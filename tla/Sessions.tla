------------------------------ MODULE Sessions ------------------------------
(***************************************************************************)
(* The broker's workers in their sessions (the two loops of threadfunction *)
(* in mbroker.c), the clients at the other end of the named pipes (the     *)
(* loops of pub.c and sub.c), and main creating and removing boxes, on top *)
(* of the file system of MonitorFS.  Its calls are atomic, but a session   *)
(* opens, writes or reads, and closes in separate calls.  A publisher here *)
(* is one that gets to its loop; pub.c ends before it (see Wire).          *)
(*                                                                         *)
(* A unit of data is one message of 1024 bytes, which is what a block      *)
(* holds: tfs_init(NULL) takes the default block size, so BlockSize is 1.  *)
(* What a worker reads from a publisher's pipe and stores as one message   *)
(* is a batch: what one read of that pipe returns.                         *)
(*                                                                         *)
(* Named pipes are the operating system's: open waits for the other end,   *)
(* a write without a reader kills the writer (SIGPIPE, which neither       *)
(* program handles), a read without a writer returns what is left, then 0. *)
(***************************************************************************)
EXTENDS Integers, SequencesExt

CONSTANTS
    Publishers, Subscribers,    \* the workers' sessions
    BoxOf,                      \* the box each is registered for
    Boxes, NoName, Junk, DirData,
    MaxInodeCount, MaxBlockCount, MaxOpenFilesCount, MaxDirEntries, SizeModulus,
    MaxSent,                    \* bound: messages of each publisher
    MaxRequests                 \* bound: boxes that main creates or removes

Workers == Publishers \cup Subscribers

Numbers == 1 .. Max({MaxSent[p] : p \in Publishers})

\* The messages from .. to of a publisher, read at once.
Batches == [from : Numbers, to : Numbers, by : Publishers]

ASSUME SessionAssumption ==
    /\ Publishers \cap Subscribers = {} /\ IsFiniteSet(Workers)
    /\ BoxOf \in [Workers -> Boxes]
    /\ Publishers # {} /\ MaxSent \in [Publishers -> Nat] /\ MaxRequests \in Nat
    /\ IsFiniteSet(Boxes) /\ Cardinality(Boxes) < MaxInodeCount
    /\ Cardinality(Boxes) <= MaxDirEntries /\ Cardinality(Boxes) <= MaxOpenFilesCount

\* As in MonitorFS, for blocks of one unit and offsets up to 2.
ASSUME LimitsAssumption ==
    /\ MaxInodeCount \in Nat /\ MaxBlockCount \in Nat \ {0}
    /\ MaxOpenFilesCount \in Nat /\ MaxDirEntries \in Nat
    /\ SizeModulus \in Nat /\ SizeModulus > MaxBlockCount + 3
    /\ NoName \notin Boxes /\ Junk \notin Batches /\ DirData \notin Batches

VARIABLES
    inode, freeinode_ts, fs_data, free_blocks, dir, open_file_table,
    free_open_file_entries, status, last,       \* the file system
    worker,             \* where each worker is, its handle, what it has read
    client,             \* its named pipe, and the process at the other end
    pipe,               \* numbers of the messages in each publisher's pipe
    sent,               \* how many messages each publisher has written
    got,                \* what was sent to each subscriber
    main, requests,     \* where main is; how many boxes it has worked on
    leaked,             \* the handles that main has opened
    cut                 \* history: a box was removed that a session had open

F == INSTANCE MonitorFS WITH
         Paths <- Boxes, InvalidPaths <- {}, LongPaths <- {}, Bytes <- Batches,
         BlockSize <- 1, MaxTransfer <- 1, OffsetBound <- 2

disk == <<inode, freeinode_ts, fs_data, free_blocks, dir, open_file_table,
          free_open_file_entries, status>>
fs == <<disk, last>>
pipes == <<client, pipe, sent, got>>
requesting == <<main, requests, leaked, cut>>
vars == <<fs, worker, pipes, requesting>>

TypeOK ==
    /\ F!TypeOK
    /\ worker \in [Workers ->
           [at : {"open", "read", "file", "write", "send", "close"},
            h : {-1} \cup F!Handles, data : Seq(Batches \cup {Junk, DirData})]]
    /\ client \in [Workers -> {"none", "open", "on", "gone"}]
    /\ pipe \in [Publishers -> Seq(Numbers)]
    /\ sent \in [Publishers -> {0} \cup Numbers]
    /\ got \in [Subscribers -> Seq(Batches \cup {Junk, DirData})]
    /\ main \in {"read", "killed"} \cup Boxes
    /\ requests \in 0 .. MaxRequests
    /\ leaked \subseteq F!Handles /\ cut \in BOOLEAN

NoResult == [call |-> "init", val |-> 0, data |-> <<>>]

\* A session begins only when its box is there (register_publisher), so main has
\* created the boxes, in some order, and has kept a handle of each.  Nothing makes
\* the clients' pipes: a session may begin without one.
Init ==
    LET names == SetToSeq(Boxes)
        made(k) == k \in 1 .. Len(names)
    IN  /\ inode = [i \in F!INums |->
               IF i = F!ROOT_DIR_INUM
               THEN [i_node_type |-> "T_DIRECTORY", i_size |-> 1, i_data_block |-> 0]
               ELSE F!NewFile]
        /\ freeinode_ts = [i \in F!INums |->
               IF i = F!ROOT_DIR_INUM \/ made(i) THEN "TAKEN" ELSE "FREE"]
        /\ fs_data = [d \in F!Addresses |-> IF d = 0 THEN DirData ELSE Junk]
        /\ free_blocks = [n \in F!BlockNumbers |-> IF n = 0 THEN "TAKEN" ELSE "FREE"]
        /\ dir = [n \in F!Slots |->
               IF made(n + 1) THEN [d_name |-> names[n + 1], d_inumber |-> n + 1]
               ELSE [d_name |-> NoName, d_inumber |-> -1]]
        /\ open_file_table = [h \in F!Handles |->
               [of_inumber |-> IF made(h + 1) THEN h + 1 ELSE 0, of_offset |-> 0]]
        /\ free_open_file_entries = [h \in F!Handles |->
               IF made(h + 1) THEN "TAKEN" ELSE "FREE"]
        /\ leaked = {h \in F!Handles : made(h + 1)}
        /\ status = "running" /\ last = NoResult
        /\ worker = [w \in Workers |-> [at |-> "open", h |-> -1, data |-> <<>>]]
        /\ client \in [Workers -> {"none", "open"}]
        /\ pipe = [p \in Publishers |-> <<>>]
        /\ sent = [p \in Publishers |-> 0]
        /\ got = [s \in Subscribers |-> <<>>]
        /\ main = "read" /\ requests = 0 /\ cut = FALSE

-----------------------------------------------------------------------------
\* No call to the file system; what the last one returned is forgotten.
NoCall == last' = NoResult /\ UNCHANGED disk

Running == status = "running" /\ main # "killed"

At(w, label) == Running /\ worker[w].at = label
Goto(w, label) == worker' = [worker EXCEPT ![w].at = label]

(* Any session *)

\* Mutant: the worker leaves its loop.
Leave == "leave"

\* Both loops run for ever.
NextRound == "open"

\* open of the client's pipe: both ends wait for each other, and the client
\* keeps its end open.  Where there is no pipe it fails, which nobody looks at.
OpenPipe(w) ==
    /\ At(w, "open")
    /\ client[w] # "gone"
    /\ client' = IF client[w] = "none" THEN client ELSE [client EXCEPT ![w] = "on"]
    /\ Goto(w, IF w \in Publishers THEN "read" ELSE "file")
    /\ NoCall /\ UNCHANGED <<pipe, sent, got, requesting>>

\* Mutant: the box is read and written from its start.
StartMode == {}

SessionMode == {"APPEND"}

OpenBox(w) ==
    /\ At(w, "file")
    /\ F!tfs_open(BoxOf[w], SessionMode)
    /\ worker' = [worker EXCEPT ![w].h = last'.val,
                      ![w].at = IF w \in Publishers THEN "write" ELSE "read"]
    /\ UNCHANGED <<pipes, requesting>>

\* Mutant: the handle is kept.
ForgetHandle(h) == last' = last /\ UNCHANGED fs

CloseHandle(h) == F!tfs_close(h)

\* Closing a pipe that nobody else has open loses what is left in it.
AfterClose(p, q) == IF client[p] = "gone" THEN <<>> ELSE q

ClosePipe(w) ==
    pipe' = [p \in Publishers |-> IF p = w THEN AfterClose(p, pipe[p]) ELSE pipe[p]]

\* tfs_close, then close of the pipe.
CloseBox(w) ==
    /\ At(w, "close")
    /\ CloseHandle(worker[w].h)
    /\ worker' = [worker EXCEPT ![w] = [at |-> NextRound, h |-> -1, data |-> <<>>]]
    /\ ClosePipe(w)
    /\ UNCHANGED <<client, sent, got, requesting>>

HasPipeOpen(w) == worker[w].at # "open"

(* A publisher's session *)

\* What a read leaves in the pipe q when it ends in the n-th message there, or
\* within it: it returns at most MESSAGE_SIZE - 1 bytes, and every message has
\* less, so that it never ends within the first one.
Unread(q, n) ==
    {SubSeq(q, n + 1, Len(q))} \cup (IF n > 1 THEN {SubSeq(q, n, Len(q))} ELSE {})

\* read waits for a message; it returns nothing when the publisher is gone, and
\* -1 without a pipe: the zero that is then written in front of buffer falls on
\* locals that the next round sets again.  What was read is stored only when it
\* begins with a 9: the first character is the code.
ReadPipe(p) ==
    /\ At(p, "read")
    /\ \/ \E n \in 1 .. Len(pipe[p]) : \E q \in Unread(pipe[p], n) :
             /\ worker' = [worker EXCEPT ![p].at = "file",
                    ![p].data = <<[from |-> Head(pipe[p]), to |-> pipe[p][n], by |-> p]>>]
             /\ pipe' = [pipe EXCEPT ![p] = q]
       \/ \E n \in 1 .. Len(pipe[p]) : \E q \in Unread(pipe[p], n) :
             /\ Goto(p, NextRound)
             /\ pipe' = [pipe EXCEPT ![p] = AfterClose(p, q)]
       \/ /\ pipe[p] = <<>> /\ client[p] # "on"
          /\ Goto(p, NextRound)
          /\ UNCHANGED pipe
    /\ NoCall /\ UNCHANGED <<client, sent, got, requesting>>

WriteBox(p) ==
    /\ At(p, "write")
    /\ F!tfs_write(worker[p].h, worker[p].data)
    /\ Goto(p, "close")
    /\ UNCHANGED <<pipes, requesting>>

(* A subscriber's session *)

ReadBox(s) ==
    /\ At(s, "read")
    /\ F!tfs_read(worker[s].h, 1)
    /\ worker' = [worker EXCEPT ![s].data = last'.data,
                      ![s].at = IF last'.val > 0 THEN "send" ELSE "close"]
    /\ UNCHANGED <<pipes, requesting>>

\* send_msg writes up to the first zero byte, and nothing of a message that
\* begins with one.  A write without its reader, or without a pipe, ends the
\* broker.
Send(s) ==
    /\ At(s, "send")
    /\ \/ /\ Goto(s, "read")
          /\ UNCHANGED <<got, main>>
       \/ /\ client[s] = "on"
          /\ got' = [got EXCEPT ![s] = @ \o worker[s].data]
          /\ Goto(s, "read")
          /\ UNCHANGED main
       \/ /\ client[s] \in {"gone", "none"}
          /\ main' = "killed"
          /\ UNCHANGED <<worker, got>>
    /\ NoCall /\ UNCHANGED <<client, pipe, sent, requests, leaked, cut>>

(* Clients *)

\* pub.c sends what it reads; when its input ends it sends the last one again
\* and again.  A message that the worker's end of the pipe is not open for
\* ends the client.
Publish(p) ==
    /\ client[p] = "on" /\ sent[p] < MaxSent[p]
    /\ sent' = [sent EXCEPT ![p] = @ + 1]
    /\ IF HasPipeOpen(p) /\ Running
       THEN pipe' = [pipe EXCEPT ![p] = Append(@, sent'[p])] /\ UNCHANGED client
       ELSE /\ client' = [client EXCEPT ![p] = "gone"]
            /\ pipe' = [pipe EXCEPT ![p] = <<>>]
    /\ NoCall /\ UNCHANGED <<worker, got, requesting>>

\* A signal ends the client.
Quit(w) ==
    /\ client[w] \in {"open", "on"}
    /\ client' = [client EXCEPT ![w] = "gone"]
    /\ pipe' = [p \in Publishers |-> IF p = w /\ ~HasPipeOpen(p) THEN <<>> ELSE pipe[p]]
    /\ NoCall /\ UNCHANGED <<worker, sent, got, requesting>>

(* main *)

Leak == leaked' = leaked \cup (IF last'.val = -1 THEN {} ELSE {last'.val})

create_box(b) ==
    /\ Running /\ main = "read" /\ requests < MaxRequests
    /\ requests' = requests + 1
    /\ F!tfs_open(b, {"CREAT"})
    /\ Leak
    /\ UNCHANGED <<worker, pipes, main, cut>>

\* remove_box opens the box first, and creates it if it is not there.
remove_box(b) ==
    /\ Running /\ main = "read" /\ requests < MaxRequests
    /\ requests' = requests + 1
    /\ F!tfs_open(b, {"CREAT"})
    /\ Leak
    /\ main' = IF last'.val = -1 THEN "read" ELSE b
    /\ UNCHANGED <<worker, pipes, cut>>

\* Open in a session, where the box is the file that has its name now.
InSession(b) ==
    \E w \in Workers :
        /\ worker[w].h # -1
        /\ open_file_table[worker[w].h].of_inumber = F!tfs_lookup(b)

UnlinkBox ==
    /\ Running /\ main \in Boxes
    /\ cut' = (cut \/ InSession(main))
    /\ F!tfs_unlink(main)
    /\ main' = "read"
    /\ UNCHANGED <<worker, pipes, requests, leaked>>

-----------------------------------------------------------------------------
WorkerStep(w) ==
    \/ OpenPipe(w) \/ OpenBox(w) \/ CloseBox(w)
    \/ w \in Publishers /\ (ReadPipe(w) \/ WriteBox(w))
    \/ w \in Subscribers /\ (ReadBox(w) \/ Send(w))

Next ==
    \/ \E w \in Workers : WorkerStep(w) \/ Quit(w)
    \/ \E p \in Publishers : Publish(p)
    \/ \E b \in Boxes : create_box(b) \/ remove_box(b)
    \/ UnlinkBox

Spec == Init /\ [][Next]_vars

\* The system runs every worker that can go on.
Fairness == \A w \in Workers : WF_vars(WorkerStep(w))

FairSpec == Spec /\ Fairness

-----------------------------------------------------------------------------
(* Properties *)

\* Every handle in use is one that main has leaked or one that exactly one
\* session has, whatever calls have failed: the sessions themselves never use
\* up the open file table (threadfunction's tfs_open and tfs_close).
HandlesAccounted ==
    LET held(w) == worker[w].h # -1
    IN  /\ {h \in F!Handles : free_open_file_entries[h] = "TAKEN"}
               = leaked \cup {worker[w].h : w \in {v \in Workers : held(v)}}
        /\ \A w \in Workers : held(w) => worker[w].h \notin leaked
        /\ \A w, v \in Workers : (w # v /\ held(w)) => worker[w].h # worker[v].h

\* A session fails to open a box that is there, and then loses a message without
\* a word (nobody looks at tfs_open's result), only when main, which closes none
\* of its handles, has left fewer of them than there are sessions.
OpenFailsHasCause ==
    [][\A w \in Workers :
           (worker[w].at = "file" /\ worker'[w].at # "file" /\ worker'[w].h = -1) =>
               \/ F!tfs_lookup(BoxOf[w]) = -1
               \/ Cardinality(leaked) + Cardinality(Workers) > MaxOpenFilesCount]_vars

\* What a subscriber is sent is what publishers have stored, and what it gets of
\* one publisher is in the order it was published, with nothing twice, although it
\* opens and reads the box over and over again (O_APPEND positions it behind what
\* is there).  The end of a message that a read has cut may follow on its own.
SentInOrder ==
    \A s \in Subscribers : \A k \in 1 .. Len(got[s]) :
        /\ got[s][k] \in Batches
        /\ \A j \in 1 .. k - 1 : got[s][j].by = got[s][k].by =>
               got[s][j].from < got[s][k].from /\ got[s][j].to <= got[s][k].from

\* The broker ends in an assertion only after a box was removed under a session.
PanicHasCause == status # "running" => cut

Contents(b) ==
    LET i == inode[F!tfs_lookup(b)]
    IN  IF F!tfs_lookup(b) = -1 \/ i.i_size = 0 THEN Junk
        ELSE fs_data[i.i_data_block]

\* A message that a box has is there until the box is removed: nothing that is
\* published later replaces it, as long as no box is removed under a session and
\* no box has two publishers (register_publisher sees to that).
StoredStays ==
    [][\A b \in Boxes : (Contents(b) # Junk /\ ~cut')
           => Contents(b)' = Contents(b) \/ F!tfs_lookup(b)' = -1]_vars

\* Each message that a publisher has written is taken from its pipe, or lost with
\* its process; unless the broker ends.
Taken ==
    \A p \in Publishers : \A k \in Numbers :
        (k \in ToSet(pipe[p])) ~> (k \notin ToSet(pipe[p]) \/ ~Running)

=============================================================================
