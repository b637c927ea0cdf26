------------------------------- MODULE Broker -------------------------------
(***************************************************************************)
(* The message broker's main thread and its pool of workers (mbroker.c) up *)
(* to the point where a worker enters its session, on top of the queue of  *)
(* PcQueue.  Main reads a request from the registration pipe into its one  *)
(* buffer, serves it, and hands a registration over by enqueueing the      *)
(* address of that buffer; a worker dequeues one address, copies what the  *)
(* buffer holds by then, and stays in the session it finds there.          *)
(*                                                                         *)
(* Only main touches userarray, sessions and n_boxes, so a request is      *)
(* served in one step up to where main can wait: in pcq_enqueue, and for   *)
(* the reader of the pipe it answers on.  The workers' condition variables *)
(* and threads_used are left out: a worker waits on its condition variable *)
(* only for a NULL from pcq_dequeue, and every slot of the ring holds an   *)
(* address from pcq_create on.  The file system is the set of files that   *)
(* exist, the number of handles that main keeps, and a handle or none for  *)
(* each worker in its session.  userarray has room for no entry; an access *)
(* to it is one to memory like any other here, or ends the process.        *)
(***************************************************************************)
EXTENDS Integers, Sequences, FiniteSets

CONSTANTS
    Main, Workers,      \* the threads; max_sessions is the number of workers
    Boxes,              \* box names in requests
    InvalidBoxes,       \* those that are no path name for TecnicoFS
    NoBox,              \* the empty boxname of a cleared entry
    MaxOpenFilesCount,  \* handles of the file system
    MaxFiles,           \* files that its directory and inode table hold
    MaxRequests,        \* bound: requests that main receives
    SizeModulus, Junk, Nobody       \* as in PcQueue

max_sessions == Cardinality(Workers)

ASSUME BrokerAssumption ==
    /\ IsFiniteSet(Workers) /\ Workers # {} /\ Main \notin Workers
    /\ InvalidBoxes \subseteq Boxes /\ NoBox \notin Boxes
    /\ MaxOpenFilesCount \in Nat /\ MaxFiles \in Nat /\ MaxRequests \in Nat
    /\ Nobody \notin Workers \cup {Main}
    /\ SizeModulus \in Nat /\ SizeModulus > max_sessions

VARIABLES
    pcq_buffer, pcq_head, pcq_tail, pcq_current_size, g_value, size_lock,
    head_lock, tail_lock, pusher_lock, popper_lock, pc, calls, result, pushes,
    pops,               \* the queue
    main,               \* where main is
    buffer,             \* main's receive buffer
    userarray, sessions, n_boxes,
    files, handles,     \* boxes with a file, handles that main never closes
    worker,             \* where each worker is, what it has copied, and a
                        \* history: whether that is the request it dequeued
    registered,         \* history: the requests enqueued
    removed             \* history: a box has been removed

Q == INSTANCE PcQueue WITH
         Producers <- {Main}, Consumers <- Workers, Capacity <- max_sessions,
         MaxCalls <- MaxRequests, reserving <- FALSE

queue == <<pcq_buffer, pcq_head, pcq_tail, pcq_current_size, g_value, size_lock,
           head_lock, tail_lock, pusher_lock, popper_lock, pc, calls, result,
           pushes, pops>>
tables == <<userarray, sessions, n_boxes, files, handles, registered, removed>>
vars == <<queue, main, buffer, tables, worker>>

\* The codes that main knows, as its atoi reads them, and the rest.
Codes == {"publisher", "subscriber", "create", "remove", "list", "other"}

\* id tells requests apart as the client's pipe name does; 0 is memory nobody
\* has written yet.
Requests == [code : Codes, box : Boxes, id : 0 .. MaxRequests]

\* Nobody looks at what is there before the first request or copy.
NoRequest == [code |-> "other", box |-> NoBox, id |-> 0]

Indices == 0 .. MaxRequests - 1
NoEntry == [boxname |-> NoBox, i |-> -1]

TypeOK ==
    /\ Q!TypeOK
    /\ main \in {"read", "serve", "enqueue", "answer", "ended"}
    /\ buffer \in Requests \cup {NoRequest}
    /\ userarray \in [Indices -> [boxname : Boxes \cup {NoBox}, i : {-1, 0, 1}]]
    /\ sessions \in 0 .. MaxRequests /\ n_boxes \in Int
    /\ files \subseteq Boxes \ InvalidBoxes /\ handles \in 0 .. MaxOpenFilesCount
    /\ worker \in [Workers -> [at : {"start", "dequeue", "copy", "parse",
                                     "publish", "subscribe"},
                               publisher : BOOLEAN, box : Boxes \cup {NoBox},
                               own : BOOLEAN]]
    /\ registered \in Seq(1 .. MaxRequests)
    /\ removed \in BOOLEAN

Init ==
    /\ Q!Init
    /\ main = "read"
    /\ buffer = NoRequest
    /\ userarray = [a \in Indices |-> NoEntry]
    /\ sessions = 0 /\ n_boxes = 0
    /\ files = {} /\ handles = 0
    /\ worker = [w \in Workers |-> [at |-> "start", publisher |-> FALSE,
                                    box |-> NoBox, own |-> TRUE]]
    /\ registered = <<>> /\ removed = FALSE

-----------------------------------------------------------------------------
(* Main *)

Running == main # "ended"

\* End of file on the registration pipe; a byte stored through the pointer
\* ccode that main never sets; an entry of userarray that is no memory; a
\* failed write in send_msg, or the null pointers of list_boxes.
ProcessEnds == main' = "ended" /\ UNCHANGED <<queue, buffer, tables, worker>>

Receive ==
    /\ main = "read"
    /\ \/ /\ buffer.id < MaxRequests
          /\ \E r \in Requests : r.id = buffer.id + 1 /\ buffer' = r
          /\ main' = "serve"
          /\ UNCHANGED <<queue, tables, worker>>
       \/ ProcessEnds

\* A worker in its session opens its box, and closes it, again and again.
HeldBySessions ==
    0 .. Cardinality({w \in Workers : worker[w].at \in {"publish", "subscribe"}})

\* tfs_open of the request's box, while the sessions hold so many handles.
CanOpen(names, held) ==
    buffer.box \in names /\ handles + held < MaxOpenFilesCount

\* Mutant: the entries are not searched.
NeverPublished(box) == FALSE

AlreadyPublished(box) ==
    \E a \in 0 .. max_sessions - 1 :
        a \in Indices /\ userarray[a] = [boxname |-> box, i |-> 0]

Refused(held) ==
    \/ ~CanOpen(files, held)
    \/ buffer.code = "publisher" /\ AlreadyPublished(buffer.box)

\* register_publisher and register_subscriber, which closes what it opens.
Register ==
    /\ main = "serve" /\ buffer.code \in {"publisher", "subscriber"}
    /\ \/ /\ \E held \in HeldBySessions : Refused(held)
          /\ main' = "read"
          /\ UNCHANGED <<queue, buffer, tables, worker>>
       \/ /\ \E held \in HeldBySessions : ~Refused(held)
          /\ userarray' = [userarray EXCEPT ![sessions] =
                 [boxname |-> buffer.box,
                  i |-> IF buffer.code = "publisher" THEN 0 ELSE 1]]
          /\ registered' = Append(registered, buffer.id)
          /\ main' = "enqueue"
          /\ Q!Call(Main)
          /\ UNCHANGED <<buffer, sessions, n_boxes, files, handles, worker,
                         removed>>
       \/ ProcessEnds

Enqueue ==
    /\ main = "enqueue"
    /\ Q!Step(Main) \/ Q!SpuriousWake(Main)
    /\ UNCHANGED <<main, buffer, tables, worker>>

\* Mutant: the counter of registrations is not moved on.
SameEntry == sessions

NextEntry == sessions + 1

\* pcq_enqueue has returned; the signal that follows finds no worker waiting.
Registered ==
    /\ main = "enqueue" /\ pc[Main] = "idle"
    /\ sessions' = NextEntry
    /\ main' = "read"
    /\ UNCHANGED <<queue, buffer, userarray, n_boxes, files, handles, worker,
                   registered, removed>>

\* Names that are there after tfs_open with TFS_O_CREAT: also when no handle is
\* left, but not when there is no room for one more file.
Creatable ==
    files \cup (IF Cardinality(files) < MaxFiles THEN Boxes \ InvalidBoxes ELSE {})

\* The handle that tfs_open with TFS_O_CREAT returns is never closed.
OpenCreat(opened) == handles' = handles + (IF opened THEN 1 ELSE 0)

\* The box is counted when tfs_open failed.
create_box ==
    /\ main = "serve" /\ buffer.code = "create"
    /\ \E held \in HeldBySessions :
           /\ OpenCreat(CanOpen(Creatable, held))
           /\ n_boxes' = n_boxes + (IF CanOpen(Creatable, held) THEN 0 ELSE 1)
    /\ files' = files \cup ({buffer.box} \cap Creatable)
    /\ main' = "answer"
    /\ UNCHANGED <<queue, buffer, userarray, sessions, worker, registered, removed>>

\* Mutant: the names are not compared.
AllEntries(box) == {a \in Indices : a < max_sessions}

EntriesOf(box) ==
    {a \in Indices : a < max_sessions /\ userarray[a].boxname = box}

remove_box ==
    /\ main = "serve" /\ buffer.code = "remove"
    /\ main' = "answer"
    /\ \/ /\ \E held \in HeldBySessions : ~CanOpen(Creatable, held)
          /\ OpenCreat(FALSE)
          /\ files' = files \cup ({buffer.box} \cap Creatable)
          /\ UNCHANGED <<userarray, sessions, n_boxes, removed>>
       \/ /\ \E held \in HeldBySessions : CanOpen(Creatable, held)
          /\ OpenCreat(TRUE)
          /\ files' = files \ {buffer.box}
          /\ n_boxes' = n_boxes - 1
          /\ userarray' = [a \in Indices |-> IF a \in EntriesOf(buffer.box)
                                             THEN NoEntry ELSE userarray[a]]
          /\ sessions' = sessions - Cardinality(EntriesOf(buffer.box))
          /\ removed' = TRUE
    /\ UNCHANGED <<queue, buffer, worker, registered>>

list_boxes ==
    /\ main = "serve" /\ buffer.code = "list"
    /\ main' = "answer"
    /\ UNCHANGED <<queue, buffer, tables, worker>>

Unknown ==
    /\ main = "serve" /\ buffer.code = "other"
    /\ main' = "read"
    /\ UNCHANGED <<queue, buffer, tables, worker>>

Answered == main' = "read" /\ UNCHANGED <<queue, buffer, tables, worker>>

\* Main waits until someone reads the pipe of the request.  With no such pipe an
\* empty answer is sent nowhere, and any other ends the process.
SendAnswer ==
    /\ main = "answer" /\ buffer.code \in {"create", "remove"}
    /\ Answered \/ ProcessEnds

\* The messages of list_boxes are built through null pointers: all goes well only
\* when there is nothing to list.
SendList ==
    /\ main = "answer" /\ buffer.code = "list"
    /\ (n_boxes = 0 /\ Answered) \/ ProcessEnds

Answer == SendAnswer \/ SendList

-----------------------------------------------------------------------------
(* Workers *)

CallDequeue(w) ==
    /\ worker[w].at = "start"
    /\ worker' = [worker EXCEPT ![w].at = "dequeue"]
    /\ Q!Call(w)
    /\ UNCHANGED <<main, buffer, tables>>

Dequeue(w) ==
    /\ worker[w].at = "dequeue"
    /\ Q!Step(w) \/ Q!SpuriousWake(w)
    /\ worker' = [worker EXCEPT ![w].at = IF pc'[w] = "idle" THEN "copy" ELSE @]
    /\ UNCHANGED <<main, buffer, tables>>

\* What the address that the worker has leads to: main's buffer as it is now, or
\* the memory that pcq_create allocated, which nobody ever writes.
Pointed(w) ==
    IF result[w] = Junk THEN {r \in Requests : r.id = 0} ELSE {buffer}

\* Request r is the one whose registration the worker dequeued.
IsOwn(w, r) == result[w] # Junk /\ registered[result[w][2]] = r.id

\* The memcpy is not atomic: main may read the next request in the middle.
CopyCode(w) ==
    /\ worker[w].at = "copy"
    /\ \E r \in Pointed(w) :
           worker' = [worker EXCEPT ![w].publisher = r.code = "publisher",
                                    ![w].own = IsOwn(w, r), ![w].at = "parse"]
    /\ UNCHANGED <<queue, main, buffer, tables>>

\* atoi reads on behind the one byte it is given and code keeps 8 bits of the
\* number, so that any byte may be read as 1 ("257"), or as something else, which
\* makes a subscriber.
CopyBox(w) ==
    /\ worker[w].at = "parse"
    /\ \E r \in Pointed(w), session \in {"publish", "subscribe"} :
           worker' = [worker EXCEPT ![w].box = r.box, ![w].at = session,
                                    ![w].own = @ /\ IsOwn(w, r)]
    /\ UNCHANGED <<queue, main, buffer, tables>>

-----------------------------------------------------------------------------
Serve == Register \/ Registered \/ create_box \/ remove_box \/ list_boxes \/ Unknown

WorkerStep(w) == CallDequeue(w) \/ Dequeue(w) \/ CopyCode(w) \/ CopyBox(w)

Next ==
    /\ Running
    /\ \/ Receive \/ Serve \/ Enqueue \/ Answer
       \/ \E w \in Workers : WorkerStep(w)

\* The system runs every thread that can run.  Nothing makes a client send, or
\* open the pipe that main answers on.
Fairness ==
    /\ WF_vars(Running /\ (Serve \/ Enqueue))
    /\ \A w \in Workers : WF_vars(Running /\ WorkerStep(w))

Spec == Init /\ [][Next]_vars

FairSpec == Spec /\ Fairness

-----------------------------------------------------------------------------
(* Properties *)

Waits(t) == pc[t] \in {"check", "test", "asleep", "woken"}

MainStuck == Waits(Main) /\ Q!IsFull /\ g_value = 0

\* A worker never sleeps inside the queue, although it dequeues before anything
\* is registered; and main can wait there for room only after a worker has
\* dequeued and more than max_sessions registrations have come (pcq_dequeue and
\* pcq_enqueue as the broker calls them).
OnlyMainHangs ==
    /\ \A w \in Workers : pc[w] # "asleep"
    /\ MainStuck => pops > 0 /\ pushes > max_sessions

\* The worker runs on memory nobody wrote, or on a request that came after the
\* registration it dequeued, or on a mixture.
Deceived(w) == ~worker[w].own

\* The worker publishes for a request in which main saw no publisher.
Misread(w) == ~worker[w].publisher

\* Registered in an entry of userarray that register_publisher does not search.
Unsearched(w) == result[w] # Junk /\ result[w][2] > max_sessions

\* register_publisher says "Box já está associada com um Publisher": two workers
\* publish to one box only if one of them did not serve its own registration or
\* misread its code, if max_sessions registrations had been made before, or if a
\* box was removed.
TwoPublishersHaveCause ==
    \A w, v \in Workers :
        (w # v /\ worker[w].at = "publish" /\ worker[v].at = "publish"
               /\ worker[w].box = worker[v].box)
            => \/ Deceived(w) \/ Deceived(v) \/ Misread(w) \/ Misread(v)
               \/ Unsearched(w) \/ Unsearched(v)
               \/ removed

Live == {a \in Indices : userarray[a].i # -1}

\* sessions, the index of the next entry, never falls below the number of entries
\* in use, whatever remove_box subtracts from it.
SessionsCoverEntries ==
    Cardinality(Live) <= sessions + (IF main = "enqueue" THEN 1 ELSE 0)

\* No registration overwrites the entry of an earlier one until a box is removed:
\* only what remove_box subtracts from sessions brings the index of the next entry
\* back to one in use (register_publisher, register_subscriber, remove_box).
OverwriteHasCause ==
    [][\A a \in Indices : userarray'[a] # userarray[a] =>
           userarray[a].i = -1 \/ removed']_vars

\* Every worker ends up in a session, registrations or not, unless main hangs
\* inside the queue or the process ends.
WorkersSettle ==
    \A w \in Workers : <>(\/ worker[w].at \in {"publish", "subscribe"}
                          \/ MainStuck \/ ~Running)

=============================================================================
