--------------------------- MODULE Sessions_proofs ---------------------------
(***************************************************************************)
(* TLAPS proofs about Sessions, for any number of sessions, boxes and      *)
(* messages: the variables keep their types, the sessions give back the    *)
(* handles they take, the broker ends in an assertion only after a box was *)
(* removed under a session, a stored message stays, and a subscriber is    *)
(* sent what was published in its order, and nothing twice.                *)
(***************************************************************************)
EXTENDS Sessions, TableLemmas, SequenceTheorems, FunctionTheorems

-----------------------------------------------------------------------------
(* The file system inside the broker *)

\* The facts that MonitorFS_proofs states, about the broker's file system.
FP == INSTANCE MonitorFS_proofs WITH
         Paths <- Boxes, InvalidPaths <- {}, LongPaths <- {}, Bytes <- Batches,
         BlockSize <- 1, MaxTransfer <- 1, OffsetBound <- 2

\* The limits of the file system are those that MonitorFS_proofs assumes.
LEMMA LimitsFit ==
    /\ FP!CountAssumption /\ FP!ModulusAssumption /\ FP!NameAssumption
    /\ FP!ByteAssumption
<1>1. Cardinality(Boxes) \in Nat  BY SessionAssumption, FS_CardinalityType
<1>2. MaxInodeCount # 0  BY <1>1, SessionAssumption, LimitsAssumption
<1>3. MaxBlockCount * 1 = MaxBlockCount  BY LimitsAssumption
<1> QED
  BY <1>2, <1>3, LimitsAssumption
  DEF FP!CountAssumption, FP!ModulusAssumption, FP!NameAssumption, FP!ByteAssumption

\* Both instances name the same formulas.
LEMMA SameTables ==
    /\ F!TypeOK <=> FP!TypeOK
    /\ F!Handles = FP!Handles
    /\ \A b \in Boxes : F!tfs_lookup(b) = FP!tfs_lookup(b)
<1>1. F!TypeOK <=> FP!TypeOK
  BY DEF F!TypeOK, FP!TypeOK, F!INums, FP!INums, F!AllocationState,
         FP!AllocationState, F!Addresses, FP!Addresses, F!BlockNumbers,
         FP!BlockNumbers, F!Slots, FP!Slots, F!Handles, FP!Handles
<1>2. F!Handles = FP!Handles  BY DEF F!Handles, FP!Handles
<1>3. ASSUME NEW b \in Boxes PROVE F!tfs_lookup(b) = FP!tfs_lookup(b)
  BY DEF F!tfs_lookup, FP!tfs_lookup, F!valid_pathname, FP!valid_pathname,
         F!find_in_dir, FP!find_in_dir, F!Slots, FP!Slots, F!Min, FP!Min
<1> QED  BY <1>1, <1>2, <1>3

LEMMA SameOpen ==
    ASSUME NEW b \in Boxes, NEW mode, F!tfs_open(b, mode)
    PROVE  FP!tfs_open(b, mode)
<1> USE DEF F!Return, FP!Return, F!tables, FP!tables, F!Free, FP!Free,
            F!valid_pathname, FP!valid_pathname, F!Min, FP!Min
<1>1. F!tfs_lookup(b) = FP!tfs_lookup(b)  BY SameTables
<1>2. ASSUME NEW i, NEW o, F!add_to_open_file_table(i, o)
      PROVE  FP!add_to_open_file_table(i, o)
  BY <1>2 DEF F!add_to_open_file_table, FP!add_to_open_file_table
<1>3. F!OpenRefused(b, mode) => FP!OpenRefused(b, mode)
  BY <1>1 DEF F!OpenRefused, FP!OpenRefused
<1>4. F!OpenExisting(b, mode) => FP!OpenExisting(b, mode)
  BY <1>1, <1>2 DEF F!OpenExisting, FP!OpenExisting, F!SizeAfterTrunc,
                    FP!SizeAfterTrunc, F!Truncates, FP!Truncates, F!Abort, FP!Abort,
                    F!BlockNumbers, FP!BlockNumbers
<1>5. F!NewFile = FP!NewFile /\ F!EmptySlots = FP!EmptySlots
      /\ (F!CanAddEntry(b) <=> FP!CanAddEntry(b))
  BY DEF F!NewFile, FP!NewFile, F!EmptySlots, FP!EmptySlots, F!Slots, FP!Slots,
         F!CanAddEntry, FP!CanAddEntry
<1>6. F!CreateRefused(b, mode) => FP!CreateRefused(b, mode)
  BY <1>1, <1>5 DEF F!CreateRefused, FP!CreateRefused
<1>7. F!Create(b, mode) => FP!Create(b, mode)
  BY <1>1, <1>2, <1>5 DEF F!Create, FP!Create, F!add_dir_entry, FP!add_dir_entry
<1> QED
  BY <1>3, <1>4, <1>6, <1>7 DEF F!tfs_open, FP!tfs_open

LEMMA SameClose ==
    ASSUME NEW h, F!tfs_close(h) PROVE FP!tfs_close(h)
BY DEF F!tfs_close, FP!tfs_close, F!Return, FP!Return, F!IsOpen, FP!IsOpen,
       F!Handles, FP!Handles

LEMMA SameWrite ==
    ASSUME NEW h, NEW data, F!tfs_write(h, data) PROVE FP!tfs_write(h, data)
<1> USE DEF F!Return, FP!Return, F!tables, FP!tables, F!Free, FP!Free,
            F!IsOpen, FP!IsOpen, F!Handles, FP!Handles, F!Abort, FP!Abort,
            F!NeedsBlock, FP!NeedsBlock, F!Min, FP!Min
<1>1. F!WriteCount(h, data) = FP!WriteCount(h, data)
  BY DEF F!WriteCount, FP!WriteCount
<1>2. F!WriteNothing(h, data) => FP!WriteNothing(h, data)
  BY <1>1 DEF F!WriteNothing, FP!WriteNothing
<1>3. F!WriteWrapped(h, data) => FP!WriteWrapped(h, data)
  BY <1>1 DEF F!WriteWrapped, FP!WriteWrapped
<1>4. F!WriteBytes(h, data) => FP!WriteBytes(h, data)
  BY <1>1 DEF F!WriteBytes, FP!WriteBytes, F!BlockNumbers, FP!BlockNumbers,
              F!Addresses, FP!Addresses, F!BlockAddress, FP!BlockAddress
<1> QED  BY <1>2, <1>3, <1>4 DEF F!tfs_write, FP!tfs_write

LEMMA SameRead ==
    ASSUME NEW h, NEW len, F!tfs_read(h, len) PROVE FP!tfs_read(h, len)
<1> USE DEF F!Return, FP!Return, F!tables, FP!tables, F!IsOpen, FP!IsOpen,
            F!Handles, FP!Handles, F!Abort, FP!Abort, F!ReadCount, FP!ReadCount
<1>1. F!ReadNothing(h, len) => FP!ReadNothing(h, len)
  BY DEF F!ReadNothing, FP!ReadNothing
<1>2. F!ReadBytes(h, len) => FP!ReadBytes(h, len)
  BY DEF F!ReadBytes, FP!ReadBytes, F!BlockNumbers, FP!BlockNumbers,
         F!Addresses, FP!Addresses, F!BlockAddress, FP!BlockAddress
<1> QED  BY <1>1, <1>2 DEF F!tfs_read, FP!tfs_read

LEMMA SameUnlink ==
    ASSUME NEW b \in Boxes, F!tfs_unlink(b) PROVE FP!tfs_unlink(b)
<1> USE DEF F!Return, FP!Return, F!tables, FP!tables, F!Abort, FP!Abort, F!Min, FP!Min
<1>1. F!tfs_lookup(b) = FP!tfs_lookup(b)  BY SameTables
<1>2. F!UnlinkRefused(b) => FP!UnlinkRefused(b)
  BY <1>1 DEF F!UnlinkRefused, FP!UnlinkRefused
<1>3. F!Unlink(b) => FP!Unlink(b)
  BY <1>1 DEF F!Unlink, FP!Unlink, F!OwnsBlock, FP!OwnsBlock, F!clear_dir_entry,
              FP!clear_dir_entry, F!Slots, FP!Slots, F!BlockNumbers, FP!BlockNumbers
<1> QED  BY <1>2, <1>3 DEF F!tfs_unlink, FP!tfs_unlink

-----------------------------------------------------------------------------
(* Types and handles *)

Data == Seq(Batches \cup {Junk, DirData})

Places == [at : {"open", "read", "file", "write", "send", "close"},
           h : {-1} \cup FP!Handles, data : Data]

\* Where a worker may have a handle.
Holding(w) ==
    IF w \in Publishers THEN {"write", "close"} ELSE {"read", "send", "close"}

\* The file system's own invariant ends with an abort; no call comes after it.
FSInv == FP!TypeOK /\ (status = "running" => FP!IInv)

SessionsTyped ==
    /\ worker \in [Workers -> Places]
    /\ client \in [Workers -> {"none", "open", "on", "gone"}]
    /\ pipe \in [Publishers -> Seq(Numbers)]
    /\ sent \in [Publishers -> {0} \cup Numbers]
    /\ got \in [Subscribers -> Data]
    /\ main \in {"read", "killed"} \cup Boxes
    /\ requests \in 0 .. MaxRequests
    /\ leaked \subseteq FP!Handles /\ cut \in BOOLEAN

\* A publisher's worker writes the one batch it has read.
BatchRead ==
    \A p \in Publishers :
        worker[p].at \in {"file", "write"} => worker[p].data \in FP!Buffers

\* Every handle in use is leaked or has one session, which is where it may have
\* one.
HandlesHeld ==
    /\ \A h \in FP!Handles : free_open_file_entries[h] = "TAKEN" <=>
           (h \in leaked \/ \E w \in Workers : worker[w].h = h)
    /\ \A w \in Workers : worker[w].h # -1 =>
           /\ worker[w].at \in Holding(w)
           /\ worker[w].h \notin leaked
           /\ \A v \in Workers \ {w} : worker[v].h # worker[w].h

\* The inductive invariant for the types and the handles.
SInv == FSInv /\ SessionsTyped /\ BatchRead /\ HandlesHeld

LEMMA HandleNumbers == FP!Handles \subseteq Nat /\ -1 \notin FP!Handles
BY LimitsAssumption DEF FP!Handles

\* The calls keep the file system's invariant.
LEMMA CallKeepsFS ==
    ASSUME FSInv, status = "running",
           \/ \E b \in Boxes, mode \in FP!Modes : FP!tfs_open(b, mode)
           \/ \E h \in FP!CallHandles : FP!tfs_close(h)
           \/ \E h \in FP!CallHandles, data \in FP!Buffers : FP!tfs_write(h, data)
           \/ \E h \in FP!CallHandles, len \in 0 .. 1 : FP!tfs_read(h, len)
           \/ \E b \in Boxes : FP!tfs_unlink(b)
    PROVE  FP!IInv' /\ FSInv'
<1>1. FP!Next  BY DEF FP!Next
<1>2. FP!IInv'  BY <1>1, LimitsFit, FP!NextInv DEF FSInv
<1> QED  BY <1>2 DEF FSInv, FP!IInv

\* A step without a call does too.
LEMMA NoCallKeepsFS == ASSUME FSInv, NoCall PROVE FSInv'
<1>1. last' = NoResult /\ UNCHANGED disk  BY DEF NoCall
<1>2. last' \in [call : {"init", "open", "close", "read", "write", "unlink"},
                 val : Int, data : Data]
  BY <1>1 DEF NoResult, Data
<1>3. FP!TypeOK'  BY <1>1, <1>2 DEF FSInv, FP!TypeOK, disk, Data
<1>4. ASSUME status' = "running" PROVE FP!IInv'
  <2>1. FP!OnlyReadsPanic'  BY <1>4 DEF FP!OnlyReadsPanic
  <2>2. UNCHANGED FP!tables /\ FP!IInv  BY <1>1, <1>4 DEF FP!tables, disk, FSInv
  <2>3. status' \in {"running", "panic", "fault"}  BY <1>4
  <2> QED  BY <1>2, <2>1, <2>2, <2>3, LimitsFit, FP!KeepsTables DEF Data
<1> QED  BY <1>3, <1>4 DEF FSInv

\* A step of one worker, seen from its record.
LEMMA PlaceSet ==
    ASSUME SessionsTyped, NEW w \in Workers, NEW m \in Places,
           worker' = [worker EXCEPT ![w] = m]
    PROVE  /\ worker' \in [Workers -> Places] /\ worker'[w] = m
           /\ \A v \in Workers \ {w} : worker'[v] = worker[v]
BY DEF SessionsTyped

LEMMA GotoSets ==
    ASSUME SessionsTyped, NEW w \in Workers, NEW label,
           label \in {"open", "read", "file", "write", "send", "close"}, Goto(w, label)
    PROVE  /\ worker' \in [Workers -> Places]
           /\ worker'[w].at = label /\ worker'[w].h = worker[w].h
           /\ worker'[w].data = worker[w].data
           /\ \A v \in Workers \ {w} : worker'[v] = worker[v]
<1> DEFINE old == worker[w]
           m == [old EXCEPT !.at = label]
<1>1. old \in Places  BY DEF SessionsTyped
<1>2. worker' = [worker EXCEPT ![w] = m]  BY DEF Goto
<1> HIDE DEF old
<1>3. m \in Places /\ m.at = label /\ m.h = old.h /\ m.data = old.data
  BY <1>1 DEF Places
<1> HIDE DEF m
<1> QED  BY <1>2, <1>3, PlaceSet DEF old

\* Workers that move without touching their handles.
LEMMA SameHandles ==
    ASSUME HandlesHeld, UNCHANGED <<free_open_file_entries, leaked>>,
           \A v \in Workers : /\ worker'[v].h = worker[v].h
                              /\ worker[v].h # -1 => worker'[v].at \in Holding(v)
    PROVE  HandlesHeld'
BY DEF HandlesHeld

LEMMA WriteKeepsTable ==
    ASSUME NEW h, NEW data, FP!tfs_write(h, data)
    PROVE  free_open_file_entries' = free_open_file_entries
BY DEF FP!tfs_write, FP!WriteNothing, FP!WriteBytes, FP!WriteWrapped, FP!Abort,
       FP!tables

LEMMA ReadKeepsTable ==
    ASSUME NEW h, NEW len, FP!tfs_read(h, len)
    PROVE  free_open_file_entries' = free_open_file_entries
BY DEF FP!tfs_read, FP!ReadNothing, FP!ReadBytes, FP!Abort, FP!tables

LEMMA UnlinkKeepsTable ==
    ASSUME NEW b, FP!tfs_unlink(b)
    PROVE  free_open_file_entries' = free_open_file_entries
BY DEF FP!tfs_unlink, FP!UnlinkRefused, FP!Unlink, FP!Abort, FP!tables

LEMMA OpenPipeKeeps == ASSUME SInv, NEW w \in Workers, OpenPipe(w) PROVE SInv'
<1> DEFINE label == IF w \in Publishers THEN "read" ELSE "file"
<1>1. /\ worker[w].at = "open" /\ Goto(w, label) /\ NoCall
      /\ client' \in {client, [client EXCEPT ![w] = "on"]}
      /\ UNCHANGED <<pipe, sent, got, requesting>>
  BY DEF OpenPipe, At
<1>2. /\ worker' \in [Workers -> Places]
      /\ worker'[w].at = label /\ worker'[w].h = worker[w].h
      /\ \A v \in Workers \ {w} : worker'[v] = worker[v]
  BY <1>1, GotoSets DEF SInv
<1>3. FSInv'  BY <1>1, NoCallKeepsFS DEF SInv
<1>4. SessionsTyped'  BY <1>1, <1>2 DEF SInv, SessionsTyped, requesting
<1>5. BatchRead'
  BY <1>2, SessionAssumption DEF SInv, BatchRead, Workers
<1>6. worker[w].h = -1  BY <1>1 DEF SInv, HandlesHeld, Holding
<1>7. HandlesHeld'
  <2>1. \A v \in Workers : /\ worker'[v].h = worker[v].h
                           /\ worker[v].h # -1 => worker'[v].at \in Holding(v)
    BY <1>2, <1>6 DEF SInv, HandlesHeld
  <2>2. UNCHANGED <<free_open_file_entries, leaked>>
    BY <1>1 DEF NoCall, disk, requesting
  <2> QED  BY <2>1, <2>2, SameHandles DEF SInv
<1> QED  BY <1>3, <1>4, <1>5, <1>7 DEF SInv

\* tfs_open in a session: a handle that nobody has, or none.
LEMMA OpenBoxKeeps == ASSUME SInv, NEW w \in Workers, OpenBox(w) PROVE SInv'
<1>1. /\ worker[w].at = "file" /\ status = "running" /\ BoxOf[w] \in Boxes
      /\ FP!tfs_open(BoxOf[w], {"APPEND"}) /\ {"APPEND"} \in FP!Modes
      /\ UNCHANGED <<pipes, requesting>>
  BY SessionAssumption, SameOpen
  DEF OpenBox, At, Running, SessionMode, FP!Modes
<1>2. FP!IInv /\ FP!IInv' /\ FSInv'  BY <1>1, CallKeepsFS DEF SInv, FSInv
<1>3. \/ /\ last'.val = -1
         /\ UNCHANGED <<open_file_table, free_open_file_entries>>
      \/ \E h \in FP!Handles :
             /\ free_open_file_entries[h] = "FREE"
             /\ free_open_file_entries' = [free_open_file_entries EXCEPT ![h] = "TAKEN"]
             /\ last'.val = h
  BY <1>1, <1>2, LimitsFit, FP!OpenOutcome DEF FP!OpenEffect
<1> DEFINE old == worker[w]
           h1 == last'.val
           l1 == IF w \in Publishers THEN "write" ELSE "read"
           m1 == [old EXCEPT !.h = h1]
           m == [m1 EXCEPT !.at = l1]
<1>4. worker' = [worker EXCEPT ![w] = m]  BY DEF OpenBox
<1>5. old \in Places /\ h1 \in {-1} \cup FP!Handles
  BY <1>3 DEF SInv, SessionsTyped
<1> HIDE DEF old, h1
<1>6. m1 \in Places /\ m1.h = h1 /\ m1.data = old.data  BY <1>5 DEF Places
<1> HIDE DEF m1
<1>7. m \in Places /\ m.h = h1 /\ m.data = old.data /\ m.at = l1
  BY <1>6 DEF Places
<1> HIDE DEF m
<1>8. /\ worker' \in [Workers -> Places] /\ worker'[w] = m
      /\ \A v \in Workers \ {w} : worker'[v] = worker[v]
  BY <1>4, <1>7, PlaceSet DEF SInv
<1>9. SessionsTyped'
  BY <1>1, <1>8 DEF SInv, SessionsTyped, pipes, requesting
<1>10. BatchRead'
  BY <1>1, <1>7, <1>8 DEF SInv, BatchRead, old, Workers
<1>11. worker[w].h = -1  BY <1>1 DEF SInv, HandlesHeld, Holding
<1>12. HandlesHeld'
  <2>1. l1 \in Holding(w)  BY DEF Holding
  <2>2. leaked' = leaked  BY <1>1 DEF requesting
  <2>3. CASE h1 = -1
    <3>1. UNCHANGED free_open_file_entries
      BY <1>3, <2>3, HandleNumbers DEF h1
    <3> QED
      BY <1>7, <1>8, <1>11, <2>2, <2>3, <3>1, SameHandles DEF SInv, HandlesHeld
  <2>4. CASE h1 # -1
    <3>1. /\ h1 \in FP!Handles /\ free_open_file_entries[h1] = "FREE"
          /\ free_open_file_entries' = [free_open_file_entries EXCEPT ![h1] = "TAKEN"]
      BY <1>3, <2>4 DEF h1
    <3>2. /\ free_open_file_entries'[h1] = "TAKEN"
          /\ \A g \in FP!Handles : g # h1 =>
                 free_open_file_entries'[g] = free_open_file_entries[g]
      BY <3>1 DEF SInv, FSInv, FP!TypeOK
    <3>3. h1 \notin leaked /\ \A v \in Workers : worker[v].h # h1
      BY <3>1 DEF SInv, HandlesHeld
    <3> QED
      BY <1>7, <1>8, <1>11, <2>1, <2>2, <2>4, <3>1, <3>2, <3>3, HandleNumbers
      DEF SInv, HandlesHeld
  <2> QED  BY <2>3, <2>4
<1> QED  BY <1>2, <1>9, <1>10, <1>12 DEF SInv

\* tfs_close in a session gives back the handle of that session and no other.
LEMMA CloseBoxKeeps == ASSUME SInv, NEW w \in Workers, CloseBox(w) PROVE SInv'
<1> DEFINE h == worker[w].h
<1>1. /\ status = "running" /\ FP!tfs_close(h) /\ worker[w].at = "close"
      /\ worker' = [worker EXCEPT ![w] = [at |-> "open", h |-> -1, data |-> <<>>]]
      /\ ClosePipe(w)
      /\ UNCHANGED <<client, sent, got, requesting>>
  BY SameClose DEF CloseBox, At, Running, CloseHandle, NextRound
<1>2. h \in {-1} \cup FP!Handles  BY DEF SInv, SessionsTyped, Places
<1>3. FSInv'
  <2>1. h \in FP!CallHandles  BY <1>2 DEF FP!CallHandles
  <2> QED  BY <1>1, <2>1, CallKeepsFS DEF SInv
<1>4. free_open_file_entries' =
          IF h \in FP!Handles /\ free_open_file_entries[h] = "TAKEN"
          THEN [free_open_file_entries EXCEPT ![h] = "FREE"]
          ELSE free_open_file_entries
  BY <1>1 DEF FP!tfs_close, FP!IsOpen
<1>5. /\ worker' \in [Workers -> Places]
      /\ worker'[w] = [at |-> "open", h |-> -1, data |-> <<>>]
      /\ \A v \in Workers \ {w} : worker'[v] = worker[v]
  <2>1. [at |-> "open", h |-> -1, data |-> <<>>] \in Places  BY DEF Places, Data
  <2> QED  BY <1>1, <2>1, PlaceSet DEF SInv
<1>6. SessionsTyped'
  <2>1. pipe' \in [Publishers -> Seq(Numbers)]
    <3>1. <<>> \in Seq(Numbers)  OBVIOUS
    <3> QED  BY <1>1, <3>1 DEF ClosePipe, AfterClose, SInv, SessionsTyped
  <2> QED  BY <1>1, <1>5, <2>1 DEF SInv, SessionsTyped, requesting
<1>7. BatchRead'  BY <1>5 DEF SInv, BatchRead, Workers
<1>8. HandlesHeld'
  <2>1. leaked' = leaked  BY <1>1 DEF requesting
  <2>2. CASE h = -1
    <3>1. free_open_file_entries' = free_open_file_entries
      BY <1>4, <2>2, HandleNumbers
    <3> QED  BY <1>5, <2>1, <2>2, <3>1, SameHandles DEF SInv, HandlesHeld
  <2>3. CASE h # -1
    <3>1. h \in FP!Handles /\ free_open_file_entries[h] = "TAKEN"
      BY <1>2, <2>3 DEF SInv, HandlesHeld
    <3>2. /\ free_open_file_entries'[h] = "FREE"
          /\ \A g \in FP!Handles : g # h =>
                 free_open_file_entries'[g] = free_open_file_entries[g]
      BY <1>4, <3>1 DEF SInv, FSInv, FP!TypeOK
    <3>3. h \notin leaked /\ \A v \in Workers \ {w} : worker[v].h # h
      BY <2>3 DEF SInv, HandlesHeld
    <3> HIDE DEF h
    <3>4. \A g \in FP!Handles : g # h =>
              ((\E v \in Workers : worker'[v].h = g) <=>
                   \E v \in Workers : worker[v].h = g)
      <4>1. \A g \in FP!Handles : g # -1  BY HandleNumbers
      <4> QED  BY <1>5, <4>1 DEF h
    <3>5. \A v \in Workers : worker'[v].h # h
      BY <1>5, <2>3, <3>3
    <3>6. \A g \in FP!Handles : free_open_file_entries'[g] = "TAKEN" <=>
              (g \in leaked \/ \E v \in Workers : worker'[v].h = g)
      BY <3>2, <3>3, <3>4, <3>5 DEF SInv, HandlesHeld
    <3> QED  BY <1>5, <2>1, <3>6 DEF SInv, HandlesHeld
  <2> QED  BY <2>2, <2>3
<1> QED  BY <1>3, <1>6, <1>7, <1>8 DEF SInv

\* Two fields of a worker's record set at once.
LEMMA ReadSets ==
    ASSUME SessionsTyped, NEW p \in Workers, NEW d \in Data,
           worker' = [worker EXCEPT ![p].at = "file", ![p].data = d]
    PROVE  /\ worker' \in [Workers -> Places]
           /\ worker'[p].at = "file" /\ worker'[p].h = worker[p].h
           /\ worker'[p].data = d
           /\ \A v \in Workers \ {p} : worker'[v] = worker[v]
<1> DEFINE old == worker[p]
           m1 == [old EXCEPT !.at = "file"]
           m == [m1 EXCEPT !.data = d]
<1>1. worker' = [worker EXCEPT ![p] = m]  OBVIOUS
<1>2. old \in Places  BY DEF SessionsTyped
<1> HIDE DEF old
<1>3. m1 \in Places /\ m1.at = "file" /\ m1.h = old.h  BY <1>2 DEF Places
<1> HIDE DEF m1
<1>4. m \in Places /\ m.at = "file" /\ m.h = old.h /\ m.data = d
  BY <1>3 DEF Places
<1> HIDE DEF m
<1> QED  BY <1>1, <1>4, PlaceSet DEF old

\* r is q without its first d messages.
Without(q, d, r) ==
    /\ d \in 0 .. Len(q) /\ Len(r) = Len(q) - d
    /\ \A k \in 1 .. Len(r) : r[k] = q[d + k]

\* What a read leaves lacks a message at least.
LEMMA UnreadIs ==
    ASSUME NEW q \in Seq(Numbers), NEW n \in 1 .. Len(q), NEW r \in Unread(q, n)
    PROVE  r \in Seq(Numbers) /\ \E d \in 1 .. Len(q) : d >= n - 1 /\ Without(q, d, r)
<1>1. Len(q) \in Nat /\ n \in Nat /\ n >= 1  OBVIOUS
<1>2. ASSUME NEW d \in 1 .. Len(q), d >= n - 1, r = SubSeq(q, d + 1, Len(q))
      PROVE  /\ r \in Seq(Numbers)
             /\ \E e \in 1 .. Len(q) : e >= n - 1 /\ Without(q, e, r)
  <2>1. \A i \in d + 1 .. Len(q) : q[i] \in Numbers  OBVIOUS
  <2>2. d \in Nat /\ d + 1 \in Int /\ Len(q) \in Int  BY <1>1
  <2>3. /\ r \in Seq(Numbers)
        /\ Len(r) = IF d + 1 <= Len(q) THEN Len(q) - (d + 1) + 1 ELSE 0
        /\ \A i \in 1 .. Len(q) - (d + 1) + 1 : r[i] = q[d + 1 + i - 1]
    BY <1>2, <2>1, <2>2, SubSeqProperties
  <2>4. Len(r) = Len(q) - d  BY <1>1, <2>2, <2>3
  <2>5. \A k \in 1 .. Len(r) : r[k] = q[d + k]
    <3> SUFFICES ASSUME NEW k \in 1 .. Len(r) PROVE r[k] = q[d + k]  OBVIOUS
    <3>1. k \in 1 .. Len(q) - (d + 1) + 1  BY <1>1, <2>2, <2>4
    <3>2. d + 1 + k - 1 = d + k  BY <2>2, <3>1
    <3> QED  BY <2>3, <3>1, <3>2
  <2> QED  BY <1>2, <2>2, <2>3, <2>4, <2>5 DEF Without
<1>3. CASE r = SubSeq(q, n + 1, Len(q))  BY <1>1, <1>2, <1>3
<1>4. CASE n > 1 /\ r = SubSeq(q, n, Len(q))
  <2>1. n - 1 \in 1 .. Len(q) /\ n - 1 >= n - 1 /\ (n - 1) + 1 = n  BY <1>1, <1>4
  <2> QED  BY <1>2, <1>4, <2>1
<1> QED  BY <1>3, <1>4 DEF Unread

\* A publisher's worker goes back to its loop, or on with the first n messages in
\* its pipe, which may keep the end of the n-th.
LEMMA ReadPipeGoes ==
    ASSUME SessionsTyped, NEW p \in Publishers, ReadPipe(p)
    PROVE  /\ worker' \in [Workers -> Places] /\ worker'[p].h = worker[p].h
           /\ \A v \in Workers \ {p} : worker'[v] = worker[v]
           /\ pipe' \in [Publishers -> Seq(Numbers)]
           /\ \A q \in Publishers \ {p} : pipe'[q] = pipe[q]
           /\ \/ /\ worker'[p].at = "open" /\ worker'[p].data = worker[p].data
                 /\ \E d \in 0 .. Len(pipe[p]) : Without(pipe[p], d, pipe'[p])
              \/ \E m \in Batches, n, d \in 1 .. Len(pipe[p]) :
                    /\ worker'[p].at = "file" /\ worker'[p].data = <<m>>
                    /\ m.by = p /\ m.from = pipe[p][1] /\ m.to = pipe[p][n]
                    /\ d >= n - 1 /\ Without(pipe[p], d, pipe'[p])
<1>1. p \in Workers /\ pipe[p] \in Seq(Numbers)  BY DEF Workers, SessionsTyped
<1>2. <<>> \in Seq(Numbers) /\ Len(pipe[p]) \in Nat
      /\ Without(pipe[p], Len(pipe[p]), <<>>) /\ Without(pipe[p], 0, pipe[p])
  BY <1>1 DEF Without
<1>3. ASSUME Goto(p, NextRound), pipe' \in [Publishers -> Seq(Numbers)],
             \A q \in Publishers \ {p} : pipe'[q] = pipe[q],
             \E d \in 0 .. Len(pipe[p]) : Without(pipe[p], d, pipe'[p])
      PROVE  /\ worker' \in [Workers -> Places] /\ worker'[p].h = worker[p].h
             /\ \A v \in Workers \ {p} : worker'[v] = worker[v]
             /\ worker'[p].at = "open" /\ worker'[p].data = worker[p].data
  BY <1>1, <1>3, GotoSets DEF NextRound
<1>4. ASSUME NEW n \in 1 .. Len(pipe[p]), NEW q \in Unread(pipe[p], n),
             worker' = [worker EXCEPT ![p].at = "file",
                 ![p].data = <<[from |-> Head(pipe[p]), to |-> pipe[p][n], by |-> p]>>],
             pipe' = [pipe EXCEPT ![p] = q]
      PROVE  /\ worker' \in [Workers -> Places] /\ worker'[p].h = worker[p].h
             /\ \A v \in Workers \ {p} : worker'[v] = worker[v]
             /\ pipe' \in [Publishers -> Seq(Numbers)]
             /\ \A o \in Publishers \ {p} : pipe'[o] = pipe[o]
             /\ \E m \in Batches, d \in 1 .. Len(pipe[p]) :
                    /\ worker'[p].at = "file" /\ worker'[p].data = <<m>>
                    /\ m.by = p /\ m.from = pipe[p][1] /\ m.to = pipe[p][n]
                    /\ d >= n - 1 /\ Without(pipe[p], d, pipe'[p])
  <2>1. PICK d \in 1 .. Len(pipe[p]) : d >= n - 1 /\ Without(pipe[p], d, q)
    BY <1>1, <1>4, UnreadIs
  <2>2. q \in Seq(Numbers)  BY <1>1, <1>4, UnreadIs
  <2>3. /\ pipe' \in [Publishers -> Seq(Numbers)] /\ pipe'[p] = q
        /\ \A o \in Publishers \ {p} : pipe'[o] = pipe[o]
    BY <1>4, <2>2 DEF SessionsTyped
  <2>4. Head(pipe[p]) = pipe[p][1] /\ pipe[p][1] \in Numbers /\ pipe[p][n] \in Numbers
    BY <1>1
  <2>5. PICK m \in Batches :
            /\ m = [from |-> Head(pipe[p]), to |-> pipe[p][n], by |-> p]
            /\ m.by = p /\ m.from = pipe[p][1] /\ m.to = pipe[p][n]
    <3> DEFINE b == [from |-> Head(pipe[p]), to |-> pipe[p][n], by |-> p]
    <3>1. b \in Batches  BY <2>4 DEF Batches
    <3>2. b.by = p /\ b.from = pipe[p][1] /\ b.to = pipe[p][n]  BY <2>4
    <3> HIDE DEF b
    <3>3. PICK m \in Batches : m = b  BY <3>1
    <3> QED  BY <3>2, <3>3 DEF b
  <2>6. <<m>> \in Data  BY DEF Data
  <2>7. worker' = [worker EXCEPT ![p].at = "file", ![p].data = <<m>>]
    BY <1>4, <2>5
  <2>8. /\ worker' \in [Workers -> Places] /\ worker'[p].h = worker[p].h
        /\ worker'[p].at = "file" /\ worker'[p].data = <<m>>
        /\ \A v \in Workers \ {p} : worker'[v] = worker[v]
    BY <1>1, <2>6, <2>7, ReadSets
  <2> QED  BY <2>1, <2>3, <2>5, <2>8
<1>5. ASSUME NEW n \in 1 .. Len(pipe[p]), NEW q \in Unread(pipe[p], n),
             pipe' = [pipe EXCEPT ![p] = AfterClose(p, q)]
      PROVE  /\ pipe' \in [Publishers -> Seq(Numbers)]
             /\ \A o \in Publishers \ {p} : pipe'[o] = pipe[o]
             /\ \E d \in 0 .. Len(pipe[p]) : Without(pipe[p], d, pipe'[p])
  <2>1. /\ q \in Seq(Numbers)
        /\ \E d \in 1 .. Len(pipe[p]) : d >= n - 1 /\ Without(pipe[p], d, q)
    BY <1>1, <1>5, UnreadIs
  <2>2. AfterClose(p, q) \in {q, <<>>}  BY DEF AfterClose
  <2>3. \E d \in 0 .. Len(pipe[p]) : Without(pipe[p], d, AfterClose(p, q))
    BY <1>2, <2>1, <2>2
  <2>4. AfterClose(p, q) \in Seq(Numbers)  BY <1>2, <2>1, <2>2
  <2> QED  BY <1>5, <2>3, <2>4 DEF SessionsTyped
<1>6. CASE pipe' = pipe /\ Goto(p, NextRound)
  BY <1>2, <1>3, <1>6 DEF SessionsTyped
<1>7. CASE \E n \in 1 .. Len(pipe[p]) : \E q \in Unread(pipe[p], n) :
             /\ Goto(p, NextRound)
             /\ pipe' = [pipe EXCEPT ![p] = AfterClose(p, q)]
  BY <1>3, <1>5, <1>7
<1>8. CASE \E n \in 1 .. Len(pipe[p]) : \E q \in Unread(pipe[p], n) :
             /\ worker' = [worker EXCEPT ![p].at = "file",
                    ![p].data = <<[from |-> Head(pipe[p]), to |-> pipe[p][n],
                                   by |-> p]>>]
             /\ pipe' = [pipe EXCEPT ![p] = q]
  BY <1>4, <1>8
<1> QED  BY <1>6, <1>7, <1>8 DEF ReadPipe

LEMMA ReadPipeKeeps == ASSUME SInv, NEW p \in Publishers, ReadPipe(p) PROVE SInv'
<1>1. /\ worker[p].at = "read" /\ NoCall /\ p \in Workers
      /\ UNCHANGED <<client, sent, got, requesting>>
  BY DEF ReadPipe, At, Workers
<1>2. FSInv'  BY <1>1, NoCallKeepsFS DEF SInv
<1>3. worker[p].h = -1  BY <1>1 DEF SInv, HandlesHeld, Holding
<1>4. /\ worker' \in [Workers -> Places] /\ worker'[p].h = -1
      /\ \A v \in Workers \ {p} : worker'[v] = worker[v]
      /\ pipe' \in [Publishers -> Seq(Numbers)]
  BY <1>3, ReadPipeGoes DEF SInv
<1>5. worker'[p].at \in {"file", "write"} => worker'[p].data \in FP!Buffers
  <2>1. ASSUME NEW m \in Batches PROVE <<m>> \in FP!Buffers
    <3> DEFINE d == <<m>>
    <3>1. d \in Data  BY DEF Data
    <3>2. d \in [1 .. 1 -> Batches] /\ 1 \in 0 .. 1  OBVIOUS
    <3> HIDE DEF d
    <3>3. d \in FP!Buffers  BY <3>1, <3>2 DEF FP!Buffers
    <3> QED  BY <3>3 DEF d
  <2>2. worker'[p].at = "open" \/ \E m \in Batches : worker'[p].data = <<m>>
    BY ReadPipeGoes DEF SInv
  <2> QED  BY <2>1, <2>2
<1>6. SessionsTyped'  BY <1>1, <1>4 DEF SInv, SessionsTyped, requesting
<1>7. BatchRead'  BY <1>4, <1>5 DEF SInv, BatchRead, Workers
<1>8. HandlesHeld'
  <2>1. UNCHANGED <<free_open_file_entries, leaked>>
    BY <1>1 DEF NoCall, disk, requesting
  <2> QED  BY <1>3, <1>4, <2>1, SameHandles DEF SInv, HandlesHeld
<1> QED  BY <1>2, <1>6, <1>7, <1>8 DEF SInv

LEMMA WriteBoxKeeps == ASSUME SInv, NEW p \in Publishers, WriteBox(p) PROVE SInv'
<1>1. /\ worker[p].at = "write" /\ status = "running" /\ p \in Workers
      /\ FP!tfs_write(worker[p].h, worker[p].data) /\ Goto(p, "close")
      /\ UNCHANGED <<pipes, requesting>>
  BY SameWrite DEF WriteBox, At, Running, Workers
<1>2. worker[p].h \in FP!CallHandles /\ worker[p].data \in FP!Buffers
  BY <1>1 DEF SInv, SessionsTyped, Places, BatchRead, FP!CallHandles
<1>3. FSInv'  BY <1>1, <1>2, CallKeepsFS DEF SInv
<1>4. /\ worker' \in [Workers -> Places]
      /\ worker'[p].at = "close" /\ worker'[p].h = worker[p].h
      /\ \A v \in Workers \ {p} : worker'[v] = worker[v]
  BY <1>1, GotoSets DEF SInv
<1>5. SessionsTyped'  BY <1>1, <1>4 DEF SInv, SessionsTyped, pipes, requesting
<1>6. BatchRead'  BY <1>4 DEF SInv, BatchRead, Workers
<1>7. HandlesHeld'
  <2>1. UNCHANGED <<free_open_file_entries, leaked>>
    BY <1>1, WriteKeepsTable DEF requesting
  <2>2. "close" \in Holding(p)  BY DEF Holding
  <2> QED  BY <1>4, <2>1, <2>2, SameHandles DEF SInv, HandlesHeld
<1> QED  BY <1>3, <1>5, <1>6, <1>7 DEF SInv

LEMMA ReadBoxKeeps == ASSUME SInv, NEW s \in Subscribers, ReadBox(s) PROVE SInv'
<1> DEFINE label == IF last'.val > 0 THEN "send" ELSE "close"
<1>1. /\ worker[s].at = "read" /\ status = "running" /\ s \in Workers
      /\ s \notin Publishers /\ FP!tfs_read(worker[s].h, 1)
      /\ worker' = [worker EXCEPT ![s].data = last'.data, ![s].at = label]
      /\ UNCHANGED <<pipes, requesting>>
  BY SameRead, SessionAssumption DEF ReadBox, At, Running, Workers
<1>2. worker[s].h \in FP!CallHandles /\ 1 \in 0 .. 1
  BY <1>1 DEF SInv, SessionsTyped, Places, FP!CallHandles
<1>3. FSInv'  BY <1>1, <1>2, CallKeepsFS DEF SInv
<1> DEFINE old == worker[s]
           d == last'.data
           m1 == [old EXCEPT !.data = d]
           m == [m1 EXCEPT !.at = label]
<1>4. old \in Places  BY <1>1 DEF SInv, SessionsTyped
<1>5. d \in Data  BY <1>3 DEF FSInv, FP!TypeOK, Data
<1>6. worker' = [worker EXCEPT ![s] = m]  BY <1>1
<1>7. label \in {"send", "close"}  OBVIOUS
<1> HIDE DEF old, d, label
<1>8. m1 \in Places /\ m1.h = old.h  BY <1>4, <1>5 DEF Places
<1> HIDE DEF m1
<1>9. m \in Places /\ m.h = old.h /\ m.at = label  BY <1>7, <1>8 DEF Places
<1> HIDE DEF m
<1>10. /\ worker' \in [Workers -> Places] /\ worker'[s] = m
       /\ \A v \in Workers \ {s} : worker'[v] = worker[v]
  BY <1>1, <1>6, <1>9, PlaceSet DEF SInv
<1>11. SessionsTyped'  BY <1>1, <1>10 DEF SInv, SessionsTyped, pipes, requesting
<1>12. BatchRead'  BY <1>1, <1>10 DEF SInv, BatchRead, Workers
<1>13. HandlesHeld'
  <2>1. UNCHANGED <<free_open_file_entries, leaked>>
    BY <1>1, ReadKeepsTable DEF requesting
  <2>2. label \in Holding(s)  BY <1>1, <1>7 DEF Holding
  <2> QED  BY <1>9, <1>10, <2>1, <2>2, SameHandles DEF SInv, HandlesHeld, old
<1> QED  BY <1>3, <1>11, <1>12, <1>13 DEF SInv

LEMMA SendKeeps == ASSUME SInv, NEW s \in Subscribers, Send(s) PROVE SInv'
<1>1. /\ worker[s].at = "send" /\ NoCall /\ s \in Workers /\ s \notin Publishers
      /\ UNCHANGED <<client, pipe, sent, requests, leaked, cut>>
  BY SessionAssumption DEF Send, At, Workers
<1>2. FSInv'  BY <1>1, NoCallKeepsFS DEF SInv
<1>3. /\ worker' \in [Workers -> Places] /\ worker'[s].h = worker[s].h
      /\ worker'[s].at \in {"read", "send"}
      /\ \A v \in Workers \ {s} : worker'[v] = worker[v]
  <2>1. CASE Goto(s, "read")  BY <1>1, <2>1, GotoSets DEF SInv
  <2>2. CASE worker' = worker  BY <1>1, <2>2 DEF SInv, SessionsTyped
  <2> QED  BY <2>1, <2>2 DEF Send
<1>4. SessionsTyped'
  <2>1. main' \in {"read", "killed"} \cup Boxes  BY DEF Send, SInv, SessionsTyped
  <2>2. got' \in [Subscribers -> Data]
    <3>1. CASE got' = got  BY <3>1 DEF SInv, SessionsTyped
    <3>2. CASE got' = [got EXCEPT ![s] = @ \o worker[s].data]
      <4>1. got[s] \in Data /\ worker[s].data \in Data
        BY <1>1 DEF SInv, SessionsTyped, Places
      <4>2. got[s] \o worker[s].data \in Data  BY <4>1 DEF Data
      <4> QED  BY <3>2, <4>2 DEF SInv, SessionsTyped
    <3> QED  BY <3>1, <3>2 DEF Send
  <2> QED  BY <1>1, <1>3, <2>1, <2>2 DEF SInv, SessionsTyped
<1>5. BatchRead'  BY <1>1, <1>3 DEF SInv, BatchRead, Workers
<1>6. HandlesHeld'
  <2>1. UNCHANGED <<free_open_file_entries, leaked>>  BY <1>1 DEF NoCall, disk
  <2>2. {"read", "send"} \subseteq Holding(s)  BY <1>1 DEF Holding
  <2> QED  BY <1>3, <2>1, <2>2, SameHandles DEF SInv, HandlesHeld
<1> QED  BY <1>2, <1>4, <1>5, <1>6 DEF SInv

LEMMA NextWithin ==
    ASSUME NEW k \in Nat, NEW n \in Nat, NEW m \in Nat, k < n, n <= m
    PROVE  k + 1 \in 1 .. m
OBVIOUS

\* The numbers go up to what the busiest publisher may send.
LEMMA NumbersUpTo ==
    \E n \in Nat : Numbers = 1 .. n /\ \A p \in Publishers : MaxSent[p] <= n
<1> DEFINE S == {MaxSent[q] : q \in Publishers}
<1>1. S \in SUBSET Nat /\ \A p \in Publishers : MaxSent[p] \in S
  BY SessionAssumption
<1>2. IsFiniteSet(S)
  <2>1. IsFiniteSet(Publishers)
    <3>1. Publishers \in SUBSET Workers  BY DEF Workers
    <3> QED  BY <3>1, SessionAssumption, FS_Subset
  <2>2. MaxSent \in [Publishers -> S]  BY SessionAssumption
  <2>3. \A n \in S : \E q \in Publishers : MaxSent[q] = n  OBVIOUS
  <2> HIDE DEF S
  <2>4. MaxSent \in Surjection(Publishers, S)  BY <2>2, <2>3, Fun_IsSurj
  <2> QED  BY <2>1, <2>4, FS_Surjection
<1>3. S # {}  BY SessionAssumption
<1> HIDE DEF S
<1>4. Max(S) \in Nat /\ \A p \in Publishers : MaxSent[p] <= Max(S)
  BY <1>1, <1>2, <1>3, MaxIn
<1>5. Numbers = 1 .. Max(S)  BY DEF Numbers, S
<1> QED  BY <1>4, <1>5

\* The number of the next message is a number.
LEMMA SentFits ==
    ASSUME SessionsTyped, NEW p \in Publishers, sent[p] < MaxSent[p]
    PROVE  sent[p] + 1 \in Numbers
<1>1. PICK n \in Nat : Numbers = 1 .. n /\ MaxSent[p] <= n  BY NumbersUpTo
<1>2. sent[p] \in Nat  BY <1>1 DEF SessionsTyped
<1>3. MaxSent[p] \in Nat  BY SessionAssumption
<1>4. sent[p] + 1 \in 1 .. n  BY <1>1, <1>2, <1>3, NextWithin
<1> QED  BY <1>1, <1>4

\* Clients do not touch what the broker has.
LEMMA ClientKeeps ==
    ASSUME SInv, \/ \E p \in Publishers : Publish(p)
                 \/ \E w \in Workers : Quit(w)
    PROVE  SInv'
<1>1. NoCall /\ UNCHANGED <<worker, got, requesting>>
  BY DEF Publish, Quit
<1>2. FSInv'  BY <1>1, NoCallKeepsFS DEF SInv
<1>3. SessionsTyped'
  <2>0. <<>> \in Seq(Numbers)  OBVIOUS
  <2>1. ASSUME NEW p \in Publishers, Publish(p) PROVE SessionsTyped'
    <3>1. sent' = [sent EXCEPT ![p] = sent[p] + 1] /\ sent[p] + 1 \in Numbers
      BY <2>1, SentFits DEF SInv, Publish
    <3>2. sent' \in [Publishers -> {0} \cup Numbers] /\ sent'[p] \in Numbers
      BY <3>1 DEF SInv, SessionsTyped
    <3>3. pipe' \in [Publishers -> Seq(Numbers)]
      <4>1. CASE pipe' = [pipe EXCEPT ![p] = Append(@, sent'[p])]
        <5>1. Append(pipe[p], sent'[p]) \in Seq(Numbers)
          BY <3>2 DEF SInv, SessionsTyped
        <5> QED  BY <4>1, <5>1 DEF SInv, SessionsTyped
      <4>2. CASE pipe' = [pipe EXCEPT ![p] = <<>>]
        BY <2>0, <4>2 DEF SInv, SessionsTyped
      <4> QED  BY <2>1, <4>1, <4>2 DEF Publish
    <3>4. client' \in [Workers -> {"none", "open", "on", "gone"}]
      BY <2>1 DEF SInv, SessionsTyped, Publish
    <3> QED  BY <1>1, <3>2, <3>3, <3>4 DEF SInv, SessionsTyped, requesting
  <2>2. ASSUME NEW w \in Workers, Quit(w) PROVE SessionsTyped'
    <3>1. pipe' \in [Publishers -> Seq(Numbers)]
      BY <2>0, <2>2 DEF SInv, SessionsTyped, Quit
    <3>2. client' \in [Workers -> {"none", "open", "on", "gone"}] /\ sent' = sent
      BY <2>2 DEF SInv, SessionsTyped, Quit
    <3> QED  BY <1>1, <3>1, <3>2 DEF SInv, SessionsTyped, requesting
  <2> QED  BY <2>1, <2>2
<1>4. BatchRead' /\ HandlesHeld'
  BY <1>1 DEF SInv, BatchRead, HandlesHeld, NoCall, disk, requesting
<1> QED  BY <1>2, <1>3, <1>4 DEF SInv

\* Main keeps the handle that it opens to create a box or to remove one.
LEMMA LeakKeeps ==
    ASSUME SInv, NEW b \in Boxes, create_box(b) \/ remove_box(b)
    PROVE  SInv'
<1>1. /\ status = "running" /\ FP!tfs_open(b, {"CREAT"}) /\ {"CREAT"} \in FP!Modes
      /\ Leak /\ requests < MaxRequests /\ requests' = requests + 1
      /\ main' \in {main, "read", b}
      /\ UNCHANGED <<worker, pipes, cut>>
  BY SameOpen DEF create_box, remove_box, Running, FP!Modes
<1>2. FP!IInv /\ FP!IInv' /\ FSInv'  BY <1>1, CallKeepsFS DEF SInv, FSInv
<1>3. \/ /\ last'.val = -1 /\ leaked' = leaked
         /\ UNCHANGED free_open_file_entries
      \/ \E h \in FP!Handles :
             /\ free_open_file_entries[h] = "FREE"
             /\ free_open_file_entries' = [free_open_file_entries EXCEPT ![h] = "TAKEN"]
             /\ leaked' = leaked \cup {h}
  <2>1. \/ last'.val = -1 /\ UNCHANGED free_open_file_entries
        \/ \E h \in FP!Handles :
               /\ free_open_file_entries[h] = "FREE"
               /\ free_open_file_entries' =
                      [free_open_file_entries EXCEPT ![h] = "TAKEN"]
               /\ last'.val = h
    BY <1>1, <1>2, LimitsFit, FP!OpenOutcome DEF FP!OpenEffect
  <2> QED  BY <1>1, <2>1, HandleNumbers DEF Leak
<1>4. leaked' \subseteq FP!Handles  BY <1>3 DEF SInv, SessionsTyped
<1>5. SessionsTyped'
  <2>1. requests' \in 0 .. MaxRequests
    BY <1>1, SessionAssumption DEF SInv, SessionsTyped
  <2> QED  BY <1>1, <1>4, <2>1 DEF SInv, SessionsTyped, pipes
<1>6. BatchRead'  BY <1>1 DEF SInv, BatchRead
<1>7. HandlesHeld'
  <2>1. CASE leaked' = leaked /\ UNCHANGED free_open_file_entries
    BY <1>1, <2>1 DEF SInv, HandlesHeld
  <2>2. ASSUME NEW h \in FP!Handles, free_open_file_entries[h] = "FREE",
               free_open_file_entries' = [free_open_file_entries EXCEPT ![h] = "TAKEN"],
               leaked' = leaked \cup {h}
        PROVE  HandlesHeld'
    <3>1. /\ free_open_file_entries'[h] = "TAKEN"
          /\ \A g \in FP!Handles : g # h =>
                 free_open_file_entries'[g] = free_open_file_entries[g]
      BY <2>2 DEF SInv, FSInv, FP!TypeOK
    <3>2. \A w \in Workers : worker[w].h # h
      BY <2>2 DEF SInv, HandlesHeld
    <3> QED  BY <1>1, <2>2, <3>1, <3>2 DEF SInv, HandlesHeld
  <2> QED  BY <1>3, <2>1, <2>2
<1> QED  BY <1>2, <1>5, <1>6, <1>7 DEF SInv

LEMMA UnlinkBoxKeeps == ASSUME SInv, UnlinkBox PROVE SInv'
<1>1. /\ status = "running" /\ main \in Boxes /\ FP!tfs_unlink(main)
      /\ main' = "read" /\ cut' = (cut \/ InSession(main))
      /\ UNCHANGED <<worker, pipes, requests, leaked>>
  BY SameUnlink DEF UnlinkBox, Running
<1>2. FSInv'  BY <1>1, CallKeepsFS DEF SInv
<1>3. SessionsTyped'
  <2>1. cut' \in BOOLEAN  BY <1>1 DEF SInv, SessionsTyped, InSession
  <2> QED  BY <1>1, <2>1 DEF SInv, SessionsTyped, pipes
<1>4. free_open_file_entries' = free_open_file_entries
  BY <1>1, UnlinkKeepsTable
<1>5. BatchRead' /\ HandlesHeld'
  BY <1>1, <1>4 DEF SInv, BatchRead, HandlesHeld
<1> QED  BY <1>2, <1>3, <1>5 DEF SInv

LEMMA NextSInv == SInv /\ [Next]_vars => SInv'
<1> SUFFICES ASSUME SInv, [Next]_vars PROVE SInv'  OBVIOUS
<1>1. CASE UNCHANGED vars
  <2>1. FSInv'
    <3>1. FP!TypeOK'  BY <1>1 DEF vars, fs, disk, SInv, FSInv, FP!TypeOK
    <3>2. ASSUME status' = "running" PROVE FP!IInv'
      <4>1. UNCHANGED FP!vars  BY <1>1 DEF vars, fs, disk, FP!vars, FP!tables
      <4>2. FP!IInv  BY <1>1, <3>2 DEF vars, fs, disk, SInv, FSInv
      <4> QED  BY <4>1, <4>2, LimitsFit, FP!StutterInv
    <3> QED  BY <3>1, <3>2 DEF FSInv
  <2>2. SessionsTyped'
    BY <1>1 DEF vars, pipes, requesting, SInv, SessionsTyped
  <2>3. BatchRead' /\ HandlesHeld'
    BY <1>1 DEF vars, fs, disk, requesting, SInv, BatchRead, HandlesHeld
  <2> QED  BY <2>1, <2>2, <2>3 DEF SInv
<1>2. ASSUME NEW w \in Workers, WorkerStep(w) PROVE SInv'
  BY <1>2, OpenPipeKeeps, OpenBoxKeeps, CloseBoxKeeps, ReadPipeKeeps, WriteBoxKeeps,
     ReadBoxKeeps, SendKeeps
  DEF WorkerStep
<1> QED
  BY <1>1, <1>2, ClientKeeps, LeakKeeps, UnlinkBoxKeeps DEF Next

-----------------------------------------------------------------------------
(* The initial state *)

\* Main has created every box once: names lists the boxes without repetition.
LEMMA NamesList ==
    LET names == SetToSeq(Boxes)
    IN  /\ Len(names) = Cardinality(Boxes) /\ Cardinality(Boxes) \in Nat
        /\ \A k \in 1 .. Len(names) : names[k] \in Boxes
        /\ \A j, k \in 1 .. Len(names) : names[j] = names[k] => j = k
<1> DEFINE n == Cardinality(Boxes)
           names == SetToSeq(Boxes)
<1>1. n \in Nat /\ ExistsBijection(1 .. n, Boxes)
  BY SessionAssumption, FS_CardinalityType
<1>2. PICK f \in Bijection(1 .. n, Boxes) : TRUE
  BY <1>1, Fun_ExistsBij
<1>3. f \in [1 .. n -> Boxes] /\ IsInjective(f)
  BY <1>2 DEF Bijection, Injection
<1>4. names \in [1 .. n -> Boxes] /\ IsInjective(names)
  BY <1>3 DEF SetToSeq
<1> HIDE DEF names
<1> HIDE DEF n
<1>5. DOMAIN names = 1 .. n  BY <1>4
<1>6. Len(names) = n
  <2>1. names \in Seq(Boxes)  BY <1>1, <1>4, SeqDef
  <2> QED  BY <1>1, <1>5, <2>1, LenProperties
<1> QED  BY <1>1, <1>4, <1>5, <1>6 DEF names, IsInjective, n

LEMMA InitSInv == Init => SInv
<1> SUFFICES ASSUME Init PROVE SInv  OBVIOUS
<1> DEFINE names == SetToSeq(Boxes)
           made(k) == k \in 1 .. Len(names)
<1>1. /\ inode = [i \in FP!INums |->
             IF i = FP!ROOT_DIR_INUM
             THEN [i_node_type |-> "T_DIRECTORY", i_size |-> 1, i_data_block |-> 0]
             ELSE FP!NewFile]
      /\ freeinode_ts = [i \in FP!INums |->
             IF i = FP!ROOT_DIR_INUM \/ made(i) THEN "TAKEN" ELSE "FREE"]
      /\ fs_data = [d \in FP!Addresses |-> IF d = 0 THEN DirData ELSE Junk]
      /\ free_blocks = [n \in FP!BlockNumbers |-> IF n = 0 THEN "TAKEN" ELSE "FREE"]
      /\ dir = [n \in FP!Slots |->
             IF made(n + 1) THEN [d_name |-> names[n + 1], d_inumber |-> n + 1]
             ELSE [d_name |-> NoName, d_inumber |-> -1]]
      /\ open_file_table = [h \in FP!Handles |->
             [of_inumber |-> IF made(h + 1) THEN h + 1 ELSE 0, of_offset |-> 0]]
      /\ free_open_file_entries = [h \in FP!Handles |->
             IF made(h + 1) THEN "TAKEN" ELSE "FREE"]
      /\ leaked = {h \in FP!Handles : made(h + 1)}
      /\ status = "running" /\ last = NoResult
  BY DEF Init, F!INums, FP!INums, F!ROOT_DIR_INUM, FP!ROOT_DIR_INUM, F!NewFile,
         FP!NewFile, F!Addresses, FP!Addresses, F!BlockNumbers, FP!BlockNumbers,
         F!Slots, FP!Slots, F!Handles, FP!Handles
<1>2. /\ Len(names) \in Nat /\ Len(names) < MaxInodeCount
      /\ Len(names) <= MaxDirEntries /\ Len(names) <= MaxOpenFilesCount
      /\ \A k \in 1 .. Len(names) : names[k] \in Boxes
      /\ \A j, k \in 1 .. Len(names) : names[j] = names[k] => j = k
  BY NamesList, SessionAssumption
<1> HIDE DEF names
<1> USE LimitsAssumption
<1>3. FP!INums = 0 .. MaxInodeCount - 1 /\ FP!Slots = 0 .. MaxDirEntries - 1
      /\ FP!Handles = 0 .. MaxOpenFilesCount - 1
      /\ FP!BlockNumbers = 0 .. MaxBlockCount - 1
      /\ FP!Addresses = 0 .. MaxBlockCount - 1 /\ FP!ROOT_DIR_INUM = 0
      /\ FP!Files = FP!INums \ {0}
  BY DEF FP!INums, FP!Slots, FP!Handles, FP!BlockNumbers, FP!Addresses,
         FP!ROOT_DIR_INUM, FP!Files
<1>4. FP!TypeOK
  <2>1. inode \in [FP!INums -> [i_node_type : {"T_FILE", "T_DIRECTORY"},
                                i_size : Nat,
                                i_data_block : FP!BlockNumbers \cup {-1}]]
    BY <1>1, <1>3 DEF FP!NewFile
  <2>2. dir \in [FP!Slots -> [d_name : Boxes \cup {NoName},
                              d_inumber : FP!INums \cup {-1}]]
    BY <1>1, <1>2, <1>3
  <2>3. open_file_table \in [FP!Handles -> [of_inumber : FP!INums, of_offset : Nat]]
    BY <1>1, <1>2, <1>3
  <2>4. fs_data \in [FP!Addresses -> Batches \cup {Junk, DirData}]  BY <1>1
  <2>5. /\ freeinode_ts \in [FP!INums -> FP!AllocationState]
        /\ free_blocks \in [FP!BlockNumbers -> FP!AllocationState]
        /\ free_open_file_entries \in [FP!Handles -> FP!AllocationState]
    BY <1>1 DEF FP!AllocationState
  <2>6. last \in [call : {"init", "open", "close", "read", "write", "unlink"},
                  val : Int, data : Seq(Batches \cup {Junk, DirData})]
    BY <1>1 DEF NoResult
  <2> QED  BY <1>1, <2>1, <2>2, <2>3, <2>4, <2>5, <2>6 DEF FP!TypeOK
<1>5. FP!RootIntact
  BY <1>1, <1>2, <1>3 DEF FP!RootIntact, FP!RootBlock, FP!Live, FP!NewFile
<1>6. FP!DirectoryConsistent
  <2>1. \A s \in FP!Entries : made(s + 1) /\ s \in FP!Slots
    BY <1>1, <1>3 DEF FP!Entries
  <2>2. \A s \in FP!Entries :
            dir[s].d_name = names[s + 1] /\ dir[s].d_inumber = s + 1
    BY <1>1, <2>1
  <2>3. \A s \in FP!Entries : s + 1 \in FP!Files /\ FP!Live(s + 1)
    BY <1>1, <1>2, <1>3, <2>1 DEF FP!Live
  <2>4. \A s, t \in FP!Entries : dir[s].d_name = dir[t].d_name => s = t
    <3> SUFFICES ASSUME NEW s \in FP!Entries, NEW t \in FP!Entries,
                        dir[s].d_name = dir[t].d_name
                 PROVE  s = t
      OBVIOUS
    <3>1. names[s + 1] = names[t + 1]  BY <2>2
    <3>2. s + 1 = t + 1  BY <1>2, <2>1, <3>1
    <3> QED  BY <1>3, <2>1, <3>2
  <2>5. \A s \in FP!Slots \ FP!Entries : dir[s].d_name = NoName
    BY <1>1, <1>2, <1>3 DEF FP!Entries
  <2>6. \A i \in FP!Files : FP!Live(i) => \E s \in FP!Entries : dir[s].d_inumber = i
    <3> SUFFICES ASSUME NEW i \in FP!Files, FP!Live(i)
                 PROVE  \E s \in FP!Entries : dir[s].d_inumber = i
      OBVIOUS
    <3>1. made(i) /\ i \in Nat  BY <1>1, <1>2, <1>3 DEF FP!Live
    <3>2. i - 1 \in FP!Slots /\ (i - 1) + 1 = i  BY <1>2, <1>3, <3>1
    <3>3. dir[i - 1] = [d_name |-> names[i], d_inumber |-> i]
      BY <1>1, <3>1, <3>2
    <3>4. i - 1 \in FP!Entries  BY <3>1, <3>2, <3>3 DEF FP!Entries
    <3> QED  BY <3>3, <3>4
  <2>7. \A s, t \in FP!Entries : s # t => dir[s].d_inumber # dir[t].d_inumber
    BY <1>3, <2>1, <2>2
  <2>8. \A s \in FP!Entries :
            dir[s].d_inumber \in FP!Files /\ FP!Live(dir[s].d_inumber)
    BY <2>2, <2>3
  <2> QED  BY <2>4, <2>5, <2>6, <2>7, <2>8 DEF FP!DirectoryConsistent
<1>7. FP!BlocksNeverShared
  BY <1>1, <1>2, <1>3 DEF FP!BlocksNeverShared, FP!Live, FP!NewFile
<1>8. FP!SizedHasBlock /\ FP!SizesBounded
  BY <1>1, <1>3 DEF FP!SizedHasBlock, FP!SizesBounded, FP!NewFile
<1>9. FP!HandlesOnFiles
  BY <1>1, <1>2, <1>3 DEF FP!HandlesOnFiles, FP!IsOpen
<1>10. FP!OffsetsBounded /\ FP!OnlyReadsPanic
  BY <1>1 DEF FP!OffsetsBounded, FP!OnlyReadsPanic
<1>11. FSInv
  BY <1>4, <1>5, <1>6, <1>7, <1>8, <1>9, <1>10 DEF FSInv, FP!IInv
<1>12. SessionsTyped
  <2>1. [at |-> "open", h |-> -1, data |-> <<>>] \in Places  BY DEF Places, Data
  <2>2. <<>> \in Seq(Numbers) /\ <<>> \in Data  BY DEF Data
  <2>3. worker = [w \in Workers |-> [at |-> "open", h |-> -1, data |-> <<>>]]
    BY DEF Init
  <2>4. /\ client \in [Workers -> {"none", "open"}]
        /\ pipe = [p \in Publishers |-> <<>>]
        /\ sent = [p \in Publishers |-> 0]
        /\ got = [s \in Subscribers |-> <<>>]
        /\ main = "read" /\ requests = 0 /\ cut = FALSE
    BY DEF Init
  <2>5. worker \in [Workers -> Places]  BY <2>1, <2>3
  <2>6. requests \in 0 .. MaxRequests  BY <2>4, SessionAssumption
  <2> QED  BY <1>1, <2>2, <2>4, <2>5, <2>6 DEF SessionsTyped
<1>13. \A w \in Workers : worker[w].at = "open" /\ worker[w].h = -1  BY DEF Init
<1>14. BatchRead  BY <1>13 DEF BatchRead, Workers
<1>15. HandlesHeld
  <2>1. \A h \in FP!Handles : free_open_file_entries[h] = "TAKEN" <=> h \in leaked
    BY <1>1
  <2> QED  BY <1>13, <2>1, HandleNumbers DEF HandlesHeld
<1> QED  BY <1>11, <1>12, <1>14, <1>15 DEF SInv

\* The inductive invariant holds in every state.
THEOREM Invariant == Spec => []SInv
<1> QED  BY InitSInv, NextSInv, PTL DEF Spec

\* The variables of the sessions, the clients, main and the file system keep
\* their types.
THEOREM TypeCorrect == Spec => []TypeOK
<1>1. SInv => TypeOK
  BY SameTables DEF SInv, FSInv, SessionsTyped, Places, Data, TypeOK
<1> QED  BY <1>1, Invariant, PTL

\* Every handle in use is one that main has leaked or that one session has.
THEOREM HandlesReturned == Spec => []HandlesAccounted
<1>1. SInv => HandlesAccounted
  <2> SUFFICES ASSUME SInv PROVE HandlesAccounted  OBVIOUS
  <2>1. F!Handles = FP!Handles  BY SameTables
  <2>2. \A w \in Workers : worker[w].h # -1 => worker[w].h \in FP!Handles
    BY DEF SInv, SessionsTyped, Places
  <2>3. \A h \in leaked : h \in FP!Handles  BY DEF SInv, SessionsTyped
  <2>4. \A h \in FP!Handles : h # -1  BY HandleNumbers
  <2> QED  BY <2>1, <2>2, <2>3, <2>4 DEF SInv, HandlesHeld, HandlesAccounted
<1> QED  BY <1>1, Invariant, PTL

-----------------------------------------------------------------------------
(* Why the broker ends in an assertion *)

Box(w) == FP!tfs_lookup(BoxOf[w])

\* Handle h is on the box of worker w, inside its file.
On(w, h) ==
    /\ FP!Inside(h) /\ Box(w) # -1
    /\ open_file_table[h].of_inumber = Box(w)

OnBoxes == \A w \in Workers, h \in FP!Handles : worker[w].h = h => On(w, h)

\* Until a box is removed under a session, the file system runs, and every
\* session's handle is on its box.
PanicInv == SInv /\ (cut \/ (status = "running" /\ OnBoxes))

\* The file system's own invariant on both sides of a step that goes on.
LEMMA Sound ==
    ASSUME SInv, SInv', status = "running", status' = "running"
    PROVE  FP!IInv /\ FP!IInv'
BY DEF SInv, FSInv

LEMMA BoxTypes ==
    ASSUME SInv, NEW w \in Workers
    PROVE  /\ BoxOf[w] \in Boxes /\ worker[w].h \in {-1} \cup FP!Handles
           /\ worker[w].h \in FP!CallHandles
BY SessionAssumption DEF SInv, SessionsTyped, Places, FP!CallHandles

\* A box that a session has open is there, and its inode is in use.
LEMMA BoxLive ==
    ASSUME SInv, status = "running", NEW w \in Workers, Box(w) # -1
    PROVE  Box(w) \in FP!Files /\ Box(w) \in FP!INums /\ FP!Live(Box(w))
<1>1. BoxOf[w] \in Boxes  BY BoxTypes
<1>2. \E s \in FP!Entries : /\ dir[s].d_name = BoxOf[w]
                            /\ dir[s].d_inumber = FP!tfs_lookup(BoxOf[w])
                            /\ FP!tfs_lookup(BoxOf[w]) \in FP!Files
                            /\ FP!Live(FP!tfs_lookup(BoxOf[w]))
  BY <1>1, LimitsFit, FP!LookupFound DEF Box, SInv, FSInv, FP!IInv
<1> QED  BY <1>2 DEF Box, FP!Files

\* A handle stays on its box when the entries and the inodes of boxes stay.
LEMMA StaysOn ==
    ASSUME SInv, SInv', status = "running", status' = "running",
           NEW w \in Workers, NEW h \in FP!Handles, On(w, h),
           open_file_table'[h] = open_file_table[h],
           free_open_file_entries'[h] = "TAKEN",
           inode'[Box(w)].i_size >= inode[Box(w)].i_size,
           \A s \in FP!Entries : dir[s].d_name = BoxOf[w] => dir'[s] = dir[s]
    PROVE  On(w, h)'
<1>1. FP!IInv /\ FP!IInv'  BY Sound
<1>2. BoxOf[w] \in Boxes /\ FP!tfs_lookup(BoxOf[w]) # -1
  BY BoxTypes DEF On, Box
<1>3. FP!tfs_lookup(BoxOf[w])' = FP!tfs_lookup(BoxOf[w])
  BY <1>1, <1>2, LimitsFit, FP!LookupKept
<1>4. Box(w)' = Box(w)  BY <1>3 DEF Box
<1>5. Box(w) \in FP!INums  BY BoxLive DEF On
<1>6. /\ open_file_table[h].of_offset \in Nat /\ inode[Box(w)].i_size \in Nat
      /\ inode'[Box(w)].i_size \in Nat
  BY <1>1, <1>5 DEF FP!IInv, FP!TypeOK
<1>7. open_file_table[h].of_offset <= inode[Box(w)].i_size
  BY DEF On, FP!Inside
<1> HIDE DEF Box
<1>8. open_file_table'[h].of_offset <= inode'[Box(w)'].i_size
  BY <1>4, <1>6, <1>7
<1>9. open_file_table'[h].of_inumber = Box(w)' /\ Box(w)' # -1
  BY <1>4 DEF On
<1>10. FP!IsOpen(h)'  BY DEF FP!IsOpen
<1> QED  BY <1>8, <1>9, <1>10 DEF On, FP!Inside

\* Steps without a call, and the workers' moves.
LEMMA QuietOn ==
    ASSUME SInv, OnBoxes, UNCHANGED disk,
           \A v \in Workers : worker'[v].h = worker[v].h
    PROVE  OnBoxes'
BY DEF OnBoxes, On, Box, disk, FP!Inside, FP!IsOpen, FP!tfs_lookup,
       FP!valid_pathname, FP!find_in_dir

\* An assignment to the record of a worker that leaves its handle alone.
LEMMA FieldsSet ==
    ASSUME SInv, NEW w \in Workers, NEW a, NEW d,
           \/ worker' = [worker EXCEPT ![w].at = a, ![w].data = d]
           \/ worker' = [worker EXCEPT ![w].data = d, ![w].at = a]
           \/ worker' = [worker EXCEPT ![w].at = a]
    PROVE  \A v \in Workers : worker'[v].h = worker[v].h
<1> DEFINE old == worker[w]
           m1 == [old EXCEPT !.at = a]
           m2 == [m1 EXCEPT !.data = d]
           m3 == [old EXCEPT !.data = d]
           m4 == [m3 EXCEPT !.at = a]
<1>1. old \in Places  BY DEF SInv, SessionsTyped
<1>2. \E m \in {m1, m2, m4} : worker' = [worker EXCEPT ![w] = m]
  OBVIOUS
<1> HIDE DEF old
<1>3. m1.h = old.h /\ m3.h = old.h /\ m2.h = old.h /\ m4.h = old.h
  BY <1>1 DEF Places
<1> HIDE DEF m1, m2, m3, m4
<1> QED  BY <1>2, <1>3 DEF old, SInv, SessionsTyped

LEMMA GotoKeepsHandles ==
    ASSUME SInv, NEW w \in Workers, NEW label, Goto(w, label)
    PROVE  \A v \in Workers : worker'[v].h = worker[v].h
BY FieldsSet DEF Goto

\* Handle h, its box and its file are what they were.
Undisturbed(w, h) ==
    /\ On(w, h)' /\ open_file_table'[h] = open_file_table[h]
    /\ inode'[Box(w)] = inode[Box(w)] /\ Box(w)' = Box(w)

\* Opening a box, to use it or to create it, leaves the other handles alone.
LEMMA OpenOthers ==
    ASSUME SInv, SInv', OnBoxes, status = "running",
           NEW b \in Boxes, NEW mode \in FP!Modes, "TRUNC" \notin mode,
           FP!tfs_open(b, mode)
    PROVE  /\ status' = "running"
           /\ \A w \in Workers, h \in FP!Handles : worker[w].h = h => Undisturbed(w, h)
<1>1. FP!IInv' /\ FP!IInv
  BY CallKeepsFS DEF SInv, FSInv
<1>2. /\ UNCHANGED <<fs_data, free_blocks, status>>
      /\ \A i \in FP!INums : FP!Live(i) => inode'[i] = inode[i]
      /\ \A s \in FP!Entries : dir'[s] = dir[s]
      /\ \/ UNCHANGED <<open_file_table, free_open_file_entries>>
         \/ \E h \in FP!Handles, offset \in Nat : FP!OpenEffect(b, h, offset)
  BY <1>1, LimitsFit, FP!OpenOutcome
<1>3. ASSUME NEW w \in Workers, NEW h \in FP!Handles, worker[w].h = h
      PROVE  Undisturbed(w, h)
  <2>1. On(w, h)  BY <1>3 DEF OnBoxes
  <2>2. free_open_file_entries[h] = "TAKEN"  BY <2>1 DEF On, FP!Inside, FP!IsOpen
  <2>3. open_file_table'[h] = open_file_table[h] /\ free_open_file_entries'[h] = "TAKEN"
    <3>1. CASE UNCHANGED <<open_file_table, free_open_file_entries>>
      BY <2>2, <3>1
    <3>2. ASSUME NEW g \in FP!Handles, NEW offset \in Nat, FP!OpenEffect(b, g, offset)
          PROVE  open_file_table'[h] = open_file_table[h]
                 /\ free_open_file_entries'[h] = "TAKEN"
      <4>1. g # h  BY <2>2, <3>2 DEF FP!OpenEffect
      <4>2. /\ open_file_table \in [FP!Handles -> [of_inumber : FP!INums, of_offset : Nat]]
            /\ free_open_file_entries \in [FP!Handles -> FP!AllocationState]
        BY <1>1 DEF FP!IInv, FP!TypeOK
      <4> QED  BY <2>1, <2>2, <3>2, <4>1, <4>2 DEF FP!OpenEffect
    <3> QED  BY <1>2, <3>1, <3>2
  <2>4. inode'[Box(w)] = inode[Box(w)] /\ inode[Box(w)].i_size \in Nat
    <3>1. Box(w) \in FP!INums /\ FP!Live(Box(w))  BY <2>1, BoxLive DEF On
    <3> QED  BY <1>1, <1>2, <3>1 DEF FP!IInv, FP!TypeOK
  <2>5. inode'[Box(w)].i_size >= inode[Box(w)].i_size  BY <2>4
  <2>6. Box(w)' = Box(w)
    <3>1. BoxOf[w] \in Boxes /\ FP!tfs_lookup(BoxOf[w]) # -1
      BY <2>1, BoxTypes DEF On, Box
    <3> QED  BY <1>1, <1>2, <3>1, LimitsFit, FP!LookupKept DEF Box
  <2> QED  BY <1>2, <2>1, <2>3, <2>4, <2>5, <2>6, StaysOn DEF Undisturbed
<1> QED  BY <1>2, <1>3

\* The worker that has opened its box has what tfs_open returned.
LEMMA OpenBoxGoes ==
    ASSUME SInv, NEW w \in Workers, OpenBox(w)
    PROVE  /\ worker'[w].h = last'.val /\ worker'[w].data = worker[w].data
           /\ worker'[w].at = IF w \in Publishers THEN "write" ELSE "read"
           /\ \A v \in Workers \ {w} : worker'[v] = worker[v]
<1> DEFINE l1 == IF w \in Publishers THEN "write" ELSE "read"
           old == worker[w]
           m1 == [old EXCEPT !.h = last'.val]
           m == [m1 EXCEPT !.at = l1]
<1>1. worker' = [worker EXCEPT ![w] = m]  BY DEF OpenBox
<1>2. old \in Places  BY DEF SInv, SessionsTyped
<1> HIDE DEF old, l1
<1>3. /\ m1.h = last'.val /\ m1.data = old.data
      /\ DOMAIN m1 = {"at", "h", "data"}
  BY <1>2 DEF Places
<1> HIDE DEF m1
<1>4. m.h = last'.val /\ m.data = old.data /\ m.at = l1  BY <1>3
<1> HIDE DEF m
<1> QED  BY <1>1, <1>4 DEF SInv, SessionsTyped, old, l1

LEMMA OpenBoxOn ==
    ASSUME SInv, SInv', OnBoxes, NEW w \in Workers, OpenBox(w)
    PROVE  status' = "running" /\ OnBoxes'
<1>1. /\ worker[w].at = "file" /\ status = "running" /\ BoxOf[w] \in Boxes
      /\ FP!tfs_open(BoxOf[w], {"APPEND"}) /\ {"APPEND"} \in FP!Modes
  BY SessionAssumption, SameOpen
  DEF OpenBox, At, Running, SessionMode, FP!Modes
<1>2. /\ status' = "running"
      /\ \A v \in Workers, h \in FP!Handles : worker[v].h = h => On(v, h)'
  BY <1>1, OpenOthers DEF Undisturbed
<1>3. FP!IInv /\ FP!IInv'  BY <1>1, <1>2, Sound
<1>6. /\ worker'[w].h = last'.val
      /\ \A v \in Workers \ {w} : worker'[v] = worker[v]
  BY OpenBoxGoes
<1>7. ASSUME NEW h \in FP!Handles, last'.val = h PROVE On(w, h)'
  <2>1. PICK offset \in Nat :
            /\ FP!OpenEffect(BoxOf[w], h, offset)
            /\ FP!tfs_lookup(BoxOf[w])' \in FP!Files
            /\ offset <= inode'[FP!tfs_lookup(BoxOf[w])'].i_size
    <3>1. h # -1  BY HandleNumbers
    <3>2. PICK g \in FP!Handles, o \in Nat :
              /\ FP!OpenEffect(BoxOf[w], g, o)
              /\ FP!tfs_lookup(BoxOf[w])' \in FP!Files
              /\ o <= inode'[FP!tfs_lookup(BoxOf[w])'].i_size
      BY <1>1, <1>3, <1>7, <3>1, LimitsFit, FP!OpenOutcome
    <3>3. g = h  BY <1>7, <3>2 DEF FP!OpenEffect
    <3> QED  BY <3>2, <3>3
  <2>2. Box(w)' = FP!tfs_lookup(BoxOf[w])'  BY DEF Box
  <2>3. /\ open_file_table'[h] = [of_inumber |-> Box(w)', of_offset |-> offset]
        /\ free_open_file_entries'[h] = "TAKEN"
    BY <1>3, <2>1, <2>2 DEF FP!OpenEffect, FP!IInv, FP!TypeOK
  <2>4. Box(w)' # -1  BY <2>1, <2>2, LimitsAssumption DEF FP!Files, FP!INums
  <2> HIDE DEF Box
  <2> QED  BY <2>1, <2>2, <2>3, <2>4 DEF On, FP!Inside, FP!IsOpen
<1> QED  BY <1>2, <1>6, <1>7 DEF OnBoxes

LEMMA LeakOn ==
    ASSUME SInv, SInv', OnBoxes, NEW b \in Boxes, create_box(b) \/ remove_box(b)
    PROVE  status' = "running" /\ OnBoxes'
<1>1. /\ status = "running" /\ FP!tfs_open(b, {"CREAT"}) /\ {"CREAT"} \in FP!Modes
      /\ worker' = worker
  BY SameOpen DEF create_box, remove_box, Running, FP!Modes
<1>2. /\ status' = "running"
      /\ \A v \in Workers, h \in FP!Handles : worker[v].h = h => On(v, h)'
  BY <1>1, OpenOthers DEF Undisturbed
<1> QED  BY <1>1, <1>2 DEF OnBoxes

LEMMA CloseBoxOn ==
    ASSUME SInv, SInv', OnBoxes, NEW w \in Workers, CloseBox(w)
    PROVE  status' = "running" /\ OnBoxes'
<1> DEFINE h == worker[w].h
<1>1. /\ status = "running" /\ FP!tfs_close(h)
      /\ worker' = [worker EXCEPT ![w] = [at |-> "open", h |-> -1, data |-> <<>>]]
  BY SameClose DEF CloseBox, At, Running, CloseHandle, NextRound
<1>2. UNCHANGED <<inode, dir, open_file_table, status>>
  BY <1>1 DEF FP!tfs_close
<1>3. worker'[w].h = -1 /\ \A v \in Workers \ {w} : worker'[v] = worker[v]
  BY <1>1 DEF SInv, SessionsTyped
<1>4. ASSUME NEW v \in Workers, NEW g \in FP!Handles, worker'[v].h = g
      PROVE  On(v, g)'
  <2>1. v # w /\ worker[v].h = g /\ g # -1  BY <1>3, <1>4, HandleNumbers
  <2>2. On(v, g)  BY <2>1 DEF OnBoxes
  <2>3. g # h  BY <2>1 DEF SInv, HandlesHeld
  <2>4. free_open_file_entries[g] = "TAKEN"
    BY <2>2 DEF On, FP!Inside, FP!IsOpen
  <2>5. free_open_file_entries'[g] = "TAKEN"
    <3>1. free_open_file_entries \in [FP!Handles -> FP!AllocationState]
      BY DEF SInv, FSInv, FP!TypeOK
    <3> HIDE DEF h
    <3> QED  BY <1>1, <2>3, <2>4, <3>1 DEF FP!tfs_close
  <2>6. Box(v) \in FP!INums  BY <1>1, <2>2, BoxLive DEF On
  <2>7. inode[Box(v)].i_size \in Nat  BY <2>6 DEF SInv, FSInv, FP!TypeOK
  <2>8. /\ open_file_table'[g] = open_file_table[g]
        /\ inode'[Box(v)].i_size >= inode[Box(v)].i_size
        /\ \A s \in FP!Entries : dir[s].d_name = BoxOf[v] => dir'[s] = dir[s]
        /\ status' = "running"
    BY <1>1, <1>2, <2>7
  <2> QED  BY <1>1, <2>2, <2>5, <2>8, StaysOn
<1> QED  BY <1>1, <1>2, <1>4 DEF OnBoxes

\* A write in a session changes nothing, or it stores one message in the block of
\* the worker's box.
LEMMA WriteBoxDoes ==
    ASSUME SInv, OnBoxes, NEW p \in Publishers, WriteBox(p)
    PROVE  LET h == worker[p].h
           IN  \/ UNCHANGED disk
               \/ \E b \in FP!BlockNumbers, i \in FP!Files, n \in 1 .. 1 :
                      /\ On(p, h) /\ h \in FP!Handles /\ i = Box(p)
                      /\ worker[p].at = "write"
                      /\ FP!WriteEffect(h, worker[p].data, b, i, n)
                      /\ FP!WriteTables(h, b, i, n)
<1> DEFINE h == worker[p].h
           data == worker[p].data
<1>1. /\ status = "running" /\ worker[p].at = "write" /\ p \in Workers
      /\ FP!tfs_write(h, data)
  BY SameWrite DEF WriteBox, At, Running, Workers
<1>2. h \in {-1} \cup FP!Handles /\ h \in FP!CallHandles /\ data \in FP!Buffers
  BY <1>1, BoxTypes DEF SInv, BatchRead
<1> HIDE DEF h, data
<1>3. FP!IInv  BY <1>1 DEF SInv, FSInv
<1>4. CASE UNCHANGED <<FP!tables, status>>  BY <1>4 DEF disk, FP!tables
<1>5. CASE h = -1
  <2>1. ~FP!IsOpen(h)  BY <1>5, HandleNumbers DEF FP!IsOpen
  <2>2. UNCHANGED <<FP!tables, status>>
    BY <1>1, <2>1 DEF FP!tfs_write, FP!WriteNothing, FP!WriteBytes, FP!WriteWrapped
  <2> QED  BY <1>4, <2>2
<1>6. ASSUME h # -1, ~UNCHANGED <<FP!tables, status>>
      PROVE  \E b \in FP!BlockNumbers, i \in FP!Files, n \in 1 .. 1 :
                 /\ On(p, h) /\ h \in FP!Handles /\ i = Box(p)
                 /\ FP!WriteEffect(h, data, b, i, n) /\ FP!WriteTables(h, b, i, n)
  <2>1. On(p, h) /\ FP!Inside(h)  BY <1>1, <1>2, <1>6 DEF OnBoxes, On, h
  <2>2. PICK b \in FP!BlockNumbers, i \in FP!Files, n \in 1 .. Len(data) :
            FP!WriteEffect(h, data, b, i, n)
    BY <1>1, <1>2, <1>3, <1>6, <2>1, LimitsFit, FP!WriteOutcome
  <2>3. FP!WriteTables(h, b, i, n)
    BY <1>2, <1>3, <2>2, LimitsFit, FP!WriteMoves
  <2>4. i = Box(p) /\ h \in FP!Handles
    BY <2>1, <2>2 DEF On, FP!WriteEffect
  <2>5. n \in 1 .. 1
    <3>1. FP!WriteEnd(h, n) <= 1  BY <2>2 DEF FP!WriteEffect, FP!WriteEnd
    <3>2. open_file_table[h].of_offset \in Nat
      BY <1>3, <2>4 DEF FP!IInv, FP!TypeOK
    <3> QED  BY <2>3, <3>1, <3>2 DEF FP!WriteTables, FP!WriteEnd
  <2> QED  BY <2>1, <2>2, <2>3, <2>4, <2>5
<1> QED  BY <1>1, <1>2, <1>4, <1>5, <1>6 DEF h, data

\* A write moves one handle, and the size of its file along with it.
LEMMA WriteBoxOn ==
    ASSUME SInv, SInv', OnBoxes, NEW p \in Publishers, WriteBox(p)
    PROVE  status' = "running" /\ OnBoxes'
<1> DEFINE h == worker[p].h
           data == worker[p].data
<1>1. status = "running" /\ p \in Workers /\ Goto(p, "close")
  BY DEF WriteBox, At, Running, Workers
<1>2. \A v \in Workers : worker'[v].h = worker[v].h
  BY <1>1, GotoKeepsHandles
<1>3. FP!IInv  BY <1>1 DEF SInv, FSInv
<1>4. CASE UNCHANGED disk
  BY <1>1, <1>2, <1>4, QuietOn DEF disk
<1>5. ASSUME NEW b \in FP!BlockNumbers, NEW i \in FP!Files, NEW n \in 1 .. 1,
             On(p, h), h \in FP!Handles, i = Box(p),
             FP!WriteEffect(h, data, b, i, n), FP!WriteTables(h, b, i, n)
      PROVE  status' = "running" /\ OnBoxes'
  <2> HIDE DEF h, data
  <2>1. FP!WriteTables(h, b, i, n)  BY <1>5
  <2>2. i = Box(p) /\ i = open_file_table[h].of_inumber /\ i \in FP!INums
        /\ h \in FP!Handles
    BY <1>5 DEF On, FP!Files
  <2>3. status' = "running"  BY <1>1, <2>1 DEF FP!WriteTables
  <2>4. FP!IInv'  BY <1>1, <2>3, Sound
  <2>5. \A j \in FP!INums : inode[j].i_size \in Nat /\ inode'[j].i_size \in Nat
    BY <1>3, <2>4 DEF FP!IInv, FP!TypeOK
  <2>6. \A j \in FP!INums : inode'[j].i_size >= inode[j].i_size
    <3> SUFFICES ASSUME NEW j \in FP!INums PROVE inode'[j].i_size >= inode[j].i_size
      OBVIOUS
    <3>1. inode'[j].i_size = IF j = i THEN FP!SizeAfterWrite(h, i, n)
                             ELSE inode[j].i_size
      BY <2>1 DEF FP!WriteTables
    <3>2. FP!WriteEnd(h, n) \in Nat  BY <2>1 DEF FP!WriteTables
    <3> QED  BY <2>5, <3>1, <3>2 DEF FP!SizeAfterWrite
  <2>7. ASSUME NEW v \in Workers, NEW g \in FP!Handles, worker[v].h = g
        PROVE  On(v, g)'
    <3>1. On(v, g) /\ Box(v) \in FP!INums
      BY <1>1, <2>7, BoxLive DEF OnBoxes, On
    <3>2. free_open_file_entries'[g] = "TAKEN"
      BY <2>1, <3>1 DEF FP!WriteTables, On, FP!Inside, FP!IsOpen
    <3>3. \A s \in FP!Entries : dir[s].d_name = BoxOf[v] => dir'[s] = dir[s]
      BY <2>1 DEF FP!WriteTables
    <3>4. CASE v # p
      <4>1. g # h
        <5>1. worker[v].h # -1  BY <2>7, HandleNumbers
        <5> QED  BY <1>1, <2>7, <3>4, <5>1 DEF SInv, HandlesHeld, h
      <4>2. open_file_table'[g] = open_file_table[g]
        <5>1. open_file_table' = [open_file_table EXCEPT ![h].of_offset =
                                      open_file_table[h].of_offset + n]
          BY <1>5 DEF FP!WriteEffect
        <5>2. open_file_table \in [FP!Handles -> [of_inumber : FP!INums,
                                                 of_offset : Nat]]
          BY <1>3 DEF FP!IInv, FP!TypeOK
        <5> QED  BY <4>1, <5>1, <5>2
      <4> QED  BY <1>1, <2>3, <2>6, <3>1, <3>2, <3>3, <4>2, StaysOn
    <3>5. CASE v = p
      <4>1. g = h /\ Box(v) = i  BY <2>2, <2>7, <3>5 DEF h
      <4>2. Box(v)' = Box(v)
        <5>1. dir' = dir  BY <2>1 DEF FP!WriteTables
        <5> QED  BY <5>1 DEF Box, FP!tfs_lookup, FP!valid_pathname, FP!find_in_dir
      <4>3. /\ open_file_table'[h].of_inumber = i
            /\ open_file_table'[h].of_offset = FP!WriteEnd(h, n)
        BY <2>1, <2>2 DEF FP!WriteTables
      <4>4. FP!WriteEnd(h, n) <= inode'[i].i_size
        BY <2>1, <2>2, <2>5 DEF FP!WriteTables, FP!SizeAfterWrite
      <4>5. Box(v) # -1  BY <3>1 DEF On
      <4> HIDE DEF Box
      <4> QED
        BY <2>2, <3>2, <4>1, <4>2, <4>3, <4>4, <4>5 DEF On, FP!Inside, FP!IsOpen
    <3> QED  BY <3>4, <3>5
  <2> QED  BY <1>2, <2>3, <2>7 DEF OnBoxes
<1> QED  BY <1>4, <1>5, WriteBoxDoes

\* A read moves one handle, inside its file.
LEMMA ReadBoxOn ==
    ASSUME SInv, SInv', OnBoxes, NEW r \in Subscribers, ReadBox(r)
    PROVE  status' = "running" /\ OnBoxes'
<1> DEFINE h == worker[r].h
<1>1. /\ status = "running" /\ r \in Workers /\ FP!tfs_read(h, 1)
      /\ worker' = [worker EXCEPT ![r].data = last'.data,
                        ![r].at = IF last'.val > 0 THEN "send" ELSE "close"]
  BY SameRead DEF ReadBox, At, Running, Workers
<1>2. h \in {-1} \cup FP!Handles /\ h \in FP!CallHandles /\ 1 \in 0 .. 1
  BY <1>1, BoxTypes
<1>3. \A v \in Workers : worker'[v].h = worker[v].h
  BY <1>1, FieldsSet
<1> HIDE DEF h
<1>4. FP!IInv  BY <1>1 DEF SInv, FSInv
<1>5. CASE h = -1
  <2>1. ~FP!IsOpen(h)  BY <1>5, HandleNumbers DEF FP!IsOpen
  <2>2. UNCHANGED <<FP!tables, status>>
    BY <1>1, <2>1 DEF FP!tfs_read, FP!ReadNothing, FP!ReadBytes
  <2>3. UNCHANGED disk  BY <2>2 DEF disk, FP!tables
  <2> QED  BY <1>1, <1>3, <2>2, <2>3, QuietOn
<1>6. CASE h # -1
  <2>1. On(r, h) /\ FP!Inside(h)  BY <1>1, <1>2, <1>6 DEF OnBoxes, On, h
  <2>2. /\ UNCHANGED <<inode, dir, free_open_file_entries, status>>
        /\ h \in FP!Handles
        /\ \A g \in FP!Handles : g # h => open_file_table'[g] = open_file_table[g]
        /\ open_file_table'[h].of_inumber = open_file_table[h].of_inumber
        /\ open_file_table'[h].of_offset
               <= inode[open_file_table[h].of_inumber].i_size
    BY <1>1, <1>2, <1>4, <2>1, LimitsFit, FP!ReadOutcome
  <2>3. \A v \in Workers : Box(v)' = Box(v)
    BY <2>2 DEF Box, FP!tfs_lookup, FP!valid_pathname, FP!find_in_dir
  <2>4. ASSUME NEW v \in Workers, NEW g \in FP!Handles, worker[v].h = g
        PROVE  On(v, g)'
    <3>1. On(v, g)  BY <2>4 DEF OnBoxes
    <3> HIDE DEF Box
    <3> QED  BY <2>2, <2>3, <3>1 DEF On, FP!Inside, FP!IsOpen
  <2> QED  BY <1>1, <1>3, <2>2, <2>4 DEF OnBoxes
<1> QED  BY <1>2, <1>5, <1>6

\* Main removes a box that no session has open, or cut is set.
LEMMA UnlinkBoxOn ==
    ASSUME SInv, SInv', OnBoxes, UnlinkBox, ~cut'
    PROVE  status' = "running" /\ OnBoxes'
<1>1. /\ status = "running" /\ main \in Boxes /\ FP!tfs_unlink(main)
      /\ ~InSession(main) /\ worker' = worker
  BY SameUnlink DEF UnlinkBox, Running
<1>2. FP!IInv  BY <1>1 DEF SInv, FSInv
<1>3. /\ UNCHANGED <<inode, open_file_table, status>>
      /\ \A s \in FP!Entries : dir[s].d_name # main => dir'[s] = dir[s]
  BY <1>1, <1>2, LimitsFit, FP!UnlinkOutcome
<1>4. UNCHANGED free_open_file_entries  BY <1>1, UnlinkKeepsTable
<1>5. ASSUME NEW v \in Workers, NEW g \in FP!Handles, worker[v].h = g
      PROVE  On(v, g)'
  <2>1. On(v, g) /\ Box(v) \in FP!INums  BY <1>1, <1>5, BoxLive DEF OnBoxes, On
  <2>2. BoxOf[v] # main
    <3>1. g # -1  BY HandleNumbers
    <3>2. open_file_table[g].of_inumber # F!tfs_lookup(main)
      BY <1>1, <1>5, <3>1 DEF InSession
    <3>3. F!tfs_lookup(main) = FP!tfs_lookup(main)  BY <1>1, SameTables
    <3> QED  BY <2>1, <3>2, <3>3 DEF On, Box
  <2>3. inode[Box(v)].i_size \in Nat  BY <1>2, <2>1 DEF FP!IInv, FP!TypeOK
  <2>4. free_open_file_entries'[g] = "TAKEN"
    BY <1>4, <2>1 DEF On, FP!Inside, FP!IsOpen
  <2>5. /\ open_file_table'[g] = open_file_table[g]
        /\ inode'[Box(v)].i_size >= inode[Box(v)].i_size
        /\ \A s \in FP!Entries : dir[s].d_name = BoxOf[v] => dir'[s] = dir[s]
        /\ status' = "running"
    BY <1>1, <1>3, <2>2, <2>3
  <2> QED  BY <1>1, <2>1, <2>4, <2>5, StaysOn
<1> QED  BY <1>1, <1>3, <1>5 DEF OnBoxes

\* The steps that make no call of the file system.
LEMMA NoCallOn ==
    ASSUME SInv, SInv', OnBoxes, status = "running",
           \/ \E w \in Workers : OpenPipe(w) \/ Quit(w)
           \/ \E p \in Publishers : ReadPipe(p) \/ Publish(p)
           \/ \E r \in Subscribers : Send(r)
    PROVE  status' = "running" /\ OnBoxes' /\ cut' = cut
<1>1. UNCHANGED disk /\ cut' = cut
  BY DEF OpenPipe, Quit, ReadPipe, Publish, Send, NoCall, requesting
<1>2. \A v \in Workers : worker'[v].h = worker[v].h
  <2>1. ASSUME NEW w \in Workers, OpenPipe(w)
        PROVE  \A v \in Workers : worker'[v].h = worker[v].h
    BY <2>1, GotoKeepsHandles DEF OpenPipe
  <2>2. ASSUME NEW p \in Publishers, ReadPipe(p)
        PROVE  \A v \in Workers : worker'[v].h = worker[v].h
    BY <2>2, ReadPipeGoes DEF SInv
  <2>3. ASSUME NEW r \in Subscribers, Send(r)
        PROVE  \A v \in Workers : worker'[v].h = worker[v].h
    <3>1. r \in Workers  BY DEF Workers
    <3>2. CASE Goto(r, "read")  BY <3>1, <3>2, GotoKeepsHandles
    <3>3. CASE worker' = worker  BY <3>3
    <3> QED  BY <2>3, <3>2, <3>3 DEF Send
  <2> QED  BY <2>1, <2>2, <2>3 DEF Quit, Publish
<1>3. status' = status  BY <1>1 DEF disk
<1> QED  BY <1>1, <1>2, <1>3, QuietOn

\* Until cut, every step leaves the file system running and the sessions on
\* their boxes.
LEMMA NextOn ==
    ASSUME SInv, SInv', status = "running", OnBoxes, Next, ~cut'
    PROVE  status' = "running" /\ OnBoxes' /\ ~cut
<1>1. ASSUME NEW w \in Workers, WorkerStep(w)
      PROVE  status' = "running" /\ OnBoxes' /\ ~cut
  <2>1. CASE OpenPipe(w) \/ (w \in Publishers /\ ReadPipe(w))
             \/ (w \in Subscribers /\ Send(w))
    BY <2>1, NoCallOn
  <2>2. CASE OpenBox(w)  BY <2>2, OpenBoxOn DEF OpenBox, requesting
  <2>3. CASE CloseBox(w)  BY <2>3, CloseBoxOn DEF CloseBox, requesting
  <2>4. CASE w \in Publishers /\ WriteBox(w)
    BY <2>4, WriteBoxOn DEF WriteBox, requesting
  <2>5. CASE w \in Subscribers /\ ReadBox(w)
    BY <2>5, ReadBoxOn DEF ReadBox, requesting
  <2> QED  BY <1>1, <2>1, <2>2, <2>3, <2>4, <2>5 DEF WorkerStep
<1>2. ASSUME NEW w \in Workers, Quit(w)
      PROVE  status' = "running" /\ OnBoxes' /\ ~cut
  BY <1>2, NoCallOn
<1>3. ASSUME NEW p \in Publishers, Publish(p)
      PROVE  status' = "running" /\ OnBoxes' /\ ~cut
  BY <1>3, NoCallOn
<1>4. ASSUME NEW b \in Boxes, create_box(b) \/ remove_box(b)
      PROVE  status' = "running" /\ OnBoxes' /\ ~cut
  BY <1>4, LeakOn DEF create_box, remove_box
<1>5. CASE UnlinkBox  BY <1>5, UnlinkBoxOn DEF UnlinkBox
<1> QED  BY <1>1, <1>2, <1>3, <1>4, <1>5 DEF Next

\* Once cut, always cut.
LEMMA CutStays == ASSUME cut, [Next]_vars PROVE cut'
BY DEF Next, WorkerStep, OpenPipe, OpenBox, CloseBox, ReadPipe, WriteBox, ReadBox,
       Send, Quit, Publish, create_box, remove_box, UnlinkBox, requesting, vars

LEMMA NextPanicInv == PanicInv /\ [Next]_vars => PanicInv'
<1> SUFFICES ASSUME PanicInv, [Next]_vars PROVE PanicInv'  OBVIOUS
<1>1. SInv /\ SInv'  BY NextSInv DEF PanicInv
<1>2. CASE cut  BY <1>1, <1>2, CutStays DEF PanicInv
<1>3. CASE ~cut
  <2>1. status = "running" /\ OnBoxes  BY <1>3 DEF PanicInv
  <2>2. CASE UNCHANGED vars
    BY <1>1, <2>1, <2>2, QuietOn DEF vars, fs, disk, PanicInv
  <2>3. CASE Next  BY <1>1, <2>1, <2>3, NextOn DEF PanicInv
  <2> QED  BY <2>2, <2>3
<1> QED  BY <1>2, <1>3

\* Whatever the sessions, the clients and main do, and in whatever order, the
\* assertions of tfs_read, tfs_write and inode_delete hold, and no copy runs off
\* the blocks, until main removes a box that a session has open.
THEOREM PanicsHaveCause == Spec => []PanicHasCause
<1>1. Init => PanicInv
  <2> SUFFICES ASSUME Init PROVE PanicInv  OBVIOUS
  <2>1. SInv  BY InitSInv
  <2>2. status = "running" /\ \A w \in Workers : worker[w].h = -1  BY DEF Init
  <2> QED  BY <2>1, <2>2, HandleNumbers DEF PanicInv, OnBoxes
<1>2. PanicInv => PanicHasCause  BY DEF PanicInv, PanicHasCause
<1> QED  BY <1>1, <1>2, NextPanicInv, PTL DEF Spec

-----------------------------------------------------------------------------
(* What is stored stays *)

\* Every box has one publisher, which is what register_publisher is there for.
OnePublisher == \A p, q \in Publishers : BoxOf[p] = BoxOf[q] => p = q

\* A publisher's worker is about to write at the end of its file.
AtEnd ==
    \A p \in Publishers, h \in FP!Handles :
        (worker[p].at = "write" /\ worker[p].h = h) =>
            open_file_table[h].of_offset = inode[Box(p)].i_size

StoredInv == PanicInv /\ (cut \/ AtEnd)

\* Different boxes are different files.
LEMMA BoxesApart ==
    ASSUME SInv, status = "running", NEW b \in Boxes, NEW c \in Boxes,
           FP!tfs_lookup(b) # -1, FP!tfs_lookup(b) = FP!tfs_lookup(c)
    PROVE  b = c
<1>1. FP!IInv  BY DEF SInv, FSInv
<1>2. PICK s \in FP!Entries : dir[s].d_name = b /\ dir[s].d_inumber = FP!tfs_lookup(b)
  BY <1>1, LimitsFit, FP!LookupFound DEF FP!IInv
<1>3. PICK t \in FP!Entries : dir[t].d_name = c /\ dir[t].d_inumber = FP!tfs_lookup(c)
  BY <1>1, LimitsFit, FP!LookupFound DEF FP!IInv
<1>4. s = t  BY <1>1, <1>2, <1>3 DEF FP!IInv, FP!DirectoryConsistent
<1> QED  BY <1>2, <1>3, <1>4

\* Workers that do not come to write, in a step that keeps their files.
LEMMA StaysAtEnd ==
    ASSUME AtEnd, UNCHANGED <<inode, dir>>,
           \A p \in Publishers : worker'[p].at = "write" =>
               /\ worker[p].at = "write" /\ worker'[p].h = worker[p].h
               /\ \A h \in FP!Handles : worker[p].h = h =>
                      open_file_table'[h] = open_file_table[h]
    PROVE  AtEnd'
<1>1. \A p \in Publishers : Box(p)' = Box(p)
  BY DEF Box, FP!tfs_lookup, FP!valid_pathname, FP!find_in_dir
<1>2. ASSUME NEW p \in Publishers, NEW h \in FP!Handles,
             worker'[p].at = "write", worker'[p].h = h
      PROVE  open_file_table'[h].of_offset = inode'[Box(p)'].i_size
  <2>1. /\ worker[p].at = "write" /\ worker[p].h = h
        /\ open_file_table'[h] = open_file_table[h]
    BY <1>2
  <2>2. open_file_table[h].of_offset = inode[Box(p)].i_size  BY <2>1 DEF AtEnd
  <2> HIDE DEF Box
  <2> QED  BY <1>1, <2>1, <2>2
<1> QED  BY <1>2 DEF AtEnd

LEMMA OpenBoxAtEnd ==
    ASSUME SInv, SInv', OnBoxes, AtEnd, NEW w \in Workers, OpenBox(w)
    PROVE  AtEnd'
<1>1. /\ status = "running" /\ BoxOf[w] \in Boxes
      /\ FP!tfs_open(BoxOf[w], {"APPEND"}) /\ {"APPEND"} \in FP!Modes
  BY SessionAssumption, SameOpen
  DEF OpenBox, At, Running, SessionMode, FP!Modes
<1>2. FP!IInv /\ FP!IInv'
  BY <1>1, CallKeepsFS DEF SInv, FSInv
<1>3. \A v \in Workers, h \in FP!Handles : worker[v].h = h => Undisturbed(v, h)
  BY <1>1, OpenOthers
<1>4. \A v \in Workers \ {w} : worker'[v] = worker[v]  BY OpenBoxGoes
<1>5. worker'[w].h = last'.val  BY OpenBoxGoes
<1>6. ASSUME NEW p \in Publishers, NEW h \in FP!Handles,
             worker'[p].at = "write", worker'[p].h = h
      PROVE  open_file_table'[h].of_offset = inode'[Box(p)'].i_size
  <2>1. CASE p # w
    <3>1. worker[p] = worker'[p] /\ p \in Workers  BY <1>4, <2>1 DEF Workers
    <3>2. open_file_table[h].of_offset = inode[Box(p)].i_size
      BY <1>6, <3>1 DEF AtEnd
    <3>3. Undisturbed(p, h)  BY <1>3, <1>6, <3>1
    <3> HIDE DEF Box
    <3> QED  BY <3>2, <3>3 DEF Undisturbed
  <2>2. CASE p = w
    <3>1. last'.val = h /\ h # -1  BY <1>5, <1>6, <2>2, HandleNumbers
    <3>2. PICK g \in FP!Handles, o \in Nat :
              /\ FP!OpenEffect(BoxOf[w], g, o)
              /\ o = inode'[FP!tfs_lookup(BoxOf[w])'].i_size
      BY <1>1, <1>2, <3>1, LimitsFit, FP!OpenOutcome
    <3>3. g = h  BY <3>1, <3>2 DEF FP!OpenEffect
    <3>4. open_file_table'[h].of_offset = o
      BY <1>2, <3>2, <3>3 DEF FP!OpenEffect, FP!IInv, FP!TypeOK
    <3>5. Box(p)' = FP!tfs_lookup(BoxOf[w])'  BY <2>2 DEF Box
    <3> QED  BY <3>2, <3>4, <3>5
  <2> QED  BY <2>1, <2>2
<1> QED  BY <1>6 DEF AtEnd

LEMMA LeakAtEnd ==
    ASSUME SInv, SInv', OnBoxes, AtEnd, NEW b \in Boxes, create_box(b) \/ remove_box(b)
    PROVE  AtEnd'
<1>1. /\ status = "running" /\ FP!tfs_open(b, {"CREAT"}) /\ {"CREAT"} \in FP!Modes
      /\ worker' = worker
  BY SameOpen DEF create_box, remove_box, Running, FP!Modes
<1>2. \A v \in Workers, h \in FP!Handles : worker[v].h = h => Undisturbed(v, h)
  BY <1>1, OpenOthers
<1>3. Publishers \subseteq Workers  BY DEF Workers
<1>4. ASSUME NEW p \in Publishers, NEW h \in FP!Handles,
             worker[p].at = "write", worker[p].h = h
      PROVE  open_file_table'[h].of_offset = inode'[Box(p)'].i_size
  <2>1. Undisturbed(p, h)  BY <1>2, <1>3, <1>4
  <2>2. open_file_table[h].of_offset = inode[Box(p)].i_size  BY <1>4 DEF AtEnd
  <2> HIDE DEF Box
  <2> QED  BY <2>1, <2>2 DEF Undisturbed
<1> QED  BY <1>1, <1>4 DEF AtEnd

LEMMA WriteBoxAtEnd ==
    ASSUME OnePublisher, SInv, SInv', OnBoxes, AtEnd,
           NEW p \in Publishers, WriteBox(p)
    PROVE  AtEnd'
<1> DEFINE h == worker[p].h
           data == worker[p].data
<1>1. status = "running" /\ p \in Workers /\ Goto(p, "close")
  BY DEF WriteBox, At, Running, Workers
<1>2. /\ worker'[p].at = "close"
      /\ \A q \in Publishers \ {p} : worker'[q] = worker[q]
  BY <1>1, GotoSets DEF SInv, Workers
<1>3. FP!IInv  BY <1>1 DEF SInv, FSInv
<1>4. CASE UNCHANGED disk
  BY <1>2, <1>4, StaysAtEnd DEF disk
<1>5. ASSUME NEW b \in FP!BlockNumbers, NEW i \in FP!Files, NEW n \in 1 .. 1,
             On(p, h), h \in FP!Handles, i = Box(p),
             FP!WriteEffect(h, data, b, i, n), FP!WriteTables(h, b, i, n)
      PROVE  AtEnd'
  <2> HIDE DEF h, data
  <2>1. ASSUME NEW q \in Publishers, NEW g \in FP!Handles,
               worker'[q].at = "write", worker'[q].h = g
        PROVE  open_file_table'[g].of_offset = inode'[Box(q)'].i_size
    <3>1. q # p /\ worker[q] = worker'[q] /\ q \in Workers
      BY <1>2, <2>1 DEF Workers
    <3>2. open_file_table[g].of_offset = inode[Box(q)].i_size
      BY <2>1, <3>1 DEF AtEnd
    <3>3. g # h
      <4>1. worker[q].h # -1  BY <2>1, <3>1, HandleNumbers
      <4> QED  BY <1>1, <2>1, <3>1, <4>1 DEF SInv, HandlesHeld, h
    <3>4. On(q, g)  BY <2>1, <3>1 DEF OnBoxes
    <3>5. Box(q) # i
      <4>1. BoxOf[q] # BoxOf[p]  BY <3>1 DEF OnePublisher
      <4>2. BoxOf[q] \in Boxes /\ BoxOf[p] \in Boxes /\ Box(q) # -1
        BY <1>1, <3>1, <3>4, BoxTypes DEF On
      <4> QED  BY <1>1, <1>5, <4>1, <4>2, BoxesApart DEF Box
    <3>6. Box(q) \in FP!INums  BY <1>1, <3>1, <3>4, BoxLive DEF On
    <3>7. Box(q)' = Box(q)
      <4>1. dir' = dir  BY <1>5 DEF FP!WriteTables
      <4> QED  BY <4>1 DEF Box, FP!tfs_lookup, FP!valid_pathname, FP!find_in_dir
    <3> HIDE DEF Box
    <3>8. /\ open_file_table'[g].of_offset = open_file_table[g].of_offset
          /\ inode'[Box(q)].i_size = inode[Box(q)].i_size
      BY <1>5, <3>3, <3>5, <3>6 DEF FP!WriteTables
    <3> QED  BY <3>2, <3>7, <3>8
  <2> QED  BY <2>1 DEF AtEnd
<1> QED  BY <1>4, <1>5, WriteBoxDoes

LEMMA NextAtEnd ==
    ASSUME OnePublisher, SInv, SInv', status = "running", OnBoxes, AtEnd, Next, ~cut'
    PROVE  AtEnd'
<1>1. ASSUME NEW w \in Workers, WorkerStep(w) PROVE AtEnd'
  <2>1. CASE OpenPipe(w)
    <3>1. worker'[w].at # "write" /\ \A v \in Workers \ {w} : worker'[v] = worker[v]
      <4> DEFINE label == IF w \in Publishers THEN "read" ELSE "file"
      <4>1. Goto(w, label)  BY <2>1 DEF OpenPipe
      <4>2. label \in {"read", "file"}  OBVIOUS
      <4> HIDE DEF label
      <4> QED  BY <4>1, <4>2, GotoSets DEF SInv
    <3>2. UNCHANGED disk  BY <2>1 DEF OpenPipe, NoCall
    <3> QED  BY <3>1, <3>2, StaysAtEnd DEF disk, Workers
  <2>2. CASE OpenBox(w)  BY <2>2, OpenBoxAtEnd
  <2>3. CASE CloseBox(w)
    <3>1. /\ worker'[w].at # "write"
          /\ \A v \in Workers \ {w} : worker'[v] = worker[v]
      BY <2>3 DEF CloseBox, NextRound, SInv, SessionsTyped
    <3>2. UNCHANGED <<inode, dir, open_file_table>>
      BY <2>3, SameClose DEF CloseBox, CloseHandle, FP!tfs_close
    <3> QED  BY <3>1, <3>2, StaysAtEnd DEF Workers
  <2>4. CASE w \in Publishers /\ ReadPipe(w)
    <3>1. worker'[w].at # "write" /\ \A v \in Workers \ {w} : worker'[v] = worker[v]
      BY <2>4, ReadPipeGoes DEF SInv
    <3>2. UNCHANGED disk  BY <2>4 DEF ReadPipe, NoCall
    <3> QED  BY <3>1, <3>2, StaysAtEnd DEF disk, Workers
  <2>5. CASE w \in Publishers /\ WriteBox(w)  BY <2>5, WriteBoxAtEnd
  <2>6. CASE w \in Subscribers /\ ReadBox(w)
    <3>1. \A v \in Publishers : worker'[v] = worker[v]
      BY <2>6, SessionAssumption DEF ReadBox, SInv, SessionsTyped, Workers
    <3>2. /\ status = "running" /\ FP!tfs_read(worker[w].h, 1)
      BY <2>6, SameRead DEF ReadBox
    <3>3. UNCHANGED <<inode, dir>> /\ \A g \in FP!Handles : g # worker[w].h =>
              open_file_table'[g] = open_file_table[g]
      BY <3>2 DEF FP!tfs_read, FP!ReadNothing, FP!ReadBytes, FP!Abort, FP!tables,
                  SInv, FSInv, FP!TypeOK
    <3>4. ASSUME NEW v \in Publishers, NEW h \in FP!Handles, worker[v].h = h
          PROVE  open_file_table'[h] = open_file_table[h]
      <4>1. v # w /\ v \in Workers  BY <2>6, SessionAssumption DEF Workers
      <4>2. h # worker[w].h
        BY <3>4, <4>1, HandleNumbers DEF SInv, HandlesHeld
      <4> QED  BY <3>3, <4>2
    <3> QED  BY <3>1, <3>3, <3>4, StaysAtEnd
  <2>7. CASE w \in Subscribers /\ Send(w)
    <3>1. \A v \in Publishers : worker'[v] = worker[v]
      BY <2>7, SessionAssumption DEF Send, Goto, SInv, SessionsTyped, Workers
    <3>2. UNCHANGED disk  BY <2>7 DEF Send, NoCall
    <3> QED  BY <3>1, <3>2, StaysAtEnd DEF disk
  <2> QED
    BY <1>1, <2>1, <2>2, <2>3, <2>4, <2>5, <2>6, <2>7 DEF WorkerStep
<1>2. ASSUME NEW w \in Workers, Quit(w) PROVE AtEnd'
  BY <1>2, StaysAtEnd DEF Quit, NoCall, disk
<1>3. ASSUME NEW p \in Publishers, Publish(p) PROVE AtEnd'
  BY <1>3, StaysAtEnd DEF Publish, NoCall, disk
<1>4. ASSUME NEW b \in Boxes, create_box(b) \/ remove_box(b) PROVE AtEnd'
  BY <1>4, LeakAtEnd
<1>5. CASE UnlinkBox
  <2>1. main \in Boxes /\ FP!tfs_unlink(main) /\ worker' = worker /\ ~InSession(main)
    BY <1>5, SameUnlink DEF UnlinkBox
  <2>2. OnBoxes'  BY <1>5, UnlinkBoxOn
  <2>3. FP!IInv  BY DEF SInv, FSInv
  <2>4. UNCHANGED <<inode, open_file_table>>
    BY <2>1, <2>3, LimitsFit, FP!UnlinkOutcome
  <2>5. ASSUME NEW p \in Publishers, NEW h \in FP!Handles,
               worker[p].at = "write", worker[p].h = h
        PROVE  open_file_table'[h].of_offset = inode'[Box(p)'].i_size
    <3>1. On(p, h) /\ On(p, h)'
      BY <2>1, <2>2, <2>5 DEF OnBoxes, Workers
    <3>2. Box(p)' = Box(p)  BY <2>4, <3>1 DEF On
    <3>3. open_file_table[h].of_offset = inode[Box(p)].i_size  BY <2>5 DEF AtEnd
    <3> HIDE DEF Box
    <3> QED  BY <2>4, <3>2, <3>3
  <2> QED  BY <2>1, <2>5 DEF AtEnd
<1> QED  BY <1>1, <1>2, <1>3, <1>4, <1>5 DEF Next

LEMMA NextStoredInv ==
    ASSUME OnePublisher PROVE StoredInv /\ [Next]_vars => StoredInv'
<1> SUFFICES ASSUME StoredInv, [Next]_vars PROVE StoredInv'  OBVIOUS
<1>1. PanicInv /\ PanicInv'  BY NextPanicInv DEF StoredInv
<1>2. CASE cut  BY <1>1, <1>2, CutStays DEF StoredInv
<1>3. CASE ~cut
  <2>1. /\ SInv /\ SInv' /\ status = "running" /\ OnBoxes /\ AtEnd
    BY <1>1, <1>3 DEF StoredInv, PanicInv
  <2>2. CASE UNCHANGED vars
    BY <1>1, <2>1, <2>2, StaysAtEnd DEF vars, fs, disk, StoredInv
  <2>3. CASE Next /\ ~cut'  BY <1>1, <2>1, <2>3, NextAtEnd DEF StoredInv
  <2>4. CASE cut'  BY <1>1, <2>4 DEF StoredInv
  <2> QED  BY <2>2, <2>3, <2>4
<1> QED  BY <1>2, <1>3

\* Contents, by the name that MonitorFS_proofs has for tfs_lookup.
Stored(b) ==
    LET i == inode[FP!tfs_lookup(b)]
    IN  IF FP!tfs_lookup(b) = -1 \/ i.i_size = 0 THEN Junk
        ELSE fs_data[i.i_data_block]

SameContents ==
    \A b \in Boxes : /\ Contents(b) = Stored(b)
                     /\ F!tfs_lookup(b) = FP!tfs_lookup(b)

LEMMA ContentsSame == SameContents
BY SameTables DEF SameContents, Contents, Stored

LEMMA ContentsSameNext == SameContents'
BY ContentsSame, PTL

\* A box has what it had when its entry, its inode and its block are the same.
LEMMA StoredKept ==
    ASSUME FP!IInv, FP!IInv', NEW b \in Boxes, FP!tfs_lookup(b) # -1,
           \A s \in FP!Entries : dir[s].d_name = b => dir'[s] = dir[s],
           inode'[FP!tfs_lookup(b)] = inode[FP!tfs_lookup(b)],
           LET blk == inode[FP!tfs_lookup(b)].i_data_block
           IN  inode[FP!tfs_lookup(b)].i_size = 0 \/ fs_data'[blk] = fs_data[blk]
    PROVE  Stored(b)' = Stored(b)
<1>1. FP!tfs_lookup(b)' = FP!tfs_lookup(b)  BY LimitsFit, FP!LookupKept
<1> DEFINE inum == FP!tfs_lookup(b)
<1>2. Stored(b)' = IF inum' = -1 \/ inode'[inum'].i_size = 0 THEN Junk
                   ELSE fs_data'[inode'[inum'].i_data_block]
  BY DEF Stored
<1>3. Stored(b) = IF inum = -1 \/ inode[inum].i_size = 0 THEN Junk
                  ELSE fs_data[inode[inum].i_data_block]
  BY DEF Stored
<1>4. inum' = inum  BY <1>1
<1> HIDE DEF inum
<1> QED  BY <1>2, <1>3, <1>4 DEF inum

\* A box with contents is a live inode with a message in a block of its own.
LEMMA StoredWhere ==
    ASSUME FP!IInv, NEW b \in Boxes, Stored(b) # Junk
    PROVE  LET i == FP!tfs_lookup(b)
           IN  /\ i # -1 /\ i \in FP!INums /\ FP!Live(i)
               /\ inode[i].i_size = 1
               /\ inode[i].i_data_block \in FP!BlockNumbers
               /\ free_blocks[inode[i].i_data_block] = "TAKEN"
<1>1. FP!tfs_lookup(b) # -1 /\ inode[FP!tfs_lookup(b)].i_size # 0  BY DEF Stored
<1>2. FP!tfs_lookup(b) \in FP!INums /\ FP!Live(FP!tfs_lookup(b))
  BY <1>1, LimitsFit, FP!LookupFound DEF FP!IInv, FP!Files
<1> DEFINE i == FP!tfs_lookup(b)
<1> HIDE DEF i
<1>3. inode[i].i_size \in Nat /\ inode[i].i_size <= 1
  BY <1>2 DEF FP!IInv, FP!TypeOK, FP!SizesBounded, i
<1>4. inode[i].i_size = 1 /\ inode[i].i_size > 0  BY <1>1, <1>3 DEF i
<1>5. i \in FP!INums /\ FP!Live(i) /\ i # -1  BY <1>1, <1>2 DEF i
<1> QED  BY <1>4, <1>5 DEF FP!IInv, FP!BlocksNeverShared, i

\* A write goes to an empty file, or to no file at all: the handle of the one
\* publisher is at the end of its box, where a full block has no room.
LEMMA WriteKeepsStored ==
    ASSUME SInv, SInv', OnBoxes, AtEnd, status' = "running",
           NEW p \in Publishers, WriteBox(p), NEW c \in Boxes, Stored(c) # Junk
    PROVE  Stored(c)' = Stored(c)
<1> DEFINE h == worker[p].h
           data == worker[p].data
<1>1. status = "running" /\ p \in Workers  BY DEF WriteBox, At, Running, Workers
<1>2. FP!IInv /\ FP!IInv'  BY <1>1, Sound
<1>3. CASE UNCHANGED disk
  BY <1>3 DEF disk, Stored, FP!tfs_lookup, FP!valid_pathname, FP!find_in_dir
<1>4. ASSUME NEW b \in FP!BlockNumbers, NEW i \in FP!Files, NEW n \in 1 .. 1,
             On(p, h), h \in FP!Handles, i = Box(p), worker[p].at = "write",
             FP!WriteEffect(h, data, b, i, n), FP!WriteTables(h, b, i, n)
      PROVE  Stored(c)' = Stored(c)
  <2> DEFINE j == FP!tfs_lookup(c)
             blk == inode[j].i_data_block
             offset == open_file_table[h].of_offset
  <2>1. /\ j # -1 /\ j \in FP!INums /\ FP!Live(j) /\ inode[j].i_size = 1
        /\ blk \in FP!BlockNumbers /\ free_blocks[blk] = "TAKEN"
    BY <1>2, StoredWhere
  <2>2. offset = inode[i].i_size  BY <1>4 DEF AtEnd
  <2>3. offset \in Nat /\ offset + n <= 1 /\ i \in FP!INums
    BY <1>2, <1>4 DEF FP!IInv, FP!TypeOK, FP!WriteEffect, FP!Files
  <2> HIDE DEF h, data
  <2>4. /\ inode' = [inode EXCEPT ![i] =
               [inode[i] EXCEPT !.i_data_block = b,
                    !.i_size = IF offset + n > @ THEN offset + n ELSE @]]
        /\ fs_data' = [a \in FP!Addresses |->
               LET k == a - FP!BlockAddress(b, offset)
               IN  IF k \in 0 .. n - 1 THEN data[k + 1] ELSE fs_data[a]]
        /\ dir' = dir
        /\ IF inode[i].i_size = 0 THEN free_blocks[b] = "FREE"
           ELSE b = inode[i].i_data_block
    BY <1>4 DEF FP!WriteEffect
  <2> HIDE DEF j, blk, offset
  <2>5. offset = 0 /\ n = 1 /\ inode[i].i_size = 0  BY <2>2, <2>3
  <2>6. j # i /\ b # blk  BY <2>1, <2>4, <2>5
  <2>7. inode'[j] = inode[j]
    BY <1>2, <2>1, <2>4, <2>6 DEF FP!IInv, FP!TypeOK
  <2>8. fs_data'[blk] = fs_data[blk]
    <3>1. FP!BlockAddress(b, offset) = b /\ b \in Nat /\ blk \in Nat
      BY <2>1, <2>5, LimitsAssumption DEF FP!BlockAddress, FP!BlockNumbers
    <3>2. blk \in FP!Addresses
      BY <2>1, LimitsAssumption DEF FP!BlockNumbers, FP!Addresses
    <3>3. blk - b \notin 0 .. n - 1  BY <2>5, <2>6, <3>1
    <3> QED  BY <2>4, <3>1, <3>2, <3>3
  <2> QED  BY <1>2, <2>1, <2>4, <2>7, <2>8, StoredKept DEF j, blk
<1> QED  BY <1>3, <1>4, WriteBoxDoes

\* Opening a box leaves what boxes have alone.
LEMMA OpenKeepsStored ==
    ASSUME SInv, SInv', status = "running", NEW b \in Boxes, NEW mode \in FP!Modes,
           "TRUNC" \notin mode, FP!tfs_open(b, mode), NEW c \in Boxes, Stored(c) # Junk
    PROVE  Stored(c)' = Stored(c)
<1>1. FP!IInv /\ FP!IInv'  BY CallKeepsFS DEF SInv, FSInv
<1>2. /\ fs_data' = fs_data
      /\ \A i \in FP!INums : FP!Live(i) => inode'[i] = inode[i]
      /\ \A s \in FP!Entries : dir'[s] = dir[s]
  BY <1>1, LimitsFit, FP!OpenOutcome
<1>3. /\ FP!tfs_lookup(c) # -1
      /\ inode'[FP!tfs_lookup(c)] = inode[FP!tfs_lookup(c)]
  BY <1>1, <1>2, StoredWhere
<1> QED  BY <1>1, <1>2, <1>3, StoredKept

\* Removing a box leaves the others alone.
LEMMA UnlinkKeepsStored ==
    ASSUME SInv, SInv', status' = "running", UnlinkBox, NEW c \in Boxes,
           Stored(c) # Junk
    PROVE  Stored(c)' = Stored(c) \/ FP!tfs_lookup(c)' = -1
<1>1. status = "running" /\ main \in Boxes /\ FP!tfs_unlink(main)
  BY SameUnlink DEF UnlinkBox, Running
<1>2. FP!IInv /\ FP!IInv'  BY <1>1, Sound
<1>3. /\ UNCHANGED <<inode, fs_data>>
      /\ \A s \in FP!Entries : dir[s].d_name # main => dir'[s] = dir[s]
      /\ FP!tfs_lookup(main) # -1 => \A s \in FP!Entries' : dir'[s].d_name # main
  BY <1>1, <1>2, LimitsFit, FP!UnlinkOutcome
<1>4. FP!tfs_lookup(c) # -1  BY <1>2, StoredWhere
<1>5. CASE c = main
  <2>1. \A s \in FP!Entries' : dir'[s].d_name # c  BY <1>3, <1>4, <1>5
  <2> QED
    BY <2>1 DEF FP!Entries, FP!tfs_lookup, FP!valid_pathname, FP!find_in_dir
<1>6. CASE c # main  BY <1>2, <1>3, <1>4, <1>6, StoredKept
<1> QED  BY <1>5, <1>6

LEMMA NextKeepsStored ==
    ASSUME OnePublisher, StoredInv, StoredInv', Next, ~cut', NEW c \in Boxes,
           Stored(c) # Junk
    PROVE  Stored(c)' = Stored(c) \/ FP!tfs_lookup(c)' = -1
<1>1. /\ SInv /\ SInv' /\ status' = "running"
  BY DEF StoredInv, PanicInv
<1>2. ~cut  BY CutStays
<1>3. status = "running" /\ OnBoxes /\ AtEnd  BY <1>2 DEF StoredInv, PanicInv
<1>4. CASE UNCHANGED <<inode, dir, fs_data>>
  BY <1>4 DEF Stored, FP!tfs_lookup, FP!valid_pathname, FP!find_in_dir
<1>5. ASSUME NEW w \in Workers, WorkerStep(w)
      PROVE  Stored(c)' = Stored(c) \/ FP!tfs_lookup(c)' = -1
  <2>1. CASE OpenPipe(w) \/ ReadPipe(w) \/ Send(w)
    BY <1>4, <2>1 DEF OpenPipe, ReadPipe, Send, NoCall, disk
  <2>2. CASE OpenBox(w)
    <3>1. /\ FP!tfs_open(BoxOf[w], {"APPEND"}) /\ {"APPEND"} \in FP!Modes
          /\ BoxOf[w] \in Boxes
      BY <2>2, SessionAssumption, SameOpen DEF OpenBox, SessionMode, FP!Modes
    <3> QED  BY <1>1, <1>3, <3>1, OpenKeepsStored
  <2>3. CASE CloseBox(w)
    BY <1>4, <2>3, SameClose DEF CloseBox, CloseHandle, FP!tfs_close
  <2>4. CASE w \in Publishers /\ WriteBox(w)
    BY <1>1, <1>3, <2>4, WriteKeepsStored
  <2>5. CASE w \in Subscribers /\ ReadBox(w)
    <3>1. FP!tfs_read(worker[w].h, 1)  BY <2>5, SameRead DEF ReadBox
    <3> QED
      BY <1>4, <3>1 DEF FP!tfs_read, FP!ReadNothing, FP!ReadBytes, FP!Abort, FP!tables
  <2> QED  BY <1>5, <2>1, <2>2, <2>3, <2>4, <2>5 DEF WorkerStep
<1>6. ASSUME NEW w \in Workers, Quit(w)
      PROVE  Stored(c)' = Stored(c) \/ FP!tfs_lookup(c)' = -1
  BY <1>4, <1>6 DEF Quit, NoCall, disk
<1>7. ASSUME NEW p \in Publishers, Publish(p)
      PROVE  Stored(c)' = Stored(c) \/ FP!tfs_lookup(c)' = -1
  BY <1>4, <1>7 DEF Publish, NoCall, disk
<1>8. ASSUME NEW b \in Boxes, create_box(b) \/ remove_box(b)
      PROVE  Stored(c)' = Stored(c) \/ FP!tfs_lookup(c)' = -1
  <2>1. FP!tfs_open(b, {"CREAT"}) /\ {"CREAT"} \in FP!Modes
    BY <1>8, SameOpen DEF create_box, remove_box, FP!Modes
  <2> QED  BY <1>1, <1>3, <2>1, OpenKeepsStored
<1>9. CASE UnlinkBox  BY <1>1, <1>9, UnlinkKeepsStored
<1> QED  BY <1>5, <1>6, <1>7, <1>8, <1>9 DEF Next

\* With one publisher for each box, a message that a box has stays until the box
\* is removed, whoever opens, reads or publishes and in whatever order, as long
\* as no box is removed under a session.
THEOREM MessagesStay == ASSUME OnePublisher PROVE Spec => StoredStays
<1>1. Init => StoredInv
  <2> SUFFICES ASSUME Init PROVE StoredInv  OBVIOUS
  <2>1. SInv  BY InitSInv
  <2>2. /\ status = "running"
        /\ \A w \in Workers : worker[w].h = -1 /\ worker[w].at = "open"
    BY DEF Init
  <2> QED  BY <2>1, <2>2, HandleNumbers DEF StoredInv, PanicInv, OnBoxes, AtEnd, Workers
<1>2. StoredInv /\ [Next]_vars => StoredInv'  BY NextStoredInv
<1>3. ASSUME StoredInv, StoredInv', [Next]_vars
      PROVE  [\A b \in Boxes : (Contents(b) # Junk /\ ~cut')
                  => Contents(b)' = Contents(b) \/ F!tfs_lookup(b)' = -1]_vars
  <2>1. CASE Next
    <3> SUFFICES ASSUME NEW b \in Boxes, Contents(b) # Junk, ~cut'
                 PROVE  Contents(b)' = Contents(b) \/ F!tfs_lookup(b)' = -1
      OBVIOUS
    <3>1. /\ Contents(b) = Stored(b) /\ Contents(b)' = Stored(b)'
          /\ F!tfs_lookup(b)' = FP!tfs_lookup(b)'
      BY ContentsSame, ContentsSameNext DEF SameContents
    <3>2. Stored(b) # Junk  BY <3>1
    <3>3. Stored(b)' = Stored(b) \/ FP!tfs_lookup(b)' = -1
      BY <1>3, <2>1, <3>2, NextKeepsStored
    <3> QED  BY <3>1, <3>3
  <2> QED  BY <1>3, <2>1
<1> QED  BY <1>1, <1>2, <1>3, PTL DEF Spec, StoredStays

-----------------------------------------------------------------------------
(* Why what a subscriber is sent is in order *)

In(m, q) == \E k \in 1 .. Len(q) : q[k] = m

\* Batch a was published before batch b, which may begin with the end of a.
Before(a, b) == a.from < b.from /\ a.to <= b.from

\* Message m is in a block, or a subscriber's worker has read it.
Out(m) ==
    \/ \E a \in FP!Addresses : fs_data[a] = m
    \/ \E s \in Subscribers : In(m, got[s]) \/ In(m, worker[s].data)

\* What its publisher has in the pipe was written after message m.
Earlier(m) ==
    /\ m.from <= sent[m.by] /\ m.to <= sent[m.by]
    /\ \A k \in 1 .. Len(pipe[m.by]) : m.from < pipe[m.by][k] /\ m.to <= pipe[m.by][k]

PipeSent == \A p \in Publishers : \A k \in 1 .. Len(pipe[p]) : pipe[p][k] <= sent[p]

PipeSorted ==
    \A p \in Publishers : \A j, k \in 1 .. Len(pipe[p]) :
        j < k => pipe[p][j] < pipe[p][k]

OutEarlier == \A m \in Batches : Out(m) => Earlier(m)

\* All that there is of the publisher of m is before m.
Later(m) == \A n \in Batches : (Out(n) /\ n.by = m.by) => Before(n, m)

\* What a publisher's worker is about to store is later than all that there is.
Fresh ==
    \A p \in Publishers : worker[p].at \in {"file", "write"} =>
        \E m \in Batches : /\ worker[p].data = <<m>> /\ m.by = p
                           /\ Earlier(m) /\ Later(m)

\* A file of size 0 has no block, the others have a message in theirs.
Filled ==
    \A i \in FP!Files : IF inode[i].i_size = 0 THEN inode[i].i_data_block = -1
                        ELSE fs_data[inode[i].i_data_block] \in Batches

\* Message m goes on with the sequence q of messages.
After(m, q) ==
    m \in Batches /\ \A k \in 1 .. Len(q) : q[k].by = m.by => Before(q[k], m)

\* What a subscriber's worker would read from the start of a file is new to it.
NewTo(s, h) ==
    open_file_table[h].of_offset = 0 =>
        LET node == inode[open_file_table[h].of_inumber]
        IN  node.i_size = 0 \/ After(fs_data[node.i_data_block], got[s])

Ahead == \A s \in Subscribers, h \in FP!Handles : worker[s].h = h => NewTo(s, h)

\* What it has read and not sent is too, and its handle has gone past it.
OnTheWay ==
    \A s \in Subscribers : worker[s].at = "send" =>
        /\ \E m : worker[s].data = <<m>> /\ After(m, got[s])
        /\ \E h \in FP!Handles :
               worker[s].h = h /\ open_file_table[h].of_offset # 0

Numbered == PipeSent /\ PipeSorted /\ OutEarlier /\ Fresh

\* The inductive invariant behind SentInOrder.
SentInv == SInv /\ Numbered /\ Filled /\ Ahead /\ OnTheWay /\ SentInOrder

LEMMA Counts ==
    /\ Numbers \subseteq Nat
    /\ SInv => \A p \in Publishers : /\ sent[p] \in Nat /\ Len(pipe[p]) \in Nat
                                     /\ pipe[p] \in Seq(Numbers)
<1>1. Numbers \subseteq Nat
  <2>1. PICK n \in Nat : Numbers = 1 .. n  BY NumbersUpTo
  <2> QED  BY <2>1
<1>2. ASSUME SInv, NEW p \in Publishers
      PROVE  sent[p] \in Nat /\ Len(pipe[p]) \in Nat /\ pipe[p] \in Seq(Numbers)
  <2>1. sent[p] \in {0} \cup Numbers /\ pipe[p] \in Seq(Numbers)
    BY <1>2 DEF SInv, SessionsTyped
  <2>2. Len(pipe[p]) \in Nat  BY <2>1, LenProperties
  <2>3. sent[p] \in Nat
    <3>1. 0 \in Nat /\ Numbers \subseteq Nat  BY <1>1
    <3> QED  BY <2>1, <3>1
  <2> QED  BY <2>1, <2>2, <2>3
<1> QED  BY <1>1, <1>2

\* Messages stay earlier than what is in the pipe while it only loses some.
LEMMA EarlierStays ==
    ASSUME SInv, NEW m \in Batches, Earlier(m), UNCHANGED <<sent>>,
           NEW d, Without(pipe[m.by], d, pipe'[m.by])
    PROVE  Earlier(m)'
<1>1. Earlier(m)' <=> /\ m.from <= sent'[m.by] /\ m.to <= sent'[m.by]
                      /\ \A k \in 1 .. Len(pipe'[m.by]) :
                             m.from < pipe'[m.by][k] /\ m.to <= pipe'[m.by][k]
  BY DEF Earlier
<1>2. m.by \in Publishers  BY DEF Batches
<1>3. Len(pipe[m.by]) \in Nat  BY <1>2, Counts
<1>4. \A k \in 1 .. Len(pipe'[m.by]) :
          d + k \in 1 .. Len(pipe[m.by]) /\ pipe'[m.by][k] = pipe[m.by][d + k]
  BY <1>3 DEF Without
<1> QED  BY <1>1, <1>4 DEF Earlier

\* A pipe that loses the first messages it has stays as it is, for the rest.
LEMMA PipeStays ==
    ASSUME SInv, PipeSent, PipeSorted, sent' = sent,
           \A p \in Publishers : \E d : Without(pipe[p], d, pipe'[p])
    PROVE  PipeSent' /\ PipeSorted'
<1>1. ASSUME NEW p \in Publishers
      PROVE  \E d \in Nat : \A k \in 1 .. Len(pipe'[p]) :
                 d + k \in 1 .. Len(pipe[p]) /\ pipe'[p][k] = pipe[p][d + k]
  <2>1. PICK d : Without(pipe[p], d, pipe'[p])  OBVIOUS
  <2>2. Len(pipe[p]) \in Nat  BY Counts
  <2>3. /\ d \in 0 .. Len(pipe[p]) /\ Len(pipe'[p]) = Len(pipe[p]) - d
        /\ \A k \in 1 .. Len(pipe'[p]) : pipe'[p][k] = pipe[p][d + k]
    BY <2>1 DEF Without
  <2>4. d \in Nat /\ \A k \in 1 .. Len(pipe'[p]) : d + k \in 1 .. Len(pipe[p])
    BY <2>2, <2>3
  <2> QED  BY <2>3, <2>4
<1>2. PipeSent'  BY <1>1 DEF PipeSent
<1>3. PipeSorted'
  <2> SUFFICES ASSUME NEW p \in Publishers, NEW j \in 1 .. Len(pipe'[p]),
                      NEW k \in 1 .. Len(pipe'[p]), j < k
               PROVE  pipe'[p][j] < pipe'[p][k]
    BY DEF PipeSorted
  <2>1. PICK d \in Nat : \A i \in 1 .. Len(pipe'[p]) :
                 d + i \in 1 .. Len(pipe[p]) /\ pipe'[p][i] = pipe[p][d + i]
    BY <1>1
  <2>2. d + j < d + k  OBVIOUS
  <2> QED  BY <2>1, <2>2 DEF PipeSorted
<1> QED  BY <1>2, <1>3

\* A step that stores nothing and publishes nothing.
LEMMA NumberedStays ==
    ASSUME SInv, Numbered, sent' = sent, pipe' \in [Publishers -> Seq(Numbers)],
           \A p \in Publishers : \E d : Without(pipe[p], d, pipe'[p]),
           \A m \in Batches : Out(m)' => Out(m),
           \A p \in Publishers : worker'[p].at \in {"file", "write"} =>
               /\ worker[p].at \in {"file", "write"}
               /\ worker'[p].data = worker[p].data
    PROVE  Numbered'
<1>1. \A m \in Batches : m.by \in Publishers  BY DEF Batches
<1>2. \A m \in Batches : Earlier(m) => Earlier(m)'
  BY <1>1, EarlierStays
<1>3. OutEarlier'  BY <1>2 DEF Numbered, OutEarlier
<1>4. PipeSent' /\ PipeSorted'  BY PipeStays DEF Numbered
<1>5. \A m \in Batches : Later(m) => Later(m)'
  <2> SUFFICES ASSUME NEW m \in Batches, Later(m), NEW n \in Batches, Out(n)',
                      n.by = m.by
               PROVE  Before(n, m)
    BY DEF Later, Before
  <2> QED  BY DEF Later
<1>6. Fresh'
  <2> SUFFICES ASSUME NEW p \in Publishers, worker'[p].at \in {"file", "write"}
               PROVE  \E m \in Batches : /\ worker'[p].data = <<m>> /\ m.by = p
                                         /\ Earlier(m)' /\ Later(m)'
    BY DEF Fresh
  <2>1. PICK m \in Batches : /\ worker[p].data = <<m>> /\ m.by = p
                             /\ Earlier(m) /\ Later(m)
    BY DEF Numbered, Fresh
  <2> QED  BY <1>2, <1>5, <2>1
<1> QED  BY <1>3, <1>4, <1>6 DEF Numbered

\* A pipe that is as it was, or empty, has lost what was first in it.
LEMMA EmptyWithout ==
    ASSUME SInv, NEW p \in Publishers, pipe'[p] \in {pipe[p], <<>>}
    PROVE  \E d : Without(pipe[p], d, pipe'[p])
<1>1. Len(pipe[p]) \in Nat  BY Counts
<1>2. CASE pipe'[p] = pipe[p]
  <2>1. Without(pipe[p], 0, pipe'[p])  BY <1>1, <1>2 DEF Without
  <2> QED  BY <2>1
<1>3. CASE pipe'[p] = <<>>
  <2>1. Without(pipe[p], Len(pipe[p]), pipe'[p])  BY <1>1, <1>3 DEF Without
  <2> QED  BY <2>1
<1> QED  BY <1>2, <1>3

\* Elsewhere the workers' messages and the subscribers' are the same.
LEMMA SameOut ==
    ASSUME UNCHANGED <<fs_data, got>>, NEW m,
           \A s \in Subscribers : In(m, worker'[s].data) => In(m, worker[s].data),
           Out(m)'
    PROVE  Out(m)
BY DEF Out, In

\* A subscriber's handle whose file stays as it is, or is created anew.
LEMMA NewStays ==
    ASSUME NEW s \in Subscribers, NEW h \in FP!Handles, NewTo(s, h),
           open_file_table'[h] = open_file_table[h], got'[s] = got[s],
           fs_data' = fs_data,
           LET i == open_file_table[h].of_inumber
           IN  inode'[i] = inode[i] \/ inode'[i].i_size = 0
    PROVE  NewTo(s, h)'
BY DEF NewTo, After, Before

\* A handle that a session has is open, on a file.
LEMMA HeldOn ==
    ASSUME SInv, status = "running", NEW w \in Workers, NEW h \in FP!Handles,
           worker[w].h = h
    PROVE  /\ FP!IInv /\ FP!IsOpen(h) /\ open_file_table[h].of_inumber \in FP!Files
           /\ open_file_table[h].of_inumber \in FP!INums
           /\ open_file_table[h].of_offset \in Nat
<1>1. FP!IInv  BY DEF SInv, FSInv
<1>2. FP!IsOpen(h)  BY DEF SInv, HandlesHeld, FP!IsOpen
<1> QED  BY <1>1, <1>2 DEF FP!IInv, FP!HandlesOnFiles, FP!TypeOK

\* Opening a file keeps each inode, or makes it a new file.
LEMMA OpenInodes ==
    ASSUME FP!IInv, FP!IInv', NEW b \in Boxes, NEW mode \in FP!Modes,
           "TRUNC" \notin mode, FP!tfs_open(b, mode)
    PROVE  \A i \in FP!Files : inode'[i] = inode[i] \/ inode'[i] = FP!NewFile
<1> SUFFICES ASSUME NEW i \in FP!Files
             PROVE  inode'[i] = inode[i] \/ inode'[i] = FP!NewFile
  OBVIOUS
<1>1. i \in FP!INums /\ inode \in [FP!INums -> {inode[j] : j \in FP!INums}]
  BY DEF FP!IInv, FP!TypeOK, FP!Files
<1>2. CASE FP!OpenRefused(b, mode)  BY <1>2 DEF FP!OpenRefused, FP!tables
<1>3. CASE FP!OpenExisting(b, mode)
  <2>1. b \in Boxes /\ FP!tfs_lookup(b) # -1  BY <1>3 DEF FP!OpenExisting
  <2>2. FP!tfs_lookup(b) \in FP!INums /\ FP!Live(FP!tfs_lookup(b))
    BY <2>1, LimitsFit, FP!LookupFound DEF FP!IInv, FP!Files
  <2>3. ~FP!Truncates(FP!tfs_lookup(b), mode)  BY DEF FP!Truncates
  <2>4. inode' = inode
    <3> DEFINE j == FP!tfs_lookup(b)
               size == inode[j].i_size
    <3>1. inode' = [inode EXCEPT ![j].i_size = size]
      BY <1>3, <2>3 DEF FP!OpenExisting, FP!SizeAfterTrunc
    <3> HIDE DEF j
    <3> QED  BY <2>2, <3>1 DEF FP!IInv, FP!TypeOK, j
  <2> QED  BY <2>4
<1>4. CASE FP!CreateRefused(b, mode)
  BY <1>1, <1>4 DEF FP!CreateRefused
<1>5. CASE FP!Create(b, mode)  BY <1>1, <1>5 DEF FP!Create
<1> QED  BY <1>2, <1>3, <1>4, <1>5 DEF FP!tfs_open

LEMMA FilledStays ==
    ASSUME Filled, fs_data' = fs_data,
           \A i \in FP!Files : inode'[i] = inode[i] \/ inode'[i] = FP!NewFile
    PROVE  Filled'
BY DEF Filled, FP!NewFile

\* The steps that store nothing, publish nothing and send nothing.
LEMMA QuietSent ==
    ASSUME SentInv, SInv', UNCHANGED <<fs_data, got, sent>>,
           \A p \in Publishers : \/ pipe'[p] \in {pipe[p], <<>>}
                                 \/ \E d : Without(pipe[p], d, pipe'[p]),
           \/ inode' = inode
           \/ /\ status = "running"
              /\ \A i \in FP!Files : inode'[i] = inode[i] \/ inode'[i] = FP!NewFile,
           \A p \in Publishers : worker'[p].at \in {"file", "write"} =>
               /\ worker[p].at \in {"file", "write"}
               /\ worker'[p].data = worker[p].data,
           \A s \in Subscribers : worker'[s].data \in {worker[s].data, <<>>},
           \A s \in Subscribers, h \in FP!Handles : worker'[s].h = h =>
               \/ worker[s].h = h /\ open_file_table'[h] = open_file_table[h]
               \/ NewTo(s, h)',
           \A s \in Subscribers : worker'[s].at = "send" =>
               /\ worker[s].at = "send" /\ worker'[s].h = worker[s].h
               /\ worker'[s].data = worker[s].data
               /\ \A h \in FP!Handles : worker[s].h = h =>
                      open_file_table'[h] = open_file_table[h]
    PROVE  SentInv'
<1>1. \A m \in Batches : Out(m)' => Out(m)
  <2> SUFFICES ASSUME NEW m \in Batches, Out(m)' PROVE Out(m)  OBVIOUS
  <2>1. ~In(m, <<>>)  BY DEF In
  <2>2. \A s \in Subscribers : In(m, worker'[s].data) => In(m, worker[s].data)
    BY <2>1
  <2> QED  BY <2>2, SameOut
<1>2. Numbered'
  <2>1. pipe' \in [Publishers -> Seq(Numbers)]  BY DEF SInv, SessionsTyped
  <2>2. \A p \in Publishers : \E d : Without(pipe[p], d, pipe'[p])
    BY EmptyWithout DEF SentInv
  <2> QED  BY <1>1, <2>1, <2>2, NumberedStays DEF SentInv
<1>3. Filled'  BY FilledStays DEF SentInv
<1>4. Ahead'
  <2> SUFFICES ASSUME NEW s \in Subscribers, NEW h \in FP!Handles, worker'[s].h = h
               PROVE  NewTo(s, h)'
    BY DEF Ahead
  <2>1. CASE worker[s].h = h /\ open_file_table'[h] = open_file_table[h]
    <3>1. NewTo(s, h)  BY <2>1 DEF SentInv, Ahead
    <3>2. s \in Workers  BY DEF Workers
    <3> DEFINE i == open_file_table[h].of_inumber
    <3>3. inode'[i] = inode[i] \/ inode'[i].i_size = 0
      <4>1. CASE inode' = inode  BY <4>1
      <4>2. CASE status = "running"
        <5>1. i \in FP!Files  BY <2>1, <3>2, <4>2, HeldOn DEF SentInv
        <5> HIDE DEF i
        <5> QED  BY <5>1 DEF FP!NewFile
      <4> QED  BY <4>1, <4>2
    <3> QED  BY <2>1, <3>1, <3>3, NewStays
  <2> QED  BY <2>1
<1>5. OnTheWay'
  <2> SUFFICES ASSUME NEW s \in Subscribers, worker'[s].at = "send"
               PROVE  /\ \E m : worker'[s].data = <<m>> /\ After(m, got'[s])
                      /\ \E h \in FP!Handles :
                             worker'[s].h = h /\ open_file_table'[h].of_offset # 0
    BY DEF OnTheWay, After, Before
  <2> QED  BY DEF SentInv, OnTheWay
<1>6. SentInOrder'  BY DEF SentInv, SentInOrder
<1> QED  BY <1>2, <1>3, <1>4, <1>5, <1>6 DEF SentInv

LEMMA OpenPipeSent ==
    ASSUME SentInv, SInv', NEW w \in Workers, OpenPipe(w) PROVE SentInv'
<1> DEFINE label == IF w \in Publishers THEN "read" ELSE "file"
<1>1. Goto(w, label) /\ NoCall /\ UNCHANGED <<pipe, sent, got>>
  BY DEF OpenPipe
<1>2. /\ worker'[w].at = label /\ worker'[w].h = worker[w].h
      /\ worker'[w].data = worker[w].data
      /\ \A v \in Workers \ {w} : worker'[v] = worker[v]
  BY <1>1, GotoSets DEF SentInv, SInv
<1> QED
  BY <1>1, <1>2, SessionAssumption, QuietSent DEF NoCall, disk, Workers

LEMMA CloseBoxSent ==
    ASSUME SentInv, SInv', NEW w \in Workers, CloseBox(w) PROVE SentInv'
<1>1. /\ FP!tfs_close(worker[w].h) /\ ClosePipe(w) /\ UNCHANGED <<sent, got>>
      /\ worker' = [worker EXCEPT ![w] = [at |-> "open", h |-> -1, data |-> <<>>]]
  BY SameClose DEF CloseBox, CloseHandle, NextRound
<1>2. /\ worker'[w] = [at |-> "open", h |-> -1, data |-> <<>>]
      /\ \A v \in Workers \ {w} : worker'[v] = worker[v]
  BY <1>1 DEF SentInv, SInv, SessionsTyped
<1>3. UNCHANGED <<inode, fs_data, open_file_table>>  BY <1>1 DEF FP!tfs_close
<1>4. \A p \in Publishers : pipe'[p] \in {pipe[p], <<>>}
  BY <1>1 DEF ClosePipe, AfterClose
<1> QED
  BY <1>1, <1>2, <1>3, <1>4, HandleNumbers, QuietSent DEF Workers

LEMMA LeakSent ==
    ASSUME SentInv, SInv', NEW b \in Boxes, create_box(b) \/ remove_box(b)
    PROVE  SentInv'
<1>1. /\ status = "running" /\ FP!tfs_open(b, {"CREAT"}) /\ {"CREAT"} \in FP!Modes
      /\ UNCHANGED <<worker, pipes>>
  BY SameOpen DEF create_box, remove_box, Running, FP!Modes
<1>2. FP!IInv /\ FP!IInv'
  BY <1>1, CallKeepsFS DEF SentInv, SInv, FSInv
<1>3. /\ fs_data' = fs_data
      /\ \/ UNCHANGED open_file_table
         \/ \E h \in FP!Handles, offset \in Nat : FP!OpenEffect(b, h, offset)
  BY <1>1, <1>2, LimitsFit, FP!OpenOutcome
<1>4. \A i \in FP!Files : inode'[i] = inode[i] \/ inode'[i] = FP!NewFile
  BY <1>1, <1>2, OpenInodes
<1>5. \A s \in Subscribers, h \in FP!Handles : worker[s].h = h =>
          open_file_table'[h] = open_file_table[h]
  <2> SUFFICES ASSUME NEW s \in Subscribers, NEW h \in FP!Handles, worker[s].h = h
               PROVE  open_file_table'[h] = open_file_table[h]
    OBVIOUS
  <2>1. free_open_file_entries[h] = "TAKEN"
    BY DEF SentInv, SInv, HandlesHeld, Workers
  <2>2. ASSUME NEW g \in FP!Handles, NEW offset \in Nat, FP!OpenEffect(b, g, offset)
        PROVE  open_file_table'[h] = open_file_table[h]
    <3>1. g # h  BY <2>1, <2>2 DEF FP!OpenEffect
    <3> QED  BY <1>2, <2>2, <3>1 DEF FP!OpenEffect, FP!IInv, FP!TypeOK
  <2> QED  BY <1>3, <2>2
<1> QED
  BY <1>1, <1>3, <1>4, <1>5, QuietSent DEF pipes

LEMMA UnlinkBoxSent ==
    ASSUME SentInv, SInv', UnlinkBox PROVE SentInv'
<1>1. /\ status = "running" /\ main \in Boxes /\ FP!tfs_unlink(main)
      /\ UNCHANGED <<worker, pipes>>
  BY SameUnlink DEF UnlinkBox, Running
<1>2. FP!IInv  BY <1>1 DEF SentInv, SInv, FSInv
<1>3. UNCHANGED <<inode, fs_data, open_file_table>>
  BY <1>1, <1>2, LimitsFit, FP!UnlinkOutcome
<1> QED  BY <1>1, <1>3, QuietSent DEF pipes

LEMMA QuitSent ==
    ASSUME SentInv, SInv', NEW w \in Workers, Quit(w) PROVE SentInv'
BY QuietSent DEF Quit, NoCall, disk

\* O_APPEND: where there is something to read, the handle is past the start.
LEMMA OpenBoxSent ==
    ASSUME SentInv, SInv', NEW w \in Workers, OpenBox(w) PROVE SentInv'
<1>1. /\ worker[w].at = "file" /\ status = "running" /\ BoxOf[w] \in Boxes
      /\ FP!tfs_open(BoxOf[w], {"APPEND"}) /\ {"APPEND"} \in FP!Modes
      /\ UNCHANGED pipes
  BY SessionAssumption, SameOpen
  DEF OpenBox, At, Running, SessionMode, FP!Modes
<1>2. FP!IInv /\ FP!IInv'
  BY <1>1, CallKeepsFS DEF SentInv, SInv, FSInv
<1>3. /\ fs_data' = fs_data
      /\ \/ last'.val = -1 /\ UNCHANGED open_file_table
         \/ \E h \in FP!Handles, offset \in Nat :
                /\ FP!OpenEffect(BoxOf[w], h, offset)
                /\ offset = inode'[FP!tfs_lookup(BoxOf[w])'].i_size
  BY <1>1, <1>2, LimitsFit, FP!OpenOutcome
<1>4. \A i \in FP!Files : inode'[i] = inode[i] \/ inode'[i] = FP!NewFile
  BY <1>1, <1>2, OpenInodes
<1>5. /\ worker'[w].h = last'.val /\ worker'[w].data = worker[w].data
      /\ worker'[w].at = IF w \in Publishers THEN "write" ELSE "read"
      /\ \A v \in Workers \ {w} : worker'[v] = worker[v]
  BY OpenBoxGoes DEF SentInv
<1>6. \A s \in Subscribers \ {w}, h \in FP!Handles : worker[s].h = h =>
          open_file_table'[h] = open_file_table[h]
  <2> SUFFICES ASSUME NEW s \in Subscribers \ {w}, NEW h \in FP!Handles,
                      worker[s].h = h
               PROVE  open_file_table'[h] = open_file_table[h]
    OBVIOUS
  <2>1. free_open_file_entries[h] = "TAKEN"
    BY DEF SentInv, SInv, HandlesHeld, Workers
  <2>2. ASSUME NEW g \in FP!Handles, NEW offset \in Nat,
               FP!OpenEffect(BoxOf[w], g, offset)
        PROVE  open_file_table'[h] = open_file_table[h]
    <3>1. g # h  BY <2>1, <2>2 DEF FP!OpenEffect
    <3> QED  BY <1>2, <2>2, <3>1 DEF FP!OpenEffect, FP!IInv, FP!TypeOK
  <2> QED  BY <1>3, <2>2
<1>7. ASSUME w \in Subscribers, NEW h \in FP!Handles, last'.val = h
      PROVE  NewTo(w, h)'
  <2>1. h # -1  BY HandleNumbers
  <2>2. PICK g \in FP!Handles, offset \in Nat :
            /\ FP!OpenEffect(BoxOf[w], g, offset)
            /\ offset = inode'[FP!tfs_lookup(BoxOf[w])'].i_size
    BY <1>3, <1>7, <2>1
  <2>3. g = h  BY <1>7, <2>2 DEF FP!OpenEffect
  <2> DEFINE i == FP!tfs_lookup(BoxOf[w])'
  <2>4. open_file_table'[h] = [of_inumber |-> i, of_offset |-> offset]
    BY <1>2, <2>2, <2>3 DEF FP!OpenEffect, FP!IInv, FP!TypeOK
  <2>5. offset = inode'[i].i_size  BY <2>2
  <2> HIDE DEF i
  <2> QED  BY <2>4, <2>5 DEF NewTo
<1>8. \A s \in Subscribers, h \in FP!Handles : worker'[s].h = h =>
          \/ worker[s].h = h /\ open_file_table'[h] = open_file_table[h]
          \/ NewTo(s, h)'
  BY <1>5, <1>6, <1>7 DEF Workers
<1>9. \A s \in Subscribers : worker'[s].at = "send" =>
          /\ worker[s].at = "send" /\ worker'[s].h = worker[s].h
          /\ worker'[s].data = worker[s].data
          /\ \A h \in FP!Handles : worker[s].h = h =>
                 open_file_table'[h] = open_file_table[h]
  BY <1>5, <1>6, SessionAssumption DEF Workers
<1> QED
  BY <1>1, <1>3, <1>4, <1>5, <1>8, <1>9, SessionAssumption, QuietSent
  DEF pipes, Workers

\* A publisher's worker takes from the pipe a batch that is new.
LEMMA ReadPipeSent ==
    ASSUME SentInv, SInv', NEW p \in Publishers, ReadPipe(p) PROVE SentInv'
<1>1. /\ worker[p].at = "read" /\ NoCall /\ p \in Workers /\ UNCHANGED <<sent, got>>
      /\ SInv
  BY DEF ReadPipe, At, Workers, SentInv
<1>2. /\ worker'[p].h = worker[p].h /\ \A v \in Workers \ {p} : worker'[v] = worker[v]
      /\ \A q \in Publishers \ {p} : pipe'[q] = pipe[q]
      /\ \E d : Without(pipe[p], d, pipe'[p])
  BY <1>1, ReadPipeGoes DEF SInv
<1>3. \A q \in Publishers : \E d : Without(pipe[q], d, pipe'[q])
  BY <1>1, <1>2, EmptyWithout
<1>4. CASE worker'[p].at = "open" /\ worker'[p].data = worker[p].data
  BY <1>1, <1>2, <1>3, <1>4, SessionAssumption, QuietSent DEF NoCall, disk, Workers
<1>5. ASSUME NEW m \in Batches, NEW n \in 1 .. Len(pipe[p]),
             NEW d \in 1 .. Len(pipe[p]),
             worker'[p].at = "file", worker'[p].data = <<m>>,
             m.by = p, m.from = pipe[p][1], m.to = pipe[p][n], d >= n - 1,
             Without(pipe[p], d, pipe'[p])
      PROVE  SentInv'
  <2>1. /\ Len(pipe[p]) \in Nat /\ sent[p] \in Nat /\ pipe[p] \in Seq(Numbers)
        /\ Numbers \subseteq Nat
    BY <1>1, Counts
  <2>2. /\ 1 \in 1 .. Len(pipe[p]) /\ n \in 1 .. Len(pipe[p])
        /\ \A k \in 1 .. Len(pipe[p]) : pipe[p][k] \in Nat
    <3>1. 1 \in 1 .. Len(pipe[p])  BY <2>1
    <3>2. \A k \in 1 .. Len(pipe[p]) : pipe[p][k] \in Numbers  BY <2>1
    <3> QED  BY <2>1, <3>1, <3>2
  <2>3. \A s \in Subscribers : worker'[s] = worker[s]
    BY <1>2, SessionAssumption DEF Workers
  <2>4. \A x \in Batches : Out(x)' <=> Out(x)
    BY <1>1, <2>3 DEF Out, NoCall, disk
  <2>5. \A x \in Batches : Later(x) => Later(x)'
    BY <2>4 DEF Later, Before
  <2>6. Later(m)
    <3> SUFFICES ASSUME NEW x \in Batches, Out(x), x.by = p PROVE Before(x, m)
      BY <1>5 DEF Later
    <3>1. Earlier(x)  BY DEF SentInv, Numbered, OutEarlier
    <3>2. x.from < pipe[p][1] /\ x.to <= pipe[p][1]  BY <2>2, <3>1 DEF Earlier
    <3> QED  BY <1>5, <3>2 DEF Before
  <2>7. \A x \in Batches : Earlier(x) => Earlier(x)'
    <3>1. \A x \in Batches : x.by \in Publishers  BY DEF Batches
    <3> QED  BY <1>1, <1>3, <3>1, EarlierStays
  <2>8. Earlier(m)'
    <3>1. m.from <= sent'[p] /\ m.to <= sent'[p]
      BY <1>1, <1>5, <2>2 DEF SentInv, Numbered, PipeSent
    <3>2. Earlier(m)' <=> /\ m.from <= sent'[m.by] /\ m.to <= sent'[m.by]
                          /\ \A k \in 1 .. Len(pipe'[m.by]) :
                                 m.from < pipe'[m.by][k] /\ m.to <= pipe'[m.by][k]
      BY DEF Earlier
    <3>3. ASSUME NEW k \in 1 .. Len(pipe'[p])
          PROVE  m.from < pipe'[p][k] /\ m.to <= pipe'[p][k]
      <4>1. /\ d + k \in 1 .. Len(pipe[p]) /\ pipe'[p][k] = pipe[p][d + k]
            /\ 1 < d + k /\ n <= d + k
        BY <1>5, <2>1 DEF Without
      <4>2. pipe[p][1] < pipe[p][d + k]
        BY <2>2, <4>1 DEF SentInv, Numbered, PipeSorted
      <4>3. pipe[p][n] <= pipe[p][d + k]
        <5>1. CASE n = d + k  BY <2>2, <5>1
        <5>2. CASE n < d + k
          <6>1. pipe[p][n] < pipe[p][d + k]
            BY <2>2, <4>1, <5>2 DEF SentInv, Numbered, PipeSorted
          <6> QED  BY <2>2, <4>1, <6>1
        <5> QED  BY <2>1, <4>1, <5>1, <5>2
      <4> QED  BY <1>5, <4>1, <4>2, <4>3
    <3> QED  BY <1>5, <3>1, <3>2, <3>3
  <2>9. OutEarlier'  BY <2>4, <2>7 DEF SentInv, Numbered, OutEarlier
  <2>10. PipeSent' /\ PipeSorted'
    BY <1>1, <1>3, PipeStays DEF SentInv, Numbered
  <2>11. Fresh'
    <3> SUFFICES ASSUME NEW q \in Publishers, worker'[q].at \in {"file", "write"}
                 PROVE  \E x \in Batches : /\ worker'[q].data = <<x>> /\ x.by = q
                                           /\ Earlier(x)' /\ Later(x)'
      BY DEF Fresh
    <3>1. CASE q = p  BY <1>5, <2>5, <2>6, <2>8, <3>1
    <3>2. CASE q # p
      <4>1. worker'[q] = worker[q]  BY <1>2, <3>2 DEF Workers
      <4>2. PICK x \in Batches : /\ worker[q].data = <<x>> /\ x.by = q
                                 /\ Earlier(x) /\ Later(x)
        BY <4>1 DEF SentInv, Numbered, Fresh
      <4> QED  BY <2>5, <2>7, <4>1, <4>2
    <3> QED  BY <3>1, <3>2
  <2>12. Filled' /\ Ahead' /\ OnTheWay' /\ SentInOrder'
    BY <1>1, <2>3
    DEF SentInv, Filled, Ahead, NewTo, OnTheWay, After, Before, SentInOrder, NoCall, disk
  <2> QED  BY <2>9, <2>10, <2>11, <2>12 DEF SentInv, Numbered
<1>6. \/ worker'[p].at = "open" /\ worker'[p].data = worker[p].data
      \/ \E m \in Batches, n, d \in 1 .. Len(pipe[p]) :
             /\ worker'[p].at = "file" /\ worker'[p].data = <<m>>
             /\ m.by = p /\ m.from = pipe[p][1] /\ m.to = pipe[p][n]
             /\ d >= n - 1 /\ Without(pipe[p], d, pipe'[p])
  BY <1>1, ReadPipeGoes DEF SInv
<1> QED  BY <1>4, <1>5, <1>6

\* The next message of a publisher is later than all that there are.
LEMMA PublishSent ==
    ASSUME SentInv, SInv', NEW p \in Publishers, Publish(p) PROVE SentInv'
<1>1. NoCall /\ UNCHANGED <<worker, got>> /\ sent' = [sent EXCEPT ![p] = sent[p] + 1]
  BY DEF Publish
<1>2. \A q \in Publishers : /\ sent[q] \in Nat /\ Len(pipe[q]) \in Nat
                            /\ pipe[q] \in Seq(Numbers)
  BY Counts DEF SentInv
<1>3. /\ sent'[p] = sent[p] + 1
      /\ \A q \in Publishers \ {p} : sent'[q] = sent[q] /\ pipe'[q] = pipe[q]
  BY <1>1 DEF SentInv, SInv, SessionsTyped, Publish
<1>4. pipe'[p] = <<>> \/ pipe'[p] = Append(pipe[p], sent[p] + 1)
  BY <1>3 DEF SentInv, SInv, SessionsTyped, Publish
<1>5. \A k \in 1 .. Len(pipe'[p]) :
          \/ k \in 1 .. Len(pipe[p]) /\ pipe'[p][k] = pipe[p][k]
          \/ pipe'[p][k] = sent[p] + 1
  <2>1. CASE pipe'[p] = <<>>  BY <2>1
  <2>2. CASE pipe'[p] = Append(pipe[p], sent[p] + 1)
    <3>1. Len(pipe'[p]) = Len(pipe[p]) + 1
      BY <1>2, <2>2, AppendProperties
    <3> QED  BY <1>2, <2>2
  <2> QED  BY <1>4, <2>1, <2>2
<1>6. ASSUME NEW m \in Batches, Earlier(m) PROVE Earlier(m)'
  <2>1. m.by \in Publishers /\ m.from \in Nat /\ m.to \in Nat  BY Counts DEF Batches
  <2>2. Earlier(m)' <=> /\ m.from <= sent'[m.by] /\ m.to <= sent'[m.by]
                        /\ \A k \in 1 .. Len(pipe'[m.by]) :
                               m.from < pipe'[m.by][k] /\ m.to <= pipe'[m.by][k]
    BY DEF Earlier
  <2>3. CASE m.by = p
    <3>1. /\ m.from <= sent[p] /\ m.to <= sent[p]
          /\ \A k \in 1 .. Len(pipe[p]) : m.from < pipe[p][k] /\ m.to <= pipe[p][k]
      BY <1>6, <2>3 DEF Earlier
    <3>2. /\ m.from <= sent'[p] /\ m.from < sent[p] + 1
          /\ m.to <= sent'[p] /\ m.to <= sent[p] + 1
      BY <1>2, <1>3, <2>1, <3>1
    <3> QED  BY <1>5, <2>2, <2>3, <3>1, <3>2
  <2>4. CASE m.by # p
    BY <1>3, <1>6, <2>1, <2>2, <2>4 DEF Earlier
  <2> QED  BY <2>3, <2>4
<1>7. \A m \in Batches : Out(m)' <=> Out(m)  BY <1>1 DEF Out, NoCall, disk
<1>8. OutEarlier'  BY <1>6, <1>7 DEF SentInv, Numbered, OutEarlier
<1>9. PipeSent'
  <2> SUFFICES ASSUME NEW q \in Publishers, NEW k \in 1 .. Len(pipe'[q])
               PROVE  pipe'[q][k] <= sent'[q]
    BY DEF PipeSent
  <2>1. CASE q # p  BY <1>3, <2>1 DEF SentInv, Numbered, PipeSent
  <2>2. CASE q = p
    <3>1. CASE k \in 1 .. Len(pipe[p]) /\ pipe'[p][k] = pipe[p][k]
      <4>1. pipe[p][k] <= sent[p]  BY <3>1 DEF SentInv, Numbered, PipeSent
      <4>2. pipe[p][k] \in Nat
        <5>1. pipe[p][k] \in Numbers  BY <1>2, <3>1
        <5> QED  BY <5>1, Counts
      <4>3. \A x, y \in Nat : x <= y => x <= y + 1  OBVIOUS
      <4> QED  BY <1>2, <1>3, <2>2, <3>1, <4>1, <4>2, <4>3
    <3>2. CASE pipe'[p][k] = sent[p] + 1
      BY <1>2, <1>3, <2>2, <3>2
    <3> QED  BY <1>5, <2>2, <3>1, <3>2
  <2> QED  BY <2>1, <2>2
<1>10. PipeSorted'
  <2> SUFFICES ASSUME NEW q \in Publishers, NEW j \in 1 .. Len(pipe'[q]),
                      NEW k \in 1 .. Len(pipe'[q]), j < k
               PROVE  pipe'[q][j] < pipe'[q][k]
    BY DEF PipeSorted
  <2>1. CASE q # p  BY <1>3, <2>1 DEF SentInv, Numbered, PipeSorted
  <2>2. CASE q = p /\ pipe'[p] = <<>>  BY <2>2
  <2>3. CASE q = p /\ pipe'[p] = Append(pipe[p], sent[p] + 1)
    <3>1. Len(pipe'[p]) = Len(pipe[p]) + 1
      BY <1>2, <2>3, AppendProperties
    <3>2. j \in 1 .. Len(pipe[p]) /\ pipe'[p][j] = pipe[p][j] /\ pipe[p][j] \in Nat
      <4>1. j \in 1 .. Len(pipe[p])  BY <1>2, <2>3, <3>1
      <4>2. pipe[p][j] \in Numbers  BY <1>2, <4>1
      <4>3. pipe[p][j] \in Nat  BY <4>2, Counts
      <4>4. pipe'[p][j] = pipe[p][j]  BY <1>2, <2>3, <4>1
      <4> QED  BY <4>1, <4>3, <4>4
    <3>3. pipe[p][j] <= sent[p]  BY <3>2 DEF SentInv, Numbered, PipeSent
    <3>4. CASE k \in 1 .. Len(pipe[p])
      <4>1. pipe'[p][k] = pipe[p][k]  BY <1>2, <2>3, <3>4
      <4> QED  BY <2>3, <3>2, <3>4, <4>1 DEF SentInv, Numbered, PipeSorted
    <3>5. CASE k = Len(pipe[p]) + 1
      <4>1. pipe'[p][k] = sent[p] + 1  BY <1>2, <2>3, <3>5
      <4> QED  BY <1>2, <2>3, <3>2, <3>3, <4>1
    <3> QED  BY <1>2, <2>3, <3>1, <3>4, <3>5
  <2> QED  BY <1>4, <2>1, <2>2, <2>3
<1>11. \A m \in Batches : Later(m) => Later(m)'  BY <1>7 DEF Later, Before
<1>12. Fresh'
  BY <1>1, <1>6, <1>11 DEF SentInv, Numbered, Fresh
<1>13. Filled' /\ Ahead' /\ OnTheWay' /\ SentInOrder'
  BY <1>1
  DEF SentInv, Filled, Ahead, NewTo, OnTheWay, After, Before, SentInOrder, NoCall, disk
<1> QED  BY <1>8, <1>9, <1>10, <1>12, <1>13 DEF SentInv, Numbered

\* A subscriber is sent what its worker has read, which it does not have yet.
LEMMA SendSent ==
    ASSUME SentInv, SInv', NEW s \in Subscribers, Send(s) PROVE SentInv'
<1>1. /\ worker[s].at = "send" /\ NoCall /\ s \in Workers /\ s \notin Publishers
      /\ UNCHANGED <<pipe, sent>>
      /\ Goto(s, "read") \/ worker' = worker
  BY SessionAssumption DEF Send, At, Workers
<1>2. /\ worker'[s].h = worker[s].h /\ worker'[s].data = worker[s].data
      /\ \A v \in Workers \ {s} : worker'[v] = worker[v]
      /\ worker'[s].at = "read" \/ worker' = worker
  BY <1>1, GotoSets DEF SentInv, SInv
<1>3. CASE got' = got
  BY <1>1, <1>2, <1>3, QuietSent DEF NoCall, disk, Workers
<1>4. CASE Goto(s, "read") /\ got' = [got EXCEPT ![s] = got[s] \o worker[s].data]
  <2>0. PICK h \in FP!Handles : worker[s].h = h /\ open_file_table[h].of_offset # 0
    BY <1>1 DEF SentInv, OnTheWay
  <2>1. PICK m : worker[s].data = <<m>> /\ After(m, got[s])
    BY <1>1 DEF SentInv, OnTheWay
  <2> DEFINE n == Len(got[s])
  <2>2. got[s] \in Data /\ n \in Nat  BY DEF SentInv, SInv, SessionsTyped, Data
  <2>3. /\ got'[s] = got[s] \o <<m>>
        /\ \A v \in Subscribers \ {s} : got'[v] = got[v]
    BY <1>4, <2>1 DEF SentInv, SInv, SessionsTyped
  <2>4. /\ Len(got'[s]) = n + 1 /\ got'[s][n + 1] = m
        /\ \A k \in 1 .. n : got'[s][k] = got[s][k]
    BY <2>2, <2>3 DEF Data
  <2>5. worker'[s].at = "read"
    BY <1>1, <1>4, GotoSets DEF SentInv, SInv
  <2>6. \A x : In(x, got'[s]) => In(x, got[s]) \/ x = m
    BY <2>2, <2>4 DEF In
  <2>7. In(m, worker[s].data)  BY <2>1 DEF In
  <2>8. \A x \in Batches : Out(x)' => Out(x)
    <3> SUFFICES ASSUME NEW x \in Batches, Out(x)' PROVE Out(x)  OBVIOUS
    <3>1. Out(x)' <=> \/ \E a \in FP!Addresses : fs_data'[a] = x
                      \/ \E v \in Subscribers : \/ In(x, got'[v])
                                               \/ In(x, worker'[v].data)
      BY DEF Out, In
    <3>2. fs_data' = fs_data  BY <1>1 DEF NoCall, disk
    <3> QED  BY <1>2, <2>3, <2>6, <2>7, <3>1, <3>2 DEF Out, Workers
  <2>9. Numbered'
    <3>1. pipe' \in [Publishers -> Seq(Numbers)]  BY DEF SInv, SessionsTyped
    <3>2. \A q \in Publishers : \E d : Without(pipe[q], d, pipe'[q])
      BY <1>1, EmptyWithout DEF SentInv
    <3> QED  BY <1>1, <1>2, <2>8, <3>1, <3>2, NumberedStays DEF SentInv, Workers
  <2>10. Filled'  BY <1>1 DEF SentInv, Filled, NoCall, disk
  <2>11. UNCHANGED <<inode, fs_data, open_file_table>>  BY <1>1 DEF NoCall, disk
  <2>12. Ahead'
    <3> SUFFICES ASSUME NEW v \in Subscribers, NEW g \in FP!Handles, worker'[v].h = g
                 PROVE  NewTo(v, g)'
      BY DEF Ahead
    <3>1. CASE v = s
      <4>1. g = h  BY <1>2, <2>0, <3>1
      <4>2. open_file_table'[g].of_offset # 0  BY <2>0, <2>11, <4>1
      <4> QED  BY <4>2 DEF NewTo, After, Before
    <3>2. CASE v # s
      <4>1. worker[v].h = g /\ got'[v] = got[v]  BY <1>2, <2>3, <3>2 DEF Workers
      <4>2. NewTo(v, g)  BY <4>1 DEF SentInv, Ahead
      <4> QED  BY <2>11, <4>1, <4>2, NewStays
    <3> QED  BY <3>1, <3>2
  <2>13. OnTheWay'
    BY <1>2, <2>3, <2>5, <2>11 DEF SentInv, OnTheWay, Workers, After, Before
  <2>14. SentInOrder'
    <3> SUFFICES ASSUME NEW v \in Subscribers, NEW k \in 1 .. Len(got'[v])
                 PROVE  /\ got'[v][k] \in Batches
                        /\ \A j \in 1 .. k - 1 : got'[v][j].by = got'[v][k].by =>
                               Before(got'[v][j], got'[v][k])
      BY DEF SentInOrder, Before
    <3>1. CASE v # s  BY <2>3, <3>1 DEF SentInv, SentInOrder, Before
    <3>2. CASE v = s /\ k \in 1 .. n
      <4>1. \A j \in 1 .. k - 1 : j \in 1 .. n  BY <2>2, <3>2
      <4> HIDE DEF n
      <4> QED  BY <2>2, <2>4, <3>2, <4>1 DEF SentInv, SentInOrder, Before, n
    <3>3. CASE v = s /\ k = n + 1
      <4>1. m \in Batches /\ \A j \in 1 .. n : got[s][j].by = m.by => Before(got[s][j], m)
        BY <2>1 DEF After
      <4> HIDE DEF n
      <4>2. \A j \in 1 .. k - 1 : j \in 1 .. n  BY <2>2, <3>3
      <4> QED  BY <2>4, <3>3, <4>1, <4>2
    <3> HIDE DEF n
    <3> QED  BY <2>2, <2>4, <3>1, <3>2, <3>3
  <2> QED  BY <2>9, <2>10, <2>12, <2>13, <2>14 DEF SentInv
<1> QED  BY <1>3, <1>4 DEF Send

\* A write in a session changes nothing, or stores one message at the start of
\* a block that is no other file's; the handle is past it then.
LEMMA WriteStores ==
    ASSUME SentInv, NEW p \in Publishers, WriteBox(p)
    PROVE  \/ UNCHANGED <<inode, fs_data, open_file_table>>
           \/ \E h \in FP!Handles, b \in FP!BlockNumbers, i \in FP!Files,
                 m \in Batches :
                 /\ worker[p].h = h /\ worker[p].data = <<m>>
                 /\ b \in FP!Addresses
                 /\ fs_data' = [fs_data EXCEPT ![b] = m]
                 /\ \A g \in FP!Handles : g # h =>
                        open_file_table'[g] = open_file_table[g]
                 /\ \A j \in FP!Files : j # i => inode'[j] = inode[j]
                 /\ inode'[i].i_data_block = b /\ inode'[i].i_size # 0
<1> DEFINE h == worker[p].h
           data == worker[p].data
<1>1. /\ status = "running" /\ worker[p].at = "write" /\ p \in Workers
      /\ FP!tfs_write(h, data)
  BY SameWrite DEF WriteBox, At, Running, Workers
<1>2. h \in FP!CallHandles /\ data \in FP!Buffers
  BY <1>1, BoxTypes DEF SentInv, SInv, BatchRead
<1>3. PICK m \in Batches : data = <<m>>  BY <1>1 DEF SentInv, Numbered, Fresh
<1> HIDE DEF h, data
<1>4. FP!IInv  BY <1>1 DEF SentInv, SInv, FSInv
<1>5. CASE FP!WriteNothing(h, data)  BY <1>5 DEF FP!WriteNothing, FP!tables
<1>6. CASE FP!WriteWrapped(h, data)
  BY <1>6 DEF FP!WriteWrapped, FP!Abort, FP!tables
<1>7. CASE FP!WriteBytes(h, data)
  <2>1. PICK b \in FP!BlockNumbers, i \in FP!Files, n \in 1 .. Len(data) :
            FP!WriteEffect(h, data, b, i, n)
    BY <1>2, <1>4, <1>7, LimitsFit, FP!WriteBytesEffect
  <2>2. FP!WriteTables(h, b, i, n)  BY <1>2, <1>4, <2>1, LimitsFit, FP!WriteMoves
  <2>3. n = 1 /\ h \in FP!Handles /\ open_file_table[h].of_offset = 0
    <3>1. n = 1  BY <1>3
    <3>2. h \in FP!Handles /\ open_file_table[h].of_offset + n <= 1
      BY <2>1 DEF FP!WriteEffect
    <3>3. open_file_table[h].of_offset \in Nat  BY <1>4, <3>2 DEF FP!IInv, FP!TypeOK
    <3> QED  BY <3>1, <3>2, <3>3
  <2>4. b \in FP!Addresses /\ b \in Nat /\ FP!Addresses \subseteq Nat
    BY LimitsAssumption DEF FP!BlockNumbers, FP!Addresses
  <2>5. fs_data' = [fs_data EXCEPT ![b] = m]
    <3>1. fs_data' = [a \in FP!Addresses |->
              LET k == a - FP!BlockAddress(b, open_file_table[h].of_offset)
              IN  IF k \in 0 .. n - 1 THEN data[k + 1] ELSE fs_data[a]]
      BY <2>1 DEF FP!WriteEffect
    <3>2. FP!BlockAddress(b, open_file_table[h].of_offset) = b
      BY <2>3, <2>4 DEF FP!BlockAddress
    <3>3. fs_data' = [a \in FP!Addresses |->
              IF a - b \in 0 .. 0 THEN data[a - b + 1] ELSE fs_data[a]]
      BY <2>3, <3>1, <3>2
    <3>4. \A a \in FP!Addresses : a - b \in 0 .. 0 <=> a = b
      BY <2>4
    <3>5. data[b - b + 1] = m  BY <1>3, <2>4
    <3>6. fs_data \in [FP!Addresses -> Batches \cup {Junk, DirData}]
      BY <1>4 DEF FP!IInv, FP!TypeOK
    <3> QED  BY <3>3, <3>4, <3>5, <3>6
  <2>6. /\ open_file_table' = [open_file_table EXCEPT ![h].of_offset =
                                   open_file_table[h].of_offset + n]
        /\ inode' = [inode EXCEPT ![i] =
               [inode[i] EXCEPT !.i_data_block = b,
                    !.i_size = IF open_file_table[h].of_offset + n > @
                               THEN open_file_table[h].of_offset + n ELSE @]]
    BY <2>1 DEF FP!WriteEffect
  <2>7. /\ inode'[i].i_data_block = b /\ inode'[i].i_size = FP!SizeAfterWrite(h, i, n)
        /\ i \in FP!INums
    BY <2>2 DEF FP!WriteTables, FP!Files
  <2>8. inode'[i].i_size # 0
    <3>1. inode[i].i_size \in Nat  BY <1>4, <2>7 DEF FP!IInv, FP!TypeOK
    <3>2. FP!WriteEnd(h, n) = 1  BY <2>3 DEF FP!WriteEnd
    <3> QED  BY <2>7, <3>1, <3>2 DEF FP!SizeAfterWrite
  <2>9. /\ \A g \in FP!Handles : g # h => open_file_table'[g] = open_file_table[g]
        /\ \A j \in FP!Files : j # i => inode'[j] = inode[j]
    <3>1. /\ open_file_table \in [FP!Handles -> [of_inumber : FP!INums, of_offset : Nat]]
          /\ inode \in [FP!INums -> {inode[j] : j \in FP!INums}]
      BY <1>4 DEF FP!IInv, FP!TypeOK
    <3> QED  BY <2>6, <3>1 DEF FP!Files
  <2> QED  BY <1>3, <2>3, <2>4, <2>5, <2>7, <2>8, <2>9 DEF h, data
<1> QED  BY <1>1, <1>5, <1>6, <1>7 DEF FP!tfs_write

LEMMA WriteBoxSent ==
    ASSUME SentInv, SInv', NEW p \in Publishers, WriteBox(p) PROVE SentInv'
<1>1. /\ status = "running" /\ worker[p].at = "write" /\ p \in Workers
      /\ Goto(p, "close") /\ UNCHANGED pipes
  BY DEF WriteBox, At, Running, Workers
<1>2. /\ worker'[p].at = "close" /\ worker'[p].h = worker[p].h
      /\ worker'[p].data = worker[p].data
      /\ \A v \in Workers \ {p} : worker'[v] = worker[v]
  BY <1>1, GotoSets DEF SentInv, SInv
<1>3. \A s \in Subscribers : worker'[s] = worker[s]
  BY <1>2, SessionAssumption DEF Workers
<1>4. UNCHANGED <<pipe, sent, got>>  BY <1>1 DEF pipes
<1>5. CASE UNCHANGED <<inode, fs_data, open_file_table>>
  BY <1>2, <1>3, <1>4, <1>5, QuietSent DEF Workers
<1>6. CASE ~UNCHANGED <<inode, fs_data, open_file_table>>
  <2>1. PICK h \in FP!Handles, b \in FP!BlockNumbers, i \in FP!Files, m \in Batches :
            /\ worker[p].h = h /\ worker[p].data = <<m>> /\ b \in FP!Addresses
            /\ fs_data' = [fs_data EXCEPT ![b] = m]
            /\ \A g \in FP!Handles : g # h =>
                   open_file_table'[g] = open_file_table[g]
            /\ \A j \in FP!Files : j # i => inode'[j] = inode[j]
            /\ inode'[i].i_data_block = b /\ inode'[i].i_size # 0
    BY <1>6, WriteStores
  <2>2. FP!IInv  BY <1>1 DEF SentInv, SInv, FSInv
  <2>3. /\ fs_data'[b] = m
        /\ \A a \in FP!Addresses : fs_data'[a] = fs_data[a] \/ fs_data'[a] = m
    BY <2>1, <2>2 DEF FP!IInv, FP!TypeOK
  <2>4. m.by = p /\ Earlier(m) /\ Later(m)
    <3>1. PICK n \in Batches : /\ worker[p].data = <<n>> /\ n.by = p
                               /\ Earlier(n) /\ Later(n)
      BY <1>1 DEF SentInv, Numbered, Fresh
    <3>2. n = m  BY <2>1, <3>1
    <3> QED  BY <3>1, <3>2
  <2>5. \A x \in Batches : Out(x)' => Out(x) \/ x = m
    <3> SUFFICES ASSUME NEW x \in Batches, Out(x)' PROVE Out(x) \/ x = m
      OBVIOUS
    <3>1. \/ \E a \in FP!Addresses : fs_data'[a] = x
          \/ \E s \in Subscribers : In(x, got'[s]) \/ In(x, worker'[s].data)
      BY DEF Out, In
    <3> QED  BY <1>3, <1>4, <2>3, <3>1 DEF Out
  <2>6. \A x \in Batches : Earlier(x)' <=> Earlier(x)  BY <1>4 DEF Earlier
  <2>7. OutEarlier'  BY <2>4, <2>5, <2>6 DEF SentInv, Numbered, OutEarlier
  <2>8. PipeSent' /\ PipeSorted'
    BY <1>4 DEF SentInv, Numbered, PipeSent, PipeSorted
  <2>9. Fresh'
    <3> SUFFICES ASSUME NEW q \in Publishers, worker'[q].at \in {"file", "write"}
                 PROVE  \E x \in Batches : /\ worker'[q].data = <<x>> /\ x.by = q
                                           /\ Earlier(x)' /\ Later(x)'
      BY DEF Fresh
    <3>1. q # p /\ worker'[q] = worker[q]  BY <1>2 DEF Workers
    <3>2. PICK x \in Batches : /\ worker[q].data = <<x>> /\ x.by = q
                               /\ Earlier(x) /\ Later(x)
      BY <3>1 DEF SentInv, Numbered, Fresh
    <3>3. Later(x)'
      <4> SUFFICES ASSUME NEW y \in Batches, Out(y)', y.by = x.by PROVE Before(y, x)
        BY DEF Later, Before
      <4>1. y # m  BY <2>4, <3>1, <3>2
      <4> QED  BY <2>5, <3>2, <4>1 DEF Later
    <3> QED  BY <2>6, <3>1, <3>2, <3>3
  <2>10. \A j \in FP!Files : inode[j].i_size # 0 =>
             inode[j].i_data_block \in FP!Addresses
    <3> SUFFICES ASSUME NEW j \in FP!Files, inode[j].i_size # 0
                 PROVE  inode[j].i_data_block \in FP!Addresses
      OBVIOUS
    <3>1. j \in FP!INums /\ inode[j].i_size \in Nat
      BY <2>2 DEF FP!IInv, FP!TypeOK, FP!Files
    <3>2. inode[j].i_data_block \in FP!BlockNumbers
      BY <2>2, <3>1 DEF FP!IInv, FP!SizedHasBlock
    <3> QED  BY <3>2, LimitsAssumption DEF FP!BlockNumbers, FP!Addresses
  <2>11. Filled'
    <3> SUFFICES ASSUME NEW j \in FP!Files
                 PROVE  IF inode'[j].i_size = 0 THEN inode'[j].i_data_block = -1
                        ELSE fs_data'[inode'[j].i_data_block] \in Batches
      BY DEF Filled
    <3>1. CASE j = i  BY <2>1, <2>3, <3>1
    <3>2. CASE j # i
      <4>1. inode'[j] = inode[j]  BY <2>1, <3>2
      <4> QED  BY <2>1, <2>3, <2>10, <4>1 DEF SentInv, Filled
    <3> QED  BY <3>1, <3>2
  <2>12. \A s \in Subscribers, g \in FP!Handles : worker[s].h = g =>
             open_file_table'[g] = open_file_table[g]
    <3> SUFFICES ASSUME NEW s \in Subscribers, NEW g \in FP!Handles, worker[s].h = g
                 PROVE  open_file_table'[g] = open_file_table[g]
      OBVIOUS
    <3>1. s # p /\ s \in Workers /\ g # -1
      BY SessionAssumption, HandleNumbers DEF Workers
    <3>2. g # h  BY <1>1, <2>1, <3>1 DEF SentInv, SInv, HandlesHeld
    <3> QED  BY <2>1, <3>2
  <2>13. Ahead'
    <3> SUFFICES ASSUME NEW s \in Subscribers, NEW g \in FP!Handles, worker'[s].h = g
                 PROVE  NewTo(s, g)'
      BY DEF Ahead
    <3> DEFINE j == open_file_table[g].of_inumber
    <3>1. worker[s].h = g /\ NewTo(s, g) /\ s \in Workers
      BY <1>3 DEF SentInv, Ahead, Workers
    <3>2. open_file_table'[g] = open_file_table[g] /\ j \in FP!Files
      BY <1>1, <2>12, <3>1, HeldOn DEF SentInv
    <3>3. NewTo(s, g)' <=>
              (open_file_table'[g].of_offset = 0 =>
                   LET node == inode'[open_file_table'[g].of_inumber]
                   IN  \/ node.i_size = 0
                       \/ After(fs_data'[node.i_data_block], got'[s]))
      BY DEF NewTo, After, Before
    <3>4. After(m, got[s])
      <4> SUFFICES ASSUME NEW k \in 1 .. Len(got[s]), got[s][k].by = m.by
                   PROVE  Before(got[s][k], m)
        BY DEF After
      <4>1. got[s][k] \in Batches  BY DEF SentInv, SentInOrder
      <4>2. Out(got[s][k])  BY DEF Out, In
      <4> QED  BY <2>4, <4>1, <4>2 DEF Later
    <3>5. CASE j = i  BY <1>4, <2>1, <2>3, <3>2, <3>3, <3>4, <3>5
    <3>6. CASE j # i
      <4>1. inode'[j] = inode[j]  BY <2>1, <3>2, <3>6
      <4> HIDE DEF j
      <4>2. inode[j].i_size = 0 \/ inode[j].i_data_block \in FP!Addresses
        BY <2>10, <3>2
      <4> QED  BY <1>4, <2>3, <3>1, <3>2, <3>3, <3>4, <4>1, <4>2 DEF NewTo, j
    <3> QED  BY <3>5, <3>6
  <2>14. OnTheWay'
    BY <1>3, <1>4, <2>12 DEF SentInv, OnTheWay, After, Before
  <2>15. SentInOrder'  BY <1>4 DEF SentInv, SentInOrder
  <2> QED
    BY <2>7, <2>8, <2>9, <2>11, <2>13, <2>14, <2>15 DEF SentInv, Numbered
<1> QED  BY <1>5, <1>6

\* A read in a session changes nothing, or it takes the message at the start of
\* the file's block: where nothing is stored it panics.
LEMMA ReadTakes ==
    ASSUME SentInv, NEW s \in Subscribers, ReadBox(s)
    PROVE  \/ /\ UNCHANGED <<inode, fs_data, open_file_table>>
              /\ last'.val <= 0 /\ last'.data = <<>>
           \/ \E h \in FP!Handles, i \in FP!Files :
                 /\ UNCHANGED <<inode, fs_data>> /\ worker[s].h = h
                 /\ i = open_file_table[h].of_inumber /\ inode[i].i_size # 0
                 /\ inode[i].i_data_block \in FP!Addresses
                 /\ last'.data = <<fs_data[inode[i].i_data_block]>>
                 /\ open_file_table[h].of_offset = 0
                 /\ open_file_table'[h].of_offset # 0
                 /\ \A g \in FP!Handles : g # h =>
                        open_file_table'[g] = open_file_table[g]
<1> DEFINE h == worker[s].h
<1>1. status = "running" /\ s \in Workers /\ FP!tfs_read(h, 1)
  BY SameRead DEF ReadBox, At, Running, Workers
<1>2. FP!IInv  BY <1>1 DEF SentInv, SInv, FSInv
<1>3. CASE FP!ReadNothing(h, 1)
  BY <1>3 DEF FP!ReadNothing, FP!Return, FP!tables
<1>4. CASE \E how : FP!Abort(how, "read")
  BY <1>4 DEF FP!Abort, FP!Return, FP!tables
<1>5. CASE /\ FP!ReadBytes(h, 1)
           /\ ~\E how : FP!Abort(how, "read")
  <2> DEFINE i == open_file_table[h].of_inumber
             offset == open_file_table[h].of_offset
             b == inode[i].i_data_block
             n == FP!ReadCount(h, 1)
             start == FP!BlockAddress(b, offset)
  <2> DEFINE bytes == [k \in 1 .. n |-> IF start + k - 1 \in FP!Addresses
                                      THEN fs_data[start + k - 1] ELSE Junk]
  <2>0. /\ FP!IsOpen(h) /\ n > 0 /\ b \in FP!BlockNumbers /\ offset + n <= 2
        /\ FP!Return("read", n, bytes)
        /\ open_file_table' = [open_file_table EXCEPT ![h].of_offset = @ + n]
        /\ UNCHANGED <<inode, fs_data>>
    BY <1>5 DEF FP!ReadBytes
  <2>1. /\ FP!IsOpen(h) /\ n > 0 /\ b \in FP!BlockNumbers /\ offset + n <= 2
        /\ last'.data = bytes
        /\ open_file_table' = [open_file_table EXCEPT ![h].of_offset = offset + n]
        /\ UNCHANGED <<inode, fs_data>>
    <3>1. last'.data = bytes
      <4>1. FP!Return("read", n, bytes)  BY <2>0
      <4> HIDE DEF bytes, n
      <4> QED  BY <4>1 DEF FP!Return
    <3> QED  BY <2>0, <3>1
  <2>2. h \in FP!Handles /\ i \in FP!Files /\ i \in FP!INums /\ offset \in Nat
    BY <1>2, <2>1 DEF FP!IsOpen, FP!IInv, FP!HandlesOnFiles, FP!TypeOK
  <2>3. inode[i].i_size \in Nat /\ inode[i].i_size <= 1
    BY <1>2, <2>2 DEF FP!IInv, FP!TypeOK, FP!SizesBounded
  <2> HIDE DEF i
  <2>4. inode[i].i_size = 1
    <3>1. b # -1  BY <2>1, LimitsAssumption DEF FP!BlockNumbers
    <3>2. inode[i].i_size # 0  BY <2>2, <3>1 DEF SentInv, Filled
    <3> QED  BY <2>3, <3>2
  <2> HIDE DEF h, offset
  <2>5. n = IF (1 - offset) % SizeModulus > 1 THEN 1 ELSE (1 - offset) % SizeModulus
    BY <2>4 DEF FP!ReadCount, i, offset
  <2>6. SizeModulus \in Nat /\ SizeModulus > 1  BY LimitsAssumption
  <2>7. n = 1 /\ offset = 0
    <3> HIDE DEF n
    <3>1. (1 - offset) % SizeModulus \in Nat  BY <2>2, <2>6
    <3>2. offset = 1 => (1 - offset) % SizeModulus = 0  BY <2>6
    <3>3. n = 1 /\ offset # 1  BY <2>1, <2>5, <3>1, <3>2
    <3> QED  BY <2>1, <2>2, <3>3
  <2>8. b \in FP!Addresses /\ start = b /\ b \in Nat
    BY <2>1, <2>7, LimitsAssumption
    DEF FP!BlockNumbers, FP!Addresses, FP!BlockAddress
  <2>9. last'.data = <<fs_data[b]>>
    <3> HIDE DEF b, n, start
    <3>1. last'.data = [k \in 1 .. 1 |-> IF start + k - 1 \in FP!Addresses
                                        THEN fs_data[start + k - 1] ELSE Junk]
      BY <2>1, <2>7
    <3>2. [k \in 1 .. 1 |-> IF start + k - 1 \in FP!Addresses
                            THEN fs_data[start + k - 1] ELSE Junk]
              = [k \in 1 .. 1 |-> fs_data[b]]
      BY <2>8
    <3> QED  BY <3>1, <3>2
  <2>10. /\ open_file_table'[h].of_offset = 1
         /\ \A g \in FP!Handles : g # h => open_file_table'[g] = open_file_table[g]
    <3>1. open_file_table \in [FP!Handles -> [of_inumber : FP!INums, of_offset : Nat]]
      BY <1>2 DEF FP!IInv, FP!TypeOK
    <3>2. open_file_table' = [open_file_table EXCEPT ![h].of_offset = 1]
      <4> HIDE DEF n
      <4>1. offset + n = 1  BY <2>7
      <4> QED  BY <2>1, <4>1
    <3> QED  BY <2>2, <3>1, <3>2
  <2>11. /\ worker[s].h = h /\ i = open_file_table[h].of_inumber
         /\ open_file_table[h].of_offset = 0
    BY <2>7 DEF h, i, offset
  <2>12. inode[i].i_size # 0 /\ open_file_table'[h].of_offset # 0
    BY <2>4, <2>10
  <2> QED  BY <2>1, <2>2, <2>8, <2>9, <2>10, <2>11, <2>12
<1>6. FP!ReadBytes(h, 1) \/ FP!ReadNothing(h, 1)  BY <1>1 DEF FP!tfs_read
<1> QED  BY <1>3, <1>4, <1>5, <1>6

LEMMA ReadBoxGoes ==
    ASSUME SInv, NEW s \in Subscribers, ReadBox(s)
    PROVE  /\ worker'[s].h = worker[s].h /\ worker'[s].data = last'.data
           /\ worker'[s].at = IF last'.val > 0 THEN "send" ELSE "close"
           /\ \A v \in Workers \ {s} : worker'[v] = worker[v]
<1> DEFINE label == IF last'.val > 0 THEN "send" ELSE "close"
           old == worker[s]
           d == last'.data
           m1 == [old EXCEPT !.data = d]
           m == [m1 EXCEPT !.at = label]
<1>1. worker' = [worker EXCEPT ![s] = m] /\ s \in Workers
  BY DEF ReadBox, Workers
<1>2. old \in Places  BY <1>1 DEF SInv, SessionsTyped
<1> HIDE DEF old, d, label
<1>3. m1.h = old.h /\ m1.data = d /\ DOMAIN m1 = {"at", "h", "data"}
  BY <1>2 DEF Places
<1> HIDE DEF m1
<1>4. m.h = old.h /\ m.data = d /\ m.at = label  BY <1>3
<1> HIDE DEF m
<1> QED  BY <1>1, <1>4 DEF SInv, SessionsTyped, old, d, label

LEMMA ReadBoxSent ==
    ASSUME SentInv, SInv', NEW s \in Subscribers, ReadBox(s) PROVE SentInv'
<1>1. s \in Workers /\ s \notin Publishers /\ status = "running" /\ UNCHANGED pipes
  BY SessionAssumption DEF ReadBox, At, Running, Workers
<1>2. /\ worker'[s].h = worker[s].h /\ worker'[s].data = last'.data
      /\ worker'[s].at = IF last'.val > 0 THEN "send" ELSE "close"
      /\ \A v \in Workers \ {s} : worker'[v] = worker[v]
  BY ReadBoxGoes DEF SentInv
<1>3. UNCHANGED <<pipe, sent, got>>  BY <1>1 DEF pipes
<1>4. CASE /\ UNCHANGED <<inode, fs_data, open_file_table>>
           /\ last'.val <= 0 /\ last'.data = <<>>
  <2>1. worker'[s].at = "close"
    <3>1. last'.val \in Int  BY DEF SInv, FSInv, FP!TypeOK
    <3> QED  BY <1>2, <1>4, <3>1
  <2> QED  BY <1>1, <1>2, <1>3, <1>4, <2>1, QuietSent DEF Workers
<1>5. ASSUME NEW h \in FP!Handles, NEW i \in FP!Files,
             UNCHANGED <<inode, fs_data>>, worker[s].h = h,
             i = open_file_table[h].of_inumber, inode[i].i_size # 0,
             inode[i].i_data_block \in FP!Addresses,
             last'.data = <<fs_data[inode[i].i_data_block]>>,
             open_file_table[h].of_offset = 0, open_file_table'[h].of_offset # 0,
             \A g \in FP!Handles : g # h => open_file_table'[g] = open_file_table[g]
      PROVE  SentInv'
  <2>1. PICK m : m = fs_data[inode[i].i_data_block]  OBVIOUS
  <2>2. worker'[s].data = <<m>> /\ After(m, got[s])
    <3>1. NewTo(s, h)  BY <1>5 DEF SentInv, Ahead
    <3> QED  BY <1>2, <1>5, <2>1, <3>1 DEF NewTo
  <2>3. \A x \in Batches : Out(x)' => Out(x)
    <3> SUFFICES ASSUME NEW x \in Batches, Out(x)' PROVE Out(x)  OBVIOUS
    <3>1. \/ \E a \in FP!Addresses : fs_data'[a] = x
          \/ \E v \in Subscribers : In(x, got'[v]) \/ In(x, worker'[v].data)
      BY DEF Out, In
    <3>2. In(x, worker'[s].data) => x = m  BY <2>2 DEF In
    <3> QED  BY <1>2, <1>3, <1>5, <2>1, <3>1, <3>2 DEF Out, Workers
  <2>4. Numbered'
    <3>1. pipe' \in [Publishers -> Seq(Numbers)]  BY DEF SInv, SessionsTyped
    <3>2. \A p \in Publishers : worker'[p] = worker[p]
      BY <1>1, <1>2 DEF Workers
    <3>3. \A p \in Publishers : \E d : Without(pipe[p], d, pipe'[p])
      BY <1>3, EmptyWithout DEF SentInv
    <3> QED  BY <1>3, <2>3, <3>1, <3>2, <3>3, NumberedStays DEF SentInv
  <2>5. Filled'  BY <1>5 DEF SentInv, Filled
  <2>6. \A v \in Subscribers \ {s}, g \in FP!Handles : worker[v].h = g =>
            open_file_table'[g] = open_file_table[g]
    <3> SUFFICES ASSUME NEW v \in Subscribers \ {s}, NEW g \in FP!Handles,
                        worker[v].h = g
                 PROVE  open_file_table'[g] = open_file_table[g]
      OBVIOUS
    <3>1. v \in Workers /\ g # -1  BY HandleNumbers DEF Workers
    <3>2. g # h  BY <1>1, <1>5, <3>1 DEF SentInv, SInv, HandlesHeld
    <3> QED  BY <1>5, <3>2
  <2>7. Ahead'
    <3> SUFFICES ASSUME NEW v \in Subscribers, NEW g \in FP!Handles, worker'[v].h = g
                 PROVE  NewTo(v, g)'
      BY DEF Ahead
    <3>1. CASE v = s
      <4>1. g = h  BY <1>2, <1>5, <3>1
      <4> QED  BY <1>5, <4>1 DEF NewTo
    <3>2. CASE v # s
      <4>1. worker[v].h = g /\ open_file_table'[g] = open_file_table[g]
        BY <1>2, <2>6, <3>2 DEF Workers
      <4>2. NewTo(v, g)  BY <4>1 DEF SentInv, Ahead
      <4> QED  BY <1>3, <1>5, <4>1, <4>2, NewStays
    <3> QED  BY <3>1, <3>2
  <2>8. OnTheWay'
    <3> SUFFICES ASSUME NEW v \in Subscribers, worker'[v].at = "send"
                 PROVE  /\ \E x : worker'[v].data = <<x>> /\ After(x, got'[v])
                        /\ \E g \in FP!Handles :
                               worker'[v].h = g /\ open_file_table'[g].of_offset # 0
      BY DEF OnTheWay, After, Before
    <3>1. CASE v = s  BY <1>2, <1>3, <1>5, <2>2, <3>1
    <3>2. CASE v # s
      BY <1>2, <1>3, <2>6, <3>2 DEF SentInv, OnTheWay, Workers
    <3> QED  BY <3>1, <3>2
  <2>9. SentInOrder'  BY <1>3 DEF SentInv, SentInOrder
  <2> QED  BY <2>4, <2>5, <2>7, <2>8, <2>9 DEF SentInv
<1> QED  BY <1>4, <1>5, ReadTakes

LEMMA NextSent ==
    SentInv /\ [Next]_vars => SentInv'
<1> SUFFICES ASSUME SentInv, [Next]_vars PROVE SentInv'  OBVIOUS
<1>1. SInv'  BY NextSInv DEF SentInv
<1>2. CASE UNCHANGED vars
  BY <1>1, <1>2, QuietSent DEF vars, fs, disk, pipes
<1>3. ASSUME NEW w \in Workers, WorkerStep(w) PROVE SentInv'
  BY <1>1, <1>3, OpenPipeSent, OpenBoxSent, CloseBoxSent, ReadPipeSent, WriteBoxSent,
     ReadBoxSent, SendSent DEF WorkerStep
<1>4. CASE Next
  BY <1>1, <1>3, <1>4, QuitSent, PublishSent, LeakSent, UnlinkBoxSent DEF Next
<1> QED  BY <1>2, <1>4

\* What a subscriber is sent of one publisher is in the order it was published and
\* has nothing twice, in however many sessions it opens and reads its box, and
\* whatever main removes meanwhile.
THEOREM NothingOutOfOrder == Spec => []SentInOrder
<1>1. Init => SentInv
  <2> SUFFICES ASSUME Init PROVE SentInv  OBVIOUS
  <2>1. SInv  BY InitSInv
  <2>2. /\ fs_data = [d \in F!Addresses |-> IF d = 0 THEN DirData ELSE Junk]
        /\ pipe = [p \in Publishers |-> <<>>] /\ got = [s \in Subscribers |-> <<>>]
        /\ \A i \in F!INums \ {F!ROOT_DIR_INUM} : inode[i] = F!NewFile
        /\ worker = [w \in Workers |-> [at |-> "open", h |-> -1, data |-> <<>>]]
    BY DEF Init
  <2>3. /\ \A w \in Workers : /\ worker[w].at = "open" /\ worker[w].h = -1
                               /\ worker[w].data = <<>>
        /\ \A p \in Publishers : pipe[p] = <<>>
        /\ \A s \in Subscribers : got[s] = <<>>
    BY <2>2
  <2>4. \A m \in Batches : ~Out(m)
    <3>1. \A a \in FP!Addresses : fs_data[a] \notin Batches
      BY <2>2, LimitsAssumption DEF F!Addresses, FP!Addresses
    <3> QED  BY <2>3, <3>1 DEF Out, In, Workers
  <2>5. Numbered
    BY <2>3, <2>4 DEF Numbered, OutEarlier, PipeSent, PipeSorted, Fresh, Workers
  <2>6. Filled
    BY <2>2 DEF Filled, F!NewFile, FP!Files, FP!INums, F!INums, F!ROOT_DIR_INUM,
                FP!ROOT_DIR_INUM
  <2>7. Ahead /\ OnTheWay /\ SentInOrder
    BY <2>3, HandleNumbers DEF Ahead, OnTheWay, SentInOrder, Workers
  <2> QED  BY <2>1, <2>5, <2>6, <2>7 DEF SentInv
<1>2. SentInv => SentInOrder  BY DEF SentInv
<1> QED  BY <1>1, <1>2, NextSent, PTL DEF Spec

-----------------------------------------------------------------------------
(* Why a session fails to open its box *)

\* A worker's step leaves the other workers where they are.
LEMMA StepMovesOne ==
    ASSUME SInv, NEW v \in Workers, WorkerStep(v), NEW w \in Workers \ {v}
    PROVE  worker'[w] = worker[w]
<1>1. worker \in [Workers -> {worker[u] : u \in Workers}]  BY DEF SInv, SessionsTyped
<1> QED
  BY <1>1 DEF WorkerStep, OpenPipe, OpenBox, CloseBox, ReadPipe, WriteBox, ReadBox,
              Send, Goto

\* A box that is there is not opened only when every handle is in use.
LEMMA OpenFails ==
    ASSUME FP!TypeOK, NEW b \in Boxes, FP!tfs_open(b, {"APPEND"}), last'.val = -1,
           FP!tfs_lookup(b) # -1
    PROVE  \A h \in FP!Handles : free_open_file_entries[h] = "TAKEN"
<1> DEFINE free == FP!Free(free_open_file_entries)
<1>1. \A mode : "TRUNC" \notin mode => ~FP!Truncates(FP!tfs_lookup(b), mode)
  BY DEF FP!Truncates
<1>2. ~FP!OpenRefused(b, {"APPEND"})
  BY DEF FP!OpenRefused, FP!tfs_lookup
<1>3. FP!OpenExisting(b, {"APPEND"})
  BY <1>2 DEF FP!tfs_open, FP!CreateRefused, FP!Create
<1>4. \E offset : FP!add_to_open_file_table(FP!tfs_lookup(b), offset)
  BY <1>1, <1>3 DEF FP!OpenExisting
<1>5. free = {}
  <2> SUFFICES ASSUME free # {} PROVE FALSE  OBVIOUS
  <2>1. last'.val = FP!Min(free)
    BY <1>4 DEF FP!add_to_open_file_table, FP!Return
  <2>2. free_open_file_entries \in [0 .. MaxOpenFilesCount - 1 -> FP!AllocationState]
    BY DEF FP!TypeOK, FP!Handles
  <2>3. FP!Min(free) \in 0 .. MaxOpenFilesCount - 1
    BY <2>2, LimitsAssumption, LimitsFit, FP!FreeEntry
  <2> HIDE DEF free
  <2> QED  BY <2>1, <2>3, LimitsAssumption
<1> QED  BY <1>5 DEF FP!Free, FP!TypeOK, FP!AllocationState

\* When every handle is in use, main has all but those of the other sessions.
LEMMA HandlesShared ==
    ASSUME SInv, NEW w \in Workers, worker[w].h = -1,
           \A h \in FP!Handles : free_open_file_entries[h] = "TAKEN"
    PROVE  Cardinality(leaked) + Cardinality(Workers) > MaxOpenFilesCount
<1> DEFINE others == Workers \ {w}
           held == {worker[v].h : v \in others}
           f == [v \in others |-> worker[v].h]
<1>1. /\ IsFiniteSet(Workers) /\ Cardinality(Workers) \in Nat
      /\ IsFiniteSet(others) /\ Cardinality(others) = Cardinality(Workers) - 1
  <2>1. IsFiniteSet(Workers) /\ Cardinality(Workers) \in Nat
    BY SessionAssumption, FS_CardinalityType
  <2>2. /\ IsFiniteSet(Workers \ {w})
        /\ Cardinality(Workers \ {w}) =
               IF w \in Workers THEN Cardinality(Workers) - 1 ELSE Cardinality(Workers)
    BY <2>1, FS_RemoveElement
  <2> QED  BY <2>1, <2>2
<1>2. IsFiniteSet(FP!Handles) /\ Cardinality(FP!Handles) = MaxOpenFilesCount
  <2>1. 0 \in Int /\ MaxOpenFilesCount - 1 \in Int /\ MaxOpenFilesCount \in Nat
    BY LimitsAssumption
  <2>2. /\ IsFiniteSet(0 .. MaxOpenFilesCount - 1)
        /\ Cardinality(0 .. MaxOpenFilesCount - 1) =
               IF 0 > MaxOpenFilesCount - 1 THEN 0 ELSE MaxOpenFilesCount - 1 - 0 + 1
    BY <2>1, FS_Interval
  <2> QED  BY <2>1, <2>2 DEF FP!Handles
<1>3. IsFiniteSet(held) /\ Cardinality(held) <= Cardinality(others)
  <2>1. f \in [others -> held] /\ \A h \in held : \E v \in others : f[v] = h
    OBVIOUS
  <2> HIDE DEF f, held
  <2>2. f \in Surjection(others, held)  BY <2>1, Fun_IsSurj
  <2> QED  BY <1>1, <2>2, FS_Surjection
<1>4. IsFiniteSet(leaked)
  BY <1>2, FS_Subset DEF SInv, SessionsTyped
<1>5. FP!Handles \in SUBSET (leaked \cup held)
  <2> SUFFICES ASSUME NEW h \in FP!Handles, h \notin leaked PROVE h \in held
    OBVIOUS
  <2>1. PICK v \in Workers : worker[v].h = h  BY DEF SInv, HandlesHeld
  <2>2. v # w  BY <2>1, HandleNumbers
  <2> QED  BY <2>1, <2>2
<1> HIDE DEF others, held
<1>6. /\ IsFiniteSet(leaked \cup held)
      /\ Cardinality(leaked \cup held)
             = Cardinality(leaked) + Cardinality(held) - Cardinality(leaked \cap held)
  BY <1>3, <1>4, FS_Union
<1>7. /\ Cardinality(leaked) \in Nat /\ Cardinality(held) \in Nat
      /\ Cardinality(leaked \cap held) \in Nat
  <2>1. IsFiniteSet(leaked \cap held)
    <3>1. leaked \cap held \in SUBSET leaked  OBVIOUS
    <3> QED  BY <1>4, <3>1, FS_Subset
  <2> QED  BY <1>3, <1>4, <2>1, FS_CardinalityType
<1>8. MaxOpenFilesCount <= Cardinality(leaked \cup held)
  BY <1>2, <1>5, <1>6, FS_Subset
<1> QED  BY <1>1, <1>3, <1>6, <1>7, <1>8, LimitsAssumption

\* A session fails to open its box only when the box is not there, or main has left
\* fewer handles than there are sessions.
THEOREM OpensFailForCause == Spec => OpenFailsHasCause
<1>1. ASSUME SInv, [Next]_vars, NEW w \in Workers,
             worker[w].at = "file", worker'[w].at # "file", worker'[w].h = -1
      PROVE  \/ F!tfs_lookup(BoxOf[w]) = -1
             \/ Cardinality(leaked) + Cardinality(Workers) > MaxOpenFilesCount
  <2>1. OpenBox(w)
    <3>1. CASE UNCHANGED worker  BY <1>1, <3>1
    <3>2. ASSUME NEW v \in Workers, WorkerStep(v), v # w PROVE FALSE
      <4>1. worker'[w] = worker[w]  BY <1>1, <3>2, StepMovesOne
      <4> QED  BY <1>1, <4>1
    <3>3. ASSUME WorkerStep(w) PROVE OpenBox(w)
      BY <1>1, <3>3
      DEF WorkerStep, OpenPipe, CloseBox, ReadPipe, WriteBox, ReadBox, Send, At
    <3>4. CASE UNCHANGED vars  BY <3>1, <3>4 DEF vars
    <3>5. CASE \/ \E v \in Workers : Quit(v)
               \/ \E p \in Publishers : Publish(p)
               \/ \E b \in Boxes : create_box(b) \/ remove_box(b)
               \/ UnlinkBox
      BY <3>1, <3>5 DEF Quit, Publish, create_box, remove_box, UnlinkBox
    <3> QED  BY <1>1, <3>2, <3>3, <3>4, <3>5 DEF Next
  <2>2. /\ worker[w].h = -1 /\ BoxOf[w] \in Boxes /\ FP!TypeOK
        /\ FP!tfs_open(BoxOf[w], {"APPEND"})
    BY <1>1, <2>1, SessionAssumption, SameOpen
    DEF SInv, FSInv, HandlesHeld, Holding, OpenBox, SessionMode
  <2>3. last'.val = -1  BY <1>1, <2>1, OpenBoxGoes
  <2>4. F!tfs_lookup(BoxOf[w]) = FP!tfs_lookup(BoxOf[w])  BY <2>2, SameTables
  <2>5. CASE FP!tfs_lookup(BoxOf[w]) # -1
    BY <1>1, <2>2, <2>3, <2>5, OpenFails, HandlesShared
  <2> QED  BY <2>4, <2>5
<1>2. SInv /\ [Next]_vars =>
          [\A w \in Workers :
              (worker[w].at = "file" /\ worker'[w].at # "file" /\ worker'[w].h = -1) =>
                  \/ F!tfs_lookup(BoxOf[w]) = -1
                  \/ Cardinality(leaked) + Cardinality(Workers) > MaxOpenFilesCount]_vars
  BY <1>1
<1> QED  BY <1>2, Invariant, PTL DEF Spec, OpenFailsHasCause

=============================================================================
