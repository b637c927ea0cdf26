---------------------------- MODULE Broker_proofs ----------------------------
(***************************************************************************)
(* TLAPS proofs about Broker, for any number of workers, boxes and         *)
(* requests: sessions never falls below the number of entries in use,      *)
(* every variable keeps its type, two workers publish to one box only for  *)
(* one of the causes of TwoPublishersHaveCause, and of all threads only    *)
(* main can come to sleep inside the queue.                                *)
(***************************************************************************)
EXTENDS Broker, TableLemmas, SequenceTheorems

-----------------------------------------------------------------------------
(* The index of the next session.  The queue and the workers do not touch   *)
(* the tables, so only main's steps matter: what remove_box subtracts is    *)
(* what it clears, because an entry that carries a box's name is in use.    *)

Entries == [boxname : Boxes \cup {NoBox}, i : {-1, 0, 1}]

\* Entries in use are those that carry a name.
NamedIsLive ==
    \A a \in Indices : userarray[a].i # -1 <=> userarray[a].boxname # NoBox

\* The inductive invariant.
CoverInv ==
    /\ userarray \in [Indices -> Entries] /\ NamedIsLive
    /\ sessions \in Int
    /\ main \in {"read", "serve", "enqueue", "answer", "ended"}
    /\ main = "serve" => buffer.box \in Boxes
    /\ SessionsCoverEntries

LEMMA IndicesFinite == IsFiniteSet(Indices) /\ Indices \subseteq Int
<1>1. MaxRequests - 1 \in Int
  BY BrokerAssumption
<1> QED
  BY <1>1, FS_Interval DEF Indices

\* Entries in use are finitely many.
LEMMA LiveFinite == IsFiniteSet(Live) /\ Cardinality(Live) \in Nat
<1>1. Live \in SUBSET Indices
  BY DEF Live
<1> QED
  BY <1>1, IndicesFinite, FS_Subset, FS_CardinalityType

LEMMA InitCovers == Init => CoverInv
<1> SUFFICES ASSUME Init PROVE CoverInv
  OBVIOUS
<1>1. userarray = [a \in Indices |-> NoEntry] /\ sessions = 0 /\ main = "read"
  BY DEF Init
<1>2. userarray \in [Indices -> Entries] /\ NamedIsLive
  BY <1>1 DEF NoEntry, Entries, NamedIsLive
<1>3. Live = {}
  BY <1>1 DEF Live, NoEntry
<1>4. SessionsCoverEntries
  BY <1>1, <1>3, FS_EmptySet DEF SessionsCoverEntries
<1> QED
  BY <1>1, <1>2, <1>4 DEF CoverInv

\* A step that leaves the entries and sessions alone, and neither begins nor ends
\* a registration, keeps the invariant.
LEMMA TablesKept ==
    ASSUME CoverInv, userarray' = userarray, sessions' = sessions,
           main' \in {"read", "serve", "enqueue", "answer", "ended"},
           main' = "enqueue" <=> main = "enqueue",
           main' = "serve" => buffer'.box \in Boxes
    PROVE  CoverInv'
<1>1. Live' = Live
  BY DEF Live
<1>2. SessionsCoverEntries'
  BY <1>1 DEF CoverInv, SessionsCoverEntries
<1> QED
  BY <1>2 DEF CoverInv, NamedIsLive

LEMMA ReceiveCovers == ASSUME CoverInv, Receive PROVE CoverInv'
<1>1. CASE main' = "ended" /\ UNCHANGED tables
  BY <1>1, TablesKept DEF Receive, tables
<1>2. CASE /\ \E r \in Requests : r.id = buffer.id + 1 /\ buffer' = r
           /\ main' = "serve" /\ UNCHANGED tables
  <2>1. buffer'.box \in Boxes
    BY <1>2 DEF Requests
  <2> QED
    BY <1>2, <2>1, TablesKept DEF Receive, tables
<1> QED
  BY <1>1, <1>2 DEF Receive, ProcessEnds

\* At most the entry that sessions points to comes into use.
LEMMA RegisterCovers == ASSUME CoverInv, Register PROVE CoverInv'
<1>1. CASE main' \in {"read", "ended"} /\ UNCHANGED tables
  BY <1>1, TablesKept DEF Register, tables
<1>2. CASE /\ userarray' = [userarray EXCEPT ![sessions] =
                  [boxname |-> buffer.box,
                   i |-> IF buffer.code = "publisher" THEN 0 ELSE 1]]
           /\ main' = "enqueue" /\ sessions' = sessions
  <2> DEFINE entry == [boxname |-> buffer.box,
                       i |-> IF buffer.code = "publisher" THEN 0 ELSE 1]
  <2>1. entry \in Entries /\ entry.i # -1 /\ entry.boxname # NoBox
    BY BrokerAssumption DEF Entries, CoverInv, Register
  <2>2. userarray' \in [Indices -> Entries] /\ NamedIsLive'
    BY <1>2, <2>1 DEF CoverInv, NamedIsLive
  <2>3. Live' \in SUBSET (Live \cup {sessions})
    BY <1>2 DEF Live, CoverInv
  <2>4. IsFiniteSet(Live \cup {sessions})
        /\ Cardinality(Live \cup {sessions}) <= Cardinality(Live) + 1
    BY LiveFinite, FS_AddElement
  <2>5. Cardinality(Live \cup {sessions}) \in Nat /\ IsFiniteSet(Live')
    BY <2>3, <2>4, FS_CardinalityType, FS_Subset
  <2>6. Cardinality(Live') <= Cardinality(Live \cup {sessions})
        /\ Cardinality(Live') \in Nat
    BY <2>3, <2>4, <2>5, FS_CardinalityType, FS_Subset
  <2>7. Cardinality(Live) <= sessions
    BY DEF CoverInv, SessionsCoverEntries, Register
  <2>8. SessionsCoverEntries'
    BY <1>2, <2>4, <2>5, <2>6, <2>7, LiveFinite DEF SessionsCoverEntries, CoverInv
  <2> QED
    BY <1>2, <2>2, <2>8 DEF CoverInv
<1> QED
  BY <1>1, <1>2 DEF Register, ProcessEnds, tables

LEMMA RegisteredCovers == ASSUME CoverInv, Registered PROVE CoverInv'
<1>1. userarray' = userarray /\ sessions' = sessions + 1 /\ main' = "read"
  BY DEF Registered, NextEntry
<1>2. Live' = Live
  BY <1>1 DEF Live
<1>3. SessionsCoverEntries'
  BY <1>1, <1>2, LiveFinite DEF SessionsCoverEntries, CoverInv, Registered
<1> QED
  BY <1>1, <1>3 DEF CoverInv, NamedIsLive

\* remove_box subtracts as many as it takes out of use.
LEMMA RemoveCovers == ASSUME CoverInv, remove_box PROVE CoverInv'
<1>1. CASE userarray' = userarray /\ sessions' = sessions
  BY <1>1, TablesKept DEF remove_box
<1>2. CASE /\ userarray' = [a \in Indices |-> IF a \in EntriesOf(buffer.box)
                                              THEN NoEntry ELSE userarray[a]]
           /\ sessions' = sessions - Cardinality(EntriesOf(buffer.box))
  <2> DEFINE gone == EntriesOf(buffer.box)
  <2>1. gone \in SUBSET Live
    BY BrokerAssumption DEF EntriesOf, Live, CoverInv, NamedIsLive, remove_box
  <2>2. Live' = Live \ gone
    BY <1>2 DEF Live, NoEntry
  <2>3. IsFiniteSet(gone) /\ Cardinality(gone) \in Nat
    BY <2>1, LiveFinite, FS_Subset, FS_CardinalityType
  <2>4. Cardinality(Live \ gone) = Cardinality(Live) - Cardinality(Live \cap gone)
    BY LiveFinite, FS_Difference
  <2>5. Live \cap gone = gone
    BY <2>1
  <2>6. userarray' \in [Indices -> Entries] /\ NamedIsLive'
    BY <1>2 DEF CoverInv, NamedIsLive, NoEntry, Entries
  <2>7. SessionsCoverEntries'
    <3>1. main = "serve" /\ main' = "answer"  BY DEF remove_box
    <3>2. Cardinality(Live) <= sessions /\ sessions \in Int
      BY <3>1 DEF SessionsCoverEntries, CoverInv
    <3>3. Cardinality(Live') = Cardinality(Live) - Cardinality(gone)
      BY <2>2, <2>4, <2>5
    <3>4. SessionsCoverEntries' <=> Cardinality(Live') <= sessions' + 0
      BY <3>1 DEF SessionsCoverEntries
    <3>5. Cardinality(Live) \in Nat  BY LiveFinite
    <3> QED  BY <1>2, <2>3, <3>2, <3>3, <3>4, <3>5
  <2>8. sessions' \in Int
    BY <1>2, <2>3 DEF CoverInv
  <2> QED
    BY <2>6, <2>7, <2>8 DEF CoverInv, remove_box
<1> QED
  BY <1>1, <1>2 DEF remove_box

LEMMA NextCovers == ASSUME CoverInv, [Next]_vars PROVE CoverInv'
<1>1. CASE UNCHANGED vars
  BY <1>1, TablesKept DEF vars, tables, CoverInv
<1>2. CASE Receive
  BY <1>2, ReceiveCovers
<1>3. CASE Serve
  <2>1. CASE Register
    BY <2>1, RegisterCovers
  <2>2. CASE Registered
    BY <2>2, RegisteredCovers
  <2>3. CASE create_box
    BY <2>3, TablesKept DEF create_box
  <2>4. CASE remove_box
    BY <2>4, RemoveCovers
  <2>5. CASE list_boxes \/ Unknown
    BY <2>5, TablesKept DEF list_boxes, Unknown, tables
  <2> QED
    BY <1>3, <2>1, <2>2, <2>3, <2>4, <2>5 DEF Serve
<1>4. CASE Enqueue
  BY <1>4, TablesKept DEF Enqueue, tables
<1>5. CASE Answer
  BY <1>5, TablesKept DEF Answer, SendAnswer, SendList, Answered, ProcessEnds, tables
<1>6. CASE \E w \in Workers : WorkerStep(w)
  <2> PICK w \in Workers : WorkerStep(w)
    BY <1>6
  <2>1. main' = main /\ buffer' = buffer /\ UNCHANGED tables
    BY DEF WorkerStep, CallDequeue, Dequeue, CopyCode, CopyBox
  <2> QED
    BY <2>1, TablesKept DEF tables, CoverInv
<1> QED
  BY <1>1, <1>2, <1>3, <1>4, <1>5, <1>6 DEF Next

\* The index at which the next session is entered never falls below the number
\* of entries in use (sessions and userarray, in register_publisher,
\* register_subscriber and remove_box), for any number of workers and boxes.
THEOREM EntriesCovered == Spec => []SessionsCoverEntries
<1>1. CoverInv => SessionsCoverEntries
  BY DEF CoverInv
<1> QED
  BY InitCovers, NextCovers, <1>1, PTL DEF Spec

\* Until a box is removed, the entries in use are below the index of the next one.
NextIsFree ==
    removed \/
      \A a \in Indices : userarray[a].i # -1 =>
          a < sessions + (IF main = "enqueue" THEN 1 ELSE 0)

LEMMA SameTablesNextFree ==
    ASSUME NextIsFree, UNCHANGED <<userarray, sessions, removed>>,
           main' = "enqueue" <=> main = "enqueue"
    PROVE  NextIsFree'
  BY DEF NextIsFree

LEMMA NextNextFree ==
    ASSUME CoverInv, NextIsFree, [Next]_vars
    PROVE  /\ NextIsFree'
           /\ \A a \in Indices : userarray'[a] # userarray[a] =>
                  userarray[a].i = -1 \/ removed'
<1> DEFINE Kept == \A a \in Indices : userarray'[a] # userarray[a] =>
                       userarray[a].i = -1 \/ removed'
<1>1. CASE /\ UNCHANGED <<userarray, sessions, removed>>
           /\ main' = "enqueue" <=> main = "enqueue"
  BY <1>1, SameTablesNextFree
<1>2. CASE Register
  <2>1. CASE main' \in {"read", "ended"} /\ UNCHANGED tables
    BY <2>1, <1>1, <1>2 DEF Register, tables
  <2>2. CASE /\ userarray' = [userarray EXCEPT ![sessions] =
                    [boxname |-> buffer.box,
                     i |-> IF buffer.code = "publisher" THEN 0 ELSE 1]]
             /\ main' = "enqueue" /\ UNCHANGED <<sessions, removed>>
    <3>1. main = "serve" /\ sessions \in Int /\ userarray \in [Indices -> Entries]
      BY <1>2 DEF Register, CoverInv
    <3>2. \A a \in Indices : a # sessions => userarray'[a] = userarray[a]
      BY <2>2, <3>1
    <3>3. CASE removed  BY <2>2, <3>3 DEF NextIsFree
    <3>4. CASE ~removed
      <4>1. \A a \in Indices : userarray[a].i # -1 => a < sessions
        BY <3>1, <3>4, IndicesFinite DEF NextIsFree
      <4>2. Kept  BY <3>1, <3>2, <4>1
      <4>3. \A a \in Indices : userarray'[a].i # -1 => a < sessions' + 1
        BY <2>2, <3>1, <3>2, <4>1, IndicesFinite
      <4> QED  BY <2>2, <4>2, <4>3 DEF NextIsFree
    <3> QED  BY <3>3, <3>4
  <2> QED  BY <1>2, <2>1, <2>2 DEF Register, ProcessEnds
<1>3. CASE Registered
  <2>1. /\ main = "enqueue" /\ main' = "read" /\ sessions' = sessions + 1
        /\ UNCHANGED <<userarray, removed>>
    BY <1>3 DEF Registered, NextEntry
  <2>2. sessions \in Int  BY DEF CoverInv
  <2> QED  BY <2>1, <2>2 DEF NextIsFree
<1>4. CASE remove_box
  <2>1. CASE UNCHANGED <<userarray, sessions, removed>>
    BY <1>1, <1>4, <2>1 DEF remove_box
  <2>2. CASE removed'  BY <2>2 DEF NextIsFree
  <2> QED  BY <1>4, <2>1, <2>2 DEF remove_box
<1>5. CASE \/ Receive \/ create_box \/ list_boxes \/ Unknown \/ Enqueue \/ Answer
           \/ (\E w \in Workers : WorkerStep(w)) \/ UNCHANGED vars
  <2>1. UNCHANGED <<userarray, sessions, removed>>
    BY <1>5 DEF Receive, create_box, list_boxes, Unknown, Enqueue, Answer, SendAnswer,
       SendList, Answered, ProcessEnds, WorkerStep, CallDequeue, Dequeue, CopyCode,
       CopyBox, tables, vars
  <2>2. main' = "enqueue" <=> main = "enqueue"
    BY <1>5 DEF Receive, create_box, list_boxes, Unknown, Enqueue, Answer, SendAnswer,
       SendList, Answered, ProcessEnds, WorkerStep, CallDequeue, Dequeue, CopyCode,
       CopyBox, vars
  <2> QED  BY <1>1, <2>1, <2>2
<1> QED  BY <1>2, <1>3, <1>4, <1>5 DEF Next, Serve

\* No registration ever overwrites the entry of another one before a box is
\* removed (register_publisher and register_subscriber write to the entry that
\* sessions points to): removal is the only cause, whatever clients send.
THEOREM OverwritesHaveCause == Spec => OverwriteHasCause
<1> DEFINE Kept == \A a \in Indices : userarray'[a] # userarray[a] =>
                       userarray[a].i = -1 \/ removed'
           Inv == CoverInv /\ NextIsFree
<1>1. Init => Inv
  <2>1. Init => NextIsFree  BY DEF Init, NextIsFree, NoEntry
  <2> QED  BY <2>1, InitCovers
<1>2. Inv /\ [Next]_vars => Inv' /\ [Kept]_vars
  BY NextCovers, NextNextFree
<1> QED  BY <1>1, <1>2, PTL DEF Spec, OverwriteHasCause

-----------------------------------------------------------------------------
(* The queue inside the broker *)

\* The facts that PcQueue_proofs states, about the broker's queue.
QP == INSTANCE PcQueue_proofs WITH
         Producers <- {Main}, Consumers <- Workers, Capacity <- max_sessions,
         MaxCalls <- MaxRequests, reserving <- FALSE

\* There is a worker, so the queue has a slot.
LEMMA QueueFits == QP!QueueAssumption
<1>1. max_sessions \in Nat \ {0}
  BY BrokerAssumption, FS_CardinalityType, FS_EmptySet DEF max_sessions
<1> QED  BY <1>1, BrokerAssumption DEF QP!QueueAssumption

\* Both instances name the same formulas.
LEMMA SameQueue ==
    /\ Q!IInv <=> QP!IInv
    /\ Q!TypeOK <=> QP!TypeOK
    /\ Q!Init => QP!Init
    /\ \A t \in Workers \cup {Main} :
          /\ (Q!Call(t) => QP!Call(t))
          /\ (Q!Step(t) => QP!Step(t))
          /\ (Q!SpuriousWake(t) => QP!SpuriousWake(t))
    /\ Q!IsFull <=> QP!IsFull
<1>1. Q!TypeOK <=> QP!TypeOK
  BY DEF Q!TypeOK, QP!TypeOK, Q!Threads, QP!Threads, Q!Slots, QP!Slots, Q!Elements,
         QP!Elements, Q!Labels, QP!Labels
<1>2. Q!IInv <=> QP!IInv
  BY <1>1 DEF Q!IInv, QP!IInv, Q!LockDiscipline, QP!LockDiscipline, Q!RingArithmetic,
         QP!RingArithmetic, Q!CallsStarted, QP!CallsStarted, Q!Threads, QP!Threads
<1>3. Q!Init => QP!Init
  BY DEF Q!Init, QP!Init, Q!InitialTail, QP!InitialTail, Q!Threads, QP!Threads,
         Q!Slots, QP!Slots
<1> USE DEF Q!Goto, QP!Goto, Q!queue, QP!queue, Q!locks, QP!locks
<1>4. ASSUME NEW t \in Workers \cup {Main} PROVE Q!Call(t) => QP!Call(t)
  BY DEF Q!Call, QP!Call, Q!MayCall, QP!MayCall
<1>5. ASSUME NEW t \in Workers \cup {Main}
      PROVE  Q!SpuriousWake(t) => QP!SpuriousWake(t)
  BY DEF Q!SpuriousWake, QP!SpuriousWake
<1>6. Q!IsFull <=> QP!IsFull
  BY DEF Q!IsFull, QP!IsFull
<1>7. ASSUME NEW t \in Workers \cup {Main} PROVE Q!LockSize(t) => QP!LockSize(t)
  BY DEF Q!LockSize, QP!LockSize, Q!SizeLockFree, QP!SizeLockFree
<1>8. ASSUME NEW t \in Workers \cup {Main} PROVE Q!pcq_enqueue(t) => QP!pcq_enqueue(t)
  <2>1. Q!EnqLockTail(t) => QP!EnqLockTail(t)  BY DEF Q!EnqLockTail, QP!EnqLockTail
  <2>2. Q!EnqLockPusher(t) => QP!EnqLockPusher(t)
    BY DEF Q!EnqLockPusher, QP!EnqLockPusher, Q!IsFull, QP!IsFull
  <2>3. Q!EnqTest(t) => QP!EnqTest(t)  BY DEF Q!EnqTest, QP!EnqTest
  <2>4. Q!EnqNotFull(t) => QP!EnqNotFull(t)
    BY DEF Q!EnqNotFull, QP!EnqNotFull, Q!SignalAndGoto, QP!SignalAndGoto, Q!Asleep,
           QP!Asleep, Q!IsFull, QP!IsFull, Q!IsEmpty, QP!IsEmpty
  <2>5. Q!EnqStore(t) => QP!EnqStore(t)
    BY DEF Q!EnqStore, QP!EnqStore, Q!Successor, QP!Successor
  <2> QED  BY <2>1, <2>2, <2>3, <2>4, <2>5 DEF Q!pcq_enqueue, QP!pcq_enqueue
<1>9. ASSUME NEW t \in Workers \cup {Main} PROVE Q!pcq_dequeue(t) => QP!pcq_dequeue(t)
  <2>1. Q!DeqLockHead(t) => QP!DeqLockHead(t)  BY DEF Q!DeqLockHead, QP!DeqLockHead
  <2>2. Q!DeqLockPopper(t) => QP!DeqLockPopper(t)
    BY DEF Q!DeqLockPopper, QP!DeqLockPopper, Q!IsEmpty, QP!IsEmpty
  <2>3. Q!DeqTest(t) => QP!DeqTest(t)
    BY DEF Q!DeqTest, QP!DeqTest, Q!DequeueMustSleep, QP!DequeueMustSleep
  <2>4. Q!DeqNotEmpty(t) => QP!DeqNotEmpty(t)
    BY DEF Q!DeqNotEmpty, QP!DeqNotEmpty, Q!SignalAndGoto, QP!SignalAndGoto, Q!Asleep,
           QP!Asleep, Q!IsFull, QP!IsFull, Q!IsEmpty, QP!IsEmpty
  <2>5. Q!DeqTake(t) => QP!DeqTake(t)
    BY DEF Q!DeqTake, QP!DeqTake, Q!Successor, QP!Successor, Q!UnlockHead, QP!UnlockHead
  <2> QED  BY <2>1, <2>2, <2>3, <2>4, <2>5 DEF Q!pcq_dequeue, QP!pcq_dequeue
<1>10. ASSUME NEW t \in Workers \cup {Main} PROVE Q!Step(t) => QP!Step(t)
  BY <1>7, <1>8, <1>9 DEF Q!Step, QP!Step
<1> QED BY <1>1, <1>2, <1>3, <1>4, <1>5, <1>6, <1>10

\* What each step of the broker does to the queue.
LEMMA QueueUse ==
    ASSUME Next
    PROVE  \/ UNCHANGED queue
           \/ Register /\ QP!Call(Main)
           \/ Enqueue /\ (QP!Step(Main) \/ QP!SpuriousWake(Main))
           \/ \E w \in Workers :
                  \/ CallDequeue(w) /\ QP!Call(w)
                  \/ Dequeue(w) /\ (QP!Step(w) \/ QP!SpuriousWake(w))
<1>1. CASE Receive \/ Answer
  BY <1>1 DEF Receive, Answer, SendAnswer, SendList, Answered, ProcessEnds
<1>2. CASE Serve
  BY <1>2, SameQueue DEF Serve, Register, Registered, create_box, remove_box,
                         list_boxes, Unknown, ProcessEnds
<1>3. CASE Enqueue  BY <1>3, SameQueue DEF Enqueue
<1>4. ASSUME NEW w \in Workers, WorkerStep(w)
      PROVE  \/ UNCHANGED queue
             \/ CallDequeue(w) /\ QP!Call(w)
             \/ Dequeue(w) /\ (QP!Step(w) \/ QP!SpuriousWake(w))
  <2>1. CASE CallDequeue(w)  BY <2>1, SameQueue DEF CallDequeue
  <2>2. CASE Dequeue(w)  BY <2>2, SameQueue DEF Dequeue
  <2>3. CASE CopyCode(w) \/ CopyBox(w)  BY <2>3 DEF CopyCode, CopyBox
  <2> QED  BY <1>4, <2>1, <2>2, <2>3 DEF WorkerStep
<1> QED  BY <1>1, <1>2, <1>3, <1>4 DEF Next

LEMMA QueueInv == ASSUME QP!IInv, [Next]_vars PROVE QP!IInv'
<1>1. CASE UNCHANGED queue
  <2>1. UNCHANGED QP!vars
    BY <1>1 DEF queue, QP!vars, QP!queue, QP!locks
  <2> QED  BY <2>1, QueueFits, QP!NextInv
<1>2. ASSUME NEW t \in Workers \cup {Main},
             QP!Call(t) \/ QP!Step(t) \/ QP!SpuriousWake(t)
      PROVE  QP!IInv'
  <2>1. QP!Next  BY <1>2 DEF QP!Next, QP!Threads
  <2> QED  BY <2>1, QueueFits, QP!NextInv
<1> QED  BY <1>1, <1>2, QueueUse DEF vars

\* Main inside pcq_enqueue: one more step of the call, or its end.
LEMMA MainMoves ==
    ASSUME QP!IInv, Enqueue
    PROVE  /\ pc[Main] # "idle" /\ \A w \in Workers : pc'[w] = pc[w]
           /\ UNCHANGED <<calls, result, pops>>
           /\ \/ pc'[Main] # "idle" /\ UNCHANGED <<pcq_buffer, pushes>>
              \/ /\ pc'[Main] = "idle" /\ pushes' = pushes + 1
                 /\ pcq_buffer' = [pcq_buffer EXCEPT
                        ![QP!Successor(pcq_tail)] = <<Main, calls[Main]>>]
<1>1. QP!Step(Main) \/ QP!SpuriousWake(Main)  BY SameQueue DEF Enqueue
<1>2. Main \in QP!Threads /\ \A w \in Workers : w \in QP!Threads /\ w # Main
  BY BrokerAssumption DEF QP!Threads
<1>3. pc \in [QP!Threads -> QP!Labels]  BY DEF QP!IInv, QP!TypeOK
<1>4. QP!Inside(Main) \/ QP!EnqStore(Main)
  <2>1. Main \notin Workers  BY BrokerAssumption
  <2> QED  BY <1>1, <1>2, <2>1, QueueFits, QP!StaysInside
<1>5. CASE QP!Inside(Main)
  BY <1>2, <1>3, <1>5 DEF QP!Inside
<1>6. CASE QP!EnqStore(Main)
  <2>1. pc[Main] # "idle" /\ pc' = [pc EXCEPT ![Main] = "idle"]
    BY <1>6 DEF QP!EnqStore, QP!Goto
  <2> QED  BY <1>2, <1>3, <1>6, <2>1 DEF QP!EnqStore
<1> QED  BY <1>4, <1>5, <1>6

\* A worker inside pcq_dequeue.
LEMMA WorkerMoves ==
    ASSUME QP!IInv, NEW w \in Workers, Dequeue(w)
    PROVE  /\ pc[w] # "idle" /\ pc'[Main] = pc[Main]
           /\ \A v \in Workers \ {w} : pc'[v] = pc[v]
           /\ UNCHANGED <<calls, pcq_buffer, pushes>>
           /\ \/ pc'[w] # "idle" /\ UNCHANGED <<result, pops>>
              \/ /\ pc'[w] = "idle" /\ pops' = pops + 1
                 /\ result' = [result EXCEPT ![w] = pcq_buffer[pcq_head]]
<1>1. QP!Step(w) \/ QP!SpuriousWake(w)  BY SameQueue DEF Dequeue
<1>2. /\ Main \in QP!Threads /\ w # Main /\ w \notin {Main}
      /\ \A v \in Workers : v \in QP!Threads
  BY BrokerAssumption DEF QP!Threads
<1>3. pc \in [QP!Threads -> QP!Labels]  BY DEF QP!IInv, QP!TypeOK
<1>4. QP!Inside(w) \/ QP!DeqTake(w)
  BY <1>1, <1>2, QueueFits, QP!StaysInside
<1>5. CASE QP!Inside(w)
  BY <1>2, <1>3, <1>5 DEF QP!Inside
<1>6. CASE QP!DeqTake(w)
  <2>1. pc[w] # "idle" /\ pc' = [pc EXCEPT ![w] = "idle"]
    BY <1>6 DEF QP!DeqTake, QP!Goto
  <2> QED  BY <1>2, <1>3, <1>6, <2>1 DEF QP!DeqTake
<1> QED  BY <1>4, <1>5, <1>6

-----------------------------------------------------------------------------
(* Types and counts *)

Workings == [at : {"start", "dequeue", "copy", "parse", "publish", "subscribe"},
             publisher : BOOLEAN, box : Boxes \cup {NoBox}, own : BOOLEAN]

\* The variables beside the queue and the ones of CoverInv.
TablesTyped ==
    /\ buffer \in Requests \cup {NoRequest}
    /\ sessions \in Nat /\ n_boxes \in Int
    /\ files \subseteq Boxes \ InvalidBoxes /\ handles \in 0 .. MaxOpenFilesCount
    /\ worker \in [Workers -> Workings]
    /\ registered \in Seq(1 .. MaxRequests)
    /\ removed \in BOOLEAN

\* Main registers each request once, in the order it receives them, and the next
\* free index never runs ahead of the registrations.
MainCounts ==
    /\ Len(registered) = calls[Main]
    /\ pushes + (IF pc[Main] = "idle" THEN 0 ELSE 1) = calls[Main]
    /\ pc[Main] # "idle" => main = "enqueue"
    /\ Len(registered) <= buffer.id
    /\ main = "serve" => Len(registered) < buffer.id
    /\ sessions + (IF main = "enqueue" THEN 1 ELSE 0) <= Len(registered)

Served == {w \in Workers : worker[w].at \notin {"start", "dequeue"}}

\* A worker dequeues once.
WorkerCounts ==
    /\ pops = Cardinality(Served)
    /\ \A w \in Workers : pc[w] # "idle" <=> worker[w].at = "dequeue"

\* The inductive invariant for the types.
BInv == QP!IInv /\ CoverInv /\ TablesTyped /\ MainCounts /\ WorkerCounts

LEMMA ServedFinite == IsFiniteSet(Served) /\ Cardinality(Served) \in Nat
<1>1. Served \in SUBSET Workers  BY DEF Served
<1> QED  BY <1>1, BrokerAssumption, FS_Subset, FS_CardinalityType

\* While a worker has not dequeued, fewer than max_sessions have.
LEMMA SomeUnserved ==
    ASSUME NEW w \in Workers, w \notin Served
    PROVE  Cardinality(Served) < max_sessions
<1>1. Served \in SUBSET Workers /\ Served # Workers  BY DEF Served
<1> QED
  BY <1>1, ServedFinite, BrokerAssumption, FS_Subset, FS_CardinalityType
  DEF max_sessions

LEMMA InitBInv == Init => BInv
<1> SUFFICES ASSUME Init PROVE BInv  OBVIOUS
<1>1. CoverInv  BY InitCovers
<1>2. QP!Init  BY SameQueue DEF Init
<1>3. QP!IInv  BY <1>2, QueueFits, QP!InitInv
<1>4. /\ pc = [t \in QP!Threads |-> "idle"] /\ calls = [t \in QP!Threads |-> 0]
      /\ pushes = 0 /\ pops = 0 /\ Main \in QP!Threads /\ Workers \subseteq QP!Threads
  BY <1>2 DEF QP!Init, QP!Threads
<1>5. TablesTyped
  <2>1. 0 \in 0 .. MaxOpenFilesCount  BY BrokerAssumption
  <2>2. worker \in [Workers -> Workings]
    <3>1. [at |-> "start", publisher |-> FALSE, box |-> NoBox, own |-> TRUE]
              \in Workings
      BY DEF Workings
    <3> QED  BY <3>1 DEF Init
  <2>3. registered \in Seq(1 .. MaxRequests)  BY DEF Init
  <2>4. /\ buffer = NoRequest /\ sessions = 0 /\ n_boxes = 0 /\ files = {}
        /\ handles = 0 /\ removed = FALSE
    BY DEF Init
  <2>5. removed \in BOOLEAN  BY <2>4
  <2> QED  BY <2>1, <2>2, <2>3, <2>4, <2>5 DEF TablesTyped
<1>6. MainCounts  BY <1>4 DEF Init, MainCounts, NoRequest
<1>7. WorkerCounts
  <2>1. Served = {}  BY DEF Init, Served
  <2> QED  BY <1>4, <2>1, FS_EmptySet DEF Init, WorkerCounts
<1> QED  BY <1>1, <1>3, <1>5, <1>6, <1>7 DEF BInv

\* Main's steps outside a registration.
LEMMA CountsKept ==
    ASSUME BInv, UNCHANGED <<queue, registered, worker>>,
           buffer'.id \in Int, buffer'.id >= buffer.id,
           main \notin {"enqueue"}, main' \notin {"enqueue"},
           main' = "serve" => buffer'.id > buffer.id,
           sessions' \in Int, sessions' <= sessions
    PROVE  MainCounts' /\ WorkerCounts'
<1>1. sessions \in Int /\ buffer.id \in Int /\ Len(registered) \in Int
  BY DEF BInv, TablesTyped, Requests, NoRequest
<1>2. MainCounts'  BY <1>1 DEF BInv, MainCounts, queue
<1>3. Served' = Served  BY DEF Served
<1> QED  BY <1>2, <1>3 DEF BInv, WorkerCounts, queue

LEMMA ReceiveKeeps ==
    ASSUME BInv, Receive PROVE TablesTyped' /\ MainCounts' /\ WorkerCounts'
<1>1. buffer.id \in Int /\ sessions \in Int
  BY DEF BInv, TablesTyped, Requests, NoRequest
<1>2. CASE UNCHANGED <<buffer, tables, queue, worker>> /\ main' = "ended"
  BY <1>1, <1>2, CountsKept DEF BInv, TablesTyped, tables, Receive
<1>3. CASE \E r \in Requests : /\ r.id = buffer.id + 1 /\ buffer' = r
                               /\ main' = "serve" /\ UNCHANGED <<queue, tables, worker>>
  <2>1. PICK r \in Requests : /\ r.id = buffer.id + 1 /\ buffer' = r
                              /\ main' = "serve" /\ UNCHANGED <<queue, tables, worker>>
    BY <1>3
  <2>2. buffer'.id = buffer.id + 1  BY <2>1
  <2>3. MainCounts' /\ WorkerCounts'
    BY <1>1, <2>1, <2>2, CountsKept DEF tables, Receive
  <2>4. TablesTyped'  BY <2>1 DEF BInv, TablesTyped, tables
  <2> QED  BY <2>3, <2>4
<1> QED  BY <1>2, <1>3 DEF Receive, ProcessEnds

LEMMA EndsKeeps ==
    ASSUME BInv, main \in {"serve", "answer"}, main' \in {"read", "answer", "ended"},
           UNCHANGED <<queue, buffer, tables, worker>>
    PROVE  TablesTyped' /\ MainCounts' /\ WorkerCounts'
<1>1. buffer.id \in Int /\ sessions \in Int
  BY DEF BInv, TablesTyped, Requests, NoRequest
<1>2. MainCounts' /\ WorkerCounts'  BY <1>1, CountsKept DEF tables
<1> QED  BY <1>2 DEF BInv, TablesTyped, tables

LEMMA RegisterKeeps ==
    ASSUME BInv, Register PROVE TablesTyped' /\ MainCounts' /\ WorkerCounts'
<1>1. CASE main' \in {"read", "ended"} /\ UNCHANGED <<queue, buffer, tables, worker>>
  BY <1>1, EndsKeeps DEF Register
<1>2. CASE /\ registered' = Append(registered, buffer.id) /\ main' = "enqueue"
           /\ QP!Call(Main)
           /\ UNCHANGED <<buffer, sessions, n_boxes, files, handles, worker, removed>>
  <2>1. main = "serve"  BY DEF Register
  <2>2. /\ registered \in Seq(1 .. MaxRequests) /\ buffer.id \in 1 .. MaxRequests
        /\ sessions \in Nat /\ Len(registered) \in Nat
    <3>1. registered \in Seq(1 .. MaxRequests) /\ sessions \in Nat
          /\ buffer \in Requests \cup {NoRequest}
      BY DEF BInv, TablesTyped
    <3>2. Len(registered) \in Nat /\ Len(registered) < buffer.id
      BY <2>1, <3>1 DEF BInv, MainCounts
    <3>3. buffer.id \in 0 .. MaxRequests
      BY <3>1, BrokerAssumption DEF Requests, NoRequest
    <3> QED  BY <3>1, <3>2, <3>3
  <2>3. registered' \in Seq(1 .. MaxRequests) /\ Len(registered') = Len(registered) + 1
    BY <1>2, <2>2
  <2>4. /\ pc[Main] = "idle" /\ pc'[Main] = "lock_size"
        /\ \A w \in Workers : pc'[w] = pc[w]
        /\ calls'[Main] = calls[Main] + 1 /\ calls[Main] \in Nat /\ pushes \in Nat
        /\ UNCHANGED <<pushes, pops>>
    BY <1>2, BrokerAssumption
    DEF QP!Call, QP!Goto, BInv, QP!IInv, QP!TypeOK, QP!Threads
  <2>5. TablesTyped'  BY <1>2, <2>3 DEF BInv, TablesTyped
  <2>6. MainCounts'
    BY <1>2, <2>1, <2>2, <2>3, <2>4 DEF BInv, MainCounts
  <2>7. Served' = Served  BY <1>2 DEF Served
  <2>8. WorkerCounts'  BY <1>2, <2>4, <2>7 DEF BInv, WorkerCounts
  <2> QED  BY <2>5, <2>6, <2>8
<1> QED  BY <1>1, <1>2, SameQueue DEF Register, ProcessEnds

LEMMA RegisteredKeeps ==
    ASSUME BInv, Registered PROVE TablesTyped' /\ MainCounts' /\ WorkerCounts'
<1>1. /\ main = "enqueue" /\ main' = "read" /\ sessions' = sessions + 1
      /\ UNCHANGED <<queue, buffer, n_boxes, files, handles, worker, registered, removed>>
  BY DEF Registered, NextEntry
<1>2. sessions \in Nat /\ Len(registered) \in Int  BY DEF BInv, TablesTyped
<1>3. TablesTyped'  BY <1>1, <1>2 DEF BInv, TablesTyped
<1>4. MainCounts'
  <2>1. pc[Main] = "idle"  BY DEF Registered
  <2> QED  BY <1>1, <1>2, <2>1 DEF BInv, MainCounts, queue
<1>5. Served' = Served  BY <1>1 DEF Served
<1>6. WorkerCounts'  BY <1>1, <1>5 DEF BInv, WorkerCounts, queue
<1> QED  BY <1>3, <1>4, <1>6

\* A handle that tfs_open gives main is one of the MaxOpenFilesCount, however many
\* the sessions hold.
LEMMA HandleLeft ==
    ASSUME BInv, NEW held \in HeldBySessions, NEW names
    PROVE  handles + (IF CanOpen(names, held) THEN 1 ELSE 0)
               \in 0 .. MaxOpenFilesCount
<1>1. held \in Nat  BY DEF HeldBySessions
<1>2. handles \in 0 .. MaxOpenFilesCount /\ MaxOpenFilesCount \in Nat
  BY BrokerAssumption DEF BInv, TablesTyped
<1>3. CASE CanOpen(names, held)
  <2>1. handles + held < MaxOpenFilesCount  BY <1>3 DEF CanOpen
  <2> QED  BY <1>1, <1>2, <1>3, <2>1
<1>4. CASE ~CanOpen(names, held)  BY <1>2, <1>4
<1> QED  BY <1>3, <1>4

LEMMA CreatableTyped == BInv => Creatable \subseteq Boxes \ InvalidBoxes
  BY DEF BInv, TablesTyped, Creatable

LEMMA CreateKeeps ==
    ASSUME BInv, create_box PROVE TablesTyped' /\ MainCounts' /\ WorkerCounts'
<1>1. PICK held \in HeldBySessions :
          /\ OpenCreat(CanOpen(Creatable, held))
          /\ n_boxes' = n_boxes + (IF CanOpen(Creatable, held) THEN 0 ELSE 1)
  BY DEF create_box
<1>2. /\ main = "serve" /\ main' = "answer"
      /\ files' = files \cup ({buffer.box} \cap Creatable)
      /\ UNCHANGED <<queue, buffer, sessions, worker, registered, removed>>
  BY DEF create_box
<1>3. buffer.id \in Int /\ sessions \in Int
  BY DEF BInv, TablesTyped, Requests, NoRequest
<1>4. handles' \in 0 .. MaxOpenFilesCount
  BY <1>1, HandleLeft DEF OpenCreat
<1>5. n_boxes' \in Int /\ files' \subseteq Boxes \ InvalidBoxes
  BY <1>1, <1>2, CreatableTyped DEF BInv, TablesTyped
<1>6. TablesTyped'  BY <1>2, <1>4, <1>5 DEF BInv, TablesTyped
<1> QED  BY <1>2, <1>3, <1>6, CountsKept

\* What remove_box subtracts from sessions leaves at least the entries in use.
LEMMA RemoveKeeps ==
    ASSUME BInv, remove_box PROVE TablesTyped' /\ MainCounts' /\ WorkerCounts'
<1>1. /\ main = "serve" /\ main' = "answer"
      /\ files' \in {files \cup ({buffer.box} \cap Creatable), files \ {buffer.box}}
      /\ n_boxes' \in {n_boxes, n_boxes - 1}
      /\ removed' \in BOOLEAN
      /\ sessions' \in {sessions, sessions - Cardinality(EntriesOf(buffer.box))}
      /\ UNCHANGED <<queue, buffer, worker, registered>>
  BY DEF remove_box, BInv, TablesTyped
<1>2. buffer.id \in Int /\ sessions \in Nat
  BY DEF BInv, TablesTyped, Requests, NoRequest
<1>3. Cardinality(EntriesOf(buffer.box)) \in Nat
  <2>1. EntriesOf(buffer.box) \in SUBSET Indices  BY DEF EntriesOf
  <2> QED  BY <2>1, IndicesFinite, FS_Subset, FS_CardinalityType
<1>4. sessions' \in Nat /\ sessions' <= sessions
  <2>1. CoverInv'  BY RemoveCovers DEF BInv
  <2>2. IsFiniteSet(Live') /\ Live' \in SUBSET Indices
    <3>1. Live' \in SUBSET Indices  BY DEF Live
    <3> QED  BY <3>1, IndicesFinite, FS_Subset
  <2>3. Cardinality(Live') \in Nat  BY <2>2, FS_CardinalityType
  <2>4. Cardinality(Live') <= sessions' + 0
    BY <1>1, <2>1 DEF CoverInv, SessionsCoverEntries
  <2> QED  BY <1>1, <1>2, <1>3, <2>3, <2>4
<1>5. handles' \in 0 .. MaxOpenFilesCount
  <2>1. PICK held \in HeldBySessions :
            handles' = handles + (IF CanOpen(Creatable, held) THEN 1 ELSE 0)
    BY DEF remove_box, OpenCreat
  <2> QED  BY <2>1, HandleLeft
<1>6. n_boxes' \in Int /\ files' \subseteq Boxes \ InvalidBoxes
  BY <1>1, CreatableTyped DEF BInv, TablesTyped
<1>7. TablesTyped'  BY <1>1, <1>4, <1>5, <1>6 DEF BInv, TablesTyped
<1> QED  BY <1>1, <1>2, <1>4, <1>7, CountsKept

LEMMA EnqueueKeeps ==
    ASSUME BInv, Enqueue PROVE TablesTyped' /\ MainCounts' /\ WorkerCounts'
<1>1. UNCHANGED <<main, buffer, tables, worker>>  BY DEF Enqueue
<1>2. /\ pc[Main] # "idle" /\ \A w \in Workers : pc'[w] = pc[w]
      /\ UNCHANGED <<calls, result, pops>>
      /\ \/ pc'[Main] # "idle" /\ pushes' = pushes
         \/ pc'[Main] = "idle" /\ pushes' = pushes + 1
  BY MainMoves DEF BInv
<1>3. pushes \in Nat  BY DEF BInv, QP!IInv, QP!TypeOK
<1>4. TablesTyped'  BY <1>1 DEF BInv, TablesTyped, tables
<1>5. MainCounts'  BY <1>1, <1>2, <1>3 DEF BInv, MainCounts, tables, Enqueue
<1>6. Served' = Served  BY <1>1 DEF Served
<1> QED  BY <1>1, <1>2, <1>4, <1>5, <1>6 DEF BInv, WorkerCounts

LEMMA CallDequeueKeeps ==
    ASSUME BInv, NEW w \in Workers, CallDequeue(w)
    PROVE  TablesTyped' /\ MainCounts' /\ WorkerCounts'
<1>1. /\ worker[w].at = "start" /\ UNCHANGED <<main, buffer, tables>>
      /\ worker' = [worker EXCEPT ![w].at = "dequeue"] /\ QP!Call(w)
  BY SameQueue DEF CallDequeue
<1>2. worker \in [Workers -> Workings]  BY DEF BInv, TablesTyped
<1>3. /\ worker' \in [Workers -> Workings] /\ worker'[w].at = "dequeue"
      /\ \A v \in Workers \ {w} : worker'[v] = worker[v]
  BY <1>1, <1>2 DEF Workings
<1>4. /\ pc'[w] = "lock_size" /\ pc'[Main] = pc[Main] /\ calls'[Main] = calls[Main]
      /\ \A v \in Workers \ {w} : pc'[v] = pc[v]
      /\ UNCHANGED <<pushes, pops>>
  BY <1>1, BrokerAssumption
  DEF QP!Call, QP!Goto, BInv, QP!IInv, QP!TypeOK, QP!Threads
<1>5. TablesTyped'  BY <1>1, <1>3 DEF BInv, TablesTyped, tables
<1>6. MainCounts'  BY <1>1, <1>4 DEF BInv, MainCounts, tables
<1>7. Served' = Served  BY <1>1, <1>3 DEF Served
<1>8. WorkerCounts'  BY <1>3, <1>4, <1>7 DEF BInv, WorkerCounts
<1> QED  BY <1>5, <1>6, <1>8

LEMMA DequeueKeeps ==
    ASSUME BInv, NEW w \in Workers, Dequeue(w)
    PROVE  TablesTyped' /\ MainCounts' /\ WorkerCounts'
<1>1. /\ worker[w].at = "dequeue" /\ UNCHANGED <<main, buffer, tables>>
      /\ worker' = [worker EXCEPT ![w].at = IF pc'[w] = "idle" THEN "copy" ELSE @]
  BY DEF Dequeue
<1>2. worker \in [Workers -> Workings]  BY DEF BInv, TablesTyped
<1>3. /\ worker' \in [Workers -> Workings]
      /\ worker'[w].at = IF pc'[w] = "idle" THEN "copy" ELSE "dequeue"
      /\ \A v \in Workers \ {w} : worker'[v] = worker[v]
  BY <1>1, <1>2 DEF Workings
<1>4. /\ pc[w] # "idle" /\ pc'[Main] = pc[Main]
      /\ \A v \in Workers \ {w} : pc'[v] = pc[v]
      /\ UNCHANGED <<calls, pushes>>
      /\ \/ pc'[w] # "idle" /\ pops' = pops
         \/ pc'[w] = "idle" /\ pops' = pops + 1
  BY WorkerMoves DEF BInv
<1>5. TablesTyped'  BY <1>1, <1>3 DEF BInv, TablesTyped, tables
<1>6. MainCounts'  BY <1>1, <1>4 DEF BInv, MainCounts, tables
<1>7. \A v \in Workers : pc'[v] # "idle" <=> worker'[v].at = "dequeue"
  BY <1>3, <1>4 DEF BInv, WorkerCounts
<1>8. pops' = Cardinality(Served')
  <2>1. CASE pc'[w] # "idle"
    <3>1. Served' = Served  BY <1>1, <1>3, <2>1 DEF Served
    <3> QED  BY <1>4, <2>1, <3>1 DEF BInv, WorkerCounts
  <2>2. CASE pc'[w] = "idle"
    <3>1. Served' = Served \cup {w} /\ w \notin Served
      BY <1>1, <1>3, <2>2 DEF Served
    <3>2. Cardinality(Served \cup {w}) = Cardinality(Served) + 1
      BY <3>1, ServedFinite, FS_AddElement
    <3> QED  BY <1>4, <2>2, <3>1, <3>2 DEF BInv, WorkerCounts
  <2> QED  BY <2>1, <2>2
<1> QED  BY <1>5, <1>6, <1>7, <1>8 DEF WorkerCounts

\* What a copy of the buffer can show.
LEMMA PointedTyped ==
    ASSUME BInv, NEW w \in Workers, NEW r \in Pointed(w)
    PROVE  /\ r.box \in Boxes \cup {NoBox}
           /\ IsOwn(w, r) => r = buffer /\ result[w] # Junk
<1>1. r \in Requests \cup {NoRequest}
  BY DEF Pointed, BInv, TablesTyped
<1> QED  BY <1>1 DEF Pointed, IsOwn, Requests, NoRequest

LEMMA CopyCodeStep ==
    ASSUME BInv, NEW w \in Workers, CopyCode(w)
    PROVE  /\ worker[w].at = "copy" /\ UNCHANGED <<queue, main, buffer, tables>>
           /\ worker' \in [Workers -> Workings]
           /\ \A v \in Workers \ {w} : worker'[v] = worker[v]
           /\ worker'[w].at = "parse" /\ worker'[w].box = worker[w].box
           /\ worker'[w].own =>
                  /\ IsOwn(w, buffer)
                  /\ worker'[w].publisher => buffer.code = "publisher"
<1>1. PICK r \in Pointed(w) :
          worker' = [worker EXCEPT ![w].publisher = r.code = "publisher",
                                   ![w].own = IsOwn(w, r), ![w].at = "parse"]
  BY DEF CopyCode
<1> DEFINE p == r.code = "publisher"
           o == IsOwn(w, r)
           m == worker[w]
           m1 == [m EXCEPT !.publisher = p]
           m2 == [m1 EXCEPT !.own = o]
           m3 == [m2 EXCEPT !.at = "parse"]
<1>2. p \in BOOLEAN /\ o \in BOOLEAN  BY DEF IsOwn
<1>3. worker' = [worker EXCEPT ![w] = m3]  BY <1>1
<1>4. m \in Workings  BY DEF BInv, TablesTyped
<1>5. o => p = (buffer.code = "publisher") /\ IsOwn(w, buffer)
  BY PointedTyped
<1> HIDE DEF m, p, o
<1>6. m1 \in Workings /\ m1.publisher = p /\ m1.box = m.box
  BY <1>2, <1>4 DEF Workings
<1> HIDE DEF m1
<1>7. m2 \in Workings /\ m2.publisher = p /\ m2.box = m.box /\ m2.own = o
  BY <1>2, <1>6 DEF Workings
<1> HIDE DEF m2
<1>8. /\ m3 \in Workings /\ m3.publisher = p /\ m3.box = m.box /\ m3.own = o
      /\ m3.at = "parse"
  BY <1>7 DEF Workings
<1> HIDE DEF m3
<1>9. worker \in [Workers -> Workings]  BY DEF BInv, TablesTyped
<1>10. /\ worker' \in [Workers -> Workings] /\ worker'[w] = m3
       /\ \A v \in Workers \ {w} : worker'[v] = worker[v]
  BY <1>3, <1>8, <1>9
<1>11. worker[w].at = "copy" /\ UNCHANGED <<queue, main, buffer, tables>>
  BY DEF CopyCode
<1> QED  BY <1>5, <1>8, <1>10, <1>11 DEF m

LEMMA CopyBoxStep ==
    ASSUME BInv, NEW w \in Workers, CopyBox(w)
    PROVE  /\ worker[w].at = "parse" /\ UNCHANGED <<queue, main, buffer, tables>>
           /\ worker' \in [Workers -> Workings]
           /\ \A v \in Workers \ {w} : worker'[v] = worker[v]
           /\ worker'[w].at \in {"publish", "subscribe"}
           /\ worker'[w].publisher = worker[w].publisher
           /\ worker'[w].own => /\ worker[w].own /\ IsOwn(w, buffer)
                                /\ worker'[w].box = buffer.box
<1>1. PICK r \in Pointed(w), session \in {"publish", "subscribe"} :
          worker' = [worker EXCEPT ![w].box = r.box, ![w].at = session,
                                   ![w].own = @ /\ IsOwn(w, r)]
  BY DEF CopyBox
<1> DEFINE o == worker[w].own /\ IsOwn(w, r)
           m == worker[w]
           m1 == [m EXCEPT !.box = r.box]
           m2 == [m1 EXCEPT !.at = session]
           m3 == [m2 EXCEPT !.own = o]
<1>2. /\ o \in BOOLEAN /\ r.box \in Boxes \cup {NoBox}
      /\ o => m.own /\ r = buffer /\ IsOwn(w, buffer)
  BY PointedTyped
<1>3. worker' = [worker EXCEPT ![w] = m3]
  <2>1. worker' = [worker EXCEPT ![w].box = r.box, ![w].at = session, ![w].own = o]
    BY <1>1
  <2> HIDE DEF o
  <2> QED  BY <2>1
<1>4. m \in Workings  BY DEF BInv, TablesTyped
<1> HIDE DEF m, o
<1>5. m1 \in Workings /\ m1.box = r.box /\ m1.publisher = m.publisher
  BY <1>2, <1>4 DEF Workings
<1> HIDE DEF m1
<1>6. /\ m2 \in Workings /\ m2.box = r.box /\ m2.at = session
      /\ m2.publisher = m.publisher
  BY <1>5 DEF Workings
<1> HIDE DEF m2
<1>7. /\ m3 \in Workings /\ m3.box = r.box /\ m3.at = session /\ m3.own = o
      /\ m3.publisher = m.publisher
  BY <1>2, <1>6 DEF Workings
<1> HIDE DEF m3
<1>8. worker \in [Workers -> Workings]  BY DEF BInv, TablesTyped
<1>9. /\ worker' \in [Workers -> Workings] /\ worker'[w] = m3
      /\ \A v \in Workers \ {w} : worker'[v] = worker[v]
  BY <1>3, <1>7, <1>8
<1>10. worker[w].at = "parse" /\ UNCHANGED <<queue, main, buffer, tables>>
  BY DEF CopyBox
<1> QED  BY <1>1, <1>2, <1>7, <1>9, <1>10 DEF m

LEMMA CopyKeeps ==
    ASSUME BInv, NEW w \in Workers, CopyCode(w) \/ CopyBox(w)
    PROVE  TablesTyped' /\ MainCounts' /\ WorkerCounts'
<1>1. /\ worker[w].at \in {"copy", "parse"} /\ UNCHANGED <<queue, main, buffer, tables>>
      /\ worker' \in [Workers -> Workings]
      /\ \A v \in Workers \ {w} : worker'[v] = worker[v]
      /\ worker'[w].at \in {"parse", "publish", "subscribe"}
  BY CopyCodeStep, CopyBoxStep
<1>2. TablesTyped'  BY <1>1 DEF BInv, TablesTyped, tables
<1>3. MainCounts'  BY <1>1 DEF BInv, MainCounts, tables, queue
<1>4. Served' = Served  BY <1>1 DEF Served
<1>5. WorkerCounts'  BY <1>1, <1>4 DEF BInv, WorkerCounts, queue
<1> QED  BY <1>2, <1>3, <1>5

LEMMA NextBInv == BInv /\ [Next]_vars => BInv'
<1> SUFFICES ASSUME BInv, [Next]_vars PROVE BInv'  OBVIOUS
<1>1. QP!IInv' /\ CoverInv'  BY QueueInv, NextCovers DEF BInv
<1> SUFFICES TablesTyped' /\ MainCounts' /\ WorkerCounts'  BY <1>1 DEF BInv
<1>2. CASE UNCHANGED vars
  <2>1. Served' = Served  BY <1>2 DEF Served, vars
  <2> QED  BY <1>2, <2>1 DEF BInv, TablesTyped, MainCounts, WorkerCounts, vars,
                             tables, queue
<1>3. CASE Receive  BY <1>3, ReceiveKeeps
<1>4. CASE Serve
  <2>1. CASE list_boxes \/ Unknown
    BY <2>1, EndsKeeps DEF list_boxes, Unknown
  <2> QED  BY <1>4, <2>1, RegisterKeeps, RegisteredKeeps, CreateKeeps, RemoveKeeps
           DEF Serve
<1>5. CASE Enqueue  BY <1>5, EnqueueKeeps
<1>6. CASE Answer
  BY <1>6, EndsKeeps DEF Answer, SendAnswer, SendList, Answered, ProcessEnds
<1>7. ASSUME NEW w \in Workers, WorkerStep(w)
      PROVE  TablesTyped' /\ MainCounts' /\ WorkerCounts'
  BY <1>7, CallDequeueKeeps, DequeueKeeps, CopyKeeps DEF WorkerStep
<1> QED  BY <1>2, <1>3, <1>4, <1>5, <1>6, <1>7 DEF Next

\* The invariant holds in every state of the broker.
THEOREM Invariant == Spec => []BInv
<1> QED  BY InitBInv, NextBInv, PTL DEF Spec

\* Every variable keeps its type; in particular sessions stays between 0 and the
\* number of requests although remove_box subtracts from it, and the queue stays
\* well formed under main and the workers.
THEOREM TypeCorrect == Spec => []TypeOK
<1>1. BInv => TypeOK
  <2> SUFFICES ASSUME BInv PROVE TypeOK  OBVIOUS
  <2>1. Q!TypeOK  BY SameQueue DEF BInv, QP!IInv
  <2>2. sessions \in 0 .. MaxRequests
    <3>1. buffer.id \in 0 .. MaxRequests
      BY BrokerAssumption DEF BInv, TablesTyped, Requests, NoRequest
    <3>2. sessions \in Nat /\ Len(registered) \in Nat  BY DEF BInv, TablesTyped
    <3>3. sessions <= Len(registered) /\ Len(registered) <= buffer.id
      BY <3>2 DEF BInv, MainCounts
    <3> QED  BY <3>1, <3>2, <3>3, BrokerAssumption
  <2> QED  BY <2>1, <2>2 DEF BInv, TablesTyped, CoverInv, Entries, Workings, TypeOK
<1> QED  BY <1>1, Invariant, PTL

-----------------------------------------------------------------------------
(* Two publishers of one box *)

\* The number of the registration that a worker dequeued.
Number(w) == result[w][2]

\* The k-th registration goes to slot k - 1 of the ring, and no two workers
\* dequeue the same one: each slot is read once at most, because there are as
\* many slots as workers.
NumbersDistinct ==
    /\ \A s \in 0 .. max_sessions - 1 : pcq_buffer[s] # Junk =>
           /\ pcq_buffer[s][2] <= pushes
           /\ (pcq_buffer[s][2] - 1) % max_sessions = s
    /\ \A w \in Workers : result[w] # Junk =>
           Number(w) <= pushes /\ (Number(w) - 1) % max_sessions < pops
    /\ \A w, v \in Workers : (w # v /\ result[w] # Junk /\ result[v] # Junk) =>
           Number(w) # Number(v)

EntryOf(r) == [boxname |-> r.box, i |-> IF r.code = "publisher" THEN 0 ELSE 1]

\* What a worker that copied its own request goes by is what main entered.
ShowsEntry(w) ==
    (worker[w].own /\ worker[w].at \in {"parse", "publish"}) =>
        /\ result[w] # Junk
        /\ (worker[w].at = "parse" /\ worker[w].publisher) =>
               userarray[Number(w) - 1].i = 0
        /\ (worker[w].at = "publish" /\ worker[w].publisher) =>
               userarray[Number(w) - 1] = [boxname |-> worker[w].box, i |-> 0]

\* Until a box is removed, the k-th registration has entry k - 1, and among the
\* entries that are searched no box has two publishers.
EntriesInv ==
    removed \/
      /\ sessions + (IF main = "enqueue" THEN 1 ELSE 0) = Len(registered)
      /\ \A k \in 1 .. Len(registered) :
             /\ registered[k] <= buffer.id
             /\ main = "serve" => registered[k] < buffer.id
             /\ registered[k] = buffer.id => userarray[k - 1] = EntryOf(buffer)
      /\ \A k, l \in 1 .. Len(registered) : (k < l /\ l <= max_sessions) =>
             ~(userarray[k - 1].i = 0 /\ userarray[l - 1] = userarray[k - 1])
      /\ \A w \in Workers : ShowsEntry(w)

PInv == BInv /\ NumbersDistinct /\ EntriesInv

LEMMA InitPInv == Init => PInv
<1> SUFFICES ASSUME Init PROVE PInv  OBVIOUS
<1>1. BInv  BY InitBInv
<1>2. QP!Init  BY SameQueue DEF Init
<1>3. NumbersDistinct
  <2>1. /\ \A s \in 0 .. max_sessions - 1 : pcq_buffer[s] = Junk
        /\ \A w \in Workers : result[w] = Junk
    BY <1>2 DEF QP!Init, QP!Slots
  <2> QED  BY <2>1 DEF NumbersDistinct
<1>4. EntriesInv
  <2>1. \A w \in Workers : ShowsEntry(w)  BY DEF Init, ShowsEntry
  <2>2. Len(registered) = 0 /\ sessions = 0 /\ main = "read"  BY DEF Init
  <2> QED  BY <2>1, <2>2 DEF EntriesInv
<1> QED  BY <1>1, <1>3, <1>4 DEF PInv

LEMMA QueueFacts ==
    ASSUME BInv
    PROVE  /\ max_sessions \in Nat \ {0} /\ pushes \in Nat /\ pops \in Nat
           /\ pcq_head = pops % max_sessions
           /\ pcq_tail = (pushes + max_sessions - 1) % max_sessions
           /\ pcq_buffer \in [0 .. max_sessions - 1 -> QP!Elements \cup {Junk}]
           /\ result \in [Workers -> QP!Elements \cup {Junk}]
           /\ calls[Main] \in 0 .. MaxRequests
           /\ \A e \in QP!Elements : e[2] \in Nat
BY QueueFits, BrokerAssumption
DEF BInv, QP!IInv, QP!TypeOK, QP!RingArithmetic, QP!Slots, QP!Elements, QP!Threads,
    QP!QueueAssumption

\* A registration is stored in the slot of its number.
LEMMA StoreNumbers ==
    ASSUME PInv, Enqueue PROVE NumbersDistinct'
<1>1. BInv /\ NumbersDistinct  BY DEF PInv
<1>2. CASE UNCHANGED <<pcq_buffer, result, pushes, pops>>
  BY <1>1, <1>2 DEF NumbersDistinct, Number
<1>3. CASE ~UNCHANGED <<pcq_buffer, result, pushes, pops>>
  <2> DEFINE slot == QP!Successor(pcq_tail)
  <2>1. /\ pushes' = pushes + 1 /\ UNCHANGED <<result, pops>> /\ pc[Main] # "idle"
        /\ pcq_buffer' = [pcq_buffer EXCEPT ![slot] = <<Main, calls[Main]>>]
    BY <1>1, <1>3, MainMoves DEF BInv
  <2>2. calls[Main] = pushes + 1
    BY <1>1, <2>1, QueueFacts DEF BInv, MainCounts
  <2>3. slot = pushes % max_sessions
    <3>1. /\ max_sessions \in Nat \ {0} /\ pushes \in Nat
          /\ pcq_tail = (pushes + max_sessions - 1) % max_sessions
      BY <1>1, QueueFacts
    <3>2. (pushes + max_sessions - 1) \in Int /\ 1 \in {-1, 1}  BY <3>1
    <3>3. (((pushes + max_sessions - 1) % max_sessions) + 1) % max_sessions
              = ((pushes + max_sessions - 1) + 1) % max_sessions
      BY <3>1, <3>2, ModStep, Zenon
    <3>4. (pushes + max_sessions - 1) + 1 = pushes + max_sessions  BY <3>1
    <3>5. (pushes + max_sessions) % max_sessions = pushes % max_sessions
      <4>1. pushes \in Int  BY <3>1
      <4> QED  BY <3>1, <4>1, ModWhole, Zenon
    <3> QED  BY <3>1, <3>3, <3>4, <3>5 DEF QP!Successor
  <2> HIDE DEF slot
  <2>4. slot \in 0 .. max_sessions - 1  BY <1>1, <2>3, QueueFacts
  <2>5. \A s \in 0 .. max_sessions - 1 : pcq_buffer'[s] # Junk =>
            /\ pcq_buffer'[s][2] <= pushes'
            /\ (pcq_buffer'[s][2] - 1) % max_sessions = s
    <3> SUFFICES ASSUME NEW s \in 0 .. max_sessions - 1, pcq_buffer'[s] # Junk
                 PROVE  /\ pcq_buffer'[s][2] <= pushes + 1
                        /\ (pcq_buffer'[s][2] - 1) % max_sessions = s
      BY <2>1
    <3>1. CASE s = slot
      <4>1. pcq_buffer'[s][2] = pushes + 1  BY <1>1, <2>1, <2>2, <3>1, QueueFacts
      <4>2. (pushes + 1) - 1 = pushes /\ pushes \in Nat  BY <1>1, QueueFacts
      <4> QED  BY <2>3, <3>1, <4>1, <4>2
    <3>2. CASE s # slot
      <4>1. pcq_buffer'[s] = pcq_buffer[s]  BY <1>1, <2>1, <3>2, QueueFacts
      <4>2. pcq_buffer[s] \in QP!Elements /\ pcq_buffer[s][2] \in Nat /\ pushes \in Nat
        BY <1>1, <4>1, QueueFacts
      <4>3. /\ pcq_buffer[s][2] <= pushes
            /\ (pcq_buffer[s][2] - 1) % max_sessions = s
        BY <1>1, <4>1 DEF NumbersDistinct
      <4> QED  BY <4>1, <4>2, <4>3
    <3> QED  BY <3>1, <3>2
  <2>6. \A w \in Workers : result'[w] # Junk =>
            Number(w)' <= pushes' /\ (Number(w)' - 1) % max_sessions < pops'
    <3> SUFFICES ASSUME NEW w \in Workers, result[w] # Junk
                 PROVE  Number(w) <= pushes + 1 /\ (Number(w) - 1) % max_sessions < pops
      BY <2>1 DEF Number
    <3>1. Number(w) \in Nat /\ pushes \in Nat  BY <1>1, QueueFacts DEF Number
    <3> QED  BY <1>1, <3>1 DEF NumbersDistinct
  <2> QED  BY <1>1, <2>1, <2>5, <2>6 DEF NumbersDistinct, Number
<1> QED  BY <1>2, <1>3

\* A worker dequeues from a slot that no other worker has read.
LEMMA TakeNumbers ==
    ASSUME PInv, NEW w \in Workers, Dequeue(w) PROVE NumbersDistinct'
<1>1. BInv /\ NumbersDistinct  BY DEF PInv
<1>2. CASE UNCHANGED <<pcq_buffer, result, pushes, pops>>
  BY <1>1, <1>2 DEF NumbersDistinct, Number
<1>3. CASE ~UNCHANGED <<pcq_buffer, result, pushes, pops>>
  <2>1. /\ UNCHANGED <<pcq_buffer, pushes>> /\ pops' = pops + 1
        /\ result' = [result EXCEPT ![w] = pcq_buffer[pcq_head]]
    BY <1>1, <1>3, WorkerMoves DEF BInv
  <2>2. pops < max_sessions
    <3>1. w \notin Served  BY DEF Dequeue, Served
    <3> QED  BY <1>1, <3>1, SomeUnserved DEF BInv, WorkerCounts
  <2>3. pcq_head = pops /\ pops \in 0 .. max_sessions - 1
    <3>1. pops \in 0 .. max_sessions - 1 /\ max_sessions \in Nat \ {0}
      BY <1>1, <2>2, QueueFacts
    <3>2. pops % max_sessions = pops  BY <3>1, ModSmall, Zenon
    <3> QED  BY <1>1, <3>1, <3>2, QueueFacts
  <2>4. /\ result'[w] = pcq_buffer[pops]
        /\ \A v \in Workers \ {w} : result'[v] = result[v]
    BY <1>1, <2>1, <2>3, QueueFacts
  <2>5. result'[w] # Junk => /\ Number(w)' <= pushes
                             /\ (Number(w)' - 1) % max_sessions = pops
    BY <1>1, <2>3, <2>4 DEF NumbersDistinct, Number
  <2>6. \A v \in Workers \ {w} : result'[v] # Junk =>
            /\ Number(v)' <= pushes /\ (Number(v)' - 1) % max_sessions < pops
    BY <1>1, <2>4 DEF NumbersDistinct, Number
  <2>7. \A v \in Workers : result'[v] # Junk =>
            /\ (Number(v)' - 1) % max_sessions \in Int
    <3> SUFFICES ASSUME NEW v \in Workers, result'[v] # Junk
                 PROVE  (Number(v)' - 1) % max_sessions \in Int
      OBVIOUS
    <3>1. result'[v] \in QP!Elements \cup {Junk}
      BY <1>1, <2>3, <2>4, QueueFacts
    <3>2. Number(v)' \in Nat  BY <1>1, <3>1, QueueFacts DEF Number
    <3> QED  BY <1>1, <3>2, QueueFacts
  <2>8. \A v \in Workers : result'[v] # Junk =>
            Number(v)' <= pushes' /\ (Number(v)' - 1) % max_sessions < pops'
    <3>1. pops \in Nat  BY <1>1, QueueFacts
    <3> QED  BY <2>1, <2>5, <2>6, <2>7, <3>1
  <2>9. \A u, v \in Workers : (u # v /\ result'[u] # Junk /\ result'[v] # Junk) =>
            Number(u)' # Number(v)'
    <3>1. pops \in Nat  BY <1>1, QueueFacts
    <3>2. \A v \in Workers \ {w} : (result'[v] # Junk /\ result'[w] # Junk) =>
              Number(v)' # Number(w)'
      BY <2>5, <2>6, <2>7, <3>1
    <3>3. \A u, v \in Workers \ {w} :
              (u # v /\ result'[u] # Junk /\ result'[v] # Junk) =>
                  Number(u)' # Number(v)'
      BY <1>1, <2>4 DEF NumbersDistinct, Number
    <3> QED  BY <3>2, <3>3
  <2> QED  BY <1>1, <2>1, <2>8, <2>9 DEF NumbersDistinct
<1> QED  BY <1>2, <1>3

LEMMA NextNumbers == ASSUME PInv, [Next]_vars PROVE NumbersDistinct'
<1>1. CASE UNCHANGED <<pcq_buffer, result, pushes, pops>>
  BY <1>1 DEF PInv, NumbersDistinct, Number
<1>2. ASSUME NEW t \in Workers \cup {Main}, QP!Call(t)
      PROVE  UNCHANGED <<pcq_buffer, result, pushes, pops>>
  BY <1>2 DEF QP!Call, QP!queue
<1>3. CASE Next
  BY <1>1, <1>2, <1>3, QueueUse, StoreNumbers, TakeNumbers DEF queue
<1>4. CASE UNCHANGED vars  BY <1>1, <1>4 DEF vars, queue
<1> QED  BY <1>3, <1>4

\* The number of a dequeued registration has an entry in registered.
LEMMA NumberRange ==
    ASSUME PInv, NEW w \in Workers, result[w] # Junk
    PROVE  Number(w) \in 1 .. Len(registered) /\ Number(w) - 1 \in Indices
<1>1. BInv /\ NumbersDistinct  BY DEF PInv
<1>2. result[w] \in QP!Elements  BY <1>1, QueueFacts
<1>3. Number(w) \in 1 .. MaxRequests  BY <1>2 DEF Number, QP!Elements
<1>4. Number(w) <= pushes /\ pushes \in Nat
  BY <1>1, QueueFacts DEF NumbersDistinct
<1>5. pushes <= Len(registered) /\ Len(registered) \in Nat
  BY <1>1, <1>4, QueueFacts DEF BInv, MainCounts
<1>6. MaxRequests \in Nat  BY BrokerAssumption
<1> QED  BY <1>3, <1>4, <1>5, <1>6 DEF Indices

\* Main's steps that register nothing and remove nothing.
LEMMA EntriesKept ==
    ASSUME EntriesInv, UNCHANGED <<userarray, registered, removed, worker, result>>,
           \/ UNCHANGED <<sessions, buffer>> /\ (main' = "enqueue" <=> main = "enqueue")
           \/ Registered,
           main' = "serve" => main = "serve"
    PROVE  EntriesInv'
<1>1. CASE removed  BY <1>1 DEF EntriesInv
<1>2. CASE ~removed
  <2>1. buffer' = buffer  BY DEF Registered
  <2>2. sessions' + (IF main' = "enqueue" THEN 1 ELSE 0) = Len(registered)
    BY <1>2 DEF EntriesInv, Registered, NextEntry
  <2>3. \A w \in Workers : ShowsEntry(w)'
    BY <1>2 DEF EntriesInv, ShowsEntry, Number
  <2> QED  BY <1>2, <2>1, <2>2, <2>3 DEF EntriesInv, EntryOf
<1> QED  BY <1>1, <1>2

\* A new request is younger than every registration.
LEMMA ReceiveEntries == ASSUME PInv, Receive PROVE EntriesInv'
<1>1. EntriesInv /\ BInv  BY DEF PInv
<1>2. CASE ProcessEnds
  <2>1. result' = result  BY <1>2 DEF ProcessEnds, queue
  <2> QED  BY <1>1, <1>2, <2>1, EntriesKept DEF ProcessEnds, Receive, tables
<1>3. CASE ~ProcessEnds
  <2>1. /\ main = "read" /\ buffer'.id = buffer.id + 1 /\ main' = "serve"
        /\ UNCHANGED <<queue, tables, worker>>
    BY <1>3 DEF Receive
  <2>2. CASE removed  BY <2>1, <2>2 DEF EntriesInv, tables
  <2>3. CASE ~removed
    <3>1. buffer.id \in Int  BY <1>1 DEF BInv, TablesTyped, Requests, NoRequest
    <3>2. registered \in Seq(1 .. MaxRequests)  BY <1>1 DEF BInv, TablesTyped
    <3>3. \A k \in 1 .. Len(registered) :
              registered[k] \in Int /\ registered[k] <= buffer.id
      BY <1>1, <2>3, <3>2, BrokerAssumption DEF EntriesInv
    <3>4. \A k \in 1 .. Len(registered) :
              registered[k] < buffer'.id /\ registered[k] <= buffer'.id
                  /\ registered[k] # buffer'.id
      BY <2>1, <3>1, <3>3
    <3>5. \A w \in Workers : ShowsEntry(w)'
      BY <1>1, <2>1, <2>3 DEF EntriesInv, ShowsEntry, Number, queue, tables
    <3> QED  BY <1>1, <2>1, <2>3, <3>4, <3>5 DEF EntriesInv, tables
  <2> QED  BY <2>2, <2>3
<1> QED  BY <1>2, <1>3

\* A new entry: its index is the next one, and its publisher is the first of
\* the box among the entries that are searched.
LEMMA RegisterEntries ==
    ASSUME PInv, Register PROVE EntriesInv'
<1>1. EntriesInv /\ BInv /\ CoverInv  BY DEF PInv, BInv
<1>2. CASE main' \in {"read", "ended"} /\ UNCHANGED <<queue, buffer, tables, worker>>
  <2>1. main = "serve"  BY DEF Register
  <2> QED  BY <1>1, <1>2, <2>1, EntriesKept DEF queue, tables
<1>3. CASE /\ \E held \in HeldBySessions : ~Refused(held)
           /\ main' = "enqueue"
           /\ userarray' = [userarray EXCEPT ![sessions] = EntryOf(buffer)]
           /\ registered' = Append(registered, buffer.id)
           /\ QP!Call(Main)
           /\ UNCHANGED <<buffer, sessions, n_boxes, files, handles, worker, removed>>
  <2>1. main = "serve" /\ result' = result /\ calls[Main] < MaxRequests
    BY <1>3 DEF Register, QP!Call
  <2>2. CASE removed  BY <1>3, <2>2 DEF EntriesInv
  <2>3. CASE ~removed
    <3> DEFINE n == Len(registered)
    <3>1. /\ registered \in Seq(1 .. MaxRequests) /\ n \in Nat
          /\ n < MaxRequests /\ sessions = n
      <4>1. calls[Main] = n /\ registered \in Seq(1 .. MaxRequests)
        BY <1>1 DEF BInv, MainCounts, TablesTyped
      <4>2. sessions \in Nat  BY <1>1 DEF BInv, TablesTyped
      <4> QED  BY <1>1, <2>1, <2>3, <4>1, <4>2 DEF EntriesInv
    <3>2. /\ Len(registered') = n + 1 /\ registered'[n + 1] = buffer.id
          /\ \A k \in 1 .. n : registered'[k] = registered[k]
      BY <1>1, <1>3, <3>1 DEF Requests, NoRequest, BInv, TablesTyped
    <3>3. /\ userarray'[n] = EntryOf(buffer) /\ n \in Indices
          /\ \A k \in 1 .. n : /\ userarray'[k - 1] = userarray[k - 1]
                               /\ k - 1 \in Indices
      BY <1>1, <1>3, <3>1, BrokerAssumption DEF CoverInv, Indices
    <3>4. \A k \in 1 .. n : registered[k] < buffer.id
      BY <1>1, <2>1, <2>3 DEF EntriesInv
    <3>5. buffer.id \in Int /\ \A k \in 1 .. n : registered[k] \in Int
      BY <1>1, <3>1, BrokerAssumption DEF BInv, TablesTyped, Requests, NoRequest
    <3> HIDE DEF n
    <3>6. \A k \in 1 .. n + 1 : /\ registered'[k] <= buffer.id
                                /\ registered'[k] = buffer.id =>
                                       userarray'[k - 1] = EntryOf(buffer)
      <4> SUFFICES ASSUME NEW k \in 1 .. n + 1
                   PROVE  /\ registered'[k] <= buffer.id
                          /\ registered'[k] = buffer.id =>
                                 userarray'[k - 1] = EntryOf(buffer)
        OBVIOUS
      <4>1. CASE k \in 1 .. n  BY <3>2, <3>4, <3>5, <4>1
      <4>2. CASE k = n + 1
        <5>1. k - 1 = n  BY <3>1, <4>2
        <5> QED  BY <3>2, <3>3, <3>5, <4>2, <5>1
      <4> QED  BY <3>1, <4>1, <4>2
    <3>7. \A k, l \in 1 .. n + 1 : (k < l /\ l <= max_sessions) =>
              ~(userarray'[k - 1].i = 0 /\ userarray'[l - 1] = userarray'[k - 1])
      <4> SUFFICES ASSUME NEW k \in 1 .. n + 1, NEW l \in 1 .. n + 1, k < l,
                          l <= max_sessions, userarray'[k - 1].i = 0,
                          userarray'[l - 1] = userarray'[k - 1]
                   PROVE  FALSE
        OBVIOUS
      <4>1. k \in 1 .. n /\ userarray'[k - 1] = userarray[k - 1] /\ k - 1 \in Indices
        BY <3>1, <3>3
      <4>2. CASE l \in 1 .. n
        <5>1. userarray'[l - 1] = userarray[l - 1]  BY <3>3, <4>2
        <5> QED  BY <1>1, <2>3, <4>1, <4>2, <5>1 DEF EntriesInv, n
      <4>3. CASE l = n + 1
        <5>1. l - 1 = n  BY <3>1, <4>3
        <5>2. userarray[k - 1] = EntryOf(buffer)  BY <3>3, <4>1, <5>1
        <5>3. EntryOf(buffer).i = 0  BY <4>1, <5>2
        <5>4. buffer.code = "publisher"  BY <5>3 DEF EntryOf
        <5>5. userarray[k - 1] = [boxname |-> buffer.box, i |-> 0]
          BY <5>2, <5>4 DEF EntryOf
        <5>6. k - 1 \in 0 .. max_sessions - 1
          <6>1. max_sessions \in Nat  BY <1>1, QueueFacts
          <6> QED  BY <3>1, <4>1, <6>1
        <5> QED  BY <1>3, <4>1, <5>4, <5>5, <5>6 DEF Refused, AlreadyPublished
      <4> QED  BY <3>1, <4>2, <4>3
    <3>8. \A w \in Workers : ShowsEntry(w)'
      <4> SUFFICES ASSUME NEW w \in Workers PROVE ShowsEntry(w)'  OBVIOUS
      <4>1. ShowsEntry(w)  BY <1>1, <2>3 DEF EntriesInv
      <4>2. result[w] # Junk => userarray'[Number(w) - 1] = userarray[Number(w) - 1]
        BY <3>3, NumberRange DEF n
      <4>3. Number(w)' = Number(w)  BY <2>1 DEF Number
      <4> QED  BY <1>3, <2>1, <4>1, <4>2, <4>3 DEF ShowsEntry
    <3>9. sessions' + (IF main' = "enqueue" THEN 1 ELSE 0) = Len(registered')
      BY <1>3, <3>1, <3>2
    <3> QED  BY <1>3, <3>2, <3>6, <3>7, <3>8, <3>9 DEF EntriesInv
  <2> QED  BY <2>2, <2>3
<1> QED  BY <1>2, <1>3, SameQueue DEF Register, ProcessEnds, EntryOf

\* Main's other steps: without a new entry, and with a box removed perhaps.
LEMMA MainEntries ==
    ASSUME PInv, \/ Registered \/ create_box \/ remove_box \/ list_boxes \/ Unknown
                 \/ Answer \/ Enqueue
    PROVE  EntriesInv'
<1>1. EntriesInv /\ BInv  BY DEF PInv
<1>2. CASE Registered
  BY <1>1, <1>2, EntriesKept DEF Registered, NextEntry, queue
<1>3. CASE create_box \/ list_boxes \/ Unknown \/ Answer
  BY <1>1, <1>3, EntriesKept
  DEF create_box, list_boxes, Unknown, Answer, SendAnswer, SendList, Answered,
      ProcessEnds, queue, tables
<1>4. CASE remove_box
  <2>1. CASE removed'  BY <2>1 DEF EntriesInv
  <2>2. CASE ~removed'
    BY <1>1, <1>4, <2>2, EntriesKept DEF remove_box, queue
  <2> QED  BY <2>1, <2>2
<1>5. CASE Enqueue
  <2>1. result' = result  BY <1>1, <1>5, MainMoves DEF BInv
  <2> QED  BY <1>1, <1>5, <2>1, EntriesKept DEF Enqueue, tables
<1> QED  BY <1>2, <1>3, <1>4, <1>5

\* A worker's steps: what it copies from the buffer, when that is its own
\* request, is what main entered for the request's number.
LEMMA WorkerEntries ==
    ASSUME PInv, NEW w \in Workers, WorkerStep(w) PROVE EntriesInv'
<1>1. EntriesInv /\ BInv  BY DEF PInv
<1>2. UNCHANGED <<main, buffer, tables>>
      /\ \A v \in Workers \ {w} : worker'[v] = worker[v] /\ result'[v] = result[v]
  <2>1. worker \in [Workers -> Workings]  BY <1>1 DEF BInv, TablesTyped
  <2>2. result \in [Workers -> QP!Elements \cup {Junk}]  BY <1>1, QueueFacts
  <2>3. CASE CallDequeue(w)
    <3>1. result' = result  BY <2>3, SameQueue DEF CallDequeue, QP!Call
    <3> QED  BY <2>1, <2>3, <3>1 DEF CallDequeue
  <2>4. CASE Dequeue(w)
    BY <1>1, <2>1, <2>2, <2>4, WorkerMoves DEF BInv, Dequeue
  <2>5. CASE CopyCode(w)  BY <1>1, <2>5, CopyCodeStep DEF queue
  <2>6. CASE CopyBox(w)  BY <1>1, <2>6, CopyBoxStep DEF queue
  <2> QED  BY <2>3, <2>4, <2>5, <2>6 DEF WorkerStep
<1>3. CASE removed  BY <1>2, <1>3 DEF EntriesInv, tables
<1>4. CASE ~removed
  <2>1. \A v \in Workers : ShowsEntry(v)  BY <1>1, <1>4 DEF EntriesInv
  <2>2. \A v \in Workers \ {w} : ShowsEntry(v)'
    BY <1>2, <2>1 DEF ShowsEntry, Number, tables
  <2>3. ShowsEntry(w)'
    <3>1. CASE CallDequeue(w) \/ Dequeue(w)
      <4>1. worker'[w].at \in {"dequeue", "copy"}
        BY <1>1, <3>1 DEF CallDequeue, Dequeue, BInv, TablesTyped, Workings
      <4> QED  BY <4>1 DEF ShowsEntry
    <3>2. ASSUME IsOwn(w, buffer)
          PROVE  /\ result[w] # Junk
                 /\ userarray[Number(w) - 1] = EntryOf(buffer)
      <4>1. result[w] # Junk /\ registered[Number(w)] = buffer.id
        BY <3>2 DEF IsOwn, Number
      <4> QED  BY <1>1, <1>4, <4>1, NumberRange DEF EntriesInv
    <3>3. CASE CopyCode(w)
      <4>1. /\ worker'[w].at = "parse" /\ UNCHANGED <<userarray, result>>
            /\ worker'[w].own =>
                   /\ IsOwn(w, buffer)
                   /\ worker'[w].publisher => buffer.code = "publisher"
        BY <1>1, <3>3, CopyCodeStep DEF queue, tables
      <4> QED  BY <3>2, <4>1 DEF ShowsEntry, Number, EntryOf
    <3>4. CASE CopyBox(w)
      <4>1. /\ worker[w].at = "parse" /\ UNCHANGED <<userarray, result>>
            /\ worker'[w].at # "parse"
            /\ worker'[w].publisher = worker[w].publisher
            /\ worker'[w].own => /\ worker[w].own /\ IsOwn(w, buffer)
                                 /\ worker'[w].box = buffer.box
        BY <1>1, <3>4, CopyBoxStep DEF queue, tables
      <4>2. SUFFICES ASSUME worker'[w].own, worker'[w].at = "publish",
                            worker'[w].publisher
                     PROVE  /\ result[w] # Junk
                            /\ userarray[Number(w) - 1] =
                                   [boxname |-> worker'[w].box, i |-> 0]
        BY <3>2, <4>1 DEF ShowsEntry, Number
      <4>3. /\ result[w] # Junk /\ userarray[Number(w) - 1] = EntryOf(buffer)
            /\ userarray[Number(w) - 1].i = 0
        BY <2>1, <3>2, <4>1, <4>2 DEF ShowsEntry
      <4>4. EntryOf(buffer) = [boxname |-> buffer.box, i |-> 0]
        BY <4>3 DEF EntryOf
      <4> QED  BY <4>1, <4>2, <4>3, <4>4
    <3> QED  BY <3>1, <3>3, <3>4 DEF WorkerStep
  <2> QED  BY <1>1, <1>2, <1>4, <2>2, <2>3 DEF EntriesInv, EntryOf, tables
<1> QED  BY <1>3, <1>4

LEMMA NextPInv == PInv /\ [Next]_vars => PInv'
<1> SUFFICES ASSUME PInv, [Next]_vars PROVE PInv'  OBVIOUS
<1>1. BInv' /\ NumbersDistinct'  BY NextBInv, NextNumbers DEF PInv
<1>2. CASE UNCHANGED vars
  <2>1. EntriesInv'
    BY <1>2, EntriesKept DEF PInv, vars, tables, queue
  <2> QED  BY <1>1, <2>1 DEF PInv
<1>3. CASE Receive  BY <1>1, <1>3, ReceiveEntries DEF PInv
<1>4. CASE Serve
  BY <1>1, <1>4, RegisterEntries, MainEntries DEF PInv, Serve
<1>5. CASE Enqueue \/ Answer  BY <1>1, <1>5, MainEntries DEF PInv
<1>6. ASSUME NEW w \in Workers, WorkerStep(w) PROVE PInv'
  BY <1>1, <1>6, WorkerEntries DEF PInv
<1> QED  BY <1>2, <1>3, <1>4, <1>5, <1>6 DEF Next

\* Two workers that serve their own registrations, both among the first
\* max_sessions, publish to different boxes as long as no box is removed:
\* register_publisher searches userarray before it enters a publisher, the queue
\* gives each registration to one worker, and what a worker copied late is
\* compared with what was entered for it.
THEOREM PublishersHaveCause == Spec => []TwoPublishersHaveCause
<1>1. PInv => TwoPublishersHaveCause
  <2> SUFFICES ASSUME PInv, NEW w \in Workers, NEW v \in Workers, w # v,
                      worker[w].at = "publish", worker[v].at = "publish",
                      worker[w].box = worker[v].box,
                      ~Deceived(w), ~Deceived(v), ~Misread(w), ~Misread(v),
                      ~Unsearched(w), ~Unsearched(v), ~removed
               PROVE  FALSE
    BY DEF TwoPublishersHaveCause
  <2>1. BInv /\ NumbersDistinct /\ EntriesInv  BY DEF PInv
  <2> DEFINE entry == [boxname |-> worker[w].box, i |-> 0]
  <2>2. /\ result[w] # Junk /\ userarray[Number(w) - 1] = entry
        /\ result[v] # Junk /\ userarray[Number(v) - 1] = entry
    BY <2>1 DEF EntriesInv, ShowsEntry, Deceived, Misread
  <2>3. entry.i = 0  OBVIOUS
  <2> HIDE DEF entry
  <2>4. /\ Number(w) \in 1 .. Len(registered) /\ Number(v) \in 1 .. Len(registered)
        /\ Number(w) \in Int /\ Number(v) \in Int
    BY <2>2, NumberRange
  <2>5. Number(w) <= max_sessions /\ Number(v) <= max_sessions
    BY <2>1, <2>2, <2>4, QueueFacts DEF Unsearched, Number
  <2>6. Number(w) < Number(v) \/ Number(v) < Number(w)
    <3>1. Number(w) # Number(v)  BY <2>1, <2>2 DEF NumbersDistinct
    <3> QED  BY <2>4, <3>1
  <2>7. \A k, l \in 1 .. Len(registered) : (k < l /\ l <= max_sessions) =>
            ~(userarray[k - 1].i = 0 /\ userarray[l - 1] = userarray[k - 1])
    BY <2>1 DEF EntriesInv
  <2> QED  BY <2>2, <2>3, <2>4, <2>5, <2>6, <2>7
<1> QED  BY InitPInv, NextPInv, <1>1, PTL DEF Spec

-----------------------------------------------------------------------------
(* Who can come to sleep inside the queue *)

\* The size of the queue never reaches the width of its size_t, from either
\* side: 2^64 is more than all requests, and than twice the workers.
Width == MaxRequests < SizeModulus /\ 2 * max_sessions < SizeModulus

\* No worker gets beyond the test of g_value without going on, because g_value
\* stays below 1 until max_sessions elements have been enqueued; and the first
\* element leaves a token behind that main finds when it waits for room before
\* any worker has dequeued.
HangInv ==
    /\ \A w \in Workers : /\ pc[w] \notin {"asleep", "woken"}
                          /\ pc[w] = "test" => QP!IsEmpty
    /\ pc[Main] \in {"test", "asleep", "woken"} => QP!IsFull
    /\ pushes < max_sessions => g_value <= 0
    /\ (/\ pops = 0 /\ (pushes > 0 \/ pc[Main] = "move")
        /\ \A w \in Workers : pc[w] # "move") => g_value < 0

\* Within that width the size says whether the queue is empty or full, although
\* dequeues from an empty queue may run ahead of the enqueues.
LEMMA SizeIs ==
    ASSUME Width, BInv
    PROVE  /\ QP!IsEmpty <=> pushes = pops
           /\ QP!IsFull <=> pushes - pops = max_sessions
<1> DEFINE d == pushes - pops
<1>1. /\ pushes \in Nat /\ pops \in Nat /\ pops <= max_sessions
      /\ max_sessions \in Nat \ {0} /\ SizeModulus \in Nat \ {0}
      /\ pushes <= MaxRequests /\ MaxRequests \in Nat
      /\ pcq_current_size = d % SizeModulus
  <2>1. pops <= max_sessions
    <3>1. Served \in SUBSET Workers  BY DEF Served
    <3> QED
      BY <3>1, BrokerAssumption, FS_Subset, FS_CardinalityType
      DEF BInv, WorkerCounts, max_sessions
  <2>2. /\ pushes \in Nat /\ pops \in Nat /\ max_sessions \in Nat \ {0}
        /\ calls[Main] \in 0 .. MaxRequests
    BY QueueFacts
  <2>3. MaxRequests \in Nat /\ SizeModulus \in Nat \ {0}
    BY <2>2, BrokerAssumption
  <2>4. pushes <= calls[Main]  BY <2>2 DEF BInv, MainCounts
  <2>5. pcq_current_size = d % SizeModulus
    BY DEF BInv, QP!IInv, QP!RingArithmetic
  <2> QED  BY <2>1, <2>2, <2>3, <2>4, <2>5
<1>2. d \in Int /\ d <= MaxRequests /\ -max_sessions <= d  BY <1>1
<1>3. /\ QP!IsEmpty <=> pcq_current_size = 0
      /\ QP!IsFull <=> pcq_current_size = max_sessions
      /\ pushes = pops <=> d = 0
  BY <1>1 DEF QP!IsEmpty, QP!IsFull
<1> HIDE DEF d
<1>4. CASE d >= 0
  <2>1. d \in 0 .. SizeModulus - 1  BY <1>1, <1>2, <1>4 DEF Width
  <2>2. d % SizeModulus = d  BY <1>1, <2>1, ModSmall, Zenon
  <2> QED  BY <1>1, <1>3, <2>2 DEF d
<1>5. CASE d < 0
  <2> DEFINE r == d + SizeModulus
  <2>1. r \in 0 .. SizeModulus - 1 /\ r > max_sessions
    BY <1>1, <1>2, <1>5 DEF Width
  <2>2. SizeModulus * (-1) + r = d /\ -1 \in Int  BY <1>1, <1>2
  <2> HIDE DEF r
  <2>3. (SizeModulus * (-1) + r) % SizeModulus = r
    BY <1>1, <2>1, <2>2, ModUnique, Zenon
  <2>4. pcq_current_size = r  BY <1>1, <2>2, <2>3
  <2> QED  BY <1>1, <1>2, <1>3, <1>5, <2>1, <2>4 DEF d
<1> QED  BY <1>2, <1>4, <1>5

\* While one thread is past the size lock, every other is outside or waits for
\* that lock.
LEMMA Alone ==
    ASSUME BInv, NEW t \in Workers \cup {Main}, pc[t] \notin {"idle", "lock_size"}
    PROVE  \A u \in (Workers \cup {Main}) \ {t} : pc[u] \in {"idle", "lock_size"}
BY DEF BInv, QP!IInv, QP!LockDiscipline, QP!Threads

LEMMA GotoIs ==
    ASSUME BInv, NEW t \in Workers \cup {Main}, NEW label, QP!Goto(t, label)
    PROVE  /\ pc'[t] = label
           /\ \A u \in (Workers \cup {Main}) \ {t} : pc'[u] = pc[u]
BY DEF BInv, QP!IInv, QP!TypeOK, QP!Threads, QP!Goto

\* A step inside a call that only moves the thread.
LEMMA MovesKeepHang ==
    ASSUME BInv, HangInv, NEW t \in Workers \cup {Main}, NEW label,
           label \in {"lock_size", "lock_end", "check"}, pc[t] # "move",
           QP!Goto(t, label), UNCHANGED <<pcq_current_size, g_value, pushes, pops>>
    PROVE  HangInv'
<1>1. /\ pc'[t] = label
      /\ \A u \in (Workers \cup {Main}) \ {t} : pc'[u] = pc[u]
  BY GotoIs
<1> QED  BY <1>1 DEF HangInv, QP!IsEmpty, QP!IsFull

LEMMA MainKeepsHang ==
    ASSUME Width, BInv, HangInv, QP!Step(Main) \/ QP!SpuriousWake(Main)
    PROVE  HangInv'
<1> USE DEF QP!queue, QP!locks
<1>1. Main \in Workers \cup {Main} /\ Main \notin Workers  BY BrokerAssumption
<1>2. /\ pushes \in Nat /\ pops \in Nat /\ max_sessions \in Nat \ {0} /\ g_value \in Int
  BY QueueFacts DEF BInv, QP!IInv, QP!TypeOK
<1>3. CASE QP!LockSize(Main)
  BY <1>1, <1>3, MovesKeepHang DEF QP!LockSize
<1>4. CASE QP!EnqLockTail(Main)
  BY <1>1, <1>4, MovesKeepHang DEF QP!EnqLockTail
<1>5. CASE QP!EnqLockPusher(Main) \/ QP!SpuriousWake(Main)
  <2>1. /\ pc'[Main] \in {"test", "woken"} /\ pc[Main] # "move"
        /\ \A u \in Workers : pc'[u] = pc[u]
        /\ UNCHANGED <<pcq_current_size, g_value, pushes, pops>>
    BY <1>1, <1>5, GotoIs DEF QP!EnqLockPusher, QP!SpuriousWake
  <2>2. QP!IsFull
    BY <1>5 DEF HangInv, QP!EnqLockPusher, QP!SpuriousWake
  <2> QED  BY <2>1, <2>2 DEF HangInv, QP!IsEmpty, QP!IsFull
<1>6. CASE QP!EnqTest(Main)
  <2>1. /\ pc[Main] = "test" /\ pc'[Main] \in {"asleep", "move"}
        /\ \A u \in Workers : pc'[u] = pc[u]
        /\ UNCHANGED <<pcq_current_size, g_value, pushes, pops>>
    BY <1>1, <1>6, GotoIs DEF QP!EnqTest
  <2>2. QP!IsFull  BY <2>1 DEF HangInv
  <2>3. pops = 0 => pushes > 0  BY <1>2, <2>2, SizeIs
  <2> QED  BY <1>2, <2>1, <2>2, <2>3 DEF HangInv, QP!IsEmpty, QP!IsFull
<1>7. CASE QP!EnqNotFull(Main)
  <2>1. pc[Main] = "check" /\ UNCHANGED <<pcq_current_size, pushes, pops>>
    BY <1>7 DEF QP!EnqNotFull
  <2>2. QP!Asleep(Workers) = {}  BY DEF HangInv, QP!Asleep
  <2>3. /\ QP!Goto(Main, "move")
        /\ IF QP!IsEmpty THEN g_value' = g_value - 1 ELSE g_value' = g_value
    BY <1>7, <2>2 DEF QP!EnqNotFull, QP!SignalAndGoto
  <2>4. pc'[Main] = "move" /\ \A u \in Workers : pc'[u] = pc[u]
    BY <1>1, <2>3, GotoIs
  <2>5. \A w \in Workers : pc[w] # "move"
    BY <1>1, <2>1, Alone
  <2>6. pops = 0 => g_value' < 0
    <3>1. CASE pushes = 0
      BY <1>2, <2>3, <3>1, SizeIs DEF HangInv
    <3>2. CASE pushes > 0
      BY <1>2, <2>3, <2>5, <3>2 DEF HangInv
    <3> QED  BY <1>2, <3>1, <3>2
  <2>7. g_value' <= g_value  BY <1>2, <2>3
  <2>8. g_value' \in Int  BY <1>2, <2>3
  <2> QED  BY <1>2, <2>1, <2>4, <2>6, <2>7, <2>8 DEF HangInv, QP!IsEmpty, QP!IsFull
<1>8. CASE QP!EnqStore(Main)
  <2>1. /\ pc[Main] = "move" /\ pushes' = pushes + 1 /\ QP!Goto(Main, "idle")
        /\ UNCHANGED <<g_value, pops>>
    BY <1>8 DEF QP!EnqStore
  <2>2. pc'[Main] = "idle" /\ \A u \in Workers : pc'[u] = pc[u]
    BY <1>1, <2>1, GotoIs
  <2>3. \A w \in Workers : pc[w] \in {"idle", "lock_size"}
    BY <1>1, <2>1, Alone
  <2> QED  BY <1>2, <2>1, <2>2, <2>3 DEF HangInv
<1> QED
  BY <1>1, <1>3, <1>4, <1>5, <1>6, <1>7, <1>8 DEF QP!Step, QP!pcq_enqueue

LEMMA WorkerKeepsHang ==
    ASSUME Width, BInv, HangInv, NEW w \in Workers, w \notin Served,
           QP!Step(w) \/ QP!SpuriousWake(w)
    PROVE  HangInv'
<1> USE DEF QP!queue, QP!locks
<1>1. w \in Workers \cup {Main} /\ w # Main /\ w \notin {Main}  BY BrokerAssumption
<1>2. /\ pushes \in Nat /\ pops \in Nat /\ max_sessions \in Nat \ {0} /\ g_value \in Int
  BY QueueFacts DEF BInv, QP!IInv, QP!TypeOK
<1>3. CASE QP!LockSize(w)
  BY <1>1, <1>3, MovesKeepHang DEF QP!LockSize
<1>4. CASE QP!DeqLockHead(w)
  BY <1>1, <1>4, MovesKeepHang DEF QP!DeqLockHead
<1>5. CASE QP!DeqLockPopper(w)
  <2>1. /\ pc[w] = "check" /\ QP!IsEmpty /\ QP!Goto(w, "test")
        /\ UNCHANGED <<pcq_current_size, g_value, pushes, pops>>
    BY <1>5 DEF QP!DeqLockPopper, HangInv
  <2>2. /\ pc'[w] = "test"
        /\ \A u \in (Workers \cup {Main}) \ {w} : pc'[u] = pc[u]
    BY <1>1, <2>1, GotoIs
  <2> QED  BY <1>1, <2>1, <2>2 DEF HangInv, QP!IsEmpty, QP!IsFull
<1>6. CASE QP!DeqTest(w)
  <2>1. /\ pc[w] = "test" /\ UNCHANGED <<pcq_current_size, g_value, pushes, pops>>
        /\ QP!Goto(w, IF QP!DequeueMustSleep THEN "asleep" ELSE "move")
    BY <1>6 DEF QP!DeqTest
  <2>2. pops < max_sessions  BY SomeUnserved DEF BInv, WorkerCounts
  <2>3. pushes = pops  BY <2>1, SizeIs DEF HangInv
  <2>4. g_value # 1  BY <1>2, <2>2, <2>3 DEF HangInv
  <2>5. /\ pc'[w] = "move"
        /\ \A u \in (Workers \cup {Main}) \ {w} : pc'[u] = pc[u]
    BY <1>1, <2>1, <2>4, GotoIs DEF QP!DequeueMustSleep
  <2> QED  BY <1>1, <2>1, <2>5 DEF HangInv, QP!IsEmpty, QP!IsFull
<1>7. CASE QP!DeqNotEmpty(w)
  <2>1. pc[w] = "check" /\ UNCHANGED <<pcq_current_size, pushes, pops>>
    BY <1>7 DEF QP!DeqNotEmpty
  <2>2. QP!Asleep({Main}) = {}
    <3>1. pc[Main] # "asleep"  BY <1>1, <2>1, Alone
    <3> QED  BY <3>1 DEF QP!Asleep
  <2>3. /\ QP!Goto(w, "move")
        /\ IF QP!IsFull THEN g_value' = g_value + 1 ELSE g_value' = g_value
    BY <1>7, <2>2 DEF QP!DeqNotEmpty, QP!SignalAndGoto
  <2>4. /\ pc'[w] = "move"
        /\ \A u \in (Workers \cup {Main}) \ {w} : pc'[u] = pc[u]
    BY <1>1, <2>3, GotoIs
  <2>5. pushes < max_sessions => g_value' <= 0
    <3>1. pushes < max_sessions => ~QP!IsFull  BY <1>2, SizeIs
    <3> QED  BY <2>3, <3>1 DEF HangInv
  <2> QED  BY <1>1, <2>1, <2>4, <2>5 DEF HangInv, QP!IsEmpty, QP!IsFull
<1>8. CASE QP!DeqTake(w)
  <2>1. /\ pc[w] = "move" /\ pops' = pops + 1 /\ QP!Goto(w, "idle")
        /\ UNCHANGED <<g_value, pushes>>
    BY <1>8 DEF QP!DeqTake
  <2>2. /\ pc'[w] = "idle"
        /\ \A u \in (Workers \cup {Main}) \ {w} : pc'[u] = pc[u]
    BY <1>1, <2>1, GotoIs
  <2>3. \A u \in (Workers \cup {Main}) \ {w} : pc[u] \in {"idle", "lock_size"}
    BY <1>1, <2>1, Alone
  <2> QED  BY <1>1, <1>2, <2>1, <2>2, <2>3 DEF HangInv
<1>9. CASE QP!SpuriousWake(w)  BY <1>9 DEF QP!SpuriousWake, HangInv
<1> QED
  BY <1>1, <1>3, <1>4, <1>5, <1>6, <1>7, <1>8, <1>9 DEF QP!Step, QP!pcq_dequeue

LEMMA NextHang ==
    ASSUME Width, BInv, HangInv, [Next]_vars PROVE HangInv'
<1>1. CASE UNCHANGED queue
  BY <1>1 DEF queue, HangInv, QP!IsEmpty, QP!IsFull
<1>2. ASSUME NEW t \in Workers \cup {Main}, QP!Call(t) PROVE HangInv'
  BY <1>2, MovesKeepHang DEF QP!Call, QP!queue
<1>3. ASSUME NEW w \in Workers, Dequeue(w), QP!Step(w) \/ QP!SpuriousWake(w)
      PROVE  HangInv'
  <2>1. w \notin Served  BY <1>3 DEF Dequeue, Served
  <2> QED  BY <1>3, <2>1, WorkerKeepsHang
<1>4. CASE Next
  BY <1>1, <1>2, <1>3, <1>4, QueueUse, MainKeepsHang
<1> QED  BY <1>1, <1>4 DEF vars

LEMMA InitHang == Init => HangInv
<1> SUFFICES ASSUME Init PROVE HangInv  OBVIOUS
<1>1. QP!Init  BY SameQueue DEF Init
<1>2. pc = [t \in QP!Threads |-> "idle"] /\ g_value = 0 /\ pushes = 0
  BY <1>1 DEF QP!Init
<1>3. Main \in QP!Threads /\ Workers \subseteq QP!Threads  BY DEF QP!Threads
<1> QED  BY <1>2, <1>3 DEF HangInv

\* No worker ever sleeps inside pcq_dequeue, and main can wait for room inside
\* pcq_enqueue only when a worker has dequeued and more than max_sessions
\* registrations have come, as long as the size does not wrap round.
THEOREM OnlyMainSleeps ==
    ASSUME Width PROVE Spec => []OnlyMainHangs
<1>1. BInv /\ HangInv => OnlyMainHangs
  <2> SUFFICES ASSUME BInv, HangInv PROVE OnlyMainHangs  OBVIOUS
  <2>1. \A w \in Workers : pc[w] # "asleep"  BY DEF HangInv
  <2>2. ASSUME MainStuck PROVE pops > 0 /\ pushes > max_sessions
    <3>1. /\ pc[Main] \in {"check", "test", "asleep", "woken"} /\ g_value = 0
          /\ QP!IsFull
      BY <2>2, SameQueue DEF MainStuck, Waits
    <3>2. /\ pushes \in Nat /\ pops \in Nat /\ max_sessions \in Nat \ {0}
          /\ pushes - pops = max_sessions
      BY <3>1, SizeIs, QueueFacts
    <3>3. \A w \in Workers : pc[w] # "move"
      <4>1. Main \in Workers \cup {Main} /\ Main \notin Workers  BY BrokerAssumption
      <4> QED  BY <3>1, <4>1, Alone
    <3>4. pops # 0  BY <3>1, <3>2, <3>3 DEF HangInv
    <3> QED  BY <3>2, <3>4
  <2> QED  BY <2>1, <2>2 DEF OnlyMainHangs
<1>2. BInv /\ HangInv /\ [Next]_vars => BInv' /\ HangInv'
  BY NextBInv, NextHang
<1> QED  BY InitBInv, InitHang, <1>1, <1>2, PTL DEF Spec

=============================================================================
