---------------------------- MODULE PcQueue_proofs ----------------------------
(***************************************************************************)
(* TLAPS proofs about PcQueue, for any number of threads and any capacity: *)
(* the locks exclude, the ring's indices and size count the operations, a  *)
(* queue in which a thread waits stays as it is for ever, and for callers  *)
(* that reserve the ring is a bounded first-in first-out queue.            *)
(***************************************************************************)
EXTENDS PcQueue, TableLemmas, SequenceTheorems

\* A condition variable has no sleeper while another thread is past the size
\* lock, so a signal wakes nobody (pthread_cond_signal in both operations).
LEMMA SignalWakesNobody ==
    ASSUME TypeOK, LockDiscipline, NEW t \in Threads, pc[t] = "check",
           NEW S \in SUBSET Threads
    PROVE  Asleep(S) = {}
<1>1. size_lock = t  BY DEF LockDiscipline
<1>2. \A s \in Threads : pc[s] = "asleep" => s = t  BY <1>1 DEF LockDiscipline
<1> QED  BY <1>2 DEF Asleep

LEMMA InitInv == Init => IInv
<1> SUFFICES ASSUME Init PROVE IInv  OBVIOUS
<1> USE QueueAssumption DEF Init, InitialTail
<1>1. TypeOK  BY DEF TypeOK, Slots, Labels
<1>2. LockDiscipline  BY DEF LockDiscipline, Threads
<1>3. RingArithmetic
  <2>1. 0 % Capacity = 0 /\ (Capacity - 1) % Capacity = Capacity - 1
        /\ 0 % SizeModulus = 0
    OBVIOUS
  <2> QED  BY <2>1 DEF RingArithmetic
<1>4. CallsStarted  BY DEF CallsStarted
<1> QED  BY <1>1, <1>2, <1>3, <1>4 DEF IInv

\* Steps that move one thread and take or release locks leave the ring alone.
LEMMA QueueKept ==
    ASSUME RingArithmetic,
           UNCHANGED <<pcq_head, pcq_tail, pcq_current_size, pushes, pops>>
    PROVE  RingArithmetic'
BY DEF RingArithmetic

LEMMA CallInv == ASSUME IInv, NEW t \in Threads, Call(t), UNCHANGED reserving
                PROVE  IInv'
<1> USE DEF Call, Goto, IInv, queue, locks
<1>1. calls[t] + 1 \in 0 .. MaxCalls  BY QueueAssumption DEF TypeOK
<1>2. TypeOK'  BY <1>1 DEF TypeOK, Labels
<1>3. LockDiscipline'  BY DEF TypeOK, LockDiscipline, Threads
<1>4. CallsStarted'  BY DEF TypeOK, CallsStarted
<1> QED  BY <1>2, <1>3, <1>4, QueueKept

LEMMA LockSizeInv == ASSUME IInv, NEW t \in Threads, LockSize(t), UNCHANGED reserving
                PROVE  IInv'
<1> USE DEF LockSize, SizeLockFree, Goto, IInv, queue
<1>1. TypeOK'  BY DEF TypeOK, Labels
<1>2. LockDiscipline'  BY QueueAssumption DEF TypeOK, LockDiscipline, Threads
<1>3. CallsStarted'  BY DEF TypeOK, CallsStarted
<1> QED  BY <1>1, <1>2, <1>3, QueueKept

LEMMA SpuriousWakeInv == ASSUME IInv, NEW t \in Threads, SpuriousWake(t), UNCHANGED reserving
                PROVE  IInv'
<1> USE DEF SpuriousWake, Goto, IInv, queue, locks
<1>1. TypeOK'  BY DEF TypeOK, Labels
<1>2. LockDiscipline'  BY DEF TypeOK, LockDiscipline, Threads
<1>3. CallsStarted'  BY DEF TypeOK, CallsStarted
<1> QED  BY <1>1, <1>2, <1>3, QueueKept

LEMMA EnqueueInv == ASSUME IInv, NEW p \in Producers, pcq_enqueue(p), UNCHANGED reserving
                PROVE  IInv'
<1> USE QueueAssumption DEF Goto, IInv
<1>1. CASE EnqLockTail(p)
  <2>1. TypeOK'  BY <1>1 DEF EnqLockTail, TypeOK, Labels, Threads, queue
  <2>2. LockDiscipline'
    BY <1>1 DEF EnqLockTail, TypeOK, LockDiscipline, Threads, queue
  <2>3. CallsStarted'  BY <1>1 DEF EnqLockTail, TypeOK, CallsStarted, Threads
  <2> QED  BY <1>1, <2>1, <2>2, <2>3, QueueKept DEF EnqLockTail, queue
<1>2. CASE EnqLockPusher(p)
  <2>1. TypeOK'  BY <1>2 DEF EnqLockPusher, TypeOK, Labels, Threads, queue
  <2>2. LockDiscipline'
    BY <1>2 DEF EnqLockPusher, TypeOK, LockDiscipline, Threads, queue
  <2>3. CallsStarted'  BY <1>2 DEF EnqLockPusher, TypeOK, CallsStarted, Threads
  <2> QED  BY <1>2, <2>1, <2>2, <2>3, QueueKept DEF EnqLockPusher, queue
<1>3. CASE EnqTest(p)
  <2>1. TypeOK'  BY <1>3 DEF EnqTest, TypeOK, Labels, Threads, queue
  <2>2. LockDiscipline'
    BY <1>3 DEF EnqTest, TypeOK, LockDiscipline, Threads, queue
  <2>3. CallsStarted'  BY <1>3 DEF EnqTest, TypeOK, CallsStarted, Threads
  <2> QED  BY <1>3, <2>1, <2>2, <2>3, QueueKept DEF EnqTest, queue
<1>4. CASE EnqNotFull(p)
  <2>1. pc' = [pc EXCEPT ![p] = "move"] /\ g_value' \in Int
    BY <1>4, SignalWakesNobody DEF EnqNotFull, SignalAndGoto, TypeOK, Threads
  <2>2. TypeOK'  BY <1>4, <2>1 DEF EnqNotFull, TypeOK, Labels, Threads, locks
  <2>3. LockDiscipline'
    BY <1>4, <2>1 DEF EnqNotFull, TypeOK, LockDiscipline, Threads, locks
  <2>4. CallsStarted'  BY <1>4, <2>1 DEF EnqNotFull, TypeOK, CallsStarted, Threads
  <2> QED  BY <1>4, <2>2, <2>3, <2>4, QueueKept DEF EnqNotFull
<1>5. CASE EnqStore(p)
  <2> USE DEF EnqStore
  <2>1. Successor(pcq_tail) \in Slots  BY DEF TypeOK, Slots, Successor
  <2>2. <<p, calls[p]>> \in Elements
    <3>1. calls[p] \in 1 .. MaxCalls  BY <1>5 DEF TypeOK, CallsStarted, Threads
    <3> QED  BY <3>1 DEF Elements, Threads
  <2>3. (pcq_current_size + 1) % SizeModulus \in 0 .. SizeModulus - 1
    BY DEF TypeOK
  <2>4. TypeOK'
    BY <1>5, <2>1, <2>2, <2>3 DEF TypeOK, Labels, Threads
  <2>5. LockDiscipline'  BY <1>5 DEF TypeOK, LockDiscipline, Threads
  <2>6. RingArithmetic'
    <3> DEFINE last == pushes + Capacity - 1
               size == pushes - pops
    <3>1. last \in Int /\ size \in Int  BY DEF TypeOK
    <3>2. /\ pcq_tail' = ((last % Capacity) + 1) % Capacity
          /\ pcq_current_size' = ((size % SizeModulus) + 1) % SizeModulus
      BY <1>5 DEF RingArithmetic, Successor
    <3>3. /\ pushes' + Capacity - 1 = last + 1 /\ pushes' - pops' = size + 1
          /\ pcq_head' = pcq_head /\ pops' = pops
      BY <1>5 DEF TypeOK
    <3> HIDE DEF last, size
    <3>4. ((last % Capacity) + 1) % Capacity = (last + 1) % Capacity
      BY <3>1, ModStep
    <3>5. ((size % SizeModulus) + 1) % SizeModulus = (size + 1) % SizeModulus
      <4>1. SizeModulus \in Nat \ {0}  OBVIOUS
      <4> QED  BY <3>1, <4>1, ModStep
    <3> QED  BY <3>2, <3>3, <3>4, <3>5 DEF RingArithmetic
  <2>7. CallsStarted'  BY <1>5 DEF TypeOK, CallsStarted, Threads
  <2> QED  BY <2>4, <2>5, <2>6, <2>7
<1> QED  BY <1>1, <1>2, <1>3, <1>4, <1>5 DEF pcq_enqueue

LEMMA DequeueInv == ASSUME IInv, NEW c \in Consumers, pcq_dequeue(c), UNCHANGED reserving
                PROVE  IInv'
<1> USE QueueAssumption DEF Goto, IInv
<1>1. CASE DeqLockHead(c)
  <2>1. TypeOK'  BY <1>1 DEF DeqLockHead, TypeOK, Labels, Threads, queue
  <2>2. LockDiscipline'
    BY <1>1 DEF DeqLockHead, TypeOK, LockDiscipline, Threads, queue
  <2>3. CallsStarted'  BY <1>1 DEF DeqLockHead, TypeOK, CallsStarted, Threads
  <2> QED  BY <1>1, <2>1, <2>2, <2>3, QueueKept DEF DeqLockHead, queue
<1>2. CASE DeqLockPopper(c)
  <2>1. TypeOK'  BY <1>2 DEF DeqLockPopper, TypeOK, Labels, Threads, queue
  <2>2. LockDiscipline'
    BY <1>2 DEF DeqLockPopper, TypeOK, LockDiscipline, Threads, queue
  <2>3. CallsStarted'  BY <1>2 DEF DeqLockPopper, TypeOK, CallsStarted, Threads
  <2> QED  BY <1>2, <2>1, <2>2, <2>3, QueueKept DEF DeqLockPopper, queue
<1>3. CASE DeqTest(c)
  <2>1. TypeOK'  BY <1>3 DEF DeqTest, TypeOK, Labels, Threads, queue
  <2>2. LockDiscipline'
    BY <1>3 DEF DeqTest, TypeOK, LockDiscipline, Threads, queue
  <2>3. CallsStarted'  BY <1>3 DEF DeqTest, TypeOK, CallsStarted, Threads
  <2> QED  BY <1>3, <2>1, <2>2, <2>3, QueueKept DEF DeqTest, queue
<1>4. CASE DeqNotEmpty(c)
  <2>1. pc' = [pc EXCEPT ![c] = "move"] /\ g_value' \in Int
    BY <1>4, SignalWakesNobody DEF DeqNotEmpty, SignalAndGoto, TypeOK, Threads
  <2>2. TypeOK'  BY <1>4, <2>1 DEF DeqNotEmpty, TypeOK, Labels, Threads, locks
  <2>3. LockDiscipline'
    BY <1>4, <2>1 DEF DeqNotEmpty, TypeOK, LockDiscipline, Threads, locks
  <2>4. CallsStarted'  BY <1>4, <2>1 DEF DeqNotEmpty, TypeOK, CallsStarted, Threads
  <2> QED  BY <1>4, <2>2, <2>3, <2>4, QueueKept DEF DeqNotEmpty
<1>5. CASE DeqTake(c)
  <2> USE DEF DeqTake, UnlockHead
  <2>1. Successor(pcq_head) \in Slots  BY DEF TypeOK, Slots, Successor
  <2>2. (pcq_current_size - 1) % SizeModulus \in 0 .. SizeModulus - 1
    BY DEF TypeOK
  <2>3. TypeOK'
    BY <1>5, <2>1, <2>2 DEF TypeOK, Labels, Threads
  <2>4. LockDiscipline'  BY <1>5 DEF TypeOK, LockDiscipline, Threads
  <2>5. RingArithmetic'
    <3> DEFINE size == pushes - pops
    <3>1. pops \in Int /\ size \in Int  BY DEF TypeOK
    <3>2. /\ pcq_head' = ((pops % Capacity) + 1) % Capacity
          /\ pcq_current_size' = ((size % SizeModulus) - 1) % SizeModulus
      BY <1>5 DEF RingArithmetic, Successor
    <3>3. /\ pops' = pops + 1 /\ pushes' - pops' = size - 1
          /\ pcq_tail' = pcq_tail /\ pushes' = pushes
      BY <1>5 DEF TypeOK
    <3>4. ((pops % Capacity) + 1) % Capacity = (pops + 1) % Capacity
      BY <3>1, ModStep
    <3> HIDE DEF size
    <3>5. ((size % SizeModulus) + (-1)) % SizeModulus = (size + (-1)) % SizeModulus
      <4>1. SizeModulus \in Nat \ {0}  OBVIOUS
      <4> QED  BY <3>1, <4>1, ModStep
    <3>6. /\ (size % SizeModulus) + (-1) = (size % SizeModulus) - 1
          /\ size + (-1) = size - 1
      BY <3>1
    <3> QED  BY <3>2, <3>3, <3>4, <3>5, <3>6 DEF RingArithmetic
  <2>6. CallsStarted'  BY <1>5 DEF TypeOK, CallsStarted, Threads
  <2> QED  BY <2>3, <2>4, <2>5, <2>6
<1> QED  BY <1>1, <1>2, <1>3, <1>4, <1>5 DEF pcq_dequeue

LEMMA NextInv == IInv /\ [Next]_vars => IInv'
<1> SUFFICES ASSUME IInv, [Next]_vars PROVE IInv'  OBVIOUS
<1>1. CASE UNCHANGED vars
  BY <1>1 DEF IInv, TypeOK, LockDiscipline, RingArithmetic, CallsStarted, vars,
              queue, locks
<1>2. ASSUME NEW t \in Threads, Call(t) \/ SpuriousWake(t) \/ LockSize(t),
             UNCHANGED reserving
      PROVE  IInv'
  BY <1>2, CallInv, SpuriousWakeInv, LockSizeInv
<1>3. ASSUME NEW t \in Producers, pcq_enqueue(t), UNCHANGED reserving PROVE IInv'
  BY <1>3, EnqueueInv
<1>4. ASSUME NEW t \in Consumers, pcq_dequeue(t), UNCHANGED reserving PROVE IInv'
  BY <1>4, DequeueInv
<1> QED  BY <1>1, <1>2, <1>3, <1>4 DEF Next, Step

-----------------------------------------------------------------------------
(* The theorems *)

\* The invariant holds for any number of threads that call whenever they like.
THEOREM Invariant == Spec => []IInv
<1> QED  BY InitInv, NextInv, PTL DEF Spec

\* Indices, size, locks and places in the code stay in range, and a slot holds
\* an element or what malloc left there.
THEOREM TypeCorrect == Spec => []TypeOK
<1>1. IInv => TypeOK  BY DEF IInv
<1> QED  BY <1>1, Invariant, PTL

\* One thread at a time is past the size lock (pcq_enqueue, pcq_dequeue).
THEOREM LocksExclude == Spec => []LockDiscipline
<1>1. IInv => LockDiscipline  BY DEF IInv
<1> QED  BY <1>1, Invariant, PTL

\* Head, tail and size count the completed operations, modulo the ring and the
\* width of size_t, for every capacity.
THEOREM RingCounts == Spec => []RingArithmetic
<1>1. IInv => RingArithmetic  BY DEF IInv
<1> QED  BY <1>1, Invariant, PTL

\* A queue in which a thread waits for a token stays so for ever: the waiting
\* thread holds the size lock, so nobody can change size or g_value.
THEOREM WedgeIsPermanent == Spec => WedgedForGood
<1>1. IInv /\ [Next]_vars => [Wedged => Wedged']_vars
  <2> SUFFICES ASSUME IInv, Next, Wedged PROVE Wedged'
    OBVIOUS
  <2>1. PICK w \in Threads :
            /\ pc[w] \in {"check", "test", "asleep", "woken"}
            /\ \/ w \in Producers /\ IsFull /\ g_value = 0
               \/ w \in Consumers /\ IsEmpty /\ g_value = 1
    BY DEF Wedged, Threads
  <2>2. size_lock = w  BY <2>1 DEF IInv, LockDiscipline
  <2>3. \A t \in Threads \ {w} : pc[t] \in {"idle", "lock_size"}
    BY <2>2 DEF IInv, LockDiscipline
  <2>4. PICK t \in Threads : Call(t) \/ SpuriousWake(t) \/ Step(t)
    BY DEF Next
  <2>5. CASE t # w
    <3>1. pc[t] \in {"idle", "lock_size"}  BY <2>3, <2>5
    <3>2. Call(t)
      BY <2>2, <2>4, <3>1, QueueAssumption
      DEF SpuriousWake, Step, LockSize, SizeLockFree, pcq_enqueue, EnqLockTail,
          EnqLockPusher, EnqTest, EnqNotFull, EnqStore, pcq_dequeue, DeqLockHead,
          DeqLockPopper, DeqTest, DeqNotEmpty, DeqTake, Threads
    <3>3. pc'[w] = pc[w] /\ UNCHANGED queue
      BY <2>5, <3>2 DEF Call, Goto, IInv, TypeOK
    <3> QED  BY <2>1, <3>3 DEF Wedged, queue, IsFull, IsEmpty
  <2>6. CASE t = w
    <3>1. CASE SpuriousWake(w)
      BY <2>1, <3>1 DEF SpuriousWake, Goto, IInv, TypeOK, Wedged, queue, IsFull,
                        IsEmpty
    <3>2. CASE w \in Producers /\ IsFull /\ g_value = 0 /\ Step(w)
      <4>1. EnqLockPusher(w) \/ EnqTest(w)
        BY <2>1, <3>2, QueueAssumption
        DEF Step, LockSize, pcq_enqueue, EnqLockTail, EnqNotFull, EnqStore
      <4>2. pc'[w] \in {"test", "asleep"} /\ UNCHANGED queue
        BY <2>1, <3>2, <4>1 DEF EnqLockPusher, EnqTest, Goto, IInv, TypeOK
      <4> QED  BY <3>2, <4>2 DEF Wedged, queue, IsFull
    <3>3. CASE w \in Consumers /\ IsEmpty /\ g_value = 1 /\ Step(w)
      <4>1. DeqLockPopper(w) \/ DeqTest(w)
        BY <2>1, <3>3, QueueAssumption
        DEF Step, LockSize, pcq_dequeue, DeqLockHead, DeqNotEmpty, DeqTake
      <4>2. pc'[w] \in {"test", "asleep"} /\ UNCHANGED queue
        BY <2>1, <3>3, <4>1 DEF DeqLockPopper, DeqTest, DequeueMustSleep, Goto, IInv, TypeOK
      <4> QED  BY <3>3, <4>2 DEF Wedged, queue, IsEmpty
    <3> QED  BY <2>1, <2>4, <2>6, <3>1, <3>2, <3>3 DEF Call
  <2> QED  BY <2>5, <2>6
<1> QED  BY <1>1, Invariant, PTL DEF Spec, WedgedForGood

-----------------------------------------------------------------------------
(* Callers that reserve *)

\* What reserving achieves, and what makes it inductive: the producers at work
\* find room, the consumers at work find elements.
Reserved ==
    reserving => /\ IsFiniteSet(Busy(Producers)) /\ IsFiniteSet(Busy(Consumers))
                 /\ pushes + Cardinality(Busy(Producers)) - pops <= Capacity
                 /\ pops + Cardinality(Busy(Consumers)) <= pushes

LEMMA InitReserved == Init => Reserved
<1> SUFFICES ASSUME Init PROVE Reserved  OBVIOUS
<1>1. Busy(Producers) = {} /\ Busy(Consumers) = {}
  BY DEF Init, Busy, Threads
<1>2. IsFiniteSet({}) /\ Cardinality({}) = 0  BY FS_EmptySet
<1> QED  BY <1>1, <1>2, QueueAssumption DEF Init, Reserved

\* Steps inside a call that complete nothing.
LEMMA BusyKept ==
    ASSUME Reserved, \A t \in Threads : pc'[t] = "idle" <=> pc[t] = "idle",
           UNCHANGED <<pushes, pops, reserving>>
    PROVE  Reserved'
<1>1. Busy(Producers)' = Busy(Producers) /\ Busy(Consumers)' = Busy(Consumers)
  BY DEF Busy, Threads
<1> QED  BY <1>1 DEF Reserved

LEMMA CallReserves ==
    ASSUME IInv, Reserved, NEW t \in Threads, Call(t), UNCHANGED reserving
    PROVE  Reserved'
<1> SUFFICES ASSUME reserving PROVE Reserved'  BY DEF Reserved
<1>1. /\ pc[t] = "idle" /\ MayCall(t) /\ UNCHANGED <<pushes, pops>>
      /\ \A s \in Threads : pc'[s] = IF s = t THEN "lock_size" ELSE pc[s]
  BY DEF Call, Goto, IInv, TypeOK
<1>2. pushes \in Nat /\ pops \in Nat  BY DEF IInv, TypeOK
<1> DEFINE P == Busy(Producers)
           C == Busy(Consumers)
<1>3. /\ IsFiniteSet(P) /\ IsFiniteSet(C)
      /\ Cardinality(P) \in Nat /\ Cardinality(C) \in Nat
      /\ pushes + Cardinality(P) - pops <= Capacity
      /\ pops + Cardinality(C) <= pushes
  BY FS_CardinalityType DEF Reserved
<1>4. CASE t \in Producers
  <2>1. t \notin P /\ P' = P \cup {t} /\ C' = C
    BY <1>1, <1>4, QueueAssumption DEF Busy, Threads
  <2>2. pushes + Cardinality(P) - pops < Capacity
    BY <1>1, <1>4 DEF MayCall
  <2>3. IsFiniteSet(P \cup {t}) /\ Cardinality(P \cup {t}) = Cardinality(P) + 1
    BY <1>3, <2>1, FS_AddElement
  <2> HIDE DEF P, C
  <2>4. /\ IsFiniteSet(P') /\ IsFiniteSet(C')
        /\ pushes' + Cardinality(P') - pops' <= Capacity
        /\ pops' + Cardinality(C') <= pushes'
    BY <1>1, <1>2, <1>3, <2>1, <2>2, <2>3, QueueAssumption
  <2> QED  BY <2>4 DEF Reserved, P, C
<1>5. CASE t \notin Producers
  <2>1. t \in Consumers /\ t \notin C /\ P' = P /\ C' = C \cup {t}
    BY <1>1, <1>5 DEF Busy, Threads
  <2>2. pops + Cardinality(C) < pushes
    BY <1>1, <1>5 DEF MayCall
  <2>3. IsFiniteSet(C \cup {t}) /\ Cardinality(C \cup {t}) = Cardinality(C) + 1
    BY <1>3, <2>1, FS_AddElement
  <2> HIDE DEF P, C
  <2>4. /\ IsFiniteSet(P') /\ IsFiniteSet(C')
        /\ pushes' + Cardinality(P') - pops' <= Capacity
        /\ pops' + Cardinality(C') <= pushes'
    BY <1>1, <1>2, <1>3, <2>1, <2>2, <2>3, QueueAssumption
  <2> QED  BY <2>4 DEF Reserved, P, C
<1> QED  BY <1>4, <1>5

LEMMA StoreReserves ==
    ASSUME IInv, Reserved, NEW p \in Producers, EnqStore(p), UNCHANGED reserving
    PROVE  Reserved'
<1> SUFFICES ASSUME reserving PROVE Reserved'  BY DEF Reserved
<1>1. /\ pc[p] = "move" /\ pushes' = pushes + 1 /\ pops' = pops
      /\ \A s \in Threads : pc'[s] = IF s = p THEN "idle" ELSE pc[s]
  BY DEF EnqStore, Goto, IInv, TypeOK
<1>2. pushes \in Nat /\ pops \in Nat  BY DEF IInv, TypeOK
<1> DEFINE P == Busy(Producers)
           C == Busy(Consumers)
<1>3. p \in P /\ P' = P \ {p} /\ C' = C
  BY <1>1, QueueAssumption DEF Busy, Threads
<1>4. /\ IsFiniteSet(P) /\ IsFiniteSet(C)
      /\ Cardinality(P) \in Nat /\ Cardinality(C) \in Nat
      /\ pushes + Cardinality(P) - pops <= Capacity
      /\ pops + Cardinality(C) <= pushes
  BY FS_CardinalityType DEF Reserved
<1>5. IsFiniteSet(P \ {p}) /\ Cardinality(P \ {p}) = Cardinality(P) - 1
  BY <1>3, <1>4, FS_RemoveElement
<1> HIDE DEF P, C
<1>6. /\ IsFiniteSet(P') /\ IsFiniteSet(C')
      /\ pushes' + Cardinality(P') - pops' <= Capacity
      /\ pops' + Cardinality(C') <= pushes'
  BY <1>1, <1>2, <1>3, <1>4, <1>5, QueueAssumption
<1> QED  BY <1>6 DEF Reserved, P, C

LEMMA TakeReserves ==
    ASSUME IInv, Reserved, NEW c \in Consumers, DeqTake(c), UNCHANGED reserving
    PROVE  Reserved'
<1> SUFFICES ASSUME reserving PROVE Reserved'  BY DEF Reserved
<1>1. /\ pc[c] = "move" /\ pushes' = pushes /\ pops' = pops + 1
      /\ \A s \in Threads : pc'[s] = IF s = c THEN "idle" ELSE pc[s]
  BY DEF DeqTake, Goto, IInv, TypeOK
<1>2. pushes \in Nat /\ pops \in Nat  BY DEF IInv, TypeOK
<1> DEFINE P == Busy(Producers)
           C == Busy(Consumers)
<1>3. c \in C /\ P' = P /\ C' = C \ {c}
  BY <1>1, QueueAssumption DEF Busy, Threads
<1>4. /\ IsFiniteSet(P) /\ IsFiniteSet(C)
      /\ Cardinality(P) \in Nat /\ Cardinality(C) \in Nat
      /\ pushes + Cardinality(P) - pops <= Capacity
      /\ pops + Cardinality(C) <= pushes
  BY FS_CardinalityType DEF Reserved
<1>5. IsFiniteSet(C \ {c}) /\ Cardinality(C \ {c}) = Cardinality(C) - 1
  BY <1>3, <1>4, FS_RemoveElement
<1> HIDE DEF P, C
<1>6. /\ IsFiniteSet(P') /\ IsFiniteSet(C')
      /\ pushes' + Cardinality(P') - pops' <= Capacity
      /\ pops' + Cardinality(C') <= pushes'
  BY <1>1, <1>2, <1>3, <1>4, <1>5, QueueAssumption
<1> QED  BY <1>6 DEF Reserved, P, C

\* Every other step of a call moves one thread from one place inside its call
\* to another, and completes nothing.
Inside(t) ==
    /\ pc[t] # "idle"
    /\ \E label \in Labels \ {"idle"} : pc' = [pc EXCEPT ![t] = label]
    /\ UNCHANGED <<pcq_buffer, pcq_head, pcq_tail, pcq_current_size, calls, result,
                   pushes, pops>>

LEMMA StaysInside ==
    ASSUME IInv, NEW t \in Threads, Step(t) \/ SpuriousWake(t)
    PROVE  \/ Inside(t)
           \/ t \in Producers /\ EnqStore(t)
           \/ t \in Consumers /\ DeqTake(t)
<1>1. \A label \in {"lock_end", "check", "test", "asleep", "woken", "move"} :
          label \in Labels \ {"idle"}
  BY DEF Labels
<1>2. CASE LockSize(t) \/ SpuriousWake(t)
  BY <1>1, <1>2 DEF LockSize, SpuriousWake, Goto, queue, Inside
<1>3. CASE t \in Producers /\ pcq_enqueue(t)
  <2>1. CASE EnqNotFull(t)
    <3>1. pc' = [pc EXCEPT ![t] = "move"]
      BY <1>3, <2>1, SignalWakesNobody
      DEF EnqNotFull, SignalAndGoto, Goto, Threads, IInv
    <3> QED  BY <1>1, <2>1, <3>1 DEF EnqNotFull, Inside
  <2>2. CASE EnqLockTail(t) \/ EnqLockPusher(t)
    BY <1>1, <2>2 DEF EnqLockTail, EnqLockPusher, Goto, queue, Inside
  <2>3. CASE EnqTest(t)
    BY <1>1, <2>3 DEF EnqTest, Goto, queue, Inside
  <2> QED  BY <1>3, <2>1, <2>2, <2>3 DEF pcq_enqueue
<1>4. CASE t \in Consumers /\ pcq_dequeue(t)
  <2>1. CASE DeqNotEmpty(t)
    <3>1. pc' = [pc EXCEPT ![t] = "move"]
      BY <1>4, <2>1, SignalWakesNobody
      DEF DeqNotEmpty, SignalAndGoto, Goto, Threads, IInv
    <3> QED  BY <1>1, <2>1, <3>1 DEF DeqNotEmpty, Inside
  <2>2. CASE DeqLockHead(t) \/ DeqLockPopper(t)
    BY <1>1, <2>2 DEF DeqLockHead, DeqLockPopper, Goto, queue, Inside
  <2>3. CASE DeqTest(t)
    BY <1>1, <2>3 DEF DeqTest, Goto, queue, Inside
  <2> QED  BY <1>4, <2>1, <2>2, <2>3 DEF pcq_dequeue
<1> QED  BY <1>2, <1>3, <1>4 DEF Step

LEMMA NextReserves == IInv /\ Reserved /\ [Next]_vars => Reserved'
<1> SUFFICES ASSUME IInv, Reserved, [Next]_vars PROVE Reserved'  OBVIOUS
<1>1. CASE UNCHANGED vars  BY <1>1, BusyKept DEF vars
<1>2. ASSUME NEW t \in Threads, Call(t), UNCHANGED reserving PROVE Reserved'
  BY <1>2, CallReserves
<1>3. ASSUME NEW t \in Threads, Step(t) \/ SpuriousWake(t), UNCHANGED reserving
      PROVE  Reserved'
  <2>1. CASE Inside(t)
    <3>1. \A s \in Threads : pc'[s] = "idle" <=> pc[s] = "idle"
      BY <2>1 DEF Inside, IInv, TypeOK
    <3> QED  BY <1>3, <2>1, <3>1, BusyKept DEF Inside
  <2> QED  BY <1>3, <2>1, StaysInside, StoreReserves, TakeReserves
<1> QED  BY <1>1, <1>2, <1>3 DEF Next

-----------------------------------------------------------------------------
(* The ring implements a bounded queue *)

\* What BoundedFifo sees: the elements from head on, and the puts that returned.
Items == [k \in 1 .. pcq_current_size |->
              pcq_buffer[(pcq_head + k - 1) % Capacity]]
Sent == [p \in Producers |-> IF pc[p] = "idle" THEN calls[p] ELSE calls[p] - 1]

\* Without overflow the size is the number of elements that wait.
LEMMA SizeExact ==
    ASSUME IInv, Reserved, reserving
    PROVE  /\ pcq_current_size = pushes - pops
           /\ pcq_current_size \in 0 .. Capacity
           /\ Busy(Producers) # {} => pcq_current_size < Capacity
           /\ Busy(Consumers) # {} => pcq_current_size > 0
<1>1. pushes \in Nat /\ pops \in Nat  BY DEF IInv, TypeOK
<1>2. /\ Cardinality(Busy(Producers)) \in Nat /\ Cardinality(Busy(Consumers)) \in Nat
      /\ Busy(Producers) # {} => Cardinality(Busy(Producers)) # 0
      /\ Busy(Consumers) # {} => Cardinality(Busy(Consumers)) # 0
  BY FS_CardinalityType, FS_EmptySet DEF Reserved
<1>3. /\ pushes + Cardinality(Busy(Producers)) - pops <= Capacity
      /\ pops + Cardinality(Busy(Consumers)) <= pushes
  BY DEF Reserved
<1>4. pushes - pops \in 0 .. Capacity
  BY <1>1, <1>2, <1>3, QueueAssumption
<1>5. pcq_current_size = pushes - pops
  <2>1. pushes - pops \in 0 .. SizeModulus - 1  BY <1>4, QueueAssumption
  <2>2. SizeModulus \in Nat \ {0}  BY QueueAssumption
  <2>3. (pushes - pops) % SizeModulus = pushes - pops  BY <2>1, <2>2, ModSmall, Zenon
  <2> QED  BY <2>3 DEF IInv, RingArithmetic
<1> QED  BY <1>1, <1>2, <1>3, <1>4, <1>5, QueueAssumption

\* The k-th element that waits is in the slot of the (pops + k)-th push.
LEMMA SlotOf ==
    ASSUME IInv, NEW k \in Int
    PROVE  (pcq_head + k - 1) % Capacity = (pops + (k - 1)) % Capacity
<1>1. pops \in Int /\ k - 1 \in Int  BY DEF IInv, TypeOK
<1>2. Capacity \in Nat \ {0}  BY QueueAssumption
<1>3. ((pops % Capacity) + (k - 1)) % Capacity = (pops + (k - 1)) % Capacity
  BY <1>1, <1>2, ModAdd, Zenon
<1>4. pcq_head = pops % Capacity  BY DEF IInv, RingArithmetic
<1>5. pcq_head \in Int  BY <1>2 DEF IInv, TypeOK, Slots
<1>6. pcq_head + k - 1 = pcq_head + (k - 1)  BY <1>5
<1> QED  BY <1>3, <1>4, <1>6

LEMMA ItemsType == ASSUME IInv PROVE Items \in Seq(Elements \cup {Junk})
<1>1. \A k \in 1 .. pcq_current_size : (pcq_head + k - 1) % Capacity \in Slots
  BY QueueAssumption DEF IInv, TypeOK, Slots
<1>2. pcq_current_size \in Nat  BY QueueAssumption DEF IInv, TypeOK
<1>3. \A k \in 1 .. pcq_current_size :
          pcq_buffer[(pcq_head + k - 1) % Capacity] \in Elements \cup {Junk}
  BY <1>1 DEF IInv, TypeOK
<1> QED  BY <1>2, <1>3 DEF Items

\* An enqueue stores behind the last element and overwrites none.
LEMMA StorePuts ==
    ASSUME IInv, Reserved, reserving, NEW p \in Producers, EnqStore(p)
    PROVE  Fifo!Put(p)
<1> DEFINE s == pcq_current_size
<1>1. /\ pc[p] = "move"
      /\ pcq_tail' = Successor(pcq_tail)
      /\ pcq_buffer' = [pcq_buffer EXCEPT ![Successor(pcq_tail)] = <<p, calls[p]>>]
      /\ pcq_current_size' = (s + 1) % SizeModulus
      /\ pc' = [pc EXCEPT ![p] = "idle"]
      /\ UNCHANGED <<pcq_head, calls, result>>
  BY DEF EnqStore, Goto
<1>2. s \in 0 .. Capacity - 1 /\ s = pushes - pops
  <2>1. Busy(Producers) # {}  BY <1>1 DEF Busy
  <2> QED  BY <2>1, SizeExact, QueueAssumption
<1>3. /\ Capacity \in Nat \ {0} /\ SizeModulus \in Nat \ {0}
      /\ pushes \in Nat /\ pops \in Nat
  BY QueueAssumption DEF IInv, TypeOK
<1>4. pcq_current_size' = s + 1
  <2>1. s + 1 \in 0 .. SizeModulus - 1  BY <1>2, <1>3, QueueAssumption
  <2>2. (s + 1) % SizeModulus = s + 1  BY <1>3, <2>1, ModSmall, Zenon
  <2> QED  BY <1>1, <2>2
<1>5. Successor(pcq_tail) = (pops + s) % Capacity
  <2>1. pushes + Capacity - 1 \in Int /\ 1 \in {-1, 1}  BY <1>3
  <2>2. (((pushes + Capacity - 1) % Capacity) + 1) % Capacity
            = ((pushes + Capacity - 1) + 1) % Capacity
    BY <1>3, <2>1, ModStep, Zenon
  <2>3. pcq_tail = (pushes + Capacity - 1) % Capacity
    BY DEF IInv, RingArithmetic
  <2>4. (pushes + Capacity - 1) + 1 = Capacity + pushes  BY <1>3
  <2>5. ((Capacity % Capacity) + pushes) % Capacity = (Capacity + pushes) % Capacity
    <3>1. Capacity \in Int /\ pushes \in Int  BY <1>3
    <3> QED  BY <1>3, <3>1, ModAdd, Zenon
  <2>6. Capacity % Capacity = 0
    <3>1. Capacity * 1 + 0 = Capacity /\ 0 \in 0 .. Capacity - 1  BY <1>3
    <3>2. (Capacity * 1 + 0) % Capacity = 0  BY <1>3, <3>1, ModUnique
    <3> QED  BY <3>1, <3>2
  <2>7. 0 + pushes = pops + s  BY <1>2, <1>3
  <2> QED  BY <2>2, <2>3, <2>4, <2>5, <2>6, <2>7 DEF Successor
<1> DEFINE end == (pops + s) % Capacity
<1>6. end \in Slots  BY <1>2, <1>3 DEF Slots
<1>7. \A k \in 1 .. s : (pops + (k - 1)) % Capacity # end
  <2> SUFFICES ASSUME NEW k \in 1 .. s
               PROVE  (pops + (k - 1)) % Capacity # (pops + s) % Capacity
    OBVIOUS
  <2> DEFINE x == pops + (k - 1)
             d == s - (k - 1)
  <2>1. x \in Int /\ d \in 1 .. Capacity - 1 /\ x + d = pops + s
    BY <1>2, <1>3
  <2> HIDE DEF x, d
  <2>2. (x + d) % Capacity # x % Capacity  BY <1>3, <2>1, ModDistinct, Zenon
  <2> QED  BY <2>1, <2>2 DEF x
<1> HIDE DEF end
<1>8. pcq_buffer' = [pcq_buffer EXCEPT ![end] = <<p, calls[p]>>]
  BY <1>1, <1>5 DEF end
<1>9. \A k \in 1 .. s + 1 :
          pcq_buffer'[(pcq_head' + k - 1) % Capacity]
              = IF k = s + 1 THEN <<p, calls[p]>>
                ELSE pcq_buffer[(pcq_head + k - 1) % Capacity]
  <2> SUFFICES ASSUME NEW k \in 1 .. s + 1
               PROVE  pcq_buffer'[(pcq_head + k - 1) % Capacity]
                          = IF k = s + 1 THEN <<p, calls[p]>>
                            ELSE pcq_buffer[(pcq_head + k - 1) % Capacity]
    BY <1>1
  <2> DEFINE slot == (pcq_head + k - 1) % Capacity
  <2>1. slot = (pops + (k - 1)) % Capacity
    <3>1. k \in Int  BY <1>2
    <3> QED  BY <3>1, SlotOf
  <2>2. slot \in Slots  BY <1>2, <1>3 DEF IInv, TypeOK, Slots
  <2>3. CASE k = s + 1
    <3>1. pops + (k - 1) = pops + s  BY <1>2, <1>3, <2>3
    <3>2. slot = end  BY <2>1, <3>1 DEF end
    <3> HIDE DEF slot
    <3> QED  BY <1>6, <1>8, <2>3, <3>2 DEF IInv, TypeOK, slot
  <2>4. CASE k # s + 1
    <3>1. k \in 1 .. s  BY <1>2, <2>4
    <3>2. slot # end  BY <1>7, <2>1, <3>1
    <3> HIDE DEF slot
    <3> QED  BY <1>8, <2>2, <2>4, <3>2 DEF IInv, TypeOK, slot
  <2> QED  BY <2>3, <2>4
<1>10. Items' = Append(Items, <<p, calls[p]>>) /\ Len(Items) = s
  <2>1. Items \in Seq(Elements \cup {Junk})  BY ItemsType
  <2>2. Len(Items) = s /\ s \in Nat  BY <1>2, <1>3, <2>1 DEF Items
  <2>3. Items' = [k \in 1 .. s + 1 |-> pcq_buffer'[(pcq_head' + k - 1) % Capacity]]
    BY <1>4 DEF Items
  <2>4. Items' = [k \in 1 .. s + 1 |-> IF k = s + 1 THEN <<p, calls[p]>> ELSE Items[k]]
    <3>1. \A k \in 1 .. s : Items[k] = pcq_buffer[(pcq_head + k - 1) % Capacity]
      BY DEF Items
    <3>2. \A k \in 1 .. s + 1 : k # s + 1 => k \in 1 .. s  BY <1>2
    <3>3. \A k \in 1 .. s + 1 : pcq_buffer'[(pcq_head' + k - 1) % Capacity]
                                  = IF k = s + 1 THEN <<p, calls[p]>> ELSE Items[k]
      BY <1>9, <3>1, <3>2
    <3> QED  BY <2>3, <3>3
  <2> HIDE DEF s
  <2> QED  BY <2>1, <2>2, <2>4
<1>11. Sent' = [Sent EXCEPT ![p] = @ + 1] /\ Sent'[p] = calls[p]
  <2>1. \A q \in Producers : Sent'[q] = IF q = p THEN calls[p] ELSE Sent[q]
    BY <1>1 DEF Sent, IInv, TypeOK, Threads
  <2>2. Sent[p] + 1 = calls[p]  BY <1>1 DEF Sent, IInv, TypeOK, Threads
  <2> QED  BY <2>1, <2>2 DEF Sent
<1>12. Items' = Append(Items, <<p, Sent'[p]>>)  BY <1>10, <1>11
<1>13. Len(Items) < Capacity /\ UNCHANGED result
  BY <1>1, <1>2, <1>3, <1>10
<1> QED
  BY <1>11, <1>12, <1>13, Zenon DEF Fifo!Put, Items, Sent

\* A dequeue returns the first element.
LEMMA TakeTakes ==
    ASSUME IInv, Reserved, reserving, NEW c \in Consumers, DeqTake(c)
    PROVE  Fifo!Take(c)
<1> DEFINE s == pcq_current_size
<1>1. /\ pc[c] = "move"
      /\ result' = [result EXCEPT ![c] = pcq_buffer[pcq_head]]
      /\ pcq_head' = Successor(pcq_head)
      /\ pcq_current_size' = (s - 1) % SizeModulus
      /\ pc' = [pc EXCEPT ![c] = "idle"]
      /\ UNCHANGED <<pcq_buffer, calls>>
  BY DEF DeqTake, Goto
<1>2. s \in 1 .. Capacity
  <2>1. Busy(Consumers) # {}  BY <1>1 DEF Busy
  <2> QED  BY <2>1, SizeExact, QueueAssumption
<1>3. Capacity \in Nat \ {0} /\ SizeModulus \in Nat \ {0} /\ pcq_head \in Slots
  BY QueueAssumption DEF IInv, TypeOK
<1>4. pcq_current_size' = s - 1
  <2>1. s - 1 \in 0 .. SizeModulus - 1  BY <1>2, <1>3, QueueAssumption
  <2>2. (s - 1) % SizeModulus = s - 1  BY <1>3, <2>1, ModSmall, Zenon
  <2> QED  BY <1>1, <2>2
<1>5. (pcq_head + 1 - 1) % Capacity = pcq_head
  <2>1. pcq_head + 1 - 1 = pcq_head  BY <1>3 DEF Slots
  <2>2. pcq_head % Capacity = pcq_head  BY <1>3, ModSmall, Zenon DEF Slots
  <2> QED  BY <2>1, <2>2
<1>6. ASSUME NEW k \in 1 .. s - 1
      PROVE  (pcq_head' + k - 1) % Capacity = (pcq_head + (k + 1) - 1) % Capacity
  <2>1. pcq_head + 1 \in Int /\ k - 1 \in Int  BY <1>2, <1>3 DEF Slots
  <2>2. (((pcq_head + 1) % Capacity) + (k - 1)) % Capacity
            = ((pcq_head + 1) + (k - 1)) % Capacity
    BY <1>3, <2>1, ModAdd, Zenon
  <2>3. ((pcq_head + 1) % Capacity) + (k - 1) = ((pcq_head + 1) % Capacity) + k - 1
    <3>1. (pcq_head + 1) % Capacity \in Int  BY <1>3, <2>1
    <3> QED  BY <1>2, <3>1
  <2>4. (pcq_head + 1) + (k - 1) = pcq_head + (k + 1) - 1
    BY <1>2, <1>3 DEF Slots
  <2> QED  BY <1>1, <2>2, <2>3, <2>4 DEF Successor
<1>7. Items # <<>> /\ Head(Items) = pcq_buffer[pcq_head] /\ Items' = Tail(Items)
  <2>1. Items \in Seq(Elements \cup {Junk})  BY ItemsType
  <2>2. Len(Items) = s /\ s \in Nat  BY <1>2, <1>3, <2>1 DEF Items
  <2>3. Items[1] = pcq_buffer[pcq_head]  BY <1>2, <1>5 DEF Items
  <2>4. Items' = [k \in 1 .. s - 1 |-> Items[k + 1]]
    <3>1. Items' = [k \in 1 .. s - 1 |->
                        pcq_buffer[(pcq_head' + k - 1) % Capacity]]
      BY <1>1, <1>4 DEF Items
    <3>2. \A k \in 1 .. s - 1 :
              pcq_buffer[(pcq_head' + k - 1) % Capacity] = Items[k + 1]
      BY <1>2, <1>6 DEF Items
    <3> QED  BY <3>1, <3>2
  <2> HIDE DEF s
  <2>5. Items # <<>> /\ Head(Items) = Items[1]  BY <1>2, <2>1, <2>2
  <2>6. Items' = Tail(Items)
    <3>1. /\ Tail(Items) \in Seq(Elements \cup {Junk})
          /\ Len(Tail(Items)) = s - 1
          /\ \A k \in 1 .. s - 1 : Tail(Items)[k] = Items[k + 1]
      BY <1>2, <2>1, <2>2
    <3>2. Items' \in Seq(Elements \cup {Junk}) /\ Len(Items') = s - 1
      BY <1>2, <1>3, <2>1, <2>2, <2>4
    <3>3. \A k \in 1 .. Len(Items') : Items'[k] = Tail(Items)[k]
      BY <2>4, <3>1, <3>2
    <3> QED  BY <3>1, <3>2, <3>3, SeqEqual
  <2> QED  BY <2>3, <2>5, <2>6
<1>8. Sent' = Sent
  BY <1>1, QueueAssumption DEF Sent, IInv, TypeOK, Threads
<1> QED  BY <1>1, <1>7, <1>8 DEF Fifo!Take, Items, Sent

\* Calls, locks and signals are not seen.
LEMMA StepsStutter ==
    ASSUME IInv, NEW t \in Threads, Call(t) \/ Inside(t)
    PROVE  UNCHANGED Fifo!vars
<1>1. Items' = Items /\ UNCHANGED result
  BY DEF Call, Inside, queue, Items
<1>2. \A p \in Producers : Sent'[p] = Sent[p]
  <2> SUFFICES ASSUME NEW p \in Producers PROVE Sent'[p] = Sent[p]  OBVIOUS
  <2>1. p \in Threads /\ calls[p] \in Nat  BY DEF IInv, TypeOK, Threads
  <2>2. CASE Call(t)
    <3>1. /\ pc[t] = "idle"
          /\ pc'[p] = IF p = t THEN "lock_size" ELSE pc[p]
          /\ calls'[p] = IF p = t THEN calls[p] + 1 ELSE calls[p]
      BY <2>1, <2>2 DEF Call, Goto, IInv, TypeOK
    <3> QED  BY <2>1, <3>1 DEF Sent
  <2>3. CASE Inside(t)
    <3>1. calls' = calls /\ (pc'[p] = "idle" <=> pc[p] = "idle")
      BY <2>1, <2>3 DEF Inside, IInv, TypeOK
    <3> QED  BY <3>1 DEF Sent
  <2> QED  BY <2>2, <2>3
<1>3. Sent' = Sent  BY <1>2 DEF Sent
<1> QED  BY <1>1, <1>3 DEF Fifo!vars, Items, Sent

LEMMA StepSimulates ==
    IInv /\ Reserved /\ [Next]_vars => [reserving => Fifo!Next]_(Fifo!vars)
<1> SUFFICES ASSUME IInv, Reserved, [Next]_vars
             PROVE  [reserving => Fifo!Next]_(Fifo!vars)
  OBVIOUS
<1>1. CASE UNCHANGED vars
  BY <1>1 DEF vars, queue, Fifo!vars
<1>2. ASSUME NEW t \in Threads, Call(t) \/ SpuriousWake(t) \/ Step(t)
      PROVE  [reserving => Fifo!Next]_(Fifo!vars)
  <2>1. CASE Call(t) \/ Inside(t)  BY <2>1, StepsStutter
  <2>2. CASE t \in Producers /\ EnqStore(t)
    BY <2>2, StorePuts DEF Fifo!Next
  <2>3. CASE t \in Consumers /\ DeqTake(t)
    BY <2>3, TakeTakes DEF Fifo!Next
  <2> QED  BY <1>2, <2>1, <2>2, <2>3, StaysInside
<1> QED  BY <1>1, <1>2 DEF Next

\* For callers that reserve, pcq_create gives an empty first-in first-out queue
\* and every step of pcq_enqueue and pcq_dequeue is one of BoundedFifo or is not
\* seen there: nothing is lost, repeated or out of order, at any capacity.
THEOREM ImplementsFifo == Spec => RefinesBoundedFifo
<1>1. Init => Fifo!Init
  <2> SUFFICES ASSUME Init PROVE Fifo!Init  OBVIOUS
  <2>1. Items = <<>>  BY DEF Init, Items
  <2>2. Sent = [p \in Producers |-> 0]  BY DEF Init, Sent, Threads
  <2> QED  BY <2>1, <2>2 DEF Init, Fifo!Init, Items, Sent
<1> QED
  BY <1>1, InitReserved, NextReserves, StepSimulates, Invariant, PTL
  DEF Spec, RefinesBoundedFifo

=============================================================================
