------------------------------- MODULE PcQueue -------------------------------
(***************************************************************************)
(* The producer-consumer queue of the broker (producer-consumer.c): a ring *)
(* of pointers under three mutexes, two condition variables, and g_value,  *)
(* a global count of tokens on which full enqueues and empty dequeues      *)
(* wait.  pcq_current_size_lock is taken first by both operations and      *)
(* released last, so what a call does between two of its locking steps is  *)
(* one step here; locking, testing, sleeping and waking are steps of their *)
(* own.  A thread that sleeps on a condition variable keeps the size lock. *)
(***************************************************************************)
EXTENDS Integers, Sequences, FiniteSets

CONSTANTS
    Producers, Consumers,   \* threads that call pcq_enqueue, pcq_dequeue
    Capacity,               \* pcq_capacity
    SizeModulus,            \* pcq_current_size is a size_t: it wraps here
    Junk,                   \* what malloc left in a slot's pointer
    Nobody,                 \* owner of a mutex that is free
    MaxCalls                \* bound: calls per thread

ASSUME QueueAssumption ==
    /\ Capacity \in Nat \ {0}
    /\ SizeModulus \in Nat /\ SizeModulus > Capacity
    /\ MaxCalls \in Nat
    /\ Producers \cap Consumers = {}
    /\ Nobody \notin Producers \cup Consumers

VARIABLES
    pcq_buffer, pcq_head, pcq_tail, pcq_current_size, g_value,
    size_lock, head_lock, tail_lock,        \* owners of the mutexes
    pusher_lock, popper_lock,               \* mutexes of the two condvars
    pc,                                     \* where each thread is
    calls,                                  \* calls each thread has started
    result,                                 \* what its last dequeue returned
    pushes, pops,                           \* history: completed operations
    reserving                               \* whether callers reserve; never changes

queue == <<pcq_buffer, pcq_head, pcq_tail, pcq_current_size, g_value>>
locks == <<size_lock, head_lock, tail_lock, pusher_lock, popper_lock>>
vars == <<queue, locks, pc, calls, result, pushes, pops, reserving>>

Threads == Producers \cup Consumers
Slots == 0 .. Capacity - 1
Elements == Threads \X (1 .. MaxCalls)      \* the k-th element of a producer

Labels == {"idle", "lock_size", "lock_end", "check", "test", "asleep", "woken",
           "move"}

TypeOK ==
    /\ pcq_buffer \in [Slots -> Elements \cup {Junk}]
    /\ pcq_head \in Slots /\ pcq_tail \in Slots
    /\ pcq_current_size \in 0 .. SizeModulus - 1
    /\ g_value \in Int
    /\ size_lock \in Threads \cup {Nobody}
    /\ head_lock \in Consumers \cup {Nobody}
    /\ tail_lock \in Producers \cup {Nobody}
    /\ pusher_lock \in Producers \cup {Nobody}
    /\ popper_lock \in Consumers \cup {Nobody}
    /\ pc \in [Threads -> Labels]
    /\ calls \in [Threads -> 0 .. MaxCalls]
    /\ result \in [Consumers -> Elements \cup {Junk}]
    /\ pushes \in Nat /\ pops \in Nat /\ reserving \in BOOLEAN

\* Mutant: tail starts where head does.
TailAtHead == 0

InitialTail == Capacity - 1

\* pcq_create
Init ==
    /\ pcq_buffer = [s \in Slots |-> Junk]
    /\ pcq_head = 0 /\ pcq_tail = InitialTail
    /\ pcq_current_size = 0
    /\ g_value = 0
    /\ size_lock = Nobody /\ head_lock = Nobody /\ tail_lock = Nobody
    /\ pusher_lock = Nobody /\ popper_lock = Nobody
    /\ pc = [t \in Threads |-> "idle"]
    /\ calls = [t \in Threads |-> 0]
    /\ result = [c \in Consumers |-> Junk]
    /\ pushes = 0 /\ pops = 0
    /\ reserving \in BOOLEAN

-----------------------------------------------------------------------------
Goto(t, label) == pc' = [pc EXCEPT ![t] = label]

\* pthread_cond_signal: one of the threads that sleep on the condition variable
\* wakes, if there is any.
SignalAndGoto(sleepers, t, label) ==
    IF sleepers = {}
    THEN Goto(t, label)
    ELSE \E s \in sleepers : pc' = [pc EXCEPT ![t] = label, ![s] = "woken"]

Asleep(threads) == {t \in threads : pc[t] = "asleep"}

IsFull == pcq_current_size = Capacity
IsEmpty == pcq_current_size = 0

\* Mutant: the index does not wrap.
SuccessorUnwrapped(i) == i + 1

Successor(i) == (i + 1) % Capacity

\* Mutant: pthread_mutex_trylock, its result ignored.
SizeLockIgnored == TRUE

SizeLockFree == size_lock = Nobody

\* Mutant: a dequeue returns with the head lock.
HeadLockKept == head_lock' = head_lock

UnlockHead == head_lock' = Nobody

(* Both operations *)

Busy(threads) == {t \in threads : pc[t] # "idle"}

\* Callers that reserve start an enqueue only with a free slot set aside for
\* it, a dequeue only with an element; others call whenever they like.
MayCall(t) ==
    reserving => IF t \in Producers
                 THEN pushes + Cardinality(Busy(Producers)) - pops < Capacity
                 ELSE pops + Cardinality(Busy(Consumers)) < pushes

Call(t) ==
    /\ pc[t] = "idle"
    /\ calls[t] < MaxCalls
    /\ MayCall(t)
    /\ calls' = [calls EXCEPT ![t] = @ + 1]
    /\ Goto(t, "lock_size")
    /\ UNCHANGED <<queue, locks, result, pushes, pops>>

LockSize(t) ==
    /\ pc[t] = "lock_size"
    /\ SizeLockFree
    /\ size_lock' = t
    /\ Goto(t, "lock_end")
    /\ UNCHANGED <<queue, head_lock, tail_lock, pusher_lock, popper_lock, calls,
                   result, pushes, pops>>

\* The implementation of condition variables may wake a thread at any time.
SpuriousWake(t) ==
    /\ pc[t] = "asleep"
    /\ Goto(t, "woken")
    /\ UNCHANGED <<queue, locks, calls, result, pushes, pops>>

(* pcq_enqueue *)

EnqLockTail(p) ==
    /\ pc[p] = "lock_end"
    /\ tail_lock = Nobody
    /\ tail_lock' = p
    /\ Goto(p, "check")
    /\ UNCHANGED <<queue, size_lock, head_lock, pusher_lock, popper_lock, calls,
                   result, pushes, pops>>

\* A full queue takes the pusher's lock to test g_value, also after a wake-up.
EnqLockPusher(p) ==
    /\ (pc[p] = "check" /\ IsFull) \/ pc[p] = "woken"
    /\ pusher_lock = Nobody
    /\ pusher_lock' = p
    /\ Goto(p, "test")
    /\ UNCHANGED <<queue, size_lock, head_lock, tail_lock, popper_lock, calls,
                   result, pushes, pops>>

\* pthread_cond_wait releases the pusher's lock, and no other.
EnqTest(p) ==
    /\ pc[p] = "test"
    /\ pusher_lock' = Nobody
    /\ Goto(p, IF g_value = 0 THEN "asleep" ELSE "move")
    /\ UNCHANGED <<queue, size_lock, head_lock, tail_lock, popper_lock, calls,
                   result, pushes, pops>>

EnqNotFull(p) ==
    /\ pc[p] = "check" /\ ~IsFull
    /\ IF IsEmpty
       THEN g_value' = g_value - 1 /\ SignalAndGoto(Asleep(Consumers), p, "move")
       ELSE g_value' = g_value /\ Goto(p, "move")
    /\ UNCHANGED <<pcq_buffer, pcq_head, pcq_tail, pcq_current_size, locks, calls,
                   result, pushes, pops>>

EnqStore(p) ==
    LET tail == Successor(pcq_tail)
    IN  /\ pc[p] = "move"
        /\ pcq_tail' = tail
        /\ pcq_buffer' = [pcq_buffer EXCEPT ![tail] = <<p, calls[p]>>]
        /\ pcq_current_size' = (pcq_current_size + 1) % SizeModulus
        /\ tail_lock' = Nobody /\ size_lock' = Nobody
        /\ pushes' = pushes + 1
        /\ Goto(p, "idle")
        /\ UNCHANGED <<pcq_head, g_value, head_lock, pusher_lock, popper_lock,
                       calls, result, pops>>

pcq_enqueue(p) ==
    EnqLockTail(p) \/ EnqLockPusher(p) \/ EnqTest(p) \/ EnqNotFull(p) \/ EnqStore(p)

(* pcq_dequeue *)

DeqLockHead(c) ==
    /\ pc[c] = "lock_end"
    /\ head_lock = Nobody
    /\ head_lock' = c
    /\ Goto(c, "check")
    /\ UNCHANGED <<queue, size_lock, tail_lock, pusher_lock, popper_lock, calls,
                   result, pushes, pops>>

DeqLockPopper(c) ==
    /\ (pc[c] = "check" /\ IsEmpty) \/ pc[c] = "woken"
    /\ popper_lock = Nobody
    /\ popper_lock' = c
    /\ Goto(c, "test")
    /\ UNCHANGED <<queue, size_lock, head_lock, tail_lock, pusher_lock, calls,
                   result, pushes, pops>>

\* Mutant: an empty queue makes a consumer sleep while no token is there.
SleepsWithoutToken == g_value = 0

DequeueMustSleep == g_value = 1

DeqTest(c) ==
    /\ pc[c] = "test"
    /\ popper_lock' = Nobody
    /\ Goto(c, IF DequeueMustSleep THEN "asleep" ELSE "move")
    /\ UNCHANGED <<queue, size_lock, head_lock, tail_lock, pusher_lock, calls,
                   result, pushes, pops>>

DeqNotEmpty(c) ==
    /\ pc[c] = "check" /\ ~IsEmpty
    /\ IF IsFull
       THEN g_value' = g_value + 1 /\ SignalAndGoto(Asleep(Producers), c, "move")
       ELSE g_value' = g_value /\ Goto(c, "move")
    /\ UNCHANGED <<pcq_buffer, pcq_head, pcq_tail, pcq_current_size, locks, calls,
                   result, pushes, pops>>

\* The pointer stays in its slot; the size wraps below zero.
DeqTake(c) ==
    /\ pc[c] = "move"
    /\ result' = [result EXCEPT ![c] = pcq_buffer[pcq_head]]
    /\ pcq_head' = Successor(pcq_head)
    /\ pcq_current_size' = (pcq_current_size - 1) % SizeModulus
    /\ UnlockHead /\ size_lock' = Nobody
    /\ pops' = pops + 1
    /\ Goto(c, "idle")
    /\ UNCHANGED <<pcq_buffer, pcq_tail, g_value, tail_lock, pusher_lock,
                   popper_lock, calls, pushes>>

pcq_dequeue(c) ==
    DeqLockHead(c) \/ DeqLockPopper(c) \/ DeqTest(c) \/ DeqNotEmpty(c) \/ DeqTake(c)

-----------------------------------------------------------------------------
\* The steps a thread takes inside a call without outside help.
Step(t) ==
    /\ \/ LockSize(t)
       \/ t \in Producers /\ pcq_enqueue(t)
       \/ t \in Consumers /\ pcq_dequeue(t)
    /\ reserving' = reserving

Next ==
    /\ \E t \in Threads : Call(t) \/ SpuriousWake(t) \/ Step(t)
    /\ reserving' = reserving

Spec == Init /\ [][Next]_vars

\* The scheduler runs every thread that can run, and no thread keeps a mutex
\* for ever except by sleeping with it.
Fairness == \A t \in Threads : WF_vars(Step(t))

FairSpec == Spec /\ Fairness

-----------------------------------------------------------------------------
(* Any clients *)

\* One thread at a time is past the size lock, whatever its operation, and the
\* other mutexes belong to that thread: the separate locks for head and tail
\* never let an enqueue and a dequeue overlap.
LockDiscipline ==
    /\ \A t \in Threads : size_lock = t <=> pc[t] \notin {"idle", "lock_size"}
    /\ \A p \in Producers :
          /\ tail_lock = p <=> pc[p] \notin {"idle", "lock_size", "lock_end"}
          /\ pusher_lock = p <=> pc[p] = "test"
    /\ \A c \in Consumers :
          /\ head_lock = c <=> pc[c] \notin {"idle", "lock_size", "lock_end"}
          /\ popper_lock = c <=> pc[c] = "test"

\* Head, tail and size always say how many operations completed, modulo the
\* ring and the width of size_t, even when elements were overwritten or a
\* dequeue took nothing.
RingArithmetic ==
    /\ pcq_head = pops % Capacity
    /\ pcq_tail = (pushes + Capacity - 1) % Capacity
    /\ pcq_current_size = (pushes - pops) % SizeModulus

\* A thread is in a call only after it has started one.
CallsStarted == \A t \in Threads : pc[t] # "idle" => calls[t] >= 1

\* The inductive invariant of Spec.
IInv == TypeOK /\ LockDiscipline /\ RingArithmetic /\ CallsStarted

\* A thread waits inside the queue for a token that is not there.
Wedged ==
    \/ \E p \in Producers : /\ pc[p] \in {"check", "test", "asleep", "woken"}
                            /\ IsFull /\ g_value = 0
    \/ \E c \in Consumers : /\ pc[c] \in {"check", "test", "asleep", "woken"}
                            /\ IsEmpty /\ g_value = 1

\* Nothing any thread does afterwards frees a queue in which one thread waits:
\* the waiting thread keeps the size lock (pthread_cond_wait in both calls).
WedgedForGood == [][Wedged => Wedged']_vars

\* Every call returns unless some thread waits inside the queue: the mutexes
\* alone block nobody for ever.  Calls of callers that reserve always return.
CallsReturnOrWedge ==
    \A t \in Threads :
        (pc[t] # "idle") ~> (pc[t] = "idle" \/ (Wedged /\ ~reserving))

(* Callers that reserve *)

Fifo == INSTANCE BoundedFifo WITH
    items <- [k \in 1 .. pcq_current_size |->
                  pcq_buffer[(pcq_head + k - 1) % Capacity]],
    sent  <- [p \in Producers |-> IF pc[p] = "idle" THEN calls[p] ELSE calls[p] - 1],
    got   <- result

\* For them the ring is a first-in first-out queue of at most Capacity elements:
\* every step is a step of BoundedFifo or leaves its variables alone.
RefinesBoundedFifo ==
    /\ Fifo!Init
    /\ [][reserving => Fifo!Next]_(Fifo!vars)

(* What producer-consumer.h says, and callers that do not reserve refute *)

\* "If the queue is full, sleep until the queue has space", "If the queue is
\* empty, sleep until the queue has an element": with one thread of each kind, a
\* producer asleep when the consumer calls, which makes the space, wakes up, and
\* so does a consumer asleep when the producer calls.
SleepersWake ==
    \A p \in Producers, c \in Consumers :
        /\ (pc[p] = "asleep" /\ pc[c] = "lock_size") ~> (pc[p] # "asleep")
        /\ (pc[c] = "asleep" /\ pc[p] = "lock_size") ~> (pc[c] # "asleep")

=============================================================================
