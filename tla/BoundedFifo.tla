----------------------------- MODULE BoundedFifo -----------------------------
(***************************************************************************)
(* What a bounded producer-consumer queue promises: elements come out once *)
(* each, in the order they went in, and at most Capacity of them wait.     *)
(***************************************************************************)
EXTENDS Integers, Sequences

CONSTANTS Producers, Consumers, Capacity, Junk

VARIABLES items,    \* the elements that wait
          sent,     \* how many each producer has put in
          got       \* what each consumer took last

Init ==
    /\ items = <<>>
    /\ sent = [p \in Producers |-> 0]
    /\ got = [c \in Consumers |-> Junk]

Put(p) ==
    /\ Len(items) < Capacity
    /\ sent' = [sent EXCEPT ![p] = @ + 1]
    /\ items' = Append(items, <<p, sent'[p]>>)
    /\ UNCHANGED got

Take(c) ==
    /\ items # <<>>
    /\ got' = [got EXCEPT ![c] = Head(items)]
    /\ items' = Tail(items)
    /\ UNCHANGED sent

Next == (\E p \in Producers : Put(p)) \/ (\E c \in Consumers : Take(c))

vars == <<items, sent, got>>

Spec == Init /\ [][Next]_vars

=============================================================================
