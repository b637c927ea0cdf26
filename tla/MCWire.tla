------------------------------- MODULE MCWire -------------------------------
(* Wire for TLC: one client of each kind.  The box of the subscriber has a *)
(* name that begins with a digit.                                          *)
EXTENDS Wire, TLC

CONSTANTS pub, sub, manager, lister

Started == (pub :> "publisher") @@ (sub :> "subscriber")
               @@ (manager :> "create") @@ (lister :> "list")
Pipes == [c \in Clients |-> <<"p">>]
BoxNames == [c \in Clients |-> IF c = sub THEN <<"5", "a">> ELSE <<"a">>]
=============================================================================
