----------------------------- MODULE MCSessions -----------------------------
(* Sessions for TLC: a publisher and a subscriber of one box.              *)
EXTENDS Sessions, TLC

CONSTANTS news, pub, sub

Registered == (pub :> news) @@ (sub :> news)

\* The second message finds the box full, unless the box was made again.
Messages == (pub :> 2)
=============================================================================
