--------------------------- MODULE MCDurableWork ---------------------------
(* DurableWork with two items in one lane, of one queue or of two. *)
EXTENDS DurableWork

CONSTANTS i1, i2, q1, q2

OneQueue == (i1 :> q1) @@ (i2 :> q1)
TwoQueues == (i1 :> q1) @@ (i2 :> q2)
OneLane == (i1 :> "lane") @@ (i2 :> "lane")
=============================================================================
