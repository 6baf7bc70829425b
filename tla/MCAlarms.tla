------------------------------ MODULE MCAlarms ------------------------------
(* Neither Durable Objects nor activations are told apart by name. *)
EXTENDS AlarmScheduler, TLC

Interchangeable == Permutations(Keys) \cup Permutations(Workers)
=============================================================================
