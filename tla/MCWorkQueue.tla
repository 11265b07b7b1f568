---------------------------- MODULE MCWorkQueue ----------------------------
(* Two tasks and up to three envelopes for one endpoint. *)
EXTENDS WorkQueue, TLC

Names == Permutations(Key) \cup Permutations(Event) \cup Permutations(Task)
=============================================================================
