---------------------------- MODULE MCWorkspace -----------------------------
(* Workspace with interchangeable request ids and keys: no definition of it *)
(* names one of them, and nothing checked of it is a liveness property.     *)
EXTENDS Workspace, TLC

Symmetric == Permutations(Chat) \cup Permutations(Key) \cup Permutations(SaveKey)
=============================================================================
