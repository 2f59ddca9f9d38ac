----------------------------- MODULE MCAgentRun -----------------------------
(* Two channels, a budget of steps that lets the coverage gate block early     *)
(* in the run and not late, and one failure. The channels are interchangeable: *)
(* the user selected both.                                                     *)
EXTENDS AgentRun, TLC

Sym == Permutations(Channels)
=============================================================================
