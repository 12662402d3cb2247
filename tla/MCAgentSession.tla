--------------------------- MODULE MCAgentSession ---------------------------
(***************************************************************************)
(* Instances of AgentSession for TLC.                                      *)
(***************************************************************************)
EXTENDS AgentSession, TLC

SessionSymmetry ==
    Permutations(Tasks) \cup Permutations(Clients) \cup Permutations(Dids) \cup Permutations(Ids)
=============================================================================
