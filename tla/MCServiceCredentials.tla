------------------------ MODULE MCServiceCredentials ------------------------
(***************************************************************************)
(* Instances of ServiceCredentials for TLC.                                *)
(***************************************************************************)
EXTENDS ServiceCredentials, TLC

MCSymmetry ==
    Permutations(Tasks) \cup Permutations(GrantTypes)
        \cup Permutations(Ids) \cup Permutations(Secrets)
=============================================================================
