-------------------------- MODULE MCPlatformSigning --------------------------
(***************************************************************************)
(* Instances of PlatformSigning for TLC.                                   *)
(***************************************************************************)
EXTENDS PlatformSigning, TLC

CONSTANTS j1, active, suspended, revoked

\* two assertions with one jti, the second outliving the first
MCIssued == {[jti |-> j1, exp |-> 1], [jti |-> j1, exp |-> 2]}

\* a policy that lets an identity be suspended, resumed and revoked for good
MCAllowed == {<<active, suspended>>, <<suspended, active>>,
              <<active, revoked>>, <<suspended, revoked>>}

CallSymmetry == Permutations(Tasks) \cup Permutations(IdempotencyKeys)
=============================================================================
