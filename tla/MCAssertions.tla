---------------------------- MODULE MCAssertions ----------------------------
(***************************************************************************)
(* The client assertions of a Service, for TLC: several requests of        *)
(* AssertionReplay with several, or one of ClientAssertions from end to    *)
(* end.  They share no variable, so one of them runs.                      *)
(***************************************************************************)
EXTENDS AssertionReplay, ServiceAssertions, TLC

CONSTANTS a1, a2, a3, a4, j1, j2, s1, s2, ed, es, rs

\* a1 and a2 carry the same jti and expire a second apart; a3 is issued ahead
\* of time; a4 outlives the last instant the clock can represent.
MCClaims ==
    a1 :> [jti |-> j1, iat |-> 0, exp |-> 0] @@
    a2 :> [jti |-> j1, iat |-> 0, exp |-> 1] @@
    a3 :> [jti |-> j2, iat |-> 2, exp |-> 2] @@
    a4 :> [jti |-> j2, iat |-> 0, exp |-> 3]

RequestSymmetry == Permutations(Requests)

----------------------------------------------------------------------------
MCServices ==
    {[did |-> s1, skew |-> 2, verifier |-> "did:web"], [did |-> s1, skew |-> 0, verifier |-> "did:web"],
     [did |-> s1, skew |-> 0, verifier |-> "hosted"], [did |-> s1, skew |-> 1, verifier |-> "own"],
     [did |-> s2, skew |-> 2, verifier |-> "hosted"]}

MCAlgorithms == {ed, es}

\* the longer lifetime exceeds the maximum
MCAgents ==
    [hosted : {TRUE}, algorithms : {MCAlgorithms}, lifetime : {1, 3}, drift : {-1, 0, 2}]
    \cup [hosted : {FALSE}, algorithms : {{es, rs}}, lifetime : {1, 3}, drift : {-1, 0, 2}]

MCInit == Init /\ Assertions!Init

Unasked == clock = 0 /\ \A r \in Requests : token[r] = None

NoAssertion ==
    /\ service = CHOOSE x \in Services : TRUE
    /\ agent = CHOOSE x \in Agents : TRUE
    /\ key.algorithm = CHOOSE a \in agent.algorithms : TRUE
    /\ assertion = None /\ asked = None /\ events = 0

MCNext ==
    \/ NoAssertion /\ Next /\ UNCHANGED aVars
    \/ Unasked /\ Assertions!Next /\ UNCHANGED vars

MCSpec == MCInit /\ [][MCNext]_<<vars, aVars>>
=============================================================================
