------------------------- MODULE MCAgentInspection -------------------------
EXTENDS AgentInspection, TLC

CONSTANTS u1, u2

SessionSymmetry == Permutations(Sessions)

\* to the other target, or out of the origin
MCRedirects == [u \in Urls |-> IF u = u1 THEN {u2, Elsewhere} ELSE {}]

Plain == [control |-> Absent, validated |-> TRUE, dated |-> FALSE, vary |-> Absent,
          age |-> Absent, expires |-> Absent, relayed |-> FALSE]

Control(names, maxAges) == [names |-> names, maxAges |-> maxAges]

\* max-age behind a relay, Expires, and no-store
MCPolicies ==
    {[Plain EXCEPT !.control = Control({"max-age"}, <<DefaultLifetime>>), !.relayed = TRUE],
     [Plain EXCEPT !.expires = DefaultLifetime, !.dated = TRUE, !.validated = FALSE],
     [Plain EXCEPT !.control = Control({"no-store"}, <<>>), !.validated = FALSE]}

\* entries of another Service, or of a redirect that left the origin
MCRestored ==
    {[version |-> 0, bound |-> FALSE, cachedAt |-> 0, finalUrl |-> url,
      headers |-> HeadersOf(Plain, 0, 0, 0)] : url \in {u1, Elsewhere}}

=============================================================================
