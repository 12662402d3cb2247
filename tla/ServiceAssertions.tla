------------------------- MODULE ServiceAssertions -------------------------
(***************************************************************************)
(* The client assertions of a Service: several requests that present       *)
(* several (AssertionReplay), and one from its maker to each verifier      *)
(* (ClientAssertions, through the instance Assertions).  The two share no  *)
(* variable: the clock and the assertion of the second have names of their *)
(* own here.                                                               *)
(***************************************************************************)
EXTENDS AssertionReplay

CONSTANTS Resources, Services, Algorithms, Agents, MaxLifetime, Tolerance, MaxRequests,
          MaxAge, MaxEvents

VARIABLES
    age, service, agent, key, active, inspected, assertion, asked, vouched, verdicts,
    consumed, outcome, requests, events, lost, dormant, restarted

Assertions == INSTANCE ClientAssertions
    WITH MaxTime <- MaxAge, now <- age, token <- assertion, memo <- verdicts

\* Durations, of which one that is configured is not negative.
ASSUME ServicesHaveType == \A s \in Services : s.skew \in Nat
ASSUME ToleranceIsNat == Tolerance \in Nat
ASSUME AgentsHaveType ==
    \A a \in Agents : a.hosted \in BOOLEAN /\ a.lifetime \in Int /\ a.drift \in Int

\* A Platform has no algorithms but the ones every Service has to advertise
\* (platform.rs:835).
ASSUME PlatformsAreCompatible == \A a \in Agents : a.hosted => a.algorithms \subseteq Algorithms

ASSUME NoResourceIsNone == None \notin Resources
ASSUME NoneIsNoPart ==
    /\ None \notin BOOLEAN
    /\ None \notin {"failed", "refused", "replayed", "accepted"}
    /\ None \notin Assertions!Presentations

aVars ==
    <<age, service, agent, key, active, inspected, assertion, asked, vouched, verdicts,
      consumed, outcome, requests, events, lost, dormant, restarted>>

\* ClientAssertions' properties

AcceptedAsMade == Assertions!AcceptedAsMade
RefusalsExplained == Assertions!RefusalsExplained
InactiveWasVerified == Assertions!InactiveWasVerified
=============================================================================
