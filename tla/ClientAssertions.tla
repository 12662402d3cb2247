-------------------------- MODULE ClientAssertions --------------------------
(***************************************************************************)
(* One client assertion from end to end: the Agent makes its claims        *)
(* (crates/aep-agent/src/client.rs), its own key or its Platform signs     *)
(* them, and the Service authenticates a request with it                   *)
(* (crates/aep-service/src/authentication.rs) through the verifier it has: *)
(* the key in the Agent's DID document (crates/aep-core/src/jwt.rs,        *)
(* did_web.rs), the hosting Platform (crates/aep-service/src/hosted.rs,    *)
(* crates/aep-platform/src/platform.rs), or one of the application's own   *)
(* that checks the signature and nothing else.                             *)
(*                                                                         *)
(* now is how many seconds ago the assertion was made, by the Service's    *)
(* clock; whoever signs has one of his own, which is ahead of it by drift. *)
(* The Platform keeps its verdicts far longer than an assertion lives, so  *)
(* that its own replay store, which PlatformSigning has, never decides     *)
(* about an assertion it has already judged.                               *)
(***************************************************************************)
EXTENDS Integers

CONSTANTS
    Resources,          \* URLs of protected resources
    Services,           \* [did, skew, verifier] a Service may be given
    Algorithms,         \* that every Service has to advertise
    Agents,             \* [hosted, algorithms, lifetime, drift] an Agent may be
    MaxLifetime,        \* MAX_ASSERTION_LIFETIME
    Tolerance,          \* RECOMMENDED_CLOCK_SKEW
    MaxRequests,        \* bound of the requests that present the assertion
    MaxTime,            \* bound of the clock
    MaxEvents,          \* bound of what happens to the parties meanwhile
    None

VARIABLES
    now,
    service,    \* the Service's configuration
    agent,      \* the Agent and its identity
    key,        \* [version, algorithm] of the identity's key, and so of its DID document
    active,     \* whether the identity is active at its Platform; TRUE without one
    inspected,  \* the configuration the Agent has inspected
    token,      \* the assertion, or None
    asked,      \* the request under way: [request, service, at, since], or None;
                \* since is a ghost: whether the identity has been inactive since it arrived
    vouched,    \* what the verifier said of it, or None
    memo,       \* the Platform: [request, did] -> its verdict, where it has given one
    consumed,   \* the Service's replay record of the assertion: when it expires, or None
    outcome,    \* of the request
    requests,   \* how many have been made
    events,     \* how often something has happened to the parties
    lost,       \* ghost: whether an answer of the Platform has been lost
    dormant,    \* ghost: whether the identity has been inactive since the assertion was made
    restarted   \* ghost: whether the Service has been given another configuration

partyVars == <<service, agent, key, active, inspected, events>>
requestVars == <<asked, vouched, outcome>>
serviceVars == <<consumed, requests>>
ghostVars == <<lost, dormant, restarted>>
vars == <<now, partyVars, token, requestVars, serviceVars, memo, ghostVars>>

\* enroll stands for every command
Purposes ==
    [op : {"enroll"}, resource : {None}] \cup [op : {"authenticate"}, resource : Resources]

NoVerdicts == [q \in {} |-> TRUE]

Init ==
    /\ now = 0
    /\ service \in Services /\ inspected = service
    /\ agent \in Agents
    /\ key \in [version : {0}, algorithm : agent.algorithms]
    /\ active = TRUE
    /\ token = None
    /\ asked = None /\ vouched = None /\ outcome = None
    /\ memo = NoVerdicts
    /\ consumed = None /\ requests = 0 /\ events = 0
    /\ lost = FALSE /\ dormant = FALSE /\ restarted = FALSE

----------------------------------------------------------------------------
\* The Agent

\* validate_client_assertion_claims
ValidClaims(t) ==
    /\ (t.request.op = "authenticate") = (t.request.resource # None)
    /\ t.exp > t.iat
    /\ t.exp - t.iat <= MaxLifetime

\* compatible_algorithms, of which validate_inspect_document requires the same of every
\* Service
Compatible == agent.algorithms \cap Algorithms

\* sign_assertion, with the identity's own key, which its signer has to choose among the
\* compatible ones, or at the Platform, whose Sign request names no algorithm
Sign(r) ==
    LET iat == agent.drift
        t == [aud |-> inspected.did, request |-> r, iat |-> iat, exp |-> iat + agent.lifetime,
              key |-> key] IN
    /\ token = None
    /\ Compatible # {}
    /\ IF agent.hosted THEN active ELSE key.algorithm \in Compatible
    /\ ValidClaims(t)
    /\ token' = t
    /\ dormant' = FALSE
    /\ UNCHANGED <<now, partyVars, requestVars, serviceVars, memo, lost, restarted>>

----------------------------------------------------------------------------
\* The Service

\* authenticate_assertion is called for a request that has the assertion, which was made
\* for it or for another one
Ask(r) ==
    /\ token # None /\ asked = None
    /\ requests < MaxRequests
    /\ requests' = requests + 1
    /\ asked' = [request |-> r, service |-> service, at |-> now, since |-> ~active]
    /\ UNCHANGED <<now, partyVars, token, vouched, outcome, consumed, memo, ghostVars>>

\* Fault: the tolerance makes the window narrower
NarrowWindow(t, at, tolerance) == t.iat <= at - tolerance /\ t.exp > at + tolerance

\* inside_validity_window, and the end of validate_expected_claims
InsideWindow(t, at, tolerance) == t.iat <= at + tolerance /\ t.exp > at - tolerance

\* validate_expected_claims: without an expected resource it compares none
Expected(t, did, r, at) ==
    /\ t.aud = did
    /\ t.request.op = r.op
    /\ r.resource # None => t.request.resource = r.resource
    /\ InsideWindow(t, at, Tolerance)

\* verify_client_assertion with key k
Verifies(t, k, algorithms, did, r, at) ==
    /\ k.algorithm \in algorithms
    /\ t.key = k
    /\ ValidClaims(t)
    /\ Expected(t, did, r, at)

Verifying(verifier) ==
    asked # None /\ vouched = None /\ outcome = None /\ asked.service.verifier = verifier

Vouch(verdict) ==
    /\ vouched' = verdict
    /\ UNCHANGED <<now, partyVars, token, asked, outcome, serviceVars, dormant, restarted>>

\* DidWebClientAssertionVerifier: the document has one key, and is gone with the identity
ResolveKey ==
    /\ Verifying("did:web")
    /\ Vouch(active /\ Verifies(token, key, Algorithms, asked.service.did, asked.request, asked.at))
    /\ UNCHANGED <<memo, lost>>

CheckSignature ==
    /\ Verifying("own")
    /\ Vouch(key = token.key)
    /\ UNCHANGED <<memo, lost>>

\* no DID document, or no Platform, within reach
CannotVerify ==
    /\ Verifying("did:web") \/ Verifying("hosted")
    /\ vouched' = FALSE /\ outcome' = "failed"
    /\ UNCHANGED <<now, partyVars, token, asked, serviceVars, memo, ghostVars>>

\* Fault: a verdict is given whatever the identity's status
PlatformAgreesAlways ==
    LET q == asked.request IN
    Verifies(token, key, agent.algorithms, asked.service.did, q, now + agent.drift)

\* verify_assertion
PlatformAgrees ==
    LET q == asked.request IN
    /\ active
    /\ Verifies(token, key, agent.algorithms, asked.service.did, q, now + agent.drift)

\* an algorithm the Service advertises, and an identity the Platform hosts, for this Service
Recognized ==
    /\ token.key.algorithm \in Algorithms
    /\ agent.hosted /\ token.aud = asked.service.did

\* verify at the Platform: it knows the identities it hosts, each for one Service, and
\* answers a request it has judged before as it did then
AskPlatform ==
    LET q == [request |-> asked.request, did |-> asked.service.did] IN
    /\ Verifying("hosted")
    /\ Recognized
    /\ memo' = IF q \in DOMAIN memo THEN memo
               ELSE [p \in DOMAIN memo \cup {q} |-> IF p = q THEN PlatformAgrees ELSE memo[p]]
    /\ \/ Vouch(memo'[q]) /\ UNCHANGED lost
       \/ /\ vouched' = FALSE /\ outcome' = "failed"
          /\ lost' = TRUE
          /\ UNCHANGED <<now, partyVars, token, asked, serviceVars, dormant, restarted>>

NotOfThePlatform ==
    /\ Verifying("hosted")
    /\ ~Recognized
    /\ Vouch(FALSE)
    /\ UNCHANGED <<memo, lost>>

\* Fault: what the verifier vouches for is not compared with the request again
VouchedClaims == vouched /\ ValidClaims(token) /\ InsideWindow(token, asked.at, asked.service.skew)

\* the checks on the claims, whoever vouched for them
Acceptable ==
    /\ vouched
    /\ ValidClaims(token)
    /\ token.aud = asked.service.did
    /\ token.request = asked.request
    /\ InsideWindow(token, asked.at, asked.service.skew)

\* consume
Unconsumed == consumed = None \/ consumed <= asked.at

Decide ==
    /\ vouched # None /\ outcome = None
    /\ outcome' = CASE ~Acceptable -> "refused"
                    [] Acceptable /\ ~Unconsumed -> "replayed"
                    [] OTHER -> "accepted"
    /\ consumed' = IF outcome' = "accepted" THEN token.exp + asked.service.skew ELSE consumed
    /\ UNCHANGED <<now, partyVars, token, asked, vouched, requests, memo, ghostVars>>

Return ==
    /\ outcome # None
    /\ asked' = None /\ vouched' = None /\ outcome' = None
    /\ UNCHANGED <<now, partyVars, token, serviceVars, memo, ghostVars>>

----------------------------------------------------------------------------
\* What happens meanwhile

Tick ==
    /\ token # None
    /\ now < MaxTime
    /\ now' = now + 1
    /\ UNCHANGED <<partyVars, token, requestVars, serviceVars, memo, ghostVars>>

Event == events < MaxEvents /\ events' = events + 1

\* restarted with another configuration, which the Agent has not inspected
Reconfigure ==
    /\ Event
    /\ service' \in Services \ {service}
    /\ restarted' = TRUE
    /\ UNCHANGED <<now, agent, key, active, inspected, token, requestVars, serviceVars, memo, lost, dormant>>

\* the identity has a new key
Rotate ==
    /\ Event
    /\ \E a \in agent.algorithms : key' = [version |-> key.version + 1, algorithm |-> a]
    /\ UNCHANGED <<now, service, agent, active, inspected, token, requestVars, serviceVars, memo, ghostVars>>

\* paused or terminated at the Platform
Deactivate ==
    /\ Event
    /\ agent.hosted /\ active
    /\ active' = FALSE /\ dormant' = TRUE
    /\ UNCHANGED <<now, service, agent, key, inspected, token, requestVars, serviceVars, memo, lost, restarted>>

Reactivate ==
    /\ Event
    /\ ~active
    /\ active' = TRUE
    /\ asked' = IF asked = None THEN None ELSE [asked EXCEPT !.since = FALSE]
    /\ UNCHANGED <<now, service, agent, key, inspected, token, vouched, outcome, serviceVars, memo, ghostVars>>

Next ==
    \/ \E r \in Purposes : Sign(r) \/ Ask(r)
    \/ ResolveKey \/ CheckSignature \/ CannotVerify \/ AskPlatform \/ NotOfThePlatform
    \/ Decide \/ Return
    \/ Tick \/ Reconfigure \/ Rotate \/ Deactivate \/ Reactivate

Spec == Init /\ [][Next]_vars

----------------------------------------------------------------------------
Smaller(a, b) == IF a < b THEN a ELSE b

\* the tolerance that the verifier and the Service leave between them; the Platform
\* compares with the clock it signed by
Slack == IF asked.service.verifier = "did:web" THEN Smaller(Tolerance, asked.service.skew)
         ELSE asked.service.skew

\* An assertion authenticates no other command, resource or Service than it was made
\* for, whatever the Service's verifier checks, and only within its lifetime and the
\* tolerance it has configured, or the recommended one where it resolves the key and that
\* one is smaller (authentication.rs:51, 89-127).
AcceptedAsMade ==
    outcome = "accepted" =>
        /\ token.request = asked.request
        /\ token.aud = asked.service.did
        /\ asked.at < agent.lifetime + agent.drift + Slack
        /\ agent.drift <= asked.at + Slack

\* Something has happened to the parties: the Service was reconfigured after the
\* inspection, the key was rotated, the identity has been inactive, or they took longer
\* than the lifetime, or the clocks are further apart, than the tolerance covers.
Explained ==
    \/ asked.service # inspected
    \/ token.key # key
    \/ dormant
    \/ asked.at >= agent.lifetime + agent.drift + Slack
    \/ asked.service.verifier = "hosted" /\ now >= agent.lifetime + Tolerance
    \/ agent.drift > Slack

\* A Service refuses a request with the assertion its Agent has made for it only when
\* something has happened to them, or it asks a Platform that does not host the Agent
\* (authentication.rs:51-127, hosted.rs:96-131, jwt.rs:340-384).
RefusalsExplained ==
    outcome = "refused" /\ asked.request = token.request =>
        \/ Explained
        \/ asked.service.verifier = "hosted" /\ ~agent.hosted

\* A Service that asks the Platform accepts an identity that was inactive when the request
\* arrived, and still is, only if it had asked before and had not consumed the assertion:
\* the answer was lost, or the assertion was ahead of its clock, or it was configured
\* otherwise then.  The Platform repeats a verdict for the retention, whatever has become
\* of the identity, and only the Service's replay record keeps it from being used
\* (hosted.rs:131, platform.rs:455-466).
InactiveWasVerified ==
    outcome = "accepted" /\ asked.service.verifier = "hosted" /\ asked.since =>
        /\ requests > 1
        /\ lost \/ agent.drift > asked.service.skew \/ restarted

----------------------------------------------------------------------------
(***************************************************************************)
(* The inductive invariant behind them.                                    *)
(***************************************************************************)
Dids == {s.did : s \in Services}

KeysOf(a) == [version : Nat, algorithm : a.algorithms]

Presentations == [request : Purposes, service : Services, at : Nat, since : BOOLEAN]

TypeOK ==
    /\ now \in Nat
    /\ service \in Services /\ inspected \in Services
    /\ agent \in Agents
    /\ key \in KeysOf(agent)
    /\ active \in BOOLEAN
    /\ token \in [aud : Dids, request : Purposes, iat : Int, exp : Int, key : KeysOf(agent)]
                 \cup {None}
    /\ asked \in Presentations \cup {None}
    /\ vouched \in BOOLEAN \cup {None}
    /\ memo \in [DOMAIN memo -> BOOLEAN]
    /\ consumed \in Int \cup {None}
    /\ outcome \in {"failed", "refused", "replayed", "accepted", None}
    /\ requests \in Nat
    /\ {lost, dormant, restarted} \subseteq BOOLEAN

\* A request has an assertion, and is vouched for before it is decided.
InOrder ==
    /\ asked # None => token # None /\ requests > 0 /\ asked.at <= now
    /\ asked # None /\ asked.since => ~active
    /\ vouched # None => asked # None
    /\ outcome # None => vouched # None
    /\ outcome = "accepted" => vouched = TRUE
    /\ consumed # None => token # None

\* What the assertion says, as long as the key it was signed with, and what the identity
\* has been through since.
SignedAsMade ==
    /\ agent.hosted \/ active
    /\ token # None =>
        /\ ValidClaims(token)
        /\ token.iat = agent.drift /\ token.exp = agent.drift + agent.lifetime
        /\ token.aud = inspected.did
        /\ token.key = key \/ token.key.version < key.version
        /\ token.key.algorithm \in Algorithms
        /\ active \/ dormant

\* Until it is restarted the Service is as the Agent has inspected it, and so is its
\* replay record.
AsInspected ==
    restarted \/
        /\ service = inspected
        /\ asked # None => asked.service = inspected
        /\ consumed # None => consumed = token.exp + inspected.skew

\* What vouches for an assertion has checked it; what does not has a reason.
VouchedFor ==
    /\ vouched = TRUE /\ asked.service.verifier = "did:web" =>
        InsideWindow(token, asked.at, Tolerance)
    /\ vouched = FALSE /\ outcome # "failed" /\ asked.request = token.request =>
        \/ Explained
        \/ asked.service.verifier = "hosted" /\ ~agent.hosted

\* So does the Platform, which has its verdict from an earlier request, or this one.
JudgedByThePlatform ==
    /\ memo # NoVerdicts =>
        /\ token # None /\ requests > 0
        /\ asked # None /\ vouched = None => requests > 1
    /\ \A q \in DOMAIN memo :
        ~memo[q] /\ q.request = token.request =>
            dormant \/ token.key # key \/ now >= agent.lifetime + Tolerance
    /\ vouched = TRUE /\ asked.service.verifier = "hosted" =>
        /\ [request |-> asked.request, did |-> asked.service.did] \in DOMAIN memo
        /\ memo[[request |-> asked.request, did |-> asked.service.did]]
        /\ asked.since => requests > 1

Arrival == IF asked = None THEN now ELSE asked.at

\* The Platform vouches for the request the assertion was made for only once to any
\* effect: the request is being decided, or what came of it keeps a second one out.
UsedOrUnderWay ==
    LET q == [request |-> token.request, did |-> token.aud] IN
    token # None /\ q \in DOMAIN memo /\ memo[q] =>
        \/ lost \/ agent.drift > inspected.skew \/ restarted
        \/ consumed = token.exp + inspected.skew
        \/ Arrival >= token.exp + inspected.skew
        \/ /\ vouched = TRUE /\ outcome = None
           /\ asked.request = token.request /\ ~asked.since

\* What a step of the parties preserves.
IInv ==
    /\ TypeOK /\ InOrder /\ SignedAsMade /\ AsInspected /\ VouchedFor
    /\ JudgedByThePlatform /\ UsedOrUnderWay
    /\ AcceptedAsMade /\ RefusalsExplained /\ InactiveWasVerified

=============================================================================
