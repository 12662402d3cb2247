----------------------- MODULE MCPlatformProvisioning -----------------------
(***************************************************************************)
(* How an Agent gets an identity, for TLC: one of the two parts of         *)
(* PlatformIdentities runs, with the usual configuration of a Platform     *)
(* changed in one thing, or in things that are checked together.           *)
(***************************************************************************)
EXTENDS PlatformIdentities, TLC

Path(holes) == [absolute |-> TRUE, within |-> TRUE, holes |-> holes, braces |-> FALSE]

Usual ==
    [host |-> "public", prefix |-> "plain", name |-> "plain", did |-> None,
     template |-> [holes |-> 1, scheme |-> "https", follows |-> TRUE],
     algorithms |-> <<"EdDSA", "ES256">>, maximum |-> 2, default |-> 1,
     hosted |-> FALSE, replayStore |-> FALSE, verification |-> None, base |-> Path(0),
     paths |-> [r \in {"lifecycle", "list", "provision", "sign"} |->
                    Path(IF r \in {"lifecycle", "sign"} THEN 1 ELSE 0)],
     authorizes |-> TRUE, resolves |-> TRUE, handles |-> FALSE]

OddOnes ==
    {[Path(1) EXCEPT !.absolute = FALSE], [Path(1) EXCEPT !.within = FALSE],
     [Path(1) EXCEPT !.braces = TRUE], Path(0), Path(1), Path(2)}

\* the usual configuration with one or two things changed
MCOptions ==
    {[Usual EXCEPT !.host = h, !.handles = b] :
        h \in {"public", "loopback", "improper"}, b \in BOOLEAN}
    \cup {[Usual EXCEPT !.prefix = "odd"], [Usual EXCEPT !.name = "empty"],
          [Usual EXCEPT !.authorizes = FALSE], [Usual EXCEPT !.resolves = FALSE]}
    \cup {[Usual EXCEPT !.did = d] : d \in {"did", "other"}}
    \cup {[Usual EXCEPT !.template = t] :
            t \in [holes : 0..2, scheme : {"https", "http"}, follows : BOOLEAN]}
    \cup {[Usual EXCEPT !.algorithms = a] :
            a \in {<<>>, <<"ES256", "ES256">>, <<"EdDSA", "RS256">>}}
    \cup {[Usual EXCEPT !.maximum = m, !.default = d] : m \in 0..3, d \in 0..3}
    \cup {[Usual EXCEPT !.hosted = h, !.replayStore = s, !.verification = v] :
            h \in BOOLEAN, s \in BOOLEAN, v \in {None} \cup OddOnes}
    \cup {[Usual EXCEPT !.paths[r] = p] : r \in DOMAIN Usual.paths, p \in OddOnes}
    \cup {[Usual EXCEPT !.base = p] : p \in OddOnes}

MCProviders ==
    {[loopback |-> FALSE, resolver |-> TRUE, service |-> "did"],
     [loopback |-> TRUE, resolver |-> FALSE, service |-> "did"],
     [loopback |-> FALSE, resolver |-> FALSE, service |-> "prefix only"]}

MCClaims == [lifetime : 1..2, resource : {None, "https", "http"}]

Jwk ==
    [alg |-> "EdDSA", kid |-> "own", private |-> {}, use |-> "sig", ops |-> None, type |-> "EdDSA"]

MCMethods ==
    {[controlled |-> FALSE, jwk |-> Jwk]} \cup [controlled : {TRUE}, jwk :
        {[Jwk EXCEPT !.alg = a] : a \in {None, "EdDSA", "RS256"}}
        \cup {[Jwk EXCEPT !.kid = "other"], [Jwk EXCEPT !.private = {"p"}],
              [Jwk EXCEPT !.use = "enc"], [Jwk EXCEPT !.ops = {"sign"}]}]

\* every label on what is right, and what is wrong in one way
MCHandled ==
    LET A(status, type, body) ==
            [status |-> status, type |-> type, body |-> body, says |-> status,
             retryAfter |-> FALSE, retry |-> None, assertion |-> FALSE, names |-> None,
             lifetime |-> None, data |-> {}, count |-> 0, total |-> 0]
        Labels == {"aep", "problem", "other", None}
        Done == [A(200, "aep", "completed") EXCEPT !.assertion = TRUE, !.names = "own", !.lifetime = 1]
        Pending == [A(202, "aep", "pending") EXCEPT !.retry = 1]
        Refusal == A(403, "problem", "problem")
    IN
    {[Done EXCEPT !.lifetime = l, !.type = t] : l \in 1..2, t \in Labels}
    \cup {[Pending EXCEPT !.type = t] : t \in Labels}
    \cup {[Refusal EXCEPT !.type = t] : t \in Labels}
    \cup {[Pending EXCEPT !.retry = 0], [Pending EXCEPT !.retryAfter = TRUE],
          [Pending EXCEPT !.names = "own"], [Done EXCEPT !.names = "other"],
          [Done EXCEPT !.assertion = FALSE], [Done EXCEPT !.status = 202],
          [Done EXCEPT !.retry = 1], [Refusal EXCEPT !.says = 400], A(200, "problem", "problem")}

MCIds == {"plain", "odd", "empty"}

\* the calls that may not be dropped are alike, and the scopes
ProvisionSymmetry == Permutations(Tasks \ Cancellable) \cup Permutations(Keys)

MCInit == Init /\ Exchange!Init

Unprovisioned == \A t \in Tasks : pc[t] = "idle"

NoExchange ==
    /\ options = Usual
    /\ provider = CHOOSE p \in MCProviders : TRUE
    /\ calls = 0 /\ events = 0

MCNext ==
    \/ NoExchange /\ Next /\ UNCHANGED exchangeVars
    \/ Unprovisioned /\ Exchange!Next /\ UNCHANGED vars

MCSpec == MCInit /\ [][MCNext]_<<vars, exchangeVars>>
=============================================================================
