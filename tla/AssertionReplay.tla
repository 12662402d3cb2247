-------------------------- MODULE AssertionReplay --------------------------
(***************************************************************************)
(* Client-assertion authentication in aep-service: authenticate_assertion  *)
(* (crates/aep-service/src/authentication.rs) and the replay store it      *)
(* consumes from, MemoryClientAssertionReplayStore (store.rs).             *)
(*                                                                         *)
(* A request reads the clock, awaits the verifier, checks the claims       *)
(* against the instant it read, and consumes (sub, jti) with that same     *)
(* instant.  Everything after the await is local but for one critical      *)
(* section of the replay store, so it is one step.                         *)
(*                                                                         *)
(* Instants are in ticks; iat and exp are in whole seconds, as in a JWT.   *)
(* A token for another Service, operation or resource is refused like one  *)
(* the verifier does not vouch for.                                        *)
(***************************************************************************)
EXTENDS Integers

CONSTANTS
    Requests,       \* requests that present a token
    Tokens,         \* the signed assertions that exist
    Jtis,           \* replay keys (sub, jti)
    Claims,         \* token -> [jti, iat, exp]
    TicksPerSecond,
    Skew,           \* maximum_clock_skew, in ticks
    LastInstant,    \* the last instant OffsetDateTime can represent
    MaxTime,        \* bound on the clock
    None            \* not there (yet)

ASSUME TicksArePositive == TicksPerSecond \in Nat \ {0}
ASSUME SkewIsNat == Skew \in Nat
ASSUME MaxTimeIsNat == MaxTime \in Nat
ASSUME ClaimsHaveType == Claims \in [Tokens -> [jti : Jtis, iat : Int, exp : Int]]
ASSUME LastInstantIsInt == LastInstant \in Int
ASSUME NoneIsNothing == None \notin Int /\ None \notin Tokens

VARIABLES
    records,    \* the replay store: jti -> expires_at, or None
    clock,      \* what Clock::now() returns; it never goes back
    now,        \* the instant each request read on arrival, or None
    token,      \* the token each request presents, or None
    verdict,    \* "none" until the request is decided
    decided     \* ghost: when it was

vars == <<records, clock, now, token, verdict, decided>>

Verdicts == {"none", "refused", "replayed", "accepted"}

TypeOK ==
    /\ records \in [Jtis -> Int \cup {None}]
    /\ clock \in 0..MaxTime
    /\ now \in [Requests -> (0..MaxTime) \cup {None}]
    /\ token \in [Requests -> Tokens \cup {None}]
    /\ verdict \in [Requests -> Verdicts]
    /\ decided \in [Requests -> (0..MaxTime) \cup {None}]

Init ==
    /\ records = [j \in Jtis |-> None]
    /\ clock = 0
    /\ now = [r \in Requests |-> None]
    /\ token = [r \in Requests |-> None]
    /\ verdict = [r \in Requests |-> "none"]
    /\ decided = [r \in Requests |-> None]

----------------------------------------------------------------------------
Timestamp(at) == at \div TicksPerSecond

\* inside_validity_window: in whole seconds, the skew rounded down
InsideWindow(c, at) ==
    LET skew == Skew \div TicksPerSecond IN
    /\ c.iat <= Timestamp(at) + skew
    /\ c.exp > Timestamp(at) - skew

\* Fault: the record is dropped when the token itself expires.
ExpiresUnskewed(c) == c.exp * TicksPerSecond

\* expires_at of the replay record: to the tick, with the whole skew
ExpiresAt(c) == c.exp * TicksPerSecond + Skew

\* checked_add succeeds
Representable(c) == ExpiresAt(c) <= LastInstant

\* the claims are for this request, whose verifier vouched for them
Acceptable(r) ==
    LET c == Claims[token[r]] IN
    /\ InsideWindow(c, now[r])
    /\ Representable(c)

\* Fault: nothing is dropped.
PurgedNever(at) == records

\* records.retain(..)
Purged(at) ==
    [j \in Jtis |-> IF records[j] # None /\ records[j] > at THEN records[j] ELSE None]

Awaiting(r) == now[r] # None /\ verdict[r] = "none"

Decide(r, v) ==
    /\ Awaiting(r)
    /\ verdict' = [verdict EXCEPT ![r] = v]
    /\ decided' = [decided EXCEPT ![r] = clock]
    /\ UNCHANGED <<clock, now, token>>

----------------------------------------------------------------------------
\* Fault: the skew is added to the instant itself.
ArriveSkewed(r) ==
    /\ now[r] = None
    /\ now' = [now EXCEPT ![r] = clock + Skew]
    /\ \E a \in Tokens : token' = [token EXCEPT ![r] = a]
    /\ UNCHANGED <<records, clock, verdict, decided>>

\* clock.now(), then the verifier is called
Arrive(r) ==
    /\ now[r] = None
    /\ now' = [now EXCEPT ![r] = clock]
    /\ \E a \in Tokens : token' = [token EXCEPT ![r] = a]
    /\ UNCHANGED <<records, clock, verdict, decided>>

\* verify() failed, or a check on the claims did
Refuse(r) ==
    /\ Decide(r, "refused")
    /\ UNCHANGED records

\* Fault: what is consumed is not looked up first.
ConsumeBlindly(r) ==
    LET c == Claims[token[r]] IN
    /\ Awaiting(r)
    /\ Acceptable(r)
    /\ records' = [Purged(now[r]) EXCEPT ![c.jti] = ExpiresAt(c)]
    /\ Decide(r, "accepted")

\* Fault: what is consumed has not been checked.
ConsumeUnchecked(r) ==
    LET c == Claims[token[r]]
        kept == Purged(now[r])
    IN
    /\ Awaiting(r)
    /\ kept[c.jti] = None
    /\ records' = [kept EXCEPT ![c.jti] = ExpiresAt(c)]
    /\ Decide(r, "accepted")

\* verify() succeeded, the claims pass, and consume() settles it
Consume(r) ==
    LET c == Claims[token[r]]
        kept == Purged(now[r])
    IN
    /\ Awaiting(r)
    /\ Acceptable(r)
    /\ \/ /\ kept[c.jti] # None
          /\ records' = kept
          /\ Decide(r, "replayed")
       \/ /\ kept[c.jti] = None
          /\ records' = [kept EXCEPT ![c.jti] = ExpiresAt(c)]
          /\ Decide(r, "accepted")

Tick ==
    /\ clock < MaxTime
    /\ clock' = clock + 1
    /\ UNCHANGED <<records, now, token, verdict, decided>>

Next == Tick \/ \E r \in Requests : Arrive(r) \/ Refuse(r) \/ Consume(r)

Spec == Init /\ [][Next]_vars

----------------------------------------------------------------------------
Accepted(r) == verdict[r] = "accepted"
JtiOf(r)    == Claims[token[r]].jti
ExpiryOf(r) == ExpiresAt(Claims[token[r]])

\* Two requests authenticated with one (sub, jti) only when the second was
\* decided after the first one's record expired: until then the store refuses
\* it (authentication.rs:75-86, store.rs:113-129).
AcceptedOncePerLifetime ==
    \A r, s \in Requests :
        Accepted(r) /\ Accepted(s) /\ JtiOf(r) = JtiOf(s) /\ r # s =>
            decided[r] >= ExpiryOf(s) \/ decided[s] >= ExpiryOf(r)

\* One token authenticates two requests only with the help of a third: one that
\* arrived once the record had expired, and so purged it while the second was
\* still being verified (authentication.rs:38-86, store.rs:120).
SecondUseNeedsPurge ==
    \A r, s \in Requests :
        Accepted(r) /\ Accepted(s) /\ token[r] = token[s] /\ r # s =>
            \E q \in Requests \ {r, s} : now[q] # None /\ now[q] >= ExpiryOf(r)

\* A request is refused as a replay only when another one was authenticated with
\* the same (sub, jti), whose record had not expired when this one arrived.
ReplaysAreReplays ==
    \A r \in Requests : verdict[r] = "replayed" =>
        \E s \in Requests \ {r} :
            Accepted(s) /\ JtiOf(s) = JtiOf(r) /\ ExpiryOf(s) > now[r]

\* The service's claim: no assertion authenticates twice.
AcceptedOnce ==
    \A r, s \in Requests :
        Accepted(r) /\ Accepted(s) /\ token[r] = token[s] => r = s

----------------------------------------------------------------------------
(***************************************************************************)
(* The inductive invariant behind them.                                    *)
(***************************************************************************)

\* What a request has read lies in the past, and a verdict follows an arrival.
RequestsInOrder ==
    \A r \in Requests :
        /\ now[r] # None => token[r] # None /\ now[r] <= clock
        /\ now[r] = None => verdict[r] = "none"
        /\ verdict[r] # "none" => decided[r] # None

\* An authenticated request was inside its token's window when it arrived.
AcceptedInWindow ==
    \A r \in Requests : Accepted(r) => InsideWindow(Claims[token[r]], now[r])

\* The replay record of an authenticated request stays until a request arrives
\* that finds it expired.
AcceptedOnRecord ==
    \A r \in Requests : Accepted(r) =>
        \/ records[JtiOf(r)] = ExpiryOf(r)
        \/ \E q \in Requests : now[q] # None /\ now[q] >= ExpiryOf(r)

\* Every record was left by a request that it authenticated.
RecordIsAccepted ==
    \A j \in Jtis : records[j] # None =>
        \E r \in Requests : Accepted(r) /\ JtiOf(r) = j /\ ExpiryOf(r) = records[j]

\* What a step of the authentication preserves: a record for every request it
\* let in, a request for every record (authentication.rs:75-86).
IInv ==
    /\ TypeOK /\ RequestsInOrder /\ AcceptedInWindow
    /\ AcceptedOnRecord /\ RecordIsAccepted
    /\ AcceptedOncePerLifetime /\ SecondUseNeedsPurge /\ ReplaysAreReplays

============================================================================
