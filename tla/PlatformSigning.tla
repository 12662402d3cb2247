--------------------------- MODULE PlatformSigning ---------------------------
(***************************************************************************)
(* What a Platform does with the key of an identity: sign, verify and      *)
(* update_identity (crates/aep-platform/src/platform.rs), over             *)
(* MemoryIdentityStore::update_status and MemoryReplayStore (store.rs).    *)
(*                                                                         *)
(* Each call works on the copy of the identity it was authorized for: the  *)
(* copy is as old as the call, whatever the call has waited for since.     *)
(* The calls are of one identity and one Service; the identity is never    *)
(* removed.  As in PlatformProvisioning the idempotency store is reduced   *)
(* to one call per key at a time, and its records outlive the run.         *)
(*                                                                         *)
(* Instants are in seconds: every instant compared here is compared with   *)
(* the whole seconds of a JWT.                                             *)
(***************************************************************************)
EXTENDS Integers

CONSTANTS
    Tasks,          \* calls
    IdempotencyKeys,
    Statuses,       \* of a ManagedAgentStatus
    Active,         \* the one that lets a key be used
    Allowed,        \* the transitions the lifecycle policy allows
    Jtis,
    Issued,         \* assertions signed before the run
    Lifetime,       \* of an assertion that is signed
    Tolerance,      \* RECOMMENDED_CLOCK_SKEW
    MaxTime,        \* bound on the clock
    None            \* not there (yet)

Assertions == [jti : Jtis, exp : Int]

ASSUME ActiveIsStatus == Active \in Statuses
ASSUME AllowedAreTransitions == Allowed \subseteq Statuses \X Statuses
ASSUME IssuedAreAssertions == Issued \subseteq Assertions
ASSUME LifetimeIsPositive == Lifetime \in Nat \ {0}
ASSUME ToleranceIsNat == Tolerance \in Nat
ASSUME MaxTimeIsNat == MaxTime \in Nat

VARIABLES
    status,     \* of the identity record
    replays,    \* the replay store: jti -> expires_at, or None
    memo,       \* idempotency key -> [request, answer, signed] of the stored response, or None
    minted,     \* the assertions the identity's key has signed
    clock,      \* what Clock::now() returns; it never goes back
    pc,         \* where each call is
    request,    \* what each call asks for, or None
    ikey,       \* its idempotency key, or None
    seen,       \* the status in its copy of the identity, or None
    now,        \* the instant it works with: its context's, or the one it read, or None
    answer,     \* what it answers, once that is determined, or None
    signed,     \* the assertion that goes with the answer "signed", or None
    used,       \* ghost: when it signed an assertion or verified one, or None
    sawActive,  \* ghost: the calls that the identity has been active in
    overtaken   \* ghost: the updates in which another update was written

vars == <<status, replays, memo, minted, clock, pc, request, ikey, seen, now, answer, signed,
          used, sawActive, overtaken>>
callVars == <<request, ikey, seen>>
outcome == <<answer, signed>>
ghosts == <<used, sawActive, overtaken>>

Requests ==
    [op : {"sign"}, jti : Jtis] \cup [op : {"verify"}, assertion : Assertions]
        \cup [op : {"update"}, to : Statuses]

\* "replayed" is "unrecognized", from a verification that found the assertion used.
Stored == {"signed", "refused", "pending", "unrecognized", "replayed", "verified"}
Answers == Stored \cup {"turned away", "conflict", "failed", "cancelled", "updated"}
Memos == [request : Requests, answer : Stored, signed : Assertions \cup {None}]
Instants == (0..MaxTime) \cup {None}

ASSUME NoneIsNothing ==
    None \notin Int \cup Statuses \cup IdempotencyKeys \cup Requests \cup Answers \cup Memos

TypeOK ==
    /\ status \in Statuses
    /\ replays \in [Jtis -> Int \cup {None}]
    /\ memo \in [IdempotencyKeys -> Memos \cup {None}]
    /\ minted \subseteq Assertions
    /\ clock \in 0..MaxTime
    /\ pc \in [Tasks -> {"idle", "authorizing", "inside", "stamped", "answered", "done"}]
    /\ request \in [Tasks -> Requests \cup {None}]
    /\ ikey \in [Tasks -> IdempotencyKeys \cup {None}]
    /\ seen \in [Tasks -> Statuses \cup {None}]
    /\ now \in [Tasks -> Instants]
    /\ answer \in [Tasks -> Answers \cup {None}]
    /\ signed \in [Tasks -> Assertions \cup {None}]
    /\ used \in [Tasks -> Instants]
    /\ sawActive \subseteq Tasks
    /\ overtaken \subseteq Tasks

Init ==
    /\ status = Active
    /\ replays = [j \in Jtis |-> None]
    /\ memo = [k \in IdempotencyKeys |-> None]
    /\ minted = Issued
    /\ clock = 0
    /\ pc = [t \in Tasks |-> "idle"]
    /\ request = [t \in Tasks |-> None]
    /\ ikey = [t \in Tasks |-> None]
    /\ seen = [t \in Tasks |-> None]
    /\ now = [t \in Tasks |-> None]
    /\ answer = [t \in Tasks |-> None]
    /\ signed = [t \in Tasks |-> None]
    /\ used = [t \in Tasks |-> None]
    /\ sawActive = {}
    /\ overtaken = {}

----------------------------------------------------------------------------
Goto(t, from, to) == pc[t] = from /\ pc' = [pc EXCEPT ![t] = to]

Says(t, a, s) ==
    /\ answer' = [answer EXCEPT ![t] = a]
    /\ signed' = [signed EXCEPT ![t] = s]

Answer(t, a) == Says(t, a, None)

Asks(t, op) == request[t] # None /\ request[t].op = op

\* in the operation, under the lock of its key
Inside(t) == pc[t] \in {"inside", "stamped", "answered"}

InFlight(t) == pc[t] \notin {"idle", "done"}

\* Fault: the copy's status is not looked at.
MayUseAny(t) == TRUE

\* the lifecycle check before a key is used, on the copy
MayUseKey(t) == seen[t] = Active

----------------------------------------------------------------------------
\* The identity is read, and the authorizer called.
Arrive(t, req) ==
    /\ Goto(t, "idle", "authorizing")
    /\ request' = [request EXCEPT ![t] = req]
    /\ seen' = [seen EXCEPT ![t] = status]
    /\ sawActive' = IF status = Active THEN sawActive \cup {t} ELSE sawActive
    /\ UNCHANGED <<status, replays, memo, minted, clock, outcome, used, overtaken>>

\* sign or verify, with an idempotency key and perhaps a now of the caller's
AskKey(t) ==
    /\ \E j \in Jtis : Arrive(t, [op |-> "sign", jti |-> j])
       \/ \E a \in minted : Arrive(t, [op |-> "verify", assertion |-> a])
    /\ \E k \in IdempotencyKeys : ikey' = [ikey EXCEPT ![t] = k]
    /\ \E at \in {clock, None} : now' = [now EXCEPT ![t] = at]

AskUpdate(t) ==
    /\ \E s \in Statuses : Arrive(t, [op |-> "update", to |-> s])
    /\ UNCHANGED <<ikey, now>>

\* Not authorized, another Service's, or without a key: nothing is stored.
TurnAway(t) ==
    /\ Goto(t, "authorizing", "done")
    /\ Answer(t, "turned away")
    /\ UNCHANGED <<status, replays, memo, minted, clock, callVars, now, ghosts>>

\* the idempotency store runs the operation, replays or refuses
Enter(t) ==
    LET stored == memo[ikey[t]] IN
    /\ Asks(t, "sign") \/ Asks(t, "verify")
    /\ ~\E u \in Tasks : Inside(u) /\ ikey[u] = ikey[t]
    /\ \/ /\ stored = None
          /\ Goto(t, "authorizing", "inside")
          /\ UNCHANGED outcome
       \/ /\ stored # None
          /\ Goto(t, "authorizing", "done")
          /\ IF stored.request = request[t]
             THEN Says(t, stored.answer, stored.signed)
             ELSE Answer(t, "conflict")
    /\ UNCHANGED <<status, replays, memo, minted, clock, callVars, now, ghosts>>

\* The lifecycle, the policy, the sign handler or the assertion says no.
Refuse(t) ==
    /\ Goto(t, "inside", "answered")
    /\ Answer(t, IF Asks(t, "sign") THEN "refused" ELSE "unrecognized")
    /\ UNCHANGED <<status, replays, memo, minted, clock, callVars, now, ghosts>>

\* the sign handler wants to be asked again
Defer(t) ==
    /\ Asks(t, "sign")
    /\ MayUseKey(t)
    /\ Goto(t, "inside", "answered")
    /\ Answer(t, "pending")
    /\ UNCHANGED <<status, replays, memo, minted, clock, callVars, now, ghosts>>

\* key_store.sign, as of the context's now or the clock's; or the sign handler's
SignAssertion(t) ==
    /\ Asks(t, "sign")
    /\ MayUseKey(t)
    /\ Goto(t, "inside", "answered")
    /\ \E at \in {clock} \cup ({now[t]} \ {None}) :
        LET a == [jti |-> request[t].jti, exp |-> at + Lifetime] IN
        /\ minted' = minted \cup {a}
        /\ Says(t, "signed", a)
    /\ used' = [used EXCEPT ![t] = clock]
    /\ UNCHANGED <<status, replays, memo, clock, callVars, now, sawActive, overtaken>>

\* Fault: an error is stored like a response.
FailStored(t) ==
    /\ Goto(t, "inside", "answered")
    /\ Answer(t, "failed")
    /\ UNCHANGED <<status, replays, memo, minted, clock, callVars, now, ghosts>>

\* policy, handler or key store fails, or what they return is invalid
Fail(t) ==
    /\ Goto(t, "inside", "done")
    /\ Answer(t, "failed")
    /\ UNCHANGED <<status, replays, memo, minted, clock, callVars, now, ghosts>>

\* the verification key is there; now is the context's or the clock's
Stamp(t) ==
    /\ Asks(t, "verify")
    /\ MayUseKey(t)
    /\ Goto(t, "inside", "stamped")
    /\ now' = [now EXCEPT ![t] = IF now[t] = None THEN clock ELSE now[t]]
    /\ UNCHANGED <<status, replays, memo, minted, clock, callVars, outcome, ghosts>>

----------------------------------------------------------------------------
\* validate_expected_claims: iat, then exp
InsideWindow(a, at) ==
    /\ a.exp - Lifetime <= at + Tolerance
    /\ a.exp > at - Tolerance

\* Fault: a record goes a second early.
PurgedEarly(at) ==
    [j \in Jtis |-> IF replays[j] # None /\ replays[j] > at + 1 THEN replays[j] ELSE None]

\* records.retain(..)
Purged(at) ==
    [j \in Jtis |-> IF replays[j] # None /\ replays[j] > at THEN replays[j] ELSE None]

\* verify_client_assertion, then consume unless the assertion has expired
Verify(t) ==
    LET a == request[t].assertion
        kept == Purged(now[t])
        usable == InsideWindow(a, now[t]) /\ a.exp > now[t]
    IN
    /\ Goto(t, "stamped", "answered")
    /\ \/ ~usable /\ Answer(t, "unrecognized") /\ UNCHANGED <<replays, used>>
       \/ /\ usable /\ kept[a.jti] # None
          /\ replays' = kept
          /\ Answer(t, "replayed")
          /\ UNCHANGED used
       \/ /\ usable /\ kept[a.jti] = None
          /\ replays' = [kept EXCEPT ![a.jti] = a.exp]
          /\ Answer(t, "verified")
          /\ used' = [used EXCEPT ![t] = clock]
    /\ UNCHANGED <<status, memo, minted, clock, callVars, now, sawActive, overtaken>>

Response(t) == [request |-> request[t], answer |-> answer[t], signed |-> signed[t]]

\* Fault: a pending answer is not stored, so that it can be asked for again.
StoreUnlessPending(t) ==
    /\ Goto(t, "answered", "done")
    /\ memo' = IF answer[t] = "pending" THEN memo
               ELSE [memo EXCEPT ![ikey[t]] = Response(t)]
    /\ UNCHANGED <<status, replays, minted, clock, callVars, now, outcome, ghosts>>

\* the response, pending or a problem included, is stored under the idempotency key
Store(t) ==
    /\ Goto(t, "answered", "done")
    /\ memo' = [memo EXCEPT ![ikey[t]] = Response(t)]
    /\ UNCHANGED <<status, replays, minted, clock, callVars, now, outcome, ghosts>>

----------------------------------------------------------------------------
Updating(u) == Asks(u, "update") /\ InFlight(u)

\* Fault: the policy is not asked.
WriteUnasked(t) ==
    LET to == request[t].to IN
    /\ Asks(t, "update")
    /\ Goto(t, "authorizing", "done")
    /\ status' = to
    /\ Answer(t, "updated")
    /\ sawActive' = IF to = Active THEN sawActive \cup {u \in Tasks : InFlight(u)} ELSE sawActive
    /\ overtaken' = overtaken \cup {u \in Tasks \ {t} : Updating(u)}
    /\ UNCHANGED <<replays, memo, minted, clock, callVars, now, used>>

\* can_transition has judged the copy; update_status overwrites what is there
WriteStatus(t) ==
    LET to == request[t].to IN
    /\ Asks(t, "update")
    /\ Goto(t, "authorizing", "done")
    /\ <<seen[t], to>> \in Allowed
    /\ status' = to
    /\ Answer(t, "updated")
    /\ sawActive' = IF to = Active THEN sawActive \cup {u \in Tasks : InFlight(u)} ELSE sawActive
    /\ overtaken' = overtaken \cup {u \in Tasks \ {t} : Updating(u)}
    /\ UNCHANGED <<replays, memo, minted, clock, callVars, now, used>>

Forbid(t) ==
    /\ Asks(t, "update")
    /\ Goto(t, "authorizing", "done")
    /\ <<seen[t], request[t].to>> \notin Allowed
    /\ Answer(t, "refused")
    /\ UNCHANGED <<status, replays, memo, minted, clock, callVars, now, ghosts>>

\* The future is dropped while it awaits the authorizer, the lock, a policy or a key.
Cancel(t) ==
    /\ \/ Goto(t, "authorizing", "done")
       \/ Goto(t, "inside", "done")
    /\ Answer(t, "cancelled")
    /\ UNCHANGED <<status, replays, memo, minted, clock, callVars, now, ghosts>>

Tick ==
    /\ clock < MaxTime
    /\ clock' = clock + 1
    /\ UNCHANGED <<status, replays, memo, minted, pc, callVars, now, outcome, ghosts>>

Next ==
    \/ Tick
    \/ \E t \in Tasks :
        \/ AskKey(t) \/ AskUpdate(t) \/ TurnAway(t)
        \/ Enter(t) \/ Refuse(t) \/ Defer(t) \/ SignAssertion(t) \/ Fail(t)
        \/ Stamp(t) \/ Verify(t) \/ Store(t)
        \/ WriteStatus(t) \/ Forbid(t) \/ Cancel(t)

Spec == Init /\ [][Next]_vars

----------------------------------------------------------------------------
\* A key signs or vouches for an assertion only in a call during which the identity
\* was active: once a suspension has been answered, and until a reactivation,
\* no new call gets either, though a waiting one may (platform.rs:340, 520).
KeysUsedWhileActive == \A t \in Tasks : used[t] # None => t \in sawActive

\* What an idempotency key has answered it has answered for one request, and always
\* with the same answer, pending and refused included; it is in conflict only with
\* a request that was answered (platform.rs:670-717, store.rs:287-326).
KeyDecidesOnce ==
    \A t, u \in Tasks :
        ikey[t] # None /\ ikey[t] = ikey[u] /\ pc[t] = "done" /\ pc[u] = "done" =>
        /\ answer[t] \in Stored /\ answer[u] \in Stored =>
                Response(t) = Response(u)
        /\ answer[t] = "conflict" =>
                \E v \in Tasks : /\ ikey[v] = ikey[t] /\ request[v] # request[t]
                                 /\ pc[v] = "done" /\ answer[v] \in Stored

VerifiedAnew(t) == used[t] # None /\ Asks(t, "verify")
ExpiryOf(t) == request[t].assertion.exp

\* Two verifications of one jti both vouch for it only when the second was decided
\* after the first one's assertion expired, whatever keys they were called with and
\* whatever instants up to the present (platform.rs:529-566, store.rs:346-363).
VerifiedOncePerLifetime ==
    \A t, u \in Tasks :
        /\ t # u /\ VerifiedAnew(t) /\ VerifiedAnew(u)
        /\ request[t].assertion.jti = request[u].assertion.jti
        => used[t] >= ExpiryOf(u) \/ used[u] >= ExpiryOf(t)

\* The status makes a transition that the policy forbids only by an update during
\* which another one was written: the policy judged a status no longer there
\* (platform.rs:415-425).
ForbiddenNeedsOverlap ==
    [][\/ status' = status
       \/ <<status, status'>> \in Allowed
       \/ \E t \in overtaken : answer[t] = None /\ answer'[t] = "updated"]_vars

----------------------------------------------------------------------------
(***************************************************************************)
(* The inductive invariant behind them.                                    *)
(***************************************************************************)

\* What a call has by the time it is where it is.
CallsInOrder ==
    \A t \in Tasks :
        /\ pc[t] = "idle" =>
                request[t] = None /\ ikey[t] = None /\ now[t] = None /\ t \notin sawActive
        /\ pc[t] # "idle" => request[t] # None
        /\ pc[t] # "idle" => (ikey[t] = None <=> Asks(t, "update"))
        /\ Inside(t) => ikey[t] # None
        /\ pc[t] \in {"idle", "authorizing", "inside", "stamped"} =>
                answer[t] = None /\ used[t] = None
        /\ pc[t] = "answered" => answer[t] \in Stored
        /\ pc[t] = "stamped" => Asks(t, "verify") /\ MayUseKey(t) /\ now[t] # None
        /\ MayUseKey(t) => t \in sawActive
        /\ used[t] # None => MayUseKey(t)

\* No call is ahead of the clock.
TimesArePast ==
    \A t \in Tasks : /\ now[t] # None => now[t] <= clock
                     /\ used[t] # None => used[t] <= clock

\* A copy is what the record is unless another update was written.
CopiesAreCurrent ==
    \A t \in Tasks : Updating(t) => seen[t] = status \/ t \in overtaken

\* One operation per key, none for a key that has answered, and the stored
\* responses are what those that are done have answered.
MemoAgrees ==
    /\ \A t \in Tasks : Inside(t) =>
            /\ memo[ikey[t]] = None
            /\ \A u \in Tasks : Inside(u) /\ ikey[u] = ikey[t] => u = t
    /\ \A t \in Tasks : pc[t] = "done" /\ ikey[t] # None =>
            /\ answer[t] \in Stored => memo[ikey[t]] = Response(t)
            /\ answer[t] = "conflict" =>
                    memo[ikey[t]] # None /\ memo[ikey[t]].request # request[t]
    /\ \A k \in IdempotencyKeys : memo[k] # None =>
            \E v \in Tasks : pc[v] = "done" /\ ikey[v] = k /\ memo[k] = Response(v)

\* A verified assertion stays on record until it expires.
VerifiedOnRecord ==
    \A t \in Tasks : VerifiedAnew(t) =>
        \/ replays[request[t].assertion.jti] = ExpiryOf(t)
        \/ clock >= ExpiryOf(t)

\* What every step of the Platform preserves: copies as old as their calls, one
\* answer per key, a record for every assertion vouched for (platform.rs:300-580).
IInv ==
    /\ TypeOK /\ CallsInOrder /\ TimesArePast /\ CopiesAreCurrent
    /\ MemoAgrees /\ VerifiedOnRecord /\ VerifiedOncePerLifetime

=============================================================================
