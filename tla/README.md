# TLA+ verification of aep-rust

aep-rust implements both sides of the Agent Enrollment Protocol: an Agent proves control of a
DID with short-lived, single-use assertions, enrolls with a Service, is granted session
credentials, and may let a Platform hold its signing keys. This directory models two things:
the places where concurrent calls read and write shared state, and the places where two parties,
each with checks of its own, have to understand each other. TLC checks the models on small
instances, and TLAPS proves what the runs check, liveness aside, for every value of the constants.

Paths below are relative to `crates/`; `service.rs:414` and the like name a line.

## Contents

| Module | What it is |
|---|---|
| *Shared state* | |
| `KeyedLock` | the lock table shared by the in-memory stores: a mutex per key, created and removed on demand |
| `IdempotencyStore` | `MemoryCommandIdempotencyStore::execute`, on top of `KeyedLock` |
| `IdempotentCommands` | what that store promises: every call answered in one atomic step |
| `AssertionReplay` | `authenticate_assertion` and `MemoryClientAssertionReplayStore` |
| `Enrollment` | `execute_enroll`, `update_enrollment` and the application behind them |
| `ServiceCredentials` | grant, revoke and session authentication over the credential store |
| `PlatformProvisioning` | `provision` and `MemoryIdentityStore::find_or_create`, on top of `KeyedLock` |
| `ProvisionedIdentities` | what provisioning promises: every call takes effect in one step, and a scope keeps its identity |
| `PlatformSigning` | `sign`, `verify`, `update_identity`, `update_status` and `MemoryReplayStore` |
| `HttpCache`, `AgentInspection` | freshness of HTTP responses; `Session::inspect` over a shared `MemoryInspectCache` |
| `AgentSession` | `resolve_identity`, grant, revoke and the choice of a credential over shared stores |
| `AgentWait` | `wait_for_active` over the pending-Sign loop of the Platform provider |
| *What parties make of each other* | |
| `Protocol` | the validators of aep-core, as predicates on records |
| `CommandExchange` | enroll, status and grant: what is sent, decided, answered and read |
| `ClientAssertions` | one assertion from whoever signs it to each kind of verifier |
| `PlatformDocuments`, `PlatformExchange` | a Platform's configuration and documents; discovery, provisioning, signing and key resolution |
| `HttpCommands` | a command over HTTP, through intermediaries and a mounted adapter |
| `Authorizations`, `ProtectedResources` | authorization headers; a request for a resource from the choice of a credential to the principal |
| `InspectDocuments`, `OpenApi`, `Introductions` | a Service's configuration and Inspect document; the OpenAPI document; an Agent that goes by them |
| *Sums* | |
| `ServiceAssertions` | `AssertionReplay` or `ClientAssertions` |
| `PlatformIdentities` | `PlatformProvisioning` or `PlatformExchange` |
| `EndToEnd` | `CommandExchange`, `HttpCommands` or `ProtectedResources` |
| `Encounters` | `Introductions`, for the sum with `Enrollment` |
| *Proofs* | |
| `*Proofs` | theorems about the module of the same name, for seven of the modules of shared state, and about exchanges |
| `AgentProofs` | theorems about `AgentSession`, `Introductions` and `OpenApi` |
| *Instances* | |
| `MC*` | inputs, restored records and symmetries for TLC |

A sum has several modules as instances, with constants for what they range over (configurations,
inputs, keys, policies) and the assumptions about them; its `MC` module (`MCAssertions`,
`MCPlatformProvisioning`, `MCCommandExchange`) gives the constants their small sets. `MCEnrollment`
is such a sum of `Enrollment` and `Encounters` with its sets, and `MCCallsReturn` one of
`AgentWait`, `IdempotencyStore` and `PlatformProvisioning`. The parts share no variable, so a
behaviour runs one of them while the others stay in an initial state; one run then covers one
subject, and the theorems are about the specification of each part.

The `*.cfg` files give the constants their values. `PROJECT.json` maps every definition to the
lines it stands for, and lists runs, faults, hazards, findings and theorems.
Definitions whose comment starts with "Fault" are the plausible bugs that each property is
tried against: substituted for the definition below them they must break the property.

    tlc -workers 2 -config IdempotencyStore_safety.cfg MCIdempotencyStore
    tlapm IdempotencyStoreProofs.tla

## The system

### Components, their state and operations

**aep-service** (the Service side)

- *Command idempotency store* (`aep-service/src/store.rs:131-250`). State: a table of locks and a
  table of records, each behind a std mutex. One operation, `execute`: clone the lock of
  (Agent, key), await it, sweep records past their retention of one hour, then replay, refuse
  (409) or run the operation and record its response. Hard: the lock entry is removed by
  counting references; the operation awaits; the caller may drop the future at any await.
  Correct when operations of one key never overlap, a completed one is not repeated within the
  retention, and a replay is what was answered to the same request.
- *Assertion authentication* (`authentication.rs`, `store.rs:108-129`). State: replay records
  (sub, jti) -> expiration. One read of the clock, an await on the verifier, checks on the
  claims, then the record is consumed as of that first read. Hard: stale time, whole-second
  windows against sub-second expirations, clock skew, two verifiers that check different things.
  Correct when an assertion that has been used is refused for as long as it could still pass the
  checks, and one that is properly made is accepted for what it was made for, and nothing else.
- *Enrollment* (`service.rs:74-143, 396-554`). State: one record per Agent. `enroll` merges
  claims and acknowledgements into the record it found, after awaiting the policy. Hard:
  read-modify-write without compare-and-set, several keys at once, an application that edits
  the same record. Correct when updates preserve what they do not name, requirements hold of
  every record, and acknowledgements are never invented.
- *Grant, revoke, sessions* (`service.rs:145-394`, `credentials.rs`). State: credentials by id,
  with type, hashed secret, expiration and revocation. Hard: decisions on an enrollment read
  before a queue; a revoke that walks through the credential types with an await each; failure
  half way. Correct when secrets are unique, a completed revoke is complete and final.
- *Hosted verification client* (`hosted.rs`). Stateless; a deadline raced against one request,
  whose answer the Platform may repeat. Correct when a repeated verdict authenticates nothing.
- *Configuration and documents* (`service.rs:617-760` and the validators of aep-core). Static once
  built, but a Service is built anew while Agents hold its documents. Correct when whatever can
  be built can be read and used by the Agent.

**aep-platform** (holds Agents' keys)

- *Provisioning and identity store* (`platform.rs:240-298, 582-615`, `store.rs:17-223`). State:
  identities indexed by scope (principal, service DID), by Agent DID and by DID id; keys in the
  application's key store; a lock table by scope. Hard: a scope lock awaited inside a key lock,
  a key made before uniqueness is known. Correct when a scope has one identity and every
  answer names it.
- *Idempotency store* (`store.rs:225-332`). The same algorithm as the Service's.
- *Signing, lifecycle, hosted verification* (`platform.rs:300-580`). Identity status, pending
  answers stored under a key, the Platform's own replay records. Hard: the status is read
  before the key lock is awaited; transitions are checked and then applied.
- *Documents* (`document.rs`, `types.rs`). Correct when the Agent accepts what is published and a
  Service finds the key in it.

**aep-agent** (the Agent side)

- *Client and identity* (`client.rs`): one lock per client around find / create / save, over a store
  that several clients may share. Correct when an Agent is one DID to a Service.
- *Inspection cache* (`inspect.rs`, `http_response.rs`): freshness, revalidation, at most five
  redirects, a lock per session over a cache that clients share.
- *Platform identity provider* (`platform_provider.rs`): discovery and its cache, provisioning by list
  and provision, the pending-Sign loop of at most eight stages with distinct keys.
- *Commands and credentials* (`commands.rs`, `authentication.rs`, `store.rs`): enroll, polling
  until active within two bounds, grant and revoke with a local credential store that expires.
- *Documents* (`documents.rs`): what is read of a Service's documents.

**aep-core** is stateless parsing and validation; its rules are what the exchanges are about.
**aep-tower** and **aep-axum** adapt HTTP requests to the Service: routes, methods, headers, the
limit of a body, and which header of several counts. `conformance`, `examples` and `scripts` are
harnesses.

### How they interact

A request to the Service is taken apart by the adapter, authenticated (one replay record
consumed), parsed, and run through the idempotency store, whose operation reads and writes
enrollments and credentials. A protected resource is served after an assertion, or a session
credential and then the enrollment, has been checked. The Platform runs provision, sign and verify
through its own idempotency store, the operation of provision taking the scope lock inside. The
Agent inspects the Service, goes by the cached document, has its Platform sign, and calls the
Service, retrying with the same idempotency key and a fresh assertion; the Service resolves the
key of the Agent's DID or asks the Platform.
Everything is async: between two awaits a call runs atomically only with respect to the std
mutex it holds, so an action below is one such critical section or the code between two awaits.

## How the models correspond to the code

**KeyedLock.** `locks` is the table, `arc[t]` the clone in the frame of call `t`, `owner[m]` the
guard. `CloneLock`, `LockGuard`, `DropGuard`, `ReleaseLock` and `DropClone` are the five
things a call does with them; they are action fragments that the stores build their actions
from. `StrongCount` is `Arc::strong_count`: table entries plus clones. Mutexes have
identities that are reused once nothing refers to them, so `Arc::ptr_eq` is not idealised.
The Platform's stores have the same code (`scope_lock`, `operation_lock`).

**IdempotencyStore.** `pc[t]` follows `execute`: waiting, locked, running, performed (the effect
has happened, the response is not recorded), unlocking, releasing, returning, done. `Lookup`
sweeps with the clock of that instant; `Succeed` reads the clock again and inserts.
`Cancel` drops the future at either await: the guard goes, then the clone, and
`release_command_lock` is skipped, as Rust drops locals. A record's response is the call that
made it. `with_clock` starts with no records and `new` with restored ones: `Restored`.
Not modelled: poisoned mutexes (nothing panics under them).

**IdempotentCommands.** The promise: `Execute`, `Replay`, `Refuse`, `GiveUp` in one step each,
and records that vanish exactly when they are past their retention. In the refinement a
record counts as long as it is retained, whether the sweep has removed it or not, and a call
asks when it clones its lock.

**AssertionReplay.** Instants count ticks, `TicksPerSecond` of them to a second; `Timestamp`
rounds down as `unix_timestamp` does, and the skew, a Duration, need not be whole seconds.
`Arrive` reads the clock; between it and `Refuse` or `Consume` any time may pass (the await on
the verifier). `Representable` is the `checked_add`. A `Jtis` member is a (sub, jti) pair.

**Enrollment.** A task is one run of `execute_enroll`. `Start`, `Find` (up to the policy's await),
then `Create`, `Update`, `Decline` or `Abandon` in one step, for after the policy has answered
nothing is awaited but the store's save. The application's edits are actions of the
environment. Copied flags (owner action, pending lists) are left out.

**ServiceCredentials.** One state machine for three kinds of calls. A grant reads enrollment and
clock when it arrives and judges them when its operation runs; a revoke has one step per
credential type (the types commute, so the order is left open); a session request matches, then
finds the enrollment. `covered` is a ghost: what a revoke was to end when it arrived and, for a
session, what completed revokes had covered when it arrived. `overtaken` is another: the queued
grants whose enrollment has changed since they read it, which is the one way to a credential
for an Agent that is out of standing (`IssuedInStanding`); a session request reads the enrollment
anew, so such a credential is of no use until the Agent is active.
The idempotency store lets one operation per key run; the calls here are those of different keys.

**PlatformProvisioning.** `Enter` and `Store` are the two ends of the idempotency store, reduced
to what `IdempotencyStore` establishes: one call per key at a time, responses stored and
failures not. In between `KeyedLock` is modelled in full for the scope. A material stands for
the generated identifiers and may come up twice. `CreateFails` may leave a key behind.
All scopes belong to one principal: keys of different principals never meet.

**ProvisionedIdentities.** The promise, with no locks and no index: a signing key is made for a
scope without an identity (`MakeKey`), the scope gets one of material that has a key and is
nobody else's (`Create`) and keeps it, and a call is answered with what its scope has (`Provision`),
from the record of its idempotency key (`Repeat`), or not at all (`GiveUp`). In the refinement a
call asks when it starts, its scope gets the identity where the records are inserted, and
the call is answered where its response is stored or its future is dropped.

**PlatformSigning.** One identity and the calls that use its key. `Arrive` copies the status
(`authorized_identity`); everything after it, behind the authorizer, the key lock and the
policies, looks at that copy (`MayUseKey`). `SignAssertion` is the key store or the sign handler;
`Defer` the handler's pending answer, stored like any other. `Stamp` and `Verify` are the clock
read and `consume`: no await lies between them, but other threads do, and a caller may have
supplied an older instant (`AskKey`). `WriteStatus` overwrites what is there by then. `sawActive`,
`overtaken` and `used` are ghosts: which calls the identity was active in, which updates another
was written in, when a key was used. The policy `Allowed` judges status and target only.
Lifetimes of single requests are one constant, and an assertion is its jti and expiration.

**HttpCache and AgentInspection.** `HttpCache` is the arithmetic of ages and lifetimes, as functions of
a record of headers. A document is its version; `live[i]` tells which versions the Service may
have published at instant `i`, so that a relay may answer with an old one and an `Age`. A session is
one inspection at a time (its lock; `InspectInit` restores what the cache has), `request[s]` what it holds across the await of the
transport: the entry it revalidates, the URL and the instant of the request. `StoredAs` writes the
entry under both its keys. The Service DID of a document is reduced to whether it binds the origin.

**AgentSession.** A call locks its client, finds or provisions the identity, saves it and releases;
then it is a command, a grant, a revoke or a request. `identity` and `local` are the stores that
clients share; the Service's `issued` and `revoked` change in one step each. `List` and `Delete`
are the steps by which a revoke deletes; `Swept` drops what has expired whenever a store is read.
`GiveUp` drops the future or fails at any await. `late`, `crossed`, `stray` and `ended` are ghosts
of how a credential got into, or was left in, the local store; a credential is `crossed` when it was
saved between a revoke that is about it and that revoke's list. A provider either finds the
identity it has made (`keeps`) or makes another each time; clients that share a store have one of
the first kind.

**AgentWait.** `polls` and `stage` are the two loop counters, `now` a clock that may stand still or
be set (`SetClock`), `used` the keys of the stages of one signature, `slept` what the delay has
waited. The Platform answers a key it has seen from memory, whatever the request is about. The key
provider is any function. The constant of eight stages is `MaxStages`.

**Protocol.** One predicate per validator, on records whose absent members are `None`. Words are
values; only emptiness, equality and the reserved name matter. The grammar of names, dates
and URLs is not modelled here.

**CommandExchange.** `record` is the enrollment, `memo` the idempotency store, `document` the Inspect
document that the Agent has cached, `config` the Service's configuration. Between commands the
application edits the record, the Service is reconfigured or an idempotency record expires; an
answer may be lost. `heard` is what the Agent
makes of an answer: an answer, a problem it understands, a bare problem, or a refusal to read it.
A list is a function on its places, which `Without` may leave gaps in: what is required of a client
keeps the places it has in the configuration, and `Announced` is the list as it is sent.
`served`, `told` and `met` are ghosts that remember how things were when an answer was given.

**ClientAssertions.** `now` is how long ago the assertion was made by the Service's clock, and whoever
signed it is ahead by the Agent's `drift`. `Decide` is everything after the verifier's await, the
replay record included; `verdicts` is what the Platform has stored under the key derived from the
assertion; the ghost `restarted` tells that the Service has been configured anew since it first
judged the assertion. One change at a time: a reconfigured Service, a rotated key, a status.

**PlatformDocuments and PlatformExchange.** `Accepts` is `Platform::new`; `Discovery` and
`DidDocument` are what it publishes; `ValidDiscovery`, `ValidIdentity` and the checks on completed
signatures are the Agent's. Strings are reduced to what the checks tell apart, so a path has
holes and braces and a host is public, loopback or improper. A call goes `list`, `provision`, `sign`,
with a discovery that may be cached, stale or expired; `ResolveKey` is the Service's `did_web`.

**HttpCommands.** A field is the sequence of its lines; `Relay` adds one before or after. `mount`
is the adapter's base and limit, `inspected` the base the Agent knows. Which lines count
(the first or the only one), which status a method, a path, a media type or a body gets, and what
the Agent reads in the response follow the code; the handler only executes, refuses or fails.

**Authorizations and ProtectedResources.** A line is its scheme, its form and its secret. The Agent
chooses among its stored credentials or makes an assertion, its application may have set other fields,
and the layer takes an origin of its own; `Authenticate` is `authenticate_protected_resource`
with the order in which it tries the carriers.

**InspectDocuments, OpenApi and Introductions.** `Builds` is `build_configuration` with the validators
of the Inspect document; `Serialized` and `Deserialized` are what serde skips and gives back.
`OpenApi` has the loop of `openapi.rs` over templates and the definition of what it should find.
In `Introductions` an Agent opens a session for a reference (URL, bare name or DID), fetches the document
or reuses it, and goes by it in what it asks for; the Service may have been configured anew.
Identities and enrollments go by the Service's DID, for which a provider has one identity, as the
Platform does: under another DID the Agent finds no identity, the Service no enrollment, and an
assertion made for the DID of before is refused (`Misdirected`).
`Checks` lists the Agent's refusals in the order of the code.

## Runs

| Run | Instance | Distinct states | Shows |
|---|---|---|---|
| `idempotency_safety` | 3 calls, 2 keys, 3 mutexes, retention 1, clock to 2, one restored record | 513 k | operations of one key never overlap; every call is answered as if in one atomic step |
| `calls_return` | a wait of 2 polls and 2 stages; or 3 calls of one key; or 3 provisions of one scope | 124 k | everything returns; a wait keeps within its bounds and acts on answers to its own requests |
| `idempotency_abandoned` | 2 calls of one key | - | finding 1 |
| `assertions` | 3 requests with 4 assertions over 2 pairs, 2 ticks a second, a skew of 1.5 s; or one assertion in 2 requests with one change to the parties | 2.01 M | how often an assertion can authenticate, what a second use takes, where a refusal or an acceptance can come from |
| `replay_twice` | the first of these | - | finding 2 |
| `enrollment` | 3 runs with status and requirement edits; or one Agent in 2 calls at a Service that is reconfigured once | 2.06 M | what overlap can lose and cannot; whether a Service that can be built can be used by its document |
| `exchange` | 3 commands with one change; or 2 requests over HTTP with 2 additions to their fields; or one request for a resource with 2 credentials and one change | 2.40 M | which answers an Agent cannot read; that commands and credentials arrive as they were sent |
| `credentials_safety` | 3 calls, 2 types, 2 ids, 2 secrets | 553 k | no stray credential, none out of standing but by a grant that was overtaken; revocation complete and final |
| `provisioning_safety` | 3 calls, 2 scopes, 2 keys, 2 materials; or an Agent in 2 calls with one change | 1.19 M | one identity per scope; provisioning is as if every call took effect in one step; which configurations of a Platform its Agents and Services cannot work with |
| `signing_safety` | 3 calls, 2 keys, 3 statuses, 2 assertions with one jti, clock to 2 | 1.87 M | what stale copies and stale instants can lead to and cannot |
| `agent_inspection` | 2 sessions, 2 URLs, 1 redirect, 2 ticks a second, clock to 4 | 1.08 M | no answer from the cache is older than the Service allows |
| `agent_session` | 3 calls, 2 clients, 2 DIDs, 2 credentials of 2 types, clock to 1 | 839 k | one identity; what stays in the local store and what is lost from it |

**Properties that list exceptions.** Several properties say that something only happens for the
reasons listed (`AnswersUnderstood`, `ExchangesExplained`, `ServicesUsable`, `RefusalsExplained`,
`LeftoversExplained`, `LossesExplained`, ...). The reasons are what the model found when the
property was first stated without them, each one traced to the code; they tell where two
parties do not come to terms although each follows its own rules. Among them:

- the Agent rejects a requirements problem whose list repeats a name or uses the reserved
  `service_documents`; `build_configuration` takes both among the required claims (`service.rs:843`);
- documents declared after a cached inspection to a Service that has given up the extension are
  ignored, the Agent is enrolled, and then refuses the answer (`commands.rs:72`);
- a Platform configured with a path that has holes or braces where there should be none publishes a
  discovery document that its own Agents refuse (`platform_provider.rs:769`);
- a revoke by id under another type deletes the local credential though the Service has revoked
  nothing (`commands.rs:510`);
- a Service whose limits on claims are below what the Agent sends refuses it without having published
  them.

They are not listed as findings, because no document of the repository says otherwise. Such a
property does not detect the behaviour it names as an exception, which is what the code does; it
shows that there is no other way to the same end. The notes of `PROJECT.json`'s hazards say where
this is so. Likewise `AnswersAtomically` permits the operation of a key to run again after a call of
that key was dropped or failed: a doubled effect is visible in it only as that permitted second run.
And whether the key store replaces the key of an identity on record, when material comes up
twice, is the application's: `CreateFails` and `CreateKey` leave keys behind, but no property is
about what becomes of an existing one.

**Bounds.** Three calls are what the hazards need: one that finishes, one that waits with a clone
of the same mutex and one that comes after the entry is gone; in the replay store one that uses
the assertion, one that uses it again and one that purges in between; for enrollments
an overlapping pair and a later run; for signing a suspension, a reactivation and a signature around
them, or two verifications and one that purges; in a session a grant, a revoke and
another grant or a request. As many mutexes as calls let every call have its own. Retention 1 with
a clock up to 2 reaches a record before, at and after its retention. Two ticks to a second and a
skew of three ticks make every rounding happen. A wait has a timeout that is not a multiple of
its interval, and a key more than stages; time stands still for the three calls of `calls_return`,
whose return does not depend on the age of a record. The exchanges are between one Agent and one other
party, where a single change between two calls makes every document or answer stale in every way
it can be; configurations differ from the usual one in one thing, or in things that are checked
together, so each check is met by a configuration that fails it alone.
`MaxTime` caps the clock in each module, `MaxCalls`, `MaxRequests`, `MaxPresentations` and
`MaxCredentials` what the Agent does, `MaxEdits`, `MaxEvents`, `MaxRelays` and `MaxChanges` what
happens to it; counters of `AgentWait` saturate one past the bound they are compared with.
What is proved about these instances holds without the bounds; what is not is named below.

**Deadlock** is not checked: calls end, clocks and counters reach their bounds, and then nothing is
left to do. That calls do end is what `calls_return` is for.

**Fairness.** `FairSpec`, and `MCSpec` of `MCCallsReturn`, ask weak fairness of each call's own steps
once it has been made: the executor polls tasks that are woken, an unlocked mutex wakes a waiter, and
the operation, resolver, generators, key store, transport and delay answer. Nothing is asked of
callers (making or dropping calls) or of the clock. With as many calls as the instance has, a waiter
cannot be overtaken for ever, so strong fairness of the mutex is not needed.

## Proofs

Checked by tlapm for any finite number of calls and keys, any inputs and bounds, and for any set of
configurations, from the named assumptions of the modules: finite sets; natural numbers; `None`
and its like outside the sets of what may be there instead; the shape of configured values.
TLC evaluates every assumption for its instance. Those that say more than a shape are
`AdvertisedUrl` (the URL an Agent inspects is among the Service's, and `Elsewhere` is not),
`RestoredAreForeign` (entries that a cache is restored with are another
Service's, or of no use), `PlatformsAreCompatible` (the algorithms of a Platform are
among those a Service has to advertise), `RestoredAreInputs`, `WishesHaveType` (the size of claims
counts the claims it comes with), `WordsDiffer`
(the empty word is neither `service_documents` nor `credential`) and `IssuableHaveType` (a token
and Basic credentials are in the field and the scheme that rendering gives them).

Each invariant has the same course: TLC checks it as an invariant of the run, since an attempted
proof of a formula that is not one costs more than a run; then `Init` implies it, one lemma per action
shows that the action keeps it, and the properties are its consequences.

**IdempotencyStoreProofs.** `LockInv` is the inductive heart of mutual exclusion: a call that has
its clone and has not decided whether the entry may go has the table's mutex for its key
(`EntryAgrees`), and one past the await owns that mutex (`HolderOwns`). Mutual exclusion alone is
not inductive: a release could remove an entry in use. `SoleUser` excludes it: a count of two
with the table's entry and one's own clone leaves room for nobody else. On top, `StoreInv`
says that no retained record exists under a running operation, and that records, creations
and replays agree; with it one creation per retention (`CreatedOnce`), `ReplaysFaithful`,
`ConflictsJustified`, `RecordsAreKept`, and `Implementation`, which maps every step of the store
to a step of `IdempotentCommands` or a stutter.

**AssertionReplayProofs.** `WindowEndsBeforeRecord` is the arithmetic: an instant inside the window
of whole seconds precedes the record's sub-second expiration. With it `IInv` is inductive: an
accepted request's record stays until a request arrives that finds it expired. `SecondUse` is
the exact form of finding 2: a second use needs a third request, and `OncePerLifetime` says
that no second use is decided before the record's expiration.

About `ClientAssertions`, `IInv` follows one assertion: it was made by the Agent's clock as it
inspected the Service (`SignedAsMade`, `AsInspected`), what has been vouched for was checked against
the key of then (`VouchedFor`, `JudgedByThePlatform`), and a second use is only possible once the record
of the first has gone or the answer was lost (`UsedOrUnderWay`). `AssertionsAcceptedAsMade`,
`AssertionRefusals` and `InactiveIdentities` hold for any skews, drifts, lifetimes, tolerances,
Services and Agents; the arithmetic relates instants by both clocks.

**EnrollmentProofs.** The properties are about the record, but a run saves what it found before it
awaited the policy. `RecordInv` therefore says the same of the record (`RecordOK`) and of what each
run has found (`FoundOK`): every claim saved before is there, or another run has had the chance to
write over it (`Excused`). From it follow `ClaimsAreKept`, `ConsentIsDeclared`, `RequiredHeld`
and, for each saving step, `Preservation`.

About `CommandExchange`: an answer is read after the record, the configuration and the Agent's
document have moved on, and it may be one that was given long ago and replayed.
`ExchangeInvariant` therefore says of every answer, the stored ones included, what it was
answered to and how things were then (`Answered`, `served`), and `GoalsStand` that what
the Agent was told it has to do can be done and, once done, is on record. `RefusalReads` is
the fact about data: a list of requirements that a Service makes, parts of what it was
configured with, is one the Agent's validator passes unless it repeats a name or uses
the reserved one. From these `AnswersAreUnderstood` and `MetRequirementsStayMet`, for any lists of
claims and documents, offers, policies and edits.

About `HttpCommands`: `RequestsMade` keeps track of the Agent's own lines under whatever
intermediaries add, `AnswersRead` of status and type; with them `CommandsAreDelivered` for any
mounts, sizes, visitors and numbers of added lines.

About `ProtectedResources`: `ResourceInvariant` follows the lines of a request from what the Agent chose
among its stored credentials (`Chosen`, `Arriving`), and says that ids are given once and that
a line means one credential (`CredentialsDiffer`, which `CanSave` is for). An added line in the
Agent's own field makes an authorization one that is refused (`BesetIsRefused`); beside it, the layer takes the Agent's
or none (`OwnIsTaken`), so only an API key can come in its place. Where nothing competes
exactly one record matches, by one method (`TokenMatches`, `KeyMatches`, `OtherTypes`), and
`RequestsAreUnderstood` is the consequence for any methods in any order, credentials and added lines.

**ServiceCredentialsProofs.** `IInv` strengthens the properties with `RevokesAdvance` (what a revoke
covers is revoked or its type is still to come) and `SessionsMatchOthers`. `StepOfOne` reduces
a step of one call to what it changes for that call. `RevocationIsFinal` does not depend on
time or on the enrollment. `NoStrays` takes `StandingStep` beside it: a call that is queued has what it
arrived with (`QueuedStays`), so either the enrollment it read is still there or it was overtaken.

**PlatformProvisioningProofs.** The lock of a scope is proved as in `IdempotencyStoreProofs`, under
nested locks and cancellation. With it whoever creates an identity finds its scope still vacant
(`Vacant`), which gives `OneIdentity`; `Agreement` adds that what is stored under a key, returned
and on record are the same identity, and `Conflicts` that a refused key has been used for another
scope. `Implementation` maps every step to one of `ProvisionedIdentities` or a stutter; what it needs
beyond these is that the call which the idempotency store has let in is the only one of its key
and has nothing on record before it stores (`Alone`), or the promise of one answer per key
would not follow from the answers of the scope.

About `PlatformExchange`: `AcceptedOptions` is what `Platform::new` has made sure of by its one probe, that
the URL rendered for an identifier is the one did:web looks at. So an identity that has been made
(`Made`) can only be unreadable for its identifier or the loopback (`IdentityRead`), a
document only for its paths (`DiscoveryRead`), and the key is found (`KeyFound`).
`PlatformInvariant` says of everything that a party holds where it comes from: the record is made by
options with this host, prefix and template, the saved identity and the identities in an
answer are the one on record (`OnRecord`), an answer to be read is to the verb that was asked for, and a
refusal has one of the reasons (`AnswerMade`). `RefusalsAreExplained` and `KeysAreFound` follow
for any options, Agents, identifiers, keys and answers of sign handlers, and any number of calls and
changes.

**PlatformSigningProofs.** `IInv` has a named part for each concern: what a call has read
(`CallsInOrder`), that no instant is ahead of the clock (`TimesArePast`), that an update's copy is
current unless it was overtaken (`CopiesAreCurrent`), that the memo and the answers agree
(`MemoAgrees`, which needs one operation per key to be inductive) and that a verified assertion
stays on record until it expires (`VerifiedOnRecord`). `MemoAside` covers all steps that neither
enter nor store.

**AgentProofs.** `OneDid` rests on the provider's finding the identity it made before (`keeps`),
or else on the calls' sharing a client: the lock is held from the lookup to the save, so a provider
that makes another identity each time is asked only while none is stored (`IdentityInv`). `CredentialInv` says where each local credential comes from and what each revoke still
has to delete. `Lasting` collects what no step undoes (a credential issued, revoked, late, crossed
or stray stays so), which carries the exceptions of `Leftover`, `Presented` and `Losses` along.

About `OpenApi`: the loop of `match_openapi_path` is a recursive function on the number of templates
seen, and what it has then is the best of those that fit, ambiguous exactly when another has the same
score (`BestOf`). There is no rule of induction that the provers can apply to that formula,
so `EveryPlace` argues by the least number of turns it fails at, which exists because `<` is
well-founded on the naturals (`WFMin`). With it the recursion defines a function (`LoopExists`), and a
turn that is given the best finds the best (`TurnFindsBest`). The order of scores is strict, transitive and total, and it is the order of `Precedes`,
the template that is literal where two first differ (`PrecedesIsAbove`); so the match is the operation that
is meant (`MatchIsMeant`), and `OperationsAreResolved` holds for every list of templates in every order.

About `Introductions`: a Service that could be built has a document that its Agents take
(`BuiltIsValid`, for the document arrives as it was published: `ReceivedAsPublished`), and
one that is where its DID says is found by DID and by URL (`ProperIsFound`). Each command has a
lemma that tells what may be refused and in which order (`GrantRefused`, ..., over `RefusalIs`, which is
the first check that is not passed), and `RefusalExplained` traces each refusal to the configuration.
`EncounterInv` carries to the Service what an Agent has made sure of (`Wished`): the grant type
selected is one that was advertised, so only a document that has gone stale makes it unsupported.
`ServicesAreUsable` holds for any configurations, references, requests, and any number of calls
and changes.

**AgentWaitProofs.** `PollsAddUp` relates `polls`, `remaining` and `slept`, `StagesAddUp` the stage and
the keys used, and `KeptAnswers` what the Platform has stored and for which poll; `Bounded`, `NeverReplayed` and `TimeoutsEarned` follow for any interval,
timeout, clock, key provider and Platform.

About `AgentInspection`: `Sound` says of an entry that its document was current at an instant
from which its headers compute an age no more than two roundings short, through every relay, revalidation
and redirect; `HttpCache`'s lemmas do the arithmetic for each kind of header (age and delay added up, a
date that is ahead, an expiry, a lifetime by default). `InspectionsAreFresh` is the consequence
for any number of sessions, URLs and redirects, any policies and any resolution of the clock.

Only model-checked:

- the liveness properties `WaitReturns`, `CallsReturn` and `ProvisionsReturn`: fairness and `ENABLED`
  are out of the prover's reach.

## Findings

1. *A lock entry can outlive its last call.* `release_command_lock` removes the entry only if it
   counts two references, but each call keeps its clone until `execute` returns. Two calls that
   release one after the other before either returns both count three. The unit test
   (`aep-service/src/store.rs:279`) expects no entry after the last release; it drops the
   clones first. Cancelled calls skip the release as well. Safety is not affected.
2. *An assertion can authenticate twice.* `consume` is given the instant read before the
   verifier was awaited. If another request, with a later instant, has purged the expired
   record meanwhile, a delayed request is judged inside its window and accepted again, against
   `aep-service/README.md:162-163`.

What `Enrollment` shows about overlapping updates (the later save wins) is not a finding: the
README leaves concurrency guarantees to store implementations. The properties state what
holds regardless.

## Not modelled

- The conformance harness, examples and scripts: they exercise the libraries and are not part of them.
- Transports beyond an answer, a failure and a deadline: `transport.rs` and the `reqwest` clients are
  I/O.
- Signatures, base64, JSON text, and the grammars of names, dates, media types and URLs: a signature is
  the key it was made with, a word is proper or not.
- Poisoned mutexes: nothing panics under them.
- Custom stores, policies, verifiers and handlers other than by what they may answer.
- The Platform's idempotency store as a module of its own: it is the Service's algorithm under other names.
- Crash recovery: nothing is persisted by the libraries, so there is none beyond the records that a
  store is restored with.
- Fields that are copied and never decided on (owner action URLs, response metadata, timestamps of
  documents).

## Plan

What is left, in this order:

1. A theorem that `PlatformProvisioning`'s `Enter` and `Store` are what a store that implements
   `IdempotentCommands` lets happen, so that this reduction, argued above, is proved as well. It takes
   an `IdempotentCommands` whose records carry answers in place of the call that made them.
2. Overlapping commands in `CommandExchange`, on top of what `IdempotentCommands` promises.
3. Several Agents of one Service in `ProtectedResources`, each with an enrollment of its own.
