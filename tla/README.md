# AIOS in TLA+

TLA+ models of the AIOS platform (Python services under `src/`), TLC runs that
check them on small instances, and TLAPS proofs of their main properties for
every instance.

## 1. The system: components, state, interaction

| Component | Code | State it keeps | Operations that change it | Model |
|---|---|---|---|---|
| Pack runtime | `services/workflows/.../pack_runtime.py`, `main.py` | `workflow_runs`, `workflow_step_runs`, `approval_tasks` | start, approve, reject | `PackRuntime`, `RunLifecycle` |
| Pack registry | same file, `workflow/registry.py` | files, `workflow_definitions` | seed, create, update, delete, a release | `PackAuthoring` |
| Engine and step handlers | `ai_os_shared/workflow/engine.py`, `expr.py`, `step_handlers.py` | the context of one run, in memory | one step, skip, pause | `WorkflowEngine`, `PackRuntime` |
| Document review | `workflow.py`, `activities.py`, `worker.py`, `main.py` | a Temporal workflow and its `workflow_instances` row | start, decide (signal), three activities | `DocumentReview`, `ReviewOutcome` |
| Knowledge | `services/knowledge/.../main.py` | `documents`, `document_chunks`, objects | upload | `Knowledge` |
| Connector Hub | `services/connectors/.../main.py` | `connector_entitlements`, `connectors`, `connector_access_requests` | invoke, configure, grant, revoke, request, approve, reject | `ConnectorHub` |
| Orchestrator | `services/orchestrator/.../main.py`, `assistant.py` | `chat_sessions`, `chat_messages` | chat turn, stream, rename, delete; starts runs | `ChatSession` |
| Gateway | `services/gateway/...` | rate counters in Redis | authenticate, count, proxy, sign-up, log-in | `TenantAccess`, `Accounts` |
| Tenant context, database sessions | `auth.py`, `app.py`, `tenant_context.py`, `db.py` | cached signing keys, pooled connections with a tenant setting | every request | `TenantSessions`, `TenantAccess` |
| Identity | `services/identity/...` | Keycloak users and roles, `user_profiles` | sign-up, create user, assign role | `Accounts` |
| Admin, seeding | `services/admin`, `deploy/seed` | the `tenants` row that sign-up needs | register_tenant, seed | `Accounts` (that part) |
| Audit | `ai_os_shared/audit.py`, `services/audit` | `audit_log` (append-only) | emit, ingest | a step of each module's requests |
| Authorization | `authz.py`, Cerbos policies | none | none | - |
| Connector adapters | `connectors/base.py` | none | calls to providers | - |

A request enters through the gateway, which authenticates it against Keycloak's
keys, counts it in Redis and passes a signed tenant context on. A service binds
that context, checks the Cerbos policy, opens one database transaction per group
of statements (`tenant_session`, one tenant each), calls other services over HTTP
and reports to the audit service. The orchestrator starts runs at the workflow
service; the engine's connector steps call the Connector Hub; a review's activity
reads the chunks the knowledge service stores. Every HTTP request is a coroutine:
between two transactions of one handler any other handler may run, and nothing
takes a lock across transactions. A handler may die anywhere (an uncaught
exception, a restart), which leaves behind what it had committed.

What is hard here: several decisions on one run or review at the same time;
decisions computed from a row that has changed since; effects repeated by a retry
or a resume; a pause, a verdict, a grant, an account or a document that spans
transactions and calls; definitions that change under a paused run; attempts that
were given up and write late; a connection or a cache that outlives the request
it was used for. `PROJECT.json` lists each hazard at its line with the properties
that watch it.

## 2. Modules

| Module | Models |
|---|---|
| `PackRuntime` | the durable executor seen from one run: requests, engine steps, transactions, live view |
| `RunLifecycle` | abstract: what a watcher of a run's row may rely on |
| `WorkflowEngine` | one call of the engine as a function of a definition, a context and approvals (no state) |
| `PackAuthoring` | the registry of one tenant and a run that lives through its edits |
| `DocumentReview` | one document review: endpoints, Temporal workflow, activities, row |
| `ReviewOutcome` | abstract: the outcome of a review is given once and recorded once |
| `Knowledge` | the upload of one document |
| `ReviewedDocument` | the composition of the two: a document uploaded while it is reviewed |
| `ConnectorHub` | the hub of one tenant: allowlist, enabled flags, access requests |
| `ChatSession` | one chat session: turns, streams, renaming, deletion, started runs |
| `TenantSessions` | requests in a service: context, pooled connections, row-level security |
| `TenantAccess` | the gateway in front of them: keys and their cache, rate limiter, proxy |
| `Accounts` | sign-up, created users and roles over Keycloak, profiles, the tenant's row |
| `...Proofs` | theorems about the module they are named after (`PackOrderlyProofs`: about `PackRuntime` in orderly use; `ReviewedDocumentProofs`: about `DocumentReview` and `ReviewedDocument`; `TenantAccessProofs`: about `TenantAccess` and `TenantSessions`) |
| `MC...` | the modules above with instances and symmetry sets, for TLC |

A definition named after another one with a fault appended
(`PausedRowWithoutContext`, `DecideLastWins`) is a faulty variant that no action
uses; `PROJECT.json` pairs each with the property that notices it.

### PackRuntime

`run` is the row of `workflow_runs` (`status`, `context.steps`, `current_step`),
`tasks` counts the rows of `approval_tasks` per gate and status, `stepRows` those
of `workflow_step_runs`, `effects` the connector calls that reached a provider.
`req[r]` is the handler of request `r`: its program counter, the context it holds
in memory and the `current_step` it read (`dec`), under which `resume_run` files
its decision. One action is one transaction or one engine step: `StartRun` =
`_create_run`; `ReadRun` = the read in `resume_run`; `DecideTasks` = its `UPDATE
approval_tasks`; `SkipStep`, `ComputeStep`, `ConnectorStep`, `PassGate`,
`LeaveEngine` = the engine's loop and the step handlers; `PersistSteps`, `SaveRun`,
`CreateApproval` = the transactions of `_drive`; `Answer` = `emit` and the
response; `Abort` = the handler dies.

Steps are numbered in the order of the definition and each has its own context
key; outputs are abstracted to absent, done or skipped. The engine keeps them under
`step.out or step.id`, while the live view (`StepView`, `get_run_view`) asks for
`st.id`: `Renamed` are the steps whose `out` differs, which the view never shows as
done. The view also shows a guarded-off step as completed, since its skip is an
output, too. A guard (`when`) may go
either way, except at the gate a run paused at, which passed its guard on the same
saved context. `Spec` allows any requests at any time, as the code does.
`OrderlySpec` is the use the service expects: a decision is made only when no other
request is at work and the run is shown as awaiting approval.

### WorkflowEngine and PackAuthoring

What `PackRuntime` simplifies: steps have ids, `out` keys, guards and expressions
that may not resolve, and the definition may change. `ExecuteStep` is one turn of
the loop in the code's order (already ran, guard, skip, parameters, handler);
`RunEngine` iterates it over the definition, `Valid` is the schema's validator,
which looks at ids and not at `out` keys. An output is one of two flags.

`PackAuthoring` has the files of one shipped pack, the rows of
`workflow_definitions` with their `source`, and one run. Authors, seedings and
releases act between any two transactions of a decision. Here decisions come one
at a time and no handler dies: both are `PackRuntime`'s subject. A flow is authored
under a name in the reserved pack `custom`; the shipped pack has the other rows.

### DocumentReview, Knowledge, ReviewedDocument

`row` is the row of `workflow_instances`; `wf` the workflow execution (where it
is, the current attempt, the first decision, the result handed to
`record_decision`); `attempts` says what became of each attempt of each activity.
An attempt that the server gave up (`Retry`) may still be alive and write later;
`Break` ends one without a report. `CheckReview` and `Signal` are the two halves of
`_signal_decision`; a caller may get an error although its signal arrived. Which
verdict a request carries is fixed (`Asks`). The Temporal server and SDK are
outside the repository and modelled from how the code uses them (at-least-once
attempts, a retry limit, signals taken by an open workflow in order of arrival).

`Knowledge` is `upload`: the row, embedding, one insert per pair of chunk and vector
in one transaction, the commit (which may take effect and still raise), the status,
the audit event. The model may answer with fewer vectors than chunks (`vectors`):
the loop ends with the shorter list, `stored` still counts all chunks. `ReviewedDocument` lets an attempt of `summarize_document` read the
chunks at any moment after the document's row exists (before that, nobody knows
its id).

### ConnectorHub

`ent`, `conn`, `desk` are the three tables, `op[r]` the handler of request `r`,
`seen` a history of what the tables said of its connector since it began.
Handlers that check in one transaction and write in another (`invoke`,
`configure`, `request_access`) take several actions; `approve` takes two, because
its `SELECT` sees the row before its `UPDATE` locks it; upserts of one statement
take one.

### ChatSession

`turn[t]` is the handler of a turn, with the history it loaded (`seen`). Its
actions are the calls of `chat` and `chat_stream` in order: find or create the
session, title, history, definitions and intent, the run it may start, the model,
the two messages. The model and the classifier answer anything; an intent may name a
listed workflow or one of the workspace's `Copilots` that no definition has, for which
the pack falls back to the workspace's own and the workflow service answers 404; the
definitions may not be fetched; a started run's answer may be lost; a client may leave a
stream. `session.born` counts incarnations: a deleted session is created again
under the id the client gave.

### TenantSessions and TenantAccess

`task[r]` is the handling of a request in a service, `conn[c]` a pooled connection:
its holder, `app.tenant_id` and the uncommitted rows. A session ends by commit, by
rollback or by closing after a failed one; what remains on the connection is
`Ended`, where the third argument of `set_config` makes the setting local to the
transaction. `Read` sees what the row-level-security policy lets through. Sessions
of one request follow each other: the code nests none. A request for an exempt path
(`ReceiveExempt`; of those, audit's ingest writes) is handled without the signed
context, for the tenant its body names.

`TenantAccess` puts `authenticate` in front: `jwks` is the key cache with the time
it is stamped with (the time before the fetch), `kc` Keycloak's keys as they are
published and retired, `redis` the counters with their expiry, `clock` a time in
ticks. The gateway forwards every path, so that what it sends may be handled under
its context or be exempt (`Deliver`). A failed `INCR` or `EXPIRE` may have taken effect
or not; the request passes (`IncrFails`, `ExpireFails`). Only what is awaited is a step of its own: from keys at hand to the first
Redis call nothing is.

### Accounts

`kc` is Keycloak's users (who made them, membership, roles), `profiles` and `log`
the platform's records. A handler takes one action per call to Keycloak or the
database; a call may take effect and its answer be lost (`Done`), fail before
(`Break`), or the gateway may stop waiting while identity goes on (`GiveUp`).
`claim` is what a token says of the organization, its alias or its id:
`create_user` uses it as Keycloak's organization id, which works with one of them
only. `org` is whether the demo tenant's row holds an organization id.

## 3. Runs

Deadlock is not checked: requests are finite in every run, and the system stops
when none is left.

| Run | Instance | Shows |
|---|---|---|
| `pack_race` | 4 steps, gates 2 and 4, connectors 1 and 3, guards on 2 and 3, 3 requests, 1 death | under any overlap: gates hold (`GateRespected`), the row can be resumed, verdicts stay with their gate, the live view shows the pause, and the inductive `ExecutorSound` |
| `pack_orderly` | 5 steps, gates 2 and 4, connectors 1 and 3, guards on 2 and 5, 4 requests, 1 death | refinement of `RunLifecycle`, `AuditAgreesWithRun`, every request ends and a run does not stay `running` unless its handler died; with no death each effect happens once and the inbox mirrors the run |
| `authoring` | 1 name, 6 drafts (two gates, a branch, an unresolved output, colliding keys, an invalid one), 3 edits, 3 decisions | a seeded flow runs as listed, gates hold and calls happen once across edits, an unedited run ends as its definition says, a failed decision leaves its task |
| `hub_race` | 2 connectors and echo, 3 requests of managers and 2 of members, 2 request ids, 1 death | `CallsAuthorised`: calls and enablings stay within what was read since the request arrived; `DeskInOrder`: a row reaches the desk only through a request whose connector was lacking while it was handled |
| `review` | 2 deciders, 2 attempts per activity, 2 chunks with up to as many vectors, a `LIMIT` of 1 | first decision wins and takes effect, row and trail are true, refinement of `ReviewOutcome`, and the inductive `ReviewSound`; `StatusIsTrue`: status and trail agree with the chunks that got a vector; `SummaryNotTorn`: a summary reads nothing or the beginning of what is ever stored |
| `chat` | 3 turns (1 streamed, which may start a run), 2 at a time, 1 deletion, 1 fault | the history agrees with what clients were told, no reminder twice in a row, every `/chat` ends |
| `isolation` | 2 requests of 3 kinds of users, signed or exempt, 2 tenants, 2 connections, 2 sessions each | `TokenTenantOnly`: what is read or written is of the token's tenant, on an exempt path of the body's |
| `gateway` | 3 requests of 1 user, 2 keys, TTL and window of 2 ticks, limit 1, 1 failed call | `KeysAreFresh`: verdicts on tokens rest on keys no older than the TTL; `LimitHolds`: the limit holds but for one more request per failed call, and nobody is refused below it |
| `accounts` | 3 requests, the realm's owner and one new address, 2 configured industries, of which the profile table takes 1, 3 asked roles (one unknown), 1 fault | answered is complete, records are true, roles are as asked |

Runs that find a disagreement between the code and what it says (one property each):

| Run | Property | Disagreement |
|---|---|---|
| `pack_resume_repeats` | `ResumeSkipsCompletedSteps` | overlapping approvals run the steps behind the gate twice |
| `hub_verdict` | `VerdictIsFinal` | an approval overwrites a rejection that committed meanwhile |
| `chat_wrong_pack` | `OwnPackWhenItDefines` | of two packs that ship one workflow key, the last listed is started, not the workspace's own (`invoice_verification` is in two) |

Other behaviours that the models have and that are worth knowing, though no run
is spent on them:

- A finished run still takes decisions (a rejected one is driven on by an approval), so
  `RunLifecycle` holds of orderly use only.
- Step rows are stored again on every resume (no unique index).
- A death between saving a pause and creating its task leaves a pause without a task,
  so `InboxMirrorsRun` assumes no death.
- The live view shows a guarded-off step of a finished run as completed, since its skip
  is an output too, and a step that keeps its output under an `out` key of its own as
  pending or, once the run is over, as skipped (`pack_runtime.py:432`).
- Of two steps that share an output key, which the validator allows, the second is
  passed over as already run, and an edit that renames the `out` of a connector step that
  ran makes a paused run call it again (`engine.py:92-95`): `CompletedAsDefined` and
  `CalledOnce` assume neither (`Coherent`, `KeysKept`).
- A call whose connector is revoked between invoke's check and the call is still made; a
  grant between the check of an access request and its insert leaves a pending request
  for a connector the tenant has; revoking one connector of an unrestricted tenant
  restricts it.
- An embedding answer with fewer vectors than chunks leaves a `processed` document of
  which a part is stored, and an audit event that counts all chunks (`main.py:97,109`).
- `app.py` and the audit service say that `/internal/*` is not exposed through the
  gateway; the proxy forwards every path of a service, and such a request runs under the
  tenant of its body. `TokenTenantOnly` says what holds of either kind.
- An industry that a new pack configures passes sign-up's validation and fails at the
  profile table's fixed list (`0003_user_profiles.py:45-47`); a user whose sign-up failed
  half-way answers 409 ever after; the event of a sign-up is never sent (no context on
  that path); `user_profiles.role` is not updated by `assign_role`.
- Reading the audit log asks for `read_audit` on kind `audit`, which
  `resource_audit.yaml` does not grant to anyone.

Bounds and why they suffice. Two gates with connectors before, between and after
them are the least in which a decision can hit the wrong gate; three requests are a
start and two decisions that overlap, four allow a second decision per gate. Two
managers and a member race on one access request; a third manager and a second
connector let a grant or revocation fall in between. Two attempts (the code allows
three) give one late and one last attempt; two chunks and a
`LIMIT` of one give the end of the query, a lack of vectors and a transaction that is
rolled back after its first insert (a torn read shows in the latter, where nothing is
ever stored).
Three edits are a seeding, a release or create, and an edit under the paused run;
the drafts are pairwise edits of each other. Three turns are two that overlap and
one before or after. Two requests use two connections at the same time or one after
the other, with every pair of users. Two keys make one rotation, and three requests
a fetch that answers late over a younger one and a request that uses the cache. The
limiter needs two requests above a limit of one, of which one is let through by the
failed call, and a clock that passes one window. The gateway and the services behind it
are checked apart, since they share no state but the request (`GatewaySpec` takes the
gateway's steps only); the proofs are about both at once. Three account requests on one address are a sign-up, a rival and an
administrator. One fault, death or lost answer is enough to leave each partial
state behind, and the handlers that follow meet it. Symmetry is used only in runs
without liveness properties and over requests, addresses, ids and connectors that
the models treat alike.

## 4. Fairness

`pack_orderly`: weak fairness of each handler's next step. Handlers are coroutines
that wait only for the database and for HTTP calls with timeouts, so the event
loop resumes them; no fairness is assumed of clients. `review`: a worker polls the
task queue, a live attempt reads and goes on, and the server gives up an attempt
that ended without a report; nothing is assumed of the upload. The first holds as
long as the worker task of `services/workflows/main.py` runs: if it crashes it is
logged and not restarted, and no review progresses until the service is. `Retry`
of a live attempt is not fair: it may or may not be slow. `chat`: weak fairness of
a turn's own steps, and of the model call of `/chat`, whose client has a timeout;
a stream has none, and `EveryChatEnds` does not speak of streams. The other runs
check safety only.

## 5. Proofs

Every invariant that a passing run checks is also proved, for every value of the
constants, and so are both refinements. Of the strengthenings, `ExecutorSound` and `ReviewSound` are invariants of runs, too; the
others are not spent a run on, since their proofs say more.

**`PackRuntimeProofs`**, for every number of steps, any gates, connectors, guards
and requests, from `PackAssumption` alone:

- `TypeCorrect`: the type invariant.
- `ExecutorAlwaysSound`: the inductive invariant. `GateRespected` alone is not
  inductive: what a stale handler writes to the row depends on what it holds in
  memory, so `ExecutorSound` says of every handler and of the row that entries are
  in order (`Ordered`), that a gate's output is backed by a request that approved
  that gate (`GatesBacked`), and that a current step is the gate at which the
  context ends (`EndsAt`). The lemmas `StepKeeps` and `ApprovalsLast` say that
  decisions and entries are never taken back; one lemma per conjunct
  (`HandlersStaySound`, `RowStaysSound`, `EffectsStayWitnessed`,
  `VerdictsStayGenuine`) shows that each action keeps it.
- `GatesAlwaysRespected`, `RowAlwaysResumable`, `VerdictsAlwaysGenuine` and
  `ViewAlwaysShowsPause` follow. The last needs no more than the row's part: the
  context of a row that waits ends at the gate it names, whoever wrote it, so that
none before it is still to come and none after it is settled; the view adds which of
the settled ones are `Renamed`.

**`PackOrderlyProofs`**, the same module under `OrderlySpec`:

- `OrderlyAlwaysSound`: the inductive invariant. At most one request is at work
  (`OneAtATime`), and `HandlerOrderly` says for each of its phases how its copy of
  the run relates to the row it will write; while no handler has died, `EffectsKept`
  ties the calls that reached a provider to the outputs of row and handler, and
  `InboxInStep` says at which phases the inbox lags behind the row.
- `EffectsAlwaysAtMostOnce`, `InboxAlwaysMirrorsRun` and `AuditAlwaysAgrees` follow.
- `LifecycleImplemented` is the refinement of `RunLifecycle`: the row changes only in
  `StartRun` and `SaveRun` (a rejection is saved there, too), and what `SaveRun` writes
  is a step of the abstract run because the handler read the row as it still is, and
  because a gate it passed lies before the one at which its context ends.

**`PackAuthoringProofs`**, from `AuthoringAssumption`, for any packs, names, drafts
and releases. The engine is a recursive function over the steps of a definition.
`EngineRun` says what one call does for every definition, context and set of
approvals. The library's induction theorems take an operator and cannot be used
here; `SetInduction` states induction about a *set* of numbers and is proved from
the least-element property of a well-founded order (`LeastNatural`).
`TurnsUnfolded` shows that the loop's function exists, `EngineLoop` and
`FaithfulLoop` are inductions over its turns.

- `BasicInvariant` (types, the registry, a waiting run's task) gives
  `AlwaysRunsAsListed` and `WaitingAlwaysHasTask`.
- `AuthoringInvariant` adds `Life`, which ties context, granted gates and calls to
  the definitions the run has been driven with, and `Calling`, which says the same
  of the engine's result that is not saved yet. `GatesAlwaysHold`,
  `AlwaysCalledOnce` and `AlwaysCompletedAsDefined` follow.

`CalledOnce` carries the condition `KeysKept` because of a proof attempt that
failed: the engine recognises a step by its output key (`step.out or step.id`), so an
edit that renames the `out` of a connector step that already ran makes a paused run
call it again when it resumes.

**`ReviewedDocumentProofs`**. For `DocumentReview`, any deciders and retry limit, from
`ReviewAssumption`:

- `AlwaysSound`: types and `ReviewSound` together (an attempt of `record_decision`
  is well-typed only because the result it was handed is a decider). `ReviewSound`
  ties the result to the first decision and what attempts wrote or told to the
  result. `TypeCorrect`, `FirstAlwaysWins`, `AuditAlwaysBacked` follow.
- `StatusAlwaysSettled`, and from it `ClosedAlwaysRecorded`: unless `set_status` was
  tried again, its only attempt is past its write before a decision is recorded.
- `ReviewImplementsOutcome` is the refinement: `Signal` maps to `Give` or a stutter,
  `WriteDecision` to `Record` or, when an attempt is repeated, a stutter; everything
  else stutters.

For the composition, any number of chunks and attempts, with `KnowledgeAssumption`:
`UploadTrue` (`StatusIsTrue`) and `SummaryNeverTorn`, from `UploadSound`, which ties
the verdict the handler carries to the chunks that are committed, and `ReadSound`. The
chunks are committed once and for all, and before that an attempt finds none, which is
why what it has read stays the beginning of what is stored.
`ReviewedIsReview` shows that a behaviour of the composition is one of the review
(its steps are the review's or leave the review alone), so `ReviewedKeepsPromises`
transfers the review's theorems and its refinement to it.

**`TenantAccessProofs`**, for any users, claims, tenants, requests, connections, keys
and bounds, from `SessionsAssumption` and `AccessAssumption`:

- `TypeCorrect`, and `SessionsStaySound`: a session's task, context, connection and
  setting agree, and a connection in the pool carries no tenant and no rows. It is
  what makes isolation inductive: a request reads what the connection's setting
  lets it see, whoever used that connection before.
- `Isolation`: `TokenTenantOnly` follows with `ContextOfToken`, that a context that
  came with the signed header is bound to the tenant of the request's own token. Of an
  exempt path's it says that it reads no rows and writes the body's tenant's only.
- `KeysStayFresh`: its invariant `KeysSound` says that cached keys, and keys on their
  way into the cache, were Keycloak's at the time they are stamped with or later
  (`ReadSince`): so a fetch that answers late and overwrites younger keys is as safe
  as any other.
- `LimitAlwaysHolds`: its invariant `LimiterSound` says of each counter that it has
  no more hits than requests that reached Redis, that within its window it has at
  least one for each request admitted, and that it does not expire before that
  window is over; and that no more requests were let through by a failed `INCR`
  (`LetThrough`) than calls failed. It needs `LimiterAssumption`: finitely many requests, and a limit
  above zero. The latter is no matter of convenience: with a limit of 0 the first
  request of a window whose `EXPIRE` raises is let through after it was counted.

**`AccountsProofs`**, for any requests, addresses, industries and number of faults, from
`AccountsAssumption`: `AnsweredAlwaysComplete`, `RecordsAlwaysTrue` and
`RolesAlwaysAsAsked`. The three are not inductive by themselves: what is answered is
complete because of what each stage of a request has achieved (`Achieved`) and which
stages its kind may reach (`Permitted`); that a profile is of the request that made
the user needs `Makers`: a user was made by one request, which asked for that address.

**`ConnectorHubProofs`**, for any connectors, requests, managers and ids, from
`HubAssumption`: `HubStaysSound`, and from it `CallsAlwaysAuthorised` and
`DeskAlwaysInOrder`. Its invariant
says of each phase of a handler what was seen of the connector since the request
began, and that a selected row is still the one it was read as (`DeskGrows`: rows are
neither removed nor renamed); `CheckedAllowlist` shows that the code's check and the
allowlist's own definition are the same.

**`ChatSessionProofs`**, for any number of turns, deletions and faults and any listed
definitions, from `ChatAssumption`:

- `HistoryAlwaysFaithful`: the invariant says what a turn has stored by the phase it
  is in, as long as it is of the session as it is now (`Current`): a session that is
  created again is younger than every turn but its creator.
- `ReminderNeverTwice`: answers are of distinct turns (`AnswersDistinct`), the history
  a turn has loaded is the beginning of the history as it is, or shares no answer with
  it, and the turn is to remind only if that history's last answer did not
  (`SeenSound`); the stored reminders are spaced (`RemindersSpaced`).

Only model-checked: liveness, that is `EveryRequestEnds`, `RunLeavesRunning`,
`DecisionTakesEffect` and `EveryChatEnds`, which is beyond the prover together with
ENABLED.

## 6. What is not modelled

Text, prompts, LLM answers and connector payloads; HTTP framing; telemetry,
settings, health and read-only views; the GraphQL aggregation. The adapters of
external APIs: each is one stateless call, which the models let succeed or fail.
Authorization: a look-up in a stateless table; models start where it has answered.
The audit service's ingest is an insert under a trigger that refuses updates. The
Temporal server, Keycloak, Redis and PostgreSQL appear as the code uses them. Chat
quick actions go to the Connector Hub and store nothing in the orchestrator.

## 7. What is left

1. The composition of `ChatSession`'s runs with `PackAuthoring`'s registry, so that the
   listed definitions of a chat are those of the tenant.
2. The engine steps of `PackRuntime` against `WorkflowEngine`: that a handler between
   its read and its save makes the turns of `RunEngine`.
3. Action properties of the stores (what a step never takes back), as theorems.
