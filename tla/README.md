# A TLA+ model of vcf-mcp

vcf-mcp is an MCP server that lets clients call tools on VMware Cloud Foundation
appliances ("targets"). This directory holds TLA+ modules translated from its
Python source, TLC configurations that check them on small instances, and TLAPS
proofs of what matters most for every size. Paths below are relative to
`src/vcf_mcp/` of the repository.

    tlc -workers 2 -config AuditFaults.cfg MCAuditedDispatch
    for m in *_proofs.tla; do tlapm $m; done

## 1. The system

One process runs an asyncio event loop. Blocking work (SQLite, files, cosign)
runs in worker threads through `asyncio.to_thread`. Every backend kind has an
MCP endpoint; an endpoint has a dispatcher, a pool of clients and a pack that
is frozen at startup. An admin site in the same process edits what they use.

| Part | State | Operations | Talks to |
|---|---|---|---|
| Dispatcher, `dispatcher/core.py` | none of its own: the stack of each call | `dispatch`: authorize, reserve, attempt record, handler, terminal record | reservations, ledger, targets, pool |
| Reservations, `dispatcher/reservations.py` | `_reserved_bytes` per endpoint | `acquire`, `release` | free space of the audit volume |
| Ledger, `audit/sqlite_repository.py` | the SQLite file; connection, `_reconciled`, one asyncio lock | append, probe, bootstrap, reopening, reconciliation, history queries | worker threads |
| Pool, `mcp_server.py` | cached clients, unsettled clients, registered calls, confirmed generation, cut-offs, one lock and one authentication lock per target | `invoke`, `get`, `invalidate`, `invalidate_all` | repository, client |
| Client, `vcf/client.py`, `vcenter.py`, `declared_backend.py` | session token and its generation, authentication lock, in-flight tasks, closed flag | read, sign in, back off, drain, release, close | slots of `upstream_control.py`, the appliance |
| Registry, `runtime_repository.py`, `target_verification.py` | `targets`, `api_keys` and `settings` rows, the endpoints that are mounted | register, edit, recheck, delete, lock out, keys, authorization mode, appliance CA | ledger, the backend's probe |
| Credential store, `runtime_repository.py` | the keyring file, the keys in memory, the rotation row; rows and keys under one RLock | encrypt, rotate, retire keys, startup integrity check | keyring file, database |
| Console access, `admin/auth.py`, `admin/routes.py` | password hash, session generation, signed cookies in browsers, bootstrap and recovery files | first password, login, confirmation, logout, recovery at startup | settings, files |
| Pack trust, `pack_trust.py`, `backend_packs.py` | staged, active and retained packs with their signatures | install, stage, activate, roll back, verify at startup | cosign, registry, settings |
| Startup and health, `main.py`, `app.py`, `runner.py` | which surfaces were built | bootstrap of both stores, `healthz` | all of the above |
| Adapters, projection, caps, skills, security | none | pure functions, content loaded at startup | |

What makes it hard:

* a task can be cancelled at every `await`, and cancelling `to_thread` does not
  stop the thread: the lock is free again while the thread still works;
* all calls share one ledger connection, and threads that outlive their caller
  share its one transaction; any failed append discards it, and the next use
  reconciles what it finds open;
* a call keeps a snapshot of its target while an administrator edits it;
* all requests of a client share one session, which the appliance may end at
  any time, and the client may be closed while they wait for a slot, sleep on a
  429 or sign in;
* a form names some fields of a target, the rest is read from the row twice, and
  the row changes while the appliance is probed;
* the console's session is a cookie: an answer that arrives late puts an old one
  back;
* the keyring file and the database are two stores with a crash between them,
  as are the recovery file and the database, and creations and edits encrypt
  before they take the lock a rotation holds, reading the active key three times
  for each envelope;
* space on the audit volume is promised before it is used;
* a pack and its signature are separate files, replaced by requests that run in
  threads of their own with nothing to keep two of them apart.

What would make each part correct: an attempt is durable before its handler
runs; nobody is told what the ledger does not hold; every attempt is concluded;
a cancelling change is final; an answer never crosses a change of trust; wrong
passwords are bounded; a session is replaced once however many requests met its
end, and every request ends; what a row stores is what a probe succeeded with;
keys fit the registry; a change proves the password; no key a row needs is
retired; no pack serves that was not reviewed, and no unsigned one beside
actions; nothing waits for ever. `PROJECT.json` lists the hazards one by one, at
their lines, with the properties that watch them.

## 2. Modules

| Component | Module | Proofs | Instance |
|---|---|---|---|
| Dispatcher, reservations, ledger | `AuditTrail` (abstract), `AuditedDispatch` | `AuditedDispatch_proofs` | `MCAuditedDispatch` |
| Pool | `BackendPool` | `BackendPool_proofs`, `BackendPoolBounds_proofs` | `MCBackendPool` |
| Client and slots | `SessionToken` (abstract), `ClientSession` | `ClientSession_proofs` | `MCClientSession` |
| Registry and verification | `TargetRegistry` | `TargetRegistry_proofs` | `MCTargetRegistry` |
| Console access | `AdminAccess` | `AdminAccess_proofs` | `MCAdminAccess` |
| Credential store | `CredentialRotation` | `CredentialRotation_proofs` | `MCCredentialRotation` |
| Packs | `PackActivation` | `PackActivation_proofs` | `MCPackActivation` |

An `MC` module adds the constants and symmetry sets the configurations use.
Operators that stand beside a definition and are used by nothing
(`HasRoomForOne` next to `HasRoom`, ...) are the broken variants the properties
were tested against; `PROJECT.json` pairs them.

### AuditTrail and AuditedDispatch

`AuditTrail` is the promise: a ledger to which calls add rows, the calls whose
handler ran, the answers callers got. A handler runs only after its attempt is
in the ledger, an answer is given only if the ledger supports it, and whatever
an ended or dead call left open may be closed as `outcome_unknown`.

`AuditedDispatch` is the code: `Dispatcher.dispatch`, `FreeSpaceReservations`
and `SqliteAuditRepository`. It extends `AuditTrail` for the shared variables
and the steps it implements (`TrailNext`).

| Variable | Code |
|---|---|
| `ledger` | committed rows of `audit_records`, as (correlation id, status) |
| `pc`, `status` | where the `dispatch` coroutine of a call stands, and the row it appends |
| `job`, `recovering` | the next statement of each worker thread, and the threads whose transaction is that of `_reconcile` |
| `holder` | the append or probe that owns the asyncio lock |
| `open`, `reconciled` | `_connection` is not None; `_reconciled` |
| `tx` | the transaction that is open on `_connection`, with the rows inserted in it |
| `leased`, `reserved` | leases with `_released = False`; `_reserved_bytes` of each endpoint |
| `ran`, `answer` | history: handlers that started; what the caller was told |
| `crowded` | history: two cancelled appends have had threads at work at one time |

One action is the code between two suspension points of a task, or one statement
of a thread. `Admit` and `Deny` are the part of `dispatch` up to the first append;
`HandlerStarts`, `AttemptRefused`, `HandlerEnds`, `TerminalReturns` and
`DenialReturns` are the resumptions; `Cancel` delivers a `CancelledError`
wherever the task is suspended. `TakeLock` is `_run`; `EnsureReady` and
`OpenFails` are the lazy opening; `Begin`, `Insert`, `Commit` are the three
statements of `_append`, `_probe_writable` and `_reconcile`, and `Mark` is the
line after the last one's COMMIT. `StatementRaises` is a BEGIN inside a
transaction or a COMMIT outside of one, `StatementFails` the storage; either is
followed by `Rollback` and `Discard`. The transaction belongs to the connection,
as in SQLite: a ROLLBACK drops whatever rows are in it, a COMMIT commits them,
whoever inserted them, and an INSERT outside of a transaction commits by itself.
A cancelled append frees the lock at once and leaves its thread working, so that
the next append's thread runs beside it. `Crash` and `Bootstrap` end and restart
the process.

### BackendPool

`BackendClientPool` for one target, together with the parts of
`VcfTargetClient`, `UpstreamControl`, the repository's lockout counter and the
admin routes that it meets. `pc[c]` is the place in `invoke`,
`_invoke_and_track`, `get`, `_settle_stale` and `request_read` where a call is
suspended; `lock` is the pool's asyncio lock with its first-come queue;
`client[k]` is a client's life from open over draining and closing to settled;
`step[e]` follows an admin request from its commit through `invalidate`: set the
cut-off, gather the cancelled calls, retire under the lock, settle the retired
clients. `reported`, `severed` and `retrusted` are history variables that say
what an administrator has been told.

### SessionToken and ClientSession

`SessionToken` is the promise: one call at a time signs in, only while there is
no session or the one that is held was refused or has expired, so a spent
session is replaced once.

`ClientSession` is one client with the requests that read through it.
`VcfTargetClient`, `VcenterTargetClient` and the schemes of
`DeclaredBackendClient` are one machine; `kind` says which, and its guards are
the differences: who looks at the expiry, who signs out of the old session
before it signs in, who exchanges a token in two requests, who has no session at
all. `pc[c]` goes from the queue for a slot over sending, backing off, wanting a
session, waiting for the lock and signing in to done; `count[c]` are its
reauthentications, its 429 retries and the attempts of a sign-in; `held` and
`issued` are `_token` and its generation; `valid` is what the appliance still
accepts. `phase` is the retirement: closed, draining, releasing the session,
shut. `met` and `early` are history variables.

### TargetRegistry

The rows of targets, keys and settings and the requests that change them. A
registration, edit or recheck goes through an attempt in the ledger
(`RecordAttempt`), a probe and its outcome in the ledger (`RecordOutcome`), the
second reading of the row (`PrepareAgain`) and the write (`Create`, `Update`,
`MarkVerified`); a deletion or the removal of the appliance CA goes through a
page (`ShowDeletion`, `ShowCaRemoval`) and the comparison of its digest with the
state at the confirmation. `row[t].stores` is what the row would probe with and
`row[t].proof` what `last_verified_at` vouches for. `Restart` mounts the
endpoints of usable targets and may quarantine one.

### AdminAccess

Who may change anything: `hash` is the password that counts, `generation` the
session generation, `cookie[b]` the signed session of a browser. A request
carries a copy of the cookie, and `Receive` puts the copy of the answer back,
whenever it arrives; `Lose` drops it. `Authenticate` is the part of
`_require_admin` every POST passes, `Confirm` the recent confirmation, `Change`
stands for the other changes a POST makes. `Start` and `Recover` are the startup
with its recovery file: the file is removed first and the transaction that uses
it comes second (`consumed` is the password in hand), and `Stop` may fall in
between.

### CredentialRotation

The keyring file, the keys in memory, the rotation row and the target rows.
`_rotate_credential_key_sync` holds the RLock throughout, but it is many steps:
a new key, the keyring file, the rotation row, a batch per call, the retirement
of keys. Between any two of them another thread may read the active key, for a
create or an edit encrypts before it asks for the lock, and the process may die.
`Prepare` is what precedes; then each envelope takes two steps, `BindEnvelope`
(the key that is bound into the associated data) and `Encrypt` (the key it is
encrypted with and the one it names); `CommitWrite` stores the row. A row is the
set of keys its envelopes name, and `torn` are the rows with an envelope that a
new key overtook between the two steps, which no key opens. `Bootstrap` is the
startup with its integrity check and quarantine. `mark` is a history variable:
what the keys a row names were worth when a request wrote it.

### PackActivation

`PackTrustManager` for one backend, the settings it reads and writes, and what
startup makes of them. `staged`, `active` and `retained[version]` are triples of
files (the pack, its sigstore bundle, its signed OCI archive); a file is the pack
it holds or signs. `request[r]` is the place of an admin request's worker thread
in `_install_manual_sync`, `_install_from_registry_sync`, `_install_staged_sync`
or `_rollback_sync`; every replaced or removed file and every database
transaction is an action, so any two requests, a fault (`Fails`) or a stop fall
between any two of them. `SetPolicy`, `CheckTrust` and `EnableActions` are the
other requests that depend on the same settings. `Boot` is
`verify_active_at_startup`, `load_backend_packs` and the trust setting: it decides
what `serving` is until the process stops. `reviewed` is a history variable: the
packs whose digest an operator confirmed.

### How they fit together

The modules meet at these seams; on each side the other is an action whose
choices cover it. `AuditedDispatch`'s handler is a call of `BackendPool` that
ends, fails or is cancelled. `BackendPool`'s clients are `ClientSession`s of
which it sees the life and whether a request is in flight; its admin requests
are the edits and deletions of `TargetRegistry` once they have committed.
`TargetRegistry` takes the posture and the trust of packs from `PackActivation`,
leaves encryption to `CredentialRotation`, and its requests have passed the
checks of `AdminAccess`. The lockout counter lives in `BackendPool`, where
`TargetRegistry` only needs that a target may be locked.

## 3. Runs

| Configuration | Bounds | States | Shows |
|---|---|---|---|
| `AuditFaults` | 3 calls, room for 2, 1 fault, 1 crash, no cancellation | 0.1 million | admission accounts for all; every attempt is concluded and every call ends, under fairness |
| `AuditCancel` | 3 calls, 2 cancellations, 1 fault or 1 crash | 1.7 million | the lease accounts; a ready ledger leaves open, and leases outlive, no more calls than were cancelled; the refinement `TrailUntilCrowded` |
| `PoolChanges` | 3 calls, 1 admin change, 1 disturbance, 1 slot, failure limit 1 | 1.2 million | cancelling changes are final, trust is current, no client is lost, password failures are bounded, nothing is stuck |
| `SessionShared` | 3 requests, 2 slots, 5 kinds of client, 1 retry, 2 events | 1.2 million | a session is replaced once (refinement of `SessionToken`), two refusals before a request gives up, slots and lock accounted for, transport outlives requests |
| `SessionEnds` | 2 requests, 1 slot, 4 kinds of client, 1 retry, 2 events | 87 thousand | every request ends and every retirement ends, under fairness |
| `RegistryEdits` | 2 targets of 2 products, 1 event; either 2 requests, 2 names, 1 bundle, 1 edit of a target, or 1 request, 2 keys, 2 appliance bundles, 1 key change | 0.4 million | what is stored was verified, only audited probes save, retired endpoints ask for a restart; active keys fit the registry, what a page showed is what is removed |
| `AdminRecovery` | 3 requests of 1 browser, 2 passwords, 1 recovery file, 2 starts | 0.5 million | changes prove the password, passwords are replaced by recovery files alone |
| `RotationFaults` | 2 targets, batches of 1, 2 requests of up to 3 envelopes, 3 keys, 1 fault, 1 crash | 3.0 million | rows keep the keys they name, a rotation can be resumed, completion means completion, quarantine is never a false alarm |
| `PackRequests` | 2 signed packs and an unsigned one with a version in common, 3 requests, 2 at a time, 1 fault, 1 stop | 2.5 million | nothing serves that was not reviewed, no unsigned pack serves beside actions, an undisturbed activation that does not replace its own source is complete, whatever was left behind |
| `AuditTwoTerminals`, `AuditLostRow`, `RotationLateWrite` | the smallest that show it | | a statement of the repository that the code does not keep, section 6 |

Why these bounds. Two calls are enough for every conflict over one lock, one
connection or one slot; the third is the bystander that is live while the other
two conflict, or that arrives after. A fault breaks an append, a probe, the
opening or its reconciliation, for any call or for all. Two cancellations leave
two threads on the connection of a third append. They make most of the states, so
that run has a fault or a crash and not both (`OneDisturbance`). One admin change
against three calls puts one call behind the cut-off, one in flight and one queued; one slot makes queueing happen. The
two events of a session are any two of a revocation, a password change, an
expiry, a cancellation and the retirement: enough for a session that is refused
twice, for a retirement with a request under way that is cancelled, or for a
request that signs in for a session others already replaced. The seven kinds are
divided between the two runs; VCF Operations and the exchange scheme are in both.
Two edits of one target race with each other, the second target makes a name
taken and is the survivor of a product; two keys make one gateway key conflict
with another. Concurrent edits together with changes of keys, mode and appliance
CA are too many states: `EditsOrKeys` has the run explore the one or the other, and
the proofs have both. Three requests of one browser are a
sign-in, a change and one whose answer is late; two starts put a recovery, or the
interruption of one, between them. Two targets in batches of one make a
rotation need two batches, so that an edit, a fault or a crash can fall between
them; three keys allow a second rotation; batches of more than one row, which a
fault cuts in the middle, are left to the proofs. Three pack requests are an upload, its
confirmation and one more that meets either of them, or a rollback after both; a
stop is what makes a pack serve. `MaxEvents`, `MaxFaults`, `MaxCancels`,
`MaxCrashes`, `MaxGeneration`, `MaxKeyChanges`, `MaxFiles`, `MaxStarts`,
`MaxKeys`, `MaxRequests` and `MaxStops` bound the runs and nothing in the code.

`CHECK_DEADLOCK FALSE` is set everywhere: every model stops once its calls are
done and its bounds are used up. That nothing stops early is a property:
`NothingIsStuck` for the pool, `CallsEnd` for the dispatcher, `RequestsEnd` and
`RetirementEnds` for the client.

Fairness is used by two specifications. In `AuditedDispatch` (`FairSpec`) a task
that can resume does and a thread goes on (asyncio and the operating system), a
handler ends because `wait_for` gives it a deadline, a dead container is restarted
and its health is polled (`deploy/compose.yml`: `restart: unless-stopped` and a
health check every 15 s, whose `healthz` calls `is_writable`). In `ClientSession`
a request that can go on does (`Proceeds`), because every exchange has the
transport's timeout, every sleep is bounded and the semaphore and the lock serve
their waiters in turn; and so does the task of a retirement (`Retires`). Weak
fairness is enough in both. No call, fault, cancellation, revocation, retirement
or crash is ever obliged to happen. `NothingIsStuck` needs no fairness: every step
of the pool makes the list of what is still to be done shorter (theorem
`RunsEnd`), so "something can always go on until all is done" already means that
all gets done.

`NothingIsStuck`, `CallsEnd` and `RequestsEnd` have two parts. One says that the
conditions the proofs speak of (`CanGoOn`, `CanResume`, `CanRun`, `CanProceed`,
`CanRetire`) are exactly when the actions are ENABLED, which only TLC can decide;
the other is the claim itself. A guard that is written down wrongly, or an action
that asks for more than its guard says, is a violation of the first part.

## 4. Proofs

The theorems hold for every value of the constants that meets the module's
assumptions: any number of calls, requests, targets, keys, packs, slots, faults,
crashes and events. Every safety property of the passing runs is proved, but for the half
of `NothingIsStuck` that is about ENABLED. Liveness (`AttemptsConcluded`,
`CallsEnd`, `RequestsEnd`, `RetirementEnds`) is model-checked only: it is out of
the prover's reach. What carries it is proved all the same, for the pool, the
client and the dispatcher:

* *nobody waits in vain*: while something is not finished, the guard of some task,
  thread or request that can go on holds (`NothingWaitsForEver`);
* *nothing goes round*: every step takes something off a list `ToDo` of what is
  still to be done and puts nothing on it, and the list is finite (`RunsEnd`,
  `EveryStepCounts`, `CallsGoForwards`).

Left to TLC is that those guards are exactly when the steps are ENABLED, and left
to the reader the induction from both facts to "everything ends". The list is a
set of pairs, one for each step that may still come: a call that is five places
from its end stands in it five times.

`AuditedDispatch_proofs`, from `ConstantsAssumption`:

* `TypeCorrectness`, `OneVerdictPerCall` and `RefusedCallsNeverRan` from the
  invariant `AuditInv`. What the rows of a call can be (`RowsFollowStatus`), in
  the ledger or in the open transaction, depends on what its task last did, and
  that depends on which threads may still be at work for a task that has ended
  (`JobsFollowTasks`, `ThreadsAtWork`, `TasksFollowStatus`); no part is inductive
  without the others.
* `AttemptPrecedesHandler` and `AnswersAreRecorded` from `TrailInv`. They are false
  of the code as it is (section 6), and are stated of all it does until two
  cancelled appends have threads at work at one time (`crowded`): with one stray
  (`OneStray`) a live append's COMMIT meets its own transaction or none, so what it
  reports is true (`ReportsAreTrue`).
* `LeasesAccounted` and `OwedRowsAreCovered` from `LeasesFollowTasks`, with the
  cardinality of the set of leases.
* `OnlyCancelledCallsStayOpen` and `CancellationsBoundTheLeak` from `CancelInv`,
  which says what a cancellation leaves behind, with any number of threads at
  work. A thread whose task no longer waits for it is a cancelled call's
  (`StraysWereCancelled`); whoever drops a row or meets a failing statement is
  about to discard the connection, so that the next append reconciles
  (`OwnTransaction`, `ClosedStore`); so what a ready ledger leaves open, and every
  lease that outlives its call, is a cancelled call's (`OrphansAreClosed`,
  `LeaksWereCancelled`). That a call is cancelled once at most (`CancelsCounted`)
  turns both into numbers. Without a cancellation nothing is left open or leased.
* `EachAccountCoversItsCalls` from `AccountsFit` and the lease accounts: with any
  number of endpoints, the calls of each fit into the free space together with
  the headroom. `OneAccountCoversAll` is the case of one endpoint; with two, the sum over
  the endpoints does not fit (section 6).
* `NothingWaitsForEver`: a task in an append waits for the lock or holds it with a
  thread at work or an answer to collect (`AppendsWait`), and so does whoever else
  holds it (`JobsFollowTasks`). It assumes that a handler has at least one outcome.
* `CallsGoForwards`: `Stage` counts the places before a call, `JobLeft` those of
  the append it is in, and no step throws another call back (`NoneBack`). A probe
  of the ledger takes nothing off the list, and health is polled for ever: hence
  the fairness of `CallsEnd`, which is asked of tasks and threads, not of probes.
* `DispatchImplementsTrail`: every step of the code is a step of `AuditTrail` or
  leaves the ledger, the handlers run and the answers alone, until `crowded`.

`BackendPool_proofs`, from `PoolAssumption`: `PoolTypeOK`, `OneClientIsOpen`,
`CancellationIsFinal` and `TrustIsAlwaysCurrent` from the invariant `PoolInv`. A
call that builds a client holds the pool's lock and nothing is cached meanwhile
(`Building`), for which the queue is shown to lose nobody but who leaves it
(`QueueSteps`). A barrier that is under way has already excluded what it will
report as gone: `Barrier(e)` says, for every place of an admin request, which
calls and which clients can still be of an older generation or bundle, and that
they are all among those it waits for; without it `CancelIsFinal` is not
inductive.

`BackendPoolBounds_proofs` adds `WrongPasswordsAreBounded`. Until the first
success whoever is past the check of the lockout owns the authentication lock
(`Serial`); a failure may still be in a thread of a cancelled call, which frees
the lock before it is counted. So the failures counted, and one more for the call
that tries, never exceed the limit and the cancelled calls that have nothing more
to add (`Counting`). `UnansweredCredentialsAreSerial` is what remains after that
first success, for each generation of its own: whoever is past the check without
the lock is of a generation that a success was recorded for (`AnsweredInv`), so
new credentials are tried by one call at a time whatever was confirmed before.

It also proves `NothingWaitsForEver`, the second half of `NothingIsStuck`, from
`WaitInv`: the queue of the pool's lock is exactly those who wait for it or hold
it (`QueueFits`), so its head can always go on; who holds the authentication lock
is past it, and who settles a client waits for one that is on its way out
(`CallWaits`); an admin request gathers calls that run, and settles clients that
retire (`EditWaits`). So the chain from a barrier over calls, slots, settlements
and retirements to the lock always ends at somebody who can go on.
`EveryStepCounts` needs no bound but `MaxEvents`; `RunsEnd` adds that the admin
requests are finitely many.

`ClientSession_proofs`, from `SessionAssumption`: `SessionTypeOK`,
`SlotsAndLockAlwaysAccounted`, `ExhaustionAlwaysNeedsTwoSessions`,
`TransportAlwaysOutlivesItsRequests` and the refinement `ClientImplementsToken`
from `SessionInv`. `Renewed` says that what a request is sent with is newer than
everything it saw refused, which needs that the session that is held is the last
one issued; `Tallies` ties the count of reauthentications to the number of
different sessions refused; `Awaited` says that a drain waits for every request
that was in flight at the closing. `NothingWaitsForEver` follows from the account
of slots and lock (`AtRest` is what is left when nobody can go on). `RunsEnd` has a
lexicographic measure: a request that goes back to wait for its slot, to sign in
or to be sent again has used up a retry or a reauthentication (`Budget`), and
otherwise is nearer to its end (`Way`, which counts the backoffs of a sign-in).

`TargetRegistry_proofs`, from `RegistryAssumption` and `RowAssumption`:
`RegistryTypeOK`, `StoredWasAlwaysVerified`, `OnlyAuditedProbesEverSave`,
`KeysAlwaysFitTheRegistry`, `ConfirmedIsAlwaysWhatIsRemoved` and
`RetiredEndpointsAlwaysNeedRestart`. That what is stored was verified needs that
no two requests register one target (`OneRegistration`) and that what a request
tested is the row of the generation it is based on, completed by its form
(`RequestsFollowRows`): the comparison of generations at the write is what makes
the second reading of the row harmless.

`AdminAccess_proofs`, from `AccessAssumption` and `RequestAssumption`:
`AccessTypeOK`, `ChangesAlwaysProveThePassword` and
`PasswordsAreOnlyReplacedByFiles`. Each recovery file counts once, as waiting, in
hand or as a generation (`FilesAreCounted`); every cookie and every session in a
request of the present generation was opened with the present password, wherever
the copies travel (`CookiesProven`, `SessionsProven`), since a password changes
only together with the generation.

`CredentialRotation_proofs`, from `RotationAssumption`: `RotationTypeOK`,
`NamedKeysAreNeverLost`, `RotationCanBeResumed`, `NoRowIsLeftBehind` and
`QuarantineIsNeverAFalseAlarm` from `RotationInv`. Its parts: keys are numbered as
they are minted (`Minted`);
where the call stands says which of file, memory and database agree (`JobFits`);
what the cursor has passed is under the new key but for late writes
(`PassedRowsMoved`), which rests on a batch having no gap (`BatchHasNoGap`) and
on a finite set of ids having a largest one (`LargestExists`).
`NamedKeysAreNeverLost` is about the keys a row names, torn envelopes included: a
torn one names a key that is kept for nothing.
`RotationsGoForwards`: a running rotation keeps its key and never goes back, and a
batch that succeeds moves the cursor or is the last one, since a batch takes the
next row there is (`BatchTakesTheNextRow`); so it completes after at most
`TargetCount` batches that succeed. `OnlyOvertakenRowsStopABatch`: all that keeps
a batch from decrypting its rows is a row that a rotation overtook, by changing the
key in the middle of an envelope or by retiring it before the commit (section 6).
A rotation that meets such a row can be resumed for ever without coming to its
end, so there is no `RunsEnd` here.

`PackActivation_proofs`, from `PackAssumption`: `Types`, `Reviewed` and
`Unsigned` from the invariant `PackInv`. `ServesOnlyReviewed` needs that every
pack in the active and the retained directory was reviewed, hence that every
request which is past its load carries reviewed bytes (`Holds`).
`UnsignedServesNoActions` needs that an unsigned pack serves only with trust
withdrawn and with no edit between its check of trust and its commit: the stop of
the process ends such an edit, and only a startup restores trust.
`Undisturbed` proves `UndisturbedActivationIsWhole` from a second invariant,
`AloneInv`: a request that is alone is the only one running, the source it reads
stays as it was verified until its signature is copied (`Verified`), and the
active files become the pack, its signature and nothing else, one after the
other (`Copied`). It does so for every rollback but one that replaces its own
source by retaining what was active (`Apart`), which section 6 describes.

## 5. Abstractions

* *Ledger.* Opening the store is one step, and so are the closing of a connection
  with the swap of `_connection` before it, and the reading and the inserts of one
  reconciliation, which are in one transaction. A connection that is closed ends
  the transactions of whoever worked on it: their next statement raises. The probe's
  coroutine is not cancelled, its thread's end frees the lock, and a probe that
  would change nothing is left out, as are the readers of the history pages, which
  may open the store but neither reconcile nor write. `acquire` and `release` are
  part of the step that calls them: their lock is never held over an await that suspends. A denial is one
  choice, whichever check made it.
* *Pool.* One target and one request per call, with the semantics of
  `VcfTargetClient`. A target edit's check for a locked target belongs to an
  earlier transaction than its commit, so it does not guard the commit. Closing
  the pool at shutdown is not modelled.
* *Client.* The slots are those of one client. Asking for the authentication
  lock and getting it are two steps, and neither the lock nor the semaphore
  remembers the order of its waiters. A revocation drops every session; requests
  the appliance already admitted may still be answered. A session is born fresh.
  A drain waits for a request to leave the client, not for the rest of its task.
  How long a backoff sleeps is left out, that it ends is not.
* *Registry.* What an edit does to running calls is `BackendPool`, whether it may
  enable actions `PackActivation`. The appliance's CA may change between the
  probe and the save, so it is no part of what was verified. A restart assumes
  that the endpoints of usable targets could be built, and damages one target at
  most; rows are found damaged at restarts only. Scopes of keys are targets and
  endpoints, not tools. A page of the console reads its parts in one step. A
  product whose pack is missing is not modelled.
* *Console access.* CSRF tokens and the idle timeout are a refusal that may
  always happen; that a confirmation is recent is a flag that time takes away.
  GET requests change no more than a refused POST. Every password is long enough;
  a file may hold something unfit. A bootstrap file that fits is used and unlinked
  in one step. `Change` stands for every change that asks for a recent
  confirmation.
* *Rotation.* Of a row's envelopes the model keeps the keys they name together, and
  whether one of them is torn: all are written, and read, together. The second and
  the third reading of the active key in one envelope are one step, for a change
  before either gives an envelope that names the new key and that it does not open.
  A transaction that a raising batch leaves open on the connection is resolved at
  once, either way.
* *Packs.* Those of one backend. Whether a signature verifies depends on the
  files alone; parsing failures and refusals of cosign are `Fails`. The two reads
  of `_refuse_unsigned_if_unsafe` are one step, as are the checks and the reads
  of one signature. Startup is taken to succeed once the packs are accepted.
* Startup of each store is atomic, and a crash during it equals one before it.

## 6. Where code and text disagree

Three runs end in a counterexample; `PROJECT.json` quotes the text.

* *Two terminal records* (`AuditTwoTerminals`). A health probe whose statement fails
  discards the connection while a call is at work; the call's own terminal append
  reopens the ledger, reconciliation closes the call's attempt as `outcome_unknown`,
  and the append goes on to write `ok` beside it.
* *A committed row that is not there* (`AuditLostRow`). Two cancelled appends leave
  their threads at work. A third call's append begins and inserts; the first thread's
  BEGIN raises and its ROLLBACK drops the row; the second thread's BEGIN opens a
  transaction of its own, and the live append's COMMIT ends that one and succeeds.
  The handler runs without its attempt. The same may happen to a terminal record.
* *A row under a key that is gone* (`RotationLateWrite`). A registration encrypts its
  user name, a whole rotation retires the key, the registration commits. An edit can
  do the same.

The rest was met while modelling. The models have the behaviour; what they check
is what remains true in spite of it.

* *A torn envelope.* `_encrypt` (`runtime_repository.py:2464-2481`) runs outside the
  lock and reads the active key for the associated data, for the encryption and for
  the name it writes; a new key in between (`:2103`) leaves an envelope that nothing
  opens although every key is held. Batches raise on it, and the next startup
  quarantines it, or refuses to open the store if it is the only row; README.md:75
  says that keys rotate online.
* *A lost reservation.* `dispatcher/core.py:196` releases the lease in
  `except Exception`, which does not catch the cancellation of an attempt's
  append; `tests/test_dispatcher.py:243` says a cancellation releases the
  reservation, and tests one in the handler only. A cancellation costs one
  reservation at most and nothing else costs any (`OnlyCancelledAttemptsLeak`).
* *Two accounts, one volume.* `mcp_server.py:1088` gives each endpoint an account
  of the same free space, which `dispatcher/reservations.py:55` describes as one.
* *A closed client takes a request.* `vcf/client.py:240` looks at the closed flag
  before the wait for a slot, `:499` says a closed client takes none.
* *An old generation returns* (`mcp_server.py:212`, against `contracts.py:403`)
  when a call's snapshot predates a draining edit.
* *A lockout that does not last.* README.md:70 says failures "lock one target
  before another request can reach it". A call that was answered before the
  failures resumes from `record_auth_success` after them and confirms its
  generation again (`mcp_server.py:211-213`); later calls of that generation skip
  the check of the lockout and use the cached client. A generation no call has
  succeeded with never does (`UnansweredCredentialsAreSerial`).
* *More than one sign-in of a storm.* `vcf/client.py:300-304` says the sign-in
  happens exactly once across all callers. When the first one's fails, each of
  the others tries its own; `SessionToken` therefore speaks of sessions that were
  issued.
* *A rollback that destroys what it rolls back to* (`pack_trust.py:582-591`,
  against decision 019): retaining the active pack overwrites a retained one of
  the same version before it is activated. Two confirmations at once can file a
  pack under the version of another (`:633`: the name is that of the pack that was
  checked, the bytes are those that are active by then); the rollback to that name
  may then sign the pack it loaded with the bundle of the one it replaced.
  `UndisturbedActivationIsWhole` leaves out the rollback that replaces its source.
* *A recovered target without its endpoint.* The edit that repairs the last
  quarantined target of a product (`runtime_repository.py:1468-1500`) does not ask
  for the restart that would mount its endpoint: the console's maintenance part
  says that no change is waiting for one (`admin/templates/dashboard.html:333`)
  while its list of endpoints says "restart required" (`:42`).
* *A committed edit answered 400*, when the invalidation after it raises
  (`admin/routes.py:412-424`).
* *A bootstrap file that cannot be unlinked* makes every sign-in fail, even once
  a password is set (`runtime_repository.py:980`).
* *An unsigned activation that loses the race with an edit enabling actions*
  withdraws trust at the next start, so the actions are refused although the
  console accepted them (`pack_trust.py:594`): safe, and surprising.

## 7. Plan

Done, in this order: audit core, pool, rotation, packs, client and session,
registry, console access; proofs for all of them, and for pool, client and
dispatcher that nothing waits in vain and nothing goes round. Left:

1. `Startup`: which surfaces are built or withheld, and what `healthz` says of it.
2. The lockout over right and wrong passwords of one generation, composed with
   `TargetRegistry`'s unlocking; a transport whose closing raises
   (`mcp_server.py:311`).
3. The refresh of the trust root beside activations (`pack_trust.py:178`).
4. Pure algorithms against reference definitions: order of authorization checks,
   projection and caps, backoff with its Retry-After.

## 8. Not modelled

The tool registry and skills (read-only after startup); adapters, projection,
caps and the parsing of declarative packs (pure; item 4); fixtures (synthetic
data); templates; the cosign and registry protocols (external); the registry
catalogue and the refresh of the trust root; the history queries of the audit
ledger and the migrations of both schemas; the upgrade pages and the wording of
every page; deployment files and the tests.
