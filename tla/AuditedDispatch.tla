-------------------------- MODULE AuditedDispatch ---------------------------
(***************************************************************************)
(* Dispatcher.dispatch, FreeSpaceReservations and SqliteAuditRepository:   *)
(* tool calls that reserve audit space, append an attempt, run a handler   *)
(* and append its outcome, over one ledger file that fails, is reopened    *)
(* and reconciled, in tasks that may be cancelled and a process that may   *)
(* die.                                                                    *)
(*                                                                         *)
(* Grain: one action per stretch of the event loop between two real        *)
(* suspension points, and one per SQL statement of the worker threads that *)
(* asyncio.to_thread starts: a cancelled append frees the repository's     *)
(* lock and does not stop its thread, so several threads may be at work on *)
(* the one connection and its one transaction.  The reservation lock is    *)
(* never held across a suspension point, so acquire and release are part   *)
(* of the step that calls them.                                            *)
(***************************************************************************)
EXTENDS Integers, FiniteSets, AuditTrail

CONSTANTS
    Endpoints,        \* MCP endpoints: one Dispatcher and one reservation account each
    EndpointOf,       \* the endpoint every call is made on
    HandlerOutcomes,  \* how a handler may end: returns, raises, meets its deadline
    AvailableBytes,   \* free bytes of the audit volume, as disk_usage reports them
    HealthCheck,      \* whoever asks is_writable: /healthz or the admin middleware
    NoCall,           \* nobody holds the repository's lock
    MaxFaults,        \* bound: statements the storage layer refuses
    MaxCancels,       \* bound: CancelledErrors delivered to dispatch tasks
    MaxCrashes        \* bound: process deaths

ASSUME ConstantsAssumption ==
    /\ IsFiniteSet(Calls)
    /\ HealthCheck \notin Calls
    /\ NoCall \notin Calls \cup {HealthCheck}
    /\ EndpointOf \in [Calls -> Endpoints]
    /\ HandlerOutcomes \subseteq {"ok", "error", "timeout"}
    /\ AvailableBytes \in Nat
    /\ MaxFaults \in Nat
    /\ MaxCancels \in Nat
    /\ MaxCrashes \in Nat

VARIABLES
    pc,         \* where the dispatch task of each call stands
    status,     \* AuditStatus of the row the call appends now, or appended last
    job,        \* the append of each call, and the probe: what its thread does next
    recovering, \* threads whose transaction is that of _reconcile
    holder,     \* whose append or probe holds SqliteAuditRepository._lock
    open,       \* _connection is not None
    reconciled, \* _reconciled
    tx,         \* the transaction open on _connection, and the rows inserted in it
    leased,     \* calls whose ReservationLease has _released = False
    reserved,   \* FreeSpaceReservations._reserved_bytes of each endpoint
    up,         \* the process is running
    crowded,    \* two cancelled appends have left threads at work at one time
    faults, cancels, crashes

taskVars == <<pc, status>>
threadVars == <<job, recovering, holder>>
storeVars == <<open, reconciled, tx>>
leaseVars == <<leased, reserved>>
boundVars == <<up, crowded, faults, cancels, crashes>>
vars == <<trailVars, taskVars, threadVars, storeVars, leaseVars, boundVars>>

\* reservations.py: 4096-byte pages behind 24-byte WAL frame headers.
FrameBytes == 4096 + 24
CHECKPOINT_HEADROOM_BYTES == 1000 * (FrameBytes + 4096)
CALL_RESERVATION_BYTES == 2 * 4 * FrameBytes

Threads == Calls \cup {HealthCheck}

\* Between _require_connection and the end of its transaction, in the order of
\* the code; "mark" is about to set _reconciled after _reconcile's COMMIT.
OnConnection == {"begin", "insert", "commit", "mark", "rollback"}

\* In a worker thread.  "discard" is about to close whatever connection is open;
\* a thread whose own connection another one closed can do nothing else, but
\* for setting _reconciled first where that came next.
Working == OnConnection \cup {"start", "mark_closed", "discard"}

\* Threads that a cancelled append has left at work.
Strays == {c \in Calls : job[c] \in Working /\ holder # c}

NoTransaction == [open |-> FALSE, rows |-> {}]

\* The thread's result reaches the task that still waits for it, if one does.
Result(t, r) == IF holder = t /\ t \in Calls THEN r ELSE "idle"

\* A probe's coroutine frees the lock when its thread ends.
Freed(t) == IF t = HealthCheck THEN NoCall ELSE holder

Init ==
    /\ TrailInit
    /\ pc = [c \in Calls |-> "new"]
    /\ status = [c \in Calls |-> "none"]
    /\ job = [t \in Threads |-> "idle"]
    /\ recovering = {}
    /\ holder = NoCall
    /\ open = TRUE
    /\ reconciled = TRUE
    /\ tx = NoTransaction
    /\ leased = {}
    /\ reserved = [e \in Endpoints |-> 0]
    /\ up = TRUE
    /\ crowded = FALSE
    /\ faults = 0
    /\ cancels = 0
    /\ crashes = 0

-----------------------------------------------------------------------------
(* The dispatch task.                                                      *)

\* The task asks for a row with status s to be appended.
Append(c, s) ==
    /\ pc' = [pc EXCEPT ![c] = "append"]
    /\ status' = [status EXCEPT ![c] = s]
    /\ job' = [job EXCEPT ![c] = "waiting"]
    /\ UNCHANGED <<recovering, holder>>

\* Mutant: admission looks at its own call only.
HasRoomForOne(c) ==
    CHECKPOINT_HEADROOM_BYTES + CALL_RESERVATION_BYTES <= AvailableBytes

\* FreeSpaceReservations.acquire on c's endpoint finds room.
HasRoom(c) ==
    CHECKPOINT_HEADROOM_BYTES + reserved[EndpointOf[c]] + CALL_RESERVATION_BYTES
        <= AvailableBytes

\* Every authorization check passed, the reservation is held.
Admit(c) ==
    /\ up
    /\ pc[c] = "new"
    /\ HasRoom(c)
    /\ leased' = leased \cup {c}
    /\ reserved' = [reserved EXCEPT ![EndpointOf[c]] = @ + CALL_RESERVATION_BYTES]
    /\ Append(c, "attempt")
    /\ UNCHANGED <<trailVars, storeVars, boundVars>>

\* Endpoint, revocation, target, scope or posture says no, or no audit space
\* is left.  The authorization data is abstracted: any call may be refused.
Deny(c) ==
    /\ up
    /\ pc[c] = "new"
    /\ Append(c, "denied")
    /\ UNCHANGED <<trailVars, storeVars, leaseVars, boundVars>>

Answer(c, a) ==
    /\ answer' = [answer EXCEPT ![c] = a]
    /\ pc' = [pc EXCEPT ![c] = "done"]

\* Mutant: the lease is marked released, its bytes stay reserved.
ReleaseKeepsBytes(c) ==
    /\ leased' = leased \ {c}
    /\ UNCHANGED reserved

\* ReservationLease.release, at most once per lease.
Release(c) ==
    IF c \in leased
    THEN /\ leased' = leased \ {c}
         /\ reserved' = [reserved EXCEPT ![EndpointOf[c]] = @ - CALL_RESERVATION_BYTES]
    ELSE UNCHANGED leaseVars

\* Mutant: the lock is not freed when the thread raised.
ResumedWithLock(c, r) ==
    /\ holder = c
    /\ job[c] = r
    /\ holder' = IF r = "failed" THEN holder ELSE NoCall
    /\ UNCHANGED <<recovering, storeVars, boundVars>>

\* The task resumes from its append with result r and frees the lock.
Resumed(c, r) ==
    /\ holder = c
    /\ job[c] = r
    /\ holder' = NoCall
    /\ UNCHANGED <<recovering, storeVars, boundVars>>

DenialReturns(c) ==
    /\ status[c] = "denied"
    /\ \/ Resumed(c, "committed") /\ Answer(c, "denied")
       \/ Resumed(c, "failed") /\ Answer(c, "denial_write_failed")
    /\ job' = [job EXCEPT ![c] = "idle"]
    /\ UNCHANGED <<ledger, ran, status, leaseVars>>

\* Mutant: the reservation is given back once the attempt is durable.
HandlerStartsReleased(c) ==
    /\ status[c] = "attempt"
    /\ Resumed(c, "committed")
    /\ job' = [job EXCEPT ![c] = "idle"]
    /\ pc' = [pc EXCEPT ![c] = "handler"]
    /\ ran' = ran \cup {c}
    /\ Release(c)
    /\ UNCHANGED <<ledger, answer, status>>

\* The attempt is durable: asyncio.wait_for starts the handler.
HandlerStarts(c) ==
    /\ status[c] = "attempt"
    /\ Resumed(c, "committed")
    /\ job' = [job EXCEPT ![c] = "idle"]
    /\ pc' = [pc EXCEPT ![c] = "handler"]
    /\ ran' = ran \cup {c}
    /\ UNCHANGED <<ledger, answer, status, leaseVars>>

\* Mutant: a refused attempt does not release its lease.
AttemptRefusedLeaks(c) ==
    /\ status[c] = "attempt"
    /\ Resumed(c, "failed")
    /\ Answer(c, "attempt_write_failed")
    /\ job' = [job EXCEPT ![c] = "idle"]
    /\ UNCHANGED <<ledger, ran, status, leaseVars>>

AttemptRefused(c) ==
    /\ status[c] = "attempt"
    /\ Resumed(c, "failed")
    /\ Answer(c, "attempt_write_failed")
    /\ Release(c)
    /\ job' = [job EXCEPT ![c] = "idle"]
    /\ UNCHANGED <<ledger, ran, status>>

\* Mutant: the dispatcher writes the status only recovery may write.
HandlerEndsUnknown(c) ==
    /\ pc[c] = "handler"
    /\ \E s \in HandlerOutcomes \cup {"outcome_unknown"} : Append(c, s)
    /\ UNCHANGED <<trailVars, storeVars, leaseVars, boundVars>>

\* The handler returns, raises, or meets the deadline.
HandlerEnds(c) ==
    /\ pc[c] = "handler"
    /\ \E s \in HandlerOutcomes : Append(c, s)
    /\ UNCHANGED <<trailVars, storeVars, leaseVars, boundVars>>

\* A failed terminal append is reported, unless the call was cancelled: then
\* the cancellation is raised whatever became of the row.
TerminalReturns(c) ==
    /\ status[c] \in Outcomes
    /\ \/ Resumed(c, "committed") /\ Answer(c, status[c])
       \/ /\ Resumed(c, "failed")
          /\ Answer(c, IF status[c] = "cancelled" THEN "cancelled"
                       ELSE "outcome_unknown")
    /\ Release(c)
    /\ job' = [job EXCEPT ![c] = "idle"]
    /\ UNCHANGED <<ledger, ran, status>>

\* CancelledError inside the handler is remembered and the row is still owed.
CancelHandler(c) ==
    /\ pc[c] = "handler"
    /\ Append(c, "cancelled")
    /\ UNCHANGED <<trailVars, storeVars, leaseVars, crowded>>

\* CancelledError inside append_committed leaves dispatch.  An append that
\* waits for the lock, or whose work item no thread has taken yet, is dropped;
\* one a thread runs goes on without a task and without the lock.  Only the
\* terminal append has a finally clause around it: "except Exception" does
\* not release the lease of a cancelled attempt.
CancelAppend(c) ==
    /\ pc[c] = "append"
    /\ Answer(c, "cancelled")
    /\ holder' = IF holder = c THEN NoCall ELSE holder
    /\ \/ /\ job[c] \in Working
          /\ crowded' = (crowded \/ Strays # {})
          /\ UNCHANGED job
       \/ /\ job[c] \in {"waiting", "start", "committed", "failed"}
          /\ job' = [job EXCEPT ![c] = "idle"]
          /\ UNCHANGED crowded
    /\ IF status[c] \in Outcomes THEN Release(c) ELSE UNCHANGED leaseVars
    /\ UNCHANGED <<ledger, ran, status, recovering, storeVars>>

Cancel(c) ==
    /\ cancels < MaxCancels
    /\ cancels' = cancels + 1
    /\ CancelHandler(c) \/ CancelAppend(c)
    /\ UNCHANGED <<up, faults, crashes>>

-----------------------------------------------------------------------------
(* SqliteAuditRepository: the lock, the worker threads and the connection. *)
(* The connection is in autocommit mode: a transaction is what BEGIN opens *)
(* and belongs to the connection, not to the thread.                       *)

\* async with self._lock: await asyncio.to_thread(...).  Any call that waits may
\* be next.  The lock is FIFO, so a probe comes after the calls that wait; one
\* that finds the store ready, nobody else at work and no fault changes nothing
\* and is left out.
TakeLock(t) ==
    /\ holder = NoCall
    /\ \/ job[t] = "waiting"
       \/ /\ t = HealthCheck
          /\ up
          /\ job[t] = "idle"
          /\ \A c \in Calls : job[c] # "waiting"
          /\ ~open \/ ~reconciled \/ Strays # {} \/ faults < MaxFaults
    /\ holder' = t
    /\ job' = [job EXCEPT ![t] = "start"]
    /\ UNCHANGED <<trailVars, taskVars, recovering, storeVars, leaseVars, boundVars>>

\* Mutant: an opened store calls itself ready without reconciliation.
EnsureOpen(t) ==
    /\ job[t] = "start"
    /\ open' = TRUE
    /\ reconciled' = TRUE
    /\ job' = [job EXCEPT ![t] = "begin"]
    /\ UNCHANGED <<trailVars, taskVars, recovering, holder, tx, leaseVars, boundVars>>

\* _ensure_ready, up to the BEGIN of _reconcile if it has to reconcile.
\* Opening the store is one step.
EnsureReady(t) ==
    /\ job[t] = "start"
    /\ open' = TRUE
    /\ recovering' = IF reconciled THEN recovering ELSE recovering \cup {t}
    /\ job' = [job EXCEPT ![t] = "begin"]
    /\ UNCHANGED <<trailVars, taskVars, holder, reconciled, tx, leaseVars, boundVars>>

Fault ==
    /\ faults < MaxFaults
    /\ faults' = faults + 1
    /\ UNCHANGED <<up, crowded, cancels, crashes>>

\* The store cannot be opened: nothing is discarded.
OpenFails(t) ==
    /\ job[t] = "start"
    /\ ~open
    /\ Fault
    /\ job' = [job EXCEPT ![t] = Result(t, "failed")]
    /\ holder' = Freed(t)
    /\ UNCHANGED <<trailVars, taskVars, recovering, storeVars, leaseVars>>

\* t's step is over and comes to s; no task, lease or caller sees it.
GoesTo(t, s) ==
    /\ job' = [job EXCEPT ![t] = s]
    /\ UNCHANGED <<ran, answer, taskVars, leaseVars, boundVars>>

Begin(t) ==
    /\ job[t] = "begin"
    /\ ~tx.open
    /\ tx' = [tx EXCEPT !.open = TRUE]
    /\ GoesTo(t, "insert")
    /\ UNCHANGED <<ledger, recovering, holder, open, reconciled>>

\* Mutant: recovery infers that an open attempt succeeded.
WrittenOk(t, rows) ==
    IF t \in recovering THEN {Row(c, "ok") : c \in OpenIn(rows)}
    ELSE {Row(c, status[c]) : c \in Calls \cap {t}}

\* What t's transaction inserts: _reconcile closes the attempts it finds open
\* among the rows it sees; a probe writes a row of another table.
Written(t, rows) ==
    IF t \in recovering THEN RecoveryIn(rows)
    ELSE {Row(c, status[c]) : c \in Calls \cap {t}}

\* The connection sees what any thread inserted in its transaction.  Outside a
\* transaction, after another thread's ROLLBACK, an INSERT commits by itself.
Insert(t) ==
    /\ job[t] = "insert"
    /\ LET new == Written(t, ledger \cup tx.rows)
       IN  IF tx.open
           THEN tx' = [tx EXCEPT !.rows = @ \cup new] /\ UNCHANGED ledger
           ELSE ledger' = ledger \cup new /\ UNCHANGED tx
    /\ GoesTo(t, "commit")
    /\ UNCHANGED <<recovering, holder, open, reconciled>>

\* COMMIT ends the transaction that is open by now, whoever began it.
Commit(t) ==
    /\ job[t] = "commit"
    /\ tx.open
    /\ ledger' = ledger \cup tx.rows
    /\ tx' = NoTransaction
    /\ IF t \in recovering
       THEN GoesTo(t, "mark") /\ UNCHANGED holder
       ELSE GoesTo(t, Result(t, "committed")) /\ holder' = Freed(t)
    /\ UNCHANGED <<recovering, open, reconciled>>

\* _reconcile sets _reconciled, of whatever connection is open by now.
Mark(t) ==
    /\ job[t] \in {"mark", "mark_closed"}
    /\ reconciled' = TRUE
    /\ recovering' = recovering \ {t}
    /\ GoesTo(t, IF job[t] = "mark" THEN "begin" ELSE "discard")
    /\ UNCHANGED <<ledger, holder, open, tx>>

\* BEGIN inside a transaction, or COMMIT outside of one.
StatementRaises(t) ==
    /\ \/ job[t] = "begin" /\ tx.open
       \/ job[t] = "commit" /\ ~tx.open
    /\ GoesTo(t, "rollback")
    /\ UNCHANGED <<ledger, recovering, holder, storeVars>>

\* The storage layer refuses a statement; SQLite may roll back by itself.
StatementFails(t) ==
    /\ job[t] \in {"begin", "insert", "commit"}
    /\ Fault
    /\ tx' \in {tx, NoTransaction}
    /\ job' = [job EXCEPT ![t] = "rollback"]
    /\ UNCHANGED <<trailVars, taskVars, recovering, holder, open, reconciled, leaseVars>>

\* ROLLBACK drops the rows of whatever transaction is open.
Rollback(t) ==
    /\ job[t] = "rollback"
    /\ tx' = NoTransaction
    /\ GoesTo(t, "discard")
    /\ UNCHANGED <<ledger, recovering, holder, open, reconciled>>

\* _discard_connection closes the connection that is open by now, under
\* whoever works on it.
Discard(t) ==
    /\ job[t] = "discard"
    /\ open' = FALSE
    /\ reconciled' = FALSE
    /\ tx' = NoTransaction
    /\ job' = [d \in Threads |->
                 IF d = t THEN Result(t, "failed")
                 ELSE IF job[d] = "mark" THEN "mark_closed"
                 ELSE IF job[d] \in OnConnection THEN "discard"
                 ELSE job[d]]
    /\ recovering' = {d \in recovering : job[d] \in {"mark", "mark_closed"}}
    /\ holder' = Freed(t)
    /\ UNCHANGED <<trailVars, taskVars, leaseVars, boundVars>>

-----------------------------------------------------------------------------
(* The process.                                                            *)

Running == {c \in Calls : pc[c] \in {"append", "handler"}}

\* Tasks, threads, leases and the connection go; committed rows stay.
Crash ==
    /\ up
    /\ crashes < MaxCrashes
    /\ crashes' = crashes + 1
    /\ up' = FALSE
    /\ pc' = [c \in Calls |-> IF c \in Running THEN "done" ELSE pc[c]]
    /\ answer' = [c \in Calls |-> IF c \in Running THEN "lost" ELSE answer[c]]
    /\ job' = [t \in Threads |-> "idle"]
    /\ recovering' = {}
    /\ holder' = NoCall
    /\ open' = FALSE
    /\ reconciled' = FALSE
    /\ tx' = NoTransaction
    /\ leased' = {}
    /\ reserved' = [e \in Endpoints |-> 0]
    /\ UNCHANGED <<ledger, ran, status, crowded, faults, cancels>>

\* create_production_app: bootstrap reconciles before the server starts, or
\* fails and the server starts degraded.
Bootstrap ==
    /\ ~up
    /\ up' = TRUE
    /\ \/ /\ Recover
          /\ open' = TRUE
          /\ reconciled' = TRUE
          /\ UNCHANGED faults
       \/ /\ faults < MaxFaults
          /\ faults' = faults + 1
          /\ UNCHANGED <<trailVars, open, reconciled>>
    /\ UNCHANGED <<taskVars, threadVars, tx, leaseVars, crowded, cancels, crashes>>

-----------------------------------------------------------------------------
Task(c) ==
    \/ DenialReturns(c)
    \/ HandlerStarts(c)
    \/ AttemptRefused(c)
    \/ HandlerEnds(c)
    \/ TerminalReturns(c)

Thread(t) ==
    \/ TakeLock(t)
    \/ EnsureReady(t)
    \/ OpenFails(t)
    \/ Begin(t)
    \/ Insert(t)
    \/ Commit(t)
    \/ Mark(t)
    \/ StatementRaises(t)
    \/ StatementFails(t)
    \/ Rollback(t)
    \/ Discard(t)

Next ==
    \/ \E c \in Calls : Admit(c) \/ Deny(c) \/ Task(c) \/ Cancel(c)
    \/ \E t \in Threads : Thread(t)
    \/ Crash
    \/ Bootstrap

\* Every task that can resume does (the handler's deadline ends it), every
\* thread goes on, a dead container is restarted and its health is polled.
\* Nothing obliges a call, a fault, a cancellation or a crash to happen.
Fairness ==
    /\ \A c \in Calls : WF_vars(Task(c))
    /\ \A t \in Threads : WF_vars(Thread(t))
    /\ WF_vars(Bootstrap)

Spec == Init /\ [][Next]_vars

FairSpec == Spec /\ Fairness

-----------------------------------------------------------------------------
(* Properties.                                                             *)

Live(c) == pc[c] \in {"append", "handler"}

\* The call holds its reservation between admission and its terminal append.
Owes(c) == pc[c] = "handler" \/ (pc[c] = "append" /\ status[c] # "denied")

TypeOK ==
    /\ ledger \subseteq Rows
    /\ ran \subseteq Calls
    /\ answer \in [Calls -> Answers \cup {"none"}]
    /\ pc \in [Calls -> {"new", "append", "handler", "done"}]
    /\ status \in [Calls -> Outcomes \cup {"none", "denied", "attempt"}]
    /\ job \in [Threads -> Working \cup {"idle", "waiting", "committed", "failed"}]
    /\ recovering \subseteq Threads
    /\ holder \in Threads \cup {NoCall}
    /\ open \in BOOLEAN
    /\ reconciled \in BOOLEAN
    /\ tx \in [open : BOOLEAN, rows : SUBSET Rows]
    /\ leased \subseteq Calls
    /\ reserved \in [Endpoints -> Int]
    /\ up \in BOOLEAN
    /\ crowded \in BOOLEAN
    /\ faults \in 0..MaxFaults
    /\ cancels \in 0..MaxCancels
    /\ crashes \in 0..MaxCrashes

\* No handler ever runs, or has run, without a durable attempt row, through
\* failing storage, cancelled tasks and restarts (dispatch, decision 009).  It
\* holds until two cancelled appends leave threads at work at one time.
AttemptBeforeHandler == \A c \in ran : Attempted(c)

\* A caller told ok, error, timeout or denied can be shown the committed row
\* that says the same, and a refused caller's handler never ran: dispatch
\* answers from the append's result, never ahead of it.
AnswerMatchesLedger ==
    \A c \in Calls : answer[c] # "none" => Supported(c, answer[c])

\* A caller who was refused, or told that nothing was written, never had its
\* handler run, whatever the threads of cancelled appends do to the ledger.
RefusalsAreTrue ==
    \A c \in Calls :
        answer[c] \in {"attempt_write_failed", "denied", "denial_write_failed"} => c \notin ran

\* The dispatcher, its threads and its store are an audit trail: every step is
\* one of AuditTrail's or leaves it alone, until two cancelled appends leave
\* threads at work at one time.  From then on one of them may roll back what
\* another inserted, and a COMMIT may succeed on a third thread's transaction.
TrailUntilCrowded == TrailInit /\ [][crowded' \/ TrailNext]_trailVars

\* dispatch itself appends one verdict per call and never denies what it
\* attempted; only reconciliation may add an outcome_unknown beside it.
DispatcherSpeaksOnce ==
    \A c \in Calls :
        /\ \A s, t \in Outcomes : Row(c, s) \in ledger /\ Row(c, t) \in ledger => s = t
        /\ Row(c, "denied") \in ledger =>
             ~Attempted(c) /\ ~ \E s \in Outcomes : Row(c, s) \in ledger

\* "One call owes one terminal record": never two of them in the ledger.
OneTerminalRecord ==
    \A c \in Calls : \A s, t \in Statuses \ {"attempt"} :
        Row(c, s) \in ledger /\ Row(c, t) \in ledger => s = t

\* Calls that a CancelledError reached.
Cancelled == {c \in Calls : status[c] = "cancelled" \/ answer[c] = "cancelled"}

\* A thread whose statement raised or whose connection is gone is going to
\* discard the connection that is open by then.
DiscardIsDue == \E t \in Threads : job[t] \in {"rollback", "discard", "mark_closed"}

\* A store that calls itself ready, with nobody about to discard it, holds no open
\* attempt but those of calls that are still going to write their own outcome,
\* and of calls cancelled in an append, one for each cancellation at most: what
\* an earlier process, a failed append or a lost row left open was closed when
\* the store was reopened (_ensure_ready).
ReadyMeansReconciled ==
    LET abandoned == {c \in OpenAttempts : ~Live(c)}
    IN  open /\ reconciled /\ ~DiscardIsDue =>
            abandoned \subseteq Cancelled /\ Cardinality(abandoned) <= cancels

\* _reserved_bytes of every endpoint is what its unreleased leases add up to,
\* so it never goes below zero and no release is ever counted twice.
LeaseAccounting ==
    \A e \in Endpoints :
        reserved[e] = CALL_RESERVATION_BYTES * Cardinality({c \in leased : EndpointOf[c] = e})

\* A call that may still have to append keeps the space it reserved for it.
LeasesCoverOwedRows == \A c \in Calls : Owes(c) => c \in leased

\* Nobody else keeps a lease but calls that were cancelled in the append of
\* their attempt: each cancellation costs one reservation at most, and no other
\* end of a call does, however its appends fail.
OnlyCancelledAttemptsLeak ==
    LET leaked == {c \in leased : ~Owes(c)}
    IN  /\ leaked \subseteq {c \in Cancelled : status[c] = "attempt"}
        /\ Cardinality(leaked) <= cancels

\* "account for every concurrently admitted call": the checkpoint headroom and
\* all leases together fit the free space that admission was checked against.
AdmissionAccountsForAll ==
    leased # {} =>
        CHECKPOINT_HEADROOM_BYTES + CALL_RESERVATION_BYTES * Cardinality(leased)
            <= AvailableBytes

\* Every attempt row gets a row beside it: written by its call, or by
\* reconciliation after a failed append or a crash.
AttemptsConcluded == \A c \in Calls : Attempted(c) ~> Closed(c)

\* What a task and its thread wait for: the task for its handler or for the result
\* of its append, an append for the lock, and a thread for nothing.
CanResume(c) ==
    \/ pc[c] = "handler" /\ HandlerOutcomes # {}
    \/ holder = c /\ job[c] \in {"committed", "failed"}

CanRun(c) ==
    \/ job[c] \in Working
    \/ job[c] = "waiting" /\ holder = NoCall

\* Every admitted or denied call ends, whatever the storage does: no append
\* waits for ever for the repository's lock, and for nothing else.
CallsEnd ==
    /\ [](\A c \in Calls : /\ ENABLED Task(c) <=> CanResume(c)
                          /\ ENABLED Thread(c) <=> CanRun(c))
    /\ \A c \in Calls : Live(c) ~> pc[c] = "done"

-----------------------------------------------------------------------------
(* The inductive invariants the proofs rest on.                            *)

\* The rows that the connection sees.
Seen == ledger \cup tx.rows

\* Only a task in its append waits, collects a result or holds the lock; a
\* thread may outlive its task.
JobsFollowTasks ==
    \A c \in Calls :
        /\ job[c] \in {"waiting", "committed", "failed"} => pc[c] = "append"
        /\ job[c] \in Working => pc[c] \in {"append", "done"}
        /\ holder = c => pc[c] = "append" /\ job[c] \notin {"idle", "waiting"}
        /\ ~up => pc[c] \in {"new", "done"}

\* A probe holds the lock as long as its thread works; only a thread at work
\* has a connection to recover on.
ThreadsAtWork ==
    /\ job[HealthCheck] \in Working \cup {"idle"}
    /\ holder = HealthCheck <=> job[HealthCheck] # "idle"
    /\ \A t \in Threads :
          /\ ~up => job[t] = "idle"
          /\ t \in recovering => job[t] \in Working \ {"start"}
          /\ job[t] \in {"mark", "mark_closed"} => t \in recovering
    /\ ~tx.open => tx.rows = {}

\* What a task is doing fits the row it appended last.
TasksFollowStatus ==
    \A c \in Calls :
        /\ pc[c] = "new" => status[c] = "none"
        /\ pc[c] = "handler" => status[c] = "attempt" /\ c \in ran /\ job[c] = "idle"
        /\ pc[c] = "append" => status[c] # "none"
        /\ job[c] # "idle" => status[c] # "none"
        /\ answer[c] = "none" <=> pc[c] # "done"
        /\ status[c] \in Outcomes => c \in ran
        /\ c \in ran =>
              /\ status[c] \in Outcomes \cup {"attempt"}
              /\ status[c] = "attempt" => pc[c] \in {"handler", "done"} /\ job[c] = "idle"

\* The thread has not come to the INSERT of its own row.
Unwritten(c) ==
    \/ job[c] \in {"waiting", "start", "begin", "insert"}
    \/ job[c] \in {"commit", "mark"} /\ c \in recovering

\* Which rows a call can have, given the row it appended last.
RowsFollowStatus ==
    \A c \in Calls :
        /\ \A s \in Outcomes \cup {"denied"} : Row(c, s) \in Seen => status[c] = s
        /\ Row(c, "attempt") \in Seen => status[c] \in Outcomes \cup {"attempt"}
        /\ Row(c, "outcome_unknown") \in Seen => Row(c, "attempt") \in Seen
        /\ Row(c, "outcome_unknown") \in ledger => Attempted(c)
        /\ Unwritten(c) => Row(c, status[c]) \notin Seen

AuditInv ==
    /\ TypeOK
    /\ JobsFollowTasks
    /\ ThreadsAtWork
    /\ TasksFollowStatus
    /\ RowsFollowStatus
    /\ RefusalsAreTrue

\* Beside the holder of the lock one thread at most is at work, so nobody is left
\* to begin a transaction between one thread's ROLLBACK and its discard: a thread
\* that has begun a transaction is in it, or is going to lose its connection.
OneStray ==
    ~crowded =>
        /\ \A c, d \in Strays : c = d
        /\ \A t, u \in Threads :
              job[t] \in {"insert", "commit"} /\ job[u] \in {"insert", "commit"} => t = u
        /\ \A t \in Threads :
              /\ job[t] \in {"insert", "commit"} /\ ~tx.open =>
                    \E u \in Threads \ {t} : job[u] \in {"rollback", "discard", "mark_closed"}
              /\ job[t] = "insert" => tx.rows = {}
              /\ job[t] = "commit" /\ tx.open => tx.rows = Written(t, ledger)

\* What an append reports is in the ledger, and so is what was said on it.
ReportsAreTrue ==
    ~crowded =>
        /\ \A c \in Calls : job[c] = "committed" => Row(c, status[c]) \in ledger
        /\ AttemptBeforeHandler
        /\ AnswerMatchesLedger

TrailInv == AuditInv /\ OneStray /\ ReportsAreTrue

\* Where no discard is due, a thread in a transaction is alone in it.
OwnTransaction ==
    DiscardIsDue \/
        /\ \A t, u \in Threads :
              job[t] \in {"insert", "commit"} /\ job[u] \in {"insert", "commit"} => t = u
        /\ \A t \in Threads :
              /\ job[t] = "insert" => tx.open /\ tx.rows = {}
              /\ job[t] = "commit" => tx.open /\ tx.rows = Written(t, ledger)

\* Nobody works on a store that is closed, and it does not pass for reconciled once
\* no discard is due.
ClosedStore ==
    ~open =>
        /\ \A t \in Threads : job[t] \notin OnConnection
        /\ reconciled => DiscardIsDue

\* Open attempts that nobody is going to close: their calls are over, or will be
\* with no other row, and were not cancelled.
Orphans ==
    {c \in OpenAttempts \ Cancelled :
        \/ pc[c] = "done"
        \/ job[c] = "failed"
        \/ job[c] = "committed" /\ status[c] # "attempt"}

\* Where no discard is due, a store that is reconciled, or is about to say so, has
\* no orphans.
OrphansAreClosed ==
    reconciled \/ (\E t \in Threads : job[t] = "mark") => DiscardIsDue \/ Orphans = {}

CancelsCounted == Cardinality(Cancelled) <= cancels

\* Only a call that was cancelled ends while its thread is at work.
StraysWereCancelled ==
    \A c \in Calls : pc[c] = "done" /\ job[c] # "idle" => answer[c] = "cancelled"

LeaksWereCancelled ==
    \A c \in leased : Owes(c) \/ (status[c] = "attempt" /\ answer[c] = "cancelled")

CancelInv ==
    /\ StraysWereCancelled
    /\ OwnTransaction
    /\ ClosedStore
    /\ OrphansAreClosed
    /\ LeaksWereCancelled
    /\ CancelsCounted

\* A lease is taken at admission and covers its call to the last append.
LeasesFollowTasks ==
    /\ \A c \in Calls : pc[c] = "new" => c \notin leased
    /\ LeasesCoverOwedRows
    /\ LeaseAccounting

\* An endpoint that reserved anything left the headroom free.
AccountsFit ==
    \A e \in Endpoints : reserved[e] > 0 =>
        CHECKPOINT_HEADROOM_BYTES + reserved[e] <= AvailableBytes
=============================================================================
