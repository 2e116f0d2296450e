---------------------------- MODULE BackendPool -----------------------------
(***************************************************************************)
(* BackendClientPool for one target: calls that confirm the credentials,   *)
(* share a cached client and its upstream slots and record what became of  *)
(* the authentication, while admin routes edit or delete the target or     *)
(* replace the appliance trust and drain or cancel what runs on it.        *)
(*                                                                         *)
(* Grain: one action per stretch of the event loop between suspension      *)
(* points.  A repository call is a thread's step and a step that resumes   *)
(* from it.  The pool's lock is a queue of tickets, first come first       *)
(* served, whose head holds it.  A client is named by the call that built  *)
(* it.                                                                     *)
(***************************************************************************)
EXTENDS Integers, FiniteSets, Sequences

CONSTANTS
    Calls,               \* dispatched tool calls on the target
    Edits,               \* admin requests that change the target or its trust
    NoClient,            \* also: nobody holds the authentication lock
    MaxConcurrency,      \* UpstreamControl's slots
    AUTH_FAILURE_LIMIT,
    MaxEvents            \* bound: cancelled calls, revoked credentials and operator
                         \* unlocks, together

ASSUME PoolAssumption ==
    /\ IsFiniteSet(Calls)
    /\ NoClient \notin Calls
    /\ MaxConcurrency \in Nat \ {0}
    /\ AUTH_FAILURE_LIMIT \in Nat \ {0}
    /\ MaxEvents \in Nat

VARIABLES
    target,     \* the targets row: configuration_generation and verify_ssl
    trust,      \* version of the effective root CA bundle
    exists,     \* the row is there
    failures,   \* auth_failure_count
    locked,     \* auth_locked
    accepts,    \* the target accepts the stored credentials
    cached,     \* _clients[target]
    confirmed,  \* _confirmed_auth_generation[target], 0 when absent
    cutoff,     \* _cancelled_before[target], 0 when absent
    lock,       \* _lock: the queue of those who asked for it
    authLock,   \* _authentication_locks[target]
    client,     \* every client's life, and the target and trust it was built with
    pc,         \* where each call stands
    snap,       \* the generation each call is registered under in _calls
    using,      \* the TargetRecord each call works with
    on,         \* the client each call runs on
    stale,      \* the client each call replaced
    write,      \* record_auth_success or record_auth_failure in a thread
    doomed,     \* tasks with a CancelledError on its way
    result,     \* how each call ends
    step,       \* where each admin request stands
    change,     \* the TargetConfigurationChange and mode it commits
    waits,      \* the calls it gathers, then the clients it settles
    at,         \* the client it settles now
    events,     \* cancellations, revocations and unlocks so far
    reported,   \* history: highest generation an invalidation was reported for
    severed,    \* history: the same for invalidations in mode CANCEL
    retrusted   \* history: trust version that invalidate_all was reported for

rowVars == <<target, trust, exists, failures, locked>>
poolVars == <<cached, confirmed, cutoff>>
callVars == <<pc, snap, using, on, stale, write, doomed, result>>
editVars == <<step, change, waits, at>>
historyVars == <<reported, severed, retrusted>>
vars == <<rowVars, accepts, poolVars, lock, authLock, client, callVars, editVars,
          events, historyVars>>

\* Tickets in the pool's lock.
CallTicket(c) == <<"call", c>>
EditTicket(e) == <<"edit", e>>
RetirementTicket(k) == <<"client", k>>

Holds(ticket) == lock # <<>> /\ Head(lock) = ticket

\* A waiter that gives up, or a holder that is cancelled, leaves the queue.
LeaveQueue(ticket) ==
    \/ UNCHANGED lock /\ \A i \in 1..Len(lock) : lock[i] # ticket
    \/ \E i \in 1..Len(lock) :
          /\ lock[i] = ticket
          /\ lock' = SubSeq(lock, 1, i - 1) \o SubSeq(lock, i + 1, Len(lock))

\* Life of a client: a retirement drains it, closes its transport and takes
\* it out of _unsettled.
Unsettled == {k \in Calls : client[k].state \in {"draining", "closing", "shut"}}

InFlight(k) == {c \in Calls : pc[c] = "sending" /\ on[c] = k}

\* Between entering and leaving invoke a call's task is in _calls.
Registered ==
    {c \in Calls : pc[c] \in {"auth", "fresh", "checked", "pool", "build", "built", "settle",
                              "slot", "sending", "recording"}}

Init ==
    /\ target = [gen |-> 1, verifies |-> FALSE]
    /\ trust = 1
    /\ exists = TRUE
    /\ failures = 0
    /\ locked = FALSE
    /\ accepts \in BOOLEAN
    /\ cached = NoClient
    /\ confirmed = 0
    /\ cutoff = 0
    /\ lock = <<>>
    /\ authLock = NoClient
    /\ client = [k \in Calls |-> [state |-> "none", target |-> target, trust |-> 0]]
    /\ pc = [c \in Calls |-> "idle"]
    /\ snap = [c \in Calls |-> 0]
    /\ using = [c \in Calls |-> target]
    /\ on = [c \in Calls |-> NoClient]
    /\ stale = [c \in Calls |-> NoClient]
    /\ write = [c \in Calls |-> "none"]
    /\ doomed = {}
    /\ result = [c \in Calls |-> "none"]
    /\ step = [e \in Edits |-> "idle"]
    /\ change = [e \in Edits |-> [mode |-> "drain", gen |-> 0, trust |-> 0]]
    /\ waits = [e \in Edits |-> {}]
    /\ at = [e \in Edits |-> NoClient]
    /\ events = 0
    /\ reported = 0
    /\ severed = 0
    /\ retrusted = 0

-----------------------------------------------------------------------------
(* invoke: one credential generation is confirmed before reads run         *)
(* concurrently.                                                           *)

\* dispatch looks the target up; the audit append comes before the handler.
Snapshot(c) ==
    /\ pc[c] = "idle"
    /\ exists
    /\ pc' = [pc EXCEPT ![c] = "ready"]
    /\ snap' = [snap EXCEPT ![c] = target.gen]
    /\ using' = [using EXCEPT ![c] = target]
    /\ UNCHANGED <<rowVars, accepts, poolVars, lock, authLock, client, on, stale, write,
                   doomed, result, editVars, events, historyVars>>

\* The call ends, with its exception or result, and frees the authentication
\* lock on its way out.
Leave(c, r) ==
    /\ pc' = [pc EXCEPT ![c] = "done"]
    /\ result' = [result EXCEPT ![c] = r]
    /\ authLock' = IF authLock = c THEN NoClient ELSE authLock

Invoke(c) ==
    /\ pc[c] = "ready"
    /\ c \notin doomed
    /\ \/ /\ snap[c] < cutoff
          /\ Leave(c, "superseded")
          /\ UNCHANGED lock
       \/ /\ snap[c] >= cutoff
          /\ confirmed = snap[c]
          /\ pc' = [pc EXCEPT ![c] = "pool"]
          /\ lock' = Append(lock, CallTicket(c))
          /\ UNCHANGED <<authLock, result>>
       \/ /\ snap[c] >= cutoff
          /\ confirmed # snap[c]
          /\ pc' = [pc EXCEPT ![c] = "auth"]
          /\ UNCHANGED <<authLock, lock, result>>
    /\ UNCHANGED <<rowVars, accepts, poolVars, client, snap, using, on, stale, write, doomed,
                   editVars, events, historyVars>>

\* Mutant: no lock around the first use of the credentials.
TakeAuthLockFreely(c) ==
    /\ pc[c] = "auth"
    /\ c \notin doomed
    /\ authLock' = c
    /\ pc' = [pc EXCEPT ![c] = "fresh"]
    /\ UNCHANGED <<rowVars, accepts, poolVars, lock, client, snap, using, on, stale, write,
                   doomed, result, editVars, events, historyVars>>

TakeAuthLock(c) ==
    /\ pc[c] = "auth"
    /\ c \notin doomed
    /\ authLock = NoClient
    /\ authLock' = c
    /\ pc' = [pc EXCEPT ![c] = "fresh"]
    /\ UNCHANGED <<rowVars, accepts, poolVars, lock, client, snap, using, on, stale, write,
                   doomed, result, editVars, events, historyVars>>

\* repository.get under the authentication lock: a missing or locked target
\* is refused.
ReadFresh(c) ==
    /\ pc[c] = "fresh"
    /\ c \notin doomed
    /\ \/ /\ exists /\ ~locked
          /\ using' = [using EXCEPT ![c] = target]
          /\ pc' = [pc EXCEPT ![c] = "checked"]
          /\ UNCHANGED <<authLock, result>>
       \/ /\ ~exists \/ locked
          /\ Leave(c, "refused")
          /\ UNCHANGED using
    /\ UNCHANGED <<rowVars, accepts, poolVars, lock, client, snap, on, stale, write, doomed,
                   editVars, events, historyVars>>

Checked(c) ==
    /\ pc[c] = "checked"
    /\ c \notin doomed
    /\ pc' = [pc EXCEPT ![c] = "pool"]
    /\ lock' = Append(lock, CallTicket(c))
    /\ UNCHANGED <<rowVars, accepts, poolVars, authLock, client, snap, using, on, stale, write,
                   doomed, result, editVars, events, historyVars>>

-----------------------------------------------------------------------------
(* get and _settle_stale: the client of the call's generation.             *)

\* The request passes its closed check and takes a slot, or queues for one.
StartRequest(c, k) ==
    /\ on' = [on EXCEPT ![c] = k]
    /\ pc' = [pc EXCEPT ![c] =
                IF /\ Cardinality({d \in Calls : pc[d] = "sending"}) < MaxConcurrency
                   /\ \A d \in Calls : pc[d] # "slot"
                THEN "sending" ELSE "slot"]

CacheHit(c) ==
    /\ cached # NoClient
    /\ client[cached].target.gen = using[c].gen
    /\ client[cached].state = "open"

GetCached(c) ==
    /\ pc[c] = "pool"
    /\ c \notin doomed
    /\ Holds(CallTicket(c))
    /\ CacheHit(c)
    /\ lock' = Tail(lock)
    /\ StartRequest(c, cached)
    /\ UNCHANGED <<rowVars, accepts, poolVars, authLock, client, snap, using, stale, write,
                   doomed, result, editVars, events, historyVars>>

\* _retire: mark_closed, and a task that finishes the retirement.
Retire(k) ==
    client' = IF k = NoClient THEN client ELSE [client EXCEPT ![k].state = "draining"]

\* Mutant: the client that is replaced is dropped, not retired.
ReplaceClientUnretired(c) ==
    /\ pc[c] = "pool"
    /\ c \notin doomed
    /\ Holds(CallTicket(c))
    /\ ~CacheHit(c)
    /\ stale' = stale
    /\ cached' = NoClient
    /\ pc' = [pc EXCEPT ![c] = "build"]
    /\ UNCHANGED <<rowVars, accepts, confirmed, cutoff, lock, authLock, client, snap, using, on,
                   write, doomed, result, editVars, events, historyVars>>

\* The cached client is of another generation: it is retired first.
ReplaceClient(c) ==
    /\ pc[c] = "pool"
    /\ c \notin doomed
    /\ Holds(CallTicket(c))
    /\ ~CacheHit(c)
    /\ Retire(cached)
    /\ stale' = [stale EXCEPT ![c] = cached]
    /\ cached' = NoClient
    /\ pc' = [pc EXCEPT ![c] = "build"]
    /\ UNCHANGED <<rowVars, accepts, confirmed, cutoff, lock, authLock, snap, using, on, write,
                   doomed, result, editVars, events, historyVars>>

\* get_credentials refuses a deleted or locked target.
BuildFails(c) ==
    /\ pc[c] = "build"
    /\ c \notin doomed
    /\ ~exists \/ locked
    /\ lock' = Tail(lock)
    /\ Leave(c, "error")
    /\ UNCHANGED <<rowVars, accepts, poolVars, client, snap, using, on, stale, write, doomed,
                   editVars, events, historyVars>>

\* get_credentials and get_effective_trust: what the client will be built with.
ReadMaterial(c) ==
    /\ pc[c] = "build"
    /\ c \notin doomed
    /\ exists /\ ~locked
    /\ client' = [client EXCEPT ![c] = [@ EXCEPT !.target = using[c], !.trust = trust]]
    /\ pc' = [pc EXCEPT ![c] = "built"]
    /\ UNCHANGED <<rowVars, accepts, poolVars, lock, authLock, snap, using, on, stale, write,
                   doomed, result, editVars, events, historyVars>>

\* What runs on the client that was replaced may finish only if the new one
\* neither starts to verify TLS nor trusts another bundle.
Tightened(k, c) ==
    \/ ~client[k].target.verifies /\ using[c].verifies
    \/ client[k].trust # client[c].trust

\* The new client has the address and verify_ssl of the call's record, and
\* credentials and bundle as the repository held them.
Build(c) ==
    /\ pc[c] = "built"
    /\ c \notin doomed
    /\ client' = [client EXCEPT ![c].state = "open"]
    /\ cached' = c
    /\ lock' = Tail(lock)
    /\ \/ /\ stale[c] = NoClient
          /\ StartRequest(c, c)
          /\ UNCHANGED doomed
       \/ /\ stale[c] # NoClient
          /\ on' = [on EXCEPT ![c] = c]
          /\ pc' = [pc EXCEPT ![c] = "settle"]
          /\ doomed' = IF Tightened(stale[c], c) THEN doomed \cup InFlight(stale[c]) ELSE doomed
    /\ UNCHANGED <<rowVars, accepts, confirmed, cutoff, authLock, snap, using, stale, write,
                   result, editVars, events, historyVars>>

\* The replaced client has settled; the new one may be closed by now.
StaleSettled(c) ==
    /\ pc[c] = "settle"
    /\ c \notin doomed
    /\ client[stale[c]].state = "settled"
    /\ \/ /\ client[c].state = "open"
          /\ StartRequest(c, c)
          /\ UNCHANGED <<authLock, result>>
       \/ /\ client[c].state # "open"
          /\ Leave(c, "superseded")
          /\ UNCHANGED on
    /\ UNCHANGED <<rowVars, accepts, poolVars, lock, client, snap, using, stale, write, doomed,
                   editVars, events, historyVars>>

-----------------------------------------------------------------------------
(* The request, and what is recorded of its authentication.                *)

\* A slot is free: the request enters the client without another look at it.
TakeSlot(c) ==
    /\ pc[c] = "slot"
    /\ c \notin doomed
    /\ Cardinality({d \in Calls : pc[d] = "sending"}) < MaxConcurrency
    /\ pc' = [pc EXCEPT ![c] = "sending"]
    /\ UNCHANGED <<rowVars, accepts, poolVars, lock, authLock, client, snap, using, on, stale,
                   write, doomed, result, editVars, events, historyVars>>

\* The client's transport is not closed.
Connected(k) == client[k].state \in {"open", "draining", "closing"}

\* A decoded answer is refused when the client was closed meanwhile.
Answered(c) ==
    /\ pc[c] = "sending"
    /\ c \notin doomed
    /\ accepts
    /\ Connected(on[c])
    /\ \/ /\ client[on[c]].state = "open"
          /\ pc' = [pc EXCEPT ![c] = "recording"]
          /\ write' = [write EXCEPT ![c] = "success"]
          /\ result' = [result EXCEPT ![c] = "ok"]
          /\ UNCHANGED authLock
       \/ /\ client[on[c]].state # "open"
          /\ Leave(c, "superseded")
          /\ UNCHANGED write
    /\ UNCHANGED <<rowVars, accepts, poolVars, lock, client, snap, using, on, stale, doomed,
                   editVars, events, historyVars>>

\* AuthenticationError or ReauthenticationExhausted: nothing is confirmed any
\* more, and the failure is counted.
AuthFails(c) ==
    /\ pc[c] = "sending"
    /\ c \notin doomed
    /\ ~accepts
    /\ Connected(on[c])
    /\ confirmed' = 0
    /\ pc' = [pc EXCEPT ![c] = "recording"]
    /\ write' = [write EXCEPT ![c] = "failure"]
    /\ result' = [result EXCEPT ![c] = "auth"]
    /\ UNCHANGED <<rowVars, accepts, cached, cutoff, lock, authLock, client, snap, using, on,
                   stale, doomed, editVars, events, historyVars>>

\* Any other error: status, transport, cap, a transport that was closed.
RequestFails(c) ==
    /\ pc[c] = "sending"
    /\ c \notin doomed
    /\ Leave(c, "error")
    /\ UNCHANGED <<rowVars, accepts, poolVars, lock, client, snap, using, on, stale, write,
                   doomed, editVars, events, historyVars>>

\* record_auth_success and record_auth_failure, in a thread that a cancelled
\* call does not stop.
Write(c) ==
    /\ \/ /\ write[c] = "success"
          /\ failures' = IF exists /\ ~locked THEN 0 ELSE failures
          /\ UNCHANGED locked
       \/ /\ write[c] = "failure"
          /\ failures' = IF exists THEN failures + 1 ELSE failures
          /\ locked' = (locked \/ (exists /\ failures + 1 >= AUTH_FAILURE_LIMIT))
    /\ write' = [write EXCEPT ![c] = IF pc[c] = "recording" THEN "written" ELSE "none"]
    /\ UNCHANGED <<target, trust, exists, accepts, poolVars, lock, authLock, client, pc, snap,
                   using, on, stale, doomed, result, editVars, events, historyVars>>

Recorded(c) ==
    /\ pc[c] = "recording"
    /\ c \notin doomed
    /\ write[c] = "written"
    /\ write' = [write EXCEPT ![c] = "none"]
    /\ confirmed' = IF result[c] = "ok" THEN using[c].gen ELSE confirmed
    /\ Leave(c, result[c])
    /\ UNCHANGED <<rowVars, accepts, cached, cutoff, lock, client, snap, using, on, stale,
                   doomed, editVars, events, historyVars>>

-----------------------------------------------------------------------------
(* Cancellation of calls.                                                  *)

\* Mutant: a task that is done is cancelled as well.
CancelFinished(c) ==
    /\ events < MaxEvents
    /\ pc[c] \notin {"idle", "ready"}
    /\ events' = events + 1
    /\ doomed' = doomed \cup {c}
    /\ UNCHANGED <<rowVars, accepts, poolVars, lock, authLock, client, pc, snap, using, on,
                   stale, write, result, editVars, historyVars>>

\* The dispatch deadline, or a caller that went away.
Cancel(c) ==
    /\ events < MaxEvents
    /\ c \in Registered \ doomed
    /\ events' = events + 1
    /\ doomed' = doomed \cup {c}
    /\ UNCHANGED <<rowVars, accepts, poolVars, lock, authLock, client, pc, snap, using, on,
                   stale, write, result, editVars, historyVars>>

\* Mutant: a cancelled call keeps its place in the pool's lock.
UnwindQueued(c) ==
    /\ c \in doomed
    /\ Leave(c, "cancelled")
    /\ doomed' = doomed \ {c}
    /\ UNCHANGED <<rowVars, accepts, poolVars, lock, client, snap, using, on, stale, write,
                   editVars, events, historyVars>>

\* CancelledError unwinds the call: it leaves the locks, the slot and the
\* registry.  A write may still be in its thread, or be dropped before it.
Unwind(c) ==
    /\ c \in doomed
    /\ Leave(c, "cancelled")
    /\ doomed' = doomed \ {c}
    /\ LeaveQueue(CallTicket(c))
    /\ \/ write[c] # "written" /\ UNCHANGED write
       \/ write' = [write EXCEPT ![c] = "none"]
    /\ UNCHANGED <<rowVars, accepts, poolVars, client, snap, using, on, stale, editVars,
                   events, historyVars>>

-----------------------------------------------------------------------------
(* Admin routes: commit the change, then invalidate before reporting it.   *)

Committed(e, mode, gen, bundle) ==
    /\ step[e] = "idle"
    /\ step' = [step EXCEPT ![e] = "committed"]
    /\ change' = [change EXCEPT ![e] = [mode |-> mode, gen |-> gen, trust |-> bundle]]
    /\ UNCHANGED <<poolVars, failures, locked, lock, authLock, client, callVars, waits, at,
                   events, historyVars>>

\* post_target_update: CANCEL when the edit turns TLS verification on or
\* touches the target's CA, DRAIN otherwise.  A locked target is refused by an
\* earlier transaction, so the lock may be there when the edit commits; and
\* what the verifier found of the credentials need not last.
UpdateTarget(e) ==
    /\ exists
    /\ \E verifies, caReplaced \in BOOLEAN :
          /\ target' = [gen |-> target.gen + 1, verifies |-> verifies]
          /\ trust' = IF caReplaced THEN trust + 1 ELSE trust
          /\ Committed(e,
                       IF caReplaced \/ (~target.verifies /\ verifies) THEN "cancel" ELSE "drain",
                       target.gen + 1, 0)
    /\ accepts' \in BOOLEAN
    /\ UNCHANGED exists

\* post_target_delete
DeleteTarget(e) ==
    /\ exists
    /\ exists' = FALSE
    /\ Committed(e, "cancel", target.gen + 1, 0)
    /\ UNCHANGED <<target, trust, accepts>>

\* post_global_root_ca_set and post_global_root_ca_remove
ReplaceApplianceCA(e) ==
    /\ trust' = trust + 1
    /\ Committed(e, "all", 0, trust + 1)
    /\ UNCHANGED <<target, exists, accepts>>

\* post_auth_unlock
Unlock ==
    /\ events < MaxEvents
    /\ exists
    /\ failures # 0 \/ locked
    /\ failures' = 0
    /\ locked' = FALSE
    /\ events' = events + 1
    /\ UNCHANGED <<target, trust, exists, accepts, poolVars, lock, authLock, client, callVars,
                   editVars, historyVars>>

\* The calls this request cancels: those registered under an older
\* generation, or, for the appliance's trust, all of them.
Victims(e) ==
    CASE change[e].mode = "drain" -> {}
      [] change[e].mode = "cancel" -> {c \in Registered : snap[c] < change[e].gen}
      [] OTHER -> Registered

\* Mutant: CANCEL leaves no cutoff behind for late calls.
InvalidateWithoutCutoff(e) ==
    /\ step[e] = "committed"
    /\ confirmed' = IF change[e].mode = "all" THEN confirmed ELSE 0
    /\ doomed' = doomed \cup Victims(e)
    /\ waits' = [waits EXCEPT ![e] = Victims(e)]
    /\ step' = [step EXCEPT ![e] = "gather"]
    /\ UNCHANGED <<rowVars, accepts, cached, cutoff, lock, authLock, client, pc, snap, using, on,
                   stale, write, result, change, at, events, historyVars>>

\* invalidate and invalidate_all, up to the first wait.
Invalidate(e) ==
    /\ step[e] = "committed"
    /\ confirmed' = IF change[e].mode = "all" THEN confirmed ELSE 0
    /\ cutoff' = IF change[e].mode = "cancel" /\ change[e].gen > cutoff
                 THEN change[e].gen ELSE cutoff
    /\ doomed' = doomed \cup Victims(e)
    /\ waits' = [waits EXCEPT ![e] = Victims(e)]
    /\ \/ /\ Victims(e) = {}
          /\ step' = [step EXCEPT ![e] = "queued"]
          /\ lock' = Append(lock, EditTicket(e))
       \/ /\ Victims(e) # {}
          /\ step' = [step EXCEPT ![e] = "gather"]
          /\ UNCHANGED lock
    /\ UNCHANGED <<rowVars, accepts, cached, authLock, client, pc, snap, using, on, stale,
                   write, result, change, at, events, historyVars>>

\* _cancel_calls has gathered every task it cancelled.
Gathered(e) ==
    /\ step[e] = "gather"
    /\ \A c \in waits[e] : pc[c] = "done"
    /\ step' = [step EXCEPT ![e] = "queued"]
    /\ lock' = Append(lock, EditTicket(e))
    /\ UNCHANGED <<rowVars, accepts, poolVars, authLock, client, callVars, change, waits, at,
                   events, historyVars>>

\* Mutant: only generations are compared, whatever was changed.
OlderByGeneration(k, e) == client[k].target.gen < change[e].gen

Older(k, e) == change[e].mode = "all" \/ client[k].target.gen < change[e].gen

Larger(m, n) == IF m > n THEN m ELSE n

\* The next client to settle, or the end of the barrier: the route reports
\* success.
SettleRest(e, rest) ==
    /\ waits' = [waits EXCEPT ![e] = rest]
    /\ \/ /\ rest = {}
          /\ step' = [step EXCEPT ![e] = "done"]
          /\ at' = [at EXCEPT ![e] = NoClient]
          /\ reported' = Larger(reported, change[e].gen)
          /\ severed' = IF change[e].mode = "cancel" THEN Larger(severed, change[e].gen)
                        ELSE severed
          /\ retrusted' = Larger(retrusted, change[e].trust)
          /\ UNCHANGED doomed
       \/ \E k \in rest :
          /\ step' = [step EXCEPT ![e] = "settle"]
          /\ at' = [at EXCEPT ![e] = k]
          /\ doomed' = IF change[e].mode = "drain" THEN doomed ELSE doomed \cup InFlight(k)
          /\ UNCHANGED <<reported, severed, retrusted>>

RetireOlder(e) ==
    LET Retired == IF cached # NoClient /\ Older(cached, e) THEN cached ELSE NoClient
    IN  /\ step[e] = "queued"
        /\ Holds(EditTicket(e))
        /\ lock' = Tail(lock)
        /\ Retire(Retired)
        /\ cached' = IF Retired = NoClient THEN cached ELSE NoClient
        /\ confirmed' = IF change[e].mode = "all" THEN 0 ELSE confirmed
        /\ SettleRest(e, {k \in Unsettled \cup ({Retired} \ {NoClient}) : Older(k, e)})
        /\ UNCHANGED <<rowVars, accepts, cutoff, authLock, pc, snap, using, on, stale, write,
                       result, change, events>>

SettledOne(e) ==
    /\ step[e] = "settle"
    /\ client[at[e]].state = "settled"
    /\ SettleRest(e, waits[e] \ {at[e]})
    /\ UNCHANGED <<rowVars, accepts, poolVars, lock, authLock, client, pc, snap, using, on,
                   stale, write, result, change, events>>

-----------------------------------------------------------------------------
(* _finish_retirement: drain, aclose, and out of _unsettled.               *)

Becomes(k, before, after) ==
    /\ client[k].state = before
    /\ client' = [client EXCEPT ![k].state = after]
    /\ UNCHANGED <<rowVars, accepts, poolVars, authLock, callVars, editVars, events,
                   historyVars>>

Drained(k) ==
    /\ InFlight(k) = {}
    /\ Becomes(k, "draining", "closing")
    /\ UNCHANGED lock

Shut(k) ==
    /\ Becomes(k, "closing", "shut")
    /\ lock' = Append(lock, RetirementTicket(k))

Settle(k) ==
    /\ Holds(RetirementTicket(k))
    /\ Becomes(k, "shut", "settled")
    /\ lock' = Tail(lock)

\* External: the target stops accepting the credentials.
Revoked ==
    /\ accepts
    /\ events < MaxEvents
    /\ accepts' = FALSE
    /\ events' = events + 1
    /\ UNCHANGED <<rowVars, poolVars, lock, authLock, client, callVars, editVars, historyVars>>

-----------------------------------------------------------------------------
CallStep(c) ==
    \/ TakeAuthLock(c)
    \/ ReadFresh(c)
    \/ Checked(c)
    \/ GetCached(c)
    \/ ReplaceClient(c)
    \/ BuildFails(c)
    \/ ReadMaterial(c)
    \/ Build(c)
    \/ StaleSettled(c)
    \/ TakeSlot(c)
    \/ Answered(c)
    \/ AuthFails(c)
    \/ RequestFails(c)
    \/ Recorded(c)
    \/ Unwind(c)

EditStep(e) == Invalidate(e) \/ Gathered(e) \/ RetireOlder(e) \/ SettledOne(e)

Retirement(k) == Drained(k) \/ Shut(k) \/ Settle(k)

Next ==
    \/ \E c \in Calls :
          Snapshot(c) \/ Invoke(c) \/ CallStep(c) \/ Write(c) \/ Cancel(c) \/ Retirement(c)
    \/ \E e \in Edits :
          UpdateTarget(e) \/ DeleteTarget(e) \/ ReplaceApplianceCA(e) \/ EditStep(e)
    \/ Unlock
    \/ Revoked

\* What needs nobody's decision: a task that can resume, a thread, a
\* retirement, the request of an admin that goes on.
Onward ==
    \/ \E c \in Calls : CallStep(c) \/ Write(c) \/ Retirement(c)
    \/ \E e \in Edits : EditStep(e)

Spec == Init /\ [][Next]_vars

-----------------------------------------------------------------------------
(* Properties.                                                             *)

TypeOK ==
    /\ target \in [gen : Nat \ {0}, verifies : BOOLEAN]
    /\ trust \in Nat
    /\ exists \in BOOLEAN /\ locked \in BOOLEAN /\ accepts \in BOOLEAN
    /\ failures \in Nat
    /\ cached \in Calls \cup {NoClient}
    /\ confirmed \in Nat /\ cutoff \in Nat
    /\ lock \in Seq({"call", "client"} \X Calls \cup {"edit"} \X Edits)
    /\ authLock \in Calls \cup {NoClient}
    /\ \A k \in Calls :
          /\ client[k].state \in {"none", "open", "draining", "closing", "shut", "settled"}
          /\ client[k].target \in [gen : Nat \ {0}, verifies : BOOLEAN]
          /\ client[k].trust \in Nat
    /\ pc \in [Calls -> {"idle", "ready", "auth", "fresh", "checked", "pool", "build", "built",
                         "settle", "slot", "sending", "recording", "done"}]
    /\ on \in [Calls -> Calls \cup {NoClient}]
    /\ stale \in [Calls -> Calls \cup {NoClient}]
    /\ write \in [Calls -> {"none", "success", "failure", "written"}]
    /\ doomed \subseteq Registered
    /\ result \in [Calls -> {"none", "ok", "auth", "error", "refused", "superseded", "cancelled"}]
    /\ step \in [Edits -> {"idle", "committed", "gather", "queued", "settle", "done"}]

\* A reported CANCEL invalidation is final: no call of an older generation is
\* left in the pool, whatever it was waiting for, no later one gets in, and no
\* older client has anything open (decision 027).
CancelIsFinal ==
    /\ \A c \in Registered : snap[c] >= severed
    /\ \A k \in Calls :
          client[k].state \notin {"none", "settled"} => client[k].target.gen >= severed

\* After the appliance's trust was replaced and every pool invalidated, no
\* request travels on a connection that trusts an earlier bundle.
TrustIsCurrent ==
    \A c \in Calls : pc[c] = "sending" /\ Connected(on[c]) => client[on[c]].trust >= retrusted

\* The pool never loses an open client: only the cached one is open, so every
\* other one is being drained and closed.
OnlyTheCachedClientIsOpen ==
    \A k \in Calls : client[k].state = "open" <=> cached = k

\* Unconfirmed credentials are tried one call at a time: however many calls
\* are made, a wrong password fails at most AUTH_FAILURE_LIMIT times before
\* the target is locked, and once more for each call that was cancelled while
\* it recorded its failure, which frees the authentication lock too early.
WrongPasswordIsBounded ==
    (\A c \in Calls : result[c] # "ok") =>
        failures <= AUTH_FAILURE_LIMIT + Cardinality({c \in Calls : result[c] = "cancelled"})

\* What each task waits for, and whether it is there: a call that is not
\* cancelled, a thread, a client's retirement, an admin request.
CanResume(c) ==
    \/ c \in doomed
    \/ pc[c] \in {"fresh", "checked", "build", "built", "sending"}
    \/ pc[c] = "auth" /\ authLock = NoClient
    \/ pc[c] = "pool" /\ Holds(CallTicket(c))
    \/ pc[c] = "settle" /\ client[stale[c]].state = "settled"
    \/ pc[c] = "slot" /\ Cardinality({d \in Calls : pc[d] = "sending"}) < MaxConcurrency
    \/ pc[c] = "recording" /\ write[c] = "written"

CanWrite(c) == write[c] \in {"success", "failure"}

CanRetire(k) ==
    \/ client[k].state = "draining" /\ InFlight(k) = {}
    \/ client[k].state = "closing"
    \/ client[k].state = "shut" /\ Holds(RetirementTicket(k))

CanServe(e) ==
    \/ step[e] = "committed"
    \/ step[e] = "gather" /\ \A c \in waits[e] : pc[c] = "done"
    \/ step[e] = "queued" /\ Holds(EditTicket(e))
    \/ step[e] = "settle" /\ client[at[e]].state = "settled"

CanGoOn ==
    \/ \E c \in Calls : CanResume(c) \/ CanWrite(c) \/ CanRetire(c)
    \/ \E e \in Edits : CanServe(e)

\* Every call that entered has ended, every retirement too, and every change
\* that was committed is reported.
AtRest ==
    /\ Registered = {} /\ Unsettled = {} /\ lock = <<>>
    /\ \A e \in Edits : step[e] \in {"idle", "done"}

GoesOnOrRests == CanGoOn \/ AtRest

\* Nothing waits for ever: the authentication lock, the pool's lock, the
\* slots, a client that settles and a barrier that gathers never wait on each
\* other, and what somebody waits for is all that keeps him.  No step can be
\* repeated, so whatever can go on ends every call and reports every change.
NothingIsStuck ==
    /\ ENABLED Onward <=> CanGoOn
    /\ GoesOnOrRests
=============================================================================
