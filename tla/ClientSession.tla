---------------------------- MODULE ClientSession ----------------------------
(***************************************************************************)
(* One backend client and the calls that read through it: the slots of     *)
(* UpstreamControl, the session they share, the 401 that makes one of them *)
(* sign in again, the 429 they sleep on, and the retirement that closes    *)
(* the client under them.  VcfTargetClient, VcenterTargetClient and        *)
(* DeclaredBackendClient are the same machine but for the guards on kind.  *)
(*                                                                         *)
(* Grain: one action per stretch of the event loop between suspension      *)
(* points.  The authentication lock is held only while its holder signs    *)
(* in; to wait for it and to get it are two steps.                         *)
(***************************************************************************)
EXTENDS Naturals, FiniteSets

CONSTANTS
    Calls,              \* requests through the client
    NoCall,
    Kinds,              \* kinds of client, a subset of AllKinds
    MaxConcurrency,     \* UpstreamControl's slots
    Max429Retries,      \* _max_429_retries
    MaxReauth,          \* MAX_REAUTHENTICATIONS_PER_REQUEST
    MaxEvents           \* bound: revocations, password changes, expiries, cancelled
                        \* calls and the retirement, together

\* VcfTargetClient, VcenterTargetClient, and the authentication schemes of
\* DeclaredBackendClient.
AllKinds == {"ops", "vcenter", "ops_token", "sddc_token", "ops_exchange", "vcenter_session",
             "static"}

ASSUME SessionAssumption ==
    /\ IsFiniteSet(Calls)
    /\ NoCall \notin Calls
    /\ Kinds \subseteq AllKinds
    /\ MaxConcurrency \in Nat \ {0}
    /\ Max429Retries \in Nat
    /\ MaxReauth \in Nat
    /\ MaxEvents \in Nat

VARIABLES
    kind,       \* the client's class or authentication scheme
    accepts,    \* the appliance accepts the credentials
    valid,      \* sessions the appliance accepts
    held,       \* _token, _session_id or _auth_value: 0 when there is none
    issued,     \* _auth_generation or _session_generation: a session is its generation
    aged,       \* sessions past their refresh margin
    lock,       \* holder of _auth_lock
    free,       \* value of the semaphore
    pc,         \* where each request stands
    seen,       \* the session each request was sent with
    count,      \* its reauthentications, rate_limit_attempts and, as tries, the
                \* attempts of a sign-in in progress
    doomed,     \* tasks with a CancelledError on its way
    result,     \* how each request ended
    phase,      \* of the client: open, closed, draining, releasing, shut
    waits,      \* the tasks a drain gathers
    met,        \* history: the sessions each request saw refused
    early,      \* history: requests in flight when the client was closed
    events      \* counted against MaxEvents

appliance == <<accepts, valid>>
session == <<held, issued, aged, lock>>
closing == <<phase, waits, early>>
vars == <<kind, appliance, session, free, pc, seen, count, doomed, result, closing, met, events>>

Static == kind = "static"

\* Clients whose reads and results a closed flag refuses.
Closed == phase # "open"

\* Between acquiring and releasing a slot.
Entered == {"sending", "served", "backoff", "wantSession", "wantNew", "release", "login",
            "loginWait", "exchange", "exchangeWait"}
InFlight == {c \in Calls : pc[c] \in Entered}

\* Only VcfTargetClient looks at the expiry of its token.
Usable == held # 0 /\ held \notin aged

NoCount == [reauths |-> 0, retries |-> 0, tries |-> 0]

Init ==
    /\ kind \in Kinds
    /\ accepts \in BOOLEAN
    /\ valid = {}
    /\ held = 0
    /\ issued = 0
    /\ aged = {}
    /\ lock = NoCall
    /\ free = MaxConcurrency
    /\ pc = [c \in Calls |-> "idle"]
    /\ seen = [c \in Calls |-> 0]
    /\ count = [c \in Calls |-> NoCount]
    /\ doomed = {}
    /\ result = [c \in Calls |-> "none"]
    /\ phase = "open"
    /\ waits = {}
    /\ met = [c \in Calls |-> {}]
    /\ early = {}
    /\ events = 0

-----------------------------------------------------------------------------
(* A request leaves, with its result or an exception: finally frees the    *)
(* slot, and async with the lock.                                          *)

\* Mutant: a request cancelled in the queue for a slot frees one.
EndFreesUnheldSlot(c, r) ==
    /\ pc' = [pc EXCEPT ![c] = "done"]
    /\ result' = [result EXCEPT ![c] = r]
    /\ count' = [count EXCEPT ![c] = NoCount]
    /\ free' = IF pc[c] \in Entered \cup {"slot"} THEN free + 1 ELSE free
    /\ lock' = IF lock = c THEN NoCall ELSE lock
    /\ doomed' = doomed \ {c}

\* Mutant: a sign-in that ends badly keeps the lock.
EndWithLock(c, r) ==
    /\ pc' = [pc EXCEPT ![c] = "done"]
    /\ result' = [result EXCEPT ![c] = r]
    /\ count' = [count EXCEPT ![c] = NoCount]
    /\ free' = IF pc[c] \in Entered THEN free + 1 ELSE free
    /\ UNCHANGED lock
    /\ doomed' = doomed \ {c}

\* Mutant: a request that ends while it signs in keeps its slot.
EndWithSlot(c, r) ==
    /\ pc' = [pc EXCEPT ![c] = "done"]
    /\ result' = [result EXCEPT ![c] = r]
    /\ count' = [count EXCEPT ![c] = NoCount]
    /\ free' = IF pc[c] \in Entered /\ lock # c THEN free + 1 ELSE free
    /\ lock' = IF lock = c THEN NoCall ELSE lock
    /\ doomed' = doomed \ {c}

End(c, r) ==
    /\ pc' = [pc EXCEPT ![c] = "done"]
    /\ result' = [result EXCEPT ![c] = r]
    /\ count' = [count EXCEPT ![c] = NoCount]
    /\ free' = IF pc[c] \in Entered THEN free + 1 ELSE free
    /\ lock' = IF lock = c THEN NoCall ELSE lock
    /\ doomed' = doomed \ {c}

\* What a step leaves alone when it ends a request or moves it.
Moves(c, p) ==
    /\ pc' = [pc EXCEPT ![c] = p]
    /\ UNCHANGED <<free, doomed, result>>

-----------------------------------------------------------------------------
(* Entering, and the session a request is sent with.                       *)

Start(c) ==
    /\ pc[c] = "idle"
    /\ \/ /\ Closed
          /\ End(c, "superseded")
       \/ /\ ~Closed
          /\ Moves(c, "slot")
          /\ UNCHANGED <<lock, count>>
    /\ UNCHANGED <<kind, appliance, held, issued, aged, seen, closing, met, events>>

\* _session_token, _session, _authorization: without a usable session the
\* request asks for the lock.
Authorize(c) ==
    /\ pc' = [pc EXCEPT ![c] = IF Static \/ Usable THEN "sending" ELSE "wantSession"]
    /\ seen' = [seen EXCEPT ![c] = IF Static \/ ~Usable THEN @ ELSE held]

\* The closed flag is not looked at again after the wait for a slot.
TakeSlot(c) ==
    /\ pc[c] = "slot"
    /\ c \notin doomed
    /\ free > 0
    /\ free' = free - 1
    /\ Authorize(c)
    /\ UNCHANGED <<kind, appliance, session, count, doomed, result, closing, met, events>>

\* Under the lock: another call's session is taken, or this call signs in.
ObtainSession(c) ==
    /\ pc[c] = "wantSession"
    /\ c \notin doomed
    /\ lock = NoCall
    /\ \/ /\ Usable
          /\ Authorize(c)
          /\ UNCHANGED <<lock, count>>
       \/ /\ ~Usable
          /\ lock' = c
          /\ count' = [count EXCEPT ![c].tries = 0]
          /\ pc' = [pc EXCEPT ![c] = "login"]
          /\ UNCHANGED seen
    /\ UNCHANGED <<kind, appliance, held, issued, aged, free, doomed, result,
                   closing, met, events>>

\* Mutant: each refused call signs in.
NeverReplaced(c) == FALSE

\* Mutant: any session is taken for a new one.
AnyIsNew(c) == held # 0

TokenReplaced(c) == held # 0 /\ held # seen[c]
SessionReplaced(c) == issued # seen[c]

\* Somebody has replaced the session this call saw refused.
Replaced(c) == IF kind = "ops" THEN TokenReplaced(c) ELSE SessionReplaced(c)

\* _reacquire.  A declared session is forgotten first, and an Operations
\* token released.
Renew(c) ==
    /\ pc[c] = "wantNew"
    /\ c \notin doomed
    /\ lock = NoCall
    /\ \/ /\ Replaced(c)
          /\ Authorize(c)
          /\ UNCHANGED <<held, lock, count>>
       \/ /\ ~Replaced(c)
          /\ lock' = c
          /\ count' = [count EXCEPT ![c].tries = 0]
          /\ held' = IF kind \in {"ops", "vcenter"} THEN held ELSE 0
          /\ pc' = [pc EXCEPT ![c] =
                      IF kind = "ops_token" /\ held # 0 THEN "release" ELSE "login"]
          /\ UNCHANGED seen
    /\ UNCHANGED <<kind, appliance, issued, aged, free, doomed, result, closing,
                   met, events>>

\* The old token, refused already, is released as best it can be; only a closed
\* transport raises.
TokenReleased(c) ==
    /\ pc[c] = "release"
    /\ c \notin doomed
    /\ \/ /\ phase # "shut"
          /\ Moves(c, "login")
          /\ UNCHANGED <<lock, count>>
       \/ /\ phase = "shut"
          /\ End(c, "error")
    /\ UNCHANGED <<kind, appliance, held, issued, aged, seen, closing, met, events>>

-----------------------------------------------------------------------------
(* Signing in: _acquire_locked.                                            *)

\* The exchange of an Operations token is a second POST.
SignInStage == {"login", "exchange"}
Pause(stage) == IF stage = "login" THEN "loginWait" ELSE "exchangeWait"

\* 401: a wrong password ends the request and leaves the session as it was.
SignInRefused(c) ==
    /\ pc[c] = "login"
    /\ c \notin doomed
    /\ phase # "shut"
    /\ ~accepts
    /\ End(c, "refused")
    /\ UNCHANGED <<kind, appliance, held, issued, aged, seen, closing, met, events>>

\* Mutant: the attempts of a sign-in are not counted.
SignInLimitedForEver(c) ==
    /\ pc[c] \in SignInStage
    /\ c \notin doomed
    /\ phase # "shut"
    /\ Moves(c, Pause(pc[c]))
    /\ UNCHANGED <<kind, appliance, session, seen, count, closing, met, events>>

\* 429 with budget left: the lock and the slot are held over the sleep.
SignInLimited(c) ==
    /\ pc[c] \in SignInStage
    /\ c \notin doomed
    /\ phase # "shut"
    /\ count[c].tries < Max429Retries
    /\ count' = [count EXCEPT ![c].tries = @ + 1]
    /\ Moves(c, Pause(pc[c]))
    /\ UNCHANGED <<kind, appliance, session, seen, closing, met, events>>

SignInWakes(c) ==
    /\ pc[c] \in {"loginWait", "exchangeWait"}
    /\ c \notin doomed
    /\ Moves(c, IF pc[c] = "loginWait" THEN "login" ELSE "exchange")
    /\ UNCHANGED <<kind, appliance, session, seen, count, closing, met, events>>

\* The transport fails, or was closed under the sign-in.
SignInBreaks(c) ==
    /\ pc[c] \in SignInStage
    /\ c \notin doomed
    /\ End(c, "error")
    /\ UNCHANGED <<kind, appliance, held, issued, aged, seen, closing, met, events>>

\* A status of 400 or above, 401 to the exchange and 429 included, or an
\* answer without a session.
SignInFails(c) ==
    /\ pc[c] \in SignInStage
    /\ c \notin doomed
    /\ phase # "shut"
    /\ End(c, "error")
    /\ UNCHANGED <<kind, appliance, held, issued, aged, seen, closing, met, events>>

ExchangeStarts(c) ==
    /\ pc[c] = "login"
    /\ c \notin doomed
    /\ phase # "shut"
    /\ accepts
    /\ kind = "ops_exchange"
    /\ count' = [count EXCEPT ![c].tries = 0]
    /\ Moves(c, "exchange")
    /\ UNCHANGED <<kind, appliance, session, seen, closing, met, events>>

\* The new session is the shared one, and the request goes on with it.
SignsIn(c) ==
    /\ c \notin doomed
    /\ phase # "shut"
    /\ \/ pc[c] = "login" /\ accepts /\ kind # "ops_exchange"
       \/ pc[c] = "exchange"
    /\ issued' = issued + 1
    /\ held' = issued'
    /\ valid' = valid \cup {issued'}
    /\ lock' = NoCall
    /\ count' = [count EXCEPT ![c].tries = 0]
    /\ seen' = [seen EXCEPT ![c] = issued']
    /\ Moves(c, "sending")
    /\ UNCHANGED <<kind, accepts, aged, closing, met, events>>

-----------------------------------------------------------------------------
(* The answer to a read.                                                   *)

\* The appliance would let the request in.
Admits(c) == IF Static THEN accepts ELSE seen[c] \in valid

\* A result of a closed client is discarded.
Succeeds(c) ==
    /\ c \notin doomed
    /\ phase # "shut"
    /\ \/ pc[c] = "served"
       \/ pc[c] = "sending" /\ Admits(c)
    /\ End(c, IF Closed THEN "superseded" ELSE "ok")
    /\ UNCHANGED <<kind, appliance, held, issued, aged, seen, closing, met, events>>

\* 401: static credentials are not tried again; a session is renewed once.
Refused(c) ==
    /\ pc[c] = "sending"
    /\ c \notin doomed
    /\ phase # "shut"
    /\ ~Admits(c)
    /\ met' = [met EXCEPT ![c] = IF Static THEN @ ELSE @ \cup {seen[c]}]
    /\ \/ /\ Static
          /\ End(c, "refused")
       \/ /\ ~Static /\ count[c].reauths >= MaxReauth
          /\ End(c, "exhausted")
       \/ /\ ~Static /\ count[c].reauths < MaxReauth /\ Closed
          /\ End(c, "superseded")
       \/ /\ ~Static /\ count[c].reauths < MaxReauth /\ ~Closed
          /\ count' = [count EXCEPT ![c].reauths = @ + 1]
          /\ Moves(c, "wantNew")
          /\ UNCHANGED lock
    /\ UNCHANGED <<kind, appliance, held, issued, aged, seen, closing, events>>

\* 429: the request sleeps on its slot while its budget lasts.
RateLimited(c) ==
    /\ pc[c] = "sending"
    /\ c \notin doomed
    /\ phase # "shut"
    /\ count[c].retries < Max429Retries
    /\ count' = [count EXCEPT ![c].retries = @ + 1]
    /\ Moves(c, "backoff")
    /\ UNCHANGED <<kind, appliance, session, seen, closing, met, events>>

Wakes(c) ==
    /\ pc[c] = "backoff"
    /\ c \notin doomed
    /\ Authorize(c)
    /\ UNCHANGED <<kind, appliance, session, free, count, doomed, result, closing, met, events>>

\* 403, any other status of 400 or above, 429 included, or a body that is not
\* JSON.
Fails(c) ==
    /\ pc[c] \in {"sending", "served"}
    /\ c \notin doomed
    /\ phase # "shut"
    /\ End(c, "error")
    /\ UNCHANGED <<kind, appliance, held, issued, aged, seen, closing, met, events>>

\* The transport fails or is closed, or the body is over the cap.
Breaks(c) ==
    /\ pc[c] \in {"sending", "served"}
    /\ c \notin doomed
    /\ End(c, "error")
    /\ UNCHANGED <<kind, appliance, held, issued, aged, seen, closing, met, events>>

\* A CancelledError, at whichever await the task is suspended.
Unwinds(c) ==
    /\ c \in doomed
    /\ End(c, "cancelled")
    /\ UNCHANGED <<kind, appliance, held, issued, aged, seen, closing, met, events>>

-----------------------------------------------------------------------------
(* Retirement: mark_closed, drain with or without cancel, aclose.          *)

MarkClosed ==
    /\ phase = "open"
    /\ events < MaxEvents
    /\ events' = events + 1
    /\ phase' = "closed"
    /\ early' = InFlight
    /\ UNCHANGED <<kind, appliance, session, free, pc, seen, count, doomed, result, waits, met>>

CancelRunning ==
    /\ phase \in {"closed", "draining"}
    /\ InFlight \ doomed # {}
    /\ doomed' = doomed \cup InFlight
    /\ UNCHANGED <<kind, appliance, session, free, pc, seen, count, result, closing, met,
                   events>>

StartDrain ==
    /\ phase = "closed"
    /\ phase' = "draining"
    /\ waits' = InFlight
    /\ UNCHANGED <<kind, appliance, session, free, pc, seen, count, doomed, result, early, met,
                   events>>

\* Mutant: the drain waits for nobody.
NothingRuns == TRUE

Idle == InFlight = {}
Gathered == waits \cap InFlight = {}

\* VcfTargetClient waits until it is idle, the others gather a snapshot.
NobodyRuns == IF kind = "ops" THEN Idle ELSE Gathered

\* aclose signs out of the session it holds; only VcfTargetClient keeps it
\* until that is done.  What the appliance makes of it is a Revoke.
Drained ==
    /\ phase = "draining"
    /\ NobodyRuns
    /\ phase' = IF held # 0 /\ kind \in {"ops", "vcenter", "ops_token", "vcenter_session"}
                THEN "releasing" ELSE "shut"
    /\ held' = IF kind = "ops" /\ held # 0 THEN held ELSE 0
    /\ UNCHANGED <<kind, appliance, issued, aged, lock, free, pc, seen, count, doomed, result,
                   waits, early, met, events>>

\* The answer to the sign-out does not matter; the transport is closed.
ShutTransport ==
    /\ phase = "releasing"
    /\ phase' = "shut"
    /\ held' = IF kind = "ops" THEN 0 ELSE held
    /\ UNCHANGED <<kind, appliance, issued, aged, lock, free, pc, seen, count, doomed, result,
                   waits, early, met, events>>

-----------------------------------------------------------------------------
(* The environment.                                                        *)

\* The appliance drops sessions (restart, timeout, an operator).  Requests it
\* had admitted before may still be answered.
Revoke ==
    /\ events < MaxEvents
    /\ events' = events + 1
    /\ valid # {}
    /\ valid' = {}
    /\ \E admitted \in SUBSET {c \in Calls : pc[c] = "sending" /\ seen[c] \in valid} :
         pc' = [c \in Calls |-> IF c \in admitted THEN "served" ELSE pc[c]]
    /\ UNCHANGED <<kind, accepts, session, free, seen, count, doomed, result, closing, met>>

ChangePassword ==
    /\ events < MaxEvents
    /\ events' = events + 1
    /\ accepts
    /\ accepts' = FALSE
    /\ \E admitted \in SUBSET {c \in Calls : Static /\ pc[c] = "sending"} :
         pc' = [c \in Calls |-> IF c \in admitted THEN "served" ELSE pc[c]]
    /\ UNCHANGED <<kind, valid, session, free, seen, count, doomed, result, closing, met>>

\* _is_stale: the refresh margin of the token is reached.
Ages ==
    /\ events < MaxEvents
    /\ events' = events + 1
    /\ kind = "ops"
    /\ Usable
    /\ aged' = aged \cup {held}
    /\ UNCHANGED <<kind, appliance, held, issued, lock, free, pc, seen, count, doomed, result,
                   closing, met>>

\* The deadline of the call, or its client's disconnect.
Cancel(c) ==
    /\ events < MaxEvents
    /\ events' = events + 1
    /\ pc[c] \in Entered \cup {"slot"}
    /\ c \notin doomed
    /\ doomed' = doomed \cup {c}
    /\ UNCHANGED <<kind, appliance, session, free, pc, seen, count, result, closing, met>>

-----------------------------------------------------------------------------
\* What a request that was started does without being asked.
Proceeds(c) ==
    \/ TakeSlot(c) \/ ObtainSession(c) \/ Renew(c) \/ TokenReleased(c)
    \/ SignInRefused(c) \/ SignInLimited(c) \/ SignInWakes(c) \/ SignInBreaks(c)
    \/ SignInFails(c) \/ ExchangeStarts(c) \/ SignsIn(c)
    \/ Succeeds(c) \/ Refused(c) \/ RateLimited(c) \/ Wakes(c)
    \/ Fails(c) \/ Breaks(c) \/ Unwinds(c)

Retires == StartDrain \/ Drained \/ ShutTransport

Next ==
    \/ \E c \in Calls : Start(c) \/ Proceeds(c) \/ Cancel(c)
    \/ MarkClosed \/ CancelRunning \/ Retires
    \/ Revoke \/ ChangePassword \/ Ages

\* Timeouts of the transport, bounded sleeps and the event loop see to it that
\* a task goes on; nobody has to start, close, revoke or cancel anything.
Fairness ==
    /\ \A c \in Calls : WF_vars(Proceeds(c))
    /\ WF_vars(Retires)

Spec == Init /\ [][Next]_vars /\ Fairness

-----------------------------------------------------------------------------
TypeOK ==
    /\ kind \in Kinds
    /\ accepts \in BOOLEAN
    /\ valid \subseteq 1..issued
    /\ held \in 0..issued
    /\ issued \in Nat
    /\ aged \subseteq 1..issued
    /\ lock \in Calls \cup {NoCall}
    /\ free \in 0..MaxConcurrency
    /\ pc \in [Calls -> Entered \cup {"idle", "slot", "done"}]
    /\ seen \in [Calls -> 0..issued]
    /\ count \in [Calls -> [reauths : 0..MaxReauth, retries : 0..Max429Retries,
                            tries : 0..Max429Retries]]
    /\ doomed \subseteq Calls
    /\ result \in [Calls -> {"none", "ok", "superseded", "refused", "exhausted",
                             "error", "cancelled"}]
    /\ phase \in {"open", "closed", "draining", "releasing", "shut"}
    /\ waits \subseteq Calls
    /\ met \in [Calls -> SUBSET (1..issued)]
    /\ early \subseteq Calls
    /\ events \in 0..MaxEvents

Spent == aged \cup UNION {met[c] : c \in Calls}

Token == INSTANCE SessionToken WITH current <- held, spent <- Spent, login <- lock

\* However many calls meet a 401 or an expiry at once, one of them signs in,
\* and only for a session that was refused or has expired
\* (vcf/client.py:298, vcenter.py:163, declared_backend.py:204).
OneSignInPerSpentSession == Token!TokenSpec

\* A request that gives up with ReauthenticationExhausted has seen two
\* sessions refused, and no request presents a session again that it saw
\* refused, whoever replaced it in the meantime (vcf/client.py:249).
ExhaustionNeedsTwoSessions ==
    \A c \in Calls :
        /\ pc[c] = "sending" => seen[c] \notin met[c]
        /\ result[c] = "exhausted" => Cardinality(met[c]) = MaxReauth + 1

\* Whichever way requests end - result, refusal, 429 budget, cancellation in
\* any await - the slots they took are free again and nobody else's, and the
\* lock is nobody's that does not sign in (vcf/client.py:284).
SlotsAndLockAccounted ==
    /\ free + Cardinality(InFlight) = MaxConcurrency
    /\ \A c \in Calls :
         lock = c <=> pc[c] \in {"release", "login", "loginWait", "exchange", "exchangeWait"}

\* A retired client keeps its session and its transport until the requests
\* that were in flight when it was closed have ended (vcf/client.py:493).
TransportOutlivesItsRequests ==
    phase \in {"releasing", "shut"} => early \cap InFlight = {}

\* What a request waits for, if it waits: a slot, the lock, or nothing.
CanProceed(c) ==
    \/ c \in doomed
    \/ pc[c] = "slot" /\ free > 0
    \/ pc[c] \in {"wantSession", "wantNew"} /\ lock = NoCall
    \/ pc[c] \in Entered \ {"wantSession", "wantNew"}

CanRetire == phase \in {"closed", "releasing"} \/ (phase = "draining" /\ NobodyRuns)

\* Whatever the appliance answers, a request that was started ends: it holds
\* its slot over sleeps and sign-ins, but not for ever; it waits for a slot and
\* for the lock and for nothing else (vcf/client.py:249).
RequestsEnd ==
    /\ [](\A c \in Calls : ENABLED Proceeds(c) <=> CanProceed(c))
    /\ [](ENABLED Retires <=> CanRetire)
    /\ \A c \in Calls : pc[c] # "idle" ~> pc[c] = "done"

\* A retirement ends, though requests that had queued for a slot still enter
\* the closed client (mcp_server.py:311).
RetirementEnds == phase = "closed" ~> phase = "shut"
=============================================================================
