------------------------ MODULE ClientSession_proofs ------------------------
(***************************************************************************)
(* Proofs about ClientSession, for any requests, kinds of client, slots,   *)
(* budgets and bounds.                                                     *)
(***************************************************************************)
EXTENDS ClientSession, FiniteSetTheorems, TLAPS

CountRow == [reauths : 0..MaxReauth, retries : 0..Max429Retries, tries : 0..Max429Retries]
Results == {"none", "ok", "superseded", "refused", "exhausted", "error", "cancelled"}
Places == Entered \cup {"idle", "slot", "done"}

\* Signing in, with the lock.
Signing == {"release", "login", "loginWait", "exchange", "exchangeWait"}

\* TypeOK, but for the number of free slots.
Typed ==
    /\ kind \in Kinds
    /\ accepts \in BOOLEAN
    /\ valid \subseteq 1..issued
    /\ held \in 0..issued
    /\ issued \in Nat
    /\ aged \subseteq 1..issued
    /\ lock \in Calls \cup {NoCall}
    /\ free \in Nat
    /\ pc \in [Calls -> Places]
    /\ seen \in [Calls -> 0..issued]
    /\ count \in [Calls -> CountRow]
    /\ doomed \subseteq Calls
    /\ result \in [Calls -> Results]
    /\ phase \in {"open", "closed", "draining", "releasing", "shut"}
    /\ waits \subseteq Calls
    /\ met \in [Calls -> SUBSET (1..issued)]
    /\ early \subseteq Calls
    /\ events \in 0..MaxEvents

Counted == free + Cardinality(InFlight) = MaxConcurrency

Locked == \A c \in Calls : lock = c <=> pc[c] \in Signing

\* What a request was sent with is a session, and a newer one than those it saw
\* refused.
Fresh(c) ==
    /\ Static \/ pc[c] \in {"idle", "slot"} => met[c] = {}
    /\ pc[c] \in {"sending", "backoff"} => \A t \in met[c] : t < seen[c]
    /\ pc[c] = "sending" /\ ~Static => seen[c] # 0
    /\ pc[c] = "wantSession" => \A t \in met[c] : t < issued
    /\ pc[c] = "wantNew" => seen[c] \in met[c] /\ \A t \in met[c] : t <= seen[c]

\* A session that is held is the last one that was issued.
LastIsHeld == held \in {0, issued}

Renewed == LastIsHeld /\ \A c \in Calls : Fresh(c)

\* Each reauthentication is for a session that was refused.
Tallied(c) ==
    /\ pc[c] \in {"idle", "slot"} => count[c].reauths = 0
    /\ pc[c] \in Entered => Cardinality(met[c]) = count[c].reauths
    /\ result[c] = "exhausted" => pc[c] = "done" /\ Cardinality(met[c]) = MaxReauth + 1

\* The requests that were in flight when the client was closed are waited for.
Awaited ==
    /\ phase = "open" => early = {}
    /\ \A c \in early : pc[c] \in Entered \cup {"done"}
    /\ phase = "draining" => early \cap InFlight \subseteq waits
    /\ phase \in {"releasing", "shut"} => early \cap InFlight = {}

LEMMA Assumptions ==
  /\ IsFiniteSet(Calls) /\ NoCall \notin Calls /\ MaxConcurrency \in Nat
  /\ Max429Retries \in Nat /\ MaxReauth \in Nat /\ MaxEvents \in Nat
  BY SessionAssumption

-----------------------------------------------------------------------------
(* The steps of a request, by what they touch.                             *)

Leaves(c) ==
    /\ \E r \in Results \ {"none", "exhausted"} : End(c, r)
    /\ UNCHANGED <<kind, appliance, held, issued, aged, seen, closing, met, events>>

\* From place to place with nothing but its budgets changed.
GoesOn(c) ==
    /\ \E p \in Entered :
         /\ Moves(c, p)
         /\ \/ pc[c] \in Signing /\ p \in Signing
            \/ pc[c] = "sending" /\ p = "backoff"
    /\ \E q \in CountRow :
         count' = [count EXCEPT ![c] = q] /\ q.reauths = count[c].reauths
    /\ UNCHANGED <<kind, appliance, session, seen, closing, met, events>>

Queues(c) ==
    /\ pc[c] = "idle"
    /\ Moves(c, "slot")
    /\ UNCHANGED <<kind, appliance, session, count, seen, closing, met, events>>

RequestStep(c) ==
    \/ Leaves(c) \/ GoesOn(c) \/ Queues(c) \/ TakeSlot(c) \/ ObtainSession(c) \/ Renew(c)
    \/ SignsIn(c) \/ Refused(c) \/ Wakes(c) \/ Cancel(c)

LEMMA RequestSteps ==
  ASSUME Typed, NEW c \in Calls, Start(c) \/ Proceeds(c) \/ Cancel(c)
  PROVE  RequestStep(c)
<1>1. CASE Start(c)
  BY <1>1 DEF Start, Queues, Leaves, RequestStep, Results, session
<1>2. CASE TokenReleased(c)
  <2>1. CASE phase # "shut"
    <3>1. Moves(c, "login") /\ pc[c] = "release" /\ UNCHANGED <<lock, count>>
      BY <1>2, <2>1 DEF TokenReleased
    <3>2. count[c] \in CountRow /\ count' = [count EXCEPT ![c] = count[c]]
      BY <3>1 DEF Typed
    <3> QED
      BY <1>2, <3>1, <3>2 DEF TokenReleased, GoesOn, RequestStep, session, Signing, Entered
  <2>2. CASE phase = "shut"
    BY <1>2, <2>2 DEF TokenReleased, Leaves, RequestStep, Results
  <2> QED
    BY <2>1, <2>2
<1>3. CASE SignInRefused(c) \/ SignInBreaks(c) \/ SignInFails(c) \/ Succeeds(c) \/ Fails(c)
           \/ Breaks(c) \/ Unwinds(c)
  BY <1>3 DEF SignInRefused, SignInBreaks, SignInFails, Succeeds, Fails, Breaks, Unwinds, Leaves,
              RequestStep, Results
<1>4. CASE SignInLimited(c)
  <2> DEFINE q == [count[c] EXCEPT !.tries = @ + 1]
  <2>1. q \in CountRow /\ q.reauths = count[c].reauths
    BY <1>4, Assumptions DEF SignInLimited, Typed, CountRow
  <2>2. count' = [count EXCEPT ![c] = q]
    BY <1>4 DEF SignInLimited, Typed
  <2> HIDE DEF q
  <2> QED
    BY <1>4, <2>1, <2>2
    DEF SignInLimited, SignInStage, Pause, GoesOn, RequestStep, Signing, Entered
<1>5. CASE SignInWakes(c)
  <2>1. count[c] \in CountRow /\ count' = [count EXCEPT ![c] = count[c]]
    BY <1>5 DEF Typed, SignInWakes
  <2> QED
    BY <1>5, <2>1 DEF SignInWakes, GoesOn, RequestStep, Signing, Entered
<1>6. CASE ExchangeStarts(c)
  <2> DEFINE q == [count[c] EXCEPT !.tries = 0]
  <2>1. q \in CountRow /\ q.reauths = count[c].reauths
    BY Assumptions DEF Typed, CountRow
  <2>2. count' = [count EXCEPT ![c] = q]
    BY <1>6 DEF ExchangeStarts, Typed
  <2> HIDE DEF q
  <2> QED
    BY <1>6, <2>1, <2>2 DEF ExchangeStarts, GoesOn, RequestStep, Signing, Entered
<1>7. CASE RateLimited(c)
  <2> DEFINE q == [count[c] EXCEPT !.retries = @ + 1]
  <2>1. q \in CountRow /\ q.reauths = count[c].reauths
    BY <1>7, Assumptions DEF RateLimited, Typed, CountRow
  <2>2. count' = [count EXCEPT ![c] = q]
    BY <1>7 DEF RateLimited, Typed
  <2> HIDE DEF q
  <2> QED
    BY <1>7, <2>1, <2>2 DEF RateLimited, GoesOn, RequestStep, Entered
<1> QED
  BY <1>1, <1>2, <1>3, <1>4, <1>5, <1>6, <1>7 DEF Proceeds, RequestStep
-----------------------------------------------------------------------------
(* Types.                                                                  *)

\* The steps that belong to no request.
OtherStep ==
    \/ MarkClosed \/ CancelRunning \/ StartDrain \/ Drained \/ ShutTransport
    \/ Revoke \/ ChangePassword \/ Ages

LEMMA Steps == Next => (\E c \in Calls : Start(c) \/ Proceeds(c) \/ Cancel(c)) \/ OtherStep
  BY DEF Next, OtherStep, Retires

LEMMA InitTyped == Init => Typed
  BY Assumptions
  DEF Init, Typed, appliance, Places, CountRow, NoCount, Results, Entered

LEMMA EndTyped ==
  ASSUME Typed, NEW c \in Calls, NEW r \in Results, End(c, r)
  PROVE  /\ pc' \in [Calls -> Places] /\ result' \in [Calls -> Results]
         /\ count' \in [Calls -> CountRow] /\ free' \in Nat
         /\ lock' \in Calls \cup {NoCall} /\ doomed' \subseteq Calls
<1>1. NoCount \in CountRow
  BY Assumptions DEF NoCount, CountRow
<1> QED
  BY <1>1 DEF End, Typed, Places, Entered

LEMMA AuthorizeTyped ==
  ASSUME Typed, NEW c \in Calls, Authorize(c)
  PROVE  pc' \in [Calls -> Places] /\ seen' \in [Calls -> 0..issued]
  BY DEF Authorize, Typed, Places, Entered

LEMMA RequestTyped ==
  ASSUME Typed, NEW c \in Calls, RequestStep(c),
         pc[c] = "sending" /\ ~Static => seen[c] # 0
  PROVE  Typed'
<1>1. CASE Leaves(c)
  BY <1>1, EndTyped DEF Leaves, Typed, appliance, closing
<1>2. CASE GoesOn(c)
  BY <1>2 DEF GoesOn, Moves, Typed, appliance, session, closing, Places
<1>3. CASE Queues(c)
  BY <1>3 DEF Queues, Moves, Typed, appliance, session, closing, Places
<1>4. CASE TakeSlot(c)
  BY <1>4, AuthorizeTyped DEF TakeSlot, Typed, appliance, session, closing
<1>5. CASE ObtainSession(c)
  <2> DEFINE q == [count[c] EXCEPT !.tries = 0]
  <2>1. q \in CountRow
    BY Assumptions DEF Typed, CountRow
  <2>2. Usable \/ count' = [count EXCEPT ![c] = q]
    BY <1>5 DEF ObtainSession, Typed
  <2> HIDE DEF q
  <2>3. count' \in [Calls -> CountRow]
    BY <1>5, <2>1, <2>2 DEF ObtainSession, Typed
  <2>4. pc' \in [Calls -> Places] /\ seen' \in [Calls -> 0..issued]
        /\ lock' \in Calls \cup {NoCall}
    BY <1>5, AuthorizeTyped DEF ObtainSession, Typed, Places, Entered
  <2> QED
    BY <1>5, <2>3, <2>4 DEF ObtainSession, Typed, appliance, closing
<1>6. CASE Renew(c)
  <2> DEFINE q == [count[c] EXCEPT !.tries = 0]
  <2>1. q \in CountRow
    BY Assumptions DEF Typed, CountRow
  <2>2. Replaced(c) \/ count' = [count EXCEPT ![c] = q]
    BY <1>6 DEF Renew, Typed
  <2> HIDE DEF q
  <2>3. count' \in [Calls -> CountRow]
    BY <1>6, <2>1, <2>2 DEF Renew, Typed
  <2>4. pc' \in [Calls -> Places] /\ seen' \in [Calls -> 0..issued]
        /\ lock' \in Calls \cup {NoCall} /\ held' \in 0..issued
    BY <1>6, AuthorizeTyped DEF Renew, Typed, Places, Entered
  <2> QED
    BY <1>6, <2>3, <2>4 DEF Renew, Typed, appliance, closing
<1>7. CASE SignsIn(c)
  <2> DEFINE q == [count[c] EXCEPT !.tries = 0]
  <2>1. q \in CountRow
    BY Assumptions DEF Typed, CountRow
  <2>2. count' = [count EXCEPT ![c] = q]
    BY <1>7 DEF SignsIn, Typed
  <2> HIDE DEF q
  <2>3. count' \in [Calls -> CountRow]
    BY <2>1, <2>2 DEF Typed
  <2>4. issued' \in Nat /\ 1..issued \subseteq 1..issued' /\ 0..issued \subseteq 0..issued'
        /\ issued' \in 1..issued'
    BY <1>7 DEF SignsIn, Typed
  <2>5. seen' \in [Calls -> 0..issued'] /\ met' \in [Calls -> SUBSET (1..issued')]
        /\ valid' \subseteq 1..issued' /\ aged' \subseteq 1..issued' /\ held' \in 0..issued'
    BY <1>7, <2>4 DEF SignsIn, Typed
  <2>6. pc' \in [Calls -> Places] /\ lock' \in Calls \cup {NoCall}
    BY <1>7 DEF SignsIn, Moves, Typed, Places, Entered
  <2> QED
    BY <1>7, <2>3, <2>4, <2>5, <2>6 DEF SignsIn, Moves, Typed, closing
<1>8. CASE Refused(c)
  <2>1. met' \in [Calls -> SUBSET (1..issued)]
    BY <1>8 DEF Refused, Typed
  <2>2. CASE \E r \in Results : End(c, r)
    BY <1>8, <2>1, <2>2, EndTyped DEF Refused, Typed, appliance, closing
  <2>3. CASE /\ count' = [count EXCEPT ![c].reauths = @ + 1]
             /\ Moves(c, "wantNew")
             /\ count[c].reauths < MaxReauth
             /\ UNCHANGED lock
    <3> DEFINE q == [count[c] EXCEPT !.reauths = @ + 1]
    <3>1. q \in CountRow
      BY <2>3, Assumptions DEF Typed, CountRow
    <3>2. count' = [count EXCEPT ![c] = q]
      BY <2>3 DEF Typed
    <3> HIDE DEF q
    <3>3. count' \in [Calls -> CountRow]
      BY <3>1, <3>2 DEF Typed
    <3> QED
      BY <1>8, <2>1, <2>3, <3>3 DEF Refused, Moves, Typed, Places, Entered, appliance, closing
  <2> QED
    BY <1>8, <2>2, <2>3 DEF Refused, Results
<1>9. CASE Wakes(c)
  BY <1>9, AuthorizeTyped DEF Wakes, Typed, appliance, session, closing
<1>10. CASE Cancel(c)
  BY <1>10, Assumptions DEF Cancel, Typed, appliance, session, closing
<1> QED
  BY <1>1, <1>2, <1>3, <1>4, <1>5, <1>6, <1>7, <1>8, <1>9, <1>10 DEF RequestStep

LEMMA OnlyAdmits ==
  ASSUME Typed, Revoke \/ ChangePassword
  PROVE  /\ pc' \in [Calls -> Places]
         /\ \A c \in Calls : pc'[c] = pc[c] \/ (pc[c] = "sending" /\ pc'[c] = "served")
<1>1. PICK admitted :
        /\ \A c \in admitted : pc[c] = "sending"
        /\ pc' = [c \in Calls |-> IF c \in admitted THEN "served" ELSE pc[c]]
  <2>1. CASE Revoke
    BY <2>1 DEF Revoke
  <2>2. CASE ChangePassword
    BY <2>2 DEF ChangePassword
  <2> QED
    BY <2>1, <2>2
<1>2. \A c \in Calls : /\ pc[c] \in Places
                       /\ pc'[c] = pc[c] \/ (pc[c] = "sending" /\ pc'[c] = "served")
  BY <1>1 DEF Typed
<1>3. "served" \in Places /\ DOMAIN pc' = Calls /\ pc' = [c \in Calls |-> pc'[c]]
  BY <1>1 DEF Places, Entered
<1> QED
  BY <1>2, <1>3

LEMMA OtherTyped == ASSUME Typed, OtherStep PROVE Typed'
<1> USE Assumptions
<1>1. CASE MarkClosed
  BY <1>1 DEF MarkClosed, Typed, appliance, session, InFlight
<1>2. CASE CancelRunning
  BY <1>2 DEF CancelRunning, Typed, appliance, session, closing, InFlight
<1>3. CASE StartDrain
  BY <1>3 DEF StartDrain, Typed, appliance, session, InFlight
<1>4. CASE Drained
  BY <1>4 DEF Drained, Typed, appliance
<1>5. CASE ShutTransport
  BY <1>5 DEF ShutTransport, Typed, appliance
<1>6. CASE Revoke
  <2>1. pc' \in [Calls -> Places]
    BY <1>6, OnlyAdmits
  <2>2. valid' = {} /\ events' \in 0..MaxEvents
    BY <1>6 DEF Revoke, Typed
  <2> QED
    BY <1>6, <2>1, <2>2 DEF Revoke, Typed, session, closing
<1>7. CASE ChangePassword
  <2>1. pc' \in [Calls -> Places]
    BY <1>7, OnlyAdmits
  <2>2. accepts' = FALSE /\ events' \in 0..MaxEvents
    BY <1>7 DEF ChangePassword, Typed
  <2> QED
    BY <1>7, <2>1, <2>2 DEF ChangePassword, Typed, session, closing
<1>8. CASE Ages
  BY <1>8 DEF Ages, Usable, Typed, appliance, closing
<1> QED
  BY <1>1, <1>2, <1>3, <1>4, <1>5, <1>6, <1>7, <1>8 DEF OtherStep
-----------------------------------------------------------------------------
(* Slots and the lock.                                                     *)

LEMMA InFlightFinite == IsFiniteSet(InFlight) /\ Cardinality(InFlight) \in Nat
<1>1. InFlight \subseteq Calls
  BY DEF InFlight
<1> QED
  BY <1>1, Assumptions, FS_Subset, FS_CardinalityType

LEMMA CountEnters ==
  ASSUME NEW c \in Calls, c \notin InFlight, InFlight' = InFlight \cup {c}
  PROVE  Cardinality(InFlight') = Cardinality(InFlight) + 1
  BY InFlightFinite, FS_AddElement

LEMMA CountLeaves ==
  ASSUME NEW c \in InFlight, InFlight' = InFlight \ {c}
  PROVE  Cardinality(InFlight') = Cardinality(InFlight) - 1
  BY InFlightFinite, FS_RemoveElement

LEMMA CountStays ==
  ASSUME Counted, InFlight' = InFlight, free' = free
  PROVE  Counted'
  BY DEF Counted

LEMMA SameInFlight ==
  ASSUME Typed, NEW c \in Calls, NEW p \in Entered, pc[c] \in Entered, pc' = [pc EXCEPT ![c] = p]
  PROVE  InFlight' = InFlight
  BY DEF InFlight, Typed

LEMMA EndCounted ==
  ASSUME Typed, Counted, NEW c \in Calls, NEW r, End(c, r)
  PROVE  Counted'
<1>1. free \in Nat /\ Cardinality(InFlight) \in Nat
  BY InFlightFinite DEF Typed
<1>2. CASE pc[c] \in Entered
  <2>1. c \in InFlight /\ InFlight' = InFlight \ {c} /\ free' = free + 1
    BY <1>2 DEF End, InFlight, Typed, Entered
  <2>2. Cardinality(InFlight') = Cardinality(InFlight) - 1
    BY <2>1, CountLeaves
  <2> QED
    BY <1>1, <2>1, <2>2 DEF Counted
<1>3. CASE pc[c] \notin Entered
  <2>1. InFlight' = InFlight /\ free' = free
    BY <1>3 DEF End, InFlight, Typed, Entered
  <2> QED
    BY <2>1, CountStays
<1> QED
  BY <1>2, <1>3

LEMMA AuthorizeSends ==
  ASSUME NEW c \in Calls, Authorize(c)
  PROVE  \E p \in {"sending", "wantSession"} : pc' = [pc EXCEPT ![c] = p]
  BY DEF Authorize

LEMMA RequestCounted ==
  ASSUME Typed, Counted, NEW c \in Calls, RequestStep(c)
  PROVE  Counted'
<1>1. CASE Leaves(c)
  BY <1>1, EndCounted DEF Leaves
<1>2. CASE GoesOn(c)
  <2>1. InFlight' = InFlight /\ free' = free
    BY <1>2, SameInFlight DEF GoesOn, Moves, Signing, Entered
  <2> QED
    BY <2>1, CountStays
<1>3. CASE Queues(c)
  <2>1. InFlight' = InFlight /\ free' = free
    BY <1>3 DEF Queues, Moves, InFlight, Typed, Entered
  <2> QED
    BY <2>1, CountStays
<1>4. CASE TakeSlot(c)
  <2>1. c \notin InFlight /\ InFlight' = InFlight \cup {c} /\ free' = free - 1
    BY <1>4, AuthorizeSends DEF TakeSlot, InFlight, Typed, Entered
  <2>2. Cardinality(InFlight') = Cardinality(InFlight) + 1
    BY <2>1, CountEnters
  <2>3. free \in Nat /\ Cardinality(InFlight) \in Nat
    BY InFlightFinite DEF Typed
  <2> QED
    BY <2>1, <2>2, <2>3 DEF Counted
<1>5. CASE ObtainSession(c)
  <2>1. \E p \in Entered : pc' = [pc EXCEPT ![c] = p]
    BY <1>5, AuthorizeSends DEF ObtainSession, Entered
  <2>2. InFlight' = InFlight /\ free' = free
    BY <1>5, <2>1, SameInFlight DEF ObtainSession, Entered
  <2> QED
    BY <2>2, CountStays
<1>6. CASE Renew(c)
  <2>1. \E p \in Entered : pc' = [pc EXCEPT ![c] = p]
    BY <1>6, AuthorizeSends DEF Renew, Entered
  <2>2. InFlight' = InFlight /\ free' = free
    BY <1>6, <2>1, SameInFlight DEF Renew, Entered
  <2> QED
    BY <2>2, CountStays
<1>7. CASE SignsIn(c)
  <2>1. InFlight' = InFlight /\ free' = free
    BY <1>7, SameInFlight DEF SignsIn, Moves, Entered
  <2> QED
    BY <2>1, CountStays
<1>8. CASE Refused(c)
  <2>1. CASE \E r \in Results : End(c, r)
    BY <2>1, EndCounted
  <2>2. CASE Moves(c, "wantNew")
    <3>1. InFlight' = InFlight /\ free' = free
      BY <1>8, <2>2, SameInFlight DEF Refused, Moves, Entered
    <3> QED
      BY <3>1, CountStays
  <2> QED
    BY <1>8, <2>1, <2>2 DEF Refused, Results
<1>9. CASE Wakes(c)
  <2>1. \E p \in Entered : pc' = [pc EXCEPT ![c] = p]
    BY <1>9, AuthorizeSends DEF Wakes, Entered
  <2>2. InFlight' = InFlight /\ free' = free
    BY <1>9, <2>1, SameInFlight DEF Wakes, Entered
  <2> QED
    BY <2>2, CountStays
<1>10. CASE Cancel(c)
  BY <1>10, CountStays DEF Cancel, InFlight
<1> QED
  BY <1>1, <1>2, <1>3, <1>4, <1>5, <1>6, <1>7, <1>8, <1>9, <1>10 DEF RequestStep

\* The rest of the system takes no slot, and only admits requests.
LEMMA OtherInFlight ==
  ASSUME Typed, OtherStep
  PROVE  /\ UNCHANGED <<free, lock, kind, issued, seen, count, result, met>>
         /\ \A c \in Calls : pc'[c] = pc[c] \/ (pc[c] = "sending" /\ pc'[c] = "served")
         /\ InFlight' = InFlight
<1>1. UNCHANGED <<free, lock, kind, issued, seen, count, result, met>>
  BY DEF OtherStep, MarkClosed, CancelRunning, StartDrain, Drained, ShutTransport, Revoke,
         ChangePassword, Ages, session
<1>2. \A c \in Calls : pc'[c] = pc[c] \/ (pc[c] = "sending" /\ pc'[c] = "served")
  <2>1. CASE Revoke \/ ChangePassword
    BY <2>1, OnlyAdmits
  <2>2. CASE ~Revoke /\ ~ChangePassword
    <3>1. pc' = pc
      BY <2>2
      DEF OtherStep, MarkClosed, CancelRunning, StartDrain, Drained, ShutTransport, Ages
    <3> QED
      BY <3>1
  <2> QED
    BY <2>1, <2>2
<1>3. InFlight' = InFlight
  BY <1>2 DEF InFlight, Entered
<1> QED
  BY <1>1, <1>2, <1>3

LEMMA RequestLocked ==
  ASSUME Typed, Locked, NEW c \in Calls, RequestStep(c)
  PROVE  Locked'
<1> USE Assumptions
<1>1. CASE Leaves(c)
  BY <1>1 DEF Leaves, End, Locked, Typed, Signing
<1>2. CASE GoesOn(c)
  BY <1>2 DEF GoesOn, Moves, session, Locked, Typed, Signing
<1>3. CASE Queues(c)
  BY <1>3 DEF Queues, Moves, session, Locked, Typed, Signing
<1>4. CASE TakeSlot(c)
  BY <1>4, AuthorizeSends DEF TakeSlot, session, Locked, Typed, Signing
<1>5. CASE ObtainSession(c)
  BY <1>5, AuthorizeSends DEF ObtainSession, Locked, Typed, Signing
<1>6. CASE Renew(c)
  BY <1>6, AuthorizeSends DEF Renew, Locked, Typed, Signing
<1>7. CASE SignsIn(c)
  BY <1>7 DEF SignsIn, Moves, Locked, Typed, Signing
<1>8. CASE Refused(c)
  BY <1>8 DEF Refused, End, Moves, Locked, Typed, Signing
<1>9. CASE Wakes(c)
  BY <1>9, AuthorizeSends DEF Wakes, session, Locked, Typed, Signing
<1>10. CASE Cancel(c)
  BY <1>10 DEF Cancel, session, Locked
<1> QED
  BY <1>1, <1>2, <1>3, <1>4, <1>5, <1>6, <1>7, <1>8, <1>9, <1>10 DEF RequestStep

LEMMA OtherLocked == ASSUME Typed, Locked, OtherStep PROVE Locked'
  BY OtherInFlight DEF Locked, Signing

-----------------------------------------------------------------------------
(* What requests saw refused.                                              *)

\* A request that a step leaves alone, or that is admitted or leaves.
LEMMA KeepsFresh ==
  ASSUME Typed, NEW d \in Calls, Fresh(d),
         pc'[d] = pc[d] \/ pc'[d] \in {"done", "served", "login", "release"},
         seen'[d] = seen[d], met'[d] = met[d], kind' = kind, issued' \in Nat, issued <= issued'
  PROVE  Fresh(d)'
<1>1. \A t \in met[d] : t \in Nat /\ (t < issued => t < issued')
  BY DEF Typed
<1> QED
  BY <1>1 DEF Fresh, Static

\* A request that is given the session that is held.
LEMMA AuthorizedFresh ==
  ASSUME Typed, LastIsHeld, NEW c \in Calls, Authorize(c), met' = met, kind' = kind,
         issued' = issued, Static => met[c] = {}, \A t \in met[c] : t < issued
  PROVE  Fresh(c)'
<1>1. CASE Static
  BY <1>1 DEF Authorize, Fresh, Static, Typed
<1>2. CASE ~Static /\ Usable
  <2>1. pc'[c] = "sending" /\ seen'[c] = held /\ held = issued /\ held # 0
    BY <1>2 DEF Authorize, Usable, LastIsHeld, Typed
  <2> QED
    BY <1>2, <2>1 DEF Fresh, Static
<1>3. CASE ~Static /\ ~Usable
  <2>1. pc'[c] = "wantSession"
    BY <1>3 DEF Authorize, Typed
  <2> QED
    BY <1>3, <2>1 DEF Fresh, Static
<1> QED
  BY <1>1, <1>2, <1>3

LEMMA OthersFresh ==
  ASSUME Typed, NEW c \in Calls, NEW d \in Calls \ {c}, Fresh(d), kind' = kind,
         issued' \in {issued, issued + 1},
         \E p : pc' = [pc EXCEPT ![c] = p],
         seen' = seen \/ \E t : seen' = [seen EXCEPT ![c] = t],
         met' = met \/ \E ts : met' = [met EXCEPT ![c] = ts]
  PROVE  Fresh(d)'
<1>1. pc'[d] = pc[d] /\ seen'[d] = seen[d] /\ met'[d] = met[d]
  BY DEF Typed
<1>2. issued' \in Nat /\ issued <= issued'
  BY DEF Typed
<1> QED
  BY <1>1, <1>2, KeepsFresh

LEMMA RequestFresh ==
  ASSUME Typed, Renewed, NEW c \in Calls, RequestStep(c)
  PROVE  Fresh(c)'
<1>t. /\ \A t \in met[c] : t \in Nat /\ t <= issued
      /\ issued \in Nat /\ seen[c] \in Nat /\ seen[c] <= issued
  BY DEF Typed
<1>f. Fresh(c) /\ LastIsHeld
  BY DEF Renewed
<1>1. CASE Leaves(c)
  BY <1>1, <1>f, <1>t, KeepsFresh DEF Leaves, End, Typed
<1>2. CASE GoesOn(c)
  BY <1>2, <1>f DEF GoesOn, Moves, session, Fresh, Static, Typed, Signing
<1>3. CASE Queues(c)
  BY <1>3, <1>f DEF Queues, Moves, session, Fresh, Static, Typed
<1>4. CASE TakeSlot(c)
  BY <1>4, <1>f, AuthorizedFresh DEF TakeSlot, session, Fresh
<1>5. CASE ObtainSession(c)
  <2>1. CASE Usable
    BY <1>5, <2>1, <1>f, AuthorizedFresh DEF ObtainSession, Fresh
  <2>2. CASE ~Usable
    BY <1>5, <2>2, <1>f, <1>t, KeepsFresh DEF ObtainSession, Typed
  <2> QED
    BY <2>1, <2>2
<1>6. CASE Renew(c)
  <2>1. CASE Replaced(c)
    <3>1. seen[c] < issued
      BY <2>1, <1>f, <1>t DEF Replaced, TokenReplaced, SessionReplaced, LastIsHeld
    <3>2. \A t \in met[c] : t < issued
      BY <1>6, <3>1, <1>f, <1>t DEF Renew, Fresh
    <3> QED
      BY <1>6, <2>1, <3>2, <1>f, AuthorizedFresh DEF Renew, Fresh
  <2>2. CASE ~Replaced(c)
    BY <1>6, <2>2, <1>f, <1>t, KeepsFresh DEF Renew, Typed
  <2> QED
    BY <2>1, <2>2
<1>7. CASE SignsIn(c)
  <2>1. pc'[c] = "sending" /\ seen'[c] = issued + 1 /\ met' = met /\ kind' = kind
    BY <1>7 DEF SignsIn, Moves, Typed
  <2> QED
    BY <2>1, <1>t, <1>f DEF Fresh, Static
<1>8. CASE Refused(c)
  <2>1. CASE pc'[c] = "done"
    <3>1. Static => met'[c] = {}
      BY <1>8, <1>f DEF Refused, Fresh, Typed
    <3>2. kind' = kind
      BY <1>8 DEF Refused
    <3> QED
      BY <2>1, <3>1, <3>2 DEF Fresh, Static
  <2>2. CASE pc'[c] # "done"
    <3>1. ~Static /\ pc'[c] = "wantNew" /\ pc[c] = "sending"
      BY <1>8, <2>2 DEF Refused, End, Moves, Typed
    <3>2. seen' = seen /\ kind' = kind /\ met'[c] = met[c] \cup {seen[c]}
      BY <1>8, <3>1 DEF Refused, Typed
    <3> QED
      BY <3>1, <3>2, <1>f, <1>t DEF Fresh, Static
  <2> QED
    BY <2>1, <2>2
<1>9. CASE Wakes(c)
  <2>1. \A t \in met[c] : t < issued
    BY <1>9, <1>f, <1>t DEF Wakes, Fresh
  <2> QED
    BY <1>9, <2>1, <1>f, AuthorizedFresh DEF Wakes, session, Fresh
<1>10. CASE Cancel(c)
  BY <1>10, <1>f, <1>t, KeepsFresh DEF Cancel, session
<1> QED
  BY <1>1, <1>2, <1>3, <1>4, <1>5, <1>6, <1>7, <1>8, <1>9, <1>10 DEF RequestStep

\* What a step of one request writes.
LEMMA Footprint ==
  ASSUME Typed, NEW c \in Calls, RequestStep(c)
  PROVE  /\ kind' = kind
         /\ issued' \in {issued, issued + 1}
         /\ \E p : pc' = [pc EXCEPT ![c] = p]
         /\ seen' = seen \/ \E t : seen' = [seen EXCEPT ![c] = t]
         /\ met' = met \/ \E ts : met' = [met EXCEPT ![c] = ts]
         /\ result' = result \/ \E r : result' = [result EXCEPT ![c] = r]
         /\ count' = count \/ \E q : count' = [count EXCEPT ![c] = q]<1>1. CASE Leaves(c)
  BY <1>1 DEF Leaves, End
<1>2. CASE GoesOn(c)
  BY <1>2 DEF GoesOn, Moves, session
<1>3. CASE Queues(c)
  BY <1>3 DEF Queues, Moves, session
<1>4. CASE TakeSlot(c)
  BY <1>4 DEF TakeSlot, Authorize, session
<1>5. CASE ObtainSession(c)
  <2>1. count' = count \/ \E q : count' = [count EXCEPT ![c] = q]
    BY <1>5 DEF ObtainSession
  <2>2. seen' = seen \/ \E t : seen' = [seen EXCEPT ![c] = t]
    BY <1>5 DEF ObtainSession, Authorize
  <2> QED
    BY <1>5, <2>1, <2>2 DEF ObtainSession, Authorize
<1>6. CASE Renew(c)
  <2>1. count' = count \/ \E q : count' = [count EXCEPT ![c] = q]
    BY <1>6 DEF Renew
  <2>2. seen' = seen \/ \E t : seen' = [seen EXCEPT ![c] = t]
    BY <1>6 DEF Renew, Authorize
  <2> QED
    BY <1>6, <2>1, <2>2 DEF Renew, Authorize
<1>7. CASE SignsIn(c)
  BY <1>7 DEF SignsIn, Moves
<1>8. CASE Refused(c)
  <2>1. \E ts : met' = [met EXCEPT ![c] = ts]
    BY <1>8 DEF Refused
  <2>2. \E q : count' = [count EXCEPT ![c] = q]
    BY <1>8 DEF Refused, End
  <2>3. result' = result \/ \E r : result' = [result EXCEPT ![c] = r]
    BY <1>8 DEF Refused, End, Moves
  <2> QED
    BY <1>8, <2>1, <2>2, <2>3 DEF Refused, End, Moves
<1>9. CASE Wakes(c)
  BY <1>9 DEF Wakes, Authorize, session
<1>10. CASE Cancel(c)
  <2>1. pc' = [pc EXCEPT ![c] = pc[c]]
    BY <1>10 DEF Cancel, Typed
  <2> QED
    BY <1>10, <2>1 DEF Cancel, session
<1> QED
  BY <1>1, <1>2, <1>3, <1>4, <1>5, <1>6, <1>7, <1>8, <1>9, <1>10 DEF RequestStep

LEMMA RequestRenewed ==
  ASSUME Typed, Renewed, NEW c \in Calls, RequestStep(c)
  PROVE  Renewed'
<1>1. LastIsHeld'
  BY DEF RequestStep, Leaves, GoesOn, Queues, TakeSlot, ObtainSession, Renew, SignsIn, Refused,
         Wakes, Cancel, session, Renewed, LastIsHeld
<1>2. \A d \in Calls \ {c} : Fresh(d)'
  BY Footprint, OthersFresh DEF Renewed
<1>3. Fresh(c)'
  BY RequestFresh
<1> QED
  BY <1>1, <1>2, <1>3 DEF Renewed

LEMMA OtherRenewed == ASSUME Typed, Renewed, OtherStep PROVE Renewed'
<1>1. LastIsHeld'
  BY DEF OtherStep, MarkClosed, CancelRunning, StartDrain, Drained, ShutTransport, Revoke,
         ChangePassword, Ages, session, Renewed, LastIsHeld
<1>2. \A d \in Calls : Fresh(d)'
  BY OtherInFlight, KeepsFresh DEF Renewed, Typed
<1> QED
  BY <1>1, <1>2 DEF Renewed

-----------------------------------------------------------------------------
(* How many sessions a request saw refused.                                *)

LEMMA MetFinite ==
  ASSUME Typed, NEW c \in Calls
  PROVE  IsFiniteSet(met[c]) /\ Cardinality(met[c]) \in Nat
<1>1. met[c] \subseteq 1..issued
  BY DEF Typed
<1>2. IsFiniteSet(1..issued)
  BY FS_Interval DEF Typed
<1> QED
  BY <1>1, <1>2, FS_Subset, FS_CardinalityType

LEMMA RequestTallied ==
  ASSUME Typed, Renewed, \A d \in Calls : Tallied(d), NEW c \in Calls, RequestStep(c)
  PROVE  Tallied(c)'
<1>f. Tallied(c) /\ Fresh(c)
  BY DEF Renewed
<1>1. CASE Leaves(c)
  BY <1>1, <1>f DEF Leaves, End, Tallied, Typed, Entered
<1>2. CASE GoesOn(c)
  <2>1. /\ pc[c] \in Entered /\ pc'[c] \in Entered /\ met' = met /\ result' = result
        /\ count'[c].reauths = count[c].reauths
    BY <1>2 DEF GoesOn, Moves, Typed, Signing, Entered
  <2> QED
    BY <2>1, <1>f DEF Tallied, Entered
<1>3. CASE Queues(c)
  BY <1>3, <1>f DEF Queues, Moves, Tallied, Typed, Entered
<1>4. CASE TakeSlot(c)
  <2>1. /\ pc'[c] \in {"sending", "wantSession"} /\ met' = met /\ count' = count
        /\ result' = result /\ met[c] = {}
    BY <1>4, <1>f, AuthorizeSends DEF TakeSlot, Typed, Fresh
  <2>2. Cardinality(met[c]) = 0
    BY <2>1, FS_EmptySet
  <2> QED
    BY <1>4, <2>1, <2>2, <1>f DEF TakeSlot, Tallied, Entered
<1>5. CASE ObtainSession(c)
  <2>1. /\ pc'[c] \in Entered /\ pc[c] \in Entered /\ pc'[c] \notin {"idle", "slot", "done"}
        /\ met' = met /\ result' = result
    BY <1>5, AuthorizeSends DEF ObtainSession, Typed, Entered
  <2>2. count'[c].reauths = count[c].reauths
    BY <1>5 DEF ObtainSession, Typed, CountRow
  <2> QED
    BY <2>1, <2>2, <1>f DEF Tallied, Entered
<1>6. CASE Renew(c)
  <2>1. /\ pc'[c] \in Entered /\ pc[c] \in Entered /\ pc'[c] \notin {"idle", "slot", "done"}
        /\ met' = met /\ result' = result
    BY <1>6, AuthorizeSends DEF Renew, Typed, Entered
  <2>2. count'[c].reauths = count[c].reauths
    BY <1>6 DEF Renew, Typed, CountRow
  <2> QED
    BY <2>1, <2>2, <1>f DEF Tallied, Entered
<1>7. CASE SignsIn(c)
  <2>1. /\ pc'[c] = "sending" /\ pc[c] \in Entered /\ met' = met /\ result' = result
    BY <1>7 DEF SignsIn, Moves, Typed, Entered
  <2>2. count'[c].reauths = count[c].reauths
    BY <1>7 DEF SignsIn, Typed, CountRow
  <2> QED
    BY <2>1, <2>2, <1>f DEF Tallied, Entered
<1>8. CASE Refused(c)
  <2>1. CASE Static
    <3>1. pc'[c] = "done" /\ result'[c] = "refused"
      BY <1>8, <2>1 DEF Refused, End, Typed
    <3> QED
      BY <3>1 DEF Tallied, Entered
  <2>2. CASE ~Static
    <3>1. /\ met'[c] = met[c] \cup {seen[c]} /\ seen[c] \notin met[c]
          /\ Cardinality(met[c]) = count[c].reauths /\ result[c] # "exhausted"
      <4>1. seen[c] \notin met[c]
        BY <1>8, <1>f DEF Refused, Fresh, Typed
      <4> QED
        BY <1>8, <2>2, <4>1, <1>f DEF Refused, Typed, Tallied, Entered
    <3>2. Cardinality(met'[c]) = count[c].reauths + 1
      BY <3>1, MetFinite, FS_AddElement
    <3>3. CASE pc'[c] = "wantNew"
      <4> DEFINE q == [count[c] EXCEPT !.reauths = @ + 1]
      <4>1. q.reauths = count[c].reauths + 1
        BY DEF Typed, CountRow
      <4>2. count' = [count EXCEPT ![c] = q] /\ result' = result
        BY <1>8, <3>3 DEF Refused, End, Moves, Typed
      <4> HIDE DEF q
      <4>3. count'[c].reauths = count[c].reauths + 1
        BY <4>1, <4>2 DEF Typed
      <4> QED
        BY <3>1, <3>2, <3>3, <4>2, <4>3 DEF Tallied
    <3>4. CASE pc'[c] # "wantNew"
      <4>1. pc'[c] = "done" /\ (result'[c] = "exhausted" => count[c].reauths >= MaxReauth)
        BY <1>8, <2>2, <3>4 DEF Refused, End, Moves, Typed
      <4>2. count[c].reauths \in 0..MaxReauth
        BY DEF Typed, CountRow
      <4> QED
        BY <3>2, <4>1, <4>2, Assumptions DEF Tallied, Entered
    <3> QED
      BY <3>3, <3>4
  <2> QED
    BY <2>1, <2>2
<1>9. CASE Wakes(c)
  <2>1. /\ pc'[c] \in {"sending", "wantSession"} /\ met' = met /\ count' = count
        /\ result' = result
    BY <1>9, AuthorizeSends DEF Wakes, Typed
  <2> QED
    BY <1>9, <2>1, <1>f DEF Wakes, Tallied, Entered
<1>10. CASE Cancel(c)
  BY <1>10, <1>f DEF Cancel, Tallied
<1> QED
  BY <1>1, <1>2, <1>3, <1>4, <1>5, <1>6, <1>7, <1>8, <1>9, <1>10 DEF RequestStep
Tallies == \A c \in Calls : Tallied(c)

LEMMA RequestTallies ==
  ASSUME Typed, Renewed, Tallies, NEW c \in Calls, RequestStep(c)
  PROVE  Tallies'
<1>1. Tallied(c)'
  BY RequestTallied DEF Tallies
<1>2. ASSUME NEW d \in Calls \ {c}
      PROVE  Tallied(d)'
  <2>1. pc'[d] = pc[d] /\ met'[d] = met[d] /\ result'[d] = result[d] /\ count'[d] = count[d]
    BY Footprint DEF Typed
  <2> QED
    BY <2>1 DEF Tallies, Tallied
<1> QED
  BY <1>1, <1>2 DEF Tallies

LEMMA OtherTallies == ASSUME Typed, Tallies, OtherStep PROVE Tallies'
  BY OtherInFlight DEF Tallies, Tallied, Entered

-----------------------------------------------------------------------------
(* The requests that were in flight when the client was closed.            *)

\* Nobody who is done, or was in flight, is in flight anew.
LEMMA RequestAwaited ==
  ASSUME Typed, Awaited, NEW c \in Calls, RequestStep(c)
  PROVE  Awaited'
<1>1. UNCHANGED closing
  BY DEF RequestStep, Leaves, GoesOn, Queues, TakeSlot, ObtainSession, Renew, SignsIn, Refused,
         Wakes, Cancel
<1>2. \A d \in Calls \ {c} : pc'[d] = pc[d]
  BY Footprint DEF Typed
<1>3. \/ pc'[c] \in Entered /\ pc[c] \in Entered \cup {"slot"}
      \/ pc'[c] = "slot" /\ pc[c] = "idle"
      \/ pc'[c] = "done"
      \/ pc'[c] = pc[c]
  <2>1. CASE Leaves(c) \/ Refused(c) \/ SignsIn(c)
    BY <2>1 DEF Leaves, Refused, SignsIn, End, Moves, Typed, Entered
  <2>2. CASE GoesOn(c) \/ Queues(c) \/ Cancel(c)
    BY <2>2 DEF GoesOn, Queues, Cancel, Moves, Typed, Signing, Entered
  <2>3. CASE TakeSlot(c) \/ Wakes(c)
    BY <2>3, AuthorizeSends DEF TakeSlot, Wakes, Typed, Entered
  <2>4. CASE ObtainSession(c)
    BY <2>4, AuthorizeSends DEF ObtainSession, Typed, Entered
  <2>5. CASE Renew(c)
    BY <2>5, AuthorizeSends DEF Renew, Typed, Entered
  <2> QED
    BY <2>1, <2>2, <2>3, <2>4, <2>5 DEF RequestStep
<1>4. \A d \in early : pc'[d] \in Entered \cup {"done"} /\ (d \in InFlight' => d \in InFlight)
  BY <1>2, <1>3 DEF Awaited, InFlight, Typed, Entered
<1> QED
  BY <1>1, <1>4 DEF Awaited, closing

LEMMA OtherAwaited ==
  ASSUME Typed, Awaited, OtherStep
  PROVE  Awaited'
<1>1. InFlight' = InFlight /\ \A c \in Calls : pc[c] \in Entered => pc'[c] \in Entered
  BY OtherInFlight DEF Entered
<1>2. \A c \in Calls : pc[c] = "done" => pc'[c] = "done"
  BY OtherInFlight
<1>3. CASE MarkClosed
  <2>1. early' = InFlight /\ phase' = "closed" /\ pc' = pc
    BY <1>3 DEF MarkClosed
  <2> QED
    BY <2>1 DEF Awaited, InFlight
<1>4. CASE StartDrain
  <2>1. waits' = InFlight /\ phase' = "draining" /\ early' = early
    BY <1>4 DEF StartDrain
  <2> QED
    BY <1>1, <1>2, <2>1 DEF Awaited, Typed
<1>5. CASE Drained
  <2>1. early' = early /\ phase' \in {"releasing", "shut"}
    BY <1>5 DEF Drained
  <2>2. early \cap InFlight = {}
    BY <1>5 DEF Drained, NobodyRuns, Idle, Gathered, Awaited
  <2> QED
    BY <1>1, <1>2, <2>1, <2>2 DEF Awaited, Typed
<1>6. CASE ShutTransport
  <2>1. early' = early /\ phase' = "shut" /\ phase = "releasing"
    BY <1>6 DEF ShutTransport
  <2> QED
    BY <1>1, <1>2, <2>1 DEF Awaited, Typed
<1>7. CASE CancelRunning \/ Revoke \/ ChangePassword \/ Ages
  <2>1. UNCHANGED closing
    BY <1>7 DEF CancelRunning, Revoke, ChangePassword, Ages
  <2> QED
    BY <1>1, <1>2, <2>1 DEF Awaited, Typed, closing
<1> QED
  BY <1>3, <1>4, <1>5, <1>6, <1>7 DEF OtherStep

-----------------------------------------------------------------------------
(* The invariant, and the properties it gives.                             *)

SessionInv == Typed /\ Counted /\ Locked /\ Renewed /\ Tallies /\ Awaited

LEMMA InvInit == Init => SessionInv
<1> SUFFICES ASSUME Init PROVE SessionInv
  OBVIOUS
<1>1. Typed
  BY InitTyped
<1>2. InFlight = {} /\ free = MaxConcurrency
  BY DEF Init, InFlight, Entered
<1>3. Counted
  BY <1>2, FS_EmptySet, Assumptions DEF Counted
<1>4. Locked
  BY Assumptions DEF Init, Locked, Signing
<1>5. Renewed
  BY DEF Init, Renewed, LastIsHeld, Fresh
<1>6. Tallies
  BY DEF Init, Tallies, Tallied, NoCount, Entered
<1>7. Awaited
  BY DEF Init, Awaited
<1> QED
  BY <1>1, <1>3, <1>4, <1>5, <1>6, <1>7 DEF SessionInv

LEMMA InvNext == SessionInv /\ [Next]_vars => SessionInv'
<1> SUFFICES ASSUME SessionInv, [Next]_vars PROVE SessionInv'
  OBVIOUS
<1>1. ASSUME NEW c \in Calls, Start(c) \/ Proceeds(c) \/ Cancel(c)
      PROVE  SessionInv'
  <2>1. RequestStep(c)
    BY <1>1, RequestSteps DEF SessionInv
  <2>2. pc[c] = "sending" /\ ~Static => seen[c] # 0
    BY DEF SessionInv, Renewed, Fresh
  <2> QED
    BY <2>1, <2>2, RequestTyped, RequestCounted, RequestLocked, RequestRenewed, RequestTallies,
       RequestAwaited DEF SessionInv
<1>2. CASE OtherStep
  <2>1. Counted'
    BY <1>2, OtherInFlight, CountStays DEF SessionInv
  <2> QED
    BY <1>2, <2>1, OtherTyped, OtherLocked, OtherRenewed, OtherTallies, OtherAwaited
    DEF SessionInv
<1>3. CASE UNCHANGED vars
  <2>1. Typed' /\ InFlight' = InFlight /\ free' = free
    BY <1>3 DEF vars, appliance, session, closing, SessionInv, Typed, InFlight
  <2>2. Locked' /\ Renewed' /\ Tallies' /\ Awaited'
    BY <1>3
    DEF vars, appliance, session, closing, SessionInv, Locked, Renewed, LastIsHeld, Fresh, Static,
        Tallies, Tallied, Awaited, InFlight
  <2> QED
    BY <2>1, <2>2, CountStays DEF SessionInv
<1> QED
  BY <1>1, <1>2, <1>3, Steps

LEMMA Always == Spec => []SessionInv
  BY InvInit, InvNext, PTL DEF Spec

\* Every reachable state is well typed: no request frees a slot it did not take,
\* so the semaphore never exceeds its capacity (upstream_control.py).
THEOREM SessionTypeOK == Spec => []TypeOK
<1>1. SessionInv => TypeOK
  <2> SUFFICES ASSUME SessionInv PROVE TypeOK
    OBVIOUS
  <2>1. free \in 0..MaxConcurrency
    BY InFlightFinite, Assumptions DEF SessionInv, Typed, Counted
  <2> QED
    BY <2>1 DEF SessionInv, Typed, TypeOK, Places, CountRow, Results
<1> QED
  BY <1>1, Always, PTL

\* Slots and lock are accounted for whichever way requests end
\* (vcf/client.py:284).
THEOREM SlotsAndLockAlwaysAccounted == Spec => []SlotsAndLockAccounted
<1>1. SessionInv => SlotsAndLockAccounted
  BY DEF SessionInv, Counted, Locked, Signing, SlotsAndLockAccounted
<1> QED
  BY <1>1, Always, PTL

\* Who gives up has seen MaxReauth + 1 sessions refused, and no request sends a
\* session again that it saw refused (vcf/client.py:249).
THEOREM ExhaustionAlwaysNeedsTwoSessions == Spec => []ExhaustionNeedsTwoSessions
<1>1. SessionInv => ExhaustionNeedsTwoSessions
  <2> SUFFICES ASSUME SessionInv, NEW c \in Calls
               PROVE  /\ pc[c] = "sending" => seen[c] \notin met[c]
                      /\ result[c] = "exhausted" => Cardinality(met[c]) = MaxReauth + 1
    BY DEF ExhaustionNeedsTwoSessions
  <2>1. seen[c] \in Nat
    BY DEF SessionInv, Typed
  <2> QED
    BY <2>1 DEF SessionInv, Renewed, Fresh, Tallies, Tallied
<1> QED
  BY <1>1, Always, PTL

\* The requests in flight at the closing end before the session is released and
\* the transport is closed (vcf/client.py:493).
THEOREM TransportAlwaysOutlivesItsRequests == Spec => []TransportOutlivesItsRequests
<1>1. SessionInv => TransportOutlivesItsRequests
  BY DEF SessionInv, Awaited, TransportOutlivesItsRequests
<1> QED
  BY <1>1, Always, PTL
-----------------------------------------------------------------------------
(* The refinement of SessionToken.                                         *)

LEMMA TokenStarts == Init => Token!TokenInit
<1> SUFFICES ASSUME Init PROVE Token!TokenInit
  OBVIOUS
<1>1. Spent = {}
  BY DEF Init, Spent
<1> QED
  BY <1>1 DEF Init, Token!TokenInit

\* What a request saw refused is spent.
LEMMA MetIsSpent ==
  ASSUME NEW c \in Calls, NEW t \in met[c]
  PROVE  t \in Spent
  BY DEF Spent

LEMMA RequestImplementsToken ==
  ASSUME SessionInv, NEW c \in Calls, RequestStep(c)
  PROVE  [Token!TokenNext]_Token!tokenVars
<1> USE Assumptions
<1>1. CASE Leaves(c)
  <2>1. held' = held /\ issued' = issued /\ Spent' = Spent
    BY <1>1 DEF Leaves, Spent
  <2>2. lock' = lock \/ (lock = c /\ lock' = NoCall)
    BY <1>1 DEF Leaves, End
  <2> QED
    BY <2>1, <2>2 DEF Token!TokenNext, Token!SignInEnds, Token!tokenVars
<1>2. CASE GoesOn(c) \/ Queues(c) \/ TakeSlot(c) \/ Wakes(c) \/ Cancel(c)
  <2>1. UNCHANGED session /\ met' = met
    BY <1>2 DEF GoesOn, Queues, TakeSlot, Wakes, Cancel
  <2> QED
    BY <2>1 DEF session, Spent, Token!tokenVars
<1>3. CASE ObtainSession(c)
  <2>1. held' = held /\ issued' = issued /\ Spent' = Spent
    BY <1>3 DEF ObtainSession, Spent
  <2>2. CASE Usable
    BY <1>3, <2>1, <2>2 DEF ObtainSession, Token!tokenVars
  <2>3. CASE ~Usable
    <3>1. held = 0 \/ held \in Spent
      BY <2>3 DEF Usable, Spent
    <3> QED
      BY <1>3, <2>1, <2>3, <3>1 DEF ObtainSession, Token!TokenNext, Token!SignIn
  <2> QED
    BY <2>2, <2>3
<1>4. CASE Renew(c)
  <2>1. issued' = issued /\ Spent' = Spent /\ held' \in {held, 0} /\ lock = NoCall
    BY <1>4 DEF Renew, Spent
  <2>2. CASE Replaced(c)
    BY <1>4, <2>1, <2>2 DEF Renew, Token!tokenVars
  <2>3. CASE ~Replaced(c)
    <3>1. seen[c] \in Spent
      BY <1>4, MetIsSpent DEF Renew, SessionInv, Renewed, Fresh
    <3>2. held = 0 \/ held = seen[c]
      BY <2>3 DEF Replaced, TokenReplaced, SessionReplaced, SessionInv, Renewed, LastIsHeld
    <3>3. lock' = c
      BY <1>4, <2>3 DEF Renew
    <3> QED
      BY <2>1, <3>1, <3>2, <3>3 DEF Token!TokenNext, Token!SignIn
  <2> QED
    BY <2>2, <2>3
<1>5. CASE SignsIn(c)
  <2>1. lock = c
    BY <1>5 DEF SignsIn, SessionInv, Locked, Signing
  <2>2. Spent' = Spent
    BY <1>5 DEF SignsIn, Spent
  <2> QED
    BY <1>5, <2>1, <2>2 DEF SignsIn, Token!TokenNext, Token!SignedIn
<1>6. CASE Refused(c)
  <2>1. held' = held /\ issued' = issued /\ aged' = aged
    BY <1>6 DEF Refused
  <2>2. lock' = lock
    BY <1>6 DEF Refused, End, SessionInv, Locked, Signing
  <2>3. CASE Static
    <3>1. met' = met
      BY <1>6, <2>3 DEF Refused, SessionInv, Typed
    <3> QED
      BY <2>1, <2>2, <3>1 DEF Spent, Token!tokenVars
  <2>4. CASE ~Static
    <3>1. seen[c] \in 1..issued
      BY <1>6, <2>4 DEF Refused, SessionInv, Typed, Renewed, Fresh
    <3>2. \A d \in Calls : met'[d] = IF d = c THEN met[d] \cup {seen[c]} ELSE met[d]
      BY <1>6, <2>4 DEF Refused, SessionInv, Typed
    <3>3. Spent' = Spent \cup {seen[c]}
      BY <2>1, <3>2 DEF Spent
    <3> QED
      BY <2>1, <2>2, <3>1, <3>3 DEF Token!TokenNext, Token!Spend
  <2> QED
    BY <2>3, <2>4
<1> QED
  BY <1>1, <1>2, <1>3, <1>4, <1>5, <1>6 DEF RequestStep

LEMMA OtherImplementsToken ==
  ASSUME SessionInv, OtherStep
  PROVE  [Token!TokenNext]_Token!tokenVars
<1>1. issued' = issued /\ lock' = lock /\ met' = met
  BY OtherInFlight DEF SessionInv
<1>2. CASE Ages
  <2>1. held' = held /\ held \in 1..issued /\ Spent' = Spent \cup {held}
    BY <1>1, <1>2 DEF Ages, Usable, Spent, SessionInv, Typed
  <2> QED
    BY <1>1, <2>1 DEF Token!TokenNext, Token!Spend
<1>3. CASE ~Ages
  <2>1. held' \in {held, 0} /\ Spent' = Spent
    BY <1>1, <1>3
    DEF OtherStep, MarkClosed, CancelRunning, StartDrain, Drained, ShutTransport, Revoke,
        ChangePassword, session, Spent
  <2> QED
    BY <1>1, <2>1 DEF Token!TokenNext, Token!SignOut, Token!tokenVars
<1> QED
  BY <1>2, <1>3

\* The client implements the session it promises: one call at a time signs in,
\* and only for a session that was refused or has expired (vcf/client.py:298,
\* vcenter.py:163, declared_backend.py:204).
THEOREM ClientImplementsToken == Spec => OneSignInPerSpentSession
<1>1. SessionInv /\ [Next]_vars => [Token!TokenNext]_Token!tokenVars
  <2> SUFFICES ASSUME SessionInv, [Next]_vars PROVE [Token!TokenNext]_Token!tokenVars
    OBVIOUS
  <2>1. ASSUME NEW c \in Calls, Start(c) \/ Proceeds(c) \/ Cancel(c)
        PROVE  [Token!TokenNext]_Token!tokenVars
    BY <2>1, RequestSteps, RequestImplementsToken DEF SessionInv
  <2>2. CASE OtherStep
    BY <2>2, OtherImplementsToken
  <2>3. CASE UNCHANGED vars
    BY <2>3 DEF vars, session, Spent, Token!tokenVars
  <2> QED
    BY <2>1, <2>2, <2>3, Steps
<1> QED
  BY <1>1, TokenStarts, Always, PTL DEF Spec, OneSignInPerSpentSession, Token!TokenSpec

-----------------------------------------------------------------------------
(* Nothing waits for ever.                                                 *)

\* Nobody is under way and nothing is being closed.
AtRest == (\A c \in Calls : pc[c] \in {"idle", "done"}) /\ phase \in {"open", "shut"}

LEMMA SomebodyCanGoOn ==
    ASSUME SessionInv
    PROVE  (\E c \in Calls : CanProceed(c)) \/ CanRetire \/ AtRest
<1> SUFFICES ASSUME \A c \in Calls : ~CanProceed(c), ~CanRetire
             PROVE  AtRest
  OBVIOUS
<1>1. Typed /\ Counted /\ Locked
  BY DEF SessionInv
<1>2. \A c \in Calls : pc[c] \in Places /\ pc[c] \notin Entered \ {"wantSession", "wantNew"}
  BY <1>1 DEF CanProceed, Typed
<1>3. lock = NoCall
  <2>1. \A c \in Calls : pc[c] \notin Signing
    BY <1>2 DEF Signing, Entered
  <2> QED BY <1>1, <2>1 DEF Locked, Typed
<1>4. InFlight = {}
  BY <1>2, <1>3 DEF InFlight, CanProceed
<1>5. free > 0
  <2>1. Cardinality(InFlight) = 0
    BY <1>4, FS_EmptySet
  <2> QED BY <1>1, <2>1, SessionAssumption DEF Counted, Typed
<1>6. \A c \in Calls : pc[c] \in {"idle", "done"}
  BY <1>2, <1>4, <1>5 DEF CanProceed, InFlight, Places
<1>7. NobodyRuns
  BY <1>4 DEF NobodyRuns, Idle, Gathered
<1>8. phase \in {"open", "shut"}
  BY <1>1, <1>7 DEF CanRetire, Typed
<1> QED BY <1>6, <1>8 DEF AtRest

\* Requests that hold slots wait for the lock, requests that wait for a slot wait for
\* them, and a drain waits for both; but whoever signs in waits for nobody. So a
\* request or the retirement can always go on until every request that was started
\* has ended and a client that was closed is shut.
THEOREM NothingWaitsForEver ==
    Spec => []((\E c \in Calls : CanProceed(c)) \/ CanRetire \/ AtRest)
BY Always, SomebodyCanGoOn, PTL

-----------------------------------------------------------------------------
(* What is still to be done.                                               *)

\* Reauthentications and rate limits that a request may still meet.
Budget(p, q) ==
    IF p = "done" THEN 0
    ELSE (MaxReauth - q.reauths) + (Max429Retries - q.retries)

\* The way from one of them to the next.
Rank(p) ==
    CASE p = "done" -> 0
      [] p = "served" -> 1
      [] p = "sending" -> 2
      [] p = "exchange" -> 3
      [] p = "exchangeWait" -> 4
      [] p = "login" -> 5 + 2 * Max429Retries
      [] p = "loginWait" -> 6 + 2 * Max429Retries
      [] p = "release" -> 7 + 4 * Max429Retries
      [] p = "wantSession" -> 8 + 4 * Max429Retries
      [] p = "wantNew" -> 9 + 4 * Max429Retries
      [] p = "backoff" -> 10 + 4 * Max429Retries
      [] p = "slot" -> 11 + 4 * Max429Retries
      [] p = "idle" -> 12 + 4 * Max429Retries

\* A sign-in is tried again while its own budget lasts.
Way(p, q) == IF p \in {"login", "loginWait", "exchange", "exchangeWait"}
             THEN Rank(p) + 2 * (Max429Retries - q.tries)
             ELSE Rank(p)

LEMMA RanksAre ==
    /\ Rank("done") = 0 /\ Rank("served") = 1 /\ Rank("sending") = 2
    /\ Rank("exchange") = 3 /\ Rank("exchangeWait") = 4
    /\ Rank("login") = 5 + 2 * Max429Retries /\ Rank("loginWait") = 6 + 2 * Max429Retries
    /\ Rank("release") = 7 + 4 * Max429Retries /\ Rank("wantSession") = 8 + 4 * Max429Retries
    /\ Rank("wantNew") = 9 + 4 * Max429Retries /\ Rank("backoff") = 10 + 4 * Max429Retries
    /\ Rank("slot") = 11 + 4 * Max429Retries /\ Rank("idle") = 12 + 4 * Max429Retries
BY DEF Rank

LEMMA Ways ==
    ASSUME NEW p \in Places, NEW q \in CountRow
    PROVE  /\ Budget(p, q) \in 0..(MaxReauth + Max429Retries)
           /\ Way(p, q) \in 0..(12 + 4 * Max429Retries)
           /\ p # "done" => Way(p, q) > 0
<1>1. /\ MaxReauth \in Nat /\ Max429Retries \in Nat
      /\ q.reauths \in 0..MaxReauth /\ q.retries \in 0..Max429Retries
      /\ q.tries \in 0..Max429Retries
  BY Assumptions DEF CountRow
<1>2. Budget(p, q) \in 0..(MaxReauth + Max429Retries)
  BY <1>1 DEF Budget
<1>3. CASE p \in {"login", "loginWait", "exchange", "exchangeWait"}
  BY <1>1, <1>2, <1>3, RanksAre DEF Way
<1>4. CASE p \notin {"login", "loginWait", "exchange", "exchangeWait"}
  BY <1>1, <1>2, <1>4, RanksAre DEF Way, Places, Entered
<1> QED BY <1>3, <1>4

\* Fewer of them, or the same and a shorter way.
Nearer(p2, q2, p, q) ==
    \/ Budget(p2, q2) < Budget(p, q)
    \/ Budget(p2, q2) = Budget(p, q) /\ Way(p2, q2) < Way(p, q)

LEMMA EndIsNearer ==
    ASSUME NEW p \in Places \ {"done"}, NEW q \in CountRow, NEW q2
    PROVE  Nearer("done", q2, p, q)
<1>1. Way(p, q) > 0 /\ Budget(p, q) \in Nat /\ Way(p, q) \in Nat
  BY Ways, Assumptions
<1>2. Budget("done", q2) = 0 /\ Way("done", q2) = 0
  BY RanksAre DEF Budget, Way
<1> QED BY <1>1, <1>2 DEF Nearer

\* What a step of a request does to what is left of it.
Advances(c) ==
    /\ pc[c] # "done"
    /\ Nearer(pc'[c], count'[c], pc[c], count[c])
    /\ \A d \in Calls \ {c} : pc'[d] = pc[d] /\ count'[d] = count[d]
    /\ doomed' = doomed \ {c} /\ (c \in doomed => pc'[c] = "done")
    /\ UNCHANGED <<phase, events>>

LEMMA EndAdvances ==
    ASSUME Typed, NEW c \in Calls, NEW r, End(c, r), pc[c] # "done", UNCHANGED <<phase, events>>
    PROVE  Advances(c)
<1>1. pc[c] \in Places \ {"done"} /\ count[c] \in CountRow
  BY DEF Typed
<1>2. /\ pc'[c] = "done" /\ doomed' = doomed \ {c}
      /\ \A d \in Calls \ {c} : pc'[d] = pc[d] /\ count'[d] = count[d]
  BY DEF Typed, End
<1>3. Nearer(pc'[c], count'[c], pc[c], count[c])
  BY <1>1, <1>2, EndIsNearer
<1> QED BY <1>2, <1>3 DEF Advances

\* From place to place with the budgets as they are.
LEMMA MoveAdvances ==
    ASSUME Typed, NEW c \in Calls, NEW p \in Places, pc' = [pc EXCEPT ![c] = p],
           c \notin doomed,
           UNCHANGED <<count, doomed, phase, events>>, p # "done", pc[c] # "done",
           Way(p, count[c]) < Way(pc[c], count[c])
    PROVE  Advances(c)
<1>1. pc'[c] = p /\ \A d \in Calls \ {c} : pc'[d] = pc[d] /\ count'[d] = count[d]
  BY DEF Typed
<1>2. Nearer(p, count[c], pc[c], count[c])
  BY DEF Nearer, Budget
<1> QED BY <1>1, <1>2 DEF Advances

\* The same with a new count of tries.
LEMMA SignInAdvances ==
    ASSUME Typed, NEW c \in Calls, NEW p \in Places, pc' = [pc EXCEPT ![c] = p],
           NEW n \in 0..Max429Retries, count' = [count EXCEPT ![c].tries = n],
           c \notin doomed, UNCHANGED <<doomed, phase, events>>, p # "done", pc[c] # "done",
           Way(p, [count[c] EXCEPT !.tries = n]) < Way(pc[c], count[c])
    PROVE  Advances(c)
<1> DEFINE q == [count[c] EXCEPT !.tries = n]
<1>1. count[c] \in CountRow
  BY DEF Typed
<1>2. q.reauths = count[c].reauths /\ q.retries = count[c].retries
  BY <1>1 DEF CountRow
<1>3. count' = [count EXCEPT ![c] = q]
  OBVIOUS
<1>4. Way(p, q) < Way(pc[c], count[c])
  OBVIOUS
<1> HIDE DEF q
<1>5. /\ pc'[c] = p /\ count'[c] = q
      /\ \A d \in Calls \ {c} : pc'[d] = pc[d] /\ count'[d] = count[d]
  BY <1>3 DEF Typed
<1>6. Nearer(p, q, pc[c], count[c])
  BY <1>2, <1>4 DEF Nearer, Budget
<1> QED BY <1>5, <1>6 DEF Advances

LEMMA AuthorizeAdvances ==
    ASSUME Typed, NEW c \in Calls, Authorize(c),
           \/ pc[c] \in {"slot", "backoff", "wantNew"}
           \/ pc[c] = "wantSession" /\ Usable,
           c \notin doomed, UNCHANGED <<count, doomed, phase, events>>
    PROVE  Advances(c)
<1>1. count[c] \in CountRow /\ Max429Retries \in Nat
  BY Assumptions DEF Typed
<1>2. CASE Static \/ Usable
  <2>1. pc' = [pc EXCEPT ![c] = "sending"]
    BY <1>2 DEF Authorize
  <2>2. Way("sending", count[c]) < Way(pc[c], count[c])
    BY <1>1, RanksAre DEF Way
  <2> QED BY <2>1, <2>2, MoveAdvances DEF Places, Entered
<1>3. CASE ~(Static \/ Usable)
  <2>1. pc' = [pc EXCEPT ![c] = "wantSession"]
    BY <1>3 DEF Authorize
  <2>2. Way("wantSession", count[c]) < Way(pc[c], count[c])
    BY <1>1, <1>3, RanksAre DEF Way
  <2> QED BY <1>3, <2>1, <2>2, MoveAdvances DEF Places, Entered
<1> QED BY <1>2, <1>3

\* A step that is counted against one of the two budgets.
LEMMA RetryAdvances ==
    ASSUME Typed, NEW c \in Calls, NEW p \in Places, pc' = [pc EXCEPT ![c] = p],
           p # "done", pc[c] # "done", NEW q \in CountRow, count' = [count EXCEPT ![c] = q],
           c \notin doomed, UNCHANGED <<doomed, phase, events>>,
           q.reauths + q.retries = count[c].reauths + count[c].retries + 1
    PROVE  Advances(c)
<1>1. /\ pc'[c] = p /\ count'[c] = q
      /\ \A d \in Calls \ {c} : pc'[d] = pc[d] /\ count'[d] = count[d]
  BY DEF Typed
<1>2. /\ q.reauths \in Nat /\ q.retries \in Nat
      /\ count[c].reauths \in Nat /\ count[c].retries \in Nat
      /\ MaxReauth \in Nat /\ Max429Retries \in Nat
  BY Assumptions DEF Typed, CountRow
<1>3. Nearer(p, q, pc[c], count[c])
  BY <1>2 DEF Nearer, Budget
<1> QED BY <1>1, <1>3 DEF Advances

\* Only requests inside, or in the queue for a slot, are cancelled.
DoomedRun == \A c \in doomed : pc[c] \in Entered \cup {"slot"}

LEMMA RequestAdvances ==
    ASSUME Typed, DoomedRun, NEW c \in Calls, Start(c) \/ Proceeds(c)
    PROVE  Advances(c)
<1>1. /\ pc[c] \in Places /\ count[c] \in CountRow
      /\ Max429Retries \in Nat /\ MaxReauth \in Nat
  BY Assumptions DEF Typed
<1>0. c \in doomed => Unwinds(c)
  <2>1. c \in doomed => ~Start(c)
    BY DEF Start, DoomedRun, Entered
  <2>2. c \in doomed /\ Proceeds(c) => Unwinds(c)
    BY DEF Proceeds, TakeSlot, ObtainSession, Renew, TokenReleased, SignInRefused,
           SignInLimited, SignInWakes, SignInBreaks, SignInFails, ExchangeStarts, SignsIn,
           Succeeds, Refused, RateLimited, Wakes, Fails, Breaks
  <2> QED BY <2>1, <2>2
<1>2. CASE c \notin doomed /\ Start(c)
  <2>1. CASE \E r \in {"superseded"} : End(c, r)
    BY <1>2, <2>1, EndAdvances DEF Start, closing
  <2>2. CASE Moves(c, "slot") /\ UNCHANGED count
    <3>1. Way("slot", count[c]) < Way(pc[c], count[c])
      BY <1>1, <1>2, RanksAre DEF Way, Start
    <3> QED BY <1>2, <2>2, <3>1, MoveAdvances DEF Start, Moves, closing, Places
  <2> QED BY <1>2, <2>1, <2>2 DEF Start
<1>3. CASE c \notin doomed /\ (TakeSlot(c) \/ Wakes(c))
  BY <1>3, AuthorizeAdvances DEF TakeSlot, Wakes, closing
<1>4. CASE c \notin doomed /\ ObtainSession(c)
  <2>1. CASE Usable
    BY <1>4, <2>1, AuthorizeAdvances DEF ObtainSession, closing
  <2>2. CASE ~Usable
    <3>1. Way("login", [count[c] EXCEPT !.tries = 0]) < Way(pc[c], count[c])
      BY <1>1, <1>4, RanksAre DEF Way, ObtainSession, CountRow
    <3> QED
      BY <1>1, <1>4, <2>2, <3>1, SignInAdvances DEF ObtainSession, closing, Places, Entered
  <2> QED BY <2>1, <2>2
<1>5. CASE c \notin doomed /\ Renew(c)
  <2>1. CASE Replaced(c)
    BY <1>5, <2>1, AuthorizeAdvances DEF Renew, closing
  <2>2. CASE ~Replaced(c)
    <3>1. PICK p \in {"release", "login"} : pc' = [pc EXCEPT ![c] = p]
      BY <1>5, <2>2 DEF Renew
    <3>2. Way(p, [count[c] EXCEPT !.tries = 0]) < Way(pc[c], count[c])
      BY <1>1, <1>5, <3>1, RanksAre DEF Way, Renew, CountRow
    <3>3. /\ count' = [count EXCEPT ![c].tries = 0] /\ UNCHANGED <<doomed, phase, events>>
          /\ pc[c] # "done" /\ c \notin doomed
      BY <1>5, <2>2 DEF Renew, closing
    <3>4. p \in Places /\ p # "done" /\ 0 \in 0..Max429Retries
      BY <1>1, <3>1 DEF Places, Entered
    <3> QED BY <3>1, <3>2, <3>3, <3>4, SignInAdvances
  <2> QED BY <2>1, <2>2
<1>6. CASE c \notin doomed /\ TokenReleased(c)
  <2>1. CASE phase # "shut"
    <3>1. Way("login", count[c]) < Way(pc[c], count[c])
      BY <1>1, <1>6, RanksAre DEF Way, TokenReleased, CountRow
    <3> QED
      BY <1>6, <2>1, <3>1, MoveAdvances DEF TokenReleased, Moves, closing, Places, Entered
  <2>2. CASE phase = "shut"
    BY <1>6, <2>2, EndAdvances DEF TokenReleased, closing
  <2> QED BY <2>1, <2>2
<1>7. CASE \/ SignInRefused(c) \/ SignInBreaks(c) \/ SignInFails(c) \/ Succeeds(c)
           \/ Fails(c) \/ Breaks(c)
  <2>1. pc[c] # "done" /\ (\E r \in Results : End(c, r)) /\ UNCHANGED closing /\ UNCHANGED events
    BY <1>7 DEF SignInRefused, SignInBreaks, SignInFails, SignInStage, Succeeds, Fails, Breaks,
                Results
  <2> QED BY <2>1, EndAdvances DEF closing
<1>8. CASE Unwinds(c)
  <2>1. pc[c] # "done"
    BY <1>8 DEF Unwinds, DoomedRun, Entered
  <2> QED BY <1>8, <2>1, EndAdvances DEF Unwinds, closing
<1>9. CASE c \notin doomed /\ SignInLimited(c)
  <2> DEFINE n == count[c].tries + 1
             q == [count[c] EXCEPT !.tries = n]
  <2>1. n \in 0..Max429Retries /\ count' = [count EXCEPT ![c].tries = n]
    BY <1>1, <1>9 DEF SignInLimited, CountRow, Typed
  <2>2. pc' = [pc EXCEPT ![c] = Pause(pc[c])] /\ UNCHANGED doomed /\ pc[c] \in {"login", "exchange"}
    BY <1>9 DEF SignInLimited, Moves, SignInStage
  <2>3. q.tries = n /\ count[c].tries \in 0..Max429Retries
    BY <1>1 DEF CountRow
  <2>4. Way(Pause(pc[c]), q) < Way(pc[c], count[c])
    BY <1>1, <2>1, <2>2, <2>3, RanksAre DEF Way, Pause
  <2> HIDE DEF n
  <2> QED
    BY <1>9, <2>1, <2>2, <2>4, SignInAdvances
    DEF SignInLimited, Pause, closing, Places, Entered
<1>10. CASE c \notin doomed /\ SignInWakes(c)
  <2> DEFINE p == IF pc[c] = "loginWait" THEN "login" ELSE "exchange"
  <2>1. pc' = [pc EXCEPT ![c] = p] /\ UNCHANGED <<count, doomed, phase, events>>
        /\ c \notin doomed
    BY <1>10 DEF SignInWakes, Moves, closing
  <2>2. Way(p, count[c]) < Way(pc[c], count[c])
    BY <1>1, <1>10, RanksAre DEF SignInWakes, Way, CountRow
  <2>3. p \in Places /\ p # "done" /\ pc[c] # "done"
    BY <1>10 DEF SignInWakes, Places, Entered
  <2> HIDE DEF p
  <2> QED BY <2>1, <2>2, <2>3, MoveAdvances
<1>11. CASE c \notin doomed /\ ExchangeStarts(c)
  <2>1. Way("exchange", [count[c] EXCEPT !.tries = 0]) < Way(pc[c], count[c])
    BY <1>1, <1>11, RanksAre DEF Way, ExchangeStarts, CountRow
  <2>2. /\ count' = [count EXCEPT ![c].tries = 0] /\ pc' = [pc EXCEPT ![c] = "exchange"]
        /\ UNCHANGED <<doomed, phase, events>> /\ pc[c] # "done" /\ c \notin doomed
    BY <1>11 DEF ExchangeStarts, Moves, closing
  <2>3. "exchange" \in Places /\ 0 \in 0..Max429Retries
    BY <1>1 DEF Places, Entered
  <2> QED BY <2>1, <2>2, <2>3, SignInAdvances
<1>12. CASE c \notin doomed /\ SignsIn(c)
  <2>1. Way("sending", [count[c] EXCEPT !.tries = 0]) < Way(pc[c], count[c])
    BY <1>1, <1>12, RanksAre DEF Way, SignsIn, CountRow
  <2>2. /\ count' = [count EXCEPT ![c].tries = 0] /\ pc' = [pc EXCEPT ![c] = "sending"]
        /\ UNCHANGED <<doomed, phase, events>> /\ pc[c] # "done" /\ c \notin doomed
    BY <1>12 DEF SignsIn, Moves, closing
  <2>3. "sending" \in Places /\ 0 \in 0..Max429Retries
    BY <1>1 DEF Places, Entered
  <2> QED BY <2>1, <2>2, <2>3, SignInAdvances
<1>13. CASE c \notin doomed /\ Refused(c)
  <2>1. CASE \E r \in Results : End(c, r)
    BY <1>13, <2>1, EndAdvances DEF Refused, closing
  <2>2. CASE /\ Moves(c, "wantNew") /\ count' = [count EXCEPT ![c].reauths = @ + 1]
             /\ count[c].reauths < MaxReauth
    <3> DEFINE q == [count[c] EXCEPT !.reauths = @ + 1]
    <3>1. /\ q \in CountRow /\ q.reauths = count[c].reauths + 1
          /\ q.retries = count[c].retries
      BY <1>1, <2>2 DEF CountRow
    <3>2. count' = [count EXCEPT ![c] = q]
      BY <2>2
    <3>3. q.reauths + q.retries = count[c].reauths + count[c].retries + 1
      BY <1>1, <3>1 DEF CountRow
    <3> HIDE DEF q
    <3> QED
      BY <1>13, <2>2, <3>1, <3>2, <3>3, RetryAdvances
      DEF Refused, Moves, closing, Places, Entered
  <2> QED BY <1>13, <2>1, <2>2 DEF Refused, Results
<1>14. CASE c \notin doomed /\ RateLimited(c)
  <2> DEFINE q == [count[c] EXCEPT !.retries = @ + 1]
  <2>1. q \in CountRow /\ q.reauths = count[c].reauths /\ q.retries = count[c].retries + 1
    BY <1>1, <1>14 DEF CountRow, RateLimited
  <2>2. count' = [count EXCEPT ![c] = q]
    BY <1>14 DEF RateLimited
  <2>3. q.reauths + q.retries = count[c].reauths + count[c].retries + 1
    BY <1>1, <2>1 DEF CountRow
  <2> HIDE DEF q
  <2> QED
    BY <1>14, <2>1, <2>2, <2>3, RetryAdvances
    DEF RateLimited, Moves, closing, Places, Entered
<1> QED
  BY <1>0, <1>2, <1>3, <1>4, <1>5, <1>6, <1>7, <1>8, <1>9, <1>10, <1>11, <1>12, <1>13, <1>14
  DEF Proceeds

-----------------------------------------------------------------------------
(* The cancelled are under way.                                            *)

LEMMA CancelledRun == ASSUME SessionInv, DoomedRun, [Next]_vars PROVE DoomedRun'
<1>1. Typed
  BY DEF SessionInv
<1>2. ASSUME NEW c \in Calls, Start(c) \/ Proceeds(c)
      PROVE  DoomedRun'
  <2>1. /\ doomed' = doomed \ {c}
        /\ \A d \in Calls \ {c} : pc'[d] = pc[d]
    BY <1>1, <1>2, RequestAdvances DEF Advances
  <2> QED BY <1>1, <2>1 DEF DoomedRun, Typed
<1>3. ASSUME NEW c \in Calls, Cancel(c)
      PROVE  DoomedRun'
  BY <1>3 DEF Cancel, DoomedRun
<1>4. CASE MarkClosed \/ StartDrain \/ Drained \/ ShutTransport \/ Ages \/ UNCHANGED vars
  BY <1>4 DEF MarkClosed, StartDrain, Drained, ShutTransport, Ages, vars, DoomedRun
<1>5. CASE CancelRunning
  BY <1>5 DEF CancelRunning, InFlight, DoomedRun
<1>6. CASE Revoke \/ ChangePassword
  <2>1. \A c \in Calls : pc'[c] = pc[c] \/ pc'[c] = "served"
    BY <1>1, <1>6, OnlyAdmits
  <2>2. doomed' = doomed /\ doomed \subseteq Calls
    BY <1>1, <1>6 DEF Revoke, ChangePassword, Typed
  <2> QED BY <2>1, <2>2 DEF DoomedRun, Entered
<1> QED BY <1>2, <1>3, <1>4, <1>5, <1>6 DEF Next, Retires

LEMMA AlwaysUnderWay == Spec => [](SessionInv /\ DoomedRun)
<1>1. Init => SessionInv /\ DoomedRun
  BY InvInit DEF Init, DoomedRun
<1>2. SessionInv /\ DoomedRun /\ [Next]_vars => (SessionInv /\ DoomedRun)'
  BY InvNext, CancelledRun
<1> QED BY <1>1, <1>2, PTL DEF Spec

-----------------------------------------------------------------------------
(* Every step counts.                                                      *)

\* Where each request may still come to stand.
RequestMoves ==
    {x \in Calls \X (0..(MaxReauth + Max429Retries)) \X (0..(12 + 4 * Max429Retries)) :
        \/ x[2] < Budget(pc[x[1]], count[x[1]])
        \/ x[2] = Budget(pc[x[1]], count[x[1]]) /\ x[3] <= Way(pc[x[1]], count[x[1]])}

\* Requests that may still be cancelled.
Calm == {c \in Calls : pc[c] # "done" /\ c \notin doomed}

PhasesLeft ==
    CASE phase = "open" -> 4 [] phase = "closed" -> 3 [] phase = "draining" -> 2
      [] phase = "releasing" -> 1 [] phase = "shut" -> 0

ClientMoves == 1..PhasesLeft

Disturbances == (events + 1)..MaxEvents

ToDo == ({"request"} \X RequestMoves) \cup ({"calm"} \X Calm)
        \cup ({"client"} \X ClientMoves) \cup ({"disturbance"} \X Disturbances)

LEMMA RequestMovesShrink ==
    ASSUME Typed, Typed',
           \A c \in Calls : \/ pc'[c] = pc[c] /\ count'[c] = count[c]
                            \/ Nearer(pc'[c], count'[c], pc[c], count[c])
    PROVE  /\ RequestMoves' \subseteq RequestMoves
           /\ (\E c \in Calls : Nearer(pc'[c], count'[c], pc[c], count[c]))
              => RequestMoves' # RequestMoves
<1> DEFINE b(c) == Budget(pc[c], count[c])
           w(c) == Way(pc[c], count[c])
           b2(c) == Budget(pc'[c], count'[c])
           w2(c) == Way(pc'[c], count'[c])
           B == MaxReauth + Max429Retries
           W == 12 + 4 * Max429Retries
<1>1. \A c \in Calls : b(c) \in 0..B /\ w(c) \in 0..W /\ b2(c) \in 0..B /\ w2(c) \in 0..W
  BY Ways DEF Typed
<1>2. \A c \in Calls : \/ b2(c) = b(c) /\ w2(c) = w(c)
                       \/ b2(c) < b(c)
                       \/ b2(c) = b(c) /\ w2(c) < w(c)
  BY DEF Nearer
<1>3. B \in Nat /\ W \in Nat
  BY Assumptions
<1>4. \A x : x \in RequestMoves <=>
               /\ x \in Calls \X (0..B) \X (0..W)
               /\ x[2] < b(x[1]) \/ (x[2] = b(x[1]) /\ x[3] <= w(x[1]))
  BY DEF RequestMoves
<1>5. \A x : x \in RequestMoves' <=>
               /\ x \in Calls \X (0..B) \X (0..W)
               /\ x[2] < b2(x[1]) \/ (x[2] = b2(x[1]) /\ x[3] <= w2(x[1]))
  BY DEF RequestMoves
<1>6. ASSUME NEW c \in Calls, Nearer(pc'[c], count'[c], pc[c], count[c])
      PROVE  <<c, b(c), w(c)>> \in RequestMoves /\ <<c, b(c), w(c)>> \notin RequestMoves'
  <2>1. b2(c) < b(c) \/ (b2(c) = b(c) /\ w2(c) < w(c))
    BY <1>6 DEF Nearer
  <2> HIDE DEF b, w, b2, w2, B, W
  <2> QED BY <1>1, <1>3, <1>4, <1>5, <2>1
<1> HIDE DEF b, w, b2, w2, B, W
<1>7. ASSUME NEW x \in RequestMoves'
      PROVE  x \in RequestMoves
  <2>1. x[1] \in Calls /\ x[2] \in 0..B /\ x[3] \in 0..W
    BY <1>5
  <2> QED BY <1>1, <1>2, <1>3, <1>4, <1>5, <2>1
<1>8. RequestMoves' \subseteq RequestMoves
  BY <1>7
<1> QED BY <1>6, <1>8

\* What a step leaves of each part of the list.
Shrinks ==
    /\ RequestMoves' \subseteq RequestMoves /\ Calm' \subseteq Calm
    /\ ClientMoves' \subseteq ClientMoves /\ Disturbances' \subseteq Disturbances

LEMMA RequestShrinks ==
    ASSUME Typed, Typed', DoomedRun, NEW c \in Calls, Start(c) \/ Proceeds(c)
    PROVE  Shrinks /\ RequestMoves' # RequestMoves
<1>1. Advances(c)
  BY RequestAdvances
<1>2. \A d \in Calls : \/ pc'[d] = pc[d] /\ count'[d] = count[d]
                       \/ Nearer(pc'[d], count'[d], pc[d], count[d])
  BY <1>1 DEF Advances
<1>3. RequestMoves' \subseteq RequestMoves /\ RequestMoves' # RequestMoves
  BY <1>1, <1>2, RequestMovesShrink DEF Advances
<1>4. Calm' \subseteq Calm
  <2>1. \A d \in Calls : pc'[d] # "done" /\ d \notin doomed' => d \notin doomed
    BY <1>1 DEF Advances
  <2>2. \A d \in Calls : pc[d] = "done" => pc'[d] = "done"
    BY <1>1 DEF Advances
  <2> QED BY <2>1, <2>2 DEF Calm
<1>5. ClientMoves' = ClientMoves /\ Disturbances' = Disturbances
  BY <1>1 DEF Advances, ClientMoves, PhasesLeft, Disturbances
<1> QED BY <1>3, <1>4, <1>5 DEF Shrinks

\* What happens to no request in particular.
LEMMA RequestsStay ==
    ASSUME Typed, Typed', UNCHANGED <<pc, count>>
    PROVE  RequestMoves' = RequestMoves
BY DEF RequestMoves

LEMMA EventShrinks ==
    ASSUME Typed, Typed',
           \/ MarkClosed \/ Revoke \/ ChangePassword \/ Ages \/ (\E c \in Calls : Cancel(c))
    PROVE  Shrinks /\ Disturbances' # Disturbances
<1>1. events < MaxEvents /\ events' = events + 1 /\ events \in Nat /\ MaxEvents \in Nat
  BY Assumptions DEF MarkClosed, Revoke, ChangePassword, Ages, Cancel, Typed
<1>2. Disturbances' \subseteq Disturbances
  BY <1>1 DEF Disturbances
<1>3. events + 1 \in Disturbances /\ events + 1 \notin Disturbances'
  BY <1>1 DEF Disturbances
<1>4. ClientMoves' \subseteq ClientMoves
  <2>1. phase' = phase \/ (phase = "open" /\ phase' = "closed")
    BY DEF MarkClosed, Revoke, ChangePassword, Ages, Cancel, closing
  <2>2. \/ PhasesLeft' = PhasesLeft
        \/ PhasesLeft' = 3 /\ PhasesLeft = 4
    BY <2>1 DEF PhasesLeft
  <2>3. 1..3 \subseteq 1..4
    OBVIOUS
  <2> QED BY <2>2, <2>3 DEF ClientMoves
<1>5. RequestMoves' \subseteq RequestMoves /\ Calm' \subseteq Calm
  <2>1. CASE MarkClosed \/ Ages \/ (\E c \in Calls : Cancel(c))
    <3>1. UNCHANGED <<pc, count>> /\ doomed \subseteq doomed'
      BY <2>1 DEF MarkClosed, Ages, Cancel
    <3> QED BY <3>1, RequestsStay DEF Calm
  <2>2. CASE Revoke \/ ChangePassword
    <3>1. \A c \in Calls : pc'[c] = pc[c] \/ (pc[c] = "sending" /\ pc'[c] = "served")
      BY <2>2, OnlyAdmits
    <3>2. UNCHANGED <<count, doomed>>
      BY <2>2 DEF Revoke, ChangePassword
    <3>3. \A c \in Calls : Way("served", count[c]) < Way("sending", count[c])
      BY RanksAre DEF Way
    <3>4. \A c \in Calls : \/ pc'[c] = pc[c] /\ count'[c] = count[c]
                           \/ Nearer(pc'[c], count'[c], pc[c], count[c])
      BY <3>1, <3>2, <3>3 DEF Nearer, Budget
    <3>5. RequestMoves' \subseteq RequestMoves
      BY <3>4, RequestMovesShrink
    <3>6. Calm' \subseteq Calm
      BY <3>1, <3>2 DEF Calm
    <3> QED BY <3>5, <3>6
  <2> QED BY <2>1, <2>2
<1> QED BY <1>2, <1>3, <1>4, <1>5 DEF Shrinks

LEMMA ClosingShrinks ==
    ASSUME Typed, Typed', Retires
    PROVE  Shrinks /\ ClientMoves' # ClientMoves
<1>1. UNCHANGED <<pc, count, doomed, events>>
  BY DEF Retires, StartDrain, Drained, ShutTransport
<1>2. \/ phase = "closed" /\ phase' = "draining"
      \/ phase = "draining" /\ phase' \in {"releasing", "shut"}
      \/ phase = "releasing" /\ phase' = "shut"
  BY DEF Retires, StartDrain, Drained, ShutTransport
<1>3. PhasesLeft' \in Nat /\ PhasesLeft \in Nat /\ PhasesLeft' < PhasesLeft
  BY <1>2 DEF PhasesLeft
<1>4. ClientMoves' \subseteq ClientMoves
  BY <1>3 DEF ClientMoves
<1>5. PhasesLeft \in ClientMoves /\ PhasesLeft \notin ClientMoves'
  BY <1>3 DEF ClientMoves
<1>6. Calm' = Calm /\ Disturbances' = Disturbances
  BY <1>1 DEF Calm, Disturbances
<1> QED BY <1>1, <1>4, <1>5, <1>6, RequestsStay DEF Shrinks

LEMMA CancelShrinks ==
    ASSUME Typed, Typed', CancelRunning
    PROVE  Shrinks /\ Calm' # Calm
<1>1. UNCHANGED <<pc, count, phase, events>> /\ doomed' = doomed \cup InFlight
  BY DEF CancelRunning, closing
<1>2. PICK c \in InFlight : c \notin doomed
  BY DEF CancelRunning
<1>3. c \in Calm /\ c \notin Calm'
  BY <1>1, <1>2 DEF Calm, InFlight, Entered
<1>4. Calm' \subseteq Calm
  BY <1>1 DEF Calm
<1>5. ClientMoves' = ClientMoves /\ Disturbances' = Disturbances
  BY <1>1 DEF ClientMoves, PhasesLeft, Disturbances
<1> QED BY <1>1, <1>3, <1>4, <1>5, RequestsStay DEF Shrinks

LEMMA SomethingIsDone ==
    ASSUME SessionInv, DoomedRun, Next
    PROVE  ToDo' \subseteq ToDo /\ ToDo' # ToDo
<1>1. Typed /\ Typed'
  BY InvNext DEF SessionInv
<1>2. /\ Shrinks
      /\ \/ RequestMoves' # RequestMoves \/ Calm' # Calm
         \/ ClientMoves' # ClientMoves \/ Disturbances' # Disturbances
  BY <1>1, RequestShrinks, EventShrinks, ClosingShrinks, CancelShrinks DEF Next
<1>3. ToDo' \subseteq ToDo
  BY <1>2 DEF Shrinks, ToDo
<1>4. \A x : /\ <<"request", x>> \in ToDo <=> x \in RequestMoves
             /\ <<"calm", x>> \in ToDo <=> x \in Calm
             /\ <<"client", x>> \in ToDo <=> x \in ClientMoves
             /\ <<"disturbance", x>> \in ToDo <=> x \in Disturbances
  BY DEF ToDo
<1>5. \A x : /\ <<"request", x>> \in ToDo' <=> x \in RequestMoves'
             /\ <<"calm", x>> \in ToDo' <=> x \in Calm'
             /\ <<"client", x>> \in ToDo' <=> x \in ClientMoves'
             /\ <<"disturbance", x>> \in ToDo' <=> x \in Disturbances'
  BY DEF ToDo
<1>6. ASSUME RequestMoves' # RequestMoves PROVE ToDo' # ToDo
  <2>1. PICK x : x \in RequestMoves /\ x \notin RequestMoves'
    BY <1>2, <1>6 DEF Shrinks
  <2> QED BY <1>4, <1>5, <2>1
<1>7. ASSUME Calm' # Calm PROVE ToDo' # ToDo
  <2>1. PICK x : x \in Calm /\ x \notin Calm'
    BY <1>2, <1>7 DEF Shrinks
  <2> QED BY <1>4, <1>5, <2>1
<1>8. ASSUME ClientMoves' # ClientMoves PROVE ToDo' # ToDo
  <2>1. PICK x : x \in ClientMoves /\ x \notin ClientMoves'
    BY <1>2, <1>8 DEF Shrinks
  <2> QED BY <1>4, <1>5, <2>1
<1>9. ASSUME Disturbances' # Disturbances PROVE ToDo' # ToDo
  <2>1. PICK x : x \in Disturbances /\ x \notin Disturbances'
    BY <1>2, <1>9 DEF Shrinks
  <2> QED BY <1>4, <1>5, <2>1
<1> QED BY <1>2, <1>3, <1>6, <1>7, <1>8, <1>9

LEMMA TheListIsFinite == ASSUME Typed PROVE IsFiniteSet(ToDo)
<1>1. \A m, n \in Int : IsFiniteSet(m..n)
  BY FS_Interval
<1>2. \A S, T : IsFiniteSet(S) /\ IsFiniteSet(T) => IsFiniteSet(S \X T) /\ IsFiniteSet(S \cup T)
  BY FS_Product, FS_Union
<1> DEFINE B == 0..(MaxReauth + Max429Retries)
           W == 0..(12 + 4 * Max429Retries)
<1>3. IsFiniteSet(B) /\ IsFiniteSet(W)
  BY <1>1, Assumptions
<1>4. IsFiniteSet(RequestMoves)
  <2> DEFINE pairs == Calls \X (B \X W)
             flat == [x \in pairs |-> <<x[1], x[2][1], x[2][2]>>]
             triples == {flat[x] : x \in pairs}
  <2>1. IsFiniteSet(pairs)
    BY <1>2, <1>3, Assumptions
  <2>2. flat \in Surjection(pairs, triples)
    <3>1. flat \in [pairs -> triples]
      OBVIOUS
    <3> HIDE DEF flat, pairs
    <3> QED BY <3>1 DEF Surjection
  <2>3. IsFiniteSet(triples)
    <3> HIDE DEF flat, pairs, triples
    <3> QED BY <2>1, <2>2, FS_Surjection
  <2>4. ASSUME NEW x \in RequestMoves
        PROVE  x \in triples
    <3>1. x \in Calls \X B \X W
      BY DEF RequestMoves
    <3>2. PICK c \in Calls, m \in B, n \in W : x = <<c, m, n>>
      BY <3>1
    <3> HIDE DEF B, W
    <3>3. <<c, <<m, n>>>> \in pairs /\ flat[<<c, <<m, n>>>>] = x
      BY <3>2
    <3> QED BY <3>3
  <2> HIDE DEF triples
  <2> QED BY <2>3, <2>4, FS_Subset
<1>5. IsFiniteSet(Calm)
  BY Assumptions, FS_Subset DEF Calm
<1>6. IsFiniteSet(ClientMoves) /\ IsFiniteSet(Disturbances)
  <2>1. PhasesLeft \in Int /\ events + 1 \in Int /\ MaxEvents \in Int
    BY Assumptions DEF PhasesLeft, Typed
  <2> QED BY <1>1, <2>1 DEF ClientMoves, Disturbances
<1>7. /\ IsFiniteSet({"request"}) /\ IsFiniteSet({"calm"})
      /\ IsFiniteSet({"client"}) /\ IsFiniteSet({"disturbance"})
  BY FS_Singleton
<1> DEFINE r == {"request"} \X RequestMoves
           a == {"calm"} \X Calm
           s == {"client"} \X ClientMoves
           d == {"disturbance"} \X Disturbances
<1>8. IsFiniteSet(r) /\ IsFiniteSet(a) /\ IsFiniteSet(s) /\ IsFiniteSet(d)
  BY <1>2, <1>4, <1>5, <1>6, <1>7
<1>9. ToDo = r \cup a \cup s \cup d
  BY DEF ToDo
<1> HIDE DEF r, a, s, d
<1> QED BY <1>2, <1>8, <1>9

\* Every run is finite: what is still to be done is a finite list, and every step
\* takes something from it. A request is never sent back to where it was without
\* spending a reauthentication or a rate limit, and the budgets are finite. With
\* NothingWaitsForEver: every request ends, and a client that is closed is shut.
THEOREM RunsEnd ==
    Spec => [][/\ Cardinality(ToDo) \in Nat /\ Cardinality(ToDo') \in Nat
               /\ Cardinality(ToDo') < Cardinality(ToDo)]_vars
<1>1. SessionInv /\ DoomedRun /\ [Next]_vars =>
          [/\ Cardinality(ToDo) \in Nat /\ Cardinality(ToDo') \in Nat
           /\ Cardinality(ToDo') < Cardinality(ToDo)]_vars
  <2> SUFFICES ASSUME SessionInv, DoomedRun, Next
               PROVE  /\ Cardinality(ToDo) \in Nat /\ Cardinality(ToDo') \in Nat
                      /\ Cardinality(ToDo') < Cardinality(ToDo)
    OBVIOUS
  <2>1. ToDo' \subseteq ToDo /\ ToDo' # ToDo
    BY SomethingIsDone
  <2>2. IsFiniteSet(ToDo)
    BY TheListIsFinite DEF SessionInv
  <2>3. /\ IsFiniteSet(ToDo') /\ Cardinality(ToDo') <= Cardinality(ToDo)
        /\ Cardinality(ToDo') # Cardinality(ToDo)
    BY <2>1, <2>2, FS_Subset
  <2>4. Cardinality(ToDo) \in Nat /\ Cardinality(ToDo') \in Nat
    BY <2>2, <2>3, FS_CardinalityType
  <2> QED BY <2>3, <2>4
<1> QED BY <1>1, AlwaysUnderWay, PTL DEF Spec
=============================================================================
