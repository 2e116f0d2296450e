------------------------ MODULE BackendPool_proofs -------------------------
(***************************************************************************)
(* Proofs about BackendPool, for any number of calls, admin requests and   *)
(* slots and any bounds.                                                   *)
(***************************************************************************)
EXTENDS BackendPool, SequenceTheorems, TLAPS

Tickets == ({"call", "client"} \X Calls) \cup ({"edit"} \X Edits)
Records == [gen : Nat \ {0}, verifies : BOOLEAN]
Lives == {"none", "open", "draining", "closing", "shut", "settled"}
Modes == {"drain", "cancel", "all"}

\* Places at which a call is in _calls.
Inside == {"auth", "fresh", "checked", "pool", "build", "built", "settle", "slot", "sending",
           "recording"}

CallTypes ==
    /\ pc \in [Calls -> Inside \cup {"idle", "ready", "done"}]
    /\ snap \in [Calls -> Nat]
    /\ using \in [Calls -> Records]
    /\ on \in [Calls -> Calls \cup {NoClient}]
    /\ stale \in [Calls -> Calls \cup {NoClient}]
    /\ write \in [Calls -> {"none", "success", "failure", "written"}]
    /\ result \in [Calls -> {"none", "ok", "auth", "error", "refused", "superseded",
                             "cancelled"}]
    /\ authLock \in Calls \cup {NoClient}

RowTypes ==
    /\ target \in Records
    /\ trust \in Nat
    /\ exists \in BOOLEAN /\ locked \in BOOLEAN /\ accepts \in BOOLEAN
    /\ failures \in Nat

PoolTypes ==
    /\ cached \in Calls \cup {NoClient}
    /\ confirmed \in Nat
    /\ cutoff \in Nat
    /\ client \in [Calls -> [state : Lives, target : Records, trust : Nat]]

EditTypes ==
    /\ step \in [Edits -> {"idle", "committed", "gather", "queued", "settle", "done"}]
    /\ change \in [Edits -> [mode : Modes, gen : Nat, trust : Nat]]
    /\ waits \in [Edits -> SUBSET Calls]
    /\ reported \in Nat /\ severed \in Nat /\ retrusted \in Nat

\* A CancelledError is on its way only to a task that is in the registry.
DoomedAreInside == doomed \subseteq Registered

Typed ==
    /\ CallTypes
    /\ RowTypes
    /\ PoolTypes
    /\ EditTypes
    /\ lock \in Seq(Tickets)
    /\ DoomedAreInside

-----------------------------------------------------------------------------
(* The queue of the pool's lock.                                           *)

LEMMA TicketsAreTyped ==
    /\ \A c \in Calls : CallTicket(c) \in Tickets /\ RetirementTicket(c) \in Tickets
    /\ \A e \in Edits : EditTicket(e) \in Tickets
BY DEF Tickets, CallTicket, RetirementTicket, EditTicket

\* Who joins the queue takes the lock from nobody.
LEMMA JoiningTheQueue ==
    ASSUME NEW queue \in Seq(Tickets), NEW ticket \in Tickets
    PROVE  /\ Append(queue, ticket) \in Seq(Tickets)
           /\ Append(queue, ticket) # <<>>
           /\ queue # <<>> => Head(Append(queue, ticket)) = Head(queue)
BY AppendProperties, HeadTailAppend

\* Who leaves the queue from behind its head leaves the lock where it is.
LEMMA LeavingTheQueue ==
    ASSUME NEW queue \in Seq(Tickets), NEW i \in 1..Len(queue)
    PROVE  LET rest == SubSeq(queue, 1, i - 1) \o SubSeq(queue, i + 1, Len(queue))
           IN  /\ rest \in Seq(Tickets)
               /\ Head(queue) # queue[i] => rest # <<>> /\ Head(rest) = Head(queue)
<1> DEFINE before == SubSeq(queue, 1, i - 1)
<1> DEFINE after == SubSeq(queue, i + 1, Len(queue))
<1>1. Len(queue) \in Nat /\ i \in Int
  BY LenProperties
<1>2. \A j \in 1..Len(queue) : queue[j] \in Tickets
  BY ElementOfSeq
<1>3. before \in Seq(Tickets) /\ Len(before) = i - 1
      /\ \A j \in 1..(i - 1) : before[j] = queue[j]
  <2>1. \A j \in 1..(i - 1) : queue[j] \in Tickets
    BY <1>1, <1>2
  <2>2. 1 \in Int /\ i - 1 \in Int
    BY <1>1
  <2>3. /\ before \in Seq(Tickets)
        /\ Len(before) = IF 1 <= i - 1 THEN (i - 1) - 1 + 1 ELSE 0
        /\ \A j \in 1..((i - 1) - 1 + 1) : before[j] = queue[1 + j - 1]
    BY <2>1, <2>2, SubSeqProperties
  <2> HIDE DEF before
  <2> QED BY <1>1, <2>3
<1>4. after \in Seq(Tickets)
  <2>1. \A j \in (i + 1)..Len(queue) : queue[j] \in Tickets
    BY <1>1, <1>2
  <2> QED BY <1>1, <2>1, SubSeqProperties
<1>5. /\ before \o after \in Seq(Tickets)
      /\ Len(before \o after) = Len(before) + Len(after)
      /\ \A j \in 1..(Len(before) + Len(after)) :
            (before \o after)[j] = IF j <= Len(before) THEN before[j]
                                   ELSE after[j - Len(before)]
  <2> HIDE DEF before, after
  <2> QED BY <1>3, <1>4, ConcatProperties
<1>6. ASSUME Head(queue) # queue[i]
      PROVE  before \o after # <<>> /\ Head(before \o after) = Head(queue)
  <2>1. Head(queue) = queue[1]
    BY DEF Head
  <2>2. i > 1
    BY <1>1, <1>6, <2>1
  <2>3. Len(after) \in Nat
    BY <1>4, LenProperties
  <2> HIDE DEF before, after
  <2>4. Len(before) >= 1 /\ 1 \in 1..(Len(before) + Len(after))
    BY <1>1, <1>3, <2>2, <2>3
  <2>5. (before \o after)[1] = queue[1]
    BY <1>1, <1>3, <1>5, <2>2, <2>4
  <2>6. before \o after # <<>>
    BY <1>5, <2>3, <2>4
  <2>7. Head(before \o after) = (before \o after)[1]
    BY <1>5, <2>6 DEF Head
  <2> QED BY <2>1, <2>5, <2>6, <2>7
<1> QED BY <1>5, <1>6

\* A call that builds a client holds the lock, and no client is cached meanwhile.
Building ==
    \A c \in Calls :
        pc[c] \in {"build", "built"} => Holds(CallTicket(c)) /\ cached = NoClient

\* A call that holds the lock goes on holding it.
Keeps(c) == Holds(CallTicket(c)) => Holds(CallTicket(c))'

\* Only these steps of a call, which are its own, may take the lock from it.
GivesUp(c) == GetCached(c) \/ BuildFails(c) \/ Build(c) \/ Unwind(c)

LEMMA QueueSteps ==
    ASSUME lock \in Seq(Tickets), Building, [Next]_vars
    PROVE  /\ lock' \in Seq(Tickets)
           /\ \A d \in Calls : Keeps(d) \/ GivesUp(d)
<1>1. CASE UNCHANGED lock
  BY <1>1 DEF Keeps, Holds
<1>2. ASSUME NEW ticket \in Tickets, lock' = Append(lock, ticket)
      PROVE  lock' \in Seq(Tickets) /\ \A d \in Calls : Keeps(d)
  BY <1>2, JoiningTheQueue DEF Keeps, Holds
<1>3. ASSUME NEW ticket, Holds(ticket), lock' = Tail(lock)
      PROVE  /\ lock' \in Seq(Tickets)
             /\ \A d \in Calls : Keeps(d) \/ ticket = CallTicket(d)
  BY <1>3, HeadTailProperties DEF Keeps, Holds
<1>4. ASSUME NEW c \in Calls, GetCached(c) \/ BuildFails(c) \/ Build(c)
      PROVE  lock' \in Seq(Tickets) /\ \A d \in Calls : Keeps(d) \/ GivesUp(d)
  <2>1. Holds(CallTicket(c)) /\ lock' = Tail(lock)
    BY <1>4 DEF GetCached, BuildFails, Build, Building
  <2>2. lock' \in Seq(Tickets)
        /\ \A d \in Calls : Keeps(d) \/ CallTicket(c) = CallTicket(d)
    BY <1>3, <2>1
  <2>3. \A d \in Calls : CallTicket(c) = CallTicket(d) => c = d
    BY DEF CallTicket
  <2> QED BY <1>4, <2>2, <2>3 DEF GivesUp
<1>5. ASSUME NEW c \in Calls, Unwind(c)
      PROVE  lock' \in Seq(Tickets) /\ \A d \in Calls : Keeps(d) \/ GivesUp(d)
  <2>1. LeaveQueue(CallTicket(c))
    BY <1>5 DEF Unwind
  <2>2. CASE UNCHANGED lock
    BY <1>1, <2>2
  <2>3. CASE \E i \in 1..Len(lock) :
                /\ lock[i] = CallTicket(c)
                /\ lock' = SubSeq(lock, 1, i - 1) \o SubSeq(lock, i + 1, Len(lock))
    <3>1. PICK i \in 1..Len(lock) :
              /\ lock[i] = CallTicket(c)
              /\ lock' = SubSeq(lock, 1, i - 1) \o SubSeq(lock, i + 1, Len(lock))
      BY <2>3
    <3>2. lock' \in Seq(Tickets)
          /\ (Head(lock) # lock[i] => lock' # <<>> /\ Head(lock') = Head(lock))
      BY <3>1, LeavingTheQueue
    <3>3. \A d \in Calls : d = c \/ CallTicket(d) # CallTicket(c)
      BY DEF CallTicket
    <3>4. \A d \in Calls : Keeps(d) \/ d = c
      BY <3>1, <3>2, <3>3 DEF Keeps, Holds
    <3> QED BY <1>5, <3>2, <3>4 DEF GivesUp
  <2> QED BY <2>1, <2>2, <2>3 DEF LeaveQueue
<1>6. ASSUME NEW e \in Edits, RetireOlder(e)
      PROVE  lock' \in Seq(Tickets) /\ \A d \in Calls : Keeps(d)
  <2>1. Holds(EditTicket(e)) /\ lock' = Tail(lock)
    BY <1>6 DEF RetireOlder
  <2>2. lock' \in Seq(Tickets)
        /\ \A d \in Calls : Keeps(d) \/ EditTicket(e) = CallTicket(d)
    BY <1>3, <2>1
  <2> QED BY <2>2 DEF CallTicket, EditTicket
<1>7. ASSUME NEW k \in Calls, Settle(k)
      PROVE  lock' \in Seq(Tickets) /\ \A d \in Calls : Keeps(d)
  <2>1. Holds(RetirementTicket(k)) /\ lock' = Tail(lock)
    BY <1>7 DEF Settle
  <2>2. lock' \in Seq(Tickets)
        /\ \A d \in Calls : Keeps(d) \/ RetirementTicket(k) = CallTicket(d)
    BY <1>3, <2>1
  <2> QED BY <2>2 DEF CallTicket, RetirementTicket
<1>8. ASSUME NEW c \in Calls, Invoke(c) \/ Checked(c) \/ Shut(c)
      PROVE  lock' \in Seq(Tickets) /\ \A d \in Calls : Keeps(d)
  <2>1. \/ UNCHANGED lock
        \/ lock' = Append(lock, CallTicket(c))
        \/ lock' = Append(lock, RetirementTicket(c))
    BY <1>8 DEF Invoke, Checked, Shut
  <2> QED BY <1>1, <1>2, <2>1, TicketsAreTyped DEF Keeps, Holds
<1>9. ASSUME NEW e \in Edits, Invalidate(e) \/ Gathered(e)
      PROVE  lock' \in Seq(Tickets) /\ \A d \in Calls : Keeps(d)
  <2>1. UNCHANGED lock \/ lock' = Append(lock, EditTicket(e))
    BY <1>9 DEF Invalidate, Gathered
  <2> QED BY <1>1, <1>2, <2>1, TicketsAreTyped DEF Keeps, Holds
<1>10. ASSUME NEW c \in Calls,
              \/ Snapshot(c) \/ TakeAuthLock(c) \/ ReadFresh(c) \/ ReplaceClient(c)
              \/ ReadMaterial(c) \/ StaleSettled(c) \/ TakeSlot(c) \/ Answered(c)
              \/ AuthFails(c) \/ RequestFails(c) \/ Recorded(c) \/ Write(c) \/ Cancel(c)
              \/ Drained(c)
       PROVE  UNCHANGED lock
  BY <1>10 DEF Snapshot, TakeAuthLock, ReadFresh, ReplaceClient, ReadMaterial, StaleSettled,
               TakeSlot, Answered, AuthFails, RequestFails, Recorded, Write, Cancel, Drained
<1>11. ASSUME NEW e \in Edits,
              UpdateTarget(e) \/ DeleteTarget(e) \/ ReplaceApplianceCA(e) \/ SettledOne(e)
       PROVE  UNCHANGED lock
  BY <1>11 DEF UpdateTarget, DeleteTarget, ReplaceApplianceCA, Committed, SettledOne
<1>12. CASE Unlock \/ Revoked \/ UNCHANGED vars
  <2>1. UNCHANGED lock
    BY <1>12 DEF Unlock, Revoked, vars
  <2> QED BY <1>1, <2>1
<1> QED
  BY <1>1, <1>4, <1>5, <1>6, <1>7, <1>8, <1>9, <1>10, <1>11, <1>12
  DEF Next, CallStep, EditStep, Retirement

-----------------------------------------------------------------------------
(* Types.                                                                  *)

LEMMA CallTypesStep ==
    ASSUME Typed, [Next]_vars
    PROVE  CallTypes'
<1> USE DEF callVars
<1>1. CallTypes /\ target \in Records /\ cached \in Calls \cup {NoClient}
  BY DEF Typed, RowTypes, PoolTypes
<1>2. ASSUME NEW c \in Calls, NEW r \in {"error", "refused", "superseded", "cancelled"},
             Leave(c, r), UNCHANGED <<snap, using, on, stale>>,
             write' \in [Calls -> {"none", "success", "failure", "written"}]
      PROVE  CallTypes'
  BY <1>1, <1>2 DEF Leave, CallTypes, Inside
<1>3. ASSUME NEW c \in Calls, Snapshot(c) \/ Checked(c) \/ TakeAuthLock(c) \/ TakeSlot(c)
      PROVE  CallTypes'
  <2>1. target.gen \in Nat
    BY <1>1 DEF Records
  <2>2. pc' \in [Calls -> Inside \cup {"idle", "ready", "done"}]
    BY <1>1, <1>3 DEF Snapshot, Checked, TakeAuthLock, TakeSlot, CallTypes, Inside
  <2>3. snap' \in [Calls -> Nat] /\ using' \in [Calls -> Records]
        /\ authLock' \in Calls \cup {NoClient}
    BY <1>1, <1>3, <2>1 DEF Snapshot, Checked, TakeAuthLock, TakeSlot, CallTypes
  <2> QED BY <1>1, <1>3, <2>2, <2>3
          DEF Snapshot, Checked, TakeAuthLock, TakeSlot, CallTypes
<1>4. ASSUME NEW c \in Calls, Invoke(c)
      PROVE  CallTypes'
  <2>1. UNCHANGED <<snap, using, on, stale, write>>
    BY <1>4 DEF Invoke
  <2>2. CASE Leave(c, "superseded")
    BY <1>1, <1>2, <2>1, <2>2 DEF CallTypes
  <2>3. CASE pc' \in {[pc EXCEPT ![c] = "pool"], [pc EXCEPT ![c] = "auth"]}
             /\ UNCHANGED <<authLock, result>>
    BY <1>1, <2>1, <2>3 DEF CallTypes, Inside
  <2> QED BY <1>4, <2>2, <2>3 DEF Invoke
<1>5. ASSUME NEW c \in Calls, ReadFresh(c)
      PROVE  CallTypes'
  <2>1. UNCHANGED <<snap, on, stale, write>>
    BY <1>5 DEF ReadFresh
  <2>2. CASE Leave(c, "refused") /\ UNCHANGED using
    BY <1>1, <1>2, <2>1, <2>2 DEF CallTypes
  <2>3. CASE /\ using' = [using EXCEPT ![c] = target]
             /\ pc' = [pc EXCEPT ![c] = "checked"]
             /\ UNCHANGED <<authLock, result>>
    BY <1>1, <2>1, <2>3 DEF CallTypes, Inside
  <2> QED BY <1>5, <2>2, <2>3 DEF ReadFresh
<1>6. ASSUME NEW c \in Calls, NEW k \in Calls, StartRequest(c, k),
             UNCHANGED <<snap, using, stale, write, result, authLock>>
      PROVE  CallTypes'
  BY <1>1, <1>6 DEF StartRequest, CallTypes, Inside
<1>7. ASSUME NEW c \in Calls, GetCached(c)
      PROVE  CallTypes'
  BY <1>1, <1>6, <1>7 DEF GetCached, CacheHit
<1>8. ASSUME NEW c \in Calls, ReplaceClient(c) \/ ReadMaterial(c)
      PROVE  CallTypes'
  BY <1>1, <1>8 DEF ReplaceClient, ReadMaterial, CallTypes, Inside
<1>9. ASSUME NEW c \in Calls, BuildFails(c) \/ RequestFails(c)
      PROVE  CallTypes'
  BY <1>1, <1>2, <1>9 DEF BuildFails, RequestFails, CallTypes
<1>10. ASSUME NEW c \in Calls, Build(c)
       PROVE  CallTypes'
  <2>1. UNCHANGED <<snap, using, stale, write, result, authLock>>
    BY <1>10 DEF Build
  <2>2. CASE StartRequest(c, c)
    BY <1>6, <2>1, <2>2
  <2>3. CASE on' = [on EXCEPT ![c] = c] /\ pc' = [pc EXCEPT ![c] = "settle"]
    BY <1>1, <2>1, <2>3 DEF CallTypes, Inside
  <2> QED BY <1>10, <2>2, <2>3 DEF Build
<1>11. ASSUME NEW c \in Calls, StaleSettled(c)
       PROVE  CallTypes'
  <2>1. UNCHANGED <<snap, using, stale, write>>
    BY <1>11 DEF StaleSettled
  <2>2. CASE StartRequest(c, c) /\ UNCHANGED <<authLock, result>>
    BY <1>6, <2>1, <2>2
  <2>3. CASE Leave(c, "superseded") /\ UNCHANGED on
    BY <1>1, <1>2, <2>1, <2>3 DEF CallTypes
  <2> QED BY <1>11, <2>2, <2>3 DEF StaleSettled
<1>12. ASSUME NEW c \in Calls, Answered(c)
       PROVE  CallTypes'
  <2>1. UNCHANGED <<snap, using, on, stale>>
    BY <1>12 DEF Answered
  <2>2. CASE Leave(c, "superseded") /\ UNCHANGED write
    BY <1>1, <1>2, <2>1, <2>2 DEF CallTypes
  <2>3. CASE /\ pc' = [pc EXCEPT ![c] = "recording"]
             /\ write' = [write EXCEPT ![c] = "success"]
             /\ result' = [result EXCEPT ![c] = "ok"]
             /\ UNCHANGED authLock
    BY <1>1, <2>1, <2>3 DEF CallTypes, Inside
  <2> QED BY <1>12, <2>2, <2>3 DEF Answered
<1>13. ASSUME NEW c \in Calls, AuthFails(c)
       PROVE  CallTypes'
  BY <1>1, <1>13 DEF AuthFails, CallTypes, Inside
<1>14. ASSUME NEW c \in Calls, Write(c)
       PROVE  CallTypes'
  BY <1>1, <1>14 DEF Write, CallTypes
<1>15. ASSUME NEW c \in Calls, Recorded(c)
       PROVE  CallTypes'
  BY <1>1, <1>15 DEF Recorded, Leave, CallTypes, Inside
<1>16. ASSUME NEW c \in Calls, Unwind(c)
       PROVE  CallTypes'
  <2>1. write' \in [Calls -> {"none", "success", "failure", "written"}]
    BY <1>1, <1>16 DEF Unwind, CallTypes
  <2> QED BY <1>2, <1>16, <2>1 DEF Unwind
<1>17. ASSUME NEW c \in Calls, Cancel(c) \/ Retirement(c)
       PROVE  CallTypes'
  BY <1>1, <1>17 DEF Cancel, Retirement, Drained, Shut, Settle, Becomes, CallTypes
<1>18. ASSUME NEW e \in Edits,
              UpdateTarget(e) \/ DeleteTarget(e) \/ ReplaceApplianceCA(e) \/ EditStep(e)
       PROVE  CallTypes'
  <2>1. UNCHANGED <<pc, snap, using, on, stale, write, result, authLock>>
    BY <1>18 DEF UpdateTarget, DeleteTarget, ReplaceApplianceCA, Committed, EditStep,
                 Invalidate, Gathered, RetireOlder, SettledOne
  <2> QED BY <1>1, <2>1 DEF CallTypes
<1>19. CASE Unlock \/ Revoked \/ UNCHANGED vars
  BY <1>1, <1>19 DEF Unlock, Revoked, vars, CallTypes
<1> QED
  BY <1>3, <1>4, <1>5, <1>7, <1>8, <1>9, <1>10, <1>11, <1>12, <1>13, <1>14, <1>15, <1>16,
     <1>17, <1>18, <1>19
  DEF Next, CallStep

LEMMA RowTypesStep ==
    ASSUME Typed, [Next]_vars
    PROVE  RowTypes'
<1> USE DEF rowVars
<1>1. RowTypes
  BY DEF Typed
<1>2. target.gen + 1 \in Nat \ {0}
  BY <1>1 DEF RowTypes, Records
<1>3. ASSUME NEW e \in Edits, UpdateTarget(e) \/ DeleteTarget(e) \/ ReplaceApplianceCA(e)
      PROVE  RowTypes'
  <2>1. UNCHANGED <<failures, locked>>
    BY <1>3 DEF UpdateTarget, DeleteTarget, ReplaceApplianceCA, Committed
  <2>2. target' \in Records /\ trust' \in Nat
    BY <1>1, <1>2, <1>3 DEF UpdateTarget, DeleteTarget, ReplaceApplianceCA, RowTypes, Records
  <2>3. exists' \in BOOLEAN /\ accepts' \in BOOLEAN
    BY <1>1, <1>3 DEF UpdateTarget, DeleteTarget, ReplaceApplianceCA, RowTypes
  <2> QED BY <1>1, <2>1, <2>2, <2>3 DEF RowTypes
<1>4. ASSUME NEW c \in Calls, Write(c)
      PROVE  RowTypes'
  <2>1. UNCHANGED <<target, trust, exists, accepts>>
    BY <1>4 DEF Write
  <2>2. failures' \in Nat
    BY <1>1, <1>4 DEF Write, RowTypes
  <2>3. locked' \in BOOLEAN
    <3> DEFINE reached == locked \/ (exists /\ failures + 1 >= AUTH_FAILURE_LIMIT)
    <3>1. reached \in BOOLEAN
      OBVIOUS
    <3>2. locked' = locked \/ locked' = reached
      BY <1>4 DEF Write
    <3> HIDE DEF reached
    <3> QED BY <1>1, <3>1, <3>2 DEF RowTypes
  <2> QED BY <1>1, <2>1, <2>2, <2>3 DEF RowTypes
<1>5. CASE Unlock \/ Revoked
  <2>1. UNCHANGED <<target, trust, exists>>
    BY <1>5 DEF Unlock, Revoked
  <2>2. failures' \in Nat
    BY <1>1, <1>5 DEF Unlock, Revoked, RowTypes
  <2>3. locked' \in BOOLEAN
    BY <1>1, <1>5, Zenon DEF Unlock, Revoked, RowTypes
  <2>4. accepts' \in BOOLEAN
    BY <1>1, <1>5, Zenon DEF Unlock, Revoked, RowTypes
  <2> QED BY <1>1, <2>1, <2>2, <2>3, <2>4 DEF RowTypes
<1>6. ASSUME NEW c \in Calls,
             Snapshot(c) \/ Invoke(c) \/ CallStep(c) \/ Cancel(c) \/ Retirement(c)
      PROVE  UNCHANGED <<rowVars, accepts>>
  BY <1>6 DEF Snapshot, Invoke, CallStep, TakeAuthLock, ReadFresh, Checked, GetCached,
              ReplaceClient, BuildFails, ReadMaterial, Build, StaleSettled, TakeSlot, Answered,
              AuthFails, RequestFails, Recorded, Unwind, Cancel, Retirement, Drained, Shut,
              Settle, Becomes
<1>7. ASSUME NEW e \in Edits, EditStep(e)
      PROVE  UNCHANGED <<rowVars, accepts>>
  BY <1>7 DEF EditStep, Invalidate, Gathered, RetireOlder, SettledOne
<1>8. UNCHANGED <<rowVars, accepts>> => RowTypes'
  BY <1>1 DEF RowTypes
<1>9. UNCHANGED vars => UNCHANGED <<rowVars, accepts>>
  BY DEF vars
<1> QED BY <1>3, <1>4, <1>5, <1>6, <1>7, <1>8, <1>9 DEF Next

\* What a step may do to a client: move it along its life, or give the one that
\* is being built its record and bundle.
LEMMA ClientFields ==
    ASSUME Typed
    PROVE  \A k \in Calls : /\ client[k].state \in Lives /\ client[k].target \in Records
                            /\ client[k].trust \in Nat
BY DEF Typed, PoolTypes

LEMMA StateChange ==
    ASSUME Typed, NEW k, NEW life \in Lives, client' = [client EXCEPT ![k].state = life]
    PROVE  /\ client' \in [Calls -> [state : Lives, target : Records, trust : Nat]]
           /\ \A d \in Calls : /\ client'[d].target = client[d].target
                               /\ client'[d].trust = client[d].trust
                               /\ client'[d].state = IF d = k THEN life ELSE client[d].state
<1> DEFINE q == [client[k] EXCEPT !.state = life]
<1>1. client \in [Calls -> [state : Lives, target : Records, trust : Nat]]
  BY DEF Typed, PoolTypes
<1>2. client' = [client EXCEPT ![k] = q]
  OBVIOUS
<1>3. k \in Calls => /\ q \in [state : Lives, target : Records, trust : Nat]
                     /\ q.state = life /\ q.target = client[k].target
                     /\ q.trust = client[k].trust
  BY <1>1
<1> HIDE DEF q
<1> QED BY <1>1, <1>2, <1>3

LEMMA MaterialChange ==
    ASSUME Typed, NEW c \in Calls, ReadMaterial(c)
    PROVE  /\ client' \in [Calls -> [state : Lives, target : Records, trust : Nat]]
           /\ client'[c].target = using[c] /\ client'[c].trust = trust
           /\ client'[c].state = client[c].state
           /\ \A d \in Calls \ {c} : client'[d] = client[d]
<1> DEFINE q == [client[c] EXCEPT !.target = using[c], !.trust = trust]
<1>1. client \in [Calls -> [state : Lives, target : Records, trust : Nat]]
      /\ using[c] \in Records /\ trust \in Nat
  BY DEF Typed, PoolTypes, CallTypes, RowTypes
<1>2. client' = [client EXCEPT ![c] = q]
  BY DEF ReadMaterial
<1>3. /\ q \in [state : Lives, target : Records, trust : Nat]
      /\ q.state = client[c].state /\ q.target = using[c] /\ q.trust = trust
  BY <1>1
<1> HIDE DEF q
<1> QED BY <1>1, <1>2, <1>3

LEMMA PoolTypesStep ==
    ASSUME Typed, [Next]_vars
    PROVE  PoolTypes'
<1> USE DEF poolVars
<1>1. PoolTypes /\ CallTypes /\ EditTypes
  BY DEF Typed
<1>2. "draining" \in Lives /\ "open" \in Lives
  BY DEF Lives
<1>3. ASSUME NEW k, Retire(k)
      PROVE  client' \in [Calls -> [state : Lives, target : Records, trust : Nat]]
  BY <1>1, <1>2, <1>3, StateChange DEF Retire, PoolTypes
<1>4. ASSUME NEW c \in Calls, ReplaceClient(c)
      PROVE  PoolTypes'
  BY <1>1, <1>3, <1>4 DEF ReplaceClient, PoolTypes
<1>5. ASSUME NEW c \in Calls, ReadMaterial(c)
      PROVE  PoolTypes'
  <2>1. UNCHANGED poolVars
    BY <1>5 DEF ReadMaterial
  <2> QED BY <1>1, <1>5, <2>1, MaterialChange DEF PoolTypes
<1>6. ASSUME NEW c \in Calls, Build(c)
      PROVE  PoolTypes'
  <2>1. client' = [client EXCEPT ![c].state = "open"] /\ cached' = c
        /\ UNCHANGED <<confirmed, cutoff>>
    BY <1>6 DEF Build
  <2> QED BY <1>1, <1>2, <2>1, StateChange DEF PoolTypes
<1>7. ASSUME NEW c \in Calls, AuthFails(c) \/ Recorded(c)
      PROVE  PoolTypes'
  <2>1. UNCHANGED <<cached, cutoff, client>>
    BY <1>7 DEF AuthFails, Recorded
  <2>2. confirmed' \in Nat
    BY <1>1, <1>7 DEF AuthFails, Recorded, PoolTypes, CallTypes, Records
  <2> QED BY <1>1, <2>1, <2>2 DEF PoolTypes
<1>8. ASSUME NEW e \in Edits, Invalidate(e)
      PROVE  PoolTypes'
  <2>1. UNCHANGED <<cached, client>>
    BY <1>8 DEF Invalidate
  <2>2. confirmed' \in Nat /\ cutoff' \in Nat
    BY <1>1, <1>8 DEF Invalidate, PoolTypes, EditTypes
  <2> QED BY <1>1, <2>1, <2>2 DEF PoolTypes
<1>9. ASSUME NEW e \in Edits, RetireOlder(e)
      PROVE  PoolTypes'
  <2> DEFINE Retired == IF cached # NoClient /\ Older(cached, e) THEN cached ELSE NoClient
  <2>1. Retire(Retired) /\ cached' \in {cached, NoClient}
        /\ confirmed' \in {confirmed, 0} /\ UNCHANGED cutoff
    BY <1>9 DEF RetireOlder
  <2> HIDE DEF Retired
  <2> QED BY <1>1, <1>3, <2>1 DEF PoolTypes
<1>10. ASSUME NEW k \in Calls, Retirement(k)
       PROVE  PoolTypes'
  <2>1. UNCHANGED poolVars /\ \E life \in Lives : client' = [client EXCEPT ![k].state = life]
    BY <1>10 DEF Retirement, Drained, Shut, Settle, Becomes, Lives
  <2>2. client' \in [Calls -> [state : Lives, target : Records, trust : Nat]]
    BY <2>1, StateChange
  <2> QED BY <1>1, <2>1, <2>2 DEF PoolTypes
<1>11. ASSUME NEW c \in Calls,
              \/ Snapshot(c) \/ Invoke(c) \/ TakeAuthLock(c) \/ ReadFresh(c) \/ Checked(c)
              \/ GetCached(c) \/ BuildFails(c) \/ StaleSettled(c) \/ TakeSlot(c)
              \/ Answered(c) \/ RequestFails(c) \/ Unwind(c) \/ Write(c) \/ Cancel(c)
       PROVE  UNCHANGED <<poolVars, client>>
  BY <1>11 DEF Snapshot, Invoke, TakeAuthLock, ReadFresh, Checked, GetCached, BuildFails,
               StaleSettled, TakeSlot, Answered, RequestFails, Unwind, Write, Cancel
<1>12. ASSUME NEW e \in Edits,
              \/ UpdateTarget(e) \/ DeleteTarget(e) \/ ReplaceApplianceCA(e)
              \/ Gathered(e) \/ SettledOne(e)
       PROVE  UNCHANGED <<poolVars, client>>
  BY <1>12 DEF UpdateTarget, DeleteTarget, ReplaceApplianceCA, Committed, Gathered, SettledOne
<1>13. Unlock \/ Revoked \/ UNCHANGED vars => UNCHANGED <<poolVars, client>>
  BY DEF Unlock, Revoked, vars
<1>14. UNCHANGED <<poolVars, client>> => PoolTypes'
  BY <1>1 DEF PoolTypes
<1> QED
  BY <1>4, <1>5, <1>6, <1>7, <1>8, <1>9, <1>10, <1>11, <1>12, <1>13, <1>14
  DEF Next, CallStep, EditStep

\* What SettleRest does: the next client, or the end of the barrier.
LEMMA SettleRestCases ==
    ASSUME Typed, NEW e \in Edits, NEW rest \in SUBSET Calls, SettleRest(e, rest)
    PROVE  /\ waits' = [waits EXCEPT ![e] = rest]
           /\ \/ /\ rest = {}
                 /\ step' = [step EXCEPT ![e] = "done"]
                 /\ severed' \in {severed, change[e].gen}
                 /\ severed' # severed => change[e].mode = "cancel"
                 /\ change[e].mode = "cancel" => severed' >= change[e].gen
                 /\ retrusted' \in {retrusted, change[e].trust}
                 /\ retrusted' >= change[e].trust
                 /\ reported' \in Nat
                 /\ UNCHANGED doomed
              \/ /\ rest # {}
                 /\ step' = [step EXCEPT ![e] = "settle"]
                 /\ UNCHANGED <<reported, severed, retrusted>>
                 /\ \E k \in rest : doomed' \subseteq doomed \cup InFlight(k)
<1>1. change[e].gen \in Nat /\ change[e].trust \in Nat
      /\ reported \in Nat /\ severed \in Nat /\ retrusted \in Nat
  BY DEF Typed, EditTypes
<1>2. CASE /\ rest = {}
           /\ step' = [step EXCEPT ![e] = "done"]
           /\ reported' = Larger(reported, change[e].gen)
           /\ severed' = IF change[e].mode = "cancel" THEN Larger(severed, change[e].gen)
                         ELSE severed
           /\ retrusted' = Larger(retrusted, change[e].trust)
           /\ UNCHANGED doomed
  BY <1>1, <1>2 DEF SettleRest, Larger
<1>3. CASE \E k \in rest :
              /\ step' = [step EXCEPT ![e] = "settle"]
              /\ doomed' = IF change[e].mode = "drain" THEN doomed ELSE doomed \cup InFlight(k)
              /\ UNCHANGED <<reported, severed, retrusted>>
  BY <1>3 DEF SettleRest
<1> QED BY <1>2, <1>3 DEF SettleRest

\* The clients a request settles are those of the pool.
LEMMA SettlesClients ==
    ASSUME Typed, NEW e \in Edits
    PROVE  /\ RetireOlder(e) =>
                 LET Retired == IF cached # NoClient /\ Older(cached, e) THEN cached ELSE NoClient
                     rest == {k \in Unsettled \cup ({Retired} \ {NoClient}) : Older(k, e)}
                 IN  rest \in SUBSET Calls /\ SettleRest(e, rest)
           /\ SettledOne(e) => /\ waits[e] \ {at[e]} \in SUBSET Calls
                               /\ SettleRest(e, waits[e] \ {at[e]})
BY DEF Typed, PoolTypes, EditTypes, RetireOlder, SettledOne, Unsettled

LEMMA EditTypesStep ==
    ASSUME Typed, [Next]_vars
    PROVE  EditTypes'
<1> USE DEF editVars, historyVars
<1>1. EditTypes /\ RowTypes
  BY DEF Typed
<1>2. ASSUME NEW e \in Edits, NEW mode \in Modes, NEW gen \in Nat, NEW bundle \in Nat,
             Committed(e, mode, gen, bundle)
      PROVE  EditTypes'
  <2> DEFINE q == [mode |-> mode, gen |-> gen, trust |-> bundle]
  <2>1. q \in [mode : Modes, gen : Nat, trust : Nat]
    OBVIOUS
  <2>2. change' = [change EXCEPT ![e] = q] /\ step' = [step EXCEPT ![e] = "committed"]
        /\ UNCHANGED <<waits, historyVars>>
    BY <1>2 DEF Committed
  <2> HIDE DEF q
  <2> QED BY <1>1, <2>1, <2>2 DEF EditTypes
<1>3. ASSUME NEW e \in Edits, UpdateTarget(e) \/ DeleteTarget(e) \/ ReplaceApplianceCA(e)
      PROVE  EditTypes'
  <2>1. target.gen + 1 \in Nat /\ trust + 1 \in Nat
    BY <1>1 DEF RowTypes, Records
  <2>2. \E mode \in Modes, gen \in Nat, bundle \in Nat : Committed(e, mode, gen, bundle)
    <3>1. CASE UpdateTarget(e)
      <4>1. \E mode \in {"cancel", "drain"} : Committed(e, mode, target.gen + 1, 0)
        BY <3>1 DEF UpdateTarget
      <4> QED BY <2>1, <4>1 DEF Modes
    <3>2. CASE DeleteTarget(e)
      BY <2>1, <3>2 DEF DeleteTarget, Modes
    <3>3. CASE ReplaceApplianceCA(e)
      BY <2>1, <3>3 DEF ReplaceApplianceCA, Modes
    <3> QED BY <1>3, <3>1, <3>2, <3>3
  <2> QED BY <1>2, <2>2
<1>4. ASSUME NEW e \in Edits, Invalidate(e) \/ Gathered(e)
      PROVE  EditTypes'
  <2>1. Victims(e) \in SUBSET Calls
    BY DEF Victims, Registered
  <2>2. step' \in [Edits -> {"idle", "committed", "gather", "queued", "settle", "done"}]
        /\ waits' \in [Edits -> SUBSET Calls]
    BY <1>1, <1>4, <2>1 DEF Invalidate, Gathered, EditTypes
  <2>3. UNCHANGED <<change, historyVars>>
    BY <1>4 DEF Invalidate, Gathered
  <2> QED BY <1>1, <2>2, <2>3 DEF EditTypes
<1>5. ASSUME NEW e \in Edits, NEW rest \in SUBSET Calls, SettleRest(e, rest), UNCHANGED change
      PROVE  EditTypes'
  <2>1. change[e].gen \in Nat /\ change[e].trust \in Nat
    BY <1>1 DEF EditTypes
  <2>2. reported' \in Nat /\ severed' \in Nat /\ retrusted' \in Nat
    BY <1>1, <1>5, <2>1, SettleRestCases DEF EditTypes
  <2>3. step' \in [Edits -> {"idle", "committed", "gather", "queued", "settle", "done"}]
        /\ waits' \in [Edits -> SUBSET Calls]
    BY <1>1, <1>5, SettleRestCases DEF EditTypes
  <2> QED BY <1>1, <1>5, <2>2, <2>3 DEF EditTypes
<1>6. ASSUME NEW e \in Edits, RetireOlder(e) \/ SettledOne(e)
      PROVE  EditTypes'
  <2>1. UNCHANGED change
    BY <1>6 DEF RetireOlder, SettledOne
  <2>2. \E rest \in SUBSET Calls : SettleRest(e, rest)
    BY <1>6, SettlesClients
  <2> QED BY <1>5, <2>1, <2>2
<1>7. ASSUME NEW c \in Calls,
             \/ Snapshot(c) \/ Invoke(c) \/ CallStep(c) \/ Write(c) \/ Cancel(c)
             \/ Retirement(c)
      PROVE  UNCHANGED <<editVars, historyVars>>
  BY <1>7 DEF Snapshot, Invoke, CallStep, TakeAuthLock, ReadFresh, Checked, GetCached,
              ReplaceClient, BuildFails, ReadMaterial, Build, StaleSettled, TakeSlot, Answered,
              AuthFails, RequestFails, Recorded, Unwind, Write, Cancel, Retirement, Drained,
              Shut, Settle, Becomes
<1>8. Unlock \/ Revoked \/ UNCHANGED vars => UNCHANGED <<editVars, historyVars>>
  BY DEF Unlock, Revoked, vars
<1>9. UNCHANGED <<editVars, historyVars>> => EditTypes'
  BY <1>1 DEF EditTypes
<1> QED BY <1>3, <1>4, <1>6, <1>7, <1>8, <1>9 DEF Next, EditStep

LEMMA RegisteredMembers == \A c \in Calls : c \in Registered <=> pc[c] \in Inside
BY DEF Registered, Inside

LEMMA InFlightAreRegistered == \A k : InFlight(k) \subseteq Registered
BY DEF InFlight, Registered

\* A call that is doomed stays where it is until it unwinds.
LEMMA DoomedStep ==
    ASSUME Typed, [Next]_vars
    PROVE  DoomedAreInside'
<1> USE DEF callVars
<1>1. CallTypes /\ doomed \subseteq Registered /\ Registered \subseteq Calls
  BY DEF Typed, DoomedAreInside, Registered
<1>2. ASSUME NEW c \in Calls, c \notin doomed, UNCHANGED doomed,
             \A d \in Calls : d # c => pc'[d] = pc[d]
      PROVE  DoomedAreInside'
  BY <1>1, <1>2 DEF DoomedAreInside, Registered
<1>3. ASSUME NEW more, more \subseteq Registered, doomed' \subseteq doomed \cup more,
             UNCHANGED pc
      PROVE  DoomedAreInside'
  BY <1>1, <1>3 DEF DoomedAreInside, Registered
<1>4. ASSUME NEW c \in Calls,
             \/ Invoke(c) \/ TakeAuthLock(c) \/ ReadFresh(c) \/ Checked(c) \/ GetCached(c)
             \/ ReplaceClient(c) \/ BuildFails(c) \/ ReadMaterial(c) \/ StaleSettled(c)
             \/ TakeSlot(c) \/ Answered(c) \/ AuthFails(c) \/ RequestFails(c) \/ Recorded(c)
      PROVE  DoomedAreInside'
  <2>1. c \notin doomed /\ UNCHANGED doomed
    BY <1>4 DEF Invoke, TakeAuthLock, ReadFresh, Checked, GetCached, ReplaceClient,
                BuildFails, ReadMaterial, StaleSettled, TakeSlot, Answered, AuthFails,
                RequestFails, Recorded
  <2>2. \E p : pc' = [pc EXCEPT ![c] = p]
    BY <1>4 DEF Invoke, TakeAuthLock, ReadFresh, Checked, GetCached, ReplaceClient,
                BuildFails, ReadMaterial, StaleSettled, TakeSlot, Answered, AuthFails,
                RequestFails, Recorded, Leave, StartRequest
  <2>3. \A d \in Calls : d # c => pc'[d] = pc[d]
    BY <1>1, <2>2 DEF CallTypes
  <2> QED BY <1>2, <2>1, <2>3
<1>5. ASSUME NEW c \in Calls, Snapshot(c)
      PROVE  DoomedAreInside'
  <2>1. c \notin Registered
    BY <1>5, RegisteredMembers DEF Snapshot, Inside
  <2> QED BY <1>1, <1>2, <1>5, <2>1 DEF Snapshot, CallTypes
<1>6. ASSUME NEW c \in Calls, Build(c)
      PROVE  DoomedAreInside'
  <2>1. c \notin doomed /\ pc[c] = "built" /\ \E p : pc' = [pc EXCEPT ![c] = p]
    BY <1>6 DEF Build, StartRequest
  <2>2. \A d \in Calls : d # c => pc'[d] = pc[d]
    BY <1>1, <2>1 DEF CallTypes
  <2>3. doomed' \subseteq doomed \cup InFlight(stale[c])
    BY <1>6 DEF Build
  <2>4. c \notin InFlight(stale[c])
    BY <2>1 DEF InFlight
  <2> QED BY <1>1, <2>1, <2>2, <2>3, <2>4, InFlightAreRegistered
          DEF DoomedAreInside, Registered
<1>7. ASSUME NEW c \in Calls, Unwind(c)
      PROVE  DoomedAreInside'
  <2>1. doomed' = doomed \ {c} /\ pc' = [pc EXCEPT ![c] = "done"]
    BY <1>7 DEF Unwind, Leave
  <2>2. \A d \in Calls : d # c => pc'[d] = pc[d]
    BY <1>1, <2>1 DEF CallTypes
  <2> QED BY <1>1, <2>1, <2>2 DEF DoomedAreInside, Registered
<1>8. ASSUME NEW c \in Calls, Cancel(c)
      PROVE  DoomedAreInside'
  <2>1. doomed' \subseteq doomed \cup {c} /\ {c} \subseteq Registered /\ UNCHANGED pc
    BY <1>8 DEF Cancel
  <2> QED BY <1>3, <2>1
<1>9. ASSUME NEW e \in Edits, Invalidate(e)
      PROVE  DoomedAreInside'
  <2>1. doomed' \subseteq doomed \cup Victims(e) /\ UNCHANGED pc
    BY <1>9 DEF Invalidate
  <2>2. Victims(e) \subseteq Registered
    BY DEF Victims
  <2> QED BY <1>3, <2>1, <2>2
<1>10. ASSUME NEW e \in Edits, RetireOlder(e) \/ SettledOne(e)
       PROVE  DoomedAreInside'
  <2>1. UNCHANGED pc
    BY <1>10 DEF RetireOlder, SettledOne
  <2>2. \E rest \in SUBSET Calls : SettleRest(e, rest)
    BY <1>10, SettlesClients
  <2>3. UNCHANGED doomed \/ \E k : doomed' \subseteq doomed \cup InFlight(k)
    BY <2>2, SettleRestCases
  <2> QED BY <1>3, <2>1, <2>3, InFlightAreRegistered
<1>11. ASSUME NEW c \in Calls, Write(c) \/ Retirement(c)
       PROVE  UNCHANGED <<pc, doomed>>
  BY <1>11 DEF Write, Retirement, Drained, Shut, Settle, Becomes
<1>12. ASSUME NEW e \in Edits,
              UpdateTarget(e) \/ DeleteTarget(e) \/ ReplaceApplianceCA(e) \/ Gathered(e)
       PROVE  UNCHANGED <<pc, doomed>>
  BY <1>12 DEF UpdateTarget, DeleteTarget, ReplaceApplianceCA, Committed, Gathered
<1>13. Unlock \/ Revoked \/ UNCHANGED vars => UNCHANGED <<pc, doomed>>
  BY DEF Unlock, Revoked, vars
<1>14. UNCHANGED <<pc, doomed>> => DoomedAreInside'
  BY <1>1 DEF DoomedAreInside, Registered
<1> QED
  BY <1>4, <1>5, <1>6, <1>7, <1>8, <1>9, <1>10, <1>11, <1>12, <1>13, <1>14
  DEF Next, CallStep, EditStep

LEMMA TypedStep ==
    ASSUME Typed, Building, [Next]_vars
    PROVE  Typed'
BY CallTypesStep, RowTypesStep, PoolTypesStep, EditTypesStep, DoomedStep, QueueSteps DEF Typed

-----------------------------------------------------------------------------
(* One client is open.                                                     *)

\* The steps that change which client is cached or open.
LEMMA BuildingStep ==
    ASSUME Typed, Building, [Next]_vars
    PROVE  Building'
<1> USE DEF callVars, poolVars
<1>1. CallTypes
  BY DEF Typed
<1> SUFFICES ASSUME NEW d \in Calls, pc'[d] \in {"build", "built"}
             PROVE  Holds(CallTicket(d))' /\ cached' = NoClient
  BY DEF Building
<1>2. \/ pc[d] \in {"build", "built"}
      \/ ReplaceClient(d)
  <2>1. ASSUME NEW c \in Calls,
               \/ Snapshot(c) \/ Invoke(c) \/ TakeAuthLock(c) \/ ReadFresh(c) \/ Checked(c)
               \/ GetCached(c) \/ BuildFails(c) \/ Build(c)
               \/ StaleSettled(c) \/ TakeSlot(c) \/ Answered(c) \/ AuthFails(c)
               \/ RequestFails(c) \/ Recorded(c) \/ Unwind(c)
        PROVE  pc[d] \in {"build", "built"}
    <3>1. \E p : p \notin {"build", "built"} /\ pc' = [pc EXCEPT ![c] = p]
      BY <2>1 DEF Snapshot, Invoke, TakeAuthLock, ReadFresh, Checked, GetCached, BuildFails,
                  Build, StaleSettled, TakeSlot, Answered, AuthFails, RequestFails, Recorded,
                  Unwind, Leave, StartRequest
    <3> QED BY <1>1, <3>1 DEF CallTypes
  <2>2. ASSUME NEW c \in Calls, ReplaceClient(c) \/ ReadMaterial(c)
        PROVE  pc[d] \in {"build", "built"} \/ ReplaceClient(d)
    BY <1>1, <2>2 DEF ReplaceClient, ReadMaterial, CallTypes
  <2>3. ASSUME NEW c \in Calls, Write(c) \/ Cancel(c) \/ Retirement(c)
        PROVE  UNCHANGED pc
    BY <2>3 DEF Write, Cancel, Retirement, Drained, Shut, Settle, Becomes
  <2>4. ASSUME NEW e \in Edits,
               UpdateTarget(e) \/ DeleteTarget(e) \/ ReplaceApplianceCA(e) \/ EditStep(e)
        PROVE  UNCHANGED pc
    BY <2>4 DEF UpdateTarget, DeleteTarget, ReplaceApplianceCA, Committed, EditStep,
                Invalidate, Gathered, RetireOlder, SettledOne
  <2>5. Unlock \/ Revoked \/ UNCHANGED vars => UNCHANGED pc
    BY DEF Unlock, Revoked, vars
  <2> QED BY <2>1, <2>2, <2>3, <2>4, <2>5 DEF Next, CallStep
<1>3. CASE ReplaceClient(d)
  BY <1>3 DEF ReplaceClient, Holds
<1>4. CASE pc[d] \in {"build", "built"}
  <2>1. Holds(CallTicket(d)) /\ cached = NoClient
    BY <1>4 DEF Building
  <2>2. \A c \in Calls : Holds(CallTicket(c)) => c = d
    BY <2>1 DEF Holds, CallTicket
  <2>3. ~GivesUp(d)
    BY <1>1, <1>4 DEF GivesUp, GetCached, BuildFails, Build, Unwind, Leave, StartRequest,
                      CallTypes
  <2>4. Holds(CallTicket(d))'
    BY <2>1, <2>3, QueueSteps DEF Keeps, Typed
  <2>5. ASSUME NEW c \in Calls, Build(c)
        PROVE  FALSE
    BY <2>2, <2>3, <2>5 DEF Build, Building, GivesUp
  <2>6. ASSUME NEW c \in Calls,
               \/ Snapshot(c) \/ Invoke(c) \/ TakeAuthLock(c) \/ ReadFresh(c) \/ Checked(c)
               \/ GetCached(c) \/ ReplaceClient(c) \/ BuildFails(c) \/ ReadMaterial(c)
               \/ StaleSettled(c) \/ TakeSlot(c) \/ Answered(c) \/ AuthFails(c)
               \/ RequestFails(c) \/ Recorded(c) \/ Unwind(c) \/ Write(c) \/ Cancel(c)
               \/ Retirement(c)
        PROVE  cached' \in {cached, NoClient}
    BY <2>6 DEF Snapshot, Invoke, TakeAuthLock, ReadFresh, Checked, GetCached, ReplaceClient,
                BuildFails, ReadMaterial, StaleSettled, TakeSlot, Answered, AuthFails,
                RequestFails, Recorded, Unwind, Write, Cancel, Retirement, Drained, Shut,
                Settle, Becomes
  <2>7. ASSUME NEW e \in Edits,
               UpdateTarget(e) \/ DeleteTarget(e) \/ ReplaceApplianceCA(e) \/ EditStep(e)
        PROVE  cached' \in {cached, NoClient}
    BY <2>7 DEF UpdateTarget, DeleteTarget, ReplaceApplianceCA, Committed, EditStep,
                Invalidate, Gathered, RetireOlder, SettledOne
  <2>8. Unlock \/ Revoked \/ UNCHANGED vars => UNCHANGED cached
    BY DEF Unlock, Revoked, vars
  <2> QED BY <2>1, <2>4, <2>5, <2>6, <2>7, <2>8 DEF Next, CallStep
<1> QED BY <1>2, <1>3, <1>4

\* The client that is cached is the open one: whatever takes it out of the cache
\* retires it, and nothing is cached while another is built.
LEMMA OpenStep ==
    ASSUME Typed, Building, OnlyTheCachedClientIsOpen, [Next]_vars
    PROVE  OnlyTheCachedClientIsOpen'
<1> USE DEF poolVars
<1>1. "draining" \in Lives /\ "open" \in Lives
  BY DEF Lives
<1>2. ASSUME NEW k, Retire(k), k \in {cached, NoClient},
             cached' = IF k = NoClient THEN cached ELSE NoClient
      PROVE  OnlyTheCachedClientIsOpen'
  <2>1. CASE k = NoClient
    BY <1>2, <2>1 DEF Retire, OnlyTheCachedClientIsOpen
  <2>2. CASE k # NoClient
    <3>1. client' = [client EXCEPT ![k].state = "draining"] /\ cached' = NoClient
      BY <1>2, <2>2 DEF Retire
    <3>2. \A d \in Calls : client'[d].state = IF d = k THEN "draining" ELSE client[d].state
      BY <1>1, <3>1, StateChange
    <3>3. k = cached
      BY <1>2, <2>2
    <3>4. \A d \in Calls : client'[d].state # "open" /\ (cached' = d => d = NoClient)
      BY <3>1, <3>2, <3>3 DEF OnlyTheCachedClientIsOpen
    <3> SUFFICES ASSUME NoClient \in Calls PROVE FALSE
      BY <3>1, <3>4 DEF OnlyTheCachedClientIsOpen
    <3> QED BY PoolAssumption
  <2> QED BY <2>1, <2>2
<1>3. ASSUME NEW c \in Calls, ReplaceClient(c)
      PROVE  OnlyTheCachedClientIsOpen'
  BY <1>2, <1>3 DEF ReplaceClient
<1>4. ASSUME NEW c \in Calls, ReadMaterial(c)
      PROVE  OnlyTheCachedClientIsOpen'
  <2>1. UNCHANGED cached
    BY <1>4 DEF ReadMaterial
  <2> QED BY <1>4, <2>1, MaterialChange DEF OnlyTheCachedClientIsOpen
<1>5. ASSUME NEW c \in Calls, Build(c)
      PROVE  OnlyTheCachedClientIsOpen'
  <2>1. cached = NoClient
    BY <1>5 DEF Build, Building
  <2>2. \A d \in Calls : client[d].state # "open"
    BY <2>1, PoolAssumption DEF OnlyTheCachedClientIsOpen
  <2>3. client' = [client EXCEPT ![c].state = "open"] /\ cached' = c
    BY <1>5 DEF Build
  <2>4. \A d \in Calls : client'[d].state = IF d = c THEN "open" ELSE client[d].state
    BY <1>1, <2>3, StateChange
  <2> QED BY <2>2, <2>3, <2>4 DEF OnlyTheCachedClientIsOpen
<1>6. ASSUME NEW e \in Edits, RetireOlder(e)
      PROVE  OnlyTheCachedClientIsOpen'
  <2> DEFINE Retired == IF cached # NoClient /\ Older(cached, e) THEN cached ELSE NoClient
  <2>1. Retire(Retired) /\ cached' = IF Retired = NoClient THEN cached ELSE NoClient
    BY <1>6 DEF RetireOlder
  <2>2. Retired \in {cached, NoClient}
    OBVIOUS
  <2> HIDE DEF Retired
  <2> QED BY <1>2, <2>1, <2>2
<1>7. ASSUME NEW k \in Calls, Retirement(k)
      PROVE  OnlyTheCachedClientIsOpen'
  <2>1. /\ UNCHANGED cached
        /\ client[k].state # "open"
        /\ \E life \in Lives \ {"open"} : client' = [client EXCEPT ![k].state = life]
    BY <1>7 DEF Retirement, Drained, Shut, Settle, Becomes, Lives
  <2>2. PICK life \in Lives : life # "open" /\ client' = [client EXCEPT ![k].state = life]
    BY <2>1
  <2>3. \A d \in Calls : client'[d].state = IF d = k THEN life ELSE client[d].state
    BY <2>2, StateChange
  <2> QED BY <2>1, <2>2, <2>3 DEF OnlyTheCachedClientIsOpen
<1>8. ASSUME NEW c \in Calls,
              \/ Snapshot(c) \/ Invoke(c) \/ TakeAuthLock(c) \/ ReadFresh(c) \/ Checked(c)
              \/ GetCached(c) \/ BuildFails(c) \/ StaleSettled(c) \/ TakeSlot(c)
              \/ Answered(c) \/ AuthFails(c) \/ RequestFails(c) \/ Recorded(c) \/ Unwind(c)
              \/ Write(c) \/ Cancel(c)
      PROVE  UNCHANGED <<cached, client>>
  BY <1>8 DEF Snapshot, Invoke, TakeAuthLock, ReadFresh, Checked, GetCached, BuildFails,
              StaleSettled, TakeSlot, Answered, AuthFails, RequestFails, Recorded, Unwind,
              Write, Cancel
<1>9. ASSUME NEW e \in Edits,
             \/ UpdateTarget(e) \/ DeleteTarget(e) \/ ReplaceApplianceCA(e)
             \/ Invalidate(e) \/ Gathered(e) \/ SettledOne(e)
      PROVE  UNCHANGED <<cached, client>>
  BY <1>9 DEF UpdateTarget, DeleteTarget, ReplaceApplianceCA, Committed, Invalidate, Gathered,
              SettledOne
<1>10. Unlock \/ Revoked \/ UNCHANGED vars => UNCHANGED <<cached, client>>
  BY DEF Unlock, Revoked, vars
<1>11. UNCHANGED <<cached, client>> => OnlyTheCachedClientIsOpen'
  BY DEF OnlyTheCachedClientIsOpen
<1> QED
  BY <1>3, <1>4, <1>5, <1>6, <1>7, <1>8, <1>9, <1>10, <1>11
  DEF Next, CallStep, EditStep

-----------------------------------------------------------------------------
(* Generations and bundles.                                                *)

Alive(k) == client[k].state \notin {"none", "settled"}

\* A call never works with a record older than the generation it is registered
\* under, and builds its client with that record.
Ordered ==
    /\ \A c \in Calls : snap[c] <= using[c].gen /\ using[c].gen <= target.gen
    /\ \A c \in Calls : pc[c] = "built" => client[c].target = using[c]

\* What a committed change says of the generation and of the bundle.
Changes ==
    /\ severed <= cutoff
    /\ retrusted <= trust
    /\ \A e \in Edits :
          /\ change[e].trust <= trust
          /\ change[e].mode # "all" => change[e].trust = 0
          /\ change[e].mode = "cancel" /\ step[e] \in {"gather", "queued", "settle"} =>
                change[e].gen <= cutoff

\* Who is in the registry after a step was there, or has just passed the cut-off.
LEMMA RegisteredSteps ==
    ASSUME Typed, [Next]_vars
    PROVE  \A d \in Registered' : snap'[d] = snap[d] /\ (d \in Registered \/ snap[d] >= cutoff)
<1> USE DEF callVars
<1>1. CallTypes
  BY DEF Typed
<1> SUFFICES ASSUME NEW d \in Calls, pc'[d] \in Inside
             PROVE  snap'[d] = snap[d] /\ (pc[d] \in Inside \/ snap[d] >= cutoff)
  BY RegisteredMembers DEF Registered, Inside
<1>2. ASSUME NEW c \in Calls, Snapshot(c)
      PROVE  snap'[d] = snap[d] /\ pc[d] \in Inside
  BY <1>1, <1>2 DEF Snapshot, CallTypes, Inside
<1>3. ASSUME NEW c \in Calls, Invoke(c)
      PROVE  snap'[d] = snap[d] /\ (pc[d] \in Inside \/ snap[d] >= cutoff)
  <2>1. \/ snap[c] >= cutoff /\ \E p : pc' = [pc EXCEPT ![c] = p]
        \/ pc' = [pc EXCEPT ![c] = "done"]
    BY <1>3 DEF Invoke, Leave
  <2>2. UNCHANGED snap
    BY <1>3 DEF Invoke
  <2> QED BY <1>1, <2>1, <2>2 DEF CallTypes, Inside
<1>4. ASSUME NEW c \in Calls,
             \/ TakeAuthLock(c) \/ ReadFresh(c) \/ Checked(c) \/ GetCached(c)
             \/ ReplaceClient(c) \/ BuildFails(c) \/ ReadMaterial(c) \/ Build(c)
             \/ StaleSettled(c) \/ TakeSlot(c) \/ Answered(c) \/ AuthFails(c)
             \/ RequestFails(c) \/ Recorded(c)
      PROVE  snap'[d] = snap[d] /\ pc[d] \in Inside
  <2>1. pc[c] \in Inside /\ UNCHANGED snap /\ \E p : pc' = [pc EXCEPT ![c] = p]
    BY <1>4 DEF TakeAuthLock, ReadFresh, Checked, GetCached, ReplaceClient, BuildFails,
                ReadMaterial, Build, StaleSettled, TakeSlot, Answered, AuthFails,
                RequestFails, Recorded, Leave, StartRequest, Inside
  <2> QED BY <1>1, <2>1 DEF CallTypes
<1>5. ASSUME NEW c \in Calls, Unwind(c)
      PROVE  snap'[d] = snap[d] /\ pc[d] \in Inside
  <2>1. UNCHANGED snap /\ pc' = [pc EXCEPT ![c] = "done"]
    BY <1>5 DEF Unwind, Leave
  <2> QED BY <1>1, <2>1 DEF CallTypes, Inside
<1>6. ASSUME NEW c \in Calls, Write(c) \/ Cancel(c) \/ Retirement(c)
      PROVE  UNCHANGED <<pc, snap>>
  BY <1>6 DEF Write, Cancel, Retirement, Drained, Shut, Settle, Becomes
<1>7. ASSUME NEW e \in Edits,
             UpdateTarget(e) \/ DeleteTarget(e) \/ ReplaceApplianceCA(e) \/ EditStep(e)
      PROVE  UNCHANGED <<pc, snap>>
  BY <1>7 DEF UpdateTarget, DeleteTarget, ReplaceApplianceCA, Committed, EditStep, Invalidate,
              Gathered, RetireOlder, SettledOne
<1>8. Unlock \/ Revoked \/ UNCHANGED vars => UNCHANGED <<pc, snap>>
  BY DEF Unlock, Revoked, vars
<1> QED BY <1>2, <1>3, <1>4, <1>5, <1>6, <1>7, <1>8 DEF Next, CallStep

\* A client that is alive after a step was alive, or is the one a call that is in
\* the registry builds with its record.
FromBefore(k) ==
    /\ Alive(k)' =>
          \/ /\ Alive(k)
             /\ client'[k].target = client[k].target /\ client'[k].trust = client[k].trust
          \/ /\ k \in Registered /\ client'[k].target = using[k]
             /\ \/ client'[k].trust = trust
                \/ pc[k] = "built" /\ client'[k].trust = client[k].trust
    /\ pc'[k] = "built" =>
          \/ pc[k] = "built" /\ client'[k].trust = client[k].trust
          \/ client'[k].trust = trust

LEMMA ClientSteps ==
    ASSUME Typed, Building, Ordered, OnlyTheCachedClientIsOpen, [Next]_vars
    PROVE  \A k \in Calls : FromBefore(k)
<1> USE DEF callVars
<1>1. CallTypes
  BY DEF Typed
<1>2. ASSUME NEW k, \/ UNCHANGED client
                    \/ \E life \in Lives : client' = [client EXCEPT ![k].state = life],
             k \in Calls => Alive(k),
             \A d \in Calls : pc'[d] = "built" => pc[d] = "built"
      PROVE  \A d \in Calls : FromBefore(d)
  <2>1. CASE UNCHANGED client
    BY <1>2, <2>1 DEF FromBefore, Alive
  <2>2. ASSUME NEW life \in Lives, client' = [client EXCEPT ![k].state = life]
        PROVE  \A d \in Calls : FromBefore(d)
    <3>1. \A d \in Calls : /\ client'[d].target = client[d].target
                           /\ client'[d].trust = client[d].trust
                           /\ client'[d].state = IF d = k THEN life ELSE client[d].state
      BY <2>2, StateChange
    <3> QED BY <1>2, <3>1 DEF FromBefore, Alive
  <2> QED BY <1>2, <2>1, <2>2
<1>3. ASSUME UNCHANGED client, \A d \in Calls : pc'[d] = "built" => pc[d] = "built"
      PROVE  \A d \in Calls : FromBefore(d)
  BY <1>3 DEF FromBefore, Alive
<1>4. cached \in Calls => Alive(cached)
  BY DEF OnlyTheCachedClientIsOpen, Alive
<1>5. ASSUME NEW c \in Calls, ReplaceClient(c)
      PROVE  \A d \in Calls : FromBefore(d)
  <2>1. Retire(cached) /\ pc' = [pc EXCEPT ![c] = "build"]
    BY <1>5 DEF ReplaceClient
  <2>2. UNCHANGED client \/ \E life \in Lives : client' = [client EXCEPT ![cached].state = life]
    BY <2>1 DEF Retire, Lives
  <2>3. \A d \in Calls : pc'[d] = "built" => pc[d] = "built"
    BY <1>1, <2>1 DEF CallTypes
  <2> QED BY <1>2, <1>4, <2>2, <2>3
<1>6. ASSUME NEW c \in Calls, ReadMaterial(c)
      PROVE  \A d \in Calls : FromBefore(d)
  <2>1. pc[c] = "build" /\ pc' = [pc EXCEPT ![c] = "built"]
    BY <1>6 DEF ReadMaterial
  <2>2. c \in Registered
    BY <2>1, RegisteredMembers DEF Inside
  <2>3. \A d \in Calls : d # c => pc'[d] = pc[d]
    BY <1>1, <2>1 DEF CallTypes
  <2> QED BY <1>6, <2>1, <2>2, <2>3, MaterialChange DEF FromBefore, Alive
<1>7. ASSUME NEW c \in Calls, Build(c)
      PROVE  \A d \in Calls : FromBefore(d)
  <2>1. pc[c] = "built" /\ client' = [client EXCEPT ![c].state = "open"]
        /\ \E p : p # "built" /\ pc' = [pc EXCEPT ![c] = p]
    BY <1>7 DEF Build, StartRequest
  <2>2. \A d \in Calls : pc'[d] = "built" => pc[d] = "built"
    BY <1>1, <2>1 DEF CallTypes
  <2>3. c \in Registered /\ client[c].target = using[c]
    BY <2>1, RegisteredMembers DEF Inside, Ordered
  <2>4. "open" \in Lives
    BY DEF Lives
  <2>5. \A d \in Calls : /\ client'[d].target = client[d].target
                         /\ client'[d].trust = client[d].trust
                         /\ client'[d].state = IF d = c THEN "open" ELSE client[d].state
    BY <2>1, <2>4, StateChange
  <2> QED BY <2>1, <2>2, <2>3, <2>5 DEF FromBefore, Alive
<1>8. ASSUME NEW e \in Edits, RetireOlder(e)
      PROVE  \A d \in Calls : FromBefore(d)
  <2> DEFINE Retired == IF cached # NoClient /\ Older(cached, e) THEN cached ELSE NoClient
  <2>1. Retire(Retired) /\ UNCHANGED pc
    BY <1>8 DEF RetireOlder
  <2>2. Retired \in Calls => Alive(Retired)
    BY <1>4, PoolAssumption
  <2> HIDE DEF Retired
  <2>3. UNCHANGED client \/ \E life \in Lives : client' = [client EXCEPT ![Retired].state = life]
    BY <2>1 DEF Retire, Lives
  <2> QED BY <1>2, <2>1, <2>2, <2>3
<1>9. ASSUME NEW k \in Calls, Retirement(k)
      PROVE  \A d \in Calls : FromBefore(d)
  <2>1. /\ UNCHANGED pc
        /\ Alive(k)
        /\ \E life \in Lives : client' = [client EXCEPT ![k].state = life]
    BY <1>9 DEF Retirement, Drained, Shut, Settle, Becomes, Lives, Alive
  <2> QED BY <1>2, <2>1
<1>10. ASSUME NEW c \in Calls,
              \/ Snapshot(c) \/ Invoke(c) \/ TakeAuthLock(c) \/ ReadFresh(c) \/ Checked(c)
              \/ GetCached(c) \/ BuildFails(c) \/ StaleSettled(c) \/ TakeSlot(c)
              \/ Answered(c) \/ AuthFails(c) \/ RequestFails(c) \/ Recorded(c) \/ Unwind(c)
       PROVE  \A d \in Calls : FromBefore(d)
  <2>1. UNCHANGED client /\ \E p : p # "built" /\ pc' = [pc EXCEPT ![c] = p]
    BY <1>10 DEF Snapshot, Invoke, TakeAuthLock, ReadFresh, Checked, GetCached, BuildFails,
                 StaleSettled, TakeSlot, Answered, AuthFails, RequestFails, Recorded, Unwind,
                 Leave, StartRequest
  <2>2. \A d \in Calls : pc'[d] = "built" => pc[d] = "built"
    BY <1>1, <2>1 DEF CallTypes
  <2> QED BY <1>3, <2>1, <2>2
<1>11. ASSUME NEW c \in Calls, Write(c) \/ Cancel(c)
       PROVE  UNCHANGED <<client, pc>>
  BY <1>11 DEF Write, Cancel
<1>12. ASSUME NEW e \in Edits,
             \/ UpdateTarget(e) \/ DeleteTarget(e) \/ ReplaceApplianceCA(e)
             \/ Invalidate(e) \/ Gathered(e) \/ SettledOne(e)
       PROVE  UNCHANGED <<client, pc>>
  BY <1>12 DEF UpdateTarget, DeleteTarget, ReplaceApplianceCA, Committed, Invalidate, Gathered,
               SettledOne
<1>13. Unlock \/ Revoked \/ UNCHANGED vars => UNCHANGED <<client, pc>>
  BY DEF Unlock, Revoked, vars
<1>14. UNCHANGED <<client, pc>> => \A d \in Calls : FromBefore(d)
  BY <1>3
<1> QED
  BY <1>5, <1>6, <1>7, <1>8, <1>9, <1>10, <1>11, <1>12, <1>13, <1>14
  DEF Next, CallStep, EditStep

LEMMA RetiringKeepsRecords ==
    ASSUME Typed, NEW k, Retire(k)
    PROVE  \A d \in Calls : client'[d].target = client[d].target
<1>1. CASE UNCHANGED client
  BY <1>1
<1>2. CASE client' = [client EXCEPT ![k].state = "draining"]
  <2>1. "draining" \in Lives
    BY DEF Lives
  <2> QED BY <1>2, <2>1, StateChange
<1> QED BY <1>1, <1>2 DEF Retire

LEMMA OrderedStep ==
    ASSUME Typed, Ordered, [Next]_vars
    PROVE  Ordered'
<1> USE DEF callVars, rowVars
<1>1. /\ snap \in [Calls -> Nat] /\ using \in [Calls -> Records] /\ target \in Records
      /\ pc \in [Calls -> Inside \cup {"idle", "ready", "done"}]
  BY DEF Typed, CallTypes, RowTypes
<1>2. \A c \in Calls : snap[c] \in Nat /\ using[c].gen \in Nat /\ target.gen \in Nat
  BY <1>1 DEF Records
<1>3. ASSUME NEW c \in Calls, Snapshot(c)
      PROVE  Ordered'
  <2>1. /\ snap' = [snap EXCEPT ![c] = target.gen] /\ using' = [using EXCEPT ![c] = target]
        /\ pc' = [pc EXCEPT ![c] = "ready"] /\ UNCHANGED <<target, client>>
    BY <1>3 DEF Snapshot
  <2>2. \A d \in Calls : pc'[d] = "built" => d # c /\ pc[d] = "built"
    BY <1>1, <2>1
  <2>3. \A d \in Calls : d # c => snap'[d] = snap[d] /\ using'[d] = using[d]
    BY <1>1, <2>1
  <2>4. snap'[c] <= using'[c].gen /\ using'[c].gen <= target.gen
    BY <1>1, <1>2, <2>1
  <2> QED BY <2>1, <2>2, <2>3, <2>4 DEF Ordered
<1>4. ASSUME NEW c \in Calls, ReadFresh(c)
      PROVE  Ordered'
  <2>1. /\ using' = [using EXCEPT ![c] = target] \/ using' = using
        /\ \E p : p # "built" /\ pc' = [pc EXCEPT ![c] = p]
        /\ UNCHANGED <<target, client, snap>> /\ pc[c] = "fresh"
    BY <1>4 DEF ReadFresh, Leave
  <2>2. \A d \in Calls : pc'[d] = "built" => d # c /\ pc[d] = "built"
    BY <1>1, <2>1
  <2>3. \A d \in Calls : d # c => using'[d] = using[d]
    BY <1>1, <2>1
  <2>4. snap[c] <= target.gen
    BY <1>2 DEF Ordered
  <2>5. snap[c] <= using'[c].gen /\ using'[c].gen <= target.gen
    BY <1>1, <1>2, <2>1, <2>4 DEF Ordered
  <2> QED BY <2>1, <2>2, <2>3, <2>5 DEF Ordered
<1>5. ASSUME NEW c \in Calls, ReadMaterial(c)
      PROVE  Ordered'
  <2>1. /\ pc' = [pc EXCEPT ![c] = "built"] /\ UNCHANGED <<target, snap, using>>
    BY <1>5 DEF ReadMaterial
  <2>2. \A d \in Calls : pc'[d] = "built" => d = c \/ pc[d] = "built"
    BY <1>1, <2>1
  <2> QED BY <1>5, <2>1, <2>2, MaterialChange DEF Ordered
<1>6. ASSUME NEW e \in Edits, UpdateTarget(e)
      PROVE  Ordered'
  <2>1. target'.gen = target.gen + 1 /\ UNCHANGED <<pc, snap, using, client>>
    BY <1>6 DEF UpdateTarget, Committed
  <2> QED BY <1>2, <2>1 DEF Ordered
<1>7. ASSUME \A d \in Calls : client'[d].target = client[d].target,
             \A d \in Calls : pc'[d] = "built" => pc[d] = "built",
             UNCHANGED <<target, snap, using>>
      PROVE  Ordered'
  BY <1>7 DEF Ordered
<1>8. ASSUME NEW c \in Calls,
             \/ Invoke(c) \/ TakeAuthLock(c) \/ Checked(c) \/ GetCached(c)
             \/ ReplaceClient(c) \/ BuildFails(c) \/ Build(c) \/ StaleSettled(c)
             \/ TakeSlot(c) \/ Answered(c) \/ AuthFails(c) \/ RequestFails(c)
             \/ Recorded(c) \/ Unwind(c)
      PROVE  Ordered'
  <2>1. /\ UNCHANGED <<target, snap, using>>
        /\ \E p : p # "built" /\ pc' = [pc EXCEPT ![c] = p]
    BY <1>8 DEF Invoke, TakeAuthLock, Checked, GetCached, ReplaceClient, BuildFails, Build,
                StaleSettled, TakeSlot, Answered, AuthFails, RequestFails, Recorded, Unwind,
                Leave, StartRequest
  <2>2. \A d \in Calls : pc'[d] = "built" => pc[d] = "built"
    BY <1>1, <2>1
  <2>3. CASE ReplaceClient(c)
    <3>1. \A d \in Calls : client'[d].target = client[d].target
      BY <2>3, RetiringKeepsRecords DEF ReplaceClient
    <3> QED BY <1>7, <2>1, <2>2, <3>1
  <2>4. CASE Build(c)
    <3>1. client' = [client EXCEPT ![c].state = "open"] /\ "open" \in Lives
      BY <2>4 DEF Build, Lives
    <3>2. \A d \in Calls : client'[d].target = client[d].target
      BY <3>1, StateChange
    <3> QED BY <1>7, <2>1, <2>2, <3>2
  <2>5. CASE \/ Invoke(c) \/ TakeAuthLock(c) \/ Checked(c) \/ GetCached(c) \/ BuildFails(c)
             \/ StaleSettled(c) \/ TakeSlot(c) \/ Answered(c) \/ AuthFails(c)
             \/ RequestFails(c) \/ Recorded(c) \/ Unwind(c)
    <3>1. UNCHANGED client
      BY <2>5 DEF Invoke, TakeAuthLock, Checked, GetCached, BuildFails, StaleSettled, TakeSlot,
                  Answered, AuthFails, RequestFails, Recorded, Unwind
    <3> QED BY <1>7, <2>1, <2>2, <3>1
  <2> QED BY <1>8, <2>3, <2>4, <2>5
<1>9. ASSUME NEW c \in Calls, Write(c) \/ Cancel(c) \/ Retirement(c)
      PROVE  Ordered'
  <2>1. UNCHANGED <<target, snap, using, pc>>
    BY <1>9 DEF Write, Cancel, Retirement, Drained, Shut, Settle, Becomes
  <2>2. CASE Retirement(c)
    <3>1. PICK life \in Lives : client' = [client EXCEPT ![c].state = life]
      BY <2>2 DEF Retirement, Drained, Shut, Settle, Becomes, Lives
    <3>2. \A d \in Calls : client'[d].target = client[d].target
      BY <3>1, StateChange
    <3> QED BY <1>7, <2>1, <3>2
  <2>3. CASE Write(c) \/ Cancel(c)
    <3>1. UNCHANGED client
      BY <2>3 DEF Write, Cancel
    <3> QED BY <1>7, <2>1, <3>1
  <2> QED BY <1>9, <2>2, <2>3
<1>10. ASSUME NEW e \in Edits, DeleteTarget(e) \/ ReplaceApplianceCA(e) \/ EditStep(e)
       PROVE  Ordered'
  <2>1. UNCHANGED <<target, snap, using, pc>>
    BY <1>10 DEF DeleteTarget, ReplaceApplianceCA, Committed, EditStep, Invalidate, Gathered,
                 RetireOlder, SettledOne
  <2>2. CASE RetireOlder(e)
    <3>1. \E k : Retire(k)
      BY <2>2 DEF RetireOlder
    <3>2. \A d \in Calls : client'[d].target = client[d].target
      BY <3>1, RetiringKeepsRecords
    <3> QED BY <1>7, <2>1, <3>2
  <2>3. CASE \/ DeleteTarget(e) \/ ReplaceApplianceCA(e) \/ Invalidate(e) \/ Gathered(e)
             \/ SettledOne(e)
    <3>1. UNCHANGED client
      BY <2>3 DEF DeleteTarget, ReplaceApplianceCA, Committed, Invalidate, Gathered, SettledOne
    <3> QED BY <1>7, <2>1, <3>1
  <2> QED BY <1>10, <2>2, <2>3 DEF EditStep
<1>11. Unlock \/ Revoked \/ UNCHANGED vars => UNCHANGED <<target, snap, using, pc, client>>
  BY DEF Unlock, Revoked, vars
<1> QED
  BY <1>3, <1>4, <1>5, <1>6, <1>7, <1>8, <1>9, <1>10, <1>11 DEF Next, CallStep

\* Generations, bundles and the cut-off only grow.
LEMMA OnlyGrow ==
    ASSUME Typed, [Next]_vars
    PROVE  trust' >= trust /\ cutoff' >= cutoff
<1> USE DEF rowVars, poolVars
<1>1. trust \in Nat /\ cutoff \in Nat
  BY DEF Typed, RowTypes, PoolTypes
<1>2. ASSUME NEW c \in Calls,
             \/ Snapshot(c) \/ Invoke(c) \/ CallStep(c) \/ Write(c) \/ Cancel(c)
             \/ Retirement(c)
      PROVE  UNCHANGED <<trust, cutoff>>
  BY <1>2 DEF Snapshot, Invoke, CallStep, TakeAuthLock, ReadFresh, Checked, GetCached,
              ReplaceClient, BuildFails, ReadMaterial, Build, StaleSettled, TakeSlot, Answered,
              AuthFails, RequestFails, Recorded, Unwind, Write, Cancel, Retirement, Drained,
              Shut, Settle, Becomes
<1>3. ASSUME NEW e \in Edits, UpdateTarget(e) \/ DeleteTarget(e) \/ ReplaceApplianceCA(e)
      PROVE  trust' >= trust /\ UNCHANGED cutoff
  BY <1>1, <1>3 DEF UpdateTarget, DeleteTarget, ReplaceApplianceCA, Committed
<1>4. ASSUME NEW e \in Edits, Invalidate(e)
      PROVE  cutoff' >= cutoff /\ UNCHANGED trust
  <2>1. change[e].gen \in Nat
    BY DEF Typed, EditTypes
  <2> QED BY <1>1, <1>4, <2>1 DEF Invalidate
<1>5. ASSUME NEW e \in Edits, Gathered(e) \/ RetireOlder(e) \/ SettledOne(e)
      PROVE  UNCHANGED <<trust, cutoff>>
  BY <1>5 DEF Gathered, RetireOlder, SettledOne
<1>6. Unlock \/ Revoked \/ UNCHANGED vars => UNCHANGED <<trust, cutoff>>
  BY DEF Unlock, Revoked, vars
<1> QED BY <1>1, <1>2, <1>3, <1>4, <1>5, <1>6 DEF Next, EditStep

\* A step is one of an admin request, or leaves what those requests hold alone.
EditsAlone == UNCHANGED <<step, change, waits, severed, retrusted>>

LEMMA OtherSteps ==
    ASSUME [Next]_vars
    PROVE  \/ EditsAlone
           \/ \E e \in Edits :
                \/ UpdateTarget(e) \/ DeleteTarget(e) \/ ReplaceApplianceCA(e)
                \/ Invalidate(e) \/ Gathered(e) \/ RetireOlder(e) \/ SettledOne(e)
<1> USE DEF editVars, historyVars, EditsAlone
<1>1. ASSUME NEW c \in Calls,
             \/ Snapshot(c) \/ Invoke(c) \/ CallStep(c) \/ Write(c) \/ Cancel(c)
             \/ Retirement(c)
      PROVE  EditsAlone
  BY <1>1 DEF Snapshot, Invoke, CallStep, TakeAuthLock, ReadFresh, Checked, GetCached,
              ReplaceClient, BuildFails, ReadMaterial, Build, StaleSettled, TakeSlot, Answered,
              AuthFails, RequestFails, Recorded, Unwind, Write, Cancel, Retirement, Drained,
              Shut, Settle, Becomes
<1>2. Unlock \/ Revoked \/ UNCHANGED vars => EditsAlone
  BY DEF Unlock, Revoked, vars
<1> HIDE DEF EditsAlone
<1> QED BY <1>1, <1>2 DEF Next, EditStep

\* The commit of a change, for each of the routes.
LEMMA Commits ==
    ASSUME Typed, NEW e \in Edits,
           UpdateTarget(e) \/ DeleteTarget(e) \/ ReplaceApplianceCA(e)
    PROVE  /\ step' = [step EXCEPT ![e] = "committed"]
           /\ \A d \in Edits \ {e} : change'[d] = change[d]
           /\ change'[e].trust \in {0, trust'}
           /\ change'[e].mode # "all" => change'[e].trust = 0
           /\ UNCHANGED <<waits, severed, retrusted, cutoff>>
<1> USE DEF historyVars, poolVars
<1>1. change \in [Edits -> [mode : Modes, gen : Nat, trust : Nat]]
  BY DEF Typed, EditTypes
<1>2. ASSUME NEW mode, NEW gen, NEW bundle, Committed(e, mode, gen, bundle)
      PROVE  /\ step' = [step EXCEPT ![e] = "committed"]
             /\ \A d \in Edits \ {e} : change'[d] = change[d]
             /\ change'[e].mode = mode /\ change'[e].trust = bundle
             /\ UNCHANGED <<waits, severed, retrusted, cutoff>>
  <2> DEFINE q == [mode |-> mode, gen |-> gen, trust |-> bundle]
  <2>1. q.mode = mode /\ q.trust = bundle
    OBVIOUS
  <2>2. step' = [step EXCEPT ![e] = "committed"] /\ change' = [change EXCEPT ![e] = q]
        /\ UNCHANGED <<waits, severed, retrusted, cutoff>>
    BY <1>2 DEF Committed
  <2> HIDE DEF q
  <2> QED BY <1>1, <2>1, <2>2
<1>3. CASE UpdateTarget(e)
  <2>1. \E mode \in {"cancel", "drain"} : Committed(e, mode, target.gen + 1, 0)
    BY <1>3 DEF UpdateTarget
  <2> QED BY <1>2, <2>1
<1>4. CASE DeleteTarget(e)
  BY <1>2, <1>4 DEF DeleteTarget
<1>5. CASE ReplaceApplianceCA(e)
  BY <1>2, <1>5 DEF ReplaceApplianceCA
<1> QED BY <1>3, <1>4, <1>5

LEMMA ChangesStep ==
    ASSUME Typed, Changes, [Next]_vars
    PROVE  Changes'
<1>1. /\ trust \in Nat /\ trust' \in Nat /\ trust' >= trust
      /\ cutoff \in Nat /\ cutoff' \in Nat /\ cutoff' >= cutoff
  BY OnlyGrow, RowTypesStep, PoolTypesStep DEF Typed, RowTypes, PoolTypes
<1>2. severed \in Nat /\ retrusted \in Nat
      /\ \A e \in Edits : change[e].gen \in Nat /\ change[e].trust \in Nat
      /\ step \in [Edits -> {"idle", "committed", "gather", "queued", "settle", "done"}]
  BY DEF Typed, EditTypes
<1>3. CASE EditsAlone
  BY <1>1, <1>2, <1>3 DEF EditsAlone, Changes
<1>4. ASSUME NEW e \in Edits, UpdateTarget(e) \/ DeleteTarget(e) \/ ReplaceApplianceCA(e)
      PROVE  Changes'
  <2>1. /\ step' = [step EXCEPT ![e] = "committed"]
        /\ \A d \in Edits \ {e} : change'[d] = change[d]
        /\ change'[e].trust \in {0, trust'}
        /\ change'[e].mode # "all" => change'[e].trust = 0
        /\ UNCHANGED <<waits, severed, retrusted, cutoff>>
    BY <1>4, Commits
  <2>2. step'[e] = "committed" /\ \A d \in Edits \ {e} : step'[d] = step[d]
    BY <1>2, <2>1
  <2> QED BY <1>1, <1>2, <2>1, <2>2 DEF Changes
<1>5. ASSUME NEW e \in Edits, Invalidate(e)
      PROVE  Changes'
  <2>1. /\ \A d \in Edits : d # e => step'[d] = step[d]
        /\ change[e].mode = "cancel" => cutoff' >= change[e].gen
        /\ UNCHANGED <<change, trust, severed, retrusted>>
    BY <1>1, <1>2, <1>5 DEF Invalidate, historyVars, rowVars
  <2> QED BY <1>1, <1>2, <2>1 DEF Changes
<1>6. ASSUME NEW e \in Edits, Gathered(e)
      PROVE  Changes'
  <2>1. /\ step[e] = "gather" /\ \A d \in Edits : d # e => step'[d] = step[d]
        /\ UNCHANGED <<change, trust, cutoff, severed, retrusted>>
    BY <1>2, <1>6 DEF Gathered, historyVars, rowVars, poolVars
  <2> QED BY <1>1, <1>2, <2>1 DEF Changes
<1>7. ASSUME NEW e \in Edits, RetireOlder(e) \/ SettledOne(e)
      PROVE  Changes'
  <2>1. step[e] \in {"queued", "settle"} /\ UNCHANGED change
    BY <1>7 DEF RetireOlder, SettledOne
  <2>2. \E rest \in SUBSET Calls : SettleRest(e, rest)
    BY <1>7, SettlesClients
  <2>3. /\ \A d \in Edits : d # e => step'[d] = step[d]
        /\ severed' \in {severed, change[e].gen}
        /\ severed' # severed => change[e].mode = "cancel"
        /\ retrusted' \in {retrusted, change[e].trust}
    BY <1>2, <2>2, SettleRestCases
  <2>4. severed' <= cutoff /\ retrusted' <= trust
    BY <2>1, <2>3 DEF Changes
  <2> QED BY <1>1, <1>2, <2>1, <2>3, <2>4 DEF Changes
<1> QED BY <1>3, <1>4, <1>5, <1>6, <1>7, OtherSteps

-----------------------------------------------------------------------------
(* The barrier of an invalidation.                                         *)

\* Once its cut-off is set, an invalidation in mode CANCEL has excluded every
\* older call, but for those it gathers.
Excluded(e) ==
    change[e].mode = "cancel" /\ step[e] \in {"gather", "queued", "settle"} =>
        \A c \in Registered : snap[c] >= change[e].gen \/ (step[e] = "gather" /\ c \in waits[e])

\* An older client that is alive is one that it still has to settle.
Severs(e) ==
    change[e].mode = "cancel" /\ step[e] = "settle" =>
        \A k \in Calls : Alive(k) => client[k].target.gen >= change[e].gen \/ k \in waits[e]

\* So is one that trusts an earlier bundle, and none is built with it any more.
Retrusts(e) ==
    step[e] = "settle" =>
        \A k \in Calls :
            /\ Alive(k) => client[k].trust >= change[e].trust \/ k \in waits[e]
            /\ pc[k] = "built" => client[k].trust >= change[e].trust

Barrier(e) == Excluded(e) /\ Severs(e) /\ Retrusts(e)

\* What was reported of the appliance's trust holds for every client.
BundleIsCurrent ==
    \A k \in Calls : Alive(k) \/ pc[k] = "built" => client[k].trust >= retrusted

Sound ==
    /\ Typed
    /\ Building
    /\ OnlyTheCachedClientIsOpen
    /\ Ordered
    /\ Changes
    /\ \A e \in Edits : Barrier(e)
    /\ CancelIsFinal
    /\ BundleIsCurrent

LEMMA Numbers ==
    ASSUME Typed
    PROVE  /\ trust \in Nat /\ cutoff \in Nat /\ severed \in Nat /\ retrusted \in Nat
           /\ \A e \in Edits : change[e].gen \in Nat /\ change[e].trust \in Nat
           /\ \A c \in Calls : /\ snap[c] \in Nat /\ using[c].gen \in Nat
                               /\ client[c].target.gen \in Nat /\ client[c].trust \in Nat
BY ClientFields DEF Typed, RowTypes, PoolTypes, EditTypes, CallTypes, Records

\* Whatever happens, what a request has excluded stays out: a late call meets the
\* cut-off, and a client built late has the record and the bundle of now.
LEMMA BarrierKept ==
    ASSUME Sound, [Next]_vars, NEW e \in Edits,
           step'[e] = step[e], change'[e] = change[e], waits'[e] = waits[e]
    PROVE  Barrier(e)'
<1>1. Barrier(e) /\ Typed
  BY DEF Sound
<1>2. \A d \in Registered' : snap'[d] = snap[d] /\ (d \in Registered \/ snap[d] >= cutoff)
  BY <1>1, RegisteredSteps
<1>3. \A k \in Calls : FromBefore(k)
  BY ClientSteps DEF Sound
<1>4. Registered \subseteq Calls /\ Registered' \subseteq Calls
  BY DEF Registered
<1>5. \A c \in Calls : snap[c] <= using[c].gen
  BY DEF Sound, Ordered
<1>6. change[e].trust <= trust
      /\ (change[e].mode = "cancel" /\ step[e] \in {"gather", "queued", "settle"} =>
             change[e].gen <= cutoff)
  BY DEF Sound, Changes
<1>7. Excluded(e)'
  <2> SUFFICES ASSUME change[e].mode = "cancel", step[e] \in {"gather", "queued", "settle"},
                      NEW d \in Registered'
               PROVE  snap[d] >= change[e].gen \/ (step[e] = "gather" /\ d \in waits[e])
    BY <1>2 DEF Excluded
  <2>1. CASE d \in Registered
    BY <1>1, <2>1 DEF Barrier, Excluded
  <2>2. CASE snap[d] >= cutoff
    BY <1>1, <1>4, <1>6, <2>2, Numbers
  <2> QED BY <1>2, <2>1, <2>2
<1>8. Severs(e)'
  <2> SUFFICES ASSUME change[e].mode = "cancel", step[e] = "settle", NEW k \in Calls, Alive(k)'
               PROVE  client'[k].target.gen >= change[e].gen \/ k \in waits[e]
    BY DEF Severs, Alive
  <2>1. CASE Alive(k) /\ client'[k].target = client[k].target
    BY <1>1, <2>1 DEF Barrier, Severs
  <2>2. CASE k \in Registered /\ client'[k].target = using[k]
    <3>1. snap[k] >= change[e].gen
      BY <1>1, <2>2 DEF Barrier, Excluded
    <3> QED BY <1>1, <1>5, <2>2, <3>1, Numbers
  <2> QED BY <1>3, <2>1, <2>2 DEF FromBefore
<1>9. Retrusts(e)'
  <2> SUFFICES ASSUME step[e] = "settle", NEW k \in Calls
               PROVE  /\ Alive(k)' => client'[k].trust >= change[e].trust \/ k \in waits[e]
                      /\ pc'[k] = "built" => client'[k].trust >= change[e].trust
    BY DEF Retrusts, Alive
  <2>1. trust >= change[e].trust
    BY <1>1, <1>6, Numbers
  <2>2. /\ Alive(k) => client[k].trust >= change[e].trust \/ k \in waits[e]
        /\ pc[k] = "built" => client[k].trust >= change[e].trust
    BY <1>1 DEF Barrier, Retrusts
  <2> QED BY <1>3, <2>1, <2>2 DEF FromBefore
<1> QED BY <1>7, <1>8, <1>9 DEF Barrier

LEMMA FinalKept ==
    ASSUME Sound, [Next]_vars, UNCHANGED <<severed, retrusted>>
    PROVE  CancelIsFinal' /\ BundleIsCurrent'
<1>1. Typed /\ CancelIsFinal /\ BundleIsCurrent
  BY DEF Sound
<1>2. \A d \in Registered' : snap'[d] = snap[d] /\ (d \in Registered \/ snap[d] >= cutoff)
  BY <1>1, RegisteredSteps
<1>3. \A k \in Calls : FromBefore(k)
  BY ClientSteps DEF Sound
<1>4. Registered \subseteq Calls /\ Registered' \subseteq Calls
  BY DEF Registered
<1>5. severed <= cutoff /\ retrusted <= trust /\ \A c \in Calls : snap[c] <= using[c].gen
  BY DEF Sound, Changes, Ordered
<1>6. \A d \in Registered' : snap'[d] >= severed
  BY <1>1, <1>2, <1>4, <1>5, Numbers DEF CancelIsFinal
<1>7. ASSUME NEW k \in Calls, Alive(k)'
      PROVE  client'[k].target.gen >= severed
  <2>1. CASE Alive(k) /\ client'[k].target = client[k].target
    BY <1>1, <2>1 DEF CancelIsFinal, Alive
  <2>2. CASE k \in Registered /\ client'[k].target = using[k]
    <3>1. snap[k] >= severed
      BY <1>1, <2>2 DEF CancelIsFinal
    <3> QED BY <1>1, <1>5, <2>2, <3>1, Numbers
  <2> QED BY <1>3, <1>7, <2>1, <2>2 DEF FromBefore
<1>8. ASSUME NEW k \in Calls, Alive(k)' \/ pc'[k] = "built"
      PROVE  client'[k].trust >= retrusted
  <2>1. trust >= retrusted
    BY <1>1, <1>5, Numbers
  <2>2. Alive(k) \/ pc[k] = "built" => client[k].trust >= retrusted
    BY <1>1 DEF BundleIsCurrent
  <2> QED BY <1>3, <1>8, <2>1, <2>2 DEF FromBefore
<1> QED BY <1>6, <1>7, <1>8 DEF CancelIsFinal, BundleIsCurrent, Alive

\* A request goes on to the next client, or reports: what it has still to settle
\* is all that is older.
LEMMA BarrierPassed ==
    ASSUME Sound, [Next]_vars, NEW e \in Edits, NEW rest \in SUBSET Calls, SettleRest(e, rest),
           step[e] \in {"queued", "settle"}, UNCHANGED <<pc, snap, change>>,
           \A k \in Calls : Alive(k)' =>
              /\ Alive(k) /\ client'[k].target = client[k].target
              /\ client'[k].trust = client[k].trust
              /\ change[e].mode = "cancel" => client[k].target.gen >= change[e].gen \/ k \in rest
              /\ client[k].trust >= change[e].trust \/ k \in rest,
           \A k \in Calls : pc[k] = "built" =>
              client'[k].trust = client[k].trust /\ client[k].trust >= change[e].trust
    PROVE  Barrier(e)' /\ CancelIsFinal' /\ BundleIsCurrent'
<1>1. Typed /\ Barrier(e) /\ CancelIsFinal /\ BundleIsCurrent
  BY DEF Sound
<1>2. Registered' = Registered
  BY DEF Registered
<1>3. step \in [Edits -> {"idle", "committed", "gather", "queued", "settle", "done"}]
      /\ waits \in [Edits -> SUBSET Calls]
  BY <1>1 DEF Typed, EditTypes
<1>4. change[e].mode = "cancel" => \A c \in Registered : snap[c] >= change[e].gen
  BY <1>1 DEF Barrier, Excluded
<1>5. CASE /\ rest = {}
           /\ step' = [step EXCEPT ![e] = "done"]
           /\ severed' \in {severed, change[e].gen}
           /\ severed' # severed => change[e].mode = "cancel"
           /\ retrusted' \in {retrusted, change[e].trust}
  <2>1. step'[e] = "done"
    BY <1>3, <1>5
  <2>2. Barrier(e)'
    BY <2>1 DEF Barrier, Excluded, Severs, Retrusts
  <2>3. CancelIsFinal'
    BY <1>1, <1>2, <1>4, <1>5 DEF CancelIsFinal, Alive
  <2>4. BundleIsCurrent'
    BY <1>1, <1>5 DEF BundleIsCurrent, Alive
  <2> QED BY <2>2, <2>3, <2>4
<1>6. CASE /\ step' = [step EXCEPT ![e] = "settle"]
           /\ waits' = [waits EXCEPT ![e] = rest]
           /\ UNCHANGED <<severed, retrusted>>
  <2>1. step'[e] = "settle" /\ waits'[e] = rest
    BY <1>3, <1>6
  <2>2. Excluded(e)'
    BY <1>2, <1>4, <2>1 DEF Excluded
  <2>3. Severs(e)' /\ Retrusts(e)'
    BY <2>1 DEF Severs, Retrusts, Alive
  <2> QED BY <1>6, <2>2, <2>3, FinalKept DEF Barrier
<1> QED BY <1>1, <1>5, <1>6, SettleRestCases

LEMMA RetirePasses ==
    ASSUME Sound, [Next]_vars, NEW e \in Edits, RetireOlder(e)
    PROVE  Barrier(e)' /\ CancelIsFinal' /\ BundleIsCurrent'
<1> DEFINE Retired == IF cached # NoClient /\ Older(cached, e) THEN cached ELSE NoClient
<1> DEFINE rest == {k \in Unsettled \cup ({Retired} \ {NoClient}) : Older(k, e)}
<1>1. Typed
  BY DEF Sound
<1>2. rest \in SUBSET Calls /\ SettleRest(e, rest)
  BY <1>1, SettlesClients
<1>3. step[e] = "queued" /\ Retire(Retired) /\ UNCHANGED <<pc, snap, change>>
  BY DEF RetireOlder
<1>4. \A k \in Calls : pc[k] # "built"
  <2>1. Holds(EditTicket(e))
    BY DEF RetireOlder
  <2> QED BY <2>1 DEF Holds, EditTicket, CallTicket, Sound, Building
<1>5. Retired \in Calls => Retired = cached /\ client[Retired].state = "open"
  BY PoolAssumption DEF Sound, OnlyTheCachedClientIsOpen
<1>6. \A k \in Calls : Alive(k)' =>
          /\ Alive(k) /\ client'[k].target = client[k].target
          /\ client'[k].trust = client[k].trust
  <2> HIDE DEF Retired, rest
  <2>1. CASE UNCHANGED client
    BY <2>1 DEF Alive
  <2>2. CASE client' = [client EXCEPT ![Retired].state = "draining"]
    <3>1. \A k \in Calls : /\ client'[k].target = client[k].target
                           /\ client'[k].trust = client[k].trust
                           /\ k # Retired => client'[k].state = client[k].state
      BY <1>1, <2>2, StateChange DEF Lives
    <3> QED BY <1>5, <3>1 DEF Alive
  <2> QED BY <1>3, <2>1, <2>2 DEF Retire
<1>7. ASSUME NEW k \in Calls, Alive(k), Older(k, e)
      PROVE  k \in rest
  <2>1. client[k].state \in {"open", "draining", "closing", "shut"}
    BY <1>1, <1>7, ClientFields DEF Alive, Lives
  <2>2. CASE client[k].state = "open"
    <3>1. cached = k /\ k # NoClient
      BY <2>2, PoolAssumption DEF Sound, OnlyTheCachedClientIsOpen
    <3> QED BY <1>7, <3>1
  <2>3. CASE client[k].state \in {"draining", "closing", "shut"}
    BY <1>7, <2>3 DEF Unsettled
  <2> QED BY <2>1, <2>2, <2>3
<1>8. ASSUME NEW k \in Calls, Alive(k), ~Older(k, e)
      PROVE  client[k].target.gen >= change[e].gen /\ client[k].trust >= change[e].trust
  <2>1. change[e].mode # "all" /\ ~(client[k].target.gen < change[e].gen)
    BY <1>8 DEF Older
  <2>2. change[e].trust = 0
    BY <2>1 DEF Sound, Changes
  <2> QED BY <1>1, <2>1, <2>2, Numbers
<1> HIDE DEF rest, Retired
<1>9. \A k \in Calls : Alive(k)' =>
          /\ change[e].mode = "cancel" => client[k].target.gen >= change[e].gen \/ k \in rest
          /\ client[k].trust >= change[e].trust \/ k \in rest
  BY <1>6, <1>7, <1>8
<1> QED BY <1>2, <1>3, <1>4, <1>6, <1>9, BarrierPassed

LEMMA SettledPasses ==
    ASSUME Sound, [Next]_vars, NEW e \in Edits, SettledOne(e)
    PROVE  Barrier(e)' /\ CancelIsFinal' /\ BundleIsCurrent'
<1> DEFINE rest == waits[e] \ {at[e]}
<1>1. Typed /\ Barrier(e)
  BY DEF Sound
<1>2. rest \in SUBSET Calls /\ SettleRest(e, rest)
  BY <1>1, SettlesClients
<1>3. step[e] = "settle" /\ client[at[e]].state = "settled"
      /\ UNCHANGED <<pc, snap, change, client>>
  BY DEF SettledOne, callVars
<1>4. \A k \in Calls : Alive(k) => k # at[e]
  BY <1>3 DEF Alive
<1>5. \A k \in Calls : Alive(k) =>
          /\ change[e].mode = "cancel" => client[k].target.gen >= change[e].gen \/ k \in rest
          /\ client[k].trust >= change[e].trust \/ k \in rest
  BY <1>1, <1>3, <1>4 DEF Barrier, Severs, Retrusts
<1>6. \A k \in Calls : pc[k] = "built" => client[k].trust >= change[e].trust
  BY <1>1, <1>3 DEF Barrier, Retrusts
<1>7. \A k \in Calls : Alive(k)' <=> Alive(k)
  BY <1>3 DEF Alive
<1> HIDE DEF rest
<1> QED BY <1>2, <1>3, <1>5, <1>6, <1>7, BarrierPassed

LEMMA BarriersStep ==
    ASSUME Sound, [Next]_vars
    PROVE  (\A e \in Edits : Barrier(e)') /\ CancelIsFinal' /\ BundleIsCurrent'
<1>1. /\ step \in [Edits -> {"idle", "committed", "gather", "queued", "settle", "done"}]
      /\ waits \in [Edits -> SUBSET Calls] /\ Typed
  BY DEF Sound, Typed, EditTypes
<1>2. ASSUME NEW e \in Edits, Barrier(e)',
             \A d \in Edits \ {e} : /\ step'[d] = step[d] /\ change'[d] = change[d]
                                    /\ waits'[d] = waits[d]
      PROVE  \A d \in Edits : Barrier(d)'
  <2> SUFFICES ASSUME NEW d \in Edits, d # e PROVE Barrier(d)'
    BY <1>2
  <2> QED BY <1>2, BarrierKept
<1>3. CASE EditsAlone
  BY <1>3, BarrierKept, FinalKept DEF EditsAlone
<1>4. ASSUME NEW e \in Edits, UpdateTarget(e) \/ DeleteTarget(e) \/ ReplaceApplianceCA(e)
      PROVE  (\A d \in Edits : Barrier(d)') /\ CancelIsFinal' /\ BundleIsCurrent'
  <2>1. /\ step' = [step EXCEPT ![e] = "committed"]
        /\ \A d \in Edits \ {e} : change'[d] = change[d]
        /\ UNCHANGED <<waits, severed, retrusted>>
    BY <1>1, <1>4, Commits
  <2>2. step'[e] = "committed" /\ \A d \in Edits \ {e} : step'[d] = step[d]
    BY <1>1, <2>1
  <2>3. Barrier(e)'
    BY <2>2 DEF Barrier, Excluded, Severs, Retrusts
  <2> QED BY <1>2, <2>1, <2>2, <2>3, FinalKept
<1>5. ASSUME NEW e \in Edits, Invalidate(e)
      PROVE  (\A d \in Edits : Barrier(d)') /\ CancelIsFinal' /\ BundleIsCurrent'
  <2>1. /\ waits' = [waits EXCEPT ![e] = Victims(e)]
        /\ \/ Victims(e) = {} /\ step' = [step EXCEPT ![e] = "queued"]
           \/ step' = [step EXCEPT ![e] = "gather"]
        /\ UNCHANGED <<pc, snap, change, severed, retrusted>>
    BY <1>5 DEF Invalidate, historyVars
  <2>2. /\ waits'[e] = Victims(e)
        /\ \/ Victims(e) = {} /\ step'[e] = "queued"
           \/ step'[e] = "gather"
        /\ \A d \in Edits \ {e} : step'[d] = step[d] /\ waits'[d] = waits[d]
    BY <1>1, <2>1
  <2>3. Registered' = Registered
    BY <2>1 DEF Registered
  <2>4. change[e].mode = "cancel" => Victims(e) = {c \in Registered : snap[c] < change[e].gen}
    BY DEF Victims
  <2>5. \A c \in Registered : snap[c] \in Nat /\ change[e].gen \in Nat
    BY <1>1, Numbers DEF Registered
  <2>6. Excluded(e)'
    BY <2>1, <2>2, <2>3, <2>4, <2>5 DEF Excluded
  <2>7. Barrier(e)'
    BY <2>2, <2>6 DEF Barrier, Severs, Retrusts
  <2> QED BY <1>2, <2>1, <2>2, <2>7, FinalKept
<1>6. ASSUME NEW e \in Edits, Gathered(e)
      PROVE  (\A d \in Edits : Barrier(d)') /\ CancelIsFinal' /\ BundleIsCurrent'
  <2>1. /\ step[e] = "gather" /\ \A c \in waits[e] : pc[c] = "done"
        /\ step' = [step EXCEPT ![e] = "queued"]
        /\ UNCHANGED <<pc, snap, change, waits, severed, retrusted>>
    BY <1>6 DEF Gathered, historyVars, callVars
  <2>2. step'[e] = "queued" /\ \A d \in Edits \ {e} : step'[d] = step[d]
    BY <1>1, <2>1
  <2>3. Registered' = Registered /\ \A c \in Registered : pc[c] # "done"
    BY <2>1 DEF Registered
  <2>4. Excluded(e)
    BY DEF Sound, Barrier
  <2>5. Excluded(e)'
    BY <2>1, <2>2, <2>3, <2>4 DEF Excluded
  <2>6. Barrier(e)'
    BY <2>2, <2>5 DEF Barrier, Severs, Retrusts
  <2> QED BY <1>2, <2>1, <2>2, <2>6, FinalKept
<1>7. ASSUME NEW e \in Edits, RetireOlder(e) \/ SettledOne(e)
      PROVE  (\A d \in Edits : Barrier(d)') /\ CancelIsFinal' /\ BundleIsCurrent'
  <2>1. UNCHANGED change /\ \E rest \in SUBSET Calls : SettleRest(e, rest)
    BY <1>1, <1>7, SettlesClients DEF RetireOlder, SettledOne
  <2>2. \A d \in Edits \ {e} : step'[d] = step[d] /\ waits'[d] = waits[d]
    BY <1>1, <2>1, SettleRestCases
  <2> QED BY <1>2, <1>7, <2>1, <2>2, RetirePasses, SettledPasses
<1> QED BY <1>3, <1>4, <1>5, <1>6, <1>7, OtherSteps

-----------------------------------------------------------------------------
(* The invariant.                                                          *)

\* A request runs on a client.
RunsOnAClient == \A c \in Calls : pc[c] \in {"slot", "sending"} => on[c] \in Calls

LEMMA RunsStep ==
    ASSUME Typed, RunsOnAClient, [Next]_vars
    PROVE  RunsOnAClient'
<1> USE DEF callVars
<1>1. CallTypes
  BY DEF Typed
<1>2. ASSUME NEW c \in Calls,
             \/ Snapshot(c) \/ Invoke(c) \/ TakeAuthLock(c) \/ ReadFresh(c) \/ Checked(c)
             \/ ReplaceClient(c) \/ BuildFails(c) \/ ReadMaterial(c) \/ Answered(c)
             \/ AuthFails(c) \/ RequestFails(c) \/ Recorded(c) \/ Unwind(c)
      PROVE  RunsOnAClient'
  <2>1. UNCHANGED on /\ \E p : p \notin {"slot", "sending"} /\ pc' = [pc EXCEPT ![c] = p]
    BY <1>2 DEF Snapshot, Invoke, TakeAuthLock, ReadFresh, Checked, ReplaceClient, BuildFails,
                ReadMaterial, Answered, AuthFails, RequestFails, Recorded, Unwind, Leave
  <2> QED BY <1>1, <2>1 DEF RunsOnAClient, CallTypes
<1>3. ASSUME NEW c \in Calls, NEW k \in Calls, on' = [on EXCEPT ![c] = k],
             \E p : pc' = [pc EXCEPT ![c] = p]
      PROVE  RunsOnAClient'
  BY <1>1, <1>3 DEF RunsOnAClient, CallTypes
<1>4. ASSUME NEW c \in Calls, NEW k \in Calls, StartRequest(c, k)
      PROVE  RunsOnAClient'
  BY <1>3, <1>4 DEF StartRequest
<1>5. ASSUME NEW c \in Calls, GetCached(c)
      PROVE  RunsOnAClient'
  <2>1. cached \in Calls
    BY <1>5 DEF GetCached, CacheHit, Typed, PoolTypes
  <2> QED BY <1>4, <1>5, <2>1 DEF GetCached
<1>6. ASSUME NEW c \in Calls, Build(c)
      PROVE  RunsOnAClient'
  BY <1>3, <1>4, <1>6 DEF Build
<1>7. ASSUME NEW c \in Calls, StaleSettled(c)
      PROVE  RunsOnAClient'
  <2>1. CASE StartRequest(c, c)
    BY <1>4, <2>1
  <2>2. CASE Leave(c, "superseded") /\ UNCHANGED on
    BY <1>1, <2>2 DEF Leave, RunsOnAClient, CallTypes
  <2> QED BY <1>7, <2>1, <2>2 DEF StaleSettled
<1>8. ASSUME NEW c \in Calls, TakeSlot(c)
      PROVE  RunsOnAClient'
  BY <1>1, <1>8 DEF TakeSlot, RunsOnAClient, CallTypes
<1>9. ASSUME NEW c \in Calls, Write(c) \/ Cancel(c) \/ Retirement(c)
      PROVE  UNCHANGED <<pc, on>>
  BY <1>9 DEF Write, Cancel, Retirement, Drained, Shut, Settle, Becomes
<1>10. ASSUME NEW e \in Edits,
             UpdateTarget(e) \/ DeleteTarget(e) \/ ReplaceApplianceCA(e) \/ EditStep(e)
       PROVE  UNCHANGED <<pc, on>>
  BY <1>10 DEF UpdateTarget, DeleteTarget, ReplaceApplianceCA, Committed, EditStep, Invalidate,
               Gathered, RetireOlder, SettledOne
<1>11. Unlock \/ Revoked \/ UNCHANGED vars => UNCHANGED <<pc, on>>
  BY DEF Unlock, Revoked, vars
<1>12. UNCHANGED <<pc, on>> => RunsOnAClient'
  BY DEF RunsOnAClient
<1> QED BY <1>2, <1>5, <1>6, <1>7, <1>8, <1>9, <1>10, <1>11, <1>12 DEF Next, CallStep

PoolInv == Sound /\ RunsOnAClient

LEMMA InitPool == Init => PoolInv
<1> SUFFICES ASSUME Init PROVE PoolInv
  OBVIOUS
<1>1. /\ target = [gen |-> 1, verifies |-> FALSE] /\ trust = 1
      /\ exists = TRUE /\ locked = FALSE /\ accepts \in BOOLEAN /\ failures = 0
      /\ cached = NoClient /\ confirmed = 0 /\ cutoff = 0
      /\ lock = <<>> /\ authLock = NoClient /\ doomed = {}
      /\ reported = 0 /\ severed = 0 /\ retrusted = 0
  BY DEF Init
<1>2. /\ client = [k \in Calls |-> [state |-> "none", target |-> target, trust |-> 0]]
      /\ pc = [c \in Calls |-> "idle"] /\ snap = [c \in Calls |-> 0]
      /\ using = [c \in Calls |-> target] /\ on = [c \in Calls |-> NoClient]
      /\ stale = [c \in Calls |-> NoClient] /\ write = [c \in Calls |-> "none"]
      /\ result = [c \in Calls |-> "none"]
  BY DEF Init
<1>3. /\ step = [e \in Edits |-> "idle"]
      /\ change = [e \in Edits |-> [mode |-> "drain", gen |-> 0, trust |-> 0]]
      /\ waits = [e \in Edits |-> {}]
  BY DEF Init
<1>4. target \in Records /\ target.gen = 1
  BY <1>1 DEF Records
<1>5. CallTypes
  BY <1>1, <1>2, <1>4 DEF CallTypes
<1>6. RowTypes
  BY <1>1, <1>4 DEF RowTypes
<1>7. PoolTypes
  BY <1>1, <1>2, <1>4 DEF PoolTypes, Lives
<1>8. EditTypes
  BY <1>1, <1>3 DEF EditTypes, Modes
<1>9. Typed
  <2>1. lock \in Seq(Tickets)
    BY <1>1, EmptySeq
  <2> QED BY <1>1, <1>5, <1>6, <1>7, <1>8, <2>1 DEF Typed, DoomedAreInside
<1>10. \A c \in Calls : /\ pc[c] = "idle" /\ snap[c] = 0 /\ using[c] = target
                        /\ client[c].state = "none"
  BY <1>2
<1>11. Building /\ RunsOnAClient /\ Ordered
  BY <1>4, <1>10 DEF Building, RunsOnAClient, Ordered
<1>12. OnlyTheCachedClientIsOpen
  BY <1>1, <1>10, PoolAssumption DEF OnlyTheCachedClientIsOpen
<1>13. Changes /\ \A e \in Edits : Barrier(e)
  BY <1>1, <1>3 DEF Changes, Barrier, Excluded, Severs, Retrusts
<1>14. CancelIsFinal /\ BundleIsCurrent
  BY <1>10 DEF CancelIsFinal, BundleIsCurrent, Registered, Alive
<1> QED BY <1>9, <1>11, <1>12, <1>13, <1>14 DEF PoolInv, Sound

LEMMA PoolStep == PoolInv /\ [Next]_vars => PoolInv'
<1> SUFFICES ASSUME PoolInv, [Next]_vars PROVE PoolInv'
  OBVIOUS
<1>1. Sound /\ RunsOnAClient
  BY DEF PoolInv
<1>2. Typed /\ Building /\ OnlyTheCachedClientIsOpen /\ Ordered /\ Changes
  BY <1>1 DEF Sound
<1>3. Typed' /\ Building'
  BY <1>2, TypedStep, BuildingStep
<1>4. OnlyTheCachedClientIsOpen' /\ Ordered' /\ Changes'
  BY <1>2, OpenStep, OrderedStep, ChangesStep
<1>5. (\A e \in Edits : Barrier(e)') /\ CancelIsFinal' /\ BundleIsCurrent'
  BY <1>1, BarriersStep
<1>6. RunsOnAClient'
  BY <1>1, <1>2, RunsStep
<1> QED BY <1>3, <1>4, <1>5, <1>6 DEF PoolInv, Sound

LEMMA Always == Spec => []PoolInv
BY InitPool, PoolStep, PTL DEF Spec

-----------------------------------------------------------------------------
(* The theorems.                                                           *)

\* The pool's state keeps its shape: in particular a cancellation is on its way
\* only to a task in the registry, and whoever queues for the lock is known.
THEOREM PoolTypeOK == Spec => []TypeOK
<1>1. PoolInv => TypeOK
  BY DEF PoolInv, Sound, Typed, CallTypes, RowTypes, PoolTypes, EditTypes, DoomedAreInside,
         TypeOK, Records, Lives, Inside, Tickets
<1> QED BY <1>1, Always, PTL

\* BackendClientPool never loses an open client: only the one in _clients takes
\* requests, and every other one is being retired.
THEOREM OneClientIsOpen == Spec => []OnlyTheCachedClientIsOpen
<1>1. PoolInv => OnlyTheCachedClientIsOpen
  BY DEF PoolInv, Sound
<1> QED BY <1>1, Always, PTL

\* A cancelling invalidation that was reported is final, however many calls and
\* admin requests interleave with it (invalidate, _cancel_calls, invoke).
THEOREM CancellationIsFinal == Spec => []CancelIsFinal
<1>1. PoolInv => CancelIsFinal
  BY DEF PoolInv, Sound
<1> QED BY <1>1, Always, PTL

\* No request travels on a connection that trusts a bundle older than the last
\* one that invalidate_all was reported for.
THEOREM TrustIsAlwaysCurrent == Spec => []TrustIsCurrent
<1>1. PoolInv => TrustIsCurrent
  BY DEF PoolInv, Sound, RunsOnAClient, BundleIsCurrent, TrustIsCurrent, Connected, Alive
<1> QED BY <1>1, Always, PTL
=============================================================================
