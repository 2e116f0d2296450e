---------------------- MODULE BackendPoolBounds_proofs ----------------------
(***************************************************************************)
(* Proofs of what is bounded in the pool, for any number of calls and      *)
(* admin requests and any AUTH_FAILURE_LIMIT: how often wrong credentials  *)
(* are tried, how long anyone waits, and how many steps a run takes.       *)
(***************************************************************************)
EXTENDS BackendPool_proofs, FiniteSetTheorems

\* No call ended well, so no generation was ever confirmed.
NoneConfirmed == \A c \in Calls : ~(result[c] = "ok" /\ pc[c] = "done")

\* Past the check of the lockout, and not yet answered.
Attempting == {"checked", "pool", "build", "built", "settle", "slot", "sending"}

\* What only the owner of the authentication lock does before the first success.
Guarded == Attempting \cup {"fresh", "recording"}

\* The call may still add a failure while it owns the authentication lock.
Trying(c) == pc[c] \in Attempting \/ (pc[c] = "recording" /\ write[c] = "failure")

\* Cancelled calls that add no failure any more.
Spent == {c \in Calls : result[c] = "cancelled" /\ write[c] # "failure"}

\* Every failure in a thread belongs to a call that records it or was cancelled.
OneCall(c) ==
    /\ pc[c] # "idle" => snap[c] >= 1
    /\ result[c] = "cancelled" => pc[c] = "done"
    /\ write[c] = "failure" => pc[c] = "recording" \/ result[c] = "cancelled"
    /\ NoneConfirmed /\ pc[c] \in Guarded => authLock = c

\* One call at a time tries credentials that were never confirmed.
Serial ==
    /\ \A c \in Calls : OneCall(c)
    /\ NoneConfirmed => confirmed = 0

\* Failures counted, and those that the calls at work may still add.
Counting ==
    /\ ~locked => failures < AUTH_FAILURE_LIMIT
    /\ NoneConfirmed =>
          /\ failures <= AUTH_FAILURE_LIMIT + Cardinality(Spent)
          /\ \A c \in Calls :
                Trying(c) => failures + 1 <= AUTH_FAILURE_LIMIT + Cardinality(Spent)

LockoutInv == PoolInv /\ Serial /\ Counting

-----------------------------------------------------------------------------
(* Steps of one call that count nothing.                                   *)

\* The other calls stay where they are and keep the authentication lock.
OthersStay(c) ==
    \A d \in Calls \ {c} :
        /\ pc'[d] = pc[d] /\ result'[d] = result[d] /\ write'[d] = write[d]
        /\ snap'[d] = snap[d]
        /\ authLock = d => authLock' = d

\* A call that ended has ended, with its result.
Ends(c) == pc[c] = "done" => pc'[c] = "done" /\ result'[c] = result[c]

LEMMA SpentIsFinite ==
    /\ IsFiniteSet(Spent)
    /\ Cardinality(Spent) \in Nat
<1>1. Spent \subseteq Calls
  BY DEF Spent
<1> QED BY <1>1, PoolAssumption, FS_Subset, FS_CardinalityType

LEMMA SpentStays ==
    ASSUME NEW c \in Calls, OthersStay(c), c \in Spent => c \in Spent'
    PROVE  /\ Cardinality(Spent)' \in Nat
           /\ Cardinality(Spent) <= Cardinality(Spent)'
<1>1. Spent \subseteq Spent'
  BY DEF Spent, OthersStay
<1>2. Spent' \subseteq Calls
  BY DEF Spent
<1>3. IsFiniteSet(Spent')
  BY <1>2, PoolAssumption, FS_Subset
<1> QED BY <1>1, <1>3, FS_Subset, FS_CardinalityType

\* Confirmation is for ever: a call that ended well stays.
LEMMA ConfirmedStays ==
    ASSUME NEW c \in Calls, OthersStay(c), Ends(c)
    PROVE  NoneConfirmed' => NoneConfirmed
BY DEF OthersStay, Ends, NoneConfirmed

LEMMA QuietStep ==
    ASSUME Serial, Counting, failures \in Nat, NEW c \in Calls, OthersStay(c), Ends(c),
           OneCall(c)', NoneConfirmed' => confirmed' \in {confirmed, 0},
           UNCHANGED <<failures, locked>>, c \in Spent => c \in Spent',
           Trying(c)' => Trying(c) \/ failures < AUTH_FAILURE_LIMIT
    PROVE  Serial' /\ Counting'
<1>1. NoneConfirmed' => NoneConfirmed
  BY ConfirmedStays
<1>2. \A d \in Calls \ {c} : OneCall(d)'
  BY <1>1 DEF Serial, OneCall, OthersStay
<1>3. Serial'
  BY <1>1, <1>2 DEF Serial
<1>4. /\ Cardinality(Spent) \in Nat /\ Cardinality(Spent)' \in Nat
      /\ Cardinality(Spent) <= Cardinality(Spent)'
  BY SpentStays, SpentIsFinite
<1>5. AUTH_FAILURE_LIMIT \in Nat
  BY PoolAssumption
<1>6. \A d \in Calls : Trying(d)' => Trying(d) \/ failures < AUTH_FAILURE_LIMIT
  BY DEF Trying, OthersStay
<1>7. Counting'
  <2>1. ~locked' => failures' < AUTH_FAILURE_LIMIT
    BY DEF Counting
  <2>2. NoneConfirmed' => failures' <= AUTH_FAILURE_LIMIT + Cardinality(Spent)'
    BY <1>1, <1>4, <1>5 DEF Counting
  <2>3. ASSUME NoneConfirmed', NEW d \in Calls, Trying(d)'
        PROVE  failures' + 1 <= AUTH_FAILURE_LIMIT + Cardinality(Spent)'
    <3>1. CASE Trying(d)
      BY <1>1, <1>4, <1>5, <2>3, <3>1 DEF Counting
    <3>2. CASE failures < AUTH_FAILURE_LIMIT
      BY <1>4, <1>5, <3>2
    <3> QED BY <1>6, <2>3, <3>1, <3>2
  <2> QED BY <2>1, <2>2, <2>3 DEF Counting
<1> QED BY <1>3, <1>7

\* The same when no call moves.
LEMMA NobodyMoves ==
    ASSUME Serial, Counting, failures \in Nat,
           UNCHANGED <<pc, snap, write, result, authLock>>, confirmed' \in {confirmed, 0},
           UNCHANGED <<failures, locked>> \/ (failures' = 0 /\ locked' = FALSE)
    PROVE  Serial' /\ Counting'
<1>1. NoneConfirmed' <=> NoneConfirmed
  BY DEF NoneConfirmed
<1>2. \A c \in Calls : (OneCall(c)' <=> OneCall(c)) /\ (Trying(c)' <=> Trying(c))
  BY <1>1 DEF OneCall, Trying
<1>3. Spent' = Spent
  BY DEF Spent
<1>4. Serial'
  BY <1>1, <1>2 DEF Serial
<1>5. Cardinality(Spent) \in Nat /\ AUTH_FAILURE_LIMIT \in Nat \ {0}
  BY SpentIsFinite, PoolAssumption
<1>6. Counting'
  BY <1>1, <1>2, <1>3, <1>5 DEF Counting
<1> QED BY <1>4, <1>6

-----------------------------------------------------------------------------
(* The steps that do not count a failure.                                  *)

\* A call that is suspended inside the pool leaves it with result r.
LEMMA LeaveStep ==
    ASSUME Typed, Serial, Counting, NEW c \in Calls,
           NEW r \in {"error", "refused", "superseded", "cancelled"},
           pc[c] \notin {"idle", "done"}, Leave(c, r), UNCHANGED <<snap, failures, locked>>,
           confirmed' = confirmed,
           \A d \in Calls \ {c} : write'[d] = write[d],
           write'[c] = "failure" => r = "cancelled"
    PROVE  Serial' /\ Counting'
<1>1. CallTypes /\ failures \in Nat
  BY DEF Typed, RowTypes
<1>2. /\ pc'[c] = "done" /\ result'[c] = r /\ r # "ok"
      /\ \A d \in Calls \ {c} : pc'[d] = pc[d] /\ result'[d] = result[d]
  BY <1>1 DEF Leave, CallTypes
<1>3. OthersStay(c)
  BY <1>2 DEF OthersStay, Leave
<1>4. Ends(c) /\ c \notin Spent
  BY DEF Ends, Spent, Serial, OneCall
<1>5. OneCall(c)'
  BY <1>2 DEF OneCall, Serial, Guarded, Attempting
<1>6. ~Trying(c)'
  BY <1>2 DEF Trying, Attempting
<1> QED BY <1>1, <1>3, <1>4, <1>5, <1>6, QuietStep

\* A call goes from one place to another that is not the end.
LEMMA MoveStep ==
    ASSUME Typed, Serial, Counting, NEW c \in Calls,
           NEW p \in Inside \cup {"ready"},
           pc[c] \notin {"done", "recording"}, pc' = [pc EXCEPT ![c] = p], p # "recording",
           \A d \in Calls \ {c} : snap'[d] = snap[d],
           snap'[c] >= 1, UNCHANGED <<write, result, failures, locked>>, confirmed' = confirmed,
           \/ /\ UNCHANGED authLock
              /\ NoneConfirmed /\ p \in Guarded => pc[c] \in Guarded
           \/ authLock \notin Calls /\ authLock' = c,
           p \in Attempting => pc[c] \in Attempting \/ failures < AUTH_FAILURE_LIMIT
    PROVE  Serial' /\ Counting'
<1>1. CallTypes /\ failures \in Nat
  BY DEF Typed, RowTypes
<1>2. pc'[c] = p /\ p # "done" /\ \A d \in Calls \ {c} : pc'[d] = pc[d]
  BY <1>1 DEF CallTypes, Inside
<1>3. OthersStay(c) /\ Ends(c)
  BY <1>2 DEF OthersStay, Ends
<1>4. NoneConfirmed' => NoneConfirmed
  BY <1>3, ConfirmedStays
<1>5. OneCall(c)
  BY DEF Serial
<1>6. OneCall(c)'
  BY <1>2, <1>4, <1>5 DEF OneCall
<1>7. c \notin Spent
  BY <1>5 DEF OneCall, Spent
<1>8. Trying(c)' => Trying(c) \/ failures < AUTH_FAILURE_LIMIT
  BY <1>2 DEF Trying
<1> QED BY <1>1, <1>3, <1>6, <1>7, <1>8, QuietStep

LEMMA EntryStep ==
    ASSUME Typed, Serial, Counting, NEW c \in Calls,
           Snapshot(c) \/ Invoke(c) \/ TakeAuthLock(c) \/ ReadFresh(c)
    PROVE  Serial' /\ Counting'
<1>1. CallTypes /\ RowTypes /\ OneCall(c)
  BY DEF Typed, Serial
<1>2. CASE Snapshot(c)
  <2>1. target.gen \in Nat /\ target.gen >= 1
    BY <1>1 DEF RowTypes, Records
  <2>2. snap'[c] >= 1 /\ \A d \in Calls \ {c} : snap'[d] = snap[d]
    BY <1>1, <1>2, <2>1 DEF Snapshot, CallTypes
  <2>3. /\ pc' = [pc EXCEPT ![c] = "ready"] /\ pc[c] = "idle"
        /\ UNCHANGED <<write, result, failures, locked, confirmed, authLock>>
    BY <1>2 DEF Snapshot, rowVars, poolVars
  <2>4. "ready" \notin Guarded /\ "ready" \notin Attempting
    BY DEF Guarded, Attempting
  <2> QED BY <2>2, <2>3, <2>4, MoveStep
<1>3. CASE Invoke(c)
  <2>1. /\ UNCHANGED <<snap, write, failures, locked, confirmed>>
        /\ pc[c] = "ready"
    BY <1>3 DEF Invoke, rowVars, poolVars
  <2>2. snap[c] >= 1 /\ snap[c] \in Nat /\ write[c] # "failure"
    BY <1>1, <2>1 DEF OneCall, CallTypes
  <2>3. CASE Leave(c, "superseded")
    BY <2>1, <2>2, <2>3, LeaveStep
  <2>4. CASE /\ confirmed = snap[c] /\ pc' = [pc EXCEPT ![c] = "pool"]
             /\ UNCHANGED <<authLock, result>>
    <3>1. ~NoneConfirmed
      BY <2>2, <2>4 DEF Serial
    <3>2. "pool" \in Inside
      BY DEF Inside
    <3>3. pc'[c] = "pool" /\ \A d \in Calls \ {c} : pc'[d] = pc[d]
      BY <1>1, <2>4 DEF CallTypes
    <3>4. OthersStay(c) /\ Ends(c)
      BY <2>1, <2>4, <3>3 DEF OthersStay, Ends
    <3>5. ~NoneConfirmed'
      BY <3>1, <3>4, ConfirmedStays
    <3>6. Serial'
      BY <2>1, <2>2, <2>4, <3>3, <3>5 DEF Serial, OneCall
    <3>7. Counting'
      BY <2>1, <3>5 DEF Counting
    <3> QED BY <3>6, <3>7
  <2>5. CASE pc' = [pc EXCEPT ![c] = "auth"] /\ UNCHANGED <<authLock, result>>
    <3>1. "auth" \in Inside /\ "auth" \notin Guarded /\ "auth" \notin Attempting
      BY DEF Inside, Guarded, Attempting
    <3> QED BY <2>1, <2>2, <2>5, <3>1, MoveStep
  <2> QED BY <1>3, <2>3, <2>4, <2>5 DEF Invoke
<1>4. CASE TakeAuthLock(c)
  <2>1. /\ UNCHANGED <<snap, write, result, failures, locked, confirmed>>
        /\ pc[c] = "auth" /\ pc' = [pc EXCEPT ![c] = "fresh"]
        /\ authLock \notin Calls /\ authLock' = c
    BY <1>4, PoolAssumption DEF TakeAuthLock, rowVars, poolVars
  <2>2. snap[c] >= 1
    BY <1>1, <2>1 DEF OneCall
  <2>3. "fresh" \in Inside /\ "fresh" \notin Attempting
    BY DEF Inside, Attempting
  <2> QED BY <2>1, <2>2, <2>3, MoveStep
<1>5. CASE ReadFresh(c)
  <2>1. UNCHANGED <<snap, write, failures, locked, confirmed>> /\ pc[c] = "fresh"
    BY <1>5 DEF ReadFresh, rowVars, poolVars
  <2>2. snap[c] >= 1 /\ write[c] # "failure"
    BY <1>1, <2>1 DEF OneCall
  <2>3. CASE Leave(c, "refused")
    BY <2>1, <2>2, <2>3, LeaveStep
  <2>4. CASE ~locked /\ pc' = [pc EXCEPT ![c] = "checked"] /\ UNCHANGED <<authLock, result>>
    <3>1. failures < AUTH_FAILURE_LIMIT
      BY <2>4 DEF Counting
    <3>2. "checked" \in Inside /\ "fresh" \in Guarded
      BY DEF Inside, Guarded
    <3> QED BY <2>1, <2>2, <2>4, <3>1, <3>2, MoveStep
  <2> QED BY <1>5, <2>3, <2>4 DEF ReadFresh
<1> QED BY <1>2, <1>3, <1>4, <1>5

LEMMA PassageStep ==
    ASSUME Typed, Serial, Counting, NEW c \in Calls,
           \/ Checked(c) \/ GetCached(c) \/ ReplaceClient(c) \/ BuildFails(c)
           \/ ReadMaterial(c) \/ Build(c) \/ StaleSettled(c) \/ TakeSlot(c) \/ RequestFails(c)
    PROVE  Serial' /\ Counting'
<1>1. CallTypes /\ OneCall(c)
  BY DEF Typed, Serial
<1>2. ASSUME pc[c] \in Attempting, NEW p \in Attempting, pc' = [pc EXCEPT ![c] = p],
             UNCHANGED <<snap, write, result, failures, locked, confirmed, authLock>>
      PROVE  Serial' /\ Counting'
  <2>1. p \in Inside /\ p # "recording" /\ pc[c] \notin {"idle", "done", "recording"}
        /\ pc[c] \in Guarded
    BY <1>2 DEF Attempting, Inside, Guarded
  <2>2. snap[c] >= 1
    BY <1>1, <2>1 DEF OneCall
  <2> QED BY <1>2, <2>1, <2>2, MoveStep
<1>3. ASSUME pc[c] \in Attempting, NEW r \in {"error", "superseded"}, Leave(c, r),
             UNCHANGED <<snap, write, failures, locked, confirmed>>
      PROVE  Serial' /\ Counting'
  <2>1. pc[c] \notin {"idle", "done", "recording"}
    BY <1>3 DEF Attempting
  <2>2. write[c] # "failure"
    BY <1>1, <2>1 DEF OneCall
  <2> QED BY <1>3, <2>1, <2>2, LeaveStep
<1>4. pc[c] \in Attempting
  BY DEF Checked, GetCached, ReplaceClient, BuildFails, ReadMaterial, Build, StaleSettled,
         TakeSlot, RequestFails, Attempting
<1>5. UNCHANGED <<snap, write, failures, locked, confirmed>>
  BY DEF Checked, GetCached, ReplaceClient, BuildFails, ReadMaterial, Build, StaleSettled,
         TakeSlot, RequestFails, rowVars, poolVars
<1>6. \/ BuildFails(c) \/ RequestFails(c)
      \/ StaleSettled(c) /\ Leave(c, "superseded")
      \/ /\ \E p \in Attempting : pc' = [pc EXCEPT ![c] = p]
         /\ UNCHANGED <<result, authLock>>
  BY DEF Checked, GetCached, ReplaceClient, ReadMaterial, Build, StaleSettled,
         TakeSlot, StartRequest, Attempting
<1>7. BuildFails(c) \/ RequestFails(c) => Leave(c, "error")
  BY DEF BuildFails, RequestFails
<1> QED BY <1>2, <1>3, <1>4, <1>5, <1>6, <1>7

LEMMA AnswerStep ==
    ASSUME Typed, Serial, Counting, NEW c \in Calls,
           Answered(c) \/ AuthFails(c) \/ Recorded(c)
    PROVE  Serial' /\ Counting'
<1>1. CallTypes /\ OneCall(c) /\ failures \in Nat
  BY DEF Typed, RowTypes, Serial
<1>2. ASSUME pc[c] = "sending", NEW r \in {"ok", "auth"}, NEW w \in {"success", "failure"},
             pc' = [pc EXCEPT ![c] = "recording"], result' = [result EXCEPT ![c] = r],
             write' = [write EXCEPT ![c] = w], UNCHANGED <<snap, failures, locked, authLock>>,
             confirmed' \in {confirmed, 0}
      PROVE  Serial' /\ Counting'
  <2>1. /\ pc'[c] = "recording" /\ result'[c] = r /\ write'[c] = w
        /\ \A d \in Calls \ {c} :
              pc'[d] = pc[d] /\ result'[d] = result[d] /\ write'[d] = write[d]
    BY <1>1, <1>2 DEF CallTypes
  <2>2. OthersStay(c) /\ Ends(c)
    BY <1>2, <2>1 DEF OthersStay, Ends
  <2>3. NoneConfirmed' => NoneConfirmed
    BY <2>2, ConfirmedStays
  <2>4. "sending" \in Guarded /\ "sending" \in Attempting
    BY DEF Guarded, Attempting
  <2>5. OneCall(c)'
    BY <1>1, <1>2, <2>1, <2>3, <2>4 DEF OneCall
  <2>6. c \notin Spent /\ Trying(c)
    BY <1>1, <1>2, <2>4 DEF OneCall, Spent, Trying
  <2> QED BY <1>1, <1>2, <2>2, <2>5, <2>6, QuietStep
<1>3. CASE Answered(c)
  <2>1. pc[c] = "sending" /\ UNCHANGED <<snap, failures, locked, confirmed>>
    BY <1>3 DEF Answered, rowVars, poolVars
  <2>2. CASE Leave(c, "superseded") /\ UNCHANGED write
    <3>1. write[c] # "failure"
      BY <1>1, <2>1 DEF OneCall
    <3> QED BY <2>1, <2>2, <3>1, LeaveStep
  <2>3. CASE /\ pc' = [pc EXCEPT ![c] = "recording"]
             /\ write' = [write EXCEPT ![c] = "success"]
             /\ result' = [result EXCEPT ![c] = "ok"]
             /\ UNCHANGED authLock
    BY <1>2, <2>1, <2>3
  <2> QED BY <1>3, <2>2, <2>3 DEF Answered
<1>4. CASE AuthFails(c)
  BY <1>2, <1>4 DEF AuthFails, rowVars
<1>5. CASE Recorded(c)
  <2>1. /\ pc[c] = "recording" /\ write[c] = "written" /\ Leave(c, result[c])
        /\ write' = [write EXCEPT ![c] = "none"]
        /\ UNCHANGED <<snap, failures, locked>>
        /\ result[c] # "ok" => confirmed' = confirmed
    BY <1>5 DEF Recorded, rowVars
  <2>2. /\ pc'[c] = "done" /\ result'[c] = result[c] /\ write'[c] = "none"
        /\ result[c] # "cancelled"
        /\ \A d \in Calls \ {c} :
              pc'[d] = pc[d] /\ result'[d] = result[d] /\ write'[d] = write[d]
    BY <1>1, <2>1 DEF CallTypes, Leave, OneCall
  <2>3. OthersStay(c) /\ Ends(c)
    BY <2>1, <2>2 DEF OthersStay, Ends, Leave
  <2>4. NoneConfirmed' => confirmed' = confirmed
    BY <2>1, <2>2 DEF NoneConfirmed
  <2>5. snap'[c] >= 1
    BY <1>1, <2>1 DEF OneCall
  <2>6. OneCall(c)'
    BY <2>2, <2>5 DEF OneCall, Guarded, Attempting
  <2>7. c \notin Spent /\ ~Trying(c)'
    BY <2>2 DEF Spent, Trying, Attempting
  <2> QED BY <1>1, <2>1, <2>3, <2>4, <2>6, <2>7, QuietStep
<1> QED BY <1>3, <1>4, <1>5

LEMMA UnwindStep ==
    ASSUME Typed, Serial, Counting, NEW c \in Calls, Unwind(c)
    PROVE  Serial' /\ Counting'
<1>1. CallTypes
  BY DEF Typed
<1>2. pc[c] \in Inside
  BY RegisteredMembers DEF Unwind, Typed, DoomedAreInside
<1>3. pc[c] \notin {"idle", "done"}
  BY <1>2 DEF Inside
<1>4. UNCHANGED <<snap, failures, locked, confirmed>> /\ Leave(c, "cancelled")
  BY DEF Unwind, rowVars, poolVars
<1>5. \A d \in Calls \ {c} : write'[d] = write[d]
  BY <1>1 DEF Unwind, CallTypes
<1> QED BY <1>3, <1>4, <1>5, LeaveStep

-----------------------------------------------------------------------------
(* The step that counts a failure.                                         *)

LEMMA WriteStep ==
    ASSUME Typed, Serial, Counting, NEW c \in Calls, Write(c)
    PROVE  Serial' /\ Counting'
<1>1. CallTypes /\ OneCall(c) /\ failures \in Nat
  BY DEF Typed, RowTypes, Serial
<1>2. AUTH_FAILURE_LIMIT \in Nat \ {0} /\ Cardinality(Spent) \in Nat
  BY PoolAssumption, SpentIsFinite
<1>3. UNCHANGED <<pc, snap, result, authLock, confirmed>>
  BY DEF Write, poolVars
<1>4. /\ write[c] \in {"success", "failure"} /\ write'[c] \in {"written", "none"}
      /\ \A d \in Calls \ {c} : write'[d] = write[d]
  BY <1>1 DEF Write, CallTypes
<1>5. OthersStay(c)
  BY <1>3, <1>4 DEF OthersStay
<1>6. NoneConfirmed' <=> NoneConfirmed
  BY <1>3 DEF NoneConfirmed
<1>7. \A d \in Calls : OneCall(d)'
  BY <1>3, <1>4, <1>6 DEF Serial, OneCall
<1>8. Serial'
  BY <1>3, <1>6, <1>7 DEF Serial
<1>9. /\ Cardinality(Spent)' \in Nat /\ Cardinality(Spent) <= Cardinality(Spent)'
  BY <1>3, <1>4, <1>5, SpentStays DEF Spent
<1>10. \A d \in Calls : Trying(d)' => Trying(d)
  BY <1>3, <1>4 DEF Trying
<1>11. CASE write[c] = "success"
  <2>1. failures' \in {0, failures} /\ UNCHANGED locked
    BY <1>11 DEF Write
  <2> QED BY <1>1, <1>2, <1>6, <1>8, <1>9, <1>10, <2>1 DEF Counting
<1>12. CASE write[c] = "failure"
  <2>1. /\ failures' \in {failures, failures + 1}
        /\ ~locked' => ~locked /\ failures' < AUTH_FAILURE_LIMIT
    <3>1. failures' = IF exists THEN failures + 1 ELSE failures
      BY <1>12 DEF Write
    <3>2. ~locked' => ~locked /\ ~(exists /\ failures + 1 >= AUTH_FAILURE_LIMIT)
      BY <1>12 DEF Write
    <3>3. ~locked => failures < AUTH_FAILURE_LIMIT
      BY DEF Counting
    <3>4. failures' \in {failures, failures + 1}
      BY <3>1
    <3>5. ~locked' => failures' < AUTH_FAILURE_LIMIT
      BY <1>1, <1>2, <3>1, <3>2, <3>3
    <3> QED BY <3>2, <3>4, <3>5
  <2>2. CASE pc[c] = "recording"
    <3>1. Trying(c) /\ ~Trying(c)'
      BY <1>3, <1>4, <1>12, <2>2 DEF Trying, Attempting
    <3>2. NoneConfirmed => \A d \in Calls : Trying(d) => d = c
      <4>1. \A d \in Calls : Trying(d) => pc[d] \in Guarded
        BY DEF Trying, Guarded
      <4>2. NoneConfirmed => \A d \in Calls : Trying(d) => authLock = d
        BY <4>1 DEF Serial, OneCall
      <4> QED BY <3>1, <4>2
    <3>3. NoneConfirmed' => \A d \in Calls : ~Trying(d)'
      BY <1>6, <1>10, <3>1, <3>2
    <3>4. NoneConfirmed' => failures' <= AUTH_FAILURE_LIMIT + Cardinality(Spent)'
      <4>1. NoneConfirmed => failures + 1 <= AUTH_FAILURE_LIMIT + Cardinality(Spent)
        BY <3>1 DEF Counting
      <4> QED BY <1>1, <1>2, <1>6, <1>9, <2>1, <4>1
    <3> QED BY <1>8, <2>1, <3>3, <3>4 DEF Counting
  <2>3. CASE pc[c] # "recording"
    <3>1. Spent' = Spent \cup {c} /\ c \notin Spent
      BY <1>1, <1>3, <1>4, <1>12, <2>3 DEF Spent, OneCall
    <3>2. Cardinality(Spent)' = Cardinality(Spent) + 1
      BY <3>1, SpentIsFinite, FS_AddElement
    <3>3. NoneConfirmed => failures <= AUTH_FAILURE_LIMIT + Cardinality(Spent)
      BY DEF Counting
    <3>4. NoneConfirmed' => failures' <= AUTH_FAILURE_LIMIT + Cardinality(Spent)'
      BY <1>1, <1>2, <1>6, <2>1, <3>2, <3>3
    <3>5. ASSUME NoneConfirmed', NEW d \in Calls, Trying(d)'
          PROVE  failures' + 1 <= AUTH_FAILURE_LIMIT + Cardinality(Spent)'
      <4>1. failures + 1 <= AUTH_FAILURE_LIMIT + Cardinality(Spent)
        BY <1>6, <1>10, <3>5 DEF Counting
      <4> QED BY <1>1, <1>2, <2>1, <3>2, <4>1
    <3> QED BY <1>8, <2>1, <3>4, <3>5 DEF Counting
  <2> QED BY <2>2, <2>3
<1> QED BY <1>4, <1>11, <1>12

-----------------------------------------------------------------------------
(* The invariant.                                                          *)

LEMMA OtherStep ==
    ASSUME Typed, Serial, Counting,
           \/ \E c \in Calls : Cancel(c) \/ Retirement(c)
           \/ \E e \in Edits :
                 UpdateTarget(e) \/ DeleteTarget(e) \/ ReplaceApplianceCA(e) \/ EditStep(e)
           \/ Unlock \/ Revoked \/ UNCHANGED vars
    PROVE  Serial' /\ Counting'
<1> USE DEF callVars, rowVars, poolVars
<1>1. failures \in Nat
  BY DEF Typed, RowTypes
<1>2. ASSUME NEW c \in Calls, Cancel(c) \/ Retirement(c)
      PROVE  UNCHANGED <<pc, snap, write, result, authLock, confirmed, failures, locked>>
  BY <1>2 DEF Cancel, Retirement, Drained, Shut, Settle, Becomes
<1>3. ASSUME NEW e \in Edits,
             UpdateTarget(e) \/ DeleteTarget(e) \/ ReplaceApplianceCA(e) \/ EditStep(e)
      PROVE  /\ UNCHANGED <<pc, snap, write, result, authLock, failures, locked>>
             /\ confirmed' \in {confirmed, 0}
  BY <1>3 DEF UpdateTarget, DeleteTarget, ReplaceApplianceCA, Committed, EditStep, Invalidate,
              Gathered, RetireOlder, SettledOne
<1>4. Unlock => /\ UNCHANGED <<pc, snap, write, result, authLock, confirmed>>
                /\ failures' = 0 /\ locked' = FALSE
  BY DEF Unlock
<1>5. Revoked \/ UNCHANGED vars =>
         UNCHANGED <<pc, snap, write, result, authLock, confirmed, failures, locked>>
  BY DEF Revoked, vars
<1> QED BY <1>1, <1>2, <1>3, <1>4, <1>5, NobodyMoves

LEMMA LockoutStep == LockoutInv /\ [Next]_vars => LockoutInv'
<1> SUFFICES ASSUME LockoutInv, [Next]_vars PROVE LockoutInv'
  OBVIOUS
<1>1. Typed /\ Serial /\ Counting /\ PoolInv
  BY DEF LockoutInv, PoolInv, Sound
<1>2. PoolInv'
  BY <1>1, PoolStep
<1>3. Serial' /\ Counting'
  BY <1>1, EntryStep, PassageStep, AnswerStep, UnwindStep, WriteStep, OtherStep
  DEF Next, CallStep
<1> QED BY <1>2, <1>3 DEF LockoutInv

LEMMA LockoutInit == Init => LockoutInv
<1> SUFFICES ASSUME Init PROVE LockoutInv
  OBVIOUS
<1>1. PoolInv
  BY InitPool
<1>2. /\ failures = 0 /\ confirmed = 0
      /\ \A c \in Calls : pc[c] = "idle" /\ result[c] = "none" /\ write[c] = "none"
  BY DEF Init
<1>3. Serial
  BY <1>2 DEF Serial, OneCall, Guarded, Attempting
<1>4. AUTH_FAILURE_LIMIT \in Nat \ {0} /\ Cardinality(Spent) \in Nat
  BY PoolAssumption, SpentIsFinite
<1>5. \A c \in Calls : ~Trying(c)
  BY <1>2 DEF Trying, Attempting
<1>6. Counting
  BY <1>2, <1>4, <1>5 DEF Counting
<1> QED BY <1>1, <1>3, <1>6 DEF LockoutInv

\* However many calls, edits and unlocks interleave, the authentication lock of
\* invoke lets a password that was never confirmed fail AUTH_FAILURE_LIMIT times,
\* and once more for each call that was cancelled.
THEOREM WrongPasswordsAreBounded == Spec => []WrongPasswordIsBounded
<1>1. LockoutInv => WrongPasswordIsBounded
  <2> SUFFICES ASSUME LockoutInv, \A c \in Calls : result[c] # "ok"
               PROVE  failures <= AUTH_FAILURE_LIMIT
                                    + Cardinality({c \in Calls : result[c] = "cancelled"})
    BY DEF WrongPasswordIsBounded
  <2> DEFINE Cancelled == {c \in Calls : result[c] = "cancelled"}
  <2>1. failures <= AUTH_FAILURE_LIMIT + Cardinality(Spent) /\ failures \in Nat
    BY DEF LockoutInv, Counting, NoneConfirmed, PoolInv, Sound, Typed, RowTypes
  <2>2. IsFiniteSet(Cancelled) /\ Spent \subseteq Cancelled
    <3>1. Cancelled \subseteq Calls
      OBVIOUS
    <3>2. IsFiniteSet(Cancelled)
      BY <3>1, PoolAssumption, FS_Subset
    <3> QED BY <3>2 DEF Spent
  <2> HIDE DEF Cancelled
  <2>3. Cardinality(Spent) <= Cardinality(Cancelled) /\ Cardinality(Cancelled) \in Nat
    BY <2>2, FS_Subset, FS_CardinalityType
  <2>4. Cardinality(Spent) \in Nat /\ AUTH_FAILURE_LIMIT \in Nat
    BY SpentIsFinite, PoolAssumption
  <2>5. failures <= AUTH_FAILURE_LIMIT + Cardinality(Cancelled)
    BY <2>1, <2>3, <2>4
  <2> QED BY <2>5 DEF Cancelled
<1>2. Spec => []LockoutInv
  BY LockoutInit, LockoutStep, PTL DEF Spec
<1> QED BY <1>1, <1>2, PTL

-----------------------------------------------------------------------------
(* Whose generation skips the check of the lockout.                        *)

\* A success was recorded for generation g.
AnsweredFor(g) == \E d \in Calls : pc[d] = "done" /\ result[d] = "ok" /\ using[d].gen = g

\* Past the check without the authentication lock are only calls whose generation
\* a success was recorded for.
UnansweredAreSerial ==
    \A c \in Calls : pc[c] \in Guarded /\ ~AnsweredFor(snap[c]) => authLock = c

AnsweredInv ==
    /\ confirmed # 0 => AnsweredFor(confirmed)
    /\ \A c \in Calls : pc[c] # "idle" => snap[c] >= 1
    /\ UnansweredAreSerial

\* A call that has ended keeps its result and its record.
LEMMA EndedStays ==
    ASSUME Typed, [Next]_vars, NEW d \in Calls, pc[d] = "done"
    PROVE  pc'[d] = "done" /\ result'[d] = result[d] /\ using'[d] = using[d]
<1>1. CallTypes /\ d \notin doomed
  BY DEF Typed, DoomedAreInside, Registered
<1>2. ASSUME NEW c \in Calls,
             \/ Snapshot(c) \/ Invoke(c) \/ TakeAuthLock(c) \/ ReadFresh(c) \/ Checked(c)
             \/ GetCached(c) \/ ReplaceClient(c) \/ BuildFails(c) \/ ReadMaterial(c)
      PROVE  pc'[d] = "done" /\ result'[d] = result[d] /\ using'[d] = using[d]
  BY <1>1, <1>2 DEF CallTypes, Snapshot, Invoke, TakeAuthLock, ReadFresh, Checked, GetCached,
                    ReplaceClient, BuildFails, ReadMaterial, StartRequest, Leave
<1>3. ASSUME NEW c \in Calls,
             \/ Build(c) \/ StaleSettled(c) \/ TakeSlot(c) \/ Answered(c) \/ AuthFails(c)
             \/ RequestFails(c) \/ Recorded(c) \/ Unwind(c)
      PROVE  pc'[d] = "done" /\ result'[d] = result[d] /\ using'[d] = using[d]
  BY <1>1, <1>3 DEF CallTypes, Build, StaleSettled, TakeSlot, Answered, AuthFails,
                    RequestFails, Recorded, Unwind, StartRequest, Leave
<1>4. ASSUME NEW c \in Calls, Write(c) \/ Cancel(c) \/ Retirement(c)
      PROVE  UNCHANGED <<pc, result, using>>
  BY <1>4 DEF Write, Cancel, Retirement, Drained, Shut, Settle, Becomes, callVars
<1>5. ASSUME NEW e \in Edits,
             UpdateTarget(e) \/ DeleteTarget(e) \/ ReplaceApplianceCA(e) \/ EditStep(e)
      PROVE  UNCHANGED <<pc, result, using>>
  BY <1>5 DEF UpdateTarget, DeleteTarget, ReplaceApplianceCA, Committed, EditStep, Invalidate,
              Gathered, RetireOlder, SettledOne, callVars
<1>6. Unlock \/ Revoked \/ UNCHANGED vars => UNCHANGED <<pc, result, using>>
  BY DEF Unlock, Revoked, callVars, vars
<1> QED BY <1>2, <1>3, <1>4, <1>5, <1>6 DEF Next, CallStep

\* A call moves: it was past the check before, took the lock, or is of the
\* confirmed generation.
Advances(c) ==
    /\ \A d \in Calls \ {c} :
          pc'[d] = pc[d] /\ snap'[d] = snap[d] /\ (authLock = d => authLock' = d)
    /\ pc'[c] # "idle" => snap'[c] >= 1
    /\ pc'[c] \in Guarded =>
          \/ pc[c] \in Guarded /\ snap'[c] = snap[c] /\ (authLock = c => authLock' = c)
          \/ authLock' = c
          \/ snap'[c] >= 1 /\ confirmed = snap'[c]

LEMMA CallsAdvance ==
    ASSUME Typed, AnsweredInv, NEW c \in Calls, Snapshot(c) \/ Invoke(c) \/ CallStep(c)
    PROVE  Advances(c)
<1>1. CallTypes /\ snap[c] \in Nat /\ target.gen \in Nat \ {0}
  BY DEF Typed, CallTypes, RowTypes, Records
<1>2. pc[c] # "idle" => snap[c] >= 1
  BY DEF AnsweredInv
<1>3. CASE Snapshot(c)
  BY <1>1, <1>3 DEF Snapshot, CallTypes, Advances, Guarded, Attempting
<1>4. CASE Invoke(c) \/ TakeAuthLock(c) \/ ReadFresh(c)
  BY <1>1, <1>2, <1>4, PoolAssumption
  DEF Invoke, TakeAuthLock, ReadFresh, Leave, CallTypes, Advances, Guarded, Attempting
<1>5. CASE \/ Checked(c) \/ GetCached(c) \/ ReplaceClient(c) \/ BuildFails(c)
           \/ ReadMaterial(c) \/ Build(c)
  BY <1>1, <1>2, <1>5
  DEF Checked, GetCached, ReplaceClient, BuildFails, ReadMaterial, Build, StartRequest,
      Leave, CallTypes, Advances, Guarded, Attempting
<1>6. CASE \/ StaleSettled(c) \/ TakeSlot(c) \/ Answered(c) \/ AuthFails(c)
           \/ RequestFails(c) \/ Recorded(c)
  BY <1>1, <1>2, <1>6
  DEF StaleSettled, TakeSlot, Answered, AuthFails, RequestFails, Recorded, StartRequest,
      Leave, CallTypes, Advances, Guarded, Attempting
<1>7. CASE Unwind(c)
  <2>1. pc[c] # "idle"
    BY <1>7 DEF Unwind, Typed, DoomedAreInside, Registered
  <2> QED
    BY <1>1, <1>2, <1>7, <2>1 DEF Unwind, Leave, CallTypes, Advances, Guarded, Attempting
<1> QED BY <1>3, <1>4, <1>5, <1>6, <1>7 DEF CallStep

\* Every other step leaves the calls where they are.
LEMMA OthersAdvanceNobody ==
    ASSUME [Next]_vars, ~\E c \in Calls : Snapshot(c) \/ Invoke(c) \/ CallStep(c)
    PROVE  UNCHANGED <<pc, snap, authLock>>
<1>1. ASSUME NEW c \in Calls, Write(c) \/ Cancel(c) \/ Retirement(c)
      PROVE  UNCHANGED <<pc, snap, authLock>>
  BY <1>1 DEF Write, Cancel, Retirement, Drained, Shut, Settle, Becomes, callVars
<1>2. ASSUME NEW e \in Edits,
             UpdateTarget(e) \/ DeleteTarget(e) \/ ReplaceApplianceCA(e) \/ EditStep(e)
      PROVE  UNCHANGED <<pc, snap, authLock>>
  BY <1>2 DEF UpdateTarget, DeleteTarget, ReplaceApplianceCA, Committed, EditStep, Invalidate,
              Gathered, RetireOlder, SettledOne, callVars
<1>3. Unlock \/ Revoked \/ UNCHANGED vars => UNCHANGED <<pc, snap, authLock>>
  BY DEF Unlock, Revoked, callVars, vars
<1> QED BY <1>1, <1>2, <1>3 DEF Next

\* Only a call whose success is recorded confirms, and it ends with it.
LEMMA ConfirmStep ==
    ASSUME Typed, [Next]_vars, confirmed' # confirmed
    PROVE  \/ confirmed' = 0
           \/ \E c \in Calls : /\ pc'[c] = "done" /\ result'[c] = "ok"
                               /\ using'[c].gen = confirmed'
<1>1. CallTypes
  BY DEF Typed
<1>2. ASSUME NEW c \in Calls, Recorded(c)
      PROVE  /\ pc'[c] = "done" /\ result'[c] = "ok"
             /\ using'[c].gen = confirmed'
  BY <1>1, <1>2 DEF Recorded, Leave, CallTypes
<1>3. ASSUME NEW c \in Calls,
             Snapshot(c) \/ Invoke(c) \/ CallStep(c) \/ Write(c) \/ Cancel(c) \/ Retirement(c)
      PROVE  Recorded(c) \/ confirmed' = 0
  BY <1>3
  DEF Snapshot, Invoke, CallStep, TakeAuthLock, ReadFresh, Checked, GetCached, ReplaceClient,
      BuildFails, ReadMaterial, Build, StaleSettled, TakeSlot, Answered, AuthFails,
      RequestFails, Unwind, Write, Cancel, Retirement, Drained, Shut, Settle, Becomes, poolVars
<1>4. ASSUME NEW e \in Edits,
             UpdateTarget(e) \/ DeleteTarget(e) \/ ReplaceApplianceCA(e) \/ EditStep(e)
      PROVE  confirmed' = 0
  BY <1>4 DEF UpdateTarget, DeleteTarget, ReplaceApplianceCA, Committed, EditStep, Invalidate,
              Gathered, RetireOlder, SettledOne, poolVars
<1>5. ~(Unlock \/ Revoked \/ UNCHANGED vars)
  BY DEF Unlock, Revoked, poolVars, vars
<1> QED BY <1>2, <1>3, <1>4, <1>5 DEF Next

LEMMA AnsweredStep == Typed /\ AnsweredInv /\ [Next]_vars => AnsweredInv'
<1> SUFFICES ASSUME Typed, AnsweredInv, [Next]_vars PROVE AnsweredInv'
  OBVIOUS
<1>1. \A g : AnsweredFor(g) => AnsweredFor(g)'
  BY EndedStays DEF AnsweredFor
<1>2. confirmed' # 0 => AnsweredFor(confirmed)'
  <2>1. CASE confirmed' = confirmed
    BY <1>1, <2>1 DEF AnsweredInv, AnsweredFor
  <2>2. CASE confirmed' # confirmed
    BY <2>2, ConfirmStep DEF AnsweredFor
  <2> QED BY <2>1, <2>2
<1>3. CASE \E c \in Calls : Snapshot(c) \/ Invoke(c) \/ CallStep(c)
  <2> PICK c \in Calls : Snapshot(c) \/ Invoke(c) \/ CallStep(c)
    BY <1>3
  <2>1. Advances(c)
    BY CallsAdvance
  <2>2. \A d \in Calls : pc'[d] # "idle" => snap'[d] >= 1
    BY <2>1 DEF Advances, AnsweredInv
  <2>3. ASSUME NEW d \in Calls, pc'[d] \in Guarded, ~AnsweredFor(snap[d])'
        PROVE  authLock' = d
    <3>1. ~AnsweredFor(snap'[d])
      BY <1>1, <2>3 DEF AnsweredFor
    <3>2. CASE d = c
      BY <2>1, <2>3, <3>1, <3>2 DEF Advances, AnsweredInv, UnansweredAreSerial
    <3>3. CASE d # c
      BY <2>1, <2>3, <3>1, <3>3 DEF Advances, AnsweredInv, UnansweredAreSerial
    <3> QED BY <3>2, <3>3
  <2> QED BY <1>2, <2>2, <2>3 DEF AnsweredInv, UnansweredAreSerial
<1>4. CASE ~\E c \in Calls : Snapshot(c) \/ Invoke(c) \/ CallStep(c)
  <2>1. UNCHANGED <<pc, snap, authLock>>
    BY <1>4, OthersAdvanceNobody
  <2>2. \A d \in Calls : ~AnsweredFor(snap[d])' => ~AnsweredFor(snap[d])
    BY <1>1, <2>1 DEF AnsweredFor
  <2> QED BY <1>2, <2>1, <2>2 DEF AnsweredInv, UnansweredAreSerial
<1> QED BY <1>3, <1>4

\* Credentials that no call succeeded with are tried by one call at a time, whatever
\* was confirmed before them and however late a success of an older generation is
\* recorded: skipping the lockout's check takes a success of that generation.
THEOREM UnansweredCredentialsAreSerial == Spec => []UnansweredAreSerial
<1>1. Init => AnsweredInv
  BY DEF Init, AnsweredInv, UnansweredAreSerial, Guarded, Attempting
<1>2. PoolInv => Typed
  BY DEF PoolInv, Sound
<1>3. AnsweredInv => UnansweredAreSerial
  BY DEF AnsweredInv
<1> QED BY <1>1, <1>2, <1>3, AnsweredStep, Always, PTL DEF Spec

-----------------------------------------------------------------------------
(* Who waits in the queue of the pool's lock.                              *)

Entries(queue) == {queue[i] : i \in 1..Len(queue)}

Distinct(queue) == \A i, j \in 1..Len(queue) : queue[i] = queue[j] => i = j

LEMMA JoinedAtTheEnd ==
    ASSUME NEW queue \in Seq(Tickets), NEW ticket \in Tickets, Distinct(queue),
           ticket \notin Entries(queue)
    PROVE  /\ Entries(Append(queue, ticket)) = Entries(queue) \cup {ticket}
           /\ Distinct(Append(queue, ticket))
<1> DEFINE longer == Append(queue, ticket)
<1>1. /\ Len(queue) \in Nat
      /\ Len(longer) = Len(queue) + 1
      /\ \A i \in 1..Len(queue) : longer[i] = queue[i]
      /\ longer[Len(queue) + 1] = ticket
  BY LenProperties, AppendProperties
<1> HIDE DEF longer
<1>2. \A i \in 1..Len(longer) : i \in 1..Len(queue) \/ i = Len(queue) + 1
  BY <1>1
<1>3. \A i \in 1..Len(queue) : i \in 1..Len(longer) /\ queue[i] # ticket
  BY <1>1 DEF Entries
<1>4. Len(queue) + 1 \in 1..Len(longer)
  BY <1>1
<1>5. Entries(longer) = Entries(queue) \cup {ticket}
  <2>1. Entries(longer) \subseteq Entries(queue) \cup {ticket}
    BY <1>1, <1>2 DEF Entries
  <2>2. ticket \in Entries(longer)
    BY <1>1, <1>4 DEF Entries
  <2>3. Entries(queue) \subseteq Entries(longer)
    BY <1>1, <1>3 DEF Entries
  <2> QED BY <2>1, <2>2, <2>3
<1>6. Distinct(longer)
  BY <1>1, <1>2, <1>3 DEF Distinct
<1> QED BY <1>5, <1>6 DEF longer

\* What is left of a queue without its entry i, in order.
LEMMA LeftBehind ==
    ASSUME NEW queue \in Seq(Tickets), NEW rest \in Seq(Tickets), NEW i \in 1..Len(queue),
           Distinct(queue), Len(rest) = Len(queue) - 1,
           \A j \in 1..Len(rest) : rest[j] = IF j < i THEN queue[j] ELSE queue[j + 1]
    PROVE  Entries(rest) = Entries(queue) \ {queue[i]} /\ Distinct(rest)
<1>1. Len(queue) \in Nat /\ Len(rest) \in Nat /\ i \in Nat
  BY LenProperties
<1> DEFINE from(j) == IF j < i THEN j ELSE j + 1
<1>2. \A j \in 1..Len(rest) : /\ from(j) \in 1..Len(queue) /\ from(j) # i
                              /\ rest[j] = queue[from(j)]
  BY <1>1
<1>3. \A j, l \in 1..Len(rest) : from(j) = from(l) => j = l
  BY <1>1
<1>4. \A l \in 1..Len(queue) : l # i => \E j \in 1..Len(rest) : from(j) = l
  <2> SUFFICES ASSUME NEW l \in 1..Len(queue), l # i
               PROVE  \E j \in 1..Len(rest) : from(j) = l
    OBVIOUS
  <2>1. CASE l < i
    <3>1. l \in 1..Len(rest) /\ from(l) = l
      BY <1>1, <2>1
    <3> QED BY <3>1
  <2>2. CASE l > i
    <3>1. l - 1 \in 1..Len(rest) /\ from(l - 1) = l
      BY <1>1, <2>2
    <3> QED BY <3>1
  <2> QED BY <1>1, <2>1, <2>2
<1> HIDE DEF from
<1>5. Entries(rest) \subseteq Entries(queue) \ {queue[i]}
  BY <1>2 DEF Entries, Distinct
<1>6. Entries(queue) \ {queue[i]} \subseteq Entries(rest)
  <2> SUFFICES ASSUME NEW l \in 1..Len(queue), l # i
               PROVE  queue[l] \in Entries(rest)
    BY DEF Entries
  <2>1. PICK j \in 1..Len(rest) : from(j) = l
    BY <1>4
  <2> QED BY <1>2, <2>1 DEF Entries
<1>7. Distinct(rest)
  BY <1>2, <1>3 DEF Distinct
<1> QED BY <1>5, <1>6, <1>7

LEMMA ServedFirst ==
    ASSUME NEW queue \in Seq(Tickets), queue # <<>>, Distinct(queue)
    PROVE  /\ Entries(Tail(queue)) = Entries(queue) \ {Head(queue)}
           /\ Distinct(Tail(queue))
           /\ Head(queue) \in Entries(queue)
<1>1. Len(queue) \in Nat \ {0} /\ Head(queue) = queue[1]
  BY EmptySeq DEF Head
<1>2. /\ Tail(queue) \in Seq(Tickets)
      /\ Len(Tail(queue)) = Len(queue) - 1
      /\ \A i \in 1..Len(Tail(queue)) : Tail(queue)[i] = queue[i + 1]
  BY HeadTailProperties
<1>3. 1 \in 1..Len(queue)
  BY <1>1
<1>4. \A j \in 1..Len(Tail(queue)) :
          Tail(queue)[j] = IF j < 1 THEN queue[j] ELSE queue[j + 1]
  BY <1>2
<1>5. Entries(Tail(queue)) = Entries(queue) \ {queue[1]} /\ Distinct(Tail(queue))
  BY <1>2, <1>3, <1>4, LeftBehind
<1> QED BY <1>1, <1>3, <1>5 DEF Entries

LEMMA LeftTheQueue ==
    ASSUME lock \in Seq(Tickets), Distinct(lock), NEW ticket, LeaveQueue(ticket)
    PROVE  Entries(lock') = Entries(lock) \ {ticket} /\ Distinct(lock')
<1>1. CASE UNCHANGED lock /\ \A i \in 1..Len(lock) : lock[i] # ticket
  BY <1>1 DEF Entries
<1>2. ASSUME NEW i \in 1..Len(lock), lock[i] = ticket,
             lock' = SubSeq(lock, 1, i - 1) \o SubSeq(lock, i + 1, Len(lock))
      PROVE  Entries(lock') = Entries(lock) \ {ticket} /\ Distinct(lock')
  <2> DEFINE before == SubSeq(lock, 1, i - 1)
  <2> DEFINE after == SubSeq(lock, i + 1, Len(lock))
  <2>1. Len(lock) \in Nat /\ i \in Int /\ \A j \in 1..Len(lock) : lock[j] \in Tickets
    BY LenProperties, ElementOfSeq
  <2>2. /\ before \in Seq(Tickets) /\ Len(before) = i - 1
        /\ \A j \in 1..(i - 1) : before[j] = lock[j]
    <3>1. 1 \in Int /\ i - 1 \in Int /\ \A j \in 1..(i - 1) : lock[j] \in Tickets
      BY <2>1
    <3>2. /\ before \in Seq(Tickets)
          /\ Len(before) = IF 1 <= i - 1 THEN (i - 1) - 1 + 1 ELSE 0
          /\ \A j \in 1..((i - 1) - 1 + 1) : before[j] = lock[1 + j - 1]
      BY <3>1, SubSeqProperties
    <3> HIDE DEF before
    <3> QED BY <2>1, <3>2
  <2>3. /\ after \in Seq(Tickets) /\ Len(after) = Len(lock) - i
        /\ \A j \in 1..(Len(lock) - i) : after[j] = lock[i + j]
    <3>1. i + 1 \in Int /\ Len(lock) \in Int
          /\ \A j \in (i + 1)..Len(lock) : lock[j] \in Tickets
      BY <2>1
    <3>2. /\ after \in Seq(Tickets)
          /\ Len(after) = IF i + 1 <= Len(lock) THEN Len(lock) - (i + 1) + 1 ELSE 0
          /\ \A j \in 1..(Len(lock) - (i + 1) + 1) : after[j] = lock[(i + 1) + j - 1]
      BY <3>1, SubSeqProperties
    <3> HIDE DEF after
    <3> QED BY <2>1, <3>2
  <2> HIDE DEF before, after
  <2>4. /\ lock' = before \o after
        /\ before \o after \in Seq(Tickets)
        /\ Len(before \o after) = Len(before) + Len(after)
        /\ \A j \in 1..(Len(before) + Len(after)) :
              (before \o after)[j] = IF j <= Len(before) THEN before[j]
                                     ELSE after[j - Len(before)]
    BY <1>2, <2>2, <2>3, ConcatProperties DEF before, after
  <2>5. Len(lock') = Len(lock) - 1 /\ lock' \in Seq(Tickets)
    BY <2>1, <2>2, <2>3, <2>4
  <2>6. \A j \in 1..Len(lock') : lock'[j] = IF j < i THEN lock[j] ELSE lock[j + 1]
    <3> SUFFICES ASSUME NEW j \in 1..Len(lock')
                 PROVE  lock'[j] = IF j < i THEN lock[j] ELSE lock[j + 1]
      OBVIOUS
    <3>1. j \in 1..(Len(before) + Len(after))
      BY <2>1, <2>2, <2>3, <2>5
    <3>2. CASE j < i
      BY <2>1, <2>2, <2>4, <3>1, <3>2
    <3>3. CASE ~(j < i)
      <4>1. j - Len(before) \in 1..(Len(lock) - i) /\ ~(j <= Len(before))
            /\ i + (j - Len(before)) = j + 1
        BY <2>1, <2>2, <2>3, <3>1, <3>3
      <4>2. lock'[j] = after[j - Len(before)]
        BY <2>4, <3>1, <4>1
      <4>3. after[j - Len(before)] = lock[j + 1]
        BY <2>3, <4>1
      <4> QED BY <3>3, <4>2, <4>3
    <3> QED BY <3>2, <3>3
  <2>7. ASSUME NEW rest \in Seq(Tickets), Len(rest) = Len(lock) - 1,
               \A j \in 1..Len(rest) : rest[j] = IF j < i THEN lock[j] ELSE lock[j + 1]
        PROVE  Entries(rest) = Entries(lock) \ {lock[i]} /\ Distinct(rest)
    BY <2>7, LeftBehind
  <2>8. Entries(lock') = Entries(lock) \ {lock[i]} /\ Distinct(lock')
    BY <2>5, <2>6, <2>7
  <2> QED BY <1>2, <2>8
<1> QED BY <1>1, <1>2 DEF LeaveQueue

-----------------------------------------------------------------------------
(* Every step moves somebody on.                                           *)

\* How many places a call, a client and an admin request have ahead of them.
CallAhead(p) ==
    CASE p = "idle" -> 12 [] p = "ready" -> 11 [] p = "auth" -> 10 [] p = "fresh" -> 9
      [] p = "checked" -> 8 [] p = "pool" -> 7 [] p = "build" -> 6 [] p = "built" -> 5
      [] p = "settle" -> 4 [] p = "slot" -> 3 [] p = "sending" -> 2 [] p = "recording" -> 1
      [] OTHER -> 0

ClientAhead(p) ==
    CASE p = "none" -> 5 [] p = "open" -> 4 [] p = "draining" -> 3 [] p = "closing" -> 2
      [] p = "shut" -> 1 [] OTHER -> 0

EditAhead(p) ==
    CASE p = "idle" -> 5 [] p = "committed" -> 4 [] p = "gather" -> 3 [] p = "queued" -> 2
      [] p = "settle" -> 1 [] OTHER -> 0

LEMMA CallPlaces ==
    /\ CallAhead("idle") = 12 /\ CallAhead("ready") = 11 /\ CallAhead("auth") = 10
    /\ CallAhead("fresh") = 9 /\ CallAhead("checked") = 8 /\ CallAhead("pool") = 7
    /\ CallAhead("build") = 6 /\ CallAhead("built") = 5 /\ CallAhead("settle") = 4
    /\ CallAhead("slot") = 3 /\ CallAhead("sending") = 2 /\ CallAhead("recording") = 1
    /\ CallAhead("done") = 0
BY DEF CallAhead

LEMMA ClientPlaces ==
    /\ ClientAhead("none") = 5 /\ ClientAhead("open") = 4 /\ ClientAhead("draining") = 3
    /\ ClientAhead("closing") = 2 /\ ClientAhead("shut") = 1 /\ ClientAhead("settled") = 0
BY DEF ClientAhead

LEMMA EditPlaces ==
    /\ EditAhead("idle") = 5 /\ EditAhead("committed") = 4 /\ EditAhead("gather") = 3
    /\ EditAhead("queued") = 2 /\ EditAhead("settle") = 1 /\ EditAhead("done") = 0
BY DEF EditAhead

\* The steps of a call, one by one: where from and where to.
LEMMA CallPath ==
    ASSUME Typed, NEW c \in Calls
    PROVE  /\ Snapshot(c) => pc[c] = "idle" /\ pc' = [pc EXCEPT ![c] = "ready"]
           /\ Invoke(c) => pc[c] = "ready" /\ \E p \in {"done", "pool", "auth"} :
                              pc' = [pc EXCEPT ![c] = p]
           /\ TakeAuthLock(c) => pc[c] = "auth" /\ pc' = [pc EXCEPT ![c] = "fresh"]
           /\ ReadFresh(c) => pc[c] = "fresh" /\ \E p \in {"checked", "done"} :
                                 pc' = [pc EXCEPT ![c] = p]
           /\ Checked(c) => pc[c] = "checked" /\ pc' = [pc EXCEPT ![c] = "pool"]
           /\ GetCached(c) => pc[c] = "pool" /\ \E p \in {"sending", "slot"} :
                                 pc' = [pc EXCEPT ![c] = p]
           /\ ReplaceClient(c) => pc[c] = "pool" /\ pc' = [pc EXCEPT ![c] = "build"]
           /\ BuildFails(c) => pc[c] = "build" /\ pc' = [pc EXCEPT ![c] = "done"]
           /\ ReadMaterial(c) => pc[c] = "build" /\ pc' = [pc EXCEPT ![c] = "built"]
           /\ Build(c) => pc[c] = "built" /\ \E p \in {"sending", "slot", "settle"} :
                             pc' = [pc EXCEPT ![c] = p]
           /\ StaleSettled(c) => pc[c] = "settle" /\ \E p \in {"sending", "slot", "done"} :
                                    pc' = [pc EXCEPT ![c] = p]
           /\ TakeSlot(c) => pc[c] = "slot" /\ pc' = [pc EXCEPT ![c] = "sending"]
           /\ Answered(c) => pc[c] = "sending" /\ \E p \in {"recording", "done"} :
                                pc' = [pc EXCEPT ![c] = p]
           /\ AuthFails(c) => pc[c] = "sending" /\ pc' = [pc EXCEPT ![c] = "recording"]
           /\ RequestFails(c) => pc[c] = "sending" /\ pc' = [pc EXCEPT ![c] = "done"]
           /\ Recorded(c) => pc[c] = "recording" /\ pc' = [pc EXCEPT ![c] = "done"]
           /\ Unwind(c) => pc[c] \in Inside /\ pc' = [pc EXCEPT ![c] = "done"]
<1>1. c \in doomed => pc[c] \in Inside
  BY RegisteredMembers DEF Typed, DoomedAreInside
<1>2. Unwind(c) => pc[c] \in Inside /\ pc' = [pc EXCEPT ![c] = "done"]
  BY <1>1 DEF Unwind, Leave
<1> QED
  BY <1>2 DEF Snapshot, Invoke, TakeAuthLock, ReadFresh, Checked, GetCached, ReplaceClient,
              BuildFails, ReadMaterial, Build, StaleSettled, TakeSlot, Answered, AuthFails,
              RequestFails, Recorded, Leave, StartRequest

\* The other steps leave the calls where they are.
LEMMA CallsStay ==
    /\ \A c \in Calls : Write(c) \/ Cancel(c) \/ Retirement(c) => UNCHANGED pc
    /\ \A e \in Edits :
          UpdateTarget(e) \/ DeleteTarget(e) \/ ReplaceApplianceCA(e) \/ EditStep(e) =>
              UNCHANGED pc
    /\ Unlock \/ Revoked \/ UNCHANGED vars => UNCHANGED pc
BY DEF callVars, Write, Cancel, Retirement, Drained, Shut, Settle, Becomes, UpdateTarget,
       DeleteTarget, ReplaceApplianceCA, Committed, EditStep, Invalidate, Gathered,
       RetireOlder, SettledOne, Unlock, Revoked, vars

LEMMA CallMovesOn ==
    ASSUME Typed, NEW c \in Calls, Snapshot(c) \/ Invoke(c) \/ CallStep(c)
    PROVE  \E p : /\ pc' = [pc EXCEPT ![c] = p]
                  /\ CallAhead(p) < CallAhead(pc[c])
<1>1. CASE Snapshot(c)
  BY <1>1, CallPath, CallPlaces
<1>2. CASE Invoke(c)
  BY <1>2, CallPath, CallPlaces
<1>3. CASE TakeAuthLock(c) \/ ReadFresh(c) \/ Checked(c)
  BY <1>3, CallPath, CallPlaces
<1>4. CASE GetCached(c) \/ ReplaceClient(c) \/ BuildFails(c) \/ ReadMaterial(c)
  BY <1>4, CallPath, CallPlaces
<1>5. CASE Build(c) \/ StaleSettled(c) \/ TakeSlot(c)
  BY <1>5, CallPath, CallPlaces
<1>6. CASE Answered(c) \/ AuthFails(c) \/ RequestFails(c) \/ Recorded(c)
  BY <1>6, CallPath, CallPlaces
<1>7. CASE Unwind(c)
  BY <1>7, CallPath, CallPlaces DEF Inside
<1> QED BY <1>1, <1>2, <1>3, <1>4, <1>5, <1>6, <1>7 DEF CallStep

LEMMA CallsMoveOn ==
    ASSUME Typed, [Next]_vars, NEW d \in Calls
    PROVE  \/ pc'[d] = pc[d]
           \/ /\ Snapshot(d) \/ Invoke(d) \/ CallStep(d)
              /\ CallAhead(pc'[d]) < CallAhead(pc[d])
<1>1. pc \in [Calls -> Inside \cup {"idle", "ready", "done"}]
  BY DEF Typed, CallTypes
<1>3. ASSUME NEW c \in Calls, Snapshot(c) \/ Invoke(c) \/ CallStep(c)
      PROVE  \/ c = d /\ CallAhead(pc'[d]) < CallAhead(pc[d])
             \/ pc'[d] = pc[d]
  BY <1>1, <1>3, CallMovesOn
<1> QED BY <1>3, CallsStay DEF Next

\* The life of a client, step by step.
Lived(k, before, after) == client[k].state = before /\ client'[k].state = after

LEMMA ClientsMoveOn ==
    ASSUME Typed, OnlyTheCachedClientIsOpen, [Next]_vars, NEW k \in Calls
    PROVE  \/ client'[k].state = client[k].state
           \/ Build(k) /\ client'[k].state = "open"
           \/ Lived(k, "open", "draining")
           \/ Drained(k) /\ Lived(k, "draining", "closing")
           \/ Shut(k) /\ Lived(k, "closing", "shut")
           \/ Settle(k) /\ Lived(k, "shut", "settled")
<1> USE DEF Lived
<1>1. \A life \in {"open", "draining", "closing", "shut", "settled"} : life \in Lives
  BY DEF Lives
<1>2. ASSUME NEW d, Retire(d), d \in {cached, NoClient}
      PROVE  client'[k].state = client[k].state \/ Lived(k, "open", "draining")
  <2>1. CASE UNCHANGED client
    BY <2>1
  <2>2. CASE client' = [client EXCEPT ![d].state = "draining"] /\ d # NoClient
    <3> DEFINE life == "draining"
    <3>0. life \in Lives
      BY DEF Lives
    <3>1. client'[k].state = IF k = d THEN life ELSE client[k].state
      <4>1. client' = [client EXCEPT ![d].state = life]
        BY <2>2
      <4> HIDE DEF life
      <4> QED BY <3>0, <4>1, StateChange
    <3>2. k = d => client[k].state = "open"
      BY <1>2, <2>2 DEF OnlyTheCachedClientIsOpen
    <3> QED BY <3>1, <3>2
  <2> QED BY <1>2, <2>1, <2>2 DEF Retire
<1>3. ASSUME NEW c \in Calls, ReplaceClient(c)
      PROVE  client'[k].state = client[k].state \/ Lived(k, "open", "draining")
  BY <1>2, <1>3 DEF ReplaceClient
<1>4. ASSUME NEW e \in Edits, RetireOlder(e)
      PROVE  client'[k].state = client[k].state \/ Lived(k, "open", "draining")
  <2> DEFINE Retired == IF cached # NoClient /\ Older(cached, e) THEN cached ELSE NoClient
  <2>1. Retire(Retired) /\ Retired \in {cached, NoClient}
    BY <1>4 DEF RetireOlder
  <2> HIDE DEF Retired
  <2> QED BY <1>2, <2>1
<1>5. ASSUME NEW c \in Calls, ReadMaterial(c)
      PROVE  client'[k].state = client[k].state
  BY <1>5, MaterialChange
<1>6. ASSUME NEW c \in Calls, Build(c)
      PROVE  client'[k].state = client[k].state \/ (Build(k) /\ client'[k].state = "open")
  <2>1. client' = [client EXCEPT ![c].state = "open"]
    BY <1>6 DEF Build
  <2>2. client'[k].state = IF k = c THEN "open" ELSE client[k].state
    BY <1>1, <2>1, StateChange
  <2> QED BY <1>6, <2>2
<1>7. ASSUME NEW d \in Calls, NEW before, NEW after \in {"closing", "shut", "settled"},
             Becomes(d, before, after)
      PROVE  client'[k].state = client[k].state \/ (k = d /\ Lived(k, before, after))
  <2>1. /\ client[d].state = before /\ client' = [client EXCEPT ![d].state = after]
        /\ after \in Lives
    BY <1>7 DEF Becomes, Lives
  <2>2. client'[k].state = IF k = d THEN after ELSE client[k].state
    BY <2>1, StateChange
  <2>3. CASE k = d
    BY <2>1, <2>2, <2>3
  <2>4. CASE k # d
    BY <2>2, <2>4
  <2> QED BY <2>3, <2>4
<1>8. ASSUME NEW d \in Calls, Drained(d)
      PROVE  client'[k].state = client[k].state
             \/ (Drained(k) /\ Lived(k, "draining", "closing"))
  <2>1. Becomes(d, "draining", "closing")
    BY <1>8 DEF Drained
  <2> QED BY <1>7, <1>8, <2>1
<1>9. ASSUME NEW d \in Calls, Shut(d)
      PROVE  client'[k].state = client[k].state \/ (Shut(k) /\ Lived(k, "closing", "shut"))
  <2>1. Becomes(d, "closing", "shut")
    BY <1>9 DEF Shut
  <2> QED BY <1>7, <1>9, <2>1
<1>10. ASSUME NEW d \in Calls, Settle(d)
       PROVE  client'[k].state = client[k].state \/ (Settle(k) /\ Lived(k, "shut", "settled"))
  <2>1. Becomes(d, "shut", "settled")
    BY <1>10 DEF Settle
  <2> QED BY <1>7, <1>10, <2>1
<1>11. ASSUME NEW c \in Calls,
              \/ Snapshot(c) \/ Invoke(c) \/ TakeAuthLock(c) \/ ReadFresh(c) \/ Checked(c)
              \/ GetCached(c) \/ BuildFails(c) \/ StaleSettled(c) \/ TakeSlot(c)
              \/ Answered(c) \/ AuthFails(c) \/ RequestFails(c) \/ Recorded(c) \/ Unwind(c)
              \/ Write(c) \/ Cancel(c)
       PROVE  UNCHANGED client
  BY <1>11 DEF Snapshot, Invoke, TakeAuthLock, ReadFresh, Checked, GetCached, BuildFails,
               StaleSettled, TakeSlot, Answered, AuthFails, RequestFails, Recorded, Unwind,
               Write, Cancel
<1>12. ASSUME NEW e \in Edits,
              \/ UpdateTarget(e) \/ DeleteTarget(e) \/ ReplaceApplianceCA(e)
              \/ Invalidate(e) \/ Gathered(e) \/ SettledOne(e)
       PROVE  UNCHANGED client
  BY <1>12 DEF UpdateTarget, DeleteTarget, ReplaceApplianceCA, Committed, Invalidate,
               Gathered, SettledOne
<1>13. Unlock \/ Revoked \/ UNCHANGED vars => UNCHANGED client
  BY DEF Unlock, Revoked, vars
<1> HIDE DEF Lived
<1> QED
  BY <1>3, <1>4, <1>5, <1>6, <1>8, <1>9, <1>10, <1>11, <1>12, <1>13
  DEF Next, CallStep, EditStep, Retirement

\* The steps of an admin request.
LEMMA EditPath ==
    ASSUME Typed, NEW e \in Edits
    PROVE  /\ UpdateTarget(e) \/ DeleteTarget(e) \/ ReplaceApplianceCA(e) =>
                 step[e] = "idle" /\ step' = [step EXCEPT ![e] = "committed"]
                 /\ UNCHANGED <<waits, at>>
           /\ Invalidate(e) => step[e] = "committed" /\ \E p \in {"gather", "queued"} :
                                  step' = [step EXCEPT ![e] = p]
           /\ Gathered(e) => /\ step[e] = "gather" /\ step' = [step EXCEPT ![e] = "queued"]
                             /\ UNCHANGED <<waits, at>>
           /\ RetireOlder(e) => step[e] = "queued" /\ \E p \in {"settle", "done"} :
                                   step' = [step EXCEPT ![e] = p]
           /\ SettledOne(e) => step[e] = "settle" /\ \E p \in {"settle", "done"} :
                                  step' = [step EXCEPT ![e] = p]
BY DEF UpdateTarget, DeleteTarget, ReplaceApplianceCA, Committed, Invalidate, Gathered,
       RetireOlder, SettledOne, SettleRest

\* What the other proofs do not need the type of.
PlacesTyped == at \in [Edits -> Calls \cup {NoClient}] /\ events \in Nat

LEMMA EventsStep ==
    ASSUME [Next]_vars
    PROVE  events' = events \/ events' = events + 1
<1>1. ASSUME NEW c \in Calls, Snapshot(c) \/ Invoke(c) \/ CallStep(c) \/ Write(c) \/ Retirement(c)
      PROVE  UNCHANGED events
  BY <1>1 DEF Snapshot, Invoke, CallStep, TakeAuthLock, ReadFresh, Checked, GetCached,
              ReplaceClient, BuildFails, ReadMaterial, Build, StaleSettled, TakeSlot, Answered,
              AuthFails, RequestFails, Recorded, Unwind, Write, Retirement, Drained, Shut,
              Settle, Becomes
<1>2. ASSUME NEW e \in Edits,
             UpdateTarget(e) \/ DeleteTarget(e) \/ ReplaceApplianceCA(e) \/ EditStep(e)
      PROVE  UNCHANGED events
  BY <1>2 DEF UpdateTarget, DeleteTarget, ReplaceApplianceCA, Committed, EditStep, Invalidate,
              Gathered, RetireOlder, SettledOne
<1>3. (\E c \in Calls : Cancel(c)) \/ Unlock \/ Revoked => events' = events + 1
  BY DEF Cancel, Unlock, Revoked
<1>4. UNCHANGED vars => UNCHANGED events
  BY DEF vars
<1> QED BY <1>1, <1>2, <1>3, <1>4 DEF Next

LEMMA EditsMoveOn ==
    ASSUME Typed, PlacesTyped, [Next]_vars, NEW f \in Edits
    PROVE  \/ step'[f] = step[f] /\ waits'[f] = waits[f] /\ at'[f] = at[f]
           \/ UpdateTarget(f) \/ DeleteTarget(f) \/ ReplaceApplianceCA(f) \/ EditStep(f)
<1>1. /\ step \in [Edits -> {"idle", "committed", "gather", "queued", "settle", "done"}]
      /\ waits \in [Edits -> SUBSET Calls]
      /\ at \in [Edits -> Calls \cup {NoClient}]
  BY DEF Typed, EditTypes, PlacesTyped
<1>2. ASSUME NEW e \in Edits, e # f,
             UpdateTarget(e) \/ DeleteTarget(e) \/ ReplaceApplianceCA(e) \/ EditStep(e)
      PROVE  step'[f] = step[f] /\ waits'[f] = waits[f] /\ at'[f] = at[f]
  <2>1. CASE UpdateTarget(e) \/ DeleteTarget(e) \/ ReplaceApplianceCA(e) \/ Gathered(e)
    BY <1>1, <1>2, <2>1, EditPath
  <2>2. CASE Invalidate(e)
    <3>1. /\ \E p : step' = [step EXCEPT ![e] = p]
          /\ waits' = [waits EXCEPT ![e] = Victims(e)] /\ UNCHANGED at
      BY <2>2 DEF Invalidate
    <3> QED BY <1>1, <1>2, <3>1
  <2>3. CASE RetireOlder(e) \/ SettledOne(e)
    <3>1. \E rest : SettleRest(e, rest)
      BY <2>3 DEF RetireOlder, SettledOne
    <3>2. /\ \E p : step' = [step EXCEPT ![e] = p]
          /\ \E rest : waits' = [waits EXCEPT ![e] = rest]
          /\ \E k : at' = [at EXCEPT ![e] = k]
      BY <3>1 DEF SettleRest
    <3> QED BY <1>1, <1>2, <3>2
  <2> QED BY <1>2, <2>1, <2>2, <2>3 DEF EditStep
<1>3. ASSUME NEW c \in Calls,
             \/ Snapshot(c) \/ Invoke(c) \/ CallStep(c) \/ Write(c) \/ Cancel(c)
             \/ Retirement(c)
      PROVE  UNCHANGED <<step, waits, at>>
  BY <1>3 DEF editVars, Snapshot, Invoke, CallStep, TakeAuthLock, ReadFresh, Checked, GetCached,
              ReplaceClient, BuildFails, ReadMaterial, Build, StaleSettled, TakeSlot, Answered,
              AuthFails, RequestFails, Recorded, Unwind, Write, Cancel, Retirement, Drained,
              Shut, Settle, Becomes
<1>4. Unlock \/ Revoked \/ UNCHANGED vars => UNCHANGED <<step, waits, at>>
  BY DEF editVars, Unlock, Revoked, vars
<1> QED BY <1>2, <1>3, <1>4 DEF Next

\* A request that settles clients is at one that it still has to settle.
LEMMA SettlePath ==
    ASSUME Typed, PlacesTyped, NEW e \in Edits, NEW rest \in SUBSET Calls, SettleRest(e, rest)
    PROVE  /\ at' \in [Edits -> Calls \cup {NoClient}]
           /\ waits'[e] = rest
           /\ step'[e] = "settle" => at'[e] \in rest
<1>1. /\ step \in [Edits -> {"idle", "committed", "gather", "queued", "settle", "done"}]
      /\ waits \in [Edits -> SUBSET Calls]
      /\ at \in [Edits -> Calls \cup {NoClient}]
  BY DEF Typed, EditTypes, PlacesTyped
<1>2. waits' = [waits EXCEPT ![e] = rest]
  BY DEF SettleRest
<1>3. CASE step' = [step EXCEPT ![e] = "done"] /\ at' = [at EXCEPT ![e] = NoClient]
  BY <1>1, <1>2, <1>3
<1>4. CASE \E k \in rest : /\ step' = [step EXCEPT ![e] = "settle"]
                           /\ at' = [at EXCEPT ![e] = k]
  BY <1>1, <1>2, <1>4
<1> QED BY <1>3, <1>4 DEF SettleRest

-----------------------------------------------------------------------------
(* Whoever waits, waits for something that comes.                          *)

AtTheLock(c) == pc[c] \in {"pool", "build", "built"}

\* A retirement was begun and goes on.
OnItsWay(k) == client[k].state \in {"draining", "closing", "shut", "settled"}

\* The queue of the pool's lock is that of those who wait for it or hold it.
QueueFits ==
    /\ Distinct(lock)
    /\ \A c \in Calls : CallTicket(c) \in Entries(lock) <=> AtTheLock(c)
    /\ \A k \in Calls : RetirementTicket(k) \in Entries(lock) <=> client[k].state = "shut"
    /\ \A e \in Edits : EditTicket(e) \in Entries(lock) <=> step[e] = "queued"

\* The authentication lock is held by a call that is past it, a call that
\* records has a thread at work, and one that settles a client waits for one
\* that retires.
CallWaits(c) ==
    /\ authLock = c => pc[c] \in Inside \ {"auth"}
    /\ pc[c] = "recording" => write[c] # "none"
    /\ CanWrite(c) => pc[c] \in {"recording", "done"}
    /\ pc[c] \in {"build", "built", "settle"} => stale[c] = NoClient \/ OnItsWay(stale[c])
    /\ pc[c] = "settle" => stale[c] # NoClient
    /\ pc[c] \in {"idle", "ready", "auth", "fresh", "checked", "pool", "build", "built"} =>
          client[c].state = "none"

\* A request gathers calls that run, and settles clients that retire.
EditWaits(e) ==
    /\ step[e] = "gather" => \A c \in waits[e] : pc[c] \notin {"idle", "ready"}
    /\ step[e] = "settle" => at[e] \in waits[e] /\ \A k \in waits[e] : OnItsWay(k)

WaitInv ==
    /\ PoolInv
    /\ PlacesTyped
    /\ QueueFits
    /\ \A c \in Calls : CallWaits(c)
    /\ \A e \in Edits : EditWaits(e)

LEMMA TicketsDiffer ==
    /\ \A c, d \in Calls : CallTicket(c) = CallTicket(d) <=> c = d
    /\ \A k, l \in Calls : RetirementTicket(k) = RetirementTicket(l) <=> k = l
    /\ \A e, f \in Edits : EditTicket(e) = EditTicket(f) <=> e = f
    /\ \A c, k \in Calls : CallTicket(c) # RetirementTicket(k)
    /\ \A c \in Calls, e \in Edits : /\ CallTicket(c) # EditTicket(e)
                                     /\ RetirementTicket(c) # EditTicket(e)
BY DEF CallTicket, RetirementTicket, EditTicket

\* Somebody joins the queue, and nothing else changes who waits.
LEMMA QueueJoined ==
    ASSUME Typed, QueueFits, NEW ticket \in Tickets, ticket \notin Entries(lock),
           lock' = Append(lock, ticket),
           \A c \in Calls : AtTheLock(c)' <=> (AtTheLock(c) \/ CallTicket(c) = ticket),
           \A k \in Calls : client'[k].state = "shut" <=>
                               (client[k].state = "shut" \/ RetirementTicket(k) = ticket),
           \A e \in Edits : step'[e] = "queued" <=>
                               (step[e] = "queued" \/ EditTicket(e) = ticket)
    PROVE  QueueFits'
<1>1. lock \in Seq(Tickets) /\ Distinct(lock)
  BY DEF Typed, QueueFits
<1>2. Entries(lock') = Entries(lock) \cup {ticket} /\ Distinct(lock')
  BY <1>1, JoinedAtTheEnd
<1>3. \A c \in Calls : CallTicket(c) \in Entries(lock') <=> AtTheLock(c)'
  BY <1>2 DEF QueueFits
<1>4. \A k \in Calls : RetirementTicket(k) \in Entries(lock') <=> client'[k].state = "shut"
  BY <1>2 DEF QueueFits
<1>5. \A e \in Edits : EditTicket(e) \in Entries(lock') <=> step'[e] = "queued"
  BY <1>2 DEF QueueFits
<1> QED BY <1>2, <1>3, <1>4, <1>5 DEF QueueFits, Entries, Distinct

\* Somebody leaves it.
LEMMA QueueLeft ==
    ASSUME QueueFits, NEW ticket,
           Entries(lock') = Entries(lock) \ {ticket}, Distinct(lock'),
           \A c \in Calls : AtTheLock(c)' <=> (AtTheLock(c) /\ CallTicket(c) # ticket),
           \A k \in Calls : client'[k].state = "shut" <=>
                               (client[k].state = "shut" /\ RetirementTicket(k) # ticket),
           \A e \in Edits : step'[e] = "queued" <=>
                               (step[e] = "queued" /\ EditTicket(e) # ticket)
    PROVE  QueueFits'
<1>1. \A c \in Calls : CallTicket(c) \in Entries(lock') <=> AtTheLock(c)'
  BY DEF QueueFits
<1>2. \A k \in Calls : RetirementTicket(k) \in Entries(lock') <=> client'[k].state = "shut"
  BY DEF QueueFits
<1>3. \A e \in Edits : EditTicket(e) \in Entries(lock') <=> step'[e] = "queued"
  BY DEF QueueFits
<1> QED BY <1>1, <1>2, <1>3 DEF QueueFits, Entries, Distinct

\* Who holds the lock releases it.
LEMMA QueueServed ==
    ASSUME Typed, QueueFits, NEW ticket, Holds(ticket), lock' = Tail(lock)
    PROVE  /\ Entries(lock') = Entries(lock) \ {ticket}
           /\ Distinct(lock')
           /\ ticket \in Entries(lock)
<1>1. lock \in Seq(Tickets) /\ Distinct(lock) /\ lock # <<>> /\ Head(lock) = ticket
  BY DEF Typed, QueueFits, Holds
<1> QED BY <1>1, ServedFirst

LEMMA QueueKept ==
    ASSUME QueueFits, UNCHANGED lock,
           \A c \in Calls : AtTheLock(c)' <=> AtTheLock(c),
           \A k \in Calls : client'[k].state = "shut" <=> client[k].state = "shut",
           \A e \in Edits : step'[e] = "queued" <=> step[e] = "queued"
    PROVE  QueueFits'
<1>1. \A c \in Calls : CallTicket(c) \in Entries(lock) <=> AtTheLock(c)'
  BY DEF QueueFits
<1>2. \A k \in Calls : RetirementTicket(k) \in Entries(lock) <=> client'[k].state = "shut"
  BY DEF QueueFits
<1>3. \A e \in Edits : EditTicket(e) \in Entries(lock) <=> step'[e] = "queued"
  BY DEF QueueFits
<1> QED BY <1>1, <1>2, <1>3 DEF QueueFits

\* The steps that neither bring a client to the lock nor serve it there.
LEMMA ShutStays ==
    ASSUME WaitInv,
           \/ UNCHANGED client
           \/ \E c \in Calls : ReplaceClient(c) \/ ReadMaterial(c) \/ Build(c) \/ Drained(c)
           \/ \E e \in Edits : RetireOlder(e)
    PROVE  \A k \in Calls : client'[k].state = "shut" <=> client[k].state = "shut"
<1>1. Typed /\ OnlyTheCachedClientIsOpen
  BY DEF WaitInv, PoolInv, Sound
<1>2. "open" \in Lives /\ "draining" \in Lives /\ "closing" \in Lives
  BY DEF Lives
<1>3. ASSUME NEW d, Retire(d), d \in {cached, NoClient}
      PROVE  \A k \in Calls : client'[k].state = "shut" <=> client[k].state = "shut"
  <2>1. CASE client' = [client EXCEPT ![d].state = "draining"] /\ d # NoClient
    <3>1. \A k \in Calls : client'[k].state = IF k = d THEN "draining" ELSE client[k].state
      BY <1>1, <1>2, <2>1, StateChange
    <3>2. d \in Calls => client[d].state = "open"
      BY <1>1, <1>3, <2>1 DEF OnlyTheCachedClientIsOpen
    <3> QED BY <3>1, <3>2
  <2> QED BY <1>3, <2>1 DEF Retire
<1>4. ASSUME NEW c \in Calls, ReplaceClient(c)
      PROVE  \A k \in Calls : client'[k].state = "shut" <=> client[k].state = "shut"
  BY <1>3, <1>4 DEF ReplaceClient
<1>5. ASSUME NEW c \in Calls, ReadMaterial(c)
      PROVE  \A k \in Calls : client'[k].state = "shut" <=> client[k].state = "shut"
  BY <1>1, <1>5, MaterialChange
<1>6. ASSUME NEW c \in Calls, Build(c)
      PROVE  \A k \in Calls : client'[k].state = "shut" <=> client[k].state = "shut"
  <2>1. client' = [client EXCEPT ![c].state = "open"] /\ client[c].state = "none"
    BY <1>6 DEF Build, WaitInv, CallWaits
  <2>2. \A k \in Calls : client'[k].state = IF k = c THEN "open" ELSE client[k].state
    BY <1>1, <1>2, <2>1, StateChange
  <2> QED BY <2>1, <2>2
<1>7. ASSUME NEW d \in Calls, Drained(d)
      PROVE  \A k \in Calls : client'[k].state = "shut" <=> client[k].state = "shut"
  <2>1. client[d].state = "draining" /\ client' = [client EXCEPT ![d].state = "closing"]
    BY <1>7 DEF Drained, Becomes
  <2>2. \A k \in Calls : client'[k].state = IF k = d THEN "closing" ELSE client[k].state
    BY <1>1, <1>2, <2>1, StateChange
  <2> QED BY <2>1, <2>2
<1>8. ASSUME NEW e \in Edits, RetireOlder(e)
      PROVE  \A k \in Calls : client'[k].state = "shut" <=> client[k].state = "shut"
  <2> DEFINE Retired == IF cached # NoClient /\ Older(cached, e) THEN cached ELSE NoClient
  <2>1. Retire(Retired) /\ Retired \in {cached, NoClient}
    BY <1>8 DEF RetireOlder
  <2> HIDE DEF Retired
  <2> QED BY <1>3, <2>1
<1> QED BY <1>4, <1>5, <1>6, <1>7, <1>8

LEMMA QueueFitsStep ==
    ASSUME WaitInv, [Next]_vars
    PROVE  QueueFits'
<1>1. Typed /\ Building /\ QueueFits /\ OnlyTheCachedClientIsOpen
  BY DEF WaitInv, PoolInv, Sound
<1>2. /\ pc \in [Calls -> Inside \cup {"idle", "ready", "done"}]
      /\ step \in [Edits -> {"idle", "committed", "gather", "queued", "settle", "done"}]
  BY <1>1 DEF Typed, CallTypes, EditTypes
<1>3. ASSUME NEW c \in Calls, NEW p, pc' = [pc EXCEPT ![c] = p]
      PROVE  /\ \A d \in Calls : d # c => (AtTheLock(d)' <=> AtTheLock(d))
             /\ AtTheLock(c)' <=> p \in {"pool", "build", "built"}
  BY <1>2, <1>3 DEF AtTheLock
<1>4. ASSUME NEW c \in Calls, UNCHANGED <<lock, step>>,
             \A k \in Calls : client'[k].state = "shut" <=> client[k].state = "shut",
             NEW p, pc' = [pc EXCEPT ![c] = p],
             AtTheLock(c) <=> p \in {"pool", "build", "built"}
      PROVE  QueueFits'
  <2>1. \A d \in Calls : AtTheLock(d)' <=> AtTheLock(d)
    BY <1>3, <1>4
  <2> QED BY <1>1, <1>4, <2>1, QueueKept
<1>5. ASSUME NEW c \in Calls, NEW p \in {"sending", "slot", "done", "settle"},
             pc' = [pc EXCEPT ![c] = p], UNCHANGED step,
             \A k \in Calls : client'[k].state = "shut" <=> client[k].state = "shut",
             Entries(lock') = Entries(lock) \ {CallTicket(c)}, Distinct(lock')
      PROVE  QueueFits'
  <2>1. \A d \in Calls : AtTheLock(d)' <=> (AtTheLock(d) /\ CallTicket(d) # CallTicket(c))
    BY <1>3, <1>5, TicketsDiffer
  <2>2. \A k \in Calls : client'[k].state = "shut" <=>
                            (client[k].state = "shut" /\ RetirementTicket(k) # CallTicket(c))
    BY <1>5, TicketsDiffer
  <2>3. \A e \in Edits : step'[e] = "queued" <=>
                            (step[e] = "queued" /\ EditTicket(e) # CallTicket(c))
    BY <1>5, TicketsDiffer
  <2> QED BY <1>1, <1>5, <2>1, <2>2, <2>3, QueueLeft
<1>6. ASSUME NEW c \in Calls,
             \/ Snapshot(c) \/ TakeAuthLock(c) \/ ReadFresh(c) \/ StaleSettled(c)
             \/ TakeSlot(c) \/ Answered(c) \/ AuthFails(c) \/ RequestFails(c) \/ Recorded(c)
      PROVE  QueueFits'
  <2>1. UNCHANGED <<lock, step, client>>
    BY <1>6 DEF editVars, Snapshot, TakeAuthLock, ReadFresh, StaleSettled, TakeSlot, Answered,
                AuthFails, RequestFails, Recorded
  <2>2. /\ ~AtTheLock(c)
        /\ \E p : p \notin {"pool", "build", "built"} /\ pc' = [pc EXCEPT ![c] = p]
    BY <1>1, <1>6, CallPath DEF AtTheLock
  <2> QED BY <1>4, <2>1, <2>2
<1>7. ASSUME NEW c \in Calls, ReplaceClient(c) \/ ReadMaterial(c)
      PROVE  QueueFits'
  <2>1. UNCHANGED <<lock, step>>
    BY <1>7 DEF editVars, ReplaceClient, ReadMaterial
  <2>2. /\ AtTheLock(c)
        /\ \E p : p \in {"pool", "build", "built"} /\ pc' = [pc EXCEPT ![c] = p]
    BY <1>1, <1>7, CallPath DEF AtTheLock
  <2> QED BY <1>4, <1>7, <2>1, <2>2, ShutStays
<1>8. ASSUME NEW c \in Calls, Invoke(c) \/ Checked(c), lock' = Append(lock, CallTicket(c)),
             pc' = [pc EXCEPT ![c] = "pool"]
      PROVE  QueueFits'
  <2>1. UNCHANGED <<step, client>>
    BY <1>8 DEF editVars, Invoke, Checked
  <2>2. ~AtTheLock(c)
    BY <1>1, <1>8, CallPath DEF AtTheLock
  <2>3. CallTicket(c) \in Tickets /\ CallTicket(c) \notin Entries(lock)
    BY <1>1, <2>2, TicketsAreTyped DEF QueueFits
  <2>4. \A d \in Calls : AtTheLock(d)' <=> (AtTheLock(d) \/ CallTicket(d) = CallTicket(c))
    BY <1>3, <1>8, TicketsDiffer
  <2> QED BY <1>1, <1>8, <2>1, <2>3, <2>4, TicketsDiffer, QueueJoined
<1>9. ASSUME NEW c \in Calls, Invoke(c) \/ Checked(c)
      PROVE  QueueFits'
  <2>1. CASE UNCHANGED lock /\ \E p \in {"done", "auth"} : pc' = [pc EXCEPT ![c] = p]
    <3>1. UNCHANGED <<step, client>> /\ ~AtTheLock(c)
      BY <1>1, <1>9, CallPath DEF editVars, Invoke, Checked, AtTheLock
    <3> QED BY <1>4, <2>1, <3>1
  <2>2. CASE lock' = Append(lock, CallTicket(c)) /\ pc' = [pc EXCEPT ![c] = "pool"]
    BY <1>8, <1>9, <2>2
  <2> QED BY <1>9, <2>1, <2>2 DEF Invoke, Checked, Leave
<1>10. ASSUME NEW c \in Calls, GetCached(c) \/ BuildFails(c) \/ Build(c)
       PROVE  QueueFits'
  <2>1. Holds(CallTicket(c)) /\ lock' = Tail(lock) /\ UNCHANGED step
    BY <1>1, <1>10 DEF editVars, GetCached, BuildFails, Build, Building
  <2>2. Entries(lock') = Entries(lock) \ {CallTicket(c)} /\ Distinct(lock')
    BY <1>1, <2>1, QueueServed
  <2>3. \E p \in {"sending", "slot", "done", "settle"} : pc' = [pc EXCEPT ![c] = p]
    BY <1>1, <1>10, CallPath
  <2>4. \A k \in Calls : client'[k].state = "shut" <=> client[k].state = "shut"
    BY <1>10, ShutStays DEF GetCached, BuildFails
  <2> QED BY <1>5, <2>1, <2>2, <2>3, <2>4
<1>11. ASSUME NEW c \in Calls, Unwind(c)
       PROVE  QueueFits'
  <2>1. LeaveQueue(CallTicket(c)) /\ UNCHANGED <<step, client>>
        /\ pc' = [pc EXCEPT ![c] = "done"]
    BY <1>1, <1>11, CallPath DEF editVars, Unwind
  <2>2. Entries(lock') = Entries(lock) \ {CallTicket(c)} /\ Distinct(lock')
    BY <1>1, <2>1, LeftTheQueue DEF Typed, QueueFits
  <2> QED BY <1>5, <2>1, <2>2
<1>12. ASSUME NEW c \in Calls, Write(c) \/ Cancel(c) \/ Drained(c)
       PROVE  QueueFits'
  <2>1. UNCHANGED <<lock, step, pc>>
    BY <1>12 DEF editVars, callVars, Write, Cancel, Drained, Becomes
  <2>2. \A k \in Calls : client'[k].state = "shut" <=> client[k].state = "shut"
    BY <1>12, ShutStays DEF Write, Cancel
  <2> QED BY <1>1, <2>1, <2>2, QueueKept DEF AtTheLock
<1>13. ASSUME NEW d \in Calls, Shut(d)
       PROVE  QueueFits'
  <2>1. /\ client[d].state = "closing" /\ client' = [client EXCEPT ![d].state = "shut"]
        /\ lock' = Append(lock, RetirementTicket(d)) /\ UNCHANGED <<step, pc>>
    BY <1>13 DEF editVars, callVars, Shut, Becomes
  <2>2. "shut" \in Lives
    BY DEF Lives
  <2>3. \A k \in Calls : client'[k].state = IF k = d THEN "shut" ELSE client[k].state
    BY <1>1, <2>1, <2>2, StateChange
  <2>4. RetirementTicket(d) \in Tickets /\ RetirementTicket(d) \notin Entries(lock)
    BY <1>1, <2>1, TicketsAreTyped DEF QueueFits
  <2>5. \A k \in Calls : client'[k].state = "shut" <=>
                            (client[k].state = "shut" \/ RetirementTicket(k) = RetirementTicket(d))
    BY <2>3, TicketsDiffer
  <2>6. \A c \in Calls : AtTheLock(c)' <=> (AtTheLock(c) \/ CallTicket(c) = RetirementTicket(d))
    BY <2>1, TicketsDiffer DEF AtTheLock
  <2> QED BY <1>1, <2>1, <2>4, <2>5, <2>6, TicketsDiffer, QueueJoined
<1>14. ASSUME NEW d \in Calls, Settle(d)
       PROVE  QueueFits'
  <2>1. /\ client' = [client EXCEPT ![d].state = "settled"]
        /\ Holds(RetirementTicket(d)) /\ lock' = Tail(lock) /\ UNCHANGED <<step, pc>>
    BY <1>14 DEF editVars, callVars, Settle, Becomes
  <2>2. "settled" \in Lives
    BY DEF Lives
  <2>3. \A k \in Calls : client'[k].state = IF k = d THEN "settled" ELSE client[k].state
    BY <1>1, <2>1, <2>2, StateChange
  <2>4. Entries(lock') = Entries(lock) \ {RetirementTicket(d)} /\ Distinct(lock')
    BY <1>1, <2>1, QueueServed
  <2>5. \A k \in Calls : client'[k].state = "shut" <=>
                            (client[k].state = "shut" /\ RetirementTicket(k) # RetirementTicket(d))
    BY <2>3, TicketsDiffer
  <2>6. \A c \in Calls : AtTheLock(c)' <=> (AtTheLock(c) /\ CallTicket(c) # RetirementTicket(d))
    BY <2>1, TicketsDiffer DEF AtTheLock
  <2>7. \A e \in Edits : step'[e] = "queued" <=>
                            (step[e] = "queued" /\ EditTicket(e) # RetirementTicket(d))
    BY <2>1, TicketsDiffer
  <2> QED BY <1>1, <2>4, <2>5, <2>6, <2>7, QueueLeft
<1>15. ASSUME NEW e \in Edits, NEW p, step' = [step EXCEPT ![e] = p]
       PROVE  /\ \A f \in Edits : f # e => (step'[f] = "queued" <=> step[f] = "queued")
              /\ step'[e] = "queued" <=> p = "queued"
  BY <1>2, <1>15
<1>16. ASSUME NEW e \in Edits, UNCHANGED <<lock, pc>>,
              \A k \in Calls : client'[k].state = "shut" <=> client[k].state = "shut",
              NEW p, step' = [step EXCEPT ![e] = p], p # "queued", step[e] # "queued"
       PROVE  QueueFits'
  <2>1. \A f \in Edits : step'[f] = "queued" <=> step[f] = "queued"
    BY <1>15, <1>16
  <2> QED BY <1>1, <1>16, <2>1, QueueKept DEF AtTheLock
<1>17. ASSUME NEW e \in Edits, UNCHANGED <<pc, client>>, step[e] # "queued",
              step' = [step EXCEPT ![e] = "queued"], lock' = Append(lock, EditTicket(e))
       PROVE  QueueFits'
  <2>1. EditTicket(e) \in Tickets /\ EditTicket(e) \notin Entries(lock)
    BY <1>1, <1>17, TicketsAreTyped DEF QueueFits
  <2>2. \A f \in Edits : step'[f] = "queued" <=>
                            (step[f] = "queued" \/ EditTicket(f) = EditTicket(e))
    BY <1>15, <1>17, TicketsDiffer
  <2>3. \A c \in Calls : AtTheLock(c)' <=> (AtTheLock(c) \/ CallTicket(c) = EditTicket(e))
    BY <1>17, TicketsDiffer DEF AtTheLock
  <2> QED BY <1>1, <1>17, <2>1, <2>2, <2>3, TicketsDiffer, QueueJoined
<1>18. ASSUME NEW e \in Edits, UpdateTarget(e) \/ DeleteTarget(e) \/ ReplaceApplianceCA(e)
       PROVE  QueueFits'
  <2>1. UNCHANGED <<lock, pc, client>>
    BY <1>18 DEF callVars, UpdateTarget, DeleteTarget, ReplaceApplianceCA, Committed
  <2>2. step[e] = "idle" /\ step' = [step EXCEPT ![e] = "committed"]
    BY <1>1, <1>18, EditPath
  <2> QED BY <1>16, <2>1, <2>2
<1>19. ASSUME NEW e \in Edits, Invalidate(e)
       PROVE  QueueFits'
  <2>1. step[e] = "committed" /\ UNCHANGED <<pc, client>>
    BY <1>19 DEF Invalidate
  <2>2. CASE step' = [step EXCEPT ![e] = "queued"] /\ lock' = Append(lock, EditTicket(e))
    BY <1>17, <2>1, <2>2
  <2>3. CASE step' = [step EXCEPT ![e] = "gather"] /\ UNCHANGED lock
    BY <1>16, <2>1, <2>3
  <2> QED BY <1>19, <2>2, <2>3 DEF Invalidate
<1>20. ASSUME NEW e \in Edits, Gathered(e)
       PROVE  QueueFits'
  BY <1>17, <1>20 DEF Gathered, callVars
<1>21. ASSUME NEW e \in Edits, RetireOlder(e)
       PROVE  QueueFits'
  <2>1. Holds(EditTicket(e)) /\ lock' = Tail(lock) /\ UNCHANGED pc
    BY <1>21 DEF RetireOlder
  <2>2. Entries(lock') = Entries(lock) \ {EditTicket(e)} /\ Distinct(lock')
    BY <1>1, <2>1, QueueServed
  <2>3. \E p \in {"settle", "done"} : step' = [step EXCEPT ![e] = p]
    BY <1>1, <1>21, EditPath
  <2>4. \A f \in Edits : step'[f] = "queued" <=>
                            (step[f] = "queued" /\ EditTicket(f) # EditTicket(e))
    BY <1>15, <2>3, TicketsDiffer
  <2>5. \A k \in Calls : client'[k].state = "shut" <=> client[k].state = "shut"
    BY <1>21, ShutStays
  <2>6. \A c \in Calls : AtTheLock(c)' <=> (AtTheLock(c) /\ CallTicket(c) # EditTicket(e))
    BY <2>1, TicketsDiffer DEF AtTheLock
  <2> QED BY <1>1, <2>2, <2>4, <2>5, <2>6, TicketsDiffer, QueueLeft
<1>22. ASSUME NEW e \in Edits, SettledOne(e)
       PROVE  QueueFits'
  <2>1. UNCHANGED <<lock, pc, client>>
    BY <1>22 DEF SettledOne
  <2>2. step[e] = "settle" /\ \E p \in {"settle", "done"} : step' = [step EXCEPT ![e] = p]
    BY <1>1, <1>22, EditPath
  <2> QED BY <1>16, <2>1, <2>2
<1>23. CASE Unlock \/ Revoked \/ UNCHANGED vars
  <2>1. UNCHANGED <<lock, pc, client, step>>
    BY <1>23 DEF callVars, editVars, Unlock, Revoked, vars
  <2> QED BY <1>1, <2>1, QueueKept DEF AtTheLock
<1> QED
  BY <1>6, <1>7, <1>9, <1>10, <1>11, <1>12, <1>13, <1>14, <1>18, <1>19, <1>20, <1>21, <1>22,
     <1>23
  DEF Next, CallStep, EditStep, Retirement

\* A retirement never goes back.
LEMMA RetirementsGoOn ==
    ASSUME WaitInv, [Next]_vars
    PROVE  \A k \in Calls : OnItsWay(k) => OnItsWay(k)'
<1>1. Typed /\ OnlyTheCachedClientIsOpen
  BY DEF WaitInv, PoolInv, Sound
<1> SUFFICES ASSUME NEW k \in Calls, OnItsWay(k) PROVE OnItsWay(k)'
  OBVIOUS
<1>2. ~Build(k)
  BY DEF Build, WaitInv, CallWaits, OnItsWay
<1> QED BY <1>1, <1>2, ClientsMoveOn DEF OnItsWay, Lived

\* A step of another task leaves a call its locks, its thread and its client.
LEMMA OthersLeave ==
    ASSUME Typed, [Next]_vars, NEW d \in Calls
    PROVE  \/ Snapshot(d) \/ Invoke(d) \/ CallStep(d) \/ Write(d)
           \/ /\ pc'[d] = pc[d] /\ write'[d] = write[d] /\ stale'[d] = stale[d]
              /\ authLock' = d => authLock = d
<1>1. /\ pc \in [Calls -> Inside \cup {"idle", "ready", "done"}]
      /\ stale \in [Calls -> Calls \cup {NoClient}]
      /\ write \in [Calls -> {"none", "success", "failure", "written"}]
      /\ NoClient # d
  BY PoolAssumption DEF Typed, CallTypes
<1>2. ASSUME NEW c \in Calls, c # d, Snapshot(c) \/ Invoke(c) \/ CallStep(c)
      PROVE  /\ pc'[d] = pc[d] /\ write'[d] = write[d] /\ stale'[d] = stale[d]
             /\ authLock' = d => authLock = d
  <2>1. \E p : pc' = [pc EXCEPT ![c] = p]
    BY <1>2, CallPath DEF CallStep
  <2>2. UNCHANGED write \/ \E w : write' = [write EXCEPT ![c] = w]
    BY <1>2 DEF Snapshot, Invoke, CallStep, TakeAuthLock, ReadFresh, Checked, GetCached,
                ReplaceClient, BuildFails, ReadMaterial, Build, StaleSettled, TakeSlot,
                Answered, AuthFails, RequestFails, Recorded, Unwind
  <2>3. UNCHANGED stale \/ stale' = [stale EXCEPT ![c] = cached]
    BY <1>2 DEF Snapshot, Invoke, CallStep, TakeAuthLock, ReadFresh, Checked, GetCached,
                ReplaceClient, BuildFails, ReadMaterial, Build, StaleSettled, TakeSlot,
                Answered, AuthFails, RequestFails, Recorded, Unwind
  <2>4. authLock' \in {authLock, c, NoClient}
    BY <1>2 DEF Snapshot, Invoke, CallStep, TakeAuthLock, ReadFresh, Checked, GetCached,
                ReplaceClient, BuildFails, ReadMaterial, Build, StaleSettled, TakeSlot,
                Answered, AuthFails, RequestFails, Recorded, Unwind, Leave
  <2> QED BY <1>1, <1>2, <2>1, <2>2, <2>3, <2>4
<1>3. ASSUME NEW c \in Calls, c # d, Write(c)
      PROVE  /\ pc'[d] = pc[d] /\ write'[d] = write[d] /\ stale'[d] = stale[d]
             /\ authLock' = d => authLock = d
  BY <1>1, <1>3 DEF Write
<1>4. ASSUME NEW c \in Calls, Cancel(c) \/ Retirement(c)
      PROVE  UNCHANGED <<pc, write, stale, authLock>>
  BY <1>4 DEF callVars, Cancel, Retirement, Drained, Shut, Settle, Becomes
<1>5. ASSUME NEW e \in Edits,
             UpdateTarget(e) \/ DeleteTarget(e) \/ ReplaceApplianceCA(e) \/ EditStep(e)
      PROVE  UNCHANGED <<pc, write, stale, authLock>>
  BY <1>5 DEF callVars, UpdateTarget, DeleteTarget, ReplaceApplianceCA, Committed, EditStep,
              Invalidate, Gathered, RetireOlder, SettledOne
<1>6. Unlock \/ Revoked \/ UNCHANGED vars => UNCHANGED <<pc, write, stale, authLock>>
  BY DEF callVars, Unlock, Revoked, vars
<1> QED BY <1>2, <1>3, <1>4, <1>5, <1>6 DEF Next

LEMMA CallWaitsStep ==
    ASSUME WaitInv, [Next]_vars, NEW c \in Calls
    PROVE  CallWaits(c)'
<1>1. /\ Typed /\ OnlyTheCachedClientIsOpen
      /\ CallWaits(c)
  BY DEF WaitInv, PoolInv, Sound
<1>2. /\ pc \in [Calls -> Inside \cup {"idle", "ready", "done"}]
      /\ stale \in [Calls -> Calls \cup {NoClient}]
      /\ write \in [Calls -> {"none", "success", "failure", "written"}]
      /\ authLock \in Calls \cup {NoClient}
      /\ NoClient # c
  BY <1>1, PoolAssumption DEF Typed, CallTypes
<1>3. \A k \in Calls : OnItsWay(k) => OnItsWay(k)'
  BY RetirementsGoOn
<1>4. client[c].state = "none" => client'[c].state = "none" \/ Build(c)
  BY <1>1, ClientsMoveOn DEF Lived
<1>5. CASE /\ pc'[c] = pc[c] /\ write'[c] = write[c] /\ stale'[c] = stale[c]
           /\ authLock' = c => authLock = c
  <2>1. ~Build(c)
    BY <1>1, <1>2, <1>5, CallPath
  <2> QED BY <1>1, <1>2, <1>3, <1>4, <1>5, <2>1 DEF CallWaits, CanWrite
<1>6. CASE Write(c)
  <2>1. UNCHANGED <<pc, stale, authLock>> /\ CanWrite(c) /\ ~Build(c)
        /\ write'[c] = IF pc[c] = "recording" THEN "written" ELSE "none"
    BY <1>1, <1>2, <1>6, CallPath DEF Write, CanWrite
  <2> QED BY <1>1, <1>2, <1>3, <1>4, <2>1 DEF CallWaits, CanWrite
<1>7. CASE pc'[c] = "done" /\ authLock' # c
  BY <1>7 DEF CallWaits
<1>8. ASSUME NEW r, Leave(c, r)
      PROVE  pc'[c] = "done" /\ authLock' # c
  BY <1>2, <1>8 DEF Leave
<1>9. CASE BuildFails(c) \/ RequestFails(c) \/ Recorded(c) \/ Unwind(c)
  BY <1>7, <1>8, <1>9 DEF BuildFails, RequestFails, Recorded, Unwind
<1>10. CASE Snapshot(c) \/ TakeAuthLock(c) \/ Checked(c)
  <2>1. /\ UNCHANGED <<write, stale>>
        /\ authLock' = authLock \/ (TakeAuthLock(c) /\ authLock' = c)
    BY <1>10 DEF Snapshot, TakeAuthLock, Checked
  <2>2. \/ pc[c] = "idle" /\ pc'[c] = "ready" /\ authLock' = authLock
        \/ pc[c] = "auth" /\ pc'[c] = "fresh"
        \/ pc[c] = "checked" /\ pc'[c] = "pool" /\ authLock' = authLock
    <3>1. CASE Snapshot(c)
      BY <1>2, <3>1 DEF Snapshot
    <3>2. CASE TakeAuthLock(c)
      BY <1>2, <3>2 DEF TakeAuthLock
    <3>3. CASE Checked(c)
      BY <1>2, <3>3 DEF Checked
    <3> QED BY <1>10, <3>1, <3>2, <3>3
  <2>3. ~Build(c)
    BY <2>2 DEF Build
  <2> QED BY <1>1, <1>4, <2>1, <2>2, <2>3 DEF CallWaits, CanWrite, Inside
<1>11. CASE Invoke(c) \/ ReadFresh(c)
  <2>1. CASE \E r : Leave(c, r)
    BY <1>7, <1>8, <2>1
  <2>2. CASE UNCHANGED authLock /\ \E p \in {"pool", "auth", "checked"} :
                pc' = [pc EXCEPT ![c] = p]
    <3>1. UNCHANGED <<write, stale>> /\ pc[c] \in {"ready", "fresh"} /\ ~Build(c)
          /\ (pc[c] = "ready" => pc'[c] \in {"pool", "auth"})
          /\ (pc[c] = "fresh" => pc'[c] = "checked")
      <4>1. CASE Invoke(c)
        BY <1>2, <2>2, <4>1, PoolAssumption DEF Invoke, Leave, Build
      <4>2. CASE ReadFresh(c)
        BY <1>2, <2>2, <4>2 DEF ReadFresh, Leave, Build
      <4> QED BY <1>11, <4>1, <4>2
    <3>2. authLock' = c => authLock = c
      BY <2>2
    <3>3. pc[c] = "ready" => authLock # c
      BY <1>1 DEF CallWaits, Inside
    <3> QED BY <1>1, <1>2, <1>4, <2>2, <3>1, <3>2, <3>3 DEF CallWaits, CanWrite, Inside
  <2> QED BY <1>11, <2>1, <2>2 DEF Invoke, ReadFresh
<1>12. CASE GetCached(c) \/ TakeSlot(c)
  <2>1. UNCHANGED <<write, stale, authLock>> /\ pc[c] \in {"pool", "slot"}
        /\ pc'[c] \in {"sending", "slot"}
    BY <1>1, <1>2, <1>12, CallPath DEF GetCached, TakeSlot
  <2> QED BY <1>1, <2>1 DEF CallWaits, CanWrite, Inside
<1>13. CASE ReplaceClient(c)
  <2>1. /\ UNCHANGED <<write, authLock>> /\ pc[c] = "pool" /\ pc'[c] = "build"
        /\ stale'[c] = cached /\ ~Build(c)
    BY <1>1, <1>2, <1>13, CallPath DEF ReplaceClient, Build
  <2>2. ASSUME NEW k \in Calls, cached = k
        PROVE  client'[k].state = "draining"
    <3>1. client' = [client EXCEPT ![k].state = "draining"]
      BY <1>13, <2>2, PoolAssumption DEF ReplaceClient, Retire
    <3>2. "draining" \in Lives
      BY DEF Lives
    <3>3. \A d \in Calls : client'[d].state = IF d = k THEN "draining" ELSE client[d].state
      BY <1>1, <3>1, <3>2, StateChange
    <3> QED BY <3>3
  <2>3. cached \in Calls \cup {NoClient}
    BY <1>1 DEF Typed, PoolTypes
  <2>4. stale'[c] = NoClient \/ OnItsWay(stale[c])'
    BY <2>1, <2>2, <2>3 DEF OnItsWay
  <2> QED BY <1>1, <1>4, <2>1, <2>4 DEF CallWaits, CanWrite, Inside
<1>14. CASE ReadMaterial(c)
  <2>1. /\ UNCHANGED <<write, stale, authLock>> /\ pc[c] = "build" /\ pc'[c] = "built"
        /\ ~Build(c)
    BY <1>1, <1>2, <1>14, CallPath DEF ReadMaterial, Build
  <2> QED BY <1>1, <1>2, <1>3, <1>4, <2>1 DEF CallWaits, CanWrite, Inside
<1>15. CASE Build(c)
  <2>1. /\ UNCHANGED <<write, stale, authLock>> /\ pc[c] = "built"
        /\ pc'[c] \in {"sending", "slot", "settle"}
        /\ pc'[c] = "settle" => stale[c] # NoClient
    BY <1>1, <1>2, <1>15, CallPath DEF Build, StartRequest
  <2> QED BY <1>1, <1>2, <1>3, <2>1 DEF CallWaits, CanWrite, Inside
<1>16. CASE StaleSettled(c) \/ Answered(c) \/ AuthFails(c)
  <2>1. CASE \E r : Leave(c, r)
    BY <1>7, <1>8, <2>1
  <2>2. CASE StartRequest(c, c) /\ StaleSettled(c) /\ UNCHANGED authLock
    <3>1. UNCHANGED write /\ pc[c] = "settle" /\ pc'[c] \in {"sending", "slot"}
      BY <1>2, <2>2 DEF StaleSettled, StartRequest
    <3> QED BY <1>1, <2>2, <3>1 DEF CallWaits, CanWrite, Inside
  <2>3. CASE \E w \in {"success", "failure"} :
                /\ pc' = [pc EXCEPT ![c] = "recording"] /\ write' = [write EXCEPT ![c] = w]
    <3>1. pc'[c] = "recording" /\ write'[c] # "none"
      BY <1>2, <2>3
    <3> QED BY <3>1 DEF CallWaits, CanWrite, Inside
  <2> QED BY <1>16, <2>1, <2>2, <2>3 DEF StaleSettled, Answered, AuthFails
<1> QED
  BY <1>1, <1>5, <1>6, <1>9, <1>10, <1>11, <1>12, <1>13, <1>14, <1>15, <1>16, OthersLeave
  DEF CallStep

LEMMA PlacesStep ==
    ASSUME Typed, PlacesTyped, [Next]_vars
    PROVE  PlacesTyped'
<1>0. events' \in Nat
  BY EventsStep DEF PlacesTyped
<1>1. ASSUME NEW e \in Edits, RetireOlder(e) \/ SettledOne(e)
      PROVE  PlacesTyped'
  <2>1. \E rest \in SUBSET Calls : SettleRest(e, rest)
    BY <1>1, SettlesClients
  <2>2. at' \in [Edits -> Calls \cup {NoClient}]
    BY <2>1, SettlePath
  <2> QED BY <1>0, <2>2 DEF PlacesTyped
<1>2. ASSUME NEW e \in Edits,
             \/ UpdateTarget(e) \/ DeleteTarget(e) \/ ReplaceApplianceCA(e)
             \/ Invalidate(e) \/ Gathered(e)
      PROVE  UNCHANGED at
  BY <1>2 DEF UpdateTarget, DeleteTarget, ReplaceApplianceCA, Committed, Invalidate, Gathered
<1>3. ASSUME NEW c \in Calls,
             \/ Snapshot(c) \/ Invoke(c) \/ CallStep(c) \/ Write(c) \/ Cancel(c)
             \/ Retirement(c)
      PROVE  UNCHANGED at
  BY <1>3 DEF editVars, Snapshot, Invoke, CallStep, TakeAuthLock, ReadFresh, Checked, GetCached,
              ReplaceClient, BuildFails, ReadMaterial, Build, StaleSettled, TakeSlot, Answered,
              AuthFails, RequestFails, Recorded, Unwind, Write, Cancel, Retirement, Drained,
              Shut, Settle, Becomes
<1>4. Unlock \/ Revoked \/ UNCHANGED vars => UNCHANGED at
  BY DEF editVars, Unlock, Revoked, vars
<1> QED BY <1>0, <1>1, <1>2, <1>3, <1>4 DEF Next, EditStep, PlacesTyped

LEMMA EditWaitsStep ==
    ASSUME WaitInv, [Next]_vars, NEW e \in Edits
    PROVE  EditWaits(e)'
<1>1. Typed /\ OnlyTheCachedClientIsOpen /\ PlacesTyped /\ EditWaits(e)
  BY DEF WaitInv, PoolInv, Sound
<1>2. /\ step \in [Edits -> {"idle", "committed", "gather", "queued", "settle", "done"}]
      /\ waits \in [Edits -> SUBSET Calls]
  BY <1>1 DEF Typed, EditTypes
<1>3. \A k \in Calls : OnItsWay(k) => OnItsWay(k)'
  BY RetirementsGoOn
<1>4. ASSUME NEW rest \in SUBSET Calls, SettleRest(e, rest),
             \A k \in rest : OnItsWay(k)',
             \E p \in {"settle", "done"} : step' = [step EXCEPT ![e] = p]
      PROVE  EditWaits(e)'
  <2>1. waits'[e] = rest /\ (step'[e] = "settle" => at'[e] \in rest)
    BY <1>1, <1>4, SettlePath
  <2>2. step'[e] \in {"settle", "done"}
    BY <1>2, <1>4
  <2> QED BY <1>4, <2>1, <2>2 DEF EditWaits, OnItsWay
<1>5. CASE step'[e] = step[e] /\ waits'[e] = waits[e] /\ at'[e] = at[e]
  <2>1. ASSUME step[e] = "gather", NEW c \in waits[e]
        PROVE  pc'[c] \notin {"idle", "ready"}
    <3>1. c \in Calls /\ pc[c] \in Inside \cup {"done"}
      BY <1>1, <1>2, <2>1 DEF EditWaits, Typed, CallTypes
    <3>2. CallAhead(pc[c]) \in 0..10
      BY <3>1, CallPlaces DEF Inside
    <3>3. pc'[c] = pc[c] \/ CallAhead(pc'[c]) < CallAhead(pc[c])
      BY <1>1, <3>1, CallsMoveOn
    <3> QED BY <1>1, <2>1, <3>2, <3>3, CallPlaces DEF EditWaits
  <2>2. step[e] = "settle" => at[e] \in waits[e] /\ \A k \in waits[e] : OnItsWay(k)'
    BY <1>1, <1>2, <1>3 DEF EditWaits
  <2> QED BY <1>5, <2>1, <2>2 DEF EditWaits, OnItsWay
<1>6. CASE UpdateTarget(e) \/ DeleteTarget(e) \/ ReplaceApplianceCA(e) \/ Gathered(e)
  <2>1. step'[e] \in {"committed", "queued"}
    BY <1>1, <1>2, <1>6, EditPath
  <2> QED BY <2>1 DEF EditWaits
<1>7. CASE Invalidate(e)
  <2>1. step'[e] \in {"gather", "queued"} /\ waits'[e] = Victims(e) /\ UNCHANGED pc
    BY <1>2, <1>7 DEF Invalidate
  <2>2. \A c \in Victims(e) : pc[c] \notin {"idle", "ready"}
    BY DEF Victims, Registered
  <2> QED BY <2>1, <2>2 DEF EditWaits
<1>8. CASE RetireOlder(e)
  <2> DEFINE Retired == IF cached # NoClient /\ Older(cached, e) THEN cached ELSE NoClient
             rest == {k \in Unsettled \cup ({Retired} \ {NoClient}) : Older(k, e)}
  <2>1. rest \in SUBSET Calls /\ SettleRest(e, rest) /\ Retire(Retired)
        /\ \E p \in {"settle", "done"} : step' = [step EXCEPT ![e] = p]
    BY <1>1, <1>8, SettlesClients, EditPath DEF RetireOlder
  <2>2. ASSUME NEW k \in rest
        PROVE  OnItsWay(k)'
    <3>1. k \in Calls
      BY <2>1, <2>2
    <3>2. CASE k \in Unsettled
      BY <1>3, <3>1, <3>2 DEF Unsettled, OnItsWay
    <3>3. CASE k = Retired /\ k # NoClient
      <4>1. client' = [client EXCEPT ![k].state = "draining"] /\ "draining" \in Lives
        BY <2>1, <3>3 DEF Retire, Lives
      <4>2. \A d \in Calls : client'[d].state = IF d = k THEN "draining" ELSE client[d].state
        BY <1>1, <4>1, StateChange
      <4> QED BY <3>1, <4>2 DEF OnItsWay
    <3> QED BY <2>2, <3>2, <3>3
  <2> HIDE DEF rest
  <2> QED BY <1>4, <2>1, <2>2
<1>9. CASE SettledOne(e)
  <2> DEFINE rest == waits[e] \ {at[e]}
  <2>1. rest \in SUBSET Calls /\ SettleRest(e, rest) /\ step[e] = "settle"
        /\ \E p \in {"settle", "done"} : step' = [step EXCEPT ![e] = p]
    BY <1>1, <1>9, SettlesClients, EditPath
  <2>2. \A k \in rest : OnItsWay(k)'
    BY <1>1, <1>3, <2>1 DEF EditWaits
  <2> HIDE DEF rest
  <2> QED BY <1>4, <2>1, <2>2
<1> QED BY <1>1, <1>5, <1>6, <1>7, <1>8, <1>9, EditsMoveOn DEF EditStep

LEMMA WaitInit == Init => WaitInv
<1> SUFFICES ASSUME Init PROVE WaitInv
  OBVIOUS
<1>1. /\ lock = <<>> /\ authLock = NoClient
      /\ client = [k \in Calls |-> [state |-> "none", target |-> target, trust |-> 0]]
      /\ pc = [c \in Calls |-> "idle"] /\ write = [c \in Calls |-> "none"]
      /\ step = [e \in Edits |-> "idle"] /\ at = [e \in Edits |-> NoClient]
      /\ events = 0
  BY DEF Init
<1>2. Entries(lock) = {} /\ Distinct(lock)
  BY <1>1 DEF Entries, Distinct
<1>3. QueueFits
  BY <1>1, <1>2 DEF QueueFits, AtTheLock
<1>4. \A c \in Calls : CallWaits(c)
  BY <1>1, PoolAssumption DEF CallWaits, CanWrite
<1>5. PlacesTyped /\ \A e \in Edits : EditWaits(e)
  BY <1>1 DEF PlacesTyped, EditWaits
<1> QED BY <1>3, <1>4, <1>5, InitPool DEF WaitInv

LEMMA WaitStep == WaitInv /\ [Next]_vars => WaitInv'
<1> SUFFICES ASSUME WaitInv, [Next]_vars PROVE WaitInv'
  OBVIOUS
<1>1. PoolInv /\ Typed /\ PlacesTyped
  BY DEF WaitInv, PoolInv, Sound
<1>2. PoolInv' /\ PlacesTyped'
  BY <1>1, PoolStep, PlacesStep
<1>3. (\A c \in Calls : CallWaits(c)') /\ (\A e \in Edits : EditWaits(e)')
  BY CallWaitsStep, EditWaitsStep
<1> QED BY <1>2, <1>3, QueueFitsStep DEF WaitInv

LEMMA AlwaysWaits == Spec => []WaitInv
BY WaitInit, WaitStep, PTL DEF Spec

\* If nobody can go on, then nobody is there who would.  The head of the queue
\* can, so there is no queue; then no request and no retirement waits for another,
\* nobody holds the authentication lock, and the barriers have what they wait for.
LEMMA NobodyIsStuck == WaitInv => GoesOnOrRests
<1> SUFFICES ASSUME WaitInv, ~CanGoOn PROVE AtRest
  BY DEF GoesOnOrRests
<1>1. /\ Typed /\ QueueFits
      /\ \A c \in Calls : CallWaits(c)
      /\ \A e \in Edits : EditWaits(e)
  BY DEF WaitInv, PoolInv, Sound
<1>2. /\ pc \in [Calls -> Inside \cup {"idle", "ready", "done"}]
      /\ stale \in [Calls -> Calls \cup {NoClient}]
      /\ write \in [Calls -> {"none", "success", "failure", "written"}]
      /\ authLock \in Calls \cup {NoClient}
      /\ step \in [Edits -> {"idle", "committed", "gather", "queued", "settle", "done"}]
      /\ waits \in [Edits -> SUBSET Calls]
      /\ lock \in Seq(Tickets)
  BY <1>1 DEF Typed, CallTypes, EditTypes
<1>3. /\ \A c \in Calls : ~CanResume(c) /\ ~CanWrite(c) /\ ~CanRetire(c)
      /\ \A e \in Edits : ~CanServe(e)
  BY DEF CanGoOn
<1>4. lock = <<>>
  <2> SUFFICES ASSUME lock # <<>> PROVE FALSE
    OBVIOUS
  <2>1. Head(lock) \in Entries(lock) /\ Head(lock) \in Tickets
    BY <1>1, <1>2, ServedFirst, HeadTailProperties DEF QueueFits
  <2>2. \/ \E c \in Calls : Head(lock) = CallTicket(c)
        \/ \E k \in Calls : Head(lock) = RetirementTicket(k)
        \/ \E e \in Edits : Head(lock) = EditTicket(e)
    BY <2>1 DEF Tickets, CallTicket, RetirementTicket, EditTicket
  <2>3. ASSUME NEW c \in Calls, Head(lock) = CallTicket(c)
        PROVE  FALSE
    BY <1>1, <1>3, <2>1, <2>3 DEF QueueFits, AtTheLock, CanResume, Holds
  <2>4. ASSUME NEW k \in Calls, Head(lock) = RetirementTicket(k)
        PROVE  FALSE
    BY <1>1, <1>3, <2>1, <2>4 DEF QueueFits, CanRetire, Holds
  <2>5. ASSUME NEW e \in Edits, Head(lock) = EditTicket(e)
        PROVE  FALSE
    BY <1>1, <1>3, <2>1, <2>5 DEF QueueFits, CanServe, Holds
  <2> QED BY <2>2, <2>3, <2>4, <2>5
<1>5. Entries(lock) = {}
  BY <1>4 DEF Entries
<1>6. /\ \A c \in Calls : ~AtTheLock(c) /\ client[c].state # "shut"
      /\ \A e \in Edits : step[e] # "queued"
  BY <1>1, <1>5 DEF QueueFits
<1>7. \A c \in Calls : pc[c] \notin {"fresh", "checked", "sending", "recording"}
  BY <1>1, <1>2, <1>3 DEF CanResume, CanWrite, CallWaits
<1>8. \A k \in Calls : InFlight(k) = {}
  BY <1>7 DEF InFlight
<1>9. Unsettled = {}
  BY <1>3, <1>6, <1>8 DEF Unsettled, CanRetire
<1>10. \A k \in Calls : OnItsWay(k) => client[k].state = "settled"
  BY <1>9 DEF OnItsWay, Unsettled
<1>11. \A c \in Calls : pc[c] # "slot"
  <2>1. {d \in Calls : pc[d] = "sending"} = {}
    BY <1>7
  <2>2. Cardinality({d \in Calls : pc[d] = "sending"}) < MaxConcurrency
    BY <2>1, FS_EmptySet, PoolAssumption
  <2> QED BY <1>3, <2>2 DEF CanResume
<1>12. ASSUME NEW c \in Calls, pc[c] = "settle"
       PROVE  FALSE
  <2>1. stale[c] \in Calls /\ OnItsWay(stale[c])
    BY <1>1, <1>2, <1>12 DEF CallWaits
  <2>2. client[stale[c]].state = "settled"
    BY <1>10, <2>1
  <2> QED BY <1>3, <1>12, <2>2 DEF CanResume
<1>13. \A c \in Calls : pc[c] \in {"idle", "ready", "auth", "done"}
  BY <1>2, <1>6, <1>7, <1>11, <1>12 DEF Inside, AtTheLock
<1>14. authLock = NoClient
  BY <1>1, <1>2, <1>13 DEF CallWaits, Inside
<1>15. \A c \in Calls : pc[c] \in {"idle", "ready", "done"}
  BY <1>3, <1>13, <1>14 DEF CanResume
<1>16. Registered = {}
  BY <1>15 DEF Registered
<1>17. ASSUME NEW e \in Edits
       PROVE  step[e] \in {"idle", "done"}
  <2>1. step[e] # "committed"
    BY <1>3 DEF CanServe
  <2>2. step[e] # "gather"
    BY <1>1, <1>2, <1>3, <1>15 DEF CanServe, EditWaits
  <2>3. step[e] # "settle"
    BY <1>1, <1>2, <1>3, <1>10 DEF CanServe, EditWaits
  <2> QED BY <1>2, <1>6, <2>1, <2>2, <2>3
<1> QED BY <1>4, <1>9, <1>16, <1>17 DEF AtRest

THEOREM NothingWaitsForEver == Spec => []GoesOnOrRests
BY AlwaysWaits, NobodyIsStuck, PTL

-----------------------------------------------------------------------------
(* What is still to be done.                                               *)

CallMoves == {x \in Calls \X (1..12) : x[2] <= CallAhead(pc[x[1]])}

\* Records of an authentication that may still be written.
Writes == {c \in Calls : pc[c] \notin {"recording", "done"} \/ CanWrite(c)}

ClientMoves == {x \in Calls \X (1..5) : x[2] <= ClientAhead(client[x[1]].state)}

EditMoves == {x \in Edits \X (1..5) : x[2] <= EditAhead(step[x[1]])}

\* Clients that a request may still have to settle.
Settlements ==
    {x \in Edits \X Calls : \/ step[x[1]] \in {"idle", "committed", "gather", "queued"}
                            \/ step[x[1]] = "settle" /\ x[2] \in waits[x[1]]}

Disturbances == (events + 1)..MaxEvents

Listed(calls, writes, clients, edits, settlements, disturbances) ==
    ({"call"} \X calls) \cup ({"write"} \X writes) \cup ({"client"} \X clients)
    \cup ({"edit"} \X edits) \cup ({"settlement"} \X settlements)
    \cup ({"disturbance"} \X disturbances)

ToDo == Listed(CallMoves, Writes, ClientMoves, EditMoves, Settlements, Disturbances)

LEMMA CallMovesShrink ==
    ASSUME Typed, [Next]_vars
    PROVE  /\ CallMoves' \subseteq CallMoves
           /\ \A c \in Calls : Snapshot(c) \/ Invoke(c) \/ CallStep(c) => CallMoves' # CallMoves
<1>1. pc \in [Calls -> Inside \cup {"idle", "ready", "done"}]
      /\ pc' \in [Calls -> Inside \cup {"idle", "ready", "done"}]
  BY CallTypesStep DEF Typed, CallTypes
<1>2. \A c \in Calls : CallAhead(pc[c]) \in 0..12 /\ CallAhead(pc'[c]) \in 0..12
  BY <1>1, CallPlaces DEF Inside
<1>3. \A c \in Calls : CallAhead(pc'[c]) <= CallAhead(pc[c])
  BY <1>2, CallsMoveOn
<1>4. CallMoves' \subseteq CallMoves
  BY <1>2, <1>3 DEF CallMoves
<1>5. ASSUME NEW c \in Calls, Snapshot(c) \/ Invoke(c) \/ CallStep(c)
      PROVE  CallMoves' # CallMoves
  <2>1. CallAhead(pc'[c]) < CallAhead(pc[c])
    BY <1>1, <1>5, CallMovesOn
  <2>2. <<c, CallAhead(pc[c])>> \in CallMoves
    BY <1>2, <2>1 DEF CallMoves
  <2>3. <<c, CallAhead(pc[c])>> \notin CallMoves'
    BY <1>2, <2>1 DEF CallMoves
  <2> QED BY <2>2, <2>3
<1> QED BY <1>4, <1>5

LEMMA WritesShrink ==
    ASSUME WaitInv, [Next]_vars
    PROVE  /\ Writes' \subseteq Writes
           /\ \A c \in Calls : Write(c) => Writes' # Writes
<1>1. Typed /\ \A c \in Calls : CallWaits(c)
  BY DEF WaitInv, PoolInv, Sound
<1>2. /\ pc \in [Calls -> Inside \cup {"idle", "ready", "done"}]
      /\ write \in [Calls -> {"none", "success", "failure", "written"}]
  BY <1>1 DEF Typed, CallTypes
<1>3. ASSUME NEW c \in Calls, c \notin Writes, c \in Writes'
      PROVE  FALSE
  <2>1. pc[c] \in {"recording", "done"} /\ ~CanWrite(c)
    BY <1>3 DEF Writes
  <2>2. ~Write(c)
    BY <2>1 DEF Write, CanWrite
  <2>3. CASE pc'[c] = pc[c] /\ write'[c] = write[c]
    BY <1>3, <2>1, <2>3 DEF Writes, CanWrite
  <2>4. CASE Snapshot(c) \/ Invoke(c) \/ CallStep(c)
    <3>1. Recorded(c) \/ Unwind(c)
      BY <1>1, <2>1, <2>4, CallPath DEF CallStep
    <3>2. pc'[c] = "done" /\ write'[c] \in {write[c], "none"}
      BY <1>1, <1>2, <3>1, CallPath DEF Recorded, Unwind
    <3> QED BY <1>3, <2>1, <3>2 DEF Writes, CanWrite
  <2> QED BY <1>1, <2>2, <2>3, <2>4, OthersLeave
<1>4. ASSUME NEW c \in Calls, Write(c)
      PROVE  Writes' # Writes
  <2>1. CanWrite(c) /\ UNCHANGED pc /\ pc[c] \in {"recording", "done"}
    BY <1>1, <1>4 DEF Write, CanWrite, CallWaits
  <2>2. write'[c] \in {"written", "none"}
    BY <1>2, <1>4 DEF Write
  <2>3. c \in Writes /\ c \notin Writes'
    BY <2>1, <2>2 DEF Writes, CanWrite
  <2> QED BY <2>3
<1>5. Writes' \subseteq Calls
  BY DEF Writes
<1> QED BY <1>3, <1>4, <1>5

LEMMA ClientMovesShrink ==
    ASSUME WaitInv, [Next]_vars
    PROVE  /\ ClientMoves' \subseteq ClientMoves
           /\ \A k \in Calls : Retirement(k) => ClientMoves' # ClientMoves
<1>1. Typed /\ OnlyTheCachedClientIsOpen /\ \A c \in Calls : CallWaits(c)
  BY DEF WaitInv, PoolInv, Sound
<1>2. \A k \in Calls : client[k].state \in Lives /\ client'[k].state \in Lives
  BY <1>1, PoolTypesStep DEF Typed, PoolTypes
<1>3. \A k \in Calls : /\ ClientAhead(client[k].state) \in 0..5
                       /\ ClientAhead(client'[k].state) \in 0..5
  BY <1>2, ClientPlaces DEF Lives
<1>4. ASSUME NEW k \in Calls
      PROVE  ClientAhead(client'[k].state) <= ClientAhead(client[k].state)
  <2>1. Build(k) => client[k].state = "none"
    BY <1>1 DEF Build, CallWaits
  <2>2. CASE client'[k].state = client[k].state
    BY <1>3, <2>2
  <2>3. CASE client'[k].state # client[k].state
    BY <1>1, <2>1, <2>3, ClientsMoveOn, ClientPlaces DEF Lived
  <2> QED BY <2>2, <2>3
<1>5. ClientMoves' \subseteq ClientMoves
  BY <1>3, <1>4 DEF ClientMoves
<1>6. ASSUME NEW k \in Calls, Retirement(k)
      PROVE  ClientMoves' # ClientMoves
  <2>1. \E after \in Lives : /\ client' = [client EXCEPT ![k].state = after]
                             /\ ClientAhead(after) < ClientAhead(client[k].state)
    BY <1>6, ClientPlaces DEF Retirement, Drained, Shut, Settle, Becomes, Lives
  <2>2. PICK after \in Lives : /\ client' = [client EXCEPT ![k].state = after]
                               /\ ClientAhead(after) < ClientAhead(client[k].state)
    BY <2>1
  <2>3. client'[k].state = after
    BY <1>1, <2>2, StateChange
  <2>4. <<k, ClientAhead(client[k].state)>> \in ClientMoves
    BY <1>3, <2>2, <2>3 DEF ClientMoves
  <2>5. <<k, ClientAhead(client[k].state)>> \notin ClientMoves'
    BY <1>3, <2>2, <2>3 DEF ClientMoves
  <2> QED BY <2>4, <2>5
<1> QED BY <1>5, <1>6

LEMMA EditMovesShrink ==
    ASSUME WaitInv, [Next]_vars
    PROVE  /\ EditMoves' \subseteq EditMoves
           /\ \A e \in Edits : \/ UpdateTarget(e) \/ DeleteTarget(e) \/ ReplaceApplianceCA(e)
                               \/ Invalidate(e) \/ Gathered(e) \/ RetireOlder(e)
                               => EditMoves' # EditMoves
<1>1. Typed /\ PlacesTyped
  BY DEF WaitInv, PoolInv, Sound
<1>2. /\ step \in [Edits -> {"idle", "committed", "gather", "queued", "settle", "done"}]
      /\ step' \in [Edits -> {"idle", "committed", "gather", "queued", "settle", "done"}]
  BY <1>1, EditTypesStep DEF Typed, EditTypes
<1>3. \A e \in Edits : EditAhead(step[e]) \in 0..5 /\ EditAhead(step'[e]) \in 0..5
  BY <1>2, EditPlaces
<1>4. ASSUME NEW e \in Edits, \/ UpdateTarget(e) \/ DeleteTarget(e) \/ ReplaceApplianceCA(e)
                              \/ Invalidate(e) \/ Gathered(e) \/ RetireOlder(e)
      PROVE  EditAhead(step'[e]) < EditAhead(step[e])
  <2>1. CASE UpdateTarget(e) \/ DeleteTarget(e) \/ ReplaceApplianceCA(e)
    BY <1>1, <1>2, <2>1, EditPath, EditPlaces
  <2>2. CASE Invalidate(e)
    BY <1>1, <1>2, <2>2, EditPath, EditPlaces
  <2>3. CASE Gathered(e)
    BY <1>1, <1>2, <2>3, EditPath, EditPlaces
  <2>4. CASE RetireOlder(e)
    BY <1>1, <1>2, <2>4, EditPath, EditPlaces
  <2> QED BY <1>4, <2>1, <2>2, <2>3, <2>4
<1>5. ASSUME NEW e \in Edits, SettledOne(e)
      PROVE  EditAhead(step'[e]) <= EditAhead(step[e])
  BY <1>1, <1>2, <1>5, EditPath, EditPlaces
<1>6. \A e \in Edits : EditAhead(step'[e]) <= EditAhead(step[e])
  BY <1>1, <1>3, <1>4, <1>5, EditsMoveOn DEF EditStep
<1>7. EditMoves' \subseteq EditMoves
  BY <1>3, <1>6 DEF EditMoves
<1>8. ASSUME NEW e \in Edits, EditAhead(step'[e]) < EditAhead(step[e])
      PROVE  EditMoves' # EditMoves
  <2>1. <<e, EditAhead(step[e])>> \in EditMoves
    BY <1>3, <1>8 DEF EditMoves
  <2>2. <<e, EditAhead(step[e])>> \notin EditMoves'
    BY <1>3, <1>8 DEF EditMoves
  <2> QED BY <2>1, <2>2
<1> QED BY <1>4, <1>7, <1>8

LEMMA SettlementsShrink ==
    ASSUME WaitInv, [Next]_vars
    PROVE  /\ Settlements' \subseteq Settlements
           /\ \A e \in Edits : SettledOne(e) => Settlements' # Settlements
<1>1. Typed /\ PlacesTyped /\ \A e \in Edits : EditWaits(e)
  BY DEF WaitInv, PoolInv, Sound
<1>2. /\ step \in [Edits -> {"idle", "committed", "gather", "queued", "settle", "done"}]
      /\ waits \in [Edits -> SUBSET Calls]
  BY <1>1 DEF Typed, EditTypes
<1>3. ASSUME NEW e \in Edits, SettledOne(e)
      PROVE  /\ step[e] = "settle" /\ waits'[e] = waits[e] \ {at[e]} /\ at[e] \in waits[e]
             /\ step'[e] \in {"settle", "done"}
  <2>1. waits[e] \ {at[e]} \in SUBSET Calls /\ SettleRest(e, waits[e] \ {at[e]})
    BY <1>1, <1>3, SettlesClients
  <2> QED BY <1>1, <1>2, <1>3, <2>1, SettlePath, EditPath DEF EditWaits
<1>4. ASSUME NEW e \in Edits, NEW k \in Calls, <<e, k>> \in Settlements'
      PROVE  <<e, k>> \in Settlements
  <2>1. \/ step'[e] \in {"idle", "committed", "gather", "queued"}
        \/ step'[e] = "settle" /\ k \in waits'[e]
    BY <1>4 DEF Settlements
  <2>2. CASE step'[e] = step[e] /\ waits'[e] = waits[e]
    BY <2>1, <2>2 DEF Settlements
  <2>3. CASE SettledOne(e)
    BY <1>3, <2>1, <2>3 DEF Settlements
  <2>4. CASE \/ UpdateTarget(e) \/ DeleteTarget(e) \/ ReplaceApplianceCA(e)
             \/ Invalidate(e) \/ Gathered(e) \/ RetireOlder(e)
    <3>1. step[e] \in {"idle", "committed", "gather", "queued"}
      BY <1>1, <2>4, EditPath
    <3> QED BY <3>1 DEF Settlements
  <2> QED BY <1>1, <2>2, <2>3, <2>4, EditsMoveOn DEF EditStep
<1>5. Settlements' \subseteq Settlements
  BY <1>4 DEF Settlements
<1>6. ASSUME NEW e \in Edits, SettledOne(e)
      PROVE  Settlements' # Settlements
  <2>1. at[e] \in Calls
    BY <1>2, <1>3, <1>6
  <2>2. <<e, at[e]>> \in Settlements
    BY <1>3, <1>6, <2>1 DEF Settlements
  <2>3. ASSUME <<e, at[e]>> \in Settlements'
        PROVE  FALSE
    BY <1>3, <1>6, <2>3 DEF Settlements
  <2> QED BY <2>2, <2>3
<1> QED BY <1>5, <1>6

LEMMA DisturbancesShrink ==
    ASSUME WaitInv, [Next]_vars
    PROVE  /\ Disturbances' \subseteq Disturbances
           /\ (\E c \in Calls : Cancel(c)) \/ Unlock \/ Revoked => Disturbances' # Disturbances
<1>1. events \in Nat /\ MaxEvents \in Nat
  BY PoolAssumption DEF WaitInv, PlacesTyped
<1>2. Disturbances' \subseteq Disturbances
  BY <1>1, EventsStep DEF Disturbances
<1>3. ASSUME (\E c \in Calls : Cancel(c)) \/ Unlock \/ Revoked
      PROVE  Disturbances' # Disturbances
  <2>1. events < MaxEvents /\ events' = events + 1
    BY <1>3 DEF Cancel, Unlock, Revoked
  <2>2. events + 1 \in Disturbances /\ events + 1 \notin Disturbances'
    BY <1>1, <2>1 DEF Disturbances
  <2> QED BY <2>2
<1> QED BY <1>2, <1>3

LEMMA SomethingIsDone ==
    ASSUME WaitInv, Next
    PROVE  ToDo' \subseteq ToDo /\ ToDo' # ToDo
<1>1. /\ CallMoves' \subseteq CallMoves /\ Writes' \subseteq Writes
      /\ ClientMoves' \subseteq ClientMoves /\ EditMoves' \subseteq EditMoves
      /\ Settlements' \subseteq Settlements /\ Disturbances' \subseteq Disturbances
  BY CallMovesShrink, WritesShrink, ClientMovesShrink, EditMovesShrink, SettlementsShrink,
     DisturbancesShrink DEF WaitInv, PoolInv, Sound
<1>2. \/ CallMoves' # CallMoves \/ Writes' # Writes \/ ClientMoves' # ClientMoves
      \/ EditMoves' # EditMoves \/ Settlements' # Settlements
      \/ Disturbances' # Disturbances
  BY CallMovesShrink, WritesShrink, ClientMovesShrink, EditMovesShrink, SettlementsShrink,
     DisturbancesShrink DEF WaitInv, PoolInv, Sound, Next, EditStep
<1>3. ToDo' \subseteq ToDo
  BY <1>1 DEF ToDo, Listed
<1>4. \A x : /\ <<"call", x>> \in ToDo <=> x \in CallMoves
             /\ <<"write", x>> \in ToDo <=> x \in Writes
             /\ <<"client", x>> \in ToDo <=> x \in ClientMoves
             /\ <<"edit", x>> \in ToDo <=> x \in EditMoves
             /\ <<"settlement", x>> \in ToDo <=> x \in Settlements
             /\ <<"disturbance", x>> \in ToDo <=> x \in Disturbances
  BY DEF ToDo, Listed
<1>5. \A x : /\ <<"call", x>> \in ToDo' <=> x \in CallMoves'
             /\ <<"write", x>> \in ToDo' <=> x \in Writes'
             /\ <<"client", x>> \in ToDo' <=> x \in ClientMoves'
             /\ <<"edit", x>> \in ToDo' <=> x \in EditMoves'
             /\ <<"settlement", x>> \in ToDo' <=> x \in Settlements'
             /\ <<"disturbance", x>> \in ToDo' <=> x \in Disturbances'
  BY DEF ToDo, Listed
<1>6. ASSUME CallMoves' # CallMoves PROVE ToDo' # ToDo
  <2>1. PICK x : x \in CallMoves /\ x \notin CallMoves'
    BY <1>1, <1>6
  <2> QED BY <1>4, <1>5, <2>1
<1>7. ASSUME Writes' # Writes PROVE ToDo' # ToDo
  <2>1. PICK x : x \in Writes /\ x \notin Writes'
    BY <1>1, <1>7
  <2> QED BY <1>4, <1>5, <2>1
<1>8. ASSUME ClientMoves' # ClientMoves PROVE ToDo' # ToDo
  <2>1. PICK x : x \in ClientMoves /\ x \notin ClientMoves'
    BY <1>1, <1>8
  <2> QED BY <1>4, <1>5, <2>1
<1>9. ASSUME EditMoves' # EditMoves PROVE ToDo' # ToDo
  <2>1. PICK x : x \in EditMoves /\ x \notin EditMoves'
    BY <1>1, <1>9
  <2> QED BY <1>4, <1>5, <2>1
<1>10. ASSUME Settlements' # Settlements PROVE ToDo' # ToDo
  <2>1. PICK x : x \in Settlements /\ x \notin Settlements'
    BY <1>1, <1>10
  <2> QED BY <1>4, <1>5, <2>1
<1>11. ASSUME Disturbances' # Disturbances PROVE ToDo' # ToDo
  <2>1. PICK x : x \in Disturbances /\ x \notin Disturbances'
    BY <1>1, <1>11
  <2> QED BY <1>4, <1>5, <2>1
<1> QED BY <1>2, <1>3, <1>6, <1>7, <1>8, <1>9, <1>10, <1>11

\* No step is ever taken twice and nothing is put off: every step of the pool takes
\* something from what is still to be done and adds nothing to it.
THEOREM EveryStepCounts == Spec => [][ToDo' \subseteq ToDo /\ ToDo' # ToDo]_vars
<1>1. WaitInv /\ [Next]_vars => [ToDo' \subseteq ToDo /\ ToDo' # ToDo]_vars
  BY SomethingIsDone
<1> QED BY <1>1, AlwaysWaits, PTL DEF Spec

LEMMA TheListIsFinite ==
    ASSUME IsFiniteSet(Edits), WaitInv
    PROVE  IsFiniteSet(ToDo)
<1>1. IsFiniteSet(1..12) /\ IsFiniteSet(1..5)
  <2>1. \A m, n \in Int : IsFiniteSet(m..n)
    BY FS_Interval
  <2>2. 1 \in Int /\ 5 \in Int /\ 12 \in Int
    OBVIOUS
  <2> QED BY <2>1, <2>2
<1> DEFINE twelve == 1..12
           five == 1..5
<1>0. \A S, T : IsFiniteSet(S) /\ IsFiniteSet(T) => IsFiniteSet(S \X T)
  BY FS_Product
<1>2. /\ IsFiniteSet(Calls \X (1..12)) /\ IsFiniteSet(Calls \X (1..5))
      /\ IsFiniteSet(Edits \X (1..5)) /\ IsFiniteSet(Edits \X Calls)
  <2>1. IsFiniteSet(twelve) /\ IsFiniteSet(five)
    BY <1>1
  <2> HIDE DEF twelve, five
  <2>2. /\ IsFiniteSet(Calls \X twelve) /\ IsFiniteSet(Calls \X five)
        /\ IsFiniteSet(Edits \X five) /\ IsFiniteSet(Edits \X Calls)
    BY <2>1, <1>0, PoolAssumption
  <2> QED BY <2>2 DEF twelve, five
<1>3. IsFiniteSet(CallMoves)
  BY <1>2, FS_Subset DEF CallMoves
<1>4. IsFiniteSet(Writes)
  BY FS_Subset, PoolAssumption DEF Writes
<1>5. IsFiniteSet(ClientMoves)
  BY <1>2, FS_Subset DEF ClientMoves
<1>6. IsFiniteSet(EditMoves) /\ IsFiniteSet(Settlements)
  BY <1>2, FS_Subset DEF EditMoves, Settlements
<1>7. IsFiniteSet(Disturbances)
  BY FS_Interval, PoolAssumption DEF Disturbances, WaitInv, PlacesTyped
<1>8. \A S : IsFiniteSet(S) =>
          /\ IsFiniteSet({"call"} \X S) /\ IsFiniteSet({"write"} \X S)
          /\ IsFiniteSet({"client"} \X S) /\ IsFiniteSet({"edit"} \X S)
          /\ IsFiniteSet({"settlement"} \X S) /\ IsFiniteSet({"disturbance"} \X S)
  BY FS_Product, FS_Singleton
<1>9. \A S, T : IsFiniteSet(S) /\ IsFiniteSet(T) => IsFiniteSet(S \cup T)
  BY FS_Union
<1> DEFINE a == {"call"} \X CallMoves
           b == {"write"} \X Writes
           c == {"client"} \X ClientMoves
           d == {"edit"} \X EditMoves
           e == {"settlement"} \X Settlements
           f == {"disturbance"} \X Disturbances
<1>10. /\ IsFiniteSet(a) /\ IsFiniteSet(b) /\ IsFiniteSet(c)
       /\ IsFiniteSet(d) /\ IsFiniteSet(e) /\ IsFiniteSet(f)
  BY <1>3, <1>4, <1>5, <1>6, <1>7, <1>8
<1>11. ToDo = a \cup b \cup c \cup d \cup e \cup f
  BY DEF ToDo, Listed
<1> HIDE DEF a, b, c, d, e, f
<1> QED BY <1>9, <1>10, <1>11

\* With finitely many admin requests every run of the pool is finite: the number of
\* things still to be done is a natural number, and every step makes it smaller. With
\* NothingWaitsForEver: the run ends with every call answered and every client closed.
THEOREM RunsEnd ==
    IsFiniteSet(Edits) =>
        (Spec => [][/\ Cardinality(ToDo) \in Nat /\ Cardinality(ToDo') \in Nat
                    /\ Cardinality(ToDo') < Cardinality(ToDo)]_vars)
<1> SUFFICES ASSUME IsFiniteSet(Edits)
             PROVE  Spec => [][/\ Cardinality(ToDo) \in Nat /\ Cardinality(ToDo') \in Nat
                               /\ Cardinality(ToDo') < Cardinality(ToDo)]_vars
  OBVIOUS
<1>1. WaitInv /\ [Next]_vars =>
          [/\ Cardinality(ToDo) \in Nat /\ Cardinality(ToDo') \in Nat
           /\ Cardinality(ToDo') < Cardinality(ToDo)]_vars
  <2> SUFFICES ASSUME WaitInv, Next
               PROVE  /\ Cardinality(ToDo) \in Nat /\ Cardinality(ToDo') \in Nat
                      /\ Cardinality(ToDo') < Cardinality(ToDo)
    OBVIOUS
  <2>1. ToDo' \subseteq ToDo /\ ToDo' # ToDo
    BY SomethingIsDone
  <2>2. IsFiniteSet(ToDo)
    BY TheListIsFinite
  <2>3. /\ IsFiniteSet(ToDo') /\ Cardinality(ToDo') <= Cardinality(ToDo)
        /\ Cardinality(ToDo') # Cardinality(ToDo)
    BY <2>1, <2>2, FS_Subset
  <2>4. Cardinality(ToDo) \in Nat /\ Cardinality(ToDo') \in Nat
    BY <2>2, <2>3, FS_CardinalityType
  <2> QED BY <2>3, <2>4
<1> QED BY <1>1, AlwaysWaits, PTL DEF Spec
=============================================================================
