--------------------- MODULE CredentialRotation_proofs ---------------------
(***************************************************************************)
(* Proofs about CredentialRotation, for any number of targets and writers, *)
(* any batch size and any bounds.                                          *)
(***************************************************************************)
EXTENDS CredentialRotation, FiniteSetTheorems, WellFoundedInduction, TLAPS

\* A key number that is in use was generated: the next one is new to every row.
Minted ==
    /\ file.keys \subseteq 1..minted
    /\ ring.keys \subseteq 1..minted
    /\ ring.active \in 0..minted
    /\ \A t \in Targets : row[t] \subseteq 1..minted
    /\ \A w \in Writers : writer[w].keys \subseteq 1..minted

\* Where the call stands says which stores agree.
JobFits ==
    /\ job # "idle" => up
    /\ job = "saved" => file = ring
    /\ job \in {"minted", "saved"} => rotation.state # "running"
    /\ job = "batch" => rotation.state = "running"
    /\ job \in {"retire", "dropped"} => rotation.state = "complete"

\* A quarantined row is torn, or neither file nor process holds all of its keys.
Unreadable ==
    \A t \in quarantined : ~Readable(t, file.keys) /\ (up => ~Readable(t, ring.keys))

\* What the cursor has passed is under the new key, but for late writes.
PassedRowsMoved ==
    rotation.state = "running" =>
        \A t \in Usable : t <= rotation.last /\ mark[t] = "current" =>
            row[t] = {rotation.to}

Agreed == Minted /\ JobFits /\ RunningRotationHasItsKey

RotationInv ==
    /\ TypeOK
    /\ Agreed
    /\ WrittenRowsKeepTheirKeys
    /\ Unreadable
    /\ PassedRowsMoved
    /\ CompletionMovedEveryRow

-----------------------------------------------------------------------------
(* The cursor of a batch.                                                  *)

\* A set of target ids that is not empty has a largest member: among the sets
\* of the members above each one, a smallest one is empty.
LEMMA LargestExists ==
    ASSUME NEW rows \in SUBSET Targets, rows # {}
    PROVE  \E t \in rows : \A u \in rows : u <= t
<1> DEFINE Above(t) == {u \in rows : u > t}
<1> DEFINE Aboves == {Above(t) : t \in rows}
<1>1. IsFiniteSet(rows)
  <2>1. IsFiniteSet(1..TargetCount)
    BY FS_Interval, RotationAssumption, SMT
  <2> QED BY <2>1, FS_Subset DEF Targets
<1>2. IsWellFoundedOn(StrictSubsetOrdering(rows), SUBSET rows)
  <2>1. IsWellFoundedOn(StrictSubsetOrdering(rows), FiniteSubsetsOf(rows))
    BY FS_StrictSubsetOrderingWellFounded
  <2>2. FiniteSubsetsOf(rows) = SUBSET rows
    BY <1>1, FS_FiniteSubsetsOfFinite
  <2> QED BY <2>1, <2>2
<1>3. Aboves \subseteq SUBSET rows /\ Aboves # {}
  OBVIOUS
<1>4. PICK least \in Aboves :
          \A other \in Aboves : ~(<<other, least>> \in StrictSubsetOrdering(rows))
  <2> HIDE DEF Aboves
  <2> QED BY <1>2, <1>3, WFMin
<1>5. PICK t \in rows : least = Above(t)
  BY <1>4
<1>6. SUFFICES ASSUME NEW u \in rows, ~(u <= t) PROVE FALSE
  BY <1>5
<1>7. u \in Int /\ t \in Int /\ u > t
  BY <1>6, RotationAssumption DEF Targets
<1>8. Above(u) \subseteq Above(t)
  <2> SUFFICES ASSUME NEW v \in rows, v > u PROVE v > t
    OBVIOUS
  <2>1. v \in Int
    BY RotationAssumption DEF Targets
  <2> QED BY <2>1, <1>7
<1>9. u \in Above(t) /\ u \notin Above(u)
  BY <1>7
<1>10. <<Above(u), Above(t)>> \in StrictSubsetOrdering(rows)
  <2>1. Above(u) \in SUBSET rows /\ Above(t) \in SUBSET rows
    OBVIOUS
  <2>2. Above(u) \subseteq Above(t) /\ Above(u) # Above(t)
    BY <1>8, <1>9
  <2> HIDE DEF Above
  <2> QED BY <2>1, <2>2 DEF StrictSubsetOrdering
<1> QED BY <1>4, <1>5, <1>10

\* The cursor is a row of the batch, or stays when there is none.
LEMMA CursorIsLargest ==
    ASSUME NEW rows \in SUBSET Targets
    PROVE  /\ rows = {} => Cursor(rows) = rotation.last
           /\ rows # {} => Cursor(rows) \in rows /\ \A u \in rows : u <= Cursor(rows)
<1>1. CASE rows = {}
  BY <1>1 DEF Cursor
<1>2. CASE rows # {}
  <2>1. \E t \in rows : \A u \in rows : u <= t
    BY <1>2, LargestExists
  <2>2. Cursor(rows) = CHOOSE t \in rows : \A u \in rows : u <= t
    BY <1>2 DEF Cursor
  <2> QED BY <1>2, <2>1, <2>2
<1> QED BY <1>1, <1>2

\* A batch takes every row up to its cursor: none is stepped over.
LEMMA BatchHasNoGap ==
    ASSUME TypeOK, NEW t \in Ahead(rotation.last), t <= Cursor(Batch)
    PROVE  t \in Batch
<1> DEFINE To(u) == {v \in Ahead(rotation.last) : v <= u}
<1>1. Ahead(rotation.last) \subseteq Targets /\ Batch \subseteq Ahead(rotation.last)
  BY DEF Ahead, Batch, Usable, Stored
<1>2. t \in Int /\ rotation.last \in Int /\ t > rotation.last
  BY <1>1, RotationAssumption DEF TypeOK, Ahead, Targets
<1>3. Batch # {}
  <2>1. Batch = {} => Cursor(Batch) = rotation.last
    BY <1>1, CursorIsLargest
  <2> QED BY <2>1, <1>2
<1>4. Cursor(Batch) \in Batch
  BY <1>1, <1>3, CursorIsLargest
<1> DEFINE cursor == Cursor(Batch)
<1>5. cursor \in Int
  BY <1>1, <1>4, RotationAssumption DEF Targets
<1>6. Cardinality(To(cursor)) <= BatchSize
  BY <1>4 DEF Batch
<1> HIDE DEF cursor
<1>7. To(t) \subseteq To(cursor)
  <2> SUFFICES ASSUME NEW v \in Ahead(rotation.last), v <= t PROVE v <= cursor
    OBVIOUS
  <2>1. v \in Int /\ t <= cursor
    BY <1>1, RotationAssumption DEF Targets, cursor
  <2> QED BY <2>1, <1>2, <1>5
<1>8. IsFiniteSet(To(cursor))
  <2>1. IsFiniteSet(1..TargetCount)
    BY FS_Interval, RotationAssumption, SMT
  <2>2. To(cursor) \in SUBSET (1..TargetCount)
    BY <1>1 DEF Targets
  <2> HIDE DEF To
  <2> QED BY <2>1, <2>2, FS_Subset
<1>9. Cardinality(To(t)) <= Cardinality(To(cursor))
  <2> HIDE DEF To
  <2> QED BY <1>7, <1>8, FS_Subset
<1>10. Cardinality(To(t)) \in Nat /\ Cardinality(To(cursor)) \in Nat
  <2>1. IsFiniteSet(To(t))
    <3> HIDE DEF To
    <3> QED BY <1>7, <1>8, FS_Subset
  <2> HIDE DEF To
  <2> QED BY <2>1, <1>8, FS_CardinalityType
<1>11. Cardinality(To(t)) <= BatchSize
  <2> HIDE DEF To
  <2> QED BY <1>6, <1>9, <1>10, RotationAssumption
<1> QED BY <1>11 DEF Batch

\* Both endings of a batch: some usable rows are moved, and the progress is
\* recorded only with all of them.
Moved(rows) ==
    /\ up /\ job = "batch"
    /\ rows \subseteq Batch
    /\ Reencrypted(rows)
    /\ \/ rotation' = rotation /\ job' = "idle"
       \/ /\ rows = Batch
          /\ rotation' = Progress
          /\ job' = "idle" \/ (job' = "retire" /\ rotation'.state = "complete")
    /\ UNCHANGED <<file, ring, up, writer, minted>>

LEMMA BatchesMoveRows ==
    ASSUME Agreed, RotateBatch \/ RotateBatchRaises
    PROVE  /\ \E rows \in SUBSET Batch : Moved(rows)
           /\ UNCHANGED boundVars \/ Fault
<1>1. CASE RotateBatch
  <2>1. Moved(Batch) /\ UNCHANGED boundVars
    BY <1>1 DEF RotateBatch, Moved, Agreed, JobFits
  <2> QED BY <2>1
<1>2. CASE RotateBatchRaises
  <2>1. PICK rows \in SUBSET Batch :
            /\ UNCHANGED boundVars \/ Fault
            /\ Reencrypted(rows)
            /\ rotation' = rotation \/ (rows = Batch /\ rotation' = Progress)
    BY <1>2 DEF RotateBatchRaises
  <2>2. Moved(rows)
    BY <1>2, <2>1 DEF RotateBatchRaises, Moved, Agreed, JobFits
  <2> QED BY <2>1, <2>2
<1> QED BY <1>1, <1>2

\* Moving rows puts usable ones under the active key and leaves the others.
LEMMA MovedRows ==
    ASSUME TypeOK, Agreed, NEW rows, Moved(rows)
    PROVE  /\ rows \subseteq Usable
           /\ ring.active \in KeyIds /\ ring.active \in ring.keys
           /\ ring.active \in file.keys /\ ring.active = rotation.to
           /\ row' \in [Targets -> SUBSET KeyIds]
           /\ mark' \in [Targets -> {"current", "outdated", "stranded"}]
           /\ \A t \in rows : row'[t] = {ring.active} /\ mark'[t] = "current"
           /\ \A t \in Targets \ rows : row'[t] = row[t] /\ mark'[t] = mark[t]
           /\ Stored' = Stored /\ Usable' = Usable
           /\ UNCHANGED <<torn, gen, quarantined>>
<1>1. rows \subseteq Usable /\ rows \subseteq Targets
  BY DEF Moved, Batch, Ahead, Usable, Stored
<1>2. ring.active \in ring.keys /\ ring.keys \subseteq KeyIds
  BY DEF TypeOK, Moved
<1>3. ring.active = rotation.to /\ file.active = rotation.to
  BY DEF Moved, Agreed, JobFits, RunningRotationHasItsKey
<1>4. /\ row' = [t \in Targets |-> IF t \in rows THEN {ring.active} ELSE row[t]]
      /\ mark' = [t \in Targets |-> IF t \in rows THEN "current" ELSE mark[t]]
      /\ UNCHANGED <<torn, gen, quarantined>>
  BY DEF Moved, Reencrypted
<1>5. /\ row' \in [Targets -> SUBSET KeyIds]
      /\ mark' \in [Targets -> {"current", "outdated", "stranded"}]
  BY <1>1, <1>2, <1>4 DEF TypeOK
<1>6. /\ \A t \in rows : row'[t] = {ring.active} /\ mark'[t] = "current"
      /\ \A t \in Targets \ rows : row'[t] = row[t] /\ mark'[t] = mark[t]
  BY <1>1, <1>4
<1>7. Stored' = Stored
  BY <1>1, <1>6 DEF Usable, Stored
<1>8. Usable' = Usable
  BY <1>4, <1>7 DEF Usable
<1> QED BY <1>1, <1>2, <1>3, <1>4, <1>5, <1>6, <1>7, <1>8 DEF TypeOK

\* Progress: the cursor moves to the last row of the batch.
LEMMA ProgressFields ==
    ASSUME TypeOK
    PROVE  /\ Progress \in [state : {"running", "complete"}, to : {0} \cup KeyIds,
                            last : {0} \cup Targets]
           /\ Progress.to = rotation.to
           /\ Progress.last = Cursor(Batch)
           /\ Progress.state = "complete" => Ahead(Cursor(Batch)) = {}
<1>1. Cursor(Batch) \in {0} \cup Targets
  <2>1. Batch \in SUBSET Targets
    BY DEF Batch, Ahead, Usable, Stored
  <2>2. rotation.last \in {0} \cup Targets
    BY DEF TypeOK
  <2> QED BY <2>1, <2>2, CursorIsLargest
<1> DEFINE next == IF Ahead(Cursor(Batch)) = {} THEN "complete" ELSE "running"
<1> DEFINE cursor == Cursor(Batch)
<1>2. Progress = [rotation EXCEPT !.last = cursor, !.state = next]
  BY DEF Progress
<1>3. rotation \in [state : {"none", "running", "complete"}, to : {0} \cup KeyIds,
                    last : {0} \cup Targets]
  BY DEF TypeOK
<1>4. next \in {"complete", "running"} /\ (next = "complete" => Ahead(cursor) = {})
  OBVIOUS
<1>5. cursor \in {0} \cup Targets
  BY <1>1
<1> HIDE DEF next, cursor
<1>6. /\ Progress \in [state : {"running", "complete"}, to : {0} \cup KeyIds,
                       last : {0} \cup Targets]
      /\ Progress.to = rotation.to /\ Progress.last = cursor /\ Progress.state = next
  BY <1>2, <1>3, <1>4, <1>5
<1> QED BY <1>4, <1>6 DEF cursor

-----------------------------------------------------------------------------
(* The invariant.                                                          *)

\* A request before its first step and after its last one.
LEMMA IdleAndDone ==
    /\ Idle \in Requests /\ Idle.keys = {} /\ ~Idle.torn
    /\ Done \in Requests /\ Done.keys = {} /\ ~Done.torn
<1>1. 1 \in Targets
  BY RotationAssumption DEF Targets
<1>2. Idle \in Requests /\ Idle.keys = {} /\ ~Idle.torn
  BY <1>1 DEF Idle, Requests
<1>3. Done \in Requests /\ Done.keys = Idle.keys /\ Done.torn = Idle.torn
  BY <1>2 DEF Done, Requests
<1> QED BY <1>2, <1>3

LEMMA InitRotation == Init => RotationInv
<1> SUFFICES ASSUME Init PROVE RotationInv
  OBVIOUS
<1>1. 1 \in KeyIds /\ 1 \in Targets
  BY RotationAssumption DEF KeyIds, Targets
<1>2. /\ row \in [Targets -> {{}, {1}}] /\ torn = {} /\ quarantined = {}
      /\ gen = [t \in Targets |-> IF row[t] = {} THEN 0 ELSE 1]
      /\ rotation = [state |-> "none", to |-> 0, last |-> 0]
      /\ file = [active |-> 1, keys |-> {1}] /\ ring = file /\ up = TRUE /\ job = "idle"
      /\ writer = [w \in Writers |-> Idle] /\ minted = 1
      /\ mark = [t \in Targets |-> "current"] /\ faults = 0 /\ crashes = 0
  BY DEF Init
<1>3. row \in [Targets -> SUBSET KeyIds] /\ gen \in [Targets -> Nat]
  BY <1>1, <1>2
<1>4. TypeOK
  BY <1>1, <1>2, <1>3, IdleAndDone, RotationAssumption DEF TypeOK
<1>5. Agreed
  BY <1>2 DEF Agreed, Minted, JobFits, RunningRotationHasItsKey, Idle
<1>6. WrittenRowsKeepTheirKeys
  BY <1>2 DEF WrittenRowsKeepTheirKeys, Readable, Stored
<1>7. Unreadable /\ PassedRowsMoved /\ CompletionMovedEveryRow
  BY <1>2 DEF Unreadable, PassedRowsMoved, CompletionMovedEveryRow
<1> QED BY <1>4, <1>5, <1>6, <1>7 DEF RotationInv

\* What a request keeps of its encryption.
LEMMA RequestFields ==
    ASSUME TypeOK, NEW w \in Writers
    PROVE  /\ writer[w].target \in Targets /\ writer[w].seen \in Nat
           /\ writer[w].keys \in SUBSET KeyIds /\ writer[w].torn \in BOOLEAN
           /\ writer[w].torn => writer[w].keys # {}
BY DEF TypeOK, Requests

\* A request's step keeps its record one of a request, and takes no key but one the
\* process holds.
LEMMA RequestSteps ==
    ASSUME TypeOK, NEW w \in Writers,
           Prepare(w) \/ BindEnvelope(w) \/ Encrypt(w) \/ CommitWrite(w) \/ Delete(w)
    PROVE  /\ writer' \in [Writers -> Requests]
           /\ \A v \in Writers : /\ writer'[v].torn => writer'[v].keys # {}
                                /\ writer'[v].keys \subseteq writer[v].keys \cup ring.keys
<1> DEFINE Fits(q) == /\ q \in Requests
                      /\ writer' = [writer EXCEPT ![w] = q]
                      /\ q.torn => q.keys # {}
                      /\ q.keys \subseteq writer[w].keys \cup ring.keys
<1>1. ASSUME NEW q, Fits(q)
      PROVE  /\ writer' \in [Writers -> Requests]
             /\ \A v \in Writers : /\ writer'[v].torn => writer'[v].keys # {}
                                  /\ writer'[v].keys \subseteq writer[v].keys \cup ring.keys
  BY <1>1 DEF TypeOK
<1>2. CASE Prepare(w)
  <2>1. PICK t \in Targets :
            writer' = [writer EXCEPT ![w] = [Idle EXCEPT !.at = "username", !.target = t,
                                                         !.seen = gen[t]]]
    BY <1>2 DEF Prepare
  <2> DEFINE q == [Idle EXCEPT !.at = "username", !.target = t, !.seen = gen[t]]
  <2>2. gen[t] \in Nat
    BY DEF TypeOK
  <2>3. q \in Requests /\ q.keys = {} /\ ~q.torn
    BY <2>2 DEF Idle, Requests, Envelopes
  <2>4. Fits(q)
    BY <2>1, <2>3
  <2> QED BY <2>4, <1>1
<1>3. CASE BindEnvelope(w)
  <2> DEFINE q == [writer[w] EXCEPT !.aad = ring.active]
  <2>1. writer[w] \in Requests /\ (writer[w].torn => writer[w].keys # {})
        /\ ring.active \in {0} \cup KeyIds
    BY DEF TypeOK
  <2>2. writer' = [writer EXCEPT ![w] = q]
    BY <1>3 DEF BindEnvelope
  <2>3. q \in Requests /\ q.keys = writer[w].keys /\ q.torn = writer[w].torn
    BY <2>1 DEF Requests
  <2>4. Fits(q)
    BY <2>1, <2>2, <2>3
  <2> QED BY <2>4, <1>1
<1>4. CASE Encrypt(w)
  <2> DEFINE keys == writer[w].keys \cup {ring.active}
  <2> DEFINE tears == writer[w].torn \/ writer[w].aad # ring.active
  <2>1. PICK next \in After(writer[w].at) :
            writer' = [writer EXCEPT ![w].at = next, ![w].aad = 0,
                                     ![w].keys = @ \cup {ring.active},
                                     ![w].torn = @ \/ writer[w].aad # ring.active]
    BY <1>4 DEF Encrypt
  <2> DEFINE q == [writer[w] EXCEPT !.at = next, !.aad = 0, !.keys = keys, !.torn = tears]
  <2>2. writer[w] \in Requests /\ ring.active \in ring.keys /\ ring.active \in KeyIds
    BY <1>4 DEF Encrypt, TypeOK
  <2>3. next \in Envelopes \cup {"idle", "encrypted", "done"}
    BY <2>1 DEF After, Envelopes
  <2>4. writer' = [writer EXCEPT ![w] = q]
    BY <2>1 DEF TypeOK
  <2>5. keys \in SUBSET KeyIds /\ keys # {} /\ tears \in BOOLEAN
        /\ keys \subseteq writer[w].keys \cup ring.keys
    BY <2>2 DEF Requests
  <2> HIDE DEF keys, tears
  <2>6. q \in Requests /\ q.keys = keys
    BY <2>2, <2>3, <2>5 DEF Requests
  <2>7. Fits(q)
    BY <2>4, <2>5, <2>6
  <2> HIDE DEF q
  <2> QED BY <2>7, <1>1
<1>5. CASE CommitWrite(w) \/ Delete(w)
  <2>1. Fits(Done)
    BY <1>5, IdleAndDone DEF CommitWrite, Delete
  <2> QED BY <2>1, <1>1
<1> QED BY <1>2, <1>3, <1>4, <1>5

LEMMA TypeStep ==
    ASSUME TypeOK, Agreed, [Next]_vars
    PROVE  TypeOK'
<1> USE DEF boundVars, rowVars
<1>1. CASE NewKey
  <2>1. minted + 1 \in KeyIds
    BY <1>1, RotationAssumption DEF NewKey, TypeOK, KeyIds
  <2>2. ring' \in [active : {0} \cup KeyIds, keys : SUBSET KeyIds]
        /\ ring'.active \in ring'.keys
    BY <1>1, <2>1 DEF NewKey, TypeOK
  <2> QED BY <1>1, <2>1, <2>2 DEF NewKey, TypeOK, Stored
<1>2. CASE Resume
  BY <1>2 DEF Resume, TypeOK, Stored
<1>3. CASE SaveKeyring
  <2>1. up /\ ring.active \in ring.keys /\ ring.keys \subseteq KeyIds
    BY <1>3 DEF SaveKeyring, Agreed, JobFits, TypeOK
  <2>2. ring \in [active : KeyIds, keys : SUBSET KeyIds]
    BY <2>1 DEF TypeOK
  <2>3. /\ file' \in {file, ring} /\ job' \in {"idle", "saved"}
        /\ UNCHANGED boundVars \/ Fault
        /\ UNCHANGED <<rowVars, rotation, ring, up, writer, minted>>
    BY <1>3 DEF SaveKeyring
  <2>4. faults' \in 0..MaxFaults /\ crashes' \in 0..MaxCrashes
    BY <2>3, RotationAssumption DEF TypeOK, Fault
  <2> QED BY <2>1, <2>2, <2>3, <2>4 DEF TypeOK, Stored
<1>4. CASE StartRotation
  <2>1. /\ rotation' \in {rotation, [state |-> "running", to |-> ring.active, last |-> 0]}
        /\ job' \in {"batch", "idle"} /\ (UNCHANGED boundVars \/ Fault)
        /\ UNCHANGED <<rowVars, file, ring, up, writer, minted>>
    BY <1>4 DEF StartRotation
  <2>2. rotation' \in [state : {"none", "running", "complete"}, to : {0} \cup KeyIds,
                       last : {0} \cup Targets]
    BY <2>1 DEF TypeOK
  <2>3. faults' \in 0..MaxFaults /\ crashes' \in 0..MaxCrashes
    BY <2>1, RotationAssumption DEF TypeOK, Fault
  <2> QED BY <2>1, <2>2, <2>3 DEF TypeOK, Stored
<1>5. CASE RotateBatch \/ RotateBatchRaises
  <2>1. PICK rows \in SUBSET Batch : Moved(rows)
    BY <1>5, BatchesMoveRows
  <2>2. faults' \in 0..MaxFaults /\ crashes' \in 0..MaxCrashes
    BY <1>5, BatchesMoveRows, RotationAssumption DEF TypeOK, Fault
  <2>3. /\ row' \in [Targets -> SUBSET KeyIds]
        /\ mark' \in [Targets -> {"current", "outdated", "stranded"}]
        /\ Stored' = Stored /\ UNCHANGED <<torn, gen, quarantined>>
    BY <2>1, MovedRows
  <2>4. rotation' \in {rotation, Progress} /\ job' \in {"idle", "retire"}
        /\ UNCHANGED <<file, ring, up, writer, minted>>
    BY <2>1 DEF Moved
  <2>5. rotation' \in [state : {"none", "running", "complete"}, to : {0} \cup KeyIds,
                       last : {0} \cup Targets]
    BY <2>4, ProgressFields DEF TypeOK
  <2> QED BY <2>2, <2>3, <2>4, <2>5 DEF TypeOK
<1>6. CASE RetireKeys
  <2> DEFINE kept == ring.keys \cap Referenced
  <2>1. up /\ ring.active \in ring.keys
    BY <1>6 DEF RetireKeys, Agreed, JobFits, TypeOK
  <2>2. ring.active \in kept /\ kept \subseteq KeyIds
    <3>1. ring.active \in Referenced
      BY Zenon DEF Referenced
    <3> QED BY <2>1, <3>1 DEF TypeOK
  <2>3. ring' = [ring EXCEPT !.keys = kept] /\ job' \in {"idle", "dropped"}
        /\ UNCHANGED <<rowVars, rotation, file, up, writer, minted, boundVars>>
    BY <1>6 DEF RetireKeys
  <2> HIDE DEF kept
  <2>4. ring' \in [active : {0} \cup KeyIds, keys : SUBSET KeyIds]
        /\ ring'.active \in ring'.keys
    BY <2>2, <2>3 DEF TypeOK
  <2> QED BY <2>1, <2>3, <2>4 DEF TypeOK, Stored
<1>7. ASSUME NEW w \in Writers, Prepare(w) \/ BindEnvelope(w) \/ Encrypt(w)
      PROVE  TypeOK'
  <2>1. UNCHANGED <<rowVars, rotation, file, ring, up, job, minted, boundVars>>
    BY <1>7 DEF Prepare, BindEnvelope, Encrypt
  <2>2. writer' \in [Writers -> Requests]
        /\ \A v \in Writers : writer'[v].torn => writer'[v].keys # {}
    BY <1>7, RequestSteps
  <2> QED BY <2>1, <2>2 DEF TypeOK, Stored
<1>8. ASSUME NEW w \in Writers, CommitWrite(w)
      PROVE  TypeOK'
  <2> DEFINE t == writer[w].target
  <2>1. UNCHANGED <<rotation, file, ring, up, job, minted, boundVars>>
    BY <1>8 DEF CommitWrite
  <2>2. writer' \in [Writers -> Requests]
        /\ \A v \in Writers : writer'[v].torn => writer'[v].keys # {}
    BY <1>8, RequestSteps
  <2>3. \/ /\ row' = [row EXCEPT ![t] = writer[w].keys]
           /\ torn' = TornAfter(t, writer[w].torn)
           /\ mark' = [mark EXCEPT ![t] = Worth(writer[w].keys)]
           /\ gen' = [gen EXCEPT ![t] = @ + 1]
           /\ quarantined' = quarantined \ {t}
        \/ UNCHANGED rowVars
    BY <1>8 DEF CommitWrite
  <2>4. t \in Targets /\ writer[w].keys \in SUBSET KeyIds
        /\ (writer[w].torn => writer[w].keys # {})
    BY RequestFields
  <2>5. Worth(writer[w].keys) \in {"current", "outdated", "stranded"}
    BY DEF Worth
  <2> HIDE DEF t
  <2>6. /\ row' \in [Targets -> SUBSET KeyIds]
        /\ mark' \in [Targets -> {"current", "outdated", "stranded"}]
        /\ gen' \in [Targets -> Nat]
        /\ quarantined' \subseteq Stored' /\ torn' \subseteq Stored'
    BY <2>3, <2>4, <2>5 DEF TypeOK, Stored, TornAfter
  <2> QED BY <2>1, <2>2, <2>6 DEF TypeOK
<1>9. ASSUME NEW w \in Writers, Delete(w)
      PROVE  TypeOK'
  <2>1. PICK t \in Stored : /\ row' = [row EXCEPT ![t] = {}]
                            /\ quarantined' = quarantined \ {t} /\ torn' = torn \ {t}
    BY <1>9 DEF Delete
  <2>2. writer' \in [Writers -> Requests]
        /\ \A v \in Writers : writer'[v].torn => writer'[v].keys # {}
    BY <1>9, RequestSteps
  <2>3. /\ row' \in [Targets -> SUBSET KeyIds]
        /\ quarantined' \subseteq Stored' /\ torn' \subseteq Stored'
    BY <2>1 DEF TypeOK, Stored
  <2> QED BY <1>9, <2>2, <2>3 DEF Delete, TypeOK
<1>10. CASE Crash
  <2>1. /\ writer' \in [Writers -> Requests]
        /\ \A w \in Writers : writer'[w].torn => writer'[w].keys # {}
    BY <1>10, IdleAndDone DEF Crash
  <2>2. crashes' \in 0..MaxCrashes
    BY <1>10, RotationAssumption DEF Crash, TypeOK
  <2> QED BY <1>10, <2>1, <2>2 DEF Crash, TypeOK, Stored, NoRing
<1>11. CASE Bootstrap
  <2>1. Kept \subseteq file.keys /\ file.active \in Kept
    <3>1. file.active \in file.keys
      BY DEF TypeOK
    <3> QED BY <3>1, Zenon DEF Kept
  <2>2. file' = [file EXCEPT !.keys = Kept] /\ up' \in BOOLEAN
        /\ ring' = (IF up' THEN file' ELSE NoRing) /\ job' = job
        /\ UNCHANGED <<row, torn, gen, mark, rotation, writer, minted, boundVars>>
        /\ quarantined' \subseteq Stored
    BY <1>11 DEF Bootstrap
  <2>3. file' \in [active : KeyIds, keys : SUBSET KeyIds] /\ file'.active \in file'.keys
    BY <2>1, <2>2 DEF TypeOK
  <2>4. ring' \in [active : {0} \cup KeyIds, keys : SUBSET KeyIds]
        /\ (IF up' THEN ring'.active \in ring'.keys ELSE ring' = NoRing)
    BY <2>2, <2>3 DEF NoRing
  <2> QED BY <2>2, <2>3, <2>4 DEF TypeOK, Stored
<1>12. CASE BootstrapFails
  <2>1. faults' \in 0..MaxFaults /\ crashes' \in 0..MaxCrashes
    BY <1>12, RotationAssumption DEF BootstrapFails, Fault, TypeOK
  <2> QED BY <1>12, <2>1 DEF BootstrapFails, TypeOK, Stored
<1>13. CASE UNCHANGED vars
  BY <1>13 DEF vars, TypeOK, Stored
<1> QED
  BY <1>1, <1>2, <1>3, <1>4, <1>5, <1>6, <1>7, <1>8, <1>9, <1>10, <1>11, <1>12, <1>13
  DEF Next, Rotate, Writes

LEMMA AgreedStep ==
    ASSUME TypeOK, Agreed, [Next]_vars
    PROVE  Agreed'
<1> USE DEF boundVars, rowVars
<1>1. minted \in Nat
  BY RotationAssumption DEF TypeOK, KeyIds
<1>2. CASE NewKey
  <2>1. Minted'
    BY <1>1, <1>2 DEF NewKey, Agreed, Minted
  <2> QED BY <1>2, <2>1 DEF NewKey, Agreed, JobFits, RunningRotationHasItsKey
<1>3. CASE Resume
  BY <1>3 DEF Resume, Agreed, Minted, JobFits, RunningRotationHasItsKey
<1>4. CASE SaveKeyring
  BY <1>4 DEF SaveKeyring, Fault, Agreed, Minted, JobFits, RunningRotationHasItsKey
<1>5. CASE StartRotation
  <2>1. /\ job = "saved" /\ file = ring
        /\ \/ job' = "batch" /\ rotation'.state = "running" /\ rotation'.to = ring.active
           \/ /\ job' = "idle"
              /\ \/ rotation' = rotation
                 \/ rotation'.state = "running" /\ rotation'.to = ring.active
        /\ UNCHANGED <<rowVars, file, ring, up, writer, minted>>
    BY <1>5 DEF StartRotation, Agreed, JobFits
  <2>2. Minted' /\ JobFits'
    BY <2>1 DEF Agreed, Minted, JobFits
  <2>3. RunningRotationHasItsKey'
    BY <2>1 DEF Agreed, RunningRotationHasItsKey
  <2> QED BY <2>2, <2>3 DEF Agreed
<1>6. CASE RotateBatch \/ RotateBatchRaises
  <2>1. PICK rows \in SUBSET Batch : Moved(rows)
    BY <1>6, BatchesMoveRows
  <2>2. /\ \A t \in Targets : row'[t] \in {row[t], {ring.active}}
        /\ ring.active \in ring.keys
    BY <2>1, MovedRows DEF Usable, Stored
  <2>3. /\ \/ rotation' = rotation /\ job' = "idle"
           \/ /\ rotation'.to = rotation.to
              /\ job' = "idle" \/ (job' = "retire" /\ rotation'.state = "complete")
        /\ up /\ job = "batch" /\ UNCHANGED <<file, ring, up, writer, minted>>
    BY <2>1, ProgressFields DEF Moved
  <2>4. Minted'
    BY <2>2, <2>3 DEF Agreed, Minted
  <2>5. JobFits' /\ RunningRotationHasItsKey'
    BY <2>3 DEF Agreed, JobFits, RunningRotationHasItsKey
  <2> QED BY <2>4, <2>5 DEF Agreed
<1>7. CASE RetireKeys
  <2> DEFINE kept == ring.keys \cap Referenced
  <2>1. ring' = [ring EXCEPT !.keys = kept] /\ kept \subseteq ring.keys
        /\ job = "retire" /\ job' \in {"idle", "dropped"}
        /\ UNCHANGED <<rowVars, rotation, file, up, writer, minted, boundVars>>
    BY <1>7 DEF RetireKeys
  <2> HIDE DEF kept
  <2>2. ring'.active = ring.active /\ ring'.keys \subseteq ring.keys
    BY <2>1 DEF TypeOK
  <2> QED BY <2>1, <2>2 DEF Agreed, Minted, JobFits, RunningRotationHasItsKey
<1>8. ASSUME NEW w \in Writers,
             Prepare(w) \/ BindEnvelope(w) \/ Encrypt(w) \/ CommitWrite(w) \/ Delete(w)
      PROVE  Agreed'
  <2>1. UNCHANGED <<rotation, file, ring, minted, up, job>>
    BY <1>8 DEF Prepare, BindEnvelope, Encrypt, CommitWrite, Delete, Agreed, JobFits
  <2>2. \A v \in Writers : writer'[v].keys \subseteq writer[v].keys \cup ring.keys
    BY <1>8, RequestSteps
  <2>3. \A t \in Targets : row'[t] \in {row[t], {}, writer[w].keys}
    BY <1>8 DEF Prepare, BindEnvelope, Encrypt, CommitWrite, Delete, TypeOK, Stored
  <2>4. Minted'
    BY <1>1, <2>1, <2>2, <2>3 DEF Agreed, Minted
  <2> QED BY <2>1, <2>4 DEF Agreed, JobFits, RunningRotationHasItsKey
<1>9. CASE Crash
  <2>1. \A w \in Writers : writer'[w].keys = {}
    BY <1>9, IdleAndDone DEF Crash
  <2>2. Minted'
    BY <1>1, <1>9, <2>1 DEF Crash, Agreed, Minted, NoRing
  <2> QED BY <1>9, <2>2 DEF Crash, Agreed, JobFits, RunningRotationHasItsKey
<1>10. CASE Bootstrap
  <2>1. Kept \subseteq file.keys /\ file' = [file EXCEPT !.keys = Kept]
    BY <1>10 DEF Bootstrap, Kept
  <2>2. file'.active = file.active /\ file'.keys \subseteq file.keys
    BY <2>1 DEF TypeOK
  <2>3. ring' = (IF up' THEN file' ELSE NoRing) /\ ~up
        /\ UNCHANGED <<row, torn, gen, mark, rotation, job, writer, minted, boundVars>>
    BY <1>10 DEF Bootstrap
  <2>4. Minted'
    <3>1. file.active \in 1..minted
      BY DEF TypeOK, Agreed, Minted
    <3> QED BY <1>1, <2>2, <2>3, <3>1 DEF Agreed, Minted, NoRing
  <2> QED BY <2>2, <2>3, <2>4 DEF Agreed, JobFits, RunningRotationHasItsKey
<1>11. CASE BootstrapFails
  BY <1>11 DEF BootstrapFails, Agreed, Minted, JobFits, RunningRotationHasItsKey
<1>12. CASE UNCHANGED vars
  BY <1>12 DEF vars, Agreed, Minted, JobFits, RunningRotationHasItsKey
<1> QED
  BY <1>2, <1>3, <1>4, <1>5, <1>6, <1>7, <1>8, <1>9, <1>10, <1>11, <1>12
  DEF Next, Rotate, Writes

\* Every step keeps the keys that written rows need, in the file and in memory.
LEMMA ReadableStep ==
    ASSUME TypeOK, Agreed, WrittenRowsKeepTheirKeys, [Next]_vars
    PROVE  WrittenRowsKeepTheirKeys'
<1> USE DEF boundVars, rowVars
<1>1. CASE NewKey
  BY <1>1 DEF NewKey, WrittenRowsKeepTheirKeys, Stored
<1>2. CASE SaveKeyring
  BY <1>2 DEF SaveKeyring, Agreed, JobFits, WrittenRowsKeepTheirKeys, Stored
<1>3. CASE RotateBatch \/ RotateBatchRaises
  <2>1. PICK rows \in SUBSET Batch : Moved(rows)
    BY <1>3, BatchesMoveRows
  <2>2. UNCHANGED <<file, ring, up>>
    BY <2>1 DEF Moved
  <2> SUFFICES ASSUME NEW t \in Stored', mark'[t] # "stranded"
               PROVE  row'[t] \subseteq file.keys /\ (up => row'[t] \subseteq ring.keys)
    BY <2>2 DEF WrittenRowsKeepTheirKeys
  <2>3. CASE t \in rows
    BY <2>1, <2>3, MovedRows
  <2>4. CASE t \notin rows
    <3>1. t \in Stored /\ row'[t] = row[t] /\ mark'[t] = mark[t]
      BY <2>1, <2>4, MovedRows DEF Stored
    <3> QED BY <3>1 DEF WrittenRowsKeepTheirKeys
  <2> QED BY <2>3, <2>4
<1>4. CASE RetireKeys
  <2> DEFINE kept == ring.keys \cap Referenced
  <2>1. ring' = [ring EXCEPT !.keys = kept] /\ UNCHANGED <<row, mark, file, up>>
    BY <1>4 DEF RetireKeys
  <2>2. \A t \in Stored : row[t] \subseteq ring.keys => row[t] \subseteq kept
    BY DEF Referenced
  <2> HIDE DEF kept
  <2>3. ring'.keys = kept
    BY <2>1 DEF TypeOK
  <2> QED BY <2>1, <2>2, <2>3 DEF WrittenRowsKeepTheirKeys, Stored
<1>5. ASSUME NEW w \in Writers, CommitWrite(w)
      PROVE  WrittenRowsKeepTheirKeys'
  <2> DEFINE t == writer[w].target
  <2>1. UNCHANGED <<file, ring, up>>
    BY <1>5 DEF CommitWrite
  <2>2. CASE UNCHANGED rowVars
    BY <2>1, <2>2 DEF WrittenRowsKeepTheirKeys, Stored
  <2>3. CASE /\ row' = [row EXCEPT ![t] = writer[w].keys]
             /\ mark' = [mark EXCEPT ![t] = Worth(writer[w].keys)]
    <3>1. Worth(writer[w].keys) # "stranded" =>
              writer[w].keys \subseteq ring.keys /\ writer[w].keys \subseteq file.keys
      BY DEF Worth
    <3>2. t \in Targets
      BY RequestFields
    <3> HIDE DEF t
    <3> QED BY <2>1, <2>3, <3>1, <3>2 DEF WrittenRowsKeepTheirKeys, Stored, TypeOK
  <2> QED BY <1>5, <2>2, <2>3 DEF CommitWrite
<1>6. ASSUME NEW w \in Writers, Delete(w)
      PROVE  WrittenRowsKeepTheirKeys'
  BY <1>6 DEF Delete, WrittenRowsKeepTheirKeys, Stored, TypeOK
<1>7. CASE Crash
  BY <1>7 DEF Crash, WrittenRowsKeepTheirKeys, Stored
<1>8. CASE Bootstrap
  <2>1. file' = [file EXCEPT !.keys = Kept] /\ ring' = (IF up' THEN file' ELSE NoRing)
        /\ UNCHANGED <<row, mark>>
    BY <1>8 DEF Bootstrap
  <2>2. file'.keys = Kept /\ (up' => ring'.keys = Kept)
    BY <2>1 DEF TypeOK
  <2>3. \A t \in Stored : row[t] \subseteq file.keys => row[t] \subseteq Kept
    BY DEF Kept
  <2> QED BY <2>1, <2>2, <2>3 DEF WrittenRowsKeepTheirKeys, Stored
<1>9. CASE Resume \/ StartRotation \/ BootstrapFails \/ UNCHANGED vars
           \/ \E w \in Writers : Prepare(w) \/ BindEnvelope(w) \/ Encrypt(w)
  <2>1. UNCHANGED <<row, mark, file, ring, up>>
    BY <1>9 DEF Resume, StartRotation, BootstrapFails, vars, Prepare, BindEnvelope, Encrypt
  <2> QED BY <2>1 DEF WrittenRowsKeepTheirKeys, Stored
<1> QED
  BY <1>1, <1>2, <1>3, <1>4, <1>5, <1>6, <1>7, <1>8, <1>9
  DEF Next, Rotate, Writes

\* No step gives back the key of a quarantined row: a new key is another one, and
\* a batch leaves these rows alone.
LEMMA UnreadableStep ==
    ASSUME TypeOK, Agreed, Unreadable, [Next]_vars
    PROVE  Unreadable'
<1> USE DEF boundVars, rowVars
<1>1. minted \in Nat
  BY RotationAssumption DEF TypeOK, KeyIds
<1>2. CASE NewKey
  <2> SUFFICES ASSUME NEW t \in quarantined
               PROVE  ~Readable(t, file.keys) /\ ~Readable(t, ring'.keys)
    BY <1>2 DEF NewKey, Unreadable, Readable
  <2>1. row[t] \subseteq 1..minted
    BY DEF TypeOK, Stored, Agreed, Minted
  <2>2. minted + 1 \notin row[t]
    BY <1>1, <2>1
  <2> QED BY <1>2, <2>2 DEF NewKey, Unreadable, Readable
<1>3. CASE SaveKeyring
  BY <1>3 DEF SaveKeyring, Agreed, JobFits, Unreadable, Readable
<1>4. CASE RotateBatch \/ RotateBatchRaises
  <2>1. PICK rows \in SUBSET Batch : Moved(rows)
    BY <1>4, BatchesMoveRows
  <2>2. \A t \in quarantined : t \in Targets /\ t \notin rows
    BY <2>1, MovedRows DEF TypeOK, Usable, Stored
  <2>3. /\ quarantined' = quarantined /\ torn' = torn
        /\ \A t \in quarantined : row'[t] = row[t]
    BY <2>1, <2>2, MovedRows
  <2> QED BY <2>1, <2>3 DEF Moved, Unreadable, Readable
<1>5. CASE RetireKeys
  <2> DEFINE kept == ring.keys \cap Referenced
  <2>1. ring' = [ring EXCEPT !.keys = kept] /\ kept \subseteq ring.keys
        /\ UNCHANGED <<row, torn, quarantined, file, up>>
    BY <1>5 DEF RetireKeys
  <2> HIDE DEF kept
  <2>2. ring'.keys \subseteq ring.keys
    BY <2>1 DEF TypeOK
  <2> QED BY <2>1, <2>2 DEF Unreadable, Readable
<1>6. ASSUME NEW w \in Writers, CommitWrite(w)
      PROVE  Unreadable'
  <2>1. UNCHANGED <<file, ring, up>>
    BY <1>6 DEF CommitWrite
  <2>2. /\ quarantined' \subseteq quarantined
        /\ \A t \in quarantined' : row'[t] = row[t] /\ (t \in torn' <=> t \in torn)
    BY <1>6 DEF CommitWrite, TypeOK, Stored, TornAfter
  <2> QED BY <2>1, <2>2 DEF Unreadable, Readable
<1>7. ASSUME NEW w \in Writers, Delete(w)
      PROVE  Unreadable'
  <2>1. /\ quarantined' \subseteq quarantined
        /\ \A t \in quarantined' : row'[t] = row[t] /\ (t \in torn' <=> t \in torn)
        /\ UNCHANGED <<file, ring, up>>
    BY <1>7 DEF Delete, TypeOK, Stored
  <2> QED BY <2>1 DEF Unreadable, Readable
<1>8. CASE Crash
  BY <1>8 DEF Crash, Unreadable, Readable
<1>9. CASE Bootstrap
  <2>1. file' = [file EXCEPT !.keys = Kept] /\ ring' = (IF up' THEN file' ELSE NoRing)
        /\ quarantined' = {t \in Stored : ~(t \notin torn /\ row[t] \subseteq Kept)}
        /\ UNCHANGED <<row, torn>>
    BY <1>9 DEF Bootstrap, Readable
  <2>2. file'.keys = Kept /\ (up' => ring'.keys = Kept)
    BY <2>1 DEF TypeOK
  <2> QED BY <2>1, <2>2 DEF Unreadable, Readable
<1>10. CASE Resume \/ StartRotation \/ BootstrapFails \/ UNCHANGED vars
            \/ \E w \in Writers : Prepare(w) \/ BindEnvelope(w) \/ Encrypt(w)
  <2>1. UNCHANGED <<row, torn, quarantined, file, ring, up>>
    BY <1>10 DEF Resume, StartRotation, BootstrapFails, vars, Prepare, BindEnvelope, Encrypt
  <2> QED BY <2>1 DEF Unreadable, Readable
<1> QED
  BY <1>2, <1>3, <1>4, <1>5, <1>6, <1>7, <1>8, <1>9, <1>10 DEF Next, Rotate, Writes

\* A batch passes over no row: below the new cursor every row is moved, or was.
LEMMA MovedUpToTheCursor ==
    ASSUME TypeOK, Agreed, PassedRowsMoved, Moved(Batch),
           NEW t \in Usable, t <= Cursor(Batch), mark'[t] = "current"
    PROVE  row'[t] = {rotation.to} /\ row'[t] = {ring.active}
<1>1. t \in Targets /\ t \in Int
  BY RotationAssumption DEF Usable, Stored, Targets
<1>2. rotation.last \in Int /\ rotation.state = "running"
  BY RotationAssumption DEF TypeOK, Targets, Moved, Agreed, JobFits
<1>3. ring.active = rotation.to
  BY MovedRows
<1>4. CASE t \in Batch
  BY <1>3, <1>4, MovedRows
<1>5. CASE t \notin Batch
  <2>1. t \notin Ahead(rotation.last)
    BY <1>5, BatchHasNoGap
  <2>2. t <= rotation.last
    BY <1>1, <1>2, <2>1 DEF Ahead
  <2>3. row'[t] = row[t] /\ mark'[t] = mark[t]
    BY <1>1, <1>5, MovedRows
  <2> QED BY <1>2, <1>3, <2>2, <2>3 DEF PassedRowsMoved
<1> QED BY <1>4, <1>5

\* Steps that change no row, or hide some, move no row back.
LEMMA FewerUsable ==
    ASSUME PassedRowsMoved, UNCHANGED rotation,
           \A t \in Usable' : t \in Usable /\ row'[t] = row[t] /\ mark'[t] = mark[t]
    PROVE  PassedRowsMoved'
BY DEF PassedRowsMoved

\* Each step leaves every row behind the cursor under the new key; a request that
\* writes one meanwhile does so under it, or under an older key.
LEMMA PassedStep ==
    ASSUME TypeOK, Agreed, PassedRowsMoved, Unreadable, [Next]_vars
    PROVE  PassedRowsMoved'
<1> USE DEF boundVars, rowVars
<1>1. CASE StartRotation
  <2>1. \/ rotation' = rotation
        \/ rotation' = [state |-> "running", to |-> ring.active, last |-> 0]
    BY <1>1 DEF StartRotation
  <2>2. UNCHANGED <<row, mark, quarantined>>
    BY <1>1 DEF StartRotation
  <2>3. Usable' \subseteq 1..TargetCount
    BY <2>2 DEF Usable, Stored, Targets
  <2>4. CASE rotation' = rotation
    BY <2>2, <2>4 DEF PassedRowsMoved, Usable, Stored
  <2>5. CASE rotation' = [state |-> "running", to |-> ring.active, last |-> 0]
    <3>1. \A t \in Usable' : ~(t <= rotation'.last)
      BY <2>3, <2>5, RotationAssumption
    <3> QED BY <3>1 DEF PassedRowsMoved
  <2> QED BY <2>1, <2>4, <2>5
<1>2. CASE RotateBatch \/ RotateBatchRaises
  <2>1. PICK rows \in SUBSET Batch : Moved(rows)
    BY <1>2, BatchesMoveRows
  <2>2. Usable' = Usable /\ rows \subseteq Usable /\ Usable \subseteq Targets
    BY <2>1, MovedRows DEF Usable, Stored
  <2>3. CASE rotation' = rotation
    <3> SUFFICES ASSUME rotation.state = "running", NEW t \in Usable, t <= rotation.last,
                        mark'[t] = "current"
                 PROVE  row'[t] = {rotation.to}
      BY <2>2, <2>3 DEF PassedRowsMoved
    <3>1. CASE t \in rows
      BY <2>1, <3>1, MovedRows
    <3>2. CASE t \notin rows
      BY <2>1, <2>2, <3>2, MovedRows DEF PassedRowsMoved
    <3> QED BY <3>1, <3>2
  <2>4. CASE rows = Batch /\ rotation' = Progress
    <3>1. rotation'.to = rotation.to /\ rotation'.last = Cursor(Batch)
      BY <2>4, ProgressFields
    <3>2. \A t \in Usable : t <= Cursor(Batch) /\ mark'[t] = "current" =>
                                row'[t] = {rotation.to}
      BY <2>1, <2>4, MovedUpToTheCursor
    <3> QED BY <2>2, <3>1, <3>2 DEF PassedRowsMoved
  <2> QED BY <2>1, <2>3, <2>4 DEF Moved
<1>3. ASSUME NEW w \in Writers, CommitWrite(w)
      PROVE  PassedRowsMoved'
  <2> DEFINE target == writer[w].target
  <2>1. rotation' = rotation /\ ring' = ring
    BY <1>3 DEF CommitWrite
  <2>2. CASE UNCHANGED rowVars
    BY <2>1, <2>2 DEF PassedRowsMoved, Usable, Stored
  <2>3. CASE /\ row' = [row EXCEPT ![target] = writer[w].keys]
             /\ mark' = [mark EXCEPT ![target] = Worth(writer[w].keys)]
             /\ quarantined' = quarantined \ {target}
    <3>1. target \in Targets
      BY RequestFields
    <3>2. rotation.state = "running" /\ Worth(writer[w].keys) = "current" =>
              writer[w].keys = {rotation.to}
      <4>1. SUFFICES ASSUME rotation.state = "running", Worth(writer[w].keys) = "current"
                     PROVE  writer[w].keys = {rotation.to}
        OBVIOUS
      <4>2. writer[w].keys = {ring.active} /\ ring.active \in ring.keys
        BY <4>1 DEF Worth
      <4>3. up
        BY <4>2 DEF TypeOK, NoRing
      <4> QED BY <4>1, <4>2, <4>3 DEF Agreed, RunningRotationHasItsKey
    <3> HIDE DEF target
    <3> SUFFICES ASSUME rotation.state = "running", NEW t \in Usable', t <= rotation.last,
                        mark'[t] = "current"
                 PROVE  row'[t] = {rotation.to}
      BY <2>1 DEF PassedRowsMoved
    <3>3. CASE t = target
      BY <2>3, <3>1, <3>2, <3>3 DEF TypeOK
    <3>4. CASE t # target
      <4>1. t \in Targets /\ t \notin quarantined' /\ row'[t] # {}
        BY DEF Usable, Stored
      <4>2. row'[t] = row[t] /\ mark'[t] = mark[t]
        BY <2>3, <3>4, <4>1 DEF TypeOK
      <4>3. t \in Usable
        BY <2>3, <3>4, <4>1, <4>2 DEF Usable, Stored
      <4> QED BY <4>2, <4>3 DEF PassedRowsMoved
    <3> QED BY <3>3, <3>4
  <2> QED BY <1>3, <2>2, <2>3 DEF CommitWrite
<1>4. ASSUME NEW w \in Writers, Delete(w)
      PROVE  PassedRowsMoved'
  <2>1. PICK d \in Stored : row' = [row EXCEPT ![d] = {}] /\ quarantined' = quarantined \ {d}
    BY <1>4 DEF Delete
  <2>2. rotation' = rotation /\ mark' = mark
    BY <1>4 DEF Delete
  <2>3. \A t \in Usable' : t \in Usable /\ row'[t] = row[t]
    BY <2>1 DEF Usable, Stored, TypeOK
  <2> QED BY <2>2, <2>3, FewerUsable
<1>5. CASE Bootstrap
  <2>1. /\ rotation' = rotation /\ row' = row /\ mark' = mark
        /\ quarantined' = {t \in Stored : ~Readable(t, Kept)} /\ Kept \subseteq file.keys
    BY <1>5 DEF Bootstrap, Kept
  <2>2. quarantined \subseteq quarantined'
    BY <2>1 DEF Unreadable, Readable, TypeOK
  <2>3. \A t \in Usable' : t \in Usable
    BY <2>1, <2>2 DEF Usable, Stored
  <2> QED BY <2>1, <2>3, FewerUsable
<1>6. CASE NewKey \/ Resume \/ SaveKeyring \/ RetireKeys \/ Crash \/ BootstrapFails
           \/ UNCHANGED vars
           \/ \E w \in Writers : Prepare(w) \/ BindEnvelope(w) \/ Encrypt(w)
  <2>1. UNCHANGED <<row, mark, quarantined, rotation>>
    BY <1>6 DEF NewKey, Resume, SaveKeyring, RetireKeys, Crash, BootstrapFails, vars,
                Prepare, BindEnvelope, Encrypt
  <2> QED BY <2>1 DEF PassedRowsMoved, Usable, Stored
<1> QED BY <1>1, <1>2, <1>3, <1>4, <1>5, <1>6 DEF Next, Rotate, Writes

\* The retirement begins with the batch that leaves no row ahead.
LEMMA CompletionStep ==
    ASSUME TypeOK, Agreed, PassedRowsMoved, CompletionMovedEveryRow, [Next]_vars
    PROVE  CompletionMovedEveryRow'
<1> USE DEF boundVars, rowVars
<1>1. CASE RotateBatch \/ RotateBatchRaises
  <2> SUFFICES ASSUME job' = "retire", NEW t \in Usable', mark'[t] = "current"
               PROVE  row'[t] = {ring'.active}
    BY DEF CompletionMovedEveryRow
  <2>1. PICK rows \in SUBSET Batch : Moved(rows)
    BY <1>1, BatchesMoveRows
  <2>2. rows = Batch /\ rotation' = Progress /\ rotation'.state = "complete" /\ ring' = ring
    BY <2>1 DEF Moved
  <2>3. t \in Usable /\ Ahead(Cursor(Batch)) = {}
    BY <2>1, <2>2, MovedRows, ProgressFields
  <2>4. t <= Cursor(Batch)
    <3>1. Cursor(Batch) \in Int
      BY ProgressFields, RotationAssumption DEF Targets
    <3>2. t \in Int
      BY <2>3, RotationAssumption DEF Usable, Stored, Targets
    <3> QED BY <2>3, <3>1, <3>2 DEF Ahead
  <2> QED BY <2>1, <2>2, <2>3, <2>4, MovedUpToTheCursor
<1>2. ASSUME NEW w \in Writers, Prepare(w) \/ BindEnvelope(w) \/ Encrypt(w)
      PROVE  CompletionMovedEveryRow'
  <2>1. UNCHANGED <<row, mark, quarantined, ring, job>>
    BY <1>2 DEF Prepare, BindEnvelope, Encrypt
  <2> QED BY <2>1 DEF CompletionMovedEveryRow, Usable, Stored
<1>3. CASE NewKey \/ Resume \/ SaveKeyring \/ StartRotation \/ RetireKeys \/ Crash
           \/ \E w \in Writers : CommitWrite(w) \/ Delete(w)
  <2>1. job' # "retire"
    BY <1>3 DEF NewKey, Resume, SaveKeyring, StartRotation, RetireKeys, Crash, CommitWrite,
                Delete
  <2> QED BY <2>1 DEF CompletionMovedEveryRow
<1>4. CASE Bootstrap \/ BootstrapFails
  <2>1. job' # "retire"
    BY <1>4 DEF Bootstrap, BootstrapFails, Agreed, JobFits
  <2> QED BY <2>1 DEF CompletionMovedEveryRow
<1>5. CASE UNCHANGED vars
  BY <1>5 DEF vars, CompletionMovedEveryRow, Usable, Stored
<1> QED BY <1>1, <1>2, <1>3, <1>4, <1>5 DEF Next, Rotate, Writes

LEMMA RotationStep == RotationInv /\ [Next]_vars => RotationInv'
<1> SUFFICES ASSUME RotationInv, [Next]_vars PROVE RotationInv'
  OBVIOUS
<1>1. /\ TypeOK /\ Agreed /\ WrittenRowsKeepTheirKeys /\ Unreadable
      /\ PassedRowsMoved /\ CompletionMovedEveryRow
  BY DEF RotationInv
<1>2. TypeOK' /\ Agreed'
  BY <1>1, TypeStep, AgreedStep
<1>3. WrittenRowsKeepTheirKeys' /\ Unreadable'
  BY <1>1, ReadableStep, UnreadableStep
<1>4. PassedRowsMoved' /\ CompletionMovedEveryRow'
  BY <1>1, PassedStep, CompletionStep
<1> QED BY <1>2, <1>3, <1>4 DEF RotationInv

LEMMA Always == Spec => []RotationInv
BY InitRotation, RotationStep, PTL DEF Spec

-----------------------------------------------------------------------------
(* The theorems.                                                           *)

\* The stores, the call and the requests keep the shapes the repository gives
\* them, whatever fails and whenever the process dies.
THEOREM RotationTypeOK == Spec => []TypeOK
<1>1. RotationInv => TypeOK
  BY DEF RotationInv
<1> QED BY <1>1, Always, PTL

\* No batch, retirement of keys, failed keyring write, crash or startup loses a
\* key that the envelopes of a committed row name, unless it was gone when they were
\* committed (_retire_unused_keys, _write_keyring, _load_keyring).
THEOREM NamedKeysAreNeverLost == Spec => []WrittenRowsKeepTheirKeys
<1>1. RotationInv => WrittenRowsKeepTheirKeys
  BY DEF RotationInv
<1> QED BY <1>1, Always, PTL

\* Whenever the process may die, the keyring file already holds the new key of a
\* rotation that the database says is running (_rotate_credential_key_sync).
THEOREM RotationCanBeResumed == Spec => []RunningRotationHasItsKey
<1>1. RotationInv => RunningRotationHasItsKey
  BY DEF RotationInv, Agreed
<1> QED BY <1>1, Always, PTL

\* For any number of rows and any batch size the cursor steps over none, so that
\* keys are retired only when every usable row is under the new one, but for late
\* writes.
THEOREM NoRowIsLeftBehind == Spec => []CompletionMovedEveryRow
<1>1. RotationInv => CompletionMovedEveryRow
  BY DEF RotationInv
<1> QED BY <1>1, Always, PTL

\* No key that could read a quarantined row ever comes back, and no readable row
\* is quarantined (bootstrap's integrity check, _update_target_sync).
THEOREM QuarantineIsNeverAFalseAlarm == Spec => []QuarantineIsFinal
<1>1. RotationInv => QuarantineIsFinal
  BY DEF RotationInv, Unreadable, QuarantineIsFinal
<1> QED BY <1>1, Always, PTL
-----------------------------------------------------------------------------
(* A rotation goes forwards, and what can stop it.                         *)

\* A set of target ids that is not empty has a smallest member: the largest one
\* of its mirror image.
LEMMA SmallestExists ==
    ASSUME NEW rows \in SUBSET Targets, rows # {}
    PROVE  \E t \in rows : \A u \in rows : t <= u
<1> DEFINE Mirror(t) == TargetCount + 1 - t
<1> DEFINE mirrored == {t \in Targets : Mirror(t) \in rows}
<1>1. \A t \in Targets : Mirror(t) \in Targets /\ Mirror(Mirror(t)) = t
  BY RotationAssumption DEF Targets
<1>2. mirrored \in SUBSET Targets /\ mirrored # {}
  BY <1>1
<1>3. PICK t \in mirrored : \A u \in mirrored : u <= t
  BY <1>2, LargestExists
<1>4. Mirror(t) \in rows
  BY <1>3
<1>5. ASSUME NEW u \in rows PROVE Mirror(t) <= u
  <2>1. Mirror(u) \in mirrored
    BY <1>1
  <2>2. Mirror(u) <= t
    BY <2>1, <1>3
  <2> QED BY <2>2, <1>2, RotationAssumption DEF Targets
<1> QED BY <1>4, <1>5

\* A batch is empty only when no row is ahead of the cursor: it takes the first.
LEMMA BatchTakesTheNextRow ==
    ASSUME NEW t \in Ahead(rotation.last)
    PROVE  Batch # {}
<1> DEFINE rows == Ahead(rotation.last)
<1>1. rows \in SUBSET Targets /\ rows # {}
  BY DEF Ahead, Usable, Stored
<1>2. PICK first \in rows : \A u \in rows : first <= u
  BY <1>1, SmallestExists
<1>3. {u \in rows : u <= first} = {first}
  <2>1. rows \subseteq Int
    BY <1>1, RotationAssumption DEF Targets
  <2> HIDE DEF rows
  <2>2. \A u \in rows : u <= first <=> u = first
    BY <2>1, <1>2
  <2> QED BY <2>2, <1>2, Zenon
<1>4. Cardinality({first}) = 1
  BY FS_Singleton
<1>5. Cardinality({u \in rows : u <= first}) <= BatchSize
  <2> DEFINE upTo == {u \in rows : u <= first}
  <2>1. upTo = {first}
    BY <1>3
  <2> HIDE DEF upTo
  <2>2. Cardinality(upTo) <= BatchSize
    BY <2>1, <1>4, RotationAssumption
  <2> QED BY <2>2 DEF upTo
<1>6. first \in Batch
  BY <1>2, <1>5 DEF Batch
<1> QED BY <1>6

\* What a recorded batch does to the cursor.
LEMMA ProgressAdvances ==
    ASSUME TypeOK
    PROVE  /\ Progress.last >= rotation.last
           /\ Progress.state = "complete" \/ Progress.last > rotation.last
<1>1. rotation.last \in Int
  BY RotationAssumption DEF TypeOK, Targets
<1>2. Batch \in SUBSET Targets /\ Batch \subseteq Ahead(rotation.last)
  BY DEF Batch, Ahead, Usable, Stored
<1>3. Progress.last = Cursor(Batch)
  BY ProgressFields
<1>4. CASE Batch = {}
  <2>1. Cursor(Batch) = rotation.last
    BY <1>2, <1>4, CursorIsLargest
  <2>2. Ahead(Cursor(Batch)) = {}
    BY <2>1, <1>4, BatchTakesTheNextRow
  <2>3. Progress.state = "complete"
    BY <2>2 DEF Progress, TypeOK
  <2> QED BY <1>1, <1>3, <2>1, <2>3
<1>5. CASE Batch # {}
  <2>1. Cursor(Batch) \in Ahead(rotation.last)
    BY <1>2, <1>5, CursorIsLargest
  <2>2. Cursor(Batch) > rotation.last /\ Cursor(Batch) \in Int
    BY <2>1, <1>2, RotationAssumption DEF Ahead, Usable, Stored, Targets
  <2> QED BY <1>1, <1>3, <2>2
<1> QED BY <1>4, <1>5

\* While a rotation is running its key is fixed, the cursor never goes back, and
\* a batch that succeeds either moves the cursor or is the last one.
RotationGoesForwards ==
    rotation.state = "running" =>
        /\ rotation'.to = rotation.to
        /\ rotation'.last >= rotation.last
        /\ rotation'.state \in {"running", "complete"}
        /\ RotateBatch => rotation'.state = "complete" \/ rotation'.last > rotation.last

LEMMA ForwardStep == TypeOK /\ Agreed /\ [Next]_vars => [RotationGoesForwards]_vars
<1> SUFFICES ASSUME TypeOK, Agreed, Next, rotation.state = "running"
             PROVE  RotationGoesForwards
  BY DEF RotationGoesForwards
<1> DEFINE Goes == /\ rotation'.to = rotation.to
                   /\ rotation'.last >= rotation.last
                   /\ rotation'.state \in {"running", "complete"}
<1>1. rotation.last \in Int
  BY RotationAssumption DEF TypeOK, Targets
<1>2. rotation' = rotation => Goes
  BY <1>1
<1>3. rotation' = Progress =>
          Goes /\ (rotation'.state = "complete" \/ rotation'.last > rotation.last)
  BY ProgressFields, ProgressAdvances
<1>4. CASE RotateBatch \/ RotateBatchRaises
  <2>1. RotateBatch => rotation' = Progress
    BY DEF RotateBatch
  <2>2. rotation' = rotation \/ rotation' = Progress
    BY <1>4 DEF RotateBatch, RotateBatchRaises
  <2> QED BY <1>2, <1>3, <2>1, <2>2 DEF RotationGoesForwards
<1>5. ASSUME \/ NewKey \/ Resume \/ SaveKeyring \/ StartRotation \/ RetireKeys
             \/ \E w \in Writers : Writes(w)
             \/ Crash \/ Bootstrap \/ BootstrapFails
      PROVE  RotationGoesForwards
  <2>1. ~StartRotation
    BY DEF StartRotation, Agreed, JobFits
  <2>2. rotation' = rotation
    BY <1>5, <2>1 DEF NewKey, Resume, SaveKeyring, RetireKeys, Writes, Prepare, BindEnvelope,
                      Encrypt, CommitWrite, Delete, Crash, Bootstrap, BootstrapFails
  <2>3. ~RotateBatch \/ rotation' = Progress
    BY DEF RotateBatch
  <2> QED BY <1>2, <1>3, <2>2, <2>3 DEF RotationGoesForwards
<1> QED BY <1>4, <1>5 DEF Next, Rotate

\* _rotate_credential_key_sync: the cursor of a running rotation passes a row with
\* every batch that succeeds, whatever is created, edited and deleted meanwhile and
\* however often the process dies, so it is complete after at most TargetCount such
\* batches, and it always moves rows to the key it was started with.
THEOREM RotationsGoForwards == Spec => [][RotationGoesForwards]_vars
<1>1. RotationInv /\ [Next]_vars => [RotationGoesForwards]_vars
  BY ForwardStep DEF RotationInv
<1> QED BY <1>1, Always, PTL DEF Spec

\* A row that cannot be read is the work of an encryption that a rotation overtook:
\* a key it names was gone when it was committed, or the active key changed while one
\* of its envelopes was encrypted (_encrypt, outside the lock).  A row of any other
\* history is readable with the keys in the file and in memory.
UnreadableRowsWereOvertaken ==
    \A t \in Stored : t \notin torn /\ mark[t] # "stranded" =>
        Readable(t, file.keys) /\ (up => Readable(t, ring.keys))

LEMMA OnlyOvertakenRows == RotationInv => UnreadableRowsWereOvertaken
BY DEF RotationInv, WrittenRowsKeepTheirKeys, UnreadableRowsWereOvertaken, Readable

\* Nothing but a row written late or torn keeps a batch from decrypting its rows
\* (_rotate_credential_key_sync, _decrypt), and at a startup nothing else is
\* quarantined or refused (bootstrap's integrity check).
THEOREM OnlyOvertakenRowsStopABatch ==
    Spec => []( /\ UnreadableRowsWereOvertaken
                /\ job = "batch" =>
                       \A t \in Batch : \/ Readable(t, ring.keys)
                                         \/ t \in torn \/ mark[t] = "stranded" )
<1>1. RotationInv => /\ UnreadableRowsWereOvertaken
                     /\ job = "batch" =>
                            \A t \in Batch : \/ Readable(t, ring.keys)
                                              \/ t \in torn \/ mark[t] = "stranded"
  <2> SUFFICES ASSUME RotationInv, job = "batch", NEW t \in Batch
               PROVE  Readable(t, ring.keys) \/ t \in torn \/ mark[t] = "stranded"
    BY OnlyOvertakenRows
  <2>1. t \in Stored /\ up
    BY DEF Batch, Ahead, Usable, RotationInv, Agreed, JobFits
  <2> QED BY <2>1, OnlyOvertakenRows DEF UnreadableRowsWereOvertaken
<1> QED BY <1>1, Always, PTL
=============================================================================
