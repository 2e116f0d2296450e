----------------------- MODULE TargetRegistry_proofs -----------------------
(***************************************************************************)
(* Proofs about TargetRegistry, for any requests, targets, keys and        *)
(* bounds.                                                                 *)
(***************************************************************************)
EXTENDS TargetRegistry, TLAPS

Working == {"submitted", "probing", "verified", "prepared"}

\* What the fields of a request are worth, wherever it stands.
Fits(q) ==
    /\ q \in RequestRow
    /\ q.at \in Working =>
         /\ q.op \in {"register", "edit", "recheck"}
         /\ q.target \in Targets
         /\ q.tested \in Material
         /\ q.op = "register" => q.backend \in Backends
         /\ q.op = "edit" => q.form \in Edits /\ q.base + 1 \in 1..MaxGeneration
    /\ q.at = "prepared" => q.op = "edit" /\ q.form \in Material
    /\ q.at = "shown" /\ q.op = "delete" => q.target \in Targets

RequestsFit ==
    /\ request \in [Requests -> RequestRow]
    /\ \A r \in Requests : Fits(request[r])

RowsOK == row \in [Targets -> Row \cup {Fresh, Gone}]

OthersOK ==
    /\ key \in [Keys -> KeyRow]
    /\ mode \in {"local", "gateway"}
    /\ applianceCa \in ApplianceBundles \cup {None}
    /\ restartRequired \in BOOLEAN
    /\ mounted \subseteq Backends
    /\ ledger \in [Requests -> {"none", "attempt", "ok", "failed"}]
    /\ changes \in 0..MaxKeyChanges
    /\ events \in 0..MaxEvents

NotRows == \A x \in Row : x # Fresh /\ x # Gone

LEMMA Assumptions ==
  /\ None \notin Bundles /\ None \notin ApplianceBundles
  /\ Kept \notin Secrets /\ Kept \notin Bundles /\ Kept # None
  /\ MaxGeneration \in Nat \ {0} /\ MaxKeyChanges \in Nat /\ MaxEvents \in Nat
  /\ Fresh # Gone /\ NotRows
  BY RegistryAssumption, RowAssumption DEF NotRows

LEMMA IdleFits == Fits(Idle) /\ Fits([Idle EXCEPT !.at = "done"])
  BY Assumptions DEF Fits, Idle, RequestRow, Working

\* The requests that start fit.
LEMMA Starts ==
  ASSUME NEW t \in Targets
  PROVE  /\ Fits([Idle EXCEPT !.at = "shown", !.op = "delete", !.target = t])
         /\ \A b \in Backends, form \in Material :
              Fits([Idle EXCEPT !.at = "submitted", !.op = "register", !.target = t,
                                !.backend = b, !.tested = form])
         /\ \A form \in Edits, g \in 0..MaxGeneration, m \in Material :
              /\ Fits([Idle EXCEPT !.at = "submitted", !.op = "recheck", !.target = t,
                                   !.form = form, !.base = g, !.tested = m])
              /\ g + 1 \in 1..MaxGeneration
                 => Fits([Idle EXCEPT !.at = "submitted", !.op = "edit", !.target = t,
                                      !.form = form, !.base = g, !.tested = m])
<1>1. Idle \in RequestRow
  BY IdleFits DEF Fits
<1>2. Fits([Idle EXCEPT !.at = "shown", !.op = "delete", !.target = t])
  BY <1>1 DEF Fits, RequestRow, Working
<1>3. ASSUME NEW b \in Backends, NEW form \in Material
      PROVE  Fits([Idle EXCEPT !.at = "submitted", !.op = "register", !.target = t,
                               !.backend = b, !.tested = form])
  BY <1>1 DEF Fits, RequestRow, Working
<1>4. ASSUME NEW form \in Edits, NEW g \in 0..MaxGeneration, NEW m \in Material
      PROVE  Fits([Idle EXCEPT !.at = "submitted", !.op = "recheck", !.target = t,
                               !.form = form, !.base = g, !.tested = m])
  BY <1>1 DEF Fits, RequestRow, Working
<1>5. ASSUME NEW form \in Edits, NEW g \in 0..MaxGeneration, NEW m \in Material,
             g + 1 \in 1..MaxGeneration
      PROVE  Fits([Idle EXCEPT !.at = "submitted", !.op = "edit", !.target = t,
                               !.form = form, !.base = g, !.tested = m])
  BY <1>1, <1>5 DEF Fits, RequestRow, Working
<1> QED
  BY <1>2, <1>3, <1>4, <1>5

LEMMA StartsRemoval == Fits([Idle EXCEPT !.at = "shown", !.op = "remove_ca"])
<1>1. Idle \in RequestRow
  BY IdleFits DEF Fits
<1> QED
  BY <1>1 DEF Fits, RequestRow, Working

LEMMA CompletedType ==
  ASSUME NEW t \in Stored, RowsOK, NEW form \in Edits
  PROVE  Completed(t, form) \in Material
  BY Assumptions DEF Stored, RowsOK, Row, Material, Edits, Completed

\* A request that goes on fits when its new fields do.
LEMMA OneMoves ==
  ASSUME RequestsFit, NEW r \in Requests, NEW q, Fits(q), request' = [request EXCEPT ![r] = q]
  PROVE  RequestsFit'
  BY DEF RequestsFit, Fits

LEMMA EndsFit ==
  ASSUME RequestsFit, NEW r \in Requests, Ends(r)
  PROVE  RequestsFit'
  BY IdleFits, OneMoves DEF Ends

\* Requests keep their types and what their stages say of them.
LEMMA RequestsStep == RequestsFit /\ RowsOK /\ [Next]_vars => RequestsFit'
<1> SUFFICES ASSUME RequestsFit, RowsOK, [Next]_vars PROVE RequestsFit'
  OBVIOUS
<1> USE Assumptions
<1>1. ASSUME NEW r \in Requests, NEW t \in Targets, NEW b \in Backends, NEW form \in Material,
             SubmitRegistration(r, t, b, form)
      PROVE  RequestsFit'
  <2> DEFINE q == [Idle EXCEPT !.at = "submitted", !.op = "register", !.target = t,
                               !.backend = b, !.tested = form]
  <2>1. Fits(q)
    BY Starts
  <2> QED
    BY <1>1, <2>1, OneMoves DEF SubmitRegistration
<1>2. ASSUME NEW r \in Requests, NEW t \in Targets, NEW form \in Edits, SubmitEdit(r, t, form)
      PROVE  RequestsFit'
  <2> DEFINE q == [Idle EXCEPT !.at = "submitted", !.op = "edit", !.target = t, !.form = form,
                               !.base = row[t].generation, !.tested = Completed(t, form)]
  <2>1. t \in Stored /\ row[t].generation < MaxGeneration
    BY <1>2 DEF SubmitEdit
  <2>2. row[t].generation \in 1..MaxGeneration /\ Completed(t, form) \in Material
    BY <2>1, CompletedType DEF RowsOK, Row, Stored
  <2>3. row[t].generation \in 0..MaxGeneration /\ row[t].generation + 1 \in 1..MaxGeneration
    BY <2>1, <2>2
  <2> HIDE DEF q
  <2>4. Fits(q)
    BY <2>2, <2>3, Starts DEF q
  <2> QED
    BY <1>2, <2>4, OneMoves DEF SubmitEdit, Submit, q
<1>3. ASSUME NEW r \in Requests, NEW t \in Targets, SubmitRecheck(r, t)
      PROVE  RequestsFit'
  <2> DEFINE form == [fqdn |-> row[t].stores.fqdn, secret |-> Kept, ca |-> Kept]
             q == [Idle EXCEPT !.at = "submitted", !.op = "recheck", !.target = t, !.form = form,
                               !.base = row[t].generation, !.tested = Completed(t, form)]
  <2>1. t \in Stored
    BY <1>3 DEF SubmitRecheck
  <2>2. row[t].generation \in 1..MaxGeneration /\ form \in Edits
    BY <2>1 DEF RowsOK, Row, Stored, Material, Edits
  <2>3. Completed(t, form) \in Material
    BY <2>1, <2>2, CompletedType
  <2>4. row[t].generation \in 0..MaxGeneration
    BY <2>2
  <2>5. Fits(q)
    BY <2>2, <2>3, <2>4, Starts
  <2> QED
    BY <1>3, <2>5, OneMoves DEF SubmitRecheck, Submit
<1>4. ASSUME NEW r \in Requests, NEW t \in Targets, ShowDeletion(r, t) PROVE RequestsFit'
  <2>1. Fits([Idle EXCEPT !.at = "shown", !.op = "delete", !.target = t])
    BY Starts
  <2> QED
    BY <1>4, <2>1, OneMoves DEF ShowDeletion
<1>5. ASSUME NEW r \in Requests, ShowCaRemoval(r) PROVE RequestsFit'
  <2>1. Fits([Idle EXCEPT !.at = "shown", !.op = "remove_ca"])
    BY StartsRemoval
  <2> QED
    BY <1>5, <2>1, OneMoves DEF ShowCaRemoval
<1>6. ASSUME NEW r \in Requests, RecordAttempt(r) PROVE RequestsFit'
  <2>1. request[r].at = "submitted" /\ Fits(request[r])
    BY <1>6 DEF RecordAttempt, RequestsFit
  <2>2. Fits([request[r] EXCEPT !.at = "probing"])
    BY <2>1 DEF Fits, RequestRow, Working
  <2>3. CASE At(r, "probing")
    BY <2>2, <2>3, OneMoves DEF At
  <2> QED
    BY <1>6, <2>3, EndsFit DEF RecordAttempt
<1>7. ASSUME NEW r \in Requests, RecordOutcome(r) PROVE RequestsFit'
  <2>1. request[r].at = "probing" /\ Fits(request[r])
    BY <1>7 DEF RecordOutcome, RequestsFit
  <2>2. Fits([request[r] EXCEPT !.at = "verified"])
    BY <2>1 DEF Fits, RequestRow, Working
  <2>3. CASE At(r, "verified")
    BY <2>2, <2>3, OneMoves DEF At
  <2> QED
    BY <1>7, <2>3, EndsFit DEF RecordOutcome
<1>8. ASSUME NEW r \in Requests, PrepareAgain(r) PROVE RequestsFit'
  <2> DEFINE t == request[r].target
             stores == Completed(t, request[r].form)
  <2>1. request[r].at = "verified" /\ request[r].op = "edit" /\ Fits(request[r])
    BY <1>8 DEF PrepareAgain, RequestsFit
  <2>2. CASE Acceptable(t, request[r].base, request[r].form)
    <3>1. t \in Stored /\ request[r].form \in Edits
      BY <2>1, <2>2 DEF Acceptable, Fits, Working
    <3>2. stores \in Material
      BY <3>1, CompletedType
    <3>3. stores \in Edits
      BY <3>2 DEF Material, Edits
    <3>4. Fits([request[r] EXCEPT !.at = "prepared", !.form = stores])
      BY <2>1, <3>2, <3>3 DEF Fits, RequestRow, Working
    <3>5. request' = [request EXCEPT ![r] = [request[r] EXCEPT !.at = "prepared", !.form = stores]]
      BY <1>8, <2>2 DEF PrepareAgain, RequestsFit
    <3> QED
      BY <3>4, <3>5, OneMoves
  <2> QED
    BY <1>8, <2>2, EndsFit DEF PrepareAgain
<1>9. ASSUME NEW r \in Requests, Ends(r) PROVE RequestsFit'
  BY <1>9, EndsFit
<1>10. ASSUME UNCHANGED request PROVE RequestsFit'
  BY <1>10 DEF RequestsFit
<1>11. CASE Restart
  <2>1. [Idle EXCEPT !.at = "done"] \in RequestRow
    BY IdleFits DEF Fits
  <2> QED
    BY <1>11, <2>1, IdleFits DEF Restart, RequestsFit
<1> QED
  BY <1>1, <1>2, <1>3, <1>4, <1>5, <1>6, <1>7, <1>8, <1>9, <1>10, <1>11
  DEF Next, TargetRequests, Submits, Verifies, Stores, ApplianceCaRequests, KeyRequests, Lockouts,
      Create, Update, MarkVerified, Delete, RemoveApplianceCa, Leaves, SetApplianceCa, CreateKey,
      RevokeKey, SetMode, LockOut, Unlock, vars, registry

-----------------------------------------------------------------------------
(* The tables.                                                             *)

LEMMA RowSet ==
  ASSUME RowsOK, NEW t \in Targets, NEW x \in Row \cup {Fresh, Gone}, row' = [row EXCEPT ![t] = x]
  PROVE  RowsOK'
  BY DEF RowsOK

LEMMA RowRead ==
  ASSUME RowsOK, NEW u, NEW x, row' = [row EXCEPT ![u] = x], NEW t \in Targets
  PROVE  row'[t] = IF t = u THEN x ELSE row[t]
  BY DEF RowsOK

LEMMA StoredRow ==
  ASSUME RowsOK, NEW t \in Stored
  PROVE  t \in Targets /\ row[t] \in Row
  BY DEF RowsOK, Stored

\* What the transaction of an edit writes.
EditedRow(q) == [row[q.target] EXCEPT !.stores = q.form, !.damage = {},
                                      !.generation = q.base + 1, !.proof = q.tested]

LEMMA UpdateWrites ==
  ASSUME RequestsFit, RowsOK, NEW r \in Requests, Update(r)
  PROVE  /\ request[r].target \in Targets
         /\ \/ UNCHANGED row
            \/ /\ Unchanged(request[r].target, request[r].base)
               /\ EditedRow(request[r]) \in Row
               /\ row' = [row EXCEPT ![request[r].target] = EditedRow(request[r])]
<1> DEFINE q == request[r]
           t == q.target
<1>1. /\ t \in Targets /\ q.tested \in Material /\ q.form \in Material
      /\ q.base + 1 \in 1..MaxGeneration
  BY DEF Update, RequestsFit, Fits, Working
<1>2. CASE Unchanged(t, q.base)
  <2>1. row[t] \in Row
    BY <1>2, StoredRow DEF Unchanged
  <2>2. EditedRow(q) \in Row
    BY <1>1, <2>1 DEF Row, EditedRow
  <2>3. UNCHANGED row \/ row' = [row EXCEPT ![t] = EditedRow(q)]
    BY <1>1 DEF Update, EditedRow, registry, RowsOK
  <2> QED
    BY <1>1, <1>2, <2>2, <2>3
<1>3. CASE ~Unchanged(t, q.base)
  BY <1>1, <1>3 DEF Update, registry
<1> QED
  BY <1>2, <1>3

\* Rows keep their types.
LEMMA RowsStep == RequestsFit /\ RowsOK /\ [Next]_vars => RowsOK'
<1> SUFFICES ASSUME RequestsFit, RowsOK, [Next]_vars PROVE RowsOK'
  OBVIOUS
<1> USE Assumptions
<1>1. ASSUME NEW r \in Requests, Create(r) PROVE RowsOK'
  <2> DEFINE q == request[r]
             x == [backend |-> q.backend, stores |-> q.tested, generation |-> 1, locked |-> FALSE,
                   damage |-> {}, proof |-> q.tested]
  <2>1. q.target \in Targets /\ q.tested \in Material /\ q.backend \in Backends
    BY <1>1 DEF Create, RequestsFit, Fits, Working
  <2>2. x \in Row
    BY <2>1 DEF Row
  <2>3. row' = row \/ row' = [row EXCEPT ![q.target] = x]
    BY <1>1 DEF Create, registry
  <2> QED
    BY <2>1, <2>2, <2>3, RowSet DEF RowsOK
<1>2. ASSUME NEW r \in Requests, Update(r) PROVE RowsOK'
  BY <1>2, UpdateWrites, RowSet DEF RowsOK
<1>3. ASSUME NEW r \in Requests, MarkVerified(r) PROVE RowsOK'
  <2> DEFINE q == request[r]
             t == q.target
             x == [row[t] EXCEPT !.proof = q.tested]
  <2>1. t \in Targets /\ q.tested \in Material
    BY <1>3 DEF MarkVerified, RequestsFit, Fits, Working
  <2>2. CASE t \in Stored /\ row' = [row EXCEPT ![t] = x]
    <3>1. row[t] \in Row
      BY <2>2, StoredRow
    <3>2. x \in Row
      BY <2>1, <3>1 DEF Row
    <3> QED
      BY <2>1, <2>2, <3>2, RowSet
  <2>3. row' = row \/ (t \in Stored /\ row' = [row EXCEPT ![t] = x])
    BY <1>3, <2>1 DEF MarkVerified, Unchanged, RowsOK
  <2> QED
    BY <2>2, <2>3 DEF RowsOK
<1>4. ASSUME NEW r \in Requests, Delete(r) PROVE RowsOK'
  <2>1. request[r].target \in Targets
    BY <1>4 DEF Delete, RequestsFit, Fits
  <2> QED
    BY <1>4, <2>1, RowSet DEF Delete, registry, RowsOK
<1>5. ASSUME NEW t \in Targets, LockOut(t) \/ Unlock(t) PROVE RowsOK'
  <2>1. PICK b \in BOOLEAN : t \in Stored /\ row' = [row EXCEPT ![t] = [row[t] EXCEPT !.locked = b]]
    BY <1>5 DEF LockOut, Unlock, Usable, RowsOK
  <2>2. [row[t] EXCEPT !.locked = b] \in Row
    BY <2>1, StoredRow DEF Row
  <2> QED
    BY <2>1, <2>2, RowSet
<1>6. CASE Restart
  <2>1. PICK t \in Targets, parts \in SUBSET {"secret", "ca"} :
            row' = IF t \in Stored THEN [row EXCEPT ![t].damage = row[t].damage \cup parts] ELSE row
    BY <1>6 DEF Restart, RowsOK
  <2>2. CASE t \in Stored
    <3>1. [row[t] EXCEPT !.damage = row[t].damage \cup parts] \in Row
      BY <2>1, <2>2, StoredRow DEF Row
    <3>2. row' = [row EXCEPT ![t] = [row[t] EXCEPT !.damage = row[t].damage \cup parts]]
      BY <2>1, <2>2 DEF RowsOK
    <3> QED
      BY <3>1, <3>2, RowSet
  <2> QED
    BY <2>1, <2>2 DEF RowsOK
<1>7. ASSUME UNCHANGED row PROVE RowsOK'
  BY <1>7 DEF RowsOK
<1> QED
  BY <1>1, <1>2, <1>3, <1>4, <1>5, <1>6, <1>7
  DEF Next, TargetRequests, Submits, Verifies, Stores, ApplianceCaRequests, KeyRequests, Lockouts,
      SubmitRegistration, SubmitEdit, SubmitRecheck, ShowDeletion, ShowCaRemoval, RecordAttempt,
      RecordOutcome, PrepareAgain, RemoveApplianceCa, SetApplianceCa, CreateKey, RevokeKey, SetMode,
      vars, registry

LEMMA RevokedType ==
  ASSUME key \in [Keys -> KeyRow], NEW ks \in SUBSET Keys
  PROVE  Revoke(ks) \in [Keys -> KeyRow]
<1>1. ASSUME NEW k \in Keys PROVE [key[k] EXCEPT !.state = "revoked"] \in KeyRow
  BY DEF KeyRow
<1> QED
  BY <1>1 DEF Revoke

\* So does everything else.
LEMMA OthersStep == RequestsFit /\ RowsOK /\ OthersOK /\ [Next]_vars => OthersOK'
<1> SUFFICES ASSUME RequestsFit, RowsOK, OthersOK, [Next]_vars PROVE OthersOK'
  OBVIOUS
<1> USE Assumptions DEF registry
<1>1. ASSUME NEW r \in Requests, RecordAttempt(r) PROVE OthersOK'
  BY <1>1 DEF RecordAttempt, OthersOK
<1>2. ASSUME NEW r \in Requests, RecordOutcome(r) PROVE OthersOK'
  BY <1>2 DEF RecordOutcome, Outcomes, OthersOK
<1>3. ASSUME NEW r \in Requests, Create(r) PROVE OthersOK'
  BY <1>3 DEF Create, OthersOK
<1>4. ASSUME NEW r \in Requests, Update(r) PROVE OthersOK'
  BY <1>4 DEF Update, OthersOK
<1>5. ASSUME NEW r \in Requests, Delete(r) PROVE OthersOK'
  <2>1. \A t \in Targets : Revoke(Scoped(t)) \in [Keys -> KeyRow]
    BY RevokedType DEF Scoped, ActiveKeys, OthersOK
  <2>2. \/ UNCHANGED key
        \/ key' = Revoke(Scoped(request[r].target)) /\ request[r].target \in Stored
    BY <1>5 DEF Delete
  <2>3. restartRequired' \in BOOLEAN
    <3>1. \A t : LastOfBackend(t) \in BOOLEAN
      BY DEF LastOfBackend
    <3> QED
      BY <1>5, <3>1 DEF Delete, OthersOK
  <2>4. key' \in [Keys -> KeyRow]
    BY <2>1, <2>2 DEF OthersOK, Stored
  <2>5. UNCHANGED <<mode, applianceCa, mounted, ledger, changes, events>>
    BY <1>5 DEF Delete
  <2> QED
    BY <2>3, <2>4, <2>5 DEF OthersOK
<1>6. ASSUME NEW b \in ApplianceBundles, SetApplianceCa(b) PROVE OthersOK'
  BY <1>6 DEF SetApplianceCa, OthersOK
<1>7. ASSUME NEW r \in Requests, RemoveApplianceCa(r) PROVE OthersOK'
  BY <1>7 DEF RemoveApplianceCa, OthersOK
<1>8. ASSUME NEW k \in Keys, NEW targets \in SUBSET Targets, NEW endpoints \in SUBSET Endpoints,
             CreateKey(k, targets, endpoints)
      PROVE  OthersOK'
  <2> DEFINE ts == SelectedTargets(targets, endpoints)
             es == SelectedEndpoints(ts, endpoints)
             x == [state |-> "active", targets |-> ts, endpoints |-> es, mode |-> mode]
  <2>1. ts \subseteq Usable /\ key' = [key EXCEPT ![k] = x]
    BY <1>8 DEF CreateKey, TargetsFit
  <2>2. \A t \in ts : t \in Targets /\ row[t].backend \in Backends
    BY <2>1, StoredRow DEF Usable, Row
  <2>3. es \subseteq Endpoints
    BY <2>2 DEF SelectedEndpoints, Endpoints
  <2>4. x \in KeyRow
    BY <2>2, <2>3 DEF KeyRow, OthersOK
  <2> QED
    BY <1>8, <2>1, <2>4 DEF CreateKey, OthersOK
<1>9. ASSUME NEW k \in Keys, RevokeKey(k) PROVE OthersOK'
  BY <1>9, RevokedType DEF RevokeKey, OthersOK
<1>10. ASSUME NEW m \in {"local", "gateway"}, SetMode(m) PROVE OthersOK'
  BY <1>10, RevokedType DEF SetMode, ActiveKeys, OthersOK
<1>11. ASSUME NEW t \in Targets, LockOut(t) \/ Unlock(t) PROVE OthersOK'
  BY <1>11 DEF LockOut, Unlock, OthersOK
<1>12. CASE Restart
  <2>1. RowsOK'
    BY RowsStep
  <2>2. ASSUME NEW t \in Stored PROVE row'[t] \notin {Fresh, Gone}
    <3>1. t \in Targets /\ row[t] \in Row
      BY StoredRow
    <3>2. PICK u \in Targets, parts \in SUBSET {"secret", "ca"} :
             row' = IF u \in Stored THEN [row EXCEPT ![u].damage = row[u].damage \cup parts]
                                    ELSE row
      BY <1>12 DEF Restart, RowsOK
    <3>3. row'[t] = row[t] \/ row'[t] = [row[t] EXCEPT !.damage = row[t].damage \cup parts]
      BY <3>1, <3>2 DEF RowsOK
    <3>4. [row[t] EXCEPT !.damage = row[t].damage \cup parts] \in Row
      BY <3>1 DEF Row
    <3> QED
      BY <3>1, <3>3, <3>4 DEF NotRows
  <2>3. ASSUME NEW t \in Stored PROVE row'[t].backend \in Backends
    <3>1. row'[t] \in Row
      BY <2>1, <2>2, StoredRow DEF RowsOK
    <3> QED
      BY <3>1 DEF Row
  <2>4. mounted' \subseteq Backends
    BY <1>12, <2>3 DEF Restart, EndpointsOf
  <2>5. events' \in 0..MaxEvents
    BY <1>12 DEF Restart, OthersOK
  <2>6. UNCHANGED <<key, mode, applianceCa, ledger, changes>> /\ restartRequired' = FALSE
    BY <1>12 DEF Restart
  <2> QED
    BY <2>4, <2>5, <2>6 DEF OthersOK
<1>13. ASSUME UNCHANGED <<key, mode, applianceCa, restartRequired, mounted, ledger,
                       changes, events>>
       PROVE  OthersOK'
  BY <1>13 DEF OthersOK
<1> QED
  BY <1>1, <1>2, <1>3, <1>4, <1>5, <1>6, <1>7, <1>8, <1>9, <1>10, <1>11, <1>12, <1>13
  DEF Next, TargetRequests, Submits, Verifies, Stores, ApplianceCaRequests, KeyRequests, Lockouts,
      SubmitRegistration, SubmitEdit, SubmitRecheck, ShowDeletion, ShowCaRemoval, PrepareAgain,
      MarkVerified, vars

-----------------------------------------------------------------------------
(* Type correctness.                                                       *)

TypeInv == RequestsFit /\ RowsOK /\ OthersOK

LEMMA TypeInit == Init => TypeInv
<1> SUFFICES ASSUME Init PROVE TypeInv
  OBVIOUS
<1> USE Assumptions
<1>1. RowsOK
  <2>1. \A x \in [backend : Backends, stores : Material, generation : {1}, locked : {FALSE},
                   damage : {{}}, proof : Material] : x \in Row
    <3> TAKE x \in [backend : Backends, stores : Material, generation : {1}, locked : {FALSE},
                    damage : {{}}, proof : Material]
    <3>1. 1 \in 1..MaxGeneration
      OBVIOUS
    <3>2. /\ x.backend \in Backends /\ x.stores \in Material /\ x.proof \in Material
          /\ x.generation \in 1..MaxGeneration /\ x.locked \in BOOLEAN
          /\ x.damage \in SUBSET {"secret", "ca"}
      BY <3>1
    <3>3. x = [backend |-> x.backend, stores |-> x.stores, generation |-> x.generation,
               locked |-> x.locked, damage |-> x.damage, proof |-> x.proof]
      OBVIOUS
    <3> HIDE DEF Material
    <3> QED
      BY <3>2, <3>3 DEF Row
  <2>2. row \in [Targets -> {Fresh} \cup
                  [backend : Backends, stores : Material, generation : {1}, locked : {FALSE},
                   damage : {{}}, proof : Material]]
    BY DEF Init
  <2> QED
    BY <2>1, <2>2 DEF RowsOK
<1>2. mounted \subseteq Backends
  BY <1>1, StoredRow DEF Init, Usable, Row
<1>3. Idle \in RequestRow
  BY IdleFits DEF Fits
<1>4. RequestsFit
  BY <1>3, IdleFits DEF Init, RequestsFit
<1>5. NoKey \in KeyRow
  BY DEF NoKey, KeyRow
<1>6. key \in [Keys -> KeyRow] /\ ledger \in [Requests -> {"none", "attempt", "ok", "failed"}]
  BY <1>5 DEF Init
<1>7. /\ mode \in {"local", "gateway"} /\ applianceCa \in ApplianceBundles \cup {None}
      /\ restartRequired \in BOOLEAN
  BY DEF Init
<1>8. changes \in 0..MaxKeyChanges /\ events \in 0..MaxEvents
  BY DEF Init
<1>9. OthersOK
  BY <1>2, <1>6, <1>7, <1>8 DEF OthersOK
<1> QED
  BY <1>1, <1>4, <1>9 DEF TypeInv

LEMMA TypeStep == TypeInv /\ [Next]_vars => TypeInv'
  BY RequestsStep, RowsStep, OthersStep DEF TypeInv

LEMMA TypeAlways == Spec => []TypeInv
  BY TypeInit, TypeStep, PTL DEF Spec

\* Rows, keys, modes, requests and counters keep their types, for any requests,
\* targets and keys.
THEOREM RegistryTypeOK == Spec => []TypeOK
<1>1. TypeInv => TypeOK
  BY DEF TypeInv, RequestsFit, RowsOK, OthersOK, TypeOK
<1> QED
  BY <1>1, TypeAlways, PTL

-----------------------------------------------------------------------------
(* Rows that are stored, before and after a step.                          *)

\* Only a confirmed deletion takes a stored row away.
LEMMA StoredStays ==
  ASSUME TypeInv, [Next]_vars, NEW t \in Stored, t \notin Stored'
  PROVE  \E r \in Requests : /\ Delete(r) /\ request[r].target = t
                             /\ DeletionConfirmed(r, t)
                             /\ row' = [row EXCEPT ![t] = Gone]
<1> USE Assumptions DEF TypeInv
<1>1. t \in Targets /\ row[t] \in Row /\ RequestsFit /\ RowsOK /\ RowsOK'
  BY StoredRow, RowsStep
<1>2. row'[t] \in {Fresh, Gone}
  BY <1>1 DEF Stored
<1>3. ASSUME NEW r \in Requests, Create(r) PROVE FALSE
  <2> DEFINE x == [backend |-> request[r].backend, stores |-> request[r].tested,
                   generation |-> 1, locked |-> FALSE, damage |-> {}, proof |-> request[r].tested]
  <2>1. request[r].tested \in Material /\ request[r].backend \in Backends
    BY <1>3 DEF Create, RequestsFit, Fits, Working
  <2>2. x \in Row
    BY <2>1 DEF Row
  <2>3. row'[t] = row[t] \/ row'[t] = x
    BY <1>1, <1>3 DEF Create, registry, RowsOK
  <2> QED
    BY <1>1, <1>2, <2>2, <2>3 DEF NotRows
<1>4. ASSUME \E y \in Row : row'[t] = y PROVE FALSE
  BY <1>2, <1>4 DEF NotRows
<1>5. ASSUME NEW r \in Requests, Update(r) PROVE FALSE
  <2>1. \/ UNCHANGED row
        \/ /\ EditedRow(request[r]) \in Row
           /\ row' = [row EXCEPT ![request[r].target] = EditedRow(request[r])]
    BY <1>1, <1>5, UpdateWrites
  <2>2. \/ row'[t] = row[t]
        \/ row'[t] = EditedRow(request[r]) /\ EditedRow(request[r]) \in Row
    BY <1>1, <2>1, RowRead
  <2> QED
    BY <1>1, <1>4, <2>2
<1>6. ASSUME NEW r \in Requests, MarkVerified(r) PROVE FALSE
  <2> DEFINE x == [row[t] EXCEPT !.proof = request[r].tested]
  <2>1. request[r].tested \in Material
    BY <1>6 DEF MarkVerified, RequestsFit, Fits, Working
  <2>2. x \in Row
    BY <1>1, <2>1 DEF Row
  <2>3. row'[t] = row[t] \/ row'[t] = x
    BY <1>1, <1>6 DEF MarkVerified, RowsOK
  <2> QED
    BY <1>1, <1>4, <2>2, <2>3
<1>7. ASSUME NEW u \in Targets, LockOut(u) \/ Unlock(u) PROVE FALSE
  <2>1. \E b \in BOOLEAN : row'[t] = row[t] \/ row'[t] = [row[t] EXCEPT !.locked = b]
    BY <1>1, <1>7 DEF LockOut, Unlock, RowsOK
  <2>2. \A b \in BOOLEAN : [row[t] EXCEPT !.locked = b] \in Row
    BY <1>1 DEF Row
  <2> QED
    BY <1>1, <1>4, <2>1, <2>2
<1>8. CASE Restart
  <2>1. \E parts \in SUBSET {"secret", "ca"} :
          row'[t] = row[t] \/ row'[t] = [row[t] EXCEPT !.damage = row[t].damage \cup parts]
    BY <1>1, <1>8 DEF Restart, RowsOK
  <2>2. \A parts \in SUBSET {"secret", "ca"} :
          [row[t] EXCEPT !.damage = row[t].damage \cup parts] \in Row
    BY <1>1 DEF Row
  <2> QED
    BY <1>1, <1>4, <2>1, <2>2
<1>9. ASSUME UNCHANGED row PROVE FALSE
  BY <1>1, <1>4, <1>9
<1>10. ASSUME NEW r \in Requests, Delete(r)
       PROVE  /\ request[r].target = t
              /\ DeletionConfirmed(r, t)
              /\ row' = [row EXCEPT ![t] = Gone]
  <2>1. \/ UNCHANGED row
        \/ /\ DeletionConfirmed(r, request[r].target)
           /\ row' = [row EXCEPT ![request[r].target] = Gone]
    BY <1>10 DEF Delete, registry
  <2> QED
    BY <1>1, <1>2, <1>9, <2>1 DEF NotRows, RowsOK
<1> QED
  BY <1>3, <1>5, <1>6, <1>7, <1>8, <1>9, <1>10
  DEF Next, TargetRequests, Submits, Verifies, Stores, ApplianceCaRequests, KeyRequests, Lockouts,
      SubmitRegistration, SubmitEdit, SubmitRecheck, ShowDeletion, ShowCaRemoval, RecordAttempt,
      RecordOutcome, PrepareAgain, RemoveApplianceCa, SetApplianceCa, CreateKey, RevokeKey, SetMode,
      vars, registry

-----------------------------------------------------------------------------
(* Keys.                                                                   *)

\* The keys a step does not touch keep what they name, while its targets stay.
LEMMA KeysStay ==
  ASSUME ActiveKeysFitTheRegistry, Stored \subseteq Stored', UNCHANGED <<key, mode>>
  PROVE  ActiveKeysFitTheRegistry'
  BY DEF ActiveKeysFitTheRegistry, ActiveKeys

\* What is left after some keys were revoked.
LEMMA RevokedKeys ==
  ASSUME TypeInv, NEW ks \in SUBSET Keys, key' = Revoke(ks)
  PROVE  /\ ActiveKeys' = ActiveKeys \ ks
         /\ \A k \in ActiveKeys' : key'[k] = key[k]
  BY DEF Revoke, ActiveKeys, TypeInv, OthersOK, KeyRow

LEMMA KeysStep == TypeInv /\ ActiveKeysFitTheRegistry /\ [Next]_vars => ActiveKeysFitTheRegistry'
<1> SUFFICES ASSUME TypeInv, ActiveKeysFitTheRegistry, [Next]_vars
             PROVE  ActiveKeysFitTheRegistry'
  OBVIOUS
<1>1. ASSUME NEW r \in Requests, Delete(r) PROVE ActiveKeysFitTheRegistry'
  <2> DEFINE t == request[r].target
  <2>1. CASE UNCHANGED registry
    BY <2>1, KeysStay DEF registry, Stored
  <2>2. CASE /\ t \in Stored /\ key' = Revoke(Scoped(t)) /\ row' = [row EXCEPT ![t] = Gone]
             /\ UNCHANGED mode
    <3>1. Scoped(t) \subseteq Keys
      BY DEF Scoped, ActiveKeys
    <3>2. /\ ActiveKeys' = ActiveKeys \ Scoped(t)
          /\ \A k \in ActiveKeys' : key'[k] = key[k]
      BY <2>2, <3>1, RevokedKeys
    <3>3. \A k \in ActiveKeys' : t \notin key[k].targets
      BY <3>2 DEF Scoped
    <3>4. Stored \ {t} \subseteq Stored'
      BY <2>2 DEF Stored, TypeInv, RowsOK
    <3>5. \A k \in ActiveKeys' : k \in ActiveKeys /\ k \in Keys
      BY <3>2 DEF ActiveKeys
    <3> QED
      BY <2>2, <3>2, <3>3, <3>4, <3>5 DEF ActiveKeysFitTheRegistry
  <2> QED
    BY <1>1, <2>1, <2>2 DEF Delete
<1>2. ASSUME NEW k \in Keys, NEW targets \in SUBSET Targets, NEW endpoints \in SUBSET Endpoints,
             CreateKey(k, targets, endpoints)
      PROVE  ActiveKeysFitTheRegistry'
  <2> DEFINE ts == SelectedTargets(targets, endpoints)
             es == SelectedEndpoints(ts, endpoints)
             x == [state |-> "active", targets |-> ts, endpoints |-> es, mode |-> mode]
  <2>1. ts \subseteq Stored /\ key' = [key EXCEPT ![k] = x] /\ UNCHANGED <<row, mode>>
    BY <1>2 DEF CreateKey, TargetsFit, Usable
  <2>2. mode = "gateway" => es = endpoints /\ EndpointIsFree(endpoints)
    BY <1>2 DEF CreateKey, GatewayFits, SelectedEndpoints
  <2>3. k \notin ActiveKeys
    BY <1>2 DEF CreateKey, NoKey, ActiveKeys
  <2> HIDE DEF ts, es
  <2>4. /\ ActiveKeys' = ActiveKeys \cup {k}
        /\ key'[k] = x
        /\ \A j \in ActiveKeys : key'[j] = key[j] /\ j # k
    BY <2>1, <2>3 DEF ActiveKeys, TypeInv, OthersOK
  <2>5. \A j \in ActiveKeys : key[j].mode = mode /\ key[j].targets \subseteq Stored
    BY DEF ActiveKeysFitTheRegistry
  <2>6. mode = "gateway" => \A j \in ActiveKeys : key[j].endpoints # es
    BY <2>2, <2>5 DEF EndpointIsFree
  <2>7. Stored' = Stored /\ mode' = mode
    BY <2>1 DEF Stored
  <2>8. \A i \in ActiveKeys' : key'[i].mode = mode' /\ key'[i].targets \subseteq Stored'
    BY <2>1, <2>4, <2>5, <2>7
  <2>9. ASSUME NEW i \in ActiveKeys', NEW j \in ActiveKeys' \ {i}, mode' = "gateway"
        PROVE  key'[j].endpoints # key'[i].endpoints
    BY <2>4, <2>6, <2>7, <2>9 DEF ActiveKeysFitTheRegistry
  <2> QED
    BY <2>8, <2>9 DEF ActiveKeysFitTheRegistry
<1>3. ASSUME NEW k \in Keys, RevokeKey(k) PROVE ActiveKeysFitTheRegistry'
  <2>1. /\ ActiveKeys' = ActiveKeys \ {k}
        /\ \A j \in ActiveKeys' : key'[j] = key[j]
    BY <1>3, RevokedKeys DEF RevokeKey
  <2>2. UNCHANGED mode /\ Stored' = Stored
    BY <1>3 DEF RevokeKey, Stored
  <2> QED
    BY <2>1, <2>2 DEF ActiveKeysFitTheRegistry
<1>4. ASSUME NEW m \in {"local", "gateway"}, SetMode(m) PROVE ActiveKeysFitTheRegistry'
  <2>1. ActiveKeys' = {}
    BY <1>4, RevokedKeys DEF SetMode, ActiveKeys
  <2> QED
    BY <2>1 DEF ActiveKeysFitTheRegistry
<1>5. ASSUME UNCHANGED <<key, mode>>, \A r \in Requests : ~Delete(r)
      PROVE  ActiveKeysFitTheRegistry'
  <2>1. Stored \subseteq Stored'
    BY <1>5, StoredStays
  <2> QED
    BY <1>5, <2>1, KeysStay
<1> QED
  BY <1>1, <1>2, <1>3, <1>4, <1>5
  DEF Next, TargetRequests, Submits, Verifies, Stores, ApplianceCaRequests, KeyRequests, Lockouts,
      SubmitRegistration, SubmitEdit, SubmitRecheck, ShowDeletion, ShowCaRemoval, RecordAttempt,
      RecordOutcome, Create, PrepareAgain, Update, MarkVerified, RemoveApplianceCa, SetApplianceCa,
      LockOut, Unlock, Restart, vars, registry

\* Whatever is deleted or selected after a key was minted, a key that still opens
\* the gateway is of the present mode and names registered targets, and an
\* endpoint has one gateway key (runtime_repository.py:1640, :1893).
THEOREM KeysAlwaysFitTheRegistry == Spec => []ActiveKeysFitTheRegistry
<1>1. Init => ActiveKeysFitTheRegistry
  <2> SUFFICES ASSUME Init PROVE ActiveKeys = {}
    BY DEF ActiveKeysFitTheRegistry
  <2> QED
    BY DEF Init, ActiveKeys, NoKey
<1> QED
  BY <1>1, KeysStep, TypeAlways, PTL DEF Spec

-----------------------------------------------------------------------------
(* The ledger.                                                             *)

\* A request that may store has its success in the ledger.
VerifiedIsAudited ==
    \A r \in Requests : request[r].at \in {"verified", "prepared"} => ledger[r] = "ok"

LEMMA VerifiedStep == TypeInv /\ VerifiedIsAudited /\ [Next]_vars => VerifiedIsAudited'
<1> SUFFICES ASSUME TypeInv, VerifiedIsAudited, [Next]_vars PROVE VerifiedIsAudited'
  OBVIOUS
<1>1. /\ request \in [Requests -> RequestRow]
      /\ ledger \in [Requests -> {"none", "attempt", "ok", "failed"}]
  BY DEF TypeInv, RequestsFit, OthersOK
<1>2. ASSUME NEW r \in Requests, NEW q, request' = [request EXCEPT ![r] = q],
             q.at \notin {"verified", "prepared"},
             \A s \in Requests \ {r} : ledger'[s] = ledger[s]
      PROVE  VerifiedIsAudited'
  BY <1>1, <1>2 DEF VerifiedIsAudited
<1>3. [Idle EXCEPT !.at = "done"].at = "done"
  BY DEF Idle
<1>4. ASSUME NEW r \in Requests, Ends(r), \A s \in Requests \ {r} : ledger'[s] = ledger[s]
      PROVE  VerifiedIsAudited'
  BY <1>2, <1>3, <1>4 DEF Ends
<1>5. ASSUME NEW r \in Requests, RecordAttempt(r) PROVE VerifiedIsAudited'
  <2>1. \A s \in Requests \ {r} : ledger'[s] = ledger[s]
    BY <1>1, <1>5 DEF RecordAttempt
  <2>2. CASE At(r, "probing")
    BY <1>1, <2>1, <2>2 DEF VerifiedIsAudited, At, RequestRow
  <2> QED
    BY <1>4, <1>5, <2>1, <2>2 DEF RecordAttempt
<1>6. ASSUME NEW r \in Requests, RecordOutcome(r) PROVE VerifiedIsAudited'
  <2>1. \A s \in Requests \ {r} : ledger'[s] = ledger[s]
    BY <1>1, <1>6 DEF RecordOutcome
  <2>2. CASE At(r, "verified") /\ ledger' = [ledger EXCEPT ![r] = "ok"]
    BY <1>1, <2>2 DEF VerifiedIsAudited, At, RequestRow
  <2> QED
    BY <1>4, <1>6, <2>1, <2>2 DEF RecordOutcome
<1>7. ASSUME NEW r \in Requests, PrepareAgain(r) PROVE VerifiedIsAudited'
  <2>1. CASE Ends(r)
    BY <1>4, <1>7, <2>1 DEF PrepareAgain
  <2>2. CASE request' = [request EXCEPT ![r].at = "prepared",
                           ![r].form = Completed(request[r].target, request[r].form)]
    BY <1>1, <1>7, <2>2 DEF VerifiedIsAudited, PrepareAgain
  <2> QED
    BY <1>7, <2>1, <2>2 DEF PrepareAgain
<1>8. ASSUME NEW r \in Requests, UNCHANGED ledger, request'[r].at \in {"submitted", "shown"},
             \A s \in Requests \ {r} : request'[s] = request[s]
      PROVE  VerifiedIsAudited'
  BY <1>8 DEF VerifiedIsAudited
<1>9. ASSUME NEW r \in Requests, Submits(r) PROVE VerifiedIsAudited'
  <2> USE <1>8
  <2>1. Idle \in RequestRow
    BY IdleFits DEF Fits
  <2>2. ASSUME NEW t, NEW b, NEW form, SubmitRegistration(r, t, b, form)
        PROVE  VerifiedIsAudited'
    <3> DEFINE q == [Idle EXCEPT !.at = "submitted", !.op = "register", !.target = t,
                                 !.backend = b, !.tested = form]
    <3>1. q.at = "submitted"
      BY <2>1 DEF RequestRow
    <3>2. request' = [request EXCEPT ![r] = q] /\ UNCHANGED ledger
      BY <2>2 DEF SubmitRegistration
    <3> HIDE DEF q
    <3> QED
      BY <1>1, <3>1, <3>2
  <2>3. ASSUME NEW op, NEW t, NEW form, Submit(r, op, t, form), UNCHANGED ledger
        PROVE  VerifiedIsAudited'
    <3> DEFINE q == [Idle EXCEPT !.at = "submitted", !.op = op, !.target = t, !.form = form,
                                 !.base = row[t].generation, !.tested = Completed(t, form)]
    <3>1. q.at = "submitted"
      BY <2>1 DEF RequestRow
    <3>2. request' = [request EXCEPT ![r] = q]
      BY <2>3 DEF Submit
    <3> HIDE DEF q
    <3> QED
      BY <1>1, <2>3, <3>1, <3>2
  <2>4. ASSUME NEW t, ShowDeletion(r, t) PROVE VerifiedIsAudited'
    <3>1. [Idle EXCEPT !.at = "shown", !.op = "delete", !.target = t].at = "shown"
      BY <2>1 DEF RequestRow
    <3> QED
      BY <1>1, <2>4, <3>1 DEF ShowDeletion
  <2>5. CASE ShowCaRemoval(r)
    <3>1. [Idle EXCEPT !.at = "shown", !.op = "remove_ca"].at = "shown"
      BY <2>1 DEF RequestRow
    <3> QED
      BY <1>1, <2>5, <3>1 DEF ShowCaRemoval
  <2> QED
    BY <1>9, <2>2, <2>3, <2>4, <2>5 DEF Submits, SubmitEdit, SubmitRecheck
<1>10. ASSUME UNCHANGED <<request, ledger>> PROVE VerifiedIsAudited'
  BY <1>10 DEF VerifiedIsAudited
<1>11. CASE Restart
  BY <1>1, <1>3, <1>11 DEF Restart, VerifiedIsAudited
<1>12. ASSUME NEW r \in Requests, Ends(r), UNCHANGED ledger PROVE VerifiedIsAudited'
  BY <1>4, <1>12
<1> QED
  BY <1>5, <1>6, <1>7, <1>9, <1>10, <1>11, <1>12
  DEF Next, TargetRequests, Verifies, Stores, ApplianceCaRequests, KeyRequests, Lockouts,
      Create, Update, MarkVerified, Delete, Leaves, RemoveApplianceCa, SetApplianceCa, CreateKey,
      RevokeKey, SetMode, LockOut, Unlock, vars

LEMMA VerifiedAlways == Spec => []VerifiedIsAudited
<1>1. Init => VerifiedIsAudited
  BY DEF Init, VerifiedIsAudited, Idle
<1> QED
  BY <1>1, VerifiedStep, TypeAlways, PTL DEF Spec

\* A step that gives a row a new proof.
Vouches(t) == row'[t] \notin {Fresh, Gone} /\ (t \in Stored => row'[t].proof # row[t].proof)

\* Only the three storing transactions do.
LEMMA VouchesStep ==
  ASSUME TypeInv, [Next]_vars, NEW t \in Targets, Vouches(t)
  PROVE  \E r \in Requests : request[r].target = t /\ (Create(r) \/ Update(r) \/ MarkVerified(r))
<1> USE DEF TypeInv
<1>1. RowsOK /\ RequestsFit
  OBVIOUS
<1>2. ASSUME row'[t] = row[t] PROVE FALSE
  BY <1>2 DEF Vouches, Stored
<1>3. ASSUME UNCHANGED row PROVE FALSE
  BY <1>2, <1>3
<1>4. ASSUME NEW r \in Requests, Create(r), request[r].target # t PROVE FALSE
  <2> DEFINE x == [backend |-> request[r].backend, stores |-> request[r].tested,
                   generation |-> 1, locked |-> FALSE, damage |-> {}, proof |-> request[r].tested]
  <2>1. UNCHANGED row \/ row' = [row EXCEPT ![request[r].target] = x]
    BY <1>4 DEF Create, registry
  <2> HIDE DEF x
  <2> QED
    BY <1>1, <1>2, <1>3, <1>4, <2>1, RowRead
<1>5. ASSUME NEW r \in Requests, Update(r), request[r].target # t PROVE FALSE
  <2>1. UNCHANGED row \/ row' = [row EXCEPT ![request[r].target] = EditedRow(request[r])]
    BY <1>1, <1>5, UpdateWrites
  <2> QED
    BY <1>1, <1>2, <1>3, <1>5, <2>1, RowRead
<1>6. ASSUME NEW r \in Requests, MarkVerified(r), request[r].target # t PROVE FALSE
  BY <1>1, <1>2, <1>3, <1>6 DEF MarkVerified, RowsOK
<1>7. ASSUME NEW r \in Requests, Delete(r) PROVE FALSE
  <2>1. UNCHANGED row \/ row' = [row EXCEPT ![request[r].target] = Gone]
    BY <1>7 DEF Delete, registry
  <2> QED
    BY <1>1, <1>2, <1>3, <2>1, RowRead DEF Vouches
<1>8. ASSUME NEW u \in Targets, LockOut(u) \/ Unlock(u) PROVE FALSE
  <2>1. \E b \in BOOLEAN : u \in Stored /\ row' = [row EXCEPT ![u].locked = b]
    BY <1>8 DEF LockOut, Unlock, Usable
  <2>2. u = t => t \in Stored /\ row'[t].proof = row[t].proof
    BY <1>1, <2>1, StoredRow DEF RowsOK, Row
  <2>3. u # t => row'[t] = row[t]
    BY <1>1, <2>1 DEF RowsOK
  <2> QED
    BY <1>2, <2>2, <2>3 DEF Vouches
<1>9. CASE Restart
  <2>1. PICK u \in Targets, parts \in SUBSET {"secret", "ca"} :
            row' = IF u \in Stored THEN [row EXCEPT ![u].damage = row[u].damage \cup parts] ELSE row
    BY <1>1, <1>9 DEF Restart, RowsOK
  <2>2. u \in Stored /\ u = t => row'[t].proof = row[t].proof
    BY <1>1, <2>1, StoredRow DEF RowsOK, Row
  <2>3. u \notin Stored \/ u # t => row'[t] = row[t]
    BY <1>1, <2>1 DEF RowsOK
  <2> QED
    BY <1>2, <2>2, <2>3 DEF Vouches
<1> QED
  BY <1>3, <1>4, <1>5, <1>6, <1>7, <1>8, <1>9
  DEF Next, TargetRequests, Submits, Verifies, Stores, ApplianceCaRequests, KeyRequests, Lockouts,
      SubmitRegistration, SubmitEdit, SubmitRecheck, ShowDeletion, ShowCaRemoval, RecordAttempt,
      RecordOutcome, PrepareAgain, RemoveApplianceCa, SetApplianceCa, CreateKey, RevokeKey, SetMode,
      vars, registry

\* The step that OnlyAuditedProbesSave allows for one target.
SavedByAudited(t) ==
    \E r \in Requests :
      /\ request[r].target = t
      /\ request[r].at \in {"verified", "prepared"}
      /\ request'[r].at = "done"
      /\ ledger[r] = "ok"

\* A row is written only by a request whose successful outcome is in the ledger
\* (target_verification.py:205).
THEOREM OnlyAuditedProbesEverSave == Spec => OnlyAuditedProbesSave
<1> DEFINE Step == \A t \in Targets : Vouches(t) => SavedByAudited(t)
<1>1. TypeInv /\ VerifiedIsAudited /\ [Next]_vars => [Step]_vars
  <2> SUFFICES ASSUME TypeInv, VerifiedIsAudited, [Next]_vars, NEW t \in Targets, Vouches(t)
               PROVE  SavedByAudited(t)
    OBVIOUS
  <2>1. PICK r \in Requests :
            request[r].target = t /\ (Create(r) \/ Update(r) \/ MarkVerified(r))
    BY VouchesStep
  <2>2. request[r].at \in {"verified", "prepared"} /\ Ends(r)
    BY <2>1 DEF Create, Update, MarkVerified
  <2>3. [Idle EXCEPT !.at = "done"].at = "done"
    BY DEF Idle
  <2>4. request'[r].at = "done"
    BY <2>2, <2>3 DEF Ends, TypeInv, RequestsFit
  <2> QED
    BY <2>1, <2>2, <2>4 DEF VerifiedIsAudited, SavedByAudited
<1> QED
  BY <1>1, TypeAlways, VerifiedAlways, PTL
  DEF Spec, OnlyAuditedProbesSave, Vouches, SavedByAudited

-----------------------------------------------------------------------------
(* Confirmations.                                                          *)

RemovesAsShown(t) ==
    \E r \in Requests :
      /\ request[r].target = t /\ request[r].op = "delete"
      /\ {<<k, key[k]>> : k \in {j \in Keys : key'[j] # key[j]}} = page[r].keys
      /\ page[r].last => restartRequired'

RemovesCaAsShown == \E r \in Requests : request[r].op = "remove_ca" /\ page[r].ca = applianceCa

\* A deletion takes away the keys its page listed and no other, and the removal
\* of the appliance CA the bundle its page showed (runtime_repository.py:1634,
\* :1397).
THEOREM ConfirmedIsAlwaysWhatIsRemoved == Spec => ConfirmedIsWhatIsRemoved
<1> DEFINE Step == /\ \A t \in Stored : row'[t] = Gone => RemovesAsShown(t)
                   /\ applianceCa # None /\ applianceCa' = None => RemovesCaAsShown
<1>1. ASSUME TypeInv, [Next]_vars, NEW t \in Stored, row'[t] = Gone PROVE RemovesAsShown(t)
  <2>1. PICK r \in Requests :
            Delete(r) /\ request[r].target = t /\ DeletionConfirmed(r, t)
            /\ row' = [row EXCEPT ![t] = Gone]
    BY <1>1, StoredStays DEF Stored
  <2>2. row[t] # Gone /\ t \in Targets
    BY DEF Stored
  <2>3. key' = Revoke(Scoped(t)) /\ (LastOfBackend(t) => restartRequired')
    BY <1>1, <2>1, <2>2 DEF Delete, registry
  <2>4. {j \in Keys : key'[j] # key[j]} = Scoped(t)
    BY <1>1, <2>3 DEF Revoke, Scoped, ActiveKeys, TypeInv, OthersOK, KeyRow
  <2>5. page[r].keys = {<<k, key[k]>> : k \in Scoped(t)} /\ (page[r].last => LastOfBackend(t))
    BY <2>1 DEF DeletionConfirmed, DeletionPage
  <2> QED
    BY <2>1, <2>3, <2>4, <2>5 DEF RemovesAsShown, Delete
<1>2. ASSUME [Next]_vars, applianceCa # None, applianceCa' = None PROVE RemovesCaAsShown
  <2>1. PICK r \in Requests : RemoveApplianceCa(r)
    BY <1>2, Assumptions
    DEF Next, TargetRequests, Submits, Verifies, Stores, ApplianceCaRequests, KeyRequests, Lockouts,
        SubmitRegistration, SubmitEdit, SubmitRecheck, ShowDeletion, ShowCaRemoval, RecordAttempt,
        RecordOutcome, Create, PrepareAgain, Update, MarkVerified, Delete, SetApplianceCa,
        CreateKey,
        RevokeKey, SetMode, LockOut, Unlock, Restart, vars, registry
  <2> QED
    BY <1>2, <2>1 DEF RemoveApplianceCa, RemovalConfirmed, CaPage, RemovesCaAsShown
<1>3. TypeInv /\ [Next]_vars => [Step]_vars
  BY <1>1, <1>2
<1>4. [][Step]_vars <=> ConfirmedIsWhatIsRemoved
  BY DEF ConfirmedIsWhatIsRemoved, RemovesAsShown, RemovesCaAsShown
<1> HIDE DEF Step
<1> QED
  BY <1>3, <1>4, TypeAlways, PTL DEF Spec

-----------------------------------------------------------------------------
(* Endpoints.                                                              *)

\* Targets that stay usable, on the backend they had.
KeepUsable(ts) == \A t \in ts : t \in Usable' /\ row'[t].backend = row[t].backend

LEMMA EndpointsStay ==
  ASSUME RetiredEndpointsNeedRestart, KeepUsable(Usable), UNCHANGED <<mounted, restartRequired>>
  PROVE  RetiredEndpointsNeedRestart'
  BY DEF RetiredEndpointsNeedRestart, KeepUsable, UsableOf

LEMMA EndpointsStep ==
  TypeInv /\ RetiredEndpointsNeedRestart /\ [Next]_vars => RetiredEndpointsNeedRestart'
<1> SUFFICES ASSUME TypeInv, RetiredEndpointsNeedRestart, [Next]_vars
             PROVE  RetiredEndpointsNeedRestart'
  OBVIOUS
<1>1. RowsOK /\ RequestsFit
  BY DEF TypeInv
<1>2. ASSUME UNCHANGED <<row, mounted, restartRequired>> PROVE RetiredEndpointsNeedRestart'
  BY <1>2, EndpointsStay DEF KeepUsable, Usable, Stored
<1>3. ASSUME NEW r \in Requests, Create(r) PROVE RetiredEndpointsNeedRestart'
  BY <1>2, <1>3 DEF Create, registry, RetiredEndpointsNeedRestart
<1>4. ASSUME NEW r \in Requests, Update(r) PROVE RetiredEndpointsNeedRestart'
  <2> DEFINE u == request[r].target
  <2>1. UNCHANGED <<mounted, restartRequired>>
    BY <1>4 DEF Update, registry
  <2>2. CASE UNCHANGED row
    BY <1>2, <2>1, <2>2
  <2>3. CASE /\ Unchanged(u, request[r].base) /\ EditedRow(request[r]) \in Row
             /\ row' = [row EXCEPT ![u] = EditedRow(request[r])]
    <3>0. u \in Stored
      BY <2>3 DEF Unchanged
    <3>1. u \in Targets /\ row[u] \in Row /\ row'[u] = EditedRow(request[r])
      BY <1>1, <2>3, <3>0, StoredRow DEF RowsOK
    <3>2. row'[u].backend = row[u].backend /\ row'[u].damage = {}
      BY <3>1 DEF EditedRow, Row
    <3>3. u \in Usable'
      <4>1. row'[u] \notin {Fresh, Gone}
        BY <2>3, <3>1, Assumptions DEF NotRows
      <4> QED
        BY <3>1, <3>2, <4>1 DEF Usable, Stored
    <3>4. \A t \in Usable \ {u} : row'[t] = row[t] /\ t \in Usable'
      BY <1>1, <2>3, RowRead DEF Usable, Stored
    <3> QED
      BY <2>1, <3>2, <3>3, <3>4, EndpointsStay DEF KeepUsable
  <2> QED
    BY <1>1, <1>4, <2>2, <2>3, UpdateWrites
<1>5. ASSUME NEW r \in Requests, MarkVerified(r) PROVE RetiredEndpointsNeedRestart'
  <2> DEFINE u == request[r].target
             x == [row[u] EXCEPT !.proof = request[r].tested]
  <2>1. UNCHANGED <<mounted, restartRequired>> /\ u \in Targets /\ request[r].tested \in Material
    BY <1>1, <1>5 DEF MarkVerified, RequestsFit, Fits, Working
  <2>2. CASE UNCHANGED row
    BY <1>2, <2>1, <2>2
  <2>3. CASE u \in Stored /\ row' = [row EXCEPT ![u] = x]
    <3>1. row[u] \in Row
      BY <1>1, <2>3, StoredRow
    <3>2. x \in Row /\ x.backend = row[u].backend /\ x.damage = row[u].damage
      BY <2>1, <3>1 DEF Row
    <3> HIDE DEF x
    <3>3. \A t \in Targets : row'[t] = IF t = u THEN x ELSE row[t]
      BY <1>1, <2>3, RowRead
    <3>4. KeepUsable(Usable)
      BY <3>2, <3>3, Assumptions DEF KeepUsable, Usable, Stored, NotRows
    <3> QED
      BY <2>1, <3>4, EndpointsStay
  <2> QED
    BY <1>1, <1>5, <2>1, <2>2, <2>3 DEF MarkVerified, Unchanged, RowsOK
<1>6. ASSUME NEW r \in Requests, Delete(r) PROVE RetiredEndpointsNeedRestart'
  <2> DEFINE u == request[r].target
  <2>1. UNCHANGED mounted
    BY <1>6 DEF Delete
  <2>2. CASE UNCHANGED registry
    BY <1>2, <2>1, <2>2 DEF registry
  <2>3. CASE /\ u \in Stored /\ row' = [row EXCEPT ![u] = Gone]
             /\ restartRequired' = (restartRequired \/ LastOfBackend(u))
    <3> SUFFICES ASSUME ~restartRequired', NEW b \in mounted PROVE UsableOf(b)' # {}
      BY <2>1 DEF RetiredEndpointsNeedRestart
    <3>1. ~restartRequired /\ ~LastOfBackend(u)
      BY <2>3
    <3>2. PICK t \in UsableOf(b) : t # u
      BY <3>1 DEF RetiredEndpointsNeedRestart, LastOfBackend, UsableOf
    <3>3. row'[t] = row[t] /\ t \in Targets
      BY <1>1, <2>3, <3>2, RowRead DEF UsableOf, Usable, Stored
    <3> QED
      BY <3>2, <3>3 DEF UsableOf, Usable, Stored
  <2> QED
    BY <1>6, <2>2, <2>3 DEF Delete
<1>7. ASSUME NEW u \in Targets, LockOut(u) \/ Unlock(u) PROVE RetiredEndpointsNeedRestart'
  <2>1. PICK b \in BOOLEAN : u \in Stored /\ row' = [row EXCEPT ![u] = [row[u] EXCEPT !.locked = b]]
    BY <1>1, <1>7 DEF LockOut, Unlock, Usable, RowsOK
  <2> DEFINE x == [row[u] EXCEPT !.locked = b]
  <2>2. x \in Row /\ x.backend = row[u].backend /\ x.damage = row[u].damage
    BY <1>1, <2>1, StoredRow DEF Row
  <2>3. row' = [row EXCEPT ![u] = x]
    BY <2>1
  <2> HIDE DEF x
  <2>4. \A t \in Targets : row'[t] = IF t = u THEN x ELSE row[t]
    BY <1>1, <2>3, RowRead
  <2>5. KeepUsable(Usable)
    BY <2>2, <2>4, Assumptions DEF KeepUsable, Usable, Stored, NotRows
  <2> QED
    BY <1>7, <2>5, EndpointsStay DEF LockOut, Unlock
<1>8. CASE Restart
  <2> SUFFICES ASSUME NEW b \in mounted' PROVE UsableOf(b)' # {}
    BY DEF RetiredEndpointsNeedRestart
  <2>1. PICK t \in Stored : row'[t].damage = {} /\ row'[t].backend = b
    BY <1>8 DEF Restart, EndpointsOf
  <2>2. t \in Stored'
    <3>1. events \in Nat /\ events' = events + 1
      BY <1>8 DEF Restart, TypeInv, OthersOK
    <3>2. \A r \in Requests : ~Delete(r)
      BY <3>1 DEF Delete
    <3> QED
      BY <2>1, <3>2, StoredStays
  <2> QED
    BY <2>1, <2>2 DEF UsableOf, Usable
<1> QED
  BY <1>2, <1>3, <1>4, <1>5, <1>6, <1>7, <1>8
  DEF Next, TargetRequests, Submits, Verifies, Stores, ApplianceCaRequests, KeyRequests, Lockouts,
      SubmitRegistration, SubmitEdit, SubmitRecheck, ShowDeletion, ShowCaRemoval, RecordAttempt,
      RecordOutcome, PrepareAgain, RemoveApplianceCa, SetApplianceCa, CreateKey, RevokeKey, SetMode,
      vars, registry

\* An endpoint that would not come back tells the operator so, whichever targets
\* were deleted or are in quarantine (runtime_repository.py:1594).
THEOREM RetiredEndpointsAlwaysNeedRestart == Spec => []RetiredEndpointsNeedRestart
<1>1. Init => RetiredEndpointsNeedRestart
  BY DEF Init, RetiredEndpointsNeedRestart, UsableOf
<1> QED
  BY <1>1, EndpointsStep, TypeAlways, PTL DEF Spec

-----------------------------------------------------------------------------
(* What is stored is what was verified.                                    *)

\* The material an edit leads to, from the one that is stored.
Filled(stores, form) ==
    [fqdn |-> form.fqdn,
     secret |-> IF form.secret = Kept THEN stores.secret ELSE form.secret,
     ca |-> IF form.ca = Kept THEN stores.ca ELSE form.ca]

LEMMA CompletedIsFilled ==
  ASSUME NEW t, NEW form PROVE Completed(t, form) = Filled(row[t].stores, form)
  BY DEF Completed, Filled

\* What a request q knows of the row x of its target: a registration finds none, an
\* edit finds its generation or a later one, and while it is its generation what
\* was tested is what the edit leads to.
Based(q, x) ==
    q.at \in Working =>
      /\ q.op = "register" => x = Fresh
      /\ q.op # "register" => x # Fresh
      /\ q.op # "register" /\ x # Gone => x.generation >= q.base
      /\ q.op # "register" /\ x # Gone /\ x.generation = q.base =>
           /\ q.op = "recheck" => x.stores = q.tested
           /\ q.at = "prepared" => q.form = q.tested
           /\ q.op = "edit" /\ q.at # "prepared" => Filled(x.stores, q.form) = q.tested

RequestsFollowRows == \A r \in Requests : Based(request[r], row[request[r].target])

Registers(q, t) == q.at \in Working /\ q.op = "register" /\ q.target = t

OneRegistration ==
    \A q, r \in Requests : \A t \in Targets :
      Registers(request[q], t) /\ Registers(request[r], t) => q = r

\* A request that moves while the table stays.
LEMMA MoveFollows ==
  ASSUME TypeInv, RequestsFollowRows, UNCHANGED row, NEW r \in Requests, NEW q,
         request' = [request EXCEPT ![r] = q], Based(q, row[q.target])
  PROVE  RequestsFollowRows'
  BY DEF RequestsFollowRows, TypeInv, RequestsFit

\* A request of another row does not see a change.
LEMMA WriteFollows ==
  ASSUME TypeInv, RequestsFollowRows, NEW u \in Targets, NEW x, row' = [row EXCEPT ![u] = x],
         \A s \in Requests : \/ request'[s].at \notin Working
                             \/ request'[s] = request[s]
                                /\ (request[s].target = u /\ Based(request[s], row[u])
                                    => Based(request[s], x))
  PROVE  RequestsFollowRows'
<1> SUFFICES ASSUME NEW s \in Requests, request'[s].at \in Working
             PROVE  Based(request'[s], row'[request'[s].target])
  BY DEF RequestsFollowRows, Based
<1>1. request'[s] = request[s] /\ (request[s].target = u => Based(request[s], x))
  BY DEF RequestsFollowRows
<1>2. request[s].target \in Targets
  BY <1>1 DEF TypeInv, RequestsFit, Fits, Working
<1>3. row'[request[s].target] = IF request[s].target = u THEN x ELSE row[request[s].target]
  BY <1>2 DEF TypeInv, RowsOK
<1> QED
  BY <1>1, <1>3 DEF RequestsFollowRows

LEMMA EndedNotWorking ==
  ASSUME TypeInv, NEW r \in Requests, Ends(r)
  PROVE  /\ request'[r].at \notin Working
         /\ \A s \in Requests \ {r} : request'[s] = request[s]
  BY DEF Ends, TypeInv, RequestsFit, Working, Idle

LEMMA EndFollows ==
  ASSUME TypeInv, RequestsFollowRows, UNCHANGED row, NEW r \in Requests, Ends(r)
  PROVE  RequestsFollowRows'
  BY EndedNotWorking DEF RequestsFollowRows, Based

\* A row that keeps its generation and material.
LEMMA SameMaterial ==
  ASSUME NEW q, NEW x, NEW y, Based(q, x), x \notin {Fresh, Gone}, y \notin {Fresh, Gone},
         y.generation = x.generation, y.stores = x.stores
  PROVE  Based(q, y)
  BY DEF Based

\* Submitting, verifying and preparing keep requests and rows together.
LEMMA MovesStep ==
  ASSUME TypeInv, RequestsFollowRows, NEW r \in Requests,
         Submits(r) \/ Verifies(r) \/ PrepareAgain(r)
  PROVE  RequestsFollowRows'
<1> USE Assumptions
<1>1. Idle \in RequestRow /\ RowsOK /\ RequestsFit
  BY IdleFits DEF Fits, TypeInv
<1>2. ASSUME NEW t \in Targets, NEW b \in Backends, NEW form \in Material,
             SubmitRegistration(r, t, b, form)
      PROVE  RequestsFollowRows'
  <2> DEFINE q == [Idle EXCEPT !.at = "submitted", !.op = "register", !.target = t,
                               !.backend = b, !.tested = form]
  <2>1. q.op = "register" /\ q.target = t
    BY <1>1 DEF RequestRow
  <2>2. request' = [request EXCEPT ![r] = q] /\ row[t] = Fresh /\ UNCHANGED row
    BY <1>2 DEF SubmitRegistration, registry
  <2> HIDE DEF q
  <2>3. Based(q, row[q.target])
    BY <2>1, <2>2 DEF Based
  <2> QED
    BY <2>2, <2>3, MoveFollows
<1>3. ASSUME NEW op \in {"edit", "recheck"}, NEW t \in Stored, NEW form \in Edits,
             Submit(r, op, t, form), UNCHANGED row,
             op = "recheck" => Completed(t, form) = row[t].stores
      PROVE  RequestsFollowRows'
  <2> DEFINE q == [Idle EXCEPT !.at = "submitted", !.op = op, !.target = t, !.form = form,
                               !.base = row[t].generation, !.tested = Completed(t, form)]
  <2>1. /\ q.at = "submitted" /\ q.op = op /\ q.target = t /\ q.form = form
        /\ q.base = row[t].generation /\ q.tested = Completed(t, form)
    BY <1>1 DEF RequestRow
  <2>2. request' = [request EXCEPT ![r] = q]
    BY <1>3 DEF Submit
  <2> HIDE DEF q
  <2>3. row[t] \notin {Fresh, Gone} /\ row[t].generation \in Nat
    BY <1>1, StoredRow DEF Stored, Row
  <2>4. q.tested = Filled(row[t].stores, form)
    BY <2>1, CompletedIsFilled
  <2>5. Based(q, row[q.target])
    BY <1>3, <2>1, <2>3, <2>4 DEF Based
  <2> QED
    BY <1>3, <2>2, <2>5, MoveFollows
<1>4. ASSUME NEW t \in Targets, NEW form \in Edits, SubmitEdit(r, t, form)
      PROVE  RequestsFollowRows'
  BY <1>3, <1>4 DEF SubmitEdit, registry
<1>5. ASSUME NEW t \in Targets, SubmitRecheck(r, t) PROVE RequestsFollowRows'
  <2> DEFINE form == [fqdn |-> row[t].stores.fqdn, secret |-> Kept, ca |-> Kept]
  <2>1. t \in Stored /\ Submit(r, "recheck", t, form) /\ UNCHANGED row
    BY <1>5 DEF SubmitRecheck, registry
  <2>2. row[t].stores \in Material
    BY <1>1, <2>1, StoredRow DEF Row
  <2>3. form \in Edits
    BY <2>2 DEF Material, Edits
  <2>4. Completed(t, form) = row[t].stores
    BY <2>2 DEF Completed, Material
  <2> HIDE DEF form
  <2> QED
    BY <1>3, <2>1, <2>3, <2>4
<1>6. ASSUME NEW q, q.at \notin Working, request' = [request EXCEPT ![r] = q], UNCHANGED row
      PROVE  RequestsFollowRows'
  BY <1>6, MoveFollows DEF Based
<1>7. ASSUME NEW t \in Targets, ShowDeletion(r, t) PROVE RequestsFollowRows'
  <2> DEFINE q == [Idle EXCEPT !.at = "shown", !.op = "delete", !.target = t]
  <2>1. q.at \notin Working
    BY <1>1 DEF RequestRow, Working
  <2>2. request' = [request EXCEPT ![r] = q] /\ UNCHANGED row
    BY <1>7 DEF ShowDeletion, registry
  <2> HIDE DEF q
  <2> QED
    BY <1>6, <2>1, <2>2
<1>8. CASE ShowCaRemoval(r)
  <2> DEFINE q == [Idle EXCEPT !.at = "shown", !.op = "remove_ca"]
  <2>1. q.at \notin Working
    BY <1>1 DEF RequestRow, Working
  <2>2. request' = [request EXCEPT ![r] = q] /\ UNCHANGED row
    BY <1>8 DEF ShowCaRemoval, registry
  <2> HIDE DEF q
  <2> QED
    BY <1>6, <2>1, <2>2
<1>9. ASSUME NEW p \in {"probing", "verified"}, At(r, p), UNCHANGED row,
             request[r].at \in {"submitted", "probing"}
      PROVE  RequestsFollowRows'
  <2> DEFINE q == [request[r] EXCEPT !.at = p]
  <2>1. request[r] \in RequestRow
    BY <1>1 DEF RequestsFit
  <2>2. /\ q.at = p /\ q.op = request[r].op /\ q.target = request[r].target
        /\ q.form = request[r].form /\ q.base = request[r].base /\ q.tested = request[r].tested
    BY <2>1 DEF RequestRow
  <2>3. request' = [request EXCEPT ![r] = q]
    BY <1>9 DEF At
  <2> HIDE DEF q
  <2>4. Based(request[r], row[request[r].target])
    BY DEF RequestsFollowRows
  <2>5. Based(q, row[q.target])
    BY <1>9, <2>2, <2>4 DEF Based, Working
  <2> QED
    BY <1>9, <2>3, <2>5, MoveFollows
<1>10. CASE Verifies(r)
  BY <1>9, <1>10, EndFollows DEF Verifies, RecordAttempt, RecordOutcome, registry
<1>11. CASE PrepareAgain(r)
  <2> DEFINE t == request[r].target
             stores == Completed(t, request[r].form)
             q == [request[r] EXCEPT !.at = "prepared", !.form = stores]
  <2>1. request[r].at = "verified" /\ request[r].op = "edit" /\ UNCHANGED row
    BY <1>11 DEF PrepareAgain, registry
  <2>2. CASE Acceptable(t, request[r].base, request[r].form)
    <3>1. request[r] \in RequestRow /\ request' = [request EXCEPT ![r] = q]
      BY <1>1, <1>11, <2>2 DEF PrepareAgain, RequestsFit
    <3>2. /\ q.at = "prepared" /\ q.op = "edit" /\ q.target = t
          /\ q.form = stores /\ q.base = request[r].base /\ q.tested = request[r].tested
      BY <2>1, <3>1 DEF RequestRow
    <3> HIDE DEF q
    <3>3. Based(request[r], row[t])
      BY DEF RequestsFollowRows
    <3>4. row[t] \notin {Fresh, Gone} /\ row[t].generation = request[r].base
      BY <2>2 DEF Acceptable, Stored
    <3>5. row[t].generation >= request[r].base /\ stores = request[r].tested
      BY <2>1, <3>3, <3>4, CompletedIsFilled DEF Based, Working
    <3>6. Based(q, row[q.target])
      BY <3>2, <3>4, <3>5 DEF Based
    <3> QED
      BY <2>1, <3>1, <3>6, MoveFollows
  <2> QED
    BY <1>11, <2>1, <2>2, EndFollows DEF PrepareAgain
<1> QED
  BY <1>2, <1>4, <1>5, <1>7, <1>8, <1>10, <1>11 DEF Submits

\* So do the transactions on the table.
LEMMA WritesStep ==
  ASSUME TypeInv, RequestsFollowRows, OneRegistration, NEW r \in Requests,
         Create(r) \/ Update(r) \/ MarkVerified(r) \/ Delete(r)
  PROVE  RequestsFollowRows'
<1> USE Assumptions
<1> DEFINE q == request[r]
           u == q.target
<1>1. RowsOK /\ RequestsFit
  BY DEF TypeInv
<1>2. ASSUME Ends(r), UNCHANGED row PROVE RequestsFollowRows'
  BY <1>2, EndFollows
<1>3. ASSUME NEW x, u \in Targets, row' = [row EXCEPT ![u] = x], Ends(r),
             \A s \in Requests \ {r} :
               request[s].target = u /\ Based(request[s], row[u]) => Based(request[s], x)
      PROVE  RequestsFollowRows'
  <2>1. \A s \in Requests : \/ request'[s].at \notin Working
                            \/ request'[s] = request[s]
                               /\ (request[s].target = u /\ Based(request[s], row[u])
                                   => Based(request[s], x))
    BY <1>3, EndedNotWorking
  <2> QED
    BY <1>3, <2>1, WriteFollows
<1>4. CASE Create(r)
  <2> DEFINE x == [backend |-> q.backend, stores |-> q.tested, generation |-> 1, locked |-> FALSE,
                   damage |-> {}, proof |-> q.tested]
  <2>1. Ends(r) /\ u \in Targets /\ q.at \in Working /\ q.op = "register"
    BY <1>1, <1>4 DEF Create, RequestsFit, Fits, Working
  <2>2. UNCHANGED row \/ row' = [row EXCEPT ![u] = x]
    BY <1>4 DEF Create, registry
  <2> HIDE DEF x
  <2>3. row[u] = Fresh
    BY <2>1 DEF RequestsFollowRows, Based
  <2>4. ASSUME NEW s \in Requests \ {r}, request[s].target = u, Based(request[s], row[u])
        PROVE  Based(request[s], x)
    <3>1. request[s].at \notin Working
      BY <2>1, <2>3, <2>4 DEF OneRegistration, Registers, Based
    <3> QED
      BY <3>1 DEF Based
  <2> QED
    BY <1>2, <1>3, <2>1, <2>2, <2>4
<1>5. ASSUME NEW x, u \in Stored, row' = [row EXCEPT ![u] = x], Ends(r), x # Fresh,
             \/ x = Gone
             \/ x.generation > row[u].generation /\ x.generation \in Nat
             \/ x.generation = row[u].generation /\ x.stores = row[u].stores
      PROVE  RequestsFollowRows'
  <2>1. u \in Targets /\ row[u] \notin {Fresh, Gone} /\ row[u].generation \in Nat
    BY <1>1, <1>5, StoredRow DEF Stored, Row
  <2>2. ASSUME NEW s \in Requests \ {r}, request[s].target = u, Based(request[s], row[u])
        PROVE  Based(request[s], x)
    <3>1. request[s].base \in Nat
      BY <1>1 DEF RequestsFit, RequestRow
    <3> QED
      BY <1>5, <2>1, <2>2, <3>1 DEF Based
  <2> QED
    BY <1>3, <1>5, <2>1, <2>2
<1>6. CASE Update(r)
  <2>1. Ends(r) /\ u \in Targets /\ q.base + 1 \in Nat /\ q.base \in Nat
    BY <1>1, <1>6 DEF Update, RequestsFit, Fits, Working, RequestRow
  <2>2. CASE /\ Unchanged(u, q.base) /\ EditedRow(q) \in Row
             /\ row' = [row EXCEPT ![u] = EditedRow(q)]
    <3>1. u \in Stored /\ row[u].generation = q.base /\ row[u] \in Row
      BY <1>1, <2>2, StoredRow DEF Unchanged
    <3>2. EditedRow(q).generation = q.base + 1
      BY <3>1 DEF EditedRow, Row
    <3>3. EditedRow(q) # Fresh
      BY <2>2 DEF NotRows
    <3>4. EditedRow(q).generation > row[u].generation /\ EditedRow(q).generation \in Nat
      BY <2>1, <3>1, <3>2
    <3> HIDE DEF q
    <3> QED
      BY <1>5, <2>1, <2>2, <3>1, <3>3, <3>4
  <2>3. CASE UNCHANGED row
    BY <1>2, <2>1, <2>3
  <2> QED
    BY <1>1, <1>6, <2>2, <2>3, UpdateWrites
<1>7. CASE MarkVerified(r)
  <2> DEFINE x == [row[u] EXCEPT !.proof = q.tested]
  <2>1. Ends(r) /\ u \in Targets /\ q.tested \in Material
    BY <1>1, <1>7 DEF MarkVerified, RequestsFit, Fits, Working
  <2>2. CASE u \in Stored /\ row' = [row EXCEPT ![u] = x]
    <3>1. row[u] \in Row
      BY <1>1, <2>2, StoredRow
    <3>2. x \in Row /\ x.generation = row[u].generation /\ x.stores = row[u].stores
      BY <2>1, <3>1 DEF Row
    <3>3. x # Fresh
      BY <3>2 DEF NotRows
    <3> HIDE DEF x
    <3> QED
      BY <1>5, <2>1, <2>2, <3>2, <3>3
  <2>3. CASE UNCHANGED row
    BY <1>2, <2>1, <2>3
  <2>4. UNCHANGED row \/ (u \in Stored /\ row' = [row EXCEPT ![u] = x])
    BY <1>1, <1>7, <2>1 DEF MarkVerified, Unchanged, RowsOK
  <2> QED
    BY <2>2, <2>3, <2>4
<1>8. CASE Delete(r)
  <2>1. CASE Ends(r) /\ UNCHANGED row
    BY <1>2, <2>1
  <2>2. CASE Ends(r) /\ u \in Stored /\ row' = [row EXCEPT ![u] = Gone]
    BY <1>5, <2>2
  <2>3. CASE UNCHANGED <<row, request>>
    BY <2>3 DEF RequestsFollowRows
  <2> QED
    BY <1>8, <2>1, <2>2, <2>3 DEF Delete, Leaves, registry
<1> QED
  BY <1>4, <1>6, <1>7, <1>8

\* Lockouts and restarts keep the material of a row.
LEMMA LockoutsStep ==
  ASSUME TypeInv, RequestsFollowRows, NEW u \in Targets, LockOut(u) \/ Unlock(u)
  PROVE  RequestsFollowRows'
<1> USE Assumptions
<1>1. RowsOK /\ UNCHANGED request
  BY DEF TypeInv, LockOut, Unlock
<1>2. PICK b \in BOOLEAN : u \in Stored /\ row' = [row EXCEPT ![u] = [row[u] EXCEPT !.locked = b]]
  BY <1>1 DEF LockOut, Unlock, Usable, RowsOK
<1> DEFINE x == [row[u] EXCEPT !.locked = b]
<1>3. x \in Row /\ x.generation = row[u].generation /\ x.stores = row[u].stores
  BY <1>1, <1>2, StoredRow DEF Row
<1>4. row' = [row EXCEPT ![u] = x]
  BY <1>2
<1> HIDE DEF x
<1>5. row[u] \notin {Fresh, Gone} /\ x \notin {Fresh, Gone}
  BY <1>2, <1>3 DEF Stored, NotRows
<1>6. \A s \in Requests : Based(request[s], row[u]) => Based(request[s], x)
  BY <1>3, <1>5, SameMaterial
<1> QED
  BY <1>1, <1>4, <1>6, WriteFollows

LEMMA RestartFollows ==
  ASSUME TypeInv, Restart
  PROVE  /\ RequestsFollowRows'
         /\ \A r \in Requests : request'[r].at \notin Working
<1>1. ASSUME NEW r \in Requests PROVE request'[r].at \notin Working
  BY DEF Restart, Idle, Working
<1> QED
  BY <1>1 DEF RequestsFollowRows, Based

LEMMA FollowStep ==
  TypeInv /\ OneRegistration /\ RequestsFollowRows /\ [Next]_vars => RequestsFollowRows'
<1> SUFFICES ASSUME TypeInv, OneRegistration, RequestsFollowRows, [Next]_vars
             PROVE  RequestsFollowRows'
  OBVIOUS
<1>1. ASSUME UNCHANGED <<row, request>> PROVE RequestsFollowRows'
  BY <1>1 DEF RequestsFollowRows
<1>2. ASSUME NEW r \in Requests, RemoveApplianceCa(r) PROVE RequestsFollowRows'
  BY <1>2, EndFollows DEF RemoveApplianceCa, Leaves
<1> QED
  BY <1>1, <1>2, MovesStep, WritesStep, LockoutsStep, RestartFollows
  DEF Next, TargetRequests, Stores, ApplianceCaRequests, KeyRequests, Lockouts, SetApplianceCa,
      CreateKey, RevokeKey, SetMode, vars, registry

\* No two requests register one id.
LEMMA OneRegistrationStep == TypeInv /\ OneRegistration /\ [Next]_vars => OneRegistration'
<1> SUFFICES ASSUME TypeInv, OneRegistration, [Next]_vars PROVE OneRegistration'
  OBVIOUS
<1>1. Idle \in RequestRow /\ request \in [Requests -> RequestRow] /\ RequestsFit
  BY IdleFits DEF Fits, TypeInv, RequestsFit
<1>2. ASSUME \A r \in Requests : \A t \in Targets :
               Registers(request'[r], t) => Registers(request[r], t)
      PROVE  OneRegistration'
  BY <1>2 DEF OneRegistration
<1>3. ASSUME NEW r \in Requests, NEW q, request' = [request EXCEPT ![r] = q],
             \/ q.at \notin Working
             \/ q.op # "register"
             \/ q.op = request[r].op /\ q.target = request[r].target /\ request[r].at \in Working
      PROVE  OneRegistration'
  <2>1. \A s \in Requests : request'[s] = IF s = r THEN q ELSE request[s]
    BY <1>1, <1>3
  <2> QED
    BY <1>2, <1>3, <2>1 DEF Registers
<1>4. ASSUME NEW r \in Requests, Ends(r) PROVE OneRegistration'
  BY <1>2, <1>4, EndedNotWorking DEF Registers
<1>5. ASSUME NEW r \in Requests, NEW t \in Targets, NEW b \in Backends, NEW form \in Material,
             SubmitRegistration(r, t, b, form)
      PROVE  OneRegistration'
  <2> DEFINE q == [Idle EXCEPT !.at = "submitted", !.op = "register", !.target = t,
                               !.backend = b, !.tested = form]
  <2>1. q.target = t
    BY <1>1 DEF RequestRow
  <2>2. request' = [request EXCEPT ![r] = q] /\ \A s \in Requests : request[s].target # t
    BY <1>5 DEF SubmitRegistration
  <2> HIDE DEF q
  <2>3. \A s \in Requests : request'[s] = IF s = r THEN q ELSE request[s]
    BY <1>1, <2>2
  <2> QED
    BY <2>1, <2>2, <2>3 DEF OneRegistration, Registers
<1>6. ASSUME NEW r \in Requests, NEW op \in {"edit", "recheck"}, NEW t, NEW form,
             Submit(r, op, t, form)
      PROVE  OneRegistration'
  <2> DEFINE q == [Idle EXCEPT !.at = "submitted", !.op = op, !.target = t, !.form = form,
                               !.base = row[t].generation, !.tested = Completed(t, form)]
  <2>1. q.op # "register"
    BY <1>1 DEF RequestRow
  <2>2. request' = [request EXCEPT ![r] = q]
    BY <1>6 DEF Submit
  <2> HIDE DEF q
  <2> QED
    BY <1>3, <2>1, <2>2
<1>7. ASSUME NEW r \in Requests, NEW t \in Targets, ShowDeletion(r, t) PROVE OneRegistration'
  <2> DEFINE q == [Idle EXCEPT !.at = "shown", !.op = "delete", !.target = t]
  <2>1. q.at \notin Working
    BY <1>1 DEF RequestRow, Working
  <2>2. request' = [request EXCEPT ![r] = q]
    BY <1>7 DEF ShowDeletion
  <2> HIDE DEF q
  <2> QED
    BY <1>3, <2>1, <2>2
<1>8. ASSUME NEW r \in Requests, ShowCaRemoval(r) PROVE OneRegistration'
  <2> DEFINE q == [Idle EXCEPT !.at = "shown", !.op = "remove_ca"]
  <2>1. q.at \notin Working
    BY <1>1 DEF RequestRow, Working
  <2>2. request' = [request EXCEPT ![r] = q]
    BY <1>8 DEF ShowCaRemoval
  <2> HIDE DEF q
  <2> QED
    BY <1>3, <2>1, <2>2
<1>9. ASSUME NEW r \in Requests, NEW p, At(r, p), request[r].at \in {"submitted", "probing"}
      PROVE  OneRegistration'
  <2> DEFINE q == [request[r] EXCEPT !.at = p]
  <2>1. q.op = request[r].op /\ q.target = request[r].target
    BY <1>1 DEF RequestRow
  <2>2. request' = [request EXCEPT ![r] = q]
    BY <1>9 DEF At
  <2> HIDE DEF q
  <2> QED
    BY <1>3, <1>9, <2>1, <2>2 DEF Working
<1>10. ASSUME NEW r \in Requests, PrepareAgain(r) PROVE OneRegistration'
  <2> DEFINE stores == Completed(request[r].target, request[r].form)
             q == [request[r] EXCEPT !.at = "prepared", !.form = stores]
  <2>1. q.op = request[r].op /\ q.target = request[r].target /\ request[r].at = "verified"
    BY <1>1, <1>10 DEF RequestRow, PrepareAgain
  <2>2. Ends(r) \/ request' = [request EXCEPT ![r] = q]
    BY <1>1, <1>10 DEF PrepareAgain
  <2> HIDE DEF q
  <2> QED
    BY <1>3, <1>4, <2>1, <2>2 DEF Working
<1>11. ASSUME UNCHANGED request PROVE OneRegistration'
  BY <1>2, <1>11
<1>12. CASE Restart
  BY <1>2, <1>12, RestartFollows DEF Registers
<1> QED
  BY <1>4, <1>5, <1>6, <1>7, <1>8, <1>9, <1>10, <1>11, <1>12
  DEF Next, TargetRequests, Submits, Verifies, Stores, ApplianceCaRequests, KeyRequests, Lockouts,
      SubmitEdit, SubmitRecheck, RecordAttempt, RecordOutcome, Create, Update, MarkVerified, Delete,
      RemoveApplianceCa, Leaves, SetApplianceCa, CreateKey, RevokeKey, SetMode, LockOut, Unlock,
      vars, registry

LEMMA StoredStep ==
  TypeInv /\ RequestsFollowRows /\ StoredWasVerified /\ [Next]_vars => StoredWasVerified'
<1> SUFFICES ASSUME TypeInv, RequestsFollowRows, StoredWasVerified, [Next]_vars
             PROVE  StoredWasVerified'
  OBVIOUS
<1> USE Assumptions
<1>1. RowsOK /\ RequestsFit
  BY DEF TypeInv
<1>2. ASSUME UNCHANGED row PROVE StoredWasVerified'
  BY <1>2 DEF StoredWasVerified, Stored
<1>3. ASSUME NEW u \in Targets, NEW x, row' = [row EXCEPT ![u] = x],
             x \in {Fresh, Gone} \/ x.stores = x.proof
      PROVE  StoredWasVerified'
  <2>1. \A t \in Targets : row'[t] = IF t = u THEN x ELSE row[t]
    BY <1>1, <1>3 DEF RowsOK
  <2> QED
    BY <1>3, <2>1 DEF StoredWasVerified, Stored
<1>4. ASSUME NEW r \in Requests, Create(r) PROVE StoredWasVerified'
  <2> DEFINE x == [backend |-> request[r].backend, stores |-> request[r].tested, generation |-> 1,
                   locked |-> FALSE, damage |-> {}, proof |-> request[r].tested]
  <2>1. request[r].target \in Targets
    BY <1>1, <1>4 DEF Create, RequestsFit, Fits, Working
  <2>2. UNCHANGED row \/ row' = [row EXCEPT ![request[r].target] = x]
    BY <1>4 DEF Create, registry
  <2>3. x.stores = x.proof
    OBVIOUS
  <2> HIDE DEF x
  <2> QED
    BY <1>2, <1>3, <2>1, <2>2, <2>3
<1>5. ASSUME NEW r \in Requests, Update(r) PROVE StoredWasVerified'
  <2> DEFINE q == request[r]
             u == q.target
  <2>1. CASE /\ u \in Targets /\ Unchanged(u, q.base) /\ EditedRow(q) \in Row
             /\ row' = [row EXCEPT ![u] = EditedRow(q)]
    <3>1. row[u] \in Row /\ row[u] # Gone /\ row[u].generation = q.base
      BY <1>1, <2>1, StoredRow DEF Unchanged, Stored
    <3>2. q.at = "prepared" /\ q.op = "edit"
      BY <1>1, <1>5 DEF Update, RequestsFit, Fits
    <3>3. q.form = q.tested
      BY <3>1, <3>2 DEF RequestsFollowRows, Based, Working
    <3>4. EditedRow(q).stores = EditedRow(q).proof
      BY <3>1, <3>3 DEF EditedRow, Row
    <3> QED
      BY <1>3, <2>1, <3>4
  <2> QED
    BY <1>1, <1>2, <1>5, <2>1, UpdateWrites
<1>6. ASSUME NEW r \in Requests, MarkVerified(r) PROVE StoredWasVerified'
  <2> DEFINE q == request[r]
             u == q.target
             x == [row[u] EXCEPT !.proof = q.tested]
  <2>1. u \in Targets
    BY <1>1, <1>6 DEF MarkVerified, RequestsFit, Fits, Working
  <2>2. UNCHANGED row \/ (Unchanged(u, q.base) /\ row' = [row EXCEPT ![u] = x])
    BY <1>1, <1>6, <2>1 DEF MarkVerified, RowsOK
  <2>3. CASE Unchanged(u, q.base) /\ row' = [row EXCEPT ![u] = x]
    <3>1. row[u] \in Row /\ row[u] # Gone /\ row[u].generation = q.base
      BY <1>1, <2>3, StoredRow DEF Unchanged, Stored
    <3>2. q.at = "verified" /\ q.op = "recheck"
      BY <1>6 DEF MarkVerified
    <3>3. row[u].stores = q.tested
      BY <3>1, <3>2 DEF RequestsFollowRows, Based, Working
    <3>4. x.stores = x.proof
      BY <3>1, <3>3 DEF Row
    <3> HIDE DEF x
    <3> QED
      BY <1>3, <2>1, <2>3, <3>4
  <2> QED
    BY <1>2, <2>2, <2>3
<1>7. ASSUME NEW r \in Requests, Delete(r) PROVE StoredWasVerified'
  <2>1. \/ UNCHANGED row
        \/ (request[r].target \in Stored /\ row' = [row EXCEPT ![request[r].target] = Gone])
    BY <1>7 DEF Delete, registry
  <2> QED
    BY <1>2, <1>3, <2>1 DEF Stored
<1>8. ASSUME NEW u \in Targets, LockOut(u) \/ Unlock(u) PROVE StoredWasVerified'
  <2>1. PICK b \in BOOLEAN : u \in Stored /\ row' = [row EXCEPT ![u] = [row[u] EXCEPT !.locked = b]]
    BY <1>1, <1>8 DEF LockOut, Unlock, Usable, RowsOK
  <2> DEFINE x == [row[u] EXCEPT !.locked = b]
  <2>2. x.stores = row[u].stores /\ x.proof = row[u].proof
    BY <1>1, <2>1, StoredRow DEF Row
  <2>3. x.stores = x.proof /\ row' = [row EXCEPT ![u] = x]
    BY <2>1, <2>2 DEF StoredWasVerified
  <2> HIDE DEF x
  <2> QED
    BY <1>3, <2>3
<1>9. CASE Restart
  <2>1. PICK u \in Targets, parts \in SUBSET {"secret", "ca"} :
            row' = IF u \in Stored THEN [row EXCEPT ![u].damage = row[u].damage \cup parts] ELSE row
    BY <1>1, <1>9 DEF Restart, RowsOK
  <2> DEFINE x == [row[u] EXCEPT !.damage = row[u].damage \cup parts]
  <2>2. CASE u \in Stored
    <3>1. x.stores = row[u].stores /\ x.proof = row[u].proof
      BY <1>1, <2>2, StoredRow DEF Row
    <3>2. x.stores = x.proof /\ row' = [row EXCEPT ![u] = x]
      BY <1>1, <2>1, <2>2, <3>1 DEF StoredWasVerified, RowsOK
    <3> HIDE DEF x
    <3> QED
      BY <1>3, <3>2
  <2> QED
    BY <1>2, <2>1, <2>2
<1> QED
  BY <1>2, <1>4, <1>5, <1>6, <1>7, <1>8, <1>9
  DEF Next, TargetRequests, Submits, Verifies, Stores, ApplianceCaRequests, KeyRequests, Lockouts,
      SubmitRegistration, SubmitEdit, SubmitRecheck, ShowDeletion, ShowCaRemoval, RecordAttempt,
      RecordOutcome, PrepareAgain, RemoveApplianceCa, SetApplianceCa, CreateKey, RevokeKey, SetMode,
      vars, registry

\* Every target's host, credentials and CA are the ones a probe succeeded with,
\* although an edit names only some of them and others edit the row while it is
\* probed (routes.py:395).
THEOREM StoredWasAlwaysVerified == Spec => []StoredWasVerified
<1> DEFINE Inv == OneRegistration /\ RequestsFollowRows /\ StoredWasVerified
<1>1. Init => Inv
  <2> SUFFICES ASSUME Init PROVE Inv
    OBVIOUS
  <2>1. \A r \in Requests : request[r].at \notin Working
    BY DEF Init, Idle, Working
  <2>2. StoredWasVerified
    BY DEF Init, StoredWasVerified
  <2> QED
    BY <2>1, <2>2 DEF OneRegistration, Registers, RequestsFollowRows, Based
<1>2. TypeInv /\ Inv /\ [Next]_vars => Inv'
  BY OneRegistrationStep, FollowStep, StoredStep
<1>3. Inv => StoredWasVerified
  OBVIOUS
<1> HIDE DEF Inv
<1> QED
  BY <1>1, <1>2, <1>3, TypeAlways, PTL DEF Spec
=============================================================================
