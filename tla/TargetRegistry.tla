--------------------------- MODULE TargetRegistry ---------------------------
(***************************************************************************)
(* The console's registry: targets, API keys, the authorization mode and   *)
(* the appliance CA of the runtime database, and the admin requests that   *)
(* change them.  A target is registered or edited only after its backend   *)
(* was probed; deleting one, or removing the appliance CA, needs the       *)
(* confirmation of a page that was shown before.  Between any two awaits   *)
(* of one request other requests run.                                      *)
(*                                                                         *)
(* Grain: one action per repository or ledger call of a handler, each a    *)
(* transaction of its own.  What happens to running calls after a change   *)
(* is BackendPool, who may enable actions is PackActivation, and how       *)
(* envelopes are encrypted is CredentialRotation.                          *)
(***************************************************************************)
EXTENDS Naturals, FiniteSets

CONSTANTS
    Requests,       \* admin requests, each made once
    Targets,        \* target ids; a uuid is never used again
    Keys,           \* API key ids, never used again either
    Backends,       \* product endpoints
    Fqdns,
    Secrets,        \* a username with its password
    Bundles,        \* CA bundles of single targets
    ApplianceBundles,
    None,           \* no bundle, no form, no target
    Kept,           \* a field of an edit that was left empty
    Fresh,          \* a target id that was not used yet
    Gone,           \* the id of a target that was deleted
    MaxGeneration,  \* bound: edits of one target
    MaxKeyChanges,  \* bound: keys revoked and modes selected
    MaxEvents       \* bound: restarts, lockouts and new appliance CAs

ASSUME RegistryAssumption ==
    /\ None \notin Bundles \cup ApplianceBundles
    /\ Kept \notin Secrets \cup Bundles \cup {None}
    /\ "vcf" \notin Backends
    /\ MaxGeneration \in Nat \ {0}
    /\ MaxKeyChanges \in Nat
    /\ MaxEvents \in Nat

VARIABLES
    row,            \* the targets table
    key,            \* the api_keys table
    mode,           \* setting authorization_mode
    applianceCa,    \* setting global_root_ca_pem
    restartRequired,
    mounted,        \* endpoints of this process, frozen at its start
    request,        \* where each admin request stands
    page,           \* what the page it confirms showed
    ledger,         \* what the audit ledger says of its verification
    changes, events

registry == <<row, key, mode, applianceCa, restartRequired>>
vars == <<registry, mounted, request, page, ledger, changes, events>>

-----------------------------------------------------------------------------
(* Rows, keys and pages.                                                   *)

\* What a probe is made with and what a row stores of it.
Material == [fqdn : Fqdns, secret : Secrets, ca : Bundles \cup {None}]

\* proof is what last_verified_at vouches for; damage says which envelopes failed
\* to decrypt at startup, and unusable_reason is set when any did.
Row == [backend : Backends, stores : Material, generation : 1..MaxGeneration,
        locked : BOOLEAN, damage : SUBSET {"secret", "ca"}, proof : Material]

ASSUME RowAssumption == Fresh # Gone /\ {Fresh, Gone} \cap Row = {}

Stored == {t \in Targets : row[t] \notin {Fresh, Gone}}
Usable == {t \in Stored : row[t].damage = {}}
UsableOf(b) == {t \in Usable : row[t].backend = b}

FqdnTaken(t, f) == \E u \in Stored \ {t} : row[u].stores.fqdn = f

Endpoints == Backends \cup {"vcf"}

KeyRow == [state : {"none", "active", "revoked"}, targets : SUBSET Targets,
           endpoints : SUBSET Endpoints, mode : {"local", "gateway"}]

NoKey == [state |-> "none", targets |-> {}, endpoints |-> {}, mode |-> "local"]

ActiveKeys == {k \in Keys : key[k].state = "active"}

Revoke(ks) == [k \in Keys |-> IF k \in ks THEN [key[k] EXCEPT !.state = "revoked"] ELSE key[k]]

\* What the digest of a deletion page covers: the target without its secret, the
\* active keys that name it, and whether it is the last usable one of its product.
Scoped(t) == {k \in ActiveKeys : t \in key[k].targets}

\* Mutant: a target in quarantine counts as a survivor.
LastRegistered(t) == {u \in Stored : row[u].backend = row[t].backend} \subseteq {t}

LastOfBackend(t) == UsableOf(row[t].backend) \subseteq {t}

DeletionPage(t) ==
    [fqdn |-> row[t].stores.fqdn, hasCa |-> row[t].stores.ca # None,
     generation |-> row[t].generation, locked |-> row[t].locked,
     usable |-> t \in Usable, proof |-> row[t].proof,
     keys |-> {<<k, key[k]>> : k \in Scoped(t)}, last |-> LastOfBackend(t)]

\* What global_ca_target_digest covers.
CaPage ==
    [targets |-> {<<t, row[t].stores.fqdn, row[t].stores.ca # None>> : t \in Stored},
     ca |-> applianceCa]

\* A form of the console: an edit may leave secret and CA as they are.
Edits == [fqdn : Fqdns, secret : Secrets \cup {Kept}, ca : Bundles \cup {None, Kept}]

\* base is the generation that is edited, tested what the probe is made with.
RequestRow ==
    [at : {"idle", "submitted", "probing", "verified", "prepared", "shown", "done"},
     op : {"none", "register", "edit", "recheck", "delete", "remove_ca"},
     target : Targets \cup {None}, backend : Backends \cup {None},
     form : Edits \cup {None}, base : 0..MaxGeneration, tested : Material \cup {None}]

Idle == [at |-> "idle", op |-> "none", target |-> None, backend |-> None, form |-> None,
         base |-> 0, tested |-> None]

At(r, p) == request' = [request EXCEPT ![r].at = p]
Ends(r) == request' = [request EXCEPT ![r] = [Idle EXCEPT !.at = "done"]]

\* A confirmation ends with its page.
Leaves(r) ==
    /\ Ends(r)
    /\ page' = [page EXCEPT ![r] = None]

Init ==
    /\ row \in [Targets -> {Fresh} \cup
                 [backend : Backends, stores : Material, generation : {1}, locked : {FALSE},
                  damage : {{}}, proof : Material]]
    /\ \A t \in Stored : row[t].proof = row[t].stores /\ ~FqdnTaken(t, row[t].stores.fqdn)
    /\ key = [k \in Keys |-> NoKey]
    /\ mode \in {"local", "gateway"}
    /\ applianceCa \in ApplianceBundles \cup {None}
    /\ restartRequired = FALSE
    /\ mounted = {row[t].backend : t \in Usable}
    /\ request = [r \in Requests |-> Idle]
    /\ page = [r \in Requests |-> None]
    /\ ledger = [r \in Requests |-> "none"]
    /\ changes = 0
    /\ events = 0

-----------------------------------------------------------------------------
(* Submitting: what is to be stored is put together, and not stored yet.   *)

\* prepare_target_registration, with a new id.
SubmitRegistration(r, t, b, form) ==
    /\ request[r].at = "idle"
    /\ row[t] = Fresh
    /\ \A q \in Requests : request[q].target # t
    /\ request' = [request EXCEPT ![r] =
                     [Idle EXCEPT !.at = "submitted", !.op = "register", !.target = t,
                                  !.backend = b, !.tested = form]]
    /\ UNCHANGED <<registry, mounted, page, ledger, changes, events>>

\* An edit of a quarantined target replaces its credentials, and the CA when that
\* one is damaged.
Mends(t, form) ==
    /\ row[t].damage # {} => form.secret # Kept
    /\ "ca" \in row[t].damage => form.ca # Kept

\* prepare_target_update: the form was made for this generation.
Acceptable(t, base, form) ==
    /\ t \in Stored
    /\ row[t].generation = base
    /\ ~row[t].locked
    /\ Mends(t, form)

\* Mutant: fields left empty are stored as they are.
AsSubmitted(t, form) == [fqdn |-> form.fqdn, secret |-> form.secret, ca |-> form.ca]

\* Fields left empty are taken from the row.
Completed(t, form) ==
    [fqdn |-> form.fqdn,
     secret |-> IF form.secret = Kept THEN row[t].stores.secret ELSE form.secret,
     ca |-> IF form.ca = Kept THEN row[t].stores.ca ELSE form.ca]

Submit(r, op, t, form) ==
    request' = [request EXCEPT ![r] =
                  [Idle EXCEPT !.at = "submitted", !.op = op, !.target = t, !.form = form,
                               !.base = row[t].generation, !.tested = Completed(t, form)]]

SubmitEdit(r, t, form) ==
    /\ request[r].at = "idle"
    /\ t \in Stored
    /\ row[t].generation < MaxGeneration
    /\ Acceptable(t, row[t].generation, form)
    /\ Submit(r, "edit", t, form)
    /\ UNCHANGED <<registry, mounted, page, ledger, changes, events>>

\* post_target_verify asks for an edit that changes nothing.
SubmitRecheck(r, t) ==
    /\ request[r].at = "idle"
    /\ t \in Stored
    /\ LET form == [fqdn |-> row[t].stores.fqdn, secret |-> Kept, ca |-> Kept]
       IN  /\ Acceptable(t, row[t].generation, form)
           /\ Submit(r, "recheck", t, form)
    /\ UNCHANGED <<registry, mounted, page, ledger, changes, events>>

-----------------------------------------------------------------------------
(* TargetVerifier.verify.                                                  *)

\* The attempt is in the ledger before the backend is asked; an append that
\* fails or is late, though it may be there nevertheless, ends the request.
RecordAttempt(r) ==
    /\ request[r].at = "submitted"
    /\ \/ ledger' = [ledger EXCEPT ![r] = "attempt"] /\ At(r, "probing")
       \/ ledger' \in {ledger, [ledger EXCEPT ![r] = "attempt"]} /\ Ends(r)
    /\ UNCHANGED <<registry, mounted, page, changes, events>>

\* What the probe's answer, refusal or lateness leaves in the ledger.
Outcomes == {"ok", "failed"}

\* Mutant: the outcome of a probe is recorded, and then forgotten.
RecordOutcomeOnly(r) ==
    /\ request[r].at = "probing"
    /\ \E outcome \in Outcomes : ledger' = [ledger EXCEPT ![r] = outcome]
    /\ At(r, "verified")
    /\ UNCHANGED <<registry, mounted, page, changes, events>>

\* The probe, and its outcome in the ledger: the request goes on when the backend
\* answered and the ledger says so.
RecordOutcome(r) ==
    /\ request[r].at = "probing"
    /\ \/ ledger' = [ledger EXCEPT ![r] = "ok"] /\ At(r, "verified")
       \/ ledger' \in {ledger} \cup {[ledger EXCEPT ![r] = outcome] : outcome \in Outcomes}
          /\ Ends(r)
    /\ UNCHANGED <<registry, mounted, page, changes, events>>

-----------------------------------------------------------------------------
(* Storing what was verified.                                              *)

\* create_target; an FQDN that is taken is refused.
Create(r) ==
    /\ request[r].at = "verified"
    /\ request[r].op = "register"
    /\ LET t == request[r].target
           stores == request[r].tested
       IN  IF FqdnTaken(t, stores.fqdn)
           THEN UNCHANGED registry
           ELSE /\ row' = [row EXCEPT ![t] =
                             [backend |-> request[r].backend, stores |-> stores,
                              generation |-> 1, locked |-> FALSE, damage |-> {},
                              proof |-> stores]]
                /\ restartRequired' = TRUE
                /\ UNCHANGED <<key, mode, applianceCa>>
    /\ Ends(r)
    /\ UNCHANGED <<mounted, page, ledger, changes, events>>

\* update_target first puts the row together again.
PrepareAgain(r) ==
    /\ request[r].at = "verified"
    /\ request[r].op = "edit"
    /\ IF Acceptable(request[r].target, request[r].base, request[r].form)
       THEN request' = [request EXCEPT ![r].at = "prepared",
                          ![r].form = Completed(request[r].target, request[r].form)]
       ELSE Ends(r)
    /\ UNCHANGED <<registry, mounted, page, ledger, changes, events>>

\* Mutant: the row is only looked for.
StillThere(t, base) == t \in Stored

\* The row still has the generation that was edited.
Unchanged(t, base) == t \in Stored /\ row[t].generation = base

\* The transaction of update_target.  A quarantine ends, a lockout does not.
Update(r) ==
    /\ request[r].at = "prepared"
    /\ LET t == request[r].target
           stores == request[r].form
       IN  IF Unchanged(t, request[r].base) /\ ~FqdnTaken(t, stores.fqdn)
           THEN /\ row' = [row EXCEPT ![t].stores = stores, ![t].damage = {},
                             ![t].generation = request[r].base + 1,
                             ![t].proof = request[r].tested]
                /\ UNCHANGED <<key, mode, applianceCa, restartRequired>>
           ELSE UNCHANGED registry
    /\ Ends(r)
    /\ UNCHANGED <<mounted, page, ledger, changes, events>>

\* mark_target_verified.
MarkVerified(r) ==
    /\ request[r].at = "verified"
    /\ request[r].op = "recheck"
    /\ LET t == request[r].target
       IN  IF Unchanged(t, request[r].base)
           THEN row' = [row EXCEPT ![t].proof = request[r].tested]
           ELSE UNCHANGED row
    /\ Ends(r)
    /\ UNCHANGED <<key, mode, applianceCa, restartRequired, mounted, page, ledger, changes, events>>

-----------------------------------------------------------------------------
(* Deleting a target.                                                      *)

ShowDeletion(r, t) ==
    /\ request[r].at = "idle"
    /\ t \in Stored
    /\ request' = [request EXCEPT ![r] =
                     [Idle EXCEPT !.at = "shown", !.op = "delete", !.target = t]]
    /\ page' = [page EXCEPT ![r] = DeletionPage(t)]
    /\ UNCHANGED <<registry, mounted, ledger, changes, events>>

\* Mutant: the digest does not cover the keys.
ConfirmedButForKeys(r, t) == page[r] = [DeletionPage(t) EXCEPT !.keys = page[r].keys]

\* The digest that comes with the confirmation is the one of the present state.
DeletionConfirmed(r, t) == page[r] = DeletionPage(t)

\* The keys that name the target are revoked and the row goes, in one
\* transaction.  A page that is out of date is shown again.
Delete(r) ==
    /\ request[r].at = "shown"
    /\ request[r].op = "delete"
    /\ LET t == request[r].target
       IN  \/ /\ t \notin Stored
              /\ Leaves(r)
              /\ UNCHANGED registry
           \/ /\ t \in Stored
              /\ ~DeletionConfirmed(r, t)
              /\ page' = [page EXCEPT ![r] = DeletionPage(t)]
              /\ UNCHANGED <<registry, request>>
           \/ /\ t \in Stored
              /\ DeletionConfirmed(r, t)
              /\ key' = Revoke(Scoped(t))
              /\ row' = [row EXCEPT ![t] = Gone]
              /\ restartRequired' = (restartRequired \/ LastOfBackend(t))
              /\ Leaves(r)
              /\ UNCHANGED <<mode, applianceCa>>
    /\ UNCHANGED <<mounted, ledger, changes, events>>

-----------------------------------------------------------------------------
(* The appliance CA.                                                       *)

SetApplianceCa(b) ==
    /\ events < MaxEvents
    /\ events' = events + 1
    /\ applianceCa' = b
    /\ UNCHANGED <<row, key, mode, restartRequired, mounted, request, page, ledger, changes>>

ShowCaRemoval(r) ==
    /\ request[r].at = "idle"
    /\ applianceCa # None
    /\ request' = [request EXCEPT ![r] =
                     [Idle EXCEPT !.at = "shown", !.op = "remove_ca"]]
    /\ page' = [page EXCEPT ![r] = CaPage]
    /\ UNCHANGED <<registry, mounted, ledger, changes, events>>

RemovalConfirmed(r) == page[r] = CaPage

\* A removal that finds none has nothing to do, one that was confirmed for
\* other targets or another bundle is refused.
RemoveApplianceCa(r) ==
    /\ request[r].at = "shown"
    /\ request[r].op = "remove_ca"
    /\ applianceCa' = IF RemovalConfirmed(r) THEN None ELSE applianceCa
    /\ Leaves(r)
    /\ UNCHANGED <<row, key, mode, restartRequired, mounted, ledger, changes, events>>

-----------------------------------------------------------------------------
(* Keys and the authorization mode.                                        *)

\* What create_api_key makes of a form: a gateway key names one endpoint and
\* covers its usable targets, a local key defaults to the usable targets of the
\* endpoints it names, and to their endpoints when it names none.
SelectedTargets(targets, endpoints) ==
    IF mode = "gateway"
    THEN IF "vcf" \in endpoints THEN Usable ELSE {t \in Usable : row[t].backend \in endpoints}
    ELSE IF targets # {} THEN targets
    ELSE IF endpoints = {} THEN Usable
    ELSE {t \in Usable : row[t].backend \in endpoints}

SelectedEndpoints(targets, endpoints) ==
    IF mode = "local" /\ endpoints = {} THEN {row[t].backend : t \in targets} \cup {"vcf"}
    ELSE endpoints

\* Mutant: an existing registration is not looked for.
AnyEndpoint(endpoints) == TRUE

\* One active gateway key for an endpoint.
EndpointIsFree(endpoints) ==
    \A k \in ActiveKeys : key[k].mode = "gateway" => key[k].endpoints # endpoints

GatewayFits(endpoints) ==
    mode = "gateway" => Cardinality(endpoints) = 1 /\ EndpointIsFree(endpoints)

\* Every target a key names is usable, and belongs to an endpoint it names; the
\* gateway key of the management endpoint covers all.
TargetsFit(targets, endpoints) ==
    /\ targets # {}
    /\ targets \subseteq Usable
    /\ \/ mode = "gateway" /\ endpoints = {"vcf"}
       \/ \A t \in targets : row[t].backend \in endpoints

\* Targets that a gateway key's form names are not looked at, so it names none here.
CreateKey(k, targets, endpoints) ==
    /\ key[k] = NoKey
    /\ targets = {} \/ mode = "local"
    /\ GatewayFits(endpoints)
    /\ LET ts == SelectedTargets(targets, endpoints)
           es == SelectedEndpoints(ts, endpoints)
       IN  /\ TargetsFit(ts, es)
           /\ key' = [key EXCEPT ![k] = [state |-> "active", targets |-> ts, endpoints |-> es,
                                         mode |-> mode]]
    /\ UNCHANGED <<row, mode, applianceCa, restartRequired, mounted, request, page, ledger, changes,
                   events>>

RevokeKey(k) ==
    /\ k \in ActiveKeys
    /\ changes < MaxKeyChanges
    /\ changes' = changes + 1
    /\ key' = Revoke({k})
    /\ UNCHANGED <<row, mode, applianceCa, restartRequired, mounted, request, page, ledger, events>>

\* A change of mode revokes every active key; selecting the present mode
\* changes nothing.
SetMode(m) ==
    /\ m # mode
    /\ changes < MaxKeyChanges
    /\ changes' = changes + 1
    /\ mode' = m
    /\ key' = Revoke(ActiveKeys)
    /\ UNCHANGED <<row, applianceCa, restartRequired, mounted, request, page, ledger, events>>

-----------------------------------------------------------------------------
(* The rest of the system.                                                 *)

\* The pool locks a target out after three failures; an operator unlocks it.
LockOut(t) ==
    /\ events < MaxEvents
    /\ events' = events + 1
    /\ t \in Usable
    /\ ~row[t].locked
    /\ row' = [row EXCEPT ![t].locked = TRUE]
    /\ UNCHANGED <<key, mode, applianceCa, restartRequired, mounted, request, page,
                   ledger, changes>>

Unlock(t) ==
    /\ t \in Stored
    /\ row[t].locked
    /\ row' = [row EXCEPT ![t].locked = FALSE]
    /\ UNCHANGED <<key, mode, applianceCa, restartRequired, mounted, request, page, ledger, changes,
                   events>>

\* build_mcp_surfaces mounts an endpoint for every product with a usable target.
EndpointsOf(after) == {after[t].backend : t \in {u \in Stored : after[u].damage = {}}}

\* The process stops wherever its requests are, and starts with stores of which
\* some envelopes may be damaged.  With no usable target left it would not start.
Restart ==
    /\ events < MaxEvents
    /\ events' = events + 1
    /\ \E t \in Targets, parts \in SUBSET {"secret", "ca"} :
         /\ parts # {} => t \in Stored
         /\ "ca" \in parts => row[t].stores.ca # None
         /\ row' = IF t \in Stored THEN [row EXCEPT ![t].damage = @ \cup parts] ELSE row
    /\ Stored # {} => EndpointsOf(row') # {}
    /\ mounted' = EndpointsOf(row')
    /\ restartRequired' = FALSE
    /\ request' = [r \in Requests |->
                     IF request[r].at = "idle" THEN request[r] ELSE [Idle EXCEPT !.at = "done"]]
    /\ page' = [r \in Requests |-> None]
    /\ UNCHANGED <<key, mode, applianceCa, ledger, changes>>

-----------------------------------------------------------------------------
Verifies(r) == RecordAttempt(r) \/ RecordOutcome(r)
Stores(r) == Create(r) \/ PrepareAgain(r) \/ Update(r) \/ MarkVerified(r)

Submits(r) ==
    \/ \E t \in Targets, b \in Backends, form \in Material : SubmitRegistration(r, t, b, form)
    \/ \E t \in Targets, form \in Edits : SubmitEdit(r, t, form)
    \/ \E t \in Targets : SubmitRecheck(r, t) \/ ShowDeletion(r, t)
    \/ ShowCaRemoval(r)

ApplianceCaRequests ==
    \/ \E b \in ApplianceBundles : SetApplianceCa(b)
    \/ \E r \in Requests : RemoveApplianceCa(r)

KeyRequests ==
    \/ \E k \in Keys, targets \in SUBSET Targets, endpoints \in SUBSET Endpoints :
         CreateKey(k, targets, endpoints)
    \/ \E k \in Keys : RevokeKey(k)
    \/ \E m \in {"local", "gateway"} : SetMode(m)

TargetRequests(r) == Submits(r) \/ Verifies(r) \/ Stores(r) \/ Delete(r)

Lockouts == \E t \in Targets : LockOut(t) \/ Unlock(t)

Next ==
    \/ \E r \in Requests : TargetRequests(r)
    \/ ApplianceCaRequests \/ KeyRequests \/ Lockouts \/ Restart

Spec == Init /\ [][Next]_vars

-----------------------------------------------------------------------------
TypeOK ==
    /\ row \in [Targets -> Row \cup {Fresh, Gone}]
    /\ key \in [Keys -> KeyRow]
    /\ mode \in {"local", "gateway"}
    /\ applianceCa \in ApplianceBundles \cup {None}
    /\ restartRequired \in BOOLEAN
    /\ mounted \subseteq Backends
    /\ request \in [Requests -> RequestRow]
    /\ ledger \in [Requests -> {"none", "attempt", "ok", "failed"}]
    /\ changes \in 0..MaxKeyChanges
    /\ events \in 0..MaxEvents

\* Every target's host, credentials and CA are the ones a probe succeeded with,
\* those last_verified_at vouches for, although an edit names only some of them
\* and takes the rest from a row others edit (routes.py:395).
StoredWasVerified == \A t \in Stored : row[t].stores = row[t].proof

\* A row is written only by a request whose successful outcome is in the ledger;
\* a failed probe, a late one or an unavailable ledger saves nothing
\* (target_verification.py:205).
OnlyAuditedProbesSave ==
    [][\A t \in Targets :
         row'[t] \notin {Fresh, Gone} /\ (t \in Stored => row'[t].proof # row[t].proof)
         => \E r \in Requests : /\ request[r].target = t
                                /\ request[r].at \in {"verified", "prepared"}
                                /\ request'[r].at = "done"
                                /\ ledger[r] = "ok"]_vars

\* Active keys are of the present mode and name registered targets, whatever was
\* deleted or selected since they were minted, and an endpoint has one gateway
\* key at most (runtime_repository.py:1640, :1893).
ActiveKeysFitTheRegistry ==
    \A k \in ActiveKeys :
        /\ key[k].mode = mode
        /\ key[k].targets \subseteq Stored
        /\ \A j \in ActiveKeys \ {k} :
             mode = "gateway" => key[j].endpoints # key[k].endpoints

\* A deletion takes away the keys its page listed and no other, and the removal
\* of the appliance CA the bundle its page showed (runtime_repository.py:1634,
\* :1397).
ConfirmedIsWhatIsRemoved ==
    [][/\ \A t \in Stored :
            row'[t] = Gone
            => \E r \in Requests :
                 /\ request[r].target = t /\ request[r].op = "delete"
                 /\ {<<k, key[k]>> : k \in {j \in Keys : key'[j] # key[j]}} = page[r].keys
                 /\ page[r].last => restartRequired'
       /\ applianceCa # None /\ applianceCa' = None
          => \E r \in Requests :
               request[r].op = "remove_ca" /\ page[r].ca = applianceCa]_vars

\* An endpoint that would not come back tells the operator so: whichever targets
\* were deleted or are in quarantine, while no restart is asked for every mounted
\* endpoint has a usable target (runtime_repository.py:1594).
RetiredEndpointsNeedRestart ==
    ~restartRequired => \A b \in mounted : UsableOf(b) # {}
=============================================================================
