------------------------- MODULE CredentialRotation -------------------------
(***************************************************************************)
(* RuntimeRepository's keyring and target rows: credential-key rotation in *)
(* resumable batches while admin requests create, edit and delete targets, *)
(* the keyring file cannot always be written and the process may die.      *)
(*                                                                         *)
(* Grain: a repository call runs in a thread and holds the RLock from its  *)
(* first statement to its last, except that create_target and              *)
(* update_target encrypt before they take it, envelope by envelope, and    *)
(* _encrypt reads the active key more than once.  So a rotation is a       *)
(* sequence of steps under the lock, between any two of which another      *)
(* thread may read a key or the process may die.  Of a row's envelopes the *)
(* model keeps the keys they name and whether each can be opened with the  *)
(* key it names; keys are numbered as they are generated.                  *)
(***************************************************************************)
EXTENDS Integers, FiniteSets

CONSTANTS
    TargetCount,   \* target ids are 1..TargetCount, in the order of the rows
    Writers,       \* admin requests that create, edit or delete a target
    BatchSize,     \* rows of one rotation batch
    MaxKeys,       \* bound: keys generated, the first one included
    MaxFaults,     \* bound: keyring writes and transactions that fail
    MaxCrashes     \* bound: process deaths

Targets == 1..TargetCount

ASSUME RotationAssumption ==
    /\ TargetCount \in Nat \ {0}
    /\ BatchSize \in Nat \ {0}
    /\ MaxKeys \in Nat \ {0}
    /\ MaxFaults \in Nat
    /\ MaxCrashes \in Nat

VARIABLES
    row,          \* the keys each target's envelopes name, none without a row
    torn,         \* targets with an envelope that the key it names does not open
    gen,          \* configuration_generation, 0 for an id that was never used
    quarantined,  \* targets with an unusable_reason
    rotation,     \* the credential_rotation row: state, new_key_id, last_target_id
    file,         \* the keyring file: active_key_id and keys
    ring,         \* _active_key_id and _keys of the process
    up,           \* the store is open
    job,          \* where the rotation that holds the lock stands
    writer,       \* each request: where it stands, its target, what it encrypted
    minted,       \* keys generated so far
    mark,         \* history: what its keys were worth when a request last wrote the row
    faults, crashes

rowVars == <<row, torn, gen, quarantined, mark>>
boundVars == <<faults, crashes>>
vars == <<rowVars, rotation, file, ring, up, job, writer, minted, boundVars>>

Stored == {t \in Targets : row[t] # {}}
Usable == Stored \ quarantined

\* _decrypt of a row's envelopes succeeds with these keys.
Readable(t, keys) == t \notin torn /\ row[t] \subseteq keys

NoRing == [active |-> 0, keys |-> {}]

Idle == [at |-> "idle", target |-> 1, seen |-> 0, aad |-> 0, keys |-> {}, torn |-> FALSE]
Done == [Idle EXCEPT !.at = "done"]

Init ==
    /\ row \in [Targets -> {{}, {1}}]
    /\ torn = {}
    /\ gen = [t \in Targets |-> IF row[t] = {} THEN 0 ELSE 1]
    /\ quarantined = {}
    /\ rotation = [state |-> "none", to |-> 0, last |-> 0]
    /\ file = [active |-> 1, keys |-> {1}]
    /\ ring = file
    /\ up = TRUE
    /\ job = "idle"
    /\ writer = [w \in Writers |-> Idle]
    /\ minted = 1
    /\ mark = [t \in Targets |-> "current"]
    /\ faults = 0
    /\ crashes = 0

Fault ==
    /\ faults < MaxFaults
    /\ faults' = faults + 1
    /\ UNCHANGED crashes

-----------------------------------------------------------------------------
(* rotate_credential_key, one call: under the lock from here to "idle".    *)

\* Mutant: the new key is made active before it is in the ring.
NewKeyOutside ==
    /\ up /\ job = "idle"
    /\ rotation.state \in {"none", "complete"}
    /\ minted < MaxKeys
    /\ minted' = minted + 1
    /\ ring' = [ring EXCEPT !.active = minted + 1]
    /\ job' = "minted"
    /\ UNCHANGED <<rowVars, rotation, file, up, writer, boundVars>>

\* No rotation yet, or the last one is complete: a new key becomes active.
NewKey ==
    /\ up /\ job = "idle"
    /\ rotation.state \in {"none", "complete"}
    /\ minted < MaxKeys
    /\ minted' = minted + 1
    /\ ring' = [active |-> minted + 1, keys |-> ring.keys \cup {minted + 1}]
    /\ job' = "minted"
    /\ UNCHANGED <<rowVars, rotation, file, up, writer, boundVars>>

\* A rotation is running: the call goes on with its next batch.
Resume ==
    /\ up /\ job = "idle"
    /\ rotation.state = "running"
    /\ job' = "batch"
    /\ UNCHANGED <<rowVars, rotation, file, ring, up, writer, minted, boundVars>>

\* Mutant: the rotation is recorded although its key was not saved.
SaveKeyringLater ==
    /\ job \in {"minted", "dropped"}
    /\ job' = IF job = "minted" THEN "saved" ELSE "idle"
    /\ \/ file' = ring /\ UNCHANGED boundVars
       \/ Fault /\ UNCHANGED file
    /\ UNCHANGED <<rowVars, rotation, ring, up, writer, minted>>

\* _write_keyring replaces the file, or raises and leaves it: the call ends,
\* with the ring as it is.
SaveKeyring ==
    /\ job \in {"minted", "dropped"}
    /\ \/ /\ file' = ring
          /\ job' = IF job = "minted" THEN "saved" ELSE "idle"
          /\ UNCHANGED boundVars
       \/ /\ Fault
          /\ job' = "idle"
          /\ UNCHANGED file
    /\ UNCHANGED <<rowVars, rotation, ring, up, writer, minted>>

\* The credential_rotation row is committed, and the first batch follows.  If
\* the storage raises, the next user of the connection commits or drops it.
StartRotation ==
    /\ job = "saved"
    /\ rotation' \in {rotation, [state |-> "running", to |-> ring.active, last |-> 0]}
    /\ \/ job' = "batch" /\ rotation' # rotation /\ UNCHANGED boundVars
       \/ job' = "idle" /\ Fault
    /\ UNCHANGED <<rowVars, file, ring, up, writer, minted>>

\* Mutant: the cursor steps over a row.
AheadSkipping(last) == {t \in Usable : t > last + 1}

\* Rows the cursor has not reached.
Ahead(last) == {t \in Usable : t > last}

\* The next rows, in the order of their ids.
Batch == {t \in Ahead(rotation.last) :
            Cardinality({u \in Ahead(rotation.last) : u <= t}) <= BatchSize}

Cursor(rows) == IF rows = {} THEN rotation.last ELSE CHOOSE t \in rows : \A u \in rows : u <= t

Reencrypted(rows) ==
    /\ row' = [t \in Targets |-> IF t \in rows THEN {ring.active} ELSE row[t]]
    /\ mark' = [t \in Targets |-> IF t \in rows THEN "current" ELSE mark[t]]
    /\ UNCHANGED <<torn, gen, quarantined>>

Progress ==
    [rotation EXCEPT !.last = Cursor(Batch),
                     !.state = IF Ahead(Cursor(Batch)) = {} THEN "complete" ELSE "running"]

\* The batch and its progress are one transaction.
RotateBatch ==
    /\ job = "batch"
    /\ \A t \in Batch : Readable(t, ring.keys)
    /\ Reencrypted(Batch)
    /\ rotation' = Progress
    /\ job' = IF rotation'.state = "complete" THEN "retire" ELSE "idle"
    /\ UNCHANGED <<file, ring, up, writer, minted, boundVars>>

\* A row that cannot be decrypted, or the storage, raises.  The transaction
\* stays open: what it did so far is committed or rolled back by whoever uses
\* the connection next.
RotateBatchRaises ==
    /\ job = "batch"
    /\ \E done \in SUBSET Batch :
          /\ \A t \in done, u \in Batch : u < t => u \in done
          /\ \A t \in done : Readable(t, ring.keys)
          /\ \/ \E t \in Batch : ~Readable(t, ring.keys) /\ UNCHANGED boundVars
             \/ Fault
          /\ Reencrypted(done)
          /\ rotation' = rotation \/ (done = Batch /\ rotation' = Progress)
    /\ job' = "idle"
    /\ UNCHANGED <<file, ring, up, writer, minted>>

\* Mutant: only the active key is kept.
ReferencedActive == {ring.active}

\* Keys some row's envelopes name, quarantined rows included, and the active one.
Referenced == (UNION {row[t] : t \in Stored}) \cup {ring.active}

\* _retire_unused_keys
RetireKeys ==
    /\ job = "retire"
    /\ ring' = [ring EXCEPT !.keys = @ \cap Referenced]
    /\ job' = IF ring.keys = Referenced THEN "idle" ELSE "dropped"
    /\ UNCHANGED <<rowVars, rotation, file, up, writer, minted, boundVars>>

-----------------------------------------------------------------------------
(* create_target, update_target, delete_target.                            *)

\* _prepare_target_update_sync reads the row under the lock.  A request that
\* gives every secret needs nothing of the old envelopes, so any stored row can
\* be edited.  A target to be created is not looked up.
Prepare(w) ==
    /\ up
    /\ writer[w].at = "idle"
    /\ \E t \in Targets :
          /\ \/ gen[t] = 0
             \/ job = "idle" /\ t \in Stored
          /\ writer' = [writer EXCEPT ![w] = [Idle EXCEPT !.at = "username", !.target = t,
                                                          !.seen = gen[t]]]
    /\ UNCHANGED <<rowVars, rotation, file, ring, up, job, minted, boundVars>>

Envelopes == {"username", "password", "root_ca"}

\* What follows an envelope: a bundle is optional.
After(envelope) ==
    IF envelope = "username" THEN {"password"}
    ELSE IF envelope = "password" THEN {"root_ca", "encrypted"} ELSE {"encrypted"}

\* _encrypt begins, outside the lock: the envelope is bound to the active key.
BindEnvelope(w) ==
    /\ up
    /\ writer[w].at \in Envelopes
    /\ writer[w].aad = 0
    /\ writer' = [writer EXCEPT ![w].aad = ring.active]
    /\ UNCHANGED <<rowVars, rotation, file, ring, up, job, minted, boundVars>>

\* _encrypt ends: it reads the active key again to encrypt and once more to name
\* it.  Before either read a rotation may have changed the key, and what comes of
\* it is the same: an envelope that names the new key and that it does not open.
Encrypt(w) ==
    /\ up
    /\ writer[w].aad # 0
    /\ \E next \in After(writer[w].at) :
          writer' = [writer EXCEPT ![w].at = next,
                                   ![w].aad = 0,
                                   ![w].keys = @ \cup {ring.active},
                                   ![w].torn = @ \/ writer[w].aad # ring.active]
    /\ UNCHANGED <<rowVars, rotation, file, ring, up, job, minted, boundVars>>

Worth(keys) ==
    IF ~(keys \subseteq ring.keys \cap file.keys) THEN "stranded"
    ELSE IF keys # {ring.active} THEN "outdated" ELSE "current"

TornAfter(t, isTorn) == IF isTorn THEN torn \cup {t} ELSE torn \ {t}

\* Mutant: an edit leaves the target's unusable_reason alone.
CommitWriteQuarantined(w) ==
    LET t == writer[w].target
    IN  /\ writer[w].at = "encrypted"
        /\ job = "idle"
        /\ gen[t] = writer[w].seen
        /\ row' = [row EXCEPT ![t] = writer[w].keys]
        /\ torn' = TornAfter(t, writer[w].torn)
        /\ mark' = [mark EXCEPT ![t] = Worth(writer[w].keys)]
        /\ gen' = [gen EXCEPT ![t] = @ + 1]
        /\ writer' = [writer EXCEPT ![w] = Done]
        /\ UNCHANGED <<quarantined, rotation, file, ring, up, job, minted, boundVars>>

\* The row is inserted, or replaced if its generation is the one prepared for.
\* Otherwise, or if another row has its fqdn, the transaction is rolled back.
CommitWrite(w) ==
    LET t == writer[w].target
    IN  /\ writer[w].at = "encrypted"
        /\ job = "idle"
        /\ \/ /\ gen[t] = writer[w].seen
              /\ t \in Stored \/ gen[t] = 0
              /\ row' = [row EXCEPT ![t] = writer[w].keys]
              /\ torn' = TornAfter(t, writer[w].torn)
              /\ mark' = [mark EXCEPT ![t] = Worth(writer[w].keys)]
              /\ gen' = [gen EXCEPT ![t] = @ + 1]
              /\ quarantined' = quarantined \ {t}
           \/ UNCHANGED rowVars
        /\ writer' = [writer EXCEPT ![w] = Done]
        /\ UNCHANGED <<rotation, file, ring, up, job, minted, boundVars>>

Delete(w) ==
    /\ up
    /\ writer[w].at = "idle"
    /\ job = "idle"
    /\ \E t \in Stored :
          /\ row' = [row EXCEPT ![t] = {}]
          /\ torn' = torn \ {t}
          /\ quarantined' = quarantined \ {t}
          /\ writer' = [writer EXCEPT ![w] = Done]
    /\ UNCHANGED <<gen, mark, rotation, file, ring, up, job, minted, boundVars>>

-----------------------------------------------------------------------------
(* The process.                                                            *)

Crash ==
    /\ up
    /\ crashes < MaxCrashes
    /\ crashes' = crashes + 1
    /\ up' = FALSE
    /\ job' = "idle"
    /\ ring' = NoRing
    /\ writer' = [w \in Writers |-> IF writer[w].at = "idle" THEN Idle ELSE Done]
    /\ UNCHANGED <<rowVars, rotation, file, minted, faults>>

\* Keys the keyring keeps when it is loaded: after a completed rotation the
\* retirement is done again.
Kept ==
    IF rotation.state = "complete"
    THEN file.keys \cap ((UNION {row[t] : t \in Stored}) \cup {file.active})
    ELSE file.keys

\* bootstrap: load the keyring, finish a retirement, quarantine the rows that
\* cannot be decrypted, and refuse to open if that is every one of them.
Bootstrap ==
    /\ ~up
    /\ file' = [file EXCEPT !.keys = Kept]
    /\ quarantined' = {t \in Stored : ~Readable(t, Kept)}
    /\ up' = (Stored = {} \/ \E t \in Stored : Readable(t, Kept))
    /\ ring' = IF up' THEN file' ELSE NoRing
    /\ UNCHANGED <<row, torn, gen, mark, rotation, job, writer, minted, boundVars>>

BootstrapFails ==
    /\ ~up
    /\ Kept # file.keys
    /\ Fault
    /\ UNCHANGED <<rowVars, rotation, file, ring, up, job, writer, minted>>

-----------------------------------------------------------------------------
Rotate ==
    \/ NewKey
    \/ Resume
    \/ SaveKeyring
    \/ StartRotation
    \/ RotateBatch
    \/ RotateBatchRaises
    \/ RetireKeys

Writes(w) ==
    \/ Prepare(w)
    \/ BindEnvelope(w)
    \/ Encrypt(w)
    \/ CommitWrite(w)
    \/ Delete(w)

Next ==
    \/ Rotate
    \/ \E w \in Writers : Writes(w)
    \/ Crash
    \/ Bootstrap
    \/ BootstrapFails

Spec == Init /\ [][Next]_vars

-----------------------------------------------------------------------------
(* Properties.                                                             *)

KeyIds == 1..MaxKeys

Requests == [at : Envelopes \cup {"idle", "encrypted", "done"}, target : Targets, seen : Nat,
             aad : {0} \cup KeyIds, keys : SUBSET KeyIds, torn : BOOLEAN]

TypeOK ==
    /\ row \in [Targets -> SUBSET KeyIds]
    /\ torn \subseteq Stored
    /\ gen \in [Targets -> Nat]
    /\ quarantined \subseteq Stored
    /\ rotation \in [state : {"none", "running", "complete"}, to : {0} \cup KeyIds,
                     last : {0} \cup Targets]
    /\ file \in [active : KeyIds, keys : SUBSET KeyIds]
    /\ file.active \in file.keys
    /\ ring \in [active : {0} \cup KeyIds, keys : SUBSET KeyIds]
    /\ IF up THEN ring.active \in ring.keys ELSE ring = NoRing
    /\ up \in BOOLEAN
    /\ job \in {"idle", "minted", "saved", "batch", "retire", "dropped"}
    /\ writer \in [Writers -> Requests]
    /\ \A w \in Writers : writer[w].torn => writer[w].keys # {}
    /\ minted \in KeyIds
    /\ mark \in [Targets -> {"current", "outdated", "stranded"}]
    /\ faults \in 0..MaxFaults
    /\ crashes \in 0..MaxCrashes

\* A row that was committed under keys both the process and its file held keeps
\* them for good, through batches, retirements, failed keyring writes and restarts:
\* unless one of its envelopes was torn when it was encrypted, it stays readable.
WrittenRowsKeepTheirKeys ==
    \A t \in Stored : mark[t] # "stranded" =>
        row[t] \subseteq file.keys /\ (up => row[t] \subseteq ring.keys)

\* The rotation in the database and the keyring file agree whenever a crash
\* may come: a running rotation finds its new key active after a restart.
RunningRotationHasItsKey ==
    rotation.state = "running" =>
        file.active = rotation.to /\ (up => ring.active = rotation.to)

\* When old keys are retired every usable row is under the new key, but for
\* rows that a request wrote late under an older one.
CompletionMovedEveryRow ==
    job = "retire" => \A t \in Usable : mark[t] = "current" => row[t] = {ring.active}

\* Quarantine is never a false alarm: what is left of the keys cannot read the row,
\* and a row that an edit made readable again is out of it.
QuarantineIsFinal == \A t \in quarantined : ~Readable(t, file.keys)

\* "Removal is a separate step, refused while any row references the key": every
\* key that a row names is held.
ReferencedKeysAreHeld == up => \A t \in Stored : row[t] \subseteq ring.keys
=============================================================================
