--------------------------- MODULE PackActivation ---------------------------
(***************************************************************************)
(* PackTrustManager and what startup makes of its files: the staged, the   *)
(* active and the retained packs of one backend, admin requests that       *)
(* upload, confirm and roll back packs or change the settings these depend *)
(* on, storage that fails and a process that stops anywhere.               *)
(*                                                                         *)
(* Grain: every request runs in a thread of its own and nothing keeps two  *)
(* of them apart, so one action is one change of a file (a write replaces  *)
(* the file atomically) or one database transaction.  Bytes are the pack   *)
(* they hold; a signature file is the pack it signs.                       *)
(***************************************************************************)
EXTENDS Naturals, FiniteSets

CONSTANTS
    Packs,         \* pack files an operator may have, official or not
    SignedPacks,   \* those the release workflow signed
    VersionOf,     \* the version every pack declares
    None,          \* a file that does not exist
    Requests,      \* admin requests that run at the same time
    MaxRequests,   \* bound: requests in all
    MaxFaults,     \* bound: file operations that raise OSError
    MaxStops       \* bound: crashes and operator restarts

Versions == {VersionOf[p] : p \in Packs}

ASSUME PackAssumption ==
    /\ SignedPacks \subseteq Packs
    /\ VersionOf \in [Packs -> Versions]
    /\ None \notin Packs
    /\ MaxRequests \in Nat
    /\ MaxFaults \in Nat
    /\ MaxStops \in Nat

VARIABLES
    staged,     \* staged/<backend>.json and its .sigstore.json and .oci.tar
    active,     \* active/<backend>.*
    retained,   \* retained/<backend>/<version>.* of every version
    allowed,    \* setting unsigned_packs_allowed
    trusted,    \* setting all_active_packs_trusted
    restart,    \* setting restart_required
    actions,    \* some target permits actions
    edit,       \* a target edit that enables actions: idle, or trust was checked
    request,    \* what each admin request is doing
    up,         \* the process runs
    serving,    \* what the startup-frozen endpoint serves
    reviewed,   \* history: packs whose digest an operator confirmed
    requests, faults, stops

fileVars == <<staged, active, retained>>
settingVars == <<allowed, trusted, restart, actions, edit>>
processVars == <<up, serving, stops>>
vars == <<fileVars, settingVars, request, processVars, reviewed, requests, faults>>

Files == Packs \cup {None}

Slots == [pack : Files, bundle : Files, oci : Files]

NoFiles == [pack |-> None, bundle |-> None, oci |-> None]

\* The kind of signature a slot carries; a bundle is looked for first.
SignatureOf(s) ==
    IF s.bundle # None THEN "bundle" ELSE IF s.oci # None THEN "oci" ELSE "none"

Conflicting(s) == s.bundle # None /\ s.oci # None

\* _verify_signature, or _verify_oci_archive and the comparison of its payload
\* with these bytes, for a slot that carries one signature.
Genuine(s, bytes) ==
    /\ SignatureOf(s) # "none"
    /\ ~Conflicting(s)
    /\ s.bundle \in {None, s.pack}
    /\ s.oci \in {None, bytes}

\* _refuse_unsigned_if_unsafe lets an unsigned pack pass.
UnsignedIsSafe == allowed /\ ~actions

Accepted(s, bytes) == Genuine(s, bytes) \/ (SignatureOf(s) = "none" /\ UnsignedIsSafe)

\* Writing the signature of a kind, or removing the bundle of an unsigned pack,
\* and then removing what the other kind may have left behind.
WithSignature(s, kind, signature) ==
    IF kind = "none" THEN [s EXCEPT !.bundle = None] ELSE [s EXCEPT ![kind] = signature]

OtherCleared(s, kind) ==
    IF kind = "oci" THEN [s EXCEPT !.bundle = None] ELSE [s EXCEPT !.oci = None]

Free == [at |-> "free", source |-> "upload", pack |-> None, kind |-> "none",
         version |-> None, kept |-> None, keptKind |-> "none", alone |-> TRUE]

Builtin == [state |-> "builtin", pack |-> None]
Withheld == [state |-> "withheld", pack |-> None]

\* Nothing was ever installed, or a signed pack is active and served.
Init ==
    /\ staged = NoFiles
    /\ active \in {NoFiles} \cup {[pack |-> p, bundle |-> p, oci |-> None] : p \in SignedPacks}
    /\ retained = [v \in Versions |-> NoFiles]
    /\ allowed \in BOOLEAN
    /\ trusted = TRUE
    /\ restart = FALSE
    /\ actions \in BOOLEAN
    /\ edit = "idle"
    /\ request = [r \in Requests |-> Free]
    /\ up = TRUE
    /\ serving = IF active.pack = None THEN Builtin ELSE [state |-> "signed", pack |-> active.pack]
    /\ reviewed = {active.pack} \ {None}
    /\ requests = 0
    /\ faults = 0
    /\ stops = 0

-----------------------------------------------------------------------------
(* Requests.                                                               *)

Busy == {r \in Requests : request[r].at # "free"}

\* A request takes a thread; it is alone as long as no other one runs.
Start(r, job) ==
    /\ up
    /\ r \notin Busy
    /\ requests < MaxRequests
    /\ requests' = requests + 1
    /\ request' = [q \in Requests |->
                     IF q = r THEN [job EXCEPT !.alone = (Busy = {})]
                     ELSE [request[q] EXCEPT !.alone = FALSE]]

Go(r, at) == request' = [request EXCEPT ![r].at = at]

Leave(r) == request' = [request EXCEPT ![r] = Free]

\* The slot the request activates from.
SourceOf(r) ==
    IF request[r].source = "staged" THEN staged ELSE retained[request[r].version]

\* The candidate was verified in a temporary directory and is to be staged.
Upload(r, p, kind) ==
    /\ Start(r, [Free EXCEPT !.at = "stage", !.pack = p, !.kind = kind])
    /\ UNCHANGED <<fileVars, settingVars, processVars, reviewed, faults>>

\* _install_manual_sync, with or without a bundle.
InstallManual(r, p) ==
    \/ UnsignedIsSafe /\ Upload(r, p, "none")
    \/ p \in SignedPacks /\ Upload(r, p, "bundle")

\* _install_from_registry_sync, whose layout is always signed.
InstallFromRegistry(r, p) == p \in SignedPacks /\ Upload(r, p, "oci")

\* _stage_candidate.
Stage(r) ==
    /\ request[r].at = "stage"
    /\ staged' = [staged EXCEPT !.pack = request[r].pack]
    /\ Go(r, "stage signature")
    /\ UNCHANGED <<active, retained, settingVars, processVars, reviewed, requests, faults>>

StageSignature(r) ==
    /\ request[r].at = "stage signature"
    /\ staged' = WithSignature(staged, request[r].kind, request[r].pack)
    /\ Go(r, "stage other")
    /\ UNCHANGED <<active, retained, settingVars, processVars, reviewed, requests, faults>>

StageOther(r) ==
    /\ request[r].at = "stage other"
    /\ staged' = OtherCleared(staged, request[r].kind)
    /\ Leave(r)
    /\ UNCHANGED <<active, retained, settingVars, processVars, reviewed, requests, faults>>

\* _install_staged_sync reads bytes that still have the digest the operator saw.
Confirm(r) ==
    /\ staged.pack # None
    /\ Start(r, [Free EXCEPT !.at = "verify", !.source = "staged", !.pack = staged.pack])
    /\ reviewed' = reviewed \cup {staged.pack}
    /\ UNCHANGED <<fileVars, settingVars, processVars, faults>>

\* _rollback_sync finds the retained version.
Rollback(r, v) ==
    /\ retained[v].pack # None
    /\ Start(r, [Free EXCEPT !.at = "verify", !.source = "retained", !.version = v])
    /\ UNCHANGED <<fileVars, settingVars, processVars, reviewed, faults>>

\* Confirmation compares a signed archive with the bytes it read, a rollback
\* with the file.
Verify(r) ==
    LET bytes == IF request[r].source = "staged" THEN request[r].pack ELSE SourceOf(r).pack
    IN  /\ request[r].at = "verify"
        /\ Accepted(SourceOf(r), bytes)
        /\ Go(r, "load")
        /\ UNCHANGED <<fileVars, settingVars, processVars, reviewed, requests, faults>>

Refused(r) ==
    LET bytes == IF request[r].source = "staged" THEN request[r].pack ELSE SourceOf(r).pack
    IN  /\ request[r].at = "verify"
        /\ ~Accepted(SourceOf(r), bytes)
        /\ Leave(r)
        /\ UNCHANGED <<fileVars, settingVars, processVars, reviewed, requests, faults>>

\* The bytes to activate are those of the pack that is loaded now.
Loaded(r, p) ==
    /\ request' = [request EXCEPT ![r].at = "retain", ![r].pack = p,
                                  ![r].kind = SignatureOf(SourceOf(r))]
    /\ UNCHANGED <<fileVars, settingVars, processVars, reviewed, requests, faults>>

\* Broken variant: the digest of the loaded file is not compared.
LoadUnchecked(r) == request[r].at = "load" /\ Loaded(r, SourceOf(r).pack)

Load(r) ==
    /\ request[r].at = "load"
    /\ SourceOf(r).pack # None
    /\ request[r].source = "staged" => SourceOf(r).pack = request[r].pack
    /\ Loaded(r, SourceOf(r).pack)

\* "verified pack changed before activation", or the file is gone.
LoadFails(r) ==
    /\ request[r].at = "load"
    /\ request[r].source = "staged"
    /\ staged.pack # request[r].pack
    /\ Leave(r)
    /\ UNCHANGED <<fileVars, settingVars, processVars, reviewed, requests, faults>>

ActiveVerifies ==
    active.pack # None /\ (SignatureOf(active) = "none" \/ Genuine(active, active.pack))

\* _retain_current keeps what is active under its version, unless it does not
\* verify.  It swallows that cosign fails or does not answer in time, too: then
\* nothing is retained and the activation goes on.
Retain(r) ==
    /\ request[r].at = "retain"
    /\ \/ /\ ActiveVerifies
          /\ request' = [request EXCEPT ![r].at = "retain pack",
                                        ![r].kept = VersionOf[active.pack]]
          /\ UNCHANGED faults
       \/ ~ActiveVerifies /\ Go(r, "activate") /\ UNCHANGED faults
       \/ /\ ActiveVerifies /\ SignatureOf(active) # "none"
          /\ faults < MaxFaults
          /\ faults' = faults + 1
          /\ Go(r, "activate")
    /\ UNCHANGED <<fileVars, settingVars, processVars, reviewed, requests>>

RetainPack(r) ==
    /\ request[r].at = "retain pack"
    /\ retained' = [retained EXCEPT ![request[r].kept].pack = active.pack]
    /\ Go(r, "retain signature")
    /\ UNCHANGED <<staged, active, settingVars, processVars, reviewed, requests, faults>>

RetainSignature(r) ==
    LET kind == SignatureOf(active)
        signature == IF kind = "none" THEN None ELSE active[kind]
    IN  /\ request[r].at = "retain signature"
        /\ retained' = [retained EXCEPT ![request[r].kept] = WithSignature(@, kind, signature)]
        /\ request' = [request EXCEPT ![r].at = "retain other", ![r].keptKind = kind]
        /\ UNCHANGED <<staged, active, settingVars, processVars, reviewed, requests, faults>>

\* The code looks for the archive only after it has kept a bundle: one that has
\* appeared since is kept instead.
RetainOther(r) ==
    LET late == request[r].keptKind = "bundle" /\ active.oci # None
        v == request[r].kept
    IN  /\ request[r].at = "retain other"
        /\ retained' = [retained EXCEPT ![v] =
                          IF late THEN [@ EXCEPT !.oci = active.oci, !.bundle = None]
                          ELSE OtherCleared(@, request[r].keptKind)]
        /\ Go(r, "activate")
        /\ UNCHANGED <<staged, active, settingVars, processVars, reviewed, requests, faults>>

\* _activate_candidate.
\* Broken variant: the source is read again.
ActivateRereads(r) ==
    /\ request[r].at = "activate"
    /\ active' = [active EXCEPT !.pack = SourceOf(r).pack]
    /\ Go(r, "sign")
    /\ UNCHANGED <<staged, retained, settingVars, processVars, reviewed, requests, faults>>

Activate(r) ==
    /\ request[r].at = "activate"
    /\ active' = [active EXCEPT !.pack = request[r].pack]
    /\ Go(r, "sign")
    /\ UNCHANGED <<staged, retained, settingVars, processVars, reviewed, requests, faults>>

Sign(r) ==
    LET kind == request[r].kind
    IN  /\ request[r].at = "sign"
        /\ kind # "none" => SourceOf(r)[kind] # None
        /\ active' = WithSignature(active, kind, IF kind = "none" THEN None ELSE SourceOf(r)[kind])
        /\ Go(r, "clear")
        /\ UNCHANGED <<staged, retained, settingVars, processVars, reviewed, requests, faults>>

\* The signature that was there when the pack was loaded has been removed.
SignFails(r) ==
    /\ request[r].at = "sign"
    /\ request[r].kind # "none"
    /\ SourceOf(r)[request[r].kind] = None
    /\ Leave(r)
    /\ UNCHANGED <<fileVars, settingVars, processVars, reviewed, requests, faults>>

\* Broken variant: the signature of the other kind stays.
ClearNothing(r) ==
    /\ request[r].at = "clear"
    /\ Go(r, IF request[r].kind = "none" THEN "distrust" ELSE "announce")
    /\ UNCHANGED <<fileVars, settingVars, processVars, reviewed, requests, faults>>

Clear(r) ==
    /\ request[r].at = "clear"
    /\ active' = OtherCleared(active, request[r].kind)
    /\ Go(r, IF request[r].kind = "none" THEN "distrust" ELSE "announce")
    /\ UNCHANGED <<staged, retained, settingVars, processVars, reviewed, requests, faults>>

Distrust(r) ==
    /\ request[r].at = "distrust"
    /\ trusted' = FALSE
    /\ Go(r, "announce")
    /\ UNCHANGED <<fileVars, allowed, restart, actions, edit, processVars, reviewed, requests,
                   faults>>

\* A rollback is over; a confirmation removes what was staged.
Announce(r) ==
    /\ request[r].at = "announce"
    /\ restart' = TRUE
    /\ IF request[r].source = "staged" THEN Go(r, "unlink") ELSE Leave(r)
    /\ UNCHANGED <<fileVars, allowed, trusted, actions, edit, processVars, reviewed, requests,
                   faults>>

Unlink(r) ==
    /\ request[r].at = "unlink"
    /\ staged' = [staged EXCEPT !.pack = None]
    /\ IF staged.pack = None THEN Leave(r) ELSE Go(r, "unlink signatures")
    /\ UNCHANGED <<active, retained, settingVars, processVars, reviewed, requests, faults>>

UnlinkSignatures(r) ==
    /\ request[r].at = "unlink signatures"
    /\ staged' = [staged EXCEPT !.bundle = None, !.oci = None]
    /\ Leave(r)
    /\ UNCHANGED <<active, retained, settingVars, processVars, reviewed, requests, faults>>

\* A file operation or a verification raises and the request gives up.
Fails(r) ==
    /\ r \in Busy
    /\ faults < MaxFaults
    /\ faults' = faults + 1
    /\ Leave(r)
    /\ UNCHANGED <<fileVars, settingVars, processVars, reviewed, requests>>

-----------------------------------------------------------------------------
(* Settings and posture.                                                   *)

\* set_unsigned_packs_allowed.
SetPolicy(wanted) ==
    /\ up
    /\ wanted => ~actions
    /\ allowed' = wanted
    /\ UNCHANGED <<fileVars, trusted, restart, actions, edit, request, processVars, reviewed,
                   requests, faults>>

\* update_target checks pack trust before the transaction that stores the posture.
CheckTrust ==
    /\ up
    /\ edit = "idle"
    /\ trusted
    /\ edit' = "checked"
    /\ UNCHANGED <<fileVars, allowed, trusted, restart, actions, request, processVars, reviewed,
                   requests, faults>>

EnableActions ==
    /\ edit = "checked"
    /\ edit' = "idle"
    /\ actions' = TRUE
    /\ UNCHANGED <<fileVars, allowed, trusted, restart, request, processVars, reviewed, requests,
                   faults>>

DisableActions ==
    /\ up
    /\ actions
    /\ actions' = FALSE
    /\ UNCHANGED <<fileVars, allowed, trusted, restart, edit, request, processVars, reviewed,
                   requests, faults>>

-----------------------------------------------------------------------------
(* The process.                                                            *)

\* It is killed, or asked to restart: its threads end wherever they are.
Stop ==
    /\ up
    /\ stops < MaxStops
    /\ stops' = stops + 1
    /\ up' = FALSE
    /\ serving' = Withheld
    /\ request' = [r \in Requests |-> Free]
    /\ edit' = "idle"
    /\ UNCHANGED <<fileVars, allowed, trusted, restart, actions, reviewed, requests, faults>>

\* verify_active_at_startup decides, load_backend_packs loads, and what was
\* refused withholds the MCP surface but not the admin site.
Decision ==
    IF active.pack = None THEN Builtin
    ELSE IF ~Accepted(active, active.pack) THEN Withheld
    ELSE [state |-> IF SignatureOf(active) = "none" THEN "unsigned" ELSE "signed",
          pack |-> active.pack]

\* Broken variant: trust is left as it was.
BootKeepsTrust ==
    /\ ~up
    /\ up' = TRUE
    /\ serving' = Decision
    /\ restart' = (restart /\ Decision = Withheld)
    /\ UNCHANGED <<fileVars, allowed, trusted, actions, edit, request, stops, reviewed, requests,
                   faults>>

Boot ==
    /\ ~up
    /\ up' = TRUE
    /\ serving' = Decision
    /\ trusted' = (Decision.state \in {"builtin", "signed"})
    /\ restart' = (restart /\ Decision = Withheld)
    /\ UNCHANGED <<fileVars, allowed, actions, edit, request, stops, reviewed, requests, faults>>

-----------------------------------------------------------------------------
Step(r) ==
    \/ Stage(r) \/ StageSignature(r) \/ StageOther(r)
    \/ Verify(r) \/ Refused(r) \/ Load(r) \/ LoadFails(r)
    \/ Retain(r) \/ RetainPack(r) \/ RetainSignature(r) \/ RetainOther(r)
    \/ Activate(r) \/ Sign(r) \/ SignFails(r) \/ Clear(r) \/ Distrust(r) \/ Announce(r)
    \/ Unlink(r) \/ UnlinkSignatures(r)
    \/ Fails(r)

Installs(r) == \E p \in Packs : InstallManual(r, p) \/ InstallFromRegistry(r, p)

RollsBack(r) == \E v \in Versions : Rollback(r, v)

Policies == \E wanted \in BOOLEAN : SetPolicy(wanted)

Next ==
    \/ \E r \in Requests :
          Installs(r) \/ Confirm(r) \/ RollsBack(r) \/ Step(r)
    \/ Policies
    \/ CheckTrust
    \/ EnableActions
    \/ DisableActions
    \/ Stop
    \/ Boot

Spec == Init /\ [][Next]_vars

-----------------------------------------------------------------------------
(* Properties.                                                             *)

Places == {"free", "stage", "stage signature", "stage other", "verify", "load", "retain",
           "retain pack", "retain signature", "retain other", "activate",
           "sign", "clear", "distrust", "announce", "unlink", "unlink signatures"}

\* Places of a request that has loaded the pack it is going to activate.
Activating == {"retain", "retain pack", "retain signature", "retain other",
               "activate", "sign", "clear", "distrust", "announce", "unlink", "unlink signatures"}

Kinds == {"none", "bundle", "oci"}

Jobs == [at : Places, source : {"upload", "staged", "retained"}, pack : Files, kind : Kinds,
         version : Versions \cup {None}, kept : Versions \cup {None}, keptKind : Kinds,
         alone : BOOLEAN]

States == [state : {"builtin", "withheld", "signed", "unsigned"}, pack : Files]

TypeOK ==
    /\ staged \in Slots
    /\ active \in Slots
    /\ retained \in [Versions -> Slots]
    /\ allowed \in BOOLEAN /\ trusted \in BOOLEAN /\ restart \in BOOLEAN /\ actions \in BOOLEAN
    /\ edit \in {"idle", "checked"}
    /\ request \in [Requests -> Jobs]
    /\ \A r \in Requests : request[r].at \in Activating => request[r].pack # None
    /\ up \in BOOLEAN
    /\ serving \in States
    /\ reviewed \subseteq Packs

\* "unsigned install ... cannot coexist with action-enabled targets": whatever
\* the files, the policy and the posture went through, an unsigned pack never
\* serves while a target permits actions.
UnsignedServesNoActions == serving.state = "unsigned" => ~actions

\* Whatever serves, freshly installed or rolled back to, is a pack whose very
\* bytes an operator confirmed, however uploads, confirmations and restarts
\* interleave.
ServesOnlyReviewed == serving.pack # None => serving.pack \in reviewed

\* A confirmation that ran alone and came to its end, or a rollback to a version
\* it did not itself replace in the retained directory, leaves a pack with exactly
\* the signature it was verified with, whatever an earlier crash had left behind,
\* announces the restart and withdraws trust from an unsigned pack: the next
\* startup serves it.
UndisturbedActivationIsWhole ==
    [][\A r \in Requests :
         LET done == /\ request[r].alone /\ request[r].at = "announce"
                     /\ request[r].source = "retained" => request[r].kept # request[r].version
                     /\ request'[r].at # "announce" /\ up' /\ faults' = faults
         IN  done => /\ active.pack = request[r].pack
                     /\ IF request[r].kind = "none" THEN SignatureOf(active) = "none" /\ ~trusted
                        ELSE Genuine(active, active.pack)
                     /\ restart']_vars
=============================================================================
