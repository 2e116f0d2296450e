----------------------- MODULE PackActivation_proofs -----------------------
(***************************************************************************)
(* Proofs about PackActivation, for any packs, versions and requests, and  *)
(* any number of faults and restarts.                                      *)
(***************************************************************************)
EXTENDS PackActivation, TLAPS

\* What the signature helpers return, and that they leave the pack alone.
LEMMA SignatureType ==
  ASSUME NEW s \in Slots
  PROVE  SignatureOf(s) \in Kinds
  BY DEF Kinds, SignatureOf

LEMMA FileType ==
  ASSUME NEW s \in Slots, NEW kind \in Kinds, kind # "none"
  PROVE  s[kind] \in Files
  BY DEF Kinds, Slots

LEMMA WithType ==
  ASSUME NEW s \in Slots, NEW kind \in Kinds, NEW signature \in Files
  PROVE  /\ WithSignature(s, kind, signature) \in Slots
         /\ WithSignature(s, kind, signature).pack = s.pack
<1>1. CASE kind = "none"
  BY <1>1 DEF Slots, Files, WithSignature
<1>2. CASE kind = "bundle"
  BY <1>2 DEF Slots, Files, WithSignature
<1>3. CASE kind = "oci"
  BY <1>3 DEF Slots, Files, WithSignature
<1> QED
  BY <1>1, <1>2, <1>3 DEF Kinds

LEMMA ClearedType ==
  ASSUME NEW s \in Slots, NEW kind \in Kinds
  PROVE  /\ OtherCleared(s, kind) \in Slots
         /\ OtherCleared(s, kind).pack = s.pack
<1>1. CASE kind = "oci"
  BY <1>1 DEF Slots, Files, OtherCleared
<1>2. CASE kind # "oci"
  BY <1>2 DEF Slots, Files, OtherCleared
<1> QED
  BY <1>1, <1>2

\* What starting, moving and ending a request make of the jobs.
LEMMA GoType ==
  ASSUME request \in [Requests -> Jobs], NEW r \in Requests, NEW at \in Places, Go(r, at)
  PROVE  /\ request' \in [Requests -> Jobs]
         /\ request'[r] = [request[r] EXCEPT !.at = at]
         /\ \A q \in Requests \ {r} : request'[q] = request[q]
<1>1. [request[r] EXCEPT !.at = at] \in Jobs
  BY DEF Jobs
<1> QED
  BY <1>1 DEF Go

LEMMA LeaveType ==
  ASSUME request \in [Requests -> Jobs], NEW r \in Requests, Leave(r)
  PROVE  /\ request' \in [Requests -> Jobs]
         /\ request'[r] = Free
         /\ \A q \in Requests \ {r} : request'[q] = request[q]
<1>1. Free \in Jobs
  BY DEF Free, Jobs, Places, Files, Kinds
<1> QED
  BY <1>1 DEF Leave

LEMMA StartType ==
  ASSUME request \in [Requests -> Jobs], NEW r \in Requests, NEW job \in Jobs, Start(r, job)
  PROVE  /\ request' \in [Requests -> Jobs]
         /\ request'[r] = [job EXCEPT !.alone = (Busy = {})]
         /\ \A q \in Requests \ {r} : request'[q] = [request[q] EXCEPT !.alone = FALSE]
<1> DEFINE new == [job EXCEPT !.alone = (Busy = {})]
<1>1. new \in Jobs
  <2>1. (Busy = {}) \in BOOLEAN
    OBVIOUS
  <2> QED
    BY <2>1 DEF Jobs
<1>2. \A q \in Requests : [request[q] EXCEPT !.alone = FALSE] \in Jobs
  BY DEF Jobs
<1> HIDE DEF new
<1>3. request' = [q \in Requests |-> IF q = r THEN new ELSE [request[q] EXCEPT !.alone = FALSE]]
  BY DEF Start, new
<1> QED
  BY <1>1, <1>2, <1>3 DEF new

-----------------------------------------------------------------------------
\* What a request holds: a staged pack that is being confirmed was reviewed, a
\* rollback has a version, and the pack it loaded was reviewed.
Holds(job, seen) ==
    /\ job.at \in {"verify", "load"} \cup Activating => job.source # "upload"
    /\ job.source = "staged" => job.pack \in seen
    /\ job.source = "retained" => job.pack \in seen \cup {None} /\ job.version \in Versions
    /\ job.at \in Activating => job.pack # None

JobsOK ==
    /\ request \in [Requests -> Jobs]
    /\ \A r \in Requests : Holds(request[r], reviewed)

\* Every pack that left the staging directory was reviewed.
FilesOK ==
    /\ staged \in Slots
    /\ active \in Slots /\ active.pack \in reviewed \cup {None}
    /\ retained \in [Versions -> Slots]
    /\ \A v \in Versions : retained[v].pack \in reviewed \cup {None}
    /\ reviewed \subseteq Packs

\* Unsigned packs serve only with trust withdrawn, and then no edit is past its
\* check of it.
ProcessOK ==
    /\ allowed \in BOOLEAN /\ trusted \in BOOLEAN /\ restart \in BOOLEAN /\ actions \in BOOLEAN
    /\ edit \in {"idle", "checked"}
    /\ up \in BOOLEAN
    /\ ~up => edit = "idle"
    /\ serving \in States
    /\ serving.pack \in reviewed \cup {None}
    /\ serving.state = "unsigned" => ~trusted /\ edit = "idle" /\ ~actions

PackInv == JobsOK /\ FilesOK /\ ProcessOK

\* The invariant holds initially.
LEMMA InitInv == Init => PackInv
<1> SUFFICES ASSUME Init PROVE PackInv
  OBVIOUS
<1>1. active \in Slots
  BY PackAssumption DEF Init, Slots, Files, NoFiles
<1>2. serving \in States
  BY <1>1 DEF Init, Builtin, Slots, Files, States
<1>3. reviewed \subseteq Packs
  BY <1>1 DEF Init, Slots, Files
<1>4. request \in [Requests -> Jobs]
  BY DEF Init, Free, Places, Files, Jobs, Kinds
<1>5. staged \in Slots /\ retained \in [Versions -> Slots]
  BY DEF Init, Slots, NoFiles, Files
<1>6. JobsOK
  BY <1>4 DEF JobsOK, Holds, Init, Free, Activating
<1>7. FilesOK
  BY <1>1, <1>3, <1>5 DEF FilesOK, Init, NoFiles
<1>8. ProcessOK
  BY <1>2 DEF ProcessOK, Init, Builtin
<1> QED
  BY <1>6, <1>7, <1>8 DEF PackInv

\* Where places belong.
LEMMA PlaceFacts ==
  /\ {"verify", "load"} \cup Activating \subseteq Places
  /\ {"free", "stage", "stage signature", "stage other"} \subseteq Places
  /\ {"stage", "stage signature", "stage other"} \cap ({"verify", "load"} \cup Activating) = {}
  /\ "load" \notin Activating
  /\ {"retain", "retain pack", "retain signature", "retain other", "activate", "sign", "clear",
      "distrust", "announce", "unlink", "unlink signatures"} \subseteq Activating
  BY DEF Places, Activating

\* Moving, leaving, starting and changing a request keep what requests hold.
LEMMA GoHolds ==
  ASSUME JobsOK, NEW r \in Requests, NEW at \in Places, Go(r, at), reviewed' = reviewed,
         at \in {"verify", "load"} \cup Activating => request[r].source # "upload",
         at \in Activating => request[r].pack # None
  PROVE  JobsOK'
<1> DEFINE job == [request[r] EXCEPT !.at = at]
<1>1. /\ request' \in [Requests -> Jobs]
      /\ request'[r] = job
      /\ \A q \in Requests \ {r} : request'[q] = request[q]
  BY GoType DEF JobsOK
<1>2. request[r] \in Jobs /\ Holds(request[r], reviewed)
  BY DEF JobsOK
<1>3. /\ job.at = at /\ job.source = request[r].source
      /\ job.pack = request[r].pack /\ job.version = request[r].version
  BY <1>2 DEF Jobs
<1>4. Holds(job, reviewed)
  BY <1>2, <1>3 DEF Holds
<1> QED
  BY <1>1, <1>4 DEF JobsOK

LEMMA LeaveHolds ==
  ASSUME JobsOK, NEW r \in Requests, Leave(r), reviewed' = reviewed
  PROVE  JobsOK'
<1>1. /\ request' \in [Requests -> Jobs]
      /\ request'[r] = Free
      /\ \A q \in Requests \ {r} : request'[q] = request[q]
  BY LeaveType DEF JobsOK
<1>2. Holds(Free, reviewed)
  BY DEF Holds, Free, Activating
<1> QED
  BY <1>1, <1>2 DEF JobsOK

LEMMA StartHolds ==
  ASSUME JobsOK, NEW r \in Requests, NEW job \in Jobs, Start(r, job),
         reviewed \subseteq reviewed', Holds(job, reviewed')
  PROVE  JobsOK'
<1>1. /\ request' \in [Requests -> Jobs]
      /\ request'[r] = [job EXCEPT !.alone = (Busy = {})]
      /\ \A q \in Requests \ {r} : request'[q] = [request[q] EXCEPT !.alone = FALSE]
  BY StartType DEF JobsOK
<1>2. ASSUME NEW other \in Jobs, NEW alone, Holds(other, reviewed')
      PROVE  Holds([other EXCEPT !.alone = alone], reviewed')
  BY <1>2 DEF Holds, Jobs
<1>3. ASSUME NEW q \in Requests PROVE Holds(request[q], reviewed')
  <2>1. Holds(request[q], reviewed)
    BY DEF JobsOK
  <2> QED
    BY <2>1 DEF Holds
<1>4. \A q \in Requests : request[q] \in Jobs
  BY DEF JobsOK
<1>5. Holds(request'[r], reviewed')
  BY <1>1, <1>2
<1>6. \A q \in Requests \ {r} : Holds(request'[q], reviewed')
  <2> SUFFICES ASSUME NEW q \in Requests \ {r} PROVE Holds(request'[q], reviewed')
    OBVIOUS
  <2>1. request'[q] = [request[q] EXCEPT !.alone = FALSE]
    BY <1>1
  <2>2. request[q] \in Jobs /\ Holds(request[q], reviewed')
    BY <1>3, <1>4
  <2>3. Holds([request[q] EXCEPT !.alone = FALSE], reviewed')
    BY <2>2, <1>2
  <2> QED
    BY <2>1, <2>3
<1> QED
  BY <1>1, <1>5, <1>6 DEF JobsOK

LEMMA SetHolds ==
  ASSUME JobsOK, NEW r \in Requests, NEW job \in Jobs, Holds(job, reviewed),
         request' = [request EXCEPT ![r] = job], reviewed' = reviewed
  PROVE  JobsOK'
  BY DEF JobsOK

LEMMA KeepHolds ==
  ASSUME JobsOK, request' = request, reviewed' = reviewed
  PROVE  JobsOK'
  BY DEF JobsOK

\* Every step keeps what requests hold.
LEMMA JobsStep == PackInv /\ [Next]_vars => JobsOK'
<1> SUFFICES ASSUME PackInv, [Next]_vars PROVE JobsOK'
  OBVIOUS
<1> PackAssumption
  BY PackAssumption
<1> JobsOK /\ FilesOK /\ ProcessOK
  BY DEF PackInv
<1> USE DEF fileVars, settingVars, processVars
<1>1. ASSUME NEW r \in Requests, NEW p \in Packs, NEW kind \in Kinds, Upload(r, p, kind)
      PROVE  JobsOK'
  <2> DEFINE job == [Free EXCEPT !.at = "stage", !.pack = p, !.kind = kind]
  <2>1. job \in Jobs
    BY PlaceFacts DEF Free, Jobs, Files, Kinds, FilesOK, Slots
  <2>2. reviewed \subseteq reviewed' /\ Holds(job, reviewed')
    BY <1>1 DEF Upload, Holds, Free, Activating
  <2>3. Start(r, job)
    BY <1>1 DEF Upload
  <2> QED
    BY <2>1, <2>2, <2>3, StartHolds
<1>2. ASSUME NEW r \in Requests, Confirm(r) PROVE JobsOK'
  <2> DEFINE job == [Free EXCEPT !.at = "verify", !.source = "staged", !.pack = staged.pack]
  <2>1. job \in Jobs
    BY PlaceFacts DEF Free, Jobs, Files, Kinds, FilesOK, Slots
  <2>2. reviewed \subseteq reviewed' /\ Holds(job, reviewed')
    BY <1>2 DEF Confirm, Holds, Free, Activating
  <2>3. Start(r, job)
    BY <1>2 DEF Confirm
  <2> QED
    BY <2>1, <2>2, <2>3, StartHolds
<1>3. ASSUME NEW r \in Requests, NEW v \in Versions, Rollback(r, v) PROVE JobsOK'
  <2> DEFINE job == [Free EXCEPT !.at = "verify", !.source = "retained", !.version = v]
  <2>1. job \in Jobs
    BY PlaceFacts DEF Free, Jobs, Files, Kinds, FilesOK, Slots
  <2>2. reviewed \subseteq reviewed' /\ Holds(job, reviewed')
    BY <1>3 DEF Rollback, Holds, Free, Activating
  <2>3. Start(r, job)
    BY <1>3 DEF Rollback
  <2> QED
    BY <2>1, <2>2, <2>3, StartHolds
<1>4. ASSUME NEW r \in Requests, Stage(r) PROVE JobsOK'
  BY <1>4, GoHolds, PlaceFacts DEF Stage
<1>5. ASSUME NEW r \in Requests, StageSignature(r) PROVE JobsOK'
  BY <1>5, GoHolds, PlaceFacts DEF StageSignature
<1>6. ASSUME NEW r \in Requests, StageOther(r) PROVE JobsOK'
  BY <1>6, LeaveHolds DEF StageOther
<1>7. ASSUME NEW r \in Requests, Verify(r) PROVE JobsOK'
  <2>1. request[r].source # "upload"
    BY <1>7 DEF JobsOK, Holds, Verify
  <2> QED
    BY <1>7, <2>1, GoHolds, PlaceFacts DEF Verify
<1>8. ASSUME NEW r \in Requests, Refused(r) PROVE JobsOK'
  BY <1>8, LeaveHolds DEF Refused
<1>9. ASSUME NEW r \in Requests, Load(r) PROVE JobsOK'
  <2>1. request[r].source # "upload" /\ SourceOf(r) \in Slots
    BY <1>9 DEF JobsOK, Holds, Load, SourceOf, Jobs, FilesOK
  <2> DEFINE p == SourceOf(r).pack
             kind == SignatureOf(SourceOf(r))
             job == [request[r] EXCEPT !.at = "retain", !.pack = p, !.kind = kind]
  <2>2. p \in Files /\ kind \in Kinds
    BY <2>1, SignatureType DEF Slots
  <2>3. job \in Jobs
    BY <2>2, PlaceFacts DEF JobsOK, Jobs
  <2>4. p # None
    BY <1>9 DEF Load
  <2>5. /\ request[r].source = "staged" => p \in reviewed
        /\ request[r].source = "retained" => p \in reviewed /\ request[r].version \in Versions
    BY <1>9, <2>4 DEF Load, JobsOK, Holds, SourceOf, FilesOK
  <2>6. Holds(job, reviewed)
    BY <2>1, <2>4, <2>5 DEF JobsOK, Holds, Jobs
  <2>7. request' = [request EXCEPT ![r] = job]
    BY <1>9 DEF Load, Loaded
  <2> QED
    BY <1>9, <2>3, <2>6, <2>7, SetHolds DEF Load, Loaded
<1>10. ASSUME NEW r \in Requests, LoadFails(r) PROVE JobsOK'
  BY <1>10, LeaveHolds DEF LoadFails
<1>11. ASSUME NEW r \in Requests, Retain(r) PROVE JobsOK'
  <2>1. request[r].source # "upload" /\ request[r].pack # None /\ request[r].at \in Activating
    BY <1>11 DEF JobsOK, Holds, Activating, Retain, ActiveVerifies
  <2>2. CASE Go(r, "activate")
    BY <1>11, <2>1, <2>2, GoHolds, PlaceFacts DEF Retain
  <2>3. CASE /\ active.pack # None
             /\ request' = [request EXCEPT ![r].at = "retain pack",
                                           ![r].kept = VersionOf[active.pack]]
    <3> DEFINE job == [request[r] EXCEPT !.at = "retain pack", !.kept = VersionOf[active.pack]]
    <3>1. VersionOf[active.pack] \in Versions
      BY <2>3 DEF FilesOK, Slots, Files, Versions
    <3>2. job \in Jobs
      BY <3>1, PlaceFacts DEF JobsOK, Jobs
    <3>3. Holds(job, reviewed)
      BY <2>1 DEF JobsOK, Holds, Jobs
    <3>4. request' = [request EXCEPT ![r] = job]
      BY <2>3
    <3> QED
      BY <1>11, <3>2, <3>3, <3>4, SetHolds DEF Retain
  <2> QED
    BY <1>11, <2>2, <2>3 DEF Retain, ActiveVerifies
<1>12. ASSUME NEW r \in Requests, RetainPack(r) PROVE JobsOK'
  <2>1. request[r].source # "upload" /\ request[r].pack # None /\ request[r].at \in Activating
    BY <1>12 DEF JobsOK, Holds, Activating, RetainPack
  <2> QED
    BY <1>12, <2>1, GoHolds, PlaceFacts DEF RetainPack
<1>13. ASSUME NEW r \in Requests, RetainSignature(r) PROVE JobsOK'
  <2>1. request[r].source # "upload" /\ request[r].pack # None /\ request[r].at \in Activating
    BY <1>13 DEF JobsOK, Holds, Activating, RetainSignature
  <2> DEFINE job == [request[r] EXCEPT !.at = "retain other", !.keptKind = SignatureOf(active)]
  <2>2. job \in Jobs
    <3>1. SignatureOf(active) \in Kinds
      BY SignatureType DEF FilesOK
    <3> QED
      BY <3>1, PlaceFacts DEF JobsOK, Jobs
  <2>3. Holds(job, reviewed)
    BY <2>1 DEF JobsOK, Holds, Jobs
  <2>4. request' = [request EXCEPT ![r] = job]
    BY <1>13 DEF RetainSignature
  <2> QED
    BY <1>13, <2>2, <2>3, <2>4, SetHolds DEF RetainSignature
<1>14. ASSUME NEW r \in Requests, RetainOther(r) PROVE JobsOK'
  <2>1. request[r].source # "upload" /\ request[r].pack # None /\ request[r].at \in Activating
    BY <1>14 DEF JobsOK, Holds, Activating, RetainOther
  <2> QED
    BY <1>14, <2>1, GoHolds, PlaceFacts DEF RetainOther
<1>15. ASSUME NEW r \in Requests, Activate(r) PROVE JobsOK'
  <2>1. request[r].source # "upload" /\ request[r].pack # None /\ request[r].at \in Activating
    BY <1>15 DEF JobsOK, Holds, Activating, Activate
  <2> QED
    BY <1>15, <2>1, GoHolds, PlaceFacts DEF Activate
<1>16. ASSUME NEW r \in Requests, Sign(r) PROVE JobsOK'
  <2>1. request[r].source # "upload" /\ request[r].pack # None /\ request[r].at \in Activating
    BY <1>16 DEF JobsOK, Holds, Activating, Sign
  <2> QED
    BY <1>16, <2>1, GoHolds, PlaceFacts DEF Sign
<1>17. ASSUME NEW r \in Requests, SignFails(r) PROVE JobsOK'
  BY <1>17, LeaveHolds DEF SignFails
<1>18. ASSUME NEW r \in Requests, Clear(r) PROVE JobsOK'
  <2>1. request[r].source # "upload" /\ request[r].pack # None /\ request[r].at \in Activating
    BY <1>18 DEF JobsOK, Holds, Activating, Clear
  <2> QED
    BY <1>18, <2>1, GoHolds, PlaceFacts DEF Clear
<1>19. ASSUME NEW r \in Requests, Distrust(r) PROVE JobsOK'
  <2>1. request[r].source # "upload" /\ request[r].pack # None /\ request[r].at \in Activating
    BY <1>19 DEF JobsOK, Holds, Activating, Distrust
  <2> QED
    BY <1>19, <2>1, GoHolds, PlaceFacts DEF Distrust
<1>20. ASSUME NEW r \in Requests, Announce(r) PROVE JobsOK'
  <2>1. request[r].source # "upload" /\ request[r].pack # None /\ request[r].at \in Activating
    BY <1>20 DEF JobsOK, Holds, Activating, Announce
  <2>2. CASE Leave(r)
    BY <1>20, <2>2, LeaveHolds DEF Announce
  <2>3. CASE Go(r, "unlink")
    BY <1>20, <2>1, <2>3, GoHolds, PlaceFacts DEF Announce
  <2> QED
    BY <1>20, <2>2, <2>3 DEF Announce
<1>21. ASSUME NEW r \in Requests, Unlink(r) PROVE JobsOK'
  <2>1. request[r].source # "upload" /\ request[r].pack # None /\ request[r].at \in Activating
    BY <1>21 DEF JobsOK, Holds, Activating, Unlink
  <2>2. CASE Leave(r)
    BY <1>21, <2>2, LeaveHolds DEF Unlink
  <2>3. CASE Go(r, "unlink signatures")
    BY <1>21, <2>1, <2>3, GoHolds, PlaceFacts DEF Unlink
  <2> QED
    BY <1>21, <2>2, <2>3 DEF Unlink
<1>22. ASSUME NEW r \in Requests, UnlinkSignatures(r) PROVE JobsOK'
  BY <1>22, LeaveHolds DEF UnlinkSignatures
<1>23. ASSUME NEW r \in Requests, Fails(r) PROVE JobsOK'
  BY <1>23, LeaveHolds DEF Fails
<1>24. ASSUME NEW wanted \in BOOLEAN, SetPolicy(wanted) PROVE JobsOK'
  BY <1>24, KeepHolds DEF SetPolicy
<1>25. ASSUME CheckTrust PROVE JobsOK'
  BY <1>25, KeepHolds DEF CheckTrust
<1>26. ASSUME EnableActions PROVE JobsOK'
  BY <1>26, KeepHolds DEF EnableActions
<1>27. ASSUME DisableActions PROVE JobsOK'
  BY <1>27, KeepHolds DEF DisableActions
<1>28. ASSUME Stop PROVE JobsOK'
  <2>1. Free \in Jobs /\ Holds(Free, reviewed)
    BY PlaceFacts DEF Free, Jobs, Files, Kinds, Holds, Activating
  <2> QED
    BY <1>28, <2>1 DEF Stop, JobsOK
<1>29. ASSUME Boot PROVE JobsOK'
  BY <1>29, KeepHolds DEF Boot
<1>30. CASE UNCHANGED vars
  BY <1>30, KeepHolds DEF vars
<1> QED
  BY <1>1, <1>2, <1>3, <1>4, <1>5, <1>6, <1>7, <1>8, <1>9, <1>10, <1>11, <1>12,
     <1>13, <1>14, <1>15, <1>16, <1>17, <1>18, <1>19, <1>20, <1>21, <1>22, <1>23, <1>24,
     <1>25, <1>26, <1>27, <1>28, <1>29, <1>30 DEF Next, Step, Installs, RollsBack, Policies,
     Kinds, InstallManual, InstallFromRegistry

\* Every step keeps the files.
LEMMA FilesStep == PackInv /\ [Next]_vars => FilesOK'
<1> SUFFICES ASSUME PackInv, [Next]_vars PROVE FilesOK'
  OBVIOUS
<1> PackAssumption
  BY PackAssumption
<1> JobsOK /\ FilesOK /\ ProcessOK
  BY DEF PackInv
<1> USE DEF FilesOK, fileVars, settingVars, processVars
<1>1. ASSUME NEW r \in Requests, NEW p \in Packs, NEW kind \in Kinds, Upload(r, p, kind)
      PROVE  FilesOK'
  BY <1>1 DEF Upload
<1>2. ASSUME NEW r \in Requests, Confirm(r) PROVE FilesOK'
  BY <1>2 DEF Confirm, Slots, Files
<1>3. ASSUME NEW r \in Requests, NEW v \in Versions, Rollback(r, v) PROVE FilesOK'
  BY <1>3 DEF Rollback
<1>4. ASSUME NEW r \in Requests, Stage(r) PROVE FilesOK'
  <2>1. staged' \in Slots
    BY <1>4 DEF Stage, Slots, Files, JobsOK, Jobs
  <2> QED
    BY <1>4, <2>1 DEF Stage
<1>5. ASSUME NEW r \in Requests, StageSignature(r) PROVE FilesOK'
  <2>1. request[r].kind \in Kinds /\ request[r].pack \in Files
    BY DEF JobsOK, Jobs
  <2>2. staged' \in Slots
    BY <1>5, <2>1, WithType DEF StageSignature
  <2> QED
    BY <1>5, <2>2 DEF StageSignature
<1>6. ASSUME NEW r \in Requests, StageOther(r) PROVE FilesOK'
  <2>1. request[r].kind \in Kinds
    BY DEF JobsOK, Jobs
  <2>2. staged' \in Slots
    BY <1>6, <2>1, ClearedType DEF StageOther
  <2> QED
    BY <1>6, <2>2 DEF StageOther
<1>7. ASSUME NEW r \in Requests, Verify(r) PROVE FilesOK'
  BY <1>7 DEF Verify
<1>8. ASSUME NEW r \in Requests, Refused(r) PROVE FilesOK'
  BY <1>8 DEF Refused
<1>9. ASSUME NEW r \in Requests, Load(r) PROVE FilesOK'
  BY <1>9 DEF Load, Loaded
<1>10. ASSUME NEW r \in Requests, LoadFails(r) PROVE FilesOK'
  BY <1>10 DEF LoadFails
<1>11. ASSUME NEW r \in Requests, Retain(r) PROVE FilesOK'
  BY <1>11 DEF Retain
<1>12. ASSUME NEW r \in Requests, RetainPack(r) PROVE FilesOK'
  <2> DEFINE kept == request[r].kept
  <2>1. ASSUME NEW v \in Versions
        PROVE  /\ retained'[v] \in Slots
               /\ retained'[v].pack \in {retained[v].pack, active.pack}
    BY <1>12 DEF RetainPack, Slots
  <2>2. retained' \in [Versions -> Slots]
    BY <1>12, <2>1 DEF RetainPack
  <2> QED
    BY <1>12, <2>1, <2>2 DEF RetainPack
<1>13. ASSUME NEW r \in Requests, RetainSignature(r) PROVE FilesOK'
  <2> DEFINE kind == SignatureOf(active)
             signature == IF kind = "none" THEN None ELSE active[kind]
  <2>1. kind \in Kinds /\ signature \in Files
    BY SignatureType, FileType DEF Files
  <2>2. retained' = [retained EXCEPT ![request[r].kept] = WithSignature(@, kind, signature)]
    BY <1>13 DEF RetainSignature
  <2> HIDE DEF kind, signature
  <2>3. ASSUME NEW v \in Versions
        PROVE  retained'[v] \in Slots /\ retained'[v].pack = retained[v].pack
    BY <2>1, <2>2, WithType
  <2>4. retained' \in [Versions -> Slots]
    BY <2>2, <2>3
  <2> QED
    BY <1>13, <2>3, <2>4 DEF RetainSignature
<1>14. ASSUME NEW r \in Requests, RetainOther(r) PROVE FilesOK'
  <2>1. request[r].keptKind \in Kinds
    BY DEF JobsOK, Jobs
  <2>2. ASSUME NEW v \in Versions
        PROVE  /\ OtherCleared(retained[v], request[r].keptKind) \in Slots
               /\ OtherCleared(retained[v], request[r].keptKind).pack = retained[v].pack
               /\ [retained[v] EXCEPT !.oci = active.oci, !.bundle = None] \in Slots
               /\ [retained[v] EXCEPT !.oci = active.oci, !.bundle = None].pack = retained[v].pack
    BY <2>1, ClearedType DEF Slots, Files
  <2>3. ASSUME NEW v \in Versions
        PROVE  retained'[v] \in Slots /\ retained'[v].pack = retained[v].pack
    BY <1>14, <2>2 DEF RetainOther
  <2>4. retained' \in [Versions -> Slots]
    BY <1>14, <2>3 DEF RetainOther
  <2> QED
    BY <1>14, <2>3, <2>4 DEF RetainOther
<1>15. ASSUME NEW r \in Requests, Activate(r) PROVE FilesOK'
  <2>1. request[r].pack \in Files /\ request[r].pack \in reviewed
    BY <1>15 DEF Activate, JobsOK, Jobs, Holds, Activating
  <2>2. active' \in Slots /\ active'.pack = request[r].pack
    BY <1>15, <2>1 DEF Activate, Slots
  <2> QED
    BY <1>15, <2>1, <2>2 DEF Activate
<1>16. ASSUME NEW r \in Requests, Sign(r) PROVE FilesOK'
  <2>1. request[r].kind \in Kinds /\ SourceOf(r) \in Slots
    BY <1>16 DEF Sign, JobsOK, Jobs, Holds, Activating, SourceOf
  <2> DEFINE signature == IF request[r].kind = "none" THEN None ELSE SourceOf(r)[request[r].kind]
  <2>2. signature \in Files
    BY <2>1, FileType DEF Files
  <2>3. active' = WithSignature(active, request[r].kind, signature)
    BY <1>16 DEF Sign
  <2>4. active' \in Slots /\ active'.pack = active.pack
    BY <2>1, <2>2, <2>3, WithType
  <2> QED
    BY <1>16, <2>4 DEF Sign
<1>17. ASSUME NEW r \in Requests, SignFails(r) PROVE FilesOK'
  BY <1>17 DEF SignFails
<1>18. ASSUME NEW r \in Requests, Clear(r) PROVE FilesOK'
  <2>1. request[r].kind \in Kinds
    BY DEF JobsOK, Jobs
  <2>2. active' \in Slots /\ active'.pack = active.pack
    BY <1>18, <2>1, ClearedType DEF Clear
  <2> QED
    BY <1>18, <2>2 DEF Clear
<1>19. ASSUME NEW r \in Requests, Distrust(r) PROVE FilesOK'
  BY <1>19 DEF Distrust
<1>20. ASSUME NEW r \in Requests, Announce(r) PROVE FilesOK'
  BY <1>20 DEF Announce
<1>21. ASSUME NEW r \in Requests, Unlink(r) PROVE FilesOK'
  <2>1. staged' \in Slots
    BY <1>21 DEF Unlink, Slots, Files, JobsOK, Jobs
  <2> QED
    BY <1>21, <2>1 DEF Unlink
<1>22. ASSUME NEW r \in Requests, UnlinkSignatures(r) PROVE FilesOK'
  <2>1. staged' \in Slots
    BY <1>22 DEF UnlinkSignatures, Slots, Files
  <2> QED
    BY <1>22, <2>1 DEF UnlinkSignatures
<1>23. ASSUME NEW r \in Requests, Fails(r) PROVE FilesOK'
  BY <1>23 DEF Fails
<1>24. ASSUME NEW wanted \in BOOLEAN, SetPolicy(wanted) PROVE FilesOK'
  BY <1>24 DEF SetPolicy
<1>25. ASSUME CheckTrust PROVE FilesOK'
  BY <1>25 DEF CheckTrust
<1>26. ASSUME EnableActions PROVE FilesOK'
  BY <1>26 DEF EnableActions
<1>27. ASSUME DisableActions PROVE FilesOK'
  BY <1>27 DEF DisableActions
<1>28. ASSUME Stop PROVE FilesOK'
  BY <1>28 DEF Stop
<1>29. ASSUME Boot PROVE FilesOK'
  BY <1>29 DEF Boot
<1>30. CASE UNCHANGED vars
  BY <1>30 DEF vars
<1> QED
  BY <1>1, <1>2, <1>3, <1>4, <1>5, <1>6, <1>7, <1>8, <1>9, <1>10, <1>11, <1>12,
     <1>13, <1>14, <1>15, <1>16, <1>17, <1>18, <1>19, <1>20, <1>21, <1>22, <1>23, <1>24,
     <1>25, <1>26, <1>27, <1>28, <1>29, <1>30 DEF Next, Step, Installs, RollsBack, Policies,
     Kinds, InstallManual, InstallFromRegistry

\* Every step keeps what serves.
LEMMA ProcessStep == PackInv /\ [Next]_vars => ProcessOK'
<1> SUFFICES ASSUME PackInv, [Next]_vars PROVE ProcessOK'
  OBVIOUS
<1> PackAssumption
  BY PackAssumption
<1> JobsOK /\ FilesOK /\ ProcessOK
  BY DEF PackInv
<1> USE DEF ProcessOK, fileVars, settingVars, processVars
<1>1. ASSUME NEW r \in Requests, NEW p \in Packs, NEW kind \in Kinds, Upload(r, p, kind)
      PROVE  ProcessOK'
  BY <1>1 DEF Upload
<1>2. ASSUME NEW r \in Requests, Confirm(r) PROVE ProcessOK'
  BY <1>2 DEF Confirm
<1>3. ASSUME NEW r \in Requests, NEW v \in Versions, Rollback(r, v) PROVE ProcessOK'
  BY <1>3 DEF Rollback
<1>4. ASSUME NEW r \in Requests, Stage(r) PROVE ProcessOK'
  BY <1>4 DEF Stage
<1>5. ASSUME NEW r \in Requests, StageSignature(r) PROVE ProcessOK'
  BY <1>5 DEF StageSignature
<1>6. ASSUME NEW r \in Requests, StageOther(r) PROVE ProcessOK'
  BY <1>6 DEF StageOther
<1>7. ASSUME NEW r \in Requests, Verify(r) PROVE ProcessOK'
  BY <1>7 DEF Verify
<1>8. ASSUME NEW r \in Requests, Refused(r) PROVE ProcessOK'
  BY <1>8 DEF Refused
<1>9. ASSUME NEW r \in Requests, Load(r) PROVE ProcessOK'
  BY <1>9 DEF Load, Loaded
<1>10. ASSUME NEW r \in Requests, LoadFails(r) PROVE ProcessOK'
  BY <1>10 DEF LoadFails
<1>11. ASSUME NEW r \in Requests, Retain(r) PROVE ProcessOK'
  BY <1>11 DEF Retain
<1>12. ASSUME NEW r \in Requests, RetainPack(r) PROVE ProcessOK'
  BY <1>12 DEF RetainPack
<1>13. ASSUME NEW r \in Requests, RetainSignature(r) PROVE ProcessOK'
  BY <1>13 DEF RetainSignature
<1>14. ASSUME NEW r \in Requests, RetainOther(r) PROVE ProcessOK'
  BY <1>14 DEF RetainOther
<1>15. ASSUME NEW r \in Requests, Activate(r) PROVE ProcessOK'
  BY <1>15 DEF Activate
<1>16. ASSUME NEW r \in Requests, Sign(r) PROVE ProcessOK'
  BY <1>16 DEF Sign
<1>17. ASSUME NEW r \in Requests, SignFails(r) PROVE ProcessOK'
  BY <1>17 DEF SignFails
<1>18. ASSUME NEW r \in Requests, Clear(r) PROVE ProcessOK'
  BY <1>18 DEF Clear
<1>19. ASSUME NEW r \in Requests, Distrust(r) PROVE ProcessOK'
  BY <1>19 DEF Distrust
<1>20. ASSUME NEW r \in Requests, Announce(r) PROVE ProcessOK'
  BY <1>20 DEF Announce
<1>21. ASSUME NEW r \in Requests, Unlink(r) PROVE ProcessOK'
  BY <1>21 DEF Unlink
<1>22. ASSUME NEW r \in Requests, UnlinkSignatures(r) PROVE ProcessOK'
  BY <1>22 DEF UnlinkSignatures
<1>23. ASSUME NEW r \in Requests, Fails(r) PROVE ProcessOK'
  BY <1>23 DEF Fails
<1>24. ASSUME NEW wanted \in BOOLEAN, SetPolicy(wanted) PROVE ProcessOK'
  BY <1>24 DEF SetPolicy
<1>25. ASSUME CheckTrust PROVE ProcessOK'
  BY <1>25 DEF CheckTrust
<1>26. ASSUME EnableActions PROVE ProcessOK'
  BY <1>26 DEF EnableActions
<1>27. ASSUME DisableActions PROVE ProcessOK'
  BY <1>27 DEF DisableActions
<1>28. ASSUME Stop PROVE ProcessOK'
  BY <1>28 DEF Stop, Withheld, States, Files
<1>29. ASSUME Boot PROVE ProcessOK'
  <2>1. Decision \in States /\ Decision.pack \in reviewed \cup {None}
    BY DEF Decision, FilesOK, Builtin, Withheld, States, Slots, Files
  <2>2. Decision.state = "unsigned" => ~actions
    BY DEF Decision, Builtin, Withheld, Accepted, Genuine, UnsignedIsSafe, Conflicting
  <2>3. serving' = Decision /\ trusted' = (Decision.state \in {"builtin", "signed"})
    BY <1>29 DEF Boot
  <2>4. serving'.state = "unsigned" => ~trusted' /\ edit' = "idle" /\ ~actions'
    BY <1>29, <2>2, <2>3 DEF Boot
  <2>5. restart' \in BOOLEAN /\ trusted' \in BOOLEAN
    BY <1>29, <2>3 DEF Boot
  <2>6. /\ serving' \in States /\ serving'.pack \in reviewed' \cup {None}
    BY <1>29, <2>1, <2>3 DEF Boot
  <2> QED
    BY <1>29, <2>4, <2>5, <2>6 DEF Boot
<1>30. CASE UNCHANGED vars
  BY <1>30 DEF vars
<1> QED
  BY <1>1, <1>2, <1>3, <1>4, <1>5, <1>6, <1>7, <1>8, <1>9, <1>10, <1>11, <1>12,
     <1>13, <1>14, <1>15, <1>16, <1>17, <1>18, <1>19, <1>20, <1>21, <1>22, <1>23, <1>24,
     <1>25, <1>26, <1>27, <1>28, <1>29, <1>30 DEF Next, Step, Installs, RollsBack, Policies,
     Kinds, InstallManual, InstallFromRegistry

-----------------------------------------------------------------------------
\* PackInv is inductive.
LEMMA Invariant == Spec => []PackInv
<1>1. PackInv /\ [Next]_vars => PackInv'
  BY JobsStep, FilesStep, ProcessStep DEF PackInv
<1> QED
  BY InitInv, <1>1, PTL DEF Spec

\* Files, settings and requests keep their types, and a request that is about
\* to activate has a pack.
THEOREM Types == Spec => []TypeOK
<1>1. PackInv => TypeOK
  BY DEF PackInv, JobsOK, Holds, FilesOK, ProcessOK, TypeOK
<1> QED
  BY Invariant, <1>1, PTL

\* No pack serves that an operator has not confirmed.
THEOREM Reviewed == Spec => []ServesOnlyReviewed
<1>1. PackInv => ServesOnlyReviewed
  BY DEF PackInv, ProcessOK, ServesOnlyReviewed
<1> QED
  BY Invariant, <1>1, PTL

\* No unsigned pack serves while a target permits actions.
THEOREM Unsigned == Spec => []UnsignedServesNoActions
<1>1. PackInv => UnsignedServesNoActions
  BY DEF PackInv, ProcessOK, UnsignedServesNoActions
<1> QED
  BY Invariant, <1>1, PTL

-----------------------------------------------------------------------------
(***************************************************************************)
(* UndisturbedActivationIsWhole.  A request that is alone finds its source *)
(* as it verified it, up to the copy of its signature: no other request    *)
(* runs, and what it retains itself goes to another version.               *)
(***************************************************************************)

\* A slot carries no signature, or a genuine one of these bytes.
Whole(s, bytes) == SignatureOf(s) = "none" \/ Genuine(s, bytes)

\* The retained pack that the request reads is not the one it writes.
Apart(job) == job.source = "retained" => job.kept # job.version

\* A request that has yet to copy from its source has it as it was loaded.
Copying(job) ==
    \/ job.at = "retain"
    \/ /\ Apart(job)
       /\ job.at \in {"retain pack", "retain signature", "retain other", "activate", "sign"}

\* The source is what was verified, and what was loaded.
Verified(r) ==
    LET job == request[r]
        source == SourceOf(r)
        bytes == IF job.source = "staged" THEN job.pack ELSE source.pack
    IN  /\ job.at = "load" => Whole(source, bytes)
        /\ Copying(job) => /\ source.pack = job.pack
                           /\ job.kind = SignatureOf(source)
                           /\ Whole(source, source.pack)

\* The active files are copied one after the other.
Copied(r) ==
    LET job == request[r]
    IN  Apart(job) =>
          /\ job.at \in {"sign", "clear", "distrust", "announce"} => active.pack = job.pack
          /\ job.at = "clear" =>
               IF job.kind = "none" THEN active.bundle = None ELSE active[job.kind] = job.pack
          /\ job.at \in {"distrust", "announce"} =>
               IF job.kind = "none" THEN SignatureOf(active) = "none"
               ELSE Genuine(active, active.pack)
          /\ job.at = "distrust" => job.kind = "none"
          /\ job.at = "announce" /\ job.kind = "none" => ~trusted

AloneInv ==
    /\ \A r, q \in Requests :
         request[r].alone /\ request[r].at # "free" /\ request[q].at # "free" => q = r
    /\ ~up => Busy = {}
    /\ \A r \in Requests : request[r].alone => Verified(r) /\ Copied(r)


\* What a step leaves alone in the jobs: it moves or ends a request that is
\* running, and touches no other one.
LEMMA StepFrame ==
  ASSUME PackInv, NEW r \in Requests, Step(r)
  PROVE  /\ request[r].at # "free"
         /\ request'[r].at = "free" \/ request'[r].alone = request[r].alone
         /\ \A q \in Requests \ {r} : request'[q] = request[q]
         /\ up' = up
<1> request \in [Requests -> Jobs]
  BY DEF PackInv, JobsOK
<1> USE DEF fileVars, settingVars, processVars
<1>1. ASSUME NEW at \in Places, Go(r, at)
      PROVE  /\ request'[r].alone = request[r].alone
             /\ \A q \in Requests \ {r} : request'[q] = request[q]
  BY <1>1, GoType DEF Jobs
<1>2. ASSUME Leave(r)
      PROVE  request'[r].at = "free" /\ \A q \in Requests \ {r} : request'[q] = request[q]
  BY <1>2, LeaveType DEF Free
<1>3. CASE Stage(r) \/ StageSignature(r) \/ Verify(r)
  BY <1>1, <1>3, PlaceFacts DEF Stage, StageSignature, Verify
<1>4. CASE StageOther(r) \/ Refused(r) \/ LoadFails(r) \/ SignFails(r) \/ UnlinkSignatures(r)
  BY <1>2, <1>4 DEF StageOther, Refused, LoadFails, SignFails, UnlinkSignatures
<1>5. CASE Load(r)
  BY <1>5 DEF Load, Loaded, Jobs
<1>6. CASE Retain(r)
  <2>1. CASE Go(r, "activate")
    BY <1>1, <1>6, <2>1, PlaceFacts DEF Retain
  <2>2. CASE request' = [request EXCEPT ![r].at = "retain pack",
                                        ![r].kept = VersionOf[active.pack]]
    BY <1>6, <2>2 DEF Retain, Jobs
  <2> QED
    BY <1>6, <2>1, <2>2 DEF Retain
<1>7. CASE RetainSignature(r)
  BY <1>7 DEF RetainSignature, Jobs
<1>8. CASE RetainPack(r) \/ RetainOther(r) \/ Activate(r) \/ Sign(r) \/ Distrust(r)
  BY <1>1, <1>8, PlaceFacts DEF RetainPack, RetainOther, Activate, Sign, Distrust
<1>9. CASE Clear(r)
  <2>1. Go(r, "distrust") \/ Go(r, "announce")
    BY <1>9 DEF Clear
  <2> QED
    BY <1>1, <1>9, <2>1, PlaceFacts DEF Clear
<1>10. CASE Announce(r)
  <2>1. Go(r, "unlink") \/ Leave(r)
    BY <1>10 DEF Announce
  <2> QED
    BY <1>1, <1>2, <1>10, <2>1, PlaceFacts DEF Announce
<1>11. CASE Unlink(r)
  <2>1. Go(r, "unlink signatures") \/ Leave(r)
    BY <1>11 DEF Unlink
  <2> QED
    BY <1>1, <1>2, <1>11, <2>1, PlaceFacts DEF Unlink
<1>12. CASE Fails(r)
  BY <1>2, <1>12 DEF Fails, Busy
<1> QED
  BY <1>3, <1>4, <1>5, <1>6, <1>7, <1>8, <1>9, <1>10, <1>11, <1>12 DEF Step

\* The kinds of the signatures, one by one.
LEMMA KindFacts ==
  ASSUME NEW s \in Slots, NEW bytes \in Packs, Whole(s, bytes)
  PROVE  /\ SignatureOf(s) = "none" => s.bundle = None /\ s.oci = None
         /\ SignatureOf(s) = "bundle" => s.bundle = s.pack /\ s.bundle # None /\ s.oci = None
         /\ SignatureOf(s) = "oci" => s.bundle = None /\ s.oci = bytes
  BY DEF SignatureOf, Whole, Genuine, Conflicting

\* What a step of the only request makes of its source and of the active files.
LEMMA StepSound ==
  ASSUME PackInv, NEW r \in Requests, Verified(r), Copied(r), Step(r)
  PROVE  Verified(r)' /\ Copied(r)'
<1> PackAssumption
  BY PackAssumption
<1> DEFINE job == request[r]
<1>1. /\ request \in [Requests -> Jobs] /\ job \in Jobs
      /\ Holds(job, reviewed)
      /\ staged \in Slots /\ active \in Slots /\ retained \in [Versions -> Slots]
  BY DEF PackInv, JobsOK, FilesOK
<1>2. ASSUME NEW at \in Places, Go(r, at)
      PROVE  /\ request'[r].at = at
             /\ request'[r].source = job.source /\ request'[r].pack = job.pack
             /\ request'[r].kind = job.kind /\ request'[r].version = job.version
             /\ request'[r].kept = job.kept
  <2>1. request'[r] = [job EXCEPT !.at = at]
    BY <1>1, <1>2, GoType
  <2>2. job \in Jobs
    BY <1>1
  <2> HIDE DEF job
  <2>3. [job EXCEPT !.at = at].at = at
    BY <2>2 DEF Jobs
  <2> QED
    BY <2>1, <2>2, <2>3 DEF Jobs
<1>3. ASSUME staged' = staged, retained' = retained, request'[r].source = job.source,
             request'[r].version = job.version
      PROVE  SourceOf(r)' = SourceOf(r)
  BY <1>3 DEF SourceOf
<1>4. ASSUME request'[r].at \in {"free", "stage", "stage signature", "stage other", "verify",
                                 "unlink", "unlink signatures"}
      PROVE  Verified(r)' /\ Copied(r)'
  BY <1>4 DEF Verified, Copied, Copying
<1>5. ASSUME Leave(r) PROVE Verified(r)' /\ Copied(r)'
  <2>1. request'[r].at = "free"
    BY <1>1, <1>5, LeaveType DEF Free
  <2> QED
    BY <2>1, <1>4
<1> USE DEF fileVars, settingVars, processVars
<1>6. CASE Stage(r) \/ StageSignature(r)
  <2>1. Go(r, "stage signature") \/ Go(r, "stage other")
    BY <1>6 DEF Stage, StageSignature
  <2> QED
    BY <2>1, <1>2, <1>4, PlaceFacts
<1>7. CASE StageOther(r) \/ Refused(r) \/ LoadFails(r) \/ SignFails(r) \/ UnlinkSignatures(r)
           \/ Fails(r)
  BY <1>5, <1>7 DEF StageOther, Refused, LoadFails, SignFails, UnlinkSignatures, Fails
<1>8. CASE Verify(r)
  <2>1. Go(r, "load") /\ staged' = staged /\ retained' = retained
    BY <1>8 DEF Verify
  <2>2. /\ request'[r].at = "load" /\ request'[r].source = job.source
        /\ request'[r].pack = job.pack /\ SourceOf(r)' = SourceOf(r)
    BY <2>1, <1>2, <1>3, PlaceFacts
  <2>3. Whole(SourceOf(r), IF job.source = "staged" THEN job.pack ELSE SourceOf(r).pack)
    BY <1>8 DEF Verify, Accepted, Whole
  <2>4. Verified(r)'
    BY <2>2, <2>3 DEF Verified, Copying
  <2>5. Copied(r)'
    BY <2>2 DEF Copied
  <2> QED
    BY <2>4, <2>5
<1>9. CASE Load(r)
  <2>1. /\ job.at = "load" /\ staged' = staged /\ retained' = retained
        /\ request'[r] = [job EXCEPT !.at = "retain", !.pack = SourceOf(r).pack,
                                     !.kind = SignatureOf(SourceOf(r))]
        /\ job.source = "staged" => SourceOf(r).pack = job.pack
    BY <1>1, <1>9 DEF Load, Loaded
  <2>2. /\ request'[r].at = "retain" /\ request'[r].source = job.source
        /\ request'[r].version = job.version /\ request'[r].pack = SourceOf(r).pack
        /\ request'[r].kind = SignatureOf(SourceOf(r))
    BY <1>1, <2>1 DEF Jobs
  <2>3. SourceOf(r)' = SourceOf(r)
    BY <2>1, <2>2, <1>3
  <2>4. Whole(SourceOf(r), SourceOf(r).pack)
    BY <2>1 DEF Verified
  <2>5. Verified(r)'
    BY <2>2, <2>3, <2>4 DEF Verified
  <2>6. Copied(r)'
    BY <2>2 DEF Copied
  <2> QED
    BY <2>5, <2>6
<1>10. CASE Retain(r)
  <2>1. /\ job.at = "retain" /\ staged' = staged /\ retained' = retained
        /\ \/ Go(r, "activate")
           \/ request'[r] = [job EXCEPT !.at = "retain pack", !.kept = VersionOf[active.pack]]
    BY <1>1, <1>10 DEF Retain
  <2>2. /\ request'[r].at \in {"activate", "retain pack"} /\ request'[r].source = job.source
        /\ request'[r].version = job.version /\ request'[r].pack = job.pack
        /\ request'[r].kind = job.kind
    BY <1>1, <1>2, <2>1, PlaceFacts DEF Jobs
  <2>3. SourceOf(r)' = SourceOf(r)
    BY <2>1, <2>2, <1>3
  <2>4. Verified(r)'
    BY <2>1, <2>2, <2>3 DEF Verified, Copying
  <2>5. Copied(r)'
    BY <2>2 DEF Copied
  <2> QED
    BY <2>4, <2>5
<1>11. ASSUME job.at \in {"retain pack", "retain signature", "retain other"},
              request'[r].at \in {"retain signature", "retain other", "activate"},
              request'[r].source = job.source, request'[r].pack = job.pack,
              request'[r].kind = job.kind, request'[r].version = job.version,
              request'[r].kept = job.kept, staged' = staged,
              \A v \in Versions \ {job.kept} : retained'[v] = retained[v]
       PROVE  Verified(r)' /\ Copied(r)'
  <2>1. job.source \in {"staged", "retained"}
    BY <1>1, <1>11 DEF Holds, Activating, Jobs
  <2>2. ASSUME Apart(job) PROVE SourceOf(r)' = SourceOf(r)
    BY <1>1, <1>11, <2>1, <2>2 DEF SourceOf, Apart, Holds
  <2>3. Copied(r)'
    BY <1>11 DEF Copied
  <2>4. Apart(job)' <=> Apart(job)
    BY <1>11 DEF Apart
  <2>5. Verified(r)'
    BY <1>11, <2>2, <2>4 DEF Verified, Copying
  <2> QED
    BY <2>3, <2>5
<1>12. CASE RetainPack(r)
  <2>1. /\ Go(r, "retain signature") /\ staged' = staged /\ job.at = "retain pack"
        /\ \A v \in Versions \ {job.kept} : retained'[v] = retained[v]
    BY <1>1, <1>12 DEF RetainPack
  <2> QED
    BY <2>1, <1>2, <1>11, PlaceFacts
<1>13. CASE RetainSignature(r)
  <2>1. /\ staged' = staged /\ job.at = "retain signature"
        /\ \A v \in Versions \ {job.kept} : retained'[v] = retained[v]
    BY <1>1, <1>13 DEF RetainSignature
  <2>2. request'[r] = [job EXCEPT !.at = "retain other", !.keptKind = SignatureOf(active)]
    BY <1>1, <1>13 DEF RetainSignature
  <2>3. /\ request'[r].at = "retain other" /\ request'[r].source = job.source
        /\ request'[r].pack = job.pack /\ request'[r].kind = job.kind
        /\ request'[r].version = job.version /\ request'[r].kept = job.kept
    BY <1>1, <2>2 DEF Jobs
  <2> QED
    BY <2>1, <2>3, <1>11
<1>14. CASE RetainOther(r)
  <2>1. /\ Go(r, "activate") /\ staged' = staged /\ job.at = "retain other"
        /\ \A v \in Versions \ {job.kept} : retained'[v] = retained[v]
    BY <1>1, <1>14 DEF RetainOther
  <2> QED
    BY <2>1, <1>2, <1>11, PlaceFacts
<1>15. CASE Activate(r)
  <2>1. /\ Go(r, "sign") /\ staged' = staged /\ retained' = retained /\ job.at = "activate"
        /\ active' = [active EXCEPT !.pack = job.pack]
    BY <1>15 DEF Activate
  <2>2. /\ request'[r].at = "sign" /\ request'[r].source = job.source
        /\ request'[r].pack = job.pack /\ request'[r].kind = job.kind
        /\ request'[r].version = job.version /\ request'[r].kept = job.kept
    BY <2>1, <1>2, PlaceFacts
  <2>3. SourceOf(r)' = SourceOf(r)
    BY <2>1, <2>2, <1>3
  <2>4. Apart(job)' <=> Apart(job)
    BY <2>2 DEF Apart
  <2>5. Verified(r)'
    BY <2>1, <2>2, <2>3, <2>4 DEF Verified, Copying
  <2>6. active'.pack = job.pack
    BY <1>1, <2>1 DEF Slots
  <2>7. Copied(r)'
    BY <2>2, <2>6 DEF Copied
  <2> QED
    BY <2>5, <2>7
<1>16. CASE Sign(r)
  <2> DEFINE signature == IF job.kind = "none" THEN None ELSE SourceOf(r)[job.kind]
  <2>1. /\ Go(r, "clear") /\ job.at = "sign"
        /\ active' = WithSignature(active, job.kind, signature)
    BY <1>16 DEF Sign
  <2>2. /\ request'[r].at = "clear" /\ request'[r].source = job.source
        /\ request'[r].pack = job.pack /\ request'[r].kind = job.kind
        /\ request'[r].version = job.version /\ request'[r].kept = job.kept
    BY <2>1, <1>2, PlaceFacts
  <2>3. Verified(r)'
    BY <2>2 DEF Verified, Copying
  <2>4. Apart(job)' <=> Apart(job)
    BY <2>2 DEF Apart
  <2>5. job.kind \in Kinds /\ job.pack \in Packs /\ SourceOf(r) \in Slots
    BY <1>1, <2>1 DEF Jobs, Holds, Activating, SourceOf, Files
  <2>6. ASSUME Apart(job)
        PROVE  /\ active'.pack = job.pack
               /\ IF job.kind = "none" THEN active'.bundle = None
                  ELSE active'[job.kind] = job.pack
    <3>1. SourceOf(r).pack = job.pack /\ job.kind = SignatureOf(SourceOf(r))
          /\ Whole(SourceOf(r), job.pack)
      BY <2>1, <2>6 DEF Verified, Copying
    <3>2. active.pack = job.pack
      BY <2>1, <2>6 DEF Copied
    <3>3. job.kind # "none" => signature = job.pack
      BY <2>5, <3>1, KindFacts DEF Kinds
    <3>4. signature \in Files
      BY <2>5, <3>3 DEF Files
    <3>5. active'.pack = job.pack
      BY <1>1, <2>1, <2>5, <3>2, <3>4, WithType
    <3>6. CASE job.kind = "none"
      BY <1>1, <2>1, <3>5, <3>6 DEF WithSignature, Slots
    <3>7. CASE job.kind = "bundle"
      BY <1>1, <2>1, <3>3, <3>5, <3>7 DEF WithSignature, Slots
    <3>8. CASE job.kind = "oci"
      BY <1>1, <2>1, <3>3, <3>5, <3>8 DEF WithSignature, Slots
    <3> QED
      BY <2>5, <3>6, <3>7, <3>8 DEF Kinds
  <2>7. Copied(r)'
    BY <2>2, <2>4, <2>6 DEF Copied
  <2> QED
    BY <2>3, <2>7
<1>17. CASE Clear(r)
  <2>1. /\ job.at = "clear" /\ active' = OtherCleared(active, job.kind)
        /\ Go(r, IF job.kind = "none" THEN "distrust" ELSE "announce")
    BY <1>17 DEF Clear
  <2>2. /\ request'[r].at = IF job.kind = "none" THEN "distrust" ELSE "announce"
        /\ request'[r].source = job.source
        /\ request'[r].pack = job.pack /\ request'[r].kind = job.kind
        /\ request'[r].version = job.version /\ request'[r].kept = job.kept
    BY <2>1, <1>2, PlaceFacts
  <2>3. Verified(r)'
    BY <2>2 DEF Verified, Copying
  <2>4. Apart(job)' <=> Apart(job)
    BY <2>2 DEF Apart
  <2>5. job.kind \in Kinds /\ job.pack \in Packs
    BY <1>1, <2>1 DEF Jobs, Holds, Activating, Files
  <2>6. ASSUME Apart(job)
        PROVE  /\ active'.pack = job.pack
               /\ job.kind = "none" => SignatureOf(active') = "none"
               /\ job.kind # "none" => Genuine(active', active'.pack)
    <3>1. /\ active.pack = job.pack
          /\ job.kind = "none" => active.bundle = None
          /\ job.kind # "none" => active[job.kind] = job.pack
      BY <2>1, <2>6 DEF Copied
    <3>2. active'.pack = job.pack
      BY <1>1, <2>1, <2>5, <3>1, ClearedType
    <3>3. CASE job.kind = "none"
      <4>1. active'.bundle = None /\ active'.oci = None
        BY <1>1, <2>1, <3>1, <3>3 DEF OtherCleared, Slots
      <4> QED
        BY <3>2, <3>3, <4>1 DEF SignatureOf
    <3>4. CASE job.kind = "bundle"
      <4>1. active'.bundle = job.pack /\ active'.oci = None
        BY <1>1, <2>1, <3>1, <3>4 DEF OtherCleared, Slots
      <4> QED
        BY <2>5, <3>2, <3>4, <4>1 DEF SignatureOf, Genuine, Conflicting, PackAssumption
    <3>5. CASE job.kind = "oci"
      <4>1. active'.oci = job.pack /\ active'.bundle = None
        BY <1>1, <2>1, <3>1, <3>5 DEF OtherCleared, Slots
      <4> QED
        BY <2>5, <3>2, <3>5, <4>1 DEF SignatureOf, Genuine, Conflicting, PackAssumption
    <3> QED
      BY <2>5, <3>3, <3>4, <3>5 DEF Kinds
  <2>7. Copied(r)'
    BY <2>2, <2>4, <2>6 DEF Copied
  <2> QED
    BY <2>3, <2>7
<1>18. CASE Distrust(r)
  <2>1. /\ job.at = "distrust" /\ active' = active /\ Go(r, "announce") /\ ~trusted'
    BY <1>18 DEF Distrust
  <2>2. /\ request'[r].at = "announce" /\ request'[r].source = job.source
        /\ request'[r].pack = job.pack /\ request'[r].kind = job.kind
        /\ request'[r].version = job.version /\ request'[r].kept = job.kept
    BY <2>1, <1>2, PlaceFacts
  <2>3. Verified(r)'
    BY <2>2 DEF Verified, Copying
  <2>4. Apart(job)' <=> Apart(job)
    BY <2>2 DEF Apart
  <2>5. Copied(r)'
    BY <2>1, <2>2, <2>4 DEF Copied
  <2> QED
    BY <2>3, <2>5
<1>19. CASE Announce(r) \/ Unlink(r)
  <2>1. Leave(r) \/ Go(r, "unlink") \/ Go(r, "unlink signatures")
    BY <1>19 DEF Announce, Unlink
  <2> QED
    BY <2>1, <1>2, <1>4, <1>5, PlaceFacts
<1> QED
  BY <1>6, <1>7, <1>8, <1>9, <1>10, <1>12, <1>13, <1>14, <1>15, <1>16, <1>17, <1>18, <1>19
     DEF Step

\* What starting a request makes of one that is alone: only the new one can be,
\* and it has loaded nothing yet.
LEMMA StartAlone ==
  ASSUME PackInv, AloneInv, NEW r \in Requests, NEW job \in Jobs, Start(r, job),
         job.at \in {"stage", "verify"}, up' = up
  PROVE  AloneInv'
<1>1. /\ request' \in [Requests -> Jobs]
      /\ request'[r] = [job EXCEPT !.alone = (Busy = {})]
      /\ \A q \in Requests \ {r} : request'[q] = [request[q] EXCEPT !.alone = FALSE]
  BY StartType DEF PackInv, JobsOK
<1>2. request \in [Requests -> Jobs]
  BY DEF PackInv, JobsOK
<1>3. ASSUME NEW q \in Requests \ {r}
      PROVE  request'[q].alone = FALSE /\ request'[q].at = request[q].at
  BY <1>1, <1>2, <1>3 DEF Jobs
<1>4. request'[r].alone = (Busy = {}) /\ request'[r].at = job.at
  BY <1>1 DEF Jobs
<1>5. \A p, q \in Requests :
        request'[p].alone /\ request'[p].at # "free" /\ request'[q].at # "free" => q = p
  BY <1>3, <1>4 DEF Busy
<1>6. Verified(r)' /\ Copied(r)'
  BY <1>4 DEF Verified, Copied, Copying
<1>7. up'
  BY DEF Start
<1> QED
  BY <1>3, <1>5, <1>6, <1>7 DEF AloneInv

\* Steps that move no request, nor its files.
LEMMA OtherAlone ==
  ASSUME AloneInv, request' = request, staged' = staged, retained' = retained,
         active' = active, trusted' = trusted, up' = up
  PROVE  AloneInv'
<1>1. ASSUME NEW r \in Requests PROVE (Verified(r)' <=> Verified(r)) /\ (Copied(r)' <=> Copied(r))
  BY DEF Verified, Copied, SourceOf
<1>2. Busy' = Busy
  BY DEF Busy
<1> QED
  BY <1>1, <1>2 DEF AloneInv

\* A request that is alone stays sound until it is over or another one starts.
LEMMA AloneStep == PackInv /\ AloneInv /\ [Next]_vars => AloneInv'
<1> SUFFICES ASSUME PackInv, AloneInv, [Next]_vars PROVE AloneInv'
  OBVIOUS
<1> USE DEF fileVars, settingVars, processVars
<1>1. ASSUME NEW r \in Requests, NEW p \in Packs, NEW kind \in Kinds, Upload(r, p, kind)
      PROVE  AloneInv'
  <2> DEFINE job == [Free EXCEPT !.at = "stage", !.pack = p, !.kind = kind]
  <2>1. job \in Jobs /\ job.at = "stage"
    BY PlaceFacts DEF Free, Jobs, Files, Kinds
  <2>2. Start(r, job) /\ up' = up
    BY <1>1 DEF Upload
  <2> QED
    BY <2>1, <2>2, StartAlone
<1>2. ASSUME NEW r \in Requests, Confirm(r) PROVE AloneInv'
  <2> DEFINE job == [Free EXCEPT !.at = "verify", !.source = "staged", !.pack = staged.pack]
  <2>1. job \in Jobs /\ job.at = "verify"
    BY PlaceFacts DEF Free, Jobs, Files, Kinds, PackInv, FilesOK, Slots
  <2>2. Start(r, job) /\ up' = up
    BY <1>2 DEF Confirm
  <2> QED
    BY <2>1, <2>2, StartAlone
<1>3. ASSUME NEW r \in Requests, NEW v \in Versions, Rollback(r, v) PROVE AloneInv'
  <2> DEFINE job == [Free EXCEPT !.at = "verify", !.source = "retained", !.version = v]
  <2>1. job \in Jobs /\ job.at = "verify"
    BY PlaceFacts DEF Free, Jobs, Files, Kinds
  <2>2. Start(r, job) /\ up' = up
    BY <1>3 DEF Rollback
  <2> QED
    BY <2>1, <2>2, StartAlone
<1>4. ASSUME NEW r \in Requests, Step(r) PROVE AloneInv'
  <2>1. /\ request[r].at # "free"
        /\ request'[r].at = "free" \/ request'[r].alone = request[r].alone
        /\ \A q \in Requests \ {r} : request'[q] = request[q]
        /\ up' = up
    BY <1>4, StepFrame
  <2>2. \A p, q \in Requests :
          request'[p].alone /\ request'[p].at # "free" /\ request'[q].at # "free" => q = p
    BY <2>1 DEF AloneInv
  <2>3. up'
    BY <2>1 DEF AloneInv, Busy
  <2>4. ASSUME NEW q \in Requests, request'[q].at = "free" PROVE Verified(q)' /\ Copied(q)'
    BY <2>4 DEF Verified, Copied, Copying
  <2>5. ASSUME NEW q \in Requests, request'[q].alone PROVE Verified(q)' /\ Copied(q)'
    <3>1. CASE q # r
      <4>1. request'[q].at = "free"
        BY <2>1, <2>5, <3>1 DEF AloneInv
      <4> QED
        BY <4>1, <2>4
    <3>2. CASE q = r /\ request'[r].at # "free"
      <4>1. Verified(r) /\ Copied(r)
        BY <2>1, <2>5, <3>2 DEF AloneInv
      <4> QED
        BY <1>4, <3>2, <4>1, StepSound
    <3> QED
      BY <2>4, <3>1, <3>2
  <2> QED
    BY <2>2, <2>3, <2>5 DEF AloneInv
<1>5. ASSUME NEW wanted \in BOOLEAN, SetPolicy(wanted) PROVE AloneInv'
  BY <1>5, OtherAlone DEF SetPolicy
<1>6. CASE CheckTrust
  BY <1>6, OtherAlone DEF CheckTrust
<1>7. CASE EnableActions
  BY <1>7, OtherAlone DEF EnableActions
<1>8. CASE DisableActions
  BY <1>8, OtherAlone DEF DisableActions
<1>9. CASE UNCHANGED vars
  BY <1>9, OtherAlone DEF vars
<1>10. ASSUME \A q \in Requests : request'[q].at = "free" PROVE AloneInv'
  <2>1. \A q \in Requests : Verified(q)' /\ Copied(q)'
    BY <1>10 DEF Verified, Copied, Copying
  <2>2. Busy' = {}
    BY <1>10 DEF Busy
  <2> QED
    BY <1>10, <2>1, <2>2 DEF AloneInv
<1>11. CASE Stop
  BY <1>10, <1>11 DEF Stop, Free
<1>12. CASE Boot
  BY <1>10, <1>12 DEF Boot, AloneInv, Busy
<1> QED
  BY <1>1, <1>2, <1>3, <1>4, <1>5, <1>6, <1>7, <1>8, <1>9, <1>11, <1>12
     DEF Next, Installs, RollsBack, Policies, Kinds, InstallManual, InstallFromRegistry

LEMMA AloneInitially == Init => AloneInv
<1> SUFFICES ASSUME Init PROVE AloneInv
  OBVIOUS
<1>1. up /\ \A r \in Requests : request[r].at = "free"
  BY DEF Init, Free
<1> QED
  BY <1>1 DEF AloneInv, Verified, Copied, Copying

\* Faults are counted.
LEMMA FaultsStep == faults \in Nat /\ [Next]_vars => faults' \in Nat
<1> SUFFICES ASSUME faults \in Nat, [Next]_vars PROVE faults' \in Nat
  OBVIOUS
<1>1. ASSUME NEW r \in Requests, Step(r) PROVE faults' \in Nat
  <2>1. CASE Fails(r) \/ Retain(r)
    <3>1. faults' = faults \/ faults' = faults + 1
      BY <2>1, Zenon DEF Fails, Retain
    <3> QED
      BY <3>1
  <2>2. CASE ~(Fails(r) \/ Retain(r))
    <3>1. faults' = faults
      BY <1>1, <2>2, Zenon DEF Step, Stage, StageSignature, StageOther, Verify, Refused, Load,
         Loaded, LoadFails, RetainPack, RetainSignature, RetainOther, Activate, Sign,
         SignFails, Clear, Distrust, Announce, Unlink, UnlinkSignatures
    <3> QED
      BY <3>1
  <2> QED
    BY <2>1, <2>2
<1>2. CASE Policies \/ CheckTrust \/ EnableActions \/ DisableActions \/ Stop \/ Boot
  BY <1>2 DEF Policies, SetPolicy, CheckTrust, EnableActions, DisableActions, Stop, Boot
<1>3. ASSUME NEW r \in Requests, Installs(r) \/ Confirm(r) \/ RollsBack(r) PROVE faults' \in Nat
  BY <1>3 DEF Installs, InstallManual, InstallFromRegistry, Upload, Confirm, RollsBack, Rollback
<1>4. CASE UNCHANGED vars
  BY <1>4 DEF vars
<1> QED
  BY <1>1, <1>2, <1>3, <1>4 DEF Next

\* Without a fault or a stop, a request leaves its announcement by announcing.
LEMMA DoneByAnnounce ==
  ASSUME PackInv, faults \in Nat, [Next]_vars, NEW r \in Requests, request[r].at = "announce",
         request'[r].at # "announce", up', faults' = faults
  PROVE  Announce(r)
<1> request \in [Requests -> Jobs]
  BY DEF PackInv, JobsOK
<1> USE DEF fileVars, settingVars, processVars
<1>1. ASSUME NEW q \in Requests, NEW job \in Jobs, Start(q, job) PROVE FALSE
  <2>1. q # r
    BY <1>1 DEF Start, Busy
  <2>2. request'[r] = [request[r] EXCEPT !.alone = FALSE]
    BY <1>1, <2>1, StartType
  <2> QED
    BY <2>2 DEF Jobs
<1>2. ASSUME NEW q \in Requests, NEW p \in Packs, NEW kind \in Kinds, Upload(q, p, kind)
      PROVE  FALSE
  <2> DEFINE job == [Free EXCEPT !.at = "stage", !.pack = p, !.kind = kind]
  <2>1. job \in Jobs
    BY PlaceFacts DEF Free, Jobs, Files, Kinds
  <2> QED
    BY <1>1, <1>2, <2>1 DEF Upload
<1>3. ASSUME NEW q \in Requests, Confirm(q) PROVE FALSE
  <2> DEFINE job == [Free EXCEPT !.at = "verify", !.source = "staged", !.pack = staged.pack]
  <2>1. job \in Jobs
    BY PlaceFacts DEF Free, Jobs, Files, Kinds, PackInv, FilesOK, Slots
  <2> QED
    BY <1>1, <1>3, <2>1 DEF Confirm
<1>4. ASSUME NEW q \in Requests, NEW v \in Versions, Rollback(q, v) PROVE FALSE
  <2> DEFINE job == [Free EXCEPT !.at = "verify", !.source = "retained", !.version = v]
  <2>1. job \in Jobs
    BY PlaceFacts DEF Free, Jobs, Files, Kinds
  <2> QED
    BY <1>1, <1>4, <2>1 DEF Rollback
<1>5. ASSUME NEW q \in Requests, Step(q) PROVE q = r
  BY <1>5, StepFrame
<1>6. ASSUME Step(r) PROVE Announce(r)
  <2>1. ~Fails(r)
    <3>1. \A n \in Nat : n + 1 # n
      OBVIOUS
    <3>2. Fails(r) => faults' = faults + 1
      BY DEF Fails
    <3> QED
      BY <3>1, <3>2
  <2>2. ~(Stage(r) \/ StageSignature(r) \/ StageOther(r))
    BY DEF Stage, StageSignature, StageOther
  <2>3. ~(Verify(r) \/ Refused(r) \/ Load(r) \/ LoadFails(r))
    BY DEF Verify, Refused, Load, LoadFails
  <2>4. ~(Retain(r) \/ RetainPack(r) \/ RetainSignature(r) \/ RetainOther(r))
    BY DEF Retain, RetainPack, RetainSignature, RetainOther
  <2>5. ~(Activate(r) \/ Sign(r) \/ SignFails(r) \/ Clear(r) \/ Distrust(r))
    BY DEF Activate, Sign, SignFails, Clear, Distrust
  <2>6. ~(Unlink(r) \/ UnlinkSignatures(r))
    BY DEF Unlink, UnlinkSignatures
  <2> QED
    BY <1>6, <2>1, <2>2, <2>3, <2>4, <2>5, <2>6 DEF Step
<1>7. ~(Policies \/ CheckTrust \/ EnableActions \/ DisableActions \/ Stop \/ Boot \/ UNCHANGED vars)
  BY DEF Policies, SetPolicy, CheckTrust, EnableActions, DisableActions, Stop, Boot, vars
<1> QED
  BY <1>2, <1>3, <1>4, <1>5, <1>6, <1>7
     DEF Next, Installs, RollsBack, Kinds, InstallManual, InstallFromRegistry

\* A confirmation that ran alone, or a rollback to a version it did not replace,
\* leaves the pack it activated with the signature that was verified, announces
\* the restart, and withdraws trust from an unsigned pack.
THEOREM Undisturbed == Spec => UndisturbedActivationIsWhole
<1> DEFINE Done(r) == /\ request[r].alone /\ request[r].at = "announce"
                      /\ Apart(request[r])
                      /\ request'[r].at # "announce" /\ up' /\ faults' = faults
           Sound(r) == /\ active.pack = request[r].pack
                       /\ IF request[r].kind = "none" THEN SignatureOf(active) = "none" /\ ~trusted
                          ELSE Genuine(active, active.pack)
                       /\ restart'
<1>1. ASSUME PackInv, AloneInv, faults \in Nat, [Next]_vars, NEW r \in Requests, Done(r)
      PROVE  Sound(r)
  <2>1. Announce(r)
    BY <1>1, DoneByAnnounce
  <2>2. restart'
    BY <2>1 DEF Announce
  <2>3. Copied(r)
    BY <1>1 DEF AloneInv
  <2> QED
    BY <1>1, <2>2, <2>3 DEF Copied
<1>2. PackInv /\ AloneInv /\ faults \in Nat /\ [Next]_vars
      => [\A r \in Requests : Done(r) => Sound(r)]_vars
  BY <1>1
<1>3. Spec => [](AloneInv /\ faults \in Nat)
  <2>1. Init => AloneInv /\ faults \in Nat
    BY AloneInitially DEF Init
  <2>2. PackInv /\ (AloneInv /\ faults \in Nat) /\ [Next]_vars => (AloneInv /\ faults \in Nat)'
    BY AloneStep, FaultsStep
  <2> QED
    BY <2>1, <2>2, Invariant, PTL DEF Spec
<1>4. Spec => [][\A r \in Requests : Done(r) => Sound(r)]_vars
  <2> HIDE DEF Done, Sound
  <2> QED
    BY <1>2, <1>3, Invariant, PTL DEF Spec
<1> QED
  BY <1>4 DEF UndisturbedActivationIsWhole, Apart
=============================================================================
