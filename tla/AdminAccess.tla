---------------------------- MODULE AdminAccess ----------------------------
(***************************************************************************)
(* Who may change anything through the console: the first password, from a *)
(* file or a form, signing in, the signed cookie that is the whole session,*)
(* the checks every administrative POST passes, and the recovery of a lost *)
(* password from a file that is read at startup only.                      *)
(*                                                                         *)
(* The session lives in the browser: a request carries a copy of it, and   *)
(* its response, which may be late or lost, puts that copy back.           *)
(* Grain: one action per repository call of a handler; the checks between  *)
(* two of them are part of the later one.                                  *)
(***************************************************************************)
EXTENDS Naturals

CONSTANTS
    Requests,       \* console requests, each made once
    Browsers,
    Passwords,      \* acceptable passwords
    Unfit,          \* the content of a file that is refused
    None,           \* no password, no file, no session, no request yet
    Done,           \* a request whose answer arrived or was lost
    MaxFiles,       \* bound: recovery files that are staged
    MaxStarts       \* bound: starts of the process

ASSUME AccessAssumption ==
    /\ None \notin Passwords
    /\ Unfit \notin Passwords \cup {None}
    /\ Done # None
    /\ MaxFiles \in Nat
    /\ MaxStarts \in Nat

VARIABLES
    hash,           \* setting admin_password_hash, as the password it is of
    generation,     \* setting admin_session_generation
    notice,         \* setting admin_recovery_notice_at
    bootstrapFile, recoveryFile,
    consumed,       \* the password of a recovery file that was removed
    process,        \* "up", "degraded" without a repository, "recovering" or "down"
    secret,         \* what this process signs cookies with
    cookie,         \* of each browser
    request,
    staged, starts  \* counted against MaxFiles and MaxStarts

settings == <<hash, generation, notice>>
files == <<bootstrapFile, recoveryFile, consumed>>
process_ == <<process, secret, starts>>
vars == <<settings, files, process_, cookie, request, staged>>

-----------------------------------------------------------------------------
(* Sessions and requests.                                                  *)

\* proved is the password the session was opened with; recent says that it was
\* confirmed within RECENT_REAUTH_WINDOW_SECONDS.
Session == [secret : 0..MaxStarts, generation : 0..MaxFiles, recent : BOOLEAN,
            proved : Passwords]

\* The persistent secret; any other dies with its process.
Persistent == 0

Kinds == {"login", "reauth", "logout", "change", "dismiss"}

\* carried says that the request came with a session.
RequestRow ==
    [at : {"sent", "initialized", "setting", "checking", "verified", "allowed", "answered",
           "changed"},
     kind : Kinds, browser : Browsers, typed : Passwords \cup {None},
     session : Session \cup {None}, carried : BOOLEAN]

ASSUME RequestAssumption == None \notin Session /\ {None, Done} \cap RequestRow = {}

InFlight == {r \in Requests : request[r] \notin {None, Done}}
AnsweredOnes == {r \in InFlight : request[r].at \in {"answered", "changed"}}

Is(r, stage, kinds) ==
    /\ r \in InFlight
    /\ request[r].at = stage
    /\ request[r].kind \in kinds

\* Only a sign-in and a confirmation come with a password.
Types(kind) == IF kind \in {"login", "reauth"} THEN Passwords ELSE {None}

Reaches(r, stage) == request' = [request EXCEPT ![r].at = stage]

Answers(r, stage, session) ==
    request' = [request EXCEPT ![r].at = stage, ![r].session = session]

\* SessionMiddleware reads a cookie it signed itself.
Carries(b) == cookie[b] # None /\ cookie[b].secret = secret

Init ==
    /\ hash = None
    /\ generation = 0
    /\ notice = FALSE
    /\ bootstrapFile \in Passwords \cup {Unfit, None}
    /\ recoveryFile = None
    /\ consumed = None
    /\ process = "down"
    /\ secret = Persistent
    /\ cookie = [b \in Browsers |-> None]
    /\ request = [r \in Requests |-> None]
    /\ staged = 0
    /\ starts = 0

-----------------------------------------------------------------------------
(* A request arrives, and an answer does.                                  *)

\* StructuralAuditMiddleware answers a change itself while the ledger cannot be
\* written; without a repository every handler but the logout gives up.
Send(r, b, kind, typed) ==
    /\ request[r] = None
    /\ process \in {"up", "degraded"}
    /\ typed \in Types(kind)
    /\ \E stage \in {"sent", "answered"} :
         /\ stage = "answered" => kind \in {"change", "dismiss"}
         /\ request' = [request EXCEPT ![r] =
                          [at |-> stage, kind |-> kind, browser |-> b, typed |-> typed,
                           session |-> IF Carries(b) THEN cookie[b] ELSE None,
                           carried |-> Carries(b)]]
    /\ UNCHANGED <<settings, files, process_, cookie, staged>>

\* The session of a response replaces the cookie, and an empty one removes the
\* cookie it came with.
Receive(r) ==
    /\ r \in AnsweredOnes
    /\ cookie' = IF request[r].session # None \/ request[r].carried
                 THEN [cookie EXCEPT ![request[r].browser] = request[r].session]
                 ELSE cookie
    /\ request' = [request EXCEPT ![r] = Done]
    /\ UNCHANGED <<settings, files, process_, staged>>

Lose(r) ==
    /\ r \in AnsweredOnes
    /\ request' = [request EXCEPT ![r] = Done]
    /\ UNCHANGED <<settings, files, process_, cookie, staged>>

\* Without a repository a handler that needs one is answered 503.
GivesUp(r) ==
    /\ process = "degraded"
    /\ Is(r, "sent", {"login"}) \/ Is(r, "allowed", {"reauth", "change", "dismiss"})
    /\ Reaches(r, "answered")
    /\ UNCHANGED <<settings, files, process_, cookie, staged>>

-----------------------------------------------------------------------------
(* post_login.                                                             *)

\* Mutant: what a file holds is not looked at.
AnyContent(content) == content # None

\* _read_owner_password_file and _validate_bootstrap_password.
Fit(content) == content \in Passwords

\* The file is unlinked, or cannot be and the request fails.
Unlinks(r) ==
    \/ bootstrapFile' = None /\ Reaches(r, "initialized")
    \/ bootstrapFile # None /\ UNCHANGED bootstrapFile /\ Reaches(r, "answered")

\* initialize_admin_from_bootstrap_file: a password that is set already stays; a
\* file that cannot be read is passed over, a password that is too short fails.
FromBootstrapFile(r) ==
    /\ process = "up"
    /\ Is(r, "sent", {"login"})
    /\ \/ /\ hash # None
          /\ Unlinks(r)
          /\ UNCHANGED hash
       \/ /\ hash = None
          /\ Fit(bootstrapFile)
          /\ hash' = bootstrapFile
          /\ Unlinks(r)
       \/ /\ hash = None
          /\ ~Fit(bootstrapFile)
          /\ \/ Reaches(r, "initialized")
             \/ bootstrapFile = Unfit /\ Reaches(r, "answered")
          /\ UNCHANGED <<hash, bootstrapFile>>
    /\ UNCHANGED <<generation, notice, recoveryFile, consumed, process_, cookie, staged>>

\* has_admin: without one the form has to say the password twice.
AsksForAdmin(r) ==
    /\ Is(r, "initialized", {"login"})
    /\ \/ hash # None /\ Reaches(r, "checking")
       \/ hash = None /\ \E stage \in {"setting", "answered"} : Reaches(r, stage)
    /\ UNCHANGED <<settings, files, process_, cookie, staged>>

\* Mutant: the transaction does not look for a password that exists.
SetPasswordAnyway(r) ==
    /\ Is(r, "setting", {"login"})
    /\ hash' = request[r].typed
    /\ Reaches(r, "checking")
    /\ UNCHANGED <<generation, notice, files, process_, cookie, staged>>

\* initialize_admin, in one transaction: the first password is the only one.
SetPassword(r) ==
    /\ Is(r, "setting", {"login"})
    /\ \/ /\ hash = None
          /\ hash' = request[r].typed
          /\ Reaches(r, "checking")
       \/ /\ hash # None
          /\ Reaches(r, "answered")
          /\ UNCHANGED hash
    /\ UNCHANGED <<generation, notice, files, process_, cookie, staged>>

CheckPassword(r) ==
    /\ Is(r, "checking", {"login"})
    /\ Reaches(r, IF request[r].typed = hash THEN "verified" ELSE "answered")
    /\ UNCHANGED <<settings, files, process_, cookie, staged>>

\* initialize_session, with the generation that is read now.
OpenSession(r) ==
    /\ Is(r, "verified", {"login"})
    /\ Answers(r, "answered", [secret |-> secret, generation |-> generation, recent |-> TRUE,
                               proved |-> request[r].typed])
    /\ UNCHANGED <<settings, files, process_, cookie, staged>>

-----------------------------------------------------------------------------
(* The other POST requests.                                                *)

\* Mutant: any session that was signed is good.
SessionIsSigned(r) == TRUE

\* _session_generation_is_current, which a process without repository takes for
\* granted.
SessionIsCurrent(r) ==
    process = "degraded" \/ request[r].session.generation = generation

\* require_auth: a session that idled too long or is of an earlier generation is
\* cleared.
Authenticate(r) ==
    /\ Is(r, "sent", Kinds \ {"login"})
    /\ \/ Answers(r, "answered", None)
       \/ /\ request[r].session # None
          /\ SessionIsCurrent(r)
          /\ Reaches(r, "allowed")
    /\ UNCHANGED <<settings, files, process_, cookie, staged>>

\* A request whose CSRF token is not the session's is refused, and so is a change
\* whose password was not confirmed lately.
Refuse(r) ==
    /\ Is(r, "allowed", Kinds)
    /\ Reaches(r, "answered")
    /\ UNCHANGED <<settings, files, process_, cookie, staged>>

\* post_reauth; a wrong password changes nothing, as in Refuse.
Confirm(r) ==
    /\ process = "up"
    /\ Is(r, "allowed", {"reauth"})
    /\ request[r].typed = hash
    /\ Answers(r, "answered", [request[r].session EXCEPT !.recent = TRUE])
    /\ UNCHANGED <<settings, files, process_, cookie, staged>>

SignOut(r) ==
    /\ Is(r, "allowed", {"logout"})
    /\ Answers(r, "answered", None)
    /\ UNCHANGED <<settings, files, process_, cookie, staged>>

\* A handler behind require_recent_reauth does what it is for.
Change(r) ==
    /\ process = "up"
    /\ Is(r, "allowed", {"change"})
    /\ request[r].session.recent
    /\ Reaches(r, "changed")
    /\ UNCHANGED <<settings, files, process_, cookie, staged>>

\* post_recovery_notice_dismiss asks for no recent confirmation.
Dismiss(r) ==
    /\ process = "up"
    /\ Is(r, "allowed", {"dismiss"})
    /\ notice' = FALSE
    /\ Reaches(r, "answered")
    /\ UNCHANGED <<hash, generation, files, process_, cookie, staged>>

\* The window of the recent confirmations passes.
Ages ==
    /\ cookie' = [b \in Browsers |->
                    IF cookie[b] = None THEN None ELSE [cookie[b] EXCEPT !.recent = FALSE]]
    /\ request' = [r \in Requests |->
                     IF r \in InFlight /\ request[r].session # None
                     THEN [request[r] EXCEPT !.session.recent = FALSE]
                     ELSE request[r]]
    /\ UNCHANGED <<settings, files, process_, staged>>

-----------------------------------------------------------------------------
(* The process, and the recovery of the password.                          *)

\* The platform's owner puts a recovery file where the next start finds it.
Stage(content) ==
    /\ staged < MaxFiles
    /\ staged' = staged + 1
    /\ recoveryFile' = content
    /\ UNCHANGED <<settings, bootstrapFile, consumed, process_, cookie, request>>

\* Stopped or killed: answers that were given may still arrive.
Stop ==
    /\ process # "down"
    /\ process' = "down"
    /\ consumed' = None
    /\ request' = [r \in Requests |->
                     IF r \in InFlight \ AnsweredOnes THEN Done ELSE request[r]]
    /\ UNCHANGED <<settings, bootstrapFile, recoveryFile, secret, starts, cookie, staged>>

\* Mutant: the file is removed by whoever stages the next one.
LeavesFile == recoveryFile' = recoveryFile

RemovesFile == recoveryFile' = None

\* The file is validated and removed before anything is stored; a file that is
\* refused or stays, or a store that does not open, starts a degraded process.
Start ==
    /\ process = "down"
    /\ starts < MaxStarts
    /\ starts' = starts + 1
    /\ secret' \in {Persistent, starts'}
    /\ \/ /\ recoveryFile = None
          /\ process' = "up"
          /\ UNCHANGED <<recoveryFile, consumed>>
       \/ /\ Fit(recoveryFile)
          /\ process' = "recovering"
          /\ consumed' = recoveryFile
          /\ RemovesFile
       \/ /\ process' = "degraded"
          /\ UNCHANGED <<recoveryFile, consumed>>
    /\ UNCHANGED <<settings, bootstrapFile, cookie, request, staged>>

\* The transaction of the recovery, which needs a password to replace; when it
\* fails the old password stays and the file is gone.
Recover ==
    /\ process = "recovering"
    /\ consumed' = None
    /\ \/ /\ hash # None
          /\ hash' = consumed
          /\ generation' = generation + 1
          /\ notice' = TRUE
          /\ process' = "up"
       \/ /\ process' = "degraded"
          /\ UNCHANGED settings
    /\ UNCHANGED <<bootstrapFile, recoveryFile, secret, starts, cookie, request, staged>>

-----------------------------------------------------------------------------
Login(r) ==
    FromBootstrapFile(r) \/ AsksForAdmin(r) \/ SetPassword(r) \/ CheckPassword(r) \/ OpenSession(r)

Post(r) ==
    Authenticate(r) \/ Refuse(r) \/ Confirm(r) \/ SignOut(r) \/ Change(r) \/ Dismiss(r)

Next ==
    \/ \E r \in Requests :
         \/ \E b \in Browsers, kind \in Kinds, typed \in Passwords \cup {None} :
              Send(r, b, kind, typed)
         \/ Login(r) \/ Post(r) \/ GivesUp(r) \/ Receive(r) \/ Lose(r)
    \/ Ages \/ Stop \/ Start \/ Recover
    \/ \E content \in Passwords \cup {Unfit} : Stage(content)

Spec == Init /\ [][Next]_vars

-----------------------------------------------------------------------------
TypeOK ==
    /\ hash \in Passwords \cup {None}
    /\ generation \in 0..MaxFiles
    /\ notice \in BOOLEAN
    /\ bootstrapFile \in Passwords \cup {Unfit, None}
    /\ recoveryFile \in Passwords \cup {Unfit, None}
    /\ consumed \in Passwords \cup {None}
    /\ process = "recovering" <=> consumed # None
    /\ process \in {"up", "degraded", "recovering", "down"}
    /\ secret \in 0..MaxStarts
    /\ cookie \in [Browsers -> Session \cup {None}]
    /\ request \in [Requests -> RequestRow \cup {None, Done}]
    /\ staged \in 0..MaxFiles
    /\ starts \in 0..MaxStarts

\* Whatever cookie a browser was left with by late answers, several windows,
\* restarts or recoveries, a change is made only for someone who proved the
\* password that counts now (decision 026, routes.py:183).
ChangesProveThePassword ==
    [][\A r \in Requests :
         Is(r, "allowed", {"change"}) /\ request'[r] # Done /\ request'[r].at = "changed"
         => request[r].session.proved = hash]_vars

\* A recovery file that no start has consumed yet.
Waiting == IF recoveryFile = None THEN 0 ELSE 1

\* A password that was set is replaced by a recovery alone, which the console
\* says; every staged file replaces it once at most, wherever a start is
\* interrupted, and no leftover bootstrap file or second first-run form does
\* (runtime_repository.py:967, :992, :1041).
PasswordsAreReplacedByFiles ==
    [][/\ hash # None /\ hash' # hash => generation' = generation + 1 /\ notice'
       /\ generation' # generation => generation + Waiting < staged]_vars
=============================================================================
