------------------------- MODULE AdminAccess_proofs -------------------------
(***************************************************************************)
(* Proofs about AdminAccess, for any requests, browsers, passwords and     *)
(* bounds.                                                                 *)
(***************************************************************************)
EXTENDS AdminAccess, TLAPS

Stages == {"sent", "initialized", "setting", "checking", "verified", "allowed", "answered",
           "changed"}

\* A sign-in comes with a password, and who is let in with a session.
Asked(q) ==
    /\ q.kind = "login" => q.typed \in Passwords
    /\ q.at = "allowed" => q.session # None

RequestsOK ==
    /\ request \in [Requests -> RequestRow \cup {None, Done}]
    /\ \A r \in InFlight : Asked(request[r])

CookiesOK == cookie \in [Browsers -> Session \cup {None}]

InHand == IF consumed = None THEN 0 ELSE 1

\* Files that are staged, one after the other, wait, are in the hands of a start
\* or have replaced the password.
FilesAreCounted == generation + Waiting + InHand <= staged

SettingsOK ==
    /\ hash \in Passwords \cup {None}
    /\ notice \in BOOLEAN
    /\ bootstrapFile \in Passwords \cup {Unfit, None}
    /\ recoveryFile \in Passwords \cup {Unfit, None}
    /\ consumed \in Passwords \cup {None}
    /\ process = "recovering" <=> consumed # None
    /\ process \in {"up", "degraded", "recovering", "down"}
    /\ secret \in 0..MaxStarts
    /\ starts \in 0..MaxStarts
    /\ staged \in 0..MaxFiles
    /\ generation \in Nat
    /\ FilesAreCounted

TypeInv == RequestsOK /\ CookiesOK /\ SettingsOK

LEMMA Assumptions ==
  /\ None \notin Passwords /\ Unfit \notin Passwords /\ Unfit # None
  /\ Done # None /\ MaxFiles \in Nat /\ MaxStarts \in Nat
  /\ None \notin RequestRow /\ Done \notin RequestRow /\ None \notin Session
  BY AccessAssumption, RequestAssumption

\* One file more; and one that was in hand and counts as a generation now.
LEMMA Sums ==
  /\ \A g, w, v, i, s \in Nat : g + w + i <= s /\ v <= w + 1 => g + v + i <= s + 1
  /\ \A g, w, s, h \in Nat : g + w + 1 <= s /\ h <= g + 1 => h + w + 0 <= s
  OBVIOUS

LEMMA InFlightRow ==
  ASSUME RequestsOK, NEW r \in InFlight
  PROVE  r \in Requests /\ request[r] \in RequestRow /\ Asked(request[r])
  BY DEF RequestsOK, InFlight

LEMMA GenerationBounded == SettingsOK => generation \in 0..MaxFiles
<1> SUFFICES ASSUME SettingsOK PROVE generation \in 0..MaxFiles
  OBVIOUS
<1>1. Waiting \in Nat /\ InHand \in Nat
  BY DEF Waiting, InHand
<1>2. generation \in Nat /\ staged \in 0..MaxFiles /\ generation + Waiting + InHand <= staged
  BY DEF SettingsOK, FilesAreCounted
<1> QED
  BY <1>1, <1>2, Assumptions

\* One request gets a new row, or is done.
LEMMA OneRow ==
  ASSUME RequestsOK, NEW r \in Requests, NEW q, request' = [request EXCEPT ![r] = q],
         (q \in RequestRow /\ Asked(q)) \/ q \in {None, Done}
  PROVE  /\ RequestsOK'
         /\ \A s \in Requests : request'[s] = IF s = r THEN q ELSE request[s]
<1>1. \A s \in Requests : request'[s] = IF s = r THEN q ELSE request[s]
  BY DEF RequestsOK
<1>2. request' \in [Requests -> RequestRow \cup {None, Done}]
  BY DEF RequestsOK
<1>3. \A s \in InFlight' : Asked(request'[s])
  BY <1>1 DEF RequestsOK, InFlight
<1> QED
  BY <1>1, <1>2, <1>3 DEF RequestsOK

\* A request that goes on keeps all but its stage.
LEMMA Moved ==
  ASSUME RequestsOK, NEW r \in InFlight, NEW stage \in Stages, Reaches(r, stage),
         stage = "allowed" => request[r].session # None
  PROVE  /\ RequestsOK'
         /\ InFlight' = InFlight
         /\ \A s \in Requests \ {r} : request'[s] = request[s]
         /\ request'[r].at = stage /\ request'[r].kind = request[r].kind
         /\ request'[r].typed = request[r].typed /\ request'[r].session = request[r].session
<1> DEFINE q == [request[r] EXCEPT !.at = stage]
<1>1. r \in Requests /\ request[r] \in RequestRow /\ Asked(request[r])
  BY InFlightRow
<1>2. /\ q \in RequestRow /\ q.at = stage /\ q.kind = request[r].kind
      /\ q.typed = request[r].typed /\ q.session = request[r].session
  BY <1>1 DEF RequestRow, Stages
<1>3. request' = [request EXCEPT ![r] = q]
  BY DEF Reaches
<1> HIDE DEF q
<1>4. Asked(q)
  BY <1>1, <1>2 DEF Asked
<1>5. RequestsOK' /\ \A s \in Requests : request'[s] = IF s = r THEN q ELSE request[s]
  BY <1>1, <1>2, <1>3, <1>4, OneRow
<1>6. InFlight' = InFlight
  BY <1>1, <1>2, <1>5, Assumptions DEF InFlight
<1> QED
  BY <1>1, <1>2, <1>5, <1>6

\* An answer that comes with a session, or without one.
LEMMA Answered ==
  ASSUME RequestsOK, NEW r \in InFlight, NEW stage \in Stages \ {"allowed"},
         NEW session \in Session \cup {None}, Answers(r, stage, session)
  PROVE  /\ RequestsOK'
         /\ InFlight' = InFlight
         /\ \A s \in Requests \ {r} : request'[s] = request[s]
         /\ request'[r].at = stage /\ request'[r].session = session
<1> DEFINE q == [request[r] EXCEPT !.at = stage, !.session = session]
<1>1. r \in Requests /\ request[r] \in RequestRow /\ Asked(request[r])
  BY InFlightRow
<1>2. /\ q \in RequestRow /\ q.at = stage /\ q.kind = request[r].kind
      /\ q.typed = request[r].typed /\ q.session = session
  BY <1>1 DEF RequestRow, Stages
<1>3. request' = [request EXCEPT ![r] = q]
  BY <1>1 DEF Answers, RequestsOK
<1> HIDE DEF q
<1>4. Asked(q)
  BY <1>1, <1>2 DEF Asked
<1>5. RequestsOK' /\ \A s \in Requests : request'[s] = IF s = r THEN q ELSE request[s]
  BY <1>1, <1>2, <1>3, <1>4, OneRow
<1>6. InFlight' = InFlight
  BY <1>1, <1>2, <1>5, Assumptions DEF InFlight
<1> QED
  BY <1>1, <1>2, <1>5, <1>6

\* A request is done.
LEMMA Finished ==
  ASSUME RequestsOK, NEW r \in Requests, request' = [request EXCEPT ![r] = Done]
  PROVE  /\ RequestsOK'
         /\ InFlight' \subseteq InFlight
         /\ \A s \in InFlight' : request'[s] = request[s]
<1>1. RequestsOK' /\ \A s \in Requests : request'[s] = IF s = r THEN Done ELSE request[s]
  BY OneRow
<1> QED
  BY <1>1 DEF InFlight

\* A request is sent.
Sent(b, kind, typed, stage) ==
    [at |-> stage, kind |-> kind, browser |-> b, typed |-> typed,
     session |-> IF Carries(b) THEN cookie[b] ELSE None, carried |-> Carries(b)]

LEMMA SentRow ==
  ASSUME TypeInv, NEW r \in Requests, NEW b \in Browsers, NEW kind \in Kinds,
         NEW typed \in Passwords \cup {None}, Send(r, b, kind, typed)
  PROVE  \E stage \in {"sent", "answered"} :
           LET q == Sent(b, kind, typed, stage)
           IN  /\ q \in RequestRow /\ Asked(q)
               /\ q.session \in {None, cookie[b]}
               /\ request' = [request EXCEPT ![r] = q]
<1>1. PICK stage \in {"sent", "answered"} :
          request' = [request EXCEPT ![r] = Sent(b, kind, typed, stage)]
  BY DEF Send, Sent
<1> DEFINE q == Sent(b, kind, typed, stage)
<1>2. Carries(b) \in BOOLEAN /\ cookie[b] \in Session \cup {None}
  BY DEF Carries, TypeInv, CookiesOK
<1>3. q \in RequestRow /\ q.session \in {None, cookie[b]}
  BY <1>2 DEF Sent, RequestRow
<1>4. Asked(q)
  BY DEF Send, Types, Asked, Sent
<1> QED
  BY <1>1, <1>3, <1>4

\* Time makes a session less recent, and nothing else.
Older(s) == [s EXCEPT !.recent = FALSE]

LEMMA OlderSession ==
  ASSUME NEW s \in Session
  PROVE  /\ Older(s) \in Session
         /\ Older(s).generation = s.generation /\ Older(s).proved = s.proved
  BY DEF Older, Session

LEMMA AgedRequests ==
  ASSUME TypeInv, Ages
  PROVE  /\ RequestsOK'
         /\ InFlight' = InFlight
         /\ \A r \in InFlight :
              /\ request'[r].at = request[r].at /\ request'[r].kind = request[r].kind
              /\ request'[r].typed = request[r].typed
              /\ request'[r].session = IF request[r].session = None THEN None
                                       ELSE Older(request[r].session)
<1> USE Assumptions
<1> DEFINE aged(r) == IF request[r].session = None THEN request[r]
                      ELSE [request[r] EXCEPT !.session = Older(request[r].session)]
<1>1. RequestsOK /\ request \in [Requests -> RequestRow \cup {None, Done}]
  BY DEF TypeInv, RequestsOK
<1>2. ASSUME NEW r \in InFlight
      PROVE  /\ request'[r] = aged(r)
             /\ aged(r) \in RequestRow /\ aged(r).at = request[r].at
             /\ aged(r).kind = request[r].kind /\ aged(r).typed = request[r].typed
             /\ aged(r).session = IF request[r].session = None THEN None
                                  ELSE Older(request[r].session)
  <2>1. r \in Requests /\ request[r] \in RequestRow
    BY <1>1, InFlightRow
  <2>2. request[r].session # None
        => request[r].session \in Session /\ Older(request[r].session) \in Session
    BY <2>1, OlderSession DEF RequestRow
  <2>3. request'[r] = aged(r)
    BY <1>2, <2>1 DEF Ages, Older
  <2> QED
    BY <2>1, <2>2, <2>3 DEF RequestRow
<1>3. \A r \in Requests \ InFlight : request'[r] = request[r]
  BY DEF Ages
<1> HIDE DEF aged
<1>4. InFlight' = InFlight
  BY <1>2, <1>3 DEF InFlight
<1>5. request' \in [Requests -> RequestRow \cup {None, Done}]
  <2>1. request' = [r \in Requests |-> request'[r]]
    BY DEF Ages
  <2>2. \A r \in Requests : request'[r] \in RequestRow \cup {None, Done}
    BY <1>1, <1>2, <1>3
  <2> QED
    BY <2>1, <2>2
<1>6. ASSUME NEW r \in InFlight PROVE Asked(request'[r])
  <2>1. request[r] \in RequestRow /\ Asked(request[r])
    BY <1>1, InFlightRow
  <2>2. request[r].session # None => Older(request[r].session) # None
    BY <2>1, OlderSession DEF RequestRow
  <2> QED
    BY <1>2, <2>1, <2>2 DEF Asked
<1> QED
  BY <1>2, <1>4, <1>5, <1>6 DEF RequestsOK

LEMMA StoppedRequests ==
  ASSUME TypeInv, Stop
  PROVE  /\ RequestsOK'
         /\ InFlight' = AnsweredOnes
         /\ \A r \in AnsweredOnes : request'[r] = request[r]
<1> USE Assumptions
<1>1. request \in [Requests -> RequestRow \cup {None, Done}]
  BY DEF TypeInv, RequestsOK
<1>2. \A r \in Requests : request'[r] = IF r \in InFlight \ AnsweredOnes THEN Done ELSE request[r]
  BY DEF Stop
<1>3. InFlight' = AnsweredOnes
  BY <1>1, <1>2 DEF InFlight, AnsweredOnes
<1>4. request' \in [Requests -> RequestRow \cup {None, Done}]
  BY <1>1 DEF Stop
<1>5. \A r \in AnsweredOnes : r \in InFlight /\ request'[r] = request[r]
  BY <1>2 DEF AnsweredOnes, InFlight
<1> QED
  BY <1>3, <1>4, <1>5 DEF RequestsOK, TypeInv

-----------------------------------------------------------------------------
(* Type correctness.                                                       *)

LEMMA RequestsStep == TypeInv /\ [Next]_vars => RequestsOK'
<1> SUFFICES ASSUME TypeInv, [Next]_vars PROVE RequestsOK'
  OBVIOUS
<1> USE Assumptions
<1>1. RequestsOK
  BY DEF TypeInv
<1>2. ASSUME NEW r \in InFlight, NEW stage \in Stages, Reaches(r, stage),
             stage = "allowed" => request[r].session # None
      PROVE  RequestsOK'
  BY <1>1, <1>2, Moved
<1>3. ASSUME NEW r \in InFlight, NEW session \in Session \cup {None},
             Answers(r, "answered", session)
      PROVE  RequestsOK'
  BY <1>1, <1>3, Answered DEF Stages
<1>4. ASSUME NEW r \in Requests, NEW b \in Browsers, NEW kind \in Kinds,
             NEW typed \in Passwords \cup {None}, Send(r, b, kind, typed)
      PROVE  RequestsOK'
  <2>1. PICK stage \in {"sent", "answered"} :
          /\ Sent(b, kind, typed, stage) \in RequestRow /\ Asked(Sent(b, kind, typed, stage))
          /\ request' = [request EXCEPT ![r] = Sent(b, kind, typed, stage)]
    BY <1>4, SentRow
  <2> QED
    BY <1>1, <2>1, OneRow
<1>5. ASSUME NEW r \in Requests, Login(r) PROVE RequestsOK'
  <2>1. CASE OpenSession(r)
    <3>1. /\ r \in InFlight /\ request[r].kind = "login" /\ request[r] \in RequestRow
          /\ Asked(request[r])
      BY <1>1, <2>1, InFlightRow DEF OpenSession, Is
    <3>2. secret \in 0..MaxStarts /\ generation \in 0..MaxFiles
      BY GenerationBounded DEF TypeInv, SettingsOK
    <3>3. [secret |-> secret, generation |-> generation, recent |-> TRUE,
           proved |-> request[r].typed] \in Session
      BY <3>1, <3>2 DEF Session, Asked
    <3> QED
      BY <1>3, <2>1, <3>1, <3>3 DEF OpenSession
  <2>2. CASE FromBootstrapFile(r) \/ AsksForAdmin(r) \/ SetPassword(r) \/ CheckPassword(r)
    <3>1. r \in InFlight
      BY <2>2 DEF FromBootstrapFile, AsksForAdmin, SetPassword, CheckPassword, Is
    <3>2. \E stage \in Stages \ {"allowed"} : Reaches(r, stage)
      BY <2>2 DEF FromBootstrapFile, AsksForAdmin, SetPassword, CheckPassword, Unlinks, Stages
    <3> QED
      BY <1>2, <3>1, <3>2
  <2> QED
    BY <1>5, <2>1, <2>2 DEF Login
<1>6. ASSUME NEW r \in Requests, Post(r) PROVE RequestsOK'
  <2>1. r \in InFlight
    BY <1>6 DEF Post, Authenticate, Refuse, Confirm, SignOut, Change, Dismiss, Is
  <2>2. request[r] \in RequestRow
    BY <1>1, <2>1, InFlightRow
  <2>3. CASE Confirm(r)
    <3>1. [request[r].session EXCEPT !.recent = TRUE] \in Session \cup {None}
      <4>1. request[r].session # None
        BY <1>1, <2>1, <2>3, InFlightRow DEF Confirm, Is, Asked
      <4>2. request[r].session \in Session
        BY <2>2, <4>1 DEF RequestRow
      <4> QED
        BY <4>2 DEF Session
    <3> QED
      BY <1>3, <2>1, <2>3, <3>1 DEF Confirm
  <2>4. CASE Answers(r, "answered", None)
    BY <1>3, <2>1, <2>4
  <2>5. CASE \E stage \in Stages :
               Reaches(r, stage) /\ (stage = "allowed" => request[r].session # None)
    BY <1>2, <2>1, <2>5
  <2> QED
    BY <1>6, <2>3, <2>4, <2>5
    DEF Post, Authenticate, Refuse, SignOut, Change, Dismiss, Stages
<1>7. ASSUME NEW r \in Requests, GivesUp(r) PROVE RequestsOK'
  BY <1>2, <1>7 DEF GivesUp, Is, Stages
<1>8. ASSUME NEW r \in Requests, Receive(r) \/ Lose(r) PROVE RequestsOK'
  BY <1>1, <1>8, Finished DEF Receive, Lose
<1>9. CASE Ages
  BY <1>9, AgedRequests
<1>10. CASE Stop
  BY <1>10, StoppedRequests
<1>11. ASSUME UNCHANGED request PROVE RequestsOK'
  BY <1>1, <1>11 DEF RequestsOK, InFlight
<1> QED
  BY <1>4, <1>5, <1>6, <1>7, <1>8, <1>9, <1>10, <1>11 DEF Next, Start, Recover, Stage, vars

LEMMA CookiesStep == TypeInv /\ [Next]_vars => CookiesOK'
<1> SUFFICES ASSUME TypeInv, [Next]_vars PROVE CookiesOK'
  OBVIOUS
<1>1. RequestsOK /\ CookiesOK
  BY DEF TypeInv
<1>2. ASSUME NEW r \in Requests, Receive(r) PROVE CookiesOK'
  <2>1. r \in InFlight
    BY <1>2 DEF Receive, AnsweredOnes
  <2>2. request[r].session \in Session \cup {None}
    BY <1>1, <2>1, InFlightRow DEF RequestRow
  <2>3. cookie' = cookie \/ cookie' = [cookie EXCEPT ![request[r].browser] = request[r].session]
    BY <1>2 DEF Receive
  <2> QED
    BY <1>1, <2>2, <2>3 DEF CookiesOK
<1>3. CASE Ages
  <2>1. \A b \in Browsers : cookie[b] # None => Older(cookie[b]) \in Session
    BY <1>1, OlderSession DEF CookiesOK
  <2>2. cookie' = [b \in Browsers |-> IF cookie[b] = None THEN None ELSE Older(cookie[b])]
    BY <1>3 DEF Ages, Older
  <2> QED
    BY <2>1, <2>2 DEF CookiesOK
<1>4. ASSUME UNCHANGED cookie PROVE CookiesOK'
  BY <1>1, <1>4 DEF CookiesOK
<1> QED
  BY <1>2, <1>3, <1>4
  DEF Next, Login, Post, Send, Lose, GivesUp, FromBootstrapFile, AsksForAdmin, SetPassword,
      CheckPassword, OpenSession, Authenticate, Refuse, Confirm, SignOut, Change, Dismiss, Stop,
      Start, Recover, Stage, vars

\* What the requests leave of the settings.
LEMMA SettingsKept ==
  ASSUME SettingsOK, hash' \in Passwords \cup {None}, notice' \in BOOLEAN,
         bootstrapFile' \in Passwords \cup {Unfit, None},
         UNCHANGED <<generation, recoveryFile, consumed, process, secret, starts, staged>>
  PROVE  SettingsOK'
  BY DEF SettingsOK, FilesAreCounted, Waiting, InHand

LEMMA SettingsStep == TypeInv /\ [Next]_vars => SettingsOK'
<1> SUFFICES ASSUME TypeInv, [Next]_vars PROVE SettingsOK'
  OBVIOUS
<1> USE Assumptions DEF settings, files, process_
<1>1. SettingsOK /\ RequestsOK
  BY DEF TypeInv
<1>2. /\ generation \in Nat /\ staged \in Nat /\ staged \in 0..MaxFiles
      /\ Waiting \in Nat /\ InHand \in Nat
      /\ generation + Waiting + InHand <= staged
  BY <1>1 DEF SettingsOK, FilesAreCounted, Waiting, InHand
<1>3. ASSUME UNCHANGED <<settings, files, process_, staged>> PROVE SettingsOK'
  BY <1>1, <1>3, SettingsKept DEF SettingsOK
<1>4. ASSUME NEW r \in Requests, FromBootstrapFile(r) PROVE SettingsOK'
  <2>1. UNCHANGED <<generation, notice, recoveryFile, consumed, process_, staged>>
    BY <1>4 DEF FromBootstrapFile
  <2>2. hash' \in {hash, bootstrapFile} /\ (hash' = hash \/ Fit(bootstrapFile))
    BY <1>4 DEF FromBootstrapFile
  <2>3. bootstrapFile' \in {bootstrapFile, None}
    BY <1>4 DEF FromBootstrapFile, Unlinks
  <2> QED
    BY <1>1, <2>1, <2>2, <2>3, SettingsKept DEF SettingsOK, Fit
<1>5. ASSUME NEW r \in Requests, SetPassword(r) PROVE SettingsOK'
  <2>1. UNCHANGED <<generation, notice, files, process_, staged>>
    BY <1>5 DEF SetPassword
  <2>2. r \in InFlight /\ request[r].kind = "login"
    BY <1>5 DEF SetPassword, Is
  <2>3. request[r].typed \in Passwords
    BY <1>1, <2>2, InFlightRow DEF Asked
  <2>4. hash' \in {hash, request[r].typed}
    BY <1>5 DEF SetPassword
  <2> QED
    BY <1>1, <2>1, <2>3, <2>4, SettingsKept DEF SettingsOK
<1>6. ASSUME NEW r \in Requests, Dismiss(r) PROVE SettingsOK'
  BY <1>1, <1>6, SettingsKept DEF Dismiss, SettingsOK
<1>7. ASSUME NEW content \in Passwords \cup {Unfit}, Stage(content) PROVE SettingsOK'
  <2>1. UNCHANGED <<settings, bootstrapFile, consumed, process_>> /\ recoveryFile' = content
    BY <1>7 DEF Stage
  <2>2. staged' \in 0..MaxFiles /\ staged' = staged + 1
    BY <1>2, <1>7 DEF Stage
  <2>3. Waiting' \in Nat /\ Waiting' <= Waiting + 1 /\ InHand' = InHand
    BY <2>1 DEF Waiting, InHand
  <2>4. FilesAreCounted'
    <3>1. generation' = generation /\ staged \in Nat
      BY <1>2, <2>1
    <3>2. PICK before \in Nat, after \in Nat, hand \in Nat :
              /\ before = Waiting /\ after = Waiting' /\ hand = InHand
              /\ generation + before + hand <= staged /\ after <= before + 1
      BY <1>2, <2>3, Zenon
    <3>3. generation + after + hand <= staged + 1
      BY <1>2, <3>1, <3>2, Sums, Zenon
    <3>4. generation' = generation /\ Waiting' = after /\ InHand' = hand /\ staged' = staged + 1
      BY <2>2, <2>3, <3>1, <3>2
    <3> QED
      BY <3>3, <3>4, Zenon DEF FilesAreCounted
  <2> QED
    BY <1>1, <2>1, <2>2, <2>4 DEF SettingsOK
<1>8. CASE Stop
  <2>1. UNCHANGED <<settings, bootstrapFile, recoveryFile, secret, starts, staged>>
    BY <1>8 DEF Stop
  <2>2. process' = "down" /\ consumed' = None
    BY <1>8 DEF Stop
  <2>3. Waiting' = Waiting /\ InHand' = 0
    BY <2>1, <2>2 DEF Waiting, InHand
  <2>4. FilesAreCounted'
    BY <1>2, <2>1, <2>3 DEF FilesAreCounted
  <2> QED
    BY <1>1, <2>1, <2>2, <2>4 DEF SettingsOK
<1>9. CASE Start
  <2>1. /\ starts' \in 0..MaxStarts /\ secret' \in 0..MaxStarts
        /\ UNCHANGED <<settings, bootstrapFile, staged>>
    BY <1>1, <1>9 DEF Start, Persistent, SettingsOK
  <2>2. process = "down" /\ consumed = None
    BY <1>1, <1>9 DEF Start, SettingsOK
  <2>3. CASE Fit(recoveryFile) /\ process' = "recovering" /\ consumed' = recoveryFile /\ RemovesFile
    <3>1. Waiting = 1 /\ Waiting' = 0 /\ InHand' = 1 /\ InHand = 0 /\ consumed' \in Passwords
      BY <2>2, <2>3 DEF Waiting, InHand, Fit, RemovesFile
    <3>2. FilesAreCounted'
      BY <1>2, <2>1, <3>1 DEF FilesAreCounted
    <3> QED
      BY <1>1, <2>1, <2>3, <3>1, <3>2 DEF SettingsOK, RemovesFile
  <2>4. CASE process' \in {"up", "degraded"} /\ UNCHANGED <<recoveryFile, consumed>>
    <3>1. Waiting' = Waiting /\ InHand' = InHand
      BY <2>4 DEF Waiting, InHand
    <3>2. FilesAreCounted'
      BY <1>2, <2>1, <3>1 DEF FilesAreCounted
    <3> QED
      BY <1>1, <2>1, <2>2, <2>4, <3>2 DEF SettingsOK
  <2> QED
    BY <1>9, <2>3, <2>4 DEF Start
<1>10. CASE Recover
  <2>1. /\ process = "recovering" /\ consumed \in Passwords /\ consumed' = None /\ InHand = 1
        /\ UNCHANGED <<bootstrapFile, recoveryFile, secret, starts, staged>>
    BY <1>1, <1>10 DEF Recover, SettingsOK, InHand
  <2>2. /\ hash' \in Passwords \cup {None} /\ notice' \in BOOLEAN
        /\ process' \in {"up", "degraded"} /\ generation' \in {generation, generation + 1}
    BY <1>1, <1>10, <2>1 DEF Recover, SettingsOK
  <2>3. Waiting' = Waiting /\ InHand' = 0
    BY <2>1 DEF Waiting, InHand
  <2>4. FilesAreCounted' /\ generation' \in Nat
    <3>1. generation' \in Nat /\ generation' <= generation + 1 /\ staged' = staged
      BY <1>2, <2>1, <2>2
    <3>2. PICK waits \in Nat : waits = Waiting /\ generation + waits + 1 <= staged
      BY <1>2, <2>1, Zenon
    <3>3. staged \in Nat /\ generation \in Nat
      BY <1>2
    <3>4. generation' + waits + 0 <= staged
      BY <3>1, <3>2, <3>3, Sums, Zenon
    <3>5. Waiting' = waits /\ InHand' = 0 /\ staged' = staged
      BY <2>3, <3>1, <3>2
    <3> QED
      BY <3>1, <3>4, <3>5, Zenon DEF FilesAreCounted
  <2> QED
    BY <1>1, <2>1, <2>2, <2>4 DEF SettingsOK
<1> QED
  BY <1>3, <1>4, <1>5, <1>6, <1>7, <1>8, <1>9, <1>10
  DEF Next, Login, Post, Send, Receive, Lose, GivesUp, AsksForAdmin, CheckPassword, OpenSession,
      Authenticate, Refuse, Confirm, SignOut, Change, Ages, vars

LEMMA TypeInit == Init => TypeInv
<1> SUFFICES ASSUME Init PROVE TypeInv
  OBVIOUS
<1> USE Assumptions
<1>1. RequestsOK /\ CookiesOK
  BY DEF Init, RequestsOK, CookiesOK, InFlight
<1>2. FilesAreCounted
  BY DEF Init, FilesAreCounted, Waiting, InHand
<1>3. /\ secret \in 0..MaxStarts /\ starts \in 0..MaxStarts /\ staged \in 0..MaxFiles
      /\ generation \in Nat
  BY DEF Init, Persistent
<1>4. /\ hash \in Passwords \cup {None} /\ notice \in BOOLEAN
      /\ bootstrapFile \in Passwords \cup {Unfit, None}
      /\ recoveryFile \in Passwords \cup {Unfit, None} /\ consumed = None /\ process = "down"
  BY DEF Init
<1>5. SettingsOK
  BY <1>2, <1>3, <1>4 DEF SettingsOK
<1> QED
  BY <1>1, <1>5 DEF TypeInv

LEMMA TypeAlways == Spec => []TypeInv
  BY TypeInit, RequestsStep, CookiesStep, SettingsStep, PTL DEF Spec, TypeInv

\* Settings, files, cookies and requests keep their types, for any requests,
\* browsers and bounds.
THEOREM AccessTypeOK == Spec => []TypeOK
<1>1. TypeInv => TypeOK
  BY GenerationBounded DEF TypeInv, RequestsOK, CookiesOK, SettingsOK, TypeOK
<1> QED
  BY <1>1, TypeAlways, PTL

-----------------------------------------------------------------------------
(* The password.                                                           *)

\* A password that was set is replaced by a recovery alone; every staged file
\* replaces it once at most (runtime_repository.py:967, :992, :1041).
THEOREM PasswordsAreOnlyReplacedByFiles == Spec => PasswordsAreReplacedByFiles
<1> DEFINE Step == /\ hash # None /\ hash' # hash => generation' = generation + 1 /\ notice'
                   /\ generation' # generation => generation + Waiting < staged
<1>1. TypeInv /\ [Next]_vars => [Step]_vars
  <2> SUFFICES ASSUME TypeInv, [Next]_vars PROVE Step
    OBVIOUS
  <2>1. ASSUME UNCHANGED <<hash, generation>> PROVE Step
    BY <2>1
  <2>2. ASSUME NEW r \in Requests, FromBootstrapFile(r) PROVE Step
    BY <2>2 DEF FromBootstrapFile
  <2>3. ASSUME NEW r \in Requests, SetPassword(r) PROVE Step
    BY <2>3 DEF SetPassword
  <2>4. CASE Recover
    <3>1. consumed # None /\ InHand = 1
      BY <2>4 DEF Recover, TypeInv, SettingsOK, InHand
    <3>2. generation + Waiting < staged
      BY <3>1 DEF TypeInv, SettingsOK, FilesAreCounted, Waiting
    <3>3. \/ UNCHANGED <<hash, generation>>
          \/ generation' = generation + 1 /\ notice' = TRUE
      BY <2>4 DEF Recover, settings
    <3> QED
      BY <3>2, <3>3
  <2> QED
    BY <2>1, <2>2, <2>3, <2>4
    DEF Next, Login, Post, Send, Receive, Lose, GivesUp, AsksForAdmin, CheckPassword, OpenSession,
        Authenticate, Refuse, Confirm, SignOut, Change, Dismiss, Ages, Stop, Start, Stage, vars,
        settings
<1> QED
  BY <1>1, TypeAlways, PTL DEF Spec, PasswordsAreReplacedByFiles

-----------------------------------------------------------------------------
(* What a session is worth.                                                *)

\* A session of the generation g was opened with the password h that counts in it;
\* none is of a later generation.
Proven(s, g, h) == s.generation \in Nat /\ s.generation <= g
                   /\ (s.generation = g => h # None /\ s.proved = h)

CookiesProven == \A b \in Browsers : cookie[b] # None => Proven(cookie[b], generation, hash)

SessionsProven ==
    \A r \in InFlight : request[r].session # None => Proven(request[r].session, generation, hash)

\* Where a request stands that is still handled: in a process that runs, past the
\* password check with the password that counts, let in with a session of the
\* generation that counts.
Handled ==
    \A r \in InFlight :
      /\ request[r].at \notin {"answered", "changed"} => process \in {"up", "degraded"}
      /\ request[r].at = "verified" => hash # None /\ request[r].typed = hash
      /\ request[r].at = "allowed" /\ process = "up" => request[r].session.generation = generation

SessionInv == CookiesProven /\ SessionsProven /\ Handled

LEMMA OlderProven ==
  ASSUME NEW s \in Session, NEW g, NEW h, Proven(s, g, h)
  PROVE  Proven(Older(s), g, h)
  BY OlderSession DEF Proven

\* One request moves or is answered, and settings and cookies stay.
LEMMA OneHandled ==
  ASSUME TypeInv, SessionInv, NEW r \in InFlight, InFlight' = InFlight,
         \A s \in Requests \ {r} : request'[s] = request[s],
         UNCHANGED <<hash, generation, process, cookie>>,
         request'[r].session # None => Proven(request'[r].session, generation, hash),
         request'[r].at = "verified" => hash # None /\ request'[r].typed = hash,
         request'[r].at = "allowed" /\ process = "up"
           => request'[r].session.generation = generation,
         request[r].at \notin {"answered", "changed"}
  PROVE  SessionInv'
<1>1. \A s \in InFlight : s \in Requests
  BY DEF InFlight
<1>2. CookiesProven'
  BY DEF SessionInv, CookiesProven
<1>3. SessionsProven'
  BY <1>1 DEF SessionInv, SessionsProven
<1>4. Handled'
  BY <1>1 DEF SessionInv, Handled
<1> QED
  BY <1>2, <1>3, <1>4 DEF SessionInv

\* A request that only moves.
LEMMA MovedHandled ==
  ASSUME TypeInv, SessionInv, NEW r \in InFlight, NEW stage \in Stages, Reaches(r, stage),
         UNCHANGED <<hash, generation, process, cookie>>,
         stage = "verified" => hash # None /\ request[r].typed = hash,
         stage = "allowed" => /\ request[r].session # None
                              /\ process = "up" => request[r].session.generation = generation,
         request[r].at \notin {"answered", "changed"}
  PROVE  SessionInv'
<1>1. /\ InFlight' = InFlight
      /\ \A s \in Requests \ {r} : request'[s] = request[s]
      /\ request'[r].at = stage
      /\ request'[r].typed = request[r].typed /\ request'[r].session = request[r].session
  BY Moved DEF TypeInv
<1>2. request[r].session # None => Proven(request[r].session, generation, hash)
  BY DEF SessionInv, SessionsProven
<1> QED
  BY <1>1, <1>2, OneHandled

LEMMA AnsweredHandled ==
  ASSUME TypeInv, SessionInv, NEW r \in InFlight, NEW session \in Session \cup {None},
         Answers(r, "answered", session), UNCHANGED <<hash, generation, process, cookie>>,
         session # None => Proven(session, generation, hash),
         request[r].at \notin {"answered", "changed"}
  PROVE  SessionInv'
<1>1. /\ InFlight' = InFlight
      /\ \A s \in Requests \ {r} : request'[s] = request[s]
      /\ request'[r].at = "answered" /\ request'[r].session = session
  BY Answered DEF TypeInv, Stages
<1> QED
  BY <1>1, OneHandled

\* The first password is set while no session is of this generation.
LEMMA FirstPassword ==
  ASSUME TypeInv, SessionInv, hash = None, UNCHANGED <<generation, process, cookie>>,
         NEW r \in InFlight, NEW stage \in {"initialized", "checking", "answered"},
         Reaches(r, stage),
         request[r].at \notin {"answered", "changed"}
  PROVE  SessionInv'
<1>1. /\ InFlight' = InFlight
      /\ \A s \in Requests \ {r} : request'[s] = request[s]
      /\ request'[r].at = stage /\ request'[r].session = request[r].session
  BY Moved DEF TypeInv, Stages
<1>2. \A s \in InFlight : s \in Requests /\ request'[s].session = request[s].session
  BY <1>1 DEF InFlight
<1>3. \A b \in Browsers : cookie[b] # None => Proven(cookie[b], generation, hash')
  BY DEF SessionInv, CookiesProven, Proven
<1>4. \A s \in InFlight : request[s].session # None => Proven(request[s].session, generation, hash')
  BY DEF SessionInv, SessionsProven, Proven
<1>5. CookiesProven' /\ SessionsProven'
  BY <1>1, <1>2, <1>3, <1>4 DEF CookiesProven, SessionsProven
<1>6. Handled'
  BY <1>1, <1>2 DEF SessionInv, Handled
<1> QED
  BY <1>5, <1>6 DEF SessionInv

LEMMA LoginStep ==
  ASSUME TypeInv, SessionInv, NEW r \in Requests, Login(r)
  PROVE  SessionInv'
<1> USE Assumptions DEF settings, files, process_
<1>1. /\ r \in InFlight
      /\ request[r].at \in {"sent", "initialized", "setting", "checking", "verified"}
      /\ request[r].kind = "login"
  BY DEF Login, FromBootstrapFile, AsksForAdmin, SetPassword, CheckPassword, OpenSession, Is
<1>2. request[r].typed \in Passwords
  BY <1>1, InFlightRow DEF TypeInv, Asked
<1>3. ASSUME NEW stage \in {"initialized", "setting", "checking", "answered"}, Reaches(r, stage),
             UNCHANGED <<hash, generation, process, cookie>>
      PROVE  SessionInv'
  BY <1>1, <1>3, MovedHandled DEF Stages
<1>4. ASSUME NEW stage \in {"initialized", "checking", "answered"},
         Reaches(r, stage), hash = None,
             UNCHANGED <<generation, process, cookie>>
      PROVE  SessionInv'
  BY <1>1, <1>4, FirstPassword
<1>5. CASE FromBootstrapFile(r)
  <2>1. \E stage \in {"initialized", "answered"} : Reaches(r, stage)
    BY <1>5 DEF FromBootstrapFile, Unlinks
  <2>2. (UNCHANGED hash \/ hash = None) /\ UNCHANGED <<generation, process, cookie>>
    BY <1>5 DEF FromBootstrapFile
  <2> QED
    BY <1>3, <1>4, <2>1, <2>2
<1>6. CASE AsksForAdmin(r)
  BY <1>3, <1>6 DEF AsksForAdmin
<1>7. CASE SetPassword(r)
  <2>1. \E stage \in {"checking", "answered"} : Reaches(r, stage)
    BY <1>7 DEF SetPassword
  <2>2. (UNCHANGED hash \/ hash = None) /\ UNCHANGED <<generation, process, cookie>>
    BY <1>7 DEF SetPassword
  <2> QED
    BY <1>3, <1>4, <2>1, <2>2
<1>8. CASE CheckPassword(r)
  <2>1. UNCHANGED <<hash, generation, process, cookie>>
    BY <1>8 DEF CheckPassword
  <2>2. CASE request[r].typed = hash
    <3>1. Reaches(r, "verified") /\ hash # None
      BY <1>2, <1>8, <2>2 DEF CheckPassword
    <3> QED
      BY <1>1, <2>1, <2>2, <3>1, MovedHandled DEF Stages
  <2>3. CASE request[r].typed # hash
    BY <1>3, <1>8, <2>1, <2>3 DEF CheckPassword
  <2> QED
    BY <2>2, <2>3
<1>9. CASE OpenSession(r)
  <2> DEFINE s == [secret |-> secret, generation |-> generation, recent |-> TRUE,
                   proved |-> request[r].typed]
  <2>1. hash # None /\ request[r].typed = hash
    BY <1>1, <1>9 DEF SessionInv, Handled, OpenSession, Is
  <2>2. secret \in 0..MaxStarts /\ generation \in 0..MaxFiles
    BY GenerationBounded DEF TypeInv, SettingsOK
  <2>3. s \in Session /\ Proven(s, generation, hash)
    BY <1>2, <2>1, <2>2 DEF Session, Proven
  <2>4. Answers(r, "answered", s) /\ UNCHANGED <<hash, generation, process, cookie>>
    BY <1>9 DEF OpenSession
  <2> HIDE DEF s
  <2> QED
    BY <1>1, <2>3, <2>4, AnsweredHandled
<1> QED
  BY <1>5, <1>6, <1>7, <1>8, <1>9 DEF Login

LEMMA PostStep ==
  ASSUME TypeInv, SessionInv, NEW r \in Requests, Post(r)
  PROVE  SessionInv'
<1> USE Assumptions DEF settings, files, process_
<1>1. /\ r \in InFlight /\ request[r].at \in {"sent", "allowed"}
      /\ UNCHANGED <<hash, generation, process, cookie>>
  BY DEF Post, Authenticate, Refuse, Confirm, SignOut, Change, Dismiss, Is
<1>2. request[r] \in RequestRow /\ Asked(request[r])
  BY <1>1, InFlightRow DEF TypeInv
<1>3. ASSUME NEW stage \in {"answered", "changed"}, Reaches(r, stage) PROVE SessionInv'
  BY <1>1, <1>3, MovedHandled DEF Stages
<1>4. ASSUME Answers(r, "answered", None) PROVE SessionInv'
  BY <1>1, <1>4, AnsweredHandled
<1>5. ASSUME Reaches(r, "allowed"), request[r].session # None, SessionIsCurrent(r) PROVE SessionInv'
  <2>1. process = "up" => request[r].session.generation = generation
    BY <1>5 DEF SessionIsCurrent
  <2> QED
    BY <1>1, <1>5, <2>1, MovedHandled DEF Stages
<1>6. CASE Confirm(r)
  <2> DEFINE s == request[r].session
             renewed == [s EXCEPT !.recent = TRUE]
  <2>1. s # None
    BY <1>2, <1>6 DEF Confirm, Is, Asked
  <2>2. s \in Session /\ Proven(s, generation, hash)
    BY <1>1, <1>2, <2>1 DEF RequestRow, SessionInv, SessionsProven
  <2>3. /\ renewed \in Session
        /\ renewed.generation = s.generation /\ renewed.proved = s.proved
    BY <2>2 DEF Session
  <2>4. Answers(r, "answered", renewed)
    BY <1>6 DEF Confirm
  <2> HIDE DEF renewed
  <2>5. Proven(renewed, generation, hash)
    BY <2>2, <2>3 DEF Proven
  <2> QED
    BY <1>1, <2>3, <2>4, <2>5, AnsweredHandled
<1> QED
  BY <1>3, <1>4, <1>5, <1>6 DEF Post, Authenticate, Refuse, SignOut, Change, Dismiss

LEMMA SendStep ==
  ASSUME TypeInv, SessionInv, NEW r \in Requests, NEW b \in Browsers, NEW kind \in Kinds,
         NEW typed \in Passwords \cup {None}, Send(r, b, kind, typed)
  PROVE  SessionInv'
<1> USE Assumptions DEF settings, files, process_
<1>1. PICK stage \in {"sent", "answered"} :
          LET q == Sent(b, kind, typed, stage)
          IN  /\ q \in RequestRow /\ Asked(q)
              /\ q.session \in {None, cookie[b]}
              /\ request' = [request EXCEPT ![r] = q]
  BY SentRow
<1> DEFINE q == Sent(b, kind, typed, stage)
<1>2. q.at = stage
  BY DEF Sent
<1> HIDE DEF q
<1>3. \A s \in Requests : request'[s] = IF s = r THEN q ELSE request[s]
  <2>1. request' = [request EXCEPT ![r] = q]
    BY <1>1 DEF q
  <2> QED
    BY <2>1 DEF TypeInv, RequestsOK
<1>4. process \in {"up", "degraded"} /\ UNCHANGED <<hash, generation, process, cookie>>
  BY DEF Send
<1>5. q.session # None => Proven(q.session, generation, hash)
  BY <1>1 DEF SessionInv, CookiesProven, q
<1>6. \A s \in InFlight' \ {r} : s \in InFlight /\ request'[s] = request[s]
  BY <1>3 DEF InFlight
<1>7. request'[r] = q
  BY <1>3
<1>8. SessionsProven'
  BY <1>4, <1>5, <1>6, <1>7 DEF SessionInv, SessionsProven
<1>9. Handled'
  BY <1>2, <1>4, <1>6, <1>7 DEF SessionInv, Handled
<1>10. CookiesProven'
  BY <1>4 DEF SessionInv, CookiesProven
<1> QED
  BY <1>8, <1>9, <1>10 DEF SessionInv

LEMMA ReceiveStep ==
  ASSUME TypeInv, SessionInv, NEW r \in Requests, Receive(r) \/ Lose(r)
  PROVE  SessionInv'
<1> USE DEF settings, files, process_
<1>1. r \in InFlight /\ request' = [request EXCEPT ![r] = Done]
      /\ UNCHANGED <<hash, generation, process>>
  BY DEF Receive, Lose, AnsweredOnes
<1>2. InFlight' \subseteq InFlight /\ \A s \in InFlight' : request'[s] = request[s]
  BY <1>1, Finished DEF TypeInv
<1>3. \A b \in Browsers : cookie'[b] \in {cookie[b], request[r].session}
  BY DEF Receive, Lose, TypeInv, CookiesOK
<1>4. CookiesProven'
  BY <1>1, <1>3 DEF SessionInv, CookiesProven, SessionsProven
<1>5. SessionsProven' /\ Handled'
  BY <1>1, <1>2 DEF SessionInv, SessionsProven, Handled
<1> QED
  BY <1>4, <1>5 DEF SessionInv

LEMMA AgesStep ==
  ASSUME TypeInv, SessionInv, Ages
  PROVE  SessionInv'
<1> USE Assumptions DEF settings, files, process_
<1>1. UNCHANGED <<hash, generation, process>>
  BY DEF Ages
<1>2. ASSUME NEW b \in Browsers, cookie'[b] # None PROVE Proven(cookie'[b], generation, hash)
  <2>1. cookie[b] # None /\ cookie'[b] = Older(cookie[b])
    BY <1>2 DEF Ages, Older
  <2>2. cookie[b] \in Session /\ Proven(cookie[b], generation, hash)
    BY <2>1 DEF TypeInv, CookiesOK, SessionInv, CookiesProven
  <2> QED
    BY <2>1, <2>2, OlderProven
<1>3. /\ InFlight' = InFlight
      /\ \A r \in InFlight :
           /\ request'[r].at = request[r].at /\ request'[r].kind = request[r].kind
           /\ request'[r].typed = request[r].typed
           /\ request'[r].session = IF request[r].session = None THEN None
                                    ELSE Older(request[r].session)
  BY AgedRequests
<1>4. ASSUME NEW r \in InFlight, request[r].session # None
      PROVE  /\ request'[r].session = Older(request[r].session)
             /\ Proven(Older(request[r].session), generation, hash)
             /\ Older(request[r].session).generation = request[r].session.generation
  <2>1. request[r].session \in Session /\ Proven(request[r].session, generation, hash)
    BY <1>4, InFlightRow DEF TypeInv, RequestRow, SessionInv, SessionsProven
  <2> QED
    BY <1>3, <1>4, <2>1, OlderProven, OlderSession
<1>5. CookiesProven'
  BY <1>1, <1>2 DEF CookiesProven
<1>6. SessionsProven'
  BY <1>1, <1>3, <1>4 DEF SessionsProven
<1>7. \A r \in InFlight : request[r].at = "allowed" => request[r].session # None
  BY InFlightRow DEF TypeInv, Asked
<1>8. Handled'
  BY <1>1, <1>3, <1>4, <1>7 DEF SessionInv, Handled
<1> QED
  BY <1>5, <1>6, <1>8 DEF SessionInv

\* While no process runs, only answers are under way.
LEMMA DownStep ==
  ASSUME TypeInv, SessionInv, Stop \/ Start \/ Recover
  PROVE  SessionInv'
<1> USE Assumptions DEF settings, files, process_
<1>1. UNCHANGED cookie
  BY DEF Stop, Start, Recover
<1>2. /\ InFlight' = AnsweredOnes
      /\ \A r \in AnsweredOnes : r \in InFlight /\ request'[r] = request[r]
  <2>1. CASE Stop
    BY <2>1, StoppedRequests DEF AnsweredOnes
  <2>2. CASE Start \/ Recover
    <3>1. process \notin {"up", "degraded"} /\ UNCHANGED request
      BY <2>2 DEF Start, Recover
    <3>2. InFlight = AnsweredOnes
      BY <3>1 DEF SessionInv, Handled, AnsweredOnes
    <3> QED
      BY <3>1, <3>2 DEF InFlight, AnsweredOnes
  <2> QED
    BY <2>1, <2>2
<1>3. \/ UNCHANGED <<hash, generation>>
      \/ generation' = generation + 1
  BY DEF Stop, Start, Recover
<1>4. generation \in Nat
  BY DEF TypeInv, SettingsOK
<1>5. \A s : Proven(s, generation, hash) => Proven(s, generation', hash')
  BY <1>3, <1>4 DEF Proven
<1>6. CookiesProven'
  BY <1>1, <1>5 DEF SessionInv, CookiesProven
<1>7. SessionsProven'
  BY <1>2, <1>5 DEF SessionInv, SessionsProven
<1>8. Handled'
  BY <1>2 DEF Handled, AnsweredOnes
<1> QED
  BY <1>6, <1>7, <1>8 DEF SessionInv

LEMMA SessionStep == TypeInv /\ SessionInv /\ [Next]_vars => SessionInv'
<1> SUFFICES ASSUME TypeInv, SessionInv, [Next]_vars PROVE SessionInv'
  OBVIOUS
<1>1. ASSUME NEW r \in Requests, GivesUp(r) PROVE SessionInv'
  <2>1. /\ r \in InFlight /\ request[r].at \in {"sent", "allowed"} /\ Reaches(r, "answered")
        /\ UNCHANGED <<hash, generation, process, cookie>>
    BY <1>1 DEF GivesUp, Is, settings, process_
  <2> QED
    BY <2>1, MovedHandled DEF Stages
<1>2. ASSUME UNCHANGED <<hash, generation, process, cookie, request>> PROVE SessionInv'
  BY <1>2 DEF SessionInv, CookiesProven, SessionsProven, Handled, InFlight
<1> QED
  BY <1>1, <1>2, LoginStep, PostStep, SendStep, ReceiveStep, AgesStep, DownStep
  DEF Next, Stage, vars, settings, process_

LEMMA SessionAlways == Spec => []SessionInv
<1>1. Init => SessionInv
  BY DEF Init, SessionInv, CookiesProven, SessionsProven, Handled, InFlight
<1> QED
  BY <1>1, SessionStep, TypeAlways, PTL DEF Spec

\* Only the handler of a change makes it.
LEMMA OnlyChangeChanges ==
  ASSUME TypeInv, [Next]_vars, NEW r \in InFlight, request[r].at = "allowed", request'[r] # Done,
         request'[r].at = "changed"
  PROVE  Change(r)
<1> USE Assumptions
<1>1. RequestsOK /\ r \in Requests /\ request[r] \in RequestRow
  BY InFlightRow DEF TypeInv
<1>2. ASSUME request'[r] = request[r] PROVE FALSE
  BY <1>2
<1>3. ASSUME NEW s \in InFlight, NEW stage \in Stages \ {"changed"}, Reaches(s, stage) PROVE FALSE
  <2>1. s = r => request'[r].at = stage
    BY <1>1, <1>3 DEF Reaches, RequestsOK, RequestRow
  <2>2. s # r => request'[r] = request[r]
    BY <1>1, <1>3 DEF Reaches, RequestsOK
  <2> QED
    BY <1>2, <1>3, <2>1, <2>2
<1>4. ASSUME NEW s \in InFlight, NEW session, Answers(s, "answered", session) PROVE FALSE
  <2>1. s = r => request'[r].at = "answered"
    BY <1>1, <1>4 DEF Answers, RequestsOK, RequestRow
  <2>2. s # r => request'[r] = request[r]
    BY <1>1, <1>4 DEF Answers, RequestsOK
  <2> QED
    BY <1>2, <2>1, <2>2
<1>5. ASSUME NEW s \in Requests, Login(s) PROVE FALSE
  <2>1. s \in InFlight
    BY <1>5 DEF Login, FromBootstrapFile, AsksForAdmin, SetPassword, CheckPassword, OpenSession, Is
  <2>2. \/ \E stage \in Stages \ {"changed"} : Reaches(s, stage)
        \/ \E session : Answers(s, "answered", session)
    BY <1>5 DEF Login, FromBootstrapFile, AsksForAdmin, SetPassword, CheckPassword, OpenSession,
                Unlinks, Stages
  <2> QED
    BY <1>3, <1>4, <2>1, <2>2
<1>6. ASSUME NEW s \in Requests, Post(s) PROVE Change(r)
  <2>1. s \in InFlight
    BY <1>6 DEF Post, Authenticate, Refuse, Confirm, SignOut, Change, Dismiss, Is
  <2>2. CASE Change(s)
    <3>1. s # r => request'[r] = request[r]
      BY <1>1, <2>2 DEF Change, Reaches, RequestsOK
    <3> QED
      BY <1>2, <2>2, <3>1
  <2>3. CASE \/ \E stage \in Stages \ {"changed"} : Reaches(s, stage)
             \/ \E session : Answers(s, "answered", session)
    BY <1>3, <1>4, <2>1, <2>3
  <2> QED
    BY <1>6, <2>2, <2>3 DEF Post, Authenticate, Refuse, Confirm, SignOut, Dismiss, Stages
<1>7. ASSUME NEW s \in Requests, NEW q, request' = [request EXCEPT ![s] = q],
             request[s] = None \/ q = Done
      PROVE  FALSE
  <2>1. request'[r] = IF s = r THEN q ELSE request[r]
    BY <1>1, <1>7 DEF RequestsOK
  <2>2. request[r] # None
    BY DEF InFlight
  <2> QED
    BY <1>2, <1>7, <2>1, <2>2
<1>8. ASSUME NEW s \in Requests, NEW b \in Browsers, NEW kind \in Kinds,
             NEW typed \in Passwords \cup {None}, Send(s, b, kind, typed)
      PROVE  FALSE
  <2>1. \E stage : request' = [request EXCEPT ![s] = Sent(b, kind, typed, stage)]
    BY <1>8 DEF Send, Sent
  <2> QED
    BY <1>7, <1>8, <2>1 DEF Send
<1>9. ASSUME NEW s \in Requests, Receive(s) \/ Lose(s) PROVE FALSE
  BY <1>7, <1>9 DEF Receive, Lose
<1>10. ASSUME NEW s \in Requests, GivesUp(s) PROVE FALSE
  BY <1>3, <1>10 DEF GivesUp, Is, Stages
<1>11. CASE Ages
  BY <1>11, AgedRequests
<1>12. CASE Stop
  <2>1. request'[r] \in {request[r], Done}
    BY <1>1, <1>12 DEF Stop
  <2> QED
    BY <1>2, <2>1
<1> QED
  BY <1>2, <1>5, <1>6, <1>8, <1>9, <1>10, <1>11, <1>12 DEF Next, Start, Recover, Stage, vars

\* Whatever cookie a browser was left with, a change is made only for someone who
\* proved the password that counts now (decision 026, routes.py:183).
THEOREM ChangesAlwaysProveThePassword == Spec => ChangesProveThePassword
<1> DEFINE Step == \A r \in Requests :
                     Is(r, "allowed", {"change"}) /\ request'[r] # Done
                     /\ request'[r].at = "changed"
                     => request[r].session.proved = hash
<1>1. TypeInv /\ SessionInv /\ [Next]_vars => [Step]_vars
  <2> SUFFICES ASSUME TypeInv, SessionInv, [Next]_vars, NEW r \in Requests,
                      Is(r, "allowed", {"change"}), request'[r] # Done, request'[r].at = "changed"
               PROVE  request[r].session.proved = hash
    OBVIOUS
  <2>1. r \in InFlight /\ request[r].at = "allowed" /\ request[r].session # None
    BY InFlightRow DEF Is, TypeInv, Asked
  <2>2. CASE process = "up"
    BY <2>1, <2>2 DEF SessionInv, SessionsProven, Handled, Proven
  <2>3. process = "up"
    BY <2>1, OnlyChangeChanges DEF Change
  <2> QED
    BY <2>2, <2>3
<1> QED
  BY <1>1, TypeAlways, SessionAlways, PTL DEF Spec, ChangesProveThePassword
=============================================================================
