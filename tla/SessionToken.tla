---------------------------- MODULE SessionToken -----------------------------
(***************************************************************************)
(* What a backend client promises of its session with an appliance: one    *)
(* call at a time signs in, and only while there is no session or the one  *)
(* that is held was refused or has expired.  However many calls meet the   *)
(* same refusal, the session they share is replaced once.                  *)
(***************************************************************************)
EXTENDS Naturals

CONSTANTS Calls, NoCall

VARIABLES
    current,    \* the session that is held, 0 for none
    issued,     \* how many sessions the appliance issued
    spent,      \* sessions that were refused or have expired
    login       \* the call that signs in

tokenVars == <<current, issued, spent, login>>

TokenInit ==
    /\ current = 0
    /\ issued = 0
    /\ spent = {}
    /\ login = NoCall

\* A call may sign out of the session before it signs in again.
SignIn ==
    /\ login = NoCall
    /\ current = 0 \/ current \in spent
    /\ login' \in Calls
    /\ current' \in {current, 0}
    /\ UNCHANGED <<issued, spent>>

SignedIn ==
    /\ login # NoCall
    /\ issued' = issued + 1
    /\ current' = issued'
    /\ login' = NoCall
    /\ UNCHANGED spent

SignInEnds ==
    /\ login # NoCall
    /\ login' = NoCall
    /\ UNCHANGED <<current, issued, spent>>

Spend ==
    /\ \E t \in 1..issued : spent' = spent \cup {t}
    /\ UNCHANGED <<current, issued, login>>

\* The client closes.
SignOut ==
    /\ current' = 0
    /\ UNCHANGED <<issued, spent, login>>

TokenNext == SignIn \/ SignedIn \/ SignInEnds \/ Spend \/ SignOut

TokenSpec == TokenInit /\ [][TokenNext]_tokenVars
=============================================================================
