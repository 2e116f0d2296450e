----------------------------- MODULE AuditTrail -----------------------------
(***************************************************************************)
(* What the audit log promises about tool calls, with no dispatcher, no    *)
(* lock, no thread and no database in it: the attempt is durable before    *)
(* the handler runs, the outcome is recorded after it ran, recovery closes *)
(* what was left open without inventing a success, and a caller is told    *)
(* nothing the log does not say.                                           *)
(***************************************************************************)
CONSTANT Calls

VARIABLES
    ledger,   \* the committed audit_records rows: [call, status]
    ran,      \* calls whose handler was started
    answer    \* what the caller of each call got, "none" until then

trailVars == <<ledger, ran, answer>>

\* AuditStatus values the dispatcher writes after a handler ended.
Outcomes == {"ok", "error", "timeout", "cancelled"}

Statuses == Outcomes \cup {"denied", "attempt", "outcome_unknown"}

\* One audit_records row, reduced to its correlation id and status.
Row(c, s) == [call |-> c, status |-> s]

Rows == [call : Calls, status : Statuses]

Attempted(c) == Row(c, "attempt") \in ledger

\* The call has a row with a status other than attempt.
Closed(c) == \E s \in Statuses \ {"attempt"} : Row(c, s) \in ledger

\* _SELECT_UNRECONCILED_SQL: calls with an attempt row and no row with another
\* status, among the rows a connection sees.
OpenIn(rows) ==
    {c \in Calls : /\ Row(c, "attempt") \in rows
                   /\ \A s \in Statuses \ {"attempt"} : Row(c, s) \notin rows}

OpenAttempts == OpenIn(ledger)

\* The rows _reconcile appends: one outcome_unknown per open attempt.
RecoveryIn(rows) == {Row(c, "outcome_unknown") : c \in OpenIn(rows)}

RecoveryRows == RecoveryIn(ledger)

Answers ==
    {"ok", "error", "timeout", "cancelled", "outcome_unknown", "denied",
     "denial_write_failed", "attempt_write_failed", "lost"}

\* What answer a may be given to the caller of c.
Supported(c, a) ==
    /\ a \in {"ok", "error", "timeout", "denied"} => Row(c, a) \in ledger
    /\ a \in {"attempt_write_failed", "denied", "denial_write_failed"} => c \notin ran
    /\ a = "outcome_unknown" => c \in ran

TrailInit ==
    /\ ledger = {}
    /\ ran = {}
    /\ answer = [c \in Calls |-> "none"]

\* A call that has no row yet gets its attempt row or its denial row.
Open(c) ==
    /\ \A s \in Statuses : Row(c, s) \notin ledger
    /\ \E s \in {"attempt", "denied"} : ledger' = ledger \cup {Row(c, s)}
    /\ UNCHANGED <<ran, answer>>

\* The handler starts, once, and only under a durable attempt.
Run(c) ==
    /\ Attempted(c)
    /\ c \notin ran
    /\ answer[c] = "none"
    /\ ran' = ran \cup {c}
    /\ UNCHANGED <<ledger, answer>>

\* The one outcome of a handler that ran.
Conclude(c) ==
    /\ c \in ran
    /\ \A s \in Outcomes : Row(c, s) \notin ledger
    /\ \E s \in Outcomes : ledger' = ledger \cup {Row(c, s)}
    /\ UNCHANGED <<ran, answer>>

Recover ==
    /\ ledger' = ledger \cup RecoveryRows
    /\ UNCHANGED <<ran, answer>>

Reply(c) ==
    \E a \in Answers :
        /\ answer[c] = "none"
        /\ Supported(c, a)
        /\ answer' = [answer EXCEPT ![c] = a]
        /\ UNCHANGED <<ledger, ran>>

\* The process dies: every caller still waiting has lost its answer.
Die ==
    /\ \E lost \in SUBSET Calls :
          /\ \A c \in lost : answer[c] = "none"
          /\ answer' = [c \in Calls |-> IF c \in lost THEN "lost" ELSE answer[c]]
    /\ UNCHANGED <<ledger, ran>>

TrailNext ==
    \/ \E c \in Calls : Open(c) \/ Run(c) \/ Conclude(c) \/ Reply(c)
    \/ Recover
    \/ Die

TrailSpec == TrailInit /\ [][TrailNext]_trailVars
=============================================================================
