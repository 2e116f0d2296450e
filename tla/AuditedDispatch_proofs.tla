----------------------- MODULE AuditedDispatch_proofs -----------------------
(***************************************************************************)
(* Proofs about AuditedDispatch, for any number of calls and endpoints,    *)
(* any free space, and any number of faults, cancellations and crashes.    *)
(***************************************************************************)
EXTENDS AuditedDispatch, FiniteSetTheorems, TLAPS

JobValues == Working \cup {"idle", "waiting", "committed", "failed"}

\* What a discarded connection does to the threads: its own caller's result is a
\* failure, whoever was on it can only discard, anybody else is left alone.
LEMMA DiscardShape ==
  ASSUME TypeOK, NEW t \in Threads, Discard(t)
  PROVE  /\ job' \in [Threads -> JobValues]
         /\ job'[t] = Result(t, "failed")
         /\ \A d \in Threads \ {t} :
               \/ job'[d] = "mark_closed" /\ job[d] = "mark"
               \/ job'[d] = "discard" /\ job[d] \in OnConnection \ {"mark"}
               \/ job'[d] = job[d] /\ job[d] \notin OnConnection
<1>1. job' = [d \in Threads |->
                 IF d = t THEN Result(t, "failed")
                 ELSE IF job[d] = "mark" THEN "mark_closed"
                 ELSE IF job[d] \in OnConnection THEN "discard"
                 ELSE job[d]]
  BY DEF Discard
<1> QED
  BY <1>1 DEF TypeOK, Result, JobValues, Working, OnConnection

\* The rows a thread writes are audit rows: its call's own, or those of recovery.
LEMMA WrittenRows ==
  ASSUME TypeOK, NEW t \in Threads, t \in Calls => status[t] # "none", NEW rows
  PROVE  Written(t, rows) \subseteq Rows
<1>1. \A c \in Calls : Row(c, "outcome_unknown") \in Rows
  BY DEF Rows, Row, Statuses
<1>2. \A c \in Calls : status[c] # "none" => Row(c, status[c]) \in Rows
  BY DEF TypeOK, Rows, Row, Statuses
<1>3. OpenIn(rows) \subseteq Calls
  BY DEF OpenIn
<1> QED
  BY <1>1, <1>2, <1>3 DEF Written, RecoveryIn

\* Every step keeps the types.
LEMMA TypeStep == AuditInv /\ [Next]_vars => TypeOK'
<1> SUFFICES ASSUME AuditInv, [Next]_vars PROVE TypeOK'
  OBVIOUS
<1> TypeOK
  BY DEF AuditInv
<1> \A c \in Calls : job[c] # "idle" => status[c] # "none"
  BY DEF AuditInv, TasksFollowStatus
<1> CALL_RESERVATION_BYTES \in Int
  BY DEF CALL_RESERVATION_BYTES, FrameBytes
<1> RecoveryRows \subseteq Rows
  <2>1. \A c \in Calls : Row(c, "outcome_unknown") \in Rows
    BY DEF Rows, Row, Statuses
  <2>2. OpenAttempts \subseteq Calls
    BY DEF OpenAttempts, OpenIn
  <2> QED
    BY <2>1, <2>2 DEF RecoveryRows, RecoveryIn, OpenAttempts
<1> DEFINE Transactions == [open : BOOLEAN, rows : SUBSET Rows]
<1> NoTransaction \in Transactions
  <2>1. {} \in SUBSET Rows
    OBVIOUS
  <2> QED
    BY <2>1 DEF NoTransaction
<1> \A rows \in SUBSET Rows : [tx EXCEPT !.rows = @ \cup rows] \in Transactions
  <2> TAKE rows \in SUBSET Rows
  <2>1. tx \in Transactions /\ tx.rows \cup rows \in SUBSET Rows
    BY DEF TypeOK
  <2> QED
    BY <2>1
<1> USE ConstantsAssumption
<1> USE DEF TypeOK, Answers, Outcomes, Working, OnConnection, Threads, NoTransaction,
            boundVars, taskVars, leaseVars, trailVars, threadVars, storeVars
<1>1. ASSUME NEW c \in Calls, Admit(c) PROVE TypeOK'
  BY <1>1 DEF Admit, Append
<1>2. ASSUME NEW c \in Calls, Deny(c) PROVE TypeOK'
  BY <1>2 DEF Deny, Append
<1>3. ASSUME NEW c \in Calls, DenialReturns(c) PROVE TypeOK'
  BY <1>3 DEF DenialReturns, Resumed, Answer
<1>4. ASSUME NEW c \in Calls, HandlerStarts(c) PROVE TypeOK'
  BY <1>4 DEF HandlerStarts, Resumed
<1>5. ASSUME NEW c \in Calls, AttemptRefused(c) PROVE TypeOK'
  BY <1>5 DEF AttemptRefused, Resumed, Answer, Release
<1>6. ASSUME NEW c \in Calls, HandlerEnds(c) PROVE TypeOK'
  BY <1>6 DEF HandlerEnds, Append
<1>7. ASSUME NEW c \in Calls, TerminalReturns(c) PROVE TypeOK'
  BY <1>7 DEF TerminalReturns, Resumed, Answer, Release
<1>8. ASSUME NEW c \in Calls, Cancel(c) PROVE TypeOK'
  <2>1. CASE CancelHandler(c)
    BY <1>8, <2>1 DEF Cancel, CancelHandler, Append
  <2>2. CASE CancelAppend(c)
    <3>0. leased' \subseteq Calls /\ reserved' \in [Endpoints -> Int]
      BY <2>2 DEF CancelAppend, Release
    <3>1. holder' \in Threads \cup {NoCall} /\ crowded' \in BOOLEAN
      BY <2>2 DEF CancelAppend, Strays
    <3>2. /\ pc' \in [Calls -> {"new", "append", "handler", "done"}]
          /\ answer' \in [Calls -> Answers \cup {"none"}]
          /\ job' \in [Threads -> Working \cup {"idle", "waiting", "committed", "failed"}]
      BY <2>2 DEF CancelAppend, Answer
    <3>3. cancels' \in 0..MaxCancels /\ UNCHANGED <<up, faults, crashes>>
      BY <1>8 DEF Cancel
    <3> QED
      BY <2>2, <3>0, <3>1, <3>2, <3>3 DEF CancelAppend
  <2> QED
    BY <1>8, <2>1, <2>2 DEF Cancel
<1>9. ASSUME NEW t \in Threads, TakeLock(t) PROVE TypeOK'
  BY <1>9 DEF TakeLock
<1>10. ASSUME NEW t \in Threads, EnsureReady(t) PROVE TypeOK'
  BY <1>10 DEF EnsureReady
<1>11. ASSUME NEW t \in Threads, OpenFails(t) PROVE TypeOK'
  BY <1>11 DEF OpenFails, Fault, Result, Freed
<1>12. ASSUME NEW t \in Threads, Begin(t) PROVE TypeOK'
  BY <1>12 DEF Begin, GoesTo
<1>13. ASSUME NEW t \in Threads, Insert(t) PROVE TypeOK'
  <2>1. Written(t, ledger \cup tx.rows) \subseteq Rows
    BY <1>13, WrittenRows DEF Insert
  <2>2. ledger' \subseteq Rows /\ tx' \in Transactions
    <3>1. CASE tx.open
      <4>1. /\ tx' = [tx EXCEPT !.rows = tx.rows \cup Written(t, ledger \cup tx.rows)]
            /\ UNCHANGED ledger
        BY <1>13, <3>1 DEF Insert
      <4> HIDE DEF Transactions
      <4> QED
        BY <2>1, <4>1
    <3>2. CASE ~tx.open
      BY <1>13, <2>1, <3>2 DEF Insert, GoesTo
    <3> QED
      BY <3>1, <3>2
  <2>3. job' \in [Threads -> Working \cup {"idle", "waiting", "committed", "failed"}]
    BY <1>13 DEF Insert, GoesTo
  <2> QED
    BY <1>13, <2>2, <2>3 DEF Insert, GoesTo
<1>14. ASSUME NEW t \in Threads, Commit(t) PROVE TypeOK'
  BY <1>14 DEF Commit, GoesTo, Result, Freed
<1>15. ASSUME NEW t \in Threads, Mark(t) PROVE TypeOK'
  BY <1>15 DEF Mark, GoesTo
<1>16. ASSUME NEW t \in Threads, StatementRaises(t) PROVE TypeOK'
  BY <1>16 DEF StatementRaises, GoesTo
<1>17. ASSUME NEW t \in Threads, StatementFails(t) PROVE TypeOK'
  <2>1. tx' \in Transactions
    <3> HIDE DEF Transactions, NoTransaction
    <3>1. tx \in Transactions
      BY DEF Transactions
    <3> QED
      BY <1>17, <3>1 DEF StatementFails
  <2>2. faults' \in 0..MaxFaults /\ UNCHANGED <<up, crowded, cancels, crashes>>
    BY <1>17 DEF StatementFails, Fault
  <2>3. job' \in [Threads -> Working \cup {"idle", "waiting", "committed", "failed"}]
    BY <1>17 DEF StatementFails
  <2> QED
    BY <1>17, <2>1, <2>2, <2>3 DEF StatementFails
<1>18. ASSUME NEW t \in Threads, Rollback(t) PROVE TypeOK'
  BY <1>18 DEF Rollback, GoesTo
<1>19. ASSUME NEW t \in Threads, Discard(t) PROVE TypeOK'
  <2>1. job' \in [Threads -> Working \cup {"idle", "waiting", "committed", "failed"}]
    BY <1>19, DiscardShape DEF JobValues
  <2>2. recovering' \subseteq Threads /\ holder' \in Threads \cup {NoCall}
    BY <1>19 DEF Discard, Freed
  <2> QED
    BY <1>19, <2>1, <2>2 DEF Discard
<1>20. CASE Crash
  <2>1. pc' \in [Calls -> {"new", "append", "handler", "done"}]
    BY <1>20 DEF Crash, Running
  <2>2. answer' \in [Calls -> Answers \cup {"none"}]
    BY <1>20 DEF Crash, Running
  <2>3. job' \in [Threads -> Working \cup {"idle", "waiting", "committed", "failed"}]
    BY <1>20 DEF Crash
  <2>4. reserved' \in [Endpoints -> Int] /\ leased' \subseteq Calls
    BY <1>20 DEF Crash
  <2>5. crashes' \in 0..MaxCrashes
    BY <1>20 DEF Crash
  <2>6. /\ holder' = NoCall /\ open' = FALSE /\ reconciled' = FALSE /\ up' = FALSE
         /\ recovering' = {} /\ tx' = NoTransaction
         /\ UNCHANGED <<ledger, ran, status, crowded, faults, cancels>>
    BY <1>20 DEF Crash
  <2> QED
    BY <2>1, <2>2, <2>3, <2>4, <2>5, <2>6
<1>21. CASE Bootstrap
  <2>1. /\ ledger' \subseteq Rows /\ open' \in BOOLEAN /\ reconciled' \in BOOLEAN
        /\ up' \in BOOLEAN /\ UNCHANGED <<ran, answer>>
    BY <1>21 DEF Bootstrap, Recover
  <2>2. faults' \in 0..MaxFaults
    BY <1>21 DEF Bootstrap
  <2> QED
    BY <1>21, <2>1, <2>2 DEF Bootstrap
<1>22. CASE UNCHANGED vars
  BY <1>22 DEF vars
<1> QED
  BY <1>1, <1>2, <1>3, <1>4, <1>5, <1>6, <1>7, <1>8, <1>9, <1>10, <1>11, <1>12, <1>13,
     <1>14, <1>15, <1>16, <1>17, <1>18, <1>19, <1>20, <1>21, <1>22
  DEF Next, Task, Thread

\* Every step keeps threads and tasks in the relation JobsFollowTasks states.
LEMMA JobsStep == AuditInv /\ [Next]_vars => JobsFollowTasks'
<1> SUFFICES ASSUME AuditInv, [Next]_vars PROVE JobsFollowTasks'
  OBVIOUS
<1> USE ConstantsAssumption
<1> TypeOK /\ JobsFollowTasks /\ ThreadsAtWork
  BY DEF AuditInv
<1> USE DEF TypeOK, JobsFollowTasks, Working, OnConnection, Threads, boundVars, taskVars,
            leaseVars, trailVars, threadVars, storeVars
<1>1. ASSUME NEW c \in Calls, Admit(c) PROVE JobsFollowTasks'
  BY <1>1 DEF Admit, Append
<1>2. ASSUME NEW c \in Calls, Deny(c) PROVE JobsFollowTasks'
  BY <1>2 DEF Deny, Append
<1>3. ASSUME NEW c \in Calls, DenialReturns(c) PROVE JobsFollowTasks'
  BY <1>3 DEF DenialReturns, Resumed, Answer
<1>4. ASSUME NEW c \in Calls, HandlerStarts(c) PROVE JobsFollowTasks'
  BY <1>4 DEF HandlerStarts, Resumed
<1>5. ASSUME NEW c \in Calls, AttemptRefused(c) PROVE JobsFollowTasks'
  BY <1>5 DEF AttemptRefused, Resumed, Answer, Release
<1>6. ASSUME NEW c \in Calls, HandlerEnds(c) PROVE JobsFollowTasks'
  BY <1>6 DEF HandlerEnds, Append
<1>7. ASSUME NEW c \in Calls, TerminalReturns(c) PROVE JobsFollowTasks'
  BY <1>7 DEF TerminalReturns, Resumed, Answer, Release
<1>8. ASSUME NEW c \in Calls, Cancel(c) PROVE JobsFollowTasks'
  BY <1>8 DEF Cancel, CancelHandler, CancelAppend, Append, Answer, Release
<1>9. ASSUME NEW t \in Threads, TakeLock(t) PROVE JobsFollowTasks'
  BY <1>9 DEF TakeLock
<1>10. ASSUME NEW t \in Threads, EnsureReady(t) PROVE JobsFollowTasks'
  BY <1>10 DEF EnsureReady
<1>11. ASSUME NEW t \in Threads, OpenFails(t) PROVE JobsFollowTasks'
  BY <1>11 DEF OpenFails, Fault, Result, Freed
<1>12. ASSUME NEW t \in Threads, Begin(t) PROVE JobsFollowTasks'
  BY <1>12 DEF Begin, GoesTo
<1>13. ASSUME NEW t \in Threads, Insert(t) PROVE JobsFollowTasks'
  BY <1>13 DEF Insert, GoesTo
<1>14. ASSUME NEW t \in Threads, Commit(t) PROVE JobsFollowTasks'
  BY <1>14 DEF Commit, GoesTo, Result, Freed
<1>15. ASSUME NEW t \in Threads, Mark(t) PROVE JobsFollowTasks'
  BY <1>15 DEF Mark, GoesTo
<1>16. ASSUME NEW t \in Threads, StatementRaises(t) PROVE JobsFollowTasks'
  BY <1>16 DEF StatementRaises, GoesTo
<1>17. ASSUME NEW t \in Threads, StatementFails(t) PROVE JobsFollowTasks'
  BY <1>17 DEF StatementFails, Fault
<1>18. ASSUME NEW t \in Threads, Rollback(t) PROVE JobsFollowTasks'
  BY <1>18 DEF Rollback, GoesTo
<1>19. ASSUME NEW t \in Threads, Discard(t) PROVE JobsFollowTasks'
  BY <1>19, DiscardShape DEF Discard, Result, Freed
<1>20. CASE Crash
  BY <1>20 DEF Crash, Running
<1>21. CASE Bootstrap
  BY <1>21 DEF Bootstrap, Recover
<1>22. CASE UNCHANGED vars
  BY <1>22 DEF vars
<1> QED
  BY <1>1, <1>2, <1>3, <1>4, <1>5, <1>6, <1>7, <1>8, <1>9, <1>10, <1>11, <1>12, <1>13,
     <1>14, <1>15, <1>16, <1>17, <1>18, <1>19, <1>20, <1>21, <1>22
  DEF Next, Task, Thread

\* Every step keeps the probe and the recovering threads as ThreadsAtWork states.
LEMMA ThreadsStep == AuditInv /\ [Next]_vars => ThreadsAtWork'
<1> SUFFICES ASSUME AuditInv, [Next]_vars PROVE ThreadsAtWork'
  OBVIOUS
<1> USE ConstantsAssumption
<1> TypeOK /\ JobsFollowTasks /\ ThreadsAtWork
  BY DEF AuditInv
<1> USE DEF TypeOK, JobsFollowTasks, Working, OnConnection, Threads, ThreadsAtWork,
            NoTransaction, boundVars, taskVars,
            leaseVars, trailVars, threadVars, storeVars
<1>1. ASSUME NEW c \in Calls, Admit(c) PROVE ThreadsAtWork'
  BY <1>1 DEF Admit, Append
<1>2. ASSUME NEW c \in Calls, Deny(c) PROVE ThreadsAtWork'
  BY <1>2 DEF Deny, Append
<1>3. ASSUME NEW c \in Calls, DenialReturns(c) PROVE ThreadsAtWork'
  BY <1>3 DEF DenialReturns, Resumed, Answer
<1>4. ASSUME NEW c \in Calls, HandlerStarts(c) PROVE ThreadsAtWork'
  BY <1>4 DEF HandlerStarts, Resumed
<1>5. ASSUME NEW c \in Calls, AttemptRefused(c) PROVE ThreadsAtWork'
  BY <1>5 DEF AttemptRefused, Resumed, Answer, Release
<1>6. ASSUME NEW c \in Calls, HandlerEnds(c) PROVE ThreadsAtWork'
  BY <1>6 DEF HandlerEnds, Append
<1>7. ASSUME NEW c \in Calls, TerminalReturns(c) PROVE ThreadsAtWork'
  BY <1>7 DEF TerminalReturns, Resumed, Answer, Release
<1>8. ASSUME NEW c \in Calls, Cancel(c) PROVE ThreadsAtWork'
  BY <1>8 DEF Cancel, CancelHandler, CancelAppend, Append, Answer, Release
<1>9. ASSUME NEW t \in Threads, TakeLock(t) PROVE ThreadsAtWork'
  BY <1>9 DEF TakeLock
<1>10. ASSUME NEW t \in Threads, EnsureReady(t) PROVE ThreadsAtWork'
  BY <1>10 DEF EnsureReady
<1>11. ASSUME NEW t \in Threads, OpenFails(t) PROVE ThreadsAtWork'
  BY <1>11 DEF OpenFails, Fault, Result, Freed
<1>12. ASSUME NEW t \in Threads, Begin(t) PROVE ThreadsAtWork'
  BY <1>12 DEF Begin, GoesTo
<1>13. ASSUME NEW t \in Threads, Insert(t) PROVE ThreadsAtWork'
  BY <1>13 DEF Insert, GoesTo
<1>14. ASSUME NEW t \in Threads, Commit(t) PROVE ThreadsAtWork'
  BY <1>14 DEF Commit, GoesTo, Result, Freed
<1>15. ASSUME NEW t \in Threads, Mark(t) PROVE ThreadsAtWork'
  BY <1>15 DEF Mark, GoesTo
<1>16. ASSUME NEW t \in Threads, StatementRaises(t) PROVE ThreadsAtWork'
  BY <1>16 DEF StatementRaises, GoesTo
<1>17. ASSUME NEW t \in Threads, StatementFails(t) PROVE ThreadsAtWork'
  BY <1>17 DEF StatementFails, Fault
<1>18. ASSUME NEW t \in Threads, Rollback(t) PROVE ThreadsAtWork'
  BY <1>18 DEF Rollback, GoesTo
<1>19. ASSUME NEW t \in Threads, Discard(t) PROVE ThreadsAtWork'
  BY <1>19, DiscardShape DEF Discard, Result, Freed
<1>20. CASE Crash
  BY <1>20 DEF Crash, Running
<1>21. CASE Bootstrap
  BY <1>21 DEF Bootstrap, Recover
<1>22. CASE UNCHANGED vars
  BY <1>22 DEF vars
<1> QED
  BY <1>1, <1>2, <1>3, <1>4, <1>5, <1>6, <1>7, <1>8, <1>9, <1>10, <1>11, <1>12, <1>13,
     <1>14, <1>15, <1>16, <1>17, <1>18, <1>19, <1>20, <1>21, <1>22
  DEF Next, Task, Thread

\* Every step keeps tasks, handlers and answers in the relation TasksFollowStatus states.
LEMMA TasksStep == AuditInv /\ [Next]_vars => TasksFollowStatus'
<1> SUFFICES ASSUME AuditInv, [Next]_vars PROVE TasksFollowStatus'
  OBVIOUS
<1> USE ConstantsAssumption
<1> TypeOK /\ JobsFollowTasks /\ ThreadsAtWork /\ TasksFollowStatus
  BY DEF AuditInv
<1> USE DEF TypeOK, JobsFollowTasks, Working, OnConnection, Threads, TasksFollowStatus, Outcomes,
            Answers, boundVars, taskVars,
            leaseVars, trailVars, threadVars, storeVars
<1>1. ASSUME NEW c \in Calls, Admit(c) PROVE TasksFollowStatus'
  BY <1>1 DEF Admit, Append
<1>2. ASSUME NEW c \in Calls, Deny(c) PROVE TasksFollowStatus'
  BY <1>2 DEF Deny, Append
<1>3. ASSUME NEW c \in Calls, DenialReturns(c) PROVE TasksFollowStatus'
  BY <1>3 DEF DenialReturns, Resumed, Answer
<1>4. ASSUME NEW c \in Calls, HandlerStarts(c) PROVE TasksFollowStatus'
  BY <1>4 DEF HandlerStarts, Resumed
<1>5. ASSUME NEW c \in Calls, AttemptRefused(c) PROVE TasksFollowStatus'
  BY <1>5 DEF AttemptRefused, Resumed, Answer, Release
<1>6. ASSUME NEW c \in Calls, HandlerEnds(c) PROVE TasksFollowStatus'
  BY <1>6 DEF HandlerEnds, Append
<1>7. ASSUME NEW c \in Calls, TerminalReturns(c) PROVE TasksFollowStatus'
  BY <1>7 DEF TerminalReturns, Resumed, Answer, Release
<1>8. ASSUME NEW c \in Calls, Cancel(c) PROVE TasksFollowStatus'
  BY <1>8 DEF Cancel, CancelHandler, CancelAppend, Append, Answer, Release
<1>9. ASSUME NEW t \in Threads, TakeLock(t) PROVE TasksFollowStatus'
  BY <1>9 DEF TakeLock
<1>10. ASSUME NEW t \in Threads, EnsureReady(t) PROVE TasksFollowStatus'
  BY <1>10 DEF EnsureReady
<1>11. ASSUME NEW t \in Threads, OpenFails(t) PROVE TasksFollowStatus'
  BY <1>11 DEF OpenFails, Fault, Result, Freed
<1>12. ASSUME NEW t \in Threads, Begin(t) PROVE TasksFollowStatus'
  BY <1>12 DEF Begin, GoesTo
<1>13. ASSUME NEW t \in Threads, Insert(t) PROVE TasksFollowStatus'
  BY <1>13 DEF Insert, GoesTo
<1>14. ASSUME NEW t \in Threads, Commit(t) PROVE TasksFollowStatus'
  BY <1>14 DEF Commit, GoesTo, Result, Freed
<1>15. ASSUME NEW t \in Threads, Mark(t) PROVE TasksFollowStatus'
  BY <1>15 DEF Mark, GoesTo
<1>16. ASSUME NEW t \in Threads, StatementRaises(t) PROVE TasksFollowStatus'
  BY <1>16 DEF StatementRaises, GoesTo
<1>17. ASSUME NEW t \in Threads, StatementFails(t) PROVE TasksFollowStatus'
  BY <1>17 DEF StatementFails, Fault
<1>18. ASSUME NEW t \in Threads, Rollback(t) PROVE TasksFollowStatus'
  BY <1>18 DEF Rollback, GoesTo
<1>19. ASSUME NEW t \in Threads, Discard(t) PROVE TasksFollowStatus'
  BY <1>19, DiscardShape DEF Discard, Result, Freed
<1>20. CASE Crash
  BY <1>20 DEF Crash, Running
<1>21. CASE Bootstrap
  BY <1>21 DEF Bootstrap, Recover
<1>22. CASE UNCHANGED vars
  BY <1>22 DEF vars
<1> QED
  BY <1>1, <1>2, <1>3, <1>4, <1>5, <1>6, <1>7, <1>8, <1>9, <1>10, <1>11, <1>12, <1>13,
     <1>14, <1>15, <1>16, <1>17, <1>18, <1>19, <1>20, <1>21, <1>22
  DEF Next, Task, Thread

\* Every step keeps the rows of a call in the relation RowsFollowStatus states.
LEMMA RowsStep == AuditInv /\ [Next]_vars => RowsFollowStatus'
<1> SUFFICES ASSUME AuditInv, [Next]_vars PROVE RowsFollowStatus'
  OBVIOUS
<1> USE ConstantsAssumption
<1> TypeOK /\ JobsFollowTasks /\ ThreadsAtWork /\ TasksFollowStatus /\ RowsFollowStatus
  BY DEF AuditInv
<1> \A c, d, s, u : Row(c, s) = Row(d, u) <=> c = d /\ s = u
  BY DEF Row
<1> USE DEF TypeOK, JobsFollowTasks, Working, OnConnection, Threads, ThreadsAtWork,
            TasksFollowStatus, RowsFollowStatus, Unwritten, Seen, Attempted, Outcomes,
            NoTransaction,
            boundVars, taskVars,
            leaseVars, trailVars, threadVars, storeVars
<1>1. ASSUME NEW c \in Calls, Admit(c) PROVE RowsFollowStatus'
  BY <1>1 DEF Admit, Append
<1>2. ASSUME NEW c \in Calls, Deny(c) PROVE RowsFollowStatus'
  BY <1>2 DEF Deny, Append
<1>3. ASSUME NEW c \in Calls, DenialReturns(c) PROVE RowsFollowStatus'
  BY <1>3 DEF DenialReturns, Resumed, Answer
<1>4. ASSUME NEW c \in Calls, HandlerStarts(c) PROVE RowsFollowStatus'
  BY <1>4 DEF HandlerStarts, Resumed
<1>5. ASSUME NEW c \in Calls, AttemptRefused(c) PROVE RowsFollowStatus'
  BY <1>5 DEF AttemptRefused, Resumed, Answer, Release
<1>6. ASSUME NEW c \in Calls, HandlerEnds(c) PROVE RowsFollowStatus'
  BY <1>6 DEF HandlerEnds, Append
<1>7. ASSUME NEW c \in Calls, TerminalReturns(c) PROVE RowsFollowStatus'
  BY <1>7 DEF TerminalReturns, Resumed, Answer, Release
<1>8. ASSUME NEW c \in Calls, Cancel(c) PROVE RowsFollowStatus'
  BY <1>8 DEF Cancel, CancelHandler, CancelAppend, Append, Answer, Release
<1>9. ASSUME NEW t \in Threads, TakeLock(t) PROVE RowsFollowStatus'
  BY <1>9 DEF TakeLock
<1>10. ASSUME NEW t \in Threads, EnsureReady(t) PROVE RowsFollowStatus'
  BY <1>10 DEF EnsureReady
<1>11. ASSUME NEW t \in Threads, OpenFails(t) PROVE RowsFollowStatus'
  BY <1>11 DEF OpenFails, Fault, Result, Freed
<1>12. ASSUME NEW t \in Threads, Begin(t) PROVE RowsFollowStatus'
  BY <1>12 DEF Begin, GoesTo
<1>13. ASSUME NEW t \in Threads, Insert(t) PROVE RowsFollowStatus'
  <2>1. /\ job[t] = "insert" /\ job' = [job EXCEPT ![t] = "commit"]
        /\ UNCHANGED <<status, recovering>>
    BY <1>13 DEF Insert, GoesTo
  <2>2. /\ Seen' = Seen \cup Written(t, Seen)
        /\ \/ UNCHANGED ledger
           \/ ledger = Seen /\ ledger' = Seen \cup Written(t, Seen)
    <3>1. CASE tx.open
      <4>1. /\ UNCHANGED ledger
            /\ tx' = [tx EXCEPT !.rows = tx.rows \cup Written(t, ledger \cup tx.rows)]
        BY <1>13, <3>1 DEF Insert
      <4>2. tx'.rows = tx.rows \cup Written(t, ledger \cup tx.rows)
        BY <4>1
      <4> QED
        BY <4>1, <4>2
    <3>2. CASE ~tx.open
      <4>1. UNCHANGED tx /\ ledger' = ledger \cup Written(t, ledger \cup tx.rows)
        BY <1>13, <3>2 DEF Insert
      <4>2. tx.rows = {}
        BY <3>2
      <4> QED
        BY <4>1, <4>2
    <3> QED
      BY <3>1, <3>2
  <2>3. CASE t \in recovering
    <3>1. \A c, s : Row(c, s) \in Written(t, Seen) <=>
                      s = "outcome_unknown" /\ c \in OpenIn(Seen)
      BY <2>3 DEF Written, RecoveryIn
    <3>2. \A c \in OpenIn(Seen) : Row(c, "attempt") \in Seen
      BY DEF OpenIn
    <3>3. \A c \in Calls : Unwritten(c)' => Unwritten(c)
      BY <2>1, <2>3
    <3> HIDE DEF Seen, Unwritten
    <3> QED
      BY <2>1, <2>2, <3>1, <3>2, <3>3
  <2>4. CASE t \notin recovering
    <3>1. \A c, s : Row(c, s) \in Written(t, Seen) <=> c = t /\ c \in Calls /\ s = status[c]
      BY <2>4 DEF Written
    <3>2. /\ \A c \in Calls \ {t} : Unwritten(c)' => Unwritten(c)
          /\ t \in Calls => Unwritten(t) /\ ~Unwritten(t)' /\ status[t] # "none"
      BY <2>1, <2>4
    <3> HIDE DEF Seen, Unwritten
    <3> QED
      BY <2>1, <2>2, <3>1, <3>2
  <2> QED
    BY <2>3, <2>4
<1>14. ASSUME NEW t \in Threads, Commit(t) PROVE RowsFollowStatus'
  BY <1>14 DEF Commit, GoesTo, Result, Freed
<1>15. ASSUME NEW t \in Threads, Mark(t) PROVE RowsFollowStatus'
  BY <1>15 DEF Mark, GoesTo
<1>16. ASSUME NEW t \in Threads, StatementRaises(t) PROVE RowsFollowStatus'
  BY <1>16 DEF StatementRaises, GoesTo
<1>17. ASSUME NEW t \in Threads, StatementFails(t) PROVE RowsFollowStatus'
  BY <1>17 DEF StatementFails, Fault
<1>18. ASSUME NEW t \in Threads, Rollback(t) PROVE RowsFollowStatus'
  BY <1>18 DEF Rollback, GoesTo
<1>19. ASSUME NEW t \in Threads, Discard(t) PROVE RowsFollowStatus'
  BY <1>19, DiscardShape DEF Discard, Result, Freed
<1>20. CASE Crash
  BY <1>20 DEF Crash, Running
<1>21. CASE Bootstrap
  <2>1. UNCHANGED <<status, job, recovering, tx>>
    BY <1>21 DEF Bootstrap
  <2>2. ledger' = ledger \/ ledger' = ledger \cup RecoveryRows
    BY <1>21 DEF Bootstrap, Recover
  <2>3. \A c, s : Row(c, s) \in RecoveryRows =>
                      s = "outcome_unknown" /\ Row(c, "attempt") \in ledger
    BY DEF RecoveryRows, RecoveryIn, OpenIn
  <2> QED
    BY <2>1, <2>2, <2>3
<1>22. CASE UNCHANGED vars
  BY <1>22 DEF vars
<1> QED
  BY <1>1, <1>2, <1>3, <1>4, <1>5, <1>6, <1>7, <1>8, <1>9, <1>10, <1>11, <1>12, <1>13,
     <1>14, <1>15, <1>16, <1>17, <1>18, <1>19, <1>20, <1>21, <1>22
  DEF Next, Task, Thread

\* Every step keeps a refused caller's handler from having run.
LEMMA RefusalsStep == AuditInv /\ [Next]_vars => RefusalsAreTrue'
<1> SUFFICES ASSUME AuditInv, [Next]_vars PROVE RefusalsAreTrue'
  OBVIOUS
<1> USE ConstantsAssumption
<1> TypeOK /\ JobsFollowTasks /\ TasksFollowStatus /\ RefusalsAreTrue
  BY DEF AuditInv
<1> USE DEF TypeOK, JobsFollowTasks, TasksFollowStatus, RefusalsAreTrue, Outcomes, Answers,
            boundVars, taskVars,
            leaseVars, trailVars, threadVars, storeVars
<1>1. ASSUME NEW c \in Calls, Admit(c) PROVE RefusalsAreTrue'
  BY <1>1 DEF Admit, Append
<1>2. ASSUME NEW c \in Calls, Deny(c) PROVE RefusalsAreTrue'
  BY <1>2 DEF Deny, Append
<1>3. ASSUME NEW c \in Calls, DenialReturns(c) PROVE RefusalsAreTrue'
  BY <1>3 DEF DenialReturns, Resumed, Answer
<1>4. ASSUME NEW c \in Calls, HandlerStarts(c) PROVE RefusalsAreTrue'
  BY <1>4 DEF HandlerStarts, Resumed
<1>5. ASSUME NEW c \in Calls, AttemptRefused(c) PROVE RefusalsAreTrue'
  BY <1>5 DEF AttemptRefused, Resumed, Answer, Release
<1>6. ASSUME NEW c \in Calls, HandlerEnds(c) PROVE RefusalsAreTrue'
  BY <1>6 DEF HandlerEnds, Append
<1>7. ASSUME NEW c \in Calls, TerminalReturns(c) PROVE RefusalsAreTrue'
  BY <1>7 DEF TerminalReturns, Resumed, Answer, Release
<1>8. ASSUME NEW c \in Calls, Cancel(c) PROVE RefusalsAreTrue'
  BY <1>8 DEF Cancel, CancelHandler, CancelAppend, Append, Answer, Release
<1>9. ASSUME NEW t \in Threads, TakeLock(t) PROVE RefusalsAreTrue'
  BY <1>9 DEF TakeLock
<1>10. ASSUME NEW t \in Threads, EnsureReady(t) PROVE RefusalsAreTrue'
  BY <1>10 DEF EnsureReady
<1>11. ASSUME NEW t \in Threads, OpenFails(t) PROVE RefusalsAreTrue'
  BY <1>11 DEF OpenFails, Fault, Result, Freed
<1>12. ASSUME NEW t \in Threads, Begin(t) PROVE RefusalsAreTrue'
  BY <1>12 DEF Begin, GoesTo
<1>13. ASSUME NEW t \in Threads, Insert(t) PROVE RefusalsAreTrue'
  BY <1>13 DEF Insert, GoesTo
<1>14. ASSUME NEW t \in Threads, Commit(t) PROVE RefusalsAreTrue'
  BY <1>14 DEF Commit, GoesTo, Result, Freed
<1>15. ASSUME NEW t \in Threads, Mark(t) PROVE RefusalsAreTrue'
  BY <1>15 DEF Mark, GoesTo
<1>16. ASSUME NEW t \in Threads, StatementRaises(t) PROVE RefusalsAreTrue'
  BY <1>16 DEF StatementRaises, GoesTo
<1>17. ASSUME NEW t \in Threads, StatementFails(t) PROVE RefusalsAreTrue'
  BY <1>17 DEF StatementFails, Fault
<1>18. ASSUME NEW t \in Threads, Rollback(t) PROVE RefusalsAreTrue'
  BY <1>18 DEF Rollback, GoesTo
<1>19. ASSUME NEW t \in Threads, Discard(t) PROVE RefusalsAreTrue'
  BY <1>19 DEF Discard
<1>20. CASE Crash
  BY <1>20 DEF Crash, Running
<1>21. CASE Bootstrap
  BY <1>21 DEF Bootstrap, Recover
<1>22. CASE UNCHANGED vars
  BY <1>22 DEF vars
<1> QED
  BY <1>1, <1>2, <1>3, <1>4, <1>5, <1>6, <1>7, <1>8, <1>9, <1>10, <1>11, <1>12, <1>13,
     <1>14, <1>15, <1>16, <1>17, <1>18, <1>19, <1>20, <1>21, <1>22
  DEF Next, Task, Thread

-----------------------------------------------------------------------------
(* The inductive invariant, and what follows from it.                      *)

\* AuditInv holds initially.
LEMMA AuditInit == Init => AuditInv
<1> SUFFICES ASSUME Init PROVE AuditInv
  OBVIOUS
<1> USE ConstantsAssumption DEF Init, TrailInit, Threads, NoTransaction
<1>1. TypeOK
  <2>1. tx \in [open : BOOLEAN, rows : SUBSET Rows]
    OBVIOUS
  <2>2. /\ holder \in Threads \cup {NoCall} /\ recovering \subseteq Threads
        /\ job \in [Threads -> Working \cup {"idle", "waiting", "committed", "failed"}]
    OBVIOUS
  <2>3. faults \in 0..MaxFaults /\ cancels \in 0..MaxCancels /\ crashes \in 0..MaxCrashes
    OBVIOUS
  <2>4. answer \in [Calls -> Answers \cup {"none"}] /\ reserved \in [Endpoints -> Int]
    OBVIOUS
  <2>5. /\ pc \in [Calls -> {"new", "append", "handler", "done"}]
        /\ status \in [Calls -> Outcomes \cup {"none", "denied", "attempt"}]
    OBVIOUS
  <2> HIDE DEF Threads
  <2> QED
    BY <2>1, <2>2, <2>3, <2>4, <2>5 DEF TypeOK
<1>2. JobsFollowTasks
  BY DEF JobsFollowTasks, Working, OnConnection
<1>3. ThreadsAtWork
  BY DEF ThreadsAtWork
<1>4. TasksFollowStatus
  BY DEF TasksFollowStatus, Outcomes
<1>5. RowsFollowStatus
  BY DEF RowsFollowStatus, Attempted, Seen
<1>6. RefusalsAreTrue
  BY DEF RefusalsAreTrue
<1> QED
  BY <1>1, <1>2, <1>3, <1>4, <1>5, <1>6 DEF AuditInv

\* AuditInv is an invariant: types, threads, tasks and rows stay in the relation
\* dispatch and append_committed keep them in, however many threads of cancelled
\* appends share the connection.
THEOREM AuditInvariance == Spec => []AuditInv
<1>1. AuditInv /\ [Next]_vars => AuditInv'
  BY TypeStep, JobsStep, ThreadsStep, TasksStep, RowsStep, RefusalsStep DEF AuditInv
<1> QED
  BY AuditInit, <1>1, PTL DEF Spec

\* Every variable of the dispatcher and the ledger keeps its type.
THEOREM TypeCorrectness == Spec => []TypeOK
<1>1. AuditInv => TypeOK
  BY DEF AuditInv
<1> QED
  BY AuditInvariance, <1>1, PTL

\* dispatch writes one verdict per call, whatever fails or is cancelled.
THEOREM OneVerdictPerCall == Spec => []DispatcherSpeaksOnce
<1>1. AuditInv => DispatcherSpeaksOnce
  <2> SUFFICES ASSUME AuditInv, NEW c \in Calls
               PROVE  /\ \A s, t \in Outcomes :
                            Row(c, s) \in ledger /\ Row(c, t) \in ledger => s = t
                      /\ Row(c, "denied") \in ledger =>
                           ~Attempted(c) /\ ~ \E s \in Outcomes : Row(c, s) \in ledger
    BY DEF DispatcherSpeaksOnce
  <2>1. /\ \A s \in Outcomes \cup {"denied"} : Row(c, s) \in ledger => status[c] = s
        /\ Attempted(c) => status[c] \in Outcomes \cup {"attempt"}
    BY DEF AuditInv, RowsFollowStatus, Seen, Attempted
  <2> QED
    BY <2>1 DEF Outcomes
<1> QED
  BY AuditInvariance, <1>1, PTL

\* A caller who was refused never had its handler run: whatever the threads of
\* cancelled appends do to the ledger, dispatch says so to nobody it served.
THEOREM RefusedCallsNeverRan == Spec => []RefusalsAreTrue
<1>1. AuditInv => RefusalsAreTrue
  BY DEF AuditInv
<1> QED
  BY AuditInvariance, <1>1, PTL

-----------------------------------------------------------------------------
(* Reservations.                                                           *)

\* The calls of endpoint e that hold a lease are finitely many.
LEMMA LeasesFinite ==
  ASSUME TypeOK, NEW e
  PROVE  IsFiniteSet({d \in leased : EndpointOf[d] = e})
<1>1. {d \in leased : EndpointOf[d] = e} \in SUBSET Calls
  BY DEF TypeOK
<1> QED
  BY <1>1, ConstantsAssumption, FS_Subset

\* acquire adds one lease and its bytes to the account of its endpoint.
LEMMA LeaseTaken ==
  ASSUME TypeOK, LeaseAccounting, NEW c \in Calls, c \notin leased,
         leased' = leased \cup {c},
         reserved' = [reserved EXCEPT ![EndpointOf[c]] = @ + CALL_RESERVATION_BYTES]
  PROVE  LeaseAccounting'
<1> DEFINE S(e) == {d \in leased : EndpointOf[d] = e}
           T(e) == {d \in leased \cup {c} : EndpointOf[d] = e}
<1> SUFFICES ASSUME NEW e \in Endpoints
             PROVE  reserved'[e] = CALL_RESERVATION_BYTES * Cardinality(T(e))
  BY DEF LeaseAccounting
<1>1. IsFiniteSet(S(e)) /\ Cardinality(S(e)) \in Nat
  BY LeasesFinite, FS_CardinalityType
<1>2. reserved[e] = CALL_RESERVATION_BYTES * Cardinality(S(e))
  BY DEF LeaseAccounting
<1>3. CALL_RESERVATION_BYTES \in Nat
  BY DEF CALL_RESERVATION_BYTES, FrameBytes
<1>4. CASE EndpointOf[c] = e
  <2>1. T(e) = S(e) \cup {c} /\ c \notin S(e)
    BY <1>4
  <2>2. Cardinality(T(e)) = Cardinality(S(e)) + 1
    BY <2>1, <1>1, FS_AddElement
  <2>3. reserved'[e] = reserved[e] + CALL_RESERVATION_BYTES
    BY <1>4 DEF TypeOK
  <2> HIDE DEF S, T
  <2> QED
    BY <2>2, <2>3, <1>1, <1>2, <1>3
<1>5. CASE EndpointOf[c] # e
  <2>1. T(e) = S(e)
    BY <1>5
  <2>2. reserved'[e] = reserved[e]
    BY <1>5 DEF TypeOK
  <2> QED
    BY <2>1, <2>2, <1>2
<1> QED
  BY <1>4, <1>5

\* release gives back one lease and its bytes, or nothing the second time.
LEMMA LeaseReturned ==
  ASSUME TypeOK, LeaseAccounting, NEW c \in Calls, Release(c)
  PROVE  LeaseAccounting' /\ leased' = leased \ {c}
<1>1. CASE c \notin leased
  BY <1>1 DEF Release, LeaseAccounting, leaseVars
<1>2. CASE c \in leased
  <2>1. /\ leased' = leased \ {c}
        /\ reserved' = [reserved EXCEPT ![EndpointOf[c]] = @ - CALL_RESERVATION_BYTES]
    BY <1>2 DEF Release
  <2> DEFINE S(e) == {d \in leased : EndpointOf[d] = e}
             T(e) == {d \in leased \ {c} : EndpointOf[d] = e}
  <2> SUFFICES ASSUME NEW e \in Endpoints
               PROVE  reserved'[e] = CALL_RESERVATION_BYTES * Cardinality(T(e))
    BY <2>1 DEF LeaseAccounting
  <2>2. IsFiniteSet(S(e)) /\ Cardinality(S(e)) \in Nat
    BY LeasesFinite, FS_CardinalityType
  <2>3. reserved[e] = CALL_RESERVATION_BYTES * Cardinality(S(e))
    BY DEF LeaseAccounting
  <2>4. CALL_RESERVATION_BYTES \in Nat
    BY DEF CALL_RESERVATION_BYTES, FrameBytes
  <2>5. CASE EndpointOf[c] = e
    <3>1. T(e) = S(e) \ {c} /\ c \in S(e)
      BY <1>2, <2>5
    <3>2. Cardinality(T(e)) = Cardinality(S(e)) - 1
      BY <3>1, <2>2, FS_RemoveElement
    <3>3. reserved'[e] = reserved[e] - CALL_RESERVATION_BYTES
      BY <2>1, <2>5 DEF TypeOK
    <3> HIDE DEF S, T
    <3> QED
      BY <3>2, <3>3, <2>2, <2>3, <2>4
  <2>6. CASE EndpointOf[c] # e
    <3>1. T(e) = S(e)
      BY <2>6
    <3>2. reserved'[e] = reserved[e]
      BY <2>1, <2>6 DEF TypeOK
    <3> QED
      BY <3>1, <3>2, <2>3
  <2> QED
    BY <2>5, <2>6
<1> QED
  BY <1>1, <1>2

\* Every step keeps the leases with the tasks that owe rows, and the account
\* of every endpoint equal to its leases.
LEMMA LeasesStep == AuditInv /\ LeasesFollowTasks /\ [Next]_vars => LeasesFollowTasks'
<1> SUFFICES ASSUME AuditInv, LeasesFollowTasks, [Next]_vars PROVE LeasesFollowTasks'
  OBVIOUS
<1> TypeOK /\ JobsFollowTasks /\ LeaseAccounting
  BY DEF AuditInv, LeasesFollowTasks
<1> USE DEF TypeOK, JobsFollowTasks, LeasesFollowTasks, LeasesCoverOwedRows, LeaseAccounting,
            Owes, Outcomes, Threads, boundVars, taskVars,
            leaseVars, trailVars, storeVars
<1>1. ASSUME NEW c \in Calls, Admit(c) PROVE LeasesFollowTasks'
  <2>1. LeaseAccounting' /\ leased' = leased \cup {c}
    BY <1>1, LeaseTaken DEF Admit, Append
  <2>2. (\A d \in Calls : pc[d] = "new" => d \notin leased)' /\ LeasesCoverOwedRows'
    BY <1>1, <2>1 DEF Admit, Append
  <2> QED
    BY <2>1, <2>2
<1>2. ASSUME NEW c \in Calls, Deny(c) PROVE LeasesFollowTasks'
  BY <1>2 DEF Deny, Append
<1>3. ASSUME NEW c \in Calls, DenialReturns(c) PROVE LeasesFollowTasks'
  BY <1>3 DEF DenialReturns, Resumed, Answer
<1>4. ASSUME NEW c \in Calls, HandlerStarts(c) PROVE LeasesFollowTasks'
  BY <1>4 DEF HandlerStarts, Resumed
<1>5. ASSUME NEW c \in Calls, AttemptRefused(c) PROVE LeasesFollowTasks'
  <2>1. LeaseAccounting' /\ leased' = leased \ {c}
    BY <1>5, LeaseReturned DEF AttemptRefused, Resumed
  <2>2. (\A d \in Calls : pc[d] = "new" => d \notin leased)' /\ LeasesCoverOwedRows'
    BY <1>5, <2>1 DEF AttemptRefused, Resumed, Answer
  <2> QED
    BY <2>1, <2>2
<1>6. ASSUME NEW c \in Calls, HandlerEnds(c) PROVE LeasesFollowTasks'
  BY <1>6 DEF HandlerEnds, Append
<1>7. ASSUME NEW c \in Calls, TerminalReturns(c) PROVE LeasesFollowTasks'
  <2>1. LeaseAccounting' /\ leased' = leased \ {c}
    BY <1>7, LeaseReturned DEF TerminalReturns, Resumed
  <2>2. (\A d \in Calls : pc[d] = "new" => d \notin leased)' /\ LeasesCoverOwedRows'
    BY <1>7, <2>1 DEF TerminalReturns, Resumed, Answer
  <2> QED
    BY <2>1, <2>2
<1>8. ASSUME NEW c \in Calls, Cancel(c) PROVE LeasesFollowTasks'
  <2>1. CASE CancelHandler(c)
    BY <2>1 DEF CancelHandler, Append
  <2>2. CASE CancelAppend(c) /\ status[c] \in Outcomes
    <3>1. LeaseAccounting' /\ leased' = leased \ {c}
      BY <2>2, LeaseReturned DEF CancelAppend
    <3>2. (\A d \in Calls : pc[d] = "new" => d \notin leased)' /\ LeasesCoverOwedRows'
      BY <2>2, <3>1 DEF CancelAppend, Answer
    <3> QED
      BY <3>1, <3>2
  <2>3. CASE CancelAppend(c) /\ status[c] \notin Outcomes
    BY <2>3 DEF CancelAppend, Answer
  <2> QED
    BY <1>8, <2>1, <2>2, <2>3 DEF Cancel
<1>9. ASSUME NEW t \in Threads, TakeLock(t) PROVE LeasesFollowTasks'
  BY <1>9 DEF TakeLock
<1>10. ASSUME NEW t \in Threads, EnsureReady(t) PROVE LeasesFollowTasks'
  BY <1>10 DEF EnsureReady
<1>11. ASSUME NEW t \in Threads, OpenFails(t) PROVE LeasesFollowTasks'
  BY <1>11 DEF OpenFails, Fault, Result, Freed
<1>12. ASSUME NEW t \in Threads, Begin(t) PROVE LeasesFollowTasks'
  BY <1>12 DEF Begin, GoesTo
<1>13. ASSUME NEW t \in Threads, Insert(t) PROVE LeasesFollowTasks'
  BY <1>13 DEF Insert, GoesTo
<1>14. ASSUME NEW t \in Threads, Commit(t) PROVE LeasesFollowTasks'
  BY <1>14 DEF Commit, GoesTo, Result, Freed
<1>15. ASSUME NEW t \in Threads, Mark(t) PROVE LeasesFollowTasks'
  BY <1>15 DEF Mark, GoesTo
<1>16. ASSUME NEW t \in Threads, StatementRaises(t) PROVE LeasesFollowTasks'
  BY <1>16 DEF StatementRaises, GoesTo
<1>17. ASSUME NEW t \in Threads, StatementFails(t) PROVE LeasesFollowTasks'
  BY <1>17 DEF StatementFails, Fault
<1>18. ASSUME NEW t \in Threads, Rollback(t) PROVE LeasesFollowTasks'
  BY <1>18 DEF Rollback, GoesTo
<1>19. ASSUME NEW t \in Threads, Discard(t) PROVE LeasesFollowTasks'
  BY <1>19 DEF Discard
<1>20. CASE Crash
  <2>1. \A e \in Endpoints : {d \in {} : EndpointOf[d] = e} = {}
    OBVIOUS
  <2>2. LeaseAccounting'
    BY <1>20, <2>1, FS_EmptySet DEF Crash, CALL_RESERVATION_BYTES, FrameBytes
  <2>3. (\A d \in Calls : pc[d] = "new" => d \notin leased)' /\ LeasesCoverOwedRows'
    BY <1>20 DEF Crash, Running
  <2> QED
    BY <2>2, <2>3
<1>21. CASE Bootstrap
  BY <1>21 DEF Bootstrap, Recover
<1>22. CASE UNCHANGED vars
  BY <1>22 DEF vars
<1> QED
  BY <1>1, <1>2, <1>3, <1>4, <1>5, <1>6, <1>7, <1>8, <1>9, <1>10, <1>11, <1>12, <1>13,
     <1>14, <1>15, <1>16, <1>17, <1>18, <1>19, <1>20, <1>21, <1>22
  DEF Next, Task, Thread

\* The leases are accounted for in every reachable state.
THEOREM LeaseInvariance == Spec => []LeasesFollowTasks
<1>1. Init => LeasesFollowTasks
  <2> SUFFICES ASSUME Init PROVE LeasesFollowTasks
    OBVIOUS
  <2>1. \A e \in Endpoints : {c \in leased : EndpointOf[c] = e} = {} /\ reserved[e] = 0
    BY DEF Init
  <2>2. LeaseAccounting
    BY <2>1, FS_EmptySet DEF LeaseAccounting, CALL_RESERVATION_BYTES, FrameBytes
  <2> QED
    BY <2>2 DEF Init, LeasesFollowTasks, LeasesCoverOwedRows, Owes
<1> QED
  BY <1>1, AuditInvariance, LeasesStep, PTL DEF Spec

\* _reserved_bytes is the sum of the unreleased leases: no path through
\* dispatch releases one twice or drives the account below zero.
THEOREM LeasesAccounted == Spec => []LeaseAccounting
<1>1. LeasesFollowTasks => LeaseAccounting
  BY DEF LeasesFollowTasks
<1> QED
  BY LeaseInvariance, <1>1, PTL

\* A call that may still append keeps its reservation.
THEOREM OwedRowsAreCovered == Spec => []LeasesCoverOwedRows
<1>1. LeasesFollowTasks => LeasesCoverOwedRows
  BY DEF LeasesFollowTasks
<1> QED
  BY LeaseInvariance, <1>1, PTL


-----------------------------------------------------------------------------
(* One stray thread at most: what an append reports is in the ledger.      *)

InTransaction(j) == j \in {"insert", "commit"}

GoingToDiscard(j) == j \in {"rollback", "discard", "mark_closed"}

\* Whoever is at work holds the lock or was left behind by a cancelled append.
LEMMA TwoAtWork ==
  ASSUME AuditInv, OneStray, ~crowded, NEW t \in Threads, NEW u \in Threads, NEW v \in Threads,
         job[t] \in Working, job[u] \in Working, job[v] \in Working
  PROVE  t = u \/ u = v \/ t = v
<1>1. \A c \in Threads : job[c] \in Working => c = holder \/ c \in Strays
  BY DEF AuditInv, ThreadsAtWork, Strays, Threads, Working, OnConnection
<1>2. \A c, d \in Strays : c = d
  BY DEF OneStray
<1> QED
  BY <1>1, <1>2

\* No step but the cancellation that crowds the connection makes a second stray.
LEMMA StraysStep ==
  AuditInv /\ OneStray /\ [Next]_vars =>
      (~crowded' => ~crowded /\ \A c, d \in Strays' : c = d)
<1> DEFINE P == ~crowded' => ~crowded /\ \A c, d \in Strays' : c = d
<1> SUFFICES ASSUME AuditInv, OneStray, [Next]_vars PROVE P
  OBVIOUS
<1> USE ConstantsAssumption
<1> TypeOK /\ JobsFollowTasks /\ ThreadsAtWork /\ (~crowded => \A c, d \in Strays : c = d)
  BY DEF AuditInv, OneStray
<1> USE DEF TypeOK, JobsFollowTasks, ThreadsAtWork, Strays, Working, OnConnection, Threads,
            boundVars, taskVars, threadVars
<1>1. ASSUME NEW c \in Calls, Admit(c) PROVE P
  BY <1>1 DEF Admit, Append
<1>2. ASSUME NEW c \in Calls, Deny(c) PROVE P
  BY <1>2 DEF Deny, Append
<1>3. ASSUME NEW c \in Calls, DenialReturns(c) PROVE P
  BY <1>3 DEF DenialReturns, Resumed, Answer
<1>4. ASSUME NEW c \in Calls, HandlerStarts(c) PROVE P
  BY <1>4 DEF HandlerStarts, Resumed
<1>5. ASSUME NEW c \in Calls, AttemptRefused(c) PROVE P
  BY <1>5 DEF AttemptRefused, Resumed, Answer, Release
<1>6. ASSUME NEW c \in Calls, HandlerEnds(c) PROVE P
  BY <1>6 DEF HandlerEnds, Append
<1>7. ASSUME NEW c \in Calls, TerminalReturns(c) PROVE P
  BY <1>7 DEF TerminalReturns, Resumed, Answer, Release
<1>8. ASSUME NEW c \in Calls, Cancel(c) PROVE P
  BY <1>8 DEF Cancel, CancelHandler, CancelAppend, Append, Answer, Release
<1>9. ASSUME NEW t \in Threads, TakeLock(t) PROVE P
  BY <1>9 DEF TakeLock
<1>10. ASSUME NEW t \in Threads, EnsureReady(t) PROVE P
  BY <1>10 DEF EnsureReady
<1>11. ASSUME NEW t \in Threads, OpenFails(t) PROVE P
  BY <1>11 DEF OpenFails, Fault, Result, Freed
<1>12. ASSUME NEW t \in Threads, Begin(t) PROVE P
  BY <1>12 DEF Begin, GoesTo
<1>13. ASSUME NEW t \in Threads, Insert(t) PROVE P
  BY <1>13 DEF Insert, GoesTo
<1>14. ASSUME NEW t \in Threads, Commit(t) PROVE P
  BY <1>14 DEF Commit, GoesTo, Result, Freed
<1>15. ASSUME NEW t \in Threads, Mark(t) PROVE P
  BY <1>15 DEF Mark, GoesTo
<1>16. ASSUME NEW t \in Threads, StatementRaises(t) PROVE P
  BY <1>16 DEF StatementRaises, GoesTo
<1>17. ASSUME NEW t \in Threads, StatementFails(t) PROVE P
  BY <1>17 DEF StatementFails, Fault
<1>18. ASSUME NEW t \in Threads, Rollback(t) PROVE P
  BY <1>18 DEF Rollback, GoesTo
<1>19. ASSUME NEW t \in Threads, Discard(t) PROVE P
  BY <1>19, DiscardShape DEF Discard, Result, Freed
<1>20. CASE Crash
  BY <1>20 DEF Crash, Running
<1>21. CASE Bootstrap
  BY <1>21 DEF Bootstrap, Recover
<1>22. CASE UNCHANGED vars
  BY <1>22 DEF vars
<1> QED
  BY <1>1, <1>2, <1>3, <1>4, <1>5, <1>6, <1>7, <1>8, <1>9, <1>10, <1>11, <1>12, <1>13,
     <1>14, <1>15, <1>16, <1>17, <1>18, <1>19, <1>20, <1>21, <1>22
  DEF Next, Task, Thread

\* A thread of a call whose status stands, and that has neither begun nor ended its
\* recovery, writes the same rows.
LEMMA SameRowsWritten ==
  ASSUME NEW t \in Threads, UNCHANGED ledger, t \in recovering <=> t \in recovering',
         t \in Calls => status'[t] = status[t]
  PROVE  Written(t, ledger)' = Written(t, ledger)
<1>1. {Row(c, status'[c]) : c \in Calls \cap {t}} = {Row(c, status[c]) : c \in Calls \cap {t}}
  OBVIOUS
<1> QED
  BY <1>1 DEF Written

\* A step that puts nobody into a transaction keeps OneStray, if whoever stays in one
\* finds it as it was, or knows of a thread that is going to discard it.
LEMMA OneStrayKept ==
  ASSUME OneStray, ~crowded' => ~crowded /\ \A c, d \in Strays' : c = d,
         \A u \in Threads : InTransaction(job'[u]) =>
             /\ job'[u] = job[u]
             /\ \/ /\ UNCHANGED <<tx, ledger>>
                   /\ u \in recovering <=> u \in recovering'
                   /\ u \in Calls => status'[u] = status[u]
                   /\ \A v \in Threads : GoingToDiscard(job[v]) => GoingToDiscard(job'[v])
                \/ /\ tx' = NoTransaction
                   /\ \E v \in Threads \ {u} : GoingToDiscard(job'[v])
  PROVE  OneStray'
<1> SUFFICES ASSUME ~crowded' PROVE OneStray'
  BY DEF OneStray
<1> USE DEF InTransaction, GoingToDiscard
<1>1. \A t, u \in Threads : InTransaction(job'[t]) /\ InTransaction(job'[u]) => t = u
  BY DEF OneStray
<1>2. ASSUME NEW t \in Threads, InTransaction(job'[t])
      PROVE  /\ ~tx'.open => \E u \in Threads \ {t} : GoingToDiscard(job'[u])
             /\ job'[t] = "insert" => tx'.rows = {}
             /\ job'[t] = "commit" /\ tx'.open => tx'.rows = Written(t, ledger)'
  <2>1. CASE /\ UNCHANGED <<tx, ledger>>
             /\ t \in recovering <=> t \in recovering'
             /\ t \in Calls => status'[t] = status[t]
             /\ \A v \in Threads : GoingToDiscard(job[v]) => GoingToDiscard(job'[v])
    <3>1. Written(t, ledger)' = Written(t, ledger)
      BY <2>1, SameRowsWritten
    <3> QED
      BY <1>2, <2>1, <3>1 DEF OneStray
  <2>2. CASE tx' = NoTransaction /\ \E v \in Threads \ {t} : GoingToDiscard(job'[v])
    BY <2>2 DEF NoTransaction
  <2> QED
    BY <1>2, <2>1, <2>2
<1> QED
  BY <1>1, <1>2 DEF OneStray

\* Every step keeps the transaction to one thread, until the connection is crowded.
LEMMA OneStrayStep == AuditInv /\ OneStray /\ [Next]_vars => OneStray'
<1> SUFFICES ASSUME AuditInv, OneStray, [Next]_vars PROVE OneStray'
  OBVIOUS
<1> USE ConstantsAssumption
<1> TypeOK /\ JobsFollowTasks /\ ThreadsAtWork /\ TasksFollowStatus
  BY DEF AuditInv
<1> ~crowded' => ~crowded /\ \A c, d \in Strays' : c = d
  BY StraysStep
<1> USE DEF TypeOK, JobsFollowTasks, ThreadsAtWork, InTransaction, GoingToDiscard, Working,
            OnConnection, Threads, boundVars, taskVars, leaseVars, trailVars, threadVars, storeVars
<1>1. ASSUME NEW c \in Calls, Admit(c) PROVE OneStray'
  BY <1>1, OneStrayKept DEF Admit, Append, TasksFollowStatus
<1>2. ASSUME NEW c \in Calls, Deny(c) PROVE OneStray'
  BY <1>2, OneStrayKept DEF Deny, Append, TasksFollowStatus
<1>3. ASSUME NEW c \in Calls, DenialReturns(c) PROVE OneStray'
  BY <1>3, OneStrayKept DEF DenialReturns, Resumed, Answer
<1>4. ASSUME NEW c \in Calls, HandlerStarts(c) PROVE OneStray'
  BY <1>4, OneStrayKept DEF HandlerStarts, Resumed
<1>5. ASSUME NEW c \in Calls, AttemptRefused(c) PROVE OneStray'
  BY <1>5, OneStrayKept DEF AttemptRefused, Resumed, Answer, Release
<1>6. ASSUME NEW c \in Calls, HandlerEnds(c) PROVE OneStray'
  BY <1>6, OneStrayKept DEF HandlerEnds, Append, TasksFollowStatus
<1>7. ASSUME NEW c \in Calls, TerminalReturns(c) PROVE OneStray'
  BY <1>7, OneStrayKept DEF TerminalReturns, Resumed, Answer, Release
<1>8. ASSUME NEW c \in Calls, Cancel(c) PROVE OneStray'
  BY <1>8, OneStrayKept
  DEF Cancel, CancelHandler, CancelAppend, Append, Answer, Release, TasksFollowStatus
<1>9. ASSUME NEW t \in Threads, TakeLock(t) PROVE OneStray'
  BY <1>9, OneStrayKept DEF TakeLock
<1>10. ASSUME NEW t \in Threads, EnsureReady(t) PROVE OneStray'
  BY <1>10, OneStrayKept DEF EnsureReady
<1>11. ASSUME NEW t \in Threads, OpenFails(t) PROVE OneStray'
  BY <1>11, OneStrayKept DEF OpenFails, Fault, Result, Freed
<1>12. ASSUME NEW t \in Threads, Begin(t) PROVE OneStray'
  <2> SUFFICES ASSUME ~crowded, ~crowded' PROVE OneStray'
    BY DEF OneStray
  <2>1. /\ job[t] = "begin" /\ job' = [job EXCEPT ![t] = "insert"] /\ ~tx.open
        /\ tx' = [tx EXCEPT !.open = TRUE] /\ UNCHANGED ledger
    BY <1>12 DEF Begin, GoesTo
  <2>2. ASSUME NEW u \in Threads, InTransaction(job[u]) PROVE FALSE
    <3>1. PICK v \in Threads \ {u} : GoingToDiscard(job[v])
      BY <2>1, <2>2 DEF OneStray
    <3> QED
      BY <2>1, <2>2, <3>1, TwoAtWork
  <2>3. tx'.open /\ tx'.rows = {}
    BY <2>1
  <2>4. \A u \in Threads : InTransaction(job'[u]) => u = t
    BY <2>1, <2>2
  <2> QED
    BY <2>1, <2>3, <2>4 DEF OneStray
<1>13. ASSUME NEW t \in Threads, Insert(t) PROVE OneStray'
  <2> SUFFICES ASSUME ~crowded, ~crowded' PROVE OneStray'
    BY DEF OneStray
  <2>1. job[t] = "insert" /\ job' = [job EXCEPT ![t] = "commit"] /\ UNCHANGED <<recovering, status>>
    BY <1>13 DEF Insert, GoesTo
  <2>2. \A u \in Threads : InTransaction(job'[u]) => u = t
    BY <2>1 DEF OneStray
  <2>3. tx.rows = {}
    BY <2>1 DEF OneStray
  <2>4. CASE tx.open
    <3>1. /\ UNCHANGED ledger
          /\ tx' = [tx EXCEPT !.rows = tx.rows \cup Written(t, ledger \cup tx.rows)]
      BY <1>13, <2>4 DEF Insert
    <3>2. tx'.open /\ tx'.rows = Written(t, ledger)
      BY <2>3, <2>4, <3>1
    <3>3. Written(t, ledger)' = Written(t, ledger)
      BY <2>1, <3>1, SameRowsWritten
    <3> QED
      BY <2>1, <2>2, <3>2, <3>3 DEF OneStray
  <2>5. CASE ~tx.open
    <3>1. UNCHANGED tx
      BY <1>13, <2>5 DEF Insert
    <3>2. \E u \in Threads \ {t} : GoingToDiscard(job[u])
      BY <2>1, <2>5 DEF OneStray
    <3>3. \E u \in Threads \ {t} : GoingToDiscard(job'[u])
      BY <2>1, <3>2
    <3> QED
      BY <2>1, <2>2, <2>5, <3>1, <3>3 DEF OneStray
  <2> QED
    BY <2>4, <2>5
<1>14. ASSUME NEW t \in Threads, Commit(t) PROVE OneStray'
  <2> SUFFICES ASSUME ~crowded, ~crowded' PROVE OneStray'
    BY DEF OneStray
  <2>1. job[t] = "commit" /\ ~InTransaction(job'[t]) /\ \A u \in Threads \ {t} : job'[u] = job[u]
    BY <1>14 DEF Commit, GoesTo, Result
  <2>2. \A u \in Threads : ~InTransaction(job'[u])
    BY <2>1 DEF OneStray
  <2> QED
    BY <2>2 DEF OneStray
<1>15. ASSUME NEW t \in Threads, Mark(t) PROVE OneStray'
  BY <1>15, OneStrayKept DEF Mark, GoesTo
<1>16. ASSUME NEW t \in Threads, StatementRaises(t) PROVE OneStray'
  <2> SUFFICES ASSUME ~crowded, ~crowded' PROVE OneStray'
    BY DEF OneStray
  <2>1. CASE job[t] = "begin"
    BY <1>16, <2>1, OneStrayKept DEF StatementRaises, GoesTo
  <2>2. CASE job[t] = "commit"
    <3>1. \A u \in Threads : ~InTransaction(job'[u])
      BY <1>16, <2>2 DEF StatementRaises, GoesTo, OneStray
    <3> QED
      BY <3>1 DEF OneStray
  <2> QED
    BY <1>16, <2>1, <2>2 DEF StatementRaises
<1>17. ASSUME NEW t \in Threads, StatementFails(t) PROVE OneStray'
  <2> SUFFICES ASSUME ~crowded, ~crowded' PROVE OneStray'
    BY DEF OneStray
  <2>1. CASE job[t] = "begin"
    <3>1. /\ job' = [job EXCEPT ![t] = "rollback"] /\ tx' \in {tx, NoTransaction}
          /\ UNCHANGED <<ledger, status, recovering>>
      BY <1>17 DEF StatementFails
    <3> QED
      BY <2>1, <3>1, OneStrayKept
  <2>2. CASE job[t] \in {"insert", "commit"}
    <3>1. \A u \in Threads : ~InTransaction(job'[u])
      BY <1>17, <2>2 DEF StatementFails, OneStray
    <3> QED
      BY <3>1 DEF OneStray
  <2> QED
    BY <1>17, <2>1, <2>2 DEF StatementFails
<1>18. ASSUME NEW t \in Threads, Rollback(t) PROVE OneStray'
  BY <1>18, OneStrayKept DEF Rollback, GoesTo
<1>19. ASSUME NEW t \in Threads, Discard(t) PROVE OneStray'
  <2>1. \A u \in Threads : ~InTransaction(job'[u])
    BY <1>19, DiscardShape DEF Result
  <2> QED
    BY <2>1, OneStrayKept
<1>20. CASE Crash
  BY <1>20, OneStrayKept DEF Crash, Running
<1>21. CASE Bootstrap
  <2>1. \A u \in Threads : ~InTransaction(job'[u])
    BY <1>21 DEF Bootstrap
  <2> QED
    BY <2>1, OneStrayKept
<1>22. CASE UNCHANGED vars
  BY <1>22, OneStrayKept DEF vars
<1> QED
  BY <1>1, <1>2, <1>3, <1>4, <1>5, <1>6, <1>7, <1>8, <1>9, <1>10, <1>11, <1>12, <1>13,
     <1>14, <1>15, <1>16, <1>17, <1>18, <1>19, <1>20, <1>21, <1>22
  DEF Next, Task, Thread

\* Every step keeps what was reported in the ledger, until the connection is crowded.
LEMMA ReportsStep == AuditInv /\ OneStray /\ ReportsAreTrue /\ [Next]_vars => ReportsAreTrue'
<1> SUFFICES ASSUME AuditInv, OneStray, ReportsAreTrue, ~crowded', [Next]_vars
             PROVE  ReportsAreTrue'
  BY DEF ReportsAreTrue
<1> USE ConstantsAssumption
<1> ~crowded
  BY StraysStep
<1> TypeOK /\ JobsFollowTasks /\ ThreadsAtWork /\ TasksFollowStatus /\ RefusalsAreTrue
  BY DEF AuditInv
<1> RefusalsAreTrue'
  BY RefusalsStep
<1> USE DEF TypeOK, JobsFollowTasks, TasksFollowStatus, RefusalsAreTrue, ReportsAreTrue,
            AttemptBeforeHandler, AnswerMatchesLedger, Supported, Attempted, Outcomes, Answers,
            Working, OnConnection, Threads, boundVars, taskVars, leaseVars, trailVars, threadVars,
            storeVars
<1>1. ASSUME NEW c \in Calls, Admit(c) PROVE ReportsAreTrue'
  BY <1>1 DEF Admit, Append
<1>2. ASSUME NEW c \in Calls, Deny(c) PROVE ReportsAreTrue'
  BY <1>2 DEF Deny, Append
<1>3. ASSUME NEW c \in Calls, DenialReturns(c) PROVE ReportsAreTrue'
  BY <1>3 DEF DenialReturns, Resumed, Answer
<1>4. ASSUME NEW c \in Calls, HandlerStarts(c) PROVE ReportsAreTrue'
  BY <1>4 DEF HandlerStarts, Resumed
<1>5. ASSUME NEW c \in Calls, AttemptRefused(c) PROVE ReportsAreTrue'
  BY <1>5 DEF AttemptRefused, Resumed, Answer, Release
<1>6. ASSUME NEW c \in Calls, HandlerEnds(c) PROVE ReportsAreTrue'
  BY <1>6 DEF HandlerEnds, Append
<1>7. ASSUME NEW c \in Calls, TerminalReturns(c) PROVE ReportsAreTrue'
  BY <1>7 DEF TerminalReturns, Resumed, Answer, Release
<1>8. ASSUME NEW c \in Calls, Cancel(c) PROVE ReportsAreTrue'
  BY <1>8 DEF Cancel, CancelHandler, CancelAppend, Append, Answer, Release
<1>9. ASSUME NEW t \in Threads, TakeLock(t) PROVE ReportsAreTrue'
  BY <1>9 DEF TakeLock
<1>10. ASSUME NEW t \in Threads, EnsureReady(t) PROVE ReportsAreTrue'
  BY <1>10 DEF EnsureReady
<1>11. ASSUME NEW t \in Threads, OpenFails(t) PROVE ReportsAreTrue'
  BY <1>11 DEF OpenFails, Fault, Result, Freed
<1>12. ASSUME NEW t \in Threads, Begin(t) PROVE ReportsAreTrue'
  BY <1>12 DEF Begin, GoesTo
<1>13. ASSUME NEW t \in Threads, Insert(t) PROVE ReportsAreTrue'
  <2>1. /\ ledger \subseteq ledger' /\ UNCHANGED <<ran, answer, status>>
        /\ job' = [job EXCEPT ![t] = "commit"]
    BY <1>13 DEF Insert, GoesTo
  <2> QED
    BY <2>1
<1>14. ASSUME NEW t \in Threads, Commit(t) PROVE ReportsAreTrue'
  <2>1. ledger' = ledger \cup tx.rows /\ UNCHANGED <<ran, answer, status>>
    BY <1>14 DEF Commit, GoesTo
  <2>2. tx.rows = Written(t, ledger)
    BY <1>14 DEF Commit, OneStray
  <2>3. \A c \in Calls \ {t} : job'[c] = job[c]
    BY <1>14 DEF Commit, GoesTo
  <2>4. t \in Calls /\ job'[t] = "committed" => Row(t, status[t]) \in ledger'
    BY <1>14, <2>1, <2>2 DEF Commit, GoesTo, Written
  <2> QED
    BY <2>1, <2>3, <2>4
<1>15. ASSUME NEW t \in Threads, Mark(t) PROVE ReportsAreTrue'
  BY <1>15 DEF Mark, GoesTo
<1>16. ASSUME NEW t \in Threads, StatementRaises(t) PROVE ReportsAreTrue'
  BY <1>16 DEF StatementRaises, GoesTo
<1>17. ASSUME NEW t \in Threads, StatementFails(t) PROVE ReportsAreTrue'
  BY <1>17 DEF StatementFails, Fault
<1>18. ASSUME NEW t \in Threads, Rollback(t) PROVE ReportsAreTrue'
  BY <1>18 DEF Rollback, GoesTo
<1>19. ASSUME NEW t \in Threads, Discard(t) PROVE ReportsAreTrue'
  <2>1. \A c \in Calls : job'[c] = "committed" => job[c] = "committed"
    BY <1>19, DiscardShape DEF Result
  <2> QED
    BY <1>19, <2>1 DEF Discard
<1>20. CASE Crash
  BY <1>20 DEF Crash, Running
<1>21. CASE Bootstrap
  BY <1>21 DEF Bootstrap, Recover
<1>22. CASE UNCHANGED vars
  BY <1>22 DEF vars
<1> QED
  BY <1>1, <1>2, <1>3, <1>4, <1>5, <1>6, <1>7, <1>8, <1>9, <1>10, <1>11, <1>12, <1>13,
     <1>14, <1>15, <1>16, <1>17, <1>18, <1>19, <1>20, <1>21, <1>22
  DEF Next, Task, Thread

\* TrailInv is an invariant: while at most one thread outlives its append, the row of
\* an append that reports success is in the ledger.
THEOREM TrailInvariance == Spec => []TrailInv
<1>1. Init => OneStray /\ ReportsAreTrue
  <2> SUFFICES ASSUME Init PROVE OneStray /\ ReportsAreTrue
    OBVIOUS
  <2>1. Strays = {} /\ \A t \in Threads : job[t] = "idle"
    BY ConstantsAssumption DEF Init, Strays, Threads, Working, OnConnection
  <2>2. OneStray
    BY <2>1 DEF OneStray
  <2>3. ReportsAreTrue
    BY DEF Init, TrailInit, ReportsAreTrue, AttemptBeforeHandler, AnswerMatchesLedger, Threads
  <2> QED
    BY <2>2, <2>3
<1>2. AuditInv /\ OneStray /\ ReportsAreTrue /\ [Next]_vars => OneStray' /\ ReportsAreTrue'
  BY OneStrayStep, ReportsStep
<1>3. AuditInv /\ OneStray /\ ReportsAreTrue => TrailInv
  BY DEF TrailInv
<1> QED
  BY <1>1, <1>2, <1>3, AuditInvariance, PTL DEF Spec

\* dispatch starts no handler whose attempt row is not durable, as long as no two
\* cancelled appends have left threads at work at one time.
THEOREM AttemptPrecedesHandler == Spec => [](~crowded => AttemptBeforeHandler)
<1>1. TrailInv => (~crowded => AttemptBeforeHandler)
  BY DEF TrailInv, ReportsAreTrue
<1> QED
  BY TrailInvariance, <1>1, PTL

\* No caller is told what the ledger does not say, as long as no two cancelled
\* appends have left threads at work at one time.
THEOREM AnswersAreRecorded == Spec => [](~crowded => AnswerMatchesLedger)
<1>1. TrailInv => (~crowded => AnswerMatchesLedger)
  BY DEF TrailInv, ReportsAreTrue
<1> QED
  BY TrailInvariance, <1>1, PTL

-----------------------------------------------------------------------------
(* The audited dispatcher implements the audit trail.                      *)

\* The row of a call's own append opens its trail or concludes its handler.
LEMMA OwnRowIsTrailStep ==
  ASSUME AuditInv, NEW c \in Calls, job[c] # "idle", UNCHANGED <<ran, answer>>,
         ledger' = ledger \cup {Row(c, status[c])}
  PROVE  Open(c) \/ Conclude(c) \/ UNCHANGED trailVars
<1> TypeOK /\ TasksFollowStatus /\ RowsFollowStatus
  BY DEF AuditInv
<1> USE DEF TypeOK, RowsFollowStatus, TasksFollowStatus, Outcomes, Statuses, Attempted, Seen
<1>1. CASE Row(c, status[c]) \in ledger
  BY <1>1 DEF trailVars
<1>2. CASE Row(c, status[c]) \notin ledger /\ status[c] \in {"attempt", "denied"}
  BY <1>2 DEF Open
<1>3. CASE Row(c, status[c]) \notin ledger /\ status[c] \in Outcomes
  BY <1>3 DEF Conclude
<1> QED
  BY <1>1, <1>2, <1>3

\* So do the rows of a thread's transaction, or they are those of recovery.
LEMMA WrittenIsTrailStep ==
  ASSUME AuditInv, NEW t \in Threads, job[t] # "idle", UNCHANGED <<ran, answer>>,
         ledger' = ledger \cup Written(t, ledger)
  PROVE  (\E c \in Calls : Open(c) \/ Conclude(c)) \/ Recover \/ UNCHANGED trailVars
<1>1. CASE t \in recovering
  BY <1>1 DEF Written, Recover, RecoveryRows
<1>2. CASE t \notin recovering /\ t \in Calls
  <2>1. ledger' = ledger \cup {Row(t, status[t])}
    BY <1>2 DEF Written
  <2> QED
    BY <1>2, <2>1, OwnRowIsTrailStep
<1>3. CASE t \notin recovering /\ t \notin Calls
  BY <1>3 DEF Written, trailVars
<1> QED
  BY <1>1, <1>2, <1>3

\* Every step of the dispatcher is a step of the trail or leaves it alone.
LEMMA StepImplementsTrail ==
  TrailInv /\ TrailInv' /\ [Next]_vars => [crowded' \/ TrailNext]_trailVars
<1> SUFFICES ASSUME TrailInv, TrailInv', [Next]_vars, ~crowded' PROVE [TrailNext]_trailVars
  OBVIOUS
<1> AuditInv /\ OneStray /\ ReportsAreTrue
  BY DEF TrailInv
<1> ~crowded
  BY StraysStep
<1> TypeOK /\ JobsFollowTasks /\ ThreadsAtWork /\ TasksFollowStatus
  BY DEF AuditInv
<1> AnswerMatchesLedger'
  BY DEF TrailInv, ReportsAreTrue
<1> USE ConstantsAssumption DEF TypeOK, boundVars, taskVars, leaseVars, trailVars, threadVars,
                               storeVars, Threads
<1>1. ASSUME NEW c \in Calls, UNCHANGED <<ledger, ran>>, answer[c] = "none",
             NEW a \in Answers, Answer(c, a)
      PROVE  Reply(c)
  <2>1. answer'[c] = a /\ a # "none"
    BY <1>1 DEF Answer, Answers
  <2>2. Supported(c, a)'
    BY <2>1 DEF AnswerMatchesLedger
  <2>3. Supported(c, a)
    BY <2>2, <1>1 DEF Supported
  <2> QED
    BY <1>1, <2>3 DEF Reply, Answer
<1>2. ASSUME NEW c \in Calls, Admit(c) \/ Deny(c) \/ HandlerEnds(c) PROVE UNCHANGED trailVars
  BY <1>2 DEF Admit, Deny, HandlerEnds
<1>3. ASSUME NEW c \in Calls, holder = c PROVE answer[c] = "none"
  BY <1>3 DEF JobsFollowTasks, TasksFollowStatus
<1>4. ASSUME NEW c \in Calls, DenialReturns(c) PROVE Reply(c)
  BY <1>4, <1>3, <1>1 DEF DenialReturns, Resumed, Answers
<1>5. ASSUME NEW c \in Calls, HandlerStarts(c) PROVE Run(c)
  <2>1. Attempted(c)
    BY <1>5 DEF HandlerStarts, Resumed, ReportsAreTrue, Attempted
  <2>2. c \notin ran
    BY <1>5 DEF HandlerStarts, Resumed, TasksFollowStatus
  <2> QED
    BY <1>5, <1>3, <2>1, <2>2 DEF HandlerStarts, Resumed, Run
<1>6. ASSUME NEW c \in Calls, AttemptRefused(c) PROVE Reply(c)
  BY <1>6, <1>3, <1>1 DEF AttemptRefused, Resumed, Answers
<1>7. ASSUME NEW c \in Calls, TerminalReturns(c) PROVE Reply(c)
  BY <1>7, <1>3, <1>1 DEF TerminalReturns, Resumed, Answers, Outcomes
<1>8. ASSUME NEW c \in Calls, Cancel(c) PROVE Reply(c) \/ UNCHANGED trailVars
  <2>1. CASE CancelHandler(c)
    BY <2>1 DEF CancelHandler
  <2>2. CASE CancelAppend(c)
    BY <2>2, <1>1 DEF CancelAppend, TasksFollowStatus, Answers
  <2> QED
    BY <1>8, <2>1, <2>2 DEF Cancel
<1>9. ASSUME NEW t \in Threads, Thread(t)
      PROVE  (\E c \in Calls : Open(c) \/ Conclude(c)) \/ Recover \/ UNCHANGED trailVars
  <2>1. CASE TakeLock(t) \/ EnsureReady(t) \/ OpenFails(t) \/ StatementFails(t) \/ Discard(t)
    BY <2>1 DEF TakeLock, EnsureReady, OpenFails, StatementFails, Discard
  <2>2. CASE Begin(t) \/ Mark(t) \/ StatementRaises(t) \/ Rollback(t)
    BY <2>2 DEF Begin, Mark, StatementRaises, Rollback, GoesTo
  <2>3. CASE Insert(t) /\ tx.open
    BY <2>3 DEF Insert, GoesTo
  <2>4. CASE Insert(t) /\ ~tx.open
    <3>1. tx.rows = {}
      BY <2>4 DEF ThreadsAtWork
    <3>2. ledger' = ledger \cup Written(t, ledger) /\ job[t] # "idle" /\ UNCHANGED <<ran, answer>>
      BY <2>4, <3>1 DEF Insert, GoesTo
    <3> QED
      BY <3>2, WrittenIsTrailStep
  <2>5. CASE Commit(t)
    <3>1. tx.rows = Written(t, ledger)
      BY <2>5 DEF Commit, OneStray
    <3>2. ledger' = ledger \cup Written(t, ledger) /\ job[t] # "idle" /\ UNCHANGED <<ran, answer>>
      BY <2>5, <3>1 DEF Commit, GoesTo
    <3> QED
      BY <3>2, WrittenIsTrailStep
  <2> QED
    BY <1>9, <2>1, <2>2, <2>3, <2>4, <2>5 DEF Thread
<1>10. Bootstrap => Recover \/ UNCHANGED trailVars
  BY DEF Bootstrap
<1>11. CASE Crash
  <2>1. /\ Running \in SUBSET Calls
        /\ answer' = [c \in Calls |-> IF c \in Running THEN "lost" ELSE answer[c]]
        /\ UNCHANGED <<ledger, ran>>
    BY <1>11 DEF Crash, Running
  <2>2. \A c \in Running : answer[c] = "none"
    BY DEF Running, TasksFollowStatus
  <2> QED
    BY <2>1, <2>2 DEF Die, TrailNext
<1>12. CASE UNCHANGED vars
  BY <1>12 DEF vars
<1> QED
  BY <1>2, <1>4, <1>5, <1>6, <1>7, <1>8, <1>9, <1>10, <1>11, <1>12 DEF Next, Task, TrailNext

\* dispatch, over the SQLite ledger with its failures, cancellations and crashes,
\* implements the audit trail until two cancelled appends have left threads at work at
\* one time: from then on the one connection they share gives no such promise.
THEOREM DispatchImplementsTrail == Spec => TrailUntilCrowded
<1>1. Init => TrailInit
  BY DEF Init
<1> QED
  BY <1>1, StepImplementsTrail, TrailInvariance, PTL DEF Spec, TrailUntilCrowded

-----------------------------------------------------------------------------
(* What a cancellation leaves behind: abandoned attempts and lost leases.  *)

\* Only a cancellation ends a call under its thread.
LEMMA StraysCancelledStep ==
  AuditInv /\ StraysWereCancelled /\ [Next]_vars => StraysWereCancelled'
<1> SUFFICES ASSUME AuditInv, StraysWereCancelled, [Next]_vars PROVE StraysWereCancelled'
  OBVIOUS
<1> TypeOK /\ JobsFollowTasks /\ TasksFollowStatus /\ ConstantsAssumption
  BY ConstantsAssumption DEF AuditInv
<1> USE DEF TypeOK, JobsFollowTasks, TasksFollowStatus, StraysWereCancelled, Outcomes, Working,
            OnConnection, Threads, boundVars, taskVars, leaseVars, trailVars, threadVars
<1>1. ASSUME NEW c \in Calls, Admit(c) PROVE StraysWereCancelled'
  BY <1>1 DEF Admit, Append
<1>2. ASSUME NEW c \in Calls, Deny(c) PROVE StraysWereCancelled'
  BY <1>2 DEF Deny, Append
<1>3. ASSUME NEW c \in Calls, DenialReturns(c) PROVE StraysWereCancelled'
  BY <1>3 DEF DenialReturns, Resumed, Answer
<1>4. ASSUME NEW c \in Calls, HandlerStarts(c) PROVE StraysWereCancelled'
  BY <1>4 DEF HandlerStarts, Resumed
<1>5. ASSUME NEW c \in Calls, AttemptRefused(c) PROVE StraysWereCancelled'
  BY <1>5 DEF AttemptRefused, Resumed, Answer, Release
<1>6. ASSUME NEW c \in Calls, HandlerEnds(c) PROVE StraysWereCancelled'
  BY <1>6 DEF HandlerEnds, Append
<1>7. ASSUME NEW c \in Calls, TerminalReturns(c) PROVE StraysWereCancelled'
  BY <1>7 DEF TerminalReturns, Resumed, Answer, Release
<1>8. ASSUME NEW c \in Calls, Cancel(c) PROVE StraysWereCancelled'
  BY <1>8 DEF Cancel, CancelHandler, CancelAppend, Append, Answer, Release
<1>9. ASSUME NEW t \in Threads, TakeLock(t) PROVE StraysWereCancelled'
  BY <1>9 DEF TakeLock
<1>10. ASSUME NEW t \in Threads, EnsureReady(t) PROVE StraysWereCancelled'
  BY <1>10 DEF EnsureReady
<1>11. ASSUME NEW t \in Threads, OpenFails(t) PROVE StraysWereCancelled'
  BY <1>11 DEF OpenFails, Fault, Result, Freed
<1>12. ASSUME NEW t \in Threads, Begin(t) PROVE StraysWereCancelled'
  BY <1>12 DEF Begin, GoesTo
<1>13. ASSUME NEW t \in Threads, Insert(t) PROVE StraysWereCancelled'
  BY <1>13 DEF Insert, GoesTo
<1>14. ASSUME NEW t \in Threads, Commit(t) PROVE StraysWereCancelled'
  BY <1>14 DEF Commit, GoesTo, Result, Freed
<1>15. ASSUME NEW t \in Threads, Mark(t) PROVE StraysWereCancelled'
  BY <1>15 DEF Mark, GoesTo
<1>16. ASSUME NEW t \in Threads, StatementRaises(t) PROVE StraysWereCancelled'
  BY <1>16 DEF StatementRaises, GoesTo
<1>17. ASSUME NEW t \in Threads, StatementFails(t) PROVE StraysWereCancelled'
  BY <1>17 DEF StatementFails, Fault
<1>18. ASSUME NEW t \in Threads, Rollback(t) PROVE StraysWereCancelled'
  BY <1>18 DEF Rollback, GoesTo
<1>19. ASSUME NEW t \in Threads, Discard(t) PROVE StraysWereCancelled'
  <2>1. \A c \in Calls : job'[c] # "idle" => job[c] # "idle"
    BY <1>19, DiscardShape DEF Discard, OnConnection
  <2> QED
    BY <1>19, <2>1 DEF Discard
<1>20. CASE Crash
  BY <1>20 DEF Crash, Running
<1>21. CASE Bootstrap
  BY <1>21 DEF Bootstrap, Recover
<1>22. CASE UNCHANGED vars
  BY <1>22 DEF vars
<1> QED
  BY <1>1, <1>2, <1>3, <1>4, <1>5, <1>6, <1>7, <1>8, <1>9, <1>10, <1>11, <1>12, <1>13,
     <1>14, <1>15, <1>16, <1>17, <1>18, <1>19, <1>20, <1>21, <1>22
  DEF Next, Task, Thread

\* Whoever is going to discard the connection is stopped by nothing but the discard.
LEMMA DiscardStaysDue ==
  ASSUME AuditInv, [Next]_vars, DiscardIsDue
  PROVE  DiscardIsDue' \/ Crash \/ \E t \in Threads : Discard(t)
<1> DEFINE P == DiscardIsDue' \/ Crash \/ \E t \in Threads : Discard(t)
<1> TypeOK /\ JobsFollowTasks /\ ThreadsAtWork /\ TasksFollowStatus /\ ConstantsAssumption
  BY ConstantsAssumption DEF AuditInv
<1> USE DEF TypeOK, JobsFollowTasks, ThreadsAtWork, TasksFollowStatus, DiscardIsDue, Working,
            OnConnection, Threads, boundVars, taskVars, leaseVars, trailVars, threadVars
<1>1. ASSUME NEW c \in Calls, Admit(c) PROVE P
  BY <1>1 DEF Admit, Append
<1>2. ASSUME NEW c \in Calls, Deny(c) PROVE P
  BY <1>2 DEF Deny, Append
<1>3. ASSUME NEW c \in Calls, DenialReturns(c) PROVE P
  BY <1>3 DEF DenialReturns, Resumed, Answer
<1>4. ASSUME NEW c \in Calls, HandlerStarts(c) PROVE P
  BY <1>4 DEF HandlerStarts, Resumed
<1>5. ASSUME NEW c \in Calls, AttemptRefused(c) PROVE P
  BY <1>5 DEF AttemptRefused, Resumed, Answer, Release
<1>6. ASSUME NEW c \in Calls, HandlerEnds(c) PROVE P
  BY <1>6 DEF HandlerEnds, Append
<1>7. ASSUME NEW c \in Calls, TerminalReturns(c) PROVE P
  BY <1>7 DEF TerminalReturns, Resumed, Answer, Release
<1>8. ASSUME NEW c \in Calls, Cancel(c) PROVE P
  BY <1>8 DEF Cancel, CancelHandler, CancelAppend, Append, Answer, Release
<1>9. ASSUME NEW t \in Threads, TakeLock(t) PROVE P
  BY <1>9 DEF TakeLock
<1>10. ASSUME NEW t \in Threads, EnsureReady(t) PROVE P
  BY <1>10 DEF EnsureReady
<1>11. ASSUME NEW t \in Threads, OpenFails(t) PROVE P
  BY <1>11 DEF OpenFails, Fault, Result, Freed
<1>12. ASSUME NEW t \in Threads, Begin(t) PROVE P
  BY <1>12 DEF Begin, GoesTo
<1>13. ASSUME NEW t \in Threads, Insert(t) PROVE P
  BY <1>13 DEF Insert, GoesTo
<1>14. ASSUME NEW t \in Threads, Commit(t) PROVE P
  BY <1>14 DEF Commit, GoesTo, Result, Freed
<1>15. ASSUME NEW t \in Threads, Mark(t) PROVE P
  BY <1>15 DEF Mark, GoesTo
<1>16. ASSUME NEW t \in Threads, StatementRaises(t) PROVE P
  BY <1>16 DEF StatementRaises, GoesTo
<1>17. ASSUME NEW t \in Threads, StatementFails(t) PROVE P
  BY <1>17 DEF StatementFails, Fault
<1>18. ASSUME NEW t \in Threads, Rollback(t) PROVE P
  BY <1>18 DEF Rollback, GoesTo
<1>19. ASSUME NEW t \in Threads, Discard(t) PROVE P
  BY <1>19
<1>20. CASE Crash
  BY <1>20
<1>21. CASE Bootstrap
  BY <1>21 DEF Bootstrap, Recover
<1>22. CASE UNCHANGED vars
  BY <1>22 DEF vars
<1> QED
  BY <1>1, <1>2, <1>3, <1>4, <1>5, <1>6, <1>7, <1>8, <1>9, <1>10, <1>11, <1>12, <1>13,
     <1>14, <1>15, <1>16, <1>17, <1>18, <1>19, <1>20, <1>21, <1>22
  DEF Next, Task, Thread

\* After a discard, or a crash, nobody is in a transaction or about to call the store
\* reconciled.
LEMMA DiscardClears ==
  ASSUME TypeOK, Crash \/ \E t \in Threads : Discard(t)
  PROVE  /\ \A u \in Threads : job'[u] \notin OnConnection
         /\ ~open' /\ ~reconciled'
<1>1. ASSUME NEW t \in Threads, Discard(t)
      PROVE  \A u \in Threads : job'[u] \notin OnConnection
  BY <1>1, DiscardShape DEF Result, OnConnection
<1> QED
  BY <1>1 DEF Crash, Discard, OnConnection

\* A step that puts nobody into a transaction, and leaves the transaction to whoever is
\* in it, or leaves a discard due.
LEMMA OwnTransactionKept ==
  ASSUME OwnTransaction,
         DiscardIsDue => DiscardIsDue',
         \/ DiscardIsDue'
         \/ \A u \in Threads : InTransaction(job'[u]) =>
              /\ job'[u] = job[u]
              /\ UNCHANGED <<tx, ledger>>
              /\ u \in recovering <=> u \in recovering'
              /\ u \in Calls => status'[u] = status[u]
  PROVE  OwnTransaction'
<1> SUFFICES ASSUME ~DiscardIsDue' PROVE OwnTransaction'
  BY DEF OwnTransaction
<1> USE DEF InTransaction
<1>1. \A t, u \in Threads : InTransaction(job'[t]) /\ InTransaction(job'[u]) => t = u
  BY DEF OwnTransaction
<1>2. ASSUME NEW t \in Threads, InTransaction(job'[t])
      PROVE  /\ job'[t] = "insert" => tx'.open /\ tx'.rows = {}
             /\ job'[t] = "commit" => tx'.open /\ tx'.rows = Written(t, ledger)'
  <2>1. Written(t, ledger)' = Written(t, ledger)
    BY <1>2, SameRowsWritten
  <2> QED
    BY <1>2, <2>1 DEF OwnTransaction
<1> QED
  BY <1>1, <1>2 DEF OwnTransaction

\* Every step leaves the transaction to the thread that began it, or a discard due.
LEMMA OwnTransactionStep ==
  AuditInv /\ OwnTransaction /\ [Next]_vars => OwnTransaction'
<1> SUFFICES ASSUME AuditInv, OwnTransaction, [Next]_vars PROVE OwnTransaction'
  OBVIOUS
<1> USE ConstantsAssumption
<1> TypeOK /\ JobsFollowTasks /\ ThreadsAtWork /\ TasksFollowStatus
  BY DEF AuditInv
<1>0. DiscardIsDue => DiscardIsDue' \/ Crash \/ \E t \in Threads : Discard(t)
  BY DiscardStaysDue
<1> USE DEF TypeOK, JobsFollowTasks, ThreadsAtWork, InTransaction, DiscardIsDue, Working,
            OnConnection, Threads, boundVars, taskVars, leaseVars, trailVars, threadVars, storeVars
<1>1. ASSUME NEW c \in Calls, Admit(c) PROVE OwnTransaction'
  <2>1. DiscardIsDue => DiscardIsDue'
    BY <1>1 DEF TasksFollowStatus, Admit, Append
  <2> QED
    BY <1>1, <2>1, OwnTransactionKept DEF TasksFollowStatus, Admit, Append
<1>2. ASSUME NEW c \in Calls, Deny(c) PROVE OwnTransaction'
  <2>1. DiscardIsDue => DiscardIsDue'
    BY <1>2 DEF TasksFollowStatus, Deny, Append
  <2> QED
    BY <1>2, <2>1, OwnTransactionKept DEF TasksFollowStatus, Deny, Append
<1>3. ASSUME NEW c \in Calls, DenialReturns(c) PROVE OwnTransaction'
  <2>1. DiscardIsDue => DiscardIsDue'
    BY <1>3 DEF DenialReturns, Resumed, Answer
  <2> QED
    BY <1>3, <2>1, OwnTransactionKept DEF DenialReturns, Resumed, Answer
<1>4. ASSUME NEW c \in Calls, HandlerStarts(c) PROVE OwnTransaction'
  <2>1. DiscardIsDue => DiscardIsDue'
    BY <1>4 DEF HandlerStarts, Resumed
  <2> QED
    BY <1>4, <2>1, OwnTransactionKept DEF HandlerStarts, Resumed
<1>5. ASSUME NEW c \in Calls, AttemptRefused(c) PROVE OwnTransaction'
  <2>1. DiscardIsDue => DiscardIsDue'
    BY <1>5 DEF AttemptRefused, Resumed, Answer, Release
  <2> QED
    BY <1>5, <2>1, OwnTransactionKept DEF AttemptRefused, Resumed, Answer, Release
<1>6. ASSUME NEW c \in Calls, HandlerEnds(c) PROVE OwnTransaction'
  <2>1. DiscardIsDue => DiscardIsDue'
    BY <1>6 DEF TasksFollowStatus, HandlerEnds, Append
  <2> QED
    BY <1>6, <2>1, OwnTransactionKept DEF TasksFollowStatus, HandlerEnds, Append
<1>7. ASSUME NEW c \in Calls, TerminalReturns(c) PROVE OwnTransaction'
  <2>1. DiscardIsDue => DiscardIsDue'
    BY <1>7 DEF TerminalReturns, Resumed, Answer, Release
  <2> QED
    BY <1>7, <2>1, OwnTransactionKept DEF TerminalReturns, Resumed, Answer, Release
<1>8. ASSUME NEW c \in Calls, Cancel(c) PROVE OwnTransaction'
  <2>1. DiscardIsDue => DiscardIsDue'
    BY <1>8 DEF TasksFollowStatus, Cancel, CancelHandler, CancelAppend, Append, Answer, Release
  <2> QED
    BY <1>8, <2>1, OwnTransactionKept
    DEF TasksFollowStatus, Cancel, CancelHandler, CancelAppend, Append, Answer, Release
<1>9. ASSUME NEW t \in Threads, TakeLock(t) PROVE OwnTransaction'
  <2>1. DiscardIsDue => DiscardIsDue'
    BY <1>9 DEF TakeLock
  <2> QED
    BY <1>9, <2>1, OwnTransactionKept DEF TakeLock
<1>10. ASSUME NEW t \in Threads, EnsureReady(t) PROVE OwnTransaction'
  <2>1. DiscardIsDue => DiscardIsDue'
    BY <1>10 DEF EnsureReady
  <2> QED
    BY <1>10, <2>1, OwnTransactionKept DEF EnsureReady
<1>11. ASSUME NEW t \in Threads, OpenFails(t) PROVE OwnTransaction'
  <2>1. DiscardIsDue => DiscardIsDue'
    BY <1>11 DEF OpenFails, Fault, Result, Freed
  <2> QED
    BY <1>11, <2>1, OwnTransactionKept DEF OpenFails, Fault, Result, Freed
<1>12. ASSUME NEW t \in Threads, Begin(t) PROVE OwnTransaction'
  <2> SUFFICES ASSUME ~DiscardIsDue' PROVE OwnTransaction'
    BY DEF OwnTransaction
  <2>1. /\ job[t] = "begin" /\ job' = [job EXCEPT ![t] = "insert"] /\ ~tx.open
        /\ tx' = [tx EXCEPT !.open = TRUE]
    BY <1>12 DEF Begin, GoesTo
  <2>2. ~DiscardIsDue
    BY <2>1
  <2>3. \A u \in Threads : ~InTransaction(job[u])
    BY <2>1, <2>2 DEF OwnTransaction
  <2>4. \A u \in Threads : InTransaction(job'[u]) => u = t
    BY <2>1, <2>3
  <2>5. tx'.open /\ tx'.rows = {}
    BY <2>1
  <2> QED
    BY <2>1, <2>4, <2>5 DEF OwnTransaction
<1>13. ASSUME NEW t \in Threads, Insert(t) PROVE OwnTransaction'
  <2> SUFFICES ASSUME ~DiscardIsDue' PROVE OwnTransaction'
    BY DEF OwnTransaction
  <2>1. job[t] = "insert" /\ job' = [job EXCEPT ![t] = "commit"] /\ UNCHANGED <<recovering, status>>
    BY <1>13 DEF Insert, GoesTo
  <2>2. ~DiscardIsDue
    BY <2>1
  <2>3. tx.open /\ tx.rows = {}
    BY <2>1, <2>2 DEF OwnTransaction
  <2>4. UNCHANGED ledger /\ tx' = [tx EXCEPT !.rows = tx.rows \cup Written(t, ledger \cup tx.rows)]
    BY <1>13, <2>3 DEF Insert
  <2>5. tx'.open /\ tx'.rows = Written(t, ledger)
    BY <2>3, <2>4
  <2>6. Written(t, ledger)' = Written(t, ledger)
    BY <2>1, <2>4, SameRowsWritten
  <2>7. \A u \in Threads : InTransaction(job'[u]) => u = t
    BY <2>1, <2>2 DEF OwnTransaction
  <2> QED
    BY <2>1, <2>5, <2>6, <2>7 DEF OwnTransaction
<1>14. ASSUME NEW t \in Threads, Commit(t) PROVE OwnTransaction'
  <2> SUFFICES ASSUME ~DiscardIsDue' PROVE OwnTransaction'
    BY DEF OwnTransaction
  <2>1. job[t] = "commit" /\ ~InTransaction(job'[t]) /\ \A u \in Threads \ {t} : job'[u] = job[u]
    BY <1>14 DEF Commit, GoesTo, Result
  <2>2. ~DiscardIsDue
    BY <2>1
  <2>3. \A u \in Threads : ~InTransaction(job'[u])
    BY <2>1, <2>2 DEF OwnTransaction
  <2> QED
    BY <2>3 DEF OwnTransaction
<1>15. ASSUME NEW t \in Threads, Mark(t) PROVE OwnTransaction'
  <2>1. DiscardIsDue => DiscardIsDue'
    BY <1>15 DEF Mark, GoesTo
  <2> QED
    BY <1>15, <2>1, OwnTransactionKept DEF Mark, GoesTo
<1>16. ASSUME NEW t \in Threads, StatementRaises(t) PROVE OwnTransaction'
  <2>1. DiscardIsDue'
    BY <1>16 DEF StatementRaises, GoesTo
  <2> QED
    BY <2>1 DEF OwnTransaction
<1>17. ASSUME NEW t \in Threads, StatementFails(t) PROVE OwnTransaction'
  <2>1. DiscardIsDue'
    BY <1>17 DEF StatementFails
  <2> QED
    BY <2>1 DEF OwnTransaction
<1>18. ASSUME NEW t \in Threads, Rollback(t) PROVE OwnTransaction'
  <2>1. DiscardIsDue'
    BY <1>18 DEF Rollback, GoesTo
  <2> QED
    BY <2>1 DEF OwnTransaction
<1>19. ASSUME NEW t \in Threads, Discard(t) PROVE OwnTransaction'
  <2>1. \A u \in Threads : ~InTransaction(job'[u])
    BY <1>19, DiscardClears
  <2> QED
    BY <2>1 DEF OwnTransaction
<1>20. CASE Crash
  <2>1. \A u \in Threads : ~InTransaction(job'[u])
    BY <1>20, DiscardClears
  <2> QED
    BY <2>1 DEF OwnTransaction
<1>21. CASE Bootstrap
  <2>1. \A u \in Threads : ~InTransaction(job'[u])
    BY <1>21 DEF Bootstrap
  <2> QED
    BY <2>1 DEF OwnTransaction
<1>22. CASE UNCHANGED vars
  <2>1. DiscardIsDue => DiscardIsDue'
    BY <1>22 DEF vars
  <2> QED
    BY <1>22, <2>1, OwnTransactionKept DEF vars
<1> QED
  BY <1>1, <1>2, <1>3, <1>4, <1>5, <1>6, <1>7, <1>8, <1>9, <1>10, <1>11, <1>12, <1>13,
     <1>14, <1>15, <1>16, <1>17, <1>18, <1>19, <1>20, <1>21, <1>22
  DEF Next, Task, Thread

\* Every step that closes the store leaves nobody at work on it, and nobody calls it
\* reconciled but a thread that is going to discard it.
LEMMA ClosedStoreStep == AuditInv /\ ClosedStore /\ [Next]_vars => ClosedStore'
<1> SUFFICES ASSUME AuditInv, ClosedStore, [Next]_vars PROVE ClosedStore'
  OBVIOUS
<1> USE ConstantsAssumption
<1> TypeOK /\ JobsFollowTasks /\ ThreadsAtWork /\ TasksFollowStatus
  BY DEF AuditInv
<1> USE DEF TypeOK, JobsFollowTasks, ThreadsAtWork, TasksFollowStatus, ClosedStore, DiscardIsDue,
            Working, OnConnection, Threads, boundVars, taskVars, leaseVars, trailVars, threadVars,
            storeVars
<1>1. ASSUME NEW c \in Calls, Admit(c) PROVE ClosedStore'
  BY <1>1 DEF Admit, Append
<1>2. ASSUME NEW c \in Calls, Deny(c) PROVE ClosedStore'
  BY <1>2 DEF Deny, Append
<1>3. ASSUME NEW c \in Calls, DenialReturns(c) PROVE ClosedStore'
  BY <1>3 DEF DenialReturns, Resumed, Answer
<1>4. ASSUME NEW c \in Calls, HandlerStarts(c) PROVE ClosedStore'
  BY <1>4 DEF HandlerStarts, Resumed
<1>5. ASSUME NEW c \in Calls, AttemptRefused(c) PROVE ClosedStore'
  BY <1>5 DEF AttemptRefused, Resumed, Answer, Release
<1>6. ASSUME NEW c \in Calls, HandlerEnds(c) PROVE ClosedStore'
  BY <1>6 DEF HandlerEnds, Append
<1>7. ASSUME NEW c \in Calls, TerminalReturns(c) PROVE ClosedStore'
  BY <1>7 DEF TerminalReturns, Resumed, Answer, Release
<1>8. ASSUME NEW c \in Calls, Cancel(c) PROVE ClosedStore'
  BY <1>8 DEF Cancel, CancelHandler, CancelAppend, Append, Answer, Release
<1>9. ASSUME NEW t \in Threads, TakeLock(t) PROVE ClosedStore'
  BY <1>9 DEF TakeLock
<1>10. ASSUME NEW t \in Threads, EnsureReady(t) PROVE ClosedStore'
  BY <1>10 DEF EnsureReady
<1>11. ASSUME NEW t \in Threads, OpenFails(t) PROVE ClosedStore'
  BY <1>11 DEF OpenFails, Fault, Result, Freed
<1>12. ASSUME NEW t \in Threads, Begin(t) PROVE ClosedStore'
  BY <1>12 DEF Begin, GoesTo
<1>13. ASSUME NEW t \in Threads, Insert(t) PROVE ClosedStore'
  BY <1>13 DEF Insert, GoesTo
<1>14. ASSUME NEW t \in Threads, Commit(t) PROVE ClosedStore'
  BY <1>14 DEF Commit, GoesTo, Result, Freed
<1>15. ASSUME NEW t \in Threads, Mark(t) PROVE ClosedStore'
  BY <1>15 DEF Mark, GoesTo
<1>16. ASSUME NEW t \in Threads, StatementRaises(t) PROVE ClosedStore'
  BY <1>16 DEF StatementRaises, GoesTo
<1>17. ASSUME NEW t \in Threads, StatementFails(t) PROVE ClosedStore'
  BY <1>17 DEF StatementFails, Fault
<1>18. ASSUME NEW t \in Threads, Rollback(t) PROVE ClosedStore'
  BY <1>18 DEF Rollback, GoesTo
<1>19. ASSUME NEW t \in Threads, Discard(t) PROVE ClosedStore'
  BY <1>19, DiscardClears DEF OnConnection
<1>20. CASE Crash
  BY <1>20, DiscardClears DEF OnConnection
<1>21. CASE Bootstrap
  BY <1>21 DEF Bootstrap, Recover
<1>22. CASE UNCHANGED vars
  BY <1>22 DEF vars
<1> QED
  BY <1>1, <1>2, <1>3, <1>4, <1>5, <1>6, <1>7, <1>8, <1>9, <1>10, <1>11, <1>12, <1>13,
     <1>14, <1>15, <1>16, <1>17, <1>18, <1>19, <1>20, <1>21, <1>22
  DEF Next, Task, Thread

\* A step that leaves the ledger alone opens and closes nothing.
LEMMA SameLedgerSameOpen ==
  ASSUME UNCHANGED ledger PROVE OpenAttempts' = OpenAttempts
BY DEF OpenAttempts, OpenIn

\* Recovery leaves nothing open.
LEMMA RecoveryCloses ==
  ASSUME ledger' = ledger \cup RecoveryRows PROVE OpenAttempts' = {}
<1> SUFFICES ASSUME NEW c \in Calls, c \in OpenAttempts' PROVE FALSE
  BY DEF OpenAttempts, OpenIn
<1>1. Row(c, "attempt") \in ledger
  BY DEF OpenAttempts, OpenIn, RecoveryRows, RecoveryIn, Row
<1>2. \A s \in Statuses \ {"attempt"} : Row(c, s) \notin ledger
  BY DEF OpenAttempts, OpenIn
<1>3. Row(c, "outcome_unknown") \in ledger'
  BY <1>1, <1>2 DEF OpenAttempts, OpenIn, RecoveryRows, RecoveryIn
<1> QED
  BY <1>3 DEF OpenAttempts, OpenIn, Statuses

\* A call's own row opens at most the attempt of that call, and only if it is one.
LEMMA OwnRowOpens ==
  ASSUME NEW c \in Calls, status[c] \in Statuses, ledger' = ledger \cup {Row(c, status[c])}
  PROVE  /\ OpenAttempts' \subseteq OpenAttempts \cup {c}
         /\ status[c] # "attempt" => c \notin OpenAttempts'
BY DEF OpenAttempts, OpenIn, Row

\* No step makes an orphan of an attempt, unless a discard is due or the store is no
\* longer reconciled.
LEMMA OrphansStep ==
  AuditInv /\ StraysWereCancelled /\ OwnTransaction /\ ClosedStore /\ OrphansAreClosed
    /\ [Next]_vars
      => OrphansAreClosed'
<1> SUFFICES ASSUME AuditInv, StraysWereCancelled, OwnTransaction, ClosedStore, OrphansAreClosed,
                    [Next]_vars, ~DiscardIsDue'
             PROVE  OrphansAreClosed'
  BY DEF OrphansAreClosed
<1> USE ConstantsAssumption
<1> TypeOK /\ JobsFollowTasks /\ ThreadsAtWork /\ TasksFollowStatus
  BY DEF AuditInv
<1>a. ASSUME DiscardIsDue PROVE OrphansAreClosed'
  <2>1. Crash \/ \E t \in Threads : Discard(t)
    BY <1>a, DiscardStaysDue
  <2> QED
    BY <2>1, DiscardClears DEF OrphansAreClosed, OnConnection
<1> SUFFICES ASSUME ~DiscardIsDue PROVE OrphansAreClosed'
  BY <1>a
<1>b. /\ OpenAttempts \subseteq Calls /\ OpenAttempts' \subseteq Calls
      /\ \A c \in OpenAttempts : status[c] \in Outcomes \cup {"attempt"}
  BY DEF OpenAttempts, OpenIn, AuditInv, RowsFollowStatus, Seen
<1> USE DEF TypeOK, JobsFollowTasks, ThreadsAtWork, TasksFollowStatus, OrphansAreClosed, Orphans,
            Cancelled, Outcomes, Working, OnConnection, Threads, boundVars, taskVars, leaseVars,
            trailVars, threadVars, storeVars
<1>1. ASSUME NEW c \in Calls, Admit(c) PROVE OrphansAreClosed'
  <2>1. OpenAttempts' = OpenAttempts /\ UNCHANGED reconciled
    BY <1>1, SameLedgerSameOpen DEF Admit, Append
  <2>2. Orphans' \subseteq Orphans
    BY <1>1, <1>b, <2>1 DEF Admit, Append
  <2>3. \A u \in Threads : job'[u] = "mark" => job[u] = "mark"
    BY <1>1 DEF Admit, Append
  <2> HIDE DEF Orphans
  <2> QED
    BY <2>1, <2>2, <2>3
<1>2. ASSUME NEW c \in Calls, Deny(c) PROVE OrphansAreClosed'
  <2>1. OpenAttempts' = OpenAttempts /\ UNCHANGED reconciled
    BY <1>2, SameLedgerSameOpen DEF Deny, Append
  <2>2. Orphans' \subseteq Orphans
    BY <1>2, <1>b, <2>1 DEF Deny, Append
  <2>3. \A u \in Threads : job'[u] = "mark" => job[u] = "mark"
    BY <1>2 DEF Deny, Append
  <2> HIDE DEF Orphans
  <2> QED
    BY <2>1, <2>2, <2>3
<1>3. ASSUME NEW c \in Calls, DenialReturns(c) PROVE OrphansAreClosed'
  <2>1. OpenAttempts' = OpenAttempts /\ UNCHANGED reconciled
    BY <1>3, SameLedgerSameOpen DEF DenialReturns, Resumed, Answer
  <2>2. Orphans' \subseteq Orphans
    BY <1>3, <1>b, <2>1 DEF DenialReturns, Resumed, Answer
  <2>3. \A u \in Threads : job'[u] = "mark" => job[u] = "mark"
    BY <1>3 DEF DenialReturns, Resumed, Answer
  <2> HIDE DEF Orphans
  <2> QED
    BY <2>1, <2>2, <2>3
<1>4. ASSUME NEW c \in Calls, HandlerStarts(c) PROVE OrphansAreClosed'
  <2>1. OpenAttempts' = OpenAttempts /\ UNCHANGED reconciled
    BY <1>4, SameLedgerSameOpen DEF HandlerStarts, Resumed
  <2>2. Orphans' \subseteq Orphans
    BY <1>4, <1>b, <2>1 DEF HandlerStarts, Resumed
  <2>3. \A u \in Threads : job'[u] = "mark" => job[u] = "mark"
    BY <1>4 DEF HandlerStarts, Resumed
  <2> HIDE DEF Orphans
  <2> QED
    BY <2>1, <2>2, <2>3
<1>5. ASSUME NEW c \in Calls, AttemptRefused(c) PROVE OrphansAreClosed'
  <2>1. OpenAttempts' = OpenAttempts /\ UNCHANGED reconciled
    BY <1>5, SameLedgerSameOpen DEF AttemptRefused, Resumed, Answer, Release
  <2>2. Orphans' \subseteq Orphans
    BY <1>5, <1>b, <2>1 DEF AttemptRefused, Resumed, Answer, Release
  <2>3. \A u \in Threads : job'[u] = "mark" => job[u] = "mark"
    BY <1>5 DEF AttemptRefused, Resumed, Answer, Release
  <2> HIDE DEF Orphans
  <2> QED
    BY <2>1, <2>2, <2>3
<1>6. ASSUME NEW c \in Calls, HandlerEnds(c) PROVE OrphansAreClosed'
  <2>1. OpenAttempts' = OpenAttempts /\ UNCHANGED reconciled
    BY <1>6, SameLedgerSameOpen DEF HandlerEnds, Append
  <2>2. Orphans' \subseteq Orphans
    BY <1>6, <1>b, <2>1 DEF HandlerEnds, Append
  <2>3. \A u \in Threads : job'[u] = "mark" => job[u] = "mark"
    BY <1>6 DEF HandlerEnds, Append
  <2> HIDE DEF Orphans
  <2> QED
    BY <2>1, <2>2, <2>3
<1>7. ASSUME NEW c \in Calls, TerminalReturns(c) PROVE OrphansAreClosed'
  <2>1. OpenAttempts' = OpenAttempts /\ UNCHANGED reconciled
    BY <1>7, SameLedgerSameOpen DEF TerminalReturns, Resumed, Answer, Release
  <2>2. Orphans' \subseteq Orphans
    BY <1>7, <1>b, <2>1 DEF TerminalReturns, Resumed, Answer, Release
  <2>3. \A u \in Threads : job'[u] = "mark" => job[u] = "mark"
    BY <1>7 DEF TerminalReturns, Resumed, Answer, Release
  <2> HIDE DEF Orphans
  <2> QED
    BY <2>1, <2>2, <2>3
<1>8. ASSUME NEW c \in Calls, Cancel(c) PROVE OrphansAreClosed'
  <2>1. OpenAttempts' = OpenAttempts /\ UNCHANGED reconciled
    BY <1>8, SameLedgerSameOpen DEF Cancel, CancelHandler, CancelAppend, Append, Answer, Release
  <2>2. Orphans' \subseteq Orphans
    BY <1>8, <1>b, <2>1 DEF Cancel, CancelHandler, CancelAppend, Append, Answer, Release
  <2>3. \A u \in Threads : job'[u] = "mark" => job[u] = "mark"
    BY <1>8 DEF Cancel, CancelHandler, CancelAppend, Append, Answer, Release
  <2> HIDE DEF Orphans
  <2> QED
    BY <2>1, <2>2, <2>3
<1>9. ASSUME NEW t \in Threads, TakeLock(t) PROVE OrphansAreClosed'
  <2>1. OpenAttempts' = OpenAttempts /\ UNCHANGED reconciled
    BY <1>9, SameLedgerSameOpen DEF TakeLock
  <2>2. Orphans' \subseteq Orphans
    BY <1>9, <1>b, <2>1 DEF TakeLock
  <2>3. \A u \in Threads : job'[u] = "mark" => job[u] = "mark"
    BY <1>9 DEF TakeLock
  <2> HIDE DEF Orphans
  <2> QED
    BY <2>1, <2>2, <2>3
<1>10. ASSUME NEW t \in Threads, EnsureReady(t) PROVE OrphansAreClosed'
  <2>1. OpenAttempts' = OpenAttempts /\ UNCHANGED reconciled
    BY <1>10, SameLedgerSameOpen DEF EnsureReady
  <2>2. Orphans' \subseteq Orphans
    BY <1>10, <1>b, <2>1 DEF EnsureReady
  <2>3. \A u \in Threads : job'[u] = "mark" => job[u] = "mark"
    BY <1>10 DEF EnsureReady
  <2> HIDE DEF Orphans
  <2> QED
    BY <2>1, <2>2, <2>3
<1>11. ASSUME NEW t \in Threads, OpenFails(t) PROVE OrphansAreClosed'
  <2>1. ~reconciled' /\ \A u \in Threads : job'[u] # "mark"
    BY <1>11 DEF OpenFails, ClosedStore, Result
  <2> QED
    BY <2>1
<1>12. ASSUME NEW t \in Threads, Begin(t) PROVE OrphansAreClosed'
  <2>1. OpenAttempts' = OpenAttempts /\ UNCHANGED reconciled
    BY <1>12, SameLedgerSameOpen DEF Begin, GoesTo
  <2>2. Orphans' \subseteq Orphans
    BY <1>12, <1>b, <2>1 DEF Begin, GoesTo
  <2>3. \A u \in Threads : job'[u] = "mark" => job[u] = "mark"
    BY <1>12 DEF Begin, GoesTo
  <2> HIDE DEF Orphans
  <2> QED
    BY <2>1, <2>2, <2>3
<1>13. ASSUME NEW t \in Threads, Insert(t) PROVE OrphansAreClosed'
  <2>1. tx.open
    BY <1>13 DEF Insert, OwnTransaction
  <2>2. OpenAttempts' = OpenAttempts /\ UNCHANGED reconciled
    BY <1>13, <2>1, SameLedgerSameOpen DEF Insert, GoesTo
  <2>3. Orphans' \subseteq Orphans
    BY <1>13, <2>2 DEF Insert, GoesTo
  <2>4. \A u \in Threads : job'[u] = "mark" => job[u] = "mark"
    BY <1>13 DEF Insert, GoesTo
  <2> HIDE DEF Orphans
  <2> QED
    BY <2>2, <2>3, <2>4
<1>14. ASSUME NEW t \in Threads, Commit(t) PROVE OrphansAreClosed'
  <2>1. ledger' = ledger \cup Written(t, ledger) /\ UNCHANGED <<reconciled, pc, status, answer>>
    BY <1>14 DEF Commit, GoesTo, OwnTransaction
  <2>2. CASE t \in recovering
    <3>1. OpenAttempts' = {}
      BY <2>1, <2>2, RecoveryCloses DEF Written, RecoveryRows
    <3> QED
      BY <3>1
  <2>3. CASE t \notin recovering /\ t \in Calls
    <3>1. ledger' = ledger \cup {Row(t, status[t])}
      BY <2>1, <2>3 DEF Written
    <3>2. status[t] \in Statuses
      BY <1>14, <2>3 DEF Commit, Statuses
    <3>3. /\ OpenAttempts' \subseteq OpenAttempts \cup {t}
          /\ status[t] # "attempt" => t \notin OpenAttempts'
      BY <2>3, <3>1, <3>2, OwnRowOpens
    <3>4. \A u \in Threads \ {t} : job'[u] = job[u]
      BY <1>14 DEF Commit, GoesTo
    <3>5. job'[t] \in {"committed", "idle"}
      BY <1>14, <2>3 DEF Commit, GoesTo, Result
    <3>6. pc[t] = "done" => answer[t] = "cancelled"
      BY <1>14, <2>3 DEF Commit, StraysWereCancelled
    <3>7. ASSUME NEW c \in Orphans' PROVE c \in Orphans
      <4>1. /\ c \in OpenAttempts' /\ c \in Calls
            /\ ~(status[c] = "cancelled" \/ answer[c] = "cancelled")
            /\ \/ pc[c] = "done"
               \/ job'[c] = "failed"
               \/ job'[c] = "committed" /\ status[c] # "attempt"
        BY <2>1, <1>b
      <4>2. c # t
        BY <3>3, <3>5, <3>6, <4>1
      <4>3. c \in OpenAttempts /\ job'[c] = job[c]
        BY <3>3, <3>4, <4>1, <4>2
      <4> QED
        BY <4>1, <4>3
    <3>8. \A u \in Threads : job'[u] = "mark" => job[u] = "mark"
      BY <3>4, <3>5
    <3> HIDE DEF Orphans
    <3> QED
      BY <2>1, <3>7, <3>8
  <2>4. CASE t \notin recovering /\ t \notin Calls
    <3>1. OpenAttempts' = OpenAttempts
      BY <2>1, <2>4, SameLedgerSameOpen DEF Written
    <3>2. job' = [job EXCEPT ![t] = "idle"]
      BY <1>14, <2>4 DEF Commit, GoesTo, Result
    <3>3. Orphans' \subseteq Orphans
      BY <2>1, <2>4, <3>1, <3>2
    <3>4. \A u \in Threads : job'[u] = "mark" => job[u] = "mark"
      BY <3>2
    <3> HIDE DEF Orphans
    <3> QED
      BY <2>1, <3>3, <3>4
  <2> QED
    BY <2>2, <2>3, <2>4
<1>15. ASSUME NEW t \in Threads, Mark(t) PROVE OrphansAreClosed'
  <2>1. job[t] = "mark"
    BY <1>15 DEF Mark, DiscardIsDue
  <2>2. Orphans = {}
    BY <2>1
  <2>3. OpenAttempts' = OpenAttempts
    BY <1>15, SameLedgerSameOpen DEF Mark, GoesTo
  <2>4. Orphans' \subseteq Orphans
    BY <1>15, <2>1, <2>3 DEF Mark, GoesTo
  <2> HIDE DEF Orphans
  <2> QED
    BY <2>2, <2>4
<1>16. ASSUME NEW t \in Threads, StatementRaises(t) PROVE OrphansAreClosed'
  <2>1. OpenAttempts' = OpenAttempts /\ UNCHANGED reconciled
    BY <1>16, SameLedgerSameOpen DEF StatementRaises, GoesTo
  <2>2. Orphans' \subseteq Orphans
    BY <1>16, <1>b, <2>1 DEF StatementRaises, GoesTo
  <2>3. \A u \in Threads : job'[u] = "mark" => job[u] = "mark"
    BY <1>16 DEF StatementRaises, GoesTo
  <2> HIDE DEF Orphans
  <2> QED
    BY <2>1, <2>2, <2>3
<1>17. ASSUME NEW t \in Threads, StatementFails(t) PROVE OrphansAreClosed'
  <2>1. OpenAttempts' = OpenAttempts /\ UNCHANGED reconciled
    BY <1>17, SameLedgerSameOpen DEF StatementFails, Fault
  <2>2. Orphans' \subseteq Orphans
    BY <1>17, <1>b, <2>1 DEF StatementFails, Fault
  <2>3. \A u \in Threads : job'[u] = "mark" => job[u] = "mark"
    BY <1>17 DEF StatementFails, Fault
  <2> HIDE DEF Orphans
  <2> QED
    BY <2>1, <2>2, <2>3
<1>18. ASSUME NEW t \in Threads, Rollback(t) PROVE OrphansAreClosed'
  <2>1. OpenAttempts' = OpenAttempts /\ UNCHANGED reconciled
    BY <1>18, SameLedgerSameOpen DEF Rollback, GoesTo
  <2>2. Orphans' \subseteq Orphans
    BY <1>18, <1>b, <2>1 DEF Rollback, GoesTo
  <2>3. \A u \in Threads : job'[u] = "mark" => job[u] = "mark"
    BY <1>18 DEF Rollback, GoesTo
  <2> HIDE DEF Orphans
  <2> QED
    BY <2>1, <2>2, <2>3
<1>19. ASSUME NEW t \in Threads, Discard(t) PROVE OrphansAreClosed'
  BY <1>19, DiscardClears
<1>20. CASE Crash
  BY <1>20, DiscardClears
<1>21. CASE Bootstrap
  <2>1. UNCHANGED <<pc, status, job>>
    BY <1>21 DEF Bootstrap
  <2>2. CASE UNCHANGED <<trailVars, reconciled>>
    BY <2>1, <2>2, SameLedgerSameOpen
  <2>3. CASE Recover
    <3>1. OpenAttempts' = {}
      BY <2>3, RecoveryCloses DEF Recover
    <3> QED
      BY <3>1
  <2> QED
    BY <1>21, <2>2, <2>3 DEF Bootstrap
<1>22. CASE UNCHANGED vars
  <2>1. OpenAttempts' = OpenAttempts /\ UNCHANGED reconciled
    BY <1>22, SameLedgerSameOpen DEF vars
  <2>2. Orphans' \subseteq Orphans
    BY <1>22, <1>b, <2>1 DEF vars
  <2>3. \A u \in Threads : job'[u] = "mark" => job[u] = "mark"
    BY <1>22 DEF vars
  <2> HIDE DEF Orphans
  <2> QED
    BY <2>1, <2>2, <2>3
<1> QED
  BY <1>1, <1>2, <1>3, <1>4, <1>5, <1>6, <1>7, <1>8, <1>9, <1>10, <1>11, <1>12, <1>13,
     <1>14, <1>15, <1>16, <1>17, <1>18, <1>19, <1>20, <1>21, <1>22
  DEF Next, Task, Thread

\* A call that ends gives its reservation back, unless it is cancelled in the append
\* of its attempt.
LEMMA LeakStep ==
  ASSUME AuditInv, LeasesFollowTasks, LeaksWereCancelled, [Next]_vars
  PROVE  LeaksWereCancelled'
<1> TypeOK /\ JobsFollowTasks /\ TasksFollowStatus /\ ConstantsAssumption
  BY ConstantsAssumption DEF AuditInv
<1> USE DEF TypeOK, JobsFollowTasks, TasksFollowStatus, LeasesFollowTasks, LeaksWereCancelled,
            Owes, Outcomes, Threads, boundVars, taskVars, leaseVars, trailVars, storeVars
<1>1. ASSUME NEW c \in Calls, Admit(c) PROVE LeaksWereCancelled'
  BY <1>1 DEF Admit, Append
<1>2. ASSUME NEW c \in Calls, Deny(c) PROVE LeaksWereCancelled'
  BY <1>2 DEF Deny, Append
<1>3. ASSUME NEW c \in Calls, DenialReturns(c) PROVE LeaksWereCancelled'
  BY <1>3 DEF DenialReturns, Resumed, Answer
<1>4. ASSUME NEW c \in Calls, HandlerStarts(c) PROVE LeaksWereCancelled'
  BY <1>4 DEF HandlerStarts, Resumed
<1>5. ASSUME NEW c \in Calls, AttemptRefused(c) PROVE LeaksWereCancelled'
  BY <1>5 DEF AttemptRefused, Resumed, Answer, Release
<1>6. ASSUME NEW c \in Calls, HandlerEnds(c) PROVE LeaksWereCancelled'
  BY <1>6 DEF HandlerEnds, Append
<1>7. ASSUME NEW c \in Calls, TerminalReturns(c) PROVE LeaksWereCancelled'
  BY <1>7 DEF TerminalReturns, Resumed, Answer, Release
<1>8. ASSUME NEW c \in Calls, Cancel(c) PROVE LeaksWereCancelled'
  BY <1>8 DEF Cancel, CancelHandler, CancelAppend, Append, Answer, Release
<1>9. ASSUME NEW t \in Threads, TakeLock(t) PROVE LeaksWereCancelled'
  BY <1>9 DEF TakeLock
<1>10. ASSUME NEW t \in Threads, EnsureReady(t) PROVE LeaksWereCancelled'
  BY <1>10 DEF EnsureReady
<1>11. ASSUME NEW t \in Threads, OpenFails(t) PROVE LeaksWereCancelled'
  BY <1>11 DEF OpenFails, Fault, Result, Freed
<1>12. ASSUME NEW t \in Threads, Begin(t) PROVE LeaksWereCancelled'
  BY <1>12 DEF Begin, GoesTo
<1>13. ASSUME NEW t \in Threads, Insert(t) PROVE LeaksWereCancelled'
  BY <1>13 DEF Insert, GoesTo
<1>14. ASSUME NEW t \in Threads, Commit(t) PROVE LeaksWereCancelled'
  BY <1>14 DEF Commit, GoesTo, Result, Freed
<1>15. ASSUME NEW t \in Threads, Mark(t) PROVE LeaksWereCancelled'
  BY <1>15 DEF Mark, GoesTo
<1>16. ASSUME NEW t \in Threads, StatementRaises(t) PROVE LeaksWereCancelled'
  BY <1>16 DEF StatementRaises, GoesTo
<1>17. ASSUME NEW t \in Threads, StatementFails(t) PROVE LeaksWereCancelled'
  BY <1>17 DEF StatementFails, Fault
<1>18. ASSUME NEW t \in Threads, Rollback(t) PROVE LeaksWereCancelled'
  BY <1>18 DEF Rollback, GoesTo
<1>19. ASSUME NEW t \in Threads, Discard(t) PROVE LeaksWereCancelled'
  BY <1>19 DEF Discard
<1>20. CASE Crash
  BY <1>20 DEF Crash, Running
<1>21. CASE Bootstrap
  BY <1>21 DEF Bootstrap, Recover
<1>22. CASE UNCHANGED vars
  BY <1>22 DEF vars
<1> QED
  BY <1>1, <1>2, <1>3, <1>4, <1>5, <1>6, <1>7, <1>8, <1>9, <1>10, <1>11, <1>12, <1>13,
     <1>14, <1>15, <1>16, <1>17, <1>18, <1>19, <1>20, <1>21, <1>22
  DEF Next, Task, Thread

\* A CancelledError reaches one call, and nothing else makes a call a cancelled one:
\* a handler that was cancelled is answered with what its status already says.
LEMMA CancelsReachOneCall ==
  ASSUME TypeOK, TasksFollowStatus, [Next]_vars
  PROVE  \/ Cancelled' \subseteq Cancelled /\ cancels' = cancels
         \/ \E c \in Calls : Cancelled' \subseteq Cancelled \cup {c} /\ cancels' = cancels + 1
<1> USE ConstantsAssumption
    DEF TypeOK, TasksFollowStatus, Cancelled, Outcomes, boundVars, taskVars, leaseVars, trailVars
<1> DEFINE Same == Cancelled' \subseteq Cancelled /\ cancels' = cancels
<1>1. ASSUME NEW c \in Calls, Admit(c) PROVE Same
  BY <1>1 DEF Admit, Append
<1>2. ASSUME NEW c \in Calls, Deny(c) PROVE Same
  BY <1>2 DEF Deny, Append
<1>3. ASSUME NEW c \in Calls, DenialReturns(c) PROVE Same
  BY <1>3 DEF DenialReturns, Resumed, Answer
<1>4. ASSUME NEW c \in Calls, HandlerStarts(c) \/ AttemptRefused(c) PROVE Same
  BY <1>4 DEF HandlerStarts, AttemptRefused, Resumed, Answer
<1>5. ASSUME NEW c \in Calls, HandlerEnds(c) PROVE Same
  BY <1>5 DEF HandlerEnds, Append
<1>6. ASSUME NEW c \in Calls, TerminalReturns(c) PROVE Same
  BY <1>6 DEF TerminalReturns, Resumed, Answer
<1>7. ASSUME NEW c \in Calls, Cancel(c)
      PROVE  Cancelled' \subseteq Cancelled \cup {c} /\ cancels' = cancels + 1
  BY <1>7 DEF Cancel, CancelHandler, CancelAppend, Append, Answer
<1>8. ASSUME NEW t \in Threads,
             TakeLock(t) \/ EnsureReady(t) \/ OpenFails(t) \/ StatementFails(t) \/ Discard(t)
      PROVE  Same
  BY <1>8 DEF TakeLock, EnsureReady, OpenFails, StatementFails, Discard, Fault
<1>9. ASSUME NEW t \in Threads,
             \/ Begin(t) \/ Insert(t) \/ Commit(t) \/ Mark(t) \/ StatementRaises(t) \/ Rollback(t)
      PROVE  Same
  BY <1>9 DEF Begin, Insert, Commit, Mark, StatementRaises, Rollback, GoesTo
<1>10. CASE Crash
  BY <1>10 DEF Crash, Running
<1>11. CASE Bootstrap
  BY <1>11 DEF Bootstrap, Recover
<1>12. CASE UNCHANGED vars
  BY <1>12 DEF vars
<1> QED
  BY <1>1, <1>2, <1>3, <1>4, <1>5, <1>6, <1>7, <1>8, <1>9, <1>10, <1>11, <1>12
  DEF Next, Task, Thread

\* What belongs to cancelled calls is finite and no more than the cancellations.
LEMMA NoMoreThanCancelled ==
  ASSUME TypeOK, CancelsCounted, NEW S, S \subseteq Cancelled
  PROVE  IsFiniteSet(S) /\ Cardinality(S) \in Nat /\ Cardinality(S) <= cancels
<1>1. IsFiniteSet(Cancelled)
  <2>1. Cancelled \subseteq Calls
    BY DEF Cancelled
  <2> QED BY <2>1, ConstantsAssumption, FS_Subset
<1>2. IsFiniteSet(S) /\ Cardinality(S) <= Cardinality(Cancelled)
  BY <1>1, FS_Subset
<1>3. Cardinality(S) \in Nat /\ Cardinality(Cancelled) \in Nat
  BY <1>1, <1>2, FS_CardinalityType
<1> QED BY <1>2, <1>3 DEF CancelsCounted, TypeOK

LEMMA CountStep ==
  ASSUME TypeOK, TypeOK', TasksFollowStatus, CancelsCounted, [Next]_vars
  PROVE  CancelsCounted'
<1>1. IsFiniteSet(Cancelled) /\ Cardinality(Cancelled) \in Nat /\ Cardinality(Cancelled) <= cancels
  BY NoMoreThanCancelled
<1>2. cancels \in Nat /\ cancels' \in Nat
  BY DEF TypeOK
<1> DEFINE now == Cancelled
           then == Cancelled'
<1>3. CASE then \subseteq now /\ cancels' = cancels
  <2>1. IsFiniteSet(then) /\ Cardinality(then) <= Cardinality(now)
    BY <1>1, <1>3, FS_Subset
  <2>2. Cardinality(then) \in Nat
    BY <2>1, FS_CardinalityType
  <2> QED BY <1>1, <1>2, <1>3, <2>1, <2>2 DEF CancelsCounted
<1>4. ASSUME NEW c \in Calls, then \subseteq now \cup {c}, cancels' = cancels + 1
      PROVE  CancelsCounted'
  <2>1. /\ IsFiniteSet(now \cup {c})
        /\ Cardinality(now \cup {c}) = Cardinality(now)
           \/ Cardinality(now \cup {c}) = Cardinality(now) + 1
    BY <1>1, FS_AddElement
  <2>2. IsFiniteSet(then) /\ Cardinality(then) <= Cardinality(now \cup {c})
    BY <1>4, <2>1, FS_Subset
  <2>3. Cardinality(then) \in Nat
    BY <2>2, FS_CardinalityType
  <2> QED BY <1>1, <1>2, <1>4, <2>1, <2>2, <2>3 DEF CancelsCounted
<1> QED BY <1>3, <1>4, CancelsReachOneCall

\* CancelInv holds in every reachable state, with the invariants it rests on.
THEOREM CancelInvariance == Spec => []CancelInv
<1>1. Init => CancelInv
  <2> SUFFICES ASSUME Init PROVE CancelInv
    OBVIOUS
  <2>1. Cancelled = {} /\ cancels = 0
    BY DEF Init, TrailInit, Cancelled
  <2>2. CancelsCounted
    BY <2>1, FS_EmptySet DEF CancelsCounted
  <2>3. \A t \in Threads : job[t] = "idle"
    BY DEF Init
  <2>4. Orphans = {}
    BY DEF Init, TrailInit, Orphans, OpenAttempts, OpenIn
  <2>5. StraysWereCancelled /\ OwnTransaction /\ ClosedStore /\ OrphansAreClosed
    BY <2>3, <2>4 DEF Init, StraysWereCancelled, OwnTransaction, ClosedStore, OrphansAreClosed
  <2>6. LeaksWereCancelled
    BY DEF Init, LeaksWereCancelled
  <2> QED
    BY <2>2, <2>5, <2>6 DEF CancelInv
<1>2. AuditInv /\ AuditInv' /\ LeasesFollowTasks /\ CancelInv /\ [Next]_vars => CancelInv'
  BY StraysCancelledStep, OwnTransactionStep, ClosedStoreStep, OrphansStep, LeakStep, CountStep
  DEF CancelInv, AuditInv
<1> QED
  BY <1>1, <1>2, AuditInvariance, LeaseInvariance, PTL DEF Spec

\* A store that calls itself ready, with no discard due, has closed every attempt that
\* an earlier process, a failed append or a lost row left open: what is still open
\* belongs to calls at work, or was cancelled in an append, one for each cancellation
\* at most (_ensure_ready, _discard_connection).
THEOREM OnlyCancelledCallsStayOpen == Spec => []ReadyMeansReconciled
<1>1. AuditInv /\ CancelInv => ReadyMeansReconciled
  <2> SUFFICES ASSUME AuditInv, CancelInv, open, reconciled, ~DiscardIsDue
               PROVE  /\ {c \in OpenAttempts : ~Live(c)} \subseteq Cancelled
                      /\ Cardinality({c \in OpenAttempts : ~Live(c)}) <= cancels
    BY DEF ReadyMeansReconciled
  <2>1. Orphans = {}
    BY DEF CancelInv, OrphansAreClosed
  <2>2. \A c \in OpenAttempts : c \in Calls /\ pc[c] # "new"
    BY DEF AuditInv, TasksFollowStatus, RowsFollowStatus, OpenAttempts, OpenIn, Seen, Outcomes
  <2>3. {c \in OpenAttempts : ~Live(c)} \subseteq Cancelled
    BY <2>1, <2>2 DEF Orphans, Live, AuditInv, TypeOK
  <2> QED
    BY <2>3, NoMoreThanCancelled DEF CancelInv, AuditInv
<1> QED
  BY <1>1, AuditInvariance, CancelInvariance, PTL

\* A reservation outlives its call only when the call is cancelled in the append of
\* its attempt, so the accounts lose CALL_RESERVATION_BYTES for each cancellation at
\* most (dispatch, "except Exception").
THEOREM CancellationsBoundTheLeak == Spec => []OnlyCancelledAttemptsLeak
<1>1. TypeOK /\ CancelInv => OnlyCancelledAttemptsLeak
  <2> SUFFICES ASSUME TypeOK, CancelInv
               PROVE  /\ {c \in leased : ~Owes(c)} \subseteq
                              {c \in Cancelled : status[c] = "attempt"}
                      /\ Cardinality({c \in leased : ~Owes(c)}) <= cancels
    BY DEF OnlyCancelledAttemptsLeak
  <2>1. {c \in leased : ~Owes(c)} \subseteq {c \in Cancelled : status[c] = "attempt"}
    BY DEF CancelInv, LeaksWereCancelled, Cancelled, TypeOK
  <2>2. {c \in leased : ~Owes(c)} \subseteq Cancelled
    BY <2>1
  <2> QED BY <2>1, <2>2, NoMoreThanCancelled DEF CancelInv
<1> QED
  BY <1>1, TypeCorrectness, CancelInvariance, PTL

-----------------------------------------------------------------------------
(* Free space.                                                             *)

\* What one account hands out never exceeds the free space it was checked
\* against, however calls end.
THEOREM AccountsFitInvariance == Spec => []AccountsFit
<1>1. Init => AccountsFit
  BY DEF Init, AccountsFit
<1>2. TypeOK /\ AccountsFit /\ [Next]_vars => AccountsFit'
  <2> SUFFICES ASSUME TypeOK, AccountsFit, [Next]_vars PROVE AccountsFit'
    OBVIOUS
  <2> CALL_RESERVATION_BYTES \in Nat /\ CHECKPOINT_HEADROOM_BYTES \in Nat
    BY DEF CALL_RESERVATION_BYTES, CHECKPOINT_HEADROOM_BYTES, FrameBytes
  <2> USE ConstantsAssumption DEF TypeOK, AccountsFit, boundVars, taskVars, leaseVars, trailVars
  <2>1. ASSUME NEW c \in Calls, Admit(c) PROVE AccountsFit'
    BY <2>1 DEF Admit, HasRoom
  <2>2. ASSUME NEW c \in Calls, Release(c) PROVE AccountsFit'
    BY <2>2 DEF Release
  <2>3. ASSUME UNCHANGED reserved PROVE AccountsFit'
    BY <2>3
  <2>4. ASSUME NEW c \in Calls, Deny(c) \/ Task(c) \/ Cancel(c)
        PROVE  Release(c) \/ UNCHANGED reserved
    BY <2>4 DEF Deny, Task, DenialReturns, HandlerStarts, AttemptRefused, HandlerEnds,
                TerminalReturns, Cancel, CancelHandler, CancelAppend
  <2>5. ASSUME NEW t \in Threads, Thread(t) PROVE UNCHANGED reserved
    BY <2>5 DEF Thread, TakeLock, EnsureReady, OpenFails, Begin, Insert, Commit, Mark,
                StatementRaises, StatementFails, Rollback, Discard, GoesTo
  <2>6. Bootstrap => UNCHANGED reserved
    BY DEF Bootstrap
  <2>7. CASE Crash
    BY <2>7 DEF Crash
  <2>8. CASE UNCHANGED vars
    BY <2>8 DEF vars
  <2> QED
    BY <2>1, <2>2, <2>3, <2>4, <2>5, <2>6, <2>7, <2>8 DEF Next
<1> QED
  BY <1>1, <1>2, TypeCorrectness, PTL DEF Spec

CallsOf(e) == {c \in leased : EndpointOf[c] = e}

EachAccountFits ==
    \A e \in Endpoints : CallsOf(e) # {} =>
        CHECKPOINT_HEADROOM_BYTES + CALL_RESERVATION_BYTES * Cardinality(CallsOf(e))
            <= AvailableBytes

\* Whatever the number of endpoints, the calls admitted by one account fit the free
\* space together with the checkpoint headroom (FreeSpaceReservations.acquire).
THEOREM EachAccountCoversItsCalls == Spec => []EachAccountFits
<1>1. TypeOK /\ LeaseAccounting /\ AccountsFit => EachAccountFits
  <2> SUFFICES ASSUME TypeOK, LeaseAccounting, AccountsFit, NEW e \in Endpoints, CallsOf(e) # {}
               PROVE  CHECKPOINT_HEADROOM_BYTES + CALL_RESERVATION_BYTES * Cardinality(CallsOf(e))
                          <= AvailableBytes
    BY DEF EachAccountFits
  <2>1. IsFiniteSet(CallsOf(e))
    BY LeasesFinite DEF CallsOf
  <2>2. Cardinality(CallsOf(e)) \in Nat /\ Cardinality(CallsOf(e)) # 0
    BY <2>1, FS_CardinalityType, FS_EmptySet
  <2>3. reserved[e] = CALL_RESERVATION_BYTES * Cardinality(CallsOf(e))
    BY DEF LeaseAccounting, CallsOf
  <2>4. CALL_RESERVATION_BYTES = 32960
    BY DEF CALL_RESERVATION_BYTES, FrameBytes
  <2>5. reserved[e] > 0
    BY <2>2, <2>3, <2>4
  <2> QED
    BY <2>3, <2>5 DEF AccountsFit
<1> QED
  BY <1>1, TypeCorrectness, LeasesAccounted, AccountsFitInvariance, PTL

\* With one endpoint, its account is the volume's: every concurrently admitted
\* call is covered together with the checkpoint headroom.
THEOREM OneAccountCoversAll ==
  ASSUME NEW e, Endpoints = {e} PROVE Spec => []AdmissionAccountsForAll
<1>1. TypeOK => CallsOf(e) = leased
  BY ConstantsAssumption DEF TypeOK, CallsOf
<1>2. TypeOK /\ EachAccountFits => AdmissionAccountsForAll
  BY <1>1 DEF EachAccountFits, AdmissionAccountsForAll
<1> QED
  BY <1>2, TypeCorrectness, EachAccountCoversItsCalls, PTL

-----------------------------------------------------------------------------
(* Nothing waits for ever.                                                 *)

\* A task in its append waits for the lock, or holds it while its thread works.
AppendsWait ==
    \A c \in Calls :
        pc[c] = "append" => job[c] = "waiting" \/ (holder = c /\ job[c] # "idle")

LEMMA WaitStep == AuditInv /\ AppendsWait /\ [Next]_vars => AppendsWait'
<1> SUFFICES ASSUME AuditInv, AppendsWait, [Next]_vars PROVE AppendsWait'
  OBVIOUS
<1> USE ConstantsAssumption
<1> TypeOK /\ JobsFollowTasks /\ ThreadsAtWork
  BY DEF AuditInv
<1> USE DEF TypeOK, JobsFollowTasks, ThreadsAtWork, AppendsWait, Working, OnConnection, Threads,
            boundVars, taskVars, leaseVars, trailVars, threadVars
<1>1. ASSUME NEW c \in Calls, Admit(c) PROVE AppendsWait'
  BY <1>1 DEF Admit, Append
<1>2. ASSUME NEW c \in Calls, Deny(c) PROVE AppendsWait'
  BY <1>2 DEF Deny, Append
<1>3. ASSUME NEW c \in Calls, DenialReturns(c) PROVE AppendsWait'
  BY <1>3 DEF DenialReturns, Resumed, Answer
<1>4. ASSUME NEW c \in Calls, HandlerStarts(c) PROVE AppendsWait'
  BY <1>4 DEF HandlerStarts, Resumed
<1>5. ASSUME NEW c \in Calls, AttemptRefused(c) PROVE AppendsWait'
  BY <1>5 DEF AttemptRefused, Resumed, Answer, Release
<1>6. ASSUME NEW c \in Calls, HandlerEnds(c) PROVE AppendsWait'
  BY <1>6 DEF HandlerEnds, Append
<1>7. ASSUME NEW c \in Calls, TerminalReturns(c) PROVE AppendsWait'
  BY <1>7 DEF TerminalReturns, Resumed, Answer, Release
<1>8. ASSUME NEW c \in Calls, Cancel(c) PROVE AppendsWait'
  BY <1>8 DEF Cancel, CancelHandler, CancelAppend, Append, Answer, Release
<1>9. ASSUME NEW t \in Threads, TakeLock(t) PROVE AppendsWait'
  BY <1>9 DEF TakeLock
<1>10. ASSUME NEW t \in Threads, EnsureReady(t) PROVE AppendsWait'
  BY <1>10 DEF EnsureReady
<1>11. ASSUME NEW t \in Threads, OpenFails(t) PROVE AppendsWait'
  BY <1>11 DEF OpenFails, Fault, Result, Freed
<1>12. ASSUME NEW t \in Threads, Begin(t) PROVE AppendsWait'
  BY <1>12 DEF Begin, GoesTo
<1>13. ASSUME NEW t \in Threads, Insert(t) PROVE AppendsWait'
  BY <1>13 DEF Insert, GoesTo
<1>14. ASSUME NEW t \in Threads, Commit(t) PROVE AppendsWait'
  BY <1>14 DEF Commit, GoesTo, Result, Freed
<1>15. ASSUME NEW t \in Threads, Mark(t) PROVE AppendsWait'
  BY <1>15 DEF Mark, GoesTo
<1>16. ASSUME NEW t \in Threads, StatementRaises(t) PROVE AppendsWait'
  BY <1>16 DEF StatementRaises, GoesTo
<1>17. ASSUME NEW t \in Threads, StatementFails(t) PROVE AppendsWait'
  BY <1>17 DEF StatementFails, Fault
<1>18. ASSUME NEW t \in Threads, Rollback(t) PROVE AppendsWait'
  BY <1>18 DEF Rollback, GoesTo
<1>19. ASSUME NEW t \in Threads, Discard(t) PROVE AppendsWait'
  BY <1>19, DiscardShape DEF Discard, Result, Freed, OnConnection
<1>20. CASE Crash
  BY <1>20 DEF Crash, Running
<1>21. CASE Bootstrap
  BY <1>21 DEF Bootstrap, Recover
<1>22. CASE UNCHANGED vars
  BY <1>22 DEF vars
<1> QED
  BY <1>1, <1>2, <1>3, <1>4, <1>5, <1>6, <1>7, <1>8, <1>9, <1>10, <1>11, <1>12, <1>13,
     <1>14, <1>15, <1>16, <1>17, <1>18, <1>19, <1>20, <1>21, <1>22
  DEF Next, Task, Thread

LEMMA SomebodyCanGoOn ==
    ASSUME AuditInv, AppendsWait, HandlerOutcomes # {}, NEW c \in Calls, Live(c)
    PROVE  (\E d \in Calls : CanResume(d)) \/ (\E t \in Threads : CanRun(t))
<1>1. TypeOK /\ JobsFollowTasks /\ ThreadsAtWork
  BY DEF AuditInv
<1>2. CASE pc[c] = "handler"
  BY <1>2 DEF CanResume
<1>3. CASE pc[c] = "append" /\ holder = NoCall
  BY <1>3, ConstantsAssumption DEF CanRun, AppendsWait, Threads
<1>4. CASE pc[c] = "append" /\ holder = HealthCheck
  <2>1. job[HealthCheck] \in Working
    BY <1>1, <1>4 DEF ThreadsAtWork
  <2> QED BY <2>1 DEF CanRun, Threads
<1>5. CASE pc[c] = "append" /\ holder \in Calls
  <2>1. job[holder] \notin {"idle", "waiting"}
    BY <1>1, <1>5 DEF JobsFollowTasks
  <2>2. job[holder] \in Working \cup {"committed", "failed"}
    BY <1>1, <1>5, <2>1 DEF TypeOK, Threads
  <2> QED BY <1>5, <2>2 DEF CanResume, CanRun, Threads
<1> QED BY <1>1, <1>2, <1>3, <1>4, <1>5 DEF Live, TypeOK, Threads

\* As long as a call is under way some task or some thread can go on, after any
\* faults, cancellations and crashes: the lock belongs to a thread at work or to a
\* task whose result is there, never to a task that has left (sqlite_repository.py).
THEOREM NothingWaitsForEver ==
    ASSUME HandlerOutcomes # {}
    PROVE  Spec => []((\E c \in Calls : Live(c))
                      => (\E c \in Calls : CanResume(c)) \/ (\E t \in Threads : CanRun(t)))
<1>1. AuditInv /\ AppendsWait
        => ((\E c \in Calls : Live(c))
              => (\E c \in Calls : CanResume(c)) \/ (\E t \in Threads : CanRun(t)))
  BY SomebodyCanGoOn
<1>2. Init => AppendsWait
  BY DEF Init, AppendsWait
<1> QED BY <1>1, <1>2, WaitStep, AuditInvariance, PTL DEF Spec

-----------------------------------------------------------------------------
(* What is still to be done.                                               *)

Stage(p, s) ==
    CASE p = "new" -> 4
      [] p = "append" /\ s = "attempt" -> 3
      [] p = "handler" -> 2
      [] p = "append" /\ s # "attempt" -> 1
      [] p = "done" -> 0

\* Whose transaction a thread is about: that of recovery comes first.
Part(r, t) == IF t \in r THEN "recovery" ELSE "own"

JobLeft(j, w) ==
    CASE j = "waiting" -> 12
      [] j = "start" -> 11
      [] j = "begin" /\ w = "recovery" -> 10
      [] j = "insert" /\ w = "recovery" -> 9
      [] j = "commit" /\ w = "recovery" -> 8
      [] j = "mark" -> 7
      [] j = "begin" /\ w = "own" -> 6
      [] j = "insert" /\ w = "own" -> 5
      [] j = "commit" /\ w = "own" -> 4
      [] j \in {"rollback", "mark_closed"} -> 3
      [] j = "discard" -> 2
      [] j \in {"committed", "failed"} -> 1
      [] j = "idle" -> 0

\* What a call and its thread still have before them.
Ahead(p, s, j, w) == 13 * Stage(p, s) + JobLeft(j, w)

PlacesOf == {"new", "append", "handler", "done"}
PartsOf == {"recovery", "own"}

LEMMA StageValues ==
    ASSUME NEW s
    PROVE  /\ Stage("new", s) = 4 /\ Stage("handler", s) = 2 /\ Stage("done", s) = 0
           /\ Stage("append", s) = IF s = "attempt" THEN 3 ELSE 1
BY DEF Stage

LEMMA JobLeftValues ==
    ASSUME NEW w \in PartsOf
    PROVE  /\ JobLeft("waiting", w) = 12 /\ JobLeft("start", w) = 11
           /\ JobLeft("begin", w) = IF w = "own" THEN 6 ELSE 10
           /\ JobLeft("insert", w) = IF w = "own" THEN 5 ELSE 9
           /\ JobLeft("commit", w) = IF w = "own" THEN 4 ELSE 8
           /\ JobLeft("mark", w) = 7 /\ JobLeft("rollback", w) = 3
           /\ JobLeft("mark_closed", w) = 3 /\ JobLeft("discard", w) = 2
           /\ JobLeft("committed", w) = 1 /\ JobLeft("failed", w) = 1 /\ JobLeft("idle", w) = 0
BY DEF JobLeft, PartsOf

LEMMA PartValues == ASSUME NEW r, NEW t PROVE Part(r, t) \in PartsOf
BY DEF Part, PartsOf

LEMMA LeftIsBounded ==
    ASSUME NEW p \in PlacesOf, NEW s, NEW j \in JobValues, NEW w \in PartsOf
    PROVE  Stage(p, s) \in 0..4 /\ JobLeft(j, w) \in 0..12
BY JobLeftValues, StageValues DEF PlacesOf, PartsOf, JobValues, Working, OnConnection

CallMoves ==
    {x \in Calls \X (1..64) :
        x[2] <= Ahead(pc[x[1]], status[x[1]], job[x[1]], Part(recovering, x[1]))}

\* Crashes, and the start after each.
StartsLeft == 2 * (MaxCrashes - crashes) + (IF up THEN 0 ELSE 1)

Starts == 1..StartsLeft

ToDo == ({"call"} \X CallMoves) \cup ({"start"} \X Starts)

-----------------------------------------------------------------------------
\* What call d has before it, before and after a step.
Now(d) == Ahead(pc[d], status[d], job[d], Part(recovering, d))
Then(d) == Ahead(pc'[d], status'[d], job'[d], Part(recovering', d))

\* No call is thrown back.
NoneBack == \A d \in Calls : Then(d) <= Now(d)

Forth(c) == Then(c) < Now(c)

LEMMA Measured ==
    ASSUME TypeOK, TypeOK', NEW d \in Calls
    PROVE  /\ JobLeft(job[d], Part(recovering, d)) \in 0..12 /\ Stage(pc[d], status[d]) \in 0..4
           /\ JobLeft(job'[d], Part(recovering', d)) \in 0..12
           /\ Stage(pc'[d], status'[d]) \in 0..4
           /\ Now(d) \in 0..64 /\ Then(d) \in 0..64
<1>1. /\ pc[d] \in PlacesOf /\ job[d] \in JobValues
      /\ pc'[d] \in PlacesOf /\ job'[d] \in JobValues
  BY DEF TypeOK, PlacesOf, JobValues, Threads
<1>2. /\ JobLeft(job[d], Part(recovering, d)) \in 0..12 /\ Stage(pc[d], status[d]) \in 0..4
      /\ JobLeft(job'[d], Part(recovering', d)) \in 0..12 /\ Stage(pc'[d], status'[d]) \in 0..4
  BY <1>1, PartValues, LeftIsBounded
<1> QED
  BY <1>2 DEF Now, Then, Ahead

\* A task's step takes its call forward and leaves the others where they are.
LEMMA CallSteps ==
    ASSUME AuditInv, AuditInv', NEW c \in Calls, Admit(c) \/ Deny(c) \/ Task(c) \/ Cancel(c)
    PROVE  NoneBack /\ Forth(c) /\ UNCHANGED <<up, crashes>>
<1> USE DEF boundVars
<1>1. TypeOK /\ JobsFollowTasks /\ TypeOK' /\ Calls \subseteq Threads
  BY DEF AuditInv, Threads
<1>2. UNCHANGED recovering
  BY DEF Admit, Deny, Task, Cancel, DenialReturns, HandlerStarts, AttemptRefused, HandlerEnds,
         TerminalReturns, CancelHandler, CancelAppend, Append, Resumed
<1>3. \A d \in Calls : Part(recovering, d) \in PartsOf
  BY PartValues
<1>4. ASSUME \A d \in Calls \ {c} : pc'[d] = pc[d] /\ status'[d] = status[d] /\ job'[d] = job[d],
             Forth(c)
      PROVE  NoneBack
  <2>1. Then(c) <= Now(c)
    BY <1>1, <1>4, Measured DEF Forth
  <2>2. \A d \in Calls \ {c} : Then(d) <= Now(d)
    <3> TAKE d \in Calls \ {c}
    <3>1. Then(d) = Now(d)
      BY <1>2, <1>4 DEF Then, Now
    <3> QED BY <1>1, <3>1, Measured
  <2> QED BY <2>1, <2>2 DEF NoneBack
<1>5. ASSUME NEW s, Append(c, s), \/ pc[c] = "new"
                                  \/ pc[c] = "handler" /\ s # "attempt"
      PROVE  NoneBack /\ Forth(c)
  <2>1. /\ pc'[c] = "append" /\ status'[c] = s /\ job'[c] = "waiting"
        /\ \A d \in Calls \ {c} : pc'[d] = pc[d] /\ status'[d] = status[d] /\ job'[d] = job[d]
    BY <1>1, <1>5 DEF Append, TypeOK
  <2>2. /\ JobLeft(job'[c], Part(recovering', c)) = 12
        /\ Stage(pc'[c], status'[c]) < Stage(pc[c], status[c])
    BY <1>2, <1>3, <1>5, <2>1, StageValues, JobLeftValues
  <2>3. Forth(c)
    BY <1>1, <2>2, Measured DEF Forth, Now, Then, Ahead
  <2> QED BY <1>4, <2>1, <2>3
<1>6. CASE Admit(c) \/ Deny(c) \/ HandlerEnds(c) \/ (Cancel(c) /\ CancelHandler(c))
  <2>1. \E s : Append(c, s) /\ (pc[c] = "new" \/ (pc[c] = "handler" /\ s # "attempt"))
    <3>1. "attempt" \notin HandlerOutcomes
      BY ConstantsAssumption
    <3> QED BY <1>6, <3>1 DEF Admit, Deny, HandlerEnds, CancelHandler
  <2>2. UNCHANGED <<up, crashes>>
    BY <1>6 DEF Admit, Deny, HandlerEnds, Cancel
  <2> QED BY <1>5, <2>1, <2>2
<1>7. ASSUME NEW p \in {"handler", "done"}, pc' = [pc EXCEPT ![c] = p], UNCHANGED status,
             \/ job' = [job EXCEPT ![c] = "idle"]
             \/ UNCHANGED job,
             pc[c] = "append", p = "handler" => status[c] = "attempt" /\ job'[c] = "idle"
      PROVE  NoneBack /\ Forth(c)
  <2>1. /\ pc'[c] = p /\ status'[c] = status[c] /\ job'[c] \in {"idle", job[c]}
        /\ \A d \in Calls \ {c} : pc'[d] = pc[d] /\ status'[d] = status[d] /\ job'[d] = job[d]
    BY <1>1, <1>7 DEF TypeOK
  <2>2. Stage(pc'[c], status'[c]) < Stage(pc[c], status[c])
    BY <1>7, <2>1, StageValues
  <2>3. JobLeft(job'[c], Part(recovering', c)) <= JobLeft(job[c], Part(recovering, c))
    <3>1. CASE job'[c] = job[c]
      BY <1>1, <1>2, <3>1, Measured
    <3>2. CASE job'[c] = "idle"
      BY <1>1, <1>2, <1>3, <3>2, Measured, JobLeftValues
    <3> QED BY <2>1, <3>1, <3>2
  <2>4. Forth(c)
    BY <1>1, <2>2, <2>3, Measured DEF Forth, Now, Then, Ahead
  <2> QED BY <1>4, <2>1, <2>4
<1>8. CASE DenialReturns(c) \/ HandlerStarts(c) \/ AttemptRefused(c) \/ TerminalReturns(c)
  <2>1. pc[c] = "append" /\ UNCHANGED <<status, up, crashes>>
    BY <1>1, <1>8
    DEF DenialReturns, HandlerStarts, AttemptRefused, TerminalReturns, Resumed, JobsFollowTasks
  <2>2. job' = [job EXCEPT ![c] = "idle"]
    BY <1>8 DEF DenialReturns, HandlerStarts, AttemptRefused, TerminalReturns
  <2>3. job'[c] = "idle"
    BY <1>1, <2>2 DEF TypeOK
  <2>4. \E p \in {"handler", "done"} : /\ pc' = [pc EXCEPT ![c] = p]
                                       /\ p = "handler" => status[c] = "attempt"
    BY <1>8 DEF DenialReturns, HandlerStarts, AttemptRefused, TerminalReturns, Answer
  <2> QED BY <1>7, <2>1, <2>2, <2>3, <2>4
<1>9. CASE Cancel(c) /\ CancelAppend(c)
  <2>1. /\ pc[c] = "append" /\ pc' = [pc EXCEPT ![c] = "done"]
        /\ job' = [job EXCEPT ![c] = "idle"] \/ UNCHANGED job
        /\ UNCHANGED <<status, up, crashes>>
    BY <1>9 DEF Cancel, CancelAppend, Answer
  <2> QED BY <1>7, <2>1
<1> QED
  BY <1>6, <1>8, <1>9 DEF Task, Cancel

\* A thread's step takes its own append forward; a discard may take others forward.
LEMMA ThreadSteps ==
    ASSUME AuditInv, AuditInv', NEW t \in Threads, Thread(t)
    PROVE  NoneBack /\ (t \in Calls => Forth(t)) /\ UNCHANGED <<up, crashes>>
<1> USE DEF boundVars, taskVars
<1>1. TypeOK /\ ThreadsAtWork /\ TypeOK' /\ Calls \subseteq Threads
  BY DEF AuditInv, Threads
<1>2. UNCHANGED <<pc, status, up, crashes>>
  BY DEF Thread, TakeLock, EnsureReady, OpenFails, Begin, Insert, Commit, Mark, StatementRaises,
         StatementFails, Rollback, Discard, GoesTo, Fault
<1>3. \A r, d : Part(r, d) \in PartsOf
  BY PartValues
<1> DEFINE before(d) == JobLeft(job[d], Part(recovering, d))
           after(d) == JobLeft(job'[d], Part(recovering', d))
<1>4. ASSUME \A d \in Calls : after(d) <= before(d), t \in Calls => after(t) < before(t)
      PROVE  NoneBack /\ (t \in Calls => Forth(t))
  <2>1. \A d \in Calls : Then(d) <= Now(d)
    BY <1>1, <1>2, <1>4, Measured DEF Now, Then, Ahead
  <2>2. t \in Calls => Then(t) < Now(t)
    BY <1>1, <1>2, <1>4, Measured DEF Now, Then, Ahead
  <2> QED BY <2>1, <2>2 DEF NoneBack, Forth
<1>5. ASSUME NEW d \in Calls \ {t} PROVE after(d) <= before(d)
  <2>1. before(d) \in 0..12 /\ after(d) \in 0..12
    BY <1>1, Measured
  <2>2. \/ job'[d] = job[d] /\ Part(recovering', d) = Part(recovering, d)
        \/ job'[d] = "mark_closed" /\ job[d] = "mark"
        \/ job'[d] = "discard" /\ job[d] \in OnConnection \ {"mark"}
        \/ job'[d] = job[d] /\ job[d] \notin OnConnection
    <3>1. CASE Discard(t)
      BY <1>1, <3>1, DiscardShape
    <3>2. CASE ~Discard(t)
      <4>1. job'[d] = job[d]
        BY <1>1, <3>2
        DEF Thread, TakeLock, EnsureReady, OpenFails, StatementFails, Begin, Insert, Commit, Mark,
            StatementRaises, Rollback, GoesTo, TypeOK
      <4>2. d \in recovering' <=> d \in recovering
        BY <3>2
        DEF Thread, TakeLock, EnsureReady, OpenFails, StatementFails, Begin, Insert, Commit, Mark,
            StatementRaises, Rollback
      <4>3. Part(recovering', d) = Part(recovering, d)
        BY <4>2 DEF Part
      <4> QED BY <4>1, <4>3
    <3> QED BY <3>1, <3>2
  <2>3. CASE job'[d] = job[d] /\ Part(recovering', d) = Part(recovering, d)
    BY <2>1, <2>3
  <2>4. CASE job'[d] = "mark_closed" /\ job[d] = "mark"
    BY <1>3, <2>4, JobLeftValues
  <2>5. CASE job'[d] = "discard" /\ job[d] \in OnConnection \ {"mark"}
    BY <1>3, <2>5, JobLeftValues DEF OnConnection
  <2>6. CASE job'[d] = job[d] /\ job[d] \notin OnConnection
    <3>1. job[d] \in {"start", "mark_closed", "discard", "idle", "waiting", "committed", "failed"}
      BY <1>1, <2>6 DEF TypeOK, Working
    <3> QED BY <1>3, <2>6, <3>1, JobLeftValues
  <2> QED BY <2>2, <2>3, <2>4, <2>5, <2>6
<1>6. ASSUME t \in Calls PROVE after(t) < before(t)
  <2>1. CASE TakeLock(t) \/ EnsureReady(t) \/ OpenFails(t) \/ StatementFails(t)
    <3>1. \/ job[t] = "waiting" /\ job'[t] = "start"
          \/ job[t] = "start" /\ job'[t] \in {"begin", "failed", "idle"}
          \/ job[t] \in {"begin", "insert", "commit"} /\ job'[t] = "rollback"
      BY <1>1, <1>6, <2>1, ConstantsAssumption
      DEF TakeLock, EnsureReady, OpenFails, StatementFails, TypeOK, Result
    <3> QED BY <1>3, <3>1, JobLeftValues
  <2>2. CASE Begin(t) \/ Insert(t)
    <3>1. /\ UNCHANGED recovering
          /\ \/ job[t] = "begin" /\ job'[t] = "insert"
             \/ job[t] = "insert" /\ job'[t] = "commit"
      BY <1>1, <2>2 DEF Begin, Insert, GoesTo, TypeOK
    <3> QED BY <1>3, <3>1, JobLeftValues
  <2>3. CASE Commit(t)
    <3>1. /\ job[t] = "commit"
          /\ IF t \in recovering THEN job'[t] = "mark" ELSE job'[t] \in {"committed", "idle"}
      BY <1>1, <2>3 DEF Commit, GoesTo, TypeOK, Result
    <3>2. t \in recovering => Part(recovering, t) = "recovery"
      BY DEF Part
    <3> QED BY <1>3, <3>1, <3>2, JobLeftValues
  <2>4. CASE Mark(t)
    <3>1. /\ Part(recovering', t) = "own"
          /\ \/ job[t] = "mark" /\ job'[t] = "begin"
             \/ job[t] = "mark_closed" /\ job'[t] = "discard"
      BY <1>1, <2>4 DEF Mark, GoesTo, TypeOK, Part
    <3> QED BY <1>3, <3>1, JobLeftValues
  <2>5. CASE StatementRaises(t) \/ Rollback(t)
    <3>1. \/ job[t] \in {"begin", "commit"} /\ job'[t] = "rollback"
          \/ job[t] = "rollback" /\ job'[t] = "discard"
      BY <1>1, <2>5 DEF StatementRaises, Rollback, GoesTo, TypeOK
    <3> QED BY <1>3, <3>1, JobLeftValues
  <2>6. CASE Discard(t)
    <3>1. job[t] = "discard" /\ job'[t] \in {"failed", "idle"}
      BY <1>1, <2>6, DiscardShape DEF Discard, Result
    <3> QED BY <1>3, <3>1, JobLeftValues
  <2> QED BY <2>1, <2>2, <2>3, <2>4, <2>5, <2>6 DEF Thread
<1>7. \A d \in Calls : after(d) <= before(d)
  <2>1. t \in Calls => after(t) <= before(t)
    BY <1>1, <1>6, Measured
  <2> QED BY <1>5, <2>1
<1> QED BY <1>2, <1>4, <1>6, <1>7

LEMMA ProcessSteps ==
    ASSUME AuditInv, AuditInv', Crash \/ Bootstrap
    PROVE  /\ NoneBack
           /\ Crash => up /\ ~up' /\ crashes' = crashes + 1 /\ crashes < MaxCrashes
           /\ Bootstrap => ~up /\ up' /\ crashes' = crashes
<1>1. TypeOK /\ TypeOK' /\ Calls \subseteq Threads
  BY DEF AuditInv, Threads
<1>2. ASSUME Bootstrap PROVE NoneBack
  <2>1. UNCHANGED <<pc, status, job, recovering>>
    BY <1>2 DEF Bootstrap, taskVars, threadVars
  <2>2. \A d \in Calls : Then(d) = Now(d)
    BY <2>1 DEF Then, Now
  <2> QED BY <1>1, <2>2, Measured DEF NoneBack
<1>3. ASSUME Crash, NEW d \in Calls PROVE Then(d) <= Now(d)
  <2>1. job'[d] = "idle" /\ pc'[d] \in {"done", pc[d]} /\ UNCHANGED status
    BY <1>1, <1>3 DEF Crash
  <2>2. JobLeft(job'[d], Part(recovering', d)) = 0
    BY <2>1, PartValues, JobLeftValues
  <2>3. Stage(pc'[d], status'[d]) <= Stage(pc[d], status[d])
    BY <1>1, <2>1, Measured, StageValues
  <2> QED BY <1>1, <2>2, <2>3, Measured DEF Now, Then, Ahead
<1>4. /\ Crash => up /\ ~up' /\ crashes' = crashes + 1 /\ crashes < MaxCrashes
      /\ Bootstrap => ~up /\ up' /\ crashes' = crashes
  BY DEF Crash, Bootstrap
<1> QED BY <1>2, <1>3, <1>4 DEF NoneBack

LEMMA CallMovesShrink ==
    ASSUME TypeOK, TypeOK', NoneBack
    PROVE  /\ CallMoves' \subseteq CallMoves
           /\ (\E c \in Calls : Forth(c)) => CallMoves' # CallMoves
<1>1. \A d \in Calls : Now(d) \in 0..64 /\ Then(d) \in 0..64
  BY Measured
<1>2. \A d \in Calls : Then(d) <= Now(d)
  BY DEF NoneBack
<1>3. /\ \A x : x \in CallMoves <=> x \in Calls \X (1..64) /\ x[2] <= Now(x[1])
      /\ \A x : x \in CallMoves' <=> x \in Calls \X (1..64) /\ x[2] <= Then(x[1])
  BY DEF CallMoves, Now, Then
<1>4. ASSUME NEW c \in Calls, Forth(c)
      PROVE  <<c, Now(c)>> \in CallMoves /\ <<c, Now(c)>> \notin CallMoves'
  <2>1. Then(c) < Now(c)
    BY <1>4 DEF Forth
  <2> QED BY <1>1, <1>3, <2>1
<1>5. CallMoves' \subseteq CallMoves
  BY <1>1, <1>2, <1>3
<1> QED BY <1>4, <1>5

LEMMA SomethingIsDone ==
    ASSUME AuditInv, AuditInv', Next
    PROVE  ToDo' \subseteq ToDo /\ (ToDo' # ToDo \/ Thread(HealthCheck))
<1>1. TypeOK /\ TypeOK'
  BY DEF AuditInv
<1>2. crashes \in Nat /\ MaxCrashes \in Nat /\ crashes <= MaxCrashes /\ up \in BOOLEAN
  BY <1>1, ConstantsAssumption DEF TypeOK
<1>3. NoneBack
  BY CallSteps, ThreadSteps, ProcessSteps DEF Next
<1>4. CallMoves' \subseteq CallMoves
  BY <1>1, <1>3, CallMovesShrink
<1>5. Starts' \subseteq Starts /\ (Crash \/ Bootstrap => Starts' # Starts)
  <2>1. CASE UNCHANGED <<up, crashes>>
    <3>1. ~Crash /\ ~Bootstrap
      BY <2>1 DEF Crash, Bootstrap
    <3> QED BY <2>1, <3>1 DEF Starts, StartsLeft
  <2>2. CASE Crash \/ Bootstrap
    <3>1. \/ up /\ ~up' /\ crashes' = crashes + 1 /\ crashes < MaxCrashes
          \/ ~up /\ up' /\ crashes' = crashes
      BY <2>2, ProcessSteps
    <3>2. StartsLeft \in Nat /\ StartsLeft' \in Nat /\ StartsLeft' < StartsLeft
      BY <1>2, <3>1 DEF StartsLeft
    <3>3. StartsLeft \in Starts /\ StartsLeft \notin Starts'
      BY <3>2 DEF Starts
    <3> QED BY <3>2, <3>3 DEF Starts
  <2> QED BY <2>1, <2>2, CallSteps, ThreadSteps, ProcessSteps DEF Next
<1>6. CallMoves' # CallMoves \/ Starts' # Starts \/ Thread(HealthCheck)
  <2>1. ASSUME NEW c \in Calls, Admit(c) \/ Deny(c) \/ Task(c) \/ Thread(c) \/ Cancel(c)
        PROVE  CallMoves' # CallMoves
    <3>1. c \in Threads
      BY DEF Threads
    <3> QED BY <1>1, <1>3, <2>1, <3>1, CallSteps, ThreadSteps, CallMovesShrink
  <2> QED BY <1>5, <2>1 DEF Next, Threads
<1>7. ToDo' \subseteq ToDo
  BY <1>4, <1>5 DEF ToDo
<1>8. \A x : /\ <<"call", x>> \in ToDo <=> x \in CallMoves
             /\ <<"start", x>> \in ToDo <=> x \in Starts
  BY DEF ToDo
<1>9. \A x : /\ <<"call", x>> \in ToDo' <=> x \in CallMoves'
             /\ <<"start", x>> \in ToDo' <=> x \in Starts'
  BY DEF ToDo
<1>10. ASSUME CallMoves' # CallMoves PROVE ToDo' # ToDo
  <2>1. PICK x : x \in CallMoves /\ x \notin CallMoves'
    BY <1>4, <1>10
  <2> QED BY <1>8, <1>9, <2>1
<1>11. ASSUME Starts' # Starts PROVE ToDo' # ToDo
  <2>1. PICK x : x \in Starts /\ x \notin Starts'
    BY <1>5, <1>11
  <2> QED BY <1>8, <1>9, <2>1
<1> QED BY <1>6, <1>7, <1>10, <1>11

LEMMA TheListIsFinite == ASSUME TypeOK PROVE IsFiniteSet(ToDo)
<1>1. \A m, n \in Int : IsFiniteSet(m..n)
  BY FS_Interval
<1>2. \A S, T : IsFiniteSet(S) /\ IsFiniteSet(T) => IsFiniteSet(S \X T) /\ IsFiniteSet(S \cup T)
  BY FS_Product, FS_Union
<1>3. IsFiniteSet(CallMoves)
  <2> DEFINE interval == 1..64
  <2>1. IsFiniteSet(interval)
    <3>1. 1 \in Int /\ 64 \in Int
      OBVIOUS
    <3> QED BY <1>1, <3>1
  <2>2. CallMoves \subseteq Calls \X interval
    BY DEF CallMoves
  <2> HIDE DEF interval
  <2>3. IsFiniteSet(Calls \X interval)
    BY <1>2, <2>1, ConstantsAssumption
  <2> QED BY <2>2, <2>3, FS_Subset
<1>4. IsFiniteSet(Starts)
  <2>1. StartsLeft \in Int
    BY ConstantsAssumption DEF StartsLeft, TypeOK
  <2> QED BY <1>1, <2>1 DEF Starts
<1>5. IsFiniteSet({"call"}) /\ IsFiniteSet({"start"})
  BY FS_Singleton
<1> DEFINE c == {"call"} \X CallMoves
           s == {"start"} \X Starts
<1>6. IsFiniteSet(c) /\ IsFiniteSet(s)
  BY <1>2, <1>3, <1>4, <1>5
<1>7. ToDo = c \cup s
  BY DEF ToDo
<1> HIDE DEF c, s
<1> QED BY <1>2, <1>6, <1>7

\* Every step of a call, of its thread, of an operator or of the supervisor takes
\* something from a finite list of what is still to be done, and no health probe adds
\* anything to it, whatever connections it discards under the threads. With
\* NothingWaitsForEver: however the storage fails, a call ends after finitely many
\* steps other than those of probes.
THEOREM CallsGoForwards ==
    Spec => [][/\ IsFiniteSet(ToDo) /\ ToDo' \subseteq ToDo
               /\ Cardinality(ToDo') < Cardinality(ToDo) \/ Thread(HealthCheck)]_vars
<1>1. AuditInv /\ AuditInv' /\ [Next]_vars =>
          [/\ IsFiniteSet(ToDo) /\ ToDo' \subseteq ToDo
           /\ Cardinality(ToDo') < Cardinality(ToDo) \/ Thread(HealthCheck)]_vars
  <2> SUFFICES ASSUME AuditInv, AuditInv', Next
               PROVE  /\ IsFiniteSet(ToDo) /\ ToDo' \subseteq ToDo
                      /\ Cardinality(ToDo') < Cardinality(ToDo) \/ Thread(HealthCheck)
    OBVIOUS
  <2>1. ToDo' \subseteq ToDo /\ (ToDo' # ToDo \/ Thread(HealthCheck))
    BY SomethingIsDone
  <2>2. IsFiniteSet(ToDo)
    BY TheListIsFinite DEF AuditInv
  <2>3. CASE ToDo' # ToDo
    <3>1. /\ IsFiniteSet(ToDo') /\ Cardinality(ToDo') <= Cardinality(ToDo)
          /\ Cardinality(ToDo') # Cardinality(ToDo)
      BY <2>1, <2>2, <2>3, FS_Subset
    <3>2. Cardinality(ToDo) \in Nat /\ Cardinality(ToDo') \in Nat
      BY <2>2, <3>1, FS_CardinalityType
    <3>3. Cardinality(ToDo') < Cardinality(ToDo)
      BY <3>1, <3>2
    <3> QED BY <2>1, <2>2, <3>3
  <2> QED BY <2>1, <2>2, <2>3
<1> QED BY <1>1, AuditInvariance, PTL DEF Spec
=============================================================================
