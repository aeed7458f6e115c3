------------------------- MODULE SchemaChangeProofs -------------------------
(***************************************************************************)
(* Proofs about SchemaChange, for any tasks, servers and connections.      *)
(***************************************************************************)
EXTENDS SchemaChange, TLAPS

BeforeEffect ==
  {"parse", "check", "validate", "capacity", "backup", "dump", "copy", "prepare",
   "method", "pin", "read", "shorten", "schema", "clone", "preflight", "production",
   "dryrun", "execute"}
SessionSteps ==
  {"read", "shorten", "schema", "clone", "preflight", "production", "drop", "restore",
   "close"}
ShortSteps == {"schema", "clone", "preflight", "production", "drop", "restore"}
Cleaning == {"drop", "restore", "close"}
Planned ==
  {"capacity", "backup", "dump", "copy", "prepare", "method", "pin", "dryrun",
   "execute"} \cup SessionSteps
StatementSteps == {"check", "validate", "next"} \cup Planned

(* Where the run is in its task.                                           *)
Positions ==
  /\ reported = at - 1
  /\ pc = "parse" => at = 1
  /\ pc \in StatementSteps => at <= Len(task)
  /\ outcome.status \in {3, 4} \/ pc \in {"end", "dead"}

Untouched(i) == applied[i] = 0 /\ i \notin pending

(* What is known of the effects: nothing happens ahead of the run, nothing *)
(* has happened to the statement it is about before the command that       *)
(* changes the table, nor when the server has answered that it could not.  *)
EffectsTracked ==
  /\ AppliedAtMostOnce
  /\ \A i \in Indices : i > at => Untouched(i)
  /\ \A i \in pending : i = at
  /\ pc \in BeforeEffect /\ at \in Indices => Untouched(at)
  /\ pc \notin Cleaning \cup {"dead"} => failure = "none"
  /\ pc \in Cleaning /\ failure = "unsupported" => Untouched(at)
  /\ pc \in Cleaning /\ failure = "none" => applied[at] = 1
  /\ pc = "next" => applied[at] = 1

(* After the backup step the backup of the statement is complete.          *)
BackupsTracked ==
  /\ BackedUpFirst
  /\ pc \in {"method", "pin", "dryrun", "execute", "next"} \cup SessionSteps =>
       (Statement.backup => backup[at] = "complete")

(* A connection with the short time-out is the pinned one, before it is    *)
(* restored or discarded, or is gone.                                      *)
SessionsTracked ==
  /\ pc \in SessionSteps => session \in Conns /\ place[session] = "pinned"
  /\ pc \notin SessionSteps \cup {"dead"} => session = NoConn
  /\ \A c \in Conns : place[c] = "pinned" => c = session
  /\ \A c \in Conns : wait[c] = "short" =>
       \/ place[c] = "gone"
       \/ c = session /\ place[c] = "pinned" /\ pc \in ShortSteps
       \/ c = session /\ place[c] = "pinned" /\ pc = "close" /\ broken

(* What the earlier checks have established by the step the run is at.     *)
MethodsTracked ==
  /\ pc \in Planned => SingleObject(Statement)
  /\ pc \in {"pin"} \cup SessionSteps =>
       Statement.online /\ BuildOnlineDDL(Statement) = "ok"
  /\ pc \in Planned => PlanIsValid(Statement)
  /\ pc \in {"dryrun", "execute"} => Statement.ptosc
  /\ pc = "execute" => BuildPTOSC(Statement)

(* Where clones may be: the one of the current statement while the session *)
(* is at work on it, any other only in doubt, and warned about if its      *)
(* statement was reported.                                                 *)
Uncloned ==
  {"parse", "check", "validate", "capacity", "backup", "dump", "copy", "prepare",
   "method", "pin", "read", "shorten", "schema", "clone"}
ClonesTracked ==
  /\ \A i \in scratch :
       /\ i <= at /\ (i < at => i \in warned)
       /\ i \in doubtful \/ (i = at /\ pc \in {"preflight", "production", "drop"})
  /\ pc \in Uncloned => at \notin scratch
  /\ at \in scratch =>
       /\ pc \in {"dryrun", "execute", "next"} => at \in warned
       /\ pc \in {"restore", "close"} => at \in warned \/ failure = "other"

(* How far the task is, when a command is still pending and at its end.    *)
ResultTracked ==
  /\ \A i \in pending : i <= Len(task)
  /\ pc = "succeed" => at = Len(task) + 1
  /\ outcome.status = 1 => pc = "end" /\ at = Len(task) + 1

-----------------------------------------------------------------------------
LEMMA StatementTyped ==
  ASSUME TypeOK, at \in 1..Len(task)
  PROVE /\ at \in Indices
        /\ task \in Seq(StatementType) /\ Len(task) \in Nat /\ Len(task) <= MaxLength
        /\ Statement \in StatementType
        /\ server \in ServerType
<1>1. task \in Seq(StatementType) /\ Len(task) <= MaxLength
  BY SchemaAssumption DEF TypeOK
<1>2. Len(task) \in Nat
  BY <1>1
<1>3. Statement \in StatementType
  BY <1>1 DEF Statement
<1>4. QED BY <1>1, <1>2, <1>3, SchemaAssumption DEF TypeOK, Indices

LEMMA EstimateTyped ==
  ASSUME NEW s \in StatementType, NEW srv \in ServerType
  PROVE EstimatedSize(s, srv) \in Nat
<1>1. s.size \in Nat /\ srv.database \in Nat
  BY DEF StatementType, ServerType
<1>2. 2 * s.size \in Nat /\ (srv.database * 12) \div 10 \in Nat
  BY <1>1
<1>3. QED BY <1>2 DEF EstimatedSize

LEMMA LessTyped == ASSUME NEW a \in Nat, NEW b \in Nat PROVE Less(a, b) \in Nat
BY DEF Less

LEMMA RefusalTyped == ASSUME NEW s PROVE Refusal(s) \in 0..7
BY DEF Refusal

Typed == TypeOK /\ Positions

LEMMA AtTyped ==
  ASSUME Typed
  PROVE /\ at \in Nat /\ MaxLength \in Nat
        /\ pc \in StatementSteps => at \in 1..Len(task) /\ at \in Indices
<1>1. at \in 1..MaxLength + 1 /\ MaxLength \in Nat
  BY SchemaAssumption DEF Typed, TypeOK
<1>2. Len(task) \in Nat /\ Len(task) <= MaxLength
  BY SchemaAssumption DEF Typed, TypeOK
<1>3. QED BY <1>1, <1>2 DEF Typed, Positions, Indices

LEMMA InitTyped == Init => Typed
<1> SUFFICES ASSUME Init PROVE Typed
  OBVIOUS
<1>1. server \in ServerType /\ MaxLength \in Nat
  BY SchemaAssumption DEF Init
<1>2. server.free \in Nat /\ server.room \in Nat
  BY <1>1 DEF ServerType
<1>3. free \in Nat /\ room \in Nat
  BY <1>2 DEF Init
<1>4. Positions
  BY DEF Init, Positions, StatementSteps, Planned, SessionSteps
<1>5. at \in 1..MaxLength + 1 /\ reported \in 0..MaxLength
  BY <1>1 DEF Init
<1>6. outcome \in [code : 0..7, status : {1, 3, 4}]
  BY DEF Init
<1>7. QED BY <1>3, <1>4, <1>5, <1>6 DEF Init, Typed, TypeOK

LEMMA WritesTyped ==
  ASSUME TypeOK, at \in 1..Len(task), NEW st \in {"partial", "complete"}, Writes(st)
  PROVE /\ backup' \in [Indices -> {"none", "partial", "complete"}]
        /\ free' \in Nat /\ room' \in Nat
<1>1. EstimatedSize(Statement, server) \in Nat
  BY StatementTyped, EstimateTyped
<1>2. free \in Nat /\ room \in Nat /\ backup \in [Indices -> {"none", "partial", "complete"}]
  BY DEF TypeOK
<1>3. Less(room, EstimatedSize(Statement, server)) \in Nat
      /\ Less(free, EstimatedSize(Statement, server)) \in Nat
  BY <1>1, <1>2, LessTyped
<1>4. QED BY <1>2, <1>3 DEF Writes

LEMMA NextTyped == Typed /\ [Next]_vars => Typed'
<1> SUFFICES ASSUME Typed, [Next]_vars PROVE Typed'
  OBVIOUS
<1> USE DEF Typed, Positions, StatementSteps, Planned, SessionSteps, Goto, Fail,
            input, pool, tables, space, verdict, notes
<1>a. TypeOK OBVIOUS
<1>b. MaxLength \in Nat /\ Len(task) \in Nat /\ Len(task) <= MaxLength
  BY SchemaAssumption DEF TypeOK
<1>c. ASSUME at <= Len(task) PROVE at \in 1..Len(task) /\ at \in Indices
  BY <1>a, <1>b, <1>c DEF TypeOK, Indices
<1>d. ASSUME pc \in StatementSteps PROVE at \in 1..Len(task) /\ at \in Indices
  BY <1>d, <1>c DEF Typed, Positions
<1>1. CASE Parse
  BY <1>1, <1>b DEF Parse, TypeOK
<1>2. CASE Check
  <2>1. Refusal(Statement) \in 0..7 BY RefusalTyped
  <2>2. QED BY <1>2, <1>b, <2>1 DEF Check, TypeOK
<1>3. CASE Validate
  BY <1>3, <1>b DEF Validate, TypeOK
<1>4. CASE CheckCapacity
  BY <1>4, <1>b DEF CheckCapacity, TypeOK
<1>5. CASE PrepareBackup
  BY <1>5, <1>b DEF PrepareBackup, TypeOK
<1>6. CASE Dump
  <2>1. backup' \in [Indices -> {"none", "partial", "complete"}] /\ free' \in Nat /\ room' \in Nat
    BY <1>6, <1>a, <1>d, WritesTyped DEF Dump
  <2>2. QED BY <1>6, <1>b, <2>1 DEF Dump, TypeOK
<1>7. CASE Copy
  <2>1. backup' \in [Indices -> {"none", "partial", "complete"}] /\ free' \in Nat /\ room' \in Nat
    BY <1>7, <1>a, <1>d, WritesTyped DEF Copy
  <2>2. QED BY <1>7, <1>b, <2>1 DEF Copy, TypeOK
<1>8. CASE Prepare
  BY <1>8, <1>b, <1>d DEF Prepare, TypeOK
<1>9. CASE ChooseMethod
  BY <1>9, <1>b DEF ChooseMethod, TypeOK
<1>10. CASE Pin
  BY <1>10, <1>b DEF Pin, TypeOK
<1>11. CASE ReadTimeout
  BY <1>11, <1>b, <1>d DEF ReadTimeout, Answers, Refuses, Loses, TypeOK
<1>12. CASE ShortenTimeout
  BY <1>12, <1>b, <1>d DEF ShortenTimeout, Answers, Refuses, Loses, TypeOK
<1>13. CASE CreateSchema
  BY <1>13, <1>b, <1>d DEF CreateSchema, Answers, Refuses, Loses, TypeOK
<1>14. CASE CreateClone
  BY <1>14, <1>b, <1>d DEF CreateClone, Answers, Refuses, Loses, TypeOK
<1>15. CASE Preflight
  BY <1>15, <1>b, <1>d DEF Preflight, Answers, Refuses, Loses, TypeOK
<1>16. CASE Production
  <2>1. at \in Indices /\ pending' \subseteq Indices
    BY <1>16, <1>d DEF Production, TypeOK
  <2>2. applied' \in [Indices -> Nat]
    BY <1>16, <2>1 DEF Production, TypeOK
  <2>3. pc' = "drop" /\ UNCHANGED verdict
    BY <1>16 DEF Production, Answers, Refuses, Loses
  <2>4. failure' \in {"none", "unsupported", "other"} /\ broken' \in BOOLEAN
        /\ doubtful' \subseteq Indices
    BY <1>16, <2>1 DEF Production, Answers, Refuses, Loses, TypeOK
  <2>5. QED BY <1>16, <1>b, <1>d, <2>1, <2>2, <2>3, <2>4 DEF Production, TypeOK
<1>17. CASE DropClone
  BY <1>17, <1>b, <1>d DEF DropClone, TypeOK
<1>18. CASE RestoreTimeout
  BY <1>18, <1>b, <1>d DEF RestoreTimeout, TypeOK
<1>19. CASE CloseSession
  <2>1. place' \in [Conns -> {"unopened", "idle", "pinned", "lent", "gone"}]
    BY <1>19 DEF CloseSession, TypeOK
  <2>2. warned' \subseteq Indices
    BY <1>19 DEF CloseSession, TypeOK
  <2>3. \/ pc' \in {"next", "dryrun"} /\ UNCHANGED verdict
        \/ pc' = "end" /\ outcome' = [code |-> 7, status |-> 4] /\ UNCHANGED reported
    BY <1>19 DEF CloseSession
  <2>4. outcome' \in [code : 0..7, status : {1, 3, 4}]
        /\ (outcome'.status \in {3, 4} \/ pc' \in {"end", "dead"})
    BY <2>3, <1>19 DEF CloseSession, TypeOK
  <2>5. TypeOK'
    BY <1>19, <1>b, <1>d, <2>1, <2>2, <2>3, <2>4 DEF CloseSession, TypeOK
  <2>6. Positions'
    BY <1>19, <1>b, <1>d, <2>3, <2>4 DEF CloseSession, TypeOK
  <2>7. QED BY <2>5, <2>6
<1>20. CASE DryRun
  BY <1>20, <1>b DEF DryRun, TypeOK
<1>21. CASE ExecutePTOSC
  BY <1>21, <1>b, <1>d DEF ExecutePTOSC, TypeOK
<1>22. CASE NextStatement
  BY <1>22, <1>b, <1>d DEF NextStatement, TypeOK
<1>23. CASE Succeed
  BY <1>23, <1>b DEF Succeed, TypeOK
<1>24. CASE \E i \in Indices : ServerFinishes(i)
  BY <1>24, <1>b DEF ServerFinishes, TypeOK
<1>25. CASE \E c \in Conns : Borrow(c) \/ GiveBack(c)
  BY <1>25, <1>b DEF Borrow, GiveBack, TypeOK
<1>26. CASE Crash
  <2>1. ASSUME pc \in {"production", "execute", "clone", "drop"} PROVE at \in Indices
    BY <2>1, <1>d
  <2>2. scratch' \subseteq Indices /\ pending' \subseteq Indices
    BY <1>26, <2>1 DEF Crash, TypeOK
  <2>3. QED BY <1>26, <1>b, <2>2 DEF Crash, Running, TypeOK
<1>27. CASE UNCHANGED vars
  BY <1>27, <1>b DEF vars, TypeOK
<1>28. QED BY <1>1, <1>2, <1>3, <1>4, <1>5, <1>6, <1>7, <1>8, <1>9, <1>10, <1>11, <1>12,
  <1>13, <1>14, <1>15, <1>16, <1>17, <1>18, <1>19, <1>20, <1>21, <1>22, <1>23, <1>24,
  <1>25, <1>26, <1>27 DEF Next, Run

(* The variables of a run keep their types.                                *)
THEOREM TypeCorrect == Spec => []TypeOK
<1>1. Init => Typed BY InitTyped
<1>2. Typed /\ [Next]_vars => Typed' BY NextTyped
<1>3. Typed => TypeOK BY DEF Typed
<1>4. QED BY <1>1, <1>2, <1>3, PTL DEF Spec

-----------------------------------------------------------------------------
LEMMA NextEffects == Typed /\ EffectsTracked /\ [Next]_vars => EffectsTracked'
<1> SUFFICES ASSUME Typed /\ EffectsTracked, [Next]_vars PROVE EffectsTracked'
  OBVIOUS
<1> USE DEF input, pool, tables, space, verdict, notes, Goto, Fail, EffectsTracked, AppliedAtMostOnce, Doubt, Untouched, BeforeEffect, Cleaning, StatementSteps, Planned, SessionSteps
<1>a. /\ TypeOK /\ TypeOK' /\ MaxLength \in Nat
      /\ at \in Nat /\ pending \subseteq Indices /\ applied \in [Indices -> Nat]
      /\ pc \in StatementSteps => at \in Indices
  BY NextTyped, AtTyped DEF Typed, TypeOK
<1>1. CASE Parse
  BY <1>1, <1>a DEF Parse
<1>2. CASE Check
  BY <1>2, <1>a DEF Check
<1>3. CASE Validate
  BY <1>3, <1>a DEF Validate
<1>4. CASE CheckCapacity
  BY <1>4, <1>a DEF CheckCapacity
<1>5. CASE PrepareBackup
  BY <1>5, <1>a DEF PrepareBackup
<1>6. CASE Dump
  BY <1>6, <1>a DEF Dump
<1>7. CASE Copy
  BY <1>7, <1>a DEF Copy
<1>8. CASE Prepare
  BY <1>8, <1>a DEF Prepare
<1>9. CASE ChooseMethod
  BY <1>9, <1>a DEF ChooseMethod
<1>10. CASE Pin
  BY <1>10, <1>a DEF Pin
<1>11. CASE ReadTimeout
  BY <1>11, <1>a DEF ReadTimeout, Answers, Refuses, Loses
<1>12. CASE ShortenTimeout
  BY <1>12, <1>a DEF ShortenTimeout, Answers, Refuses, Loses
<1>13. CASE CreateSchema
  BY <1>13, <1>a DEF CreateSchema, Answers, Refuses, Loses
<1>14. CASE CreateClone
  BY <1>14, <1>a DEF CreateClone, Answers, Refuses, Loses
<1>15. CASE Preflight
  BY <1>15, <1>a DEF Preflight, Answers, Refuses, Loses
<1>16. CASE Production
  <2>1. at \in Indices /\ Untouched(at) /\ failure = "none" /\ pc = "production"
    BY <1>16, <1>a DEF Production
  <2>2. CASE Answers("drop") /\ applied' = [applied EXCEPT ![at] = @ + 1] /\ UNCHANGED pending
    BY <1>16, <1>a, <2>1, <2>2 DEF Production, Answers
  <2>3. CASE (\E k \in {"unsupported", "other"} : Refuses(k, "drop")) /\ UNCHANGED tables
    BY <1>16, <1>a, <2>1, <2>3 DEF Production, Refuses
  <2>4. CASE Loses("drop") /\ pending' = pending \cup {at} /\ UNCHANGED applied
    BY <1>16, <1>a, <2>1, <2>4 DEF Production, Loses
  <2>5. QED BY <1>16, <2>2, <2>3, <2>4 DEF Production
<1>17. CASE DropClone
  BY <1>17, <1>a DEF DropClone
<1>18. CASE RestoreTimeout
  BY <1>18, <1>a DEF RestoreTimeout
<1>19. CASE CloseSession
  <2>1. at \in Indices /\ pc = "close" /\ UNCHANGED <<applied, pending, at>> /\ failure' = "none"
    BY <1>19, <1>a DEF CloseSession
  <2>2. CASE failure = "none" /\ pc' = "next"
    BY <1>a, <2>1, <2>2
  <2>3. CASE FallsBack(Statement) /\ pc' = "dryrun"
    <3>1. Untouched(at)
      BY <2>1, <2>3 DEF FallsBack
    <3>2. QED BY <1>a, <2>1, <2>3, <3>1
  <2>4. CASE pc' = "end"
    BY <1>a, <2>1, <2>4
  <2>5. QED BY <1>19, <2>2, <2>3, <2>4 DEF CloseSession
<1>20. CASE DryRun
  BY <1>20, <1>a DEF DryRun
<1>21. CASE ExecutePTOSC
  BY <1>21, <1>a DEF ExecutePTOSC
<1>22. CASE NextStatement
  <2>1. at \in Indices /\ applied[at] = 1 /\ at \notin pending
    BY <1>22, <1>a DEF NextStatement
  <2>2. pending = {}
    BY <1>a, <2>1
  <2>3. QED BY <1>22, <1>a, <2>1, <2>2 DEF NextStatement
<1>23. CASE Succeed
  BY <1>23, <1>a DEF Succeed
<1>24. CASE \E i \in Indices : ServerFinishes(i)
  BY <1>24, <1>a DEF ServerFinishes
<1>25. CASE \E c \in Conns : Borrow(c) \/ GiveBack(c)
  BY <1>25, <1>a DEF Borrow, GiveBack, Available, Running
<1>26. CASE Crash
  BY <1>26, <1>a DEF Crash, Running
<1>27. CASE UNCHANGED vars
  BY <1>27, <1>a DEF vars
<1>99. QED BY <1>1, <1>2, <1>3, <1>4, <1>5, <1>6, <1>7, <1>8, <1>9, <1>10, <1>11,
  <1>12, <1>13, <1>14, <1>15, <1>16, <1>17, <1>18, <1>19, <1>20, <1>21, <1>22, <1>23,
  <1>24, <1>25, <1>26, <1>27 DEF Next, Run

LEMMA NextBackups == Typed /\ EffectsTracked /\ BackupsTracked /\ [Next]_vars => BackupsTracked'
<1> SUFFICES ASSUME Typed /\ EffectsTracked /\ BackupsTracked, [Next]_vars PROVE BackupsTracked'
  OBVIOUS
<1> USE DEF input, pool, tables, space, verdict, notes, Goto, Fail, EffectsTracked, BackupsTracked, BackedUpFirst, Untouched, BeforeEffect, Statement, StatementSteps, Planned, SessionSteps
<1>a. /\ TypeOK /\ MaxLength \in Nat
      /\ at \in Nat /\ pending \subseteq Indices /\ applied \in [Indices -> Nat]
      /\ backup \in [Indices -> {"none", "partial", "complete"}]
      /\ pc \in StatementSteps => at \in Indices
  BY AtTyped DEF Typed, TypeOK
<1>1. CASE Parse
  BY <1>1, <1>a DEF Parse
<1>2. CASE Check
  BY <1>2, <1>a DEF Check
<1>3. CASE Validate
  BY <1>3, <1>a DEF Validate
<1>4. CASE CheckCapacity
  BY <1>4, <1>a DEF CheckCapacity
<1>5. CASE PrepareBackup
  BY <1>5, <1>a DEF PrepareBackup, BackupMethod
<1>6. CASE Dump
  BY <1>6, <1>a DEF Dump, Writes
<1>7. CASE Copy
  BY <1>7, <1>a DEF Copy, Writes
<1>8. CASE Prepare
  BY <1>8, <1>a DEF Prepare
<1>9. CASE ChooseMethod
  BY <1>9, <1>a DEF ChooseMethod
<1>10. CASE Pin
  BY <1>10, <1>a DEF Pin
<1>11. CASE ReadTimeout
  BY <1>11, <1>a DEF ReadTimeout, Answers, Refuses, Loses
<1>12. CASE ShortenTimeout
  BY <1>12, <1>a DEF ShortenTimeout, Answers, Refuses, Loses
<1>13. CASE CreateSchema
  BY <1>13, <1>a DEF CreateSchema, Answers, Refuses, Loses
<1>14. CASE CreateClone
  BY <1>14, <1>a DEF CreateClone, Answers, Refuses, Loses
<1>15. CASE Preflight
  BY <1>15, <1>a DEF Preflight, Answers, Refuses, Loses
<1>16. CASE Production
  BY <1>16, <1>a DEF Production, Answers, Refuses, Loses
<1>17. CASE DropClone
  BY <1>17, <1>a DEF DropClone
<1>18. CASE RestoreTimeout
  BY <1>18, <1>a DEF RestoreTimeout
<1>19. CASE CloseSession
  BY <1>19, <1>a DEF CloseSession
<1>20. CASE DryRun
  BY <1>20, <1>a DEF DryRun
<1>21. CASE ExecutePTOSC
  BY <1>21, <1>a DEF ExecutePTOSC
<1>22. CASE NextStatement
  BY <1>22, <1>a DEF NextStatement
<1>23. CASE Succeed
  BY <1>23, <1>a DEF Succeed
<1>24. CASE \E i \in Indices : ServerFinishes(i)
  BY <1>24, <1>a DEF ServerFinishes
<1>25. CASE \E c \in Conns : Borrow(c) \/ GiveBack(c)
  BY <1>25, <1>a DEF Borrow, GiveBack, Available, Running
<1>26. CASE Crash
  BY <1>26, <1>a DEF Crash, Running
<1>27. CASE UNCHANGED vars
  BY <1>27, <1>a DEF vars
<1>99. QED BY <1>1, <1>2, <1>3, <1>4, <1>5, <1>6, <1>7, <1>8, <1>9, <1>10, <1>11,
  <1>12, <1>13, <1>14, <1>15, <1>16, <1>17, <1>18, <1>19, <1>20, <1>21, <1>22, <1>23,
  <1>24, <1>25, <1>26, <1>27 DEF Next, Run

LEMMA NextSessions == Typed /\ SessionsTracked /\ [Next]_vars => SessionsTracked'
<1> SUFFICES ASSUME Typed /\ SessionsTracked, [Next]_vars PROVE SessionsTracked'
  OBVIOUS
<1> USE DEF input, pool, tables, space, verdict, notes, Goto, Fail, SessionsTracked, SessionSteps, ShortSteps
<1>a. /\ session \in Conns \cup {NoConn} /\ NoConn \notin Conns
      /\ place \in [Conns -> {"unopened", "idle", "pinned", "lent", "gone"}]
      /\ wait \in [Conns -> {"server", "short"}]
  BY SchemaAssumption DEF Typed, TypeOK
<1>1. CASE Parse
  BY <1>1, <1>a DEF Parse
<1>2. CASE Check
  BY <1>2, <1>a DEF Check
<1>3. CASE Validate
  BY <1>3, <1>a DEF Validate
<1>4. CASE CheckCapacity
  BY <1>4, <1>a DEF CheckCapacity
<1>5. CASE PrepareBackup
  BY <1>5, <1>a DEF PrepareBackup
<1>6. CASE Dump
  BY <1>6, <1>a DEF Dump
<1>7. CASE Copy
  BY <1>7, <1>a DEF Copy
<1>8. CASE Prepare
  BY <1>8, <1>a DEF Prepare
<1>9. CASE ChooseMethod
  BY <1>9, <1>a DEF ChooseMethod
<1>10. CASE Pin
  <2>1. CASE pc' = "end"
    BY <1>10, <1>a, <2>1 DEF Pin
  <2>2. CASE pc' # "end"
    <3>1. PICK c \in Conns : /\ Available(c) /\ session' = c
                             /\ place' = [place EXCEPT ![c] = "pinned"] /\ pc' = "read"
      BY <1>10, <2>2 DEF Pin
    <3>2. \A d \in Conns : place[d] # "pinned"
      BY <1>10, <1>a DEF Pin
    <3>3. wait[c] = "server" /\ place[c] # "gone"
      BY <1>10, <1>a, <3>1, <3>2 DEF Pin, Available
    <3>4. QED BY <1>10, <1>a, <3>1, <3>2, <3>3 DEF Pin
  <2>3. QED BY <2>1, <2>2
<1>11. CASE ReadTimeout
  BY <1>11, <1>a DEF ReadTimeout, Answers, Refuses, Loses
<1>12. CASE ShortenTimeout
  BY <1>12, <1>a DEF ShortenTimeout, Answers, Refuses, Loses
<1>13. CASE CreateSchema
  BY <1>13, <1>a DEF CreateSchema, Answers, Refuses, Loses
<1>14. CASE CreateClone
  BY <1>14, <1>a DEF CreateClone, Answers, Refuses, Loses
<1>15. CASE Preflight
  BY <1>15, <1>a DEF Preflight, Answers, Refuses, Loses
<1>16. CASE Production
  BY <1>16, <1>a DEF Production, Answers, Refuses, Loses
<1>17. CASE DropClone
  BY <1>17, <1>a DEF DropClone
<1>18. CASE RestoreTimeout
  BY <1>18, <1>a DEF RestoreTimeout
<1>19. CASE CloseSession
  BY <1>19, <1>a DEF CloseSession
<1>20. CASE DryRun
  BY <1>20, <1>a DEF DryRun
<1>21. CASE ExecutePTOSC
  BY <1>21, <1>a DEF ExecutePTOSC
<1>22. CASE NextStatement
  BY <1>22, <1>a DEF NextStatement
<1>23. CASE Succeed
  BY <1>23, <1>a DEF Succeed
<1>24. CASE \E i \in Indices : ServerFinishes(i)
  BY <1>24, <1>a DEF ServerFinishes
<1>25. CASE \E c \in Conns : Borrow(c) \/ GiveBack(c)
  BY <1>25, <1>a DEF Borrow, GiveBack, Available, Running
<1>26. CASE Crash
  BY <1>26, <1>a DEF Crash, Running
<1>27. CASE UNCHANGED vars
  BY <1>27, <1>a DEF vars
<1>99. QED BY <1>1, <1>2, <1>3, <1>4, <1>5, <1>6, <1>7, <1>8, <1>9, <1>10, <1>11,
  <1>12, <1>13, <1>14, <1>15, <1>16, <1>17, <1>18, <1>19, <1>20, <1>21, <1>22, <1>23,
  <1>24, <1>25, <1>26, <1>27 DEF Next, Run

LEMMA NextMethods == Typed /\ MethodsTracked /\ [Next]_vars => MethodsTracked'
<1> SUFFICES ASSUME Typed /\ MethodsTracked, [Next]_vars PROVE MethodsTracked'
  OBVIOUS
<1> USE DEF input, pool, tables, space, verdict, notes, Goto, Fail, MethodsTracked, Planned, SessionSteps, Statement
<1>a. TypeOK BY DEF Typed
<1>1. CASE Parse
  BY <1>1, <1>a DEF Parse
<1>2. CASE Check
  BY <1>2, <1>a DEF Check
<1>3. CASE Validate
  BY <1>3, <1>a DEF Validate, TargetMatches
<1>4. CASE CheckCapacity
  BY <1>4, <1>a DEF CheckCapacity
<1>5. CASE PrepareBackup
  BY <1>5, <1>a DEF PrepareBackup
<1>6. CASE Dump
  BY <1>6, <1>a DEF Dump
<1>7. CASE Copy
  BY <1>7, <1>a DEF Copy
<1>8. CASE Prepare
  BY <1>8, <1>a DEF Prepare
<1>9. CASE ChooseMethod
  BY <1>9, <1>a DEF ChooseMethod, PlanIsValid
<1>10. CASE Pin
  BY <1>10, <1>a DEF Pin
<1>11. CASE ReadTimeout
  BY <1>11, <1>a DEF ReadTimeout, Answers, Refuses, Loses
<1>12. CASE ShortenTimeout
  BY <1>12, <1>a DEF ShortenTimeout, Answers, Refuses, Loses
<1>13. CASE CreateSchema
  BY <1>13, <1>a DEF CreateSchema, Answers, Refuses, Loses
<1>14. CASE CreateClone
  BY <1>14, <1>a DEF CreateClone, Answers, Refuses, Loses
<1>15. CASE Preflight
  BY <1>15, <1>a DEF Preflight, Answers, Refuses, Loses
<1>16. CASE Production
  BY <1>16, <1>a DEF Production, Answers, Refuses, Loses
<1>17. CASE DropClone
  BY <1>17, <1>a DEF DropClone
<1>18. CASE RestoreTimeout
  BY <1>18, <1>a DEF RestoreTimeout
<1>19. CASE CloseSession
  BY <1>19, <1>a DEF CloseSession, FallsBack
<1>20. CASE DryRun
  BY <1>20, <1>a DEF DryRun
<1>21. CASE ExecutePTOSC
  BY <1>21, <1>a DEF ExecutePTOSC
<1>22. CASE NextStatement
  BY <1>22, <1>a DEF NextStatement
<1>23. CASE Succeed
  BY <1>23, <1>a DEF Succeed
<1>24. CASE \E i \in Indices : ServerFinishes(i)
  BY <1>24, <1>a DEF ServerFinishes
<1>25. CASE \E c \in Conns : Borrow(c) \/ GiveBack(c)
  BY <1>25, <1>a DEF Borrow, GiveBack, Available, Running
<1>26. CASE Crash
  BY <1>26, <1>a DEF Crash, Running
<1>27. CASE UNCHANGED vars
  BY <1>27, <1>a DEF vars
<1>99. QED BY <1>1, <1>2, <1>3, <1>4, <1>5, <1>6, <1>7, <1>8, <1>9, <1>10, <1>11,
  <1>12, <1>13, <1>14, <1>15, <1>16, <1>17, <1>18, <1>19, <1>20, <1>21, <1>22, <1>23,
  <1>24, <1>25, <1>26, <1>27 DEF Next, Run

LEMMA NextClones == Typed /\ EffectsTracked /\ ClonesTracked /\ [Next]_vars => ClonesTracked'
<1> SUFFICES ASSUME Typed /\ EffectsTracked /\ ClonesTracked, [Next]_vars PROVE ClonesTracked'
  OBVIOUS
<1> USE DEF input, pool, tables, space, verdict, notes, Goto, Fail, ClonesTracked, Uncloned, StatementSteps, Planned, SessionSteps
<1>a. /\ at \in Nat /\ scratch \subseteq Indices /\ warned \subseteq Indices
      /\ \A i \in Indices : i \in Nat
      /\ pc \in StatementSteps => at \in Indices
      /\ pc \notin Cleaning \cup {"dead"} => failure = "none"
  BY AtTyped DEF Typed, TypeOK, Indices, EffectsTracked
<1>1. CASE Parse
  BY <1>1, <1>a DEF Parse
<1>2. CASE Check
  BY <1>2, <1>a DEF Check
<1>3. CASE Validate
  BY <1>3, <1>a DEF Validate
<1>4. CASE CheckCapacity
  BY <1>4, <1>a DEF CheckCapacity
<1>5. CASE PrepareBackup
  BY <1>5, <1>a DEF PrepareBackup
<1>6. CASE Dump
  BY <1>6, <1>a DEF Dump, Writes
<1>7. CASE Copy
  BY <1>7, <1>a DEF Copy, Writes
<1>8. CASE Prepare
  BY <1>8, <1>a DEF Prepare
<1>9. CASE ChooseMethod
  BY <1>9, <1>a DEF ChooseMethod
<1>10. CASE Pin
  BY <1>10, <1>a DEF Pin
<1>11. CASE ReadTimeout
  BY <1>11, <1>a DEF ReadTimeout, Answers, Refuses, Loses
<1>12. CASE ShortenTimeout
  BY <1>12, <1>a DEF ShortenTimeout, Answers, Refuses, Loses
<1>13. CASE CreateSchema
  BY <1>13, <1>a DEF CreateSchema, Answers, Refuses, Loses
<1>14. CASE CreateClone
  BY <1>14, <1>a DEF CreateClone, Answers, Refuses, Loses
<1>15. CASE Preflight
  BY <1>15, <1>a DEF Preflight, Answers, Refuses, Loses
<1>16. CASE Production
  BY <1>16, <1>a DEF Production, Answers, Refuses, Loses
<1>17. CASE DropClone
  BY <1>17, <1>a DEF DropClone
<1>18. CASE RestoreTimeout
  BY <1>18, <1>a DEF RestoreTimeout
<1>19. CASE CloseSession
  BY <1>19, <1>a DEF CloseSession, FallsBack
<1>20. CASE DryRun
  BY <1>20, <1>a DEF DryRun
<1>21. CASE ExecutePTOSC
  BY <1>21, <1>a DEF ExecutePTOSC
<1>22. CASE NextStatement
  BY <1>22, <1>a DEF NextStatement
<1>23. CASE Succeed
  BY <1>23, <1>a DEF Succeed
<1>24. CASE \E i \in Indices : ServerFinishes(i)
  BY <1>24, <1>a DEF ServerFinishes
<1>25. CASE \E c \in Conns : Borrow(c) \/ GiveBack(c)
  BY <1>25, <1>a DEF Borrow, GiveBack, Available, Running
<1>26. CASE Crash
  BY <1>26, <1>a DEF Crash, Running
<1>27. CASE UNCHANGED vars
  BY <1>27, <1>a DEF vars
<1>99. QED BY <1>1, <1>2, <1>3, <1>4, <1>5, <1>6, <1>7, <1>8, <1>9, <1>10, <1>11,
  <1>12, <1>13, <1>14, <1>15, <1>16, <1>17, <1>18, <1>19, <1>20, <1>21, <1>22, <1>23,
  <1>24, <1>25, <1>26, <1>27 DEF Next, Run

LEMMA NextResult == Typed /\ EffectsTracked /\ ResultTracked /\ [Next]_vars => ResultTracked'
<1> SUFFICES ASSUME Typed /\ EffectsTracked /\ ResultTracked, [Next]_vars PROVE ResultTracked'
  OBVIOUS
<1> USE DEF input, pool, tables, space, verdict, notes, Goto, Fail, ResultTracked, StatementSteps, Planned, SessionSteps
<1>a. /\ at \in Nat /\ Len(task) \in Nat /\ pending \subseteq Indices
      /\ \A i \in Indices : i \in Nat
      /\ pc \in StatementSteps => at \in Indices /\ at <= Len(task)
      /\ \A i \in pending : i = at
      /\ pc = "next" => applied[at] = 1
      /\ outcome.status = 1 => pc = "end"
  BY AtTyped, SchemaAssumption DEF Typed, TypeOK, Positions, Indices, EffectsTracked
<1>1. CASE Parse
  BY <1>1, <1>a DEF Parse
<1>2. CASE Check
  BY <1>2, <1>a DEF Check
<1>3. CASE Validate
  BY <1>3, <1>a DEF Validate
<1>4. CASE CheckCapacity
  BY <1>4, <1>a DEF CheckCapacity
<1>5. CASE PrepareBackup
  BY <1>5, <1>a DEF PrepareBackup
<1>6. CASE Dump
  BY <1>6, <1>a DEF Dump, Writes
<1>7. CASE Copy
  BY <1>7, <1>a DEF Copy, Writes
<1>8. CASE Prepare
  BY <1>8, <1>a DEF Prepare
<1>9. CASE ChooseMethod
  BY <1>9, <1>a DEF ChooseMethod
<1>10. CASE Pin
  BY <1>10, <1>a DEF Pin
<1>11. CASE ReadTimeout
  BY <1>11, <1>a DEF ReadTimeout, Answers, Refuses, Loses
<1>12. CASE ShortenTimeout
  BY <1>12, <1>a DEF ShortenTimeout, Answers, Refuses, Loses
<1>13. CASE CreateSchema
  BY <1>13, <1>a DEF CreateSchema, Answers, Refuses, Loses
<1>14. CASE CreateClone
  BY <1>14, <1>a DEF CreateClone, Answers, Refuses, Loses
<1>15. CASE Preflight
  BY <1>15, <1>a DEF Preflight, Answers, Refuses, Loses
<1>16. CASE Production
  BY <1>16, <1>a DEF Production, Answers, Refuses, Loses
<1>17. CASE DropClone
  BY <1>17, <1>a DEF DropClone
<1>18. CASE RestoreTimeout
  BY <1>18, <1>a DEF RestoreTimeout
<1>19. CASE CloseSession
  BY <1>19, <1>a DEF CloseSession
<1>20. CASE DryRun
  BY <1>20, <1>a DEF DryRun
<1>21. CASE ExecutePTOSC
  BY <1>21, <1>a DEF ExecutePTOSC
<1>22. CASE NextStatement
  BY <1>22, <1>a DEF NextStatement
<1>23. CASE Succeed
  BY <1>23, <1>a DEF Succeed
<1>24. CASE \E i \in Indices : ServerFinishes(i)
  BY <1>24, <1>a DEF ServerFinishes
<1>25. CASE \E c \in Conns : Borrow(c) \/ GiveBack(c)
  BY <1>25, <1>a DEF Borrow, GiveBack, Available, Running
<1>26. CASE Crash
  BY <1>26, <1>a DEF Crash, Running
<1>27. CASE UNCHANGED vars
  BY <1>27, <1>a DEF vars
<1>99. QED BY <1>1, <1>2, <1>3, <1>4, <1>5, <1>6, <1>7, <1>8, <1>9, <1>10, <1>11,
  <1>12, <1>13, <1>14, <1>15, <1>16, <1>17, <1>18, <1>19, <1>20, <1>21, <1>22, <1>23,
  <1>24, <1>25, <1>26, <1>27 DEF Next, Run

Sound ==
  /\ Typed /\ EffectsTracked /\ BackupsTracked /\ SessionsTracked /\ MethodsTracked
  /\ ClonesTracked /\ ResultTracked

LEMMA InitSound == Init => Sound
<1> SUFFICES ASSUME Init PROVE Sound
  OBVIOUS
<1>1. Typed BY InitTyped
<1>2. EffectsTracked
  BY <1>1, AtTyped DEF Init, EffectsTracked, AppliedAtMostOnce, Doubt, Untouched, BeforeEffect, Cleaning
<1>3. BackupsTracked
  BY DEF Init, BackupsTracked, BackedUpFirst, SessionSteps
<1>4. SessionsTracked
  BY DEF Init, SessionsTracked, SessionSteps
<1>5. MethodsTracked
  BY DEF Init, MethodsTracked, Planned, SessionSteps
<1>6. ClonesTracked /\ ResultTracked
  BY DEF Init, SessionSteps, ClonesTracked, ResultTracked
<1>7. QED BY <1>1, <1>2, <1>3, <1>4, <1>5, <1>6 DEF Sound

LEMMA NextSound == Sound /\ [Next]_vars => Sound'
BY NextTyped, NextEffects, NextBackups, NextSessions, NextMethods, NextClones,
   NextResult DEF Sound

LEMMA AlwaysSound == Spec => []Sound
BY InitSound, NextSound, PTL DEF Spec

(* Whatever connections are lost, a change takes effect at most once, and  *)
(* pt-osc never repeats what the database may already have done.           *)
THEOREM OnceEach == Spec => []AppliedAtMostOnce
<1>1. Sound => AppliedAtMostOnce BY DEF Sound, EffectsTracked
<1>2. QED BY <1>1, AlwaysSound, PTL

(* No table is touched before the backup its statement asked for is        *)
(* complete.                                                               *)
THEOREM BackupsComeFirst == Spec => []BackedUpFirst
<1>1. Sound => BackedUpFirst BY DEF Sound, BackupsTracked
<1>2. QED BY <1>1, AlwaysSound, PTL

(* The shortened time-out never reaches another user of the pool.          *)
THEOREM PoolKeepsTimeouts == Spec => []PooledSessionsUntouched
<1>1. Sound => PooledSessionsUntouched
  BY DEF Sound, SessionsTracked, PooledSessionsUntouched, Typed, TypeOK
<1>2. QED BY <1>1, AlwaysSound, PTL

(* Only allowed statements reach the table, by either method.              *)
THEOREM MethodsAllowed == Spec => []OnlyAllowedMethods
<1>1. ASSUME Sound, pc = "production"
      PROVE /\ Statement.online /\ Statement.text = "plain" /\ SingleObject(Statement)
            /\ Statement.algorithm \in {"absent", "online"}
            /\ Statement.lock \in {"absent", "none"}
  <2>1. at \in 1..Len(task)
    BY <1>1, AtTyped DEF Sound, StatementSteps, Planned, SessionSteps
  <2>2. Statement \in StatementType
    BY <1>1, <2>1, StatementTyped DEF Sound, Typed
  <2>3. Statement.algorithm \in {"absent", "online", "blocking", "unknown", "twice"}
        /\ Statement.lock \in {"absent", "none", "blocking", "unknown", "twice"}
    BY <2>2 DEF StatementType
  <2>4. BuildOnlineDDL(Statement) = "ok" /\ Statement.online /\ SingleObject(Statement)
    BY <1>1 DEF Sound, MethodsTracked, Planned, SessionSteps
  <2>5. QED BY <2>3, <2>4 DEF BuildOnlineDDL
<1>2. ASSUME Sound, pc = "execute"
      PROVE Statement.ptosc /\ SingleObject(Statement) /\ BuildPTOSC(Statement)
  BY <1>2 DEF Sound, MethodsTracked, Planned
<1>3. Sound => OnlyAllowedMethods
  BY <1>1, <1>2 DEF OnlyAllowedMethods
<1>4. QED BY <1>3, AlwaysSound, PTL

(* A clone is left behind only by a lost connection, a DROP that failed or *)
(* the death of the agent, and no statement reported as successful hides   *)
(* one it left.                                                            *)
THEOREM NoHiddenClones == Spec => []ClonesAreDropped
<1>1. ASSUME Sound PROVE ClonesAreDropped
  <2>1. reported = at - 1 /\ at \in Nat /\ \A i \in scratch : i \in Nat
    BY <1>1, AtTyped DEF Sound, Typed, Positions, TypeOK, Indices
  <2>2. QED BY <1>1, <2>1 DEF Sound, ClonesTracked, ClonesAreDropped
<1>2. QED BY <1>1, AlwaysSound, PTL

-----------------------------------------------------------------------------
(* The refinement of OrderedChanges.                                       *)

Made == {i \in Indices : applied[i] = 1}

(* A step of the run that neither changes a table nor reports a statement. *)
Quiet ==
  /\ Running
  /\ UNCHANGED <<task, applied, reported>>
  /\ Running' \/ (pc' = "end" /\ outcome'.status = 4)
      \/ (pc' = "dead" /\ outcome'.status # 1)

LEMMA QuietMaps == ASSUME Quiet PROVE Ordered!Fail \/ UNCHANGED Ordered!vars
<1>1. UNCHANGED <<Len(task), Made, reported>>
  BY DEF Quiet, Made
<1>2. Result = "running"
  BY DEF Quiet, Result
<1>3. CASE Running'
  <2>1. Result' = "running" BY <1>3 DEF Result
  <2>2. QED BY <1>1, <1>2, <2>1 DEF Ordered!vars, Made
<1>4. CASE ~Running'
  <2>1. Result' = "failed" BY <1>4 DEF Quiet, Result, Running
  <2>2. QED BY <1>1, <1>2, <2>1 DEF Ordered!Fail, Made
<1>5. QED BY <1>3, <1>4

(* Statement i takes effect, for the first time: it is the one that is due. *)
LEMMA MadeNow ==
  ASSUME Sound, at \in 1..Len(task), applied[at] = 0, UNCHANGED task,
         applied' = [applied EXCEPT ![at] = @ + 1]
  PROVE /\ reported + 1 = at /\ reported < Len(task)
        /\ reported + 1 \notin Made
        /\ Made' = Made \cup {reported + 1}
<1>1. /\ reported = at - 1 /\ at \in Indices /\ Len(task) \in Nat /\ at \in Nat
      /\ applied \in [Indices -> Nat]
  BY StatementTyped DEF Sound, Typed, Positions, TypeOK, Indices
<1>2. applied'[at] = 1 /\ \A i \in Indices \ {at} : applied'[i] = applied[i]
  BY <1>1
<1>3. QED BY <1>1, <1>2 DEF Made

LEMMA RunMaps == Sound /\ Run => Ordered!Next \/ UNCHANGED Ordered!vars
<1> SUFFICES ASSUME Sound, Run PROVE Ordered!Next \/ UNCHANGED Ordered!vars
  OBVIOUS
<1> USE DEF input, pool, tables, space, verdict, notes, Goto, Fail
<1>a. pc \in StatementSteps => at \in 1..Len(task) /\ at \in Indices
  BY AtTyped DEF Sound
<1>b. Quiet => Ordered!Next \/ UNCHANGED Ordered!vars
  BY QuietMaps DEF Ordered!Next
<1>1. CASE Parse \/ Check \/ Validate \/ CheckCapacity \/ PrepareBackup \/ Dump \/ Copy
            \/ Prepare \/ ChooseMethod \/ Pin \/ DropClone \/ RestoreTimeout \/ DryRun
  BY <1>1, <1>b DEF Quiet, Running, Parse, Check, Validate, CheckCapacity, PrepareBackup,
     Dump, Copy, Prepare, ChooseMethod, Pin, DropClone, RestoreTimeout, DryRun
<1>2. CASE ReadTimeout \/ ShortenTimeout \/ CreateSchema \/ CreateClone \/ Preflight
  BY <1>2, <1>b DEF Quiet, Running, ReadTimeout, ShortenTimeout, CreateSchema, CreateClone,
     Preflight, Answers, Refuses, Loses
<1>3. CASE CloseSession
  BY <1>3, <1>b DEF Quiet, Running, CloseSession
<1>4. CASE Production
  <2>1. /\ pc = "production" /\ pc' = "drop" /\ UNCHANGED <<task, reported, outcome>>
        /\ applied' = applied \/ applied' = [applied EXCEPT ![at] = @ + 1]
    BY <1>4 DEF Production, Answers, Refuses, Loses
  <2>2. at \in 1..Len(task) /\ at \in Indices /\ applied[at] = 0
    BY <1>a, <2>1 DEF Sound, EffectsTracked, BeforeEffect, Untouched, StatementSteps,
       Planned, SessionSteps
  <2>3. CASE applied' = applied
    BY <1>b, <2>1, <2>3 DEF Quiet, Running
  <2>4. CASE applied' = [applied EXCEPT ![at] = @ + 1]
    <3>1. Result = "running" /\ Result' = "running"
      BY <2>1 DEF Result, Running
    <3>2. Ordered!Make
      BY <2>1, <2>2, <2>4, <3>1, MadeNow DEF Ordered!Make, Made
    <3>3. QED BY <3>2 DEF Ordered!Next
  <2>5. QED BY <2>1, <2>3, <2>4
<1>5. CASE ExecutePTOSC
  <2>1. /\ pc = "execute" /\ UNCHANGED <<task, reported>>
        /\ \/ pc' = "next" /\ applied' = [applied EXCEPT ![at] = @ + 1]
           \/ /\ pc' = "end" /\ outcome'.status = 4
              /\ applied' \in {applied, [applied EXCEPT ![at] = @ + 1]}
    BY <1>5 DEF ExecutePTOSC
  <2>2. at \in 1..Len(task) /\ at \in Indices /\ applied[at] = 0
    BY <1>a, <2>1 DEF Sound, EffectsTracked, BeforeEffect, Untouched, StatementSteps,
       Planned, SessionSteps
  <2>3. CASE applied' = applied /\ pc' = "end" /\ outcome'.status = 4
    BY <1>b, <2>1, <2>3 DEF Quiet, Running
  <2>4. CASE applied' = [applied EXCEPT ![at] = @ + 1]
    <3>1. Result = "running"
      BY <2>1 DEF Result, Running
    <3>2. Result' = "running" \/ Result' = "failed"
      BY <2>1 DEF Result, Running
    <3>3. Ordered!Make \/ Ordered!Fail
      BY <2>1, <2>2, <2>4, <3>1, <3>2, MadeNow DEF Ordered!Make, Ordered!Fail, Made
    <3>4. QED BY <3>3 DEF Ordered!Next
  <2>5. QED BY <2>1, <2>3, <2>4
<1>6. CASE NextStatement
  <2>1. /\ pc = "next" /\ reported' = at /\ UNCHANGED <<task, applied>>
        /\ pc' \in {"succeed", "check"}
    BY <1>6 DEF NextStatement
  <2>2. at \in Indices /\ applied[at] = 1 /\ reported = at - 1 /\ at \in Nat
    BY <1>a, <2>1, AtTyped DEF Sound, EffectsTracked, Typed, Positions, StatementSteps
  <2>3. Result = "running" /\ Result' = "running"
    BY <2>1 DEF Result, Running
  <2>4. Ordered!Confirm
    BY <2>1, <2>2, <2>3 DEF Ordered!Confirm
  <2>5. QED BY <2>4 DEF Ordered!Next
<1>7. CASE Succeed
  <2>1. /\ pc = "succeed" /\ pc' = "end" /\ outcome'.status = 1
        /\ UNCHANGED <<task, applied, reported>>
    BY <1>7 DEF Succeed
  <2>2. reported = Len(task)
    BY <2>1, AtTyped, SchemaAssumption
    DEF Sound, ResultTracked, Typed, Positions, TypeOK
  <2>3. Result = "running" /\ Result' = "succeeded"
    BY <2>1 DEF Result, Running
  <2>4. Ordered!Succeed
    BY <2>1, <2>2, <2>3 DEF Ordered!Succeed
  <2>5. QED BY <2>4 DEF Ordered!Next
<1>8. QED BY <1>1, <1>2, <1>3, <1>4, <1>5, <1>6, <1>7 DEF Run

LEMMA OthersMap ==
  ASSUME Sound, Next \/ UNCHANGED vars, ~Run
  PROVE Ordered!Next \/ UNCHANGED Ordered!vars
<1> USE DEF input, pool, tables, space, verdict, notes
<1>1. ASSUME NEW i \in Indices, ServerFinishes(i) PROVE Ordered!Next \/ UNCHANGED Ordered!vars
  <2>1. /\ i \in pending /\ UNCHANGED <<task, pc, outcome, reported>>
        /\ applied' = applied \/ applied' = [applied EXCEPT ![i] = @ + 1]
    BY <1>1 DEF ServerFinishes
  <2>2. i = at /\ at <= Len(task) /\ at \in Nat /\ Len(task) \in Nat /\ at >= 1
    BY <2>1, AtTyped, SchemaAssumption DEF Sound, EffectsTracked, ResultTracked, Typed,
       TypeOK
  <2>3. at \in 1..Len(task) /\ at \in Indices
    BY <2>2
  <2>4. applied[at] = 0
    BY <2>1, <2>2, <2>3 DEF Sound, EffectsTracked, AppliedAtMostOnce, Doubt, Typed, TypeOK
  <2>5. UNCHANGED Result
    BY <2>1 DEF Result, Running
  <2>6. Result # "succeeded"
    BY <2>1, <2>2 DEF Result, Sound, ResultTracked, Running
  <2>7. CASE applied' = applied
    BY <2>1, <2>5, <2>7 DEF Ordered!vars
  <2>8. CASE applied' = [applied EXCEPT ![i] = @ + 1]
    <3>1. Ordered!Make
      BY <2>1, <2>2, <2>3, <2>4, <2>5, <2>6, <2>8, MadeNow DEF Ordered!Make, Made
    <3>2. QED BY <3>1 DEF Ordered!Next
  <2>9. QED BY <2>1, <2>7, <2>8
<1>2. ASSUME NEW c \in Conns, Borrow(c) \/ GiveBack(c) PROVE UNCHANGED Ordered!vars
  BY <1>2 DEF Borrow, GiveBack, Ordered!vars, Result, Running
<1>3. CASE Crash
  <2>1. Running /\ pc' = "dead" /\ UNCHANGED <<task, applied, reported, outcome>>
    BY <1>3 DEF Crash
  <2>2. outcome'.status # 1
    BY <2>1 DEF Sound, ResultTracked, Running
  <2>3. Quiet
    BY <2>1, <2>2 DEF Quiet
  <2>4. QED BY <2>3, QuietMaps DEF Ordered!Next
<1>4. CASE UNCHANGED vars
  BY <1>4 DEF vars, Ordered!vars, Result, Running
<1>5. QED BY <1>1, <1>2, <1>3, <1>4 DEF Next

(* Whatever fails, is lost or dies, a task makes its changes in order,     *)
(* begins none before the one before it is known to be made, and leaves at *)
(* most the one that failed in doubt: ApplySchemaChanges implements        *)
(* OrderedChanges.                                                         *)
THEOREM OrderIsKept == Spec => ImplementsOrderedChanges
<1>1. Init => Ordered!Init
  <2> SUFFICES ASSUME Init PROVE Ordered!Init
    OBVIOUS
  <2>1. task \in Tasks /\ Made = {} /\ reported = 0 /\ Result = "running"
    BY DEF Init, Made, Result, Running
  <2>2. QED BY <2>1 DEF Ordered!Init, Made
<1>2. Sound /\ [Next]_vars => [Ordered!Next]_(Ordered!vars)
  BY RunMaps, OthersMap
<1>3. QED BY <1>1, <1>2, AlwaysSound, PTL DEF Spec, ImplementsOrderedChanges, Ordered!Spec

-----------------------------------------------------------------------------
(* Why the task ends (TaskEnds): the steps a statement has left.           *)
StepsLeft ==
  [parse |-> 24, check |-> 23, validate |-> 22, capacity |-> 21, backup |-> 20,
   dump |-> 19, copy |-> 19, prepare |-> 18, method |-> 17, pin |-> 16, read |-> 15,
   shorten |-> 14, schema |-> 13, clone |-> 12, preflight |-> 11, production |-> 10,
   drop |-> 9, restore |-> 8, close |-> 7, dryrun |-> 6, execute |-> 5, next |-> 3,
   succeed |-> 1, end |-> 0, dead |-> 0]
Advances ==
  \/ pc = "next" /\ pc' = "check" /\ at' = at + 1 /\ at < Len(task)
  \/ pc = "next" /\ pc' = "succeed"
  \/ at' = at /\ StepsLeft[pc'] < StepsLeft[pc]

LEMMA RunAdvances == Typed /\ Run => Advances
<1> SUFFICES ASSUME Typed, Run PROVE Advances
  OBVIOUS
<1>1. CASE Parse \/ Check \/ Validate \/ CheckCapacity
  BY <1>1 DEF Parse, Check, Validate, CheckCapacity, Fail, Goto, Advances, StepsLeft
<1>2. CASE PrepareBackup \/ Dump \/ Copy \/ Prepare \/ ChooseMethod
  BY <1>2 DEF PrepareBackup, Dump, Copy, Prepare, ChooseMethod, Fail, Goto, Advances, StepsLeft
<1>3. CASE Pin \/ ReadTimeout \/ ShortenTimeout
  BY <1>3 DEF Pin, ReadTimeout, ShortenTimeout, Answers, Refuses, Loses, Fail, Goto, Advances,
              StepsLeft
<1>4. CASE CreateSchema \/ CreateClone
  BY <1>4 DEF CreateSchema, CreateClone, Answers, Refuses, Loses, Goto, Advances, StepsLeft
<1>5. CASE Preflight \/ Production
  BY <1>5 DEF Preflight, Production, Answers, Refuses, Loses, Goto, Advances, StepsLeft
<1>6. CASE DropClone \/ RestoreTimeout \/ CloseSession
  BY <1>6 DEF DropClone, RestoreTimeout, CloseSession, Fail, Goto, Advances, StepsLeft
<1>7. CASE DryRun \/ ExecutePTOSC \/ Succeed
  BY <1>7 DEF DryRun, ExecutePTOSC, Succeed, Fail, Goto, Advances, StepsLeft
<1>8. CASE NextStatement
  <2>1. at \in Nat /\ at <= Len(task) /\ Len(task) \in Nat
    BY <1>8, AtTyped, SchemaAssumption
    DEF NextStatement, Typed, TypeOK, Positions, StatementSteps
  <2>2. QED BY <1>8, <2>1 DEF NextStatement, Advances
<1>9. QED BY <1>1, <1>2, <1>3, <1>4, <1>5, <1>6, <1>7, <1>8 DEF Run

(* Every step of a run leads to the next statement, or nearer to the end   *)
(* of this one: no failure, lost connection or change of method sends a    *)
(* task back, and nobody else moves it but by its death.  A task has       *)
(* finitely many statements, which is the reason for TaskEnds.             *)
THEOREM EveryStepAdvances ==
  Spec => [][(Run => Advances) /\ (~Run => UNCHANGED <<pc, at>> \/ Crash)]_vars
<1>1. Typed /\ [Next]_vars => [(Run => Advances) /\ (~Run => UNCHANGED <<pc, at>> \/ Crash)]_vars
  BY RunAdvances DEF Next, ServerFinishes, Borrow, GiveBack
<1>2. QED BY <1>1, AlwaysSound, PTL DEF Spec, Sound

=============================================================================
