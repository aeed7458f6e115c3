---- MODULE ExplainPassProofs ----
(***************************************************************************)
(* ExplainPass for any statements, databases and quota: every plan is made *)
(* in the statement's own database, what the pass borrows it gives back    *)
(* clean, no text is EXPLAINed a third time, one dropped connection is no  *)
(* loss, every statement is answered, and every step leads on.             *)
(***************************************************************************)
EXTENDS ExplainPass, TLAPS

USE EnginesAssumption, DigestsAssumption, NoneAssumption

----------------------------------------------------------------------------
(* The types, in two groups: where the pass is, and what it talks to.      *)
PassTypes ==
  /\ engine \in Engines /\ ranking \in 1..3 /\ todo \subseteq Digests
  /\ successes \in Nat /\ cut \subseteq {1, 2}
  /\ answer \in [Digests -> Answers] /\ known \in [Digests -> Answers]
  /\ attempted \subseteq Digests /\ failed \in [Databases -> Reasons \cup {"no"}]
  /\ pc \in Steps /\ cur \in Digests \cup {NoDigest} /\ got \in Answers
  /\ (pc \notin {"visit", "close", "closed"} => cur \in Digests)
  /\ drops \in 0..2
SessionTypes ==
  /\ round \in 1..2 /\ tries \in 0..1 /\ opened \in BOOLEAN /\ dead \in BOOLEAN
  /\ selected \in Databases \cup {NoDatabase} /\ current \in Databases \cup {NoDatabase}
  /\ dirty \in BOOLEAN /\ leaked \subseteq Leftovers
  /\ text \in Texts /\ conn \in Conns /\ sent \in [Digests \X Texts -> 0..3]
Leased == leases = Held
Typed == PassTypes /\ SessionTypes /\ Leased

LEMMA TypedImpliesTypeOK == ASSUME Typed PROVE TypeOK
  BY DEF Typed, PassTypes, SessionTypes, Leased, Held, TypeOK, Texts

LEMMA AnswerTypes ==
  /\ NoAnswer \in Answers /\ NoAnswer.plan = NoDatabase
  /\ \A a \in Answers, p \in Databases \cup {Home, NoDatabase} :
       [a EXCEPT !.plan = p] \in Answers /\ [a EXCEPT !.plan = p].plan = p
  /\ \A a \in Answers, e \in {"none", "failed"} \cup Reasons :
       [a EXCEPT !.err = e] \in Answers /\ [a EXCEPT !.err = e].plan = a.plan
  BY DEF NoAnswer, Answers
LEMMA ConnTypes ==
  /\ NoConn \in Conns
  /\ \A db \in Databases \cup {Home}, left \in SUBSET Leftovers :
       /\ Opened(db, left) \in Conns /\ Opened(db, left).db = db
       /\ Opened(db, left).left = left /\ Opened(db, left) # NoConn
  /\ \A c \in Conns, db \in Databases : [c EXCEPT !.db = db] \in Conns
  /\ \A c \in Conns : [c EXCEPT !.alive = FALSE] \in Conns
  /\ \A c \in Conns, w \in Leftovers :
       [c EXCEPT !.left = @ \cup {w}] \in Conns /\ [c EXCEPT !.left = @ \ {w}] \in Conns
  BY DEF NoConn, Opened, Conns

LEMMA FinishTypes ==
  ASSUME PassTypes, NEW a \in Answers, cur \in Digests, Finish(a) PROVE PassTypes'
PROOF
  <1>1. answer' \in [Digests -> Answers] /\ known' \in [Digests -> Answers]
    BY DEF PassTypes, Finish
  <1>2. successes' \in Nat /\ pc' \in Steps /\ drops' \in 0..2 BY DEF PassTypes, Finish, Steps
  <1> QED BY <1>1, <1>2 DEF PassTypes, Finish, stateVars
LEMMA FailTypes ==
  ASSUME PassTypes, NEW r \in Reasons, cur \in Digests, Fail(r) PROVE PassTypes'
PROOF
  <1>1. [answer[cur] EXCEPT !.err = r] \in Answers BY AnswerTypes DEF PassTypes
  <1>2. answer' = [answer EXCEPT ![cur] = [answer[cur] EXCEPT !.err = r]] BY DEF Fail
  <1>3. answer' \in [Digests -> Answers] BY <1>1, <1>2 DEF PassTypes
  <1>4. failed' \in [Databases -> Reasons \cup {"no"}] BY DEF PassTypes, Fail
  <1>5. pc' \in Steps /\ pc' = "visit" /\ drops' \in 0..2 BY DEF PassTypes, Fail, Steps
  <1> QED BY <1>3, <1>4, <1>5 DEF PassTypes, Fail, rankVars
LEMMA ContinueTypes ==
  ASSUME PassTypes, cur \in Digests, Continue, pc' \in Steps, got' \in Answers PROVE PassTypes'
  BY DEF PassTypes, Continue, rankVars, stateVars
LEMMA SendsTypes ==
  ASSUME SessionTypes, cur \in Digests, Sends PROVE sent' \in [Digests \X Texts -> 0..3]
PROOF
  <1>1. <<Key(cur), text>> \in Digests \X Texts BY DEF Key, SessionTypes
  <1>2. (IF sent[<<Key(cur), text>>] < 3 THEN sent[<<Key(cur), text>>] + 1
                                         ELSE sent[<<Key(cur), text>>]) \in 0..3
    BY <1>1 DEF SessionTypes
  <1> QED BY <1>1, <1>2 DEF Sends, SessionTypes
LEMMA FilledTypes == ASSUME PassTypes PROVE Filled \in [Digests -> Answers]
  BY DEF Filled, PassTypes
LEMMA SwitchLeaseTypes ==
  ASSUME SessionTypes, Leased, NEW db \in Databases \cup {NoDatabase}, SwitchLease(db)
  PROVE  current' = db /\ Leased'
  BY DEF SessionTypes, Leased, Held, SwitchLease

----------------------------------------------------------------------------
LEMMA RankingTypes ==
  ASSUME Typed, (\E d \in Digests : Pass(d) \/ GiveUp(d) \/ Begin(d)) \/ EndRanking
  PROVE  Typed'
PROOF
  <1> USE DEF Typed
  <1>1. ASSUME NEW d \in Digests, Pass(d) PROVE Typed'
    BY <1>1 DEF Pass, PassTypes, SessionTypes, Leased, Held, mysqlVars, useVars, pgVars, stateVars
  <1>2. ASSUME NEW d \in Digests, GiveUp(d) PROVE Typed'
    <2>1. failed[DatabaseOf[d]] \in Reasons BY <1>2 DEF GiveUp, Failed, PassTypes
    <2>2. answer' = [answer EXCEPT ![d] = [answer[d] EXCEPT !.err = failed[DatabaseOf[d]]]]
      BY <1>2 DEF GiveUp
    <2>3. [answer[d] EXCEPT !.err = failed[DatabaseOf[d]]] \in Answers
      BY <2>1, AnswerTypes DEF PassTypes
    <2>4. answer' \in [Digests -> Answers] BY <2>2, <2>3 DEF PassTypes
    <2> QED
      BY <1>2, <2>4 DEF GiveUp, PassTypes, SessionTypes, Leased, Held, mysqlVars, useVars, pgVars, stateVars
  <1>3. ASSUME NEW d \in Digests, Begin(d) PROVE Typed'
    <2>1. Key(d) \in Digests /\ "select" \in Steps BY DEF Key, Steps
    <2> QED
      BY <1>3, <2>1, AnswerTypes
      DEF Begin, PassTypes, SessionTypes, Leased, Held, pgVars
  <1>4. CASE EndRanking
    <2>1. answer' \in [Digests -> Answers] BY <1>4, FilledTypes DEF EndRanking
    <2>2. known' \in [Digests -> Answers]
      <3>1. CASE engine = "mysql" BY <1>4, <3>1 DEF EndRanking, PassTypes
      <3>2. CASE engine # "mysql"
        <4>1. known' \in Start(Filled) BY <1>4, <3>2 DEF EndRanking
        <4>2. {Filled[d] : d \in Digests} \cup {NoAnswer} \subseteq Answers
          BY FilledTypes, AnswerTypes
        <4> QED BY <4>1, <4>2 DEF Start
      <3> QED BY <3>1, <3>2
    <2>3. /\ pc' \in Steps /\ pc' \in {"visit", "close"} /\ ranking' \in 1..3
          /\ cut' \subseteq {1, 2}
      BY <1>4 DEF EndRanking, PassTypes, Steps
    <2> QED
      BY <1>4, <2>1, <2>2, <2>3
      DEF EndRanking, PassTypes, SessionTypes, Leased, Held, mysqlVars, useVars, pgVars, stateVars
  <1> QED BY <1>1, <1>2, <1>3, <1>4

LEMMA AllSteps ==
  /\ \A s \in {"visit", "select", "explain", "direct", "set", "prepare"} : s \in Steps
  /\ \A s \in {"run", "deallocate", "reset", "return", "close", "closed"} : s \in Steps
  BY DEF Steps

LEMMA MysqlTypes == ASSUME Typed, Pin \/ Use \/ Explain PROVE Typed'
PROOF
  <1> USE AllSteps, AnswerTypes, ConnTypes, FailTypes, ContinueTypes DEF Typed
  <1>1. cur \in Digests /\ pc \in {"select", "explain"}
    BY DEF Pin, Use, Explain, Mysql, PassTypes
  <1>2. ASSUME UNCHANGED pgVars PROVE Leased' /\ current' = current /\ dirty' = dirty /\ leaked' = leaked
    BY <1>2 DEF pgVars, Leased, Held
  <1>3. "refused" \in Reasons /\ "denied" \in Reasons /\ "lost" \in Reasons BY DEF Reasons
  <1>4. Opened(Home, {}) \in Conns BY DEF Opened, Conns
  <1>5. CASE Pin
    <2>1. PassTypes' BY <1>1, <1>3, <1>5 DEF Pin, PassTypes
    <2>2. conn' \in Conns /\ opened' \in BOOLEAN /\ dead' \in BOOLEAN
      BY <1>4, <1>5 DEF Pin, SessionTypes
    <2> QED BY <1>2, <1>5, <2>1, <2>2 DEF Pin, SessionTypes
  <1>6. CASE Use
    <2>1. PassTypes' BY <1>1, <1>3, <1>6 DEF Use, UseLost, PassTypes
    <2>2. /\ conn' \in Conns /\ selected' \in Databases \cup {NoDatabase} /\ tries' \in 0..1
      BY <1>1, <1>6 DEF Use, UseLost, ResetSession, SessionTypes
    <2> QED BY <1>2, <1>6, <2>1, <2>2 DEF Use, SessionTypes
  <1>7. CASE Explain
    <2>1. sent' \in [Digests \X Texts -> 0..3] BY <1>1, <1>7, SendsTypes DEF Explain
    <2>2. CASE Respell
      <3>1. PassTypes' BY <1>1, <2>2 DEF Respell, PassTypes
      <3>2. text' \in Texts BY <2>2 DEF Respell, SessionTypes, Texts
      <3> QED BY <1>2, <1>7, <2>1, <2>2, <3>1, <3>2 DEF Explain, Respell, SessionTypes, useVars
    <2>3. CASE Executed
      <3>1. conn.db \in Databases \cup {Home, NoDatabase} BY DEF SessionTypes, Conns
      <3>2. PassTypes' BY <1>1, <2>3, <3>1, FinishTypes DEF Executed
      <3> QED BY <1>2, <1>7, <2>1, <2>3, <3>2 DEF Explain, Executed, SessionTypes, useVars, Texts
    <2>4. CASE ExecuteLost /\ round' = 2 /\ tries' = 0 /\ pc' = "select" /\ Continue /\ UNCHANGED got
      <3>1. PassTypes' BY <1>1, <2>4 DEF PassTypes
      <3> QED
        BY <1>2, <1>7, <2>1, <2>4, <3>1 DEF Explain, ExecuteLost, SessionTypes, ResetSession, Texts
    <2>5. CASE ExecuteLost /\ Finish([NoAnswer EXCEPT !.err = "lost"]) /\ UNCHANGED <<round, tries>>
      <3>1. PassTypes' BY <1>1, <1>3, <2>5, FinishTypes
      <3> QED
        BY <1>2, <1>7, <2>1, <2>5, <3>1 DEF Explain, ExecuteLost, SessionTypes, ResetSession, Texts
    <2> QED BY <1>7, <2>2, <2>3, <2>4, <2>5 DEF Explain
  <1> QED BY <1>5, <1>6, <1>7

Inner == {"set", "prepare", "run", "deallocate", "reset", "return"}
LEMMA StepTypes ==
  ASSUME Typed, cur \in Digests, NEW w \in Leftovers, NEW next \in Steps, NEW after \in Steps,
         Step(w, next, after)
  PROVE  Typed'
PROOF
  <1> USE AnswerTypes, ConnTypes DEF Typed
  <1>0. /\ [conn EXCEPT !.left = @ \cup {w}] \in Conns
        /\ [got EXCEPT !.err = "failed"] \in Answers
    BY DEF PassTypes, SessionTypes
  <1>1. pc' \in Steps /\ got' \in Answers /\ conn' \in Conns
    <2>1. CASE conn' = [conn EXCEPT !.left = @ \cup {w}] /\ pc' = next /\ UNCHANGED got
      BY <1>0, <2>1 DEF PassTypes
    <2>2. CASE got' = [got EXCEPT !.err = "failed"] /\ pc' = after /\ UNCHANGED conn
      BY <1>0, <2>2 DEF SessionTypes
    <2> QED BY <2>1, <2>2 DEF Step
  <1>2. PassTypes' BY <1>1, ContinueTypes DEF Step
  <1> QED BY <1>1, <1>2 DEF Step, SessionTypes, Leased, Held, mysqlVars, useVars, pgVars
LEMMA UndoTypes ==
  ASSUME Typed, cur \in Digests, NEW w \in Leftovers, NEW next \in Steps, Undo(w, next)
  PROVE  Typed'
PROOF
  <1> USE AnswerTypes, ConnTypes DEF Typed
  <1>0. /\ [conn EXCEPT !.left = @ \ {w}] \in Conns
        /\ [got EXCEPT !.err = "failed"] \in Answers
    BY DEF PassTypes, SessionTypes
  <1>1. pc' \in Steps /\ got' \in Answers /\ conn' \in Conns /\ dirty' \in BOOLEAN
    <2>1. CASE conn' = [conn EXCEPT !.left = @ \ {w}] /\ UNCHANGED <<got, dirty>>
      BY <1>0, <2>1 DEF Undo, PassTypes, SessionTypes
    <2>2. CASE got' = [got EXCEPT !.err = "failed"] /\ dirty' = TRUE /\ UNCHANGED conn
      BY <1>0, <2>2 DEF Undo, SessionTypes
    <2> QED BY <2>1, <2>2 DEF Undo
  <1>2. PassTypes' BY <1>1, ContinueTypes DEF Undo
  <1> QED BY <1>1, <1>2 DEF Undo, SessionTypes, Leased, Held, mysqlVars, useVars

LEMMA PostgresTypes ==
  ASSUME Typed, Connection \/ ExplainDirect \/ Take \/ SetMode \/ Prepare \/ Run
                  \/ Deallocate \/ Reset \/ Return
  PROVE  Typed'
PROOF
  <1> USE AllSteps, AnswerTypes DEF Typed
  <1>1. cur \in Digests
    BY DEF Connection, ExplainDirect, Take, SetMode, Prepare, Run, Deallocate, Reset, Return,
           Pg, PassTypes
  <1>2. "mode" \in Leftovers /\ "stmt" \in Leftovers BY DEF Leftovers
  <1>3. CASE Connection
    <2>1. DatabaseOf[cur] \in Databases /\ "refused" \in Reasons BY <1>1 DEF Reasons
    <2>2. PassTypes' BY <1>1, <1>3, <2>1, FailTypes, ContinueTypes DEF Connection, PassTypes
    <2>3. Leased' /\ current' \in Databases \cup {NoDatabase}
      BY <1>3, <2>1, SwitchLeaseTypes DEF Connection, Leased, Held, SessionTypes
    <2> QED BY <1>3, <2>2, <2>3 DEF Connection, SessionTypes, mysqlVars, useVars
  <1>4. CASE ExplainDirect
    <2>1. sent' \in [Digests \X Texts -> 0..3] BY <1>1, <1>4, SendsTypes DEF ExplainDirect
    <2>2. PassTypes' BY <1>1, <1>4, FinishTypes DEF ExplainDirect, SessionTypes
    <2> QED BY <1>4, <2>1, <2>2 DEF ExplainDirect, SessionTypes, Leased, Held, mysqlVars, useVars, pgVars
  <1>5. CASE Return
    <2>1. conn' \in Conns /\ dirty' \in BOOLEAN BY <1>5, ConnTypes DEF Return
    <2>2. leaked' \subseteq Leftovers BY <1>5 DEF Return, SessionTypes, Conns
    <2>3. PassTypes' BY <1>1, <1>5, FinishTypes, ContinueTypes DEF Return, PassTypes
    <2> QED BY <1>5, <2>1, <2>2, <2>3 DEF Return, SessionTypes, Leased, Held, mysqlVars, useVars
  <1>6. CASE SetMode BY <1>1, <1>2, <1>6, StepTypes DEF SetMode
  <1>7. CASE Prepare BY <1>1, <1>2, <1>7, StepTypes DEF Prepare
  <1>8. CASE Deallocate BY <1>1, <1>2, <1>8, UndoTypes DEF Deallocate
  <1>9. CASE Reset BY <1>1, <1>2, <1>9, UndoTypes DEF Reset
  <1>10. CASE Run
    <2>1. sent' \in [Digests \X Texts -> 0..3] BY <1>1, <1>10, SendsTypes DEF Run
    <2>2. got' \in Answers
      <3>1. conn.db \in Databases \cup {Home, NoDatabase} BY DEF SessionTypes, Conns
      <3>2. [got EXCEPT !.plan = conn.db] \in Answers /\ [got EXCEPT !.err = "failed"] \in Answers
        BY <3>1 DEF PassTypes
      <3> QED BY <1>10, <3>2 DEF Run
    <2>3. PassTypes' BY <1>1, <1>10, <2>2, ContinueTypes DEF Run
    <2> QED BY <1>10, <2>1, <2>3 DEF Run, SessionTypes, Leased, Held, mysqlVars, useVars, pgVars
  <1>11. CASE Take
    <2>1. /\ [NoAnswer EXCEPT !.err = "failed"] \in Answers
          /\ \A left \in {{}, leaked} : Opened(current, left) \in Conns
      BY DEF SessionTypes, Opened, Conns
    <2>2. PassTypes' BY <1>1, <1>11, <2>1, FinishTypes, ContinueTypes DEF Take, PassTypes
    <2>3. conn' \in Conns /\ dirty' \in BOOLEAN BY <1>11, <2>1 DEF Take, SessionTypes
    <2> QED BY <1>11, <2>2, <2>3 DEF Take, SessionTypes, Leased, Held, mysqlVars, useVars
  <1> QED BY <1>3, <1>4, <1>5, <1>6, <1>7, <1>8, <1>9, <1>10, <1>11

(* Close gives the lease back, a lost connection changes only itself.      *)
LEMMA OtherTypes == ASSUME Typed, Close \/ Drop PROVE Typed'
PROOF
  <1> USE AllSteps, ConnTypes DEF Typed
  <1>1. CASE Close
    <2>1. current' = NoDatabase /\ Leased' BY <1>1, SwitchLeaseTypes DEF Close
    <2>2. PassTypes' BY <1>1 DEF Close, PassTypes, rankVars, stateVars
    <2> QED BY <1>1, <2>1, <2>2 DEF Close, SessionTypes
  <1>2. CASE Drop
    <2>1. conn' \in Conns BY <1>2 DEF Drop, SessionTypes
    <2>2. PassTypes' BY <1>2 DEF Drop, PassTypes, rankVars, stateVars
    <2> QED BY <1>2, <2>1, <2>2 DEF Drop, SessionTypes, Leased, Held, mysqlVars, useVars, pgVars
  <1> QED BY <1>1, <1>2

LEMMA TypedInit == ASSUME Init PROVE Typed
PROOF
  <1>1. answer \in [Digests -> Answers] /\ known \in [Digests -> Answers] BY AnswerTypes DEF Init
  <1>2. got \in Answers /\ failed \in [Databases -> Reasons \cup {"no"}] /\ pc \in Steps
    BY AnswerTypes, AllSteps DEF Init
  <1>3. PassTypes
    <2>1. ranking \in 1..3 /\ successes \in Nat /\ drops \in 0..2 BY DEF Init
    <2>2. todo \subseteq Digests /\ cut \subseteq {1, 2} /\ attempted \subseteq Digests BY DEF Init
    <2>3. pc = "visit" /\ cur \in Digests \cup {NoDigest} /\ engine \in Engines BY DEF Init
    <2> QED BY <1>1, <1>2, <2>1, <2>2, <2>3 DEF PassTypes
  <1>4. SessionTypes
    <2>1. conn \in Conns BY ConnTypes DEF Init
    <2>2. sent \in [Digests \X Texts -> 0..3] /\ text \in Texts /\ round \in 1..2 /\ tries \in 0..1
      BY DEF Init, Texts
    <2> QED BY <2>1, <2>2 DEF Init, SessionTypes
  <1> QED BY <1>3, <1>4 DEF Init, Typed, Leased, Held
LEMMA TypedStep == ASSUME Typed, [Next]_vars PROVE Typed'
PROOF
  <1>1. CASE UNCHANGED vars
    BY <1>1 DEF vars, rankVars, stateVars, mysqlVars, useVars, pgVars, Typed, PassTypes, SessionTypes,
                Leased, Held
  <1> QED
    BY <1>1, RankingTypes, MysqlTypes, PostgresTypes, OtherTypes DEF Next, PassStep

(* The state keeps its types (TypeOK), also across a failed switch of the  *)
(* lease, which counts on leases = Held.                                   *)
THEOREM TypeCorrect == Spec => []TypeOK
PROOF
  <1>1. Spec => []Typed BY TypedInit, TypedStep, PTL DEF Spec
  <1> QED BY <1>1, TypedImpliesTypeOK, PTL

----------------------------------------------------------------------------
(* What makes the pass sound.  MySQL: the connection is in the schema that *)
(* the session remembers, if it remembers one, and at the EXPLAIN that is  *)
(* the statement's.  PostgreSQL: the lease and the connection are those of *)
(* the statement's database, and the connection carries no more than the   *)
(* step has left to undo.                                                  *)
Places(d) == {NoDatabase, DatabaseOf[d]}
PlansPlaced ==
  \A d \in Digests : answer[d].plan \in Places(d) /\ known[d].plan \in Places(d)
MysqlPlaced ==
  engine = "mysql" =>
    /\ ~Connected /\ pc # "closed" => selected = NoDatabase
    /\ Connected => conn.db # NoDatabase /\ selected \in {NoDatabase, conn.db}
    /\ pc = "explain" => Connected /\ selected = DatabaseOf[cur]
PostgresPlaced ==
  engine = "postgresql" =>
    /\ pc \in {"explain", "direct"} \cup Inner => current = DatabaseOf[cur]
    /\ pc \in {"select", "explain"} \cup Inner => got.plan \in Places(cur)
    /\ pc \in Inner => Connected /\ conn.db = current
    /\ pc \notin Inner => ~Connected
ToUndo ==
  CASE pc = "set" -> {}
    [] pc = "prepare" -> {"mode"}
    [] pc \in {"run", "deallocate"} -> {"mode", "stmt"}
    [] pc = "reset" -> {"mode"}
    [] OTHER -> {}
Clean ==
  /\ leaked = {}
  /\ engine = "postgresql" /\ pc \in Inner => dirty \/ conn.left \subseteq ToUndo
Released == pc = "closed" => current = NoDatabase /\ ~Connected
Sound == Typed /\ PlansPlaced /\ MysqlPlaced /\ PostgresPlaced /\ Clean /\ Released

LEMMA FinishPlaced ==
  ASSUME PassTypes, PlansPlaced, cur \in Digests, NEW a \in Answers, a.plan \in Places(cur), Finish(a)
  PROVE  PlansPlaced'
PROOF
  <1>1. /\ answer' = [answer EXCEPT ![cur] = a]
        /\ known' = known \/ known' = [known EXCEPT ![KeyOf[cur]] = a]
    BY DEF Finish
  <1>2. Places(cur) = Places(KeyOf[cur]) BY DEF Places
  <1> QED BY <1>1, <1>2 DEF PassTypes, PlansPlaced, Places
LEMMA ErrPlaced ==
  ASSUME PassTypes, PlansPlaced, NEW d \in Digests, NEW r \in Reasons,
         answer' = [answer EXCEPT ![d].err = r], known' = known
  PROVE  PlansPlaced'
PROOF
  <1>1. answer[d] \in Answers BY DEF PassTypes
  <1>2. [answer[d] EXCEPT !.err = r].plan = answer[d].plan BY <1>1, AnswerTypes
  <1>3. \A e \in Digests : answer'[e].plan = answer[e].plan BY <1>2 DEF PassTypes
  <1> QED BY <1>3 DEF PlansPlaced, Places
LEMMA FailPlaced ==
  ASSUME PassTypes, PlansPlaced, cur \in Digests, NEW r \in Reasons, Fail(r) PROVE PlansPlaced'
  BY ErrPlaced DEF Fail

LEMMA RankingSound ==
  ASSUME Sound, (\E d \in Digests : Pass(d) \/ GiveUp(d) \/ Begin(d)) \/ EndRanking
  PROVE  Sound'
PROOF
  <1> USE DEF Sound
  <1>1. Typed' BY RankingTypes
  <1>2. /\ pc = "visit" /\ pc' \in {"visit", "select", "close"}
        /\ engine' = engine /\ conn' = conn /\ selected' = selected /\ leaked' = leaked
        /\ pc' = "select" => got' = NoAnswer
    BY DEF Pass, GiveUp, Begin, EndRanking, Visits, mysqlVars, useVars, pgVars
  <1>3. PlansPlaced'
    <2>1. ASSUME NEW d \in Digests, Pass(d) \/ Begin(d) PROVE PlansPlaced'
      BY <2>1 DEF Pass, Begin, PlansPlaced, Places
    <2>2. ASSUME NEW d \in Digests, GiveUp(d) PROVE PlansPlaced'
      <3>1. failed[DatabaseOf[d]] \in Reasons BY <2>2 DEF GiveUp, Failed, Typed, PassTypes
      <3> QED BY <2>2, <3>1, ErrPlaced DEF GiveUp, Typed
    <2>3. CASE EndRanking
      <3>1. \A d \in Digests : Filled[d].plan \in Places(d)
        BY DEF Filled, PlansPlaced, Places
      <3>2. ASSUME known' \in Start(Filled), NEW k \in Digests PROVE known'[k].plan \in Places(k)
        <4>1. CASE known'[k] = NoAnswer BY <4>1, AnswerTypes DEF Places
        <4>2. CASE known'[k] # NoAnswer
          <5>1. known'[k] \in Carried(Filled, k)
            BY <3>2, <4>2 DEF Start
          <5>2. PICK e \in Digests : KeyOf[e] = k /\ known'[k] = Filled[e] BY <5>1 DEF Carried
          <5> QED BY <3>1, <5>2 DEF Places
        <4> QED BY <4>1, <4>2
      <3>3. \A k \in Digests : known'[k].plan \in Places(k)
        BY <2>3, <3>2 DEF EndRanking, PlansPlaced
      <3> QED BY <2>3, <3>1, <3>3 DEF EndRanking, PlansPlaced, Places
    <2> QED BY <2>1, <2>2, <2>3
  <1>4. MysqlPlaced' BY <1>2 DEF MysqlPlaced, Connected
  <1>5. PostgresPlaced' BY <1>2, AnswerTypes DEF PostgresPlaced, Connected, Inner, Places
  <1>6. Clean' /\ Released' BY <1>2 DEF Clean, Inner, Released
  <1> QED BY <1>1, <1>3, <1>4, <1>5, <1>6

LEMMA MysqlSound == ASSUME Sound, Pin \/ Use \/ Explain PROVE Sound'
PROOF
  <1> USE AllSteps, AnswerTypes DEF Sound
  <1>1. Typed' BY MysqlTypes
  <1>2. /\ engine = "mysql" /\ engine' = "mysql" /\ leaked' = leaked
        /\ cur \in Digests /\ cur' = cur
        /\ pc \in {"select", "explain"} /\ pc' \in {"visit", "select", "explain"}
    BY DEF Pin, Use, UseLost, Explain, Respell, Executed, Mysql, Fail, Continue, Finish, pgVars, rankVars,
           Typed, PassTypes
  <1>3. PostgresPlaced' /\ Clean' /\ Released' BY <1>2 DEF PostgresPlaced, Clean, Released
  <1>4. "refused" \in Reasons /\ "denied" \in Reasons /\ "lost" \in Reasons BY DEF Reasons
  <1>5. ASSUME Continue PROVE PlansPlaced' BY <1>5 DEF Continue, PlansPlaced, Places
  <1>6. CASE Pin
    <2>1. PlansPlaced' BY <1>2, <1>4, <1>5, <1>6, FailPlaced DEF Pin, Typed
    <2>2. MysqlPlaced'
      BY <1>2, <1>6, ConnTypes DEF Pin, Mysql, Fail, Continue, MysqlPlaced, Connected
    <2> QED BY <1>1, <1>3, <2>1, <2>2
  <1>7. CASE Use
    <2>1. PlansPlaced' BY <1>2, <1>4, <1>5, <1>7, FailPlaced DEF Use, UseLost, Typed
    <2>2. MysqlPlaced'
      <3>1. CASE conn.alive /\ conn' = [conn EXCEPT !.db = DatabaseOf[cur]] /\ selected' = DatabaseOf[cur]
        <4>1. conn'.db = DatabaseOf[cur] /\ DatabaseOf[cur] # NoDatabase
          BY <1>2, <3>1 DEF Typed, SessionTypes, Conns
        <4>2. conn' # NoConn BY <4>1 DEF NoConn
        <4> QED BY <1>2, <3>1, <4>1, <4>2 DEF MysqlPlaced, Connected
      <3> QED
        BY <1>2, <1>7, <3>1
        DEF Use, UseLost, ResetSession, Mysql, Fail, Continue, MysqlPlaced, Connected
    <2> QED BY <1>1, <1>3, <2>1, <2>2
  <1>8. CASE Explain
    <2>1. conn.db = DatabaseOf[cur] BY <1>2, <1>8 DEF Explain, Mysql, MysqlPlaced
    <2>2. /\ [NoAnswer EXCEPT !.plan = conn.db] \in Answers
          /\ [NoAnswer EXCEPT !.plan = conn.db].plan \in Places(cur)
      BY <1>2, <2>1 DEF Places
    <2>3. ASSUME NEW e \in {"failed", "lost"}
          PROVE  /\ [NoAnswer EXCEPT !.err = e] \in Answers
                 /\ [NoAnswer EXCEPT !.err = e].plan \in Places(cur)
      BY DEF Places, Reasons
    <2>4. PlansPlaced'
      BY <1>2, <1>5, <1>8, <2>2, <2>3, FinishPlaced DEF Explain, Respell, Executed, Typed
    <2>5. MysqlPlaced'
      BY <1>2, <1>8
      DEF Explain, Respell, Executed, ExecuteLost, Mysql, ResetSession, Finish, MysqlPlaced, Connected,
          useVars
    <2> QED BY <1>1, <1>3, <2>4, <2>5
  <1> QED BY <1>6, <1>7, <1>8

LEMMA StepSound ==
  ASSUME Sound, engine = "postgresql", pc \in {"set", "prepare"},
         NEW w \in Leftovers, NEW next \in Inner, NEW after \in Inner, Step(w, next, after),
         \A l \in SUBSET Leftovers : l \subseteq ToUndo =>
           /\ pc' = next => l \cup {w} \subseteq ToUndo'
           /\ pc' = after => l \subseteq ToUndo'
  PROVE  Sound'
PROOF
  <1> USE DEF Sound
  <1>1. cur \in Digests /\ next \in Steps /\ after \in Steps BY AllSteps DEF Typed, PassTypes, Inner
  <1>2. Typed' BY <1>1, StepTypes
  <1>3. /\ engine' = engine /\ cur' = cur /\ current' = current /\ dirty' = dirty
        /\ leaked' = leaked /\ pc' \in Inner /\ PlansPlaced'
    BY DEF Step, Continue, mysqlVars, useVars, pgVars, rankVars, PlansPlaced, Places
  <1>4. conn \in Conns /\ got \in Answers /\ conn # NoConn /\ conn.db = current
    BY DEF Typed, PassTypes, SessionTypes, PostgresPlaced, Inner, Connected
  <1>5. CASE conn' = [conn EXCEPT !.left = @ \cup {w}] /\ pc' = next /\ UNCHANGED got
    <2>1. conn'.db = conn.db /\ conn'.left = conn.left \cup {w} BY <1>4, <1>5 DEF Conns
    <2>2. conn' # NoConn BY <2>1 DEF NoConn
    <2>3. PostgresPlaced' BY <1>3, <1>4, <1>5, <2>1, <2>2 DEF PostgresPlaced, Connected, Inner, Places
    <2>4. Clean'
      BY <1>3, <1>4, <1>5, <2>1 DEF Clean, Inner, Conns
    <2> QED BY <1>2, <1>3, <2>3, <2>4 DEF MysqlPlaced, Released, Inner
  <1>6. CASE got' = [got EXCEPT !.err = "failed"] /\ pc' = after /\ UNCHANGED conn
    <2>1. got'.plan = got.plan BY <1>4, <1>6 DEF Answers
    <2>2. PostgresPlaced' BY <1>3, <1>4, <1>6, <2>1 DEF PostgresPlaced, Connected, Inner, Places
    <2>3. Clean' BY <1>3, <1>4, <1>6, <2>1 DEF Clean, Inner, Conns
    <2> QED BY <1>2, <1>3, <2>2, <2>3 DEF MysqlPlaced, Released, Inner
  <1> QED BY <1>5, <1>6 DEF Step
LEMMA UndoSound ==
  ASSUME Sound, engine = "postgresql", pc \in Inner,
         NEW w \in Leftovers, NEW next \in Inner, Undo(w, next),
         \A l \in SUBSET Leftovers : l \subseteq ToUndo => l \ {w} \subseteq ToUndo'
  PROVE  Sound'
PROOF
  <1> USE DEF Sound
  <1>1. cur \in Digests /\ next \in Steps BY AllSteps DEF Typed, PassTypes, Inner
  <1>2. Typed' BY <1>1, UndoTypes
  <1>3. /\ engine' = engine /\ cur' = cur /\ current' = current
        /\ leaked' = leaked /\ pc' \in Inner /\ PlansPlaced'
    BY DEF Undo, Continue, mysqlVars, useVars, rankVars, PlansPlaced, Places
  <1>4. conn \in Conns /\ got \in Answers /\ conn # NoConn /\ conn.db = current
    BY DEF Typed, PassTypes, SessionTypes, PostgresPlaced, Connected
  <1>5. CASE conn' = [conn EXCEPT !.left = @ \ {w}] /\ UNCHANGED <<got, dirty>>
    <2>1. conn'.db = conn.db /\ conn'.left = conn.left \ {w} BY <1>4, <1>5 DEF Conns
    <2>2. conn' # NoConn
      <3>1. current # NoDatabase BY <1>1 DEF PostgresPlaced
      <3> QED BY <1>4, <2>1, <3>1 DEF NoConn
    <2>3. PostgresPlaced' BY <1>3, <1>4, <1>5, <2>1, <2>2 DEF PostgresPlaced, Connected, Inner, Places
    <2>4. Clean' BY <1>3, <1>4, <1>5, <2>1 DEF Clean, Conns
    <2> QED BY <1>2, <1>3, <2>3, <2>4 DEF MysqlPlaced, Released, Inner
  <1>6. CASE got' = [got EXCEPT !.err = "failed"] /\ dirty' = TRUE /\ UNCHANGED conn
    <2>1. got'.plan = got.plan BY <1>4, <1>6 DEF Answers
    <2>2. PostgresPlaced' BY <1>3, <1>4, <1>6, <2>1 DEF PostgresPlaced, Connected, Inner, Places
    <2>3. Clean' BY <1>3, <1>6 DEF Clean
    <2> QED BY <1>2, <1>3, <2>2, <2>3 DEF MysqlPlaced, Released, Inner
  <1> QED BY <1>5, <1>6 DEF Undo

LEMMA PreparedSound == ASSUME Sound, SetMode \/ Prepare \/ Deallocate \/ Reset PROVE Sound'
PROOF
  <1>1. "mode" \in Leftovers /\ "stmt" \in Leftovers BY DEF Leftovers
  <1>3. CASE SetMode
    <2>1. pc = "set" /\ engine = "postgresql" /\ Step("mode", "prepare", "return")
      BY <1>3 DEF SetMode, Pg
    <2> QED BY <1>1, <2>1, StepSound DEF ToUndo, Inner
  <1>4. CASE Prepare
    <2>1. pc = "prepare" /\ engine = "postgresql" /\ Step("stmt", "run", "reset")
      BY <1>4 DEF Prepare, Pg
    <2> QED BY <1>1, <2>1, StepSound DEF ToUndo, Inner
  <1>5. CASE Deallocate
    <2>1. pc = "deallocate" /\ engine = "postgresql" /\ Undo("stmt", "reset") /\ pc' = "reset"
      BY <1>5 DEF Deallocate, Pg, Undo
    <2> QED BY <1>1, <2>1, UndoSound DEF ToUndo, Inner
  <1>6. CASE Reset
    <2>1. pc = "reset" /\ engine = "postgresql" /\ Undo("mode", "return") /\ pc' = "return"
      BY <1>6 DEF Reset, Pg, Undo
    <2> QED BY <1>1, <2>1, UndoSound DEF ToUndo, Inner
  <1> QED BY <1>3, <1>4, <1>5, <1>6

LEMMA PostgresSound == ASSUME Sound, Connection \/ ExplainDirect \/ Take \/ Run \/ Return PROVE Sound'
PROOF
  <1> USE AllSteps, AnswerTypes DEF Sound
  <1>1. Typed' BY PostgresTypes
  <1>2. /\ engine = "postgresql" /\ engine' = "postgresql" /\ cur \in Digests /\ cur' = cur
        /\ pc \in {"select", "explain", "direct"} \cup Inner
    BY DEF Connection, ExplainDirect, Take, Run, Return, Pg, Inner, Finish, Fail, Continue,
           rankVars, Typed, PassTypes
  <1>3. MysqlPlaced' BY <1>2 DEF MysqlPlaced
  <1>4. ASSUME Continue PROVE PlansPlaced' BY <1>4 DEF Continue, PlansPlaced, Places
  <1>5. /\ NoAnswer.plan \in Places(cur) /\ [NoAnswer EXCEPT !.err = "failed"] \in Answers
        /\ [NoAnswer EXCEPT !.err = "failed"].plan \in Places(cur)
    BY DEF Places
  <1>6. conn \in Conns /\ got \in Answers BY DEF Typed, PassTypes, SessionTypes
  <1>7. CASE Connection
    <2>1. "refused" \in Reasons BY DEF Reasons
    <2>2. PlansPlaced' BY <1>2, <1>4, <1>7, <2>1, FailPlaced DEF Connection, Typed
    <2>3. /\ conn' = conn /\ leaked' = leaked /\ got' = got /\ pc = "select"
          /\ pc' = "visit" \/ (pc' = "explain" /\ current' = DatabaseOf[cur])
      BY <1>7 DEF Connection, Pg, SwitchLease, Fail
    <2>4. PostgresPlaced' BY <1>2, <2>3 DEF PostgresPlaced, Inner, Connected, Places
    <2>5. Clean' /\ Released' BY <2>3 DEF Clean, Inner, Released
    <2> QED BY <1>1, <1>3, <2>2, <2>4, <2>5
  <1>8. CASE ExplainDirect
    <2>1. current = DatabaseOf[cur] BY <1>2, <1>8 DEF ExplainDirect, Pg, PostgresPlaced
    <2>2. /\ [NoAnswer EXCEPT !.plan = current] \in Answers
          /\ [NoAnswer EXCEPT !.plan = current].plan \in Places(cur)
      BY <1>2, <2>1 DEF Places
    <2>3. PlansPlaced' BY <1>2, <1>5, <1>8, <2>2, FinishPlaced DEF ExplainDirect, Typed
    <2>4. conn' = conn /\ leaked' = leaked /\ pc' = "visit" /\ pc \in {"explain", "direct"}
      BY <1>8 DEF ExplainDirect, Pg, Finish, pgVars
    <2>5. PostgresPlaced' BY <1>2, <2>4 DEF PostgresPlaced, Inner, Connected
    <2>6. Clean' /\ Released' BY <2>4 DEF Clean, Inner, Released
    <2> QED BY <1>1, <1>3, <2>3, <2>5, <2>6
  <1>9. CASE Take
    <2>1. pc = "explain" /\ current = DatabaseOf[cur] /\ ~Connected /\ current' = current /\ leaked' = leaked
      BY <1>2, <1>9 DEF Take, Pg, PostgresPlaced, Inner
    <2>2. CASE /\ \E left \in {{}, leaked} : conn' = Opened(current, left)
               /\ pc' = "set" /\ dirty' = FALSE /\ Continue /\ UNCHANGED got
      <3>1. conn' = Opened(current, {}) BY <2>2 DEF Clean
      <3>2. conn'.db = current /\ conn'.left = {} /\ conn' # NoConn
        BY <1>2, <2>1, <3>1 DEF Opened, NoConn
      <3>3. PostgresPlaced' BY <1>2, <2>1, <2>2, <3>2 DEF PostgresPlaced, Inner, Connected, Places
      <3>4. Clean' /\ Released' BY <2>1, <2>2, <3>2 DEF Clean, Released
      <3> QED BY <1>1, <1>3, <1>4, <2>2, <3>3, <3>4
    <2>3. CASE Finish([NoAnswer EXCEPT !.err = "failed"]) /\ UNCHANGED <<conn, dirty>>
      <3>1. PlansPlaced' BY <1>2, <1>5, <2>3, FinishPlaced DEF Typed
      <3>2. pc' = "visit" BY <2>3 DEF Finish
      <3>3. PostgresPlaced' BY <1>2, <2>1, <2>3, <3>2 DEF PostgresPlaced, Inner, Connected
      <3>4. Clean' /\ Released' BY <2>1, <3>2 DEF Clean, Inner, Released
      <3> QED BY <1>1, <1>3, <3>1, <3>3, <3>4
    <2> QED BY <1>9, <2>2, <2>3 DEF Take
  <1>10. CASE Run
    <2>1. /\ pc = "run" /\ pc' = "deallocate" /\ conn' = conn /\ Continue
          /\ current' = current /\ leaked' = leaked /\ dirty' = dirty
          /\ conn.db = DatabaseOf[cur] /\ got.plan \in Places(cur)
      BY <1>2, <1>10 DEF Run, Pg, pgVars, PostgresPlaced, Inner
    <2>2. conn.db \in Databases \cup {Home, NoDatabase} BY <1>6 DEF Conns
    <2>3. got'.plan \in Places(cur)
      BY <1>6, <1>10, <2>1, <2>2 DEF Run, Places, Answers
    <2>4. PostgresPlaced' BY <1>2, <2>1, <2>3 DEF PostgresPlaced, Inner, Connected, Places
    <2>5. Clean' /\ Released' BY <1>2, <2>1 DEF Clean, Inner, ToUndo, Released
    <2> QED BY <1>1, <1>3, <1>4, <2>1, <2>4, <2>5
  <1>11. CASE Return
    <2>1. /\ pc = "return" /\ pc' \in {"visit", "direct"} /\ conn' = NoConn /\ current' = current
          /\ got.plan \in Places(cur) /\ current = DatabaseOf[cur]
      BY <1>2, <1>11 DEF Return, Pg, Finish, PostgresPlaced, Inner
    <2>2. leaked' = {} BY <1>2, <1>11, <2>1 DEF Return, Clean, Inner, ToUndo
    <2>3. PlansPlaced' BY <1>2, <1>4, <1>6, <1>11, <2>1, FinishPlaced DEF Return, Typed
    <2>4. PostgresPlaced' BY <1>2, <2>1 DEF PostgresPlaced, Inner, Connected
    <2>5. Clean' /\ Released' BY <2>1, <2>2 DEF Clean, Inner, Released
    <2> QED BY <1>1, <1>3, <2>3, <2>4, <2>5
  <1> QED BY <1>7, <1>8, <1>9, <1>10, <1>11

LEMMA OtherSound == ASSUME Sound, Close \/ Drop PROVE Sound'
PROOF
  <1> USE AllSteps, ConnTypes DEF Sound
  <1>1. Typed' BY OtherTypes
  <1>2. CASE Close
    <2>1. /\ pc = "close" /\ pc' = "closed" /\ conn' = NoConn /\ engine' = engine /\ leaked' = leaked
          /\ current' = NoDatabase /\ answer' = answer /\ known' = known
      BY <1>2 DEF Close, SwitchLease, rankVars
    <2> QED
      BY <1>1, <2>1
      DEF PlansPlaced, Places, MysqlPlaced, PostgresPlaced, Clean, Released, Inner, Connected
  <1>3. CASE Drop
    <2>1. /\ conn # NoConn /\ conn' = [conn EXCEPT !.alive = FALSE]
          /\ UNCHANGED <<engine, answer, known, pc, cur, got, selected, current, dirty, leaked>>
      BY <1>3 DEF Drop, Connected, rankVars, mysqlVars, useVars, pgVars
    <2>2. conn'.db = conn.db /\ conn'.left = conn.left
      BY <2>1 DEF Typed, SessionTypes, Conns
    <2>3. conn.db # NoDatabase
      <3>1. CASE engine = "mysql" BY <2>1, <3>1 DEF MysqlPlaced, Connected
      <3>2. CASE engine = "postgresql"
        <4>1. cur \in Digests /\ conn.db = DatabaseOf[cur]
          BY <2>1, <3>2 DEF PostgresPlaced, Connected, Typed, PassTypes, Inner
        <4> QED BY <4>1
      <3> QED BY <3>1, <3>2 DEF Typed, PassTypes
    <2>4. conn' # NoConn BY <2>2, <2>3 DEF NoConn
    <2> QED
      BY <1>1, <2>1, <2>2, <2>4
      DEF PlansPlaced, Places, MysqlPlaced, PostgresPlaced, Clean, Released, Inner, Connected, ToUndo
  <1> QED BY <1>2, <1>3

LEMMA SoundInit == ASSUME Init PROVE Sound
PROOF
  <1>1. Typed BY TypedInit
  <1>2. PlansPlaced BY AnswerTypes DEF Init, PlansPlaced, Places
  <1> QED
    BY <1>1, <1>2 DEF Init, Sound, MysqlPlaced, PostgresPlaced, Clean, Released, Inner, Connected
LEMMA SoundStep == ASSUME Sound, [Next]_vars PROVE Sound'
PROOF
  <1>1. CASE UNCHANGED vars
    <2>1. Typed' BY <1>1, TypedStep DEF Sound
    <2> QED
      BY <1>1, <2>1
      DEF Sound, PlansPlaced, Places, MysqlPlaced, PostgresPlaced, Clean, ToUndo, Released,
          Connected, vars, rankVars, stateVars, mysqlVars, useVars, pgVars
  <1> QED
    BY <1>1, RankingSound, MysqlSound, PreparedSound, PostgresSound, OtherSound
    DEF Next, PassStep
LEMMA SpecSound == Spec => []Sound
  BY SoundInit, SoundStep, PTL DEF Spec

(* Every plan is made in the database of its statement, whatever           *)
(* connections the server drops and whichever commands it refuses          *)
(* (ExplainedInItsDatabase).                                               *)
THEOREM PlansInTheirDatabase == Spec => []ExplainedInItsDatabase
PROOF
  <1>1. Sound => ExplainedInItsDatabase
    BY DEF Sound, PlansPlaced, Places, ExplainedInItsDatabase
  <1> QED BY <1>1, SpecSound, PTL

(* No connection goes back to a pooled handle with a prepared statement or *)
(* a changed plan_cache_mode (CleanSessions).                              *)
THEOREM SessionsStayClean == Spec => []CleanSessions
PROOF
  <1>1. Sound => CleanSessions BY DEF Sound, Clean, CleanSessions
  <1> QED BY <1>1, SpecSound, PTL

(* The pass holds one lease at most, and after Close neither a lease nor a *)
(* connection (OneLease).                                                  *)
THEOREM LeasesGivenBack == Spec => []OneLease
PROOF
  <1>1. Sound => OneLease BY DEF Sound, Typed, Leased, Held, Released, OneLease
  <1> QED BY <1>1, SpecSound, PTL

----------------------------------------------------------------------------
(* What the pass has done so far.  Sent: an EXPLAIN is sent for a key only *)
(* once it is attempted, and before the attempt of cur ends each text as   *)
(* often as the round, the text and the step say.  Dropped: each retry of MySQL, and a lost connection it  *)
(* has not noticed yet, was paid by a drop of its own.                     *)
Attempting == pc \notin {"visit", "close", "closed"}
Behind == {"deallocate", "reset", "return", "direct"}   \* the PostgreSQL steps after an EXPLAIN
Tried(t) == IF pc = "explain" /\ t < text THEN 1 ELSE 0   \* in this round
SentTracked ==
  /\ \A d \in Digests, t \in Texts : sent[<<d, t>>] <= 2 /\ (d \notin attempted => sent[<<d, t>>] = 0)
  /\ Attempting => Key(cur) \in attempted
  /\ pc # "explain" \/ engine = "postgresql" => text = 1
  /\ engine = "mysql" /\ Attempting =>
       \A t \in Texts : sent[<<Key(cur), t>>] <= round - 1 + Tried(t)
  /\ engine = "postgresql" /\ Attempting =>
       sent[<<Key(cur), 1>>] <= (IF pc \in Behind THEN 1 ELSE 0)
Unnoticed == IF Connected /\ ~conn.alive THEN 1 ELSE 0
Retries == IF pc \in {"select", "explain"} THEN (round - 1) + tries ELSE 0
DropsTracked == engine = "mysql" => drops >= 2 \/ drops >= Retries + Unnoticed

(* The answers.  A key that was attempted has its result, or its database  *)
(* is out; a statement that a ranking passed is answered, in PostgreSQL    *)
(* perhaps only by its sibling, until EndRanking fills them.               *)
Settled(d) == answer[d] # NoAnswer \/ (engine = "postgresql" /\ known[KeyOf[d]] # NoAnswer)
GotTracked == pc \in {"deallocate", "reset", "return"} => got # NoAnswer
KeysTracked ==
  \A k \in attempted :
    /\ engine = "mysql" => answer[k] # NoAnswer \/ (Attempting /\ k = cur)
    /\ engine = "postgresql" =>
         /\ KeyOf[k] = k
         /\ \/ known[k] # NoAnswer
            \/ failed[DatabaseOf[k]] # "no"
            \/ Attempting /\ k = KeyOf[cur]
VisitsTracked == \A d \in Digests \ todo : Settled(d) \/ (Attempting /\ d = cur)
RankingsTracked ==
  /\ pc \in {"close", "closed"} => ranking = 3
  /\ \A r \in 1..(ranking - 1) : r \notin cut => \A d \in Digests : answer[d] # NoAnswer
PlansKnown ==
  engine = "postgresql" =>
    /\ \A d \in Digests : answer[d].plan # NoDatabase => known[KeyOf[d]] # NoAnswer
    /\ pc \in {"close", "closed"} => \A a, b \in Digests :
         KeyOf[a] = KeyOf[b] /\ answer[a].plan # NoDatabase => answer[b] = answer[a]
Told == KeysTracked /\ VisitsTracked /\ RankingsTracked /\ PlansKnown
Tracked == Sound /\ SentTracked /\ DropsTracked /\ GotTracked /\ Told

(* How one step of an attempt ends: the attempt goes on, or cur has its    *)
(* answer, or the database of cur is out.                                  *)
Outcome ==
  \/ Continue /\ Attempting'
  \/ \E a \in Answers \ {NoAnswer} : Finish(a)
  \/ \E r \in Reasons : Fail(r)

LEMMA ContinueTold ==
  ASSUME PassTypes, Told, Attempting, Continue, Attempting' PROVE Told'
PROOF
  <1>1. /\ UNCHANGED <<engine, ranking, todo, cut, answer, known, attempted, failed, cur>>
        /\ pc' \notin {"close", "closed"} /\ pc \notin {"close", "closed"}
    BY DEF Continue, rankVars, stateVars, Attempting
  <1>2. KeysTracked' BY <1>1 DEF Told, KeysTracked
  <1>3. VisitsTracked' BY <1>1 DEF Told, VisitsTracked, Settled
  <1>4. RankingsTracked' BY <1>1 DEF Told, RankingsTracked
  <1>5. PlansKnown' BY <1>1 DEF Told, PlansKnown
  <1> QED BY <1>2, <1>3, <1>4, <1>5 DEF Told

LEMMA FinishTold ==
  ASSUME PassTypes, Told, Attempting, NEW a \in Answers \ {NoAnswer}, Finish(a) PROVE Told'
PROOF
  <1>1. /\ UNCHANGED <<engine, ranking, todo, cut, attempted, failed, cur>> /\ pc' = "visit"
        /\ ~Attempting' /\ cur \in Digests
    BY DEF Finish, stateVars, Attempting, PassTypes
  <1>2. /\ answer'[cur] = a /\ \A d \in Digests \ {cur} : answer'[d] = answer[d]
        /\ engine = "postgresql" =>
             known'[KeyOf[cur]] = a /\ \A k \in Digests \ {KeyOf[cur]} : known'[k] = known[k]
    BY <1>1 DEF Finish, PassTypes
  <1>3. /\ \A d \in Digests : answer[d] # NoAnswer => answer'[d] # NoAnswer
        /\ engine = "postgresql" =>
             \A k \in Digests : known[k] # NoAnswer => known'[k] # NoAnswer
    BY <1>2
  <1>4. KeysTracked' BY <1>1, <1>2, <1>3 DEF Told, KeysTracked, PassTypes
  <1>5. VisitsTracked' BY <1>1, <1>2, <1>3 DEF Told, VisitsTracked, Settled
  <1>6. RankingsTracked' BY <1>1, <1>3 DEF Told, RankingsTracked
  <1>7. PlansKnown'
    <2> SUFFICES ASSUME engine = "postgresql", NEW d \in Digests, answer'[d].plan # NoDatabase
                 PROVE  known'[KeyOf[d]] # NoAnswer
      BY <1>1 DEF PlansKnown
    <2>1. CASE d = cur BY <1>2, <2>1
    <2>2. CASE d # cur BY <1>2, <1>3, <2>2 DEF Told, PlansKnown
    <2> QED BY <2>1, <2>2
  <1> QED BY <1>4, <1>5, <1>6, <1>7 DEF Told

(* A reason is no plan and never "none".                                   *)
LEMMA ErrTold ==
  ASSUME PassTypes, NEW d \in Digests, NEW r \in Reasons, answer' = [answer EXCEPT ![d].err = r]
  PROVE  /\ answer'[d] # NoAnswer
         /\ \A e \in Digests : /\ answer'[e].plan = answer[e].plan
                               /\ e # d => answer'[e] = answer[e]
                               /\ answer[e] # NoAnswer => answer'[e] # NoAnswer
PROOF
  <1>1. answer[d] \in Answers /\ r # "none" BY DEF PassTypes, Reasons
  <1>2. /\ [answer[d] EXCEPT !.err = r].plan = answer[d].plan
        /\ [answer[d] EXCEPT !.err = r].err = r
    BY <1>1 DEF Answers
  <1>3. [answer[d] EXCEPT !.err = r] # NoAnswer BY <1>1, <1>2 DEF NoAnswer
  <1>4. answer' = [answer EXCEPT ![d] = [answer[d] EXCEPT !.err = r]] OBVIOUS
  <1> QED BY <1>2, <1>3, <1>4 DEF PassTypes

LEMMA FailTold ==
  ASSUME PassTypes, Told, Attempting, NEW r \in Reasons, Fail(r) PROVE Told'
PROOF
  <1>1. /\ UNCHANGED <<engine, ranking, todo, cut, attempted, known, cur>> /\ pc' = "visit"
        /\ ~Attempting' /\ cur \in Digests /\ r # "no" /\ r # "none"
    BY DEF Fail, rankVars, Attempting, PassTypes, Reasons
  <1>2. answer' = [answer EXCEPT ![cur].err = r] BY DEF Fail
  <1>3. /\ answer'[cur] # NoAnswer
        /\ \A d \in Digests : answer[d] # NoAnswer => answer'[d] # NoAnswer
        /\ \A d \in Digests : answer'[d].plan = answer[d].plan
    BY <1>1, <1>2, ErrTold
  <1>4. /\ failed'[DatabaseOf[cur]] = r
        /\ \A db \in Databases : failed[db] # "no" => failed'[db] # "no"
    BY <1>1 DEF Fail, PassTypes
  <1>5. KeysTracked'
    <2> SUFFICES ASSUME NEW k \in attempted
                 PROVE  /\ engine = "mysql" => answer'[k] # NoAnswer
                        /\ engine = "postgresql" =>
                             KeyOf[k] = k /\ (known[k] # NoAnswer \/ failed'[DatabaseOf[k]] # "no")
      BY <1>1 DEF KeysTracked
    <2>1. k \in Digests BY DEF PassTypes
    <2>2. CASE engine = "mysql" BY <1>1, <1>3, <2>1, <2>2 DEF Told, KeysTracked
    <2>3. CASE engine = "postgresql"
      BY <1>1, <1>4, <2>1, <2>3 DEF Told, KeysTracked
    <2> QED BY <2>2, <2>3
  <1>6. VisitsTracked' BY <1>1, <1>3 DEF Told, VisitsTracked, Settled
  <1>7. RankingsTracked' BY <1>1, <1>3 DEF Told, RankingsTracked
  <1>8. PlansKnown' BY <1>1, <1>3 DEF Told, PlansKnown
  <1> QED BY <1>5, <1>6, <1>7, <1>8 DEF Told

LEMMA OutcomeTold == ASSUME PassTypes, Told, Attempting, Outcome PROVE Told'
  BY ContinueTold, FinishTold, FailTold DEF Outcome

(* EndRanking turns a sibling's result into everyone's.                    *)
LEMMA FilledTold ==
  ASSUME PassTypes, Told, pc = "visit"
  PROVE  /\ \A d \in Digests : answer[d] # NoAnswer => Filled[d] # NoAnswer
         /\ \A d \in Digests \ todo : Filled[d] # NoAnswer
         /\ engine = "postgresql" => \A d \in Digests :
              /\ known[KeyOf[d]] # NoAnswer => Filled[d] = known[KeyOf[d]]
              /\ known[KeyOf[d]] = NoAnswer => Filled[d].plan = NoDatabase
PROOF
  <1>0. engine \in {"mysql", "postgresql"} /\ ~Attempting BY DEF PassTypes, Attempting
  <1>1. CASE engine = "mysql" BY <1>0, <1>1 DEF Filled, Told, VisitsTracked, Settled
  <1>2. CASE engine = "postgresql"
    <2>1. \A d \in Digests :
            Filled[d] = IF known[KeyOf[d]] # NoAnswer THEN known[KeyOf[d]] ELSE answer[d]
      BY <1>2 DEF Filled
    <2>2. \A d \in Digests \ todo : answer[d] # NoAnswer \/ known[KeyOf[d]] # NoAnswer
      BY <1>0, <1>2 DEF Told, VisitsTracked, Settled
    <2>3. \A d \in Digests : known[KeyOf[d]] = NoAnswer => answer[d].plan = NoDatabase
      BY <1>2 DEF Told, PlansKnown
    <2> QED BY <2>1, <2>2, <2>3
  <1> QED BY <1>0, <1>1, <1>2

(* The next ranking knows the results of this one.                         *)
LEMMA StartTold ==
  ASSUME PassTypes, Told, pc = "visit", engine = "postgresql", NEW f \in Start(Filled), NEW k \in Digests
  PROVE  /\ KeyOf[k] = k /\ known[k] # NoAnswer => f[k] # NoAnswer
         /\ \A d \in Digests : KeyOf[d] = k /\ Filled[d].plan # NoDatabase => f[k] # NoAnswer
PROOF
  <1>1. ASSUME NEW d \in Digests, KeyOf[d] = k, Filled[d] # NoAnswer PROVE f[k] # NoAnswer
    <2>1. Filled[d] \in Carried(Filled, k) BY <1>1 DEF Carried
    <2>2. f[k] \in Carried(Filled, k) BY <2>1 DEF Start
    <2> QED BY <2>2 DEF Carried
  <1>2. KeyOf[k] = k /\ known[k] # NoAnswer => Filled[k] # NoAnswer BY FilledTold
  <1> QED BY <1>1, <1>2, AnswerTypes

LEMMA EndRankingTold == ASSUME PassTypes, Told, EndRanking PROVE Told'
PROOF
  <1>1. /\ pc = "visit" /\ pc' \in {"visit", "close"} /\ ~Attempting /\ ~Attempting'
        /\ UNCHANGED <<engine, attempted, failed>> /\ answer' = Filled /\ todo' = Digests
        /\ ranking \in 1..2 /\ ranking' = ranking + 1 /\ (pc' = "close" => ranking = 2)
        /\ cut' = IF todo = {} THEN cut ELSE cut \cup {ranking}
    BY DEF EndRanking, Attempting, stateVars, PassTypes
  <1>2. engine \in {"mysql", "postgresql"} BY DEF PassTypes
  <1>3. engine = "postgresql" => known' \in Start(Filled) BY DEF EndRanking
  <1>4. KeysTracked'
    <2> SUFFICES ASSUME NEW k \in attempted
                 PROVE  /\ engine = "mysql" => Filled[k] # NoAnswer
                        /\ engine = "postgresql" =>
                             KeyOf[k] = k /\ (known'[k] # NoAnswer \/ failed[DatabaseOf[k]] # "no")
      BY <1>1 DEF KeysTracked
    <2>1. k \in Digests BY DEF PassTypes
    <2>2. CASE engine = "mysql" BY <1>1, <2>1, <2>2, FilledTold DEF Told, KeysTracked
    <2>3. CASE engine = "postgresql"
      BY <1>1, <1>3, <2>1, <2>3, StartTold DEF Told, KeysTracked
    <2> QED BY <1>2, <2>2, <2>3
  <1>5. VisitsTracked' BY <1>1 DEF VisitsTracked
  <1>6. RankingsTracked'
    <2> SUFFICES ASSUME NEW r \in 1..ranking, r \notin cut', NEW d \in Digests
                 PROVE  Filled[d] # NoAnswer
      BY <1>1 DEF RankingsTracked
    <2>1. CASE r = ranking BY <1>1, <2>1, FilledTold
    <2>2. CASE r # ranking
      <3>1. r \in 1..(ranking - 1) /\ r \notin cut BY <1>1, <2>2
      <3> QED BY <1>1, <3>1, FilledTold DEF Told, RankingsTracked
    <2> QED BY <2>1, <2>2
  <1>7. PlansKnown'
    <2> SUFFICES ASSUME engine = "postgresql"
                 PROVE  /\ \A d \in Digests : Filled[d].plan # NoDatabase => known'[KeyOf[d]] # NoAnswer
                        /\ \A a, b \in Digests :
                             KeyOf[a] = KeyOf[b] /\ Filled[a].plan # NoDatabase => Filled[b] = Filled[a]
      BY <1>1 DEF PlansKnown
    <2>1. \A d \in Digests : Filled[d].plan # NoDatabase => known'[KeyOf[d]] # NoAnswer
      BY <1>1, <1>3, StartTold
    <2>2. \A a, b \in Digests :
            KeyOf[a] = KeyOf[b] /\ Filled[a].plan # NoDatabase => Filled[b] = Filled[a]
      BY <1>1, FilledTold
    <2> QED BY <2>1, <2>2
  <1> QED BY <1>4, <1>5, <1>6, <1>7 DEF Told

LEMMA VisitTold ==
  ASSUME PassTypes, Told, NEW d \in Digests, Pass(d) \/ GiveUp(d) \/ Begin(d) PROVE Told'
PROOF
  <1>0. engine \in {"mysql", "postgresql"} BY DEF PassTypes
  <1>1. /\ pc = "visit" /\ ~Attempting /\ todo' = todo \ {d}
        /\ UNCHANGED <<engine, ranking, cut, known, failed>> /\ pc' \notin {"close", "closed"}
    BY DEF Pass, GiveUp, Begin, Visits, Attempting, stateVars
  <1>2. CASE Pass(d)
    <2>1. UNCHANGED <<answer, attempted, pc, cur>> /\ ~Attempting'
      BY <1>1, <1>2 DEF Pass, stateVars, Attempting
    <2>2. Settled(d)
      <3>1. CASE engine = "mysql"
        BY <1>1, <1>2, <3>1 DEF Pass, Answered, Settled, Key, Told, KeysTracked
      <3>2. CASE engine = "postgresql"
        <4>1. Answered(d) \/ (~Failed(d) /\ KeyOf[d] \in attempted)
          BY <1>2, <3>2 DEF Pass, Key
        <4>2. ~Failed(d) => failed[DatabaseOf[KeyOf[d]]] = "no" BY DEF Failed
        <4> QED BY <1>1, <3>2, <4>1, <4>2 DEF Answered, Settled, Told, KeysTracked
      <3> QED BY <1>0, <3>1, <3>2
    <2>3. KeysTracked' BY <1>1, <2>1 DEF Told, KeysTracked
    <2>4. VisitsTracked' BY <1>1, <2>1, <2>2 DEF Told, VisitsTracked, Settled
    <2> QED BY <1>1, <2>1, <2>3, <2>4 DEF Told, RankingsTracked, PlansKnown
  <1>3. CASE GiveUp(d)
    <2>1. UNCHANGED <<attempted, pc, cur>> /\ ~Attempting'
      BY <1>1, <1>3 DEF GiveUp, stateVars, Attempting
    <2>2. failed[DatabaseOf[d]] \in Reasons /\ answer' = [answer EXCEPT ![d].err = failed[DatabaseOf[d]]]
      BY <1>3 DEF GiveUp, Failed, PassTypes
    <2>3. /\ answer'[d] # NoAnswer
          /\ \A e \in Digests : answer[e] # NoAnswer => answer'[e] # NoAnswer
          /\ \A e \in Digests : answer'[e].plan = answer[e].plan
      BY <2>2, ErrTold
    <2>4. KeysTracked' BY <1>1, <2>1, <2>3 DEF Told, KeysTracked, PassTypes
    <2>5. VisitsTracked' BY <1>1, <2>1, <2>3 DEF Told, VisitsTracked, Settled
    <2>6. RankingsTracked' BY <1>1, <2>3 DEF Told, RankingsTracked
    <2>7. PlansKnown' BY <1>1, <2>1, <2>3 DEF Told, PlansKnown
    <2> QED BY <2>4, <2>5, <2>6, <2>7 DEF Told
  <1>4. CASE Begin(d)
    <2>1. answer' = answer /\ attempted' = attempted \cup {Key(d)} /\ cur' = d /\ Attempting'
      BY <1>4 DEF Begin, Attempting
    <2>2. KeysTracked' BY <1>1, <2>1 DEF Told, KeysTracked, Key
    <2>3. VisitsTracked' BY <1>1, <2>1 DEF Told, VisitsTracked, Settled
    <2> QED BY <1>1, <2>1, <2>2, <2>3 DEF Told, RankingsTracked, PlansKnown
  <1> QED BY <1>2, <1>3, <1>4

LEMMA OtherTold == ASSUME PassTypes, Told, Close \/ Drop \/ UNCHANGED vars PROVE Told'
PROOF
  <1>1. UNCHANGED <<engine, ranking, todo, cut, answer, known, attempted, failed, cur>>
    BY DEF Close, Drop, vars, rankVars, stateVars
  <1>2. /\ Attempting' <=> Attempting
        /\ pc' \in {"close", "closed"} => pc \in {"close", "closed"}
    BY DEF Close, Drop, vars, Attempting
  <1>3. KeysTracked' BY <1>1, <1>2 DEF Told, KeysTracked
  <1>4. VisitsTracked' BY <1>1, <1>2 DEF Told, VisitsTracked, Settled
  <1> QED BY <1>1, <1>2, <1>3, <1>4 DEF Told, RankingsTracked, PlansKnown

(* What an EXPLAIN that ran or failed leaves is an answer.                 *)
LEMMA RealAnswers ==
  /\ \A p \in Databases \cup {Home} :
       [NoAnswer EXCEPT !.plan = p] \in Answers \ {NoAnswer}
  /\ \A e \in {"failed"} \cup Reasons : [NoAnswer EXCEPT !.err = e] \in Answers \ {NoAnswer}
  /\ \A a \in Answers : [a EXCEPT !.err = "failed"] \in Answers \ {NoAnswer}
  /\ \A a \in Answers, p \in Databases : [a EXCEPT !.plan = p] \in Answers \ {NoAnswer}
PROOF
  <1>1. NoDatabase \notin Databases \cup {Home} /\ "none" \notin {"failed"} \cup Reasons BY DEF Reasons
  <1>2. \A a \in Answers : [a EXCEPT !.err = "failed"].err = "failed" BY DEF Answers
  <1>3. \A a \in Answers, p \in Databases : [a EXCEPT !.plan = p].plan = p BY DEF Answers
  <1>4. NoAnswer.err = "none" /\ NoAnswer.plan = NoDatabase BY DEF NoAnswer
  <1>5. \A e \in {"failed"} \cup Reasons :
          [NoAnswer EXCEPT !.err = e] \in Answers /\ [NoAnswer EXCEPT !.err = e].err = e
    BY AnswerTypes DEF NoAnswer
  <1>6. \A a \in Answers : [a EXCEPT !.err = "failed"] \in Answers BY AnswerTypes
  <1>7. \A a \in Answers, p \in Databases : [a EXCEPT !.plan = p] \in Answers BY AnswerTypes
  <1>8. \A p \in Databases \cup {Home} :
          [NoAnswer EXCEPT !.plan = p] \in Answers /\ [NoAnswer EXCEPT !.plan = p].plan = p
    BY AnswerTypes DEF NoAnswer
  <1>9. \A a \in Answers : a.plan # NoDatabase \/ a.err # "none" => a # NoAnswer BY <1>4
  <1>10. \A p \in Databases \cup {Home} :
           [NoAnswer EXCEPT !.plan = p] \in Answers \ {NoAnswer}
    <2> TAKE p \in Databases \cup {Home}
    <2>1. [NoAnswer EXCEPT !.plan = p].plan # NoDatabase BY <1>1, <1>8
    <2> QED BY <1>8, <1>9, <2>1
  <1>11. \A e \in {"failed"} \cup Reasons : [NoAnswer EXCEPT !.err = e] \in Answers \ {NoAnswer}
    <2> TAKE e \in {"failed"} \cup Reasons
    <2>1. [NoAnswer EXCEPT !.err = e].err # "none" BY <1>1, <1>5
    <2> QED BY <1>5, <1>9, <2>1
  <1>12. \A a \in Answers : [a EXCEPT !.err = "failed"] \in Answers \ {NoAnswer}
    BY <1>1, <1>2, <1>6, <1>9
  <1>13. \A a \in Answers, p \in Databases : [a EXCEPT !.plan = p] \in Answers \ {NoAnswer}
    BY <1>1, <1>3, <1>7, <1>9
  <1> QED BY <1>10, <1>11, <1>12, <1>13

LEMMA MysqlOutcome ==
  ASSUME Sound, Pin \/ Use \/ Explain
  PROVE  /\ engine = "mysql" /\ Attempting /\ Outcome /\ cur \in Digests
         /\ UNCHANGED <<engine, attempted, cur>> /\ pc' \in {"visit", "select", "explain"}
PROOF
  <1>1. engine = "mysql" /\ pc \in {"select", "explain"} BY DEF Pin, Use, Explain, Mysql
  <1>2. pc' \in {"visit", "select", "explain"} /\ UNCHANGED <<engine, attempted, cur>>
    BY <1>1
    DEF Pin, Use, UseLost, Explain, Respell, Executed, Fail, Continue, Finish, rankVars, stateVars
  <1>3. "refused" \in Reasons /\ "denied" \in Reasons /\ "lost" \in Reasons BY DEF Reasons
  <1>4. Outcome
    <2>1. CASE Pin
      <3>1. Fail("refused") \/ (Continue /\ pc' = pc) BY <2>1 DEF Pin
      <3> QED BY <1>1, <1>3, <3>1 DEF Outcome, Attempting, Fail
    <2>2. CASE Use
      <3>1. Fail("denied") \/ Fail("lost") \/ (Continue /\ pc' \in {"select", "explain"})
        BY <1>1, <2>2 DEF Use, UseLost
      <3> QED BY <1>3, <3>1 DEF Outcome, Attempting, Fail
    <2>3. CASE Explain
      <3>1. conn.db \in Databases \cup {Home}
        BY <1>1, <2>3 DEF Sound, Typed, SessionTypes, Conns, MysqlPlaced, Explain, Mysql
      <3>2. \/ Finish([NoAnswer EXCEPT !.plan = conn.db])
            \/ \E e \in {"failed", "lost"} : Finish([NoAnswer EXCEPT !.err = e])
            \/ Continue /\ pc' \in {"select", "explain"}
        BY <1>1, <2>3 DEF Explain, Respell, Executed, Mysql
      <3> QED BY <1>3, <3>1, <3>2, RealAnswers DEF Outcome, Attempting, Finish
    <2> QED BY <2>1, <2>2, <2>3
  <1> QED BY <1>1, <1>2, <1>4 DEF Attempting, Sound, Typed, PassTypes

PostgresStep ==
  \/ Connection \/ ExplainDirect \/ Take \/ SetMode \/ Prepare \/ Run
  \/ Deallocate \/ Reset \/ Return
LEMMA PostgresOutcome ==
  ASSUME Sound, GotTracked, PostgresStep
  PROVE  /\ engine = "postgresql" /\ Attempting /\ Outcome /\ cur \in Digests /\ GotTracked'
         /\ UNCHANGED <<engine, attempted, cur>> /\ pc' \notin {"close", "closed"}
PROOF
  <1>1. /\ engine = "postgresql" /\ Attempting /\ cur \in Digests /\ got \in Answers
        /\ pc \in {"select", "explain", "direct"} \cup Inner
    BY DEF PostgresStep, Connection, ExplainDirect, Take, SetMode, Prepare, Run, Deallocate,
           Reset, Return, Pg, Attempting, Inner, Sound, Typed, PassTypes
  <1>2. current = NoDatabase \/ current \in Databases BY DEF Sound, Typed, SessionTypes
  <1>3. /\ pc \in {"explain", "direct"} \cup Inner => current = DatabaseOf[cur]
        /\ pc \in Inner => conn.db = current
    BY <1>1 DEF Sound, PostgresPlaced
  <1>4. /\ [NoAnswer EXCEPT !.err = "failed"] \in Answers \ {NoAnswer}
        /\ [got EXCEPT !.err = "failed"] # NoAnswer
        /\ pc \in {"explain", "direct"} => [NoAnswer EXCEPT !.plan = current] \in Answers \ {NoAnswer}
        /\ pc = "run" => [got EXCEPT !.plan = conn.db] # NoAnswer
    <2>1. DatabaseOf[cur] \in Databases BY <1>1
    <2> QED BY <1>1, <1>3, <2>1, RealAnswers DEF Inner
  <1> DEFINE Goal == /\ Outcome /\ GotTracked' /\ pc' \notin {"close", "closed"}
                     /\ UNCHANGED <<engine, attempted, cur>>
  <1>5. ASSUME Continue, pc' \in Inner \cup {"explain", "direct"}, GotTracked' PROVE Goal
    BY <1>5 DEF Continue, Outcome, Attempting, Inner, rankVars, stateVars
  <1>6. ASSUME NEW a \in Answers \ {NoAnswer}, Finish(a) PROVE Goal
    BY <1>6 DEF Finish, Outcome, GotTracked, stateVars
  <1>7. Goal
    <2>1. CASE Connection
      <3>1. "refused" \in Reasons BY DEF Reasons
      <3>2. Fail("refused") \/ (Continue /\ pc' = "explain") BY <2>1 DEF Connection
      <3>3. ASSUME Fail("refused") PROVE Goal
        BY <3>1, <3>3 DEF Fail, Outcome, GotTracked, rankVars
      <3> QED BY <1>5, <3>2, <3>3 DEF GotTracked
    <2>2. CASE ExplainDirect
      <3>1. pc \in {"explain", "direct"} BY <2>2 DEF ExplainDirect, Pg
      <3> QED BY <1>4, <1>6, <2>2, <3>1 DEF ExplainDirect
    <2>3. CASE Take
      <3>1. \/ Continue /\ pc' = "set"
            \/ Finish([NoAnswer EXCEPT !.err = "failed"])
        BY <2>3 DEF Take
      <3> QED BY <1>4, <1>5, <1>6, <3>1 DEF GotTracked, Inner
    <2>4. CASE SetMode \/ Prepare
      <3>1. /\ Continue /\ pc' \in {"prepare", "run", "return", "reset"}
            /\ pc' \in {"return", "reset"} => got' = [got EXCEPT !.err = "failed"]
        BY <2>4 DEF SetMode, Prepare, Step
      <3> QED BY <1>4, <1>5, <3>1 DEF GotTracked, Inner
    <2>5. CASE Run
      <3>1. /\ Continue /\ pc' = "deallocate" /\ pc = "run"
            /\ got' = [got EXCEPT !.plan = conn.db] \/ got' = [got EXCEPT !.err = "failed"]
        BY <2>5 DEF Run, Pg
      <3> QED BY <1>4, <1>5, <3>1 DEF GotTracked, Inner
    <2>6. CASE Deallocate \/ Reset
      <3>1. /\ Continue /\ pc' \in {"reset", "return"} /\ pc \in {"deallocate", "reset"}
            /\ got' = got \/ got' = [got EXCEPT !.err = "failed"]
        BY <2>6 DEF Deallocate, Reset, Undo, Pg
      <3> QED BY <1>4, <1>5, <3>1 DEF GotTracked, Inner
    <2>7. CASE Return
      <3>1. pc = "return" /\ got # NoAnswer BY <2>7 DEF Return, Pg, GotTracked
      <3>2. Finish(got) \/ (Continue /\ pc' = "direct") BY <2>7 DEF Return
      <3> QED BY <1>1, <1>5, <1>6, <3>1, <3>2 DEF GotTracked
    <2> QED BY <2>1, <2>2, <2>3, <2>4, <2>5, <2>6, <2>7 DEF PostgresStep
  <1> QED BY <1>1, <1>7

LEMMA VisitCounted ==
  ASSUME Tracked, (\E d \in Digests : Pass(d) \/ GiveUp(d) \/ Begin(d)) \/ EndRanking
  PROVE  (SentTracked /\ DropsTracked /\ GotTracked)'
PROOF
  <1> USE DEF Tracked
  <1>1. /\ PassTypes /\ SessionTypes BY DEF Sound, Typed
  <1>2. /\ pc = "visit" /\ UNCHANGED <<engine, conn, drops, sent>>
        /\ pc' \in {"visit", "select", "close"}
    BY DEF Pass, GiveUp, Begin, EndRanking, Visits
  <1>3. GotTracked' BY <1>2 DEF GotTracked
  <1>4. DropsTracked'
    <2>1. Retries = 0 /\ Retries' = 0
      <3>1. pc' = "select" => round' = 1 /\ tries' = 0
        BY <1>2 DEF Pass, GiveUp, Begin, EndRanking
      <3> QED BY <1>2, <3>1 DEF Retries
    <2>2. Unnoticed' = Unnoticed BY <1>2 DEF Unnoticed, Connected
    <2> QED BY <1>2, <2>1, <2>2 DEF DropsTracked
  <1>5. SentTracked'
    <2>0. text' = text /\ text = 1 /\ 1 \in Texts
      BY <1>2 DEF Pass, GiveUp, Begin, EndRanking, mysqlVars, SentTracked, Texts
    <2>1. CASE UNCHANGED attempted /\ pc' # "select"
      BY <1>2, <2>0, <2>1 DEF SentTracked, Attempting
    <2>2. ASSUME NEW d \in Digests, Begin(d) PROVE SentTracked'
      <3>1. /\ attempted' = attempted \cup {Key(d)} /\ Key(d) \notin attempted /\ Key(d) \in Digests
            /\ cur' = d /\ pc' = "select" /\ round' = 1 /\ Key(cur)' = Key(d)
        BY <1>2, <2>2 DEF Begin, Key
      <3>2. \A t \in Texts : sent[<<Key(d), t>>] = 0 /\ Tried(t)' = 0 BY <3>1 DEF SentTracked, Tried
      <3> QED BY <1>2, <2>0, <3>1, <3>2 DEF SentTracked, Behind
    <2>3. (\E d \in Digests : Begin(d)) \/ (UNCHANGED attempted /\ pc' # "select")
      BY <1>2 DEF Pass, GiveUp, EndRanking, stateVars
    <2> QED BY <2>1, <2>2, <2>3
  <1> QED BY <1>3, <1>4, <1>5

(* An EXPLAIN adds to the count of its own text.                           *)
LEMMA SentByStep ==
  ASSUME Typed, SentTracked, Attempting, cur \in Digests, UNCHANGED <<engine, attempted, cur>>,
         UNCHANGED sent \/ (Sends /\ sent[<<Key(cur), text>>] <= 1)
  PROVE  /\ \A d \in Digests, t \in Texts :
              sent'[<<d, t>>] <= 2 /\ (d \notin attempted' => sent'[<<d, t>>] = 0)
         /\ Key(cur)' = Key(cur) /\ Key(cur) \in attempted' /\ Key(cur) \in Digests
         /\ \A t \in Texts : sent[<<Key(cur), t>>] \in 0..3
         /\ \A t \in Texts \ {text} : sent'[<<Key(cur), t>>] = sent[<<Key(cur), t>>]
         /\ sent'[<<Key(cur), text>>] \in {sent[<<Key(cur), text>>], sent[<<Key(cur), text>>] + 1}
PROOF
  <1>1. /\ Key(cur) \in Digests /\ Key(cur)' = Key(cur) /\ Key(cur) \in attempted /\ text \in Texts
        /\ sent \in [Digests \X Texts -> 0..3] /\ <<Key(cur), text>> \in Digests \X Texts
    BY DEF Key, SentTracked, Typed, SessionTypes
  <1>2. CASE UNCHANGED sent BY <1>1, <1>2 DEF SentTracked
  <1>3. CASE Sends /\ sent[<<Key(cur), text>>] <= 1
    <2>1. /\ sent'[<<Key(cur), text>>] = sent[<<Key(cur), text>>] + 1
          /\ \A x \in Digests \X Texts : x # <<Key(cur), text>> => sent'[x] = sent[x]
      BY <1>1, <1>3 DEF Sends
    <2>2. ASSUME NEW d \in Digests, NEW t \in Texts
          PROVE  sent'[<<d, t>>] <= 2 /\ (d \notin attempted' => sent'[<<d, t>>] = 0)
      <3>1. CASE <<d, t>> = <<Key(cur), text>>
        <4>1. sent'[<<d, t>>] = sent[<<Key(cur), text>>] + 1 /\ d \in attempted'
          BY <1>1, <2>1, <3>1
        <4> QED BY <1>1, <1>3, <4>1
      <3>2. CASE <<d, t>> # <<Key(cur), text>>
        <4>1. sent'[<<d, t>>] = sent[<<d, t>>] BY <2>1, <3>2
        <4> QED BY <4>1 DEF SentTracked
      <3> QED BY <3>1, <3>2
    <2> QED BY <1>1, <2>1, <2>2
  <1> QED BY <1>2, <1>3

LEMMA MysqlSent == ASSUME Tracked, Pin \/ Use \/ Explain PROVE SentTracked'
PROOF
  <1>1. /\ engine = "mysql" /\ Attempting /\ cur \in Digests /\ UNCHANGED <<engine, attempted, cur>>
        /\ Typed /\ SentTracked /\ round \in 1..2 /\ text \in Texts /\ Texts = 1..3
    BY MysqlOutcome DEF Tracked, Sound, Typed, SessionTypes, Texts
  <1>2. CASE Pin \/ Use
    <2>1. /\ UNCHANGED <<round, sent, text>> /\ pc = "select" /\ text = 1
      BY <1>1, <1>2 DEF Pin, Use, Mysql, SentTracked
    <2>2. \A t \in Texts : Tried(t) = 0 /\ Tried(t)' = 0 BY <1>1, <2>1 DEF Tried
    <2> QED BY <1>1, <2>1, <2>2, SentByStep DEF SentTracked
  <1>3. CASE Explain
    <2>1. /\ pc = "explain" /\ Sends /\ \A t \in Texts : sent[<<Key(cur), t>>] <= round - 1 + Tried(t)
      BY <1>1, <1>3 DEF Explain, Mysql, SentTracked
    <2>2. \A t \in Texts : Tried(t) = IF t < text THEN 1 ELSE 0 BY <2>1 DEF Tried
    <2>3. sent[<<Key(cur), text>>] <= round - 1 BY <1>1, <2>1, <2>2
    <2>4. /\ \A d \in Digests, t \in Texts :
               sent'[<<d, t>>] <= 2 /\ (d \notin attempted' => sent'[<<d, t>>] = 0)
          /\ Key(cur)' = Key(cur) /\ Key(cur) \in attempted' /\ Key(cur) \in Digests
          /\ \A t \in Texts : sent[<<Key(cur), t>>] \in 0..3
          /\ \A t \in Texts \ {text} : sent'[<<Key(cur), t>>] = sent[<<Key(cur), t>>]
          /\ sent'[<<Key(cur), text>>] \in {sent[<<Key(cur), text>>], sent[<<Key(cur), text>>] + 1}
      <3>1. sent[<<Key(cur), text>>] \in 0..3 BY <1>1 DEF Key, Typed, SessionTypes
      <3>2. sent[<<Key(cur), text>>] <= 1 BY <1>1, <2>3, <3>1
      <3> QED BY <1>1, <2>1, <3>2, SentByStep
    <2>5. CASE pc' = "explain" /\ text' = text + 1 /\ round' = round
      <3>1. ASSUME NEW t \in Texts PROVE sent'[<<Key(cur), t>>] <= round - 1 + Tried(t)'
        <4>1. Tried(t)' = IF t <= text THEN 1 ELSE 0 BY <1>1, <2>5 DEF Tried
        <4>2. sent'[<<Key(cur), t>>] \in Nat BY <1>1, <2>4
        <4> QED BY <1>1, <2>1, <2>2, <2>3, <2>4, <4>1, <4>2
      <3> QED BY <1>1, <2>4, <2>5, <3>1 DEF SentTracked
    <2>6. CASE pc' = "visit" /\ text' = 1 BY <1>1, <2>4, <2>6 DEF SentTracked, Attempting
    <2>7. CASE pc' = "select" /\ text' = 1 /\ text = 3 /\ round = 1 /\ round' = 2
      <3>1. ASSUME NEW t \in Texts PROVE sent'[<<Key(cur), t>>] <= 1 /\ Tried(t)' = 0
        <4>1. Tried(t)' = 0 BY <2>7 DEF Tried
        <4> QED BY <1>1, <2>1, <2>2, <2>3, <2>4, <2>7, <4>1
      <3> QED BY <1>1, <2>4, <2>7, <3>1 DEF SentTracked, Attempting
    <2> QED
      BY <1>1, <1>3, <2>1, <2>5, <2>6, <2>7
      DEF Explain, Respell, Executed, ExecuteLost, Finish, useVars
  <1> QED BY <1>2, <1>3

LEMMA PostgresSent == ASSUME Tracked, PostgresStep PROVE SentTracked'
PROOF
  <1>1. /\ engine = "postgresql" /\ Attempting /\ cur \in Digests /\ UNCHANGED <<engine, attempted, cur>>
        /\ Typed /\ SentTracked /\ text = 1 /\ 1 \in Texts
    BY PostgresOutcome DEF Tracked, Sound, Typed, SentTracked, Texts
  <1>2. text' = text
    BY DEF PostgresStep, Connection, ExplainDirect, Take, SetMode, Prepare, Run, Deallocate,
           Reset, Return, Step, Undo, mysqlVars
  <1>3. CASE Connection \/ Take \/ SetMode \/ Prepare \/ Deallocate \/ Reset \/ Return
    <2>1. UNCHANGED sent
      BY <1>3 DEF Connection, Take, SetMode, Prepare, Deallocate, Reset, Return, Step, Undo
    <2>2. pc \in Behind => ~Attempting' \/ pc' \in Behind
      BY <1>3
      DEF Connection, Take, SetMode, Prepare, Deallocate, Reset, Return, Undo, Finish, Pg,
          Behind, Attempting
    <2> QED BY <1>1, <1>2, <2>1, <2>2, SentByStep DEF SentTracked
  <1>4. sent[<<Key(cur), text>>] \in 0..3 /\ sent[<<Key(cur), text>>] <= (IF pc \in Behind THEN 1 ELSE 0)
    BY <1>1 DEF SentTracked, Key, Typed, SessionTypes
  <1>5. CASE ExplainDirect
    <2>1. Sends /\ ~Attempting' BY <1>5 DEF ExplainDirect, Finish, Attempting
    <2> QED BY <1>1, <1>2, <1>4, <2>1, SentByStep DEF SentTracked
  <1>6. CASE Run
    <2>1. Sends /\ pc = "run" /\ pc' = "deallocate" BY <1>6 DEF Run, Pg
    <2>2. sent[<<Key(cur), text>>] = 0 /\ pc' \in Behind BY <1>4, <2>1 DEF Behind
    <2> QED BY <1>1, <1>2, <2>1, <2>2, SentByStep DEF SentTracked
  <1> QED BY <1>3, <1>5, <1>6 DEF PostgresStep

(* A reset connection is one drop noticed; a new one is alive.             *)
LEMMA MysqlDrops == ASSUME Tracked, Pin \/ Use \/ Explain PROVE DropsTracked'
PROOF
  <1>1. /\ engine = "mysql" /\ pc \in {"select", "explain"} /\ UNCHANGED engine
        /\ pc' \in {"visit", "select", "explain"}
        /\ round \in 1..2 /\ tries \in 0..1 /\ drops \in 0..2
        /\ drops >= 2 \/ drops >= round - 1 + tries + Unnoticed
    BY MysqlOutcome DEF Pin, Use, Explain, Mysql, Tracked, DropsTracked, Retries, Sound, Typed,
                        PassTypes, SessionTypes
  <1>2. ASSUME drops' >= 2 \/ drops' >= Retries' + Unnoticed' PROVE DropsTracked'
    BY <1>2 DEF DropsTracked
  <1>3. ASSUME pc' = "visit", ~Connected' \/ conn'.alive, drops' = 0 PROVE DropsTracked'
    BY <1>2, <1>3 DEF Retries, Unnoticed
  <1>4. CASE Pin
    <2>1. CASE pc' = "visit" BY <1>3, <1>4, <2>1, <1>1 DEF Pin, Mysql, Fail, Continue, Connected
    <2>2. CASE pc' # "visit"
      <3>1. conn' = Opened(Home, {}) /\ UNCHANGED <<pc, round, tries, drops>>
        BY <1>4, <2>2 DEF Pin, Fail, Continue, mysqlVars, useVars
      <3>2. Unnoticed' = 0 /\ Unnoticed \in 0..1 BY <3>1 DEF Unnoticed, Opened
      <3> QED BY <1>1, <1>2, <3>1, <3>2 DEF Retries
    <2> QED BY <2>1, <2>2
  <1>5. CASE Use
    <2>1. CASE conn.alive /\ Fail("denied") /\ UNCHANGED conn
      BY <1>3, <2>1 DEF Fail
    <2>2. CASE pc' = "explain" /\ Continue /\ UNCHANGED <<round, tries>>
               /\ (conn' = conn \/ (conn.alive /\ conn' = [conn EXCEPT !.db = DatabaseOf[cur]]))
      <3>1. conn \in Conns BY DEF Tracked, Sound, Typed, SessionTypes
      <3>2. Unnoticed' = 0 \/ Unnoticed' = Unnoticed
        BY <2>2, <3>1 DEF Unnoticed, Connected, Conns
      <3>3. drops' = drops /\ Retries' = round - 1 + tries /\ Unnoticed \in 0..1
        BY <2>2 DEF Continue, Retries, Unnoticed
      <3> QED BY <1>1, <1>2, <3>2, <3>3
    <2>3. CASE Connected /\ ~conn.alive /\ ResetSession /\ UseLost /\ UNCHANGED round
      <3>1. Unnoticed = 1 /\ Unnoticed' = 0 /\ ~Connected'
        BY <2>3 DEF Unnoticed, Connected, ResetSession
      <3>2. CASE tries = 0
        <4>1. tries' = 1 /\ drops' = drops /\ pc' = pc /\ Retries' = round
          BY <1>1, <2>3, <3>2 DEF UseLost, Continue, Retries
        <4> QED BY <1>1, <1>2, <3>1, <3>2, <4>1
      <3>3. CASE tries # 0 BY <1>3, <2>3, <3>1, <3>3 DEF UseLost, Fail
      <3> QED BY <3>2, <3>3
    <2> QED BY <1>5, <2>1, <2>2, <2>3 DEF Use
  <1>6. CASE Explain
    <2>1. CASE conn.alive /\ pc' = "visit" /\ conn' = conn /\ drops' = 0 BY <1>3, <2>1
    <2>2. CASE /\ ~conn.alive /\ round = 1 /\ conn' = NoConn /\ drops' = drops
               /\ round' = 2 /\ tries' = 0 /\ pc' = "select"
      <3>1. Connected BY <1>1, <1>6 DEF Explain, Mysql, Tracked, Sound, MysqlPlaced
      <3>2. Unnoticed = 1 /\ Unnoticed' = 0 /\ Retries' = 1
        BY <2>2, <3>1 DEF Unnoticed, Connected, Retries
      <3> QED BY <1>1, <1>2, <2>2, <3>2
    <2>3. CASE pc' = "visit" /\ conn' = NoConn /\ drops' = 0 BY <1>3, <2>3 DEF Connected
    <2>4. CASE Respell
      <3>1. UNCHANGED <<drops, conn, round, tries, pc>> BY <2>4 DEF Respell, Continue, useVars
      <3>2. Retries' = Retries /\ Unnoticed' = Unnoticed /\ Retries = round - 1 + tries
        BY <1>1, <3>1 DEF Retries, Unnoticed, Connected
      <3> QED BY <1>1, <1>2, <3>1, <3>2
    <2> QED
      BY <1>6, <2>1, <2>2, <2>3, <2>4 DEF Explain, Executed, ExecuteLost, Finish, Continue, ResetSession
  <1> QED BY <1>4, <1>5, <1>6

LEMMA TrackedInit == ASSUME Init PROVE Tracked
PROOF
  <1>1. Sound BY SoundInit
  <1>2. pc = "visit" /\ conn = NoConn BY DEF Init
  <1>3. SentTracked /\ GotTracked BY <1>2 DEF Init, SentTracked, GotTracked, Attempting, Texts
  <1>4. DropsTracked BY <1>2 DEF Init, DropsTracked, Retries, Unnoticed, Connected
  <1>5. Told
    <2>1. attempted = {} /\ todo = Digests /\ ranking = 1 BY DEF Init
    <2>2. \A d \in Digests : answer[d].plan = NoDatabase BY AnswerTypes DEF Init
    <2> QED BY <1>2, <2>1, <2>2 DEF Told, KeysTracked, VisitsTracked, RankingsTracked, PlansKnown
  <1> QED BY <1>1, <1>3, <1>4, <1>5 DEF Tracked
LEMMA TrackedStep == ASSUME Tracked, [Next]_vars PROVE Tracked'
PROOF
  <1>1. Sound' BY SoundStep DEF Tracked
  <1>2. PassTypes BY DEF Tracked, Sound, Typed
  <1>3. CASE (\E d \in Digests : Pass(d) \/ GiveUp(d) \/ Begin(d)) \/ EndRanking
    <2>1. Told' BY <1>2, <1>3, VisitTold, EndRankingTold DEF Tracked
    <2> QED BY <1>1, <1>3, <2>1, VisitCounted DEF Tracked
  <1>4. CASE Pin \/ Use \/ Explain
    <2>1. Told' BY <1>2, <1>4, MysqlOutcome, OutcomeTold DEF Tracked
    <2>2. GotTracked' BY <1>4, MysqlOutcome DEF Tracked, GotTracked
    <2> QED BY <1>1, <1>4, <2>1, <2>2, MysqlSent, MysqlDrops DEF Tracked
  <1>5. CASE PostgresStep
    <2>1. Told' /\ GotTracked' BY <1>2, <1>5, PostgresOutcome, OutcomeTold DEF Tracked
    <2>2. DropsTracked' BY <1>5, PostgresOutcome DEF Tracked, DropsTracked
    <2> QED BY <1>1, <1>5, <2>1, <2>2, PostgresSent DEF Tracked
  <1>6. CASE Close \/ Drop \/ UNCHANGED vars
    <2>1. Told' BY <1>2, <1>6, OtherTold DEF Tracked
    <2>2. /\ UNCHANGED <<engine, sent, got, cur, round, tries, text, attempted>> /\ Key(cur)' = Key(cur)
          /\ pc' = pc \/ (pc = "close" /\ pc' = "closed")
      BY <1>6 DEF Close, Drop, vars, rankVars, stateVars, mysqlVars, useVars, Key
    <2>3. GotTracked' BY <2>2 DEF Tracked, GotTracked
    <2>4. SentTracked' BY <2>2 DEF Tracked, SentTracked, Attempting, Tried
    <2>5. DropsTracked'
      <3>1. Retries' = Retries BY <2>2 DEF Retries
      <3>2. round \in 1..2 /\ tries \in 0..1 /\ drops \in 0..2 /\ Retries \in 0..2 /\ Unnoticed \in 0..1
        BY DEF Tracked, Sound, Typed, PassTypes, SessionTypes, Retries, Unnoticed
      <3>3. CASE Close
        <4>1. drops' = drops /\ Unnoticed' = 0 BY <3>3 DEF Close, Unnoticed, Connected
        <4> QED BY <2>2, <3>1, <3>2, <4>1 DEF Tracked, DropsTracked
      <3>4. CASE Drop
        <4>1. Unnoticed = 0 /\ drops' \in {2, drops + 1} /\ Unnoticed' \in 0..1
          <5>1. CASE drops < 2 BY <3>4, <5>1 DEF Drop, Unnoticed
          <5>2. CASE ~(drops < 2) BY <3>2, <3>4, <5>2 DEF Drop, Unnoticed
          <5> QED BY <5>1, <5>2
        <4>2. CASE drops' = 2 BY <4>2 DEF DropsTracked
        <4>3. CASE drops' = drops + 1
          <5>1. engine = "mysql" => drops >= 2 \/ drops >= Retries
            BY <3>2, <4>1 DEF Tracked, DropsTracked
          <5>2. drops >= 2 => drops' >= 2 BY <3>2, <4>3
          <5>3. drops >= Retries => drops' >= Retries + Unnoticed'
            <6>1. \A n, r \in Nat, u \in 0..1 : n >= r => n + 1 >= r + u OBVIOUS
            <6>2. drops \in Nat /\ Retries \in Nat BY <3>2
            <6> QED BY <4>1, <4>3, <6>1, <6>2
          <5> QED BY <2>2, <3>1, <5>1, <5>2, <5>3 DEF DropsTracked
        <4> QED BY <4>1, <4>2, <4>3
      <3>5. CASE UNCHANGED vars
        BY <3>5 DEF vars, rankVars, mysqlVars, useVars, Tracked, DropsTracked, Retries, Unnoticed, Connected
      <3> QED BY <1>6, <3>3, <3>4, <3>5
    <2> QED BY <1>1, <2>1, <2>3, <2>4, <2>5 DEF Tracked
  <1> QED BY <1>3, <1>4, <1>5, <1>6 DEF Next, PassStep, PostgresStep
LEMMA SpecTracked == Spec => []Tracked
  BY TrackedInit, TrackedStep, PTL DEF Spec

(* However the rankings overlap, the siblings share and the connection     *)
(* breaks, no text of a key is EXPLAINed a third time                      *)
(* (EachTextAtMostTwice): one retry after a lost connection, or one        *)
(* without PREPARE.                                                        *)
THEOREM NoThirdExplain == Spec => []EachTextAtMostTwice
PROOF
  <1>1. Tracked => EachTextAtMostTwice
    <2> SUFFICES ASSUME Tracked, NEW x \in Digests \X Texts PROVE sent[x] <= 2
      BY DEF EachTextAtMostTwice
    <2>1. PICK d \in Digests, t \in Texts : x = <<d, t>> OBVIOUS
    <2> QED BY <2>1 DEF Tracked, SentTracked
  <1> QED BY <1>1, SpecTracked, PTL

(* When the pass is closed, every statement has its plan or the reason why *)
(* not, unless both rankings stopped at their quota; and siblings have the *)
(* same result (EveryStatementAnswered).                                   *)
THEOREM NoneForgotten == Spec => []EveryStatementAnswered
PROOF
  <1>1. ASSUME Tracked PROVE EveryStatementAnswered
    <2> SUFFICES ASSUME pc = "closed" PROVE EveryStatementAnswered BY DEF EveryStatementAnswered
    <2>1. Told /\ ranking = 3 /\ cut \subseteq {1, 2}
      BY <1>1 DEF Tracked, Told, RankingsTracked, Sound, Typed, PassTypes
    <2>2. ASSUME cut # {1, 2}, NEW d \in Digests PROVE answer[d] # NoAnswer
      <3>0. 1 \notin cut \/ 2 \notin cut BY <2>1, <2>2
      <3>1. PICK r \in 1..2 : r \notin cut BY <3>0
      <3> QED BY <2>1, <2>2, <3>1 DEF Told, RankingsTracked
    <2> QED BY <2>1, <2>2 DEF Told, PlansKnown, EveryStatementAnswered
  <1> QED BY <1>1, SpecTracked, PTL

(* The pass gives a MySQL schema or statement up as lost only after two    *)
(* connections dropped since the attempt before (SingleDropAbsorbed).      *)
THEOREM OneDropIsNotALoss == Spec => SingleDropAbsorbed
PROOF
  <1>1. ASSUME Tracked, [Next]_vars, Loses PROVE drops >= 2
    <2>1. PICK d \in Digests : /\ pc \in {"select", "explain"}
                               /\ answer'[d].err = "lost" /\ answer[d].err # "lost"
      BY <1>1 DEF Loses
    <2>2. answer \in [Digests -> Answers] /\ cur \in Digests /\ answer' # answer
      BY <1>1, <2>1 DEF Tracked, Sound, Typed, PassTypes
    <2>3. ASSUME NEW e \in {"refused", "denied", "failed"},
                 answer' = [answer EXCEPT ![cur].err = e]
          PROVE  FALSE
      <3>1. [answer[cur] EXCEPT !.err = e].err = e BY <2>2, <2>3 DEF Answers
      <3> QED BY <2>1, <2>2, <2>3, <3>1
    <2>4. ASSUME NEW a \in Answers, a.err # "lost", answer' = [answer EXCEPT ![cur] = a] PROVE FALSE
      BY <2>1, <2>2, <2>4
    <2>5. /\ drops \in 0..2 /\ round \in 1..2 /\ tries \in 0..1 /\ engine \in {"mysql", "postgresql"}
          /\ engine = "mysql" => drops >= 2 \/ drops >= round - 1 + tries + Unnoticed
      BY <1>1, <2>1 DEF Tracked, DropsTracked, Retries, Sound, Typed, PassTypes, SessionTypes
    <2>6. engine = "mysql" /\ Connected /\ ~conn.alive /\ (tries = 1 \/ round = 2)
      <3>1. CASE Use
        <4>1. ~Fail("denied") BY <2>3 DEF Fail
        <4>2. Mysql("select") /\ Connected /\ ~conn.alive /\ UseLost
          BY <2>2, <3>1, <4>1 DEF Use, Continue
        <4> QED BY <2>2, <2>5, <4>2 DEF UseLost, Continue, Mysql
      <3>2. CASE Explain
        <4>1. /\ ~Finish([NoAnswer EXCEPT !.err = "failed"])
              /\ ~Finish([NoAnswer EXCEPT !.plan = conn.db])
          <5>1. conn.db \in Databases \cup {Home, NoDatabase}
            BY <1>1 DEF Tracked, Sound, Typed, SessionTypes, Conns
          <5>2. /\ [NoAnswer EXCEPT !.err = "failed"] \in Answers
                /\ [NoAnswer EXCEPT !.err = "failed"].err = "failed"
                /\ [NoAnswer EXCEPT !.plan = conn.db] \in Answers
                /\ [NoAnswer EXCEPT !.plan = conn.db].err = "none"
            BY <5>1 DEF NoAnswer, Answers
          <5> QED BY <2>4, <5>2 DEF Finish
        <4>2. Mysql("explain") /\ ~conn.alive /\ round = 2
          BY <2>2, <3>2, <4>1 DEF Explain, Respell, Executed, ExecuteLost, Continue
        <4> QED BY <1>1, <4>2 DEF Tracked, Sound, MysqlPlaced, Mysql
      <3>3. CASE Pin
        <4>1. ~Fail("refused") BY <2>3 DEF Fail
        <4> QED BY <2>2, <3>3, <4>1 DEF Pin, Continue
      <3>4. CASE Connection
        <4>1. ~Fail("refused") BY <2>3 DEF Fail
        <4> QED BY <2>2, <3>4, <4>1 DEF Connection, Continue
      <3>5. CASE ExplainDirect \/ Take
        <4>1. current \in Databases \cup {NoDatabase}
          BY <1>1 DEF Tracked, Sound, Typed, SessionTypes
        <4>2. /\ [NoAnswer EXCEPT !.err = "failed"] \in Answers
              /\ [NoAnswer EXCEPT !.err = "failed"].err = "failed"
              /\ [NoAnswer EXCEPT !.plan = current] \in Answers
              /\ [NoAnswer EXCEPT !.plan = current].err = "none"
          BY <4>1 DEF NoAnswer, Answers
        <4> QED BY <2>2, <2>4, <3>5, <4>2 DEF ExplainDirect, Take, Finish, Continue
      <3>6. pc # "visit" /\ pc # "close" /\ pc \notin Inner BY <2>1 DEF Inner
      <3> QED
        BY <1>1, <2>2, <3>1, <3>2, <3>3, <3>4, <3>5, <3>6
        DEF Next, PassStep, Pass, GiveUp, Begin, Visits, EndRanking, Close, Drop, SetMode, Prepare,
            Run, Deallocate, Reset, Return, Pg, Inner, vars
    <2>7. Unnoticed = 1 BY <2>6 DEF Unnoticed
    <2> QED BY <2>5, <2>6, <2>7
  <1>2. Tracked /\ [Next]_vars => [Loses => drops >= 2]_vars BY <1>1
  <1> QED BY <1>2, SpecTracked, PTL DEF Spec, SingleDropAbsorbed

----------------------------------------------------------------------------
(* Why the pass ends (PassEnds): how far an attempt can still go, however  *)
(* often the connection breaks.                                            *)
PostgresLeft ==
  [select |-> 10, explain |-> 9, set |-> 8, prepare |-> 7, run |-> 6, deallocate |-> 5,
   reset |-> 4, return |-> 3, direct |-> 2]
MysqlLeft ==
  2 + 7 * (2 - round) + 2 * (1 - tries)
    + (IF pc = "explain" THEN 3 - text ELSE IF Connected THEN 3 ELSE 4)
StepsLeft ==
  IF pc = "closed" THEN 0 ELSE IF pc \in {"visit", "close"} THEN 1
  ELSE IF engine = "mysql" THEN MysqlLeft ELSE PostgresLeft[pc]
Advances ==
  \/ ranking < ranking' /\ ranking' <= 3
  \/ ranking' = ranking /\ todo' \subseteq todo /\ todo' # todo
  \/ ranking' = ranking /\ todo' = todo /\ StepsLeft \in Nat /\ StepsLeft' \in Nat /\ StepsLeft' < StepsLeft

LEMMA VisitsAdvance ==
  ASSUME Sound, (\E d \in Digests : Pass(d) \/ GiveUp(d) \/ Begin(d)) \/ EndRanking \/ Close
  PROVE  Advances
PROOF
  <1>1. ASSUME NEW d \in Digests, Pass(d) \/ GiveUp(d) \/ Begin(d) PROVE Advances
    <2>1. d \in todo /\ todo' = todo \ {d} /\ ranking' = ranking
      BY <1>1 DEF Pass, GiveUp, Begin, Visits
    <2> QED BY <2>1 DEF Advances
  <1>2. CASE EndRanking
    <2>1. ranking \in 1..2 /\ ranking' = ranking + 1
      BY <1>2 DEF EndRanking, Sound, Typed, PassTypes
    <2> QED BY <2>1 DEF Advances
  <1>3. CASE Close
    <2>1. StepsLeft = 1 /\ StepsLeft' = 0 BY <1>3 DEF Close, StepsLeft
    <2> QED BY <1>3, <2>1 DEF Close, rankVars, Advances
  <1> QED BY <1>1, <1>2, <1>3

(* The steps left during an attempt that goes on, and when it ends.        *)
LEMMA AttemptAdvances ==
  ASSUME Sound, ranking' = ranking, todo' = todo, Attempting,
         StepsLeft \in Nat, StepsLeft >= 2,
         pc' = "visit" \/ (StepsLeft' \in Nat /\ StepsLeft' < StepsLeft)
  PROVE  Advances
PROOF
  <1>1. CASE pc' = "visit"
    <2>1. StepsLeft' = 1 BY <1>1 DEF StepsLeft
    <2> QED BY <2>1 DEF Advances
  <1>2. CASE StepsLeft' \in Nat /\ StepsLeft' < StepsLeft BY <1>2 DEF Advances
  <1> QED BY <1>1, <1>2

LEMMA MysqlAdvances == ASSUME Sound, Pin \/ Use \/ Explain PROVE Advances
PROOF
  <1>1. /\ engine = "mysql" /\ Attempting /\ UNCHANGED engine /\ pc' \in {"visit", "select", "explain"}
        /\ pc \in {"select", "explain"} /\ round \in 1..2 /\ tries \in 0..1 /\ text \in 1..3
    BY MysqlOutcome DEF Pin, Use, Explain, Mysql, Sound, Typed, SessionTypes, Texts
  <1>2. ranking' = ranking /\ todo' = todo
    BY DEF Pin, Use, UseLost, Explain, Respell, Executed, Fail, Continue, Finish, rankVars
  <1>3. StepsLeft = MysqlLeft /\ StepsLeft \in Nat /\ StepsLeft >= 2
    <2>1. MysqlLeft \in Nat /\ MysqlLeft >= 2 BY <1>1 DEF MysqlLeft
    <2> QED BY <1>1, <2>1 DEF StepsLeft
  <1>4. ASSUME pc' # "visit", MysqlLeft' \in Nat, MysqlLeft' < MysqlLeft PROVE Advances
    <2>1. StepsLeft' = MysqlLeft' BY <1>1, <1>4 DEF StepsLeft
    <2> QED BY <1>1, <1>2, <1>3, <1>4, <2>1, AttemptAdvances
  <1>5. ASSUME pc' = "visit" PROVE Advances BY <1>1, <1>2, <1>3, <1>5, AttemptAdvances
  <1>6. CASE Pin /\ pc' # "visit"
    <2>1. /\ pc = "select" /\ ~Connected /\ conn' = Opened(Home, {}) /\ UNCHANGED <<pc, round, tries>>
      BY <1>6 DEF Pin, Mysql, Fail, mysqlVars, useVars
    <2>2. Connected' BY <2>1, ConnTypes DEF Connected
    <2> QED BY <1>1, <1>4, <1>6, <2>1, <2>2 DEF MysqlLeft
  <1>7. CASE Use /\ pc' # "visit"
    <2>1. pc = "select" /\ Connected /\ round' = round BY <1>7 DEF Use, Mysql
    <2>2. CASE pc' = "explain" /\ tries' = tries /\ text' \in 1..3
      <3>1. MysqlLeft = 2 + 7 * (2 - round) + 2 * (1 - tries) + 3 BY <1>1, <2>1 DEF MysqlLeft
      <3>2. MysqlLeft' = 2 + 7 * (2 - round) + 2 * (1 - tries) + (3 - text')
        BY <1>1, <2>1, <2>2 DEF MysqlLeft
      <3>3. \A r \in 1..2, u \in 0..1, t \in 1..3 :
              LET left == 2 + 7 * (2 - r) + 2 * (1 - u)
              IN  left + (3 - t) \in Nat /\ left + (3 - t) < left + 3
        OBVIOUS
      <3>4. MysqlLeft' \in Nat /\ MysqlLeft' < MysqlLeft BY <1>1, <2>2, <3>1, <3>2, <3>3
      <3> QED BY <1>4, <2>2, <3>4
    <2>3. CASE tries = 0 /\ tries' = 1 /\ pc' = pc BY <1>1, <1>4, <2>1, <2>3 DEF MysqlLeft
    <2> QED BY <1>1, <1>7, <2>2, <2>3 DEF Use, UseLost, Fail
  <1>8. CASE Explain /\ pc' # "visit"
    <2>1. CASE pc = "explain" /\ round = 1 /\ round' = 2 /\ tries' = 0 /\ pc' = "select"
      BY <1>1, <1>4, <2>1 DEF MysqlLeft
    <2>2. CASE pc = "explain" /\ pc' = pc /\ UNCHANGED <<round, tries>> /\ text < 3 /\ text' = text + 1
      BY <1>1, <1>4, <2>2 DEF MysqlLeft
    <2> QED
      BY <1>8, <2>1, <2>2 DEF Explain, Respell, Executed, ExecuteLost, Mysql, Finish, useVars
  <1> QED BY <1>5, <1>6, <1>7, <1>8

LEMMA PostgresAdvances == ASSUME Sound, PostgresStep PROVE Advances
PROOF
  <1>1. /\ engine = "postgresql" /\ pc \in DOMAIN PostgresLeft /\ Attempting
    BY DEF PostgresStep, Connection, ExplainDirect, Take, SetMode, Prepare, Run, Deallocate,
           Reset, Return, Pg, Attempting, PostgresLeft
  <1>2. ranking' = ranking /\ todo' = todo /\ engine' = engine
    BY DEF PostgresStep, Connection, ExplainDirect, Take, SetMode, Prepare, Run, Deallocate,
           Reset, Return, Step, Undo, Continue, Finish, Fail, rankVars
  <1>3. \/ pc' = "visit"
        \/ pc = "select" /\ pc' = "explain"
        \/ pc = "explain" /\ pc' = "set"
        \/ pc = "set" /\ pc' \in {"prepare", "return"}
        \/ pc = "prepare" /\ pc' \in {"run", "reset"}
        \/ pc = "run" /\ pc' = "deallocate"
        \/ pc = "deallocate" /\ pc' = "reset"
        \/ pc = "reset" /\ pc' = "return"
        \/ pc = "return" /\ pc' = "direct"
    BY DEF PostgresStep, Connection, ExplainDirect, Take, SetMode, Prepare, Run, Deallocate,
           Reset, Return, Step, Undo, Continue, Finish, Fail, Pg
  <1>4. pc \notin {"visit", "close", "closed"} BY <1>1 DEF PostgresLeft
  <1>5. StepsLeft = PostgresLeft[pc] /\ StepsLeft \in Nat /\ StepsLeft >= 2
    BY <1>1, <1>4 DEF StepsLeft, PostgresLeft
  <1>6. CASE pc' # "visit"
    <2>1. /\ pc' \notin {"visit", "close", "closed"}
          /\ PostgresLeft[pc'] \in Nat /\ PostgresLeft[pc'] < PostgresLeft[pc]
      BY <1>3, <1>6 DEF PostgresLeft
    <2>2. StepsLeft' = PostgresLeft[pc'] BY <1>1, <1>2, <2>1 DEF StepsLeft, PostgresLeft
    <2> QED BY <1>1, <1>2, <1>5, <2>1, <2>2, AttemptAdvances
  <1>7. CASE pc' = "visit" BY <1>1, <1>2, <1>5, <1>7, AttemptAdvances
  <1> QED BY <1>6, <1>7

LEMMA DropHolds == ASSUME Sound, Drop PROVE UNCHANGED <<ranking, todo, StepsLeft>>
PROOF
  <1>1. /\ UNCHANGED <<ranking, todo, engine, pc, round, tries, text>>
        /\ conn # NoConn /\ conn' = [conn EXCEPT !.alive = FALSE] /\ conn.alive
    BY DEF Drop, Connected, rankVars, mysqlVars, useVars
  <1>2. Sound' BY OtherSound
  <1>3. Connected' <=> Connected
    <2>1. CASE engine = "mysql"
      <3>1. conn.db # NoDatabase BY <1>1, <2>1 DEF Sound, MysqlPlaced, Connected
      <3>2. conn'.db # NoDatabase BY <1>1, <3>1 DEF Sound, Typed, SessionTypes, Conns
      <3> QED BY <1>1, <3>2 DEF Connected, NoConn
    <2>2. CASE engine = "postgresql"
      <3>1. pc \in Inner /\ pc' \in Inner BY <1>1, <2>2 DEF Sound, PostgresPlaced, Connected
      <3> QED BY <1>1, <1>2, <2>2, <3>1 DEF Sound, PostgresPlaced
    <2> QED BY <2>1, <2>2 DEF Sound, Typed, PassTypes
  <1> QED BY <1>1, <1>3 DEF StepsLeft, MysqlLeft

(* Every step of the pass leads on: to the next ranking, to a statement    *)
(* fewer, or nearer to the end of the attempt; and a dropped connection    *)
(* sets nothing back.  With finitely many statements no pass can go on for *)
(* ever, which is the reason for PassEnds.                                 *)
THEOREM EveryStepAdvances ==
  Spec => [][(PassStep => Advances) /\ (Drop => UNCHANGED <<ranking, todo, StepsLeft>>)]_vars
PROOF
  <1>1. Sound /\ PassStep => Advances
    BY VisitsAdvance, MysqlAdvances, PostgresAdvances DEF PassStep, PostgresStep
  <1>2. Sound /\ Drop => UNCHANGED <<ranking, todo, StepsLeft>> BY DropHolds
  <1>3. Sound /\ [Next]_vars =>
          [(PassStep => Advances) /\ (Drop => UNCHANGED <<ranking, todo, StepsLeft>>)]_vars
    BY <1>1, <1>2
  <1> QED BY <1>3, SpecSound, PTL DEF Spec
====
