---- MODULE ExplainPass ----
(***************************************************************************)
(* One pass over the collected statements that EXPLAINs the slowest ones   *)
(* (utils/explain_collection_state.go; CollectExplain in metrics/mysql,    *)
(* collectExplainDetails in metrics/postgresql).  The statements are       *)
(* ranked twice, by total and by mean time, each ranking with a quota of   *)
(* plans.  MySQL pins one connection and switches it with USE; PostgreSQL  *)
(* leases a pooled handle per database and prepares the statement on a     *)
(* connection of it.  The server may drop a connection at any time.        *)
(*                                                                         *)
(* Digests are the statements that pass the filters for system schemas,    *)
(* exclusions, truncated and old statements.  PostgreSQL rows of the same  *)
(* statement at different execution levels are siblings: they share a key. *)
(***************************************************************************)
EXTENDS Naturals, FiniteSets

CONSTANTS
  Engines,      \* databases the agent may serve: "mysql", "postgresql"
  Digests,      \* statements eligible for EXPLAIN
  Databases,
  DatabaseOf,   \* the statement's schema (MySQL) or database (PostgreSQL)
  KeyOf,        \* a representative of the PostgreSQL siblings of a statement
  Quota,        \* plans per ranking
  Home,         \* default database of a new MySQL connection
  NoDatabase,
  NoDigest

ASSUME EnginesAssumption == Engines \subseteq {"mysql", "postgresql"}
ASSUME DigestsAssumption ==
  /\ DatabaseOf \in [Digests -> Databases]
  /\ KeyOf \in [Digests -> Digests]
  /\ \A d \in Digests : KeyOf[KeyOf[d]] = KeyOf[d] /\ DatabaseOf[KeyOf[d]] = DatabaseOf[d]
ASSUME QuotaAssumption == Quota \in Nat
ASSUME NoneAssumption ==
  Home \notin Databases /\ NoDatabase \notin Databases \cup {Home} /\ NoDigest \notin Digests

VARIABLES
  engine,      \* fixed for the life of the agent
  ranking,     \* 1, 2, then 3
  todo,        \* statements this ranking has not visited
  successes,   \* plans this ranking obtained
  cut,         \* rankings that stopped at their quota
  answer,      \* per statement: its plan and its explain_error
  known,       \* PostgreSQL: the ranking's results, per key
  attempted,   \* ExplainCollectionState: keys begun
  failed,      \* ExplainCollectionState: failedDatabases and their reasons
  pc, cur,     \* where the pass is, with which statement
  got,         \* what the EXPLAIN of cur produced so far
  round,       \* MySQL: 1, or 2 after the connection broke in an EXPLAIN
  tries,       \* MySQL: attempts of useExplainSchema
  opened,      \* MySQL: sessionDB is open
  dead,        \* MySQL: sessionErr is set
  selected,    \* MySQL: SessionDatabase
  text,        \* MySQL: which of Texts ExecuteExplain tries next
  current,     \* PostgreSQL: database of the lease
  leases,      \* PostgreSQL: handles acquired and not released
  dirty,       \* PostgreSQL: sessionDirty
  conn,        \* the driver connection the pass talks to
  leaked,      \* what connections given back to their handles carry
  drops,       \* connections lost since the last attempt ended, up to 2
  sent         \* EXPLAINs issued per key and text, up to 3

rankVars  == <<engine, ranking, todo, successes, cut>>
stateVars == <<attempted, failed>>
useVars   == <<round, tries, opened, dead, selected>>
mysqlVars == <<useVars, text>>
pgVars    == <<current, leases, dirty, leaked>>
vars == <<rankVars, answer, known, stateVars, pc, cur, got, mysqlVars, pgVars, conn, drops, sent>>

(* ExecuteExplain's texts: the statement, then with ' and then with a      *)
(* backquote for every double quote.  PostgreSQL has only the first.       *)
Texts == 1..3

NoAnswer == [plan |-> NoDatabase, err |-> "none"]
NoConn == [db |-> NoDatabase, alive |-> FALSE, left |-> {}]
Opened(db, left) == [db |-> db, alive |-> TRUE, left |-> left]
Connected == conn # NoConn
Key(d) == IF engine = "postgresql" THEN KeyOf[d] ELSE d
Mysql(step) == engine = "mysql" /\ pc = step
Pg(step) == engine = "postgresql" /\ pc = step

Init ==
  /\ engine \in Engines
  /\ ranking = 1 /\ todo = Digests /\ successes = 0 /\ cut = {}
  /\ answer = [d \in Digests |-> NoAnswer] /\ known = answer
  /\ attempted = {} /\ failed = [db \in Databases |-> "no"]
  /\ pc = "visit" /\ cur = NoDigest /\ got = NoAnswer
  /\ round = 1 /\ tries = 0 /\ opened = FALSE /\ dead = FALSE /\ selected = NoDatabase /\ text = 1
  /\ current = NoDatabase /\ leases = 0 /\ dirty = FALSE /\ leaked = {}
  /\ conn = NoConn /\ drops = 0 /\ sent = [x \in Digests \X Texts |-> 0]

----------------------------------------------------------------------------
(* The loop over one ranking.  Visiting in any order covers every order of *)
(* the execution times, ties included.                                     *)

Failed(d) == failed[DatabaseOf[d]] # "no"
Answered(d) == IF engine = "mysql" THEN answer[d] # NoAnswer ELSE known[KeyOf[d]] # NoAnswer
Visits(d) == pc = "visit" /\ ranking < 3 /\ successes < Quota /\ d \in todo

(* PostgreSQL looks at the failed databases first, MySQL at what it knows. *)
Pass(d) ==
  /\ Visits(d)
  /\ IF engine = "mysql" THEN Answered(d) \/ (~Failed(d) /\ Key(d) \in attempted)
                         ELSE ~Failed(d) /\ (Answered(d) \/ Key(d) \in attempted)
  /\ todo' = todo \ {d}
  /\ UNCHANGED <<engine, ranking, successes, cut, answer, known, stateVars, pc, cur, got,
                 mysqlVars, pgVars, conn, drops, sent>>

GiveUp(d) ==
  /\ Visits(d) /\ Failed(d) /\ (engine = "mysql" => ~Answered(d))
  /\ todo' = todo \ {d}
  /\ answer' = [answer EXCEPT ![d].err = failed[DatabaseOf[d]]]
  /\ UNCHANGED <<engine, ranking, successes, cut, known, stateVars, pc, cur, got,
                 mysqlVars, pgVars, conn, drops, sent>>

Begin(d) ==
  /\ Visits(d) /\ ~Failed(d) /\ ~Answered(d) /\ Key(d) \notin attempted
  /\ todo' = todo \ {d} /\ attempted' = attempted \cup {Key(d)}
  /\ cur' = d /\ pc' = "select" /\ got' = NoAnswer /\ round' = 1 /\ tries' = 0
  /\ UNCHANGED <<engine, ranking, successes, cut, answer, known, failed,
                 opened, dead, selected, text, pgVars, conn, drops, sent>>

(* The attempt of cur is over.  A plan and an error may come together.     *)
Finish(a) ==
  /\ answer' = [answer EXCEPT ![cur] = a]
  /\ known' = IF engine = "mysql" THEN known ELSE [known EXCEPT ![KeyOf[cur]] = a]
  /\ successes' = IF a.plan # NoDatabase THEN successes + 1 ELSE successes
  /\ pc' = "visit" /\ drops' = 0
  /\ UNCHANGED <<engine, ranking, todo, cut, stateVars, cur, got>>

(* The database of cur is out for the rest of the pass.                    *)
Fail(reason) ==
  /\ failed' = [failed EXCEPT ![DatabaseOf[cur]] = reason]
  /\ answer' = [answer EXCEPT ![cur].err = reason]
  /\ pc' = "visit" /\ drops' = 0
  /\ UNCHANGED <<rankVars, known, attempted, cur, got>>

Continue == UNCHANGED <<rankVars, answer, known, stateVars, cur, drops>>

(* The end of a ranking.  PostgreSQL fills every sibling of a result; the  *)
(* next ranking starts from the answers there are.                         *)
(* Broken: only the rows this ranking visited are filled.                  *)
FilledVisited ==
  IF engine = "mysql" THEN answer
  ELSE [d \in Digests |-> IF known[KeyOf[d]] # NoAnswer /\ d \notin todo
                            THEN known[KeyOf[d]] ELSE answer[d]]
Filled ==
  IF engine = "mysql" THEN answer
  ELSE [d \in Digests |-> IF known[KeyOf[d]] # NoAnswer THEN known[KeyOf[d]] ELSE answer[d]]
Carried(ans, k) == {ans[d] : d \in {e \in Digests : KeyOf[e] = k}} \ {NoAnswer}
Start(ans) ==
  {f \in [Digests -> {ans[d] : d \in Digests} \cup {NoAnswer}] :
     \A k \in Digests : f[k] \in (IF Carried(ans, k) = {} THEN {NoAnswer} ELSE Carried(ans, k))}
EndRanking ==
  /\ pc = "visit" /\ ranking < 3 /\ (todo = {} \/ successes >= Quota)
  /\ answer' = Filled
  /\ IF engine = "mysql" THEN known' = known ELSE known' \in Start(Filled)
  /\ cut' = IF todo = {} THEN cut ELSE cut \cup {ranking}
  /\ ranking' = ranking + 1 /\ todo' = Digests /\ successes' = 0
  /\ pc' = IF ranking = 2 THEN "close" ELSE "visit"
  /\ UNCHANGED <<engine, stateVars, cur, got, mysqlVars, pgVars, conn, drops, sent>>

----------------------------------------------------------------------------
(* MySQL: Session, useExplainSchema and ExecuteExplain on one connection.  *)

(* Broken: the new connection is taken to have the old default database.   *)
ResetSessionKeepsName == conn' = NoConn /\ UNCHANGED selected

ResetSession == conn' = NoConn /\ selected' = NoDatabase

(* A failed connect is cached, a failed pin is not.                        *)
Pin ==
  /\ Mysql("select") /\ ~Connected
  /\ \/ /\ dead \/ ~opened
        /\ dead' = TRUE /\ Fail("refused") /\ UNCHANGED <<opened, conn>>
     \/ /\ ~dead /\ opened' = TRUE /\ Fail("refused") /\ UNCHANGED <<dead, conn>>
     \/ /\ ~dead /\ opened' = TRUE /\ conn' = Opened(Home, {})
        /\ Continue /\ UNCHANGED <<dead, pc, got>>
  /\ UNCHANGED <<round, tries, selected, text, pgVars, sent>>

(* USE finds the connection lost: it is tried once more on a new one.      *)
(* Broken: a lost connection fails the schema at once.                     *)
UseLostOnce == UNCHANGED tries /\ Fail("lost")
UseLost ==
  IF tries = 0 THEN tries' = 1 /\ Continue /\ UNCHANGED <<pc, got>>
               ELSE UNCHANGED tries /\ Fail("lost")

(* USE is skipped for the schema selected last, or refused by the server.  *)
Use ==
  /\ Mysql("select") /\ Connected
  /\ \/ /\ selected = DatabaseOf[cur] /\ pc' = "explain"
        /\ Continue /\ UNCHANGED <<conn, selected, tries, got>>
     \/ /\ selected # DatabaseOf[cur] /\ conn.alive
        /\ conn' = [conn EXCEPT !.db = DatabaseOf[cur]] /\ selected' = DatabaseOf[cur]
        /\ pc' = "explain" /\ Continue /\ UNCHANGED <<tries, got>>
     \/ /\ selected # DatabaseOf[cur] /\ conn.alive
        /\ Fail("denied") /\ UNCHANGED <<conn, selected, tries>>
     \/ selected # DatabaseOf[cur] /\ ~conn.alive /\ ResetSession /\ UseLost
  /\ UNCHANGED <<round, opened, dead, text, pgVars, sent>>

Sends == sent' = [sent EXCEPT ![<<Key(cur), text>>] = IF @ < 3 THEN @ + 1 ELSE @]

(* Any error but a denied permission, also the loss of the connection,     *)
(* leads to the next text; what the last one meets counts.                 *)
Respell == text < 3 /\ text' = text + 1 /\ Continue /\ UNCHANGED <<pc, got, conn, useVars>>
Executed ==
  /\ conn.alive /\ text' = 1 /\ UNCHANGED <<conn, useVars>>
  /\ \E a \in {[NoAnswer EXCEPT !.plan = conn.db], [NoAnswer EXCEPT !.err = "failed"]} : Finish(a)
ExecuteLost == text = 3 /\ ~conn.alive /\ text' = 1 /\ ResetSession /\ UNCHANGED <<opened, dead>>

(* Broken: an EXPLAIN that loses its connection is retried every time.     *)
ExplainForever ==
  /\ Mysql("explain") /\ Sends /\ UNCHANGED pgVars
  /\ \/ Respell \/ Executed
     \/ ExecuteLost /\ round' = round /\ tries' = 0 /\ pc' = "select" /\ Continue /\ UNCHANGED got

Explain ==
  /\ Mysql("explain") /\ Sends /\ UNCHANGED pgVars
  /\ \/ Respell \/ Executed
     \/ /\ ExecuteLost /\ round = 1
        /\ round' = 2 /\ tries' = 0 /\ pc' = "select" /\ Continue /\ UNCHANGED got
     \/ /\ ExecuteLost /\ round = 2
        /\ Finish([NoAnswer EXCEPT !.err = "lost"]) /\ UNCHANGED <<round, tries>>

----------------------------------------------------------------------------
(* PostgreSQL: Connection and ExecuteExplain.                              *)

Held == IF current = NoDatabase THEN 0 ELSE 1

(* releaseCurrent, and acquiring the next lease.                           *)
SwitchLease(db) ==
  current' = db /\ leases' = leases - Held + (IF db = NoDatabase THEN 0 ELSE 1)
Connection ==
  /\ Pg("select")
  /\ \/ /\ current = DatabaseOf[cur] /\ UNCHANGED <<current, leases>>
        /\ pc' = "explain" /\ Continue /\ UNCHANGED got
     \/ /\ current # DatabaseOf[cur] /\ SwitchLease(DatabaseOf[cur])
        /\ pc' = "explain" /\ Continue /\ UNCHANGED got
     \/ current # DatabaseOf[cur] /\ SwitchLease(NoDatabase) /\ Fail("refused")
  /\ UNCHANGED <<mysqlVars, dirty, leaked, conn, sent>>

(* A statement without parameters, or the fallback with NULLs for them:    *)
(* one EXPLAIN in a transaction of its own.                                *)
ExplainDirect ==
  /\ Pg("explain") \/ Pg("direct")
  /\ Sends
  /\ \E a \in {[NoAnswer EXCEPT !.plan = current], [NoAnswer EXCEPT !.err = "failed"]} : Finish(a)
  /\ UNCHANGED <<mysqlVars, pgVars, conn>>

(* executePreparedExplain.  Step(ok, after) goes on to ok, or to "after"   *)
(* with the error when the server refuses or the connection is lost.       *)
Leftovers == {"mode", "stmt"}
Step(add, next, after) ==
  /\ \/ /\ conn.alive
        /\ conn' = [conn EXCEPT !.left = @ \cup {add}] /\ pc' = next /\ UNCHANGED got
     \/ /\ got' = [got EXCEPT !.err = "failed"] /\ pc' = after /\ UNCHANGED conn
  /\ Continue /\ UNCHANGED <<mysqlVars, pgVars, sent>>

Take ==
  /\ Pg("explain")
  /\ \/ /\ \E left \in {{}, leaked} : conn' = Opened(current, left)
        /\ pc' = "set" /\ dirty' = FALSE /\ Continue /\ UNCHANGED got
     \/ Finish([NoAnswer EXCEPT !.err = "failed"]) /\ UNCHANGED <<conn, dirty>>
  /\ UNCHANGED <<mysqlVars, current, leases, leaked, sent>>
SetMode == Pg("set") /\ Step("mode", "prepare", "return")
Prepare == Pg("prepare") /\ Step("stmt", "run", "reset")
Run ==
  /\ Pg("run") /\ Sends /\ pc' = "deallocate"
  /\ \/ conn.alive /\ got' = [got EXCEPT !.plan = conn.db]
     \/ got' = [got EXCEPT !.err = "failed"]
  /\ Continue /\ UNCHANGED <<mysqlVars, pgVars, conn>>

(* The deferred clean-up, on every path.                                   *)
(* Broken: a failed clean-up is only reported.                             *)
UndoReported(what, next) ==
  /\ \/ conn.alive /\ conn' = [conn EXCEPT !.left = @ \ {what}] /\ UNCHANGED <<got, dirty>>
     \/ got' = [got EXCEPT !.err = "failed"] /\ UNCHANGED <<conn, dirty>>
  /\ pc' = next /\ Continue
  /\ UNCHANGED <<mysqlVars, current, leases, leaked, sent>>
Undo(what, next) ==
  /\ \/ conn.alive /\ conn' = [conn EXCEPT !.left = @ \ {what}] /\ UNCHANGED <<got, dirty>>
     \/ got' = [got EXCEPT !.err = "failed"] /\ dirty' = TRUE /\ UNCHANGED conn
  /\ pc' = next /\ Continue
  /\ UNCHANGED <<mysqlVars, current, leases, leaked, sent>>
Deallocate == Pg("deallocate") /\ Undo("stmt", "reset")
Reset == Pg("reset") /\ Undo("mode", "return")

(* A dirty or lost connection is discarded, any other one given back.  An  *)
(* error of the parameters' types is retried without PREPARE.              *)
Return ==
  /\ Pg("return")
  /\ conn' = NoConn /\ dirty' = FALSE
  /\ leaked' = IF dirty \/ ~conn.alive THEN leaked ELSE leaked \cup conn.left
  /\ \/ Finish(got)
     \/ /\ got.plan = NoDatabase /\ got.err = "failed"
        /\ pc' = "direct" /\ Continue /\ UNCHANGED got
  /\ UNCHANGED <<mysqlVars, current, leases, sent>>

----------------------------------------------------------------------------
(* ExplainCollectionState.Close, deferred by the pass.                     *)
Close ==
  /\ pc = "close" /\ pc' = "closed"
  /\ SwitchLease(NoDatabase)
  /\ conn' = NoConn /\ opened' = FALSE
  /\ UNCHANGED <<rankVars, answer, known, stateVars, cur, got, round, tries, dead, selected, text,
                 dirty, leaked, drops, sent>>

(* The server, a proxy or the network ends the connection (external).      *)
Drop ==
  /\ Connected /\ conn.alive
  /\ conn' = [conn EXCEPT !.alive = FALSE]
  /\ drops' = IF drops < 2 THEN drops + 1 ELSE drops
  /\ UNCHANGED <<rankVars, answer, known, stateVars, pc, cur, got, mysqlVars, pgVars, sent>>

PassStep ==
  \/ \E d \in Digests : Pass(d) \/ GiveUp(d) \/ Begin(d)
  \/ EndRanking \/ Close
  \/ Pin \/ Use \/ Explain
  \/ Connection \/ ExplainDirect \/ Take \/ SetMode \/ Prepare \/ Run
  \/ Deallocate \/ Reset \/ Return
Next == PassStep \/ Drop

(* The pass is one goroutine; each of its commands ends, with an answer or *)
(* with the loss of the connection.                                        *)
Spec == Init /\ [][Next]_vars /\ WF_vars(PassStep)

----------------------------------------------------------------------------
(* The types of the state.                                                 *)
Reasons == {"refused", "denied", "lost"}
Answers == [plan : Databases \cup {Home, NoDatabase}, err : {"none", "failed"} \cup Reasons]
Conns == [db : Databases \cup {Home, NoDatabase}, alive : BOOLEAN, left : SUBSET Leftovers]
Steps == {"visit", "select", "explain", "direct", "set", "prepare", "run",
          "deallocate", "reset", "return", "close", "closed"}
TypeOK ==
  /\ engine \in Engines /\ ranking \in 1..3 /\ todo \subseteq Digests
  /\ successes \in Nat /\ cut \subseteq {1, 2}
  /\ answer \in [Digests -> Answers] /\ known \in [Digests -> Answers]
  /\ attempted \subseteq Digests /\ failed \in [Databases -> Reasons \cup {"no"}]
  /\ pc \in Steps /\ cur \in Digests \cup {NoDigest} /\ got \in Answers
  /\ (pc \notin {"visit", "close", "closed"} => cur \in Digests)
  /\ round \in 1..2 /\ tries \in 0..1 /\ opened \in BOOLEAN /\ dead \in BOOLEAN
  /\ selected \in Databases \cup {NoDatabase} /\ current \in Databases \cup {NoDatabase}
  /\ leases \in Nat /\ dirty \in BOOLEAN /\ leaked \subseteq Leftovers
  /\ text \in Texts /\ conn \in Conns /\ drops \in 0..2 /\ sent \in [Digests \X Texts -> 0..3]

(* A plan is made in the statement's own schema or database: not in the    *)
(* schema of an earlier statement, nor in the default one of a connection  *)
(* that replaced a lost one ("a new connection has none",                  *)
(* explain_collection_state.go:34).                                        *)
ExplainedInItsDatabase ==
  \A d \in Digests : answer[d].plan \in {NoDatabase, DatabaseOf[d]}

(* No text of a statement is EXPLAINed more than twice in a pass (once     *)
(* more after a lost connection, or without PREPARE), whatever both        *)
(* rankings and its siblings do: MySQL gets six EXPLAINs of a statement at *)
(* most, three texts twice.                                                *)
EachTextAtMostTwice == \A x \in Digests \X Texts : sent[x] <= 2

(* Every statement ends with a plan or the reason why it has none, unless  *)
(* both rankings stopped at their quota; and siblings end with one result, *)
(* also those beyond the quota ("Fill every sibling",                      *)
(* metrics/postgresql/explain.go:73).                                      *)
EveryStatementAnswered ==
  pc = "closed" =>
    /\ cut # {1, 2} => \A d \in Digests : answer[d] # NoAnswer
    /\ engine = "postgresql" => \A a, b \in Digests :
         KeyOf[a] = KeyOf[b] /\ answer[a].plan # NoDatabase => answer[b] = answer[a]

(* One dropped connection costs MySQL neither a schema nor a plan: it is   *)
(* lost on two connections or more before the pass gives up ("so one       *)
(* dropped connection does not fail every later schema",                   *)
(* metrics/mysql/dbCollectQueries.go:619).                                 *)
Loses == \E d \in Digests : pc \in {"select", "explain"} /\ answer'[d].err = "lost"
                                                      /\ answer[d].err # "lost"
SingleDropAbsorbed == [][Loses => drops >= 2]_vars

(* A connection that goes back to its handle, which other gatherers use,   *)
(* carries no prepared statement and no plan_cache_mode.                   *)
CleanSessions == leaked = {}

(* The pass holds one lease at most, and none once it is closed, so that   *)
(* the pool can evict all other handles.                                   *)
OneLease == leases <= 1 /\ (pc = "closed" => leases = 0 /\ ~Connected)

(* The pass ends however often the server drops the connection.            *)
PassEnds == <>(pc = "closed")
====
