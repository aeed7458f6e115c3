--------------------------- MODULE ConnectionPool ---------------------------
(***************************************************************************)
(* utils/database_connection_pool.go: the pool of *sql.DB handles shared   *)
(* by every PostgreSQL gatherer, one handle per database name, at most     *)
(* Max of them, least recently used evicted first.                         *)
(*                                                                         *)
(* A caller is a goroutine inside Acquire, Pin or a released lease.  Every *)
(* section of the code under pool.mu is one action; connect() runs outside *)
(* the mutex and is the gap between Acquire and Connected.  An entry of    *)
(* the pool (pooledDatabase) wraps exactly one handle, so the fields of    *)
(* the entry are functions of the handle.                                  *)
(***************************************************************************)
EXTENDS Naturals, FiniteSets

CONSTANTS Callers,     \* goroutines that use the pool
          Pinners,     \* the callers that use Pin rather than Acquire
          Databases,   \* database names
          Handles,     \* *sql.DB values connect() may return, each one once
          NoHandle,    \* nil
          NoDatabase,  \* the zero value of pooledDatabase.database
          Max          \* pool.max

ASSUME PoolAssumption ==
    /\ IsFiniteSet(Callers)
    /\ IsFiniteSet(Handles)
    /\ Pinners \subseteq Callers
    /\ NoHandle \notin Handles
    /\ NoDatabase \notin Databases
    /\ Max \in Nat \ {0}

VARIABLES
    closed,     \* pool.closed
    handleOf,   \* pool.databases
    order,      \* pool.order: <<g, h>> when g is h or is in front of h
    database,   \* entry.database
    refs,       \* entry.refs
    evicted,    \* the handles whose entry.evicted is set
    pinned,     \* the handles whose entry.pinned is set
    opened,     \* handles connect() has returned
    closes,     \* how often db.Close() ran on a handle
    pc,         \* where each caller is
    target,     \* the database of a caller's current call
    holds       \* the handle a caller has in hand

poolVars   == <<closed, handleOf, order, database, refs, evicted, pinned>>
handleVars == <<opened, closes>>
callerVars == <<pc, target, holds>>
vars       == <<poolVars, handleVars, callerVars>>

\* idle       outside the pool
\* connecting in connect(), the mutex released
\* connected  connect() returned a handle the pool does not know yet
\* using      between Acquire and release
\* pinning    in Pin, before the entry is marked
\* unpinning  in Pin, marked, before release
\* sharing    Pin returned; the handle is used without a lease
Steps == {"idle", "connecting", "connected", "using", "pinning", "unpinning", "sharing"}

Leasing == {"using", "pinning", "unpinning"}
Lessees(h) == {c \in Callers : pc[c] \in Leasing /\ holds[c] = h}

Open == {h \in opened : closes[h] = 0}

TypeOK ==
    /\ closed \in BOOLEAN
    /\ handleOf \in [Databases -> Handles \cup {NoHandle}]
    /\ order \in SUBSET (Handles \X Handles)
    /\ database \in [Handles -> Databases \cup {NoDatabase}]
    /\ refs \in [Handles -> Nat]
    /\ evicted \in SUBSET Handles
    /\ pinned \in SUBSET Handles
    /\ opened \in SUBSET Handles
    /\ closes \in [Handles -> Nat]
    /\ pc \in [Callers -> Steps]
    /\ target \in [Callers -> Databases \cup {NoDatabase}]
    /\ holds \in [Callers -> Handles \cup {NoHandle}]

-----------------------------------------------------------------------------
(* The list of entries, most recently used in front. *)

Listed(ord) == {h \in Handles : <<h, h>> \in ord}

\* order.MoveToFront and order.PushFront
ToFront(ord, h) ==
    {p \in ord : p[1] # h /\ p[2] # h} \cup {<<h, g>> : g \in Listed(ord) \cup {h}}

\* order.Remove, for every handle of gone
Without(ord, gone) == {p \in ord : p[1] \notin gone /\ p[2] \notin gone}

\* the handles of S that an iteration from Back() meets before h
Behind(ord, h, S) == {g \in S : g # h /\ <<h, g>> \in ord}

\* the one entry evictIdle picks: the least recently used idle one, if any
IdleVictims(ord) ==
    LET idle == {h \in Listed(ord) : h \notin pinned /\ refs[h] = 0}
    IN  {h \in idle : Behind(ord, h, idle) = {}}

\* Mutant: pinned entries are evicted like any other.
OverLimitVictimsPinnedToo(ord) ==
    {h \in Listed(ord) : Cardinality(Behind(ord, h, Listed(ord))) + Max < Cardinality(Listed(ord))}

\* Mutant: one entry too many stays.
OverLimitVictimsOneLess(ord) ==
    LET free == Listed(ord) \ pinned
        size == Cardinality(Listed(ord))
    IN  {h \in free : Cardinality(Behind(ord, h, free)) + Max + 1 < size}

\* the entries evictOverLimit picks: from the back, unpinned, until Max are left
OverLimitVictims(ord) ==
    LET free == Listed(ord) \ pinned
        size == Cardinality(Listed(ord))
    IN  {h \in free : Cardinality(Behind(ord, h, free)) + Max < size}

\* evict for every entry of gone, given the list and the reference counts
\* the calling section has already written
EvictFrom(ord, databases, counts, gone) ==
    /\ order' = Without(ord, gone)
    /\ handleOf' = [d \in Databases |->
                      IF \E h \in gone : database'[h] = d THEN NoHandle ELSE databases[d]]
    /\ evicted' = evicted \cup gone
    /\ closes' = [h \in Handles |->
                    IF h \in gone /\ counts[h] = 0 THEN closes[h] + 1 ELSE closes[h]]

-----------------------------------------------------------------------------
Init ==
    /\ closed = FALSE
    /\ handleOf = [d \in Databases |-> NoHandle]
    /\ order = {}
    /\ database = [h \in Handles |-> NoDatabase]
    /\ refs = [h \in Handles |-> 0]
    /\ evicted = {}
    /\ pinned = {}
    /\ opened = {}
    /\ closes = [h \in Handles |-> 0]
    /\ pc = [c \in Callers |-> "idle"]
    /\ target = [c \in Callers |-> NoDatabase]
    /\ holds = [c \in Callers |-> NoHandle]

\* what a caller does once it holds h under a lease: Pin goes on to mark it
TakeLease(c, h) ==
    /\ pc' = [pc EXCEPT ![c] = IF c \in Pinners THEN "pinning" ELSE "using"]
    /\ holds' = [holds EXCEPT ![c] = h]

Leave(c) ==
    /\ pc' = [pc EXCEPT ![c] = "idle"]
    /\ target' = [target EXCEPT ![c] = NoDatabase]
    /\ holds' = [holds EXCEPT ![c] = NoHandle]

\* use: most recently used, one more reference
Use(h) ==
    /\ order' = ToFront(order, h)
    /\ refs' = [refs EXCEPT ![h] = @ + 1]
    /\ UNCHANGED <<closed, handleOf, database, evicted, pinned>>

\* First section of Acquire, the pool has the database.  (On a closed pool
\* Acquire returns an error and changes nothing.)
AcquireHit(c, d) ==
    /\ pc[c] = "idle"
    /\ ~closed
    /\ handleOf[d] # NoHandle
    /\ Use(handleOf[d])
    /\ TakeLease(c, handleOf[d])
    /\ target' = [target EXCEPT ![c] = d]
    /\ UNCHANGED handleVars

\* First section of Acquire, the pool has no such database: one idle entry
\* makes room when the pool is full, and connect() starts.
AcquireMiss(c, d) ==
    /\ pc[c] = "idle"
    /\ ~closed
    /\ handleOf[d] = NoHandle
    /\ UNCHANGED <<closed, database, refs, pinned>>
    /\ EvictFrom(order, handleOf, refs,
                 IF Cardinality(Listed(order)) >= Max THEN IdleVictims(order) ELSE {})
    /\ pc' = [pc EXCEPT ![c] = "connecting"]
    /\ target' = [target EXCEPT ![c] = d]
    /\ UNCHANGED <<opened, holds>>

\* connect() failed: nothing is cached.
ConnectFails(c) ==
    /\ pc[c] = "connecting"
    /\ Leave(c)
    /\ UNCHANGED <<poolVars, handleVars>>

\* connect() returned a new handle.
ConnectSucceeds(c, h) ==
    /\ pc[c] = "connecting"
    /\ h \notin opened
    /\ opened' = opened \cup {h}
    /\ pc' = [pc EXCEPT ![c] = "connected"]
    /\ holds' = [holds EXCEPT ![c] = h]
    /\ UNCHANGED <<poolVars, closes, target>>

CloseOwn(c) == closes' = [closes EXCEPT ![holds[c]] = @ + 1]

\* Mutant: the handle that arrives after Close is dropped, not closed.
ConnectedClosedDropped(c) ==
    /\ pc[c] = "connected"
    /\ closed
    /\ Leave(c)
    /\ UNCHANGED <<poolVars, handleVars>>

\* Second section of Acquire: the pool was closed meanwhile.
ConnectedClosed(c) ==
    /\ pc[c] = "connected"
    /\ closed
    /\ CloseOwn(c)
    /\ Leave(c)
    /\ UNCHANGED <<poolVars, opened>>

\* Second section of Acquire: another caller connected first; its handle wins.
ConnectedLate(c) ==
    /\ pc[c] = "connected"
    /\ ~closed
    /\ handleOf[target[c]] # NoHandle
    /\ Use(handleOf[target[c]])
    /\ CloseOwn(c)
    /\ TakeLease(c, handleOf[target[c]])
    /\ UNCHANGED <<opened, target>>

Insert(c, h, d, ord, counts) ==
    /\ database' = [database EXCEPT ![h] = d]
    /\ refs' = counts
    /\ EvictFrom(ord, [handleOf EXCEPT ![d] = h], counts, OverLimitVictims(ord))
    /\ TakeLease(c, h)
    /\ UNCHANGED <<closed, pinned, opened, target>>

InsertOwn(c) ==
    Insert(c, holds[c], target[c], ToFront(order, holds[c]), [refs EXCEPT ![holds[c]] = 1])

\* Mutant: the handle enters the pool though it was closed meanwhile.
ConnectedFirstAfterClose(c) ==
    pc[c] = "connected" /\ handleOf[target[c]] = NoHandle /\ InsertOwn(c)

\* Second section of Acquire: the handle enters the pool, which then shrinks
\* to Max entries, pinned ones excepted.
ConnectedFirst(c) ==
    /\ pc[c] = "connected"
    /\ ~closed
    /\ handleOf[target[c]] = NoHandle
    /\ InsertOwn(c)

\* Second section of Pin: whatever entry the database has now is pinned.
MarkPinned(c) ==
    /\ pc[c] = "pinning"
    /\ pinned' = pinned \cup ({handleOf[target[c]]} \ {NoHandle})
    /\ pc' = [pc EXCEPT ![c] = "unpinning"]
    /\ UNCHANGED <<closed, handleOf, order, database, refs, evicted, handleVars, target, holds>>

\* Mutant: release forgets to close an evicted handle.
DropReferenceNeverCloses(h) ==
    /\ refs' = [refs EXCEPT ![h] = @ - 1]
    /\ UNCHANGED <<closed, handleOf, order, database, evicted, pinned, handleVars>>

DropReference(h) ==
    /\ refs' = [refs EXCEPT ![h] = @ - 1]
    /\ closes' = [closes EXCEPT ![h] =
                    IF h \in evicted /\ refs'[h] = 0 THEN @ + 1 ELSE @]
    /\ UNCHANGED <<closed, handleOf, order, database, evicted, pinned, opened>>

\* The caller's release(); sync.Once makes a second call do nothing.
Release(c) ==
    /\ pc[c] = "using"
    /\ DropReference(holds[c])
    /\ Leave(c)

\* Pin gives its lease back and returns the handle all the same.
ReleasePin(c) ==
    /\ pc[c] = "unpinning"
    /\ DropReference(holds[c])
    /\ pc' = [pc EXCEPT ![c] = "sharing"]
    /\ UNCHANGED <<target, holds>>

\* Close; again later it finds an empty list.
ClosePool ==
    /\ ~closed
    /\ closed' = TRUE
    /\ UNCHANGED <<database, refs, pinned>>
    /\ EvictFrom(order, handleOf, refs, Listed(order))
    /\ UNCHANGED <<opened, callerVars>>

Connected(c) == ConnectedClosed(c) \/ ConnectedLate(c) \/ ConnectedFirst(c)
Finish(c)    == MarkPinned(c) \/ Release(c) \/ ReleasePin(c)
Connect(c)   == ConnectFails(c) \/ \E h \in Handles : ConnectSucceeds(c, h)
Begin(c)     == \E d \in Databases : AcquireHit(c, d) \/ AcquireMiss(c, d)

CallerStep(c) == Begin(c) \/ Connect(c) \/ Connected(c) \/ Finish(c)

Next == ClosePool \/ \E c \in Callers : CallerStep(c)

Spec == Init /\ [][Next]_vars

\* connect() returns (it has a timeout), a goroutine between two sections of
\* the pool's code reaches the next one, and every user defers its release().
Fairness == \A c \in Callers : WF_vars(Connect(c)) /\ WF_vars(Connected(c)) /\ WF_vars(Finish(c))

-----------------------------------------------------------------------------
(* main.run: the agent pins its own connection before it builds a gatherer, *)
(* and exits when that fails, so other callers start once Pin has returned. *)

AgentNext ==
    \/ ClosePool /\ \A c \in Pinners : pc[c] = "sharing"
    \/ \E c \in Callers :
          /\ c \in Pinners \/ \A p \in Pinners : pc[p] = "sharing"
          /\ CallerStep(c)

AgentSpec == Init /\ [][AgentNext]_vars /\ Fairness
-----------------------------------------------------------------------------
(* Properties *)

\* A handle is open for as long as a caller uses it: neither eviction, nor the
\* release of another caller, nor Close takes it away ("A handle evicted while
\* in use is closed by its last Release", database_connection_pool.go:22).
InUseOpen == \A c \in Callers : pc[c] \in Leasing => holds[c] \in Open

\* Every open handle is in the pool or in a caller's hands, so Close and the
\* releases still to come reach all of them: no connection leaks, whoever
\* connected first, failed, or was overtaken by Close.
NoLeak ==
    \A h \in Open : \/ h \in Listed(order) /\ handleOf[database[h]] = h
                   \/ \E c \in Callers : pc[c] \in Leasing \cup {"connected"} /\ holds[c] = h

\* db.Close() runs at most once on a handle: eviction and release never both
\* find themselves last.
ClosedOnce == \A h \in Handles : closes[h] <= 1

\* Callers at work on one database share one handle, except those left with a
\* handle that was evicted under them.
OneHandlePerDatabase ==
    \A c \in Callers : pc[c] \in Leasing =>
        \/ holds[c] \in evicted
        \/ handleOf[target[c]] = holds[c]

\* The pool never stays above its limit, unless pinned handles alone fill it.
WithinLimit ==
    \/ Cardinality(Listed(order)) <= Max
    \/ Listed(order) \subseteq pinned

\* A handle Pin returned stays open until Close ("Pinned handles are never
\* evicted", database_connection_pool.go:22; main shares it as models.DB).
PinnedUntilClose ==
    \A c \in Callers : pc[c] = "sharing" /\ ~closed => holds[c] \in Open

\* After Close every handle ends up closed, those in use and those still
\* being connected included.
CloseDrains == closed ~> (Open = {})

\* The pool keeps the promises of HandleLease.
Lease == INSTANCE HandleLease WITH
            lease   <- [c \in Callers |-> IF pc[c] \in Leasing THEN holds[c] ELSE NoHandle],
            open    <- Open,
            retired <- opened \ Open,
            shut    <- closed

ImplementsHandleLease == Lease!Spec
=============================================================================
