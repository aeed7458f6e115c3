------------------------ MODULE ConnectionPoolProofs ------------------------
(***************************************************************************)
(* Proofs about ConnectionPool for every set of callers, databases and     *)
(* handles and every limit.  The safety properties follow from IInv, which *)
(* ties the three places a handle is known from (the list, the map and the *)
(* callers) to the reference count and to the number of times it was       *)
(* closed.                                                                 *)
(***************************************************************************)
EXTENDS ConnectionPool, FiniteSetTheorems, WellFoundedInduction, TLAPS

Pooled == Listed(order)

\* A caller past the first section of Acquire has a database, and a handle
\* that was opened once it has one at all.
CallersPlaced == \A c \in Callers :
    /\ pc[c] # "idle" => target[c] \in Databases
    /\ pc[c] \in Leasing \cup {"connected", "sharing"} => holds[c] \in opened

\* The list relates its own entries only, and the map is its index.
IndexSound ==
    /\ \A p \in order : p[1] \in Pooled /\ p[2] \in Pooled
    /\ \A h \in Pooled : database[h] \in Databases /\ handleOf[database[h]] = h
    /\ \A d \in Databases : handleOf[d] # NoHandle =>
          handleOf[d] \in Pooled /\ database[handleOf[d]] = d

\* An entry is listed until it is evicted, never both, and wraps an opened handle.
EntriesSound ==
    /\ Pooled \cap evicted = {}
    /\ Pooled \cup evicted \subseteq opened
    /\ closed => Pooled = {}

\* A lease is on an entry of the database that was asked for.
LeasesSound == \A c \in Callers : pc[c] \in Leasing =>
    /\ holds[c] \in Pooled \cup evicted
    /\ database[holds[c]] = target[c]

\* A handle on its way into the pool has no entry and one owner.
ArrivalsSound == \A c \in Callers : pc[c] = "connected" =>
    /\ holds[c] \notin Pooled \cup evicted
    /\ \A b \in Callers : pc[b] = "connected" /\ holds[b] = holds[c] => b = c

\* entry.refs is the number of leases.
RefsCounted == \A h \in Handles : refs[h] = Cardinality(Lessees(h))

Arriving(h) == \E c \in Callers : pc[c] = "connected" /\ holds[c] = h

\* When a handle has been closed, and how often.
ClosesCounted == \A h \in Handles : closes[h] =
    IF \/ h \in evicted /\ refs[h] = 0
       \/ h \in opened \ (Pooled \cup evicted) /\ ~Arriving(h)
    THEN 1 ELSE 0

IInv ==
    /\ TypeOK
    /\ CallersPlaced
    /\ IndexSound
    /\ EntriesSound
    /\ LeasesSound
    /\ ArrivalsSound
    /\ RefsCounted
    /\ ClosesCounted

-----------------------------------------------------------------------------
(* The list operators. *)

\* MoveToFront and PushFront keep every entry and add h.
LEMMA ListedToFront ==
    ASSUME NEW ord, NEW h \in Handles
    PROVE  Listed(ToFront(ord, h)) = Listed(ord) \cup {h}
BY DEF Listed, ToFront

\* Removing gone leaves the other entries.
LEMMA ListedWithout ==
    ASSUME NEW ord, NEW gone
    PROVE  Listed(Without(ord, gone)) = Listed(ord) \ gone
BY DEF Listed, Without

\* MoveToFront and PushFront relate entries only when the list did.
LEMMA ToFrontRelates ==
    ASSUME NEW ord \in SUBSET (Handles \X Handles), NEW h \in Handles,
           \A p \in ord : p[1] \in Listed(ord) /\ p[2] \in Listed(ord)
    PROVE  /\ ToFront(ord, h) \in SUBSET (Handles \X Handles)
           /\ \A p \in ToFront(ord, h) : /\ p[1] \in Listed(ord) \cup {h}
                                         /\ p[2] \in Listed(ord) \cup {h}
<1> DEFINE L == Listed(ord)
<1>1. L \subseteq Handles
  BY DEF Listed
<1>2. \A p \in ord : p \in Handles \X Handles /\ p[1] \in L /\ p[2] \in L
  OBVIOUS
<1>3. \A g \in L \cup {h} : /\ <<h, g>> \in Handles \X Handles
                           /\ <<h, g>>[1] = h /\ <<h, g>>[2] = g
  BY <1>1
<1>4. ToFront(ord, h) =
        {p \in ord : p[1] # h /\ p[2] # h} \cup {<<h, g>> : g \in L \cup {h}}
  BY DEF ToFront
<1> HIDE DEF L
<1>5. ASSUME NEW p \in ToFront(ord, h)
      PROVE  p \in Handles \X Handles /\ p[1] \in L \cup {h} /\ p[2] \in L \cup {h}
  <2>1. CASE p \in ord
    BY <2>1, <1>2
  <2>2. CASE \E g \in L \cup {h} : p = <<h, g>>
    BY <2>2, <1>3
  <2>3. QED
    BY <1>4, <1>5, <2>1, <2>2
<1>6. QED
  BY <1>5 DEF L

\* Removal relates what is left, as before.
LEMMA WithoutRelates ==
    ASSUME NEW ord \in SUBSET (Handles \X Handles), NEW gone,
           \A p \in ord : p[1] \in Listed(ord) /\ p[2] \in Listed(ord)
    PROVE  /\ Without(ord, gone) \in SUBSET (Handles \X Handles)
           /\ \A p \in Without(ord, gone) : /\ p[1] \in Listed(ord) \ gone
                                            /\ p[2] \in Listed(ord) \ gone
BY DEF Without, Listed

\* evictIdle takes listed, unpinned handles that nobody uses.
LEMMA IdleVictimsListed ==
    ASSUME NEW ord
    PROVE  \A h \in IdleVictims(ord) : h \in Listed(ord) /\ refs[h] = 0
BY DEF IdleVictims

\* evictOverLimit takes listed handles.
LEMMA OverLimitVictimsListed ==
    ASSUME NEW ord
    PROVE  OverLimitVictims(ord) \subseteq Listed(ord)
BY DEF OverLimitVictims

-----------------------------------------------------------------------------
(* Counting leases. *)

LEMMA LesseesFinite == \A h : IsFiniteSet(Lessees(h)) /\ Cardinality(Lessees(h)) \in Nat
<1>1. \A h : Lessees(h) \subseteq Callers
  BY DEF Lessees
<1>2. QED
  BY <1>1, PoolAssumption, FS_Subset, FS_CardinalityType

\* A caller that takes a lease on h is one more lessee of h.
LEMMA LeaseTaken ==
    ASSUME TypeOK, NEW c \in Callers, NEW h \in Handles,
           pc[c] \notin Leasing, TakeLease(c, h)
    PROVE  \A g \in Handles : Cardinality(Lessees(g)') =
               IF g = h THEN Cardinality(Lessees(g)) + 1 ELSE Cardinality(Lessees(g))
<1> SUFFICES ASSUME NEW g \in Handles
             PROVE  Cardinality(Lessees(g)') =
               IF g = h THEN Cardinality(Lessees(g)) + 1 ELSE Cardinality(Lessees(g))
  OBVIOUS
<1>1. /\ pc' = [pc EXCEPT ![c] = pc'[c]] /\ pc'[c] \in Leasing
      /\ holds' = [holds EXCEPT ![c] = h]
  BY DEF TakeLease, TypeOK, Leasing
<1>2. c \notin Lessees(g)
  BY DEF Lessees
<1>3. CASE g = h
  <2>1. Lessees(g)' = Lessees(g) \cup {c}
    BY <1>1, <1>3 DEF Lessees, TypeOK
  <2>2. QED
    BY <2>1, <1>2, <1>3, LesseesFinite, FS_AddElement
<1>4. CASE g # h
  <2>1. Lessees(g)' = Lessees(g)
    BY <1>1, <1>2, <1>4 DEF Lessees, TypeOK
  <2>2. QED
    BY <2>1, <1>4
<1>5. QED
  BY <1>3, <1>4

\* A caller that gives its lease back is one lessee less of its handle.
LEMMA LeaseGivenBack ==
    ASSUME TypeOK, NEW c \in Callers, holds[c] \in Handles,
           pc[c] \in Leasing, pc'[c] \notin Leasing,
           \A b \in Callers \ {c} : pc'[b] = pc[b] /\ holds'[b] = holds[b]
    PROVE  /\ Cardinality(Lessees(holds[c])) > 0
           /\ \A g \in Handles : Cardinality(Lessees(g)') =
               IF g = holds[c] THEN Cardinality(Lessees(g)) - 1 ELSE Cardinality(Lessees(g))
<1>0. c \in Lessees(holds[c])
  BY DEF Lessees
<1>1. Cardinality(Lessees(holds[c])) > 0
  BY <1>0, LesseesFinite, FS_EmptySet
<1>2. ASSUME NEW g \in Handles, g = holds[c]
      PROVE  Cardinality(Lessees(g)') = Cardinality(Lessees(g)) - 1
  <2>1. Lessees(g)' = Lessees(g) \ {c}
    BY <1>2 DEF Lessees
  <2>2. QED
    BY <2>1, <1>0, <1>2, LesseesFinite, FS_RemoveElement
<1>3. ASSUME NEW g \in Handles, g # holds[c]
      PROVE  Cardinality(Lessees(g)') = Cardinality(Lessees(g))
  <2>1. Lessees(g)' = Lessees(g)
    BY <1>3 DEF Lessees
  <2>2. QED
    BY <2>1
<1>4. QED
  BY <1>1, <1>2, <1>3

\* Otherwise the leases are as they were.
LEMMA LeasesKept ==
    ASSUME TypeOK,
           \A b \in Callers : /\ pc'[b] \in Leasing <=> pc[b] \in Leasing
                              /\ pc[b] \in Leasing => holds'[b] = holds[b]
    PROVE  \A g \in Handles : Lessees(g)' = Lessees(g)
<1>1. ASSUME NEW g \in Handles, NEW b \in Callers
      PROVE  pc'[b] \in Leasing /\ holds'[b] = g <=> pc[b] \in Leasing /\ holds[b] = g
  BY Zenon
<1>2. QED
  BY <1>1, Zenon DEF Lessees

-----------------------------------------------------------------------------
(* Eviction. *)

\* Evicting entries from a sound index leaves a sound index.
LEMMA EvictKeepsIndex ==
    ASSUME PoolAssumption,
           NEW ord \in SUBSET (Handles \X Handles),
           NEW databases \in [Databases -> Handles \cup {NoHandle}],
           NEW counts, NEW gone \in SUBSET Listed(ord),
           \A p \in ord : p[1] \in Listed(ord) /\ p[2] \in Listed(ord),
           \A h \in Listed(ord) : database'[h] \in Databases /\ databases[database'[h]] = h,
           \A d \in Databases : databases[d] # NoHandle =>
              databases[d] \in Listed(ord) /\ database'[databases[d]] = d,
           EvictFrom(ord, databases, counts, gone)
    PROVE  /\ Pooled' = Listed(ord) \ gone
           /\ IndexSound'
           /\ order' \in SUBSET (Handles \X Handles)
           /\ handleOf' \in [Databases -> Handles \cup {NoHandle}]
<1>1. Pooled' = Listed(ord) \ gone
  BY ListedWithout DEF Pooled, EvictFrom, Listed
<1>2. /\ order' \in SUBSET (Handles \X Handles)
      /\ \A p \in order' : p[1] \in Pooled' /\ p[2] \in Pooled'
  BY <1>1, WithoutRelates DEF EvictFrom
<1>3. handleOf' \in [Databases -> Handles \cup {NoHandle}]
  BY DEF EvictFrom
<1>4. gone \subseteq Handles /\ Listed(ord) \subseteq Handles
  BY DEF Listed
<1>5. ASSUME NEW h \in Listed(ord) \ gone
      PROVE  database'[h] \in Databases /\ handleOf'[database'[h]] = h
  <2>1. database'[h] \in Databases /\ databases[database'[h]] = h
    OBVIOUS
  <2>2. ~ \E g \in gone : database'[g] = database'[h]
    BY <2>1
  <2>3. QED
    BY <2>1, <2>2 DEF EvictFrom
<1>6. ASSUME NEW d \in Databases, handleOf'[d] # NoHandle
      PROVE  handleOf'[d] \in Listed(ord) \ gone /\ database'[handleOf'[d]] = d
  <2>1. handleOf'[d] = databases[d] /\ ~ \E h \in gone : database'[h] = d
    BY <1>6 DEF EvictFrom
  <2>2. QED
    BY <2>1, <1>6
<1>7. QED
  BY <1>1, <1>2, <1>3, <1>5, <1>6 DEF IndexSound

-----------------------------------------------------------------------------
(* The invariant holds initially. *)

LEMMA InvInit == Init => IInv
<1> SUFFICES ASSUME Init PROVE IInv
  OBVIOUS
<1> USE DEF Init
<1>1. TypeOK
  BY DEF TypeOK, Steps
<1>2. Pooled = {}
  BY DEF Pooled, Listed
<1>3. CallersPlaced
  BY DEF CallersPlaced, Leasing
<1>4. IndexSound /\ EntriesSound
  BY <1>2 DEF IndexSound, EntriesSound
<1>5. LeasesSound /\ ArrivalsSound
  BY DEF LeasesSound, ArrivalsSound, Leasing
<1>6. RefsCounted
  <2>1. \A h : Lessees(h) = {}
    BY DEF Lessees, Leasing
  <2>2. QED
    BY <2>1, FS_EmptySet DEF RefsCounted
<1>7. ClosesCounted
  BY DEF ClosesCounted
<1>8. QED
  BY <1>1, <1>3, <1>4, <1>5, <1>6, <1>7 DEF IInv

-----------------------------------------------------------------------------
(* One lemma per section of the pool's code. *)

\* What the list and the map say of the handle a database maps to.
LEMMA MappedHandle ==
    ASSUME PoolAssumption, TypeOK, IndexSound, EntriesSound,
           NEW d \in Databases, handleOf[d] # NoHandle
    PROVE  /\ handleOf[d] \in Handles
           /\ handleOf[d] \in Pooled /\ handleOf[d] \notin evicted
           /\ handleOf[d] \in opened /\ database[handleOf[d]] = d
BY DEF TypeOK, IndexSound, EntriesSound

\* use keeps the list's entries and the index.
LEMMA UseKeepsIndex ==
    ASSUME TypeOK, IndexSound, NEW h \in Pooled, Use(h)
    PROVE  /\ Pooled' = Pooled
           /\ IndexSound'
           /\ order' \in SUBSET (Handles \X Handles)
<1>0. h \in Handles
  BY DEF Pooled, Listed
<1>1. Pooled' = Pooled
  BY <1>0, ListedToFront DEF Pooled, Use, Listed
<1>2. /\ order' \in SUBSET (Handles \X Handles)
      /\ \A p \in order' : p[1] \in Pooled' /\ p[2] \in Pooled'
  BY <1>0, <1>1, ToFrontRelates DEF Use, IndexSound, TypeOK, Pooled
<1>3. QED
  BY <1>1, <1>2 DEF IndexSound, Use

LEMMA InvAcquireHit ==
    ASSUME IInv, NEW c \in Callers, NEW d \in Databases, AcquireHit(c, d)
    PROVE  IInv'
<1> DEFINE h == handleOf[d]
<1> USE PoolAssumption
<1>1. /\ pc[c] = "idle" /\ ~closed /\ Use(h) /\ TakeLease(c, h)
      /\ target' = [target EXCEPT ![c] = d]
      /\ UNCHANGED handleVars
      /\ handleOf[d] # NoHandle
  BY DEF AcquireHit
<1>2. /\ h \in Handles /\ h \in Pooled /\ h \notin evicted /\ h \in opened
      /\ database[h] = d
  BY <1>1, MappedHandle DEF IInv
<1> HIDE DEF h
<1>3. /\ Pooled' = Pooled /\ IndexSound' /\ order' \in SUBSET (Handles \X Handles)
  BY <1>1, <1>2, UseKeepsIndex DEF IInv
<1>4. /\ pc' = [pc EXCEPT ![c] = pc'[c]] /\ pc'[c] \in {"using", "pinning"}
      /\ holds' = [holds EXCEPT ![c] = h]
  BY <1>1 DEF TakeLease, IInv, TypeOK
<1>5. TypeOK'
  BY <1>1, <1>2, <1>3, <1>4 DEF IInv, TypeOK, Use, handleVars, Steps
<1>6. CallersPlaced'
  BY <1>1, <1>2, <1>4 DEF IInv, TypeOK, CallersPlaced, handleVars, Leasing
<1>7. EntriesSound'
  BY <1>1, <1>3 DEF IInv, EntriesSound, Use, handleVars
<1>8. LeasesSound'
  BY <1>1, <1>2, <1>3, <1>4 DEF IInv, TypeOK, LeasesSound, Use, Leasing
<1>9. ArrivalsSound'
  BY <1>1, <1>3, <1>4 DEF IInv, TypeOK, ArrivalsSound, Use
<1>10. RefsCounted'
  BY <1>1, <1>2, LeaseTaken DEF IInv, TypeOK, RefsCounted, Use, Leasing
<1>11. ClosesCounted'
  <2>1. \A g \in Handles : Arriving(g)' <=> Arriving(g)
    BY <1>1, <1>4 DEF IInv, TypeOK, Arriving
  <2>2. \A g \in evicted : refs'[g] = refs[g]
    BY <1>1, <1>2 DEF IInv, TypeOK, Use
  <2>3. QED
    BY <1>1, <1>3, <2>1, <2>2 DEF IInv, TypeOK, ClosesCounted, Use, handleVars
<1>12. QED
  BY <1>3, <1>5, <1>6, <1>7, <1>8, <1>9, <1>10, <1>11 DEF IInv

LEMMA InvAcquireMiss ==
    ASSUME IInv, NEW c \in Callers, NEW d \in Databases, AcquireMiss(c, d)
    PROVE  IInv'
<1> USE PoolAssumption
<1>1. PICK gone \in SUBSET Pooled :
        /\ EvictFrom(order, handleOf, refs, gone)
        /\ \A h \in gone : refs[h] = 0
  <2> DEFINE g == IF Cardinality(Listed(order)) >= Max THEN IdleVictims(order) ELSE {}
  <2>1. EvictFrom(order, handleOf, refs, g)
    BY DEF AcquireMiss
  <2>2. g \in SUBSET Pooled /\ \A h \in g : refs[h] = 0
    BY IdleVictimsListed DEF Pooled
  <2>3. QED
    BY <2>1, <2>2
<1>2. /\ pc[c] = "idle" /\ UNCHANGED <<closed, database, refs, pinned, opened, holds>>
      /\ pc' = [pc EXCEPT ![c] = "connecting"]
      /\ target' = [target EXCEPT ![c] = d]
  BY DEF AcquireMiss
<1>3. /\ Pooled' = Pooled \ gone
      /\ IndexSound'
      /\ order' \in SUBSET (Handles \X Handles)
      /\ handleOf' \in [Databases -> Handles \cup {NoHandle}]
  <2>1. gone \in SUBSET Listed(order)
    BY DEF Pooled
  <2>2. /\ order \in SUBSET (Handles \X Handles)
        /\ handleOf \in [Databases -> Handles \cup {NoHandle}]
        /\ \A p \in order : p[1] \in Listed(order) /\ p[2] \in Listed(order)
        /\ \A h \in Listed(order) : database'[h] \in Databases /\ handleOf[database'[h]] = h
        /\ \A e \in Databases : handleOf[e] # NoHandle =>
              handleOf[e] \in Listed(order) /\ database'[handleOf[e]] = e
    BY <1>2 DEF IInv, TypeOK, IndexSound, Pooled
  <2>3. QED
    BY <1>1, <2>1, <2>2, EvictKeepsIndex DEF Pooled
<1>4. /\ evicted' = evicted \cup gone
      /\ closes' = [h \in Handles |-> IF h \in gone THEN closes[h] + 1 ELSE closes[h]]
  BY <1>1 DEF EvictFrom, IInv, TypeOK
<1>5. gone \subseteq Handles /\ gone \cap evicted = {} /\ gone \subseteq opened
  BY DEF IInv, EntriesSound, Pooled, Listed
<1>6. TypeOK'
  BY <1>2, <1>3, <1>4, <1>5 DEF IInv, TypeOK, Steps
<1>7. CallersPlaced'
  BY <1>2 DEF IInv, TypeOK, CallersPlaced, Leasing
<1>8. EntriesSound'
  BY <1>2, <1>3, <1>4, <1>5 DEF IInv, EntriesSound
<1>9. LeasesSound'
  BY <1>2, <1>3, <1>4 DEF IInv, TypeOK, LeasesSound, Leasing
<1>10. ArrivalsSound'
  BY <1>2, <1>3, <1>4 DEF IInv, TypeOK, ArrivalsSound
<1>11. RefsCounted'
  BY <1>2, LeasesKept DEF IInv, TypeOK, RefsCounted, Leasing
<1>12. ClosesCounted'
  <2>1. \A g \in Handles : Arriving(g)' <=> Arriving(g)
    BY <1>2 DEF IInv, TypeOK, Arriving
  <2>2. QED
    BY <1>1, <1>2, <1>3, <1>4, <1>5, <2>1 DEF IInv, TypeOK, ClosesCounted
<1>13. QED
  BY <1>3, <1>6, <1>7, <1>8, <1>9, <1>10, <1>11, <1>12 DEF IInv

\* Steps of a caller that leave the pool alone keep the pool's own conjuncts.
LEMMA PoolUntouched ==
    ASSUME IInv, UNCHANGED poolVars, opened \subseteq opened'
    PROVE  Pooled' = Pooled /\ IndexSound' /\ EntriesSound'
<1>1. Pooled' = Pooled
  BY DEF Pooled, Listed, poolVars
<1>2. QED
  BY <1>1 DEF IInv, IndexSound, EntriesSound, poolVars

LEMMA InvConnectFails ==
    ASSUME IInv, NEW c \in Callers, ConnectFails(c)
    PROVE  IInv'
<1> USE PoolAssumption
<1>1. /\ pc[c] = "connecting" /\ Leave(c) /\ UNCHANGED poolVars /\ UNCHANGED handleVars
  BY DEF ConnectFails
<1>2. Pooled' = Pooled /\ IndexSound' /\ EntriesSound'
  BY <1>1, PoolUntouched DEF handleVars
<1>3. TypeOK'
  BY <1>1 DEF IInv, TypeOK, poolVars, handleVars, Leave, Steps
<1>4. CallersPlaced' /\ LeasesSound' /\ ArrivalsSound'
  BY <1>1, <1>2 DEF IInv, TypeOK, CallersPlaced, LeasesSound, ArrivalsSound,
                    poolVars, handleVars, Leave, Leasing
<1>5. RefsCounted'
  BY <1>1, LeasesKept DEF IInv, TypeOK, RefsCounted, Leasing, Leave, poolVars
<1>6. ClosesCounted'
  <2>1. \A g \in Handles : Arriving(g)' <=> Arriving(g)
    BY <1>1 DEF IInv, TypeOK, Arriving, Leave
  <2>2. QED
    BY <1>1, <1>2, <2>1 DEF IInv, TypeOK, ClosesCounted, poolVars, handleVars
<1>7. QED
  BY <1>2, <1>3, <1>4, <1>5, <1>6 DEF IInv

LEMMA InvConnectSucceeds ==
    ASSUME IInv, NEW c \in Callers, NEW h \in Handles, ConnectSucceeds(c, h)
    PROVE  IInv'
<1> USE PoolAssumption
<1>1. /\ pc[c] = "connecting" /\ h \notin opened /\ opened' = opened \cup {h}
      /\ pc' = [pc EXCEPT ![c] = "connected"]
      /\ holds' = [holds EXCEPT ![c] = h]
      /\ UNCHANGED poolVars /\ UNCHANGED <<closes, target>>
  BY DEF ConnectSucceeds
<1>2. Pooled' = Pooled /\ IndexSound' /\ EntriesSound'
  BY <1>1, PoolUntouched
<1>3. TypeOK'
  BY <1>1 DEF IInv, TypeOK, poolVars, Steps
<1>4. CallersPlaced' /\ LeasesSound'
  BY <1>1, <1>2 DEF IInv, TypeOK, CallersPlaced, LeasesSound, poolVars, Leasing
<1>5. ArrivalsSound'
  <2>1. h \notin Pooled \cup evicted
    BY <1>1 DEF IInv, EntriesSound
  <2>2. \A b \in Callers : pc[b] = "connected" => holds[b] # h
    BY <1>1 DEF IInv, CallersPlaced
  <2>3. QED
    BY <1>1, <1>2, <2>1, <2>2 DEF IInv, TypeOK, ArrivalsSound, poolVars
<1>6. RefsCounted'
  BY <1>1, LeasesKept DEF IInv, TypeOK, RefsCounted, Leasing, poolVars
<1>7. ClosesCounted'
  <2>1. Arriving(h)' /\ \A g \in Handles \ {h} : Arriving(g)' <=> Arriving(g)
    BY <1>1 DEF IInv, TypeOK, Arriving
  <2>2. h \notin Pooled \cup evicted
    BY <1>1 DEF IInv, EntriesSound
  <2>3. QED
    BY <1>1, <1>2, <2>1, <2>2 DEF IInv, TypeOK, ClosesCounted, poolVars
<1>8. QED
  BY <1>2, <1>3, <1>4, <1>5, <1>6, <1>7 DEF IInv

LEMMA InvConnectedClosed ==
    ASSUME IInv, NEW c \in Callers, ConnectedClosed(c)
    PROVE  IInv'
<1> USE PoolAssumption
<1>0. PICK h : h = holds[c]
  OBVIOUS
<1>1. /\ pc[c] = "connected" /\ Leave(c) /\ UNCHANGED poolVars /\ UNCHANGED opened
      /\ closes' = [closes EXCEPT ![h] = @ + 1]
  BY <1>0 DEF ConnectedClosed, CloseOwn
<1>2. /\ h \in Handles /\ h \in opened /\ h \notin Pooled \cup evicted
      /\ \A b \in Callers : pc[b] = "connected" /\ holds[b] = h => b = c
  BY <1>0, <1>1 DEF IInv, TypeOK, CallersPlaced, ArrivalsSound, Leasing
<1>3. Pooled' = Pooled /\ IndexSound' /\ EntriesSound'
  BY <1>1, PoolUntouched
<1>4. TypeOK'
  BY <1>1, <1>2 DEF IInv, TypeOK, poolVars, Leave, Steps
<1>5. CallersPlaced' /\ LeasesSound' /\ ArrivalsSound'
  BY <1>1, <1>3 DEF IInv, TypeOK, CallersPlaced, LeasesSound, ArrivalsSound,
                    poolVars, Leave, Leasing
<1>6. RefsCounted'
  BY <1>1, LeasesKept DEF IInv, TypeOK, RefsCounted, Leasing, Leave, poolVars
<1>7. ClosesCounted'
  <2>1. Arriving(h) /\ ~Arriving(h)'
    BY <1>0, <1>1, <1>2 DEF IInv, TypeOK, Arriving, Leave
  <2>2. \A g \in Handles \ {h} : Arriving(g)' <=> Arriving(g)
    BY <1>0, <1>1 DEF IInv, TypeOK, Arriving, Leave
  <2>3. QED
    BY <1>1, <1>2, <1>3, <2>1, <2>2 DEF IInv, TypeOK, ClosesCounted, poolVars
<1>8. QED
  BY <1>3, <1>4, <1>5, <1>6, <1>7 DEF IInv

LEMMA InvConnectedLate ==
    ASSUME IInv, NEW c \in Callers, ConnectedLate(c)
    PROVE  IInv'
<1> USE PoolAssumption
<1>0. PICK own, h : own = holds[c] /\ h = handleOf[target[c]]
  OBVIOUS
<1>1. /\ pc[c] = "connected" /\ Use(h) /\ TakeLease(c, h) /\ UNCHANGED <<opened, target>>
      /\ closes' = [closes EXCEPT ![own] = @ + 1]
      /\ h # NoHandle
  BY <1>0 DEF ConnectedLate, CloseOwn
<1>2. /\ own \in Handles /\ own \in opened /\ own \notin Pooled \cup evicted
      /\ \A b \in Callers : pc[b] = "connected" /\ holds[b] = own => b = c
      /\ target[c] \in Databases
  BY <1>0, <1>1 DEF IInv, TypeOK, CallersPlaced, ArrivalsSound, Leasing
<1>3. /\ h \in Handles /\ h \in Pooled /\ h \notin evicted /\ h \in opened
      /\ database[h] = target[c]
  BY <1>0, <1>1, <1>2, MappedHandle DEF IInv
<1>4. /\ Pooled' = Pooled /\ IndexSound' /\ order' \in SUBSET (Handles \X Handles)
  BY <1>1, <1>3, UseKeepsIndex DEF IInv
<1>5. /\ pc' = [pc EXCEPT ![c] = pc'[c]] /\ pc'[c] \in {"using", "pinning"}
      /\ holds' = [holds EXCEPT ![c] = h]
  BY <1>1 DEF TakeLease, IInv, TypeOK
<1>6. TypeOK'
  BY <1>1, <1>2, <1>3, <1>4, <1>5 DEF IInv, TypeOK, Use, Steps
<1>7. CallersPlaced'
  BY <1>1, <1>2, <1>3, <1>5 DEF IInv, TypeOK, CallersPlaced, Leasing
<1>8. EntriesSound'
  BY <1>1, <1>4 DEF IInv, EntriesSound, Use
<1>9. LeasesSound'
  BY <1>1, <1>3, <1>4, <1>5 DEF IInv, TypeOK, LeasesSound, Use, Leasing
<1>10. ArrivalsSound'
  BY <1>1, <1>4, <1>5 DEF IInv, TypeOK, ArrivalsSound, Use
<1>11. RefsCounted'
  BY <1>1, <1>3, LeaseTaken DEF IInv, TypeOK, RefsCounted, Use, Leasing
<1>12. ClosesCounted'
  <2>1. Arriving(own) /\ ~Arriving(own)'
    BY <1>0, <1>1, <1>2, <1>5 DEF IInv, TypeOK, Arriving
  <2>2. \A g \in Handles \ {own} : Arriving(g)' <=> Arriving(g)
    BY <1>0, <1>1, <1>5 DEF IInv, TypeOK, Arriving
  <2>3. \A g \in evicted : refs'[g] = refs[g]
    BY <1>1, <1>3 DEF IInv, TypeOK, Use
  <2>4. evicted' = evicted
    BY <1>1 DEF Use
  <2>5. QED
    BY <1>1, <1>2, <1>4, <2>1, <2>2, <2>3, <2>4 DEF IInv, TypeOK, ClosesCounted
<1>13. QED
  BY <1>4, <1>6, <1>7, <1>8, <1>9, <1>10, <1>11, <1>12 DEF IInv

LEMMA InvConnectedFirst ==
    ASSUME IInv, NEW c \in Callers, ConnectedFirst(c)
    PROVE  IInv'
<1> USE PoolAssumption
<1>0. PICK h, d : h = holds[c] /\ d = target[c]
  OBVIOUS
<1> DEFINE ord == ToFront(order, h)
           counts == [refs EXCEPT ![h] = 1]
           gone == OverLimitVictims(ord)
           databases == [handleOf EXCEPT ![d] = h]
<1>1. /\ pc[c] = "connected" /\ ~closed /\ handleOf[d] = NoHandle
      /\ database' = [database EXCEPT ![h] = d] /\ refs' = counts
      /\ EvictFrom(ord, databases, counts, gone)
      /\ TakeLease(c, h) /\ UNCHANGED <<closed, pinned, opened, target>>
  BY <1>0 DEF ConnectedFirst, InsertOwn, Insert
<1>2. /\ h \in Handles /\ h \in opened /\ h \notin Pooled \cup evicted
      /\ \A b \in Callers : pc[b] = "connected" /\ holds[b] = h => b = c
      /\ d \in Databases
  BY <1>0, <1>1 DEF IInv, TypeOK, CallersPlaced, ArrivalsSound, Leasing
<1>3. Listed(ord) = Pooled \cup {h} /\ gone \in SUBSET (Pooled \cup {h})
  BY <1>2, ListedToFront, OverLimitVictimsListed DEF Pooled
<1>4. /\ ord \in SUBSET (Handles \X Handles)
      /\ \A p \in ord : p[1] \in Pooled \cup {h} /\ p[2] \in Pooled \cup {h}
  BY <1>2, ToFrontRelates DEF IInv, TypeOK, IndexSound, Pooled
<1>5. \A b \in Callers : pc[b] \in Leasing => holds[b] # h
  BY <1>2 DEF IInv, LeasesSound
<1>6. counts \in [Handles -> Nat] /\ counts[h] = 1 /\ \A g \in Handles \ {h} : counts[g] = refs[g]
  BY <1>2 DEF IInv, TypeOK
<1> HIDE DEF ord, counts, gone, databases
<1>7. /\ Pooled' = (Pooled \cup {h}) \ gone
      /\ IndexSound'
      /\ order' \in SUBSET (Handles \X Handles)
      /\ handleOf' \in [Databases -> Handles \cup {NoHandle}]
  <2>1. databases \in [Databases -> Handles \cup {NoHandle}]
    BY <1>2 DEF IInv, TypeOK, databases
  <2>2. \A g \in Listed(ord) : database'[g] \in Databases /\ databases[database'[g]] = g
    <3>1. database'[h] = d /\ databases[d] = h
      BY <1>1, <1>2 DEF IInv, TypeOK, databases
    <3>2. ASSUME NEW g \in Pooled
          PROVE  database'[g] \in Databases /\ databases[database'[g]] = g
      <4>1. g # h /\ g \in Handles /\ database[g] \in Databases /\ handleOf[database[g]] = g
        BY <1>2 DEF IInv, IndexSound, Pooled, Listed
      <4>2. database[g] # d
        BY <1>1, <4>1
      <4>3. QED
        BY <1>1, <4>1, <4>2 DEF IInv, TypeOK, databases
    <3>3. QED
      BY <1>2, <1>3, <3>1, <3>2
  <2>3. \A e \in Databases : databases[e] # NoHandle =>
              databases[e] \in Listed(ord) /\ database'[databases[e]] = e
    BY <1>1, <1>2, <1>3 DEF IInv, TypeOK, IndexSound, databases
  <2>4. QED
    BY <1>1, <1>3, <1>4, <2>1, <2>2, <2>3, EvictKeepsIndex
<1>8. /\ evicted' = evicted \cup gone
      /\ closes' = [g \in Handles |->
                      IF g \in gone /\ counts[g] = 0 THEN closes[g] + 1 ELSE closes[g]]
  BY <1>1 DEF EvictFrom
<1>9. /\ Pooled \subseteq Handles /\ Pooled \cap evicted = {}
      /\ Pooled \cup evicted \subseteq opened
  BY DEF IInv, EntriesSound, Pooled, Listed
<1>10. /\ pc' = [pc EXCEPT ![c] = pc'[c]] /\ pc'[c] \in {"using", "pinning"}
       /\ holds' = [holds EXCEPT ![c] = h]
  BY <1>1 DEF TakeLease, IInv, TypeOK
<1>11. TypeOK'
  <2>0. closes \in [Handles -> Nat]
    BY DEF IInv, TypeOK
  <2>1. refs' \in [Handles -> Nat] /\ closes' \in [Handles -> Nat]
    <3>1. refs' \in [Handles -> Nat]
      BY <1>1, <1>6
    <3>2. closes' \in [Handles -> Nat]
      BY <2>0, <1>8
    <3>3. QED
      BY <3>1, <3>2
  <2>2. evicted' \in SUBSET Handles
    BY <1>2, <1>3, <1>8, <1>9 DEF IInv, TypeOK
  <2>3. database' \in [Handles -> Databases \cup {NoDatabase}]
    BY <1>1, <1>2 DEF IInv, TypeOK
  <2>4. pc' \in [Callers -> Steps] /\ holds' \in [Callers -> Handles \cup {NoHandle}]
    BY <1>2, <1>10 DEF IInv, TypeOK, Steps
  <2>5. QED
    BY <1>1, <1>7, <2>1, <2>2, <2>3, <2>4 DEF IInv, TypeOK
<1>12. CallersPlaced'
  BY <1>1, <1>2, <1>10 DEF IInv, TypeOK, CallersPlaced, Leasing
<1>13. EntriesSound'
  BY <1>1, <1>2, <1>3, <1>7, <1>8, <1>9 DEF EntriesSound
<1>14. LeasesSound'
  <2>1. \A b \in Callers \ {c} : pc[b] \in Leasing =>
           holds[b] \in Pooled \cup evicted /\ database[holds[b]] = target[b] /\ holds[b] # h
    BY <1>5 DEF IInv, LeasesSound
  <2>2. database'[h] = target[c]
    BY <1>0, <1>1, <1>2 DEF IInv, TypeOK
  <2>3. h \in Pooled' \cup evicted'
    BY <1>7, <1>8
  <2>4. QED
    BY <1>1, <1>7, <1>8, <1>10, <2>1, <2>2, <2>3 DEF IInv, TypeOK, LeasesSound, Leasing
<1>15. ArrivalsSound'
  BY <1>0, <1>1, <1>2, <1>3, <1>7, <1>8, <1>10 DEF IInv, TypeOK, ArrivalsSound
<1>16. RefsCounted'
  <2>1. Cardinality(Lessees(h)) = 0
    <3>1. Lessees(h) = {}
      BY <1>5 DEF Lessees
    <3>2. QED
      BY <3>1, FS_EmptySet
  <2>2. \A g \in Handles : Cardinality(Lessees(g)') =
               IF g = h THEN Cardinality(Lessees(g)) + 1 ELSE Cardinality(Lessees(g))
    BY <1>1, <1>2, LeaseTaken DEF IInv, Leasing
  <2>3. QED
    BY <1>1, <1>6, <2>1, <2>2 DEF IInv, RefsCounted
<1>17. ClosesCounted'
  <2>1. Arriving(h) /\ ~Arriving(h)'
    BY <1>0, <1>1, <1>2, <1>10 DEF IInv, TypeOK, Arriving
  <2>2. \A g \in Handles \ {h} : Arriving(g)' <=> Arriving(g)
    BY <1>0, <1>1, <1>10 DEF IInv, TypeOK, Arriving
  <2>3. closes[h] = 0
    BY <1>2, <2>1 DEF IInv, ClosesCounted
  <2>4. closes'[h] = 0 /\ refs'[h] = 1
    BY <1>1, <1>2, <1>6, <1>8, <2>3
  <2>5. ASSUME NEW g \in Handles \ {h}
        PROVE  closes'[g] = IF \/ g \in evicted' /\ refs'[g] = 0
                               \/ g \in opened' \ (Pooled' \cup evicted') /\ ~Arriving(g)'
                            THEN 1 ELSE 0
    <3>1. closes[g] = IF \/ g \in evicted /\ refs[g] = 0
                         \/ g \in opened \ (Pooled \cup evicted) /\ ~Arriving(g)
                      THEN 1 ELSE 0
      BY DEF IInv, ClosesCounted
    <3>2. refs'[g] = refs[g] /\ counts[g] = refs[g]
      BY <1>1, <1>6
    <3>3. CASE g \in gone
      BY <1>1, <1>3, <1>7, <1>8, <1>9, <3>1, <3>2, <3>3
    <3>4. CASE g \notin gone
      BY <1>1, <1>3, <1>7, <1>8, <1>9, <2>2, <3>1, <3>2, <3>4
    <3>5. QED
      BY <3>3, <3>4
  <2>6. h \in Pooled' \cup evicted'
    BY <1>7, <1>8
  <2>7. QED
    BY <2>4, <2>5, <2>6 DEF ClosesCounted
<1>18. QED
  BY <1>7, <1>11, <1>12, <1>13, <1>14, <1>15, <1>16, <1>17 DEF IInv

LEMMA InvMarkPinned ==
    ASSUME IInv, NEW c \in Callers, MarkPinned(c)
    PROVE  IInv'
<1> USE PoolAssumption
<1>1. /\ pc[c] = "pinning" /\ pc' = [pc EXCEPT ![c] = "unpinning"]
      /\ pinned' = pinned \cup ({handleOf[target[c]]} \ {NoHandle})
      /\ UNCHANGED <<closed, handleOf, order, database, refs, evicted, opened, closes, target, holds>>
  BY DEF MarkPinned, handleVars
<1>2. Pooled' = Pooled /\ IndexSound' /\ EntriesSound'
  BY <1>1 DEF IInv, Pooled, Listed, IndexSound, EntriesSound
<1>3. TypeOK'
  <2>1. target[c] \in Databases
    BY <1>1 DEF IInv, CallersPlaced
  <2>2. QED
    BY <1>1, <2>1 DEF IInv, TypeOK, Steps
<1>4. CallersPlaced' /\ LeasesSound' /\ ArrivalsSound'
  BY <1>1, <1>2 DEF IInv, TypeOK, CallersPlaced, LeasesSound, ArrivalsSound, Leasing
<1>5. RefsCounted'
  BY <1>1, LeasesKept DEF IInv, TypeOK, RefsCounted, Leasing
<1>6. ClosesCounted'
  <2>1. \A g \in Handles : Arriving(g)' <=> Arriving(g)
    BY <1>1 DEF IInv, TypeOK, Arriving
  <2>2. QED
    BY <1>1, <1>2, <2>1 DEF IInv, TypeOK, ClosesCounted
<1>7. QED
  BY <1>2, <1>3, <1>4, <1>5, <1>6 DEF IInv

\* Giving a lease back, by release() or at the end of Pin.
LEMMA InvDropReference ==
    ASSUME IInv, NEW c \in Callers, pc[c] \in Leasing, DropReference(holds[c]),
           pc' = [pc EXCEPT ![c] = pc'[c]],
           \/ pc'[c] = "sharing" /\ UNCHANGED <<target, holds>>
           \/ Leave(c)
    PROVE  IInv'
<1> USE PoolAssumption
<1>0. PICK h : h = holds[c]
  OBVIOUS
<1>1. /\ refs' = [refs EXCEPT ![h] = @ - 1]
      /\ closes' = [closes EXCEPT ![h] = IF h \in evicted /\ refs'[h] = 0 THEN @ + 1 ELSE @]
      /\ UNCHANGED <<closed, handleOf, order, database, evicted, pinned, opened>>
  BY <1>0 DEF DropReference
<1>2. /\ h \in Handles /\ h \in opened /\ h \in Pooled \cup evicted
  BY <1>0 DEF IInv, TypeOK, CallersPlaced, LeasesSound
<1>3. /\ pc'[c] \in {"sharing", "idle"}
      /\ \A b \in Callers \ {c} : pc'[b] = pc[b] /\ holds'[b] = holds[b] /\ target'[b] = target[b]
  BY DEF Leave, IInv, TypeOK
<1>4. /\ Cardinality(Lessees(h)) > 0
      /\ \A g \in Handles : Cardinality(Lessees(g)') =
            IF g = h THEN Cardinality(Lessees(g)) - 1 ELSE Cardinality(Lessees(g))
  <2>1. pc'[c] \notin Leasing
    BY <1>3 DEF Leasing
  <2>2. \A b \in Callers \ {c} : pc'[b] = pc[b] /\ holds'[b] = holds[b]
    BY <1>3
  <2>3. QED
    BY <1>0, <1>2, <2>1, <2>2, LeaseGivenBack DEF IInv
<1>5. refs[h] > 0
  BY <1>2, <1>4 DEF IInv, RefsCounted
<1>6. Pooled' = Pooled /\ IndexSound' /\ EntriesSound'
  BY <1>1 DEF IInv, Pooled, Listed, IndexSound, EntriesSound
<1>7. TypeOK'
  <2>1. refs' \in [Handles -> Nat]
    BY <1>1, <1>2, <1>5 DEF IInv, TypeOK
  <2>2. closes' \in [Handles -> Nat]
    BY <1>1, <1>2 DEF IInv, TypeOK
  <2>3. /\ pc' \in [Callers -> Steps]
        /\ target' \in [Callers -> Databases \cup {NoDatabase}]
        /\ holds' \in [Callers -> Handles \cup {NoHandle}]
    BY <1>3 DEF IInv, TypeOK, Leave, Steps
  <2>4. QED
    BY <1>1, <2>1, <2>2, <2>3 DEF IInv, TypeOK
<1>8. CallersPlaced'
  <2>1. pc'[c] = "sharing" => target'[c] = target[c] /\ holds'[c] = holds[c]
    BY DEF Leave, IInv, TypeOK
  <2>2. target[c] \in Databases /\ holds[c] \in opened
    BY <1>0, <1>2 DEF IInv, CallersPlaced, Leasing
  <2>3. QED
    BY <1>1, <1>3, <2>1, <2>2 DEF IInv, CallersPlaced, Leasing
<1>9. LeasesSound' /\ ArrivalsSound'
  BY <1>1, <1>3, <1>6 DEF IInv, LeasesSound, ArrivalsSound, Leasing
<1>10. RefsCounted'
  BY <1>1, <1>2, <1>4 DEF IInv, TypeOK, RefsCounted
<1>11. ClosesCounted'
  <2>1. \A g \in Handles : Arriving(g)' <=> Arriving(g)
    BY <1>3 DEF Arriving, Leasing
  <2>2. \A g \in Handles \ {h} : closes'[g] = closes[g] /\ refs'[g] = refs[g]
    BY <1>1 DEF IInv, TypeOK
  <2>3. closes[h] = 0
    BY <1>2, <1>5 DEF IInv, ClosesCounted
  <2>4. closes'[h] = IF h \in evicted /\ refs'[h] = 0 THEN 1 ELSE 0
    BY <1>1, <1>2, <2>3 DEF IInv, TypeOK
  <2>5. QED
    BY <1>1, <1>2, <1>6, <2>1, <2>2, <2>4 DEF IInv, ClosesCounted
<1>12. QED
  BY <1>6, <1>7, <1>8, <1>9, <1>10, <1>11 DEF IInv

LEMMA InvClosePool ==
    ASSUME IInv, ClosePool
    PROVE  IInv'
<1> USE PoolAssumption
<1>1. /\ closed' = TRUE
      /\ UNCHANGED <<database, refs, pinned, opened, pc, target, holds>>
      /\ EvictFrom(order, handleOf, refs, Pooled)
  BY DEF ClosePool, Pooled, callerVars
<1>2. /\ Pooled' = {}
      /\ IndexSound'
      /\ order' \in SUBSET (Handles \X Handles)
      /\ handleOf' \in [Databases -> Handles \cup {NoHandle}]
  <2>1. /\ order \in SUBSET (Handles \X Handles)
        /\ handleOf \in [Databases -> Handles \cup {NoHandle}]
        /\ \A p \in order : p[1] \in Listed(order) /\ p[2] \in Listed(order)
        /\ \A h \in Listed(order) : database'[h] \in Databases /\ handleOf[database'[h]] = h
        /\ \A e \in Databases : handleOf[e] # NoHandle =>
              handleOf[e] \in Listed(order) /\ database'[handleOf[e]] = e
    BY <1>1 DEF IInv, TypeOK, IndexSound, Pooled
  <2>2. Pooled \in SUBSET Listed(order) /\ Listed(order) \ Pooled = {}
    BY DEF Pooled
  <2>3. QED
    BY <1>1, <2>1, <2>2, EvictKeepsIndex
<1>3. /\ evicted' = evicted \cup Pooled
      /\ closes' = [h \in Handles |->
                      IF h \in Pooled /\ refs[h] = 0 THEN closes[h] + 1 ELSE closes[h]]
  BY <1>1 DEF EvictFrom
<1>4. Pooled \subseteq Handles /\ Pooled \cap evicted = {} /\ Pooled \subseteq opened
  BY DEF IInv, EntriesSound, Pooled, Listed
<1>5. TypeOK'
  BY <1>1, <1>2, <1>3, <1>4 DEF IInv, TypeOK
<1>6. CallersPlaced' /\ EntriesSound' /\ LeasesSound' /\ ArrivalsSound'
  BY <1>1, <1>2, <1>3, <1>4 DEF IInv, CallersPlaced, EntriesSound, LeasesSound,
                                ArrivalsSound, Leasing
<1>7. RefsCounted'
  BY <1>1 DEF IInv, RefsCounted, Lessees
<1>8. ClosesCounted'
  BY <1>1, <1>2, <1>3, <1>4 DEF IInv, TypeOK, ClosesCounted, Arriving
<1>9. QED
  BY <1>2, <1>5, <1>6, <1>7, <1>8 DEF IInv

LEMMA InvStutter ==
    ASSUME IInv, UNCHANGED vars
    PROVE  IInv'
<1> USE DEF vars, poolVars, handleVars, callerVars
<1>1. /\ Pooled' = Pooled
      /\ \A h : Lessees(h)' = Lessees(h)
      /\ \A h : Arriving(h)' <=> Arriving(h)
  BY DEF Pooled, Listed, Lessees, Arriving
<1>2. TypeOK' /\ CallersPlaced'
  BY DEF IInv, TypeOK, CallersPlaced
<1>3. IndexSound' /\ EntriesSound'
  BY <1>1 DEF IInv, IndexSound, EntriesSound
<1>4. LeasesSound' /\ ArrivalsSound'
  BY <1>1 DEF IInv, LeasesSound, ArrivalsSound
<1>5. RefsCounted' /\ ClosesCounted'
  BY <1>1 DEF IInv, RefsCounted, ClosesCounted
<1>6. QED
  BY <1>2, <1>3, <1>4, <1>5 DEF IInv

LEMMA InvNext == IInv /\ [Next]_vars => IInv'
<1> SUFFICES ASSUME IInv, [Next]_vars
             PROVE  IInv'
  OBVIOUS
<1>1. ASSUME NEW c \in Callers, Begin(c)
      PROVE  IInv'
  BY <1>1, InvAcquireHit, InvAcquireMiss DEF Begin
<1>2. ASSUME NEW c \in Callers, Connect(c)
      PROVE  IInv'
  BY <1>2, InvConnectFails, InvConnectSucceeds DEF Connect
<1>3. ASSUME NEW c \in Callers, Connected(c)
      PROVE  IInv'
  BY <1>3, InvConnectedClosed, InvConnectedLate, InvConnectedFirst DEF Connected
<1>4. ASSUME NEW c \in Callers, Finish(c)
      PROVE  IInv'
  <2>1. CASE MarkPinned(c)
    BY <2>1, InvMarkPinned
  <2>2. CASE Release(c)
    <3>1. pc[c] \in Leasing /\ DropReference(holds[c]) /\ Leave(c)
      BY <2>2 DEF Release, Leasing
    <3>2. pc' = [pc EXCEPT ![c] = pc'[c]]
      BY <3>1 DEF Leave, IInv, TypeOK
    <3>3. QED
      BY <3>1, <3>2, InvDropReference
  <2>3. CASE ReleasePin(c)
    <3>1. /\ pc[c] \in Leasing /\ DropReference(holds[c])
          /\ pc' = [pc EXCEPT ![c] = "sharing"] /\ UNCHANGED <<target, holds>>
      BY <2>3 DEF ReleasePin, Leasing
    <3>2. pc' = [pc EXCEPT ![c] = pc'[c]] /\ pc'[c] = "sharing"
      BY <3>1 DEF IInv, TypeOK
    <3>3. QED
      BY <3>1, <3>2, InvDropReference
  <2>4. QED
    BY <1>4, <2>1, <2>2, <2>3 DEF Finish
<1>5. CASE ClosePool
  BY <1>5, InvClosePool
<1>6. CASE UNCHANGED vars
  BY <1>6, InvStutter
<1>7. QED
  BY <1>1, <1>2, <1>3, <1>4, <1>5, <1>6 DEF Next, CallerStep

\* The inductive invariant holds in every state of the pool.
THEOREM InductiveInvariant == Spec => []IInv
BY InvInit, InvNext, PTL DEF Spec

-----------------------------------------------------------------------------
(* The safety properties, from the invariant. *)

\* Every variable keeps its type; reference counts in particular never go
\* below zero, however releases, evictions and Close interleave.
THEOREM TypeCorrect == Spec => []TypeOK
<1>1. IInv => TypeOK
  BY DEF IInv
<1>2. QED
  BY <1>1, InductiveInvariant, PTL

\* Nobody's handle is closed while in use: a handle with a lessee has a
\* reference count above zero, and only unreferenced handles are closed.
THEOREM InUseStaysOpen == Spec => []InUseOpen
<1>1. IInv => InUseOpen
  <2> SUFFICES ASSUME IInv, NEW c \in Callers, pc[c] \in Leasing
               PROVE  holds[c] \in Open
    BY DEF InUseOpen
  <2>1. /\ holds[c] \in Handles /\ holds[c] \in opened
        /\ holds[c] \in Pooled \cup evicted
    BY DEF IInv, TypeOK, CallersPlaced, LeasesSound
  <2>2. c \in Lessees(holds[c])
    BY DEF Lessees
  <2>3. Cardinality(Lessees(holds[c])) # 0
    BY <2>2, LesseesFinite, FS_EmptySet
  <2>4. refs[holds[c]] # 0
    BY <2>1, <2>3 DEF IInv, RefsCounted
  <2>5. QED
    BY <2>1, <2>4 DEF IInv, ClosesCounted, Open
<1>2. QED
  BY <1>1, InductiveInvariant, PTL

\* Every open handle is in the pool or in somebody's hands.
THEOREM NothingLeaks == Spec => []NoLeak
<1>1. IInv => NoLeak
  <2> SUFFICES ASSUME IInv, NEW h \in Open
               PROVE  \/ h \in Listed(order) /\ handleOf[database[h]] = h
                      \/ \E c \in Callers : pc[c] \in Leasing \cup {"connected"} /\ holds[c] = h
    BY DEF NoLeak
  <2>1. h \in Handles /\ h \in opened /\ closes[h] = 0
    BY DEF Open, IInv, TypeOK
  <2>2. CASE h \in Pooled
    BY <2>2 DEF IInv, IndexSound, Pooled
  <2>3. CASE h \in evicted
    <3>1. Cardinality(Lessees(h)) # 0
      BY <2>1, <2>3 DEF IInv, ClosesCounted, RefsCounted
    <3>2. Lessees(h) # {}
      BY <3>1, FS_EmptySet
    <3>3. QED
      BY <3>2 DEF Lessees
  <2>4. CASE h \notin Pooled \cup evicted
    BY <2>1, <2>4 DEF IInv, ClosesCounted, Arriving
  <2>5. QED
    BY <2>2, <2>3, <2>4
<1>2. QED
  BY <1>1, InductiveInvariant, PTL

\* No handle is closed twice.
THEOREM NothingClosedTwice == Spec => []ClosedOnce
<1>1. IInv => ClosedOnce
  BY DEF IInv, ClosesCounted, ClosedOnce
<1>2. QED
  BY <1>1, InductiveInvariant, PTL

\* Callers at work on one database share one handle, evicted ones excepted.
THEOREM SharedPerDatabase == Spec => []OneHandlePerDatabase
<1>1. IInv => OneHandlePerDatabase
  BY DEF IInv, LeasesSound, IndexSound, OneHandlePerDatabase
<1>2. QED
  BY <1>1, InductiveInvariant, PTL

-----------------------------------------------------------------------------
(* What any step does to the list: the four ways the code changes it. *)

\* Nothing moves; at most listed entries are pinned.
ListKept ==
    /\ order' = order /\ evicted' = evicted
    /\ pinned \subseteq pinned' /\ pinned' \subseteq pinned \cup Pooled

\* An entry becomes the most recently used one.
ListMoved(h) ==
    /\ h \in Pooled /\ order' = ToFront(order, h)
    /\ UNCHANGED <<evicted, pinned>>

\* Entries are evicted, pinned ones by Close only.
ListShrunk(gone) ==
    /\ gone \in SUBSET Pooled /\ order' = Without(order, gone)
    /\ evicted' = evicted \cup gone /\ UNCHANGED pinned
    /\ closed' \/ gone \cap pinned = {}

\* A new entry comes in, and the list shrinks to the limit.
ListGrown(h) ==
    /\ h \in Handles /\ h \notin Pooled \cup evicted
    /\ order' = Without(ToFront(order, h), OverLimitVictims(ToFront(order, h)))
    /\ evicted' = evicted \cup OverLimitVictims(ToFront(order, h))
    /\ UNCHANGED pinned

ListSteps ==
    /\ closed => closed'
    /\ \/ ListKept
       \/ \E h \in Handles : ListMoved(h) \/ ListGrown(h)
       \/ \E gone \in SUBSET Pooled : ListShrunk(gone)

LEMMA NextListSteps == IInv /\ [Next]_vars => ListSteps
<1> SUFFICES ASSUME IInv, [Next]_vars PROVE ListSteps
  OBVIOUS
<1> USE PoolAssumption
<1>0. Pooled \subseteq Handles
  BY DEF Pooled, Listed
<1>1. ASSUME NEW c \in Callers, NEW d \in Databases, AcquireHit(c, d) PROVE ListSteps
  <2>1. handleOf[d] \in Handles /\ handleOf[d] \in Pooled
    BY <1>1, MappedHandle DEF IInv, AcquireHit
  <2>2. ListMoved(handleOf[d]) /\ closed' = closed
    BY <1>1, <2>1 DEF AcquireHit, Use, ListMoved
  <2>3. QED
    BY <2>1, <2>2 DEF ListSteps
<1>2. ASSUME NEW c \in Callers, NEW d \in Databases, AcquireMiss(c, d) PROVE ListSteps
  <2> DEFINE gone == IF Cardinality(Listed(order)) >= Max THEN IdleVictims(order) ELSE {}
  <2>1. gone \in SUBSET Pooled /\ gone \cap pinned = {}
    BY DEF IdleVictims, Pooled
  <2>2. EvictFrom(order, handleOf, refs, gone) /\ closed' = closed /\ pinned' = pinned
    BY <1>2 DEF AcquireMiss
  <2> HIDE DEF gone
  <2>3. ListShrunk(gone)
    BY <2>1, <2>2 DEF EvictFrom, ListShrunk
  <2>4. QED
    BY <2>1, <2>2, <2>3 DEF ListSteps
<1>3. ASSUME NEW c \in Callers, Connect(c) PROVE ListSteps
  BY <1>3 DEF Connect, ConnectFails, ConnectSucceeds, poolVars, ListSteps, ListKept
<1>4. ASSUME NEW c \in Callers, ConnectedClosed(c) PROVE ListSteps
  BY <1>4 DEF ConnectedClosed, poolVars, ListSteps, ListKept
<1>5. ASSUME NEW c \in Callers, ConnectedLate(c) PROVE ListSteps
  <2> DEFINE h == handleOf[target[c]]
  <2>1. target[c] \in Databases /\ h # NoHandle
    BY <1>5 DEF ConnectedLate, IInv, CallersPlaced
  <2>2. h \in Handles /\ h \in Pooled
    BY <2>1, MappedHandle DEF IInv
  <2>3. ListMoved(h) /\ closed' = closed
    BY <1>5, <2>2 DEF ConnectedLate, Use, ListMoved
  <2>4. QED
    BY <2>2, <2>3 DEF ListSteps
<1>6. ASSUME NEW c \in Callers, ConnectedFirst(c) PROVE ListSteps
  <2>1. holds[c] \in Handles /\ holds[c] \notin Pooled \cup evicted
    BY <1>6 DEF ConnectedFirst, IInv, TypeOK, CallersPlaced, ArrivalsSound, Leasing
  <2>2. ListGrown(holds[c]) /\ closed' = closed
    BY <1>6, <2>1 DEF ConnectedFirst, InsertOwn, Insert, EvictFrom, ListGrown
  <2>3. QED
    BY <2>1, <2>2 DEF ListSteps
<1>7. ASSUME NEW c \in Callers, MarkPinned(c) PROVE ListSteps
  <2>1. target[c] \in Databases
    BY <1>7 DEF MarkPinned, IInv, CallersPlaced
  <2>2. {handleOf[target[c]]} \ {NoHandle} \subseteq Pooled
    BY <2>1, MappedHandle DEF IInv
  <2>3. ListKept /\ closed' = closed
    BY <1>7, <2>2 DEF MarkPinned, ListKept
  <2>4. QED
    BY <2>3 DEF ListSteps
<1>8. ASSUME NEW c \in Callers, Release(c) \/ ReleasePin(c) PROVE ListSteps
  BY <1>8 DEF Release, ReleasePin, DropReference, ListSteps, ListKept
<1>9. CASE ClosePool
  <2>1. ListShrunk(Pooled) /\ closed'
    BY <1>9 DEF ClosePool, EvictFrom, ListShrunk, Pooled
  <2>2. QED
    BY <2>1 DEF ListSteps
<1>10. CASE UNCHANGED vars
  BY <1>10 DEF vars, poolVars, ListSteps, ListKept
<1>11. QED
  BY <1>1, <1>2, <1>3, <1>4, <1>5, <1>6, <1>7, <1>8, <1>9, <1>10
  DEF Next, CallerStep, Begin, Connected, Finish

\* The entries after a step.
LEMMA PooledAfter ==
    /\ ListKept => Pooled' = Pooled
    /\ \A h \in Handles : ListMoved(h) => Pooled' = Pooled
    /\ \A gone \in SUBSET Pooled : ListShrunk(gone) => Pooled' = Pooled \ gone
    /\ \A h \in Handles : ListGrown(h) =>
          Pooled' = (Pooled \cup {h}) \ OverLimitVictims(ToFront(order, h))
<1>1. ListKept => Pooled' = Pooled
  BY DEF ListKept, Pooled, Listed
<1>2. ASSUME NEW h \in Handles, ListMoved(h) PROVE Pooled' = Pooled
  BY <1>2, ListedToFront DEF ListMoved, Pooled, Listed
<1>3. ASSUME NEW gone \in SUBSET Pooled, ListShrunk(gone) PROVE Pooled' = Pooled \ gone
  BY <1>3, ListedWithout DEF ListShrunk, Pooled, Listed
<1>4. ASSUME NEW h \in Handles, ListGrown(h)
      PROVE  Pooled' = (Pooled \cup {h}) \ OverLimitVictims(ToFront(order, h))
  <2>1. Pooled' = Listed(ToFront(order, h)) \ OverLimitVictims(ToFront(order, h))
    BY <1>4, ListedWithout DEF ListGrown, Pooled, Listed
  <2>2. QED
    BY <2>1, ListedToFront DEF Pooled
<1>5. QED
  BY <1>1, <1>2, <1>3, <1>4

\* A pinned entry stays listed until Close.
LEMMA PinnedStays == ListSteps => closed' \/ (Pooled \cap pinned \subseteq Pooled' \cap pinned')
<1>1. \A h \in Handles : OverLimitVictims(ToFront(order, h)) \cap pinned = {}
  BY DEF OverLimitVictims
<1>2. QED
  BY <1>1, PooledAfter DEF ListSteps, ListKept, ListMoved, ListShrunk, ListGrown

-----------------------------------------------------------------------------
(* The limit. *)

\* Any nonempty set of naturals has a least element.
LEMMA LeastNatural ==
    ASSUME NEW T \in SUBSET Nat, T # {}
    PROVE  \E x \in T : \A y \in T : x <= y
<1> DEFINE R == OpToRel(<, Nat)
<1>1. IsWellFoundedOn(R, Nat)
  BY NatLessThanWellFounded
<1>2. \A x, y \in Nat : <<y, x>> \in R <=> y < x
  BY DEF OpToRel
<1> HIDE DEF R
<1>3. \E x \in T : \A y \in T : ~(<<y, x>> \in R)
  BY <1>1, WFMin, Zenon
<1>4. PICK x \in T : \A y \in T : ~(<<y, x>> \in R)
  BY <1>3
<1>5. ASSUME NEW y \in T PROVE x <= y
  <2>1. ~(y < x)
    BY <1>2, <1>4
  <2>2. x \in Nat /\ y \in Nat
    OBVIOUS
  <2>3. QED
    BY <2>1, <2>2
<1>6. QED
  BY <1>5

\* The list is a list: what is in front of what is an order.
OrderSound(ord) ==
    \A f, g, h \in Handles :
        /\ <<f, g>> \in ord /\ <<g, h>> \in ord => <<f, h>> \in ord
        /\ <<f, g>> \in ord /\ <<g, f>> \in ord => f = g

LEMMA OrderToFront ==
    ASSUME NEW ord, NEW h \in Handles, OrderSound(ord),
           \A p \in ord : p[1] \in Listed(ord) /\ p[2] \in Listed(ord)
    PROVE  OrderSound(ToFront(ord, h))
<1>1. \A f, g \in Handles : <<f, g>> \in ToFront(ord, h) <=>
          \/ <<f, g>> \in ord /\ f # h /\ g # h
          \/ f = h /\ g \in Listed(ord) \cup {h}
  BY DEF ToFront
<1>2. \A f, g \in Handles : <<f, g>> \in ord => f \in Listed(ord) /\ g \in Listed(ord)
  <2>1. ASSUME NEW f \in Handles, NEW g \in Handles, <<f, g>> \in ord
        PROVE  f \in Listed(ord) /\ g \in Listed(ord)
    <3>1. <<f, g>>[1] = f /\ <<f, g>>[2] = g
      OBVIOUS
    <3>2. QED
      BY <2>1, <3>1
  <2>2. QED
    BY <2>1
<1>3. QED
  BY <1>1, <1>2 DEF OrderSound

LEMMA OrderWithout ==
    ASSUME NEW ord, NEW gone, OrderSound(ord)
    PROVE  OrderSound(Without(ord, gone))
<1>1. \A f, g \in Handles : <<f, g>> \in Without(ord, gone) <=>
          <<f, g>> \in ord /\ f \notin gone /\ g \notin gone
  BY DEF Without
<1>2. QED
  BY <1>1 DEF OrderSound

\* Some handle of a nonempty set is met first by an iteration from Back():
\* the one with the fewest behind it, since whatever was behind it would have
\* fewer still.
LEMMA BackExists ==
    ASSUME PoolAssumption, NEW ord, OrderSound(ord),
           NEW S \in SUBSET Handles, S # {}
    PROVE  \E h \in S : Behind(ord, h, S) = {}
<1>1. \A h \in S : /\ Behind(ord, h, S) \in SUBSET Handles
                   /\ IsFiniteSet(Behind(ord, h, S))
                   /\ Cardinality(Behind(ord, h, S)) \in Nat
  BY PoolAssumption, FS_Subset, FS_CardinalityType DEF Behind
<1> DEFINE T == {Cardinality(Behind(ord, h, S)) : h \in S}
<1>2. T \in SUBSET Nat /\ T # {}
  BY <1>1
<1>3. \E x \in T : \A y \in T : x <= y
  BY <1>2, LeastNatural
<1>4. PICK h \in S : \A g \in S :
         Cardinality(Behind(ord, h, S)) <= Cardinality(Behind(ord, g, S))
  BY <1>3
<1>5. ASSUME NEW g \in Behind(ord, h, S) PROVE FALSE
  <2>1. g \in S /\ g # h /\ <<h, g>> \in ord
    BY <1>5 DEF Behind
  <2>2. Behind(ord, g, S) \subseteq Behind(ord, h, S) \ {g}
    BY <2>1 DEF Behind, OrderSound
  <2>3. /\ IsFiniteSet(Behind(ord, h, S) \ {g})
        /\ Cardinality(Behind(ord, h, S) \ {g}) = Cardinality(Behind(ord, h, S)) - 1
    BY <1>1, <1>5, FS_RemoveElement
  <2>4. Cardinality(Behind(ord, g, S)) <= Cardinality(Behind(ord, h, S)) - 1
    BY <2>2, <2>3, FS_Subset
  <2>5. QED
    BY <1>1, <1>4, <2>1, <2>4
<1>6. QED
  BY <1>5

\* evictOverLimit after an entry came in: one victim is enough where the
\* limit held, and where pinned entries fill the pool it is the newcomer.
LEMMA EvictionSuffices ==
    ASSUME PoolAssumption, NEW h \in Handles, h \notin Pooled, h \notin pinned,
           OrderSound(ToFront(order, h)), WithinLimit
    PROVE  LET left == (Pooled \cup {h}) \ OverLimitVictims(ToFront(order, h))
           IN  Cardinality(left) <= Max \/ left \subseteq pinned
<1> DEFINE ord == ToFront(order, h)
           size == Cardinality(Pooled \cup {h})
           free == (Pooled \cup {h}) \ pinned
           left == (Pooled \cup {h}) \ OverLimitVictims(ord)
<1>1. /\ IsFiniteSet(Pooled) /\ Cardinality(Pooled) \in Nat /\ Max \in Nat \ {0}
      /\ IsFiniteSet(Pooled \cup {h}) /\ size \in Nat /\ size = Cardinality(Pooled) + 1
  <2>1. Pooled \subseteq Handles
    BY DEF Pooled, Listed
  <2>2. QED
    BY <2>1, PoolAssumption, FS_Subset, FS_CardinalityType, FS_AddElement
<1>2. OverLimitVictims(ord) = {g \in free : Cardinality(Behind(ord, g, free)) + Max < size}
  BY ListedToFront DEF OverLimitVictims, Pooled
<1>3. free \in SUBSET Handles /\ h \in free
  BY DEF Pooled, Listed
<1> HIDE DEF ord, size, free
<1>4. CASE Cardinality(Pooled) < Max
  <2>1. left \subseteq Pooled \cup {h}
    OBVIOUS
  <2>2. Cardinality(left) <= size
    BY <1>1, <2>1, FS_Subset DEF size
  <2>3. Cardinality(left) \in Nat
    BY <1>1, <2>1, FS_Subset, FS_CardinalityType
  <2>4. QED
    BY <1>1, <1>4, <2>2, <2>3 DEF ord
<1>5. CASE Cardinality(Pooled) = Max
  <2>1. PICK b \in free : Behind(ord, b, free) = {}
    BY <1>3, BackExists DEF ord
  <2>2. b \in OverLimitVictims(ord)
    <3>1. Cardinality(Behind(ord, b, free)) = 0
      BY <2>1, FS_EmptySet
    <3>2. Cardinality(Behind(ord, b, free)) + Max < size
      BY <1>1, <1>5, <3>1
    <3>3. QED
      BY <1>2, <2>1, <3>2
  <2>3. b \in Pooled \cup {h} /\ left \subseteq (Pooled \cup {h}) \ {b}
    BY <2>1, <2>2 DEF free
  <2>4. /\ IsFiniteSet((Pooled \cup {h}) \ {b})
        /\ Cardinality((Pooled \cup {h}) \ {b}) = size - 1
    BY <1>1, <2>3, FS_RemoveElement DEF size
  <2>5. Cardinality(left) <= size - 1
    BY <2>3, <2>4, FS_Subset
  <2>6. QED
    BY <1>1, <1>5, <2>5 DEF ord
<1>6. CASE Pooled \subseteq pinned /\ Cardinality(Pooled) > Max
  <2>1. free = {h}
    BY <1>6 DEF free
  <2>2. Behind(ord, h, free) = {}
    BY <2>1 DEF Behind
  <2>3. h \in OverLimitVictims(ord)
    <3>1. Cardinality(Behind(ord, h, free)) = 0
      BY <2>2, FS_EmptySet
    <3>2. Cardinality(Behind(ord, h, free)) + Max < size
      BY <1>1, <1>6, <3>1
    <3>3. QED
      BY <1>2, <1>3, <3>2
  <2>4. QED
    BY <1>6, <2>3 DEF ord
<1>7. QED
  BY <1>1, <1>4, <1>5, <1>6 DEF WithinLimit, Pooled

LimitInv ==
    /\ OrderSound(order)
    /\ pinned \subseteq Pooled \cup evicted
    /\ WithinLimit

LEMMA LimitStep == IInv /\ LimitInv /\ [Next]_vars => LimitInv'
<1> SUFFICES ASSUME IInv, LimitInv, [Next]_vars PROVE LimitInv'
  OBVIOUS
<1> USE PoolAssumption
<1>0. /\ ListSteps
      /\ \A p \in order : p[1] \in Listed(order) /\ p[2] \in Listed(order)
      /\ Pooled \cap evicted = {}
  BY NextListSteps DEF IInv, IndexSound, EntriesSound, Pooled
<1>1. CASE ListKept
  BY <1>1, PooledAfter DEF ListKept, LimitInv, WithinLimit, Pooled
<1>2. ASSUME NEW h \in Handles, ListMoved(h) PROVE LimitInv'
  <2>1. Pooled' = Pooled
    BY <1>2, PooledAfter
  <2>2. OrderSound(order')
    BY <1>0, <1>2, OrderToFront DEF ListMoved, LimitInv
  <2>3. QED
    BY <1>2, <2>1, <2>2 DEF ListMoved, LimitInv, WithinLimit, OrderSound, Pooled
<1>3. ASSUME NEW gone \in SUBSET Pooled, ListShrunk(gone) PROVE LimitInv'
  <2>1. Pooled' = Pooled \ gone
    BY <1>3, PooledAfter
  <2>2. OrderSound(order')
    BY <1>3, OrderWithout DEF ListShrunk, LimitInv
  <2>3. Cardinality(Pooled') <= Cardinality(Pooled)
        /\ Cardinality(Pooled') \in Nat /\ Cardinality(Pooled) \in Nat
    <3>1. Pooled \subseteq Handles /\ Pooled' \subseteq Pooled
      BY <2>1 DEF Pooled, Listed
    <3>2. QED
      BY <3>1, FS_Subset, FS_CardinalityType
  <2>4. WithinLimit'
    BY <1>3, <2>1, <2>3 DEF ListShrunk, LimitInv, WithinLimit, Pooled
  <2>5. QED
    BY <1>3, <2>1, <2>2, <2>4 DEF ListShrunk, LimitInv, OrderSound
<1>4. ASSUME NEW h \in Handles, ListGrown(h) PROVE LimitInv'
  <2> DEFINE gone == OverLimitVictims(ToFront(order, h))
  <2>1. Pooled' = (Pooled \cup {h}) \ gone
    BY <1>4, PooledAfter
  <2>2. h \notin Pooled /\ h \notin evicted /\ h \notin pinned
    BY <1>4 DEF ListGrown, LimitInv
  <2>3. OrderSound(ToFront(order, h))
    BY <1>0, OrderToFront DEF LimitInv
  <2>4. OrderSound(order')
    BY <1>4, <2>3, OrderWithout DEF ListGrown
  <2>5. Cardinality(Pooled') <= Max \/ Pooled' \subseteq pinned
    BY <2>1, <2>2, <2>3, EvictionSuffices DEF LimitInv
  <2>6. evicted' = evicted \cup gone /\ pinned' = pinned
    BY <1>4 DEF ListGrown
  <2> HIDE DEF gone
  <2>7. QED
    BY <2>1, <2>4, <2>5, <2>6 DEF LimitInv, WithinLimit, OrderSound, Pooled
<1>5. QED
  BY <1>0, <1>1, <1>2, <1>3, <1>4 DEF ListSteps

\* The pool never holds more than Max databases, unless pinned ones alone fill
\* it: evictOverLimit always finds an entry to evict.
THEOREM LimitKept == Spec => []WithinLimit
<1>1. Init => LimitInv
  <2> SUFFICES ASSUME Init PROVE LimitInv
    OBVIOUS
  <2>1. Listed(order) = {}
    BY DEF Init, Listed
  <2>2. Cardinality(Listed(order)) = 0
    BY <2>1, FS_EmptySet
  <2>3. QED
    BY <2>2, PoolAssumption DEF Init, LimitInv, OrderSound, WithinLimit
<1>2. LimitInv => WithinLimit
  BY DEF LimitInv
<1>3. QED
  BY <1>1, <1>2, LimitStep, InductiveInvariant, PTL DEF Spec

-----------------------------------------------------------------------------
(* The agent's own connection. *)

\* Pin is one caller's: until it has returned nobody else works, so the list
\* holds its entry only; from then on the entry is marked.
PinProgress(p) ==
    /\ pc[p] \in {"idle", "connecting", "connected"} => Pooled = {}
    /\ pc[p] = "pinning" => holds[p] \in Pooled
    /\ pc[p] \in {"unpinning", "sharing"} => closed \/ holds[p] \in Pooled \cap pinned

AgentInv ==
    /\ \A c \in Callers : pc[c] \in {"pinning", "unpinning", "sharing"} => c \in Pinners
    /\ \A p \in Pinners : pc[p] # "using" /\ PinProgress(p)

\* The step of one caller is at one place, and only the callers that pin go
\* on to mark.
LEMMA CallerMoves ==
    ASSUME IInv, NEW c \in Callers, CallerStep(c)
    PROVE  /\ pc[c] # "sharing"
           /\ \A b \in Callers \ {c} : pc'[b] = pc[b] /\ holds'[b] = holds[b]
           /\ pc'[c] = "using" => c \notin Pinners
           /\ pc'[c] = "pinning" => c \in Pinners
           /\ pc'[c] = "unpinning" => pc[c] = "pinning"
           /\ pc'[c] = "sharing" => pc[c] = "unpinning"
<1>0. pc \in [Callers -> Steps] /\ holds \in [Callers -> Handles \cup {NoHandle}]
  BY DEF IInv, TypeOK
<1>1. CASE Begin(c)
  BY <1>0, <1>1 DEF Begin, AcquireHit, AcquireMiss, TakeLease
<1>2. CASE Connect(c)
  BY <1>0, <1>2 DEF Connect, ConnectFails, ConnectSucceeds, Leave
<1>3. CASE Connected(c)
  BY <1>0, <1>3 DEF Connected, ConnectedClosed, ConnectedLate, ConnectedFirst, InsertOwn,
                    Insert, TakeLease, Leave
<1>4. CASE Finish(c)
  BY <1>0, <1>4 DEF Finish, MarkPinned, Release, ReleasePin, Leave
<1>5. QED
  BY <1>1, <1>2, <1>3, <1>4 DEF CallerStep

\* The steps of Pin keep PinProgress: the pool is empty before its handle
\* comes in, so the handle stays, and nobody evicts it before it is marked.
LEMMA PinMoves ==
    ASSUME IInv, NEW p \in Pinners, p \in Callers, PinProgress(p), pc[p] # "using", CallerStep(p)
    PROVE  PinProgress(p)'
<1> USE PoolAssumption
<1>0. pc \in [Callers -> Steps] /\ holds \in [Callers -> Handles \cup {NoHandle}]
  BY DEF IInv, TypeOK
<1>1. ASSUME NEW d \in Databases, AcquireHit(p, d) PROVE PinProgress(p)'
  <2>1. pc[p] = "idle" /\ handleOf[d] # NoHandle
    BY <1>1 DEF AcquireHit
  <2>2. handleOf[d] \in Pooled
    BY <2>1, MappedHandle DEF IInv
  <2>3. QED
    BY <2>1, <2>2 DEF PinProgress
<1>2. ASSUME NEW d \in Databases, AcquireMiss(p, d) PROVE PinProgress(p)'
  <2>1. pc[p] = "idle" /\ pc'[p] = "connecting" /\ Pooled = {}
    BY <1>0, <1>2 DEF AcquireMiss, PinProgress
  <2>2. Pooled' = {}
    BY <1>2, <2>1, ListedWithout DEF AcquireMiss, EvictFrom, Pooled, Listed
  <2>3. QED
    BY <2>1, <2>2 DEF PinProgress
<1>3. CASE Connect(p) \/ ConnectedClosed(p)
  <2>1. /\ pc[p] \in {"connecting", "connected"} /\ pc'[p] \in {"idle", "connected"}
        /\ order' = order
    BY <1>0, <1>3 DEF Connect, ConnectFails, ConnectSucceeds, ConnectedClosed, Leave, poolVars
  <2>2. Pooled' = {}
    BY <2>1 DEF PinProgress, Pooled, Listed
  <2>3. QED
    BY <2>1, <2>2 DEF PinProgress
<1>4. CASE ConnectedLate(p)
  <2>1. pc[p] = "connected" /\ target[p] \in Databases /\ handleOf[target[p]] # NoHandle
    BY <1>4 DEF ConnectedLate, IInv, CallersPlaced
  <2>2. handleOf[target[p]] \in Pooled
    BY <2>1, MappedHandle DEF IInv
  <2>3. QED
    BY <2>1, <2>2 DEF PinProgress
<1>5. CASE ConnectedFirst(p)
  <2> DEFINE h == holds[p]
             ord == ToFront(order, h)
  <2>1. /\ h \in Handles /\ h \in opened /\ pc[p] = "connected"
        /\ order' = Without(ord, OverLimitVictims(ord))
        /\ pc'[p] = "pinning" /\ holds'[p] = h
    BY <1>0, <1>5 DEF ConnectedFirst, InsertOwn, Insert, EvictFrom, TakeLease, IInv, TypeOK,
                      CallersPlaced
  <2>2. Listed(ord) = {h}
    BY <2>1, ListedToFront DEF PinProgress, Pooled
  <2>3. OverLimitVictims(ord) = {}
    <3>1. Cardinality(Listed(ord)) = 1
      BY <2>2, FS_Singleton
    <3>2. ASSUME NEW g \in OverLimitVictims(ord) PROVE FALSE
      <4>1. g \in {h} /\ Cardinality(Behind(ord, g, {h} \ pinned)) + Max < 1
        BY <2>2, <3>1, <3>2 DEF OverLimitVictims
      <4>2. Behind(ord, g, {h} \ pinned) = {}
        BY <4>1 DEF Behind
      <4>3. Cardinality(Behind(ord, g, {h} \ pinned)) = 0
        BY <4>2, FS_EmptySet
      <4>4. QED
        BY <4>1, <4>3
    <3>3. QED
      BY <3>2
  <2>4. h \in Pooled'
    BY <2>1, <2>2, <2>3, ListedWithout DEF Pooled, Listed
  <2>5. QED
    BY <2>1, <2>4 DEF PinProgress
<1>6. CASE MarkPinned(p)
  <2>1. /\ pc[p] = "pinning" /\ pc'[p] = "unpinning" /\ holds' = holds /\ order' = order
        /\ pinned' = pinned \cup ({handleOf[target[p]]} \ {NoHandle})
        /\ holds[p] \in Pooled
    BY <1>0, <1>6 DEF MarkPinned, PinProgress
  <2>2. handleOf[target[p]] = holds[p]
    BY <2>1 DEF IInv, LeasesSound, IndexSound, Leasing
  <2>3. holds[p] \in Handles /\ holds[p] \in pinned'
    BY <2>1, <2>2 DEF Pooled, Listed
  <2>4. QED
    BY <2>1, <2>3 DEF PinProgress, Pooled, Listed
<1>7. CASE ReleasePin(p)
  BY <1>0, <1>7 DEF ReleasePin, DropReference, PinProgress, Pooled, Listed
<1>8. QED
  BY <1>1, <1>2, <1>3, <1>4, <1>5, <1>6, <1>7
  DEF CallerStep, Begin, Connected, Finish, Release

LEMMA AgentStep ==
    ASSUME \A p, q \in Pinners : p = q, IInv, AgentInv, [AgentNext]_vars
    PROVE  AgentInv'
<1> USE PoolAssumption
<1>0. [Next]_vars
  BY DEF AgentNext, Next
<1>1. ListSteps
  BY <1>0, NextListSteps
<1>2. closed' \/ (Pooled \cap pinned \subseteq Pooled' \cap pinned')
  BY <1>1, PinnedStays
<1>3. ASSUME NEW c \in Callers, CallerStep(c), c \in Pinners \/ \A p \in Pinners : pc[p] = "sharing"
      PROVE  AgentInv'
  <2>1. \A b \in Callers : pc'[b] \in {"pinning", "unpinning", "sharing"} => b \in Pinners
    BY <1>3, CallerMoves DEF AgentInv
  <2>2. ASSUME NEW p \in Pinners PROVE pc'[p] # "using" /\ PinProgress(p)'
    <3>1. CASE p = c
      BY <1>3, <2>2, <3>1, CallerMoves, PinMoves DEF AgentInv
    <3>2. CASE p # c
      <4>1. pc[p] = "sharing" /\ pc'[p] = "sharing" /\ holds'[p] = holds[p]
        BY <1>3, <2>2, <3>2, CallerMoves
      <4>2. closed \/ holds[p] \in Pooled \cap pinned
        BY <2>2, <4>1 DEF AgentInv, PinProgress
      <4>3. QED
        BY <1>1, <1>2, <4>1, <4>2 DEF ListSteps, PinProgress
    <3>3. QED
      BY <3>1, <3>2
  <2>3. QED
    BY <2>1, <2>2 DEF AgentInv
<1>4. CASE ClosePool /\ \A p \in Pinners : pc[p] = "sharing"
  BY <1>4 DEF ClosePool, callerVars, AgentInv, PinProgress
<1>5. CASE UNCHANGED vars
  BY <1>5 DEF vars, poolVars, callerVars, AgentInv, PinProgress, Pooled, Listed
<1>6. QED
  BY <1>3, <1>4, <1>5 DEF AgentNext

\* The handle that main pinned stays open until Close, whatever the gatherers
\* connect to and however small the pool is.  It takes that main.run pins one
\* connection, alone: of two callers in Pin one may evict the other's entry
\* before it is marked.
THEOREM PinnedStaysOpen ==
    ASSUME \A p, q \in Pinners : p = q
    PROVE  AgentSpec => []PinnedUntilClose
<1>1. Init => AgentInv
  BY PoolAssumption DEF Init, AgentInv, PinProgress, Pooled, Listed
<1>2. AgentInv /\ IInv /\ [AgentNext]_vars => AgentInv'
  BY AgentStep
<1>3. [AgentNext]_vars => [Next]_vars
  BY DEF AgentNext, Next
<1>4. ASSUME IInv, AgentInv PROVE PinnedUntilClose
  <2> SUFFICES ASSUME NEW c \in Callers, pc[c] = "sharing", ~closed
               PROVE  holds[c] \in Open
    BY DEF PinnedUntilClose
  <2>1. holds[c] \in Pooled
    BY <1>4 DEF AgentInv, PinProgress
  <2>2. holds[c] \in Handles /\ holds[c] \in opened /\ holds[c] \notin evicted
    BY <1>4, <2>1 DEF IInv, EntriesSound, Pooled, Listed
  <2>3. QED
    BY <1>4, <2>1, <2>2 DEF IInv, ClosesCounted, Open
<1>5. Init /\ [][Next]_vars => []IInv
  BY InvInit, InvNext, PTL
<1>6. QED
  BY <1>1, <1>2, <1>3, <1>4, <1>5, PTL DEF AgentSpec

-----------------------------------------------------------------------------
(* The refinement of HandleLease. *)

LeaseOf == [c \in Callers |-> IF pc[c] \in Leasing THEN holds[c] ELSE NoHandle]

\* A step that opens nothing and closes only what nobody leases after it.
LEMMA RetireMaps ==
    ASSUME IInv, InUseOpen', opened' = opened,
           closes' \in [Handles -> Nat], \A h \in Handles : closes'[h] = 0 => closes[h] = 0
    PROVE  Lease!Retire(Open)
<1> DEFINE gone == Open \ Open'
<1>1. Open' = Open \ gone /\ (opened' \ Open') = (opened \ Open) \cup gone
  BY DEF Open, IInv, TypeOK
<1>2. \A c \in Callers : LeaseOf'[c] # NoHandle => LeaseOf'[c] \in Open'
  BY DEF InUseOpen, LeaseOf
<1>3. gone \in SUBSET (Open \ Lease!Leased(LeaseOf'))
  BY <1>2 DEF Lease!Leased
<1>4. QED
  BY <1>1, <1>3 DEF Lease!Retire, LeaseOf

\* A caller takes a lease on an open handle.
LEMMA GrantMaps ==
    ASSUME IInv, NEW c \in Callers, NEW h \in Open, pc[c] \notin Leasing, TakeLease(c, h),
           ~closed, closed' = closed, Lease!Retire(Open)
    PROVE  Lease!Next
<1>1. h \in Handles
  BY DEF Open, IInv, TypeOK
<1>2. LeaseOf[c] = NoHandle /\ LeaseOf' = [LeaseOf EXCEPT ![c] = h]
  BY <1>1 DEF TakeLease, IInv, TypeOK, LeaseOf, Leasing
<1>3. Lease!Grant(c, h)
  BY <1>2 DEF Lease!Grant, LeaseOf
<1>4. QED
  BY <1>1, <1>3 DEF Lease!Next

\* Nobody's lease changes, and nothing is opened.
LEMMA EvictMaps ==
    ASSUME LeaseOf' = LeaseOf, closed' = closed, Lease!Retire(Open)
    PROVE  Lease!Next
BY DEF Lease!Next, Lease!Evict, LeaseOf

LEMMA GiveBackMaps ==
    ASSUME IInv, NEW c \in Callers, pc[c] \in Leasing, pc'[c] \notin Leasing,
           \A b \in Callers \ {c} : pc'[b] = pc[b] /\ holds'[b] = holds[b],
           closed' = closed, Lease!Retire(Open)
    PROVE  Lease!Next
<1>1. LeaseOf[c] # NoHandle
  BY PoolAssumption DEF LeaseOf, IInv, TypeOK, CallersPlaced
<1>2. LeaseOf' = [LeaseOf EXCEPT ![c] = NoHandle]
  BY DEF LeaseOf
<1>3. Lease!GiveBack(c)
  BY <1>1, <1>2 DEF Lease!GiveBack, LeaseOf
<1>4. QED
  BY <1>3 DEF Lease!Next

\* The handles in the list are open, and so is one on its way into it.
LEMMA ListedOpen ==
    ASSUME IInv
    PROVE  /\ Pooled \subseteq Open
           /\ \A c \in Callers : pc[c] = "connected" => holds[c] \in Open
<1>1. Pooled \subseteq Handles /\ Pooled \cap evicted = {} /\ Pooled \subseteq opened
  BY DEF IInv, EntriesSound, Pooled, Listed
<1>2. Pooled \subseteq Open
  BY <1>1 DEF IInv, ClosesCounted, Open
<1>3. ASSUME NEW c \in Callers, pc[c] = "connected" PROVE holds[c] \in Open
  <2>1. /\ holds[c] \in Handles /\ holds[c] \in opened /\ holds[c] \notin Pooled \cup evicted
        /\ Arriving(holds[c])
    BY <1>3 DEF IInv, TypeOK, CallersPlaced, ArrivalsSound, Arriving
  <2>2. QED
    BY <2>1 DEF IInv, ClosesCounted, Open
<1>4. QED
  BY <1>2, <1>3

LEMMA StepMaps ==
    ASSUME IInv, IInv', InUseOpen', [Next]_vars
    PROVE  Lease!Next \/ UNCHANGED Lease!vars
<1> USE PoolAssumption
<1>0. /\ closes \in [Handles -> Nat] /\ closes' \in [Handles -> Nat]
      /\ pc \in [Callers -> Steps] /\ holds \in [Callers -> Handles \cup {NoHandle}]
  BY DEF IInv, TypeOK
<1>r. ASSUME opened' = opened, \A h \in Handles : closes'[h] = 0 => closes[h] = 0
      PROVE  Lease!Retire(Open)
  BY <1>0, <1>r, RetireMaps
<1>1. ASSUME NEW c \in Callers, NEW d \in Databases, AcquireHit(c, d) PROVE Lease!Next
  <2>1. handleOf[d] \in Open
    BY <1>1, MappedHandle, ListedOpen DEF AcquireHit, IInv
  <2>2. opened' = opened /\ closes' = closes /\ pc[c] \notin Leasing
        /\ TakeLease(c, handleOf[d]) /\ ~closed /\ closed' = closed
    BY <1>1 DEF AcquireHit, Use, handleVars, Leasing
  <2>3. QED
    BY <1>r, <2>1, <2>2, GrantMaps
<1>2. ASSUME NEW c \in Callers, NEW d \in Databases, AcquireMiss(c, d) PROVE Lease!Next
  <2>1. opened' = opened /\ \A h \in Handles : closes'[h] = 0 => closes[h] = 0
    BY <1>0, <1>2 DEF AcquireMiss, EvictFrom
  <2>2. LeaseOf' = LeaseOf /\ closed' = closed
    BY <1>0, <1>2 DEF AcquireMiss, LeaseOf, Leasing
  <2>3. QED
    BY <1>r, <2>1, <2>2, EvictMaps
<1>3. ASSUME NEW c \in Callers, ConnectFails(c) PROVE UNCHANGED Lease!vars
  <2>1. LeaseOf' = LeaseOf
    BY <1>0, <1>3 DEF ConnectFails, Leave, LeaseOf, Leasing
  <2>2. QED
    BY <1>3, <2>1 DEF ConnectFails, Lease!vars, LeaseOf, Open, poolVars, handleVars
<1>4. ASSUME NEW c \in Callers, NEW h \in Handles, ConnectSucceeds(c, h) PROVE Lease!Next
  <2>1. h \notin opened /\ opened' = opened \cup {h} /\ closes' = closes /\ closed' = closed
    BY <1>4 DEF ConnectSucceeds, poolVars
  <2>2. closes[h] = 0
    BY <2>1 DEF IInv, ClosesCounted, EntriesSound
  <2>3. Open' = Open \cup {h} /\ (opened' \ Open') = (opened \ Open)
    BY <2>1, <2>2 DEF Open
  <2>4. LeaseOf' = LeaseOf
    BY <1>0, <1>4 DEF ConnectSucceeds, LeaseOf, Leasing
  <2>5. Lease!Connect(h)
    BY <2>1, <2>3, <2>4 DEF Lease!Connect, LeaseOf, Open
  <2>6. QED
    BY <2>5 DEF Lease!Next
<1>5. ASSUME NEW c \in Callers, ConnectedClosed(c) PROVE Lease!Next
  <2>1. opened' = opened /\ \A h \in Handles : closes'[h] = 0 => closes[h] = 0
    BY <1>0, <1>5 DEF ConnectedClosed, CloseOwn
  <2>2. LeaseOf' = LeaseOf /\ closed' = closed
    BY <1>0, <1>5 DEF ConnectedClosed, Leave, LeaseOf, Leasing, poolVars
  <2>3. QED
    BY <1>r, <2>1, <2>2, EvictMaps
<1>6. ASSUME NEW c \in Callers, ConnectedLate(c) PROVE Lease!Next
  <2>1. target[c] \in Databases
    BY <1>6 DEF ConnectedLate, IInv, CallersPlaced
  <2>2. handleOf[target[c]] \in Open
    BY <1>6, <2>1, MappedHandle, ListedOpen DEF ConnectedLate, IInv
  <2>3. opened' = opened /\ \A h \in Handles : closes'[h] = 0 => closes[h] = 0
    BY <1>0, <1>6 DEF ConnectedLate, CloseOwn
  <2>4. /\ pc[c] \notin Leasing /\ TakeLease(c, handleOf[target[c]])
        /\ ~closed /\ closed' = closed
    BY <1>6 DEF ConnectedLate, Use, Leasing
  <2>5. QED
    BY <1>r, <2>2, <2>3, <2>4, GrantMaps
<1>7. ASSUME NEW c \in Callers, ConnectedFirst(c) PROVE Lease!Next
  <2>1. pc[c] \notin Leasing /\ holds[c] \in Open
    BY <1>7, ListedOpen DEF ConnectedFirst, Leasing
  <2>2. opened' = opened /\ \A h \in Handles : closes'[h] = 0 => closes[h] = 0
    BY <1>0, <1>7 DEF ConnectedFirst, InsertOwn, Insert, EvictFrom
  <2>3. TakeLease(c, holds[c]) /\ ~closed /\ closed' = closed
    BY <1>7 DEF ConnectedFirst, InsertOwn, Insert
  <2>4. QED
    BY <1>r, <2>1, <2>2, <2>3, GrantMaps
<1>8. ASSUME NEW c \in Callers, MarkPinned(c) PROVE UNCHANGED Lease!vars
  <2>1. LeaseOf' = LeaseOf
    BY <1>0, <1>8 DEF MarkPinned, LeaseOf, Leasing
  <2>2. QED
    BY <1>8, <2>1 DEF MarkPinned, Lease!vars, LeaseOf, Open, handleVars
<1>9. ASSUME NEW c \in Callers, Release(c) \/ ReleasePin(c) PROVE Lease!Next
  <2>1. opened' = opened /\ closed' = closed /\ \A h \in Handles : closes'[h] = 0 => closes[h] = 0
    BY <1>0, <1>9 DEF Release, ReleasePin, DropReference
  <2>2. /\ pc[c] \in Leasing /\ pc'[c] \notin Leasing
        /\ \A b \in Callers \ {c} : pc'[b] = pc[b] /\ holds'[b] = holds[b]
    BY <1>0, <1>9 DEF Release, ReleasePin, Leave, Leasing
  <2>3. QED
    BY <1>r, <2>1, <2>2, GiveBackMaps
<1>10. CASE ClosePool
  <2>1. opened' = opened /\ \A h \in Handles : closes'[h] = 0 => closes[h] = 0
    BY <1>0, <1>10 DEF ClosePool, EvictFrom
  <2>2. LeaseOf' = LeaseOf /\ closed' = TRUE
    BY <1>10 DEF ClosePool, callerVars, LeaseOf
  <2>3. Lease!Shut
    BY <1>r, <2>1, <2>2 DEF Lease!Shut, LeaseOf
  <2>4. QED
    BY <2>3 DEF Lease!Next
<1>11. CASE UNCHANGED vars
  BY <1>11 DEF vars, poolVars, handleVars, callerVars, Lease!vars, Open
<1>12. QED
  BY <1>1, <1>2, <1>3, <1>4, <1>5, <1>6, <1>7, <1>8, <1>9, <1>10, <1>11
  DEF Next, CallerStep, Begin, Connect, Connected, Finish

\* Whatever it caches, evicts, pins or shares, the pool behaves like a plain
\* lease of handles: every step of its code is a step of HandleLease, or none.
THEOREM LeasesImplemented == Spec => ImplementsHandleLease
<1>1. Init => Lease!Init
  <2> SUFFICES ASSUME Init PROVE Lease!Init
    OBVIOUS
  <2>1. LeaseOf = [c \in Callers |-> NoHandle] /\ Open = {} /\ opened = {} /\ closed = FALSE
    BY DEF Init, LeaseOf, Leasing, Open
  <2>2. QED
    BY <2>1 DEF Lease!Init, LeaseOf
<1>2. IInv /\ IInv' /\ InUseOpen' /\ [Next]_vars => [Lease!Next]_(Lease!vars)
  BY StepMaps
<1>3. QED
  BY <1>1, <1>2, InductiveInvariant, InUseStaysOpen, PTL
  DEF Spec, ImplementsHandleLease, Lease!Spec
=============================================================================
