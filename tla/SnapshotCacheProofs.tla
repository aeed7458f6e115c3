---- MODULE SnapshotCacheProofs ----
(***************************************************************************)
(* SnapshotCache for any callers, sizes and lifetimes: no call returns     *)
(* older sizes than one before it, none takes an expired snapshot for a    *)
(* fresh one, and the size category is computed without overflow.          *)
(***************************************************************************)
EXTENDS SnapshotCache, TLAPS

USE CallersAssumption, SizesAssumption, SettingsAssumption, BoundsAssumption

----------------------------------------------------------------------------
(* Division by the RAM decides whether the product fits.                   *)
LEMMA QuotientBounds ==
  ASSUME NEW n \in Nat, NEW r \in Nat \ {0}
  PROVE  /\ n \div r \in Nat
         /\ r * (n \div r) <= n
         /\ n < r * ((n \div r) + 1)
PROOF
  <1>1. n \div r \in Nat OBVIOUS
  <1>2. r * (n \div r) <= n OBVIOUS
  <1>3. n < r * ((n \div r) + 1) OBVIOUS
  <1> QED BY <1>1, <1>2, <1>3
LEMMA ProductGrows ==
  ASSUME NEW r \in Nat, NEW a \in Nat, NEW b \in Nat, a <= b PROVE r * a <= r * b
PROOF
  <1>1. PICK k \in Nat : b = a + k OBVIOUS
  <1>2. r * b = r * a + r * k BY <1>1
  <1>3. r * k \in Nat OBVIOUS
  <1>4. r * a \in Nat OBVIOUS
  <1> HIDE DEF Uint
  <1> QED BY <1>2, <1>3, <1>4
LEMMA EligibleIsLarge ==
  ASSUME NEW i \in InputType, NEW s \in SummaryType PROVE Eligible(i, s) <=> Large(i, s)
PROOF
  <1>1. i.ram \in Nat /\ s.size \in Nat /\ s.size <= MaxUint /\ RAMMultiplier \in Nat /\ MaxUint \in Nat
    BY DEF InputType, SummaryType, Uint
  <1>2. CASE i.ram = 0 BY <1>2 DEF Eligible, Large
  <1>3. CASE i.ram # 0
    <2> DEFINE q == MaxUint \div i.ram
    <2>1. q \in Nat /\ MaxUint < i.ram * (q + 1) BY <1>1, <1>3, QuotientBounds
    <2>2. CASE RAMMultiplier <= q BY <1>3, <2>2 DEF Eligible, Large
    <2>3. CASE ~(RAMMultiplier <= q)
      <3>1. q + 1 <= RAMMultiplier /\ q + 1 \in Nat BY <1>1, <2>1, <2>3
      <3>2. i.ram * (q + 1) <= i.ram * RAMMultiplier BY <1>1, <3>1, ProductGrows
      <3>3. i.ram * (q + 1) \in Nat /\ i.ram * RAMMultiplier \in Nat BY <1>1, <2>1
      <3>4. ~(s.size > i.ram * RAMMultiplier)
        <4> DEFINE x == i.ram * (q + 1)
                   y == i.ram * RAMMultiplier
        <4>1. x \in Nat /\ y \in Nat /\ x <= y /\ MaxUint < x BY <2>1, <3>2, <3>3
        <4> HIDE DEF x, y
        <4>2. ~(s.size > y) BY <1>1, <4>1
        <4> QED BY <4>2 DEF y
      <3> QED BY <2>3, <3>4 DEF Eligible, Large
    <2> QED BY <2>2, <2>3
  <1> QED BY <1>2, <1>3

----------------------------------------------------------------------------
LEMMA ConstantTypes ==
  /\ NoSnapshot \in Snapshots /\ Idle \in CallType /\ Failed \in Results
  /\ NoSnapshot.serial = 0 /\ Idle.pc = "idle" /\ Failed.serial = 0 /\ Failed.kind = "error"
  /\ \A large \in BOOLEAN : TTL(large) \in Nat \ {0}
PROOF
  <1>1. 0 \in Uint BY DEF Uint
  <1> QED
    BY <1>1
    DEF NoSnapshot, Snapshots, SummaryType, Idle, CallType, InputType, Failed, Results, TTL

(* What a step does to the calls, and with which types.                    *)
LEMMA ReturnsTypes ==
  ASSUME TypeOK, NEW c \in Callers, NEW r \in Results, Returns(c, r)
  PROVE  /\ call' \in [Callers -> CallType] /\ result' \in [Callers -> Results]
         /\ call'[c] = Idle /\ result'[c] = r
         /\ \A d \in Callers \ {c} : call'[d] = call[d] /\ result'[d] = result[d]
  BY ConstantTypes DEF TypeOK, Returns
LEMMA RefreshTypes ==
  ASSUME TypeOK, NEW c \in Callers, Refresh(c)
  PROVE  /\ call' \in [Callers -> CallType]
         /\ call'[c] = [call[c] EXCEPT !.pc = "refresh", !.serial = begun + 1]
         /\ call'[c].pc = "refresh" /\ call'[c].serial = begun + 1
         /\ call'[c].now = call[c].now /\ call'[c].input = call[c].input
         /\ \A d \in Callers \ {c} : call'[d] = call[d]
PROOF
  <1>0. call[c] \in CallType /\ begun + 1 \in Nat BY DEF TypeOK
  <1>1. [call[c] EXCEPT !.pc = "refresh", !.serial = begun + 1] \in CallType
    BY <1>0 DEF CallType
  <1> QED BY <1>0, <1>1 DEF TypeOK, Refresh, CallType
LEMMA SucceedTypes ==
  ASSUME TypeOK, NEW c \in Callers, Succeed(c)
  PROVE  /\ last' \in Snapshots /\ expiresAt' \in Nat
         /\ last'.serial = call[c].serial /\ last'.at = call[c].now
         /\ last'.large = Eligible(call[c].input, last'.summary)
         /\ expiresAt' = last'.at + TTL(last'.large)
PROOF
  <1>1. PICK s \in Summaries :
          last' = [serial |-> call[c].serial, at |-> call[c].now, summary |-> s,
                   large |-> Eligible(call[c].input, s)]
    BY DEF Succeed
  <1>2. Eligible(call[c].input, s) \in BOOLEAN BY DEF Eligible
  <1>3. last' \in Snapshots BY <1>1, <1>2 DEF TypeOK, CallType, Snapshots
  <1>4. TTL(last'.large) \in Nat BY <1>1, <1>2, ConstantTypes
  <1> QED BY <1>1, <1>3, <1>4 DEF TypeOK, CallType, Succeed

LEMMA TypeStep == ASSUME TypeOK, [Next]_vars PROVE TypeOK'
PROOF
  <1> USE ConstantTypes
  <1>1. CASE UNCHANGED vars BY <1>1 DEF vars, TypeOK
  <1>2. CASE Tick BY <1>2 DEF Tick, TypeOK
  <1>3. ASSUME NEW c \in Callers, Call(c) PROVE TypeOK'
    <2>1. PICK i \in Inputs :
            call' = [call EXCEPT ![c] = [pc |-> "wait", input |-> i, now |-> clock, serial |-> 0]]
      BY <1>3 DEF Call
    <2>2. [pc |-> "wait", input |-> i, now |-> clock, serial |-> 0] \in CallType
      BY DEF CallType, TypeOK
    <2>3. call' \in [Callers -> CallType] BY <2>1, <2>2 DEF TypeOK
    <2> QED BY <1>3, <2>3 DEF Call, TypeOK
  <1>4. ASSUME NEW c \in Callers, Enter(c) PROVE TypeOK'
    <2>1. CASE Reuse(c)
      <3>1. [kind |-> "fresh", serial |-> last.serial] \in Results
        BY DEF Results, TypeOK, Snapshots
      <3> QED BY <1>4, <2>1, <3>1, ReturnsTypes DEF Enter, Reuse, TypeOK
    <2>2. CASE Refresh(c)
      <3>1. call' \in [Callers -> CallType] BY <2>2, RefreshTypes
      <3> QED BY <1>4, <2>2, <3>1 DEF Enter, Refresh, TypeOK
    <2> QED BY <1>4, <2>1, <2>2 DEF Enter
  <1>5. ASSUME NEW c \in Callers, Succeed(c) PROVE TypeOK'
    <2>1. last' \in Snapshots /\ expiresAt' \in Nat BY <1>5, SucceedTypes
    <2>2. [kind |-> "fresh", serial |-> last'.serial] \in Results BY <2>1 DEF Results, Snapshots
    <2>3. call' \in [Callers -> CallType] /\ result' \in [Callers -> Results]
      BY <1>5, <2>2, ReturnsTypes DEF Succeed
    <2> QED BY <1>5, <2>1, <2>3 DEF Succeed, Ends, TypeOK
  <1>6. Fallback \in Results /\ Peeked \in Results
    BY DEF Fallback, Peeked, Results, TypeOK, Snapshots
  <1>7. ASSUME NEW c \in Callers, Fail(c) \/ Panic(c) PROVE TypeOK'
    BY <1>6, <1>7, ReturnsTypes DEF Fail, Panic, Ends, TypeOK
  <1>8. ASSUME NEW c \in Callers, Look(c) PROVE TypeOK'
    <2>1. [call[c] EXCEPT !.pc = "peek"] \in CallType BY DEF TypeOK, CallType
    <2>2. call' \in [Callers -> CallType] BY <1>8, <2>1 DEF Look, TypeOK
    <2> QED BY <1>8, <2>2 DEF Look, TypeOK
  <1>9. ASSUME NEW c \in Callers, Peek(c) PROVE TypeOK'
    BY <1>6, <1>9, ReturnsTypes DEF Peek, TypeOK
  <1> QED BY <1>1, <1>2, <1>3, <1>4, <1>5, <1>7, <1>8, <1>9 DEF Next

LEMMA TypeInit == Init => TypeOK
  BY ConstantTypes DEF Init, TypeOK

(* The state keeps its types; in particular no lifetime is negative.       *)
THEOREM CacheTypes == Spec => []TypeOK
  BY TypeInit, TypeStep, PTL DEF Spec

(* The policy's machine arithmetic decides the size category as exact      *)
(* arithmetic would, for every word size, RAM, multiplier and table size   *)
(* (EligibleIsExact).                                                      *)
THEOREM PolicyIsExact == Spec => []EligibleIsExact
PROOF
  <1>1. TypeOK => EligibleIsExact BY EligibleIsLarge DEF TypeOK, CallType, EligibleIsExact
  <1> QED BY <1>1, CacheTypes, PTL

----------------------------------------------------------------------------
(* One refresh runs at a time, the one begun last, and the snapshot is of  *)
(* an earlier one; results are of the snapshot or older.                   *)
RefreshesInOrder ==
  /\ last.serial <= begun
  /\ \A c \in Callers :
       /\ call[c].pc = "refresh" <=> refreshMu = c
       /\ call[c].pc = "refresh" => call[c].serial = begun /\ last.serial < begun
       /\ result[c].serial <= last.serial
  /\ last.serial = 0 => last = NoSnapshot
IInv == TypeOK /\ RefreshesInOrder /\ ExpiryFollowsSuccess

(* How a call that returns leaves the order.                               *)
LEMMA ReturnKeepsOrder ==
  ASSUME IInv, NEW c \in Callers, NEW r \in Results, Returns(c, r), r.serial <= last'.serial,
         call[c].pc = "refresh" => refreshMu' = Nobody,
         call[c].pc # "refresh" => refreshMu' = refreshMu /\ last' = last,
         \/ last' = last
         \/ last' \in Snapshots /\ last'.serial = begun /\ last.serial < begun,
         begun' = begun
  PROVE  RefreshesInOrder'
PROOF
  <1> USE DEF IInv
  <1>1. /\ call'[c] = Idle /\ result'[c] = r
        /\ \A d \in Callers \ {c} : call'[d] = call[d] /\ result'[d] = result[d]
    BY ReturnsTypes
  <1>2. last.serial \in Nat /\ begun \in Nat /\ \A d \in Callers : result[d].serial \in Nat
    BY DEF TypeOK, Snapshots, Results
  <1>3. last'.serial \in Nat /\ last.serial <= last'.serial /\ last'.serial <= begun
    BY <1>2 DEF RefreshesInOrder, Snapshots
  <1>4. last'.serial = 0 => last' = NoSnapshot BY <1>2 DEF RefreshesInOrder
  <1>5. CASE call[c].pc = "refresh"
    <2>1. \A d \in Callers : call'[d].pc # "refresh" /\ refreshMu' # d
      BY <1>1, <1>5, ConstantTypes DEF RefreshesInOrder
    <2>2. \A d \in Callers : result'[d].serial <= last'.serial
      BY <1>1, <1>2, <1>3 DEF RefreshesInOrder
    <2> QED BY <1>3, <1>4, <2>1, <2>2 DEF RefreshesInOrder
  <1>6. CASE call[c].pc # "refresh"
    <2>1. refreshMu' = refreshMu /\ last' = last /\ refreshMu # c BY <1>6 DEF RefreshesInOrder
    <2> QED BY <1>1, <2>1, ConstantTypes DEF RefreshesInOrder
  <1> QED BY <1>5, <1>6

LEMMA OrderStep == ASSUME IInv, [Next]_vars PROVE RefreshesInOrder' /\ ExpiryFollowsSuccess'
PROOF
  <1> USE ConstantTypes DEF IInv
  <1>0. last.serial \in Nat /\ begun \in Nat /\ \A d \in Callers : result[d].serial \in Nat
    BY DEF TypeOK, Snapshots, Results
  <1>1. CASE UNCHANGED vars \/ Tick
    BY <1>1 DEF vars, Tick, RefreshesInOrder, ExpiryFollowsSuccess
  <1>2. ASSUME NEW c \in Callers, Call(c) \/ Look(c)
        PROVE  RefreshesInOrder' /\ ExpiryFollowsSuccess'
    <2>1. /\ UNCHANGED <<refreshMu, last, expiresAt, begun, result>>
          /\ call[c].pc = "idle" /\ call'[c].pc \in {"wait", "peek"}
          /\ \A d \in Callers \ {c} : call'[d] = call[d]
      BY <1>2 DEF Call, Look, TypeOK, CallType
    <2> QED BY <2>1 DEF RefreshesInOrder, ExpiryFollowsSuccess
  <1>3. ASSUME NEW c \in Callers, Enter(c) PROVE RefreshesInOrder' /\ ExpiryFollowsSuccess'
    <2>1. CASE Reuse(c)
      <3>1. [kind |-> "fresh", serial |-> last.serial] \in Results BY <1>0 DEF Results
      <3> QED
        BY <1>0, <1>3, <2>1, <3>1, ReturnKeepsOrder DEF Enter, Reuse, ExpiryFollowsSuccess
    <2>2. CASE Refresh(c)
      <3>1. \A d \in Callers : call[d].pc # "refresh" BY <1>3 DEF Enter, RefreshesInOrder
      <3>2. /\ UNCHANGED <<last, expiresAt, result>> /\ begun' = begun + 1 /\ refreshMu' = c
            /\ call'[c].pc = "refresh" /\ call'[c].serial = begun + 1
            /\ \A d \in Callers \ {c} : call'[d] = call[d]
        BY <1>3, <2>2, RefreshTypes DEF Enter, Refresh
      <3> QED BY <1>0, <3>1, <3>2 DEF RefreshesInOrder, ExpiryFollowsSuccess
    <2> QED BY <1>3, <2>1, <2>2 DEF Enter
  <1>4. ASSUME NEW c \in Callers, Succeed(c) PROVE RefreshesInOrder' /\ ExpiryFollowsSuccess'
    <2>1. /\ last' \in Snapshots /\ last'.serial = begun /\ last.serial < begun
          /\ expiresAt' = last'.at + TTL(last'.large)
      BY <1>4, SucceedTypes DEF Succeed, Ends, RefreshesInOrder
    <2>2. [kind |-> "fresh", serial |-> last'.serial] \in Results BY <2>1 DEF Results, Snapshots
    <2>3. last'.serial <= last'.serial BY <1>0, <2>1
    <2> QED
      BY <1>4, <2>1, <2>2, <2>3, ReturnKeepsOrder DEF Succeed, Ends, ExpiryFollowsSuccess
  <1>5. /\ Fallback \in Results /\ Fallback.serial <= last.serial
        /\ Peeked \in Results /\ Peeked.serial <= last.serial
    BY <1>0 DEF Fallback, Peeked, Results
  <1>6. ASSUME NEW c \in Callers, Fail(c) \/ Panic(c)
        PROVE  RefreshesInOrder' /\ ExpiryFollowsSuccess'
    BY <1>0, <1>5, <1>6, ReturnKeepsOrder DEF Fail, Panic, Ends, ExpiryFollowsSuccess
  <1>7. ASSUME NEW c \in Callers, Peek(c) PROVE RefreshesInOrder' /\ ExpiryFollowsSuccess'
    BY <1>0, <1>5, <1>7, ReturnKeepsOrder DEF Peek, ExpiryFollowsSuccess
  <1> QED BY <1>1, <1>2, <1>3, <1>4, <1>6, <1>7 DEF Next

LEMMA CacheInvariant == Spec => []IInv
PROOF
  <1>1. Init => IInv
    BY TypeInit, ConstantTypes DEF Init, IInv, RefreshesInOrder, ExpiryFollowsSuccess
  <1>2. IInv /\ [Next]_vars => IInv' BY TypeStep, OrderStep DEF IInv
  <1> QED BY <1>1, <1>2, PTL DEF Spec

(* Only successful refreshes give lifetimes (ExpiryFollowsSuccess).        *)
THEOREM LifetimesEarned == Spec => []ExpiryFollowsSuccess
PROOF
  <1>1. IInv => ExpiryFollowsSuccess BY DEF IInv
  <1> QED BY <1>1, CacheInvariant, PTL

----------------------------------------------------------------------------
(* Only a caller's own step ends its call or turns it into a refresh.      *)
LEMMA OwnStep ==
  ASSUME TypeOK, [Next]_vars, NEW c \in Callers, call'[c] # call[c]
  PROVE  Call(c) \/ Enter(c) \/ Succeed(c) \/ Fail(c) \/ Panic(c) \/ Look(c) \/ Peek(c)
PROOF
  <1>1. Next /\ ~Tick BY DEF vars, Tick
  <1>2. PICK d \in Callers :
          Call(d) \/ Enter(d) \/ Succeed(d) \/ Fail(d) \/ Panic(d) \/ Look(d) \/ Peek(d)
    BY <1>1 DEF Next
  <1>3. \A e \in Callers \ {d} : call'[e] = call[e]
    BY <1>2 DEF TypeOK, Call, Enter, Reuse, Refresh, Succeed, Fail, Panic, Look, Peek, Returns
  <1> QED BY <1>2, <1>3
LEMMA WhoReturns ==
  ASSUME TypeOK, [Next]_vars, NEW c \in Callers, NEW kind, Returned(c, kind)
  PROVE  \/ Enter(c) /\ Reuse(c) /\ result'[c] = [kind |-> "fresh", serial |-> last.serial]
         \/ Succeed(c) /\ result'[c] = [kind |-> "fresh", serial |-> last'.serial]
         \/ (Fail(c) \/ Panic(c)) /\ result'[c] \in {Fallback, Failed} /\ last' = last
         \/ Peek(c) /\ result'[c] = Peeked /\ last' = last
PROOF
  <1>1. call'[c] # call[c] /\ call'[c].pc = "idle" BY DEF Returned
  <1>2. ~Call(c) /\ ~Look(c) BY <1>1 DEF Call, Look, TypeOK, CallType
  <1>3. ~Refresh(c) BY <1>1, RefreshTypes
  <1>4. \A r : Returns(c, r) => result'[c] = r BY DEF Returns, TypeOK
  <1> QED
    BY <1>1, <1>2, <1>3, <1>4, OwnStep DEF Enter, Reuse, Succeed, Fail, Panic, Peek

(* For any configuration, a value returned as fresh was younger at the     *)
(* call than the lifetime of the caller's own category                     *)
(* (FreshForItsServer).                                                    *)
THEOREM FreshIsFresh == Spec => FreshForItsServer
PROOF
  <1>1. ASSUME IInv, [Next]_vars, NEW c \in Callers, Returned(c, "fresh")
        PROVE  call[c].now < last'.at + TTL(Eligible(call[c].input, last'.summary))
    <2> USE <1>1, ConstantTypes DEF IInv
    <2>1. /\ call[c].now \in Nat /\ last.at \in Nat /\ last.serial \in Nat /\ last.large \in BOOLEAN
          /\ result'[c].kind = "fresh"
      BY DEF TypeOK, CallType, Snapshots, Returned
    <2>2. CASE Enter(c) /\ Reuse(c)
      <3>1. last' = last /\ Reusable(c) BY <2>2 DEF Enter, Reuse
      <3>2. last.serial > 0 BY <2>1, <3>1 DEF Reusable, RefreshesInOrder
      <3>3. call[c].now < last.at + TTL(last.large)
        BY <3>1, <3>2 DEF Reusable, ExpiryFollowsSuccess
      <3> QED BY <3>1, <3>3 DEF Reusable
    <2>3. CASE Succeed(c)
      <3>1. last'.at = call[c].now /\ last'.large = Eligible(call[c].input, last'.summary)
            /\ last'.large \in BOOLEAN
        BY <2>3, SucceedTypes DEF Snapshots
      <3>2. TTL(last'.large) \in Nat \ {0} BY <3>1
      <3> QED BY <2>1, <3>1, <3>2
    <2>4. Fallback.kind # "fresh" /\ Peeked.kind # "fresh" /\ Failed.kind # "fresh"
      BY DEF Fallback, Peeked
    <2> QED BY <2>1, <2>2, <2>3, <2>4, WhoReturns
  <1>2. ASSUME IInv, [Next]_vars
        PROVE  \A c \in Callers : Returned(c, "fresh") =>
                 call[c].now < last'.at + TTL(Eligible(call[c].input, last'.summary))
    BY <1>1, <1>2
  <1> QED BY <1>2, CacheInvariant, PTL DEF Spec, FreshForItsServer

(* For any number of overlapping calls, what they return never goes back   *)
(* to an older refresh (NeverBackInTime).                                  *)
THEOREM SizesMoveForward == Spec => NeverBackInTime
PROOF
  <1>1. ASSUME IInv, [Next]_vars
        PROVE  /\ last.serial <= last'.serial
               /\ \A c, d \in Callers, kind \in {"fresh", "stale", "peeked"} :
                    Returned(c, kind) => result[d].serial <= result'[c].serial
    <2> USE <1>1, ConstantTypes DEF IInv
    <2>1. last.serial \in Nat /\ begun \in Nat /\ \A d \in Callers : result[d].serial \in Nat
      BY DEF TypeOK, Snapshots, Results
    <2>2. last' = last \/ \E c \in Callers : Succeed(c)
      BY DEF Next, vars, Tick, Call, Enter, Fail, Panic, Look, Peek
    <2>3. ASSUME NEW c \in Callers, Succeed(c)
          PROVE  last'.serial \in Nat /\ last.serial < last'.serial
      BY <2>3, <2>1, SucceedTypes DEF Succeed, Ends, RefreshesInOrder, Snapshots
    <2>4. last.serial <= last'.serial /\ last'.serial \in Nat BY <2>1, <2>2, <2>3
    <2>5. ASSUME NEW c \in Callers, NEW d \in Callers, NEW kind \in {"fresh", "stale", "peeked"},
                 Returned(c, kind)
          PROVE  result[d].serial <= result'[c].serial
      <3>1. result'[c].kind # "error" BY <2>5 DEF Returned
      <3>2. result'[c].serial = last'.serial
        BY <2>5, <3>1, WhoReturns DEF Fallback, Peeked, Enter
      <3>3. result[d].serial <= last.serial BY DEF RefreshesInOrder
      <3> QED BY <2>1, <2>4, <3>2, <3>3
    <2> QED BY <2>4, <2>5
  <1> QED BY <1>1, CacheInvariant, PTL DEF Spec, NeverBackInTime

(* A call repeats a refresh it waited for only for a server of the other   *)
(* category (RefreshIsShared).                                             *)
THEOREM RefreshesAreShared == Spec => RefreshIsShared
PROOF
  <1>1. ASSUME IInv, [Next]_vars, NEW c \in Callers,
               call[c].pc = "wait", call'[c].pc = "refresh",
               last.serial > 0, call[c].now <= last.at
        PROVE  Eligible(call[c].input, last.summary) # last.large
    <2> USE <1>1, ConstantTypes DEF IInv
    <2>1. Enter(c)
      BY OwnStep DEF TypeOK, CallType, Call, Succeed, Fail, Panic, Ends, Look, Peek
    <2>2. ~Reuse(c)
      <3>1. ASSUME Reuse(c) PROVE FALSE
        <4>1. call'[c] = Idle BY <3>1 DEF Reuse, Returns, TypeOK
        <4> QED BY <4>1
      <3> QED BY <3>1
    <2>3. ~Reusable(c) BY <2>1, <2>2 DEF Enter, Refresh
    <2>4. last # NoSnapshot BY DEF TypeOK, Snapshots
    <2>5. call[c].now < expiresAt
      <3>1. call[c].now \in Nat /\ last.at \in Nat /\ last.large \in BOOLEAN
        BY DEF TypeOK, CallType, Snapshots
      <3>2. TTL(last.large) \in Nat \ {0} BY <3>1
      <3> QED BY <3>1, <3>2 DEF ExpiryFollowsSuccess
    <2> QED BY <2>3, <2>4, <2>5 DEF Reusable
  <1>2. ASSUME IInv, [Next]_vars
        PROVE  \A c \in Callers :
                 /\ call[c].pc = "wait" /\ call'[c].pc = "refresh"
                 /\ last.serial > 0 /\ call[c].now <= last.at
                 => Eligible(call[c].input, last.summary) # last.large
    BY <1>1, <1>2
  <1> QED BY <1>2, CacheInvariant, PTL DEF Spec, RefreshIsShared
====
