---- MODULE SnapshotCache ----
(***************************************************************************)
(* The cached table sizes (utils/cache/cache.go under                      *)
(* metrics/tablesize/cache.go), shared by the gatherers of the             *)
(* configuration, which refresh it (GetOrRefresh), and those of the minute *)
(* metrics, which only read it (Peek).  Timers start both again and again, *)
(* so that any number of calls overlap.  refreshMu is held over a refresh; *)
(* mu guards two assignments, which are one step here.                     *)
(*                                                                         *)
(* Time is the monotonic clock, cut off at MaxClock; sizes are unsigned    *)
(* machine integers up to MaxUint.                                         *)
(***************************************************************************)
EXTENDS Integers, FiniteSets

CONSTANTS
  Callers,         \* goroutines that call into the cache
  Nobody,          \* not a caller
  Inputs,          \* what a caller may know of its server: see InputType
  Summaries,       \* what a refresh may find: tables and their total size
  NoCount,         \* Input.TotalTables is nil: PostgreSQL
  TableThreshold, RAMMultiplier,   \* configuration
  OrdinaryTTL,     \* 11h55m
  LargeTTL,        \* table_size_cache_ttl_seconds
  MaxUint,         \* largest unsigned integer
  MaxClock, MaxRefreshes           \* bounds of the state space

Uint == 0..MaxUint
InputType == [ram : Uint, tables : Uint \cup {NoCount}]
SummaryType == [tables : Uint, size : Uint]

ASSUME CallersAssumption == Nobody \notin Callers
ASSUME SizesAssumption ==
  /\ MaxUint \in Nat /\ NoCount \notin Uint
  /\ Inputs \subseteq InputType /\ Summaries \subseteq SummaryType
ASSUME SettingsAssumption ==
  /\ TableThreshold \in Uint /\ RAMMultiplier \in Uint
  /\ OrdinaryTTL \in Nat \ {0} /\ LargeTTL \in Nat \ {0}
ASSUME BoundsAssumption == MaxClock \in Nat /\ MaxRefreshes \in Nat

VARIABLES
  clock,
  refreshMu,   \* the caller that holds it, or Nobody
  last,        \* lastSuccessful
  expiresAt,
  begun,       \* refreshes begun so far
  call,        \* per caller: its running call and the call's arguments
  result       \* per caller: what its last call returned

vars == <<clock, refreshMu, last, expiresAt, begun, call, result>>

(* eligible, in the machine's unsigned arithmetic: the product is formed   *)
(* only when it fits.                                                      *)
Count(i, s) == IF i.tables = NoCount THEN s.tables ELSE i.tables
(* Broken: the product wraps around.                                       *)
EligibleWraps(i, s) ==
  /\ i.ram # 0
  /\ Count(i, s) > TableThreshold
  /\ s.size > (i.ram * RAMMultiplier) % (MaxUint + 1)
Eligible(i, s) ==
  /\ i.ram # 0
  /\ Count(i, s) > TableThreshold
  /\ RAMMultiplier <= MaxUint \div i.ram
  /\ s.size > i.ram * RAMMultiplier
TTL(large) == IF large THEN LargeTTL ELSE OrdinaryTTL

(* A snapshot: the refresh that made it, the time its caller had read, and *)
(* the size category that caller put it in.                                *)
NoSnapshot ==
  [serial |-> 0, at |-> 0, summary |-> [tables |-> 0, size |-> 0], large |-> FALSE]
Idle == [pc |-> "idle", input |-> [ram |-> 0, tables |-> NoCount], now |-> 0, serial |-> 0]
Failed == [kind |-> "error", serial |-> 0]

Init ==
  /\ clock = 0 /\ refreshMu = Nobody /\ last = NoSnapshot /\ expiresAt = 0 /\ begun = 0
  /\ call = [c \in Callers |-> Idle] /\ result = [c \in Callers |-> Failed]

Returns(c, r) == call' = [call EXCEPT ![c] = Idle] /\ result' = [result EXCEPT ![c] = r]
Waiting == {c \in Callers : call[c].pc = "wait"}

(* A gatherer of the configuration reads the time and calls GetOrRefresh.  *)
Call(c) ==
  /\ call[c].pc = "idle" /\ begun + Cardinality(Waiting) < MaxRefreshes
  /\ \E i \in Inputs :
       call' = [call EXCEPT ![c] = [pc |-> "wait", input |-> i, now |-> clock, serial |-> 0]]
  /\ UNCHANGED <<clock, refreshMu, last, expiresAt, begun, result>>

(* Broken: any snapshot is reused until it expires.                        *)
ReusableAnyway(c) == last # NoSnapshot /\ call[c].now < expiresAt
Reusable(c) ==
  /\ last # NoSnapshot /\ call[c].now < expiresAt
  /\ Eligible(call[c].input, last.summary) = last.large

Reuse(c) ==
  /\ Reusable(c) /\ Returns(c, [kind |-> "fresh", serial |-> last.serial])
  /\ UNCHANGED <<refreshMu, begun>>
(* Broken: every caller that waited refreshes again.                       *)
RefreshAgain(c) ==
  /\ refreshMu' = c /\ begun' = begun + 1
  /\ call' = [call EXCEPT ![c].pc = "refresh", ![c].serial = begun + 1]
  /\ UNCHANGED result
Refresh(c) ==
  /\ ~Reusable(c)
  /\ refreshMu' = c /\ begun' = begun + 1
  /\ call' = [call EXCEPT ![c].pc = "refresh", ![c].serial = begun + 1]
  /\ UNCHANGED result
(* With refreshMu the call reuses the snapshot or starts to refresh it.    *)
(* Broken: without refreshMu.                                              *)
EnterUnlocked(c) ==
  /\ call[c].pc = "wait" /\ (Reuse(c) \/ Refresh(c))
  /\ UNCHANGED <<clock, last, expiresAt>>
Enter(c) ==
  /\ call[c].pc = "wait" /\ refreshMu = Nobody
  /\ Reuse(c) \/ Refresh(c)
  /\ UNCHANGED <<clock, last, expiresAt>>

Ends(c) == call[c].pc = "refresh" /\ refreshMu' = Nobody /\ UNCHANGED <<clock, begun>>

(* The refresh succeeds: its snapshot lives from the time before the call. *)
Succeed(c) ==
  /\ Ends(c)
  /\ \E s \in Summaries :
       last' = [serial |-> call[c].serial, at |-> call[c].now, summary |-> s,
                large |-> Eligible(call[c].input, s)]
  /\ expiresAt' = call[c].now + TTL(last'.large)
  /\ Returns(c, [kind |-> "fresh", serial |-> last'.serial])

Fallback ==
  IF last = NoSnapshot THEN Failed ELSE [kind |-> "stale", serial |-> last.serial]
(* It fails: the last snapshot serves, without a new lifetime; without one *)
(* the caller gets the error.                                              *)
Fail(c) == Ends(c) /\ Returns(c, Fallback) /\ UNCHANGED <<last, expiresAt>>

(* It panics: the deferred Unlock runs and the gatherer recovers.          *)
(* Broken: the mutex stays locked.                                         *)
PanicLocked(c) ==
  /\ call[c].pc = "refresh" /\ Returns(c, Failed)
  /\ UNCHANGED <<clock, refreshMu, last, expiresAt, begun>>
Panic(c) == Ends(c) /\ Returns(c, Failed) /\ UNCHANGED <<last, expiresAt>>

(* A gatherer of the minute metrics reads the snapshot there is.           *)
Look(c) ==
  /\ call[c].pc = "idle" /\ call' = [call EXCEPT ![c].pc = "peek"]
  /\ UNCHANGED <<clock, refreshMu, last, expiresAt, begun, result>>
Peeked == IF last = NoSnapshot THEN Failed ELSE [kind |-> "peeked", serial |-> last.serial]
Peek(c) ==
  /\ call[c].pc = "peek" /\ Returns(c, Peeked)
  /\ UNCHANGED <<clock, refreshMu, last, expiresAt, begun>>

Tick ==
  /\ clock < MaxClock /\ clock' = clock + 1
  /\ UNCHANGED <<refreshMu, last, expiresAt, begun, call, result>>

Next ==
  \/ Tick
  \/ \E c \in Callers : \/ Call(c) \/ Enter(c) \/ Succeed(c) \/ Fail(c) \/ Panic(c)
                        \/ Look(c) \/ Peek(c)

(* A goroutine that can run does, and a Go mutex that becomes free again   *)
(* and again goes to every goroutine that waits for it.  Nothing is        *)
(* assumed of the end of a refresh.                                        *)
Fairness == \A c \in Callers : SF_vars(Enter(c)) /\ WF_vars(Peek(c))
Spec == Init /\ [][Next]_vars /\ Fairness

----------------------------------------------------------------------------
(* The types of the state.                                                 *)
Snapshots == [serial : Nat, at : Nat, summary : SummaryType, large : BOOLEAN]
CallType ==
  [pc : {"idle", "wait", "refresh", "peek"}, input : InputType, now : Nat, serial : Nat]
Results == [kind : {"error", "fresh", "stale", "peeked"}, serial : Nat]
TypeOK ==
  /\ clock \in Nat /\ refreshMu \in Callers \cup {Nobody}
  /\ last \in Snapshots /\ expiresAt \in Nat /\ begun \in Nat
  /\ call \in [Callers -> CallType] /\ result \in [Callers -> Results]

(* The machine's answer to "is the server large" is the mathematical one   *)
(* for whatever a running call may find, also where RAM times the          *)
(* multiplier does not fit (eligible).                                     *)
Large(i, s) ==
  i.ram # 0 /\ Count(i, s) > TableThreshold /\ s.size > i.ram * RAMMultiplier
EligibleIsExact ==
  \A c \in Callers, s \in Summaries : Eligible(call[c].input, s) <=> Large(call[c].input, s)

(* Only a successful refresh gives a snapshot a lifetime, counted from the *)
(* time its caller read before it queued ("without extending its expiry",  *)
(* utils/cache/cache.go:60).                                               *)
ExpiryFollowsSuccess == last.serial > 0 => expiresAt = last.at + TTL(last.large)

(* What a call returns without a warning was, when it was called, younger  *)
(* than the lifetime in the size category the caller sees ("A changed size *)
(* category forces a refresh", metrics/tablesize/cache.go:80).             *)
Returned(c, kind) ==
  call[c].pc # "idle" /\ call'[c].pc = "idle" /\ result'[c].kind = kind
FreshForItsServer ==
  [][\A c \in Callers : Returned(c, "fresh") =>
       call[c].now < last'.at + TTL(Eligible(call[c].input, last'.summary))]_vars

(* No call returns older sizes than any call before it, and a slow refresh *)
(* never replaces the result of a later one.                               *)
NeverBackInTime ==
  [][/\ last.serial <= last'.serial
     /\ \A c, d \in Callers, kind \in {"fresh", "stale", "peeked"} :
          Returned(c, kind) => result[d].serial <= result'[c].serial]_vars

(* A call that waited for a successful refresh does not repeat it, unless  *)
(* it sees the server in another category ("concurrent callers share a     *)
(* successful refresh", utils/cache/cache.go:59).                          *)
RefreshIsShared ==
  [][\A c \in Callers :
       /\ call[c].pc = "wait" /\ call'[c].pc = "refresh"
       /\ last.serial > 0 /\ call[c].now <= last.at
       => Eligible(call[c].input, last.summary) # last.large]_vars

(* Minute reports end even while a refresh never does ("does not wait for  *)
(* a refresh already in progress", utils/cache/cache.go:46). If no refresh *)
(* lasts forever, every call ends, also after a panic ("A refresh panic    *)
(* propagates after releasing the lock", cache.go:62).                     *)
CallsEnd ==
  /\ \A c \in Callers : call[c].pc = "peek" ~> call[c].pc = "idle"
  /\ (\A c \in Callers : []<>(call[c].pc # "refresh"))
       => \A c \in Callers : call[c].pc = "wait" ~> call[c].pc # "wait"
====
