----------------------------- MODULE HandleLease -----------------------------
(***************************************************************************)
(* What a pool of database handles promises its callers, whatever it       *)
(* caches, evicts or shares: a handle is open while somebody leases it, a  *)
(* closed handle never comes back, and nothing is leased out after the     *)
(* pool was shut.  ConnectionPool implements this specification.           *)
(***************************************************************************)
EXTENDS FiniteSets

CONSTANTS Callers, Handles, NoHandle

VARIABLES lease,    \* the handle each caller leases, or NoHandle
          open,     \* handles connected to the server
          retired,  \* handles closed for good
          shut      \* no more leases

vars == <<lease, open, retired, shut>>

Leased(l) == {l[c] : c \in Callers} \ {NoHandle}

Init ==
    /\ lease = [c \in Callers |-> NoHandle]
    /\ open = {}
    /\ retired = {}
    /\ shut = FALSE

\* any step may close handles nobody leases after it
Retire(candidates) ==
    \E gone \in SUBSET (candidates \ Leased(lease')) :
        /\ open' = candidates \ gone
        /\ retired' = retired \cup gone

Connect(h) ==
    /\ h \notin open \cup retired
    /\ open' = open \cup {h}
    /\ UNCHANGED <<lease, retired, shut>>

Grant(c, h) ==
    /\ ~shut
    /\ lease[c] = NoHandle
    /\ h \in open
    /\ lease' = [lease EXCEPT ![c] = h]
    /\ Retire(open)
    /\ UNCHANGED shut

GiveBack(c) ==
    /\ lease[c] # NoHandle
    /\ lease' = [lease EXCEPT ![c] = NoHandle]
    /\ Retire(open)
    /\ UNCHANGED shut

Evict ==
    /\ UNCHANGED <<lease, shut>>
    /\ Retire(open)

Shut ==
    /\ shut' = TRUE
    /\ UNCHANGED lease
    /\ Retire(open)

Next ==
    \/ \E h \in Handles : Connect(h)
    \/ \E c \in Callers, h \in Handles : Grant(c, h)
    \/ \E c \in Callers : GiveBack(c)
    \/ Evict
    \/ Shut

Spec == Init /\ [][Next]_vars
=============================================================================
