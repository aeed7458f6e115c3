--------------------------- MODULE OrderedChanges ---------------------------
(***************************************************************************)
(* What a task of several table changes promises, whatever carries them    *)
(* out: changes are made one after the other, each at most once, and one   *)
(* is begun only when the one before it is known to have been made.  A     *)
(* failure stops the task; what was made stays made (nothing is rolled     *)
(* back), and only the change that failed is in doubt.                     *)
(***************************************************************************)
EXTENDS Naturals

CONSTANT Lengths       \* the numbers of changes a task may have: a set of naturals

VARIABLES
  length,    \* how many changes the task has
  made,      \* the changes that have taken effect
  known,     \* how many are known, and reported, to have been made
  result     \* "running", "succeeded" or "failed"

vars == <<length, made, known, result>>

Init ==
  /\ length \in Lengths
  /\ made = {}
  /\ known = 0
  /\ result = "running"

(* The change that is due takes effect.  After a failure this may still    *)
(* happen: the answer was lost, and the database carries on.               *)
Make ==
  /\ result # "succeeded"
  /\ known < length
  /\ known + 1 \notin made
  /\ made' = made \cup {known + 1}
  /\ UNCHANGED <<length, known, result>>

Confirm ==
  /\ result = "running"
  /\ known + 1 \in made
  /\ known' = known + 1
  /\ UNCHANGED <<length, made, result>>

Succeed ==
  /\ result = "running"
  /\ known = length
  /\ result' = "succeeded"
  /\ UNCHANGED <<length, made, known>>

(* The change that is due may have been made although it is said to have   *)
(* failed.                                                                 *)
Fail ==
  /\ result = "running"
  /\ result' = "failed"
  /\ \/ UNCHANGED made
     \/ known < length /\ made' = made \cup {known + 1}
  /\ UNCHANGED <<length, known>>

Next == Make \/ Confirm \/ Succeed \/ Fail

Spec == Init /\ [][Next]_vars

=============================================================================
