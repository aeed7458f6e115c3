---- MODULE MCConfigApply ----
(* Instances of ConfigApply; every run checks safety only.                 *)
EXTENDS ConfigApply, TLC

Symmetry == Permutations(Contents)
====
