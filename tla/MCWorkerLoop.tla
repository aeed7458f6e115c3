--------------------------- MODULE MCWorkerLoop ---------------------------
(* A small instance of WorkerLoop for TLC. *)
EXTENDS WorkerLoop

CONSTANTS public, ext, old, new

\* Schemas and columns are interchangeable: one form stands for all.
FoundForms == {None, <<public, old>>}
CommandWords == {"", "full", "install"}
=============================================================================
