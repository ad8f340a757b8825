-------------------------- MODULE MCIngestionWorker --------------------------
(* Small instances of IngestionWorker for TLC. *)
EXTENDS IngestionWorker

CONSTANT attempts

\* Every request may be tried this often.
AttemptsOfAll == [r \in Requests |-> attempts]

\* Every window has two pages.
TwoPages == [j \in Jobs |-> 2]
=============================================================================
