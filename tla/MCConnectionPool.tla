-------------------------- MODULE MCConnectionPool --------------------------
(* A small instance of ConnectionPool for TLC, given by MCPoolAgent.cfg.     *)
EXTENDS ConnectionPool
=============================================================================
