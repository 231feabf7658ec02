-------------------------- MODULE MCConnectionPool ---------------------------
(* ConnectionPool with two users, two connections opened ahead, four at most *)
EXTENDS ConnectionPool
=============================================================================
