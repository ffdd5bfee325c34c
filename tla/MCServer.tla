------------------------------ MODULE MCServer ------------------------------
(***************************************************************************)
(* A server with two threads and a few messages of every kind.             *)
(***************************************************************************)
EXTENDS Server
=============================================================================
