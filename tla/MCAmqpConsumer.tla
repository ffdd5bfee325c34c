---------------------------- MODULE MCAmqpConsumer ----------------------------
(***************************************************************************)
(* AmqpConsumer with a small pool and cache.                               *)
(***************************************************************************)
EXTENDS AmqpConsumer, TLC
=============================================================================
