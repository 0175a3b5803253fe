---------------------------- MODULE MCSessionRuntime ----------------------------
(* One session with two messages.                                              *)
EXTENDS SessionRuntime
===============================================================================
