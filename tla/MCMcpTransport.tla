----------------------------- MODULE MCMcpTransport ----------------------------
(* Two calls over one connection.                                              *)
EXTENDS McpTransport
===============================================================================
