---------------------------- MODULE MCStreaming ----------------------------
(* Streaming on a small instance.                                          *)
EXTENDS Streaming
=============================================================================
