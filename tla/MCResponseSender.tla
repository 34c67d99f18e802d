-------------------------- MODULE MCResponseSender --------------------------
(* Instances of ResponseSender for TLC: sizes below, at and above one and  *)
(* two chunks.                                                             *)
EXTENDS ResponseSender
============================================================================
