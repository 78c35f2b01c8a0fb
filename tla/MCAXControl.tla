----------------------------- MODULE MCAXControl -----------------------------
(***************************************************************************)
(* Instances of AXControl for TLC, whose constants are all in the .cfg     *)
(* files.  One Task: every key of Redis and every object of Substrate      *)
(* belongs to one.                                                         *)
(***************************************************************************)
EXTENDS AXControl
=============================================================================
