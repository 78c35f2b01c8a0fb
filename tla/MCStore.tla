------------------------------ MODULE MCStore ------------------------------
(***************************************************************************)
(* Instances of Store for TLC: the constants are in the .cfg file.         *)
(***************************************************************************)
EXTENDS Store
=============================================================================
