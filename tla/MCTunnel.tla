------------------------------ MODULE MCTunnel ------------------------------
(***************************************************************************)
(* Instances of Tunnel for TLC: three contexts, of which two have files of *)
(* the same name, and a single one.                                        *)
(***************************************************************************)
EXTENDS Tunnel, TLC

CONSTANTS k1, k2, k3, f1, f2

SharedFiles == k1 :> f1 @@ k2 :> f1 @@ k3 :> f2
OwnFile == k1 :> f1
=============================================================================
