----------------------------- MODULE MCNetwork -----------------------------
(* The bounds are in MCNetwork.cfg. *)
EXTENDS Network
=============================================================================
