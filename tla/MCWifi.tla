------------------------------- MODULE MCWifi -------------------------------
(* Wifi by itself; the bounds are in the configurations. *)
EXTENDS Wifi
=============================================================================
