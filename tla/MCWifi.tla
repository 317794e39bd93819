------------------------------- MODULE MCWifi -------------------------------
(* Instances of Wifi for TLC: the constants are given in the .cfg files.   *)
EXTENDS Wifi
=============================================================================
