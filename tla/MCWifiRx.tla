------------------------------ MODULE MCWifiRx ------------------------------
(* Instances of WifiRx for TLC: the constants are given in the .cfg files. *)
EXTENDS WifiRx
=============================================================================
