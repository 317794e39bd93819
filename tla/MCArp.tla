------------------------------- MODULE MCArp -------------------------------
(* Instances of Arp for TLC: the constants are given in the .cfg files. *)
EXTENDS Arp
=============================================================================
