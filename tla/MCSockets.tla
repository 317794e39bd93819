------------------------------- MODULE MCSockets -------------------------------
(* Instances of Sockets for TLC: the constants are given in the .cfg files. *)
EXTENDS Sockets
=============================================================================
