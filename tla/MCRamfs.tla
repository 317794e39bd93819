------------------------------ MODULE MCRamfs ------------------------------
(* Instances of Ramfs for TLC.  One limit lets the tree grow without data,  *)
(* the other fills the pool of a smaller tree.                              *)
EXTENDS Ramfs

MCLimits == {<<5, 0>>, <<3, 2>>}
=============================================================================
