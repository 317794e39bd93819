------------------------------- MODULE MCHeap -------------------------------
(* Two small regions, with the header and the alignment of the code.       *)
EXTENDS Heap

MCStart == [r \in Regions |-> IF r = "internal" THEN 8 ELSE 1000]
MCEnd == [r \in Regions |-> IF r = "internal" THEN 168 ELSE 1100]
=============================================================================
