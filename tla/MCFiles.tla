------------------------------ MODULE MCFiles ------------------------------
(* Files for TLC: a device, a relative name, an absolute one, and a walk     *)
(* out of /dev and back.                                                     *)
EXTENDS Files

MCPaths == {[abs |-> TRUE, names |-> <<"dev", "null">>],
            [abs |-> FALSE, names |-> <<"a">>],
            [abs |-> TRUE, names |-> <<"a">>],
            [abs |-> TRUE, names |-> <<"dev", "..", "dev", ".", "a">>]}
=============================================================================
