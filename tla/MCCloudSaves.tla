------------------------------ MODULE MCCloudSaves ------------------------------
(* Instances of CloudSaves for TLC. *)
EXTENDS CloudSaves

MCSizeOf == [v \in Versions |-> <<2, 1, 2>>[v]]

Opt(force, white, black) == [force |-> force, white |-> white, black |-> black]

MCDefault == {Opt(FALSE, {}, {})}
MCOptions == MCDefault \union {Opt(TRUE, {1}, {}), Opt(FALSE, {}, {1})}
================================================================================
