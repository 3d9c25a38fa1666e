------------------------------ MODULE MCEditor ------------------------------
(* An instance of Editor for TLC: two presets, each with its own picture.   *)
EXTENDS Editor

FileContents == {[n \in Name |-> [c \in Cell |->
    IF n = "b" /\ c = "param" THEN 1 ELSE 0]]}

\* The two presets hold the same: only the name tells them apart.
SameFiles == {[n \in Name |-> [c \in Cell |-> 0]]}
=============================================================================
