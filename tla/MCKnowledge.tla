------------------------------ MODULE MCKnowledge ------------------------------
(* Instances of Knowledge for TLC. *)
EXTENDS Knowledge

\* Three folders of one file.
Folders == [n \in Names |-> 1]
================================================================================
