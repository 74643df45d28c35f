------------------------------ MODULE MCChatflow ------------------------------
(* Instances of Chatflow for TLC: its only parameter is given in the .cfg. *)
EXTENDS Chatflow
================================================================================
