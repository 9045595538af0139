---------------------------- MODULE MCWorkspaces ----------------------------
(***************************************************************************)
(* Conversations are interchangeable.                                      *)
(***************************************************************************)
EXTENDS Workspaces, TLC

Conversations == Permutations(Chats)
=============================================================================
