----------------------------- MODULE MCRecords -----------------------------
(***************************************************************************)
(* A conversation of one user and the workflow runs of another.  The       *)
(* workers are interchangeable.                                            *)
(***************************************************************************)
EXTENDS Records, TLC

CONSTANTS chat, flow, alice, bob

MCUserOf == (chat :> alice) @@ (flow :> bob)

Processes == Permutations(Workers)
=============================================================================
