--------------------------- MODULE MCLoopMonitor ---------------------------
(***************************************************************************)
(* Two signatures and two digests.  The windows (4 signatures, 4 pairs)    *)
(* fit exactly in what trimming keeps (4), and a run of 9 calls trims both *)
(* lists several times.                                                    *)
(***************************************************************************)
EXTENDS LoopMonitor
=============================================================================
