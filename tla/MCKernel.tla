------------------------------ MODULE MCKernel ------------------------------
(***************************************************************************)
(* Three rounds of at most two calls.  The limits keep the order of the     *)
(* shipped ones: warn before stop, stop within the window, and four notes  *)
(* (two empty rounds, two fake texts) weigh less than KeepRecent.          *)
(***************************************************************************)
EXTENDS Kernel

CONSTANTS ask, shell, export, ghost

\* A question before another call, a sensitive command before another call, a
\* repeated call, an unknown tool before a file is exported.
MCBatches ==
    { <<ask, shell>>, <<shell, ask>>, <<export, export>>, <<ghost, export>> }

\* A first turn, and a turn that replays an earlier one.
MCOpenings ==
    { << UserSays(1) >>,
      << UserSays(1), AssistantSays(2), UserSays(1) >> }

MCTextKinds == AllTextKinds
=============================================================================
