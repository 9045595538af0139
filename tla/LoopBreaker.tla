---------------------------- MODULE LoopBreaker ----------------------------
(***************************************************************************)
(* What the loop guard promises: it judges every call against the whole    *)
(* history of the run.  Nothing is ever forgotten here; the code forgets   *)
(* all but the newest entries of its lists, and LoopMonitor shows that     *)
(* nobody can tell.  How a history is judged is a parameter.               *)
(***************************************************************************)
EXTENDS Sequences

CONSTANTS
    Sigs, Digests,
    SigsOf(_),       \* the signatures of a history
    Warns(_, _, _),  \* signatures, signatures warned about, the newest one
    Stops(_, _, _)   \* signatures, history, the newest signature

VARIABLES
    calls,    \* every (signature, digest) observed in this run
    alerted,  \* signatures a warning was given for
    verdict   \* what the last observation answered

abstractVars == <<calls, alerted, verdict>>

AbsInit == calls = << >> /\ alerted = {} /\ verdict = "none"

Judge(sig, digest) ==
    LET h     == Append(calls, <<sig, digest>>)
        warns == Warns(SigsOf(h), alerted, sig)
    IN  /\ calls' = h
        /\ alerted' = IF warns THEN alerted \cup {sig} ELSE alerted
        /\ verdict' = IF Stops(SigsOf(h), h, sig) THEN "stop"
                      ELSE IF warns THEN "warn" ELSE "go"

AbsNext == \E sig \in Sigs, digest \in Digests : Judge(sig, digest)

AbsSpec == AbsInit /\ [][AbsNext]_abstractVars
=============================================================================
