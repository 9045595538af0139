----------------------------- MODULE AgentTurn -----------------------------
(***************************************************************************)
(* What one invocation of the agent promises its user, whatever the model  *)
(* and the tools do: it comes to one outcome and says at most one closing  *)
(* text, that of its outcome, never before it has concluded.  The outcome  *)
(* is not taken back, but for one thing: the files of a concluded turn may *)
(* turn out not to be readable, and then the turn fails after all and says *)
(* so, even after its closing text.                                        *)
(***************************************************************************)

VARIABLES
    outcome,  \* how the turn ended, or "running"
    said      \* what the user was told of it last, or "nothing"

turnVars == <<outcome, said>>

\* An answer, a question back to the user, a command held for approval, a stop
\* imposed by a limit (or an answer with nothing in it to see), a failure.
Outcomes == {"answered", "asked", "held", "stopped", "failed"}

TurnInit == outcome = "running" /\ said = "nothing"

Conclude ==
    /\ outcome = "running"
    /\ outcome' \in Outcomes
    /\ UNCHANGED said

\* The closing text is that of the outcome; only a failure is told after another.
Say ==
    /\ outcome # "running"
    /\ said = "nothing" \/ outcome = "failed"
    /\ said' = outcome
    /\ UNCHANGED outcome

\* The files of a concluded turn cannot be handed out.
Spoil ==
    /\ outcome \notin {"running", "failed"}
    /\ outcome' = "failed"
    /\ UNCHANGED said

\* Limits and tools conclude and speak in one go.
ConcludeAndSay ==
    /\ outcome = "running"
    /\ outcome' \in Outcomes
    /\ said' = outcome'

TurnNext == Conclude \/ Say \/ ConcludeAndSay \/ Spoil

\* A stop may stay unexplained (see the silent stops of the README); an answer,
\* a question, a held command and a failure are always told.
MustBeTold == {"answered", "asked", "held", "failed"}

TurnSpec ==
    /\ TurnInit
    /\ [][TurnNext]_turnVars
    /\ <>(outcome # "running")
    /\ \A o \in MustBeTold : (outcome = o) ~> (said = o)
=============================================================================
