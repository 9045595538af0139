-------------------------- MODULE ApprovalProtocol --------------------------
(***************************************************************************)
(* What the approval of sensitive commands promises: a chat runs on a      *)
(* verdict only what it has seen waiting under its key, and once per yes.  *)
(* Chats may share a key; a chat that does not runs once what was held     *)
(* once.  What waits may be dropped at any moment; nobody runs it behind   *)
(* the chat's back.                                                        *)
(***************************************************************************)
EXTENDS Sequences

CONSTANTS Chats, Keys, KeyOf, Commands, None

VARIABLES
    waiting,   \* [Keys -> Commands or None]: held, no verdict yet
    seen,      \* [Chats -> Commands or None]: what the chat decides on
    accepted,  \* [Chats -> Commands or None]: the user said yes, not run yet
    ran        \* [Chats -> Seq(Commands)]: what ran on a verdict

protocolVars == <<waiting, seen, accepted, ran>>

AbsInit ==
    /\ waiting = [key \in Keys |-> None]
    /\ seen = [c \in Chats |-> None]
    /\ accepted = [c \in Chats |-> None]
    /\ ran = [c \in Chats |-> << >>]

Owner(c) == \A d \in Chats : KeyOf[d] = KeyOf[c] => d = c

Undecided(c) == seen[c] = None /\ accepted[c] = None

\* A newer command may take the place of one nobody decided on.
Hold(c, cmd) ==
    /\ Undecided(c)
    /\ waiting' = [waiting EXCEPT ![KeyOf[c]] = cmd]
    /\ UNCHANGED <<seen, accepted, ran>>

Look(c) ==
    /\ Undecided(c) /\ waiting[KeyOf[c]] # None
    /\ seen' = [seen EXCEPT ![c] = waiting[KeyOf[c]]]
    /\ UNCHANGED <<waiting, accepted, ran>>

\* What the chat has seen is decided on, and nothing waits any more; under a key of
\* its own it is what waited.
Accept(c) ==
    /\ seen[c] # None
    /\ Owner(c) => seen[c] = waiting[KeyOf[c]]
    /\ waiting' = [waiting EXCEPT ![KeyOf[c]] = None]
    /\ seen' = [seen EXCEPT ![c] = None]
    /\ accepted' = [accepted EXCEPT ![c] = seen[c]]
    /\ UNCHANGED ran

\* The chat gives up what it decides on, with what waits or without.
Drop(c) ==
    /\ waiting' \in {waiting, [waiting EXCEPT ![KeyOf[c]] = None]}
    /\ seen' = [seen EXCEPT ![c] = None]
    /\ accepted' = [accepted EXCEPT ![c] = None]
    /\ UNCHANGED ran

Run(c) ==
    /\ accepted[c] # None
    /\ ran' = [ran EXCEPT ![c] = Append(@, accepted[c])]
    /\ accepted' = [accepted EXCEPT ![c] = None]
    /\ UNCHANGED <<waiting, seen>>

AbsNext ==
    \E c \in Chats :
        \/ \E cmd \in Commands : Hold(c, cmd)
        \/ Look(c) \/ Accept(c) \/ Drop(c) \/ Run(c)

AbsSpec == AbsInit /\ [][AbsNext]_protocolVars
=============================================================================
