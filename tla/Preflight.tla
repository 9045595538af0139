----------------------------- MODULE Preflight -----------------------------
(***************************************************************************)
(* What happens to a message before the agent sees it: the phases of       *)
(* tools/my_claw_tool.py (skill management, approval, memory commands,     *)
(* onboarding, clarification) over the KV storage, and what the agent's    *)
(* tools put there for the next turn.  Chats take their turns one after    *)
(* the other; turns of different chats interleave, one KV access or a few  *)
(* per step.  A user may have several chats.                               *)
(*                                                                         *)
(* A message is abstracted to what the phases make of it: its verdict on a *)
(* held command (my_claw_tool.py:298-306), the option it picks             *)
(* (clarify.py:53-83), how it reads as a name (my_claw_tool.py:35-44,      *)
(* 345-356), and whether it is a command of its own.                       *)
(***************************************************************************)
EXTENDS Naturals, Sequences, FiniteSets

CONSTANTS
    Chats, Users,
    UserOf,      \* [Chats -> Users], each with an id: whoever has none is left out, for
                 \* his documents are those of the app (persona.py:33-36)
    Keys, KeyOf, \* [Chats -> Keys], where a held command waits: the conversation, or
                 \* "anonymous" for every run without one (my_claw_tool.py:260)
    NewUsers,    \* bound: the users who may be new to the app
    Exes,        \* sensitive executables
    Commands,    \* bound: the sensitive commands the model may issue, <<exe, args>>
    Replies,     \* bound: the messages a user may send
    Counts,      \* bound: the numbers of options of a question, within 2 .. 4
    Topics,      \* bound: what a question may ask
    Similar,     \* pairs of topics, dice() of which reaches SIM_AUTO
    HistoryLimit,\* choices the history keeps
    ApprovalOn,  \* exec_approval_enabled
    ExpiryOn,    \* may a question expire (24 hours) or clarification be switched off
    MaxTurns,    \* bound: [Chats -> Nat], messages per chat
    MaxMessages, \* bound: messages in all chats
    MaxFaults,   \* bound: KV reads that answer nothing, writes that raise
    None         \* nothing under a key

Reply == [kind    : {"plain", "skill", "memory", "reset"},
          verdict : {"", "once", "always", "deny"},
          pick    : 0 .. 4,  \* 0: no option
          name    : {"name", "greeting", "other"}]

ASSUME PreflightConstants ==
    /\ UserOf \in [Chats -> Users] /\ KeyOf \in [Chats -> Keys]
    /\ Commands \subseteq Exes \X Nat
    /\ Replies \subseteq Reply
    /\ Counts \subseteq 2 .. 4
    /\ Similar \subseteq Topics \X Topics
    /\ HistoryLimit \in Nat \ {0}
    /\ ApprovalOn \in BOOLEAN /\ ExpiryOn \in BOOLEAN
    /\ MaxTurns \in [Chats -> Nat] /\ MaxMessages \in Nat /\ MaxFaults \in Nat
    /\ None \notin Commands

VARIABLES
    \* the KV storage
    held,     \* claw:approval:<key>:pending
    grants,   \* claw:approval:<app>:user:<user>:grants, executables
    stage,    \* claw:onboarding:<app>:user:<user>:stage
    named,    \* is there a USER.md
    asked,    \* claw:pending_clarify, one key for all chats
    picks,    \* claw:clarify_history:<app>:user:<user>, choices as positions
    \* the turn in progress of each chat
    pc, turns, reply,
    task,        \* what the agent is asked to do
    taken,       \* the held command, as read before the key is cleared
    readGrants,  \* the grants, as read before they are written back
    readAsked,   \* the pending question, as read before it is matched
    faults,
    \* what the users have seen and done
    told,    \* the closing text of the last turn of each chat
    ran,     \* the commands run on a verdict, per chat
    given,   \* <<user, exe>>: the user said "always" to it
    folded,  \* the questions folded, with the chat whose reply picked the option, and it
    passedBy,\* messages of a chat that reached the agent while its question was pending
    strayed, \* the questions read by a chat that did not ask them, as tasks
    offered, \* the command last shown to a chat, for its verdict
    slip     \* what went wrong with the command that waits for a chat: it was "missed" by a
             \* read, or its turn died and left it "unseen"

kvVars == <<held, grants, stage, named, asked, picks>>
localVars == <<task, taken, readGrants, readAsked>>
historyVars == <<ran, given, folded, passedBy, strayed, offered, slip>>
userVars == <<told, historyVars>>
vars == <<kvVars, pc, turns, reply, localVars, faults, userVars>>

-----------------------------------------------------------------------------
\* A task is the message that asked for it, by chat and turn; turn 0 is a text
\* that asked for nothing of this turn.
Task == [chat : Chats, turn : Nat]

\* PendingClarify.  The code does not keep the turn that asked (`by'), only the text
\* it takes for the task (`original').
Question == [by : Task, original : Task, topic : Topics, opts : 2 .. 4, misses : 0 .. 1]
Choice == [topic : Topics, pick : 1 .. 4]

NoReply == [kind |-> "plain", verdict |-> "", pick |-> 0, name |-> "other"]
ThisTask(c) == [chat |-> c, turn |-> turns[c]]
Foreign(c) == [chat |-> c, turn |-> 0]

Init ==
    /\ held = [key \in Keys |-> None]
    /\ grants = [u \in Users |-> {}]
    /\ stage \in [Users -> {"", "done"}] /\ \A u \in Users \ NewUsers : stage[u] = "done"
    /\ named = [u \in Users |-> stage[u] = "done"]
    /\ asked = None
    /\ picks = [u \in Users |-> << >>]
    /\ pc = [c \in Chats |-> "idle"]
    /\ turns = [c \in Chats |-> 0]
    /\ reply = [c \in Chats |-> NoReply]
    /\ task = [c \in Chats |-> Foreign(c)]
    /\ taken = [c \in Chats |-> None]
    /\ readGrants = [c \in Chats |-> {}]
    /\ readAsked = [c \in Chats |-> None]
    /\ faults = 0
    /\ told = [c \in Chats |-> "nothing"]
    /\ ran = [c \in Chats |-> << >>]
    /\ given = {} /\ folded = << >> /\ strayed = {}
    /\ passedBy = [c \in Chats |-> 0]
    /\ offered = [c \in Chats |-> None]
    /\ slip = [c \in Chats |-> ""]

\* DifyKVStorage.get answers None when the host fails, set raises.
ReadFails == faults < MaxFaults /\ faults' = faults + 1
WriteFails == faults < MaxFaults /\ faults' = faults + 1
Goto(c, phase) == pc' = [pc EXCEPT ![c] = phase]

\* The turn is over; its local variables are gone.
EndTurn(c, text) ==
    /\ Goto(c, "idle")
    /\ told' = [told EXCEPT ![c] = text]
    /\ reply' = [reply EXCEPT ![c] = NoReply]
    /\ task' = [task EXCEPT ![c] = Foreign(c)]
    /\ taken' = [taken EXCEPT ![c] = None]
    /\ readGrants' = [readGrants EXCEPT ![c] = {}]
    /\ readAsked' = [readAsked EXCEPT ![c] = None]

\* The message moves on to the next phase, nothing else happens.
Pass(c, phase) ==
    /\ Goto(c, phase)
    /\ UNCHANGED <<turns, reply, localVars, userVars>>

-----------------------------------------------------------------------------
(* A message arrives; skill management answers on its own.                 *)

Messages == UNION {{c} \X (1 .. turns[c]) : c \in Chats}

Say(c, r) ==
    /\ pc[c] = "idle" /\ turns[c] < MaxTurns[c] /\ Cardinality(Messages) < MaxMessages
    /\ turns' = [turns EXCEPT ![c] = @ + 1]
    /\ IF r.kind = "skill"
       THEN told' = [told EXCEPT ![c] = "skills"] /\ UNCHANGED <<pc, reply>>
       ELSE /\ Goto(c, IF ApprovalOn THEN "approval" ELSE "memory")
            /\ reply' = [reply EXCEPT ![c] = r]
            /\ UNCHANGED told
    /\ UNCHANGED <<kvVars, localVars, faults, historyVars>>

-----------------------------------------------------------------------------
(* Approval, my_claw_tool.py:284-333.                                      *)

Waiting(c) == held[KeyOf[c]]
Clear(c) == held' = [held EXCEPT ![KeyOf[c]] = None]

\* Nothing is held, or the read fails.
NothingHeld(c) ==
    /\ pc[c] = "approval"
    /\ \/ Waiting(c) = None /\ UNCHANGED <<faults, slip>>
       \/ /\ Waiting(c) # None /\ ReadFails
          /\ slip' = [slip EXCEPT ![c] = IF @ = "" THEN "missed" ELSE @]
    /\ Goto(c, "memory")
    /\ UNCHANGED <<kvVars, turns, reply, localVars, told, ran, given, folded, passedBy,
                   strayed, offered>>

\* The key is read here and cleared by a call of its own: a turn under the same key
\* may do the same in between.
ReadHeld(c) ==
    /\ pc[c] = "approval" /\ Waiting(c) # None
    /\ taken' = [taken EXCEPT ![c] = Waiting(c)]
    /\ Goto(c, "verdict")
    /\ UNCHANGED <<kvVars, turns, reply, task, readGrants, readAsked, faults, userVars>>

\* The user is told about cmd and asked for a verdict.
Offer(c, cmd) ==
    /\ offered' = [offered EXCEPT ![c] = cmd]
    /\ slip' = [slip EXCEPT ![c] = ""]
    /\ EndTurn(c, "approval")
    /\ UNCHANGED <<turns, ran, given, folded, passedBy, strayed>>

\* Not a verdict: the message is dropped and the user reminded.
Remind(c) ==
    /\ pc[c] = "verdict" /\ reply[c].verdict = ""
    /\ Offer(c, taken[c])
    /\ UNCHANGED <<kvVars, faults>>

\* Mutant of Deny: the key is left in place.
DenyKeepsHeld(c) ==
    /\ pc[c] = "verdict" /\ reply[c].verdict = "deny"
    /\ EndTurn(c, "denied")
    /\ UNCHANGED <<kvVars, turns, faults, historyVars>>

Deny(c) ==
    /\ pc[c] = "verdict" /\ reply[c].verdict = "deny"
    /\ Clear(c)
    /\ EndTurn(c, "denied")
    /\ UNCHANGED <<grants, stage, named, asked, picks, turns, faults, historyVars>>

\* What is read is what runs, and what is granted when it is to be allowed always.
Consent(c) ==
    /\ pc[c] = "verdict" /\ reply[c].verdict \in {"once", "always"}
    /\ IF reply[c].verdict = "always"
       THEN Goto(c, "grant") /\ given' = given \cup {<<UserOf[c], taken[c][1]>>}
       ELSE Goto(c, "run") /\ UNCHANGED given
    /\ UNCHANGED <<turns, reply, localVars, faults, told, ran, folded, passedBy, strayed,
                   offered, slip>>

\* Mutant of Accept: the key is left in place.
AcceptKeepsHeld(c) == Consent(c) /\ UNCHANGED kvVars

\* The key is cleared before the command runs, whatever it holds by now.
Accept(c) == Consent(c) /\ Clear(c) /\ UNCHANGED <<grants, stage, named, asked, picks>>

ReadGrants(c) ==
    /\ pc[c] = "grant"
    /\ \/ readGrants' = [readGrants EXCEPT ![c] = grants[UserOf[c]]] /\ UNCHANGED faults
       \/ ReadFails /\ UNCHANGED readGrants
    /\ Goto(c, "save")
    /\ UNCHANGED <<kvVars, turns, reply, task, taken, readAsked, userVars>>

\* Mutant of SaveGrants: the whole command is granted, not its executable.
SaveGrantsWhole(c) ==
    /\ pc[c] = "save"
    /\ grants' = [grants EXCEPT ![UserOf[c]] = readGrants[c] \cup {taken[c]}]
    /\ Pass(c, "run")
    /\ UNCHANGED <<held, stage, named, asked, picks, faults>>

\* Mutant of SaveGrants: the grant is kept per app.
SaveGrantsForAll(c) ==
    /\ pc[c] = "save"
    /\ grants' = [u \in Users |-> readGrants[c] \cup {taken[c][1]}]
    /\ Pass(c, "run")
    /\ UNCHANGED <<held, stage, named, asked, picks, faults>>

\* Another chat of the user may have written the key in the meantime.
SaveGrants(c) ==
    /\ pc[c] = "save"
    /\ grants' = [grants EXCEPT ![UserOf[c]] = readGrants[c] \cup {taken[c][1]}]
    /\ Pass(c, "run")
    /\ UNCHANGED <<held, stage, named, asked, picks, faults>>

\* The command may fail; it has been started once either way.
RunTaken(c) ==
    /\ pc[c] = "run"
    /\ ran' = [ran EXCEPT ![c] = Append(@, taken[c])]
    /\ EndTurn(c, "ran")
    /\ UNCHANGED <<kvVars, turns, faults, given, folded, passedBy, strayed, offered, slip>>

-----------------------------------------------------------------------------
(* Memory commands and onboarding, my_claw_tool.py:110-123 and 335-366.    *)

MemoryCommand(c) ==
    /\ pc[c] = "memory" /\ reply[c].kind = "memory"
    /\ EndTurn(c, "memory")
    /\ UNCHANGED <<kvVars, turns, faults, historyVars>>

NoMemoryCommand(c) ==
    /\ pc[c] = "memory" /\ reply[c].kind # "memory"
    /\ Pass(c, "onboard")
    /\ UNCHANGED <<kvVars, faults>>

\* reset() logs a write that fails and goes on.  MEMORY.md, its backup and its archive,
\* which it empties too, are those of Memory (Reset).
ResetPersona(c) ==
    /\ pc[c] = "onboard" /\ reply[c].kind = "reset"
    /\ \/ named' = [named EXCEPT ![UserOf[c]] = FALSE] /\ UNCHANGED faults
       \/ WriteFails /\ UNCHANGED named
    /\ stage' = [stage EXCEPT ![UserOf[c]] = "1"]
    /\ EndTurn(c, "askname")
    /\ UNCHANGED <<held, grants, asked, picks, turns, historyVars>>

\* What the phase reads: the stage `st' and whether there is a USER.md, `doc'.
\* Either may be lost.
Looks(c, st, doc) ==
    /\ pc[c] = "onboard" /\ reply[c].kind # "reset"
    /\ \/ st = stage[UserOf[c]] /\ doc = named[UserOf[c]] /\ UNCHANGED faults
       \/ /\ <<st, doc>> # <<stage[UserOf[c]], named[UserOf[c]]>>
          /\ st \in {stage[UserOf[c]], ""} /\ doc \in {named[UserOf[c]], FALSE}
          /\ ReadFails

\* First contact: whatever the message asks, the name is asked first.
Greet(c, st, doc) ==
    /\ Looks(c, st, doc)
    /\ ~doc /\ st # "1"
    /\ stage' = [stage EXCEPT ![UserOf[c]] = "1"]
    /\ EndTurn(c, "askname")
    /\ UNCHANGED <<held, grants, named, asked, picks, turns, historyVars>>

AskNameAgain(c, st, doc) ==
    /\ Looks(c, st, doc)
    /\ ~doc /\ st = "1" /\ reply[c].name = "greeting"
    /\ EndTurn(c, "askname")
    /\ UNCHANGED <<kvVars, turns, historyVars>>

\* USER.md and IDENTITY.md, then the stage.
TakeName(c, st, doc) ==
    /\ Looks(c, st, doc)
    /\ ~doc /\ st = "1" /\ reply[c].name = "name"
    /\ named' = [named EXCEPT ![UserOf[c]] = TRUE]
    /\ stage' = [stage EXCEPT ![UserOf[c]] = "done"]
    /\ EndTurn(c, "welcome")
    /\ UNCHANGED <<held, grants, asked, picks, turns, historyVars>>

\* A name is known, or the message does not read like one.
PassOnboarding(c, st, doc) ==
    /\ Looks(c, st, doc)
    /\ doc \/ (st = "1" /\ reply[c].name = "other")
    /\ Pass(c, "clarify")
    /\ UNCHANGED kvVars

-----------------------------------------------------------------------------
(* Clarification, my_claw_tool.py:128-161.                                 *)

\* The agent gets the message as the task of this turn.
StartTask(c, t) ==
    /\ Goto(c, "agent")
    /\ task' = [task EXCEPT ![c] = t]
    /\ readAsked' = [readAsked EXCEPT ![c] = None]
    /\ UNCHANGED <<turns, reply, taken, readGrants, told, ran, given, offered, slip>>

\* The message passes by what is left of the question q: if that is one of this chat,
\* it counts.
PassesBy(c, q) ==
    passedBy' = [passedBy EXCEPT ![c] = IF q # None /\ q.by.chat = c THEN @ + 1 ELSE 0]

\* No question is pending, or the read fails.
NothingAsked(c) ==
    /\ pc[c] = "clarify"
    /\ \/ asked = None /\ UNCHANGED faults
       \/ asked # None /\ ReadFails
    /\ StartTask(c, ThisTask(c))
    /\ PassesBy(c, asked)
    /\ UNCHANGED <<kvVars, folded, strayed>>

ReadAsked(c) ==
    /\ pc[c] = "clarify" /\ asked # None
    /\ readAsked' = [readAsked EXCEPT ![c] = asked]
    /\ strayed' = IF asked.by.chat = c THEN strayed ELSE strayed \cup {asked.by}
    /\ Goto(c, "match")
    /\ UNCHANGED <<kvVars, turns, reply, task, taken, readGrants, faults, told, ran, given,
                   folded, passedBy, offered, slip>>

Hits(c) == reply[c].pick \in 1 .. readAsked[c].opts

\* The question is older than 24 hours, or clarification is off by now.
Expire(c) ==
    /\ ExpiryOn
    /\ pc[c] = "match"
    /\ asked' = None /\ PassesBy(c, None)
    /\ StartTask(c, ThisTask(c))
    /\ UNCHANGED <<held, grants, stage, named, picks, faults, folded, strayed>>

Chosen(c) == [topic |-> readAsked[c].topic, pick |-> reply[c].pick]

Remember(choices, choice) ==
    LET all == Append(choices, choice) IN
    IF Len(all) > HistoryLimit THEN SubSeq(all, Len(all) - HistoryLimit + 1, Len(all)) ELSE all

\* Mutant of Fold: the pending question stays.
FoldKeepsAsked(c) ==
    /\ pc[c] = "match" /\ Hits(c)
    /\ picks' = [picks EXCEPT ![UserOf[c]] = Remember(@, Chosen(c))]
    /\ folded' = Append(folded, [q |-> readAsked[c], chat |-> c, pick |-> reply[c].pick])
    /\ PassesBy(c, None)
    /\ StartTask(c, readAsked[c].original)
    /\ UNCHANGED <<held, grants, stage, named, asked, faults, strayed>>

\* The choice is folded into the original task and remembered.  A history that
\* cannot be read is started anew, one that cannot be written is left as it is.
Fold(c) ==
    /\ pc[c] = "match" /\ Hits(c)
    /\ asked' = None
    /\ \/ /\ picks' = [picks EXCEPT ![UserOf[c]] = Remember(@, Chosen(c))]
          /\ UNCHANGED faults
       \/ ReadFails /\ picks' = [picks EXCEPT ![UserOf[c]] = <<Chosen(c)>>]
       \/ WriteFails /\ UNCHANGED picks
    /\ folded' = Append(folded, [q |-> readAsked[c], chat |-> c, pick |-> reply[c].pick])
    /\ PassesBy(c, None)
    /\ StartTask(c, readAsked[c].original)
    /\ UNCHANGED <<held, grants, stage, named, strayed>>

\* Mutant of Miss: the count of misses is not written back.
MissUncounted(c) ==
    /\ pc[c] = "match" /\ ~Hits(c)
    /\ PassesBy(c, readAsked[c])
    /\ StartTask(c, ThisTask(c))
    /\ UNCHANGED <<kvVars, faults, folded, strayed>>

\* The second miss drops the question; the first one goes to the agent with a
\* note about it.
Miss(c) ==
    /\ pc[c] = "match" /\ ~Hits(c)
    /\ asked' = IF readAsked[c].misses + 1 >= 2 THEN None
                ELSE [readAsked[c] EXCEPT !.misses = @ + 1]
    /\ PassesBy(c, asked')
    /\ StartTask(c, ThisTask(c))
    /\ UNCHANGED <<held, grants, stage, named, picks, faults, folded, strayed>>

-----------------------------------------------------------------------------
(* What the agent does to the KV storage, or ends the turn with.           *)

Answer(c) ==
    /\ pc[c] = "agent"
    /\ EndTurn(c, "answer")
    /\ UNCHANGED <<kvVars, turns, faults, historyVars>>

\* run_command without a grant, or with grants that could not be read: the
\* command is held and the turn ends (builtin.py:131-134, kernel.py:184-193).
HoldCommand(c, cmd) ==
    /\ ApprovalOn
    /\ pc[c] = "agent"
    /\ \/ cmd[1] \notin grants[UserOf[c]] /\ UNCHANGED faults
       \/ cmd[1] \in grants[UserOf[c]] /\ ReadFails
    /\ held' = [held EXCEPT ![KeyOf[c]] = cmd]
    /\ Offer(c, cmd)
    /\ UNCHANGED <<grants, stage, named, asked, picks>>

\* The text ask_user takes for the original task: the last user message that does
\* not begin with "you".  That may be a note or a summary of the kernel, or, when
\* this turn's message begins so, an earlier message.
Originals(c) == {task[c], Foreign(c)}

\* The question is written before it is known whether the user will see it.
PutQuestion(c, n, topic) ==
    /\ \E original \in Originals(c) :
          asked' = [by |-> ThisTask(c), original |-> original, topic |-> topic,
                    opts |-> n, misses |-> 0]
    /\ passedBy' = [passedBy EXCEPT ![c] = 0]

\* The choices the history has for similar questions.
Alike(c, topic) ==
    {i \in DOMAIN picks[UserOf[c]] : <<picks[UserOf[c]][i].topic, topic>> \in Similar}
PickAt(c, i) == picks[UserOf[c]][i].pick

\* Mutant of Repeated: one choice is enough.
RepeatedOnce(c, n, topic) == {pick \in 1 .. n : \E i \in Alike(c, topic) : PickAt(c, i) = pick}

\* The positions chosen twice in similar questions, if this one has that many
\* options; what the options said is not compared (clarify.py:156-166).
Repeated(c, n, topic) ==
    {pick \in 1 .. n : \E i, j \in Alike(c, topic) :
                           i # j /\ PickAt(c, i) = pick /\ PickAt(c, j) = pick}

\* Mutant of AutoPick: a position counted from 1 taken for one counted from 0.
AutoPickShifted(c, n, topic, pick) == pick + 1 \in Repeated(c, n, topic)

\* Of several, the code takes the one whose first choice is the youngest: `auto' is
\* left at the last one of auto_counts, which are in the order of their first choice
\* (clarify.py:164-167).
AutoPick(c, n, topic, pick) ==
    /\ pick \in Repeated(c, n, topic)
    /\ \A other \in Repeated(c, n, topic) \ {pick} :
          \E j \in Alike(c, topic) :
              /\ PickAt(c, j) = other
              /\ \A i \in Alike(c, topic) : PickAt(c, i) = pick => j < i

\* ask_user: the question goes to the KV storage and to the user.
Ask(c, n, topic) ==
    /\ pc[c] = "agent"
    /\ \/ Repeated(c, n, topic) = {} /\ UNCHANGED faults
       \/ Repeated(c, n, topic) # {} /\ ReadFails
    /\ PutQuestion(c, n, topic)
    /\ EndTurn(c, "question")
    /\ UNCHANGED <<held, grants, stage, named, picks, turns, ran, given, folded, strayed,
                   offered, slip>>

\* The kernel answers it from the history; the question is in the KV storage
\* nevertheless, and the run goes on.
AskAndAnswer(c, n, topic, pick) ==
    /\ pc[c] = "agent" /\ AutoPick(c, n, topic, pick)
    /\ PutQuestion(c, n, topic)
    /\ UNCHANGED <<held, grants, stage, named, picks, pc, turns, reply, localVars,
                   faults, told, ran, given, folded, strayed, offered, slip>>

-----------------------------------------------------------------------------
(* A KV write raises, or the host drops the connection: the turn is over,  *)
(* and what it has written stays.                                          *)

Fails(c) ==
    /\ pc[c] # "idle"
    /\ faults < MaxFaults /\ faults' = faults + 1
    /\ EndTurn(c, "error")
    /\ UNCHANGED <<turns, ran, given, folded, strayed, offered>>

Crash(c) == Fails(c) /\ UNCHANGED <<kvVars, passedBy, slip>>

\* Between the documents of the persona and the stage.
CrashAmidOnboarding(c) ==
    /\ Fails(c)
    /\ \/ /\ pc[c] = "onboard" /\ reply[c].kind = "reset"
          /\ named' = [named EXCEPT ![UserOf[c]] = FALSE]
       \/ /\ pc[c] = "onboard" /\ reply[c].kind # "reset" /\ reply[c].name = "name"
          /\ ~named[UserOf[c]] /\ stage[UserOf[c]] = "1"
          /\ named' = [named EXCEPT ![UserOf[c]] = TRUE]
    /\ UNCHANGED <<held, grants, stage, asked, picks, passedBy, slip>>

\* Between clearing a key and the next statement of the phase.
CrashAfterClearing(c) ==
    /\ Fails(c)
    /\ \/ /\ pc[c] = "verdict" /\ reply[c].verdict # ""
          /\ Clear(c)
          /\ UNCHANGED <<asked, passedBy>>
       \/ /\ pc[c] = "match" /\ Hits(c)
          /\ asked' = None /\ PassesBy(c, None)
          /\ UNCHANGED held
    /\ UNCHANGED <<grants, stage, named, picks, slip>>

\* Between writing the key and showing the question or the command.
CrashBeforeShowing(c) ==
    /\ pc[c] = "agent"
    /\ Fails(c)
    /\ \/ /\ ApprovalOn
          /\ \E cmd \in Commands : /\ cmd[1] \notin grants[UserOf[c]]
                                   /\ held' = [held EXCEPT ![KeyOf[c]] = cmd]
          /\ slip' = [slip EXCEPT ![c] = "unseen"]
          /\ UNCHANGED <<asked, passedBy>>
       \/ /\ \E n \in Counts, topic \in Topics : PutQuestion(c, n, topic)
          /\ UNCHANGED <<held, slip>>
    /\ UNCHANGED <<grants, stage, named, picks>>

Approval(c) ==
    NothingHeld(c) \/ ReadHeld(c) \/ Remind(c) \/ Deny(c) \/ Accept(c)
    \/ ReadGrants(c) \/ SaveGrants(c) \/ RunTaken(c)
Onboarding(c) ==
    \/ ResetPersona(c)
    \/ \E st \in {"", "1", "done"}, doc \in BOOLEAN :
          Greet(c, st, doc) \/ AskNameAgain(c, st, doc)
          \/ TakeName(c, st, doc) \/ PassOnboarding(c, st, doc)
Clarification(c) ==
    NothingAsked(c) \/ ReadAsked(c) \/ Expire(c) \/ Fold(c) \/ Miss(c)
Agent(c) ==
    \/ Answer(c)
    \/ \E cmd \in Commands : HoldCommand(c, cmd)
    \/ \E n \in Counts, topic \in Topics :
          Ask(c, n, topic) \/ \E pick \in 1 .. 4 : AskAndAnswer(c, n, topic, pick)

Next ==
    \E c \in Chats :
        \/ \E r \in Replies : Say(c, r)
        \/ Approval(c)
        \/ MemoryCommand(c) \/ NoMemoryCommand(c)
        \/ Onboarding(c)
        \/ Clarification(c)
        \/ Agent(c)
        \/ Crash(c) \/ CrashAmidOnboarding(c)
        \/ CrashAfterClearing(c) \/ CrashBeforeShowing(c)

Spec == Init /\ [][Next]_vars

-----------------------------------------------------------------------------
(* Properties.                                                             *)

TypeOK ==
    /\ held \in [Keys -> Commands \cup {None}]
    /\ grants \in [Users -> SUBSET Exes]
    /\ stage \in [Users -> {"", "1", "done"}]
    /\ named \in [Users -> BOOLEAN]
    /\ asked \in Question \cup {None}
    /\ picks \in [Users -> Seq(Choice)]
    /\ pc \in [Chats -> {"idle", "approval", "verdict", "grant", "save", "run", "memory",
                         "onboard", "clarify", "match", "agent"}]
    /\ turns \in [Chats -> Nat] /\ \A c \in Chats : turns[c] <= MaxTurns[c]
    /\ reply \in [Chats -> Reply]
    /\ task \in [Chats -> Task]
    /\ taken \in [Chats -> Commands \cup {None}]
    /\ readGrants \in [Chats -> SUBSET Exes]
    /\ readAsked \in [Chats -> Question \cup {None}]
    /\ faults \in 0 .. MaxFaults
    /\ told \in [Chats -> {"nothing", "skills", "approval", "denied", "ran", "memory",
                           "askname", "welcome", "answer", "question", "error"}]
    /\ ran \in [Chats -> Seq(Commands)]
    /\ given \subseteq Users \X Exes
    /\ folded \in Seq([q : Question, chat : Chats, pick : 1 .. 4])
    /\ passedBy \in [Chats -> Nat]
    /\ strayed \subseteq Task
    /\ offered \in [Chats -> Commands \cup {None}]
    /\ slip \in [Chats -> {"", "missed", "unseen"}]

Accepted == {"grant", "save", "run"}

Protocol == INSTANCE ApprovalProtocol WITH
    waiting <- held,
    seen <- [c \in Chats |-> IF pc[c] = "verdict" THEN taken[c] ELSE None],
    accepted <- [c \in Chats |-> IF pc[c] \in Accepted THEN taken[c] ELSE None]

\* The approval phase, over its KV keys and its local variables, implements
\* ApprovalProtocol: through crashes, failing reads, chats of one user that write
\* its grants at the same time, and turns that share a key, a chat runs only what it
\* has read under its key, once per yes; and a chat alone on its key runs once what
\* was held once.
ImplementsApproval == Protocol!AbsSpec

\* No sensitive command runs without a question unless its user once said "always"
\* to the executable: racing writes of the grants may lose one, and never
\* invent one (my_claw_tool.py:272-279 and 315-326).
GrantsWereGiven == \A u \in Users : \A exe \in grants[u] : <<u, exe>> \in given

\* A chat with a conversation of its own; those without one share a key.
Alone(c) == \A d \in Chats : KeyOf[d] = KeyOf[c] => d = c

\* In a conversation of its own, a yes is about the command that chat was shown last,
\* and nothing but a list of skills or an error stood in between: not even after a
\* read of the key has failed is another command run than the one shown, though
\* other texts may have come in between by then.  Only a turn that died between
\* holding a command and showing it leaves one to be accepted unseen.
AcceptedAsShown ==
    [][\A c \in Chats :
           /\ Alone(c)
           /\ pc[c] = "verdict" /\ pc'[c] \in Accepted
           /\ slip[c] # "unseen"
           => /\ taken[c] = offered[c]
              /\ slip[c] = "missed" \/ told[c] \in {"approval", "skills", "error"}]_vars

\* A question is folded into a task at most once, in any number of chats, unless
\* another chat than the one that asked has read it: two chats may both read it
\* before either clears it.
FoldedOnce ==
    \A i, j \in DOMAIN folded :
        folded[i].q.by = folded[j].q.by /\ folded[i].q.by \notin strayed => i = j

\* A user who changes the subject is rid of the question: after two messages of the
\* chat that pick no option it is gone, wherever they were interrupted by other
\* phases and whatever other chats do with the key (my_claw_tool.py:150-155), unless
\* one of them has read it and may put it back.
QuestionLetGo ==
    asked # None /\ asked.by \notin strayed => passedBy[asked.by.chat] <= 1 + faults

\* A question is answered on behalf of a user only with a position which that user
\* chose at least twice in answer to similar questions, and which is the position
\* the code takes, whatever was lost of the history (clarify.py:143-168,
\* kernel.py:163-178).
AnsweredAsChosen ==
    [][\A c \in Chats, n \in Counts, topic \in Topics, pick \in 1 .. 4 :
           AskAndAnswer(c, n, topic, pick) =>
               /\ pick <= n
               /\ Cardinality({i \in DOMAIN folded : /\ UserOf[folded[i].chat] = UserOf[c]
                                                    /\ <<folded[i].q.topic, topic>> \in Similar
                                                    /\ folded[i].pick = pick}) >= 2]_vars

-----------------------------------------------------------------------------
(* What the documentation says and the code does not keep.                 *)

\* docs/plan-0.6.0.md:43 keeps the question per conversation; the code has one
\* key for all of them (clarify.py:15).
ReplyGoesToAsker == \A i \in DOMAIN folded : folded[i].chat = folded[i].q.by.chat
=============================================================================
