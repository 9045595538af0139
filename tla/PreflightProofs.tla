-------------------------- MODULE PreflightProofs --------------------------
(***************************************************************************)
(* What a user's yes and his choices mean, for any chats, users, keys,     *)
(* commands, topics and any number of messages and faults: the approval    *)
(* phase implements ApprovalProtocol, whatever is granted was given, and a *)
(* command accepted is the one that was shown; an automatic answer repeats *)
(* what was chosen twice; a question no other chat has read is folded once *)
(* and let go of when the subject changes. And the types of all keys and   *)
(* turns.                                                                  *)
(***************************************************************************)
EXTENDS Preflight, FiniteSetTheorems, TLAPS

\* The phases in which a command is decided on.
Decided == {"verdict"} \cup Accepted

Shapes ==
    /\ DOMAIN pc = Chats /\ DOMAIN readGrants = Chats /\ DOMAIN grants = Users
    /\ held \in [Keys -> Commands \cup {None}]
    /\ taken \in [Chats -> Commands \cup {None}]
    /\ ran \in [Chats -> Seq(Commands)]

\* A command is read just as long as the chat decides on it or runs it; under a key
\* of its own it waits there until it is decided on.
TakenWhileDecided ==
    \A c \in Chats : /\ pc[c] \in Decided => taken[c] \in Commands
                     /\ pc[c] \notin Decided => taken[c] = None
                     /\ Alone(c) /\ pc[c] = "verdict" => held[KeyOf[c]] = taken[c]

\* What is about to be granted was given, and so was all that was read.
Backed ==
    \A c \in Chats :
        /\ pc[c] \in {"grant", "save"} => <<UserOf[c], taken[c][1]>> \in given
        /\ \A exe \in readGrants[c] : <<UserOf[c], exe>> \in given

IInv == Shapes /\ TakenWhileDecided /\ Backed /\ GrantsWereGiven

LEMMA InitIInv == Init => IInv
<1> SUFFICES ASSUME Init PROVE IInv
  OBVIOUS
<1>1. Shapes
  <2>1. << >> \in Seq(Commands)
    OBVIOUS
  <2> QED
    BY <2>1 DEF Init, Shapes
<1>2. TakenWhileDecided /\ Backed /\ GrantsWereGiven
  BY DEF Init, TakenWhileDecided, Decided, Accepted, Backed, GrantsWereGiven
<1> QED
  BY <1>1, <1>2 DEF IInv

-----------------------------------------------------------------------------
(* What the steps do to the approval, in kinds.                            *)

\* The step is one of chat c: the others stay where they are.
StepOf(c) ==
    /\ DOMAIN pc' = Chats /\ DOMAIN readGrants' = Chats
    /\ \A d \in Chats \ {c} : pc'[d] = pc[d] /\ readGrants'[d] = readGrants[d]

\* No command is held, decided on or run.
Elsewhere(c) ==
    /\ StepOf(c) /\ pc[c] \notin Decided /\ pc'[c] \notin Decided
    /\ readGrants'[c] \in {readGrants[c], {}}
    /\ UNCHANGED <<held, taken, ran, grants, given>>

\* The chat gives up what it decides on; the key is cleared or left.
Drops(c) ==
    /\ StepOf(c) /\ pc'[c] = "idle" /\ readGrants'[c] = {}
    /\ held' \in {held, [held EXCEPT ![KeyOf[c]] = None]}
    /\ taken' = [taken EXCEPT ![c] = None]
    /\ UNCHANGED <<ran, grants, given>>

\* The agent leaves a command to be decided on.
Holds(c, cmd) ==
    /\ StepOf(c) /\ pc[c] \notin Decided /\ pc'[c] = "idle" /\ readGrants'[c] = {}
    /\ held' = [held EXCEPT ![KeyOf[c]] = cmd]
    /\ UNCHANGED <<taken, ran, grants, given>>

\* The end of a turn drops the command decided on, if there is one.
LEMMA EndTurnDrops ==
  ASSUME IInv, NEW c \in Chats, NEW text, EndTurn(c, text)
  PROVE  /\ StepOf(c) /\ pc'[c] = "idle" /\ readGrants'[c] = {}
         /\ taken' = [taken EXCEPT ![c] = None]
         /\ pc[c] \notin Decided => taken' = taken
  BY DEF IInv, Shapes, TakenWhileDecided, EndTurn, Goto, StepOf

LEMMA OfferDrops ==
  ASSUME IInv, NEW c \in Chats, NEW cmd, Offer(c, cmd)
  PROVE  /\ StepOf(c) /\ pc'[c] = "idle" /\ readGrants'[c] = {}
         /\ taken' = [taken EXCEPT ![c] = None]
         /\ pc[c] \notin Decided => taken' = taken
         /\ UNCHANGED <<ran, given>>
  BY EndTurnDrops DEF Offer

LEMMA PassKeeps ==
  ASSUME IInv, NEW c \in Chats, NEW phase, Pass(c, phase)
  PROVE  /\ StepOf(c) /\ pc'[c] = phase
         /\ UNCHANGED <<taken, readGrants, ran, given>>
  BY DEF IInv, Shapes, Pass, Goto, StepOf, localVars, userVars, historyVars

LEMMA StartTaskKeeps ==
  ASSUME IInv, NEW c \in Chats, NEW t, StartTask(c, t)
  PROVE  /\ StepOf(c) /\ pc'[c] = "agent"
         /\ UNCHANGED <<taken, readGrants, ran, given>>
  BY DEF IInv, Shapes, StartTask, Goto, StepOf

LEMMA SayElsewhere ==
  ASSUME IInv, NEW c \in Chats, NEW r \in Replies, Say(c, r)
  PROVE  Elsewhere(c)
<1>1. UNCHANGED <<held, taken, ran, grants, given, readGrants>> /\ pc[c] \notin Decided
  BY DEF Say, Decided, Accepted, kvVars, localVars, historyVars
<1>2. CASE r.kind = "skill"
  BY <1>1, <1>2 DEF Say, Elsewhere, StepOf, IInv, Shapes
<1>3. CASE r.kind # "skill"
  BY <1>1, <1>3 DEF Say, Elsewhere, StepOf, IInv, Shapes, Goto, Decided, Accepted
<1> QED
  BY <1>2, <1>3

LEMMA OtherPhasesElsewhere ==
  ASSUME IInv, NEW c \in Chats,
         \/ NothingHeld(c)
         \/ MemoryCommand(c) \/ NoMemoryCommand(c)
         \/ Onboarding(c) \/ Clarification(c)
         \/ Answer(c)
         \/ \E n \in Counts, topic \in Topics :
               Ask(c, n, topic) \/ \E pick \in 1 .. 4 : AskAndAnswer(c, n, topic, pick)
         \/ CrashAmidOnboarding(c)
  PROVE  Elsewhere(c)
<1> USE DEF Elsewhere, Decided, Accepted, historyVars
<1>1. CASE NothingHeld(c)
  BY <1>1 DEF NothingHeld, Goto, StepOf, IInv, Shapes, kvVars, localVars
<1>3. CASE MemoryCommand(c)
  BY <1>3, EndTurnDrops DEF MemoryCommand, kvVars
<1>4. CASE NoMemoryCommand(c)
  BY <1>4, PassKeeps DEF NoMemoryCommand, kvVars
<1>5. CASE ResetPersona(c)
  BY <1>5, EndTurnDrops DEF ResetPersona
<1>6. ASSUME NEW st, NEW doc, Greet(c, st, doc)
      PROVE  Elsewhere(c)
  BY <1>6, EndTurnDrops DEF Greet, Looks
<1>7. ASSUME NEW st, NEW doc, AskNameAgain(c, st, doc)
      PROVE  Elsewhere(c)
  BY <1>7, EndTurnDrops DEF AskNameAgain, Looks, kvVars
<1>8. ASSUME NEW st, NEW doc, TakeName(c, st, doc)
      PROVE  Elsewhere(c)
  BY <1>8, EndTurnDrops DEF TakeName, Looks
<1>9. ASSUME NEW st, NEW doc, PassOnboarding(c, st, doc)
      PROVE  Elsewhere(c)
  <2>1. Pass(c, "clarify") /\ pc[c] = "onboard" /\ UNCHANGED kvVars
    BY <1>9, Zenon DEF PassOnboarding, Looks
  <2> QED
    BY <2>1, PassKeeps DEF kvVars
<1>10. CASE NothingAsked(c)
  BY <1>10, StartTaskKeeps DEF NothingAsked, kvVars
<1>11. CASE ReadAsked(c)
  BY <1>11 DEF ReadAsked, Goto, StepOf, IInv, Shapes, kvVars, userVars
<1>12. CASE Expire(c)
  BY <1>12, StartTaskKeeps DEF Expire
<1>13. CASE Fold(c)
  BY <1>13, StartTaskKeeps DEF Fold
<1>14. CASE Miss(c)
  <2>1. StartTask(c, ThisTask(c)) /\ pc[c] = "match" /\ UNCHANGED <<held, grants>>
    BY <1>14, Zenon DEF Miss
  <2> QED
    BY <2>1, StartTaskKeeps
<1>15. CASE Answer(c)
  BY <1>15, EndTurnDrops DEF Answer, kvVars
<1>16. ASSUME NEW n \in Counts, NEW topic \in Topics, Ask(c, n, topic)
       PROVE  Elsewhere(c)
  BY <1>16, EndTurnDrops DEF Ask
<1>17. ASSUME NEW n \in Counts, NEW topic \in Topics, NEW pick \in 1 .. 4,
              AskAndAnswer(c, n, topic, pick)
       PROVE  Elsewhere(c)
  BY <1>17 DEF AskAndAnswer, StepOf, IInv, Shapes, localVars
<1>18. CASE CrashAmidOnboarding(c)
  BY <1>18, EndTurnDrops DEF CrashAmidOnboarding, Fails
<1> QED
  BY <1>1, <1>3, <1>4, <1>5, <1>6, <1>7, <1>8, <1>9, <1>10, <1>11, <1>12, <1>13,
     <1>14, <1>15, <1>16, <1>17, <1>18 DEF Onboarding, Clarification

LEMMA RemindAndDenyDrop ==
  ASSUME IInv, NEW c \in Chats, Remind(c) \/ Deny(c)
  PROVE  Drops(c)
<1>1. CASE Remind(c)
  BY <1>1, OfferDrops DEF Remind, Drops, kvVars
<1>2. CASE Deny(c)
  BY <1>2, EndTurnDrops DEF Deny, Clear, Drops, historyVars
<1> QED
  BY <1>1, <1>2

\* A turn that dies loses what it decides on, before clearing the key or after.
LEMMA CrashDrops ==
  ASSUME IInv, NEW c \in Chats, Crash(c) \/ CrashAfterClearing(c)
  PROVE  Drops(c)
<1>1. Fails(c) /\ grants' = grants
  BY DEF Crash, CrashAfterClearing, kvVars
<1>2. held' \in {held, [held EXCEPT ![KeyOf[c]] = None]}
  BY DEF Crash, CrashAfterClearing, Clear, kvVars
<1> QED
  BY <1>1, <1>2, EndTurnDrops DEF Fails, Drops

LEMMA HoldCommandHolds ==
  ASSUME IInv, NEW c \in Chats, NEW cmd \in Commands, HoldCommand(c, cmd)
  PROVE  Holds(c, cmd)
<1>1. /\ pc[c] = "agent" /\ Offer(c, cmd) /\ held' = [held EXCEPT ![KeyOf[c]] = cmd]
      /\ UNCHANGED grants
  BY Zenon DEF HoldCommand
<1> QED
  BY <1>1, OfferDrops DEF Holds, Decided, Accepted

LEMMA CrashBeforeShowingHolds ==
  ASSUME IInv, NEW c \in Chats, CrashBeforeShowing(c)
  PROVE  Elsewhere(c) \/ \E cmd \in Commands : Holds(c, cmd)
<1>1. pc[c] = "agent" /\ Fails(c) /\ grants' = grants
  BY DEF CrashBeforeShowing
<1>2. /\ StepOf(c) /\ pc'[c] = "idle" /\ readGrants'[c] = {} /\ taken' = taken
      /\ UNCHANGED <<ran, given>>
  BY <1>1, EndTurnDrops DEF Fails, Decided, Accepted
<1>3. CASE held' = held
  BY <1>1, <1>2, <1>3 DEF Elsewhere, Decided, Accepted
<1>4. CASE \E cmd \in Commands : held' = [held EXCEPT ![KeyOf[c]] = cmd]
  BY <1>1, <1>2, <1>4 DEF Holds, Decided, Accepted
<1> QED
  BY <1>3, <1>4, Zenon DEF CrashBeforeShowing

\* Every step is of one of these kinds, or one of the approval's own.
Kinds(c) ==
    \/ Elsewhere(c) \/ Drops(c) \/ \E cmd \in Commands : Holds(c, cmd)
    \/ ReadHeld(c) \/ Accept(c) \/ ReadGrants(c) \/ SaveGrants(c) \/ RunTaken(c)

LEMMA StepKinds ==
  ASSUME IInv, Next
  PROVE  \E c \in Chats : Kinds(c)
<1>1. PICK c \in Chats :
        \/ \E r \in Replies : Say(c, r)
        \/ Approval(c)
        \/ MemoryCommand(c) \/ NoMemoryCommand(c)
        \/ Onboarding(c) \/ Clarification(c) \/ Agent(c)
        \/ Crash(c) \/ CrashAmidOnboarding(c)
        \/ CrashAfterClearing(c) \/ CrashBeforeShowing(c)
  BY Zenon DEF Next
<1>2. CASE \E r \in Replies : Say(c, r)
  BY <1>2, SayElsewhere DEF Kinds
<1>3. CASE Crash(c) \/ CrashAfterClearing(c)
  BY <1>3, CrashDrops DEF Kinds
<1>4. CASE CrashBeforeShowing(c)
  BY <1>4, CrashBeforeShowingHolds DEF Kinds
<1>5. CASE Remind(c) \/ Deny(c)
  BY <1>5, RemindAndDenyDrop DEF Kinds
<1>6. CASE \E cmd \in Commands : HoldCommand(c, cmd)
  BY <1>6, HoldCommandHolds DEF Kinds
<1>7. CASE ReadHeld(c) \/ Accept(c) \/ ReadGrants(c) \/ SaveGrants(c) \/ RunTaken(c)
  BY <1>7 DEF Kinds
<1>8. CASE \/ NothingHeld(c)
           \/ MemoryCommand(c) \/ NoMemoryCommand(c)
           \/ Onboarding(c) \/ Clarification(c)
           \/ Answer(c)
           \/ \E n \in Counts, topic \in Topics :
                 Ask(c, n, topic) \/ \E pick \in 1 .. 4 : AskAndAnswer(c, n, topic, pick)
           \/ CrashAmidOnboarding(c)
  BY <1>8, OtherPhasesElsewhere DEF Kinds
<1> QED
  BY <1>1, <1>2, <1>3, <1>4, <1>5, <1>6, <1>7, <1>8, Zenon DEF Approval, Agent

-----------------------------------------------------------------------------
(* Each kind keeps the invariant.                                          *)

\* A chat alone on its key, elsewhere, has it untouched by the step.
LEMMA KeyOfItsOwn ==
  ASSUME NEW c \in Chats, NEW d \in Chats \ {c}, Alone(d)
  PROVE  KeyOf[d] # KeyOf[c]
  BY DEF Alone

LEMMA QuietStepsKeepIInv ==
  ASSUME IInv, NEW c \in Chats,
         \/ Elsewhere(c) \/ Drops(c) \/ \E cmd \in Commands : Holds(c, cmd)
  PROVE  IInv'
<1>1. /\ StepOf(c) /\ pc'[c] \notin Decided /\ readGrants'[c] \in {readGrants[c], {}}
      /\ UNCHANGED <<ran, grants, given>>
  BY DEF Elsewhere, Drops, Holds, Decided, Accepted
<1>2. /\ held' \in [Keys -> Commands \cup {None}]
      /\ taken' \in [Chats -> Commands \cup {None}]
      /\ taken'[c] = None
      /\ \A d \in Chats \ {c} : taken'[d] = taken[d]
      /\ \A key \in Keys \ {KeyOf[c]} : held'[key] = held[key]
  <2>1. CASE Elsewhere(c)
    BY <2>1 DEF Elsewhere, IInv, Shapes, TakenWhileDecided
  <2>2. CASE Drops(c)
    BY <2>2 DEF Drops, IInv, Shapes
  <2>3. CASE \E cmd \in Commands : Holds(c, cmd)
    BY <2>3 DEF Holds, IInv, Shapes, TakenWhileDecided
  <2> QED
    BY <2>1, <2>2, <2>3
<1>3. Shapes'
  BY <1>1, <1>2 DEF IInv, Shapes, StepOf
<1>4. TakenWhileDecided'
  <2>1. ASSUME NEW d \in Chats \ {c}, Alone(d)
        PROVE  held'[KeyOf[d]] = held[KeyOf[d]]
    BY <1>2, <2>1, KeyOfItsOwn, PreflightConstants
  <2>2. ASSUME NEW d \in Chats
        PROVE  /\ pc'[d] \in Decided => taken'[d] \in Commands
               /\ pc'[d] \notin Decided => taken'[d] = None
               /\ Alone(d) /\ pc'[d] = "verdict" => held'[KeyOf[d]] = taken'[d]
    BY <1>1, <1>2, <2>1 DEF IInv, TakenWhileDecided, StepOf, Decided
  <2> QED
    BY <2>2 DEF TakenWhileDecided, Alone
<1>5. Backed'
  BY <1>1, <1>2 DEF IInv, Backed, StepOf, Decided, Accepted
<1>6. GrantsWereGiven'
  BY <1>1 DEF IInv, GrantsWereGiven
<1> QED
  BY <1>3, <1>4, <1>5, <1>6 DEF IInv

\* What is read is what waits; nothing else changes.
LEMMA ReadHeldKeepsIInv ==
  ASSUME IInv, NEW c \in Chats, ReadHeld(c)
  PROVE  IInv'
<1>1. /\ StepOf(c) /\ pc[c] = "approval" /\ pc'[c] = "verdict"
      /\ taken' = [taken EXCEPT ![c] = held[KeyOf[c]]]
      /\ UNCHANGED <<held, grants, readGrants, ran, given>>
  BY DEF ReadHeld, Waiting, Goto, StepOf, IInv, Shapes, kvVars, userVars, historyVars
<1>2. held[KeyOf[c]] \in Commands
  BY PreflightConstants DEF ReadHeld, Waiting, IInv, Shapes
<1>3. taken'[c] = held[KeyOf[c]] /\ \A d \in Chats \ {c} : taken'[d] = taken[d]
  BY <1>1 DEF IInv, Shapes
<1>4. Shapes'
  BY <1>1, <1>2 DEF IInv, Shapes, StepOf
<1>5. TakenWhileDecided'
  <2>1. ASSUME NEW d \in Chats
        PROVE  /\ pc'[d] \in Decided => taken'[d] \in Commands
               /\ pc'[d] \notin Decided => taken'[d] = None
               /\ Alone(d) /\ pc'[d] = "verdict" => held'[KeyOf[d]] = taken'[d]
    BY <1>1, <1>2, <1>3 DEF IInv, TakenWhileDecided, StepOf, Decided
  <2> QED
    BY <2>1 DEF TakenWhileDecided, Alone
<1>6. Backed'
  <2>1. ASSUME NEW d \in Chats, pc'[d] \in {"grant", "save"}
        PROVE  d # c /\ pc[d] = pc'[d] /\ taken'[d] = taken[d]
    BY <1>1, <1>3, <2>1 DEF StepOf
  <2>2. \A d \in Chats : \A exe \in readGrants'[d] : <<UserOf[d], exe>> \in given'
    BY <1>1 DEF IInv, Backed
  <2>3. \A d \in Chats : pc'[d] \in {"grant", "save"} => <<UserOf[d], taken'[d][1]>> \in given'
    BY <1>1, <2>1 DEF IInv, Backed
  <2> QED
    BY <2>2, <2>3 DEF Backed
<1>7. GrantsWereGiven'
  BY <1>1 DEF IInv, GrantsWereGiven
<1> QED
  BY <1>4, <1>5, <1>6, <1>7 DEF IInv

LEMMA AcceptKeepsIInv ==
  ASSUME IInv, NEW c \in Chats, Accept(c)
  PROVE  IInv'
<1>1. /\ StepOf(c) /\ pc[c] = "verdict" /\ pc'[c] \in {"grant", "run"}
      /\ pc'[c] = "grant" => <<UserOf[c], taken[c][1]>> \in given'
      /\ given \subseteq given'
      /\ held' = [held EXCEPT ![KeyOf[c]] = None]
      /\ UNCHANGED <<grants, taken, readGrants, ran>>
  BY DEF Accept, Consent, Clear, Goto, StepOf, IInv, Shapes, localVars
<1>2. Shapes'
  BY <1>1 DEF IInv, Shapes, StepOf
<1>3. TakenWhileDecided'
  <2>1. ASSUME NEW d \in Chats \ {c}, Alone(d)
        PROVE  held'[KeyOf[d]] = held[KeyOf[d]]
    BY <1>1, <2>1, KeyOfItsOwn, PreflightConstants DEF IInv, Shapes
  <2>2. ASSUME NEW d \in Chats
        PROVE  /\ pc'[d] \in Decided => taken'[d] \in Commands
               /\ pc'[d] \notin Decided => taken'[d] = None
               /\ Alone(d) /\ pc'[d] = "verdict" => held'[KeyOf[d]] = taken'[d]
    BY <1>1, <2>1 DEF IInv, TakenWhileDecided, StepOf, Decided, Accepted
  <2> QED
    BY <2>2 DEF TakenWhileDecided, Alone
<1>4. Backed'
  <2>1. ASSUME NEW d \in Chats, pc'[d] \in {"grant", "save"}
        PROVE  <<UserOf[d], taken'[d][1]>> \in given'
    BY <1>1, <2>1 DEF IInv, Backed, StepOf
  <2>2. \A d \in Chats : \A exe \in readGrants'[d] : <<UserOf[d], exe>> \in given'
    BY <1>1 DEF IInv, Backed
  <2> QED
    BY <2>1, <2>2 DEF Backed
<1>5. GrantsWereGiven'
  BY <1>1 DEF IInv, GrantsWereGiven
<1> QED
  BY <1>2, <1>3, <1>4, <1>5 DEF IInv

\* What is read were grants of the user of the chat, and those were given.
LEMMA ReadGrantsKeepsIInv ==
  ASSUME IInv, NEW c \in Chats, ReadGrants(c)
  PROVE  IInv'
<1>1. /\ pc[c] = "grant" /\ pc' = [pc EXCEPT ![c] = "save"]
      /\ readGrants' \in {readGrants, [readGrants EXCEPT ![c] = grants[UserOf[c]]]}
      /\ UNCHANGED <<held, taken, ran, grants, given>>
  BY DEF ReadGrants, Goto, kvVars, userVars, historyVars
<1>2. UserOf[c] \in Users
  BY PreflightConstants
<1>3. Shapes'
  BY <1>1 DEF IInv, Shapes
<1>4. TakenWhileDecided'
  BY <1>1 DEF IInv, Shapes, TakenWhileDecided, Decided, Accepted, Alone
<1>5. Backed'
  <2>1. \A d \in Chats : pc'[d] \in {"grant", "save"} => pc[d] \in {"grant", "save"}
    BY <1>1 DEF IInv, Shapes
  <2>2. \A d \in Chats :
           \/ readGrants'[d] = readGrants[d]
           \/ (d = c /\ readGrants'[c] = grants[UserOf[c]])
    BY <1>1 DEF IInv, Shapes
  <2> QED
    BY <1>1, <1>2, <2>1, <2>2 DEF IInv, Backed, GrantsWereGiven
<1>6. GrantsWereGiven'
  BY <1>1 DEF IInv, GrantsWereGiven
<1> QED
  BY <1>3, <1>4, <1>5, <1>6 DEF IInv

\* The grants written are those read, all of them given, and the one just given:
\* whatever another chat wrote in between.
LEMMA SaveGrantsKeepsIInv ==
  ASSUME IInv, NEW c \in Chats, SaveGrants(c)
  PROVE  IInv'
<1>1. /\ StepOf(c) /\ pc[c] = "save" /\ pc'[c] = "run"
      /\ grants' = [grants EXCEPT ![UserOf[c]] = readGrants[c] \cup {taken[c][1]}]
      /\ UNCHANGED <<held, taken, readGrants, ran, given>>
  BY PassKeeps DEF SaveGrants
<1>2. Shapes'
  BY <1>1 DEF IInv, Shapes, StepOf
<1>3. TakenWhileDecided'
  BY <1>1 DEF IInv, TakenWhileDecided, Decided, Accepted, StepOf, Alone
<1>4. Backed'
  BY <1>1 DEF IInv, Backed, StepOf
<1>5. GrantsWereGiven'
  <2>1. \A exe \in readGrants[c] \cup {taken[c][1]} : <<UserOf[c], exe>> \in given
    BY <1>1 DEF IInv, Backed
  <2>2. \A u \in Users :
           \/ grants'[u] = grants[u]
           \/ (u = UserOf[c] /\ grants'[u] = readGrants[c] \cup {taken[c][1]})
    BY <1>1 DEF IInv, Shapes
  <2> QED
    BY <1>1, <2>1, <2>2 DEF IInv, GrantsWereGiven
<1> QED
  BY <1>2, <1>3, <1>4, <1>5 DEF IInv

LEMMA RunTakenKeepsIInv ==
  ASSUME IInv, NEW c \in Chats, RunTaken(c)
  PROVE  IInv'
<1>1. /\ StepOf(c) /\ pc[c] = "run" /\ pc'[c] = "idle" /\ readGrants'[c] = {}
      /\ taken' = [taken EXCEPT ![c] = None]
      /\ ran' = [ran EXCEPT ![c] = Append(@, taken[c])]
      /\ UNCHANGED <<held, grants, given>>
  BY EndTurnDrops DEF RunTaken, kvVars
<1>2. taken[c] \in Commands
  BY <1>1 DEF IInv, TakenWhileDecided, Decided, Accepted
<1>3. Shapes'
  <2>1. Append(ran[c], taken[c]) \in Seq(Commands)
    BY <1>2 DEF IInv, Shapes
  <2> QED
    BY <1>1, <2>1 DEF IInv, Shapes, StepOf
<1>4. TakenWhileDecided'
  BY <1>1 DEF IInv, Shapes, TakenWhileDecided, Decided, Accepted, StepOf, Alone
<1>5. Backed'
  <2>1. \A d \in Chats \ {c} : taken'[d] = taken[d]
    BY <1>1 DEF IInv, Shapes
  <2> QED
    BY <1>1, <2>1 DEF IInv, Backed, StepOf
<1>6. GrantsWereGiven'
  BY <1>1 DEF IInv, GrantsWereGiven
<1> QED
  BY <1>3, <1>4, <1>5, <1>6 DEF IInv

LEMMA NextKeepsIInv == IInv /\ [Next]_vars => IInv'
<1> SUFFICES ASSUME IInv, [Next]_vars PROVE IInv'
  OBVIOUS
<1>1. CASE Next
  BY <1>1, StepKinds, QuietStepsKeepIInv, ReadHeldKeepsIInv, AcceptKeepsIInv,
     ReadGrantsKeepsIInv, SaveGrantsKeepsIInv, RunTakenKeepsIInv DEF Kinds
<1>2. CASE UNCHANGED vars
  BY <1>2 DEF vars, kvVars, localVars, userVars, historyVars, IInv, Shapes,
              TakenWhileDecided, Backed, GrantsWereGiven, Alone
<1> QED
  BY <1>1, <1>2

\* Racing writes of a user's grants, reads that lose them and crashes may lose a
\* grant, and never grant what its user did not say "always" to
\* (my_claw_tool.py:272-279 and 315-326).
THEOREM GrantsBacked == Spec => []GrantsWereGiven
<1>1. IInv => GrantsWereGiven
  BY DEF IInv
<1> QED
  BY InitIInv, NextKeepsIInv, <1>1, PTL DEF Spec

-----------------------------------------------------------------------------
(* Each kind is a step of the protocol, or a stutter.                      *)

\* The variables of the protocol, as the approval phase keeps them.
Seen == [c \in Chats |-> IF pc[c] = "verdict" THEN taken[c] ELSE None]
Agreed == [c \in Chats |-> IF pc[c] \in Accepted THEN taken[c] ELSE None]

\* A step of chat c changes what c has seen and agreed to, and nobody else's.
LEMMA SeenByOthers ==
  ASSUME NEW c \in Chats, StepOf(c), \A d \in Chats \ {c} : taken'[d] = taken[d]
  PROVE  /\ Seen' = [Seen EXCEPT ![c] = IF pc'[c] = "verdict" THEN taken'[c] ELSE None]
         /\ Agreed' = [Agreed EXCEPT ![c] = IF pc'[c] \in Accepted THEN taken'[c] ELSE None]
  BY DEF StepOf, Seen, Agreed

LEMMA SeenNow ==
  ASSUME NEW c \in Chats
  PROVE  /\ Seen[c] = (IF pc[c] = "verdict" THEN taken[c] ELSE None)
         /\ Agreed[c] = (IF pc[c] \in Accepted THEN taken[c] ELSE None)
         /\ [Seen EXCEPT ![c] = Seen[c]] = Seen
         /\ [Agreed EXCEPT ![c] = Agreed[c]] = Agreed
  BY DEF Seen, Agreed

LEMMA StepMaps ==
  ASSUME IInv, NEW c \in Chats, Kinds(c)
  PROVE  Protocol!AbsNext \/ UNCHANGED Protocol!protocolVars
<1> DEFINE Moves == Protocol!AbsNext
<1>1. CASE Elsewhere(c)
  <2>1. Seen' = Seen /\ Agreed' = Agreed /\ UNCHANGED <<held, ran>>
    BY <1>1, SeenByOthers, SeenNow DEF Elsewhere, Decided
  <2> QED
    BY <2>1 DEF Protocol!protocolVars, Seen, Agreed
<1>2. CASE Drops(c)
  <2>1. Seen' = [Seen EXCEPT ![c] = None] /\ Agreed' = [Agreed EXCEPT ![c] = None]
    BY <1>2, SeenByOthers DEF Drops, Accepted, IInv, Shapes
  <2>2. held' \in {held, [held EXCEPT ![KeyOf[c]] = None]} /\ UNCHANGED ran
    BY <1>2 DEF Drops
  <2>3. Protocol!Drop(c)
    BY <2>1, <2>2 DEF Protocol!Drop, Seen, Agreed
  <2> QED
    BY <2>3 DEF Protocol!AbsNext
<1>3. ASSUME NEW cmd \in Commands, Holds(c, cmd)
      PROVE  Moves
  <2>1. Seen' = Seen /\ Agreed' = Agreed /\ Seen[c] = None /\ Agreed[c] = None
    BY <1>3, SeenByOthers, SeenNow DEF Holds, Decided, Accepted
  <2>2. held' = [held EXCEPT ![KeyOf[c]] = cmd] /\ UNCHANGED ran
    BY <1>3 DEF Holds
  <2>3. Protocol!Hold(c, cmd)
    BY <2>1, <2>2 DEF Protocol!Hold, Protocol!Undecided, Seen, Agreed
  <2> QED
    BY <2>3 DEF Protocol!AbsNext
<1>4. CASE ReadHeld(c)
  <2>1. /\ StepOf(c) /\ pc[c] = "approval" /\ pc'[c] = "verdict"
        /\ taken' = [taken EXCEPT ![c] = held[KeyOf[c]]] /\ held[KeyOf[c]] # None
        /\ UNCHANGED <<held, ran>>
    BY <1>4 DEF ReadHeld, Waiting, Goto, StepOf, IInv, Shapes, kvVars, userVars, historyVars
  <2>2. taken'[c] = held[KeyOf[c]] /\ \A d \in Chats \ {c} : taken'[d] = taken[d]
    BY <2>1 DEF IInv, Shapes
  <2>3. /\ Seen' = [Seen EXCEPT ![c] = held[KeyOf[c]]] /\ Agreed' = Agreed
        /\ Seen[c] = None /\ Agreed[c] = None
    BY <2>1, <2>2, SeenByOthers, SeenNow DEF Accepted
  <2>4. Protocol!Look(c)
    BY <2>1, <2>3 DEF Protocol!Look, Protocol!Undecided, Seen, Agreed
  <2> QED
    BY <2>4 DEF Protocol!AbsNext
<1>5. CASE Accept(c)
  <2>1. /\ StepOf(c) /\ pc[c] = "verdict" /\ pc'[c] \in {"grant", "run"}
        /\ held' = [held EXCEPT ![KeyOf[c]] = None] /\ UNCHANGED <<taken, ran>>
    BY <1>5 DEF Accept, Consent, Clear, Goto, StepOf, IInv, Shapes, localVars
  <2>2. /\ Seen' = [Seen EXCEPT ![c] = None] /\ Agreed' = [Agreed EXCEPT ![c] = Seen[c]]
        /\ Seen[c] = taken[c]
    BY <2>1, SeenByOthers, SeenNow DEF Accepted
  <2>3. Seen[c] # None /\ (Alone(c) => Seen[c] = held[KeyOf[c]])
    BY <2>1, <2>2, PreflightConstants DEF IInv, TakenWhileDecided, Decided
  <2>4. Protocol!Accept(c)
    BY <2>1, <2>2, <2>3 DEF Protocol!Accept, Protocol!Owner, Alone, Seen, Agreed
  <2> QED
    BY <2>4 DEF Protocol!AbsNext
<1>6. CASE ReadGrants(c) \/ SaveGrants(c)
  <2>1. /\ StepOf(c) /\ pc[c] \in {"grant", "save"} /\ pc'[c] \in {"save", "run"}
        /\ UNCHANGED <<held, taken, ran>>
    BY <1>6, PassKeeps
    DEF ReadGrants, SaveGrants, Goto, StepOf, IInv, Shapes, kvVars, userVars, historyVars
  <2>2. Seen' = Seen /\ Agreed' = Agreed
    BY <2>1, SeenByOthers, SeenNow DEF Accepted
  <2> QED
    BY <2>1, <2>2 DEF Protocol!protocolVars, Seen, Agreed
<1>7. CASE RunTaken(c)
  <2>1. /\ StepOf(c) /\ pc[c] = "run" /\ pc'[c] = "idle" /\ taken' = [taken EXCEPT ![c] = None]
        /\ ran' = [ran EXCEPT ![c] = Append(@, taken[c])] /\ UNCHANGED held
    BY <1>7, EndTurnDrops DEF RunTaken, kvVars
  <2>2. taken[c] # None
    BY <2>1, PreflightConstants DEF IInv, TakenWhileDecided, Decided, Accepted
  <2>3. /\ Seen' = Seen /\ Agreed' = [Agreed EXCEPT ![c] = None] /\ Agreed[c] = taken[c]
    BY <2>1, SeenByOthers, SeenNow DEF Accepted, IInv, Shapes
  <2>4. Protocol!Run(c)
    BY <2>1, <2>2, <2>3 DEF Protocol!Run, Seen, Agreed
  <2> QED
    BY <2>4 DEF Protocol!AbsNext
<1> QED
  BY <1>1, <1>2, <1>3, <1>4, <1>5, <1>6, <1>7 DEF Kinds

\* The approval phase, over its KV keys and the local variables of its turns,
\* implements ApprovalProtocol: a chat runs only what it has read under its key, once
\* per yes, also where chats share a key and the read and the clearing of two turns
\* interleave; a chat alone on its key runs once what was held once.  For any number
\* of chats, keys, messages and faults (my_claw_tool.py:258-333).
THEOREM ApprovalImplementsProtocol == Spec => ImplementsApproval
<1>1. Init => Protocol!AbsInit
  BY DEF Init, Protocol!AbsInit
<1>2. IInv /\ [Next]_vars => [Protocol!AbsNext]_Protocol!protocolVars
  <2> SUFFICES ASSUME IInv, [Next]_vars
               PROVE  Protocol!AbsNext \/ UNCHANGED Protocol!protocolVars
    OBVIOUS
  <2>1. CASE Next
    BY <2>1, StepKinds, StepMaps
  <2>2. CASE UNCHANGED vars
    BY <2>2 DEF vars, kvVars, localVars, userVars, historyVars, Protocol!protocolVars
  <2> QED
    BY <2>1, <2>2
<1> QED
  BY InitIInv, NextKeepsIInv, <1>1, <1>2, PTL DEF Spec, ImplementsApproval, Protocol!AbsSpec

-----------------------------------------------------------------------------
(* Types.                                                                  *)

Phases == {"idle", "approval", "verdict", "grant", "save", "run", "memory",
           "onboard", "clarify", "match", "agent"}
Texts == {"nothing", "skills", "approval", "denied", "ran", "memory",
          "askname", "welcome", "answer", "question", "error"}
Folding == [q : Question, chat : Chats, pick : 1 .. 4]

\* TypeOK in three parts: the KV storage, the turns, what the users see.
StoreOK ==
    /\ held \in [Keys -> Commands \cup {None}]
    /\ grants \in [Users -> SUBSET Exes]
    /\ stage \in [Users -> {"", "1", "done"}]
    /\ named \in [Users -> BOOLEAN]
    /\ asked \in Question \cup {None}
    /\ picks \in [Users -> Seq(Choice)]

\* A question is matched once it has been read.
TurnOK ==
    /\ pc \in [Chats -> Phases]
    /\ turns \in [Chats -> Nat] /\ \A c \in Chats : turns[c] <= MaxTurns[c]
    /\ reply \in [Chats -> Reply]
    /\ task \in [Chats -> Task]
    /\ taken \in [Chats -> Commands \cup {None}]
    /\ readGrants \in [Chats -> SUBSET Exes]
    /\ readAsked \in [Chats -> Question \cup {None}]
    /\ \A c \in Chats : pc[c] = "match" => readAsked[c] \in Question

UserOK ==
    /\ faults \in 0 .. MaxFaults
    /\ told \in [Chats -> Texts]
    /\ ran \in [Chats -> Seq(Commands)]
    /\ given \subseteq Users \X Exes
    /\ folded \in Seq(Folding)
    /\ passedBy \in [Chats -> Nat]
    /\ strayed \subseteq Task
    /\ offered \in [Chats -> Commands \cup {None}]
    /\ slip \in [Chats -> {"", "missed", "unseen"}]

Typed == StoreOK /\ TurnOK /\ UserOK

LEMMA TypedParts == Typed => TypeOK
BY DEF Typed, StoreOK, TurnOK, UserOK, TypeOK, Phases, Texts, Folding

LEMMA Tasks ==
  ASSUME TurnOK, NEW c \in Chats
  PROVE  Foreign(c) \in Task /\ ThisTask(c) \in Task
BY DEF TurnOK, Foreign, ThisTask, Task

LEMMA FaultBound == MaxFaults \in Nat
BY Zenon, PreflightConstants

LEMMA TurnBound == \A c \in Chats : MaxTurns[c] \in Nat
BY PreflightConstants

LEMMA Replied == NoReply \in Reply
BY DEF NoReply, Reply

LEMMA InitTyped == Init => Typed
<1> SUFFICES ASSUME Init PROVE Typed
  OBVIOUS
<1>1. StoreOK
  <2>1. << >> \in Seq(Choice)
    OBVIOUS
  <2>2. /\ held \in [Keys -> Commands \cup {None}]
        /\ grants \in [Users -> SUBSET Exes]
        /\ asked \in Question \cup {None}
        /\ picks \in [Users -> Seq(Choice)]
    BY <2>1 DEF Init
  <2>3. /\ stage \in [Users -> {"", "1", "done"}]
        /\ named \in [Users -> BOOLEAN]
    BY DEF Init
  <2> QED BY <2>2, <2>3 DEF StoreOK
<1>2. TurnOK
  <2>1. \A c \in Chats : Foreign(c) \in Task
    BY DEF Foreign, Task
  <2>2. /\ pc = [c \in Chats |-> "idle"] /\ turns = [c \in Chats |-> 0]
        /\ reply = [c \in Chats |-> NoReply] /\ task = [c \in Chats |-> Foreign(c)]
        /\ taken = [c \in Chats |-> None] /\ readGrants = [c \in Chats |-> {}]
        /\ readAsked = [c \in Chats |-> None]
    BY Zenon DEF Init
  <2> QED BY <2>1, <2>2, Replied, PreflightConstants DEF TurnOK, Phases
<1>3. UserOK
  <2>1. << >> \in Seq(Commands) /\ << >> \in Seq(Folding)
    OBVIOUS
  <2>2. /\ faults = 0 /\ told = [c \in Chats |-> "nothing"] /\ ran = [c \in Chats |-> << >>]
        /\ given = {} /\ folded = << >> /\ strayed = {}
        /\ passedBy = [c \in Chats |-> 0] /\ offered = [c \in Chats |-> None]
        /\ slip = [c \in Chats |-> ""]
    BY Zenon DEF Init
  <2>3. faults \in 0 .. MaxFaults
    <3>1. faults = 0
      BY <2>2
    <3> QED BY <3>1, FaultBound
  <2> QED BY <2>1, <2>2, <2>3 DEF UserOK, Texts
<1> QED BY <1>1, <1>2, <1>3 DEF Typed

LEMMA EndTurnTyped ==
  ASSUME TurnOK, UserOK, NEW c \in Chats, NEW text \in Texts, EndTurn(c, text), turns' = turns
  PROVE  TurnOK' /\ told' \in [Chats -> Texts]
<1>1. pc' = [pc EXCEPT ![c] = "idle"] /\ pc' \in [Chats -> Phases]
  BY DEF EndTurn, Goto, TurnOK, Phases
<1>2. reply' \in [Chats -> Reply] /\ task' \in [Chats -> Task] /\ turns' = turns
  BY Replied, Tasks DEF EndTurn, TurnOK
<1>3. taken' \in [Chats -> Commands \cup {None}] /\ readGrants' \in [Chats -> SUBSET Exes]
  BY DEF EndTurn, TurnOK
<1>4. /\ readAsked' \in [Chats -> Question \cup {None}]
      /\ \A d \in Chats : pc'[d] = "match" => readAsked'[d] \in Question
  BY <1>1 DEF EndTurn, TurnOK
<1>5. told' \in [Chats -> Texts]
  BY DEF EndTurn, UserOK
<1> QED BY <1>1, <1>2, <1>3, <1>4, <1>5 DEF TurnOK

LEMMA PassTyped ==
  ASSUME TurnOK, UserOK, NEW c \in Chats, NEW phase \in Phases \ {"match"}, Pass(c, phase),
         faults' \in 0 .. MaxFaults
  PROVE  TurnOK' /\ UserOK'
BY DEF Pass, Goto, TurnOK, UserOK, localVars, userVars, historyVars

LEMMA StartTaskTyped ==
  ASSUME TurnOK, NEW c \in Chats, NEW t \in Task, StartTask(c, t)
  PROVE  TurnOK'
<1>1. /\ pc' = [pc EXCEPT ![c] = "agent"] /\ readAsked' = [readAsked EXCEPT ![c] = None]
      /\ task' = [task EXCEPT ![c] = t] /\ UNCHANGED <<turns, reply, taken, readGrants>>
  BY DEF StartTask, Goto
<1> QED BY <1>1 DEF TurnOK, Phases

LEMMA FaultsTyped ==
  ASSUME UserOK
  PROVE  /\ ReadFails => faults' \in 0 .. MaxFaults
         /\ WriteFails => faults' \in 0 .. MaxFaults
<1>1. faults \in 0 .. MaxFaults
  BY DEF UserOK
<1> QED BY <1>1, FaultBound DEF ReadFails, WriteFails

\* A turn that ends and changes nothing of the storage.
LEMMA EndTurnKeepsTyped ==
  ASSUME Typed, NEW c \in Chats, NEW text \in Texts, EndTurn(c, text),
         UNCHANGED <<turns, given, folded, strayed>>,
         ran' \in [Chats -> Seq(Commands)], faults' \in 0 .. MaxFaults,
         passedBy' \in [Chats -> Nat], offered' \in [Chats -> Commands \cup {None}],
         slip' \in [Chats -> {"", "missed", "unseen"}],
         StoreOK'
  PROVE  Typed'
<1>1. TurnOK' /\ told' \in [Chats -> Texts]
  BY EndTurnTyped DEF Typed
<1>2. UserOK'
  BY <1>1 DEF Typed, UserOK
<1> QED BY <1>1, <1>2 DEF Typed

\* A turn that ends and leaves the history variables alone.
LEMMA EndTurnQuiet ==
  ASSUME Typed, NEW c \in Chats, NEW text \in Texts, EndTurn(c, text),
         UNCHANGED <<turns, historyVars>>, faults' \in 0 .. MaxFaults, StoreOK'
  PROVE  Typed'
<1>1. UNCHANGED <<turns, given, folded, strayed, ran, passedBy, offered, slip>>
  BY DEF historyVars
<1> QED BY <1>1, EndTurnKeepsTyped DEF Typed, UserOK

LEMMA OfferTyped ==
  ASSUME Typed, NEW c \in Chats, NEW cmd \in Commands, Offer(c, cmd),
         faults' \in 0 .. MaxFaults, StoreOK'
  PROVE  Typed'
<1>1. /\ EndTurn(c, "approval") /\ UNCHANGED <<turns, ran, given, folded, passedBy, strayed>>
      /\ offered' = [offered EXCEPT ![c] = cmd] /\ slip' = [slip EXCEPT ![c] = ""]
  BY DEF Offer
<1>2. /\ offered' \in [Chats -> Commands \cup {None}]
      /\ slip' \in [Chats -> {"", "missed", "unseen"}]
  BY <1>1 DEF Typed, UserOK
<1> QED BY <1>1, <1>2, EndTurnKeepsTyped DEF Typed, UserOK, Texts

LEMMA SameStore == StoreOK /\ UNCHANGED kvVars => StoreOK'
BY DEF StoreOK, kvVars

LEMMA SayTyped ==
  ASSUME Typed, NEW c \in Chats, NEW r \in Replies, Say(c, r)
  PROVE  Typed'
<1>1. /\ turns[c] < MaxTurns[c] /\ turns' = [turns EXCEPT ![c] = @ + 1]
      /\ UNCHANGED <<kvVars, localVars, faults, historyVars>>
  BY DEF Say
<1>2. turns' \in [Chats -> Nat] /\ \A d \in Chats : turns'[d] <= MaxTurns[d]
  <2>1. turns \in [Chats -> Nat] /\ \A d \in Chats : turns[d] <= MaxTurns[d]
    BY DEF Typed, TurnOK
  <2>2. turns[c] + 1 \in Nat /\ turns[c] + 1 <= MaxTurns[c]
    BY <1>1, <2>1, TurnBound
  <2>3. turns' = [turns EXCEPT ![c] = turns[c] + 1]
    BY <1>1
  <2> QED BY <2>1, <2>2, <2>3
<1>3. \/ told' = [told EXCEPT ![c] = "skills"] /\ UNCHANGED <<pc, reply>>
      \/ /\ \E phase \in {"approval", "memory"} : pc' = [pc EXCEPT ![c] = phase]
         /\ reply' = [reply EXCEPT ![c] = r] /\ UNCHANGED told
  BY DEF Say, Goto
<1>4. r \in Reply
  BY PreflightConstants
<1>5. TurnOK'
  <2>1. pc' \in [Chats -> Phases] /\ \A d \in Chats : pc'[d] = "match" => pc[d] = "match"
    BY <1>3 DEF Typed, TurnOK, Phases
  <2>2. reply' \in [Chats -> Reply]
    BY <1>3, <1>4 DEF Typed, TurnOK
  <2> QED BY <1>1, <1>2, <2>1, <2>2 DEF Typed, TurnOK, localVars
<1>6. UserOK'
  BY <1>1, <1>3 DEF Typed, UserOK, Texts, historyVars
<1> QED BY <1>1, <1>5, <1>6, SameStore DEF Typed

LEMMA ApprovalTyped ==
  ASSUME Typed, IInv, NEW c \in Chats, Approval(c)
  PROVE  Typed'
<1>1. CASE NothingHeld(c)
  <2>1. faults' \in 0 .. MaxFaults
    BY <1>1, FaultsTyped DEF NothingHeld, Typed, UserOK
  <2>2. /\ pc' = [pc EXCEPT ![c] = "memory"]
        /\ slip' \in {slip, [slip EXCEPT ![c] = "missed"]}
        /\ UNCHANGED <<kvVars, turns, reply, localVars, told, ran, given, folded, passedBy,
                       strayed, offered>>
    BY <1>1 DEF NothingHeld, Goto, Typed, UserOK
  <2>3. TurnOK'
    BY <2>2 DEF Typed, TurnOK, Phases, localVars
  <2>4. UserOK'
    BY <2>1, <2>2 DEF Typed, UserOK
  <2> QED BY <2>2, <2>3, <2>4, SameStore DEF Typed
<1>2. CASE Remind(c)
  <2>1. Offer(c, taken[c]) /\ UNCHANGED <<kvVars, faults>> /\ pc[c] = "verdict"
    BY <1>2 DEF Remind
  <2>2. taken[c] \in Commands
    BY <2>1 DEF IInv, TakenWhileDecided, Decided
  <2> QED BY <2>1, <2>2, OfferTyped, SameStore DEF Typed, UserOK
<1>3. CASE Deny(c)
  <2>1. /\ EndTurn(c, "denied") /\ UNCHANGED <<turns, faults, historyVars>>
        /\ held' = [held EXCEPT ![KeyOf[c]] = None]
        /\ UNCHANGED <<grants, stage, named, asked, picks>>
    BY <1>3 DEF Deny, Clear
  <2>2. StoreOK'
    BY <2>1 DEF Typed, StoreOK
  <2> QED BY <2>1, <2>2, EndTurnQuiet DEF Typed, UserOK, Texts
<1>4. CASE Accept(c)
  <2>1. /\ held' = [held EXCEPT ![KeyOf[c]] = None] /\ pc[c] = "verdict"
        /\ UNCHANGED <<grants, stage, named, asked, picks, turns, reply, localVars, faults,
                       told, ran, folded, passedBy, strayed, offered, slip>>
    BY <1>4 DEF Accept, Consent, Clear
  <2>2. /\ \E phase \in {"grant", "run"} : pc' = [pc EXCEPT ![c] = phase]
        /\ given' \in {given, given \cup {<<UserOf[c], taken[c][1]>>}}
    BY <1>4 DEF Accept, Consent, Goto
  <2>3. taken[c][1] \in Exes /\ UserOf[c] \in Users
    <3>1. taken[c] \in Commands
      BY <2>1 DEF IInv, TakenWhileDecided, Decided
    <3>2. taken[c] \in Exes \X Nat
      BY <3>1, PreflightConstants
    <3> QED BY <3>2, PreflightConstants
  <2>4. StoreOK'
    BY <2>1 DEF Typed, StoreOK
  <2>5. TurnOK'
    <3>1. pc' \in [Chats -> Phases] /\ \A d \in Chats : pc'[d] = "match" => pc[d] = "match"
      BY <2>2 DEF Typed, TurnOK, Phases
    <3> QED BY <2>1, <3>1 DEF Typed, TurnOK, localVars
  <2>6. given' \subseteq Users \X Exes
    <3>1. <<UserOf[c], taken[c][1]>> \in Users \X Exes
      BY <2>3
    <3>2. given \subseteq Users \X Exes
      BY DEF Typed, UserOK
    <3> QED BY <2>2, <3>1, <3>2
  <2>7. UserOK'
    BY <2>1, <2>6 DEF Typed, UserOK
  <2> QED BY <2>4, <2>5, <2>7 DEF Typed
<1>5. CASE ReadGrants(c)
  <2>1. /\ readGrants' \in {readGrants, [readGrants EXCEPT ![c] = grants[UserOf[c]]]}
        /\ pc' = [pc EXCEPT ![c] = "save"]
        /\ UNCHANGED <<kvVars, turns, reply, task, taken, readAsked, userVars>>
    BY <1>5 DEF ReadGrants, Goto
  <2>2. faults' \in 0 .. MaxFaults
    BY <1>5, FaultsTyped DEF ReadGrants, Typed, UserOK
  <2>3. readGrants' \in [Chats -> SUBSET Exes]
    BY <2>1, PreflightConstants DEF Typed, StoreOK, TurnOK
  <2>4. TurnOK'
    BY <2>1, <2>3 DEF Typed, TurnOK, Phases
  <2>5. UserOK'
    BY <2>1, <2>2 DEF Typed, UserOK, userVars, historyVars
  <2> QED BY <2>1, <2>4, <2>5, SameStore DEF Typed
<1>6. CASE SaveGrants(c)
  <2>1. /\ grants' = [grants EXCEPT ![UserOf[c]] = readGrants[c] \cup {taken[c][1]}]
        /\ pc[c] = "save" /\ Pass(c, "run") /\ UNCHANGED <<held, stage, named, asked, picks, faults>>
    BY <1>6 DEF SaveGrants
  <2>2. taken[c][1] \in Exes
    <3>1. taken[c] \in Commands
      BY <2>1 DEF IInv, TakenWhileDecided, Decided, Accepted
    <3>2. taken[c] \in Exes \X Nat
      BY <3>1, PreflightConstants
    <3> QED BY <3>2
  <2>3. grants' \in [Users -> SUBSET Exes]
    BY <2>1, <2>2 DEF Typed, StoreOK, TurnOK
  <2>4. StoreOK'
    BY <2>1, <2>3 DEF Typed, StoreOK
  <2>5. TurnOK' /\ UserOK'
    BY <2>1, PassTyped DEF Typed, UserOK, Phases
  <2> QED BY <2>4, <2>5 DEF Typed
<1>7. CASE RunTaken(c)
  <2>1. /\ ran' = [ran EXCEPT ![c] = Append(@, taken[c])] /\ pc[c] = "run"
        /\ EndTurn(c, "ran")
        /\ UNCHANGED <<kvVars, turns, faults, given, folded, passedBy, strayed, offered, slip>>
    BY <1>7 DEF RunTaken
  <2>2. taken[c] \in Commands
    BY <2>1 DEF IInv, TakenWhileDecided, Decided, Accepted
  <2>3. ran[c] \in Seq(Commands) /\ ran \in [Chats -> Seq(Commands)]
    BY DEF Typed, UserOK
  <2>4. Append(ran[c], taken[c]) \in Seq(Commands)
    BY <2>2, <2>3
  <2>5. ran' \in [Chats -> Seq(Commands)]
    BY <2>1, <2>3, <2>4
  <2> QED BY <2>1, <2>5, EndTurnKeepsTyped, SameStore DEF Typed, UserOK, Texts
<1>8. CASE ReadHeld(c)
  <2>1. /\ taken' = [taken EXCEPT ![c] = held[KeyOf[c]]] /\ pc' = [pc EXCEPT ![c] = "verdict"]
        /\ UNCHANGED <<kvVars, turns, reply, task, readGrants, readAsked, faults, userVars>>
    BY <1>8 DEF ReadHeld, Waiting, Goto
  <2>2. taken' \in [Chats -> Commands \cup {None}]
    BY <2>1, PreflightConstants DEF Typed, StoreOK, TurnOK
  <2>3. TurnOK'
    BY <2>1, <2>2 DEF Typed, TurnOK, Phases
  <2>4. UserOK'
    BY <2>1 DEF Typed, UserOK, userVars, historyVars
  <2> QED BY <2>1, <2>3, <2>4, SameStore DEF Typed
<1> QED BY <1>1, <1>2, <1>3, <1>4, <1>5, <1>6, <1>7, <1>8 DEF Approval

LEMMA OnboardingTyped ==
  ASSUME Typed, NEW c \in Chats, MemoryCommand(c) \/ NoMemoryCommand(c) \/ Onboarding(c)
  PROVE  Typed'
<1> DEFINE Rest == UNCHANGED <<turns, historyVars>>
<1>1. CASE MemoryCommand(c)
  <2>1. EndTurn(c, "memory") /\ UNCHANGED <<kvVars, turns, faults, historyVars>>
    BY <1>1 DEF MemoryCommand
  <2> QED BY <2>1, EndTurnQuiet, SameStore DEF Typed, UserOK, Texts
<1>2. CASE NoMemoryCommand(c)
  BY <1>2, PassTyped, SameStore DEF NoMemoryCommand, Typed, UserOK, Phases
<1>3. CASE ResetPersona(c)
  <2>1. /\ named' \in {named, [named EXCEPT ![UserOf[c]] = FALSE]}
        /\ stage' = [stage EXCEPT ![UserOf[c]] = "1"]
        /\ EndTurn(c, "askname") /\ Rest /\ UNCHANGED <<held, grants, asked, picks>>
    BY <1>3 DEF ResetPersona
  <2>2. faults' \in 0 .. MaxFaults
    BY <1>3, FaultsTyped DEF ResetPersona, Typed, UserOK
  <2>3. StoreOK'
    BY <2>1 DEF Typed, StoreOK
  <2> QED BY <2>1, <2>2, <2>3, EndTurnQuiet DEF Typed, UserOK, Texts
<1>4. ASSUME NEW st, NEW doc, Looks(c, st, doc)
      PROVE  faults' \in 0 .. MaxFaults
  BY <1>4, FaultsTyped DEF Looks, Typed, UserOK
<1>5. ASSUME NEW st, NEW doc, Greet(c, st, doc)
      PROVE  Typed'
  <2>1. /\ stage' = [stage EXCEPT ![UserOf[c]] = "1"] /\ Looks(c, st, doc)
        /\ EndTurn(c, "askname") /\ Rest /\ UNCHANGED <<held, grants, named, asked, picks>>
    BY <1>5 DEF Greet
  <2>2. StoreOK'
    BY <2>1 DEF Typed, StoreOK
  <2> QED BY <1>4, <2>1, <2>2, EndTurnQuiet DEF Typed, UserOK, Texts
<1>6. ASSUME NEW st, NEW doc, AskNameAgain(c, st, doc)
      PROVE  Typed'
  <2>1. Looks(c, st, doc) /\ EndTurn(c, "askname") /\ Rest /\ UNCHANGED kvVars
    BY <1>6 DEF AskNameAgain
  <2> QED BY <1>4, <2>1, EndTurnQuiet, SameStore DEF Typed, UserOK, Texts
<1>7. ASSUME NEW st, NEW doc, TakeName(c, st, doc)
      PROVE  Typed'
  <2>1. /\ named' = [named EXCEPT ![UserOf[c]] = TRUE] /\ Looks(c, st, doc)
        /\ stage' = [stage EXCEPT ![UserOf[c]] = "done"]
        /\ EndTurn(c, "welcome") /\ Rest /\ UNCHANGED <<held, grants, asked, picks>>
    BY <1>7 DEF TakeName
  <2>2. StoreOK'
    BY <2>1 DEF Typed, StoreOK
  <2> QED BY <1>4, <2>1, <2>2, EndTurnQuiet DEF Typed, UserOK, Texts
<1>8. ASSUME NEW st, NEW doc, PassOnboarding(c, st, doc)
      PROVE  Typed'
  <2>1. Looks(c, st, doc) /\ Pass(c, "clarify") /\ UNCHANGED kvVars
    BY <1>8, Zenon DEF PassOnboarding
  <2> QED BY <1>4, <2>1, PassTyped, SameStore DEF Typed, Phases
<1> QED BY <1>1, <1>2, <1>3, <1>5, <1>6, <1>7, <1>8 DEF Onboarding

\* What remembering a choice leaves: the choice, last, and some of those before it.
LEMMA Remembered ==
  ASSUME NEW choices \in Seq(Choice), NEW choice \in Choice
  PROVE  /\ Remember(choices, choice) \in Seq(Choice)
         /\ \E lost \in Nat : \A i \in DOMAIN Remember(choices, choice) :
               \/ /\ i + lost \in DOMAIN choices
                  /\ Remember(choices, choice)[i] = choices[i + lost]
               \/ /\ i + lost = Len(choices) + 1
                  /\ Remember(choices, choice)[i] = choice
<1> DEFINE all == Append(choices, choice)
           lost == Len(all) - HistoryLimit
<1>1. all \in Seq(Choice) /\ Len(all) = Len(choices) + 1 /\ Len(choices) \in Nat
  OBVIOUS
<1>2. \A i \in DOMAIN all :
        \/ i \in DOMAIN choices /\ all[i] = choices[i]
        \/ i = Len(choices) + 1 /\ all[i] = choice
  OBVIOUS
<1>3. CASE Len(all) > HistoryLimit
  <2>1. Remember(choices, choice) = SubSeq(all, lost + 1, Len(all))
    BY <1>3 DEF Remember
  <2>2. lost \in Nat /\ lost + 1 \in 1 .. Len(all)
    BY <1>1, <1>3, PreflightConstants
  <2> HIDE DEF all
  <2>3. /\ SubSeq(all, lost + 1, Len(all)) \in Seq(Choice)
        /\ \A i \in DOMAIN SubSeq(all, lost + 1, Len(all)) :
             i + lost \in DOMAIN all /\ SubSeq(all, lost + 1, Len(all))[i] = all[i + lost]
    BY <1>1, <2>2
  <2> HIDE DEF lost
  <2>4. \A i \in DOMAIN Remember(choices, choice) :
           \/ /\ i + lost \in DOMAIN choices
              /\ Remember(choices, choice)[i] = choices[i + lost]
           \/ /\ i + lost = Len(choices) + 1
              /\ Remember(choices, choice)[i] = choice
    BY <1>2, <2>1, <2>3
  <2> QED BY <2>1, <2>2, <2>3, <2>4
<1>4. CASE ~ (Len(all) > HistoryLimit)
  <2>1. Remember(choices, choice) = all
    BY <1>4 DEF Remember
  <2> HIDE DEF all
  <2>2. \A i \in DOMAIN Remember(choices, choice) :
           \/ /\ i + 0 \in DOMAIN choices
              /\ Remember(choices, choice)[i] = choices[i + 0]
           \/ /\ i + 0 = Len(choices) + 1
              /\ Remember(choices, choice)[i] = choice
    BY <1>1, <1>2, <2>1
  <2> QED BY <1>1, <2>1, <2>2
<1> QED BY <1>3, <1>4

\* A reply that hits picks an option of the question it was matched with.
LEMMA Picked ==
  ASSUME Typed, NEW c \in Chats, pc[c] = "match", Hits(c)
  PROVE  /\ readAsked[c] \in Question /\ readAsked[c].original \in Task
         /\ Chosen(c) \in Choice /\ reply[c].pick \in 1 .. 4
         /\ [q |-> readAsked[c], chat |-> c, pick |-> reply[c].pick] \in Folding
<1>1. readAsked[c] \in Question
  BY DEF Typed, TurnOK
<1>2. /\ readAsked[c].original \in Task /\ readAsked[c].topic \in Topics
      /\ readAsked[c].opts \in 2 .. 4
  BY <1>1 DEF Question
<1>3. reply[c].pick \in 1 .. 4
  BY <1>2 DEF Hits
<1> QED BY <1>1, <1>2, <1>3 DEF Chosen, Choice, Folding

LEMMA PassesByTyped ==
  ASSUME UserOK, NEW c \in Chats, NEW q, PassesBy(c, q)
  PROVE  passedBy' \in [Chats -> Nat]
<1> DEFINE n == IF q # None /\ q.by.chat = c THEN passedBy[c] + 1 ELSE 0
<1>1. passedBy \in [Chats -> Nat]
  BY DEF UserOK
<1>2. n \in Nat
  BY <1>1
<1>3. passedBy' = [passedBy EXCEPT ![c] = n]
  BY DEF PassesBy
<1> HIDE DEF n
<1> QED BY <1>1, <1>2, <1>3

LEMMA ClarificationTyped ==
  ASSUME Typed, NEW c \in Chats, Clarification(c)
  PROVE  Typed'
<1>1. CASE NothingAsked(c)
  <2>1. StartTask(c, ThisTask(c)) /\ UNCHANGED <<kvVars, folded, strayed>> /\ PassesBy(c, asked)
    BY <1>1, Zenon DEF NothingAsked
  <2>2. faults' \in 0 .. MaxFaults
    BY <1>1, FaultsTyped DEF NothingAsked, Typed, UserOK
  <2>3. TurnOK'
    BY <2>1, Tasks, StartTaskTyped DEF Typed
  <2>4. UserOK'
    BY <2>1, <2>2, PassesByTyped DEF Typed, UserOK, StartTask
  <2> QED BY <2>1, <2>3, <2>4, SameStore DEF Typed
<1>2. CASE ReadAsked(c)
  <2>1. /\ asked # None /\ readAsked' = [readAsked EXCEPT ![c] = asked]
        /\ pc' = [pc EXCEPT ![c] = "match"]
        /\ strayed' \in {strayed, strayed \cup {asked.by}}
        /\ UNCHANGED <<kvVars, turns, reply, task, taken, readGrants, faults, told, ran, given,
                       folded, passedBy, offered, slip>>
    BY <1>2 DEF ReadAsked, Goto
  <2>2. asked \in Question /\ asked.by \in Task
    BY <2>1 DEF Typed, StoreOK, Question
  <2>3. TurnOK'
    BY <2>1, <2>2 DEF Typed, TurnOK, Phases
  <2>4. UserOK'
    BY <2>1, <2>2 DEF Typed, UserOK
  <2> QED BY <2>1, <2>3, <2>4, SameStore DEF Typed
<1>3. CASE Expire(c)
  <2>1. /\ StartTask(c, ThisTask(c)) /\ asked' = None /\ PassesBy(c, None)
        /\ UNCHANGED <<held, grants, stage, named, picks, faults, folded, strayed>>
    BY <1>3 DEF Expire
  <2>2. StoreOK'
    BY <2>1 DEF Typed, StoreOK
  <2>3. TurnOK'
    BY <2>1, Tasks, StartTaskTyped DEF Typed
  <2>4. UserOK'
    BY <2>1, PassesByTyped DEF Typed, UserOK, StartTask
  <2> QED BY <2>2, <2>3, <2>4 DEF Typed
<1>4. CASE Fold(c)
  <2> DEFINE entry == [q |-> readAsked[c], chat |-> c, pick |-> reply[c].pick]
  <2>1. /\ StartTask(c, readAsked[c].original) /\ asked' = None /\ PassesBy(c, None)
        /\ folded' = Append(folded, entry)
        /\ UNCHANGED <<held, grants, stage, named, strayed>>
        /\ pc[c] = "match" /\ Hits(c)
    BY <1>4 DEF Fold
  <2>2. /\ readAsked[c].original \in Task /\ Chosen(c) \in Choice /\ entry \in Folding
    BY <2>1, Picked
  <2>3. picks \in [Users -> Seq(Choice)] /\ UserOf[c] \in Users
    BY PreflightConstants DEF Typed, StoreOK
  <2>4. picks' \in {picks, [picks EXCEPT ![UserOf[c]] = Remember(@, Chosen(c))],
                    [picks EXCEPT ![UserOf[c]] = <<Chosen(c)>>]}
    BY <1>4 DEF Fold
  <2>5. Remember(picks[UserOf[c]], Chosen(c)) \in Seq(Choice) /\ <<Chosen(c)>> \in Seq(Choice)
    BY <2>2, <2>3, Remembered
  <2>6. picks' \in [Users -> Seq(Choice)]
    BY <2>3, <2>4, <2>5
  <2>7. StoreOK'
    BY <2>1, <2>6 DEF Typed, StoreOK
  <2>8. TurnOK'
    BY <2>1, <2>2, StartTaskTyped DEF Typed
  <2>9. folded' \in Seq(Folding)
    <3>1. folded \in Seq(Folding)
      BY DEF Typed, UserOK
    <3> HIDE DEF entry
    <3> QED BY <2>1, <2>2, <3>1
  <2>10. faults' \in 0 .. MaxFaults
    BY <1>4, FaultsTyped DEF Fold, Typed, UserOK
  <2>11. UserOK'
    BY <2>1, <2>9, <2>10, PassesByTyped DEF Typed, UserOK, StartTask
  <2> QED BY <2>7, <2>8, <2>11 DEF Typed
<1>5. CASE Miss(c)
  <2>1. /\ StartTask(c, ThisTask(c)) /\ PassesBy(c, asked') /\ pc[c] = "match"
        /\ UNCHANGED <<held, grants, stage, named, picks, faults, folded, strayed>>
    BY <1>5, Zenon DEF Miss
  <2>2. asked' = IF readAsked[c].misses + 1 >= 2 THEN None
                 ELSE [readAsked[c] EXCEPT !.misses = @ + 1]
    BY <1>5 DEF Miss
  <2>3. asked' \in Question \cup {None}
    <3>1. readAsked[c] \in Question
      BY <2>1 DEF Typed, TurnOK
    <3> QED BY <2>2, <3>1 DEF Question
  <2>4. StoreOK'
    BY <2>1, <2>3 DEF Typed, StoreOK
  <2>5. TurnOK'
    BY <2>1, Tasks, StartTaskTyped DEF Typed
  <2>6. UserOK'
    BY <2>1, PassesByTyped DEF Typed, UserOK, StartTask
  <2> QED BY <2>4, <2>5, <2>6 DEF Typed
<1> QED BY <1>1, <1>2, <1>3, <1>4, <1>5 DEF Clarification

LEMMA PutQuestionTyped ==
  ASSUME Typed, NEW c \in Chats, NEW n \in Counts, NEW topic \in Topics, PutQuestion(c, n, topic)
  PROVE  asked' \in Question /\ passedBy' \in [Chats -> Nat]
<1>1. PICK original \in Originals(c) :
        asked' = [by |-> ThisTask(c), original |-> original, topic |-> topic,
                  opts |-> n, misses |-> 0]
  BY DEF PutQuestion
<1>2. original \in Task /\ ThisTask(c) \in Task
  BY Tasks DEF Originals, Typed, TurnOK
<1>3. n \in 2 .. 4
  BY PreflightConstants
<1>4. passedBy' \in [Chats -> Nat]
  BY DEF PutQuestion, Typed, UserOK
<1> QED BY <1>1, <1>2, <1>3, <1>4 DEF Question

LEMMA AgentTyped ==
  ASSUME Typed, NEW c \in Chats, Agent(c)
  PROVE  Typed'
<1>1. CASE Answer(c)
  <2>1. EndTurn(c, "answer") /\ UNCHANGED <<kvVars, turns, faults, historyVars>>
    BY <1>1 DEF Answer
  <2> QED BY <2>1, EndTurnQuiet, SameStore DEF Typed, UserOK, Texts
<1>2. ASSUME NEW cmd \in Commands, HoldCommand(c, cmd)
      PROVE  Typed'
  <2>1. /\ held' = [held EXCEPT ![KeyOf[c]] = cmd] /\ Offer(c, cmd)
        /\ UNCHANGED <<grants, stage, named, asked, picks>>
    BY <1>2, Zenon DEF HoldCommand
  <2>2. faults' \in 0 .. MaxFaults
    BY <1>2, FaultsTyped DEF HoldCommand, Typed, UserOK
  <2>3. StoreOK'
    BY <2>1 DEF Typed, StoreOK
  <2> QED BY <2>1, <2>2, <2>3, OfferTyped
<1>3. ASSUME NEW n \in Counts, NEW topic \in Topics, Ask(c, n, topic)
      PROVE  Typed'
  <2>1. /\ PutQuestion(c, n, topic) /\ EndTurn(c, "question")
        /\ UNCHANGED <<held, grants, stage, named, picks, turns, ran, given, folded, strayed,
                       offered, slip>>
    BY <1>3, Zenon DEF Ask
  <2>2. faults' \in 0 .. MaxFaults
    BY <1>3, FaultsTyped, Zenon DEF Ask, Typed, UserOK
  <2>3. asked' \in Question /\ passedBy' \in [Chats -> Nat]
    BY <2>1, PutQuestionTyped
  <2>4. StoreOK'
    BY <2>1, <2>3 DEF Typed, StoreOK
  <2> QED BY <2>1, <2>2, <2>3, <2>4, EndTurnKeepsTyped DEF Typed, UserOK, Texts
<1>4. ASSUME NEW n \in Counts, NEW topic \in Topics, NEW pick \in 1 .. 4,
             AskAndAnswer(c, n, topic, pick)
      PROVE  Typed'
  <2>1. /\ PutQuestion(c, n, topic)
        /\ UNCHANGED <<held, grants, stage, named, picks, pc, turns, reply, localVars,
                       faults, told, ran, given, folded, strayed, offered, slip>>
    BY <1>4, Zenon DEF AskAndAnswer
  <2>2. asked' \in Question /\ passedBy' \in [Chats -> Nat]
    BY <2>1, PutQuestionTyped
  <2> QED BY <2>1, <2>2 DEF Typed, StoreOK, TurnOK, UserOK, localVars
<1> QED BY <1>1, <1>2, <1>3, <1>4 DEF Agent

LEMMA CrashTyped ==
  ASSUME Typed, NEW c \in Chats,
         Crash(c) \/ CrashAmidOnboarding(c) \/ CrashAfterClearing(c) \/ CrashBeforeShowing(c)
  PROVE  Typed'
<1>1. Fails(c)
  BY DEF Crash, CrashAmidOnboarding, CrashAfterClearing, CrashBeforeShowing
<1>2. /\ EndTurn(c, "error") /\ UNCHANGED <<turns, ran, given, folded, strayed, offered>>
      /\ faults' \in 0 .. MaxFaults
  <2>1. faults \in 0 .. MaxFaults
    BY DEF Typed, UserOK
  <2>2. faults < MaxFaults /\ faults' = faults + 1
    BY <1>1 DEF Fails
  <2>3. faults' \in 0 .. MaxFaults
    BY <2>1, <2>2, FaultBound
  <2> QED BY <1>1, <2>3 DEF Fails
<1>3. /\ StoreOK' /\ passedBy' \in [Chats -> Nat]
      /\ slip' \in [Chats -> {"", "missed", "unseen"}]
  <2>1. CASE Crash(c)
    BY <2>1, SameStore DEF Crash, Typed, UserOK
  <2>2. CASE CrashAmidOnboarding(c)
    <3>1. named' \in {[named EXCEPT ![UserOf[c]] = FALSE], [named EXCEPT ![UserOf[c]] = TRUE]}
      BY <2>2 DEF CrashAmidOnboarding
    <3>2. UNCHANGED <<held, grants, stage, asked, picks, passedBy, slip>>
      BY <2>2 DEF CrashAmidOnboarding
    <3> QED BY <3>1, <3>2 DEF Typed, StoreOK, UserOK
  <2>3. CASE CrashAfterClearing(c)
    <3>1. /\ held' \in {held, [held EXCEPT ![KeyOf[c]] = None]} /\ asked' \in {asked, None}
          /\ passedBy' = passedBy \/ PassesBy(c, None)
          /\ UNCHANGED <<grants, stage, named, picks, slip>>
      BY <2>3 DEF CrashAfterClearing, Clear
    <3>2. held' \in [Keys -> Commands \cup {None}]
      BY <3>1 DEF Typed, StoreOK
    <3>3. asked' \in Question \cup {None} /\ passedBy' \in [Chats -> Nat]
      <4>1. asked \in Question \cup {None} /\ passedBy \in [Chats -> Nat]
        BY DEF Typed, StoreOK, UserOK
      <4> QED BY <3>1, <4>1, PassesByTyped DEF Typed
    <3> QED BY <3>1, <3>2, <3>3 DEF Typed, StoreOK, UserOK
  <2>4. CASE CrashBeforeShowing(c)
    <3>1. /\ \/ UNCHANGED <<asked, passedBy>>
             \/ \E n \in Counts, topic \in Topics : PutQuestion(c, n, topic)
          /\ held' = held \/ \E cmd \in Commands : held' = [held EXCEPT ![KeyOf[c]] = cmd]
          /\ slip' \in {slip, [slip EXCEPT ![c] = "unseen"]}
          /\ UNCHANGED <<grants, stage, named, picks>>
      <4>1. slip' \in {slip, [slip EXCEPT ![c] = "unseen"]}
        BY <2>4 DEF CrashBeforeShowing
      <4> QED BY <2>4, <4>1, Zenon DEF CrashBeforeShowing
    <3>2. asked' \in Question \cup {None} /\ passedBy' \in [Chats -> Nat]
      <4>1. CASE UNCHANGED <<asked, passedBy>>
        BY <4>1 DEF Typed, StoreOK, UserOK
      <4>2. CASE \E n \in Counts, topic \in Topics : PutQuestion(c, n, topic)
        BY <4>2, PutQuestionTyped
      <4> QED BY <3>1, <4>1, <4>2
    <3>3. held' \in [Keys -> Commands \cup {None}]
      <4>1. held \in [Keys -> Commands \cup {None}]
        BY DEF Typed, StoreOK
      <4> QED BY <3>1, <4>1
    <3> QED BY <3>1, <3>2, <3>3 DEF Typed, StoreOK, UserOK
  <2> QED BY <2>1, <2>2, <2>3, <2>4
<1> QED BY <1>2, <1>3, EndTurnKeepsTyped DEF Typed, UserOK, Texts

LEMMA NextTyped == IInv /\ Typed /\ [Next]_vars => Typed'
<1> SUFFICES ASSUME IInv, Typed, [Next]_vars PROVE Typed'
  OBVIOUS
<1>1. CASE UNCHANGED vars
  BY <1>1 DEF vars, kvVars, localVars, userVars, historyVars, Typed, StoreOK, TurnOK, UserOK
<1>2. CASE Next
  BY <1>2, SayTyped, ApprovalTyped, OnboardingTyped, ClarificationTyped, AgentTyped, CrashTyped,
     Zenon DEF Next
<1> QED BY <1>1, <1>2

\* The KV storage, the local variables of every turn and what the users see keep
\* their types, for any chats, users, commands, questions and limits.
THEOREM PreflightTypeOK == Spec => []TypeOK
BY InitIInv, NextKeepsIInv, InitTyped, NextTyped, TypedParts, PTL DEF Spec

-----------------------------------------------------------------------------
(* A held command is what the user has been shown.                         *)

\* A chat alone on its key, for which a command waits, has been shown it last, and
\* its message has not got past approval; or a read has missed it, or the turn that
\* held it has died.
AsShown(c) ==
    Alone(c) /\ held[KeyOf[c]] # None /\ slip[c] # "unseen" =>
        /\ held[KeyOf[c]] = offered[c]
        /\ \/ slip[c] = "missed"
           \/ /\ pc[c] \in {"idle", "approval", "verdict"}
              /\ told[c] \in {"approval", "skills", "error"}

\* Without approval nothing is ever held.
HeldAsShown ==
    /\ ~ ApprovalOn => \A key \in Keys : held[key] = None
    /\ \A c \in Chats : AsShown(c)

\* The step is one of chat c, and touches what is said to it and waits for it only.
Apart(c) ==
    /\ \A d \in Chats \ {c} : /\ pc'[d] = pc[d] /\ told'[d] = told[d]
                              /\ offered'[d] = offered[d] /\ slip'[d] = slip[d]
    /\ \A key \in Keys \ {KeyOf[c]} : held'[key] = held[key]

LEMMA ApartKeeps ==
  ASSUME HeldAsShown, NEW c \in Chats, Apart(c), AsShown(c)',
         ~ ApprovalOn => held'[KeyOf[c]] = None
  PROVE  HeldAsShown'
<1>1. ASSUME NEW d \in Chats PROVE AsShown(d)'
  <2>1. CASE d = c
    BY <2>1
  <2>2. CASE d # c /\ Alone(d)
    <3>1. KeyOf[d] \in Keys \ {KeyOf[c]}
      BY <2>2, KeyOfItsOwn, PreflightConstants
    <3> QED BY <2>2, <3>1 DEF Apart, HeldAsShown, AsShown
  <2>3. CASE ~ Alone(d)
    BY <2>3 DEF AsShown, Alone
  <2> QED BY <2>1, <2>2, <2>3
<1>2. ~ ApprovalOn => \A key \in Keys : held'[key] = None
  BY DEF HeldAsShown, Apart
<1> QED BY <1>1, <1>2 DEF HeldAsShown

\* What a step of chat c may write.
LEMMA WritesApart ==
  ASSUME Typed, NEW c \in Chats,
         pc' = pc \/ \E phase : pc' = [pc EXCEPT ![c] = phase],
         told' = told \/ \E text : told' = [told EXCEPT ![c] = text],
         offered' = offered \/ \E cmd : offered' = [offered EXCEPT ![c] = cmd],
         slip' = slip \/ \E s : slip' = [slip EXCEPT ![c] = s],
         held' = held \/ \E cmd : held' = [held EXCEPT ![KeyOf[c]] = cmd]
  PROVE  Apart(c)
<1>1. \A d \in Chats \ {c} : pc'[d] = pc[d] /\ told'[d] = told[d]
  BY DEF Typed, TurnOK, UserOK
<1>2. \A d \in Chats \ {c} : offered'[d] = offered[d] /\ slip'[d] = slip[d]
  BY DEF Typed, UserOK
<1>3. \A key \in Keys \ {KeyOf[c]} : held'[key] = held[key]
  BY DEF Typed, StoreOK
<1> QED BY <1>1, <1>2, <1>3 DEF Apart

LEMMA EndTurnWrites ==
  ASSUME NEW c \in Chats, NEW text, EndTurn(c, text)
  PROVE  pc' = [pc EXCEPT ![c] = "idle"] /\ told' = [told EXCEPT ![c] = text]
BY DEF EndTurn, Goto

\* What is not touched past approval stays as it was shown, missed or not.
LEMMA LateShown ==
  ASSUME Typed, HeldAsShown, NEW c \in Chats, pc[c] \notin {"idle", "approval", "verdict"},
         UNCHANGED <<held, offered, slip>>,
         pc' = pc \/ \E phase : pc' = [pc EXCEPT ![c] = phase],
         told' = told \/ \E text : told' = [told EXCEPT ![c] = text]
  PROVE  HeldAsShown'
<1>1. Apart(c)
  BY WritesApart, Zenon
<1>2. AsShown(c)'
  BY DEF HeldAsShown, AsShown, Alone
<1>3. ~ ApprovalOn => held'[KeyOf[c]] = None
  BY PreflightConstants DEF HeldAsShown
<1> QED BY <1>1, <1>2, <1>3, ApartKeeps

\* Nothing is left to accept.
LEMMA ClearedShown ==
  ASSUME Typed, HeldAsShown, NEW c \in Chats, Clear(c), UNCHANGED <<offered, slip>>,
         \E phase : pc' = [pc EXCEPT ![c] = phase],
         told' = told \/ \E text : told' = [told EXCEPT ![c] = text]
  PROVE  HeldAsShown'
<1>1. held' = [held EXCEPT ![KeyOf[c]] = None]
  BY DEF Clear
<1>2. Apart(c)
  BY <1>1, WritesApart, Zenon
<1>3. held'[KeyOf[c]] = None
  BY <1>1, PreflightConstants DEF Typed, StoreOK
<1>4. AsShown(c)'
  BY <1>3 DEF AsShown, Alone
<1> QED BY <1>2, <1>3, <1>4, ApartKeeps

\* What is shown is what waits.
LEMMA OfferShown ==
  ASSUME Typed, HeldAsShown, NEW c \in Chats, NEW cmd, Offer(c, cmd),
         held' = held \/ \E other : held' = [held EXCEPT ![KeyOf[c]] = other],
         Alone(c) => held'[KeyOf[c]] = cmd,
         ~ ApprovalOn => held'[KeyOf[c]] = None
  PROVE  HeldAsShown'
<1>1. /\ pc' = [pc EXCEPT ![c] = "idle"] /\ told' = [told EXCEPT ![c] = "approval"]
      /\ offered' = [offered EXCEPT ![c] = cmd] /\ slip' = [slip EXCEPT ![c] = ""]
  BY EndTurnWrites DEF Offer
<1>2. Apart(c)
  BY <1>1, WritesApart, Zenon
<1>3. pc'[c] = "idle" /\ told'[c] = "approval" /\ offered'[c] = cmd
  BY <1>1 DEF Typed, TurnOK, UserOK
<1>4. AsShown(c)'
  BY <1>3 DEF AsShown, Alone
<1> QED BY <1>2, <1>4, ApartKeeps

LEMMA SayShown ==
  ASSUME Typed, HeldAsShown, NEW c \in Chats, NEW r \in Replies, Say(c, r)
  PROVE  HeldAsShown'
<1>1. pc[c] = "idle" /\ UNCHANGED <<held, offered, slip>>
  BY DEF Say, kvVars, historyVars
<1>2. \/ told' = [told EXCEPT ![c] = "skills"] /\ UNCHANGED pc
      \/ /\ pc' = [pc EXCEPT ![c] = IF ApprovalOn THEN "approval" ELSE "memory"]
         /\ UNCHANGED told
  BY DEF Say, Goto
<1>3. Apart(c)
  BY <1>1, <1>2, WritesApart, Zenon
<1>4. ~ ApprovalOn => held[KeyOf[c]] = None
  BY PreflightConstants DEF HeldAsShown
<1>5. \/ pc'[c] = pc[c] /\ told'[c] = "skills"
      \/ pc'[c] = (IF ApprovalOn THEN "approval" ELSE "memory") /\ told'[c] = told[c]
  BY <1>2 DEF Typed, TurnOK, UserOK
<1>6. AsShown(c)'
  BY <1>1, <1>4, <1>5 DEF HeldAsShown, AsShown, Alone
<1> QED BY <1>1, <1>3, <1>4, <1>6, ApartKeeps

LEMMA ApprovalShown ==
  ASSUME IInv, Typed, HeldAsShown, NEW c \in Chats, Approval(c)
  PROVE  HeldAsShown'
<1>1. ~ ApprovalOn => held[KeyOf[c]] = None
  BY PreflightConstants DEF HeldAsShown
<1>2. CASE NothingHeld(c)
  <2>1. /\ pc' = [pc EXCEPT ![c] = "memory"] /\ UNCHANGED <<told, held, offered>>
        /\ \/ held[KeyOf[c]] = None /\ UNCHANGED slip
           \/ slip' = [slip EXCEPT ![c] = IF @ = "" THEN "missed" ELSE @]
    BY <1>2 DEF NothingHeld, Waiting, Goto, kvVars
  <2>2. Apart(c)
    <3>1. slip' = slip \/ \E s : slip' = [slip EXCEPT ![c] = s]
      BY <2>1
    <3> QED BY <2>1, <3>1, WritesApart, Zenon
  <2>3. held[KeyOf[c]] = None \/ slip'[c] \in {"missed", "unseen"}
    BY <2>1 DEF Typed, UserOK
  <2>4. slip'[c] = "unseen" <=> slip[c] = "unseen"
    BY <2>1 DEF Typed, UserOK
  <2>5. AsShown(c)'
    BY <2>1, <2>3, <2>4 DEF HeldAsShown, AsShown, Alone
  <2> QED BY <1>1, <2>1, <2>2, <2>5, ApartKeeps
<1>3. CASE ReadHeld(c)
  <2>1. /\ pc[c] = "approval" /\ pc' = [pc EXCEPT ![c] = "verdict"]
        /\ UNCHANGED <<told, held, offered, slip>>
    BY <1>3 DEF ReadHeld, Goto, kvVars, userVars, historyVars
  <2>2. Apart(c)
    BY <2>1, WritesApart, Zenon
  <2>3. pc'[c] = "verdict"
    BY <2>1 DEF Typed, TurnOK
  <2>4. AsShown(c)'
    BY <2>1, <2>3 DEF HeldAsShown, AsShown, Alone
  <2> QED BY <1>1, <2>1, <2>2, <2>4, ApartKeeps
<1>4. CASE Remind(c)
  <2>1. pc[c] = "verdict" /\ Offer(c, taken[c]) /\ UNCHANGED held
    BY <1>4 DEF Remind, kvVars
  <2>2. Alone(c) => held'[KeyOf[c]] = taken[c]
    BY <2>1 DEF IInv, TakenWhileDecided
  <2> QED BY <1>1, <2>1, <2>2, OfferShown, Zenon
<1>5. CASE Deny(c)
  BY <1>5, EndTurnWrites, ClearedShown, Zenon DEF Deny, historyVars
<1>6. CASE Accept(c)
  <2>1. Clear(c) /\ UNCHANGED <<told, offered, slip>> /\ \E phase : pc' = [pc EXCEPT ![c] = phase]
    BY <1>6 DEF Accept, Consent, Goto
  <2> QED BY <2>1, ClearedShown
<1>7. CASE ReadGrants(c)
  <2>1. /\ pc[c] = "grant" /\ pc' = [pc EXCEPT ![c] = "save"]
        /\ UNCHANGED <<held, told, offered, slip>>
    BY <1>7 DEF ReadGrants, Goto, kvVars, userVars, historyVars
  <2> QED BY <2>1, LateShown
<1>8. CASE SaveGrants(c)
  <2>1. /\ pc[c] = "save" /\ pc' = [pc EXCEPT ![c] = "run"]
        /\ UNCHANGED <<held, told, offered, slip>>
    BY <1>8 DEF SaveGrants, Pass, Goto, userVars, historyVars
  <2> QED BY <2>1, LateShown
<1>9. CASE RunTaken(c)
  <2>1. pc[c] = "run" /\ EndTurn(c, "ran") /\ UNCHANGED <<held, offered, slip>>
    BY <1>9 DEF RunTaken, kvVars
  <2> QED BY <2>1, EndTurnWrites, LateShown
<1> QED BY <1>2, <1>3, <1>4, <1>5, <1>6, <1>7, <1>8, <1>9 DEF Approval

\* Past approval a message does not touch what is held, up to the agent.
LEMMA LaterPhasesShown ==
  ASSUME Typed, HeldAsShown, NEW c \in Chats,
         \/ MemoryCommand(c) \/ NoMemoryCommand(c)
         \/ Onboarding(c) \/ Clarification(c)
         \/ Answer(c)
         \/ \E n \in Counts, topic \in Topics :
               Ask(c, n, topic) \/ \E pick \in 1 .. 4 : AskAndAnswer(c, n, topic, pick)
         \/ CrashAmidOnboarding(c)
  PROVE  HeldAsShown'
<1>1. pc[c] \notin {"idle", "approval", "verdict"} /\ UNCHANGED <<held, offered, slip>>
  <2>1. CASE MemoryCommand(c) \/ NoMemoryCommand(c)
    BY <2>1, Zenon DEF MemoryCommand, NoMemoryCommand, Pass, kvVars, userVars, historyVars
  <2>2. CASE ResetPersona(c)
    BY <2>2, Zenon DEF ResetPersona, historyVars
  <2>3. ASSUME NEW st, NEW doc, Greet(c, st, doc) \/ AskNameAgain(c, st, doc)
                                \/ TakeName(c, st, doc) \/ PassOnboarding(c, st, doc)
        PROVE  pc[c] = "onboard" /\ UNCHANGED <<held, offered, slip>>
    BY <2>3, Zenon DEF Greet, AskNameAgain, TakeName, PassOnboarding, Looks, Pass, kvVars,
       userVars, historyVars
  <2>4. CASE Clarification(c)
    BY <2>4, Zenon DEF Clarification, NothingAsked, ReadAsked, Expire, Fold, Miss, StartTask,
       kvVars
  <2>5. CASE Answer(c)
    BY <2>5, Zenon DEF Answer, kvVars, historyVars
  <2>6. ASSUME NEW n, NEW topic, NEW pick, Ask(c, n, topic) \/ AskAndAnswer(c, n, topic, pick)
        PROVE  pc[c] = "agent" /\ UNCHANGED <<held, offered, slip>>
    BY <2>6, Zenon DEF Ask, AskAndAnswer
  <2>7. CASE CrashAmidOnboarding(c)
    BY <2>7, Zenon DEF CrashAmidOnboarding, Fails
  <2> QED BY <2>1, <2>2, <2>3, <2>4, <2>5, <2>6, <2>7 DEF Onboarding
<1>2. /\ pc' = pc \/ \E phase : pc' = [pc EXCEPT ![c] = phase]
      /\ told' = told \/ \E text : told' = [told EXCEPT ![c] = text]
  <2> DEFINE Writes == /\ pc' = pc \/ \E phase : pc' = [pc EXCEPT ![c] = phase]
                       /\ told' = told \/ \E text : told' = [told EXCEPT ![c] = text]
  <2>1. CASE MemoryCommand(c) \/ NoMemoryCommand(c)
    BY <2>1, EndTurnWrites DEF MemoryCommand, NoMemoryCommand, Pass, Goto, userVars
  <2>2. CASE ResetPersona(c)
    BY <2>2, EndTurnWrites DEF ResetPersona
  <2>3. ASSUME NEW st, NEW doc, Greet(c, st, doc) \/ AskNameAgain(c, st, doc)
                                \/ TakeName(c, st, doc) \/ PassOnboarding(c, st, doc)
        PROVE  Writes
    BY <2>3, EndTurnWrites, Zenon
    DEF Greet, AskNameAgain, TakeName, PassOnboarding, Pass, Goto, userVars
  <2>4. CASE Clarification(c)
    BY <2>4, Zenon
    DEF Clarification, NothingAsked, ReadAsked, Expire, Fold, Miss, StartTask, Goto
  <2>5. CASE Answer(c)
    BY <2>5, EndTurnWrites DEF Answer
  <2>6. ASSUME NEW n, NEW topic, NEW pick, Ask(c, n, topic) \/ AskAndAnswer(c, n, topic, pick)
        PROVE  Writes
    BY <2>6, EndTurnWrites, Zenon DEF Ask, AskAndAnswer
  <2>7. CASE CrashAmidOnboarding(c)
    BY <2>7, EndTurnWrites, Zenon DEF CrashAmidOnboarding, Fails
  <2> QED BY <2>1, <2>2, <2>3, <2>4, <2>5, <2>6, <2>7, Zenon DEF Onboarding
<1> QED BY <1>1, <1>2, LateShown

\* A command is held as it is shown, or by a turn that dies.
LEMMA HoldAndCrashShown ==
  ASSUME Typed, HeldAsShown, NEW c \in Chats,
         \/ \E cmd \in Commands : HoldCommand(c, cmd)
         \/ Crash(c) \/ CrashAfterClearing(c) \/ CrashBeforeShowing(c)
  PROVE  HeldAsShown'
<1>1. ASSUME NEW cmd \in Commands, HoldCommand(c, cmd)
      PROVE  HeldAsShown'
  <2>1. held' = [held EXCEPT ![KeyOf[c]] = cmd] /\ Offer(c, cmd) /\ ApprovalOn
    BY <1>1, Zenon DEF HoldCommand
  <2>2. held'[KeyOf[c]] = cmd
    BY <2>1, PreflightConstants DEF Typed, StoreOK
  <2> QED BY <2>1, <2>2, OfferShown, Zenon
<1>2. ASSUME Fails(c)
      PROVE  /\ pc' = [pc EXCEPT ![c] = "idle"] /\ told' = [told EXCEPT ![c] = "error"]
             /\ UNCHANGED offered /\ pc'[c] = "idle" /\ told'[c] = "error"
  <2>1. /\ pc' = [pc EXCEPT ![c] = "idle"] /\ told' = [told EXCEPT ![c] = "error"]
        /\ UNCHANGED offered
    BY <1>2, EndTurnWrites DEF Fails
  <2> QED BY <2>1 DEF Typed, TurnOK, UserOK
<1>3. ~ ApprovalOn => held[KeyOf[c]] = None
  BY PreflightConstants DEF HeldAsShown
<1>4. CASE Crash(c)
  <2>1. Fails(c) /\ UNCHANGED <<held, slip>>
    BY <1>4 DEF Crash, kvVars
  <2>2. Apart(c)
    BY <1>2, <2>1, WritesApart, Zenon
  <2>3. AsShown(c)'
    BY <1>2, <2>1 DEF HeldAsShown, AsShown, Alone
  <2> QED BY <1>3, <2>1, <2>2, <2>3, ApartKeeps
<1>5. CASE CrashAfterClearing(c)
  <2>1. Fails(c) /\ UNCHANGED slip /\ (Clear(c) \/ (pc[c] = "match" /\ UNCHANGED held))
    BY <1>5, Zenon DEF CrashAfterClearing
  <2>2. CASE Clear(c)
    BY <1>2, <2>1, <2>2, ClearedShown, Zenon
  <2>3. CASE pc[c] = "match" /\ UNCHANGED held
    BY <1>2, <2>1, <2>3, LateShown
  <2> QED BY <2>1, <2>2, <2>3
<1>6. CASE CrashBeforeShowing(c)
  <2>1. /\ Fails(c) /\ pc[c] = "agent"
        /\ \/ UNCHANGED <<held, slip>>
           \/ /\ ApprovalOn
              /\ \E cmd \in Commands : held' = [held EXCEPT ![KeyOf[c]] = cmd]
              /\ slip' = [slip EXCEPT ![c] = "unseen"]
    BY <1>6, Zenon DEF CrashBeforeShowing
  <2>2. CASE UNCHANGED <<held, slip>>
    BY <1>2, <2>1, <2>2, LateShown
  <2>3. CASE /\ ApprovalOn
             /\ \E cmd \in Commands : held' = [held EXCEPT ![KeyOf[c]] = cmd]
             /\ slip' = [slip EXCEPT ![c] = "unseen"]
    <3>1. Apart(c)
      BY <1>2, <2>1, <2>3, WritesApart, Zenon
    <3>2. slip'[c] = "unseen"
      BY <2>3 DEF Typed, UserOK
    <3>3. AsShown(c)'
      BY <3>2 DEF AsShown
    <3> QED BY <2>3, <3>1, <3>3, ApartKeeps
  <2> QED BY <2>1, <2>2, <2>3
<1> QED BY <1>1, <1>4, <1>5, <1>6

LEMMA NextShown == IInv /\ Typed /\ HeldAsShown /\ [Next]_vars => HeldAsShown'
<1> SUFFICES ASSUME IInv, Typed, HeldAsShown, [Next]_vars PROVE HeldAsShown'
  OBVIOUS
<1>1. CASE UNCHANGED vars
  <2>1. UNCHANGED <<held, offered, slip, pc, told>>
    BY <1>1 DEF vars, kvVars, userVars, historyVars
  <2> QED BY <2>1 DEF HeldAsShown, AsShown, Alone
<1>2. CASE Next
  BY <1>2, SayShown, ApprovalShown, LaterPhasesShown, HoldAndCrashShown, Zenon DEF Next, Agent
<1> QED BY <1>1, <1>2

LEMMA InitShown == Init => HeldAsShown
<1> SUFFICES ASSUME Init PROVE HeldAsShown
  OBVIOUS
<1>1. \A key \in Keys : held[key] = None
  BY DEF Init
<1> QED BY <1>1, PreflightConstants DEF HeldAsShown, AsShown

\* In a conversation of its own a yes is about the command that chat was shown last,
\* with nothing but a list of skills or an error in between unless a read of the key
\* has failed, for any chats, commands and number of messages and faults, and whatever
\* the chats that share a key do (my_claw_tool.py:87-109 and 284-333).
THEOREM YesIsAboutWhatWasShown == Spec => AcceptedAsShown
<1>1. IInv /\ HeldAsShown /\ [Next]_vars =>
        [\A c \in Chats :
           /\ Alone(c)
           /\ pc[c] = "verdict" /\ pc'[c] \in Accepted
           /\ slip[c] # "unseen"
           => /\ taken[c] = offered[c]
              /\ slip[c] = "missed" \/ told[c] \in {"approval", "skills", "error"}]_vars
  <2> SUFFICES ASSUME IInv, HeldAsShown, NEW c \in Chats, Alone(c), pc[c] = "verdict",
                      slip[c] # "unseen"
               PROVE  /\ taken[c] = offered[c]
                      /\ slip[c] = "missed" \/ told[c] \in {"approval", "skills", "error"}
    OBVIOUS
  <2>1. held[KeyOf[c]] = taken[c] /\ taken[c] \in Commands
    BY DEF IInv, TakenWhileDecided, Decided
  <2>2. taken[c] # None
    BY <2>1, PreflightConstants
  <2> QED BY <2>1, <2>2 DEF HeldAsShown, AsShown
<1> QED
  BY InitIInv, NextKeepsIInv, InitTyped, NextTyped, InitShown, NextShown, <1>1, PTL
  DEF Spec, AcceptedAsShown

-----------------------------------------------------------------------------
(* The pending question.                                                   *)

\* The task was asked by an earlier message of its chat, or by this one whose agent
\* may still be at work.
Past(t) ==
    /\ t.turn <= turns[t.chat]
    /\ pc[t.chat] \notin {"idle", "agent"} => t.turn < turns[t.chat]

\* A question that only its own chat has read has not been folded, and the messages
\* that passed it by are accounted for by its misses and the failures.
Sound(q) ==
    /\ Past(q.by)
    /\ q.by \notin strayed => /\ \A i \in DOMAIN folded : folded[i].q.by # q.by
                              /\ passedBy[q.by.chat] <= q.misses + faults

\* The question pending, and those being matched, which may be older; what has been
\* folded is older than any question its chat may yet ask.
Questioned ==
    /\ asked # None => Sound(asked)
    /\ \A c \in Chats : pc[c] = "match" => /\ Sound(readAsked[c])
                                           /\ readAsked[c].by \in strayed \/ readAsked[c].by.chat = c
    /\ \A i \in DOMAIN folded :
          folded[i].q.by \notin strayed => folded[i].q.by.turn < turns[folded[i].q.by.chat]

\* The same of a question after a step.
SoundAfter(q) ==
    /\ q.by.turn <= turns'[q.by.chat]
    /\ pc'[q.by.chat] \notin {"idle", "agent"} => q.by.turn < turns'[q.by.chat]
    /\ q.by \notin strayed' => /\ \A i \in DOMAIN folded' : folded'[i].q.by # q.by
                               /\ passedBy'[q.by.chat] <= q.misses + faults'

LEMMA QuestionedAfter ==
  ASSUME asked' # None => SoundAfter(asked'),
         \A d \in Chats : pc'[d] = "match" =>
            /\ SoundAfter(readAsked'[d])
            /\ readAsked'[d].by \in strayed' \/ readAsked'[d].by.chat = d,
         \A i \in DOMAIN folded' :
            folded'[i].q.by \notin strayed' => folded'[i].q.by.turn < turns'[folded'[i].q.by.chat]
  PROVE  Questioned'
BY DEF Questioned, Sound, Past, SoundAfter

LEMMA Questions ==
  ASSUME Typed
  PROVE  /\ asked # None => asked \in Question
         /\ \A c \in Chats : pc[c] = "match" => readAsked[c] \in Question
         /\ \A i \in DOMAIN folded : folded[i].q \in Question
         /\ \A q \in Question : /\ q.by \in Task /\ q.by.chat \in Chats /\ q.by.turn \in Nat
                                /\ q.misses \in Nat /\ q.misses \in 0 .. 1
         /\ \A c \in Chats : turns[c] \in Nat /\ passedBy[c] \in Nat
         /\ faults \in Nat
<1>1. ASSUME NEW i \in DOMAIN folded
      PROVE  folded[i].q \in Question
  <2>1. folded \in Seq(Folding)
    BY DEF Typed, UserOK
  <2>2. folded[i] \in Folding
    BY <2>1
  <2> QED BY <2>2 DEF Folding
<1>2. /\ asked # None => asked \in Question
      /\ \A c \in Chats : pc[c] = "match" => readAsked[c] \in Question
  BY DEF Typed, StoreOK, TurnOK
<1>3. \A q \in Question : /\ q.by \in Task /\ q.by.chat \in Chats /\ q.by.turn \in Nat
                          /\ q.misses \in 0 .. 1
  BY DEF Question, Task
<1>4. \A n \in 0 .. 1 : n \in Nat
  OBVIOUS
<1>5. \A c \in Chats : turns[c] \in Nat /\ passedBy[c] \in Nat
  BY DEF Typed, TurnOK, UserOK
<1>6. faults \in Nat
  <2>1. faults \in 0 .. MaxFaults
    BY DEF Typed, UserOK
  <2> QED BY <2>1, FaultBound
<1> QED BY <1>1, <1>2, <1>3, <1>4, <1>5, <1>6

\* The step is one of chat c: turns are counted up when a message arrives, and
\* nothing else begins a turn; failures are counted, and what strayed stays so.
Onward(c) ==
    /\ \A d \in Chats \ {c} : /\ pc'[d] = pc[d] /\ turns'[d] = turns[d]
                              /\ readAsked'[d] = readAsked[d] /\ passedBy'[d] = passedBy[d]
    /\ turns'[c] \in {turns[c], turns[c] + 1}
    /\ pc'[c] \notin {"idle", "agent"} =>
          turns'[c] = turns[c] + 1 \/ pc[c] \notin {"idle", "agent"}
    /\ faults' \in {faults, faults + 1} /\ strayed \subseteq strayed'

\* What a step of chat c may write that does not begin its turn.
LEMMA WritesOnward ==
  ASSUME Typed, NEW c \in Chats, UNCHANGED turns,
         \/ pc' = pc
         \/ \E phase \in {"idle", "agent"} : pc' = [pc EXCEPT ![c] = phase]
         \/ pc[c] \notin {"idle", "agent"} /\ \E phase : pc' = [pc EXCEPT ![c] = phase],
         readAsked' = readAsked \/ \E q : readAsked' = [readAsked EXCEPT ![c] = q],
         passedBy' = passedBy \/ \E n : passedBy' = [passedBy EXCEPT ![c] = n],
         faults' \in {faults, faults + 1}, strayed \subseteq strayed'
  PROVE  Onward(c)
<1>1. /\ \A d \in Chats \ {c} : pc'[d] = pc[d]
      /\ pc'[c] \notin {"idle", "agent"} => pc[c] \notin {"idle", "agent"}
  BY DEF Typed, TurnOK
<1>2. \A d \in Chats \ {c} : readAsked'[d] = readAsked[d]
  BY DEF Typed, TurnOK
<1>3. \A d \in Chats \ {c} : passedBy'[d] = passedBy[d]
  BY DEF Typed, UserOK
<1> QED BY <1>1, <1>2, <1>3 DEF Onward

LEMMA SoundStays ==
  ASSUME Typed, NEW c \in Chats, Onward(c), NEW q \in Question, Past(q.by),
         q.by \notin strayed' => /\ \A i \in DOMAIN folded' : folded'[i].q.by # q.by
                                 /\ passedBy'[q.by.chat] <= q.misses + faults'
  PROVE  SoundAfter(q)
<1>1. q.by.chat \in Chats /\ q.by.turn \in Nat /\ turns[q.by.chat] \in Nat
  BY Questions
<1>2. CASE q.by.chat = c
  <2>1. turns[c] \in Nat
    BY <1>1, <1>2
  <2>2. /\ q.by.turn <= turns[c]
        /\ pc[c] \notin {"idle", "agent"} => q.by.turn < turns[c]
    BY <1>2 DEF Past
  <2>3. /\ q.by.turn <= turns'[c]
        /\ pc'[c] \notin {"idle", "agent"} => q.by.turn < turns'[c]
    BY <1>1, <2>1, <2>2 DEF Onward
  <2> QED BY <1>2, <2>3 DEF SoundAfter
<1>3. CASE q.by.chat # c
  <2>1. turns'[q.by.chat] = turns[q.by.chat] /\ pc'[q.by.chat] = pc[q.by.chat]
    BY <1>1, <1>3 DEF Onward
  <2> QED BY <2>1 DEF SoundAfter, Past
<1> QED BY <1>2, <1>3

\* What is folded by the step was strayed, or is the chat's own.
FoldsItsOwn(c) ==
    \A i \in DOMAIN folded' :
        \/ i \in DOMAIN folded /\ folded'[i] = folded[i]
        \/ folded'[i].q.by \in strayed \/ folded'[i].q.by.chat = c

LEMMA OthersSound ==
  ASSUME Typed, Questioned, NEW c \in Chats, Onward(c), FoldsItsOwn(c),
         NEW d \in Chats \ {c}, pc'[d] = "match"
  PROVE  /\ SoundAfter(readAsked'[d])
         /\ readAsked'[d].by \in strayed' \/ readAsked'[d].by.chat = d
<1> DEFINE q == readAsked[d]
<1>1. pc[d] = "match" /\ readAsked'[d] = q /\ passedBy'[d] = passedBy[d]
  BY DEF Onward
<1>2. q \in Question /\ Sound(q) /\ (q.by \in strayed \/ q.by.chat = d)
  BY <1>1, Questions DEF Questioned
<1> HIDE DEF q
<1>3. ASSUME q.by \notin strayed'
      PROVE  /\ \A i \in DOMAIN folded' : folded'[i].q.by # q.by
             /\ passedBy'[q.by.chat] <= q.misses + faults'
  <2>1. q.by \notin strayed /\ q.by.chat = d
    BY <1>2, <1>3 DEF Onward
  <2>2. \A i \in DOMAIN folded' : folded'[i].q.by # q.by
    BY <1>2, <2>1 DEF FoldsItsOwn, Sound
  <2>3. passedBy[d] <= q.misses + faults
    BY <1>2, <2>1 DEF Sound
  <2>4. passedBy[d] \in Nat /\ q.misses \in Nat /\ faults \in Nat
    BY <1>2, Questions
  <2>5. faults' \in {faults, faults + 1}
    BY DEF Onward
  <2>6. passedBy[d] <= q.misses + faults'
    BY <2>3, <2>4, <2>5
  <2> QED BY <1>1, <2>1, <2>2, <2>6
<1>4. SoundAfter(q)
  BY <1>2, <1>3, SoundStays DEF Sound
<1>5. q.by \in strayed' \/ q.by.chat = d
  BY <1>2 DEF Onward
<1> QED BY <1>1, <1>4, <1>5

LEMMA FoldedStaysOld ==
  ASSUME Typed, Questioned, NEW c \in Chats, Onward(c), UNCHANGED folded,
         NEW i \in DOMAIN folded, folded[i].q.by \notin strayed'
  PROVE  folded[i].q.by.turn < turns'[folded[i].q.by.chat]
<1> DEFINE t == folded[i].q.by
<1>1. t.chat \in Chats /\ t.turn \in Nat /\ turns[t.chat] \in Nat
  BY Questions
<1>2. t.turn < turns[t.chat]
  BY DEF Questioned, Onward
<1>3. turns'[t.chat] \in {turns[t.chat], turns[t.chat] + 1}
  BY <1>1 DEF Onward
<1> HIDE DEF t
<1>4. t.turn < turns'[t.chat]
  BY <1>1, <1>2, <1>3
<1> QED BY <1>4 DEF t

\* A step that folds nothing and begins no match: it remains to be seen what is
\* pending after it.
LEMMA UnfoldedStep ==
  ASSUME Typed, Questioned, NEW c \in Chats, Onward(c), UNCHANGED folded, pc'[c] # "match",
         asked' # None => SoundAfter(asked')
  PROVE  Questioned'
<1>1. FoldsItsOwn(c)
  BY DEF FoldsItsOwn
<1>2. ASSUME NEW d \in Chats, pc'[d] = "match"
      PROVE  /\ SoundAfter(readAsked'[d])
             /\ readAsked'[d].by \in strayed' \/ readAsked'[d].by.chat = d
  <2>1. d \in Chats \ {c}
    BY <1>2
  <2> QED BY <1>1, <1>2, <2>1, OthersSound
<1>3. \A i \in DOMAIN folded' :
         folded'[i].q.by \notin strayed' => folded'[i].q.by.turn < turns'[folded'[i].q.by.chat]
  BY FoldedStaysOld
<1> QED BY <1>2, <1>3, QuestionedAfter

\* The question is left as it is, and no message passes it by.
LEMMA LeftAlone ==
  ASSUME Typed, Questioned, NEW c \in Chats, Onward(c), UNCHANGED <<asked, folded, passedBy>>,
         pc'[c] # "match"
  PROVE  Questioned'
<1>1. ASSUME asked # None PROVE SoundAfter(asked)
  <2>1. asked \in Question /\ Sound(asked)
    BY <1>1, Questions DEF Questioned
  <2>2. ASSUME asked.by \notin strayed'
        PROVE  /\ \A i \in DOMAIN folded' : folded'[i].q.by # asked.by
               /\ passedBy'[asked.by.chat] <= asked.misses + faults'
    <3>1. asked.by \notin strayed
      BY <2>2 DEF Onward
    <3>2. /\ \A i \in DOMAIN folded : folded[i].q.by # asked.by
          /\ passedBy[asked.by.chat] <= asked.misses + faults
      BY <2>1, <3>1 DEF Sound
    <3>3. /\ passedBy[asked.by.chat] \in Nat /\ asked.misses \in Nat /\ faults \in Nat
          /\ faults' \in {faults, faults + 1}
      BY <2>1, Questions DEF Onward
    <3>4. passedBy[asked.by.chat] <= asked.misses + faults'
      BY <3>2, <3>3
    <3> QED BY <3>2, <3>4
  <2> QED BY <2>1, <2>2, SoundStays DEF Sound
<1> QED BY <1>1, UnfoldedStep

LEMMA AsksAnew ==
  ASSUME Typed, Questioned, NEW c \in Chats, Onward(c), UNCHANGED <<folded, strayed, turns>>,
         pc'[c] \in {"idle", "agent"},
         NEW n \in Counts, NEW topic \in Topics, PutQuestion(c, n, topic)
  PROVE  Questioned'
<1>1. asked' \in Question /\ asked'.by = ThisTask(c) /\ asked'.misses = 0 /\ passedBy'[c] = 0
  <2>1. asked' \in Question
    BY PutQuestionTyped
  <2>2. asked'.by = ThisTask(c) /\ asked'.misses = 0
    BY DEF PutQuestion
  <2>3. passedBy' = [passedBy EXCEPT ![c] = 0]
    BY DEF PutQuestion
  <2>4. passedBy'[c] = 0
    BY <2>3 DEF Typed, UserOK
  <2> QED BY <2>1, <2>2, <2>4
<1>2. ThisTask(c).chat = c /\ ThisTask(c).turn = turns[c] /\ turns[c] \in Nat /\ faults' \in Nat
  BY Questions DEF ThisTask, Onward
<1>3. ASSUME ThisTask(c) \notin strayed, NEW i \in DOMAIN folded
      PROVE  folded[i].q.by # ThisTask(c)
  <2>1. folded[i].q.by = ThisTask(c) => turns[c] < turns[c]
    BY <1>2, <1>3 DEF Questioned
  <2> QED BY <1>2, <2>1
<1>4. SoundAfter(asked')
  BY <1>1, <1>2, <1>3 DEF SoundAfter
<1> QED BY <1>4, UnfoldedStep

-----------------------------------------------------------------------------
(* The steps, by what they do to the question.                             *)

LEMMA SayQuestioned ==
  ASSUME Typed, Questioned, NEW c \in Chats, NEW r \in Replies, Say(c, r)
  PROVE  Questioned'
<1>1. /\ pc[c] = "idle" /\ turns' = [turns EXCEPT ![c] = @ + 1]
      /\ UNCHANGED <<asked, readAsked, faults, folded, passedBy, strayed>>
  BY DEF Say, kvVars, localVars, historyVars
<1>2. pc' = pc \/ \E phase \in {"approval", "memory"} : pc' = [pc EXCEPT ![c] = phase]
  BY DEF Say, Goto
<1>3. /\ \A d \in Chats \ {c} : pc'[d] = pc[d] /\ turns'[d] = turns[d]
      /\ turns'[c] = turns[c] + 1 /\ pc'[c] # "match"
  BY <1>1, <1>2 DEF Typed, TurnOK
<1>4. Onward(c)
  BY <1>1, <1>3 DEF Onward
<1> QED BY <1>1, <1>3, <1>4, LeftAlone

\* Before the question is read, and after the agent has it, most steps leave it alone.
LEMMA OtherStepsQuestioned ==
  ASSUME Typed, Questioned, NEW c \in Chats,
         \/ Approval(c) \/ MemoryCommand(c) \/ NoMemoryCommand(c) \/ Onboarding(c)
         \/ Answer(c) \/ \E cmd \in Commands : HoldCommand(c, cmd)
         \/ Crash(c) \/ CrashAmidOnboarding(c)
  PROVE  Questioned'
<1> DEFINE Rest == /\ UNCHANGED <<asked, turns, folded, passedBy, strayed>>
                   /\ \/ faults' = faults
                      \/ faults' = faults + 1
           Phase == \/ pc' = [pc EXCEPT ![c] = "idle"]
                    \/ /\ pc[c] \notin {"idle", "agent"}
                       /\ \E phase \in Phases \ {"match"} : pc' = [pc EXCEPT ![c] = phase]
           Read == readAsked' = readAsked \/ \E q : readAsked' = [readAsked EXCEPT ![c] = q]
<1>1. Rest
  <2>1. CASE Approval(c)
    BY <2>1, Zenon DEF Approval, NothingHeld, ReadHeld, Remind, Deny, Accept, Consent, ReadGrants,
       SaveGrants, RunTaken, ReadFails, Offer, Pass, kvVars, userVars, historyVars
  <2>2. CASE MemoryCommand(c) \/ NoMemoryCommand(c)
    BY <2>2, Zenon DEF MemoryCommand, NoMemoryCommand, Pass, kvVars, userVars, historyVars
  <2>3. CASE ResetPersona(c)
    BY <2>3, Zenon DEF ResetPersona, WriteFails, historyVars
  <2>4. ASSUME NEW st, NEW doc, Greet(c, st, doc) \/ AskNameAgain(c, st, doc)
                                \/ TakeName(c, st, doc) \/ PassOnboarding(c, st, doc)
        PROVE  Rest
    <3>1. faults' = faults \/ faults' = faults + 1
      BY <2>4, Zenon DEF Greet, AskNameAgain, TakeName, PassOnboarding, Looks, ReadFails
    <3>2. UNCHANGED <<asked, turns, folded, passedBy, strayed>>
      BY <2>4, Zenon DEF Greet, AskNameAgain, TakeName, PassOnboarding, Pass, kvVars, userVars,
         historyVars
    <3> QED BY <3>1, <3>2
  <2>5. CASE Answer(c)
    BY <2>5, Zenon DEF Answer, kvVars, historyVars
  <2>6. ASSUME NEW cmd, HoldCommand(c, cmd)
        PROVE  Rest
    BY <2>6, Zenon DEF HoldCommand, ReadFails, Offer
  <2>7. CASE Crash(c) \/ CrashAmidOnboarding(c)
    BY <2>7, Zenon DEF Crash, CrashAmidOnboarding, Fails, kvVars
  <2> QED BY <2>1, <2>2, <2>3, <2>4, <2>5, <2>6, <2>7, Zenon DEF Onboarding
<1>2. ASSUME NEW text, EndTurn(c, text)
      PROVE  Phase /\ Read
  <2>1. pc' = [pc EXCEPT ![c] = "idle"] /\ readAsked' = [readAsked EXCEPT ![c] = None]
    BY <1>2 DEF EndTurn, Goto
  <2> QED BY <2>1
<1>3. Phase /\ Read
  <2>1. CASE Approval(c)
    <3>1. CASE NothingHeld(c) \/ ReadHeld(c) \/ Accept(c) \/ ReadGrants(c) \/ SaveGrants(c)
      BY <3>1 DEF NothingHeld, ReadHeld, Accept, Consent, ReadGrants, SaveGrants, Pass, Goto,
         Phases, localVars
    <3>2. CASE Remind(c) \/ Deny(c) \/ RunTaken(c)
      BY <1>2, <3>2, Zenon DEF Remind, Deny, RunTaken, Offer
    <3> QED BY <2>1, <3>1, <3>2, Zenon DEF Approval
  <2>2. CASE MemoryCommand(c)
    BY <1>2, <2>2 DEF MemoryCommand
  <2>3. CASE NoMemoryCommand(c)
    BY <2>3 DEF NoMemoryCommand, Pass, Goto, Phases, localVars
  <2>4. CASE ResetPersona(c)
    BY <1>2, <2>4 DEF ResetPersona
  <2>5. ASSUME NEW st, NEW doc, PassOnboarding(c, st, doc)
        PROVE  Phase /\ Read
    <3>1. pc[c] = "onboard" /\ pc' = [pc EXCEPT ![c] = "clarify"] /\ UNCHANGED readAsked
      BY <2>5, Zenon DEF PassOnboarding, Looks, Pass, Goto, localVars
    <3> QED BY <3>1 DEF Phases
  <2>6. ASSUME NEW st, NEW doc, Greet(c, st, doc) \/ AskNameAgain(c, st, doc) \/ TakeName(c, st, doc)
        PROVE  Phase /\ Read
    BY <1>2, <2>6, Zenon DEF Greet, AskNameAgain, TakeName
  <2>7. CASE \/ Answer(c) \/ \E cmd \in Commands : HoldCommand(c, cmd)
             \/ Crash(c) \/ CrashAmidOnboarding(c)
    BY <1>2, <2>7, Zenon DEF Answer, HoldCommand, Offer, Crash, CrashAmidOnboarding, Fails
  <2> HIDE DEF Phase, Read
  <2> QED BY <2>1, <2>2, <2>3, <2>4, <2>5, <2>6, <2>7, Zenon DEF Onboarding
<1>4. Onward(c)
  BY <1>1, <1>3, WritesOnward
<1>5. pc'[c] # "match"
  BY <1>3 DEF Typed, TurnOK
<1> HIDE DEF Phase, Read
<1> QED BY <1>1, <1>4, <1>5, LeftAlone

LEMMA PassesByWrites ==
  ASSUME NEW c \in Chats, NEW q, PassesBy(c, q)
  PROVE  \E n : passedBy' = [passedBy EXCEPT ![c] = n]
BY DEF PassesBy

LEMMA PassesByCounts ==
  ASSUME Typed, NEW c \in Chats, NEW q, PassesBy(c, q)
  PROVE  /\ \A d \in Chats \ {c} : passedBy'[d] = passedBy[d]
         /\ passedBy'[c] \in {0, passedBy[c] + 1}
BY DEF PassesBy, Typed, UserOK

\* The message becomes a task: what is read of the question is forgotten.
LEMMA StartTaskOnward ==
  ASSUME Typed, NEW c \in Chats, NEW t, NEW q, StartTask(c, t), PassesBy(c, q),
         UNCHANGED strayed, faults' \in {faults, faults + 1}
  PROVE  Onward(c) /\ pc'[c] = "agent" /\ UNCHANGED turns
<1>1. /\ pc' = [pc EXCEPT ![c] = "agent"] /\ UNCHANGED turns
      /\ readAsked' = [readAsked EXCEPT ![c] = None]
  BY DEF StartTask, Goto
<1>2. Onward(c)
  BY <1>1, PassesByWrites, WritesOnward
<1>3. pc'[c] = "agent"
  BY <1>1 DEF Typed, TurnOK
<1> QED BY <1>1, <1>2, <1>3

\* A read that fails lets one message pass by the question, and counts as a failure.
LEMMA NothingAskedQuestioned ==
  ASSUME Typed, Questioned, NEW c \in Chats, NothingAsked(c)
  PROVE  Questioned'
<1>1. /\ StartTask(c, ThisTask(c)) /\ PassesBy(c, asked) /\ UNCHANGED <<asked, folded, strayed>>
      /\ \/ asked = None /\ faults' = faults
         \/ faults' = faults + 1
  BY Zenon DEF NothingAsked, ReadFails, kvVars
<1>2. Onward(c) /\ pc'[c] = "agent"
  BY <1>1, StartTaskOnward
<1>3. ASSUME asked # None PROVE SoundAfter(asked)
  <2>1. asked \in Question /\ Sound(asked) /\ faults' = faults + 1
    BY <1>1, <1>3, Questions DEF Questioned
  <2>2. ASSUME asked.by \notin strayed'
        PROVE  /\ \A i \in DOMAIN folded' : folded'[i].q.by # asked.by
               /\ passedBy'[asked.by.chat] <= asked.misses + faults'
    <3>1. /\ \A i \in DOMAIN folded : folded[i].q.by # asked.by
          /\ passedBy[asked.by.chat] <= asked.misses + faults
      BY <1>1, <2>1, <2>2 DEF Sound
    <3>2. /\ asked.by.chat \in Chats /\ passedBy[asked.by.chat] \in Nat
          /\ asked.misses \in Nat /\ faults \in Nat
      BY <2>1, Questions
    <3>3. passedBy'[asked.by.chat] \in {0, passedBy[asked.by.chat], passedBy[asked.by.chat] + 1}
      BY <1>1, <3>2, PassesByCounts
    <3>4. passedBy'[asked.by.chat] <= asked.misses + faults'
      BY <2>1, <3>1, <3>2, <3>3
    <3> QED BY <1>1, <3>1, <3>4
  <2> QED BY <1>2, <2>1, <2>2, SoundStays DEF Sound
<1> QED BY <1>1, <1>2, <1>3, UnfoldedStep

\* What is read is what is pending; by another chat than the one that asked, it strays.
LEMMA ReadAskedQuestioned ==
  ASSUME Typed, Questioned, NEW c \in Chats, ReadAsked(c)
  PROVE  Questioned'
<1>1. /\ pc[c] = "clarify" /\ asked # None /\ pc' = [pc EXCEPT ![c] = "match"]
      /\ readAsked' = [readAsked EXCEPT ![c] = asked]
      /\ strayed' = IF asked.by.chat = c THEN strayed ELSE strayed \cup {asked.by}
      /\ UNCHANGED <<asked, turns, faults, folded, passedBy>>
  BY DEF ReadAsked, Goto, kvVars
<1>2. readAsked'[c] = asked
  BY <1>1 DEF Typed, TurnOK
<1>3. Onward(c)
  <2>1. strayed \subseteq strayed'
    BY <1>1
  <2> QED BY <1>1, <2>1, WritesOnward
<1>4. asked \in Question /\ Sound(asked)
  BY <1>1, Questions DEF Questioned
<1>5. SoundAfter(asked)
  <2>1. asked.by \notin strayed' => asked.by \notin strayed
    BY <1>1
  <2>2. asked.by \notin strayed' => /\ \A i \in DOMAIN folded' : folded'[i].q.by # asked.by
                                   /\ passedBy'[asked.by.chat] <= asked.misses + faults'
    BY <1>1, <1>4, <2>1 DEF Sound
  <2> QED BY <1>3, <1>4, <2>2, SoundStays DEF Sound
<1>6. asked.by \in strayed' \/ asked.by.chat = c
  BY <1>1
<1>7. FoldsItsOwn(c)
  BY <1>1 DEF FoldsItsOwn
<1>8. ASSUME NEW d \in Chats, pc'[d] = "match"
      PROVE  /\ SoundAfter(readAsked'[d])
             /\ readAsked'[d].by \in strayed' \/ readAsked'[d].by.chat = d
  <2>1. CASE d = c
    BY <1>2, <1>5, <1>6, <2>1
  <2>2. CASE d # c
    BY <1>3, <1>7, <1>8, <2>2, OthersSound
  <2> QED BY <2>1, <2>2
<1>9. \A i \in DOMAIN folded' :
         folded'[i].q.by \notin strayed' => folded'[i].q.by.turn < turns'[folded'[i].q.by.chat]
  BY <1>1, <1>3, FoldedStaysOld
<1> QED BY <1>1, <1>5, <1>8, <1>9, QuestionedAfter

\* The question folded is one its own chat has read, or has strayed; its task is older
\* than this message.
LEMMA FoldQuestioned ==
  ASSUME Typed, Questioned, NEW c \in Chats, Fold(c)
  PROVE  Questioned' /\ (FoldedOnce => FoldedOnce')
<1> DEFINE entry == [q |-> readAsked[c], chat |-> c, pick |-> reply[c].pick]
<1>1. /\ pc[c] = "match" /\ asked' = None /\ folded' = Append(folded, entry)
      /\ StartTask(c, readAsked[c].original) /\ PassesBy(c, None) /\ UNCHANGED strayed
      /\ faults' \in {faults, faults + 1}
  BY DEF Fold, ReadFails, WriteFails
<1>2. Onward(c) /\ pc'[c] = "agent" /\ UNCHANGED turns
  BY <1>1, StartTaskOnward
<1>3. /\ entry.q = readAsked[c] /\ readAsked[c] \in Question /\ Sound(readAsked[c])
      /\ readAsked[c].by \in strayed \/ readAsked[c].by.chat = c
  BY <1>1, Questions DEF Questioned
<1>4. folded \in Seq(Folding)
  BY DEF Typed, UserOK
<1> HIDE DEF entry
<1>5. \A i \in DOMAIN folded' :
        \/ i \in DOMAIN folded /\ folded'[i] = folded[i]
        \/ i = Len(folded) + 1 /\ folded'[i] = entry
  BY <1>1, <1>4
<1>6. FoldsItsOwn(c)
  BY <1>3, <1>5 DEF FoldsItsOwn
<1>7. \A d \in Chats : pc'[d] = "match" =>
         /\ SoundAfter(readAsked'[d])
         /\ readAsked'[d].by \in strayed' \/ readAsked'[d].by.chat = d
  BY <1>2, <1>6, OthersSound
<1>8. readAsked[c].by \notin strayed => readAsked[c].by.turn < turns[readAsked[c].by.chat]
  BY <1>1, <1>3 DEF Sound, Past
<1>9. \A i \in DOMAIN folded' :
         folded'[i].q.by \notin strayed' => folded'[i].q.by.turn < turns'[folded'[i].q.by.chat]
  BY <1>1, <1>2, <1>3, <1>5, <1>8 DEF Questioned
<1>10. Questioned'
  BY <1>1, <1>7, <1>9, QuestionedAfter
<1>11. ASSUME FoldedOnce PROVE FoldedOnce'
  <2>1. readAsked[c].by \notin strayed => \A i \in DOMAIN folded : folded[i].q.by # readAsked[c].by
    BY <1>3 DEF Sound
  <2> QED BY <1>1, <1>3, <1>5, <1>11, <2>1 DEF FoldedOnce
<1> QED BY <1>10, <1>11

\* A miss puts back what was read with one miss more, or drops it.
LEMMA MissQuestioned ==
  ASSUME Typed, Questioned, NEW c \in Chats, Miss(c)
  PROVE  Questioned'
<1>1. /\ pc[c] = "match" /\ StartTask(c, ThisTask(c)) /\ UNCHANGED <<folded, faults, strayed>>
      /\ asked' = IF readAsked[c].misses + 1 >= 2 THEN None
                  ELSE [readAsked[c] EXCEPT !.misses = @ + 1]
      /\ passedBy' = [passedBy EXCEPT ![c] =
                         IF asked' # None /\ asked'.by.chat = c THEN @ + 1 ELSE 0]
  BY DEF Miss, PassesBy
<1>2. Onward(c) /\ pc'[c] = "agent" /\ UNCHANGED turns
  <2>1. /\ pc' = [pc EXCEPT ![c] = "agent"] /\ UNCHANGED turns
        /\ readAsked' = [readAsked EXCEPT ![c] = None]
    BY <1>1 DEF StartTask, Goto
  <2>2. \E n : passedBy' = [passedBy EXCEPT ![c] = n]
    BY <1>1
  <2>3. Onward(c)
    BY <1>1, <2>1, <2>2, WritesOnward
  <2>4. pc'[c] = "agent"
    BY <2>1 DEF Typed, TurnOK
  <2> QED BY <2>1, <2>3, <2>4
<1>3. /\ readAsked[c] \in Question /\ Sound(readAsked[c])
      /\ readAsked[c].by \in strayed \/ readAsked[c].by.chat = c
  BY <1>1, Questions DEF Questioned
<1>4. ASSUME asked' # None PROVE SoundAfter(asked')
  <2>1. asked' = [readAsked[c] EXCEPT !.misses = @ + 1] /\ readAsked[c].misses + 1 < 2
    <3>1. readAsked[c].misses \in Nat
      BY <1>3, Questions
    <3> QED BY <1>1, <1>4, <3>1
  <2>2. /\ asked' \in Question /\ asked'.by = readAsked[c].by
        /\ asked'.misses = readAsked[c].misses + 1
    BY <1>3, <2>1 DEF Question
  <2>3. ASSUME asked'.by \notin strayed'
        PROVE  /\ \A i \in DOMAIN folded' : folded'[i].q.by # asked'.by
               /\ passedBy'[asked'.by.chat] <= asked'.misses + faults'
    <3>1. readAsked[c].by \notin strayed /\ readAsked[c].by.chat = c
      BY <1>1, <1>3, <2>2, <2>3
    <3>2. /\ \A i \in DOMAIN folded : folded[i].q.by # readAsked[c].by
          /\ passedBy[c] <= readAsked[c].misses + faults
      BY <1>3, <3>1 DEF Sound
    <3>3. passedBy'[c] = passedBy[c] + 1
      BY <1>1, <1>4, <2>2, <3>1 DEF Typed, UserOK
    <3>4. passedBy[c] \in Nat /\ readAsked[c].misses \in Nat /\ faults \in Nat /\ faults' = faults
      BY <1>1, <1>3, Questions
    <3>5. passedBy'[c] <= asked'.misses + faults'
      BY <2>2, <3>2, <3>3, <3>4
    <3> QED BY <1>1, <2>2, <3>1, <3>2, <3>5
  <2>4. Past(asked'.by)
    BY <1>3, <2>2 DEF Sound, Past
  <2> QED BY <1>2, <2>2, <2>3, <2>4, SoundStays
<1> QED BY <1>1, <1>2, <1>4, UnfoldedStep

LEMMA ExpireQuestioned ==
  ASSUME Typed, Questioned, NEW c \in Chats, Expire(c)
  PROVE  Questioned'
<1>1. /\ StartTask(c, ThisTask(c)) /\ PassesBy(c, None) /\ asked' = None
      /\ UNCHANGED <<faults, folded, strayed>>
  BY DEF Expire
<1>2. Onward(c) /\ pc'[c] = "agent"
  BY <1>1, StartTaskOnward
<1> QED BY <1>1, <1>2, UnfoldedStep

LEMMA AskQuestioned ==
  ASSUME Typed, Questioned, NEW c \in Chats, NEW n \in Counts, NEW topic \in Topics,
         Ask(c, n, topic) \/ \E pick \in 1 .. 4 : AskAndAnswer(c, n, topic, pick)
  PROVE  Questioned'
<1>1. /\ PutQuestion(c, n, topic) /\ UNCHANGED <<turns, folded, strayed>> /\ pc[c] = "agent"
      /\ faults' = faults \/ faults' = faults + 1
      /\ \/ UNCHANGED <<pc, readAsked>>
         \/ /\ pc' = [pc EXCEPT ![c] = "idle"]
            /\ readAsked' = [readAsked EXCEPT ![c] = None]
  BY Zenon DEF Ask, AskAndAnswer, ReadFails, EndTurn, Goto, localVars
<1>2. passedBy' = [passedBy EXCEPT ![c] = 0]
  BY <1>1 DEF PutQuestion
<1>3. Onward(c)
  BY <1>1, <1>2, WritesOnward
<1>4. pc'[c] \in {"idle", "agent"}
  BY <1>1 DEF Typed, TurnOK
<1> QED BY <1>1, <1>3, <1>4, AsksAnew

\* A turn that dies leaves the question, clears it, or has put a new one.
LEMMA CrashQuestioned ==
  ASSUME Typed, Questioned, NEW c \in Chats, CrashAfterClearing(c) \/ CrashBeforeShowing(c)
  PROVE  Questioned'
<1>1. Fails(c)
  BY DEF CrashAfterClearing, CrashBeforeShowing
<1>2. /\ UNCHANGED <<turns, folded, strayed>> /\ faults' = faults + 1
      /\ pc' = [pc EXCEPT ![c] = "idle"] /\ readAsked' = [readAsked EXCEPT ![c] = None]
  BY <1>1 DEF Fails, EndTurn, Goto
<1>3. \/ UNCHANGED <<asked, passedBy>>
      \/ asked' = None /\ PassesBy(c, None)
      \/ \E n \in Counts, topic \in Topics : PutQuestion(c, n, topic)
  BY Zenon DEF CrashAfterClearing, CrashBeforeShowing
<1>4. passedBy' = passedBy \/ \E n : passedBy' = [passedBy EXCEPT ![c] = n]
  <2>1. CASE \E n \in Counts, topic \in Topics : PutQuestion(c, n, topic)
    BY <2>1 DEF PutQuestion
  <2> QED BY <1>3, <2>1, PassesByWrites
<1>5. Onward(c)
  BY <1>2, <1>4, WritesOnward
<1>6. pc'[c] = "idle"
  BY <1>2 DEF Typed, TurnOK
<1>7. CASE UNCHANGED <<asked, passedBy>>
  BY <1>2, <1>5, <1>6, <1>7, LeftAlone
<1>8. CASE asked' = None
  BY <1>2, <1>5, <1>6, <1>8, UnfoldedStep
<1>9. CASE \E n \in Counts, topic \in Topics : PutQuestion(c, n, topic)
  BY <1>2, <1>5, <1>6, <1>9, AsksAnew
<1> QED BY <1>3, <1>7, <1>8, <1>9

\* Only a reply that hits changes the history or the answers, only a read strays.
LEMMA HistorySteps ==
  ASSUME NEW c \in Chats,
         \/ \E r \in Replies : Say(c, r)
         \/ Approval(c)
         \/ MemoryCommand(c) \/ NoMemoryCommand(c)
         \/ Onboarding(c) \/ Clarification(c) \/ Agent(c)
         \/ Crash(c) \/ CrashAmidOnboarding(c)
         \/ CrashAfterClearing(c) \/ CrashBeforeShowing(c)
  PROVE  UNCHANGED <<picks, folded, strayed>> \/ Fold(c) \/ ReadAsked(c)
<1> DEFINE Rest == UNCHANGED <<picks, folded, strayed>>
<1>1. CASE \E r \in Replies : Say(c, r)
  BY <1>1, Zenon DEF Say, kvVars, historyVars
<1>2. CASE Approval(c)
  BY <1>2, Zenon DEF Approval, NothingHeld, ReadHeld, Remind, Deny, Accept, Consent, ReadGrants,
     SaveGrants, RunTaken, Offer, Pass, kvVars, userVars, historyVars
<1>3. CASE MemoryCommand(c) \/ NoMemoryCommand(c)
  BY <1>3, Zenon DEF MemoryCommand, NoMemoryCommand, Pass, kvVars, userVars, historyVars
<1>4. ASSUME NEW st, NEW doc, Greet(c, st, doc) \/ AskNameAgain(c, st, doc)
                              \/ TakeName(c, st, doc) \/ PassOnboarding(c, st, doc)
      PROVE  Rest
  BY <1>4, Zenon DEF Greet, AskNameAgain, TakeName, PassOnboarding, Pass, kvVars, userVars,
     historyVars
<1>5. CASE Onboarding(c)
  BY <1>4, <1>5, Zenon DEF Onboarding, ResetPersona, historyVars
<1>6. CASE Clarification(c)
  BY <1>6, Zenon DEF Clarification, NothingAsked, Expire, Miss, kvVars
<1>7. CASE Agent(c)
  BY <1>7, Zenon DEF Agent, Answer, HoldCommand, Offer, Ask, AskAndAnswer, kvVars, historyVars
<1>8. CASE Crash(c) \/ CrashAmidOnboarding(c) \/ CrashAfterClearing(c) \/ CrashBeforeShowing(c)
  BY <1>8, Zenon DEF Crash, CrashAmidOnboarding, CrashAfterClearing, CrashBeforeShowing, Fails, kvVars
<1> QED BY <1>1, <1>2, <1>3, <1>5, <1>6, <1>7, <1>8

LEMMA NextQuestioned ==
  Typed /\ Questioned /\ FoldedOnce /\ [Next]_vars => Questioned' /\ FoldedOnce'
<1> SUFFICES ASSUME Typed, Questioned, FoldedOnce, [Next]_vars PROVE Questioned' /\ FoldedOnce'
  OBVIOUS
<1>1. CASE UNCHANGED vars
  BY <1>1 DEF vars, kvVars, localVars, userVars, historyVars, Questioned, Sound, Past, FoldedOnce
<1>2. CASE Next
  <2>1. PICK c \in Chats :
          \/ \E r \in Replies : Say(c, r)
          \/ Approval(c)
          \/ MemoryCommand(c) \/ NoMemoryCommand(c)
          \/ Onboarding(c) \/ Clarification(c) \/ Agent(c)
          \/ Crash(c) \/ CrashAmidOnboarding(c)
          \/ CrashAfterClearing(c) \/ CrashBeforeShowing(c)
    BY <1>2, Zenon DEF Next
  <2>2. Questioned'
    BY <2>1, SayQuestioned, OtherStepsQuestioned, NothingAskedQuestioned, ReadAskedQuestioned,
       ExpireQuestioned, FoldQuestioned, MissQuestioned, AskQuestioned, CrashQuestioned, Zenon
    DEF Clarification, Agent
  <2>3. UNCHANGED <<picks, folded, strayed>> \/ Fold(c) \/ ReadAsked(c)
    BY <2>1, HistorySteps
  <2>4. CASE UNCHANGED <<picks, folded, strayed>> \/ ReadAsked(c)
    <3>1. folded' = folded
      BY <2>4 DEF ReadAsked
    <3>2. strayed' \in {strayed, strayed \cup {asked.by}}
      BY <2>4 DEF ReadAsked
    <3>3. strayed \subseteq strayed'
      BY <3>2
    <3> QED BY <2>2, <3>1, <3>3 DEF FoldedOnce
  <2>5. CASE Fold(c)
    BY <2>5, FoldQuestioned
  <2> QED BY <2>2, <2>3, <2>4, <2>5
<1> QED BY <1>1, <1>2

LEMMA InitQuestioned == Init => Questioned /\ FoldedOnce
<1> SUFFICES ASSUME Init PROVE Questioned /\ FoldedOnce
  OBVIOUS
<1>1. asked = None /\ folded = << >> /\ \A c \in Chats : pc[c] = "idle"
  BY DEF Init
<1>2. \A i : i \notin DOMAIN folded
  BY <1>1
<1> QED BY <1>1, <1>2 DEF Questioned, FoldedOnce

\* A question is folded into a task at most once, for any number of chats on the one
\* key of the app, unless another chat than the one that asked has read it: the key is
\* cleared before the task starts, and no later question is that one
\* (clarify.py:15 and my_claw_tool.py:140-149).
THEOREM QuestionsFoldOnce == Spec => []FoldedOnce
BY InitIInv, NextKeepsIInv, InitTyped, NextTyped, InitQuestioned, NextQuestioned, PTL DEF Spec

\* A user who changes the subject is rid of the question after two messages that pick
\* no option, and one more for every failure, whatever the other phases and the other
\* chats did, as long as none of them has read it (my_claw_tool.py:150-155).
THEOREM ChangingTheSubject == Spec => []QuestionLetGo
<1>1. Typed /\ Questioned => QuestionLetGo
  <2> SUFFICES ASSUME Typed, Questioned, asked # None, asked.by \notin strayed
               PROVE  passedBy[asked.by.chat] <= 1 + faults
    BY DEF QuestionLetGo
  <2>1. /\ asked \in Question /\ asked.misses \in 0 .. 1 /\ asked.by.chat \in Chats
        /\ passedBy[asked.by.chat] \in Nat /\ faults \in Nat
    BY Questions
  <2>2. passedBy[asked.by.chat] <= asked.misses + faults
    BY DEF Questioned, Sound
  <2> QED BY <2>1, <2>2
<1> QED
  BY <1>1, InitIInv, NextKeepsIInv, InitTyped, NextTyped, InitQuestioned, NextQuestioned, PTL
  DEF Spec

-----------------------------------------------------------------------------
(* The history of a user's choices, and the questions that user answered.  *)

\* An answer a user gave, kept as a choice.
KeptAs(entry, u, choice) ==
    /\ UserOf[entry.chat] = u
    /\ entry.q.topic = choice.topic /\ entry.pick = choice.pick

\* Every choice on the list is an answer of u of its own.
BackedBy(list, u, entries) ==
    \E f \in [DOMAIN list -> DOMAIN entries] :
        /\ \A i, j \in DOMAIN list : f[i] = f[j] => i = j
        /\ \A i \in DOMAIN list : KeptAs(entries[f[i]], u, list[i])

Backing == \A u \in Users : BackedBy(picks[u], u, folded)

LEMMA LastEntry ==
  ASSUME NEW S, NEW entries \in Seq(S), NEW entry \in S
  PROVE  /\ Len(entries) + 1 \in DOMAIN Append(entries, entry)
         /\ Append(entries, entry)[Len(entries) + 1] = entry
         /\ \A i \in DOMAIN entries : /\ i \in DOMAIN Append(entries, entry)
                                      /\ Append(entries, entry)[i] = entries[i]
                                      /\ i # Len(entries) + 1
OBVIOUS

LEMMA BackedStays ==
  ASSUME NEW list, NEW u, NEW entries \in Seq(Folding), NEW entry \in Folding,
         BackedBy(list, u, entries)
  PROVE  BackedBy(list, u, Append(entries, entry))
<1> DEFINE more == Append(entries, entry)
<1>1. PICK f \in [DOMAIN list -> DOMAIN entries] :
        /\ \A i, j \in DOMAIN list : f[i] = f[j] => i = j
        /\ \A i \in DOMAIN list : KeptAs(entries[f[i]], u, list[i])
  BY DEF BackedBy
<1>2. \A i \in DOMAIN entries : i \in DOMAIN more /\ more[i] = entries[i]
  BY LastEntry
<1> HIDE DEF more
<1>3. f \in [DOMAIN list -> DOMAIN more]
  BY <1>2
<1>4. \A i \in DOMAIN list : KeptAs(more[f[i]], u, list[i])
  BY <1>1, <1>2
<1>5. BackedBy(list, u, more)
  BY <1>1, <1>3, <1>4 DEF BackedBy
<1> QED BY <1>5 DEF more

\* What is remembered is backed by what backed it before, and by the new answer.
LEMMA BackedRemembers ==
  ASSUME NEW list \in Seq(Choice), NEW choice \in Choice, NEW u,
         NEW entries \in Seq(Folding), NEW entry \in Folding,
         KeptAs(entry, u, choice), BackedBy(list, u, entries)
  PROVE  BackedBy(Remember(list, choice), u, Append(entries, entry))
<1> DEFINE more == Append(entries, entry)
           last == Len(entries) + 1
           kept == Remember(list, choice)
<1>1. PICK f \in [DOMAIN list -> DOMAIN entries] :
        /\ \A i, j \in DOMAIN list : f[i] = f[j] => i = j
        /\ \A i \in DOMAIN list : KeptAs(entries[f[i]], u, list[i])
  BY DEF BackedBy
<1>2. /\ last \in DOMAIN more /\ more[last] = entry
      /\ \A i \in DOMAIN entries : i \in DOMAIN more /\ more[i] = entries[i] /\ i # last
  BY LastEntry
<1>3. PICK lost \in Nat : \A i \in DOMAIN kept :
        \/ i + lost \in DOMAIN list /\ kept[i] = list[i + lost]
        \/ i + lost = Len(list) + 1 /\ kept[i] = choice
  BY Remembered
<1>4. DOMAIN list \subseteq Nat /\ Len(list) \in Nat /\ Len(list) + 1 \notin DOMAIN list
  OBVIOUS
<1>5. DOMAIN kept \subseteq Nat
  <2>1. kept \in Seq(Choice)
    BY Remembered
  <2> HIDE DEF kept
  <2> QED BY <2>1
<1> HIDE DEF more, last, kept
<1> DEFINE g == [i \in DOMAIN kept |-> IF i + lost \in DOMAIN list THEN f[i + lost] ELSE last]
<1>6. g \in [DOMAIN kept -> DOMAIN more]
  BY <1>1, <1>2
<1>7. ASSUME NEW i \in DOMAIN kept PROVE KeptAs(more[g[i]], u, kept[i])
  BY <1>1, <1>2, <1>3, <1>4
<1>8. ASSUME NEW i \in DOMAIN kept, NEW j \in DOMAIN kept, g[i] = g[j] PROVE i = j
  <2>1. CASE i + lost \in DOMAIN list /\ j + lost \in DOMAIN list
    <3>1. f[i + lost] = f[j + lost]
      BY <1>8, <2>1
    <3>2. i + lost = j + lost
      BY <1>1, <2>1, <3>1
    <3> QED BY <1>5, <3>2
  <2>2. CASE i + lost \notin DOMAIN list /\ j + lost \notin DOMAIN list
    <3>1. i + lost = j + lost
      BY <1>3, <2>2
    <3> QED BY <1>5, <3>1
  <2>3. CASE i + lost \in DOMAIN list /\ j + lost \notin DOMAIN list
    <3>1. g[i] \in DOMAIN entries /\ g[j] = last
      BY <1>1, <2>3
    <3> QED BY <1>2, <1>8, <3>1
  <2>4. CASE i + lost \notin DOMAIN list /\ j + lost \in DOMAIN list
    <3>1. g[j] \in DOMAIN entries /\ g[i] = last
      BY <1>1, <2>4
    <3> QED BY <1>2, <1>8, <3>1
  <2> QED BY <2>1, <2>2, <2>3, <2>4
<1> HIDE DEF g
<1>9. BackedBy(kept, u, more)
  BY <1>6, <1>7, <1>8 DEF BackedBy
<1> QED BY <1>9 DEF kept, more

LEMMA BackedAnew ==
  ASSUME NEW choice \in Choice, NEW u, NEW entries \in Seq(Folding), NEW entry \in Folding,
         KeptAs(entry, u, choice)
  PROVE  BackedBy(<<choice>>, u, Append(entries, entry))
<1> DEFINE more == Append(entries, entry)
           last == Len(entries) + 1
           list == <<choice>>
           g == [i \in DOMAIN list |-> last]
<1>1. last \in DOMAIN more /\ more[last] = entry
  BY LastEntry
<1>2. \A i \in DOMAIN list : i = 1 /\ list[i] = choice
  OBVIOUS
<1> HIDE DEF more, last, list
<1>3. /\ g \in [DOMAIN list -> DOMAIN more]
      /\ \A i, j \in DOMAIN list : g[i] = g[j] => i = j
      /\ \A i \in DOMAIN list : KeptAs(more[g[i]], u, list[i])
  BY <1>1, <1>2
<1> HIDE DEF g
<1>4. BackedBy(list, u, more)
  BY <1>3 DEF BackedBy
<1> QED BY <1>4 DEF list, more

LEMMA FoldBacked ==
  ASSUME Typed, Backing, NEW c \in Chats, Fold(c)
  PROVE  Backing'
<1> DEFINE entry == [q |-> readAsked[c], chat |-> c, pick |-> reply[c].pick]
<1>1. pc[c] = "match" /\ Hits(c) /\ folded' = Append(folded, entry)
  BY DEF Fold
<1>2. picks' \in {picks, [picks EXCEPT ![UserOf[c]] = Remember(@, Chosen(c))],
                  [picks EXCEPT ![UserOf[c]] = <<Chosen(c)>>]}
  BY DEF Fold
<1>3. Chosen(c) \in Choice /\ entry \in Folding
  BY <1>1, Picked
<1>4. KeptAs(entry, UserOf[c], Chosen(c))
  BY DEF KeptAs, Chosen
<1>5. folded \in Seq(Folding) /\ picks \in [Users -> Seq(Choice)]
  BY DEF Typed, StoreOK, UserOK
<1> HIDE DEF entry
<1>6. ASSUME NEW u \in Users PROVE BackedBy(picks'[u], u, folded')
  <2>1. BackedBy(picks[u], u, folded) /\ picks[u] \in Seq(Choice)
    BY <1>5 DEF Backing
  <2>2. \/ picks'[u] = picks[u]
        \/ u = UserOf[c] /\ picks'[u] = Remember(picks[u], Chosen(c))
        \/ u = UserOf[c] /\ picks'[u] = <<Chosen(c)>>
    BY <1>2, <1>5
  <2>3. CASE picks'[u] = picks[u]
    BY <1>1, <1>3, <1>5, <2>1, <2>3, BackedStays
  <2>4. CASE u = UserOf[c] /\ picks'[u] = Remember(picks[u], Chosen(c))
    <3>1. BackedBy(Remember(picks[u], Chosen(c)), u, Append(folded, entry))
      BY <1>3, <1>4, <1>5, <2>1, <2>4, BackedRemembers
    <3> QED BY <1>1, <2>4, <3>1
  <2>5. CASE u = UserOf[c] /\ picks'[u] = <<Chosen(c)>>
    <3>1. BackedBy(<<Chosen(c)>>, u, Append(folded, entry))
      BY <1>3, <1>4, <1>5, <2>5, BackedAnew
    <3> QED BY <1>1, <2>5, <3>1
  <2> QED BY <2>2, <2>3, <2>4, <2>5
<1> QED BY <1>6 DEF Backing

LEMMA NextBacking == Typed /\ Backing /\ [Next]_vars => Backing'
<1> SUFFICES ASSUME Typed, Backing, [Next]_vars PROVE Backing'
  OBVIOUS
<1>1. CASE UNCHANGED <<picks, folded>>
  BY <1>1 DEF Backing
<1>2. CASE UNCHANGED vars
  BY <1>1, <1>2 DEF vars, kvVars, userVars, historyVars
<1>3. CASE Next
  <2>1. PICK c \in Chats : UNCHANGED <<picks, folded, strayed>> \/ Fold(c) \/ ReadAsked(c)
    BY <1>3, HistorySteps, Zenon DEF Next
  <2>2. CASE UNCHANGED <<picks, folded, strayed>>
    BY <1>1, <2>2
  <2>3. CASE ReadAsked(c)
    BY <1>1, <2>3 DEF ReadAsked, kvVars
  <2> QED BY <2>1, <2>2, <2>3, FoldBacked
<1> QED BY <1>2, <1>3

LEMMA InitBacking == Init => Backing
<1> SUFFICES ASSUME Init, NEW u \in Users PROVE BackedBy(picks[u], u, folded)
  BY DEF Backing
<1>1. picks[u] = << >> /\ folded = << >>
  BY DEF Init
<1>2. DOMAIN picks[u] = {}
  BY <1>1
<1> DEFINE f == [i \in DOMAIN picks[u] |-> i]
<1>3. f \in [DOMAIN picks[u] -> DOMAIN folded]
  BY <1>2
<1> QED BY <1>2, <1>3 DEF BackedBy

\* A question is answered on behalf of a user only with a position which that user
\* chose at least twice in answer to similar questions and which is the one the code
\* takes, whatever was lost of the history, for any chats, topics and length of the
\* history (clarify.py:143-168, kernel.py:163-178).
THEOREM AnsweredByPrecedent == Spec => AnsweredAsChosen
<1>1. Typed /\ Backing /\ [Next]_vars =>
        [\A c \in Chats, n \in Counts, topic \in Topics, pick \in 1 .. 4 :
           AskAndAnswer(c, n, topic, pick) =>
               /\ pick <= n
               /\ Cardinality({i \in DOMAIN folded : /\ UserOf[folded[i].chat] = UserOf[c]
                                                    /\ <<folded[i].q.topic, topic>> \in Similar
                                                    /\ folded[i].pick = pick}) >= 2]_vars
  <2> SUFFICES ASSUME Typed, Backing,
                      NEW c \in Chats, NEW n \in Counts, NEW topic \in Topics,
                      NEW pick \in 1 .. 4, AskAndAnswer(c, n, topic, pick)
               PROVE  /\ pick <= n
                      /\ Cardinality({i \in DOMAIN folded : /\ UserOf[folded[i].chat] = UserOf[c]
                                                 /\ <<folded[i].q.topic, topic>> \in Similar
                                                 /\ folded[i].pick = pick}) >= 2
    OBVIOUS
  <2> DEFINE list == picks[UserOf[c]]
             Answers == {i \in DOMAIN folded : /\ UserOf[folded[i].chat] = UserOf[c]
                                               /\ <<folded[i].q.topic, topic>> \in Similar
                                               /\ folded[i].pick = pick}
  <2>1. UserOf[c] \in Users /\ n \in 2 .. 4
    BY PreflightConstants
  <2>2. /\ pick \in 1 .. n
        /\ \E i, j \in DOMAIN list :
              /\ i # j
              /\ \A k \in {i, j} : <<list[k].topic, topic>> \in Similar /\ list[k].pick = pick
    <3>1. pick \in Repeated(c, n, topic)
      BY DEF AskAndAnswer, AutoPick
    <3> QED BY <3>1 DEF Repeated, Alike, PickAt
  <2>3. PICK i, j \in DOMAIN list :
          /\ i # j
          /\ \A k \in {i, j} : <<list[k].topic, topic>> \in Similar /\ list[k].pick = pick
    BY <2>2
  <2>4. PICK f \in [DOMAIN list -> DOMAIN folded] :
          /\ \A k, l \in DOMAIN list : f[k] = f[l] => k = l
          /\ \A k \in DOMAIN list : KeptAs(folded[f[k]], UserOf[c], list[k])
    BY <2>1 DEF Backing, BackedBy
  <2>5. {f[i], f[j]} \subseteq Answers /\ f[i] # f[j]
    BY <2>3, <2>4 DEF KeptAs
  <2>6. IsFiniteSet(Answers)
    <3>1. DOMAIN folded = 1 .. Len(folded) /\ Len(folded) \in Nat
      <4>1. folded \in Seq(Folding)
        BY DEF Typed, UserOK
      <4> QED BY <4>1
    <3>2. IsFiniteSet(1 .. Len(folded))
      <4>1. \A k \in 1 .. Len(folded) : k <= Len(folded)
        BY <3>1
      <4>2. 1 .. Len(folded) \in SUBSET Nat
        BY <3>1
      <4> QED BY <3>1, <4>1, <4>2, FS_BoundedSetOfNaturals
    <3>3. Answers \subseteq DOMAIN folded
      OBVIOUS
    <3> HIDE DEF Answers, list
    <3> QED BY <3>1, <3>2, <3>3, FS_Subset
  <2> HIDE DEF Answers, list
  <2>7. IsFiniteSet({f[i], f[j]}) /\ Cardinality({f[i], f[j]}) = 2
    <3>1. IsFiniteSet({f[i]}) /\ Cardinality({f[i]}) = 1
      BY FS_Singleton
    <3>2. {f[i], f[j]} = {f[i]} \cup {f[j]} /\ f[j] \notin {f[i]}
      BY <2>5
    <3>3. IsFiniteSet({f[i]} \cup {f[j]}) /\ Cardinality({f[i]} \cup {f[j]}) = Cardinality({f[i]}) + 1
      BY <3>1, <3>2, FS_AddElement
    <3> QED BY <3>1, <3>2, <3>3
  <2>8. Cardinality(Answers) >= 2
    <3>1. Cardinality({f[i], f[j]}) <= Cardinality(Answers)
      BY <2>5, <2>6, FS_Subset
    <3>2. Cardinality(Answers) \in Nat
      BY <2>6, FS_CardinalityType
    <3> QED BY <2>7, <3>1, <3>2
  <2>9. pick <= n
    BY <2>1, <2>2
  <2> QED BY <2>8, <2>9 DEF Answers
<1> QED
  BY <1>1, InitIInv, NextKeepsIInv, InitTyped, NextTyped, InitBacking, NextBacking, PTL
  DEF Spec, AnsweredAsChosen
=============================================================================
