------------------------------ MODULE Records ------------------------------
(***************************************************************************)
(* What a turn records of itself: the history of its conversation, from    *)
(* which the next turn replays (core/context.py), and the digest of the    *)
(* day, a file per user, of which a turn reads today's and yesterday's     *)
(* (core/memory/service.py).  Both are read and written back at the end of *)
(* a turn; old digests are collected once a day.                           *)
(*                                                                         *)
(* Workers carry out turns; two at a time may belong to one conversation,  *)
(* and two conversations to one user.  A text is known by the turn it is   *)
(* of; what is cut off within a text is left out.                          *)
(***************************************************************************)
EXTENDS Naturals, Sequences, FiniteSets, SequencesExt

CONSTANTS
    Workers,       \* each carries out one turn at a time
    Convs,         \* conversations
    Nameless,      \* those that have no id: the workflow runs of a user
    UserOf,        \* the user of a conversation
    Recall,        \* memory_turns
    HistoryTurns,  \* turns a history keeps
    DayCap,        \* turns that fit in MAX_DAY_CHARS
    PromptCap,     \* turns that fit in max_chars of recent_context
    KeepDays,      \* KEEP_DAYS
    Horizon,       \* KEEP_DAYS * 12
    FirstDay,      \* the day on which a behaviour begins
    LastDay,       \* bound: the last day
    MaxTurns,      \* bound: turns per worker
    MaxFaults,     \* bound: reads and writes that fail, processes that die
    None,
    Old            \* a turn of an earlier day

Users == {UserOf[c] : c \in Convs}
Turns == (Workers \X (1 .. MaxTurns)) \cup {Old}
Days == 0 .. LastDay

ASSUME RecordsConstants ==
    /\ Nameless \subseteq Convs /\ DOMAIN UserOf = Convs
    /\ None \notin Convs \cup Users \cup Days
    /\ {Recall, HistoryTurns, DayCap, PromptCap} \subseteq Nat \ {0}
    /\ PromptCap <= DayCap
    /\ KeepDays \in Nat /\ KeepDays > 1
    /\ Horizon \in Nat /\ Horizon > KeepDays
    /\ FirstDay \in Nat /\ LastDay \in Nat /\ Horizon <= FirstDay + 1 /\ FirstDay <= LastDay
    /\ MaxTurns \in Nat /\ MaxFaults \in Nat

VARIABLES
    \* in the KV storage
    history,   \* of each conversation
    digest,    \* of each user and day; empty: none, or collected
    marker,    \* the day of the last collection, one for all users of the app
    today,
    \* the turn in progress of each worker
    pc, turns,
    conv,      \* its conversation
    opening,   \* what was replayed, as pairs of a role and a turn, while the agent runs
    recalled,  \* the turns of the digests in its prompt, as long
    read,      \* the history, or the digest, as it was read
    readDay,   \* the day of that digest, or of the collection
    offset,    \* how many days back the collection has come
    faults,
    \* history
    began,     \* the day the turn began
    outdated,  \* what it has read has been written since, or the read failed
    told,      \* the turns saved, of each conversation
    logged,    \* the turns saved, of each user and day
    torn,      \* conversations, and users with a day, written over what was outdated
    spared,    \* users with a day whose removal failed
    collector  \* the user of the last collection

storeVars == <<history, digest, marker>>
localVars == <<conv, opening, recalled, read, readDay, offset, began, outdated>>
logVars == <<told, logged, torn>>
gcVars == <<spared, collector>>
vars == <<storeVars, today, pc, turns, localVars, faults, logVars, gcVars>>

\* Some users have digests that are due to be collected.
Init ==
    /\ history = [c \in Convs |-> << >>]
    /\ digest \in {[u \in Users |-> [d \in Days |-> IF d + KeepDays <= FirstDay /\ u \in some
                                                    THEN <<Old>> ELSE << >>]] :
                       some \in SUBSET Users}
    /\ marker = None
    /\ today = FirstDay
    /\ pc = [w \in Workers |-> "idle"] /\ turns = [w \in Workers |-> 0]
    /\ conv = [w \in Workers |-> None]
    /\ opening = [w \in Workers |-> << >>] /\ recalled = [w \in Workers |-> << >>]
    /\ read = [w \in Workers |-> << >>]
    /\ readDay = [w \in Workers |-> 0] /\ offset = [w \in Workers |-> 0]
    /\ faults = 0
    /\ began = [w \in Workers |-> 0] /\ outdated = [w \in Workers |-> FALSE]
    /\ told = history /\ logged = digest
    /\ torn = {}
    /\ spared = {} /\ collector = None

Fault == faults < MaxFaults /\ faults' = faults + 1
Busy(w) == pc[w] # "idle"
Goto(w, phase) == pc' = [pc EXCEPT ![w] = phase]
User(w) == UserOf[conv[w]]
Turn(w) == <<w, turns[w]>>
LastOf(s, n) == IF Len(s) <= n THEN s ELSE SubSeq(s, Len(s) - n + 1, Len(s))
FirstOf(s, n) == IF Len(s) <= n THEN s ELSE SubSeq(s, 1, n)

\* What the readers have read gets old when another one writes it.
Overtake(w, readers) ==
    outdated' = [x \in Workers |-> x # w /\ (outdated[x] \/ x \in readers)]

AgentEnds(w) ==
    /\ opening' = [opening EXCEPT ![w] = << >>]
    /\ recalled' = [recalled EXCEPT ![w] = << >>]

\* The turn is over, one way or another.
Leave(w) ==
    /\ Goto(w, "idle")
    /\ conv' = [conv EXCEPT ![w] = None]
    /\ AgentEnds(w)
    /\ read' = [read EXCEPT ![w] = << >>]
    /\ readDay' = [readDay EXCEPT ![w] = 0]
    /\ offset' = [offset EXCEPT ![w] = 0]
    /\ began' = [began EXCEPT ![w] = 0]
    /\ outdated' = [outdated EXCEPT ![w] = FALSE]

\* Midnight.  A turn takes minutes: it sees at most one.
NextDay ==
    /\ today < LastDay
    /\ \A w \in Workers : Busy(w) => began[w] = today
    /\ today' = today + 1
    /\ UNCHANGED <<storeVars, pc, turns, localVars, faults, logVars, gcVars>>

-----------------------------------------------------------------------------
(* The beginning of a turn, my_claw_tool.py:171-195 and service.py:58-69.  *)

\* Texts by their position: even ones are the user's, odd ones the assistant's.
Replay(ts) == [i \in DOMAIN ts |-> <<IF i % 2 = 1 THEN "user" ELSE "assistant", ts[i]>>]

\* Mutant of Context: the day before comes first.
ContextYesterdayFirst(now, before) == FirstOf(before \o now, PromptCap)

\* Today's digest and yesterday's, up to a size.
Context(now, before) == FirstOf(now \o before, PromptCap)

\* A read that fails answers nothing.
MayRead(value) == {<<value, 0>>, << << >>, 1 >>}

Begin(w, c) ==
    /\ pc[w] = "idle" /\ turns[w] < MaxTurns
    /\ turns' = [turns EXCEPT ![w] = @ + 1]
    /\ conv' = [conv EXCEPT ![w] = c]
    /\ \E h \in IF c \in Nameless THEN {<< << >>, 0 >>} ELSE MayRead(history[c]),
          now \in MayRead(digest[UserOf[c]][today]),
          before \in MayRead(digest[UserOf[c]][today - 1]) :
           /\ faults' = faults + h[2] + now[2] + before[2] /\ faults' <= MaxFaults
           /\ opening' = [opening EXCEPT ![w] = Replay(LastOf(h[1], Recall))]
           /\ recalled' = [recalled EXCEPT ![w] = Context(now[1], before[1])]
    /\ began' = [began EXCEPT ![w] = today]
    /\ Goto(w, "agent")
    /\ UNCHANGED <<storeVars, today, read, readDay, offset, outdated, logVars, gcVars>>

-----------------------------------------------------------------------------
(* The history, context.py:140-153.                                        *)

LoadHistory(w) ==
    /\ pc[w] = "agent" /\ conv[w] \notin Nameless
    /\ \E h \in MayRead(history[conv[w]]) :
           /\ faults' = faults + h[2] /\ faults' <= MaxFaults
           /\ read' = [read EXCEPT ![w] = h[1]]
           /\ outdated' = [outdated EXCEPT ![w] = h[2] = 1]
    /\ AgentEnds(w)
    /\ Goto(w, "history")
    /\ UNCHANGED <<storeVars, today, turns, conv, readDay, offset, began, logVars, gcVars>>

\* Mutant of Extended: nothing is cut off.
ExtendedWhole(ts, t) == Append(ts, t)

\* Mutant of Extended: the oldest turns are kept.
ExtendedOldest(ts, t) == FirstOf(Append(ts, t), HistoryTurns)

Extended(ts, t) == LastOf(Append(ts, t), HistoryTurns)

SaveHistory(w) ==
    /\ pc[w] = "history"
    /\ LET c == conv[w] IN
       /\ history' = [history EXCEPT ![c] = Extended(read[w], Turn(w))]
       /\ told' = [told EXCEPT ![c] = Append(@, Turn(w))]
       /\ torn' = IF outdated[w] THEN torn \cup {c} ELSE torn
       /\ Overtake(w, {x \in Workers : pc[x] = "history" /\ conv[x] = c})
    /\ read' = [read EXCEPT ![w] = << >>]
    /\ Goto(w, "digest")
    /\ UNCHANGED <<digest, marker, today, turns, conv, opening, recalled, readDay, offset,
                   began, faults, logged, gcVars>>

-----------------------------------------------------------------------------
(* The digest of the day, service.py:42-49.                                *)

\* Also the first record of a turn without a conversation.
LoadDigest(w) ==
    /\ pc[w] = "digest" \/ (pc[w] = "agent" /\ conv[w] \in Nameless)
    /\ \E b \in MayRead(digest[User(w)][today]) :
           /\ faults' = faults + b[2] /\ faults' <= MaxFaults
           /\ read' = [read EXCEPT ![w] = b[1]]
           /\ outdated' = [outdated EXCEPT ![w] = b[2] = 1]
    /\ readDay' = [readDay EXCEPT ![w] = today]
    /\ AgentEnds(w)
    /\ Goto(w, "note")
    /\ UNCHANGED <<storeVars, today, turns, conv, offset, began, logVars, gcVars>>

\* Mutant of NoteDay: the day is looked up again.
NoteToday(w) == today

\* The key was made when the digest was read.
NoteDay(w) == readDay[w]

SaveDigest(w) ==
    /\ pc[w] = "note"
    /\ LET u == User(w) d == NoteDay(w) IN
       /\ digest' = [digest EXCEPT ![u][d] = FirstOf(Append(read[w], Turn(w)), DayCap)]
       /\ logged' = [logged EXCEPT ![u][readDay[w]] = Append(@, Turn(w))]
       /\ torn' = IF outdated[w] THEN torn \cup {<<u, d>>} ELSE torn
       /\ Overtake(w, {x \in Workers : pc[x] = "note" /\ User(x) = u /\ readDay[x] = d})
    /\ read' = [read EXCEPT ![w] = << >>]
    /\ readDay' = [readDay EXCEPT ![w] = 0]
    /\ Goto(w, "marker")
    /\ UNCHANGED <<history, marker, today, turns, conv, opening, recalled, offset, began,
                   faults, told, gcVars>>

-----------------------------------------------------------------------------
(* The collection of old digests, service.py:73-96.                        *)

\* At most once a day; a marker that cannot be read is not there.
ReadMarker(w) ==
    /\ pc[w] = "marker"
    /\ \/ marker = today /\ Leave(w) /\ UNCHANGED faults
       \/ /\ (marker # today /\ UNCHANGED faults) \/ (marker = today /\ Fault)
          /\ readDay' = [readDay EXCEPT ![w] = today]
          /\ offset' = [offset EXCEPT ![w] = KeepDays]
          /\ Goto(w, "collect")
          /\ UNCHANGED <<conv, opening, recalled, read, began, outdated>>
    /\ UNCHANGED <<storeVars, today, turns, logVars, gcVars>>

\* The day is counted back from the time it is now.
Expired(w) == today - offset[w]

\* One digest of the user.  A removal that fails is logged, and so is not tried again
\* before the day after.
Collect(w) ==
    /\ pc[w] = "collect" /\ offset[w] < Horizon
    /\ LET u == User(w) d == Expired(w) IN
       \/ /\ digest' = [digest EXCEPT ![u][d] = << >>]
          /\ UNCHANGED <<faults, spared>>
       \/ /\ digest[u][d] # << >> /\ Fault
          /\ spared' = spared \cup {<<u, d>>}
          /\ UNCHANGED digest
    /\ offset' = [offset EXCEPT ![w] = @ + 1]
    /\ UNCHANGED <<history, marker, today, pc, turns, conv, opening, recalled, read, readDay,
                   began, outdated, logVars, collector>>

\* Mutant of Collected: the collection stops when it begins.
CollectedAtOnce(w) == pc[w] = "collect"

Collected(w) == pc[w] = "collect" /\ offset[w] = Horizon

SetMarker(w) ==
    /\ Collected(w)
    /\ marker' = readDay[w]
    /\ collector' = User(w)
    /\ Leave(w)
    /\ UNCHANGED <<history, digest, today, turns, faults, logVars, spared>>

-----------------------------------------------------------------------------

\* A write that raises ends the records of the turn, and so does the end of its
\* process.  The steps done stay done.
GiveUp(w) ==
    /\ Busy(w) /\ Fault
    /\ Leave(w)
    /\ UNCHANGED <<storeVars, today, turns, logVars, gcVars>>

Next ==
    \/ NextDay
    \/ \E w \in Workers :
          \/ \E c \in Convs : Begin(w, c)
          \/ LoadHistory(w) \/ SaveHistory(w)
          \/ LoadDigest(w) \/ SaveDigest(w)
          \/ ReadMarker(w) \/ Collect(w) \/ SetMarker(w) \/ GiveUp(w)

Spec == Init /\ [][Next]_vars

-----------------------------------------------------------------------------
(* Properties.                                                             *)

TypeOK ==
    /\ history \in [Convs -> Seq(Turns)] /\ \A c \in Convs : Len(history[c]) <= HistoryTurns
    /\ digest \in [Users -> [Days -> Seq(Turns)]]
    /\ \A u \in Users : \A d \in Days : Len(digest[u][d]) <= DayCap
    /\ marker \in Days \cup {None} /\ today \in Days
    /\ pc \in [Workers -> {"idle", "agent", "history", "digest", "note", "marker", "collect"}]
    /\ turns \in [Workers -> 0 .. MaxTurns]
    /\ conv \in [Workers -> Convs \cup {None}]
    /\ opening \in [Workers -> Seq({"user", "assistant"} \X Turns)]
    /\ recalled \in [Workers -> Seq(Turns)]
    /\ read \in [Workers -> Seq(Turns)]
    /\ readDay \in [Workers -> Days] /\ began \in [Workers -> Days]
    /\ offset \in [Workers -> 0 .. Horizon]
    /\ faults \in 0 .. MaxFaults
    /\ outdated \in [Workers -> BOOLEAN]
    /\ told \in [Convs -> Seq(Turns)] /\ logged \in [Users -> [Days -> Seq(Turns)]]
    /\ torn \subseteq Convs \cup (Users \X Days)
    /\ spared \subseteq Users \X Days
    /\ collector \in Users \cup {None}

\* A history holds the last turns saved in its conversation, whoever died on the way,
\* unless a turn wrote over one that had read the same history, or over nothing when
\* its read failed (context.py:150-153).
HistoryIsTold ==
    \A c \in Convs \ torn : history[c] = LastOf(told[c], HistoryTurns)

\* The digest of a day holds the first turns saved on that day, also when they began
\* before midnight, or is not there, and then it was old enough to be collected
\* (service.py:42-49, 73-96).
DigestIsLogged ==
    \A u \in Users : \A d \in Days :
        \/ digest[u][d] = FirstOf(logged[u][d], DayCap)
        \/ digest[u][d] = << >> /\ d + KeepDays <= today
        \/ <<u, d>> \in torn

\* After the collection of the day, the user whose turn it was has no digest left that
\* is due, whatever the others did meanwhile, but for those whose removal failed.  The
\* other users of the app may have them all (service.py:79-95).
CollectorServed ==
    marker = today => \A d \in Days :
        d + KeepDays <= today /\ today < d + Horizon =>
            digest[collector][d] = << >> \/ <<collector, d>> \in spared

\* The prompt of a turn has what the user's turns saved today, from whatever
\* conversation, the first of them when there are more than fit, unless a read failed or
\* a write was overtaken (my_claw_tool.py:386-394, service.py:42-69).
TodayRecalled ==
    [][\A w \in Workers, c \in Convs : Begin(w, c) /\ faults' = faults =>
           LET u == UserOf[c] IN
           \/ IsPrefix(FirstOf(logged[u][today], PromptCap), recalled'[w])
           \/ <<u, today>> \in torn]_vars

-----------------------------------------------------------------------------
(* What the documentation says and the code does not keep.                 *)

\* my_claw_tool.py:171, "replay recent turns for continuity", and
\* tools/my_claw.yaml:115, "Recent turns replayed from conversation history":
\* a reply that is replayed follows the question of its turn.
RepliesFollowQuestions ==
    \A w \in Workers : \A i \in DOMAIN opening[w] :
        opening[w][i][1] = "assistant" =>
            i > 1 /\ opening[w][i - 1] = <<"user", opening[w][i][2]>>
=============================================================================
