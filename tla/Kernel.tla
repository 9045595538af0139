------------------------------- MODULE Kernel -------------------------------
(***************************************************************************)
(* One invocation of the agent: the loop of core/kernel.py, run inside the *)
(* generator of tools/my_claw_tool.py that streams its messages, persists  *)
(* the turn and hands out the files.  The model (the LLM) and the tools    *)
(* are the environment: every round and every result is a free choice.     *)
(*                                                                         *)
(* Control points `pc':                                                    *)
(*   head     top of the for loop (kernel.py:54)                           *)
(*   llm      the whole-round LLM call (kernel.py:63)                      *)
(*   tools    inside _execute_tools, one action per tool call              *)
(*   persist  the finally block of _run (my_claw_tool.py:222)              *)
(*   report   the except clause of _invoke (my_claw_tool.py:57)            *)
(*   deliver  artifacts and usage (my_claw_tool.py:239)                    *)
(*   done     the generator is exhausted                                   *)
(***************************************************************************)
EXTENDS LoopGuard, Conversation

CONSTANTS
    MaxTurns,     \* max_tool_turns                                (code: 50)
    Batches,      \* bound: the tool calls a round may make, by signature
    UnknownSigs,  \* signatures whose tool is not registered
    AskSigs,      \* ... of ask_user
    ShellSigs,    \* ... of run_command, the one tool approval applies to
    ExportSigs,   \* ... of export_file
    LoudSigs,     \* ... of tools with a progress line
    TextKinds,    \* kinds of final text the model writes
    TextSizes,    \* bound: sizes of a text, of a tool result
    ResultSizes,
    Openings      \* message lists a run starts with: replayed turns, then the query

\* A plain text; one with the syntax of a tool call; one that narrates a tool
\* round; a text of which nothing is visible, a lone closing tag; a round with no
\* text but an image, say.
AllTextKinds == {"plain", "callSyntax", "narration", "invisible", "nontext"}

ASSUME KernelConstants ==
    /\ MaxTurns \in Nat \ {0}
    /\ Batches \subseteq Seq(Sigs) \ {<< >>}
    /\ UnknownSigs \cup AskSigs \cup ShellSigs \cup ExportSigs \cup LoudSigs \subseteq Sigs
    /\ UnknownSigs \cap (AskSigs \cup ShellSigs \cup ExportSigs \cup LoudSigs) = {}
    /\ AskSigs \cap (ShellSigs \cup ExportSigs) = {} /\ ShellSigs \cap ExportSigs = {}
    /\ TextKinds \subseteq AllTextKinds
    /\ TextSizes \subseteq Nat /\ ResultSizes \subseteq Nat
    /\ Openings \subseteq Seq(Message)
    \* what is replayed of earlier turns is what was said (my_claw_tool.py:173-181)
    /\ \A opening \in Openings : \A i \in DOMAIN opening :
          opening[i].calls = {} /\ opening[i].role # "tool"

VARIABLES
    pc,
    step,       \* rounds begun (the loop variable of kernel.py:54, plus one)
    messages,   \* ctx.messages
    summary,    \* ctx.summary, by its tokens
    rounds,     \* ctx.rounds, each by its kind
    calls,      \* the tool calls of the round that are still to be executed
    guard,      \* ctx.loop_guard
    empties,    \* ctx.empty_responses
    fakes,      \* ctx.fake_tool_texts
    final,      \* ctx.final_text, by the branch that set it
    emitted,    \* ctx.final_text_emitted
    exported,   \* does ctx.artifacts hold a file
    failed,     \* an exception is unwinding
    pending,    \* messages the emitter buffers for the generator (`pending')
    shown,      \* messages the host received, in order
    saved       \* the assistant text persisted for this turn

vars == <<pc, step, messages, summary, rounds, calls, guard, empties, fakes,
          final, emitted, exported, failed, pending, shown, saved>>

-----------------------------------------------------------------------------
Call == [id : CallIds, sig : Sigs]

RoundKinds == {"tools", "empty", "fake", "final"}

\* Values of `final': none, an answer, an answer with nothing visible in it, a
\* question, a command held for approval, and the stops: deadline, repetition,
\* three empty rounds, three fake texts, round limit, "files generated" on the
\* last round.
Finals == {"", "answer", "blank", "question", "approval", "timeout", "loop",
           "empties", "fakes", "maxturns", "files"}

\* The final texts there is something to see of; each bears the name of its branch.
Closing == Finals \ {"", "blank"}

\* What the host may receive.
Shown == Closing \cup {"progress", "auto", "note", "blob", "usage", "error"}

Init ==
    /\ pc = "head" /\ step = 0
    /\ messages \in Openings
    /\ summary = 0 /\ rounds = << >> /\ calls = << >>
    /\ guard = FreshGuard
    /\ empties = 0 /\ fakes = 0
    /\ final = "" /\ emitted = FALSE /\ exported = FALSE /\ failed = FALSE
    /\ pending = << >> /\ shown = << >> /\ saved = ""

\* A yield of run_iter: _invoke drains the emitter's buffer, after anything
\* this step emitted.
YieldAfter(texts) ==
    /\ shown' = shown \o pending \o texts
    /\ pending' = << >>

\* An emission that waits in the buffer for the next yield.
Buffer(texts) ==
    /\ pending' = pending \o texts
    /\ UNCHANGED shown

-----------------------------------------------------------------------------
(* The top of the loop, kernel.py:54-61 and 113-120.                       *)

\* The for loop is exhausted; only `continue' leads here.
Exhaust ==
    /\ pc = "head" /\ step = MaxTurns
    /\ final' = IF final = "" THEN "maxturns" ELSE final
    /\ IF emitted THEN YieldAfter(<< >>) ELSE YieldAfter(<<final'>>)
    /\ emitted' = TRUE
    /\ pc' = "persist"
    /\ UNCHANGED <<step, messages, summary, rounds, calls, guard, empties, fakes,
                   exported, failed, saved>>

\* The deadline has passed; it is looked at here and nowhere else.
TimeOut ==
    /\ pc = "head" /\ step < MaxTurns
    /\ final' = "timeout"
    /\ pc' = "persist"
    /\ UNCHANGED <<step, messages, summary, rounds, calls, guard, empties, fakes,
                   emitted, exported, failed, pending, shown, saved>>

\* Mutant of BeginRound: one round too many.
BeginRoundOnceMore ==
    /\ pc = "head" /\ step <= MaxTurns
    /\ step' = step + 1
    /\ pc' = "llm"
    /\ UNCHANGED <<messages, summary, rounds, calls, guard, empties, fakes, final,
                   emitted, exported, failed, pending, shown, saved>>

\* Compaction, then on to the model.  The summariser may fail.
BeginRound ==
    /\ pc = "head" /\ step < MaxTurns
    /\ step' = step + 1
    /\ pc' = "llm"
    /\ \/ /\ ~Compacts(messages)
          /\ UNCHANGED <<messages, summary>>
       \/ /\ Compacts(messages)
          /\ summary' = summary + SummarySize
          /\ messages' = <<Plain("summary", summary')>> \o RecentTail(messages)
       \/ /\ Compacts(messages)
          /\ messages' = RecentTail(messages)
          /\ UNCHANGED summary
    /\ UNCHANGED <<rounds, calls, guard, empties, fakes, final, emitted, exported,
                   failed, pending, shown, saved>>

-----------------------------------------------------------------------------
(* The model's round, kernel.py:63-112.                                    *)

\* invoke_round raises: the loop is abandoned and _run's finally block runs.
ModelFails ==
    /\ pc = "llm"
    /\ failed' = TRUE
    /\ pc' = "persist"
    /\ UNCHANGED <<step, messages, summary, rounds, calls, guard, empties, fakes,
                   final, emitted, exported, pending, shown, saved>>

\* A round with tool calls: its message goes first (kernel.py:127-131), its
\* text is published nowhere.
ToolRound ==
    /\ pc = "llm"
    /\ \E sigs \in Batches, size \in TextSizes :
          /\ calls' = [i \in DOMAIN sigs |-> [id |-> <<step, i>>, sig |-> sigs[i]]]
          /\ messages' = Append(messages, ToolCalls({<<step, i>> : i \in DOMAIN sigs},
                                                   size, Len(sigs)))
    /\ rounds' = Append(rounds, "tools")
    /\ pc' = "tools"
    /\ UNCHANGED <<step, summary, guard, empties, fakes, final, emitted, exported,
                   failed, pending, shown, saved>>

\* Neither text nor anything else; the third one ends the run.
EmptyRound ==
    /\ pc = "llm"
    /\ rounds' = Append(rounds, "empty")
    /\ empties' = empties + 1
    /\ IF empties' < 3
       THEN /\ messages' = Append(messages, Note)
            /\ pc' = "head"
            /\ UNCHANGED final
       ELSE /\ final' = "empties"
            /\ pc' = "persist"
            /\ UNCHANGED messages
    /\ UNCHANGED <<step, summary, calls, guard, fakes, emitted, exported, failed,
                   pending, shown, saved>>

\* looks_like_fake_tool_text: call syntax always, narration only as long as the
\* messages hold no tool result to report on.
LooksFake(kind, msgs) ==
    \/ kind = "callSyntax"
    \/ kind = "narration" /\ ~HasToolResult(msgs)

\* A text that pretends to call tools.  The third one is answered for the model,
\* and this path breaks out of the loop without a yield.
FakeRound(kind) ==
    /\ pc = "llm"
    /\ LooksFake(kind, messages)
    /\ rounds' = Append(rounds, "fake")
    /\ fakes' = fakes + 1
    /\ IF fakes' < 3
       THEN /\ messages' = Append(messages, Note)
            /\ pc' = "head"
            /\ UNCHANGED <<final, emitted, pending, shown>>
       ELSE /\ final' = "fakes" /\ emitted' = TRUE
            /\ Buffer(<<"fakes">>)
            /\ pc' = "persist"
            /\ UNCHANGED messages
    /\ UNCHANGED <<step, summary, calls, guard, empties, exported, failed, saved>>

\* What the final text is: nothing, or a text of which something, or nothing, is
\* visible.
ReplyOf(kind) ==
    CASE kind = "nontext"   -> ""
      [] kind = "invisible" -> "blank"
      [] OTHER              -> "answer"

\* The final round.  Only what is visible of its text is published; it counts as
\* emitted in any case.
FinalRound(kind, size) ==
    /\ pc = "llm"
    /\ ~LooksFake(kind, messages)
    /\ rounds' = Append(rounds, "final")
    /\ messages' = Append(messages, AssistantSays(size))
    /\ final' = ReplyOf(kind)
    /\ YieldAfter(IF ReplyOf(kind) \in Closing THEN <<"answer">> ELSE << >>)
    /\ emitted' = TRUE
    /\ pc' = "persist"
    /\ UNCHANGED <<step, summary, calls, guard, empties, fakes, exported, failed, saved>>

ModelRound ==
    \/ ModelFails
    \/ ToolRound
    \/ EmptyRound
    \/ \E kind \in TextKinds : FakeRound(kind)
    \/ \E kind \in TextKinds, size \in TextSizes : FinalRound(kind, size)

-----------------------------------------------------------------------------
(* The tool calls of a round, kernel.py:124-208, one action per outcome.   *)

\* The progress line of a registered tool precedes its execution.
Progress(c) == IF c.sig \in LoudSigs THEN <<"progress">> ELSE << >>

\* Every outcome feeds exactly one tool result to the model.
Feed(c, size) == messages' = Append(messages, ToolResult(c.id, size))

\* On to the next call of the round, or out of the round.
NextCall == calls' = Tail(calls) /\ UNCHANGED <<final, emitted>>

\* Mutant of EndCalls: the calls after a forced stop are still executed.
EndCallsLater(text) == calls' = Tail(calls) /\ final' = text

\* A forced stop inside the round: the calls after this one are never executed.
EndCalls(text) == calls' = << >> /\ final' = text

Executing(c) ==
    /\ pc = "tools" /\ calls # << >> /\ c = Head(calls)
    /\ UNCHANGED <<pc, step, summary, rounds, empties, fakes, failed, shown, saved>>

\* Not in the registry: no progress line, and the guard does not see it.
UnknownTool(c) ==
    /\ Executing(c)
    /\ c.sig \in UnknownSigs
    /\ Feed(c, NoteSize)
    /\ NextCall
    /\ UNCHANGED <<guard, exported, pending>>

\* Mutant of ToolFails: the exception is logged and nothing is fed back.
ToolFailsUnanswered(c) ==
    /\ Executing(c)
    /\ c.sig \notin UnknownSigs
    /\ pending' = pending \o Progress(c)
    /\ NextCall
    /\ UNCHANGED <<messages, guard, exported>>

\* The handler, or the check of its arguments, raises: fed back to the model,
\* unseen by the guard.
ToolFails(c) ==
    /\ Executing(c)
    /\ c.sig \notin UnknownSigs
    /\ pending' = pending \o Progress(c)
    /\ Feed(c, NoteSize)
    /\ NextCall
    /\ UNCHANGED <<guard, exported>>

\* ask_user put its question down; the user is asked and the turn ends.
AsksUser(c) ==
    /\ Executing(c)
    /\ c.sig \in AskSigs
    /\ pending' = pending \o Progress(c) \o <<"question">>
    /\ Feed(c, NoteSize)
    /\ EndCalls("question")
    /\ emitted' = TRUE
    /\ UNCHANGED <<guard, exported>>

\* The clarify history already knows the answer: say so and go on.
AnswersItself(c) ==
    /\ Executing(c)
    /\ c.sig \in AskSigs
    /\ pending' = pending \o Progress(c) \o <<"auto">>
    /\ Feed(c, NoteSize)
    /\ NextCall
    /\ UNCHANGED <<guard, exported>>

\* run_command hit a sensitive executable without a grant.
NeedsApproval(c) ==
    /\ Executing(c)
    /\ c.sig \in ShellSigs
    /\ pending' = pending \o Progress(c) \o <<"approval">>
    /\ Feed(c, NoteSize)
    /\ EndCalls("approval")
    /\ emitted' = TRUE
    /\ UNCHANGED <<guard, exported>>

\* The tool returned: the guard judges the call, and a warning goes to the model
\* before the result it is about.  A tool that returned an error does so here.
ToolReturns(c, digest, size) ==
    /\ Executing(c)
    /\ c.sig \notin UnknownSigs
    /\ pending' = pending \o Progress(c)
    /\ guard' = Observe(guard, c.sig, digest)
    /\ \/ /\ ShouldStop(guard, c.sig, digest)
          /\ Feed(c, NoteSize)
          /\ EndCalls("loop")
          /\ UNCHANGED emitted
       \/ /\ ~ShouldStop(guard, c.sig, digest)
          /\ messages' = messages
                         \o (IF WarnedNow(guard, c.sig, digest) THEN <<Note>> ELSE << >>)
                         \o <<ToolResult(c.id, size)>>
          /\ NextCall
    /\ exported' \in {exported, exported \/ c.sig \in ExportSigs}

ToolStep ==
    \E c \in {calls[i] : i \in DOMAIN calls} :
        \/ UnknownTool(c)
        \/ ToolFails(c)
        \/ AsksUser(c)
        \/ AnswersItself(c)
        \/ NeedsApproval(c)
        \/ \E digest \in Digests, size \in ResultSizes : ToolReturns(c, digest, size)

\* The yield after a round of tools, and what follows it (kernel.py:67-75).
EndOfTools ==
    /\ pc = "tools" /\ calls = << >>
    /\ YieldAfter(<< >>)
    /\ \/ final # "" /\ pc' = "persist" /\ UNCHANGED final
       \/ final = "" /\ step < MaxTurns /\ pc' = "head" /\ UNCHANGED final
       \/ /\ final = "" /\ step = MaxTurns /\ pc' = "persist"
          /\ final' = IF exported THEN "files" ELSE ""
    /\ UNCHANGED <<step, messages, summary, rounds, calls, guard, empties, fakes,
                   emitted, exported, failed, saved>>

-----------------------------------------------------------------------------
(* The generator around the loop, my_claw_tool.py:219-245 and 48-62.       *)

\* Mutant of Persist: a return in the finally block swallows the exception.
PersistSwallowsFailure ==
    /\ pc = "persist"
    /\ saved' = final
    /\ Buffer(<< >>)
    /\ pc' = "deliver"
    /\ UNCHANGED <<step, messages, summary, rounds, calls, guard, empties, fakes,
                   final, emitted, exported, failed>>

\* The finally block of _run: the turn is persisted whatever happened; a failure
\* of any part is logged and swallowed.  Consolidation may add a note.
Persist ==
    /\ pc = "persist"
    /\ \/ saved' = final
       \/ UNCHANGED saved
    /\ \/ Buffer(<<"note">>)
       \/ Buffer(<< >>)
    /\ pc' = IF failed THEN "report" ELSE "deliver"
    /\ UNCHANGED <<step, messages, summary, rounds, calls, guard, empties, fakes,
                   final, emitted, exported, failed>>

\* _invoke reports the exception first, whatever was told before, and drains the
\* buffer last.
Report ==
    /\ pc = "report"
    /\ shown' = shown \o <<"error">> \o pending
    /\ pending' = << >>
    /\ pc' = "done"
    /\ UNCHANGED <<step, messages, summary, rounds, calls, guard, empties, fakes,
                   final, emitted, exported, failed, saved>>

\* Mutant of Deliver: the buffer is not drained after the last messages.
DeliverForgetsBuffer ==
    /\ pc = "deliver"
    /\ shown' = shown \o (IF exported THEN <<"blob", "usage">> ELSE <<"usage">>)
    /\ pending' = << >>
    /\ pc' = "done"
    /\ UNCHANGED <<step, messages, summary, rounds, calls, guard, empties, fakes,
                   final, emitted, exported, failed, saved>>

\* Files, then usage.  The files are all read before the first is handed out: one
\* that is gone is skipped, one that cannot be opened (it went after the look, or
\* may not be read) raises, and the turn that was persisted fails after all.  The
\* generator yields the first item itself, and only then does _invoke get to the
\* texts still in the buffer.
Deliver ==
    /\ pc = "deliver"
    /\ \/ /\ \E there \in {exported, FALSE} :
                LET items == (IF there THEN <<"blob">> ELSE << >>) \o <<"usage">>
                IN  shown' = shown \o <<Head(items)>> \o pending \o Tail(items)
          /\ pending' = << >>
          /\ pc' = "done"
          /\ UNCHANGED failed
       \/ /\ exported
          /\ failed' = TRUE
          /\ pc' = "report"
          /\ UNCHANGED <<pending, shown>>
    /\ UNCHANGED <<step, messages, summary, rounds, calls, guard, empties, fakes,
                   final, emitted, exported, saved>>

Finished == pc = "done" /\ UNCHANGED vars

Next ==
    \/ Exhaust \/ TimeOut \/ BeginRound
    \/ ModelRound
    \/ ToolStep \/ EndOfTools
    \/ Persist \/ Report \/ Deliver
    \/ Finished

Spec == Init /\ [][Next]_vars

\* The run is one Python generator the host drives to its end: LLM calls and
\* tools return or raise (each has its own timeout), so a step that can be taken
\* is taken.
FairSpec == Spec /\ WF_vars(Next)

-----------------------------------------------------------------------------
(* Properties.                                                             *)

TypeOK ==
    /\ pc \in {"head", "llm", "tools", "persist", "report", "deliver", "done"}
    /\ step \in 0 .. MaxTurns
    /\ messages \in Seq(Message)
    /\ summary \in Nat
    /\ rounds \in Seq(RoundKinds)
    /\ calls \in Seq(Call)
    /\ guard \in GuardState
    /\ empties \in 0 .. 3 /\ fakes \in 0 .. 3
    /\ final \in Finals /\ saved \in Finals
    /\ emitted \in BOOLEAN /\ exported \in BOOLEAN /\ failed \in BOOLEAN
    /\ pending \in Seq(Shown) /\ shown \in Seq(Shown)

OutcomeOf(text) ==
    CASE text = "answer"   -> "answered"
      [] text = "question" -> "asked"
      [] text = "approval" -> "held"
      [] OTHER             -> "stopped"

\* The run as its user sees it: the outcome it came to and what was said of it,
\* an error last.
Outcome ==
    IF failed THEN "failed"
    ELSE IF final # "" THEN OutcomeOf(final)
    ELSE IF pc \in {"head", "llm", "tools"} THEN "running" ELSE "stopped"

ClosingTexts(texts) == {i \in DOMAIN texts : texts[i] \in Closing}

ErrorTold(texts) == \E i \in DOMAIN texts : texts[i] = "error"

Said ==
    IF ErrorTold(shown) THEN "failed"
    ELSE IF ClosingTexts(shown) = {} THEN "nothing"
    ELSE OutcomeOf(shown[CHOOSE i \in ClosingTexts(shown) : TRUE])

Turn == INSTANCE AgentTurn WITH outcome <- Outcome, said <- Said

\* The whole invocation implements the promise of AgentTurn: one outcome, which
\* only a failure to hand out its files takes back, told once, and reached under
\* weak fairness.
ImplementsTurn == Turn!TurnSpec

\* Whenever the model is called, every tool call of its history is answered by
\* exactly one later result: no branch of _execute_tools that lets the loop go
\* on skips its _feed_tool_result or feeds twice, and compaction cuts no result
\* off a call it keeps.
ModelSeesAnsweredCalls == pc = "llm" => CallsAnswered(messages)

\* Once a tool has run, the fake-text guard knows it on every later round, for
\* compaction always keeps a tool result (kernel.py:88, context.py:66-76).  A
\* truthful report is otherwise mistaken for a fake one.
EvidenceSurvives ==
    pc \in {"head", "llm"} /\ (\E i \in DOMAIN rounds : rounds[i] = "tools")
        => HasToolResult(messages)

\* Once a closing text is emitted, neither the model nor a tool acts again: a
\* question or an approval ends the round in the middle of its calls.
NothingAfterClosing == [][emitted => UNCHANGED <<messages, rounds, guard>>]_vars

\* The host gets at most one closing text, over all the branches that emit one
\* (kernel.py:98, 111, 117, 180, 191), an error besides if and only if the
\* invocation failed (my_claw_tool.py:57-59; it may follow a text that closed the
\* turn), and the text kept as this turn's reply is the one it got, unless nothing
\* of it was visible.
SavedAsTold ==
    /\ Cardinality(ClosingTexts(shown \o pending)) <= 1
    /\ ErrorTold(shown) <=> pc = "done" /\ failed
    /\ pc = "done" /\ saved \in {"answer", "question", "approval", "fakes", "maxturns"}
           => \E i \in DOMAIN shown : shown[i] = saved

-----------------------------------------------------------------------------
(* What the code says of itself and does not keep.                         *)

\* kernel.py:127-128: the call's message "must precede tool results in the
\* conversation history, or real providers reject the orphan tool msg".
\* Compaction cuts by weight alone and may cut between a call and its result.
NoOrphanReachesModel == pc = "llm" => NoOrphanResult(messages)
=============================================================================
