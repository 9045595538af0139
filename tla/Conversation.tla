---------------------------- MODULE Conversation ----------------------------
(***************************************************************************)
(* The message list of a run and its compaction (core/context.py), as      *)
(* operators.  A message keeps what the properties need: its role, the ids *)
(* of the tool calls it makes or answers, and its size in tokens, split as *)
(* the code splits it: `size' for the content, `args' for the arguments of *)
(* its tool calls, which the estimate counts and the cut does not.         *)
(***************************************************************************)
EXTENDS Naturals, Sequences, FiniteSets

CONSTANTS
    Budget,      \* budget_tokens, the prompt budget         (code: 12000)
    KeepRecent,  \* keep_recent_tokens                       (code: 2500)
    NoteSize,    \* tokens of a note of the kernel to the model
    SummarySize  \* tokens one compaction adds to ctx.summary

ASSUME TokenLimits ==
    Budget \in Nat /\ KeepRecent \in Nat /\ NoteSize \in Nat /\ SummarySize \in Nat

CallIds == Nat \X Nat  \* (round, position in the round)
NoCall == <<0, 0>>

\* "note" and "summary" have role "user" in the code; they are told apart here
\* because the user wrote neither.
Roles == {"user", "note", "summary", "assistant", "tool"}

Message == [role : Roles, calls : SUBSET CallIds, answers : CallIds,
            size : Nat, args : Nat]

Plain(role, size) ==
    [role |-> role, calls |-> {}, answers |-> NoCall, size |-> size, args |-> 0]
UserSays(size) == Plain("user", size)
Note == Plain("note", NoteSize)
AssistantSays(size) == Plain("assistant", size)
ToolCalls(ids, size, args) ==
    [role |-> "assistant", calls |-> ids, answers |-> NoCall, size |-> size, args |-> args]
ToolResult(id, size) ==
    [role |-> "tool", calls |-> {}, answers |-> id, size |-> size, args |-> 0]

\* A sum of token counts: the number of tokens, each told by its message and its place.
Total(counts) == Cardinality(UNION {{i} \X (1 .. counts[i]) : i \in DOMAIN counts})

ContentTokens(msgs) == Total([i \in DOMAIN msgs |-> msgs[i].size])
EstimateTokens(msgs) == Total([i \in DOMAIN msgs |-> msgs[i].size + msgs[i].args])

\* Mutant of Cut: stops one message short of the tail it must keep.
CutOneLate(msgs) ==
    LET enough == {i \in DOMAIN msgs :
                     ContentTokens(SubSeq(msgs, i, Len(msgs))) >= KeepRecent}
    IN  IF enough = {} THEN 1
        ELSE 1 + CHOOSE i \in enough : \A j \in enough : j <= i

\* The first message kept: walking from the end, the first one at which the
\* tail weighs KeepRecent; the whole list when it never does.
Cut(msgs) ==
    LET enough == {i \in DOMAIN msgs :
                     ContentTokens(SubSeq(msgs, i, Len(msgs))) >= KeepRecent}
    IN  IF enough = {} THEN 1
        ELSE CHOOSE i \in enough : \A j \in enough : j <= i

OverBudget(msgs) == EstimateTokens(msgs) > Budget

\* Does _compact() drop anything?
Compacts(msgs) == OverBudget(msgs) /\ Cut(msgs) > 1

\* What _compact() keeps.  The summary of what it drops goes in front of it; an
\* empty one (the summariser failed) is left out.
RecentTail(msgs) == SubSeq(msgs, Cut(msgs), Len(msgs))

-----------------------------------------------------------------------------
(* Facts about message lists the properties are stated with.               *)

HasToolResult(msgs) == \E i \in DOMAIN msgs : msgs[i].role = "tool"

\* Every tool call in the list is answered by exactly one later result.
CallsAnswered(msgs) ==
    \A i \in DOMAIN msgs : \A id \in msgs[i].calls :
        /\ \E j \in DOMAIN msgs : j > i /\ msgs[j].role = "tool" /\ msgs[j].answers = id
        /\ \A j, k \in DOMAIN msgs :
              /\ msgs[j].role = "tool" /\ msgs[j].answers = id
              /\ msgs[k].role = "tool" /\ msgs[k].answers = id
              => j = k

\* No tool result is an orphan: the call it answers comes before it.
NoOrphanResult(msgs) ==
    \A j \in DOMAIN msgs : msgs[j].role = "tool" =>
        \E i \in DOMAIN msgs : i < j /\ msgs[j].answers \in msgs[i].calls
=============================================================================
