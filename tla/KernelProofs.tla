---------------------------- MODULE KernelProofs ----------------------------
(***************************************************************************)
(* The agent loop, for every choice of the limits, the tools and the       *)
(* texts: its types; that nothing acts any more once the closing text is   *)
(* emitted; that every tool call the model sees is answered by one result; *)
(* what a run says and what it keeps of it: at most one closing text,      *)
(* which is the reply that is saved, and an error just when it fails, so   *)
(* that the invocation implements the promise of AgentTurn; and that       *)
(* compaction keeps the evidence that a tool has run.                      *)
(***************************************************************************)
EXTENDS Kernel, FiniteSetTheorems, NaturalsInduction, WellFoundedInduction, TLAPS

-----------------------------------------------------------------------------
(* Message lists.                                                          *)

\* A nonempty set of positions of a list has a last one.
LEMMA LastPosition ==
    ASSUME NEW n \in Nat, NEW T \in SUBSET (1 .. n), T # {}
    PROVE  \E i \in T : \A j \in T : j <= i
<1> DEFINE Ages == {n - i : i \in T}
<1>1. Ages \subseteq Nat /\ Ages # {}
  <2>1. \A i \in T : n - i \in Nat
    OBVIOUS
  <2>2. PICK i \in T : TRUE
    OBVIOUS
  <2>3. n - i \in Ages
    BY <2>2
  <2> QED BY <2>1, <2>3
<1> HIDE DEF Ages
<1>2. \E a \in Ages : \A b \in Ages : <<b, a>> \notin OpToRel(<, Nat)
  BY <1>1, WFMin, NatLessThanWellFounded, Zenon
<1>3. PICK a \in Ages : \A b \in Ages : ~(b < a)
  BY <1>1, <1>2, Zenon DEF OpToRel
<1> USE DEF Ages
<1>4. PICK i \in T : a = n - i
  OBVIOUS
<1>5. ASSUME NEW j \in T PROVE j <= i
  BY <1>3, <1>4
<1> QED BY <1>5

\* The cut of a compaction is a position of the list it cuts.
LEMMA CutIsPosition ==
    ASSUME NEW msgs \in Seq(Message), msgs # << >>
    PROVE  Cut(msgs) \in 1 .. Len(msgs)
<1> DEFINE enough == {i \in DOMAIN msgs :
                        ContentTokens(SubSeq(msgs, i, Len(msgs))) >= KeepRecent}
<1>1. Len(msgs) \in Nat /\ Len(msgs) >= 1 /\ DOMAIN msgs = 1 .. Len(msgs)
  OBVIOUS
<1>2. Cut(msgs) = IF enough = {} THEN 1
                  ELSE CHOOSE i \in enough : \A j \in enough : j <= i
  BY DEF Cut
<1>3. enough \in SUBSET (1 .. Len(msgs))
  BY <1>1
<1> HIDE DEF enough
<1>4. CASE enough = {}
  BY <1>1, <1>2, <1>4
<1>5. CASE enough # {}
  <2>1. \E i \in enough : \A j \in enough : j <= i
    BY <1>1, <1>3, <1>5, LastPosition
  <2> QED BY <1>2, <1>3, <1>5, <2>1
<1> QED BY <1>4, <1>5

\* What a compaction keeps is a list of messages again.
LEMMA TailIsMessages ==
    ASSUME NEW msgs \in Seq(Message)
    PROVE  RecentTail(msgs) \in Seq(Message)
<1>1. CASE msgs = << >>
  <2>1. Cut(msgs) = 1
    BY <1>1 DEF Cut
  <2> QED BY <1>1, <2>1 DEF RecentTail
<1>2. CASE msgs # << >>
  BY <1>2, CutIsPosition DEF RecentTail
<1> QED BY <1>1, <1>2

\* Every constructor of messages makes messages.
LEMMA MessageTypes ==
    /\ \A r \in Roles, n \in Nat : Plain(r, n) \in Message
    /\ Note \in Message
    /\ \A n \in Nat : AssistantSays(n) \in Message
    /\ \A ids \in SUBSET CallIds, n, k \in Nat : ToolCalls(ids, n, k) \in Message
    /\ \A id \in CallIds, n \in Nat : ToolResult(id, n) \in Message
BY TokenLimits DEF Plain, Note, AssistantSays, ToolCalls, ToolResult, Message, Roles,
                   CallIds, NoCall

\* The guard keeps its type through an observation.
LEMMA ObserveType ==
    ASSUME NEW g \in GuardState, NEW sig \in Sigs, NEW digest \in Digests
    PROVE  Observe(g, sig, digest) \in GuardState
<1>1. g.sigs \in Seq(Sigs) /\ g.pairs \in Seq(Pairs) /\ g.warned \subseteq Sigs
  BY DEF GuardState
<1>2. \A S : \A s \in Seq(S), e \in S : Remember(s, e) \in Seq(S)
  <2> SUFFICES ASSUME NEW S, NEW s \in Seq(S), NEW e \in S
               PROVE  Remember(s, e) \in Seq(S)
    OBVIOUS
  <2> DEFINE s1 == Append(s, e)
  <2>1. s1 \in Seq(S) /\ Len(s1) \in Nat
    OBVIOUS
  <2> HIDE DEF s1
  <2>2. Trim(s1) \in Seq(S)
    BY <2>1, GuardLimits DEF Trim
  <2> QED BY <2>2 DEF Remember, s1
<1>3. <<sig, digest>> \in Pairs
  BY DEF Pairs
<1>4. Remember(g.sigs, sig) \in Seq(Sigs) /\ Remember(g.pairs, <<sig, digest>>) \in Seq(Pairs)
  BY <1>1, <1>2, <1>3
<1> QED BY <1>1, <1>4 DEF Observe, GuardState

-----------------------------------------------------------------------------
(* The inductive invariant.                                                *)

Acting == {"head", "llm", "tools"}

\* As long as the loop runs, another empty or fake round is still affordable.
LimitsLeft == pc \in Acting => empties <= 2 /\ fakes <= 2

\* The turn is undecided while the model or a tool may still act.
Undecided ==
    pc \in {"head", "llm"} \/ (pc = "tools" /\ calls # << >>) => final = "" /\ emitted = FALSE

\* A text emitted in the middle of a round is the final text of the run.
EmittedIsFinal == pc = "tools" /\ emitted => final # ""

IInv == TypeOK /\ LimitsLeft /\ Undecided /\ EmittedIsFinal

LEMMA InitIInv == Init => IInv
<1> SUFFICES ASSUME Init PROVE IInv
  OBVIOUS
<1>1. /\ pc = "head" /\ step = 0 /\ summary = 0 /\ empties = 0 /\ fakes = 0
      /\ messages \in Openings /\ rounds = << >> /\ calls = << >> /\ guard = FreshGuard
      /\ pending = << >> /\ shown = << >>
  BY Zenon DEF Init
<1>2. final = "" /\ saved = "" /\ emitted = FALSE /\ exported = FALSE /\ failed = FALSE
  BY Zenon DEF Init
<1>3. TypeOK
  <2>1. pc \in {"head", "llm", "tools", "persist", "report", "deliver", "done"}
    BY <1>1
  <2>2. /\ step \in 0 .. MaxTurns /\ summary \in Nat
        /\ empties \in 0 .. 3 /\ fakes \in 0 .. 3
    BY <1>1, KernelConstants
  <2>3. guard \in GuardState
    BY <1>1 DEF FreshGuard, GuardState
  <2>4. /\ messages \in Seq(Message) /\ rounds \in Seq(RoundKinds) /\ calls \in Seq(Call)
        /\ pending \in Seq(Shown) /\ shown \in Seq(Shown)
    BY <1>1, KernelConstants
  <2>5. final \in Finals /\ saved \in Finals
    BY <1>2, Zenon DEF Finals
  <2>6. emitted \in BOOLEAN /\ exported \in BOOLEAN /\ failed \in BOOLEAN
    BY <1>2, Zenon
  <2> QED BY <2>1, <2>2, <2>3, <2>4, <2>5, <2>6, Zenon DEF TypeOK
<1>4. LimitsLeft
  BY <1>1 DEF LimitsLeft
<1>5. Undecided /\ EmittedIsFinal
  BY <1>1, <1>2, Zenon DEF Undecided, EmittedIsFinal
<1> QED BY <1>3, <1>4, <1>5 DEF IInv

-----------------------------------------------------------------------------
(* Every step preserves it.                                                *)

\* The two ways a step emits keep the message buffers well typed.
LEMMA BuffersType ==
    ASSUME pending \in Seq(Shown), shown \in Seq(Shown), NEW texts \in Seq(Shown),
           YieldAfter(texts) \/ Buffer(texts)
    PROVE  pending' \in Seq(Shown) /\ shown' \in Seq(Shown)
<1>1. CASE YieldAfter(texts)
  <2>1. shown \o pending \in Seq(Shown)
    OBVIOUS
  <2>2. (shown \o pending) \o texts \in Seq(Shown)
    BY <2>1
  <2>3. << >> \in Seq(Shown)
    OBVIOUS
  <2> QED BY <1>1, <2>2, <2>3, Zenon DEF YieldAfter
<1>2. CASE Buffer(texts)
  <2>1. pending \o texts \in Seq(Shown)
    OBVIOUS
  <2> QED BY <1>2, <2>1, Zenon DEF Buffer
<1> QED BY <1>1, <1>2

\* A list of one element.
LEMMA SingletonList ==
    ASSUME NEW S, NEW e \in S
    PROVE  <<e>> \in Seq(S)
OBVIOUS

\* Every closing text may be shown.
LEMMA FinalsShown ==
    ASSUME NEW text \in Closing
    PROVE  <<text>> \in Seq(Shown)
<1>1. text \in Shown
  BY Zenon DEF Shown
<1> QED BY <1>1, SingletonList, Zenon

LEMMA ExhaustStep == IInv /\ Exhaust => IInv'
<1> SUFFICES ASSUME IInv, Exhaust PROVE IInv'
  OBVIOUS
<1>1. final' = "maxturns" /\ final' \in Finals /\ final' \in Closing
  BY DEF IInv, Undecided, Exhaust, Finals, Closing
<1>2. pending' \in Seq(Shown) /\ shown' \in Seq(Shown)
  <2>1. YieldAfter(<< >>) \/ YieldAfter(<<final'>>)
    BY Zenon DEF Exhaust
  <2>2. << >> \in Seq(Shown) /\ <<final'>> \in Seq(Shown)
    <3>1. << >> \in Seq(Shown)
      OBVIOUS
    <3>2. <<final'>> \in Seq(Shown)
      BY <1>1, FinalsShown, Zenon
    <3> QED BY <3>1, <3>2
  <2>3. pending \in Seq(Shown) /\ shown \in Seq(Shown)
    BY DEF IInv, TypeOK
  <2> QED BY <2>1, <2>2, <2>3, BuffersType
<1>3. TypeOK'
  BY <1>1, <1>2 DEF IInv, TypeOK, Exhaust
<1>4. LimitsLeft'
  BY DEF Exhaust, LimitsLeft, Acting
<1>5. Undecided' /\ EmittedIsFinal'
  BY DEF Exhaust, Undecided, EmittedIsFinal
<1> QED BY <1>3, <1>4, <1>5 DEF IInv

LEMMA TimeOutStep == IInv /\ TimeOut => IInv'
<1> SUFFICES ASSUME IInv, TimeOut PROVE IInv'
  OBVIOUS
<1>1. TypeOK'
  BY DEF IInv, TypeOK, TimeOut, Finals
<1>2. LimitsLeft'
  BY DEF TimeOut, LimitsLeft, Acting
<1>3. Undecided' /\ EmittedIsFinal'
  BY DEF TimeOut, Undecided, EmittedIsFinal
<1> QED BY <1>1, <1>2, <1>3 DEF IInv

LEMMA BeginRoundStep == IInv /\ BeginRound => IInv'
<1> SUFFICES ASSUME IInv, BeginRound PROVE IInv'
  OBVIOUS
<1>1. messages' \in Seq(Message) /\ summary' \in Nat
  <2>1. /\ messages \in Seq(Message) /\ summary \in Nat
        /\ RecentTail(messages) \in Seq(Message)
    BY TailIsMessages DEF IInv, TypeOK
  <2>2. CASE UNCHANGED <<messages, summary>>
    BY <2>1, <2>2
  <2>3. CASE /\ summary' = summary + SummarySize
             /\ messages' = <<Plain("summary", summary')>> \o RecentTail(messages)
    <3>1. summary' \in Nat
      BY <2>1, <2>3, TokenLimits
    <3>2. "summary" \in Roles
      BY DEF Roles
    <3>3. Plain("summary", summary') \in Message
      BY <3>1, <3>2, MessageTypes
    <3> DEFINE m == Plain("summary", summary')
    <3>4. m \in Message /\ messages' = <<m>> \o RecentTail(messages)
      BY <2>3, <3>3
    <3> HIDE DEF m
    <3> QED BY <2>1, <3>1, <3>4
  <2>4. CASE messages' = RecentTail(messages) /\ UNCHANGED summary
    BY <2>1, <2>4
  <2> QED BY <2>2, <2>3, <2>4 DEF BeginRound
<1>2. TypeOK'
  BY <1>1, KernelConstants DEF IInv, TypeOK, BeginRound
<1>3. LimitsLeft'
  BY DEF IInv, BeginRound, LimitsLeft, Acting
<1>4. Undecided' /\ EmittedIsFinal'
  BY DEF IInv, BeginRound, Undecided, EmittedIsFinal
<1> QED BY <1>2, <1>3, <1>4 DEF IInv

LEMMA ModelFailsStep == IInv /\ ModelFails => IInv'
<1> SUFFICES ASSUME IInv, ModelFails PROVE IInv'
  OBVIOUS
<1>1. TypeOK'
  BY DEF IInv, TypeOK, ModelFails
<1>2. LimitsLeft'
  BY DEF ModelFails, LimitsLeft, Acting
<1>3. Undecided' /\ EmittedIsFinal'
  BY DEF ModelFails, Undecided, EmittedIsFinal
<1> QED BY <1>1, <1>2, <1>3 DEF IInv

LEMMA ToolRoundStep == IInv /\ ToolRound => IInv'
<1> SUFFICES ASSUME IInv, ToolRound PROVE IInv'
  OBVIOUS
<1>1. calls' \in Seq(Call) /\ messages' \in Seq(Message)
  <2>1. PICK sigs \in Batches, size \in TextSizes :
          /\ calls' = [i \in DOMAIN sigs |-> [id |-> <<step, i>>, sig |-> sigs[i]]]
          /\ messages' = Append(messages, ToolCalls({<<step, i>> : i \in DOMAIN sigs},
                                                   size, Len(sigs)))
    BY DEF ToolRound
  <2>2. sigs \in Seq(Sigs) /\ size \in Nat /\ Len(sigs) \in Nat /\ step \in Nat
    BY KernelConstants DEF IInv, TypeOK
  <2>3. \A i \in DOMAIN sigs : <<step, i>> \in CallIds /\ sigs[i] \in Sigs
    BY <2>2 DEF CallIds
  <2>4. calls' \in Seq(Call)
    <3>1. \A i \in 1 .. Len(sigs) : [id |-> <<step, i>>, sig |-> sigs[i]] \in Call
      BY <2>2, <2>3 DEF Call
    <3> DEFINE call(i) == [id |-> <<step, i>>, sig |-> sigs[i]]
    <3>2. calls' = [i \in 1 .. Len(sigs) |-> call(i)]
      BY <2>1, <2>2
    <3>3. \A i \in 1 .. Len(sigs) : call(i) \in Call
      BY <3>1
    <3> HIDE DEF call
    <3> QED BY <2>2, <3>2, <3>3
  <2>5. {<<step, i>> : i \in DOMAIN sigs} \in SUBSET CallIds
    BY <2>3
  <2>6. ToolCalls({<<step, i>> : i \in DOMAIN sigs}, size, Len(sigs)) \in Message
    BY <2>2, <2>5, MessageTypes
  <2> QED BY <2>1, <2>4, <2>6 DEF IInv, TypeOK
<1>2. rounds' \in Seq(RoundKinds)
  BY DEF IInv, TypeOK, ToolRound, RoundKinds
<1>3. TypeOK'
  BY <1>1, <1>2 DEF IInv, TypeOK, ToolRound
<1>4. LimitsLeft'
  BY DEF IInv, ToolRound, LimitsLeft, Acting
<1>5. Undecided' /\ EmittedIsFinal'
  BY DEF IInv, ToolRound, Undecided, EmittedIsFinal
<1> QED BY <1>3, <1>4, <1>5 DEF IInv

LEMMA EmptyRoundStep == IInv /\ EmptyRound => IInv'
<1> SUFFICES ASSUME IInv, EmptyRound PROVE IInv'
  OBVIOUS
<1>1. messages' \in Seq(Message)
  <2>1. Note \in Message /\ messages \in Seq(Message)
    BY MessageTypes DEF IInv, TypeOK
  <2>2. messages' = Append(messages, Note) \/ messages' = messages
    BY DEF EmptyRound
  <2> QED BY <2>1, <2>2
<1>2. rounds' \in Seq(RoundKinds)
  BY DEF IInv, TypeOK, EmptyRound, RoundKinds
<1>3. empties' \in 0 .. 3
  BY DEF IInv, TypeOK, EmptyRound, LimitsLeft, Acting
<1>4. TypeOK'
  BY <1>1, <1>2, <1>3 DEF IInv, TypeOK, EmptyRound, Finals
<1>5. LimitsLeft'
  BY DEF IInv, TypeOK, EmptyRound, LimitsLeft, Acting
<1>6. Undecided' /\ EmittedIsFinal'
  BY DEF IInv, EmptyRound, Undecided, EmittedIsFinal
<1> QED BY <1>4, <1>5, <1>6 DEF IInv

\* The third fake text is emitted as the closing text of the run.
LEMMA FakeRoundStep == ASSUME NEW kind \in TextKinds, IInv, FakeRound(kind) PROVE IInv'
<1>1. messages' \in Seq(Message)
  <2>1. Note \in Message /\ messages \in Seq(Message)
    BY MessageTypes DEF IInv, TypeOK
  <2>2. messages' = Append(messages, Note) \/ messages' = messages
    BY DEF FakeRound
  <2> QED BY <2>1, <2>2
<1>2. rounds' \in Seq(RoundKinds)
  BY DEF IInv, TypeOK, FakeRound, RoundKinds
<1>3. fakes' \in 0 .. 3
  BY DEF IInv, TypeOK, FakeRound, LimitsLeft, Acting
<1>4. pending' \in Seq(Shown) /\ shown' \in Seq(Shown)
  <2>1. pending \in Seq(Shown) /\ shown \in Seq(Shown)
    BY DEF IInv, TypeOK
  <2>2. <<"fakes">> \in Seq(Shown)
    BY FinalsShown DEF Finals, Closing
  <2>3. Buffer(<<"fakes">>) \/ UNCHANGED <<pending, shown>>
    BY Zenon DEF FakeRound
  <2>4. CASE Buffer(<<"fakes">>)
    BY <2>1, <2>2, <2>4, BuffersType
  <2>5. CASE UNCHANGED <<pending, shown>>
    BY <2>1, <2>5
  <2> QED BY <2>3, <2>4, <2>5
<1>5. TypeOK'
  BY <1>1, <1>2, <1>3, <1>4 DEF IInv, TypeOK, FakeRound, Finals
<1>6. LimitsLeft'
  BY DEF IInv, TypeOK, FakeRound, LimitsLeft, Acting
<1>7. Undecided' /\ EmittedIsFinal'
  BY DEF IInv, FakeRound, Undecided, EmittedIsFinal
<1> QED BY <1>5, <1>6, <1>7 DEF IInv

LEMMA FinalRoundStep ==
    ASSUME NEW kind \in TextKinds, NEW size \in TextSizes, IInv, FinalRound(kind, size)
    PROVE  IInv'
<1>1. messages' \in Seq(Message)
  <2>1. AssistantSays(size) \in Message /\ messages \in Seq(Message)
    BY MessageTypes, KernelConstants DEF IInv, TypeOK
  <2>2. messages' = Append(messages, AssistantSays(size))
    BY DEF FinalRound
  <2> QED BY <2>1, <2>2
<1>2. rounds' \in Seq(RoundKinds)
  <2>1. rounds \in Seq(RoundKinds) /\ rounds' = Append(rounds, "final")
    BY DEF IInv, TypeOK, FinalRound
  <2>2. "final" \in RoundKinds
    BY DEF RoundKinds
  <2> QED BY <2>1, <2>2
<1>3. pending' \in Seq(Shown) /\ shown' \in Seq(Shown)
  <2>1. pending \in Seq(Shown) /\ shown \in Seq(Shown)
    BY DEF IInv, TypeOK
  <2>2. <<"answer">> \in Seq(Shown)
    BY FinalsShown DEF Finals, Closing
  <2>3. << >> \in Seq(Shown)
    OBVIOUS
  <2>4. YieldAfter(<< >>) \/ YieldAfter(<<"answer">>)
    BY Zenon DEF FinalRound
  <2> QED BY <2>1, <2>2, <2>3, <2>4, BuffersType
<1>4. TypeOK'
  BY <1>1, <1>2, <1>3 DEF IInv, TypeOK, FinalRound, ReplyOf, Finals
<1>5. LimitsLeft'
  BY DEF FinalRound, LimitsLeft, Acting
<1>6. Undecided' /\ EmittedIsFinal'
  BY DEF FinalRound, Undecided, EmittedIsFinal
<1> QED BY <1>4, <1>5, <1>6 DEF IInv

\* What every tool call starts from.
LEMMA CallAtHand ==
    ASSUME NEW c, IInv, Executing(c)
    PROVE  /\ c \in Call /\ calls \in Seq(Call) /\ Tail(calls) \in Seq(Call)
           /\ final = "" /\ emitted = FALSE
<1>1. calls \in Seq(Call) /\ calls # << >> /\ c = Head(calls) /\ pc = "tools"
  BY DEF IInv, TypeOK, Executing
<1>2. c \in Call /\ Tail(calls) \in Seq(Call)
  BY <1>1
<1>3. final = "" /\ emitted = FALSE
  BY <1>1 DEF IInv, Undecided
<1> QED BY <1>1, <1>2, <1>3

\* One tool result more.
LEMMA FeedType ==
    ASSUME NEW c \in Call, NEW n \in Nat, IInv, Feed(c, n)
    PROVE  messages' \in Seq(Message)
<1>1. ToolResult(c.id, n) \in Message
  BY MessageTypes DEF Call
<1> QED BY <1>1 DEF Feed, IInv, TypeOK

\* The buffer of a call: its progress line, and the text it emits.
LEMMA ProgressType ==
    ASSUME NEW c, IInv, NEW texts \in Seq(Shown)
    PROVE  /\ pending \o Progress(c) \in Seq(Shown)
           /\ pending \o Progress(c) \o texts \in Seq(Shown)
<1>1. "progress" \in Shown
  BY DEF Shown
<1>2. Progress(c) \in Seq(Shown)
  BY <1>1, SingletonList DEF Progress
<1>3. pending \in Seq(Shown)
  BY DEF IInv, TypeOK
<1>4. pending \o Progress(c) \in Seq(Shown)
  BY <1>2, <1>3
<1> QED BY <1>4

\* What a tool call must keep for the invariant to survive it.
LEMMA ToolFrame ==
    ASSUME NEW c, IInv, Executing(c),
           messages' \in Seq(Message), calls' \in Seq(Call), guard' \in GuardState,
           final' \in Finals, emitted' \in BOOLEAN, exported' \in BOOLEAN,
           pending' \in Seq(Shown),
           \/ final' = "" /\ emitted' = FALSE
           \/ final' # "" /\ calls' = << >>
    PROVE  IInv'
<1>1. TypeOK'
  BY DEF IInv, TypeOK, Executing
<1>2. LimitsLeft'
  BY DEF IInv, LimitsLeft, Executing
<1>3. Undecided' /\ EmittedIsFinal'
  BY DEF Executing, Undecided, EmittedIsFinal
<1> QED BY <1>1, <1>2, <1>3 DEF IInv

\* A call that is answered and passed: the tool is unknown, or fails.
LEMMA AnsweredStep == ASSUME NEW c, IInv, UnknownTool(c) \/ ToolFails(c) PROVE IInv'
<1>1. Executing(c) /\ Feed(c, NoteSize) /\ NextCall /\ UNCHANGED <<guard, exported>>
  BY Zenon DEF UnknownTool, ToolFails
<1>2. pending' = pending \/ pending' = pending \o Progress(c)
  BY Zenon DEF UnknownTool, ToolFails
<1>3. /\ c \in Call /\ Tail(calls) \in Seq(Call)
      /\ final = "" /\ emitted = FALSE
  BY <1>1, CallAtHand
<1>4. messages' \in Seq(Message)
  BY <1>1, <1>3, FeedType, TokenLimits
<1>5. << >> \in Seq(Shown)
  OBVIOUS
<1>6. pending' \in Seq(Shown)
  BY <1>2, <1>5, ProgressType DEF IInv, TypeOK
<1>7. calls' \in Seq(Call) /\ final' = "" /\ emitted' = FALSE
  BY <1>1, <1>3, Zenon DEF NextCall
<1>8. guard' \in GuardState /\ exported' \in BOOLEAN
  BY <1>1, Zenon DEF IInv, TypeOK
<1>9. final' \in Finals /\ emitted' \in BOOLEAN
  BY <1>7, Zenon DEF Finals
<1> QED BY <1>1, <1>4, <1>6, <1>7, <1>8, <1>9, ToolFrame, Zenon

\* A call that closes the turn: a question, or a command held for approval.
LEMMA ClosingStep == ASSUME NEW c, IInv, AsksUser(c) \/ NeedsApproval(c) PROVE IInv'
<1>1. PICK text \in {"question", "approval"} :
        /\ Executing(c) /\ Feed(c, NoteSize) /\ EndCalls(text)
        /\ pending' = pending \o Progress(c) \o <<text>>
        /\ emitted' = TRUE /\ UNCHANGED <<guard, exported>>
  BY Zenon DEF AsksUser, NeedsApproval
<1>2. text \in Finals /\ text # "" /\ text \in Closing
  BY DEF Finals, Closing
<1>3. c \in Call
  BY <1>1, CallAtHand
<1>4. messages' \in Seq(Message)
  BY <1>1, <1>3, FeedType, TokenLimits
<1>5. pending' \in Seq(Shown)
  <2>1. <<text>> \in Seq(Shown)
    BY <1>2, FinalsShown, Zenon
  <2> QED BY <1>1, <2>1, ProgressType, Zenon
<1>6. << >> \in Seq(Call)
  OBVIOUS
<1>7. calls' = << >> /\ calls' \in Seq(Call) /\ final' = text
  BY <1>1, <1>6, Zenon DEF EndCalls
<1>8. guard' \in GuardState /\ exported' \in BOOLEAN /\ emitted' \in BOOLEAN
  BY <1>1, Zenon DEF IInv, TypeOK
<1> QED BY <1>1, <1>2, <1>4, <1>5, <1>7, <1>8, ToolFrame, Zenon

LEMMA AnswersItselfStep == ASSUME NEW c, IInv, AnswersItself(c) PROVE IInv'
<1>1. /\ Executing(c) /\ Feed(c, NoteSize) /\ NextCall /\ UNCHANGED <<guard, exported>>
      /\ pending' = pending \o Progress(c) \o <<"auto">>
  BY Zenon DEF AnswersItself
<1>2. /\ c \in Call /\ Tail(calls) \in Seq(Call)
      /\ final = "" /\ emitted = FALSE
  BY <1>1, CallAtHand
<1>3. messages' \in Seq(Message)
  BY <1>1, <1>2, FeedType, TokenLimits
<1>4. pending' \in Seq(Shown)
  <2>1. "auto" \in Shown
    BY DEF Shown
  <2>2. <<"auto">> \in Seq(Shown)
    BY <2>1, SingletonList, Zenon
  <2> QED BY <1>1, <2>2, ProgressType, Zenon
<1>5. calls' \in Seq(Call) /\ final' = "" /\ emitted' = FALSE
  BY <1>1, <1>2, Zenon DEF NextCall
<1>6. guard' \in GuardState /\ exported' \in BOOLEAN
  BY <1>1, Zenon DEF IInv, TypeOK
<1>7. final' \in Finals /\ emitted' \in BOOLEAN
  BY <1>5, Zenon DEF Finals
<1> QED BY <1>1, <1>3, <1>4, <1>5, <1>6, <1>7, ToolFrame, Zenon

\* The loop guard stops the run, or the call is passed like any other.
LEMMA ToolReturnsStep ==
    ASSUME NEW c, NEW digest \in Digests, NEW size \in ResultSizes, IInv,
           ToolReturns(c, digest, size)
    PROVE  IInv'
<1>1. /\ Executing(c) /\ pending' = pending \o Progress(c)
      /\ guard' = Observe(guard, c.sig, digest)
      /\ exported' \in {exported, exported \/ c.sig \in ExportSigs}
  BY Zenon DEF ToolReturns
<1>2. /\ c \in Call /\ Tail(calls) \in Seq(Call)
      /\ final = "" /\ emitted = FALSE
  BY <1>1, CallAtHand
<1>3. pending' \in Seq(Shown)
  <2>1. << >> \in Seq(Shown)
    OBVIOUS
  <2> QED BY <1>1, <2>1, ProgressType, Zenon
<1>4. guard' \in GuardState
  BY <1>1, <1>2, ObserveType DEF IInv, TypeOK, Call
<1>5. exported' \in BOOLEAN
  BY <1>1, Zenon DEF IInv, TypeOK
<1>6. CASE Feed(c, NoteSize) /\ EndCalls("loop") /\ UNCHANGED emitted
  <2>1. messages' \in Seq(Message)
    BY <1>2, <1>6, FeedType, TokenLimits
  <2>2. << >> \in Seq(Call) /\ "loop" \in Finals /\ "loop" # ""
    BY DEF Finals
  <2>3. calls' = << >> /\ calls' \in Seq(Call) /\ final' = "loop"
    BY <1>6, <2>2, Zenon DEF EndCalls
  <2>4. emitted' \in BOOLEAN
    BY <1>2, <1>6, Zenon
  <2> QED BY <1>1, <1>3, <1>4, <1>5, <2>1, <2>2, <2>3, <2>4, ToolFrame, Zenon
<1>7. CASE /\ messages' = messages
                          \o (IF WarnedNow(guard, c.sig, digest) THEN <<Note>> ELSE << >>)
                          \o <<ToolResult(c.id, size)>>
           /\ NextCall
  <2>1. messages \in Seq(Message) /\ <<Note>> \in Seq(Message) /\ << >> \in Seq(Message)
    BY MessageTypes DEF IInv, TypeOK
  <2>2. ToolResult(c.id, size) \in Message
    BY <1>2, MessageTypes, KernelConstants DEF Call
  <2>3. <<ToolResult(c.id, size)>> \in Seq(Message)
    BY <2>2, SingletonList, Zenon
  <2>4. messages' \in Seq(Message)
    <3> DEFINE warning == IF WarnedNow(guard, c.sig, digest) THEN <<Note>> ELSE << >>
               result == <<ToolResult(c.id, size)>>
    <3>1. warning \in Seq(Message)
      BY <2>1, Zenon
    <3>2. result \in Seq(Message) /\ messages' = messages \o warning \o result
      BY <1>7, <2>3, Zenon
    <3> HIDE DEF warning, result
    <3>3. messages \o warning \in Seq(Message)
      BY <2>1, <3>1
    <3>4. (messages \o warning) \o result \in Seq(Message)
      BY <3>2, <3>3
    <3> QED BY <3>2, <3>4
  <2>5. calls' \in Seq(Call) /\ final' = "" /\ emitted' = FALSE
    BY <1>2, <1>7, Zenon DEF NextCall
  <2>6. final' \in Finals /\ emitted' \in BOOLEAN
    BY <2>5, Zenon DEF Finals
  <2> QED BY <1>1, <1>3, <1>4, <1>5, <2>4, <2>5, <2>6, ToolFrame, Zenon
<1> QED BY <1>6, <1>7, Zenon DEF ToolReturns

LEMMA ToolCallStep == IInv /\ ToolStep => IInv'
BY AnsweredStep, ClosingStep, AnswersItselfStep, ToolReturnsStep DEF ToolStep

LEMMA EndOfToolsStep == IInv /\ EndOfTools => IInv'
<1> SUFFICES ASSUME IInv, EndOfTools PROVE IInv'
  OBVIOUS
<1>1. pending' \in Seq(Shown) /\ shown' \in Seq(Shown)
  <2>1. << >> \in Seq(Shown)
    OBVIOUS
  <2> QED BY <2>1, BuffersType DEF IInv, TypeOK, EndOfTools
<1>2. final' \in Finals
  BY Zenon DEF IInv, TypeOK, EndOfTools, Finals
<1>3. TypeOK'
  BY <1>1, <1>2 DEF IInv, TypeOK, EndOfTools
<1>4. LimitsLeft'
  BY DEF IInv, EndOfTools, LimitsLeft, Acting
<1>5. pc' \in {"head", "persist"} /\ (pc' = "head" => final' = "" /\ emitted' = FALSE)
  BY Zenon DEF IInv, TypeOK, EndOfTools, EmittedIsFinal
<1>6. Undecided' /\ EmittedIsFinal'
  BY <1>5, Zenon DEF Undecided, EmittedIsFinal
<1> QED BY <1>3, <1>4, <1>6 DEF IInv

\* The generator around the loop: the invariant only follows its control.
LEMMA GeneratorStep == IInv /\ (Persist \/ Report \/ Deliver) => IInv'
<1> SUFFICES ASSUME IInv, Persist \/ Report \/ Deliver PROVE IInv'
  OBVIOUS
<1>1. pending \in Seq(Shown) /\ shown \in Seq(Shown) /\ << >> \in Seq(Shown)
  BY DEF IInv, TypeOK
<1>2. pc' \in {"report", "deliver", "done"} /\ UNCHANGED <<final, emitted>>
  BY Zenon DEF Persist, Report, Deliver
<1>3. \A text \in {"note", "error", "blob", "usage"} : text \in Shown
  BY Zenon DEF Shown
<1>4. pending' \in Seq(Shown) /\ shown' \in Seq(Shown)
  <2>1. CASE Persist
    <3>1. Buffer(<<"note">>) \/ Buffer(<< >>)
      BY <2>1, Zenon DEF Persist
    <3>2. <<"note">> \in Seq(Shown)
      BY <1>3, SingletonList, Zenon
    <3> QED BY <1>1, <3>1, <3>2, BuffersType
  <2>2. CASE Report
    <3>1. <<"error">> \in Seq(Shown)
      BY <1>3, SingletonList, Zenon
    <3>2. shown \o <<"error">> \in Seq(Shown)
      BY <1>1, <3>1
    <3>3. (shown \o <<"error">>) \o pending \in Seq(Shown)
      BY <1>1, <3>2
    <3> QED BY <1>1, <2>2, <3>3, Zenon DEF Report
  <2>3. CASE Deliver /\ pc' = "done"
    <3>1. PICK there \in {exported, FALSE} :
            shown' = shown \o <<Head((IF there THEN <<"blob">> ELSE << >>) \o <<"usage">>)>>
                     \o pending
                     \o Tail((IF there THEN <<"blob">> ELSE << >>) \o <<"usage">>)
      BY <2>3, Zenon DEF Deliver
    <3> DEFINE items == (IF there THEN <<"blob">> ELSE << >>) \o <<"usage">>
    <3>2. items \in Seq(Shown) /\ items # << >>
      <4>1. <<"blob">> \in Seq(Shown) /\ <<"usage">> \in Seq(Shown)
        BY <1>3, SingletonList, Zenon
      <4>2. (IF there THEN <<"blob">> ELSE << >>) \in Seq(Shown)
        BY <1>1, <4>1, Zenon
      <4> DEFINE blob == IF there THEN <<"blob">> ELSE << >>
                 usage == <<"usage">>
      <4>3. blob \in Seq(Shown) /\ usage \in Seq(Shown) /\ Len(usage) = 1
        BY <4>1, <4>2
      <4> HIDE DEF blob, usage
      <4>4. blob \o usage \in Seq(Shown) /\ blob \o usage # << >>
        BY <4>3
      <4> QED BY <4>4 DEF blob, usage
    <3>3. shown' = shown \o <<Head(items)>> \o pending \o Tail(items)
      BY <3>1, Zenon
    <3> HIDE DEF items
    <3>4. Head(items) \in Shown /\ Tail(items) \in Seq(Shown)
      BY <3>2
    <3>5. <<Head(items)>> \in Seq(Shown)
      BY <3>4, SingletonList, Zenon
    <3>6. shown \o <<Head(items)>> \in Seq(Shown)
      BY <1>1, <3>5
    <3>7. (shown \o <<Head(items)>>) \o pending \in Seq(Shown)
      BY <1>1, <3>6
    <3>8. ((shown \o <<Head(items)>>) \o pending) \o Tail(items) \in Seq(Shown)
      BY <3>4, <3>7
    <3> QED BY <1>1, <2>3, <3>3, <3>8, Zenon DEF Deliver
  <2>4. CASE Deliver /\ pc' # "done"
    BY <1>1, <2>4, Zenon DEF Deliver
  <2> QED BY <2>1, <2>2, <2>3, <2>4
<1>5. TypeOK'
  BY <1>2, <1>4 DEF IInv, TypeOK, Persist, Report, Deliver
<1>6. LimitsLeft'
  BY <1>2, Zenon DEF LimitsLeft, Acting
<1>7. Undecided' /\ EmittedIsFinal'
  BY <1>2, Zenon DEF Undecided, EmittedIsFinal
<1> QED BY <1>5, <1>6, <1>7 DEF IInv

LEMMA StepIInv == IInv /\ [Next]_vars => IInv'
<1> SUFFICES ASSUME IInv, [Next]_vars PROVE IInv'
  OBVIOUS
<1>1. CASE Exhaust \/ TimeOut \/ BeginRound
  BY <1>1, ExhaustStep, TimeOutStep, BeginRoundStep
<1>2. CASE ModelRound
  BY <1>2, ModelFailsStep, ToolRoundStep, EmptyRoundStep, FakeRoundStep, FinalRoundStep
     DEF ModelRound
<1>3. CASE ToolStep
  BY <1>3, ToolCallStep
<1>4. CASE EndOfTools
  BY <1>4, EndOfToolsStep
<1>5. CASE Persist \/ Report \/ Deliver
  BY <1>5, GeneratorStep
<1>6. CASE Finished \/ UNCHANGED vars
  <2>1. UNCHANGED vars
    BY <1>6, Zenon DEF Finished
  <2>2. TypeOK'
    BY <2>1 DEF IInv, TypeOK, vars
  <2>3. LimitsLeft'
    BY <2>1 DEF IInv, LimitsLeft, Acting, vars
  <2>4. Undecided' /\ EmittedIsFinal'
    BY <2>1 DEF IInv, Undecided, EmittedIsFinal, vars
  <2> QED BY <2>2, <2>3, <2>4 DEF IInv
<1> QED BY <1>1, <1>2, <1>3, <1>4, <1>5, <1>6, Zenon DEF Next

\* The invariant of the loop holds in every reachable state.
LEMMA InvariantHolds == Spec => []IInv
<1>1. Init => IInv
  BY InitIInv
<1>2. IInv /\ [Next]_vars => IInv'
  BY StepIInv
<1> QED BY <1>1, <1>2, PTL DEF Spec

-----------------------------------------------------------------------------
(* The theorems.                                                           *)

\* The state of a run (ctx, the emitter's buffer, the round in progress) keeps
\* its type: at most three empty and three fake rounds, MaxTurns rounds in all.
THEOREM KernelTypeOK == Spec => []TypeOK
<1>1. IInv => TypeOK
  BY DEF IInv
<1> QED BY <1>1, InvariantHolds, PTL

\* Once a closing text is emitted, no model round and no tool call follows: the
\* calls left in a round that asks or is held for approval are never executed.
THEOREM ClosingEndsTheRun == Spec => NothingAfterClosing
<1>1. IInv /\ [Next]_vars => [emitted => UNCHANGED <<messages, rounds, guard>>]_vars
  <2> SUFFICES ASSUME IInv, Next, emitted
               PROVE  UNCHANGED <<messages, rounds, guard>>
    BY Zenon
  <2>1. ~(pc = "tools" /\ calls # << >>)
    BY Zenon DEF IInv, Undecided
  <2>2. ~(Exhaust \/ TimeOut \/ BeginRound)
    BY Zenon DEF IInv, Undecided, Exhaust, TimeOut, BeginRound
  <2>3. ~ModelRound
    BY Zenon DEF IInv, Undecided, ModelRound, ModelFails, ToolRound, EmptyRound,
                 FakeRound, FinalRound
  <2>4. ~ToolStep
    BY <2>1, Zenon DEF ToolStep, UnknownTool, ToolFails, AsksUser, AnswersItself,
                       NeedsApproval, ToolReturns, Executing
  <2>5. EndOfTools \/ Persist \/ Report \/ Deliver \/ Finished
    BY <2>2, <2>3, <2>4, Zenon DEF Next
  <2> QED BY <2>5, Zenon DEF EndOfTools, Persist, Report, Deliver, Finished, vars
<1> QED BY <1>1, InvariantHolds, PTL DEF Spec, NothingAfterClosing

-----------------------------------------------------------------------------
(* Calls and their results.                                                *)

Answers(m, id) == m.role = "tool" /\ m.answers = id

\* Every call has its one result, and those that are `open' have none yet.
AnsweredBut(msgs, open) ==
    \A i \in DOMAIN msgs : \A id \in msgs[i].calls :
        /\ id \in open => \A j \in DOMAIN msgs : ~ Answers(msgs[j], id)
        /\ id \notin open =>
              /\ \E j \in DOMAIN msgs : j > i /\ Answers(msgs[j], id)
              /\ \A j, k \in DOMAIN msgs :
                    Answers(msgs[j], id) /\ Answers(msgs[k], id) => j = k

\* The calls of a list, and the results, are of the first n rounds.
Known(msgs, n) ==
    \A i \in DOMAIN msgs :
        /\ \A id \in msgs[i].calls : id[1] <= n
        /\ msgs[i].role = "tool" => msgs[i].answers[1] <= n

LEMMA Appended ==
    ASSUME NEW msgs \in Seq(Message), NEW m \in Message
    PROVE  /\ DOMAIN msgs = 1 .. Len(msgs) /\ Len(msgs) \in Nat
           /\ DOMAIN Append(msgs, m) = 1 .. Len(msgs) + 1
           /\ \A i \in DOMAIN msgs : Append(msgs, m)[i] = msgs[i]
           /\ Append(msgs, m)[Len(msgs) + 1] = m
OBVIOUS

\* A message that neither calls nor answers.
LEMMA AppendPlain ==
    ASSUME NEW msgs \in Seq(Message), NEW m \in Message, m.calls = {}, m.role # "tool"
    PROVE  /\ \A open : AnsweredBut(msgs, open) => AnsweredBut(Append(msgs, m), open)
           /\ \A n : Known(msgs, n) => Known(Append(msgs, m), n)
<1> DEFINE longer == Append(msgs, m)
           last == Len(msgs) + 1
<1>1. /\ DOMAIN msgs = 1 .. Len(msgs) /\ Len(msgs) \in Nat /\ DOMAIN longer = 1 .. last
      /\ \A i \in DOMAIN msgs : longer[i] = msgs[i]
      /\ longer[last] = m
  BY Appended
<1> HIDE DEF longer
<1>2. /\ \A i \in DOMAIN longer : i \in DOMAIN msgs \/ i = last
      /\ \A i \in DOMAIN msgs : i \in DOMAIN longer
      /\ \A id : ~ Answers(longer[last], id)
  BY <1>1 DEF Answers
<1>3. \A open : AnsweredBut(msgs, open) => AnsweredBut(longer, open)
  BY <1>1, <1>2 DEF AnsweredBut
<1>4. \A n : Known(msgs, n) => Known(longer, n)
  BY <1>1, <1>2 DEF Known
<1> QED BY <1>3, <1>4 DEF longer

\* Calls nobody has made or answered before.
LEMMA AppendCalls ==
    ASSUME NEW msgs \in Seq(Message), NEW m \in Message, m.role # "tool", NEW n \in Nat,
           Known(msgs, n), AnsweredBut(msgs, {}), \A id \in m.calls : id[1] = n + 1
    PROVE  AnsweredBut(Append(msgs, m), m.calls) /\ Known(Append(msgs, m), n + 1)
<1> DEFINE longer == Append(msgs, m)
           last == Len(msgs) + 1
<1>1. /\ DOMAIN msgs = 1 .. Len(msgs) /\ Len(msgs) \in Nat /\ DOMAIN longer = 1 .. last
      /\ \A i \in DOMAIN msgs : longer[i] = msgs[i]
      /\ longer[last] = m
  BY Appended
<1> HIDE DEF longer
<1>2. /\ \A i \in DOMAIN longer : i \in DOMAIN msgs \/ i = last
      /\ \A i \in DOMAIN msgs : i \in DOMAIN longer
      /\ \A id : ~ Answers(longer[last], id)
  BY <1>1 DEF Answers
<1>3. \A i \in DOMAIN msgs : /\ \A id \in msgs[i].calls : id \in CallIds
                             /\ msgs[i].answers \in CallIds
  <2>1. \A i \in DOMAIN msgs : msgs[i] \in Message
    OBVIOUS
  <2> QED BY <2>1 DEF Message
<1>4. \A id \in CallIds : id[1] \in Nat
  BY DEF CallIds
<1>5. \A i \in DOMAIN msgs : /\ \A id \in msgs[i].calls : id \notin m.calls
                             /\ \A id \in m.calls : ~ Answers(msgs[i], id)
  BY <1>3, <1>4 DEF Known, Answers
<1>6. AnsweredBut(longer, m.calls)
  <2> SUFFICES ASSUME NEW i \in DOMAIN longer, NEW id \in longer[i].calls
               PROVE  /\ id \in m.calls => \A j \in DOMAIN longer : ~ Answers(longer[j], id)
                      /\ id \notin m.calls =>
                            /\ \E j \in DOMAIN longer : j > i /\ Answers(longer[j], id)
                            /\ \A j, k \in DOMAIN longer :
                                  Answers(longer[j], id) /\ Answers(longer[k], id) => j = k
    BY DEF AnsweredBut
  <2>1. CASE i \in DOMAIN msgs
    <3>1. id \in msgs[i].calls /\ id \notin m.calls
      BY <1>1, <1>5, <2>1
    <3>2. /\ \E j \in DOMAIN msgs : j > i /\ Answers(msgs[j], id)
          /\ \A j, k \in DOMAIN msgs : Answers(msgs[j], id) /\ Answers(msgs[k], id) => j = k
      BY <2>1, <3>1 DEF AnsweredBut
    <3> QED BY <1>1, <1>2, <3>1, <3>2
  <2>2. CASE i = last
    BY <1>1, <1>2, <1>5, <2>2
  <2> QED BY <1>2, <2>1, <2>2
<1>7. Known(longer, n + 1)
  <2>1. \A i \in DOMAIN msgs : /\ \A id \in msgs[i].calls : id[1] <= n + 1
                               /\ msgs[i].role = "tool" => msgs[i].answers[1] <= n + 1
    BY <1>3, <1>4 DEF Known
  <2> QED BY <1>1, <1>2, <2>1 DEF Known
<1> QED BY <1>6, <1>7 DEF longer

\* The result of a call that is open.
LEMMA AppendResult ==
    ASSUME NEW msgs \in Seq(Message), NEW id \in CallIds, NEW size \in Nat, NEW open, NEW n \in Nat,
           AnsweredBut(msgs, open), Known(msgs, n), id \in open, id[1] <= n
    PROVE  /\ AnsweredBut(Append(msgs, ToolResult(id, size)), open \ {id})
           /\ Known(Append(msgs, ToolResult(id, size)), n)
<1> DEFINE m == ToolResult(id, size)
           longer == Append(msgs, m)
           last == Len(msgs) + 1
<1>1. /\ DOMAIN msgs = 1 .. Len(msgs) /\ Len(msgs) \in Nat /\ DOMAIN longer = 1 .. last
      /\ \A i \in DOMAIN msgs : longer[i] = msgs[i]
      /\ longer[last] = m
  BY Appended, MessageTypes
<1>2. m.calls = {} /\ m.answers = id /\ \A other : Answers(m, other) <=> other = id
  BY DEF ToolResult, Answers
<1> HIDE DEF longer, m
<1>3. /\ \A i \in DOMAIN longer : i \in DOMAIN msgs \/ i = last
      /\ \A i \in DOMAIN msgs : i \in DOMAIN longer /\ last > i
      /\ last \in DOMAIN longer
  BY <1>1
<1>4. AnsweredBut(longer, open \ {id})
  <2> SUFFICES ASSUME NEW i \in DOMAIN longer, NEW other \in longer[i].calls
               PROVE  /\ other \in open \ {id} =>
                            \A j \in DOMAIN longer : ~ Answers(longer[j], other)
                      /\ other \notin open \ {id} =>
                            /\ \E j \in DOMAIN longer : j > i /\ Answers(longer[j], other)
                            /\ \A j, k \in DOMAIN longer :
                                  Answers(longer[j], other) /\ Answers(longer[k], other) => j = k
    BY DEF AnsweredBut
  <2>1. i \in DOMAIN msgs /\ other \in msgs[i].calls
    BY <1>1, <1>2, <1>3
  <2>2. CASE other = id
    <3>1. \A j \in DOMAIN msgs : ~ Answers(msgs[j], id)
      BY <2>1, <2>2 DEF AnsweredBut
    <3> QED BY <1>1, <1>2, <1>3, <2>1, <2>2, <3>1
  <2>3. CASE other # id
    <3>1. \A j \in DOMAIN longer : Answers(longer[j], other) => j \in DOMAIN msgs /\ Answers(msgs[j], other)
      BY <1>1, <1>2, <1>3, <2>3
    <3>2. /\ other \in open => \A j \in DOMAIN msgs : ~ Answers(msgs[j], other)
          /\ other \notin open =>
                /\ \E j \in DOMAIN msgs : j > i /\ Answers(msgs[j], other)
                /\ \A j, k \in DOMAIN msgs : Answers(msgs[j], other) /\ Answers(msgs[k], other) => j = k
      BY <2>1 DEF AnsweredBut
    <3> QED BY <1>1, <1>3, <2>3, <3>1, <3>2
  <2> QED BY <2>2, <2>3
<1>5. Known(longer, n)
  BY <1>1, <1>2, <1>3 DEF Known
<1> QED BY <1>4, <1>5 DEF longer, m

\* What a compaction leaves: a tail, with or without a message in front of it.
LEMMA TailAnswered ==
    ASSUME NEW msgs \in Seq(Message), NEW cut \in 1 .. Len(msgs), NEW n,
           AnsweredBut(msgs, {}), Known(msgs, n)
    PROVE  /\ AnsweredBut(SubSeq(msgs, cut, Len(msgs)), {})
           /\ Known(SubSeq(msgs, cut, Len(msgs)), n)
<1> DEFINE tail == SubSeq(msgs, cut, Len(msgs))
           at(i) == i + cut - 1
<1>1. /\ DOMAIN msgs = 1 .. Len(msgs) /\ Len(msgs) \in Nat /\ cut \in Nat
      /\ DOMAIN tail = 1 .. Len(msgs) - cut + 1
      /\ \A i \in DOMAIN tail : tail[i] = msgs[at(i)]
  OBVIOUS
<1> HIDE DEF tail
<1>2. \A i \in DOMAIN tail : at(i) \in DOMAIN msgs
  BY <1>1
<1>3. \A i \in DOMAIN tail, j \in DOMAIN msgs : j > at(i) => j - cut + 1 \in DOMAIN tail /\ at(j - cut + 1) = j
                                                           /\ j - cut + 1 > i
  BY <1>1
<1>4. \A i, j \in DOMAIN tail : at(i) = at(j) => i = j
  BY <1>1
<1> HIDE DEF at
<1>5. ASSUME NEW i \in DOMAIN tail, NEW id \in tail[i].calls
      PROVE  /\ \E j \in DOMAIN tail : j > i /\ Answers(tail[j], id)
             /\ \A j, k \in DOMAIN tail : Answers(tail[j], id) /\ Answers(tail[k], id) => j = k
  <2>1. id \in msgs[at(i)].calls
    BY <1>1, <1>5
  <2>2. /\ \E j \in DOMAIN msgs : j > at(i) /\ Answers(msgs[j], id)
        /\ \A j, k \in DOMAIN msgs : Answers(msgs[j], id) /\ Answers(msgs[k], id) => j = k
    BY <1>2, <2>1 DEF AnsweredBut
  <2>3. PICK j \in DOMAIN msgs : j > at(i) /\ Answers(msgs[j], id)
    BY <2>2
  <2>4. Answers(tail[j - cut + 1], id) /\ j - cut + 1 \in DOMAIN tail /\ j - cut + 1 > i
    BY <1>1, <1>3, <2>3
  <2>5. \A l, k \in DOMAIN tail : Answers(tail[l], id) /\ Answers(tail[k], id) => l = k
    BY <1>1, <1>2, <1>4, <2>2
  <2> QED BY <2>4, <2>5
<1>6. AnsweredBut(tail, {})
  BY <1>5 DEF AnsweredBut
<1>7. Known(tail, n)
  BY <1>1, <1>2 DEF Known
<1> QED BY <1>6, <1>7 DEF tail

LEMMA PrefixedAnswered ==
    ASSUME NEW msgs \in Seq(Message), NEW m \in Message, m.calls = {}, m.role # "tool", NEW n,
           AnsweredBut(msgs, {}), Known(msgs, n)
    PROVE  AnsweredBut(<<m>> \o msgs, {}) /\ Known(<<m>> \o msgs, n)
<1> DEFINE longer == <<m>> \o msgs
<1>1. /\ DOMAIN msgs = 1 .. Len(msgs) /\ Len(msgs) \in Nat
      /\ DOMAIN longer = 1 .. Len(msgs) + 1
      /\ longer[1] = m /\ \A i \in DOMAIN msgs : longer[i + 1] = msgs[i]
  OBVIOUS
<1> HIDE DEF longer
<1>2. \A i \in DOMAIN longer : i # 1 => i - 1 \in DOMAIN msgs /\ longer[i] = msgs[i - 1]
  BY <1>1
<1>3. ASSUME NEW i \in DOMAIN longer, NEW id \in longer[i].calls
      PROVE  /\ \E j \in DOMAIN longer : j > i /\ Answers(longer[j], id)
             /\ \A j, k \in DOMAIN longer : Answers(longer[j], id) /\ Answers(longer[k], id) => j = k
  <2>1. i # 1
    BY <1>1, <1>3
  <2>2. i - 1 \in DOMAIN msgs /\ id \in msgs[i - 1].calls
    BY <1>2, <1>3, <2>1
  <2>3. /\ \E j \in DOMAIN msgs : j > i - 1 /\ Answers(msgs[j], id)
        /\ \A j, k \in DOMAIN msgs : Answers(msgs[j], id) /\ Answers(msgs[k], id) => j = k
    BY <2>2 DEF AnsweredBut
  <2>4. PICK j \in DOMAIN msgs : j > i - 1 /\ Answers(msgs[j], id)
    BY <2>3
  <2>5. j + 1 \in DOMAIN longer /\ j + 1 > i /\ Answers(longer[j + 1], id)
    BY <1>1, <2>4
  <2>6. ASSUME NEW l \in DOMAIN longer, NEW k \in DOMAIN longer,
               Answers(longer[l], id), Answers(longer[k], id)
        PROVE  l = k
    <3>1. l # 1 /\ k # 1
      BY <1>1, <2>6 DEF Answers
    <3>2. /\ l - 1 \in DOMAIN msgs /\ Answers(msgs[l - 1], id)
          /\ k - 1 \in DOMAIN msgs /\ Answers(msgs[k - 1], id)
      BY <1>2, <2>6, <3>1
    <3>3. l - 1 = k - 1
      BY <2>3, <3>2
    <3> QED BY <1>1, <3>3
  <2> QED BY <2>5, <2>6
<1>4. AnsweredBut(longer, {})
  BY <1>3 DEF AnsweredBut
<1>5. Known(longer, n)
  BY <1>1, <1>2 DEF Known
<1> QED BY <1>4, <1>5 DEF longer

\* The calls of the round in progress that have no result yet.
OpenIds == {calls[i].id : i \in DOMAIN calls}

HistoryInv ==
    /\ pc \in {"head", "llm"} => AnsweredBut(messages, {})
    /\ pc = "head" => Known(messages, step)
    /\ pc = "llm" => step \in Nat \ {0} /\ Known(messages, step - 1)
    /\ pc = "tools" => Known(messages, step) /\ \A id \in OpenIds : id[1] = step
    /\ pc = "tools" /\ final = "" =>
          /\ AnsweredBut(messages, OpenIds)
          /\ \A i, j \in DOMAIN calls : calls[i].id = calls[j].id => i = j

LEMMA BeginRoundHistory == IInv /\ HistoryInv /\ BeginRound => HistoryInv'
<1> SUFFICES ASSUME IInv, HistoryInv, BeginRound PROVE HistoryInv'
  OBVIOUS
<1>1. /\ messages \in Seq(Message) /\ AnsweredBut(messages, {}) /\ Known(messages, step)
      /\ step \in Nat /\ step' = step + 1 /\ pc' = "llm" /\ summary \in Nat
  BY KernelConstants DEF IInv, TypeOK, HistoryInv, BeginRound
<1>2. AnsweredBut(messages', {}) /\ Known(messages', step)
  <2>1. CASE messages' = messages
    BY <1>1, <2>1
  <2>2. CASE Compacts(messages)
    <3> DEFINE tail == RecentTail(messages)
               m == Plain("summary", summary')
    <3>1. Cut(messages) \in 1 .. Len(messages)
      <4>1. messages # << >>
        BY <2>2 DEF Compacts, Cut
      <4> QED BY <1>1, <4>1, CutIsPosition
    <3>2. tail \in Seq(Message) /\ AnsweredBut(tail, {}) /\ Known(tail, step)
      BY <1>1, <3>1, TailIsMessages, TailAnswered DEF RecentTail
    <3>3. messages' = tail \/ (messages' = <<m>> \o tail /\ summary' = summary + SummarySize)
      BY <2>2 DEF BeginRound
    <3> HIDE DEF tail
    <3>4. CASE messages' = <<m>> \o tail /\ summary' = summary + SummarySize
      <4>1. summary' \in Nat
        BY <1>1, <3>4, TokenLimits
      <4>2. m \in Message /\ m.calls = {} /\ m.role # "tool"
        BY <4>1, MessageTypes DEF Plain, Roles
      <4> HIDE DEF m
      <4> QED BY <3>2, <3>4, <4>2, PrefixedAnswered
    <3> QED BY <3>2, <3>3, <3>4
  <2> QED BY <2>1, <2>2 DEF BeginRound
<1>3. step' - 1 = step /\ step' \in Nat \ {0}
  BY <1>1
<1>4. Known(messages', step' - 1)
  BY <1>2, <1>3
<1> QED BY <1>1, <1>2, <1>3, <1>4 DEF HistoryInv

LEMMA ToolRoundHistory == IInv /\ HistoryInv /\ ToolRound => HistoryInv'
<1> SUFFICES ASSUME IInv, HistoryInv, ToolRound PROVE HistoryInv'
  OBVIOUS
<1>1. /\ messages \in Seq(Message) /\ AnsweredBut(messages, {})
      /\ step - 1 \in Nat /\ step \in Nat /\ Known(messages, step - 1)
  BY KernelConstants DEF IInv, TypeOK, HistoryInv, ToolRound
<1>2. PICK sigs \in Batches, size \in TextSizes :
        /\ calls' = [i \in DOMAIN sigs |-> [id |-> <<step, i>>, sig |-> sigs[i]]]
        /\ messages' = Append(messages, ToolCalls({<<step, i>> : i \in DOMAIN sigs}, size, Len(sigs)))
  BY DEF ToolRound
<1>3. pc' = "tools" /\ step' = step
  BY DEF ToolRound
<1> DEFINE ids == {<<step, i>> : i \in DOMAIN sigs}
           m == ToolCalls(ids, size, Len(sigs))
<1>4. m \in Message /\ m.calls = ids /\ m.role # "tool"
  <2>1. sigs \in Seq(Sigs) /\ size \in Nat
    BY KernelConstants
  <2>2. Len(sigs) \in Nat /\ DOMAIN sigs \subseteq Nat
    BY <2>1
  <2>3. ids \in SUBSET CallIds
    BY <1>1, <2>2 DEF CallIds
  <2> QED BY <2>1, <2>2, <2>3, MessageTypes DEF ToolCalls
<1>5. \A id \in m.calls : id[1] = step
  BY <1>4
<1>6. AnsweredBut(messages', ids) /\ Known(messages', step)
  <2> HIDE DEF m, ids
  <2>1. messages' = Append(messages, m)
    BY <1>2 DEF m, ids
  <2>2. (step - 1) + 1 = step
    BY <1>1
  <2>3. AnsweredBut(Append(messages, m), m.calls) /\ Known(Append(messages, m), (step - 1) + 1)
    BY <1>1, <1>4, <1>5, <2>2, AppendCalls
  <2> QED BY <1>4, <2>1, <2>2, <2>3
<1>7. /\ OpenIds' = ids
      /\ \A i, j \in DOMAIN calls' : calls'[i].id = calls'[j].id => i = j
  BY <1>2 DEF OpenIds
<1>8. \A id \in ids : id[1] = step
  OBVIOUS
<1> HIDE DEF ids
<1> QED BY <1>3, <1>6, <1>7, <1>8 DEF HistoryInv

\* A round whose message neither calls nor answers.
LEMMA NoteHistory ==
    ASSUME IInv, HistoryInv, pc = "llm", pc' \in {"head", "persist"}, step' = step,
           pc' = "head" => messages' = Append(messages, Note)
    PROVE  HistoryInv'
<1>1. /\ messages \in Seq(Message) /\ AnsweredBut(messages, {})
      /\ step \in Nat /\ Known(messages, step - 1)
  BY KernelConstants DEF IInv, TypeOK, HistoryInv
<1>2. Known(messages, step)
  <2>1. \A i \in DOMAIN messages : messages[i] \in Message
    BY <1>1
  <2>2. \A i \in DOMAIN messages : /\ \A id \in messages[i].calls : id[1] \in Nat
                                   /\ messages[i].answers[1] \in Nat
    BY <2>1 DEF Message, CallIds
  <2> QED BY <1>1, <2>2 DEF Known
<1>3. Note \in Message /\ Note.calls = {} /\ Note.role # "tool"
  BY MessageTypes DEF Note, Plain
<1>4. AnsweredBut(Append(messages, Note), {}) /\ Known(Append(messages, Note), step)
  BY <1>1, <1>2, <1>3, AppendPlain
<1> QED BY <1>4 DEF HistoryInv

\* The result of a call is fed, with or without a note before it.
Fed(c, n) ==
    \/ messages' = Append(messages, ToolResult(c.id, n))
    \/ messages' = Append(Append(messages, Note), ToolResult(c.id, n))

\* The round goes on with its next call, or drops them.
Passed == calls' = Tail(calls) \/ (calls' = << >> /\ final' # "")

LEMMA FedHistory ==
    ASSUME NEW c, IInv, HistoryInv, Executing(c), NEW n \in Nat, Fed(c, n), Passed
    PROVE  HistoryInv'
<1>1. /\ c \in Call /\ calls \in Seq(Call) /\ final = "" /\ pc = "tools" /\ pc' = "tools"
      /\ step' = step /\ step \in Nat /\ messages \in Seq(Message) /\ calls # << >> /\ c = calls[1]
  <2>1. /\ calls \in Seq(Call) /\ calls # << >> /\ c = Head(calls) /\ pc = "tools" /\ pc' = "tools"
        /\ step' = step /\ step \in 0 .. MaxTurns /\ messages \in Seq(Message)
    BY DEF IInv, TypeOK, Executing
  <2>2. c \in Call /\ final = ""
    BY CallAtHand
  <2>3. c = calls[1]
    BY <2>1
  <2>4. step \in Nat
    BY <2>1, KernelConstants
  <2> QED BY <2>1, <2>2, <2>3, <2>4
<1>2. calls \in Seq(Call) /\ calls # << >>
  BY <1>1, Zenon
<1>3. messages \in Seq(Message) /\ step \in Nat
  BY <1>1, Zenon
<1>4. /\ Known(messages, step) /\ AnsweredBut(messages, OpenIds) /\ \A id \in OpenIds : id[1] = step
      /\ \A i, j \in DOMAIN calls : calls[i].id = calls[j].id => i = j
  BY <1>1 DEF HistoryInv
<1>5. c.id \in OpenIds /\ c.id \in CallIds /\ c.id[1] <= step
  <2>1. 1 \in DOMAIN calls
    BY <1>2
  <2>2. c.id \in OpenIds
    BY <1>1, <2>1 DEF OpenIds
  <2>3. c.id \in CallIds
    BY <1>1 DEF Call
  <2>4. c.id[1] = step
    BY <1>4, <2>2, Zenon
  <2>5. step <= step
    BY <1>3
  <2> QED BY <2>2, <2>3, <2>4, <2>5
<1>6. AnsweredBut(messages', OpenIds \ {c.id}) /\ Known(messages', step)
  <2>1. CASE messages' = Append(messages, ToolResult(c.id, n))
    BY <1>1, <1>4, <1>5, <2>1, AppendResult
  <2>2. CASE messages' = Append(Append(messages, Note), ToolResult(c.id, n))
    <3> DEFINE noted == Append(messages, Note)
    <3>1. Note \in Message /\ Note.calls = {} /\ Note.role # "tool"
      BY MessageTypes DEF Note, Plain
    <3>2. noted \in Seq(Message)
      BY <1>3, <3>1
    <3>3. AnsweredBut(noted, OpenIds) /\ Known(noted, step)
      BY <1>1, <1>4, <3>1, AppendPlain
    <3>4. messages' = Append(noted, ToolResult(c.id, n))
      BY <2>2
    <3> HIDE DEF noted
    <3> QED BY <1>1, <1>5, <3>2, <3>3, <3>4, AppendResult
  <2> QED BY <2>1, <2>2 DEF Fed
<1>7. CASE calls' = Tail(calls)
  <2>1. /\ DOMAIN calls = 1 .. Len(calls) /\ Len(calls) \in Nat
        /\ DOMAIN calls' = 1 .. Len(calls) - 1
        /\ \A i \in DOMAIN calls' : calls'[i] = calls[i + 1] /\ i + 1 \in DOMAIN calls
        /\ 1 \in DOMAIN calls
    <3>1. DOMAIN calls = 1 .. Len(calls) /\ Len(calls) \in Nat /\ Len(calls) >= 1
      BY <1>2
    <3>2. /\ DOMAIN Tail(calls) = 1 .. Len(calls) - 1
          /\ \A i \in 1 .. Len(calls) - 1 : Tail(calls)[i] = calls[i + 1]
      BY <1>2
    <3> QED BY <1>7, <3>1, <3>2
  <2>2. OpenIds' = OpenIds \ {c.id}
    <3>1. ASSUME NEW i \in DOMAIN calls' PROVE calls'[i].id \in OpenIds \ {c.id}
      <4>1. calls'[i].id \in OpenIds
        BY <2>1 DEF OpenIds
      <4>2. calls[i + 1].id # calls[1].id
        BY <1>4, <2>1
      <4> QED BY <1>1, <2>1, <4>1, <4>2
    <3>2. ASSUME NEW i \in DOMAIN calls, calls[i].id # c.id
          PROVE  \E j \in DOMAIN calls' : calls'[j].id = calls[i].id
      <4>1. i # 1
        BY <1>1, <3>2
      <4>2. i - 1 \in DOMAIN calls' /\ (i - 1) + 1 = i
        BY <2>1, <4>1
      <4>3. calls'[i - 1] = calls[i]
        BY <2>1, <4>2
      <4> QED BY <4>2, <4>3
    <3> QED BY <3>1, <3>2 DEF OpenIds
  <2>3. \A i, j \in DOMAIN calls' : calls'[i].id = calls'[j].id => i = j
    BY <1>4, <2>1
  <2> QED BY <1>1, <1>4, <1>6, <2>2, <2>3 DEF HistoryInv
<1>8. CASE calls' = << >> /\ final' # ""
  <2>1. \A i : i \notin DOMAIN << >>
    OBVIOUS
  <2>2. OpenIds' = {}
    BY <1>8, <2>1, Zenon DEF OpenIds
  <2> QED BY <1>1, <1>6, <1>8, <2>2 DEF HistoryInv
<1> QED BY <1>7, <1>8 DEF Passed

LEMMA ToolHistory == IInv /\ HistoryInv /\ ToolStep => HistoryInv'
<1> SUFFICES ASSUME IInv, HistoryInv, ToolStep PROVE HistoryInv'
  OBVIOUS
<1>1. ASSUME NEW c, UnknownTool(c) \/ ToolFails(c) \/ AnswersItself(c) PROVE HistoryInv'
  <2>1. Executing(c) /\ Feed(c, NoteSize) /\ NextCall
    BY <1>1, Zenon DEF UnknownTool, ToolFails, AnswersItself
  <2> QED BY <2>1, FedHistory, TokenLimits DEF Feed, NextCall, Fed, Passed
<1>2. ASSUME NEW c, AsksUser(c) \/ NeedsApproval(c) PROVE HistoryInv'
  <2>1. Executing(c) /\ Feed(c, NoteSize) /\ (EndCalls("question") \/ EndCalls("approval"))
    BY <1>2, Zenon DEF AsksUser, NeedsApproval
  <2>2. calls' = << >> /\ final' # ""
    BY <2>1 DEF EndCalls
  <2> QED BY <2>1, <2>2, FedHistory, TokenLimits DEF Feed, Fed, Passed
<1>3. ASSUME NEW c, NEW digest \in Digests, NEW size \in ResultSizes, ToolReturns(c, digest, size)
      PROVE  HistoryInv'
  <2>1. Executing(c)
    BY <1>3, Zenon DEF ToolReturns
  <2>2. CASE Feed(c, NoteSize) /\ EndCalls("loop")
    <3>1. calls' = << >> /\ final' # ""
      BY <2>2 DEF EndCalls
    <3> QED BY <2>1, <2>2, <3>1, FedHistory, TokenLimits DEF Feed, Fed, Passed
  <2>3. CASE /\ messages' = messages
                            \o (IF WarnedNow(guard, c.sig, digest) THEN <<Note>> ELSE << >>)
                            \o <<ToolResult(c.id, size)>>
             /\ NextCall
    <3> DEFINE result == ToolResult(c.id, size)
    <3>1. /\ messages \in Seq(Message) /\ result \in Message /\ Note \in Message /\ size \in Nat
        <4>1. c.id \in CallIds /\ size \in Nat /\ messages \in Seq(Message)
        <5>1. c \in Call
          BY <2>1, CallAtHand
        <5> QED BY <5>1, KernelConstants DEF Call, IInv, TypeOK
      <4> QED BY <4>1, MessageTypes
    <3>2. \/ messages' = messages \o <<Note>> \o <<result>>
          \/ messages' = messages \o << >> \o <<result>>
      BY <2>3
    <3> HIDE DEF result
    <3>3. /\ messages \o <<Note>> \o <<result>> = Append(Append(messages, Note), result)
          /\ messages \o << >> \o <<result>> = Append(messages, result)
      BY <3>1
    <3>4. calls' = Tail(calls)
      BY <2>3 DEF NextCall
    <3> QED BY <2>1, <3>1, <3>2, <3>3, <3>4, FedHistory DEF result, Fed, Passed
  <2> QED BY <1>3, <2>2, <2>3, Zenon DEF ToolReturns
<1> QED BY <1>1, <1>2, <1>3 DEF ToolStep

LEMMA NextHistory == IInv /\ HistoryInv /\ [Next]_vars => HistoryInv'
<1> SUFFICES ASSUME IInv, HistoryInv, [Next]_vars PROVE HistoryInv'
  OBVIOUS
<1>1. CASE Exhaust \/ TimeOut \/ ModelFails \/ Persist \/ Report \/ Deliver
  <2>1. pc' \in {"persist", "report", "deliver", "done"}
    BY <1>1, Zenon DEF Exhaust, TimeOut, ModelFails, Persist, Report, Deliver
  <2> QED BY <2>1 DEF HistoryInv
<1>2. CASE BeginRound \/ ToolRound \/ ToolStep
  BY <1>2, BeginRoundHistory, ToolRoundHistory, ToolHistory
<1>3. CASE EmptyRound \/ \E kind \in TextKinds : FakeRound(kind)
  <2>1. /\ pc = "llm" /\ pc' \in {"head", "persist"} /\ step' = step
        /\ pc' = "head" => messages' = Append(messages, Note)
    BY <1>3 DEF EmptyRound, FakeRound
  <2> QED BY <2>1, NoteHistory
<1>4. ASSUME NEW kind \in TextKinds, NEW size \in TextSizes, FinalRound(kind, size) PROVE HistoryInv'
  <2>1. pc' = "persist"
    BY <1>4 DEF FinalRound
  <2> QED BY <2>1 DEF HistoryInv
<1>5. CASE EndOfTools
  <2>1. /\ pc = "tools" /\ calls = << >> /\ UNCHANGED <<step, messages>>
        /\ pc' = "persist" \/ (pc' = "head" /\ final = "")
    BY <1>5 DEF EndOfTools
  <2>2. OpenIds = {}
    <3>1. \A i : i \notin DOMAIN << >>
      OBVIOUS
    <3> QED BY <2>1, <3>1, Zenon DEF OpenIds
  <2> QED BY <2>1, <2>2 DEF HistoryInv
<1>6. CASE Finished \/ UNCHANGED vars
  BY <1>6 DEF Finished, vars, HistoryInv, OpenIds
<1> QED BY <1>1, <1>2, <1>3, <1>4, <1>5, <1>6, Zenon DEF Next, ModelRound

\* Whenever the model is called, every tool call of its history has exactly one later
\* result, whatever the tools did and wherever compactions cut.
THEOREM HistoryAnswered == Spec => []ModelSeesAnsweredCalls
<1>1. Init => HistoryInv
  <2> SUFFICES ASSUME Init PROVE HistoryInv
    OBVIOUS
  <2>1. \A i \in DOMAIN messages : messages[i].calls = {} /\ messages[i].role # "tool"
    BY KernelConstants DEF Init
  <2> QED BY <2>1 DEF Init, HistoryInv, AnsweredBut, Known
<1>2. HistoryInv => ModelSeesAnsweredCalls
  BY DEF HistoryInv, AnsweredBut, Answers, ModelSeesAnsweredCalls, CallsAnswered
<1> QED BY <1>1, <1>2, NextHistory, InvariantHolds, PTL DEF Spec

-----------------------------------------------------------------------------
(* Lists of texts.                                                         *)

\* What tells the user how the turn ended.
Conclusive == Closing \cup {"error"}

Silent(texts) == \A i \in DOMAIN texts : texts[i] \notin Conclusive

TellsOnce(texts, text) ==
    \E i \in DOMAIN texts :
        /\ texts[i] = text
        /\ \A j \in DOMAIN texts : texts[j] \in Conclusive => j = i

\* All that was said, the buffered texts included.
Told == shown \o pending

LEMMA Positions ==
    ASSUME NEW a \in Seq(Shown), NEW b \in Seq(Shown)
    PROVE  /\ \A i \in DOMAIN a : i \in DOMAIN (a \o b) /\ (a \o b)[i] = a[i]
           /\ \A i \in DOMAIN b : i + Len(a) \in DOMAIN (a \o b) /\ (a \o b)[i + Len(a)] = b[i]
           /\ \A i \in DOMAIN (a \o b) :
                 \/ i \in DOMAIN a /\ (a \o b)[i] = a[i]
                 \/ i - Len(a) \in DOMAIN b /\ (a \o b)[i] = b[i - Len(a)]
           /\ \A i \in DOMAIN a, j \in DOMAIN b : i # j + Len(a)
           /\ \A i, j \in DOMAIN b : i + Len(a) = j + Len(a) => i = j
           /\ Len(a) \in Nat /\ DOMAIN a \subseteq Nat /\ DOMAIN b \subseteq Nat
           /\ a \o b \in Seq(Shown)
OBVIOUS

LEMMA JoinedSilent ==
    ASSUME NEW a \in Seq(Shown), NEW b \in Seq(Shown)
    PROVE  Silent(a \o b) <=> Silent(a) /\ Silent(b)
<1> DEFINE c == a \o b
<1>1. /\ \A i \in DOMAIN a : i \in DOMAIN c /\ c[i] = a[i]
      /\ \A i \in DOMAIN b : i + Len(a) \in DOMAIN c /\ c[i + Len(a)] = b[i]
      /\ \A i \in DOMAIN c : \/ i \in DOMAIN a /\ c[i] = a[i]
                             \/ i - Len(a) \in DOMAIN b /\ c[i] = b[i - Len(a)]
  BY Positions
<1> HIDE DEF c
<1>2. Silent(c) <=> Silent(a) /\ Silent(b)
  BY <1>1 DEF Silent
<1> QED BY <1>2 DEF c

LEMMA JoinedTells ==
    ASSUME NEW a \in Seq(Shown), NEW b \in Seq(Shown), NEW text
    PROVE  /\ TellsOnce(a, text) /\ Silent(b) => TellsOnce(a \o b, text)
           /\ Silent(a) /\ TellsOnce(b, text) => TellsOnce(a \o b, text)
           /\ TellsOnce(a \o b, text) /\ text \in Conclusive =>
                 \/ TellsOnce(a, text) /\ Silent(b)
                 \/ Silent(a) /\ TellsOnce(b, text)
<1> DEFINE c == a \o b
           n == Len(a)
<1>1. /\ \A i \in DOMAIN a : i \in DOMAIN c /\ c[i] = a[i]
      /\ \A i \in DOMAIN b : i + n \in DOMAIN c /\ c[i + n] = b[i]
      /\ \A i \in DOMAIN c : \/ i \in DOMAIN a /\ c[i] = a[i]
                             \/ i - n \in DOMAIN b /\ c[i] = b[i - n]
      /\ \A i \in DOMAIN a, j \in DOMAIN b : i # j + n
      /\ \A i, j \in DOMAIN b : i + n = j + n => i = j
      /\ n \in Nat /\ DOMAIN a \subseteq Nat /\ DOMAIN b \subseteq Nat /\ DOMAIN c \subseteq Nat
  <2>1. DOMAIN c \subseteq Nat
    OBVIOUS
  <2> QED BY <2>1, Positions
<1> HIDE DEF c, n
<1>2. ASSUME TellsOnce(a, text), Silent(b) PROVE TellsOnce(c, text)
  <2>1. PICK i \in DOMAIN a : a[i] = text /\ \A j \in DOMAIN a : a[j] \in Conclusive => j = i
    BY <1>2 DEF TellsOnce
  <2>2. \A j \in DOMAIN c : c[j] \in Conclusive => j = i
    BY <1>1, <1>2, <2>1 DEF Silent
  <2> QED BY <1>1, <2>1, <2>2 DEF TellsOnce
<1>3. ASSUME Silent(a), TellsOnce(b, text) PROVE TellsOnce(c, text)
  <2>1. PICK i \in DOMAIN b : b[i] = text /\ \A j \in DOMAIN b : b[j] \in Conclusive => j = i
    BY <1>3 DEF TellsOnce
  <2>2. ASSUME NEW j \in DOMAIN c, c[j] \in Conclusive PROVE j = i + n
    <3>1. j - n \in DOMAIN b /\ c[j] = b[j - n]
      BY <1>1, <1>3, <2>2 DEF Silent
    <3>2. j - n = i
      BY <2>1, <2>2, <3>1
    <3> QED BY <1>1, <3>2
  <2>3. i + n \in DOMAIN c /\ c[i + n] = text
    BY <1>1, <2>1
  <2> QED BY <2>2, <2>3 DEF TellsOnce
<1>4. ASSUME TellsOnce(c, text), text \in Conclusive
      PROVE  \/ TellsOnce(a, text) /\ Silent(b)
             \/ Silent(a) /\ TellsOnce(b, text)
  <2>1. PICK i \in DOMAIN c : c[i] = text /\ \A j \in DOMAIN c : c[j] \in Conclusive => j = i
    BY <1>4 DEF TellsOnce
  <2>2. \A j \in DOMAIN a : a[j] \in Conclusive => j = i
    BY <1>1, <2>1
  <2>3. \A j \in DOMAIN b : b[j] \in Conclusive => j + n = i
    BY <1>1, <2>1
  <2>4. CASE i \in DOMAIN a /\ c[i] = a[i]
    <3>1. TellsOnce(a, text)
      BY <2>1, <2>2, <2>4 DEF TellsOnce
    <3>2. \A j \in DOMAIN b : ~ (j + n = i)
      BY <1>1, <2>4
    <3>3. Silent(b)
      BY <2>3, <3>2, Zenon DEF Silent
    <3> QED BY <3>1, <3>3
  <2>5. CASE i - n \in DOMAIN b /\ c[i] = b[i - n]
    <3>1. i = (i - n) + n
      BY <1>1
    <3>2. Silent(a)
      BY <1>1, <2>2, <2>5, <3>1 DEF Silent
    <3>3. \A j \in DOMAIN b : b[j] \in Conclusive => j = i - n
      BY <1>1, <2>3, <2>5, <3>1
    <3>4. TellsOnce(b, text)
      BY <2>1, <2>5, <3>3 DEF TellsOnce
    <3> QED BY <3>2, <3>4
  <2> QED BY <1>1, <2>4, <2>5
<1> QED BY <1>2, <1>3, <1>4 DEF c

\* Texts by what they are.
LEMMA Texts ==
    /\ Closing \subseteq Conclusive /\ Closing \subseteq Finals \cap Shown
    /\ "error" \in Conclusive /\ "error" \in Shown /\ "error" \notin Finals
    /\ \A text \in {"progress", "auto", "note", "blob", "usage"} : text \in Shown \ Conclusive
    /\ "" \notin Closing /\ "blank" \notin Closing
    /\ {"answer", "question", "approval", "fakes", "maxturns"} \subseteq Closing
BY DEF Finals, Closing, Conclusive, Shown

LEMMA Singletons ==
    ASSUME NEW text \in Shown
    PROVE  /\ <<text>> \in Seq(Shown)
           /\ text \notin Conclusive => Silent(<<text>>)
           /\ TellsOnce(<<text>>, text)
<1>1. DOMAIN <<text>> = {1} /\ <<text>>[1] = text
  OBVIOUS
<1> QED BY <1>1, SingletonList DEF Silent, TellsOnce

LEMMA Nothing == << >> \in Seq(Shown) /\ Silent(<< >>) /\ \A s \in Seq(Shown) : s \o << >> = s
BY DEF Silent

-----------------------------------------------------------------------------
(* The inductive invariant.                                                *)

Reported == failed /\ pc = "done"

\* Until an error is reported, what was told of the end is the one closing text of the
\* branch that ended the run, if there is any.
TellsNow ==
    IF emitted /\ final \in Closing THEN TellsOnce(Told, final) ELSE Silent(Told)

\* After that it is the error, besides the closing text there may be.
ToldBoth ==
    /\ ErrorTold(shown)
    /\ \A i, j \in DOMAIN shown : shown[i] \in Closing /\ shown[j] \in Closing => i = j
    /\ emitted /\ final \in Closing => \E i \in DOMAIN shown : shown[i] = final

\* Branches that emit what they decide.
Spoken == {"answer", "question", "approval", "fakes", "maxturns"}

TextInv ==
    /\ ~ Reported => TellsNow
    /\ Reported => ToldBoth
    /\ failed => pc \in {"persist", "report", "done"}
    /\ failed /\ pc = "persist" => final = "" /\ emitted = FALSE
    /\ pc = "report" => failed
    /\ pc = "done" => pending = << >>
    /\ final \in Spoken => emitted
    /\ saved # "" => saved = final /\ pc \in {"report", "deliver", "done"}

LEMMA Joined ==
    ASSUME NEW a \in Seq(Shown), NEW b \in Seq(Shown), NEW c \in Seq(Shown)
    PROVE  (a \o b) \o c = a \o (b \o c)
OBVIOUS

\* The ways to emit, by what has been told then.
LEMMA Emissions ==
    ASSUME IInv, NEW texts \in Seq(Shown)
    PROVE  /\ Told \in Seq(Shown)
           /\ YieldAfter(texts) => Told' = Told \o texts /\ shown' = Told \o texts
           /\ Buffer(texts) => Told' = Told \o texts
<1>1. pending \in Seq(Shown) /\ shown \in Seq(Shown)
  BY DEF IInv, TypeOK
<1>2. Told \in Seq(Shown)
  BY <1>1 DEF Told
<1>3. ASSUME YieldAfter(texts) PROVE Told' = Told \o texts /\ shown' = Told \o texts
  <2>1. shown' = Told \o texts /\ pending' = << >>
    BY <1>3 DEF YieldAfter, Told
  <2>2. Told \o texts \in Seq(Shown)
    BY <1>2
  <2>3. Told' = shown' \o << >>
    BY <2>1, Zenon DEF Told
  <2> QED BY <2>1, <2>2, <2>3, Nothing, Zenon
<1>4. ASSUME Buffer(texts) PROVE Told' = Told \o texts
  <2>1. Told' = shown \o (pending \o texts)
    BY <1>4, Zenon DEF Buffer, Told
  <2>2. shown \o (pending \o texts) = (shown \o pending) \o texts
    BY <1>1
  <2> QED BY <2>1, <2>2, Zenon DEF Told
<1> QED BY <1>2, <1>3, <1>4

\* A step of the loop: what it tells besides, and what it decides.
LEMMA LoopText ==
    ASSUME IInv, TextInv, NEW texts \in Seq(Shown), Told' = Told \o texts,
           pc \in {"head", "llm", "tools"}, final = "", emitted = FALSE, failed = FALSE,
           pc' \in {"head", "llm", "tools", "persist"}, saved' = saved,
           \/ Silent(texts) /\ emitted' = FALSE /\ final' \notin Spoken
           \/ Silent(texts) /\ emitted' = TRUE /\ final' \in {"", "blank"}
           \/ TellsOnce(texts, final') /\ emitted' = TRUE /\ final' \in Closing,
           failed' = FALSE \/ (final' = "" /\ emitted' = FALSE /\ pc' = "persist")
    PROVE  TextInv'
<1>1. Told \in Seq(Shown) /\ Silent(Told) /\ saved = ""
  BY Emissions, Texts DEF TextInv, TellsNow, Reported
<1>2. ASSUME Silent(texts) PROVE Silent(Told')
  BY <1>1, <1>2, JoinedSilent
<1>3. ASSUME TellsOnce(texts, final') PROVE TellsOnce(Told', final')
  BY <1>1, <1>3, JoinedTells
<1>4. ~ Reported'
  BY DEF Reported
<1>5. TellsNow'
  <2>1. CASE Silent(texts) /\ emitted' = FALSE
    BY <1>2, <1>4, <2>1 DEF TellsNow, Silent
  <2>2. CASE Silent(texts) /\ emitted' = TRUE /\ final' \in {"", "blank"}
    BY <1>2, <1>4, <2>2, Texts DEF TellsNow, Silent
  <2>3. CASE TellsOnce(texts, final') /\ emitted' = TRUE /\ final' \in Closing
    BY <1>3, <1>4, <2>3 DEF TellsNow, TellsOnce
  <2> QED BY <2>1, <2>2, <2>3
<1>6. final' \in Spoken => emitted'
  BY DEF Spoken
<1> QED BY <1>1, <1>4, <1>5, <1>6 DEF TextInv

LEMMA ExhaustText == IInv /\ TextInv /\ Exhaust => TextInv'
<1> SUFFICES ASSUME IInv, TextInv, Exhaust PROVE TextInv'
  OBVIOUS
<1>1. pc = "head" /\ final = "" /\ emitted = FALSE /\ failed = FALSE
  BY DEF IInv, TypeOK, Undecided, TextInv, Exhaust
<1>2. /\ final' = "maxturns" /\ YieldAfter(<<"maxturns">>) /\ emitted' = TRUE /\ pc' = "persist"
      /\ saved' = saved /\ failed' = failed
  BY <1>1 DEF Exhaust
<1>3. "maxturns" \in Shown
  BY Texts
<1>4. <<"maxturns">> \in Seq(Shown) /\ TellsOnce(<<"maxturns">>, final') /\ final' \in Closing
  BY <1>2, <1>3, Singletons, Texts
<1>5. Told' = Told \o <<"maxturns">>
  BY <1>2, <1>4, Emissions
<1> QED BY <1>1, <1>2, <1>4, <1>5, LoopText

LEMMA SilentStep ==
    ASSUME IInv, TextInv, pc \in {"head", "llm"}, UNCHANGED <<shown, pending, saved, emitted>>,
           pc' \in {"head", "llm", "tools", "persist"}, final' \notin Spoken,
           failed' = failed \/ (final' = "" /\ pc' = "persist")
    PROVE  TextInv'
<1>1. final = "" /\ emitted = FALSE /\ failed = FALSE
  BY DEF IInv, TypeOK, Undecided, TextInv
<1>2. Told' = Told /\ Told \in Seq(Shown)
  BY Emissions, Nothing DEF Told
<1>3. Told' = Told \o << >>
  BY <1>2, Nothing
<1> QED BY <1>1, <1>3, LoopText, Nothing

LEMMA RoundText == IInv /\ TextInv /\ (TimeOut \/ BeginRound \/ ModelFails \/ ToolRound \/ EmptyRound) => TextInv'
<1> SUFFICES ASSUME IInv, TextInv, TimeOut \/ BeginRound \/ ModelFails \/ ToolRound \/ EmptyRound
             PROVE  TextInv'
  OBVIOUS
<1>1. pc \in {"head", "llm"} /\ UNCHANGED <<shown, pending, saved, emitted>>
  BY Zenon DEF TimeOut, BeginRound, ModelFails, ToolRound, EmptyRound
<1>2. final = ""
  BY <1>1 DEF IInv, Undecided
<1>3. final' \in {"", "timeout", "empties"} /\ pc' \in {"head", "llm", "tools", "persist"}
  BY <1>2, Zenon DEF TimeOut, BeginRound, ModelFails, ToolRound, EmptyRound
<1>4. failed' = failed \/ (final' = "" /\ pc' = "persist")
  BY <1>2, Zenon DEF TimeOut, BeginRound, ModelFails, ToolRound, EmptyRound
<1> QED BY <1>1, <1>3, <1>4, SilentStep DEF Spoken

LEMMA FakeText == ASSUME NEW kind, IInv, TextInv, FakeRound(kind) PROVE TextInv'
<1>1. pc = "llm" /\ final = "" /\ emitted = FALSE /\ failed = FALSE /\ failed' = FALSE
  BY DEF IInv, TypeOK, Undecided, TextInv, FakeRound
<1>2. CASE UNCHANGED <<final, emitted, pending, shown>> /\ pc' = "head"
  BY <1>1, <1>2, SilentStep DEF FakeRound, Spoken
<1>3. CASE final' = "fakes" /\ emitted' = TRUE /\ Buffer(<<"fakes">>) /\ pc' = "persist"
  <2>1. "fakes" \in Shown
    BY Texts
  <2>2. <<"fakes">> \in Seq(Shown) /\ TellsOnce(<<"fakes">>, final') /\ final' \in Closing
    BY <1>3, <2>1, Singletons, Texts
  <2>3. Told' = Told \o <<"fakes">>
    BY <1>3, <2>2, Emissions
  <2>4. saved' = saved
    BY DEF FakeRound
  <2> QED BY <1>1, <1>3, <2>2, <2>3, <2>4, LoopText
<1> QED BY <1>2, <1>3 DEF FakeRound

LEMMA FinalText == ASSUME NEW kind, NEW size, IInv, TextInv, FinalRound(kind, size) PROVE TextInv'
<1>1. pc = "llm" /\ final = "" /\ emitted = FALSE /\ failed = FALSE
  BY DEF IInv, TypeOK, Undecided, TextInv, FinalRound
<1>2. emitted' = TRUE /\ pc' = "persist" /\ saved' = saved /\ failed' = failed
  BY DEF FinalRound
<1>3. CASE ReplyOf(kind) \notin Closing
  <2>1. final' \in {"", "blank"} /\ YieldAfter(<< >>)
    BY <1>3, Texts DEF FinalRound, ReplyOf
  <2>2. Told' = Told \o << >>
    BY <2>1, Emissions, Nothing
  <2> QED BY <1>1, <1>2, <2>1, <2>2, LoopText, Nothing
<1>4. CASE ReplyOf(kind) \in Closing
  <2>1. final' = "answer" /\ YieldAfter(<<"answer">>)
    BY <1>4, Texts DEF FinalRound, ReplyOf
  <2>2. "answer" \in Shown /\ "answer" \in Closing
    BY Texts
  <2>3. <<"answer">> \in Seq(Shown) /\ TellsOnce(<<"answer">>, final')
    BY <2>1, <2>2, Singletons
  <2>4. Told' = Told \o <<"answer">>
    BY <2>1, <2>3, Emissions
  <2> QED BY <1>1, <1>2, <2>1, <2>2, <2>3, <2>4, LoopText
<1> QED BY <1>3, <1>4

\* A progress line is not a closing text.
LEMMA ProgressSilent ==
    ASSUME NEW c
    PROVE  Progress(c) \in Seq(Shown) /\ Silent(Progress(c))
<1>1. CASE Progress(c) = <<"progress">>
  BY <1>1, Texts, Singletons
<1>2. CASE Progress(c) = << >>
  BY <1>2, Nothing
<1> QED BY <1>1, <1>2 DEF Progress

\* What every call of a tool tells: its progress line, then at most one text.
LEMMA CallText ==
    ASSUME NEW c, IInv, TextInv, Executing(c), NEW texts \in Seq(Shown),
           pending' = pending \o Progress(c) \o texts,
           \/ Silent(texts) /\ emitted' = FALSE /\ final' \notin Spoken
           \/ TellsOnce(texts, final') /\ emitted' = TRUE /\ final' \in Closing
    PROVE  TextInv'
<1>1. /\ pc = "tools" /\ pc' = "tools" /\ shown' = shown /\ saved' = saved /\ failed' = failed
      /\ final = "" /\ emitted = FALSE /\ failed = FALSE
  BY CallAtHand DEF Executing, IInv, TypeOK, TextInv
<1> DEFINE said == Progress(c) \o texts
<1>2. said \in Seq(Shown)
  BY ProgressSilent, Positions
<1>3. pending' = pending \o said
  <2> DEFINE progress == Progress(c)
  <2>1. pending \in Seq(Shown) /\ progress \in Seq(Shown)
    BY ProgressSilent DEF IInv, TypeOK
  <2>2. pending' = (pending \o progress) \o texts
    OBVIOUS
  <2> HIDE DEF progress
  <2>3. (pending \o progress) \o texts = pending \o (progress \o texts)
    BY <2>1, Joined
  <2>4. pending' = pending \o (progress \o texts)
    BY <2>2, <2>3, Zenon
  <2> QED BY <2>4 DEF progress
<1>4. Silent(texts) => Silent(said)
  BY ProgressSilent, JoinedSilent
<1>5. TellsOnce(texts, final') => TellsOnce(said, final')
  BY ProgressSilent, JoinedTells
<1> HIDE DEF said
<1>6. Told' = Told \o said
  BY <1>1, <1>2, <1>3, Emissions DEF Buffer
<1>7. \/ Silent(said) /\ emitted' = FALSE /\ final' \notin Spoken
      \/ TellsOnce(said, final') /\ emitted' = TRUE /\ final' \in Closing
  BY <1>4, <1>5
<1> QED BY <1>1, <1>2, <1>6, <1>7, LoopText

LEMMA ToolText == IInv /\ TextInv /\ ToolStep => TextInv'
<1> SUFFICES ASSUME IInv, TextInv, ToolStep PROVE TextInv'
  OBVIOUS
<1>1. ASSUME NEW c, Executing(c), NextCall PROVE emitted' = FALSE /\ final' = ""
  BY <1>1, CallAtHand DEF NextCall
<1>2. ASSUME NEW c, UnknownTool(c) PROVE TextInv'
  <2>1. /\ Executing(c) /\ NextCall /\ pending' = pending
    BY <1>2, Zenon DEF UnknownTool
  <2>2. /\ pc = "tools" /\ pc' = "tools" /\ shown' = shown /\ saved' = saved /\ failed' = failed
        /\ final = "" /\ emitted = FALSE /\ failed = FALSE /\ emitted' = FALSE /\ final' = ""
    BY <1>1, <2>1, CallAtHand DEF Executing, IInv, TypeOK, TextInv
  <2>3. Told' = Told \o << >>
    BY <2>1, <2>2, Emissions, Nothing DEF Told
  <2> QED BY <2>2, <2>3, LoopText, Nothing DEF Spoken
<1>3. ASSUME NEW c, Executing(c), pending' = pending \o Progress(c), emitted' = FALSE, final' \notin Spoken
      PROVE  TextInv'
  <2>1. pending \o Progress(c) \in Seq(Shown)
    BY <1>3, ProgressType, Nothing
  <2>2. pending' = pending \o Progress(c) \o << >>
    BY <1>3, <2>1, Nothing
  <2> QED BY <1>3, <2>2, CallText, Nothing
<1>4. ASSUME NEW c, ToolFails(c) PROVE TextInv'
  <2>1. Executing(c) /\ NextCall /\ pending' = pending \o Progress(c)
    BY <1>4, Zenon DEF ToolFails
  <2> QED BY <1>1, <1>3, <2>1 DEF Spoken
<1>5. ASSUME NEW c, AnswersItself(c) PROVE TextInv'
  <2>1. Executing(c) /\ NextCall /\ pending' = pending \o Progress(c) \o <<"auto">>
    BY <1>5, Zenon DEF AnswersItself
  <2>2. <<"auto">> \in Seq(Shown) /\ Silent(<<"auto">>)
    BY Texts, Singletons
  <2> QED BY <1>1, <2>1, <2>2, CallText DEF Spoken
<1>6. ASSUME NEW c, AsksUser(c) \/ NeedsApproval(c) PROVE TextInv'
  <2>1. PICK text \in {"question", "approval"} :
          /\ Executing(c) /\ EndCalls(text) /\ emitted' = TRUE
          /\ pending' = pending \o Progress(c) \o <<text>>
    BY <1>6, Zenon DEF AsksUser, NeedsApproval
  <2>2. text \in Shown /\ text \in Closing /\ final' = text
    BY <2>1, Texts DEF EndCalls
  <2>3. <<text>> \in Seq(Shown) /\ TellsOnce(<<text>>, final')
    BY <2>2, Singletons
  <2> QED BY <2>1, <2>2, <2>3, CallText
<1>7. ASSUME NEW c, NEW digest, NEW size, ToolReturns(c, digest, size) PROVE TextInv'
  <2>1. Executing(c) /\ pending' = pending \o Progress(c) /\ (NextCall \/ (EndCalls("loop") /\ UNCHANGED emitted))
    BY <1>7, Zenon DEF ToolReturns
  <2>2. emitted' = FALSE /\ final' \in {"", "loop"}
    BY <1>1, <2>1, CallAtHand DEF EndCalls
  <2> QED BY <1>3, <2>1, <2>2 DEF Spoken
<1> QED BY <1>2, <1>4, <1>5, <1>6, <1>7, Zenon DEF ToolStep

LEMMA EndOfToolsText == IInv /\ TextInv /\ EndOfTools => TextInv'
<1> SUFFICES ASSUME IInv, TextInv, EndOfTools PROVE TextInv'
  OBVIOUS
<1>1. /\ pc = "tools" /\ YieldAfter(<< >>) /\ UNCHANGED <<emitted, failed, saved>> /\ ~ failed
      /\ pc' \in {"head", "persist"} /\ saved = ""
  BY DEF EndOfTools, TextInv
<1>2. Told' = Told
  BY <1>1, Emissions, Nothing
<1>3. TellsNow /\ ~ Reported /\ ~ Reported'
  BY <1>1 DEF TextInv, Reported
<1>4. final' = final \/ (final = "" /\ emitted = FALSE /\ final' \in {"", "files"})
  BY Zenon DEF EndOfTools, IInv, TypeOK, EmittedIsFinal
<1>5. TellsNow'
  BY <1>1, <1>2, <1>3, <1>4 DEF TellsNow, TellsOnce, Silent
<1>6. final' \in Spoken => emitted'
  BY <1>1, <1>4 DEF TextInv, Spoken
<1> QED BY <1>1, <1>3, <1>5, <1>6 DEF TextInv

\* Silent texts put before the buffer and after it change nothing of what is told.
LEMMA Spread ==
    ASSUME NEW s \in Seq(Shown), NEW one \in Seq(Shown), NEW p \in Seq(Shown), NEW r \in Seq(Shown),
           Silent(one), Silent(r)
    PROVE  /\ s \o one \o p \o r \in Seq(Shown)
           /\ Silent(s \o p) => Silent(s \o one \o p \o r)
           /\ \A text \in Conclusive : TellsOnce(s \o p, text) => TellsOnce(s \o one \o p \o r, text)
<1>1. /\ s \o one \in Seq(Shown)
      /\ Silent(s) => Silent(s \o one)
      /\ \A text \in Conclusive : TellsOnce(s, text) => TellsOnce(s \o one, text)
  BY Positions, JoinedSilent, JoinedTells
<1>2. /\ (s \o one) \o p \in Seq(Shown)
      /\ Silent(s \o p) => Silent((s \o one) \o p)
  BY <1>1, Positions, JoinedSilent
<1>3. ASSUME NEW text \in Conclusive, TellsOnce(s \o p, text) PROVE TellsOnce((s \o one) \o p, text)
  <2>1. \/ TellsOnce(s, text) /\ Silent(p)
        \/ Silent(s) /\ TellsOnce(p, text)
    BY <1>3, JoinedTells
  <2> DEFINE a == s \o one
  <2>2. \/ TellsOnce(a, text) /\ Silent(p)
        \/ Silent(a) /\ TellsOnce(p, text)
    BY <1>1, <2>1
  <2>3. a \in Seq(Shown)
    BY <1>1
  <2> HIDE DEF a
  <2>4. TellsOnce(a \o p, text)
    BY <2>2, <2>3, JoinedTells
  <2> QED BY <2>4 DEF a
<1>4. /\ s \o one \o p \o r \in Seq(Shown)
      /\ Silent((s \o one) \o p) => Silent(s \o one \o p \o r)
      /\ \A text \in Conclusive :
           TellsOnce((s \o one) \o p, text) => TellsOnce(s \o one \o p \o r, text)
  BY <1>2, Positions, JoinedSilent, JoinedTells
<1> QED BY <1>2, <1>3, <1>4

\* The first item of what is delivered goes out before the texts in the buffer.
LEMMA Delivered ==
    ASSUME IInv, Deliver, pc' = "done"
    PROVE  \E first \in Shown, rest \in Seq(Shown) :
              /\ first \notin Conclusive /\ Silent(rest)
              /\ shown' = shown \o <<first>> \o pending \o rest
<1>1. PICK there \in {exported, FALSE} :
        shown' = shown \o <<Head((IF there THEN <<"blob">> ELSE << >>) \o <<"usage">>)>>
                 \o pending
                 \o Tail((IF there THEN <<"blob">> ELSE << >>) \o <<"usage">>)
  BY Zenon DEF Deliver
<1> DEFINE blob == IF there THEN <<"blob">> ELSE << >>
           usage == <<"usage">>
<1>2. /\ blob \in Seq(Shown) /\ Silent(blob)
      /\ usage \in Seq(Shown) /\ Silent(usage) /\ Len(usage) = 1
  BY Texts, Singletons, Nothing
<1>3. shown' = shown \o <<Head(blob \o usage)>> \o pending \o Tail(blob \o usage)
  BY <1>1, Zenon
<1> HIDE DEF blob, usage
<1>4. blob \o usage \in Seq(Shown) /\ blob \o usage # << >>
  <2>1. blob \in Seq(Shown) /\ usage \in Seq(Shown) /\ Len(usage) = 1
    BY <1>2, Zenon
  <2> QED BY ONLY <2>1
<1>5. Silent(blob \o usage)
  BY <1>2, JoinedSilent
<1> DEFINE items == blob \o usage
           first == Head(items)
           rest == Tail(items)
<1>6. items \in Seq(Shown) /\ items # << >> /\ Silent(items)
  BY <1>4, <1>5
<1> HIDE DEF items
<1>7. first \in Shown /\ first \notin Conclusive
  BY <1>6 DEF Silent
<1>8. rest \in Seq(Shown) /\ \A i \in DOMAIN rest : i + 1 \in DOMAIN items /\ rest[i] = items[i + 1]
  BY <1>6
<1>9. Silent(rest)
  BY <1>8, <1>6 DEF Silent
<1>10. shown' = shown \o <<first>> \o pending \o rest
  BY <1>3 DEF items
<1> HIDE DEF first, rest
<1> QED BY <1>7, <1>8, <1>9, <1>10

\* An error reported between what was told and what is still in the buffer: the closing
\* text of either is the only one still.
LEMMA ErrorBetween ==
    ASSUME NEW s \in Seq(Shown), NEW p \in Seq(Shown)
    PROVE  LET all == s \o <<"error">> \o p
           IN  /\ ErrorTold(all)
               /\ Silent(s \o p) => \A i \in DOMAIN all : all[i] \notin Closing
               /\ \A text \in Closing : TellsOnce(s \o p, text) =>
                     /\ \A i, j \in DOMAIN all : all[i] \in Closing /\ all[j] \in Closing => i = j
                     /\ \E i \in DOMAIN all : all[i] = text
<1> DEFINE all == s \o <<"error">> \o p
           both == s \o p
           n == Len(s)
           old(i) == IF i <= n THEN i ELSE i - 1
<1>1. /\ n \in Nat /\ Len(p) \in Nat /\ Len(both) = n + Len(p) /\ Len(all) = n + 1 + Len(p)
      /\ DOMAIN both = 1 .. Len(both) /\ DOMAIN all = 1 .. Len(all)
      /\ all[n + 1] = "error"
      /\ \A i \in 1 .. n : all[i] = both[i]
      /\ \A i \in (n + 2) .. Len(all) : all[i] = both[i - 1]
  OBVIOUS
<1> HIDE DEF all, both, n
<1>2. n + 1 \in DOMAIN all /\ "error" \notin Closing
  <2>1. n + 1 \in DOMAIN all
    BY <1>1
  <2>2. "error" \notin Closing
    BY Texts
  <2> QED BY <2>1, <2>2
<1>3. ASSUME NEW i \in DOMAIN all, i # n + 1
      PROVE  old(i) \in DOMAIN both /\ all[i] = both[old(i)]
  <2>1. i \in 1 .. (n + 1 + Len(p))
    BY <1>1
  <2>2. CASE i <= n
    BY <1>1, <2>1, <2>2
  <2>3. CASE i > n
    <3>1. i \in (n + 2) .. Len(all) /\ i - 1 \in DOMAIN both
      <4>1. /\ n \in Nat /\ Len(p) \in Nat /\ i \in Int /\ i >= n + 2 /\ i <= n + 1 + Len(p)
            /\ Len(all) = n + 1 + Len(p) /\ Len(both) = n + Len(p)
            /\ DOMAIN both = 1 .. Len(both)
        BY <1>1, <1>3, <2>1, <2>3
      <4>2. i - 1 \in 1 .. (n + Len(p)) /\ i \in (n + 2) .. (n + 1 + Len(p))
        BY <4>1
      <4> QED BY <4>1, <4>2, Zenon
    <3>2. all[i] = both[i - 1]
      BY <1>1, <3>1
    <3>3. old(i) = i - 1
      BY <1>1, <2>1, <2>3
    <3> QED BY <3>1, <3>2, <3>3
  <2> QED BY <1>1, <2>1, <2>2, <2>3
<1>4. \A i, j \in DOMAIN all : i # n + 1 /\ j # n + 1 /\ old(i) = old(j) => i = j
  BY <1>1
<1>5. \A k \in DOMAIN both : \E i \in DOMAIN all : all[i] = both[k]
  <2> SUFFICES ASSUME NEW k \in DOMAIN both PROVE \E i \in DOMAIN all : all[i] = both[k]
    OBVIOUS
  <2>1. CASE k <= n
    BY <1>1, <2>1
  <2>2. CASE k > n
    <3>1. k + 1 \in (n + 2) .. Len(all) /\ (k + 1) - 1 = k
      BY <1>1, <2>2
    <3> QED BY <1>1, <3>1
  <2> QED BY <1>1, <2>1, <2>2
<1> HIDE DEF old
<1>6. ErrorTold(all)
  BY <1>1, <1>2 DEF ErrorTold
<1>7. ASSUME Silent(both) PROVE \A i \in DOMAIN all : all[i] \notin Closing
  BY <1>1, <1>2, <1>3, <1>7, Texts DEF Silent
<1>8. ASSUME NEW text \in Closing, TellsOnce(both, text)
      PROVE  /\ \A i, j \in DOMAIN all : all[i] \in Closing /\ all[j] \in Closing => i = j
             /\ \E i \in DOMAIN all : all[i] = text
  <2>1. PICK k \in DOMAIN both : both[k] = text /\ \A j \in DOMAIN both : both[j] \in Conclusive => j = k
    BY <1>8 DEF TellsOnce
  <2>2. \E i \in DOMAIN all : all[i] = text
    BY <1>5, <2>1
  <2>3. \A i \in DOMAIN all : all[i] \in Closing => i # n + 1 /\ old(i) = k
    BY <1>1, <1>2, <1>3, <2>1, Texts
  <2> QED BY <1>4, <2>2, <2>3
<1> QED BY <1>6, <1>7, <1>8 DEF all, both

\* The generator around the loop tells nothing that closes a run, but for an error.
LEMMA GeneratorText == IInv /\ TextInv /\ (Persist \/ Report \/ Deliver) => TextInv'
<1> SUFFICES ASSUME IInv, TextInv, Persist \/ Report \/ Deliver PROVE TextInv'
  OBVIOUS
<1>1. /\ pending \in Seq(Shown) /\ shown \in Seq(Shown) /\ Told \in Seq(Shown)
      /\ UNCHANGED <<final, emitted>>
  BY Emissions, Nothing DEF IInv, TypeOK, Persist, Report, Deliver
<1>2. CASE Persist
  <2>1. PICK texts \in {<<"note">>, << >>} : Buffer(texts)
    BY <1>2 DEF Persist
  <2>2. texts \in Seq(Shown) /\ Silent(texts)
    BY Texts, Singletons, Nothing
  <2>3. Told' = Told \o texts
    BY <2>1, <2>2, Emissions
  <2>4. /\ \A text : TellsOnce(Told, text) => TellsOnce(Told', text)
        /\ Silent(Told) => Silent(Told')
    BY <1>1, <2>2, <2>3, JoinedTells, JoinedSilent
  <2>5. ~ Reported /\ ~ Reported'
    BY <1>2 DEF Persist, Reported
  <2>6. TellsNow'
    BY <1>1, <2>4, <2>5 DEF TextInv, TellsNow, TellsOnce, Silent
  <2>7. /\ pc = "persist" /\ pc' = (IF failed THEN "report" ELSE "deliver") /\ failed' = failed
        /\ saved' = final \/ saved' = saved
    BY <1>2 DEF Persist
  <2> QED BY <1>1, <2>5, <2>6, <2>7 DEF TextInv
<1>3. CASE Report
  <2>1. /\ pc = "report" /\ pc' = "done" /\ pending' = << >> /\ saved' = saved /\ failed /\ failed'
        /\ shown' = shown \o <<"error">> \o pending
    BY <1>3 DEF Report, TextInv
  <2>2. Reported' /\ ~ Reported
    BY <2>1 DEF Reported
  <2>3. ToldBoth'
    BY <1>1, <2>1, <2>2, ErrorBetween DEF TextInv, TellsNow, ToldBoth, Told
  <2> QED BY <1>1, <2>1, <2>2, <2>3 DEF TextInv
<1>4. CASE Deliver /\ pc' = "done"
  <2>1. PICK first \in Shown, rest \in Seq(Shown) :
          /\ first \notin Conclusive /\ Silent(rest)
          /\ shown' = shown \o <<first>> \o pending \o rest
    BY <1>4, Delivered
  <2>2. <<first>> \in Seq(Shown) /\ Silent(<<first>>)
    BY <2>1, Singletons
  <2>3. /\ shown' \in Seq(Shown)
        /\ Silent(Told) => Silent(shown')
        /\ \A text \in Conclusive : TellsOnce(Told, text) => TellsOnce(shown', text)
    BY <1>1, <2>1, <2>2, Spread DEF Told
  <2>6. /\ pc = "deliver" /\ pc' = "done" /\ pending' = << >> /\ saved' = saved
        /\ ~ failed /\ failed' = failed
    BY <1>4, Zenon DEF Deliver, TextInv
  <2>7. Told' = shown'
    BY <2>3, <2>6, Nothing DEF Told
  <2>8. ~ Reported /\ ~ Reported'
    BY <1>1, <2>6 DEF Reported
  <2>9. final \in Closing => final \in Conclusive
    BY Texts
  <2>10. TellsNow'
    BY <1>1, <2>3, <2>7, <2>8, <2>9 DEF TextInv, TellsNow, TellsOnce, Silent
  <2> QED BY <1>1, <2>6, <2>8, <2>10 DEF TextInv
<1>5. CASE Deliver /\ pc' # "done"
  <2>1. /\ pc = "deliver" /\ pc' = "report" /\ failed' = TRUE
        /\ UNCHANGED <<pending, shown, saved>>
    BY <1>5, Zenon DEF Deliver
  <2>2. ~ Reported /\ ~ Reported' /\ Told' = Told
    BY <2>1 DEF Reported, Told
  <2>3. TellsNow'
    BY <1>1, <2>2 DEF TextInv, TellsNow, TellsOnce, Silent
  <2> QED BY <1>1, <2>1, <2>2, <2>3 DEF TextInv
<1> QED BY <1>2, <1>3, <1>4, <1>5

LEMMA NextText == IInv /\ TextInv /\ [Next]_vars => TextInv'
<1>1. ASSUME UNCHANGED vars, TextInv PROVE TextInv'
  BY <1>1 DEF vars, TextInv, TellsNow, ToldBoth, ErrorTold, Reported, Told, TellsOnce, Silent
<1> QED
  BY <1>1, ExhaustText, RoundText, FakeText, FinalText, ToolText, EndOfToolsText, GeneratorText, Zenon
  DEF Next, ModelRound, Finished

LEMMA InitText == Init => TextInv
<1> SUFFICES ASSUME Init PROVE TextInv
  OBVIOUS
<1>1. Told = << >>
  BY Nothing DEF Init, Told
<1>2. TellsNow
  BY <1>1, Nothing, Texts DEF Init, TellsNow
<1> QED BY <1>2 DEF Init, TextInv, Spoken, Reported

LEMMA AlwaysText == Spec => [](IInv /\ TextInv)
BY InitIInv, StepIInv, InitText, NextText, PTL DEF Spec

\* No error is told before the invocation is over.
LEMMA NoErrorYet == IInv /\ TextInv /\ ~ Reported => ~ ErrorTold(shown)
<1> SUFFICES ASSUME IInv, TextInv, ~ Reported PROVE ~ ErrorTold(shown)
  OBVIOUS
<1>1. shown \in Seq(Shown) /\ pending \in Seq(Shown)
  BY DEF IInv, TypeOK
<1>2. \A i \in DOMAIN Told : Told[i] # "error"
  BY Texts DEF TextInv, TellsNow, TellsOnce, Silent
<1>3. \A i \in DOMAIN shown : i \in DOMAIN Told /\ Told[i] = shown[i]
  BY <1>1, Positions DEF Told
<1> QED BY <1>2, <1>3 DEF ErrorTold

\* Over all the branches that emit one, the host gets at most one closing text, an error
\* besides just when the invocation failed, and the text kept as the turn's reply is the
\* one it got, unless nothing of it was visible.
THEOREM ReplyIsTheOneTold == Spec => []SavedAsTold
<1>1. ASSUME IInv, TextInv PROVE SavedAsTold
  <2>1. Told \in Seq(Shown)
    BY <1>1, Emissions, Nothing
  <2>2. Reported => pending = << >> /\ Told = shown
    BY <1>1, Nothing DEF TextInv, Told, Reported, IInv, TypeOK
  <2>3. \A i, j \in DOMAIN Told : Told[i] \in Closing /\ Told[j] \in Closing => i = j
    <3>1. CASE Reported
      BY <1>1, <2>2, <3>1 DEF TextInv, ToldBoth
    <3>2. CASE ~ Reported
      BY <1>1, <3>2, Texts DEF TextInv, TellsNow, TellsOnce, Silent
    <3> QED BY <3>1, <3>2
  <2>4. Cardinality(ClosingTexts(Told)) <= 1
    <3>1. CASE ClosingTexts(Told) = {}
      BY <3>1, FS_EmptySet
    <3>2. ASSUME NEW i \in ClosingTexts(Told) PROVE Cardinality(ClosingTexts(Told)) <= 1
      <4>1. ClosingTexts(Told) \subseteq {i}
        BY <2>3 DEF ClosingTexts
      <4>2. IsFiniteSet({i}) /\ Cardinality({i}) = 1
        BY FS_Singleton
      <4>3. Cardinality(ClosingTexts(Told)) <= Cardinality({i})
        BY <4>1, <4>2, FS_Subset
      <4> QED BY <4>2, <4>3
    <3> QED BY <3>1, <3>2
  <2>5. ErrorTold(shown) <=> pc = "done" /\ failed
    <3>1. CASE Reported
      BY <1>1, <3>1 DEF TextInv, ToldBoth, Reported
    <3>2. CASE ~ Reported
      BY <1>1, <3>2, NoErrorYet DEF Reported
    <3> QED BY <3>1, <3>2
  <2>6. ASSUME pc = "done", saved \in Spoken PROVE \E i \in DOMAIN shown : shown[i] = saved
    <3>1. saved = final /\ emitted /\ final \in Closing /\ pending = << >>
      BY <1>1, <2>6, Texts DEF TextInv, Spoken
    <3>2. Told = shown
      BY <1>1, <3>1, Nothing DEF Told, IInv, TypeOK
    <3>3. CASE Reported
      BY <1>1, <3>1, <3>3 DEF TextInv, ToldBoth
    <3>4. CASE ~ Reported
      BY <1>1, <3>1, <3>2, <3>4 DEF TextInv, TellsNow, TellsOnce
    <3> QED BY <3>3, <3>4
  <2> QED BY <2>4, <2>5, <2>6 DEF SavedAsTold, Told, Spoken
<1> QED BY <1>1, AlwaysText, PTL

-----------------------------------------------------------------------------
(* The invocation implements AgentTurn.                                    *)

\* What each closing text stands for.
LEMMA OutcomesOfTexts ==
    /\ \A text \in Finals : OutcomeOf(text) \in Turn!Outcomes /\ OutcomeOf(text) # "failed"
    /\ "failed" \in Turn!Outcomes /\ "stopped" \in Turn!Outcomes
    /\ "running" \notin Turn!Outcomes /\ "nothing" \notin Turn!Outcomes
<1>1. \A text : OutcomeOf(text) \in {"answered", "asked", "held", "stopped"}
  BY DEF OutcomeOf
<1> QED BY <1>1 DEF Turn!Outcomes

LEMMA SaidOf ==
    ASSUME NEW text \in Closing
    PROVE  /\ Silent(shown) => Said = "nothing"
           /\ TellsOnce(shown, text) => Said = OutcomeOf(text)
<1>1. ASSUME Silent(shown) PROVE Said = "nothing"
  <2>1. ClosingTexts(shown) = {} /\ ~ ErrorTold(shown)
    BY <1>1, Texts DEF Silent, ClosingTexts, ErrorTold
  <2> QED BY <2>1, Zenon DEF Said
<1>2. ASSUME TellsOnce(shown, text) PROVE Said = OutcomeOf(text)
  <2>1. PICK i \in DOMAIN shown :
          shown[i] = text /\ \A j \in DOMAIN shown : shown[j] \in Conclusive => j = i
    BY <1>2 DEF TellsOnce
  <2>2. ClosingTexts(shown) = {i} /\ ~ ErrorTold(shown)
    BY <2>1, Texts DEF ClosingTexts, ErrorTold
  <2>3. (CHOOSE j \in ClosingTexts(shown) : TRUE) = i
    BY <2>2
  <2>4. ClosingTexts(shown) # {}
    BY <2>2
  <2> QED BY <2>1, <2>2, <2>3, <2>4, Zenon DEF Said
<1> QED BY <1>1, <1>2

\* What the host has been told of the end of the run: nothing yet, the outcome of the
\* final text, or the error that was reported.
SaysItsOutcome ==
    /\ Outcome \in Turn!Outcomes \cup {"running"}
    /\ IF Reported THEN Said = "failed"
       ELSE \/ Silent(shown) /\ Said = "nothing"
            \/ ~ Silent(shown) /\ Said = OutcomeOf(final) /\ final \in Closing

LEMMA SaidIsOutcome == IInv /\ TextInv => SaysItsOutcome
<1> SUFFICES ASSUME IInv, TextInv PROVE SaysItsOutcome
  OBVIOUS
<1>1. shown \in Seq(Shown) /\ pending \in Seq(Shown) /\ final \in Finals
  BY DEF IInv, TypeOK
<1>2. /\ failed => Outcome = "failed"
      /\ ~ failed /\ final # "" => Outcome = OutcomeOf(final)
      /\ ~ failed /\ final = "" => Outcome \in {"running", "stopped"}
  BY DEF Outcome
<1>3. Outcome \in Turn!Outcomes \cup {"running"}
  BY <1>1, <1>2, OutcomesOfTexts
<1>4. CASE Reported
  <2>1. Said = "failed"
    BY <1>4 DEF TextInv, ToldBoth, Said
  <2> QED BY <1>3, <1>4, <2>1 DEF SaysItsOutcome
<1>5. CASE ~ Reported /\ ~ (emitted /\ final \in Closing)
  <2>1. Silent(Told)
    BY <1>5 DEF TextInv, TellsNow
  <2>2. Silent(shown)
    BY <1>1, <2>1, JoinedSilent DEF Told
  <2>3. Said = "nothing"
    BY <2>2, SaidOf, Texts
  <2> QED BY <1>3, <1>5, <2>2, <2>3 DEF SaysItsOutcome
<1>6. CASE ~ Reported /\ emitted /\ final \in Closing
  <2>1. TellsOnce(Told, final) /\ final \in Conclusive
    BY <1>6, Texts DEF TextInv, TellsNow
  <2>2. Silent(shown) \/ TellsOnce(shown, final)
    BY <1>1, <2>1, JoinedTells DEF Told
  <2>3. CASE Silent(shown)
    <3>1. Said = "nothing"
      BY <1>6, <2>3, SaidOf
    <3> QED BY <1>3, <1>6, <2>3, <3>1 DEF SaysItsOutcome
  <2>4. CASE TellsOnce(shown, final)
    <3>1. ~ Silent(shown)
      BY <2>1, <2>4 DEF TellsOnce, Silent
    <3>2. Said = OutcomeOf(final)
      BY <1>6, <2>4, SaidOf
    <3> QED BY <1>3, <1>6, <3>1, <3>2 DEF SaysItsOutcome
  <2> QED BY <2>2, <2>3, <2>4
<1> QED BY <1>4, <1>5, <1>6

\* What the host has been told stays told.
LEMMA ShownGrows ==
    ASSUME IInv, Next
    PROVE  \E texts \in Seq(Shown) : shown' = shown \o texts
<1>1. shown \in Seq(Shown) /\ pending \in Seq(Shown)
  BY DEF IInv, TypeOK
<1>2. CASE shown' = shown
  <2>1. shown' = shown \o << >>
    BY <1>1, <1>2, Nothing
  <2> QED BY <2>1, Nothing
<1>3. ASSUME NEW texts \in Seq(Shown), YieldAfter(texts)
      PROVE  \E more \in Seq(Shown) : shown' = shown \o more
  <2>1. shown' = (shown \o pending) \o texts
    BY <1>3, Zenon DEF YieldAfter
  <2>2. shown' = shown \o (pending \o texts)
    BY <1>1, <2>1, Joined
  <2>3. pending \o texts \in Seq(Shown)
    BY <1>1, Positions
  <2> QED BY <2>2, <2>3
<1>4. CASE Exhaust
  <2>1. final' \in Closing
    BY <1>4 DEF IInv, Undecided, Exhaust, Finals, Closing
  <2>2. <<final'>> \in Seq(Shown)
    BY <2>1, FinalsShown, Zenon
  <2> QED BY <1>3, <1>4, <2>2, Nothing, Zenon DEF Exhaust
<1>5. CASE TimeOut \/ BeginRound \/ ModelFails \/ ToolRound \/ EmptyRound \/ Finished
  BY <1>2, <1>5, Zenon DEF TimeOut, BeginRound, ModelFails, ToolRound, EmptyRound, Finished, vars
<1>6. ASSUME NEW kind, FakeRound(kind) PROVE shown' = shown
  BY <1>6 DEF FakeRound, Buffer
<1>7. ASSUME NEW kind, NEW size, FinalRound(kind, size)
      PROVE  YieldAfter(<< >>) \/ YieldAfter(<<"answer">>)
  BY <1>7, Zenon DEF FinalRound
<1>8. <<"answer">> \in Seq(Shown)
  BY FinalsShown, Texts
<1>9. CASE ModelRound
  BY <1>2, <1>3, <1>5, <1>6, <1>7, <1>8, <1>9, Nothing, Zenon DEF ModelRound
<1>10. CASE ToolStep
  <2>1. shown' = shown
    BY <1>10, Zenon DEF ToolStep, UnknownTool, ToolFails, AsksUser, AnswersItself, NeedsApproval,
                        ToolReturns, Executing
  <2> QED BY <1>2, <2>1
<1>11. CASE EndOfTools
  BY <1>3, <1>11, Nothing, Zenon DEF EndOfTools
<1>12. CASE Persist
  <2>1. shown' = shown
    BY <1>12, Zenon DEF Persist, Buffer
  <2> QED BY <1>2, <2>1
<1>13. CASE Report
  <2>1. <<"error">> \in Seq(Shown)
    BY Texts, Singletons
  <2>2. shown' = (shown \o <<"error">>) \o pending
    BY <1>13, Zenon DEF Report
  <2>3. shown' = shown \o (<<"error">> \o pending)
    BY <1>1, <2>1, <2>2, Joined
  <2>4. <<"error">> \o pending \in Seq(Shown)
    BY <1>1, <2>1, Positions
  <2> QED BY <2>3, <2>4
<1>14. CASE Deliver /\ pc' = "done"
  <2>1. PICK first \in Shown, rest \in Seq(Shown) : shown' = ((shown \o <<first>>) \o pending) \o rest
    BY <1>1, <1>14, Delivered
  <2> DEFINE one == <<first>>
  <2>2. one \in Seq(Shown)
    BY Singletons
  <2> HIDE DEF one
  <2>3. one \o pending \in Seq(Shown) /\ shown \o one \in Seq(Shown)
    BY <1>1, <2>2, Positions
  <2>4. shown' = (shown \o (one \o pending)) \o rest
    BY <1>1, <2>1, <2>2, Joined DEF one
  <2>5. shown' = shown \o ((one \o pending) \o rest)
    BY <1>1, <2>3, <2>4, Joined
  <2>6. (one \o pending) \o rest \in Seq(Shown)
    BY <2>3, Positions
  <2> QED BY <2>5, <2>6
<1>15. CASE Deliver /\ pc' # "done"
  <2>1. shown' = shown
    BY <1>15, Zenon DEF Deliver
  <2> QED BY <1>2, <2>1
<1> QED BY <1>4, <1>5, <1>9, <1>10, <1>11, <1>12, <1>13, <1>14, <1>15, Zenon DEF Next

\* A step of the loop: a failure concludes the run in silence, and without one a text
\* that was decided on stays the final text.
LEMMA WhileActing ==
    ASSUME IInv, TextInv, Next, pc \in Acting
    PROVE  /\ ~ failed /\ pc' \in Acting \cup {"persist"}
           /\ \/ failed' /\ final = "" /\ pc' = "persist" /\ shown' = shown
              \/ ~ failed' /\ (final # "" => final' = final)
<1>1. ~ failed
  BY DEF TextInv, Acting
<1>2. CASE ModelFails
  BY <1>1, <1>2 DEF ModelFails, IInv, Undecided, Acting
<1>3. CASE Exhaust \/ TimeOut \/ BeginRound \/ ToolRound \/ EmptyRound
           \/ (\E kind \in TextKinds : FakeRound(kind))
           \/ (\E kind \in TextKinds, size \in TextSizes : FinalRound(kind, size))
  <2>1. final = ""
    BY <1>3, Zenon DEF Exhaust, TimeOut, BeginRound, ToolRound, EmptyRound, FakeRound, FinalRound,
                       IInv, Undecided
  <2>2. pc' \in Acting \cup {"persist"} /\ failed' = failed
    BY <1>3, Zenon DEF Exhaust, TimeOut, BeginRound, ToolRound, EmptyRound, FakeRound, FinalRound, Acting
  <2> QED BY <1>1, <2>1, <2>2
<1>4. CASE ToolStep
  <2>1. pc = "tools" /\ pc' = pc /\ failed' = failed /\ calls # << >>
    BY <1>4, Zenon DEF ToolStep, UnknownTool, ToolFails, AsksUser, AnswersItself, NeedsApproval,
                       ToolReturns, Executing
  <2> QED BY <1>1, <2>1 DEF IInv, Undecided, Acting
<1>5. CASE EndOfTools
  BY <1>1, <1>5, Zenon DEF EndOfTools, Acting
<1>6. ~ (Persist \/ Report \/ Deliver \/ Finished)
  BY DEF Persist, Report, Deliver, Finished, Acting
<1> QED BY <1>2, <1>3, <1>4, <1>5, <1>6, Zenon DEF Next, ModelRound

\* What is told stays told.
LEMMA NotSilentAgain == ASSUME IInv, Next PROVE Silent(shown)' => Silent(shown)
<1>1. PICK texts \in Seq(Shown) : shown' = shown \o texts
  BY ShownGrows
<1>2. Silent(shown \o texts) => Silent(shown)
  BY JoinedSilent DEF IInv, TypeOK
<1> QED BY <1>1, <1>2 DEF Silent

\* A step that leaves a conclusion and its text as they are tells that text or nothing.
LEMMA Telling ==
    ASSUME IInv, TextInv, IInv', TextInv', Next,
           ~ failed, ~ failed', final # "", final' = final, ~ Reported, ~ Reported'
    PROVE  Turn!TurnNext \/ (Outcome' = Outcome /\ Said' = Said)
<1>1. SaysItsOutcome
  BY SaidIsOutcome
<1>2. SaysItsOutcome'
  BY SaidIsOutcome, PTL
<1>3. Outcome = OutcomeOf(final) /\ Outcome' = Outcome /\ Outcome # "running"
  BY OutcomesOfTexts DEF Outcome, OutcomeOf
<1>4. Silent(shown)' => Silent(shown)
  BY NotSilentAgain
<1>5. Said' = Said \/ (Said = "nothing" /\ Said' = OutcomeOf(final))
  BY <1>1, <1>2, <1>4 DEF SaysItsOutcome, OutcomeOf
<1> QED BY <1>3, <1>5 DEF Turn!TurnNext, Turn!Say

\* A turn comes to one outcome, says at most one closing text, that of its outcome, never
\* before it has concluded, and takes nothing back unless its files cannot be handed out:
\* every step of a run, over all the branches of the loop and of the generator around it,
\* is a step of AgentTurn or none.
THEOREM RunImplementsTurn == Spec => Turn!TurnInit /\ [][Turn!TurnNext]_(Turn!turnVars)
<1>1. Init => Turn!TurnInit
  <2> SUFFICES ASSUME Init PROVE Turn!TurnInit
    OBVIOUS
  <2>1. Outcome = "running"
    BY DEF Init, Outcome
  <2>2. Silent(shown)
    BY Nothing DEF Init
  <2> QED BY <2>1, <2>2, SaidOf, Texts DEF Turn!TurnInit
<1>2. (IInv /\ TextInv)' => SaysItsOutcome'
  BY SaidIsOutcome, PTL
<1>3. IInv /\ TextInv /\ (IInv /\ TextInv)' /\ [Next]_vars => [Turn!TurnNext]_(Turn!turnVars)
  <2> SUFFICES ASSUME IInv, TextInv, IInv', TextInv', [Next]_vars
               PROVE  Turn!TurnNext \/ (Outcome' = Outcome /\ Said' = Said)
    BY DEF Turn!turnVars
  <2>1. CASE UNCHANGED vars
    BY <2>1 DEF vars, Outcome, Said, ErrorTold, ClosingTexts
  <2>2. SaysItsOutcome /\ SaysItsOutcome'
    BY <1>2, SaidIsOutcome
  <2>3. shown' = shown => Said' = Said
    BY DEF Said, ErrorTold, ClosingTexts
  <2>4. CASE Next /\ pc \in Acting
    <3>1. /\ ~ failed /\ pc' \in Acting \cup {"persist"} /\ ~ Reported /\ ~ Reported'
          /\ \/ failed' /\ final = "" /\ pc' = "persist" /\ shown' = shown
             \/ ~ failed' /\ (final # "" => final' = final)
      BY <2>4, WhileActing DEF Reported, Acting
    <3>2. CASE failed'
      <4>1. Outcome = "running" /\ Outcome' = "failed" /\ Said' = Said
        BY <2>3, <2>4, <3>1, <3>2 DEF Outcome, Acting
      <4> QED BY <4>1, OutcomesOfTexts DEF Turn!TurnNext, Turn!Conclude
    <3>3. CASE ~ failed' /\ final # ""
      BY <2>4, <3>1, <3>3, Telling
    <3>4. CASE ~ failed' /\ final = ""
      <4>1. Outcome = "running" /\ Said = "nothing"
        BY <2>2, <2>4, <3>1, <3>4, Texts DEF Outcome, Acting, SaysItsOutcome
      <4>2. \/ Said' = "nothing"
            \/ Said' = OutcomeOf(final)' /\ final' \in Closing
        BY <2>2, <3>1 DEF SaysItsOutcome
      <4>3. final' \in Closing => Outcome' = OutcomeOf(final)'
        BY <3>4, Texts DEF Outcome
      <4>4. Outcome' \in Turn!Outcomes \cup {"running"}
        BY <2>2 DEF SaysItsOutcome
      <4>5. OutcomeOf(final)' # "running"
        BY DEF OutcomeOf
      <4> QED BY <4>1, <4>2, <4>3, <4>4, <4>5 DEF Turn!TurnNext, Turn!Conclude, Turn!ConcludeAndSay
    <3> QED BY <3>1, <3>2, <3>3, <3>4
  <2>5. CASE Next /\ pc \notin Acting
    <3>1. Persist \/ Report \/ Deliver \/ Finished
      BY <2>5, Zenon DEF Next, Exhaust, TimeOut, BeginRound, ModelRound, ModelFails, ToolRound,
           EmptyRound, FakeRound, FinalRound, EndOfTools, ToolStep, UnknownTool, ToolFails, AsksUser,
           AnswersItself, NeedsApproval, ToolReturns, Executing, Acting
    <3>2. final' = final /\ pc' \notin Acting
      BY <2>5, <3>1 DEF Persist, Report, Deliver, Finished, vars, Acting
    <3>3. failed' = failed => Outcome' = Outcome
      BY <2>5, <3>2 DEF Outcome, Acting
    <3>4. CASE Persist \/ Finished
      <4>1. shown' = shown /\ failed' = failed
        BY <3>4, Zenon DEF Persist, Buffer, Finished, vars
      <4> QED BY <2>3, <3>3, <4>1
    <3>5. CASE Report
      <4>1. failed /\ failed' /\ pc' = "done"
        BY <3>5 DEF Report, TextInv
      <4>2. Outcome = "failed" /\ Outcome' = "failed" /\ Said' = "failed"
        BY <2>2, <4>1 DEF Outcome, Reported, SaysItsOutcome
      <4> QED BY <4>2 DEF Turn!TurnNext, Turn!Say
    <3>6. CASE Deliver /\ pc' = "done"
      <4>1. ~ failed /\ failed' = failed /\ ~ Reported /\ ~ Reported'
        BY <3>6, Zenon DEF Deliver, TextInv, Reported
      <4>2. CASE final # ""
        BY <2>5, <3>2, <4>1, <4>2, Telling
      <4>3. CASE final = ""
        <5>1. Said = "nothing" /\ Said' = "nothing"
          BY <2>2, <3>2, <4>1, <4>3, Texts DEF SaysItsOutcome
        <5> QED BY <3>3, <4>1, <5>1
      <4> QED BY <4>2, <4>3
    <3>7. CASE Deliver /\ pc' # "done"
      <4>1. /\ pc = "deliver" /\ ~ failed /\ failed' = TRUE /\ shown' = shown
        BY <3>7, Zenon DEF Deliver, TextInv
      <4>2. Outcome \notin {"running", "failed"} /\ Outcome' = "failed" /\ Said' = Said
        BY <2>3, <4>1 DEF Outcome, OutcomeOf, IInv, TypeOK
      <4> QED BY <4>2 DEF Turn!TurnNext, Turn!Spoil
    <3> QED BY <3>1, <3>4, <3>5, <3>6, <3>7
  <2> QED BY <2>1, <2>4, <2>5
<1> QED BY <1>1, <1>3, AlwaysText, PTL DEF Spec

-----------------------------------------------------------------------------
(* The evidence that a tool has run.                                       *)

\* A tool result with at most n notes after it, and nothing else.
EvidenceAt(msgs, n) ==
    \E j \in DOMAIN msgs :
        /\ msgs[j].role = "tool" /\ Len(msgs) - j <= n
        /\ \A i \in DOMAIN msgs : i > j => msgs[i] = Note

\* Notes are counted by the rounds that write them; a round of tools ends with a result.
EvidenceInv ==
    /\ pc \in {"head", "llm"} /\ (\E i \in DOMAIN rounds : rounds[i] = "tools")
           => EvidenceAt(messages, empties + fakes)
    /\ pc = "tools" /\ calls = << >> => EvidenceAt(messages, 0)

LEMMA ResultIsEvidence ==
    ASSUME NEW msgs \in Seq(Message), NEW id \in CallIds, NEW n \in Nat
    PROVE  EvidenceAt(Append(msgs, ToolResult(id, n)), 0)
<1> DEFINE m == ToolResult(id, n)
           longer == Append(msgs, m)
<1>1. m \in Message /\ m.role = "tool"
  BY MessageTypes DEF ToolResult
<1> HIDE DEF m
<1>2. /\ Len(longer) = Len(msgs) + 1 /\ Len(msgs) \in Nat
      /\ DOMAIN longer = 1 .. Len(longer) /\ longer[Len(longer)] = m
  BY <1>1
<1> HIDE DEF longer
<1> QED BY <1>1, <1>2 DEF EvidenceAt, m, longer

LEMMA NoteKeepsEvidence ==
    ASSUME NEW msgs \in Seq(Message), NEW n \in Nat, EvidenceAt(msgs, n)
    PROVE  EvidenceAt(Append(msgs, Note), n + 1)
<1> DEFINE longer == Append(msgs, Note)
<1>1. PICK j \in DOMAIN msgs :
        /\ msgs[j].role = "tool" /\ Len(msgs) - j <= n
        /\ \A i \in DOMAIN msgs : i > j => msgs[i] = Note
  BY DEF EvidenceAt
<1>2. /\ Len(longer) = Len(msgs) + 1 /\ Len(msgs) \in Nat
      /\ DOMAIN longer = 1 .. Len(msgs) + 1 /\ longer[Len(msgs) + 1] = Note
      /\ \A i \in 1 .. Len(msgs) : longer[i] = msgs[i]
  BY MessageTypes
<1> HIDE DEF longer
<1>3. j \in 1 .. Len(msgs) /\ longer[j].role = "tool" /\ Len(longer) - j <= n + 1
  BY <1>1, <1>2
<1>4. \A i \in DOMAIN longer : i > j => longer[i] = Note
  <2> SUFFICES ASSUME NEW i \in DOMAIN longer, i > j PROVE longer[i] = Note
    OBVIOUS
  <2>1. CASE i = Len(msgs) + 1
    BY <1>2, <2>1
  <2>2. CASE i # Len(msgs) + 1
    <3>1. i \in 1 .. Len(msgs) /\ DOMAIN msgs = 1 .. Len(msgs)
      BY <1>2, <2>2
    <3> QED BY <1>1, <1>2, <3>1
  <2> QED BY <2>1, <2>2
<1>5. j \in DOMAIN longer
  BY <1>2, <1>3
<1>6. EvidenceAt(longer, n + 1)
  BY <1>3, <1>4, <1>5, Zenon DEF EvidenceAt
<1> QED BY <1>6 DEF longer

\* An interval from one on.
LEMMA UpTo == ASSUME NEW n \in Nat PROVE IsFiniteSet(1 .. n) /\ Cardinality(1 .. n) = n
<1>1. CASE n = 0
  <2>1. 1 .. n = {}
    BY <1>1
  <2> QED BY <1>1, <2>1, FS_EmptySet
<1>2. CASE n # 0
  BY <1>2, FS_Interval
<1> QED BY <1>1, <1>2

\* Notes weigh no more than one note for each place.
LEMMA NotesWeigh ==
    ASSUME NEW k \in Nat, NEW msgs, DOMAIN msgs = 1 .. k, \A i \in 1 .. k : msgs[i] = Note
    PROVE  ContentTokens(msgs) \in Nat /\ ContentTokens(msgs) <= k * NoteSize
<1> DEFINE sizes == [i \in DOMAIN msgs |-> msgs[i].size]
           tokens == UNION {{i} \X (1 .. sizes[i]) : i \in DOMAIN sizes}
           grid == (1 .. k) \X (1 .. NoteSize)
<1>1. DOMAIN sizes = 1 .. k /\ \A i \in 1 .. k : sizes[i] = NoteSize
  BY DEF Note, Plain
<1> HIDE DEF sizes
<1>2. tokens \subseteq grid
  BY <1>1
<1>3. IsFiniteSet(grid) /\ Cardinality(grid) = k * NoteSize
  <2>1. /\ IsFiniteSet(1 .. k) /\ Cardinality(1 .. k) = k
        /\ IsFiniteSet(1 .. NoteSize) /\ Cardinality(1 .. NoteSize) = NoteSize
    BY UpTo, TokenLimits, Zenon
  <2>2. IsFiniteSet(grid) /\ Cardinality(grid) = Cardinality(1 .. k) * Cardinality(1 .. NoteSize)
    BY <2>1, FS_Product, Zenon
  <2> QED BY <2>1, <2>2, Zenon
<1> HIDE DEF tokens, grid
<1>4. IsFiniteSet(tokens) /\ Cardinality(tokens) <= k * NoteSize
  BY <1>2, <1>3, FS_Subset
<1>5. Cardinality(tokens) \in Nat
  BY <1>4, FS_CardinalityType
<1> QED BY <1>4, <1>5 DEF tokens, ContentTokens, Total, sizes

\* A compaction cuts off at most what comes before the evidence, as long as the notes
\* after it weigh less than what it keeps.
LEMMA CutKeepsEvidence ==
    ASSUME 4 * NoteSize < KeepRecent,
           NEW msgs \in Seq(Message), NEW n \in 0 .. 4, EvidenceAt(msgs, n)
    PROVE  EvidenceAt(RecentTail(msgs), n)
<1>1. PICK j \in DOMAIN msgs :
        /\ msgs[j].role = "tool" /\ Len(msgs) - j <= n
        /\ \A i \in DOMAIN msgs : i > j => msgs[i] = Note
  BY DEF EvidenceAt
<1>2. Len(msgs) \in Nat /\ DOMAIN msgs = 1 .. Len(msgs) /\ j \in 1 .. Len(msgs)
  BY <1>1
<1>3. Cut(msgs) \in 1 .. Len(msgs)
  BY <1>2, CutIsPosition
<1>4. ASSUME NEW i \in 1 .. Len(msgs), i > j
      PROVE  ~ ContentTokens(SubSeq(msgs, i, Len(msgs))) >= KeepRecent
  <2> DEFINE k == Len(msgs) + 1 - i
             tail == SubSeq(msgs, i, Len(msgs))
  <2>1. k \in Nat /\ k <= n /\ k <= 4
    BY <1>1, <1>2, <1>4
  <2>2. DOMAIN tail = 1 .. k /\ \A l \in 1 .. k : tail[l] = msgs[l + i - 1]
    BY <1>2, <1>4
  <2>3. \A l \in 1 .. k : tail[l] = Note
    BY <1>1, <1>2, <1>4, <2>2
  <2> HIDE DEF k, tail
  <2>4. ContentTokens(tail) \in Nat /\ ContentTokens(tail) <= k * NoteSize
    BY <2>1, <2>2, <2>3, NotesWeigh
  <2>5. k * NoteSize <= 4 * NoteSize
    BY <2>1, TokenLimits
  <2>6. k * NoteSize \in Nat
    BY <2>1, TokenLimits
  <2> QED BY <2>4, <2>5, <2>6, TokenLimits DEF tail
<1>5. Cut(msgs) <= j
  <2> DEFINE enough == {i \in DOMAIN msgs :
                          ContentTokens(SubSeq(msgs, i, Len(msgs))) >= KeepRecent}
  <2>1. Cut(msgs) = IF enough = {} THEN 1
                    ELSE CHOOSE i \in enough : \A l \in enough : l <= i
    BY DEF Cut
  <2>2. enough \in SUBSET (1 .. Len(msgs)) /\ \A i \in enough : ~ i > j
    BY <1>2, <1>4
  <2> HIDE DEF enough
  <2>3. CASE enough = {}
    BY <1>2, <2>1, <2>3
  <2>4. CASE enough # {}
    <3>1. \E i \in enough : \A l \in enough : l <= i
      BY <1>2, <2>2, <2>4, LastPosition
    <3>2. Cut(msgs) \in enough
      BY <2>1, <2>4, <3>1
    <3> QED BY <1>2, <1>3, <2>2, <3>2
  <2> QED BY <2>3, <2>4
<1> DEFINE cut == Cut(msgs)
           kept == SubSeq(msgs, cut, Len(msgs))
<1>6. /\ DOMAIN kept = 1 .. Len(msgs) + 1 - cut /\ Len(kept) = Len(msgs) + 1 - cut
      /\ \A i \in DOMAIN kept : kept[i] = msgs[i + cut - 1]
  BY <1>2, <1>3
<1> HIDE DEF cut, kept
<1>7. cut \in 1 .. Len(msgs) /\ cut <= j
  BY <1>3, <1>5 DEF cut
<1>8. /\ j + 1 - cut \in DOMAIN kept /\ kept[j + 1 - cut] = msgs[j]
      /\ Len(kept) - (j + 1 - cut) = Len(msgs) - j
  <2> DEFINE at == j + 1 - cut
  <2>1. /\ Len(msgs) \in Nat /\ j \in 1 .. Len(msgs) /\ cut \in 1 .. Len(msgs) /\ cut <= j
    BY <1>2, <1>7
  <2>2. at \in 1 .. Len(msgs) + 1 - cut /\ at + cut - 1 = j
    BY <2>1
  <2>3. (Len(msgs) + 1 - cut) - at = Len(msgs) - j
    BY <2>1
  <2> HIDE DEF at
  <2>4. at \in DOMAIN kept
    BY <1>6, <2>2
  <2>5. kept[at] = msgs[j]
    BY <1>6, <2>2, <2>4
  <2>6. Len(kept) - at = Len(msgs) - j
    <3>1. Len(kept) = Len(msgs) + 1 - cut
      BY <1>6
    <3> QED BY <2>3, <3>1, Zenon
  <2>7. at \in DOMAIN kept /\ kept[at] = msgs[j] /\ Len(kept) - at = Len(msgs) - j
    BY <2>4, <2>5, <2>6
  <2> QED BY <2>7, Zenon DEF at
<1>9. \A i \in DOMAIN kept : i > j + 1 - cut => kept[i] = Note
  BY <1>1, <1>2, <1>6, <1>7
<1> QED BY <1>1, <1>8, <1>9 DEF EvidenceAt, RecentTail, cut, kept

\* A summary in front takes nothing away.
LEMMA SummaryKeepsEvidence ==
    ASSUME NEW msgs \in Seq(Message), NEW n \in Nat, EvidenceAt(msgs, n), NEW m \in Message
    PROVE  EvidenceAt(<<m>> \o msgs, n)
<1> DEFINE longer == <<m>> \o msgs
<1>1. PICK j \in DOMAIN msgs :
        /\ msgs[j].role = "tool" /\ Len(msgs) - j <= n
        /\ \A i \in DOMAIN msgs : i > j => msgs[i] = Note
  BY DEF EvidenceAt
<1>2. /\ Len(longer) = Len(msgs) + 1 /\ Len(msgs) \in Nat /\ DOMAIN msgs = 1 .. Len(msgs)
      /\ DOMAIN longer = 1 .. Len(msgs) + 1
      /\ \A i \in DOMAIN msgs : longer[i + 1] = msgs[i]
  OBVIOUS
<1> HIDE DEF longer
<1>3. j + 1 \in DOMAIN longer /\ longer[j + 1].role = "tool" /\ Len(longer) - (j + 1) <= n
  BY <1>1, <1>2
<1>4. ASSUME NEW i \in DOMAIN longer, i > j + 1 PROVE longer[i] = Note
  <2>1. i - 1 \in DOMAIN msgs /\ i - 1 > j /\ (i - 1) + 1 = i
    BY <1>1, <1>2, <1>4
  <2> QED BY <1>1, <1>2, <2>1
<1> QED BY <1>3, <1>4 DEF EvidenceAt, longer

\* Evidence close to the end is evidence within any wider reach.
LEMMA EvidenceWidens ==
    ASSUME NEW msgs \in Seq(Message), NEW n \in Nat, EvidenceAt(msgs, 0)
    PROVE  EvidenceAt(msgs, n)
<1>1. PICK j \in DOMAIN msgs :
        /\ msgs[j].role = "tool" /\ Len(msgs) - j <= 0
        /\ \A i \in DOMAIN msgs : i > j => msgs[i] = Note
  BY DEF EvidenceAt
<1>2. Len(msgs) \in Nat /\ DOMAIN msgs = 1 .. Len(msgs)
  OBVIOUS
<1>3. Len(msgs) - j <= n
  BY <1>1, <1>2
<1> QED BY <1>1, <1>3 DEF EvidenceAt

\* Compaction, with or without a summary, or none.
LEMMA BeginRoundKeepsEvidence ==
    ASSUME 4 * NoteSize < KeepRecent, IInv, EvidenceInv, BeginRound
    PROVE  EvidenceInv'
<1> DEFINE n == empties + fakes
<1>1. /\ messages \in Seq(Message) /\ summary \in Nat /\ n \in 0 .. 4
      /\ pc = "head" /\ pc' = "llm" /\ rounds' = rounds /\ n' = n
  BY DEF IInv, TypeOK, LimitsLeft, Acting, BeginRound
<1>2. SUFFICES ASSUME EvidenceAt(messages, n) PROVE EvidenceAt(messages', n)
  BY <1>1 DEF EvidenceInv
<1>3. RecentTail(messages) \in Seq(Message) /\ EvidenceAt(RecentTail(messages), n)
  BY <1>1, <1>2, TailIsMessages, CutKeepsEvidence
<1> HIDE DEF n
<1>4. CASE UNCHANGED <<messages, summary>>
  BY <1>2, <1>4
<1>5. CASE /\ summary' = summary + SummarySize
           /\ messages' = <<Plain("summary", summary')>> \o RecentTail(messages)
  <2>1. summary' \in Nat /\ "summary" \in Roles
    BY <1>1, <1>5, TokenLimits DEF Roles
  <2>2. Plain("summary", summary') \in Message
    BY <2>1, MessageTypes
  <2> QED BY <1>1, <1>3, <1>5, <2>2, SummaryKeepsEvidence
<1>6. CASE messages' = RecentTail(messages)
  BY <1>3, <1>6
<1> QED BY <1>4, <1>5, <1>6 DEF BeginRound

\* A round that only earns a note: it is one note further to the evidence.
LEMMA NotedRoundKeepsEvidence ==
    ASSUME IInv, EvidenceInv, pc = "llm", NEW kind, kind # "tools",
           rounds' = Append(rounds, kind),
           empties' + fakes' = empties + fakes + 1,
           messages' = Append(messages, Note), pc' = "head"
    PROVE  EvidenceInv'
<1>1. messages \in Seq(Message) /\ empties + fakes \in Nat /\ rounds \in Seq(RoundKinds)
  BY DEF IInv, TypeOK
<1>2. SUFFICES ASSUME \E i \in DOMAIN rounds' : rounds'[i] = "tools"
               PROVE  EvidenceAt(messages', empties' + fakes')
  BY DEF EvidenceInv
<1>3. \E i \in DOMAIN rounds : rounds[i] = "tools"
  <2>1. PICK i \in DOMAIN rounds' : rounds'[i] = "tools"
    BY <1>2
  <2>2. DOMAIN rounds = 1 .. Len(rounds) /\ Len(rounds) \in Nat
    BY <1>1
  <2>3. i \in 1 .. Len(rounds) + 1
    BY <1>1, <2>1, <2>2
  <2>4. i # Len(rounds) + 1
    BY <1>1, <2>1, <2>2
  <2>5. i \in DOMAIN rounds /\ rounds[i] = "tools"
    BY <1>1, <2>1, <2>2, <2>3, <2>4
  <2> QED BY <2>5
<1>4. EvidenceAt(messages, empties + fakes)
  BY <1>3 DEF EvidenceInv
<1> QED BY <1>1, <1>4, NoteKeepsEvidence

\* Whatever becomes of a tool call, the last message is its result.
LEMMA ToolStepLeavesEvidence ==
    ASSUME IInv, ToolStep
    PROVE  pc' = "tools" /\ EvidenceAt(messages', 0)
<1>1. messages \in Seq(Message)
  BY DEF IInv, TypeOK
<1>2. PICK c : /\ Executing(c)
               /\ \/ Feed(c, NoteSize)
                  \/ \E digest \in Digests, size \in ResultSizes :
                        messages' = messages
                           \o (IF WarnedNow(guard, c.sig, digest) THEN <<Note>> ELSE << >>)
                           \o <<ToolResult(c.id, size)>>
  BY Zenon DEF ToolStep, UnknownTool, ToolFails, AsksUser, AnswersItself, NeedsApproval,
               ToolReturns
<1>3. pc' = "tools" /\ c.id \in CallIds
  <2>1. c \in Call
    BY <1>2, CallAtHand
  <2> QED BY <1>2, <2>1 DEF Executing, Call
<1>4. CASE Feed(c, NoteSize)
  BY <1>1, <1>3, <1>4, ResultIsEvidence, TokenLimits DEF Feed
<1>5. ASSUME NEW digest \in Digests, NEW size \in ResultSizes,
             messages' = messages
                \o (IF WarnedNow(guard, c.sig, digest) THEN <<Note>> ELSE << >>)
                \o <<ToolResult(c.id, size)>>
      PROVE  EvidenceAt(messages', 0)
  <2> DEFINE warning == IF WarnedNow(guard, c.sig, digest) THEN <<Note>> ELSE << >>
             m == ToolResult(c.id, size)
  <2>1. warning \in Seq(Message)
    <3>1. <<Note>> \in Seq(Message) /\ << >> \in Seq(Message)
      BY MessageTypes
    <3> QED BY <3>1, Zenon
  <2>2. size \in Nat /\ m \in Message
    BY <1>3, MessageTypes, KernelConstants
  <2>3. messages' = messages \o warning \o <<m>>
    BY <1>5, Zenon
  <2>4. messages \o warning \in Seq(Message)
    <3> HIDE DEF warning
    <3> QED BY <1>1, <2>1
  <2> DEFINE before == messages \o warning
  <2>5. messages' = Append(before, m)
    <3>1. before \in Seq(Message) /\ messages' = before \o <<m>>
      BY <2>3, <2>4, Zenon
    <3> HIDE DEF before, m
    <3> QED BY <2>2, <3>1
  <2> HIDE DEF before
  <2> QED BY <1>3, <2>2, <2>4, <2>5, ResultIsEvidence DEF before
<1> QED BY <1>2, <1>3, <1>4, <1>5

\* Every step keeps the evidence.
LEMMA StepKeepsEvidence ==
    ASSUME 4 * NoteSize < KeepRecent, IInv, EvidenceInv, [Next]_vars
    PROVE  EvidenceInv'
<1>1. CASE pc' \notin Acting
  BY <1>1 DEF EvidenceInv, Acting
<1>2. CASE BeginRound
  BY <1>2, BeginRoundKeepsEvidence
<1>3. CASE ToolRound
  <2>1. PICK sigs \in Batches :
          calls' = [i \in DOMAIN sigs |-> [id |-> <<step, i>>, sig |-> sigs[i]]]
    BY <1>3 DEF ToolRound
  <2>2. sigs \in Seq(Sigs) /\ sigs # << >>
    BY KernelConstants
  <2>3. 1 \in DOMAIN sigs
    BY <2>2
  <2>4. 1 \in DOMAIN calls'
    BY <2>1, <2>3
  <2>5. calls' # << >>
    BY <2>4
  <2> QED BY <1>3, <2>5 DEF ToolRound, EvidenceInv
<1>4. CASE EmptyRound
  <2>1. /\ pc = "llm" /\ rounds' = Append(rounds, "empty")
        /\ empties' + fakes' = empties + fakes + 1
    BY <1>4 DEF EmptyRound, IInv, TypeOK
  <2>2. \/ messages' = Append(messages, Note) /\ pc' = "head"
        \/ pc' = "persist"
    BY <1>4, Zenon DEF EmptyRound
  <2> QED BY <1>1, <2>1, <2>2, NotedRoundKeepsEvidence DEF Acting
<1>5. ASSUME NEW kind \in TextKinds, FakeRound(kind) PROVE EvidenceInv'
  <2>1. /\ pc = "llm" /\ rounds' = Append(rounds, "fake")
        /\ empties' + fakes' = empties + fakes + 1
    BY <1>5 DEF FakeRound, IInv, TypeOK
  <2>2. \/ messages' = Append(messages, Note) /\ pc' = "head"
        \/ pc' = "persist"
    BY <1>5, Zenon DEF FakeRound
  <2> QED BY <1>1, <2>1, <2>2, NotedRoundKeepsEvidence DEF Acting
<1>6. CASE ToolStep
  BY <1>6, ToolStepLeavesEvidence DEF EvidenceInv
<1>7. CASE EndOfTools /\ pc' \in Acting
  <2>1. /\ messages' = messages /\ empties' = empties /\ fakes' = fakes
        /\ pc = "tools" /\ calls = << >> /\ pc' = "head"
    BY <1>7, Zenon DEF EndOfTools, Acting
  <2>2. messages \in Seq(Message) /\ empties + fakes \in Nat
    BY DEF IInv, TypeOK
  <2>3. EvidenceAt(messages, 0)
    BY <2>1 DEF EvidenceInv
  <2>4. EvidenceAt(messages', empties' + fakes')
    BY <2>1, <2>2, <2>3, EvidenceWidens
  <2> QED BY <2>1, <2>4, Zenon DEF EvidenceInv
<1>8. CASE UNCHANGED vars
  BY <1>8 DEF vars, EvidenceInv
<1>9. CASE \/ Exhaust \/ TimeOut \/ ModelFails \/ Persist \/ Report \/ Deliver
           \/ \E kind \in TextKinds, size \in TextSizes : FinalRound(kind, size)
  <2>1. pc' \in {"persist", "report", "deliver", "done"}
    BY <1>9, Zenon DEF Exhaust, TimeOut, ModelFails, Persist, Report, Deliver, FinalRound
  <2> QED BY <1>1, <2>1 DEF Acting
<1> QED BY <1>1, <1>2, <1>3, <1>4, <1>5, <1>6, <1>7, <1>8, <1>9, Zenon
        DEF Next, ModelRound, Finished

\* Once a tool has run, the fake-text guard finds a tool result in the messages on every
\* later round, however often they are compacted: as long as the four notes a run can
\* write without ending weigh less than what a compaction keeps.
THEOREM EvidenceIsKept ==
    ASSUME 4 * NoteSize < KeepRecent
    PROVE  Spec => []EvidenceSurvives
<1>1. Init => EvidenceInv
  <2> SUFFICES ASSUME Init PROVE EvidenceInv
    OBVIOUS
  <2>1. pc = "head" /\ rounds = << >>
    BY DEF Init
  <2>2. DOMAIN rounds = {}
    BY <2>1
  <2> QED BY <2>1, <2>2 DEF EvidenceInv
<1>2. IInv /\ EvidenceInv /\ [Next]_vars => EvidenceInv'
  BY StepKeepsEvidence
<1>3. EvidenceInv => EvidenceSurvives
  BY Zenon DEF EvidenceInv, EvidenceSurvives, EvidenceAt, HasToolResult
<1> QED BY <1>1, <1>2, <1>3, InvariantHolds, PTL DEF Spec
=============================================================================
