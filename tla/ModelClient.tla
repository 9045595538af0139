---------------------------- MODULE ModelClient ----------------------------
(***************************************************************************)
(* The calls of the language model that one invocation makes: rounds of    *)
(* the agent, whose answers are collected and split into reasoning and     *)
(* text (core/llm.py), and plain calls for summaries and memory, both over *)
(* the session of the host (adapters/dify/llm_client.py), with the sum of  *)
(* what they used (core/usage.py).                                         *)
(*                                                                         *)
(* The provider answers with a stream of chunks or with a whole message,   *)
(* or fails, at once or in the middle of a stream.  Text is a sequence of  *)
(* tokens: words, and the tags that older models put around their          *)
(* reasoning; a stream that cuts a tag in two is the same text.  Newer     *)
(* models send their reasoning aside.  Parts that are no text are left     *)
(* out.                                                                    *)
(***************************************************************************)
EXTENDS Naturals, Sequences, FiniteSets, SequencesExt

CONSTANTS
    Currencies,
    Mixed,      \* the currency of a sum over several
    None,       \* no currency, no usage, no round
    MaxTokens,  \* bound: tokens of an answer
    MaxCalls    \* bound: calls of an invocation

ASSUME ModelClientConstants ==
    /\ Mixed \notin Currencies /\ None \notin Currencies \cup {Mixed}
    /\ MaxTokens \in Nat /\ MaxCalls \in Nat

VARIABLES
    pc, calls,
    kind,      \* of the call: a round, or plain
    text,      \* content received so far
    aside,     \* reasoning received aside
    acts,      \* has a tool call been received
    answer,    \* what the last call returned
    meter,     \* LLMUsageAccumulator: the sum, and its currency
    \* history
    bills,     \* usage the provider sent, with its currency, in order
    whole      \* of these, the ones that came with a whole message

answerVars == <<text, aside, acts>>
vars == <<pc, calls, kind, answerVars, answer, meter, bills, whole>>

\* Tokens are numbered as they come; what comes aside has a number of its own.
AsideToken == <<"aside", MaxTokens + 1>>
Tokens == {"open", "close", "word"} \X (1 .. MaxTokens) \cup {AsideToken}
Bills == Currencies \cup {None}   \* every usage is of one unit
Round == [text : Seq(Tokens), reasoning : Seq(Tokens), acts : BOOLEAN]

\* Where the tokens of a sort are, and the tokens at some places, in order.
Places(s, sort) == {i \in DOMAIN s : s[i][1] = sort}
Picked(s, places) ==
    [n \in 1 .. Cardinality(places) |->
        s[CHOOSE i \in places : Cardinality({j \in places : j <= i}) = n]]

Balanced(s) == Cardinality(Places(s, "open")) = Cardinality(Places(s, "close"))

\* The text without tags: _THINK_TAG_RE.sub("", ...).
Untagged(s) == Picked(s, Places(s, "word"))

-----------------------------------------------------------------------------
(* Text and reasoning, llm.py:51-85 and 160-162.                           *)

\* The first tag, and the first that closes it: the match is not greedy.
First(places) == IF places = {} THEN 0 ELSE CHOOSE i \in places : \A j \in places : i <= j
OpenedAt(s) == First(Places(s, "open"))
ClosedAt(s) == First({j \in Places(s, "close") : j > OpenedAt(s)})

\* Mutant of Body: only what follows the region.
BodyAfter(s, i, j) == Untagged(SubSeq(s, j + 1, Len(s)))

\* Mutant of Body: the reasoning is copied out of the text, not cut.
BodyWhole(s, i, j) == Untagged(s)

Body(s, i, j) == Untagged(SubSeq(s, 1, i - 1) \o SubSeq(s, j + 1, Len(s)))

\* The first region is the reasoning; one that is not closed takes all that follows.
SplitThinkTags(s) ==
    LET i == OpenedAt(s) j == IF i = 0 THEN 0 ELSE ClosedAt(s) IN
    CASE i = 0 -> [reasoning |-> << >>, body |-> s]
      [] i # 0 /\ j = 0 -> [reasoning |-> Untagged(SubSeq(s, i, Len(s))),
                            body |-> SubSeq(s, 1, i - 1)]
      [] j # 0 -> [reasoning |-> SubSeq(s, i + 1, j - 1), body |-> Body(s, i, j)]

\* What the user sees of the text of a round.
VisibleText(s) == IF Balanced(s) THEN s ELSE Untagged(s)

\* collect_round: tags are looked at when nothing came aside; when they hold no word,
\* they stay.
CollectRound(s, a) ==
    LET split == SplitThinkTags(s) IN
    IF a = << >> /\ split.reasoning # << >>
    THEN [text |-> split.body, reasoning |-> split.reasoning, acts |-> acts]
    ELSE [text |-> s, reasoning |-> a, acts |-> acts]

-----------------------------------------------------------------------------
(* Usage, usage.py:42-68.                                                  *)

\* Mutant of Recorded: the sum starts anew with every report.
RecordedLast(m, cur) == [m EXCEPT !.sum = 1, !.currency = IF cur = None THEN @ ELSE cur]

Recorded(m, cur) ==
    [sum |-> m.sum + 1,
     currency |-> CASE cur = None -> m.currency
                    [] m.currency = None -> cur
                    [] OTHER -> IF m.currency = cur THEN cur ELSE Mixed]

\* A report of a chunk is counted as the chunk is read, one of a whole message never.
Bill(cur, counted) ==
    /\ bills' = Append(bills, cur)
    /\ meter' = IF counted THEN Recorded(meter, cur) ELSE meter
    /\ whole' = IF counted THEN whole ELSE whole \cup {Len(bills')}

NoBill == UNCHANGED <<bills, meter, whole>>
Billed == Len(bills) = calls

-----------------------------------------------------------------------------
(* Calls, llm_client.py:35-126.                                            *)

Init ==
    /\ pc = "idle" /\ calls = 0 /\ kind = "round"
    /\ text = << >> /\ aside = << >> /\ acts = FALSE
    /\ answer = None
    /\ meter = [sum |-> 0, currency |-> None]
    /\ bills = << >> /\ whole = {}

Ask(k) ==
    /\ pc = "idle" /\ calls < MaxCalls
    /\ calls' = calls + 1 /\ kind' = k
    /\ text' = << >> /\ aside' = << >> /\ acts' = FALSE
    /\ answer' = None
    /\ pc' = "asked"
    /\ NoBill

\* TypeError: an older SDK does not know a keyword; the call is made again without the
\* tools, or without asking for no stream.
AskAgain ==
    /\ pc = "asked"
    /\ pc' = "again"
    /\ UNCHANGED <<calls, kind, answerVars, answer>> /\ NoBill

\* Any other exception, and any of the second call.
Fails ==
    /\ pc \in {"asked", "again"}
    /\ pc' = "idle"
    /\ UNCHANGED <<calls, kind, answerVars, answer>> /\ NoBill

Streams ==
    /\ pc \in {"asked", "again"}
    /\ pc' = "stream"
    /\ UNCHANGED <<calls, kind, answerVars, answer>> /\ NoBill

\* The content a provider may go on with: it closes only what it has opened.
More(s) ==
    LET n == Len(s) + 1 IN
    IF n > MaxTokens THEN {s}
    ELSE {s} \cup {Append(s, <<"word", n>>), Append(s, <<"open", n>>)}
             \cup (IF Cardinality(Places(s, "open")) > Cardinality(Places(s, "close"))
                   THEN {Append(s, <<"close", n>>)} ELSE {})

\* Reasoning comes aside or between tags, now and then both.
MoreAside(a) == {a} \cup (IF Len(a) < 1 THEN {Append(a, AsideToken)} ELSE {})

\* What a call answers is read from the chunks; a plain call reads their content only.
Chunk ==
    /\ pc = "stream"
    /\ text' \in More(text)
    /\ aside' \in MoreAside(aside)
    /\ acts' \in {acts, kind = "round"}
    /\ \/ ~ Billed /\ \E cur \in Bills : Bill(cur, TRUE)
       \/ NoBill
    /\ UNCHANGED <<pc, calls, kind, answer>>

\* The exception leaves the loop over the chunks, and with it the call.
StreamBreaks ==
    /\ pc = "stream"
    /\ pc' = "idle"
    /\ UNCHANGED <<calls, kind, answerVars, answer>> /\ NoBill

StreamEnds ==
    /\ pc = "stream"
    /\ answer' = IF kind = "round" THEN CollectRound(text, aside)
                 ELSE [text |-> text, reasoning |-> << >>, acts |-> FALSE]
    /\ pc' = "idle"
    /\ UNCHANGED <<calls, kind, answerVars>> /\ NoBill

\* A whole message grows where the code does not see it, and arrives with its usage.
WholeMessage ==
    /\ pc \in {"asked", "again"}
    /\ pc' = "whole"
    /\ UNCHANGED <<calls, kind, answerVars, answer>> /\ NoBill

Compose ==
    /\ pc = "whole"
    /\ text' \in More(text) /\ aside' \in MoreAside(aside) /\ acts' \in {acts, kind = "round"}
    /\ UNCHANGED <<pc, calls, kind, answer>> /\ NoBill

\* Mutant of Materialized: a message without reasoning has none.
MaterializedNone ==
    [text |-> SplitThinkTags(text).body, reasoning |-> IF aside = << >> THEN None ELSE aside,
     acts |-> acts]

\* Without reasoning aside the text is split, whatever is between the tags.
Materialized ==
    IF aside # << >> THEN [text |-> text, reasoning |-> aside, acts |-> acts]
    ELSE LET split == SplitThinkTags(text)
         IN  [text |-> split.body, reasoning |-> split.reasoning, acts |-> acts]

WholeArrives ==
    /\ pc = "whole"
    /\ answer' = IF kind = "round" THEN Materialized
                 ELSE [text |-> text, reasoning |-> << >>, acts |-> FALSE]
    /\ \E cur \in Bills : Bill(cur, FALSE)
    /\ pc' = "idle"
    /\ UNCHANGED <<calls, kind, answerVars>>

Next ==
    \/ \E k \in {"round", "plain"} : Ask(k)
    \/ AskAgain \/ Fails
    \/ Streams \/ Chunk \/ StreamBreaks \/ StreamEnds
    \/ WholeMessage \/ Compose \/ WholeArrives

Spec == Init /\ [][Next]_vars

-----------------------------------------------------------------------------
(* Properties.                                                             *)

TypeOK ==
    /\ pc \in {"idle", "asked", "again", "stream", "whole"}
    /\ calls \in 0 .. MaxCalls /\ kind \in {"round", "plain"}
    /\ {text, aside} \subseteq Seq(Tokens) /\ acts \in BOOLEAN
    /\ answer = None \/ answer \in Round
    /\ meter \in [sum : 0 .. MaxCalls, currency : Currencies \cup {Mixed, None}]
    /\ bills \in Seq(Bills) /\ whole \subseteq DOMAIN bills

Answered == pc = "idle" /\ answer # None /\ kind = "round"

\* Words that are in no region, by counting the tags before them.
Outside(s) == Picked(s, {i \in Places(s, "word") : Balanced(SubSeq(s, 1, i))})

\* The tokens of `s' that `u' holds too.
Those(s, u) == Picked(s, {i \in DOMAIN s : s[i] \in ToSet(u)})

\* Whatever the model says between tags, before, between or after them, and however the
\* answer arrives, the user sees all that it says outside of them, in order, and no
\* region is left open in what he sees, in which the host would hide the rest
\* (llm.py:15-17, 51-63).
AnswerShown ==
    Answered =>
        LET said == Outside(text)
            seen == VisibleText(answer.text)
        IN  /\ Those(seen, said) = said
            /\ \A i \in Places(seen, "open") : \E j \in Places(seen, "close") : i < j

\* Each word the model said is in the text of the round or in its reasoning, never in
\* both and never lost, in the order it was said (llm.py:66-85, 137-157).
EveryWordOnce ==
    Answered =>
        LET words(s) == Picked(s, Places(s, "word") \cup Places(s, "aside"))
            kept == words(answer.text) thought == words(answer.reasoning)
            said == words(text) \o aside
        IN  /\ Len(kept) + Len(thought) = Len(said)
            /\ kept = Those(said, kept)
            /\ thought = Those(said, thought)

\* The usage told at the end is that of all streams, those that broke off included, in
\* their currency if they have but one; that of whole messages is not in it
\* (usage.py:42-68, llm_client.py:66-85, 109-120).
UsageTold ==
    LET counted == DOMAIN bills \ whole
        currencies == {bills[i] : i \in counted} \ {None}
    IN  /\ meter.sum = Cardinality(counted)
        /\ CASE currencies = {} -> meter.currency = None
             [] Cardinality(currencies) = 1 -> meter.currency \in currencies
             [] OTHER -> meter.currency = Mixed
=============================================================================
