--------------------------- MODULE RecordsProofs ---------------------------
(***************************************************************************)
(* What holds of the records of turns for every number of workers,         *)
(* conversations, users, days and faults: a history holds the last turns   *)
(* told and a digest the first of its day, unless a record was written     *)
(* over what was outdated; the collection serves the user it is charged    *)
(* to; and a prompt has what was saved today.                              *)
(***************************************************************************)
EXTENDS Records, TLAPS

-----------------------------------------------------------------------------
(* Cutting sequences at either end.                                        *)

LEMMA LastOfType ==
    ASSUME NEW S, NEW s \in Seq(S), NEW n \in Nat \ {0}
    PROVE  /\ LastOf(s, n) \in Seq(S)
           /\ Len(LastOf(s, n)) = IF Len(s) <= n THEN Len(s) ELSE n
           /\ Len(LastOf(s, n)) <= n
           /\ \A i \in 1 .. Len(LastOf(s, n)) :
                  LastOf(s, n)[i] = s[i + Len(s) - Len(LastOf(s, n))]
<1>1. CASE Len(s) <= n
  BY <1>1 DEF LastOf
<1>2. CASE ~ (Len(s) <= n)
  <2>1. LastOf(s, n) = SubSeq(s, Len(s) - n + 1, Len(s)) /\ Len(s) - n + 1 \in 1 .. Len(s)
    BY <1>2 DEF LastOf
  <2> QED BY <1>2, <2>1
<1> QED BY <1>1, <1>2

LEMMA FirstOfType ==
    ASSUME NEW S, NEW s \in Seq(S), NEW n \in Nat \ {0}
    PROVE  /\ FirstOf(s, n) \in Seq(S)
           /\ Len(FirstOf(s, n)) = IF Len(s) <= n THEN Len(s) ELSE n
           /\ Len(FirstOf(s, n)) <= n
           /\ \A i \in 1 .. Len(FirstOf(s, n)) : FirstOf(s, n)[i] = s[i]
<1>1. CASE Len(s) <= n
  BY <1>1 DEF FirstOf
<1>2. CASE ~ (Len(s) <= n)
  <2>1. FirstOf(s, n) = SubSeq(s, 1, n) /\ n \in 1 .. Len(s)
    BY <1>2 DEF FirstOf
  <2> QED BY <1>2, <2>1
<1> QED BY <1>1, <1>2

\* Sequences are equal when their elements are.
LEMMA SameElements ==
    ASSUME NEW S, NEW s \in Seq(S), NEW t \in Seq(S), Len(s) = Len(t),
           \A i \in 1 .. Len(s) : s[i] = t[i]
    PROVE  s = t
OBVIOUS

\* A record that keeps the last turns may forget those it has cut off.
LEMMA LastOfAppend ==
    ASSUME NEW S, NEW s \in Seq(S), NEW e \in S, NEW n \in Nat \ {0}
    PROVE  LastOf(Append(LastOf(s, n), e), n) = LastOf(Append(s, e), n)
<1> DEFINE short == Append(LastOf(s, n), e)
           long == Append(s, e)
<1>1. LastOf(s, n) \in Seq(S) /\ Len(s) \in Nat
  BY LastOfType
<1>2. /\ short \in Seq(S) /\ Len(short) = Len(LastOf(s, n)) + 1
      /\ \A i \in 1 .. Len(LastOf(s, n)) : short[i] = LastOf(s, n)[i]
      /\ short[Len(short)] = e
  BY <1>1
<1>3. /\ long \in Seq(S) /\ Len(long) = Len(s) + 1
      /\ \A i \in 1 .. Len(s) : long[i] = s[i]
      /\ long[Len(long)] = e
  OBVIOUS
<1>4. \A i \in 1 .. Len(short) : short[i] = long[i + Len(long) - Len(short)]
  <2> SUFFICES ASSUME NEW i \in 1 .. Len(short)
               PROVE  short[i] = long[i + Len(long) - Len(short)]
    OBVIOUS
  <2>1. CASE i = Len(short)
    BY <1>2, <1>3, <2>1
  <2>2. CASE i # Len(short)
    <3> DEFINE j == i + Len(s) - Len(LastOf(s, n))
    <3>1. i \in 1 .. Len(LastOf(s, n)) /\ Len(LastOf(s, n)) <= Len(s)
      BY <1>1, <1>2, <2>2, LastOfType
    <3>2. short[i] = s[j] /\ j \in 1 .. Len(s)
      BY <1>1, <1>2, <3>1, LastOfType
    <3>3. j = i + Len(long) - Len(short)
      BY <1>1, <1>2, <1>3
    <3> HIDE DEF j, short, long
    <3> QED BY <1>3, <3>2, <3>3
  <2> QED BY <2>1, <2>2
<1> HIDE DEF short, long
<1>5. /\ LastOf(short, n) \in Seq(S) /\ LastOf(long, n) \in Seq(S)
      /\ Len(LastOf(short, n)) = Len(LastOf(long, n))
  BY <1>1, <1>2, <1>3, LastOfType
<1>6. \A i \in 1 .. Len(LastOf(long, n)) : LastOf(short, n)[i] = LastOf(long, n)[i]
  <2> SUFFICES ASSUME NEW i \in 1 .. Len(LastOf(long, n))
               PROVE  LastOf(short, n)[i] = LastOf(long, n)[i]
    OBVIOUS
  <2> DEFINE m == Len(LastOf(long, n))
             j == i + Len(short) - m
  <2>1. /\ LastOf(long, n)[i] = long[i + Len(long) - Len(LastOf(long, n))]
        /\ LastOf(short, n)[i] = short[i + Len(short) - Len(LastOf(short, n))]
    <3>1. \A k \in 1 .. Len(LastOf(long, n)) :
              LastOf(long, n)[k] = long[k + Len(long) - Len(LastOf(long, n))]
      BY <1>3, LastOfType, Zenon
    <3>2. \A k \in 1 .. Len(LastOf(short, n)) :
              LastOf(short, n)[k] = short[k + Len(short) - Len(LastOf(short, n))]
      BY <1>2, LastOfType, Zenon
    <3> HIDE DEF m, j
    <3> QED BY <1>5, <3>1, <3>2, Zenon
  <2>2. Len(short) \in Nat /\ Len(long) \in Nat /\ m \in Nat /\ i \in 1 .. m
    BY <1>2, <1>3, <1>5
  <2>3. m <= Len(short)
    <3>1. Len(LastOf(short, n)) <= Len(short)
      BY <1>2, LastOfType
    <3> QED BY <1>5, <3>1
  <2>4. j \in 1 .. Len(short) /\ j + Len(long) - Len(short) = i + Len(long) - m
    BY <2>2, <2>3
  <2>5. short[j] = long[j + Len(long) - Len(short)]
    BY <1>4, <2>4
  <2> QED BY <1>5, <2>1, <2>4, <2>5
<1> QED BY <1>5, <1>6, SameElements DEF short, long

\* So may one that keeps the first.
LEMMA FirstOfAppend ==
    ASSUME NEW S, NEW s \in Seq(S), NEW e \in S, NEW n \in Nat \ {0}
    PROVE  FirstOf(Append(FirstOf(s, n), e), n) = FirstOf(Append(s, e), n)
<1>1. CASE Len(s) <= n
  BY <1>1 DEF FirstOf
<1>2. CASE ~ (Len(s) <= n)
  <2> DEFINE short == Append(FirstOf(s, n), e)
             long == Append(s, e)
  <2>1. FirstOf(s, n) \in Seq(S) /\ Len(FirstOf(s, n)) = n
    BY <1>2, FirstOfType
  <2>2. short \in Seq(S) /\ long \in Seq(S) /\ Len(short) = n + 1 /\ Len(long) = Len(s) + 1
    BY <2>1
  <2>3. \A i \in 1 .. n : short[i] = s[i] /\ long[i] = s[i]
    BY <1>2, <2>1, FirstOfType
  <2> HIDE DEF short, long
  <2>4. /\ FirstOf(short, n) \in Seq(S) /\ FirstOf(long, n) \in Seq(S)
        /\ Len(FirstOf(short, n)) = n /\ Len(FirstOf(long, n)) = n
    BY <1>2, <2>2, FirstOfType
  <2>5. \A i \in 1 .. n : FirstOf(short, n)[i] = short[i] /\ FirstOf(long, n)[i] = long[i]
    BY <2>2, <2>4, FirstOfType
  <2> QED BY <2>3, <2>4, <2>5, SameElements DEF short, long
<1> QED BY <1>1, <1>2

\* What is cut to fit a day and then, with another day behind it, to fit a prompt,
\* begins as what is cut to fit a prompt.
LEMMA FirstOfPrefix ==
    ASSUME NEW S, NEW s \in Seq(S), NEW t \in Seq(S),
           NEW n \in Nat \ {0}, NEW m \in Nat \ {0}, m <= n
    PROVE  IsPrefix(FirstOf(s, m), FirstOf(FirstOf(s, n) \o t, m))
<1> DEFINE day == FirstOf(s, n)
           both == day \o t
           want == FirstOf(s, m)
           have == FirstOf(both, m)
<1>1. /\ day \in Seq(S) /\ both \in Seq(S) /\ Len(both) = Len(day) + Len(t)
      /\ Len(s) \in Nat /\ Len(t) \in Nat /\ Len(day) \in Nat
      /\ \A i \in 1 .. Len(day) : both[i] = day[i]
  BY FirstOfType
<1>2. /\ Len(day) = IF Len(s) <= n THEN Len(s) ELSE n
      /\ \A i \in 1 .. Len(day) : day[i] = s[i]
  BY FirstOfType
<1>3. /\ want \in Seq(S) /\ Len(want) = IF Len(s) <= m THEN Len(s) ELSE m
      /\ \A i \in 1 .. Len(want) : want[i] = s[i]
  BY FirstOfType
<1> HIDE DEF both, day, want
<1>4. /\ have \in Seq(S) /\ Len(have) = IF Len(both) <= m THEN Len(both) ELSE m
      /\ \A i \in 1 .. Len(have) : have[i] = both[i]
  BY <1>1, FirstOfType
<1> HIDE DEF have
<1>5. Len(want) <= Len(have) /\ Len(want) <= Len(day)
  BY <1>1, <1>2, <1>3, <1>4
<1>6. \A i \in 1 .. Len(want) : want[i] = have[i]
  BY <1>1, <1>2, <1>3, <1>4, <1>5
<1>7. /\ SubSeq(want, 1, Len(want)) \in Seq(S) /\ SubSeq(have, 1, Len(want)) \in Seq(S)
      /\ Len(SubSeq(want, 1, Len(want))) = Len(want)
      /\ Len(SubSeq(have, 1, Len(want))) = Len(want)
      /\ \A i \in 1 .. Len(want) : /\ SubSeq(want, 1, Len(want))[i] = want[i]
                                   /\ SubSeq(have, 1, Len(want))[i] = have[i]
  BY <1>3, <1>4, <1>5
<1>8. SubSeq(want, 1, Len(want)) = SubSeq(have, 1, Len(want))
  BY <1>6, <1>7, SameElements
<1> QED BY <1>5, <1>8 DEF IsPrefix, want, have, both, day

-----------------------------------------------------------------------------
(* Types.                                                                  *)

Phases == {"idle", "agent", "history", "digest", "note", "marker", "collect"}

\* A worker at work is on a turn of a conversation.
Working ==
    /\ \A w \in Workers : Busy(w) => conv[w] \in Convs /\ turns[w] \in 1 .. MaxTurns
    /\ FirstDay <= today

Typed == TypeOK /\ Working

\* The constants, as the proofs use them.
LEMMA Limits ==
    /\ Recall \in Nat \ {0} /\ HistoryTurns \in Nat \ {0}
    /\ DayCap \in Nat \ {0} /\ PromptCap \in Nat \ {0} /\ PromptCap <= DayCap
    /\ KeepDays \in Nat /\ KeepDays > 1 /\ Horizon \in Nat /\ Horizon > KeepDays
    /\ FirstDay \in Nat /\ LastDay \in Nat /\ Horizon <= FirstDay + 1 /\ FirstDay <= LastDay
    /\ MaxTurns \in Nat /\ MaxFaults \in Nat
    /\ \A c \in Convs : UserOf[c] \in Users
BY RecordsConstants DEF Users

LEMMA InitTyped == Init => Typed
<1> SUFFICES ASSUME Init PROVE Typed
  OBVIOUS
<1>1. \A S : << >> \in Seq(S) /\ Len(<< >>) = 0
  OBVIOUS
<1>2. PICK some \in SUBSET Users :
        digest = [u \in Users |-> [d \in Days |-> IF d + KeepDays <= FirstDay /\ u \in some
                                                THEN <<Old>> ELSE << >>]]
  BY DEF Init
<1>3. <<Old>> \in Seq(Turns) /\ Len(<<Old>>) = 1
  BY DEF Turns
<1>4. /\ digest \in [Users -> [Days -> Seq(Turns)]]
      /\ \A u \in Users : \A d \in Days : Len(digest[u][d]) <= DayCap
  BY <1>1, <1>2, <1>3, Limits
<1>5. /\ history \in [Convs -> Seq(Turns)] /\ \A c \in Convs : Len(history[c]) <= HistoryTurns
      /\ told \in [Convs -> Seq(Turns)] /\ logged \in [Users -> [Days -> Seq(Turns)]]
  BY <1>1, <1>4, Limits DEF Init
<1>6. /\ opening \in [Workers -> Seq({"user", "assistant"} \X Turns)]
      /\ recalled \in [Workers -> Seq(Turns)] /\ read \in [Workers -> Seq(Turns)]
  BY <1>1 DEF Init
<1>7. /\ marker \in Days \cup {None} /\ today \in Days /\ FirstDay <= today
      /\ pc \in [Workers -> Phases] /\ turns \in [Workers -> 0 .. MaxTurns]
      /\ conv \in [Workers -> Convs \cup {None}]
      /\ readDay \in [Workers -> Days] /\ began \in [Workers -> Days]
      /\ offset \in [Workers -> 0 .. Horizon] /\ faults \in 0 .. MaxFaults
      /\ outdated \in [Workers -> BOOLEAN]
      /\ torn \subseteq Convs \cup (Users \X Days) /\ spared \subseteq Users \X Days
      /\ collector \in Users \cup {None}
  BY Limits DEF Init, Days, Phases
<1>8. Working
  BY <1>7 DEF Init, Working, Busy
<1> QED BY <1>4, <1>5, <1>6, <1>7, <1>8 DEF Typed, TypeOK, Phases

\* Who is at work has a user and a turn.
LEMMA AtWork ==
    ASSUME Typed, NEW w \in Workers, Busy(w)
    PROVE  /\ conv[w] \in Convs /\ User(w) \in Users /\ Turn(w) \in Turns
           /\ pc[w] \in Phases \ {"idle"}
BY Limits DEF Typed, TypeOK, Working, Busy, User, Turn, Turns, Phases

\* Reads return what is there, or nothing.
LEMMA MayReadType ==
    ASSUME NEW S, NEW value \in Seq(S), NEW got \in MayRead(value)
    PROVE  got[1] \in Seq(S) /\ got[2] \in {0, 1} /\ (got[2] = 0 => got[1] = value)
<1>1. CASE got = <<value, 0>>
  BY <1>1
<1>2. CASE got = << << >>, 1 >>
  <2>1. got[1] = << >> /\ got[2] = 1
    BY <1>2
  <2>2. << >> \in Seq(S)
    OBVIOUS
  <2> QED BY <2>1, <2>2
<1> QED BY <1>1, <1>2 DEF MayRead

\* The bound on faults.
LEMMA FaultBounds ==
    ASSUME Typed
    PROVE  /\ \A k \in {0, 1} : faults' = faults + k /\ faults' <= MaxFaults =>
                  faults' \in 0 .. MaxFaults
           /\ Fault \/ UNCHANGED faults => faults' \in 0 .. MaxFaults
<1>1. faults \in 0 .. MaxFaults /\ MaxFaults \in Nat
  BY Limits DEF Typed, TypeOK
<1> QED BY <1>1 DEF Fault

\* The end of a turn.
LEMMA LeaveTyped ==
    ASSUME Typed, NEW w \in Workers, Leave(w)
    PROVE  /\ pc' \in [Workers -> Phases] /\ conv' \in [Workers -> Convs \cup {None}]
           /\ opening' \in [Workers -> Seq({"user", "assistant"} \X Turns)]
           /\ recalled' \in [Workers -> Seq(Turns)] /\ read' \in [Workers -> Seq(Turns)]
           /\ readDay' \in [Workers -> Days] /\ began' \in [Workers -> Days]
           /\ offset' \in [Workers -> 0 .. Horizon] /\ outdated' \in [Workers -> BOOLEAN]
           /\ \A x \in Workers : Busy(x)' => Busy(x) /\ conv'[x] = conv[x]
<1>1. << >> \in Seq(Turns) /\ << >> \in Seq({"user", "assistant"} \X Turns)
  OBVIOUS
<1>2. 0 \in Days /\ 0 \in 0 .. Horizon
  BY Limits DEF Days
<1> QED BY <1>1, <1>2 DEF Typed, TypeOK, Leave, Goto, AgentEnds, Phases, Busy

LEMMA NextDayTyped == Typed /\ NextDay => Typed'
<1> SUFFICES ASSUME Typed, NextDay PROVE Typed'
  OBVIOUS
<1>1. today' \in Days /\ FirstDay <= today'
  BY Limits DEF NextDay, Typed, TypeOK, Working, Days
<1> QED BY <1>1 DEF NextDay, Typed, TypeOK, Working, Busy, storeVars, localVars, logVars, gcVars

\* What a prompt is given.
LEMMA ReplayType ==
    ASSUME NEW ts \in Seq(Turns)
    PROVE  Replay(ts) \in Seq({"user", "assistant"} \X Turns)
BY DEF Replay

LEMMA ContextType ==
    ASSUME NEW now \in Seq(Turns), NEW before \in Seq(Turns)
    PROVE  Context(now, before) \in Seq(Turns)
<1>1. now \o before \in Seq(Turns)
  OBVIOUS
<1> QED BY <1>1, Limits, FirstOfType DEF Context

LEMMA BeginTyped ==
    ASSUME Typed, NEW w \in Workers, NEW c \in Convs, Begin(w, c)
    PROVE  Typed'
<1>1. PICK h \in IF c \in Nameless THEN {<< << >>, 0 >>} ELSE MayRead(history[c]),
           now \in MayRead(digest[UserOf[c]][today]),
           before \in MayRead(digest[UserOf[c]][today - 1]) :
           /\ faults' = faults + h[2] + now[2] + before[2] /\ faults' <= MaxFaults
           /\ opening' = [opening EXCEPT ![w] = Replay(LastOf(h[1], Recall))]
           /\ recalled' = [recalled EXCEPT ![w] = Context(now[1], before[1])]
  BY DEF Begin
<1>2. UserOf[c] \in Users /\ today \in Days /\ today - 1 \in Days
  <2>1. today \in 0 .. LastDay /\ LastDay \in Nat /\ today >= 1
    BY Limits DEF Typed, TypeOK, Working, Days
  <2> QED BY <2>1, Limits DEF Days
<1>3. now[1] \in Seq(Turns) /\ now[2] \in {0, 1} /\ before[1] \in Seq(Turns) /\ before[2] \in {0, 1}
  BY <1>2, MayReadType DEF Typed, TypeOK
<1>4. h[1] \in Seq(Turns) /\ h[2] \in {0, 1}
  <2>1. CASE c \in Nameless
    <3>1. h = << << >>, 0 >>
      BY <2>1
    <3>2. h[1] = << >> /\ h[2] = 0
      BY <3>1
    <3>3. << >> \in Seq(Turns)
      OBVIOUS
    <3> QED BY <3>2, <3>3
  <2>2. CASE c \notin Nameless
    <3>1. h \in MayRead(history[c]) /\ history[c] \in Seq(Turns)
      BY <2>2 DEF Typed, TypeOK
    <3> QED BY <3>1, MayReadType, Zenon
  <2> QED BY <2>1, <2>2
<1>5. Replay(LastOf(h[1], Recall)) \in Seq({"user", "assistant"} \X Turns)
  BY <1>4, Limits, LastOfType, ReplayType
<1>6. Context(now[1], before[1]) \in Seq(Turns)
  BY <1>3, ContextType
<1>7. faults' \in 0 .. MaxFaults
  <2> DEFINE a == h[2] b == now[2] e == before[2]
  <2>1. a \in {0, 1} /\ b \in {0, 1} /\ e \in {0, 1}
    BY <1>3, <1>4
  <2>2. faults' = faults + a + b + e /\ faults' <= MaxFaults
    BY <1>1
  <2>3. faults \in Nat /\ MaxFaults \in Nat
    BY Limits DEF Typed, TypeOK
  <2> HIDE DEF a, b, e
  <2> QED BY <2>1, <2>2, <2>3
<1> DEFINE replayed == Replay(LastOf(h[1], Recall))
           context == Context(now[1], before[1])
<1>8. /\ opening' = [opening EXCEPT ![w] = replayed] /\ recalled' = [recalled EXCEPT ![w] = context]
      /\ replayed \in Seq({"user", "assistant"} \X Turns) /\ context \in Seq(Turns)
  BY <1>1, <1>5, <1>6
<1> HIDE DEF replayed, context
<1>9. /\ opening' \in [Workers -> Seq({"user", "assistant"} \X Turns)]
      /\ recalled' \in [Workers -> Seq(Turns)]
  BY <1>8 DEF Typed, TypeOK
<1>10. turns' \in [Workers -> 0 .. MaxTurns] /\ turns'[w] \in 1 .. MaxTurns
  <2>1. /\ turns \in [Workers -> 0 .. MaxTurns] /\ turns[w] < MaxTurns
        /\ turns' = [turns EXCEPT ![w] = turns[w] + 1]
    BY DEF Begin, Typed, TypeOK
  <2>2. turns[w] + 1 \in 1 .. MaxTurns
    BY <2>1, Limits
  <2> QED BY <2>1, <2>2
<1>11. /\ conv' \in [Workers -> Convs \cup {None}]
       /\ began' \in [Workers -> Days] /\ pc' \in [Workers -> Phases]
  BY <1>2 DEF Begin, Goto, Typed, TypeOK, Phases
<1>12. TypeOK'
  BY <1>7, <1>9, <1>10, <1>11 DEF Begin, Typed, TypeOK, Phases, storeVars, logVars, gcVars
<1>13. Working'
  <2>1. \A x \in Workers : Busy(x)' => conv'[x] \in Convs /\ turns'[x] \in 1 .. MaxTurns
    <3> SUFFICES ASSUME NEW x \in Workers, Busy(x)'
                 PROVE  conv'[x] \in Convs /\ turns'[x] \in 1 .. MaxTurns
      OBVIOUS
    <3>1. CASE x = w
      BY <1>10, <3>1 DEF Begin, Typed, TypeOK
    <3>2. CASE x # w
      BY <3>2 DEF Begin, Goto, Typed, TypeOK, Working, Busy
    <3> QED BY <3>1, <3>2
  <2> QED BY <2>1 DEF Begin, Typed, Working
<1> QED BY <1>12, <1>13 DEF Typed

\* Only Begin puts a worker to work.
LEMMA StillWorking ==
    ASSUME Typed, UNCHANGED <<turns, today>>,
           \A w \in Workers : Busy(w)' => Busy(w) /\ conv'[w] = conv[w]
    PROVE  Working'
BY DEF Typed, Working

LEMMA LoadHistoryTyped ==
    ASSUME Typed, NEW w \in Workers, LoadHistory(w)
    PROVE  Typed'
<1>1. conv[w] \in Convs
  BY AtWork DEF LoadHistory, Busy
<1>2. PICK h \in MayRead(history[conv[w]]) :
        /\ faults' = faults + h[2] /\ faults' <= MaxFaults
        /\ read' = [read EXCEPT ![w] = h[1]]
        /\ outdated' = [outdated EXCEPT ![w] = h[2] = 1]
  BY DEF LoadHistory
<1>3. h[1] \in Seq(Turns) /\ h[2] \in {0, 1}
  BY <1>1, MayReadType DEF Typed, TypeOK
<1>4. << >> \in Seq(Turns) /\ << >> \in Seq({"user", "assistant"} \X Turns)
  OBVIOUS
<1>5. faults' \in 0 .. MaxFaults
  BY <1>2, <1>3, FaultBounds
<1>6. read' \in [Workers -> Seq(Turns)] /\ outdated' \in [Workers -> BOOLEAN]
  BY <1>2, <1>3 DEF Typed, TypeOK
<1>7. /\ opening' \in [Workers -> Seq({"user", "assistant"} \X Turns)]
      /\ recalled' \in [Workers -> Seq(Turns)] /\ pc' \in [Workers -> Phases]
  BY <1>4 DEF LoadHistory, AgentEnds, Goto, Typed, TypeOK, Phases
<1>8. TypeOK'
  BY <1>5, <1>6, <1>7 DEF LoadHistory, Typed, TypeOK, Phases, storeVars, logVars, gcVars
<1>9. Working'
  BY StillWorking DEF LoadHistory, Goto, Busy, Typed, TypeOK
<1> QED BY <1>8, <1>9 DEF Typed

LEMMA SaveHistoryTyped ==
    ASSUME Typed, NEW w \in Workers, SaveHistory(w)
    PROVE  Typed'
<1> DEFINE c == conv[w]
           saved == Extended(read[w], Turn(w))
<1>1. c \in Convs /\ Turn(w) \in Turns /\ read[w] \in Seq(Turns)
  BY AtWork DEF SaveHistory, Busy, Typed, TypeOK
<1>2. saved \in Seq(Turns) /\ Len(saved) <= HistoryTurns
  <2>1. Append(read[w], Turn(w)) \in Seq(Turns)
    BY <1>1
  <2> QED BY <2>1, Limits, LastOfType DEF Extended
<1>3. history' = [history EXCEPT ![c] = saved]
  BY DEF SaveHistory
<1>4. told' = [told EXCEPT ![c] = Append(told[c], Turn(w))] /\ Append(told[c], Turn(w)) \in Seq(Turns)
  BY <1>1 DEF SaveHistory, Typed, TypeOK
<1>5. torn' \subseteq Convs \cup (Users \X Days) /\ outdated' \in [Workers -> BOOLEAN]
  BY <1>1 DEF SaveHistory, Overtake, Typed, TypeOK
<1> HIDE DEF saved
<1>6. /\ history' \in [Convs -> Seq(Turns)] /\ \A k \in Convs : Len(history'[k]) <= HistoryTurns
      /\ told' \in [Convs -> Seq(Turns)]
  BY <1>1, <1>2, <1>3, <1>4 DEF Typed, TypeOK
<1>7. read' \in [Workers -> Seq(Turns)] /\ pc' \in [Workers -> Phases]
  <2>1. << >> \in Seq(Turns)
    OBVIOUS
  <2> QED BY <2>1 DEF SaveHistory, Goto, Typed, TypeOK, Phases
<1>8. TypeOK'
  BY <1>5, <1>6, <1>7 DEF SaveHistory, Typed, TypeOK, Phases, gcVars
<1>9. Working'
  BY StillWorking DEF SaveHistory, Goto, Busy, Typed, TypeOK
<1> QED BY <1>8, <1>9 DEF Typed

LEMMA LoadDigestTyped ==
    ASSUME Typed, NEW w \in Workers, LoadDigest(w)
    PROVE  Typed'
<1>1. User(w) \in Users /\ today \in Days
  BY AtWork DEF LoadDigest, Busy, Typed, TypeOK
<1>2. PICK b \in MayRead(digest[User(w)][today]) :
        /\ faults' = faults + b[2] /\ faults' <= MaxFaults
        /\ read' = [read EXCEPT ![w] = b[1]]
        /\ outdated' = [outdated EXCEPT ![w] = b[2] = 1]
  BY DEF LoadDigest
<1>3. b[1] \in Seq(Turns) /\ b[2] \in {0, 1}
  BY <1>1, MayReadType DEF Typed, TypeOK
<1>4. << >> \in Seq(Turns) /\ << >> \in Seq({"user", "assistant"} \X Turns)
  OBVIOUS
<1>5. faults' \in 0 .. MaxFaults
  BY <1>2, <1>3, FaultBounds
<1>6. read' \in [Workers -> Seq(Turns)] /\ outdated' \in [Workers -> BOOLEAN]
  BY <1>2, <1>3 DEF Typed, TypeOK
<1>7. /\ opening' \in [Workers -> Seq({"user", "assistant"} \X Turns)]
      /\ recalled' \in [Workers -> Seq(Turns)] /\ pc' \in [Workers -> Phases]
      /\ readDay' \in [Workers -> Days]
  BY <1>1, <1>4 DEF LoadDigest, AgentEnds, Goto, Typed, TypeOK, Phases
<1>8. TypeOK'
  BY <1>5, <1>6, <1>7 DEF LoadDigest, Typed, TypeOK, Phases, storeVars, logVars, gcVars
<1>9. Working'
  BY StillWorking DEF LoadDigest, Goto, Busy, Typed, TypeOK
<1> QED BY <1>8, <1>9 DEF Typed

LEMMA SaveDigestTyped ==
    ASSUME Typed, NEW w \in Workers, SaveDigest(w)
    PROVE  Typed'
<1> DEFINE u == User(w)
           d == readDay[w]
           saved == FirstOf(Append(read[w], Turn(w)), DayCap)
           all == Append(logged[u][d], Turn(w))
<1>1. u \in Users /\ d \in Days /\ Turn(w) \in Turns /\ read[w] \in Seq(Turns)
  BY AtWork DEF SaveDigest, Busy, Typed, TypeOK
<1>2. saved \in Seq(Turns) /\ Len(saved) <= DayCap
  <2>1. Append(read[w], Turn(w)) \in Seq(Turns)
    BY <1>1
  <2> QED BY <2>1, Limits, FirstOfType
<1>3. digest' = [digest EXCEPT ![u][d] = saved]
  BY DEF SaveDigest, NoteDay
<1>4. logged' = [logged EXCEPT ![u][d] = all] /\ all \in Seq(Turns)
  BY <1>1 DEF SaveDigest, Typed, TypeOK
<1>5. torn' \subseteq Convs \cup (Users \X Days) /\ outdated' \in [Workers -> BOOLEAN]
  <2>1. torn' = IF outdated[w] THEN torn \cup {<<u, d>>} ELSE torn
    BY DEF SaveDigest, NoteDay
  <2>2. <<u, d>> \in Users \X Days /\ torn \subseteq Convs \cup (Users \X Days)
    BY <1>1 DEF Typed, TypeOK
  <2>3. outdated' \in [Workers -> BOOLEAN]
    BY DEF SaveDigest, Overtake, Typed, TypeOK
  <2> HIDE DEF u, d
  <2> QED BY <2>1, <2>2, <2>3
<1> HIDE DEF saved, all, u, d
<1>6. /\ digest' \in [Users -> [Days -> Seq(Turns)]]
      /\ \A k \in Users : \A i \in Days : Len(digest'[k][i]) <= DayCap
      /\ logged' \in [Users -> [Days -> Seq(Turns)]]
  BY <1>1, <1>2, <1>3, <1>4 DEF Typed, TypeOK
<1>7. /\ read' \in [Workers -> Seq(Turns)] /\ pc' \in [Workers -> Phases]
      /\ readDay' \in [Workers -> Days]
  <2>1. << >> \in Seq(Turns) /\ 0 \in Days
    BY Limits DEF Days
  <2> QED BY <2>1 DEF SaveDigest, Goto, Typed, TypeOK, Phases
<1>8. TypeOK'
  BY <1>5, <1>6, <1>7 DEF SaveDigest, Typed, TypeOK, Phases, gcVars
<1>9. Working'
  BY StillWorking DEF SaveDigest, Goto, Busy, Typed, TypeOK
<1> QED BY <1>8, <1>9 DEF Typed

LEMMA ReadMarkerTyped ==
    ASSUME Typed, NEW w \in Workers, ReadMarker(w)
    PROVE  Typed'
<1>1. CASE Leave(w) /\ UNCHANGED faults
  <2>1. TypeOK'
    BY <1>1, LeaveTyped DEF ReadMarker, Typed, TypeOK, Phases, storeVars, logVars, gcVars
  <2>2. Working'
    BY <1>1, LeaveTyped, StillWorking DEF ReadMarker
  <2> QED BY <2>1, <2>2 DEF Typed
<1>2. CASE /\ (marker # today /\ UNCHANGED faults) \/ (marker = today /\ Fault)
           /\ readDay' = [readDay EXCEPT ![w] = today]
           /\ offset' = [offset EXCEPT ![w] = KeepDays]
           /\ Goto(w, "collect")
           /\ UNCHANGED <<conv, opening, recalled, read, began, outdated>>
  <2>1. faults' \in 0 .. MaxFaults
    BY <1>2, FaultBounds
  <2>2. /\ readDay' \in [Workers -> Days] /\ offset' \in [Workers -> 0 .. Horizon]
        /\ pc' \in [Workers -> Phases]
    <3>1. KeepDays \in 0 .. Horizon
      BY Limits
    <3> QED BY <1>2, <3>1 DEF Goto, Typed, TypeOK, Phases
  <2>3. TypeOK'
    BY <1>2, <2>1, <2>2 DEF ReadMarker, Typed, TypeOK, Phases, storeVars, logVars, gcVars
  <2>4. Working'
    BY <1>2, StillWorking DEF ReadMarker, Goto, Busy, Typed, TypeOK
  <2> QED BY <2>3, <2>4 DEF Typed
<1> QED BY <1>1, <1>2 DEF ReadMarker

\* The collection never looks behind the first day there is.
LEMMA ExpiredDay ==
    ASSUME Typed, NEW w \in Workers, Collect(w)
    PROVE  /\ User(w) \in Users /\ Expired(w) \in Days /\ offset[w] \in 0 .. Horizon
           /\ offset[w] < Horizon /\ Expired(w) + offset[w] = today
<1>1. offset[w] \in 0 .. Horizon /\ offset[w] < Horizon /\ FirstDay <= today /\ today \in 0 .. LastDay
  BY DEF Collect, Typed, TypeOK, Working, Days
<1>2. User(w) \in Users
  BY AtWork DEF Collect, Busy
<1> QED BY <1>1, <1>2, Limits DEF Expired, Days

LEMMA CollectTyped ==
    ASSUME Typed, NEW w \in Workers, Collect(w)
    PROVE  Typed'
<1> DEFINE u == User(w)
           d == Expired(w)
<1>1. /\ u \in Users /\ d \in Days /\ offset[w] \in 0 .. Horizon /\ offset[w] < Horizon
      /\ << >> \in Seq(Turns) /\ Len(<< >>) = 0
  BY ExpiredDay
<1>2. \/ digest' = [digest EXCEPT ![u][d] = << >>] /\ UNCHANGED <<faults, spared>>
      \/ Fault /\ spared' = spared \cup {<<u, d>>} /\ UNCHANGED digest
  BY DEF Collect
<1> HIDE DEF u, d
<1>3. /\ digest' \in [Users -> [Days -> Seq(Turns)]]
      /\ \A k \in Users : \A i \in Days : Len(digest'[k][i]) <= DayCap
  <2>1. 0 <= DayCap
    BY Limits
  <2>2. CASE digest' = [digest EXCEPT ![u][d] = << >>]
    BY <1>1, <2>1, <2>2 DEF Typed, TypeOK
  <2>3. CASE UNCHANGED digest
    BY <2>3 DEF Typed, TypeOK
  <2> QED BY <1>2, <2>2, <2>3
<1>4. faults' \in 0 .. MaxFaults /\ spared' \subseteq Users \X Days
  <2>1. faults' \in 0 .. MaxFaults
    BY <1>2, FaultBounds
  <2>2. <<u, d>> \in Users \X Days /\ spared \subseteq Users \X Days
    BY <1>1 DEF Typed, TypeOK
  <2> QED BY <1>2, <2>1, <2>2
<1>5. offset' \in [Workers -> 0 .. Horizon]
  <2>1. offset[w] + 1 \in 0 .. Horizon
    BY <1>1, Limits
  <2> QED BY <2>1 DEF Collect, Typed, TypeOK
<1>6. TypeOK'
  BY <1>3, <1>4, <1>5 DEF Collect, Typed, TypeOK, logVars
<1>7. Working'
  BY StillWorking DEF Collect, Busy, Typed, TypeOK
<1> QED BY <1>6, <1>7 DEF Typed

LEMMA SetMarkerTyped ==
    ASSUME Typed, NEW w \in Workers, SetMarker(w)
    PROVE  Typed'
<1>1. marker' \in Days \cup {None} /\ collector' \in Users \cup {None}
  BY AtWork DEF SetMarker, Collected, Busy, Typed, TypeOK
<1>2. Leave(w)
  BY DEF SetMarker
<1>3. TypeOK'
  BY <1>1, <1>2, LeaveTyped DEF SetMarker, Typed, TypeOK, Phases, logVars
<1>4. Working'
  BY <1>2, LeaveTyped, StillWorking DEF SetMarker
<1> QED BY <1>3, <1>4 DEF Typed

LEMMA GiveUpTyped ==
    ASSUME Typed, NEW w \in Workers, GiveUp(w)
    PROVE  Typed'
<1>1. faults' \in 0 .. MaxFaults
  BY FaultBounds DEF GiveUp
<1>2. Leave(w)
  BY DEF GiveUp
<1>3. TypeOK'
  BY <1>1, <1>2, LeaveTyped DEF GiveUp, Typed, TypeOK, Phases, storeVars, logVars, gcVars
<1>4. Working'
  BY <1>2, LeaveTyped, StillWorking DEF GiveUp
<1> QED BY <1>3, <1>4 DEF Typed

LEMMA NextTyped == Typed /\ [Next]_vars => Typed'
<1> SUFFICES ASSUME Typed, [Next]_vars PROVE Typed'
  OBVIOUS
<1>1. CASE NextDay
  BY <1>1, NextDayTyped
<1>2. ASSUME NEW w \in Workers, NEW c \in Convs, Begin(w, c) PROVE Typed'
  BY <1>2, BeginTyped
<1>3. ASSUME NEW w \in Workers, LoadHistory(w) PROVE Typed'
  BY <1>3, LoadHistoryTyped
<1>4. ASSUME NEW w \in Workers, SaveHistory(w) PROVE Typed'
  BY <1>4, SaveHistoryTyped
<1>5. ASSUME NEW w \in Workers, LoadDigest(w) PROVE Typed'
  BY <1>5, LoadDigestTyped
<1>6. ASSUME NEW w \in Workers, SaveDigest(w) PROVE Typed'
  BY <1>6, SaveDigestTyped
<1>7. ASSUME NEW w \in Workers, ReadMarker(w) PROVE Typed'
  BY <1>7, ReadMarkerTyped
<1>8. ASSUME NEW w \in Workers, Collect(w) PROVE Typed'
  BY <1>8, CollectTyped
<1>9. ASSUME NEW w \in Workers, SetMarker(w) PROVE Typed'
  BY <1>9, SetMarkerTyped
<1>10. ASSUME NEW w \in Workers, GiveUp(w) PROVE Typed'
  BY <1>10, GiveUpTyped
<1>11. CASE UNCHANGED vars
  BY <1>11 DEF vars, storeVars, localVars, logVars, gcVars, Typed, TypeOK, Working, Busy
<1> QED BY <1>1, <1>2, <1>3, <1>4, <1>5, <1>6, <1>7, <1>8, <1>9, <1>10, <1>11 DEF Next

LEMMA AlwaysTyped == Spec => []Typed
BY InitTyped, NextTyped, PTL DEF Spec

\* The records keep their types, and their lengths, whatever is read, cut, collected or
\* lost on the way.
THEOREM RecordsTypeOK == Spec => []TypeOK
<1>1. Typed => TypeOK
  BY DEF Typed
<1> QED BY <1>1, AlwaysTyped, PTL

-----------------------------------------------------------------------------
(* Days.                                                                   *)

\* A turn sees at most one midnight, so a digest is saved on the day it was read or on
\* the next, and no digest that is being written is old enough to be collected.
TimelyOf(w) ==
    /\ Busy(w) => began[w] <= today
    /\ pc[w] = "note" => began[w] <= readDay[w] /\ readDay[w] <= today /\ today <= readDay[w] + 1
    /\ pc[w] = "collect" => KeepDays <= offset[w] /\ readDay[w] <= today

Timely ==
    /\ \A w \in Workers : TimelyOf(w)
    /\ marker # None => marker <= today

\* A step of one worker is none of another.
Others(w) ==
    \A x \in Workers \ {w} :
        /\ pc'[x] = pc[x] /\ conv'[x] = conv[x] /\ read'[x] = read[x]
        /\ readDay'[x] = readDay[x] /\ offset'[x] = offset[x] /\ began'[x] = began[x]

\* One worker's step.
Step(w) ==
    \/ \E c \in Convs : Begin(w, c)
    \/ LoadHistory(w) \/ SaveHistory(w) \/ LoadDigest(w) \/ SaveDigest(w)
    \/ ReadMarker(w) \/ Collect(w) \/ SetMarker(w) \/ GiveUp(w)

LEMMA LeaveLocal ==
    ASSUME Typed, NEW w \in Workers, Leave(w)
    PROVE  /\ Others(w) /\ pc'[w] = "idle" /\ ~ outdated'[w]
           /\ \A x \in Workers \ {w} : outdated'[x] = outdated[x]
BY DEF Leave, Goto, AgentEnds, Others, Typed, TypeOK

LEMMA StepOthers ==
    ASSUME Typed, NEW w \in Workers, Step(w)
    PROVE  Others(w) /\ today' = today
<1>1. ASSUME NEW c \in Convs, Begin(w, c) PROVE Others(w) /\ today' = today
  BY <1>1 DEF Begin, Goto, Others, Typed, TypeOK
<1>2. ASSUME LoadHistory(w) PROVE Others(w) /\ today' = today
  BY <1>2 DEF LoadHistory, Goto, Others, Typed, TypeOK
<1>3. ASSUME SaveHistory(w) PROVE Others(w) /\ today' = today
  BY <1>3 DEF SaveHistory, Goto, Others, Typed, TypeOK
<1>4. ASSUME LoadDigest(w) PROVE Others(w) /\ today' = today
  BY <1>4 DEF LoadDigest, Goto, Others, Typed, TypeOK
<1>5. ASSUME SaveDigest(w) PROVE Others(w) /\ today' = today
  BY <1>5 DEF SaveDigest, Goto, Others, Typed, TypeOK
<1>6. ASSUME ReadMarker(w) PROVE Others(w) /\ today' = today
  <2>1. CASE Leave(w)
    BY <1>6, <2>1, LeaveLocal DEF ReadMarker
  <2>2. CASE ~ Leave(w)
    BY <1>6, <2>2 DEF ReadMarker, Goto, Others, Typed, TypeOK
  <2> QED BY <2>1, <2>2
<1>7. ASSUME Collect(w) PROVE Others(w) /\ today' = today
  BY <1>7 DEF Collect, Others, Typed, TypeOK
<1>8. ASSUME SetMarker(w) \/ GiveUp(w) PROVE Others(w) /\ today' = today
  BY <1>8, LeaveLocal DEF SetMarker, GiveUp
<1> QED BY <1>1, <1>2, <1>3, <1>4, <1>5, <1>6, <1>7, <1>8 DEF Step

LEMMA NextTimely == Typed /\ Timely /\ [Next]_vars => Timely'
<1> SUFFICES ASSUME Typed, Timely, [Next]_vars PROVE Timely'
  OBVIOUS
<1>1. CASE NextDay
  <2>1. /\ today \in Nat /\ today' = today + 1 /\ marker' = marker /\ (marker # None => marker \in Nat)
        /\ \A x \in Workers : /\ pc'[x] = pc[x] /\ readDay'[x] = readDay[x]
                              /\ began'[x] = began[x] /\ offset'[x] = offset[x]
                              /\ readDay[x] \in Nat /\ began[x] \in Nat
                              /\ Busy(x) => began[x] = today
    BY <1>1 DEF NextDay, storeVars, localVars, Typed, TypeOK, Days
  <2>2. ASSUME NEW x \in Workers PROVE TimelyOf(x)'
    BY <2>1 DEF Timely, TimelyOf, Busy
  <2> QED BY <2>1, <2>2 DEF Timely
<1>2. ASSUME NEW w \in Workers, Step(w) PROVE Timely'
  <2>1. Others(w) /\ today' = today /\ today \in Nat
    <3>1. Others(w) /\ today' = today
      BY <1>2, StepOthers, Zenon
    <3> QED BY <3>1 DEF Typed, TypeOK, Days
  <2>2. ASSUME NEW x \in Workers \ {w} PROVE TimelyOf(x)'
    BY <2>1 DEF Others, Timely, TimelyOf, Busy
  <2>3. TimelyOf(w)'
    <3>1. ASSUME NEW c \in Convs, Begin(w, c) PROVE TimelyOf(w)'
      BY <2>1, <3>1 DEF Begin, Goto, TimelyOf, Busy, Typed, TypeOK
    <3>2. CASE LoadHistory(w)
      BY <2>1, <3>2 DEF LoadHistory, Goto, Timely, TimelyOf, Busy, Typed, TypeOK
    <3>3. CASE SaveHistory(w)
      BY <2>1, <3>3 DEF SaveHistory, Goto, Timely, TimelyOf, Busy, Typed, TypeOK
    <3>4. CASE LoadDigest(w)
      BY <2>1, <3>4 DEF LoadDigest, Goto, Timely, TimelyOf, Busy, Typed, TypeOK
    <3>5. CASE SaveDigest(w)
      BY <2>1, <3>5 DEF SaveDigest, Goto, Timely, TimelyOf, Busy, Typed, TypeOK
    <3>6. CASE ReadMarker(w)
      <4>1. CASE Leave(w)
        BY <4>1, LeaveLocal DEF TimelyOf, Busy
      <4>2. CASE ~ Leave(w)
        BY <2>1, <3>6, <4>2, Limits DEF ReadMarker, Goto, Timely, TimelyOf, Busy, Typed, TypeOK
      <4> QED BY <4>1, <4>2
    <3>7. CASE Collect(w)
      <4>1. offset'[w] = offset[w] + 1 /\ offset[w] \in Nat /\ KeepDays \in Nat
        BY <3>7, Limits DEF Collect, Typed, TypeOK
      <4> QED BY <2>1, <3>7, <4>1 DEF Collect, Timely, TimelyOf, Busy
    <3>8. CASE SetMarker(w) \/ GiveUp(w)
      BY <3>8, LeaveLocal DEF SetMarker, GiveUp, TimelyOf, Busy
    <3> QED BY <1>2, <3>1, <3>2, <3>3, <3>4, <3>5, <3>6, <3>7, <3>8 DEF Step
  <2>4. marker' # None => marker' <= today'
    <3>1. CASE SetMarker(w)
      BY <2>1, <3>1 DEF SetMarker, Collected, Timely, TimelyOf
    <3>2. CASE ~ SetMarker(w)
      <4>1. marker' = marker
        BY <1>2, <3>2 DEF Step, Begin, LoadHistory, SaveHistory, LoadDigest, SaveDigest, ReadMarker,
                          Collect, GiveUp, storeVars
      <4> QED BY <2>1, <4>1 DEF Timely
    <3> QED BY <3>1, <3>2
  <2> QED BY <2>2, <2>3, <2>4 DEF Timely
<1>3. CASE UNCHANGED vars
  BY <1>3 DEF vars, storeVars, localVars, Timely, TimelyOf, Busy
<1> QED BY <1>1, <1>2, <1>3 DEF Next, Step

LEMMA AlwaysTimely == Spec => []Timely
<1>1. Init => Timely
  BY DEF Init, Timely, TimelyOf, Busy
<1> QED BY <1>1, NextTimely, AlwaysTyped, PTL DEF Spec

-----------------------------------------------------------------------------
(* Histories.                                                              *)

\* What a worker is about to extend is what is there, or is known not to be.
FreshHistoryOf(w) == pc[w] = "history" /\ ~ outdated[w] => read[w] = history[conv[w]]

HistoryInv == (\A w \in Workers : FreshHistoryOf(w)) /\ HistoryIsTold

\* Which steps write the records.
LEMMA StepRecords ==
    ASSUME Typed, NEW w \in Workers, Step(w)
    PROVE  /\ ~ SaveHistory(w) => history' = history /\ told' = told
           /\ ~ SaveDigest(w) => logged' = logged
           /\ ~ SaveDigest(w) /\ ~ Collect(w) => digest' = digest
           /\ ~ SaveHistory(w) /\ ~ SaveDigest(w) =>
                  \A x \in Workers \ {w} : outdated'[x] = outdated[x]
           /\ torn \subseteq torn' /\ spared \subseteq spared'
<1>1. CASE \E c \in Convs : Begin(w, c)
  BY <1>1 DEF Begin, SaveHistory, SaveDigest, Collect, storeVars, logVars, gcVars
<1>2. CASE LoadHistory(w)
  BY <1>2 DEF LoadHistory, storeVars, logVars, gcVars, Typed, TypeOK
<1>3. CASE SaveHistory(w)
  BY <1>3 DEF SaveHistory, gcVars
<1>4. CASE LoadDigest(w)
  BY <1>4 DEF LoadDigest, storeVars, logVars, gcVars, Typed, TypeOK
<1>5. CASE SaveDigest(w)
  BY <1>5 DEF SaveDigest, gcVars
<1>6. CASE ReadMarker(w)
  <2>1. \A x \in Workers \ {w} : outdated'[x] = outdated[x]
    BY <1>6, LeaveLocal DEF ReadMarker
  <2> QED BY <1>6, <2>1 DEF ReadMarker, storeVars, logVars, gcVars
<1>7. CASE Collect(w)
  BY <1>7 DEF Collect, logVars
<1>8. CASE SetMarker(w) \/ GiveUp(w)
  <2>1. \A x \in Workers \ {w} : outdated'[x] = outdated[x]
    BY <1>8, LeaveLocal DEF SetMarker, GiveUp
  <2> QED BY <1>8, <2>1 DEF SetMarker, GiveUp, storeVars, logVars, gcVars
<1> QED BY <1>1, <1>2, <1>3, <1>4, <1>5, <1>6, <1>7, <1>8 DEF Step

LEMMA NextHistory == Typed /\ HistoryInv /\ [Next]_vars => HistoryInv'
<1> SUFFICES ASSUME Typed, HistoryInv, [Next]_vars PROVE HistoryInv'
  OBVIOUS
<1>1. CASE NextDay \/ UNCHANGED vars
  BY <1>1 DEF NextDay, vars, storeVars, localVars, logVars, HistoryInv, FreshHistoryOf, HistoryIsTold
<1>2. ASSUME NEW w \in Workers, SaveHistory(w) PROVE HistoryInv'
  <2> DEFINE c == conv[w]
  <2>1. c \in Convs /\ Turn(w) \in Turns /\ Step(w)
    BY <1>2, AtWork DEF SaveHistory, Busy, Step
  <2>2. Others(w)
    BY <2>1, StepOthers, Zenon
  <2>3. pc'[w] = "digest"
    BY <1>2 DEF SaveHistory, Goto, Typed, TypeOK
  <2>4. ASSUME NEW x \in Workers PROVE FreshHistoryOf(x)'
    <3>1. CASE x = w
      BY <2>3, <3>1 DEF FreshHistoryOf
    <3>2. CASE x # w /\ ~ (pc[x] = "history" /\ conv[x] = c)
      <4>1. outdated'[x] = outdated[x] /\ pc'[x] = pc[x] /\ read'[x] = read[x] /\ conv'[x] = conv[x]
        BY <1>2, <2>2, <3>2 DEF SaveHistory, Overtake, Others, Typed, TypeOK
      <4>2. pc[x] = "history" => history'[conv[x]] = history[conv[x]]
        BY <1>2, <2>1, <3>2, AtWork DEF SaveHistory, Busy, Typed, TypeOK
      <4> QED BY <4>1, <4>2 DEF HistoryInv, FreshHistoryOf
    <3>3. CASE x # w /\ pc[x] = "history" /\ conv[x] = c
      <4>1. outdated'[x]
        BY <1>2, <3>3 DEF SaveHistory, Overtake
      <4> QED BY <4>1 DEF FreshHistoryOf
    <3> QED BY <3>1, <3>2, <3>3
  <2>5. ASSUME NEW k \in Convs \ torn' PROVE history'[k] = LastOf(told'[k], HistoryTurns)
    <3>1. k \notin torn
      BY <1>2 DEF SaveHistory
    <3>2. CASE k # c
      <4>1. history'[k] = history[k] /\ told'[k] = told[k]
        BY <1>2, <3>2 DEF SaveHistory, Typed, TypeOK
      <4> QED BY <3>1, <4>1 DEF HistoryInv, HistoryIsTold
    <3>3. CASE k = c
      <4>1. ~ outdated[w]
        BY <1>2, <3>3 DEF SaveHistory
      <4>2. read[w] = LastOf(told[c], HistoryTurns)
        BY <1>2, <2>1, <3>1, <3>3, <4>1 DEF SaveHistory, HistoryInv, FreshHistoryOf, HistoryIsTold
      <4>3. history'[c] = LastOf(Append(read[w], Turn(w)), HistoryTurns) /\ told'[c] = Append(told[c], Turn(w))
        BY <1>2, <2>1 DEF SaveHistory, Extended, Typed, TypeOK
      <4>4. told[c] \in Seq(Turns)
        BY <2>1 DEF Typed, TypeOK
      <4>5. LastOf(Append(LastOf(told[c], HistoryTurns), Turn(w)), HistoryTurns)
              = LastOf(Append(told[c], Turn(w)), HistoryTurns)
        BY <2>1, <4>4, Limits, LastOfAppend
      <4> HIDE DEF c
      <4> QED BY <3>3, <4>2, <4>3, <4>5
    <3> QED BY <3>2, <3>3
  <2> QED BY <2>4, <2>5 DEF HistoryInv, HistoryIsTold
<1>3. ASSUME NEW w \in Workers, Step(w), ~ SaveHistory(w) PROVE HistoryInv'
  <2>1. Others(w)
    BY <1>3, StepOthers, Zenon
  <2>2. history' = history /\ told' = told /\ torn \subseteq torn'
    BY <1>3, StepRecords, Zenon
  <2>3. ASSUME NEW x \in Workers PROVE FreshHistoryOf(x)'
    <3>1. CASE x # w /\ ~ SaveDigest(w)
      <4>1. outdated'[x] = outdated[x]
        BY <1>3, <3>1, StepRecords
      <4> QED BY <2>1, <2>2, <3>1, <4>1 DEF Others, HistoryInv, FreshHistoryOf
    <3>2. CASE x # w /\ SaveDigest(w)
      <4>1. outdated[x] => outdated'[x]
        BY <3>2 DEF SaveDigest, Overtake
      <4> QED BY <2>1, <2>2, <3>2, <4>1 DEF Others, HistoryInv, FreshHistoryOf
    <3>3. CASE x = w /\ LoadHistory(w)
      <4>1. PICK h \in MayRead(history[conv[w]]) :
              read' = [read EXCEPT ![w] = h[1]] /\ outdated' = [outdated EXCEPT ![w] = h[2] = 1]
        BY <3>3 DEF LoadHistory
      <4>2. conv[w] \in Convs /\ conv'[w] = conv[w]
        BY <3>3, AtWork DEF LoadHistory, Busy
      <4>3. h[2] = 0 => h[1] = history[conv[w]]
        BY <4>2, MayReadType DEF Typed, TypeOK
      <4>4. h[2] \in {0, 1}
        BY <4>2, MayReadType DEF Typed, TypeOK
      <4>5. read'[w] = h[1] /\ (outdated'[w] <=> h[2] = 1)
        BY <4>1 DEF Typed, TypeOK
      <4> QED BY <2>2, <3>3, <4>2, <4>3, <4>4, <4>5 DEF FreshHistoryOf
    <3>4. CASE x = w /\ ~ LoadHistory(w)
      <4>1. pc'[w] # "history"
        <5>1. CASE Leave(w)
          BY <5>1, LeaveLocal
        <5>2. CASE ~ Leave(w)
          BY <1>3, <3>4, <5>2 DEF Step, Begin, LoadDigest, SaveDigest, ReadMarker, Collect, SetMarker,
                                  GiveUp, Goto, Typed, TypeOK
        <5> QED BY <5>1, <5>2
      <4> QED BY <3>4, <4>1 DEF FreshHistoryOf
    <3> QED BY <3>1, <3>2, <3>3, <3>4
  <2>4. HistoryIsTold'
    BY <2>2 DEF HistoryInv, HistoryIsTold
  <2> QED BY <2>3, <2>4 DEF HistoryInv
<1> QED BY <1>1, <1>2, <1>3 DEF Next, Step

\* A history holds the last turns told in its conversation, whichever of the turns that
\* were under way died or were cut off, but for the conversations in which a turn wrote
\* over what another had written since it read.
THEOREM HistoryKept == Spec => []HistoryIsTold
<1>1. Init => HistoryInv
  <2> SUFFICES ASSUME Init PROVE HistoryInv
    OBVIOUS
  <2>1. ASSUME NEW c \in Convs PROVE history[c] = LastOf(told[c], HistoryTurns)
    <3>1. history[c] = << >> /\ told[c] = << >> /\ Len(<< >>) = 0 /\ 0 <= HistoryTurns
      BY Limits DEF Init
    <3> QED BY <3>1 DEF LastOf
  <2> QED BY <2>1 DEF Init, HistoryInv, FreshHistoryOf, HistoryIsTold
<1>2. HistoryInv => HistoryIsTold
  BY DEF HistoryInv
<1> QED BY <1>1, <1>2, NextHistory, AlwaysTyped, PTL DEF Spec

-----------------------------------------------------------------------------
(* Digests.                                                                *)

FreshDigestOf(w) ==
    pc[w] = "note" /\ ~ outdated[w] => read[w] = digest[User(w)][readDay[w]]

Logged(u, d) ==
    \/ digest[u][d] = FirstOf(logged[u][d], DayCap)
    \/ digest[u][d] = << >> /\ d + KeepDays <= today
    \/ <<u, d>> \in torn

DigestInv == (\A w \in Workers : FreshDigestOf(w)) /\ DigestIsLogged

\* What is being collected nobody is about to write.
LEMMA CollectedIsOld ==
    ASSUME Typed, Timely, NEW w \in Workers, Collect(w), NEW x \in Workers, pc[x] = "note"
    PROVE  readDay[x] # Expired(w)
<1>1. Expired(w) \in Nat /\ offset[w] \in Nat /\ Expired(w) + offset[w] = today
  BY ExpiredDay DEF Days
<1>2. KeepDays <= offset[w] /\ today <= readDay[x] + 1 /\ readDay[x] \in Nat
  BY DEF Collect, Timely, TimelyOf, Typed, TypeOK, Days
<1> QED BY <1>1, <1>2, Limits

LEMMA SaveDigestInv ==
    ASSUME Typed, Timely, DigestInv, NEW w \in Workers, SaveDigest(w)
    PROVE  DigestInv'
<1> DEFINE u == User(w)
           d == readDay[w]
           saved == FirstOf(Append(read[w], Turn(w)), DayCap)
<1>1. u \in Users /\ d \in Days /\ Turn(w) \in Turns /\ Step(w)
  BY AtWork DEF SaveDigest, Busy, Step, Typed, TypeOK
<1>2. Others(w) /\ today' = today
  BY <1>1, StepOthers, Zenon
<1>3. pc'[w] = "marker"
  BY DEF SaveDigest, Goto, Typed, TypeOK
<1>4. digest' = [digest EXCEPT ![u][d] = saved]
  BY DEF SaveDigest, NoteDay
<1>5. logged' = [logged EXCEPT ![u][d] = Append(logged[u][d], Turn(w))]
  BY <1>1 DEF SaveDigest, Typed, TypeOK
<1>6. torn' = IF outdated[w] THEN torn \cup {<<u, d>>} ELSE torn
  BY DEF SaveDigest, NoteDay
<1>7. \A x \in Workers : outdated'[x] <=>
          x # w /\ (outdated[x] \/ (pc[x] = "note" /\ User(x) = u /\ readDay[x] = d))
  BY DEF SaveDigest, NoteDay, Overtake
<1>8. ~ outdated[w] => read[w] = digest[u][d]
  BY DEF SaveDigest, DigestInv, FreshDigestOf
<1>9. /\ digest \in [Users -> [Days -> Seq(Turns)]] /\ logged \in [Users -> [Days -> Seq(Turns)]]
      /\ logged[u][d] \in Seq(Turns)
  BY <1>1 DEF Typed, TypeOK
<1>10. ~ (d + KeepDays <= today)
  <2>1. today <= d + 1 /\ d \in Nat /\ today \in Nat
    BY <1>1 DEF SaveDigest, Timely, TimelyOf, Typed, TypeOK, Days
  <2> QED BY <2>1, Limits
<1> HIDE DEF u, d, saved
<1>11. ASSUME NEW x \in Workers PROVE FreshDigestOf(x)'
  <2>1. CASE x = w
    BY <1>3, <2>1 DEF FreshDigestOf
  <2>2. CASE x # w /\ pc[x] = "note" /\ User(x) = u /\ readDay[x] = d
    BY <1>7, <2>2 DEF FreshDigestOf
  <2>3. CASE x # w /\ pc[x] = "note" /\ ~ (User(x) = u /\ readDay[x] = d)
    <3>1. User(x) \in Users /\ readDay[x] \in Days
      BY <2>3, AtWork DEF Busy, Typed, TypeOK
    <3>2. digest'[User(x)][readDay[x]] = digest[User(x)][readDay[x]]
      BY <1>1, <1>4, <1>9, <2>3, <3>1
    <3>3. /\ pc'[x] = pc[x] /\ read'[x] = read[x] /\ readDay'[x] = readDay[x]
          /\ User(x)' = User(x)
      BY <1>2, <2>3 DEF Others, User
    <3> QED BY <1>7, <2>3, <3>2, <3>3 DEF DigestInv, FreshDigestOf
  <2>4. CASE x # w /\ pc[x] # "note"
    BY <1>2, <2>4 DEF Others, FreshDigestOf
  <2> QED BY <2>1, <2>2, <2>3, <2>4
<1>12. ASSUME NEW k \in Users, NEW i \in Days PROVE Logged(k, i)'
  <2>1. CASE k = u /\ i = d /\ <<u, d>> \notin torn'
    <3>1. ~ outdated[w] /\ <<u, d>> \notin torn
      BY <1>6, <2>1
    <3>2. read[w] = FirstOf(logged[u][d], DayCap)
      BY <1>1, <1>8, <1>10, <3>1 DEF DigestInv, DigestIsLogged
    <3>3. digest'[u][d] = saved /\ logged'[u][d] = Append(logged[u][d], Turn(w))
      BY <1>1, <1>4, <1>5, <1>9
    <3>4. FirstOf(Append(FirstOf(logged[u][d], DayCap), Turn(w)), DayCap)
            = FirstOf(Append(logged[u][d], Turn(w)), DayCap)
      BY <1>1, <1>9, Limits, FirstOfAppend
    <3> QED BY <2>1, <3>2, <3>3, <3>4 DEF Logged, saved
  <2>2. CASE k = u /\ i = d /\ <<u, d>> \in torn'
    BY <2>2 DEF Logged
  <2>3. CASE ~ (k = u /\ i = d)
    <3>1. digest'[k][i] = digest[k][i] /\ logged'[k][i] = logged[k][i]
      BY <1>1, <1>4, <1>5, <1>9, <2>3
    <3>2. <<k, i>> \in torn => <<k, i>> \in torn'
      BY <1>6
    <3> QED BY <1>2, <3>1, <3>2 DEF DigestInv, DigestIsLogged, Logged
  <2> QED BY <2>1, <2>2, <2>3
<1> QED BY <1>11, <1>12 DEF DigestInv, DigestIsLogged, Logged

LEMMA CollectInv ==
    ASSUME Typed, Timely, DigestInv, NEW w \in Workers, Collect(w)
    PROVE  DigestInv'
<1> DEFINE u == User(w)
           d == Expired(w)
<1>1. u \in Users /\ d \in Days /\ Step(w)
  BY ExpiredDay DEF Step
<1>2. Others(w) /\ today' = today
  BY <1>1, StepOthers, Zenon
<1>3. /\ logged' = logged /\ torn' = torn /\ outdated' = outdated /\ pc' = pc /\ read' = read
      /\ readDay' = readDay /\ conv' = conv
      /\ digest' = [digest EXCEPT ![u][d] = << >>] \/ digest' = digest
  BY DEF Collect, logVars
<1>4. d + KeepDays <= today
  <2>1. d \in Nat /\ offset[w] \in Nat /\ d + offset[w] = today
    BY ExpiredDay DEF Days
  <2>2. KeepDays <= offset[w]
    BY DEF Collect, Timely, TimelyOf
  <2> HIDE DEF d
  <2> QED BY <2>1, <2>2, Limits
<1>5. \A x \in Workers : pc[x] = "note" => readDay[x] # d
  BY CollectedIsOld
<1>6. digest \in [Users -> [Days -> Seq(Turns)]]
  BY DEF Typed, TypeOK
<1> HIDE DEF u, d
<1>7. \A k \in Users : \A i \in Days :
          digest'[k][i] = digest[k][i] \/ (k = u /\ i = d /\ digest'[k][i] = << >>)
  BY <1>1, <1>3, <1>6
<1>8. ASSUME NEW x \in Workers PROVE FreshDigestOf(x)'
  <2>1. pc[x] = "note" => User(x) \in Users /\ readDay[x] \in Days
    BY AtWork DEF Busy, Typed, TypeOK
  <2>2. User(x)' = User(x)
    BY <1>3 DEF User
  <2> QED BY <1>3, <1>5, <1>7, <2>1, <2>2 DEF DigestInv, FreshDigestOf
<1>9. ASSUME NEW k \in Users, NEW i \in Days PROVE Logged(k, i)'
  BY <1>2, <1>3, <1>4, <1>7 DEF DigestInv, DigestIsLogged, Logged
<1> QED BY <1>8, <1>9 DEF DigestInv, DigestIsLogged, Logged

LEMMA NextDigest == Typed /\ Timely /\ DigestInv /\ [Next]_vars => DigestInv'
<1> SUFFICES ASSUME Typed, Timely, DigestInv, [Next]_vars PROVE DigestInv'
  OBVIOUS
<1>1. CASE NextDay \/ UNCHANGED vars
  <2>1. \A x \in Workers : FreshDigestOf(x)'
    BY <1>1 DEF NextDay, vars, storeVars, localVars, DigestInv, FreshDigestOf, User
  <2>2. /\ digest' = digest /\ logged' = logged /\ torn' = torn
        /\ today \in Nat /\ today' \in Nat /\ today <= today'
    BY <1>1 DEF NextDay, vars, storeVars, logVars, Typed, TypeOK, Days
  <2>3. \A d \in Days : d + KeepDays <= today => d + KeepDays <= today'
    BY <2>2, Limits DEF Days
  <2>4. DigestIsLogged'
    BY <2>2, <2>3 DEF DigestInv, DigestIsLogged
  <2> QED BY <2>1, <2>4 DEF DigestInv
<1>2. ASSUME NEW w \in Workers, SaveDigest(w) PROVE DigestInv'
  BY <1>2, SaveDigestInv
<1>3. ASSUME NEW w \in Workers, Collect(w) PROVE DigestInv'
  BY <1>3, CollectInv
<1>4. ASSUME NEW w \in Workers, Step(w), ~ SaveDigest(w), ~ Collect(w) PROVE DigestInv'
  <2>1. Others(w) /\ today' = today
    BY <1>4, StepOthers, Zenon
  <2>2. digest' = digest /\ logged' = logged /\ torn \subseteq torn'
    BY <1>4, StepRecords, Zenon
  <2>3. ASSUME NEW x \in Workers PROVE FreshDigestOf(x)'
    <3>1. CASE x # w
      <4>1. outdated[x] => outdated'[x]
        <5>1. CASE SaveHistory(w)
          BY <3>1, <5>1 DEF SaveHistory, Overtake
        <5>2. CASE ~ SaveHistory(w)
          BY <1>4, <3>1, <5>2, StepRecords
        <5> QED BY <5>1, <5>2
      <4>2. /\ pc'[x] = pc[x] /\ read'[x] = read[x] /\ readDay'[x] = readDay[x]
            /\ User(x)' = User(x)
        BY <2>1, <3>1 DEF Others, User
      <4> QED BY <2>2, <4>1, <4>2 DEF DigestInv, FreshDigestOf
    <3>2. CASE x = w /\ LoadDigest(w)
      <4>1. PICK b \in MayRead(digest[User(w)][today]) :
              read' = [read EXCEPT ![w] = b[1]] /\ outdated' = [outdated EXCEPT ![w] = b[2] = 1]
        BY <3>2 DEF LoadDigest
      <4>2. User(w) \in Users /\ today \in Days
        BY <3>2, AtWork DEF LoadDigest, Busy, Typed, TypeOK
      <4>3. b[2] \in {0, 1} /\ (b[2] = 0 => b[1] = digest[User(w)][today])
        <5>1. digest[User(w)][today] \in Seq(Turns)
          BY <4>2 DEF Typed, TypeOK
        <5> QED BY <5>1, MayReadType, Zenon
      <4>4. read'[w] = b[1] /\ (outdated'[w] <=> b[2] = 1)
        BY <4>1 DEF Typed, TypeOK
      <4>5. readDay'[w] = today /\ User(w)' = User(w)
        BY <3>2 DEF LoadDigest, User, Typed, TypeOK
      <4> QED BY <2>2, <3>2, <4>3, <4>4, <4>5 DEF FreshDigestOf
    <3>3. CASE x = w /\ ~ LoadDigest(w)
      <4>1. pc'[w] # "note"
        <5>1. CASE Leave(w)
          BY <5>1, LeaveLocal
        <5>2. CASE ~ Leave(w)
          BY <1>4, <3>3, <5>2 DEF Step, Begin, LoadHistory, SaveHistory, ReadMarker, SetMarker,
                                  GiveUp, Goto, Typed, TypeOK
        <5> QED BY <5>1, <5>2
      <4> QED BY <3>3, <4>1 DEF FreshDigestOf
    <3> QED BY <3>1, <3>2, <3>3
  <2>4. DigestIsLogged'
    BY <2>1, <2>2 DEF DigestInv, DigestIsLogged
  <2> QED BY <2>3, <2>4 DEF DigestInv
<1> QED BY <1>1, <1>2, <1>3, <1>4 DEF Next, Step

LEMMA AlwaysLogged == Spec => []DigestInv
<1>1. Init => DigestInv
  <2> SUFFICES ASSUME Init PROVE DigestInv
    OBVIOUS
  <2>1. ASSUME NEW u \in Users, NEW d \in Days PROVE Logged(u, d)
    <3>1. PICK some \in SUBSET Users :
            digest = [k \in Users |-> [i \in Days |-> IF i + KeepDays <= FirstDay /\ k \in some
                                                      THEN <<Old>> ELSE << >>]]
      BY DEF Init
    <3>2. digest[u][d] = << >> \/ digest[u][d] = <<Old>>
      BY <3>1
    <3>3. Len(<< >>) <= DayCap /\ Len(<<Old>>) <= DayCap
      BY Limits
    <3>4. logged[u][d] = digest[u][d]
      BY DEF Init
    <3> QED BY <3>2, <3>3, <3>4 DEF Logged, FirstOf
  <2> QED BY <2>1 DEF Init, DigestInv, FreshDigestOf, DigestIsLogged, Logged
<1> QED BY <1>1, NextDigest, AlwaysTyped, AlwaysTimely, PTL DEF Spec

\* The digest of a day holds the first turns logged on it, also those that ended after
\* midnight, or it is not there and was old enough to be collected, unless a turn wrote
\* over what another had written since it read: the collection takes none that is in use.
THEOREM DigestKept == Spec => []DigestIsLogged
<1>1. DigestInv => DigestIsLogged
  BY DEF DigestInv
<1> QED BY <1>1, AlwaysLogged, PTL

\* What was saved today is in the prompt of the turn that begins, from the first on,
\* unless a read failed or a write was overtaken.
THEOREM TodayInPrompt == Spec => TodayRecalled
<1> DEFINE Recalled(w, c) ==
             LET u == UserOf[c] IN
             \/ IsPrefix(FirstOf(logged[u][today], PromptCap), recalled'[w])
             \/ <<u, today>> \in torn
<1>1. Typed /\ DigestInv =>
        \A w \in Workers, c \in Convs : Begin(w, c) /\ faults' = faults => Recalled(w, c)
  <2> SUFFICES ASSUME Typed, DigestInv, NEW w \in Workers, NEW c \in Convs,
                      Begin(w, c), faults' = faults, <<UserOf[c], today>> \notin torn
               PROVE  IsPrefix(FirstOf(logged[UserOf[c]][today], PromptCap), recalled'[w])
    OBVIOUS
  <2> DEFINE u == UserOf[c]
             all == logged[u][today]
  <2>1. u \in Users /\ today \in Days /\ today - 1 \in Days
    <3>1. today \in 0 .. LastDay /\ LastDay \in Nat /\ today >= 1
      BY Limits DEF Typed, TypeOK, Working, Days
    <3> QED BY <3>1, Limits DEF Days
  <2>2. PICK h \in IF c \in Nameless THEN {<< << >>, 0 >>} ELSE MayRead(history[c]),
             now \in MayRead(digest[u][today]), before \in MayRead(digest[u][today - 1]) :
             /\ faults' = faults + h[2] + now[2] + before[2]
             /\ recalled' = [recalled EXCEPT ![w] = Context(now[1], before[1])]
    BY DEF Begin
  <2>3. now[2] \in {0, 1} /\ (now[2] = 0 => now[1] = digest[u][today])
    <3>1. digest[u][today] \in Seq(Turns)
      BY <2>1 DEF Typed, TypeOK
    <3> HIDE DEF u
    <3> QED BY <3>1, MayReadType, Zenon
  <2>4. before[1] \in Seq(Turns) /\ before[2] \in {0, 1}
    BY <2>1, MayReadType DEF Typed, TypeOK
  <2>5. h[2] \in {0, 1}
    <3>1. CASE c \in Nameless
      <4>1. h = << << >>, 0 >>
        BY <3>1
      <4> QED BY <4>1
    <3>2. CASE c \notin Nameless
      <4>1. h \in MayRead(history[c]) /\ history[c] \in Seq(Turns)
        BY <3>2 DEF Typed, TypeOK
      <4> QED BY <4>1, MayReadType, Zenon
    <3> QED BY <3>1, <3>2
  <2>6. now[2] = 0
    <3> DEFINE a == h[2] b == now[2] e == before[2]
    <3>1. a \in {0, 1} /\ b \in {0, 1} /\ e \in {0, 1} /\ faults = faults + a + b + e
      BY <2>2, <2>3, <2>4, <2>5
    <3>2. faults \in Nat
      BY DEF Typed, TypeOK
    <3> HIDE DEF a, b, e
    <3>3. b = 0
      BY <3>1, <3>2
    <3> QED BY <3>3 DEF b
  <2>7. ~ (today + KeepDays <= today)
    BY <2>1, Limits DEF Days
  <2>8. now[1] = FirstOf(all, DayCap)
    BY <2>1, <2>3, <2>6, <2>7 DEF DigestInv, DigestIsLogged
  <2>9. recalled'[w] = FirstOf(now[1] \o before[1], PromptCap)
    BY <2>2 DEF Context, Typed, TypeOK
  <2>10. all \in Seq(Turns)
    BY <2>1 DEF Typed, TypeOK
  <2> HIDE DEF all
  <2>11. IsPrefix(FirstOf(all, PromptCap), FirstOf(FirstOf(all, DayCap) \o before[1], PromptCap))
    BY <2>4, <2>10, Limits, FirstOfPrefix
  <2> QED BY <2>8, <2>9, <2>11 DEF all
<1> QED BY <1>1, AlwaysTyped, AlwaysLogged, PTL DEF Spec, TodayRecalled

-----------------------------------------------------------------------------
(* The collection of the day.                                              *)

Gone(u, d) == digest[u][d] = << >> \/ <<u, d>> \in spared

\* A collection that began today has done away with what it has come past.
ServedBy(w) ==
    pc[w] = "collect" /\ readDay[w] = today =>
        \A d \in Days : d + KeepDays <= today /\ today < d + offset[w] => Gone(User(w), d)

GcInv ==
    /\ \A w \in Workers : ServedBy(w)
    /\ marker = today => collector \in Users
    /\ CollectorServed

\* What is due and gone stays gone.
LEMMA GoneForGood ==
    ASSUME Typed, Timely, NEW w \in Workers, Step(w), NEW u \in Users, NEW d \in Days,
           d + KeepDays <= today, Gone(u, d)
    PROVE  Gone(u, d)'
<1>1. spared \subseteq spared'
  BY StepRecords, Zenon
<1>2. digest \in [Users -> [Days -> Seq(Turns)]]
  BY DEF Typed, TypeOK
<1>3. CASE SaveDigest(w)
  <2> DEFINE saved == FirstOf(Append(read[w], Turn(w)), DayCap)
  <2>1. digest' = [digest EXCEPT ![User(w)][readDay[w]] = saved]
    BY <1>3 DEF SaveDigest, NoteDay
  <2>2. readDay[w] # d
    <3>1. today <= readDay[w] + 1 /\ readDay[w] \in Nat /\ today \in Nat /\ d \in Nat
      BY <1>3 DEF SaveDigest, Timely, TimelyOf, Typed, TypeOK, Days
    <3> QED BY <3>1, Limits
  <2>3. User(w) \in Users /\ readDay[w] \in Days
    BY <1>3, AtWork DEF SaveDigest, Busy, Typed, TypeOK
  <2> HIDE DEF saved
  <2>4. digest'[u][d] = digest[u][d]
    BY <1>2, <2>1, <2>2, <2>3
  <2> QED BY <1>1, <2>4 DEF Gone
<1>4. CASE Collect(w)
  <2>1. User(w) \in Users /\ Expired(w) \in Days
    BY <1>4, ExpiredDay
  <2>2. \/ digest' = [digest EXCEPT ![User(w)][Expired(w)] = << >>]
        \/ digest' = digest
    BY <1>4 DEF Collect
  <2>3. digest'[u][d] = digest[u][d] \/ digest'[u][d] = << >>
    BY <1>2, <2>1, <2>2
  <2> QED BY <1>1, <2>3 DEF Gone
<1>5. CASE ~ SaveDigest(w) /\ ~ Collect(w)
  <2>1. digest' = digest
    BY <1>5, StepRecords, Zenon
  <2> QED BY <1>1, <2>1 DEF Gone
<1> QED BY <1>3, <1>4, <1>5

LEMMA NextGc == Typed /\ Timely /\ GcInv /\ [Next]_vars => GcInv'
<1> SUFFICES ASSUME Typed, Timely, GcInv, [Next]_vars PROVE GcInv'
  OBVIOUS
<1>1. CASE NextDay
  <2>1. today \in Nat /\ today' = today + 1 /\ marker' = marker /\ pc' = pc /\ readDay' = readDay
    BY <1>1 DEF NextDay, storeVars, localVars, Typed, TypeOK, Days
  <2>2. ASSUME NEW x \in Workers PROVE ServedBy(x)'
    <3>1. pc[x] = "collect" => readDay[x] <= today /\ readDay[x] \in Nat
      BY DEF Timely, TimelyOf, Typed, TypeOK, Days
    <3> QED BY <2>1, <3>1 DEF ServedBy
  <2>3. marker' # today'
    <3>1. marker = None \/ (marker \in Nat /\ marker <= today)
      BY DEF Timely, Typed, TypeOK, Days
    <3>2. today' # None
      <4>1. today' \in Days
        BY <1>1, NextDayTyped DEF Typed, TypeOK
      <4> QED BY <4>1, RecordsConstants
    <3> QED BY <2>1, <3>1, <3>2
  <2> QED BY <2>2, <2>3 DEF GcInv, CollectorServed
<1>2. ASSUME NEW w \in Workers, Step(w) PROVE GcInv'
  <2>1. Others(w) /\ today' = today
    BY <1>2, StepOthers, Zenon
  <2>2. ASSUME NEW x \in Workers, x # w PROVE ServedBy(x)'
    <3> SUFFICES ASSUME pc[x] = "collect", readDay[x] = today,
                        NEW d \in Days, d + KeepDays <= today, today < d + offset[x]
                 PROVE  Gone(User(x), d)'
      <4>1. /\ pc'[x] = pc[x] /\ readDay'[x] = readDay[x] /\ offset'[x] = offset[x]
            /\ User(x)' = User(x)
        BY <2>1, <2>2 DEF Others, User
      <4> QED BY <2>1, <4>1 DEF ServedBy, Gone
    <3>1. User(x) \in Users
      BY AtWork DEF Busy
    <3>2. Gone(User(x), d)
      BY DEF GcInv, ServedBy
    <3>3. User(x)' = User(x)
      BY <2>1, <2>2 DEF Others, User
    <3> DEFINE u == User(x)
    <3> HIDE DEF u
    <3>4. \A k \in Users : Gone(k, d) => Gone(k, d)'
      BY <1>2, GoneForGood
    <3> QED BY <3>1, <3>2, <3>3, <3>4 DEF Gone
  <2>3. ServedBy(w)'
    <3>1. CASE Collect(w)
      <4> SUFFICES ASSUME readDay[w] = today,
                          NEW d \in Days, d + KeepDays <= today, today < d + (offset[w] + 1)
                   PROVE  Gone(User(w), d)'
        <5>1. /\ pc'[w] = "collect" /\ readDay'[w] = readDay[w] /\ offset'[w] = offset[w] + 1
              /\ User(w)' = User(w)
          BY <3>1 DEF Collect, User, Typed, TypeOK
        <5> QED BY <2>1, <5>1 DEF ServedBy, Gone
      <4>1. /\ User(w) \in Users /\ User(w)' = User(w) /\ Expired(w) \in Nat /\ offset[w] \in Nat
            /\ Expired(w) + offset[w] = today /\ Expired(w) \in Days
        <5>1. User(w)' = User(w)
          BY <3>1 DEF Collect, User
        <5>2. offset[w] \in Nat /\ Expired(w) \in Nat
          BY <3>1, ExpiredDay DEF Days
        <5> QED BY <3>1, <5>1, <5>2, ExpiredDay, Zenon
      <4>2. CASE d = Expired(w)
        <5>1. \/ digest' = [digest EXCEPT ![User(w)][Expired(w)] = << >>]
              \/ spared' = spared \cup {<<User(w), Expired(w)>>}
          BY <3>1 DEF Collect
        <5>2. digest \in [Users -> [Days -> Seq(Turns)]]
          BY DEF Typed, TypeOK
        <5>3. digest'[User(w)][d] = << >> \/ <<User(w), d>> \in spared'
          BY <4>1, <4>2, <5>1, <5>2
        <5> QED BY <4>1, <5>3 DEF Gone
      <4>3. CASE d # Expired(w)
        <5>1. today < d + offset[w]
          BY <4>1, <4>3 DEF Days
        <5>2. Gone(User(w), d)
          BY <3>1, <5>1 DEF GcInv, ServedBy, Collect
        <5>3. \A k \in Users : Gone(k, d) => Gone(k, d)'
          BY <1>2, GoneForGood
        <5> QED BY <4>1, <5>2, <5>3 DEF Gone
      <4> QED BY <4>2, <4>3
    <3>2. CASE ~ Collect(w)
      <4>1. pc'[w] = "collect" => offset'[w] = KeepDays
        <5>1. CASE Leave(w)
          BY <5>1, LeaveLocal
        <5>2. CASE ~ Leave(w)
          BY <1>2, <3>2, <5>2 DEF Step, Begin, LoadHistory, SaveHistory, LoadDigest, SaveDigest,
                                  ReadMarker, SetMarker, GiveUp, Goto, Typed, TypeOK
        <5> QED BY <5>1, <5>2
      <4>2. \A d \in Days : ~ (d + KeepDays <= today /\ today < d + KeepDays)
        <5>1. today \in Nat /\ KeepDays \in Nat
          BY Limits DEF Typed, TypeOK, Days
        <5> QED BY <5>1 DEF Days
      <4> QED BY <2>1, <4>1, <4>2 DEF ServedBy
    <3> QED BY <3>1, <3>2
  <2>4. CollectorServed'
    <3> SUFFICES ASSUME marker' = today, NEW d \in Days, d + KeepDays <= today, today < d + Horizon
                 PROVE  Gone(collector, d)'
      BY <2>1 DEF CollectorServed, Gone
    <3>1. \A k \in Users : Gone(k, d) => Gone(k, d)'
      BY <1>2, GoneForGood
    <3>2. CASE SetMarker(w)
      <4>1. /\ readDay[w] = today /\ pc[w] = "collect" /\ offset[w] = Horizon
            /\ collector' = User(w)
        BY <3>2 DEF SetMarker, Collected
      <4>2. Gone(User(w), d) /\ User(w) \in Users
        BY <4>1, AtWork DEF GcInv, ServedBy, Busy
      <4> QED BY <3>1, <4>1, <4>2 DEF Gone
    <3>3. CASE ~ SetMarker(w)
      <4>1. marker' = marker /\ collector' = collector
        BY <1>2, <3>3 DEF Step, Begin, LoadHistory, SaveHistory, LoadDigest, SaveDigest, ReadMarker,
                          Collect, GiveUp, storeVars, gcVars
      <4>2. Gone(collector, d)
        BY <4>1 DEF GcInv, CollectorServed, Gone
      <4>3. collector \in Users
        BY <4>1 DEF GcInv
      <4> QED BY <3>1, <4>1, <4>2, <4>3 DEF Gone
    <3> QED BY <3>2, <3>3
  <2>5. marker' = today => collector' \in Users
    <3>1. CASE SetMarker(w)
      BY <3>1, AtWork DEF SetMarker, Collected, Busy
    <3>2. CASE ~ SetMarker(w)
      BY <1>2, <3>2 DEF Step, Begin, LoadHistory, SaveHistory, LoadDigest, SaveDigest, ReadMarker,
                        Collect, GiveUp, storeVars, gcVars, GcInv
    <3> QED BY <3>1, <3>2
  <2> QED BY <2>1, <2>2, <2>3, <2>4, <2>5 DEF GcInv
<1>3. CASE UNCHANGED vars
  BY <1>3 DEF vars, storeVars, localVars, gcVars, GcInv, ServedBy, CollectorServed, Gone, User
<1> QED BY <1>1, <1>2, <1>3 DEF Next, Step

\* After the collection of the day the user it was charged to has no digest left that is
\* due, but for those whose removal failed: none is written again while it is going on.
THEOREM CollectionServes == Spec => []CollectorServed
<1>1. Init => GcInv
  <2>1. Init => today # None /\ today \in Days
    BY Limits, RecordsConstants DEF Init, Days
  <2> QED BY <2>1 DEF Init, GcInv, ServedBy, CollectorServed
<1>2. GcInv => CollectorServed
  BY DEF GcInv
<1> QED BY <1>1, <1>2, NextGc, AlwaysTyped, AlwaysTimely, PTL DEF Spec
=============================================================================
