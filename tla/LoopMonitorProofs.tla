------------------------- MODULE LoopMonitorProofs -------------------------
(***************************************************************************)
(* For every choice of the limits: trimming the two lists is invisible to  *)
(* observe(), the guard implements the one that never forgets, and the no- *)
(* progress rule never decides what the repetition rule would not have     *)
(* decided.                                                                *)
(***************************************************************************)
EXTENDS LoopMonitor, FiniteSetTheorems, TLAPS

\* Appending adds a newest entry and ages the others by one.
LEMMA AppendAges ==
    ASSUME NEW S, NEW s \in Seq(S), NEW e \in S
    PROVE  /\ Append(s, e) \in Seq(S)
           /\ Len(Append(s, e)) = Len(s) + 1
           /\ EntryAt(Append(s, e), 0) = e
           /\ \A age \in Nat \ {0} :
                 age < Len(s) + 1 => EntryAt(Append(s, e), age) = EntryAt(s, age - 1)
BY DEF EntryAt

\* What trimming leaves keeps its ages.
LEMMA TrimAges ==
    ASSUME NEW S, NEW s \in Seq(S)
    PROVE  /\ Trim(s) \in Seq(S)
           /\ Len(Trim(s)) = IF Len(s) > MaxKept THEN TrimTo ELSE Len(s)
           /\ \A age \in Nat : age < Len(Trim(s)) => EntryAt(Trim(s), age) = EntryAt(s, age)
<1>1. CASE Len(s) > MaxKept
  <2>1. Len(s) - TrimTo + 1 \in 1 .. Len(s) + 1 /\ TrimTo >= 1 /\ TrimTo \in Nat
    BY <1>1, GuardLimits
  <2>2. Trim(s) = SubSeq(s, Len(s) - TrimTo + 1, Len(s))
    BY <1>1 DEF Trim
  <2>3. Trim(s) \in Seq(S) /\ Len(Trim(s)) = TrimTo
    BY <2>1, <2>2
  <2>4. \A i \in 1 .. TrimTo : Trim(s)[i] = s[Len(s) - TrimTo + i]
    BY <2>1, <2>2, <2>3
  <2> QED
    BY <1>1, <2>1, <2>3, <2>4 DEF EntryAt
<1>2. CASE ~(Len(s) > MaxKept)
  BY <1>2 DEF Trim
<1> QED
  BY <1>1, <1>2

\* Remembering one entry in the list and in the full history keeps them agreed.
LEMMA RememberAgrees ==
    ASSUME NEW S, NEW s \in Seq(S), NEW h \in Seq(S), NEW e \in S,
           AgreeUpTo(s, h, TrimTo)
    PROVE  AgreeUpTo(Remember(s, e), Append(h, e), TrimTo)
<1> DEFINE s1 == Append(s, e)
           h1 == Append(h, e)
           s2 == Remember(s, e)
<1>0. TrimTo \in Nat /\ MaxKept \in Nat /\ TrimTo <= MaxKept /\ TrimTo >= 1
  BY GuardLimits
<1>1. /\ s1 \in Seq(S) /\ Len(s1) = Len(s) + 1 /\ EntryAt(s1, 0) = e
      /\ \A age \in Nat \ {0} : age < Len(s) + 1 => EntryAt(s1, age) = EntryAt(s, age - 1)
  BY AppendAges
<1>2. /\ h1 \in Seq(S) /\ Len(h1) = Len(h) + 1 /\ EntryAt(h1, 0) = e
      /\ \A age \in Nat \ {0} : age < Len(h) + 1 => EntryAt(h1, age) = EntryAt(h, age - 1)
  BY AppendAges
<1>3. /\ s2 \in Seq(S)
      /\ Len(s2) = IF Len(s1) > MaxKept THEN TrimTo ELSE Len(s1)
      /\ \A age \in Nat : age < Len(s2) => EntryAt(s2, age) = EntryAt(s1, age)
  BY <1>1, TrimAges DEF Remember
<1>4. Len(s) \in Nat /\ Len(h) \in Nat
  OBVIOUS
<1>5. /\ \A age \in 0 .. TrimTo - 1 : age < Len(s) <=> age < Len(h)
      /\ \A age \in 0 .. TrimTo - 1 : age < Len(s) => EntryAt(s, age) = EntryAt(h, age)
  BY DEF AgreeUpTo, Recent
<1> HIDE DEF s1, h1, s2
<1>6. ASSUME NEW age \in 0 .. TrimTo - 1
      PROVE  age < Len(s1) <=> age < Len(h1)
  <2>1. CASE age = 0
    BY <2>1, <1>1, <1>2, <1>4
  <2>2. CASE age # 0
    <3>1. age - 1 \in 0 .. TrimTo - 1
      BY <2>2, <1>0
    <3> QED
      BY <3>1, <1>1, <1>2, <1>4, <1>5, <2>2, <1>0
  <2> QED BY <2>1, <2>2
<1>7. ASSUME NEW age \in 0 .. TrimTo - 1, age < Len(s1)
      PROVE  EntryAt(s1, age) = EntryAt(h1, age)
  <2>1. CASE age = 0
    BY <2>1, <1>1, <1>2
  <2>2. CASE age # 0
    <3>1. age - 1 \in 0 .. TrimTo - 1 /\ age \in Nat \ {0} /\ age - 1 < Len(s) /\ age < Len(s) + 1
      BY <2>2, <1>0, <1>7, <1>1, <1>4
    <3>2. age < Len(h) + 1
      BY <3>1, <1>5, <1>4, <1>0
    <3> QED
      BY <3>1, <3>2, <1>1, <1>2, <1>5
  <2> QED BY <2>1, <2>2
<1>8. \A age \in 0 .. TrimTo - 1 : age < Len(s2) <=> age < Len(s1)
  BY <1>0, <1>1, <1>3, <1>4
<1>9. AgreeUpTo(s2, h1, TrimTo)
  BY <1>0, <1>3, <1>6, <1>7, <1>8 DEF AgreeUpTo, Recent
<1> QED
  BY <1>9 DEF s2, h1

\* Lists that agree up to TrimTo are judged alike.
LEMMA AgreedListsJudgedAlike ==
    ASSUME NEW S, NEW s \in Seq(S), NEW h \in Seq(S), AgreeUpTo(s, h, TrimTo)
    PROVE  /\ \A sig : Repeats(s, sig) = Repeats(h, sig)
           /\ Stuck(s) <=> Stuck(h)
<1>0. /\ Window \in Nat \ {0} /\ NoProgress \in Nat /\ TrimTo \in Nat
      /\ Window <= TrimTo /\ NoProgress <= TrimTo
  BY GuardLimits
<1>1. Len(s) \in Nat /\ Len(h) \in Nat
  OBVIOUS
<1>2. /\ \A age \in 0 .. TrimTo - 1 : age < Len(s) <=> age < Len(h)
      /\ \A age \in 0 .. TrimTo - 1 : age < Len(s) => EntryAt(s, age) = EntryAt(h, age)
  BY DEF AgreeUpTo, Recent
<1>3. \A n \in Nat : n <= TrimTo => Recent(s, n) = Recent(h, n)
  BY <1>0, <1>2 DEF Recent
<1>4. ASSUME NEW sig
      PROVE  Repeats(s, sig) = Repeats(h, sig)
  <2>1. {age \in Recent(s, Window) : EntryAt(s, age) = sig}
          = {age \in Recent(h, Window) : EntryAt(h, age) = sig}
    <3>1. Recent(s, Window) = Recent(h, Window)
      BY <1>0, <1>3
    <3>2. \A age \in Recent(s, Window) : EntryAt(s, age) = EntryAt(h, age)
      BY <1>0, <1>2 DEF Recent
    <3> QED BY <3>1, <3>2
  <2> QED BY <2>1 DEF Repeats
<1>5. Stuck(s) <=> Stuck(h)
  <2>1. CASE NoProgress = 0
    BY <2>1 DEF Stuck
  <2>2. CASE NoProgress > 0
    <3>1. NoProgress - 1 \in 0 .. TrimTo - 1 /\ 0 \in 0 .. TrimTo - 1
      BY <2>2, <1>0
    <3>2. Len(s) >= NoProgress <=> Len(h) >= NoProgress
      BY <3>1, <1>2, <1>1, <1>0
    <3>3. Recent(s, NoProgress) = Recent(h, NoProgress)
      BY <1>0, <1>3
    <3>4. \A age \in Recent(s, NoProgress) : EntryAt(s, age) = EntryAt(h, age)
      BY <1>0, <1>2 DEF Recent
    <3>5. Len(s) >= NoProgress => EntryAt(s, 0) = EntryAt(h, 0)
      BY <2>2, <3>1, <1>2, <1>1, <1>0
    <3> QED BY <3>2, <3>3, <3>4, <3>5 DEF Stuck
  <2> QED BY <2>1, <2>2, <1>0
<1> QED BY <1>4, <1>5

\* The signature list of a history grows with it.
LEMMA SigsOfAppend ==
    ASSUME NEW h \in Seq(Pairs), NEW sig \in Sigs, NEW digest \in Digests
    PROVE  /\ SigsOf(h) \in Seq(Sigs)
           /\ SigsOf(Append(h, <<sig, digest>>)) = Append(SigsOf(h), sig)
<1> DEFINE h1 == Append(h, <<sig, digest>>)
<1>1. /\ h1 \in Seq(Pairs) /\ Len(h1) = Len(h) + 1 /\ h1[Len(h) + 1] = <<sig, digest>>
      /\ \A i \in 1 .. Len(h) : h1[i] = h[i]
  BY DEF Pairs
<1>2. \A i \in DOMAIN h : h[i][1] \in Sigs
  BY DEF Pairs
<1>3. SigsOf(h) \in Seq(Sigs) /\ Len(SigsOf(h)) = Len(h)
  BY <1>2 DEF SigsOf
<1>4. DOMAIN SigsOf(h1) = 1 .. Len(h) + 1
  BY <1>1 DEF SigsOf
<1>5. DOMAIN Append(SigsOf(h), sig) = 1 .. Len(h) + 1
  BY <1>3
<1>6. ASSUME NEW i \in 1 .. Len(h) + 1
      PROVE  SigsOf(h1)[i] = Append(SigsOf(h), sig)[i]
  <2>1. CASE i = Len(h) + 1
    BY <2>1, <1>1, <1>3 DEF SigsOf
  <2>2. CASE i \in 1 .. Len(h)
    BY <2>2, <1>1, <1>3 DEF SigsOf
  <2>3. i = Len(h) + 1 \/ i \in 1 .. Len(h)
    OBVIOUS
  <2> QED BY <2>1, <2>2, <2>3
<1>7. /\ SigsOf(h1) = [i \in 1 .. Len(h) + 1 |-> SigsOf(h1)[i]]
      /\ Append(SigsOf(h), sig) = [i \in 1 .. Len(h) + 1 |-> Append(SigsOf(h), sig)[i]]
  BY <1>3, <1>4, <1>5 DEF SigsOf
<1>8. SigsOf(h1) = Append(SigsOf(h), sig)
  BY <1>6, <1>7
<1> QED BY <1>3, <1>8

-----------------------------------------------------------------------------

\* The guard, its history and its verdict keep their types in every run.
THEOREM GuardTypeOK == Spec => []TypeOK
<1>1. Init => TypeOK
  BY DEF Init, TypeOK, FreshGuard, GuardState
<1>2. TypeOK /\ [Next]_vars => TypeOK'
  <2> SUFFICES ASSUME TypeOK, [Next]_vars PROVE TypeOK'
    OBVIOUS
  <2>1. ASSUME NEW sig \in Sigs, NEW digest \in Digests, ObserveCall(sig, digest)
        PROVE  TypeOK'
    <3>1. guard.sigs \in Seq(Sigs) /\ guard.pairs \in Seq(Pairs) /\ guard.warned \subseteq Sigs
      BY DEF TypeOK, GuardState
    <3>2. <<sig, digest>> \in Pairs
      BY DEF Pairs
    <3>3. Append(guard.sigs, sig) \in Seq(Sigs) /\ Append(guard.pairs, <<sig, digest>>) \in Seq(Pairs)
      BY <3>1, <3>2
    <3>4. Remember(guard.sigs, sig) \in Seq(Sigs)
      BY <3>3, TrimAges DEF Remember
    <3>5. Remember(guard.pairs, <<sig, digest>>) \in Seq(Pairs)
      BY <3>3, TrimAges DEF Remember
    <3>6. guard' \in GuardState
      BY <2>1, <3>1, <3>4, <3>5 DEF ObserveCall, Observe, GuardState
    <3>7. verdict' \in {"none", "go", "warn", "stop"} /\ calls' \in Seq(Pairs)
      BY <2>1, <3>2 DEF ObserveCall, TypeOK
    <3> QED BY <3>6, <3>7 DEF TypeOK
  <2>2. CASE UNCHANGED vars
    BY <2>2 DEF vars, TypeOK
  <2> QED BY <2>1, <2>2 DEF Next
<1> QED BY <1>1, <1>2, PTL DEF Spec

\* One observation preserves the agreement of both lists with the history.
LEMMA ObserveKeepsAgreement ==
    ASSUME TypeOK, TrimInvisible, NEW sig \in Sigs, NEW digest \in Digests,
           ObserveCall(sig, digest)
    PROVE  TrimInvisible'
<1>1. guard.sigs \in Seq(Sigs) /\ guard.pairs \in Seq(Pairs) /\ calls \in Seq(Pairs)
  BY DEF TypeOK, GuardState
<1>2. <<sig, digest>> \in Pairs
  BY DEF Pairs
<1>3. /\ guard'.sigs = Remember(guard.sigs, sig)
      /\ guard'.pairs = Remember(guard.pairs, <<sig, digest>>)
      /\ calls' = Append(calls, <<sig, digest>>)
  BY DEF ObserveCall, Observe
<1>4. SigsOf(calls) \in Seq(Sigs) /\ SigsOf(calls') = Append(SigsOf(calls), sig)
  BY <1>1, <1>3, SigsOfAppend
<1>5. AgreeUpTo(guard.sigs, SigsOf(calls), TrimTo) /\ AgreeUpTo(guard.pairs, calls, TrimTo)
  BY DEF TrimInvisible
<1>6. AgreeUpTo(guard'.sigs, SigsOf(calls'), TrimTo)
  BY <1>1, <1>3, <1>4, <1>5, RememberAgrees
<1>7. AgreeUpTo(guard'.pairs, calls', TrimTo)
  BY <1>1, <1>2, <1>3, <1>5, RememberAgrees
<1> QED BY <1>6, <1>7 DEF TrimInvisible

\* Whatever the limits, as long as both windows fit in what trimming keeps, no
\* trimming of _sigs or _sig_results changes an entry a window reads.
THEOREM TrimmingInvisible == Spec => []TrimInvisible
<1>1. Init => TrimInvisible
  BY GuardLimits DEF Init, TrimInvisible, FreshGuard, SigsOf, AgreeUpTo, Recent
<1>2. TypeOK /\ TrimInvisible /\ [Next]_vars => TrimInvisible'
  <2>1. CASE UNCHANGED vars
    BY <2>1 DEF vars, TrimInvisible
  <2>2. CASE Next
    BY <2>2, ObserveKeepsAgreement DEF Next
  <2> QED BY <2>1, <2>2
<1> QED BY <1>1, <1>2, GuardTypeOK, PTL DEF Spec

\* The guard of the code, with its trimmed lists, implements LoopBreaker, which
\* judges every call against the whole run.
THEOREM GuardImplementsBreaker == Spec => ImplementsBreaker
<1>1. Init => Breaker!AbsInit
  BY DEF Init, FreshGuard, Breaker!AbsInit
<1>2. TypeOK /\ TrimInvisible /\ TrimInvisible' /\ [Next]_vars
        => [Breaker!AbsNext]_<<calls, guard.warned, verdict>>
  <2> SUFFICES ASSUME TypeOK, TrimInvisible, TrimInvisible', [Next]_vars
               PROVE  [Breaker!AbsNext]_<<calls, guard.warned, verdict>>
    OBVIOUS
  <2>1. CASE UNCHANGED vars
    BY <2>1 DEF vars
  <2>2. ASSUME NEW sig \in Sigs, NEW digest \in Digests, ObserveCall(sig, digest)
        PROVE  Breaker!Judge(sig, digest)
    <3> DEFINE h == Append(calls, <<sig, digest>>)
    <3>1. guard.sigs \in Seq(Sigs) /\ guard.pairs \in Seq(Pairs) /\ calls \in Seq(Pairs)
      BY DEF TypeOK, GuardState
    <3>2. <<sig, digest>> \in Pairs
      BY DEF Pairs
    <3>3. /\ guard'.sigs = Remember(guard.sigs, sig)
          /\ guard'.pairs = Remember(guard.pairs, <<sig, digest>>)
          /\ calls' = h
      BY <2>2 DEF ObserveCall, Observe
    <3>4. /\ Append(guard.sigs, sig) \in Seq(Sigs)
          /\ Append(guard.pairs, <<sig, digest>>) \in Seq(Pairs)
      BY <3>1, <3>2
    <3>5. guard'.sigs \in Seq(Sigs) /\ guard'.pairs \in Seq(Pairs)
      BY <3>3, <3>4, TrimAges DEF Remember
    <3>6. h \in Seq(Pairs) /\ SigsOf(h) \in Seq(Sigs)
      <4>1. h \in Seq(Pairs)
        BY <3>1, <3>2
      <4> QED BY <4>1, SigsOfAppend, <3>1 DEF SigsOf
    <3>7. AgreeUpTo(guard'.sigs, SigsOf(h), TrimTo) /\ AgreeUpTo(guard'.pairs, h, TrimTo)
      BY <3>3 DEF TrimInvisible
    <3> HIDE DEF h
    <3>8. \A x : Repeats(guard'.sigs, x) = Repeats(SigsOf(h), x)
      BY <3>5, <3>6, <3>7, AgreedListsJudgedAlike
    <3>9. Stuck(guard'.pairs) <=> Stuck(h)
      BY <3>5, <3>6, <3>7, AgreedListsJudgedAlike
    <3>10. \A w, x : Warns(guard'.sigs, w, x) <=> Warns(SigsOf(h), w, x)
      BY <3>8 DEF Warns
    <3>11. Stops(guard'.sigs, guard'.pairs, sig) <=> Stops(SigsOf(h), h, sig)
      BY <3>8, <3>9 DEF Stops
    <3>12. guard' = Observe(guard, sig, digest)
      BY <2>2 DEF ObserveCall
    <3>13. guard'.warned = guard.warned \cup {s \in {sig} : Warns(guard'.sigs, guard.warned, s)}
      BY <3>12 DEF Observe
    <3>14. guard'.warned = IF Warns(SigsOf(h), guard.warned, sig)
                           THEN guard.warned \cup {sig} ELSE guard.warned
      BY <3>10, <3>13
    <3>15. verdict' = IF Stops(SigsOf(h), h, sig) THEN "stop"
                      ELSE IF Warns(SigsOf(h), guard.warned, sig) THEN "warn" ELSE "go"
      <4>1. ShouldStop(guard, sig, digest) <=> Stops(SigsOf(h), h, sig)
        BY <3>11, <3>12 DEF ShouldStop
      <4>2. WarnedNow(guard, sig, digest) <=> Warns(SigsOf(h), guard.warned, sig)
        BY <3>10, <3>12 DEF WarnedNow
      <4> QED BY <4>1, <4>2, <2>2 DEF ObserveCall
    <3> QED BY <3>3, <3>14, <3>15 DEF Breaker!Judge, h
  <2> QED BY <2>1, <2>2 DEF Next, Breaker!AbsNext
<1> QED BY <1>1, <1>2, GuardTypeOK, TrimmingInvisible, PTL DEF Spec, ImplementsBreaker, Breaker!AbsSpec, Breaker!abstractVars

\* The newest entries of the list of pairs and of the list of signatures belong
\* together, and there are as many of them in both.
LEMMA ListsTogether ==
    ASSUME TypeOK, TrimInvisible, NEW age \in Nat, age < TrimTo, age < Len(guard.pairs)
    PROVE  age < Len(guard.sigs) /\ EntryAt(guard.sigs, age) = EntryAt(guard.pairs, age)[1]
<1>1. guard.sigs \in Seq(Sigs) /\ guard.pairs \in Seq(Pairs) /\ calls \in Seq(Pairs)
  BY DEF TypeOK, GuardState
<1>2. age \in 0 .. TrimTo - 1
  BY GuardLimits
<1>3. /\ \A a \in 0 .. TrimTo - 1 : a < Len(guard.sigs) <=> a < Len(SigsOf(calls))
      /\ \A a \in 0 .. TrimTo - 1 :
            a < Len(guard.sigs) => EntryAt(guard.sigs, a) = EntryAt(SigsOf(calls), a)
  BY DEF TrimInvisible, AgreeUpTo, Recent
<1>4. /\ \A a \in 0 .. TrimTo - 1 : a < Len(guard.pairs) <=> a < Len(calls)
      /\ \A a \in 0 .. TrimTo - 1 :
            a < Len(guard.pairs) => EntryAt(guard.pairs, a) = EntryAt(calls, a)
  BY DEF TrimInvisible, AgreeUpTo, Recent
<1>5. age < Len(calls) /\ EntryAt(guard.pairs, age) = EntryAt(calls, age)
  BY <1>2, <1>4
<1>6. Len(SigsOf(calls)) = Len(calls) /\ \A i \in 1 .. Len(calls) : SigsOf(calls)[i] = calls[i][1]
  BY <1>1 DEF SigsOf
<1>7. age < Len(guard.sigs) /\ EntryAt(guard.sigs, age) = EntryAt(SigsOf(calls), age)
  BY <1>2, <1>3, <1>5, <1>6
<1>8. Len(calls) - age \in 1 .. Len(calls)
  BY <1>1, <1>5
<1>9. EntryAt(SigsOf(calls), age) = EntryAt(calls, age)[1]
  BY <1>6, <1>8 DEF EntryAt
<1> QED BY <1>5, <1>7, <1>9

\* For every choice of limits in the order of the shipped ones, the no-progress rule
\* stops no run that the repetition rule would not have stopped (session.py:21-24).
THEOREM NoProgressAddsNothing == Spec => []NoProgressSubsumed
<1>1. ASSUME TypeOK, TrimInvisible PROVE NoProgressSubsumed
  <2> SUFFICES ASSUME StopAfter <= NoProgress, NoProgress <= Window, Stuck(guard.pairs)
               PROVE  \E sig \in Sigs : Repeats(guard.sigs, sig) >= StopAfter
    BY DEF NoProgressSubsumed
  <2> DEFINE sig == EntryAt(guard.pairs, 0)[1]
             ages == 0 .. NoProgress - 1
             same == {age \in Recent(guard.sigs, Window) : EntryAt(guard.sigs, age) = sig}
  <2>1. /\ NoProgress \in Nat /\ NoProgress > 0 /\ NoProgress <= TrimTo /\ TrimTo \in Nat
        /\ Window \in Nat /\ StopAfter \in Nat
    BY GuardLimits DEF Stuck
  <2>2. guard.sigs \in Seq(Sigs) /\ guard.pairs \in Seq(Pairs)
    BY <1>1 DEF TypeOK, GuardState
  <2>3. Len(guard.pairs) >= NoProgress /\ Len(guard.pairs) \in Nat
    BY <2>2 DEF Stuck
  <2>4. \A age \in ages : EntryAt(guard.pairs, age) = EntryAt(guard.pairs, 0)
    BY <2>1, <2>3 DEF Stuck, Recent
  <2>5. ASSUME NEW age \in ages PROVE age < Len(guard.sigs) /\ EntryAt(guard.sigs, age) = sig
    <3>1. age \in Nat /\ age < TrimTo /\ age < Len(guard.pairs)
      BY <2>1, <2>3
    <3> QED BY <1>1, <2>4, <3>1, ListsTogether
  <2>6. ages \subseteq same
    BY <2>1, <2>5 DEF Recent
  <2>7. sig \in Sigs
    <3>1. 0 \in ages
      BY <2>1
    <3>2. 0 < Len(guard.sigs) /\ EntryAt(guard.sigs, 0) = sig
      BY <2>5, <3>1
    <3> HIDE DEF sig
    <3> QED BY <2>2, <3>2 DEF EntryAt
  <2>8. IsFiniteSet(same)
    <3>1. IsFiniteSet(0 .. Window - 1)
      BY <2>1, FS_Interval
    <3>2. same \subseteq 0 .. Window - 1
      BY DEF Recent
    <3> HIDE DEF same
    <3> QED BY <3>1, <3>2, FS_Subset
  <2>9. IsFiniteSet(ages) /\ Cardinality(ages) = NoProgress
    BY <2>1, FS_Interval
  <2> HIDE DEF same, ages, sig
  <2>10. Cardinality(ages) <= Cardinality(same) /\ Cardinality(same) \in Nat
    BY <2>6, <2>8, FS_Subset, FS_CardinalityType
  <2>11. Cardinality(same) >= StopAfter
    BY <2>1, <2>9, <2>10
  <2>12. Repeats(guard.sigs, sig) = Cardinality(same)
    BY DEF Repeats, same
  <2> QED BY <2>7, <2>11, <2>12
<1> QED BY <1>1, GuardTypeOK, TrimmingInvisible, PTL
=============================================================================
