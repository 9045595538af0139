--------------------------- MODULE ModelClientProofs ---------------------------
(***************************************************************************)
(* Proofs about ModelClient: the types, what the user sees of an answer,   *)
(* what becomes of the words of the model, and the usage told.             *)
(*                                                                         *)
(* A bill is counted as it comes, so the sum is told step by step; that a  *)
(* new bill was not among those of whole messages needs the bills to be    *)
(* numbered and whole to name old numbers only (Numbered).                 *)
(*                                                                         *)
(* Content of any length is compared without induction over it: a text     *)
(* whose tokens are numbered in order is told by its set of tokens         *)
(* (SameText), and what is picked, cut and joined of a text is one again,  *)
(* with a set that is easy to name (PickedText, TextPiece, TextJoined).    *)
(* Of the content the proofs need that no prefix closes more than it has   *)
(* opened (Sound): then nothing closes before the first region, and what   *)
(* is told outside of regions lies before or after that one (SplitParts).  *)
(* Faithful is what an answer has to keep of its content, and is in the    *)
(* inductive invariant (ClientInv).                                        *)
(***************************************************************************)
EXTENDS ModelClient, FiniteSetTheorems, NaturalsInduction, WellFoundedInduction, TLAPS

Numbered == bills \in Seq(Bills) /\ whole \subseteq DOMAIN bills

Counted == DOMAIN bills \ whole
Known == {bills[i] : i \in Counted} \ {None}

\* The currency of the sum of bills in some currencies.
CurrencyOf(S, cur) ==
    CASE S = {} -> cur = None
      [] Cardinality(S) = 1 -> cur \in S
      [] OTHER -> cur = Mixed

UsageInv == Numbered /\ UsageTold

LEMMA UsageIs ==
    UsageTold <=> meter.sum = Cardinality(Counted) /\ CurrencyOf(Known, meter.currency)
BY DEF UsageTold, Counted, Known, CurrencyOf

\* A set of one currency names it.
LEMMA OneCurrency ==
    ASSUME NEW S, IsFiniteSet(S), Cardinality(S) = 1
    PROVE  \E cur : S = {cur}
BY FS_Singleton

\* The counted bills are finitely many, and so are their currencies.
LEMMA CountedFinite ==
    ASSUME Numbered
    PROVE  IsFiniteSet(Counted) /\ IsFiniteSet(Known) /\ Known \subseteq Currencies
<1>1. IsFiniteSet(DOMAIN bills)
  BY FS_Interval DEF Numbered
<1>2. IsFiniteSet(Counted)
  BY <1>1, FS_Difference DEF Counted
<1>3. IsFiniteSet({bills[i] : i \in Counted})
  <2> DEFINE f == [i \in Counted |-> bills[i]]
             T == {bills[i] : i \in Counted}
  <2>1. f \in Surjection(Counted, T)
    BY DEF Surjection
  <2> HIDE DEF f
  <2> QED BY <1>2, <2>1, FS_Surjection
<1>4. IsFiniteSet(Known)
  BY <1>3, FS_Difference DEF Known
<1>5. Known \subseteq Currencies
  BY DEF Known, Counted, Numbered, Bills
<1> QED BY <1>2, <1>4, <1>5

\* One more bill, in a currency or in none, is one more in the sum.
LEMMA OneMore ==
    ASSUME NEW S \in SUBSET Currencies, IsFiniteSet(S), NEW cur \in Bills, NEW m,
           CurrencyOf(S, m.currency)
    PROVE  CurrencyOf((S \cup {cur}) \ {None}, Recorded(m, cur).currency)
<1> DEFINE T == (S \cup {cur}) \ {None}
           r == Recorded(m, cur).currency
<1>0. None \notin Currencies /\ Mixed \notin Currencies /\ None # Mixed
  BY ModelClientConstants
<1>1. r = CASE cur = None -> m.currency
            [] m.currency = None -> cur
            [] OTHER -> IF m.currency = cur THEN cur ELSE Mixed
  BY DEF Recorded
<1>2. CASE cur = None
  <2>1. T = S /\ r = m.currency
    BY <1>0, <1>1, <1>2
  <2> QED BY <2>1
<1>3. CASE cur # None /\ S = {}
  <2>1. m.currency = None /\ T = {cur}
    BY <1>3 DEF CurrencyOf
  <2>2. r = cur /\ Cardinality(T) = 1 /\ T # {}
    BY <1>1, <1>3, <2>1, FS_Singleton
  <2> QED BY <2>1, <2>2 DEF CurrencyOf
<1>4. CASE cur # None /\ S # {} /\ Cardinality(S) = 1
  <2>1. PICK x : S = {x}
    BY <1>4, OneCurrency
  <2>2. m.currency = x /\ x # None /\ T = {x, cur}
    BY <1>0, <1>4, <2>1 DEF CurrencyOf
  <2>3. CASE cur = x
    <3>1. T = {x} /\ r = x /\ Cardinality(T) = 1 /\ T # {}
      BY <1>1, <2>2, <2>3, FS_Singleton
    <3> QED BY <3>1 DEF CurrencyOf
  <2>4. CASE cur # x
    <3>1. r = Mixed
      BY <1>1, <1>4, <2>2, <2>4
    <3>2. Cardinality(T) # 1
      <4>1. IsFiniteSet(S \cup {cur}) /\ T = S \cup {cur}
        BY <1>0, <1>4, <2>1, <2>2, FS_AddElement
      <4> QED BY <2>2, <2>4, <4>1, OneCurrency
    <3> QED BY <2>2, <3>1, <3>2 DEF CurrencyOf
  <2> QED BY <2>3, <2>4
<1>5. CASE cur # None /\ S # {} /\ Cardinality(S) # 1
  <2>1. m.currency = Mixed /\ cur # Mixed
    BY <1>0, <1>5 DEF CurrencyOf, Bills
  <2>2. r = Mixed
    BY <1>0, <1>1, <1>5, <2>1
  <2>3. T # {} /\ S \subseteq T
    BY <1>0, <1>5
  <2>4. Cardinality(T) # 1
    <3>1. IsFiniteSet(T)
      BY <1>0, FS_AddElement, FS_Difference
    <3>2. SUFFICES ASSUME Cardinality(T) = 1 PROVE FALSE
      OBVIOUS
    <3>3. PICK x : T = {x}
      BY <3>1, <3>2, OneCurrency
    <3>4. S = {x}
      BY <1>5, <2>3, <3>3
    <3> QED BY <1>5, <3>4, FS_Singleton
  <2> QED BY <2>2, <2>3, <2>4 DEF CurrencyOf
<1> QED BY <1>2, <1>3, <1>4, <1>5

\* A report keeps the account, whether it is counted or came with a whole message.
LEMMA BillKeeps ==
    ASSUME UsageInv, NEW cur \in Bills, NEW counted \in BOOLEAN, Bill(cur, counted)
    PROVE  UsageInv'
<1> DEFINE n == Len(bills) + 1
<1>1. /\ Len(bills) \in Nat /\ DOMAIN bills = 1 .. Len(bills)
      /\ bills \in Seq(Bills)
  BY DEF UsageInv, Numbered
<1>2. /\ bills' \in Seq(Bills) /\ Len(bills') = n
      /\ DOMAIN bills' = DOMAIN bills \cup {n} /\ n \notin DOMAIN bills
      /\ bills'[n] = cur /\ \A i \in DOMAIN bills : bills'[i] = bills[i]
  BY <1>1 DEF Bill
<1>3. n \notin whole /\ whole \subseteq DOMAIN bills
  BY <1>2 DEF UsageInv, Numbered
<1> HIDE DEF n
<1>4. CASE counted
  <2>1. whole' = whole /\ meter' = Recorded(meter, cur)
    BY <1>4 DEF Bill
  <2>2. Numbered'
    BY <1>2, <1>3, <2>1 DEF Numbered
  <2>3. Counted' = Counted \cup {n} /\ n \notin Counted
    BY <1>2, <1>3, <2>1 DEF Counted
  <2>4. \A i \in Counted : bills'[i] = bills[i]
    BY <1>2 DEF Counted
  <2>5. Known' = (Known \cup {cur}) \ {None}
    BY <1>2, <2>3, <2>4 DEF Known
  <2>6. meter.sum = Cardinality(Counted) /\ CurrencyOf(Known, meter.currency)
    BY UsageIs DEF UsageInv
  <2>7. Cardinality(Counted') = Cardinality(Counted) + 1
    BY <2>3, CountedFinite, FS_AddElement DEF UsageInv
  <2>8. meter'.sum = Cardinality(Counted')
    BY <2>1, <2>6, <2>7 DEF Recorded
  <2>9. CurrencyOf(Known, meter.currency)'
    BY <2>1, <2>5, <2>6, CountedFinite, OneMore DEF UsageInv, CurrencyOf
  <2> QED BY <2>2, <2>8, <2>9 DEF UsageInv, UsageTold, Counted, Known, CurrencyOf
<1>5. CASE ~ counted
  <2>1. whole' = whole \cup {n} /\ meter' = meter
    BY <1>2, <1>5 DEF Bill
  <2>2. Numbered'
    BY <1>2, <1>3, <2>1 DEF Numbered
  <2>3. Counted' = Counted
    BY <1>2, <1>3, <2>1 DEF Counted
  <2>4. Known' = Known
    BY <1>2, <2>3 DEF Known, Counted
  <2>5. UsageTold' <=> UsageTold
    BY <2>1, <2>3, <2>4 DEF UsageTold, Counted, Known
  <2> QED BY <2>2, <2>5 DEF UsageInv
<1> QED BY <1>4, <1>5

\* No other step touches the account.
LEMMA UsageStep == ASSUME UsageInv, [Next]_vars PROVE UsageInv'
<1>1. ASSUME UNCHANGED <<bills, meter, whole>> PROVE UsageInv'
  <2>1. bills' = bills /\ meter' = meter /\ whole' = whole
    BY <1>1
  <2>2. Numbered' <=> Numbered
    BY <2>1 DEF Numbered
  <2>3. Counted' = Counted /\ Known' = Known
    BY <2>1 DEF Counted, Known
  <2>4. UsageTold' <=> UsageTold
    BY <2>1, <2>3 DEF UsageTold, Counted, Known
  <2> QED BY <2>2, <2>4 DEF UsageInv
<1>2. CASE UNCHANGED vars
  BY <1>1, <1>2 DEF vars
<1>3. ASSUME NEW k \in {"round", "plain"}, Ask(k) PROVE UsageInv'
  BY <1>1, <1>3 DEF Ask, NoBill
<1>4. CASE AskAgain \/ Fails \/ Streams \/ StreamBreaks \/ StreamEnds \/ WholeMessage \/ Compose
  BY <1>1, <1>4 DEF AskAgain, Fails, Streams, StreamBreaks, StreamEnds, WholeMessage,
     Compose, NoBill
<1>5. CASE Chunk
  BY <1>1, <1>5, BillKeeps DEF Chunk, NoBill
<1>6. CASE WholeArrives
  BY <1>6, BillKeeps DEF WholeArrives
<1> QED BY <1>2, <1>3, <1>4, <1>5, <1>6 DEF Next

LEMMA UsageInit == Init => UsageInv
<1> SUFFICES ASSUME Init PROVE UsageInv
  OBVIOUS
<1>1. bills = << >> /\ whole = {} /\ meter = [sum |-> 0, currency |-> None]
  BY DEF Init
<1>2. Numbered /\ Counted = {} /\ Known = {}
  BY <1>1 DEF Numbered, Counted, Known
<1> QED BY <1>1, <1>2, UsageIs, FS_EmptySet DEF UsageInv, CurrencyOf

\* The usage told at the end is that of all streams, broken ones included, and of no whole
\* message, in their one currency or as mixed: for any number of calls, any answers and
\* any currencies (usage.py:42-68, llm_client.py:66-85, 109-120).
THEOREM UsageIsTold == Spec => []UsageTold
BY UsageInit, UsageStep, PTL DEF Spec, UsageInv

-----------------------------------------------------------------------------
(* Places, and what is picked at them.                                     *)

\* How many of some places there are up to one of them.
Rank(places, i) == Cardinality({j \in places : j <= i})

\* A later place has a higher rank.
LEMMA RankGrows ==
    ASSUME NEW T \in SUBSET Nat, IsFiniteSet(T), NEW i \in T, NEW k \in T, i < k
    PROVE  Rank(T, i) < Rank(T, k)
<1> DEFINE A == {j \in T : j <= i}
           B == {j \in T : j <= k}
<1>1. A \in SUBSET B /\ k \in B /\ k \notin A
  <2>1. i \in Nat /\ k \in Nat /\ \A j \in T : j \in Nat
    OBVIOUS
  <2>2. \A j \in T : j <= i => j <= k
    BY <2>1
  <2>3. k \notin A /\ k \in B
    BY <2>1
  <2>4. A \subseteq B
    BY <2>2
  <2> QED BY <2>3, <2>4
<1>2. IsFiniteSet(B)
  BY FS_Subset
<1> HIDE DEF A, B
<1>3. Cardinality(A) <= Cardinality(B) /\ Cardinality(A) # Cardinality(B)
  BY <1>1, <1>2, FS_Subset
<1>4. Cardinality(A) \in Nat /\ Cardinality(B) \in Nat
  BY <1>1, <1>2, FS_Subset, FS_CardinalityType
<1>5. Cardinality(A) < Cardinality(B)
  BY <1>3, <1>4
<1> QED BY <1>5 DEF A, B, Rank

\* An interval from one on.
LEMMA UpTo == ASSUME NEW n \in Nat PROVE IsFiniteSet(1 .. n) /\ Cardinality(1 .. n) = n
<1>1. CASE n = 0
  <2>1. 1 .. n = {}
    BY <1>1
  <2> QED BY <1>1, <2>1, FS_EmptySet
<1>2. CASE n # 0
  BY <1>2, FS_Interval
<1> QED BY <1>1, <1>2

\* The ranks of n places are the numbers up to n, each of one place.
LEMMA RanksCount ==
    ASSUME NEW T \in SUBSET Nat, IsFiniteSet(T)
    PROVE  /\ Cardinality(T) \in Nat
           /\ \A i \in T : Rank(T, i) \in 1 .. Cardinality(T)
           /\ \A n \in 1 .. Cardinality(T) : \E i \in T : Rank(T, i) = n
           /\ \A i, k \in T : Rank(T, i) = Rank(T, k) => i = k
<1> DEFINE rank == [i \in T |-> Rank(T, i)]
           count == Cardinality(T)
<1>1. count \in Nat
  BY FS_CardinalityType
<1>2. ASSUME NEW i \in T PROVE Rank(T, i) \in 1 .. count
  <2> DEFINE A == {j \in T : j <= i}
  <2>1. A \in SUBSET T /\ i \in A
    OBVIOUS
  <2> HIDE DEF A
  <2>2. IsFiniteSet(A) /\ Cardinality(A) <= count
    BY <2>1, FS_Subset
  <2>3. Cardinality(A) \in Nat /\ Cardinality(A) # 0
    BY <2>1, <2>2, FS_CardinalityType, FS_EmptySet
  <2>4. Cardinality(A) \in 1 .. count
    BY <1>1, <2>2, <2>3
  <2> QED BY <2>4 DEF A, Rank
<1>3. ASSUME NEW i \in T, NEW k \in T, Rank(T, i) = Rank(T, k) PROVE i = k
  <2>1. ~ i < k /\ ~ k < i
    BY <1>1, <1>2, <1>3, RankGrows
  <2> QED BY <2>1
<1>4. rank \in Injection(T, 1 .. count)
  BY <1>2, <1>3 DEF Injection, IsInjective
<1>5. IsFiniteSet(1 .. count) /\ Cardinality(1 .. count) = count
  BY <1>1, UpTo
<1>6. rank \in Surjection(T, 1 .. count)
  BY <1>4, <1>5, FS_Injection
<1>7. \A n \in 1 .. count : \E i \in T : Rank(T, i) = n
  BY <1>6 DEF Surjection
<1> QED BY <1>1, <1>2, <1>3, <1>7

\* What is picked at some places is what is there, by rank.
LEMMA PickedByRank ==
    ASSUME NEW s, NEW T \in SUBSET Nat, IsFiniteSet(T)
    PROVE  /\ DOMAIN Picked(s, T) = 1 .. Cardinality(T)
           /\ Picked(s, T) = [n \in 1 .. Cardinality(T) |-> Picked(s, T)[n]]
           /\ \A i \in T : Rank(T, i) \in 1 .. Cardinality(T) /\ Picked(s, T)[Rank(T, i)] = s[i]
           /\ \A n \in 1 .. Cardinality(T) : \E i \in T : Rank(T, i) = n /\ Picked(s, T)[n] = s[i]
<1> DEFINE there(n) == CHOOSE i \in T : Rank(T, i) = n
<1>1. Picked(s, T) = [n \in 1 .. Cardinality(T) |-> s[there(n)]]
  BY DEF Picked, Rank
<1>2. ASSUME NEW n \in 1 .. Cardinality(T)
      PROVE  there(n) \in T /\ Rank(T, there(n)) = n
  <2>1. \E i \in T : Rank(T, i) = n
    BY RanksCount
  <2> QED BY <2>1
<1>3. ASSUME NEW i \in T PROVE Rank(T, i) \in 1 .. Cardinality(T) /\ there(Rank(T, i)) = i
  <2>1. Rank(T, i) \in 1 .. Cardinality(T)
    BY RanksCount
  <2>2. there(Rank(T, i)) \in T /\ Rank(T, there(Rank(T, i))) = Rank(T, i)
    BY <1>2, <2>1
  <2> DEFINE k == there(Rank(T, i))
  <2>3. k \in T /\ Rank(T, k) = Rank(T, i)
    BY <2>2
  <2> HIDE DEF k
  <2>4. k = i
    BY <2>3, RanksCount
  <2> QED BY <2>1, <2>4 DEF k
<1> HIDE DEF there
<1> QED BY <1>1, <1>2, <1>3

-----------------------------------------------------------------------------
(* Texts: their tokens come in the order of their numbers.                 *)

Increasing(s) == \A m, n \in DOMAIN s : m < n => s[m][2] < s[n][2]

Texts == {s \in Seq(Tokens) : Increasing(s)}

LEMMA TokenNumbers == \A t \in Tokens : t[2] \in Nat
BY ModelClientConstants DEF Tokens, AsideToken

\* What is picked of a text is a text, with the tokens of those places.
LEMMA PickedText ==
    ASSUME NEW s \in Texts, NEW T \in SUBSET DOMAIN s
    PROVE  /\ Picked(s, T) \in Texts
           /\ ToSet(Picked(s, T)) = {s[i] : i \in T}
<1> DEFINE u == Picked(s, T)
           n == Cardinality(T)
<1>1. s \in Seq(Tokens) /\ DOMAIN s = 1 .. Len(s) /\ Len(s) \in Nat /\ Increasing(s)
  BY DEF Texts
<1>2. IsFiniteSet(DOMAIN s)
  BY <1>1, UpTo
<1>3. T \in SUBSET Nat /\ IsFiniteSet(T)
  BY <1>1, <1>2, FS_Subset
<1>4. n \in Nat
  BY <1>3, FS_CardinalityType
<1>5. /\ DOMAIN u = 1 .. n /\ u = [m \in 1 .. n |-> u[m]]
      /\ \A i \in T : Rank(T, i) \in 1 .. n /\ u[Rank(T, i)] = s[i]
      /\ \A m \in 1 .. n : \E i \in T : Rank(T, i) = m /\ u[m] = s[i]
  BY <1>3, PickedByRank
<1> HIDE DEF u, n
<1>6. \A i \in T : s[i] \in Tokens
  BY <1>1
<1>7. u \in Seq(Tokens)
  <2>1. \A m \in 1 .. n : u[m] \in Tokens
    BY <1>5, <1>6
  <2> QED BY <1>4, <1>5, <2>1
<1>8. Increasing(u)
  <2> SUFFICES ASSUME NEW l \in 1 .. n, NEW m \in 1 .. n, l < m
               PROVE  u[l][2] < u[m][2]
    BY <1>5 DEF Increasing
  <2>1. PICK i \in T : Rank(T, i) = l /\ u[l] = s[i]
    BY <1>5
  <2>2. PICK k \in T : Rank(T, k) = m /\ u[m] = s[k]
    BY <1>5
  <2>3. ~ k < i /\ k # i
    <3>1. k < i => Rank(T, k) < Rank(T, i)
      BY <1>3, RankGrows
    <3> QED BY <2>1, <2>2, <3>1, <1>4
  <2>4. i < k
    BY <1>3, <2>3
  <2> QED BY <1>1, <2>1, <2>2, <2>4 DEF Increasing
<1>9. ToSet(u) = {s[i] : i \in T}
  BY <1>5 DEF ToSet
<1> QED BY <1>7, <1>8, <1>9 DEF u, Texts

\* A text that has all tokens of another agrees with it as far as that goes.
LEMMA Agree ==
    ASSUME NEW u \in Texts, NEW v \in Texts, ToSet(u) = ToSet(v)
    PROVE  \A n \in DOMAIN u : n \in DOMAIN v /\ u[n] = v[n]
<1>1. /\ u \in Seq(Tokens) /\ Increasing(u) /\ DOMAIN u = 1 .. Len(u) /\ Len(u) \in Nat
      /\ v \in Seq(Tokens) /\ Increasing(v) /\ DOMAIN v = 1 .. Len(v) /\ Len(v) \in Nat
  BY DEF Texts
<1> DEFINE Apart == {n \in DOMAIN u : ~ (n \in DOMAIN v /\ u[n] = v[n])}
<1>2. SUFFICES ASSUME Apart # {} PROVE FALSE
  OBVIOUS
<1>3. Apart \subseteq Nat
  BY <1>1
<1>4. \E n \in Apart : \A m \in Apart : <<m, n>> \notin OpToRel(<, Nat)
  BY <1>2, <1>3, WFMin, NatLessThanWellFounded, Zenon
<1>5. PICK n \in Apart : \A m \in Apart : ~ m < n
  BY <1>3, <1>4, Zenon DEF OpToRel
<1>6. n \in DOMAIN u /\ \A m \in DOMAIN u : m < n => m \in DOMAIN v /\ u[m] = v[m]
  BY <1>5
<1>7. ~ (n \in DOMAIN v /\ u[n] = v[n])
  BY <1>5
<1> HIDE DEF Apart
<1>8. \A m \in DOMAIN u : u[m][2] \in Nat
  BY <1>1, TokenNumbers
<1>9. \A m \in DOMAIN v : v[m][2] \in Nat
  BY <1>1, TokenNumbers
<1>10. PICK b \in DOMAIN v : v[b] = u[n]
  <2>1. u[n] \in ToSet(v)
    BY <1>6 DEF ToSet
  <2> QED BY <2>1 DEF ToSet
<1>11. ~ b < n
  <2>1. SUFFICES ASSUME b < n PROVE FALSE
    OBVIOUS
  <2>2. b \in DOMAIN u
    BY <1>1, <1>6, <2>1
  <2>3. u[b] = u[n] /\ u[b][2] < u[n][2]
    BY <1>1, <1>6, <1>10, <2>1, <2>2 DEF Increasing
  <2> QED BY <1>6, <1>8, <2>2, <2>3
<1>12. n \in DOMAIN v /\ n < b
  BY <1>1, <1>6, <1>7, <1>10, <1>11
<1>13. v[n][2] < v[b][2]
  BY <1>1, <1>12 DEF Increasing
<1>14. PICK c \in DOMAIN u : u[c] = v[n]
  <2>1. v[n] \in ToSet(u)
    BY <1>12 DEF ToSet
  <2> QED BY <2>1 DEF ToSet
<1>15. u[c][2] < u[n][2]
  BY <1>10, <1>13, <1>14
<1>16. c < n
  <2>1. c # n
    BY <1>6, <1>8, <1>15
  <2>2. ~ n < c
    <3>1. n < c => u[n][2] < u[c][2]
      BY <1>1, <1>6 DEF Increasing
    <3> QED BY <1>6, <1>8, <1>14, <1>15, <3>1
  <2> QED BY <1>1, <1>6, <2>1, <2>2
<1>17. c \in DOMAIN v /\ v[c] = v[n] /\ v[c][2] < v[n][2]
  BY <1>1, <1>6, <1>12, <1>14, <1>16 DEF Increasing
<1> QED BY <1>9, <1>12, <1>17

\* A text is told by its tokens.
LEMMA SameText ==
    ASSUME NEW u \in Texts, NEW v \in Texts, ToSet(u) = ToSet(v)
    PROVE  u = v
<1>1. u \in Seq(Tokens) /\ v \in Seq(Tokens)
  BY DEF Texts
<1>2. \A n \in DOMAIN u : n \in DOMAIN v /\ u[n] = v[n]
  BY Agree
<1>3. \A n \in DOMAIN v : n \in DOMAIN u
  BY Agree
<1>4. DOMAIN u = DOMAIN v
  BY <1>2, <1>3
<1>5. Len(u) = Len(v)
  <2>1. DOMAIN u = 1 .. Len(u) /\ DOMAIN v = 1 .. Len(v) /\ Len(u) \in Nat /\ Len(v) \in Nat
    BY <1>1
  <2>2. Cardinality(DOMAIN u) = Len(u) /\ Cardinality(DOMAIN v) = Len(v)
    BY <2>1, UpTo
  <2> QED BY <1>4, <2>2
<1> QED BY <1>1, <1>2, <1>5

\* A text has as many tokens as it is long.
LEMMA TextLength ==
    ASSUME NEW u \in Texts
    PROVE  /\ IsFiniteSet(ToSet(u)) /\ Cardinality(ToSet(u)) = Len(u)
<1>1. u \in Seq(Tokens) /\ Increasing(u) /\ DOMAIN u = 1 .. Len(u) /\ Len(u) \in Nat
  BY DEF Texts
<1>2. \A n \in DOMAIN u : u[n][2] \in Nat
  BY <1>1, TokenNumbers
<1>3. ASSUME NEW m \in DOMAIN u, NEW n \in DOMAIN u, u[m] = u[n] PROVE m = n
  <2>1. (m < n => u[m][2] < u[n][2]) /\ (n < m => u[n][2] < u[m][2])
    BY <1>1 DEF Increasing
  <2> QED BY <1>1, <1>2, <1>3, <2>1
<1> DEFINE f == [n \in DOMAIN u |-> u[n]]
<1>4. f \in Bijection(DOMAIN u, ToSet(u))
  BY <1>3 DEF Bijection, Injection, IsInjective, Surjection, ToSet
<1>5. IsFiniteSet(DOMAIN u) /\ Cardinality(DOMAIN u) = Len(u)
  BY <1>1, UpTo
<1> HIDE DEF f
<1>6. ExistsBijection(DOMAIN u, ToSet(u))
  BY <1>4 DEF ExistsBijection
<1> QED BY <1>5, <1>6, FS_Bijection

\* A piece of a text.
LEMMA TextPiece ==
    ASSUME NEW s \in Texts, NEW m \in Nat \ {0}, NEW n \in 0 .. Len(s)
    PROVE  /\ SubSeq(s, m, n) \in Texts
           /\ ToSet(SubSeq(s, m, n)) = {s[i] : i \in m .. n}
<1> DEFINE u == SubSeq(s, m, n)
<1>1. s \in Seq(Tokens) /\ DOMAIN s = 1 .. Len(s) /\ Len(s) \in Nat /\ Increasing(s)
  BY DEF Texts
<1>2. CASE m <= n
  <2>1. /\ u \in Seq(Tokens) /\ DOMAIN u = 1 .. n - m + 1
        /\ \A k \in 1 .. n - m + 1 : u[k] = s[k + m - 1] /\ k + m - 1 \in m .. n
    BY <1>1, <1>2
  <2> HIDE DEF u
  <2>2. Increasing(u)
    <3> SUFFICES ASSUME NEW k \in 1 .. n - m + 1, NEW l \in 1 .. n - m + 1, k < l
                 PROVE  u[k][2] < u[l][2]
      BY <2>1 DEF Increasing
    <3>1. k + m - 1 \in DOMAIN s /\ l + m - 1 \in DOMAIN s /\ k + m - 1 < l + m - 1
      BY <1>1, <1>2
    <3> QED BY <1>1, <2>1, <3>1 DEF Increasing
  <2>3. \A i \in m .. n : i - m + 1 \in 1 .. n - m + 1 /\ u[i - m + 1] = s[i]
    <3> SUFFICES ASSUME NEW i \in m .. n
                 PROVE  i - m + 1 \in 1 .. n - m + 1 /\ u[i - m + 1] = s[i]
      OBVIOUS
    <3>1. i - m + 1 \in 1 .. n - m + 1 /\ (i - m + 1) + m - 1 = i
      BY <1>2
    <3> QED BY <2>1, <3>1
  <2>4. ToSet(u) = {s[i] : i \in m .. n}
    BY <2>1, <2>3 DEF ToSet
  <2> QED BY <2>1, <2>2, <2>4 DEF Texts, u
<1>3. CASE ~ m <= n
  <2>1. u = << >> /\ m .. n = {}
    BY <1>1, <1>3
  <2> QED BY <2>1 DEF Texts, Increasing, ToSet
<1> QED BY <1>2, <1>3

\* Two texts in a row, the second with higher numbers.
LEMMA TextJoined ==
    ASSUME NEW u \in Texts, NEW v \in Texts,
           \A m \in DOMAIN u, n \in DOMAIN v : u[m][2] < v[n][2]
    PROVE  /\ u \o v \in Texts
           /\ ToSet(u \o v) = ToSet(u) \cup ToSet(v)
<1> DEFINE w == u \o v
<1>1. /\ u \in Seq(Tokens) /\ DOMAIN u = 1 .. Len(u) /\ Len(u) \in Nat /\ Increasing(u)
      /\ v \in Seq(Tokens) /\ DOMAIN v = 1 .. Len(v) /\ Len(v) \in Nat /\ Increasing(v)
  BY DEF Texts
<1>2. /\ w \in Seq(Tokens) /\ DOMAIN w = 1 .. Len(u) + Len(v)
      /\ \A n \in DOMAIN w : /\ n <= Len(u) => n \in DOMAIN u /\ w[n] = u[n]
                             /\ n > Len(u) => n - Len(u) \in DOMAIN v /\ w[n] = v[n - Len(u)]
  BY <1>1
<1>3. \A n \in DOMAIN u : n \in DOMAIN w /\ n <= Len(u) /\ w[n] = u[n]
  BY <1>1, <1>2
<1>4. \A n \in DOMAIN v : n + Len(u) \in DOMAIN w /\ w[n + Len(u)] = v[n]
  BY <1>1
<1> HIDE DEF w
<1>5. Increasing(w)
  <2> SUFFICES ASSUME NEW m \in DOMAIN w, NEW n \in DOMAIN w, m < n
               PROVE  w[m][2] < w[n][2]
    BY DEF Increasing
  <2>0. m \in Nat /\ n \in Nat
    BY <1>1, <1>2
  <2>1. CASE n <= Len(u)
    <3>1. m <= Len(u)
      BY <1>1, <2>0, <2>1
    <3> QED BY <1>1, <1>2, <2>1, <3>1 DEF Increasing
  <2>2. CASE n > Len(u) /\ m <= Len(u)
    BY <1>2, <2>2
  <2>3. CASE n > Len(u) /\ m > Len(u)
    <3>1. m - Len(u) < n - Len(u)
      BY <1>1, <2>0
    <3> QED BY <1>1, <1>2, <2>3, <3>1 DEF Increasing
  <2> QED BY <1>1, <2>0, <2>1, <2>2, <2>3
<1>6. ToSet(w) \subseteq ToSet(u) \cup ToSet(v)
  <2> SUFFICES ASSUME NEW n \in DOMAIN w PROVE w[n] \in ToSet(u) \cup ToSet(v)
    BY DEF ToSet
  <2>1. n \in Nat
    BY <1>1, <1>2
  <2>2. n <= Len(u) \/ n > Len(u)
    BY <1>1, <2>1
  <2> QED BY <1>2, <2>2 DEF ToSet
<1>7. ToSet(u) \cup ToSet(v) \subseteq ToSet(w)
  BY <1>3, <1>4 DEF ToSet
<1> QED BY <1>2, <1>5, <1>6, <1>7 DEF Texts, w

\* The tokens of a text that another sequence holds too.
LEMMA ThoseText ==
    ASSUME NEW s \in Texts, NEW u
    PROVE  Those(s, u) \in Texts /\ ToSet(Those(s, u)) = ToSet(s) \cap ToSet(u)
<1> DEFINE T == {i \in DOMAIN s : s[i] \in ToSet(u)}
<1>1. Picked(s, T) \in Texts /\ ToSet(Picked(s, T)) = {s[i] : i \in T}
  BY PickedText
<1>2. {s[i] : i \in T} = ToSet(s) \cap ToSet(u)
  BY DEF ToSet
<1> QED BY <1>1, <1>2 DEF Those

\* The words of a text, those it says aside included.
Words(S) == {t \in S : t[1] \in {"word", "aside"}}

LEMMA WordsText ==
    ASSUME NEW s \in Texts
    PROVE  LET words == Picked(s, Places(s, "word") \cup Places(s, "aside"))
           IN  words \in Texts /\ ToSet(words) = Words(ToSet(s))
<1> DEFINE T == Places(s, "word") \cup Places(s, "aside")
<1>1. T \in SUBSET DOMAIN s
  BY DEF Places
<1>2. Picked(s, T) \in Texts /\ ToSet(Picked(s, T)) = {s[i] : i \in T}
  BY <1>1, PickedText
<1>3. {s[i] : i \in T} = Words(ToSet(s))
  BY DEF ToSet, Words, Places
<1> QED BY <1>2, <1>3

LEMMA UntaggedText ==
    ASSUME NEW s \in Texts
    PROVE  /\ Untagged(s) \in Texts
           /\ ToSet(Untagged(s)) = {t \in ToSet(s) : t[1] = "word"}
<1>1. Places(s, "word") \in SUBSET DOMAIN s
  BY DEF Places
<1>2. /\ Picked(s, Places(s, "word")) \in Texts
      /\ ToSet(Picked(s, Places(s, "word"))) = {s[i] : i \in Places(s, "word")}
  BY <1>1, PickedText
<1>3. {s[i] : i \in Places(s, "word")} = {t \in ToSet(s) : t[1] = "word"}
  BY DEF ToSet, Places
<1> QED BY <1>2, <1>3 DEF Untagged

-----------------------------------------------------------------------------
(* Content as a provider sends it, and how it is split.                    *)

\* Tokens are numbered by their places, and no prefix closes more than it has opened.
Sound(s) ==
    /\ s \in Seq(Tokens)
    /\ \A i \in DOMAIN s : s[i][2] = i /\ s[i][1] \in {"open", "close", "word"}
    /\ \A n \in 0 .. Len(s) : Rank(Places(s, "close"), n) <= Rank(Places(s, "open"), n)

LEMMA SoundText ==
    ASSUME NEW s, Sound(s)
    PROVE  /\ s \in Texts /\ s \in Seq(Tokens) /\ DOMAIN s = 1 .. Len(s) /\ Len(s) \in Nat
           /\ \A sort : Places(s, sort) \in SUBSET (1 .. Len(s)) /\ IsFiniteSet(Places(s, sort))
<1>1. s \in Seq(Tokens) /\ DOMAIN s = 1 .. Len(s) /\ Len(s) \in Nat
  BY DEF Sound
<1>2. Increasing(s)
  BY DEF Sound, Increasing
<1>3. ASSUME NEW sort PROVE Places(s, sort) \in SUBSET (1 .. Len(s)) /\ IsFiniteSet(Places(s, sort))
  <2>1. Places(s, sort) \in SUBSET (1 .. Len(s))
    BY <1>1 DEF Places
  <2> QED BY <1>1, <2>1, UpTo, FS_Subset
<1> QED BY <1>1, <1>2, <1>3 DEF Texts

\* The first of some places.
LEMMA FirstIs ==
    ASSUME NEW n \in Nat, NEW T \in SUBSET (1 .. n)
    PROVE  /\ T = {} <=> First(T) = 0
           /\ T # {} => First(T) \in T /\ \A j \in T : First(T) <= j
<1>1. CASE T = {}
  BY <1>1 DEF First
<1>2. CASE T # {}
  <2>1. T \subseteq Nat
    OBVIOUS
  <2>2. \E i \in T : \A j \in T : <<j, i>> \notin OpToRel(<, Nat)
    BY <1>2, <2>1, WFMin, NatLessThanWellFounded, Zenon
  <2>3. PICK i \in T : \A j \in T : ~ (j < i)
    BY <2>1, <2>2, Zenon DEF OpToRel
  <2>4. \A j \in T : i <= j
    BY <2>1, <2>3
  <2>5. First(T) \in T /\ \A j \in T : First(T) <= j
    BY <1>2, <2>4 DEF First
  <2> QED BY <1>2, <2>5
<1> QED BY <1>1, <1>2

\* Where the first region opens and closes.
LEMMA RegionIs ==
    ASSUME NEW s, Sound(s)
    PROVE  /\ OpenedAt(s) \in 0 .. Len(s) /\ ClosedAt(s) \in 0 .. Len(s)
           /\ OpenedAt(s) = 0 => Places(s, "open") = {}
           /\ OpenedAt(s) # 0 => /\ OpenedAt(s) \in Places(s, "open")
                                 /\ \A i \in Places(s, "open") : OpenedAt(s) <= i
           /\ ClosedAt(s) = 0 => \A j \in Places(s, "close") : ~ j > OpenedAt(s)
           /\ ClosedAt(s) # 0 => /\ ClosedAt(s) \in Places(s, "close")
                                 /\ ClosedAt(s) > OpenedAt(s)
                                 /\ \A j \in Places(s, "close") :
                                       j > OpenedAt(s) => ClosedAt(s) <= j
<1> DEFINE opens == Places(s, "open")
           closes == {j \in Places(s, "close") : j > OpenedAt(s)}
<1>1. Len(s) \in Nat /\ opens \in SUBSET (1 .. Len(s)) /\ closes \in SUBSET (1 .. Len(s))
  BY SoundText
<1>2. OpenedAt(s) = First(opens) /\ ClosedAt(s) = First(closes)
  BY DEF OpenedAt, ClosedAt
<1> HIDE DEF opens, closes
<1>3. /\ opens = {} <=> OpenedAt(s) = 0
      /\ opens # {} => OpenedAt(s) \in opens /\ \A j \in opens : OpenedAt(s) <= j
  <2>1. opens = {} <=> First(opens) = 0
    BY <1>1, FirstIs
  <2>2. opens # {} => First(opens) \in opens /\ \A j \in opens : First(opens) <= j
    BY <1>1, FirstIs
  <2> QED BY <1>2, <2>1, <2>2, Zenon
<1>4. /\ closes = {} <=> ClosedAt(s) = 0
      /\ closes # {} => ClosedAt(s) \in closes /\ \A j \in closes : ClosedAt(s) <= j
  <2>1. closes = {} <=> First(closes) = 0
    BY <1>1, FirstIs
  <2>2. closes # {} => First(closes) \in closes /\ \A j \in closes : First(closes) <= j
    BY <1>1, FirstIs
  <2> QED BY <1>2, <2>1, <2>2, Zenon
<1>5. OpenedAt(s) \in 0 .. Len(s) /\ ClosedAt(s) \in 0 .. Len(s)
  <2>1. \A T \in SUBSET (1 .. Len(s)) : \A n \in T : n \in 0 .. Len(s)
    BY <1>1
  <2>2. 0 \in 0 .. Len(s)
    BY <1>1
  <2> QED BY <1>1, <1>3, <1>4, <2>1, <2>2, Zenon
<1> USE DEF opens, closes
<1>6. ClosedAt(s) = 0 => \A j \in Places(s, "close") : ~ j > OpenedAt(s)
  BY <1>4
<1>7. ClosedAt(s) # 0 =>
         ClosedAt(s) \in closes /\ \A j \in Places(s, "close") : j > OpenedAt(s) => ClosedAt(s) <= j
  BY <1>4
<1> QED BY <1>3, <1>5, <1>6, <1>7

\* Up to where the first region opens nothing is closed.
LEMMA NothingClosedBefore ==
    ASSUME NEW s, Sound(s), OpenedAt(s) # 0, NEW j \in Places(s, "close")
    PROVE  j > OpenedAt(s)
<1> DEFINE i == OpenedAt(s)
           A == {k \in Places(s, "open") : k <= j}
           B == {k \in Places(s, "close") : k <= j}
<1>1. j \in 1 .. Len(s) /\ i \in Places(s, "open") /\ i \in 1 .. Len(s) /\ Len(s) \in Nat
  BY RegionIs, SoundText
<1>2. i # j
  BY <1>1 DEF Places
<1>3. SUFFICES ASSUME j < i PROVE FALSE
  BY <1>1, <1>2
<1>4. A = {}
  BY <1>1, <1>3, RegionIs, SoundText
<1>5. j \in B /\ B \in SUBSET Places(s, "close")
  BY <1>1
<1>6. Cardinality(B) <= Cardinality(A)
  BY <1>1 DEF Sound, Rank
<1> HIDE DEF A, B
<1>7. IsFiniteSet(B)
  BY <1>5, SoundText, FS_Subset
<1>8. Cardinality(A) = 0 /\ Cardinality(B) # 0 /\ Cardinality(B) \in Nat
  BY <1>4, <1>5, <1>7, FS_EmptySet, FS_CardinalityType
<1> QED BY <1>6, <1>8

\* A prefix has the tags up to its end.
LEMMA PrefixPlaces ==
    ASSUME NEW s \in Seq(Tokens), NEW n \in 0 .. Len(s), NEW sort
    PROVE  Cardinality(Places(SubSeq(s, 1, n), sort)) = Rank(Places(s, sort), n)
<1>1. DOMAIN s = 1 .. Len(s) /\ Len(s) \in Nat
  OBVIOUS
<1>2. /\ DOMAIN SubSeq(s, 1, n) = 1 .. n
      /\ \A i \in 1 .. n : SubSeq(s, 1, n)[i] = s[i]
  BY <1>1
<1>3. Places(SubSeq(s, 1, n), sort) = {j \in Places(s, sort) : j <= n}
  BY <1>1, <1>2 DEF Places
<1> QED BY <1>3 DEF Rank

\* A word outside all regions is not in the first one.
LEMMA OutsideFirst ==
    ASSUME NEW s, Sound(s), OpenedAt(s) # 0, NEW k \in Places(s, "word"),
           Balanced(SubSeq(s, 1, k))
    PROVE  k < OpenedAt(s) \/ (ClosedAt(s) # 0 /\ ClosedAt(s) < k)
<1> DEFINE i == OpenedAt(s)
           j == ClosedAt(s)
           A == {l \in Places(s, "open") : l <= k}
           B == {l \in Places(s, "close") : l <= k}
<1>1. SUFFICES ASSUME ~ k < i, ~ (j # 0 /\ j < k) PROVE FALSE
  OBVIOUS
<1>2. /\ k \in 1 .. Len(s) /\ i \in Places(s, "open") /\ i \in 1 .. Len(s)
      /\ j \in 0 .. Len(s) /\ Len(s) \in Nat /\ s \in Seq(Tokens)
  BY RegionIs, SoundText
<1>3. i <= k
  BY <1>1, <1>2
<1>4. Cardinality(A) = Cardinality(B)
  BY <1>2, PrefixPlaces DEF Balanced, Rank
<1>5. B = {}
  <2> SUFFICES ASSUME NEW l \in Places(s, "close"), l <= k PROVE FALSE
    OBVIOUS
  <2>1. l > i
    BY NothingClosedBefore
  <2>2. j # 0 /\ j <= l /\ l \in 1 .. Len(s)
    BY <2>1, RegionIs, SoundText
  <2>3. j = k
    BY <1>1, <1>2, <2>2
  <2>4. j \in Places(s, "close")
    BY <2>2, RegionIs
  <2> QED BY <2>3, <2>4 DEF Places
<1>6. i \in A /\ A \in SUBSET Places(s, "open")
  BY <1>2, <1>3
<1> HIDE DEF A, B
<1>7. IsFiniteSet(A)
  BY <1>6, SoundText, FS_Subset
<1>8. Cardinality(B) = 0 /\ Cardinality(A) # 0
  BY <1>5, <1>6, <1>7, FS_EmptySet
<1> QED BY <1>4, <1>8

\* What splitting makes of a text, by where its first region opens and closes.
LEMMA SplitCases ==
    ASSUME NEW s
    PROVE  LET i == OpenedAt(s) j == ClosedAt(s) IN
           /\ i = 0 => SplitThinkTags(s) = [reasoning |-> << >>, body |-> s]
           /\ i # 0 /\ j = 0 => SplitThinkTags(s) = [reasoning |-> Untagged(SubSeq(s, i, Len(s))),
                                                     body |-> SubSeq(s, 1, i - 1)]
           /\ i # 0 /\ j # 0 => SplitThinkTags(s) = [reasoning |-> SubSeq(s, i + 1, j - 1),
                                                     body |-> Body(s, i, j)]
<1> DEFINE i == OpenedAt(s)
           j == ClosedAt(s)
           k == IF i = 0 THEN 0 ELSE j
<1>1. SplitThinkTags(s) =
        CASE i = 0 -> [reasoning |-> << >>, body |-> s]
          [] i # 0 /\ k = 0 -> [reasoning |-> Untagged(SubSeq(s, i, Len(s))),
                                body |-> SubSeq(s, 1, i - 1)]
          [] k # 0 -> [reasoning |-> SubSeq(s, i + 1, k - 1), body |-> Body(s, i, k)]
  BY DEF SplitThinkTags
<1> HIDE DEF i, j
<1>2. i = 0 => SplitThinkTags(s) = [reasoning |-> << >>, body |-> s]
  BY <1>1
<1>3. i # 0 /\ j = 0 => SplitThinkTags(s) = [reasoning |-> Untagged(SubSeq(s, i, Len(s))),
                                           body |-> SubSeq(s, 1, i - 1)]
  BY <1>1
<1>4. i # 0 /\ j # 0 => SplitThinkTags(s) = [reasoning |-> SubSeq(s, i + 1, j - 1),
                                           body |-> Body(s, i, j)]
  BY <1>1
<1> QED BY <1>2, <1>3, <1>4 DEF i, j

\* The words of the places k of a text.
WordsAt(s, K) == {s[k] : k \in K \cap Places(s, "word")}

LEMMA WordsOfText ==
    ASSUME NEW s, Sound(s)
    PROVE  /\ Words(ToSet(s)) = WordsAt(s, DOMAIN s)
           /\ \A K : K \subseteq DOMAIN s => Words({s[k] : k \in K}) = WordsAt(s, K)
           /\ \A k, l \in DOMAIN s : s[k] = s[l] => k = l
<1>1. \A k, l \in DOMAIN s : s[k] = s[l] => k = l
  BY DEF Sound
<1>2. \A k \in DOMAIN s : s[k][1] \in {"word", "aside"} <=> k \in Places(s, "word")
  BY DEF Sound, Places
<1>3. ASSUME NEW K, K \subseteq DOMAIN s PROVE Words({s[k] : k \in K}) = WordsAt(s, K)
  BY <1>2, <1>3 DEF Words, WordsAt
<1>4. Words(ToSet(s)) = WordsAt(s, DOMAIN s)
  BY <1>3 DEF ToSet
<1> QED BY <1>1, <1>3, <1>4

\* The words of two parts of a text without tags or with them.
LEMMA UntaggedWords ==
    ASSUME NEW s \in Texts
    PROVE  Words(ToSet(Untagged(s))) = {t \in ToSet(s) : t[1] = "word"}
BY UntaggedText DEF Words

\* The words outside the first region are the body, the others the reasoning.
LEMMA SplitWords ==
    ASSUME NEW s, Sound(s), OpenedAt(s) # 0
    PROVE  LET i == OpenedAt(s) j == ClosedAt(s) split == SplitThinkTags(s) IN
           /\ split.body \in Texts /\ split.reasoning \in Texts
           /\ Places(split.body, "open") = {}
           /\ Words(ToSet(split.body)) = WordsAt(s, {k \in DOMAIN s : k < i \/ (j # 0 /\ j < k)})
           /\ Words(ToSet(split.reasoning)) = WordsAt(s, {k \in DOMAIN s : i < k /\ (j # 0 => k < j)})
<1> DEFINE i == OpenedAt(s)
           j == ClosedAt(s)
           split == SplitThinkTags(s)
           K == {k \in DOMAIN s : k < i \/ (j # 0 /\ j < k)}
           R == {k \in DOMAIN s : i < k /\ (j # 0 => k < j)}
           before == SubSeq(s, 1, i - 1)
           Claim == /\ split.body \in Texts /\ split.reasoning \in Texts
                    /\ Places(split.body, "open") = {}
                    /\ Words(ToSet(split.body)) = WordsAt(s, K)
                    /\ Words(ToSet(split.reasoning)) = WordsAt(s, R)
<1>1. /\ s \in Texts /\ s \in Seq(Tokens) /\ DOMAIN s = 1 .. Len(s) /\ Len(s) \in Nat
      /\ i \in Places(s, "open") /\ i \in 1 .. Len(s) /\ j \in 0 .. Len(s)
      /\ \A k \in Places(s, "open") : i <= k
  BY SoundText, RegionIs
<1>2. /\ before \in Texts /\ ToSet(before) = {s[k] : k \in 1 .. i - 1}
  <2>1. i - 1 \in 0 .. Len(s) /\ 1 \in Nat \ {0}
    BY <1>1
  <2> QED BY <1>1, <2>1, TextPiece
<1>3. ASSUME j = 0 PROVE Claim
  <2> DEFINE from == SubSeq(s, i, Len(s))
  <2>1. split = [reasoning |-> Untagged(from), body |-> before]
    BY <1>3, SplitCases
  <2>2. from \in Texts /\ ToSet(from) = {s[k] : k \in i .. Len(s)}
    <3>1. Len(s) \in 0 .. Len(s) /\ i \in Nat \ {0}
      BY <1>1
    <3> QED BY <1>1, <3>1, TextPiece
  <2>3. Untagged(from) \in Texts /\ Words(ToSet(Untagged(from))) = {t \in ToSet(from) : t[1] = "word"}
    BY <2>2, UntaggedText, UntaggedWords
  <2> HIDE DEF from, before
  <2>4. K = 1 .. i - 1
    BY <1>1, <1>3
  <2>5. Words(ToSet(before)) = WordsAt(s, K)
    BY <1>2, <2>4, WordsOfText
  <2>6. {t \in ToSet(from) : t[1] = "word"} = WordsAt(s, R)
    <3>1. \A k \in i .. Len(s) : k \in DOMAIN s /\ (s[k][1] = "word" <=> k \in R \cap Places(s, "word"))
      BY <1>1, <1>3 DEF Places
    <3>2. R \subseteq i .. Len(s)
      BY <1>1
    <3> HIDE DEF R
    <3> QED BY <2>2, <3>1, <3>2 DEF WordsAt
  <2>7. Places(before, "open") = {}
    <3>1. \A n \in DOMAIN before : \E k \in 1 .. i - 1 : before[n] = s[k]
      BY <1>2 DEF ToSet
    <3>2. \A k \in 1 .. i - 1 : s[k][1] # "open"
      BY <1>1 DEF Places
    <3> QED BY <3>1, <3>2 DEF Places
  <2>8. split.body = before /\ split.reasoning = Untagged(from)
    BY <2>1
  <2> HIDE DEF split, K, R
  <2> QED BY <1>2, <2>3, <2>5, <2>6, <2>7, <2>8
<1>4. ASSUME j # 0 PROVE Claim
  <2> DEFINE behind == SubSeq(s, j + 1, Len(s))
             inside == SubSeq(s, i + 1, j - 1)
             both == before \o behind
  <2>1. split = [reasoning |-> inside, body |-> Untagged(both)]
    BY <1>4, SplitCases DEF Body
  <2>2. j \in Places(s, "close") /\ j > i /\ i # 0
    BY <1>1, <1>4, RegionIs
  <2>3. behind \in Texts /\ ToSet(behind) = {s[k] : k \in j + 1 .. Len(s)}
    <3>1. Len(s) \in 0 .. Len(s) /\ j + 1 \in Nat \ {0}
      BY <1>1
    <3> QED BY <1>1, <3>1, TextPiece
  <2>4. inside \in Texts /\ ToSet(inside) = {s[k] : k \in i + 1 .. j - 1}
    <3>1. j - 1 \in 0 .. Len(s) /\ i + 1 \in Nat \ {0}
      BY <1>1, <2>2
    <3> QED BY <1>1, <3>1, TextPiece
  <2>5. both \in Texts /\ ToSet(both) = ToSet(before) \cup ToSet(behind)
    <3>1. ASSUME NEW m \in DOMAIN before, NEW n \in DOMAIN behind
          PROVE  before[m][2] < behind[n][2]
      <4>1. PICK k \in 1 .. i - 1 : before[m] = s[k]
        <5>1. before[m] \in ToSet(before)
          BY DEF ToSet
        <5> QED BY <1>2, <5>1
      <4>2. PICK l \in j + 1 .. Len(s) : behind[n] = s[l]
        <5>1. behind[n] \in ToSet(behind)
          BY DEF ToSet
        <5> QED BY <2>3, <5>1
      <4>3. k \in DOMAIN s /\ l \in DOMAIN s /\ k < l
        BY <1>1, <2>2
      <4>4. s[k][2] = k /\ s[l][2] = l
        BY <4>3 DEF Sound
      <4> QED BY <4>1, <4>2, <4>3, <4>4
    <3> QED BY <1>2, <2>3, <3>1, TextJoined
  <2>6. Untagged(both) \in Texts /\ ToSet(Untagged(both)) = {t \in ToSet(both) : t[1] = "word"}
    BY <2>5, UntaggedText
  <2>7. Words(ToSet(Untagged(both))) = {t \in ToSet(both) : t[1] = "word"}
    BY <2>6 DEF Words
  <2> HIDE DEF before, behind, inside, both
  <2>8. {t \in ToSet(both) : t[1] = "word"} = WordsAt(s, K)
    <3>1. (1 .. i - 1) \cup (j + 1 .. Len(s)) = K
      BY <1>1, <1>4, <2>2
    <3>2. ToSet(both) = {s[k] : k \in K}
      <4> HIDE DEF K
      <4> QED BY <1>2, <2>3, <2>5, <3>1
    <3>3. \A k \in K : s[k][1] = "word" <=> k \in Places(s, "word")
      BY DEF Places
    <3> HIDE DEF K
    <3> QED BY <3>2, <3>3 DEF WordsAt
  <2>9. Words(ToSet(inside)) = WordsAt(s, R)
    <3>1. R = i + 1 .. j - 1
      BY <1>1, <1>4
    <3>2. R \subseteq DOMAIN s
      OBVIOUS
    <3> HIDE DEF R
    <3> QED BY <2>4, <3>1, <3>2, WordsOfText
  <2>10. Places(Untagged(both), "open") = {}
    <3>1. \A n \in DOMAIN Untagged(both) : Untagged(both)[n] \in ToSet(Untagged(both))
      BY DEF ToSet
    <3>2. \A n \in DOMAIN Untagged(both) : Untagged(both)[n][1] = "word"
      BY <2>6, <3>1
    <3> QED BY <3>2 DEF Places
  <2>11. split.body = Untagged(both) /\ split.reasoning = inside
    BY <2>1
  <2> HIDE DEF split, K, R
  <2> QED BY <2>4, <2>6, <2>7, <2>8, <2>9, <2>10, <2>11
<1> QED BY <1>3, <1>4

\* The words outside all regions.
LEMMA OutsideText ==
    ASSUME NEW s, Sound(s)
    PROVE  /\ Outside(s) \in Texts
           /\ \A t \in ToSet(Outside(s)) : t[1] = "word"
           /\ ToSet(Outside(s)) = {s[k] : k \in {i \in Places(s, "word") : Balanced(SubSeq(s, 1, i))}}
<1> DEFINE free == {i \in Places(s, "word") : Balanced(SubSeq(s, 1, i))}
<1>1. s \in Texts /\ free \in SUBSET DOMAIN s
  BY SoundText DEF Places
<1>2. Picked(s, free) \in Texts /\ ToSet(Picked(s, free)) = {s[k] : k \in free}
  <2> HIDE DEF free
  <2> QED BY <1>1, PickedText
<1>3. Outside(s) = Picked(s, free)
  BY DEF Outside
<1>4. \A k \in free : s[k][1] = "word"
  BY DEF Places
<1> QED BY <1>2, <1>3, <1>4

\* Splitting loses no word and doubles none, and keeps in the body what is outside.
LEMMA SplitParts ==
    ASSUME NEW s, Sound(s)
    PROVE  LET split == SplitThinkTags(s) IN
           /\ split.body \in Texts /\ split.reasoning \in Texts
           /\ split.body = s \/ Places(split.body, "open") = {}
           /\ ToSet(Outside(s)) \subseteq Words(ToSet(split.body))
           /\ Words(ToSet(split.body)) \cap Words(ToSet(split.reasoning)) = {}
           /\ Words(ToSet(split.body)) \cup Words(ToSet(split.reasoning)) = Words(ToSet(s))
<1> DEFINE i == OpenedAt(s)
           j == ClosedAt(s)
           split == SplitThinkTags(s)
           K == {k \in DOMAIN s : k < i \/ (j # 0 /\ j < k)}
           R == {k \in DOMAIN s : i < k /\ (j # 0 => k < j)}
           free == {k \in Places(s, "word") : Balanced(SubSeq(s, 1, k))}
<1>1. CASE i = 0
  <2>1. split.body = s /\ split.reasoning = << >>
    BY <1>1, SplitCases
  <2>2. s \in Texts /\ << >> \in Texts
    BY SoundText DEF Texts, Increasing
  <2>3. ToSet(<< >>) = {} /\ Words(ToSet(<< >>)) = {}
    BY DEF ToSet, Words
  <2>4. ToSet(Outside(s)) \subseteq Words(ToSet(s))
    <3>1. \A k \in free : s[k] \in ToSet(s) /\ s[k][1] = "word"
      BY DEF Places, ToSet
    <3> QED BY <3>1, OutsideText DEF Words
  <2> HIDE DEF split
  <2> QED BY <2>1, <2>2, <2>3, <2>4 DEF split
<1>2. CASE i # 0
  <2>1. /\ split.body \in Texts /\ split.reasoning \in Texts
        /\ Places(split.body, "open") = {}
        /\ Words(ToSet(split.body)) = WordsAt(s, K)
        /\ Words(ToSet(split.reasoning)) = WordsAt(s, R)
    BY <1>2, SplitWords
  <2>2. /\ DOMAIN s = 1 .. Len(s) /\ Len(s) \in Nat
        /\ i \in Places(s, "open") /\ i \in 1 .. Len(s) /\ j \in 0 .. Len(s)
        /\ j # 0 => j \in Places(s, "close") /\ j > i
    BY <1>2, SoundText, RegionIs
  <2>3. \A k \in Places(s, "word") : k # i /\ k # j /\ k \in DOMAIN s
    BY <2>2 DEF Places
  <2>4. \A k \in Places(s, "word") : k \in K <=> k \notin R
    BY <2>2, <2>3
  <2>5. \A k \in free : k \in K
    <3> SUFFICES ASSUME NEW k \in Places(s, "word"), Balanced(SubSeq(s, 1, k)) PROVE k \in K
      OBVIOUS
    <3>1. k < i \/ (j # 0 /\ j < k)
      BY <1>2, OutsideFirst
    <3> QED BY <2>3, <3>1
  <2> HIDE DEF K, R
  <2>6. ToSet(Outside(s)) \subseteq WordsAt(s, K)
    BY <2>5, OutsideText DEF WordsAt
  <2>7. WordsAt(s, K) \cap WordsAt(s, R) = {}
    <3>1. \A k, l \in DOMAIN s : s[k] = s[l] => k = l
      BY WordsOfText
    <3> QED BY <2>3, <2>4, <3>1 DEF WordsAt
  <2>8. WordsAt(s, K) \cup WordsAt(s, R) = Words(ToSet(s))
    <3>1. Words(ToSet(s)) = WordsAt(s, DOMAIN s)
      BY WordsOfText
    <3> QED BY <2>3, <2>4, <3>1 DEF WordsAt
  <2> HIDE DEF split
  <2> QED BY <2>1, <2>6, <2>7, <2>8 DEF split
<1> QED BY <1>1, <1>2

-----------------------------------------------------------------------------
(* What a round answers.                                                   *)

Asides == {<< >>, <<AsideToken>>}

\* The answer `r' to the content `s' and the reasoning `a' that came aside.
Faithful(s, a, r) ==
    /\ r.text \in Texts /\ r.reasoning \in Texts
    /\ r.text = s \/ Places(r.text, "open") = {}
    /\ ToSet(Outside(s)) \subseteq Words(ToSet(r.text))
    /\ Words(ToSet(r.text)) \cap Words(ToSet(r.reasoning)) = {}
    /\ Words(ToSet(r.text)) \cup Words(ToSet(r.reasoning)) = Words(ToSet(s)) \cup ToSet(a)

LEMMA AsideTexts ==
    ASSUME NEW a \in Asides
    PROVE  a \in Texts /\ Words(ToSet(a)) = ToSet(a) /\ ToSet(a) \subseteq {AsideToken}
<1>1. CASE a = << >>
  BY <1>1 DEF Texts, Increasing, ToSet, Words
<1>2. CASE a = <<AsideToken>>
  <2>1. AsideToken \in Tokens /\ AsideToken[1] = "aside"
    BY DEF Tokens, AsideToken
  <2> HIDE DEF Asides
  <2>2. a \in Seq(Tokens) /\ DOMAIN a = {1} /\ a[1] = AsideToken
    BY <1>2, <2>1
  <2>3. ToSet(a) = {AsideToken}
    BY <2>2 DEF ToSet
  <2>4. Increasing(a)
    BY <2>2 DEF Increasing
  <2> QED BY <2>1, <2>2, <2>3, <2>4 DEF Texts, Words
<1> QED BY <1>1, <1>2 DEF Asides

\* Without splitting.
LEMMA WholeFaithful ==
    ASSUME NEW s, Sound(s), NEW a \in Asides, NEW r, r.text = s, r.reasoning = a
    PROVE  Faithful(s, a, r)
<1>1. a \in Texts /\ Words(ToSet(a)) = ToSet(a) /\ ToSet(a) \subseteq {AsideToken}
  BY AsideTexts
<1>2. s \in Texts
  BY SoundText
<1>3. AsideToken \notin ToSet(s)
  <2>1. AsideToken[1] = "aside"
    BY DEF AsideToken
  <2>2. \A k \in DOMAIN s : s[k][1] # "aside"
    BY DEF Sound
  <2> QED BY <2>1, <2>2 DEF ToSet
<1>4. ToSet(Outside(s)) \subseteq Words(ToSet(s))
  <2>1. \A k \in Places(s, "word") : s[k] \in ToSet(s) /\ s[k][1] = "word"
    BY DEF Places, ToSet
  <2> QED BY <2>1, OutsideText DEF Words
<1>5. Words(ToSet(s)) \subseteq ToSet(s)
  BY DEF Words
<1> QED BY <1>1, <1>2, <1>3, <1>4, <1>5 DEF Faithful

\* However the answer arrives.
LEMMA AnswersFaithful ==
    ASSUME Sound(text), aside \in Asides
    PROVE  Faithful(text, aside, CollectRound(text, aside)) /\ Faithful(text, aside, Materialized)
<1> DEFINE split == SplitThinkTags(text)
           r == [text |-> split.body, reasoning |-> split.reasoning, acts |-> acts]
           w == [text |-> text, reasoning |-> aside, acts |-> acts]
<1>1. aside = << >> => Faithful(text, aside, r)
  <2>1. ToSet(<< >>) = {}
    BY DEF ToSet
  <2>2. r.text = split.body /\ r.reasoning = split.reasoning
    OBVIOUS
  <2> HIDE DEF r
  <2> QED BY <2>1, <2>2, SplitParts DEF Faithful
<1>2. Faithful(text, aside, w)
  BY WholeFaithful
<1>3. CollectRound(text, aside) = IF aside = << >> /\ split.reasoning # << >> THEN r ELSE w
  BY DEF CollectRound
<1>4. Materialized = IF aside # << >> THEN w ELSE r
  BY DEF Materialized
<1> HIDE DEF r, w, split
<1> QED BY <1>1, <1>2, <1>3, <1>4

\* In a balanced text every region is closed.
LEMMA BalancedCloses ==
    ASSUME NEW s, Sound(s), Balanced(s), NEW i \in Places(s, "open")
    PROVE  \E j \in Places(s, "close") : i < j
<1> DEFINE opens == Places(s, "open")
           closes == Places(s, "close")
           A == {k \in opens : k <= i - 1}
           B == {k \in closes : k <= i - 1}
<1>1. SUFFICES ASSUME \A j \in closes : ~ i < j PROVE FALSE
  OBVIOUS
<1>2. /\ Len(s) \in Nat /\ i \in 1 .. Len(s) /\ i - 1 \in 0 .. Len(s)
      /\ opens \subseteq 1 .. Len(s) /\ closes \subseteq 1 .. Len(s)
      /\ IsFiniteSet(opens) /\ IsFiniteSet(closes)
  <2>1. Len(s) \in Nat /\ opens \in SUBSET (1 .. Len(s)) /\ closes \in SUBSET (1 .. Len(s))
    BY SoundText
  <2> QED BY <2>1, SoundText
<1>3. i \notin closes
  BY DEF Places
<1>4. B = closes
  <2> SUFFICES ASSUME NEW j \in closes PROVE j <= i - 1
    OBVIOUS
  <2> HIDE DEF closes, opens
  <2> QED BY <1>1, <1>2, <1>3
<1>5. A \in SUBSET opens /\ i \notin A
  BY <1>2
<1>6. Cardinality(B) <= Cardinality(A)
  BY <1>2 DEF Sound, Rank
<1>7. Cardinality(opens) = Cardinality(closes)
  BY DEF Balanced
<1> HIDE DEF A, B
<1>8. A # opens /\ Cardinality(A) <= Cardinality(opens) /\ Cardinality(A) # Cardinality(opens)
  BY <1>2, <1>5, FS_Subset
<1>9. Cardinality(A) \in Nat /\ Cardinality(opens) \in Nat
  BY <1>2, <1>5, FS_Subset, FS_CardinalityType
<1> QED BY <1>4, <1>6, <1>7, <1>8, <1>9

\* The user sees what is outside of all regions, and every region he sees is closed.
LEMMA FaithfulShows ==
    ASSUME NEW s, Sound(s), NEW a, NEW r, Faithful(s, a, r)
    PROVE  LET seen == VisibleText(r.text) said == Outside(s)
           IN  /\ Those(seen, said) = said
               /\ \A i \in Places(seen, "open") : \E j \in Places(seen, "close") : i < j
<1> DEFINE seen == VisibleText(r.text)
           said == Outside(s)
<1>1. r.text \in Texts
  BY DEF Faithful
<1>2. \/ Balanced(r.text) /\ seen = r.text
      \/ ~ Balanced(r.text) /\ seen = Untagged(r.text)
  BY DEF VisibleText
<1>3. said \in Texts /\ \A t \in ToSet(said) : t[1] = "word" /\ t \in ToSet(r.text)
  BY OutsideText DEF Faithful, Words
<1>4. seen \in Texts /\ ToSet(said) \subseteq ToSet(seen)
  BY <1>1, <1>2, <1>3, UntaggedText
<1>5. Those(seen, said) = said
  <2>1. Those(seen, said) \in Texts /\ ToSet(Those(seen, said)) = ToSet(said)
    BY <1>4, ThoseText
  <2> HIDE DEF seen, said
  <2> QED BY <1>3, <2>1, SameText
<1>6. ASSUME NEW i \in Places(seen, "open")
      PROVE  \E j \in Places(seen, "close") : i < j
  <2>1. seen = r.text /\ Balanced(r.text)
    <3>1. SUFFICES ASSUME seen = Untagged(r.text) PROVE FALSE
      BY <1>2
    <3>2. seen[i] \in ToSet(seen) /\ seen[i][1] = "open"
      BY DEF ToSet, Places
    <3> HIDE DEF seen
    <3> QED BY <1>1, <3>1, <3>2, UntaggedText
  <2>2. r.text = s
    BY <1>6, <2>1 DEF Faithful
  <2>3. Sound(s) /\ Balanced(s) /\ i \in Places(s, "open") /\ seen = s
    BY <2>1, <2>2
  <2> HIDE DEF seen
  <2> QED BY <2>3, BalancedCloses
<1> QED BY <1>5, <1>6

\* Every word is told once, in the text or in the reasoning.
LEMMA FaithfulTells ==
    ASSUME NEW s, Sound(s), NEW a \in Asides, NEW r, Faithful(s, a, r)
    PROVE  LET words(u) == Picked(u, Places(u, "word") \cup Places(u, "aside"))
               kept == words(r.text) thought == words(r.reasoning)
               said == words(s) \o a
           IN  /\ Len(kept) + Len(thought) = Len(said)
               /\ kept = Those(said, kept)
               /\ thought = Those(said, thought)
<1> DEFINE words(u) == Picked(u, Places(u, "word") \cup Places(u, "aside"))
           kept == words(r.text)
           thought == words(r.reasoning)
           said == words(s) \o a
<1>1. /\ kept \in Texts /\ ToSet(kept) = Words(ToSet(r.text))
      /\ thought \in Texts /\ ToSet(thought) = Words(ToSet(r.reasoning))
  BY WordsText DEF Faithful
<1>2. s \in Texts
  BY SoundText
<1>3. words(s) \in Texts /\ ToSet(words(s)) = Words(ToSet(s))
  BY <1>2, WordsText
<1>4. a \in Texts /\ ToSet(a) \subseteq {AsideToken}
  BY AsideTexts
<1>5. said \in Texts /\ ToSet(said) = Words(ToSet(s)) \cup ToSet(a)
  <2>1. \A t \in Words(ToSet(s)) : t[2] <= MaxTokens
    <3>1. ASSUME NEW k \in DOMAIN s PROVE s[k][2] <= MaxTokens
      <4>1. s[k] \in Tokens /\ s[k][1] # "aside"
        BY <1>2 DEF Sound
      <4> QED BY <4>1, ModelClientConstants DEF Tokens, AsideToken
    <3> QED BY <3>1 DEF Words, ToSet
  <2>2. \A t \in ToSet(a) : t[2] = MaxTokens + 1
    BY <1>4 DEF AsideToken
  <2>3. ASSUME NEW m \in DOMAIN words(s), NEW n \in DOMAIN a PROVE words(s)[m][2] < a[n][2]
    <3>1. words(s)[m] \in Words(ToSet(s)) /\ words(s)[m] \in Tokens
      <4>1. words(s)[m] \in ToSet(words(s))
        BY DEF ToSet
      <4> HIDE DEF words
      <4> QED BY <1>3, <4>1 DEF Texts
    <3>2. a[n] \in ToSet(a)
      BY DEF ToSet
    <3> HIDE DEF words
    <3>3. words(s)[m][2] \in Nat
      BY <3>1, TokenNumbers
    <3> QED BY <2>1, <2>2, <3>1, <3>2, <3>3, ModelClientConstants
  <2> DEFINE w == words(s)
  <2> HIDE DEF w
  <2>4. w \in Texts /\ \A m \in DOMAIN w, n \in DOMAIN a : w[m][2] < a[n][2]
    BY <1>3, <2>3 DEF w
  <2>5. w \o a \in Texts /\ ToSet(w \o a) = ToSet(w) \cup ToSet(a)
    BY <1>4, <2>4, TextJoined
  <2> QED BY <1>3, <2>5 DEF w
<1> HIDE DEF kept, thought, said
<1>6. ToSet(kept) \cap ToSet(thought) = {} /\ ToSet(kept) \cup ToSet(thought) = ToSet(said)
  BY <1>1, <1>5 DEF Faithful
<1>7. Len(kept) + Len(thought) = Len(said)
  <2>1. /\ IsFiniteSet(ToSet(kept)) /\ Cardinality(ToSet(kept)) = Len(kept)
        /\ IsFiniteSet(ToSet(thought)) /\ Cardinality(ToSet(thought)) = Len(thought)
        /\ Cardinality(ToSet(said)) = Len(said)
    BY <1>1, <1>5, TextLength
  <2>2. Cardinality(ToSet(said)) = Cardinality(ToSet(kept)) + Cardinality(ToSet(thought))
                                   - Cardinality(ToSet(kept) \cap ToSet(thought))
    BY <1>6, <2>1, FS_Union
  <2>3. Cardinality(ToSet(kept) \cap ToSet(thought)) = 0
    BY <1>6, FS_EmptySet
  <2>4. Cardinality(ToSet(kept)) \in Nat /\ Cardinality(ToSet(thought)) \in Nat
    BY <2>1, FS_CardinalityType
  <2> QED BY <2>1, <2>2, <2>3, <2>4
<1>8. kept = Those(said, kept)
  <2>1. Those(said, kept) \in Texts /\ ToSet(Those(said, kept)) = ToSet(kept)
    BY <1>5, <1>6, ThoseText
  <2> QED BY <1>1, <2>1, SameText
<1>9. thought = Those(said, thought)
  <2>1. ToSet(said) \cap ToSet(thought) = ToSet(thought)
    BY <1>6
  <2>2. Those(said, thought) \in Texts /\ ToSet(Those(said, thought)) = ToSet(thought)
    BY <1>5, <2>1, ThoseText
  <2> QED BY <1>1, <2>2, SameText
<1> QED BY <1>7, <1>8, <1>9, Zenon DEF kept, thought, said, words

-----------------------------------------------------------------------------
(* What the provider sends, and the invariant of the calls.                *)

\* A provider that closes only what it has opened sends sound content.
LEMMA MoreIsSound ==
    ASSUME NEW s, Sound(s), NEW t \in More(s)
    PROVE  Sound(t)
<1> DEFINE n == Len(s) + 1
           opens == Places(s, "open")
           closes == Places(s, "close")
<1>1. CASE t = s
  BY <1>1
<1>2. CASE t # s
  <2>1. PICK sort \in {"open", "close", "word"} :
            /\ n <= MaxTokens /\ t = Append(s, <<sort, n>>)
            /\ sort = "close" => Cardinality(opens) > Cardinality(closes)
    <3>1. n <= MaxTokens
      BY <1>2, SoundText, ModelClientConstants DEF More
    <3>2. \/ t = Append(s, <<"word", n>>)
          \/ t = Append(s, <<"open", n>>)
          \/ t = Append(s, <<"close", n>>) /\ Cardinality(opens) > Cardinality(closes)
      BY <1>2, <3>1 DEF More
    <3> HIDE DEF n, opens, closes
    <3> QED BY <3>1, <3>2
  <2>2. /\ s \in Seq(Tokens) /\ DOMAIN s = 1 .. Len(s) /\ Len(s) \in Nat
        /\ \A k : Places(s, k) \in SUBSET (1 .. Len(s)) /\ IsFiniteSet(Places(s, k))
    BY SoundText
  <2>3. <<sort, n>> \in Tokens
    BY <2>1, <2>2 DEF Tokens
  <2>4. /\ t \in Seq(Tokens) /\ DOMAIN t = 1 .. n /\ Len(t) = n /\ t[n] = <<sort, n>>
        /\ \A i \in 1 .. Len(s) : t[i] = s[i]
    BY <2>1, <2>2, <2>3
  <2>5. \A i \in DOMAIN s : s[i][2] = i /\ s[i][1] \in {"open", "close", "word"}
    BY DEF Sound
  <2>6. ASSUME NEW i \in DOMAIN t PROVE t[i][2] = i /\ t[i][1] \in {"open", "close", "word"}
    <3>1. CASE i = n
      BY <2>4, <3>1
    <3>2. CASE i # n
      <4>1. i \in 1 .. Len(s)
        BY <2>2, <2>4, <3>2
      <4> QED BY <2>2, <2>4, <2>5, <4>1
    <3> QED BY <3>1, <3>2
  <2>7. ASSUME NEW k PROVE Places(t, k) = Places(s, k) \cup (IF k = sort THEN {n} ELSE {})
    <3> HIDE DEF n
    <3>1. n \notin 1 .. Len(s) /\ DOMAIN t = 1 .. Len(s) \cup {n}
      BY <2>2, <2>4 DEF n
    <3>2. t[n][1] = sort
      BY <2>4
    <3> QED BY <2>2, <2>4, <3>1, <3>2 DEF Places
  <2>8. ASSUME NEW k, NEW m \in 0 .. Len(s) PROVE Rank(Places(t, k), m) = Rank(Places(s, k), m)
    <3>1. ~ n <= m
      BY <2>2
    <3> HIDE DEF n
    <3>2. {j \in Places(t, k) : j <= m} = {j \in Places(s, k) : j <= m}
      BY <2>7, <3>1
    <3> QED BY <3>2 DEF Rank
  <2>9. Rank(closes, Len(s)) = Cardinality(closes) /\ Rank(opens, Len(s)) = Cardinality(opens)
    <3>1. {j \in closes : j <= Len(s)} = closes /\ {j \in opens : j <= Len(s)} = opens
      BY <2>2
    <3> QED BY <3>1 DEF Rank
  <2>10. /\ Cardinality(closes) <= Cardinality(opens)
         /\ Cardinality(closes) \in Nat /\ Cardinality(opens) \in Nat
    <3>1. Len(s) \in 0 .. Len(s)
      BY <2>2
    <3>2. Rank(closes, Len(s)) <= Rank(opens, Len(s))
      BY <3>1 DEF Sound
    <3> QED BY <2>2, <2>9, <3>2, FS_CardinalityType
  <2>11. n \notin closes /\ n \notin opens
    BY <2>2
  <2>12. Rank(Places(t, "close"), n) <= Rank(Places(t, "open"), n)
    <3>1. ASSUME NEW k
          PROVE  Rank(Places(t, k), n)
                   = IF k = sort THEN Cardinality(Places(s, k)) + 1 ELSE Cardinality(Places(s, k))
      <4>1. {j \in Places(t, k) : j <= n} = Places(t, k)
        BY <2>4 DEF Places
      <4>2. n \notin Places(s, k)
        BY <2>2
      <4> HIDE DEF n
      <4>3. Cardinality(Places(s, k) \cup {n}) = Cardinality(Places(s, k)) + 1
        BY <2>2, <4>2, FS_AddElement
      <4> QED BY <2>7, <4>1, <4>3 DEF Rank
    <3> QED BY <2>1, <2>10, <3>1
  <2>13. ASSUME NEW m \in 0 .. Len(t)
         PROVE  Rank(Places(t, "close"), m) <= Rank(Places(t, "open"), m)
    <3>1. CASE m = n
      BY <2>12, <3>1
    <3>2. CASE m # n
      <4>1. m \in 0 .. Len(s)
        BY <2>2, <2>4, <3>2
      <4>2. Rank(closes, m) <= Rank(opens, m)
        BY <4>1 DEF Sound
      <4> QED BY <2>8, <4>1, <4>2
    <3> QED BY <3>1, <3>2
  <2> QED BY <2>4, <2>6, <2>13 DEF Sound
<1> QED BY <1>1, <1>2

\* Nothing is sound, as long as nothing has come.
LEMMA NothingIsSound == Sound(<< >>)
<1>1. \A k : Places(<< >>, k) = {}
  BY DEF Places
<1>2. << >> \in Seq(Tokens) /\ DOMAIN << >> = {} /\ Len(<< >>) = 0
  OBVIOUS
<1>3. \A n \in 0 .. 0 : Rank({}, n) <= Rank({}, n)
  <2>1. \A n : {j \in {} : j <= n} = {}
    OBVIOUS
  <2> QED BY <2>1, FS_EmptySet DEF Rank
<1> QED BY <1>1, <1>2, <1>3 DEF Sound

LEMMA MoreIsAside == ASSUME NEW a \in Asides, NEW b \in MoreAside(a) PROVE b \in Asides
<1>1. CASE a = << >>
  BY <1>1 DEF MoreAside, Asides
<1>2. CASE a = <<AsideToken>>
  BY <1>2 DEF MoreAside, Asides
<1> QED BY <1>1, <1>2 DEF Asides

\* An answer is made of the content of its call; each call brings one report at most.
AnswerInv ==
    /\ Sound(text) /\ aside \in Asides /\ acts \in BOOLEAN
    /\ pc # "idle" => answer = None
    /\ answer # None =>
          answer \in Round /\ (kind = "round" => Faithful(text, aside, answer))

CallInv ==
    /\ pc \in {"idle", "asked", "again", "stream", "whole"}
    /\ calls \in 0 .. MaxCalls /\ kind \in {"round", "plain"}
    /\ bills \in Seq(Bills) /\ Len(bills) <= calls
    /\ pc \in {"asked", "again", "whole"} => Len(bills) < calls
    /\ meter \in [sum : Nat, currency : Currencies \cup {Mixed, None}]

ClientInv == AnswerInv /\ CallInv /\ UsageInv

\* The answer of a call, however it arrives.
LEMMA AnswerIsRound ==
    ASSUME Sound(text), aside \in Asides, acts \in BOOLEAN
    PROVE  /\ CollectRound(text, aside) \in Round /\ Materialized \in Round
           /\ [text |-> text, reasoning |-> << >>, acts |-> FALSE] \in Round
<1> DEFINE split == SplitThinkTags(text)
           r == [text |-> split.body, reasoning |-> split.reasoning, acts |-> acts]
           w == [text |-> text, reasoning |-> aside, acts |-> acts]
<1>1. text \in Seq(Tokens) /\ aside \in Seq(Tokens)
  BY SoundText, AsideTexts DEF Texts
<1>2. w \in Round /\ [text |-> text, reasoning |-> << >>, acts |-> FALSE] \in Round
  BY <1>1 DEF Round
<1>3. r \in Round
  <2>1. split.body \in Seq(Tokens) /\ split.reasoning \in Seq(Tokens)
    BY SplitParts DEF Texts
  <2> HIDE DEF split
  <2> QED BY <2>1 DEF Round
<1>4. CollectRound(text, aside) \in {r, w} /\ Materialized \in {r, w}
  BY DEF CollectRound, Materialized
<1> HIDE DEF r, w
<1> QED BY <1>2, <1>3, <1>4

\* A round is answered with what its content and its reasoning say.
LEMMA AnswerStep == ASSUME AnswerInv, [Next]_vars PROVE AnswerInv'
<1>1. ASSUME UNCHANGED <<kind, answerVars, answer>>, pc' = "idle" \/ pc # "idle" \/ pc' = pc
      PROVE  AnswerInv'
  BY <1>1 DEF AnswerInv, answerVars
<1>2. CASE UNCHANGED vars
  BY <1>1, <1>2 DEF vars
<1>3. ASSUME NEW k \in {"round", "plain"}, Ask(k) PROVE AnswerInv'
  <2>1. text' = << >> /\ aside' = << >> /\ acts' = FALSE /\ answer' = None
    BY <1>3 DEF Ask
  <2> QED BY <2>1, NothingIsSound DEF AnswerInv, Asides
<1>4. CASE AskAgain \/ Fails \/ Streams \/ StreamBreaks \/ WholeMessage
  BY <1>1, <1>4 DEF AskAgain, Fails, Streams, StreamBreaks, WholeMessage
<1>5. CASE Chunk \/ Compose
  <2>1. /\ text' \in More(text) /\ aside' \in MoreAside(aside) /\ acts' \in {acts, kind = "round"}
        /\ answer' = answer /\ pc # "idle"
    BY <1>5 DEF Chunk, Compose
  <2>2. Sound(text') /\ aside' \in Asides
    BY <2>1, MoreIsSound, MoreIsAside DEF AnswerInv
  <2>3. acts' \in BOOLEAN /\ answer' = None
    BY <2>1 DEF AnswerInv
  <2> QED BY <2>2, <2>3 DEF AnswerInv
<1>6. CASE StreamEnds \/ WholeArrives
  <2>1. /\ UNCHANGED <<kind, answerVars>> /\ pc' = "idle"
        /\ answer' \in {CollectRound(text, aside), Materialized,
                        [text |-> text, reasoning |-> << >>, acts |-> FALSE]}
        /\ kind = "round" => answer' \in {CollectRound(text, aside), Materialized}
    BY <1>6 DEF StreamEnds, WholeArrives
  <2>2. answer' \in Round
    BY <2>1, AnswerIsRound DEF AnswerInv
  <2>3. kind = "round" => Faithful(text, aside, answer')
    BY <2>1, AnswersFaithful DEF AnswerInv
  <2> QED BY <2>1, <2>2, <2>3 DEF AnswerInv, answerVars
<1> QED BY <1>2, <1>3, <1>4, <1>5, <1>6 DEF Next

\* A report is of a call that has not had one.
LEMMA BillOfCall ==
    ASSUME CallInv, NEW cur \in Bills, NEW counted \in BOOLEAN, Bill(cur, counted)
    PROVE  /\ bills' \in Seq(Bills) /\ Len(bills') = Len(bills) + 1
           /\ meter' \in [sum : Nat, currency : Currencies \cup {Mixed, None}]
<1>1. bills' \in Seq(Bills) /\ Len(bills') = Len(bills) + 1
  BY DEF Bill, CallInv
<1>2. meter \in [sum : Nat, currency : Currencies \cup {Mixed, None}]
  BY DEF CallInv
<1>3. meter.sum + 1 \in Nat
  BY <1>2
<1>4. Recorded(meter, cur).currency \in Currencies \cup {Mixed, None}
  BY <1>2 DEF Recorded, Bills
<1>5. Recorded(meter, cur) \in [sum : Nat, currency : Currencies \cup {Mixed, None}]
  BY <1>3, <1>4 DEF Recorded
<1> QED BY <1>1, <1>2, <1>5 DEF Bill

LEMMA CallStep == ASSUME CallInv, [Next]_vars PROVE CallInv'
<1>0. calls \in Nat /\ Len(bills) \in Nat /\ calls <= MaxCalls /\ MaxCalls \in Nat
  BY ModelClientConstants DEF CallInv
<1>1. CASE UNCHANGED vars
  BY <1>1 DEF vars, CallInv
<1>2. ASSUME NEW k \in {"round", "plain"}, Ask(k) PROVE CallInv'
  <2>1. /\ calls' = calls + 1 /\ calls < MaxCalls /\ kind' = k /\ pc' = "asked"
        /\ bills' = bills /\ meter' = meter
    BY <1>2 DEF Ask, NoBill
  <2>2. calls' \in 0 .. MaxCalls /\ Len(bills) <= calls' /\ Len(bills) < calls'
    BY <1>0, <2>1 DEF CallInv
  <2> QED BY <2>1, <2>2 DEF CallInv
<1>3. CASE AskAgain \/ WholeMessage \/ Compose
  <2>1. /\ pc' \in {"asked", "again", "whole"} /\ pc \in {"asked", "again", "whole"}
        /\ UNCHANGED <<calls, kind, bills, meter>>
    BY <1>3 DEF AskAgain, WholeMessage, Compose, NoBill
  <2> QED BY <2>1 DEF CallInv
<1>4. CASE Fails \/ Streams \/ StreamBreaks \/ StreamEnds
  <2>1. pc' \in {"idle", "stream"} /\ UNCHANGED <<calls, kind, bills, meter>>
    BY <1>4 DEF Fails, Streams, StreamBreaks, StreamEnds, NoBill
  <2> QED BY <2>1 DEF CallInv
<1>5. CASE Chunk
  <2>1. pc = "stream" /\ UNCHANGED <<pc, calls, kind>>
    BY <1>5 DEF Chunk
  <2>2. CASE UNCHANGED <<bills, meter>>
    BY <2>1, <2>2 DEF CallInv
  <2>3. ASSUME ~ Billed, NEW cur \in Bills, Bill(cur, TRUE) PROVE CallInv'
    <3>1. Len(bills) + 1 <= calls
      BY <1>0, <2>3 DEF Billed, CallInv
    <3>2. /\ bills' \in Seq(Bills) /\ Len(bills') = Len(bills) + 1
          /\ meter' \in [sum : Nat, currency : Currencies \cup {Mixed, None}]
      BY <2>3, BillOfCall
    <3> QED BY <2>1, <3>1, <3>2 DEF CallInv
  <2> QED BY <1>5, <2>2, <2>3 DEF Chunk, NoBill
<1>6. CASE WholeArrives
  <2>1. pc = "whole" /\ pc' = "idle" /\ UNCHANGED <<calls, kind>>
    BY <1>6 DEF WholeArrives, answerVars
  <2>2. PICK cur \in Bills : Bill(cur, FALSE)
    BY <1>6 DEF WholeArrives
  <2>3. Len(bills) + 1 <= calls
    BY <1>0, <2>1 DEF CallInv
  <2>4. /\ bills' \in Seq(Bills) /\ Len(bills') = Len(bills) + 1
        /\ meter' \in [sum : Nat, currency : Currencies \cup {Mixed, None}]
    BY <2>2, BillOfCall
  <2> QED BY <2>1, <2>3, <2>4 DEF CallInv
<1> QED BY <1>1, <1>2, <1>3, <1>4, <1>5, <1>6 DEF Next

LEMMA ClientInvariant == Spec => []ClientInv
<1>1. ASSUME Init PROVE ClientInv
  <2>1. AnswerInv
    BY <1>1, NothingIsSound DEF Init, AnswerInv, Asides
  <2>2. CallInv
    BY <1>1, ModelClientConstants DEF Init, CallInv
  <2> QED BY <1>1, <2>1, <2>2, UsageInit DEF ClientInv
<1>2. ClientInv /\ [Next]_vars => ClientInv'
  BY AnswerStep, CallStep, UsageStep DEF ClientInv
<1> QED BY <1>1, <1>2, PTL DEF Spec

\* Every variable keeps its type; the sum never counts more reports than there are calls.
THEOREM ClientTypes == Spec => []TypeOK
<1>1. ASSUME ClientInv PROVE TypeOK
  <2>1. text \in Seq(Tokens) /\ aside \in Seq(Tokens) /\ acts \in BOOLEAN
    BY <1>1, SoundText, AsideTexts DEF ClientInv, AnswerInv, Texts
  <2>2. meter \in [sum : 0 .. MaxCalls, currency : Currencies \cup {Mixed, None}]
    <3>1. meter.sum = Cardinality(Counted) /\ Numbered /\ bills \in Seq(Bills)
      BY <1>1, UsageIs DEF ClientInv, UsageInv, Numbered
    <3>2. /\ Len(bills) \in Nat /\ Len(bills) <= calls /\ calls \in 0 .. MaxCalls
          /\ DOMAIN bills = 1 .. Len(bills)
      BY <1>1 DEF ClientInv, CallInv
    <3>3. Counted \in SUBSET (1 .. Len(bills))
      BY <3>2 DEF Counted
    <3>4. Cardinality(Counted) <= Len(bills)
      <4>1. IsFiniteSet(1 .. Len(bills)) /\ Cardinality(1 .. Len(bills)) = Len(bills)
        BY <3>2, UpTo
      <4>2. Cardinality(Counted) <= Cardinality(1 .. Len(bills))
        BY <3>3, <4>1, FS_Subset
      <4> QED BY <4>1, <4>2
    <3>5. meter \in [sum : Nat, currency : Currencies \cup {Mixed, None}]
      BY <1>1 DEF ClientInv, CallInv
    <3>6. meter.sum \in 0 .. MaxCalls
      BY <3>1, <3>2, <3>4, <3>5, ModelClientConstants
    <3> QED BY <3>5, <3>6
  <2>3. bills \in Seq(Bills) /\ whole \subseteq DOMAIN bills
    BY <1>1 DEF ClientInv, UsageInv, Numbered
  <2> QED BY <1>1, <2>1, <2>2, <2>3 DEF TypeOK, ClientInv, AnswerInv, CallInv
<1> QED BY <1>1, ClientInvariant, PTL

\* Whatever the model says, in content of any length with tags anywhere, the user sees
\* all that it says outside of them, in order, and every region he sees is closed: the
\* first region is cut out with the text around it kept, and what is left of tags is
\* shown only when it is balanced (llm.py:51-85).
THEOREM AnswerIsShown == Spec => []AnswerShown
<1>1. ASSUME ClientInv PROVE AnswerShown
  BY <1>1, FaithfulShows, Zenon DEF ClientInv, AnswerInv, AnswerShown, Answered
<1> QED BY <1>1, ClientInvariant, PTL

\* However the answer arrives, each word the model said is in the text of the round or in
\* its reasoning, once and in order (llm.py:66-85, 137-157, 160-162).
THEOREM WordsAreKept == Spec => []EveryWordOnce
<1>1. ASSUME ClientInv PROVE EveryWordOnce
  BY <1>1, FaithfulTells, Zenon DEF ClientInv, AnswerInv, EveryWordOnce, Answered
<1> QED BY <1>1, ClientInvariant, PTL
=============================================================================
