----------------------------- MODULE LoopGuard -----------------------------
(***************************************************************************)
(* The repetition detector of core/session.py (class LoopGuard), as        *)
(* operators over its state: the record of the signatures seen, of the     *)
(* (signature, digest) pairs seen, and of the signatures already warned    *)
(* about.  Signatures and digests are opaque; the code's limits are        *)
(* constants, so that a small instance reaches every one of them.          *)
(***************************************************************************)
EXTENDS Naturals, Sequences, FiniteSets

CONSTANTS
    Sigs,        \* tool-call signatures, "name|json arguments"
    Digests,     \* shortened tool results
    Window,      \* window: signatures looked back at          (code: 30)
    WarnAfter,   \* warn_after                                 (code: 10)
    StopAfter,   \* stop_after                                 (code: 20)
    NoProgress,  \* no_progress_limit, 0 switches it off       (code: 30)
    MaxKept,     \* a list longer than this is trimmed         (code: 400)
    TrimTo       \* ... to its last TrimTo entries             (code: 200)

ASSUME GuardLimits ==
    /\ Window \in Nat \ {0} /\ WarnAfter \in Nat /\ StopAfter \in Nat
    /\ NoProgress \in Nat /\ MaxKept \in Nat /\ TrimTo \in Nat
    /\ Window <= TrimTo       \* both windows fit in what trimming keeps
    /\ NoProgress <= TrimTo
    /\ TrimTo <= MaxKept

Pairs == Sigs \X Digests

GuardState == [sigs : Seq(Sigs), pairs : Seq(Pairs), warned : SUBSET Sigs]

\* The signatures of a list of pairs.
SigsOf(h) == [i \in DOMAIN h |-> h[i][1]]

FreshGuard == [sigs |-> << >>, pairs |-> << >>, warned |-> {}]

\* Age 0 is the newest entry of a list.
EntryAt(s, age) == s[Len(s) - age]

\* The ages of the last n entries: Python's s[-n:].
Recent(s, n) == {age \in 0 .. n - 1 : age < Len(s)}

\* Mutant of Trim: keeps one entry too few.
TrimTooShort(s) ==
    IF Len(s) > MaxKept THEN SubSeq(s, Len(s) - TrimTo + 2, Len(s)) ELSE s

\* l.31-32, 34-35
Trim(s) ==
    IF Len(s) > MaxKept THEN SubSeq(s, Len(s) - TrimTo + 1, Len(s)) ELSE s

Remember(s, e) == Trim(Append(s, e))

Repeats(s, sig) == Cardinality({age \in Recent(s, Window) : EntryAt(s, age) = sig})

\* The last NoProgress pairs exist and are one and the same.
Stuck(s) ==
    /\ NoProgress > 0
    /\ Len(s) >= NoProgress
    /\ \A age \in Recent(s, NoProgress) : EntryAt(s, age) = EntryAt(s, 0)

Warns(sigs, warned, sig) == Repeats(sigs, sig) >= WarnAfter /\ sig \notin warned

Stops(sigs, pairs, sig) == Repeats(sigs, sig) >= StopAfter \/ Stuck(pairs)

\* Mutant of Observe: the signature is stored twice.
ObserveRecordsTwice(g, sig, digest) ==
    LET sigs == Remember(Remember(g.sigs, sig), sig)
    IN  [sigs   |-> sigs,
         pairs  |-> Append(g.pairs, <<sig, digest>>),
         warned |-> g.warned \cup {s \in {sig} : Warns(sigs, g.warned, s)}]

\* Mutant of Observe: the digest is remembered alone, without its signature.
ObserveDropsSig(g, sig, digest) ==
    LET sigs == Remember(g.sigs, sig)
    IN  [sigs   |-> sigs,
         pairs  |-> Remember(g.pairs, digest),
         warned |-> g.warned \cup {s \in {sig} : Warns(sigs, g.warned, s)}]

\* The state observe() leaves; what it returns is read off that state and the
\* warned set it started from.
Observe(g, sig, digest) ==
    LET sigs == Remember(g.sigs, sig)
    IN  [sigs   |-> sigs,
         pairs  |-> Remember(g.pairs, <<sig, digest>>),
         warned |-> g.warned \cup {s \in {sig} : Warns(sigs, g.warned, s)}]

WarnedNow(g, sig, digest) == Warns(Observe(g, sig, digest).sigs, g.warned, sig)

ShouldStop(g, sig, digest) ==
    LET after == Observe(g, sig, digest) IN Stops(after.sigs, after.pairs, sig)
=============================================================================
