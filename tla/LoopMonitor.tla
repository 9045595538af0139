---------------------------- MODULE LoopMonitor ----------------------------
(***************************************************************************)
(* The guard as the kernel drives it: one observe() per executed call, on  *)
(* a guard that lives as long as the run.  `calls' is a history variable:  *)
(* the code keeps no such list.                                            *)
(***************************************************************************)
EXTENDS LoopGuard

CONSTANT MaxCalls  \* bound on the calls of one run

ASSUME MaxCallsNat == MaxCalls \in Nat

VARIABLES
    guard,    \* ctx.loop_guard
    verdict,  \* the answer of the last observe()
    calls     \* history: every observed pair

vars == <<guard, verdict, calls>>

Init == guard = FreshGuard /\ verdict = "none" /\ calls = << >>

\* One call of observe().  The kernel ends the run on "stop"; the guard itself
\* does not mind being asked again, so neither does this module.
ObserveCall(sig, digest) ==
    /\ Len(calls) < MaxCalls
    /\ guard' = Observe(guard, sig, digest)
    /\ verdict' = IF ShouldStop(guard, sig, digest) THEN "stop"
                  ELSE IF WarnedNow(guard, sig, digest) THEN "warn" ELSE "go"
    /\ calls' = Append(calls, <<sig, digest>>)

Next == \E sig \in Sigs, digest \in Digests : ObserveCall(sig, digest)

Spec == Init /\ [][Next]_vars

Breaker == INSTANCE LoopBreaker WITH alerted <- guard.warned

-----------------------------------------------------------------------------
(* What the guard must satisfy.                                            *)

TypeOK ==
    /\ guard \in GuardState
    /\ verdict \in {"none", "go", "warn", "stop"}
    /\ calls \in Seq(Pairs)

\* A trimmed list agrees with the full history on every age a window reads.
AgreeUpTo(s, h, n) ==
    /\ \A age \in 0 .. n - 1 : age < Len(s) <=> age < Len(h)
    /\ \A age \in Recent(s, n) : EntryAt(s, age) = EntryAt(h, age)

\* Trimming `_sigs' and `_sig_results' (session.py:30-34) never changes what
\* observe() counts: both lists agree with the whole history in their windows.
TrimInvisible ==
    /\ AgreeUpTo(guard.sigs, SigsOf(calls), TrimTo)
    /\ AgreeUpTo(guard.pairs, calls, TrimTo)

\* observe() implements the guard that remembers everything: same verdicts,
\* same warnings, although the code trims both lists.
ImplementsBreaker == Breaker!AbsSpec

\* With the shipped limits (session.py:21-24: stop_after 20, no_progress_limit and
\* window 30) the no-progress rule never stops a run the repetition rule would
\* not have stopped anyway: identical pairs are repetitions of one signature.
NoProgressSubsumed ==
    StopAfter <= NoProgress /\ NoProgress <= Window /\ Stuck(guard.pairs) =>
        \E sig \in Sigs : Repeats(guard.sigs, sig) >= StopAfter
=============================================================================
