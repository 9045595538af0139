------------------------------ MODULE MCMemory ------------------------------
(***************************************************************************)
(* Four texts, two of them about experiences long past, and what the model  *)
(* may make of a day.                                                      *)
(***************************************************************************)
EXTENDS Memory

CONSTANTS facts, episodic, userFacts, likes, works, trip, wedding, c1

In(sec, item) == [sec |-> sec, item |-> item]

\* Two facts and an experience; a fact known already and two experiences.
MCExtracts ==
    { <<In(facts, likes), In(facts, works), In(episodic, trip)>>,
      <<In(episodic, wedding), In(episodic, trip), In(facts, works)>> }
=============================================================================
