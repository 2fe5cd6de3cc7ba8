---------------------------- MODULE JobIndicators ----------------------------
(***************************************************************************)
(* The indicators of running jobs at the foot of the dashboard. The script  *)
(* shares nothing with the rest of the page: the model gives it a page of   *)
(* its own, so that its steps are not interleaved with the others for       *)
(* nothing.                                                                 *)
(***************************************************************************)
EXTENDS Browser

CONSTANT MaxIndicators  \* bound: indicators the service defines
ASSUME IndicatorsAssumption == MaxIndicators \in Nat

VARIABLE indicators

Indicated == 0..MaxIndicators

Indicators == [waits   : {"definitions", "definitionsTimer", "values", "valuesTimer"},
               defined : Indicated,     \* the indicators on the page
               valued  : Indicated]     \* those that show a value of the service

NoIndicators == [waits |-> "definitions", defined |-> 0, valued |-> 0]

Waiting(for) == On("indicators") /\ indicators.waits = for
Waits(for)   == indicators' = [indicators EXCEPT !.waits = for] /\ UNCHANGED page

\* loadJobDefinitions; a failure is tried again after a minute
DefinitionsAnswered(n) ==
    /\ Waiting("definitions")
    /\ indicators' = [indicators EXCEPT !.waits = "values", !.defined = n]
    /\ UNCHANGED page

DefinitionsFailed == Waiting("definitions") /\ Waits("definitionsTimer")
DefinitionsTimer  == Waiting("definitionsTimer") /\ Waits("definitions")

\* mutant: indicators counted from one
ValuedFromOne(n) == IF n = indicators.defined THEN n + 1 ELSE indicators.valued

\* updateJobIndicatorsData: an answer with another number of values is not shown
Valued(n) == IF n = indicators.defined THEN n ELSE indicators.valued

ValuesAnswered(n) ==
    /\ Waiting("values")
    /\ indicators' = [indicators EXCEPT !.waits = "valuesTimer", !.valued = Valued(n)]
    /\ UNCHANGED page

ValuesFailed == Waiting("values") /\ Waits("valuesTimer")
ValuesTimer  == Waiting("valuesTimer") /\ Waits("values")

IndicatorsNext ==
    \/ \E n \in Indicated : DefinitionsAnswered(n) \/ ValuesAnswered(n)
    \/ DefinitionsFailed \/ DefinitionsTimer \/ ValuesFailed \/ ValuesTimer

\* Timers fire, requests end, and the definitions are answered at last.
IndicatorsFairness ==
    /\ WF_indicators(IndicatorsNext)
    /\ SF_indicators(\E n \in Indicated : DefinitionsAnswered(n))

-----------------------------------------------------------------------------
\* the values have been asked for, and will be again
ValuesCame == indicators.waits = "values" /\ indicators'.waits = "valuesTimer"

\* no indicator is left with the value of another: what does not fit is not shown
ValuesFit == indicators.valued \in {0, indicators.defined}

=============================================================================
