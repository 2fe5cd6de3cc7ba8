------------------------------ MODULE RulesInUse ------------------------------
(***************************************************************************)
(* What the stream job is promised: the rules it uses are a set of rules   *)
(* that the rules table has held, and they change as a whole.              *)
(***************************************************************************)
CONSTANTS RuleSets, NoRules

VARIABLES
    held,   \* the sets of rules the table has held
    inUse   \* the one the job uses

Init == held = {NoRules} /\ inUse = NoRules

\* the table changes; where a field has several rules, each may stand for it
Change == /\ \E new \in SUBSET RuleSets : held' = held \union new
          /\ UNCHANGED inUse

\* the job turns to another set, not necessarily a later one
Use == inUse' \in held /\ UNCHANGED held

Spec == Init /\ [][Change \/ Use]_<<held, inUse>>

=============================================================================
