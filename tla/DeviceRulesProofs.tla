-------------------------- MODULE DeviceRulesProofs --------------------------
(***************************************************************************)
(* Theorems about DeviceRules for any operators, rules, minutes and        *)
(* failures:                                                               *)
(*                                                                         *)
(*   RulesTypeCorrect         Spec => []TypeOK                             *)
(*   JobUsesRulesAlways       Spec => RulesInUse's specification           *)
(*   ReadBlobsAreFinalAlways  Spec => ReadBlobsAreFinal                    *)
(*   RemovalIsCompleteAlways  Spec => []RemovalIsComplete                  *)
(*   ToggleKeepsRestAlways    Spec => ToggleKeepsRest                      *)
(*   OneRulePerFieldAlways    Spec => []OneRulePerField                    *)
(*   BlobFollowsTableAlways   Spec => []BlobFollowsTable                   *)
(*                                                                         *)
(* Each has an invariant of its own on top of TypeOK: HeldInv, Punctual,   *)
(* SweptInv, FaithfulInv, UniqueInv, FollowInv.  They rest on two facts:   *)
(* an operator that does not take a step keeps its locals (OthersKept),    *)
(* and a row changes only under a new ETag (TableMoves).                   *)
(***************************************************************************)
EXTENDS DeviceRules, TLAPS

-----------------------------------------------------------------------------
(* Types *)

LEMMA CompilationsType == ASSUME NEW t PROVE Compilations(t) \subseteq RuleSets
BY DEF Compilations

LEMMA NoRulesType == NoRules \in RuleSets /\ NoBlob \in Blobs
BY DEF NoRules, RuleSets, NoBlob, Blobs

LEMMA AsRuleType == ASSUME TypeOK, NEW i \in Present PROVE AsRule(i) \in Rules
<1>1. i \in Ids /\ table[i] \in Rows
  BY DEF TypeOK, Present
<1>2. QED BY <1>1 DEF AsRule, Rows, Rules

LEMMA SavedRowType ==
    ASSUME TypeOK, NEW r \in Rules
    PROVE  SavedRow(r) \in Rows /\ WithRow(r) \in [Ids -> Rows \union {NoRow}]
<1>1. SavedRow(r) \in Rows
  BY DEF TypeOK, SavedRow, Rules, Rows, Etags
<1>2. r.id \in Ids
  BY DEF Rules
<1>3. QED BY <1>1, <1>2 DEF TypeOK, WithRow

LEMMA TypeInit == Init => TypeOK
<1> SUFFICES ASSUME Init PROVE TypeOK
  OBVIOUS
<1>1. /\ table \in [Ids -> Rows \union {NoRow}]
      /\ blobs \in [Minutes -> Blobs]
      /\ compiled \in [Operators -> Blobs]
      /\ inUse \in RuleSets /\ held \subseteq RuleSets
  BY NoRulesType DEF Init
<1>2. now \in 0 .. Horizon /\ named \in [Operators -> 0 .. Horizon]
  BY RulesAssumption DEF Init
<1>3. ops \in 0 .. MaxOps /\ failures \in 0 .. MaxFaults /\ changedAt \in 0 .. MaxFaults
  BY RulesAssumption DEF Init
<1>4. /\ pc \in [Operators -> AtRest \union Calls]
      /\ kind \in [Operators -> Kinds]
      /\ rule \in [Operators -> Rules \union {NoRule}]
      /\ todo \in [Operators -> SUBSET Rules]
      /\ clean \in [Operators -> BOOLEAN]
      /\ since \in [Operators -> Nat]
  BY DEF Init, AtRest, Kinds
<1>5. \A o \in Operators : pc[o] = "idle" /\ kind[o] = "none"
  BY DEF Init
<1>6. QED BY <1>1, <1>2, <1>3, <1>4, <1>5 DEF Init, TypeOK, Saving

\* what the beginning of an operation does to the counters
LEMMA BeginType ==
    ASSUME TypeOK, NEW o \in Operators, NEW k \in Kinds, Begin(o, k)
    PROVE  ops' \in 0 .. MaxOps /\ kind' \in [Operators -> Kinds]
BY RulesAssumption DEF TypeOK, Begin

LEMMA FailsType ==
    ASSUME TypeOK, NEW fault, Fails(fault) \/ NoFailure
    PROVE  failures' \in 0 .. MaxFaults
BY RulesAssumption DEF TypeOK, Fails, NoFailure

LEMMA GotoType ==
    ASSUME TypeOK, NEW o \in Operators, NEW label \in AtRest \union Calls, Goto(o, label)
    PROVE  /\ pc' \in [Operators -> AtRest \union Calls]
           /\ pc'[o] = label
           /\ \A p \in Operators \ {o} : pc'[p] = pc[p]
BY DEF TypeOK, Goto

LEMMA TableWriteType ==
    ASSUME TypeOK, NEW o \in Operators, NEW allowed, NEW t \in [Ids -> Rows \union {NoRow}],
           TableWrite(o, allowed, t)
    PROVE  /\ table' \in [Ids -> Rows \union {NoRow}]
           /\ version' \in Nat
           /\ held' \subseteq RuleSets
           /\ changedAt' \in 0 .. MaxFaults
           /\ failures' \in 0 .. MaxFaults
           /\ pc' \in [Operators -> AtRest \union Calls]
           /\ pc'[o] \in {"query", "caught"}
           /\ \A p \in Operators \ {o} : pc'[p] = pc[p]
<1>1. Store(t) \/ UNCHANGED rows
  BY DEF TableWrite
<1>2. /\ table' \in [Ids -> Rows \union {NoRow}]
      /\ version' \in Nat
      /\ held' \subseteq RuleSets
      /\ changedAt' \in 0 .. MaxFaults
  BY <1>1, CompilationsType DEF TypeOK, Store, rows
<1>3. failures' \in 0 .. MaxFaults
  BY FailsType DEF TableWrite
<1>4. Goto(o, "query") \/ Goto(o, "caught")
  BY DEF TableWrite, Stored
<1>5. QED BY <1>2, <1>3, <1>4, GotoType DEF Calls

LEMMA OpenFormType == ASSUME TypeOK, NEW o \in Operators, OpenForm(o) PROVE TypeOK'
<1>1. PICK r \in Rules : HoldsRule(o, r)
  <2>1. PICK f \in Fields, v \in Values :
          \/ \E i \in Ids \ used : HoldsRule(o, [id |-> i, field |-> f, value |-> v, enabled |-> TRUE, etag |-> NoEtag])
          \/ \E i \in Present : HoldsRule(o, [AsRule(i) EXCEPT !.field = f, !.value = v])
    BY DEF OpenForm
  <2>2. \A i \in Ids : [id |-> i, field |-> f, value |-> v, enabled |-> TRUE, etag |-> NoEtag] \in Rules
    BY DEF Rules, Etags, NoEtag
  <2>3. \A i \in Present : [AsRule(i) EXCEPT !.field = f, !.value = v] \in Rules
    BY AsRuleType DEF Rules
  <2>4. QED BY <2>1, <2>2, <2>3
<1>2. used' \subseteq Ids
  BY DEF TypeOK, OpenForm
<1>3. ops' \in 0 .. MaxOps /\ kind' \in [Operators -> Kinds]
  BY BeginType DEF OpenForm, Kinds
<1>4. /\ pc' \in [Operators -> AtRest \union Calls] /\ pc'[o] = "check"
      /\ \A p \in Operators \ {o} : pc'[p] = pc[p]
  BY GotoType DEF OpenForm, Calls, Saving
<1>5. /\ rule' \in [Operators -> Rules \union {NoRule}] /\ rule'[o] \in Rules
      /\ \A p \in Operators \ {o} : rule'[p] = rule[p]
  BY <1>1 DEF TypeOK, HoldsRule
<1>6. kind'[o] = "save" /\ \A p \in Operators \ {o} : kind'[p] = kind[p]
  BY DEF TypeOK, OpenForm, Begin
<1>7. QED BY <1>2, <1>3, <1>4, <1>5, <1>6 DEF TypeOK, OpenForm, rows, files, job, Saving

LEMMA ResubmitType == ASSUME TypeOK, NEW o \in Operators, Resubmit(o) PROVE TypeOK'
<1>1. ops' \in 0 .. MaxOps /\ kind' \in [Operators -> Kinds]
  BY BeginType DEF Resubmit, Kinds
<1>2. /\ pc' \in [Operators -> AtRest \union Calls] /\ pc'[o] = "check"
      /\ \A p \in Operators \ {o} : pc'[p] = pc[p]
  BY GotoType DEF Resubmit, Calls, Saving
<1>3. kind' = kind
  BY DEF TypeOK, Resubmit, Begin
<1>4. kind[o] = "save"
  BY DEF Resubmit
<1>5. QED BY <1>1, <1>2, <1>3, <1>4 DEF TypeOK, Resubmit, rows, files, job, locals

\* a call of an operation under way: the operator keeps its operation and its rule
LEMMA CallType ==
    ASSUME TypeOK, NEW o \in Operators, NEW label \in AtRest \union Calls, Goto(o, label),
           UNCHANGED <<kind, rule, todo>>,
           label \in Saving => kind[o] \in {"save", "toggle"} /\ rule[o] \in Rules,
           label = "delete" => todo[o] # {}
    PROVE  /\ pc' \in [Operators -> AtRest \union Calls]
           /\ \A p \in Operators : kind'[p] = "save" => rule'[p] \in Rules
           /\ \A p \in Operators : pc'[p] \in Saving => kind'[p] \in {"save", "toggle"} /\ rule'[p] \in Rules
           /\ \A p \in Operators : pc'[p] = "delete" => todo'[p] # {}
<1>1. /\ pc' \in [Operators -> AtRest \union Calls] /\ pc'[o] = label
      /\ \A p \in Operators \ {o} : pc'[p] = pc[p]
  BY GotoType
<1>2. QED BY <1>1 DEF TypeOK

LEMMA SaveCheckType == ASSUME TypeOK, NEW o \in Operators, SaveCheck(o) PROVE TypeOK'
<1>1. since' \in [Operators -> Nat]
  BY DEF TypeOK, SaveCheck, Decides
<1>2. failures' \in 0 .. MaxFaults
  BY FailsType DEF SaveCheck, Throws
<1>3. PICK label \in {"refused", "lookup", "failed"} : Goto(o, label)
  BY DEF SaveCheck, Throws
<1>4. kind[o] \in {"save", "toggle"} /\ rule[o] \in Rules
  BY DEF TypeOK, SaveCheck, Saving
<1>5. QED BY <1>1, <1>2, <1>3, <1>4, CallType DEF TypeOK, SaveCheck, rows, files, job, AtRest, Calls, Saving

LEMMA LookupType == ASSUME TypeOK, NEW o \in Operators, Lookup(o) PROVE TypeOK'
<1>1. failures' \in 0 .. MaxFaults
  BY FailsType DEF Lookup, Throws
<1>2. PICK label \in {"insert", "failed", "replace"} : Goto(o, label)
  BY DEF Lookup, Throws
<1>3. kind[o] \in {"save", "toggle"} /\ rule[o] \in Rules
  BY DEF TypeOK, Lookup, Saving
<1>4. QED BY <1>1, <1>2, <1>3, CallType DEF TypeOK, Lookup, rows, files, job, locals, AtRest, Calls, Saving

LEMMA WriteType ==
    ASSUME TypeOK, NEW o \in Operators, Insert(o) \/ Replace(o)
    PROVE  TypeOK'
<1>1. rule[o] \in Rules
  BY DEF TypeOK, Insert, Replace, Saving
<1>2. WithRow(rule[o]) \in [Ids -> Rows \union {NoRow}]
  BY <1>1, SavedRowType
<1>3. \E allowed : TableWrite(o, allowed, WithRow(rule[o]))
  BY DEF Insert, Replace
<1>4. /\ table' \in [Ids -> Rows \union {NoRow}]
      /\ version' \in Nat
      /\ held' \subseteq RuleSets
      /\ changedAt' \in 0 .. MaxFaults
      /\ failures' \in 0 .. MaxFaults
      /\ pc' \in [Operators -> AtRest \union Calls]
      /\ pc'[o] \in {"query", "caught"}
      /\ \A p \in Operators \ {o} : pc'[p] = pc[p]
  BY <1>2, <1>3, TableWriteType
<1>5. raced' \in BOOLEAN
  BY DEF TypeOK, Insert, Replace, Races
<1>6. UNCHANGED <<used, files, job, kind, locals, ops>>
  BY DEF Insert, Replace
<1>7. QED BY <1>1, <1>4, <1>5, <1>6 DEF TypeOK, files, job, locals, Saving

LEMMA ToggleGetType == ASSUME TypeOK, NEW o \in Operators, ToggleGet(o) PROVE TypeOK'
<1>1. PICK r \in Rules : HoldsRule(o, r)
  <2>1. \A i \in Present, enabled \in BOOLEAN : [AsRule(i) EXCEPT !.enabled = enabled] \in Rules
    BY AsRuleType DEF Rules
  <2>2. QED BY <2>1 DEF ToggleGet
<1>2. ops' \in 0 .. MaxOps /\ kind' \in [Operators -> Kinds]
  BY BeginType DEF ToggleGet, Kinds
<1>3. /\ pc' \in [Operators -> AtRest \union Calls] /\ pc'[o] = "lookup"
      /\ \A p \in Operators \ {o} : pc'[p] = pc[p]
  BY GotoType DEF ToggleGet, Calls, Saving
<1>4. /\ rule' \in [Operators -> Rules \union {NoRule}] /\ rule'[o] \in Rules
      /\ \A p \in Operators \ {o} : rule'[p] = rule[p]
  BY <1>1 DEF TypeOK, HoldsRule
<1>5. kind'[o] = "toggle" /\ \A p \in Operators \ {o} : kind'[p] = kind[p]
  BY DEF TypeOK, ToggleGet, Begin
<1>6. since' \in [Operators -> Nat]
  BY DEF TypeOK, ToggleGet, Decides
<1>7. QED BY <1>2, <1>3, <1>4, <1>5, <1>6 DEF TypeOK, ToggleGet, rows, files, job, Saving

LEMMA DeleteGetType == ASSUME TypeOK, NEW o \in Operators, DeleteGet(o) PROVE TypeOK'
<1>1. PICK i \in Present : todo' = [todo EXCEPT ![o] = {AsRule(i)}]
  BY DEF DeleteGet
<1>2. /\ todo' \in [Operators -> SUBSET Rules] /\ todo'[o] # {}
      /\ \A p \in Operators \ {o} : todo'[p] = todo[p]
  BY <1>1, AsRuleType DEF TypeOK
<1>3. ops' \in 0 .. MaxOps /\ kind' \in [Operators -> Kinds]
  BY BeginType DEF DeleteGet, Kinds
<1>4. /\ pc' \in [Operators -> AtRest \union Calls] /\ pc'[o] = "delete"
      /\ \A p \in Operators \ {o} : pc'[p] = pc[p]
  BY GotoType DEF DeleteGet, Calls
<1>5. kind'[o] = "delete" /\ \A p \in Operators \ {o} : kind'[p] = kind[p]
  BY DEF TypeOK, DeleteGet, Begin
<1>6. since' \in [Operators -> Nat]
  BY DEF TypeOK, DeleteGet, Decides
<1>7. QED BY <1>2, <1>3, <1>4, <1>5, <1>6 DEF TypeOK, DeleteGet, rows, files, job, Saving

LEMMA RemoveAllGetType == ASSUME TypeOK, NEW o \in Operators, RemoveAllGet(o) PROVE TypeOK'
<1>1. {AsRule(i) : i \in Present} \in SUBSET Rules
  BY AsRuleType
<1>2. /\ todo' \in [Operators -> SUBSET Rules]
      /\ todo'[o] = {AsRule(i) : i \in Present}
      /\ \A p \in Operators \ {o} : todo'[p] = todo[p]
  BY <1>1 DEF TypeOK, RemoveAllGet
<1>3. ops' \in 0 .. MaxOps /\ kind' \in [Operators -> Kinds]
  BY BeginType DEF RemoveAllGet, Kinds
<1>4. /\ pc' \in [Operators -> AtRest \union Calls]
      /\ pc'[o] \in {"ok", "delete"} /\ (pc'[o] = "delete" => Present # {})
      /\ \A p \in Operators \ {o} : pc'[p] = pc[p]
  <2>1. CASE Present = {}
    BY <2>1, GotoType DEF RemoveAllGet, AtRest
  <2>2. CASE Present # {}
    BY <2>2, GotoType DEF RemoveAllGet, Calls
  <2>3. QED BY <2>1, <2>2
<1>5. kind'[o] = "removeAll" /\ \A p \in Operators \ {o} : kind'[p] = kind[p]
  BY DEF TypeOK, RemoveAllGet, Begin
<1>6. since' \in [Operators -> Nat] /\ clean' \in [Operators -> BOOLEAN]
  BY DEF TypeOK, RemoveAllGet, Decides
<1>7. pc'[o] = "delete" => todo'[o] # {}
  BY <1>2, <1>4
<1>8. QED BY <1>2, <1>3, <1>4, <1>5, <1>6, <1>7 DEF TypeOK, RemoveAllGet, rows, files, job, Saving

LEMMA DeleteType == ASSUME TypeOK, NEW o \in Operators, Delete(o) PROVE TypeOK'
<1>1. PICK r \in todo[o] :
        /\ todo' = [todo EXCEPT ![o] = @ \ {r}]
        /\ TableWrite(o, r.id \in Present /\ table[r.id].etag = r.etag, [table EXCEPT ![r.id] = NoRow])
  BY DEF Delete
<1>2. [table EXCEPT ![r.id] = NoRow] \in [Ids -> Rows \union {NoRow}]
  BY DEF TypeOK
<1>3. /\ table' \in [Ids -> Rows \union {NoRow}]
      /\ version' \in Nat
      /\ held' \subseteq RuleSets
      /\ changedAt' \in 0 .. MaxFaults
      /\ failures' \in 0 .. MaxFaults
      /\ pc' \in [Operators -> AtRest \union Calls]
      /\ pc'[o] \in {"query", "caught"}
      /\ \A p \in Operators \ {o} : pc'[p] = pc[p]
  BY <1>1, <1>2, TableWriteType
<1>4. /\ todo' \in [Operators -> SUBSET Rules]
      /\ \A p \in Operators \ {o} : todo'[p] = todo[p]
  BY <1>1 DEF TypeOK
<1>5. UNCHANGED <<raced, used, files, job, kind, rule, clean, compiled, named, since, ops>>
  BY DEF Delete
<1>6. QED BY <1>3, <1>4, <1>5 DEF TypeOK, files, job, Saving

LEMMA GetFailsType == ASSUME TypeOK, NEW o \in Operators, GetFails(o) PROVE TypeOK'
<1>1. PICK k \in {"toggle", "delete", "removeAll"} : Begin(o, k)
  BY DEF GetFails
<1>2. ops' \in 0 .. MaxOps /\ kind' \in [Operators -> Kinds]
  BY <1>1, BeginType DEF Kinds
<1>3. kind'[o] = k /\ \A p \in Operators \ {o} : kind'[p] = kind[p]
  BY <1>1 DEF TypeOK, Begin
<1>4. Goto(o, "refused") \/ Goto(o, "failed")
  BY DEF GetFails, Throws
<1>5. /\ pc' \in [Operators -> AtRest \union Calls] /\ pc'[o] \in {"refused", "failed"}
      /\ \A p \in Operators \ {o} : pc'[p] = pc[p]
  BY <1>4, GotoType DEF AtRest
<1>6. failures' \in 0 .. MaxFaults
  BY FailsType DEF GetFails, Throws
<1>7. QED BY <1>2, <1>3, <1>5, <1>6 DEF TypeOK, GetFails, rows, files, job, locals, Saving

LEMMA OnwardType ==
    ASSUME TypeOK, NEW o \in Operators
    PROVE  /\ Onward(o) \in AtRest \union Calls
           /\ Onward(o) \in {"ok", "delete"}
           /\ Onward(o) = "delete" => todo[o] # {}
BY DEF Onward, AtRest, Calls, Saving

LEMMA CaughtType == ASSUME TypeOK, NEW o \in Operators, Caught(o) PROVE TypeOK'
<1>1. PICK label \in {"refused", "failed", Onward(o)} : Goto(o, label)
  BY DEF Caught, Throws
<1>2. clean' \in [Operators -> BOOLEAN]
  BY DEF TypeOK, Caught
<1>3. failures' \in 0 .. MaxFaults
  BY FailsType DEF Caught, Throws
<1>4. /\ label \in AtRest \union Calls
      /\ label \notin Saving
      /\ label = "delete" => todo[o] # {}
  BY OnwardType DEF AtRest, Saving
<1>5. UNCHANGED <<kind, rule, todo>>
  BY DEF Caught
<1>6. QED BY <1>1, <1>2, <1>3, <1>4, <1>5, CallType DEF TypeOK, Caught, rows, files, job

LEMMA QueryType == ASSUME TypeOK, NEW o \in Operators, Query(o) PROVE TypeOK'
<1>1. compiled' \in [Operators -> Blobs]
  <2>1. CASE Compiles(o, table)
    <3>1. PICK s \in RuleSets : compiled' = [compiled EXCEPT ![o] = [rules |-> s, version |-> version]]
      BY <2>1, CompilationsType DEF Compiles
    <3>2. [rules |-> s, version |-> version] \in Blobs
      BY DEF TypeOK, Blobs
    <3>3. QED BY <3>1, <3>2 DEF TypeOK
  <2>2. CASE UNCHANGED compiled
    BY <2>2 DEF TypeOK
  <2>3. QED BY <2>1, <2>2 DEF Query
<1>2. failures' \in 0 .. MaxFaults
  BY FailsType DEF Query, Throws
<1>3. PICK label \in {"name", "failed"} : Goto(o, label)
  BY DEF Query, Throws
<1>4. QED BY <1>1, <1>2, <1>3, CallType DEF TypeOK, Query, rows, files, job, AtRest, Calls, Saving

LEMMA NameType == ASSUME TypeOK, NEW o \in Operators, Name(o) PROVE TypeOK'
<1>1. named' \in [Operators -> 0 .. Horizon]
  BY DEF TypeOK, Name
<1>2. QED BY <1>1, CallType DEF TypeOK, Name, rows, files, job, Calls, Saving

LEMMA BlobPathType ==
    ASSUME TypeOK, NEW o \in Operators
    PROVE  BlobPath(o) \in Minutes /\ BlobPath(o) = named[o] + 2
BY RulesAssumption DEF TypeOK, BlobPath, Minutes, blobSaveMinutesInTheFuture

LEMMA UploadType == ASSUME TypeOK, NEW o \in Operators, Upload(o) PROVE TypeOK'
<1>1. blobs' \in [Minutes -> Blobs] /\ overtaken' \in BOOLEAN
  BY BlobPathType DEF TypeOK, Upload, PutBlob, files
<1>2. compiled' \in [Operators -> Blobs]
  BY NoRulesType DEF TypeOK, Upload
<1>3. failures' \in 0 .. MaxFaults
  BY FailsType DEF Upload, Throws
<1>4. PICK label \in {"failed", Onward(o)} : Goto(o, label)
  BY DEF Upload, Throws
<1>5. /\ label \in AtRest \union Calls
      /\ label \notin Saving
      /\ label = "delete" => todo[o] # {}
  BY OnwardType DEF AtRest, Saving
<1>6. UNCHANGED <<kind, rule, todo>>
  BY DEF Upload
<1>7. QED BY <1>1, <1>2, <1>3, <1>4, <1>5, <1>6, CallType DEF TypeOK, Upload, rows, job

LEMMA CrashType == ASSUME TypeOK, NEW o \in Operators, Crash(o) PROVE TypeOK'
<1>1. failures' \in 0 .. MaxFaults /\ Goto(o, "failed")
  BY FailsType DEF Crash, Throws
<1>2. QED BY <1>1, CallType DEF TypeOK, Crash, rows, files, job, locals, AtRest, Saving

LEMMA TickType == ASSUME TypeOK, Tick PROVE TypeOK'
<1>1. now' \in 0 .. Horizon /\ now' \in Minutes
  BY RulesAssumption DEF TypeOK, Tick, Minutes, blobSaveMinutesInTheFuture
<1>2. inUse' \in RuleSets
  BY <1>1 DEF TypeOK, Tick, Blobs
<1>3. QED BY <1>1, <1>2 DEF TypeOK, Tick, rows, files, locals

LEMMA TypeNext == TypeOK /\ [Next]_vars => TypeOK'
<1> SUFFICES ASSUME TypeOK, [Next]_vars PROVE TypeOK'
  OBVIOUS
<1>1. CASE UNCHANGED vars
  BY <1>1 DEF TypeOK, vars, rows, files, job, locals
<1>2. CASE Tick
  BY <1>2, TickType
<1>3. ASSUME NEW o \in Operators, Save(o) PROVE TypeOK'
  BY <1>3, OpenFormType, ResubmitType, SaveCheckType, LookupType, WriteType DEF Save
<1>4. ASSUME NEW o \in Operators, ToggleGet(o) \/ GetFails(o) \/ Caught(o) \/ Crash(o) PROVE TypeOK'
  BY <1>4, ToggleGetType, GetFailsType, CaughtType, CrashType
<1>5. ASSUME NEW o \in Operators, Remove(o) PROVE TypeOK'
  BY <1>5, DeleteGetType, RemoveAllGetType, DeleteType DEF Remove
<1>6. ASSUME NEW o \in Operators, Publish(o) PROVE TypeOK'
  BY <1>6, QueryType, NameType, UploadType DEF Publish
<1>7. QED BY <1>1, <1>2, <1>3, <1>4, <1>5, <1>6 DEF Next, Step

(* The table, the blobs and every operator's locals keep their kinds; an     *)
(* operator has a rule in hand whenever it is about to save one, and rules to *)
(* delete whenever it is about to delete.                                     *)
THEOREM RulesTypeCorrect == Spec => []TypeOK
<1>1. QED BY TypeInit, TypeNext, PTL DEF Spec

-----------------------------------------------------------------------------
(* The promise to the job: every rule set that is under way was held *)

HeldInv ==
    /\ TypeOK
    /\ NoRules \in held
    /\ inUse \in held
    /\ Compilations(table) \subseteq held
    /\ \A t \in Minutes : blobs[t].rules \in held
    /\ \A o \in Operators : compiled[o].rules \in held

LEMMA NoRowsNoRules == Init => Compilations(table) = {NoRules}
<1> SUFFICES ASSUME Init PROVE Compilations(table) = {NoRules}
  OBVIOUS
<1>1. \A f \in Fields : EnabledValues(table, f) = {}
  BY DEF Init, EnabledValues
<1>2. \A s \in RuleSets : (\A f \in Fields : s[f] = NoValue) => s = NoRules
  BY DEF RuleSets, NoRules
<1>3. \A f \in Fields : NoRules[f] = NoValue
  BY DEF NoRules
<1>4. QED BY <1>1, <1>2, <1>3, NoRulesType DEF Compilations

LEMMA HeldInit == Init => HeldInv
<1> SUFFICES ASSUME Init PROVE HeldInv
  OBVIOUS
<1>1. TypeOK /\ Compilations(table) = {NoRules}
  BY TypeInit, NoRowsNoRules
<1>2. NoBlob.rules = NoRules
  BY DEF NoBlob
<1>3. QED BY <1>1, <1>2 DEF Init, HeldInv

\* a step that changes the table keeps what was held and adds what it compiles to
LEMMA TableHeld ==
    ASSUME HeldInv, NEW t, Store(t) \/ UNCHANGED rows
    PROVE  held \subseteq held' /\ Compilations(table)' \subseteq held'
<1>1. CASE Store(t)
  BY <1>1 DEF Store
<1>2. CASE UNCHANGED rows
  BY <1>2 DEF HeldInv, rows
<1>3. QED BY <1>1, <1>2

LEMMA HeldStep ==
    ASSUME HeldInv, TypeOK', NEW t, Store(t) \/ UNCHANGED rows,
           UNCHANGED <<files, job, compiled>>
    PROVE  HeldInv'
BY TableHeld DEF HeldInv, files, job

LEMMA QueryHeld == ASSUME HeldInv, NEW o \in Operators, Query(o) PROVE HeldInv'
<1>1. TypeOK' /\ UNCHANGED rows
  BY QueryType DEF HeldInv, Query
<1>2. \A p \in Operators : compiled'[p].rules \in held
  <2>1. CASE Compiles(o, table)
    <3>1. PICK s \in Compilations(table) :
            compiled' = [compiled EXCEPT ![o] = [rules |-> s, version |-> version]]
      BY <2>1 DEF Compiles
    <3>2. s \in held
      BY DEF HeldInv
    <3>3. QED BY <3>1, <3>2 DEF HeldInv, TypeOK
  <2>2. CASE UNCHANGED compiled
    BY <2>2 DEF HeldInv
  <2>3. QED BY <2>1, <2>2 DEF Query
<1>3. Compilations(table)' \subseteq held' /\ held' = held
  BY <1>1, TableHeld DEF rows
<1>4. QED BY <1>1, <1>2, <1>3 DEF HeldInv, Query, files, job

LEMMA UploadHeld == ASSUME HeldInv, NEW o \in Operators, Upload(o) PROVE HeldInv'
<1>1. TypeOK' /\ UNCHANGED rows
  BY UploadType DEF HeldInv, Upload
<1>2. Compilations(table)' \subseteq held' /\ held' = held
  BY <1>1, TableHeld DEF rows
<1>3. \A t \in Minutes : blobs'[t].rules \in held
  BY DEF HeldInv, TypeOK, Upload, PutBlob, files
<1>4. \A p \in Operators : compiled'[p].rules \in held
  BY DEF HeldInv, TypeOK, Upload, NoBlob
<1>5. QED BY <1>1, <1>2, <1>3, <1>4 DEF HeldInv, Upload, job

LEMMA TickHeld == ASSUME HeldInv, Tick PROVE HeldInv' /\ inUse' \in held /\ UNCHANGED held
<1>1. TypeOK' /\ UNCHANGED rows
  BY TickType DEF HeldInv, Tick
<1>2. Compilations(table)' \subseteq held' /\ held' = held
  BY <1>1, TableHeld DEF rows
<1>3. now' \in Minutes
  BY RulesAssumption DEF HeldInv, TypeOK, Tick, Minutes, blobSaveMinutesInTheFuture
<1>4. inUse' \in held
  BY <1>3 DEF HeldInv, Tick
<1>5. QED BY <1>1, <1>2, <1>4 DEF HeldInv, Tick, files, locals

\* every other step leaves blobs, job and compiled sets alone
LEMMA OtherSteps ==
    ASSUME Next
    PROVE  \/ Tick
           \/ \E o \in Operators : Query(o) \/ Upload(o)
           \/ (\E t : Store(t) \/ UNCHANGED rows) /\ UNCHANGED <<files, job, compiled>>
<1>1. ASSUME NEW o \in Operators, NEW allowed, NEW t, TableWrite(o, allowed, t)
      PROVE  \E u : Store(u) \/ UNCHANGED rows
  BY <1>1 DEF TableWrite
<1>2. ASSUME NEW o \in Operators, Insert(o) \/ Replace(o) \/ Delete(o)
      PROVE  (\E t : Store(t) \/ UNCHANGED rows) /\ UNCHANGED <<files, job, compiled>>
  BY <1>1, <1>2 DEF Insert, Replace, Delete, locals
<1>3. ASSUME NEW o \in Operators,
             OpenForm(o) \/ Resubmit(o) \/ SaveCheck(o) \/ Lookup(o) \/ ToggleGet(o) \/ DeleteGet(o)
             \/ RemoveAllGet(o) \/ GetFails(o) \/ Caught(o) \/ Name(o) \/ Crash(o)
      PROVE  UNCHANGED rows /\ UNCHANGED <<files, job, compiled>>
  BY <1>3 DEF OpenForm, Resubmit, SaveCheck, Lookup, ToggleGet, DeleteGet, RemoveAllGet, GetFails,
              Caught, Name, Crash, locals
<1>4. QED BY <1>2, <1>3 DEF Next, Step, Save, Remove, Publish

LEMMA HeldNext == HeldInv /\ [Next]_vars => HeldInv'
<1> SUFFICES ASSUME HeldInv, [Next]_vars PROVE HeldInv'
  OBVIOUS
<1>1. TypeOK'
  BY TypeNext DEF HeldInv
<1>2. CASE UNCHANGED vars
  BY <1>1, <1>2, HeldStep DEF vars, locals
<1>3. CASE Next
  BY <1>1, <1>3, OtherSteps, HeldStep, TickHeld, QueryHeld, UploadHeld
<1>4. QED BY <1>2, <1>3

\* each step is the table's change, the job's turn to another set, or none
LEMMA PromiseNext ==
    ASSUME HeldInv, HeldInv', [Next]_vars
    PROVE  [Promise!Change \/ Promise!Use]_<<held, inUse>>
<1>1. CASE UNCHANGED vars
  BY <1>1 DEF vars, rows, job
<1>2. CASE Tick
  BY <1>2, TickHeld DEF Promise!Use
<1>3. ASSUME NEW o \in Operators, Query(o) \/ Upload(o) PROVE UNCHANGED <<held, inUse>>
  BY <1>3 DEF Query, Upload, rows, job
<1>4. ASSUME NEW t, Store(t), UNCHANGED job PROVE Promise!Change
  <2>1. Compilations(t) \in SUBSET RuleSets
    BY CompilationsType
  <2>2. held' = held \union Compilations(t) /\ UNCHANGED inUse
    BY <1>4 DEF Store, job
  <2>3. QED BY <2>1, <2>2 DEF Promise!Change
<1>5. CASE UNCHANGED rows /\ UNCHANGED job
  BY <1>5 DEF rows, job
<1>6. QED BY <1>1, <1>2, <1>3, <1>4, <1>5, OtherSteps

(* The rules the job uses are at every moment rules the table has held as a  *)
(* whole: DeviceRules implements RulesInUse.                                  *)
THEOREM JobUsesRulesAlways == Spec => JobUsesRulesOfTable
<1>1. Init => Promise!Init
  BY DEF Init, Promise!Init
<1>2. HeldInv /\ HeldInv' /\ [Next]_vars => [Promise!Change \/ Promise!Use]_<<held, inUse>>
  BY PromiseNext
<1>3. QED BY <1>1, <1>2, HeldInit, HeldNext, PTL DEF Spec, JobUsesRulesOfTable, Promise!Spec

-----------------------------------------------------------------------------
(* What a step leaves alone *)

\* an operator that does not take the step keeps its place and its locals
Kept(p) ==
    /\ kind'[p] = kind[p] /\ pc'[p] = pc[p]
    /\ rule'[p] = rule[p] /\ todo'[p] = todo[p] /\ clean'[p] = clean[p]
    /\ named'[p] = named[p] /\ since'[p] = since[p]

LEMMA OthersKept ==
    ASSUME TypeOK, NEW o \in Operators, NEW p \in Operators \ {o}, Step(o)
    PROVE  Kept(p)
<1>1. ASSUME NEW label, Goto(o, label) PROVE pc'[p] = pc[p]
  BY <1>1 DEF TypeOK, Goto
<1>2. ASSUME NEW k, Begin(o, k) PROVE kind'[p] = kind[p]
  BY <1>2 DEF TypeOK, Begin
<1>3. ASSUME NEW allowed, NEW t, TableWrite(o, allowed, t) PROVE pc'[p] = pc[p]
  BY <1>1, <1>3 DEF TableWrite, Stored
<1>4. CASE OpenForm(o)
  <2>1. rule'[p] = rule[p]
    BY <1>4 DEF TypeOK, OpenForm, HoldsRule
  <2>2. QED BY <1>1, <1>2, <1>4, <2>1 DEF OpenForm, Kept
<1>5. CASE Resubmit(o)
  BY <1>1, <1>2, <1>5 DEF Resubmit, Kept, locals
<1>6. CASE SaveCheck(o) \/ Lookup(o)
  BY <1>1, <1>6 DEF TypeOK, SaveCheck, Lookup, Decides, Throws, Kept, locals
<1>7. CASE Insert(o) \/ Replace(o)
  BY <1>3, <1>7 DEF Insert, Replace, Kept, locals
<1>8. CASE ToggleGet(o)
  <2>1. rule'[p] = rule[p] /\ since'[p] = since[p]
    BY <1>8 DEF TypeOK, ToggleGet, HoldsRule, Decides
  <2>2. QED BY <1>1, <1>2, <1>8, <2>1 DEF ToggleGet, Kept
<1>9. CASE DeleteGet(o) \/ RemoveAllGet(o)
  <2>1. todo'[p] = todo[p] /\ since'[p] = since[p] /\ clean'[p] = clean[p]
    BY <1>9 DEF TypeOK, DeleteGet, RemoveAllGet, Decides
  <2>2. QED BY <1>1, <1>2, <1>9, <2>1 DEF DeleteGet, RemoveAllGet, Kept
<1>10. CASE Delete(o)
  <2>1. todo'[p] = todo[p] /\ pc'[p] = pc[p]
    BY <1>3, <1>10 DEF TypeOK, Delete
  <2>2. QED BY <1>10, <2>1 DEF Delete, Kept
<1>11. CASE GetFails(o)
  BY <1>1, <1>2, <1>11 DEF GetFails, Throws, Kept, locals
<1>12. CASE Caught(o)
  BY <1>1, <1>12 DEF TypeOK, Caught, Throws, Kept
<1>13. CASE Query(o) \/ Upload(o)
  BY <1>1, <1>13 DEF Query, Upload, Throws, Kept
<1>14. CASE Name(o)
  BY <1>1, <1>14 DEF TypeOK, Name, Kept
<1>15. CASE Crash(o)
  BY <1>1, <1>15 DEF Crash, Throws, Kept, locals
<1>16. QED
  BY <1>4, <1>5, <1>6, <1>7, <1>8, <1>9, <1>10, <1>11, <1>12, <1>13, <1>14, <1>15
     DEF Step, Save, Remove, Publish

LEMMA TickKept == ASSUME Tick, NEW p \in Operators PROVE Kept(p) /\ UNCHANGED rows
BY DEF Tick, Kept, locals

\* a row is changed under a new ETag, or deleted
RowMoves(j) ==
    \/ table'[j] = table[j]
    \/ /\ version' = version + 1
       /\ table'[j] = NoRow \/ (table'[j] \in Rows /\ table'[j].etag = version + 1)

LEMMA TableMoves ==
    ASSUME TypeOK, [Next]_vars
    PROVE  /\ version' \in {version, version + 1}
           /\ version' = version => table' = table
           /\ \A j \in Ids : RowMoves(j)
<1>1. CASE UNCHANGED rows
  BY <1>1 DEF rows, RowMoves
<1>2. ASSUME NEW o \in Operators, NEW allowed, NEW r \in Rules, TableWrite(o, allowed, WithRow(r))
      PROVE  UNCHANGED rows \/ (version' = version + 1 /\ \A j \in Ids : RowMoves(j))
  <2>1. CASE Store(WithRow(r))
    <3>1. SavedRow(r) \in Rows /\ SavedRow(r).etag = version + 1
      BY SavedRowType DEF SavedRow
    <3>2. \A j \in Ids : table'[j] = table[j] \/ table'[j] = SavedRow(r)
      BY <2>1 DEF TypeOK, Store, WithRow
    <3>3. QED BY <2>1, <3>1, <3>2 DEF Store, RowMoves
  <2>2. QED BY <1>2, <2>1 DEF TableWrite
<1>3. ASSUME NEW o \in Operators, Insert(o) \/ Replace(o)
      PROVE  UNCHANGED rows \/ (version' = version + 1 /\ \A j \in Ids : RowMoves(j))
  <2>1. rule[o] \in Rules
    BY <1>3 DEF TypeOK, Insert, Replace, Saving
  <2>2. QED BY <1>2, <1>3, <2>1 DEF Insert, Replace
<1>4. ASSUME NEW o \in Operators, Delete(o)
      PROVE  UNCHANGED rows \/ (version' = version + 1 /\ \A j \in Ids : RowMoves(j))
  <2>1. PICK r \in todo[o] : UNCHANGED rows \/ Store([table EXCEPT ![r.id] = NoRow])
    BY <1>4 DEF Delete, TableWrite
  <2>2. QED BY <2>1 DEF TypeOK, Store, RowMoves
<1>5. CASE UNCHANGED vars
  BY <1>1, <1>5 DEF vars
<1>6. CASE Tick
  BY <1>1, <1>6 DEF Tick
<1>7. ASSUME NEW o \in Operators, Step(o), ~Insert(o), ~Replace(o), ~Delete(o)
      PROVE  UNCHANGED rows
  BY <1>7 DEF Step, Save, Remove, Publish, OpenForm, Resubmit, SaveCheck, Lookup, ToggleGet, DeleteGet,
              RemoveAllGet, GetFails, Caught, Query, Name, Upload, Crash
<1>8. ASSUME version' = version + 1 PROVE version' # version
  BY <1>8 DEF TypeOK
<1>9. QED BY <1>1, <1>3, <1>4, <1>5, <1>6, <1>7, <1>8 DEF Next

-----------------------------------------------------------------------------
(* An upload is over before its minute *)

Punctual == \A o \in Operators : pc[o] = "upload" => now \in {named[o], named[o] + 1}

LEMMA PunctualNext == TypeOK /\ Punctual /\ [Next]_vars => Punctual'
<1> SUFFICES ASSUME TypeOK, Punctual, [Next]_vars PROVE Punctual'
  OBVIOUS
<1>1. CASE UNCHANGED vars
  BY <1>1 DEF Punctual, vars, locals, job
<1>2. CASE Tick
  BY <1>2 DEF Punctual, Tick, locals, TypeOK
<1>3. ASSUME NEW o \in Operators, Step(o) PROVE Punctual'
  <2>1. UNCHANGED now
    BY <1>3 DEF Step, Save, Remove, Publish, OpenForm, Resubmit, SaveCheck, Lookup, Insert, Replace, ToggleGet,
                DeleteGet, RemoveAllGet, Delete, GetFails, Caught, Query, Name, Upload, Crash, job
  <2>2. \A p \in Operators \ {o} : Kept(p)
    BY <1>3, OthersKept
  <2>3. CASE Name(o)
    BY <2>1, <2>2, <2>3 DEF Name, Punctual, Kept, TypeOK
  <2>4. CASE ~Name(o)
    <3>1. ASSUME NEW label, Goto(o, label), label # "upload" PROVE pc'[o] # "upload"
      BY <3>1 DEF TypeOK, Goto
    <3>2. ASSUME Save(o) PROVE pc'[o] # "upload"
      BY <3>1, <3>2 DEF Save, OpenForm, Resubmit, SaveCheck, Lookup, Insert, Replace, TableWrite, Stored, Throws
    <3>3. ASSUME Remove(o) PROVE pc'[o] # "upload"
      BY <3>1, <3>3 DEF Remove, DeleteGet, RemoveAllGet, Delete, TableWrite, Stored
    <3>4. ASSUME ToggleGet(o) \/ GetFails(o) \/ Caught(o) \/ Crash(o) PROVE pc'[o] # "upload"
      BY <3>1, <3>4 DEF ToggleGet, GetFails, Caught, Crash, Throws, Onward
    <3>5. ASSUME Publish(o) PROVE pc'[o] # "upload"
      BY <2>4, <3>1, <3>5 DEF Publish, Query, Upload, Throws, Onward
    <3>6. pc'[o] # "upload"
      BY <1>3, <3>2, <3>3, <3>4, <3>5 DEF Step
    <3>7. QED BY <2>1, <2>2, <3>6 DEF Punctual, Kept
  <2>5. QED BY <2>3, <2>4
<1>4. QED BY <1>1, <1>2, <1>3 DEF Next

(* No blob changes once its minute has come, if an upload crosses at most one *)
(* minute boundary: the two minutes of blobSaveMinutesInTheFuture are enough.  *)
THEOREM ReadBlobsAreFinalAlways == Spec => ReadBlobsAreFinal
<1>1. Init => Punctual
  BY DEF Init, Punctual
<1>2. ASSUME TypeOK, Punctual, [Next]_vars
      PROVE  [\A t \in 0 .. now : blobs'[t] = blobs[t]]_vars
  <2>1. ASSUME NEW o \in Operators, Upload(o), NEW t \in 0 .. now PROVE blobs'[t] = blobs[t]
    <3>1. now \in 0 .. Horizon /\ named[o] \in 0 .. Horizon
      BY <1>2 DEF TypeOK
    <3>2. BlobPath(o) = named[o] + 2 /\ now \in {named[o], named[o] + 1}
      BY <1>2, <2>1, BlobPathType DEF Upload, Punctual
    <3>3. BlobPath(o) # t
      BY <3>1, <3>2
    <3>4. t \in Minutes
      BY <3>1, RulesAssumption DEF Minutes, blobSaveMinutesInTheFuture
    <3>5. blobs \in [Minutes -> Blobs]
      BY <1>2 DEF TypeOK
    <3>6. QED BY <2>1, <3>3, <3>4, <3>5 DEF Upload, PutBlob, files
  <2>2. ASSUME NEW o \in Operators, Step(o), ~Upload(o) PROVE UNCHANGED blobs
    BY <2>2 DEF Step, Save, Remove, Publish, OpenForm, Resubmit, SaveCheck, Lookup, Insert, Replace, ToggleGet,
                DeleteGet, RemoveAllGet, Delete, GetFails, Caught, Query, Name, Crash, files
  <2>3. CASE Tick
    BY <2>3 DEF Tick, files
  <2>4. QED BY <1>2, <2>1, <2>2, <2>3 DEF Next
<1>3. QED BY <1>1, <1>2, TypeInit, TypeNext, PunctualNext, PTL DEF Spec, ReadBlobsAreFinal

-----------------------------------------------------------------------------
(* A removal that says it is complete *)

\* a removal that has met no error has in its list whatever is left of what it found
Swept(o) ==
    kind[o] = "removeAll" /\ clean[o] /\ pc[o] \in {"delete", "query", "name", "upload", "ok"} =>
      /\ since[o] <= version
      /\ pc[o] = "ok" => todo[o] = {}
      /\ \A i \in Present : table[i].etag > since[o] \/ \E r \in todo[o] : r.id = i

SweptInv == \A o \in Operators : Swept(o)

LEMMA SweptKept ==
    ASSUME TypeOK, [Next]_vars, NEW o \in Operators, Swept(o), Kept(o)
    PROVE  Swept(o)'
<1> SUFFICES ASSUME kind[o] = "removeAll", clean[o], pc[o] \in {"delete", "query", "name", "upload", "ok"}
             PROVE  /\ since[o] <= version'
                    /\ pc[o] = "ok" => todo[o] = {}
                    /\ \A i \in Present' : table'[i].etag > since[o] \/ \E r \in todo[o] : r.id = i
  BY DEF Swept, Kept
<1>1. /\ since[o] \in Nat /\ version \in Nat
      /\ since[o] <= version
      /\ pc[o] = "ok" => todo[o] = {}
      /\ \A i \in Present : table[i].etag > since[o] \/ \E r \in todo[o] : r.id = i
  BY DEF Swept, TypeOK
<1>2. since[o] <= version'
  BY <1>1, TableMoves
<1>3. ASSUME NEW i \in Present' PROVE table'[i].etag > since[o] \/ \E r \in todo[o] : r.id = i
  <2>1. i \in Ids /\ table'[i] # NoRow
    BY DEF Present
  <2>2. RowMoves(i)
    BY <2>1, TableMoves
  <2>3. CASE table'[i] = table[i]
    <3>1. i \in Present
      BY <2>1, <2>3 DEF Present
    <3>2. QED BY <1>1, <2>3, <3>1
  <2>4. CASE table'[i] # table[i]
    <3>1. table'[i].etag = version + 1
      BY <2>1, <2>2, <2>4 DEF RowMoves
    <3>2. QED BY <1>1, <3>1
  <2>5. QED BY <2>3, <2>4
<1>4. QED BY <1>1, <1>2, <1>3

LEMMA SweptRemoveAllGet == ASSUME TypeOK, NEW o \in Operators, RemoveAllGet(o) PROVE Swept(o)'
<1>1. todo'[o] = {AsRule(i) : i \in Present} /\ since'[o] = version /\ version \in Nat
  BY DEF TypeOK, RemoveAllGet, Decides
<1>2. UNCHANGED <<table, version>>
  BY DEF RemoveAllGet, rows
<1>3. pc'[o] = "ok" => Present = {}
  BY DEF TypeOK, RemoveAllGet, Goto
<1>4. \A i \in Present : AsRule(i) \in todo'[o] /\ AsRule(i).id = i
  BY <1>1 DEF AsRule
<1>5. Present' = Present
  BY <1>2 DEF Present
<1>6. QED BY <1>1, <1>2, <1>3, <1>4, <1>5 DEF Swept

LEMMA SweptDelete == ASSUME TypeOK, NEW o \in Operators, Swept(o), Delete(o) PROVE Swept(o)'
<1>1. PICK r \in todo[o] :
        /\ todo' = [todo EXCEPT ![o] = @ \ {r}]
        /\ TableWrite(o, r.id \in Present /\ table[r.id].etag = r.etag, [table EXCEPT ![r.id] = NoRow])
  BY DEF Delete
<1>2. CASE Store([table EXCEPT ![r.id] = NoRow])
  <2>1. SUFFICES ASSUME kind[o] = "removeAll", clean[o]
                 PROVE  /\ since[o] <= version'
                        /\ \A i \in Present' : table'[i].etag > since[o] \/ \E q \in todo'[o] : q.id = i
    <3>1. pc'[o] \in {"query", "caught"}
      BY <1>1 DEF TypeOK, TableWrite, Stored, Goto
    <3>2. QED BY <2>1, <3>1 DEF Swept, Delete
  <2>2. /\ since[o] \in Nat /\ version \in Nat /\ since[o] <= version
        /\ \A i \in Present : table[i].etag > since[o] \/ \E q \in todo[o] : q.id = i
    BY <2>1 DEF Swept, TypeOK, Delete
  <2>3. version' = version + 1
    BY <1>2 DEF Store
  <2>4. ASSUME NEW i \in Present' PROVE i \in Present /\ i # r.id /\ table'[i] = table[i]
    BY <1>2, <2>4 DEF TypeOK, Store, Present
  <2>5. todo'[o] = todo[o] \ {r}
    BY <1>1 DEF TypeOK
  <2>6. QED BY <2>2, <2>3, <2>4, <2>5
<1>3. CASE Goto(o, "caught")
  BY <1>3 DEF TypeOK, Swept, Goto
<1>4. QED BY <1>1, <1>2, <1>3 DEF TableWrite

LEMMA SweptPublish == ASSUME TypeOK, NEW o \in Operators, Swept(o), Publish(o) PROVE Swept(o)'
<1>1. UNCHANGED <<kind, clean, since, todo, table, version>>
  BY DEF Publish, Query, Name, Upload, rows
<1>2. pc[o] \in {"query", "name", "upload"}
  BY DEF Publish, Query, Name, Upload
<1>3. pc'[o] = "ok" => todo[o] = {}
  BY DEF TypeOK, Publish, Query, Name, Upload, Throws, Onward, Goto
<1>4. Present' = Present
  BY <1>1 DEF Present
<1>5. QED BY <1>1, <1>2, <1>3, <1>4 DEF Swept

\* at the other calls the operator is not at a removal that has met no error
LEMMA SweptOther ==
    ASSUME TypeOK, NEW o \in Operators, Save(o) \/ ToggleGet(o) \/ DeleteGet(o) \/ GetFails(o) \/ Caught(o) \/ Crash(o)
    PROVE  Swept(o)'
<1>1. CASE OpenForm(o) \/ Resubmit(o) \/ ToggleGet(o) \/ DeleteGet(o)
  BY <1>1 DEF TypeOK, Swept, OpenForm, Resubmit, ToggleGet, DeleteGet, Begin
<1>2. CASE SaveCheck(o) \/ Lookup(o) \/ Insert(o) \/ Replace(o)
  BY <1>2 DEF TypeOK, Swept, Saving, SaveCheck, Lookup, Insert, Replace
<1>3. CASE GetFails(o) \/ Crash(o)
  BY <1>3 DEF TypeOK, Swept, GetFails, Crash, Throws, Goto
<1>4. CASE Caught(o)
  BY <1>4 DEF TypeOK, Swept, Caught, Throws, Goto
<1>5. QED BY <1>1, <1>2, <1>3, <1>4 DEF Save

LEMMA SweptNext == TypeOK /\ SweptInv /\ [Next]_vars => SweptInv'
<1> SUFFICES ASSUME TypeOK, SweptInv, [Next]_vars, NEW o \in Operators PROVE Swept(o)'
  BY DEF SweptInv
<1>1. Swept(o)
  BY DEF SweptInv
<1>2. CASE UNCHANGED vars
  BY <1>1, <1>2, SweptKept DEF vars, locals, Kept
<1>3. CASE Tick
  BY <1>1, <1>3, TickKept, SweptKept
<1>4. CASE Step(o)
  BY <1>1, <1>4, SweptRemoveAllGet, SweptDelete, SweptPublish, SweptOther DEF Step, Remove
<1>5. ASSUME NEW p \in Operators \ {o}, Step(p) PROVE Swept(o)'
  <2>1. Kept(o)
    BY <1>5, OthersKept
  <2>2. QED BY <1>1, <2>1, SweptKept
<1>6. QED BY <1>2, <1>3, <1>4, <1>5 DEF Next

(* When RemoveAllRulesForDeviceAsync returns true, every rule it found has    *)
(* been deleted, whatever failed, conflicted or was saved in the meantime.     *)
THEOREM RemovalIsCompleteAlways == Spec => []RemovalIsComplete
<1>1. Init => SweptInv
  BY DEF Init, SweptInv, Swept
<1>2. SweptInv => RemovalIsComplete
  BY DEF SweptInv, Swept, RemovalIsComplete
<1>3. QED BY <1>1, <1>2, TypeInit, TypeNext, SweptNext, PTL DEF Spec

-----------------------------------------------------------------------------
(* A toggle changes nothing but the state of its rule *)

\* while the row has the ETag of the toggle's rule it has the rule's field and value
Faithful(o) ==
    kind[o] = "toggle" /\ pc[o] \in Saving =>
      /\ rule[o].etag <= version
      /\ rule[o].id \in Present /\ table[rule[o].id].etag = rule[o].etag =>
           /\ table[rule[o].id].field = rule[o].field
           /\ table[rule[o].id].value = rule[o].value

\* no row has an ETag yet to come
Stamped == \A i \in Present : table[i].etag <= version

FaithfulInv == Stamped /\ \A o \in Operators : Faithful(o)

LEMMA StampedNext == TypeOK /\ Stamped /\ [Next]_vars => Stamped'
<1> SUFFICES ASSUME TypeOK, Stamped, [Next]_vars, NEW i \in Present' PROVE table'[i].etag <= version'
  BY DEF Stamped
<1>1. i \in Ids /\ table'[i] # NoRow /\ version \in Nat
  BY DEF Present, TypeOK
<1>2. RowMoves(i) /\ version' \in {version, version + 1}
  BY <1>1, TableMoves
<1>3. CASE table'[i] = table[i]
  <2>1. i \in Present /\ table[i].etag <= version
    BY <1>1, <1>3 DEF Present, Stamped
  <2>2. table[i].etag \in Nat
    BY <1>1, <1>3 DEF TypeOK, Rows, Etags
  <2>3. QED BY <1>1, <1>2, <1>3, <2>1, <2>2
<1>4. CASE table'[i] # table[i]
  BY <1>1, <1>2, <1>4 DEF RowMoves
<1>5. QED BY <1>3, <1>4

LEMMA FaithfulKept ==
    ASSUME TypeOK, [Next]_vars, NEW o \in Operators, Faithful(o), Kept(o)
    PROVE  Faithful(o)'
<1> SUFFICES ASSUME kind[o] = "toggle", pc[o] \in Saving
             PROVE  /\ rule[o].etag <= version'
                    /\ rule[o].id \in Present' /\ table'[rule[o].id].etag = rule[o].etag =>
                         /\ table'[rule[o].id].field = rule[o].field
                         /\ table'[rule[o].id].value = rule[o].value
  BY DEF Faithful, Kept
<1>1. rule[o] \in Rules /\ version \in Nat
  BY DEF TypeOK
<1>2. rule[o].id \in Ids /\ rule[o].etag \in Nat
  BY <1>1 DEF Rules, Etags
<1>3. /\ rule[o].etag <= version
      /\ rule[o].id \in Present /\ table[rule[o].id].etag = rule[o].etag =>
           /\ table[rule[o].id].field = rule[o].field
           /\ table[rule[o].id].value = rule[o].value
  BY DEF Faithful
<1>4. RowMoves(rule[o].id) /\ version' \in {version, version + 1}
  BY <1>2, TableMoves
<1>5. CASE table'[rule[o].id] = table[rule[o].id]
  BY <1>1, <1>2, <1>3, <1>4, <1>5 DEF Present
<1>6. CASE table'[rule[o].id] # table[rule[o].id]
  BY <1>1, <1>2, <1>3, <1>4, <1>6 DEF RowMoves, Present
<1>7. QED BY <1>5, <1>6

LEMMA FaithfulToggleGet == ASSUME TypeOK, Stamped, NEW o \in Operators, ToggleGet(o) PROVE Faithful(o)'
<1>1. PICK i \in Present, enabled \in BOOLEAN : rule' = [rule EXCEPT ![o] = [AsRule(i) EXCEPT !.enabled = enabled]]
  BY DEF ToggleGet, HoldsRule
<1>2. /\ rule'[o].id = i /\ rule'[o].etag = table[i].etag
      /\ rule'[o].field = table[i].field /\ rule'[o].value = table[i].value
  BY <1>1 DEF TypeOK, AsRule
<1>3. UNCHANGED <<table, version>>
  BY DEF ToggleGet, rows
<1>4. QED BY <1>2, <1>3 DEF Faithful, Stamped

LEMMA FaithfulStep ==
    ASSUME TypeOK, Stamped, NEW o \in Operators, Faithful(o), Step(o)
    PROVE  Faithful(o)'
<1>1. CASE ToggleGet(o)
  BY <1>1, FaithfulToggleGet
<1>2. CASE Lookup(o)
  <2>1. UNCHANGED <<kind, rule, table, version>> /\ pc[o] \in Saving
    BY <1>2 DEF Lookup, locals, rows, Saving
  <2>2. Present' = Present
    BY <2>1 DEF Present
  <2>3. QED BY <2>1, <2>2 DEF Faithful
<1>3. CASE SaveCheck(o)
  <2>1. UNCHANGED <<kind, rule, table, version>> /\ pc[o] \in Saving
    BY <1>3 DEF SaveCheck, rows, Saving
  <2>2. Present' = Present
    BY <2>1 DEF Present
  <2>3. QED BY <2>1, <2>2 DEF Faithful
<1>4. CASE OpenForm(o) \/ Resubmit(o) \/ Remove(o)
  BY <1>4 DEF TypeOK, Faithful, Saving, OpenForm, Resubmit, Remove, DeleteGet, RemoveAllGet, Delete, Begin,
              TableWrite, Stored, Goto
<1>5. CASE Insert(o) \/ Replace(o)
  BY <1>5 DEF TypeOK, Faithful, Saving, Insert, Replace, TableWrite, Stored, Goto
<1>6. CASE GetFails(o) \/ Caught(o) \/ Crash(o)
  BY <1>6 DEF TypeOK, Faithful, Saving, GetFails, Caught, Crash, Throws, Onward, Goto
<1>7. CASE Publish(o)
  BY <1>7 DEF TypeOK, Faithful, Saving, Publish, Query, Name, Upload, Throws, Onward, Goto
<1>8. QED BY <1>1, <1>2, <1>3, <1>4, <1>5, <1>6, <1>7 DEF Step, Save

LEMMA FaithfulNext == TypeOK /\ FaithfulInv /\ [Next]_vars => FaithfulInv'
<1> SUFFICES ASSUME TypeOK, FaithfulInv, [Next]_vars PROVE FaithfulInv'
  OBVIOUS
<1>1. Stamped'
  BY StampedNext DEF FaithfulInv
<1>2. ASSUME NEW o \in Operators PROVE Faithful(o)'
  <2>1. Stamped /\ Faithful(o)
    BY DEF FaithfulInv
  <2>2. CASE UNCHANGED vars
    BY <2>1, <2>2, FaithfulKept DEF vars, locals, Kept
  <2>3. CASE Tick
    BY <2>1, <2>3, TickKept, FaithfulKept
  <2>4. CASE Step(o)
    BY <2>1, <2>4, FaithfulStep
  <2>5. ASSUME NEW p \in Operators \ {o}, Step(p) PROVE Faithful(o)'
    <3>1. Kept(o)
      BY <2>5, OthersKept
    <3>2. QED BY <2>1, <3>1, FaithfulKept
  <2>6. QED BY <2>2, <2>3, <2>4, <2>5 DEF Next
<1>3. QED BY <1>1, <1>2 DEF FaithfulInv

KeepsRest(o) ==
    kind[o] = "toggle" /\ pc[o] \in Calls /\ pc'[o] # pc[o] =>
      \A i \in Present : \/ table'[i] = NoRow
                         \/ table'[i].field = table[i].field /\ table'[i].value = table[i].value

LEMMA ToggleStep ==
    ASSUME TypeOK, NEW o \in Operators, Faithful(o), Step(o), kind[o] = "toggle", NEW i \in Present
    PROVE  \/ table'[i] = NoRow
           \/ table'[i].field = table[i].field /\ table'[i].value = table[i].value
<1>1. CASE UNCHANGED rows
  BY <1>1 DEF rows
<1>2. CASE Insert(o) /\ ~UNCHANGED rows
  <2>1. rule[o].id # i /\ table' = WithRow(rule[o])
    BY <1>2 DEF Insert, TableWrite, Store
  <2>2. QED BY <2>1 DEF TypeOK, WithRow, Present
<1>3. CASE Replace(o) /\ ~UNCHANGED rows
  <2>1. /\ rule[o].id \in Present /\ table[rule[o].id].etag = rule[o].etag
        /\ table' = WithRow(rule[o])
    BY <1>3 DEF Replace, TableWrite, Store
  <2>2. /\ table[rule[o].id].field = rule[o].field
        /\ table[rule[o].id].value = rule[o].value
    BY <1>3, <2>1 DEF Faithful, Replace, Saving
  <2>3. i # rule[o].id => table'[i] = table[i]
    BY <2>1 DEF TypeOK, WithRow, Present
  <2>4. i = rule[o].id => table'[i] = SavedRow(rule[o])
    BY <2>1 DEF TypeOK, WithRow, Present
  <2>5. SavedRow(rule[o]).field = rule[o].field /\ SavedRow(rule[o]).value = rule[o].value
    BY DEF SavedRow
  <2>6. QED BY <2>2, <2>3, <2>4, <2>5
<1>4. CASE Delete(o) /\ ~UNCHANGED rows
  <2>1. PICK r \in todo[o] : table' = [table EXCEPT ![r.id] = NoRow]
    BY <1>4 DEF Delete, TableWrite, Store
  <2>2. QED BY <2>1 DEF TypeOK, Present
<1>5. CASE ~Insert(o) /\ ~Replace(o) /\ ~Delete(o)
  BY <1>1, <1>5 DEF Step, Save, Remove, Publish, OpenForm, Resubmit, SaveCheck, Lookup, ToggleGet, DeleteGet,
              RemoveAllGet, GetFails, Caught, Query, Name, Upload, Crash
<1>6. QED BY <1>1, <1>2, <1>3, <1>4, <1>5

(* Enabling or disabling a rule never changes another part of it, however    *)
(* many edits, deletions and repeated forms come in between.                   *)
THEOREM ToggleKeepsRestAlways == Spec => ToggleKeepsRest
<1>1. Init => FaithfulInv
  BY DEF Init, FaithfulInv, Stamped, Faithful, Present, Saving
<1>2. ASSUME TypeOK, FaithfulInv, [Next]_vars PROVE [\A o \in Operators : KeepsRest(o)]_vars
  <2>1. ASSUME NEW o \in Operators, Step(o) PROVE KeepsRest(o)
    BY <1>2, <2>1, ToggleStep DEF KeepsRest, FaithfulInv
  <2>2. ASSUME NEW o \in Operators, NEW p \in Operators \ {o}, Step(p) PROVE KeepsRest(o)
    BY <1>2, <2>2, OthersKept DEF KeepsRest, Kept
  <2>3. ASSUME NEW o \in Operators, Tick PROVE KeepsRest(o)
    BY <2>3, TickKept DEF KeepsRest, Kept
  <2>4. QED BY <1>2, <2>1, <2>2, <2>3 DEF Next
<1>3. ASSUME TypeOK, FaithfulInv, [Next]_vars
      PROVE  [\A o \in Operators : kind[o] = "toggle" /\ pc[o] \in Calls /\ pc'[o] # pc[o] =>
                \A i \in Present : table'[i] = NoRow
                                  \/ /\ table'[i].field = table[i].field
                                     /\ table'[i].value = table[i].value]_vars
  BY <1>2, <1>3 DEF KeepsRest
<1>4. QED BY <1>1, <1>3, TypeInit, TypeNext, FaithfulNext, PTL DEF Spec, ToggleKeepsRest

-----------------------------------------------------------------------------
(* One rule for a field, without races *)

Unique == \A i, j \in Present : table[i].field = table[j].field => i = j

\* an operator about to save, whose read is not outdated, has no rule in its way
Clear(o) ==
    pc[o] \in {"lookup", "insert", "replace"} =>
      /\ since[o] <= version
      /\ ~raced /\ since[o] = version => ~Duplicate(rule[o])

UniqueInv == (~raced => Unique) /\ \A o \in Operators : Clear(o)

LEMMA RacedStays == ASSUME [Next]_vars, ~raced' PROVE ~raced
BY DEF Next, Step, Save, Remove, Publish, vars, OpenForm, Resubmit, SaveCheck, Lookup, Insert, Replace, Races,
       ToggleGet, DeleteGet, RemoveAllGet, Delete, GetFails, Caught, Query, Name, Upload, Crash, Tick

LEMMA DuplicateStays ==
    ASSUME UNCHANGED <<table, rule>>, NEW o
    PROVE  Duplicate(rule[o])' <=> Duplicate(rule[o])
BY DEF Duplicate, Present

LEMMA ClearKept ==
    ASSUME TypeOK, [Next]_vars, NEW o \in Operators, Clear(o), Kept(o)
    PROVE  Clear(o)'
<1> SUFFICES ASSUME pc[o] \in {"lookup", "insert", "replace"}
             PROVE  /\ since[o] <= version'
                    /\ ~raced' /\ since[o] = version' => ~Duplicate(rule[o])'
  BY DEF Clear, Kept
<1>1. since[o] \in Nat /\ version \in Nat /\ since[o] <= version
  BY DEF Clear, TypeOK
<1>2. version' \in {version, version + 1} /\ (version' = version => table' = table)
  BY TableMoves
<1>3. since[o] <= version'
  BY <1>1, <1>2
<1>4. ASSUME ~raced', since[o] = version' PROVE ~Duplicate(rule[o])'
  <2>1. version' = version /\ table' = table /\ rule'[o] = rule[o]
    BY <1>1, <1>2, <1>4 DEF Kept
  <2>2. ~Duplicate(rule[o])
    BY <1>4, <2>1, RacedStays DEF Clear
  <2>3. QED BY <2>1, <2>2 DEF Duplicate, Present
<1>5. QED BY <1>3, <1>4

LEMMA ClearStep ==
    ASSUME TypeOK, ~raced => Unique, NEW o \in Operators, Clear(o), Step(o)
    PROVE  Clear(o)'
<1>1. CASE ToggleGet(o)
  <2>1. PICK i \in Present, enabled \in BOOLEAN : rule' = [rule EXCEPT ![o] = [AsRule(i) EXCEPT !.enabled = enabled]]
    BY <1>1 DEF ToggleGet, HoldsRule
  <2>2. rule'[o].id = i /\ rule'[o].field = table[i].field
    BY <2>1 DEF TypeOK, AsRule
  <2>3. UNCHANGED <<table, version, raced>> /\ since'[o] = version /\ version \in Nat
    BY <1>1 DEF TypeOK, ToggleGet, rows, Decides
  <2>4. ~raced => ~Duplicate(rule[o])'
    BY <2>2, <2>3 DEF Unique, Duplicate, Present
  <2>5. QED BY <2>3, <2>4 DEF Clear
<1>2. CASE SaveCheck(o)
  <2>1. UNCHANGED <<table, version, raced, rule>> /\ version \in Nat
    BY <1>2 DEF TypeOK, SaveCheck, rows
  <2>2. pc'[o] \in {"refused", "failed"} \/ (pc'[o] = "lookup" /\ ~Duplicate(rule[o]) /\ since'[o] = version)
    BY <1>2 DEF TypeOK, SaveCheck, Decides, Throws, Goto
  <2>3. Duplicate(rule[o])' <=> Duplicate(rule[o])
    BY <2>1, DuplicateStays
  <2>4. QED BY <2>1, <2>2, <2>3 DEF Clear
<1>3. CASE Lookup(o)
  <2>1. UNCHANGED <<table, version, raced, rule, since>> /\ pc[o] = "lookup"
    BY <1>3 DEF Lookup, rows, locals
  <2>2. Duplicate(rule[o])' <=> Duplicate(rule[o])
    BY <2>1, DuplicateStays
  <2>3. QED BY <2>1, <2>2 DEF Clear
<1>4. CASE OpenForm(o) \/ Resubmit(o) \/ Remove(o)
  BY <1>4 DEF TypeOK, Clear, OpenForm, Resubmit, Remove, DeleteGet, RemoveAllGet, Delete, Begin, TableWrite, Stored, Goto
<1>5. CASE Insert(o) \/ Replace(o)
  BY <1>5 DEF TypeOK, Clear, Insert, Replace, TableWrite, Stored, Goto
<1>6. CASE GetFails(o) \/ Caught(o) \/ Crash(o)
  BY <1>6 DEF TypeOK, Clear, GetFails, Caught, Crash, Throws, Onward, Goto
<1>7. CASE Publish(o)
  BY <1>7 DEF TypeOK, Clear, Publish, Query, Name, Upload, Throws, Onward, Goto
<1>8. QED BY <1>1, <1>2, <1>3, <1>4, <1>5, <1>6, <1>7 DEF Step, Save

\* a rule that nothing is in the way of keeps the fields unique
LEMMA UniqueWrite ==
    ASSUME TypeOK, Unique, NEW r \in Rules, ~Duplicate(r), table' = WithRow(r)
    PROVE  Unique'
<1>1. r.id \in Ids /\ SavedRow(r).field = r.field
  BY DEF Rules, SavedRow
<1>2. /\ table'[r.id] = SavedRow(r)
      /\ \A i \in Ids \ {r.id} : table'[i] = table[i]
  BY <1>1 DEF TypeOK, WithRow
<1>3. \A i \in Present' \ {r.id} : i \in Present /\ table'[i] = table[i] /\ table[i].field # r.field
  BY <1>2 DEF Present, Duplicate
<1>4. QED BY <1>1, <1>2, <1>3 DEF Unique

LEMMA UniqueNext == TypeOK /\ UniqueInv /\ [Next]_vars => UniqueInv'
<1> SUFFICES ASSUME TypeOK, UniqueInv, [Next]_vars PROVE UniqueInv'
  OBVIOUS
<1>1. ~raced' => Unique'
  <2>1. SUFFICES ASSUME ~raced' PROVE Unique'
    OBVIOUS
  <2>2. ~raced /\ Unique
    BY <2>1, RacedStays DEF UniqueInv
  <2>3. CASE table' = table
    BY <2>2, <2>3 DEF Unique, Present
  <2>4. ASSUME NEW o \in Operators, Insert(o) \/ Replace(o), table' # table PROVE Unique'
    <3>1. rule[o] \in Rules /\ pc[o] \in {"insert", "replace"}
      BY <2>4 DEF TypeOK, Insert, Replace, Saving
    <3>2. since[o] = version
      BY <2>1, <2>4 DEF Insert, Replace, Races
    <3>3. ~Duplicate(rule[o])
      BY <2>2, <3>1, <3>2 DEF UniqueInv, Clear
    <3>4. table' = WithRow(rule[o])
      BY <2>4 DEF Insert, Replace, TableWrite, Store, rows
    <3>5. QED BY <2>2, <3>1, <3>3, <3>4, UniqueWrite
  <2>5. ASSUME NEW o \in Operators, Delete(o), table' # table PROVE Unique'
    <3>1. PICK r \in todo[o] : table' = [table EXCEPT ![r.id] = NoRow]
      BY <2>5 DEF Delete, TableWrite, Store, rows
    <3>2. \A i \in Present' : i \in Present /\ table'[i] = table[i]
      BY <3>1 DEF TypeOK, Present
    <3>3. QED BY <2>2, <3>2 DEF Unique
  <2>6. ASSUME NEW o \in Operators, Step(o), ~Insert(o), ~Replace(o), ~Delete(o) PROVE table' = table
    BY <2>6 DEF Step, Save, Remove, Publish, OpenForm, Resubmit, SaveCheck, Lookup, ToggleGet, DeleteGet,
                RemoveAllGet, GetFails, Caught, Query, Name, Upload, Crash, rows
  <2>7. CASE Tick \/ UNCHANGED vars
    BY <2>3, <2>7 DEF Tick, vars, rows
  <2>8. QED BY <2>3, <2>4, <2>5, <2>6, <2>7 DEF Next
<1>2. ASSUME NEW o \in Operators PROVE Clear(o)'
  <2>1. (~raced => Unique) /\ Clear(o)
    BY DEF UniqueInv
  <2>2. CASE UNCHANGED vars
    BY <2>1, <2>2, ClearKept DEF vars, locals, Kept
  <2>3. CASE Tick
    BY <2>1, <2>3, TickKept, ClearKept
  <2>4. CASE Step(o)
    BY <2>1, <2>4, ClearStep
  <2>5. ASSUME NEW p \in Operators \ {o}, Step(p) PROVE Clear(o)'
    <3>1. Kept(o)
      BY <2>5, OthersKept
    <3>2. QED BY <2>1, <3>1, ClearKept
  <2>6. QED BY <2>2, <2>3, <2>4, <2>5 DEF Next
<1>3. QED BY <1>1, <1>2 DEF UniqueInv

(* A data field gets a second rule only if a rule was saved upon a read of    *)
(* the table that was out of date: the search before the save does its work    *)
(* in any series of operations that do not overlap.                            *)
THEOREM OneRulePerFieldAlways == Spec => []OneRulePerField
<1>1. Init => UniqueInv
  BY DEF Init, UniqueInv, Unique, Clear, Present
<1>2. UniqueInv => OneRulePerField
  BY DEF UniqueInv, Unique, OneRulePerField
<1>3. QED BY <1>1, <1>2, TypeInit, TypeNext, UniqueNext, PTL DEF Spec

-----------------------------------------------------------------------------
(* The latest blob has the table's rules *)

\* a compilation is of an earlier table, or of the one there is
Genuine(b) ==
    /\ b.version <= version
    /\ b.version = version /\ version > 0 => b.rules \in Compilations(table)

\* an operator will read the table's last version, or has it in hand
Latest(o) == pc[o] = "query" \/ (pc[o] \in {"name", "upload"} /\ compiled[o].version = version)

\* the blob that will be used last
Topmost(t) == blobs[t] # NoBlob /\ \A u \in Minutes : u > t => blobs[u] = NoBlob

GenuineInv ==
    /\ changedAt <= failures
    /\ \A o \in Operators : Genuine(compiled[o])
    /\ \A o \in Operators : pc[o] = "query" => version > 0
    /\ \A o \in Operators : pc[o] \in {"name", "upload"} => compiled[o].version > 0
    /\ \A t \in Minutes : Genuine(blobs[t]) /\ (blobs[t].version = 0 => blobs[t] = NoBlob)

HasTop == (\A t \in Minutes : blobs[t] = NoBlob) \/ \E t \in Minutes : Topmost(t)

Covered ==
    failures = changedAt /\ ~overtaken /\ version > 0
      => \/ \E o \in Operators : Latest(o)
         \/ \E t \in Minutes : Topmost(t) /\ blobs[t].version = version

FollowInv == GenuineInv /\ HasTop /\ Covered

LEMMA FollowInit == Init => FollowInv
<1> SUFFICES ASSUME Init PROVE FollowInv
  OBVIOUS
<1>1. NoBlob.version = 0
  BY DEF NoBlob
<1>2. GenuineInv
  BY <1>1 DEF Init, GenuineInv, Genuine
<1>3. HasTop /\ Covered
  BY DEF Init, HasTop, Covered
<1>4. QED BY <1>2, <1>3 DEF FollowInv

\* the table changes: whatever was compiled before is of an earlier version
LEMMA FollowStore ==
    ASSUME TypeOK, FollowInv, NEW o \in Operators, NEW allowed,
           NEW t \in [Ids -> Rows \union {NoRow}], TableWrite(o, allowed, t), Store(t),
           UNCHANGED <<files, compiled>>
    PROVE  FollowInv'
<1>1. /\ version \in Nat /\ failures \in Nat
      /\ version' = version + 1 /\ changedAt' = failures
  BY DEF TypeOK, Store
<1>2. \/ failures' = failures /\ pc'[o] = "query"
      \/ failures' = failures + 1 /\ pc'[o] = "caught"
  <2>1. ~UNCHANGED rows
    BY <1>1 DEF rows
  <2>2. \/ NoFailure /\ Goto(o, "query")
        \/ Fails("lost") /\ Goto(o, "caught")
    BY <2>1 DEF TableWrite, Stored
  <2>3. QED BY <2>2 DEF TypeOK, NoFailure, Fails, Goto
<1>3. \A p \in Operators \ {o} : pc'[p] = pc[p]
  BY TableWriteType
<1>4. /\ \A p \in Operators : compiled[p].version \in Nat /\ compiled[p].version <= version
      /\ \A u \in Minutes : blobs[u].version \in Nat /\ blobs[u].version <= version
  BY DEF TypeOK, FollowInv, GenuineInv, Genuine, Blobs
<1>5. \A p \in Operators : Genuine(compiled[p])'
  BY <1>1, <1>4 DEF Genuine
<1>6. \A u \in Minutes : Genuine(blobs[u])'
  BY <1>1, <1>4 DEF Genuine, files
<1>7. \A p \in Operators : pc'[p] = "query" => version' > 0
  BY <1>1
<1>8. \A p \in Operators : pc'[p] \in {"name", "upload"} => compiled'[p].version > 0
  BY <1>2, <1>3 DEF FollowInv, GenuineInv
<1>9. changedAt' <= failures'
  BY <1>1, <1>2
<1>10. \A u \in Minutes : blobs'[u].version = 0 => blobs'[u] = NoBlob
  BY DEF FollowInv, GenuineInv, files
<1>11. HasTop'
  BY DEF FollowInv, HasTop, Topmost, files
<1>12. Covered'
  <2>1. CASE pc'[o] = "query"
    BY <2>1 DEF Covered, Latest
  <2>2. CASE failures' = failures + 1
    <3>1. failures' # changedAt'
      BY <1>1, <2>2
    <3>2. QED BY <3>1 DEF Covered
  <2>3. QED BY <1>2, <2>1, <2>2
<1>13. GenuineInv'
  BY <1>5, <1>6, <1>7, <1>8, <1>9, <1>10 DEF GenuineInv
<1>14. QED BY <1>11, <1>12, <1>13 DEF FollowInv

\* a step that is none of a write, a query and an upload: it fails, or the operator
\* has what it had
LEMMA FollowQuiet ==
    ASSUME TypeOK, FollowInv, UNCHANGED <<rows, files, compiled>>,
           failures' \in {failures, failures + 1},
           \A p \in Operators :
             \/ pc'[p] = pc[p]
             \/ pc[p] = "name" /\ pc'[p] = "upload"
             \/ /\ pc'[p] \notin {"query", "name", "upload"}
                /\ pc[p] \in {"query", "name", "upload"} => failures' = failures + 1
    PROVE  FollowInv'
<1>1. /\ failures \in Nat /\ changedAt \in Nat /\ changedAt <= failures
      /\ UNCHANGED <<table, version, changedAt, blobs, overtaken, compiled>>
  BY DEF TypeOK, FollowInv, GenuineInv, rows, files
<1>2. /\ \A p \in Operators : Genuine(compiled[p])'
      /\ \A u \in Minutes : Genuine(blobs[u])' /\ (blobs'[u].version = 0 => blobs'[u] = NoBlob)
  <2>1. ASSUME NEW b, Genuine(b) PROVE b.version <= version' /\ (b.version = version' /\ version' > 0 => b.rules \in Compilations(table'))
    BY <1>1, <2>1 DEF Genuine
  <2>2. QED BY <1>1, <2>1 DEF FollowInv, GenuineInv, Genuine
<1>3. /\ \A p \in Operators : pc'[p] = "query" => version' > 0
      /\ \A p \in Operators : pc'[p] \in {"name", "upload"} => compiled'[p].version > 0
  BY <1>1 DEF FollowInv, GenuineInv
<1>4. changedAt' <= failures'
  BY <1>1
<1>5. GenuineInv'
  BY <1>2, <1>3, <1>4 DEF GenuineInv
<1>6. HasTop'
  BY <1>1 DEF FollowInv, HasTop, Topmost
<1>7. Covered'
  <2>1. CASE failures' = failures + 1
    <3>1. failures' # changedAt'
      BY <1>1, <2>1
    <3>2. QED BY <3>1 DEF Covered
  <2>2. CASE failures' = failures
    <3>0. failures' # failures + 1
      BY <1>1, <2>2
    <3>1. \A p \in Operators : Latest(p) => Latest(p)'
      BY <1>1, <3>0 DEF Latest
    <3>2. \A u \in Minutes : Topmost(u) => Topmost(u)'
      BY <1>1 DEF Topmost
    <3>3. QED BY <1>1, <2>2, <3>1, <3>2 DEF FollowInv, Covered
  <2>3. QED BY <2>1, <2>2
<1>8. QED BY <1>5, <1>6, <1>7 DEF FollowInv

LEMMA FollowQuery == ASSUME TypeOK, FollowInv, NEW o \in Operators, Query(o) PROVE FollowInv'
<1>1. /\ UNCHANGED <<rows, files>>
      /\ \A p \in Operators \ {o} : Kept(p) /\ pc'[p] = pc[p]
  BY OthersKept DEF Query, Step, Publish, Kept
<1>2. CASE Throws(o, "read") /\ UNCHANGED compiled
  <2>1. failures' = failures + 1 /\ pc'[o] = "failed"
    BY <1>2 DEF TypeOK, Throws, Fails, Goto
  <2>2. QED BY <1>1, <1>2, <2>1, FollowQuiet
<1>3. CASE Compiles(o, table) /\ NoFailure /\ Goto(o, "name")
  <2>1. PICK s \in Compilations(table) :
          compiled' = [compiled EXCEPT ![o] = [rules |-> s, version |-> version]]
    BY <1>3 DEF Compiles
  <2>2. /\ compiled'[o].rules = s /\ compiled'[o].version = version
        /\ \A p \in Operators \ {o} : compiled'[p] = compiled[p]
    BY <2>1 DEF TypeOK
  <2>3. /\ UNCHANGED <<table, version, changedAt, failures, blobs, overtaken>>
        /\ version \in Nat /\ version > 0 /\ pc'[o] = "name"
    BY <1>1, <1>3 DEF TypeOK, FollowInv, GenuineInv, Query, NoFailure, Goto, rows, files
  <2>4. \A p \in Operators : Genuine(compiled[p])'
    <3>1. Genuine(compiled[o])'
      BY <2>2, <2>3 DEF Genuine
    <3>2. ASSUME NEW p \in Operators \ {o} PROVE Genuine(compiled[p])'
      BY <2>2, <2>3 DEF FollowInv, GenuineInv, Genuine
    <3>3. QED BY <3>1, <3>2
  <2>5. \A u \in Minutes : Genuine(blobs[u])' /\ (blobs'[u].version = 0 => blobs'[u] = NoBlob)
    BY <2>3 DEF FollowInv, GenuineInv, Genuine
  <2>6. \A p \in Operators : pc'[p] \in {"name", "upload"} => compiled'[p].version > 0
    BY <1>1, <2>2, <2>3 DEF FollowInv, GenuineInv
  <2>7. GenuineInv'
    BY <2>3, <2>4, <2>5, <2>6 DEF FollowInv, GenuineInv
  <2>8. HasTop'
    BY <2>3 DEF FollowInv, HasTop, Topmost
  <2>9. Covered'
    BY <2>2, <2>3 DEF Covered, Latest
  <2>10. QED BY <2>7, <2>8, <2>9 DEF FollowInv
<1>4. QED BY <1>2, <1>3 DEF Query

\* an upload that neither overtakes nor is overtaken has the top, or leaves it
LEMMA FollowPut ==
    ASSUME TypeOK, FollowInv, NEW o \in Operators, pc[o] = "upload", PutBlob(o)
    PROVE  /\ HasTop'
           /\ ~overtaken' /\ compiled[o].version = version
                => \E t \in Minutes : Topmost(t)' /\ blobs'[t].version = version
           /\ ~overtaken' /\ compiled[o].version # version
                => \A t \in Minutes : Topmost(t) /\ blobs[t].version = version
                     => Topmost(t)' /\ blobs'[t].version = version
<1>0. PICK here \in Minutes : here = BlobPath(o)
  BY BlobPathType
<1>1. here \in Minutes /\ Minutes \subseteq Int
  BY DEF Minutes
<1>2. /\ blobs'[here] = compiled[o]
      /\ \A t \in Minutes \ {here} : blobs'[t] = blobs[t]
  BY <1>0 DEF TypeOK, PutBlob
<1>3. /\ compiled[o] # NoBlob
      /\ compiled[o].version \in Nat /\ version \in Nat /\ compiled[o].version <= version
      /\ \A t \in Minutes : blobs[t].version \in Nat /\ blobs[t].version <= version
  BY DEF TypeOK, FollowInv, GenuineInv, Genuine, NoBlob, Blobs
<1>4. ~overtaken' =>
        /\ \A t \in Minutes : t <= here => ~(blobs[t].version > compiled[o].version)
        /\ \A t \in Minutes : t > here /\ blobs[t] # NoBlob => ~(blobs[t].version < compiled[o].version)
  BY <1>0 DEF PutBlob, OutOfOrder
<1>5. ASSUME NEW t \in Minutes, Topmost(t), t > here
      PROVE  Topmost(t)' /\ blobs'[t] = blobs[t]
  BY <1>1, <1>2, <1>5 DEF Topmost
<1>6. ASSUME \A t \in Minutes : t > here => blobs[t] = NoBlob
      PROVE  Topmost(here)'
  BY <1>1, <1>2, <1>3, <1>6 DEF Topmost
<1>7. \/ \E t \in Minutes : Topmost(t) /\ t > here
      \/ \A t \in Minutes : t > here => blobs[t] = NoBlob
  <2>1. ASSUME NEW t \in Minutes, Topmost(t), ~(t > here)
        PROVE  \A u \in Minutes : u > here => blobs[u] = NoBlob
    BY <1>1, <2>1 DEF Topmost
  <2>2. QED BY <2>1 DEF FollowInv, HasTop
<1>8. HasTop'
  BY <1>1, <1>5, <1>6, <1>7 DEF HasTop
<1>9. ASSUME ~overtaken', compiled[o].version = version
      PROVE  \E t \in Minutes : Topmost(t)' /\ blobs'[t].version = version
  <2>1. ASSUME NEW t \in Minutes, Topmost(t), t > here
        PROVE  Topmost(t)' /\ blobs'[t].version = version
    <3>1. Topmost(t)' /\ blobs'[t] = blobs[t] /\ blobs[t] # NoBlob
      BY <1>5, <2>1 DEF Topmost
    <3>2. ~(blobs[t].version < version)
      BY <1>4, <1>9, <2>1, <3>1
    <3>3. QED BY <1>3, <3>1, <3>2
  <2>2. ASSUME \A t \in Minutes : t > here => blobs[t] = NoBlob
        PROVE  Topmost(here)' /\ blobs'[here].version = version
    BY <1>2, <1>6, <1>9, <2>2
  <2>3. QED BY <1>1, <1>7, <2>1, <2>2
<1>10. ASSUME ~overtaken', compiled[o].version # version,
              NEW t \in Minutes, Topmost(t), blobs[t].version = version
       PROVE  Topmost(t)' /\ blobs'[t].version = version
  <2>1. blobs[t].version > compiled[o].version
    BY <1>3, <1>10
  <2>2. t > here
    BY <1>1, <1>4, <1>10, <2>1
  <2>3. QED BY <1>5, <1>10, <2>2
<1>11. QED BY <1>8, <1>9, <1>10

LEMMA FollowUpload == ASSUME TypeOK, FollowInv, NEW o \in Operators, Upload(o) PROVE FollowInv'
<1>1. /\ UNCHANGED <<table, version, changedAt>>
      /\ \A p \in Operators \ {o} : pc'[p] = pc[p]
      /\ compiled'[o] = NoBlob
      /\ \A p \in Operators \ {o} : compiled'[p] = compiled[p]
      /\ pc[o] = "upload"
  BY OthersKept DEF TypeOK, Upload, Step, Publish, Kept, rows
<1>2. pc'[o] \notin {"query", "name", "upload"}
  BY DEF TypeOK, Upload, Throws, Goto, Onward
<1>3. failures \in Nat /\ changedAt \in Nat /\ changedAt <= failures /\ version \in Nat
  BY DEF TypeOK, FollowInv, GenuineInv
<1>4. \/ failures' = failures /\ PutBlob(o)
      \/ failures' = failures + 1 /\ (PutBlob(o) \/ UNCHANGED files)
  BY DEF Upload, NoFailure, Throws, Fails
<1>5. ASSUME NEW b, Genuine(b)
      PROVE  b.version <= version' /\ (b.version = version' /\ version' > 0 => b.rules \in Compilations(table'))
  BY <1>1, <1>5 DEF Genuine
<1>6. \A p \in Operators : Genuine(compiled[p])'
  <2>1. Genuine(NoBlob)
    BY <1>3 DEF Genuine, NoBlob
  <2>2. QED BY <1>1, <1>5, <2>1 DEF FollowInv, GenuineInv, Genuine
<1>7. \A u \in Minutes : Genuine(blobs[u])' /\ (blobs'[u].version = 0 => blobs'[u] = NoBlob)
  <2>1. ASSUME NEW u \in Minutes PROVE blobs'[u] \in {blobs[u], compiled[o]}
    BY <1>4 DEF TypeOK, PutBlob, files
  <2>2. Genuine(compiled[o]) /\ compiled[o].version > 0
    BY <1>1 DEF FollowInv, GenuineInv
  <2>3. ASSUME NEW u \in Minutes PROVE Genuine(blobs[u]) /\ (blobs[u].version = 0 => blobs[u] = NoBlob)
    BY DEF FollowInv, GenuineInv
  <2>4. ASSUME NEW u \in Minutes PROVE Genuine(blobs'[u])
    BY <2>1, <2>2, <2>3
  <2>5. ASSUME NEW u \in Minutes PROVE Genuine(blobs[u])'
    BY <1>5, <2>4 DEF Genuine
  <2>6. ASSUME NEW u \in Minutes PROVE blobs'[u].version = 0 => blobs'[u] = NoBlob
    BY <2>1, <2>2, <2>3
  <2>7. QED BY <2>5, <2>6
<1>8. /\ \A p \in Operators : pc'[p] = "query" => version' > 0
      /\ \A p \in Operators : pc'[p] \in {"name", "upload"} => compiled'[p].version > 0
      /\ changedAt' <= failures'
  BY <1>1, <1>2, <1>3, <1>4 DEF FollowInv, GenuineInv
<1>9. GenuineInv'
  BY <1>6, <1>7, <1>8 DEF GenuineInv
<1>10. HasTop'
  <2>1. CASE PutBlob(o)
    BY <1>1, <2>1, FollowPut
  <2>2. CASE UNCHANGED files
    BY <2>2 DEF FollowInv, HasTop, Topmost, files
  <2>3. QED BY <1>4, <2>1, <2>2
<1>11. Covered'
  <2>1. CASE failures' = failures + 1
    <3>1. failures' # changedAt'
      BY <1>1, <1>3, <2>1
    <3>2. QED BY <3>1 DEF Covered
  <2>2. CASE failures' = failures /\ PutBlob(o)
    <3>1. SUFFICES ASSUME failures' = changedAt', ~overtaken', version' > 0
                   PROVE  \/ \E p \in Operators : Latest(p)'
                          \/ \E t \in Minutes : Topmost(t)' /\ blobs'[t].version = version'
      BY DEF Covered
    <3>2. failures = changedAt /\ version > 0 /\ version' = version
      BY <1>1, <2>2, <3>1
    <3>3. ~overtaken
      BY <2>2, <3>1 DEF PutBlob
    <3>4. CASE compiled[o].version = version
      BY <1>1, <2>2, <3>1, <3>2, <3>4, FollowPut
    <3>5. CASE compiled[o].version # version
      <4>1. ~Latest(o)
        BY <1>1, <3>5 DEF Latest
      <4>2. \A p \in Operators : Latest(p) => Latest(p)'
        BY <1>1, <4>1 DEF Latest
      <4>3. \A t \in Minutes : Topmost(t) /\ blobs[t].version = version
                                 => Topmost(t)' /\ blobs'[t].version = version
        BY <1>1, <2>2, <3>1, <3>5, FollowPut
      <4>4. \/ \E p \in Operators : Latest(p)
            \/ \E t \in Minutes : Topmost(t) /\ blobs[t].version = version
        BY <3>2, <3>3 DEF FollowInv, Covered
      <4>5. QED BY <3>2, <4>2, <4>3, <4>4
    <3>6. QED BY <3>4, <3>5
  <2>3. QED BY <1>4, <2>1, <2>2
<1>12. QED BY <1>9, <1>10, <1>11 DEF FollowInv

LEMMA FollowTableWrite ==
    ASSUME TypeOK, FollowInv, NEW o \in Operators, pc[o] \notin {"query", "name", "upload"},
           NEW allowed, NEW t \in [Ids -> Rows \union {NoRow}], TableWrite(o, allowed, t),
           UNCHANGED <<files, compiled>>
    PROVE  FollowInv'
<1>1. CASE Store(t)
  BY <1>1, FollowStore
<1>2. CASE ~Store(t)
  <2>1. UNCHANGED rows /\ (NoFailure \/ Fails("write")) /\ Goto(o, "caught")
    BY <1>2 DEF TableWrite
  <2>2. /\ failures' \in {failures, failures + 1} /\ pc'[o] = "caught"
        /\ \A p \in Operators \ {o} : pc'[p] = pc[p]
    BY <2>1 DEF TypeOK, NoFailure, Fails, Goto
  <2>3. QED BY <2>1, <2>2, FollowQuiet
<1>3. QED BY <1>1, <1>2

LEMMA FollowWrite ==
    ASSUME TypeOK, FollowInv, NEW o \in Operators, Insert(o) \/ Replace(o) \/ Delete(o)
    PROVE  FollowInv'
<1>1. UNCHANGED <<files, compiled>> /\ pc[o] \notin {"query", "name", "upload"}
  BY DEF Insert, Replace, Delete, locals
<1>2. Insert(o) \/ Replace(o) => WithRow(rule[o]) \in [Ids -> Rows \union {NoRow}]
  BY SavedRowType DEF TypeOK, Insert, Replace, Saving
<1>3. CASE Insert(o)
  <2>1. TableWrite(o, rule[o].id \notin Present, WithRow(rule[o]))
    BY <1>3 DEF Insert
  <2>2. QED BY <1>1, <1>2, <1>3, <2>1, FollowTableWrite
<1>4. CASE Replace(o)
  <2>1. TableWrite(o, rule[o].id \in Present /\ table[rule[o].id].etag = rule[o].etag, WithRow(rule[o]))
    BY <1>4 DEF Replace
  <2>2. QED BY <1>1, <1>2, <1>4, <2>1, FollowTableWrite
<1>5. CASE Delete(o)
  <2>1. PICK r \in todo[o] : TableWrite(o, r.id \in Present /\ table[r.id].etag = r.etag,
                                           [table EXCEPT ![r.id] = NoRow])
    BY <1>5 DEF Delete
  <2>2. [table EXCEPT ![r.id] = NoRow] \in [Ids -> Rows \union {NoRow}]
    BY DEF TypeOK
  <2>3. QED BY <1>1, <2>1, <2>2, FollowTableWrite
<1>6. QED BY <1>3, <1>4, <1>5

\* the calls that touch neither the table nor the blobs
LEMMA FollowOther ==
    ASSUME TypeOK, FollowInv, NEW o \in Operators, Step(o),
           ~Insert(o), ~Replace(o), ~Delete(o), ~Query(o), ~Upload(o)
    PROVE  FollowInv'
<1>1. UNCHANGED <<rows, files, compiled>>
  BY DEF Step, Save, Remove, Publish, OpenForm, Resubmit, SaveCheck, Lookup, ToggleGet, DeleteGet, RemoveAllGet,
         GetFails, Caught, Name, Crash, locals
<1>2. failures' \in {failures, failures + 1}
  BY DEF Step, Save, Remove, Publish, OpenForm, Resubmit, SaveCheck, Lookup, ToggleGet, DeleteGet, RemoveAllGet,
         GetFails, Caught, Name, Crash, Throws, Fails, NoFailure
<1>3. \A p \in Operators \ {o} : pc'[p] = pc[p]
  BY OthersKept DEF Kept
<1>4. ASSUME NEW label, Goto(o, label) PROVE pc'[o] = label
  BY <1>4 DEF TypeOK, Goto
<1>5. CASE Name(o)
  BY <1>1, <1>2, <1>3, <1>4, <1>5, FollowQuiet DEF Name
<1>6. CASE Crash(o)
  <2>1. failures' = failures + 1 /\ pc'[o] = "failed"
    BY <1>4, <1>6 DEF Crash, Throws, Fails
  <2>2. QED BY <1>1, <1>2, <1>3, <2>1, FollowQuiet
<1>7. ASSUME ~Name(o), ~Crash(o)
      PROVE  pc[o] \notin {"query", "name", "upload"} /\ pc'[o] \notin {"query", "name", "upload"}
  <2>1. CASE OpenForm(o) \/ Resubmit(o) \/ ToggleGet(o) \/ DeleteGet(o) \/ RemoveAllGet(o) \/ GetFails(o)
    <3>1. pc[o] \in AtRest
      BY <2>1 DEF OpenForm, Resubmit, ToggleGet, DeleteGet, RemoveAllGet, GetFails, Begin
    <3>2. pc'[o] \notin {"query", "name", "upload"}
      BY <1>4, <2>1 DEF OpenForm, Resubmit, ToggleGet, DeleteGet, RemoveAllGet, GetFails, Throws
    <3>3. QED BY <3>1, <3>2 DEF AtRest
  <2>2. CASE SaveCheck(o) \/ Lookup(o) \/ Caught(o)
    BY <1>4, <2>2 DEF SaveCheck, Lookup, Caught, Throws, Onward
  <2>3. QED BY <1>7, <2>1, <2>2 DEF Step, Save, Remove, Publish
<1>8. QED BY <1>1, <1>2, <1>3, <1>5, <1>6, <1>7, FollowQuiet

LEMMA FollowNext == TypeOK /\ FollowInv /\ [Next]_vars => FollowInv'
<1> SUFFICES ASSUME TypeOK, FollowInv, [Next]_vars PROVE FollowInv'
  OBVIOUS
<1>1. CASE UNCHANGED vars
  BY <1>1, FollowQuiet DEF vars, locals
<1>2. CASE Tick
  BY <1>2, FollowQuiet DEF Tick, locals
<1>3. ASSUME NEW o \in Operators, Step(o) PROVE FollowInv'
  BY <1>3, FollowWrite, FollowQuery, FollowUpload, FollowOther
<1>4. QED BY <1>1, <1>2, <1>3 DEF Next

(* When nothing is under way, no call failed since the last change and no     *)
(* upload overtook another, what the job will use last is what the table has.  *)
THEOREM BlobFollowsTableAlways == Spec => []BlobFollowsTable
<1>1. FollowInv => BlobFollowsTable
  <2> SUFFICES ASSUME FollowInv, \A o \in Operators : pc[o] \in AtRest,
                      version > 0, failures = changedAt, ~overtaken
               PROVE  \E t \in Minutes : /\ blobs[t] # NoBlob
                                         /\ blobs[t].rules \in Compilations(table)
                                         /\ \A u \in Minutes : u > t => blobs[u] = NoBlob
    BY DEF BlobFollowsTable
  <2>1. \A o \in Operators : ~Latest(o)
    BY DEF Latest, AtRest
  <2>2. PICK t \in Minutes : Topmost(t) /\ blobs[t].version = version
    BY <2>1 DEF FollowInv, Covered
  <2>3. blobs[t].rules \in Compilations(table)
    BY <2>2 DEF FollowInv, GenuineInv, Genuine
  <2>4. QED BY <2>2, <2>3 DEF Topmost
<1>2. QED BY <1>1, FollowInit, FollowNext, TypeInit, TypeNext, PTL DEF Spec

=============================================================================
