------------------------------ MODULE DeviceRules ------------------------------
(***************************************************************************)
(* The rules of a device: the table that holds them and the blobs from     *)
(* which the stream job takes them.                                        *)
(*                                                                         *)
(* DeviceRulesLogic saves, enables, disables and deletes rules, one or all. *)
(* After each write of the table DeviceRulesRepository reads all rows,      *)
(* compiles the enabled ones and uploads them to a path two minutes ahead;  *)
(* at every minute the job turns to the blob at that minute's path, if      *)
(* there is one.  Operators work at the same time, their calls interleave.  *)
(*                                                                         *)
(* One device: rules of different devices have different rows.             *)
(***************************************************************************)
EXTENDS Integers, FiniteSets

CONSTANTS
    Operators,  \* requests and web jobs that change rules
    Ids,        \* rule ids; each new rule has an id of its own
    Fields,     \* the data fields a rule can be about
    Values,     \* thresholds and outputs
    NoValue,    \* no enabled rule about a field
    NoRow,      \* no row under an id
    NoRule,     \* an operator that has no rule in hand
    Faults,     \* the failures that may occur
    Horizon,    \* bound: the last minute
    MaxFaults,  \* bound: failures in a behaviour
    MaxOps      \* bound: operations in a behaviour

\* read: a read of the table throws; write: it refuses a write; lost: the write
\* is done, then the caller gets an error; upload, uploaded: the same of the
\* blob; process: the operator stops between two calls
AllFaults == {"read", "write", "lost", "upload", "uploaded", "process"}

ASSUME RulesAssumption ==
    /\ Faults \subseteq AllFaults
    /\ Horizon \in Nat /\ MaxFaults \in Nat /\ MaxOps \in Nat
    /\ NoValue \notin Values

blobSaveMinutesInTheFuture == 2
Minutes == 0 .. Horizon + blobSaveMinutesInTheFuture

VARIABLES
    table,     \* the rows, by rule id
    version,   \* the table's last ETag, a counter
    used,      \* the ids given out
    blobs,     \* what was uploaded, by the minute in the path
    now,       \* the minute
    inUse,     \* the rules the job uses
    pc, kind,  \* per operator: the next call, the operation
    rule,      \* per operator: the rule it saves
    todo,      \* per operator: rules it has yet to delete
    clean,     \* per operator: RemoveAllRulesForDeviceAsync's result
    compiled,  \* per operator: the rules it will upload and their version
    named,     \* per operator: the minute in which it named the blob
    since,     \* history variable, per operator: the version it decided upon
    ops,       \* operations begun
    failures,  \* failures so far
    held,      \* history variable: the rule sets the table has held
    raced,     \* history variable: a rule was saved upon an outdated read
    overtaken, \* history variable: uploads came in another order than their reads
    changedAt  \* history variable: the failures before the table's last change

rows   == <<table, version, held, changedAt>>
files  == <<blobs, overtaken>>
job    == <<now, inUse>>
locals == <<rule, todo, clean, compiled, named, since>>
vars   == <<rows, raced, used, files, job, pc, kind, locals, ops, failures>>

-----------------------------------------------------------------------------

Etags == Nat
Rules == [id: Ids, field: Fields, value: Values, enabled: BOOLEAN, etag: Etags]
Rows  == [field: Fields, value: Values, enabled: BOOLEAN, etag: Etags]
NoEtag == 0     \* a rule that was never read from the table

\* per field what the job compares with
RuleSets == [Fields -> Values \union {NoValue}]
NoRules  == [f \in Fields |-> NoValue]

Blobs  == [rules: RuleSets, version: Nat]
NoBlob == [rules |-> NoRules, version |-> 0]

Kinds  == {"none", "save", "toggle", "delete", "removeAll"}
AtRest == {"idle", "ok", "refused", "failed"}
Saving == {"check", "lookup", "insert", "replace"}
Calls  == Saving \union {"delete", "caught", "query", "name", "upload"}

TypeOK ==
    /\ table \in [Ids -> Rows \union {NoRow}]
    /\ version \in Nat
    /\ used \subseteq Ids
    /\ blobs \in [Minutes -> Blobs]
    /\ now \in 0 .. Horizon
    /\ inUse \in RuleSets
    /\ pc \in [Operators -> AtRest \union Calls]
    /\ kind \in [Operators -> Kinds]
    /\ rule \in [Operators -> Rules \union {NoRule}]
    /\ \A o \in Operators : kind[o] = "save" => rule[o] \in Rules
    /\ \A o \in Operators : pc[o] \in Saving => kind[o] \in {"save", "toggle"} /\ rule[o] \in Rules
    /\ todo \in [Operators -> SUBSET Rules]
    /\ \A o \in Operators : pc[o] = "delete" => todo[o] # {}
    /\ clean \in [Operators -> BOOLEAN]
    /\ compiled \in [Operators -> Blobs]
    /\ named \in [Operators -> 0 .. Horizon]
    /\ since \in [Operators -> Nat]
    /\ ops \in 0 .. MaxOps
    /\ failures \in 0 .. MaxFaults
    /\ held \subseteq RuleSets
    /\ raced \in BOOLEAN /\ overtaken \in BOOLEAN
    /\ changedAt \in 0 .. MaxFaults

Init ==
    /\ table = [i \in Ids |-> NoRow]
    /\ version = 0
    /\ used = {}
    /\ blobs = [t \in Minutes |-> NoBlob]
    /\ now = 0
    /\ inUse = NoRules
    /\ pc = [o \in Operators |-> "idle"]
    /\ kind = [o \in Operators |-> "none"]
    /\ rule = [o \in Operators |-> NoRule]
    /\ todo = [o \in Operators |-> {}]
    /\ clean = [o \in Operators |-> TRUE]
    /\ compiled = [o \in Operators |-> NoBlob]
    /\ named = [o \in Operators |-> 0]
    /\ since = [o \in Operators |-> 0]
    /\ ops = 0
    /\ failures = 0
    /\ held = {NoRules}
    /\ raced = FALSE
    /\ overtaken = FALSE
    /\ changedAt = 0

Goto(o, label) == pc' = [pc EXCEPT ![o] = label]
Fails(fault)   == /\ fault \in Faults
                  /\ failures < MaxFaults
                  /\ failures' = failures + 1
NoFailure      == UNCHANGED failures
Throws(o, fault) == Fails(fault) /\ Goto(o, "failed")

Begin(o, k) ==
    /\ pc[o] \in AtRest
    /\ ops < MaxOps
    /\ ops' = ops + 1
    /\ kind' = [kind EXCEPT ![o] = k]

-----------------------------------------------------------------------------
(* The rows and what is compiled from them *)

Present == {i \in Ids : table[i] # NoRow}
AsRule(i) == [id |-> i, field |-> table[i].field, value |-> table[i].value,
              enabled |-> table[i].enabled, etag |-> table[i].etag]

EnabledValues(t, f) ==
    {t[i].value : i \in {j \in Ids : t[j] # NoRow /\ t[j].field = f /\ t[j].enabled}}

\* BuildBlobEntityListFromTableRows: of several rules about a field the one read
\* last stays, in the order of their ids
Compilations(t) ==
    {s \in RuleSets : \A f \in Fields :
        IF EnabledValues(t, f) = {} THEN s[f] = NoValue ELSE s[f] \in EnabledValues(t, f)}

Store(t) ==
    /\ table' = t
    /\ version' = version + 1
    /\ held' = held \union Compilations(t)
    /\ changedAt' = failures

\* mutant: a deletion does not bring the blob up to date
StoredSaves(o) == Goto(o, IF pc[o] = "delete" THEN "ok" ELSE "query")

Stored(o) == Goto(o, "query")

\* PerformTableOperation
TableWrite(o, allowed, t) ==
    \/ allowed /\ Store(t) /\ NoFailure /\ Stored(o)
    \/ allowed /\ Store(t) /\ Fails("lost") /\ Goto(o, "caught")
    \/ ~allowed /\ UNCHANGED rows /\ NoFailure /\ Goto(o, "caught")
    \/ UNCHANGED rows /\ Fails("write") /\ Goto(o, "caught")

\* mutant: goes on although nothing is left
Again(o) == "delete"

\* the next rule of RemoveAllRulesForDeviceAsync, or the end
Onward(o) == IF todo[o] = {} THEN "ok" ELSE "delete"

\* mutant: a rule that could not be deleted is forgotten
CaughtForgets(o) ==
    /\ pc[o] = "caught"
    /\ \/ /\ NoFailure
          /\ Goto(o, IF kind[o] = "removeAll" THEN Onward(o) ELSE "refused")
       \/ Throws(o, "read")
    /\ UNCHANGED <<rows, raced, used, files, job, kind, locals, ops>>

\* the handler of PerformTableOperation reads the row; its answer is an error,
\* which RemoveAllRulesForDeviceAsync notes before it goes on
Caught(o) ==
    /\ pc[o] = "caught"
    /\ \/ /\ kind[o] # "removeAll"
          /\ NoFailure /\ Goto(o, "refused")
          /\ UNCHANGED clean
       \/ /\ kind[o] = "removeAll"
          /\ NoFailure /\ Goto(o, Onward(o))
          /\ clean' = [clean EXCEPT ![o] = FALSE]
       \/ Throws(o, "read") /\ UNCHANGED clean
    /\ UNCHANGED <<rows, raced, used, files, job, kind, rule, todo, compiled, named, since, ops>>

-----------------------------------------------------------------------------
(* SaveDeviceRuleAsync *)

HoldsRule(o, r) == rule' = [rule EXCEPT ![o] = r]

\* the form for a new rule, or for an existing one as it is now
OpenForm(o) ==
    /\ Begin(o, "save")
    /\ \E f \in Fields, v \in Values :
         \/ \E i \in Ids \ used :
              /\ HoldsRule(o, [id |-> i, field |-> f, value |-> v, enabled |-> TRUE, etag |-> NoEtag])
              /\ used' = used \union {i}
         \/ \E i \in Present :
              /\ HoldsRule(o, [AsRule(i) EXCEPT !.field = f, !.value = v])
              /\ UNCHANGED used
    /\ Goto(o, "check")
    /\ UNCHANGED <<rows, raced, files, job, todo, clean, compiled, named, since, failures>>

\* the form is still there: it is posted once more
Resubmit(o) ==
    /\ kind[o] = "save"
    /\ Begin(o, "save")
    /\ Goto(o, "check")
    /\ UNCHANGED <<rows, raced, used, files, job, locals, failures>>

\* mutant: only enabled rules are in the way
DuplicateEnabled(r) == \E i \in Present : table[i].enabled /\ table[i].field = r.field /\ i # r.id

Duplicate(r) == \E i \in Present : table[i].field = r.field /\ i # r.id

Decides(o) == since' = [since EXCEPT ![o] = version]

SaveCheck(o) ==
    /\ pc[o] = "check"
    /\ \/ /\ NoFailure /\ Decides(o)
          /\ Goto(o, IF Duplicate(rule[o]) THEN "refused" ELSE "lookup")
       \/ Throws(o, "read") /\ UNCHANGED since
    /\ UNCHANGED <<rows, raced, used, files, job, kind, rule, todo, clean, compiled, named, ops>>

\* UpdateDeviceRuleEnabledStateAsync: the rule as it is, with the wanted state
ToggleGet(o) ==
    /\ Begin(o, "toggle")
    /\ \E i \in Present, enabled \in BOOLEAN :
         HoldsRule(o, [AsRule(i) EXCEPT !.enabled = enabled])
    /\ Decides(o)
    /\ Goto(o, "lookup")
    /\ UNCHANGED <<rows, raced, used, files, job, todo, clean, compiled, named, failures>>

\* DoTableInsertOrReplaceAsync: whether there is a row to replace; a replacement
\* without an ETag is an ArgumentException
Lookup(o) ==
    /\ pc[o] = "lookup"
    /\ \/ /\ NoFailure
          /\ Goto(o, IF rule[o].id \notin Present THEN "insert"
                     ELSE IF rule[o].etag = NoEtag THEN "failed" ELSE "replace")
       \/ Throws(o, "read")
    /\ UNCHANGED <<rows, raced, used, files, job, kind, locals, ops>>

SavedRow(r) == [field |-> r.field, value |-> r.value, enabled |-> r.enabled, etag |-> version + 1]
WithRow(r)  == [table EXCEPT ![r.id] = SavedRow(r)]

Races(o) == raced' = (raced \/ (table' # table /\ since[o] # version))

Insert(o) ==
    /\ pc[o] = "insert"
    /\ TableWrite(o, rule[o].id \notin Present, WithRow(rule[o]))
    /\ Races(o)
    /\ UNCHANGED <<used, files, job, kind, locals, ops>>

\* mutant: InsertOrReplace, which checks nothing
ReplaceBlindly(o) ==
    /\ pc[o] = "replace"
    /\ TableWrite(o, TRUE, WithRow(rule[o]))
    /\ Races(o)
    /\ UNCHANGED <<used, files, job, kind, locals, ops>>

Replace(o) ==
    /\ pc[o] = "replace"
    /\ TableWrite(o, rule[o].id \in Present /\ table[rule[o].id].etag = rule[o].etag,
                  WithRow(rule[o]))
    /\ Races(o)
    /\ UNCHANGED <<used, files, job, kind, locals, ops>>

-----------------------------------------------------------------------------
(* DeleteDeviceRuleAsync and RemoveAllRulesForDeviceAsync *)

DeleteGet(o) ==
    /\ Begin(o, "delete")
    /\ \E i \in Present : todo' = [todo EXCEPT ![o] = {AsRule(i)}]
    /\ Decides(o)
    /\ Goto(o, "delete")
    /\ UNCHANGED <<rows, raced, used, files, job, rule, clean, compiled, named, failures>>

RemoveAllGet(o) ==
    /\ Begin(o, "removeAll")
    /\ todo' = [todo EXCEPT ![o] = {AsRule(i) : i \in Present}]
    /\ clean' = [clean EXCEPT ![o] = TRUE]
    /\ Decides(o)
    /\ Goto(o, IF Present = {} THEN "ok" ELSE "delete")
    /\ UNCHANGED <<rows, raced, used, files, job, rule, compiled, named, failures>>

Delete(o) ==
    /\ pc[o] = "delete"
    /\ \E r \in todo[o] :
         /\ todo' = [todo EXCEPT ![o] = @ \ {r}]
         /\ TableWrite(o, r.id \in Present /\ table[r.id].etag = r.etag,
                       [table EXCEPT ![r.id] = NoRow])
    /\ UNCHANGED <<raced, used, files, job, kind, rule, clean, compiled, named, since, ops>>

\* the first read of a toggle or a deletion throws, or finds nothing to change
GetFails(o) ==
    /\ \/ /\ \E k \in {"toggle", "delete"} : Begin(o, k)
          /\ Present # Ids /\ NoFailure /\ Goto(o, "refused")
       \/ /\ \E k \in {"toggle", "delete", "removeAll"} : Begin(o, k)
          /\ Throws(o, "read")
    /\ UNCHANGED <<rows, raced, used, files, job, locals>>

-----------------------------------------------------------------------------
(* The blob: BuildBlobEntityListFromTableRows and PersistRulesToBlobStorageAsync *)

Compiles(o, t) ==
    \E s \in Compilations(t) :
        compiled' = [compiled EXCEPT ![o] = [rules |-> s, version |-> version]]

\* mutant: the rules that are disabled count too
QueryAll(o) ==
    /\ pc[o] = "query"
    /\ Compiles(o, [i \in Ids |-> IF i \in Present THEN [table[i] EXCEPT !.enabled = TRUE] ELSE NoRow])
    /\ NoFailure /\ Goto(o, "name")
    /\ UNCHANGED <<rows, raced, used, files, job, kind, rule, todo, clean, named, since, ops>>

Query(o) ==
    /\ pc[o] = "query"
    /\ \/ Compiles(o, table) /\ NoFailure /\ Goto(o, "name")
       \/ Throws(o, "read") /\ UNCHANGED compiled
    /\ UNCHANGED <<rows, raced, used, files, job, kind, rule, todo, clean, named, since, ops>>

Name(o) ==
    /\ pc[o] = "name"
    /\ named' = [named EXCEPT ![o] = now]
    /\ Goto(o, "upload")
    /\ UNCHANGED <<rows, raced, used, files, job, kind, rule, todo, clean, compiled, since, ops, failures>>

\* mutant: one minute ahead
NextMinute(o) == named[o] + 1

BlobPath(o) == named[o] + blobSaveMinutesInTheFuture

\* an older compilation takes the place of a newer one, or a newer one comes
\* under an earlier path than an older
OutOfOrder(o) ==
    \E t \in Minutes :
        \/ t <= BlobPath(o) /\ blobs[t].version > compiled[o].version
        \/ t > BlobPath(o) /\ blobs[t] # NoBlob /\ blobs[t].version < compiled[o].version

PutBlob(o) ==
    /\ blobs' = [blobs EXCEPT ![BlobPath(o)] = compiled[o]]
    /\ overtaken' = (overtaken \/ OutOfOrder(o))

Upload(o) ==
    /\ pc[o] = "upload"
    /\ \/ PutBlob(o) /\ NoFailure /\ Goto(o, Onward(o))
       \/ PutBlob(o) /\ Throws(o, "uploaded")
       \/ Throws(o, "upload") /\ UNCHANGED files
    /\ compiled' = [compiled EXCEPT ![o] = NoBlob]
    /\ UNCHANGED <<rows, raced, used, job, kind, rule, todo, clean, named, since, ops>>

Crash(o) ==
    /\ pc[o] \in Calls
    /\ Throws(o, "process")
    /\ UNCHANGED <<rows, raced, used, files, job, kind, locals, ops>>

-----------------------------------------------------------------------------
(* The stream job *)

\* the next minute; an upload is over within a minute of the naming
Tick ==
    /\ now < Horizon
    /\ \A o \in Operators : pc[o] = "upload" => named[o] = now
    /\ now' = now + 1
    /\ inUse' = IF blobs[now'] = NoBlob THEN inUse ELSE blobs[now'].rules
    /\ UNCHANGED <<rows, raced, used, files, pc, kind, locals, ops, failures>>

Save(o)    == OpenForm(o) \/ Resubmit(o) \/ SaveCheck(o) \/ Lookup(o) \/ Insert(o) \/ Replace(o)
Remove(o)  == DeleteGet(o) \/ RemoveAllGet(o) \/ Delete(o)
Publish(o) == Query(o) \/ Name(o) \/ Upload(o)

Step(o)    == Save(o) \/ ToggleGet(o) \/ Remove(o) \/ GetFails(o) \/ Caught(o) \/ Publish(o) \/ Crash(o)

Next == Tick \/ \E o \in Operators : Step(o)

Spec == Init /\ [][Next]_vars

-----------------------------------------------------------------------------
(* Properties *)

(* Enabling or disabling a rule changes nothing else of it, whoever edits    *)
(* the rule between the read and the write (the comments on                  *)
(* DeviceRulesController.UpdateRuleEnabledState and UpdateDeviceRuleEnabled- *)
(* StateAsync).                                                              *)
ToggleKeepsRest ==
    [][\A o \in Operators : kind[o] = "toggle" /\ pc[o] \in Calls /\ pc'[o] # pc[o] =>
         \A i \in Present : table'[i] = NoRow
                           \/ /\ table'[i].field = table[i].field
                              /\ table'[i].value = table[i].value]_vars

(* A blob is not changed any more once its minute has come: "by the time ASA *)
(* reads it we will no longer be making any updates to that blob".           *)
ReadBlobsAreFinal == [][\A t \in 0 .. now : blobs'[t] = blobs[t]]_vars

(* When RemoveAllRulesForDeviceAsync returned true, no rule it found is left: *)
(* a rule the device still has was written after the removal looked.          *)
RemovalIsComplete ==
    \A o \in Operators : kind[o] = "removeAll" /\ pc[o] = "ok" /\ clean[o] =>
      \A i \in Present : table[i].etag > since[o]

(* When nothing is under way, no call failed since the table last changed    *)
(* and no upload overtook a newer one, the latest blob has the table's rules. *)
BlobFollowsTable ==
    (\A o \in Operators : pc[o] \in AtRest) /\ version > 0 /\ failures = changedAt /\ ~overtaken
      => \E t \in Minutes : /\ blobs[t] # NoBlob
                            /\ blobs[t].rules \in Compilations(table)
                            /\ \A u \in Minutes : u > t => blobs[u] = NoBlob

(* "Enforce single instance of a rule for a data field for a given device":  *)
(* unless a rule was saved upon a read of the table that was out of date, a   *)
(* data field has one rule.                                                   *)
OneRulePerField ==
    ~raced => \A i, j \in Present : table[i].field = table[j].field => i = j

(* The job always uses rules the table has held as a whole, never a mixture, *)
(* whatever the order of reads and uploads and whichever of them fail.       *)
Promise == INSTANCE RulesInUse WITH RuleSets <- RuleSets, NoRules <- NoRules,
                                   held <- held, inUse <- inUse
JobUsesRulesOfTable == Promise!Spec

=============================================================================
