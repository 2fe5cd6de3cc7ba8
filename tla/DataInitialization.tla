------------------------- MODULE DataInitialization -------------------------
(***************************************************************************)
(* The first start: the simulator's web job fills a fresh deployment with   *)
(* default devices, their rules and the mappings from rule outputs to       *)
(* actions, in this order. That mappings exist is the only sign that it has *)
(* been done. Azure may start the job again, or a second instance of it,    *)
(* and stop it anywhere; the names of the devices end in the millisecond in *)
(* which they were made, so that two starts seldom meet.                     *)
(*                                                                         *)
(* Meanwhile callers of the web API save mappings. All of them are one blob  *)
(* that is read, changed and written back. The ETag of the write comes from  *)
(* a blob reference that was never fetched, so it is null and the write is   *)
(* not conditional.                                                         *)
(***************************************************************************)
EXTENDS Integers, FiniteSets

CONSTANTS
    Jobs,        \* instances of the web job
    Callers,     \* requests of the web API that save a mapping
    Defaults,    \* how many default devices there are
    Suffixes,    \* the milliseconds that their names end in
    MaxStarts,   \* bound: starts of the web job
    MaxSaves,    \* bound: mappings saved by callers
    MaxFaults    \* bound: calls that fail

ASSUME InitializationAssumption ==
    /\ Defaults \in Nat \ {0}
    /\ MaxStarts \in Nat /\ MaxSaves \in Nat /\ MaxFaults \in Nat
    /\ Jobs \intersect Callers = {}

Writers == Jobs \union Callers
Devices == Suffixes \X (1..Defaults)

Output  == <<"AlarmTemp", "AlarmHumidity">>
Default == <<"Send Message", "Raise Alarm">>
Outputs == {"AlarmTemp", "AlarmHumidity"}
Actions == {"Send Message", "Raise Alarm"}
NoAction == "none"
Mappings == [Outputs -> Actions \union {NoAction}]
NoMappings == [o \in Outputs |-> NoAction]

VARIABLES
    mappings,    \* the blob
    identities,  \* default devices the hub has
    documents,   \* default devices the registry has
    rules,       \* per default device, the outputs it has a rule for
    pc,          \* the next call of a writer
    suffix,      \* per job: the millisecond it names its devices after
    at,          \* per job: the device it is at
    nth,         \* per job: the rule of that device, or the mapping, it is at
    mapping,     \* per writer: the mapping it saves
    seen,        \* per writer: the blob as it read it
    starts, saves, failures,
    since,       \* history, per writer: outputs others wrote since it looked
    refused,     \* history: rules whose save answered with an error status
    apiSaved,    \* history: a caller's mapping was written
    made         \* history: the suffixes whose devices and rules are done

stores  == <<mappings, identities, documents, rules>>
bounds  == <<starts, saves, failures>>
history == <<since, refused, apiSaved, made>>
vars    == <<stores, pc, suffix, at, nth, mapping, seen, bounds, history>>

JobLabels  == {"off", "waiting", "identity", "document", "rule", "recheck",
               "read", "upload", "done", "failed"}
CallerLabels == {"idle", "read", "upload"}

Mapping == [output : Outputs, action : Actions]
TheDefault(n) == [output |-> Output[n], action |-> Default[n]]

Init ==
    /\ mappings = NoMappings
    /\ identities = {} /\ documents = {}
    /\ rules = [d \in Devices |-> {}]
    /\ pc = [w \in Writers |-> IF w \in Jobs THEN "off" ELSE "idle"]
    /\ suffix \in [Jobs -> Suffixes]
    /\ at = [p \in Jobs |-> 1] /\ nth = [p \in Jobs |-> 1]
    /\ mapping = [w \in Writers |-> TheDefault(1)]
    /\ seen = [w \in Writers |-> NoMappings]
    /\ starts = 0 /\ saves = 0 /\ failures = 0
    /\ since = [w \in Writers |-> {}]
    /\ refused = {} /\ apiSaved = FALSE /\ made = {}

At(w, label)   == pc[w] = label
Goto(w, label) == pc' = [pc EXCEPT ![w] = label]
Fails == failures < MaxFaults /\ failures' = failures + 1

Empty == mappings = NoMappings

-----------------------------------------------------------------------------
(* The web job *)

\* Program.Main: a timer leaves the platform ten seconds for a shutdown
Start(p) ==
    /\ At(p, "off") /\ starts < MaxStarts
    /\ starts' = starts + 1
    /\ Goto(p, "waiting")
    /\ at' = [at EXCEPT ![p] = 1] /\ nth' = [nth EXCEPT ![p] = 1]
    /\ UNCHANGED <<stores, suffix, mapping, seen, saves, failures, history>>

\* the process ends, wherever it is
ShutDown(p) ==
    /\ pc[p] # "off"
    /\ Goto(p, "off")
    /\ UNCHANGED <<stores, suffix, at, nth, mapping, seen, bounds, history>>

\* CreateInitialDataIfNeeded logs what devices or rules throw and returns
Throw(p) == Goto(p, "failed")

\* IsInitializationNeededAsync, and the names of GetDefaultDeviceNames
Check(p) ==
    /\ At(p, "waiting")
    /\ \/ /\ Empty
          /\ suffix' \in {[suffix EXCEPT ![p] = x] : x \in Suffixes}
          /\ Goto(p, "identity")
          /\ UNCHANGED failures
       \/ ~Empty /\ Goto(p, "done") /\ UNCHANGED <<suffix, failures>>
       \/ Fails /\ Goto(p, "failed") /\ UNCHANGED suffix
    /\ UNCHANGED <<stores, at, nth, mapping, seen, starts, saves, history>>

Device(p) == <<suffix[p], at[p]>>

\* mutant: a failing device does not stop the loop
AddIdentityGoesOn(p) ==
    /\ At(p, "identity")
    /\ identities' = identities \union {Device(p)}
    /\ Goto(p, IF Device(p) \in identities THEN "rule" ELSE "document")
    /\ UNCHANGED <<mappings, documents, rules, suffix, at, nth, mapping, seen, bounds, history>>

\* BootstrapDefaultDevices, the hub's part: the identity must be new; when the
\* update of its twin fails it stays behind
AddIdentity(p) ==
    /\ At(p, "identity")
    /\ \/ /\ Device(p) \notin identities
          /\ identities' = identities \union {Device(p)}
          /\ Goto(p, "document")
          /\ UNCHANGED failures
       \/ /\ Device(p) \in identities
          /\ Throw(p)
          /\ UNCHANGED <<identities, failures>>
       \/ /\ Fails
          /\ Throw(p)
          /\ identities' \in {identities, identities \union {Device(p)}}
    /\ UNCHANGED <<mappings, documents, rules, suffix, at, nth, mapping, seen, starts, saves,
                   since, refused, apiSaved, made>>

\* TryRemoveDeviceAsync, which may fail in turn; n calls have failed by then
Undo(p, n) ==
    /\ Throw(p)
    /\ \/ identities' = identities \ {Device(p)} /\ failures' = n
       \/ n < MaxFaults /\ failures' = n + 1 /\ UNCHANGED identities

\* the registry's part: an exception takes the identity back
AddDocument(p) ==
    /\ At(p, "document")
    /\ \/ /\ Device(p) \notin documents
          /\ documents' = documents \union {Device(p)}
          /\ IF at[p] < Defaults
             THEN at' = [at EXCEPT ![p] = @ + 1] /\ Goto(p, "identity")
             ELSE at' = [at EXCEPT ![p] = 1] /\ Goto(p, "rule")
          /\ UNCHANGED <<identities, failures>>
       \/ /\ Device(p) \in documents
          /\ Undo(p, failures)
          /\ UNCHANGED <<documents, at>>
       \/ /\ failures < MaxFaults
          /\ documents' \in {documents, documents \union {Device(p)}}
          /\ Undo(p, failures + 1)
          /\ UNCHANGED at
    /\ UNCHANGED <<mappings, rules, suffix, nth, mapping, seen, starts, saves,
                   since, refused, apiSaved, made>>

\* the rule after this one, or the mappings, which nothing waits for
AfterRule(p) ==
    IF nth[p] < 2
    THEN nth' = [nth EXCEPT ![p] = 2] /\ UNCHANGED <<at, pc, made>>
    ELSE /\ nth' = [nth EXCEPT ![p] = 1]
         /\ IF at[p] < Defaults
            THEN at' = [at EXCEPT ![p] = @ + 1] /\ UNCHANGED <<pc, made>>
            ELSE /\ Goto(p, "recheck")
                 /\ made' = made \union {suffix[p]}
                 /\ UNCHANGED at

\* BootstrapDefaultRulesAsync, which ignores the status of a save; a device that
\* has a rule of that field keeps it
SaveRule(p) ==
    LET d == Device(p)  o == Output[nth[p]]
    IN  /\ At(p, "rule")
        /\ \/ /\ rules' = [rules EXCEPT ![d] = @ \union {o}]
              /\ AfterRule(p)
              /\ UNCHANGED <<failures, refused>>
           \/ /\ Fails
              /\ refused' = refused \union {<<d, o>>}
              /\ AfterRule(p)
              /\ UNCHANGED rules
           \/ /\ Fails
              /\ rules' \in {rules, [rules EXCEPT ![d] = @ \union {o}]}
              /\ Throw(p)
              /\ UNCHANGED <<at, nth, refused, made>>
        /\ UNCHANGED <<mappings, identities, documents, suffix, mapping, seen, starts, saves,
                       since, apiSaved>>

\* mutant: InitializeDataIfNecessaryAsync relies on the check made at the start
RecheckBlind(p) ==
    /\ At(p, "recheck")
    /\ since' = [since EXCEPT ![p] = {}]
    /\ mapping' = [mapping EXCEPT ![p] = TheDefault(1)]
    /\ Goto(p, "read")
    /\ UNCHANGED <<stores, suffix, at, nth, seen, bounds, refused, apiSaved, made>>

\* InitializeDataIfNecessaryAsync looks again
Recheck(p) ==
    /\ At(p, "recheck")
    /\ since' = [since EXCEPT ![p] = {}]
    /\ mapping' = [mapping EXCEPT ![p] = TheDefault(1)]
    /\ \/ Goto(p, IF Empty THEN "read" ELSE "done") /\ UNCHANGED failures
       \/ Fails /\ Goto(p, "failed")
    /\ UNCHANGED <<stores, suffix, at, nth, seen, starts, saves, refused, apiSaved, made>>

-----------------------------------------------------------------------------
(* Saving a mapping *)

\* UpdateAction
Request(c) ==
    /\ At(c, "idle") /\ saves < MaxSaves
    /\ saves' = saves + 1
    /\ mapping' \in {[mapping EXCEPT ![c] = m] : m \in Mapping}
    /\ Goto(c, "read")
    /\ UNCHANGED <<stores, suffix, at, nth, seen, starts, failures, history>>

Return(w) == Goto(w, IF w \in Jobs THEN "failed" ELSE "idle")

\* SaveMappingAsync reads the blob; its ETag it asks of a reference that has none
Read(w) ==
    /\ At(w, "read")
    /\ \/ /\ seen' = [seen EXCEPT ![w] = mappings]
          /\ since' = IF w \in Jobs THEN since ELSE [since EXCEPT ![w] = {}]
          /\ Goto(w, "upload")
          /\ UNCHANGED failures
       \/ Fails /\ Return(w) /\ UNCHANGED <<seen, since>>
    /\ UNCHANGED <<stores, suffix, at, nth, mapping, starts, saves, refused, apiSaved, made>>

\* mutant: one mapping too many
AfterUploadOnceMore(w) ==
    IF w \in Jobs /\ nth[w] <= 2
    THEN /\ nth' = [nth EXCEPT ![w] = @ + 1]
         /\ mapping' = [mapping EXCEPT ![w] = TheDefault(2)]
         /\ Goto(w, "read")
    ELSE /\ Goto(w, IF w \in Jobs THEN "done" ELSE "idle")
         /\ UNCHANGED <<nth, mapping>>

\* the job goes on with the second mapping
AfterUpload(w) ==
    IF w \in Jobs /\ nth[w] = 1
    THEN /\ nth' = [nth EXCEPT ![w] = 2]
         /\ mapping' = [mapping EXCEPT ![w] = TheDefault(2)]
         /\ Goto(w, "read")
    ELSE /\ Goto(w, IF w \in Jobs THEN "done" ELSE "idle")
         /\ UNCHANGED <<nth, mapping>>

Written(w) == [seen[w] EXCEPT ![mapping[w].output] = mapping[w].action]

\* and writes it back, whatever has become of the blob
Upload(w) ==
    /\ At(w, "upload")
    /\ \/ /\ mappings' = Written(w)
          /\ since' = [x \in Writers |-> IF x = w THEN since[x] ELSE
                          since[x] \union {o \in Outputs : mappings'[o] # mappings[o]}]
          /\ apiSaved' = (apiSaved \/ w \in Callers)
          /\ \/ AfterUpload(w) /\ UNCHANGED failures
             \/ Fails /\ Return(w) /\ UNCHANGED <<nth, mapping>>
       \/ Fails /\ Return(w) /\ UNCHANGED <<mappings, since, apiSaved, nth, mapping>>
    /\ UNCHANGED <<identities, documents, rules, suffix, at, seen, starts, saves,
                   refused, made>>

Save(w) == Read(w) \/ Upload(w)

-----------------------------------------------------------------------------
Job(p) ==
    \/ Start(p) \/ ShutDown(p) \/ Check(p)
    \/ AddIdentity(p) \/ AddDocument(p) \/ SaveRule(p) \/ Recheck(p)

Next ==
    \/ \E p \in Jobs : Job(p)
    \/ \E c \in Callers : Request(c)
    \/ \E w \in Writers : Save(w)

Spec == Init /\ [][Next]_vars

-----------------------------------------------------------------------------
(* Properties *)

TypeOK ==
    /\ mappings \in Mappings
    /\ identities \subseteq Devices /\ documents \subseteq Devices
    /\ rules \in [Devices -> SUBSET Outputs]
    /\ pc \in [Writers -> JobLabels \union CallerLabels]
    /\ suffix \in [Jobs -> Suffixes] /\ at \in [Jobs -> 1..Defaults] /\ nth \in [Jobs -> 1..2]
    /\ mapping \in [Writers -> Mapping] /\ seen \in [Writers -> Mappings]
    /\ starts \in 0..MaxStarts /\ saves \in 0..MaxSaves /\ failures \in 0..MaxFaults
    /\ since \in [Writers -> SUBSET Outputs]
    /\ refused \subseteq Devices \X Outputs
    /\ apiSaved \in BOOLEAN /\ made \subseteq Suffixes

\* the devices of one start are registered and have their rules, but for rules
\* whose save was refused by a status
Complete(x) ==
    \A n \in 1..Defaults : /\ <<x, n>> \in identities \intersect documents
                           /\ \A o \in Outputs : o \in rules[<<x, n>>] \/ <<<<x, n>>, o>> \in refused

(* The sign is true: when mappings exist that no caller saved, some start has *)
(* made all of its devices and rules, wherever jobs were stopped, whatever    *)
(* they met, and though a second one may be taking back devices it fails on.  *)
SignIsTrue == ~Empty /\ ~apiSaved => \E x \in Suffixes : Complete(x)

(* Nobody takes back a mapping that was there when he looked, but to set it   *)
(* himself: the job looks when it is done with the rules, a caller when it     *)
(* reads the blob. What others write later may be lost.                       *)
Uploads(w) == At(w, "upload") /\ pc'[w] # pc[w] /\ mappings' # mappings
SavedChoicesStand ==
    [][\A w \in Writers, o \in Outputs :
         (Uploads(w) /\ mappings[o] # NoAction /\ mappings'[o] # mappings[o]) =>
            o \in since[w] \/ (w \in Callers /\ o = mapping[w].output)]_vars

=============================================================================
