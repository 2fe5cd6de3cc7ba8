---------------------- MODULE DataInitializationProofs ----------------------
(***************************************************************************)
(* For any number of jobs, callers, default devices, starts and failures:   *)
(* the types, the sign that is true, and the choices that stand.            *)
(***************************************************************************)
EXTENDS DataInitialization, TLAPS

LEMMA OutputType == \A n \in 1..2 : Output[n] \in Outputs /\ TheDefault(n) \in Mapping
<1> SUFFICES ASSUME NEW n \in 1..2 PROVE Output[n] \in Outputs /\ TheDefault(n) \in Mapping
  OBVIOUS
<1>1. CASE n = 1
  BY <1>1 DEF Output, Default, TheDefault, Outputs, Actions, Mapping
<1>2. CASE n = 2
  BY <1>2 DEF Output, Default, TheDefault, Outputs, Actions, Mapping
<1> QED BY <1>1, <1>2

LEMMA DeviceType ==
    ASSUME TypeOK, NEW p \in Jobs
    PROVE  Device(p) \in Devices /\ Device(p) = <<suffix[p], at[p]>>
  BY DEF TypeOK, Device, Devices

LEMMA WrittenType ==
    ASSUME TypeOK, NEW w \in Writers
    PROVE  Written(w) \in Mappings
  BY DEF TypeOK, Written, Mappings, Mapping

-----------------------------------------------------------------------------
(* Types *)

LEMMA InitTypeOK == Init => TypeOK
<1> SUFFICES ASSUME Init PROVE TypeOK
  OBVIOUS
<1> USE InitializationAssumption
<1>1. TheDefault(1) \in Mapping
  BY OutputType
<1>2. /\ mappings \in Mappings
      /\ seen \in [Writers -> Mappings]
  BY DEF Init, Mappings, NoMappings
<1>3. pc \in [Writers -> JobLabels \union CallerLabels]
  BY DEF Init, JobLabels, CallerLabels
<1>4. at \in [Jobs -> 1..Defaults] /\ nth \in [Jobs -> 1..2] /\ suffix \in [Jobs -> Suffixes]
  BY DEF Init
<1>5. mapping \in [Writers -> Mapping]
  BY <1>1 DEF Init
<1>6. rules \in [Devices -> SUBSET Outputs] /\ since \in [Writers -> SUBSET Outputs]
  BY DEF Init
<1>7. starts \in 0..MaxStarts /\ saves \in 0..MaxSaves /\ failures \in 0..MaxFaults
  BY DEF Init
<1>8. /\ identities \subseteq Devices /\ documents \subseteq Devices
      /\ refused \subseteq Devices \X Outputs
      /\ apiSaved \in BOOLEAN /\ made \subseteq Suffixes
  BY DEF Init
<1> QED BY <1>2, <1>3, <1>4, <1>5, <1>6, <1>7, <1>8 DEF TypeOK

\* the labels a step may set
LEMMA GotoType ==
    ASSUME TypeOK, NEW w \in Writers, NEW l \in JobLabels \union CallerLabels, Goto(w, l)
    PROVE  pc' \in [Writers -> JobLabels \union CallerLabels]
  BY DEF TypeOK, Goto

LEMMA FailsType == ASSUME TypeOK, Fails PROVE failures' \in 0..MaxFaults
  BY InitializationAssumption DEF TypeOK, Fails

LEMMA StartType == ASSUME TypeOK, NEW p \in Jobs, Start(p) PROVE TypeOK'
<1> USE InitializationAssumption DEF Start, stores, history, Writers
<1>1. pc' \in [Writers -> JobLabels \union CallerLabels]
  BY GotoType DEF JobLabels
<1>2. at' \in [Jobs -> 1..Defaults] /\ nth' \in [Jobs -> 1..2]
  BY DEF TypeOK
<1>3. starts' \in 0..MaxStarts
  BY DEF TypeOK
<1> QED BY <1>1, <1>2, <1>3 DEF TypeOK

LEMMA ShutDownType == ASSUME TypeOK, NEW p \in Jobs, ShutDown(p) PROVE TypeOK'
<1>1. pc' \in [Writers -> JobLabels \union CallerLabels]
  BY GotoType DEF JobLabels, ShutDown, Writers
<1> QED BY <1>1 DEF TypeOK, ShutDown, stores, bounds, history

LEMMA CheckType == ASSUME TypeOK, NEW p \in Jobs, Check(p) PROVE TypeOK'
<1> USE DEF Check
<1>1. pc' \in [Writers -> JobLabels \union CallerLabels]
  BY GotoType DEF JobLabels, Writers
<1>2. suffix' \in [Jobs -> Suffixes]
  BY DEF TypeOK
<1>3. failures' \in 0..MaxFaults
  BY FailsType DEF TypeOK
<1> QED BY <1>1, <1>2, <1>3 DEF TypeOK, stores, history

LEMMA AddIdentityType == ASSUME TypeOK, NEW p \in Jobs, AddIdentity(p) PROVE TypeOK'
<1> USE DEF AddIdentity, Throw
<1>1. pc' \in [Writers -> JobLabels \union CallerLabels]
  BY GotoType DEF JobLabels, Writers
<1>2. identities' \subseteq Devices
  BY DeviceType DEF TypeOK
<1>3. failures' \in 0..MaxFaults
  BY FailsType DEF TypeOK
<1> QED BY <1>1, <1>2, <1>3 DEF TypeOK

LEMMA UndoType ==
    ASSUME TypeOK, NEW p \in Jobs, NEW n \in 0..MaxFaults, Undo(p, n)
    PROVE  /\ pc' \in [Writers -> JobLabels \union CallerLabels]
           /\ identities' \subseteq identities
           /\ failures' \in 0..MaxFaults
<1> USE DEF Undo, Throw
<1>1. pc' \in [Writers -> JobLabels \union CallerLabels]
  BY GotoType DEF JobLabels, Writers
<1>2. failures' \in 0..MaxFaults
  BY InitializationAssumption
<1> QED BY <1>1, <1>2

LEMMA AddDocumentType == ASSUME TypeOK, NEW p \in Jobs, AddDocument(p) PROVE TypeOK'
<1> USE InitializationAssumption
<1>1. /\ identities' \subseteq Devices /\ documents' \subseteq Devices
      /\ pc' \in [Writers -> JobLabels \union CallerLabels]
      /\ failures' \in 0..MaxFaults /\ at' \in [Jobs -> 1..Defaults]
  <2>1. CASE /\ Device(p) \notin documents
             /\ documents' = documents \union {Device(p)}
             /\ IF at[p] < Defaults
                THEN at' = [at EXCEPT ![p] = @ + 1] /\ Goto(p, "identity")
                ELSE at' = [at EXCEPT ![p] = 1] /\ Goto(p, "rule")
             /\ UNCHANGED <<identities, failures>>
    <3>1. pc' \in [Writers -> JobLabels \union CallerLabels]
      BY <2>1, GotoType DEF JobLabels, Writers
    <3>2. at' \in [Jobs -> 1..Defaults]
      BY <2>1 DEF TypeOK
    <3> QED BY <2>1, <3>1, <3>2, DeviceType DEF TypeOK
  <2>2. CASE Device(p) \in documents /\ Undo(p, failures) /\ UNCHANGED <<documents, at>>
    <3>1. failures \in 0..MaxFaults
      BY DEF TypeOK
    <3> QED BY <2>2, <3>1, UndoType DEF TypeOK
  <2>3. CASE /\ failures < MaxFaults
             /\ documents' \in {documents, documents \union {Device(p)}}
             /\ Undo(p, failures + 1)
             /\ UNCHANGED at
    <3>1. failures + 1 \in 0..MaxFaults
      BY <2>3 DEF TypeOK
    <3> QED BY <2>3, <3>1, UndoType, DeviceType DEF TypeOK
  <2> QED BY <2>1, <2>2, <2>3 DEF AddDocument
<1> QED BY <1>1 DEF TypeOK, AddDocument

LEMMA AfterRuleType ==
    ASSUME TypeOK, NEW p \in Jobs, AfterRule(p)
    PROVE  /\ pc' \in [Writers -> JobLabels \union CallerLabels]
           /\ at' \in [Jobs -> 1..Defaults] /\ nth' \in [Jobs -> 1..2]
           /\ made' \subseteq Suffixes
<1> USE InitializationAssumption DEF AfterRule
<1>1. pc' \in [Writers -> JobLabels \union CallerLabels]
  BY GotoType DEF JobLabels, Writers, TypeOK
<1>2. at' \in [Jobs -> 1..Defaults] /\ nth' \in [Jobs -> 1..2]
  BY DEF TypeOK
<1>3. made' \subseteq Suffixes
  <2>1. suffix[p] \in Suffixes /\ made \subseteq Suffixes
    BY DEF TypeOK
  <2>2. made' = made \/ made' = made \union {suffix[p]}
    OBVIOUS
  <2> QED BY <2>1, <2>2
<1> QED BY <1>1, <1>2, <1>3

LEMMA SaveRuleType == ASSUME TypeOK, NEW p \in Jobs, SaveRule(p) PROVE TypeOK'
<1> USE InitializationAssumption
<1> DEFINE d == Device(p)
           o == Output[nth[p]]
<1>1. d \in Devices /\ o \in Outputs
  BY DeviceType, OutputType DEF TypeOK
<1> HIDE DEF d, o
<1>2. rules' \in [Devices -> SUBSET Outputs]
  <2>1. rules' \in {rules, [rules EXCEPT ![d] = @ \union {o}]}
    BY DEF SaveRule, d, o
  <2> QED BY <2>1, <1>1 DEF TypeOK
<1>3. refused' \subseteq Devices \X Outputs
  <2>1. refused' \in {refused, refused \union {<<d, o>>}}
    BY DEF SaveRule, d, o
  <2> QED BY <2>1, <1>1 DEF TypeOK
<1>4. failures' \in 0..MaxFaults
  BY FailsType DEF SaveRule, TypeOK
<1>5. /\ pc' \in [Writers -> JobLabels \union CallerLabels]
      /\ at' \in [Jobs -> 1..Defaults] /\ nth' \in [Jobs -> 1..2]
      /\ made' \subseteq Suffixes
  <2>1. CASE AfterRule(p)
    BY <2>1, AfterRuleType
  <2>2. CASE Throw(p) /\ UNCHANGED <<at, nth, refused, made>>
    BY <2>2, GotoType DEF Throw, JobLabels, Writers, TypeOK
  <2> QED BY <2>1, <2>2 DEF SaveRule
<1> QED BY <1>2, <1>3, <1>4, <1>5 DEF TypeOK, SaveRule

LEMMA RecheckType == ASSUME TypeOK, NEW p \in Jobs, Recheck(p) PROVE TypeOK'
<1> USE DEF Recheck
<1>1. pc' \in [Writers -> JobLabels \union CallerLabels]
  BY GotoType DEF JobLabels, Writers
<1>2. failures' \in 0..MaxFaults
  BY FailsType DEF TypeOK
<1>3. mapping' \in [Writers -> Mapping]
  <2>1. mapping' = [mapping EXCEPT ![p] = TheDefault(1)]
    OBVIOUS
  <2>2. mapping \in [Writers -> Mapping] /\ TheDefault(1) \in Mapping
    BY OutputType DEF TypeOK
  <2> HIDE DEF Recheck
  <2> QED BY <2>1, <2>2
<1>4. since' \in [Writers -> SUBSET Outputs]
  <2>1. since' = [since EXCEPT ![p] = {}]
    OBVIOUS
  <2>2. since \in [Writers -> SUBSET Outputs] /\ {} \in SUBSET Outputs
    BY DEF TypeOK
  <2> HIDE DEF Recheck
  <2> QED BY <2>1, <2>2
<1> QED BY <1>1, <1>2, <1>3, <1>4 DEF TypeOK, stores

LEMMA RequestType == ASSUME TypeOK, NEW c \in Callers, Request(c) PROVE TypeOK'
<1> USE InitializationAssumption DEF Request
<1>1. pc' \in [Writers -> JobLabels \union CallerLabels]
  BY GotoType DEF JobLabels, Writers
<1>2. mapping' \in [Writers -> Mapping]
  BY DEF TypeOK
<1>3. saves' \in 0..MaxSaves
  BY DEF TypeOK
<1> QED BY <1>1, <1>2, <1>3 DEF TypeOK, stores, history

LEMMA ReturnType ==
    ASSUME TypeOK, NEW w \in Writers, Return(w)
    PROVE  pc' \in [Writers -> JobLabels \union CallerLabels]
  BY GotoType DEF Return, JobLabels, CallerLabels

LEMMA ReadType == ASSUME TypeOK, NEW w \in Writers, Read(w) PROVE TypeOK'
<1> USE DEF Read
<1>1. pc' \in [Writers -> JobLabels \union CallerLabels]
  BY GotoType, ReturnType DEF JobLabels, CallerLabels
<1>2. failures' \in 0..MaxFaults
  BY FailsType DEF TypeOK
<1>3. seen' \in [Writers -> Mappings] /\ since' \in [Writers -> SUBSET Outputs]
  BY DEF TypeOK
<1> QED BY <1>1, <1>2, <1>3 DEF TypeOK, stores

LEMMA AfterUploadType ==
    ASSUME TypeOK, NEW w \in Writers, AfterUpload(w)
    PROVE  /\ pc' \in [Writers -> JobLabels \union CallerLabels]
           /\ nth' \in [Jobs -> 1..2] /\ mapping' \in [Writers -> Mapping]
<1> USE DEF AfterUpload
<1>1. pc' \in [Writers -> JobLabels \union CallerLabels]
  BY GotoType DEF JobLabels, CallerLabels
<1>2. nth' \in [Jobs -> 1..2] /\ mapping' \in [Writers -> Mapping]
  BY OutputType DEF TypeOK
<1> QED BY <1>1, <1>2

LEMMA UploadType == ASSUME TypeOK, NEW w \in Writers, Upload(w) PROVE TypeOK'
<1>1. mappings' \in Mappings
  BY WrittenType DEF TypeOK, Upload
<1>2. since' \in [Writers -> SUBSET Outputs]
  BY DEF TypeOK, Upload
<1>3. apiSaved' \in BOOLEAN
  BY DEF TypeOK, Upload
<1>4. failures' \in 0..MaxFaults
  BY FailsType DEF TypeOK, Upload
<1>5. /\ pc' \in [Writers -> JobLabels \union CallerLabels]
      /\ nth' \in [Jobs -> 1..2] /\ mapping' \in [Writers -> Mapping]
  BY AfterUploadType, ReturnType DEF TypeOK, Upload
<1> QED BY <1>1, <1>2, <1>3, <1>4, <1>5 DEF TypeOK, Upload

LEMMA NextTypeOK == TypeOK /\ [Next]_vars => TypeOK'
<1> SUFFICES ASSUME TypeOK, [Next]_vars PROVE TypeOK'
  OBVIOUS
<1>1. CASE UNCHANGED vars
  BY <1>1 DEF vars, stores, bounds, history, TypeOK
<1>2. ASSUME NEW p \in Jobs, Job(p) PROVE TypeOK'
  BY <1>2, StartType, ShutDownType, CheckType, AddIdentityType, AddDocumentType,
     SaveRuleType, RecheckType DEF Job
<1>3. ASSUME NEW c \in Callers, Request(c) PROVE TypeOK'
  BY <1>3, RequestType
<1>4. ASSUME NEW w \in Writers, Save(w) PROVE TypeOK'
  BY <1>4, ReadType, UploadType DEF Save
<1> QED BY <1>1, <1>2, <1>3, <1>4 DEF Next

(* The types hold in every reachable state, for all values of the constants. *)
THEOREM InitializationTypeCorrect == Spec => []TypeOK
<1> QED BY InitTypeOK, NextTypeOK, PTL DEF Spec

-----------------------------------------------------------------------------
(* The sign *)

\* A device is settled when hub and registry have it and no job that is yet to
\* write its document could take the identity back.
Settled(d) == /\ d \in identities /\ d \in documents
              /\ \A q \in Jobs : At(q, "document") => Device(q) # d

HasRule(d, o) == o \in rules[d] \/ <<d, o>> \in refused
HasRules(d)   == \A o \in Outputs : HasRule(d, o)

\* a job writes the document of a device whose identity it has made itself
Holding == \A p \in Jobs : At(p, "document") => Device(p) \in identities
Alone   == \A p, q \in Jobs :
             (At(p, "document") /\ At(q, "document") /\ Device(p) = Device(q)) => p = q

\* what a job has behind it
Begun(p) == /\ At(p, "waiting") => at[p] = 1 /\ nth[p] = 1
            /\ At(p, "identity") \/ At(p, "document") \/ At(p, "recheck") => nth[p] = 1
Registered(p) ==
    \A n \in 1..Defaults :
      ((At(p, "identity") \/ At(p, "document")) /\ n < at[p]) \/ At(p, "rule")
        => Settled(<<suffix[p], n>>)
Ruled(p) ==
    At(p, "rule") => /\ \A n \in 1..Defaults : n < at[p] => HasRules(<<suffix[p], n>>)
                     /\ nth[p] = 2 => HasRule(Device(p), Output[1])
Finished(p) == (At(p, "recheck") \/ At(p, "read") \/ At(p, "upload")) => suffix[p] \in made
Behind(p) == Begun(p) /\ Registered(p) /\ Ruled(p) /\ Finished(p)

MadeWhole == \A x \in made, n \in 1..Defaults : Settled(<<x, n>>) /\ HasRules(<<x, n>>)
SignMade  == ~Empty /\ ~apiSaved => made # {}

SignInv == /\ TypeOK /\ Holding /\ Alone
           /\ \A p \in Jobs : Behind(p)
           /\ MadeWhole /\ SignMade

\* what a step by w leaves alone
Others(w) == /\ \A q \in Jobs \ {w} : /\ pc'[q] = pc[q] /\ suffix'[q] = suffix[q]
                                      /\ at'[q] = at[q] /\ nth'[q] = nth[q]
             /\ made \subseteq made'
SettledNext(d) == /\ d \in identities' /\ d \in documents'
                  /\ \A q \in Jobs : pc'[q] = "document" => <<suffix'[q], at'[q]>> # d
HasRuleNext(d, o) == o \in rules'[d] \/ <<d, o>> \in refused'
Stable == /\ \A d \in Devices : Settled(d) => SettledNext(d)
          /\ \A d \in Devices, o \in Outputs : HasRule(d, o) => HasRuleNext(d, o)

\* no job comes to write a document, and no device is taken back
Grow == identities \subseteq identities' /\ documents \subseteq documents'
Calm == /\ Grow
        /\ \A q \in Jobs : At(q, "document")' => At(q, "document") /\ Device(q)' = Device(q)
RulesKept == UNCHANGED <<rules, refused>>

LEMMA CalmStep ==
    ASSUME Calm
    PROVE  /\ Holding => Holding'
           /\ Alone => Alone'
           /\ \A d \in Devices : Settled(d) => SettledNext(d)
<1>1. ASSUME Holding PROVE Holding'
  BY <1>1 DEF Calm, Grow, Holding
<1>2. ASSUME Alone PROVE Alone'
  BY <1>2 DEF Calm, Alone
<1>3. ASSUME NEW d \in Devices, Settled(d) PROVE SettledNext(d)
  BY <1>3 DEF Calm, Grow, Settled, SettledNext, At, Device
<1> QED BY <1>1, <1>2, <1>3

LEMMA RulesKeptStep ==
    ASSUME RulesKept
    PROVE  \A d \in Devices, o \in Outputs : HasRule(d, o) => HasRuleNext(d, o)
  BY DEF RulesKept, HasRule, HasRuleNext

LEMMA BehindKept ==
    ASSUME TypeOK, Stable, NEW w \in Writers, Others(w), NEW q \in Jobs \ {w}, Behind(q)
    PROVE  Behind(q)'
<1>1. /\ pc'[q] = pc[q] /\ suffix'[q] = suffix[q] /\ at'[q] = at[q] /\ nth'[q] = nth[q]
      /\ made \subseteq made'
  BY DEF Others
<1>2. Device(q)' = Device(q) /\ Device(q) \in Devices
  BY <1>1, DeviceType DEF Device
<1>3. \A n \in 1..Defaults : <<suffix[q], n>> \in Devices
  BY DEF TypeOK, Devices
<1>4. Begun(q)'
  BY <1>1 DEF Behind, Begun, At
<1>5. Registered(q)'
  <2> SUFFICES ASSUME NEW n \in 1..Defaults,
                      ((At(q, "identity") \/ At(q, "document")) /\ n < at[q]) \/ At(q, "rule")
               PROVE  SettledNext(<<suffix[q], n>>)
    BY <1>1 DEF Registered, At, Settled, SettledNext, Device
  <2>1. Settled(<<suffix[q], n>>)
    BY DEF Behind, Registered
  <2> QED BY <2>1, <1>3 DEF Stable
<1>6. Ruled(q)'
  <2> SUFFICES ASSUME At(q, "rule")
               PROVE  /\ \A n \in 1..Defaults : n < at[q] =>
                             \A o \in Outputs : HasRuleNext(<<suffix[q], n>>, o)
                      /\ nth[q] = 2 => HasRuleNext(Device(q), Output[1])
    BY <1>1, <1>2 DEF Ruled, At, HasRules, HasRule, HasRuleNext
  <2>1. ASSUME NEW n \in 1..Defaults, n < at[q], NEW o \in Outputs
        PROVE  HasRuleNext(<<suffix[q], n>>, o)
    <3>1. HasRules(<<suffix[q], n>>)
      BY <2>1 DEF Behind, Ruled
    <3> QED BY <3>1, <1>3 DEF Stable, HasRules
  <2>2. ASSUME nth[q] = 2 PROVE HasRuleNext(Device(q), Output[1])
    <3>1. HasRule(Device(q), Output[1])
      BY <2>2 DEF Behind, Ruled
    <3>2. Output[1] \in Outputs
      BY OutputType
    <3> QED BY <3>1, <3>2, <1>2 DEF Stable
  <2> QED BY <2>1, <2>2
<1>7. Finished(q)'
  BY <1>1 DEF Behind, Finished, At
<1> QED BY <1>4, <1>5, <1>6, <1>7 DEF Behind

LEMMA MadeWholeKept ==
    ASSUME TypeOK, Stable, MadeWhole, UNCHANGED made
    PROVE  MadeWhole'
<1> SUFFICES ASSUME NEW x \in made, NEW n \in 1..Defaults
             PROVE  SettledNext(<<x, n>>) /\ \A o \in Outputs : HasRuleNext(<<x, n>>, o)
  BY DEF MadeWhole, Settled, SettledNext, HasRules, HasRule, HasRuleNext, At, Device
<1>1. <<x, n>> \in Devices
  BY DEF TypeOK, Devices
<1>2. Settled(<<x, n>>) /\ HasRules(<<x, n>>)
  BY DEF MadeWhole
<1> QED BY <1>1, <1>2 DEF Stable, HasRules

LEMMA SignMadeKept ==
    ASSUME SignMade, UNCHANGED <<mappings, apiSaved>>, made \subseteq made'
    PROVE  SignMade'
  BY DEF SignMade, Empty

\* a step by w keeps the invariant if it keeps what others rely on and its own part
LEMMA SignStep ==
    ASSUME SignInv, TypeOK', NEW w \in Writers, Others(w), Stable, Holding', Alone',
           w \in Jobs => Behind(w)', MadeWhole', SignMade'
    PROVE  SignInv'
<1>1. ASSUME NEW q \in Jobs PROVE Behind(q)'
  <2>1. CASE q = w
    BY <2>1
  <2>2. CASE q # w
    BY <2>2, BehindKept DEF SignInv
  <2> QED BY <2>1, <2>2
<1> QED BY <1>1 DEF SignInv

LEMMA CalmSign ==
    ASSUME SignInv, TypeOK', NEW w \in Writers, Others(w), Grow,
           w \in Jobs => pc'[w] # "document", RulesKept, UNCHANGED made,
           w \in Jobs => Behind(w)', SignMade'
    PROVE  SignInv'
<1>1. Calm
  <2> SUFFICES ASSUME NEW q \in Jobs, pc'[q] = "document"
               PROVE  pc[q] = "document" /\ suffix'[q] = suffix[q] /\ at'[q] = at[q]
    BY DEF Calm, At, Device
  <2>1. q # w
    OBVIOUS
  <2> QED BY <2>1 DEF Others
<1>2. Holding' /\ Alone' /\ Stable
  BY <1>1, CalmStep, RulesKeptStep DEF SignInv, Stable
<1>3. MadeWhole'
  BY <1>2, MadeWholeKept DEF SignInv
<1> QED BY <1>2, <1>3, SignStep

LEMMA JobsWrite == \A p \in Jobs : p \in Writers
  BY DEF Writers

LEMMA InitSignInv == Init => SignInv
<1> SUFFICES ASSUME Init PROVE SignInv
  OBVIOUS
<1>1. TypeOK
  BY InitTypeOK
<1>2. \A p \in Jobs : pc[p] = "off"
  BY DEF Init, Writers
<1>3. Holding /\ Alone /\ \A p \in Jobs : Behind(p)
  BY <1>2 DEF Holding, Alone, Behind, Begun, Registered, Ruled, Finished, At
<1>4. MadeWhole /\ SignMade
  BY DEF Init, MadeWhole, SignMade, Empty
<1> QED BY <1>1, <1>3, <1>4 DEF SignInv

LEMMA StartSign == ASSUME SignInv, NEW p \in Jobs, Start(p) PROVE SignInv'
<1> USE JobsWrite
<1>1. TypeOK'
  BY StartType DEF SignInv
<1>2. /\ pc'[p] = "waiting" /\ at'[p] = 1 /\ nth'[p] = 1
      /\ Others(p) /\ UNCHANGED <<made, mappings, apiSaved>> /\ Grow /\ RulesKept
  BY DEF Start, Goto, SignInv, TypeOK, Others, Grow, RulesKept, stores, history
<1>3. Behind(p)'
  BY <1>2 DEF Behind, Begun, Registered, Ruled, Finished, At
<1>4. SignMade'
  BY <1>2, SignMadeKept DEF SignInv
<1> QED BY <1>1, <1>2, <1>3, <1>4, CalmSign

LEMMA ShutDownSign == ASSUME SignInv, NEW p \in Jobs, ShutDown(p) PROVE SignInv'
<1> USE JobsWrite
<1>1. TypeOK'
  BY ShutDownType DEF SignInv
<1>2. /\ pc'[p] = "off"
      /\ Others(p) /\ UNCHANGED <<made, mappings, apiSaved>> /\ Grow /\ RulesKept
  BY DEF ShutDown, Goto, SignInv, TypeOK, Others, Grow, RulesKept, stores, history
<1>3. Behind(p)'
  BY <1>2 DEF Behind, Begun, Registered, Ruled, Finished, At
<1>4. SignMade'
  BY <1>2, SignMadeKept DEF SignInv
<1> QED BY <1>1, <1>2, <1>3, <1>4, CalmSign

LEMMA CheckSign == ASSUME SignInv, NEW p \in Jobs, Check(p) PROVE SignInv'
<1> USE JobsWrite
<1>1. TypeOK'
  BY CheckType DEF SignInv
<1>2. /\ pc'[p] \in {"identity", "done", "failed"} /\ at'[p] = at[p] /\ nth'[p] = nth[p]
      /\ pc[p] = "waiting"
      /\ Others(p) /\ UNCHANGED <<made, mappings, apiSaved>> /\ Grow /\ RulesKept
  BY DEF Check, Goto, At, SignInv, TypeOK, Others, Grow, RulesKept, stores, history
<1>3. at[p] = 1 /\ nth[p] = 1
  BY <1>2 DEF SignInv, Behind, Begun, At
<1>4. Behind(p)'
  <2>1. Registered(p)'
    BY <1>2, <1>3 DEF Registered, At
  <2> QED BY <1>2, <1>3, <2>1 DEF Behind, Begun, Ruled, Finished, At
<1>5. SignMade'
  BY <1>2, SignMadeKept DEF SignInv
<1> QED BY <1>1, <1>2, <1>4, <1>5, CalmSign

LEMMA RecheckSign == ASSUME SignInv, NEW p \in Jobs, Recheck(p) PROVE SignInv'
<1> USE JobsWrite
<1>1. TypeOK'
  BY RecheckType DEF SignInv
<1>2. /\ pc'[p] \in {"read", "done", "failed"} /\ pc[p] = "recheck"
      /\ Others(p) /\ UNCHANGED <<suffix, made, mappings, apiSaved>> /\ Grow /\ RulesKept
  BY DEF Recheck, Goto, At, SignInv, TypeOK, Others, Grow, RulesKept, stores
<1>3. suffix[p] \in made
  BY <1>2 DEF SignInv, Behind, Finished, At
<1>4. Behind(p)'
  BY <1>2, <1>3 DEF Behind, Begun, Registered, Ruled, Finished, At
<1>5. SignMade'
  BY <1>2, SignMadeKept DEF SignInv
<1> QED BY <1>1, <1>2, <1>4, <1>5, CalmSign

LEMMA RequestSign == ASSUME SignInv, NEW c \in Callers, Request(c) PROVE SignInv'
<1>0. c \in Writers /\ c \notin Jobs
  BY InitializationAssumption DEF Writers
<1>1. TypeOK'
  BY RequestType DEF SignInv
<1>2. /\ Others(c) /\ UNCHANGED <<made, mappings, apiSaved>> /\ Grow /\ RulesKept
  BY <1>0, JobsWrite DEF Request, Goto, SignInv, TypeOK, Others, Grow, RulesKept, stores, history
<1>3. SignMade'
  BY <1>2, SignMadeKept DEF SignInv
<1> QED BY <1>0, <1>1, <1>2, <1>3, CalmSign

LEMMA ReadSign == ASSUME SignInv, NEW w \in Writers, Read(w) PROVE SignInv'
<1>1. TypeOK'
  BY ReadType DEF SignInv
<1>2. /\ pc[w] = "read" /\ pc'[w] \in {"upload", "failed", "idle"}
      /\ Others(w) /\ UNCHANGED <<suffix, made, mappings, apiSaved>> /\ Grow /\ RulesKept
  BY JobsWrite DEF Read, Return, Goto, At, SignInv, TypeOK, Others, Grow, RulesKept, stores
<1>3. ASSUME w \in Jobs PROVE Behind(w)'
  <2>1. suffix[w] \in made
    BY <1>2, <1>3 DEF SignInv, Behind, Finished, At
  <2> QED BY <1>2, <2>1 DEF Behind, Begun, Registered, Ruled, Finished, At
<1>4. SignMade'
  BY <1>2, SignMadeKept DEF SignInv
<1> QED BY <1>1, <1>2, <1>3, <1>4, CalmSign

LEMMA UploadSign == ASSUME SignInv, NEW w \in Writers, Upload(w) PROVE SignInv'
<1>1. TypeOK'
  BY UploadType DEF SignInv
<1>2. /\ pc[w] = "upload" /\ pc'[w] \in {"read", "done", "failed", "idle"}
      /\ UNCHANGED <<suffix, made>> /\ Grow /\ RulesKept
  BY DEF Upload, AfterUpload, Return, Goto, At, SignInv, TypeOK, Grow, RulesKept
<1>3. Others(w)
  BY JobsWrite DEF Upload, AfterUpload, Return, Goto, SignInv, TypeOK, Others
<1>4. ASSUME w \in Jobs PROVE suffix[w] \in made
  BY <1>2, <1>4 DEF SignInv, Behind, Finished, At
<1>5. ASSUME w \in Jobs PROVE Behind(w)'
  BY <1>2, <1>4, <1>5 DEF Behind, Begun, Registered, Ruled, Finished, At
<1>6. SignMade'
  <2>1. CASE w \in Jobs
    BY <2>1, <1>2, <1>4 DEF SignMade
  <2>2. CASE w \in Callers
    <3>1. apiSaved' \/ UNCHANGED <<mappings, apiSaved>>
      BY <2>2 DEF Upload
    <3> QED BY <3>1, <1>2 DEF SignInv, SignMade, Empty
  <2> QED BY <2>1, <2>2 DEF Writers
<1> QED BY <1>1, <1>2, <1>3, <1>5, <1>6, CalmSign

LEMMA AddIdentitySign == ASSUME SignInv, NEW p \in Jobs, AddIdentity(p) PROVE SignInv'
<1> USE JobsWrite
<1>1. TypeOK'
  BY AddIdentityType DEF SignInv
<1>2. /\ pc[p] = "identity" /\ pc'[p] \in {"document", "failed"}
      /\ Others(p) /\ UNCHANGED <<suffix, at, nth, made, mappings, apiSaved>> /\ Grow /\ RulesKept
  BY DEF AddIdentity, Throw, Goto, At, SignInv, TypeOK, Others, Grow, RulesKept
<1>3. SignMade'
  BY <1>2, SignMadeKept DEF SignInv
<1>4. CASE pc'[p] = "failed"
  <2>1. Behind(p)'
    BY <1>4 DEF Behind, Begun, Registered, Ruled, Finished, At
  <2> QED BY <1>1, <1>2, <1>3, <1>4, <2>1, CalmSign
<1>5. CASE pc'[p] = "document"
  <2>1. Device(p) \notin identities /\ identities' = identities \union {Device(p)}
    BY <1>5, <1>1 DEF AddIdentity, Throw, Goto, SignInv, TypeOK
  <2>2. \A q \in Jobs : At(q, "document")' => Device(q)' = Device(q) /\ (q = p \/ At(q, "document"))
    BY <1>2 DEF Others, At, Device
  <2>3. \A q \in Jobs : At(q, "document") => Device(q) # Device(p)
    BY <2>1 DEF SignInv, Holding
  <2>4. Holding'
    BY <2>1, <2>2 DEF SignInv, Holding
  <2>5. Alone'
    BY <2>2, <2>3 DEF SignInv, Alone
  <2>6. ASSUME NEW d \in Devices, Settled(d) PROVE SettledNext(d)
    <3>1. d \in identities /\ d \in documents /\ \A q \in Jobs : At(q, "document") => Device(q) # d
      BY <2>6 DEF Settled
    <3>2. \A q \in Jobs : At(q, "document")' => Device(q)' # d
      BY <3>1, <2>1, <2>2
    <3> QED BY <3>1, <3>2, <1>2 DEF SettledNext, Grow, At, Device
  <2>7. Stable
    BY <2>6, <1>2, RulesKeptStep DEF Stable
  <2>8. MadeWhole'
    BY <1>2, <2>7, MadeWholeKept DEF SignInv
  <2>9. Behind(p)'
    <3>1. Registered(p)'
      <4> SUFFICES ASSUME NEW n \in 1..Defaults, n < at[p] PROVE SettledNext(<<suffix[p], n>>)
        BY <1>2, <1>5 DEF Registered, At, Settled, SettledNext, Device
      <4>1. Settled(<<suffix[p], n>>)
        BY <1>2 DEF SignInv, Behind, Registered, At
      <4>2. <<suffix[p], n>> \in Devices
        BY DEF SignInv, TypeOK, Devices
      <4> QED BY <4>1, <4>2, <2>6
    <3>2. Begun(p)'
      BY <1>2, <1>5 DEF SignInv, Behind, Begun, At
    <3>3. Ruled(p)' /\ Finished(p)'
      BY <1>5 DEF Ruled, Finished, At
    <3> QED BY <3>1, <3>2, <3>3 DEF Behind
  <2> QED BY <1>1, <1>2, <1>3, <2>4, <2>5, <2>7, <2>8, <2>9, SignStep
<1> QED BY <1>2, <1>4, <1>5

\* a document that fails takes back an identity which nobody relies on
LEMMA UndoSign ==
    ASSUME SignInv, NEW p \in Jobs, AddDocument(p), pc'[p] = "failed"
    PROVE  SignInv'
<1> USE JobsWrite
<1>1. TypeOK'
  BY AddDocumentType DEF SignInv
<1>2. /\ pc[p] = "document"
      /\ Others(p) /\ UNCHANGED <<suffix, made, mappings, apiSaved>> /\ RulesKept
      /\ documents \subseteq documents'
      /\ identities \ {Device(p)} \subseteq identities'
  BY DEF AddDocument, Undo, Throw, Goto, At, SignInv, TypeOK, Others, RulesKept
<1>3. \A q \in Jobs : At(q, "document")' => At(q, "document") /\ Device(q)' = Device(q) /\ q # p
  BY <1>2 DEF Others, At, Device
<1>4. \A q \in Jobs : At(q, "document")' => Device(q) # Device(p)
  BY <1>2, <1>3 DEF SignInv, Alone, At
<1>5. Holding' /\ Alone'
  BY <1>2, <1>3, <1>4 DEF SignInv, Holding, Alone
<1>6. ASSUME NEW d \in Devices, Settled(d) PROVE SettledNext(d)
  <2>1. d # Device(p)
    BY <1>2, <1>6 DEF Settled, At
  <2> QED BY <2>1, <1>2, <1>3, <1>6 DEF Settled, SettledNext, At, Device
<1>7. Stable
  BY <1>6, <1>2, RulesKeptStep DEF Stable
<1>8. MadeWhole' /\ SignMade'
  BY <1>2, <1>7, MadeWholeKept, SignMadeKept DEF SignInv
<1>9. Behind(p)'
  BY DEF Behind, Begun, Registered, Ruled, Finished, At
<1> QED BY <1>1, <1>2, <1>5, <1>7, <1>8, <1>9, SignStep

\* where no step leads to a document, Calm follows
LEMMA CalmOf ==
    ASSUME NEW w \in Writers, Others(w), Grow, w \in Jobs => pc'[w] # "document"
    PROVE  Calm
<1> SUFFICES ASSUME NEW q \in Jobs, pc'[q] = "document"
             PROVE  pc[q] = "document" /\ suffix'[q] = suffix[q] /\ at'[q] = at[q]
  BY DEF Calm, At, Device
<1>1. q # w
  OBVIOUS
<1> QED BY <1>1 DEF Others

LEMMA DocumentSign ==
    ASSUME SignInv, NEW p \in Jobs, AddDocument(p), pc'[p] # "failed"
    PROVE  SignInv'
<1> USE JobsWrite
<1>1. TypeOK'
  BY AddDocumentType DEF SignInv
<1>2. /\ pc[p] = "document" /\ Device(p) \in documents' /\ UNCHANGED identities
      /\ Others(p) /\ UNCHANGED <<suffix, nth, made, mappings, apiSaved>> /\ Grow /\ RulesKept
  BY DEF AddDocument, Undo, Throw, Goto, At, SignInv, TypeOK, Others, Grow, RulesKept
<1>3. \/ at[p] < Defaults /\ at'[p] = at[p] + 1 /\ pc'[p] = "identity"
      \/ at[p] = Defaults /\ at'[p] = 1 /\ pc'[p] = "rule"
  <2>1. at[p] \in 1..Defaults /\ Defaults \in Nat
    BY InitializationAssumption DEF SignInv, TypeOK
  <2>2. \/ at[p] < Defaults /\ at'[p] = at[p] + 1 /\ pc'[p] = "identity"
        \/ ~(at[p] < Defaults) /\ at'[p] = 1 /\ pc'[p] = "rule"
    BY DEF AddDocument, Undo, Throw, Goto, SignInv, TypeOK
  <2> QED BY <2>1, <2>2
<1>4. Calm
  BY <1>2, <1>3, CalmOf
<1>5. SettledNext(Device(p))
  <2>1. Device(p) \in identities
    BY <1>2 DEF SignInv, Holding, At
  <2>2. ASSUME NEW q \in Jobs, pc'[q] = "document" PROVE <<suffix'[q], at'[q]>> # Device(p)
    <3>1. At(q, "document") /\ Device(q)' = Device(q)
      BY <2>2, <1>4 DEF Calm, At
    <3>2. q # p
      BY <2>2, <1>3
    <3>3. At(p, "document")
      BY <1>2 DEF At
    <3>4. Device(q) # Device(p)
      BY <3>1, <3>2, <3>3 DEF SignInv, Alone
    <3> QED BY <3>1, <3>4 DEF Device
  <2> QED BY <1>2, <2>1, <2>2 DEF SettledNext
<1>6. ASSUME NEW n \in 1..Defaults, n < at[p] \/ n = at[p] PROVE SettledNext(<<suffix[p], n>>)
  <2>1. CASE n < at[p]
    <3>1. Settled(<<suffix[p], n>>)
      BY <2>1, <1>2 DEF SignInv, Behind, Registered, At
    <3>2. <<suffix[p], n>> \in Devices
      BY DEF SignInv, TypeOK, Devices
    <3> QED BY <3>1, <3>2, <1>4, CalmStep
  <2>2. CASE n = at[p]
    BY <2>2, <1>5 DEF Device
  <2> QED BY <1>6, <2>1, <2>2
<1>7. Registered(p)'
  <2> SUFFICES ASSUME NEW n \in 1..Defaults, pc'[p] = "identity" => n < at'[p]
               PROVE  SettledNext(<<suffix[p], n>>)
    BY <1>2, <1>3 DEF Registered, At, Settled, SettledNext, Device
  <2>1. at[p] \in 1..Defaults /\ Defaults \in Nat
    BY InitializationAssumption DEF SignInv, TypeOK
  <2>2. n < at[p] \/ n = at[p]
    BY <2>1, <1>3
  <2> QED BY <2>2, <1>6
<1>8. Begun(p)' /\ Ruled(p)' /\ Finished(p)'
  <2>1. nth[p] = 1
    BY <1>2 DEF SignInv, Behind, Begun, At
  <2>2. pc'[p] = "rule" => \A n \in 1..Defaults : ~(n < at'[p])
    BY <1>3
  <2> QED BY <1>2, <1>3, <2>1, <2>2 DEF Begun, Ruled, Finished, At
<1>9. SignMade'
  BY <1>2, SignMadeKept DEF SignInv
<1> QED BY <1>1, <1>2, <1>3, <1>7, <1>8, <1>9, CalmSign DEF Behind

LEMMA SaveRuleSign == ASSUME SignInv, NEW p \in Jobs, SaveRule(p) PROVE SignInv'
<1> USE JobsWrite
<1>1. TypeOK'
  BY SaveRuleType DEF SignInv
<1>2. /\ pc[p] = "rule" /\ pc'[p] \in {"rule", "recheck", "failed"}
      /\ Others(p) /\ UNCHANGED <<suffix, mappings, apiSaved>> /\ Grow
  BY DEF SaveRule, AfterRule, Throw, Goto, At, SignInv, TypeOK, Others, Grow
<1>3. \A d \in Devices, o \in Outputs : HasRule(d, o) => HasRuleNext(d, o)
  BY DEF SaveRule, HasRule, HasRuleNext, SignInv, TypeOK
<1>4. Calm
  BY <1>2, CalmOf
<1>5. Stable /\ Holding' /\ Alone'
  BY <1>3, <1>4, CalmStep DEF Stable, SignInv
<1>6. \A n \in 1..Defaults : SettledNext(<<suffix[p], n>>)
  <2> SUFFICES ASSUME NEW n \in 1..Defaults PROVE SettledNext(<<suffix[p], n>>)
    OBVIOUS
  <2>1. Settled(<<suffix[p], n>>)
    BY <1>2 DEF SignInv, Behind, Registered, At
  <2>2. <<suffix[p], n>> \in Devices
    BY DEF SignInv, TypeOK, Devices
  <2> QED BY <2>1, <2>2, <1>5 DEF Stable
<1>7. \A n \in 1..Defaults : n < at[p] => \A o \in Outputs : HasRuleNext(<<suffix[p], n>>, o)
  <2> SUFFICES ASSUME NEW n \in 1..Defaults, n < at[p], NEW o \in Outputs
               PROVE  HasRuleNext(<<suffix[p], n>>, o)
    OBVIOUS
  <2>1. HasRules(<<suffix[p], n>>)
    BY <1>2 DEF SignInv, Behind, Ruled, At
  <2>2. <<suffix[p], n>> \in Devices
    BY DEF SignInv, TypeOK, Devices
  <2> QED BY <2>1, <2>2, <1>5 DEF Stable, HasRules
<1>8. Device(p) \in Devices /\ nth[p] \in 1..2 /\ at[p] \in 1..Defaults /\ Defaults \in Nat
  BY DeviceType, InitializationAssumption DEF SignInv, TypeOK
<1>9. pc'[p] # "failed" => HasRuleNext(Device(p), Output[nth[p]])
  BY <1>8 DEF SaveRule, Throw, Goto, HasRuleNext, SignInv, TypeOK
<1>10. nth[p] = 2 => HasRuleNext(Device(p), Output[1])
  BY <1>2, <1>5, <1>8, OutputType DEF SignInv, Behind, Ruled, Stable, At
<1>11. CASE pc'[p] = "failed"
  <2>1. Behind(p)'
    BY <1>11 DEF Behind, Begun, Registered, Ruled, Finished, At
  <2>2. UNCHANGED made
    BY <1>11 DEF SaveRule, AfterRule, Goto, SignInv, TypeOK
  <2>3. MadeWhole' /\ SignMade'
    BY <1>2, <1>5, <2>2, MadeWholeKept, SignMadeKept DEF SignInv
  <2> QED BY <1>1, <1>2, <1>5, <2>1, <2>3, SignStep
<1>12. CASE pc'[p] = "rule" /\ nth[p] = 1
  <2>1. nth'[p] = 2 /\ at'[p] = at[p] /\ UNCHANGED made
    BY <1>12, <1>8 DEF SaveRule, AfterRule, Throw, Goto, SignInv, TypeOK
  <2>2. Ruled(p)'
    BY <1>2, <1>7, <1>9, <1>12, <2>1 DEF Ruled, At, HasRules, HasRule, HasRuleNext, Device
  <2>3. Begun(p)' /\ Registered(p)' /\ Finished(p)'
    BY <1>2, <1>6, <1>12 DEF Begun, Registered, Finished, Settled, SettledNext, At, Device
  <2>4. MadeWhole' /\ SignMade'
    BY <1>2, <1>5, <2>1, MadeWholeKept, SignMadeKept DEF SignInv
  <2> QED BY <1>1, <1>2, <1>5, <2>2, <2>3, <2>4, SignStep DEF Behind
<1>13. ASSUME pc'[p] # "failed", nth[p] = 2, NEW o \in Outputs PROVE HasRuleNext(Device(p), o)
  <2>1. o = Output[1] \/ o = Output[2]
    BY DEF Outputs, Output
  <2> QED BY <2>1, <1>9, <1>10, <1>13
<1>14. CASE pc'[p] = "rule" /\ nth[p] = 2
  <2>1. nth'[p] = 1 /\ at'[p] = at[p] + 1 /\ UNCHANGED made
    BY <1>14, <1>8 DEF SaveRule, AfterRule, Throw, Goto, SignInv, TypeOK
  <2>2. ASSUME NEW n \in 1..Defaults, n < at[p] + 1, NEW o \in Outputs
        PROVE  HasRuleNext(<<suffix[p], n>>, o)
    <3>1. n < at[p] \/ n = at[p]
      BY <2>2, <1>8
    <3> QED BY <3>1, <1>7, <1>13, <1>14 DEF Device
  <2>3. Ruled(p)'
    BY <1>2, <1>14, <2>1, <2>2 DEF Ruled, At, HasRules, HasRule, HasRuleNext
  <2>4. Begun(p)' /\ Registered(p)' /\ Finished(p)'
    BY <1>2, <1>6, <1>14 DEF Begun, Registered, Finished, Settled, SettledNext, At, Device
  <2>5. MadeWhole' /\ SignMade'
    BY <1>2, <1>5, <2>1, MadeWholeKept, SignMadeKept DEF SignInv
  <2> QED BY <1>1, <1>2, <1>5, <2>3, <2>4, <2>5, SignStep DEF Behind
<1>15. CASE pc'[p] = "recheck"
  <2>1. nth[p] = 2 /\ nth'[p] = 1 /\ at[p] = Defaults /\ made' = made \union {suffix[p]}
    BY <1>15, <1>2, <1>8 DEF SaveRule, AfterRule, Throw, Goto, SignInv, TypeOK
  <2>2. ASSUME NEW n \in 1..Defaults, NEW o \in Outputs PROVE HasRuleNext(<<suffix[p], n>>, o)
    <3>1. n < at[p] \/ n = at[p]
      BY <2>1, <1>8
    <3> QED BY <3>1, <1>7, <1>13, <1>15, <2>1 DEF Device
  <2>3. MadeWhole'
    <3> SUFFICES ASSUME NEW x \in made', NEW n \in 1..Defaults
                 PROVE  SettledNext(<<x, n>>) /\ \A o \in Outputs : HasRuleNext(<<x, n>>, o)
      BY DEF MadeWhole, Settled, SettledNext, HasRules, HasRule, HasRuleNext, At, Device
    <3>1. CASE x = suffix[p]
      BY <3>1, <1>6, <2>2
    <3>2. CASE x \in made
      <4>1. <<x, n>> \in Devices
        BY <3>2 DEF SignInv, TypeOK, Devices
      <4>2. Settled(<<x, n>>) /\ HasRules(<<x, n>>)
        BY <3>2 DEF SignInv, MadeWhole
      <4> QED BY <4>1, <4>2, <1>5 DEF Stable, HasRules
    <3> QED BY <2>1, <3>1, <3>2
  <2>4. Behind(p)'
    BY <1>2, <1>15, <2>1 DEF Behind, Begun, Registered, Ruled, Finished, At
  <2>5. SignMade'
    BY <1>2, <2>1, SignMadeKept DEF SignInv
  <2> QED BY <1>1, <1>2, <1>5, <2>3, <2>4, <2>5, SignStep
<1> QED BY <1>2, <1>8, <1>11, <1>12, <1>14, <1>15

LEMMA NextSignInv == SignInv /\ [Next]_vars => SignInv'
<1> SUFFICES ASSUME SignInv, [Next]_vars PROVE SignInv'
  OBVIOUS
<1>1. CASE UNCHANGED vars
  <2>1. TypeOK'
    BY <1>1, NextTypeOK DEF SignInv
  <2> QED BY <1>1, <2>1 DEF vars, stores, bounds, history, SignInv, Holding, Alone, Behind, Begun,
       Registered, Ruled, Finished, MadeWhole, SignMade, Settled, HasRules, HasRule, At, Device, Empty
<1>2. ASSUME NEW p \in Jobs, Job(p) PROVE SignInv'
  BY <1>2, StartSign, ShutDownSign, CheckSign, AddIdentitySign, UndoSign, DocumentSign,
     SaveRuleSign, RecheckSign DEF Job
<1>3. ASSUME NEW c \in Callers, Request(c) PROVE SignInv'
  BY <1>3, RequestSign
<1>4. ASSUME NEW w \in Writers, Save(w) PROVE SignInv'
  BY <1>4, ReadSign, UploadSign DEF Save
<1> QED BY <1>1, <1>2, <1>3, <1>4 DEF Next

LEMMA SignInvMeansTrue == SignInv => SignIsTrue
<1> SUFFICES ASSUME SignInv, ~Empty, ~apiSaved PROVE \E x \in Suffixes : Complete(x)
  BY DEF SignIsTrue
<1>1. PICK x \in made : TRUE
  BY DEF SignInv, SignMade
<1>2. x \in Suffixes
  BY DEF SignInv, TypeOK
<1>3. Complete(x)
  BY DEF Complete, SignInv, MadeWhole, Settled, HasRules, HasRule
<1> QED BY <1>2, <1>3

(* Wherever jobs were stopped and whatever failed, mappings that no caller     *)
(* saved mean that some start's devices and rules are all there.              *)
THEOREM SignIsTrueAlways == Spec => []SignIsTrue
<1> QED BY InitSignInv, NextSignInv, SignInvMeansTrue, PTL DEF Spec

-----------------------------------------------------------------------------
(* The choices *)

\* what a writer is about to write back is the blob, but for what others wrote since
SeenStands == \A w \in Writers : At(w, "upload") =>
                \A o \in Outputs : seen[w][o] = mappings[o] \/ o \in since[w]

\* a job has found no mappings; it may have saved the first itself
FoundNone == \A p \in Jobs : At(p, "read") \/ At(p, "upload") =>
               /\ mapping[p] = TheDefault(nth[p])
               /\ \A o \in Outputs : mappings[o] # NoAction =>
                    o \in since[p] \/ (nth[p] = 2 /\ o = "AlarmTemp")

ChoiceInv == SignInv /\ SeenStands /\ FoundNone

LEMMA InitChoiceInv == Init => ChoiceInv
<1> SUFFICES ASSUME Init PROVE ChoiceInv
  OBVIOUS
<1>1. \A w \in Writers : pc[w] = "off" \/ pc[w] = "idle"
  BY DEF Init
<1> QED BY <1>1, InitSignInv, JobsWrite DEF ChoiceInv, SeenStands, FoundNone, At

\* steps that leave the mappings and come neither to read nor to upload
LEMMA ChoiceKept ==
    ASSUME ChoiceInv, NEW w \in Writers,
           pc'[w] \notin {"read", "upload"},
           \A v \in Writers \ {w} : pc'[v] = pc[v] /\ mapping'[v] = mapping[v] /\ since'[v] = since[v],
           \A q \in Jobs \ {w} : nth'[q] = nth[q],
           UNCHANGED <<mappings, seen>>
    PROVE  SeenStands' /\ FoundNone'
<1>1. SeenStands'
  BY DEF ChoiceInv, SeenStands, At
<1>2. FoundNone'
  <2> SUFFICES ASSUME NEW q \in Jobs, pc'[q] = "read" \/ pc'[q] = "upload"
               PROVE  /\ mapping'[q] = TheDefault(nth'[q])
                      /\ \A o \in Outputs : mappings[o] # NoAction =>
                           o \in since'[q] \/ (nth'[q] = 2 /\ o = "AlarmTemp")
    BY DEF FoundNone, At
  <2>1. q # w /\ q \in Writers
    BY JobsWrite
  <2>2. mapping'[q] = mapping[q] /\ nth'[q] = nth[q] /\ pc'[q] = pc[q] /\ since'[q] = since[q]
    BY <2>1
  <2> QED BY <2>2 DEF ChoiceInv, FoundNone, At
<1> QED BY <1>1, <1>2

LEMMA EarlyChoice ==
    ASSUME ChoiceInv, NEW p \in Jobs,
           \/ Start(p) \/ ShutDown(p) \/ Check(p) \/ AddIdentity(p) \/ AddDocument(p) \/ SaveRule(p)
    PROVE  SeenStands' /\ FoundNone'
<1> USE JobsWrite DEF ChoiceInv, SignInv, TypeOK
<1> SUFFICES /\ pc'[p] \notin {"read", "upload"}
             /\ \A v \in Writers \ {p} : pc'[v] = pc[v]
             /\ \A q \in Jobs \ {p} : nth'[q] = nth[q]
             /\ UNCHANGED <<mappings, seen, mapping, since>>
  BY ChoiceKept
<1>1. CASE Start(p)
  BY <1>1 DEF Start, Goto, stores, history
<1>2. CASE ShutDown(p)
  BY <1>2 DEF ShutDown, Goto, stores, history
<1>3. CASE Check(p)
  BY <1>3 DEF Check, Goto, stores, history
<1>4. CASE AddIdentity(p)
  BY <1>4 DEF AddIdentity, Throw, Goto
<1>5. CASE AddDocument(p)
  BY <1>5 DEF AddDocument, Undo, Throw, Goto
<1>6. CASE SaveRule(p)
  BY <1>6 DEF SaveRule, AfterRule, Throw, Goto, At
<1> QED BY <1>1, <1>2, <1>3, <1>4, <1>5, <1>6

LEMMA RecheckChoice == ASSUME ChoiceInv, NEW p \in Jobs, Recheck(p) PROVE SeenStands' /\ FoundNone'
<1> USE JobsWrite
<1>1. CASE pc'[p] \notin {"read", "upload"}
  BY <1>1, ChoiceKept DEF Recheck, Goto, ChoiceInv, SignInv, TypeOK, stores
<1>2. CASE pc'[p] \in {"read", "upload"}
  <2>1. /\ pc'[p] = "read" /\ Empty /\ UNCHANGED <<mappings, seen, nth>>
        /\ \A v \in Writers \ {p} : pc'[v] = pc[v] /\ mapping'[v] = mapping[v] /\ since'[v] = since[v]
    BY <1>2 DEF Recheck, Goto, ChoiceInv, SignInv, TypeOK, stores
  <2>2. nth[p] = 1 /\ mapping'[p] = TheDefault(1)
    BY DEF Recheck, ChoiceInv, SignInv, TypeOK, Behind, Begun
  <2>3. \A o \in Outputs : mappings[o] = NoAction
    BY <2>1 DEF Empty, NoMappings
  <2>4. SeenStands'
    BY <2>1 DEF ChoiceInv, SeenStands, At
  <2>5. FoundNone'
    BY <2>1, <2>2, <2>3 DEF ChoiceInv, FoundNone, At
  <2> QED BY <2>4, <2>5
<1> QED BY <1>1, <1>2

LEMMA RequestChoice == ASSUME ChoiceInv, NEW c \in Callers, Request(c) PROVE SeenStands' /\ FoundNone'
<1>0. c \in Writers /\ c \notin Jobs
  BY InitializationAssumption DEF Writers
<1>1. /\ UNCHANGED <<mappings, seen, nth, since>> /\ pc'[c] = "read"
      /\ \A v \in Writers \ {c} : pc'[v] = pc[v] /\ mapping'[v] = mapping[v]
  BY <1>0 DEF Request, Goto, ChoiceInv, SignInv, TypeOK, stores, history
<1>2. SeenStands'
  BY <1>1 DEF ChoiceInv, SeenStands, At
<1>3. FoundNone'
  BY <1>0, <1>1, JobsWrite DEF ChoiceInv, FoundNone, At
<1> QED BY <1>2, <1>3

LEMMA ReadChoice == ASSUME ChoiceInv, NEW w \in Writers, Read(w) PROVE SeenStands' /\ FoundNone'
<1> USE JobsWrite
<1>1. /\ UNCHANGED <<mappings, mapping, nth>> /\ pc[w] = "read"
      /\ \A v \in Writers \ {w} : pc'[v] = pc[v] /\ since'[v] = since[v] /\ seen'[v] = seen[v]
      /\ w \in Jobs => since'[w] = since[w]
      /\ pc'[w] = "upload" => seen'[w] = mappings
  BY DEF Read, Return, Goto, At, ChoiceInv, SignInv, TypeOK, stores
<1>2. SeenStands'
  BY <1>1 DEF ChoiceInv, SeenStands, At
<1>3. FoundNone'
  <2> SUFFICES ASSUME NEW q \in Jobs, pc'[q] = "read" \/ pc'[q] = "upload"
               PROVE  /\ mapping[q] = TheDefault(nth[q])
                      /\ \A o \in Outputs : mappings[o] # NoAction =>
                           o \in since'[q] \/ (nth[q] = 2 /\ o = "AlarmTemp")
    BY <1>1 DEF FoundNone, At
  <2>1. since'[q] = since[q] /\ (pc[q] = "read" \/ pc[q] = "upload")
    BY <1>1
  <2> QED BY <2>1 DEF ChoiceInv, FoundNone, At
<1> QED BY <1>2, <1>3

\* what an upload writes
LEMMA WrittenValue ==
    ASSUME TypeOK, NEW w \in Writers, NEW o \in Outputs
    PROVE  Written(w)[o] = IF o = mapping[w].output THEN mapping[w].action ELSE seen[w][o]
  BY DEF TypeOK, Written, Mappings, Mapping

LEMMA UploadChoice == ASSUME ChoiceInv, NEW w \in Writers, Upload(w) PROVE SeenStands' /\ FoundNone'
<1> USE JobsWrite
<1>0. TypeOK
  BY DEF ChoiceInv, SignInv
<1>1. /\ pc[w] = "upload" /\ pc'[w] # "upload" /\ UNCHANGED seen /\ since'[w] = since[w]
      /\ \A v \in Writers \ {w} : pc'[v] = pc[v] /\ mapping'[v] = mapping[v]
      /\ \A q \in Jobs \ {w} : nth'[q] = nth[q]
  BY <1>0 DEF Upload, AfterUpload, Return, Goto, At, TypeOK
<1>2. \A v \in Writers \ {w}, o \in Outputs :
        (o \in since[v] => o \in since'[v]) /\ (mappings'[o] # mappings[o] => o \in since'[v])
  BY <1>0 DEF Upload, TypeOK
<1>3. SeenStands'
  BY <1>1, <1>2 DEF ChoiceInv, SeenStands, At
<1>4. ASSUME NEW q \in Jobs, q # w, pc'[q] = "read" \/ pc'[q] = "upload"
      PROVE  /\ mapping'[q] = TheDefault(nth'[q])
             /\ \A o \in Outputs : mappings'[o] # NoAction =>
                  o \in since'[q] \/ (nth'[q] = 2 /\ o = "AlarmTemp")
  <2>1. pc'[q] = pc[q] /\ mapping'[q] = mapping[q] /\ nth'[q] = nth[q]
    BY <1>1, <1>4
  <2> QED BY <1>2, <1>4, <2>1 DEF ChoiceInv, FoundNone, At
<1>5. ASSUME w \in Jobs, pc'[w] = "read"
      PROVE  /\ mapping'[w] = TheDefault(nth'[w])
             /\ \A o \in Outputs : mappings'[o] # NoAction =>
                  o \in since'[w] \/ (nth'[w] = 2 /\ o = "AlarmTemp")
  <2>1. nth[w] = 1 /\ nth'[w] = 2 /\ mapping'[w] = TheDefault(2) /\ mappings' = Written(w)
    BY <1>0, <1>5 DEF Upload, AfterUpload, Return, Goto, TypeOK
  <2>2. mapping[w].output = "AlarmTemp"
    <3>1. mapping[w] = TheDefault(1)
      BY <1>1, <1>5, <2>1 DEF ChoiceInv, FoundNone, At
    <3> QED BY <3>1 DEF TheDefault, Output
  <2>3. ASSUME NEW o \in Outputs, mappings'[o] # NoAction, o # "AlarmTemp" PROVE o \in since[w]
    <3>1. mappings'[o] = seen[w][o]
      BY <1>0, <2>1, <2>2, <2>3, WrittenValue
    <3>2. seen[w][o] = mappings[o] \/ o \in since[w]
      BY <1>1 DEF ChoiceInv, SeenStands, At
    <3>3. mappings[o] # NoAction => o \in since[w]
      BY <1>1, <1>5, <2>1 DEF ChoiceInv, FoundNone, At
    <3> QED BY <2>3, <3>1, <3>2, <3>3
  <2> QED BY <1>1, <2>1, <2>3
<1>6. FoundNone'
  <2> SUFFICES ASSUME NEW q \in Jobs, pc'[q] = "read" \/ pc'[q] = "upload"
               PROVE  /\ mapping'[q] = TheDefault(nth'[q])
                      /\ \A o \in Outputs : mappings'[o] # NoAction =>
                           o \in since'[q] \/ (nth'[q] = 2 /\ o = "AlarmTemp")
    BY DEF FoundNone, At
  <2>1. CASE q = w
    BY <2>1, <1>1, <1>5
  <2>2. CASE q # w
    BY <2>2, <1>4
  <2> QED BY <2>1, <2>2
<1> QED BY <1>3, <1>6

LEMMA NextChoiceInv == ChoiceInv /\ [Next]_vars => ChoiceInv'
<1> SUFFICES ASSUME ChoiceInv, [Next]_vars PROVE ChoiceInv'
  OBVIOUS
<1>1. SignInv'
  BY NextSignInv DEF ChoiceInv
<1>2. CASE UNCHANGED vars
  BY <1>1, <1>2 DEF vars, stores, bounds, history, ChoiceInv, SeenStands, FoundNone, At
<1>3. ASSUME NEW p \in Jobs, Job(p) PROVE SeenStands' /\ FoundNone'
  BY <1>3, EarlyChoice, RecheckChoice DEF Job
<1>4. ASSUME NEW c \in Callers, Request(c) PROVE SeenStands' /\ FoundNone'
  BY <1>4, RequestChoice
<1>5. ASSUME NEW w \in Writers, Save(w) PROVE SeenStands' /\ FoundNone'
  BY <1>5, ReadChoice, UploadChoice DEF Save
<1> QED BY <1>1, <1>2, <1>3, <1>4, <1>5 DEF Next, ChoiceInv

\* the action of SavedChoicesStand
ChoicesStand ==
    \A w \in Writers, o \in Outputs :
      (Uploads(w) /\ mappings[o] # NoAction /\ mappings'[o] # mappings[o]) =>
         o \in since[w] \/ (w \in Callers /\ o = mapping[w].output)

LEMMA StepChoicesStand == ChoiceInv /\ [Next]_vars => [ChoicesStand]_vars
<1> SUFFICES ASSUME ChoiceInv, Next,
                    NEW w \in Writers, NEW o \in Outputs,
                    pc[w] = "upload", pc'[w] # pc[w], mappings'[o] # mappings[o],
                    mappings' # mappings, mappings[o] # NoAction
             PROVE  o \in since[w] \/ (w \in Callers /\ o = mapping[w].output)
  BY DEF ChoicesStand, Uploads, At
<1>0. TypeOK
  BY DEF ChoiceInv, SignInv
<1>1. PICK v \in Writers : Upload(v)
  <2>1. ASSUME NEW p \in Jobs, Job(p) PROVE UNCHANGED mappings
    BY <2>1 DEF Job, Start, ShutDown, Check, AddIdentity, AddDocument, SaveRule, Recheck, stores
  <2>2. ASSUME NEW c \in Callers, Request(c) PROVE UNCHANGED mappings
    BY <2>2 DEF Request, stores
  <2>3. ASSUME NEW v \in Writers, Read(v) PROVE UNCHANGED mappings
    BY <2>3 DEF Read, stores
  <2> QED BY <2>1, <2>2, <2>3 DEF Next, Save
<1>2. v = w
  BY <1>0, <1>1 DEF Upload, AfterUpload, Return, Goto, TypeOK
<1>3. mappings' = Written(w)
  BY <1>1, <1>2 DEF Upload
<1>4. CASE o # mapping[w].output
  <2>1. mappings'[o] = seen[w][o]
    BY <1>0, <1>3, <1>4, WrittenValue
  <2> QED BY <2>1 DEF ChoiceInv, SeenStands, At
<1>5. CASE o = mapping[w].output /\ w \in Jobs
  <2>1. mapping[w] = TheDefault(nth[w]) /\ (o \in since[w] \/ (nth[w] = 2 /\ o = "AlarmTemp"))
    BY <1>5 DEF ChoiceInv, FoundNone, At
  <2>2. nth[w] = 2 => o = "AlarmHumidity"
    BY <1>5, <2>1 DEF TheDefault, Output
  <2> QED BY <2>1, <2>2
<1> QED BY <1>4, <1>5 DEF Writers

(* A mapping that was there when a writer looked is not taken back by it, but *)
(* by a caller that sets this very one.                                       *)
THEOREM SavedChoicesStandAlways == Spec => SavedChoicesStand
<1> QED BY InitChoiceInv, NextChoiceInv, StepChoicesStand, PTL
        DEF Spec, SavedChoicesStand, ChoicesStand

=============================================================================
