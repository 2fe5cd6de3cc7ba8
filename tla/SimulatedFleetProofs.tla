------------------------ MODULE SimulatedFleetProofs ------------------------
(***************************************************************************)
(* Theorems about SimulatedFleet for any devices, rows, calls and faults:   *)
(*                                                                         *)
(*   FleetTypeCorrect        FleetSpec => []TypeOK                         *)
(*   OneInstanceAlways       FleetSpec => []OneInstanceEach                *)
(*   StatesAreTrueAlways     FleetSpec => []StatesAreTrue                  *)
(*   ReportsInOrderAlways    FleetSpec => ReportsInOrder                   *)
(*                                                                         *)
(* They rest on what is true of a single instance in each of its steps      *)
(* (Sound): its reports are numbered without a gap, the hub is at most one  *)
(* report ahead of its queue, an update has still to make its last report,  *)
(* and the send loop runs only in an instance that was opened.              *)
(***************************************************************************)
EXTENDS SimulatedFleet, SequenceTheorems, TLAPS

Counted(i) ==
    /\ Len(i.reports) <= i.made
    /\ \A n \in 1..Len(i.reports) : i.reports[n].no = i.made - Len(i.reports) + n
    /\ i.applied \in {i.made - Len(i.reports), i.made - Len(i.reports) + 1}
    /\ i.applied <= i.made

Budgeted(i, calls) ==
    /\ i.made + (IF i.update THEN 1 ELSE 0) <= 2 * calls + 1
    /\ i.phase \in {"over", "opening", "setup"} => i.made = 0 /\ ~i.update

Quiet(i) == i.phase \in {"over", "opening"} => i.loop = "none"

Sound(i, calls) == i \in Instances /\ Counted(i) /\ Budgeted(i, calls) /\ Quiet(i)

\* The hub has one report more, or as many as it had, or the count starts again
InOrder(now, then) == then \in {0, now, now + 1}

\* None comes to life by itself, nor forgets that it was cancelled
Continues(i, j) == j.phase # "over" => i.phase # "over" /\ j.cancelled = i.cancelled

AllSound == \A d \in Devices, s \in Slots : Sound(I(d, s), callsMade)

FleetInv == TypeOK /\ AllSound

-----------------------------------------------------------------------------
(* One instance *)

\* Queues of bounded length, as sequences and as the type has them
LEMMA MaxReportsType == MaxReports \in Nat
BY FleetAssumption DEF MaxReports

LEMMA QueueIsSequence ==
    ASSUME NEW q \in Queues
    PROVE  q \in Seq(Reports) /\ Len(q) \in 0..MaxReports
<1>1. PICK n \in 0..MaxReports : q \in [1..n -> Reports]
  BY DEF Queues
<1>2. n \in Nat
  BY <1>1, MaxReportsType
<1>3. q \in Seq(Reports)
  BY <1>1, <1>2
<1>4. Len(q) = n
  BY <1>1, <1>2, <1>3
<1>5. QED BY <1>1, <1>3, <1>4

LEMMA SequenceIsQueue ==
    ASSUME NEW q \in Seq(Reports), Len(q) <= MaxReports
    PROVE  q \in Queues
<1>1. Len(q) \in 0..MaxReports
  BY MaxReportsType, LenProperties
<1>2. q \in [1..Len(q) -> Reports]
  BY LenProperties
<1>3. QED BY <1>1, <1>2 DEF Queues

LEMMA OverIsSound == ASSUME NEW calls \in Nat PROVE Sound(Over, calls)
<1>1. <<>> \in Queues
  <2>1. <<>> \in Seq(Reports) /\ Len(<<>>) <= MaxReports
    BY MaxReportsType
  <2>2. QED BY <2>1, SequenceIsQueue
<1>2. Over \in Instances
  BY <1>1, MaxReportsType DEF Over, Instances, NoKey
<1>3. Counted(Over)
  BY DEF Counted, Over
<1>4. QED BY <1>2, <1>3 DEF Sound, Budgeted, Quiet, Over

LEMMA OpeningIsSound ==
    ASSUME NEW calls \in Nat, NEW key \in Keys
    PROVE  Sound(Opening(key), calls)
<1>1. Sound(Over, calls)
  BY OverIsSound
<1>2. Opening(key) \in Instances
  BY <1>1 DEF Sound, Opening, Instances
<1>3. Opening(key).reports = <<>> /\ Opening(key).made = 0 /\ Opening(key).applied = 0
  BY DEF Opening, Over
<1>4. Counted(Opening(key))
  BY DEF Counted, Opening, Over
<1>5. Opening(key).loop = "none" /\ ~Opening(key).update
  BY DEF Opening, Over
<1>6. Budgeted(Opening(key), calls)
  BY <1>3, <1>5 DEF Budgeted
<1>7. QED BY <1>2, <1>4, <1>5, <1>6 DEF Sound, Quiet

\* what is counted is looked at no matter what else changes
LEMMA SoundKept ==
    ASSUME NEW calls \in Nat, NEW i, Sound(i, calls), NEW j \in Instances,
           j.reports = i.reports, j.made = i.made, j.applied = i.applied, j.update = i.update,
           j.phase \in {"over", "opening", "setup"} => i.phase \in {"over", "opening", "setup"},
           j.phase \in {"over", "opening"} => j.loop = "none"
    PROVE  Sound(j, calls)
<1>1. Counted(j)
  BY DEF Sound, Counted
<1>2. Budgeted(j, calls)
  BY DEF Sound, Budgeted
<1>3. QED BY <1>1, <1>2 DEF Sound, Quiet

LEMMA MoreCalls ==
    ASSUME NEW calls \in Nat, NEW i, Sound(i, calls)
    PROVE  Sound(i, calls + 1)
<1>1. i.made \in Nat /\ i.update \in BOOLEAN
  BY MaxReportsType DEF Sound, Instances
<1>2. Budgeted(i, calls + 1)
  BY <1>1 DEF Sound, Budgeted
<1>3. QED BY <1>2 DEF Sound

LEMMA MadeIsCounted ==
    ASSUME NEW i \in Instances, Counted(i), NEW status \in Statuses, i.made + 1 <= MaxReports
    PROVE  Made(i, status) \in Instances /\ Counted(Made(i, status))
<1> DEFINE j == Made(i, status)
           r == [no |-> i.made + 1, status |-> status]
<1>1. i.made \in 0..MaxReports /\ i.applied \in 0..MaxReports
  BY DEF Instances
<1>2. i.reports \in Seq(Reports) /\ Len(i.reports) \in Nat
  <2>1. i.reports \in Queues
    BY DEF Instances
  <2>2. QED BY <2>1, QueueIsSequence, LenProperties
<1>3. r \in Reports
  BY <1>1, MaxReportsType DEF Reports
<1>4. j.made = i.made + 1 /\ j.reports = Append(i.reports, r) /\ j.applied = i.applied
  BY DEF Made, Instances
<1>5. /\ j.reports \in Seq(Reports) /\ Len(j.reports) = Len(i.reports) + 1
      /\ \A n \in 1..Len(i.reports) : j.reports[n] = i.reports[n]
      /\ j.reports[Len(i.reports) + 1] = r
  BY <1>2, <1>3, <1>4
<1>6. Counted(j)
  <2>1. ASSUME NEW n \in 1..Len(j.reports)
        PROVE  j.reports[n].no = j.made - Len(j.reports) + n
    <3>1. CASE n \in 1..Len(i.reports)
      BY <1>1, <1>2, <1>4, <1>5, <3>1 DEF Counted
    <3>2. CASE n = Len(i.reports) + 1
      BY <1>1, <1>2, <1>4, <1>5, <3>2
    <3>3. QED BY <1>2, <1>5, <2>1, <3>1, <3>2
  <2>2. Len(j.reports) <= j.made /\ j.made - Len(j.reports) = i.made - Len(i.reports)
    BY <1>1, <1>2, <1>4, <1>5 DEF Counted
  <2>3. j.applied \in {j.made - Len(j.reports), j.made - Len(j.reports) + 1} /\ j.applied <= j.made
    BY <1>1, <1>2, <1>4, <2>2 DEF Counted
  <2>4. QED BY <2>1, <2>2, <2>3 DEF Counted
<1>7. j \in Instances
  <2>1. j.reports \in Queues
    <3>1. Len(j.reports) <= MaxReports
      BY <1>1, <1>2, <1>5, MaxReportsType DEF Counted
    <3>2. QED BY <1>5, <3>1, SequenceIsQueue
  <2>2. j.made \in 0..MaxReports
    BY <1>1, <1>4
  <2>3. j = [i EXCEPT !.made = j.made, !.reports = j.reports]
    BY <1>4 DEF Made, Instances
  <2>4. QED BY <2>1, <2>2, <2>3 DEF Instances
<1>8. QED BY <1>6, <1>7

\* one more report, which the calls or the start allow
LEMMA MadeIsSound ==
    ASSUME NEW calls \in 0..MaxCalls, NEW i \in Instances, Counted(i), Quiet(i),
           NEW status \in Statuses, NEW j,
           j = [Made(i, status) EXCEPT !.phase = j.phase, !.update = j.update],
           j.phase \in {"running", "closing"}, j.update \in BOOLEAN,
           i.made + 1 + (IF j.update THEN 1 ELSE 0) <= 2 * calls + 1
    PROVE  Sound(j, calls)
<1> DEFINE m == Made(i, status)
<1>1. i.made \in Nat /\ calls \in Nat /\ 2 * calls + 1 <= MaxReports
  BY FleetAssumption, MaxReportsType DEF Instances, MaxReports
<1>2. i.made + 1 <= MaxReports
  BY <1>1, MaxReportsType
<1>3. m \in Instances /\ Counted(m)
  BY <1>2, MadeIsCounted
<1>4. m.made = i.made + 1
  BY DEF Made, Instances
<1>5. /\ j.made = m.made /\ j.reports = m.reports /\ j.applied = m.applied
      /\ j \in Instances
  <2>1. j = [m EXCEPT !.phase = j.phase, !.update = j.update]
    OBVIOUS
  <2> HIDE DEF m
  <2>2. QED BY <1>3, <2>1 DEF Instances
<1>6. Counted(j)
  BY <1>3, <1>5 DEF Counted
<1>7. Budgeted(j, calls)
  BY <1>4, <1>5 DEF Budgeted
<1>8. QED BY <1>5, <1>6, <1>7 DEF Sound, Quiet

\* The hub takes the first report of the queue, and the queue forgets it or not
LEMMA SentIsSound ==
    ASSUME NEW calls \in Nat, NEW i, Sound(i, calls), i.reports # <<>>, i.loop = "on",
           NEW j \in Instances,
           j.reports = Tail(i.reports) \/ j.reports = i.reports,
           j.applied = Head(i.reports).no,
           j.made = i.made, j.update = i.update, j.phase = i.phase, j.cancelled = i.cancelled
    PROVE  Sound(j, calls) /\ j.applied \in {i.applied, i.applied + 1} /\ Continues(i, j)
<1>1. i \in Instances /\ Counted(i) /\ i.phase \notin {"over", "opening"}
  BY DEF Sound, Quiet
<1>2. /\ i.made \in Nat /\ i.applied \in Nat
      /\ i.reports \in Seq(Reports) /\ Len(i.reports) \in Nat
  <2>1. i.reports \in Queues
    BY <1>1 DEF Instances
  <2>2. QED BY <1>1, <2>1, QueueIsSequence, MaxReportsType, LenProperties DEF Instances
<1>3. Len(i.reports) >= 1
  BY <1>2, EmptySeq
<1>4. j.applied = i.made - Len(i.reports) + 1
  <2>1. Head(i.reports) = i.reports[1]
    BY <1>2, <1>3
  <2>2. QED BY <1>1, <1>2, <1>3, <2>1 DEF Counted
<1>5. Counted(j)
  <2>1. CASE j.reports = i.reports
    BY <1>1, <1>2, <1>3, <1>4, <2>1 DEF Counted
  <2>2. CASE j.reports = Tail(i.reports)
    <3>1. /\ Len(j.reports) = Len(i.reports) - 1
          /\ \A n \in 1..Len(j.reports) : j.reports[n] = i.reports[n + 1]
      BY <1>2, <1>3, <2>2
    <3>2. ASSUME NEW n \in 1..Len(j.reports)
          PROVE  j.reports[n].no = j.made - Len(j.reports) + n
      <4>1. n \in Int /\ n + 1 \in 1..Len(i.reports)
        BY <1>2, <1>3, <3>1
      <4>2. i.reports[n + 1].no = i.made - Len(i.reports) + (n + 1)
        BY <1>1, <4>1 DEF Counted
      <4>3. j.reports[n].no = i.made - Len(i.reports) + (n + 1)
        BY <3>1, <4>2
      <4>4. /\ j.made - Len(j.reports) = i.made - Len(i.reports) + 1
            /\ j.made - Len(j.reports) \in Int /\ i.made - Len(i.reports) \in Int
        BY <1>2, <3>1
      <4>5. QED BY <4>1, <4>3, <4>4
    <3>3. j.made - Len(j.reports) = i.made - Len(i.reports) + 1 /\ Len(j.reports) <= j.made
      BY <1>1, <1>2, <1>3, <3>1 DEF Counted
    <3>4. QED BY <1>2, <1>3, <1>4, <3>2, <3>3 DEF Counted
  <2>3. QED BY <2>1, <2>2
<1>6. Budgeted(j, calls)
  BY <1>1 DEF Sound, Budgeted
<1>7. j.applied \in {i.applied, i.applied + 1}
  BY <1>1, <1>2, <1>4 DEF Counted
<1>8. QED BY <1>1, <1>5, <1>6, <1>7 DEF Sound, Quiet, Continues

-----------------------------------------------------------------------------
(* One step of an instance *)

LEMMA BecomesIs ==
    ASSUME TypeOK, NEW d \in Devices, NEW s \in Slots, NEW i, Becomes(d, s, i)
    PROVE  /\ instances'[d][s] = i
           /\ \A e \in Devices, t \in Slots : (e # d \/ t # s) => instances'[e][t] = I(e, t)
           /\ i \in Instances => instances' \in [Devices -> [Slots -> Instances]]
BY DEF TypeOK, Becomes, I

\* The instance has become one that is sound, and the calls are counted
SoundStep(d, s) ==
    /\ Continues(I(d, s), instances'[d][s])
    /\ InOrder(I(d, s).applied, instances'[d][s].applied)
    /\ callsMade' \in {callsMade, callsMade + 1}
    /\ Sound(instances'[d][s], callsMade')
    /\ \A e \in Devices, t \in Slots : (e # d \/ t # s) => instances'[e][t] = I(e, t)
    /\ instances' \in [Devices -> [Slots -> Instances]]

LEMMA SoundIsStep ==
    ASSUME TypeOK, NEW d \in Devices, NEW s \in Slots, NEW i, Becomes(d, s, i),
           callsMade' \in {callsMade, callsMade + 1}, Sound(i, callsMade'),
           InOrder(I(d, s).applied, i.applied), Continues(I(d, s), i)
    PROVE  SoundStep(d, s)
<1>1. i \in Instances
  BY DEF Sound
<1>2. QED BY <1>1, BecomesIs DEF SoundStep

LEMMA FaultType ==
    ASSUME TypeOK, Fault \/ NoFault
    PROVE  faults' \in 0..MaxFaults /\ callsMade' = callsMade
BY FleetAssumption DEF TypeOK, Fault, NoFault

LEMMA CallsType == TypeOK => callsMade \in Nat /\ callsMade <= MaxCalls
BY FleetAssumption DEF TypeOK

\* what a step leaves of the instance, when it makes and sends no report
PlainStep(d, s, j) ==
    /\ Becomes(d, s, j) /\ callsMade' = callsMade
    /\ j \in Instances
    /\ j.reports = I(d, s).reports /\ j.made = I(d, s).made
    /\ j.applied = I(d, s).applied /\ j.update = I(d, s).update
    /\ j.cancelled = I(d, s).cancelled /\ I(d, s).phase # "over"
    /\ j.phase \in {"over", "opening", "setup"} => I(d, s).phase \in {"over", "opening", "setup"}
    /\ j.phase \in {"over", "opening"} => j.loop = "none"

LEMMA PlainIsSound ==
    ASSUME TypeOK, AllSound, NEW d \in Devices, NEW s \in Slots, NEW j, PlainStep(d, s, j)
    PROVE  SoundStep(d, s)
<1>1. callsMade \in Nat /\ Sound(I(d, s), callsMade)
  BY CallsType DEF AllSound
<1>2. Sound(j, callsMade)
  BY <1>1, SoundKept DEF PlainStep
<1>3. QED BY <1>2, SoundIsStep DEF PlainStep, InOrder, Continues

LEMMA OverStepSound ==
    ASSUME TypeOK, NEW d \in Devices, NEW s \in Slots, Becomes(d, s, Over), callsMade' = callsMade
    PROVE  SoundStep(d, s)
<1>1. Sound(Over, callsMade)
  BY OverIsSound, CallsType
<1>2. Over.applied = 0 /\ Over.phase = "over"
  BY DEF Over
<1>3. QED BY <1>1, <1>2, SoundIsStep DEF InOrder, Continues

LEMMA LoopIsOpen ==
    ASSUME AllSound, NEW d \in Devices, NEW s \in Slots, I(d, s).loop = "on"
    PROVE  I(d, s).phase \notin {"over", "opening"}
BY DEF AllSound, Sound, Quiet

LEMMA OpensSound ==
    ASSUME TypeOK, AllSound, NEW d \in Devices, NEW s \in Slots, Opens(d, s)
    PROVE  SoundStep(d, s)
<1> DEFINE i == I(d, s)
           j == [I(d, s) EXCEPT !.phase = "setup", !.client = "good", !.loop = "on"]
<1>1. i \in Instances
  BY DEF TypeOK, I
<1>2. Becomes(d, s, j) /\ callsMade' = callsMade
  BY FaultType DEF Opens
<1>3. i.phase = "opening"
  BY DEF Opens
<1>4. PlainStep(d, s, j)
  BY <1>1, <1>2, <1>3 DEF PlainStep, Instances
<1>5. QED BY <1>4, PlainIsSound

LEMMA SetUpFailsSound ==
    ASSUME TypeOK, AllSound, NEW d \in Devices, NEW s \in Slots, SetUpFails(d, s)
    PROVE  SoundStep(d, s)
<1> DEFINE i == I(d, s)
           j == [I(d, s) EXCEPT !.phase = "closing"]
<1>1. i \in Instances
  BY DEF TypeOK, I
<1>2. Becomes(d, s, j) /\ callsMade' = callsMade
  BY FaultType DEF SetUpFails
<1>3. i.phase = "setup"
  BY DEF SetUpFails
<1>4. PlainStep(d, s, j)
  BY <1>1, <1>2, <1>3 DEF PlainStep, Instances
<1>5. QED BY <1>4, PlainIsSound

LEMMA LoopsEndSound ==
    ASSUME TypeOK, AllSound, NEW d \in Devices, NEW s \in Slots, LoopsEnd(d, s)
    PROVE  SoundStep(d, s)
<1> DEFINE i == I(d, s)
           j == [I(d, s) EXCEPT !.phase = "closing"]
<1>1. i \in Instances
  BY DEF TypeOK, I
<1>2. Becomes(d, s, j) /\ callsMade' = callsMade
  BY FaultType DEF LoopsEnd
<1>3. i.phase = "running"
  BY DEF LoopsEnd
<1>4. PlainStep(d, s, j)
  BY <1>1, <1>2, <1>3 DEF PlainStep, Instances
<1>5. QED BY <1>4, PlainIsSound

LEMMA ReconnectsSound ==
    ASSUME TypeOK, AllSound, NEW d \in Devices, NEW s \in Slots, Reconnects(d, s)
    PROVE  SoundStep(d, s)
<1> DEFINE i == I(d, s)
           j == [I(d, s) EXCEPT !.client = "good"]
<1>1. i \in Instances
  BY DEF TypeOK, I
<1>2. Becomes(d, s, j) /\ callsMade' = callsMade
  BY FaultType DEF Reconnects
<1>3. i.phase \notin {"over", "opening"}
  BY LoopIsOpen DEF Reconnects
<1>4. PlainStep(d, s, j)
  BY <1>1, <1>2, <1>3 DEF PlainStep, Instances
<1>5. QED BY <1>4, PlainIsSound

LEMMA ReconnectFailsSound ==
    ASSUME TypeOK, AllSound, NEW d \in Devices, NEW s \in Slots, ReconnectFails(d, s)
    PROVE  SoundStep(d, s)
<1> DEFINE i == I(d, s)
           j == [I(d, s) EXCEPT !.client = "none", !.loop = Top(I(d, s))]
<1>1. i \in Instances
  BY DEF TypeOK, I
<1>2. Becomes(d, s, j) /\ callsMade' = callsMade
  BY FaultType DEF ReconnectFails
<1>3. i.phase \notin {"over", "opening"}
  BY LoopIsOpen DEF ReconnectFails
<1>4. PlainStep(d, s, j)
  BY <1>1, <1>2, <1>3 DEF PlainStep, Instances, Top
<1>5. QED BY <1>4, PlainIsSound

LEMMA SendsMessagesSound ==
    ASSUME TypeOK, AllSound, NEW d \in Devices, NEW s \in Slots, SendsMessages(d, s)
    PROVE  SoundStep(d, s)
<1> DEFINE i == I(d, s)
           j == [I(d, s) EXCEPT !.loop = Top(I(d, s))]
<1>1. i \in Instances
  BY DEF TypeOK, I
<1>2. Becomes(d, s, j) /\ callsMade' = callsMade
  BY FaultType DEF SendsMessages
<1>3. i.phase \notin {"over", "opening"}
  BY LoopIsOpen DEF SendsMessages
<1>4. PlainStep(d, s, j)
  BY <1>1, <1>2, <1>3 DEF PlainStep, Instances, Top
<1>5. QED BY <1>4, PlainIsSound

LEMMA MessagesFailSound ==
    ASSUME TypeOK, AllSound, NEW d \in Devices, NEW s \in Slots, MessagesFail(d, s)
    PROVE  SoundStep(d, s)
<1> DEFINE i == I(d, s)
           j == Broken(I(d, s))
<1>1. i \in Instances
  BY DEF TypeOK, I
<1>2. Becomes(d, s, j) /\ callsMade' = callsMade
  BY FaultType DEF MessagesFail
<1>3. i.phase \notin {"over", "opening"}
  BY LoopIsOpen DEF MessagesFail
<1>4. PlainStep(d, s, j)
  BY <1>1, <1>2, <1>3 DEF PlainStep, Instances, Top, Broken
<1>5. QED BY <1>4, PlainIsSound

LEMMA SendLoopDiesSound ==
    ASSUME TypeOK, AllSound, NEW d \in Devices, NEW s \in Slots, SendLoopDies(d, s)
    PROVE  SoundStep(d, s)
<1> DEFINE i == I(d, s)
           j == [I(d, s) EXCEPT !.loop = "dead"]
<1>1. i \in Instances
  BY DEF TypeOK, I
<1>2. Becomes(d, s, j) /\ callsMade' = callsMade
  BY FaultType DEF SendLoopDies
<1>3. i.phase \notin {"over", "opening"}
  BY LoopIsOpen DEF SendLoopDies
<1>4. PlainStep(d, s, j)
  BY <1>1, <1>2, <1>3 DEF PlainStep, Instances
<1>5. QED BY <1>4, PlainIsSound

LEMMA OpenFailsSound ==
    ASSUME TypeOK, NEW d \in Devices, NEW s \in Slots, OpenFails(d, s)
    PROVE  SoundStep(d, s)
<1>1. callsMade' = callsMade
  BY FaultType DEF OpenFails
<1>2. QED BY <1>1, OverStepSound DEF OpenFails

LEMMA ClosesSound ==
    ASSUME TypeOK, NEW d \in Devices, NEW s \in Slots, Closes(d, s)
    PROVE  SoundStep(d, s)
<1>1. callsMade' = callsMade
  BY FaultType DEF Closes
<1>2. QED BY <1>1, OverStepSound DEF Closes

LEMMA CloseFailsSound ==
    ASSUME TypeOK, NEW d \in Devices, NEW s \in Slots, CloseFails(d, s)
    PROVE  SoundStep(d, s)
<1>1. callsMade' = callsMade
  BY FaultType DEF CloseFails
<1>2. QED BY <1>1, OverStepSound DEF CloseFails

\* a report is made, and what has still to be reported is allowed for
LEMMA MadeStepSound ==
    ASSUME TypeOK, AllSound, NEW d \in Devices, NEW s \in Slots, NEW status \in Statuses, NEW j,
           j = [Made(I(d, s), status) EXCEPT !.phase = j.phase, !.update = j.update],
           j.phase \in {"running", "closing"}, j.update \in BOOLEAN, I(d, s).phase # "over",
           Becomes(d, s, j), callsMade' \in {callsMade, callsMade + 1}, callsMade' <= MaxCalls,
           I(d, s).made + 1 + (IF j.update THEN 1 ELSE 0) <= 2 * callsMade' + 1
    PROVE  SoundStep(d, s)
<1>1. callsMade' \in 0..MaxCalls
  BY CallsType, FleetAssumption
<1>2. I(d, s) \in Instances /\ Counted(I(d, s)) /\ Quiet(I(d, s))
  BY DEF AllSound, Sound
<1>3. Sound(j, callsMade')
  BY <1>1, <1>2, MadeIsSound
<1>4. j.applied = I(d, s).applied /\ j.cancelled = I(d, s).cancelled
  BY <1>2 DEF Made, Instances
<1>5. QED BY <1>3, <1>4, SoundIsStep DEF InOrder, Continues

LEMMA SetUpSound ==
    ASSUME TypeOK, AllSound, NEW d \in Devices, NEW s \in Slots, SetUp(d, s)
    PROVE  SoundStep(d, s)
<1> DEFINE i == I(d, s)
           j == [Made(i, "other") EXCEPT !.phase = "running"]
<1>1. i \in Instances /\ i.phase = "setup" /\ i.made = 0 /\ ~i.update
  BY DEF SetUp, AllSound, Sound, Budgeted
<1>2. /\ Becomes(d, s, j) /\ callsMade' = callsMade
      /\ callsMade \in Nat /\ callsMade <= MaxCalls
  BY FaultType, CallsType DEF SetUp
<1>3. j.phase = "running" /\ j.update = FALSE
  BY <1>1 DEF Made, Instances
<1>4. j = [Made(i, "other") EXCEPT !.phase = j.phase, !.update = j.update]
  BY <1>1, <1>3 DEF Made, Instances
<1>5. i.made + 1 + (IF j.update THEN 1 ELSE 0) <= 2 * callsMade' + 1
  BY <1>1, <1>2, <1>3
<1> HIDE DEF j
<1>6. QED BY <1>1, <1>2, <1>3, <1>4, <1>5, MadeStepSound DEF Statuses

LEMMA CalledType ==
    ASSUME TypeOK, AllSound, NEW d \in Devices, NEW s \in Slots, Called(d, s)
    PROVE  /\ I(d, s) \in Instances /\ I(d, s).phase \in {"running", "closing"}
           /\ callsMade' = callsMade + 1 /\ callsMade' <= MaxCalls /\ callsMade \in Nat
           /\ faults' = faults
<1>1. callsMade \in Nat /\ callsMade <= MaxCalls /\ MaxCalls \in Nat
  BY CallsType, FleetAssumption
<1>2. QED BY <1>1 DEF Called, Reporting, AllSound, Sound

LEMMA ReportsOtherSound ==
    ASSUME TypeOK, AllSound, NEW d \in Devices, NEW s \in Slots, ReportsOther(d, s)
    PROVE  SoundStep(d, s)
<1> DEFINE i == I(d, s)
           j == Made(i, "other")
<1>1. Becomes(d, s, j) /\ Called(d, s)
  BY DEF ReportsOther
<1>2. /\ i \in Instances /\ i.phase \in {"running", "closing"}
      /\ callsMade' = callsMade + 1 /\ callsMade' <= MaxCalls /\ callsMade \in Nat
  BY <1>1, CalledType
<1>3. j.phase = i.phase /\ j.update = i.update /\ i.update \in BOOLEAN /\ i.made \in Nat
  BY <1>2, MaxReportsType DEF Made, Instances
<1>4. j = [Made(i, "other") EXCEPT !.phase = j.phase, !.update = j.update]
  BY <1>2, <1>3 DEF Made, Instances
<1>5. i.made + 1 + (IF j.update THEN 1 ELSE 0) <= 2 * callsMade' + 1
  <2>1. i.made + (IF i.update THEN 1 ELSE 0) <= 2 * callsMade + 1
    BY DEF AllSound, Sound, Budgeted
  <2>2. QED BY <1>2, <1>3, <2>1
<1> HIDE DEF j
<1>6. QED BY <1>1, <1>2, <1>3, <1>4, <1>5, MadeStepSound DEF Statuses

LEMMA UpdateStartsSound ==
    ASSUME TypeOK, AllSound, NEW d \in Devices, NEW s \in Slots, UpdateStarts(d, s)
    PROVE  SoundStep(d, s)
<1> DEFINE i == I(d, s)
           j == [Made(i, "Running") EXCEPT !.update = TRUE]
<1>1. Becomes(d, s, j) /\ Called(d, s) /\ ~i.update
  BY DEF UpdateStarts
<1>2. /\ i \in Instances /\ i.phase \in {"running", "closing"}
      /\ callsMade' = callsMade + 1 /\ callsMade' <= MaxCalls /\ callsMade \in Nat
  BY <1>1, CalledType
<1>3. j.phase = i.phase /\ j.update = TRUE /\ i.made \in Nat
  BY <1>2, MaxReportsType DEF Made, Instances
<1>4. j = [Made(i, "Running") EXCEPT !.phase = j.phase, !.update = j.update]
  BY <1>2, <1>3 DEF Made, Instances
<1>5. i.made + 1 + (IF j.update THEN 1 ELSE 0) <= 2 * callsMade' + 1
  <2>1. i.made + (IF i.update THEN 1 ELSE 0) <= 2 * callsMade + 1
    BY DEF AllSound, Sound, Budgeted
  <2>2. QED BY <1>1, <1>2, <1>3, <2>1
<1> HIDE DEF j
<1>6. QED BY <1>1, <1>2, <1>3, <1>4, <1>5, MadeStepSound DEF Statuses

LEMMA UpdateEndsSound ==
    ASSUME TypeOK, AllSound, NEW d \in Devices, NEW s \in Slots, UpdateEnds(d, s)
    PROVE  SoundStep(d, s)
<1> DEFINE i == I(d, s)
           j == [Made(i, "Ended") EXCEPT !.update = FALSE]
<1>1. Becomes(d, s, j) /\ i.update /\ i.phase \in {"running", "closing"} /\ i \in Instances
  BY DEF UpdateEnds, Reporting, AllSound, Sound
<1>2. callsMade' = callsMade /\ callsMade <= MaxCalls /\ callsMade \in Nat
  BY FaultType, CallsType DEF UpdateEnds
<1>3. j.phase = i.phase /\ j.update = FALSE /\ i.made \in Nat
  BY <1>1, MaxReportsType DEF Made, Instances
<1>4. j = [Made(i, "Ended") EXCEPT !.phase = j.phase, !.update = j.update]
  BY <1>1, <1>3 DEF Made, Instances
<1>5. i.made + 1 + (IF j.update THEN 1 ELSE 0) <= 2 * callsMade' + 1
  <2>1. i.made + (IF i.update THEN 1 ELSE 0) <= 2 * callsMade + 1
    BY DEF AllSound, Sound, Budgeted
  <2>2. QED BY <1>1, <1>2, <1>3, <2>1
<1> HIDE DEF j
<1>6. QED BY <1>1, <1>2, <1>3, <1>4, <1>5, MadeStepSound DEF Statuses

LEMMA SendsReportSound ==
    ASSUME TypeOK, AllSound, NEW d \in Devices, NEW s \in Slots, SendsReport(d, s)
    PROVE  SoundStep(d, s)
<1> DEFINE i == I(d, s)
           j == [i EXCEPT !.loop = Top(i), !.reports = Tail(@), !.applied = Head(i.reports).no]
<1>1. /\ Becomes(d, s, j) /\ callsMade' = callsMade
      /\ i.loop = "on" /\ i.reports # <<>>
  BY DEF SendsReport
<1>2. callsMade \in Nat /\ Sound(i, callsMade) /\ i \in Instances
  BY CallsType DEF AllSound, Sound
<1>3. Tail(i.reports) \in Queues /\ Head(i.reports).no \in 0..MaxReports
  <2>1. i.reports \in Seq(Reports) /\ Len(i.reports) \in 0..MaxReports
    BY <1>2, QueueIsSequence DEF Instances
  <2>2. /\ Head(i.reports) \in Reports
        /\ Tail(i.reports) \in Seq(Reports) /\ Len(Tail(i.reports)) = Len(i.reports) - 1
    BY <1>1, <2>1, HeadTailProperties
  <2>3. Len(Tail(i.reports)) <= MaxReports
    BY <2>1, <2>2, MaxReportsType
  <2>4. Head(i.reports).no \in 0..MaxReports
    BY <2>2, MaxReportsType DEF Reports
  <2>5. QED BY <2>2, <2>3, <2>4, SequenceIsQueue
<1>4. j \in Instances
  BY <1>2, <1>3 DEF Instances, Top
<1>5. /\ j.reports = Tail(i.reports) /\ j.applied = Head(i.reports).no
      /\ j.made = i.made /\ j.update = i.update /\ j.phase = i.phase /\ j.cancelled = i.cancelled
  BY <1>2 DEF Instances
<1> HIDE DEF j
<1>6. Sound(j, callsMade) /\ j.applied \in {i.applied, i.applied + 1} /\ Continues(i, j)
  BY <1>1, <1>2, <1>4, <1>5, SentIsSound
<1>7. QED BY <1>1, <1>6, SoundIsStep DEF InOrder

LEMMA ReportFailsSound ==
    ASSUME TypeOK, AllSound, NEW d \in Devices, NEW s \in Slots, ReportFails(d, s)
    PROVE  SoundStep(d, s)
<1> DEFINE i == I(d, s)
<1>1. i.loop = "on" /\ i.reports # <<>> /\ callsMade' = callsMade
  BY FaultType DEF ReportFails
<1>2. callsMade \in Nat /\ Sound(i, callsMade) /\ i \in Instances
  BY CallsType DEF AllSound, Sound
<1>3. CASE Becomes(d, s, Broken(i))
  <2> DEFINE j == Broken(i)
  <2>1. i.phase \notin {"over", "opening"}
    BY <1>1, LoopIsOpen
  <2>2. PlainStep(d, s, j)
    BY <1>1, <1>2, <1>3, <2>1 DEF PlainStep, Instances, Broken, Top
  <2> HIDE DEF j
  <2>3. QED BY <2>2, PlainIsSound
<1>4. CASE Becomes(d, s, [Broken(i) EXCEPT !.applied = Head(i.reports).no])
  <2> DEFINE j == [Broken(i) EXCEPT !.applied = Head(i.reports).no]
  <2>1. Head(i.reports).no \in 0..MaxReports
    <3>1. i.reports \in Seq(Reports)
      BY <1>2, QueueIsSequence DEF Instances
    <3>2. Head(i.reports) \in Reports
      BY <1>1, <3>1, HeadTailProperties
    <3>3. QED BY <3>2, MaxReportsType DEF Reports
  <2>2. j \in Instances
    BY <1>2, <2>1 DEF Instances, Broken, Top
  <2>3. /\ j.reports = i.reports /\ j.applied = Head(i.reports).no
        /\ j.made = i.made /\ j.update = i.update /\ j.phase = i.phase /\ j.cancelled = i.cancelled
    BY <1>2 DEF Instances, Broken
  <2>4. Becomes(d, s, j)
    BY <1>4
  <2> HIDE DEF j
  <2>5. Sound(j, callsMade) /\ j.applied \in {i.applied, i.applied + 1} /\ Continues(i, j)
    BY <1>1, <1>2, <2>2, <2>3, SentIsSound
  <2>6. QED BY <1>1, <2>4, <2>5, SoundIsStep DEF InOrder
<1>5. QED BY <1>3, <1>4 DEF ReportFails

-----------------------------------------------------------------------------
(* Steps of the supervisor *)

\* one that is there is cancelled or left alone, or opened anew
Managed(d, s) ==
    \/ instances'[d][s] \in {I(d, s), [I(d, s) EXCEPT !.cancelled = TRUE]}
    \/ \E key \in Keys : instances'[d][s] = Opening(key)

LEMMA CancelledIs ==
    ASSUME TypeOK, NEW ds, NEW d \in Devices, NEW s \in Slots
    PROVE  Cancelled(instances, ds)[d][s] = IF d \in ds /\ tasks[d] = s /\ I(d, s).phase # "over"
                                            THEN [I(d, s) EXCEPT !.cancelled = TRUE] ELSE I(d, s)
BY DEF Cancelled, I

LEMMA CancelledOrNot ==
    ASSUME TypeOK, NEW ds, NEW d \in Devices, NEW s \in Slots
    PROVE  Cancelled(instances, ds)[d][s] \in {I(d, s), [I(d, s) EXCEPT !.cancelled = TRUE]}
<1> DEFINE j == [I(d, s) EXCEPT !.cancelled = TRUE]
<1>1. Cancelled(instances, ds)[d][s] = IF d \in ds /\ tasks[d] = s /\ I(d, s).phase # "over" THEN j ELSE I(d, s)
  BY CancelledIs
<1> HIDE DEF j
<1>2. Cancelled(instances, ds)[d][s] \in {I(d, s), j}
  BY <1>1
<1>3. QED BY <1>2 DEF j

LEMMA ReadFailsManages ==
    ASSUME TypeOK, ReadFails, NEW d \in Devices, NEW s \in Slots
    PROVE  Managed(d, s)
<1>1. instances' = Cancelled(instances, Devices)
  BY DEF ReadFails
<1>2. Cancelled(instances, Devices)[d][s] \in {I(d, s), [I(d, s) EXCEPT !.cancelled = TRUE]}
  BY CancelledOrNot
<1>3. QED BY <1>1, <1>2 DEF Managed

\* what Acts finds and chooses
Listed   == {d \in Devices : supervisor.list[d] # NoKey}
New      == {d \in Listed : ~Live(d)}
Chosen(d) == CHOOSE s \in Free(d) : TRUE

LEMMA ActsIs ==
    ASSUME TypeOK, Acts
    PROVE  /\ \A d \in New : Chosen(d) \in Slots /\ I(d, Chosen(d)).phase = "over" /\ supervisor.list[d] \in Keys
           /\ \A d \in Devices : tasks'[d] = IF d \in New THEN Chosen(d)
                                              ELSE IF d \in Listed THEN tasks[d] ELSE NoTask
           /\ tasks' \in [Devices -> Slots \union {NoTask}]
           /\ \A d \in Devices, s \in Slots :
                 instances'[d][s] = IF d \in New /\ s = Chosen(d) THEN Opening(supervisor.list[d])
                                    ELSE Cancelled(instances, Devices \ Listed)[d][s]
           /\ blurred' = blurred \union {d \in New : Free(d) # Slots}
<1>1. ASSUME NEW d \in New
      PROVE  Chosen(d) \in Slots /\ I(d, Chosen(d)).phase = "over" /\ supervisor.list[d] \in Keys
  <2>1. Free(d) # {} /\ d \in Devices /\ supervisor.list[d] # NoKey
    BY <1>1 DEF Acts, New, Listed
  <2>2. Chosen(d) \in Free(d)
    BY <2>1 DEF Chosen
  <2>3. supervisor.list[d] \in Keys
    BY <2>1 DEF TypeOK, Supervisors
  <2>4. QED BY <2>2, <2>3 DEF Free, I
<1>2. tasks' = [d \in Devices |-> IF d \in New THEN Chosen(d) ELSE IF d \in Listed THEN tasks[d] ELSE NoTask]
  BY DEF Acts, New, Listed, Chosen
<1>3. tasks' \in [Devices -> Slots \union {NoTask}]
  BY <1>1, <1>2 DEF TypeOK
<1>4. instances' = [d \in Devices |->
                       IF d \in New
                       THEN [Cancelled(instances, Devices \ Listed)[d] EXCEPT ![Chosen(d)] = Opening(supervisor.list[d])]
                       ELSE Cancelled(instances, Devices \ Listed)[d]]
  BY DEF Acts, New, Listed, Chosen
<1>5. blurred' = blurred \union {d \in New : Free(d) # Slots}
  BY DEF Acts, New, Listed
<1>6. ASSUME NEW d \in Devices, NEW s \in Slots
      PROVE  instances'[d][s] = IF d \in New /\ s = Chosen(d) THEN Opening(supervisor.list[d])
                                ELSE Cancelled(instances, Devices \ Listed)[d][s]
  <2> DEFINE c == Cancelled(instances, Devices \ Listed)
  <2>1. c[d] = [t \in Slots |-> c[d][t]]
    BY DEF Cancelled
  <2> HIDE DEF c
  <2>2. CASE d \in New
    BY <1>4, <2>1, <2>2 DEF c
  <2>3. CASE d \notin New
    BY <1>4, <2>3 DEF c
  <2>4. QED BY <2>2, <2>3 DEF c
<1>7. QED BY <1>1, <1>2, <1>3, <1>5, <1>6

LEMMA ActsManages ==
    ASSUME TypeOK, Acts, NEW d \in Devices, NEW s \in Slots
    PROVE  Managed(d, s)
<1>1. CASE d \in New /\ s = Chosen(d)
  BY <1>1, ActsIs DEF Managed
<1>2. CASE ~(d \in New /\ s = Chosen(d))
  <2>1. instances'[d][s] = Cancelled(instances, Devices \ Listed)[d][s]
    BY <1>2, ActsIs
  <2>2. QED BY <2>1, CancelledOrNot DEF Managed
<1>3. QED BY <1>1, <1>2

LEMMA ManagedIsSound ==
    ASSUME TypeOK, AllSound, NEW d \in Devices, NEW s \in Slots, Managed(d, s)
    PROVE  Sound(instances'[d][s], callsMade)
<1> DEFINE i == I(d, s)
<1>1. callsMade \in Nat /\ Sound(i, callsMade) /\ i \in Instances
  BY CallsType DEF AllSound, Sound
<1>2. CASE instances'[d][s] = i
  BY <1>1, <1>2
<1>3. CASE instances'[d][s] = [i EXCEPT !.cancelled = TRUE]
  <2> DEFINE j == [i EXCEPT !.cancelled = TRUE]
  <2>1. /\ j \in Instances
        /\ j.reports = i.reports /\ j.made = i.made /\ j.applied = i.applied /\ j.update = i.update
        /\ j.phase = i.phase /\ j.loop = i.loop
    BY <1>1 DEF Instances
  <2> HIDE DEF j
  <2>2. j.phase \in {"over", "opening"} => j.loop = "none"
    BY <1>1, <2>1 DEF Sound, Quiet
  <2>3. Sound(j, callsMade)
    BY <1>1, <2>1, <2>2, SoundKept
  <2>4. QED BY <1>3, <2>3 DEF j
<1>4. CASE \E key \in Keys : instances'[d][s] = Opening(key)
  BY <1>1, <1>4, OpeningIsSound
<1>5. QED BY <1>2, <1>3, <1>4 DEF Managed

-----------------------------------------------------------------------------
(* Every step *)

RestOK ==
    /\ table \in [Devices -> Tables]
    /\ twin \in [Devices -> Statuses]
    /\ supervisor \in Supervisors
    /\ tasks \in [Devices -> Slots \union {NoTask}]
    /\ states \in [Devices -> {"none", "Up", "Down"}]
    /\ blurred \subseteq Devices
    /\ faults \in 0..MaxFaults /\ callsMade \in 0..MaxCalls

InstancesOK == instances \in [Devices -> [Slots -> Instances]]

LEMMA TypeParts == TypeOK <=> RestOK /\ InstancesOK
BY DEF TypeOK, RestOK, InstancesOK

AnyStep(d, s) ==
    \/ InstanceGoesOn(d, s) \/ SendLoop(d, s) \/ SendLoopDies(d, s)
    \/ ReportsOther(d, s) \/ UpdateStarts(d, s) \/ UpdateEnds(d, s)

LEMMA AnyStepSound ==
    ASSUME TypeOK, AllSound, NEW d \in Devices, NEW s \in Slots, AnyStep(d, s)
    PROVE  SoundStep(d, s)
<1>1. CASE Opens(d, s)
  BY <1>1, OpensSound
<1>2. CASE OpenFails(d, s)
  BY <1>2, OpenFailsSound
<1>3. CASE SetUp(d, s)
  BY <1>3, SetUpSound
<1>4. CASE SetUpFails(d, s)
  BY <1>4, SetUpFailsSound
<1>5. CASE LoopsEnd(d, s)
  BY <1>5, LoopsEndSound
<1>6. CASE Closes(d, s)
  BY <1>6, ClosesSound
<1>7. CASE CloseFails(d, s)
  BY <1>7, CloseFailsSound
<1>8. CASE Reconnects(d, s)
  BY <1>8, ReconnectsSound
<1>9. CASE ReconnectFails(d, s)
  BY <1>9, ReconnectFailsSound
<1>10. CASE SendsReport(d, s)
  BY <1>10, SendsReportSound
<1>11. CASE ReportFails(d, s)
  BY <1>11, ReportFailsSound
<1>12. CASE SendsMessages(d, s)
  BY <1>12, SendsMessagesSound
<1>13. CASE MessagesFail(d, s)
  BY <1>13, MessagesFailSound
<1>14. CASE SendLoopDies(d, s)
  BY <1>14, SendLoopDiesSound
<1>15. CASE ReportsOther(d, s)
  BY <1>15, ReportsOtherSound
<1>16. CASE UpdateStarts(d, s)
  BY <1>16, UpdateStartsSound
<1>17. CASE UpdateEnds(d, s)
  BY <1>17, UpdateEndsSound
<1>18. QED
  BY <1>1, <1>2, <1>3, <1>4, <1>5, <1>6, <1>7, <1>8, <1>9, <1>10, <1>11, <1>12, <1>13, <1>14, <1>15, <1>16, <1>17
  DEF AnyStep, InstanceGoesOn, SendLoop

LEMMA AppliedType ==
    ASSUME TypeOK, NEW d \in Devices, NEW s \in Slots, I(d, s).reports # <<>>, Apply(d, I(d, s))
    PROVE  twin' \in [Devices -> Statuses]
<1>1. I(d, s).reports \in Seq(Reports)
  <2>1. I(d, s).reports \in Queues
    BY DEF TypeOK, I, Instances
  <2>2. QED BY <2>1, QueueIsSequence
<1>2. Head(I(d, s).reports) \in Reports
  BY <1>1, HeadTailProperties
<1>3. QED BY <1>2 DEF Apply, Reports, TypeOK

LEMMA AnyStepRest ==
    ASSUME TypeOK, AllSound, NEW d \in Devices, NEW s \in Slots, AnyStep(d, s)
    PROVE  RestOK'
<1>1. RestOK
  BY TypeParts
<1>2. CASE Opens(d, s)
  <2>1. faults' \in 0..MaxFaults /\ callsMade' = callsMade
    BY <1>2, FaultType DEF Opens
  <2>2. QED BY <1>1, <1>2, <2>1 DEF RestOK, Opens, OnlyInstance, State
<1>3. CASE OpenFails(d, s)
  <2>1. faults' \in 0..MaxFaults /\ callsMade' = callsMade
    BY <1>3, FaultType DEF OpenFails
  <2>2. QED BY <1>1, <1>3, <2>1 DEF RestOK, OpenFails, OnlyInstance, State
<1>4. CASE SetUp(d, s)
  <2>1. faults' \in 0..MaxFaults /\ callsMade' = callsMade
    BY <1>4, FaultType DEF SetUp
  <2>2. QED BY <1>1, <1>4, <2>1 DEF RestOK, SetUp, OnlyInstance, State
<1>5. CASE SetUpFails(d, s)
  <2>1. faults' \in 0..MaxFaults /\ callsMade' = callsMade
    BY <1>5, FaultType DEF SetUpFails
  <2>2. QED BY <1>1, <1>5, <2>1 DEF RestOK, SetUpFails, OnlyInstance, State
<1>6. CASE LoopsEnd(d, s)
  <2>1. faults' \in 0..MaxFaults /\ callsMade' = callsMade
    BY <1>6, FaultType DEF LoopsEnd
  <2>2. QED BY <1>1, <1>6, <2>1 DEF RestOK, LoopsEnd, OnlyInstance, State
<1>7. CASE Closes(d, s)
  <2>1. faults' \in 0..MaxFaults /\ callsMade' = callsMade
    BY <1>7, FaultType DEF Closes
  <2>2. QED BY <1>1, <1>7, <2>1 DEF RestOK, Closes, OnlyInstance, State
<1>8. CASE CloseFails(d, s)
  <2>1. faults' \in 0..MaxFaults /\ callsMade' = callsMade
    BY <1>8, FaultType DEF CloseFails
  <2>2. QED BY <1>1, <1>8, <2>1 DEF RestOK, CloseFails, OnlyInstance, State
<1>9. CASE Reconnects(d, s)
  <2>1. faults' \in 0..MaxFaults /\ callsMade' = callsMade
    BY <1>9, FaultType DEF Reconnects
  <2>2. QED BY <1>1, <1>9, <2>1 DEF RestOK, Reconnects, OnlyInstance, State
<1>10. CASE ReconnectFails(d, s)
  <2>1. faults' \in 0..MaxFaults /\ callsMade' = callsMade
    BY <1>10, FaultType DEF ReconnectFails
  <2>2. QED BY <1>1, <1>10, <2>1 DEF RestOK, ReconnectFails, OnlyInstance, State
<1>11. CASE SendsReport(d, s)
  <2>1. twin' \in [Devices -> Statuses]
    BY <1>11, AppliedType DEF SendsReport
  <2>2. QED BY <1>1, <1>11, <2>1 DEF RestOK, SendsReport
<1>12. CASE ReportFails(d, s)
  <2>1. twin' \in [Devices -> Statuses]
    BY <1>1, <1>12, AppliedType DEF ReportFails, RestOK
  <2>2. faults' \in 0..MaxFaults /\ callsMade' = callsMade
    BY <1>12, FaultType DEF ReportFails
  <2>3. QED BY <1>1, <1>12, <2>1, <2>2 DEF RestOK, ReportFails, State
<1>13. CASE SendsMessages(d, s)
  <2>1. faults' \in 0..MaxFaults /\ callsMade' = callsMade
    BY <1>13, FaultType DEF SendsMessages
  <2>2. QED BY <1>1, <1>13, <2>1 DEF RestOK, SendsMessages, OnlyInstance, State
<1>14. CASE MessagesFail(d, s)
  <2>1. faults' \in 0..MaxFaults /\ callsMade' = callsMade
    BY <1>14, FaultType DEF MessagesFail
  <2>2. QED BY <1>1, <1>14, <2>1 DEF RestOK, MessagesFail, OnlyInstance, State
<1>15. CASE SendLoopDies(d, s)
  <2>1. faults' \in 0..MaxFaults /\ callsMade' = callsMade
    BY <1>15, FaultType DEF SendLoopDies
  <2>2. QED BY <1>1, <1>15, <2>1 DEF RestOK, SendLoopDies, OnlyInstance, State
<1>16. CASE ReportsOther(d, s)
  <2>1. callsMade' \in 0..MaxCalls /\ faults' = faults
    BY <1>16, CalledType DEF ReportsOther
  <2>2. QED BY <1>1, <1>16, <2>1 DEF RestOK, ReportsOther, OnlyInstance
<1>17. CASE UpdateStarts(d, s)
  <2>1. callsMade' \in 0..MaxCalls /\ faults' = faults
    BY <1>17, CalledType DEF UpdateStarts
  <2>2. QED BY <1>1, <1>17, <2>1 DEF RestOK, UpdateStarts, OnlyInstance
<1>18. CASE UpdateEnds(d, s)
  <2>1. faults' \in 0..MaxFaults /\ callsMade' = callsMade
    BY <1>18, FaultType DEF UpdateEnds
  <2>2. QED BY <1>1, <1>18, <2>1 DEF RestOK, UpdateEnds, OnlyInstance, State
<1>19. QED
  BY <1>2, <1>3, <1>4, <1>5, <1>6, <1>7, <1>8, <1>9, <1>10, <1>11, <1>12, <1>13, <1>14, <1>15, <1>16, <1>17, <1>18
  DEF AnyStep, InstanceGoesOn, SendLoop

LEMMA AnyStepInv ==
    ASSUME FleetInv, NEW d \in Devices, NEW s \in Slots, AnyStep(d, s)
    PROVE  FleetInv'
<1>1. TypeOK /\ AllSound /\ callsMade \in Nat
  BY CallsType DEF FleetInv
<1>2. SoundStep(d, s)
  BY <1>1, AnyStepSound
<1>3. RestOK' /\ InstancesOK'
  BY <1>1, <1>2, AnyStepRest DEF SoundStep, InstancesOK
<1>4. ASSUME NEW e \in Devices, NEW t \in Slots
      PROVE  Sound(instances'[e][t], callsMade')
  <2>1. CASE e = d /\ t = s
    BY <1>2, <2>1 DEF SoundStep
  <2>2. CASE e # d \/ t # s
    <3>1. instances'[e][t] = I(e, t) /\ callsMade' \in {callsMade, callsMade + 1}
      BY <1>2, <2>2 DEF SoundStep
    <3>2. Sound(I(e, t), callsMade) /\ Sound(I(e, t), callsMade + 1)
      BY <1>1, MoreCalls DEF AllSound
    <3>3. QED BY <3>1, <3>2
  <2>3. QED BY <2>1, <2>2
<1>5. AllSound'
  BY <1>4 DEF AllSound, I
<1>6. TypeOK'
  BY <1>3, TypeParts, PTL
<1>7. QED BY <1>5, <1>6 DEF FleetInv

LEMMA RowsInv ==
    ASSUME FleetInv, NEW d \in Devices, AddRow(d) \/ RemoveRow(d)
    PROVE  FleetInv'
<1>1. RestOK /\ InstancesOK /\ AllSound
  BY TypeParts DEF FleetInv
<1>2. table' \in [Devices -> Tables]
  <2>1. CASE AddRow(d)
    <3>1. table[d].rows + 1 \in 0..MaxRows /\ table[d].rows + 1 \in Keys
      BY <1>1, <2>1, FleetAssumption DEF RestOK, Tables, AddRow, Keys
    <3>2. PICK key \in {table[d].key, table[d].rows + 1} \ {NoKey} :
              table' = [table EXCEPT ![d] = [key |-> key, there |-> TRUE, rows |-> @.rows + 1]]
      BY <2>1 DEF AddRow
    <3>3. key \in Keys
      BY <1>1, <3>1, <3>2 DEF RestOK, Tables
    <3>4. QED BY <1>1, <3>1, <3>2, <3>3 DEF RestOK, Tables
  <2>2. CASE RemoveRow(d)
    BY <1>1, <2>2 DEF RemoveRow, RestOK, Tables
  <2>3. QED BY <2>1, <2>2
<1>3. UNCHANGED <<twin, supervisor, tasks, instances, states, blurred, faults, callsMade>>
  BY DEF AddRow, RemoveRow
<1>4. RestOK' /\ InstancesOK'
  BY <1>1, <1>2, <1>3 DEF RestOK, InstancesOK
<1>5. AllSound'
  BY <1>1, <1>3 DEF AllSound, I
<1>6. TypeOK'
  BY <1>4, TypeParts, PTL
<1>7. QED BY <1>5, <1>6 DEF FleetInv

LEMMA ReadsInv == ASSUME FleetInv, Reads PROVE FleetInv'
<1>1. RestOK /\ InstancesOK /\ AllSound
  BY TypeParts DEF FleetInv
<1>2. supervisor' \in Supervisors
  BY <1>1 DEF Reads, Supervisors, RestOK, Tables
<1>3. UNCHANGED <<table, twin, tasks, instances, states, blurred, faults, callsMade>>
  BY DEF Reads
<1>4. RestOK' /\ InstancesOK'
  BY <1>1, <1>2, <1>3 DEF RestOK, InstancesOK
<1>5. AllSound'
  BY <1>1, <1>3 DEF AllSound, I
<1>6. TypeOK'
  BY <1>4, TypeParts, PTL
<1>7. QED BY <1>5, <1>6 DEF FleetInv

LEMMA StartedType == Started \in Supervisors /\ [Started EXCEPT !.step = "ended"] \in Supervisors
BY DEF Started, Supervisors

LEMMA ManagedInv ==
    ASSUME FleetInv, ReadFails \/ Acts
    PROVE  FleetInv'
<1>1. TypeOK /\ RestOK /\ InstancesOK /\ AllSound
  BY TypeParts DEF FleetInv
<1>2. /\ \A d \in Devices, s \in Slots : Managed(d, s)
      /\ callsMade' = callsMade
  BY <1>1, ReadFailsManages, ActsManages, FaultType DEF ReadFails, Acts
<1>3. \A d \in Devices, s \in Slots : Sound(instances'[d][s], callsMade)
  BY <1>1, <1>2, ManagedIsSound
<1>4. AllSound'
  BY <1>2, <1>3 DEF AllSound, I
<1>5. InstancesOK'
  <2>1. instances' = [d \in Devices |-> [s \in Slots |-> instances'[d][s]]]
    <3>1. CASE ReadFails
      BY <3>1 DEF ReadFails, Cancelled
    <3>2. CASE Acts
      BY <3>2 DEF Acts, Cancelled
    <3>3. QED BY <3>1, <3>2
  <2>2. \A d \in Devices, s \in Slots : instances'[d][s] \in Instances
    BY <1>3 DEF Sound
  <2> DEFINE is == instances'
  <2> HIDE DEF is
  <2>3. is = [d \in Devices |-> [s \in Slots |-> is[d][s]]] => is \in [Devices -> [Slots -> Instances]]
    BY <2>2 DEF is
  <2>4. QED BY <2>1, <2>3 DEF is, InstancesOK
<1>6. RestOK'
  <2>1. CASE ReadFails
    <3>1. faults' \in 0..MaxFaults
      BY <1>1, <2>1, FaultType DEF ReadFails
    <3>2. QED BY <1>1, <1>2, <2>1, <3>1, StartedType DEF ReadFails, RestOK, NoTasks
  <2>2. CASE Acts
    <3>1. tasks' \in [Devices -> Slots \union {NoTask}] /\ blurred' \subseteq Devices
      BY <1>1, <2>2, ActsIs DEF RestOK, New, Listed
    <3>2. supervisor' = Started /\ UNCHANGED <<table, twin, states, faults, callsMade>>
      BY <2>2 DEF Acts
    <3>3. QED BY <1>1, <3>1, <3>2, StartedType DEF RestOK
  <2>3. QED BY <2>1, <2>2
<1>7. TypeOK'
  BY <1>5, <1>6, TypeParts, PTL
<1>8. QED BY <1>4, <1>7 DEF FleetInv

LEMMA BootsInv ==
    ASSUME FleetInv, ProcessStops \/ ForcedRestart
    PROVE  FleetInv'
<1>1. TypeOK /\ RestOK /\ callsMade \in Nat
  BY TypeParts, CallsType DEF FleetInv
<1>2. Boots /\ faults' \in 0..MaxFaults /\ callsMade' = callsMade
  BY <1>1, FaultType DEF ProcessStops, ForcedRestart
<1>3. RestOK'
  BY <1>1, <1>2, StartedType DEF Boots, RestOK, NoTasks, NoStates
<1>4. \A d \in Devices, s \in Slots : instances'[d][s] = Over
  BY <1>2 DEF Boots, AllOver
<1>5. Sound(Over, callsMade)
  BY <1>1, OverIsSound
<1>6. AllSound'
  BY <1>2, <1>4, <1>5 DEF AllSound, I
<1>7. InstancesOK'
  BY <1>2, <1>5 DEF Boots, AllOver, InstancesOK, Sound
<1>8. TypeOK'
  BY <1>3, <1>7, TypeParts, PTL
<1>9. QED BY <1>6, <1>8 DEF FleetInv

LEMMA FleetInvInit == FleetInit => FleetInv
<1> SUFFICES ASSUME FleetInit PROVE FleetInv
  OBVIOUS
<1>1. callsMade = 0 /\ Sound(Over, 0)
  BY OverIsSound DEF FleetInit
<1>2. \A d \in Devices, s \in Slots : I(d, s) = Over
  BY DEF FleetInit, AllOver, I
<1>3. AllSound
  BY <1>1, <1>2 DEF AllSound
<1>4. InstancesOK
  BY <1>1 DEF FleetInit, AllOver, InstancesOK, Sound
<1>5. RestOK
  BY FleetAssumption, StartedType DEF FleetInit, RestOK, NoTasks, NoStates, Tables, Statuses
<1>6. QED BY <1>3, <1>4, <1>5, TypeParts DEF FleetInv

LEMMA FleetInvStep == FleetInv /\ [FleetNext]_fleetVars => FleetInv'
<1> SUFFICES ASSUME FleetInv, [FleetNext]_fleetVars PROVE FleetInv'
  OBVIOUS
<1>1. CASE \E d \in Devices : AddRow(d) \/ RemoveRow(d)
  BY <1>1, RowsInv
<1>2. CASE Reads
  BY <1>2, ReadsInv
<1>3. CASE Acts \/ ReadFails
  BY <1>3, ManagedInv
<1>4. CASE \E d \in Devices, s \in Slots : AnyStep(d, s)
  BY <1>4, AnyStepInv
<1>5. CASE ProcessStops \/ ForcedRestart
  BY <1>5, BootsInv
<1>6. CASE UNCHANGED fleetVars
  <2>1. UNCHANGED <<instances, callsMade>> /\ AllSound /\ RestOK /\ InstancesOK
    BY <1>6, TypeParts DEF fleetVars, FleetInv
  <2>2. AllSound'
    BY <2>1 DEF AllSound, I
  <2>3. RestOK' /\ InstancesOK'
    BY <1>6, <2>1 DEF fleetVars, RestOK, InstancesOK
  <2>4. TypeOK'
    BY <2>3, TypeParts, PTL
  <2>5. QED BY <2>2, <2>4 DEF FleetInv
<1>7. QED BY <1>1, <1>2, <1>3, <1>4, <1>5, <1>6 DEF FleetNext, SupervisorGoesOn, AnyStep

LEMMA FleetInvAlways == FleetSpec => []FleetInv
<1>1. FleetInit => FleetInv
  BY FleetInvInit
<1>2. FleetInv /\ [FleetNext]_fleetVars => FleetInv'
  BY FleetInvStep
<1>3. QED BY <1>1, <1>2, PTL DEF FleetSpec

(* The simulator's tables, queues and counters stay in their ranges: no       *)
(* instance makes more reports than its start and its calls give it.          *)
THEOREM FleetTypeCorrect == FleetSpec => []TypeOK
<1>1. FleetInv => TypeOK
  BY DEF FleetInv
<1>2. QED BY <1>1, FleetInvAlways, PTL

-----------------------------------------------------------------------------
(* Reports *)

LEMMA StepInOrder ==
    ASSUME FleetInv, FleetNext, NEW d \in Devices, NEW s \in Slots
    PROVE  InOrder(I(d, s).applied, instances'[d][s].applied)
<1>1. TypeOK /\ AllSound
  BY DEF FleetInv
<1>2. CASE instances' = instances
  BY <1>2 DEF InOrder, I
<1>3. CASE Acts \/ ReadFails
  <2>1. Managed(d, s)
    BY <1>1, <1>3, ActsManages, ReadFailsManages
  <2>2. \A key : Opening(key).applied = 0
    BY DEF Opening, Over
  <2>3. I(d, s) \in Instances
    BY <1>1 DEF TypeOK, I
  <2>4. [I(d, s) EXCEPT !.cancelled = TRUE].applied = I(d, s).applied
    BY <2>3 DEF Instances
  <2>5. instances'[d][s].applied \in {0, I(d, s).applied}
    BY <2>1, <2>2, <2>4 DEF Managed
  <2>6. QED BY <2>5 DEF InOrder
<1>4. ASSUME NEW e \in Devices, NEW t \in Slots, AnyStep(e, t)
      PROVE  InOrder(I(d, s).applied, instances'[d][s].applied)
  <2>1. SoundStep(e, t)
    BY <1>1, <1>4, AnyStepSound
  <2>2. CASE d = e /\ s = t
    BY <2>1, <2>2 DEF SoundStep
  <2>3. CASE d # e \/ s # t
    BY <2>1, <2>3 DEF SoundStep, InOrder
  <2>4. QED BY <2>2, <2>3
<1>5. CASE ProcessStops \/ ForcedRestart
  BY <1>5 DEF ProcessStops, ForcedRestart, Boots, AllOver, Over, InOrder
<1>6. (Reads \/ \E e \in Devices : AddRow(e) \/ RemoveRow(e)) => instances' = instances
  BY DEF Reads, AddRow, RemoveRow
<1>7. QED BY <1>2, <1>3, <1>4, <1>5, <1>6 DEF FleetNext, SupervisorGoesOn, AnyStep

(* The hub is told of what an instance reports in the order it was reported,  *)
(* with no report left out, whichever calls fail and answers are lost.        *)
THEOREM ReportsInOrderAlways == FleetSpec => ReportsInOrder
<1> DEFINE Step == \A d \in Devices, s \in Slots :
                       LET now == I(d, s).applied
                           then == instances'[d][s].applied
                       IN  then # 0 => then \in {now, now + 1}
<1>1. FleetInv /\ [FleetNext]_fleetVars => [Step]_fleetVars
  BY StepInOrder DEF InOrder
<1>2. QED BY <1>1, FleetInvAlways, PTL DEF FleetSpec, ReportsInOrder

-----------------------------------------------------------------------------
(* Tasks *)

LEMMA CancelledTold ==
    ASSUME TypeOK, NEW ds, NEW d \in Devices, NEW s \in Slots
    PROVE  LET j == Cancelled(instances, ds)[d][s]
           IN  /\ (j.phase # "over" /\ ~j.cancelled) => (I(d, s).phase # "over" /\ ~I(d, s).cancelled)
               /\ (j.phase # "over" /\ ~j.cancelled /\ tasks[d] = s) => d \notin ds
<1> DEFINE i == I(d, s)
           j == [i EXCEPT !.cancelled = TRUE]
           c == Cancelled(instances, ds)[d][s]
<1>1. i \in Instances
  BY DEF TypeOK, I
<1>2. j.phase = i.phase /\ j.cancelled
  BY <1>1 DEF Instances
<1>3. c = IF d \in ds /\ tasks[d] = s /\ i.phase # "over" THEN j ELSE i
  BY CancelledIs
<1> HIDE DEF i, j, c
<1>4. CASE d \in ds /\ tasks[d] = s /\ i.phase # "over"
  <2>1. c = j
    BY <1>3, <1>4
  <2>2. QED BY <1>2, <2>1 DEF c, i
<1>5. CASE ~(d \in ds /\ tasks[d] = s /\ i.phase # "over")
  <2>1. c = i
    BY <1>3, <1>5
  <2>2. QED BY <1>5, <2>1 DEF c, i
<1>6. QED BY <1>4, <1>5

LEMMA OneInstanceStep ==
    ASSUME FleetInv, OneInstanceEach, FleetNext
    PROVE  OneInstanceEach'
<1> SUFFICES ASSUME NEW d \in Devices, NEW s \in Slots,
                    instances'[d][s].phase # "over", ~instances'[d][s].cancelled
             PROVE  tasks'[d] = s
  BY DEF OneInstanceEach, I
<1>1. TypeOK /\ AllSound
  BY DEF FleetInv
<1>2. (I(d, s).phase # "over" /\ ~I(d, s).cancelled) => tasks[d] = s
  BY DEF OneInstanceEach
<1>3. CASE instances' = instances /\ tasks' = tasks
  BY <1>2, <1>3 DEF I
<1>4. CASE ReadFails
  <2>1. instances' = Cancelled(instances, Devices)
    BY <1>4 DEF ReadFails
  <2>2. QED BY <1>1, <1>2, <2>1, CancelledTold
<1>5. CASE Acts
  <2>1. CASE d \in New /\ s = Chosen(d)
    BY <1>1, <1>5, <2>1, ActsIs
  <2>2. CASE ~(d \in New /\ s = Chosen(d))
    <3>1. instances'[d][s] = Cancelled(instances, Devices \ Listed)[d][s]
      BY <1>1, <1>5, <2>2, ActsIs
    <3>2. I(d, s).phase # "over" /\ ~I(d, s).cancelled /\ tasks[d] = s /\ d \in Listed
      BY <1>1, <1>2, <3>1, CancelledTold
    <3>3. d \notin New
      BY <3>2 DEF New, Live, I, Slots, NoTask
    <3>4. QED BY <1>1, <1>5, <3>2, <3>3, ActsIs
  <2>3. QED BY <2>1, <2>2
<1>6. ASSUME NEW e \in Devices, NEW t \in Slots, AnyStep(e, t)
      PROVE  tasks'[d] = s
  <2>1. SoundStep(e, t)
    BY <1>1, <1>6, AnyStepSound
  <2>2. tasks' = tasks
    BY <1>6 DEF AnyStep, InstanceGoesOn, SendLoop, Opens, OpenFails, SetUp, SetUpFails, LoopsEnd,
             Closes, CloseFails, Reconnects, ReconnectFails, SendsReport, ReportFails,
             SendsMessages, MessagesFail, SendLoopDies, ReportsOther, UpdateStarts, UpdateEnds,
             OnlyInstance
  <2>3. I(d, s).phase # "over" /\ ~I(d, s).cancelled
    BY <2>1 DEF SoundStep, Continues
  <2>4. QED BY <1>2, <2>2, <2>3
<1>7. CASE ProcessStops \/ ForcedRestart
  BY <1>7 DEF ProcessStops, ForcedRestart, Boots, AllOver, Over
<1>8. (Reads \/ \E e \in Devices : AddRow(e) \/ RemoveRow(e)) => instances' = instances /\ tasks' = tasks
  BY DEF Reads, AddRow, RemoveRow
<1>9. QED BY <1>3, <1>4, <1>5, <1>6, <1>7, <1>8 DEF FleetNext, SupervisorGoesOn, AnyStep

(* Whatever the table does and however tasks end, an instance that was not    *)
(* told to stop is the task of its device.                                    *)
THEOREM OneInstanceAlways == FleetSpec => []OneInstanceEach
<1>1. FleetInit => OneInstanceEach
  BY DEF FleetInit, OneInstanceEach, AllOver, Over, I
<1>2. FleetInv /\ OneInstanceEach /\ [FleetNext]_fleetVars => OneInstanceEach'
  <2>1. FleetInv /\ OneInstanceEach /\ FleetNext => OneInstanceEach'
    BY OneInstanceStep
  <2>2. OneInstanceEach /\ UNCHANGED fleetVars => OneInstanceEach'
    BY DEF OneInstanceEach, fleetVars, I
  <2>3. QED BY <2>1, <2>2
<1>3. QED BY <1>1, <1>2, FleetInvAlways, PTL DEF FleetSpec

-----------------------------------------------------------------------------
(* States *)

\* the state an instance gives its device
OpenPhases == {"setup", "running", "closing"}
Shown(i) == IF i.phase \in OpenPhases THEN IF i.client = "good" THEN "Up" ELSE "Down" ELSE "none"

AloneIn(d) == \A s, t \in Slots : I(d, s).phase # "over" /\ I(d, t).phase # "over" => s = t

\* its one instance, if there is any, gives the state
StateInv(d) ==
    /\ AloneIn(d)
    /\ (\A s \in Slots : I(d, s).phase = "over") => states[d] = "none"
    /\ \A s \in Slots : I(d, s).phase # "over" => states[d] = Shown(I(d, s))

StatesInv == \A d \in Devices \ blurred : StateInv(d)

\* a step of an instance shows what the instance has become
ShowStep(d, s) ==
    /\ I(d, s).phase # "over"
    /\ states[d] = Shown(I(d, s)) => states'[d] = Shown(instances'[d][s])
    /\ \A e \in Devices : e # d => states'[e] = states[e]
    /\ blurred' = blurred

LEMMA ShownAs ==
    ASSUME TypeOK, NEW d \in Devices, NEW s \in Slots, NEW j, NEW x, Becomes(d, s, j),
           I(d, s).phase # "over", blurred' = blurred,
           (states' = states /\ x = states[d]) \/ State(d, x),
           states[d] = Shown(I(d, s)) => x = Shown(j)
    PROVE  ShowStep(d, s)
<1>1. instances'[d][s] = j
  BY BecomesIs
<1>2. states'[d] = x /\ \A e \in Devices : e # d => states'[e] = states[e]
  BY DEF State, TypeOK
<1>3. QED BY <1>1, <1>2 DEF ShowStep

LEMMA ReportFailsShown ==
    ASSUME TypeOK, AllSound, NEW d \in Devices, NEW s \in Slots, ReportFails(d, s)
    PROVE  ShowStep(d, s)
<1> DEFINE i == I(d, s)
<1>1. i \in Instances /\ State(d, "Down") /\ blurred' = blurred
  BY DEF ReportFails, AllSound, Sound
<1>2. i.phase \in OpenPhases
  BY <1>1, LoopIsOpen DEF ReportFails, OpenPhases, Instances
<1>3. PICK j \in {Broken(i), [Broken(i) EXCEPT !.applied = Head(i.reports).no]} : Becomes(d, s, j)
  BY DEF ReportFails
<1>4. j.phase = i.phase /\ j.client = "broken"
  BY <1>1, <1>3 DEF Broken, Instances
<1>5. Shown(j) = "Down" /\ i.phase # "over"
  BY <1>2, <1>4 DEF Shown, OpenPhases
<1>6. QED BY <1>1, <1>3, <1>5, ShownAs

LEMMA OpensShown ==
    ASSUME TypeOK, AllSound, NEW d \in Devices, NEW s \in Slots, Opens(d, s)
    PROVE  ShowStep(d, s)
<1> DEFINE i == I(d, s)
           j == [i EXCEPT !.phase = "setup", !.client = "good", !.loop = "on"]
<1>1. i \in Instances
  BY DEF AllSound, Sound
<1>2. Becomes(d, s, j) /\ State(d, "Up") /\ blurred' = blurred
  BY DEF Opens, OnlyInstance
<1>3. i.phase = "opening"
  BY DEF Opens
<1>4. states[d] = Shown(i) => "Up" = Shown(j)
  BY <1>1, <1>2, <1>3 DEF Shown, OpenPhases, Instances, Opens
<1>5. i.phase # "over"
  BY <1>3 DEF OpenPhases
<1> HIDE DEF j
<1>6. QED BY <1>2, <1>4, <1>5, ShownAs

LEMMA OpenFailsShown ==
    ASSUME TypeOK, AllSound, NEW d \in Devices, NEW s \in Slots, OpenFails(d, s)
    PROVE  ShowStep(d, s)
<1> DEFINE i == I(d, s)
           j == Over
<1>1. i \in Instances
  BY DEF AllSound, Sound
<1>2. Becomes(d, s, j) /\ states' = states /\ blurred' = blurred
  BY DEF OpenFails, OnlyInstance
<1>3. i.phase = "opening"
  BY DEF OpenFails
<1>4. states[d] = Shown(i) => states[d] = Shown(j)
  BY <1>1, <1>2, <1>3 DEF Shown, OpenPhases, Instances, OpenFails, Over
<1>5. i.phase # "over"
  BY <1>3 DEF OpenPhases
<1> HIDE DEF j
<1>6. QED BY <1>2, <1>4, <1>5, ShownAs

LEMMA SetUpShown ==
    ASSUME TypeOK, AllSound, NEW d \in Devices, NEW s \in Slots, SetUp(d, s)
    PROVE  ShowStep(d, s)
<1> DEFINE i == I(d, s)
           j == [Made(i, "other") EXCEPT !.phase = "running"]
<1>1. i \in Instances
  BY DEF AllSound, Sound
<1>2. Becomes(d, s, j) /\ states' = states /\ blurred' = blurred
  BY DEF SetUp, OnlyInstance
<1>3. i.phase \in OpenPhases
  BY DEF SetUp, OpenPhases, Reporting
<1>4. states[d] = Shown(i) => states[d] = Shown(j)
  BY <1>1, <1>2, <1>3 DEF Shown, OpenPhases, Instances, SetUp, Made
<1>5. i.phase # "over"
  BY <1>3 DEF OpenPhases
<1> HIDE DEF j
<1>6. QED BY <1>2, <1>4, <1>5, ShownAs

LEMMA SetUpFailsShown ==
    ASSUME TypeOK, AllSound, NEW d \in Devices, NEW s \in Slots, SetUpFails(d, s)
    PROVE  ShowStep(d, s)
<1> DEFINE i == I(d, s)
           j == [i EXCEPT !.phase = "closing"]
<1>1. i \in Instances
  BY DEF AllSound, Sound
<1>2. Becomes(d, s, j) /\ states' = states /\ blurred' = blurred
  BY DEF SetUpFails, OnlyInstance
<1>3. i.phase \in OpenPhases
  BY DEF SetUpFails, OpenPhases, Reporting
<1>4. states[d] = Shown(i) => states[d] = Shown(j)
  BY <1>1, <1>2, <1>3 DEF Shown, OpenPhases, Instances, SetUpFails
<1>5. i.phase # "over"
  BY <1>3 DEF OpenPhases
<1> HIDE DEF j
<1>6. QED BY <1>2, <1>4, <1>5, ShownAs

LEMMA LoopsEndShown ==
    ASSUME TypeOK, AllSound, NEW d \in Devices, NEW s \in Slots, LoopsEnd(d, s)
    PROVE  ShowStep(d, s)
<1> DEFINE i == I(d, s)
           j == [i EXCEPT !.phase = "closing"]
<1>1. i \in Instances
  BY DEF AllSound, Sound
<1>2. Becomes(d, s, j) /\ states' = states /\ blurred' = blurred
  BY DEF LoopsEnd, OnlyInstance
<1>3. i.phase \in OpenPhases
  BY DEF LoopsEnd, OpenPhases, Reporting
<1>4. states[d] = Shown(i) => states[d] = Shown(j)
  BY <1>1, <1>2, <1>3 DEF Shown, OpenPhases, Instances, LoopsEnd
<1>5. i.phase # "over"
  BY <1>3 DEF OpenPhases
<1> HIDE DEF j
<1>6. QED BY <1>2, <1>4, <1>5, ShownAs

LEMMA ClosesShown ==
    ASSUME TypeOK, AllSound, NEW d \in Devices, NEW s \in Slots, Closes(d, s)
    PROVE  ShowStep(d, s)
<1> DEFINE i == I(d, s)
           j == Over
<1>1. i \in Instances
  BY DEF AllSound, Sound
<1>2. Becomes(d, s, j) /\ State(d, "none") /\ blurred' = blurred
  BY DEF Closes, OnlyInstance
<1>3. i.phase \in OpenPhases
  BY DEF Closes, OpenPhases, Reporting
<1>4. states[d] = Shown(i) => "none" = Shown(j)
  BY <1>1, <1>2, <1>3 DEF Shown, OpenPhases, Instances, Closes, Over
<1>5. i.phase # "over"
  BY <1>3 DEF OpenPhases
<1> HIDE DEF j
<1>6. QED BY <1>2, <1>4, <1>5, ShownAs

LEMMA ReconnectsShown ==
    ASSUME TypeOK, AllSound, NEW d \in Devices, NEW s \in Slots, Reconnects(d, s)
    PROVE  ShowStep(d, s)
<1> DEFINE i == I(d, s)
           j == [i EXCEPT !.client = "good"]
<1>1. i \in Instances
  BY DEF AllSound, Sound
<1>2. Becomes(d, s, j) /\ State(d, "Up") /\ blurred' = blurred
  BY DEF Reconnects, OnlyInstance
<1>3. i.phase \in OpenPhases
  BY <1>1, LoopIsOpen DEF Reconnects, OpenPhases, Instances
<1>4. states[d] = Shown(i) => "Up" = Shown(j)
  BY <1>1, <1>2, <1>3 DEF Shown, OpenPhases, Instances, Reconnects
<1>5. i.phase # "over"
  BY <1>3 DEF OpenPhases
<1> HIDE DEF j
<1>6. QED BY <1>2, <1>4, <1>5, ShownAs

LEMMA ReconnectFailsShown ==
    ASSUME TypeOK, AllSound, NEW d \in Devices, NEW s \in Slots, ReconnectFails(d, s)
    PROVE  ShowStep(d, s)
<1> DEFINE i == I(d, s)
           j == [i EXCEPT !.client = "none", !.loop = Top(i)]
<1>1. i \in Instances
  BY DEF AllSound, Sound
<1>2. Becomes(d, s, j) /\ states' = states /\ blurred' = blurred
  BY DEF ReconnectFails, OnlyInstance
<1>3. i.phase \in OpenPhases
  BY <1>1, LoopIsOpen DEF ReconnectFails, OpenPhases, Instances
<1>4. states[d] = Shown(i) => states[d] = Shown(j)
  BY <1>1, <1>2, <1>3 DEF Shown, OpenPhases, Instances, ReconnectFails
<1>5. i.phase # "over"
  BY <1>3 DEF OpenPhases
<1> HIDE DEF j
<1>6. QED BY <1>2, <1>4, <1>5, ShownAs

LEMMA SendsReportShown ==
    ASSUME TypeOK, AllSound, NEW d \in Devices, NEW s \in Slots, SendsReport(d, s)
    PROVE  ShowStep(d, s)
<1> DEFINE i == I(d, s)
           j == [i EXCEPT !.loop = Top(i), !.reports = Tail(@), !.applied = Head(i.reports).no]
<1>1. i \in Instances
  BY DEF AllSound, Sound
<1>2. Becomes(d, s, j) /\ states' = states /\ blurred' = blurred
  BY DEF SendsReport
<1>3. i.phase \in OpenPhases
  BY <1>1, LoopIsOpen DEF SendsReport, OpenPhases, Instances
<1>4. states[d] = Shown(i) => states[d] = Shown(j)
  BY <1>1, <1>2, <1>3 DEF Shown, OpenPhases, Instances, SendsReport
<1>5. i.phase # "over"
  BY <1>3 DEF OpenPhases
<1> HIDE DEF j
<1>6. QED BY <1>2, <1>4, <1>5, ShownAs

LEMMA SendsMessagesShown ==
    ASSUME TypeOK, AllSound, NEW d \in Devices, NEW s \in Slots, SendsMessages(d, s)
    PROVE  ShowStep(d, s)
<1> DEFINE i == I(d, s)
           j == [i EXCEPT !.loop = Top(i)]
<1>1. i \in Instances
  BY DEF AllSound, Sound
<1>2. Becomes(d, s, j) /\ states' = states /\ blurred' = blurred
  BY DEF SendsMessages, OnlyInstance
<1>3. i.phase \in OpenPhases
  BY <1>1, LoopIsOpen DEF SendsMessages, OpenPhases, Instances
<1>4. states[d] = Shown(i) => states[d] = Shown(j)
  BY <1>1, <1>2, <1>3 DEF Shown, OpenPhases, Instances, SendsMessages
<1>5. i.phase # "over"
  BY <1>3 DEF OpenPhases
<1> HIDE DEF j
<1>6. QED BY <1>2, <1>4, <1>5, ShownAs

LEMMA MessagesFailShown ==
    ASSUME TypeOK, AllSound, NEW d \in Devices, NEW s \in Slots, MessagesFail(d, s)
    PROVE  ShowStep(d, s)
<1> DEFINE i == I(d, s)
           j == Broken(i)
<1>1. i \in Instances
  BY DEF AllSound, Sound
<1>2. Becomes(d, s, j) /\ State(d, "Down") /\ blurred' = blurred
  BY DEF MessagesFail, OnlyInstance
<1>3. i.phase \in OpenPhases
  BY <1>1, LoopIsOpen DEF MessagesFail, OpenPhases, Instances
<1>4. states[d] = Shown(i) => "Down" = Shown(j)
  BY <1>1, <1>2, <1>3 DEF Shown, OpenPhases, Instances, MessagesFail, Broken
<1>5. i.phase # "over"
  BY <1>3 DEF OpenPhases
<1> HIDE DEF j
<1>6. QED BY <1>2, <1>4, <1>5, ShownAs

LEMMA SendLoopDiesShown ==
    ASSUME TypeOK, AllSound, NEW d \in Devices, NEW s \in Slots, SendLoopDies(d, s)
    PROVE  ShowStep(d, s)
<1> DEFINE i == I(d, s)
           j == [i EXCEPT !.loop = "dead"]
<1>1. i \in Instances
  BY DEF AllSound, Sound
<1>2. Becomes(d, s, j) /\ states' = states /\ blurred' = blurred
  BY DEF SendLoopDies, OnlyInstance
<1>3. i.phase \in OpenPhases
  BY <1>1, LoopIsOpen DEF SendLoopDies, OpenPhases, Instances
<1>4. states[d] = Shown(i) => states[d] = Shown(j)
  BY <1>1, <1>2, <1>3 DEF Shown, OpenPhases, Instances, SendLoopDies
<1>5. i.phase # "over"
  BY <1>3 DEF OpenPhases
<1> HIDE DEF j
<1>6. QED BY <1>2, <1>4, <1>5, ShownAs

LEMMA ReportsOtherShown ==
    ASSUME TypeOK, AllSound, NEW d \in Devices, NEW s \in Slots, ReportsOther(d, s)
    PROVE  ShowStep(d, s)
<1> DEFINE i == I(d, s)
           j == Made(i, "other")
<1>1. i \in Instances
  BY DEF AllSound, Sound
<1>2. Becomes(d, s, j) /\ states' = states /\ blurred' = blurred
  BY DEF ReportsOther, OnlyInstance
<1>3. i.phase \in OpenPhases
  BY CalledType DEF ReportsOther, OpenPhases
<1>4. states[d] = Shown(i) => states[d] = Shown(j)
  BY <1>1, <1>2, <1>3 DEF Shown, OpenPhases, Instances, ReportsOther, Made
<1>5. i.phase # "over"
  BY <1>3 DEF OpenPhases
<1> HIDE DEF j
<1>6. QED BY <1>2, <1>4, <1>5, ShownAs

LEMMA UpdateStartsShown ==
    ASSUME TypeOK, AllSound, NEW d \in Devices, NEW s \in Slots, UpdateStarts(d, s)
    PROVE  ShowStep(d, s)
<1> DEFINE i == I(d, s)
           j == [Made(i, "Running") EXCEPT !.update = TRUE]
<1>1. i \in Instances
  BY DEF AllSound, Sound
<1>2. Becomes(d, s, j) /\ states' = states /\ blurred' = blurred
  BY DEF UpdateStarts, OnlyInstance
<1>3. i.phase \in OpenPhases
  BY CalledType DEF UpdateStarts, OpenPhases
<1>4. states[d] = Shown(i) => states[d] = Shown(j)
  BY <1>1, <1>2, <1>3 DEF Shown, OpenPhases, Instances, UpdateStarts, Made
<1>5. i.phase # "over"
  BY <1>3 DEF OpenPhases
<1> HIDE DEF j
<1>6. QED BY <1>2, <1>4, <1>5, ShownAs

LEMMA UpdateEndsShown ==
    ASSUME TypeOK, AllSound, NEW d \in Devices, NEW s \in Slots, UpdateEnds(d, s)
    PROVE  ShowStep(d, s)
<1> DEFINE i == I(d, s)
           j == [Made(i, "Ended") EXCEPT !.update = FALSE]
<1>1. i \in Instances
  BY DEF AllSound, Sound
<1>2. Becomes(d, s, j) /\ states' = states /\ blurred' = blurred
  BY DEF UpdateEnds, OnlyInstance
<1>3. i.phase \in OpenPhases
  BY DEF UpdateEnds, OpenPhases, Reporting
<1>4. states[d] = Shown(i) => states[d] = Shown(j)
  BY <1>1, <1>2, <1>3 DEF Shown, OpenPhases, Instances, UpdateEnds, Made
<1>5. i.phase # "over"
  BY <1>3 DEF OpenPhases
<1> HIDE DEF j
<1>6. QED BY <1>2, <1>4, <1>5, ShownAs

LEMMA AnyStepShown ==
    ASSUME TypeOK, AllSound, NEW d \in Devices, NEW s \in Slots, AnyStep(d, s), ~CloseFails(d, s)
    PROVE  ShowStep(d, s)
<1>1. CASE Opens(d, s)
  BY <1>1, OpensShown
<1>2. CASE OpenFails(d, s)
  BY <1>2, OpenFailsShown
<1>3. CASE SetUp(d, s)
  BY <1>3, SetUpShown
<1>4. CASE SetUpFails(d, s)
  BY <1>4, SetUpFailsShown
<1>5. CASE LoopsEnd(d, s)
  BY <1>5, LoopsEndShown
<1>6. CASE Closes(d, s)
  BY <1>6, ClosesShown
<1>7. CASE Reconnects(d, s)
  BY <1>7, ReconnectsShown
<1>8. CASE ReconnectFails(d, s)
  BY <1>8, ReconnectFailsShown
<1>9. CASE SendsReport(d, s)
  BY <1>9, SendsReportShown
<1>10. CASE ReportFails(d, s)
  BY <1>10, ReportFailsShown
<1>11. CASE SendsMessages(d, s)
  BY <1>11, SendsMessagesShown
<1>12. CASE MessagesFail(d, s)
  BY <1>12, MessagesFailShown
<1>13. CASE SendLoopDies(d, s)
  BY <1>13, SendLoopDiesShown
<1>14. CASE ReportsOther(d, s)
  BY <1>14, ReportsOtherShown
<1>15. CASE UpdateStarts(d, s)
  BY <1>15, UpdateStartsShown
<1>16. CASE UpdateEnds(d, s)
  BY <1>16, UpdateEndsShown
<1>17. QED
  BY <1>1, <1>2, <1>3, <1>4, <1>5, <1>6, <1>7, <1>8, <1>9, <1>10, <1>11, <1>12, <1>13, <1>14, <1>15, <1>16
  DEF AnyStep, InstanceGoesOn, SendLoop

\* a device of which nothing changes but the cancellation
LEMMA StateKept ==
    ASSUME NEW d \in Devices, StateInv(d), states'[d] = states[d],
           \A s \in Slots : /\ instances'[d][s].phase = I(d, s).phase
                            /\ instances'[d][s].client = I(d, s).client
    PROVE  StateInv(d)'
BY DEF StateInv, AloneIn, Shown, I

LEMMA CancelledShown ==
    ASSUME TypeOK, NEW ds, NEW d \in Devices, NEW s \in Slots
    PROVE  /\ Cancelled(instances, ds)[d][s].phase = I(d, s).phase
           /\ Cancelled(instances, ds)[d][s].client = I(d, s).client
<1> DEFINE i == I(d, s)
           j == [i EXCEPT !.cancelled = TRUE]
<1>1. i \in Instances
  BY DEF TypeOK, I
<1>2. j.phase = i.phase /\ j.client = i.client
  BY <1>1 DEF Instances
<1>3. Cancelled(instances, ds)[d][s] \in {i, j}
  BY CancelledOrNot
<1> HIDE DEF i, j
<1>4. QED BY <1>2, <1>3 DEF i

LEMMA StatesStep ==
    ASSUME FleetInv, FleetNext, NEW d \in Devices, d \in blurred \/ StateInv(d)
    PROVE  d \in blurred' \/ StateInv(d)'
<1> SUFFICES ASSUME d \notin blurred'
             PROVE  StateInv(d)'
  OBVIOUS
<1>1. TypeOK /\ AllSound
  BY DEF FleetInv
<1>2. CASE instances' = instances /\ states' = states /\ blurred' = blurred
  BY <1>2, StateKept DEF I
<1>3. CASE ReadFails
  <2>1. instances' = Cancelled(instances, Devices) /\ states' = states /\ blurred' = blurred
    BY <1>3 DEF ReadFails
  <2>2. QED BY <1>1, <2>1, CancelledShown, StateKept
<1>4. CASE Acts
  <2>1. states' = states /\ d \notin blurred
    BY <1>1, <1>4, ActsIs DEF Acts
  <2>2. CASE d \in New
    <3>1. \A s \in Slots : I(d, s).phase = "over"
      BY <1>1, <1>4, <2>2, ActsIs DEF Free, I
    <3>2. \A s \in Slots : s # Chosen(d) => instances'[d][s].phase = "over"
      BY <1>1, <1>4, <2>2, <3>1, ActsIs, CancelledShown
    <3>3. /\ instances'[d][Chosen(d)] = Opening(supervisor.list[d])
          /\ Chosen(d) \in Slots
      BY <1>1, <1>4, <2>2, ActsIs
    <3>4. instances'[d][Chosen(d)].phase = "opening"
      BY <3>3 DEF Opening, Over
    <3>5. states'[d] = "none"
      BY <2>1, <3>1 DEF StateInv
    <3>6. QED BY <3>2, <3>3, <3>4, <3>5 DEF StateInv, AloneIn, Shown, OpenPhases, I
  <2>3. CASE d \notin New
    <3>1. \A s \in Slots : instances'[d][s] = Cancelled(instances, Devices \ Listed)[d][s]
      BY <1>1, <1>4, <2>3, ActsIs
    <3>2. QED BY <1>1, <2>1, <3>1, CancelledShown, StateKept
  <2>4. QED BY <2>2, <2>3
<1>5. ASSUME NEW e \in Devices, NEW t \in Slots, AnyStep(e, t)
      PROVE  StateInv(d)'
  <2>1. SoundStep(e, t)
    BY <1>1, <1>5, AnyStepSound
  <2>2. CASE CloseFails(e, t)
    <3>1. d # e /\ d \notin blurred /\ states' = states
      BY <2>2 DEF CloseFails
    <3>2. \A s \in Slots : instances'[d][s] = I(d, s)
      BY <2>1, <3>1 DEF SoundStep
    <3>3. QED BY <3>1, <3>2, StateKept
  <2>3. CASE ~CloseFails(e, t)
    <3>1. ShowStep(e, t)
      BY <1>1, <1>5, <2>3, AnyStepShown
    <3>2. CASE d # e
      <4>1. \A s \in Slots : instances'[d][s] = I(d, s)
        BY <2>1, <3>2 DEF SoundStep
      <4>2. d \notin blurred /\ states'[d] = states[d]
        BY <3>1, <3>2 DEF ShowStep
      <4>3. QED BY <4>1, <4>2, StateKept
    <3>3. CASE d = e
      <4>1. StateInv(d) /\ I(d, t).phase # "over" /\ states'[d] = Shown(instances'[d][t])
        BY <3>1, <3>3 DEF ShowStep, StateInv
      <4>2. \A s \in Slots : s # t => instances'[d][s].phase = "over"
        BY <2>1, <3>3, <4>1 DEF SoundStep, StateInv, AloneIn
      <4>3. Shown(instances'[d][t]) = "none" \/ instances'[d][t].phase # "over"
        BY DEF Shown, OpenPhases
      <4>4. instances'[d][t].phase = "over" => states'[d] = "none"
        BY <4>1, <4>3
      <4>5. QED BY <4>1, <4>2, <4>4 DEF StateInv, AloneIn, I
    <3>4. QED BY <3>2, <3>3
  <2>4. QED BY <2>2, <2>3
<1>6. CASE ProcessStops \/ ForcedRestart
  <2>1. Boots
    BY <1>6 DEF ProcessStops, ForcedRestart
  <2>2. states'[d] = "none" /\ \A s \in Slots : instances'[d][s].phase = "over"
    BY <2>1 DEF Boots, AllOver, Over, NoStates
  <2>3. QED BY <2>2 DEF StateInv, AloneIn, I
<1>7. (Reads \/ \E e \in Devices : AddRow(e) \/ RemoveRow(e)) =>
         instances' = instances /\ states' = states /\ blurred' = blurred
  BY DEF Reads, AddRow, RemoveRow
<1>8. QED BY <1>2, <1>3, <1>4, <1>5, <1>6, <1>7 DEF FleetNext, SupervisorGoesOn, AnyStep

LEMMA StatesInvStep == FleetInv /\ StatesInv /\ [FleetNext]_fleetVars => StatesInv'
<1> SUFFICES ASSUME FleetInv, StatesInv, [FleetNext]_fleetVars PROVE StatesInv'
  OBVIOUS
<1>1. \A d \in Devices : d \in blurred \/ StateInv(d)
  BY DEF StatesInv
<1>2. CASE FleetNext
  <2>1. \A d \in Devices : d \in blurred' \/ StateInv(d)'
    BY <1>1, <1>2, StatesStep
  <2>2. QED BY <2>1 DEF StatesInv
<1>3. CASE UNCHANGED fleetVars
  BY <1>3 DEF fleetVars, StatesInv, StateInv, AloneIn, Shown, I
<1>4. QED BY <1>2, <1>3

(* The ratio that decides on a restart counts what is open, by the state of   *)
(* its client, as long as no instance overtook another and no close failed.   *)
THEOREM StatesAreTrueAlways == FleetSpec => []StatesAreTrue
<1>1. FleetInit => StatesInv
  BY DEF FleetInit, StatesInv, StateInv, AloneIn, AllOver, Over, NoStates, I
<1>2. FleetInv /\ StatesInv /\ [FleetNext]_fleetVars => StatesInv'
  BY StatesInvStep
<1>3. FleetInv /\ StatesInv => StatesAreTrue
  <2> SUFFICES ASSUME FleetInv, StatesInv, NEW d \in Devices \ blurred
               PROVE  /\ Opened(d) = {} => states[d] = "none"
                      /\ \A s \in Opened(d) : states[d] = IF I(d, s).client = "good" THEN "Up" ELSE "Down"
    BY DEF StatesAreTrue
  <2>1. StateInv(d)
    BY DEF StatesInv
  <2>2. Opened(d) = {} => states[d] = "none"
    <3>1. CASE \A s \in Slots : I(d, s).phase = "over"
      BY <2>1, <3>1 DEF StateInv
    <3>2. CASE \E s \in Slots : I(d, s).phase # "over"
      BY <2>1, <3>2 DEF StateInv, Shown, OpenPhases, Opened
    <3>3. QED BY <3>1, <3>2
  <2>3. ASSUME NEW s \in Opened(d)
        PROVE  states[d] = IF I(d, s).client = "good" THEN "Up" ELSE "Down"
    BY <2>1 DEF StateInv, Shown, OpenPhases, Opened
  <2>4. QED BY <2>2, <2>3
<1>4. QED BY <1>1, <1>2, <1>3, FleetInvAlways, PTL DEF FleetSpec

=============================================================================
