---------------------------- MODULE WebSiteProofs ----------------------------
(***************************************************************************)
(* Proofs about the site, for any devices, records, filters and bounds.     *)
(* A script's variables are changed by the actions of its own page, by       *)
(* Open and by Leave, so each page has an invariant of its own.              *)
(***************************************************************************)
EXTENDS WebSite, SequenceTheorems, TLAPS

-----------------------------------------------------------------------------
(* Timers *)

\* no handle of an armed timer is lost
Steady(t) == t \in Timers /\ t.armed \subseteq {t.id}

LEMMA NoTimerSteady == Steady(NoTimer) /\ NoTimer.armed = {}
  BY DEF Steady, NoTimer, Timers, Handles, NoHandle, MaxTimers

LEMMA ClearedSteady ==
    ASSUME NEW t, Steady(t)
    PROVE  Steady(Cleared(t)) /\ Cleared(t).armed = {}
  BY DEF Steady, Cleared, Timers, Handles, NoHandle, MaxTimers

LEMMA RearmedSteady ==
    ASSUME NEW t, Steady(t)
    PROVE  Steady(Rearmed(t)) /\ Rearmed(t).armed # {}
<1> DEFINE c == Cleared(t)
           h == FreshHandle(c)
<1>0. 1 \in Handles /\ 1 # 0
  BY DEF Handles, MaxTimers
<1>1. c.armed = {} /\ c.id = 0
  BY ClearedSteady DEF Cleared, NoHandle
<1>2. \E x \in Handles \union {NoHandle} :
          \/ x \in Handles \ (c.armed \union {c.id})
          \/ x = NoHandle /\ Handles \subseteq c.armed \union {c.id}
  BY <1>0, <1>1
<1> HIDE DEF c
<1>3. h \in Handles
  <2>1. \/ h \in Handles \ (c.armed \union {c.id})
        \/ h = NoHandle /\ Handles \subseteq c.armed \union {c.id}
    BY <1>2 DEF FreshHandle
  <2>2. QED BY <1>0, <1>1, <2>1
<1>4. Rearmed(t) = [id |-> h, armed |-> c.armed \union {h}]
  BY DEF Rearmed, Armed, c
<1>5. QED BY <1>1, <1>3, <1>4 DEF Steady, Timers

LEMMA FiredSteady ==
    ASSUME NEW t, Steady(t), NEW h \in t.armed
    PROVE  Steady(Fired(t, h)) /\ Fired(t, h).armed = {}
  BY DEF Steady, Fired, Timers

-----------------------------------------------------------------------------
(* The dashboard *)

LEMMA NobodyIsDevice == NoDevice \notin Devices
  BY BrowserAssumption

LEMMA DashboardBounds == MaxTelemetry \in Nat /\ MaxFlights \in Nat \ {0}
  BY DashboardAssumption

AllFlights == [Slots -> Flights \union {NoFlight}]
Busy(flights) == {f \in Slots : flights[f] # NoFlight}

\* a request that has been alone since it was sent still is
AloneIn(flights) ==
    \A f \in Busy(flights) : flights[f].alone => Busy(flights) = {f}

LEMMA SentIs ==
    ASSUME NEW flights \in AllFlights, Busy(flights) # Slots, NEW d \in Devices
    PROVE  \E new \in Slots \ Busy(flights) :
              Sent(flights, d) = [f \in Slots |->
                 IF f = new THEN [device |-> d, read |-> Unread, alone |-> Busy(flights) = {}]
                 ELSE IF f \notin Busy(flights) THEN NoFlight
                 ELSE [flights[f] EXCEPT !.alone = FALSE]]
<1> DEFINE free == {f \in Slots : flights[f] = NoFlight}
           new  == CHOOSE f \in free : TRUE
<1>1. free = Slots \ Busy(flights) /\ free # {}
  BY DEF Busy
<1>2. (free = Slots) <=> (Busy(flights) = {})
  BY DEF Busy
<1>3. new \in free
  BY <1>1
<1> HIDE DEF new
<1>4. Sent(flights, d) = [f \in Slots |->
         IF f = new THEN [device |-> d, read |-> Unread, alone |-> free = Slots]
         ELSE IF f \in free THEN NoFlight
         ELSE [flights[f] EXCEPT !.alone = FALSE]]
  BY DEF Sent, new
<1> HIDE DEF free
<1>5. Sent(flights, d) = [f \in Slots |->
         IF f = new THEN [device |-> d, read |-> Unread, alone |-> Busy(flights) = {}]
         ELSE IF f \notin Busy(flights) THEN NoFlight
         ELSE [flights[f] EXCEPT !.alone = FALSE]]
  BY <1>1, <1>2, <1>4
<1> QED BY <1>1, <1>3, <1>5

LEMMA SentFlights ==
    ASSUME NEW flights \in AllFlights, Busy(flights) # Slots, NEW d \in Devices, AloneIn(flights)
    PROVE  /\ Sent(flights, d) \in AllFlights
           /\ Busy(Sent(flights, d)) # {}
           /\ AloneIn(Sent(flights, d))
           /\ \A f \in Busy(Sent(flights, d)) :
                 \/ Sent(flights, d)[f].read = Unread
                 \/ f \in Busy(flights) /\ Sent(flights, d)[f].read = flights[f].read
                    /\ ~Sent(flights, d)[f].alone
<1> DEFINE new == CHOOSE n \in Slots \ Busy(flights) :
              Sent(flights, d) = [f \in Slots |->
                 IF f = n THEN [device |-> d, read |-> Unread, alone |-> Busy(flights) = {}]
                 ELSE IF f \notin Busy(flights) THEN NoFlight
                 ELSE [flights[f] EXCEPT !.alone = FALSE]]
           made == Sent(flights, d)
<1>1. /\ new \in Slots \ Busy(flights)
      /\ made = [f \in Slots |->
                 IF f = new THEN [device |-> d, read |-> Unread, alone |-> Busy(flights) = {}]
                 ELSE IF f \notin Busy(flights) THEN NoFlight
                 ELSE [flights[f] EXCEPT !.alone = FALSE]]
  BY SentIs
<1> HIDE DEF new, made
<1>2. made[new] = [device |-> d, read |-> Unread, alone |-> Busy(flights) = {}]
  BY <1>1
<1>3. \A f \in Busy(flights) : flights[f] \in Flights /\ made[f] = [flights[f] EXCEPT !.alone = FALSE]
  BY <1>1 DEF Busy, AllFlights
<1>4. \A f \in Busy(flights) : /\ made[f] \in Flights /\ made[f].device \in Devices
                               /\ ~made[f].alone /\ made[f].read = flights[f].read
  BY <1>3 DEF Flights
<1>5. made[new] \in Flights /\ made[new].device \in Devices /\ made[new].read = Unread
  BY <1>2, DashboardBounds DEF Flights, Unread
<1>6. \A f \in Slots \ (Busy(flights) \union {new}) : made[f] = NoFlight
  BY <1>1
<1>7. made \in AllFlights
  <2>1. DOMAIN made = Slots /\ made = [f \in Slots |-> made[f]]
    BY <1>1
  <2>2. \A f \in Slots : made[f] \in Flights \union {NoFlight}
    BY <1>4, <1>5, <1>6
  <2>3. QED BY <2>1, <2>2 DEF AllFlights
<1>8. Busy(made) = Busy(flights) \union {new}
  <2>1. \A f \in Busy(flights) \union {new} : made[f] # NoFlight
    BY <1>4, <1>5, NobodyIsDevice DEF NoFlight
  <2>2. QED BY <2>1, <1>1, <1>6 DEF Busy
<1>9. AloneIn(made)
  <2>1. CASE Busy(flights) = {}
    BY <2>1, <1>8 DEF AloneIn
  <2>2. CASE Busy(flights) # {}
    <3>0. (Busy(flights) = {}) = FALSE
      BY <2>2
    <3>1. ~made[new].alone
      <4>1. made[new].alone = (Busy(flights) = {})
        <5> DEFINE alone == Busy(flights) = {}
        <5>1. made[new] = [device |-> d, read |-> Unread, alone |-> alone]
          BY <1>2
        <5> HIDE DEF alone
        <5>2. made[new].alone = alone
          BY <5>1
        <5>3. QED BY <5>2 DEF alone
      <4>2. QED BY <3>0, <4>1
    <3>2. QED BY <3>1, <1>4, <1>8 DEF AloneIn
  <2>3. QED BY <2>1, <2>2
<1> QED BY <1>4, <1>5, <1>7, <1>8, <1>9 DEF made

\* what holds of the pane when t messages are stored
PaneInv(p, t) ==
    /\ p \in Panes
    /\ Steady(p.timer)
    /\ p.polled # NoDevice => Busy(p.flights) # {} \/ p.timer.armed # {}
    /\ p.polled = NoDevice => Busy(p.flights) = {} /\ p.timer.armed = {}
    /\ ~p.covered => p.shown.device = p.current
    /\ AloneIn(p.flights)
    /\ p.shown.telemetry <= t
    /\ \A f \in Busy(p.flights) :
          /\ p.flights[f].read <= t
          /\ (p.flights[f].alone /\ p.flights[f].read # Unread) => p.shown.telemetry <= p.flights[f].read

TableInv(tb, d) == tb \in Tables /\ tb.selected = d /\ tb.marked = tb.rows \intersect {d}

LEMMA PaneFields ==
    ASSUME NEW p \in Panes
    PROVE  /\ p.current \in AnyDevice /\ p.polled \in AnyDevice /\ p.timer \in Timers
           /\ p.flights \in AllFlights /\ p.covered \in BOOLEAN
           /\ p.shown \in [device : AnyDevice, telemetry : 0..MaxTelemetry]
           /\ p.shown.telemetry \in 0..MaxTelemetry
           /\ \A f \in Busy(p.flights) : /\ p.flights[f] \in Flights
                                         /\ p.flights[f].device \in Devices
                                         /\ p.flights[f].read \in Unread..MaxTelemetry
  BY DEF Panes, AllFlights, Busy, Flights

LEMMA EmptyPane ==
    ASSUME NEW t \in 0..MaxTelemetry
    PROVE  PaneInv(NoPane, t) /\ Busy(NoPane.flights) = {}
<1>1. Busy(NoPane.flights) = {}
  BY DEF NoPane, Busy
<1>2. NoPane \in Panes
  BY NoTimerSteady, DashboardBounds DEF NoPane, Panes, Steady, AnyDevice, Nothing
<1>3. Steady(NoPane.timer) /\ NoPane.timer.armed = {}
  BY NoTimerSteady DEF NoPane
<1>4. /\ NoPane.polled = NoDevice /\ NoPane.shown.device = NoPane.current
      /\ NoPane.shown.telemetry = 0
  BY DEF NoPane, Nothing
<1>5. 0 <= t
  BY DashboardBounds
<1> QED BY <1>1, <1>2, <1>3, <1>4, <1>5 DEF PaneInv, AloneIn

LEMMA UpdatedNobody ==
    ASSUME NEW t \in 0..MaxTelemetry
    PROVE  PaneInv(Updated(NoPane, NoDevice), t) /\ Updated(NoPane, NoDevice).current = NoDevice
<1> DEFINE p == Updated(NoPane, NoDevice)
<1>1. /\ p = [NoPane EXCEPT !.current = NoDevice, !.shown = Nothing, !.covered = FALSE, !.timer = Cleared(@)]
  BY DEF Updated
<1>2. /\ NoPane \in [current : AnyDevice, polled : AnyDevice, timer : Timers, flights : AllFlights,
                     shown : [device : AnyDevice, telemetry : 0..MaxTelemetry], covered : BOOLEAN]
      /\ PaneInv(NoPane, t) /\ Busy(NoPane.flights) = {}
  BY EmptyPane DEF PaneInv, Panes, AllFlights
<1>3. Steady(Cleared(NoPane.timer)) /\ Cleared(NoPane.timer).armed = {}
  BY <1>2, ClearedSteady DEF PaneInv
<1> HIDE DEF p
<1>4. /\ p.current = NoDevice /\ p.shown = Nothing /\ p.covered = FALSE /\ p.timer = Cleared(NoPane.timer)
      /\ p.polled = NoPane.polled /\ p.flights = NoPane.flights
  BY <1>1, <1>2
<1>5. Nothing \in [device : AnyDevice, telemetry : 0..MaxTelemetry] /\ Nothing.telemetry = 0
      /\ Nothing.device = NoDevice
  BY DashboardBounds DEF Nothing, AnyDevice
<1>6. p \in Panes
  BY <1>1, <1>2, <1>3, <1>5 DEF Panes, Steady, AnyDevice, AllFlights
<1>7. NoPane.polled = NoDevice
  BY DEF NoPane
<1>8. 0 <= t
  OBVIOUS
<1>9. AloneIn(p.flights) /\ Busy(p.flights) = {}
  BY <1>2, <1>4 DEF PaneInv
<1> QED BY <1>3, <1>4, <1>5, <1>6, <1>7, <1>8, <1>9 DEF PaneInv, p

LEMMA UpdatedPane ==
    ASSUME NEW t \in 0..MaxTelemetry, NEW p, PaneInv(p, t), Busy(p.flights) # Slots, NEW d \in Devices
    PROVE  PaneInv(Updated(p, d), t) /\ Updated(p, d).current = d
<1> DEFINE q == Updated(p, d)
<1>1. q = [p EXCEPT !.current = d, !.polled = d, !.covered = TRUE,
                    !.timer = Cleared(@), !.flights = Sent(@, d)]
  BY NobodyIsDevice DEF Updated
<1>2. p \in [current : AnyDevice, polled : AnyDevice, timer : Timers, flights : AllFlights,
             shown : [device : AnyDevice, telemetry : 0..MaxTelemetry], covered : BOOLEAN]
  BY DEF PaneInv, Panes, AllFlights
<1>3. Steady(Cleared(p.timer))
  BY ClearedSteady DEF PaneInv
<1>4. Sent(p.flights, d) \in AllFlights /\ Busy(Sent(p.flights, d)) # {} /\ AloneIn(Sent(p.flights, d))
  BY <1>2, SentFlights DEF PaneInv
<1> HIDE DEF q
<1>5. /\ q.current = d /\ q.polled = d /\ q.covered = TRUE /\ q.timer = Cleared(p.timer)
      /\ q.flights = Sent(p.flights, d) /\ q.shown = p.shown
  BY <1>1, <1>2
<1>6. q \in Panes
  BY <1>1, <1>2, <1>3, <1>4 DEF Panes, Steady, AnyDevice, AllFlights
<1>7. \A f \in Busy(q.flights) :
          /\ q.flights[f].read <= t
          /\ q.flights[f].alone /\ q.flights[f].read # Unread => q.shown.telemetry <= q.flights[f].read
  <2> TAKE f \in Busy(q.flights)
  <2>1. CASE q.flights[f].read = Unread
    BY <2>1 DEF Unread
  <2>2. CASE q.flights[f].read # Unread
    <3>1. f \in Busy(p.flights) /\ q.flights[f].read = p.flights[f].read /\ ~q.flights[f].alone
      BY <1>2, <1>5, <2>2, SentFlights DEF PaneInv
    <3>2. p.flights[f].read <= t
      BY <3>1 DEF PaneInv
    <3>3. QED BY <3>1, <3>2
  <2>3. QED BY <2>1, <2>2
<1>8. p.shown.telemetry <= t
  BY DEF PaneInv
<1> QED BY <1>3, <1>4, <1>5, <1>6, <1>7, <1>8, NobodyIsDevice DEF PaneInv, q

LEMMA RearmedPane ==
    ASSUME NEW t \in 0..MaxTelemetry, NEW p, PaneInv(p, t), p.polled # NoDevice
    PROVE  LET q == [p EXCEPT !.timer = Rearmed(@)]
           IN  PaneInv(q, t) /\ q.flights = p.flights /\ q.polled = p.polled /\ q.timer.armed # {}
<1> DEFINE q == [p EXCEPT !.timer = Rearmed(@)]
<1>1. Steady(Rearmed(p.timer)) /\ Rearmed(p.timer).armed # {}
  BY RearmedSteady DEF PaneInv
<1>2. p \in [current : AnyDevice, polled : AnyDevice, timer : Timers, flights : AllFlights,
             shown : [device : AnyDevice, telemetry : 0..MaxTelemetry], covered : BOOLEAN]
  BY DEF PaneInv, Panes, AllFlights
<1>3. /\ q.current = p.current /\ q.polled = p.polled /\ q.covered = p.covered
      /\ q.timer = Rearmed(p.timer) /\ q.flights = p.flights /\ q.shown = p.shown
  BY <1>2
<1>4. q \in Panes
  BY <1>1, <1>2 DEF Panes, Steady, AllFlights
<1> HIDE DEF q
<1>5. PaneInv(q, t)
  BY <1>1, <1>3, <1>4 DEF PaneInv
<1> QED BY <1>1, <1>3, <1>5 DEF q

LEMMA CompletedPane ==
    ASSUME NEW t \in 0..MaxTelemetry, NEW p, PaneInv(p, t), p.polled # NoDevice, NEW f \in Slots
    PROVE  PaneInv(Completed(p, f), t)
           /\ Completed(p, f).current = p.current /\ Completed(p, f).shown = p.shown
<1> DEFINE q == Completed(p, f)
<1>1. Steady(Rearmed(p.timer)) /\ Rearmed(p.timer).armed # {}
  BY RearmedSteady DEF PaneInv
<1>2. p \in [current : AnyDevice, polled : AnyDevice, timer : Timers, flights : AllFlights,
             shown : [device : AnyDevice, telemetry : 0..MaxTelemetry], covered : BOOLEAN]
  BY DEF PaneInv, Panes, AllFlights
<1>3. /\ q.current = p.current /\ q.polled = p.polled /\ q.covered = p.covered
      /\ q.timer = Rearmed(p.timer) /\ q.flights = [p.flights EXCEPT ![f] = NoFlight] /\ q.shown = p.shown
  BY <1>2 DEF Completed
<1>4. q \in Panes
  BY <1>1, <1>2 DEF Panes, Steady, AllFlights, Completed
<1> HIDE DEF q
<1>5. p.flights \in AllFlights
  BY <1>2
<1>6. Busy(q.flights) = Busy(p.flights) \ {f} /\ \A g \in Busy(q.flights) : q.flights[g] = p.flights[g]
  BY <1>3, <1>5 DEF Busy, AllFlights
<1>7. AloneIn(q.flights)
  BY <1>6 DEF PaneInv, AloneIn
<1>8. PaneInv(q, t)
  BY <1>1, <1>3, <1>4, <1>6, <1>7 DEF PaneInv
<1> QED BY <1>3, <1>8 DEF q

LEMMA DisplayedPane ==
    ASSUME NEW t \in 0..MaxTelemetry, NEW p, PaneInv(p, t), NEW f \in Busy(p.flights),
           p.flights[f].read # Unread
    PROVE  LET q == Displayed(p, p.flights[f])
           IN  PaneInv(q, t) /\ q.current = p.current /\ q.polled = p.polled
<1> DEFINE a == p.flights[f]
           q == Displayed(p, a)
<1>1. CASE p.current # a.device
  BY <1>1 DEF Displayed
<1>2. CASE p.current = a.device
  <2>1. q = [p EXCEPT !.shown = [device |-> a.device, telemetry |-> a.read], !.covered = FALSE]
    BY <1>2 DEF Displayed
  <2>2. p \in [current : AnyDevice, polled : AnyDevice, timer : Timers, flights : AllFlights,
               shown : [device : AnyDevice, telemetry : 0..MaxTelemetry], covered : BOOLEAN]
    BY DEF PaneInv, Panes, AllFlights
  <2>3. a.device \in Devices /\ a.read \in 0..MaxTelemetry /\ a.read <= t
    BY PaneFields, DashboardBounds DEF PaneInv, Unread
  <2> HIDE DEF a, q
  <2>4. /\ q.current = p.current /\ q.polled = p.polled /\ q.covered = FALSE
        /\ q.timer = p.timer /\ q.flights = p.flights
        /\ q.shown = [device |-> a.device, telemetry |-> a.read]
    BY <2>1, <2>2
  <2>5. q \in Panes
    BY <2>1, <2>2, <2>3 DEF Panes, AllFlights, AnyDevice
  <2> HIDE DEF q
  <2>6. \A g \in Busy(q.flights) :
          /\ q.flights[g].read <= t
          /\ q.flights[g].alone /\ q.flights[g].read # Unread => q.shown.telemetry <= q.flights[g].read
    <3> TAKE g \in Busy(q.flights)
    <3>1. q.flights[g].read <= t
      BY <2>4 DEF PaneInv
    <3>2. q.flights[g].alone => g = f
      BY <2>4 DEF PaneInv, AloneIn
    <3>3. g = f => q.shown.telemetry <= q.flights[g].read
      BY <2>3, <2>4 DEF a
    <3>4. QED BY <3>1, <3>2, <3>3
  <2>7. q.shown.device = q.current /\ q.shown.telemetry = a.read
    BY <1>2, <2>4
  <2>8. PaneInv(q, t)
    BY <2>3, <2>4, <2>5, <2>6, <2>7 DEF PaneInv
  <2>9. QED BY <2>4, <2>8 DEF q, a
<1>3. QED BY <1>1, <1>2

-----------------------------------------------------------------------------
(* The table of alerts *)

TableFields == [waits : {"answer", "timer"}, rows : SUBSET Devices, selected : AnyDevice,
                marked : SUBSET Devices, map : {"keyAsked", "failed", "empty", "pinned"}]

LEMMA MarkedTable ==
    ASSUME NEW tb \in Tables, tb.selected # NoDevice \/ tb.marked = {}
    PROVE  TableInv(Marked(tb), tb.selected)
<1>1. CASE tb.selected = NoDevice
  <2>1. Marked(tb) = tb /\ tb.marked = {}
    BY <1>1 DEF Marked
  <2>2. tb.rows \subseteq Devices
    BY DEF Tables
  <2>3. QED BY <1>1, <2>1, <2>2, NobodyIsDevice DEF TableInv
<1>2. CASE tb.selected # NoDevice
  <2>1. Marked(tb) = [tb EXCEPT !.marked = tb.rows \intersect {tb.selected}]
    BY <1>2 DEF Marked
  <2>2. QED BY <2>1 DEF TableInv, Tables
<1>3. QED BY <1>1, <1>2

LEMMA SelectedTable ==
    ASSUME NEW tb \in Tables, NEW d \in AnyDevice, d # NoDevice \/ tb.marked = {}
    PROVE  TableInv(Selected(tb, d), d)
<1> DEFINE s == [tb EXCEPT !.selected = d]
<1>1. s \in Tables /\ s.selected = d /\ s.marked = tb.marked
  BY DEF Tables
<1> HIDE DEF s
<1>2. TableInv(Marked(s), d)
  BY <1>1, MarkedTable
<1> QED BY <1>2 DEF Selected, s

LEMMA DrawnTable ==
    ASSUME NEW tb, NEW d, TableInv(tb, d), NEW rows \in SUBSET Devices
    PROVE  TableInv(Drawn(tb, rows), d)
<1> DEFINE s == [tb EXCEPT !.rows = rows, !.marked = {}]
<1>1. s \in Tables /\ s.selected = d /\ s.marked = {}
  BY DEF Tables, TableInv
<1> HIDE DEF s
<1>2. TableInv(Marked(s), d)
  BY <1>1, MarkedTable
<1> QED BY <1>2 DEF Drawn, s

LEMMA TableSteps ==
    ASSUME NEW tb, NEW d, TableInv(tb, d), NEW m \in {"failed", "empty", "pinned"},
           NEW w \in {"answer", "timer"}
    PROVE  TableInv([tb EXCEPT !.waits = w], d) /\ TableInv([tb EXCEPT !.map = m], d)
           /\ TableInv([tb EXCEPT !.waits = w, !.map = IF @ = "empty" THEN "pinned" ELSE @], d)
  BY DEF TableInv, Tables

-----------------------------------------------------------------------------
(* The dashboard keeps its invariant *)

DashboardInv ==
    /\ telemetry \in 0..MaxTelemetry
    /\ PaneInv(pane, telemetry)
    /\ TableInv(table, pane.current)

LEMMA DashboardInvMeans == DashboardInv => DashboardTypeOK /\ DashboardIsSteady
  BY DEF DashboardInv, PaneInv, TableInv, DashboardTypeOK, DashboardIsSteady, PollingIsSteady,
         ChosenEverywhere, Steady, InFlight, Busy

LEMMA PaneMoves ==
    ASSUME DashboardInv, PaneInv(pane', telemetry), pane'.current = pane.current,
           UNCHANGED <<telemetry, table>>
    PROVE  DashboardInv'
  BY DEF DashboardInv

LEMMA TableMoves ==
    ASSUME DashboardInv, TableInv(table', pane.current), UNCHANGED <<telemetry, pane>>
    PROVE  DashboardInv'
  BY DEF DashboardInv

LEMMA EmptyDashboard ==
    ASSUME NEW t \in 0..MaxTelemetry
    PROVE  PaneInv(NoPane, t) /\ TableInv(NoTable, NoPane.current)
<1>1. TableInv(NoTable, NoDevice)
  BY DEF NoTable, TableInv, Tables, AnyDevice
<1>2. NoPane.current = NoDevice
  BY DEF NoPane
<1> QED BY <1>1, <1>2, EmptyPane

LEMMA LoadedDashboard ==
    ASSUME DashboardInv, DashboardLoads, UNCHANGED telemetry
    PROVE  DashboardInv'
<1>1. telemetry \in 0..MaxTelemetry
  BY DEF DashboardInv
<1>2. PICK first \in AnyDevice : /\ pane' = Updated(NoPane, first)
                                /\ table' = Selected([NoTable EXCEPT !.waits = "answer"], first)
  BY DEF DashboardLoads
<1>3. PaneInv(Updated(NoPane, first), telemetry) /\ Updated(NoPane, first).current = first
  <2>1. CASE first = NoDevice
    BY <1>1, <2>1, UpdatedNobody
  <2>2. CASE first # NoDevice
    <3>1. first \in Devices
      BY <2>2 DEF AnyDevice
    <3>2. Busy(NoPane.flights) # Slots
      BY <1>1, EmptyPane, DashboardBounds DEF Slots
    <3>3. QED BY <1>1, <3>1, <3>2, EmptyPane, UpdatedPane
  <2>3. QED BY <2>1, <2>2
<1>4. TableInv(table', first)
  <2> DEFINE tb == [NoTable EXCEPT !.waits = "answer"]
  <2>1. tb \in Tables /\ tb.marked = {}
    BY DEF NoTable, Tables, AnyDevice
  <2> HIDE DEF tb
  <2>2. QED BY <1>2, <2>1, SelectedTable DEF tb
<1> QED BY <1>1, <1>2, <1>3, <1>4 DEF DashboardInv

LEMMA ChooseDeviceInv ==
    ASSUME DashboardInv, NEW d \in Devices, ChooseDevice(d)
    PROVE  DashboardInv'
<1>1. PaneInv(Updated(pane, d), telemetry) /\ Updated(pane, d).current = d
  <2>1. Busy(pane.flights) # Slots
    BY DEF ChooseDevice, MaySend, InFlight, Busy
  <2>2. QED BY <2>1, UpdatedPane DEF DashboardInv
<1>2. TableInv(Selected(table, d), d)
  <2>1. d \in AnyDevice /\ d # NoDevice
    BY NobodyIsDevice DEF AnyDevice
  <2>2. table \in Tables
    BY DEF DashboardInv, TableInv
  <2>3. QED BY <2>1, <2>2, SelectedTable
<1>3. pane' = Updated(pane, d) /\ table' = Selected(table, d) /\ telemetry' = telemetry
  BY DEF ChooseDevice
<1> QED BY <1>1, <1>2, <1>3 DEF DashboardInv

LEMMA RefreshDataInv ==
    ASSUME DashboardInv, NEW h \in Handles, RefreshData(h)
    PROVE  DashboardInv'
<1> DEFINE p == [pane EXCEPT !.timer = Fired(@, h), !.flights = Sent(@, pane.polled)]
<1>1. pane' = p /\ h \in pane.timer.armed /\ Busy(pane.flights) # Slots
      /\ UNCHANGED <<telemetry, table>>
  BY DEF RefreshData, MaySend, InFlight, Busy
<1>2. PaneInv(pane, telemetry) /\ telemetry \in 0..MaxTelemetry
  BY DEF DashboardInv
<1>3. pane.polled \in Devices
  BY <1>1, <1>2 DEF PaneInv, Panes, AnyDevice
<1>4. pane \in [current : AnyDevice, polled : AnyDevice, timer : Timers, flights : AllFlights,
                shown : [device : AnyDevice, telemetry : 0..MaxTelemetry], covered : BOOLEAN]
  BY <1>2 DEF PaneInv, Panes, AllFlights
<1>5. Steady(Fired(pane.timer, h))
  BY <1>1, <1>2, FiredSteady DEF PaneInv
<1>6. /\ Sent(pane.flights, pane.polled) \in AllFlights /\ Busy(Sent(pane.flights, pane.polled)) # {}
      /\ AloneIn(Sent(pane.flights, pane.polled))
  BY <1>1, <1>2, <1>3, <1>4, SentFlights DEF PaneInv
<1>7. /\ p.current = pane.current /\ p.polled = pane.polled /\ p.covered = pane.covered
      /\ p.timer = Fired(pane.timer, h) /\ p.shown = pane.shown
      /\ p.flights = Sent(pane.flights, pane.polled)
  BY <1>4
<1>8. p \in Panes
  BY <1>4, <1>5, <1>6 DEF Panes, Steady, AllFlights
<1> HIDE DEF p
<1>9. \A f \in Busy(p.flights) :
          /\ p.flights[f].read <= telemetry
          /\ p.flights[f].alone /\ p.flights[f].read # Unread => p.shown.telemetry <= p.flights[f].read
  <2> TAKE f \in Busy(p.flights)
  <2>1. CASE p.flights[f].read = Unread
    BY <1>2, <2>1, DashboardBounds DEF Unread
  <2>2. CASE p.flights[f].read # Unread
    <3>1. f \in Busy(pane.flights) /\ p.flights[f].read = pane.flights[f].read /\ ~p.flights[f].alone
      BY <1>1, <1>2, <1>3, <1>4, <1>7, <2>2, SentFlights DEF PaneInv
    <3>2. QED BY <1>2, <3>1 DEF PaneInv
  <2>3. QED BY <2>1, <2>2
<1>10. PaneInv(p, telemetry)
  BY <1>2, <1>3, <1>5, <1>6, <1>7, <1>8, <1>9, NobodyIsDevice DEF PaneInv
<1> QED BY <1>1, <1>7, <1>10, PaneMoves

LEMMA ServiceReadsInv ==
    ASSUME DashboardInv, NEW f \in Slots, ServiceReads(f)
    PROVE  DashboardInv'
<1> DEFINE p == [pane EXCEPT !.flights[f].read = telemetry]
<1>1. pane' = p /\ f \in Busy(pane.flights) /\ UNCHANGED <<telemetry, table>>
  BY DEF ServiceReads, InFlight, Busy, Readable
<1>2. PaneInv(pane, telemetry) /\ telemetry \in 0..MaxTelemetry /\ telemetry \in Unread..MaxTelemetry
  BY DashboardBounds DEF DashboardInv, Unread
<1>3. pane \in [current : AnyDevice, polled : AnyDevice, timer : Timers, flights : AllFlights,
                shown : [device : AnyDevice, telemetry : 0..MaxTelemetry], covered : BOOLEAN]
  BY <1>2 DEF PaneInv, Panes, AllFlights
<1>4. pane.flights[f] \in Flights
  BY <1>1, <1>2, PaneFields DEF PaneInv
<1> DEFINE r == [pane.flights[f] EXCEPT !.read = telemetry]
<1>5. r \in Flights /\ r.device = pane.flights[f].device /\ r.alone = pane.flights[f].alone
      /\ r.read = telemetry /\ r.device \in Devices
  BY <1>2, <1>4 DEF Flights
<1>6. /\ p.current = pane.current /\ p.polled = pane.polled /\ p.covered = pane.covered
      /\ p.timer = pane.timer /\ p.shown = pane.shown
      /\ p.flights = [pane.flights EXCEPT ![f] = r]
  BY <1>3
<1> HIDE DEF r
<1>7. p.flights \in AllFlights
  BY <1>3, <1>5, <1>6 DEF AllFlights
<1>8. p \in Panes
  <2>1. p = [pane EXCEPT !.flights = [pane.flights EXCEPT ![f] = r]]
    BY <1>3 DEF r
  <2>2. QED BY <1>3, <1>6, <1>7, <2>1 DEF Panes, AllFlights
<1> HIDE DEF p
<1>9. p.flights[f] = r /\ \A g \in Slots \ {f} : p.flights[g] = pane.flights[g]
  BY <1>3, <1>6 DEF AllFlights
<1>10. Busy(p.flights) = Busy(pane.flights)
  BY <1>1, <1>5, <1>9, NobodyIsDevice DEF Busy, NoFlight
<1>11. AloneIn(p.flights)
  BY <1>2, <1>5, <1>9, <1>10 DEF AloneIn, PaneInv, Busy
<1>12. \A g \in Busy(p.flights) :
          /\ p.flights[g].read <= telemetry
          /\ p.flights[g].alone /\ p.flights[g].read # Unread => p.shown.telemetry <= p.flights[g].read
  <2> TAKE g \in Busy(p.flights)
  <2>1. CASE g = f
    BY <1>2, <1>5, <1>6, <1>9, <2>1 DEF PaneInv
  <2>2. CASE g # f
    BY <1>2, <1>6, <1>9, <1>10, <2>2 DEF PaneInv, Busy
  <2>3. QED BY <2>1, <2>2
<1>13. PaneInv(p, telemetry)
  BY <1>2, <1>6, <1>8, <1>10, <1>11, <1>12 DEF PaneInv
<1> QED BY <1>1, <1>6, <1>13, PaneMoves

LEMMA TelemetryAnsweredInv ==
    ASSUME DashboardInv, NEW f \in Slots, TelemetryAnswered(f)
    PROVE  DashboardInv'
<1> DEFINE p == Displayed(pane, pane.flights[f])
<1>1. /\ pane' = Completed(p, f) /\ f \in Busy(pane.flights) /\ pane.flights[f].read # Unread
      /\ UNCHANGED <<telemetry, table>>
  BY DEF TelemetryAnswered, InFlight, Busy
<1>2. PaneInv(pane, telemetry) /\ telemetry \in 0..MaxTelemetry
  BY DEF DashboardInv
<1>3. pane.polled # NoDevice
  BY <1>1, <1>2 DEF PaneInv
<1>4. PaneInv(p, telemetry) /\ p.current = pane.current /\ p.polled = pane.polled
  BY <1>1, <1>2, DisplayedPane
<1> HIDE DEF p
<1>5. PaneInv(Completed(p, f), telemetry) /\ Completed(p, f).current = p.current
  BY <1>2, <1>3, <1>4, CompletedPane
<1> QED BY <1>1, <1>4, <1>5, PaneMoves

LEMMA TelemetryFailedInv ==
    ASSUME DashboardInv, NEW f \in Slots, TelemetryFailed(f)
    PROVE  DashboardInv'
<1> DEFINE p == [pane EXCEPT !.timer = Rearmed(@)]
<1>1. /\ pane' = Completed(p, f) /\ f \in Busy(pane.flights)
      /\ UNCHANGED <<telemetry, table>>
  BY DEF TelemetryFailed, InFlight, Busy
<1>2. PaneInv(pane, telemetry) /\ telemetry \in 0..MaxTelemetry
  BY DEF DashboardInv
<1>3. pane.polled # NoDevice
  BY <1>1, <1>2 DEF PaneInv
<1>4. PaneInv(p, telemetry) /\ p.polled = pane.polled
  BY <1>2, <1>3, RearmedPane
<1>5. p.current = pane.current
  BY <1>2 DEF PaneInv, Panes
<1> HIDE DEF p
<1>6. PaneInv(Completed(p, f), telemetry) /\ Completed(p, f).current = p.current
  BY <1>2, <1>3, <1>4, CompletedPane
<1> QED BY <1>1, <1>5, <1>6, PaneMoves

LEMMA TelemetryArrivesInv ==
    ASSUME DashboardInv, TelemetryArrives
    PROVE  DashboardInv'
<1>1. telemetry' \in 0..MaxTelemetry /\ telemetry <= telemetry' /\ telemetry \in 0..MaxTelemetry
      /\ UNCHANGED <<pane, table>>
  BY DashboardBounds DEF TelemetryArrives, DashboardInv
<1>2. PaneInv(pane, telemetry) /\ pane.shown.telemetry \in Int
      /\ \A f \in Busy(pane.flights) : pane.flights[f].read \in Int
  BY PaneFields, DashboardBounds DEF DashboardInv, PaneInv, Unread
<1>3. PaneInv(pane, telemetry')
  BY <1>1, <1>2, DashboardBounds DEF PaneInv
<1> QED BY <1>1, <1>3 DEF DashboardInv

LEMMA AlertsInv ==
    ASSUME DashboardInv,
           \/ \E rows \in SUBSET Devices : AlertsAnswered(rows)
           \/ AlertsFailed \/ ReloadGrid \/ MapKeyAnswered
    PROVE  DashboardInv'
<1>1. TableInv(table, pane.current)
  BY DEF DashboardInv
<1>2. ASSUME NEW rows \in SUBSET Devices, AlertsAnswered(rows) PROVE DashboardInv'
  <2> DEFINE tb == Drawn(table, rows)
  <2>1. TableInv(tb, pane.current)
    BY <1>1, DrawnTable
  <2>2. table' = [tb EXCEPT !.waits = "timer", !.map = IF @ = "empty" THEN "pinned" ELSE @]
        /\ UNCHANGED <<telemetry, pane>>
    BY <1>2 DEF AlertsAnswered
  <2> HIDE DEF tb
  <2>3. TableInv(table', pane.current)
    BY <2>1, <2>2, TableSteps
  <2>4. QED BY <2>2, <2>3, TableMoves
<1>3. CASE AlertsFailed
  <2>1. TableInv(table', pane.current) /\ UNCHANGED <<telemetry, pane>>
    BY <1>1, <1>3, TableSteps DEF AlertsFailed
  <2> QED BY <2>1, TableMoves
<1>4. CASE ReloadGrid
  <2>1. TableInv(table', pane.current) /\ UNCHANGED <<telemetry, pane>>
    BY <1>1, <1>4, TableSteps DEF ReloadGrid
  <2> QED BY <2>1, TableMoves
<1>5. CASE MapKeyAnswered
  <2>1. PICK m \in {"empty", "failed"} : table' = [table EXCEPT !.map = m]
    BY <1>5 DEF MapKeyAnswered
  <2>2. TableInv(table', pane.current)
    BY <1>1, <2>1, TableSteps
  <2> QED BY <1>5, <2>2, TableMoves DEF MapKeyAnswered
<1> QED BY <1>2, <1>3, <1>4, <1>5

LEMMA DashboardNextInv ==
    ASSUME DashboardInv, DashboardNext
    PROVE  DashboardInv'
  BY TelemetryArrivesInv, ChooseDeviceInv, RefreshDataInv, ServiceReadsInv, TelemetryAnsweredInv,
     TelemetryFailedInv, AlertsInv DEF DashboardNext

LEMMA SiteDashboardInv ==
    ASSUME DashboardInv, [SiteNext]_siteVars
    PROVE  DashboardInv'
<1>1. CASE UNCHANGED dashboardVars
  BY <1>1 DEF dashboardVars, DashboardInv
<1>2. CASE Leave
  <2>1. 0 \in 0..MaxTelemetry
    BY DashboardBounds
  <2>2. telemetry' = 0 /\ pane' = NoPane /\ table' = NoTable
    BY <1>2 DEF Leave
  <2>3. QED BY <2>1, <2>2, EmptyDashboard DEF DashboardInv
<1>3. ASSUME NEW p \in Pages, Open(p) PROVE DashboardInv'
  <2>1. UNCHANGED telemetry /\ (DashboardLoads \/ UNCHANGED <<pane, table>>)
    BY <1>3 DEF Open
  <2>2. QED BY <2>1, LoadedDashboard, <1>1 DEF dashboardVars
<1> QED BY <1>1, <1>2, <1>3, DashboardNextInv DEF SiteNext, siteVars

LEMMA InitDashboardInv == SiteInit => DashboardInv
<1> SUFFICES ASSUME SiteInit PROVE DashboardInv
  OBVIOUS
<1>1. 0 \in 0..MaxTelemetry
  BY DashboardBounds
<1>2. telemetry = 0 /\ pane = NoPane /\ table = NoTable
  BY DEF SiteInit
<1> QED BY <1>1, <1>2, EmptyDashboard DEF DashboardInv

LEMMA DashboardAlways == SiteSpec => []DashboardInv
<1>1. DashboardInv /\ [SiteNext]_siteVars => DashboardInv'
  BY SiteDashboardInv
<1> QED BY InitDashboardInv, <1>1, PTL DEF SiteSpec

(* Polling neither multiplies nor stops, and the pane and the rows of the     *)
(* table are those of the chosen device, for any number of devices, requests   *)
(* and messages.                                                              *)
THEOREM DashboardIsSteadyAlways == SiteSpec => []DashboardIsSteady
<1>1. DashboardInv => DashboardIsSteady
  BY DashboardInvMeans
<1> QED BY DashboardAlways, <1>1, PTL

\* a step does not take the telemetry shown back
MovesOn ==
    pane'.shown.device = pane.shown.device /\ pane'.shown.telemetry < pane.shown.telemetry
      => page' # page \/ \E f \in InFlight : f \notin InFlight' /\ ~pane.flights[f].alone

LEMMA ShownStays ==
    ASSUME DashboardInv, pane'.shown = pane.shown
    PROVE  MovesOn
<1>1. pane.shown.telemetry \in Int
  BY PaneFields, DashboardBounds DEF DashboardInv, PaneInv
<1> QED BY <1>1 DEF MovesOn

LEMMA AnswerMovesOn ==
    ASSUME DashboardInv, NEW f \in Slots, TelemetryAnswered(f)
    PROVE  MovesOn
<1> DEFINE a == pane.flights[f]
           p == Displayed(pane, a)
<1>1. /\ pane' = Completed(p, f) /\ f \in Busy(pane.flights) /\ f \in InFlight /\ a.read # Unread
  BY DEF TelemetryAnswered, InFlight, Busy
<1>2. PaneInv(pane, telemetry) /\ telemetry \in 0..MaxTelemetry
  BY DEF DashboardInv
<1>3. PaneInv(p, telemetry) /\ p.polled # NoDevice
  BY <1>1, <1>2, DisplayedPane DEF PaneInv
<1>4. pane'.shown = p.shown
  <2> HIDE DEF p
  <2>1. QED BY <1>1, <1>2, <1>3, CompletedPane
<1>5. CASE p = pane
  BY <1>4, <1>5, ShownStays
<1>6. CASE p # pane /\ a.alone
  <2>1. p = [pane EXCEPT !.shown = [device |-> a.device, telemetry |-> a.read], !.covered = FALSE]
    BY <1>6 DEF Displayed
  <2>2. p.shown.telemetry = a.read
    BY <1>2, <2>1 DEF PaneInv, Panes
  <2>3. pane.shown.telemetry <= a.read /\ pane.shown.telemetry \in Int /\ a.read \in Int
    BY <1>1, <1>2, <1>6, PaneFields, DashboardBounds DEF PaneInv, Unread
  <2>4. QED BY <1>4, <2>2, <2>3 DEF MovesOn
<1>7. CASE ~a.alone
  <2>1. p.flights \in AllFlights
    BY <1>3, PaneFields DEF PaneInv
  <2>2. pane'.flights[f] = NoFlight
    <3>1. p \in [current : AnyDevice, polled : AnyDevice, timer : Timers, flights : AllFlights,
                shown : [device : AnyDevice, telemetry : 0..MaxTelemetry], covered : BOOLEAN]
      BY <1>3 DEF PaneInv, Panes, AllFlights
    <3> HIDE DEF p
    <3>2. pane'.flights = [p.flights EXCEPT ![f] = NoFlight]
      BY <1>1, <3>1 DEF Completed
    <3>3. QED BY <2>1, <3>2 DEF AllFlights
  <2>3. f \notin InFlight'
    BY <2>2 DEF InFlight, NoFlight
  <2>4. QED BY <1>1, <1>7, <2>3 DEF MovesOn
<1> QED BY <1>5, <1>6, <1>7

LEMMA StepMovesOn ==
    ASSUME DashboardInv, [SiteNext]_siteVars
    PROVE  [MovesOn]_<<page, dashboardVars>>
<1>0. PaneInv(pane, telemetry) /\ telemetry \in 0..MaxTelemetry
  BY DEF DashboardInv
<1>1. CASE UNCHANGED dashboardVars
  BY <1>1, ShownStays DEF dashboardVars
<1>2. ASSUME Leave \/ \E p \in Pages : Open(p) PROVE page' # page
  BY <1>2 DEF Leave, Open, NoPage, Pages, RecordPageNames
<1>3. CASE DashboardNext
  <2>1. ASSUME NEW d \in Devices, ChooseDevice(d) PROVE MovesOn
    <3>1. pane' = [pane EXCEPT !.current = d, !.polled = d, !.covered = TRUE,
                               !.timer = Cleared(@), !.flights = Sent(@, d)]
      BY <2>1, NobodyIsDevice DEF ChooseDevice, Updated
    <3>2. pane'.shown = pane.shown
      BY <1>0, <3>1 DEF PaneInv, Panes
    <3>3. QED BY <3>2, ShownStays
  <2>2. ASSUME NEW h \in Handles, RefreshData(h) PROVE MovesOn
    <3>1. pane'.shown = pane.shown
      BY <1>0, <2>2 DEF PaneInv, Panes, RefreshData
    <3>2. QED BY <3>1, ShownStays
  <2>3. ASSUME NEW f \in Slots, ServiceReads(f) PROVE MovesOn
    <3>1. pane'.shown = pane.shown
      BY <1>0, <2>3 DEF PaneInv, Panes, ServiceReads
    <3>2. QED BY <3>1, ShownStays
  <2>4. ASSUME NEW f \in Slots, TelemetryFailed(f) PROVE MovesOn
    <3>1. pane'.shown = pane.shown
      BY <1>0, <2>4 DEF PaneInv, Panes, TelemetryFailed, Completed
    <3>2. QED BY <3>1, ShownStays
  <2>5. ASSUME \/ TelemetryArrives \/ AlertsFailed \/ ReloadGrid \/ MapKeyAnswered
               \/ \E rows \in SUBSET Devices : AlertsAnswered(rows)
        PROVE  MovesOn
    <3>1. pane'.shown = pane.shown
      BY <2>5 DEF TelemetryArrives, AlertsFailed, ReloadGrid, MapKeyAnswered, AlertsAnswered
    <3>2. QED BY <3>1, ShownStays
  <2> QED BY <1>3, <2>1, <2>2, <2>3, <2>4, <2>5, AnswerMovesOn DEF DashboardNext
<1>4. ASSUME page' # page PROVE MovesOn
  BY <1>4 DEF MovesOn
<1>5. UNCHANGED siteVars => UNCHANGED dashboardVars
  BY DEF siteVars
<1> QED BY <1>1, <1>2, <1>3, <1>4, <1>5 DEF SiteNext

(* What the pane shows gets older only by an answer to a request that was not *)
(* the only one under way.                                                    *)
THEOREM PollingMovesOnAlways == SiteSpec => PollingMovesOn
<1>1. DashboardInv /\ [SiteNext]_siteVars => [MovesOn]_<<page, dashboardVars>>
  BY StepMovesOn
<1> QED BY DashboardAlways, <1>1, PTL DEF SiteSpec, PollingMovesOn, MovesOn

-----------------------------------------------------------------------------
(* Requests that are answered *)

LEMMA RemovedAt ==
    ASSUME NEW S, NEW s \in Seq(S), NEW i \in 1..Len(s)
    PROVE  /\ RemoveAt(s, i) \in Seq(S) /\ Len(RemoveAt(s, i)) = Len(s) - 1
           /\ \A j \in 1..(Len(s) - 1) : RemoveAt(s, i)[j] = IF j < i THEN s[j] ELSE s[j + 1]
<1> DEFINE a == SubSeq(s, 1, i - 1)
           b == SubSeq(s, i + 1, Len(s))
<1>1. a \in Seq(S) /\ Len(a) = i - 1 /\ \A j \in 1..(i - 1) : a[j] = s[j]
  OBVIOUS
<1>2. b \in Seq(S) /\ Len(b) = Len(s) - i /\ \A j \in 1..(Len(s) - i) : b[j] = s[i + j]
  OBVIOUS
<1>3. RemoveAt(s, i) = a \o b
  BY DEF RemoveAt
<1> HIDE DEF a, b
<1>4. a \o b \in Seq(S) /\ Len(a \o b) = Len(s) - 1
  <2>1. a \o b \in Seq(S) /\ Len(a \o b) = Len(a) + Len(b)
    BY <1>1, <1>2, ConcatProperties
  <2>2. Len(a) + Len(b) = Len(s) - 1
    <3>1. Len(s) \in Nat /\ i \in Nat
      OBVIOUS
    <3>2. QED BY <1>1, <1>2, <3>1
  <2>3. QED BY <2>1, <2>2
<1>5. \A j \in 1..(Len(s) - 1) : (a \o b)[j] = IF j < i THEN s[j] ELSE s[j + 1]
  <2> TAKE j \in 1..(Len(s) - 1)
  <2>1. CASE j < i
    BY <1>1, <1>2, <2>1
  <2>2. CASE ~(j < i)
    <3>1. (a \o b)[j] = b[j - (i - 1)]
      BY <1>1, <1>2, <2>2
    <3>2. b[j - (i - 1)] = s[i + (j - (i - 1))]
      BY <1>2, <2>2
    <3>3. i + (j - (i - 1)) = j + 1
      OBVIOUS
    <3>4. QED BY <2>2, <3>1, <3>2, <3>3
  <2>3. QED BY <2>1, <2>2
<1> QED BY <1>3, <1>4, <1>5

\* S holds a request whenever it holds the request superseded
MaySupersede(S) == \A r \in S : Superseded(r) \in S

LEMMA AnsweredIs ==
    ASSUME NEW S, MaySupersede(S), NEW s \in Seq(S), NEW i \in 1..Len(s)
    PROVE  /\ Answered(s, i) \in Seq(S) /\ Len(Answered(s, i)) = Len(s) - 1
           /\ \A j \in 1..(Len(s) - 1) :
                 Answered(s, i)[j] = IF j < i THEN Superseded(s[j]) ELSE s[j + 1]
<1> DEFINE t == [j \in DOMAIN s |-> IF j < i THEN Superseded(s[j]) ELSE s[j]]
<1>1. DOMAIN s = 1..Len(s) /\ \A j \in 1..Len(s) : s[j] \in S
  OBVIOUS
<1>2. \A j \in 1..Len(s) : t[j] = IF j < i THEN Superseded(s[j]) ELSE s[j]
  BY <1>1
<1>3. \A j \in 1..Len(s) : t[j] \in S
  BY <1>1, <1>2 DEF MaySupersede
<1>4. t \in Seq(S) /\ Len(t) = Len(s)
  <2>1. t \in [1..Len(s) -> S]
    BY <1>1, <1>3
  <2>2. Len(s) \in Nat
    OBVIOUS
  <2>3. QED BY <2>1, <2>2
<1>5. Answered(s, i) = RemoveAt(t, i)
  BY DEF Answered
<1> HIDE DEF t
<1>6. \A j \in 1..(Len(s) - 1) : RemoveAt(t, i)[j] = IF j < i THEN t[j] ELSE t[j + 1]
  <2>1. i \in 1..Len(t)
    BY <1>4
  <2>2. QED BY <1>4, <2>1, RemovedAt
<1>7. \A j \in 1..(Len(s) - 1) : j < i => t[j] = Superseded(s[j])
  BY <1>2
<1>8. \A j \in 1..(Len(s) - 1) : ~(j < i) => t[j + 1] = s[j + 1]
  <2> TAKE j \in 1..(Len(s) - 1)
  <2>1. j + 1 \in 1..Len(s)
    OBVIOUS
  <2>2. ~(j < i) => ~(j + 1 < i)
    OBVIOUS
  <2>3. QED BY <1>2, <2>1, <2>2
<1>9. \A j \in 1..(Len(s) - 1) :
         RemoveAt(t, i)[j] = IF j < i THEN Superseded(s[j]) ELSE s[j + 1]
  <2> TAKE j \in 1..(Len(s) - 1)
  <2>1. CASE j < i
    BY <1>6, <1>7, <2>1
  <2>2. CASE ~(j < i)
    BY <1>6, <1>8, <2>2
  <2>3. QED BY <2>1, <2>2
<1>10. RemoveAt(t, i) \in Seq(S) /\ Len(RemoveAt(t, i)) = Len(s) - 1
  BY <1>4, RemovedAt
<1> QED BY <1>5, <1>9, <1>10

-----------------------------------------------------------------------------
(* The lists of records and their panes: types *)

ListFlights == [read : Lists \union {NotRead}, superseded : BOOLEAN]
ViewFlights == [record : Records, superseded : BOOLEAN]

LEMMA FlightsMaySupersede == MaySupersede(ListFlights) /\ MaySupersede(ViewFlights)
  BY DEF MaySupersede, Superseded, ListFlights, ViewFlights

LEMMA RecordFacts ==
    /\ NoRecord \notin Records /\ MaxEvents \in Nat
    /\ NoList \in Lists /\ FewRecords \in Lists
<1>1. NoList \in Lists /\ FewRecords \in Lists
  BY DEF NoList, FewRecords, Lists, States, Values
<1> QED BY <1>1, RecordsAssumption

\* what holds of the list script l and the pane script v
ListOK(l) == l \in ListScripts
ViewOK(v) == v \in ViewScripts

\* the last request of a pane is for its target, unless a later one was answered
LastIsTarget(v) ==
    v.flights # <<>> => LET last == v.flights[Len(v.flights)]
                        IN  last.record = v.target \/ last.superseded

PaneShowsTarget(v) ==
    v.content = "view" => v.record = v.target \/ v.flights # <<>> \/ v.overtaken

Targeted(v) ==
    /\ v.flights # <<>> \/ v.content # "cleared" => v.target \in Records
    /\ v.content # "cleared" => v.record \in Records

ViewInv(v) == ViewOK(v) /\ LastIsTarget(v) /\ PaneShowsTarget(v) /\ Targeted(v)

LEMMA ListFields ==
    ASSUME NEW l, ListOK(l)
    PROVE  /\ l \in [rows : Lists, flights : Seq(ListFlights), since : SUBSET Lists,
                     selected : AnyRecord, marked : AnyRecord,
                     available : {"unset", "no", "yes"}, default : AnyRecord]
           /\ l.flights \in Seq(ListFlights) /\ l.rows \in Lists /\ l.since \subseteq Lists
           /\ \A i \in DOMAIN l.flights : l.flights[i].read \in Lists \union {NotRead}
  <1>1. l \in [rows : Lists, flights : Seq(ListFlights), since : SUBSET Lists,
                     selected : AnyRecord, marked : AnyRecord,
                     available : {"unset", "no", "yes"}, default : AnyRecord]
    BY DEF ListOK, ListScripts, ListFlights
  <1>2. l.flights \in Seq(ListFlights) /\ l.rows \in Lists /\ l.since \subseteq Lists
    BY <1>1
  <1>3. \A i \in DOMAIN l.flights : l.flights[i] \in ListFlights
    BY <1>2
  <1> QED BY <1>1, <1>2, <1>3 DEF ListFlights

ViewFields == [target : AnyRecord, flights : Seq(ViewFlights), open : BOOLEAN,
               content : {"cleared", "view", "failed"}, record : AnyRecord, value : Values,
               overtaken : BOOLEAN, post : [record : Records, value : Values] \union {<<>>}]

LEMMA ViewTyped == ASSUME NEW v, ViewOK(v)
                   PROVE  v \in ViewFields /\ v.flights \in Seq(ViewFlights)
  BY DEF ViewOK, ViewScripts, ViewFlights, ViewFields

LEMMA ChosenView ==
    ASSUME NEW v, ViewInv(v), NEW r \in Records
    PROVE  /\ ViewInv(Chosen(v, r))
           /\ Chosen(v, r).target = r
<1> DEFINE new == [record |-> r, superseded |-> FALSE]
           c == Chosen(v, r)
<1>1. new \in ViewFlights /\ new.record = r
  BY DEF ViewFlights
<1>2. v \in ViewFields /\ v.flights \in Seq(ViewFlights)
  BY ViewTyped DEF ViewInv
<1> HIDE DEF new
<1>3. /\ Append(v.flights, new) \in Seq(ViewFlights) /\ Append(v.flights, new) # <<>>
      /\ Len(Append(v.flights, new)) = Len(v.flights) + 1
      /\ Append(v.flights, new)[Len(v.flights) + 1] = new
  BY <1>1, <1>2, AppendProperties
<1>4. c = [v EXCEPT !.target = r, !.flights = Append(@, new)]
  BY DEF Chosen, new
<1> HIDE DEF c
<1>5. c \in ViewFields /\ c.target = r /\ c.flights = Append(v.flights, new)
      /\ c.content = v.content /\ c.record = v.record
  BY <1>2, <1>3, <1>4 DEF ViewFields, AnyRecord
<1>6. ViewOK(c)
  BY <1>5 DEF ViewOK, ViewScripts, ViewFields, ViewFlights
<1>7. LastIsTarget(c) /\ PaneShowsTarget(c) /\ Targeted(c)
  BY <1>1, <1>3, <1>5 DEF LastIsTarget, PaneShowsTarget, Targeted, ViewInv
<1> QED BY <1>5, <1>6, <1>7 DEF ViewInv, c

LEMMA ClosedView ==
    ASSUME NEW v, ViewInv(v)
    PROVE  /\ ViewInv(Closed(v)) /\ Closed(v).target = v.target
           /\ ~Closed(v).open /\ Closed(v).content = "cleared"
<1> DEFINE c == Closed(v)
<1>1. v \in ViewFields
  BY ViewTyped DEF ViewInv
<1>2. c = [v EXCEPT !.open = FALSE, !.content = "cleared", !.record = NoRecord, !.overtaken = FALSE]
  BY DEF Closed
<1> HIDE DEF c
<1>3. c \in ViewFields /\ c.target = v.target /\ c.flights = v.flights /\ c.content = "cleared" /\ ~c.open
  BY <1>1, <1>2 DEF ViewFields, AnyRecord
<1>4. ViewOK(c)
  BY <1>3 DEF ViewOK, ViewScripts, ViewFields, ViewFlights
<1>5. LastIsTarget(c) /\ PaneShowsTarget(c) /\ Targeted(c)
  BY <1>3 DEF LastIsTarget, PaneShowsTarget, Targeted, ViewInv
<1> QED BY <1>3, <1>4, <1>5 DEF ViewInv, c

\* a step that leaves the target, the requests and what is shown alone
LEMMA SameView ==
    ASSUME NEW v, ViewInv(v), NEW c \in ViewFields,
           c.target = v.target, c.flights = v.flights, c.content = v.content,
           c.record = v.record, c.overtaken = v.overtaken
    PROVE  ViewInv(c)
<1>1. ViewOK(c)
  BY DEF ViewOK, ViewScripts, ViewFields, ViewFlights
<1> QED BY <1>1 DEF ViewInv, LastIsTarget, PaneShowsTarget, Targeted

LEMMA SelectedRow ==
    ASSUME NEW l, ListOK(l), NEW r \in AnyRecord
    PROVE  /\ ListOK(RowSelected(l, r)) /\ RowSelected(l, r).marked = r
           /\ RowSelected(l, r).selected = r
           /\ RowSelected(l, r).rows = l.rows /\ RowSelected(l, r).flights = l.flights
           /\ RowSelected(l, r).since = l.since /\ RowSelected(l, r).available = l.available
           /\ RowSelected(l, r).default = l.default
<1>1. l \in [rows : Lists, flights : Seq(ListFlights), since : SUBSET Lists,
                     selected : AnyRecord, marked : AnyRecord,
                     available : {"unset", "no", "yes"}, default : AnyRecord]
  BY ListFields
<1> QED BY <1>1 DEF RowSelected, ListOK, ListScripts, ListFlights

-----------------------------------------------------------------------------
(* The lists of records and their panes: the invariant *)

RowsInv(l) ==
    /\ ListOK(l)
    /\ l.available = "yes" => l.default \in Records /\ l.selected \in Records

\* on the page of the jobs: one request at a time, whose answer the service held since
JobsInv(l, rs) ==
    /\ Len(l.flights) <= 1
    /\ l.flights = <<>> => l.since = {}
    /\ l.flights # <<>> => rs \in l.since
    /\ \A i \in DOMAIN l.flights : l.flights[i].read # NotRead => l.flights[i].read \in l.since

MarkedInv(l, v) == page # "actions" => l.marked \in {NoRecord, v.target}
SinceInv(l, rs) == IF On("jobs") THEN JobsInv(l, rs) ELSE l.since = {}

RecordInv ==
    /\ records \in Lists /\ events \in 0..MaxEvents
    /\ ViewInv(view) /\ RowsInv(list)
    /\ MarkedInv(list, view)
    /\ SinceInv(list, records)
    /\ page = NoPage => records = FewRecords

LEMMA RecordInvMeans == RecordInv => RecordsTypeOK /\ PaneFollowsRow
  BY DEF RecordInv, ViewInv, RowsInv, ViewOK, ListOK, MarkedInv, PaneShowsTarget,
         RecordsTypeOK, PaneFollowsRow

\* on the pages, what a step has to keep
LEMMA RecordStep ==
    ASSUME RecordInv, OnRecords, page' = page, records' \in Lists, events' \in 0..MaxEvents,
           ViewInv(view'), RowsInv(list'), MarkedInv(list', view'), SinceInv(list', records')
    PROVE  RecordInv'
<1>1. page # NoPage
  BY DEF OnRecords, RecordPageNames, NoPage
<1>2. MarkedInv(list, view)' /\ SinceInv(list, records)'
  BY DEF MarkedInv, SinceInv, On
<1>3. ViewInv(view)' /\ RowsInv(list)'
  OBVIOUS
<1> QED BY <1>1, <1>2, <1>3 DEF RecordInv

LEMMA EventStep ==
    ASSUME RecordInv, Event
    PROVE  OnRecords /\ events' \in 0..MaxEvents
  BY RecordFacts DEF Event, RecordInv

LEMMA DefaultSetInv ==
    ASSUME NEW l, NEW v, RowsInv(l), ViewInv(v), MarkedInv(l, v), DefaultSet(l, v)
    PROVE  /\ RowsInv(list') /\ ViewInv(view') /\ MarkedInv(list', view')
           /\ list'.rows = l.rows /\ list'.flights = l.flights /\ list'.since = l.since
           /\ IF l.available = "yes"
              THEN list'.marked = l.default /\ view'.target = l.default
              ELSE ~view'.open /\ view'.content = "cleared"
<1>1. CASE l.available = "yes"
  <2>1. list' = RowSelected(l, l.default) /\ view' = Chosen(v, l.default)
    BY <1>1 DEF DefaultSet
  <2>2. l.default \in Records /\ l.default \in AnyRecord /\ ListOK(l)
    BY <1>1 DEF RowsInv, AnyRecord
  <2>3. /\ ListOK(list') /\ list'.marked = l.default /\ list'.selected = l.default
        /\ list'.rows = l.rows /\ list'.flights = l.flights /\ list'.since = l.since
        /\ list'.default = l.default
    BY <2>1, <2>2, SelectedRow
  <2>4. ViewInv(view') /\ view'.target = l.default
    BY <2>1, <2>2, ChosenView
  <2> QED BY <1>1, <2>2, <2>3, <2>4 DEF RowsInv, MarkedInv
<1>2. CASE l.available # "yes"
  <2>1. list' = l /\ view' = Closed(v)
    BY <1>2 DEF DefaultSet
  <2>2. ViewInv(view') /\ view'.target = v.target /\ ~view'.open /\ view'.content = "cleared"
    BY <2>1, ClosedView
  <2> QED BY <1>2, <2>1, <2>2 DEF MarkedInv
<1> QED BY <1>1, <1>2

LEMMA SinceKept ==
    ASSUME NEW l, NEW m, NEW rs, SinceInv(l, rs), m.flights = l.flights, m.since = l.since
    PROVE  SinceInv(m, rs)
  BY DEF SinceInv, JobsInv

LEMMA SeenInv ==
    ASSUME NEW l, NEW rs, NEW new \in Lists, RowsInv(l), SinceInv(l, rs)
    PROVE  /\ RowsInv(Seen(l, new)) /\ SinceInv(Seen(l, new), new)
           /\ Seen(l, new).marked = l.marked /\ Seen(l, new).rows = l.rows
           /\ l.since = {} => Seen(l, new).since = {}
           /\ l.since # {} => Seen(l, new).since = l.since \union {new}
<1>1. l \in [rows : Lists, flights : Seq(ListFlights), since : SUBSET Lists,
                     selected : AnyRecord, marked : AnyRecord,
                     available : {"unset", "no", "yes"}, default : AnyRecord]
  BY ListFields DEF RowsInv
<1>2. CASE l.since = {}
  <2>1. Seen(l, new) = l
    BY <1>2 DEF Seen
  <2> QED BY <1>2, <2>1 DEF SinceInv, JobsInv
<1>3. CASE l.since # {}
  <2> DEFINE m == [l EXCEPT !.since = @ \union {new}]
  <2>1. Seen(l, new) = m
    BY <1>3 DEF Seen
  <2>2. /\ m.rows = l.rows /\ m.flights = l.flights /\ m.selected = l.selected /\ m.marked = l.marked
        /\ m.available = l.available /\ m.default = l.default /\ m.since = l.since \union {new}
    BY <1>1
  <2>3. ListOK(m)
    BY <1>1 DEF ListOK, ListScripts, ListFlights
  <2> HIDE DEF m
  <2>4. RowsInv(m)
    BY <2>2, <2>3 DEF RowsInv
  <2>5. On("jobs") /\ JobsInv(l, rs)
    BY <1>3 DEF SinceInv
  <2>6. JobsInv(m, new)
    <3>1. l.flights # <<>> /\ new \in m.since
      BY <1>3, <2>2, <2>5 DEF JobsInv
    <3>2. \A i \in DOMAIN m.flights : m.flights[i].read # NotRead => m.flights[i].read \in m.since
      BY <2>2, <2>5 DEF JobsInv
    <3>3. Len(m.flights) <= 1
      BY <2>2, <2>5 DEF JobsInv
    <3>4. QED BY <2>2, <3>1, <3>2, <3>3 DEF JobsInv
  <2> QED BY <1>3, <2>1, <2>2, <2>4, <2>5, <2>6 DEF SinceInv
<1> QED BY <1>2, <1>3

LEMMA OthersChangeInv ==
    ASSUME RecordInv, NEW r \in Records, NEW s \in States, OthersChange(r, s)
    PROVE  RecordInv'
<1>1. OnRecords /\ events' \in 0..MaxEvents
  BY EventStep DEF OthersChange
<1>2. records' = [records EXCEPT ![r] = s] /\ list' = Seen(list, records') /\ UNCHANGED <<page, view>>
  BY DEF OthersChange
<1>3. records' \in Lists
  BY <1>2 DEF RecordInv, Lists
<1>4. RowsInv(list') /\ SinceInv(list', records') /\ list'.marked = list.marked
  BY <1>2, <1>3, SeenInv DEF RecordInv
<1>5. ViewInv(view') /\ MarkedInv(list', view')
  BY <1>2, <1>4 DEF RecordInv, MarkedInv
<1> QED BY <1>1, <1>2, <1>3, <1>4, <1>5, RecordStep

LEMMA ClickRowInv ==
    ASSUME RecordInv, NEW r \in Records, ClickRow(r)
    PROVE  RecordInv'
<1>1. OnRecords /\ events' \in 0..MaxEvents
  BY EventStep DEF ClickRow
<1>2. /\ list' = IF On("actions") THEN [list EXCEPT !.marked = r] ELSE RowSelected(list, r)
      /\ view' = Chosen(view, r) /\ UNCHANGED <<page, records>>
  BY DEF ClickRow
<1>3. ViewInv(view') /\ view'.target = r
  BY <1>2, ChosenView DEF RecordInv
<1>4. ListOK(list) /\ r \in AnyRecord
  BY DEF RecordInv, RowsInv, AnyRecord
<1>5. /\ ListOK(list') /\ list'.marked = r /\ list'.selected \in {list.selected, r}
      /\ list'.available = list.available /\ list'.default = list.default
      /\ list'.flights = list.flights /\ list'.since = list.since
  <2>1. CASE On("actions")
    <3>1. list \in [rows : Lists, flights : Seq(ListFlights), since : SUBSET Lists,
                     selected : AnyRecord, marked : AnyRecord,
                     available : {"unset", "no", "yes"}, default : AnyRecord]
      BY <1>4, ListFields
    <3>2. list' = [list EXCEPT !.marked = r]
      BY <1>2, <2>1
    <3>3. QED BY <1>4, <3>1, <3>2 DEF ListOK, ListScripts, ListFlights
  <2>2. CASE ~On("actions")
    BY <1>2, <1>4, <2>2, SelectedRow
  <2>3. QED BY <2>1, <2>2
<1>6. RowsInv(list') /\ MarkedInv(list', view')
  BY <1>3, <1>5 DEF RowsInv, MarkedInv, RecordInv
<1>7. SinceInv(list', records')
  BY <1>2, <1>5, SinceKept DEF RecordInv
<1> QED BY <1>1, <1>2, <1>3, <1>6, <1>7, RecordStep DEF RecordInv

LEMMA RedrawRowsInv ==
    ASSUME RecordInv, RedrawRows
    PROVE  RecordInv'
<1>1. OnRecords /\ events' \in 0..MaxEvents /\ UNCHANGED <<page, records>>
  BY EventStep DEF RedrawRows
<1>2. DefaultSet(list, view)
  BY DEF RedrawRows
<1>3. /\ RowsInv(list') /\ ViewInv(view') /\ MarkedInv(list', view')
      /\ list'.flights = list.flights /\ list'.since = list.since
  BY <1>2, DefaultSetInv DEF RecordInv
<1>4. SinceInv(list', records')
  BY <1>1, <1>3, SinceKept DEF RecordInv
<1> QED BY <1>1, <1>3, <1>4, RecordStep DEF RecordInv

\* a step of the pane that leaves the list alone
LEMMA PaneStep ==
    ASSUME RecordInv, OnRecords, UNCHANGED <<page, records, list>>, events' \in 0..MaxEvents,
           ViewInv(view'), page # "actions" => view'.target = view.target \/ list.marked = NoRecord
    PROVE  RecordInv'
<1>1. MarkedInv(list', view')
  BY DEF RecordInv, MarkedInv
<1>2. SinceInv(list', records') /\ RowsInv(list')
  BY DEF RecordInv
<1> QED BY <1>1, <1>2, RecordStep DEF RecordInv

LEMMA ToggleInv == ASSUME RecordInv, ToggleProperties PROVE RecordInv'
<1>1. OnRecords /\ events' \in 0..MaxEvents
  BY EventStep DEF ToggleProperties
<1>2. view' = [view EXCEPT !.open = ~@] /\ UNCHANGED <<page, records, list>>
  BY DEF ToggleProperties
<1>3. view \in ViewFields /\ ViewInv(view)
  BY ViewTyped DEF RecordInv, ViewInv
<1>4. /\ view' \in ViewFields /\ view'.target = view.target /\ view'.flights = view.flights
      /\ view'.content = view.content /\ view'.record = view.record
      /\ view'.overtaken = view.overtaken
  BY <1>2, <1>3 DEF ViewFields
<1>5. ViewInv(view')
  BY <1>3, <1>4, SameView
<1> QED BY <1>1, <1>2, <1>4, <1>5, PaneStep

ListFieldSet == [rows : Lists, flights : Seq(ListFlights), since : SUBSET Lists,
                 selected : AnyRecord, marked : AnyRecord,
                 available : {"unset", "no", "yes"}, default : AnyRecord]

LEMMA ListTyped == ASSUME NEW l, ListOK(l)
                   PROVE  l \in ListFieldSet /\ l.flights \in Seq(ListFlights)
  BY ListFields DEF ListFieldSet

\* a step of the list that leaves the pane and the selection alone
LEMMA ListStep ==
    ASSUME RecordInv, OnRecords, UNCHANGED <<page, records, events, view>>,
           list' \in ListFieldSet, list'.marked = list.marked, list'.selected = list.selected,
           list'.available = list.available, list'.default = list.default,
           SinceInv(list', records)
    PROVE  RecordInv'
<1>1. RowsInv(list')
  BY DEF RowsInv, ListFieldSet, ListOK, ListScripts, ListFlights, RecordInv
<1>2. MarkedInv(list', view')
  BY DEF MarkedInv, RecordInv
<1>3. SinceInv(list', records')
  OBVIOUS
<1> QED BY <1>1, <1>2, <1>3, RecordStep DEF RecordInv

LEMMA ServiceListsInv ==
    ASSUME RecordInv, NEW i, ServiceLists(i)
    PROVE  RecordInv' /\ list'.rows = list.rows /\ list'.since = list.since
<1> DEFINE r == [list.flights[i] EXCEPT !.read = records]
<1>1. /\ OnRecords /\ i \in DOMAIN list.flights /\ UNCHANGED <<page, records, events, view>>
      /\ list' = [list EXCEPT !.flights[i].read = records]
  BY DEF ServiceLists
<1>2. list \in ListFieldSet /\ list.flights \in Seq(ListFlights) /\ records \in Lists
  BY ListTyped DEF RecordInv, RowsInv
<1>3. list.flights[i] \in ListFlights
  BY <1>1, <1>2
<1>4. r \in ListFlights /\ r.read = records
  BY <1>2, <1>3 DEF ListFlights
<1>5. list' = [list EXCEPT !.flights = [list.flights EXCEPT ![i] = r]]
  BY <1>1, <1>2 DEF ListFieldSet
<1> HIDE DEF r
<1> DEFINE fs == [list.flights EXCEPT ![i] = r]
<1>6. /\ fs \in Seq(ListFlights) /\ Len(fs) = Len(list.flights) /\ DOMAIN fs = DOMAIN list.flights
      /\ fs[i] = r /\ \A j \in DOMAIN fs : j # i => fs[j] = list.flights[j]
  BY <1>1, <1>2, <1>4
<1> HIDE DEF fs
<1>7. /\ list' \in ListFieldSet /\ list'.flights = fs /\ list'.since = list.since
      /\ list'.marked = list.marked /\ list'.selected = list.selected /\ list'.rows = list.rows
      /\ list'.available = list.available /\ list'.default = list.default
  BY <1>2, <1>5, <1>6 DEF ListFieldSet, fs
<1>8. SinceInv(list', records)
  <2>1. CASE ~On("jobs")
    BY <1>7, <2>1 DEF SinceInv, RecordInv
  <2>2. CASE On("jobs")
    <3>1. JobsInv(list, records) /\ list.flights # <<>>
      BY <1>1, <2>2 DEF SinceInv, RecordInv
    <3>2. records \in list.since
      BY <3>1 DEF JobsInv
    <3>3. \A j \in DOMAIN fs : fs[j].read # NotRead => fs[j].read \in list.since
      BY <1>4, <1>6, <3>1, <3>2 DEF JobsInv
    <3>4. fs # <<>>
      BY <1>1, <1>6
    <3>5. JobsInv(list', records)
      BY <1>6, <1>7, <3>1, <3>2, <3>3, <3>4 DEF JobsInv
    <3>6. QED BY <2>2, <3>5 DEF SinceInv
  <2>3. QED BY <2>1, <2>2
<1> QED BY <1>1, <1>7, <1>8, ListStep

\* the requests that are left, of the jobs none
LEMMA LeftOver ==
    ASSUME RecordInv, NEW i \in DOMAIN list.flights
    PROVE  /\ Answered(list.flights, i) \in Seq(ListFlights)
           /\ On("jobs") => Answered(list.flights, i) = <<>>
<1>1. list.flights \in Seq(ListFlights)
  BY ListTyped DEF RecordInv, RowsInv
<1>2. i \in 1..Len(list.flights)
  BY <1>1
<1>3. /\ Answered(list.flights, i) \in Seq(ListFlights)
      /\ Len(Answered(list.flights, i)) = Len(list.flights) - 1
  BY <1>1, <1>2, FlightsMaySupersede, AnsweredIs
<1>4. ASSUME On("jobs") PROVE Answered(list.flights, i) = <<>>
  <2>1. Len(list.flights) <= 1
    BY <1>4 DEF RecordInv, SinceInv, JobsInv
  <2>2. Len(Answered(list.flights, i)) = 0
    <3>1. Len(list.flights) \in Nat
      BY <1>1
    <3> DEFINE n == Len(list.flights)
    <3> HIDE DEF n
    <3>2. n \in Nat /\ i \in 1..n /\ n <= 1
      BY <1>2, <2>1, <3>1 DEF n
    <3>3. n - 1 = 0
      BY <3>2
    <3>4. QED BY <1>3, <3>3 DEF n
  <2>3. QED BY <1>3, <2>2
<1> QED BY <1>3, <1>4

LEMMA AnsweredSince ==
    ASSUME RecordInv, NEW i \in DOMAIN list.flights, NEW m, NEW rs,
           m.flights = Answered(list.flights, i), m.since = {}
    PROVE  SinceInv(m, rs)
<1>1. CASE ~On("jobs")
  BY <1>1 DEF SinceInv
<1>2. CASE On("jobs")
  <2>1. m.flights = <<>>
    BY <1>2, LeftOver
  <2>2. Len(m.flights) <= 1 /\ DOMAIN m.flights = {}
    BY <2>1
  <2> QED BY <1>2, <2>1, <2>2 DEF SinceInv, JobsInv
<1> QED BY <1>1, <1>2

LEMMA ListFailedInv ==
    ASSUME RecordInv, NEW i, ListFailed(i)
    PROVE  RecordInv' /\ list'.rows = list.rows /\ list'.since = {}
<1>1. /\ OnRecords /\ i \in DOMAIN list.flights /\ UNCHANGED <<page, records, events, view>>
      /\ list' = [list EXCEPT !.flights = Answered(@, i), !.since = {}]
  BY DEF ListFailed
<1>2. list \in ListFieldSet /\ list.flights \in Seq(ListFlights)
  BY ListTyped DEF RecordInv, RowsInv
<1>3. Answered(list.flights, i) \in Seq(ListFlights)
  BY <1>1, LeftOver
<1>4. /\ list' \in ListFieldSet /\ list'.flights = Answered(list.flights, i) /\ list'.since = {}
      /\ list'.marked = list.marked /\ list'.selected = list.selected /\ list'.rows = list.rows
      /\ list'.available = list.available /\ list'.default = list.default
  BY <1>1, <1>2, <1>3 DEF ListFieldSet
<1>5. SinceInv(list', records)
  BY <1>1, <1>4, AnsweredSince
<1> QED BY <1>1, <1>4, <1>5, ListStep

LEMMA SearchedRows ==
    ASSUME NEW l \in ListFieldSet, RowsInv(l), NEW rows \in Lists
    PROVE  /\ RowsInv(Searched(l, rows)) /\ Searched(l, rows).flights = l.flights
           /\ Searched(l, rows).since = l.since /\ Searched(l, rows).rows = l.rows
           /\ Searched(l, rows).marked = l.marked /\ Searched(l, rows).selected = l.selected
           /\ page # "actions" =>
                IF l.selected \in Present(rows)
                THEN Searched(l, rows).available = "yes" /\ Searched(l, rows).default = l.selected
                ELSE Searched(l, rows).available # "yes"
<1> DEFINE found == [l EXCEPT !.available = "yes", !.default = l.selected]
           gone  == [l EXCEPT !.available = "no"]
<1>1. Present(rows) \subseteq Records
  BY DEF Present
<1>2. l.selected \in AnyRecord
  BY DEF ListFieldSet
<1>3. CASE On("actions") \/ l.selected = NoRecord
  <2>1. Searched(l, rows) = l
    BY <1>3 DEF Searched
  <2>2. page # "actions" => l.available # "yes" /\ l.selected \notin Present(rows)
    BY <1>1, <1>3, RecordFacts DEF RowsInv, On
  <2> QED BY <2>1, <2>2
<1>4. CASE ~On("actions") /\ l.selected # NoRecord /\ l.selected \in Present(rows)
  <2>1. Searched(l, rows) = found
    BY <1>4 DEF Searched
  <2>2. /\ found \in ListFieldSet /\ found.flights = l.flights /\ found.since = l.since /\ found.rows = l.rows
        /\ found.marked = l.marked /\ found.selected = l.selected
        /\ found.available = "yes" /\ found.default = l.selected
    BY <1>2 DEF ListFieldSet
  <2> HIDE DEF found
  <2>3. RowsInv(found)
    BY <1>1, <1>4, <2>2 DEF RowsInv, ListFieldSet, ListOK, ListScripts, ListFlights
  <2> QED BY <1>4, <2>1, <2>2, <2>3
<1>5. CASE ~On("actions") /\ l.selected # NoRecord /\ l.selected \notin Present(rows)
  <2>1. Searched(l, rows) = gone
    BY <1>5 DEF Searched
  <2>2. /\ gone \in ListFieldSet /\ gone.flights = l.flights /\ gone.since = l.since /\ gone.rows = l.rows
        /\ gone.marked = l.marked /\ gone.selected = l.selected /\ gone.available = "no"
    BY DEF ListFieldSet
  <2> HIDE DEF gone
  <2>3. RowsInv(gone)
    BY <2>2 DEF RowsInv, ListFieldSet, ListOK, ListScripts, ListFlights
  <2> QED BY <1>5, <2>1, <2>2, <2>3
<1> QED BY <1>3, <1>4, <1>5

\* what ListAnswered makes of the list and the pane
LEMMA ListAnsweredIs ==
    ASSUME RecordInv, NEW i, ListAnswered(i)
    PROVE  /\ RecordInv' /\ list'.since = {}
           /\ list'.rows = list.flights[i].read /\ i \in DOMAIN list.flights
           /\ page # "actions" =>
                IF list.selected \in Present(list'.rows)
                THEN list'.marked = list.selected /\ view'.target = list.selected
                ELSE ~view'.open /\ view'.content = "cleared"
<1> DEFINE rows == list.flights[i].read
           l == [list EXCEPT !.flights = Answered(@, i), !.since = {}, !.rows = rows, !.marked = NoRecord]
           s == Searched(l, rows)
<1>1. /\ OnRecords /\ i \in DOMAIN list.flights /\ rows # NotRead
      /\ DefaultSet(s, view) /\ UNCHANGED <<page, records, events>>
  BY DEF ListAnswered
<1>2. list \in ListFieldSet /\ list.flights \in Seq(ListFlights)
  BY ListTyped DEF RecordInv, RowsInv
<1>3. rows \in Lists
  <2>1. list.flights[i] \in ListFlights
    BY <1>1, <1>2
  <2>2. QED BY <1>1, <2>1 DEF ListFlights
<1>4. Answered(list.flights, i) \in Seq(ListFlights)
  BY <1>1, LeftOver
<1> HIDE DEF rows
<1>5. /\ l \in ListFieldSet /\ l.flights = Answered(list.flights, i) /\ l.since = {} /\ l.rows = rows
      /\ l.marked = NoRecord /\ l.selected = list.selected
      /\ l.available = list.available /\ l.default = list.default
  BY <1>2, <1>3, <1>4 DEF ListFieldSet, AnyRecord
<1> HIDE DEF l
<1>6. RowsInv(l)
  BY <1>5 DEF RowsInv, ListFieldSet, ListOK, ListScripts, ListFlights, RecordInv
<1>7. /\ RowsInv(s) /\ s.flights = l.flights /\ s.since = {} /\ s.rows = rows /\ s.marked = NoRecord
      /\ page # "actions" => IF l.selected \in Present(rows)
                             THEN s.available = "yes" /\ s.default = l.selected
                             ELSE s.available # "yes"
  BY <1>3, <1>5, <1>6, SearchedRows
<1> HIDE DEF s
<1>8. MarkedInv(s, view)
  BY <1>7 DEF MarkedInv
<1>9. /\ RowsInv(list') /\ ViewInv(view') /\ MarkedInv(list', view')
      /\ list'.rows = s.rows /\ list'.flights = s.flights /\ list'.since = s.since
      /\ IF s.available = "yes"
         THEN list'.marked = s.default /\ view'.target = s.default
         ELSE ~view'.open /\ view'.content = "cleared"
  BY <1>1, <1>7, <1>8, DefaultSetInv DEF RecordInv
<1>10. SinceInv(list', records')
  BY <1>1, <1>5, <1>7, <1>9, AnsweredSince
<1>11. RecordInv'
  BY <1>1, <1>9, <1>10, RecordStep DEF RecordInv
<1> QED BY <1>1, <1>5, <1>7, <1>9, <1>11 DEF rows

-----------------------------------------------------------------------------
(* The pane of a record *)

\* requests that are left when the answer to request i is there
LEMMA LeftViews ==
    ASSUME ViewInv(view), NEW i \in DOMAIN view.flights
    PROVE  LET left == Answered(view.flights, i)
           IN  /\ left \in Seq(ViewFlights)
               /\ left # <<>> =>
                    left[Len(left)].record = view.target \/ left[Len(left)].superseded
               /\ left = <<>> =>
                    view.flights[i].record = view.target \/ view.flights[i].superseded
               /\ view.flights[i] \in ViewFlights /\ view.flights # <<>>
<1> DEFINE fs == view.flights
           left == Answered(fs, i)
           n == Len(fs)
<1>1. fs \in Seq(ViewFlights) /\ n \in Nat /\ i \in 1..n /\ fs # <<>>
  BY ViewTyped DEF ViewInv
<1>2. fs[n].record = view.target \/ fs[n].superseded
  BY <1>1 DEF ViewInv, LastIsTarget
<1>3. /\ left \in Seq(ViewFlights) /\ Len(left) = n - 1
      /\ \A j \in 1..(n - 1) : left[j] = IF j < i THEN Superseded(fs[j]) ELSE fs[j + 1]
  BY <1>1, FlightsMaySupersede, AnsweredIs
<1>4. fs[i] \in ViewFlights
  BY <1>1
<1> HIDE DEF left
<1>5. ASSUME left # <<>> PROVE left[n - 1].record = view.target \/ left[n - 1].superseded
  <2>1. n - 1 \in 1..(n - 1)
    BY <1>1, <1>3, <1>5
  <2>2. CASE i = n
    <3>1. left[n - 1] = Superseded(fs[n - 1])
      BY <1>3, <2>1, <2>2
    <3>2. fs[n - 1] \in ViewFlights
      BY <1>1, <2>1
    <3>3. QED BY <3>1, <3>2 DEF Superseded, ViewFlights
  <2>3. CASE i # n
    <3>1. ~(n - 1 < i) /\ (n - 1) + 1 = n
      BY <1>1, <2>3
    <3>2. left[n - 1] = fs[n]
      BY <1>3, <2>1, <3>1
    <3>3. QED BY <1>2, <3>2
  <2>4. QED BY <2>2, <2>3
<1>6. ASSUME left = <<>> PROVE i = n
  <2>1. Len(left) = 0
    BY <1>6
  <2>2. n = 1
    BY <1>1, <1>3, <2>1
  <2>3. QED BY <1>1, <2>2
<1> QED BY <1>1, <1>2, <1>3, <1>4, <1>5, <1>6 DEF left

LEMMA ViewAnsweredInv ==
    ASSUME RecordInv, NEW i, ViewAnswered(i)
    PROVE  RecordInv'
<1> DEFINE fs == view.flights
           r == IF On("actions") THEN view.target ELSE fs[i].record
<1>1. /\ OnRecords /\ i \in DOMAIN fs /\ records[r] # "absent"
      /\ view' = [view EXCEPT !.flights = Answered(@, i), !.open = TRUE, !.content = "view",
                              !.record = r, !.value = records[r], !.overtaken = fs[i].superseded]
      /\ UNCHANGED <<page, records, events, list>>
  BY DEF ViewAnswered
<1>2. view \in ViewFields /\ ViewInv(view)
  BY ViewTyped DEF RecordInv, ViewInv
<1>3. /\ Answered(fs, i) \in Seq(ViewFlights) /\ fs[i] \in ViewFlights /\ fs # <<>>
      /\ Answered(fs, i) # <<>> =>
           Answered(fs, i)[Len(Answered(fs, i))].record = view.target
             \/ Answered(fs, i)[Len(Answered(fs, i))].superseded
      /\ Answered(fs, i) = <<>> => fs[i].record = view.target \/ fs[i].superseded
  BY <1>1, <1>2, LeftViews
<1>4. view.target \in Records
  BY <1>2, <1>3 DEF ViewInv, Targeted
<1>5. r \in Records /\ fs[i].superseded \in BOOLEAN
  BY <1>3, <1>4 DEF ViewFlights
<1>6. records[r] \in Values
  BY <1>1, <1>5 DEF RecordInv, Lists, States
<1>7. r = view.target \/ r = fs[i].record
  OBVIOUS
<1> DEFINE left == Answered(fs, i)
           o == fs[i].superseded
<1> HIDE DEF r, left, fs, o
<1>8. view' = [view EXCEPT !.flights = left, !.open = TRUE, !.content = "view",
                           !.record = r, !.value = records[r], !.overtaken = o]
  BY <1>1 DEF left, fs, o
<1>9. /\ view' \in ViewFields /\ view'.target = view.target /\ view'.flights = left
      /\ view'.content = "view" /\ view'.record = r /\ view'.overtaken = o
  BY <1>2, <1>3, <1>5, <1>6, <1>8 DEF ViewFields, AnyRecord, left, o
<1>10. ViewOK(view')
  BY <1>9 DEF ViewOK, ViewScripts, ViewFields, ViewFlights
<1>11. LastIsTarget(view')
  BY <1>3, <1>9 DEF LastIsTarget, left
<1>12. PaneShowsTarget(view')
  BY <1>3, <1>7, <1>9 DEF PaneShowsTarget, left, o
<1>13. ViewInv(view')
  BY <1>4, <1>5, <1>9, <1>10, <1>11, <1>12 DEF ViewInv, Targeted
<1> QED BY <1>1, <1>9, <1>13, PaneStep DEF RecordInv

LEMMA ViewFailedInv ==
    ASSUME RecordInv, NEW i, ViewFailed(i)
    PROVE  RecordInv'
<1> DEFINE fs == view.flights
           r == IF On("actions") THEN fs[i].record ELSE view.target
           left == Answered(fs, i)
<1>1. /\ OnRecords /\ i \in DOMAIN fs
      /\ view' = [view EXCEPT !.flights = left, !.content = "failed", !.overtaken = FALSE, !.record = r]
      /\ UNCHANGED <<page, records, events, list>>
  BY DEF ViewFailed
<1>2. view \in ViewFields /\ ViewInv(view)
  BY ViewTyped DEF RecordInv, ViewInv
<1>3. /\ left \in Seq(ViewFlights) /\ fs[i] \in ViewFlights /\ fs # <<>>
      /\ left # <<>> => left[Len(left)].record = view.target \/ left[Len(left)].superseded
  BY <1>1, <1>2, LeftViews
<1>4. view.target \in Records
  BY <1>2, <1>3 DEF ViewInv, Targeted
<1>5. r \in Records
  BY <1>3, <1>4 DEF ViewFlights
<1> HIDE DEF r, left, fs
<1>6. /\ view' \in ViewFields /\ view'.target = view.target /\ view'.flights = left
      /\ view'.content = "failed" /\ view'.record = r
  BY <1>1, <1>2, <1>3, <1>5 DEF ViewFields, AnyRecord
<1>7. ViewOK(view')
  BY <1>6 DEF ViewOK, ViewScripts, ViewFields, ViewFlights
<1>8. ViewInv(view')
  BY <1>3, <1>4, <1>5, <1>6, <1>7 DEF ViewInv, Targeted, LastIsTarget, PaneShowsTarget
<1> QED BY <1>1, <1>6, <1>8, PaneStep DEF RecordInv

LEMMA RetryInv == ASSUME RecordInv, Retry PROVE RecordInv'
<1> DEFINE r == IF On("actions") THEN view.record ELSE view.target
<1>1. OnRecords /\ events' \in 0..MaxEvents
  BY EventStep DEF Retry
<1>2. view.content = "failed" /\ view' = Chosen(view, r) /\ UNCHANGED <<page, records, list>>
  BY DEF Retry
<1>3. r \in Records /\ (page # "actions" => r = view.target)
  BY <1>2 DEF RecordInv, ViewInv, Targeted, On
<1> HIDE DEF r
<1>4. ViewInv(view') /\ view'.target = r
  BY <1>2, <1>3, ChosenView DEF RecordInv
<1> QED BY <1>1, <1>2, <1>3, <1>4, PaneStep

LEMMA PressButtonInv ==
    ASSUME RecordInv, NEW v \in Values, PressButton(v)
    PROVE  RecordInv'
<1>1. OnRecords /\ events' \in 0..MaxEvents
  BY EventStep DEF PressButton
<1>2. view \in ViewFields /\ ViewInv(view)
  BY ViewTyped DEF RecordInv, ViewInv
<1>3. view.content = "view" /\ UNCHANGED <<page, records, list>>
  BY DEF PressButton
<1>4. PICK post \in Posted(v) : view' = [view EXCEPT !.post = post]
  BY DEF PressButton
<1>5. view.target \in Records /\ view.record \in Records
  BY <1>2, <1>3 DEF ViewInv, Targeted
<1>6. post \in [record : Records, value : Values]
  <2>1. CASE On("rules")
    BY <1>4, <1>5, <2>1 DEF Posted, Other, Values
  <2>2. CASE ~On("rules") /\ On("jobs")
    BY <1>4, <1>5, <2>2 DEF Posted, Values
  <2>3. CASE ~On("rules") /\ ~On("jobs")
    BY <1>4, <1>5, <2>3 DEF Posted
  <2>4. QED BY <2>1, <2>2, <2>3
<1>7. /\ view' \in ViewFields /\ view'.target = view.target /\ view'.flights = view.flights
      /\ view'.content = view.content /\ view'.record = view.record
      /\ view'.overtaken = view.overtaken
  BY <1>2, <1>4, <1>6 DEF ViewFields
<1>8. ViewInv(view')
  BY <1>2, <1>7, SameView
<1> QED BY <1>1, <1>3, <1>7, <1>8, PaneStep

LEMMA PostGone ==
    ASSUME RecordInv, view' = [view EXCEPT !.post = <<>>]
    PROVE  ViewInv(view') /\ view'.target = view.target
<1>1. view \in ViewFields /\ ViewInv(view)
  BY ViewTyped DEF RecordInv, ViewInv
<1>2. /\ view' \in ViewFields /\ view'.target = view.target /\ view'.flights = view.flights
      /\ view'.content = view.content /\ view'.record = view.record
      /\ view'.overtaken = view.overtaken
  BY <1>1 DEF ViewFields
<1> QED BY <1>1, <1>2, SameView

LEMMA PostApplied ==
    ASSUME RecordInv, view.post # <<>>,
           records' = [records EXCEPT ![view.post.record] = view.post.value]
    PROVE  records' \in Lists
<1>1. view.post \in [record : Records, value : Values]
  BY ViewTyped DEF RecordInv, ViewInv, ViewFields
<1> QED BY <1>1 DEF RecordInv, Lists, States

LEMMA PostAnsweredInv ==
    ASSUME RecordInv, PostAnswered
    PROVE  RecordInv' /\ list'.rows = list.rows /\ list'.since = Asked(records') /\ records' \in Lists
<1> DEFINE new == [read |-> NotRead, superseded |-> FALSE]
           fs  == Append(Pending(list.flights), new)
<1>1. /\ OnRecords /\ view.post # <<>> /\ UNCHANGED <<page, events>>
      /\ records' = [records EXCEPT ![view.post.record] = view.post.value]
      /\ view' = [view EXCEPT !.post = <<>>]
      /\ list' = [Reloaded(list) EXCEPT !.since = Asked(records')]
  BY DEF PostAnswered
<1>2. records' \in Lists
  BY <1>1, PostApplied
<1>3. ViewInv(view') /\ view'.target = view.target
  BY <1>1, PostGone
<1>4. list \in ListFieldSet /\ list.flights \in Seq(ListFlights)
  BY ListTyped DEF RecordInv, RowsInv
<1>5. new \in ListFlights
  BY DEF ListFlights
<1>6. Pending(list.flights) \in Seq(ListFlights) /\ (On("jobs") => Pending(list.flights) = <<>>)
  BY <1>4 DEF Pending
<1> HIDE DEF new
<1>7. /\ fs \in Seq(ListFlights) /\ Len(fs) = Len(Pending(list.flights)) + 1 /\ fs # <<>>
      /\ fs[Len(Pending(list.flights)) + 1] = new
  BY <1>5, <1>6, AppendProperties
<1>8. Reloaded(list) = [list EXCEPT !.flights = fs]
  BY DEF Reloaded, new
<1>9. Asked(records') \subseteq Lists
  BY <1>2 DEF Asked
<1> HIDE DEF fs
<1>10. /\ list' \in ListFieldSet /\ list'.flights = fs /\ list'.since = Asked(records')
       /\ list'.rows = list.rows /\ list'.marked = list.marked /\ list'.selected = list.selected
       /\ list'.available = list.available /\ list'.default = list.default
  BY <1>1, <1>4, <1>7, <1>8, <1>9 DEF ListFieldSet
<1>11. RowsInv(list')
  BY <1>10 DEF RowsInv, ListFieldSet, ListOK, ListScripts, ListFlights, RecordInv
<1>12. MarkedInv(list', view')
  BY <1>3, <1>10 DEF MarkedInv, RecordInv
<1>13. SinceInv(list', records')
  <2>1. CASE ~On("jobs")
    BY <1>10, <2>1 DEF SinceInv, Asked
  <2>2. CASE On("jobs")
    <3>1. Len(fs) = 1 /\ fs[1] = new
      BY <1>6, <1>7, <2>2
    <3>2. \A i \in DOMAIN fs : fs[i].read = NotRead
      BY <1>7, <3>1 DEF new
    <3>3. records' \in list'.since
      BY <1>10, <2>2 DEF Asked
    <3>4. JobsInv(list', records')
      <4>0. list'.flights = fs
        BY <1>10
      <4>1. Len(list'.flights) <= 1 /\ list'.flights # <<>>
        <5>1. Len(fs) <= 1
          BY <3>1
        <5>2. fs # <<>>
          BY <1>7
        <5>3. QED BY <4>0, <5>1, <5>2, Zenon
      <4>2. \A i \in DOMAIN list'.flights : list'.flights[i].read = NotRead
        BY <1>10, <3>2
      <4>3. QED BY <3>3, <4>1, <4>2 DEF JobsInv
    <3>5. QED BY <2>2, <3>4 DEF SinceInv
  <2>3. QED BY <2>1, <2>2
<1>14. RecordInv'
  BY <1>1, <1>2, <1>3, <1>11, <1>12, <1>13, RecordStep DEF RecordInv
<1> QED BY <1>2, <1>10, <1>14

LEMMA PostFailedInv ==
    ASSUME RecordInv, PostFailed
    PROVE  RecordInv' /\ list'.rows = list.rows
           /\ \/ UNCHANGED <<records, list>>
              \/ /\ records' \in Lists
                 /\ list.since = {} => list'.since = {}
                 /\ list.since # {} => list'.since = list.since \union {records'}
<1>1. OnRecords /\ view.post # <<>> /\ UNCHANGED <<page, events>> /\ view' = [view EXCEPT !.post = <<>>]
  BY DEF PostFailed
<1>2. ViewInv(view') /\ view'.target = view.target
  BY <1>1, PostGone
<1>3. CASE UNCHANGED <<records, list>>
  <2>1. RowsInv(list') /\ MarkedInv(list', view') /\ SinceInv(list', records')
    BY <1>2, <1>3 DEF RecordInv, MarkedInv
  <2> QED BY <1>1, <1>2, <1>3, <2>1, RecordStep DEF RecordInv
<1>4. CASE /\ records' = [records EXCEPT ![view.post.record] = view.post.value]
           /\ list' = Seen(list, records')
  <2>1. records' \in Lists
    BY <1>1, <1>4, PostApplied
  <2>2. /\ RowsInv(list') /\ SinceInv(list', records') /\ list'.marked = list.marked
        /\ list'.rows = list.rows
        /\ list.since = {} => list'.since = {}
        /\ list.since # {} => list'.since = list.since \union {records'}
    <3>1. RowsInv(list) /\ SinceInv(list, records)
      BY DEF RecordInv
    <3> DEFINE new == records'
    <3>2. new \in Lists /\ list' = Seen(list, new)
      BY <1>4, <2>1
    <3> HIDE DEF new
    <3>3. /\ RowsInv(Seen(list, new)) /\ SinceInv(Seen(list, new), new)
          /\ Seen(list, new).marked = list.marked /\ Seen(list, new).rows = list.rows
          /\ list.since = {} => Seen(list, new).since = {}
          /\ list.since # {} => Seen(list, new).since = list.since \union {new}
      <4>1. new \in Lists
        BY <3>2
      <4>2. RowsInv(Seen(list, new))
        BY <3>1, <4>1, SeenInv
      <4>3. SinceInv(Seen(list, new), new)
        BY <3>1, <4>1, SeenInv
      <4>4. Seen(list, new).marked = list.marked /\ Seen(list, new).rows = list.rows
        BY <3>1, <4>1, SeenInv
      <4>5. /\ list.since = {} => Seen(list, new).since = {}
            /\ list.since # {} => Seen(list, new).since = list.since \union {new}
        BY <3>1, <4>1, SeenInv
      <4>6. QED BY <4>2, <4>3, <4>4, <4>5
    <3>4. /\ RowsInv(list') /\ SinceInv(list', new) /\ list'.marked = list.marked
          /\ list'.rows = list.rows
          /\ list.since = {} => list'.since = {}
          /\ list.since # {} => list'.since = list.since \union {new}
      BY <3>2, <3>3
    <3>5. QED BY <3>4 DEF new
  <2>3. MarkedInv(list', view')
    BY <1>2, <2>2 DEF RecordInv, MarkedInv
  <2> QED BY <1>1, <1>2, <2>1, <2>2, <2>3, RecordStep DEF RecordInv
<1> QED BY <1>3, <1>4 DEF PostFailed

-----------------------------------------------------------------------------
(* The lists of records and their panes: every step of the site *)

LEMMA RecordNextInv ==
    ASSUME RecordInv, RecordNext
    PROVE  RecordInv'
<1>1. ASSUME NEW r \in Records, ClickRow(r) \/ \E s \in States : OthersChange(r, s)
      PROVE  RecordInv'
  BY <1>1, ClickRowInv, OthersChangeInv
<1>2. CASE RedrawRows \/ ToggleProperties \/ Retry \/ \E v \in Values : PressButton(v)
  BY <1>2, RedrawRowsInv, ToggleInv, RetryInv, PressButtonInv
<1>3. ASSUME NEW i \in 1..MaxLists, ServiceLists(i) \/ ListAnswered(i) \/ ListFailed(i)
      PROVE  RecordInv'
  BY <1>3, ServiceListsInv, ListAnsweredIs, ListFailedInv
<1>4. ASSUME NEW i \in 1..MaxViews, ViewAnswered(i) \/ ViewFailed(i)
      PROVE  RecordInv'
  BY <1>4, ViewAnsweredInv, ViewFailedInv
<1>5. CASE PostAnswered \/ PostFailed
  BY <1>5, PostAnsweredInv, PostFailedInv
<1> QED BY <1>1, <1>2, <1>3, <1>4, <1>5 DEF RecordNext, RequestEnds

\* no page, and a page that has just been loaded
LEMMA EmptyScripts ==
    /\ ViewInv(NoViewScript) /\ NoViewScript.target = NoRecord
    /\ RowsInv(NoListScript) /\ NoListScript.rows = NoList /\ NoListScript.since = {}
    /\ NoListScript.flights = <<>> /\ NoListScript.marked = NoRecord
    /\ NoListScript.available = "unset" /\ NoListScript \in ListFieldSet
<1>1. <<>> \in Seq(ViewFlights) /\ <<>> \in Seq(ListFlights)
  BY EmptySeq
<1>2. NoViewScript \in ViewFields
  BY <1>1 DEF NoViewScript, ViewFields, AnyRecord, Values
<1>3. ViewOK(NoViewScript)
  BY <1>2 DEF ViewOK, ViewScripts, ViewFields, ViewFlights
<1>4. ViewInv(NoViewScript) /\ NoViewScript.target = NoRecord
  BY <1>3 DEF ViewInv, LastIsTarget, PaneShowsTarget, Targeted, NoViewScript
<1>5. NoListScript \in ListFieldSet
  BY <1>1, RecordFacts DEF NoListScript, ListFieldSet, AnyRecord
<1>6. ListOK(NoListScript)
  BY <1>5 DEF ListOK, ListScripts, ListFieldSet, ListFlights
<1> QED BY <1>4, <1>5, <1>6 DEF RowsInv, NoListScript

LEMMA LoadedScript ==
    ASSUME NEW p \in RecordPageNames, NEW r \in AnyRecord, page' = p
    PROVE  LET l == LoadedList(p, r)
           IN  /\ RowsInv(l) /\ l.marked = NoRecord /\ l.rows = NoList
               /\ IF p = "jobs" THEN JobsInv(l, FewRecords) /\ l.since = {FewRecords} ELSE l.since = {}
<1> DEFINE new   == [read |-> NotRead, superseded |-> FALSE]
           fs    == <<new>>
           since == IF p = "jobs" THEN {FewRecords} ELSE {}
           sel   == IF p = "jobs" THEN r ELSE NoRecord
           l     == LoadedList(p, r)
<1>1. l = [NoListScript EXCEPT !.flights = fs, !.since = since, !.selected = sel]
  BY DEF LoadedList
<1>2. new \in ListFlights
  BY DEF ListFlights
<1>3. fs \in Seq(ListFlights) /\ Len(fs) = 1 /\ fs # <<>> /\ DOMAIN fs = {1} /\ fs[1].read = NotRead
  BY <1>2
<1>4. since \subseteq Lists /\ sel \in AnyRecord
  BY RecordFacts DEF AnyRecord
<1>5. p = "jobs" => since = {FewRecords}
  OBVIOUS
<1>6. p # "jobs" => since = {}
  OBVIOUS
<1> HIDE DEF l, fs, since, sel
<1>7. /\ l \in ListFieldSet /\ l.flights = fs /\ l.since = since /\ l.rows = NoList
      /\ l.marked = NoRecord /\ l.available = "unset"
  BY <1>1, <1>3, <1>4, EmptyScripts DEF ListFieldSet
<1>8. RowsInv(l)
  BY <1>7 DEF RowsInv, ListFieldSet, ListOK, ListScripts, ListFlights
<1>9. p = "jobs" => JobsInv(l, FewRecords)
  <2> SUFFICES ASSUME p = "jobs" PROVE JobsInv(l, FewRecords)
    OBVIOUS
  <2>0. Len(fs) <= 1
    BY <1>3
  <2>1. Len(l.flights) <= 1 /\ l.flights # <<>> /\ FewRecords \in l.since
    <3>1. FewRecords \in l.since
      BY <1>5, <1>7
    <3>2. QED BY <1>3, <1>7, <2>0, <3>1, Zenon
  <2>2. \A i \in DOMAIN l.flights : l.flights[i].read = NotRead
    BY <1>3, <1>7
  <2>3. QED BY <2>1, <2>2 DEF JobsInv
<1> QED BY <1>5, <1>6, <1>7, <1>8, <1>9 DEF l

LEMMA LeaveRecords ==
    ASSUME Leave
    PROVE  RecordInv'
<1>1. /\ records' = FewRecords /\ events' = 0 /\ list' = NoListScript /\ view' = NoViewScript
      /\ page' = NoPage
  BY DEF Leave
<1>2. SinceInv(list, records)'
  BY <1>1, EmptyScripts DEF SinceInv, On, NoPage
<1>3. MarkedInv(list, view)'
  BY <1>1, EmptyScripts DEF MarkedInv
<1> QED BY <1>1, <1>2, <1>3, EmptyScripts, RecordFacts DEF RecordInv

LEMMA OpenRecords ==
    ASSUME RecordInv, NEW p \in Pages, Open(p)
    PROVE  RecordInv'
<1>1. /\ page = NoPage /\ page' = p /\ UNCHANGED <<records, events, view>> /\ records = FewRecords
      /\ p # NoPage
  BY DEF Open, RecordInv, Pages, NoPage, RecordPageNames
<1>2. CASE p \notin RecordPageNames
  <2>1. list' = list /\ p # "jobs"
    BY <1>2 DEF Open, RecordPageNames
  <2>2. list.since = {} /\ list.marked \in {NoRecord, view.target}
    BY <1>1 DEF RecordInv, SinceInv, On, NoPage, MarkedInv
  <2> QED BY <1>1, <2>1, <2>2 DEF RecordInv, SinceInv, On, MarkedInv
<1>3. CASE p \in RecordPageNames
  <2>1. PICK r \in AnyRecord : list' = LoadedList(p, r)
    BY <1>3 DEF Open
  <2>2. /\ RowsInv(list') /\ list'.marked = NoRecord
        /\ IF p = "jobs" THEN JobsInv(list', FewRecords) ELSE list'.since = {}
    BY <1>1, <1>3, <2>1, LoadedScript
  <2>3. SinceInv(list, records)' /\ MarkedInv(list, view)'
    BY <1>1, <2>2 DEF SinceInv, On, MarkedInv
  <2> QED BY <1>1, <2>2, <2>3 DEF RecordInv
<1> QED BY <1>2, <1>3

\* the steps of the other pages
LEMMA ElsewhereKeepsPage ==
    ASSUME DashboardNext \/ IndicatorsNext \/ DevicesNext \/ FiltersNext
    PROVE  page' = page
<1>1. CASE DashboardNext
  BY <1>1 DEF DashboardNext, TelemetryArrives, ChooseDevice, RefreshData, ServiceReads,
              TelemetryAnswered, TelemetryFailed, AlertsAnswered, AlertsFailed, ReloadGrid, MapKeyAnswered
<1>2. CASE IndicatorsNext
  BY <1>2 DEF IndicatorsNext, DefinitionsAnswered, ValuesAnswered, DefinitionsFailed,
              DefinitionsTimer, ValuesFailed, ValuesTimer, Waits
<1>3. CASE DevicesNext
  BY <1>3 DEF DevicesNext, DevicesGoOn, AskGrid, ClickDevice, CheckDevice, RetryColumns, ToggleDetails,
              EditColumns, ScheduleJob, RetryView, UpdateColumns, SwitchDevice, ColumnsAnswered,
              ColumnsFailed, ClausesFailed, FilterLoaded, GridAnswered, GridFailed, SetDefaultRow,
              ViewCame, ViewDidNotCome, ColumnsUpdated, ColumnsNotUpdated, FilterSaved,
              FilterUnsaved, SwitchEnds, SaveSelection, SelectionSaved, SelectionUnsaved,
              SelectionFound, SelectionNotFound
<1>4. CASE FiltersNext
  <2>1. CASE FiltersGoOn
    BY <2>1 DEF FiltersGoOn, ServiceSteps, SaveReads, SaveChecks, SaveInserts, SaveDrops, DeleteReads,
                DeleteDrops, Steps, AnswersCome, FilterFound, FilterNotFound, SaveAnswered, SaveFailed,
                DeleteAnswered, DeleteRefused, DeleteFailed, Answers, Edits
  <2>2. CASE ~FiltersGoOn
    BY <1>4, <2>2 DEF FiltersNext, ShowPanel, EditClauses, ExecuteFilter, CancelEdit, EditFilterName,
                LoadFilter, SaveFilter, SaveFilterIfNeeded, DeleteFilter, SaveAsFilter, OtherDeletes,
                OtherSchedules, OtherSaves, InstanceStarts, Edits, Asks, Others
  <2> QED BY <2>1, <2>2
<1> QED BY <1>1, <1>2, <1>3, <1>4

LEMMA SameRecords ==
    ASSUME RecordInv, UNCHANGED recordVars, page' = page
    PROVE  RecordInv'
<1>1. UNCHANGED <<records, events, list, view>>
  BY DEF recordVars
<1> QED BY <1>1 DEF RecordInv, MarkedInv, SinceInv, On

LEMMA SiteRecordInv ==
    ASSUME RecordInv, [SiteNext]_siteVars
    PROVE  RecordInv'
<1>1. CASE UNCHANGED siteVars
  BY <1>1, SameRecords DEF siteVars
<1>2. CASE RecordNext
  BY <1>2, RecordNextInv
<1>3. CASE \E p \in Pages : Open(p)
  BY <1>3, OpenRecords
<1>4. CASE /\ DashboardNext \/ IndicatorsNext \/ DevicesNext \/ FiltersNext
           /\ UNCHANGED recordVars
  BY <1>4, ElsewhereKeepsPage, SameRecords
<1> QED BY <1>1, <1>2, <1>3, <1>4, LeaveRecords DEF SiteNext

LEMMA InitRecordInv == SiteInit => RecordInv
<1> SUFFICES ASSUME SiteInit PROVE RecordInv
  OBVIOUS
<1>1. records = FewRecords /\ events = 0 /\ list = NoListScript /\ view = NoViewScript /\ page = NoPage
  BY DEF SiteInit
<1>2. SinceInv(list, records) /\ MarkedInv(list, view)
  BY <1>1, EmptyScripts DEF SinceInv, On, NoPage, MarkedInv
<1> QED BY <1>1, <1>2, EmptyScripts, RecordFacts DEF RecordInv

LEMMA RecordsAlways == SiteSpec => []RecordInv
<1>1. RecordInv /\ [SiteNext]_siteVars => RecordInv'
  BY SiteRecordInv
<1> QED BY InitRecordInv, <1>1, PTL DEF SiteSpec

(* The buttons of a pane act on the highlighted row, and on what the user      *)
(* sees unless another view is to come, for any number of records, requests    *)
(* and clicks.                                                                 *)
THEOREM PaneFollowsRowAlways == SiteSpec => []PaneFollowsRow
<1>1. RecordInv => PaneFollowsRow
  BY RecordInvMeans
<1> QED BY RecordsAlways, <1>1, PTL

-----------------------------------------------------------------------------
(* The list of jobs implements LatestAnswer *)

JobsShown == IF On("jobs") THEN list.rows ELSE NoList

JobsStep == [JobList!Next]_<<records, list.since, JobsShown>>

\* a step that shows and asks nothing new; the service may have other jobs after it
LEMMA JobsChange ==
    ASSUME page' = page, list'.rows = list.rows, records' \in Lists,
           list.since = {} => list'.since = {},
           list.since # {} => list'.since = list.since \union {records'}
    PROVE  JobsStep
<1>1. JobsShown' = JobsShown
  BY DEF JobsShown, On
<1>2. list'.since = IF list.since = {} THEN {} ELSE list.since \union {records'}
  OBVIOUS
<1> QED BY <1>1, <1>2 DEF JobsStep, JobList!Next, JobList!Change, JobsShown

LEMMA JobsKept ==
    ASSUME page' = page, list'.rows = list.rows, list'.since = list.since, records' = records
    PROVE  JobsStep
  BY DEF JobsStep, JobsShown, On

LEMMA ListAnsweredLatest ==
    ASSUME RecordInv, NEW i, ListAnswered(i)
    PROVE  JobsStep
<1>1. /\ list'.since = {} /\ list'.rows = list.flights[i].read /\ i \in DOMAIN list.flights
      /\ list.flights[i].read # NotRead /\ UNCHANGED <<page, records>>
  BY ListAnsweredIs DEF ListAnswered
<1>2. CASE ~On("jobs")
  <2>1. list.since = {} /\ JobsShown' = JobsShown
    BY <1>1, <1>2 DEF RecordInv, SinceInv, JobsShown, On
  <2> QED BY <1>1, <2>1 DEF JobsStep
<1>3. CASE On("jobs")
  <2>1. JobsShown' \in list.since
    BY <1>1, <1>3 DEF RecordInv, SinceInv, JobsInv, JobsShown, On
  <2> QED BY <1>1, <2>1 DEF JobsStep, JobsShown, JobList!Next, JobList!Answer
<1> QED BY <1>2, <1>3

LEMMA ListFailedLatest ==
    ASSUME RecordInv, NEW i, ListFailed(i)
    PROVE  JobsStep
<1>1. list'.rows = list.rows /\ list'.since = {} /\ UNCHANGED <<page, records>>
  BY ListFailedInv DEF ListFailed
<1>2. JobsShown' = JobsShown
  BY <1>1 DEF JobsShown, On
<1> QED BY <1>1, <1>2 DEF JobsStep, JobsShown, JobList!Next, JobList!Fail

LEMMA PostLatest ==
    ASSUME RecordInv, PostAnswered \/ PostFailed
    PROVE  JobsStep
<1>0. page' = page /\ records \in Lists
  BY DEF PostAnswered, PostFailed, RecordInv
<1>1. CASE PostAnswered
  <2>1. list'.rows = list.rows /\ list'.since = Asked(records') /\ records' \in Lists
    BY <1>1, PostAnsweredInv
  <2>2. CASE ~On("jobs")
    <3>1. list.since = {} /\ list'.since = {}
      BY <2>1, <2>2 DEF RecordInv, SinceInv, Asked
    <3>2. QED BY <1>0, <2>1, <3>1, JobsChange
  <2>3. CASE On("jobs")
    <3>1. list'.since = {records'} /\ JobsShown' = JobsShown
      BY <1>0, <2>1, <2>3 DEF Asked, JobsShown, On
    <3>2. QED BY <2>1, <3>1 DEF JobsStep, JobsShown, JobList!Next, JobList!Ask
  <2> QED BY <2>2, <2>3
<1>2. CASE PostFailed
  <2>1. CASE UNCHANGED <<records, list>>
    BY <1>0, <2>1, JobsKept
  <2>2. CASE ~UNCHANGED <<records, list>>
    BY <1>0, <1>2, <2>2, PostFailedInv, JobsChange
  <2> QED BY <2>1, <2>2
<1> QED BY <1>1, <1>2

LEMMA ClicksLatest ==
    ASSUME RecordInv,
           \/ RedrawRows \/ ToggleProperties \/ Retry \/ \E v \in Values : PressButton(v)
           \/ \E r \in Records : ClickRow(r)
           \/ \E i \in 1..MaxLists : ServiceLists(i)
           \/ \E i \in 1..MaxViews : ViewAnswered(i) \/ ViewFailed(i)
    PROVE  JobsStep
<1>0. RowsInv(list) /\ ViewInv(view) /\ MarkedInv(list, view) /\ ListOK(list)
      /\ list \in ListFieldSet
  BY ListTyped DEF RecordInv, RowsInv
<1>1. CASE RedrawRows
  BY <1>0, <1>1, DefaultSetInv, JobsKept DEF RedrawRows
<1>2. CASE ToggleProperties \/ Retry \/ \E v \in Values : PressButton(v)
  BY <1>2, JobsKept DEF ToggleProperties, Retry, PressButton
<1>3. ASSUME NEW r \in Records, ClickRow(r) PROVE JobsStep
  <2>1. /\ list' = IF On("actions") THEN [list EXCEPT !.marked = r] ELSE RowSelected(list, r)
        /\ UNCHANGED <<page, records>>
    BY <1>3 DEF ClickRow
  <2>2. list'.rows = list.rows /\ list'.since = list.since
    BY <1>0, <2>1 DEF ListFieldSet, RowSelected
  <2> QED BY <2>1, <2>2, JobsKept
<1>4. ASSUME NEW i \in 1..MaxLists, ServiceLists(i) PROVE JobsStep
  <2>1. list'.rows = list.rows /\ list'.since = list.since /\ UNCHANGED <<page, records>>
    BY <1>0, <1>4 DEF ServiceLists, ListFieldSet
  <2> QED BY <2>1, JobsKept
<1>5. ASSUME NEW i \in 1..MaxViews, ViewAnswered(i) \/ ViewFailed(i) PROVE JobsStep
  BY <1>5, JobsKept DEF ViewAnswered, ViewFailed
<1> QED BY <1>1, <1>2, <1>3, <1>4, <1>5

LEMMA OthersChangeLatest ==
    ASSUME RecordInv, NEW r \in Records, NEW s \in States, OthersChange(r, s)
    PROVE  JobsStep
<1>1. records' = [records EXCEPT ![r] = s] /\ list' = Seen(list, records') /\ page' = page
  BY DEF OthersChange
<1>2. records' \in Lists /\ RowsInv(list) /\ SinceInv(list, records)
  BY <1>1 DEF RecordInv, Lists
<1> DEFINE new == records'
<1>3. new \in Lists /\ list' = Seen(list, new)
  BY <1>1, <1>2
<1> HIDE DEF new
<1>4. /\ list'.rows = list.rows /\ (list.since = {} => list'.since = {})
      /\ list.since # {} => list'.since = list.since \union {new}
  BY <1>2, <1>3, SeenInv
<1>5. list.since # {} => list'.since = list.since \union {records'}
  BY <1>4 DEF new
<1> QED BY <1>1, <1>2, <1>4, <1>5, JobsChange

LEMMA PagesLatest ==
    ASSUME RecordInv, Leave \/ \E p \in Pages : Open(p)
    PROVE  JobsStep
<1>1. CASE Leave
  <2>1. records' = FewRecords /\ list' = NoListScript /\ page' = NoPage
    BY <1>1 DEF Leave
  <2>2. JobsShown' = NoList /\ records' \in Lists /\ list'.since = {}
    BY <2>1, EmptyScripts, RecordFacts DEF JobsShown, On, NoPage
  <2> QED BY <2>2 DEF JobsStep, JobsShown, JobList!Next, JobList!Restart
<1>2. ASSUME NEW p \in Pages, Open(p) PROVE JobsStep
  <2>1. /\ page = NoPage /\ page' = p /\ UNCHANGED records /\ records = FewRecords
        /\ list.since = {}
    BY <1>2 DEF Open, RecordInv, SinceInv, On, NoPage
  <2>2. CASE p \notin RecordPageNames
    <3>1. list' = list /\ JobsShown' = NoList /\ JobsShown = NoList
      BY <1>2, <2>1, <2>2 DEF Open, RecordPageNames, JobsShown, On, NoPage
    <3>2. QED BY <2>1, <3>1 DEF JobsStep
  <2>3. CASE p \in RecordPageNames
    <3>1. PICK r \in AnyRecord : list' = LoadedList(p, r)
      BY <1>2, <2>3 DEF Open
    <3>2. /\ list'.rows = NoList
          /\ IF p = "jobs" THEN list'.since = {FewRecords} ELSE list'.since = {}
      BY <2>1, <2>3, <3>1, LoadedScript
    <3>3. JobsShown' = NoList /\ records' \in Lists /\ list'.since \in {{}, {records'}}
      BY <2>1, <3>2, RecordFacts DEF JobsShown
    <3>4. QED BY <3>3 DEF JobsStep, JobsShown, JobList!Next, JobList!Restart
  <2> QED BY <2>2, <2>3
<1> QED BY <1>1, <1>2

LEMMA JobsLatestStep ==
    ASSUME RecordInv, [SiteNext]_siteVars
    PROVE  JobsStep
<1>1. CASE UNCHANGED siteVars
  BY <1>1, JobsKept DEF siteVars, recordVars
<1>2. CASE RecordNext
  BY <1>2, ClicksLatest, OthersChangeLatest, ListAnsweredLatest, ListFailedLatest, PostLatest
     DEF RecordNext, RequestEnds
<1>3. CASE Leave \/ \E p \in Pages : Open(p)
  BY <1>3, PagesLatest
<1>4. CASE /\ DashboardNext \/ IndicatorsNext \/ DevicesNext \/ FiltersNext
           /\ UNCHANGED recordVars
  BY <1>4, ElsewhereKeepsPage, JobsKept DEF recordVars
<1> QED BY <1>1, <1>2, <1>3, <1>4 DEF SiteNext

LEMMA JobsLatestInit == SiteInit => JobList!Init
<1> SUFFICES ASSUME SiteInit PROVE JobList!Init
  OBVIOUS
<1>1. records = FewRecords /\ list = NoListScript /\ page = NoPage
  BY DEF SiteInit
<1>2. JobsShown = NoList /\ list.since = {}
  BY <1>1, EmptyScripts DEF JobsShown, On, NoPage
<1> QED BY <1>1, <1>2, RecordFacts DEF JobList!Init, JobsShown

LEMMA JobsAreLatest == SiteSpec => JobList!Spec
<1>1. RecordInv /\ [SiteNext]_siteVars => JobsStep
  BY JobsLatestStep
<1> QED BY RecordsAlways, JobsLatestInit, <1>1, PTL DEF SiteSpec, JobList!Spec, JobsStep, JobsShown

=============================================================================
