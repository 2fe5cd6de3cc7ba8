--------------------------- MODULE DashboardPage ---------------------------
(***************************************************************************)
(* The dashboard: the pane with the telemetry of the chosen device, polled  *)
(* every three seconds, the table of recent alerts, polled every five, and  *)
(* the map whose pins come with the alerts.                                 *)
(***************************************************************************)
EXTENDS Browser

CONSTANTS
    MaxTelemetry,   \* bound: how often new telemetry arrives
    MaxFlights      \* bound: requests for telemetry in flight at once

ASSUME DashboardAssumption ==
    /\ MaxTelemetry \in Nat
    /\ MaxFlights \in Nat \ {0}

VARIABLES
    telemetry,  \* how many messages the service has stored
    pane,       \* DashboardDevicePane
    table       \* AlertHistoryTable and MapPane

dashboardVars == <<telemetry, pane, table>>

Slots     == 1..MaxFlights
Unread    == -1     \* the service has not read the telemetry yet
NoFlight  == [device |-> NoDevice, read |-> Unread, alone |-> TRUE]
Nothing   == [device |-> NoDevice, telemetry |-> 0]

\* alone is a history variable: no other request was in flight with this one
Flights == [device : Devices, read : Unread..MaxTelemetry, alone : BOOLEAN]

Panes == [current : AnyDevice,      \* currentDeviceId
          polled  : AnyDevice,      \* the device of telemetryDataUrl
          timer   : Timers,
          flights : [Slots -> Flights \union {NoFlight}],
          shown   : [device : AnyDevice, telemetry : 0..MaxTelemetry],
          covered : BOOLEAN]        \* #loadingElement hides the pane

Tables == [waits    : {"answer", "timer"},
           rows     : SUBSET Devices,   \* deviceIdsByRow
           selected : AnyDevice,        \* selectedDeviceId
           marked   : SUBSET Devices,   \* the rows with class selectedAlert
           map      : {"keyAsked", "failed", "empty", "pinned"}]

InFlight == {f \in Slots : pane.flights[f] # NoFlight}
MaySend  == InFlight # Slots

Sent(flights, d) ==
    LET free == {f \in Slots : flights[f] = NoFlight}
        new  == CHOOSE f \in free : TRUE
    IN  [f \in Slots |->
           IF f = new THEN [device |-> d, read |-> Unread, alone |-> free = Slots]
           ELSE IF f \in free THEN NoFlight
           ELSE [flights[f] EXCEPT !.alone = FALSE]]

\* updateSelectedRows, which leaves the rows alone when no device is selected
Marked(t) == IF t.selected = NoDevice THEN t
             ELSE [t EXCEPT !.marked = t.rows \intersect {t.selected}]

-----------------------------------------------------------------------------
NoPane == [current |-> NoDevice, polled |-> NoDevice, timer |-> NoTimer,
           flights |-> [f \in Slots |-> NoFlight], shown |-> Nothing, covered |-> FALSE]

\* updateDeviceId: the pane is covered and the device asked for
Updated(p, d) ==
    IF d = NoDevice THEN [p EXCEPT !.current = d, !.shown = Nothing, !.covered = FALSE, !.timer = Cleared(@)]
    ELSE [p EXCEPT !.current = d, !.polled = d, !.covered = TRUE,
                   !.timer = Cleared(@), !.flights = Sent(@, d)]

NoTable == [waits |-> "timer", rows |-> {}, selected |-> NoDevice, marked |-> {}, map |-> "keyAsked"]

\* setSelectedDevice of the alert table
Selected(t, d) == Marked([t EXCEPT !.selected = d])

\* The page as it loads: the scripts ask for the alerts, the map's key and the
\* telemetry of the first device, if there is one.
DashboardLoads ==
    \E first \in AnyDevice :
        /\ pane' = Updated(NoPane, first)
        /\ table' = Selected([NoTable EXCEPT !.waits = "answer"], first)

-----------------------------------------------------------------------------
TelemetryArrives ==
    /\ On("dashboard")
    /\ telemetry < MaxTelemetry
    /\ telemetry' = telemetry + 1
    /\ UNCHANGED <<page, pane, table>>

\* the drop-down list, or a pin of the map
ChooseDevice(d) ==
    /\ On("dashboard") /\ MaySend
    /\ pane' = Updated(pane, d)
    /\ table' = Selected(table, d)
    /\ UNCHANGED <<page, telemetry>>

\* refreshData, when a timer of the pane fires
RefreshData(h) ==
    /\ On("dashboard") /\ MaySend
    /\ h \in pane.timer.armed
    /\ pane' = [pane EXCEPT !.timer = Fired(@, h), !.flights = Sent(@, pane.polled)]
    /\ UNCHANGED <<page, telemetry, table>>

\* mutant: the browser may answer from its cache
ReadableCached == 0..telemetry

\* what the service answers: cache: false keeps the browser from answering itself
Readable == {telemetry}

ServiceReads(f) ==
    /\ On("dashboard")
    /\ f \in InFlight /\ pane.flights[f].read = Unread
    /\ \E t \in Readable : pane' = [pane EXCEPT !.flights[f].read = t]
    /\ UNCHANGED <<page, telemetry, table>>

\* telemetryReadDone ignores the answer for a device that is no longer chosen
Displayed(p, answer) ==
    IF p.current # answer.device THEN p
    ELSE [p EXCEPT !.shown = [device |-> answer.device, telemetry |-> answer.read],
                   !.covered = FALSE]

\* mutant: the handle of a timer that is armed is overwritten
CompletedForgets(p, f) == [p EXCEPT !.timer = Armed(@), !.flights[f] = NoFlight]

\* onRequestComplete
Completed(p, f) == [p EXCEPT !.timer = Rearmed(@), !.flights[f] = NoFlight]

TelemetryAnswered(f) ==
    /\ On("dashboard")
    /\ f \in InFlight /\ pane.flights[f].read # Unread
    /\ pane' = Completed(Displayed(pane, pane.flights[f]), f)
    /\ UNCHANGED <<page, telemetry, table>>

\* the failure handler arms a timer, which onRequestComplete replaces
TelemetryFailed(f) ==
    /\ On("dashboard")
    /\ f \in InFlight
    /\ pane' = Completed([pane EXCEPT !.timer = Rearmed(@)], f)
    /\ UNCHANGED <<page, telemetry, table>>

-----------------------------------------------------------------------------
\* onXhr passes the locations to the map, once there is one; then the table is
\* drawn, and onTableDrawn marks the rows of the selected device
Drawn(t, rows) == Marked([t EXCEPT !.rows = rows, !.marked = {}])

AlertsAnswered(rows) ==
    /\ On("dashboard") /\ table.waits = "answer"
    /\ table' = [Drawn(table, rows) EXCEPT !.waits = "timer",
                                           !.map = IF @ = "empty" THEN "pinned" ELSE @]
    /\ UNCHANGED <<page, telemetry, pane>>

\* mutant: after an error no timer is set
AlertsFailedForGood ==
    /\ On("dashboard") /\ table.waits = "answer"
    /\ table' = [table EXCEPT !.waits = "nothing"]
    /\ UNCHANGED <<page, telemetry, pane>>

\* onError
AlertsFailed ==
    /\ On("dashboard") /\ table.waits = "answer"
    /\ table' = [table EXCEPT !.waits = "timer"]
    /\ UNCHANGED <<page, telemetry, pane>>

ReloadGrid ==
    /\ On("dashboard") /\ table.waits = "timer"
    /\ table' = [table EXCEPT !.waits = "answer"]
    /\ UNCHANGED <<page, telemetry, pane>>

\* getMapKey is tried once
MapKeyAnswered ==
    /\ On("dashboard") /\ table.map = "keyAsked"
    /\ \E m \in {"empty", "failed"} : table' = [table EXCEPT !.map = m]
    /\ UNCHANGED <<page, telemetry, pane>>

-----------------------------------------------------------------------------
DashboardNext ==
    \/ TelemetryArrives
    \/ \E d \in Devices : ChooseDevice(d)
    \/ \E h \in Handles : RefreshData(h)
    \/ \E f \in Slots : ServiceReads(f) \/ TelemetryAnswered(f) \/ TelemetryFailed(f)
    \/ \E rows \in SUBSET Devices : AlertsAnswered(rows)
    \/ AlertsFailed \/ ReloadGrid \/ MapKeyAnswered

\* Timers fire and every request ends; the service does not fail for ever to
\* answer for the chosen device.
DashboardFairness ==
    /\ WF_dashboardVars(\E h \in Handles : RefreshData(h))
    /\ \A f \in Slots :
         /\ SF_dashboardVars(ServiceReads(f) /\ pane.flights[f].device = pane.current)
         /\ WF_dashboardVars(TelemetryAnswered(f) \/ TelemetryFailed(f))
         /\ SF_dashboardVars(TelemetryAnswered(f) /\ pane.flights[f].device = pane.current)
    /\ WF_dashboardVars(AlertsFailed \/ \E rows \in SUBSET Devices : AlertsAnswered(rows))
    /\ WF_dashboardVars(ReloadGrid)

-----------------------------------------------------------------------------
DashboardTypeOK ==
    /\ telemetry \in 0..MaxTelemetry
    /\ pane \in Panes
    /\ table \in Tables

(* However selections, answers and failures interleave, the pane forgets no  *)
(* timer that is still armed (polling never multiplies) and, once a device    *)
(* has been chosen, a request is in flight or a timer armed (it never stops).  *)
PollingIsSteady ==
    /\ pane.timer.armed \subseteq {pane.timer.id}
    /\ pane.polled # NoDevice => InFlight # {} \/ pane.timer.armed # {}

(* A pane that is not covered shows the chosen device, though answers for    *)
(* devices chosen earlier may still come in, in any order; and the alert      *)
(* table, a script of its own that is told of the selection and redrawn by    *)
(* its own timer, marks the rows of that device.                               *)
ChosenEverywhere ==
    /\ ~pane.covered => pane.shown.device = pane.current
    /\ table.marked = table.rows \intersect {pane.current}

(* The dashboard polls for what it shows and shows what was chosen.           *)
DashboardIsSteady == PollingIsSteady /\ ChosenEverywhere

(* What the pane shows of a device gets older only when two requests were in *)
(* flight at the same time: polling alone never takes it back.                *)
PollingMovesOn ==
    [][pane'.shown.device = pane.shown.device /\ pane'.shown.telemetry < pane.shown.telemetry
         => page' # page \/ \E f \in InFlight : f \notin InFlight' /\ ~pane.flights[f].alone
      ]_<<page, dashboardVars>>

(* Unless the service fails for ever, a chosen device is shown, or another is *)
(* chosen, or the page left.                                                  *)
ChosenIsShown ==
    \/ []<>(On("dashboard") => ~pane.covered)
    \/ []<><<pane'.current # pane.current>>_pane

\* the table of alerts has been answered, or not, and will ask again
AlertsCame == table.waits = "answer" /\ table'.waits = "timer"

=============================================================================
