----------------------------- MODULE DevicesPage -----------------------------
(***************************************************************************)
(* The page with the list of devices: the grid (DeviceIndex), whose rows    *)
(* the service searches, sorts and pages, and the pane (DeviceDetails) that *)
(* shows the details of one device, the editor of the list's columns        *)
(* (DeviceListColumns) or the form that schedules a job. The device-id      *)
(* cookie keeps the selected device over reloads of the grid and the page.  *)
(***************************************************************************)
EXTENDS Browser

CONSTANTS
    MaxDetails,     \* bound: requests of the pane in flight
    MaxClicks,      \* bound: clicks on the page, and changes others make meanwhile
    Searches        \* bound: what filters, searches and pages ask for

ASSUME DevicesAssumption ==
    MaxDetails \in Nat \ {0} /\ MaxClicks \in Nat /\ Searches \subseteq SUBSET Devices

VARIABLES
    cookie,     \* device-id
    clicks,     \* how many clicks and changes of others there have been
    grid,       \* DeviceIndex
    details     \* DeviceDetails

devicesVars == <<cookie, clicks, grid, details>>

OnDevices == On("devices")

\* MaxHandlers: DataTables' destroy leaves the draw handler; a third is as a second
MaxHandlers == 2

\* The checked devices become a filter, for a job, for good or to be opened, which
\* then finds it. left: that failed, and the page stays covered.
Savings == {"save", "find"}

\* A loader_container is an element that covers the page while something is under
\* way; the pane has one of its own, and what shows or hides the class moves both.
\* Covers are no guards: what a click under one does is checked too.
GridScripts ==
    [phase    : {"columns", "columnsFailed", "filter", "stuck", "ready"},
     handlers : 0..MaxHandlers,             \* of draw.dt
     rows     : SUBSET Devices,             \* the devices on the grid
     asked    : SUBSET Devices,             \* those its filter, search and page ask for
     waiting  : BOOLEAN,                    \* for self.getDeviceList
     request  : SUBSET Devices,             \* what that one asks for
     marked   : SUBSET Devices,             \* the rows with class selected
     checked  : SUBSET Devices,             \* selectedDeviceIds of the multi-selection
     sought   : BOOLEAN,                    \* isDefaultDeviceIdAvailable
     default  : AnyDevice,                  \* the device at defaultSelectedRow, if
                                            \* isDefaultDeviceDetailsAvailable
     drawn    : 0..MaxHandlers,             \* timers of 0 ms for _setDefaultRowAndPage
     hurried  : BOOLEAN,                    \* history: rows or selection changed since the draw
     saving   : {"no", "left"} \union Savings,  \* the filter of the checked devices
     covered  : BOOLEAN]                    \* the loader_container of the page

Editor  == "editor"     \* the editor of the columns
JobForm == "jobForm"
Views   == Devices \union {Editor, JobForm}
Nobody  == "nothing"

ASSUME ViewsAssumption == {Editor, JobForm} \intersect Devices = {}

\* superseded and overtaken are history variables, as in RecordPages
DetailsScripts ==
    [device    : AnyDevice,                 \* self.deviceId
     flights   : Seq([of : Views, loader : BOOLEAN, superseded : BOOLEAN]),
     open      : BOOLEAN,                   \* .details_grid is visible
     content   : {"cleared", "view", "failed"},
     of        : Views \union {Nobody},     \* what is shown or has failed
     overtaken : BOOLEAN,
     covered   : BOOLEAN,                   \* #loadingElement, the pane's loader_container
     updating  : BOOLEAN,                   \* the columns are being saved
     saving    : BOOLEAN,                   \* the filter of a job is being saved
     puts      : SUBSET AnyDevice]          \* the device being switched, if any

\* the page's script covers everything before it asks for the columns
NoGrid == [phase |-> "columns", handlers |-> 0, rows |-> {}, asked |-> Devices,
           waiting |-> FALSE, request |-> {}, marked |-> {}, checked |-> {},
           sought |-> FALSE, default |-> NoDevice, drawn |-> 0,
           hurried |-> FALSE, saving |-> "no", covered |-> TRUE]
NoDetails == [device |-> NoDevice, flights |-> <<>>, open |-> FALSE, content |-> "cleared",
              of |-> Nobody, overtaken |-> FALSE, covered |-> TRUE, updating |-> FALSE,
              saving |-> FALSE, puts |-> {}]

-----------------------------------------------------------------------------
\* $('.loader_container').show() and .hide(), on the page and on the pane
Covered(script)   == [script EXCEPT !.covered = TRUE]
Uncovered(script) == [script EXCEPT !.covered = FALSE]
UncoveredGrid(g)  == [g EXCEPT !.covered = FALSE, !.saving = IF @ = "left" THEN "no" ELSE @]

\* onDataTableAjaxCalled: DataTables has covered everything; the request before is
\* aborted, which uncovers everything as its failure does
Requested(g, q) ==
    [g EXCEPT !.asked = q, !.waiting = TRUE, !.request = q, !.covered = ~g.waiting]
RequestCovers(p, g) == [p EXCEPT !.covered = ~g.waiting]

\* the selection or the rows change; hurried if that is between a draw and its timer
Touched(g) == [g EXCEPT !.hurried = g.drawn > 0]

Filled(p, content, v) == [p EXCEPT !.content = content, !.of = v, !.overtaken = FALSE]

\* self.loader is another request by now
NoLoader(flight) == [flight EXCEPT !.loader = FALSE]

\* a request of the pane; as the loader it can be aborted
Sends(p, v, loader) ==
    LET before == IF loader THEN [i \in DOMAIN p.flights |-> NoLoader(p.flights[i])] ELSE p.flights
    IN  [p EXCEPT !.flights = Append(before, [of |-> v, loader |-> loader, superseded |-> FALSE]),
                  !.covered = TRUE]

\* showDetails: the loader is aborted, which counts as its failure
Shown(p) ==
    LET held == {i \in DOMAIN p.flights : p.flights[i].loader}
    IN  IF held = {} THEN [p EXCEPT !.open = TRUE]
        ELSE LET i == CHOOSE i \in held : TRUE
             IN  [Filled(p, "failed", p.flights[i].of) EXCEPT
                     !.open = TRUE, !.flights = RemoveAt(@, i), !.covered = FALSE]

\* mutant: the pane keeps the device it had
DetailedKeepsDevice(p, d) == Sends(p, d, FALSE)

\* getDeviceDetailsView. init returns nothing, so self.loader is nothing and
\* no later request aborts this one.
Detailed(p, d) == [Sends(p, d, FALSE) EXCEPT !.device = d]

MayAsk == Len(details.flights) < MaxDetails

\* closeAndClearDetails; the cookie is cleared with it
ClosedPane(p) == [Filled(p, "cleared", Nobody) EXCEPT !.open = FALSE]

\* stopMultiSelection, if there is one; unselectAllRows
Unchecked(g) == IF g.checked = {} THEN g ELSE [Touched(g) EXCEPT !.checked = {}, !.marked = {}]
Unselected(g) == [Touched(g) EXCEPT !.marked = {}]
CookieUnchecked == IF grid.checked = {} THEN cookie ELSE NoDevice

\* a filter is loaded: the multi-selection ends and the grid asks anew
Filtered(g, q) ==
    /\ grid' = Requested(Unchecked(g), q)
    /\ cookie' = CookieUnchecked
    /\ details' = RequestCovers(details, g)

-----------------------------------------------------------------------------
\* _initializeDatatable: the columns come first, then, on a new page, the
\* suggested clauses and the filter, then the grid, which asks for its rows
ColumnsAnswered ==
    /\ OnDevices /\ grid.phase = "columns"
    /\ \/ grid.handlers = 0 /\ grid' = [grid EXCEPT !.phase = "filter"] /\ UNCHANGED details
       \/ /\ grid.handlers > 0
          /\ grid' = Requested([grid EXCEPT !.phase = "ready", !.handlers = MaxHandlers], grid.asked)
          /\ details' = RequestCovers(details, grid)
    /\ UNCHANGED <<page, cookie, clicks>>

ColumnsFailed ==
    /\ OnDevices /\ grid.phase = "columns"
    /\ grid' = [UncoveredGrid(grid) EXCEPT !.phase = "columnsFailed"]
    /\ details' = Uncovered(details)
    /\ UNCHANGED <<page, cookie, clicks>>

\* a filter that is not found leaves all devices
FilterLoaded(q) ==
    /\ OnDevices /\ grid.phase = "filter"
    /\ grid' = Requested([grid EXCEPT !.phase = "ready", !.handlers = 1], q)
    /\ UNCHANGED <<page, cookie, clicks, details>>

\* without the suggested clauses the grid is never made, and the page stays covered
ClausesFailed ==
    /\ OnDevices /\ grid.phase = "filter"
    /\ grid' = [grid EXCEPT !.phase = "stuck"]
    /\ UNCHANGED <<page, cookie, clicks, details>>

-----------------------------------------------------------------------------
\* A click may come between a draw and the timer of 0 ms it has set.
Click == OnDevices /\ clicks < MaxClicks /\ clicks' = clicks + 1

RetryColumns ==
    /\ Click
    /\ grid.phase = "columnsFailed"
    /\ grid' = [Covered(grid) EXCEPT !.phase = "columns"]
    /\ details' = Covered(details)
    /\ UNCHANGED <<page, cookie>>

\* another page, order, search or filter; a filter ends the multi-selection
AskGrid(q) ==
    /\ Click
    /\ grid.phase = "ready"
    /\ \/ /\ grid' = Requested(grid, q)
          /\ details' = RequestCovers(details, grid)
          /\ UNCHANGED cookie
       \/ Filtered(grid, q)
    /\ UNCHANGED page

\* each click handler of the rows selects the row: two of them ask twice
ClickDevice(d) ==
    /\ Click
    /\ Len(details.flights) + grid.handlers <= MaxDetails
    /\ d \in grid.rows
    /\ grid' = [Touched(Unchecked(grid)) EXCEPT !.marked = {d}]
    /\ cookie' = d
    /\ LET once == Detailed(Shown(details), d)
       IN  details' = IF grid.handlers < MaxHandlers THEN once ELSE Detailed(once, d)
    /\ UNCHANGED page

\* checkboxClickHandler. A second handler closes the pane again when no device
\* is checked any more.
CheckDevice(d) ==
    /\ Click
    /\ d \in grid.rows
    /\ LET starts  == grid.checked = {}
           checked == IF d \in grid.checked THEN grid.checked \ {d} ELSE grid.checked \union {d}
           marked  == IF starts THEN {} ELSE grid.marked
       IN  /\ grid' = [Touched(grid) EXCEPT !.checked = checked,
                                            !.marked = IF checked = {} THEN {}
                                                       ELSE IF d \in checked THEN marked \union {d}
                                                       ELSE marked \ {d}]
           /\ cookie' = IF starts \/ checked = {} THEN NoDevice ELSE cookie
           /\ details' = IF starts \/ (checked = {} /\ grid.handlers = MaxHandlers)
                         THEN ClosedPane(details) ELSE details
    /\ UNCHANGED page

ToggleDetails ==
    /\ Click
    /\ details' = [details EXCEPT !.open = ~@]
    /\ UNCHANGED <<page, cookie, grid>>

\* the two buttons over the grid; a job waits for the filter when that has changed
EditColumns ==
    /\ Click /\ MayAsk
    /\ grid.phase = "ready"
    /\ grid' = Unselected(grid) /\ cookie' = NoDevice
    /\ details' = Sends(Shown(details), Editor, TRUE)
    /\ UNCHANGED page

\* bound: one filter is being saved at a time
ScheduleJob ==
    /\ Click /\ MayAsk
    /\ grid.phase = "ready" /\ ~details.saving /\ grid.saving \notin Savings
    /\ cookie' = NoDevice
    /\ \/ /\ grid' = Unselected(grid)
          /\ details' = Sends(Shown(details), JobForm, TRUE)
       \/ /\ grid' = Covered(Unselected(grid))
          /\ details' = [Covered(Shown(details)) EXCEPT !.saving = TRUE]
    /\ UNCHANGED page

FilterSaved ==
    /\ OnDevices /\ MayAsk
    /\ details.saving
    /\ grid' = UncoveredGrid(grid)
    /\ details' = [Sends(details, JobForm, TRUE) EXCEPT !.saving = FALSE]
    /\ UNCHANGED <<page, cookie, clicks>>

FilterUnsaved ==
    /\ OnDevices
    /\ details.saving
    /\ grid' = UncoveredGrid(grid)
    /\ details' = [Uncovered(details) EXCEPT !.saving = FALSE]
    /\ UNCHANGED <<page, cookie, clicks>>

\* The checked devices are saved as a filter. A second handler of the link saves
\* a second time for a job, which is left out; bound: one is saved at a time.
SaveSelection ==
    /\ Click
    /\ grid.checked # {} /\ grid.saving \notin Savings /\ ~details.saving
    /\ grid' = [Covered(grid) EXCEPT !.saving = "save"]
    /\ details' = Covered(details)
    /\ UNCHANGED <<page, cookie>>

\* Saved for good, or to be opened. For a job the page would go to that of the job:
\* it is left.
SelectionSaved ==
    /\ OnDevices
    /\ grid.saving = "save"
    /\ \/ /\ grid' = Unchecked([Uncovered(grid) EXCEPT !.saving = "no"])
          /\ cookie' = CookieUnchecked
          /\ details' = Uncovered(details)
       \/ /\ grid' = [grid EXCEPT !.saving = "find"]
          /\ UNCHANGED <<cookie, details>>
    /\ UNCHANGED <<page, clicks>>

\* nothing is told to whoever wanted a job
SelectionUnsaved ==
    /\ OnDevices
    /\ grid.saving = "save"
    /\ \/ /\ grid' = [Uncovered(grid) EXCEPT !.saving = "no"]
          /\ details' = Uncovered(details)
       \/ /\ grid' = [grid EXCEPT !.saving = "left"]
          /\ UNCHANGED details
    /\ UNCHANGED <<page, cookie, clicks>>

SelectionFound(q) ==
    /\ OnDevices
    /\ grid.saving = "find"
    /\ Filtered([grid EXCEPT !.saving = "no"], q)
    /\ UNCHANGED <<page, clicks>>

\* loadFilter does nothing without a filter: the page stays covered
SelectionNotFound ==
    /\ OnDevices
    /\ grid.saving = "find"
    /\ grid' = [grid EXCEPT !.saving = "left"]
    /\ UNCHANGED <<page, cookie, clicks, details>>

-----------------------------------------------------------------------------
\* successCallback looks for the device of the cookie; the rows are drawn, the
\* checked ones highlighted, and each handler sets a timer
GridAnswered ==
    /\ OnDevices /\ grid.drawn + grid.handlers <= MaxHandlers
    /\ grid.waiting
    /\ grid' = [UncoveredGrid(Touched(grid)) EXCEPT
                            !.waiting = FALSE, !.request = {}, !.rows = grid.request,
                            !.marked = grid.checked \intersect grid.request,
                            !.sought = cookie # NoDevice,
                            !.default = IF cookie \in grid.request THEN cookie ELSE NoDevice,
                            !.drawn = @ + grid.handlers]
    /\ details' = Uncovered(details)
    /\ UNCHANGED <<page, cookie, clicks>>

GridFailed ==
    /\ OnDevices
    /\ grid.waiting
    /\ grid' = [UncoveredGrid(grid) EXCEPT !.waiting = FALSE, !.request = {}]
    /\ details' = Uncovered(details)
    /\ UNCHANGED <<page, cookie, clicks>>

\* _setDefaultRowAndPage; no row is there when the table was destroyed meanwhile
SetDefaultRow ==
    /\ OnDevices /\ MayAsk
    /\ grid.drawn > 0
    /\ LET g == [grid EXCEPT !.drawn = @ - 1, !.default = NoDevice, !.hurried = @ /\ grid.drawn > 1]
       IN  \/ /\ grid.default \in grid.rows
              /\ grid' = [g EXCEPT !.marked = {grid.default}]
              /\ cookie' = grid.default
              /\ details' = Detailed(Shown(details), grid.default)
           \/ /\ grid.default = NoDevice /\ grid.sought
              /\ grid' = g
              /\ cookie' = NoDevice
              /\ details' = ClosedPane(details)
           \/ /\ IF grid.default = NoDevice THEN ~grid.sought ELSE grid.default \notin grid.rows
              /\ grid' = g
              /\ UNCHANGED <<cookie, details>>
    /\ UNCHANGED <<page, clicks>>

-----------------------------------------------------------------------------
\* the editor of the columns opens the pane, the other views leave it
ViewCame(i) ==
    /\ OnDevices
    /\ i \in DOMAIN details.flights
    /\ LET flight == details.flights[i]
       IN  details' = [Filled(details, "view", flight.of) EXCEPT
                          !.flights = Answered(@, i), !.covered = FALSE,
                          !.overtaken = flight.superseded,
                          !.open = @ \/ flight.of = Editor]
    /\ UNCHANGED <<page, cookie, clicks, grid>>

ViewDidNotCome(i) ==
    /\ OnDevices
    /\ i \in DOMAIN details.flights
    /\ details' = [Filled(details, "failed", details.flights[i].of) EXCEPT
                      !.flights = Answered(@, i), !.covered = FALSE]
    /\ UNCHANGED <<page, cookie, clicks, grid>>

\* the retry button asks for the view that failed, whatever is selected now
RetryView ==
    /\ Click /\ MayAsk
    /\ details.open /\ details.content = "failed"
    /\ details' = IF details.of \in Devices THEN Detailed(details, details.of)
                  ELSE Sends(details, details.of, FALSE)
    /\ UNCHANGED <<page, cookie, grid>>

\* updateColumns; when it is answered the pane toggles, open or not, and the
\* list starts again
UpdateColumns ==
    /\ Click
    /\ details.open /\ details.content = "view" /\ details.of = Editor /\ ~details.updating
    /\ grid.phase = "ready"
    /\ details' = [details EXCEPT !.covered = TRUE, !.updating = TRUE]
    /\ UNCHANGED <<page, cookie, grid>>

ColumnsUpdated ==
    /\ OnDevices
    /\ details.updating
    /\ details' = [Covered(details) EXCEPT !.open = ~@, !.updating = FALSE]
    /\ grid' = [Covered(Touched(grid)) EXCEPT !.phase = "columns", !.rows = {}, !.marked = {}]
    /\ UNCHANGED <<page, cookie, clicks>>

ColumnsNotUpdated ==
    /\ OnDevices
    /\ details.updating
    /\ details' = [details EXCEPT !.covered = FALSE, !.updating = FALSE]
    /\ UNCHANGED <<page, cookie, clicks, grid>>

\* the link that enables or disables the device
SwitchDevice ==
    /\ Click
    /\ details.open /\ details.content = "view" /\ details.of \in Devices
    /\ details.puts = {}
    /\ details' = [details EXCEPT !.covered = TRUE, !.puts = {details.device}]
    /\ UNCHANGED <<page, cookie, grid>>

\* Answered or not, the pane is uncovered. The statuses, which are written into
\* the rows highlighted by then, are left out.
SwitchEnds ==
    /\ OnDevices
    /\ details.puts # {}
    /\ details' = [details EXCEPT !.puts = {}, !.covered = FALSE]
    /\ UNCHANGED <<page, cookie, clicks, grid>>

-----------------------------------------------------------------------------
\* Requests end, in an answer or an error, and timers fire.
DevicesGoOn ==
    \/ ColumnsAnswered \/ ColumnsFailed
    \/ ClausesFailed \/ \E q \in Searches : FilterLoaded(q)
    \/ GridAnswered \/ GridFailed \/ SetDefaultRow
    \/ \E i \in 1..MaxDetails : ViewCame(i) \/ ViewDidNotCome(i)
    \/ ColumnsUpdated \/ ColumnsNotUpdated \/ FilterSaved \/ FilterUnsaved
    \/ SelectionSaved \/ SelectionUnsaved
    \/ SelectionNotFound \/ \E q \in Searches : SelectionFound(q)
    \/ SwitchEnds

DevicesNext ==
    \/ \E q \in Searches : AskGrid(q)
    \/ \E d \in Devices : ClickDevice(d) \/ CheckDevice(d)
    \/ RetryColumns \/ ToggleDetails \/ EditColumns \/ ScheduleJob
    \/ SaveSelection \/ RetryView \/ UpdateColumns \/ SwitchDevice
    \/ DevicesGoOn

DevicesFairness == WF_devicesVars(DevicesGoOn)

-----------------------------------------------------------------------------
DevicesTypeOK ==
    /\ cookie \in AnyDevice
    /\ clicks \in 0..MaxClicks
    /\ grid \in GridScripts
    /\ details \in DetailsScripts

DeviceGrid == INSTANCE LatestAnswer WITH
    Answers <- SUBSET Devices, Nothing <- {},
    now     <- grid.asked,
    since   <- IF grid.waiting THEN {grid.asked} ELSE {},
    shown   <- grid.rows

CookieIsHighlighted ==
    (grid.drawn = 0 /\ grid.checked = {} /\ cookie # NoDevice /\ grid.rows # {}) =>
        cookie \in grid.marked

LinkSwitchesShown ==
    (details.content = "view" /\ details.of \in Devices) =>
        details.of = details.device \/ details.flights # <<>> \/ details.overtaken

(* The cookie, from which a reload of the grid takes the selection, names a   *)
(* highlighted row as soon as a draw has been dealt with and while no devices  *)
(* are checked: whatever was clicked, checked, searched or lost meanwhile, no   *)
(* device is selected that the user does not see. And the link of the pane      *)
(* switches the device the pane shows, unless another view is on its way or the *)
(* one shown was overtaken by the next.                                          *)
DevicesPageAgrees == CookieIsHighlighted /\ LinkSwitchesShown

\* When the rows come anew, a selected device that is among them is selected again
\* and its pane opened, and the pane of one that is not is closed, as long as the
\* columns were not edited, when a second timer closes what the first has opened, and
\* nothing was clicked between the draw and its timer, which knows only what was
\* selected at the draw: it takes a click of that moment back.
RedrawKeepsDevice ==
    (SetDefaultRow /\ grid.handlers = 1 /\ ~grid.hurried /\ cookie # NoDevice) =>
        IF cookie \in grid.rows
        THEN cookie' = cookie /\ grid'.marked = {cookie} /\ details'.open /\ details'.device = cookie
        ELSE cookie' = NoDevice /\ ~details'.open /\ details'.content = "cleared"

\* Page and pane are uncovered, but for the failures that leave them covered: of the
\* suggested clauses, of the filter of checked devices that is saved for a job, or
\* that was saved and is not found.
LeftCovered == grid.phase = "stuck" \/ grid.saving = "left"
DevicesAtRest ==
    /\ OnDevices => grid.phase \notin {"columns", "filter"}
    /\ ~grid.waiting /\ grid.drawn = 0 /\ grid.saving \notin Savings
    /\ details.flights = <<>> /\ details.puts = {} /\ ~details.saving /\ ~details.updating
    /\ OnDevices /\ (grid.covered \/ details.covered) => LeftCovered

=============================================================================
