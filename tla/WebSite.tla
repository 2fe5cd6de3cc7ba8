------------------------------- MODULE WebSite -------------------------------
(***************************************************************************)
(* The administration site as one tab of a browser sees it: a page at a     *)
(* time, each with the scripts of its module. Leaving a page drops its      *)
(* scripts, their timers and the answers still to come.                     *)
(***************************************************************************)
EXTENDS DashboardPage, JobIndicators, RecordPages, DevicesPage, FiltersPage

NoPage == "none"
Pages  == {"dashboard", "indicators", "devices", "filters"} \union RecordPageNames

siteVars == <<page, dashboardVars, indicators, recordVars, devicesVars, filtersVars>>

\* the tab is opened: no page yet
SiteInit ==
    /\ page = NoPage
    /\ telemetry = 0 /\ pane = NoPane /\ table = NoTable
    /\ indicators = NoIndicators
    /\ records = FewRecords /\ events = 0 /\ list = NoListScript /\ view = NoViewScript
    /\ cookie = NoDevice /\ clicks = 0 /\ grid = NoGrid /\ details = NoDetails
    /\ filters = FirstFilters /\ calls = NoCalls /\ editor = NoEditor /\ edits = 0

\* What is not on the page starts again with it, and so do the bounds.
Leave ==
    /\ page # NoPage /\ page' = NoPage
    /\ telemetry' = 0 /\ pane' = NoPane /\ table' = NoTable
    /\ indicators' = NoIndicators
    /\ records' = FewRecords /\ events' = 0 /\ list' = NoListScript /\ view' = NoViewScript
    /\ cookie' = NoDevice /\ clicks' = 0 /\ grid' = NoGrid /\ details' = NoDetails
    /\ filters' = FirstFilters /\ calls' = NoCalls /\ editor' = NoEditor /\ edits' = 0

\* A link is followed, or the page loaded anew. The device-id cookie outlives
\* pages, and RemoveDevice clears it: the page of the devices may find any device in it.
Open(p) ==
    /\ page = NoPage /\ page' = p
    /\ IF p = "dashboard" THEN DashboardLoads ELSE UNCHANGED <<pane, table>>
    /\ IF p \in RecordPageNames THEN \E r \in AnyRecord : list' = LoadedList(p, r) ELSE UNCHANGED list
    /\ IF p = "devices" THEN \E d \in AnyDevice : cookie' = d ELSE UNCHANGED cookie
    /\ IF p = "filters" THEN \E id \in {AllDevices, 1} : editor' = LoadedEditor(id) ELSE UNCHANGED editor
    /\ UNCHANGED <<telemetry, indicators, records, events, view, clicks, grid, details,
                   filters, calls, edits>>

SiteNext ==
    \/ DashboardNext  /\ UNCHANGED <<indicators, recordVars, devicesVars, filtersVars>>
    \/ IndicatorsNext /\ UNCHANGED <<dashboardVars, recordVars, devicesVars, filtersVars>>
    \/ RecordNext     /\ UNCHANGED <<dashboardVars, indicators, devicesVars, filtersVars>>
    \/ DevicesNext    /\ UNCHANGED <<dashboardVars, indicators, recordVars, filtersVars>>
    \/ FiltersNext    /\ UNCHANGED <<dashboardVars, indicators, recordVars, devicesVars>>
    \/ Leave \/ \E p \in Pages : Open(p)

SiteSpec ==
    /\ SiteInit /\ [][SiteNext]_siteVars
    /\ DashboardFairness /\ IndicatorsFairness /\ RecordFairness /\ DevicesFairness
    /\ FiltersFairness

(* Every script keeps what it holds in the range its code gives it, on its    *)
(* page and off it.                                                            *)
TypeOK ==
    /\ page \in Pages \union {NoPage}
    /\ DashboardTypeOK /\ indicators \in Indicators /\ RecordsTypeOK
    /\ DevicesTypeOK /\ FiltersTypeOK

(* The lists that abort the request before the next, the grid of devices and  *)
(* the jobs, implement LatestAnswer: what is shown answers the last filter,    *)
(* search, page or reload, never an earlier one.                               *)
ListsAreLatest == DeviceGrid!Spec /\ JobList!Spec

(* A list that comes in anew, after a reload, a search or somebody's change,  *)
(* keeps the selection of what it still displays and closes the pane of what   *)
(* it does not, whatever was clicked while it was on its way. Only what is      *)
(* clicked on the list of devices between a draw and its timer of 0 ms is lost: *)
(* the timer selects the row that was selected at the draw, or closes the pane   *)
(* just opened.                                                                   *)
SelectionSurvives == [][ReloadKeepsSelection /\ RedrawKeepsDevice]_siteVars

(* Alerts and indicators of jobs, polled by timers that are set anew after    *)
(* each request, keep coming while their page is open, however often requests   *)
(* fail (another page is only reached over none, so a tab that stays with these  *)
(* two pages stays with one), and a value is shown at its own indicator; and      *)
(* unless the service fails for ever a chosen device is shown, or another is      *)
(* chosen.                                                                         *)
PollsKeepComing ==
    <>[](page \in {"dashboard", "indicators"}) =>
        []<><<AlertsCame \/ ValuesCame>>_<<table, indicators>>
PollingNeverStops == PollsKeepComing /\ []ValuesFit /\ ChosenIsShown

(* A tab whose user pauses comes to rest, unless it shows the dashboard, which *)
(* polls: no answer, error, retry or reload starts a chain of requests that    *)
(* goes on for ever, and what covers a pane or the list while a request is      *)
(* under way goes when the request has ended, however it ends. The list of      *)
(* devices has three exceptions: it stays covered when the suggested clauses do  *)
(* not come, and when the filter of checked devices is not saved for a job or    *)
(* is saved and then not found.                                                   *)
TabComesToRest ==
    []<>(RecordsAtRest /\ DevicesAtRest /\ FiltersAtRest) \/ []<><<page' # page>>_page
=============================================================================
