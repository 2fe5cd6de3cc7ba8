----------------------------- MODULE RecordPages -----------------------------
(***************************************************************************)
(* The three pages with a list of records and a pane with the details of    *)
(* one: device rules, jobs, and actions. Each is two scripts, the list      *)
(* (DeviceRulesIndex, JobIndex, ActionsIndex) and the pane                  *)
(* (DeviceRuleProperties, JobProperties, ActionProperties), that call each  *)
(* other; the pages differ where the scripts do.                            *)
(***************************************************************************)
EXTENDS Browser

CONSTANTS
    Records,        \* rules, jobs or rule outputs
    NoRecord,
    MaxLists,       \* bound: list requests in flight
    MaxViews,       \* bound: view requests in flight
    MaxEvents       \* bound: clicks on a page, and changes others make meanwhile

ASSUME RecordsAssumption ==
    /\ NoRecord \notin Records
    /\ MaxLists \in Nat \ {0} /\ MaxViews \in Nat \ {0} /\ MaxEvents \in Nat

VARIABLES
    records,    \* what the service has
    events,     \* how many clicks and changes of others there have been
    list,       \* the script of the list
    view        \* the script of the pane

recordVars == <<records, events, list, view>>

RecordPageNames == {"rules", "jobs", "actions"}
OnRecords == page \in RecordPageNames

\* A rule is enabled or not, a job waits or has been cancelled, an output is
\* mapped to one action or another.
Values  == {"on", "off"}
Other(v) == IF v = "on" THEN "off" ELSE "on"
States  == Values \union {"absent"}
Lists   == [Records -> States]
NoList  == [r \in Records |-> "absent"]
Present(rows) == {r \in Records : rows[r] # "absent"}
AnyRecord == Records \union {NoRecord}

NotRead == <<>>      \* the service has not read the records yet

\* superseded is a history variable: a later request has been answered or has failed
ListScripts ==
    [rows      : Lists,                     \* the data of the grid
     flights   : Seq([read : Lists \union {NotRead}, superseded : BOOLEAN]),
     since     : SUBSET Lists,              \* history: see LatestAnswer
     selected  : AnyRecord,                 \* selectedRuleId, selectedJobId
     marked    : AnyRecord,                 \* the row with class selected
     available : {"unset", "no", "yes"},    \* isDefaultRuleAvailable, ...
     default   : AnyRecord]                 \* the record at defaultSelectedRow

\* overtaken is a history variable: the pane shows a superseded answer
ViewScripts ==
    [target    : AnyRecord,                 \* ruleId, jobId, ruleOutput
     flights   : Seq([record : Records, superseded : BOOLEAN]),
     open      : BOOLEAN,                   \* .details_grid is visible
     content   : {"cleared", "view", "failed"},
     record    : AnyRecord,                 \* the record of the view
     value     : Values,                    \* its value when it was read
     overtaken : BOOLEAN,
     post      : [record : Records, value : Values] \union {<<>>}]

NoListScript == [rows |-> NoList, flights |-> <<>>, since |-> {}, selected |-> NoRecord,
                 marked |-> NoRecord, available |-> "unset", default |-> NoRecord]
NoViewScript == [target |-> NoRecord, flights |-> <<>>, open |-> FALSE, content |-> "cleared",
                 record |-> NoRecord, value |-> "on", overtaken |-> FALSE, post |-> <<>>]

-----------------------------------------------------------------------------
\* mutant: no list aborts
PendingKept(flights) == flights

\* onDataTableAjaxCalled: JobIndex aborts the request before
Pending(flights) == IF On("jobs") THEN <<>> ELSE flights

Reloaded(l) ==
    [l EXCEPT !.flights = Append(Pending(@), [read |-> NotRead, superseded |-> FALSE])]

\* since is kept for the jobs, whose list aborts
Asked(rows) == IF On("jobs") THEN {rows} ELSE {}
Seen(l, rows) == IF l.since = {} THEN l ELSE [l EXCEPT !.since = @ \union {rows}]

MayReload == Len(Pending(list.flights)) < MaxLists

\* mutant: the pane keeps the record it was told before
ChosenKeepsTarget(v, r) ==
    [v EXCEPT !.flights = Append(@, [record |-> r, superseded |-> FALSE])]

\* init of the pane: get...PropertiesView, which aborts nothing
Chosen(v, r) ==
    [v EXCEPT !.target = r, !.flights = Append(@, [record |-> r, superseded |-> FALSE])]

MayChoose == Len(view.flights) < MaxViews

\* closeAndClearProperties
Closed(v) == [v EXCEPT !.open = FALSE, !.content = "cleared", !.record = NoRecord, !.overtaken = FALSE]

\* _selectRowFromDataTable
RowSelected(l, r) == [l EXCEPT !.marked = r, !.selected = r]

\* _setDefaultRowAndPage after each draw. ActionsIndex never sets
\* isDefaultDeviceDetailsAvailable, so its pane closes.
DefaultSet(l, v) ==
    IF l.available = "yes" THEN list' = RowSelected(l, l.default) /\ view' = Chosen(v, l.default)
    ELSE list' = l /\ view' = Closed(v)

-----------------------------------------------------------------------------
\* The page loads and asks for the list; a link may name a job to select.
FewRecords == [r \in Records |-> "on"]

LoadedList(p, r) ==
    [NoListScript EXCEPT !.flights = <<[read |-> NotRead, superseded |-> FALSE]>>,
                         !.since = IF p = "jobs" THEN {FewRecords} ELSE {},
                         !.selected = IF p = "jobs" THEN r ELSE NoRecord]

Event == OnRecords /\ events < MaxEvents /\ events' = events + 1

\* Somebody else adds, removes or changes a record; a job that is done or
\* cancelled stays so, and the outputs of the actions are fixed.
Changed(s) == IF On("rules") THEN States \ {s}
              ELSE IF On("actions") THEN {Other(s)}
              ELSE IF s = "on" THEN {"off"} ELSE IF s = "off" THEN {"absent"} ELSE {"on"}

OthersChange(r, s) ==
    /\ Event
    /\ s \in Changed(records[r])
    /\ records' = [records EXCEPT ![r] = s]
    /\ list' = Seen(list, records')
    /\ UNCHANGED <<page, view>>

ClickRow(r) ==
    /\ Event /\ MayChoose
    /\ r \in Present(list.rows)
    /\ list' = IF On("actions") THEN [list EXCEPT !.marked = r] ELSE RowSelected(list, r)
    /\ view' = Chosen(view, r)
    /\ UNCHANGED <<page, records>>

\* a column header or another page of the table: drawn from the data at hand
RedrawRows ==
    /\ Event /\ MayChoose
    /\ DefaultSet(list, view)
    /\ UNCHANGED <<page, records>>

ToggleProperties ==
    /\ Event
    /\ view' = [view EXCEPT !.open = ~@]
    /\ UNCHANGED <<page, records, list>>

-----------------------------------------------------------------------------
ServiceLists(i) ==
    /\ OnRecords
    /\ i \in DOMAIN list.flights /\ list.flights[i].read = NotRead
    /\ list' = [list EXCEPT !.flights[i].read = records]
    /\ UNCHANGED <<page, records, events, view>>

\* mutant: what was found in the rows before stays
SearchedKeeps(l, rows) ==
    IF On("actions") \/ l.selected \notin Present(rows) THEN l
    ELSE [l EXCEPT !.available = "yes", !.default = l.selected]

\* successCallback looks for the selected record, if any, in the new rows
Searched(l, rows) ==
    IF On("actions") \/ l.selected = NoRecord THEN l
    ELSE IF l.selected \in Present(rows) THEN [l EXCEPT !.available = "yes", !.default = l.selected]
    ELSE [l EXCEPT !.available = "no"]

ListAnswered(i) ==
    /\ OnRecords /\ MayChoose
    /\ i \in DOMAIN list.flights /\ list.flights[i].read # NotRead
    /\ LET rows == list.flights[i].read
           l    == [list EXCEPT !.flights = Answered(@, i), !.since = {},
                                !.rows = rows, !.marked = NoRecord]
       IN  DefaultSet(Searched(l, rows), view)
    /\ UNCHANGED <<page, records, events>>

\* mutant: a list that failed is asked for again
ListFailedAgain(i) ==
    /\ OnRecords
    /\ i \in DOMAIN list.flights
    /\ list' = Reloaded([list EXCEPT !.flights = Answered(@, i), !.since = {}])
    /\ UNCHANGED <<page, records, events, view>>

ListFailed(i) ==
    /\ OnRecords
    /\ i \in DOMAIN list.flights
    /\ list' = [list EXCEPT !.flights = Answered(@, i), !.since = {}]
    /\ UNCHANGED <<page, records, events, view>>

\* The partial view of a record comes in. That of an action names no output:
\* it belongs to the row clicked last.
ViewAnswered(i) ==
    /\ OnRecords
    /\ i \in DOMAIN view.flights
    /\ LET flight == view.flights[i]
           r      == IF On("actions") THEN view.target ELSE flight.record
       IN  /\ records[r] # "absent"
           /\ view' = [view EXCEPT !.flights = Answered(@, i), !.open = TRUE, !.content = "view",
                                   !.record = r, !.value = records[r],
                                   !.overtaken = flight.superseded]
    /\ UNCHANGED <<page, records, events, list>>

ViewFailed(i) ==
    /\ OnRecords
    /\ i \in DOMAIN view.flights
    /\ view' = [view EXCEPT !.flights = Answered(@, i), !.content = "failed", !.overtaken = FALSE,
                            !.record = IF On("actions") THEN view.flights[i].record ELSE view.target]
    /\ UNCHANGED <<page, records, events, list>>

\* the retry button of RenderRetryError
Retry ==
    /\ Event /\ MayChoose
    /\ view.content = "failed"
    /\ view' = Chosen(view, IF On("actions") THEN view.record ELSE view.target)
    /\ UNCHANGED <<page, records, list>>

-----------------------------------------------------------------------------
\* What the button of the pane sends: the rule of the form and the opposite of
\* the state it shows; the job or the output chosen last.
Posted(v) ==
    IF On("rules") THEN {[record |-> view.record, value |-> Other(view.value)]}
    ELSE IF On("jobs") THEN {[record |-> view.target, value |-> "off"] : s \in {view.value} \intersect {"on"}}
    ELSE {[record |-> view.target, value |-> v]}

PressButton(v) ==
    /\ Event
    /\ view.open /\ view.content = "view" /\ view.post = <<>>
    /\ \E post \in Posted(v) : view' = [view EXCEPT !.post = post]
    /\ UNCHANGED <<page, records, list>>

\* The service applies it, the script reloads the list.
PostAnswered ==
    /\ OnRecords /\ MayReload
    /\ view.post # <<>> /\ records[view.post.record] # "absent"
    /\ records' = [records EXCEPT ![view.post.record] = view.post.value]
    /\ view' = [view EXCEPT !.post = <<>>]
    /\ list' = [Reloaded(list) EXCEPT !.since = Asked(records')]
    /\ UNCHANGED <<page, events>>

\* An error is displayed; the service may have applied it all the same.
PostFailed ==
    /\ OnRecords
    /\ view.post # <<>>
    /\ view' = [view EXCEPT !.post = <<>>]
    /\ \/ UNCHANGED <<records, list>>
       \/ /\ records[view.post.record] # "absent"
          /\ records' = [records EXCEPT ![view.post.record] = view.post.value]
          /\ list' = Seen(list, records')
    /\ UNCHANGED <<page, events>>

-----------------------------------------------------------------------------
\* Every request ends, in an answer or an error.
RequestEnds ==
    \/ \E i \in 1..MaxLists : ServiceLists(i) \/ ListAnswered(i) \/ ListFailed(i)
    \/ \E i \in 1..MaxViews : ViewAnswered(i) \/ ViewFailed(i)
    \/ PostAnswered \/ PostFailed

RecordNext ==
    \/ \E r \in Records : ClickRow(r) \/ \E s \in States : OthersChange(r, s)
    \/ RedrawRows \/ ToggleProperties \/ Retry
    \/ \E v \in Values : PressButton(v)
    \/ RequestEnds

RecordFairness == WF_recordVars(RequestEnds)

-----------------------------------------------------------------------------
RecordsTypeOK ==
    /\ records \in Lists
    /\ events \in 0..MaxEvents
    /\ list \in ListScripts
    /\ view \in ViewScripts

(* The buttons of a pane act on what its script was told last: that is the   *)
(* highlighted row and, unless another view is still to come or an answer was *)
(* overtaken, the record the user sees. The retry button of the actions is    *)
(* the exception: it takes up a row that need not be highlighted any more.    *)
PaneFollowsRow ==
    /\ page # "actions" => list.marked \in {NoRecord, view.target}
    /\ view.content = "view" => view.record = view.target \/ view.flights # <<>> \/ view.overtaken

\* When the list comes in anew, a record still displayed stays selected and its
\* pane is asked for again, and the pane of one that is gone is closed.
ReloadKeepsSelection ==
    \A i \in DOMAIN list.flights : (ListAnswered(i) /\ page # "actions") =>
        IF list.selected \in Present(list'.rows)
        THEN list'.marked = list.selected /\ view'.target = list.selected
        ELSE ~view'.open /\ view'.content = "cleared"

JobList == INSTANCE LatestAnswer WITH
    Answers <- Lists, Nothing <- NoList,
    now     <- records,
    since   <- list.since,
    shown   <- IF On("jobs") THEN list.rows ELSE NoList

RecordsAtRest == list.flights = <<>> /\ view.flights = <<>> /\ view.post = <<>>

=============================================================================
