----------------------------- MODULE FiltersPage -----------------------------
(***************************************************************************)
(* The saved filters of the list of devices: the toolbar and panel in which *)
(* this tab edits one (DeviceFilter), and the service's table, a row per    *)
(* filter and name, written in several calls (DeviceListFilterRepository,   *)
(* FilterLogic) by this tab and by somebody else. The model gives the       *)
(* editor a page of its own: of the list it only reloads the rows.          *)
(***************************************************************************)
EXTENDS Browser

CONSTANTS
    FilterNames,    \* the names users give
    Unnamed,        \* UnnamedFilterName, which need not be unique
    MaxFilters,     \* bound: filters ever made, the first one included
    MaxEdits        \* bound: clicks in the tab and calls of the other user

ASSUME FiltersAssumption ==
    /\ FilterNames # {} /\ Unnamed \notin FilterNames
    /\ MaxFilters \in Nat \ {0} /\ MaxEdits \in Nat

VARIABLES
    filters,    \* the table, and what history needs of it
    calls,      \* what the service is doing for the tab and for the other user
    editor,     \* self.model
    edits       \* how many clicks and calls of the other user there have been

filtersVars == <<filters, calls, editor, edits>>

OnFilters == On("filters")

FilterIds  == 1..MaxFilters
AllDevices == 0                 \* the default filter, whose name is not told from Unnamed
SavedIds   == {AllDevices} \union FilterIds
NoId       == -1                \* null
EditorIds  == {NoId} \union SavedIds
Names      == FilterNames \union {Unnamed}
Callers    == {"tab", "other"}

Rows == [id : SavedIds, name : Names]

\* history: kept, the filters saved and never to be deleted; raced, the filters
\* two calls worked on at once or whose old row could not be dropped; contested,
\* the names two calls wanted at once
FilterTables == [rows : SUBSET Rows, made : FilterIds, jobs : SUBSET FilterIds,
           kept : SUBSET SavedIds, raced : SUBSET SavedIds, contested : SUBSET FilterNames]

\* history: turned, the tab edits something else since; renewed, the filter was
\* gone and is saved under another id
Calls == [step : {"idle", "read", "check", "insert", "drop", "saved", "failed",
                  "deleteRead", "deleteDrop", "deleted", "refused"},
          id : EditorIds, name : Names, old : SUBSET Rows,
          force : BOOLEAN, copy : BOOLEAN, turned : BOOLEAN, renewed : BOOLEAN]

IdleCall == [step |-> "idle", id |-> NoId, name |-> Unnamed, old |-> {},
             force |-> FALSE, copy |-> FALSE, turned |-> FALSE, renewed |-> FALSE]

Models == [id : EditorIds, name : Names, loaded : BOOLEAN, fromServer : BOOLEAN,
           jobs : BOOLEAN, changed : BOOLEAN]
NoModel == [id |-> AllDevices, name |-> Unnamed, loaded |-> FALSE, fromServer |-> FALSE,
            jobs |-> FALSE, changed |-> FALSE]

Editors == [model : Models,
            panel : BOOLEAN, backup : Models,               \* self.state, used while the panel is open
            finds  : SUBSET EditorIds,                       \* loadFilter, the answers to come
            loader : BOOLEAN]                               \* .loader_container

NoEditor == [model |-> NoModel, panel |-> FALSE, backup |-> NoModel, finds |-> {}, loader |-> FALSE]

\* init: the page opens with the filter of its link or of the cookie
LoadedEditor(id) == [NoEditor EXCEPT !.finds = {id}]

\* _builtInFilters: the default one, and one that users may rename and delete
BuiltInName == CHOOSE n \in FilterNames : TRUE
BuiltIn == {[id |-> AllDevices, name |-> Unnamed], [id |-> 1, name |-> BuiltInName]}
FirstFilters == [rows |-> BuiltIn, made |-> 1, jobs |-> {},
                 kept |-> {AllDevices, 1}, raced |-> {}, contested |-> {}]
NoCalls == [c \in Callers |-> IdleCall]

RowsOf(rows, id) == {r \in rows : r.id = id}
Idle(c) == calls[c].step = "idle"

-----------------------------------------------------------------------------
\* SaveFilterAsync and DeleteFilterAsync, for either caller. A step may fail.
Steps(c, from) == OnFilters /\ calls[c].step = from /\ UNCHANGED <<page, editor, edits>>

\* history: what is raced for once both calls are under way
Worked(t, cs) ==
    LET busy(c) == cs[c].step # "idle"
    IN  IF ~(\A c \in Callers : busy(c)) THEN t
        ELSE [t EXCEPT
                !.raced = @ \union ({cs["tab"].id} \intersect {cs["other"].id} \intersect SavedIds),
                !.contested = @ \union ({cs["tab"].name} \intersect {cs["other"].name} \intersect FilterNames)]

\* the other user's call is over when it has ended, the tab's when it is answered
Ended == {"saved", "failed", "deleted", "refused"}

Goes(c, call, t) ==
    /\ calls' = [calls EXCEPT ![c] = IF c = "other" /\ call.step \in Ended THEN IdleCall ELSE call]
    /\ filters' = Worked(t, calls')

\* A filter that is not found gets a new id, whatever id was asked for; at the
\* bound the read fails.
SaveReads(c) ==
    /\ Steps(c, "read")
    /\ LET call == calls[c]
       IN  IF RowsOf(filters.rows, call.id) = {}
           THEN IF filters.made = MaxFilters THEN Goes(c, [call EXCEPT !.step = "failed"], filters)
                ELSE Goes(c, [call EXCEPT !.step = "check", !.id = filters.made + 1, !.renewed = call.id # NoId],
                          [filters EXCEPT !.made = @ + 1])
           ELSE \E r \in RowsOf(filters.rows, call.id) :
                    Goes(c, [call EXCEPT !.step = "check", !.old = {r}], filters)

Taken(call) == call.name # Unnamed /\ \E r \in filters.rows : r.id # call.id /\ r.name = call.name

SaveChecks(c) ==
    /\ Steps(c, "check")
    /\ Goes(c, [calls[c] EXCEPT !.step = IF Taken(calls[c]) THEN "failed" ELSE "insert"], filters)

\* mutant: the old row is dropped although it is the one just written
RenamesAlways(call) == call.old # {}

Renames(call) == \E r \in call.old : r.name # call.name

SaveInserts(c) ==
    /\ Steps(c, "insert")
    /\ LET call == calls[c]
       IN  \/ Goes(c, [call EXCEPT !.step = IF Renames(call) THEN "drop" ELSE "saved"],
                   [filters EXCEPT !.rows = @ \union {[id |-> call.id, name |-> call.name]},
                                   !.kept = @ \union {call.id}])
           \/ Goes(c, [call EXCEPT !.step = "failed"], filters)

\* the result of dropping the old row is not looked at; the process may stop before
SaveDrops(c) ==
    /\ Steps(c, "drop")
    /\ LET call == [calls[c] EXCEPT !.step = "saved"]
       IN  \/ Goes(c, call, [filters EXCEPT !.rows = @ \ call.old])
           \/ \E step \in {"saved", "failed"} :
                  Goes(c, [call EXCEPT !.step = step], [filters EXCEPT !.raced = @ \union {call.id}])

DeleteReads(c) ==
    /\ Steps(c, "deleteRead")
    /\ LET call == calls[c]
       IN  IF call.id \in filters.jobs /\ ~call.force THEN Goes(c, [call EXCEPT !.step = "refused"], filters)
           ELSE IF RowsOf(filters.rows, call.id) = {} THEN Goes(c, [call EXCEPT !.step = "deleted"], filters)
           ELSE \E r \in RowsOf(filters.rows, call.id) :
                    Goes(c, [call EXCEPT !.step = "deleteDrop", !.old = {r}],
                         [filters EXCEPT !.kept = @ \ {call.id}])

DeleteDrops(c) ==
    /\ Steps(c, "deleteDrop")
    /\ LET call == calls[c]
       IN  \/ Goes(c, [call EXCEPT !.step = IF call.old \subseteq filters.rows THEN "deleted" ELSE "refused"],
                   [filters EXCEPT !.rows = @ \ call.old])
           \/ Goes(c, [call EXCEPT !.step = "refused"], filters)

-----------------------------------------------------------------------------
Edit == OnFilters /\ edits < MaxEdits /\ edits' = edits + 1

\* history: what the tab edits is no longer what its call is about
Turned == IF Idle("tab") THEN calls ELSE [calls EXCEPT !["tab"].turned = TRUE]

Edits(e) == editor' = e /\ UNCHANGED <<page, filters>>

NewModel == [id |-> NoId, name |-> Unnamed, loaded |-> TRUE, fromServer |-> FALSE,
             jobs |-> FALSE, changed |-> TRUE]

CanSaveAs == editor.model.id # AllDevices /\ editor.model.loaded
CanSave   == CanSaveAs /\ ~editor.model.jobs
CanDelete == editor.model.id # AllDevices /\ editor.model.fromServer

\* the default filter is not edited: the panel starts a new one
ShowPanel ==
    /\ Edit
    /\ IF editor.model.id = AllDevices
       THEN Edits([editor EXCEPT !.panel = TRUE, !.backup = editor.model, !.model = NewModel]) /\ calls' = Turned
       ELSE Edits([editor EXCEPT !.panel = TRUE, !.backup = editor.model]) /\ UNCHANGED calls

EditClauses ==
    /\ Edit
    /\ (editor.model.id # AllDevices \/ editor.panel) /\ ~editor.model.changed
    /\ Edits([editor EXCEPT !.model.changed = TRUE]) /\ UNCHANGED calls

EditFilterName(n) ==
    /\ Edit /\ CanSave
    /\ n # editor.model.name
    /\ Edits([editor EXCEPT !.model.name = n, !.model.changed = TRUE]) /\ UNCHANGED calls

\* a clause that has been typed in is added first
ExecuteFilter ==
    /\ Edit /\ editor.panel
    /\ \E changed \in {editor.model.changed, TRUE} :
           Edits([editor EXCEPT !.panel = FALSE, !.backup = NoModel, !.model.changed = changed])
    /\ UNCHANGED calls

CancelEdit ==
    /\ Edit /\ editor.panel
    /\ Edits([editor EXCEPT !.panel = FALSE, !.backup = NoModel, !.model = editor.backup])
    /\ calls' = IF editor.backup.id = editor.model.id THEN calls ELSE Turned

LoadFilter(id) ==
    /\ Edit
    /\ Edits([editor EXCEPT !.finds = @ \union {id}]) /\ UNCHANGED calls

\* setFilter, in whatever order the answers come; a filter that is not found
\* leaves the editor as it is
FilterFound(id) ==
    /\ OnFilters
    /\ id \in editor.finds
    /\ LET found == [editor EXCEPT !.finds = @ \ {id},
                       !.model = [NewModel EXCEPT !.id = id, !.fromServer = TRUE, !.changed = FALSE,
                                                  !.jobs = id \in filters.jobs]]
       IN  \E r \in RowsOf(filters.rows, id) : Edits([found EXCEPT !.model.name = r.name])
    /\ calls' = Turned
    /\ UNCHANGED edits

FilterNotFound(id) ==
    /\ OnFilters
    /\ id \in editor.finds
    /\ Edits([editor EXCEPT !.finds = @ \ {id}]) /\ UNCHANGED <<calls, edits>>

-----------------------------------------------------------------------------
\* The tab asks the service for one thing at a time.
Asks(call, e) ==
    /\ Edit /\ Idle("tab")
    /\ editor' = e
    /\ Goes("tab", call, filters)
    /\ UNCHANGED page

Saving(m) == [IdleCall EXCEPT !.step = "read", !.id = m.id, !.name = m.name]

\* the button wants a name; a job saves what has changed, with or without jobs
SaveFilter ==
    /\ editor.model.changed /\ CanSave
    /\ editor.model.name # Unnamed
    /\ Asks(Saving(editor.model), [editor EXCEPT !.loader = TRUE])

SaveFilterIfNeeded ==
    /\ editor.model.changed
    /\ Asks(Saving(editor.model), [editor EXCEPT !.loader = TRUE])

SaveAsFilter(n) ==
    /\ CanSaveAs
    /\ LET model == [editor.model EXCEPT !.id = NoId, !.name = n]
       IN  Asks([Saving(model) EXCEPT !.copy = TRUE], [editor EXCEPT !.model = model, !.loader = TRUE])

Deleting(id, force) == [IdleCall EXCEPT !.step = "deleteRead", !.id = id, !.force = force]

DeleteFilter ==
    /\ CanDelete
    /\ Asks(Deleting(editor.model.id, editor.model.jobs), editor)

\* the answers, or errors in their place; what was saved is read once more
Answers(step, next) ==
    /\ OnFilters
    /\ calls["tab"].step = step
    /\ calls' = [calls EXCEPT !["tab"] = next]
    /\ UNCHANGED <<page, filters, edits>>

\* mutant: a filter that had no id stays without
FilterSavedAsCopy(call) == [editor.model EXCEPT
    !.id = IF call.copy THEN call.id ELSE @, !.fromServer = TRUE, !.changed = FALSE]

\* the id of what was saved is taken over by a copy and by a filter that had none
FilterSavedAs(call) == [editor.model EXCEPT
    !.id = IF call.copy \/ @ = NoId THEN call.id ELSE @, !.fromServer = TRUE, !.changed = FALSE]

SaveAnswered ==
    /\ Answers("saved", IdleCall)
    /\ RowsOf(filters.rows, calls["tab"].id) # {}
    /\ editor' = [editor EXCEPT !.model = FilterSavedAs(calls["tab"]), !.loader = FALSE]

SaveFailed ==
    /\ \E step \in {"saved", "failed"} : Answers(step, IdleCall)
    /\ editor' = [editor EXCEPT !.loader = FALSE]

\* resetState
DeleteAnswered ==
    /\ Answers("deleted", IdleCall)
    /\ editor' = [editor EXCEPT !.finds = @ \union {AllDevices}]

\* Refused because of jobs, the deletion is asked for again with force if the
\* user agrees: for the filter the editor has now.
DeleteRefused ==
    /\ calls["tab"].step = "refused"
    /\ \/ Answers("refused", IdleCall)
       \/ ~calls["tab"].force /\ Answers("refused", Deleting(editor.model.id, TRUE))
    /\ UNCHANGED editor

DeleteFailed ==
    /\ \E step \in {"deleted", "refused"} : Answers(step, IdleCall)
    /\ UNCHANGED editor

-----------------------------------------------------------------------------
\* the other user saves, deletes and schedules jobs
Others(call) ==
    /\ Edit /\ Idle("other")
    /\ Goes("other", call, filters)
    /\ UNCHANGED <<page, editor>>

Made == 1..filters.made

OtherSaves(id, n) == Others([IdleCall EXCEPT !.step = "read", !.id = id, !.name = n])
OtherDeletes(id)  == Others(Deleting(id, FALSE))

OtherSchedules(id) ==
    /\ Edit
    /\ RowsOf(filters.rows, id) # {}
    /\ filters' = [filters EXCEPT !.jobs = @ \union {id}]
    /\ UNCHANGED <<page, calls, editor>>

\* InitializeDefaultFilter, when an instance of the site starts, writes the
\* built-in filters whatever has become of them
InstanceStarts ==
    /\ Edit
    /\ LET moved == {r.id : r \in {s \in filters.rows : \E b \in BuiltIn : s.id = b.id /\ s # b}}
           taken == \/ \E r \in filters.rows : r.name = BuiltInName /\ r.id # 1
                    \/ \E c \in Callers : calls[c].name = BuiltInName
       IN  filters' = [filters EXCEPT !.rows = @ \union BuiltIn, !.raced = @ \union moved,
                                      !.contested = IF taken THEN @ \union {BuiltInName} ELSE @]
    /\ UNCHANGED <<page, calls, editor>>

-----------------------------------------------------------------------------
ServiceSteps(c) ==
    \/ SaveReads(c) \/ SaveChecks(c) \/ SaveInserts(c) \/ SaveDrops(c)
    \/ DeleteReads(c) \/ DeleteDrops(c)

AnswersCome == SaveAnswered \/ SaveFailed \/ DeleteAnswered \/ DeleteRefused \/ DeleteFailed

\* The service goes on with what it does, and its answers or errors come.
FiltersGoOn ==
    \/ \E c \in Callers : ServiceSteps(c)
    \/ \E id \in EditorIds : FilterFound(id) \/ FilterNotFound(id)
    \/ AnswersCome

FiltersNext ==
    \/ ShowPanel \/ EditClauses \/ ExecuteFilter \/ CancelEdit
    \/ \E n \in Names : EditFilterName(n)
    \/ \E id \in Made \union {AllDevices} : LoadFilter(id)
    \/ SaveFilter \/ SaveFilterIfNeeded \/ DeleteFilter
    \/ \E n \in FilterNames : SaveAsFilter(n)
    \/ \E id \in Made : OtherDeletes(id) \/ OtherSchedules(id)
    \/ \E id \in Made \union {NoId}, n \in Names : OtherSaves(id, n)
    \/ InstanceStarts
    \/ FiltersGoOn

FiltersFairness == WF_filtersVars(FiltersGoOn)

-----------------------------------------------------------------------------
FiltersTypeOK ==
    /\ filters \in FilterTables
    /\ calls \in [Callers -> Calls]
    /\ editor \in Editors
    /\ edits \in 0..MaxEdits

OneRowPerFilter ==
    (\A c \in Callers : calls[c].step # "drop") =>
        \A r, s \in filters.rows :
            /\ r.id = s.id => r = s \/ r.id \in filters.raced
            /\ r.name = s.name => r = s \/ r.name \in filters.contested \union {Unnamed}

RenameKeepsFilter ==
    \A id \in filters.kept \ filters.raced : RowsOf(filters.rows, id) # {}

(* A filter has one row, and no two have the same name, unless two calls      *)
(* worked on it or wanted the name at once, the old row stayed behind, or a    *)
(* starting instance of the site brought a renamed built-in filter back. And a *)
(* filter that was saved and that nobody deletes is never without a row, in    *)
(* the middle of a change of name, after an error or when the process stops,   *)
(* unless two calls worked on it at once.                                      *)
FilterRowsKept == OneRowPerFilter /\ RenameKeepsFilter

(* After a save the editor has the filter it saved, so that the next save      *)
(* changes that one, unless the tab turned to another filter meanwhile or the   *)
(* filter was gone and has got another id; and a deletion that is asked for     *)
(* again with force is for the filter it was asked for first, unless the tab    *)
(* turned to another while it was refused.                                      *)
EditorKeepsFilter ==
    [][ /\ (SaveAnswered /\ ~calls["tab"].turned /\ ~calls["tab"].renewed) =>
             editor'.model.id = calls["tab"].id
        /\ (DeleteRefused /\ calls'["tab"].force /\ ~calls["tab"].turned) =>
             calls'["tab"].id = calls["tab"].id
      ]_<<page, filtersVars>>

\* the loader that covers the list has gone
FiltersAtRest == Idle("tab") /\ ~editor.loader /\ editor.finds = {}

=============================================================================
