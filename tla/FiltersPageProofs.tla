-------------------------- MODULE FiltersPageProofs --------------------------
(***************************************************************************)
(* Proofs about the saved filters, for any names, filters and bounds, and   *)
(* the type correctness of the whole site.                                  *)
(***************************************************************************)
EXTENDS DevicesPageProofs

-----------------------------------------------------------------------------
(* The invariant *)

SaveSteps   == {"read", "check", "insert", "drop", "saved", "failed"}
DeleteSteps == {"deleteRead", "deleteDrop", "deleted", "refused"}

RowOf(call) == [id |-> call.id, name |-> call.name]

\* ids are given in order; a name two filters have was contested; a filter that
\* is kept and was not raced for has a row
TableOK(t) ==
    /\ t \in FilterTables
    /\ \A r \in t.rows : r.id <= t.made
    /\ \A r, s \in t.rows : r.name = s.name => r.id = s.id \/ r.name \in t.contested \union {Unnamed}
    /\ \A id \in t.kept : id \in t.raced \/ \E r \in t.rows : r.id = id

\* only a call that is about to drop the old row leaves two
IdsOnce(t, cs) ==
    \A r, s \in t.rows : r.id = s.id =>
        \/ r = s \/ r.id \in t.raced
        \/ \E c \in Callers : cs[c].step = "drop" /\ cs[c].id = r.id

\* what a call that saves has found is still so, unless it was raced for
Found(call, t) ==
    /\ call.id \in SavedIds /\ call.id <= t.made
    /\ call.id \in t.raced \/ \A r \in t.rows : r.id = call.id => r \in call.old
    /\ call.id \in t.raced \/ call.old \subseteq t.rows
    /\ call.old = {} => call.id \notin {AllDevices, 1}

\* nobody else took the name since it was checked
Free(call, t) ==
    call.name # Unnamed =>
        \A r \in t.rows : r.name = call.name => r.id = call.id \/ call.name \in t.contested

\* the new row is there, beside the old one at most
Renaming(call, t) ==
    /\ call.id \in SavedIds /\ RowOf(call) \notin call.old
    /\ \/ call.id \in t.raced
       \/ /\ RowOf(call) \in t.rows
          /\ \A r \in t.rows : r.id = call.id => r \in call.old \union {RowOf(call)}

CallOK(call, t) ==
    /\ \A r, s \in call.old : r.id = call.id /\ r = s
    /\ call.step = "read" => call.old = {} /\ ~call.renewed
    /\ call.step \in {"check", "insert"} => Found(call, t)
    /\ call.step = "insert" => Free(call, t)
    /\ call.step = "drop" => Renaming(call, t)
    /\ call.step = "deleteDrop" => call.id \in SavedIds /\ (call.id \in t.raced \/ call.id \notin t.kept)

\* two calls under way have different filters and names, or history has it; a
\* deletion asked for again with force has not looked at the table yet
Apart(t, cs) ==
    (\A c \in Callers : cs[c].step # "idle") =>
        /\ (cs["tab"].id = cs["other"].id /\ cs["tab"].id \in SavedIds) =>
              cs["tab"].id \in t.raced \/ cs["tab"].step = "deleteRead"
        /\ (cs["tab"].name = cs["other"].name /\ cs["tab"].name \in FilterNames) =>
              cs["tab"].name \in t.contested

\* the tab still edits what its call is about
TabOK(call, m) ==
    (call.step # "idle" /\ ~call.turned) =>
        /\ call.step \in DeleteSteps => m.id = call.id
        /\ (call.step \in SaveSteps /\ ~call.copy /\ ~call.renewed /\ m.id # NoId) => m.id = call.id

FilterInv ==
    /\ TableOK(filters) /\ IdsOnce(filters, calls) /\ Apart(filters, calls)
    /\ calls \in [Callers -> Calls] /\ editor \in Editors /\ edits \in 0..MaxEdits
    /\ \A c \in Callers : CallOK(calls[c], filters)
    /\ TabOK(calls["tab"], editor.model)
    /\ page = NoPage => calls = NoCalls

LEMMA FilterInvMeans == FilterInv => FiltersTypeOK /\ FilterRowsKept
<1> SUFFICES ASSUME FilterInv PROVE FiltersTypeOK /\ FilterRowsKept
  OBVIOUS
<1>1. FiltersTypeOK
  BY DEF FilterInv, TableOK, FiltersTypeOK
<1>2. OneRowPerFilter
  <2> SUFFICES ASSUME \A c \in Callers : calls[c].step # "drop", NEW r \in filters.rows, NEW s \in filters.rows
               PROVE  /\ r.id = s.id => r = s \/ r.id \in filters.raced
                      /\ r.name = s.name => r = s \/ r.name \in filters.contested \union {Unnamed}
    BY DEF OneRowPerFilter
  <2>1. r.id = s.id => r = s \/ r.id \in filters.raced
    BY DEF FilterInv, IdsOnce
  <2>2. r \in Rows /\ s \in Rows
    BY DEF FilterInv, TableOK, FilterTables
  <2>3. r.name = s.name => r.id = s.id \/ r.name \in filters.contested \union {Unnamed}
    BY DEF FilterInv, TableOK
  <2>4. r.name = s.name /\ r.id = s.id => r = s
    BY <2>2 DEF Rows
  <2> QED BY <2>1, <2>3, <2>4
<1>3. RenameKeepsFilter
  BY DEF FilterInv, TableOK, RenameKeepsFilter, RowsOf
<1> QED BY <1>1, <1>2, <1>3 DEF FilterRowsKept

LEMMA FilterFacts ==
    /\ Callers = {"tab", "other"} /\ "tab" \in Callers /\ "other" \in Callers
    /\ MaxFilters \in Nat \ {0} /\ 1 \in FilterIds /\ AllDevices = 0
    /\ SavedIds \subseteq 0..MaxFilters /\ SavedIds \subseteq EditorIds
    /\ NoId \notin SavedIds /\ NoId \in EditorIds /\ AllDevices \in SavedIds
    /\ Unnamed \in Names /\ Unnamed \notin FilterNames
    /\ BuiltInName \in FilterNames /\ BuiltInName \in Names
    /\ IdleCall \in Calls
<1>1. BuiltInName \in FilterNames
  BY FiltersAssumption DEF BuiltInName
<1>2. 1 \in FilterIds /\ MaxFilters \in Nat \ {0}
  BY FiltersAssumption DEF FilterIds
<1>3. SavedIds \subseteq 0..MaxFilters /\ NoId \notin SavedIds
  BY <1>2 DEF SavedIds, FilterIds, AllDevices, NoId
<1>4. IdleCall \in Calls
  BY DEF IdleCall, Calls, EditorIds, Names
<1> QED BY <1>1, <1>2, <1>3, <1>4, FiltersAssumption
        DEF Callers, AllDevices, SavedIds, EditorIds, Names

\* history grows, the table stays
LEMMA WorkedIs ==
    ASSUME NEW t \in FilterTables, NEW cs \in [Callers -> Calls]
    PROVE  LET w == Worked(t, cs)
           IN  /\ w \in FilterTables /\ w.rows = t.rows /\ w.made = t.made /\ w.jobs = t.jobs
               /\ w.kept = t.kept /\ t.raced \subseteq w.raced /\ t.contested \subseteq w.contested
               /\ (\A c \in Callers : cs[c].step # "idle") =>
                    /\ (cs["tab"].id = cs["other"].id /\ cs["tab"].id \in SavedIds) =>
                          cs["tab"].id \in w.raced
                    /\ (cs["tab"].name = cs["other"].name /\ cs["tab"].name \in FilterNames) =>
                          cs["tab"].name \in w.contested
<1> DEFINE busy == \A c \in Callers : cs[c].step # "idle"
           raced == t.raced \union ({cs["tab"].id} \intersect {cs["other"].id} \intersect SavedIds)
           contested == t.contested \union
                          ({cs["tab"].name} \intersect {cs["other"].name} \intersect FilterNames)
           w == Worked(t, cs)
<1>1. CASE ~busy
  BY <1>1 DEF Worked
<1>2. CASE busy
  <2>1. w = [t EXCEPT !.raced = raced, !.contested = contested]
    BY <1>2 DEF Worked, FilterTables
  <2>2. raced \subseteq SavedIds /\ contested \subseteq FilterNames
    BY DEF FilterTables
  <2>3. /\ t.raced \subseteq raced /\ t.contested \subseteq contested
        /\ (cs["tab"].id = cs["other"].id /\ cs["tab"].id \in SavedIds) => cs["tab"].id \in raced
        /\ (cs["tab"].name = cs["other"].name /\ cs["tab"].name \in FilterNames) =>
              cs["tab"].name \in contested
    OBVIOUS
  <2> HIDE DEF raced, contested, w
  <2>4. /\ w \in FilterTables /\ w.rows = t.rows /\ w.made = t.made /\ w.jobs = t.jobs
        /\ w.kept = t.kept /\ w.raced = raced /\ w.contested = contested
    BY <2>1, <2>2 DEF FilterTables
  <2> QED BY <2>3, <2>4 DEF w
<1> QED BY <1>1, <1>2

\* what holds of a call goes on holding when history grows
LEMMA Monotone ==
    ASSUME NEW call, NEW t, NEW w, CallOK(call, t), w.rows = t.rows, w.kept = t.kept, w.made = t.made,
           t.raced \subseteq w.raced, t.contested \subseteq w.contested
    PROVE  CallOK(call, w)
  BY DEF CallOK, Found, Free, Renaming

-----------------------------------------------------------------------------
(* A call goes on *)

\* What a step of call c may do to the table: add its row and keep its filter, or
\* drop rows of its filter; a call that starts or only reads does neither.
Confined(c, t) ==
    /\ t \in FilterTables /\ filters.raced \subseteq t.raced /\ filters.contested \subseteq t.contested
    /\ t.made \in {filters.made, filters.made + 1}
    /\ \/ t.rows = filters.rows /\ t.kept \subseteq filters.kept
       \/ /\ calls[c].step \notin {"idle", "deleteRead"} /\ calls[c].id \in SavedIds
          /\ \A r \in filters.rows : r.id # calls[c].id => r \in t.rows
          /\ \A r \in t.rows : r \in filters.rows \/ r = RowOf(calls[c])
          /\ t.kept \subseteq filters.kept \union {calls[c].id}

LEMMA OtherCall ==
    ASSUME FilterInv, NEW c \in Callers, NEW d \in Callers, d # c, NEW t, Confined(c, t)
    PROVE  CallOK(calls[d], t)
<1> DEFINE call == calls[d]
           id == calls[c].id
<1>1. CallOK(call, filters) /\ call \in Calls
  BY DEF FilterInv
<1>0. call.id \in SavedIds /\ call.id <= filters.made => call.id <= t.made
  <2>1. PICK n \in Nat : n = filters.made
    BY FilterFacts DEF FilterInv, TableOK, FilterTables, FilterIds
  <2>2. PICK m \in Nat : m = t.made /\ n <= m
    BY <2>1 DEF Confined
  <2>3. \A i \in SavedIds : i \in Int
    BY FilterFacts
  <2>4. \A i \in SavedIds : i <= n => i <= m
    BY <2>1, <2>2, <2>3
  <2> HIDE DEF call
  <2> QED BY <2>1, <2>2, <2>4
<1>2. CASE t.rows = filters.rows /\ t.kept \subseteq filters.kept
  <2>1. call.step \in {"check", "insert"} => Found(call, t)
    BY <1>0, <1>1, <1>2 DEF CallOK, Found, Confined
  <2> QED BY <1>1, <1>2, <2>1 DEF CallOK, Free, Renaming, Confined
<1>3. CASE /\ calls[c].step \notin {"idle", "deleteRead"} /\ id \in SavedIds
           /\ \A r \in filters.rows : r.id # id => r \in t.rows
           /\ \A r \in t.rows : r \in filters.rows \/ r = RowOf(calls[c])
           /\ t.kept \subseteq filters.kept \union {id}
  <2>0. RowOf(calls[c]).id = id /\ RowOf(calls[c]).name = calls[c].name
    BY DEF RowOf
  <2>1. CASE call.step \notin {"check", "insert", "drop", "deleteDrop"}
    BY <1>1, <2>1 DEF CallOK
  <2>2. CASE call.step \in {"check", "insert", "drop", "deleteDrop"}
    <3>1. \A e \in Callers : calls[e].step # "idle"
      BY <1>3, <2>2 DEF Callers
    <3>2. calls["tab"].step # "deleteRead"
      BY <1>3, <2>2 DEF Callers
    <3>3. call.id = id => call.id \in t.raced
      BY <1>3, <3>1, <3>2 DEF FilterInv, Apart, Callers, Confined
    <3>4. call.id \in SavedIds
      BY <1>1, <2>2 DEF CallOK, Found, Renaming
    <3>5. call.step \in {"check", "insert"} => Found(call, t)
      <4>1. CASE call.id = id
        BY <1>0, <1>1, <3>3, <4>1 DEF CallOK, Found
      <4>2. CASE call.id # id
        <5> SUFFICES ASSUME call.step \in {"check", "insert"}, call.id \notin t.raced
                     PROVE  /\ \A r \in t.rows : r.id = call.id => r \in call.old
                            /\ call.old \subseteq t.rows
          BY <1>0, <1>1, <3>4 DEF CallOK, Found
        <5>1. Found(call, filters) /\ call.id \notin filters.raced
          BY <1>1 DEF CallOK, Confined
        <5>2. ASSUME NEW r \in t.rows, r.id = call.id PROVE r \in call.old
          <6>1. r \in filters.rows
            BY <1>3, <2>0, <4>2, <5>2
          <6> QED BY <5>1, <5>2, <6>1 DEF Found
        <5>3. ASSUME NEW r \in call.old PROVE r \in t.rows
          <6>1. r \in filters.rows /\ r.id = call.id
            BY <1>1, <5>1, <5>3 DEF Found, CallOK
          <6> QED BY <1>3, <4>2, <6>1
        <5> QED BY <5>2, <5>3
      <4> QED BY <4>1, <4>2
    <3>6. call.step = "insert" => Free(call, t)
      <4> SUFFICES ASSUME call.step = "insert", call.name # Unnamed,
                          NEW r \in t.rows, r.name = call.name
                   PROVE  r.id = call.id \/ call.name \in t.contested
        BY DEF Free
      <4>1. Free(call, filters)
        BY <1>1 DEF CallOK
      <4>2. CASE r \in filters.rows
        BY <4>1, <4>2 DEF Free, Confined
      <4>3. CASE r = RowOf(calls[c])
        <5>1. calls[c].name = call.name /\ call.name \in FilterNames
          BY <1>1, <2>0, <4>3 DEF Calls, Names
        <5>2. calls["tab"].name = calls["other"].name /\ calls["tab"].name = call.name
          BY <5>1 DEF Callers
        <5>3. call.name \in filters.contested
          BY <3>1, <5>1, <5>2 DEF FilterInv, Apart
        <5> QED BY <5>3 DEF Confined
      <4> QED BY <1>3, <4>2, <4>3
    <3>7. call.step = "drop" => Renaming(call, t)
      <4> SUFFICES ASSUME call.step = "drop" PROVE Renaming(call, t)
        OBVIOUS
      <4>1. Renaming(call, filters)
        BY <1>1 DEF CallOK
      <4>2. CASE call.id = id
        BY <3>3, <4>1, <4>2 DEF Renaming
      <4>3. CASE call.id # id
        <5>1. RowOf(call).id = call.id
          BY DEF RowOf
        <5>2. \A r \in t.rows : r.id = call.id => r \in filters.rows
          BY <1>3, <2>0, <4>3
        <5>3. RowOf(call) \in filters.rows => RowOf(call) \in t.rows
          BY <1>3, <4>3, <5>1
        <5> QED BY <4>1, <5>2, <5>3 DEF Renaming, Confined
      <4> QED BY <4>2, <4>3
    <3>8. call.step = "deleteDrop" =>
             call.id \in SavedIds /\ (call.id \in t.raced \/ call.id \notin t.kept)
      <4>1. CASE call.id = id
        BY <3>3, <3>4, <4>1
      <4>2. CASE call.id # id
        BY <1>1, <1>3, <4>2 DEF CallOK, Confined
      <4> QED BY <4>1, <4>2
    <3> QED BY <1>1, <3>5, <3>6, <3>7, <3>8 DEF CallOK
  <2> QED BY <2>1, <2>2
<1> QED BY <1>2, <1>3 DEF Confined

\* what a step has to show
LEMMA GoesInv ==
    ASSUME FilterInv, page # NoPage, page' = page,
           NEW c \in Callers, NEW call \in Calls, NEW t, Confined(c, t), Goes(c, call, t),
           TableOK(t), IdsOnce(t, [calls EXCEPT ![c] = call]), CallOK(call, t), call.step # "idle",
           editor' \in Editors, edits' \in 0..MaxEdits,
           c = "tab" => TabOK(call, editor'.model),
           c = "other" => editor' = editor
    PROVE  FilterInv'
<1> DEFINE cs == [calls EXCEPT ![c] = call]
           next == IF c = "other" /\ call.step \in Ended THEN IdleCall ELSE call
<1>1. calls \in [Callers -> Calls] /\ t \in FilterTables
  BY DEF FilterInv, Confined
<1>2. calls' = [calls EXCEPT ![c] = next] /\ filters' = Worked(t, calls')
  BY DEF Goes
<1>3. next \in Calls /\ (next = call \/ next = IdleCall)
  BY FilterFacts
<1> HIDE DEF next
<1>4. calls' \in [Callers -> Calls] /\ calls'[c] = next /\ \A d \in Callers : d # c => calls'[d] = calls[d]
  BY <1>1, <1>2, <1>3
<1> DEFINE cs2 == calls'
<1>5. cs2 \in [Callers -> Calls] /\ filters' = Worked(t, cs2)
  BY <1>2, <1>4
<1>6. /\ filters' \in FilterTables /\ filters'.rows = t.rows /\ filters'.made = t.made
      /\ filters'.jobs = t.jobs /\ filters'.kept = t.kept
      /\ t.raced \subseteq filters'.raced /\ t.contested \subseteq filters'.contested
      /\ (\A d \in Callers : cs2[d].step # "idle") =>
            /\ (cs2["tab"].id = cs2["other"].id /\ cs2["tab"].id \in SavedIds) =>
                  cs2["tab"].id \in filters'.raced
            /\ (cs2["tab"].name = cs2["other"].name /\ cs2["tab"].name \in FilterNames) =>
                  cs2["tab"].name \in filters'.contested
  <2> HIDE DEF cs2
  <2> QED BY <1>1, <1>5, WorkedIs
<1>7. TableOK(filters)'
  BY <1>6 DEF TableOK
<1>8. Apart(filters, calls)'
  BY <1>6 DEF Apart
<1>9. IdsOnce(filters, calls)'
  <2> SUFFICES ASSUME NEW r \in t.rows, NEW s \in t.rows, r.id = s.id, r # s, r.id \notin filters'.raced
               PROVE  \E d \in Callers : calls'[d].step = "drop" /\ calls'[d].id = r.id
    BY <1>6 DEF IdsOnce
  <2>1. PICK d \in Callers : cs[d].step = "drop" /\ cs[d].id = r.id
    BY <1>6 DEF IdsOnce
  <2>2. CASE d = c
    <3>1. call.step = "drop" /\ call.id = r.id
      BY <1>1, <2>1, <2>2
    <3>2. next = call
      BY <3>1 DEF next, Ended
    <3> QED BY <1>4, <2>2, <3>1, <3>2
  <2>3. CASE d # c
    BY <1>1, <1>4, <2>1, <2>3
  <2> QED BY <2>2, <2>3
<1>10. ASSUME NEW d \in Callers PROVE CallOK(calls'[d], filters')
  <2>1. CASE d = c
    <3>1. CallOK(call, filters')
      BY <1>6, Monotone
    <3>2. CallOK(IdleCall, filters')
      BY DEF CallOK, IdleCall
    <3> QED BY <1>3, <1>4, <2>1, <3>1, <3>2
  <2>2. CASE d # c
    <3>1. CallOK(calls[d], t)
      BY <2>2, OtherCall
    <3>2. CallOK(calls[d], filters')
      BY <1>6, <3>1, Monotone
    <3> QED BY <1>4, <2>2, <3>2
  <2> QED BY <2>1, <2>2
<1>11. TabOK(calls["tab"], editor.model)'
  <2>1. CASE c = "tab"
    <3>1. calls'["tab"] = call
      BY <1>4, <2>1 DEF next
    <3> QED BY <2>1, <3>1
  <2>2. CASE c = "other"
    <3>1. calls'["tab"] = calls["tab"] /\ editor' = editor
      BY <1>4, <2>2, FilterFacts
    <3> QED BY <3>1 DEF FilterInv
  <2> QED BY <2>1, <2>2, FilterFacts
<1>12. \A d \in Callers : CallOK(calls[d], filters)'
  BY <1>10
<1> QED BY <1>4, <1>7, <1>8, <1>9, <1>11, <1>12 DEF FilterInv

-----------------------------------------------------------------------------
(* The steps of the service *)

LEMMA StepFacts ==
    ASSUME FilterInv, NEW c \in Callers, NEW from, Steps(c, from)
    PROVE  /\ page # NoPage /\ page' = page /\ editor' = editor /\ editor' \in Editors
           /\ edits' \in 0..MaxEdits /\ calls[c].step = from
           /\ calls[c] \in Calls /\ CallOK(calls[c], filters) /\ TableOK(filters)
           /\ filters \in FilterTables /\ filters.made \in 1..MaxFilters
           /\ calls \in [Callers -> Calls]
  BY DEF Steps, OnFilters, On, NoPage, FilterInv, TableOK, FilterTables, FilterIds

LEMMA StepTo ==
    ASSUME NEW call \in Calls,
           NEW step \in {"idle", "read", "check", "insert", "drop", "saved", "failed",
                         "deleteRead", "deleteDrop", "deleted", "refused"}
    PROVE  LET next == [call EXCEPT !.step = step]
           IN  /\ next \in Calls /\ next.step = step /\ next.id = call.id /\ next.name = call.name
               /\ next.old = call.old /\ next.force = call.force /\ next.copy = call.copy
               /\ next.turned = call.turned /\ next.renewed = call.renewed
  BY DEF Calls

\* a step within a save or a deletion
LEMMA TabStep ==
    ASSUME NEW call, NEW next, NEW m, TabOK(call, m), call.step # "idle", next.id = call.id,
           next.turned = call.turned, next.copy = call.copy, next.renewed = call.renewed,
           \/ call.step \in SaveSteps /\ next.step \in SaveSteps
           \/ call.step \in DeleteSteps /\ next.step \in DeleteSteps
    PROVE  TabOK(next, m)
  BY DEF TabOK, SaveSteps, DeleteSteps

LEMMA IdsSame ==
    ASSUME FilterInv, NEW c \in Callers, calls[c].step # "drop", NEW call, NEW t,
           t.rows = filters.rows, filters.raced \subseteq t.raced
    PROVE  IdsOnce(t, [calls EXCEPT ![c] = call])
<1>1. calls \in [Callers -> Calls] /\ IdsOnce(filters, calls)
  BY DEF FilterInv
<1> SUFFICES ASSUME NEW r \in filters.rows, NEW s \in filters.rows, r.id = s.id, r # s,
                    r.id \notin t.raced
             PROVE  \E d \in Callers : [calls EXCEPT ![c] = call][d].step = "drop"
                                       /\ [calls EXCEPT ![c] = call][d].id = r.id
  BY DEF IdsOnce
<1>2. PICK d \in Callers : calls[d].step = "drop" /\ calls[d].id = r.id
  BY <1>1 DEF IdsOnce
<1> QED BY <1>1, <1>2

\* a step that leaves the table alone
LEMMA QuietStep ==
    ASSUME FilterInv, NEW c \in Callers, NEW from \in (SaveSteps \union DeleteSteps) \ {"drop"},
           Steps(c, from),
           NEW step \in (SaveSteps \union DeleteSteps) \ {"read", "check", "insert", "drop", "deleteDrop"},
           from \in SaveSteps <=> step \in SaveSteps,
           Goes(c, [calls[c] EXCEPT !.step = step], filters)
    PROVE  FilterInv'
<1> DEFINE call == calls[c]
           next == [call EXCEPT !.step = step]
<1>1. /\ page # NoPage /\ page' = page /\ editor' = editor /\ editor' \in Editors
      /\ edits' \in 0..MaxEdits /\ call.step = from
      /\ call \in Calls /\ CallOK(call, filters) /\ TableOK(filters) /\ filters \in FilterTables
  BY StepFacts
<1>2. /\ next \in Calls /\ next.step = step /\ next.id = call.id /\ next.old = call.old
      /\ next.copy = call.copy /\ next.turned = call.turned /\ next.renewed = call.renewed
  <2>1. step \in {"idle", "read", "check", "insert", "drop", "saved", "failed",
                  "deleteRead", "deleteDrop", "deleted", "refused"}
    BY DEF SaveSteps, DeleteSteps
  <2>2. call \in Calls
    BY <1>1
  <2> HIDE DEF call
  <2> QED BY <2>1, <2>2 DEF Calls
<1>3. Goes(c, next, filters)
  OBVIOUS
<1> HIDE DEF next
<1>4. CallOK(next, filters) /\ next.step # "idle"
  BY <1>1, <1>2 DEF CallOK, SaveSteps, DeleteSteps
<1>5. c = "tab" => TabOK(next, editor'.model)
  <2>1. c = "tab" => TabOK(call, editor'.model)
    BY <1>1 DEF FilterInv
  <2>2. call.step # "idle" /\ (\/ call.step \in SaveSteps /\ next.step \in SaveSteps
                               \/ call.step \in DeleteSteps /\ next.step \in DeleteSteps)
    BY <1>1, <1>2 DEF SaveSteps, DeleteSteps
  <2> QED BY <1>2, <2>1, <2>2, TabStep
<1>6. Confined(c, filters)
  BY <1>1 DEF Confined
<1>7. IdsOnce(filters, [calls EXCEPT ![c] = next])
  BY <1>1, IdsSame
<1> QED BY <1>1, <1>2, <1>3, <1>4, <1>5, <1>6, <1>7, GoesInv

\* the rows of a filter that only one call works on are one
LEMMA OneRow ==
    ASSUME FilterInv, NEW c \in Callers, calls[c].step = "read",
           NEW r \in filters.rows, NEW s \in filters.rows, r.id = calls[c].id, s.id = r.id
    PROVE  r = s \/ r.id \in filters.raced
<1> SUFFICES ASSUME r # s, r.id \notin filters.raced PROVE FALSE
  OBVIOUS
<1>1. PICK d \in Callers : calls[d].step = "drop" /\ calls[d].id = r.id
  BY DEF FilterInv, IdsOnce
<1>2. d # c /\ \A e \in Callers : calls[e].step \in {"read", "drop"}
  BY <1>1 DEF Callers
<1>3. r.id \in SavedIds
  BY DEF FilterInv, TableOK, FilterTables, Rows
<1>4. calls["tab"].id = r.id /\ calls["other"].id = r.id
  BY <1>1, <1>2 DEF Callers
<1>5. (\A e \in Callers : calls[e].step # "idle") /\ calls["tab"].step # "deleteRead"
  BY <1>2 DEF Callers
<1> QED BY <1>3, <1>4, <1>5 DEF FilterInv, Apart

LEMMA SaveReadsNew ==
    ASSUME FilterInv, NEW c \in Callers, Steps(c, "read"), RowsOf(filters.rows, calls[c].id) = {},
           filters.made # MaxFilters,
           Goes(c, [calls[c] EXCEPT !.step = "check", !.id = filters.made + 1,
                                    !.renewed = calls[c].id # NoId],
                [filters EXCEPT !.made = @ + 1])
    PROVE  FilterInv'
<1> DEFINE call == calls[c]
           id == filters.made + 1
           renewed == call.id # NoId
           next == [call EXCEPT !.step = "check", !.id = id, !.renewed = renewed]
           t == [filters EXCEPT !.made = id]
<1>1. /\ page # NoPage /\ page' = page /\ editor' = editor /\ editor' \in Editors
      /\ edits' \in 0..MaxEdits /\ call.step = "read"
      /\ call \in Calls /\ CallOK(call, filters) /\ TableOK(filters)
      /\ filters \in FilterTables /\ filters.made \in 1..MaxFilters
  BY StepFacts
<1>2. Goes(c, next, t)
  BY <1>1 DEF FilterTables
<1>3. id \in FilterIds /\ id \in SavedIds /\ id \in EditorIds /\ id \notin {0, 1} /\ id \in Nat
  BY <1>1, FilterFacts DEF FilterIds, SavedIds, EditorIds
<1>4. renewed \in BOOLEAN /\ (~renewed => call.id = NoId)
  OBVIOUS
<1>5. \A r \in filters.rows : r.id < id /\ r.id \in Nat
  <2> TAKE r \in filters.rows
  <2>1. r.id \in SavedIds /\ r.id <= filters.made
    BY <1>1 DEF TableOK, FilterTables, Rows
  <2>2. r.id \in Nat
    BY <2>1, FilterFacts
  <2> QED BY <1>1, <2>1, <2>2
<1>6. call.old = {}
  BY <1>1 DEF CallOK
<1>7. id = filters.made + 1
  OBVIOUS
<1> HIDE DEF id, renewed
<1>8. /\ t \in FilterTables /\ t.rows = filters.rows /\ t.raced = filters.raced /\ t.made = id
      /\ t.contested = filters.contested /\ t.kept = filters.kept
  BY <1>1, <1>3 DEF FilterTables
<1>9. /\ next \in Calls /\ next.step = "check" /\ next.id = id /\ next.old = {}
      /\ next.copy = call.copy /\ next.turned = call.turned /\ next.renewed = renewed
  BY <1>1, <1>3, <1>4, <1>6 DEF Calls
<1> HIDE DEF next, t
<1>10. Confined(c, t)
  BY <1>7, <1>8 DEF Confined
<1>11. TableOK(t)
  BY <1>1, <1>3, <1>5, <1>8 DEF TableOK
<1>12. CallOK(next, t)
  <2>1. \A r \in t.rows : r.id # id
    BY <1>3, <1>5, <1>8
  <2>2. id <= t.made
    BY <1>3, <1>8
  <2>3. Found(next, t)
    BY <1>3, <1>9, <2>1, <2>2 DEF Found, AllDevices
  <2> QED BY <1>9, <2>3 DEF CallOK
<1>13. c = "tab" => TabOK(next, editor'.model)
  <2> SUFFICES ASSUME c = "tab" PROVE TabOK(next, editor'.model)
    OBVIOUS
  <2>1. TabOK(call, editor'.model)
    BY <1>1 DEF FilterInv
  <2>2. ~call.renewed
    BY <1>1 DEF CallOK
  <2> QED BY <1>1, <1>4, <1>9, <2>1, <2>2 DEF TabOK, SaveSteps, DeleteSteps
<1>14. IdsOnce(t, [calls EXCEPT ![c] = next])
  BY <1>1, <1>8, IdsSame
<1> QED BY <1>1, <1>2, <1>9, <1>10, <1>11, <1>12, <1>13, <1>14, GoesInv

LEMMA SaveReadsRow ==
    ASSUME FilterInv, NEW c \in Callers, Steps(c, "read"), NEW r \in RowsOf(filters.rows, calls[c].id),
           Goes(c, [calls[c] EXCEPT !.step = "check", !.old = {r}], filters)
    PROVE  FilterInv'
<1> DEFINE call == calls[c]
           next == [call EXCEPT !.step = "check", !.old = {r}]
<1>1. /\ page # NoPage /\ page' = page /\ editor' = editor /\ editor' \in Editors
      /\ edits' \in 0..MaxEdits /\ call.step = "read"
      /\ call \in Calls /\ CallOK(call, filters) /\ TableOK(filters) /\ filters \in FilterTables
  BY StepFacts
<1>2. r \in filters.rows /\ r.id = call.id /\ r \in Rows /\ r.id \in SavedIds /\ r.id <= filters.made
  BY <1>1 DEF RowsOf, FilterTables, Rows, TableOK
<1>3. /\ next \in Calls /\ next.step = "check" /\ next.id = call.id /\ next.old = {r}
      /\ next.copy = call.copy /\ next.turned = call.turned /\ next.renewed = call.renewed
  BY <1>1, <1>2 DEF Calls
<1>4. Goes(c, next, filters)
  OBVIOUS
<1> HIDE DEF next
<1>5. \A s \in filters.rows : s.id = call.id => s = r \/ call.id \in filters.raced
  BY <1>1, <1>2, OneRow
<1>6. CallOK(next, filters)
  <2>1. Found(next, filters)
    BY <1>2, <1>3, <1>5 DEF Found
  <2> QED BY <1>2, <1>3, <2>1 DEF CallOK
<1>7. c = "tab" => TabOK(next, editor'.model)
  <2>1. c = "tab" => TabOK(call, editor'.model)
    BY <1>1 DEF FilterInv
  <2>2. call.step # "idle" /\ call.step \in SaveSteps /\ next.step \in SaveSteps
    BY <1>1, <1>3 DEF SaveSteps
  <2> QED BY <1>3, <2>1, <2>2, TabStep
<1>8. Confined(c, filters)
  BY <1>1 DEF Confined
<1>9. IdsOnce(filters, [calls EXCEPT ![c] = next])
  BY <1>1, IdsSame
<1> QED BY <1>1, <1>3, <1>4, <1>6, <1>7, <1>8, <1>9, GoesInv

LEMMA SaveReadsInv ==
    ASSUME FilterInv, NEW c \in Callers, SaveReads(c)
    PROVE  FilterInv'
<1> DEFINE call == calls[c]
<1>1. Steps(c, "read")
  BY DEF SaveReads
<1>2. CASE RowsOf(filters.rows, call.id) = {} /\ filters.made = MaxFilters
  <2>1. Goes(c, [call EXCEPT !.step = "failed"], filters)
    BY <1>2 DEF SaveReads
  <2> QED BY <1>1, <2>1, QuietStep DEF SaveSteps, DeleteSteps
<1>3. CASE RowsOf(filters.rows, call.id) = {} /\ filters.made # MaxFilters
  <2>1. Goes(c, [call EXCEPT !.step = "check", !.id = filters.made + 1, !.renewed = call.id # NoId],
             [filters EXCEPT !.made = @ + 1])
    BY <1>3 DEF SaveReads
  <2> QED BY <1>1, <1>3, <2>1, SaveReadsNew
<1>4. CASE RowsOf(filters.rows, call.id) # {}
  <2>1. PICK r \in RowsOf(filters.rows, call.id) :
           Goes(c, [call EXCEPT !.step = "check", !.old = {r}], filters)
    BY <1>4 DEF SaveReads
  <2> QED BY <1>1, <2>1, SaveReadsRow
<1> QED BY <1>2, <1>3, <1>4

\* the tab's call goes on for the filter the tab edits
LEMMA TabGoesOn ==
    ASSUME FilterInv, NEW c \in Callers, NEW from \in SaveSteps \union DeleteSteps, Steps(c, from),
           NEW next, next.id = calls[c].id, next.copy = calls[c].copy,
           next.turned = calls[c].turned, next.renewed = calls[c].renewed,
           \/ from \in SaveSteps /\ next.step \in SaveSteps
           \/ from \in DeleteSteps /\ next.step \in DeleteSteps
    PROVE  c = "tab" => TabOK(next, editor'.model)
<1> SUFFICES ASSUME c = "tab" PROVE TabOK(next, editor'.model)
  OBVIOUS
<1>1. editor' = editor /\ calls[c].step = from
  BY StepFacts
<1>2. TabOK(calls[c], editor.model)
  BY DEF FilterInv
<1> QED BY <1>1, <1>2 DEF TabOK, SaveSteps, DeleteSteps

LEMMA SaveChecksInv ==
    ASSUME FilterInv, NEW c \in Callers, SaveChecks(c)
    PROVE  FilterInv'
<1> DEFINE call == calls[c]
           next == [call EXCEPT !.step = "insert"]
<1>1. Steps(c, "check")
  BY DEF SaveChecks
<1>2. CASE Taken(call)
  <2>1. Goes(c, [call EXCEPT !.step = "failed"], filters)
    BY <1>2 DEF SaveChecks
  <2> QED BY <1>1, <2>1, QuietStep DEF SaveSteps, DeleteSteps
<1>3. CASE ~Taken(call)
  <2>1. /\ page # NoPage /\ page' = page /\ editor' = editor /\ editor' \in Editors
        /\ edits' \in 0..MaxEdits /\ call.step = "check"
        /\ call \in Calls /\ CallOK(call, filters) /\ TableOK(filters) /\ filters \in FilterTables
    BY <1>1, StepFacts
  <2>2. Goes(c, next, filters)
    BY <1>3 DEF SaveChecks
  <2>3. /\ next \in Calls /\ next.step = "insert" /\ next.id = call.id /\ next.old = call.old
        /\ next.name = call.name
        /\ next.copy = call.copy /\ next.turned = call.turned /\ next.renewed = call.renewed
    BY <2>1 DEF Calls
  <2> HIDE DEF next
  <2>4. Found(next, filters)
    BY <2>1, <2>3 DEF CallOK, Found
  <2>5. Free(next, filters)
    BY <1>3, <2>3 DEF Free, Taken
  <2>6. CallOK(next, filters)
    BY <2>1, <2>3, <2>4, <2>5 DEF CallOK
  <2>7. c = "tab" => TabOK(next, editor'.model)
    BY <1>1, <2>3, TabGoesOn DEF SaveSteps, DeleteSteps
  <2>8. Confined(c, filters)
    BY <2>1 DEF Confined
  <2>9. IdsOnce(filters, [calls EXCEPT ![c] = next])
    BY <2>1, IdsSame
  <2> QED BY <2>1, <2>2, <2>3, <2>6, <2>7, <2>8, <2>9, GoesInv
<1> QED BY <1>2, <1>3

\* the row is written
LEMMA RowWritten ==
    ASSUME FilterInv, NEW c \in Callers, Steps(c, "insert"), NEW step,
           step = IF Renames(calls[c]) THEN "drop" ELSE "saved",
           Goes(c, [calls[c] EXCEPT !.step = step],
                [filters EXCEPT !.rows = @ \union {RowOf(calls[c])}, !.kept = @ \union {calls[c].id}])
    PROVE  FilterInv'
<1> DEFINE call == calls[c]
           next == [call EXCEPT !.step = step]
           row == RowOf(call)
           t == [filters EXCEPT !.rows = @ \union {row}, !.kept = @ \union {call.id}]
           cs == [calls EXCEPT ![c] = next]
<1>1. /\ page # NoPage /\ page' = page /\ editor' = editor /\ editor' \in Editors
      /\ edits' \in 0..MaxEdits /\ call.step = "insert"
      /\ call \in Calls /\ CallOK(call, filters) /\ TableOK(filters) /\ filters \in FilterTables
      /\ calls \in [Callers -> Calls]
  BY StepFacts
<1>2. Found(call, filters) /\ Free(call, filters) /\ \A r, s \in call.old : r.id = call.id /\ r = s
  BY <1>1 DEF CallOK
<1>3. row \in Rows /\ row.id = call.id /\ row.name = call.name
  BY <1>1, <1>2 DEF RowOf, Rows, Calls, Found
<1>4. Goes(c, next, t)
  OBVIOUS
<1> DEFINE rows == filters.rows \union {row}
           kept == filters.kept \union {call.id}
<1>5. rows \subseteq Rows /\ kept \subseteq SavedIds
  BY <1>1, <1>2, <1>3 DEF FilterTables, Found
<1>6. t = [filters EXCEPT !.rows = rows, !.kept = kept]
  BY <1>1 DEF FilterTables
<1>7. /\ step \in {"drop", "saved"} /\ (step = "saved" => ~Renames(call))
      /\ step = "drop" => Renames(call)
  OBVIOUS
<1>8. (\A r \in filters.rows : r \in rows) /\ row \in rows /\ (\A r \in rows : r \in filters.rows \/ r = row)
  OBVIOUS
<1>9. (\A i \in kept : i \in filters.kept \/ i = call.id)
  OBVIOUS
<1> HIDE DEF rows, kept, t
<1>10. /\ t \in FilterTables /\ t.rows = rows /\ t.kept = kept /\ t.raced = filters.raced
       /\ t.contested = filters.contested /\ t.made = filters.made
  BY <1>1, <1>5, <1>6 DEF FilterTables
<1> HIDE DEF call
<1>11. /\ next \in Calls /\ next.step = step /\ next.id = call.id /\ next.old = call.old
       /\ next.name = call.name
       /\ next.copy = call.copy /\ next.turned = call.turned /\ next.renewed = call.renewed
  BY <1>1, <1>7 DEF Calls
<1>12. cs[c] = next /\ \A d \in Callers : d # c => cs[d] = calls[d]
  BY <1>1
<1> HIDE DEF next, row, cs
<1>13. \A r \in rows : r \in Rows
  BY <1>5
<1>14. TableOK(t)
  <2>1. \A r \in t.rows : r.id <= t.made
    BY <1>1, <1>2, <1>3, <1>8, <1>10 DEF TableOK, Found
  <2>2. \A r \in filters.rows : r.name = row.name => r.id = row.id \/ row.name \in filters.contested \union {Unnamed}
    BY <1>2, <1>3 DEF Free
  <2>3. \A r, s \in t.rows : r.name = s.name => r.id = s.id \/ r.name \in t.contested \union {Unnamed}
    BY <1>1, <1>8, <1>10, <2>2 DEF TableOK
  <2>4. \A i \in t.kept : i \in t.raced \/ \E r \in t.rows : r.id = i
    BY <1>1, <1>3, <1>8, <1>9, <1>10 DEF TableOK
  <2> QED BY <1>10, <2>1, <2>3, <2>4 DEF TableOK
<1>15. ASSUME NEW r \in filters.rows, r.id = call.id, call.id \notin filters.raced, r # row
       PROVE  step = "drop"
  <2>1. r \in call.old /\ r \in Rows
    BY <1>1, <1>2, <1>15 DEF Found, FilterTables
  <2>2. r.name # call.name
    BY <1>3, <1>15, <2>1 DEF Rows
  <2>3. Renames(call)
    BY <2>1, <2>2 DEF Renames
  <2> QED BY <1>7, <2>3
<1>16. IdsOnce(t, cs)
  <2> SUFFICES ASSUME NEW r \in rows, NEW s \in rows, r.id = s.id, r # s, r.id \notin filters.raced
               PROVE  \E d \in Callers : cs[d].step = "drop" /\ cs[d].id = r.id
    BY <1>10 DEF IdsOnce
  <2>1. CASE r \in filters.rows /\ s \in filters.rows
    <3>1. PICK d \in Callers : calls[d].step = "drop" /\ calls[d].id = r.id
      BY <2>1 DEF FilterInv, IdsOnce
    <3>2. d # c
      BY <1>1, <3>1 DEF call
    <3> QED BY <1>12, <3>1, <3>2
  <2>2. CASE r = row \/ s = row
    <3>1. r.id = call.id
      BY <1>3, <2>2
    <3>2. step = "drop"
      BY <1>8, <1>15, <2>2, <3>1
    <3> QED BY <1>11, <1>12, <3>1, <3>2
  <2> QED BY <1>8, <2>1, <2>2
<1>17. CallOK(next, t)
  <2>1. step = "drop" => Renaming(next, t)
    <3> SUFFICES ASSUME step = "drop" PROVE Renaming(next, t)
      OBVIOUS
    <3>1. PICK r \in call.old : r.name # call.name
      BY <1>7 DEF Renames
    <3>2. RowOf(next) = row
      BY <1>11 DEF RowOf, row
    <3>3. row \notin call.old
      BY <1>2, <1>3, <3>1
    <3>4. \A s \in t.rows : s.id = call.id => call.id \in t.raced \/ s \in call.old \union {row}
      BY <1>2, <1>8, <1>10 DEF Found
    <3>5. call.id \in SavedIds
      BY <1>2 DEF Found
    <3> QED BY <1>8, <1>10, <1>11, <3>2, <3>3, <3>4, <3>5 DEF Renaming
  <2> QED BY <1>2, <1>7, <1>11, <2>1 DEF CallOK
<1>18. c = "tab" => TabOK(next, editor'.model)
  BY <1>7, <1>11, TabGoesOn DEF SaveSteps, DeleteSteps, call
<1>19. Confined(c, t)
  <2>1. call.id \in SavedIds
    BY <1>2 DEF Found
  <2> QED BY <1>1, <1>8, <1>9, <1>10, <2>1 DEF Confined, row, call
<1>20. next.step # "idle"
  BY <1>7, <1>11
<1> QED BY <1>1, <1>4, <1>11, <1>14, <1>16, <1>17, <1>18, <1>19, <1>20, GoesInv DEF cs

LEMMA SaveInsertsInv ==
    ASSUME FilterInv, NEW c \in Callers, SaveInserts(c)
    PROVE  FilterInv'
<1> DEFINE call == calls[c]
           step == IF Renames(call) THEN "drop" ELSE "saved"
<1>1. Steps(c, "insert")
  BY DEF SaveInserts
<1>2. CASE Goes(c, [call EXCEPT !.step = step],
                [filters EXCEPT !.rows = @ \union {RowOf(call)}, !.kept = @ \union {call.id}])
  <2>1. step = IF Renames(call) THEN "drop" ELSE "saved"
    OBVIOUS
  <2> HIDE DEF step
  <2> QED BY <1>1, <1>2, <2>1, RowWritten
<1>3. CASE Goes(c, [call EXCEPT !.step = "failed"], filters)
  BY <1>1, <1>3, QuietStep DEF SaveSteps, DeleteSteps
<1> QED BY <1>2, <1>3 DEF SaveInserts, RowOf

\* the old row is dropped
LEMMA OldRowDropped ==
    ASSUME FilterInv, NEW c \in Callers, Steps(c, "drop"),
           Goes(c, [calls[c] EXCEPT !.step = "saved"], [filters EXCEPT !.rows = @ \ calls[c].old])
    PROVE  FilterInv'
<1> DEFINE call == calls[c]
           next == [call EXCEPT !.step = "saved"]
           rows == filters.rows \ call.old
           t == [filters EXCEPT !.rows = rows]
           cs == [calls EXCEPT ![c] = next]
<1>1. /\ page # NoPage /\ page' = page /\ editor' = editor /\ editor' \in Editors
      /\ edits' \in 0..MaxEdits /\ call.step = "drop"
      /\ call \in Calls /\ CallOK(call, filters) /\ TableOK(filters) /\ filters \in FilterTables
      /\ calls \in [Callers -> Calls]
  BY StepFacts
<1>2. Renaming(call, filters) /\ \A r, s \in call.old : r.id = call.id /\ r = s
  BY <1>1 DEF CallOK
<1>3. Goes(c, next, t)
  BY <1>1 DEF FilterTables
<1>4. rows \subseteq Rows /\ (\A r \in rows : r \in filters.rows)
  BY <1>1 DEF FilterTables
<1>5. \A r \in filters.rows : r \in rows \/ r \in call.old
  OBVIOUS
<1>6. \A r \in rows : r \notin call.old
  OBVIOUS
<1> HIDE DEF rows
<1>7. /\ t \in FilterTables /\ t.rows = rows /\ t.kept = filters.kept /\ t.raced = filters.raced
      /\ t.contested = filters.contested /\ t.made = filters.made
  BY <1>1, <1>4 DEF FilterTables
<1> HIDE DEF t, call
<1>8. /\ next \in Calls /\ next.step = "saved" /\ next.id = call.id /\ next.old = call.old
      /\ next.name = call.name
      /\ next.copy = call.copy /\ next.turned = call.turned /\ next.renewed = call.renewed
  BY <1>1 DEF Calls
<1>9. cs[c] = next /\ \A d \in Callers : d # c => cs[d] = calls[d]
  BY <1>1
<1> HIDE DEF next, cs
<1>10. TableOK(t)
  <2>1. ASSUME NEW i \in filters.kept, i \notin filters.raced PROVE \E r \in rows : r.id = i
    <3>1. CASE i = call.id
      <4>1. RowOf(call) \in filters.rows /\ RowOf(call) \notin call.old /\ RowOf(call).id = call.id
        BY <1>2, <2>1, <3>1 DEF Renaming, RowOf
      <4> QED BY <1>5, <3>1, <4>1
    <3>2. CASE i # call.id
      <4>1. PICK r \in filters.rows : r.id = i
        BY <1>1, <2>1 DEF TableOK
      <4> QED BY <1>2, <1>5, <3>2, <4>1
    <3> QED BY <3>1, <3>2
  <2> QED BY <1>1, <1>4, <1>7, <2>1 DEF TableOK
<1>11. IdsOnce(t, cs)
  <2> SUFFICES ASSUME NEW r \in rows, NEW s \in rows, r.id = s.id, r # s, r.id \notin filters.raced
               PROVE  \E d \in Callers : cs[d].step = "drop" /\ cs[d].id = r.id
    BY <1>7 DEF IdsOnce
  <2>1. PICK d \in Callers : calls[d].step = "drop" /\ calls[d].id = r.id
    BY <1>4 DEF FilterInv, IdsOnce
  <2>2. d # c
    <3> SUFFICES ASSUME r.id = call.id PROVE FALSE
      BY <2>1 DEF call
    <3>1. r = RowOf(call) /\ s = RowOf(call)
      BY <1>2, <1>4, <1>6 DEF Renaming
    <3> QED BY <3>1
  <2> QED BY <1>9, <2>1, <2>2
<1>12. CallOK(next, t)
  BY <1>2, <1>8 DEF CallOK
<1>13. c = "tab" => TabOK(next, editor'.model)
  BY <1>8, TabGoesOn DEF SaveSteps, DeleteSteps, call
<1>14. Confined(c, t)
  <2>1. call.id \in SavedIds
    BY <1>2 DEF Renaming
  <2>2. \A r \in filters.rows : r.id # call.id => r \in rows
    BY <1>2, <1>5
  <2> QED BY <1>1, <1>4, <1>7, <2>1, <2>2 DEF Confined, call
<1> QED BY <1>1, <1>3, <1>8, <1>10, <1>11, <1>12, <1>13, <1>14, GoesInv DEF cs

\* the old row stays
LEMMA OldRowStays ==
    ASSUME FilterInv, NEW c \in Callers, Steps(c, "drop"), NEW step \in {"saved", "failed"},
           Goes(c, [calls[c] EXCEPT !.step = step], [filters EXCEPT !.raced = @ \union {calls[c].id}])
    PROVE  FilterInv'
<1> DEFINE call == calls[c]
           next == [call EXCEPT !.step = step]
           raced == filters.raced \union {call.id}
           t == [filters EXCEPT !.raced = raced]
           cs == [calls EXCEPT ![c] = next]
<1>1. /\ page # NoPage /\ page' = page /\ editor' = editor /\ editor' \in Editors
      /\ edits' \in 0..MaxEdits /\ call.step = "drop"
      /\ call \in Calls /\ CallOK(call, filters) /\ TableOK(filters) /\ filters \in FilterTables
      /\ calls \in [Callers -> Calls]
  BY StepFacts
<1>2. Renaming(call, filters) /\ \A r, s \in call.old : r.id = call.id /\ r = s
  BY <1>1 DEF CallOK
<1>3. Goes(c, next, t)
  BY <1>1 DEF FilterTables
<1>4. raced \subseteq SavedIds /\ call.id \in raced /\ \A i \in filters.raced : i \in raced
  BY <1>1, <1>2 DEF FilterTables, Renaming
<1> HIDE DEF raced
<1>5. /\ t \in FilterTables /\ t.rows = filters.rows /\ t.kept = filters.kept /\ t.raced = raced
      /\ t.contested = filters.contested /\ t.made = filters.made
  BY <1>1, <1>4 DEF FilterTables
<1> HIDE DEF t, call
<1>6. /\ next \in Calls /\ next.step = step /\ next.id = call.id /\ next.old = call.old
      /\ next.name = call.name
      /\ next.copy = call.copy /\ next.turned = call.turned /\ next.renewed = call.renewed
  BY <1>1 DEF Calls
<1>7. cs[c] = next /\ \A d \in Callers : d # c => cs[d] = calls[d]
  BY <1>1
<1> HIDE DEF next, cs
<1>8. TableOK(t)
  BY <1>1, <1>4, <1>5 DEF TableOK
<1>9. IdsOnce(t, cs)
  <2> SUFFICES ASSUME NEW r \in filters.rows, NEW s \in filters.rows, r.id = s.id, r # s, r.id \notin raced
               PROVE  \E d \in Callers : cs[d].step = "drop" /\ cs[d].id = r.id
    BY <1>5 DEF IdsOnce
  <2>1. PICK d \in Callers : calls[d].step = "drop" /\ calls[d].id = r.id
    BY <1>4 DEF FilterInv, IdsOnce
  <2>2. d # c
    BY <1>4, <2>1 DEF call
  <2> QED BY <1>7, <2>1, <2>2
<1>10. CallOK(next, t)
  BY <1>2, <1>6 DEF CallOK
<1>11. c = "tab" => TabOK(next, editor'.model)
  BY <1>6, TabGoesOn DEF SaveSteps, DeleteSteps, call
<1>12. Confined(c, t)
  BY <1>1, <1>4, <1>5 DEF Confined
<1>13. next.step # "idle"
  BY <1>6
<1> QED BY <1>1, <1>3, <1>6, <1>8, <1>9, <1>10, <1>11, <1>12, <1>13, GoesInv DEF cs

LEMMA SaveDropsInv ==
    ASSUME FilterInv, NEW c \in Callers, SaveDrops(c)
    PROVE  FilterInv'
<1> DEFINE call == calls[c]
<1>1. Steps(c, "drop")
  BY DEF SaveDrops
<1>2. call \in Calls
  BY <1>1, StepFacts
<1>3. CASE Goes(c, [call EXCEPT !.step = "saved"], [filters EXCEPT !.rows = @ \ call.old])
  BY <1>1, <1>3, OldRowDropped
<1>4. CASE \E step \in {"saved", "failed"} :
              Goes(c, [call EXCEPT !.step = step], [filters EXCEPT !.raced = @ \union {call.id}])
  BY <1>1, <1>4, OldRowStays
<1>5. /\ [call EXCEPT !.step = "saved"].old = call.old
      /\ [call EXCEPT !.step = "saved"].id = call.id
  BY <1>2 DEF Calls
<1>6. ASSUME NEW step
      PROVE  [[call EXCEPT !.step = "saved"] EXCEPT !.step = step] = [call EXCEPT !.step = step]
  BY <1>2 DEF Calls
<1> QED BY <1>1, <1>3, <1>4, <1>5, <1>6 DEF SaveDrops

\* the filter is looked up to be deleted
LEMMA RowFound ==
    ASSUME FilterInv, NEW c \in Callers, Steps(c, "deleteRead"),
           NEW r \in RowsOf(filters.rows, calls[c].id),
           Goes(c, [calls[c] EXCEPT !.step = "deleteDrop", !.old = {r}],
                [filters EXCEPT !.kept = @ \ {calls[c].id}])
    PROVE  FilterInv'
<1> DEFINE call == calls[c]
           next == [call EXCEPT !.step = "deleteDrop", !.old = {r}]
           kept == filters.kept \ {call.id}
           t == [filters EXCEPT !.kept = kept]
<1>1. /\ page # NoPage /\ page' = page /\ editor' = editor /\ editor' \in Editors
      /\ edits' \in 0..MaxEdits /\ call.step = "deleteRead"
      /\ call \in Calls /\ CallOK(call, filters) /\ TableOK(filters) /\ filters \in FilterTables
      /\ calls \in [Callers -> Calls]
  BY StepFacts
<1>2. r \in Rows /\ r.id = call.id /\ r.id \in SavedIds
  BY <1>1 DEF RowsOf, FilterTables, Rows
<1>3. Goes(c, next, t)
  BY <1>1 DEF FilterTables
<1>4. kept \subseteq SavedIds /\ call.id \notin kept /\ \A i \in kept : i \in filters.kept
  BY <1>1 DEF FilterTables
<1> HIDE DEF kept
<1>5. /\ t \in FilterTables /\ t.rows = filters.rows /\ t.kept = kept /\ t.raced = filters.raced
      /\ t.contested = filters.contested /\ t.made = filters.made
  BY <1>1, <1>4 DEF FilterTables
<1> HIDE DEF t
<1>6. /\ next \in Calls /\ next.step = "deleteDrop" /\ next.id = call.id /\ next.old = {r}
      /\ next.copy = call.copy /\ next.turned = call.turned /\ next.renewed = call.renewed
  BY <1>1, <1>2 DEF Calls
<1> HIDE DEF next
<1>7. TableOK(t)
  BY <1>1, <1>4, <1>5 DEF TableOK
<1>8. CallOK(next, t)
  BY <1>2, <1>4, <1>5, <1>6 DEF CallOK
<1>9. c = "tab" => TabOK(next, editor'.model)
  BY <1>6, TabGoesOn DEF SaveSteps, DeleteSteps
<1>10. Confined(c, t)
  BY <1>1, <1>4, <1>5 DEF Confined
<1>11. IdsOnce(t, [calls EXCEPT ![c] = next])
  BY <1>1, <1>5, IdsSame
<1> QED BY <1>1, <1>3, <1>6, <1>7, <1>8, <1>9, <1>10, <1>11, GoesInv

LEMMA DeleteReadsInv ==
    ASSUME FilterInv, NEW c \in Callers, DeleteReads(c)
    PROVE  FilterInv'
<1> DEFINE call == calls[c]
<1>1. Steps(c, "deleteRead")
  BY DEF DeleteReads
<1>2. CASE Goes(c, [call EXCEPT !.step = "refused"], filters)
  BY <1>1, <1>2, QuietStep DEF SaveSteps, DeleteSteps
<1>3. CASE Goes(c, [call EXCEPT !.step = "deleted"], filters)
  BY <1>1, <1>3, QuietStep DEF SaveSteps, DeleteSteps
<1>4. CASE \E r \in RowsOf(filters.rows, call.id) :
             Goes(c, [call EXCEPT !.step = "deleteDrop", !.old = {r}], [filters EXCEPT !.kept = @ \ {call.id}])
  BY <1>1, <1>4, RowFound
<1> QED BY <1>2, <1>3, <1>4 DEF DeleteReads

\* the row of a filter that is deleted is dropped
LEMMA RowDropped ==
    ASSUME FilterInv, NEW c \in Callers, Steps(c, "deleteDrop"), NEW step \in {"deleted", "refused"},
           Goes(c, [calls[c] EXCEPT !.step = step], [filters EXCEPT !.rows = @ \ calls[c].old])
    PROVE  FilterInv'
<1> DEFINE call == calls[c]
           next == [call EXCEPT !.step = step]
           rows == filters.rows \ call.old
           t == [filters EXCEPT !.rows = rows]
           cs == [calls EXCEPT ![c] = next]
<1>1. /\ page # NoPage /\ page' = page /\ editor' = editor /\ editor' \in Editors
      /\ edits' \in 0..MaxEdits /\ call.step = "deleteDrop"
      /\ call \in Calls /\ CallOK(call, filters) /\ TableOK(filters) /\ filters \in FilterTables
      /\ calls \in [Callers -> Calls]
  BY StepFacts
<1>2. /\ call.id \in SavedIds /\ (call.id \in filters.raced \/ call.id \notin filters.kept)
      /\ \A r, s \in call.old : r.id = call.id /\ r = s
  BY <1>1 DEF CallOK
<1>3. Goes(c, next, t)
  BY <1>1 DEF FilterTables
<1>4. rows \subseteq Rows /\ (\A r \in rows : r \in filters.rows)
  BY <1>1 DEF FilterTables
<1>5. \A r \in filters.rows : r \in rows \/ r \in call.old
  OBVIOUS
<1> HIDE DEF rows
<1>6. /\ t \in FilterTables /\ t.rows = rows /\ t.kept = filters.kept /\ t.raced = filters.raced
      /\ t.contested = filters.contested /\ t.made = filters.made
  BY <1>1, <1>4 DEF FilterTables
<1> HIDE DEF t, call
<1>7. /\ next \in Calls /\ next.step = step /\ next.id = call.id /\ next.old = call.old
      /\ next.copy = call.copy /\ next.turned = call.turned /\ next.renewed = call.renewed
  BY <1>1 DEF Calls
<1>8. cs[c] = next /\ \A d \in Callers : d # c => cs[d] = calls[d]
  BY <1>1
<1> HIDE DEF next, cs
<1>9. TableOK(t)
  <2>1. ASSUME NEW i \in filters.kept, i \notin filters.raced PROVE \E r \in rows : r.id = i
    <3>1. PICK r \in filters.rows : r.id = i
      BY <1>1, <2>1 DEF TableOK
    <3> QED BY <1>2, <1>5, <2>1, <3>1
  <2> QED BY <1>1, <1>4, <1>6, <2>1 DEF TableOK
<1>10. IdsOnce(t, cs)
  <2> SUFFICES ASSUME NEW r \in rows, NEW s \in rows, r.id = s.id, r # s, r.id \notin filters.raced
               PROVE  \E d \in Callers : cs[d].step = "drop" /\ cs[d].id = r.id
    BY <1>6 DEF IdsOnce
  <2>1. PICK d \in Callers : calls[d].step = "drop" /\ calls[d].id = r.id
    BY <1>4 DEF FilterInv, IdsOnce
  <2>2. d # c
    BY <1>1, <2>1 DEF call
  <2> QED BY <1>8, <2>1, <2>2
<1>11. CallOK(next, t)
  BY <1>2, <1>7 DEF CallOK
<1>12. c = "tab" => TabOK(next, editor'.model)
  BY <1>7, TabGoesOn DEF SaveSteps, DeleteSteps, call
<1>13. Confined(c, t)
  <2>1. \A r \in filters.rows : r.id # call.id => r \in rows
    BY <1>2, <1>5
  <2> QED BY <1>1, <1>2, <1>4, <1>6, <2>1 DEF Confined, call
<1>14. next.step # "idle"
  BY <1>7
<1> QED BY <1>1, <1>3, <1>7, <1>9, <1>10, <1>11, <1>12, <1>13, <1>14, GoesInv DEF cs

LEMMA DeleteDropsInv ==
    ASSUME FilterInv, NEW c \in Callers, DeleteDrops(c)
    PROVE  FilterInv'
<1> DEFINE call == calls[c]
           step == IF call.old \subseteq filters.rows THEN "deleted" ELSE "refused"
<1>1. Steps(c, "deleteDrop")
  BY DEF DeleteDrops
<1>2. CASE Goes(c, [call EXCEPT !.step = step], [filters EXCEPT !.rows = @ \ call.old])
  <2>1. step \in {"deleted", "refused"}
    OBVIOUS
  <2> HIDE DEF step
  <2> QED BY <1>1, <1>2, <2>1, RowDropped
<1>3. CASE Goes(c, [call EXCEPT !.step = "refused"], filters)
  BY <1>1, <1>3, QuietStep DEF SaveSteps, DeleteSteps
<1> QED BY <1>2, <1>3 DEF DeleteDrops

LEMMA ServiceInv ==
    ASSUME FilterInv, NEW c \in Callers, ServiceSteps(c)
    PROVE  FilterInv'
  BY SaveReadsInv, SaveChecksInv, SaveInsertsInv, SaveDropsInv, DeleteReadsInv, DeleteDropsInv
     DEF ServiceSteps

-----------------------------------------------------------------------------
(* The editor *)

LEMMA TurnedIs ==
    ASSUME FilterInv
    PROVE  /\ Turned \in [Callers -> Calls] /\ Turned["other"] = calls["other"]
           /\ Turned["tab"].step # "idle" => Turned["tab"].turned
           /\ Turned["tab"].step = calls["tab"].step /\ Turned["tab"].id = calls["tab"].id
           /\ Turned["tab"].name = calls["tab"].name /\ Turned["tab"].old = calls["tab"].old
           /\ Turned["tab"].renewed = calls["tab"].renewed
<1>1. calls \in [Callers -> Calls] /\ calls["tab"] \in Calls /\ "tab" \in Callers /\ "other" \in Callers
  BY FilterFacts DEF FilterInv
<1>2. CASE Idle("tab")
  BY <1>1, <1>2 DEF Turned, Idle
<1>3. CASE ~Idle("tab")
  <2> DEFINE next == [calls["tab"] EXCEPT !.turned = TRUE]
  <2>1. /\ next \in Calls /\ next.turned /\ next.step = calls["tab"].step /\ next.id = calls["tab"].id
        /\ next.name = calls["tab"].name /\ next.old = calls["tab"].old
        /\ next.renewed = calls["tab"].renewed
    BY <1>1 DEF Calls
  <2>2. Turned = [calls EXCEPT !["tab"] = next]
    BY <1>1, <1>3 DEF Turned
  <2> HIDE DEF next
  <2> QED BY <1>1, <2>1, <2>2
<1> QED BY <1>2, <1>3

\* what holds of a call does not look at what the tab edits
LEMMA SameCall ==
    ASSUME NEW call, NEW next, NEW t, CallOK(call, t), next.step = call.step, next.id = call.id,
           next.name = call.name, next.old = call.old, next.renewed = call.renewed
    PROVE  CallOK(next, t)
  BY DEF CallOK, Found, Free, Renaming, RowOf

LEMMA EditorStep ==
    ASSUME FilterInv, OnFilters, page' = page, filters' = filters, editor' \in Editors,
           edits' \in 0..MaxEdits,
           (calls' = calls /\ TabOK(calls["tab"], editor'.model)) \/ calls' = Turned
    PROVE  FilterInv'
<1>1. page # NoPage
  BY DEF OnFilters, On, NoPage
<1>2. CASE calls' = calls /\ TabOK(calls["tab"], editor'.model)
  BY <1>1, <1>2 DEF FilterInv
<1>3. CASE calls' = Turned
  <2>1. /\ calls' \in [Callers -> Calls] /\ calls'["other"] = calls["other"]
        /\ calls'["tab"].step # "idle" => calls'["tab"].turned
        /\ calls'["tab"].step = calls["tab"].step /\ calls'["tab"].id = calls["tab"].id
        /\ calls'["tab"].name = calls["tab"].name /\ calls'["tab"].old = calls["tab"].old
        /\ calls'["tab"].renewed = calls["tab"].renewed
    BY <1>3, TurnedIs
  <2>2. \A c \in Callers : /\ calls'[c].step = calls[c].step /\ calls'[c].id = calls[c].id
                           /\ calls'[c].name = calls[c].name
    BY <2>1 DEF Callers
  <2>3. ASSUME NEW c \in Callers PROVE CallOK(calls'[c], filters)
    <3>1. CallOK(calls[c], filters)
      BY DEF FilterInv
    <3>2. CASE c = "tab"
      BY <2>1, <3>1, <3>2, SameCall
    <3>3. CASE c = "other"
      BY <2>1, <3>1, <3>3
    <3> QED BY <3>2, <3>3 DEF Callers
  <2>4. TabOK(calls'["tab"], editor'.model)
    BY <2>1 DEF TabOK
  <2>5. IdsOnce(filters, calls')
    BY <2>2 DEF FilterInv, IdsOnce
  <2>6. Apart(filters, calls')
    BY <2>1, <2>2, FilterFacts DEF FilterInv, Apart
  <2>7. TableOK(filters')
    BY DEF FilterInv
  <2> QED BY <1>1, <2>1, <2>3, <2>4, <2>5, <2>6, <2>7 DEF FilterInv
<1> QED BY <1>2, <1>3

LEMMA EditCounts ==
    ASSUME FilterInv, Edit PROVE OnFilters /\ edits' \in 0..MaxEdits
<1>1. edits \in Nat /\ MaxEdits \in Nat /\ edits' = edits + 1 /\ edits < MaxEdits
  BY FiltersAssumption DEF FilterInv, Edit
<1> QED BY <1>1 DEF Edit

\* only the id of what the tab edits matters
LEMMA SameModel ==
    ASSUME FilterInv, editor'.model.id = editor.model.id
    PROVE  TabOK(calls["tab"], editor'.model)
  BY DEF FilterInv, TabOK

LEMMA ModelFacts ==
    /\ NewModel \in Models /\ NoModel \in Models
    /\ NewModel.id = NoId
  BY FilterFacts DEF NewModel, NoModel, Models

LEMMA ShowPanelInv == ASSUME FilterInv, ShowPanel PROVE FilterInv'
<1>0. editor \in Editors
  BY DEF FilterInv
<1>1. OnFilters /\ edits' \in 0..MaxEdits /\ page' = page /\ filters' = filters
  BY EditCounts DEF ShowPanel, Edits
<1>2. CASE editor.model.id = AllDevices
  <2>1. editor' = [editor EXCEPT !.panel = TRUE, !.backup = editor.model, !.model = NewModel]
        /\ calls' = Turned
    BY <1>2 DEF ShowPanel, Edits
  <2>2. editor' \in Editors
    BY <1>0, <2>1, ModelFacts DEF Editors
  <2> QED BY <1>1, <2>1, <2>2, EditorStep
<1>3. CASE editor.model.id # AllDevices
  <2>1. editor' = [editor EXCEPT !.panel = TRUE, !.backup = editor.model] /\ calls' = calls
    BY <1>3 DEF ShowPanel, Edits
  <2>2. editor' \in Editors /\ editor'.model = editor.model
    BY <1>0, <2>1 DEF Editors
  <2> QED BY <1>1, <2>1, <2>2, SameModel, EditorStep
<1> QED BY <1>2, <1>3

LEMMA EditClausesInv == ASSUME FilterInv, EditClauses PROVE FilterInv'
<1>0. editor \in Editors
  BY DEF FilterInv
<1>1. /\ OnFilters /\ edits' \in 0..MaxEdits /\ page' = page /\ filters' = filters /\ calls' = calls
      /\ editor' = [editor EXCEPT !.model.changed = TRUE]
  BY EditCounts DEF EditClauses, Edits
<1>2. editor' \in Editors /\ editor'.model.id = editor.model.id
  BY <1>0, <1>1 DEF Editors, Models
<1> QED BY <1>1, <1>2, SameModel, EditorStep

LEMMA EditFilterNameInv == ASSUME FilterInv, NEW n \in Names, EditFilterName(n) PROVE FilterInv'
<1>0. editor \in Editors
  BY DEF FilterInv
<1>1. /\ OnFilters /\ edits' \in 0..MaxEdits /\ page' = page /\ filters' = filters /\ calls' = calls
      /\ editor' = [editor EXCEPT !.model.name = n, !.model.changed = TRUE]
  BY EditCounts DEF EditFilterName, Edits
<1>2. editor' \in Editors /\ editor'.model.id = editor.model.id
  BY <1>0, <1>1 DEF Editors, Models
<1> QED BY <1>1, <1>2, SameModel, EditorStep

LEMMA ExecuteFilterInv == ASSUME FilterInv, ExecuteFilter PROVE FilterInv'
<1>0. editor \in Editors /\ editor.model.changed \in BOOLEAN
  BY DEF FilterInv, Editors, Models
<1>1. OnFilters /\ edits' \in 0..MaxEdits /\ page' = page /\ filters' = filters /\ calls' = calls
  BY EditCounts DEF ExecuteFilter, Edits
<1>2. PICK changed \in {editor.model.changed, TRUE} :
         editor' = [editor EXCEPT !.panel = FALSE, !.backup = NoModel, !.model.changed = changed]
  BY DEF ExecuteFilter, Edits
<1>3. changed \in BOOLEAN
  BY <1>0
<1>4. editor' \in Editors /\ editor'.model.id = editor.model.id
  BY <1>0, <1>2, <1>3, ModelFacts DEF Editors, Models
<1> QED BY <1>1, <1>4, SameModel, EditorStep

LEMMA CancelEditInv == ASSUME FilterInv, CancelEdit PROVE FilterInv'
<1>0. editor \in Editors
  BY DEF FilterInv
<1>1. /\ OnFilters /\ edits' \in 0..MaxEdits /\ page' = page /\ filters' = filters
      /\ editor' = [editor EXCEPT !.panel = FALSE, !.backup = NoModel, !.model = editor.backup]
      /\ calls' = IF editor.backup.id = editor.model.id THEN calls ELSE Turned
  BY EditCounts DEF CancelEdit, Edits
<1>2. editor' \in Editors /\ editor'.model = editor.backup
  BY <1>0, <1>1, ModelFacts DEF Editors
<1> QED BY <1>1, <1>2, SameModel, EditorStep

LEMMA MadeIds == ASSUME FilterInv PROVE Made \subseteq FilterIds /\ Made \subseteq EditorIds
<1>1. filters.made \in 1..MaxFilters
  BY DEF FilterInv, TableOK, FilterTables, FilterIds
<1> QED BY <1>1, FilterFacts DEF Made, FilterIds, SavedIds, EditorIds

LEMMA LoadFilterInv ==
    ASSUME FilterInv, NEW id \in Made \union {AllDevices}, LoadFilter(id) PROVE FilterInv'
<1>0. editor \in Editors /\ id \in EditorIds
  BY MadeIds, FilterFacts DEF FilterInv
<1>1. /\ OnFilters /\ edits' \in 0..MaxEdits /\ page' = page /\ filters' = filters /\ calls' = calls
      /\ editor' = [editor EXCEPT !.finds = @ \union {id}]
  BY EditCounts DEF LoadFilter, Edits
<1>2. editor' \in Editors /\ editor'.model = editor.model
  BY <1>0, <1>1 DEF Editors
<1> QED BY <1>1, <1>2, SameModel, EditorStep

LEMMA FilterFoundInv == ASSUME FilterInv, NEW id \in EditorIds, FilterFound(id) PROVE FilterInv'
<1>0. editor \in Editors /\ edits \in 0..MaxEdits
  BY DEF FilterInv
<1> DEFINE jobs == id \in filters.jobs
           model == [NewModel EXCEPT !.id = id, !.fromServer = TRUE, !.changed = FALSE, !.jobs = jobs]
           found == [editor EXCEPT !.finds = @ \ {id}, !.model = model]
<1>1. /\ OnFilters /\ edits' = edits /\ calls' = Turned
      /\ \E r \in RowsOf(filters.rows, id) : /\ editor' = [found EXCEPT !.model.name = r.name]
                                             /\ page' = page /\ filters' = filters
  BY DEF FilterFound, Edits
<1>2. PICK r \in RowsOf(filters.rows, id) : editor' = [found EXCEPT !.model.name = r.name]
  BY <1>1
<1>3. r.name \in Names
  BY DEF RowsOf, FilterInv, TableOK, FilterTables, Rows
<1>4. jobs \in BOOLEAN
  OBVIOUS
<1> HIDE DEF jobs
<1>5. model \in Models
  BY <1>4, ModelFacts DEF Models
<1> HIDE DEF model
<1>6. found \in Editors
  BY <1>0, <1>5 DEF Editors
<1> HIDE DEF found
<1>7. editor' \in Editors
  BY <1>2, <1>3, <1>6 DEF Editors, Models
<1> QED BY <1>0, <1>1, <1>7, EditorStep

LEMMA FilterNotFoundInv == ASSUME FilterInv, NEW id \in EditorIds, FilterNotFound(id) PROVE FilterInv'
<1>0. editor \in Editors /\ edits \in 0..MaxEdits
  BY DEF FilterInv
<1>1. /\ OnFilters /\ edits' = edits /\ page' = page /\ filters' = filters /\ calls' = calls
      /\ editor' = [editor EXCEPT !.finds = @ \ {id}]
  BY DEF FilterNotFound, Edits
<1>2. editor' \in Editors /\ editor'.model = editor.model
  BY <1>0, <1>1 DEF Editors
<1> QED BY <1>0, <1>1, <1>2, SameModel, EditorStep

-----------------------------------------------------------------------------
(* Calls start *)

\* a call starts with a look at the table
LEMMA CallStarts ==
    ASSUME FilterInv, NEW c \in Callers, calls[c].step = "idle", OnFilters, page' = page,
           NEW call \in Calls, call.step \in {"read", "deleteRead"}, call.old = {}, ~call.renewed,
           Goes(c, call, filters), editor' \in Editors, edits' \in 0..MaxEdits,
           c = "tab" => TabOK(call, editor'.model),
           c = "other" => editor' = editor
    PROVE  FilterInv'
<1>1. page # NoPage /\ TableOK(filters) /\ filters \in FilterTables
  BY DEF OnFilters, On, NoPage, FilterInv, TableOK
<1>2. Confined(c, filters)
  BY <1>1 DEF Confined
<1>3. IdsOnce(filters, [calls EXCEPT ![c] = call])
  BY IdsSame
<1>4. CallOK(call, filters) /\ call.step # "idle"
  BY DEF CallOK
<1> QED BY <1>1, <1>2, <1>3, <1>4, GoesInv

LEMMA SavingIs ==
    ASSUME NEW m \in Models
    PROVE  /\ Saving(m) \in Calls /\ Saving(m).step = "read" /\ Saving(m).old = {}
           /\ ~Saving(m).renewed /\ Saving(m).id = m.id /\ Saving(m).name = m.name
  BY FilterFacts DEF Saving, IdleCall, Calls, Models

LEMMA DeletingIs ==
    ASSUME NEW id \in EditorIds, NEW force \in BOOLEAN
    PROVE  /\ Deleting(id, force) \in Calls /\ Deleting(id, force).step = "deleteRead"
           /\ Deleting(id, force).old = {} /\ ~Deleting(id, force).renewed
           /\ Deleting(id, force).id = id /\ Deleting(id, force).name = Unnamed
  BY FilterFacts DEF Deleting, IdleCall, Calls

LEMMA AsksInv ==
    ASSUME FilterInv, NEW call \in Calls, NEW e \in Editors, Asks(call, e),
           call.step \in {"read", "deleteRead"}, call.old = {}, ~call.renewed,
           TabOK(call, e.model)
    PROVE  FilterInv'
<1>1. /\ OnFilters /\ edits' \in 0..MaxEdits /\ calls["tab"].step = "idle" /\ editor' = e
      /\ Goes("tab", call, filters) /\ page' = page /\ "tab" \in Callers
  BY EditCounts, FilterFacts DEF Asks, Idle
<1>2. "tab" # "other"
  OBVIOUS
<1> QED BY <1>1, <1>2, CallStarts

LEMMA SavesInv == ASSUME FilterInv, SaveFilter \/ SaveFilterIfNeeded PROVE FilterInv'
<1> DEFINE e == [editor EXCEPT !.loader = TRUE]
           call == Saving(editor.model)
<1>1. editor \in Editors /\ editor.model \in Models
  BY DEF FilterInv, Editors
<1>2. Asks(call, e)
  BY DEF SaveFilter, SaveFilterIfNeeded
<1>3. e \in Editors /\ e.model = editor.model
  BY <1>1 DEF Editors
<1>4. /\ call \in Calls /\ call.step = "read" /\ call.old = {} /\ ~call.renewed
      /\ call.id = editor.model.id
  BY <1>1, SavingIs
<1> HIDE DEF e, call
<1>5. TabOK(call, e.model)
  BY <1>3, <1>4 DEF TabOK, DeleteSteps
<1> QED BY <1>2, <1>3, <1>4, <1>5, AsksInv

LEMMA SaveAsInv == ASSUME FilterInv, NEW n \in FilterNames, SaveAsFilter(n) PROVE FilterInv'
<1> DEFINE model == [editor.model EXCEPT !.id = NoId, !.name = n]
           e == [editor EXCEPT !.model = model, !.loader = TRUE]
           call == [Saving(model) EXCEPT !.copy = TRUE]
<1>1. editor \in Editors /\ editor.model \in Models /\ n \in Names
  BY DEF FilterInv, Editors, Names
<1>2. Asks(call, e)
  BY DEF SaveAsFilter
<1>3. model \in Models
  BY <1>1, FilterFacts DEF Models
<1> HIDE DEF model
<1>4. e \in Editors
  BY <1>1, <1>3 DEF Editors
<1>5. /\ call \in Calls /\ call.step = "read" /\ call.old = {} /\ ~call.renewed /\ call.copy
  BY <1>3, SavingIs DEF Calls
<1> HIDE DEF e, call
<1>6. TabOK(call, e.model)
  BY <1>5 DEF TabOK, DeleteSteps
<1> QED BY <1>2, <1>4, <1>5, <1>6, AsksInv

LEMMA DeleteFilterInv == ASSUME FilterInv, DeleteFilter PROVE FilterInv'
<1> DEFINE call == Deleting(editor.model.id, editor.model.jobs)
<1>1. editor \in Editors /\ editor.model \in Models
  BY DEF FilterInv, Editors
<1>2. Asks(call, editor)
  BY DEF DeleteFilter
<1>3. /\ call \in Calls /\ call.step = "deleteRead" /\ call.old = {} /\ ~call.renewed
      /\ call.id = editor.model.id
  BY <1>1, DeletingIs DEF Models
<1> HIDE DEF call
<1>4. TabOK(call, editor.model)
  BY <1>3 DEF TabOK, SaveSteps
<1> QED BY <1>1, <1>2, <1>3, <1>4, AsksInv

LEMMA OthersInv ==
    ASSUME FilterInv, NEW call \in Calls, Others(call),
           call.step \in {"read", "deleteRead"}, call.old = {}, ~call.renewed
    PROVE  FilterInv'
<1>1. /\ OnFilters /\ edits' \in 0..MaxEdits /\ calls["other"].step = "idle" /\ editor' = editor
      /\ Goes("other", call, filters) /\ page' = page /\ "other" \in Callers /\ editor' \in Editors
  BY EditCounts, FilterFacts DEF Others, Idle, FilterInv
<1>2. "tab" # "other"
  OBVIOUS
<1> QED BY <1>1, <1>2, CallStarts

LEMMA OtherSavesInv ==
    ASSUME FilterInv, NEW id \in Made \union {NoId}, NEW n \in Names, OtherSaves(id, n)
    PROVE  FilterInv'
<1> DEFINE call == [IdleCall EXCEPT !.step = "read", !.id = id, !.name = n]
<1>1. id \in EditorIds
  BY MadeIds, FilterFacts
<1>2. call \in Calls /\ call.step = "read" /\ call.old = {} /\ ~call.renewed
  BY <1>1 DEF IdleCall, Calls
<1>3. Others(call)
  BY DEF OtherSaves
<1> HIDE DEF call
<1> QED BY <1>2, <1>3, OthersInv

LEMMA OtherDeletesInv ==
    ASSUME FilterInv, NEW id \in Made, OtherDeletes(id)
    PROVE  FilterInv'
<1> DEFINE call == Deleting(id, FALSE)
<1>1. id \in EditorIds
  BY MadeIds
<1>2. call \in Calls /\ call.step = "deleteRead" /\ call.old = {} /\ ~call.renewed
  BY <1>1, DeletingIs
<1>3. Others(call)
  BY DEF OtherDeletes
<1> HIDE DEF call
<1> QED BY <1>2, <1>3, OthersInv

-----------------------------------------------------------------------------
(* Answers come *)

LEMMA AnswerInv ==
    ASSUME FilterInv, NEW step \in {"saved", "failed", "deleted", "refused"}, NEW next,
           Answers(step, next), editor' \in Editors,
           next = IdleCall \/ (next = Deleting(editor.model.id, TRUE) /\ editor' = editor)
    PROVE  FilterInv'
<1>1. /\ OnFilters /\ calls["tab"].step = step /\ calls' = [calls EXCEPT !["tab"] = next]
      /\ page' = page /\ filters' = filters /\ edits' = edits
  BY DEF Answers
<1>2. page # NoPage /\ calls \in [Callers -> Calls] /\ editor.model.id \in EditorIds
  BY <1>1 DEF OnFilters, On, NoPage, FilterInv, Editors, Models
<1>3. /\ next \in Calls /\ next.old = {} /\ ~next.renewed /\ next.step \in {"idle", "deleteRead"}
      /\ next.name = Unnamed
      /\ next.step = "deleteRead" => next.id = editor.model.id /\ editor' = editor
  <2>1. CASE next = IdleCall
    BY <2>1, FilterFacts DEF IdleCall
  <2>2. CASE next = Deleting(editor.model.id, TRUE) /\ editor' = editor
    <3>1. TRUE \in BOOLEAN
      OBVIOUS
    <3> QED BY <1>2, <2>2, <3>1, DeletingIs
  <2> QED BY <2>1, <2>2
<1>4. /\ calls' \in [Callers -> Calls] /\ calls'["tab"] = next /\ calls'["other"] = calls["other"]
  BY <1>1, <1>2, <1>3, FilterFacts
<1>5. CallOK(next, filters)
  BY <1>3 DEF CallOK
<1>6. \A c \in Callers : CallOK(calls'[c], filters)
  BY <1>4, <1>5 DEF FilterInv, Callers
<1>7. IdsOnce(filters, calls')
  <2>1. "tab" \in Callers /\ calls["tab"].step # "drop"
    BY <1>1, FilterFacts
  <2>2. IdsOnce(filters, [calls EXCEPT !["tab"] = next])
    BY <2>1, IdsSame
  <2> QED BY <1>1, <2>2
<1>8. Apart(filters, calls')
  <2>1. calls'["tab"].name \notin FilterNames
    BY <1>3, <1>4, FilterFacts
  <2>2. CASE next.step = "idle"
    BY <1>4, <2>2, FilterFacts DEF Apart
  <2>3. CASE next.step = "deleteRead"
    BY <1>4, <2>1, <2>3 DEF Apart
  <2> QED BY <1>3, <2>2, <2>3
<1>9. TabOK(calls'["tab"], editor'.model)
  BY <1>3, <1>4 DEF TabOK, SaveSteps
<1>10. TableOK(filters')
  BY <1>1 DEF FilterInv
<1> QED BY <1>1, <1>2, <1>4, <1>6, <1>7, <1>8, <1>9, <1>10 DEF FilterInv

LEMMA SaveAnsweredInv == ASSUME FilterInv, SaveAnswered PROVE FilterInv'
<1> DEFINE id == IF calls["tab"].copy \/ editor.model.id = NoId THEN calls["tab"].id ELSE editor.model.id
           model == [editor.model EXCEPT !.id = id, !.fromServer = TRUE, !.changed = FALSE]
<1>1. editor \in Editors /\ editor.model \in Models /\ calls["tab"] \in Calls
  BY FilterFacts DEF FilterInv, Editors
<1>2. id \in EditorIds
  BY <1>1 DEF Models, Calls
<1>3. FilterSavedAs(calls["tab"]) = model
  BY <1>1 DEF FilterSavedAs, Models
<1> HIDE DEF id
<1>4. model \in Models
  BY <1>1, <1>2 DEF Models
<1>5. editor' = [editor EXCEPT !.model = model, !.loader = FALSE] /\ Answers("saved", IdleCall)
  BY <1>3 DEF SaveAnswered
<1> HIDE DEF model
<1>6. editor' \in Editors
  BY <1>1, <1>4, <1>5 DEF Editors
<1> QED BY <1>5, <1>6, AnswerInv

LEMMA AnswersInv == ASSUME FilterInv, AnswersCome PROVE FilterInv'
<1>0. editor \in Editors
  BY DEF FilterInv
<1>1. CASE SaveAnswered
  BY <1>1, SaveAnsweredInv
<1>2. CASE SaveFailed
  <2>1. editor' \in Editors
    BY <1>0, <1>2 DEF SaveFailed, Editors
  <2>2. PICK step \in {"saved", "failed"} : Answers(step, IdleCall)
    BY <1>2 DEF SaveFailed
  <2> QED BY <2>1, <2>2, AnswerInv
<1>3. CASE DeleteAnswered
  <2>1. editor' \in Editors
    BY <1>0, <1>3, FilterFacts DEF DeleteAnswered, Editors
  <2> QED BY <1>3, <2>1, AnswerInv DEF DeleteAnswered
<1>4. CASE DeleteRefused
  BY <1>0, <1>4, AnswerInv DEF DeleteRefused
<1>5. CASE DeleteFailed
  <2>1. PICK step \in {"deleted", "refused"} : Answers(step, IdleCall)
    BY <1>5 DEF DeleteFailed
  <2> QED BY <1>0, <1>5, <2>1, AnswerInv DEF DeleteFailed
<1> QED BY <1>1, <1>2, <1>3, <1>4, <1>5 DEF AnswersCome

-----------------------------------------------------------------------------
(* Jobs are scheduled, instances of the site start *)

LEMMA OtherSchedulesInv ==
    ASSUME FilterInv, NEW id \in Made, OtherSchedules(id)
    PROVE  FilterInv'
<1> DEFINE jobs == filters.jobs \union {id}
           t == [filters EXCEPT !.jobs = jobs]
<1>1. /\ OnFilters /\ edits' \in 0..MaxEdits /\ page' = page /\ calls' = calls /\ editor' = editor
      /\ filters \in FilterTables /\ TableOK(filters)
  BY EditCounts DEF OtherSchedules, FilterInv, TableOK
<1>2. filters' = t
  BY <1>1 DEF OtherSchedules, FilterTables
<1>3. jobs \subseteq FilterIds
  BY <1>1, MadeIds DEF FilterTables
<1> HIDE DEF jobs
<1>4. /\ t \in FilterTables /\ t.rows = filters.rows /\ t.made = filters.made
      /\ t.kept = filters.kept /\ t.raced = filters.raced /\ t.contested = filters.contested
  BY <1>1, <1>3 DEF FilterTables
<1> HIDE DEF t
<1>5. TableOK(t)
  BY <1>1, <1>4 DEF TableOK
<1>6. IdsOnce(t, calls) /\ Apart(t, calls)
  BY <1>4 DEF FilterInv, IdsOnce, Apart
<1>7. ASSUME NEW c \in Callers PROVE CallOK(calls[c], t)
  <2>1. CallOK(calls[c], filters)
    BY DEF FilterInv
  <2> QED BY <1>4, <2>1, Monotone
<1>8. page # NoPage
  BY <1>1 DEF OnFilters, On, NoPage
<1> QED BY <1>1, <1>2, <1>5, <1>6, <1>7, <1>8 DEF FilterInv

LEMMA BuiltInIs ==
    /\ BuiltIn \subseteq Rows
    /\ \A b \in BuiltIn : b.id \in {AllDevices, 1}
    /\ \A b \in BuiltIn : b.name = Unnamed \/ (b.name = BuiltInName /\ b.id = 1)
    /\ \A b, s \in BuiltIn : b.id = s.id => b = s
<1>1. [id |-> AllDevices, name |-> Unnamed] \in Rows
  BY FilterFacts DEF Rows
<1>2. [id |-> 1, name |-> BuiltInName] \in Rows
  BY FilterFacts DEF Rows, SavedIds
<1> QED BY <1>1, <1>2, FilterFacts DEF BuiltIn

LEMMA InstanceStartsInv == ASSUME FilterInv, InstanceStarts PROVE FilterInv'
<1> DEFINE moved == {r.id : r \in {s \in filters.rows : \E b \in BuiltIn : s.id = b.id /\ s # b}}
           taken == \/ \E r \in filters.rows : r.name = BuiltInName /\ r.id # 1
                    \/ \E c \in Callers : calls[c].name = BuiltInName
           rows == filters.rows \union BuiltIn
           raced == filters.raced \union moved
           contested == IF taken THEN filters.contested \union {BuiltInName} ELSE filters.contested
           t == [filters EXCEPT !.rows = rows, !.raced = raced, !.contested = contested]
<1>1. /\ OnFilters /\ edits' \in 0..MaxEdits /\ page' = page /\ calls' = calls /\ editor' = editor
      /\ filters \in FilterTables /\ TableOK(filters)
  BY EditCounts DEF InstanceStarts, FilterInv, TableOK
<1>2. filters' = t
  BY <1>1 DEF InstanceStarts, FilterTables
<1>3. \A r \in filters.rows : r \in Rows /\ r.id \in SavedIds
  BY <1>1 DEF FilterTables, Rows
<1>4. \A s \in filters.rows, b \in BuiltIn : s.id = b.id /\ s # b => s.id \in raced
  OBVIOUS
<1>5. moved \subseteq SavedIds
  BY <1>3
<1>6. rows \subseteq Rows /\ raced \subseteq SavedIds /\ contested \subseteq FilterNames
  BY <1>1, <1>5, BuiltInIs, FilterFacts DEF FilterTables
<1>7. filters.raced \subseteq raced /\ filters.contested \subseteq contested
  OBVIOUS
<1>8. taken => BuiltInName \in contested
  OBVIOUS
<1>9. /\ \A r \in rows : r \in filters.rows \/ r \in BuiltIn
      /\ \A r \in filters.rows : r \in rows
  OBVIOUS
<1> HIDE DEF rows, raced, contested
<1>10. /\ t \in FilterTables /\ t.rows = rows /\ t.made = filters.made
       /\ t.kept = filters.kept /\ t.raced = raced /\ t.contested = contested
  BY <1>1, <1>6 DEF FilterTables
<1> HIDE DEF t, moved
<1>11. TableOK(t)
  <2>1. ASSUME NEW r \in rows PROVE r.id <= filters.made
    <3>1. CASE r \in filters.rows
      BY <1>1, <3>1 DEF TableOK
    <3>2. CASE r \in BuiltIn
      <4>1. r.id \in {0, 1} /\ filters.made \in 1..MaxFilters
        BY <1>1, <3>2, BuiltInIs DEF FilterTables, FilterIds, AllDevices
      <4> QED BY <4>1, FilterFacts
    <3> QED BY <1>9, <2>1, <3>1, <3>2
  <2>2. ASSUME NEW b \in BuiltIn, NEW s \in rows, b.name = s.name
        PROVE  b.id = s.id \/ b.name \in contested \union {Unnamed}
    <3>1. CASE s \in BuiltIn
      BY <2>2, <3>1, BuiltInIs, FilterFacts
    <3>2. CASE s \in filters.rows
      <4>1. CASE b.name = Unnamed
        BY <4>1
      <4>2. CASE b.name = BuiltInName /\ b.id = 1 /\ s.id # 1
        <5>1. taken
          BY <2>2, <3>2, <4>2
        <5> QED BY <1>8, <4>2, <5>1
      <4> QED BY <4>1, <4>2, BuiltInIs
    <3> QED BY <1>9, <3>1, <3>2
  <2>3. \A r, s \in filters.rows : r.name = s.name => r.id = s.id \/ r.name \in contested \union {Unnamed}
    BY <1>1, <1>7 DEF TableOK
  <2>4. \A r, s \in rows : r.name = s.name => r.id = s.id \/ r.name \in contested \union {Unnamed}
    BY <1>9, <2>2, <2>3
  <2>5. \A i \in filters.kept : i \in raced \/ \E r \in rows : r.id = i
    BY <1>1, <1>7, <1>9 DEF TableOK
  <2> QED BY <1>10, <2>1, <2>4, <2>5 DEF TableOK
<1>12. IdsOnce(t, calls)
  <2>1. ASSUME NEW r \in rows, NEW s \in rows, r.id = s.id, r # s, r.id \notin raced
        PROVE  r \in filters.rows /\ s \in filters.rows
    BY <1>4, <1>9, <2>1, BuiltInIs
  <2>2. \A r, s \in filters.rows : r.id = s.id =>
           r = s \/ r.id \in raced \/ \E c \in Callers : calls[c].step = "drop" /\ calls[c].id = r.id
    BY <1>7 DEF FilterInv, IdsOnce
  <2> QED BY <1>10, <2>1, <2>2 DEF IdsOnce
<1>13. Apart(t, calls)
  BY <1>7, <1>10 DEF FilterInv, Apart
<1>14. ASSUME NEW c \in Callers PROVE CallOK(calls[c], t)
  <2> DEFINE call == calls[c]
  <2>1. CallOK(call, filters)
    BY DEF FilterInv
  <2>2. call.name = BuiltInName => BuiltInName \in contested
    BY <1>8
  <2> HIDE DEF call
  <2>3. ASSUME Found(call, filters) PROVE Found(call, t)
    <3>1. ASSUME NEW r \in rows, r.id = call.id, call.id \notin raced PROVE r \in call.old
      <4>1. CASE r \in filters.rows
        BY <1>7, <2>3, <3>1, <4>1 DEF Found
      <4>2. CASE r \in BuiltIn
        <5>1. PICK s \in call.old : TRUE
          BY <2>3, <3>1, <4>2, BuiltInIs DEF Found
        <5>2. s \in filters.rows /\ s.id = call.id
          BY <1>7, <2>1, <2>3, <3>1 DEF Found, CallOK
        <5> QED BY <1>4, <3>1, <4>2, <5>2
      <4> QED BY <1>9, <4>1, <4>2
    <3>2. call.id \in raced \/ call.old \subseteq rows
      BY <1>7, <1>9, <2>3 DEF Found
    <3> QED BY <1>10, <2>3, <3>1, <3>2 DEF Found
  <2>4. ASSUME Free(call, filters) PROVE Free(call, t)
    <3> SUFFICES ASSUME call.name # Unnamed, NEW r \in rows, r.name = call.name
                 PROVE  r.id = call.id \/ call.name \in contested
      BY <1>10 DEF Free
    <3>1. CASE r \in filters.rows
      BY <1>7, <2>4, <3>1 DEF Free
    <3>2. CASE r \in BuiltIn
      BY <2>2, <3>2, BuiltInIs
    <3> QED BY <1>9, <3>1, <3>2
  <2>5. ASSUME Renaming(call, filters) PROVE Renaming(call, t)
    <3>1. ASSUME call.id \notin raced, NEW r \in rows, r.id = call.id
          PROVE  r \in call.old \union {RowOf(call)}
      <4>1. CASE r \in filters.rows
        BY <1>7, <2>5, <3>1, <4>1 DEF Renaming
      <4>2. CASE r \in BuiltIn
        <5>1. RowOf(call) \in filters.rows /\ RowOf(call).id = call.id
          BY <1>7, <2>5, <3>1 DEF Renaming, RowOf
        <5> QED BY <1>4, <3>1, <4>2, <5>1
      <4> QED BY <1>9, <3>1, <4>1, <4>2
    <3>2. call.id \in raced \/ RowOf(call) \in rows
      BY <1>7, <1>9, <2>5 DEF Renaming
    <3> QED BY <1>10, <2>5, <3>1, <3>2 DEF Renaming
  <2> QED BY <1>7, <1>10, <2>1, <2>3, <2>4, <2>5 DEF CallOK, call
<1>15. page # NoPage
  BY <1>1 DEF OnFilters, On, NoPage
<1> QED BY <1>1, <1>2, <1>11, <1>12, <1>13, <1>14, <1>15 DEF FilterInv

-----------------------------------------------------------------------------
(* The whole page *)

LEMMA FiltersStep == ASSUME FilterInv, FiltersNext PROVE FilterInv'
<1>1. CASE FiltersGoOn
  BY <1>1, ServiceInv, FilterFoundInv, FilterNotFoundInv, AnswersInv DEF FiltersGoOn
<1>2. CASE ShowPanel \/ EditClauses \/ ExecuteFilter \/ CancelEdit \/ \E n \in Names : EditFilterName(n)
  BY <1>2, ShowPanelInv, EditClausesInv, ExecuteFilterInv, CancelEditInv, EditFilterNameInv
<1>3. CASE \E id \in Made \union {AllDevices} : LoadFilter(id)
  BY <1>3, LoadFilterInv
<1>4. CASE SaveFilter \/ SaveFilterIfNeeded \/ DeleteFilter \/ \E n \in FilterNames : SaveAsFilter(n)
  BY <1>4, SavesInv, DeleteFilterInv, SaveAsInv
<1>5. CASE \E id \in Made : OtherDeletes(id) \/ OtherSchedules(id)
  BY <1>5, OtherDeletesInv, OtherSchedulesInv
<1>6. CASE \E id \in Made \union {NoId}, n \in Names : OtherSaves(id, n)
  BY <1>6, OtherSavesInv
<1>7. CASE InstanceStarts
  BY <1>7, InstanceStartsInv
<1> QED BY <1>1, <1>2, <1>3, <1>4, <1>5, <1>6, <1>7 DEF FiltersNext

LEMMA FilterInvFresh ==
    ASSUME NEW e \in Editors
    PROVE  /\ TableOK(FirstFilters) /\ IdsOnce(FirstFilters, NoCalls) /\ Apart(FirstFilters, NoCalls)
           /\ NoCalls \in [Callers -> Calls] /\ 0 \in 0..MaxEdits
           /\ \A c \in Callers : CallOK(NoCalls[c], FirstFilters)
           /\ TabOK(NoCalls["tab"], e.model)
<1>1. NoCalls \in [Callers -> Calls] /\ \A c \in Callers : NoCalls[c] = IdleCall
  BY FilterFacts DEF NoCalls
<1>2. IdleCall.step = "idle" /\ IdleCall.old = {}
  BY DEF IdleCall
<1>3. /\ FirstFilters.rows = BuiltIn /\ FirstFilters.made = 1 /\ FirstFilters.kept = {AllDevices, 1}
      /\ FirstFilters.raced = {} /\ FirstFilters.contested = {}
  BY DEF FirstFilters
<1>4. FirstFilters \in FilterTables
  BY BuiltInIs, FilterFacts DEF FirstFilters, FilterTables, SavedIds
<1>5. TableOK(FirstFilters)
  <2>1. \A r \in BuiltIn : r.id <= 1
    BY BuiltInIs DEF AllDevices
  <2>2. \A r, s \in BuiltIn : r.name = s.name => r.id = s.id \/ r.name = Unnamed
    BY BuiltInIs, FilterFacts
  <2>3. \A i \in {AllDevices, 1} : \E r \in BuiltIn : r.id = i
    BY DEF BuiltIn
  <2> QED BY <1>3, <1>4, <2>1, <2>2, <2>3 DEF TableOK
<1>6. IdsOnce(FirstFilters, NoCalls)
  BY <1>3, BuiltInIs DEF IdsOnce
<1>7. Apart(FirstFilters, NoCalls)
  BY <1>1, <1>2, FilterFacts DEF Apart
<1>8. \A c \in Callers : CallOK(NoCalls[c], FirstFilters)
  BY <1>1, <1>2 DEF CallOK
<1>9. TabOK(NoCalls["tab"], e.model)
  BY <1>1, <1>2, FilterFacts DEF TabOK
<1>10. 0 \in 0..MaxEdits
  BY FiltersAssumption
<1> QED BY <1>1, <1>5, <1>6, <1>7, <1>8, <1>9, <1>10

LEMMA NoEditorIs == NoEditor \in Editors
  BY ModelFacts DEF NoEditor, Editors

LEMMA FiltersFresh ==
    ASSUME filters = FirstFilters, calls = NoCalls, editor = NoEditor, edits = 0
    PROVE  FilterInv
  BY NoEditorIs, FilterInvFresh DEF FilterInv

LEMMA FiltersLeave == ASSUME Leave PROVE FilterInv'
  BY NoEditorIs, FilterInvFresh DEF Leave, FilterInv

LEMMA FiltersOpen == ASSUME FilterInv, NEW p \in Pages, Open(p) PROVE FilterInv'
<1>1. page = NoPage /\ filters' = filters /\ calls' = calls /\ edits' = edits /\ page' = p
  BY DEF Open
<1>2. calls = NoCalls /\ calls["tab"].step = "idle"
  BY <1>1, FilterFacts DEF FilterInv, NoCalls, IdleCall
<1>3. editor' \in Editors
  <2>1. \A id \in {AllDevices, 1} : LoadedEditor(id) \in Editors
    <3> TAKE id \in {AllDevices, 1}
    <3>1. id \in EditorIds
      BY FilterFacts DEF SavedIds, EditorIds
    <3> QED BY <3>1, NoEditorIs DEF LoadedEditor, Editors
  <2> QED BY <2>1 DEF Open, FilterInv
<1>4. TabOK(calls["tab"], editor'.model)
  BY <1>2 DEF TabOK
<1> QED BY <1>1, <1>2, <1>3, <1>4 DEF FilterInv

LEMMA FiltersElsewhere == ASSUME FilterInv, UNCHANGED filtersVars, page' = page PROVE FilterInv'
  BY DEF FilterInv, filtersVars

LEMMA FilterStep == ASSUME FilterInv, [SiteNext]_siteVars PROVE FilterInv'
<1>1. CASE UNCHANGED siteVars
  <2>1. UNCHANGED filtersVars /\ page' = page
    BY <1>1 DEF siteVars
  <2> QED BY <2>1, FiltersElsewhere
<1>2. CASE (DashboardNext \/ IndicatorsNext \/ RecordNext \/ DevicesNext) /\ UNCHANGED filtersVars
  BY <1>2, ElsewhereKeepsPage, RecordsKeepPage, FiltersElsewhere
<1>3. CASE FiltersNext
  BY <1>3, FiltersStep
<1>4. CASE Leave
  BY <1>4, FiltersLeave
<1>5. CASE \E p \in Pages : Open(p)
  BY <1>5, FiltersOpen
<1> QED BY <1>1, <1>2, <1>3, <1>4, <1>5 DEF SiteNext

LEMMA FiltersAlways == SiteSpec => []FilterInv
<1>1. SiteInit => FilterInv
  BY FiltersFresh DEF SiteInit
<1>2. FilterInv /\ [SiteNext]_siteVars => FilterInv'
  BY FilterStep
<1> QED BY <1>1, <1>2, PTL DEF SiteSpec

(* A saved filter keeps its one row and its name: the property of the same    *)
(* name of the site, for any users, filters and bounds.                       *)
THEOREM FilterRowsKeptAlways == SiteSpec => []FilterRowsKept
<1>1. FilterInv => FilterRowsKept
  BY FilterInvMeans
<1> QED BY <1>1, FiltersAlways, PTL

(* The editor keeps the filter it saved, and a forced deletion is for the      *)
(* filter the first one was for: the property of the same name of the site.    *)
THEOREM EditorKeepsFilterAlways == SiteSpec => EditorKeepsFilter
<1> DEFINE A == /\ (SaveAnswered /\ ~calls["tab"].turned /\ ~calls["tab"].renewed) =>
                       editor'.model.id = calls["tab"].id
                /\ (DeleteRefused /\ calls'["tab"].force /\ ~calls["tab"].turned) =>
                       calls'["tab"].id = calls["tab"].id
<1>1. FilterInv => A
  <2> SUFFICES ASSUME FilterInv PROVE A
    OBVIOUS
  <2>0. /\ editor \in Editors /\ editor.model \in Models /\ editor.model.id \in EditorIds
        /\ calls \in [Callers -> Calls] /\ TabOK(calls["tab"], editor.model)
    BY DEF FilterInv, Editors, Models
  <2>1. ASSUME SaveAnswered, ~calls["tab"].turned, ~calls["tab"].renewed
        PROVE  editor'.model.id = calls["tab"].id
    <3> DEFINE id == IF calls["tab"].copy \/ editor.model.id = NoId THEN calls["tab"].id ELSE editor.model.id
               model == [editor.model EXCEPT !.id = id, !.fromServer = TRUE, !.changed = FALSE]
    <3>1. calls["tab"].step = "saved"
      BY <2>1 DEF SaveAnswered, Answers
    <3>2. id = calls["tab"].id
      BY <2>0, <2>1, <3>1 DEF TabOK, SaveSteps
    <3>3. FilterSavedAs(calls["tab"]) = model
      BY <2>0 DEF FilterSavedAs, Models
    <3>4. editor' = [editor EXCEPT !.model = model, !.loader = FALSE]
      BY <2>1, <3>3 DEF SaveAnswered
    <3> HIDE DEF id
    <3>5. model.id = id
      BY <2>0 DEF Models
    <3> HIDE DEF model
    <3>6. editor'.model = model
      BY <2>0, <3>4 DEF Editors
    <3> QED BY <3>2, <3>5, <3>6
  <2>2. ASSUME DeleteRefused, calls'["tab"].force, ~calls["tab"].turned
        PROVE  calls'["tab"].id = calls["tab"].id
    <3>1. /\ calls["tab"].step = "refused"
          /\ calls' = [calls EXCEPT !["tab"] = IdleCall]
             \/ calls' = [calls EXCEPT !["tab"] = Deleting(editor.model.id, TRUE)]
      BY <2>2 DEF DeleteRefused, Answers
    <3>2. calls'["tab"] = IdleCall \/ calls'["tab"] = Deleting(editor.model.id, TRUE)
      BY <2>0, <3>1, FilterFacts
    <3>3. ~IdleCall.force
      BY DEF IdleCall
    <3>4. calls'["tab"].id = editor.model.id
      BY <2>0, <2>2, <3>2, <3>3, DeletingIs
    <3>5. editor.model.id = calls["tab"].id
      BY <2>0, <2>2, <3>1 DEF TabOK, DeleteSteps
    <3> QED BY <3>4, <3>5
  <2> QED BY <2>1, <2>2
<1> QED BY <1>1, FiltersAlways, PTL DEF EditorKeepsFilter

LEMMA IndicatorsFresh == NoIndicators \in Indicators
  BY IndicatorsAssumption DEF NoIndicators, Indicators, Indicated

LEMMA PagesAlways == SiteSpec => [](page \in Pages \union {NoPage} /\ indicators \in Indicators)
<1> DEFINE P == page \in Pages \union {NoPage} /\ indicators \in Indicators
<1>1. SiteInit => P
  BY IndicatorsFresh DEF SiteInit
<1>2. P /\ [SiteNext]_siteVars => P'
  <2> SUFFICES ASSUME P, [SiteNext]_siteVars PROVE P'
    OBVIOUS
  <2>1. CASE UNCHANGED siteVars
    BY <2>1 DEF siteVars
  <2>2. CASE IndicatorsNext
    <3>1. page' = page
      BY <2>2, ElsewhereKeepsPage
    <3>2. indicators' \in Indicators
      <4>1. ASSUME NEW n \in Indicated, DefinitionsAnswered(n) \/ ValuesAnswered(n)
            PROVE  indicators' \in Indicators
        <5>1. Valued(n) \in Indicated
          BY DEF Valued, Indicators
        <5> QED BY <4>1, <5>1 DEF DefinitionsAnswered, ValuesAnswered, Indicators
      <4>2. CASE DefinitionsFailed \/ DefinitionsTimer \/ ValuesFailed \/ ValuesTimer
        BY <4>2 DEF DefinitionsFailed, DefinitionsTimer, ValuesFailed, ValuesTimer, Waits, Indicators
      <4> QED BY <2>2, <4>1, <4>2 DEF IndicatorsNext
    <3> QED BY <3>1, <3>2
  <2>3. CASE (DashboardNext \/ RecordNext \/ DevicesNext \/ FiltersNext) /\ UNCHANGED indicators
    BY <2>3, ElsewhereKeepsPage, RecordsKeepPage
  <2>4. CASE Leave
    BY <2>4, IndicatorsFresh DEF Leave
  <2>5. CASE \E p \in Pages : Open(p)
    BY <2>5 DEF Open
  <2> QED BY <2>1, <2>2, <2>3, <2>4, <2>5 DEF SiteNext
<1> QED BY <1>1, <1>2, PTL DEF SiteSpec

(* Every script of the site keeps what it holds in the range its code gives    *)
(* it: the type invariant of the whole site, for any number of devices,         *)
(* records, filters, requests and clicks.                                       *)
THEOREM SiteTypeCorrect == SiteSpec => []TypeOK
<1>1. (page \in Pages \union {NoPage} /\ indicators \in Indicators)
      /\ DashboardInv /\ RecordInv /\ DevicesInv /\ FilterInv => TypeOK
  BY DashboardInvMeans, RecordInvMeans, DevicesInvMeans, FilterInvMeans DEF TypeOK
<1> QED BY <1>1, PagesAlways, DashboardAlways, RecordsAlways, DevicesAlways, FiltersAlways, PTL

=============================================================================
