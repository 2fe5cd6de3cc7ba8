-------------------------- MODULE DevicesPageProofs --------------------------
(***************************************************************************)
(* Proofs about the page with the list of devices, and about what its grid  *)
(* and the lists of records have in common, for any devices and bounds.     *)
(***************************************************************************)
EXTENDS WebSiteProofs

-----------------------------------------------------------------------------
(* The grid: the invariant *)

\* a device of the cookie is highlighted, unless devices are checked or none is there
Highlighted(g, c) == c = NoDevice \/ g.rows = {} \/ g.checked # {} \/ c \in g.marked

\* until the timer of a draw fires, the script knows what was selected at the draw
FreshOK(g, c) ==
    /\ g.drawn = 1
    /\ c \in g.rows => g.default = c
    /\ g.default # NoDevice => g.default = c /\ c \in g.rows
    /\ c # NoDevice => g.sought

GridOK(g, c) ==
    /\ g \in GridScripts
    /\ g.waiting => g.request = g.asked /\ g.handlers > 0
    /\ g.handlers = 0 => g.drawn = 0
    /\ g.phase = "filter" => g.handlers = 0
    /\ g.phase = "ready" => g.handlers > 0
    /\ g.default # NoDevice => g.default \in g.rows \/ g.rows = {}
    /\ (g.drawn = 0 \/ ~g.sought) => Highlighted(g, c)
    /\ (g.handlers = 1 /\ g.drawn > 0 /\ ~g.hurried) => FreshOK(g, c)

GridInv == cookie \in AnyDevice /\ GridOK(grid, cookie)

\* before the table is made nothing is there to be checked and saved
Begun(g) == g.handlers = 0 => g.rows = {} /\ g.checked = {} /\ g.saving = "no"

LEMMA GridFields ==
    ASSUME NEW g \in GridScripts
    PROVE  /\ g.phase \in {"columns", "columnsFailed", "filter", "stuck", "ready"}
           /\ g.handlers \in 0..2 /\ g.drawn \in 0..2
           /\ g.rows \subseteq Devices /\ g.asked \subseteq Devices /\ g.request \subseteq Devices
           /\ g.marked \subseteq Devices /\ g.checked \subseteq Devices
           /\ g.waiting \in BOOLEAN /\ g.sought \in BOOLEAN /\ g.hurried \in BOOLEAN
           /\ g.default \in AnyDevice /\ g.saving \in {"no", "left"} \union Savings
  BY DEF GridScripts, MaxHandlers

\* what covers the page and the highlighting of rows leave alone
Kept(h, g) ==
    /\ h \in GridScripts /\ h.phase = g.phase /\ h.handlers = g.handlers /\ h.rows = g.rows
    /\ h.asked = g.asked /\ h.waiting = g.waiting /\ h.request = g.request
    /\ h.sought = g.sought /\ h.default = g.default /\ h.drawn = g.drawn

Same(h, g) ==
    /\ Kept(h, g)
    /\ h.marked = g.marked /\ h.checked = g.checked /\ h.hurried = g.hurried

LEMMA SameOK ==
    ASSUME NEW g, NEW c, GridOK(g, c), NEW h, Same(h, g)
    PROVE  GridOK(h, c)
  BY DEF GridOK, Same, Kept, Highlighted, FreshOK

\* the selection changes, and with it the cookie
LEMMA KeptOK ==
    ASSUME NEW g, NEW c, GridOK(g, c), NEW h, NEW e, Kept(h, g),
           h.hurried = (g.drawn > 0), Highlighted(h, e)
    PROVE  GridOK(h, e)
<1>1. g.drawn \in 0..2 /\ h.drawn = g.drawn
  BY GridFields DEF GridOK, Kept
<1>2. ~(h.drawn > 0 /\ ~h.hurried)
  BY <1>1
<1> QED BY <1>2 DEF GridOK, Kept

LEMMA CoversSame ==
    ASSUME NEW g \in GridScripts
    PROVE  /\ Same(Covered(g), g) /\ Same(Uncovered(g), g) /\ Same(UncoveredGrid(g), g)
           /\ \A s \in {"no", "left"} \union Savings : Same([g EXCEPT !.saving = s], g)
<1>1. ASSUME NEW s \in {"no", "left"} \union Savings PROVE Same([g EXCEPT !.saving = s], g)
  BY DEF GridScripts, Same, Kept
<1>2. ASSUME NEW b \in BOOLEAN, NEW s \in {"no", "left"} \union Savings
      PROVE  Same([g EXCEPT !.covered = b, !.saving = s], g)
  BY DEF GridScripts, Same, Kept
<1>3. Same(Covered(g), g) /\ Same(Uncovered(g), g)
  BY DEF GridScripts, Same, Kept, Covered, Uncovered
<1> DEFINE s == IF g.saving = "left" THEN "no" ELSE g.saving
<1>4. s \in {"no", "left"} \union Savings
  BY GridFields
<1>5. UncoveredGrid(g) = [g EXCEPT !.covered = FALSE, !.saving = s]
  BY DEF UncoveredGrid, GridScripts
<1> HIDE DEF s
<1>6. Same(UncoveredGrid(g), g)
  BY <1>2, <1>4, <1>5
<1> QED BY <1>1, <1>3, <1>6

LEMMA SameTwice ==
    ASSUME NEW g, NEW h, NEW k, Same(h, g), Same(k, h)
    PROVE  Same(k, g)
  BY DEF Same, Kept

LEMMA TouchedIs ==
    ASSUME NEW g \in GridScripts
    PROVE  /\ Kept(Touched(g), g) /\ Touched(g).hurried = (g.drawn > 0)
           /\ Touched(g).marked = g.marked /\ Touched(g).checked = g.checked
<1> DEFINE hurried == g.drawn > 0
<1>1. hurried \in BOOLEAN /\ Touched(g) = [g EXCEPT !.hurried = hurried]
  BY DEF Touched
<1> HIDE DEF hurried
<1>2. /\ Kept(Touched(g), g) /\ Touched(g).hurried = hurried
      /\ Touched(g).marked = g.marked /\ Touched(g).checked = g.checked
  BY <1>1 DEF GridScripts, Kept
<1> QED BY <1>2 DEF hurried

\* rows are highlighted by a click
Marking(g, marked, checked) == [Touched(g) EXCEPT !.marked = marked, !.checked = checked]

LEMMA MarkedIs ==
    ASSUME NEW g \in GridScripts, NEW marked \in SUBSET Devices, NEW checked \in SUBSET Devices
    PROVE  LET h == Marking(g, marked, checked)
           IN  Kept(h, g) /\ h.hurried = (g.drawn > 0) /\ h.marked = marked /\ h.checked = checked
<1> DEFINE k == Touched(g)
           h == Marking(g, marked, checked)
<1>1. Kept(k, g) /\ k.hurried = (g.drawn > 0)
  BY TouchedIs
<1>2. h = [k EXCEPT !.marked = marked, !.checked = checked]
  BY DEF Marking
<1> HIDE DEF k, h
<1>3. Kept(h, k) /\ h.hurried = k.hurried /\ h.marked = marked /\ h.checked = checked
  BY <1>1, <1>2 DEF GridScripts, Kept
<1>4. Kept(h, g)
  BY <1>1, <1>3 DEF Kept
<1> QED BY <1>1, <1>3, <1>4 DEF h

LEMMA MarkedOK ==
    ASSUME NEW g, NEW c, GridOK(g, c), NEW e,
           NEW marked \in SUBSET Devices, NEW checked \in SUBSET Devices,
           e = NoDevice \/ e \in marked \/ checked # {}
    PROVE  GridOK(Marking(g, marked, checked), e)
<1> DEFINE h == Marking(g, marked, checked)
<1>1. g \in GridScripts
  BY DEF GridOK
<1>2. Kept(h, g) /\ h.hurried = (g.drawn > 0) /\ h.marked = marked /\ h.checked = checked
  BY <1>1, MarkedIs
<1> HIDE DEF h
<1>3. Highlighted(h, e)
  BY <1>2 DEF Highlighted
<1>4. GridOK(h, e)
  BY <1>2, <1>3, KeptOK
<1> QED BY <1>4 DEF h

LEMMA UncheckedIs ==
    ASSUME NEW g \in GridScripts
    PROVE  Kept(Unchecked(g), g) /\ Unchecked(g).checked = {}
<1>1. CASE g.checked = {}
  BY <1>1 DEF Unchecked, Kept
<1>2. CASE g.checked # {}
  <2>1. Kept(Touched(g), g)
    BY TouchedIs
  <2> DEFINE k == Touched(g)
             h == [k EXCEPT !.checked = {}, !.marked = {}]
  <2>2. Unchecked(g) = h
    BY <1>2 DEF Unchecked
  <2> HIDE DEF k
  <2>3. Kept(h, k) /\ h.checked = {}
    BY <2>1 DEF k, GridScripts, Kept
  <2> HIDE DEF h
  <2> QED BY <2>1, <2>2, <2>3 DEF k, Kept
<1> QED BY <1>1, <1>2

LEMMA UncheckedOK ==
    ASSUME NEW g, NEW c, GridOK(g, c), NEW e, e = IF g.checked = {} THEN c ELSE NoDevice
    PROVE  GridOK(Unchecked(g), e)
<1>1. CASE g.checked = {}
  BY <1>1 DEF Unchecked
<1>2. CASE g.checked # {}
  <2> DEFINE h == Marking(g, {}, {})
  <2>1. GridOK(h, NoDevice)
    BY MarkedOK
  <2>2. Touched(g) \in GridScripts
    BY TouchedIs DEF GridOK, Kept
  <2>3. Unchecked(g) = h
    BY <1>2, <2>2 DEF Unchecked, Marking, GridScripts
  <2> QED BY <1>2, <2>1, <2>3
<1> QED BY <1>1, <1>2

LEMMA RequestedIs ==
    ASSUME NEW g \in GridScripts, NEW q \in SUBSET Devices
    PROVE  LET h == Requested(g, q)
           IN  /\ h \in GridScripts /\ h.phase = g.phase /\ h.handlers = g.handlers /\ h.rows = g.rows
               /\ h.asked = q /\ h.waiting /\ h.request = q /\ h.marked = g.marked
               /\ h.checked = g.checked /\ h.sought = g.sought /\ h.default = g.default
               /\ h.drawn = g.drawn /\ h.hurried = g.hurried
<1> DEFINE covered == ~g.waiting
<1>1. covered \in BOOLEAN
  OBVIOUS
<1>2. Requested(g, q) =
        [g EXCEPT !.asked = q, !.waiting = TRUE, !.request = q, !.covered = covered]
  BY DEF Requested
<1> HIDE DEF covered
<1> QED BY <1>1, <1>2 DEF GridScripts

LEMMA RequestedOK ==
    ASSUME NEW g, NEW c, GridOK(g, c), g.handlers > 0, NEW q \in SUBSET Devices
    PROVE  GridOK(Requested(g, q), c)
<1> DEFINE h == Requested(g, q)
<1>1. g \in GridScripts
  BY DEF GridOK
<1>2. /\ h \in GridScripts /\ h.phase = g.phase /\ h.handlers = g.handlers /\ h.rows = g.rows
      /\ h.asked = q /\ h.waiting /\ h.request = q /\ h.marked = g.marked
      /\ h.checked = g.checked /\ h.sought = g.sought /\ h.default = g.default
      /\ h.drawn = g.drawn /\ h.hurried = g.hurried
  BY <1>1, RequestedIs
<1> HIDE DEF h
<1>3. GridOK(h, c)
  BY <1>2 DEF GridOK, FreshOK, Highlighted
<1> QED BY <1>3 DEF h

\* the handlers and the phase change only
Phased(g, ph, n) == [g EXCEPT !.phase = ph, !.handlers = n]

LEMMA PhasedOK ==
    ASSUME NEW g, NEW c, GridOK(g, c), NEW n \in 0..MaxHandlers,
           NEW ph \in {"columns", "columnsFailed", "filter", "stuck", "ready"},
           ph = "filter" => n = 0, ph = "ready" => n > 0,
           n = g.handlers \/ n = MaxHandlers \/ (g.handlers = 0 /\ n > 0)
    PROVE  GridOK(Phased(g, ph, n), c)
<1> DEFINE h == Phased(g, ph, n)
<1>1. g \in GridScripts
  BY DEF GridOK
<1>2. /\ h \in GridScripts /\ h.phase = ph /\ h.handlers = n /\ h.rows = g.rows
      /\ h.asked = g.asked /\ h.waiting = g.waiting /\ h.request = g.request
      /\ h.marked = g.marked /\ h.checked = g.checked /\ h.sought = g.sought
      /\ h.default = g.default /\ h.drawn = g.drawn /\ h.hurried = g.hurried
  BY <1>1 DEF GridScripts, Phased
<1> HIDE DEF h
<1>3. g.handlers \in 0..2 /\ g.drawn \in 0..2 /\ n \in 0..2 /\ MaxHandlers = 2
  BY <1>1, GridFields DEF MaxHandlers
<1>4. h.waiting => h.request = h.asked /\ h.handlers > 0
  BY <1>2, <1>3 DEF GridOK
<1>5. /\ h.handlers = 0 => h.drawn = 0
      /\ h.phase = "filter" => h.handlers = 0
      /\ h.phase = "ready" => h.handlers > 0
  BY <1>2, <1>3 DEF GridOK
<1>6. /\ h.default # NoDevice => h.default \in h.rows \/ h.rows = {}
      /\ (h.drawn = 0 \/ ~h.sought) => Highlighted(h, c)
  BY <1>2 DEF GridOK, Highlighted
<1>7. (h.handlers = 1 /\ h.drawn > 0 /\ ~h.hurried) => FreshOK(h, c)
  BY <1>2, <1>3 DEF GridOK, FreshOK
<1>8. GridOK(h, c)
  BY <1>2, <1>4, <1>5, <1>6, <1>7 DEF GridOK
<1> QED BY <1>8 DEF h

LEMMA SearchesAre == \A q \in Searches : q \in SUBSET Devices
  BY DevicesAssumption

LEMMA ColumnsAnsweredGrid ==
    ASSUME GridInv, ColumnsAnswered
    PROVE  GridInv'
<1>1. /\ GridOK(grid, cookie) /\ grid \in GridScripts /\ cookie' = cookie /\ cookie \in AnyDevice
      /\ grid.handlers \in 0..2 /\ grid.asked \in SUBSET Devices
  <2>1. GridOK(grid, cookie) /\ grid \in GridScripts /\ cookie' = cookie /\ cookie \in AnyDevice
    BY DEF GridInv, GridOK, ColumnsAnswered
  <2> QED BY <2>1, GridFields
<1>2. CASE grid.handlers = 0
  <2>1. grid' = [grid EXCEPT !.phase = "filter"]
    BY <1>2 DEF ColumnsAnswered
  <2>2. grid' = Phased(grid, "filter", 0) /\ 0 \in 0..MaxHandlers
    BY <1>1, <1>2, <2>1 DEF Phased, GridScripts, MaxHandlers
  <2>3. GridOK(Phased(grid, "filter", 0), cookie)
    BY <1>1, <1>2, <2>2, PhasedOK
  <2> QED BY <1>1, <2>2, <2>3 DEF GridInv
<1>3. CASE grid.handlers # 0
  <2> DEFINE g == Phased(grid, "ready", MaxHandlers)
  <2>1. grid' = Requested(g, grid.asked)
    BY <1>3 DEF ColumnsAnswered, Phased
  <2>2. MaxHandlers \in 0..MaxHandlers /\ MaxHandlers > 0
    BY DEF MaxHandlers
  <2>3. GridOK(g, cookie)
    BY <1>1, <2>2, PhasedOK
  <2>4. g.handlers > 0
    BY <1>1, <2>2 DEF Phased, GridScripts
  <2> HIDE DEF g
  <2>5. GridOK(Requested(g, grid.asked), cookie)
    BY <1>1, <2>3, <2>4, RequestedOK
  <2> QED BY <1>1, <2>1, <2>5 DEF GridInv
<1> QED BY <1>2, <1>3

LEMMA FilterLoadedGrid ==
    ASSUME GridInv, NEW q \in Searches, FilterLoaded(q)
    PROVE  GridInv'
<1>1. /\ GridOK(grid, cookie) /\ grid \in GridScripts /\ cookie' = cookie /\ cookie \in AnyDevice
      /\ grid.handlers = 0
  BY DEF GridInv, GridOK, FilterLoaded
<1> DEFINE g == Phased(grid, "ready", 1)
<1>2. grid' = Requested(g, q) /\ 1 \in 0..MaxHandlers
  BY DEF FilterLoaded, Phased, MaxHandlers
<1>3. GridOK(g, cookie)
  BY <1>1, <1>2, PhasedOK
<1>4. g.handlers > 0
  BY <1>1 DEF Phased, GridScripts
<1> HIDE DEF g
<1>5. GridOK(Requested(g, q), cookie)
  BY <1>3, <1>4, SearchesAre, RequestedOK
<1> QED BY <1>1, <1>2, <1>5 DEF GridInv

LEMMA PhaseGrid ==
    ASSUME GridInv, ColumnsFailed \/ ClausesFailed \/ RetryColumns
    PROVE  GridInv'
<1>1. GridOK(grid, cookie) /\ cookie' = cookie /\ grid \in GridScripts
  BY DEF GridInv, GridOK, ColumnsFailed, ClausesFailed, RetryColumns
<1>2. PICK g \in {UncoveredGrid(grid), grid, Covered(grid)}, ph \in {"columns", "columnsFailed", "stuck"} :
        grid' = [g EXCEPT !.phase = ph]
  BY DEF ColumnsFailed, ClausesFailed, RetryColumns
<1>3. Same(g, grid)
  <2>1. Same(grid, grid)
    BY <1>1 DEF Same, Kept
  <2> QED BY <1>1, <1>2, <2>1, CoversSame
<1>4. GridOK(g, cookie) /\ g \in GridScripts
  BY <1>1, <1>3, SameOK DEF Same, Kept
<1> DEFINE n == g.handlers
<1>5. n \in 0..MaxHandlers /\ grid' = Phased(g, ph, n)
  BY <1>2, <1>4 DEF GridScripts, Phased
<1>6. GridOK(Phased(g, ph, n), cookie)
  BY <1>4, <1>5, PhasedOK
<1> QED BY <1>1, <1>5, <1>6 DEF GridInv

\* a filter is loaded, for the rows of g
LEMMA FilteredGrid ==
    ASSUME cookie \in AnyDevice, NEW g, GridOK(g, cookie), g.handlers > 0, g.checked = grid.checked,
           NEW q \in Searches, Filtered(g, q)
    PROVE  GridInv'
<1> DEFINE h == Unchecked(g)
<1>1. grid' = Requested(h, q) /\ cookie' = IF g.checked = {} THEN cookie ELSE NoDevice
  BY DEF Filtered, CookieUnchecked
<1>2. GridOK(h, cookie')
  BY <1>1, UncheckedOK
<1>3. h.handlers > 0
  BY UncheckedIs DEF GridOK, Kept
<1> HIDE DEF h
<1>4. GridOK(Requested(h, q), cookie')
  BY <1>2, <1>3, SearchesAre, RequestedOK
<1> QED BY <1>1, <1>4 DEF GridInv, AnyDevice

LEMMA AskGridGrid ==
    ASSUME GridInv, NEW q \in Searches, AskGrid(q)
    PROVE  GridInv'
<1>1. GridOK(grid, cookie) /\ grid.handlers > 0 /\ cookie \in AnyDevice
  BY DEF GridInv, GridOK, AskGrid
<1>2. CASE grid' = Requested(grid, q) /\ UNCHANGED cookie
  BY <1>1, <1>2, SearchesAre, RequestedOK DEF GridInv
<1>3. CASE Filtered(grid, q)
  BY <1>1, <1>3, FilteredGrid
<1> QED BY <1>2, <1>3 DEF AskGrid

LEMMA SelectionFoundGrid ==
    ASSUME GridInv, Begun(grid), NEW q \in Searches, SelectionFound(q)
    PROVE  GridInv' /\ grid.handlers > 0
<1> DEFINE g == [grid EXCEPT !.saving = "no"]
<1>1. GridOK(grid, cookie) /\ grid \in GridScripts /\ cookie \in AnyDevice /\ Filtered(g, q)
  BY DEF GridInv, GridOK, SelectionFound
<1>0. grid.handlers > 0
  BY <1>1, GridFields DEF Begun, SelectionFound
<1>2. Same(g, grid)
  BY <1>1, CoversSame
<1> HIDE DEF g
<1>3. GridOK(g, cookie) /\ g.handlers > 0 /\ g.checked = grid.checked
  BY <1>0, <1>1, <1>2, SameOK DEF Same, Kept
<1> QED BY <1>0, <1>1, <1>3, FilteredGrid

LEMMA ClickDeviceGrid ==
    ASSUME GridInv, NEW d \in Devices, ClickDevice(d)
    PROVE  GridInv'
<1> DEFINE g == Unchecked(grid)
           e == IF grid.checked = {} THEN cookie ELSE NoDevice
<1>1. /\ GridOK(grid, cookie) /\ grid' = [Touched(g) EXCEPT !.marked = {d}] /\ cookie' = d
      /\ grid \in GridScripts
  BY DEF GridInv, GridOK, ClickDevice
<1>2. GridOK(g, e) /\ g.checked = {} /\ g \in GridScripts
  BY <1>1, UncheckedOK, UncheckedIs DEF Kept
<1> HIDE DEF g, e
<1>3. Touched(g) \in GridScripts /\ Touched(g).checked = {}
  BY <1>2, TouchedIs DEF Kept
<1>4. grid' = Marking(g, {d}, {})
  BY <1>1, <1>3 DEF Marking, GridScripts
<1>5. GridOK(Marking(g, {d}, {}), d)
  BY <1>2, MarkedOK
<1> QED BY <1>1, <1>4, <1>5 DEF GridInv, AnyDevice

LEMMA CheckDeviceGrid ==
    ASSUME GridInv, NEW d \in Devices, CheckDevice(d)
    PROVE  GridInv'
<1> DEFINE starts  == grid.checked = {}
           checked == IF d \in grid.checked THEN grid.checked \ {d} ELSE grid.checked \union {d}
           marked  == IF starts THEN {} ELSE grid.marked
           m       == IF checked = {} THEN {}
                      ELSE IF d \in checked THEN marked \union {d} ELSE marked \ {d}
<1>1. /\ grid' = [Touched(grid) EXCEPT !.checked = checked, !.marked = m]
      /\ cookie' = IF starts \/ checked = {} THEN NoDevice ELSE cookie
  BY DEF CheckDevice
<1>2. GridOK(grid, cookie) /\ grid \in GridScripts /\ cookie \in AnyDevice
  BY DEF GridInv, GridOK
<1>3. cookie' = NoDevice \/ checked # {}
  BY <1>1
<1>4. checked \in SUBSET Devices /\ m \in SUBSET Devices
  BY <1>2, GridFields
<1>5. cookie' \in AnyDevice
  BY <1>1, <1>2 DEF AnyDevice
<1>6. Touched(grid) \in GridScripts
  BY <1>2, TouchedIs DEF Kept
<1> HIDE DEF checked, m
<1>7. grid' = Marking(grid, m, checked)
  BY <1>1, <1>6 DEF Marking, GridScripts
<1>8. GridOK(Marking(grid, m, checked), cookie')
  BY <1>2, <1>3, <1>4, MarkedOK
<1> QED BY <1>5, <1>7, <1>8 DEF GridInv

LEMMA UnselectedGrid ==
    ASSUME GridInv, EditColumns \/ ScheduleJob
    PROVE  GridInv'
<1>1. /\ GridOK(grid, cookie) /\ grid \in GridScripts /\ cookie' = NoDevice
      /\ grid' \in {Unselected(grid), Covered(Unselected(grid))}
  BY DEF GridInv, GridOK, EditColumns, ScheduleJob
<1> DEFINE checked == grid.checked
           g == Marking(grid, {}, checked)
<1>2. checked \in SUBSET Devices
  BY <1>1, GridFields
<1>3. Touched(grid) \in GridScripts /\ Touched(grid).checked = checked
  BY <1>1, TouchedIs DEF Kept
<1>4. Unselected(grid) = g
  BY <1>3 DEF Unselected, Marking, GridScripts
<1> HIDE DEF checked
<1>5. GridOK(g, NoDevice) /\ g \in GridScripts
  BY <1>1, <1>2, MarkedOK DEF GridOK
<1> HIDE DEF g
<1>6. GridOK(Covered(g), NoDevice)
  BY <1>5, CoversSame, SameOK
<1> QED BY <1>1, <1>4, <1>5, <1>6 DEF GridInv, AnyDevice

\* a filter is being saved, or is not any more
LEMMA SavingsGrid ==
    ASSUME GridInv, \/ FilterSaved \/ FilterUnsaved \/ SaveSelection
                    \/ SelectionUnsaved \/ SelectionNotFound
    PROVE  Same(grid', grid) /\ cookie' = cookie
<1>1. grid \in GridScripts /\ cookie' = cookie
  BY DEF GridInv, GridOK, FilterSaved, FilterUnsaved, SaveSelection, SelectionUnsaved, SelectionNotFound
<1>2. CASE FilterSaved \/ FilterUnsaved
  BY <1>1, <1>2, CoversSame DEF FilterSaved, FilterUnsaved
<1>3. CASE SaveSelection \/ SelectionUnsaved \/ SelectionNotFound
  <2>1. PICK g \in {grid, Covered(grid), Uncovered(grid)}, s \in {"no", "left"} \union Savings :
          grid' = [g EXCEPT !.saving = s]
    BY <1>3 DEF SaveSelection, SelectionUnsaved, SelectionNotFound, Savings
  <2>2. Same(g, grid)
    <3>1. Same(grid, grid)
      BY <1>1 DEF Same, Kept
    <3> QED BY <1>1, <2>1, <3>1, CoversSame
  <2>3. Same([g EXCEPT !.saving = s], g)
    BY <2>1, <2>2, CoversSame DEF Same, Kept
  <2> QED BY <1>1, <2>1, <2>2, <2>3, SameTwice
<1> QED BY <1>2, <1>3

LEMMA SelectionSavedGrid ==
    ASSUME GridInv, SelectionSaved
    PROVE  GridInv'
<1>1. GridOK(grid, cookie) /\ grid \in GridScripts /\ cookie \in AnyDevice
  BY DEF GridInv, GridOK
<1>2. CASE grid' = [grid EXCEPT !.saving = "find"] /\ UNCHANGED cookie
  <2>1. Same(grid', grid)
    BY <1>1, <1>2, CoversSame DEF Savings
  <2> QED BY <1>1, <1>2, <2>1, SameOK DEF GridInv
<1>3. CASE grid' = Unchecked([Uncovered(grid) EXCEPT !.saving = "no"]) /\ cookie' = CookieUnchecked
  <2> DEFINE h == Uncovered(grid)
             g == [h EXCEPT !.saving = "no"]
  <2>1. Same(h, grid)
    BY <1>1, CoversSame
  <2>2. h \in GridScripts
    BY <2>1 DEF Same, Kept
  <2>3. Same(g, h)
    BY <2>2, CoversSame
  <2>4. grid' = Unchecked(g)
    BY <1>3
  <2> HIDE DEF g, h
  <2>5. Same(g, grid)
    BY <2>1, <2>3, SameTwice
  <2>6. GridOK(g, cookie) /\ g.checked = grid.checked
    BY <1>1, <2>5, SameOK DEF Same
  <2>7. cookie' = IF g.checked = {} THEN cookie ELSE NoDevice
    BY <1>3, <2>6 DEF CookieUnchecked
  <2>8. GridOK(Unchecked(g), cookie')
    BY <2>6, <2>7, UncheckedOK
  <2> QED BY <1>1, <2>4, <2>7, <2>8 DEF GridInv, AnyDevice
<1> QED BY <1>2, <1>3 DEF SelectionSaved

LEMMA GridAnsweredGrid ==
    ASSUME GridInv, GridAnswered
    PROVE  /\ GridInv' /\ grid'.handlers = grid.handlers /\ grid'.asked = grid.asked
           /\ grid'.waiting = FALSE /\ grid'.rows = grid.request
<1> DEFINE h == UncoveredGrid(Touched(grid))
           sought == cookie # NoDevice
           default == IF cookie \in grid.request THEN cookie ELSE NoDevice
           marked == grid.checked \intersect grid.request
           rows == grid.request
           drawn == grid.drawn + grid.handlers
<1>1. /\ GridOK(grid, cookie) /\ grid \in GridScripts /\ cookie \in AnyDevice /\ cookie' = cookie
      /\ grid.handlers > 0 /\ grid.waiting
  BY DEF GridInv, GridOK, GridAnswered
<1>2. /\ Kept(h, grid) /\ h.hurried = (grid.drawn > 0) /\ h.checked = grid.checked
  <2>1. /\ Kept(Touched(grid), grid) /\ Touched(grid).hurried = (grid.drawn > 0)
        /\ Touched(grid).checked = grid.checked
    BY <1>1, TouchedIs
  <2>2. Same(h, Touched(grid))
    BY <2>1, CoversSame DEF Kept
  <2> QED BY <2>1, <2>2 DEF Same, Kept
<1>3. grid' = [h EXCEPT !.waiting = FALSE, !.request = {}, !.rows = rows, !.marked = marked,
                        !.sought = sought, !.default = default, !.drawn = drawn]
  BY <1>2 DEF GridAnswered, Kept, GridScripts
<1>4. /\ rows \subseteq Devices /\ marked \subseteq Devices /\ default \in AnyDevice
      /\ drawn \in 0..2 /\ drawn > 0 /\ drawn = grid.drawn + grid.handlers
  BY <1>1, GridFields DEF GridAnswered, MaxHandlers, AnyDevice
<1>5. /\ sought <=> cookie # NoDevice
      /\ cookie \in rows => default = cookie
      /\ default # NoDevice => default = cookie /\ cookie \in rows
  OBVIOUS
<1>6. sought \in BOOLEAN
  OBVIOUS
<1> HIDE DEF h, sought, default, marked, rows, drawn
<1>7. /\ grid' \in GridScripts /\ grid'.phase = grid.phase /\ grid'.handlers = grid.handlers
      /\ grid'.rows = rows /\ grid'.waiting = FALSE /\ grid'.checked = grid.checked
      /\ grid'.sought = sought /\ grid'.default = default /\ grid'.drawn = drawn
      /\ grid'.hurried = (grid.drawn > 0) /\ grid'.asked = grid.asked
  BY <1>2, <1>3, <1>4, <1>6 DEF GridScripts, MaxHandlers, Kept
<1>8. ASSUME grid'.handlers = 1, ~grid'.hurried PROVE FreshOK(grid', cookie)
  <2>1. grid'.drawn = 1
    BY <1>1, <1>4, <1>7, <1>8, GridFields
  <2> QED BY <1>5, <1>7, <2>1 DEF FreshOK
<1>9. grid'.drawn # 0 /\ (~grid'.sought => Highlighted(grid', cookie))
  BY <1>4, <1>5, <1>7 DEF Highlighted
<1>10. grid'.default # NoDevice => grid'.default \in grid'.rows
  BY <1>5, <1>7
<1>11. GridOK(grid', cookie)
  BY <1>1, <1>7, <1>8, <1>9, <1>10 DEF GridOK
<1> QED BY <1>1, <1>7, <1>11 DEF GridInv, rows

LEMMA GridFailedGrid ==
    ASSUME GridInv, GridFailed
    PROVE  GridInv'
<1> DEFINE g == UncoveredGrid(grid)
<1>1. /\ GridOK(grid, cookie) /\ grid \in GridScripts /\ cookie' = cookie
      /\ grid' = [g EXCEPT !.waiting = FALSE, !.request = {}]
  BY DEF GridInv, GridOK, GridFailed
<1>2. Same(g, grid)
  BY <1>1, CoversSame
<1> HIDE DEF g
<1>3. GridOK(g, cookie) /\ g \in GridScripts
  BY <1>1, <1>2, SameOK DEF Same, Kept
<1>4. /\ grid' \in GridScripts /\ grid'.phase = g.phase /\ grid'.handlers = g.handlers
      /\ grid'.rows = g.rows /\ grid'.waiting = FALSE /\ grid'.marked = g.marked
      /\ grid'.checked = g.checked /\ grid'.sought = g.sought /\ grid'.default = g.default
      /\ grid'.drawn = g.drawn /\ grid'.hurried = g.hurried
  BY <1>1, <1>3 DEF GridScripts
<1>5. GridOK(grid', cookie)
  BY <1>3, <1>4 DEF GridOK, FreshOK, Highlighted
<1> QED BY <1>1, <1>5 DEF GridInv

LEMMA SetDefaultRowGrid ==
    ASSUME GridInv, SetDefaultRow
    PROVE  GridInv'
<1> DEFINE n == grid.drawn - 1
           hurried == grid.hurried /\ grid.drawn > 1
           g == [grid EXCEPT !.drawn = n, !.default = NoDevice, !.hurried = hurried]
<1>1. /\ GridOK(grid, cookie) /\ grid \in GridScripts /\ cookie \in AnyDevice
      /\ grid.drawn > 0
  BY DEF GridInv, GridOK, SetDefaultRow
<1>2. /\ g = [grid EXCEPT !.drawn = @ - 1, !.default = NoDevice, !.hurried = @ /\ grid.drawn > 1]
      /\ n \in 0..MaxHandlers /\ hurried \in BOOLEAN /\ NoDevice \in AnyDevice /\ grid.handlers # 0
  BY <1>1, GridFields DEF GridScripts, MaxHandlers, AnyDevice, GridOK
<1>3. /\ (grid.handlers = 1 /\ n > 0) => hurried
      /\ grid.handlers = 1 /\ ~grid.hurried => n = 0
  BY <1>1, GridFields DEF GridOK, FreshOK
<1>4. \/ /\ grid.default \in grid.rows
         /\ grid' = [g EXCEPT !.marked = {grid.default}] /\ cookie' = grid.default
      \/ /\ grid.default = NoDevice /\ grid.sought
         /\ grid' = g /\ cookie' = NoDevice
      \/ /\ IF grid.default = NoDevice THEN ~grid.sought ELSE grid.default \notin grid.rows
         /\ grid' = g /\ cookie' = cookie
  BY <1>2 DEF SetDefaultRow
<1>5. /\ g \in GridScripts /\ g.phase = grid.phase /\ g.handlers = grid.handlers
      /\ g.rows = grid.rows /\ g.waiting = grid.waiting /\ g.asked = grid.asked
      /\ g.request = grid.request /\ g.marked = grid.marked /\ g.checked = grid.checked
      /\ g.sought = grid.sought /\ g.default = NoDevice /\ g.drawn = n /\ g.hurried = hurried
  <2> HIDE DEF n, hurried
  <2> QED BY <1>1, <1>2 DEF GridScripts
<1> HIDE DEF g, n, hurried
\* whatever the timer does, nothing but the highlighting is left to show
<1>6. ASSUME NEW h \in GridScripts, NEW e,
             h.phase = g.phase, h.handlers = g.handlers, h.rows = g.rows, h.waiting = g.waiting,
             h.asked = g.asked, h.request = g.request, h.default = NoDevice, h.drawn = n,
             h.hurried = hurried, Highlighted(h, e)
      PROVE  GridOK(h, e)
  BY <1>1, <1>2, <1>3, <1>5, <1>6 DEF GridOK
<1>7. CASE grid.default \in grid.rows /\ grid' = [g EXCEPT !.marked = {grid.default}] /\ cookie' = grid.default
  <2>1. grid.default \in Devices
    BY <1>1, <1>7, GridFields
  <2> DEFINE m == {grid.default}
  <2>2. m \subseteq Devices /\ cookie' \in m /\ grid' = [g EXCEPT !.marked = m]
    BY <1>7, <2>1
  <2> HIDE DEF m
  <2>3. /\ grid' \in GridScripts /\ grid'.phase = g.phase /\ grid'.handlers = g.handlers
        /\ grid'.rows = g.rows /\ grid'.waiting = g.waiting /\ grid'.asked = g.asked
        /\ grid'.request = g.request /\ grid'.marked = m /\ grid'.default = NoDevice
        /\ grid'.drawn = n /\ grid'.hurried = hurried
    BY <1>5, <2>2 DEF GridScripts
  <2>4. Highlighted(grid', cookie')
    BY <2>2, <2>3 DEF Highlighted
  <2>5. GridOK(grid', cookie')
    BY <1>6, <2>3, <2>4
  <2> QED BY <1>7, <2>1, <2>5 DEF GridInv, AnyDevice
<1>8. CASE grid' = g /\ cookie' = NoDevice
  <2>1. GridOK(g, NoDevice)
    BY <1>5, <1>6 DEF Highlighted
  <2> QED BY <1>8, <2>1 DEF GridInv, AnyDevice
<1>9. CASE /\ IF grid.default = NoDevice THEN ~grid.sought ELSE grid.default \notin grid.rows
           /\ grid' = g /\ cookie' = cookie
  <2>1. Highlighted(grid, cookie)
    BY <1>1, <1>9 DEF GridOK, Highlighted
  <2>2. GridOK(g, cookie)
    BY <1>5, <1>6, <2>1 DEF Highlighted
  <2> QED BY <1>1, <1>9, <2>2 DEF GridInv
<1> QED BY <1>4, <1>7, <1>8, <1>9

LEMMA ColumnsUpdatedGrid ==
    ASSUME GridInv, ColumnsUpdated
    PROVE  GridInv'
<1> DEFINE g == Covered(Touched(grid))
<1>1. /\ GridOK(grid, cookie) /\ grid \in GridScripts /\ cookie' = cookie
      /\ grid' = [g EXCEPT !.phase = "columns", !.rows = {}, !.marked = {}]
  BY DEF GridInv, GridOK, ColumnsUpdated
<1>2. Kept(g, grid) /\ g.hurried = (grid.drawn > 0)
  <2>1. Kept(Touched(grid), grid) /\ Touched(grid).hurried = (grid.drawn > 0)
    BY <1>1, TouchedIs
  <2>2. Same(g, Touched(grid))
    BY <2>1, CoversSame DEF Kept
  <2> QED BY <2>1, <2>2 DEF Same, Kept
<1> HIDE DEF g
<1>3. /\ grid' \in GridScripts /\ grid'.phase = "columns" /\ grid'.handlers = grid.handlers
      /\ grid'.rows = {} /\ grid'.waiting = grid.waiting /\ grid'.asked = grid.asked
      /\ grid'.request = grid.request /\ grid'.default = grid.default /\ grid'.drawn = grid.drawn
      /\ grid'.hurried = (grid.drawn > 0)
  BY <1>1, <1>2 DEF GridScripts, Kept
<1>4. Highlighted(grid', cookie)
  BY <1>3 DEF Highlighted
<1>5. GridOK(grid', cookie)
  BY <1>1, <1>3, <1>4 DEF GridOK
<1> QED BY <1>1, <1>5 DEF GridInv

\* the rest of the page leaves the grid and the cookie alone
PaneOnly ==
    \/ ToggleDetails \/ RetryView \/ UpdateColumns \/ SwitchDevice
    \/ \E i \in 1..MaxDetails : ViewCame(i) \/ ViewDidNotCome(i)
    \/ ColumnsNotUpdated \/ SwitchEnds

LEMMA PaneOnlyGrid == PaneOnly => UNCHANGED <<cookie, grid>>
  BY DEF PaneOnly, ToggleDetails, RetryView, UpdateColumns, SwitchDevice, ViewCame, ViewDidNotCome,
         ColumnsNotUpdated, SwitchEnds

\* the steps that ask for no rows and get none
Asking == grid'.asked = grid.asked /\ grid'.waiting = grid.waiting
RowsStay == Asking /\ grid'.rows = grid.rows /\ grid'.handlers = grid.handlers

LEMMA KeptStays ==
    ASSUME NEW g, Kept(g, grid)
    PROVE  /\ g \in GridScripts /\ g.asked = grid.asked /\ g.waiting = grid.waiting
           /\ g.rows = grid.rows /\ g.handlers = grid.handlers
  BY DEF Kept

LEMMA HighlightsStay ==
    ASSUME GridInv,
           \/ \E d \in Devices : ClickDevice(d) \/ CheckDevice(d)
           \/ EditColumns \/ ScheduleJob
    PROVE  RowsStay
<1>1. grid \in GridScripts
  BY DEF GridInv, GridOK
<1>2. ASSUME NEW d \in Devices, ClickDevice(d) PROVE RowsStay
  <2> DEFINE g == Unchecked(grid)
             h == Touched(g)
  <2>1. grid' = [h EXCEPT !.marked = {d}]
    BY <1>2 DEF ClickDevice
  <2>2. Kept(g, grid)
    BY <1>1, UncheckedIs
  <2> HIDE DEF g
  <2>3. Kept(h, g)
    BY <2>2, TouchedIs DEF Kept
  <2> HIDE DEF h
  <2>4. Kept(h, grid)
    BY <2>2, <2>3 DEF Kept
  <2> QED BY <2>1, <2>4, KeptStays DEF RowsStay, Asking, GridScripts
<1>3. Kept(Touched(grid), grid)
  BY <1>1, TouchedIs
<1>4. ASSUME NEW d \in Devices, CheckDevice(d) PROVE RowsStay
  <2> DEFINE h == Touched(grid)
  <2>1. PICK checked, marked : grid' = [h EXCEPT !.checked = checked, !.marked = marked]
    BY <1>4 DEF CheckDevice
  <2>2. Kept(h, grid)
    BY <1>3
  <2> HIDE DEF h
  <2> QED BY <2>1, <2>2, KeptStays DEF RowsStay, Asking, GridScripts
<1>5. CASE EditColumns \/ ScheduleJob
  <2> DEFINE h == Touched(grid)
             g == [h EXCEPT !.marked = {}]
  <2>1. grid' \in {g, Covered(g)}
    BY <1>5 DEF EditColumns, ScheduleJob, Unselected
  <2>2. Kept(h, grid)
    BY <1>3
  <2> HIDE DEF h
  <2>3. Kept(g, grid)
    BY <2>2 DEF Kept, GridScripts
  <2> HIDE DEF g
  <2>4. Kept(Covered(g), grid)
    BY <2>3, CoversSame DEF Same, Kept
  <2> QED BY <2>1, <2>3, <2>4, KeptStays DEF RowsStay, Asking
<1> QED BY <1>2, <1>4, <1>5

LEMMA TimersStay ==
    ASSUME GridInv, SetDefaultRow
    PROVE  RowsStay
<1> DEFINE n == grid.drawn - 1
           hurried == grid.hurried /\ grid.drawn > 1
           g == [grid EXCEPT !.drawn = n, !.default = NoDevice, !.hurried = hurried]
<1>1. grid \in GridScripts
  BY DEF GridInv, GridOK
<1>2. g = [grid EXCEPT !.drawn = @ - 1, !.default = NoDevice, !.hurried = @ /\ grid.drawn > 1]
  BY <1>1 DEF GridScripts
<1>3. PICK m : grid' = g \/ grid' = [g EXCEPT !.marked = m]
  BY <1>2 DEF SetDefaultRow
<1> HIDE DEF n, hurried
<1>4. /\ g.asked = grid.asked /\ g.waiting = grid.waiting /\ g.rows = grid.rows
      /\ g.handlers = grid.handlers /\ DOMAIN g = DOMAIN grid
  BY <1>1 DEF GridScripts
<1>5. {"asked", "waiting", "rows", "handlers"} \subseteq DOMAIN grid
  BY <1>1 DEF GridScripts
<1> HIDE DEF g
<1> QED BY <1>3, <1>4, <1>5 DEF RowsStay, Asking

\* the phase, what covers the page and how a saving stands
LEMMA CoversStay ==
    ASSUME GridInv,
           \/ ColumnsFailed \/ ClausesFailed \/ RetryColumns
           \/ FilterSaved \/ FilterUnsaved \/ SaveSelection
           \/ SelectionSaved \/ SelectionUnsaved \/ SelectionNotFound
    PROVE  RowsStay
<1>1. grid \in GridScripts
  BY DEF GridInv, GridOK
<1>2. CASE ColumnsFailed \/ ClausesFailed \/ RetryColumns
  <2>1. PICK g \in {UncoveredGrid(grid), grid, Covered(grid)},
             ph \in {"columns", "columnsFailed", "stuck"} :
          grid' = [g EXCEPT !.phase = ph]
    BY <1>2 DEF ColumnsFailed, ClausesFailed, RetryColumns
  <2>2. Kept(g, grid)
    <3>1. Kept(grid, grid)
      BY <1>1 DEF Kept
    <3> QED BY <1>1, <2>1, <3>1, CoversSame DEF Same
  <2> QED BY <2>1, <2>2, KeptStays DEF RowsStay, Asking, GridScripts
<1>3. CASE FilterSaved \/ FilterUnsaved \/ SaveSelection \/ SelectionUnsaved \/ SelectionNotFound
  <2>1. Same(grid', grid)
    BY <1>3, SavingsGrid
  <2> QED BY <2>1 DEF Same, Kept, RowsStay, Asking
<1>4. CASE SelectionSaved
  <2> DEFINE h == Uncovered(grid)
             g == [h EXCEPT !.saving = "no"]
  <2>1. CASE grid' = [grid EXCEPT !.saving = "find"]
    BY <1>1, <2>1 DEF RowsStay, Asking, GridScripts
  <2>2. CASE grid' = Unchecked(g)
    <3>1. Same(h, grid)
      BY <1>1, CoversSame
    <3>2. Same(g, h)
      <4>1. h \in GridScripts
        BY <3>1 DEF Same, Kept
      <4> QED BY <4>1, CoversSame
    <3>3. grid' = Unchecked(g)
      BY <2>2
    <3> HIDE DEF g, h
    <3>4. Kept(g, grid)
      BY <3>1, <3>2 DEF Same, Kept
    <3>5. Kept(Unchecked(g), g)
      BY <3>4, UncheckedIs DEF Kept
    <3> QED BY <3>3, <3>4, <3>5 DEF Kept, RowsStay, Asking
  <2> QED BY <1>4, <2>1, <2>2 DEF SelectionSaved
<1> QED BY <1>2, <1>3, <1>4

LEMMA BegunBefore ==
    ASSUME GridInv, Begun(grid), grid.handlers = 0, DevicesNext
    PROVE  \/ UNCHANGED grid
           \/ ColumnsAnswered \/ ColumnsFailed \/ ClausesFailed \/ RetryColumns
           \/ FilterSaved \/ FilterUnsaved \/ ColumnsUpdated
           \/ \E q \in Searches : FilterLoaded(q)
<1>1. /\ grid.phase # "ready" /\ ~grid.waiting /\ ~(grid.drawn > 0)
      /\ grid.rows = {} /\ grid.checked = {} /\ grid.saving = "no"
  BY GridFields DEF GridInv, GridOK, Begun
<1>2. /\ \A d \in Devices : ~ClickDevice(d) /\ ~CheckDevice(d)
      /\ \A q \in Searches : ~AskGrid(q) /\ ~SelectionFound(q)
      /\ ~EditColumns /\ ~ScheduleJob /\ ~SaveSelection
      /\ ~SelectionSaved /\ ~SelectionUnsaved /\ ~SelectionNotFound
      /\ ~GridAnswered /\ ~GridFailed /\ ~SetDefaultRow
  BY <1>1 DEF ClickDevice, CheckDevice, AskGrid, SelectionFound, EditColumns, ScheduleJob,
              SaveSelection, SelectionSaved, SelectionUnsaved, SelectionNotFound,
              GridAnswered, GridFailed, SetDefaultRow
<1> QED BY <1>2, PaneOnlyGrid DEF DevicesNext, DevicesGoOn, PaneOnly

LEMMA BegunNext ==
    ASSUME GridInv, Begun(grid), grid.handlers = 0, DevicesNext
    PROVE  Begun(grid')
<1>1. grid \in GridScripts /\ grid.rows = {} /\ grid.checked = {} /\ grid.saving = "no"
  BY DEF GridInv, GridOK, Begun
<1>2. CASE UNCHANGED grid
  BY <1>2
<1>3. CASE \/ ColumnsFailed \/ ClausesFailed \/ RetryColumns \/ FilterSaved \/ FilterUnsaved
  <2>1. PICK g \in {UncoveredGrid(grid), grid, Covered(grid)},
             ph \in {"columns", "columnsFailed", "stuck"} :
          grid' = g \/ grid' = [g EXCEPT !.phase = ph]
    BY <1>3 DEF ColumnsFailed, ClausesFailed, RetryColumns, FilterSaved, FilterUnsaved
  <2>2. g \in GridScripts /\ g.rows = {} /\ g.checked = {}
    <3>1. Same(grid, grid)
      BY <1>1 DEF Same, Kept
    <3>2. Same(g, grid)
      BY <1>1, <2>1, <3>1, CoversSame
    <3> QED BY <1>1, <3>2 DEF Same, Kept
  <2>3. g.saving = "no"
    BY <1>1, <2>1 DEF Covered, UncoveredGrid, GridScripts
  <2>4. grid'.rows = {} /\ grid'.checked = {} /\ grid'.saving = "no"
    BY <2>1, <2>2, <2>3 DEF GridScripts
  <2> QED BY <2>4 DEF Begun
<1>4. CASE ColumnsAnswered
  <2>1. grid' = [grid EXCEPT !.phase = "filter"]
    BY <1>4 DEF ColumnsAnswered, GridInv, GridOK, GridScripts
  <2> QED BY <1>1, <2>1 DEF Begun, GridScripts
<1>5. ASSUME NEW q \in Searches, FilterLoaded(q) PROVE Begun(grid')
  <2> DEFINE g == Phased(grid, "ready", 1)
  <2>1. grid' = Requested(g, q) /\ 1 \in 0..MaxHandlers
    BY <1>5 DEF FilterLoaded, Phased, MaxHandlers
  <2>2. g \in GridScripts
    BY <2>1, PhasedOK DEF GridInv, GridOK
  <2>3. g.handlers = 1
    BY <1>1 DEF Phased, GridScripts
  <2> HIDE DEF g
  <2>4. grid'.handlers = 1
    BY <2>1, <2>2, <2>3, SearchesAre, RequestedIs
  <2> QED BY <2>4 DEF Begun
<1>6. CASE ColumnsUpdated
  <2> DEFINE hurried == grid.drawn > 0
             h == [grid EXCEPT !.hurried = hurried]
  <2>1. grid' = [Covered(h) EXCEPT !.phase = "columns", !.rows = {}, !.marked = {}]
    BY <1>6 DEF ColumnsUpdated, Touched
  <2> HIDE DEF hurried
  <2>2. h \in [DOMAIN grid -> UNION {{h[f]} : f \in DOMAIN grid}] /\ h.checked = {} /\ h.saving = "no"
    BY <1>1 DEF GridScripts
  <2>3. grid'.rows = {} /\ grid'.checked = {} /\ grid'.saving = "no"
    BY <1>1, <2>1, <2>2 DEF GridScripts, Covered
  <2> QED BY <2>3 DEF Begun
<1> QED BY <1>2, <1>3, <1>4, <1>5, <1>6, BegunBefore

LEMMA HandlersStay ==
    ASSUME GridInv, Begun(grid), grid.handlers # 0, DevicesNext
    PROVE  grid'.handlers # 0
<1>1. grid \in GridScripts /\ grid.asked \in SUBSET Devices
  BY GridFields DEF GridInv, GridOK
<1>2. CASE ColumnsAnswered
  <2> DEFINE g == Phased(grid, "ready", MaxHandlers)
  <2>1. grid' = Requested(g, grid.asked) /\ MaxHandlers \in 0..MaxHandlers /\ MaxHandlers > 0
    BY <1>2 DEF ColumnsAnswered, Phased, MaxHandlers
  <2>2. g \in GridScripts
    BY <2>1, PhasedOK DEF GridInv, GridOK
  <2>3. g.handlers = MaxHandlers
    BY <1>1 DEF Phased, GridScripts
  <2> HIDE DEF g
  <2> QED BY <1>1, <2>1, <2>2, <2>3, RequestedIs
<1>3. ASSUME NEW q \in Searches, FilterLoaded(q) PROVE grid'.handlers # 0
  BY <1>3 DEF FilterLoaded, GridInv, GridOK
<1>4. ASSUME NEW q \in Searches, NEW g, Kept(g, grid), Filtered(g, q) PROVE grid'.handlers # 0
  <2>1. Kept(Unchecked(g), grid)
    BY <1>4, UncheckedIs DEF Kept
  <2>2. grid' = Requested(Unchecked(g), q)
    BY <1>4 DEF Filtered
  <2> QED BY <2>1, <2>2, SearchesAre, RequestedIs DEF Kept
<1>5. ASSUME NEW q \in Searches, AskGrid(q) PROVE grid'.handlers # 0
  <2>1. CASE grid' = Requested(grid, q)
    BY <1>1, <2>1, SearchesAre, RequestedIs
  <2>2. CASE Filtered(grid, q)
    <3>1. Kept(grid, grid)
      BY <1>1 DEF Kept
    <3> QED BY <1>4, <2>2, <3>1
  <2> QED BY <1>5, <2>1, <2>2 DEF AskGrid
<1>6. ASSUME NEW q \in Searches, SelectionFound(q) PROVE grid'.handlers # 0
  <2> DEFINE g == [grid EXCEPT !.saving = "no"]
  <2>1. Kept(g, grid)
    BY <1>1, CoversSame DEF Same
  <2>2. Filtered(g, q)
    BY <1>6 DEF SelectionFound
  <2> HIDE DEF g
  <2> QED BY <1>4, <2>1, <2>2
<1>7. CASE GridFailed \/ ColumnsUpdated
  <2> DEFINE fail == UncoveredGrid(grid)
             update == Covered(Touched(grid))
  <2>1. Kept(fail, grid)
    BY <1>1, CoversSame DEF Same
  <2>2. Kept(Touched(grid), grid)
    BY <1>1, TouchedIs
  <2>3. Kept(update, grid)
    BY <2>2, CoversSame DEF Same, Kept
  <2>4. \/ grid' = [fail EXCEPT !.waiting = FALSE, !.request = {}]
        \/ grid' = [update EXCEPT !.phase = "columns", !.rows = {}, !.marked = {}]
    BY <1>7 DEF GridFailed, ColumnsUpdated
  <2> HIDE DEF fail, update
  <2> QED BY <2>1, <2>3, <2>4 DEF GridScripts, Kept
<1>8. CASE RowsStay \/ UNCHANGED grid
  BY <1>8 DEF RowsStay
<1> QED BY <1>2, <1>3, <1>5, <1>6, <1>7, <1>8, GridAnsweredGrid, PaneOnlyGrid, HighlightsStay, TimersStay, CoversStay
       DEF DevicesNext, DevicesGoOn, PaneOnly

LEMMA DevicesNextGrid ==
    ASSUME GridInv, Begun(grid), DevicesNext
    PROVE  GridInv' /\ Begun(grid')
<1>1. Begun(grid')
  BY BegunNext, HandlersStay DEF Begun
<1>2. ASSUME PaneOnly PROVE GridInv'
  BY <1>2, PaneOnlyGrid DEF GridInv
<1>3. ASSUME \/ FilterSaved \/ FilterUnsaved \/ SaveSelection
             \/ SelectionUnsaved \/ SelectionNotFound
      PROVE  GridInv'
  BY <1>3, SavingsGrid, SameOK DEF GridInv
<1>4. GridInv'
  BY <1>2, <1>3, ColumnsAnsweredGrid, FilterLoadedGrid, PhaseGrid, AskGridGrid, ClickDeviceGrid,
     CheckDeviceGrid, UnselectedGrid, SelectionSavedGrid, SelectionFoundGrid, GridAnsweredGrid,
     GridFailedGrid, SetDefaultRowGrid, ColumnsUpdatedGrid
     DEF DevicesNext, DevicesGoOn, PaneOnly
<1> QED BY <1>1, <1>4

-----------------------------------------------------------------------------
(* The pane: its requests *)

DetailFlights == [of : Views, loader : BOOLEAN, superseded : BOOLEAN]

\* a request for the details of a device is never the loader; and it is for the
\* device the script has, or a later one is, or one has been answered
Linked(fs, d) ==
    \A i \in 1..Len(fs) : fs[i].of \in Devices =>
        /\ ~fs[i].loader
        /\ \/ fs[i].of = d \/ fs[i].superseded
           \/ \E j \in 1..Len(fs) : j > i /\ fs[j].of \in Devices /\ fs[j].of = d

LEMMA DetailFlightsMaySupersede ==
    /\ MaySupersede(DetailFlights)
    /\ \A f \in DetailFlights :
          /\ Superseded(f).of = f.of /\ Superseded(f).loader = f.loader /\ Superseded(f).superseded
  BY DEF MaySupersede, Superseded, DetailFlights

LEMMA NoLoaderIs ==
    ASSUME NEW f \in DetailFlights
    PROVE  /\ NoLoader(f) \in DetailFlights /\ NoLoader(f).of = f.of /\ ~NoLoader(f).loader
           /\ NoLoader(f).superseded = f.superseded
  BY DEF NoLoader, DetailFlights

LEMMA UnloadedLinked ==
    ASSUME NEW fs \in Seq(DetailFlights), NEW d, Linked(fs, d)
    PROVE  LET gs == [i \in DOMAIN fs |-> NoLoader(fs[i])]
           IN  gs \in Seq(DetailFlights) /\ Linked(gs, d)
<1> DEFINE gs == [i \in DOMAIN fs |-> NoLoader(fs[i])]
           n == Len(fs)
<1>1. n \in Nat /\ DOMAIN fs = 1..n /\ \A i \in 1..n : fs[i] \in DetailFlights
  OBVIOUS
<1>2. \A i \in 1..n : gs[i] = NoLoader(fs[i])
  BY <1>1
<1>3. \A i \in 1..n : /\ gs[i] \in DetailFlights /\ gs[i].of = fs[i].of /\ ~gs[i].loader
                      /\ gs[i].superseded = fs[i].superseded
  BY <1>1, <1>2, NoLoaderIs
<1>4. gs \in [1..n -> DetailFlights]
  BY <1>1, <1>3
<1>5. gs \in Seq(DetailFlights) /\ Len(gs) = n
  BY <1>1, <1>4
<1>6. \A i \in 1..n : fs[i].of \in Devices =>
        \/ fs[i].of = d \/ fs[i].superseded
        \/ \E j \in 1..n : j > i /\ fs[j].of \in Devices /\ fs[j].of = d
  BY DEF Linked
<1> HIDE DEF gs, n
<1>7. \A i \in 1..n : gs[i].of \in Devices =>
        /\ ~gs[i].loader
        /\ \/ gs[i].of = d \/ gs[i].superseded
           \/ \E j \in 1..n : j > i /\ gs[j].of \in Devices /\ gs[j].of = d
  BY <1>3, <1>6
<1> QED BY <1>5, <1>7 DEF Linked, gs, n

\* a request joins: the other views ask without, the details of a device with a new device
LEMMA JoinedLinked ==
    ASSUME NEW fs \in Seq(DetailFlights), NEW d, NEW e, Linked(fs, d), NEW f \in DetailFlights,
           \/ f.of \notin Devices /\ e = d
           \/ f.of \in Devices /\ ~f.loader /\ e = f.of
    PROVE  LET gs == Append(fs, f)
           IN  gs \in Seq(DetailFlights) /\ gs # <<>> /\ Linked(gs, e)
<1> DEFINE gs == Append(fs, f)
           n == Len(fs)
<1>1. n \in Nat /\ Len(gs) = n + 1 /\ gs \in Seq(DetailFlights) /\ gs # <<>>
      /\ gs[n + 1] = f /\ \A i \in 1..n : gs[i] = fs[i]
  BY AppendProperties
<1>2. \A i \in 1..n : fs[i].of \in Devices =>
        /\ ~fs[i].loader
        /\ \/ fs[i].of = d \/ fs[i].superseded
           \/ \E j \in 1..n : j > i /\ fs[j].of \in Devices /\ fs[j].of = d
  BY DEF Linked
<1> HIDE DEF gs, n
<1>3. \A i \in 1..(n + 1) : gs[i].of \in Devices =>
        /\ ~gs[i].loader
        /\ \/ gs[i].of = e \/ gs[i].superseded
           \/ \E j \in 1..(n + 1) : j > i /\ gs[j].of \in Devices /\ gs[j].of = e
  <2> SUFFICES ASSUME NEW i \in 1..(n + 1), gs[i].of \in Devices
               PROVE  /\ ~gs[i].loader
                      /\ \/ gs[i].of = e \/ gs[i].superseded
                         \/ \E j \in 1..(n + 1) : j > i /\ gs[j].of \in Devices /\ gs[j].of = e
    OBVIOUS
  <2>1. CASE i = n + 1
    BY <1>1, <2>1
  <2>2. CASE i # n + 1
    <3>1. i \in 1..n /\ i < n + 1 /\ n + 1 \in 1..(n + 1)
      BY <1>1, <2>2
    <3>2. gs[i] = fs[i] /\ ~gs[i].loader
      BY <1>1, <1>2, <3>1
    <3>3. CASE f.of \in Devices /\ e = f.of
      BY <1>1, <3>1, <3>2, <3>3
    <3>4. CASE e = d
      <4>1. CASE gs[i].of = d \/ gs[i].superseded
        BY <3>2, <3>4, <4>1
      <4>2. CASE ~(gs[i].of = d \/ gs[i].superseded)
        <5>1. PICK j \in 1..n : j > i /\ fs[j].of \in Devices /\ fs[j].of = d
          BY <1>2, <3>1, <3>2, <4>2
        <5>2. j \in 1..(n + 1) /\ gs[j] = fs[j]
          BY <1>1, <5>1
        <5>3. QED BY <3>2, <3>4, <5>1, <5>2
      <4>3. QED BY <4>1, <4>2
    <3>5. QED BY <3>3, <3>4
  <2> QED BY <2>1, <2>2
<1> QED BY <1>1, <1>3 DEF Linked, gs

\* the loader is aborted
LEMMA AbortedLinked ==
    ASSUME NEW fs \in Seq(DetailFlights), NEW d, Linked(fs, d), NEW i \in 1..Len(fs), fs[i].loader
    PROVE  RemoveAt(fs, i) \in Seq(DetailFlights) /\ Linked(RemoveAt(fs, i), d)
<1> DEFINE gs == RemoveAt(fs, i)
           n == Len(fs)
<1>1. n \in Nat /\ i \in 1..n
  OBVIOUS
<1>2. /\ gs \in Seq(DetailFlights) /\ Len(gs) = n - 1
      /\ \A k \in 1..(n - 1) : gs[k] = IF k < i THEN fs[k] ELSE fs[k + 1]
  BY RemovedAt
<1>3. \A k \in 1..n : fs[k].of \in Devices =>
        /\ ~fs[k].loader
        /\ \/ fs[k].of = d \/ fs[k].superseded
           \/ \E j \in 1..n : j > k /\ fs[j].of \in Devices /\ fs[j].of = d
  BY DEF Linked
<1>4. fs[i].of \notin Devices
  BY <1>1, <1>3
<1> HIDE DEF gs, n
<1>5. ASSUME NEW k \in 1..(n - 1), gs[k].of \in Devices
      PROVE  /\ ~gs[k].loader
             /\ \/ gs[k].of = d \/ gs[k].superseded
                \/ \E j \in 1..(n - 1) : j > k /\ gs[j].of \in Devices /\ gs[j].of = d
  <2> DEFINE o == IF k < i THEN k ELSE k + 1
  <2>1. o \in 1..n /\ gs[k] = fs[o]
    BY <1>1, <1>2
  <2>2. CASE fs[o].of = d \/ fs[o].superseded
    BY <1>3, <1>5, <2>1, <2>2
  <2>3. CASE ~(fs[o].of = d \/ fs[o].superseded)
    <3>1. PICK j \in 1..n : j > o /\ fs[j].of \in Devices /\ fs[j].of = d
      BY <1>3, <1>5, <2>1, <2>3
    <3>2. j # i
      BY <1>4, <3>1
    <3> DEFINE m == IF j < i THEN j ELSE j - 1
    <3>3. m \in 1..(n - 1) /\ m > k
      BY <1>1, <3>1, <3>2
    <3>4. gs[m] = fs[j]
      BY <1>1, <1>2, <3>2, <3>3
    <3>5. QED BY <1>3, <1>5, <2>1, <3>1, <3>3, <3>4
  <2> QED BY <2>2, <2>3
<1>6. \A k \in 1..(n - 1) : gs[k].of \in Devices =>
        /\ ~gs[k].loader
        /\ \/ gs[k].of = d \/ gs[k].superseded
           \/ \E j \in 1..(n - 1) : j > k /\ gs[j].of \in Devices /\ gs[j].of = d
  BY <1>5
<1> QED BY <1>2, <1>6 DEF Linked, gs

\* a request ends: a view it leaves wrong is overtaken, or another is on its way
LEMMA AnsweredLinked ==
    ASSUME NEW fs \in Seq(DetailFlights), NEW d, Linked(fs, d), NEW i \in 1..Len(fs)
    PROVE  /\ Answered(fs, i) \in Seq(DetailFlights) /\ Linked(Answered(fs, i), d)
           /\ fs[i].of \in Devices =>
                fs[i].of = d \/ Answered(fs, i) # <<>> \/ fs[i].superseded
<1> DEFINE gs == Answered(fs, i)
           n == Len(fs)
<1>1. n \in Nat /\ i \in 1..n /\ \A k \in 1..n : fs[k] \in DetailFlights
  OBVIOUS
<1>2. /\ gs \in Seq(DetailFlights) /\ Len(gs) = n - 1
      /\ \A k \in 1..(n - 1) : gs[k] = IF k < i THEN Superseded(fs[k]) ELSE fs[k + 1]
  BY DetailFlightsMaySupersede, AnsweredIs
<1>3. \A k \in 1..n : fs[k].of \in Devices =>
        /\ ~fs[k].loader
        /\ \/ fs[k].of = d \/ fs[k].superseded
           \/ \E j \in 1..n : j > k /\ fs[j].of \in Devices /\ fs[j].of = d
  BY DEF Linked
<1> HIDE DEF gs, n
<1>4. ASSUME NEW k \in 1..(n - 1), gs[k].of \in Devices
      PROVE  /\ ~gs[k].loader
             /\ \/ gs[k].of = d \/ gs[k].superseded
                \/ \E j \in 1..(n - 1) : j > k /\ gs[j].of \in Devices /\ gs[j].of = d
  <2>1. CASE k < i
    <3>1. k \in 1..n /\ gs[k] = Superseded(fs[k])
      BY <1>1, <1>2, <2>1
    <3>2. gs[k].of = fs[k].of /\ gs[k].loader = fs[k].loader /\ gs[k].superseded
      BY <1>1, <3>1, DetailFlightsMaySupersede
    <3>3. QED BY <1>3, <1>4, <3>1, <3>2
  <2>2. CASE ~(k < i)
    <3>1. k + 1 \in 1..n /\ gs[k] = fs[k + 1]
      BY <1>1, <1>2, <2>2
    <3>2. CASE fs[k + 1].of = d \/ fs[k + 1].superseded
      BY <1>3, <1>4, <3>1, <3>2
    <3>3. CASE ~(fs[k + 1].of = d \/ fs[k + 1].superseded)
      <4>1. PICK j \in 1..n : j > k + 1 /\ fs[j].of \in Devices /\ fs[j].of = d
        BY <1>3, <1>4, <3>1, <3>3
      <4> DEFINE m == j - 1
      <4>2. m \in 1..(n - 1) /\ m > k /\ ~(m < i) /\ m + 1 = j
        BY <1>1, <2>2, <4>1
      <4>3. gs[m] = fs[j]
        BY <1>2, <4>2
      <4>4. QED BY <1>3, <1>4, <3>1, <4>1, <4>2, <4>3
    <3>4. QED BY <3>2, <3>3
  <2> QED BY <2>1, <2>2
<1>5. ASSUME fs[i].of \in Devices, fs[i].of # d, ~fs[i].superseded
      PROVE  gs # <<>>
  <2>1. PICK j \in 1..n : j > i
    BY <1>1, <1>3, <1>5
  <2>2. Len(gs) # 0
    BY <1>1, <1>2, <2>1
  <2> QED BY <2>2
<1>6. \A k \in 1..(n - 1) : gs[k].of \in Devices =>
        /\ ~gs[k].loader
        /\ \/ gs[k].of = d \/ gs[k].superseded
           \/ \E j \in 1..(n - 1) : j > k /\ gs[j].of \in Devices /\ gs[j].of = d
  BY <1>4
<1> QED BY <1>2, <1>5, <1>6 DEF Linked, gs

-----------------------------------------------------------------------------
(* The pane: the invariant *)

PaneRecords ==
    [device : AnyDevice, flights : Seq(DetailFlights), open : BOOLEAN,
     content : {"cleared", "view", "failed"}, of : Views \union {Nobody}, overtaken : BOOLEAN,
     covered : BOOLEAN, updating : BOOLEAN, saving : BOOLEAN,
     puts : SUBSET AnyDevice]

LinkOK(p) ==
    (p.content = "view" /\ p.of \in Devices) =>
        p.of = p.device \/ p.flights # <<>> \/ p.overtaken

PaneOK(p) ==
    /\ p \in PaneRecords
    /\ p.content # "cleared" => p.of \in Views
    /\ Linked(p.flights, p.device)
    /\ LinkOK(p)

LEMMA PaneTyped == PaneRecords = DetailsScripts
  BY DEF PaneRecords, DetailsScripts, DetailFlights

LEMMA ViewsApart ==
    /\ Editor \notin Devices /\ JobForm \notin Devices
    /\ Editor \in Views /\ JobForm \in Views
    /\ \A d \in Devices : d \in Views /\ d \in AnyDevice
  BY ViewsAssumption DEF Views, AnyDevice

\* a step that leaves alone what the invariant is about
LEMMA SamePaneOK ==
    ASSUME NEW p, PaneOK(p), NEW q \in PaneRecords, q.content = p.content, q.of = p.of,
           q.flights = p.flights, q.device = p.device, q.overtaken = p.overtaken
    PROVE  PaneOK(q)
  BY DEF PaneOK, LinkOK

\* the requests of p become fs; nothing else that matters, but the device, changes
LEMMA AskedOK ==
    ASSUME NEW p, PaneOK(p), NEW q \in PaneRecords, q.content = p.content, q.of = p.of,
           q.flights # <<>>, Linked(q.flights, q.device)
    PROVE  PaneOK(q)
  BY DEF PaneOK, LinkOK

LEMMA SendsOK ==
    ASSUME NEW p, PaneOK(p), NEW v \in Views \ Devices, NEW loader \in BOOLEAN
    PROVE  LET q == Sends(p, v, loader)
           IN  PaneOK(q) /\ q.device = p.device /\ q.open = p.open
<1> DEFINE new == [of |-> v, loader |-> loader, superseded |-> FALSE]
           unloaded == [i \in DOMAIN p.flights |-> NoLoader(p.flights[i])]
           before == IF loader THEN unloaded ELSE p.flights
           fs == Append(before, new)
           q == Sends(p, v, loader)
<1>1. p \in PaneRecords /\ p.flights \in Seq(DetailFlights) /\ Linked(p.flights, p.device)
  BY DEF PaneOK, PaneRecords
<1>2. new \in DetailFlights /\ new.of \notin Devices
  BY DEF DetailFlights
<1>3. unloaded \in Seq(DetailFlights) /\ Linked(unloaded, p.device)
  BY <1>1, UnloadedLinked
<1>4. before \in Seq(DetailFlights) /\ Linked(before, p.device)
  BY <1>1, <1>3
<1>5. q = [p EXCEPT !.flights = fs, !.covered = TRUE]
  BY DEF Sends
<1> HIDE DEF new, before, q
<1>6. fs \in Seq(DetailFlights) /\ fs # <<>> /\ Linked(fs, p.device)
  BY <1>2, <1>4, JoinedLinked
<1> HIDE DEF fs
<1>7. /\ q \in PaneRecords /\ q.device = p.device /\ q.open = p.open /\ q.flights = fs
      /\ q.content = p.content /\ q.of = p.of
  BY <1>1, <1>5, <1>6 DEF PaneRecords
<1>8. PaneOK(q)
  BY <1>6, <1>7, AskedOK
<1> QED BY <1>7, <1>8 DEF q

LEMMA DetailedOK ==
    ASSUME NEW p, PaneOK(p), NEW d \in Devices
    PROVE  LET q == Detailed(p, d)
           IN  PaneOK(q) /\ q.device = d /\ q.open = p.open
<1> DEFINE new == [of |-> d, loader |-> FALSE, superseded |-> FALSE]
           fs == Append(p.flights, new)
           s == Sends(p, d, FALSE)
           q == Detailed(p, d)
<1>1. p \in PaneRecords /\ p.flights \in Seq(DetailFlights) /\ Linked(p.flights, p.device)
  BY DEF PaneOK, PaneRecords
<1>2. new \in DetailFlights /\ new.of = d /\ ~new.loader
  BY ViewsApart DEF DetailFlights
<1>3. s = [p EXCEPT !.flights = fs, !.covered = TRUE]
  BY DEF Sends
<1>4. q = [s EXCEPT !.device = d]
  BY DEF Detailed
<1> HIDE DEF new, q, s
<1>5. fs \in Seq(DetailFlights) /\ fs # <<>> /\ Linked(fs, d)
  BY <1>1, <1>2, JoinedLinked
<1> HIDE DEF fs
<1>6. /\ s \in PaneRecords /\ s.open = p.open /\ s.flights = fs /\ s.content = p.content /\ s.of = p.of
  BY <1>1, <1>3, <1>5 DEF PaneRecords
<1>7. /\ q \in PaneRecords /\ q.device = d /\ q.open = p.open /\ q.flights = fs
      /\ q.content = p.content /\ q.of = p.of
  BY <1>4, <1>6, ViewsApart DEF PaneRecords
<1>8. PaneOK(q)
  BY <1>5, <1>7, AskedOK
<1> QED BY <1>7, <1>8 DEF q

LEMMA ShownOK ==
    ASSUME NEW p, PaneOK(p)
    PROVE  PaneOK(Shown(p)) /\ Shown(p).open /\ Shown(p).device = p.device
<1> DEFINE held == {i \in DOMAIN p.flights : p.flights[i].loader}
           i == CHOOSE i \in held : TRUE
<1>1. /\ p \in PaneRecords /\ p.flights \in Seq(DetailFlights) /\ Linked(p.flights, p.device)
      /\ DOMAIN p.flights = 1..Len(p.flights)
  BY DEF PaneOK, PaneRecords
<1>2. CASE held = {}
  <2> DEFINE q == [p EXCEPT !.open = TRUE]
  <2>1. Shown(p) = q
    BY <1>2 DEF Shown
  <2>2. /\ q \in PaneRecords /\ q.open /\ q.device = p.device /\ q.content = p.content /\ q.of = p.of
        /\ q.flights = p.flights /\ q.overtaken = p.overtaken
    BY <1>1 DEF PaneRecords
  <2> HIDE DEF q
  <2> QED BY <2>1, <2>2, SamePaneOK
<1>3. CASE held # {}
  <2> DEFINE of == p.flights[i].of
             left == RemoveAt(p.flights, i)
             f == Filled(p, "failed", of)
             q == [f EXCEPT !.open = TRUE, !.flights = RemoveAt(@, i), !.covered = FALSE]
  <2>1. Shown(p) = q
    BY <1>3 DEF Shown
  <2>2. i \in 1..Len(p.flights) /\ p.flights[i].loader
    BY <1>1, <1>3
  <2> HIDE DEF i
  <2>3. left \in Seq(DetailFlights) /\ Linked(left, p.device) /\ of \in Views
    <3>1. p.flights[i] \in DetailFlights
      BY <1>1, <2>2
    <3>2. QED BY <1>1, <2>2, <3>1, AbortedLinked DEF DetailFlights
  <2> HIDE DEF of
  <2>4. f = [p EXCEPT !.content = "failed", !.of = of, !.overtaken = FALSE]
    BY DEF Filled
  <2> HIDE DEF f
  <2>5. f \in PaneRecords /\ f.flights = p.flights /\ f.content = "failed" /\ f.of = of
        /\ f.device = p.device
    BY <1>1, <2>3, <2>4 DEF PaneRecords
  <2>6. q = [f EXCEPT !.open = TRUE, !.flights = left, !.covered = FALSE]
    BY <2>5 DEF PaneRecords
  <2> HIDE DEF left, q
  <2>7. /\ q \in PaneRecords /\ q.open /\ q.device = p.device /\ q.content = "failed" /\ q.of = of
        /\ q.flights = left
    BY <2>3, <2>5, <2>6 DEF PaneRecords
  <2>8. PaneOK(q)
    BY <2>3, <2>7 DEF PaneOK, LinkOK
  <2> QED BY <2>1, <2>7, <2>8
<1> QED BY <1>2, <1>3

LEMMA ClosedPaneOK ==
    ASSUME NEW p, PaneOK(p)
    PROVE  PaneOK(ClosedPane(p)) /\ ~ClosedPane(p).open /\ ClosedPane(p).content = "cleared"
<1> DEFINE f == Filled(p, "cleared", Nobody)
           q == [f EXCEPT !.open = FALSE]
<1>1. p \in PaneRecords /\ f = [p EXCEPT !.content = "cleared", !.of = Nobody, !.overtaken = FALSE]
      /\ ClosedPane(p) = q
  BY DEF PaneOK, Filled, ClosedPane
<1> HIDE DEF f
<1>2. f \in PaneRecords /\ f.flights = p.flights /\ f.content = "cleared" /\ f.device = p.device
  BY <1>1 DEF PaneRecords
<1>3. /\ q \in PaneRecords /\ q.flights = p.flights /\ q.content = "cleared" /\ q.device = p.device
      /\ ~q.open
  BY <1>2 DEF PaneRecords
<1> HIDE DEF q
<1> QED BY <1>1, <1>3 DEF PaneOK, LinkOK

LEMMA ViewCameOK ==
    ASSUME PaneOK(details), NEW i, ViewCame(i)
    PROVE  PaneOK(details')
<1> DEFINE fs == details.flights
           of == fs[i].of
           o == fs[i].superseded
           left == Answered(fs, i)
           open == details.open \/ of = Editor
           f == Filled(details, "view", of)
<1>1. /\ i \in DOMAIN fs
      /\ details' = [f EXCEPT !.flights = Answered(@, i), !.covered = FALSE, !.overtaken = o,
                              !.open = @ \/ of = Editor]
  BY DEF ViewCame
<1>2. /\ details \in PaneRecords /\ fs \in Seq(DetailFlights) /\ Linked(fs, details.device)
      /\ i \in 1..Len(fs) /\ fs[i] \in DetailFlights
  BY <1>1 DEF PaneOK, PaneRecords
<1>3. of \in Views /\ o \in BOOLEAN
  BY <1>2 DEF DetailFlights
<1>4. /\ left \in Seq(DetailFlights) /\ Linked(left, details.device)
      /\ of \in Devices => of = details.device \/ left # <<>> \/ o
  BY <1>2, AnsweredLinked
<1>5. f = [details EXCEPT !.content = "view", !.of = of, !.overtaken = FALSE]
  BY DEF Filled
<1> HIDE DEF of, o, f
<1>6. /\ f \in PaneRecords /\ f.flights = fs /\ f.content = "view" /\ f.of = of
      /\ f.device = details.device /\ f.open = details.open
  BY <1>2, <1>3, <1>5 DEF PaneRecords
<1>7. details' = [f EXCEPT !.flights = left, !.covered = FALSE, !.overtaken = o, !.open = open]
  BY <1>1, <1>6 DEF PaneRecords
<1>8. open \in BOOLEAN
  OBVIOUS
<1> HIDE DEF fs, left, open
<1>9. /\ details' \in PaneRecords /\ details'.flights = left /\ details'.content = "view"
      /\ details'.of = of /\ details'.device = details.device /\ details'.overtaken = o
  BY <1>3, <1>4, <1>6, <1>7, <1>8 DEF PaneRecords
<1>10. LinkOK(details')
  BY <1>4, <1>9 DEF LinkOK
<1> QED BY <1>3, <1>4, <1>9, <1>10 DEF PaneOK

LEMMA ViewDidNotComeOK ==
    ASSUME PaneOK(details), NEW i, ViewDidNotCome(i)
    PROVE  PaneOK(details')
<1> DEFINE fs == details.flights
           of == fs[i].of
           left == Answered(fs, i)
           f == Filled(details, "failed", of)
<1>1. /\ i \in DOMAIN fs
      /\ details' = [f EXCEPT !.flights = Answered(@, i), !.covered = FALSE]
  BY DEF ViewDidNotCome
<1>2. /\ details \in PaneRecords /\ fs \in Seq(DetailFlights) /\ Linked(fs, details.device)
      /\ i \in 1..Len(fs) /\ fs[i] \in DetailFlights
  BY <1>1 DEF PaneOK, PaneRecords
<1>3. of \in Views
  BY <1>2 DEF DetailFlights
<1>4. left \in Seq(DetailFlights) /\ Linked(left, details.device)
  BY <1>2, AnsweredLinked
<1>5. f = [details EXCEPT !.content = "failed", !.of = of, !.overtaken = FALSE]
  BY DEF Filled
<1> HIDE DEF of, f
<1>6. f \in PaneRecords /\ f.flights = fs /\ f.content = "failed" /\ f.of = of /\ f.device = details.device
  BY <1>2, <1>3, <1>5 DEF PaneRecords
<1>7. details' = [f EXCEPT !.flights = left, !.covered = FALSE]
  BY <1>1, <1>6 DEF PaneRecords
<1> HIDE DEF fs, left
<1>8. /\ details' \in PaneRecords /\ details'.flights = left /\ details'.content = "failed"
      /\ details'.of = of /\ details'.device = details.device
  BY <1>4, <1>6, <1>7 DEF PaneRecords
<1>9. LinkOK(details')
  BY <1>8 DEF LinkOK
<1> QED BY <1>3, <1>4, <1>8, <1>9 DEF PaneOK

LEMMA TogglesOK ==
    ASSUME PaneOK(details),
           \/ ToggleDetails \/ FilterUnsaved \/ UpdateColumns \/ ColumnsUpdated \/ ColumnsNotUpdated
           \/ SwitchDevice \/ SwitchEnds
    PROVE  PaneOK(details')
<1> DEFINE Like(q) == /\ q \in PaneRecords /\ q.content = details.content /\ q.of = details.of
                      /\ q.flights = details.flights /\ q.device = details.device
                      /\ q.overtaken = details.overtaken
<1>1. details \in PaneRecords
  BY DEF PaneOK
<1>2. ASSUME ToggleDetails PROVE Like(details')
  BY <1>1, <1>2 DEF ToggleDetails, PaneRecords
<1>3. ASSUME FilterUnsaved PROVE Like(details')
  BY <1>1, <1>3 DEF FilterUnsaved, Uncovered, PaneRecords
<1>4. ASSUME UpdateColumns PROVE Like(details')
  BY <1>1, <1>4 DEF UpdateColumns, PaneRecords
<1>5. ASSUME ColumnsUpdated PROVE Like(details')
  BY <1>1, <1>5 DEF ColumnsUpdated, Covered, PaneRecords
<1>6. ASSUME ColumnsNotUpdated PROVE Like(details')
  BY <1>1, <1>6 DEF ColumnsNotUpdated, PaneRecords
<1>7. ASSUME SwitchDevice PROVE Like(details')
  BY <1>1, <1>7 DEF SwitchDevice, PaneRecords
<1>8. ASSUME SwitchEnds PROVE Like(details')
  BY <1>1, <1>8 DEF SwitchEnds, PaneRecords
<1>9. Like(details')
  BY <1>2, <1>3, <1>4, <1>5, <1>6, <1>7, <1>8
<1> QED BY <1>9, SamePaneOK

LEMMA ClickDevicePane ==
    ASSUME PaneOK(details), NEW d \in Devices, ClickDevice(d)
    PROVE  PaneOK(details')
<1> DEFINE once == Detailed(Shown(details), d)
<1>1. details' = IF grid.handlers < MaxHandlers THEN once ELSE Detailed(once, d)
  BY DEF ClickDevice
<1>2. PaneOK(once)
  BY ShownOK, DetailedOK
<1> HIDE DEF once
<1>3. PaneOK(Detailed(once, d))
  BY <1>2, DetailedOK
<1> QED BY <1>1, <1>2, <1>3

LEMMA CheckDevicePane ==
    ASSUME PaneOK(details), NEW d \in Devices, CheckDevice(d)
    PROVE  PaneOK(details')
<1>1. details' \in {details, ClosedPane(details)}
  BY DEF CheckDevice
<1> QED BY <1>1, ClosedPaneOK

LEMMA ButtonsPane ==
    ASSUME PaneOK(details), EditColumns \/ ScheduleJob
    PROVE  PaneOK(details')
<1>1. PaneOK(Shown(details))
  BY ShownOK
<1>2. ASSUME NEW v \in {Editor, JobForm} PROVE PaneOK(Sends(Shown(details), v, TRUE))
  BY <1>1, ViewsApart, SendsOK
<1>3. CASE details' \in {Sends(Shown(details), Editor, TRUE), Sends(Shown(details), JobForm, TRUE)}
  BY <1>2, <1>3
<1>4. CASE details' = [Covered(Shown(details)) EXCEPT !.saving = TRUE]
  <2> DEFINE p == Shown(details)
  <2>1. p \in PaneRecords /\ details' = [[p EXCEPT !.covered = TRUE] EXCEPT !.saving = TRUE]
    BY <1>1, <1>4 DEF PaneOK, Covered
  <2>2. PaneOK(p)
    BY <1>1
  <2> HIDE DEF p
  <2>3. /\ details' \in PaneRecords /\ details'.content = p.content /\ details'.of = p.of
        /\ details'.flights = p.flights /\ details'.device = p.device
        /\ details'.overtaken = p.overtaken
    BY <2>1 DEF PaneRecords
  <2> QED BY <2>2, <2>3, SamePaneOK
<1> QED BY <1>3, <1>4 DEF EditColumns, ScheduleJob

LEMMA FilterSavedPane ==
    ASSUME PaneOK(details), FilterSaved
    PROVE  PaneOK(details')
<1> DEFINE p == Sends(details, JobForm, TRUE)
<1>1. PaneOK(p) /\ details' = [p EXCEPT !.saving = FALSE]
  BY ViewsApart, SendsOK DEF FilterSaved
<1> HIDE DEF p
<1>2. /\ details' \in PaneRecords /\ details'.content = p.content /\ details'.of = p.of
      /\ details'.flights = p.flights /\ details'.device = p.device
      /\ details'.overtaken = p.overtaken
  BY <1>1 DEF PaneOK, PaneRecords
<1> QED BY <1>1, <1>2, SamePaneOK

LEMMA RetryViewPane ==
    ASSUME PaneOK(details), RetryView
    PROVE  PaneOK(details')
<1>1. details.of \in Views
  BY DEF PaneOK, RetryView
<1>2. CASE details.of \in Devices
  BY <1>2, DetailedOK DEF RetryView
<1>3. CASE details.of \notin Devices
  <2>1. details.of \in Views \ Devices /\ details' = Sends(details, details.of, FALSE)
    BY <1>1, <1>3 DEF RetryView
  <2> QED BY <2>1, SendsOK
<1> QED BY <1>2, <1>3

LEMMA SetDefaultRowPane ==
    ASSUME GridInv, PaneOK(details), SetDefaultRow
    PROVE  /\ PaneOK(details')
           /\ grid.default \in grid.rows => details'.open /\ details'.device = grid.default
           /\ grid.default = NoDevice /\ grid.sought =>
                 ~details'.open /\ details'.content = "cleared"
<1>1. grid.rows \subseteq Devices
  BY GridFields DEF GridInv, GridOK
<1>2. CASE grid.default \in grid.rows
  <2>1. details' = Detailed(Shown(details), grid.default) /\ grid.default # NoDevice
    BY <1>1, <1>2, NobodyIsDevice DEF SetDefaultRow
  <2>2. PaneOK(Shown(details)) /\ Shown(details).open
    BY ShownOK
  <2> QED BY <1>1, <1>2, <2>1, <2>2, DetailedOK
<1>3. CASE grid.default \notin grid.rows
  <2>1. details' = details \/ details' = ClosedPane(details)
    BY <1>3 DEF SetDefaultRow
  <2>2. grid.default = NoDevice /\ grid.sought => details' = ClosedPane(details)
    BY <1>3 DEF SetDefaultRow
  <2> QED BY <1>3, <2>1, <2>2, ClosedPaneOK
<1> QED BY <1>2, <1>3

\* the rest of the page covers or uncovers the pane, or leaves it alone
GridOnly ==
    \/ ColumnsAnswered \/ ColumnsFailed \/ ClausesFailed \/ GridAnswered \/ GridFailed \/ RetryColumns
    \/ SaveSelection \/ SelectionSaved \/ SelectionUnsaved \/ SelectionNotFound
    \/ \E q \in Searches : FilterLoaded(q) \/ AskGrid(q) \/ SelectionFound(q)

LEMMA CoversPane ==
    ASSUME GridOnly
    PROVE  details' = details \/ \E b \in BOOLEAN : details' = [details EXCEPT !.covered = b]
<1>1. CASE details' \in {details, Covered(details), Uncovered(details)}
  BY <1>1 DEF Covered, Uncovered
<1>2. ASSUME NEW g, details' = RequestCovers(details, g)
      PROVE  \E b \in BOOLEAN : details' = [details EXCEPT !.covered = b]
  <2> DEFINE b == ~g.waiting
  <2>1. b \in BOOLEAN /\ details' = [details EXCEPT !.covered = b]
    BY <1>2 DEF RequestCovers
  <2> QED BY <2>1
<1>3. \/ details' \in {details, Covered(details), Uncovered(details)}
      \/ \E g : details' = RequestCovers(details, g)
  BY DEF GridOnly, ColumnsAnswered, ColumnsFailed, ClausesFailed, GridAnswered, GridFailed,
         RetryColumns, SaveSelection, SelectionSaved, SelectionUnsaved, SelectionNotFound,
         FilterLoaded, AskGrid, SelectionFound, Filtered
<1> QED BY <1>1, <1>2, <1>3

LEMMA GridOnlyPane ==
    ASSUME PaneOK(details), GridOnly
    PROVE  PaneOK(details')
<1>1. CASE details' = details
  BY <1>1
<1>2. ASSUME NEW b \in BOOLEAN, details' = [details EXCEPT !.covered = b]
      PROVE  PaneOK(details')
  <2>1. details \in PaneRecords
    BY DEF PaneOK
  <2>2. /\ details' \in PaneRecords /\ details'.content = details.content
        /\ details'.of = details.of /\ details'.flights = details.flights
        /\ details'.device = details.device /\ details'.overtaken = details.overtaken
    BY <1>2, <2>1 DEF PaneRecords
  <2> QED BY <2>2, SamePaneOK
<1> QED BY <1>1, <1>2, CoversPane

LEMMA DevicesNextPane ==
    ASSUME GridInv, PaneOK(details), DevicesNext
    PROVE  PaneOK(details')
<1>1. CASE GridOnly
  BY <1>1, GridOnlyPane
<1>2. CASE ~GridOnly
  BY <1>2, TogglesOK, ClickDevicePane, CheckDevicePane, ButtonsPane, FilterSavedPane, RetryViewPane,
     SetDefaultRowPane, ViewCameOK, ViewDidNotComeOK DEF DevicesNext, DevicesGoOn, GridOnly
<1> QED BY <1>1, <1>2

-----------------------------------------------------------------------------
(* The page: every step of the site *)

DevicesInv ==
    /\ clicks \in 0..MaxClicks
    /\ GridInv /\ Begun(grid) /\ PaneOK(details)
    /\ page = NoPage => grid = NoGrid /\ details = NoDetails

LEMMA DevicesInvMeans == DevicesInv => DevicesTypeOK /\ DevicesPageAgrees
<1> SUFFICES ASSUME DevicesInv PROVE DevicesTypeOK /\ DevicesPageAgrees
  OBVIOUS
<1>1. DevicesTypeOK
  BY PaneTyped DEF DevicesInv, GridInv, GridOK, PaneOK, DevicesTypeOK
<1>2. CookieIsHighlighted
  BY DEF DevicesInv, GridInv, GridOK, Highlighted, CookieIsHighlighted
<1>3. LinkSwitchesShown
  BY DEF DevicesInv, PaneOK, LinkOK, LinkSwitchesShown
<1> QED BY <1>1, <1>2, <1>3 DEF DevicesPageAgrees

LEMMA EmptyPage ==
    /\ PaneOK(NoDetails)
    /\ \A c \in AnyDevice : GridOK(NoGrid, c)
    /\ Begun(NoGrid)
    /\ 0 \in 0..MaxClicks
<1>1. NoDetails \in PaneRecords
  <2>1. <<>> \in Seq(DetailFlights)
    BY EmptySeq
  <2> QED BY <2>1 DEF NoDetails, PaneRecords, AnyDevice
<1>2. PaneOK(NoDetails)
  <2>1. NoDetails.content = "cleared" /\ Len(NoDetails.flights) = 0
    BY DEF NoDetails
  <2>2. Linked(NoDetails.flights, NoDetails.device)
    BY <2>1 DEF Linked
  <2> QED BY <1>1, <2>1, <2>2 DEF PaneOK, LinkOK
<1>3. NoGrid \in GridScripts
  <2>1. 0 \in 0..MaxHandlers
    BY DEF MaxHandlers
  <2> QED BY <2>1 DEF NoGrid, GridScripts, AnyDevice
<1>4. ASSUME NEW c \in AnyDevice PROVE GridOK(NoGrid, c)
  BY <1>3 DEF GridOK, NoGrid, Highlighted
<1>5. Begun(NoGrid)
  BY DEF Begun, NoGrid
<1>6. 0 \in 0..MaxClicks
  BY DevicesAssumption
<1> QED BY <1>2, <1>4, <1>5, <1>6

LEMMA DevicesNextInv ==
    ASSUME DevicesInv, DevicesNext
    PROVE  DevicesInv'
<1>1. page' = page /\ page # NoPage
  <2>1. page' = page
    BY ElsewhereKeepsPage
  <2>2. OnDevices
    BY DEF DevicesNext, DevicesGoOn, AskGrid, ClickDevice, CheckDevice, RetryColumns, ToggleDetails,
           EditColumns, ScheduleJob, RetryView, UpdateColumns, SwitchDevice, Click, ColumnsAnswered,
           ColumnsFailed, ClausesFailed, FilterLoaded, GridAnswered, GridFailed, SetDefaultRow,
           ViewCame, ViewDidNotCome, ColumnsUpdated, ColumnsNotUpdated, FilterSaved,
           FilterUnsaved, SwitchEnds, SaveSelection, SelectionSaved, SelectionUnsaved,
           SelectionFound, SelectionNotFound
  <2> QED BY <2>1, <2>2 DEF OnDevices, On, NoPage
<1>2. clicks' \in 0..MaxClicks
  <2>1. clicks' = clicks \/ Click
    BY DEF DevicesNext, DevicesGoOn, AskGrid, ClickDevice, CheckDevice, RetryColumns, ToggleDetails,
           EditColumns, ScheduleJob, RetryView, UpdateColumns, SwitchDevice, ColumnsAnswered,
           ColumnsFailed, ClausesFailed, FilterLoaded, GridAnswered, GridFailed, SetDefaultRow,
           ViewCame, ViewDidNotCome, ColumnsUpdated, ColumnsNotUpdated, FilterSaved,
           FilterUnsaved, SwitchEnds, SaveSelection, SelectionSaved, SelectionUnsaved,
           SelectionFound, SelectionNotFound
  <2> QED BY <2>1, DevicesAssumption DEF DevicesInv, Click
<1>3. GridInv' /\ Begun(grid)' /\ PaneOK(details)'
  BY DevicesNextGrid, DevicesNextPane DEF DevicesInv
<1> QED BY <1>1, <1>2, <1>3 DEF DevicesInv

LEMMA SameDevices ==
    ASSUME DevicesInv, UNCHANGED devicesVars, page' = page
    PROVE  DevicesInv'
  BY DEF DevicesInv, GridInv, devicesVars

LEMMA RecordsKeepPage == RecordNext => page' = page
  BY DEF RecordNext, RequestEnds, ClickRow, OthersChange, RedrawRows, ToggleProperties, Retry,
         PressButton, ServiceLists, ListAnswered, ListFailed, ViewAnswered, ViewFailed,
         PostAnswered, PostFailed

LEMMA SiteDevicesInv ==
    ASSUME DevicesInv, [SiteNext]_siteVars
    PROVE  DevicesInv'
<1>1. CASE UNCHANGED siteVars
  BY <1>1, SameDevices DEF siteVars
<1>2. CASE DevicesNext
  BY <1>2, DevicesNextInv
<1>3. CASE Leave
  <2>1. cookie' = NoDevice /\ clicks' = 0 /\ grid' = NoGrid /\ details' = NoDetails
    BY <1>3 DEF Leave
  <2> QED BY <2>1, EmptyPage DEF DevicesInv, GridInv, AnyDevice
<1>4. ASSUME NEW p \in Pages, Open(p) PROVE DevicesInv'
  <2>1. /\ grid = NoGrid /\ details = NoDetails /\ UNCHANGED <<clicks, grid, details>>
        /\ page' # NoPage /\ cookie' \in AnyDevice
    BY <1>4 DEF Open, DevicesInv, GridInv, Pages, NoPage, RecordPageNames
  <2> QED BY <2>1, EmptyPage DEF DevicesInv, GridInv
<1>5. CASE /\ DashboardNext \/ IndicatorsNext \/ RecordNext \/ FiltersNext
           /\ UNCHANGED devicesVars
  <2>1. CASE RecordNext
    BY <1>5, <2>1, RecordsKeepPage, SameDevices
  <2>2. CASE ~RecordNext
    BY <1>5, <2>2, ElsewhereKeepsPage, SameDevices
  <2> QED BY <2>1, <2>2
<1> QED BY <1>1, <1>2, <1>3, <1>4, <1>5 DEF SiteNext

LEMMA InitDevicesInv == SiteInit => DevicesInv
<1> SUFFICES ASSUME SiteInit PROVE DevicesInv
  OBVIOUS
<1>1. cookie = NoDevice /\ clicks = 0 /\ grid = NoGrid /\ details = NoDetails
  BY DEF SiteInit
<1> QED BY <1>1, EmptyPage DEF DevicesInv, GridInv, AnyDevice

LEMMA DevicesAlways == SiteSpec => []DevicesInv
<1>1. DevicesInv /\ [SiteNext]_siteVars => DevicesInv'
  BY SiteDevicesInv
<1> QED BY InitDevicesInv, <1>1, PTL DEF SiteSpec

(* No device is selected that the user does not see, and the link of the pane *)
(* switches the device the pane shows unless another view is on its way or     *)
(* the one shown was overtaken, for any number of devices, clicks and requests *)
(* and however often the columns have been edited.                             *)
THEOREM DevicesPageAgreesAlways == SiteSpec => []DevicesPageAgrees
<1>1. DevicesInv => DevicesPageAgrees
  BY DevicesInvMeans
<1> QED BY DevicesAlways, <1>1, PTL

LEMMA RedrawKeeps ==
    ASSUME DevicesInv
    PROVE  RedrawKeepsDevice
<1> SUFFICES ASSUME SetDefaultRow, grid.handlers = 1, ~grid.hurried, cookie # NoDevice
             PROVE  IF cookie \in grid.rows
                    THEN /\ cookie' = cookie /\ grid'.marked = {cookie} /\ details'.open
                         /\ details'.device = cookie
                    ELSE cookie' = NoDevice /\ ~details'.open /\ details'.content = "cleared"
  BY DEF RedrawKeepsDevice
<1>1. GridInv /\ PaneOK(details) /\ grid \in GridScripts /\ FreshOK(grid, cookie)
  BY DEF DevicesInv, GridInv, GridOK, SetDefaultRow
<1>2. CASE cookie \in grid.rows
  <2>1. grid.default = cookie /\ grid.default \in grid.rows
    BY <1>1, <1>2 DEF FreshOK
  <2> DEFINE g == [grid EXCEPT !.drawn = @ - 1, !.default = NoDevice, !.hurried = @ /\ grid.drawn > 1]
  <2>2. DOMAIN g = DOMAIN grid /\ "marked" \in DOMAIN grid
    BY <1>1 DEF GridScripts
  <2>3. grid' = [g EXCEPT !.marked = {cookie}] /\ cookie' = cookie
    BY <2>1 DEF SetDefaultRow
  <2> HIDE DEF g
  <2>4. grid'.marked = {cookie}
    BY <2>2, <2>3
  <2> QED BY <1>1, <1>2, <2>1, <2>3, <2>4, SetDefaultRowPane
<1>3. CASE cookie \notin grid.rows
  <2>1. grid.default = NoDevice /\ grid.sought
    BY <1>1, <1>3 DEF FreshOK
  <2>2. grid.default \notin grid.rows
    BY <1>1, <2>1, GridFields, NobodyIsDevice
  <2>3. cookie' = NoDevice
    BY <2>1, <2>2 DEF SetDefaultRow
  <2> QED BY <1>1, <1>3, <2>1, <2>3, SetDefaultRowPane
<1> QED BY <1>2, <1>3

LEMMA ReloadKeeps ==
    ASSUME RecordInv
    PROVE  ReloadKeepsSelection
  BY ListAnsweredIs DEF ReloadKeepsSelection

(* A list that comes in anew keeps the selection of what it still displays and *)
(* closes the pane of what it does not, on the pages with the lists of records  *)
(* as on that of the devices.                                                   *)
THEOREM SelectionSurvivesAlways == SiteSpec => SelectionSurvives
<1>1. RecordInv /\ DevicesInv =>
        [ReloadKeepsSelection /\ RedrawKeepsDevice]_siteVars
  BY RedrawKeeps, ReloadKeeps
<1> QED BY RecordsAlways, DevicesAlways, <1>1, PTL DEF SiteSpec, SelectionSurvives

-----------------------------------------------------------------------------
(* The lists that abort implement LatestAnswer *)

Since == IF grid.waiting THEN {grid.asked} ELSE {}

GridStep == [DeviceGrid!Next]_<<grid.asked, Since, grid.rows>>

\* a step that asks nothing and shows nothing new
LEMMA GridKept ==
    ASSUME grid'.asked = grid.asked, grid'.waiting = grid.waiting, grid'.rows = grid.rows
    PROVE  GridStep
  BY DEF GridStep, Since

LEMMA GridAsks ==
    ASSUME NEW g \in GridScripts, NEW q \in SUBSET Devices, g.rows = grid.rows, grid' = Requested(g, q)
    PROVE  GridStep
<1>1. grid'.asked = q /\ grid'.waiting /\ grid'.rows = grid.rows
  BY RequestedIs
<1>2. Since' = {grid'.asked} /\ grid'.asked \in SUBSET Devices
  BY <1>1 DEF Since
<1> QED BY <1>1, <1>2 DEF GridStep, Since, DeviceGrid!Next, DeviceGrid!Ask

\* the list is taken away, a question stays open
LEMMA GridRestarts ==
    ASSUME grid'.asked \in SUBSET Devices, grid'.rows = {},
           \/ grid'.waiting = FALSE
           \/ grid'.waiting = grid.waiting /\ grid'.asked = grid.asked
    PROVE  GridStep
<1>1. Since' \in {{}, {grid'.asked}}
  BY DEF Since
<1> QED BY <1>1 DEF GridStep, Since, DeviceGrid!Next, DeviceGrid!Restart

LEMMA GridAnsweredLatest ==
    ASSUME GridInv, GridAnswered
    PROVE  GridStep
<1>1. grid.waiting /\ grid.request = grid.asked
  BY DEF GridInv, GridOK, GridAnswered
<1>2. grid'.waiting = FALSE /\ grid'.asked = grid.asked /\ grid'.rows = grid.asked
  BY <1>1, GridAnsweredGrid
<1>3. Since = {grid.asked} /\ Since' = {} /\ grid'.rows \in Since
  BY <1>1, <1>2 DEF Since
<1> QED BY <1>2, <1>3 DEF GridStep, Since, DeviceGrid!Next, DeviceGrid!Answer

LEMMA GridFailedLatest ==
    ASSUME GridInv, GridFailed
    PROVE  GridStep
<1> DEFINE g == UncoveredGrid(grid)
<1>1. grid \in GridScripts /\ grid.waiting /\ grid' = [g EXCEPT !.waiting = FALSE, !.request = {}]
  BY DEF GridInv, GridOK, GridFailed
<1>2. Kept(g, grid)
  BY <1>1, CoversSame DEF Same
<1> HIDE DEF g
<1>3. grid'.waiting = FALSE /\ grid'.asked = grid.asked /\ grid'.rows = grid.rows
  BY <1>1, <1>2 DEF Kept, GridScripts
<1>4. Since = {grid.asked} /\ Since' = {}
  BY <1>1, <1>3 DEF Since
<1> QED BY <1>3, <1>4 DEF GridStep, Since, DeviceGrid!Next, DeviceGrid!Fail

LEMMA GridQuestions ==
    ASSUME GridInv, \/ ColumnsAnswered
                    \/ \E q \in Searches : FilterLoaded(q) \/ AskGrid(q) \/ SelectionFound(q)
    PROVE  GridStep
<1>1. grid \in GridScripts /\ GridOK(grid, cookie) /\ grid.asked \in SUBSET Devices
  BY GridFields DEF GridInv, GridOK
<1>2. CASE ColumnsAnswered
  <2>1. CASE grid.handlers = 0
    <3>1. grid' = [grid EXCEPT !.phase = "filter"]
      BY <1>2, <2>1 DEF ColumnsAnswered
    <3>2. QED BY <1>1, <3>1, GridKept DEF GridScripts
  <2>2. CASE grid.handlers # 0
    <3> DEFINE n == MaxHandlers
               g == [grid EXCEPT !.phase = "ready", !.handlers = n]
    <3>1. grid' = Requested(g, grid.asked) /\ n \in 0..MaxHandlers
      BY <1>2, <2>2 DEF ColumnsAnswered, MaxHandlers
    <3> HIDE DEF n
    <3>2. g \in GridScripts /\ g.rows = grid.rows
      BY <1>1, <3>1 DEF GridScripts
    <3> HIDE DEF g
    <3>3. QED BY <1>1, <3>1, <3>2, GridAsks
  <2> QED BY <2>1, <2>2
<1>3. ASSUME NEW q \in Searches, FilterLoaded(q) PROVE GridStep
  <2> DEFINE n == 1
             g == [grid EXCEPT !.phase = "ready", !.handlers = n]
  <2>1. grid' = Requested(g, q) /\ n \in 0..MaxHandlers
    BY <1>3 DEF FilterLoaded, MaxHandlers
  <2> HIDE DEF n
  <2>2. g \in GridScripts /\ g.rows = grid.rows
    BY <1>1, <2>1 DEF GridScripts
  <2> HIDE DEF g
  <2> QED BY <2>1, <2>2, SearchesAre, GridAsks
<1>4. ASSUME NEW q \in Searches, NEW g, Kept(g, grid), Filtered(g, q) PROVE GridStep
  <2>1. Kept(Unchecked(g), grid)
    BY <1>4, UncheckedIs DEF Kept
  <2>2. grid' = Requested(Unchecked(g), q)
    BY <1>4 DEF Filtered
  <2> QED BY <2>1, <2>2, SearchesAre, GridAsks DEF Kept
<1>5. ASSUME NEW q \in Searches, AskGrid(q) PROVE GridStep
  <2>1. Kept(grid, grid)
    BY <1>1 DEF Kept
  <2>2. CASE grid' = Requested(grid, q)
    BY <1>1, <2>2, SearchesAre, GridAsks
  <2>3. CASE Filtered(grid, q)
    BY <1>4, <2>1, <2>3
  <2> QED BY <1>5, <2>2, <2>3 DEF AskGrid
<1>6. ASSUME NEW q \in Searches, SelectionFound(q) PROVE GridStep
  <2> DEFINE g == [grid EXCEPT !.saving = "no"]
  <2>1. Kept(g, grid)
    BY <1>1, CoversSame DEF Same
  <2>2. Filtered(g, q)
    BY <1>6 DEF SelectionFound
  <2> HIDE DEF g
  <2> QED BY <1>4, <2>1, <2>2
<1> QED BY <1>2, <1>3, <1>5, <1>6

LEMMA ColumnsUpdatedLatest ==
    ASSUME GridInv, ColumnsUpdated
    PROVE  GridStep
<1> DEFINE g == Covered(Touched(grid))
<1>1. /\ grid \in GridScripts /\ grid.asked \in SUBSET Devices
      /\ grid' = [g EXCEPT !.phase = "columns", !.rows = {}, !.marked = {}]
  BY GridFields DEF GridInv, GridOK, ColumnsUpdated
<1>2. Kept(g, grid)
  <2>1. Kept(Touched(grid), grid)
    BY <1>1, TouchedIs
  <2> QED BY <2>1, CoversSame DEF Same, Kept
<1> HIDE DEF g
<1>3. grid'.asked = grid.asked /\ grid'.waiting = grid.waiting /\ grid'.rows = {}
  BY <1>1, <1>2 DEF Kept, GridScripts
<1> QED BY <1>1, <1>3, GridRestarts

LEMMA GridLatestStep ==
    ASSUME DevicesInv, [SiteNext]_siteVars
    PROVE  GridStep
<1>0. GridInv
  BY DEF DevicesInv
<1>1. CASE UNCHANGED grid
  BY <1>1, GridKept
<1>2. CASE DevicesNext
  <2>1. CASE PaneOnly
    BY <1>1, <2>1, PaneOnlyGrid
  <2>2. CASE ~PaneOnly
    <3>1. CASE RowsStay
      BY <3>1, GridKept DEF RowsStay, Asking
    <3> QED BY <1>0, <1>2, <2>2, <3>1, GridAnsweredLatest, GridFailedLatest, GridQuestions,
               ColumnsUpdatedLatest, HighlightsStay, TimersStay, CoversStay
            DEF DevicesNext, DevicesGoOn, PaneOnly
  <2> QED BY <2>1, <2>2
<1>3. CASE Leave
  <2>1. grid' = NoGrid
    BY <1>3 DEF Leave
  <2> QED BY <2>1, GridRestarts DEF NoGrid
<1>4. CASE ~DevicesNext /\ ~Leave
  BY <1>1, <1>4 DEF SiteNext, Open, siteVars, devicesVars
<1> QED BY <1>2, <1>3, <1>4

LEMMA GridLatestInit == SiteInit => DeviceGrid!Init
<1> SUFFICES ASSUME SiteInit PROVE DeviceGrid!Init
  OBVIOUS
<1>1. grid.asked = Devices /\ grid.waiting = FALSE /\ grid.rows = {}
  BY DEF SiteInit, NoGrid
<1>2. Since = {}
  BY <1>1 DEF Since
<1> QED BY <1>1, <1>2 DEF DeviceGrid!Init, Since

(* The site implements LatestAnswer twice: what the grid of devices and the    *)
(* list of jobs show answers their last question, for any number of devices     *)
(* and jobs and however requests, answers, aborts and changes interleave.       *)
THEOREM ListsAreLatestAlways == SiteSpec => ListsAreLatest
<1>1. DevicesInv /\ [SiteNext]_siteVars => GridStep
  BY GridLatestStep
<1>2. SiteSpec => DeviceGrid!Spec
  BY DevicesAlways, GridLatestInit, <1>1, PTL DEF SiteSpec, DeviceGrid!Spec, GridStep, Since
<1> QED BY <1>2, JobsAreLatest DEF ListsAreLatest
=============================================================================
