------------------------------- MODULE Browser -------------------------------
(***************************************************************************)
(* The browser tab all pages of the site share: the page it shows, and the  *)
(* timers of window.setTimeout and clearTimeout as the pages use them.      *)
(***************************************************************************)
EXTENDS Integers, FiniteSets, Sequences, SequencesExt

CONSTANTS
    Devices,        \* the devices of the fleet
    NoDevice        \* no device, '' or undefined

ASSUME BrowserAssumption == NoDevice \notin Devices

AnyDevice == Devices \union {NoDevice}

VARIABLE page   \* the page the tab shows

On(p) == page = p

-----------------------------------------------------------------------------
\* A script keeps the handle of its last timer; armed are those that will fire.
\* More than one is armed only if a script loses a handle.
MaxTimers == 3
Handles == 1..MaxTimers
NoHandle == 0
Timers  == [id : Handles \union {NoHandle}, armed : SUBSET Handles]
NoTimer == [id |-> NoHandle, armed |-> {}]

FreshHandle(t) == CHOOSE h \in Handles \union {NoHandle} :
                     \/ h \in Handles \ (t.armed \union {t.id})
                     \/ h = NoHandle /\ Handles \subseteq t.armed \union {t.id}

\* if (timerId) { clearTimeout(timerId); timerId = null; }
Cleared(t) == [id |-> NoHandle, armed |-> t.armed \ {t.id}]

\* timerId = setTimeout(...)
Armed(t) == LET h == FreshHandle(t) IN [id |-> h, armed |-> t.armed \union {h}]

Rearmed(t) == Armed(Cleared(t))

\* A timer fires: the script is not told which, its handle stays as it was.
Fired(t, h) == [t EXCEPT !.armed = @ \ {h}]
-----------------------------------------------------------------------------
Superseded(flight) == [flight EXCEPT !.superseded = TRUE]

\* The answer to request i comes in, or it fails: those sent before it are superseded.
Answered(flights, i) ==
    RemoveAt([j \in DOMAIN flights |-> IF j < i THEN Superseded(flights[j]) ELSE flights[j]], i)

=============================================================================
