----------------------------- MODULE LatestAnswer -----------------------------
(***************************************************************************)
(* What a list owes its reader: it shows what the service held at some time *)
(* after it was last asked, never the answer to an earlier question.        *)
(***************************************************************************)
CONSTANTS Answers, Nothing

VARIABLES
    now,    \* what the service would answer
    since,  \* what it would have answered since the last question; empty: no question is open
    shown   \* what the list shows

Init == now \in Answers /\ since \in {{}, {now}} /\ shown = Nothing

Change ==
    /\ now' \in Answers
    /\ since' = IF since = {} THEN {} ELSE since \union {now'}
    /\ UNCHANGED shown

\* a new question, perhaps another one than before
Ask == now' \in Answers /\ since' = {now'} /\ UNCHANGED shown

Answer == shown' \in since /\ since' = {} /\ UNCHANGED now

Fail == since' = {} /\ UNCHANGED <<now, shown>>

\* the list is shown anew, or no longer; a question may stay open
Restart ==
    /\ shown' = Nothing
    /\ \/ now' \in Answers /\ since' \in {{}, {now'}}
       \/ UNCHANGED <<now, since>>

Next == Change \/ Ask \/ Answer \/ Fail \/ Restart

Spec == Init /\ [][Next]_<<now, since, shown>>

=============================================================================
