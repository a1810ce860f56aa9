------------------------------- MODULE KepGate -------------------------------
(***************************************************************************)
(* What the check of the repository promises to those who merge on its     *)
(* word, as one verdict on a tree of KEPs: no walk, no list of files, no   *)
(* loop.  RepoValidate implements it (see ImplementsGate there).           *)
(***************************************************************************)
VARIABLES
    due,        \* the errors of the KEPs that no edit has touched, hidden or moved
    present,    \* all the errors of the tree
    blocked,    \* the tree cannot be judged
    unopened,   \* a KEP of the tree cannot be opened
    edited,     \* the tree has changed since the check began
    verdict,    \* "none", "report", "error" or "panic"
    report      \* the errors of the report

tree == <<due, present, blocked, unopened, edited>>
vars == <<due, present, blocked, unopened, edited, verdict, report>>

Init == verdict = "none" /\ report = {} /\ ~edited

\* The tree changes: what an edit touches is no longer due.
Edit ==
    /\ verdict = "none"
    /\ edited' = TRUE
    /\ due' \subseteq due
    /\ UNCHANGED <<verdict, report>>

\* The report has what is due, and on a tree that nobody changed it is exact.
Judge ==
    /\ verdict = "none" /\ verdict' = "report"
    /\ due \subseteq report'
    /\ ~edited => ~blocked /\ report' = present
    /\ UNCHANGED tree

\* There is no report on a tree that cannot be judged, and there need not be one
\* when a KEP cannot be opened.
GiveUp ==
    /\ verdict = "none" /\ verdict' = "error"
    /\ blocked \/ unopened \/ edited
    /\ UNCHANGED <<tree, report>>

\* A path went away under the check.
Panic ==
    /\ verdict = "none" /\ verdict' = "panic"
    /\ edited
    /\ UNCHANGED <<tree, report>>

Next == Edit \/ Judge \/ GiveUp \/ Panic

Spec == Init /\ [][Next]_vars
==============================================================================
