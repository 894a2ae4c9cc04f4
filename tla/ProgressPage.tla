---------------------------- MODULE ProgressPage ----------------------------
(***************************************************************************)
(* The page on which a user watches a run: the view execution_detail and   *)
(* its template, the script static/js/execution_detail.js in the browser,  *)
(* and execution_status_api, which answers the script's requests           *)
(* (sync_jobs/views.py).  The run is SyncRun's, and goes on meanwhile.     *)
(*                                                                         *)
(* The server reads the row of the execution and the logs one after the    *)
(* other, and no transaction holds the two together.                       *)
(***************************************************************************)
EXTENDS SyncRun

CONSTANT MaxLost  \* bound: requests without an answer

ASSUME MaxLostAssumption == MaxLost \in Nat

VARIABLES
  page,    \* is the page "closed", "loading" or "open"?
  shown,   \* the status and the logs it shows
  visible, \* document.hidden is false
  polling, \* updateInterval is set
  request, \* where the request is that isUpdating stands for
  answer,  \* the status the server has read for it
  lost     \* requests without an answer so far

pageVars == <<page, shown, visible, polling, request, answer, lost>>

Seen == {"none", "pending", "running"} \cup Final
View == [status : Seen, logs : [Tables -> Log]]
NoView == [status |-> "none", logs |-> [t \in Tables |-> NoLog]]

PageTypeOK ==
  /\ TypeOK
  /\ page \in {"closed", "loading", "open"}
  /\ shown \in View
  /\ visible \in BOOLEAN
  /\ polling \in BOOLEAN
  /\ request \in {"none", "sent", "half"}
  /\ answer \in Seen
  /\ lost \in 0..MaxLost

----------------------------------------------------------------------------
(* The page is loaded, once (a page that is loaded again is another page). *)

\* execution_detail reads the execution.
Load ==
  /\ page = "closed"
  /\ row.status # "none"
  /\ page' = "loading"
  /\ shown' = [shown EXCEPT !.status = row.status]
  /\ UNCHANGED <<visible, polling, request, answer, lost>>

\* The template comes to the logs.  Only if the execution was running it has a
\* script, which asks at once, even behind another tab.
Rendered ==
  /\ page = "loading"
  /\ page' = "open"
  /\ shown' = [shown EXCEPT !.logs = log]
  /\ polling' = (shown.status = "running")
  /\ request' = IF polling' THEN "sent" ELSE "none"
  /\ visible' \in BOOLEAN
  /\ UNCHANGED <<answer, lost>>

----------------------------------------------------------------------------
(* A request and its answer.                                               *)

\* The timer: one request at a time.
Tick ==
  /\ polling
  /\ request = "none"
  /\ request' = "sent"
  /\ UNCHANGED <<page, shown, visible, polling, answer, lost>>

\* execution_status_api reads the execution.
ReadRow ==
  /\ request = "sent"
  /\ request' = "half"
  /\ answer' = row.status
  /\ UNCHANGED <<page, shown, visible, polling, lost>>

\* Mutant: the page has done with it as soon as the status is final.
UpdateBadge ==
  /\ request = "half"
  /\ request' = "none"
  /\ shown' = [status |-> answer,
               logs |-> IF answer \notin Final THEN log ELSE shown.logs]
  /\ polling' = (polling /\ answer \notin Final)
  /\ answer' = "none"
  /\ UNCHANGED <<page, visible, lost>>

\* It reads the logs, and with its answer the page comes up to date
\* (updateExecutionUI) and stops polling at the first status that is final.
Update ==
  /\ request = "half"
  /\ request' = "none"
  /\ shown' = [status |-> answer, logs |-> log]
  /\ polling' = (polling /\ answer \notin Final)
  /\ answer' = "none"
  /\ UNCHANGED <<page, visible, lost>>

\* An HTTP error or no answer at all: it is logged, and the timer goes on.
Lose ==
  /\ request # "none"
  /\ lost < MaxLost
  /\ lost' = lost + 1
  /\ request' = "none"
  /\ answer' = "none"
  /\ UNCHANGED <<page, shown, visible, polling>>

----------------------------------------------------------------------------
(* visibilitychange.                                                       *)

Hide ==
  /\ visible
  /\ page = "open"
  /\ visible' = FALSE
  /\ polling' = FALSE
  /\ UNCHANGED <<page, shown, request, answer, lost>>

\* Mutant: the timer is only set again where a request was under way.
ReturnHalf ==
  /\ ~visible
  /\ visible' = TRUE
  /\ polling' = (polling \/ request # "none")
  /\ UNCHANGED <<page, shown, request, answer, lost>>

\* isExecutionRunning asks the badge.
Return ==
  /\ ~visible
  /\ visible' = TRUE
  /\ polling' = (polling \/ shown.status = "running")
  /\ UNCHANGED <<page, shown, request, answer, lost>>

----------------------------------------------------------------------------
Watch == Load \/ Rendered \/ Tick \/ ReadRow \/ Update \/ Lose \/ Hide \/ Return

PageInit ==
  /\ Init
  /\ page = "closed"
  /\ shown = NoView
  /\ visible = TRUE
  /\ polling = FALSE
  /\ request = "none"
  /\ answer = "none"
  /\ lost = 0

PageNext ==
  \/ Next /\ UNCHANGED pageVars
  \/ Watch /\ UNCHANGED vars

PageSpec == PageInit /\ [][PageNext]_<<vars, pageVars>>

\* The run goes on, and so do timers and requests, while the page is there.
FairPageSpec ==
  /\ PageSpec
  /\ WF_vars(Next)
  /\ WF_pageVars((Rendered \/ Tick \/ ReadRow \/ Update) /\ UNCHANGED vars)

----------------------------------------------------------------------------
(* Properties.                                                             *)

\* A page that shows a result asks no more, so what it shows has to be the end
\* of it: each of its logs is as the run has left it - although the server
\* reads status and logs at different times, while the run goes on.
ResultIsWhole ==
  page = "open" /\ shown.status \in Final =>
    /\ ~polling /\ request = "none"
    /\ shown.logs = log

\* A page that shows a running execution comes to show its result, if it stays
\* visible in the end: whatever was lost, however often it was hidden, and if
\* no more than one thing failed in the run.
PageSettles ==
  <>[](visible /\ faults <= 1) =>
    (page = "open" /\ shown.status = "running" ~> shown.status \in Final)
=============================================================================
