---------------------------- MODULE JobWizard ----------------------------
(***************************************************************************)
(* The wizard that creates a job (sync_jobs/views.py, the step 2 and 3     *)
(* pages and static/js/create_job_step2.js) on top of the connections it   *)
(* is about.                                                               *)
(*                                                                         *)
(* What the steps have collected is in the user's session, which a request *)
(* reads whole when it starts and, if it has changed it, writes back whole *)
(* when it ends.  The pages of several tabs and several requests share it. *)
(* The job, its tables and its schedule are separate statements.           *)
(***************************************************************************)
EXTENDS Connections, FiniteSets, Sequences, SequencesExt

CONSTANTS
  Tables,    \* names of tables
  TablesOf,  \* TablesOf[c]: those in the database of c
  Tabs,      \* pages of the browser
  Requests,  \* bound: requests under way
  MaxForms,  \* bound: first steps submitted, each with a name of its own
  MaxJobs,   \* bound: jobs created
  MaxInputs, \* bound: tables a second step posts, those ticked before included
  MaxFaults  \* bound: statements that fail and requests that die

ASSUME TablesAssumption ==
  IsFiniteSet(Tables) /\ TablesOf \in [Conns -> SUBSET Tables]
ASSUME NamesAssumption == "none" \notin Conns
ASSUME BoundsAssumption ==
  {MaxForms, MaxJobs, MaxInputs, MaxFaults} \subseteq Nat

VARIABLES
  session,  \* the session row
  page,     \* page[t]: the step a tab shows and with what
  req,      \* req[r]: where a request is, its copy of the session, its form
  job,      \* job[i]: the i-th job with its tables and its schedule
  forms,    \* forms[f]: the connections submitted with the name f (history)
  raced,    \* names two requests were at work on at the same time (history)
  faults    \* failures so far

wizardVars == <<session, page, req, job, forms, raced, faults>>
vars == <<connVars, wizardVars>>
rowVars == <<active, secret, key, fix, entered, outdated>>

Names == 1..MaxForms
Jobs == 1..MaxJobs

\* Keys that are absent are 0, "none" and no tables.
Pair == [source : Conns, target : Conns]
NoPair == [source |-> "none", target |-> "none"]
NoSession == [name |-> 0, pair |-> NoPair, tables |-> <<>>]
Complete(s) == s.name # 0 /\ s.pair # NoPair /\ s.tables # <<>>

\* Ticked tables are posted in the order they were ticked in.
Ticked == UNION {SetToSeqs(S) : S \in SUBSET Tables \ {{}}}
Selections == Seq(Tables)
Sessions == [name : 0..MaxForms, pair : Pair \cup {NoPair}, tables : Selections]

Closed == [step |-> 0, source |-> "none", inputs |-> <<>>]
NoReq == [at |-> "idle", name |-> 0, copy |-> NoSession, incremental |-> FALSE,
          columns |-> {}, id |-> 0, left |-> <<>>]
NoJob == [row |-> "new", name |-> 0, pair |-> NoPair, incremental |-> FALSE,
          tables |-> {}, columns |-> {}, wanted |-> {}, schedule |-> FALSE,
          answered |-> FALSE]

TypeOK ==
  /\ ConnTypeOK
  /\ session \in Sessions
  /\ page \in [Tabs -> [step : {0, 2, 3}, source : Conns \cup {"none"},
                        inputs : Selections]]
  /\ req \in [Requests ->
       [at : {"idle", "save", "create", "tables", "run"},
        name : 0..MaxForms, copy : Sessions, incremental : BOOLEAN,
        columns : SUBSET Tables, id : 0..MaxJobs, left : Selections]]
  /\ job \in [Jobs ->
       [row : {"new", "there", "gone"}, name : 0..MaxForms,
        pair : Pair \cup {NoPair}, incremental : BOOLEAN,
        tables : SUBSET Tables, columns : SUBSET Tables,
        wanted : SUBSET Tables, schedule : BOOLEAN, answered : BOOLEAN]]
  /\ forms \in [Names -> Pair \cup {NoPair}]
  /\ raced \subseteq Names
  /\ faults \in 0..MaxFaults

Init ==
  /\ ConnInit
  /\ session = NoSession
  /\ page = [t \in Tabs |-> Closed]
  /\ req = [r \in Requests |-> NoReq]
  /\ job = [i \in Jobs |-> NoJob]
  /\ forms = [f \in Names |-> NoPair]
  /\ raced = {}
  /\ faults = 0

Usable(c) == c \in Conns /\ active[c] = "yes"

\* A request starts with a copy of the session.
Loads(r, fields) ==
  /\ Deed
  /\ req[r].at = "idle"
  /\ req' = [req EXCEPT ![r] = [fields EXCEPT !.name = session.name]]
  /\ raced' = IF \E q \in Requests :
                   req[q].at # "idle" /\ req[q].name = session.name
                THEN (raced \cup {session.name}) \ {0} ELSE raced

\* Mutant: connections that are in the session already are kept.
NameOnly(r, c, d) ==
  /\ c # d /\ Usable(c) /\ Usable(d)
  /\ \E f \in Names :
       /\ forms[f] = NoPair
       /\ \A g \in 1..(f - 1) : forms[g] # NoPair
       /\ forms' = [forms EXCEPT ![f] = [source |-> c, target |-> d]]
       /\ Loads(r, [NoReq EXCEPT !.at = "save",
                      !.copy = [session EXCEPT !.name = f,
                        !.pair = IF @ = NoPair THEN forms'[f] ELSE @]])
  /\ UNCHANGED <<rowVars, session, page, job, faults>>

\* create_job_step1_view (POST): both connections are looked up first.
Submit1(r, c, d) ==
  /\ c # d /\ Usable(c) /\ Usable(d)
  /\ \E f \in Names :
       /\ forms[f] = NoPair
       /\ \A g \in 1..(f - 1) : forms[g] # NoPair
       /\ forms' = [forms EXCEPT ![f] = [source |-> c, target |-> d]]
       /\ Loads(r, [NoReq EXCEPT !.at = "save",
                      !.copy = [session EXCEPT !.name = f, !.pair = forms'[f]]])
  /\ UNCHANGED <<rowVars, session, page, job, faults>>

\* create_job_step2_view: the page asks for the tables of the source it shows.
Open2(t) ==
  /\ Usable(session.pair.source)
  /\ page' = [page EXCEPT ![t] =
                [step |-> 2, source |-> session.pair.source, inputs |-> <<>>]]
  /\ UNCHANGED <<connVars, session, req, job, forms, raced, faults>>

\* create_job_step2_submit: the page adds an input for every ticked table to
\* those it has added before, if the user comes back to it.
Submit2(r, t, ticked) ==
  LET inputs == page[t].inputs \o ticked IN
  /\ page[t].step = 2
  /\ ToSet(ticked) \subseteq TablesOf[page[t].source]
  /\ Len(inputs) <= MaxInputs
  /\ page' = [page EXCEPT ![t].inputs = inputs]
  /\ Loads(r, [NoReq EXCEPT !.at = "save",
                 !.copy = [session EXCEPT !.tables = inputs]])
  /\ UNCHANGED <<rowVars, session, job, forms, faults>>

\* create_job_step3_view: it asks for a column of each table in the session.
Open3(t) ==
  /\ Complete(session)
  /\ Usable(session.pair.source)
  /\ page' = [page EXCEPT ![t] =
                [step |-> 3, source |-> "none", inputs |-> session.tables]]
  /\ UNCHANGED <<connVars, session, req, job, forms, raced, faults>>

\* create_job_step3_submit up to the lookup of the connections.  The session
\* is read anew, and a column is needed for every table found there.
Submit3(r, t, incremental) ==
  LET posted == IF incremental THEN ToSet(page[t].inputs) ELSE {} IN
  /\ page[t].step = 3
  /\ Complete(session)
  /\ incremental => ToSet(session.tables) \subseteq posted
  /\ Usable(session.pair.source) /\ Usable(session.pair.target)
  /\ Loads(r, [NoReq EXCEPT !.at = "create", !.copy = session,
                 !.incremental = incremental, !.columns = posted])
  /\ UNCHANGED <<rowVars, session, page, job, forms, faults>>

Ends(r) == req' = [req EXCEPT ![r] = NoReq]

\* SyncJob.objects.create, refused if a connection has gone in the meantime.
Create(r) ==
  LET s == req[r].copy IN
  /\ req[r].at = "create"
  /\ IF Exists(s.pair.source) /\ Exists(s.pair.target)
       THEN \E i \in Jobs :
              /\ job[i].row = "new"
              /\ \A k \in 1..(i - 1) : job[k].row # "new"
              /\ job' = [job EXCEPT ![i] =
                           [NoJob EXCEPT !.row = "there", !.name = s.name,
                              !.pair = s.pair, !.wanted = ToSet(s.tables),
                              !.incremental = req[r].incremental]]
              /\ req' = [req EXCEPT ![r].at = "tables", ![r].id = i,
                           ![r].left = s.tables]
       ELSE Ends(r) /\ UNCHANGED job
  /\ UNCHANGED <<connVars, session, page, forms, raced, faults>>

\* Mutant: an error in a table is logged and dropped like one in the schedule.
AddTableOrNot(r) ==
  LET i == req[r].id
      table == Head(req[r].left) IN
  /\ req[r].at = "tables"
  /\ req[r].left # <<>>
  /\ req' = [req EXCEPT ![r].left = Tail(@)]
  /\ \/ /\ job' = [job EXCEPT
                     ![i].tables = @ \cup {table},
                     ![i].columns = @ \cup ({table} \cap req[r].columns)]
        /\ UNCHANGED faults
     \/ faults < MaxFaults /\ faults' = faults + 1 /\ UNCHANGED job
  /\ UNCHANGED <<connVars, session, page, forms, raced>>

\* SyncJobTable.objects.create, refused for a table the job has already and
\* for a job that has gone.  What was created before stays.
AddTable(r) ==
  LET i == req[r].id
      table == Head(req[r].left) IN
  /\ req[r].at = "tables"
  /\ req[r].left # <<>>
  /\ IF job[i].row = "there" /\ table \notin job[i].tables
       THEN /\ job' = [job EXCEPT
                         ![i].tables = @ \cup {table},
                         ![i].columns = @ \cup ({table} \cap req[r].columns)]
            /\ req' = [req EXCEPT ![r].left = Tail(@)]
       ELSE Ends(r) /\ UNCHANGED job
  /\ UNCHANGED <<connVars, session, page, forms, raced, faults>>

\* Mutant: the session is not cleared.
AddScheduleOnly(r) ==
  /\ req[r].at = "tables"
  /\ req[r].left = <<>>
  /\ req' = [req EXCEPT ![r].at = "save"]
  /\ UNCHANGED <<connVars, session, page, job, forms, raced, faults>>

\* SyncSchedule.objects.create; an error in it is logged and dropped.  Then
\* what has been collected is dropped from the copy of the session, and a job
\* whose schedule is 'once' runs before the copy is saved.
AddSchedule(r) ==
  /\ req[r].at = "tables"
  /\ req[r].left = <<>>
  /\ \E next \in {"run", "save"} :
       req' = [req EXCEPT ![r].copy = NoSession, ![r].at = next]
  /\ \/ job[req[r].id].row = "there"
        /\ job' = [job EXCEPT ![req[r].id].schedule = TRUE]
        /\ UNCHANGED faults
     \/ job[req[r].id].row = "gone" /\ UNCHANGED <<job, faults>>
     \/ faults < MaxFaults /\ faults' = faults + 1 /\ UNCHANGED job
  /\ UNCHANGED <<connVars, session, page, forms, raced>>

\* SyncExecutor(sync_job).execute(), within the request.
RunOnce(r) ==
  /\ req[r].at = "run"
  /\ req' = [req EXCEPT ![r].at = "save"]
  /\ UNCHANGED <<connVars, session, page, job, forms, raced, faults>>

\* The session middleware writes the copy, and the user gets the answer.
Save(r) ==
  /\ req[r].at = "save"
  /\ session' = req[r].copy
  /\ job' = [i \in Jobs |->
               IF i = req[r].id THEN [job[i] EXCEPT !.answered = TRUE] ELSE job[i]]
  /\ Ends(r)
  /\ UNCHANGED <<connVars, page, forms, raced, faults>>

\* A statement fails, or the process of the request dies.
Fail(r) ==
  /\ req[r].at # "idle"
  /\ faults < MaxFaults
  /\ faults' = faults + 1
  /\ Ends(r)
  /\ UNCHANGED <<connVars, session, page, job, forms, raced>>

\* Deleting a connection deletes its jobs; nothing else of Connections does.
ConnStep ==
  /\ ConnNext
  /\ job' = [i \in Jobs |->
       IF /\ job[i].row = "there"
          /\ \E c \in {job[i].pair.source, job[i].pair.target} :
               active[c] # "gone" /\ active'[c] = "gone"
         THEN [job[i] EXCEPT !.row = "gone"] ELSE job[i]]
  /\ UNCHANGED <<session, page, req, forms, raced, faults>>

Next ==
  \/ \E r \in Requests :
       \/ \E c, d \in Conns : Submit1(r, c, d)
       \/ \E t \in Tabs :
            \/ \E ticked \in Ticked : Submit2(r, t, ticked)
            \/ \E incremental \in BOOLEAN : Submit3(r, t, incremental)
       \/ Create(r) \/ AddTable(r) \/ AddSchedule(r) \/ RunOnce(r)
       \/ Save(r) \/ Fail(r)
  \/ \E t \in Tabs : Open2(t) \/ Open3(t)
  \/ ConnStep

Spec == Init /\ [][Next]_vars

(***************************************************************************)
(* Name, source and target of a job were submitted together in one form,   *)
(* however many tabs are at work on the one session and however stale the  *)
(* copy a request writes back.                                             *)
(***************************************************************************)
JobIsOneForm ==
  \A i \in Jobs : job[i].row # "new" => job[i].pair = forms[job[i].name]

(***************************************************************************)
(* A job whose creation was answered with success has all the tables that  *)
(* the session held, and with incremental sync a column for each of them,  *)
(* although another tab may have changed the session since the page was    *)
(* made, and a job that fails half-way keeps what it has.                  *)
(***************************************************************************)
JobIsWhole ==
  \A i \in Jobs : job[i].answered /\ job[i].row = "there" =>
    /\ job[i].tables = job[i].wanted
    /\ job[i].incremental => job[i].columns = job[i].wanted

(***************************************************************************)
(* Two jobs are created from one first step, and answered, only if two     *)
(* requests were at work on it at the same time: a retry after an error,   *)
(* or after the process died during the run, has one successful answer.    *)
(***************************************************************************)
TwinsRaced ==
  \A i, k \in Jobs :
    i # k /\ job[i].answered /\ job[k].answered /\ job[i].name = job[k].name
      => job[i].name \in raced
=============================================================================
