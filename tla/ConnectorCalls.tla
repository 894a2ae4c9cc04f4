-------------------------- MODULE ConnectorCalls --------------------------
(***************************************************************************)
(* The calls a run makes on its two connections: executor.py opens them,   *)
(* full_sync.py, incremental_sync.py and table_handler.py call, and the    *)
(* connectors (connections/connectors/) run the statements, each with its  *)
(* own idea of what to do when one fails.                                  *)
(*                                                                         *)
(* One connection serves all tables of the run.  In PostgreSQL a statement *)
(* that fails aborts its transaction, and every later one fails until      *)
(* somebody rolls back; a connection that is lost is never opened again,   *)
(* because _connection is still set.  So the failure of one table may      *)
(* reach the next one.                                                     *)
(***************************************************************************)
EXTENDS Naturals, Sequences

CONSTANTS
  Tables,     \* the tables of the job, in the order they are synced
  Kinds,      \* databases: "postgres", "mysql", "sqlserver"
  Modes,      \* "full", "incremental"
  MaxFaults   \* bound: statements and connections that fail in the run

ASSUME TablesAssumption ==
  Len(Tables) \in Nat \ {0} /\ DOMAIN Tables = 1..Len(Tables)
ASSUME KindsAssumption == Kinds \subseteq {"postgres", "mysql", "sqlserver"}
ASSUME ModesAssumption == Modes \subseteq {"full", "incremental"}
ASSUME FaultsAssumption == MaxFaults \in Nat

VARIABLES
  setup,   \* the kinds of source and target, and the mode
  exists,  \* exists[i]: the i-th table exists in the target
  keyed,   \* keyed[i]: it has a primary key in the source
  link,    \* link[side]: what state a connection is in
  at,      \* the call that comes next
  now,     \* the number of the table that is being synced
  tries,   \* attempts so far of a call that is retried
  order,   \* order[i]: what the pages of the table are ordered by
  log,     \* log[i]: how its sync ended
  cause,   \* cause[i]: the calls that failed for no earlier reason (history)
  faults   \* failures so far

vars == <<setup, exists, keyed, link, at, now, tries, order, log, cause, faults>>

Sides == {"source", "target"}
Numbers == DOMAIN Tables

SourceCalls == {"validate", "describe", "key", "first", "columns", "fetch"}
TargetCalls == {"exists", "schema", "create", "truncate", "insert"}
Opening == {"probe source", "probe target", "connect source", "connect target"}
SideOf(call) ==
  IF call \in SourceCalls \cup {"probe source", "connect source"}
    THEN "source" ELSE "target"

TypeOK ==
  /\ setup \in [source : Kinds, target : Kinds, mode : Modes]
  /\ exists \in [Numbers -> BOOLEAN]
  /\ keyed \in [Numbers -> BOOLEAN]
  /\ link \in [Sides -> {"closed", "ready", "aborted", "dead"}]
  /\ at \in Opening \cup SourceCalls \cup TargetCalls \cup {"over", "no connection"}
  /\ now \in Numbers
  /\ tries \in 0..2
  /\ order \in [Numbers -> {"unknown", "key", "column", "nothing"}]
  /\ log \in [Numbers -> {"none", "running", "failed", "completed", "no log"}]
  /\ cause \in [Numbers -> SUBSET (SourceCalls \cup TargetCalls \cup {"lost"})]
  /\ faults \in 0..MaxFaults

FirstCall(mode) == IF mode = "full" THEN "exists" ELSE "validate"

Init ==
  /\ setup \in [source : Kinds, target : Kinds, mode : Modes]
  /\ exists \in [Numbers -> BOOLEAN]
  /\ keyed \in [Numbers -> BOOLEAN]
  /\ link = [s \in Sides |-> "closed"]
  /\ at = "probe source"
  /\ now = 1
  /\ tries = 0
  /\ order = [i \in Numbers |-> "unknown"]
  /\ log = [i \in Numbers |-> "none"]
  /\ cause = [i \in Numbers |-> {}]
  /\ faults = 0

tables == <<setup, exists, keyed, now, order, log, cause>>

\* _get_connector_with_retry opens and closes a connection, three times if
\* need be; execute of the executors opens it once more, without a retry.
Open(next) ==
  LET probe == at \in {"probe source", "probe target"} IN
  \/ /\ at' = next
     /\ tries' = 0
     /\ link' = IF probe THEN link ELSE [link EXCEPT ![SideOf(at)] = "ready"]
     /\ UNCHANGED <<tables, faults>>
  \/ /\ faults < MaxFaults
     /\ faults' = faults + 1
     /\ IF probe /\ tries < 2 THEN tries' = tries + 1 /\ UNCHANGED at
                              ELSE tries' = 0 /\ at' = "no connection"
     /\ UNCHANGED <<tables, link>>

Connect ==
  \/ at = "probe source" /\ Open("probe target")
  \/ at = "probe target" /\ Open("connect source")
  \/ at = "connect source" /\ Open("connect target")
  \/ at = "connect target" /\ Open(FirstCall(setup.mode))

\* One statement on a connection in state l: whether it succeeds, the state
\* it leaves, and how often something has failed by itself.
Statement(kind, l) ==
  IF l = "ready"
    THEN {[ok |-> TRUE, link |-> "ready", new |-> 0],
          [ok |-> FALSE, new |-> 1,
           link |-> IF kind = "postgres" THEN "aborted" ELSE "ready"],
          [ok |-> FALSE, link |-> "dead", new |-> 1]}
    ELSE {[ok |-> FALSE, link |-> l, new |-> 0]}

RolledBack(l) == IF l = "aborted" THEN "ready" ELSE l

\* Mutant: get_columns raises at once.
OnlyExistsAgain(kind, call, before) == call = "exists"

\* get_columns of PostgreSQL tries again if it finds the transaction aborted,
\* table_exists after any error.
TriesAgain(kind, call, before) ==
  \/ call = "exists"
  \/ /\ kind = "postgres" /\ before = "aborted"
     /\ call \in {"validate", "describe", "first", "columns"}

\* Mutant: bulk_insert does not roll back.
OnlyCreateRollsBack(call) == call = "create"

\* bulk_insert and create_table leave no aborted transaction when they fail.
RollsBack(call) == call \in {"insert", "create"}

Results(kind, call, before) ==
  UNION {IF r.ok THEN {r}
         ELSE IF TriesAgain(kind, call, before)
           THEN {[q EXCEPT !.new = @ + r.new] :
                   q \in Statement(kind, RolledBack(r.link))}
         ELSE IF RollsBack(call) THEN {[r EXCEPT !.link = RolledBack(@)]}
         ELSE {r} : r \in Statement(kind, before)}

\* Mutant: the key of the first table is asked for.
FirstKey == keyed[1] /\ setup.source # "sqlserver"

\* SQL Server is asked for the schema with the id of the constraint, and so
\* never names a key.
KeyFound == keyed[now] /\ setup.source # "sqlserver"

\* A schema is not created in a MySQL database for a source of another kind.
SchemaOrNot ==
  IF setup.target = "mysql" /\ setup.source # "mysql" THEN "describe" ELSE "schema"

\* What comes after a call that has succeeded.  The last page may be empty,
\* or shorter than the others.
NextCalls(call) ==
  LET full == setup.mode = "full"
      prepared == IF full THEN "truncate" ELSE "columns" IN
  CASE call = "validate" -> {"exists"}
    [] call = "exists" -> {IF exists[now] THEN prepared ELSE SchemaOrNot}
    [] call = "schema" -> {"describe"}
    [] call = "describe" -> {"create"}
    [] call = "create" -> {prepared}
    [] call = "truncate" -> {"key"}
    [] call = "key" -> {IF ~ full THEN "fetch"
                        ELSE IF KeyFound THEN "columns" ELSE "first"}
    [] call = "first" -> {"columns"}
    [] call = "columns" -> {IF full THEN "fetch" ELSE "key"}
    [] call = "fetch" -> {"insert", "completed"}
    [] call = "insert" -> {"fetch", "completed"}

\* What comes after one that has failed: the existence check, the schema in
\* MySQL and the key are got over, fetch and insert of an incremental sync are
\* tried three times, and everything else fails the table.
Recovery(call) ==
  CASE call = "exists" -> SchemaOrNot
    [] call = "schema" /\ setup.target = "mysql" -> "describe"
    [] call \in {"key", "first"} -> IF setup.mode = "full" THEN "columns" ELSE "fetch"
    [] call = "validate" -> "no log"
    [] call \in {"fetch", "insert"} /\ setup.mode = "incremental" /\ tries < 2 -> call
    [] OTHER -> "failed"

OrderAfter(call, ok) ==
  CASE call = "key" /\ ok /\ KeyFound -> "key"
    [] call = "key" /\ ~ (ok /\ KeyFound) /\ setup.mode = "incremental" -> "column"
    [] call = "first" /\ ok -> "column"
    [] call \in {"key", "first"} /\ ~ ok /\ setup.mode = "full" -> "nothing"
    [] OTHER -> order[now]

Ended == {"completed", "failed", "no log"}

\* The next call, of this table or of the next one.
Goto(next) ==
  /\ log' = [log EXCEPT ![now] =
               IF next \in Ended THEN next
               ELSE IF next = "validate" THEN @ ELSE "running"]
  /\ IF next \notin Ended
       THEN at' = next /\ UNCHANGED now
       ELSE IF now = Len(Tables)
         THEN at' = "over" /\ UNCHANGED now
         ELSE at' = FirstCall(setup.mode) /\ now' = now + 1

\* SQL Server refuses OFFSET without ORDER BY.
Refused == at = "fetch" /\ setup.source = "sqlserver" /\ order[now] = "nothing"

Call ==
  LET side == SideOf(at)
      kind == setup[side] IN
  /\ at \in SourceCalls \cup TargetCalls
  /\ \E r \in IF Refused THEN {[ok |-> FALSE, link |-> link[side], new |-> 0]}
                         ELSE Results(kind, at, link[side]) :
       /\ faults + r.new <= MaxFaults
       /\ faults' = faults + r.new
       /\ link' = [link EXCEPT ![side] = r.link]
       /\ cause' = [cause EXCEPT ![now] =
            @ \cup (IF r.new > 0 THEN {at} ELSE {})
              \cup (IF r.new > 0 /\ r.link = "dead" THEN {"lost"} ELSE {})]
       /\ order' = [order EXCEPT ![now] = OrderAfter(at, r.ok)]
       /\ IF r.ok THEN \E next \in NextCalls(at) : Goto(next) ELSE Goto(Recovery(at))
       /\ tries' = IF ~ r.ok /\ at' = at /\ at \in {"fetch", "insert"}
                     THEN tries + 1 ELSE 0
  /\ UNCHANGED <<setup, exists, keyed>>

Next == Connect \/ Call

Spec == Init /\ [][Next]_vars

Failed(i) == log[i] \in {"failed", "no log"}
Lost == \E i \in Numbers : "lost" \in cause[i]

(***************************************************************************)
(* A table fails because of its own calls, or because a connection has     *)
(* been lost: a statement that fails in one table, and the transaction it  *)
(* leaves aborted, does not reach the next one.                            *)
(***************************************************************************)
FailsAlone == \A i \in Numbers : Failed(i) /\ ~ Lost => cause[i] # {}

(***************************************************************************)
(* An incremental sync gets over statements that fail less often than they *)
(* are tried: inserts into any target, and pages and keys of any source    *)
(* but PostgreSQL, whose transaction stays aborted when they fail.         *)
(***************************************************************************)
GotOver ==
  {"insert"} \cup (IF setup.source = "postgres" THEN {} ELSE {"fetch", "key"})

RetriesHeal ==
  \A i \in Numbers :
    setup.mode = "incremental" /\ faults < 3 /\ Failed(i) /\ ~ Lost =>
      ~ cause[i] \subseteq GotOver

(***************************************************************************)
(* The pages of a table that has a key are in the order of the key, unless *)
(* asking for the key has failed.  Excepted are SQL Server, which never    *)
(* finds one, and full syncs from PostgreSQL after an earlier table has    *)
(* left the transaction aborted: the key is what finds that out.           *)
(***************************************************************************)
KeyOrdered ==
  \A i \in Numbers :
    /\ log[i] = "completed" /\ keyed[i] /\ "key" \notin cause[i]
    /\ setup.source # "sqlserver"
    /\ setup.source = "postgres" /\ setup.mode = "full" =>
         \A k \in 1..(i - 1) : cause[k] \cap SourceCalls = {}
    => order[i] = "key"
=============================================================================
