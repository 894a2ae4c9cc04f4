---------------------------- MODULE TargetTable ----------------------------
(***************************************************************************)
(* Where the rows of a source table go: create_table_if_not_exists in      *)
(* sync_engine/table_handler.py, the schema mapping both executors repeat, *)
(* map_data_type in core/type_mapping.py and create_table, table_exists,   *)
(* truncate_table and bulk_insert of the three connectors.                 *)
(*                                                                         *)
(* A job copies the table of one name from each schema of the source.  A   *)
(* table has one column, a column a size - what the values in it may need: *)
(* characters, digits after the point, fractions of a second, bits - and   *)
(* one row whose value needs all of it.  Tables whose columns are not of   *)
(* one kind have columns of different names.                               *)
(***************************************************************************)
EXTENDS Integers

CONSTANTS
  Sources, Targets,  \* the databases considered on either side
  Kinds,             \* and the kinds of columns
  MaxFaults,         \* bound: failed calls
  MaxWidenings       \* bound: columns of the source that grow

Databases == {"postgres", "mysql", "sqlserver"}

ASSUME DatabasesAssumption == Sources \cup Targets \subseteq Databases
ASSUME BoundsAssumption == MaxFaults \in Nat /\ MaxWidenings \in Nat

VARIABLES
  src,        \* source_db_type
  dst,        \* target_db_type
  mayCreate,  \* may the target account create schemas and databases?
  prepared,   \* did the target have the schemas of the source before?
  column,     \* column[s]: the column of the table in schema s of the source
  schemas,    \* schemas of the target (MySQL: databases) that can be used
  shape,      \* shape[p]: the column of the table in schema p of the target
  rows,       \* rows[p]: its rows
  pc,         \* pc[s]: where the sync of the table in schema s is
  at,         \* history: at[s], the schema where it found or made its table
  faults,     \* faults so far
  widenings   \* widenings so far

environment == <<src, dst, mayCreate, prepared>>
vars == <<environment, column, schemas, shape, rows, pc, at, faults, widenings>>

----------------------------------------------------------------------------
(* Columns.                                                                *)

Short == 1      \* a declared length
Lob == 2        \* 65535 bytes, MySQL TEXT
Unlimited == 3
Refused == -1   \* the database does not take the definition

Column(k, n, d) == [kind |-> k, size |-> n, default |-> d]
Columns == [kind : Kinds, size : 0..Unlimited,
            default : {"none", "sequence", "clock"}]

\* What the databases have.  An int of size 2 is unsigned; a string of
\* unlimited size has no length in PostgreSQL and is nvarchar(max) in SQL
\* Server, where get_columns reports the length -1.
SourceColumns(db) ==
  {c \in {Column("int", 1, "none"), Column("string", Short, "none"),
          Column("text", Unlimited, "none"), Column("decimal", 1, "none"),
          Column("time", 1, "clock")}
         \cup (IF db = "mysql"
               THEN {Column("int", 2, "none"), Column("text", Lob, "none")}
               ELSE {Column("string", Unlimited, "none")})
         \cup (IF db = "postgres" THEN {Column("int", 1, "sequence")} ELSE {}) :
     c.kind \in Kinds}

\* max_length as get_columns reads it; 0 for None.  Neither the digits of a
\* decimal or time nor the sign of an integer are read.
MaxLength(db, c) ==
  IF c.kind = "string" /\ c.size = Unlimited
    THEN IF db = "sqlserver" THEN -1 ELSE 0
  ELSE IF c.kind = "string" \/ (c.kind = "text" /\ db # "postgres") THEN c.size
  ELSE 0

\* VARCHAR(n) or NVARCHAR(n), which SQL Server takes as NVARCHAR(1) without n.
StringRoom(db, n) ==
  CASE n = 0 /\ db = "postgres" -> Unlimited
    [] n = 0 /\ db = "sqlserver" -> 0
    [] n < 0 \/ (n = 0 /\ db = "mysql") -> Refused
    [] OTHER -> n

\* TEXT, or NVARCHAR(MAX) with MAX replaced by a length that is out of range.
TextRoom(from, to, c) ==
  IF from = to THEN c.size
  ELSE CASE to = "postgres" -> Unlimited
         [] to = "mysql" -> Lob
         [] OTHER -> IF MaxLength(from, c) = 0 THEN Unlimited ELSE Refused

\* Mutant: PostgreSQL would get a NUMERIC without digits too.
NoDigits(db) == 0

\* NUMERIC, DECIMAL = DECIMAL(10,0), DECIMAL = DECIMAL(18,0)
DecimalRoom(db) == IF db = "postgres" THEN Unlimited ELSE 0

\* TIMESTAMP, DATETIME, DATETIME2
TimeRoom(db) == IF db = "mysql" THEN 0 ELSE 1

\* map_data_type of the handler, and of the connector that builds the DDL.
Room(from, to, c) ==
  CASE c.kind = "string" -> StringRoom(to, MaxLength(from, c))
    [] c.kind = "text" -> TextRoom(from, to, c)
    [] c.kind = "decimal" -> DecimalRoom(to)
    [] c.kind = "time" -> TimeRoom(to)
    [] OTHER -> 1

\* _format_default_value: PostgreSQL keeps nextval(..), and has no such sequence;
\* (getdate()) is kept too, and only known to SQL Server.
PostgresTakes(from, d) ==
  d # "sequence" /\ (d = "clock" => from # "sqlserver")
MySQLTakes(from, d) == d = "clock" => from # "sqlserver"

\* SQL Server is given neither a sequence nor a now() it does not know.
DefaultTaken(from, to, d) ==
  /\ to = "postgres" => PostgresTakes(from, d)
  /\ to = "mysql" => MySQLTakes(from, d)

----------------------------------------------------------------------------
(* Schemas.                                                                *)

Database == "app"  \* the MySQL database the target connection names
Schemas == {"public", "dbo", Database, "sales"}

SourceSchemas(db) ==
  CASE db = "postgres" -> {"public", "sales"}
    [] db = "mysql" -> {Database, "sales"}
    [] OTHER -> {"dbo", "sales"}

\* Mutant: all schemas of SQL Server are mapped to public.
AllPublic(s) ==
  CASE dst = "mysql" /\ src # "mysql" -> Database
    [] dst = "postgres" /\ src = "sqlserver" -> "public"
    [] OTHER -> s

TargetSchema(s) ==
  CASE dst = "mysql" /\ src # "mysql" -> Database
    [] dst = "postgres" /\ src = "sqlserver" /\ s = "dbo" -> "public"
    [] OTHER -> s

\* USE schema, or else the connected database.
Usable(p) == IF p \in schemas THEN p ELSE Database

\* Where table_exists, truncate_table and bulk_insert look for the table.
Place(s) ==
  IF dst = "mysql" THEN Usable(TargetSchema(s)) ELSE TargetSchema(s)

\* Mutant: the connected database, even if there is one of the schema's name.
AlwaysConnected(s) == IF dst = "mysql" THEN Database ELSE TargetSchema(s)

\* Where create_table makes it: MySQL falls back to the connected database
\* unless CREATE DATABASE IF NOT EXISTS succeeds, SQL Server has no public.
CreatePlace(s) ==
  CASE dst = "mysql" /\ ~mayCreate -> Database
    [] dst = "sqlserver" /\ TargetSchema(s) = "public" -> "dbo"
    [] OTHER -> TargetSchema(s)

\* PostgreSQL asks for the right to create a schema even if it exists.
SchemaGranted(s) ==
  CASE dst = "postgres" -> mayCreate
    [] dst = "sqlserver" -> mayCreate \/ CreatePlace(s) \in schemas
    [] OTHER -> TRUE

\* What the databases hold at the beginning.
Home(db) ==
  CASE db = "postgres" -> "public" [] db = "mysql" -> Database [] OTHER -> "dbo"

----------------------------------------------------------------------------
NoShape == [kind |-> "none", size |-> 0]
NoColumn == Column("none", 0, "none")

Shapes == [kind : Kinds, size : 0..Unlimited]
Rows == [of : Schemas, held : 0..Unlimited, kept : 0..Unlimited]
\* "stuck": the job was left with the status 'running', and is not started.
States == {"idle", "check", "create", "truncate", "insert", "stuck"}

TypeOK ==
  /\ src \in Sources /\ dst \in Targets
  /\ mayCreate \in BOOLEAN /\ prepared \in BOOLEAN
  /\ column \in [Schemas -> Columns \cup {NoColumn}]
  /\ schemas \subseteq Schemas
  /\ shape \in [Schemas -> Shapes \cup {NoShape}]
  /\ rows \in [Schemas -> SUBSET Rows]
  /\ pc \in [Schemas -> States]
  /\ at \in [Schemas -> Schemas]
  /\ faults \in 0..MaxFaults /\ widenings \in 0..MaxWidenings

Exists(p) == shape[p] # NoShape

\* Numeric values are rounded; strings and integers are rejected (MySQL in its
\* default, strict mode).
Rounded == {"decimal", "time"}
Stored(n, t) == IF n <= t.size THEN n ELSE t.size
Accepted(c, t) == c.kind = t.kind /\ (c.size <= t.size \/ c.kind \in Rounded)

----------------------------------------------------------------------------
(* The sync of one table.                                                  *)

Fault == faults < MaxFaults /\ faults' = faults + 1

Go(s, state) == pc' = [pc EXCEPT ![s] = state]

\* A TableSyncError: the log is marked failed.
Fail(s) == Go(s, "idle") /\ at' = [at EXCEPT ![s] = s]

\* sync_table of either executor begins.
Begin(s) ==
  /\ pc[s] = "idle"
  /\ Go(s, "check")
  /\ UNCHANGED <<environment, column, schemas, shape, rows, at, faults,
                 widenings>>

\* Mutant: the query leaves the schema out.
CheckAnySchema(s) ==
  /\ pc[s] = "check"
  /\ IF \E p \in Schemas : Exists(p)
     THEN Go(s, "truncate") /\ at' = [at EXCEPT ![s] = Place(s)]
     ELSE Go(s, "create") /\ UNCHANGED at
  /\ UNCHANGED <<environment, column, schemas, shape, rows, faults, widenings>>

\* table_exists: a table that is there is taken as it is.
Check(s) ==
  /\ pc[s] = "check"
  /\ IF Exists(Place(s))
     THEN Go(s, "truncate") /\ at' = [at EXCEPT ![s] = Place(s)]
     ELSE Go(s, "create") /\ UNCHANGED at
  /\ UNCHANGED <<environment, column, schemas, shape, rows, faults, widenings>>

\* It fails twice: logged, "will attempt to create".
CheckError(s) ==
  /\ pc[s] = "check"
  /\ Fault
  /\ Go(s, "create")
  /\ UNCHANGED <<environment, column, schemas, shape, rows, at, widenings>>

\* ensure_schema_exists of the connector, and again in create_table.
SchemaEnsured(s) == schemas' = schemas \cup {CreatePlace(s)}

Definable(s) ==
  /\ Room(src, dst, column[s]) # Refused
  /\ DefaultTaken(src, dst, column[s].default)

\* CREATE TABLE IF NOT EXISTS
TableMade(s) ==
  shape' = [shape EXCEPT ![CreatePlace(s)] =
              IF @ # NoShape THEN @
              ELSE [kind |-> column[s].kind,
                    size |-> Room(src, dst, column[s])]]

\* A definition that is not accepted may pass unnoticed if the table is there.
Create(s) ==
  /\ pc[s] = "create"
  /\ SchemaGranted(s)
  /\ Definable(s) \/ Exists(CreatePlace(s))
  /\ SchemaEnsured(s)
  /\ TableMade(s)
  /\ Go(s, "truncate")
  /\ at' = [at EXCEPT ![s] = CreatePlace(s)]
  /\ UNCHANGED <<environment, column, rows, faults, widenings>>

\* The account or the database does not permit it.  The schema is made all the
\* same, in a transaction of its own.
CreateRefused(s) ==
  /\ pc[s] = "create"
  /\ IF SchemaGranted(s)
     THEN ~Definable(s) /\ SchemaEnsured(s)
     ELSE UNCHANGED schemas
  /\ Fail(s)
  /\ UNCHANGED <<environment, column, shape, rows, faults, widenings>>

\* The schema, and the table, have been made, or not yet.
Halfway(s) ==
  \/ UNCHANGED <<schemas, shape>>
  \/ SchemaGranted(s) /\ SchemaEnsured(s) /\ UNCHANGED shape
  \/ SchemaGranted(s) /\ Definable(s) /\ SchemaEnsured(s) /\ TableMade(s)

\* Some call fails, or only its answer is lost.
CreateError(s) ==
  /\ pc[s] = "create"
  /\ Fault
  /\ Halfway(s)
  /\ Fail(s)
  /\ UNCHANGED <<environment, column, rows, widenings>>

\* A full sync empties the table.
Truncate(s) ==
  /\ pc[s] = "truncate"
  /\ Exists(Place(s))
  /\ rows' = [rows EXCEPT ![Place(s)] = {}]
  /\ Go(s, "insert")
  /\ UNCHANGED <<environment, column, schemas, shape, at, faults, widenings>>

\* An incremental sync does not.
KeepRows(s) ==
  /\ pc[s] = "truncate"
  /\ Go(s, "insert")
  /\ UNCHANGED <<environment, column, schemas, shape, rows, at, faults,
                 widenings>>

\* There is no such table: it was made elsewhere.
TruncateRefused(s) ==
  /\ pc[s] = "truncate"
  /\ ~Exists(Place(s))
  /\ Fail(s)
  /\ UNCHANGED <<environment, column, schemas, shape, rows, faults, widenings>>

\* bulk_insert
Insert(s) ==
  LET p == Place(s)
      row == [of |-> s, held |-> column[s].size,
              kept |-> Stored(column[s].size, shape[p])]
  IN /\ pc[s] = "insert"
     /\ Accepted(column[s], shape[p])
     /\ rows' = [rows EXCEPT ![p] = @ \cup {row}]
     /\ Go(s, "idle")
     /\ at' = [at EXCEPT ![s] = s]
     /\ UNCHANGED <<environment, column, schemas, shape, faults, widenings>>

\* No table, a column that it does not have, or a value that does not fit.
InsertRefused(s) ==
  /\ pc[s] = "insert"
  /\ ~Accepted(column[s], shape[Place(s)])
  /\ Fail(s)
  /\ UNCHANGED <<environment, column, schemas, shape, rows, faults, widenings>>

\* A statement fails; the loop over the tables goes on.
StatementError(s) ==
  /\ pc[s] \in {"check", "truncate", "insert"}
  /\ Fault
  /\ Fail(s)
  /\ UNCHANGED <<environment, column, schemas, shape, rows, widenings>>

Stuck == \A s \in Schemas : pc[s] = "stuck"

\* The process dies in a sync of s, or before or after it.  The job is left
\* 'running', as it is by a run that cannot connect (a TableSyncError of the
\* incremental executor) or cannot save its result; triggers and users are
\* refused.
Crash(s) ==
  /\ ~Stuck
  /\ Fault
  /\ \/ pc[s] = "create" /\ Halfway(s)
     \/ UNCHANGED <<schemas, shape>>
  /\ pc' = [t \in Schemas |-> "stuck"]
  /\ at' = [t \in Schemas |-> t]
  /\ UNCHANGED <<environment, column, rows, widenings>>

\* An administrator gives the job another status, which no handler does.
PutRight ==
  /\ Stuck
  /\ pc' = [s \in Schemas |-> "idle"]
  /\ UNCHANGED <<environment, column, schemas, shape, rows, at, faults, widenings>>

\* The application widens the column, and a row makes use of it.
Widen(s) ==
  /\ widenings < MaxWidenings
  /\ widenings' = widenings + 1
  /\ \E c \in SourceColumns(src) :
       /\ c.kind = column[s].kind
       /\ c.size > column[s].size
       /\ column' = [column EXCEPT ![s] = c]
  /\ UNCHANGED <<environment, schemas, shape, rows, pc, at, faults>>

----------------------------------------------------------------------------
Init ==
  /\ src \in Sources /\ dst \in Targets
  /\ mayCreate \in BOOLEAN /\ prepared \in BOOLEAN
  /\ column \in {f \in [Schemas -> SourceColumns(src) \cup {NoColumn}] :
                   \A s \in Schemas : f[s] = NoColumn <=> s \notin SourceSchemas(src)}
  /\ schemas = ({Home(dst)}
                \cup (IF prepared THEN {TargetSchema(s) : s \in SourceSchemas(src)}
                     ELSE {}))
               \ (IF dst = "sqlserver" THEN {"public"} ELSE {})
  /\ shape = [p \in Schemas |-> NoShape]
  /\ rows = [p \in Schemas |-> {}]
  /\ pc = [s \in Schemas |-> "idle"]
  /\ at = [s \in Schemas |-> s]
  /\ faults = 0 /\ widenings = 0

Step(s) ==
  \/ Begin(s) \/ Check(s)
  \/ Create(s) \/ CreateRefused(s)
  \/ Truncate(s) \/ KeepRows(s) \/ TruncateRefused(s)
  \/ Insert(s) \/ InsertRefused(s)

FaultStep(s) == CheckError(s) \/ CreateError(s) \/ StatementError(s)

Next ==
  \/ \E s \in SourceSchemas(src) : Step(s) \/ FaultStep(s) \/ Crash(s) \/ Widen(s)
  \/ PutRight

Spec == Init /\ [][Next]_vars

\* A scheduled job is started again and again, unless it is stuck, and a started
\* thread goes on.  Nobody has to put the job right.
FairSpec == Spec /\ \A s \in Schemas : WF_vars(s \in SourceSchemas(src) /\ Step(s))

----------------------------------------------------------------------------
(* Properties.                                                             *)

\* Two schemas of the source lead to two places in the target: not if the
\* target is MySQL, unless the source is too and its databases are there.
Apart == dst = "mysql" => src = "mysql" /\ prepared

\* What is created is where the writes go: not in SQL Server for the schema
\* public, nor in MySQL for an account that may not create a database.
Routed(s) ==
  /\ dst = "sqlserver" => TargetSchema(s) # "public"
  /\ dst = "mysql" => src # "mysql" \/ mayCreate

\* A sync empties and fills a table only if all rows in it are of its own
\* source table, whichever runs have come before or are under way.
OwnTable ==
  \A s \in Schemas : Apart /\ pc[s] \in {"truncate", "insert"} =>
    \A r \in rows[Place(s)] : r.of = s

\* A sync writes to the table that it found or made, though each statement
\* looks for it anew and a table that could not be looked up is created.
WrittenWhereCreated ==
  \A s \in Schemas : Routed(s) /\ pc[s] \in {"truncate", "insert"} =>
    Exists(Place(s)) /\ Place(s) = at[s]

\* Values arrive as they are or are refused, even if the column of the source
\* has changed since the table was made, except that decimals lose their digits
\* outside PostgreSQL and times their fractions in MySQL.
ExactValues ==
  \A p \in Schemas : \A r \in rows[p] :
    \/ r.kept = r.held
    \/ shape[p].kind = "decimal" /\ dst # "postgres"
    \/ shape[p].kind = "time" /\ dst = "mysql"

\* The table of schema s can be copied: it has its place, and the one that is
\* there takes its values, or one that does can be made.
Copyable(s) ==
  /\ Apart /\ Routed(s)
  /\ IF Exists(Place(s)) THEN Accepted(column[s], shape[Place(s)])
     ELSE /\ SchemaGranted(s) /\ Definable(s)
          /\ column[s].kind \in Rounded
             \/ column[s].size <= Room(src, dst, column[s])

\* Then it is, again and again, whatever has failed before, unless the job is
\* stuck.
Arrived(s) ==
  \E r \in rows[Place(s)] : r.of = s /\ r.held = column[s].size
Arrives ==
  \A s \in Schemas :
    []<>(s \in SourceSchemas(src) /\ Copyable(s) => Arrived(s) \/ Stuck)
=============================================================================
