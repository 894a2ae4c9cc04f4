---------------------------- MODULE ColumnProofs ----------------------------
(***************************************************************************)
(* Proofs about the columns of a table and the values in them.             *)
(*                                                                         *)
(* TargetTable: a sync writes where its table was found or made, tables of *)
(* two schemas are kept apart, and values are not changed.                 *)
(* IncrementalValues: no row is skipped and none is copied twice, however  *)
(* the values of an incremental column are written, parsed and compared.   *)
(***************************************************************************)
EXTENDS TargetTable, IncrementalValues, FiniteSetTheorems, TLAPS

----------------------------------------------------------------------------
(* Where the rows of a table go: types.                                    *)

\* Where a table is looked for or made is a schema that the model knows.
LEMMA Places ==
  ASSUME NEW s \in Schemas
  PROVE  /\ TargetSchema(s) \in Schemas
         /\ Place(s) \in Schemas
         /\ CreatePlace(s) \in Schemas
  BY DEF Schemas, Database, TargetSchema, Place, Usable, CreatePlace

\* The schemas of a source are schemas.
LEMMA SourceSchemasType ==
  ASSUME NEW db \in Databases
  PROVE  SourceSchemas(db) \subseteq Schemas
  BY DEF SourceSchemas, Schemas, Databases, Database

\* What the databases have are columns.
LEMMA SourceColumnsType ==
  ASSUME NEW db
  PROVE  SourceColumns(db) \subseteq Columns
  BY DEF SourceColumns, Columns, Column, Short, Lob, Unlimited

\* A definition is refused or has a size.
LEMMA RoomType ==
  ASSUME NEW from, NEW to, NEW c \in Columns
  PROVE  Room(from, to, c) \in (0..Unlimited) \cup {Refused}
<1>1. MaxLength(from, c) \in -1..Unlimited
  BY DEF MaxLength, Columns, Unlimited
<1>2. StringRoom(to, MaxLength(from, c)) \in (0..Unlimited) \cup {Refused}
  BY <1>1 DEF StringRoom, Unlimited, Refused
<1>3. TextRoom(from, to, c) \in (0..Unlimited) \cup {Refused}
  BY <1>1 DEF TextRoom, Columns, Unlimited, Refused, Lob
<1>4. DecimalRoom(to) \in 0..Unlimited /\ TimeRoom(to) \in 0..Unlimited
  BY DEF DecimalRoom, TimeRoom, Unlimited
<1> QED
  BY <1>2, <1>3, <1>4 DEF Room, Unlimited

\* What is known of the source: only its schemas are synced, and their columns
\* are such as the source has.
SourceInv ==
  /\ \A s \in SourceSchemas(src) : column[s] \in SourceColumns(src)
  /\ \A s \in Schemas :
       pc[s] \notin {"idle", "stuck"} => s \in SourceSchemas(src)

TypeInv == TypeOK /\ SourceInv

LEMMA TypeInit == ASSUME Init PROVE TypeInv
<1>1. src \in Databases
  BY DatabasesAssumption DEF Init
<1>2. SourceSchemas(src) \subseteq Schemas
  BY <1>1, SourceSchemasType
<1>3. SourceColumns(src) \subseteq Columns
  BY SourceColumnsType
<1>4. column \in [Schemas -> SourceColumns(src) \cup {NoColumn}]
  BY DEF Init
<1>5. \A s \in SourceSchemas(src) : column[s] \in SourceColumns(src)
  BY <1>2, <1>4 DEF Init
<1>6. schemas \subseteq Schemas
  <2>1. Home(dst) \in Schemas
    BY DEF Home, Schemas, Database
  <2>2. \A s \in SourceSchemas(src) : TargetSchema(s) \in Schemas
    BY <1>2, Places
  <2> QED
    BY <2>1, <2>2 DEF Init
<1>7. TypeOK
  <2>1. column \in [Schemas -> Columns \cup {NoColumn}]
    BY <1>3, <1>4
  <2> QED
    BY <1>6, <2>1, BoundsAssumption DEF Init, TypeOK, States
<1> QED
  BY <1>5, <1>7 DEF TypeInv, SourceInv, Init

\* Failing, or going on, keeps the control state well typed.
LEMMA MoveType ==
  ASSUME TypeInv, NEW s \in SourceSchemas(src), NEW state \in States,
         Go(s, state), UNCHANGED <<src, column>>
  PROVE  pc' \in [Schemas -> States] /\ SourceInv'
  BY DatabasesAssumption, SourceSchemasType
  DEF TypeInv, TypeOK, SourceInv, Go

\* The table that CREATE TABLE makes is of a known shape.
LEMMA TableMadeType ==
  ASSUME TypeInv, NEW s \in SourceSchemas(src), TableMade(s),
         Definable(s) \/ Exists(CreatePlace(s))
  PROVE  shape' \in [Schemas -> Shapes \cup {NoShape}]
<1>1. s \in Schemas /\ column[s] \in Columns
  BY DatabasesAssumption, SourceSchemasType, SourceColumnsType
  DEF TypeInv, TypeOK, SourceInv
<1>2. Room(src, dst, column[s]) \in (0..Unlimited) \cup {Refused}
  BY <1>1, RoomType
<1>3. Definable(s) => [kind |-> column[s].kind,
                       size |-> Room(src, dst, column[s])] \in Shapes
  BY <1>1, <1>2 DEF Definable, Shapes, Columns
<1> QED
  BY <1>1, <1>3, Places DEF TableMade, Exists, TypeInv, TypeOK

\* A row that is copied is a row.
LEMMA RowType ==
  ASSUME TypeInv, NEW s \in SourceSchemas(src), NEW p \in Schemas,
         Accepted(column[s], shape[p])
  PROVE  [of |-> s, held |-> column[s].size,
          kept |-> Stored(column[s].size, shape[p])] \in Rows
<1>1. s \in Schemas /\ column[s] \in Columns
  BY DatabasesAssumption, SourceSchemasType, SourceColumnsType
  DEF TypeInv, TypeOK, SourceInv
<1>2. shape[p].size \in 0..Unlimited
  BY DEF TypeInv, TypeOK, Shapes, NoShape, Unlimited
<1> QED
  BY <1>1, <1>2 DEF Rows, Stored, Columns

LEMMA TypeNext == ASSUME TypeInv, [Next]_vars PROVE TypeInv'
<1> USE DEF TypeInv
<1>1. CASE UNCHANGED vars
  BY <1>1 DEF vars, environment, TypeOK, SourceInv
<1>2. ASSUME NEW s \in SourceSchemas(src),
             Step(s) \/ FaultStep(s) \/ Crash(s) \/ Widen(s)
      PROVE  TypeInv'
  <2>1. s \in Schemas /\ Place(s) \in Schemas /\ CreatePlace(s) \in Schemas
    BY DatabasesAssumption, SourceSchemasType, Places DEF TypeOK
  <2> USE DEF environment
  <2>2. CASE Begin(s) \/ KeepRows(s)
    BY <2>2, MoveType DEF Begin, KeepRows, TypeOK, States
  <2>3. CASE Check(s)
    <3>1. pc' \in [Schemas -> States] /\ SourceInv'
      BY <2>3, MoveType DEF Check, States
    <3> QED
      BY <2>1, <2>3, <3>1 DEF Check, TypeOK
  <2>4. CASE CheckError(s)
    <3>1. pc' \in [Schemas -> States] /\ SourceInv'
      BY <2>4, MoveType DEF CheckError, States
    <3> QED
      BY <2>4, <3>1, BoundsAssumption DEF CheckError, Fault, TypeOK
  <2>5. CASE Create(s)
    <3>1. pc' \in [Schemas -> States] /\ SourceInv'
      BY <2>5, MoveType DEF Create, States
    <3>2. shape' \in [Schemas -> Shapes \cup {NoShape}]
      BY <2>5, TableMadeType DEF Create
    <3> QED
      BY <2>1, <2>5, <3>1, <3>2 DEF Create, SchemaEnsured, TypeOK
  <2>6. CASE CreateRefused(s)
    <3>1. pc' \in [Schemas -> States] /\ SourceInv'
      BY <2>6, MoveType DEF CreateRefused, Fail, States
    <3> QED
      BY <2>1, <2>6, <3>1 DEF CreateRefused, Fail, SchemaEnsured, TypeOK
  <2>7. CASE CreateError(s)
    <3>1. pc' \in [Schemas -> States] /\ SourceInv'
      BY <2>7, MoveType DEF CreateError, Fail, States
    <3>2. shape' \in [Schemas -> Shapes \cup {NoShape}]
      BY <2>7, TableMadeType DEF CreateError, Halfway, TypeOK
    <3>3. schemas' \subseteq Schemas
      BY <2>1, <2>7 DEF CreateError, Halfway, SchemaEnsured, TypeOK
    <3>4. faults' \in 0..MaxFaults
      BY <2>7, BoundsAssumption DEF CreateError, Fault, TypeOK
    <3>5. at' \in [Schemas -> Schemas]
      BY <2>1, <2>7 DEF CreateError, Fail, TypeOK
    <3> QED
      BY <2>7, <3>1, <3>2, <3>3, <3>4, <3>5 DEF CreateError, TypeOK
  <2>8. CASE Truncate(s)
    <3>1. pc' \in [Schemas -> States] /\ SourceInv'
      BY <2>8, MoveType DEF Truncate, States
    <3> QED
      BY <2>1, <2>8, <3>1 DEF Truncate, TypeOK
  <2>9. CASE TruncateRefused(s) \/ InsertRefused(s)
    <3>1. pc' \in [Schemas -> States] /\ SourceInv'
      BY <2>9, MoveType DEF TruncateRefused, InsertRefused, Fail, States
    <3> QED
      BY <2>1, <2>9, <3>1 DEF TruncateRefused, InsertRefused, Fail, TypeOK
  <2>10. CASE Insert(s)
    <3>1. pc' \in [Schemas -> States] /\ SourceInv'
      BY <2>10, MoveType DEF Insert, States
    <3>2. rows' \in [Schemas -> SUBSET Rows]
      BY <2>1, <2>10, RowType DEF Insert, TypeOK
    <3> QED
      BY <2>1, <2>10, <3>1, <3>2 DEF Insert, TypeOK
  <2>11. CASE StatementError(s)
    <3>1. pc' \in [Schemas -> States] /\ SourceInv'
      BY <2>11, MoveType DEF StatementError, Fail, States
    <3>2. faults' \in 0..MaxFaults
      BY <2>11, BoundsAssumption DEF StatementError, Fault, TypeOK
    <3>3. at' \in [Schemas -> Schemas]
      BY <2>1, <2>11 DEF StatementError, Fail, TypeOK
    <3> QED
      BY <2>11, <3>1, <3>2, <3>3 DEF StatementError, TypeOK
  <2>12. CASE Widen(s)
    <3>1. PICK c \in SourceColumns(src) : column' = [column EXCEPT ![s] = c]
      BY <2>12 DEF Widen
    <3>2. c \in Columns
      BY SourceColumnsType
    <3>3. widenings' \in 0..MaxWidenings
      BY <2>12, BoundsAssumption DEF Widen, TypeOK
    <3>4. SourceInv'
      BY <2>1, <2>12, <3>1, DatabasesAssumption, SourceSchemasType
      DEF Widen, SourceInv, TypeOK
    <3> QED
      BY <2>1, <2>12, <3>1, <3>2, <3>3, <3>4 DEF Widen, TypeOK
  <2>13. CASE Crash(s)
    <3>1. pc' \in [Schemas -> States] /\ SourceInv'
      BY <2>13, DatabasesAssumption, SourceSchemasType
      DEF Crash, States, SourceInv, TypeOK
    <3>2. shape' \in [Schemas -> Shapes \cup {NoShape}]
      BY <2>13, TableMadeType DEF Crash, Halfway, TypeOK
    <3>3. schemas' \subseteq Schemas
      BY <2>1, <2>13 DEF Crash, Halfway, SchemaEnsured, TypeOK
    <3>4. faults' \in 0..MaxFaults
      BY <2>13, BoundsAssumption DEF Crash, Fault, TypeOK
    <3> QED
      BY <2>13, <3>1, <3>2, <3>3, <3>4 DEF Crash, TypeOK
  <2> QED
    BY <1>2, <2>2, <2>3, <2>4, <2>5, <2>6, <2>7, <2>8, <2>9, <2>10, <2>11,
       <2>12, <2>13 DEF Step, FaultStep
<1>3. CASE PutRight
  BY <1>3 DEF PutRight, environment, States, TypeOK, SourceInv
<1> QED
  BY <1>1, <1>2, <1>3 DEF Next

\* The variables of TargetTable keep their types, and the tables that are
\* synced are those of the source.
THEOREM TypeInvariance == Spec => []TypeInv
  BY TypeInit, TypeNext, PTL DEF Spec

\* The variables of TargetTable keep their types.
THEOREM TypeCorrect == Spec => []TypeOK
<1>1. TypeInv => TypeOK
  BY DEF TypeInv
<1> QED
  BY <1>1, TypeInvariance, PTL

----------------------------------------------------------------------------
(* What every step leaves alone.                                           *)

\* A table that is made is one.
LEMMA NewShape ==
  ASSUME TypeInv, NEW s \in SourceSchemas(src), TableMade(s)
  PROVE  shape'[CreatePlace(s)] # NoShape
<1>1. s \in Schemas /\ column[s] \in SourceColumns(src)
  BY DatabasesAssumption, SourceSchemasType DEF TypeInv, TypeOK, SourceInv
<1>2. column[s].kind # "none"
  BY <1>1 DEF SourceColumns, Column
<1> QED
  BY <1>1, <1>2, Places DEF TableMade, NoShape, TypeInv, TypeOK

\* A sync leaves the control state of the others alone, unless the process dies,
\* the schemas but for its own, and every table that exists as it is.
LEMMA Frame ==
  ASSUME TypeInv, NEW t \in SourceSchemas(src),
         Step(t) \/ FaultStep(t) \/ Crash(t) \/ Widen(t)
  PROVE  /\ UNCHANGED environment
         /\ schemas' = schemas \/ schemas' = schemas \cup {CreatePlace(t)}
         /\ Crash(t) \/ \A s \in Schemas : s # t =>
              pc'[s] = pc[s] /\ at'[s] = at[s] /\ column'[s] = column[s]
         /\ \A p \in Schemas : Exists(p) => shape'[p] = shape[p]
<1> USE DEF TypeInv, TypeOK
<1>1. CASE Begin(t) \/ Check(t) \/ CheckError(t)
  BY <1>1 DEF Begin, Check, CheckError, Go
<1>2. CASE Create(t) \/ CreateRefused(t)
  BY <1>2 DEF Create, CreateRefused, Fail, Go, SchemaEnsured, TableMade, Exists
<1>3. CASE CreateError(t)
  BY <1>3 DEF CreateError, Halfway, Fail, Go, SchemaEnsured, TableMade, Exists
<1>4. CASE Truncate(t) \/ KeepRows(t) \/ TruncateRefused(t)
  BY <1>4 DEF Truncate, KeepRows, TruncateRefused, Fail, Go
<1>5. CASE Insert(t) \/ InsertRefused(t) \/ StatementError(t)
  BY <1>5 DEF Insert, InsertRefused, StatementError, Fail, Go
<1>6. CASE Widen(t)
  BY <1>6 DEF Widen
<1>7. CASE Crash(t)
  BY <1>7 DEF Crash, Halfway, SchemaEnsured, TableMade, Exists
<1> QED
  BY <1>1, <1>2, <1>3, <1>4, <1>5, <1>6, <1>7 DEF Step, FaultStep

----------------------------------------------------------------------------
(* A sync writes to the table that it found or made.                       *)

\* A schema that another sync creates does not move the place of this one.
LEMMA PlaceStays ==
  ASSUME NEW s \in Schemas, NEW t \in Schemas, s # t, Routed(s),
         UNCHANGED environment,
         schemas' = schemas \/ schemas' = schemas \cup {CreatePlace(t)}
  PROVE  Place(s)' = Place(s)
<1>1. CASE dst # "mysql"
  BY <1>1 DEF environment, Place, TargetSchema
<1>2. CASE dst = "mysql" /\ src # "mysql"
  BY <1>2 DEF environment, Place, TargetSchema, Usable
<1>3. CASE dst = "mysql" /\ src = "mysql"
  BY <1>3 DEF environment, Place, TargetSchema, Usable, CreatePlace, Routed
<1> QED
  BY <1>1, <1>2, <1>3

\* What is made is where the writes go.
LEMMA MadeInPlace ==
  ASSUME NEW s \in Schemas, Routed(s), SchemaEnsured(s), UNCHANGED environment
  PROVE  Place(s)' = CreatePlace(s)
<1>1. CASE dst # "mysql"
  BY <1>1 DEF environment, Place, TargetSchema, CreatePlace, Routed
<1>2. CASE dst = "mysql"
  BY <1>2 DEF environment, Place, TargetSchema, Usable, CreatePlace, Routed,
              SchemaEnsured
<1> QED
  BY <1>1, <1>2

\* Of the schemas that a step does not concern, nothing changes.
LEMMA WrittenNext ==
  ASSUME TypeInv, WrittenWhereCreated, [Next]_vars
  PROVE  WrittenWhereCreated'
<1>1. CASE UNCHANGED vars
  BY <1>1 DEF vars, environment, WrittenWhereCreated, Routed, TargetSchema,
              Place, Usable, Exists
<1>3. ASSUME PutRight \/ \E t \in SourceSchemas(src) : Crash(t)
      PROVE  WrittenWhereCreated'
  BY <1>3 DEF PutRight, Crash, WrittenWhereCreated
<1>2. ASSUME NEW t \in SourceSchemas(src), Step(t) \/ FaultStep(t) \/ Widen(t),
             ~Crash(t)
      PROVE  WrittenWhereCreated'
  <2>1. SUFFICES ASSUME NEW s \in Schemas, Routed(s),
                        pc'[s] \in {"truncate", "insert"},
                        UNCHANGED environment
                 PROVE  Exists(Place(s))' /\ Place(s)' = at'[s]
    BY <1>2, Frame DEF WrittenWhereCreated, Routed, TargetSchema, environment
  <2>2. t \in Schemas /\ Place(s) \in Schemas
    BY DatabasesAssumption, SourceSchemasType, Places DEF TypeInv, TypeOK
  <2>3. CASE s # t
    <3>1. Place(s)' = Place(s)
      BY <1>2, <2>1, <2>2, <2>3, Frame, PlaceStays
    <3>2. Exists(Place(s)) /\ Place(s) = at[s]
      BY <1>2, <2>1, <2>3, Frame DEF WrittenWhereCreated
    <3> QED
      BY <1>2, <2>2, <2>3, <3>1, <3>2, Frame DEF Exists
  <2>4. CASE s = t
    <3>1. CASE Check(s)
      <4>1. Exists(Place(s)) /\ at'[s] = Place(s)
        BY <2>1, <2>4, <3>1 DEF Check, Go, TypeInv, TypeOK
      <4>2. Place(s)' = Place(s) /\ shape' = shape
        BY <2>1, <3>1 DEF Check, environment, Place, TargetSchema, Usable
      <4> QED
        BY <4>1, <4>2 DEF Exists
    <3>2. CASE Create(s)
      <4>1. Place(s)' = CreatePlace(s)
        BY <2>1, <3>2, MadeInPlace DEF Create
      <4>2. shape'[CreatePlace(s)] # NoShape
        BY <2>4, <3>2, NewShape DEF Create
      <4>3. at'[s] = CreatePlace(s)
        BY <3>2 DEF Create, TypeInv, TypeOK
      <4> QED
        BY <4>1, <4>2, <4>3 DEF Exists
    <3>3. CASE Truncate(s) \/ KeepRows(s) \/ Widen(s)
      <4>1. /\ pc[s] \in {"truncate", "insert"}
            /\ UNCHANGED <<schemas, shape, at>>
        BY <2>1, <3>3 DEF Truncate, KeepRows, Widen, Go, TypeInv, TypeOK
      <4>2. Exists(Place(s)) /\ Place(s) = at[s]
        BY <2>1, <4>1 DEF WrittenWhereCreated
      <4>3. Place(s)' = Place(s)
        BY <2>1, <4>1 DEF environment, Place, TargetSchema, Usable
      <4> QED
        BY <4>1, <4>2, <4>3 DEF Exists
    <3>4. CASE \/ Begin(s) \/ CreateRefused(s) \/ TruncateRefused(s)
               \/ Insert(s) \/ InsertRefused(s) \/ FaultStep(s)
      BY <2>1, <3>4
      DEF Begin, CreateRefused, TruncateRefused, Insert, InsertRefused,
          FaultStep, CheckError, CreateError, StatementError, Fail, Go,
          TypeInv, TypeOK
    <3> QED
      BY <1>2, <2>4, <3>1, <3>2, <3>3, <3>4 DEF Step
  <2> QED
    BY <2>3, <2>4
<1> QED
  BY <1>1, <1>2, <1>3 DEF Next

\* A sync writes to the table that it found or made, for any source, target and
\* rights of the account but for the cases that Routed names.
THEOREM WritesAreRouted == Spec => []WrittenWhereCreated
<1>1. Init => WrittenWhereCreated
  BY DEF Init, WrittenWhereCreated
<1> QED
  BY <1>1, WrittenNext, TypeInvariance, PTL DEF Spec

----------------------------------------------------------------------------
(* Tables of two schemas are kept apart.                                   *)

\* Where the schemas are apart, every row is where its schema leads.
OwnInv ==
  Apart =>
    /\ dst = "mysql" => SourceSchemas(src) \subseteq schemas
    /\ \A p \in Schemas : \A r \in rows[p] :
         r.of \in SourceSchemas(src) /\ TargetSchema(r.of) = p

\* There no statement falls back to the connected database,
LEMMA NoFallback ==
  ASSUME OwnInv, Apart, NEW s \in SourceSchemas(src)
  PROVE  Place(s) = TargetSchema(s)
  BY DEF OwnInv, Place, Usable, TargetSchema

\* and no two schemas lead to one.
LEMMA Injective ==
  ASSUME TypeInv, Apart, NEW s \in SourceSchemas(src),
         NEW t \in SourceSchemas(src), TargetSchema(s) = TargetSchema(t)
  PROVE  s = t
  BY DatabasesAssumption
  DEF TypeInv, TypeOK, Apart, TargetSchema, SourceSchemas, Database, Databases

LEMMA OwnInit == ASSUME Init PROVE OwnInv
  BY DEF Init, OwnInv, Apart, TargetSchema, Schemas

LEMMA OwnNext ==
  ASSUME TypeInv, OwnInv, [Next]_vars
  PROVE  OwnInv'
<1>1. CASE UNCHANGED vars
  BY <1>1 DEF vars, environment, OwnInv, Apart, TargetSchema
<1>3. CASE PutRight
  BY <1>3 DEF PutRight, environment, OwnInv, Apart, TargetSchema
<1>2. ASSUME NEW t \in SourceSchemas(src),
             Step(t) \/ FaultStep(t) \/ Crash(t) \/ Widen(t)
      PROVE  OwnInv'
  <2>1. UNCHANGED environment /\ schemas \subseteq schemas'
    BY <1>2, Frame
  <2>2. SUFFICES ASSUME Apart
                 PROVE  \A p \in Schemas : \A r \in rows'[p] :
                          r.of \in SourceSchemas(src) /\ TargetSchema(r.of) = p
    BY <2>1 DEF OwnInv, Apart, TargetSchema, environment
  <2>3. \A p \in Schemas : \A r \in rows[p] :
          r.of \in SourceSchemas(src) /\ TargetSchema(r.of) = p
    BY <2>2 DEF OwnInv
  <2>4. CASE Truncate(t)
    BY <2>3, <2>4 DEF Truncate, TypeInv, TypeOK
  <2>5. CASE Insert(t)
    <3>1. Place(t) = TargetSchema(t)
      BY <2>2, NoFallback
    <3> DEFINE row == [of |-> t, held |-> column[t].size,
                       kept |-> Stored(column[t].size, shape[Place(t)])]
    <3>2. \A p \in Schemas : \A r \in rows'[p] :
            r \in rows[p] \/ (p = Place(t) /\ r = row)
      <4>1. rows' = [rows EXCEPT ![Place(t)] = rows[Place(t)] \cup {row}]
        BY <2>5 DEF Insert
      <4> HIDE DEF row
      <4> QED
        BY <4>1 DEF TypeInv, TypeOK
    <3>3. row.of = t
      OBVIOUS
    <3> QED
      BY <2>3, <3>1, <3>2, <3>3
  <2>6. CASE ~Truncate(t) /\ ~Insert(t)
    <3>1. UNCHANGED rows
      BY <1>2, <2>6
      DEF Step, FaultStep, Begin, Check, CheckError, Create, CreateRefused,
          CreateError, KeepRows, TruncateRefused, InsertRefused, StatementError,
          Crash, Widen
    <3> QED
      BY <2>3, <3>1
  <2> QED
    BY <2>4, <2>5, <2>6
<1> QED
  BY <1>1, <1>2, <1>3 DEF Next

LEMMA OwnEnough == ASSUME TypeInv, OwnInv PROVE OwnTable
<1>1. SUFFICES ASSUME NEW s \in Schemas, Apart,
                      pc[s] \in {"truncate", "insert"},
                      NEW r \in rows[Place(s)]
               PROVE  r.of = s
  BY DEF OwnTable
<1>2. s \in SourceSchemas(src)
  BY <1>1 DEF TypeInv, SourceInv
<1>3. Place(s) = TargetSchema(s) /\ Place(s) \in Schemas
  BY <1>1, <1>2, NoFallback, Places
<1>4. r.of \in SourceSchemas(src) /\ TargetSchema(r.of) = TargetSchema(s)
  BY <1>1, <1>3 DEF OwnInv
<1> QED
  BY <1>1, <1>2, <1>4, Injective

\* Where the schemas are apart, a sync finds rows of its own source table only
\* in the table that it empties and fills.
THEOREM TablesAreOwn == Spec => []OwnTable
  BY TypeInvariance, OwnInit, OwnNext, OwnEnough, PTL DEF Spec

----------------------------------------------------------------------------
(* Values are not changed.                                                 *)

\* The sizes of columns that would round, and rows only where there is a table.
ShapeInv ==
  \A p \in Schemas :
    /\ shape[p].kind = "decimal" /\ dst = "postgres" => shape[p].size = Unlimited
    /\ shape[p].kind = "time" /\ dst # "mysql" => shape[p].size = 1
    /\ rows[p] # {} => Exists(p)

LEMMA ShapeNext ==
  ASSUME TypeInv, ShapeInv, NEW t \in SourceSchemas(src),
         Step(t) \/ FaultStep(t) \/ Crash(t) \/ Widen(t)
  PROVE  ShapeInv'
<1>1. UNCHANGED environment
  BY Frame
<1>2. t \in Schemas /\ Place(t) \in Schemas /\ CreatePlace(t) \in Schemas
  BY DatabasesAssumption, SourceSchemasType, Places DEF TypeInv, TypeOK
<1>3. CASE UNCHANGED <<shape, rows>>
  BY <1>1, <1>3 DEF ShapeInv, Exists, environment
<1>4. CASE TableMade(t) /\ UNCHANGED rows
  <2>1. \A p \in Schemas : p # CreatePlace(t) => shape'[p] = shape[p]
    BY <1>4 DEF TableMade, TypeInv, TypeOK
  <2>2. CASE Exists(CreatePlace(t))
    <3>1. shape'[CreatePlace(t)] = shape[CreatePlace(t)]
      BY <1>2, <1>4, <2>2 DEF TableMade, Exists, TypeInv, TypeOK
    <3> QED
      BY <1>1, <1>4, <2>1, <3>1 DEF ShapeInv, Exists, environment
  <2>3. CASE ~Exists(CreatePlace(t))
    <3>1. shape'[CreatePlace(t)] =
            [kind |-> column[t].kind, size |-> Room(src, dst, column[t])]
      BY <1>2, <1>4, <2>3 DEF TableMade, Exists, TypeInv, TypeOK
    <3>2. column[t].kind = "decimal" =>
            Room(src, dst, column[t]) = DecimalRoom(dst)
      BY DEF Room
    <3>3. column[t].kind = "time" => Room(src, dst, column[t]) = TimeRoom(dst)
      BY DEF Room
    <3>4. /\ dst = "postgres" => DecimalRoom(dst) = Unlimited
          /\ dst # "mysql" => TimeRoom(dst) = 1
      BY DEF DecimalRoom, TimeRoom
    <3>5. rows[CreatePlace(t)] = {}
      BY <1>2, <2>3 DEF ShapeInv
    <3> QED
      BY <1>1, <1>4, <2>1, <3>1, <3>2, <3>3, <3>4, <3>5
      DEF ShapeInv, Exists, environment
  <2> QED
    BY <2>2, <2>3
<1>5. CASE Truncate(t)
  BY <1>1, <1>5 DEF Truncate, ShapeInv, Exists, environment, TypeInv, TypeOK
<1>6. CASE Insert(t)
  <2>1. column[t] \in SourceColumns(src) /\ shape[Place(t)].kind = column[t].kind
    BY <1>6 DEF Insert, Accepted, TypeInv, SourceInv
  <2>2. Exists(Place(t))
    BY <2>1 DEF Exists, NoShape, SourceColumns, Column
  <2>3. \A p \in Schemas : p # Place(t) => rows'[p] = rows[p]
    BY <1>6 DEF Insert, TypeInv, TypeOK
  <2> QED
    BY <1>1, <1>6, <2>2, <2>3 DEF Insert, ShapeInv, Exists, environment
<1> QED
  BY <1>3, <1>4, <1>5, <1>6
  DEF Step, FaultStep, Begin, Check, CheckError, Create, CreateRefused, Halfway,
      CreateError, KeepRows, TruncateRefused, InsertRefused, StatementError,
      Crash, Widen

\* A value that is stored as another is a decimal or a time that may be.
LEMMA StoredExactly ==
  ASSUME TypeInv, ShapeInv, NEW t \in SourceSchemas(src), NEW p \in Schemas,
         Accepted(column[t], shape[p])
  PROVE  \/ Stored(column[t].size, shape[p]) = column[t].size
         \/ shape[p].kind = "decimal" /\ dst # "postgres"
         \/ shape[p].kind = "time" /\ dst = "mysql"
<1>1. column[t] \in SourceColumns(src) /\ column[t].size \in 0..Unlimited
  BY SourceColumnsType DEF TypeInv, SourceInv, Columns
<1>2. column[t].kind = "time" => column[t].size = 1
  BY <1>1 DEF SourceColumns, Column
<1>3. CASE column[t].size <= shape[p].size
  BY <1>3 DEF Stored
<1>4. CASE column[t].kind = "decimal" /\ dst = "postgres"
  <2>1. shape[p].size = Unlimited
    BY <1>4 DEF Accepted, ShapeInv
  <2> QED
    BY <1>1, <2>1 DEF Stored, Unlimited
<1>5. CASE column[t].kind = "time" /\ dst # "mysql"
  <2>1. shape[p].size = 1
    BY <1>5 DEF Accepted, ShapeInv
  <2> QED
    BY <1>2, <1>5, <2>1 DEF Stored
<1> QED
  BY <1>3, <1>4, <1>5 DEF Accepted, Rounded

LEMMA ExactNext ==
  ASSUME TypeInv, ShapeInv, ExactValues, [Next]_vars
  PROVE  ShapeInv' /\ ExactValues'
<1>1. CASE UNCHANGED vars
  BY <1>1 DEF vars, environment, ShapeInv, ExactValues, Exists
<1>3. CASE PutRight
  BY <1>3 DEF PutRight, environment, ShapeInv, ExactValues, Exists
<1>2. ASSUME NEW t \in SourceSchemas(src),
             Step(t) \/ FaultStep(t) \/ Crash(t) \/ Widen(t)
      PROVE  ShapeInv' /\ ExactValues'
  <2>1. ShapeInv' /\ UNCHANGED environment
    BY <1>2, ShapeNext, Frame
  <2>2. Place(t) \in Schemas
    BY DatabasesAssumption, SourceSchemasType, Places DEF TypeInv, TypeOK
  <2>3. \A p \in Schemas : rows[p] # {} => shape'[p] = shape[p]
    BY <1>2, Frame DEF ShapeInv
  <2>4. CASE Insert(t)
    <3> DEFINE row == [of |-> t, held |-> column[t].size,
                       kept |-> Stored(column[t].size, shape[Place(t)])]
    <3>1. \A p \in Schemas : \A r \in rows'[p] :
            r \in rows[p] \/ (p = Place(t) /\ r = row)
      <4>1. rows' = [rows EXCEPT ![Place(t)] = rows[Place(t)] \cup {row}]
        BY <2>4 DEF Insert
      <4> HIDE DEF row
      <4> QED
        BY <4>1 DEF TypeInv, TypeOK
    <3>2. row.held = column[t].size
          /\ row.kept = Stored(column[t].size, shape[Place(t)])
      OBVIOUS
    <3>3. UNCHANGED shape /\ Accepted(column[t], shape[Place(t)])
      BY <2>4 DEF Insert
    <3>4. \/ row.kept = row.held
          \/ shape[Place(t)].kind = "decimal" /\ dst # "postgres"
          \/ shape[Place(t)].kind = "time" /\ dst = "mysql"
      BY <2>2, <3>2, <3>3, StoredExactly
    <3> QED
      BY <2>1, <3>1, <3>3, <3>4 DEF ExactValues, environment
  <2>5. CASE Truncate(t)
    BY <2>1, <2>5 DEF Truncate, ExactValues, environment, TypeInv, TypeOK
  <2>6. CASE ~Truncate(t) /\ ~Insert(t)
    <3>1. UNCHANGED rows
      BY <1>2, <2>6
      DEF Step, FaultStep, Begin, Check, CheckError, Create, CreateRefused,
          CreateError, KeepRows, TruncateRefused, InsertRefused, StatementError,
          Crash, Widen
    <3> QED
      BY <2>1, <2>3, <3>1 DEF ExactValues, environment
  <2> QED
    BY <2>4, <2>5, <2>6
<1> QED
  BY <1>1, <1>2, <1>3 DEF Next

\* No value is stored as another, whatever columns source and target have and
\* however the source's change, except for decimals outside PostgreSQL and times
\* in MySQL.
THEOREM ValuesAreExact == Spec => []ExactValues
<1>1. Init => ShapeInv /\ ExactValues
  BY DEF Init, ShapeInv, ExactValues, NoShape
<1> QED
  BY <1>1, ExactNext, TypeInvariance, PTL DEF Spec

----------------------------------------------------------------------------
(* Numbers, and the maximum that a loop over the rows finds.               *)

\* Induction without a predicate: among some natural numbers one is the least.
LEMMA LeastNatural ==
  ASSUME NEW T \in SUBSET Nat, T # {}
  PROVE  \E n \in T : \A k \in T : n <= k
  <1>1. PICK m \in T : TRUE
    OBVIOUS
  <1> DEFINE D == 0..m
             B == {0..k : k \in T \cap D}
  <1>2. B \in SUBSET (SUBSET D) /\ B # {}
    BY <1>1
  <1>3. IsWellFoundedOn(StrictSubsetOrdering(D), SUBSET D)
    <2>1. IsFiniteSet(D)
      BY FS_Interval
    <2> HIDE DEF D
    <2>2. QED
      BY <2>1, FS_StrictSubsetOrderingWellFounded, FS_FiniteSubsetsOfFinite
  <1>4. PICK s \in B : \A u \in B : u \subseteq s => u = s
    <2> HIDE DEF B, D
    <2>1. PICK s \in B : \A u \in B : <<u, s>> \notin StrictSubsetOrdering(D)
      BY <1>2, <1>3, WFMin
    <2>2. QED
      BY <1>2, <2>1 DEF StrictSubsetOrdering
  <1>5. PICK n \in T \cap D : s = 0..n
    BY <1>4
  <1>6. ASSUME NEW k \in T, k < n
        PROVE  FALSE
    <2>1. (0..k) \in B /\ (0..k) \subseteq s /\ n \notin 0..k /\ n \in s
      BY <1>5, <1>6
    <2>2. QED
      BY <1>4, <2>1
  <1>7. QED
    BY <1>5, <1>6

\* The ranks of the elements of a finite set of numbers are 1, 2 and so on.
Rank(S, n) == Cardinality({m \in S : m <= n})

LEMMA Ranks ==
  ASSUME NEW S \in SUBSET Nat, IsFiniteSet(S)
  PROVE  /\ Cardinality(S) \in Nat
         /\ \A n \in S : Rank(S, n) \in 1..Cardinality(S)
         /\ \A m, n \in S : Rank(S, m) = Rank(S, n) => m = n
         /\ \A i \in 1..Cardinality(S) : \E n \in S : Rank(S, n) = i
  <1> DEFINE c == Cardinality(S)
             Upto(n) == {m \in S : m <= n}
             r == [n \in S |-> Rank(S, n)]
  <1>1. c \in Nat
    BY FS_CardinalityType
  <1>2. \A n \in S : IsFiniteSet(Upto(n)) /\ Rank(S, n) \in Nat /\ Rank(S, n) <= c
    BY FS_Subset, FS_CardinalityType DEF Rank
  <1>3. ASSUME NEW n \in S
        PROVE  Rank(S, n) # 0
    <2>1. n \in Upto(n)
      OBVIOUS
    <2>2. QED
      BY <1>2, <2>1, FS_EmptySet DEF Rank
  <1> HIDE DEF c
  <1>4. ASSUME NEW n \in S
        PROVE  Rank(S, n) \in 1..c
    <2>1. Rank(S, n) \in Nat /\ Rank(S, n) <= c /\ Rank(S, n) # 0
      BY <1>2, <1>3
    <2>2. QED
      BY <1>1, <2>1
  <1>5. ASSUME NEW m \in S, NEW n \in S, Rank(S, m) = Rank(S, n), m < n
        PROVE  FALSE
    <2>1. m \in Nat /\ n \in Nat /\ \A k \in S : k \in Nat
      OBVIOUS
    <2>2. \A k \in S : k <= m => k <= n
      BY <1>5, <2>1
    <2>3. n <= n /\ ~(n <= m)
      BY <1>5, <2>1
    <2>4. Upto(m) \in SUBSET Upto(n) /\ n \in Upto(n) /\ n \notin Upto(m)
      BY <2>2, <2>3
    <2>5. Upto(m) = Upto(n)
      BY <1>2, <1>5, <2>4, FS_Subset DEF Rank
    <2>6. QED
      BY <2>4, <2>5
  <1>6. ASSUME NEW m \in S, NEW n \in S, Rank(S, m) = Rank(S, n)
        PROVE  m = n
    <2>1. m \in Nat /\ n \in Nat
      OBVIOUS
    <2>2. m < n \/ n < m \/ m = n
      BY <2>1
    <2>3. QED
      BY <1>5, <1>6, <2>2
  <1>7. r \in Injection(S, 1..c)
    <2>1. r \in [S -> 1..c]
      BY <1>4
    <2>2. \A m, n \in S : r[m] = r[n] => m = n
      BY <1>6
    <2> HIDE DEF r
    <2>3. QED
      BY <2>1, <2>2 DEF Injection, IsInjective
  <1>8. IsFiniteSet(1..c) /\ Cardinality(1..c) = c
    BY <1>1, FS_Interval
  <1>9. r \in Surjection(S, 1..c)
    <2> HIDE DEF r
    <2>1. QED
      BY <1>7, <1>8, FS_Injection DEF c
  <1>10. \A i \in 1..c : \E n \in S : Rank(S, n) = i
    BY <1>9 DEF Surjection
  <1>11. QED
    BY <1>1, <1>4, <1>6, <1>10 DEF c

\* What MaxValue has found after each row: it goes on from the row before.
Found(M, rs, top, j) ==
  M = [i \in 0..j |->
         IF i = 0 THEN top
         ELSE IF M[i - 1] = None \/ Above(rs[i], M[i - 1]) THEN rs[i] ELSE M[i - 1]]

LEMMA FoundExists ==
  ASSUME NEW rs, NEW top, NEW j \in Nat
  PROVE  \E M : Found(M, rs, top, j)
  <1> DEFINE T == {i \in Nat : ~ \E M : Found(M, rs, top, i)}
  <1>1. 0 \notin T
    <2>1. Found([i \in 0..0 |-> top], rs, top, 0)
      BY DEF Found
    <2>2. QED
      BY <2>1
  <1>2. ASSUME NEW n \in Nat, n \notin T
        PROVE  n + 1 \notin T
    <2>1. PICK M : Found(M, rs, top, n)
      BY <1>2
    <2> DEFINE next == IF M[n] = None \/ Above(rs[n + 1], M[n]) THEN rs[n + 1] ELSE M[n]
               up == [i \in 0..(n + 1) |-> IF i = n + 1 THEN next ELSE M[i]]
    <2>2. \A i \in 0..n :
            M[i] = IF i = 0 THEN top
                   ELSE IF M[i - 1] = None \/ Above(rs[i], M[i - 1])
                          THEN rs[i] ELSE M[i - 1]
      BY <2>1 DEF Found
    <2>3. \A i \in 0..n : up[i] = M[i]
      OBVIOUS
    <2>4. ASSUME NEW i \in 0..(n + 1)
          PROVE  up[i] = IF i = 0 THEN top
                         ELSE IF up[i - 1] = None \/ Above(rs[i], up[i - 1])
                                THEN rs[i] ELSE up[i - 1]
      <3>1. CASE i = n + 1
        <4>1. up[i] = next /\ i # 0 /\ up[i - 1] = M[n]
          BY <3>1, <2>3
        <4>2. QED
          BY <3>1, <4>1
      <3>2. CASE i \in 0..n
        <4>1. up[i] = M[i] /\ (i # 0 => up[i - 1] = M[i - 1])
          BY <3>2, <2>3
        <4> HIDE DEF up
        <4>2. QED
          BY <2>2, <3>2, <4>1
      <3>3. QED
        BY <3>1, <3>2
    <2>5. up = [i \in 0..(n + 1) |-> up[i]]
      OBVIOUS
    <2> HIDE DEF up
    <2>6. Found(up, rs, top, n + 1)
      BY <2>4, <2>5, Zenon DEF Found
    <2>7. QED
      BY <2>6
  <1>3. T = {}
    <2>1. SUFFICES ASSUME T # {} PROVE FALSE
      OBVIOUS
    <2>2. T \in SUBSET Nat
      OBVIOUS
    <2> HIDE DEF T
    <2>3. PICK n \in T : \A k \in T : n <= k
      BY <2>1, <2>2, LeastNatural
    <2>4. n \in Nat /\ n # 0
      BY <1>1, <2>2, <2>3
    <2>5. n - 1 \in Nat /\ n - 1 \notin T
      BY <2>2, <2>3, <2>4
    <2>6. (n - 1) + 1 \notin T
      BY <1>2, <2>5
    <2>7. QED
      BY <2>3, <2>4, <2>6
  <1>4. QED
    BY <1>3

LEMMA MaxFound ==
  ASSUME NEW rs, NEW top, Len(rs) \in Nat
  PROVE  \E M : /\ MaxValue(rs, top) = M[Len(rs)]
                /\ M[0] = top
                /\ \A i \in 1..Len(rs) :
                     M[i] = IF M[i - 1] = None \/ Above(rs[i], M[i - 1])
                              THEN rs[i] ELSE M[i - 1]
  <1> DEFINE M == CHOOSE M : Found(M, rs, top, Len(rs))
  <1>1. MaxValue(rs, top) = M[Len(rs)]
    BY DEF MaxValue, Found
  <1>2. Found(M, rs, top, Len(rs))
    BY FoundExists
  <1> HIDE DEF M
  <1>3. \A i \in 0..Len(rs) :
          M[i] = IF i = 0 THEN top
                 ELSE IF M[i - 1] = None \/ Above(rs[i], M[i - 1])
                        THEN rs[i] ELSE M[i - 1]
    BY <1>2 DEF Found
  <1>4. QED
    BY <1>1, <1>3

\* What it finds is one of the rows, or what it started from.
LEMMA MaxIsRow ==
  ASSUME NEW rs, NEW top, Len(rs) \in Nat
  PROVE  MaxValue(rs, top) = top \/ \E i \in 1..Len(rs) : MaxValue(rs, top) = rs[i]
  <1>1. PICK M : /\ MaxValue(rs, top) = M[Len(rs)]
                 /\ M[0] = top
                 /\ \A i \in 1..Len(rs) :
                      M[i] = IF M[i - 1] = None \/ Above(rs[i], M[i - 1])
                               THEN rs[i] ELSE M[i - 1]
    BY MaxFound
  <1> DEFINE n == Len(rs)
             Good(j) == M[j] = top \/ \E i \in 1..n : M[j] = rs[i]
             T == {j \in 0..n : ~Good(j)}
  <1> HIDE DEF n
  <1>2. ASSUME NEW j \in T, \A k \in T : j <= k
        PROVE  FALSE
    <2>1. j # 0
      BY <1>1
    <2>2. j \in 1..n /\ j - 1 \in 0..n /\ j - 1 \notin T
      BY <1>2, <2>1 DEF n
    <2>3. M[j] = rs[j] \/ M[j] = M[j - 1]
      BY <1>1, <2>2 DEF n
    <2>4. Good(j)
      BY <2>2, <2>3
    <2>5. QED
      BY <2>4
  <1>3. T = {}
    <2>1. T \in SUBSET Nat
      BY DEF n
    <2> HIDE DEF T
    <2>2. QED
      BY <1>2, <2>1, LeastNatural
  <1>4. Good(n)
    BY <1>3 DEF n
  <1>5. QED
    BY <1>1, <1>4 DEF n

\* Where rows compare with each other and with the start as their numbers do,
\* it is the greatest of them.
LEMMA MaxIsGreatest ==
  ASSUME NEW rs, NEW top, Len(rs) \in Nat, Len(rs) # 0,
         \A i \in 1..Len(rs) : rs[i].n \in Nat /\ rs[i] # None,
         top # None => top.n \in Nat,
         \A i \in 1..Len(rs) :
           /\ top # None => (Above(rs[i], top) <=> rs[i].n > top.n)
           /\ \A k \in 1..Len(rs) : Above(rs[i], rs[k]) <=> rs[i].n > rs[k].n
  PROVE  /\ MaxValue(rs, top) # None
         /\ \A i \in 1..Len(rs) : rs[i].n <= MaxValue(rs, top).n
  <1>1. PICK M : /\ MaxValue(rs, top) = M[Len(rs)]
                 /\ M[0] = top
                 /\ \A i \in 1..Len(rs) :
                      M[i] = IF M[i - 1] = None \/ Above(rs[i], M[i - 1])
                               THEN rs[i] ELSE M[i - 1]
    BY MaxFound
  <1> DEFINE n == Len(rs)
             Good(j) == /\ M[j] = top \/ \E i \in 1..n : M[j] = rs[i]
                        /\ M[j] # None \/ j = 0
                        /\ \A i \in 1..j : rs[i].n <= M[j].n
             T == {j \in 0..n : ~Good(j)}
  <1>n. n \in Nat /\ n # 0
    OBVIOUS
  <1> HIDE DEF n
  <1>2. ASSUME NEW j \in T, \A k \in T : j <= k
        PROVE  FALSE
    <2>1. j # 0
      <3>1. Good(0)
        BY <1>1
      <3>2. QED
        BY <3>1
    <2>2. j \in 1..n /\ j - 1 \in 0..n /\ j - 1 \notin T
      BY <1>n, <1>2, <2>1
    <2>3. Good(j - 1)
      BY <2>2
    <2>4. M[j] = IF M[j - 1] = None \/ Above(rs[j], M[j - 1])
                   THEN rs[j] ELSE M[j - 1]
      BY <1>1, <2>2 DEF n
    <2>5. rs[j].n \in Nat /\ rs[j] # None
      BY <2>2 DEF n
    <2>6. CASE M[j - 1] = None
      <3>1. j = 1 /\ M[j] = rs[j]
        BY <2>2, <2>3, <2>4, <2>6
      <3>2. Good(j)
        BY <2>2, <2>5, <3>1
      <3>3. QED
        BY <3>2
    <2>7. CASE M[j - 1] # None
      <3>1. /\ M[j - 1].n \in Nat
            /\ Above(rs[j], M[j - 1]) <=> rs[j].n > M[j - 1].n
        BY <2>2, <2>3, <2>7 DEF n
      <3>2. rs[j].n <= M[j].n /\ M[j - 1].n <= M[j].n /\ M[j] # None /\ M[j].n \in Nat
        BY <2>4, <2>5, <2>7, <3>1
      <3>3. ASSUME NEW i \in 1..j
            PROVE  rs[i].n <= M[j].n
        <4>1. CASE i = j
          BY <3>2, <4>1
        <4>2. CASE i \in 1..(j - 1)
          <5>1. rs[i].n <= M[j - 1].n /\ rs[i].n \in Nat
            BY <2>2, <2>3, <4>2 DEF n
          <5>2. QED
            BY <3>1, <3>2, <5>1
        <4>3. QED
          BY <2>2, <4>1, <4>2
      <3>4. M[j] = top \/ \E i \in 1..n : M[j] = rs[i]
        BY <2>2, <2>3, <2>4
      <3>5. Good(j)
        BY <3>2, <3>3, <3>4
      <3>6. QED
        BY <3>5
    <2>8. QED
      BY <2>6, <2>7
  <1>3. T = {}
    <2>1. T \in SUBSET Nat
      BY <1>n
    <2> HIDE DEF T
    <2>2. QED
      BY <1>2, <2>1, LeastNatural
  <1>4. Good(n)
    BY <1>n, <1>3
  <1>5. QED
    BY <1>1, <1>n, <1>4 DEF n

----------------------------------------------------------------------------
(* Values and how they compare.                                            *)

LEMMA ValueFields ==
  ASSUME NEW c, NEW n
  PROVE  /\ Value(c, n).class = c /\ Value(c, n).n = n
         /\ Value(c, n).form = WrittenAs(c)
         /\ n # 0 => Value(c, n) # None
  BY DEF Value, None

\* The number of a checkpoint is what was written, or the float next to it.
LEMMA ParsedNumber ==
  ASSUME NEW t, NEW c, NEW n
  PROVE  /\ Parsed(t, Value(c, n)) # None
         /\ Parsed(t, Value(c, n)).n
              = IF t \in {"double", "numeric"} THEN Float(n) ELSE n
  <1>1. /\ ParsedAs(t) \in {"str", "float", "datetime", "int"}
        /\ ParsedAs(t) = "float" <=> t \in {"double", "numeric"}
    BY DEF ParsedAs
  <1>2. QED
    BY <1>1 DEF Parsed, Value, None

\* Rows of these types compare with each other and with the checkpoint by number.
LEMMA ComparedByNumber ==
  ASSUME NEW t \in Comparable, NEW m \in Nat, NEW n \in Nat,
         ReadAs(t) = "float" => Float(n) = n
  PROVE  /\ Above(Value(ReadAs(t), m), Value(ReadAs(t), n)) <=> m > n
         /\ Above(Value(ReadAs(t), m), Parsed(t, Value(ReadAs(t), n))) <=> m > n
  <1> USE DEF ReadAs, Parsed, ParsedAs, Value, WrittenAs, Above, Number, TextAbove
  <1>1. CASE t = "integer"
    BY <1>1
  <1>2. CASE t = "double"
    BY <1>2
  <1>3. CASE t = "date"
    BY <1>3
  <1>4. CASE t = "datetime"
    BY <1>4
  <1>5. CASE t = "timestamp without time zone"
    BY <1>5
  <1>6. QED
    BY <1>1, <1>2, <1>3, <1>4, <1>5 DEF Comparable

----------------------------------------------------------------------------
(* The checkpoint is the value of a row that is in the source; rows up to  *)
(* it were copied, and what the next query selects is above it.            *)

FloatsExact == ReadAs(type) = "float" => \A n \in source : Float(n) = n

ValuesType ==
  /\ type \in Types
  /\ source \subseteq Numbers
  /\ IsFiniteSet(source)
  /\ copies \in [Numbers -> 0..MaxCopies]
  /\ stored = None \/ \E n \in source : stored = Value(ReadAs(type), n)
  /\ resets \in 0..MaxResets
  /\ FloatsExact

Reached(n) == stored # None /\ n <= stored.n

CopiedInv ==
  \A n \in source :
    Reached(n) /\ (type = "numeric" => n <= Exact) => copies[n] # 0

OnceInv ==
  type \in Comparable =>
    \A n \in Numbers : copies[n] <= resets + (IF Reached(n) THEN 1 ELSE 0)

ValuesInv == ValuesType /\ CopiedInv /\ OnceInv

LEMMA SourceNumbers ==
  ASSUME ValuesType
  PROVE  /\ source \in SUBSET Nat /\ \A n \in source : n \in Numbers /\ n \in Nat /\ n # 0
         /\ Selected \in SUBSET source /\ IsFiniteSet(Selected)
         /\ \A n \in Numbers : n \in Nat
  BY NumbersAssumption, FS_Subset DEF ValuesType, Selected

\* The checkpoint has the number of what is stored, save for a numeric beyond
\* the floats.
LEMMA CheckpointNumber ==
  ASSUME ValuesType
  PROVE  /\ Checkpoint = None <=> stored = None
         /\ stored # None => stored.n \in source /\ stored = Value(ReadAs(type), stored.n)
         /\ stored # None /\ (type = "numeric" => stored.n <= Exact) =>
              Checkpoint.n = stored.n
  <1>1. CASE stored = None
    BY <1>1 DEF Checkpoint
  <1>2. CASE stored # None
    <2>1. PICK n \in source : stored = Value(ReadAs(type), n)
      BY <1>2 DEF ValuesType
    <2>2. stored.n = n
      BY <2>1, ValueFields
    <2>3. Checkpoint = Parsed(type, Value(ReadAs(type), n))
      BY <1>2, <2>1 DEF Checkpoint
    <2>4. /\ Checkpoint # None
          /\ Checkpoint.n = IF type \in {"double", "numeric"} THEN Float(n) ELSE n
      BY <2>3, ParsedNumber
    <2>5. type = "double" => Float(n) = n
      BY DEF ValuesType, FloatsExact, ReadAs
    <2>6. n <= Exact => Float(n) = n
      BY DEF Float
    <2>7. QED
      BY <1>2, <2>1, <2>2, <2>4, <2>5, <2>6
  <1>3. QED
    BY <1>1, <1>2

\* The rows of a run.
RunRows == [i \in 1..Cardinality(Selected) |-> Value(ReadAs(type), Nth(i))]

LEMMA RunRowsAre ==
  ASSUME ValuesType
  PROVE  /\ Len(RunRows) = Cardinality(Selected) /\ Len(RunRows) \in Nat
         /\ \A i \in 1..Len(RunRows) :
              Nth(i) \in Selected /\ RunRows[i] = Value(ReadAs(type), Nth(i))
         /\ \A n \in Selected : \E i \in 1..Len(RunRows) : Nth(i) = n
  <1>1. Selected \in SUBSET Nat /\ IsFiniteSet(Selected)
    BY SourceNumbers
  <1> DEFINE c == Cardinality(Selected)
  <1>2. /\ c \in Nat
        /\ \A n \in Selected : Rank(Selected, n) \in 1..c
        /\ \A m, n \in Selected : Rank(Selected, m) = Rank(Selected, n) => m = n
        /\ \A i \in 1..c : \E n \in Selected : Rank(Selected, n) = i
    BY <1>1, Ranks
  <1>3. Len(RunRows) = c
    BY <1>2 DEF RunRows
  <1>4. ASSUME NEW i \in 1..c
        PROVE  Nth(i) \in Selected /\ Rank(Selected, Nth(i)) = i
    BY <1>2 DEF Nth, Rank
  <1>5. ASSUME NEW n \in Selected
        PROVE  \E i \in 1..c : Nth(i) = n
    BY <1>2, <1>4
  <1>6. \A i \in 1..c : RunRows[i] = Value(ReadAs(type), Nth(i))
    BY DEF RunRows
  <1>7. QED
    BY <1>2, <1>3, <1>4, <1>5, <1>6

\* What a run writes.
LEMMA SyncWrites ==
  ASSUME ValuesType, Sync
  PROVE  /\ \/ stored' = stored
            \/ \E n \in Selected : stored' = Value(ReadAs(type), n)
         /\ type \in Comparable /\ Selected # {} =>
              \E n \in Selected : /\ stored' = Value(ReadAs(type), n)
                                 /\ \A m \in Selected : m <= n
  <1> DEFINE top == MaxValue(RunRows, Checkpoint)
  <1>1. stored' = IF top # None /\ top # Checkpoint THEN top ELSE stored
    BY DEF Sync, RunRows
  <1>2. /\ Len(RunRows) = Cardinality(Selected) /\ Len(RunRows) \in Nat
        /\ \A i \in 1..Len(RunRows) :
             Nth(i) \in Selected /\ RunRows[i] = Value(ReadAs(type), Nth(i))
        /\ \A n \in Selected : \E i \in 1..Len(RunRows) : Nth(i) = n
    BY RunRowsAre
  <1>3. top = Checkpoint \/ \E n \in Selected : top = Value(ReadAs(type), n)
    BY <1>2, MaxIsRow
  <1>4. ASSUME type \in Comparable, Selected # {}
        PROVE  /\ top # None
               /\ \A n \in Selected : n <= top.n
               /\ \E n \in Selected : top = Value(ReadAs(type), n)
    <2>1. Len(RunRows) # 0
      BY <1>2, <1>4
    <2>2. \A i \in 1..Len(RunRows) :
            RunRows[i].n \in Nat /\ RunRows[i].n = Nth(i) /\ RunRows[i] # None
      BY <1>2, SourceNumbers, ValueFields
    <2>3. /\ Checkpoint # None <=> stored # None
          /\ stored # None =>
               stored.n \in source /\ stored = Value(ReadAs(type), stored.n)
          /\ stored # None => Checkpoint.n = stored.n
      BY <1>4, CheckpointNumber DEF Comparable
    <2>4. ASSUME NEW m \in source, NEW n \in source
          PROVE  /\ Above(Value(ReadAs(type), m), Value(ReadAs(type), n)) <=> m > n
                 /\ Above(Value(ReadAs(type), m), Parsed(type, Value(ReadAs(type), n)))
                      <=> m > n
      BY <1>4, SourceNumbers, ComparedByNumber DEF ValuesType, FloatsExact
    <2>5. stored # None => Checkpoint = Parsed(type, Value(ReadAs(type), stored.n))
      BY <2>3 DEF Checkpoint
    <2>6. ASSUME NEW i \in 1..Len(RunRows)
          PROVE  /\ Checkpoint # None =>
                      (Above(RunRows[i], Checkpoint) <=> RunRows[i].n > Checkpoint.n)
                 /\ \A k \in 1..Len(RunRows) :
                      Above(RunRows[i], RunRows[k]) <=> RunRows[i].n > RunRows[k].n
      BY <1>2, <2>2, <2>3, <2>4, <2>5, SourceNumbers
    <2>7. Checkpoint # None => Checkpoint.n \in Nat
      BY <2>3, SourceNumbers
    <2>8. /\ top # None
          /\ \A i \in 1..Len(RunRows) : RunRows[i].n <= top.n
      BY <1>2, <2>1, <2>2, <2>6, <2>7, MaxIsGreatest
    <2>9. \A n \in Selected : n <= top.n
      BY <1>2, <2>2, <2>8
    <2>10. \E n \in Selected : top = Value(ReadAs(type), n)
      <3>1. PICK n \in Selected : Checkpoint = None \/ n > Checkpoint.n
        BY <1>4 DEF Selected
      <3>2. n <= top.n /\ n \in Nat
        BY <2>9, SourceNumbers
      <3>3. top # Checkpoint
        BY <2>7, <2>8, <3>1, <3>2
      <3>4. QED
        BY <1>3, <3>3
    <2>11. QED
      BY <2>8, <2>9, <2>10
  <1>5. top # None /\ top # Checkpoint => \E n \in Selected : top = Value(ReadAs(type), n)
    BY <1>3
  <1>6. ASSUME type \in Comparable, Selected # {}
        PROVE  \E n \in Selected : /\ stored' = Value(ReadAs(type), n)
                                  /\ \A m \in Selected : m <= n
    <2>1. PICK n \in Selected : top = Value(ReadAs(type), n)
      BY <1>4, <1>6
    <2>2. top.n = n /\ \A m \in Selected : m <= n
      BY <1>4, <1>6, <2>1, ValueFields
    <2>3. top # None /\ n \in Nat /\ (Checkpoint = None \/ n > Checkpoint.n)
      BY <1>4, <1>6, SourceNumbers DEF Selected
    <2>4. top # Checkpoint
      <3> HIDE DEF top
      <3>1. QED
        BY <2>2, <2>3
    <2>5. QED
      BY <1>1, <2>1, <2>2, <2>3, <2>4
  <1>7. QED
    BY <1>1, <1>5, <1>6

----------------------------------------------------------------------------
(* Every step keeps that.                                                  *)

LEMMA ValuesStart == ValuesInit => ValuesInv
  <1> SUFFICES ASSUME ValuesInit PROVE ValuesInv
    OBVIOUS
  <1>1. ValuesType
    BY ValueBoundsAssumption, FS_EmptySet DEF ValuesInit, ValuesType, FloatsExact
  <1>2. QED
    BY <1>1 DEF ValuesInit, ValuesInv, CopiedInv, OnceInv, Reached

\* A row is greater than all before it, so that the checkpoint is below it.
LEMMA CommitStep ==
  ASSUME ValuesInv, NEW k \in Numbers, Commit(k)
  PROVE  ValuesInv'
  <1>1. /\ UNCHANGED <<type, copies, stored, resets>>
        /\ source' = source \cup {k}
        /\ \A n \in source : n < k
        /\ ReadAs(type) = "float" => Float(k) = k
    BY DEF Commit
  <1>2. IsFiniteSet(source')
    BY <1>1, FS_AddElement DEF ValuesInv, ValuesType
  <1>3. ValuesType'
    BY <1>1, <1>2 DEF ValuesInv, ValuesType, FloatsExact
  <1>4. ~Reached(k)
    BY <1>1, SourceNumbers, CheckpointNumber DEF ValuesInv, Reached
  <1>5. CopiedInv'
    BY <1>1, <1>4 DEF ValuesInv, CopiedInv, Reached
  <1>6. OnceInv'
    BY <1>1 DEF ValuesInv, OnceInv, Reached
  <1>7. QED
    BY <1>3, <1>5, <1>6 DEF ValuesInv

LEMMA ResetStep ==
  ASSUME ValuesInv, Reset
  PROVE  ValuesInv'
  <1>1. /\ UNCHANGED <<type, source, copies>>
        /\ stored' = None /\ resets' = resets + 1 /\ resets < MaxResets
    BY DEF Reset
  <1>2. ValuesType'
    BY <1>1, ValueBoundsAssumption DEF ValuesInv, ValuesType, FloatsExact
  <1>3. CopiedInv'
    BY <1>1 DEF CopiedInv, Reached
  <1>4. OnceInv'
    <2>1. \A n \in Numbers : copies[n] \in Nat
      BY ValueBoundsAssumption DEF ValuesInv, ValuesType
    <2>2. resets \in Nat
      BY ValueBoundsAssumption DEF ValuesInv, ValuesType
    <2>3. QED
      BY <1>1, <2>1, <2>2 DEF ValuesInv, OnceInv, Reached
  <1>5. QED
    BY <1>2, <1>3, <1>4 DEF ValuesInv

\* A run copies what is above the checkpoint, which then is the number of one of
\* these rows, or what it was.
LEMMA SyncStep ==
  ASSUME ValuesInv, Sync
  PROVE  ValuesInv'
  <1>1. ValuesType /\ CopiedInv /\ OnceInv
    BY DEF ValuesInv
  <1>2. /\ UNCHANGED <<type, source, resets>>
        /\ copies' = [n \in Numbers |->
                       IF n \in Selected /\ copies[n] < MaxCopies
                         THEN copies[n] + 1 ELSE copies[n]]
    BY DEF Sync
  <1>3. /\ MaxCopies \in Nat \ {0} /\ resets \in Nat
        /\ \A n \in Numbers : copies[n] \in 0..MaxCopies
    BY <1>1, ValueBoundsAssumption DEF ValuesType
  <1>4. copies' \in [Numbers -> 0..MaxCopies]
    BY <1>2, <1>3
  <1>5. \A n \in Numbers :
          /\ copies'[n] = IF n \in Selected /\ copies[n] < MaxCopies
                            THEN copies[n] + 1 ELSE copies[n]
          /\ copies[n] \in Nat /\ copies'[n] \in Nat
    BY <1>2, <1>3
  <1>6. /\ \A n \in source : n \in Numbers /\ n \in Nat /\ n # 0
        /\ Selected \in SUBSET source
        /\ \A n \in Numbers : n \in Nat
    BY <1>1, SourceNumbers
  <1>7. \/ stored' = stored
        \/ \E n \in Selected : stored' = Value(ReadAs(type), n)
    BY <1>1, SyncWrites
  <1>8. ValuesType'
    BY <1>1, <1>2, <1>4, <1>6, <1>7 DEF ValuesType, FloatsExact
  <1>9. CopiedInv'
    <2> SUFFICES ASSUME NEW n \in source, type = "numeric" => n <= Exact,
                        Reached(n)'
                 PROVE  copies'[n] # 0
      BY <1>2 DEF CopiedInv
    <2>1. CASE n \in Selected
      BY <1>3, <1>5, <1>6, <2>1
    <2>2. CASE n \notin Selected
      <3>1. Checkpoint # None /\ ~(n > Checkpoint.n)
        BY <2>2 DEF Selected
      <3>2. /\ stored # None /\ stored.n \in source
            /\ (type = "numeric" => stored.n <= Exact) => Checkpoint.n = stored.n
        BY <1>1, <3>1, CheckpointNumber
      <3>3. n <= stored.n
        BY <1>6, <3>1, <3>2, NumbersAssumption
      <3>4. copies[n] # 0
        BY <1>1, <3>2, <3>3 DEF CopiedInv, Reached
      <3>5. QED
        BY <1>5, <1>6, <2>2, <3>4
    <2>3. QED
      BY <2>1, <2>2
  <1>10. OnceInv'
    <2> SUFFICES ASSUME type \in Comparable, NEW n \in Numbers
                 PROVE  copies'[n] <= resets + (IF Reached(n)' THEN 1 ELSE 0)
      BY <1>2 DEF OnceInv
    <2>1. copies[n] <= resets + (IF Reached(n) THEN 1 ELSE 0)
      BY <1>1 DEF OnceInv
    <2>2. CASE Selected = {}
      <3>1. stored' = stored
        BY <1>7, <2>2
      <3>2. copies'[n] = copies[n]
        BY <1>5, <2>2
      <3>3. QED
        BY <2>1, <3>1, <3>2 DEF Reached
    <2>3. CASE Selected # {}
      <3>1. PICK m \in Selected : /\ stored' = Value(ReadAs(type), m)
                                  /\ \A k \in Selected : k <= m
        BY <1>1, <2>3, SyncWrites
      <3>2. stored'.n = m /\ stored' # None /\ m \in Nat
        BY <1>6, <3>1, ValueFields
      <3>3. CASE n \in Selected
        <4>1. ~Reached(n)
          <5>1. Checkpoint = None \/ n > Checkpoint.n
            BY <3>3 DEF Selected
          <5>2. Checkpoint # None => Checkpoint.n = stored.n /\ stored.n \in source
            BY <1>1, CheckpointNumber DEF Comparable
          <5>3. stored = None <=> Checkpoint = None
            BY <1>1, CheckpointNumber
          <5>4. QED
            BY <1>6, <5>1, <5>2, <5>3 DEF Reached
        <4>2. Reached(n)'
          BY <3>1, <3>2, <3>3 DEF Reached
        <4>3. QED
          BY <1>3, <1>5, <2>1, <4>1, <4>2
      <3>4. CASE n \notin Selected
        <4>1. Reached(n) => Reached(n)'
          <5>1. ASSUME stored # None
                PROVE  stored.n \in Nat /\ stored.n <= m
            <6>1. Checkpoint # None /\ Checkpoint.n = stored.n /\ stored.n \in source
              BY <1>1, <5>1, CheckpointNumber DEF Comparable
            <6>2. m > Checkpoint.n
              BY <6>1 DEF Selected
            <6>3. m > stored.n
              BY <6>1, <6>2
            <6>4. stored.n \in Nat
              BY <1>6, <6>1
            <6>5. QED
              BY <3>2, <6>3, <6>4
          <5>2. QED
            BY <1>6, <3>2, <5>1 DEF Reached
        <4>2. copies'[n] = copies[n]
          BY <1>5, <3>4
        <4>3. QED
          BY <1>3, <1>5, <2>1, <4>1, <4>2
      <3>5. QED
        BY <3>3, <3>4
    <2>4. QED
      BY <2>2, <2>3
  <1>11. QED
    BY <1>8, <1>9, <1>10 DEF ValuesInv

\* A source that grows, runs and resets keep the invariant.
LEMMA ValuesKept == ValuesSpec => []ValuesInv
  <1>1. ValuesInv /\ [ValuesNext]_valueVars => ValuesInv'
    <2> SUFFICES ASSUME ValuesInv, [ValuesNext]_valueVars PROVE ValuesInv'
      OBVIOUS
    <2>1. CASE UNCHANGED valueVars
      BY <2>1 DEF valueVars, ValuesInv, ValuesType, FloatsExact, CopiedInv, OnceInv,
        Reached
    <2>2. QED
      BY <2>1, CommitStep, SyncStep, ResetStep DEF ValuesNext
  <1>2. QED
    BY <1>1, ValuesStart, PTL DEF ValuesSpec

----------------------------------------------------------------------------
(* What it shows of the values.                                            *)

\* The variables of IncrementalValues keep their types: above all, what is stored
\* is always a value of the column, as the driver delivers it.
THEOREM ValuesTypeCorrect == ValuesSpec => []ValuesTypeOK
  <1>1. ValuesInv => ValuesTypeOK
    BY SourceNumbers DEF ValuesInv, ValuesType, ValuesTypeOK, Checkpoints
  <1>2. QED
    BY <1>1, ValuesKept, PTL

\* A row that was not copied is selected by the next query, for every type of
\* column and any numbers, save those beyond the floats of a numeric column.
THEOREM NoRowSkipped == ValuesSpec => []NothingSkipped
  <1>1. ASSUME ValuesInv
        PROVE  NothingSkipped
    <2> SUFFICES ASSUME NEW n \in source, copies[n] = 0,
                        type = "numeric" => n <= Exact
                 PROVE  n \in Selected
      BY DEF NothingSkipped
    <2>1. ~Reached(n)
      BY <1>1 DEF ValuesInv, CopiedInv
    <2>2. ValuesType /\ n \in Nat /\ Exact \in Nat
      BY <1>1, SourceNumbers, NumbersAssumption DEF ValuesInv
    <2>3. CASE stored = None
      BY <2>2, <2>3, CheckpointNumber DEF Selected
    <2>4. CASE stored # None
      <3>1. stored.n \in Nat /\ stored.n < n
        <4>1. stored.n \in source
          BY <2>2, <2>4, CheckpointNumber
        <4>2. stored.n \in Nat
          BY <2>2, <4>1, SourceNumbers
        <4>3. ~(n <= stored.n)
          BY <2>1, <2>4 DEF Reached
        <4>4. QED
          BY <2>2, <4>2, <4>3
      <3>2. Checkpoint.n = stored.n
        BY <2>2, <2>4, <3>1, CheckpointNumber
      <3>3. QED
        BY <3>1, <3>2 DEF Selected
    <2>5. QED
      BY <2>3, <2>4
  <1>2. QED
    BY <1>1, ValuesKept, PTL

\* With a column whose checkpoints compare with its rows, a row is copied once,
\* and once more for each reset.
THEOREM RowsCopiedOnce == ValuesSpec => []OnlyNewRows
  <1>1. ASSUME ValuesInv
        PROVE  OnlyNewRows
    <2> SUFFICES ASSUME type \in Comparable, NEW n \in Numbers
                 PROVE  copies[n] <= resets + 1
      BY DEF OnlyNewRows
    <2>1. copies[n] <= resets + (IF Reached(n) THEN 1 ELSE 0)
      BY <1>1 DEF ValuesInv, OnceInv
    <2>2. copies[n] \in Nat /\ resets \in Nat
      BY <1>1, ValueBoundsAssumption DEF ValuesInv, ValuesType
    <2>3. QED
      BY <2>1, <2>2
  <1>2. QED
    BY <1>1, ValuesKept, PTL

=============================================================================
