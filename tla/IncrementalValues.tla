------------------------- MODULE IncrementalValues -------------------------
(***************************************************************************)
(* The values of an incremental column on their way through a sync: from   *)
(* the driver into Python, compared in _get_max_incremental_value, written *)
(* to SyncCheckpoint.last_value as text, parsed by parse_checkpoint_value  *)
(* according to the type of the column, and put into the next query.       *)
(* IncrementalSync takes them for numbers; here they are what they are.    *)
(*                                                                         *)
(* A value is a record: its Python class, the number (or instant) n it     *)
(* stands for, and the form in which str() writes it: "10", "10.0",        *)
(* "2024-01-31" or "2024-01-31 00:00:00".  Runs are not interleaved and do *)
(* not fail here, and the source only grows: see IncrementalSync for that. *)
(***************************************************************************)
EXTENDS Integers, Sequences, FiniteSets

CONSTANTS
  Numbers,    \* what a row may hold
  Types,      \* column types, as the connectors name them
  Exact,      \* floats hold every integer up to here, then every other one
  MaxCopies,  \* bound: copies of a row are counted up to here
  MaxResets   \* bound: resets of the checkpoint by the user

ASSUME NumbersAssumption == Numbers \subseteq Nat \ {0} /\ Exact \in Nat
ASSUME ValueBoundsAssumption == MaxCopies \in Nat \ {0} /\ MaxResets \in Nat

\* The Python class in which the driver delivers a column of type t.
ReadAs(t) ==
  CASE t \in {"integer", "smallint"}                          -> "int"
    [] t \in {"double", "double precision"}                   -> "float"
    [] t = "numeric"                                          -> "Decimal"
    [] t = "date"                                             -> "date"
    [] t \in {"datetime", "timestamp without time zone"}      -> "datetime"

\* Mutants: every number is parsed as a float; nothing is parsed.
ParsedAsFloat(t) ==
  CASE t \in {"datetime", "date"}                             -> "datetime"
    [] t = "timestamp without time zone"                      -> "str"
    [] OTHER                                                  -> "float"

NotParsed(t) == "str"

\* The class to which a checkpoint of a column of type t is parsed.
ParsedAs(t) ==
  CASE t \in {"datetime", "date"}                             -> "datetime"
    [] t = "integer"                                          -> "int"
    [] t \in {"double", "numeric"}                            -> "float"
    [] OTHER                                                  -> "str"

WrittenAs(c) == CASE c \in {"int", "Decimal"} -> "digits"
                  [] c = "float"              -> "point"
                  [] c = "date"               -> "day"
                  [] c = "datetime"           -> "time"

Value(c, n) == [class |-> c, n |-> n, form |-> WrittenAs(c)]

\* The float nearest to n, the even one of two.
Float(n) == IF n <= Exact \/ n % 2 = 0 THEN n
            ELSE IF n % 4 = 1 THEN n - 1 ELSE n + 1

\* parse_checkpoint_value of the text of v, for a column of type t.
Parsed(t, v) ==
  CASE ParsedAs(t) = "str"   -> [v EXCEPT !.class = "str"]
    [] ParsedAs(t) = "float" -> Value("float", Float(v.n))
    [] OTHER                 -> Value(ParsedAs(t), v.n)

VARIABLES
  type,    \* the type of the incremental column
  source,  \* the numbers in the source table
  copies,  \* how often each was copied
  stored,  \* SyncCheckpoint.last_value: the value that was written, or None
  resets   \* resets so far

valueVars == <<type, source, copies, stored, resets>>

None == [class |-> "NoneType", n |-> 0, form |-> "none"]
Checkpoints == {None} \cup {Value(ReadAs(t), n) : t \in Types, n \in Numbers}

ValuesTypeOK ==
  /\ type \in Types
  /\ source \subseteq Numbers
  /\ copies \in [Numbers -> 0..MaxCopies]
  /\ stored \in Checkpoints
  /\ resets \in 0..MaxResets

----------------------------------------------------------------------------
(* _compare_incremental_values                                             *)

Length(n) == CHOOSE d \in 1..9 : 10^(d - 1) <= n /\ n < 10^d

\* The text of u comes after the text of v, character by character: of equal
\* beginnings the shorter comes first, and "." comes before every digit.
TextAbove(u, v) ==
  IF u.form \in {"day", "time"}
  THEN u.n > v.n \/ (u.n = v.n /\ u.form = "time" /\ v.form = "day")
  ELSE LET Digits(x) == x.n * 10^(9 - Length(x.n))
       IN \/ Digits(u) > Digits(v)
          \/ /\ Digits(u) = Digits(v)
             /\ \/ Length(u.n) > Length(v.n)
                \/ Length(u.n) = Length(v.n) /\ u.form = "point"
                                             /\ v.form = "digits"

Number == {"int", "float"}

\* Two datetimes, or two numbers, are compared as such; all else as text.
Above(u, v) ==
  IF \/ u.class = "datetime" /\ v.class = "datetime"
     \/ u.class \in Number /\ v.class \in Number
  THEN u.n > v.n
  ELSE TextAbove(u, v)

\* Mutant: the maximum starts from nothing in every run, as a number.
MaxFromZero(rows, top) ==
  LET max[i \in 0..Len(rows)] ==
        IF i = 0 THEN Value("float", 0)
        ELSE IF Above(rows[i], max[i - 1]) THEN rows[i] ELSE max[i - 1]
  IN  max[Len(rows)]

\* _get_max_incremental_value over all batches of a run.
MaxValue(rows, top) ==
  LET max[i \in 0..Len(rows)] ==
        IF i = 0 THEN top
        ELSE IF max[i - 1] = None \/ Above(rows[i], max[i - 1])
          THEN rows[i] ELSE max[i - 1]
  IN  max[Len(rows)]

----------------------------------------------------------------------------
\* A row is committed.  Values rise; a column of floats holds floats.
Commit(n) ==
  /\ \A m \in source : m < n
  /\ ReadAs(type) = "float" => Float(n) = n
  /\ source' = source \cup {n}
  /\ UNCHANGED <<type, copies, stored, resets>>

\* checkpoint_value
Checkpoint == IF stored = None THEN None ELSE Parsed(type, stored)

\* WHERE col > checkpoint ORDER BY col: the database compares numbers.
Selected == {n \in source : Checkpoint = None \/ n > Checkpoint.n}

\* The i-th row of the answer, in the order of the database.
Nth(i) == CHOOSE n \in Selected : Cardinality({m \in Selected : m <= n}) = i

\* A run: all selected rows are copied, then the greatest value is written.
Sync ==
  LET rows == [i \in 1..Cardinality(Selected) |-> Value(ReadAs(type), Nth(i))]
      top  == MaxValue(rows, Checkpoint)
  IN /\ copies' = [n \in Numbers |->
                     IF n \in Selected /\ copies[n] < MaxCopies
                     THEN copies[n] + 1 ELSE copies[n]]
     /\ stored' = IF top # None /\ top # Checkpoint THEN top ELSE stored
     /\ UNCHANGED <<type, source, resets>>

\* reset_checkpoint
Reset ==
  /\ resets < MaxResets
  /\ stored # None
  /\ stored' = None
  /\ resets' = resets + 1
  /\ UNCHANGED <<type, source, copies>>

ValuesInit ==
  /\ type \in Types
  /\ source = {}
  /\ copies = [n \in Numbers |-> 0]
  /\ stored = None
  /\ resets = 0

ValuesNext == (\E n \in Numbers : Commit(n)) \/ Sync \/ Reset

ValuesSpec == ValuesInit /\ [][ValuesNext]_valueVars

----------------------------------------------------------------------------
(* Properties.                                                             *)

\* Whatever is compared as text, a row that was not copied is selected by the
\* next query, unless its number is beyond the floats of a numeric checkpoint.
NothingSkipped ==
  \A n \in source :
    copies[n] = 0 /\ (type = "numeric" => n <= Exact) => n \in Selected

\* The types whose checkpoints compare with their rows as the database compares
\* them.  The others are accepted as well: int(9) is not above '10' as text.
Comparable == {"integer", "double", "date", "datetime",
               "timestamp without time zone"}

\* 'Sync only new or updated records': a row is copied once for each time the
\* checkpoint was reset, and once more.
OnlyNewRows ==
  type \in Comparable => \A n \in Numbers : copies[n] <= resets + 1
=============================================================================
