------------------------- MODULE MCIncrementalValues -------------------------
EXTENDS IncrementalValues

\* Numbers of one, two and three digits, around a power of ten and beyond Exact.
AllNumbers == {8, 9, 10, 95, 100, 101, 103, 104}
AllTypes == {"integer", "smallint", "numeric", "double", "double precision",
             "date", "datetime", "timestamp without time zone"}
=============================================================================
