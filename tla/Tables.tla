-------------------------------- MODULE Tables --------------------------------
(***************************************************************************)
(* What the base class of the services does to a table.  A table is a       *)
(* function from primary keys to rows.  The columns every row has (created  *)
(* and updated time, block and transaction) are left out, except where a    *)
(* query sorts by one.                                                      *)
(***************************************************************************)
EXTENDS Integers, FiniteSets, Functions

EmptyTable == [k \in {} |-> {}]

Has(t, k) == k \in DOMAIN t

\* save: the whole row is written, over the one that is there.
Put(t, k, row) == [x \in DOMAIN t \cup {k} |-> IF x = k THEN row ELSE t[x]]

\* saveMany: one statement for the rows of a set of keys.
PutAll(t, rows) == [x \in DOMAIN t \cup DOMAIN rows |-> IF x \in DOMAIN rows THEN rows[x] ELSE t[x]]

\* insert: ON CONFLICT DO NOTHING, the row that is there stays.
Insert(t, k, row) == IF Has(t, k) THEN t ELSE Put(t, k, row)

\* insertMany and the snapshotter: the same for several rows.
InsertAll(t, rows) == [x \in DOMAIN t \cup DOMAIN rows |-> IF x \in DOMAIN t THEN t[x] ELSE rows[x]]

\* snapshotter: a copy of every row for the block and trigger, unless it is there.
Snapshot(t, rows, block, trigger) ==
  InsertAll(t, [k \in {<<id, block, trigger>> : id \in DOMAIN rows} |-> rows[k[1]]])

\* delete
Delete(t, k) == [x \in DOMAIN t \ {k} |-> t[x]]

\* getOrInit: the row found, or a new one; the write that follows is a Put.
RowOr(t, k, new) == IF Has(t, k) THEN t[k] ELSE new

\* The columns of `row` that an upsert names take its values.
Overwrite(row, values) == [f \in DOMAIN row |-> IF f \in DOMAIN values THEN values[f] ELSE row[f]]

\* upsert: the named columns are written, a new row has defaults for the others.
Upsert(t, k, values, new) == Put(t, k, Overwrite(RowOr(t, k, new), values))

\* query: the keys of the rows with the given values; count is their number.
Matches(row, values) == \A f \in DOMAIN values : row[f] = values[f]
Where(t, values) == {k \in DOMAIN t : Matches(t[k], values)}

\* Division of bigints drops the fraction, towards zero.
Quotient(a, b) == IF a >= 0 THEN a \div b ELSE -((-a) \div b)

NonNegative(n) == IF n > 0 THEN n ELSE 0

=============================================================================
