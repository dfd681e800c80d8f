------------------------------- MODULE Frames -------------------------------
(***************************************************************************)
(* eval/compare.py, diagnosis.py, capcheck.py and fingerprint.py: whether a  *)
(* result is the reference's, and how it differs when it is not.             *)
(*                                                                          *)
(* A cell is NULL, a text, an integer or an inexact number; numbers are in   *)
(* units of a fraction of the tolerance.  A result is cut by the row cap of  *)
(* the agent and by the one of the executor; the reference only by the       *)
(* latter.                                                                   *)
(***************************************************************************)
EXTENDS Integers, Sequences, FiniteSets, SequencesExt

CONSTANTS
    Tolerance,   \* of two numbers that are not both integers
    Names,       \* the columns of the reference, in order
    Headers,     \* those the model's statement may have
    Rows,        \* rows either may return
    MaxRows,     \* MAX_ROWS_RETURNED
    Caps,        \* row caps the agent may inject; 0 is none
    MaxLen       \* bound on the rows of a result

VARIABLES
    reference,   \* the statement: its rows, order and limit
    answer,      \* the model's statement: its columns and all its rows
    cap,
    verdict      \* compare_to_reference and the diagnosis

vars == <<reference, answer, cap, verdict>>

Numeric(c) == c.kind \in {"int", "float"}
Frame(names, rows) == [names |-> names, rows |-> rows]
Take(rows, n) == SubSeq(rows, 1, IF Len(rows) < n THEN Len(rows) ELSE n)
Cut(rows) == Take(rows, MaxRows)

Expected == Frame(Names, Cut(reference.rows))
Actual == Frame(answer.names, Cut(IF cap = 0 THEN answer.rows ELSE Take(answer.rows, cap)))

Class == {"match", "match_capped", "column_count_differs", "actual_empty", "expected_empty",
          "actual_is_subset", "actual_is_superset", "row_count_differs",
          "same_rows_different_order", "column_names_differ", "values_differ_same_shape"}

TypeOK ==
    /\ verdict.at \in {"run", "count", "done"}
    /\ verdict.at # "run" => verdict.equal \in BOOLEAN /\ verdict.class \in Class

\* ------------------------------------------------------------- cells and rows
Distance(x, y) == IF x < y THEN y - x ELSE x - y
\* normalise_cell, _cells_equal.
CellsEqual(a, b) ==
    IF Numeric(a) /\ Numeric(b) /\ "float" \in {a.kind, b.kind}
    THEN Distance(a.value, b.value) <= Tolerance ELSE a = b
RowsEqual(r, s) == Len(r) = Len(s) /\ \A i \in DOMAIN r : CellsEqual(r[i], s[i])

\* round(v, digits).
Rounded(v) == ((v + (Tolerance \div 2)) \div Tolerance) * Tolerance

Signature(row) == [i \in DOMAIN row |-> IF Numeric(row[i]) THEN [kind |-> "num"] ELSE row[i]]
NumericPart(row) == SelectSeq(row, Numeric)

Key(vector) == [i \in DOMAIN vector |-> Rounded(vector[i].value)]
Less(v, w) == LET k == Key(v) l == Key(w) IN
    \E i \in DOMAIN k : k[i] < l[i] /\ \A j \in 1 .. i - 1 : k[j] = l[j]

RECURSIVE Sorted(_)
Sorted(vectors) ==
    IF vectors = <<>> THEN <<>> ELSE
    LET rest == Sorted(Tail(vectors))
        n == Cardinality({i \in DOMAIN rest : Less(rest[i], Head(vectors))})
    IN InsertAt(rest, n + 1, Head(vectors))

Signatures(rows) == {Signature(rows[i]) : i \in DOMAIN rows}
Group(rows, sign) ==
    LET of == SelectSeq(rows, LAMBDA r : Signature(r) = sign)
    IN Sorted([i \in DOMAIN of |-> NumericPart(of[i])])

MultisetsEqual(e, a) ==
    /\ Signatures(e) = Signatures(a)
    /\ \A sign \in Signatures(e) :
         LET ve == Group(e, sign) va == Group(a, sign) IN
         Len(ve) = Len(va) /\ \A i \in DOMAIN ve : RowsEqual(ve[i], va[i])

\* ------------------------------------------------------------- the verdict
\* reference_ordering: order is a sequence of columns, 0 for one not selected.
Ordered == reference.limit /\ reference.order # <<>>
OrderKeys == IF 0 \in ToSet(reference.order) THEN DOMAIN Names ELSE ToSet(reference.order)

\* compare_frames.
FramesEqual(e, a, ordered) ==
    /\ Len(e.names) = Len(a.names) /\ Len(e.rows) = Len(a.rows)
    /\ MultisetsEqual(e.rows, a.rows)
    /\ ordered => \A i \in DOMAIN e.rows : \A k \in OrderKeys :
                      CellsEqual(e.rows[i][k], a.rows[i][k])

\* multiset_contains: every row takes the first of those left that is equal.
RECURSIVE Placed(_, _)
Placed(big, small) ==
    small = <<>> \/
    LET of == {i \in DOMAIN big : RowsEqual(Head(small), big[i])} IN
    of # {} /\ Placed(RemoveAt(big, CHOOSE i \in of : \A j \in of : i <= j), Tail(small))
Includes(big, small) ==
    /\ Len(small) <= Len(big)
    /\ \A sign \in Signatures(small) : Placed(Group(big, sign), Group(small, sign))

\* align_columns: the columns in the reference's order, by name, else by content.
Column(f, j) ==
    LET cells == [i \in DOMAIN f.rows |-> f.rows[i][j]]
        key(c) == IF Numeric(c) THEN [kind |-> "num", value |-> Rounded(c.value)] ELSE c
    IN [c \in {key(cells[i]) : i \in DOMAIN cells} |->
            Cardinality({i \in DOMAIN cells : key(cells[i]) = c})]
ByName(e, a) ==
    {o \in [DOMAIN e.names -> DOMAIN a.names] :
        /\ ToSet(e.names) = ToSet(a.names) /\ IsInjective(e.names)
        /\ \A i \in DOMAIN o : a.names[o[i]] = e.names[i]}
\* The first unused column of the same content, for each in turn.
ByContent(e, a) ==
    {o \in [DOMAIN e.names -> DOMAIN a.names] :
        \A i \in DOMAIN o :
            LET fit == {j \in DOMAIN a.names : Column(a, j) = Column(e, i)} \ {o[k] : k \in 1 .. i - 1}
            IN o[i] \in fit /\ \A j \in fit : o[i] <= j}
InOrder(rows, o) == [i \in DOMAIN rows |-> [k \in DOMAIN o |-> rows[i][o[k]]]]
Aligned(e, a) ==
    /\ Len(e.names) = Len(a.names) /\ Len(e.rows) = Len(a.rows)
    /\ \E o \in ByName(e, a) \cup ByContent(e, a) :
         /\ \E i \in DOMAIN o : o[i] # i
         /\ MultisetsEqual(e.rows, InOrder(a.rows, o))

\* _is_capped_match.
CappedMatch(e, a) ==
    /\ cap # 0 /\ Len(a.rows) = cap /\ Len(e.rows) > cap
    /\ IF Ordered THEN FramesEqual([e EXCEPT !.rows = Take(@, cap)], a, TRUE)
                  ELSE Includes(e.rows, a.rows)

\* diagnose_results.
Diagnosis(e, a) ==
    LET n == Len(e.rows) m == Len(a.rows) IN
    CASE FramesEqual(e, a, Ordered) -> "match"
      [] Len(e.names) # Len(a.names) -> "column_count_differs"
      [] CappedMatch(e, a) -> "match_capped"
      [] m = 0 /\ n > 0 -> "actual_empty"
      [] n = 0 /\ m > 0 -> "expected_empty"
      [] m < n /\ Includes(e.rows, a.rows) -> "actual_is_subset"
      [] m > n /\ Includes(a.rows, e.rows) -> "actual_is_superset"
      [] m # n -> "row_count_differs"
      [] MultisetsEqual(e.rows, a.rows) -> "same_rows_different_order"
      [] Aligned(e, a) -> "column_names_differ"
      [] OTHER -> "values_differ_same_shape"

\* ------------------------------------------------------------- run_case
Judge ==
    /\ verdict.at = "run"
    /\ LET class == Diagnosis(Expected, Actual) IN
       verdict' = [at |-> IF class = "match_capped" THEN "count" ELSE "done", class |-> class,
                   equal |-> FramesEqual(Expected, Actual, Ordered), unverified |-> FALSE]
    /\ UNCHANGED <<reference, answer, cap>>

Refused == [verdict EXCEPT !.at = "done", !.class = "actual_is_subset", !.unverified = TRUE]
\* The count verify_capped_match compares with: of a reference that was cut, its own.
Target == IF Len(Expected.rows) >= MaxRows THEN Len(reference.rows) ELSE Len(Expected.rows)

\* verify_capped_match: both counts were asked.
Counted ==
    /\ verdict.at = "count"
    /\ verdict' = IF Len(answer.rows) = Target THEN [verdict EXCEPT !.at = "done"]
                  ELSE [Refused EXCEPT !.unverified = FALSE]
    /\ UNCHANGED <<reference, answer, cap>>
\* One was refused, timed out or did not parse.
Uncounted ==
    /\ verdict.at = "count" /\ verdict' = Refused /\ UNCHANGED <<reference, answer, cap>>

Passed == verdict.equal \/ verdict.class = "match_capped"
Done == verdict.at = "done" /\ UNCHANGED vars

Lists == UNION {[1 .. n -> Rows] : n \in 0 .. MaxLen}
Wide(rows, n) == \A i \in DOMAIN rows : Len(rows[i]) = n
\* Rows that tie on the ORDER BY stand together.
InSomeOrder(ref) ==
    LET keys == ToSet(ref.order) \ {0}
        same(i, j) == \A k \in keys : ref.rows[i][k] = ref.rows[j][k]
    IN ref.order = <<>> \/ \A i, j, l \in DOMAIN ref.rows :
         (i < l /\ l < j /\ same(i, j)) => same(i, l)

Init ==
    /\ reference \in {r \in [rows : Lists, limit : BOOLEAN, order : {<<>>, <<1>>, <<0>>}] :
           Wide(r.rows, Len(Names)) /\ InSomeOrder(r) /\ (r.limit \/ r.order = <<>>)}
    /\ answer \in {a \in [names : Headers, rows : Lists] : Wide(a.rows, Len(a.names))}
    /\ cap \in Caps /\ verdict = [at |-> "run"]
Next == Judge \/ Counted \/ Uncounted \/ Done
Spec == Init /\ [][Next]_vars

\* ------------------------------------------------------------- properties
Perms(n) == {p \in [1 .. n -> 1 .. n] : IsInjective(p)}
\* p puts the rows of a next to equal ones of e; with order, tied rows only move
\* among themselves.
Matches(e, a, p, ordered) == \A i \in DOMAIN e :
    /\ RowsEqual(e[i], a[p[i]])
    /\ ordered => \A k \in OrderKeys : CellsEqual(e[i][k], a[i][k])
SameAnswer(e, a, ordered) ==
    Len(e) = Len(a) /\ \E p \in Perms(Len(e)) : Matches(e, a, p, ordered)

Over == verdict.at = "done"
SameWidth == Len(answer.names) = Len(Names)

\* The sorted comparison finds a pairing of the rows if there is one (module
\* comment: a multiset of tuples, NULL equals NULL, integers exactly).
VerdictRight ==
    (Over /\ SameWidth) =>
        (verdict.equal <=> SameAnswer(Expected.rows, Actual.rows, Ordered))

\* A capped result passes only when nothing but the cap made it shorter: its rows
\* are the reference's and the statement would return as many as the reference.
CapHidesNothing ==
    (Over /\ Passed /\ ~verdict.equal) =>
        /\ Len(answer.rows) = Len(reference.rows) /\ Len(Actual.rows) = cap
        /\ \E f \in [DOMAIN Actual.rows -> DOMAIN Expected.rows] :
             IsInjective(f) /\ \A i \in DOMAIN f : RowsEqual(Expected.rows[f[i]], Actual.rows[i])

\* A right statement passes, whatever the cap left of it, if its count could be
\* asked: its rows are the reference's in the reference's order.
RightPasses ==
    (Over /\ SameWidth /\ answer.rows = reference.rows /\ ~verdict.unverified) => Passed

\* What passes is of the statement as a whole when the reference was not cut: a
\* result the executor cut is compared with a reference it cut at the same row.
WholeStatement == (Over /\ Passed) => Len(answer.rows) = Len(reference.rows)

\* fingerprint_dataframe of the two results: columns by name, rows sorted, numbers
\* rounded.
Fingerprint(f) ==
    LET cell(c) == IF c.kind = "float" THEN [c EXCEPT !.value = Rounded(@)] ELSE c
        row(r) == [n \in ToSet(f.names) |->
                      cell(r[CHOOSE j \in DOMAIN f.names : f.names[j] = n])]
    IN [columns |-> ToSet(f.names),
        rows |-> [r \in {row(f.rows[i]) : i \in DOMAIN f.rows} |->
                     Cardinality({i \in DOMAIN f.rows : row(f.rows[i]) = r})]]
\* A result of the recorded fingerprint is the reference's rows: only their order,
\* or that of the columns, can differ.
FingerprintAgrees ==
    (Over /\ IsInjective(answer.names) /\ Fingerprint(Expected) = Fingerprint(Actual)) =>
        verdict.class \in {"match", "same_rows_different_order", "column_names_differ"}

\* The classes a reviewer reads without the data: rows missing, too many, or the
\* right ones in another order, are what the name says.
ClassMeans ==
    Over =>
        /\ Passed <=> verdict.class \in {"match", "match_capped"}
        /\ (verdict.class = "actual_is_superset" /\ SameWidth) =>
             \E f \in [DOMAIN Expected.rows -> DOMAIN Actual.rows] :
                 IsInjective(f) /\ \A i \in DOMAIN f : RowsEqual(Expected.rows[i], Actual.rows[f[i]])
        /\ (verdict.class = "values_differ_same_shape") =>
             \A o \in Perms(Len(Names)) :
                 ~\E p \in Perms(Len(Expected.rows)) : \A i \in DOMAIN Expected.rows :
                     RowsEqual(Expected.rows[i], InOrder(Actual.rows, o)[p[i]])

FramesSound == VerdictRight /\ CapHidesNothing /\ RightPasses /\ FingerprintAgrees /\ ClassMeans
=============================================================================
