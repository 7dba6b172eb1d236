----------------------------- MODULE TableGrid -----------------------------
(***************************************************************************)
(* The column grid of a text table (src/src/uno_extract.cpp,               *)
(* fill_grid_from_separators and fill_column_spans). A text table names    *)
(* its cells row by row, so a name says which box of its row a cell is and *)
(* not which columns of the table it lies over. The separators of the rows *)
(* do: all rows' edges, from left to right, are merged into grid lines,    *)
(* and a cell spans the lines of its box's two edges.                      *)
(*                                                                         *)
(* The edges are sorted by position alone, by a sort that is not stable:   *)
(* edges at one position come in any order.                                *)
(***************************************************************************)
EXTENDS Integers, Sequences, FiniteSets

CONSTANTS
  Sum,      \* TableColumnRelativeSum
  Tables    \* per row its separators, and the boxes that are named

\* A table: separators[r] are the positions between the boxes of row r, sorted; two
\* may be rounded to one position. named[r] are the boxes of row r that have a
\* cell, counted from 0 (a box that a vertical merge covers has none, and a row of
\* split cells names boxes it has no separators for).
Row(table, r) == <<0>> \o table.separators[r] \o <<Sum>>
Rows(table) == 1..Len(table.separators)
Edges(table) == UNION {{<<r, i>> : i \in 1..Len(Row(table, r))} : r \in Rows(table)}
Cells(table) == UNION {{<<r, box>> : box \in table.named[r]} : r \in Rows(table)}
Ascending(row) == \A i \in 1..Len(row), j \in 1..Len(row) : i < j => row[i] <= row[j]
Increasing(row) == \A i \in 1..Len(row), j \in 1..Len(row) : i < j => row[i] < row[j]

ASSUME GridAssumption ==
  /\ Sum \in Nat \ {0}
  /\ \A table \in Tables :
       /\ table.separators \in Seq(Seq(Nat)) /\ Len(table.named) = Len(table.separators)
       /\ \A r \in Rows(table) : table.named[r] \subseteq Nat /\ Ascending(Row(table, r))

Tolerance == IF Sum \div 200 > 1 THEN Sum \div 200 ELSE 1

VARIABLES table,     \* the table as the office core describes it
          pending,   \* the edges that are still to be merged, of all_edges
          lines,     \* grid_lines
          start,     \* cluster_start
          rows,      \* cluster_rows
          line,      \* edge_column, for the merged edges
          cells,     \* column and column_span of each cell
          columns,   \* TableData.columns
          step

gridVars == <<table, pending, lines, start, rows, line, cells, columns, step>>

Position(edge) == Row(table, edge[1])[edge[2]]

----------------------------------------------------------------------------
\* parse_cell_name: until the grid says more, a cell is where its name says.
GridInit ==
  /\ table \in Tables
  /\ pending = Edges(table) /\ lines = 0 /\ start = 0 /\ rows = {} /\ line = <<>>
  /\ cells = [c \in Cells(table) |-> [column |-> c[2], span |-> 1]]
  /\ columns = -1 /\ step = "merge"

\* The separators or their sum cannot be read, or there is no row: the
\* columns are those the office core counts, which may be too few.
NoGrid ==
  /\ step = "merge" /\ pending = Edges(table)
  /\ columns' \in 0..(Sum + 1)
  /\ step' = "names"
  /\ UNCHANGED <<table, pending, lines, start, rows, line, cells>>

\* An edge begins a line, or lies on the one that was begun last.
BeginsWhenApart(edge) ==   \* mutant: the rows on the line do not matter
  lines = 0 \/ Position(edge) - start > Tolerance
Begins(edge) == lines = 0 \/ Position(edge) - start > Tolerance \/ edge[1] \in rows

MovedStart(edge) == Position(edge)   \* mutant: every edge moves cluster_start
StartOf(edge) == IF Begins(edge) THEN Position(edge) ELSE start

Merge ==
  /\ step = "merge"
  /\ \E edge \in pending :
       /\ \A other \in pending : Position(edge) <= Position(other)
       /\ pending' = pending \ {edge}
       /\ start' = StartOf(edge)
       /\ lines' = IF Begins(edge) THEN lines + 1 ELSE lines
       /\ rows' = (IF Begins(edge) THEN {} ELSE rows) \cup {edge[1]}
       /\ line' = [e \in (Edges(table) \ pending) \cup {edge} |->
                     IF e = edge THEN lines' - 1 ELSE line[e]]
  /\ UNCHANGED <<table, cells, columns, step>>

\* A row that names more boxes than it has keeps its names' positions.
Agrees(r) == \A box \in table.named[r] : box + 2 <= Len(Row(table, r))
BoxInOrder(c) == Cardinality({box \in table.named[c[1]] : box < c[2]})   \* mutant
Box(c) == c[2]
Placed(c) ==
  LET left == line[<<c[1], Box(c) + 1>>]
      right == line[<<c[1], Box(c) + 2>>]
  IN  [column |-> left, span |-> IF right - left > 1 THEN right - left ELSE 1]

ColumnsShort == lines - 2   \* mutant: counts the lines between columns
Columns == lines - 1
Place ==
  /\ step = "merge" /\ pending = {} /\ lines >= 2
  /\ cells' = [c \in Cells(table) |-> IF Agrees(c[1]) THEN Placed(c) ELSE cells[c]]
  /\ columns' = Columns /\ step' = "done"
  /\ UNCHANGED <<table, pending, lines, start, rows, line>>

\* fill_column_spans: a cell reaches to the next cell its row names.
SpanByNames ==
  /\ step = "names"
  /\ cells' = [c \in Cells(table) |->
       LET after == {box \in table.named[c[1]] : box > c[2]}
           next == IF after = {} THEN columns
                   ELSE CHOOSE box \in after : \A other \in after : box <= other
       IN  [column |-> c[2], span |-> IF next - c[2] > 1 THEN next - c[2] ELSE 1]]
  /\ step' = "done"
  /\ UNCHANGED <<table, pending, lines, start, rows, line, columns>>

Finished == step = "done" /\ UNCHANGED gridVars

GridNext == NoGrid \/ Merge \/ Place \/ SpanByNames \/ Finished

GridSpec == GridInit /\ [][GridNext]_gridVars

----------------------------------------------------------------------------
GridTypeOK ==
  /\ pending \subseteq Edges(table)
  /\ lines \in Nat /\ start \in Nat /\ rows \subseteq Rows(table)
  /\ line \in [Edges(table) \ pending -> Nat]
  /\ cells \in [Cells(table) -> [column : Nat, span : Nat \ {0}]]
  /\ columns \in Int /\ step \in {"merge", "names", "done"}

\* "Two edges of the same row are always two edges, however close": a row's
\* edges lie on lines of their own, and from left to right unless they coincide,
\* so that no box of it is lost and none overlaps the next.
RowsKeepTheirEdges ==
  \A e \in DOMAIN line, f \in DOMAIN line :
    e[1] = f[1] /\ e[2] < f[2] =>
      line[e] # line[f] /\ (Position(e) < Position(f) => line[e] < line[f])

\* Lines follow the page: an edge is never on a line to the right of one that
\* lies further right in another row, and edges that are clearly apart are on
\* different lines.
LinesFollowThePage ==
  \A e \in DOMAIN line, f \in DOMAIN line :
    /\ Position(e) < Position(f) => line[e] <= line[f]
    /\ Position(e) + Tolerance < Position(f) => line[e] < line[f]

\* What a placed cell covers in the table.
OnGrid == step = "done" /\ pending = {}
Left(c) == Row(table, c[1])[c[2] + 1]
Right(c) == Row(table, c[1])[c[2] + 2]
PlacedCells == {c \in Cells(table) : OnGrid /\ Agrees(c[1])}

\* Cells that begin at one place of the page begin in one column, and those
\* that end at one place end in one, whichever rows they are in and whichever
\* boxes beside them a merge covers.
Aligned ==
  \A c \in PlacedCells, d \in PlacedCells :
    /\ Left(c) = Left(d) => cells[c].column = cells[d].column
    /\ Right(c) = Right(d) =>
         cells[c].column + cells[c].span = cells[d].column + cells[d].span

\* It is so in a table without a row whose own edges are within the tolerance.
Narrow ==
  \E r \in Rows(table) : \E i \in 1..(Len(Row(table, r)) - 1) :
    Row(table, r)[i + 1] - Row(table, r)[i] <= Tolerance
AlignedIfWide == ~Narrow => Aligned

\* The cells of a row lie side by side: on the grid, if its names and its
\* separators agree and no two of these coincide, and by their names always.
\* They lie within the columns if the office core counts every box of the row.
Misplaced(r) == OnGrid /\ ~(Agrees(r) /\ Increasing(Row(table, r)))
Within(r) == OnGrid \/ \A box \in table.named[r] : box < columns
SideBySide ==
  step = "done" =>
    \A c \in Cells(table) :
      \/ Misplaced(c[1])
      \/ /\ Within(c[1]) => cells[c].column + cells[c].span <= columns
         /\ \A d \in Cells(table) :
              c[1] = d[1] /\ c[2] < d[2] =>
                cells[c].column + cells[c].span <= cells[d].column
=============================================================================
