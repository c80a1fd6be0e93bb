---------------------------- MODULE TableExtraction ----------------------------
(***************************************************************************)
(* One table of a page: the HTML of the structure engine parsed into cells *)
(* tag by tag, the cells put in visual order by their boxes, their texts   *)
(* reconciled with the lines of text recognition, the export.              *)
(*                                                                         *)
(* Which rows the clustering of the cell centres finds over all skews, and *)
(* the order of the cells in a row, is any arrangement without empty row.  *)
(* A text has its tokens, one of each line that it was put together from;  *)
(* the scores beside the coverage of the source lines are abstracted to    *)
(* their verdict.                                                          *)
(***************************************************************************)
EXTENDS Integers, FiniteSets, Sequences, SequencesExt, FiniteSetsExt, Functions

CONSTANTS MaxTableCells,  \* OCR_MAX_TABLE_CELLS
          MaxSpan,        \* bound of the model: largest span
          MaxRows,        \* bound of the model: rows of the HTML
          MaxBlank,       \* bound of the model: empty cells of the HTML
          MaxSource       \* bound of the model: text lines on the page

TableAssumption == MaxTableCells \in Nat /\ MaxSpan \in Nat /\ MaxSource \in Nat

VARIABLES
  at,         \* "parse", "boxes", "placed", "verify", "export", "over", "error"
  row, col,   \* the parser's position
  open,       \* inside a cell
  span,       \* the spans of the open cell
  occupied,   \* the slots of the cells that are closed
  cells,      \* the cells: row, col, spans, text
  parsed,     \* history: the cells as they were parsed
  normalized, \* geometry_normalized
  source,     \* per cell: the token of each text line assigned to it
  status      \* "unverified", "accepted", "needs_review"

vars == <<at, row, col, open, span, occupied, cells, parsed, normalized, source, status>>
parser == <<row, col, open, span, occupied>>

Blank == <<>>

Init ==
  /\ at = "parse" /\ row = -1 /\ col = 0 /\ open = FALSE
  /\ span = [rows |-> 1, cols |-> 1] /\ occupied = {} /\ cells = <<>> /\ parsed = <<>>
  /\ normalized = FALSE /\ source = <<>> /\ status = "unverified"

-----------------------------------------------------------------------------
(* The parser.                                                             *)

Malformed ==
  at' = "error" /\ UNCHANGED <<row, col, open, span, occupied, cells>>

StartRow ==
  /\ at = "parse" /\ row + 1 < MaxRows
  /\ row' = row + 1 /\ col' = 0
  /\ UNCHANGED <<at, open, span, occupied, cells, parsed, normalized, source, status>>

(* Slots that spans of earlier cells reach into are skipped.               *)
FirstFree(c) ==
  <<row, c>> \notin occupied /\ \A d \in col..(c - 1) : <<row, d>> \in occupied

StartCell ==
  /\ at = "parse"
  /\ UNCHANGED <<parsed, normalized, source, status>>
  /\ \E rows, cols \in 1..MaxSpan, c \in col..(col + Cardinality(occupied)) :
       /\ FirstFree(c)
       /\ IF row < 0 \/ open \/ rows * cols > MaxTableCells
             \/ (row + rows) * (c + cols) > MaxTableCells
          THEN Malformed
          ELSE /\ col' = c /\ open' = TRUE /\ span' = [rows |-> rows, cols |-> cols]
               /\ UNCHANGED <<at, row, occupied, cells>>

Slots(r, c, rows, cols) == (r..(r + rows - 1)) \X (c..(c + cols - 1))

(* mutant: an overlap is not an error                                      *)
EndCellOver ==
  /\ at = "parse" /\ open
  /\ UNCHANGED <<parsed, normalized, source, status>>
  /\ occupied' = occupied \cup Slots(row, col, span.rows, span.cols)
  /\ cells' = Append(cells, [row |-> row, col |-> col, rows |-> span.rows,
                             cols |-> span.cols, text |-> <<Len(cells) + 1>>])
  /\ col' = col + span.cols /\ open' = FALSE
  /\ UNCHANGED <<at, row, span>>

EndCell ==
  /\ at = "parse" /\ open
  /\ UNCHANGED <<parsed, normalized, source, status>>
  /\ LET slots == Slots(row, col, span.rows, span.cols)
     IN IF slots \cap occupied # {} \/ Cardinality(occupied \cup slots) > MaxTableCells
        THEN Malformed
        ELSE /\ occupied' = occupied \cup slots
             /\ \E text \in {Blank, <<Len(cells) + 1>>} :
                  /\ text = Blank =>
                       Cardinality({i \in DOMAIN cells : cells[i].text = Blank}) < MaxBlank
                  /\ cells' = Append(cells, [row |-> row, col |-> col, rows |-> span.rows,
                                             cols |-> span.cols, text |-> text])
             /\ col' = col + span.cols /\ open' = FALSE
             /\ UNCHANGED <<at, row, span>>

(* An open cell at the end of the text is dropped.                         *)
EndOfText ==
  /\ at = "parse" /\ cells # <<>>
  /\ at' = "boxes" /\ parsed' = cells
  /\ UNCHANGED <<cells, normalized, source, status>> /\ UNCHANGED parser

-----------------------------------------------------------------------------
(* The geometry.                                                           *)

Rows(table) == Max({table[i].row + table[i].rows : i \in DOMAIN table})
Cols(table) == Max({table[i].col + table[i].cols : i \in DOMAIN table})
Cell(r, c, text) == [row |-> r, col |-> c, rows |-> 1, cols |-> 1, text |-> text]

(* _cells_to_grid: the text at a slot, which is that of the cell that has  *)
(* its corner there.                                                       *)
GridText(table, r, c) ==
  LET here == {i \in DOMAIN table : table[i].row = r /\ table[i].col = c}
  IN IF here = {} THEN Blank ELSE table[Max(here)].text

(* As many boxes as cells, or none: the cells are those of the HTML.       *)
KeepCells ==
  /\ at = "boxes"
  /\ at' = "placed"
  /\ UNCHANGED <<cells, parsed, normalized, source, status>> /\ UNCHANGED parser

(* Another number of boxes, of which those that are malformed do not       *)
(* count: a full grid of empty cells, or rows as they are seen with the    *)
(* text that the HTML has at the same place.                               *)
RowByRow(order) ==
  \A m, n \in DOMAIN order : m < n =>
    \/ order[m][1] < order[n][1]
    \/ order[m][1] = order[n][1] /\ order[m][2] < order[n][2]

VisualCells ==
  /\ at = "boxes"
  /\ at' = "placed" /\ normalized' = TRUE
  /\ \E length \in UNION {[0..r -> 1..MaxTableCells] : r \in 0..(MaxTableCells - 1)} :
       LET rows == DOMAIN length
           slots == {s \in rows \X (0..(MaxTableCells - 1)) : s[2] < length[s[1]]}
           html == Rows(cells) * Cols(cells) <= MaxTableCells
           grid == \A r \in rows : length[r] = length[0]
       IN /\ Cardinality(slots) <= MaxTableCells
          /\ \E order \in SetToSeqs(slots), kept \in {html} \cup (IF grid THEN {FALSE} ELSE {}) :
               /\ RowByRow(order)
               /\ cells' = [i \in DOMAIN order |->
                             Cell(order[i][1], order[i][2],
                                  IF kept THEN GridText(cells, order[i][1], order[i][2])
                                  ELSE Blank)]
  /\ UNCHANGED <<parsed, source, status>> /\ UNCHANGED parser

(* normalize_table_cells: the cells in the order that they have in their   *)
(* rows, each beside the one before or at the beginning of the next row.   *)
(* Every row must have the width of the table; if not, or if a box is      *)
(* missing or a cell spans rows, the cells stay as they are.               *)
After(corner, width, table) ==
  IF corner[2] + width = Cols(table)
  THEN <<corner[1] + 1, 0>> ELSE <<corner[1], corner[2] + width>>

FullRows(table, order, corner) ==
  /\ corner[1] = <<0, 0>>
  /\ \A k \in 1..(Len(table) - 1) :
       corner[k + 1] = After(corner[k], table[order[k]].cols, table)
  /\ After(corner[Len(table)], table[order[Len(table)]].cols, table) = <<Rows(table), 0>>

Placed(table, order, corner) ==
  [k \in DOMAIN table |->
     [table[order[k]] EXCEPT !.row = corner[k][1], !.col = corner[k][2]]]

Arrangements(table) ==
  {f \in [DOMAIN table -> DOMAIN table] : IsInjective(f)}
Corners(table) ==
  [DOMAIN table -> (0..(Rows(table) - 1)) \X (0..(Cols(table) - 1))]

Normalize ==
  /\ at = "placed"
  /\ at' = "verify"
  /\ \/ UNCHANGED <<cells, normalized>>
     \/ /\ Rows(cells) * Cols(cells) <= MaxTableCells
        /\ \A i \in DOMAIN cells : cells[i].rows = 1
        /\ \E corner \in Corners(cells), order \in Arrangements(cells) :
             FullRows(cells, order, corner) /\ cells' = Placed(cells, order, corner)
        /\ normalized' = TRUE
  /\ UNCHANGED <<parsed, source, status>> /\ UNCHANGED parser

-----------------------------------------------------------------------------
(* The verification.                                                       *)

(* The lines of the page, each in one cell at most.  A line has the token  *)
(* of its cell's text or another one.                                      *)
Assignments == [1..MaxSource -> 0..Len(cells)]
SourceOf(assigned, agrees, i) ==
  [k \in {k \in 1..MaxSource : assigned[k] = i} |->
     IF k \in agrees /\ cells[i].text # Blank THEN cells[i].text[1] ELSE -k]

(* The text of a cell is replaced by confident source text, and an empty   *)
(* cell is filled.                                                         *)
Reconciled(cell, src, confidence) ==
  IF \/ src # Blank /\ cell.text # Blank /\ confidence = "high"
     \/ src # Blank /\ cell.text = Blank /\ confidence \in {"high", "fair"}
  THEN [cell EXCEPT !.text = src] ELSE cell

(* The share of the source tokens that the table has, by multiplicity:     *)
(* each is counted with a token of the table of its own.                   *)
Spots(texts) == UNION {{i} \X DOMAIN texts[i] : i \in DOMAIN texts}
Covered(src, texts) ==
  \E found \in SUBSET Spots(src) :
    /\ 10 * Cardinality(found) >= 9 * Cardinality(Spots(src))
    /\ \E match \in [found -> Spots(texts)] :
         /\ IsInjective(match)
         /\ \A s \in found : texts[match[s][1]][match[s][2]] = src[s[1]][s[2]]

Verify ==
  /\ at = "verify"
  /\ \E assigned \in Assignments, agrees \in SUBSET (1..MaxSource) :
     \E confidence \in {f \in [DOMAIN cells -> {"high", "fair", "low"}] :
                          \A i \in DOMAIN cells : i \notin Range(assigned) => f[i] = "low"} :
       LET src == [i \in DOMAIN cells |-> SourceOf(assigned, agrees, i)]
           done == [i \in DOMAIN cells |-> Reconciled(cells[i], src[i], confidence[i])]
           texts == [i \in DOMAIN done |-> done[i].text]
       IN /\ cells' = done /\ source' = src
          /\ status' \in IF Spots(src) # {} /\ Covered(src, texts)
                         THEN {"accepted", "needs_review"} ELSE {"needs_review"}
  /\ at' = "export"
  /\ UNCHANGED <<parsed, normalized>> /\ UNCHANGED parser

(* Text recognition failed: the table is not verified.                     *)
NotVerified ==
  /\ at = "verify"
  /\ at' = "export"
  /\ UNCHANGED <<cells, parsed, normalized, source, status>> /\ UNCHANGED parser

(* Only accepted tables are written, as a grid within the limit.           *)
Export ==
  /\ at = "export"
  /\ at' = IF status = "accepted" /\ Rows(cells) * Cols(cells) > MaxTableCells
           THEN "error" ELSE "over"
  /\ UNCHANGED <<cells, parsed, normalized, source, status>> /\ UNCHANGED parser

Next ==
  \/ StartRow \/ StartCell \/ EndCell \/ EndOfText
  \/ KeepCells \/ VisualCells \/ Normalize \/ Verify \/ NotVerified \/ Export

Spec == Init /\ [][Next]_vars

-----------------------------------------------------------------------------
SlotsOf(cell) == Slots(cell.row, cell.col, cell.rows, cell.cols)
Disjoint(table) ==
  \A i, j \in DOMAIN table : i # j => SlotsOf(table[i]) \cap SlotsOf(table[j]) = {}

SlotsOfAll(table) == UNION {SlotsOf(table[i]) : i \in DOMAIN table}
Filled(table) ==
  SlotsOfAll(table) = (0..(Rows(table) - 1)) \X (0..(Cols(table) - 1))
OneCellEach(table) ==
  \A i, j \in DOMAIN table : i # j => table[i].text = Blank \/ table[i].text # table[j].text

(* What HTML means by the spans: cells do not overlap, and every slot to   *)
(* the left of a cell is taken by an earlier one.  Geometry does not lose  *)
(* or double a cell: normalized cells fill the rows and columns of the     *)
(* table, each slot once, and the parsed texts that are still there stand  *)
(* in one cell each.                                                       *)
GridRight ==
  /\ \A i \in DOMAIN parsed : \A c \in 0..(parsed[i].col - 1) :
       \E j \in 1..(i - 1) : <<parsed[i].row, c>> \in SlotsOf(parsed[j])
  /\ Disjoint(parsed)
  /\ at \in {"verify", "export", "over"} =>
       /\ Disjoint(cells)
       /\ (normalized /\ \E i \in DOMAIN cells : cells[i].cols > 1) => Filled(cells)
  /\ at = "verify" => OneCellEach(cells)

(* The tokens of the source that are nowhere in the table.                 *)
Lost == {s \in Spots(source) :
           \A i \in DOMAIN cells : source[s[1]][s[2]] \notin Range(cells[i].text)}

(* "Reconcile a structured grid with primary OCR without inventing cell    *)
(* content": a text that is not in the HTML is of the lines of its cell;   *)
(* a line is in one cell at most; and a table that is accepted, which is   *)
(* the only kind that is exported, lacks at most a tenth of the tokens of  *)
(* the lines that fell into it.                                            *)
NothingInvented ==
  status \in {"accepted", "needs_review"} =>
    /\ \A i \in DOMAIN cells :
         \/ cells[i].text \in {Blank, source[i]}
         \/ \E k \in DOMAIN parsed : cells[i].text = parsed[k].text
    /\ \A i, j \in DOMAIN cells : i # j => DOMAIN source[i] \cap DOMAIN source[j] = {}
    /\ status = "accepted" => 10 * Cardinality(Lost) <= Cardinality(Spots(source))

-----------------------------------------------------------------------------
(* The inductive invariant.                                                *)

IsTable(table) ==
  table \in Seq([row : Nat, col : Nat, rows : Nat \ {0}, cols : Nat \ {0},
                text : {table[i].text : i \in DOMAIN table}])

(* The cells that the parser has closed.                                   *)
OfHTML(table) ==
  /\ Disjoint(table)
  /\ \A i \in DOMAIN table :
       /\ table[i].text \in {Blank, <<i>>}
       /\ \A c \in 0..(table[i].col - 1) :
            \E j \in 1..(i - 1) : <<table[i].row, c>> \in SlotsOf(table[j])

Parsing ==
  /\ ~normalized /\ row \in Nat \cup {-1} /\ col \in Nat /\ (open => row # -1)
  /\ span \in [rows : Nat \ {0}, cols : Nat \ {0}]
  /\ occupied = SlotsOfAll(cells) /\ IsFiniteSet(occupied) /\ OfHTML(cells)
  /\ \A c \in 0..(col - 1) : <<row, c>> \in occupied

Placing ==
  /\ cells # <<>> /\ Disjoint(cells)
  /\ at = "boxes" => cells = parsed /\ ~normalized
  /\ normalized =>
       \/ \A i \in DOMAIN cells : cells[i].cols = 1
       \/ at # "placed" /\ Filled(cells)
  /\ status = "unverified" =>
       /\ OneCellEach(cells)
       /\ \A i \in DOMAIN cells :
            cells[i].text = Blank \/ \E k \in DOMAIN parsed : cells[i].text = parsed[k].text

IInv ==
  /\ at \in {"parse", "boxes", "placed", "verify", "export", "over", "error"}
  /\ IsTable(cells) /\ IsTable(parsed) /\ OfHTML(parsed)
  /\ at = "parse" => Parsing
  /\ at \notin {"parse", "error"} => Placing
  /\ at \in {"parse", "boxes", "placed", "verify"} => status = "unverified"
  /\ NothingInvented
=============================================================================
