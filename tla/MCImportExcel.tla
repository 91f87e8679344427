--------------------------- MODULE MCImportExcel ---------------------------
(***************************************************************************)
(* Spreadsheets for ImportExcel.                                             *)
(***************************************************************************)
EXTENDS ImportExcel

A == [empresa |-> "acme", presentante |-> <<"Ana", "S/N", "Ruiz">>, bad |-> "none"]
B == [empresa |-> "acme", presentante |-> <<"S/N">>, bad |-> "none"]

File(rows) == [valid |-> TRUE, rows |-> rows]

\* One empresa twice, with a blank row between; a row of which the database refuses the
\* last statement after one that it took; other headers.
MCFiles ==
    {File(<<A, Nil, B>>), File(<<A, [B EXCEPT !.bad = "detalles"]>>), [valid |-> FALSE, rows |-> << >>]}

=============================================================================
