--------------------------- MODULE MCCellSession ---------------------------
(* Small instances of CellSession. *)
EXTENDS CellSession

(* Statement 1 reads the import or nothing; every later one reads the one      *)
(* before it.                                                                  *)
Chain == [p \in Pair |-> IF p = <<1, "x">> THEN {} ELSE {p[1] - 1}]

NoPairs == {}
FirstY == {<<1, "y">>}
SecondY == {<<2, "y">>}
=============================================================================
