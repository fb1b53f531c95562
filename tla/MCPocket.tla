------------------------------ MODULE MCPocket ------------------------------
(* Pocket for TLC: names that differ in case only.                      *)
EXTENDS Pocket

MCNames  == {"nova", "Nova", "rook"}
MCFolded == [n \in MCNames |-> IF n = "rook" THEN "rook" ELSE "nova"]
=============================================================================
