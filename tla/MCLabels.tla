------------------------------ MODULE MCLabels ------------------------------
EXTENDS Labels

(* An unknown label, one with '_' that no table has, and the empty cell.  *)
SomeOtherWords == {"", "foo", "ce_cm_jn"}
=============================================================================
