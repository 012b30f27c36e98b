------------------------------- MODULE MC_Heap -------------------------------
(* Constants for checking Heap: two registers, marked in a fixed order. *)
EXTENDS Heap
MC_Regs == {"r", "env"}
MC_RootOrder == <<"env", "r">>
MC_NoArrays == {}
MC_Arrays == {<<"CHAR", 5>>, <<"I", 1>>}
=============================================================================
