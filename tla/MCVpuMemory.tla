---------------------------- MODULE MCVpuMemory -----------------------------
(***************************************************************************)
(* Values for the constants of VpuMemory, 64 KB scaled down to 16: four    *)
(* bits of address, a static data zone that grows two bytes at a time and  *)
(* a stack of three or four bytes.                                         *)
(***************************************************************************)
EXTENDS VpuMemory

\* Operands of one and two bytes, of one non-zero value.
MarkedPayloads == {<<1>>, <<1, 1>>}

\* Operands told apart by their bytes and by the order of their bytes.
MixedPayloads == {<<1>>, <<1, 2>>}

\* A constant longer than two frames of the static data zone.
LongPayloads == {<<1>>, <<1, 1, 1, 1, 1>>}

=============================================================================
