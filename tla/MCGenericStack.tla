--------------------------- MODULE MCGenericStack ---------------------------
(* Instance of GenericStack for TLC: indices at the edges of the buffers of  *)
(* 4 and 8 slots, so that both doublings and the halving happen.             *)
EXTENDS GenericStack

MCIndex == 0 .. 15
MCIndices == {3, 4, 8}
MCElementSizes == {0, PtrSize}
SmallElementSizes == {PtrSize - 1}
=============================================================================
