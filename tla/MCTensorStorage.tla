--------------------------- MODULE MCTensorStorage ---------------------------
(***************************************************************************)
(* Tensors on the CPU and on two CUDA devices.                             *)
(***************************************************************************)
EXTENDS TensorStorage, TLC

(* Two shapes of the same number of elements, and one without elements.    *)
MCCountOf == [row |-> 2, column |-> 2, empty |-> 0]

MCStepped(v) == IF v \in {"0", "1"} THEN (IF v = "0" THEN "1" ELSE "0") ELSE v

MCSymmetry == Permutations(Names) \cup Permutations(Cuda)
=============================================================================
