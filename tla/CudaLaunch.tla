----------------------------- MODULE CudaLaunch -----------------------------
(***************************************************************************)
(* What a host function of src/src/cuda asks of the device: the shape of   *)
(* its result, the buffer it needs, the number the buffer is filled with   *)
(* first, if any, how many metadata buffers the call holds, and its        *)
(* kernels, in order.  A kernel has n useful threads; thread t stores (or  *)
(* adds, or ands, atomically) value[t] into cell[t] of the result.         *)
(***************************************************************************)
EXTENDS TensorIndex

Kernel(n, C(_), F(_), mode) ==
  [n |-> n, cell |-> [t \in 0 .. n - 1 |-> C(t)], value |-> [t \in 0 .. n - 1 |-> F(t)],
   mode |-> mode]

(* One thread per cell of the result; per element of an operand; per       *)
(* element, with atomicAdd; and per element with atomicAnd on one cell.    *)
Gather(n, F(_)) == Kernel(n, LAMBDA t : t, F, "store")
Scatter(n, C(_), F(_)) == Kernel(n, C, F, "store")
AtomicAdd(n, C(_), F(_)) == Kernel(n, C, F, "add")
AtomicAnd(n, F(_)) == Kernel(n, LAMBDA t : 0, F, "and")

(* A "guarded" buffer is freed when the call returns, its content read.    *)
Buffered(buffer, sh, fill, metadata, kernels) ==
  [shape |-> sh, buffer |-> buffer, fill |-> fill, metadata |-> metadata, kernels |-> kernels]
Plan(sh, cleared, metadata, kernels) ==
  Buffered("result", sh, IF cleared THEN <<Zero>> ELSE <<>>, metadata, kernels)
Guarded(kernel) == Buffered("guarded", <<>>, <<One>>, 0, <<kernel>>)

(* The early returns: an answer the host knows, an empty result, and       *)
(* nothing to do after clearing.                                           *)
Answer(value) == Buffered("none", <<>>, <<value>>, 0, <<>>)
Nothing(sh) == Buffered("none", sh, <<>>, 0, <<>>)
Zeros(sh) == IF Numel(sh) = 0 THEN Nothing(sh) ELSE Plan(sh, TRUE, 0, <<>>)
UnlessEmpty(plan) == IF Numel(plan.shape) = 0 THEN Nothing(plan.shape) ELSE plan
UnlessNone(count, plan) == IF count = 0 THEN Zeros(plan.shape) ELSE UnlessEmpty(plan)

(* One thread per cell, the common case.                                   *)
Elementwise(sh, F(_)) == UnlessEmpty(Plan(sh, FALSE, 0, <<Gather(Numel(sh), F)>>))
=============================================================================
