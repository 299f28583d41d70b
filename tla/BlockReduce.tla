----------------------------- MODULE BlockReduce -----------------------------
(***************************************************************************)
(* cuda_tensor_sum (src/src/cuda/tensor_ops_shape.cu): the sum of all      *)
(* elements of a tensor on a CUDA device.  A small tensor is summed by one *)
(* thread.  A large one is cut into blocks; the lanes of a block sum a few *)
(* elements each, combine their sums in shared memory between barriers,    *)
(* and one thread sums the results of the blocks.  Lanes run in any order  *)
(* and a lane may stop between reading shared memory and writing to it.    *)
(*                                                                         *)
(* Floating-point addition is not associative, so Add is any operator.     *)
(* Kernels of one stream run one after the other.                          *)
(***************************************************************************)
EXTENDS Naturals

CONSTANTS
  Lanes,              \* threads per block (256 in the code)
  Items,              \* elements per lane (4)
  SerialLimit,        \* the largest tensor summed by one thread (256)
  Sizes,              \* element counts of the tensors
  MaxBlocks,          \* bound on the blocks of a tensor
  Zero,               \* 0.f
  Garbage,            \* the contents of memory nobody has written
  Element(_),         \* the element at a flat index
  Add(_, _),
  Strides,            \* the values of Lanes under repeated halving, down to 1
  Tree(_, _, _, _),   \* a cell of shared memory after a stride: the promised order
  Number,             \* the sums of elements
  Occurs(_, _)        \* how often the element at an index is added into a sum

ASSUME SizeAssumption ==
  /\ Lanes \in Nat \ {0} /\ Items \in Nat \ {0}
  /\ SerialLimit \in Nat /\ MaxBlocks \in Nat
  /\ Sizes \subseteq Nat

Lane == 0 .. Lanes - 1
BlockSize == Lanes * Items

NumBlocks(count) ==
  count \div BlockSize + (IF count % BlockSize # 0 THEN 1 ELSE 0)

ASSUME BlockAssumption == \A count \in Sizes : NumBlocks(count) <= MaxBlocks

Block == 0 .. MaxBlocks - 1

VARIABLES
  n,                  \* the element count
  stage,              \* the kernel that runs
  pc,                 \* where each lane of each block is
  stride,             \* its loop variable, Lanes before the loop
  lane_sums,          \* the shared memory of each block
  sum,                \* the register of each lane
  partials,           \* global memory between the two kernels
  out

vars == <<n, stage, pc, stride, lane_sums, sum, partials, out>>

Blocks == 0 .. NumBlocks(n) - 1

(* sum_kernel: one thread, first to last.                                  *)
SerialSum(cells, count) ==
  LET upTo[k \in 0 .. count] == IF k = 0 THEN Zero ELSE Add(upTo[k - 1], cells[k - 1])
  IN upTo[count]

(* Fault: the guard lets the element after the last one in.                *)
LocalSumPastEnd(count, b, l) ==
  LET base == b * BlockSize + l * Items
      upTo[k \in 0 .. Items] ==
        IF k = 0 THEN Zero
        ELSE IF base + k - 1 <= count THEN Add(upTo[k - 1], Element(base + k - 1))
        ELSE upTo[k - 1]
  IN upTo[Items]

(* The elements of one lane, first to last, those past the end left out.   *)
LocalSum(count, b, l) ==
  LET base == b * BlockSize + l * Items
      upTo[k \in 0 .. Items] ==
        IF k = 0 THEN Zero
        ELSE IF base + k - 1 < count THEN Add(upTo[k - 1], Element(base + k - 1))
        ELSE upTo[k - 1]
  IN upTo[Items]

Everywhere(value) == [b \in Block |-> [l \in Lane |-> value]]

Init ==
  /\ n \in Sizes
  /\ stage = "start"
  /\ pc = Everywhere("load")
  /\ stride = Everywhere(Lanes)
  /\ lane_sums = Everywhere(Garbage)
  /\ sum = Everywhere(Zero)
  /\ partials = [b \in Block |-> Garbage]
  /\ out = Garbage

-----------------------------------------------------------------------------
(* The host.                                                               *)

Launch ==
  /\ stage = "start"
  /\ stage' = IF n = 0 THEN "done" ELSE IF n <= SerialLimit THEN "serial" ELSE "tree"
  /\ out' = Zero
  /\ UNCHANGED <<n, pc, stride, lane_sums, sum, partials>>

(* A runtime call or a launch is refused; later kernels are not launched.  *)
Throw ==
  /\ stage \in {"start", "serial", "tree"}
  /\ stage' = "thrown"
  /\ UNCHANGED <<n, pc, stride, lane_sums, sum, partials, out>>

(* Small tensors.                                                          *)
SumKernel ==
  /\ stage = "serial"
  /\ out' = SerialSum([i \in 0 .. n - 1 |-> Element(i)], n)
  /\ stage' = "done"
  /\ UNCHANGED <<n, pc, stride, lane_sums, sum, partials>>

(* Fault: the second stage does not wait for the first.                    *)
SumPartialsEarly ==
  /\ stage = "tree"
  /\ out' = SerialSum(partials, NumBlocks(n))
  /\ stage' = "done"
  /\ UNCHANGED <<n, pc, stride, lane_sums, sum, partials>>

(* The second stage, after every block of the first.                       *)
SumPartials ==
  /\ stage = "tree"
  /\ \A b \in Blocks, l \in Lane : pc[b][l] = "done"
  /\ out' = SerialSum(partials, NumBlocks(n))
  /\ stage' = "done"
  /\ UNCHANGED <<n, pc, stride, lane_sums, sum, partials>>

-----------------------------------------------------------------------------
(* sum_fixed_tree_kernel: lane l of block b.                               *)

At(b, l, place) == stage = "tree" /\ b \in Blocks /\ pc[b][l] = place
Goto(b, l, place) == pc' = [pc EXCEPT ![b][l] = place]

Load(b, l) ==
  /\ At(b, l, "load")
  /\ Goto(b, l, "barrier")
  /\ sum' = [sum EXCEPT ![b][l] = LocalSum(n, b, l)]
  /\ lane_sums' = [lane_sums EXCEPT ![b][l] = LocalSum(n, b, l)]
  /\ UNCHANGED <<n, stage, stride, partials, out>>

(* Fault: no barrier, a lane goes on by itself.                            *)
ReleaseAlone(b) ==
  /\ stage = "tree" /\ b \in Blocks
  /\ \E l \in Lane :
       /\ pc[b][l] = "barrier"
       /\ pc' = [pc EXCEPT ![b][l] = "step"]
       /\ stride' = [stride EXCEPT ![b][l] = @ \div 2]
  /\ UNCHANGED <<n, stage, lane_sums, sum, partials, out>>

(* __syncthreads: when every lane has arrived all go on, each with the     *)
(* next stride of its loop.                                                *)
Release(b) ==
  /\ stage = "tree" /\ b \in Blocks
  /\ \A l \in Lane : pc[b][l] = "barrier"
  /\ pc' = [pc EXCEPT ![b] = [l \in Lane |-> "step"]]
  /\ stride' = [stride EXCEPT ![b] = [l \in Lane |-> @[l] \div 2]]
  /\ UNCHANGED <<n, stage, lane_sums, sum, partials, out>>

Read(b, l) ==
  /\ At(b, l, "step")
  /\ l < stride[b][l]
  /\ sum' = [sum EXCEPT ![b][l] = Add(lane_sums[b][l], lane_sums[b][l + stride[b][l]])]
  /\ Goto(b, l, "write")
  /\ UNCHANGED <<n, stage, stride, lane_sums, partials, out>>

Write(b, l) ==
  /\ At(b, l, "write")
  /\ lane_sums' = [lane_sums EXCEPT ![b][l] = sum[b][l]]
  /\ Goto(b, l, "barrier")
  /\ UNCHANGED <<n, stage, stride, sum, partials, out>>

(* Fault: a lane without work leaves the loop.                             *)
SkipToEnd(b, l) ==
  /\ At(b, l, "step")
  /\ stride[b][l] # 0
  /\ l >= stride[b][l]
  /\ Goto(b, l, "done")
  /\ UNCHANGED <<n, stage, stride, lane_sums, sum, partials, out>>

(* A lane without work still takes part in the barrier.                    *)
Skip(b, l) ==
  /\ At(b, l, "step")
  /\ stride[b][l] # 0
  /\ l >= stride[b][l]
  /\ Goto(b, l, "barrier")
  /\ UNCHANGED <<n, stage, stride, lane_sums, sum, partials, out>>

Finish(b, l) ==
  /\ At(b, l, "step")
  /\ stride[b][l] = 0
  /\ partials' = IF l = 0 THEN [partials EXCEPT ![b] = lane_sums[b][0]] ELSE partials
  /\ Goto(b, l, "done")
  /\ UNCHANGED <<n, stage, stride, lane_sums, sum, out>>

Device ==
  \/ SumKernel
  \/ SumPartials
  \/ \E b \in Block : Release(b)
  \/ \E b \in Block, l \in Lane :
       Load(b, l) \/ Read(b, l) \/ Write(b, l) \/ Skip(b, l) \/ Finish(b, l)

Next == Launch \/ Throw \/ Device

Spec == Init /\ [][Next]_vars

(* The host calls on, and the device runs the lanes of a launched kernel.  *)
FairSpec == Spec /\ WF_vars(Launch) /\ WF_vars(Device)

-----------------------------------------------------------------------------
(* Properties.                                                             *)

ASSUME StrideAssumption ==
  /\ Strides \subseteq 1 .. Lanes /\ Lanes \in Strides
  /\ \A s \in Strides : s \div 2 = 0 \/ s \div 2 \in Strides

(* The fixed tree: Tree(count, b, s, l) is what cell l of block b holds    *)
(* when the stride s is done.                                              *)
ASSUME TreeAssumption ==
  \A count \in Sizes, b \in Block, l \in Lane :
    /\ Tree(count, b, Lanes, l) = LocalSum(count, b, l)
    /\ \A s \in Strides :
         LET half == s \div 2
         IN Tree(count, b, half, l) =
              IF l < half THEN Add(Tree(count, b, s, l), Tree(count, b, s, l + half))
              ELSE Tree(count, b, s, l)

TypeOK ==
  /\ n \in Sizes
  /\ stage \in {"start", "serial", "tree", "done", "thrown"}
  /\ pc \in [Block -> [Lane -> {"load", "barrier", "step", "write", "done"}]]
  /\ stride \in [Block -> [Lane -> Strides \cup {0}]]
  /\ DOMAIN lane_sums = Block /\ \A b \in Block : DOMAIN lane_sums[b] = Lane
  /\ DOMAIN sum = Block /\ \A b \in Block : DOMAIN sum[b] = Lane
  /\ DOMAIN partials = Block

(* The cells of shared memory a lane reads and writes between two          *)
(* barriers.                                                               *)
Reads(b, l) ==
  LET s == stride[b][l]
  IN IF s = Lanes THEN {}
     ELSE IF s = 0 THEN {0} \cap {l}
     ELSE IF l < s THEN {l, l + s} ELSE {}
Writes(b, l) ==
  LET s == stride[b][l] IN IF s = Lanes \/ l < s THEN {l} ELSE {}

(* Between two barriers of sum_fixed_tree_kernel no lane writes a cell of  *)
(* shared memory that another lane reads or writes.                        *)
RaceFree ==
  \A b \in Block : \A k, l \in Lane :
    k # l => Writes(b, k) \cap (Reads(b, l) \cup Writes(b, l)) = {}

(* The sum of a large tensor is the fixed tree of each block, then the     *)
(* blocks in order, whatever the schedule: "a deterministic fixed-order    *)
(* device reduction", bit for bit.                                         *)
FixedOrder ==
  stage = "done" /\ n > SerialLimit =>
    out = SerialSum([b \in Block |-> IF b \in Blocks THEN Tree(n, b, 1, 0) ELSE Garbage],
                    NumBlocks(n))

(* What makes Occurs a count: sums of elements are closed under Add, and   *)
(* adding two of them adds the counts.  Sums that are the expressions that *)
(* compute them have such a count, whatever the values.                    *)
Closed ==
  /\ Zero \in Number
  /\ \A i \in Nat : Element(i) \in Number
  /\ \A x, y \in Number : Add(x, y) \in Number
Counts(I, S) ==
  \A i \in I :
    /\ Occurs(i, Zero) = 0
    /\ \A j \in I : Occurs(i, Element(j)) = IF j = i THEN 1 ELSE 0
    /\ \A x, y \in S : Occurs(i, Add(x, y)) = Occurs(i, x) + Occurs(i, y)

(* The kernels halve the stride down to 1, so no lane's sum is left out.   *)
ASSUME HalvingAssumption == \A s \in Strides : s = 1 \/ s = 2 * (s \div 2)

(* The result of cuda_tensor_sum contains every element of the tensor once *)
(* and nothing else, for a tensor of any size: no lane, block or element   *)
(* past a boundary is left out or added twice.                             *)
EachElementOnce ==
  stage = "done" =>
    /\ out \in Number
    /\ \A i \in 0 .. MaxBlocks * BlockSize : Occurs(i, out) = IF i < n THEN 1 ELSE 0

(* cuda_tensor_sum returns: no lane waits for ever at a barrier.           *)
Returns == <>(stage \in {"done", "thrown"})
=============================================================================
