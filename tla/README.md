# A verification project for minimal_autograd

TLA+ models of the library in `src/`, the TLC runs that check them on small
instances, and TLAPS proofs of their main properties for every instance.
`PROJECT.json` is the index: components, runs, the source lines each
definition stands for, and the hazards the properties answer.

## 1. The system

minimal_autograd is a single-threaded C++17 library (tensors, reverse-mode
automatic differentiation, layers, optimizers) with an optional CUDA backend.
There is no persistence and no network; the concurrency is in the CUDA kernels,
and the interleaving of the rest comes from user callbacks, from exceptions at
every allocation or device call, and from storage that several handles share.

| Component (source) | State | Operations | What is hard | What makes it correct |
| --- | --- | --- | --- | --- |
| Autograd engine (`core/variable.cpp`, `variable_internal.h`) | graph of nodes: kind, parents, `requires_grad`, device, stored gradient; per call: order, `pending`, `committed` | constructors, operations, `make_custom_variable`, `zero_grad`, `backward` | callbacks re-enter the engine; exceptions anywhere; shared nodes | consumers before operands; one complete commit or nothing; commits are built on current gradients; each call adds exactly its own pass |
| Operations and local gradients (`core/ops.cpp`, `conv.cpp`, `norm.cpp`, `fft.cpp`, `backward_step` of `variable.cpp`) | per node: the tensors kept for backward | forty operations | forty gradients written by hand; operands overwritten between forward and backward | backward is the derivative at the operands the forward pass saw; illegal operands are refused |
| Layers, losses, diffusion, FFT wrappers (`core/module.cpp`, `loss.cpp`, `ops.cpp`, `fft.cpp`) | parameters | compositions of operations | axes, scales and shapes between operations | the same, of the composition |
| CPU kernels (`src/cpu`, `detail/tensor_kernels.h`) | none | strides, slice, concat, broadcast, reductions, products, convolution, pooling, DFT | index arithmetic, boundary sizes | each backward is the adjoint of its forward |
| CUDA kernels (`src/cuda`) | device buffers, the stream, threads | host functions, kernels | asynchronous launches, atomic additions, errors at every CUDA call | the device computes what the CPU computes in every order; nothing leaks or is freed early |
| CUDA sum (`src/cuda/tensor_ops_shape.cu`) | shared memory and partial sums of a block | fixed-tree sum | threads between barriers | each element once, in one order, whatever the schedule |
| Tensor handles and storage (`core/tensor.cpp`, `detail/tensor_storage.h`, `tensor_storage_runtime.cu`, `cuda_view.cpp`) | handle -> impl -> shared storage, device buffers | factories, copy, move, reshape view, clone, to, host copies, CUDA views | aliasing between views, failure in the middle of a copy, dangling borrowed views | a clone never aliases, a failed transfer leaks and changes nothing, a view dies with its owner |
| Optimizers (`core/optim.cpp`, optimizer dispatch) | parameters, first and second moments, step count, hyperparameters | `step`, `zero_grad`, `state`, `load_state` | device failure in the middle of a step, mixed devices, the same parameter twice, shared moment storage | a step is all or nothing, snapshots are isolated, devices agree |
| Modules (`core/module.cpp`) | tree of modules and named parameters | `register_*`, `named_parameters`, `zero_grad`, `Sequential` | cycles, sharing, duplicate names, moves | registration makes no cycle, without a cycle nothing leaks, names stay |
| Build files, examples, Eigen extension | - | - | - | not modelled |

Components interact by calls: user code builds a graph through operations,
`backward` propagates over it and calls back into user code through custom
operations, modules expose their parameters to an optimizer, and the optimizer
mutates parameter storage in place behind the graph's back. They share tensor
storage.

## 2. Modules

| Module | Models | Built on | Abstract specification or reference | Proved |
| --- | --- | --- | --- | --- |
| `AutogradBackward` | the engine | - | `GradientLedger` | invariant, safety properties, atomic commit, the refinement |
| `AdamOptimizer` | `Adam` with mixed devices and failures | - | `AdamReference` (a step at one instant) | type, snapshot isolation, what a failed step changes, the order of a step, the refinement |
| `BlockReduce` | the CUDA sum: lanes of a block between barriers, both kernels | - | a fixed tree of additions | type, no data race, one fixed order, every element once |
| `TensorStorage` | handles, storages, device buffers, views, transfers, `SGD::step` | - | `TensorAliases` (boxes and who shows them) | type, nothing dangles or leaks, views hold, calls keep tensors, a step is a prefix of its updates, the refinement |
| `ExactNumbers`, `TensorIndex` | the elements of tensors; shapes, strides, offsets | - | - | - |
| `ShapeKernels`, `ElementwiseKernels`, `SpectralKernels`, `NnKernels` (together `CpuKernels`) | the kernels on the CPU | `TensorIndex` | derivatives of the forward kernels | - |
| `CudaLaunch`, `CudaShapeKernels`, `CudaElementwiseKernels`, `CudaNnKernels` | what every host function of `src/cuda` allocates and launches, and what each thread computes | `TensorIndex` | `CpuKernels` | no host function launches an empty grid |
| `KernelLaunch` | one call of a host function: host, stream and threads | `CudaNnKernels`, `CpuKernels` | `CpuKernels` | buffers outlive kernels, nothing leaks, same checks but for extents of 0, any schedule agrees |
| `Operations`, `Layers` | operations on variables, `backward_step`; compositions, layers, `Sequential` | `CpuKernels` | - | the shapes of every gradient (`Operations_proofs`) |
| `ModuleTree` | modules, their parameters and children: registration, names, moves, ownership | - | - | registration makes no cycle, nothing leaks without one, listings stay, names without dots tell entries apart |
| `OperationGraph` | a program on variables, forward and backward, while leaves are overwritten | `Operations` | dual numbers | what is saved is private, results keep their values, every gradient fits, shapes and devices alone decide what is refused (`OperationGraph_proofs`) |

Still open: `GraphLifetime` (who owns a node while `backward` runs).

## 3. The engine: `AutogradBackward`

### State

| Specification | Code |
| --- | --- |
| `nodeCount`, `kind`, `parents`, `requires_grad`, `device` | the `VariableNode`s, in order of creation; immutable after creation |
| `has_grad`, `grad` | the stored gradient of a node |
| `frame[1 .. depth]` | the calls of `Variable::backward` in progress, innermost last, with their local variables: `stack`/`visited`/`order` (`topo_visit`), `pos` (the reverse iterator), `arg` (the loop over the parents), `pending`, `committed` |
| `calls` | calls made so far; only a bound for TLC |

### Actions

`NewLeaf`, `NewOp`, `ZeroGrad` and `BackwardCall` are what user code can do. It
runs when no call is in progress or when the innermost call waits for the
callback of a custom operation (`UserInControl`), so calls nest. `VisitParent`
and `VisitDone` are `topo_visit`; `StartWalk` is the CUDA gate and the seed;
`Walk`, `Scatter` and `ScatterDone` are the reverse loop and its loop over the
parents; `WalkDone`, `Prepare` and `Commit` are the two final loops. `Throw`
ends the innermost call from any point before its results are complete, which is
where every tensor operation, the gate, the count and shape checks and the
callback itself can throw; the final loop only moves tensors.

Gradients are members of `Grad`, `tensor_add` is `Plus`, and the Jacobian
product of a node for one parent is `Pull`, a function of the node, the parent's
position and the incoming gradient: saved operands are snapshots. Nodes of the
CPU-only operations are of kind `CpuOnly`; all other built-in operations are
alike for the engine. A refused call (no gradient required, wrong shape or
device) throws before it changes anything and is a stuttering step.

`GradientLedger` is the abstract specification: a call takes effect at one
instant and adds to every stored gradient the sum over all paths from the root
(`PathSum`). `RefinesLedger` states that the engine implements it, with nested
calls taking effect one after the other: under the refinement mapping the ledger
is the stored gradients, a commit is a delivery, and everything else the engine
does is a stutter.

### Runs

| Run | Instance | Shows |
| --- | --- | --- |
| `backward_nested` | 3 nodes, operand lists with sharing and repetition, 3 calls nested up to 3 deep | `TypeOK`, `PreparedOnCurrent`, `AllOrNothing`, `RefinesLedger` |
| `backward_graphs` | graphs of 4 nodes with one operand, two distinct ones or a leaf twice, on two devices, one call, `FairSpec` | `ReadsFinalGradient`, `CoversTrainable`, `GateNeverCloses`, `EngineYields` |

Why the bounds are enough: three nodes give a repeated operand, a chain and a
shared operand, and three nested calls give a call that commits inside a call
that commits inside a third; four nodes give the diamond. Gradients are residues
modulo 101 and each edge multiplies by its own prime, so a contribution that is
lost, repeated or sent to the wrong node changes a sum. Deadlock is checked: a
state with all nodes and calls used still allows `zero_grad`. TLC also evaluates
`LinearInstance`: these gradients meet the hypothesis of the refinement theorem.

Fairness: `FairSpec` assumes weak fairness of the engine's own steps only. The
thread that called `backward` runs on, and nothing is assumed of a callback,
which may never return.

## 4. Proofs: `AutogradBackward_proofs`

For every bound, every set of gradients and every `Plus` and `Pull` that stay in
it (`BoundsAssumption`, `DeviceAssumption`, `GradAssumption`), TLAPS checks
`Invariance`, `TypeCorrect`, `ReadsFinal`, `Covers`, `PreparedIsCurrent`,
`GateStaysOpen` and `CommitIsAtomic`. `PathsAccounted` and
`EngineImplementsLedger` need `Linear` as well: addition of gradients is
commutative and associative, and a Jacobian product is additive in the gradient.
That is what differentiation promises; the operations of the code have it up to
rounding, and a custom callback has it if it computes a derivative.

The properties are not inductive. `IInv` adds what the search establishes
(`SearchInv`) and the loop keeps (`WalkInv`, `CommitInv`):

* `NodeInv`: operands are older than the operation and on its device. This is
  what makes the graph acyclic and `OpenNodes` true: nodes on the stack get
  strictly older, so no parent of the innermost one is still open.
* `Partition`, `ParentsFirst`: a visited node is on the stack or in the order,
  once, after its parents. When the stack is empty every consumer of a node is
  later in the order (`ConsumersLater`), which gives `ReadsFinalGradient`.
* `WalkInv`: the trainable parents of every node already passed hold a gradient.
  With `Reached` (every visited node but the root feeds a visited node) this
  gives `HoldsGradient` and `CoversTrainable`.
* `CommitInv`, `StackInv`: only the innermost call can be past its loop, because
  the calls below it wait in a callback. User code, the only one to change
  stored gradients, therefore never runs between the preparation of a result and
  its commit.

There is one lemma per action; steps of the engine go through `EngineFrame` and
`LoopFrame`, steps of user code through `WaitingStable` and `GrownFrame`.

The refinement (`EngineImplementsLedger`) says that the order in which the loop
visits nodes and merges their contributions does not matter: what it commits is
the sum over paths, which knows no order. `AccountsInv` is the invariant behind
it. For every call in progress and every target, add up over all nodes what each
still has to send to the target (`Load`: a pending gradient of a node not yet
passed counts with all its paths, the node being scattered with the edges that
are left, a passed node with nothing, the target with its own entry). The total
is always the sum over the paths from the root, with the seed:

* it holds when the seed is the only entry (`StartWalkAccounts`);
* a contribution only moves along an edge from one node's load to another's,
  which leaves the total alone because Jacobian products are additive
  (`ScatterAccounts`);
* when the loop ends only the target's own entry is left, so that entry is the
  path sum (`CommitDelivers`).

User code may grow the graph while a call waits in a callback; the new node is on
no path of that call (`AddNodeGrows`). `Total` and `PathSums` are recursive
functions. What they compute is proved by induction all the same: `Induction`
states it over a set of numbers rather than a predicate, and follows from the
least element a set of numbers has. `PathSumsFact` shows that `PathSums` solves
its equation, because parents are older than the nodes that use them.

Only model-checked: `EngineYields` (liveness).

## 5. The optimizer: `AdamOptimizer`

### State

| Specification | Code |
| --- | --- |
| `Param`, `OnCuda`, `Trainable` | `params_`, and the device and `requires_grad` of each variable |
| `value`, `grad` | the parameter tensors (updated in place) and their stored gradients |
| `heap`, `moments` | the storages of `first_moments_[i]` and `second_moments_[i]`; the two are always cloned, updated and replaced together and are one storage here |
| `t`, `hyper` | `t_`, and `lr_`, `beta1_`, `beta2_`, `eps_` |
| `state` | an `AdamState` the program holds, with handles into `heap` |
| `pc`, `at`, `fresh`, `clones` | where the call is, its loop index, `new_m_buf`/`new_v_buf`/`new_p_buf`, `new_m`/`new_v` of `load_state` |
| `before` | history: values and moments when `step` was called |

### Actions

`GradientArrives`, `ZeroGrad`, `TakeState` and `EditState` happen between calls:
`backward`, `zero_grad`, `state()` and the owner of a snapshot writing to it.
`StepCall`, `Compute` (phase 2a, one CPU entry), `UpdateCuda` (phase 2b, one
CUDA entry in place) and `Commit` (phase 3) are `Adam::step`; `LoadCall`,
`LoadClone` and `LoadSwap` are `load_state`. `Fail` is an exception at an
allocation or a device call; `KernelFails` is one reported after the kernel was
launched and has written. Only device calls may be declared reliable
(`DeviceFaults`). The commit allocates nothing and cannot fail.

The arithmetic is two parameters, `MomentStep` and `Moved`: how often each is
applied, to what and with which step count is what the model is about. Refused
arguments (invalid hyperparameters, a snapshot of another shape or device, a
gradient that does not match) throw before anything changes. Entries without
elements, whose update is empty, are left out.

`AdamReference` is the abstract specification: a step and a load take effect at
one instant, snapshots are values, and there are no devices. In the refinement
mapping a step in progress has had no effect yet (`before`), and the commit is
the abstract step.

### Runs

| Run | Instance | Shows |
| --- | --- | --- |
| `adam_cpu` | two CPU parameters, one step, two sets of hyperparameters | `TypeOK`, `Isolated`, `UpdatedAfterAllComputed`, `RefinesReference` |
| `adam_mixed` | a CPU and a CUDA parameter, two steps, no device error | `RefinesReference`: one trajectory |
| `adam_faults` | the same with device errors | `FailureKeepsHost` |
| `adam_cuda_order` | two CUDA parameters | finding: `UpdatedAfterAllComputed` is violated |
| `adam_tied` | one CUDA parameter listed twice | finding: `RefinesReference` is violated |

Why the bounds are enough: six storages hold the live moments, one snapshot and
one complete set of copies of two entries, so every pair of them can alias; the
count in the snapshot and the live one differ after one step; two entries give a
failure before, between and after updates. The model does not compare entries of
different indices beyond the order of the loop. Storages are symmetric, and the
view of the runs hides freed storage and the history of finished steps. Deadlock
is checked: gradients arrive and snapshots can be taken at any time.

Findings. The comment above the commit phase says that moments and parameters
are updated only after every eligible index has been computed; CUDA entries are
written one by one before that, and a device error between two of them leaves
half a step with the old step count (`adam_cuda_order`). For a parameter that is
listed twice, which is what a shared module yields, the CPU path makes one
update and the CUDA path two (`adam_tied`); `RefinesReference` holds for lists
that name no CUDA parameter twice when no device call fails (`OneTrajectory`).

### Proofs: `AdamOptimizer_proofs`

For every list, bound and arithmetic that stays in its sets (`ListAssumption`,
`ValueAssumption`, `MarkerAssumption`), TLAPS checks `TypeCorrect` and
`SnapshotsAreIsolated`. Three more theorems have a hypothesis about the list:

| Theorem | Hypothesis | Why it is needed |
| --- | --- | --- |
| `FailureIsContained` | `NoCudaTwice`: no CUDA parameter is listed twice | such an entry is updated twice by one step |
| `ComputedBeforeUpdated` | `OneOnCuda`: at most one entry is on CUDA | `adam_cuda_order` |
| `OneTrajectory` | `NoCudaTwice`, and `Reliable`: no device call fails while the list has a CUDA entry | `adam_tied`; `adam_cuda_order` |

A CPU parameter may be listed any number of times in all three: the later entry
wins, in the model and in the reference. CPU allocations may fail in all three.

* `IInv` adds to `TypeOK` and `Isolated` that `load_state` has made one copy per
  index passed and holds none outside its loop (`LoadInv`), and that a step in
  progress has room for its count (`CountInv`). Isolation needs the first: the
  copies become the live moments in one assignment.
* `StepInv` (`StepInvariance`) says where a step is: what each entry passed has
  computed follows from `before`, the values when the step was called; CPU
  entries are untouched; a CUDA entry is the result of one update once passed
  and untouched otherwise (an entry whose kernel reports an error may be
  either). It rests on `Isolated`: an update in place is read through no other
  entry. `FailureIsContained` and `ComputedBeforeUpdated` follow from it.
* `OneTrajectory` is the refinement of `AdamReference`. During a step the
  reference sees `before`, so the whole effect comes with `Commit`, where
  `StepInv` gives it entry by entry; a failed step shows nothing since, with
  `Reliable`, only CPU entries were computed. `CopyInv` does the same for
  `load_state`: the copies made so far hold what the snapshot holds, and
  `SnapshotApart` lets the program edit the snapshot without touching them.
* `LastExists`, the last of several entries of one variable, comes from the
  well-foundedness of the natural numbers.

## 6. The CUDA sum: `BlockReduce`

`cuda_tensor_sum` promises the same bits on every run. The module models the
host code (`Launch`, `Throw`), the kernel of one thread (`SumKernel` for small
tensors, `SumPartials` for the second stage) and the lanes of
`sum_fixed_tree_kernel`: `Load` sums a lane's own elements and stores them,
`Release` is `__syncthreads`, `Read` and `Write` are the two halves of
`lane_sums[lane] += lane_sums[lane + stride]`, `Skip` is a lane without work
and `Finish` the end of the kernel. `stride` is `Lanes` before the loop and is
halved at every barrier. Private arithmetic of a lane is one step; each access
to shared memory that another lane could disturb is a step of its own.

Float addition is not associative, so `Add` is an arbitrary operator. The
promised order is the constant `Tree`, which `TreeAssumption` fixes by its
equations: what a cell holds after each stride.

| Run | Instance | Shows |
| --- | --- | --- |
| `block_reduce` | blocks of 4 lanes with 2 elements each; tensors of 0, 1, 2, 3, 7, 8, 9 and 13 elements; `FairSpec` | `RaceFree`, `FixedOrder`, `EachElementOnce`, `Returns` |

The sizes give the empty tensor, the serial kernel at and below its limit, a
block that is partly filled, filled but for one element, full, and a second
block that is almost empty or partly filled; four lanes give two rounds, one
with several writers. In the run a number is the expression that computes it,
so two orders never give the same number; TLC evaluates `CountsInstance`, that
`Occurs` is a count, on the short ones. Fairness: the host thread runs on,
and a launched kernel makes progress; it is not assumed which lane runs next.
Deadlock is not checked because the call ends.

`BlockReduce_proofs` proves, for any number of lanes and elements and any
addition, `TypeCorrect`, `NoDataRace` and `SameBits`. The lanes of a block are
in the same round (`Lockstep`), because a barrier releases all of them; in a
round with stride `s` only cells below `s` are written, each by its own lane,
and every other cell keeps its value in the promised tree too. So a lane that
reads cell `l + s` gets the same number whether or not its owner has passed
(`LoopTree`).

`EveryElementOnce` proves `EachElementOnce`: the result contains every element
once and nothing else. `Occurs` counts an element in a sum; its hypotheses
(`Closed`, `Counts`) say that adding two sums adds the counts, which is so when a
sum is the expression that computes it, as in the run, and nothing is asked of
float addition. The lanes are a power of two (`HalvingAssumption`). By
arithmetic an element is in one lane of one block (`LaneOf`, `BlockOf`); a halving
of the stride moves its one occurrence to a lower lane or leaves it
(`TreeHalves`), so the least stride reached is 1 and cell 0 holds it
(`TreeCount`); and a serial sum of cells of which one holds it holds it once
(`SerialCount`, by induction).

`Returns` (liveness) is model-checked only. The reductions that use atomic
additions are part of the next section; the order of their additions, and so
their last bits, are not fixed by the code.

## 7. The kernels

### Numbers and tensors

A tensor is a shape and a function from flat, row-major offsets to elements. An
element is an exact rational with a derivative (`ExactNumbers`): a float is taken
for the number it approximates, so two ways to compute one number agree exactly
and a wrong index, sign or factor does not hide in rounding. Transcendental
functions keep the laws that the kernels use: `Exp` is `2^n` with `Exp' = Exp`,
`Ln` inverts it, `Sin` and `Cos` take quarter turns. `Infinity` exists for the
two status flags (`all_finite`) only.

`CpuKernels` is `src/cpu` and the templates of `detail/tensor_kernels.h`, one
operator per kernel. The CUDA modules define one operator per host function
of `src/cuda`: a plan that says what the call returns, the number the result is
filled with, how many `CudaMetadata` buffers it holds, and its kernels in order.
A kernel says, for every thread that does not return at once, which cell it
writes, with which value, and whether it stores, adds or ands; the index
arithmetic of the kernel (`remainder / stride % extent` and its likes) is that of
the device code, not of the CPU's.

### `KernelLaunch`

| Specification | Code |
| --- | --- |
| `call`, `plan` | the host function under way |
| `pc` | where the host is: operand checks, allocation of the result, fill, metadata and launches, readback of a flag, destructors |
| `live` | the device buffers allocated: 0 is the result, 1, 2, ... the metadata |
| `launched`, `current`, `done` | the default stream: kernels launched, the one at its head, the threads of it that have finished |
| `out`, `answer` | the elements of the result, and what the host has read back |
| `call.windows` | for a convolution or a pooling, the window along each axis: extents, stride and padding, which `spatial_extent` checks on the device (`Accepted`) and `nchw_output_extent` on the CPU (`CpuAccepted`) |

The actions of the host are `Check`, `Allocate`, `Fill`, `AllocateMetadata`,
`Launch`, `Launched`, `Readback`, `Free`, `Return`, and, by the caller, `Read` and
`Drop`; each of the CUDA calls in them may fail, which leads to the destructors
(`unwind`). `Device` runs one thread. A launch does not wait; `cudaFree` and
`cudaMemcpy` wait until the stream is empty (`Idle`), and that alone is what
keeps the metadata of a call allocated while its kernel reads it. The conditions
under which the CUDA runtime reports an error, and its waiting, are not in `src/`
and are marked external.

| Run | Instance | Shows |
| --- | --- | --- |
| `kernels` | 88 calls of the host functions on small operands, blocks of 4 threads, at most one failure | `DeviceAgrees`, `BuffersOutliveKernels`, `NothingLeaks`, `SameChecks`, `CallEnds` |

`SameChecks` says where the checks of the two backends differ: the CPU accepts a
window over an input of extent 0 that has room in the padding, as does `conv2d`
itself (`conv.cpp:58-73`), and `spatial_extent` refuses it
(`tensor_ops_nn.cu:235`). `ops.h:133-137` asks only that `H + 2*pad - kH` be a
non-negative multiple of the stride, and says that convolutions run on both
devices; this is recorded as a finding. The call `conv_hollow` of the run, an image
of height 0 with padding 1, is such a convolution. On every other window, whatever
its geometry, the two agree.

Why the bounds are enough. Operands have distinct extents (2 by 3) and distinct
elements, so that a stride of the wrong axis or shape gives another number; every
call has a case with an outer axis, with operands of different rank, with an
extent of 0 or with ties, where its code has such a case. Blocks of 4 threads
leave the last block partly filled. All orders of up to `AnyOrder` = 8 threads are
explored; in a larger kernel the next thread is the first or the last one left,
which still runs every two threads in either order. A second failure can only
meet a call that is already unwinding, where the code ignores errors.

Fairness: `WF_vars(Host)` and `WF_vars(Device)`. The thread that called the
function is not suspended for ever, and a launched kernel makes progress. It is
not assumed which thread of a kernel is next, nor that a result is ever read.

`KernelLaunch_proofs` proves the four invariants for any calls, any block size,
kernels of any number of threads in any order (no `AnyOrder`), and any number of
failures. `CallInv` says for each place of the host which buffers it holds
(`Held`), and that nothing is freed while the stream is not empty; `BuffersAreKept`
and `CallsLeakNothing` follow from it. In two results more has to be said of the
plans, which are constants of the module:

* `ChecksAreTheSame` assumes `PlannedByHost`: the plan of an accepted call is the
  one a host function of the three CUDA modules makes of some operands
  (`HostPlan`), whatever their shapes, elements and axes. Of these it asks what the
  dispatchers and the checks of `ops.cpp` have established: the gradient of a slice
  has the shape of the slice, which is not empty (`GradientOfSlice`), and the
  operands of a convolution or pooling have rank 4 and windows that
  `spatial_extent` accepts (`Positions`). Every accepted call of the run is planned
  so. The first half of the theorem is
  arithmetic on windows (`WindowsAlike`): `SpatialOK` is `ExtentOK` and an extent
  above 0. The second half goes through the host functions one by one
  (`NoHostFunctionLaunchesEmpty`): either the function returns early, or no kernel of
  its plan is without threads. That rests on `NumelFact` (a tensor has no element
  exactly when one of its extents is 0), on the early returns (`UnlessEmpty`,
  `UnlessNone`), and for `concat` on the loop that skips operands without elements
  (`WithThreadsFact`). A kernel that has threads has a grid that is not empty, since
  the division rounds up (`GridFact`).
* `AnyScheduleAgrees` assumes of each accepted call that the threads, taken in
  the order of their numbers, compute what the CPU computes, and that each kernel
  is `OrderFree`: no two threads store into one cell, and threads that clear a
  flag clear it alike. Sums must be of numbers that can be added in any order
  (`Summing`); `WholeNumbersSum` shows that whole numbers can. Every call of the
  run satisfies both, with whole numbers. This is where exact arithmetic
  matters: the `atomicAdd`s of `broadcast_backward_kernel` and
  `sum_axes_forward_kernel` on floats are not associative, and the code gives
  their last digits no order.

The argument for the order: two threads of an order-free kernel commute
(`ThreadsCommute`), so a thread that runs after a set of others gives the result
of the whole set in order, wherever its number lies (`OneMoreThread`). The result
of a set of threads in order is a recursive function, whose existence is proved
as in section 9. `CallEnds` is liveness and stays with TLC, as does the content
of the plans, which is what the 88 calls are for.

## 8. Operations and gradients

`Operations` gives for every operation what `ops.cpp`, `conv.cpp`, `norm.cpp` and
`fft.cpp` make of it: the devices (`DevicesOK`) and operands (`Accepts`) they
refuse, the result and the tensors kept for backward (`Compute`), and what
`backward_step` returns for the operands (`Backward`). `Layers` writes the
composed operations, losses, layers and `Sequential` as the sequence of
operations they apply.

`OperationGraph` runs a program of such statements. `Apply` is one operation
with its result or its refusal; `Begin` (which refuses a gradient of another shape
than the root's), `Propagate` and `Commit` are `backward`, abstracted to what `AutogradBackward` proves of it: nodes are visited in any
order that puts consumers first, and gradients are accumulated and committed.
A tensor is a handle on a buffer of `memory`, so the model tells apart what is
cloned for backward, what is a view (`reshape`) and what is only a handle
(`concat`). `Write` overwrites a leaf in place, at any moment after the forward
pass: an optimizer step or `copy_from_host` between forward and backward, or
from a callback during backward.

| Run | Instance | Shows |
| --- | --- | --- |
| `operations` | 103 programs: every operation alone, compositions, layers, and 33 that must be refused; at most one write | `GradientIsDerivative`, `GradientsFit`, `RejectsIllegal`, `SavedIsPrivate`, `RoundTrip`, `ResultsKeep` |

`GradientIsDerivative` does not compare a gradient with another formula for it.
The reference runs the forward kernels of the program on dual numbers, once for
every element of every leaf, and the gradient that backward stores has to be that
derivative, exactly, at the operands of the forward pass. This covers the CPU
kernels too, forward against backward; `kernels` extends it to the device.

`SavedIsPrivate` and the write cases of `GradientIsDerivative` go against a sentence
of the documentation, and a finding records it. The Limitations of `src/README.md`
(lines 192-193) say that "mutating aliased Tensor data between forward and backward
invalidates saved values". The code takes care that it does not: whatever backward
reads of an operand is a clone made in the forward pass (`ops.cpp:139`, `181`, `232`,
`conv.cpp:169`, `norm.cpp:122-130`, with the reason in the comment there), and
`concat`, which keeps handles, reads only their shapes. So a graph stays usable after
an optimizer step or an in-place edit: its gradients are those at the values of the
forward pass. The warning still applies to views and to code that keeps handles of
its own, such as the function given to `make_custom_variable`.

Why the bounds are enough: the operations are linear, bilinear or elementwise
in small windows, so a wrong index or factor shows on a tensor that has two or
three distinct extents; points where a function has no derivative are included
where the code picks a side (ReLU at 0, ties of a maximum, the ends of a clamp)
and agree with the side the dual numbers pick. One write suffices, since it makes
every element of a buffer wrong for good. Deadlock is checked: a program that
has ended stutters.

### Proofs: `Operations_proofs`, `OperationGraph_proofs`

The run has 103 programs; the proofs are for every program whose statements have
the operands their signatures ask for (`ProgramsAssumption`), with any tensors, any
number of statements, any number of writes, and any order of visits.

`Operations_proofs` is about one operation. `Legal` are operands that it accepts.
`BackwardFits` says that from a gradient of the result's shape, tensors of the
shapes of those saved, and the shapes of the operands, `backward_step` makes one
gradient for each operand, of that operand's shape. It goes by the kind of
operation. Most are elementwise; for matrix products, the two products of the
gradient with a factor have the shapes of the other factor (`MatMulShapes`);
`Transpose` needs that a normalised axis is one of the tensor's (`AxisFact`) and
that exchanging two axes twice is the identity (`SwappedFact`). Nothing is said of the elements, which may have been
overwritten. `Reduced`, the shape of a sum over axes, is a recursive function; that
it is a sequence is proved by a least counterexample, as in section 9.

`OperationGraph_proofs` carries this through a graph:

| Theorem | Says | Argument |
| --- | --- | --- |
| `GraphAlways` | the inductive invariant `GraphInv` | below |
| `SavedStaysPrivate` | `SavedIsPrivate` | `SavedOK` |
| `ResultsKeepValues` | `ResultsKeep` | a write is to the buffer of a leaf, whose number is that of the leaf (`BufferOK`); a result that is no view lies in a later one, and a view in that of its operand |
| `GradientsAlwaysFit` | `GradientsFit` | `PendingInv`: every pending gradient has the shape of its node; `StepFits` applies `BackwardFits` to what `GraphInv` says of the node, and `AccumulateFits` shows that additions keep shapes |
| `ShapesDecide` | `RejectsIllegal`, for programs that satisfy `LegalByShape` | `OutlineInv`, below |

`GraphInv` says of every node: that its operands are older (`Callable`); that if
gradients flow through it, it was computed by its statement from operands of the
shapes its parents have, and saved tensors of the shapes that the statement saves
(`ShapeOK`, with the operands under an existential, since a later write changes
their elements); which buffer it lies in (`BufferOK`); and that no node lies in a
buffer of its saved tensors (`SavedOK`). It is needed because `Deliver` knows only
the node: without the shapes of the operands at the time of the call, nothing
relates what was saved to what the parents expect. `ResultJoins` is the step of
`Apply`; `GraphGrows` keeps the invariant of the older nodes.

`ShapesDecide` says that the elements of a tensor never decide what is refused. The
`Outline` of a program gives the shape and the device of each variable from those of
the leaves, with no element computed; `LegalByShape` says that the programs called
legal are those whose outline passes the checks of every statement. TLC evaluates it
on the 103 programs of the run (`LegalInstance`), which declare one by one, by hand,
whether they are legal. Under that hypothesis a program is refused when it is illegal
and only then, including by the comparison of the given gradient with the root's
shape. The invariant `OutlineInv` says that the nodes so far have the shapes and
devices of the outline and that the statements so far pass; it needs that the checks
and the shape of a result depend on the shapes of the operands only
(`AcceptsOfShapes`, `ResultShapeFact`, one case per kind of operation). `RunAlike`
says the same of `Run`, from which the shape of the given gradient is taken. `Outline`
and `Run` are functions that follow the statements; that such a function exists is
`FollowsExists`, by a least counterexample.

Only model-checked: `GradientIsDerivative` and `RoundTrip`, which are about the
elements and would need induction over the data of each kernel.

## 9. Tensors and storage: `TensorStorage`

| Specification | Code |
| --- | --- |
| `tensor` | a `Tensor` variable: none, or a shape and a `Storage` (`impl_`) |
| `storage`, `owners` | the `Storage` objects (`detail/tensor_storage.h`) and the handles their `shared_ptr` counts; `"local"` is the one held by a function under way |
| `memory`, `lost` | allocated device buffers; those whose `cudaFree` was never reached |
| `views` | `CudaView`s: a raw pointer, and the storage it was taken from |
| `pc`, `call`, `local` | the function under way, its arguments and its storage |
| `params`, `at`, `before` | `SGD::step`: the eligible parameters, the loop index, and the contents when it began |

A factory, `from_host`, `to` across devices and `clone` are `Begin`, `NewStorage`,
`Allocate`, `Copy`, `Wrap`, with an exception possible at each (`Fault`, and the
refused null pointer of `from_host` in `Copy`). `Alias` is a copy, a transfer to
the same device or a reshape; `Move` and `Drop` are moves and destruction;
`Release` is `~Storage`, which runs before anything else once the last handle is
gone and frees the buffer, unless `cudaSetDevice` fails. `CopyFromHost`,
`WriteView` and `StepOne` write in place. Arguments that are refused before
anything is created do not begin a call. The order of a cross-device copy is
abstracted to its result; the contents of a tensor are one value.

`TensorAliases` is the abstract specification: tensors show boxes, some calls
share a box and the others make one, a write is seen through every tensor that
shows the box and through no other, and a call that throws is not seen at all.
`RefinesAliases` asks more than a refinement: each kind of step must be the
abstract action of its name, so that a `clone` that shares is not excused as a
copy. The comment of `optim.h:20-35` on parameters that share storage is an
instance of it.

| Run | Instance | Shows |
| --- | --- | --- |
| `storage` | two variables, the CPU and two CUDA devices, three shapes (two of the same count, one empty), four calls, one failure | `TypeOK`, `NothingDangles`, `NothingLeaks`, `ViewsHold`, `StepIsPrefix`, `CallsKeepTensors`, `RefinesAliases` |

Why the bounds are enough: two variables and the local reference are three
references, which need three storages and, with one lost, four buffers, so
neither ever runs out; four calls allow a storage to be made, shared, released
and reused, or written while a view of it is out. Variables and devices are
symmetric, and nothing in the properties tells them apart.

`TensorStorage_proofs` proves all of them, for any variables,
shapes, devices, values, and any number of calls and failures. The properties are
not inductive: that no storage leaks needs the count of references to be exact at
every step, and that a copy is private needs every buffer to have one owner. The
invariant `IInv` is

* `Counted`: `owners` of a storage are the variables that hold it, and `"local"`
  if the function under way does;
* `Alive`: a storage with a reference exists, and one without exists only until
  `Release`;
* `UnderWay`: the storage of the function under way has no other reference, has
  the device and, from `Copy` on, the count that were asked for, has no buffer
  before `Allocate`, and no view;
* `Sized`: the count of a storage is that of the shape of each of its tensors;
* `Placed`: each buffer in use is that of exactly one storage, on its device, and
  none of those lost;
* `Viewed`, `Stepping`: views and the parameters of a step are of storages that
  exist.

`MakingKeeps` derives from it that a step of a factory, `to` or `clone` touches no
storage but the new one; `CallsKeep` and the theorem `Refinement` rest on it.
`Refinement` also needs `Full`: before `Wrap`, the new storage holds what was
asked for, which for `to` and `clone` is what the source still holds. `Shown` and
`Boxed` are the refinement mapping; each kind of step has a lemma (`AliasRefined`,
`WriteRefined`, `WrapRefined`, ...) that it is the abstract action of its name.
The assumptions are those at the head of the module: counts are natural numbers,
"cpu" is no CUDA device, a step maps values to values.

`StepIsAPrefix` is inductive with `IInv`, which gives that a write is seen in one
storage only (`WrittenFact`). The updates of a storage that several parameters
share are counted with a cardinality (`UpdatesFact`) and applied with a recursive
function; that the function exists and obeys its equation (`UpdatedNext`) is
proved from the well-foundedness of the natural numbers, by a least
counterexample, since no installed prover can instantiate the library's induction
theorems.

## 10. The tree of modules: `ModuleTree`

| Specification | Code |
| --- | --- |
| `exists`, `held` | the modules not destroyed; those the program has a `shared_ptr` to |
| `parameters`, `children` | `Module::parameters_` and `children_`, in order of registration |
| `has_grad` | `has_grad` of the registered variables |

`Create` makes a module, `Drop` lets go of a handle, `RegisterParameter`,
`Register` and `Add` are `register_parameter`, `register_module` and
`Sequential::add` with every check that makes them throw; `MoveConstruct` and
`MoveAssign` are the defaulted moves; `ZeroGrad` is `zero_grad` and `Backward` gives
a variable a gradient. `Settle` runs the destructors: `Kept` is what is left when
every module without a reference has let go of its children, so a cycle stays.
A name is the sequence of its parts between dots, which makes joining with a
dot concatenation. `NamedParameters` follows `collect_named`: `Listing` gives what
the recursion has listed down to each depth, as a function of the entries, and
without a cycle the number of modules is depth enough. A call is made by
a program that holds a handle of the module, and moves are between modules of
one class (a move through a `Module&` between two classes would also leave the
layer's own `weight_` behind; that is not modelled).

| Run | Instance | Shows |
| --- | --- | --- |
| `modules` | a Sequential and two modules of the program, four entries, the names `p`, `q`, `p.q` and the empty one, a trainable variable and one that is not | `LeaksOnlyInCycles`, `NamesTellApart`, `OnlyMovesMakeCycles`, `ListingGrows` |

What it shows. The check of `register_module` looks at the child only, and that
is enough: what is below the child is closed, so the new edge leads into it from
outside. A move is not checked: moving a module into one that is below it makes
a cycle, from which every traversal overflows the stack (no step in the model)
and which is never freed. Names are compared within one module only and may
contain dots, so `p.q` of the root and `q` of its child `p` get one name;
without dots names are distinct. Registration never renames or reorders what
was listed, although a parameter registered after a child comes before the
child's. `zero_grad` does not use `collect_named`, as the comment in `module.h:85`
says, but a recursion of its own.

Why the bounds are enough: three modules give a child shared by two paths, a
cycle of length three that a search of the direct children misses, and a
Sequential with two children; four entries give the collision of a dotted name
with every entry still in place. Deadlock is checked; no fairness is assumed,
since the program may stop calling.

`ModuleTree_proofs` proves, for any finite set of modules, any variables, names
and number of entries, the four properties of the run and `Invariance`.

* `CheckIsEnough` (`OnlyMovesMakeCycles`) and `SharedOwnershipIsSound`
  (`LeaksOnlyInCycles`). `NoCycle` says that every set of modules has a member
  that is no child of another member, which holds or fails without a path being
  named, so no induction is needed: `AppendMakesNoCycle` and `MoveMakesNoCycle`
  split a set into the part below the child (or the source) and the rest. The
  invariant `IInv` is that children exist and that what exists is referred to
  (`KeptIsReferred`); in a leak without a cycle, the topmost lost module would
  have a lost parent.
* `CheckpointsStay` (`ListingGrows`). `NameInv` types the entries. A step that
  moves nothing leaves each surviving module's entries at the head of its new
  ones, and its children survive with it (`GrowsNext`). `KeptIn` is kept by
  concatenation, by a prefix before every name and by flattening, so it climbs
  from one depth of `Listing` to the next (`ListingKept`, by induction on the
  depth).
* `NamesAreEnough` (`NamesTellApart`). `NameInv` also says that the names of one
  module are not empty and distinct, which is what the checks of registration
  are for. When they have one part each, a child's listing is under a longer name
  than any of the module's own entries (`LevelTold`) and the listings of two
  children differ in their first part (`FlattenTold`, by induction on the
  children); `ListingTold` is the induction on the depth. The theorem does not
  use that the recursion ends: names are told apart at every depth.

The assumptions are `ModuleAssumption`: there are finitely many modules,
`Sequentials` and `Trainable` are among the modules and the variables, and a name
is a sequence. `std::to_string` (`Numeral`) need not be injective, since `add` goes
through the check for equal names.

## 11. Not modelled

* Floating point: rounding, NaN, infinities beyond the two status flags, and the
  widths of integers. Read side by side, the kernels differ outside what the
  model's numbers can express: ReLU backward with an infinite gradient at an
  inactive element gives 0 on the CPU and NaN on CUDA
  (`tensor_ops_elementwise.cu:91` multiplies); max pooling skips a NaN on the
  CPU and can return it on CUDA; `H + 2 * pad` is computed in `int`
  (`conv.cpp:58`).
* Ownership of graph nodes during `backward`, and the recursion depth of
  `topo_visit` and of node destruction.
* Copies of an `Adam` object; moves of a module through a base reference.
* Random initialisers, `randn` and `sinusoidal_time_embedding`: values only.
* Overflow checks of element counts and the consistency checks of the
  dispatchers, which no operand of an instance makes fail.
* `cuda_runtime_free` returns before `cudaFree` when `cudaSetDevice` fails
  (`tensor_storage_runtime.cu:64`); the buffer is then lost. The model has this
  (`lost`), and `NothingLeaks` says that nothing else is.
* The padding that a convolution keeps for backward is a float
  (`conv.cpp:173`) and an integer in the model; the conversion is exact below 2^24.
* Threads of user code: the library has no locks and documents no thread safety.
* Build files, examples, benchmarks, the Eigen extension and the test programs.
