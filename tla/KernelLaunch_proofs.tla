------------------------ MODULE KernelLaunch_proofs ------------------------
(***************************************************************************)
(* Proofs about KernelLaunch for every set of calls, every block size and  *)
(* every number of failures: buffers, checks, and the order of threads.    *)
(***************************************************************************)
EXTENDS KernelLaunch, CudaShapeKernels, CudaElementwiseKernels, TLAPS, WellFoundedInduction

-----------------------------------------------------------------------------
(* Control: what each place in the call says of the buffers and the        *)
(* stream.                                                                 *)

Places ==
  {"check", "rejected", "allocate", "fill", "launch", "readback", "release", "unwind",
   "returned", "thrown", "dropped"}

Control ==
  /\ \E c \in DOMAIN Calls : call = Calls[c]
  /\ pc \in Places
  /\ pc \in {"allocate", "fill", "launch", "readback", "release", "unwind"} =>
       Accepted(call) /\ plan.buffer # "none"
  /\ pc = "readback" => plan.buffer = "guarded"

Stream ==
  /\ launched \in 0 .. Len(plan.kernels) /\ current \in 1 .. launched + 1
  /\ pc \in {"check", "rejected", "allocate", "fill"} => launched = 0

(* The buffers held.  Nothing is freed while a kernel is queued.           *)
Held ==
  /\ live \subseteq 0 .. plan.metadata
  /\ ~Idle => 0 .. plan.metadata \subseteq live
  /\ pc \in {"check", "rejected", "allocate", "thrown", "dropped"} => live = {}
  /\ pc \in {"fill", "launch", "readback"} => 0 \in live
  /\ pc = "release" /\ plan.buffer = "result" => 0 \in live
  /\ pc = "returned" => live \subseteq {0}

CallInv == Control /\ Stream /\ Held

LEMMA PlanFact ==
  ASSUME Control
  PROVE  /\ plan.metadata \in Nat /\ Len(plan.kernels) \in Nat
         /\ plan.buffer \in {"none", "guarded", "result"}
         /\ \A j \in 1 .. Len(plan.kernels) : plan.kernels[j].n \in Nat
  BY CallsAssumption DEF Control, plan

(* The last of some buffers.                                               *)
LEMMA LastOfFact ==
  ASSUME NEW m \in Nat, NEW S \in SUBSET (0 .. m), S # {}
  PROVE  LastOf(S) \in S /\ \A j \in S : j <= LastOf(S)
<1> DEFINE T == {d \in Nat : m - d \in S}
           R == OpToRel(<, Nat)
<1>1. T \subseteq Nat /\ T # {}
  <2>1. PICK i \in S : TRUE
    OBVIOUS
  <2>2. m - i \in Nat /\ m - (m - i) = i
    BY <2>1
  <2>3. m - i \in T
    BY <2>1, <2>2, Zenon
  <2>. QED
    BY <2>3
<1>2. IsWellFoundedOn(R, Nat)
  BY NatLessThanWellFounded
<1>3. PICK d \in T : \A e \in T : ~ (<<e, d>> \in R)
  <2>. HIDE DEF T, R
  <2>. QED
    BY <1>1, <1>2, WFMin
<1>4. \A e \in T : ~ (e < d)
  BY <1>3 DEF OpToRel
<1>5. ASSUME NEW j \in S PROVE j <= m - d
  <2>1. m - j \in Nat /\ m - (m - j) = j
    OBVIOUS
  <2>2. m - j \in T
    BY <2>1, Zenon
  <2>3. ~ (m - j < d)
    BY <2>2, <1>4
  <2>. HIDE DEF T, R
  <2>. QED
    BY <2>3, <1>3, <1>1
<1>6. m - d \in S
  BY <1>3
<1>7. \E k \in S : \A j \in S : j <= k
  BY <1>5, <1>6
<1>. QED
  BY <1>7 DEF LastOf

(* Steps of the host that allocate, free and launch nothing new.           *)
LEMMA Moved ==
  ASSUME CallInv, UNCHANGED <<call, launched, current>>, Control',
         pc' \in {"check", "rejected", "allocate", "fill"} => launched = 0
  PROVE  Stream' /\ (Idle' <=> Idle) /\ plan' = plan
  BY DEF CallInv, Stream, Idle, plan

LEMMA HostInv == ASSUME CallInv, Host PROVE CallInv'
<1>. USE DEF CallInv
<1>1. /\ plan.metadata \in Nat /\ Len(plan.kernels) \in Nat
      /\ plan.buffer \in {"none", "guarded", "result"}
  BY PlanFact
<1>2. CASE Check
  BY <1>1, <1>2 DEF Check, Control, Stream, Held, Places, Idle, plan
<1>3. CASE Allocate
  <2>1. /\ pc = "allocate" /\ UNCHANGED <<call, launched, current>>
        /\ \/ pc' \in {"launch", "fill"} /\ live' = {0}
           \/ pc' = "thrown" /\ live' = live
    BY <1>3 DEF Allocate, Fail
  <2>2. Control'
    BY <2>1 DEF Control, Places, plan
  <2>3. launched = 0 /\ Idle
    BY <2>1 DEF Stream, Idle
  <2>4. 0 \in 0 .. plan.metadata
    BY <1>1
  <2>5. Stream' /\ Idle' /\ plan' = plan
    BY <2>1, <2>2, <2>3, Moved
  <2>. QED
    BY <2>1, <2>2, <2>4, <2>5 DEF Held
<1>4. CASE Fill
  BY <1>1, <1>4 DEF Fill, Fail, Control, Stream, Held, Places, Idle, plan
<1>5. CASE AllocateMetadata
  <2>1. /\ pc = "launch" /\ UNCHANGED <<call, launched, current>>
        /\ pc' \in {"launch", "unwind"}
        /\ live \subseteq live' /\ live' \subseteq live \cup 1 .. plan.metadata
    BY <1>5 DEF AllocateMetadata, Fail
  <2>2. Control'
    BY <2>1 DEF Control, Places, plan
  <2>3. Stream' /\ (Idle' <=> Idle) /\ plan' = plan
    BY <2>1, <2>2, Moved
  <2>. QED
    BY <1>1, <2>1, <2>2, <2>3 DEF Held
<1>6. CASE Launch
  <2>1. /\ pc = "launch" /\ UNCHANGED <<call, live, current>> /\ pc' \in {"launch", "unwind"}
        /\ launched < Len(plan.kernels) /\ launched' \in {launched, launched + 1}
        /\ 1 .. plan.metadata \subseteq live
    BY <1>6 DEF Launch, Fail
  <2>2. 0 .. plan.metadata \subseteq live
    BY <1>1, <2>1 DEF Held
  <2>3. Control' /\ plan' = plan
    BY <2>1 DEF Control, Places, plan
  <2>4. PICK k \in Nat : k = Len(plan.kernels)
    BY <1>1
  <2>5. launched' \in 0 .. k /\ current' \in 1 .. launched' + 1
    <3>1. launched \in 0 .. k /\ launched < k /\ current \in 1 .. launched + 1
      BY <2>1, <2>4 DEF Stream
    <3>2. current' = current /\ (launched' = launched \/ launched' = launched + 1)
      BY <2>1
    <3>3. CASE launched' = launched
      BY <3>1, <3>2, <3>3
    <3>4. CASE launched' = launched + 1
      BY <3>1, <3>2, <3>4
    <3>. QED
      BY <3>2, <3>3, <3>4
  <2>6. Stream'
    BY <2>1, <2>3, <2>4, <2>5 DEF Stream
  <2>. QED
    BY <2>1, <2>2, <2>3, <2>6 DEF Held
<1>7. CASE Launched
  BY <1>1, <1>7 DEF Launched, Control, Stream, Held, Places, Idle, plan
<1>8. CASE Readback
  BY <1>1, <1>8 DEF Readback, Fail, Control, Stream, Held, Places, Idle, plan
<1>9. CASE Free
  <2>1. pc = "release" /\ plan.buffer = "result" => 0 \in live'
    <3>. SUFFICES ASSUME pc = "release", plan.buffer = "result" PROVE 0 \in live'
      OBVIOUS
    <3>1. 0 \in live /\ live # {0}
      BY <1>9 DEF Free, Kept, Held
    <3>2. \A j \in live : j <= LastOf(live)
      BY <1>1, <3>1, LastOfFact DEF Held
    <3>3. PICK j \in live : j # 0
      BY <3>1
    <3>4. j \in Nat /\ j <= LastOf(live)
      BY <1>1, <3>2, <3>3 DEF Held
    <3>. QED
      BY <1>9, <3>1, <3>3, <3>4 DEF Free
  <2>2. live' \subseteq live /\ Idle
    BY <1>9 DEF Free
  <2>. QED
    BY <1>1, <1>9, <2>1, <2>2 DEF Free, Control, Stream, Held, Places, Idle, plan
<1>10. CASE Return
  BY <1>1, <1>10 DEF Return, Kept, Control, Stream, Held, Places, Idle, plan
<1>11. CASE Drop
  BY <1>1, <1>11 DEF Drop, Control, Stream, Held, Places, Idle, plan
<1>. QED
  BY <1>2, <1>3, <1>4, <1>5, <1>6, <1>7, <1>8, <1>9, <1>10, <1>11 DEF Host

LEMMA DeviceInv == ASSUME CallInv, Device PROVE CallInv'
<1>. USE DEF CallInv
<1>1. /\ ~Idle /\ current' \in {current, current + 1}
      /\ UNCHANGED <<call, pc, live, launched>>
  BY DEF Device, RunThread, Finish
<1>2. Len(plan.kernels) \in Nat
  BY PlanFact
<1>. QED
  BY <1>1, <1>2 DEF Control, Stream, Held, Idle, plan

THEOREM CallInvariance == Spec => []CallInv
<1>1. Init => CallInv
  BY CallsAssumption DEF Init, CallInv, Control, Stream, Held, Places, Idle, plan
<1>2. CallInv /\ [Next]_vars => CallInv'
  <2>. SUFFICES ASSUME CallInv, [Next]_vars PROVE CallInv'
    OBVIOUS
  <2>1. CASE Read \/ UNCHANGED vars
    BY <2>1 DEF Read, vars, CallInv, Control, Stream, Held, Idle, plan
  <2>. QED
    BY <2>1, HostInv, DeviceInv DEF Next, Stop
<1>. QED
  BY <1>1, <1>2, PTL DEF Spec

(* No buffer that a kernel uses is freed under it, though the host does    *)
(* not wait for the kernels it launches.                                   *)
THEOREM BuffersAreKept == Spec => []BuffersOutliveKernels
<1>1. CallInv => BuffersOutliveKernels
  BY DEF CallInv, Held, BuffersOutliveKernels
<1>. QED
  BY <1>1, CallInvariance, PTL

(* Whatever fails, a call that ended holds nothing but a result in use.    *)
THEOREM CallsLeakNothing == Spec => []NothingLeaks
<1>1. CallInv => NothingLeaks
  BY DEF CallInv, Held, NothingLeaks, Ended
<1>. QED
  BY <1>1, CallInvariance, PTL

-----------------------------------------------------------------------------
(* The checks of the operands, and the sizes of grids.                     *)

LEMMA GridFact ==
  ASSUME NEW n \in Nat
  PROVE  /\ Blocks(n) \in Nat /\ n <= Blocks(n) * BlockDim
         /\ n > 0 => Blocks(n) > 0
<1>1. PICK b \in Nat \ {0} : b = BlockDim
  BY BlockDimAssumption
<1>2. PICK q \in Int : q = (n + b - 1) \div b
  BY <1>1
<1>3. b * q <= n + b - 1 /\ n + b - 1 < b * q + b
  BY <1>1, <1>2
<1>4. q >= 0
  BY <1>1, <1>3
<1>5. b * q = q * b /\ q * b \in Int
  BY <1>1, <1>2
<1>6. n <= q * b
  BY <1>3, <1>5
<1>7. n > 0 => q > 0
  BY <1>1, <1>4, <1>6
<1>. QED
  BY <1>1, <1>2, <1>4, <1>6, <1>7 DEF Blocks

(* The least number with a property has it, and no smaller one has.        *)
LEMMA LeastExists ==
  ASSUME NEW T \in SUBSET Nat, T # {}
  PROVE  \E n \in T : \A m \in T : ~ (m < n)
<1> DEFINE R == OpToRel(<, Nat)
<1>1. IsWellFoundedOn(R, Nat)
  BY NatLessThanWellFounded
<1>2. PICK n \in T : \A m \in T : ~ (<<m, n>> \in R)
  <2>. HIDE DEF R
  <2>. QED
    BY <1>1, WFMin
<1>. QED
  BY <1>2 DEF OpToRel

(* A window over at least one element is accepted by both backends or by   *)
(* neither, whatever its kernel, stride and padding; one over none is      *)
(* refused by the device.                                                  *)
LEMMA WindowsAlike ==
  ASSUME NEW input \in Nat, NEW kernel \in Nat \ {0}, NEW f, f.stride \in Nat \ {0}, f.pad \in Nat
  PROVE  SpatialOK(input, kernel, f) <=> Cpu!ExtentOK(input, kernel, f) /\ input # 0
<1>1. PICK stride \in Nat \ {0}, pad \in Nat : f.stride = stride /\ f.pad = pad
  OBVIOUS
<1>. QED
  BY <1>1 DEF SpatialOK, Cpu!ExtentOK, Cpu!Span

LEMMA CallsAlike ==
  ASSUME Control
  PROVE  Accepted(call) <=> CpuAccepted(call) /\ \A w \in call.windows : w.input # 0
<1>1. PICK c \in DOMAIN Calls : call = Calls[c]
  BY DEF Control
<1>2. ASSUME NEW w \in call.windows
      PROVE  SpatialOK(w.input, w.kernel, w) <=>
               Cpu!ExtentOK(w.input, w.kernel, w) /\ w.input # 0
  <2>1. /\ w.input \in Nat /\ w.kernel \in Nat \ {0}
        /\ w.stride \in Nat \ {0} /\ w.pad \in Nat
    BY <1>1, CallsAssumption
  <2>. QED
    BY <2>1, WindowsAlike
<1>. QED
  BY <1>2 DEF Accepted, CpuAccepted

-----------------------------------------------------------------------------
(* The host functions of src/src/cuda, on any operands.                    *)

NoEmptyKernel(p) == \A j \in 1 .. Len(p.kernels) : p.kernels[j].n # 0

Extents(sh) == Len(sh) \in Nat /\ \A d \in 1 .. Len(sh) : sh[d] \in Nat
Geometry(f) == f.kH \in Int /\ f.kW \in Int /\ f.stride \in Int /\ f.pad \in Int
Positions(x, f) ==
  /\ Extents(x.shape) /\ Len(x.shape) = 4 /\ Geometry(f)
  /\ SpatialOK(x.shape[3], f.kH, f) /\ SpatialOK(x.shape[4], f.kW, f)

(* The plans of each file.  A gradient has the shape of the result it      *)
(* belongs to, which the dispatchers check; a slice is not empty.          *)
GradientOfSlice(p) ==
  \E g, sh, ax, start, len :
    /\ Extents(sh) /\ ax \in 1 .. Len(sh) /\ len \in Nat \ {0}
    /\ g.shape = [sh EXCEPT ![ax] = len] /\ p = CudaSliceBackward(g, sh, ax, start, len)
Concatenation(p) == \E xs, ax : IsSequence(xs) /\ p = CudaConcat(xs, ax)

ShapePlan(p) ==
  \/ GradientOfSlice(p) \/ Concatenation(p)
  \/ \E x : p = CudaSum(x)
  \/ \E x, sh : p = CudaBroadcastScalar(x, sh)
  \/ \E x, ax, start, len : p = CudaSlice(x, ax, start, len)
  \/ \E g, shapes, ax, k : p = CudaConcatBackward(g, shapes, ax, k)
  \/ \E x, ax : p = CudaFlip(x, ax)
  \/ \E a, b, sh : p = CudaBroadcastAdd(a, b, sh)
  \/ \E g, sh : p = CudaBroadcastAddBackward(g, sh)
  \/ \E x, axes, keep : p = CudaSumAxes(x, axes, keep)
  \/ \E g, sh, axes, keep : p = CudaSumAxesBackward(g, sh, axes, keep)
  \/ \E a, b : p = CudaMatMul(a, b)
  \/ \E g, b : p = CudaMatMulBackwardA(g, b)
  \/ \E a, g : p = CudaMatMulBackwardB(a, g)

ElementwisePlan(p) ==
  \/ \E a, op : p = CudaUnary(a, op)
  \/ \E g, a, op : p = CudaUnaryBackward(g, a, op)
  \/ \E a, b, op : p = CudaBinary(a, b, op)
  \/ \E sh : p = CudaOnes(sh)
  \/ \E a, x : p = CudaScale(a, x)
  \/ \E c, a, b : p = CudaWhere(c, a, b)
  \/ \E a : p \in {CudaSilu(a), CudaSoftplus(a), CudaSubBackwardB(a)}
  \/ \E g, a, b : p = CudaSiluBackward(g, a, b)
  \/ \E a, b : p \in {CudaSoftplusBackward(a, b), CudaDivBackwardA(a, b)}
  \/ \E g, a, b : p = CudaDivBackwardB(g, a, b)
  \/ \E a : p \in {CudaAllTrue(a), CudaAllFinite(a)}
  \/ \E a, ax : p \in {CudaSoftmax(a, ax), CudaLogSoftmax(a, ax)}
  \/ \E g, a, ax : p \in {CudaSoftmaxBackward(g, a, ax), CudaLogSoftmaxBackward(g, a, ax)}
  \/ \E a, b, inverse, scaled : p = CudaDFT2(a, b, inverse, scaled)

NnPlan(p) ==
  \/ \E x, weight, bias, f :
       Positions(x, f) /\ Extents(weight.shape) /\ Len(weight.shape) = 4
         /\ p = CudaConv2d(x, weight, bias, f)
  \/ \E g, weight, sh, f : p = CudaConvBackwardInput(g, weight, sh, f)
  \/ \E g, col, sh : p = CudaConvBackwardWeight(g, col, sh)
  \/ \E g : Extents(g.shape) /\ Len(g.shape) = 4 /\ p = CudaConvBackwardBias(g)
  \/ \E x, f : Positions(x, f) /\ p = CudaMaxPool(x, f)
  \/ \E g, mask, sh, f : p = CudaMaxPoolBackward(g, mask, sh, f)

HostPlan(p) == ShapePlan(p) \/ ElementwisePlan(p) \/ NnPlan(p)

(* How many elements a shape has.                                          *)
Counting(f, sh, n) == f = [d \in 0 .. n |-> IF d = 0 THEN 1 ELSE f[d - 1] * sh[d]]

LEMMA CountingExists ==
  ASSUME NEW sh, NEW N \in Nat PROVE \E f : Counting(f, sh, N)
<1> DEFINE T == {n \in Nat : ~ \E f : Counting(f, sh, n)}
<1>1. SUFFICES ASSUME T # {} PROVE FALSE
  OBVIOUS
<1>2. PICK n \in T : \A m \in T : ~ (m < n)
  <2>1. T \in SUBSET Nat
    OBVIOUS
  <2>. HIDE DEF T
  <2>. QED
    BY <1>1, <2>1, LeastExists
<1>3. n # 0
  <2>1. Counting([d \in 0 .. 0 |-> 1], sh, 0)
    BY DEF Counting
  <2>. QED
    BY <1>2, <2>1
<1>4. n - 1 \in Nat /\ n - 1 < n
  BY <1>2, <1>3
<1>5. PICK f : Counting(f, sh, n - 1)
  BY <1>2, <1>4
<1>6. PICK g : g = [d \in 0 .. n |-> IF d = n THEN f[n - 1] * sh[n] ELSE f[d]]
  OBVIOUS
<1>7. ASSUME NEW d \in 0 .. n
      PROVE  g[d] = IF d = 0 THEN 1 ELSE g[d - 1] * sh[d]
  <2>1. n \in Nat /\ \A e \in 0 .. n - 1 : f[e] = IF e = 0 THEN 1 ELSE f[e - 1] * sh[e]
    BY <1>2, <1>5 DEF Counting
  <2>. QED
    BY <1>3, <1>6, <2>1
<1>8. Counting(g, sh, n)
  BY <1>6, <1>7 DEF Counting
<1>. QED
  BY <1>2, <1>8

(* A tensor has no element when an extent is 0, and only then.             *)
LEMMA NumelFact ==
  ASSUME NEW sh, Extents(sh)
  PROVE  Numel(sh) # 0 <=> \A d \in 1 .. Len(sh) : sh[d] # 0
<1>1. PICK n \in Nat : n = Len(sh)
  BY DEF Extents
<1>2. PICK f : Counting(f, sh, n) /\ Numel(sh) = f[n]
  <2>1. \E f : Counting(f, sh, n)
    BY CountingExists
  <2>2. Numel(sh) = (CHOOSE f : Counting(f, sh, n))[n]
    BY <1>1 DEF Numel, Counting
  <2>. QED
    BY <2>1, <2>2
<1>3. ASSUME NEW d \in 1 .. n PROVE d - 1 \in 0 .. n /\ f[d] = f[d - 1] * sh[d] /\ sh[d] \in Nat
  BY <1>1, <1>2, <1>3 DEF Counting, Extents
<1>4. f[0] = 1
  BY <1>2 DEF Counting
<1> DEFINE Counted(k) == f[k] \in Nat /\ (f[k] # 0 <=> \A d \in 1 .. k : sh[d] # 0)
           T == {k \in 0 .. n : ~ Counted(k)}
<1>5. T = {}
  <2>1. SUFFICES ASSUME T # {} PROVE FALSE
    OBVIOUS
  <2>2. PICK k \in T : \A m \in T : ~ (m < k)
    <3>1. T \in SUBSET Nat
      OBVIOUS
    <3>. HIDE DEF T
    <3>. QED
      BY <2>1, <3>1, LeastExists
  <2>3. k # 0
    BY <1>4, <2>2
  <2>4. Counted(k - 1) /\ k \in 1 .. n
    BY <2>2, <2>3
  <2>5. PICK a, b \in Nat : a = f[k - 1] /\ b = sh[k] /\ f[k] = a * b
    BY <1>3, <2>4
  <2>6. a * b \in Nat /\ (a * b # 0 <=> a # 0 /\ b # 0)
    OBVIOUS
  <2>7. (\A d \in 1 .. k : sh[d] # 0) <=> (\A d \in 1 .. k - 1 : sh[d] # 0) /\ sh[k] # 0
    BY <2>4
  <2>8. Counted(k)
    BY <2>4, <2>5, <2>6, <2>7
  <2>. QED
    BY <2>2, <2>8
<1>6. Counted(n)
  BY <1>5
<1>. QED
  BY <1>1, <1>2, <1>6

LEMMA FourExtents ==
  ASSUME NEW a \in Nat, NEW b \in Nat, NEW c \in Nat, NEW d \in Nat, Numel(<<a, b, c, d>>) # 0
  PROVE  a * b * c * d # 0
<1>1. PICK sh : sh = <<a, b, c, d>>
  OBVIOUS
<1>2. Extents(sh) /\ Len(sh) = 4
  BY <1>1 DEF Extents
<1>3. sh[1] # 0 /\ sh[2] # 0 /\ sh[3] # 0 /\ sh[4] # 0
  BY <1>1, <1>2, NumelFact
<1>4. a # 0 /\ b # 0 /\ c # 0 /\ d # 0
  BY <1>1, <1>3
<1>5. PICK ab \in Nat : ab = a * b /\ ab # 0
  BY <1>4
<1>6. PICK abc \in Nat : abc = ab * c /\ abc # 0
  BY <1>4, <1>5
<1>7. abc * d # 0
  BY <1>4, <1>6
<1>. QED
  BY <1>5, <1>6, <1>7

LEMMA SpatialFact ==
  ASSUME NEW input \in Nat, NEW kernel \in Int, NEW f, f.stride \in Int, f.pad \in Int,
         SpatialOK(input, kernel, f)
  PROVE  Spatial(input, kernel, f) \in Nat
<1>1. PICK stride \in Int, pad \in Int : f.stride = stride /\ f.pad = pad
  OBVIOUS
<1>2. PICK span \in Nat : span = input + 2 * pad - kernel
  BY <1>1 DEF SpatialOK
<1>3. stride > 0
  BY <1>1 DEF SpatialOK
<1>4. span \div stride \in Nat
  BY <1>2, <1>3
<1>. QED
  BY <1>1, <1>2, <1>4 DEF Spatial

(* The copies of a concatenation that have threads.                        *)
Grown(f, copies, k) == IF copies[k].n = 0 THEN f[k - 1] ELSE Append(f[k - 1], copies[k])

Skipping(f, copies, n) == f = [k \in 0 .. n |-> IF k = 0 THEN <<>> ELSE Grown(f, copies, k)]

Threaded(kernels) ==
  IsSequence(kernels) /\ \A j \in 1 .. Len(kernels) : kernels[j].n # 0

(* The result of an Append, and what IsSequence asks of a sequence.        *)
Appended(q, e, longer) ==
  /\ Len(longer) = Len(q) + 1 /\ longer[Len(q) + 1] = e
  /\ \A j \in 1 .. Len(q) : longer[j] = q[j]

LEMMA AppendFact ==
  \A S : \A q \in Seq(S) : \A e \in S : Append(q, e) \in Seq(S) /\ Appended(q, e, Append(q, e))
BY DEF Appended

LEMMA SequenceFact == ASSUME NEW S, NEW q \in Seq(S) PROVE IsSequence(q)
BY DEF IsSequence

LEMMA ThreadedAppend ==
  ASSUME NEW kernels, Threaded(kernels), NEW kernel, kernel.n # 0
  PROVE  Threaded(Append(kernels, kernel))
<1>1. PICK S : kernels \in Seq(S) /\ kernel \in S
  <2>1. PICK S : S = {kernels[j] : j \in 1 .. Len(kernels)} \cup {kernel}
    OBVIOUS
  <2>. QED
    BY <2>1 DEF Threaded, IsSequence
<1>2. PICK longer : longer = Append(kernels, kernel)
  OBVIOUS
<1>3. longer \in Seq(S) /\ Appended(kernels, kernel, longer)
  BY <1>1, <1>2, AppendFact
<1>4. Len(kernels) \in Nat
  BY DEF Threaded, IsSequence
<1>5. ASSUME NEW j \in 1 .. Len(longer) PROVE longer[j].n # 0
  <2>1. j = Len(kernels) + 1 \/ j \in 1 .. Len(kernels)
    BY <1>3, <1>4 DEF Appended
  <2>. QED
    BY <1>3, <2>1 DEF Appended, Threaded
<1>6. IsSequence(longer)
  BY <1>3, SequenceFact
<1>. QED
  BY <1>2, <1>5, <1>6 DEF Threaded

LEMMA SkippingFact ==
  ASSUME NEW copies, NEW N \in Nat
  PROVE  /\ \E f : Skipping(f, copies, N)
         /\ \A f : Skipping(f, copies, N) => Threaded(f[N])
<1> DEFINE Ends(n) == \A f : Skipping(f, copies, n) => Threaded(f[n])
           T == {n \in Nat : ~ ((\E f : Skipping(f, copies, n)) /\ Ends(n))}
<1>1. SUFFICES ASSUME T # {} PROVE FALSE
  OBVIOUS
<1>2. PICK n \in T : \A m \in T : ~ (m < n)
  <2>1. T \in SUBSET Nat
    OBVIOUS
  <2>. HIDE DEF T
  <2>. QED
    BY <1>1, <2>1, LeastExists
<1>3. n \in Nat /\ n # 0
  <2>1. Skipping([k \in 0 .. 0 |-> <<>>], copies, 0)
    BY DEF Skipping
  <2>2. Threaded(<<>>)
    BY DEF Threaded, IsSequence
  <2>3. Ends(0)
    BY <2>2 DEF Skipping
  <2>. QED
    BY <1>2, <2>1, <2>3
<1>4. n - 1 \in Nat /\ n - 1 < n
  BY <1>3
<1>5. (\E f : Skipping(f, copies, n - 1)) /\ Ends(n - 1)
  BY <1>2, <1>4
<1>6. \E g : Skipping(g, copies, n)
  <2>1. PICK f : Skipping(f, copies, n - 1)
    BY <1>5
  <2>2. PICK last : last = Grown(f, copies, n)
    OBVIOUS
  <2>3. PICK g : g = [k \in 0 .. n |-> IF k = n THEN last ELSE f[k]]
    OBVIOUS
  <2>4. ASSUME NEW k \in 0 .. n
        PROVE  g[k] = IF k = 0 THEN <<>> ELSE Grown(g, copies, k)
    <3>1. \A e \in 0 .. n - 1 : f[e] = IF e = 0 THEN <<>> ELSE Grown(f, copies, e)
      BY <1>3, <2>1 DEF Skipping
    <3>2. CASE k = n
      <4>1. g[k] = last /\ g[k - 1] = f[k - 1]
        BY <1>3, <2>3, <3>2
      <4>. QED
        BY <1>3, <2>2, <3>2, <4>1 DEF Grown
    <3>3. CASE k \in 0 .. n - 1
      <4>1. g[k] = f[k] /\ (k # 0 => g[k - 1] = f[k - 1])
        BY <1>3, <2>3, <3>3
      <4>. QED
        BY <3>1, <3>3, <4>1 DEF Grown
    <3>. QED
      BY <1>3, <3>2, <3>3
  <2>5. Skipping(g, copies, n)
    BY <2>3, <2>4 DEF Skipping
  <2>. QED
    BY <2>5
<1>7. ASSUME NEW f, Skipping(f, copies, n) PROVE Threaded(f[n])
  <2>1. PICK g : g = [k \in 0 .. n - 1 |-> f[k]]
    OBVIOUS
  <2>2. ASSUME NEW k \in 0 .. n
        PROVE  f[k] = IF k = 0 THEN <<>> ELSE Grown(f, copies, k)
    BY <1>7 DEF Skipping
  <2>3. ASSUME NEW k \in 0 .. n - 1
        PROVE  g[k] = IF k = 0 THEN <<>> ELSE Grown(g, copies, k)
    <3>1. k \in 0 .. n /\ g[k] = f[k] /\ (k # 0 => g[k - 1] = f[k - 1])
      BY <1>3, <2>1
    <3>. QED
      BY <2>2, <3>1 DEF Grown
  <2>4. Skipping(g, copies, n - 1)
    BY <2>1, <2>3 DEF Skipping
  <2>5. Threaded(g[n - 1]) /\ g[n - 1] = f[n - 1]
    BY <1>3, <1>5, <2>1, <2>4
  <2>6. f[n] = Grown(f, copies, n)
    BY <1>3, <2>2
  <2>7. CASE copies[n].n = 0
    BY <2>5, <2>6, <2>7 DEF Grown
  <2>8. CASE copies[n].n # 0
    BY <2>5, <2>6, <2>8, ThreadedAppend DEF Grown
  <2>. QED
    BY <2>7, <2>8
<1>. QED
  BY <1>2, <1>6, <1>7

LEMMA WithThreadsFact ==
  ASSUME NEW copies, Len(copies) \in Nat
  PROVE  \A j \in 1 .. Len(WithThreads(copies)) : WithThreads(copies)[j].n # 0
<1>1. PICK n \in Nat : n = Len(copies)
  OBVIOUS
<1>2. WithThreads(copies) = (CHOOSE f : Skipping(f, copies, n))[n]
  BY <1>1 DEF WithThreads, Skipping, Grown
<1>3. PICK f : Skipping(f, copies, n) /\ WithThreads(copies) = f[n]
  BY <1>2, SkippingFact
<1>. QED
  BY <1>3, SkippingFact DEF Threaded

(* The plan of each host function, behind its early returns.               *)
LEMMA SumPlan == ASSUME NEW x PROVE NoEmptyKernel(CudaSum(x))
<1>. USE DEF NoEmptyKernel, UnlessNone, Zeros, UnlessEmpty, Plan, Buffered, Nothing
<1>1. SumKernel(x).n = 1
  BY DEF SumKernel, Gather, Kernel
<1>. QED
  BY <1>1 DEF CudaSum

LEMMA SlicePlan ==
  ASSUME NEW x, NEW ax, NEW start, NEW len PROVE NoEmptyKernel(CudaSlice(x, ax, start, len))
<1>. USE DEF NoEmptyKernel, UnlessNone, Zeros, UnlessEmpty, Plan, Buffered, Nothing
<1>1. \A s, total, axis_dim, inner : SliceCopy(x, total, axis_dim, len, inner, s).n = total
  BY DEF SliceCopy, Gather, Kernel
<1>. QED
  BY <1>1 DEF CudaSlice

LEMMA ScatterPlan ==
  ASSUME NEW g, NEW sh, NEW ax, NEW len, NEW start, Numel(sh) # 0 => Numel(g.shape) # 0
  PROVE  NoEmptyKernel(CudaSliceBackward(g, sh, ax, start, len))
<1>. USE DEF NoEmptyKernel, UnlessNone, Zeros, UnlessEmpty, Plan, Buffered, Nothing
<1>1. \A s, axis_dim, inner : SliceScatter(g, axis_dim, len, inner, s).n = Numel(g.shape)
  BY DEF SliceScatter, Scatter, Kernel
<1>. QED
  BY <1>1 DEF CudaSliceBackward

LEMMA SliceBackwardPlan ==
  ASSUME NEW g, NEW sh, Extents(sh), NEW ax \in 1 .. Len(sh), NEW len \in Nat \ {0},
         NEW start, g.shape = [sh EXCEPT ![ax] = len]
  PROVE  NoEmptyKernel(CudaSliceBackward(g, sh, ax, start, len))
<1>1. PICK gsh : gsh = g.shape
  OBVIOUS
<1>2. gsh[ax] = len /\ len # 0
  BY <1>1 DEF Extents
<1>3. ASSUME NEW d \in 1 .. Len(sh), sh[d] # 0 PROVE gsh[d] # 0
  BY <1>1, <1>2, <1>3 DEF Extents
<1>4. Extents(gsh) /\ Len(gsh) = Len(sh)
  BY <1>1 DEF Extents
<1>5. Numel(sh) # 0 => Numel(gsh) # 0
  BY <1>3, <1>4, NumelFact
<1>. QED
  BY <1>1, <1>5, ScatterPlan

LEMMA ConcatPlan ==
  ASSUME NEW xs, IsSequence(xs), NEW ax PROVE NoEmptyKernel(CudaConcat(xs, ax))
<1> DEFINE AxisSum(k) == IntSum(k, LAMBDA j : xs[j + 1].shape[ax])
           sh == [xs[1].shape EXCEPT ![ax] = AxisSum(Len(xs))]
           copies == [k \in DOMAIN xs |->
             ConcatCopy(xs[k], xs[k].shape[ax], AxisSum(Len(xs)), Inner(sh, ax), AxisSum(k - 1))]
<1>1. Len(copies) \in Nat
  BY DEF IsSequence
<1>2. CudaConcat(xs, ax) = UnlessEmpty(Plan(sh, FALSE, 0, WithThreads(copies)))
  BY DEF CudaConcat
<1>3. \A j \in 1 .. Len(WithThreads(copies)) : WithThreads(copies)[j].n # 0
  <2>. HIDE DEF copies
  <2>. QED
    BY <1>1, WithThreadsFact
<1>. HIDE DEF copies, sh
<1>. QED
  BY <1>2, <1>3 DEF NoEmptyKernel, UnlessEmpty, Nothing, Plan, Buffered

LEMMA ConcatBackwardPlan ==
  ASSUME NEW g, NEW shapes, NEW ax, NEW k PROVE NoEmptyKernel(CudaConcatBackward(g, shapes, ax, k))
<1>1. PICK start, len : CudaConcatBackward(g, shapes, ax, k) =
        IF shapes[k][ax] = 0 THEN Nothing(shapes[k]) ELSE UnlessEmpty(CudaSlice(g, ax, start, len))
  BY DEF CudaConcatBackward
<1>2. NoEmptyKernel(CudaSlice(g, ax, start, len))
  BY SlicePlan
<1>3. PICK slice : slice = CudaSlice(g, ax, start, len)
  OBVIOUS
<1>. QED
  BY <1>1, <1>2, <1>3 DEF NoEmptyKernel, UnlessEmpty, Nothing, Buffered

LEMMA FlipPlan == ASSUME NEW x, NEW ax PROVE NoEmptyKernel(CudaFlip(x, ax))
<1>. USE DEF NoEmptyKernel, UnlessNone, Zeros, UnlessEmpty, Plan, Buffered, Nothing
<1>1. \A axis_dim, inner : FlipKernel(x, axis_dim, inner).n = Numel(x.shape)
  BY DEF FlipKernel, Gather, Kernel
<1>. QED
  BY <1>1 DEF CudaFlip

LEMMA BroadcastPlan ==
  ASSUME NEW a, NEW b, NEW sh PROVE NoEmptyKernel(CudaBroadcastAdd(a, b, sh))
<1>. USE DEF NoEmptyKernel, UnlessNone, Zeros, UnlessEmpty, Plan, Buffered, Nothing
<1>1. BroadcastForward(a, b, sh).n = Numel(sh)
  BY DEF BroadcastForward, Gather, Kernel
<1>. QED
  BY <1>1 DEF CudaBroadcastAdd

LEMMA BroadcastBackwardPlan ==
  ASSUME NEW g, NEW sh PROVE NoEmptyKernel(CudaBroadcastAddBackward(g, sh))
<1>. USE DEF NoEmptyKernel, UnlessNone, Zeros, UnlessEmpty, Plan, Buffered, Nothing
<1>1. BroadcastBackward(g, sh).n = Numel(g.shape)
  BY DEF BroadcastBackward, AtomicAdd, Kernel
<1>2. SumKernel(g).n = 1
  BY DEF SumKernel, Gather, Kernel
<1>. QED
  BY <1>1, <1>2 DEF CudaBroadcastAddBackward, CudaSum

LEMMA SumAxesPlans ==
  ASSUME NEW x, NEW sh, NEW axes, NEW keep
  PROVE  NoEmptyKernel(CudaSumAxes(x, axes, keep)) /\ NoEmptyKernel(CudaSumAxesBackward(x, sh, axes, keep))
<1>. USE DEF NoEmptyKernel, UnlessNone, Zeros, UnlessEmpty, Plan, Buffered, Nothing
<1>1. \A sums : SumAxesForward(x, sums, axes, keep).n = Numel(x.shape)
  BY DEF SumAxesForward, AtomicAdd, Kernel
<1>2. SumAxesBackwardKernel(x, sh, axes, keep).n = Numel(sh)
  BY DEF SumAxesBackwardKernel, Gather, Kernel
<1>3. NoEmptyKernel(CudaSumAxes(x, axes, keep))
  BY <1>1 DEF CudaSumAxes
<1>4. NoEmptyKernel(CudaSumAxesBackward(x, sh, axes, keep))
  BY <1>2 DEF CudaSumAxesBackward
<1>. QED
  BY <1>3, <1>4

LEMMA MatMulPlans ==
  ASSUME NEW a, NEW b
  PROVE  /\ NoEmptyKernel(CudaMatMul(a, b)) /\ NoEmptyKernel(CudaMatMulBackwardA(a, b))
         /\ NoEmptyKernel(CudaMatMulBackwardB(a, b))
<1>. USE DEF NoEmptyKernel, UnlessNone, Zeros, UnlessEmpty, Plan, Buffered, Nothing
<1>1. \A M, N, K, total : MatMulForward(a, b, M, N, K, total).n = total
  BY DEF MatMulForward, Batched, Gather, Kernel
<1>2. \A M, N, K, total : MatMulBackwardAKernel(a, b, M, N, K, total).n = total
  BY DEF MatMulBackwardAKernel, Batched, Gather, Kernel
<1>3. \A M, N, K, total : MatMulBackwardBKernel(a, b, M, N, K, total).n = total
  BY DEF MatMulBackwardBKernel, Batched, Gather, Kernel
<1>4. NoEmptyKernel(CudaMatMul(a, b))
  BY <1>1 DEF CudaMatMul
<1>5. NoEmptyKernel(CudaMatMulBackwardA(a, b))
  BY <1>2 DEF CudaMatMulBackwardA
<1>6. NoEmptyKernel(CudaMatMulBackwardB(a, b))
  BY <1>3 DEF CudaMatMulBackwardB
<1>. QED
  BY <1>4, <1>5, <1>6

LEMMA ShapePlans == ASSUME NEW p, ShapePlan(p) PROVE NoEmptyKernel(p)
<1>1. \A x, sh : NoEmptyKernel(CudaBroadcastScalar(x, sh))
  BY DEF CudaBroadcastScalar, Elementwise, UnlessEmpty, Nothing, Plan, Buffered, Gather, Kernel,
         NoEmptyKernel
<1>2. CASE GradientOfSlice(p)
  BY <1>2, SliceBackwardPlan DEF GradientOfSlice
<1>3. CASE Concatenation(p)
  BY <1>3, ConcatPlan DEF Concatenation
<1>. QED
  BY <1>1, <1>2, <1>3, SumPlan, SlicePlan, ConcatBackwardPlan, FlipPlan, BroadcastPlan,
     BroadcastBackwardPlan, SumAxesPlans, MatMulPlans
     DEF ShapePlan

LEMMA ElementwisePlans == ASSUME NEW p, ElementwisePlan(p) PROVE NoEmptyKernel(p)
<1>. USE DEF Elementwise, UnlessEmpty, Nothing, Plan, Buffered, Gather, Kernel, NoEmptyKernel
<1>1. ASSUME NEW a, NEW b, NEW op
      PROVE  /\ NoEmptyKernel(CudaUnary(a, op)) /\ NoEmptyKernel(CudaBinary(a, b, op))
             /\ NoEmptyKernel(CudaScale(a, op)) /\ NoEmptyKernel(CudaOnes(op))
  BY DEF CudaUnary, CudaBinary, CudaScale, CudaOnes
<1>2. ASSUME NEW g, NEW a, NEW b
      PROVE  /\ NoEmptyKernel(CudaUnaryBackward(g, a, b)) /\ NoEmptyKernel(CudaWhere(g, a, b))
             /\ NoEmptyKernel(CudaSiluBackward(g, a, b)) /\ NoEmptyKernel(CudaDivBackwardB(g, a, b))
  BY DEF CudaUnaryBackward, CudaWhere, CudaSiluBackward, CudaDivBackwardB
<1>3. ASSUME NEW a, NEW b
      PROVE  /\ NoEmptyKernel(CudaSilu(a)) /\ NoEmptyKernel(CudaSoftplus(a))
             /\ NoEmptyKernel(CudaSubBackwardB(a)) /\ NoEmptyKernel(CudaSoftplusBackward(a, b))
             /\ NoEmptyKernel(CudaDivBackwardA(a, b))
  BY DEF CudaSilu, CudaSoftplus, CudaSubBackwardB, CudaSoftplusBackward, CudaDivBackwardA
<1>4. ASSUME NEW a PROVE NoEmptyKernel(CudaAllTrue(a)) /\ NoEmptyKernel(CudaAllFinite(a))
  <2>1. NoEmptyKernel(CudaAllTrue(a))
    BY DEF CudaAllTrue, CudaAllStatus, Answer, Guarded, AtomicAnd
  <2>2. NoEmptyKernel(CudaAllFinite(a))
    BY DEF CudaAllFinite, CudaAllStatus, Answer, Guarded, AtomicAnd
  <2>. QED
    BY <2>1, <2>2
<1>5. ASSUME NEW a, NEW ax PROVE NoEmptyKernel(CudaSoftmax(a, ax)) /\ NoEmptyKernel(CudaLogSoftmax(a, ax))
  <2>1. NoEmptyKernel(CudaSoftmax(a, ax))
    BY DEF CudaSoftmax
  <2>2. NoEmptyKernel(CudaLogSoftmax(a, ax))
    BY DEF CudaLogSoftmax
  <2>. QED
    BY <2>1, <2>2
<1>6. ASSUME NEW g, NEW a, NEW ax
      PROVE  NoEmptyKernel(CudaSoftmaxBackward(g, a, ax)) /\ NoEmptyKernel(CudaLogSoftmaxBackward(g, a, ax))
  <2>1. NoEmptyKernel(CudaSoftmaxBackward(g, a, ax))
    BY DEF CudaSoftmaxBackward
  <2>2. NoEmptyKernel(CudaLogSoftmaxBackward(g, a, ax))
    BY DEF CudaLogSoftmaxBackward
  <2>. QED
    BY <2>1, <2>2
<1>7. ASSUME NEW a, NEW b, NEW inverse, NEW scaled PROVE NoEmptyKernel(CudaDFT2(a, b, inverse, scaled))
  BY DEF CudaDFT2
<1>. HIDE DEF NoEmptyKernel
<1>. QED
  BY <1>1, <1>2, <1>3, <1>4, <1>5, <1>6, <1>7 DEF ElementwisePlan

LEMMA ConcatFact ==
  ASSUME NEW S, NEW q \in Seq(S), NEW r \in Seq(S)
  PROVE  /\ Len(q \o r) = Len(q) + Len(r)
         /\ \A j \in 1 .. Len(q) + Len(r) :
              (q \o r)[j] = IF j \in 1 .. Len(q) THEN q[j] ELSE r[j - Len(q)]
OBVIOUS

LEMMA WithColumns ==
  ASSUME NEW saved, NEW kernel, NEW kernels, kernels = <<saved>> \o <<kernel>>
  PROVE  Len(kernels) = 2 /\ kernels[1] = saved /\ kernels[2] = kernel
<1>1. PICK S : S = {saved, kernel}
  OBVIOUS
<1>2. <<saved>> \in Seq(S) /\ <<kernel>> \in Seq(S)
  BY <1>1
<1>. QED
  BY <1>2, ConcatFact

LEMMA WithoutColumns ==
  ASSUME NEW kernel, NEW kernels, kernels = <<>> \o <<kernel>>
  PROVE  Len(kernels) = 1 /\ kernels[1] = kernel
<1>1. PICK S : S = {kernel}
  OBVIOUS
<1>2. <<>> \in Seq(S) /\ <<kernel>> \in Seq(S)
  BY <1>1
<1>. QED
  BY <1>2, ConcatFact

LEMMA ConvPlan ==
  ASSUME NEW x, NEW weight, NEW bias, NEW f, Positions(x, f),
         Extents(weight.shape), Len(weight.shape) = 4
  PROVE  NoEmptyKernel(CudaConv2d(x, weight, bias, f))
<1>1. PICK oH, oW \in Nat : oH = Spatial(x.shape[3], f.kH, f) /\ oW = Spatial(x.shape[4], f.kW, f)
  BY SpatialFact DEF Positions, Extents, Geometry
<1>2. PICK N, OC \in Nat : N = x.shape[1] /\ OC = weight.shape[1]
  BY DEF Positions, Extents
<1>3. PICK saved : saved = Im2colKernel(x, f, oH, oW)
  OBVIOUS
<1>4. PICK kernel : kernel = ConvForwardKernel(x, weight, bias, f, oH, oW)
  OBVIOUS
<1>5. PICK columns : columns = IF saved.n > 0 THEN <<saved>> ELSE <<>>
  OBVIOUS
<1>6. PICK kernels : kernels = columns \o <<kernel>>
  OBVIOUS
<1>7. CudaConv2d(x, weight, bias, f) = UnlessEmpty(Plan(<<N, OC, oH, oW>>, FALSE, 0, kernels))
  BY <1>1, <1>2, <1>3, <1>4, <1>5, <1>6 DEF CudaConv2d
<1>8. saved.n > 0 => saved.n # 0
  <2>1. saved.n = x.shape[1] * (x.shape[2] * f.kH * f.kW) * (oH * oW)
    BY <1>3 DEF Im2colKernel, Scatter, Kernel
  <2>2. x.shape[1] * (x.shape[2] * f.kH * f.kW) * (oH * oW) \in Int
    BY <1>1 DEF Positions, Extents, Geometry
  <2>. QED
    BY <2>1, <2>2
<1>9. ASSUME Numel(<<N, OC, oH, oW>>) # 0, NEW j \in 1 .. Len(kernels) PROVE kernels[j].n # 0
  <2>1. kernel.n # 0
    <3>1. kernel.n = N * OC * oH * oW
      BY <1>2, <1>4 DEF ConvForwardKernel, Gather, Kernel
    <3>. QED
      BY <1>1, <1>2, <1>9, <3>1, FourExtents
  <2>2. CASE saved.n > 0
    <3>1. Len(kernels) = 2 /\ kernels[1] = saved /\ kernels[2] = kernel
      BY <1>5, <1>6, <2>2, WithColumns
    <3>. QED
      BY <1>8, <1>9, <2>1, <2>2, <3>1
  <2>3. CASE ~ (saved.n > 0)
    <3>1. Len(kernels) = 1 /\ kernels[1] = kernel
      BY <1>5, <1>6, <2>3, WithoutColumns
    <3>. QED
      BY <1>9, <2>1, <3>1
  <2>. QED
    BY <2>2, <2>3
<1>. QED
  BY <1>7, <1>9 DEF NoEmptyKernel, UnlessEmpty, Nothing, Plan, Buffered

LEMMA MaxPoolPlan ==
  ASSUME NEW x, NEW f, Positions(x, f) PROVE NoEmptyKernel(CudaMaxPool(x, f))
<1>1. PICK oH, oW \in Nat : oH = Spatial(x.shape[3], f.kH, f) /\ oW = Spatial(x.shape[4], f.kW, f)
  BY SpatialFact DEF Positions, Extents, Geometry
<1>2. PICK N, C \in Nat : N = x.shape[1] /\ C = x.shape[2]
  BY DEF Positions, Extents
<1>3. PICK kernel : kernel = MaxPoolKernel(x, f, oH, oW)
  OBVIOUS
<1>4. kernel.n = N * C * oH * oW
  <2>1. MaxPoolKernel(x, f, oH, oW).n = x.shape[1] * x.shape[2] * oH * oW
    BY DEF MaxPoolKernel, Gather, Kernel
  <2>. QED
    BY <1>2, <1>3, <2>1
<1>5. CudaMaxPool(x, f) = UnlessEmpty(Plan(<<N, C, oH, oW>>, FALSE, 0, <<kernel>>))
  BY <1>1, <1>2, <1>3 DEF CudaMaxPool
<1>6. Numel(<<N, C, oH, oW>>) # 0 => kernel.n # 0
  BY <1>1, <1>2, <1>4, FourExtents
<1>. QED
  BY <1>5, <1>6 DEF NoEmptyKernel, UnlessEmpty, Nothing, Plan, Buffered

LEMMA ConvBiasPlan ==
  ASSUME NEW g, Extents(g.shape), Len(g.shape) = 4 PROVE NoEmptyKernel(CudaConvBackwardBias(g))
<1>1. PICK OC \in Nat : OC = g.shape[2]
  BY DEF Extents
<1>2. ConvBackwardBiasKernel(g).n = OC
  BY <1>1 DEF ConvBackwardBiasKernel, Gather, Kernel
<1>3. PICK sh : sh = <<OC>>
  OBVIOUS
<1>4. Extents(sh) /\ Len(sh) = 1 /\ sh[1] = OC
  BY <1>3 DEF Extents
<1>5. Numel(sh) # 0 => OC # 0
  BY <1>4, NumelFact
<1>. QED
  BY <1>1, <1>2, <1>3, <1>5
     DEF CudaConvBackwardBias, NoEmptyKernel, UnlessEmpty, Nothing, Plan, Buffered

LEMMA NnGradientPlans ==
  ASSUME NEW g, NEW saved, NEW sh, NEW f
  PROVE  /\ NoEmptyKernel(CudaConvBackwardInput(g, saved, sh, f))
         /\ NoEmptyKernel(CudaConvBackwardWeight(g, saved, sh))
         /\ NoEmptyKernel(CudaMaxPoolBackward(g, saved, sh, f))
<1>. USE DEF NoEmptyKernel, UnlessNone, Zeros, UnlessEmpty, Plan, Buffered, Nothing
<1>1. ConvBackwardInputKernel(g, saved, sh, f).n = Numel(sh)
  BY DEF ConvBackwardInputKernel, Gather, Kernel
<1>2. ConvBackwardWeightKernel(g, saved, sh).n = Numel(sh)
  BY DEF ConvBackwardWeightKernel, Gather, Kernel
<1>3. MaxPoolBackwardKernel(g, saved, sh, f).n = Numel(sh)
  BY DEF MaxPoolBackwardKernel, Gather, Kernel
<1>4. NoEmptyKernel(CudaConvBackwardInput(g, saved, sh, f))
  BY <1>1 DEF CudaConvBackwardInput
<1>5. NoEmptyKernel(CudaConvBackwardWeight(g, saved, sh))
  BY <1>2 DEF CudaConvBackwardWeight
<1>6. NoEmptyKernel(CudaMaxPoolBackward(g, saved, sh, f))
  BY <1>3 DEF CudaMaxPoolBackward
<1>. QED
  BY <1>4, <1>5, <1>6

LEMMA NnPlans == ASSUME NEW p, NnPlan(p) PROVE NoEmptyKernel(p)
BY NnGradientPlans, ConvPlan, MaxPoolPlan, ConvBiasPlan DEF NnPlan

LEMMA NoHostFunctionLaunchesEmpty == ASSUME NEW p, HostPlan(p) PROVE NoEmptyKernel(p)
  BY ShapePlans, ElementwisePlans, NnPlans DEF HostPlan

-----------------------------------------------------------------------------
(* Checks and grids of a call.                                             *)

Checked ==
  /\ pc # "check" => (pc = "rejected" <=> ~Accepted(call))
  /\ faults \in Nat /\ (faults = 0 => pc \notin {"unwind", "thrown"})

PlannedByHost == \A c \in DOMAIN Calls : Accepted(Calls[c]) => HostPlan(Calls[c].plan)

LEMMA CheckedNext ==
  ASSUME PlannedByHost, CallInv, Checked, [Next]_vars PROVE Checked'
<1>1. CASE Launch
  <2>1. plan.kernels[launched + 1].n \in Nat /\ plan.kernels[launched + 1].n > 0
    <3>1. launched + 1 \in 1 .. Len(plan.kernels)
      BY <1>1, PlanFact DEF Launch, CallInv, Stream
    <3>2. NoEmptyKernel(plan)
      <4>1. Accepted(call)
        BY <1>1 DEF Launch, CallInv, Control
      <4>2. HostPlan(plan)
        BY <4>1 DEF PlannedByHost, CallInv, Control, plan
      <4>. QED
        BY <4>2, NoHostFunctionLaunchesEmpty
    <3>3. plan.kernels[launched + 1].n \in Nat
      BY <3>1, PlanFact DEF CallInv
    <3>. QED
      BY <3>1, <3>2, <3>3 DEF NoEmptyKernel
  <2>2. Blocks(plan.kernels[launched + 1].n) > 0
    BY <2>1, GridFact
  <2>. QED
    BY <1>1, <2>2 DEF Launch, Fail, Checked
<1>2. CASE Device
  BY <1>2 DEF Device, RunThread, Checked
<1>3. CASE Allocate \/ Fill \/ AllocateMetadata \/ Readback
  BY <1>3 DEF Allocate, Fill, AllocateMetadata, Readback, Fail, Checked
<1>4. CASE Check \/ Launched \/ Free \/ Return \/ Drop \/ Read \/ Stop \/ UNCHANGED vars
  BY <1>4 DEF Check, Launched, Free, Return, Drop, Read, Stop, vars, Checked
<1>. QED
  BY <1>1, <1>2, <1>3, <1>4 DEF Next, Host

(* For any operands, the host functions of the device refuse the windows   *)
(* that the CPU's refuse and those over an input without elements, and no  *)
(* call they accept throws unless a CUDA function fails.                   *)
THEOREM ChecksAreTheSame ==
  ASSUME PlannedByHost
  PROVE  Spec => []SameChecks
<1>1. Init => Checked
  BY DEF Init, Checked
<1>2. CallInv /\ Checked => SameChecks
  BY CallsAlike DEF CallInv, Checked, SameChecks
<1>. QED
  BY <1>1, <1>2, CheckedNext, CallInvariance, PTL DEF Spec

-----------------------------------------------------------------------------
(* One kernel, whatever the order of its threads.                          *)

Apply(kernel, o, t) ==
  [o EXCEPT ![kernel.cell[t]] = Effect(kernel.mode, @, kernel.value[t])]

(* The elements after some threads of a kernel, in the order of their      *)
(* numbers: f[k] after those below k.                                      *)
Running(f, kernel, o, S, n) ==
  f = [k \in 0 .. n |->
        IF k = 0 THEN o ELSE IF k - 1 \in S THEN Apply(kernel, f[k - 1], k - 1) ELSE f[k - 1]]
AfterThreads(kernel, o, S) == (CHOOSE f : Running(f, kernel, o, S, kernel.n))[kernel.n]

LEMMA RunningFact ==
  ASSUME NEW f, NEW kernel, NEW o, NEW S, NEW n \in Nat, Running(f, kernel, o, S, n)
  PROVE  /\ f[0] = o
         /\ \A k \in 1 .. n :
              f[k] = IF k - 1 \in S THEN Apply(kernel, f[k - 1], k - 1) ELSE f[k - 1]
<1>. HIDE DEF Apply
<1>. QED
  BY DEF Running

LEMMA RunningExtends ==
  ASSUME NEW f, NEW kernel, NEW o, NEW S, NEW n \in Nat, Running(f, kernel, o, S, n)
  PROVE  \E g : Running(g, kernel, o, S, n + 1)
<1> DEFINE Last == IF n \in S THEN Apply(kernel, f[n], n) ELSE f[n]
           g == [k \in 0 .. n + 1 |-> IF k = n + 1 THEN Last ELSE f[k]]
<1>. HIDE DEF Apply
<1>1. \A k \in 0 .. n + 1 :
        g[k] = IF k = 0 THEN o ELSE IF k - 1 \in S THEN Apply(kernel, g[k - 1], k - 1) ELSE g[k - 1]
  <2>. TAKE k \in 0 .. n + 1
  <2>1. CASE k = 0
    BY <2>1, RunningFact
  <2>2. CASE k \in 1 .. n
    BY <2>2, RunningFact
  <2>3. CASE k = n + 1
    BY <2>3
  <2>. QED
    BY <2>1, <2>2, <2>3
<1>2. g = [k \in 0 .. n + 1 |-> g[k]]
  OBVIOUS
<1>. HIDE DEF g
<1>. QED
  BY <1>1, <1>2 DEF Running

LEMMA RunningExists ==
  ASSUME NEW kernel, NEW o, NEW S, NEW N \in Nat
  PROVE  \E f : Running(f, kernel, o, S, N)
<1> DEFINE T == {n \in Nat : ~ \E f : Running(f, kernel, o, S, n)}
<1>1. SUFFICES ASSUME T # {} PROVE FALSE
  OBVIOUS
<1>2. PICK n \in T : \A m \in T : ~ (m < n)
  <2>1. T \in SUBSET Nat
    OBVIOUS
  <2>. HIDE DEF T
  <2>. QED
    BY <1>1, <2>1, LeastExists
<1>3. n # 0
  <2>1. Running([k \in 0 .. 0 |-> o], kernel, o, S, 0)
    BY DEF Running
  <2>. QED
    BY <1>2, <2>1
<1>4. n - 1 \in Nat /\ n - 1 < n /\ (n - 1) + 1 = n
  BY <1>2, <1>3
<1>5. PICK f : Running(f, kernel, o, S, n - 1)
  BY <1>2, <1>4
<1>6. \E g : Running(g, kernel, o, S, (n - 1) + 1)
  BY <1>4, <1>5, RunningExtends
<1>. QED
  BY <1>2, <1>4, <1>6

LEMMA RunningIsOne ==
  ASSUME NEW kernel, NEW o, NEW S, NEW n \in Nat, NEW f, NEW g,
         Running(f, kernel, o, S, n), Running(g, kernel, o, S, n)
  PROVE  f[n] = g[n]
<1> DEFINE T == {k \in 0 .. n : f[k] # g[k]}
<1>1. SUFFICES ASSUME T # {} PROVE FALSE
  OBVIOUS
<1>2. PICK k \in T : \A m \in T : ~ (m < k)
  <2>1. T \in SUBSET Nat
    OBVIOUS
  <2>. HIDE DEF T
  <2>. QED
    BY <1>1, <2>1, LeastExists
<1>3. k # 0
  BY <1>2, RunningFact
<1>4. k - 1 \in 0 .. n /\ k - 1 < k
  BY <1>2, <1>3
<1>5. f[k - 1] = g[k - 1]
  BY <1>2, <1>4
<1>6. f[k] = g[k]
  BY <1>2, <1>3, <1>5, RunningFact
<1>. QED
  BY <1>2, <1>6

LEMMA AfterThreadsFact ==
  ASSUME NEW kernel, NEW o, NEW S, kernel.n \in Nat,
         NEW f, Running(f, kernel, o, S, kernel.n)
  PROVE  AfterThreads(kernel, o, S) = f[kernel.n]
<1> DEFINE g == CHOOSE h : Running(h, kernel, o, S, kernel.n)
<1>1. Running(g, kernel, o, S, kernel.n)
  BY RunningExists
<1>2. g[kernel.n] = f[kernel.n]
  <2>. HIDE DEF g
  <2>. QED
    BY <1>1, RunningIsOne
<1>. QED
  BY <1>2 DEF AfterThreads

LEMMA NoThreads ==
  ASSUME NEW kernel, NEW o, kernel.n \in Nat
  PROVE  AfterThreads(kernel, o, {}) = o
<1>1. Running([k \in 0 .. kernel.n |-> o], kernel, o, {}, kernel.n)
  BY DEF Running
<1>. QED
  BY <1>1, AfterThreadsFact

(* A kernel whose result does not depend on the order: no two threads      *)
(* store into one cell, those that and clear alike, and sums are of        *)
(* numbers that may be added in any order.                                 *)
Summing(Numbers) ==
  /\ \A x, y \in Numbers : x ++ y \in Numbers
  /\ \A x, y, z \in Numbers : (x ++ y) ++ z = (x ++ z) ++ y
OrderFree(kernel) ==
  \A t, u \in 0 .. kernel.n - 1 :
    /\ kernel.mode = "store" /\ kernel.cell[t] = kernel.cell[u] => t = u
    /\ kernel.mode = "and" => \/ kernel.value[t] = kernel.value[u]
                              \/ One \in {kernel.value[t], kernel.value[u]}

(* The elements of a result: numbers, if a kernel adds to it.              *)
Elements(o, D) == o = [c \in D |-> o[c]]
Numeric(o, D, Numbers) == \A c \in D : o[c] \in Numbers
Sums(kernel, Numbers) == \A t \in 0 .. kernel.n - 1 : kernel.value[t] \in Numbers

(* A mode that the kernels have.                                           *)
Known(kernel) == kernel.mode \in {"store", "add", "and"}

Applied(p, kernel, o, D, t) ==
  /\ Elements(p, D)
  /\ \A c \in D :
       p[c] = IF c = kernel.cell[t] THEN Effect(kernel.mode, o[c], kernel.value[t]) ELSE o[c]

LEMMA ApplyFact ==
  ASSUME NEW kernel, NEW D, NEW o, Elements(o, D), NEW t
  PROVE  Applied(Apply(kernel, o, t), kernel, o, D, t)
  BY DEF Elements, Apply, Applied

LEMMA SameElements ==
  ASSUME NEW D, NEW o, NEW p, Elements(o, D), Elements(p, D), \A c \in D : o[c] = p[c]
  PROVE  o = p
<1>1. [c \in D |-> o[c]] = [c \in D |-> p[c]]
  OBVIOUS
<1>. QED
  BY <1>1 DEF Elements

LEMMA ApplyNumeric ==
  ASSUME NEW Numbers, Summing(Numbers), NEW kernel, Known(kernel),
         Sums(kernel, Numbers), NEW D, NEW o, Elements(o, D), Numeric(o, D, Numbers),
         NEW t \in 0 .. kernel.n - 1
  PROVE  Numeric(Apply(kernel, o, t), D, Numbers)
<1>1. \A c \in D : Effect(kernel.mode, o[c], kernel.value[t]) \in Numbers
  BY DEF Effect, Summing, Sums, Numeric, Known
<1>2. \A c \in D : Apply(kernel, o, t)[c] =
        IF c = kernel.cell[t] THEN Effect(kernel.mode, o[c], kernel.value[t]) ELSE o[c]
  <2>1. Applied(Apply(kernel, o, t), kernel, o, D, t)
    BY ApplyFact
  <2>. QED
    BY <2>1 DEF Applied
<1>3. \A c \in D : Apply(kernel, o, t)[c] \in Numbers
  BY <1>1, <1>2 DEF Numeric
<1>. QED
  BY <1>3 DEF Numeric

LEMMA EffectsCommute ==
  ASSUME NEW Numbers, Summing(Numbers), NEW kernel, Known(kernel),
         OrderFree(kernel), NEW t \in 0 .. kernel.n - 1, NEW u \in 0 .. kernel.n - 1, t # u,
         kernel.cell[t] = kernel.cell[u],
         NEW x, kernel.mode = "add" => Sums(kernel, Numbers) /\ x \in Numbers
  PROVE  Effect(kernel.mode, Effect(kernel.mode, x, kernel.value[t]), kernel.value[u]) =
         Effect(kernel.mode, Effect(kernel.mode, x, kernel.value[u]), kernel.value[t])
<1>1. CASE kernel.mode = "store"
  BY <1>1 DEF OrderFree
<1>2. CASE kernel.mode = "add"
  <2>1. \A y, z : Effect("add", y, z) = y ++ z
    BY DEF Effect
  <2>2. x \in Numbers /\ kernel.value[t] \in Numbers /\ kernel.value[u] \in Numbers
    BY <1>2 DEF Sums
  <2>3. (x ++ kernel.value[t]) ++ kernel.value[u] = (x ++ kernel.value[u]) ++ kernel.value[t]
    BY <2>2 DEF Summing
  <2>. QED
    BY <1>2, <2>1, <2>3
<1>3. CASE kernel.mode = "and"
  <2>1. \A y, z : Effect("and", y, z) = IF z = One THEN y ELSE z
    BY DEF Effect
  <2>2. \/ kernel.value[t] = kernel.value[u]
        \/ kernel.value[t] = One \/ kernel.value[u] = One
    BY <1>3 DEF OrderFree
  <2>. QED
    BY <1>3, <2>1, <2>2
<1>. QED
  BY <1>1, <1>2, <1>3 DEF Known

(* Two threads of such a kernel may change places.                         *)
LEMMA ThreadsCommute ==
  ASSUME NEW Numbers, Summing(Numbers), NEW kernel, Known(kernel),
         OrderFree(kernel), NEW D, NEW o, Elements(o, D),
         kernel.mode = "add" => Sums(kernel, Numbers) /\ Numeric(o, D, Numbers),
         NEW t \in 0 .. kernel.n - 1, NEW u \in 0 .. kernel.n - 1, t # u
  PROVE  Apply(kernel, Apply(kernel, o, t), u) = Apply(kernel, Apply(kernel, o, u), t)
<1> DEFINE E(x, i) == Effect(kernel.mode, x, kernel.value[i])
<1>1. PICK ot, ou : /\ ot = Apply(kernel, o, t) /\ Applied(ot, kernel, o, D, t)
                    /\ ou = Apply(kernel, o, u) /\ Applied(ou, kernel, o, D, u)
  BY ApplyFact
<1>2. PICK a, b : /\ a = Apply(kernel, ot, u) /\ Applied(a, kernel, ot, D, u)
                  /\ b = Apply(kernel, ou, t) /\ Applied(b, kernel, ou, D, t)
  <2>1. Elements(ot, D) /\ Elements(ou, D)
    BY <1>1 DEF Applied
  <2>2. /\ Applied(Apply(kernel, ot, u), kernel, ot, D, u)
        /\ Applied(Apply(kernel, ou, t), kernel, ou, D, t)
    BY <2>1, ApplyFact
  <2>. QED
    BY <2>2
<1>3. \A c \in D : kernel.cell[t] = c /\ kernel.cell[u] = c => E(E(o[c], t), u) = E(E(o[c], u), t)
  BY EffectsCommute DEF Numeric
<1>4. \A c \in D : a[c] = b[c]
  <2>1. \A c \in D :
          /\ ot[c] = IF c = kernel.cell[t] THEN E(o[c], t) ELSE o[c]
          /\ ou[c] = IF c = kernel.cell[u] THEN E(o[c], u) ELSE o[c]
          /\ a[c] = IF c = kernel.cell[u] THEN E(ot[c], u) ELSE ot[c]
          /\ b[c] = IF c = kernel.cell[t] THEN E(ou[c], t) ELSE ou[c]
    BY <1>1, <1>2 DEF Applied
  <2>. HIDE DEF E
  <2>. QED
    BY <1>3, <2>1
<1>5. a = b
  BY <1>2, <1>4, SameElements DEF Applied
<1>. QED
  BY <1>1, <1>2, <1>5

(* What holds of the elements at first holds after each thread.            *)
Sound(p, kernel, o, D, Numbers) ==
  /\ Elements(p, D)
  /\ Sums(kernel, Numbers) /\ Numeric(o, D, Numbers) => Numeric(p, D, Numbers)

LEMMA RunningElements ==
  ASSUME NEW Numbers, Summing(Numbers), NEW kernel, Known(kernel),
         kernel.n \in Nat, NEW D, NEW o, Elements(o, D), NEW S,
         NEW f, Running(f, kernel, o, S, kernel.n)
  PROVE  \A k \in 0 .. kernel.n : Sound(f[k], kernel, o, D, Numbers)
<1> DEFINE Good(p) == Sound(p, kernel, o, D, Numbers)
<1> DEFINE T == {k \in 0 .. kernel.n : ~Good(f[k])}
<1>1. SUFFICES ASSUME T # {} PROVE FALSE
  OBVIOUS
<1>2. PICK k \in T : \A m \in T : ~ (m < k)
  <2>1. T \in SUBSET Nat
    OBVIOUS
  <2>. HIDE DEF T
  <2>. QED
    BY <1>1, <2>1, LeastExists
<1>3. k # 0
  BY <1>2, RunningFact DEF Sound
<1>4. k - 1 \in 0 .. kernel.n - 1 /\ k - 1 < k /\ k \in 1 .. kernel.n
  BY <1>2, <1>3
<1>5. Good(f[k - 1])
  BY <1>2, <1>4
<1>6. f[k] \in {f[k - 1], Apply(kernel, f[k - 1], k - 1)}
  BY <1>4, RunningFact
<1>7. Good(Apply(kernel, f[k - 1], k - 1))
  <2>1. Elements(f[k - 1], D)
    BY <1>5 DEF Sound
  <2>2. Elements(Apply(kernel, f[k - 1], k - 1), D)
    BY <2>1, ApplyFact DEF Applied
  <2>3. ASSUME Sums(kernel, Numbers), Numeric(o, D, Numbers)
        PROVE  Numeric(Apply(kernel, f[k - 1], k - 1), D, Numbers)
    <3>1. Numeric(f[k - 1], D, Numbers)
      BY <1>5, <2>3 DEF Sound
    <3>. QED
      BY <1>4, <2>1, <2>3, <3>1, ApplyNumeric
  <2>. QED
    BY <2>2, <2>3 DEF Sound
<1>8. Good(f[k])
  BY <1>5, <1>6, <1>7
<1>. QED
  BY <1>2, <1>8

(* One more thread, after those that have finished, whatever its number.   *)
LEMMA OneMoreThread ==
  ASSUME NEW Numbers, Summing(Numbers), NEW kernel, Known(kernel),
         kernel.n \in Nat, OrderFree(kernel), NEW D, NEW o, Elements(o, D),
         kernel.mode = "add" => Sums(kernel, Numbers) /\ Numeric(o, D, Numbers),
         NEW S, NEW t \in 0 .. kernel.n - 1, t \notin S
  PROVE  AfterThreads(kernel, o, S \cup {t}) = Apply(kernel, AfterThreads(kernel, o, S), t)
<1>1. PICK f : Running(f, kernel, o, S, kernel.n)
  BY RunningExists
<1>0. \A k \in 0 .. kernel.n : Sound(f[k], kernel, o, D, Numbers)
  BY <1>1, RunningElements
<1> DEFINE n == kernel.n
           g == [k \in 0 .. n |-> IF k <= t THEN f[k] ELSE Apply(kernel, f[k], t)]
<1>2. \A k \in 0 .. n : /\ Elements(f[k], D)
                        /\ kernel.mode = "add" => Numeric(f[k], D, Numbers)
  BY <1>0 DEF Sound
<1>. HIDE DEF Apply
<1>3. \A k \in 0 .. n :
        g[k] = IF k = 0 THEN o
               ELSE IF k - 1 \in S \cup {t} THEN Apply(kernel, g[k - 1], k - 1) ELSE g[k - 1]
  <2>. TAKE k \in 0 .. n
  <2>1. CASE k = 0
    BY <1>1, <2>1, RunningFact
  <2>2. CASE k \in 1 .. t
    <3>1. k - 1 # t /\ k - 1 <= t /\ k \in 1 .. n /\ k - 1 \in 0 .. n
      BY <2>2
    <3>. QED
      BY <1>1, <2>2, <3>1, RunningFact
  <2>3. CASE k = t + 1
    <3>1. k - 1 = t /\ k \in 1 .. n /\ ~ (k <= t) /\ t \in 0 .. n
      BY <2>3
    <3>2. f[k] = f[t]
      BY <1>1, <3>1, RunningFact
    <3>. QED
      BY <3>1, <3>2
  <2>4. CASE k > t + 1
    <3>1. /\ k \in 1 .. n /\ k - 1 \in 0 .. n - 1 /\ k - 1 \in 0 .. n /\ k - 1 # t
          /\ ~ (k <= t) /\ ~ (k - 1 <= t)
      BY <2>4
    <3>2. f[k] = IF k - 1 \in S THEN Apply(kernel, f[k - 1], k - 1) ELSE f[k - 1]
      BY <1>1, <3>1, RunningFact
    <3>3. Apply(kernel, Apply(kernel, f[k - 1], k - 1), t) =
          Apply(kernel, Apply(kernel, f[k - 1], t), k - 1)
      BY <1>2, <3>1, ThreadsCommute
    <3>. QED
      BY <3>1, <3>2, <3>3
  <2>. QED
    BY <2>1, <2>2, <2>3, <2>4
<1>4. g = [k \in 0 .. n |-> g[k]] /\ g[n] = Apply(kernel, f[n], t)
  OBVIOUS
<1>. HIDE DEF g
<1>5. Running(g, kernel, o, S \cup {t}, n)
  BY <1>3, <1>4 DEF Running
<1>. QED
  BY <1>1, <1>4, <1>5, AfterThreadsFact

-----------------------------------------------------------------------------
(* A call, whatever the order of the threads of each of its kernels.       *)

(* The elements before the first kernel.                                   *)
StartOf(c) ==
  [k \in DOMAIN c.expected |-> IF c.plan.fill = <<>> THEN Garbage ELSE c.plan.fill[1]]

(* f[j] is the result after j kernels of a call whose threads ran in the   *)
(* order of their numbers, the last one is what is expected, and no kernel *)
(* depends on that order.                                                  *)
InOrder(f, c, Numbers) ==
  /\ f[0] = StartOf(c) /\ f[Len(c.plan.kernels)] = c.expected
  /\ \A j \in 1 .. Len(c.plan.kernels) :
       LET kernel == c.plan.kernels[j]
       IN /\ f[j] = AfterThreads(kernel, f[j - 1], Threads(kernel))
          /\ OrderFree(kernel)
          /\ kernel.mode = "add" =>
               Sums(kernel, Numbers) /\ Numeric(f[j - 1], DOMAIN c.expected, Numbers)

Fresh ==
  /\ out = [k \in DOMAIN expected |-> Garbage] /\ current = 1 /\ launched = 0 /\ done = {}

(* Where the device is.                                                    *)
Progress(f) ==
  /\ Elements(f[current - 1], DOMAIN expected)
  /\ current <= Len(plan.kernels) =>
       LET kernel == plan.kernels[current]
       IN out = AfterThreads(kernel, f[current - 1], done) /\ done \subseteq Threads(kernel)
  /\ current > Len(plan.kernels) => out = f[current - 1]

OutInv(Numbers) ==
  /\ pc \in {"check", "allocate", "fill"} => Fresh
  /\ pc \in {"launch", "readback", "release", "returned", "dropped"} =>
       \E f : InOrder(f, call, Numbers) /\ Progress(f)
  /\ pc \in {"readback", "release", "returned", "dropped"} => launched = Len(plan.kernels)
  /\ DeviceAgrees

Agreeing(Numbers) ==
  \A c \in DOMAIN Calls : Accepted(Calls[c]) => \E f : InOrder(f, Calls[c], Numbers)

LEMMA ThreadsFact ==
  ASSUME NEW kernel, kernel.n \in Nat PROVE Threads(kernel) = 0 .. kernel.n - 1
<1>1. PICK n \in Nat : n = kernel.n
  OBVIOUS
<1>2. PICK b \in Nat : b = Blocks(n) * BlockDim
  BY <1>1, GridFact, BlockDimAssumption
<1>3. n <= b
  BY <1>1, <1>2, GridFact
<1>. QED
  BY <1>1, <1>2, <1>3 DEF Threads

LEMMA KernelFact ==
  ASSUME Control, NEW j \in 1 .. Len(plan.kernels)
  PROVE  plan.kernels[j].n \in Nat /\ Known(plan.kernels[j])
  BY CallsAssumption DEF Control, plan, Known

LEMMA AfterElements ==
  ASSUME NEW Numbers, Summing(Numbers), NEW kernel, Known(kernel), kernel.n \in Nat,
         NEW D, NEW o, Elements(o, D), NEW S
  PROVE  Elements(AfterThreads(kernel, o, S), D)
<1>1. PICK f : Running(f, kernel, o, S, kernel.n)
  BY RunningExists
<1>2. \A k \in 0 .. kernel.n : Sound(f[k], kernel, o, D, Numbers)
  BY <1>1, RunningElements
<1>3. Sound(f[kernel.n], kernel, o, D, Numbers)
  BY <1>2
<1>. QED
  BY <1>1, <1>3, AfterThreadsFact DEF Sound

(* The first kernel finds the elements it needs.                           *)
LEMMA Begun ==
  ASSUME NEW Numbers, NEW f, InOrder(f, call, Numbers), CallInv,
         NEW o, o = StartOf(call), NEW d, d = {}
  PROVE  /\ Elements(f[0], DOMAIN expected)
         /\ 1 <= Len(plan.kernels) =>
              o = AfterThreads(plan.kernels[1], f[0], d) /\ d \subseteq Threads(plan.kernels[1])
         /\ 1 > Len(plan.kernels) => o = f[0]
<1>1. f[0] = o
  BY DEF InOrder
<1>2. Elements(f[0], DOMAIN expected)
  BY <1>1 DEF Elements, StartOf, expected
<1>3. ASSUME 1 <= Len(plan.kernels)
      PROVE  o = AfterThreads(plan.kernels[1], f[0], d)
  <2>1. 1 \in 1 .. Len(plan.kernels)
    BY <1>3, PlanFact DEF CallInv
  <2>2. plan.kernels[1].n \in Nat
    BY <2>1, KernelFact DEF CallInv
  <2>. QED
    BY <1>1, <2>2, NoThreads
<1>. QED
  BY <1>1, <1>2, <1>3

(* A thread that runs, and the kernel after the last one of a kernel.      *)
LEMMA DeviceGoesOn ==
  ASSUME NEW Numbers, Summing(Numbers), CallInv, Device,
         NEW f, InOrder(f, call, Numbers), Progress(f)
  PROVE  Progress(f)'
<1>1. PICK t \in Threads(plan.kernels[current]) \ done : RunThread(t)
  BY DEF Device
<1>2. /\ current \in 1 .. Len(plan.kernels) /\ Len(plan.kernels) \in Nat /\ current \in Nat
  <2>1. ~Idle
    BY DEF Device
  <2>. QED
    BY <2>1, PlanFact DEF CallInv, Stream, Idle
<1>3. PICK kernel : kernel = plan.kernels[current]
  OBVIOUS
<1>4. PICK D : D = DOMAIN expected
  OBVIOUS
<1>5. PICK base : base = f[current - 1]
  OBVIOUS
<1>6. kernel.n \in Nat /\ Known(kernel)
  BY <1>2, <1>3, KernelFact DEF CallInv
<1>7. Threads(kernel) = 0 .. kernel.n - 1
  BY <1>6, ThreadsFact
<1>8. /\ f[current] = AfterThreads(kernel, base, Threads(kernel)) /\ OrderFree(kernel)
      /\ kernel.mode = "add" => Sums(kernel, Numbers) /\ Numeric(base, D, Numbers)
  BY <1>2, <1>3, <1>4, <1>5 DEF InOrder, plan, expected
<1>9. Elements(base, D) /\ out = AfterThreads(kernel, base, done) /\ done \subseteq Threads(kernel)
  BY <1>2, <1>3, <1>4, <1>5 DEF Progress
<1>10. AfterThreads(kernel, base, done \cup {t}) = Apply(kernel, out, t)
  <2>1. t \in 0 .. kernel.n - 1 /\ t \notin done
    BY <1>3, <1>7
  <2>. QED
    BY <1>6, <1>8, <1>9, <2>1, OneMoreThread
<1>11. out' = Apply(kernel, out, t) /\ UNCHANGED call /\ Finish(t)
  BY <1>1, <1>3 DEF RunThread, Apply
<1>12. plan' = plan /\ expected' = expected
  BY <1>11 DEF plan, expected
<1>13. CASE done \cup {t} = Threads(kernel)
  <2>1. current' = current + 1 /\ done' = {}
    BY <1>3, <1>11, <1>13 DEF Finish
  <2>2. out' = f[current]
    BY <1>8, <1>10, <1>11, <1>13
  <2>3. Elements(f[current], D)
    BY <1>6, <1>8, <1>9, AfterElements
  <2>4. ASSUME current + 1 <= Len(plan.kernels)
        PROVE  out' = AfterThreads(plan.kernels[current + 1], f[current], {})
    <3>1. current + 1 \in 1 .. Len(plan.kernels)
      BY <1>2, <2>4
    <3>2. plan.kernels[current + 1].n \in Nat
      BY <3>1, KernelFact DEF CallInv
    <3>. QED
      BY <2>2, <3>2, NoThreads
  <2>5. current' - 1 = current
    BY <1>2, <2>1
  <2>. QED
    BY <1>4, <1>12, <2>1, <2>2, <2>3, <2>4, <2>5 DEF Progress
<1>14. CASE done \cup {t} # Threads(kernel)
  <2>1. current' = current /\ done' = done \cup {t}
    BY <1>3, <1>11, <1>14 DEF Finish
  <2>2. out' = AfterThreads(kernel, base, done \cup {t})
    BY <1>10, <1>11
  <2>3. done \cup {t} \subseteq Threads(kernel)
    BY <1>3, <1>9
  <2>. QED
    BY <1>2, <1>3, <1>4, <1>5, <1>9, <1>12, <2>1, <2>2, <2>3 DEF Progress
<1>. QED
  BY <1>13, <1>14

(* What can be read once the stream is empty.                              *)
LEMMA Finished ==
  ASSUME NEW Numbers, CallInv, OutInv(Numbers), Idle, pc \in {"readback", "returned"}
  PROVE  out = expected
<1>1. PICK f : InOrder(f, call, Numbers) /\ Progress(f)
  BY DEF OutInv
<1>2. launched = Len(plan.kernels) /\ Len(plan.kernels) \in Nat
  BY PlanFact DEF CallInv, OutInv
<1>3. current = Len(plan.kernels) + 1
  BY <1>2 DEF CallInv, Stream, Idle
<1>4. out = f[Len(plan.kernels)]
  BY <1>1, <1>2, <1>3 DEF Progress
<1>. QED
  BY <1>1, <1>4 DEF InOrder, plan, expected

LEMMA OutNext ==
  ASSUME NEW Numbers, Summing(Numbers), Agreeing(Numbers), CallInv, OutInv(Numbers), [Next]_vars
  PROVE  OutInv(Numbers)'
<1> DEFINE Ran == pc \in {"launch", "readback", "release", "returned", "dropped"}
           Same == UNCHANGED <<call, out, current, done>>
<1>1. Len(plan.kernels) \in Nat
  BY PlanFact DEF CallInv
<1>2. ASSUME Same PROVE /\ plan' = plan /\ expected' = expected
                        /\ \A f : Progress(f)' <=> Progress(f)
  BY <1>2 DEF plan, expected, Progress
<1>3. ASSUME Fresh, pc' = "launch", UNCHANGED <<call, current, launched, done, answer>>,
             Accepted(call), out' = StartOf(call)
      PROVE  OutInv(Numbers)'
  <2>1. PICK f : InOrder(f, call, Numbers)
    BY <1>3 DEF Agreeing, CallInv, Control
  <2>2. Progress(f)'
    <3>1. current' = 1 /\ done' = {} /\ plan' = plan /\ expected' = expected
      BY <1>3 DEF Fresh, plan, expected
    <3>. QED
      BY <1>3, <2>1, <3>1, Begun DEF Progress
  <2>. QED
    BY <1>3, <2>1, <2>2 DEF OutInv, DeviceAgrees, expected
<1>4. CASE Check
  <2>1. CASE pc' = "returned"
    <3>1. PICK f : InOrder(f, call, Numbers)
      BY <1>4, <2>1 DEF Check, Agreeing, CallInv, Control
    <3>2. out' = StartOf(call) /\ current' = 1 /\ done' = {} /\ launched' = 0
      BY <1>4, <2>1 DEF Check, Filled, OutInv, Fresh, StartOf, plan, expected
    <3>3. Len(plan.kernels) = 0
      BY <1>4, <2>1, CallsAssumption DEF Check, CallInv, Control, plan
    <3>4. plan' = plan /\ expected' = expected /\ call' = call /\ answer' = answer
      BY <1>4 DEF Check, plan, expected
    <3>5. Progress(f)'
      BY <3>1, <3>2, <3>4, Begun DEF Progress
    <3>. QED
      BY <2>1, <3>1, <3>2, <3>3, <3>4, <3>5 DEF OutInv, DeviceAgrees
  <2>2. CASE pc' \in {"rejected", "allocate"}
    BY <1>4, <2>2 DEF Check, OutInv, Fresh, DeviceAgrees, expected
  <2>. QED
    BY <1>4, <2>1, <2>2 DEF Check
<1>5. CASE Allocate
  <2>1. CASE pc' = "launch"
    <3>1. out' = StartOf(call) /\ Fresh
      BY <1>5, <2>1 DEF Allocate, Fail, OutInv, Fresh, StartOf, plan, expected
    <3>. QED
      BY <1>3, <1>5, <2>1, <3>1 DEF Allocate, Fail, CallInv, Control
  <2>2. CASE pc' \in {"fill", "thrown"}
    BY <1>5, <2>2 DEF Allocate, Fail, OutInv, Fresh, DeviceAgrees, expected
  <2>. QED
    BY <1>5, <2>1, <2>2 DEF Allocate, Fail
<1>6. CASE Fill
  <2>1. CASE pc' = "launch"
    <3>1. Fresh
      BY <1>6 DEF Fill, OutInv
    <3>2. out' = StartOf(call)
      BY <1>6, <2>1, <3>1 DEF Fill, Fail, Filled, Fresh, StartOf, plan, expected
    <3>. QED
      BY <1>3, <1>6, <2>1, <3>1, <3>2 DEF Fill, Fail, CallInv, Control
  <2>2. CASE pc' = "unwind"
    BY <1>6, <2>2 DEF Fill, Fail, OutInv, DeviceAgrees, expected
  <2>. QED
    BY <1>6, <2>1, <2>2 DEF Fill, Fail
<1>7. CASE AllocateMetadata \/ Launch
  <2>1. Same /\ pc = "launch" /\ pc' \in {"launch", "unwind"} /\ answer' = answer
    BY <1>7 DEF AllocateMetadata, Launch, Fail
  <2>. QED
    BY <1>2, <2>1 DEF OutInv, DeviceAgrees
<1>8. CASE Launched
  BY <1>2, <1>8 DEF Launched, OutInv, DeviceAgrees
<1>9. CASE Readback
  <2>1. Same /\ launched' = launched /\ pc = "readback" /\ Idle /\ pc' \in {"release", "unwind"}
        /\ answer' \in {answer, <<out>>}
    BY <1>9 DEF Readback, Fail
  <2>2. out = expected
    BY <2>1, Finished
  <2>3. DeviceAgrees'
    BY <1>2, <2>1, <2>2 DEF OutInv, DeviceAgrees
  <2>. QED
    BY <1>2, <2>1, <2>3 DEF OutInv
<1>10. CASE Read
  <2>1. Same /\ launched' = launched /\ pc = "returned" /\ Idle /\ pc' = pc /\ answer' = <<out>>
    BY <1>10 DEF Read
  <2>2. out = expected
    BY <2>1, Finished
  <2>3. DeviceAgrees'
    BY <1>2, <2>1, <2>2 DEF DeviceAgrees
  <2>. QED
    BY <1>2, <2>1, <2>3 DEF OutInv
<1>11. CASE Free \/ Return \/ Drop
  <2>1. /\ Same /\ launched' = launched /\ answer' = answer
        /\ pc \in {"release", "unwind", "returned"}
        /\ \/ pc' = pc
           \/ pc = "release" /\ pc' = "returned"
           \/ pc' = "thrown"
           \/ pc = "returned" /\ pc' = "dropped"
    BY <1>11 DEF Free, Return, Drop
  <2>. QED
    BY <1>2, <2>1 DEF OutInv, DeviceAgrees
<1>12. CASE Stop \/ UNCHANGED vars
  BY <1>2, <1>12 DEF Stop, vars, OutInv, DeviceAgrees, Fresh, expected, plan
<1>13. CASE Device
  <2>1. UNCHANGED <<call, pc, launched, answer>> /\ ~Idle
    BY <1>13 DEF Device, RunThread
  <2>2. plan' = plan /\ expected' = expected
    BY <2>1 DEF plan, expected
  <2>3. pc \notin {"check", "allocate", "fill"}
    BY <2>1 DEF CallInv, Stream, Idle
  <2>4. ASSUME Ran PROVE \E f : InOrder(f, call, Numbers) /\ Progress(f)'
    BY <1>13, <2>4, DeviceGoesOn DEF OutInv
  <2>. QED
    BY <2>1, <2>2, <2>3, <2>4 DEF OutInv, DeviceAgrees
<1>. QED
  BY <1>4, <1>5, <1>6, <1>7, <1>8, <1>9, <1>10, <1>11, <1>12, <1>13 DEF Next, Host

(* If the elements the CPU computes are what the threads compute in the    *)
(* order of their numbers, and no two of them depend on that order, then   *)
(* the caller reads those elements, whatever the order the threads ran in, *)
(* whenever the host waited, and whatever failed.                          *)
THEOREM AnyScheduleAgrees ==
  ASSUME NEW Numbers, Summing(Numbers), Agreeing(Numbers)
  PROVE  Spec => []DeviceAgrees
<1>1. Init => OutInv(Numbers)
  BY DEF Init, OutInv, Fresh, DeviceAgrees
<1>2. OutInv(Numbers) => DeviceAgrees
  BY DEF OutInv
<1>. QED
  BY <1>1, <1>2, OutNext, CallInvariance, PTL DEF Spec

(* Whole numbers can be added in any order: the sums of a kernel whose     *)
(* values are whole numbers are covered, for one.                          *)
Whole == {Num(n) : n \in Int}

LEMMA WholeSum ==
  ASSUME NEW m \in Int, NEW n \in Int PROVE Num(m) ++ Num(n) = Num(m + n)
<1>1. \A p, q \in Int : Plus(<<p, 1>>, <<q, 1>>) = <<p + q, 1>>
  BY DEF Plus, Ratio
<1>2. Plus(<<m, 1>>, <<n, 1>>) = <<m + n, 1>> /\ Plus(<<0, 1>>, <<0, 1>>) = <<0, 1>>
  BY <1>1
<1>. QED
  BY <1>2 DEF Num, ++, Dual

LEMMA WholeNumbersSum == Summing(Whole)
<1>1. \A x, y \in Whole : x ++ y \in Whole
  BY WholeSum DEF Whole
<1>2. ASSUME NEW x \in Whole, NEW y \in Whole, NEW z \in Whole
      PROVE  (x ++ y) ++ z = (x ++ z) ++ y
  <2>1. PICK i, j, k \in Int : x = Num(i) /\ y = Num(j) /\ z = Num(k)
    BY DEF Whole
  <2>2. (x ++ y) ++ z = Num((i + j) + k) /\ (x ++ z) ++ y = Num((i + k) + j)
    BY <2>1, WholeSum
  <2>3. (i + j) + k = (i + k) + j
    BY <2>1
  <2>. QED
    BY <2>2, <2>3
<1>. QED
  BY <1>1, <1>2 DEF Summing
=============================================================================
