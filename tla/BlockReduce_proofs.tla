------------------------- MODULE BlockReduce_proofs -------------------------
(***************************************************************************)
(* Proofs about BlockReduce for every number of lanes, every tensor size   *)
(* and every addition.                                                     *)
(***************************************************************************)
EXTENDS BlockReduce, Integers, NaturalsInduction, WellFoundedInduction, TLAPS

(* The lanes of a block are in the same round of the loop.                 *)
Lockstep == \A b \in Block : \A k, l \in Lane : stride[b][k] = stride[b][l]

Place(b, l) ==
  LET s == stride[b][l]
  IN /\ pc[b][l] = "load" => s = Lanes
     /\ pc[b][l] = "barrier" => s # 0
     /\ pc[b][l] = "step" => s # Lanes
     /\ pc[b][l] = "write" => s # 0 /\ s # Lanes /\ l < s
     /\ pc[b][l] = "done" => s = 0

(* A cell holds the tree of the stride its lane has finished, p before s.  *)
Round(b, p, s) ==
  \A l \in Lane :
    /\ lane_sums[b][l] = Tree(n, b, IF pc[b][l] = "barrier" THEN s ELSE p, l)
    /\ pc[b][l] = "write" => sum[b][l] = Tree(n, b, s, l)

Loading(b) ==
  /\ \A l \in Lane : stride[b][l] = Lanes
  /\ \A l \in Lane : pc[b][l] = "barrier" => lane_sums[b][l] = Tree(n, b, Lanes, l)

Looping(b) ==
  \E p \in Strides : /\ \A l \in Lane : stride[b][l] = p \div 2
                     /\ Round(b, p, p \div 2)

TreeInv == \A b \in Block : Loading(b) \/ Looping(b)

PartialInv ==
  partials = [b \in Block |->
    IF b \in Blocks /\ pc[b][0] = "done" THEN Tree(n, b, 1, 0) ELSE Garbage]

StageInv == stage = "serial" => n <= SerialLimit

ControlInv == TypeOK /\ Lockstep /\ \A b \in Block, l \in Lane : Place(b, l)
IInv == ControlInv /\ TreeInv /\ PartialInv /\ StageInv /\ FixedOrder

LEMMA LaneFact == 0 \in Lane /\ Lane \subseteq Nat
  BY SizeAssumption DEF Lane

LEMMA HalfFact ==
  ASSUME NEW p \in Strides
  PROVE  /\ p \div 2 \in Nat /\ p \div 2 < p /\ p \in Nat /\ p <= Lanes
         /\ p \div 2 \in Strides \cup {0} /\ p \div 2 # Lanes
         /\ p \div 2 = 0 => p = 1
         /\ \A l \in Lane : l < p \div 2 => l + p \div 2 \in Lane
<1>1. p \in 1 .. Lanes /\ (p \div 2 = 0 \/ p \div 2 \in Strides)
  BY StrideAssumption
<1>. QED
  BY <1>1, SizeAssumption DEF Lane

LEMMA TreeFact ==
  ASSUME NEW p \in Strides, NEW b \in Block, NEW l \in Lane, n \in Sizes
  PROVE  /\ Tree(n, b, Lanes, l) = LocalSum(n, b, l)
         /\ l < p \div 2 => Tree(n, b, p \div 2, l) =
                              Add(Tree(n, b, p, l), Tree(n, b, p, l + p \div 2))
         /\ ~ (l < p \div 2) => Tree(n, b, p \div 2, l) = Tree(n, b, p, l)
  BY TreeAssumption

-----------------------------------------------------------------------------
(* Control: types, lockstep and the place of each lane.                    *)

LEMMA ControlInit == Init => ControlInv
  BY StrideAssumption DEF Init, ControlInv, TypeOK, Lockstep, Place, Everywhere

LEMMA ReleaseControl ==
  ASSUME ControlInv, NEW b \in Block, Release(b) PROVE ControlInv'
<1>. USE DEF ControlInv
<1>1. \A l \in Lane : stride[b][l] \in Strides
  BY DEF Release, Place, TypeOK
<1>2. \A l \in Lane : stride[b][l] \div 2 \in Strides \cup {0} /\ stride[b][l] \div 2 # Lanes
  BY <1>1, HalfFact
<1>3. /\ stride' = [stride EXCEPT ![b] = [l \in Lane |-> stride[b][l] \div 2]]
      /\ pc' = [pc EXCEPT ![b] = [l \in Lane |-> "step"]]
      /\ UNCHANGED <<n, stage, lane_sums, sum, partials, out>>
  BY DEF Release
<1>4. TypeOK'
  BY <1>2, <1>3 DEF TypeOK
<1>5. Lockstep'
  BY <1>3 DEF Lockstep, TypeOK
<1>6. \A c \in Block, l \in Lane : Place(c, l)'
  BY <1>2, <1>3 DEF Place, TypeOK
<1>. QED
  BY <1>4, <1>5, <1>6

LEMMA LaneControl ==
  ASSUME ControlInv, NEW b \in Block, NEW l \in Lane,
         Load(b, l) \/ Read(b, l) \/ Write(b, l) \/ Skip(b, l) \/ Finish(b, l)
  PROVE  ControlInv'
<1>. USE DEF ControlInv, At, Goto
<1>1. UNCHANGED <<n, stage, stride>>
  BY DEF Load, Read, Write, Skip, Finish
<1>2. \E place \in {"barrier", "write", "done"} :
        /\ pc' = [pc EXCEPT ![b][l] = place]
        /\ place = "barrier" => stride[b][l] # 0
        /\ place = "write" => stride[b][l] # 0 /\ stride[b][l] # Lanes /\ l < stride[b][l]
        /\ place = "done" => stride[b][l] = 0
  <2>0. stride[b][l] \in Strides \cup {0} /\ Place(b, l)
    BY DEF TypeOK
  <2>1. stride[b][l] \in Nat /\ l \in Nat /\ Lanes # 0 /\ Place(b, l)
    BY <2>0, SizeAssumption, LaneFact, HalfFact
  <2>2. CASE Load(b, l) \/ Write(b, l) \/ Skip(b, l)
    BY <2>1, <2>2 DEF Load, Write, Skip, Place
  <2>3. CASE Read(b, l)
    BY <2>1, <2>3 DEF Read, Place
  <2>4. CASE Finish(b, l)
    BY <2>1, <2>4 DEF Finish, Place
  <2>. QED
    BY <2>2, <2>3, <2>4
<1>3. TypeOK'
  <2>1. pc' \in [Block -> [Lane -> {"load", "barrier", "step", "write", "done"}]]
    BY <1>2 DEF TypeOK
  <2>2. /\ DOMAIN lane_sums' = Block /\ \A c \in Block : DOMAIN lane_sums'[c] = Lane
        /\ DOMAIN sum' = Block /\ \A c \in Block : DOMAIN sum'[c] = Lane
        /\ DOMAIN partials' = Block
    <3>1. CASE Load(b, l)
      BY <3>1 DEF Load, TypeOK
    <3>2. CASE Read(b, l)
      BY <3>2 DEF Read, TypeOK
    <3>3. CASE Write(b, l)
      BY <3>3 DEF Write, TypeOK
    <3>4. CASE Skip(b, l) \/ Finish(b, l)
      BY <3>4 DEF Skip, Finish, TypeOK
    <3>. QED
      BY <3>1, <3>2, <3>3, <3>4
  <2>. QED
    BY <1>1, <2>1, <2>2 DEF TypeOK
<1>4. Lockstep'
  BY <1>1 DEF Lockstep
<1>5. \A c \in Block, k \in Lane : Place(c, k)'
  BY <1>1, <1>2 DEF Place, TypeOK
<1>. QED
  BY <1>3, <1>4, <1>5

LEMMA ControlNext == ControlInv /\ [Next]_vars => ControlInv'
<1>. SUFFICES ASSUME ControlInv, [Next]_vars PROVE ControlInv'
  OBVIOUS
<1>1. CASE UNCHANGED vars
  BY <1>1 DEF vars, ControlInv, TypeOK, Lockstep, Place
<1>2. CASE Launch
  BY <1>2 DEF Launch, ControlInv, TypeOK, Lockstep, Place
<1>3. CASE Throw \/ SumKernel \/ SumPartials
  BY <1>3 DEF Throw, SumKernel, SumPartials, ControlInv, TypeOK, Lockstep, Place
<1>. QED
  BY <1>1, <1>2, <1>3, ReleaseControl, LaneControl DEF Next, Device

(* The types of all variables, for every instance.                         *)
THEOREM TypeCorrect == Spec => []TypeOK
<1>1. ControlInv => TypeOK
  BY DEF ControlInv
<1>. QED
  BY <1>1, ControlInit, ControlNext, PTL DEF Spec

(* Between two barriers of sum_fixed_tree_kernel no lane writes a cell of  *)
(* shared memory that another lane reads or writes.                        *)
THEOREM NoDataRace == Spec => []RaceFree
<1>1. ControlInv => RaceFree
  <2>. SUFFICES ASSUME ControlInv, NEW b \in Block, NEW k \in Lane, NEW l \in Lane, k # l
                PROVE  Writes(b, k) \cap (Reads(b, l) \cup Writes(b, l)) = {}
    BY DEF RaceFree
  <2>1. stride[b][k] = stride[b][l] /\ stride[b][l] \in Strides \cup {0}
    BY DEF ControlInv, Lockstep, TypeOK
  <2>2. stride[b][l] \in Nat /\ k \in Nat /\ l \in Nat
    BY <2>1, HalfFact, LaneFact
  <2>. QED
    BY <2>1, <2>2 DEF Writes, Reads
<1>. QED
  BY <1>1, ControlInit, ControlNext, PTL DEF Spec

-----------------------------------------------------------------------------
(* Data: the shared memory of a block follows the fixed tree.              *)

LEMMA TreeInit == Init => TreeInv /\ PartialInv /\ StageInv /\ FixedOrder
  BY LaneFact DEF Init, TreeInv, Loading, PartialInv, StageInv, FixedOrder, Everywhere

(* A step that leaves a block's lanes and memory alone keeps its invariant. *)
LEMMA BlockStable ==
  ASSUME NEW c \in Block, Loading(c) \/ Looping(c),
         n' = n, pc'[c] = pc[c], stride'[c] = stride[c],
         lane_sums'[c] = lane_sums[c], sum'[c] = sum[c]
  PROVE  Loading(c)' \/ Looping(c)'
  BY DEF Loading, Looping, Round

LEMMA OtherBlocks ==
  ASSUME ControlInv, NEW b \in Block, NEW l \in Lane,
         \/ Release(b)
         \/ Load(b, l) \/ Read(b, l) \/ Write(b, l) \/ Skip(b, l) \/ Finish(b, l)
  PROVE  \A c \in Block \ {b} :
           /\ n' = n /\ pc'[c] = pc[c] /\ stride'[c] = stride[c]
           /\ lane_sums'[c] = lane_sums[c] /\ sum'[c] = sum[c]
<1>. USE DEF ControlInv, TypeOK, Goto
<1>1. CASE Release(b)
  BY <1>1 DEF Release
<1>2. CASE Load(b, l)
  BY <1>2 DEF Load
<1>3. CASE Read(b, l)
  BY <1>3 DEF Read
<1>4. CASE Write(b, l)
  BY <1>4 DEF Write
<1>5. CASE Skip(b, l) \/ Finish(b, l)
  BY <1>5 DEF Skip, Finish
<1>. QED
  BY <1>1, <1>2, <1>3, <1>4, <1>5

LEMMA ReleaseTree ==
  ASSUME ControlInv, TreeInv, NEW b \in Block, Release(b)
  PROVE  Looping(b)'
<1>1. /\ \A l \in Lane : pc[b][l] = "barrier"
      /\ \A l \in Lane : pc'[b][l] = "step" /\ stride'[b][l] = stride[b][l] \div 2
      /\ UNCHANGED <<n, lane_sums>>
  BY DEF Release, ControlInv, TypeOK
<1>2. \A l \in Lane : stride[b][l] # 0
  BY <1>1 DEF ControlInv, Place
<1>3. PICK s \in Strides : \A l \in Lane : /\ stride[b][l] = s
                                           /\ lane_sums[b][l] = Tree(n, b, s, l)
  <2>1. CASE Loading(b)
    BY <1>1, <2>1, StrideAssumption DEF Loading
  <2>2. CASE Looping(b)
    <3>1. PICK p \in Strides : (\A l \in Lane : stride[b][l] = p \div 2) /\ Round(b, p, p \div 2)
      BY <2>2 DEF Looping
    <3>2. p \div 2 \in Strides
      BY <1>2, <3>1, HalfFact, LaneFact
    <3>. QED
      BY <1>1, <3>1, <3>2 DEF Round
  <2>. QED
    BY <2>1, <2>2 DEF TreeInv
<1>4. Round(b, s, s \div 2)'
  BY <1>1, <1>3 DEF Round
<1>. QED
  BY <1>1, <1>3, <1>4 DEF Looping

LEMMA LoadTree ==
  ASSUME ControlInv, TreeInv, NEW b \in Block, NEW l \in Lane, Load(b, l)
  PROVE  Loading(b)'
<1>1. /\ pc[b][l] = "load" /\ n \in Sizes /\ UNCHANGED <<n, stride>>
      /\ \A k \in Lane : k # l => pc'[b][k] = pc[b][k] /\ lane_sums'[b][k] = lane_sums[b][k]
      /\ lane_sums'[b][l] = LocalSum(n, b, l)
  BY DEF Load, At, Goto, ControlInv, TypeOK
<1>2. stride[b][l] = Lanes
  BY <1>1 DEF ControlInv, Place
<1>3. Loading(b)
  BY <1>2, HalfFact DEF TreeInv, Looping
<1>4. Tree(n, b, Lanes, l) = LocalSum(n, b, l)
  BY <1>1, TreeFact, StrideAssumption
<1>. QED
  BY <1>1, <1>3, <1>4 DEF Loading

(* In the loop a lane reads two cells that nobody has written since the    *)
(* barrier, or that keep their value in this round.                        *)
LEMMA LoopTree ==
  ASSUME ControlInv, TreeInv, NEW b \in Block, NEW l \in Lane,
         Read(b, l) \/ Write(b, l) \/ Skip(b, l) \/ Finish(b, l)
  PROVE  Looping(b)'
<1>1. /\ n \in Sizes /\ UNCHANGED <<n, stride>> /\ Place(b, l)
      /\ pc[b][l] \in {"step", "write"}
      /\ \A k \in Lane : k # l => /\ pc'[b][k] = pc[b][k] /\ sum'[b][k] = sum[b][k]
                                  /\ lane_sums'[b][k] = lane_sums[b][k]
  <2>. USE DEF ControlInv, TypeOK, At, Goto
  <2>1. CASE Read(b, l)
    BY <2>1 DEF Read
  <2>2. CASE Write(b, l)
    BY <2>2 DEF Write
  <2>3. CASE Skip(b, l) \/ Finish(b, l)
    BY <2>3 DEF Skip, Finish
  <2>. QED
    BY <2>1, <2>2, <2>3
<1>2. stride[b][l] # Lanes
  BY <1>1 DEF Place
<1>3. PICK p \in Strides : (\A k \in Lane : stride[b][k] = p \div 2) /\ Round(b, p, p \div 2)
  BY <1>2 DEF TreeInv, Loading, Looping
<1>. DEFINE s == p \div 2
<1>4. s \in Nat /\ l \in Nat
  BY HalfFact, LaneFact
<1>5. lane_sums[b][l] = Tree(n, b, p, l)
  BY <1>1, <1>3 DEF Round
<1>6. CASE Read(b, l)
  <2>1. l < s /\ l + s \in Lane
    BY <1>3, <1>6, HalfFact DEF Read
  <2>2. ~ (l + s < s)
    BY <1>4
  <2>3. lane_sums[b][l + s] = Tree(n, b, p, l + s)
    <3>1. Tree(n, b, s, l + s) = Tree(n, b, p, l + s)
      BY <1>1, <2>1, <2>2, TreeFact
    <3>. QED
      BY <1>3, <2>1, <3>1 DEF Round
  <2>4. Tree(n, b, s, l) = Add(Tree(n, b, p, l), Tree(n, b, p, l + s))
    BY <1>1, <2>1, TreeFact
  <2>5. /\ sum'[b][l] = Add(lane_sums[b][l], lane_sums[b][l + s])
        /\ pc'[b][l] = "write" /\ lane_sums' = lane_sums
    BY <1>3, <1>6 DEF Read, Goto, ControlInv, TypeOK
  <2>6. sum'[b][l] = Tree(n, b, s, l)
    BY <1>5, <2>3, <2>4, <2>5
  <2>7. Round(b, p, s)'
    BY <1>1, <1>3, <1>5, <2>5, <2>6 DEF Round
  <2>. QED
    BY <1>1, <1>3, <2>7 DEF Looping
<1>7. CASE Write(b, l)
  <2>1. pc[b][l] = "write" /\ pc'[b][l] = "barrier" /\ lane_sums'[b][l] = sum[b][l]
    BY <1>7 DEF Write, At, Goto, ControlInv, TypeOK
  <2>2. lane_sums'[b][l] = Tree(n, b, s, l)
    BY <1>3, <2>1 DEF Round
  <2>3. Round(b, p, s)'
    BY <1>1, <1>3, <2>1, <2>2 DEF Round
  <2>. QED
    BY <1>1, <1>3, <2>3 DEF Looping
<1>8. CASE Skip(b, l)
  <2>1. ~ (l < s) /\ pc'[b][l] = "barrier" /\ lane_sums' = lane_sums
    BY <1>3, <1>4, <1>8 DEF Skip, Goto, ControlInv, TypeOK
  <2>2. Tree(n, b, s, l) = Tree(n, b, p, l)
    BY <1>1, <2>1, TreeFact
  <2>3. Round(b, p, s)'
    BY <1>1, <1>3, <1>5, <2>1, <2>2 DEF Round
  <2>. QED
    BY <1>1, <1>3, <2>3 DEF Looping
<1>9. CASE Finish(b, l)
  <2>1. pc'[b][l] = "done" /\ lane_sums' = lane_sums
    BY <1>9 DEF Finish, Goto, ControlInv, TypeOK
  <2>2. Round(b, p, s)'
    BY <1>1, <1>3, <1>5, <2>1 DEF Round
  <2>. QED
    BY <1>1, <1>3, <2>2 DEF Looping
<1>. QED
  BY <1>6, <1>7, <1>8, <1>9

LEMMA TreeNext ==
  ASSUME ControlInv, TreeInv, [Next]_vars PROVE TreeInv'
<1>1. CASE UNCHANGED <<n, pc, stride, lane_sums, sum>>
  BY <1>1, BlockStable DEF TreeInv
<1>2. ASSUME NEW b \in Block, Release(b) PROVE TreeInv'
  BY <1>2, LaneFact, ReleaseTree, OtherBlocks, BlockStable DEF TreeInv
<1>3. ASSUME NEW b \in Block, NEW l \in Lane,
             Load(b, l) \/ Read(b, l) \/ Write(b, l) \/ Skip(b, l) \/ Finish(b, l)
      PROVE  TreeInv'
  BY <1>3, LoadTree, LoopTree, OtherBlocks, BlockStable DEF TreeInv
<1>. QED
  BY <1>1, <1>2, <1>3 DEF Next, Device, vars, Launch, Throw, SumKernel, SumPartials

-----------------------------------------------------------------------------
(* The results of the blocks and of the sum.                               *)

LEMMA PartialNext ==
  ASSUME ControlInv, TreeInv, PartialInv, [Next]_vars PROVE PartialInv'
<1>. DEFINE Done(c) == c \in Blocks /\ pc[c][0] = "done"
<1>0. n' = n /\ Blocks' = Blocks
  BY DEF Next, Device, vars, Launch, Throw, SumKernel, SumPartials, Release, Load, Read, Write,
     Skip, Finish, Blocks
<1>1. CASE partials' = partials /\ \A c \in Block : Done(c)' = Done(c)
  BY <1>0, <1>1 DEF PartialInv
<1>2. ASSUME NEW b \in Block, Release(b) PROVE PartialInv'
  <2>1. \A c \in Block : (pc'[c][0] = "done") = (pc[c][0] = "done")
    BY <1>2, LaneFact DEF Release, ControlInv, TypeOK
  <2>. QED
    BY <1>0, <1>1, <1>2, <2>1 DEF Release
<1>3. ASSUME NEW b \in Block, NEW l \in Lane,
             Load(b, l) \/ Read(b, l) \/ Write(b, l) \/ Skip(b, l)
      PROVE  PartialInv'
  <2>1. partials' = partials /\ \E place \in {"barrier", "write"} :
          pc' = [pc EXCEPT ![b][l] = place]
    BY <1>3 DEF Load, Read, Write, Skip, Goto
  <2>2. pc[b][l] # "done"
    BY <1>3 DEF Load, Read, Write, Skip, At
  <2>3. \A c \in Block : (pc'[c][0] = "done") = (pc[c][0] = "done")
    BY <2>1, <2>2, LaneFact DEF ControlInv, TypeOK
  <2>. QED
    BY <1>0, <1>1, <2>1, <2>3
<1>4. ASSUME NEW b \in Block, NEW l \in Lane, Finish(b, l), l # 0
      PROVE  PartialInv'
  <2>1. partials' = partials /\ \A c \in Block : (pc'[c][0] = "done") = (pc[c][0] = "done")
    BY <1>4, LaneFact DEF Finish, Goto, ControlInv, TypeOK
  <2>. QED
    BY <1>0, <1>1, <2>1
<1>5. ASSUME NEW b \in Block, Finish(b, 0)
      PROVE  PartialInv'
  <2>1. /\ b \in Blocks /\ pc[b][0] = "step" /\ stride[b][0] = 0
        /\ partials' = [partials EXCEPT ![b] = lane_sums[b][0]]
        /\ \A c \in Block : pc'[c][0] = IF c = b THEN "done" ELSE pc[c][0]
    BY <1>5, LaneFact DEF Finish, At, Goto, ControlInv, TypeOK
  <2>2. lane_sums[b][0] = Tree(n, b, 1, 0)
    <3>1. Looping(b)
      BY <2>1, LaneFact, SizeAssumption DEF TreeInv, Loading
    <3>2. PICK p \in Strides : (\A k \in Lane : stride[b][k] = p \div 2) /\ Round(b, p, p \div 2)
      BY <3>1 DEF Looping
    <3>3. p = 1
      BY <2>1, <3>2, HalfFact, LaneFact
    <3>. QED
      BY <2>1, <3>2, <3>3, LaneFact DEF Round
  <2>3. partials' = [c \in Block |-> IF c = b THEN Tree(n, b, 1, 0)
                       ELSE IF Done(c) THEN Tree(n, c, 1, 0) ELSE Garbage]
    BY <2>1, <2>2 DEF PartialInv
  <2>. QED
    BY <1>0, <2>1, <2>3 DEF PartialInv
<1>6. CASE UNCHANGED <<pc, partials>>
  BY <1>0, <1>1, <1>6
<1>. QED
  BY <1>2, <1>3, <1>4, <1>5, <1>6 DEF Next, Device, vars, Launch, Throw, SumKernel, SumPartials

LEMMA OrderNext ==
  ASSUME ControlInv, PartialInv, StageInv, FixedOrder, [Next]_vars
  PROVE  StageInv' /\ FixedOrder'
<1>0. n \in Sizes /\ n \in Nat /\ SerialLimit \in Nat
  BY SizeAssumption DEF ControlInv, TypeOK
<1>1. CASE UNCHANGED <<n, stage, out>>
  BY <1>1 DEF StageInv, FixedOrder, Blocks
<1>2. CASE Launch
  BY <1>0, <1>2 DEF Launch, StageInv, FixedOrder
<1>3. CASE Throw
  BY <1>3 DEF Throw, StageInv, FixedOrder
<1>4. CASE SumKernel
  BY <1>0, <1>4 DEF SumKernel, StageInv, FixedOrder
<1>5. CASE SumPartials
  <2>1. partials = [b \in Block |-> IF b \in Blocks THEN Tree(n, b, 1, 0) ELSE Garbage]
    BY <1>5, LaneFact DEF PartialInv, SumPartials
  <2>. QED
    BY <1>5, <2>1 DEF SumPartials, StageInv, FixedOrder, Blocks
<1>. QED
  BY <1>1, <1>2, <1>3, <1>4, <1>5 DEF Next, Device, vars, Release, Load, Read, Write, Skip, Finish

LEMMA Inductive == (Init => IInv) /\ (IInv /\ [Next]_vars => IInv')
  BY ControlInit, ControlNext, TreeInit, TreeNext, PartialNext, OrderNext DEF IInv

(* cuda_tensor_sum of a large tensor is the fixed tree of each block, then *)
(* the blocks in order, for every schedule of the lanes and every addition: *)
(* two runs give the same bits.                                            *)
THEOREM SameBits == Spec => []FixedOrder
<1>1. IInv => FixedOrder
  BY DEF IInv
<1>. QED
  BY <1>1, Inductive, PTL DEF Spec

-----------------------------------------------------------------------------
(* Induction, and the recursive functions of the sums.                     *)

(* Every non-empty set of natural numbers has a least element, and so a    *)
(* set that holds 0 and the successor of each element holds them all.      *)
LEMMA LeastExists ==
  ASSUME NEW T \in SUBSET Nat, T # {}
  PROVE  \E low \in T : \A m \in T : ~ (m < low)
<1> DEFINE R == OpToRel(<, Nat)
<1>1. IsWellFoundedOn(R, Nat)
  BY NatLessThanWellFounded
<1>2. PICK low \in T : \A m \in T : ~ (<<m, low>> \in R)
  <2>. HIDE DEF R
  <2>. QED
    BY <1>1, WFMin
<1>. QED
  BY <1>2 DEF OpToRel

LEMMA Induction ==
  ASSUME NEW S, 0 \in S, \A k \in Nat : k \in S => k + 1 \in S
  PROVE  \A k \in Nat : k \in S
<1>. DEFINE T == {k \in Nat : k \notin S}
<1>. SUFFICES ASSUME T # {} PROVE FALSE
  OBVIOUS
<1>1. T \in SUBSET Nat
  OBVIOUS
<1>2. PICK low \in T : \A m \in T : ~ (m < low)
  <2>. HIDE DEF T
  <2>. QED  BY <1>1, LeastExists
<1>3. low \in Nat /\ low # 0
  OBVIOUS
<1>4. low - 1 \in Nat /\ low - 1 < low /\ (low - 1) + 1 = low
  BY <1>3
<1>5. low - 1 \in S
  BY <1>2, <1>4
<1>6. low \in S
  BY <1>4, <1>5
<1>. QED
  BY <1>6

(* SerialSum: the prefix sums exist and obey their equation.               *)
Sums(f, cells, m) ==
  f = [k \in 0 .. m |-> IF k = 0 THEN Zero ELSE Add(f[k - 1], cells[k - 1])]

LEMMA SumsExtends ==
  ASSUME NEW f, NEW cells, NEW m \in Nat, Sums(f, cells, m)
  PROVE  \E g : Sums(g, cells, m + 1)
<1>1. PICK g : g = [k \in 0 .. m + 1 |-> IF k = m + 1 THEN Add(f[m], cells[m]) ELSE f[k]]
  OBVIOUS
<1>2. \A k \in 0 .. m : g[k] = f[k]
  BY <1>1
<1>3. ASSUME NEW k \in 0 .. m + 1
      PROVE  g[k] = IF k = 0 THEN Zero ELSE Add(g[k - 1], cells[k - 1])
  <2>1. CASE k = m + 1
    <3>1. k - 1 = m /\ m \in 0 .. m /\ k # 0
      BY <2>1
    <3>2. g[k - 1] = f[m] /\ g[k] = Add(f[m], cells[m])
      BY <1>1, <1>2, <2>1, <3>1
    <3>. QED  BY <2>1, <3>1, <3>2
  <2>2. CASE k \in 0 .. m /\ k # 0
    <3>1. k - 1 \in 0 .. m
      BY <2>2
    <3>2. f[k] = Add(f[k - 1], cells[k - 1])
      BY <2>2 DEF Sums
    <3>. QED  BY <1>2, <2>2, <3>1, <3>2
  <2>3. CASE k = 0
    <3>1. f[0] = Zero /\ 0 \in 0 .. m
      BY DEF Sums
    <3>. QED  BY <1>2, <2>3, <3>1
  <2>. QED  BY <2>1, <2>2, <2>3
<1>. QED
  BY <1>1, <1>3 DEF Sums

LEMMA SerialSumFact ==
  ASSUME NEW cells, NEW m \in Nat
  PROVE  \E f : Sums(f, cells, m) /\ SerialSum(cells, m) = f[m]
<1>. DEFINE S == {k \in Nat : \E f : Sums(f, cells, k)}
<1>1. 0 \in S
  <2>1. PICK f : f = [k \in 0 .. 0 |-> Zero]
    OBVIOUS
  <2>2. Sums(f, cells, 0)
    BY <2>1 DEF Sums
  <2>. QED  BY <2>2
<1>2. \A k \in Nat : k \in S => k + 1 \in S
  BY SumsExtends
<1>3. m \in S
  <2>. HIDE DEF S
  <2>. QED  BY <1>1, <1>2, Induction
<1>. DEFINE f == CHOOSE g : Sums(g, cells, m)
<1>4. Sums(f, cells, m)
  BY <1>3
<1>5. SerialSum(cells, m) = f[m]
  BY DEF SerialSum, Sums
<1>. QED  BY <1>4, <1>5

(* If only cell h contains i, and contains it once, so does the sum; h may *)
(* be past the end.                                                        *)
LEMMA SerialCount ==
  ASSUME Closed, Counts(Nat, Number), NEW cells, NEW m \in Nat, NEW i \in Nat, NEW h \in Nat,
         \A k \in Nat : k < m => cells[k] \in Number
                              /\ Occurs(i, cells[k]) = IF k = h THEN 1 ELSE 0
  PROVE  /\ SerialSum(cells, m) \in Number
         /\ Occurs(i, SerialSum(cells, m)) = IF h < m THEN 1 ELSE 0
<1>1. PICK f : Sums(f, cells, m) /\ SerialSum(cells, m) = f[m]
  BY SerialSumFact
<1>. DEFINE Good(k) == f[k] \in Number /\ Occurs(i, f[k]) = IF h < k THEN 1 ELSE 0
            S == {k \in Nat : k <= m => Good(k)}
<1>2. 0 \in S
  <2>1. f[0] = Zero
    BY <1>1 DEF Sums
  <2>. QED  BY <2>1 DEF Closed, Counts
<1>3. ASSUME NEW k \in Nat, k \in S PROVE k + 1 \in S
  <2>. SUFFICES ASSUME k + 1 <= m PROVE Good(k + 1)
    OBVIOUS
  <2>1. k <= m /\ k < m /\ k + 1 \in 0 .. m /\ k + 1 # 0 /\ (k + 1) - 1 = k
    OBVIOUS
  <2>2. f[k + 1] = Add(f[k], cells[k])
    BY <1>1, <2>1 DEF Sums
  <2>3. Good(k)
    BY <1>3, <2>1
  <2>4. cells[k] \in Number /\ Occurs(i, cells[k]) = IF k = h THEN 1 ELSE 0
    BY <2>1
  <2>5. f[k + 1] \in Number
    BY <2>2, <2>3, <2>4 DEF Closed
  <2>6. Occurs(i, f[k + 1]) = Occurs(i, f[k]) + Occurs(i, cells[k])
    BY <2>2, <2>3, <2>4 DEF Counts
  <2>. QED  BY <2>3, <2>4, <2>5, <2>6
<1>4. m \in S
  <2>. HIDE DEF S
  <2>. QED  BY <1>2, <1>3, Induction
<1>. QED
  BY <1>1, <1>4

(* LocalSum: the same, with the guard.                                     *)
LocalSums(f, count, base, m) ==
  f = [k \in 0 .. m |->
         IF k = 0 THEN Zero
         ELSE IF base + k - 1 < count THEN Add(f[k - 1], Element(base + k - 1))
         ELSE f[k - 1]]

LEMMA LocalSumsExtends ==
  ASSUME NEW f, NEW count, NEW base, NEW m \in Nat, LocalSums(f, count, base, m)
  PROVE  \E g : LocalSums(g, count, base, m + 1)
<1>. DEFINE Next1(k, x) == IF base + k - 1 < count THEN Add(x, Element(base + k - 1)) ELSE x
<1>1. PICK g : g = [k \in 0 .. m + 1 |-> IF k = m + 1 THEN Next1(m + 1, f[m]) ELSE f[k]]
  OBVIOUS
<1>2. /\ f[0] = Zero
      /\ \A k \in 0 .. m : k # 0 => f[k] = Next1(k, f[k - 1])
  BY DEF LocalSums
<1>. SUFFICES g = [k \in 0 .. m + 1 |-> IF k = 0 THEN Zero ELSE Next1(k, g[k - 1])]
  BY DEF LocalSums
<1>. HIDE DEF Next1
<1>3. \A k \in 0 .. m : g[k] = f[k]
  BY <1>1
<1>4. ASSUME NEW k \in 0 .. m + 1
      PROVE  g[k] = IF k = 0 THEN Zero ELSE Next1(k, g[k - 1])
  <2>1. CASE k = m + 1
    <3>1. k - 1 = m /\ m \in 0 .. m /\ k # 0
      BY <2>1
    <3>2. g[k - 1] = f[m] /\ g[k] = Next1(m + 1, f[m])
      BY <1>1, <1>3, <2>1, <3>1
    <3>. QED  BY <2>1, <3>1, <3>2
  <2>2. CASE k \in 0 .. m /\ k # 0
    <3>1. k - 1 \in 0 .. m
      BY <2>2
    <3>2. g[k] = f[k] /\ g[k - 1] = f[k - 1]
      BY <1>3, <2>2, <3>1
    <3>. QED  BY <1>2, <2>2, <3>2
  <2>3. CASE k = 0
    <3>1. 0 \in 0 .. m
      OBVIOUS
    <3>. QED  BY <1>2, <1>3, <2>3, <3>1
  <2>. QED  BY <2>1, <2>2, <2>3
<1>. QED
  BY <1>1, <1>4

LEMMA LocalSumFact ==
  ASSUME NEW count, NEW b, NEW l
  PROVE  \E f : /\ LocalSums(f, count, b * BlockSize + l * Items, Items)
                /\ LocalSum(count, b, l) = f[Items]
<1>. DEFINE base == b * BlockSize + l * Items
            S == {k \in Nat : \E f : LocalSums(f, count, base, k)}
<1>1. 0 \in S
  <2>1. PICK f : f = [k \in 0 .. 0 |-> Zero]
    OBVIOUS
  <2>2. LocalSums(f, count, base, 0)
    BY <2>1 DEF LocalSums
  <2>. QED  BY <2>2
<1>2. \A k \in Nat : k \in S => k + 1 \in S
  <2>. HIDE DEF base
  <2>. QED  BY LocalSumsExtends
<1>3. Items \in S
  <2>. HIDE DEF S
  <2>. QED  BY <1>1, <1>2, Induction, SizeAssumption
<1>. DEFINE f == CHOOSE g : LocalSums(g, count, base, Items)
<1>4. LocalSums(f, count, base, Items)
  BY <1>3
<1>5. LocalSum(count, b, l) = f[Items]
  BY DEF LocalSum, LocalSums
<1>. QED  BY <1>4, <1>5

(* A lane's sum contains its own elements once, those past the end not.    *)
LEMMA LocalCount ==
  ASSUME Closed, Counts(Nat, Number), NEW count \in Nat, NEW b \in Nat, NEW l \in Nat,
         NEW i \in Nat, NEW base \in Nat, base = b * BlockSize + l * Items
  PROVE  /\ LocalSum(count, b, l) \in Number
         /\ Occurs(i, LocalSum(count, b, l)) =
              IF base <= i /\ i < base + Items /\ i < count THEN 1 ELSE 0
<1>1. PICK f : LocalSums(f, count, base, Items) /\ LocalSum(count, b, l) = f[Items]
  BY LocalSumFact
<1>. DEFINE Good(k) == /\ f[k] \in Number
                       /\ Occurs(i, f[k]) = IF base <= i /\ i < base + k /\ i < count
                                            THEN 1 ELSE 0
            S == {k \in Nat : k <= Items => Good(k)}
<1>2. Items \in Nat
  BY SizeAssumption
<1>3. 0 \in S
  <2>1. f[0] = Zero
    BY <1>1, <1>2 DEF LocalSums
  <2>2. Zero \in Number /\ Occurs(i, Zero) = 0
    BY DEF Closed, Counts
  <2>3. ~ (base <= i /\ i < base + 0)
    OBVIOUS
  <2>. QED  BY <2>1, <2>2, <2>3
<1>4. ASSUME NEW k \in Nat, k \in S PROVE k + 1 \in S
  <2>. SUFFICES ASSUME k + 1 <= Items PROVE Good(k + 1)
    OBVIOUS
  <2>1. k <= Items /\ k + 1 \in 0 .. Items /\ k + 1 # 0 /\ (k + 1) - 1 = k
        /\ base + (k + 1) - 1 = base + k /\ base + k \in Nat
    BY <1>2
  <2>2. f[k + 1] = IF base + k < count THEN Add(f[k], Element(base + k)) ELSE f[k]
    BY <1>1, <2>1 DEF LocalSums
  <2>3. Good(k)
    BY <1>4, <2>1
  <2>4. CASE base + k < count
    <3>1. Element(base + k) \in Number
          /\ Occurs(i, Element(base + k)) = IF base + k = i THEN 1 ELSE 0
      BY <2>1 DEF Closed, Counts
    <3>2. f[k + 1] \in Number
      BY <2>2, <2>3, <2>4, <3>1 DEF Closed
    <3>3. Occurs(i, f[k + 1]) = Occurs(i, f[k]) + Occurs(i, Element(base + k))
      BY <2>2, <2>3, <2>4, <3>1 DEF Counts
    <3>. QED  BY <2>3, <2>4, <3>1, <3>2, <3>3
  <2>5. CASE ~ (base + k < count)
    BY <2>2, <2>3, <2>5
  <2>. QED  BY <2>4, <2>5
<1>5. Items \in S
  <2>. HIDE DEF S
  <2>. QED  BY <1>2, <1>3, <1>4, Induction
<1>. QED
  BY <1>1, <1>2, <1>5

-----------------------------------------------------------------------------
(* Every element is in one lane of one block.                              *)

LEMMA QuotientFact ==
  ASSUME NEW k \in Nat, NEW m \in Nat \ {0}
  PROVE  \E q \in Nat : q = k \div m /\ q * m <= k /\ k < q * m + m /\ (k % m = 0 => k = q * m)
<1>1. PICK q \in Int : q = k \div m
  OBVIOUS
<1>2. m * q <= k /\ k < m * q + m
  BY <1>1
<1>3. m * q = q * m
  BY <1>1
<1>4. PICK r \in Int : r = k % m
  OBVIOUS
<1>5. k = m * q + r
  BY <1>1, <1>4
<1>6. q \in Nat
  BY <1>2
<1>. QED
  BY <1>1, <1>2, <1>3, <1>4, <1>5, <1>6

LEMMA ProductFact ==
  ASSUME NEW x \in Nat, NEW y \in Nat, NEW m \in Nat, x < y
  PROVE  x * m + m <= y * m
<1>1. PICK d \in Nat : y = x + 1 + d
  <2>1. y - x - 1 \in Nat /\ y = x + 1 + (y - x - 1)
    OBVIOUS
  <2>. QED  BY <2>1
<1>2. y * m = x * m + m + d * m
  BY <1>1
<1>3. d * m \in Nat
  OBVIOUS
<1>. QED  BY <1>2, <1>3

LEMMA SizeFact == /\ BlockSize \in Nat \ {0} /\ BlockSize = Lanes * Items
                  /\ Lanes \in Nat \ {0} /\ Items \in Nat \ {0}
<1>1. Lanes \in Nat \ {0} /\ Items \in Nat \ {0}
  BY SizeAssumption
<1>2. Lanes * Items \in Nat /\ Lanes * Items # 0
  BY <1>1
<1>. QED  BY <1>1, <1>2 DEF BlockSize

(* Elements of the tensor in block b.                                      *)
InBlock(b, i) == b * BlockSize <= i /\ i < b * BlockSize + BlockSize /\ i < n
InLane(b, l, i) ==
  LET base == b * BlockSize + l * Items IN base <= i /\ i < base + Items /\ i < n

LEMMA LaneOf ==
  ASSUME NEW b \in Nat, NEW i \in Nat, n \in Nat
  PROVE  \E h \in 0 .. Lanes : /\ h < Lanes <=> InBlock(b, i)
                               /\ \A l \in Lane : InLane(b, l, i) <=> l = h
<1>1. PICK base \in Nat : base = b * BlockSize
  BY SizeFact
<1>2. \A l \in Lane : l \in Nat /\ l < Lanes /\ l * Items \in Nat
  BY SizeFact DEF Lane
<1>3. \A l \in Lane : InLane(b, l, i) <=>
        base + l * Items <= i /\ i < base + l * Items + Items /\ i < n
  BY <1>1 DEF InLane
<1>4. CASE ~ InBlock(b, i)
  <2>1. ASSUME NEW l \in Lane PROVE ~ InLane(b, l, i)
    <3>1. l * Items + Items <= BlockSize
      BY <1>2, SizeFact, ProductFact
    <3>. QED  BY <1>1, <1>2, <1>3, <1>4, <3>1, SizeFact DEF InBlock
  <2>2. Lanes \in 0 .. Lanes /\ \A l \in Lane : l # Lanes
    BY <1>2, SizeFact
  <2>. QED  BY <1>4, <2>1, <2>2
<1>5. CASE InBlock(b, i)
  <2>1. PICK r \in Nat : i = base + r /\ r < BlockSize /\ i < n
    <3>1. i - base \in Nat /\ i = base + (i - base) /\ i - base < BlockSize
      BY <1>1, <1>5, SizeFact DEF InBlock
    <3>. QED  BY <1>5, <3>1 DEF InBlock
  <2>2. PICK h \in Nat : h * Items <= r /\ r < h * Items + Items
    BY SizeFact, QuotientFact
  <2>3. h < Lanes
    <3>. SUFFICES ASSUME ~ (h < Lanes) PROVE FALSE
      OBVIOUS
    <3>1. Lanes * Items <= h * Items
      <4>1. CASE h = Lanes
        BY <4>1, SizeFact
      <4>2. CASE Lanes < h
        <5>1. Lanes * Items + Items <= h * Items
          BY <4>2, SizeFact, ProductFact
        <5>2. Lanes * Items \in Nat /\ h * Items \in Nat
          BY SizeFact
        <5>. QED  BY <5>1, <5>2, SizeFact
      <4>. QED  BY <4>1, <4>2, SizeFact
    <3>2. h * Items \in Nat
      BY SizeFact
    <3>. QED  BY <2>1, <2>2, <3>1, <3>2, SizeFact
  <2>4. ASSUME NEW l \in Lane PROVE InLane(b, l, i) <=> l = h
    <3>1. PICK x \in Nat : x = l * Items
      BY <1>2
    <3>2. PICK y \in Nat : y = h * Items
      BY SizeFact
    <3>3. CASE l = h
      BY <1>1, <1>3, <2>1, <2>2, <3>1, <3>2, <3>3, SizeFact
    <3>4. CASE l < h
      <4>1. x + Items <= y
        BY <1>2, <3>1, <3>2, <3>4, SizeFact, ProductFact
      <4>. QED  BY <1>1, <1>3, <2>1, <2>2, <3>1, <3>2, <3>4, <4>1, SizeFact
    <3>5. CASE h < l
      <4>1. y + Items <= x
        BY <1>2, <3>1, <3>2, <3>5, SizeFact, ProductFact
      <4>. QED  BY <1>1, <1>3, <2>1, <2>2, <3>1, <3>2, <3>5, <4>1, SizeFact
    <3>. QED  BY <1>2, <3>3, <3>4, <3>5
  <2>5. h \in 0 .. Lanes
    BY <2>3, SizeFact
  <2>. QED  BY <1>5, <2>3, <2>4, <2>5
<1>. QED
  BY <1>4, <1>5

LEMMA BlockOf ==
  ASSUME NEW i \in Nat, n \in Nat
  PROVE  /\ NumBlocks(n) \in Nat
         /\ \E h \in Nat : /\ h < NumBlocks(n) <=> i < n
                           /\ \A b \in Nat : b < NumBlocks(n) => (InBlock(b, i) <=> b = h)
<1>1. PICK q \in Nat : /\ q = n \div BlockSize /\ q * BlockSize <= n
                       /\ n < q * BlockSize + BlockSize
                       /\ n % BlockSize = 0 => n = q * BlockSize
  BY SizeFact, QuotientFact
<1>2. /\ n % BlockSize # 0 => NumBlocks(n) = q + 1
      /\ n % BlockSize = 0 => NumBlocks(n) = q
  BY <1>1 DEF NumBlocks
<1>3. NumBlocks(n) \in Nat
  BY <1>1, <1>2
<1>4. CASE ~ (i < n)
  BY <1>3, <1>4 DEF InBlock
<1>5. CASE i < n
  <2>1. PICK h \in Nat : h * BlockSize <= i /\ i < h * BlockSize + BlockSize
    BY SizeFact, QuotientFact
  <2>2. PICK y \in Nat : y = h * BlockSize
    BY SizeFact
  <2>3. PICK z \in Nat : z = q * BlockSize
    BY SizeFact
  <2>4. h <= q
    <3>. SUFFICES ASSUME q < h PROVE FALSE
      OBVIOUS
    <3>1. z + BlockSize <= y
      BY <2>2, <2>3, SizeFact, ProductFact
    <3>. QED  BY <1>1, <1>5, <2>1, <2>2, <2>3, <3>1, SizeFact
  <2>5. n % BlockSize = 0 => h # q
    BY <1>1, <1>5, <2>1
  <2>6. h < NumBlocks(n)
    BY <1>2, <2>4, <2>5
  <2>7. ASSUME NEW b \in Nat PROVE InBlock(b, i) <=> b = h
    <3>1. PICK x \in Nat : x = b * BlockSize
      BY SizeFact
    <3>2. CASE b = h
      BY <1>5, <2>1, <3>2 DEF InBlock
    <3>3. CASE b < h
      <4>1. x + BlockSize <= y
        BY <2>2, <3>1, <3>3, SizeFact, ProductFact
      <4>. QED  BY <2>1, <2>2, <3>1, <3>3, <4>1, SizeFact DEF InBlock
    <3>4. CASE h < b
      <4>1. y + BlockSize <= x
        BY <2>2, <3>1, <3>4, SizeFact, ProductFact
      <4>. QED  BY <2>1, <2>2, <3>1, <3>4, <4>1, SizeFact DEF InBlock
    <3>. QED  BY <3>2, <3>3, <3>4
  <2>. QED  BY <1>3, <1>5, <2>6, <2>7
<1>. QED
  BY <1>3, <1>4, <1>5

-----------------------------------------------------------------------------
(* The tree moves the one occurrence of an element to a lower lane, and    *)
(* loses none: h is the lane whose cell contains i, s if none does.        *)
Holds(b, s, i, h) ==
  /\ h < s <=> InBlock(b, i)
  /\ \A l \in Lane : l < s =>
       /\ Tree(n, b, s, l) \in Number
       /\ Occurs(i, Tree(n, b, s, l)) = IF l = h THEN 1 ELSE 0

LEMMA TreeStarts ==
  ASSUME Closed, Counts(Nat, Number), n \in Sizes, NEW b \in Block, NEW i \in Nat
  PROVE  \E h \in 0 .. Lanes : Holds(b, Lanes, i, h)
<1>1. n \in Nat /\ b \in Nat /\ Lane \subseteq Nat
  BY SizeAssumption, LaneFact DEF Block
<1>2. PICK h \in 0 .. Lanes : /\ h < Lanes <=> InBlock(b, i)
                              /\ \A l \in Lane : InLane(b, l, i) <=> l = h
  BY <1>1, LaneOf
<1>3. ASSUME NEW l \in Lane
      PROVE  /\ Tree(n, b, Lanes, l) \in Number
             /\ Occurs(i, Tree(n, b, Lanes, l)) = IF l = h THEN 1 ELSE 0
  <2>1. Tree(n, b, Lanes, l) = LocalSum(n, b, l)
    BY TreeFact, StrideAssumption
  <2>2. PICK base \in Nat : base = b * BlockSize + l * Items
    BY <1>1, SizeFact
  <2>3. /\ LocalSum(n, b, l) \in Number
        /\ Occurs(i, LocalSum(n, b, l)) =
             IF base <= i /\ i < base + Items /\ i < n THEN 1 ELSE 0
    BY <1>1, <2>2, LocalCount
  <2>4. InLane(b, l, i) <=> base <= i /\ i < base + Items /\ i < n
    BY <2>2 DEF InLane
  <2>. QED  BY <1>2, <2>1, <2>3, <2>4
<1>. QED
  BY <1>2, <1>3 DEF Holds

LEMMA TreeHalves ==
  ASSUME Closed, Counts(Nat, Number), n \in Sizes, NEW b \in Block, NEW i \in Nat,
         NEW s \in Strides, s # 1, NEW h \in 0 .. s, Holds(b, s, i, h)
  PROVE  \E g \in 0 .. s \div 2 : Holds(b, s \div 2, i, g)
<1>. DEFINE half == s \div 2
<1>1. half \in Nat /\ s = half + half /\ s <= Lanes /\ half # 0
      /\ \A l \in Lane : l < half => l + half \in Lane
  BY HalfFact, HalvingAssumption
<1>2. PICK g \in 0 .. half : g = IF h < half THEN h ELSE h - half
  BY <1>1
<1>3. ASSUME NEW l \in Lane, l < half
      PROVE  /\ Tree(n, b, half, l) \in Number
             /\ Occurs(i, Tree(n, b, half, l)) = IF l = g THEN 1 ELSE 0
  <2>1. Tree(n, b, half, l) = Add(Tree(n, b, s, l), Tree(n, b, s, l + half))
    BY <1>3, TreeFact
  <2>2. l \in Nat /\ l < s /\ l + half \in Lane /\ l + half < s
    BY <1>1, <1>3, LaneFact
  <2>. HIDE DEF half
  <2>3. /\ Tree(n, b, s, l) \in Number
        /\ Occurs(i, Tree(n, b, s, l)) = IF l = h THEN 1 ELSE 0
    BY <2>2 DEF Holds
  <2>4. /\ Tree(n, b, s, l + half) \in Number
        /\ Occurs(i, Tree(n, b, s, l + half)) = IF l + half = h THEN 1 ELSE 0
    BY <2>2 DEF Holds
  <2>5. Tree(n, b, half, l) \in Number
    BY <2>1, <2>3, <2>4 DEF Closed
  <2>6. Occurs(i, Tree(n, b, half, l)) =
          Occurs(i, Tree(n, b, s, l)) + Occurs(i, Tree(n, b, s, l + half))
    BY <2>1, <2>3, <2>4 DEF Counts
  <2>7. l = g <=> (l = h \/ l + half = h)
    BY <1>1, <1>2, <1>3, <2>2
  <2>8. ~ (l = h /\ l + half = h)
    BY <1>1, <2>2
  <2>. QED  BY <2>3, <2>4, <2>5, <2>6, <2>7, <2>8
<1>4. g < half <=> h < s
  BY <1>1, <1>2
<1>. HIDE DEF half
<1>5. Holds(b, half, i, g)
  BY <1>3, <1>4 DEF Holds
<1>. QED
  BY <1>2, <1>5 DEF half

LEMMA TreeCount ==
  ASSUME Closed, Counts(Nat, Number), n \in Sizes, NEW b \in Block, NEW i \in Nat
  PROVE  /\ Tree(n, b, 1, 0) \in Number
         /\ Occurs(i, Tree(n, b, 1, 0)) = IF InBlock(b, i) THEN 1 ELSE 0
<1>. DEFINE Good(s) == \E h \in 0 .. s : Holds(b, s, i, h)
            T == {s \in Strides : Good(s)}
<1>1. Strides \subseteq Nat /\ Lanes \in Strides
  BY StrideAssumption
<1>2. Lanes \in T
  BY <1>1, TreeStarts
<1>3. T \in SUBSET Nat /\ T # {}
  BY <1>1, <1>2
<1>4. PICK s \in T : \A r \in T : ~ (r < s)
  <2>. HIDE DEF T
  <2>. QED  BY <1>3, LeastExists
<1>5. s \in Strides /\ Good(s)
  OBVIOUS
<1>6. s = 1
  <2>. SUFFICES ASSUME s # 1 PROVE FALSE
    OBVIOUS
  <2>1. PICK h \in 0 .. s : Holds(b, s, i, h)
    BY <1>5
  <2>2. Good(s \div 2)
    BY <1>5, <2>1, TreeHalves
  <2>3. s \div 2 \in Strides /\ s \div 2 < s
    BY <1>5, HalfFact
  <2>. QED  BY <1>4, <2>2, <2>3
<1>7. PICK h \in 0 .. 1 : Holds(b, 1, i, h)
  BY <1>5, <1>6
<1>8. 0 \in Lane /\ (h < 1 <=> h = 0)
  BY LaneFact
<1>9. /\ Tree(n, b, 1, 0) \in Number
      /\ Occurs(i, Tree(n, b, 1, 0)) = IF 0 = h THEN 1 ELSE 0
  BY <1>7, <1>8 DEF Holds
<1>10. h = 0 <=> InBlock(b, i)
  BY <1>7, <1>8 DEF Holds
<1>. QED
  BY <1>9, <1>10

-----------------------------------------------------------------------------
(* The result.                                                             *)

(* A small tensor is summed first to last.                                 *)
SmallOrder ==
  stage = "done" /\ n <= SerialLimit => out = SerialSum([i \in 0 .. n - 1 |-> Element(i)], n)

PathInv == stage = "tree" => ~ (n <= SerialLimit)

LEMMA EmptySum == ASSUME NEW cells PROVE SerialSum(cells, 0) = Zero
<1>1. PICK f : Sums(f, cells, 0) /\ SerialSum(cells, 0) = f[0]
  BY SerialSumFact
<1>. QED
  BY <1>1 DEF Sums

LEMMA SmallNext ==
  ASSUME TypeOK, PathInv, SmallOrder, [Next]_vars
  PROVE  PathInv' /\ SmallOrder'
<1>0. n \in Nat /\ SerialLimit \in Nat
  BY SizeAssumption DEF TypeOK
<1>1. CASE UNCHANGED <<n, stage, out>>
  BY <1>1 DEF PathInv, SmallOrder
<1>2. CASE Launch
  <2>1. CASE n = 0
    BY <1>0, <1>2, <2>1, EmptySum DEF Launch, PathInv, SmallOrder
  <2>2. CASE n # 0
    BY <1>0, <1>2, <2>2 DEF Launch, PathInv, SmallOrder
  <2>. QED  BY <2>1, <2>2
<1>3. CASE Throw
  BY <1>3 DEF Throw, PathInv, SmallOrder
<1>4. CASE SumKernel
  BY <1>0, <1>4 DEF SumKernel, PathInv, SmallOrder
<1>5. CASE SumPartials
  BY <1>0, <1>5 DEF SumPartials, PathInv, SmallOrder
<1>. QED
  BY <1>1, <1>2, <1>3, <1>4, <1>5 DEF Next, Device, vars, Release, Load, Read, Write, Skip, Finish

SumInv == IInv /\ PathInv /\ SmallOrder

LEMMA SumInvariance == Spec => []SumInv
<1>1. Init => SumInv
  BY Inductive DEF SumInv, Init, PathInv, SmallOrder
<1>2. SumInv /\ [Next]_vars => SumInv'
  BY Inductive, SmallNext DEF SumInv, IInv, ControlInv
<1>. QED
  BY <1>1, <1>2, PTL DEF Spec

LEMMA ResultCount ==
  ASSUME Closed, Counts(Nat, Number), SumInv, stage = "done", NEW i \in Nat
  PROVE  out \in Number /\ Occurs(i, out) = IF i < n THEN 1 ELSE 0
<1>1. n \in Sizes /\ n \in Nat /\ SerialLimit \in Nat
  BY SizeAssumption DEF SumInv, IInv, ControlInv, TypeOK
<1>2. CASE n <= SerialLimit
  <2>. DEFINE cells == [k \in 0 .. n - 1 |-> Element(k)]
  <2>1. out = SerialSum(cells, n)
    BY <1>2 DEF SumInv, SmallOrder
  <2>2. ASSUME NEW k \in Nat, k < n
        PROVE  cells[k] \in Number /\ Occurs(i, cells[k]) = IF k = i THEN 1 ELSE 0
    <3>1. cells[k] = Element(k)
      BY <1>1, <2>2
    <3>2. Element(k) \in Number
      BY DEF Closed
    <3>3. Occurs(i, Element(k)) = IF k = i THEN 1 ELSE 0
      BY DEF Counts
    <3>. HIDE DEF cells
    <3>. QED  BY <3>1, <3>2, <3>3
  <2>. HIDE DEF cells
  <2>. QED  BY <1>1, <2>1, <2>2, SerialCount
<1>3. CASE ~ (n <= SerialLimit)
  <2>. DEFINE cells == [b \in Block |-> IF b \in Blocks THEN Tree(n, b, 1, 0) ELSE Garbage]
  <2>1. out = SerialSum(cells, NumBlocks(n))
    BY <1>1, <1>3 DEF SumInv, IInv, FixedOrder
  <2>2. NumBlocks(n) \in Nat /\ NumBlocks(n) <= MaxBlocks /\ MaxBlocks \in Nat
    BY <1>1, BlockOf, BlockAssumption, SizeAssumption
  <2>3. PICK h \in Nat : /\ h < NumBlocks(n) <=> i < n
                         /\ \A b \in Nat : b < NumBlocks(n) => (InBlock(b, i) <=> b = h)
    BY <1>1, BlockOf
  <2>4. ASSUME NEW b \in Nat, b < NumBlocks(n)
        PROVE  cells[b] \in Number /\ Occurs(i, cells[b]) = IF b = h THEN 1 ELSE 0
    <3>1. b \in Block /\ b \in Blocks
      BY <2>2, <2>4 DEF Block, Blocks
    <3>2. cells[b] = Tree(n, b, 1, 0)
      BY <3>1
    <3>3. /\ Tree(n, b, 1, 0) \in Number
          /\ Occurs(i, Tree(n, b, 1, 0)) = IF InBlock(b, i) THEN 1 ELSE 0
      BY <1>1, <3>1, TreeCount
    <3>. QED  BY <2>3, <2>4, <3>2, <3>3
  <2>. HIDE DEF cells
  <2>. QED  BY <2>1, <2>2, <2>3, <2>4, SerialCount
<1>. QED
  BY <1>2, <1>3

(* cuda_tensor_sum adds every element of the tensor once and nothing else, *)
(* for a tensor of any size, blocks of any width and elements per lane,    *)
(* and every schedule.  The count is a property of the expression that is  *)
(* computed, so it needs no law of Add.                                    *)
THEOREM EveryElementOnce ==
  ASSUME Closed, Counts(Nat, Number) PROVE Spec => []EachElementOnce
<1>1. SumInv => EachElementOnce
  <2>1. \A i \in 0 .. MaxBlocks * BlockSize : i \in Nat
    OBVIOUS
  <2>2. 0 \in Nat
    OBVIOUS
  <2>. QED  BY <2>1, <2>2, ResultCount DEF EachElementOnce
<1>. QED
  BY <1>1, SumInvariance, PTL
=============================================================================
