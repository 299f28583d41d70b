--------------------------- MODULE OperationGraph ---------------------------
(***************************************************************************)
(* A program on variables: it applies operations one after the other, and  *)
(* propagates a gradient from the last result to the leaves, as            *)
(* make_result and Variable::backward do.  A tensor is a handle on a       *)
(* buffer; after the forward pass the elements of a leaf are overwritten   *)
(* in place, by an optimizer or by the caller, at any moment.              *)
(***************************************************************************)
EXTENDS Operations

CONSTANTS
  Programs,   \* by name: the leaves, the statements, whether every statement is
              \* legal, and the leaf the last result must equal (0: none)
  MaxWrites   \* bound on the writes to leaves

ASSUME MaxWritesAssumption == MaxWrites \in Nat

(* What the signatures of the operations say, and that operands exist.     *)
ASSUME ProgramsAssumption ==
  \A p \in DOMAIN Programs :
    LET count == Len(Programs[p].leaves) code == Programs[p].statements
    IN /\ IsSequence(Programs[p].leaves) /\ IsSequence(code)
       /\ \A n \in 1 .. count : IsSequence(Programs[p].leaves[n].value.shape)
       /\ \A k \in 1 .. Len(code) :
            LET s == code[k]
            IN /\ IsSequence(s.args) /\ \A i \in 1 .. Len(s.args) : s.args[i] \in 1 .. count + k - 1
               /\ \/ s.op \in Unary /\ Len(s.args) = 1
                  \/ s.op \in Binary /\ Len(s.args) = 2
                  \/ s.op \in Ternary /\ Len(s.args) = 3
                  \/ s.op = "Concat" /\ Len(s.args) > 0
               /\ s.op = "Reshape" => IsSequence(s.with.shape)

VARIABLES
  program,  \* the program that runs, with the gradient given to its last
            \* result and its derivatives
  pc,       \* "forward", "backward", "done", or "rejected", "failed": an exception
  nodes,    \* the leaves and the results, in order of creation
  memory,   \* the elements of each buffer
  left,     \* the nodes backward has yet to visit
  pending,  \* the gradient of each node so far: none or one
  grad,     \* the stored gradients
  writes    \* writes to leaves so far

vars == <<program, pc, nodes, memory, left, pending, grad, writes>>

leaves == program.leaves
statements == program.statements

(* A function whose values TLC computes once.                              *)
Strict(f) == CHOOSE g \in {f} : g = f

Value(handle) == [shape |-> handle.shape, data |-> memory[handle.buffer]]
IsResult(n) == n > Len(leaves)
Statement(n) == statements[n - Len(leaves)]

(* Mutated: a transposed tensor shares the buffer too.                     *)
IsViewOrTransposed(s) == s.op \in {"Reshape", "Transpose"}

(* A view shares the buffer of its operand.  Concat keeps handles on its   *)
(* operands where other operations keep copies.                            *)
IsView(s) == s.op = "Reshape"
Borrows(s) == s.op = "Concat"

Leaf(shape, buffer, device, requires_grad) ==
  [op |-> "Leaf", args |-> <<>>, with |-> <<>>, saved |-> <<>>, shape |-> shape,
   buffer |-> buffer, device |-> device, requires_grad |-> requires_grad]

-----------------------------------------------------------------------------
(* The derivatives of a program in its leaf k, by running its forward      *)
(* pass on numbers that carry a derivative.                                *)

ResultOf(s, values) ==
  LET out == Compute(s, Strict([i \in DOMAIN s.args |-> values[s.args[i]]])).out
  IN [shape |-> out.shape, data |-> Strict(out.data)]

Run(program_leaves, program_statements) ==
  LET count == Len(program_leaves)
      value[n \in 1 .. count + Len(program_statements)] ==
        IF n <= count THEN program_leaves[n].value
        ELSE ResultOf(program_statements[n - count], value)
  IN value[count + Len(program_statements)]

Derivative(p, k) ==
  LET cells == DOMAIN p.leaves[k].value.data
      Seeded(c) == [p.leaves EXCEPT ![k].value.data = [@ EXCEPT ![c] = Seed(@)]]
      out == Strict([c \in cells |-> Run(Seeded(c), p.statements)])
  IN [c \in cells |->
        Total(Numel(p.upstream.shape), LAMBDA q : p.upstream.data[q] ** Slope(out[c].data[q]))]

(* The gradient 1, -2, 3, ... is given to the last result.                 *)
Upstream(sh) == [shape |-> sh, data |-> Strict([k \in Cells(sh) |-> Num((k + 1) * (IF k % 2 = 0 THEN 1 ELSE -1))])]

Completed(p) ==
  LET upstream == IF p.legal THEN Upstream(Run(p.leaves, p.statements).shape) ELSE Upstream(<<>>)
      given == [leaves |-> p.leaves, statements |-> p.statements, upstream |-> upstream]
  IN [leaves |-> p.leaves, statements |-> p.statements, legal |-> p.legal, undoes |-> p.undoes,
      upstream |-> upstream,
      derivative |-> IF p.legal THEN Strict([n \in DOMAIN p.leaves |-> Strict(Derivative(given, n))])
                     ELSE <<>>]
-----------------------------------------------------------------------------

Init ==
  /\ \E p \in DOMAIN Programs : program = Completed(Programs[p])
  /\ pc = "forward"
  /\ nodes = [n \in DOMAIN leaves |->
                Leaf(leaves[n].value.shape, n, leaves[n].device, leaves[n].requires_grad)]
  /\ memory = [n \in DOMAIN leaves |-> leaves[n].value.data]
  /\ left = {} /\ pending = <<>> /\ grad = <<>> /\ writes = 0

-----------------------------------------------------------------------------
(* The forward pass.                                                       *)

(* Mutated: the first tensor kept is not a copy.                           *)
HandlesBorrowed(kept, first) ==
  [i \in DOMAIN kept |-> [shape |-> kept[i].shape, buffer |-> IF i = 1 THEN 1 ELSE first + i - 1]]

Handles(kept, first) ==
  [i \in DOMAIN kept |-> [shape |-> kept[i].shape, buffer |-> first + i - 1]]

(* A result that no gradient flows through is a leaf: it keeps nothing.    *)
MakeResult(s, out, kept, buffer, free) ==
  LET traced == s.op # "LessEqual" /\ \E i \in DOMAIN s.args : nodes[s.args[i]].requires_grad
      plain == Leaf(out.shape, buffer, nodes[s.args[1]].device, traced)
      borrowed == [i \in DOMAIN s.args |->
                     [shape |-> nodes[s.args[i]].shape, buffer |-> nodes[s.args[i]].buffer]]
  IN IF traced
     THEN [plain EXCEPT !.op = s.op, !.args = s.args, !.with = s.with,
             !.saved = IF Borrows(s) THEN borrowed ELSE Handles(kept, free)]
     ELSE plain

Applied == Len(nodes) = Len(leaves) + Len(statements)

(* Mutated: the devices are not compared.                                  *)
ChecksShapes(s, devices, x) == Accepts(s, x)
Checks(s, devices, x) == DevicesOK(s, devices) /\ Accepts(s, x)

Apply ==
  /\ pc = "forward" /\ ~Applied
  /\ LET s == Statement(Len(nodes) + 1)
         x == [i \in DOMAIN s.args |-> Value(nodes[s.args[i]])]
         devices == [i \in DOMAIN s.args |-> nodes[s.args[i]].device]
     IN \/ /\ Checks(s, devices, x)
           /\ \E c \in {Compute(s, x)} :
              LET own == IF IsView(s) THEN <<>> ELSE <<c.out.data>>
                  buffer == IF IsView(s) THEN nodes[s.args[1]].buffer ELSE Len(memory) + 1
                  node == MakeResult(s, c.out, c.saved, buffer, Len(memory) + Len(own) + 1)
                  copies == IF node.op \in {"Leaf", "Concat"} THEN <<>>
                            ELSE [i \in DOMAIN c.saved |-> c.saved[i].data]
              IN nodes' = Append(nodes, node) /\ memory' = memory \o own \o copies
           /\ UNCHANGED pc
        \/ /\ ~Checks(s, devices, x)
           /\ pc' = "rejected"
           /\ UNCHANGED <<nodes, memory>>
  /\ UNCHANGED <<program, left, pending, grad, writes>>

-----------------------------------------------------------------------------
(* The backward pass.                                                      *)

(* The nodes the root depends on.                                          *)
Reachable ==
  LET root == Len(nodes)
      reached[n \in 1 .. root] ==
        n = root \/ \E m \in n + 1 .. root : reached[m] /\ \E i \in DOMAIN nodes[m].args : nodes[m].args[i] = n
  IN {n \in 1 .. root : reached[n]}

Begin ==
  /\ pc = "forward" /\ Applied
  /\ LET root == nodes[Len(nodes)]
     IN IF root.requires_grad /\ program.upstream.shape = root.shape
        THEN /\ pc' = "backward" /\ left' = Reachable
             /\ pending' = [n \in DOMAIN nodes |->
                              IF n = Len(nodes) THEN <<program.upstream>> ELSE <<>>]
        ELSE /\ pc' = IF root.requires_grad THEN "rejected" ELSE "done"
             /\ UNCHANGED <<left, pending>>
  /\ UNCHANGED <<program, nodes, memory, grad, writes>>

(* The gradients of the operands of node n, added to what there is.        *)
Accumulate(n, grads) ==
  LET upTo[i \in 0 .. Len(grads)] ==
        IF i = 0 THEN pending
        ELSE LET parent == nodes[n].args[i]
             IN IF ~nodes[parent].requires_grad THEN upTo[i - 1]
                ELSE [upTo[i - 1] EXCEPT ![parent] =
                        IF @ = <<>> THEN <<grads[i]>> ELSE <<Add(@[1], grads[i])>>]
  IN upTo[Len(grads)]

(* validate_gradient, on what backward_step returns for node n.            *)
Deliver(n, grads) ==
  IF \A i \in DOMAIN grads : grads[i].shape = nodes[nodes[n].args[i]].shape
  THEN pending' = Accumulate(n, grads) /\ UNCHANGED pc
  ELSE pc' = "failed" /\ UNCHANGED pending

(* A node after its consumers: the order is any that AutogradBackward      *)
(* proves the search produces.                                             *)
Propagate ==
  /\ pc = "backward"
  /\ \E n \in left :
       /\ \A m \in left, i \in 1 .. 3 : i \in DOMAIN nodes[m].args => nodes[m].args[i] # n
       /\ left' = left \ {n}
       /\ IF nodes[n].op = "Leaf" \/ pending[n] = <<>> THEN UNCHANGED <<pc, pending>>
          ELSE LET node == nodes[n]
               IN Deliver(n, Backward(node, pending[n][1],
                               [i \in DOMAIN node.saved |-> Value(node.saved[i])],
                               [i \in DOMAIN node.args |-> nodes[node.args[i]].shape]))
  /\ UNCHANGED <<program, nodes, memory, grad, writes>>

Commit ==
  /\ pc = "backward" /\ left = {}
  /\ grad' = pending /\ pc' = "done"
  /\ UNCHANGED <<program, nodes, memory, left, pending, writes>>

-----------------------------------------------------------------------------
(* copy_from_host or an optimizer step on a leaf, whose graph is complete. *)

Write ==
  /\ Applied /\ pc \in {"forward", "backward"} /\ writes < MaxWrites
  /\ \E n \in DOMAIN leaves :
       /\ nodes[n].requires_grad
       /\ memory' = [memory EXCEPT ![nodes[n].buffer] = [k \in DOMAIN @ |-> @[k] ++ One]]
  /\ writes' = writes + 1
  /\ UNCHANGED <<program, pc, nodes, left, pending, grad>>

Ended == pc \in {"done", "rejected", "failed"}
Stop == Ended /\ UNCHANGED vars

Next == Apply \/ Begin \/ Propagate \/ Commit \/ Write \/ Stop
Spec == Init /\ [][Next]_vars

-----------------------------------------------------------------------------
(* Backward computes the derivative at the operands the forward pass saw,  *)
(* for every operation and composition, whatever is written to the leaves  *)
(* in between and in whatever order the nodes are visited.                 *)
GradientIsDerivative ==
  pc = "done" /\ grad # <<>> =>
    \A n \in DOMAIN leaves : nodes[n].requires_grad =>
      LET derivative == program.derivative[n]
      IN IF grad[n] = <<>> THEN \A c \in DOMAIN derivative : derivative[c] = Zero
         ELSE grad[n][1].data = derivative

(* Every gradient has the shape of its node: validate_gradient accepts     *)
(* what backward_step returns.                                             *)
GradientsFit ==
  /\ pc # "failed"
  /\ \A n \in DOMAIN pending : pending[n] # <<>> => pending[n][1].shape = nodes[n].shape

(* An operation refuses the operands on which it is not defined, and those *)
(* only.                                                                   *)
RejectsIllegal ==
  /\ pc = "rejected" => ~program.legal
  /\ Applied => program.legal

(* What a program is before any element is computed: the shape and the     *)
(* device of each variable, and the checks on them.  A program is legal    *)
(* when it passes; nothing else is asked of its operands.                  *)
ResultShape(s, x) ==
  LET w == s.with sh == x[1].shape r == Len(sh) ax == Axis(w.axis, r)
  IN CASE s.op = "Sum" -> <<>>
       [] s.op = "SumAxes" -> Reduced(sh, Axes(w.axes, r), w.keep, 1)
       [] s.op = "MatMul" -> Cell(sh, sh[r - 1], x[2].shape[r])
       [] s.op = "BroadcastAdd" -> BroadcastShape(sh, x[2].shape)
       [] s.op = "Transpose" -> Swapped(sh, ax, Axis(w.axis1, r))
       [] s.op = "Reshape" -> w.shape
       [] s.op = "Slice" -> [sh EXCEPT ![ax] = w.len]
       [] s.op = "Concat" -> ConcatShape([k \in DOMAIN x |-> x[k].shape], ax)
       [] s.op = "Conv2d" -> <<sh[1], x[2].shape[1], OH(x[1], w), OW(x[1], w)>>
       [] s.op \in {"DepthwiseConv2d", "MaxPool2d", "AvgPool2d"} ->
            <<sh[1], sh[2], OH(x[1], w), OW(x[1], w)>>
       [] s.op = "NearestUpsample2d" -> <<sh[1], sh[2], sh[3] * w.scale, sh[4] * w.scale>>
       [] OTHER -> sh

Outline(p) ==
  LET count == Len(p.leaves)
      of[n \in 1 .. count + Len(p.statements)] ==
        IF n <= count THEN [shape |-> p.leaves[n].value.shape, device |-> p.leaves[n].device]
        ELSE LET s == p.statements[n - count]
                 x == [i \in DOMAIN s.args |-> of[s.args[i]]]
             IN [shape |-> ResultShape(s, x), device |-> x[1].device]
  IN of

PassesAt(p, k) ==
  LET s == p.statements[k]
      x == [i \in DOMAIN s.args |-> Outline(p)[s.args[i]]]
  IN DevicesOK(s, [i \in DOMAIN s.args |-> x[i].device]) /\ Accepts(s, x)

LegalByShape ==
  \A p \in DOMAIN Programs :
    /\ Len(Programs[p].leaves) > 0
    /\ Programs[p].legal <=> \A k \in 1 .. Len(Programs[p].statements) : PassesAt(Programs[p], k)

(* What backward reads the elements of lies in a buffer of its own, that   *)
(* no write to a variable reaches: make_result is given clones.  (The      *)
(* Limitations in src/README.md say that such a write invalidates it.)     *)
SavedIsPrivate ==
  \A n, m \in DOMAIN nodes : \A i \in DOMAIN nodes[n].saved :
    nodes[n].op # "Concat" => nodes[n].saved[i].buffer # nodes[m].buffer

(* A result keeps the value it was computed with, unless it is a view: a   *)
(* view always shows the elements of its operand.                          *)
ResultsKeep ==
  [][\A n \in DOMAIN nodes : IsResult(n) =>
       IF Statement(n).op = "Reshape"
       THEN memory'[nodes[n].buffer] = memory'[nodes[Statement(n).args[1]].buffer]
       ELSE memory'[nodes[n].buffer] = memory[nodes[n].buffer] ]_vars

(* A transform and its inverse, a reversal done twice, the parts put       *)
(* together again: the result is the operand.                              *)
RoundTrip ==
  LET n == program.undoes
  IN Applied /\ writes = 0 /\ n # 0 => Value(nodes[Len(nodes)]) = leaves[n].value
=============================================================================
