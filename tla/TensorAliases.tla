---------------------------- MODULE TensorAliases ----------------------------
(***************************************************************************)
(* What include/autograd/tensor.h promises of tensors: a tensor shows a    *)
(* box of elements in a shape, on a device.  A copy, a reshape and a       *)
(* transfer to the same device share the box; everything else makes a box  *)
(* of its own; a write to a box is seen by every tensor that shows it, and *)
(* by no other.  A call that throws is not to be seen at all.              *)
(***************************************************************************)
CONSTANTS
  Names,     \* the variables of the program that hold tensors
  CountOf,   \* the number of elements of each shape
  Devices,
  Boxes,
  Contents   \* the elements of a box, as one value

VARIABLES
  shown,     \* what each variable holds: none or one tensor
  content    \* the elements of each box that a tensor shows

vars == <<shown, content>>

InUse(tensors) == {tensors[n][1].box : n \in {m \in Names : tensors[m] # <<>>}}

(* A box nobody shows any more is gone.                                    *)
Become(tensors, contents) ==
  /\ shown' = tensors
  /\ content' = [b \in Boxes |-> IF b \in InUse(tensors) THEN contents[b] ELSE <<>>]

Show(n, shape, device, b, contents) ==
  Become([shown EXCEPT ![n] = <<[shape |-> shape, device |-> device, box |-> b]>>], contents)

Init == shown = [n \in Names |-> <<>>] /\ content = [b \in Boxes |-> <<>>]

Create(n, shape, device, c) ==
  \E b \in Boxes \ InUse(shown) : Show(n, shape, device, b, [content EXCEPT ![b] = <<c>>])

(* A clone, or a transfer to another device.                               *)
CopyOf(n, m, device) ==
  /\ shown[m] # <<>>
  /\ \E b \in Boxes \ InUse(shown) :
       Show(n, shown[m][1].shape, device, b, [content EXCEPT ![b] = content[shown[m][1].box]])

Alias(n, m, shape) ==
  /\ shown[m] # <<>>
  /\ CountOf[shape] = CountOf[shown[m][1].shape]
  /\ Show(n, shape, shown[m][1].device, shown[m][1].box, content)

Drop(n) == Become([shown EXCEPT ![n] = <<>>], content)

Move(n, m) ==
  /\ n # m /\ shown[m] # <<>>
  /\ Become([shown EXCEPT ![n] = shown[m], ![m] = <<>>], content)

Write ==
  \E b \in InUse(shown), c \in Contents : Become(shown, [content EXCEPT ![b] = <<c>>])

Next ==
  \/ Write
  \/ \E n \in Names :
       \/ Drop(n)
       \/ \E shape \in DOMAIN CountOf, device \in Devices, c \in Contents : Create(n, shape, device, c)
       \/ \E m \in Names :
            \/ Move(n, m)
            \/ \E device \in Devices : CopyOf(n, m, device)
            \/ \E shape \in DOMAIN CountOf : Alias(n, m, shape)

Spec == Init /\ [][Next]_vars
=============================================================================
