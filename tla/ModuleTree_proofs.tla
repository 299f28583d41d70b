-------------------------- MODULE ModuleTree_proofs --------------------------
(***************************************************************************)
(* For any finite set of modules, any names, variables and number of       *)
(* entries: registration makes no cycle, without a cycle nothing leaks,    *)
(* what named_parameters lists stays listed in its order, and names        *)
(* without dots tell its entries apart.                                    *)
(***************************************************************************)
EXTENDS ModuleTree, Integers, NaturalsInduction, WellFoundedInduction, SequenceTheorems,
        FiniteSetTheorems, TLAPS

AnyName == Names \cup {<<Numeral(i)>> : i \in Nat}
Child == [name : AnyName, module : Module]
Tree == [Module -> Seq(Child)]

Typed ==
  /\ exists \in SUBSET Module /\ held \in SUBSET exists
  /\ children \in Tree

(* A child exists, and so does its parent.                                 *)
ChildrenExist ==
  \A x, y \in Module : ChildOf(x, y, children) => x \in exists /\ y \in exists

(* What exists is referred to.                                             *)
Referred ==
  \A x \in exists : x \in held \/ \E y \in exists : ChildOf(x, y, children)

IInv == Typed /\ ChildrenExist /\ Referred
-----------------------------------------------------------------------------
(* A module is below itself, and a child of what is below is below.        *)
LEMMA BelowIsClosed ==
  ASSUME NEW tree, NEW m \in Module
  PROVE  m \in Below(m, tree) /\ Closed(Below(m, tree), tree) /\ Below(m, tree) \subseteq Module
  BY DEF Below, Closed

(* An entry more for c adds one parent to c, and to no other module.       *)
LEMMA ParentsOfAppend ==
  ASSUME NEW tree \in Tree, NEW m \in Module, NEW e \in Child, NEW x \in Module, NEW y \in Module
  PROVE  ChildOf(x, y, [tree EXCEPT ![m] = Append(@, e)])
           <=> ChildOf(x, y, tree) \/ (y = m /\ x = e.module)
<1> DEFINE grown == [tree EXCEPT ![m] = Append(@, e)]
<1>1. tree[y] \in Seq(Child) /\ tree[m] \in Seq(Child)
  BY DEF Tree
<1>2. CASE y # m
  <2>1. grown[y] = tree[y]
    BY <1>2 DEF Tree
  <2> QED
    BY <2>1, <1>2 DEF ChildOf
<1>3. CASE y = m
  <2>1. grown[y] = Append(tree[m], e)
    BY <1>3 DEF Tree
  <2>2. DOMAIN grown[y] = DOMAIN tree[m] \cup {Len(tree[m]) + 1}
    BY <2>1, <1>1
  <2>3. \A i \in DOMAIN tree[m] : grown[y][i] = tree[m][i]
    BY <2>1, <1>1
  <2>4. grown[y][Len(tree[m]) + 1] = e
    BY <2>1, <1>1
  <2> QED
    BY <2>2, <2>3, <2>4, <1>3 DEF ChildOf
<1> QED
  BY <1>2, <1>3

(* register_module's check is enough.  What is below c is closed and lacks *)
(* m, so the new edge leads into it from outside.                          *)
LEMMA AppendMakesNoCycle ==
  ASSUME NEW tree \in Tree, NEW m \in Module, NEW e \in Child,
         m \notin Below(e.module, tree), NoCycle(tree)
  PROVE  NoCycle([tree EXCEPT ![m] = Append(@, e)])
<1> DEFINE grown == [tree EXCEPT ![m] = Append(@, e)]
           B == Below(e.module, tree)
<1>1. e.module \in B /\ Closed(B, tree) /\ B \subseteq Module
  BY BelowIsClosed DEF Child
<1>2. \A x, y \in Module : ChildOf(x, y, grown) <=> ChildOf(x, y, tree) \/ (y = m /\ x = e.module)
  BY ParentsOfAppend
<1> SUFFICES ASSUME NEW S \in SUBSET Module, S # {}
             PROVE  \E x \in S : \A y \in S : ~ChildOf(x, y, grown)
  BY DEF NoCycle, NoCycleIn
<1>3. CASE S \ B # {}
  <2>1. PICK x \in S \ B : \A y \in S \ B : ~ChildOf(x, y, tree)
    BY <1>3 DEF NoCycle, NoCycleIn
  <2>2. \A y \in S \cap B : ~ChildOf(x, y, tree)
    BY <2>1, <1>1 DEF Closed
  <2> QED
    BY <2>1, <2>2, <1>1, <1>2
<1>4. CASE S \subseteq B
  <2>1. PICK x \in S : \A y \in S : ~ChildOf(x, y, tree)
    BY DEF NoCycle, NoCycleIn
  <2> QED
    BY <2>1, <1>2, <1>4
<1> QED
  BY <1>3, <1>4

(* Giving n's children to m makes no cycle unless m is below n.            *)
LEMMA MoveMakesNoCycle ==
  ASSUME NEW tree \in Tree, NEW m \in Module, NEW n \in Module, m # n,
         m \notin Below(n, tree), NoCycle(tree)
  PROVE  NoCycle([tree EXCEPT ![m] = tree[n], ![n] = <<>>])
<1> DEFINE moved == [tree EXCEPT ![m] = tree[n], ![n] = <<>>]
           B == Below(n, tree)
<1>1. n \in B /\ Closed(B, tree) /\ B \subseteq Module
  BY BelowIsClosed
<1>2. \A y \in Module : moved[y] = IF y = n THEN <<>> ELSE IF y = m THEN tree[n] ELSE tree[y]
  BY DEF Tree
<1>3. ASSUME NEW x \in Module, NEW y \in Module, ChildOf(x, y, moved)
      PROVE  y # n /\ ((y # m /\ ChildOf(x, y, tree)) \/ (y = m /\ x \in B))
  <2>1. y # n
    BY <1>2, <1>3 DEF ChildOf
  <2>2. CASE y = m
    <3>1. ChildOf(x, n, tree)
      BY <1>2, <1>3, <2>1, <2>2 DEF ChildOf
    <3> QED
      BY <3>1, <1>1, <2>1, <2>2 DEF Closed
  <2> QED
    BY <1>2, <1>3, <2>1, <2>2 DEF ChildOf
<1> SUFFICES ASSUME NEW S \in SUBSET Module, S # {}
             PROVE  \E x \in S : \A y \in S : ~ChildOf(x, y, moved)
  BY DEF NoCycle, NoCycleIn
<1>4. CASE S \ B # {}
  <2>1. PICK x \in S \ B : \A y \in S \ B : ~ChildOf(x, y, tree)
    BY <1>4 DEF NoCycle, NoCycleIn
  <2>2. \A y \in S \cap B : ~ChildOf(x, y, tree)
    BY <2>1, <1>1 DEF Closed
  <2> QED
    BY <2>1, <2>2, <1>3
<1>5. CASE S \subseteq B
  <2>1. PICK x \in S : \A y \in S : ~ChildOf(x, y, tree)
    BY DEF NoCycle, NoCycleIn
  <2> QED
    BY <2>1, <1>3, <1>5
<1> QED
  BY <1>4, <1>5

(* Fewer children make no cycle.                                           *)
LEMMA LossMakesNoCycle ==
  ASSUME NEW tree, NEW less, NoCycle(tree),
         \A x, y \in Module : ChildOf(x, y, less) => ChildOf(x, y, tree)
  PROVE  NoCycle(less)
  BY DEF NoCycle, NoCycleIn
-----------------------------------------------------------------------------
(* What is kept is what is referred to by a handle or by what is kept.     *)
LEMMA KeptIsReferred ==
  ASSUME NEW M, NEW handles, NEW tree
  PROVE  /\ Kept(M, handles, tree) \subseteq M
         /\ \A x \in M : x \in Kept(M, handles, tree) <=>
              x \in handles \/ \E y \in Kept(M, handles, tree) : ChildOf(x, y, tree)
<1> DEFINE Self(K) == \A x \in K : x \in handles \/ \E y \in K : ChildOf(x, y, tree)
           kept == Kept(M, handles, tree)
<1>1. kept = UNION {K \in SUBSET M : Self(K)}
  BY DEF Kept
<1> HIDE DEF kept
<1>2. kept \subseteq M
  BY <1>1
<1>3. ASSUME NEW x \in kept
      PROVE  x \in handles \/ \E y \in kept : ChildOf(x, y, tree)
  <2>1. PICK K \in SUBSET M : Self(K) /\ x \in K
    BY <1>1
  <2>2. K \subseteq kept
    BY <1>1, <2>1
  <2> QED
    BY <2>1, <2>2
<1>4. ASSUME NEW x \in M, x \in handles \/ \E y \in kept : ChildOf(x, y, tree)
      PROVE  x \in kept
  <2>1. Self(kept \cup {x})
    BY <1>3, <1>4
  <2>2. kept \cup {x} \in SUBSET M
    BY <1>2
  <2> QED
    BY <2>1, <2>2, <1>1
<1> QED
  BY <1>2, <1>3, <1>4 DEF kept
-----------------------------------------------------------------------------
(* The entry a registration appends.                                       *)
LEMMA RegistrationAppends ==
  ASSUME Typed, NEW m \in Module, NEW c \in Module,
         NEW name \in Names \cup {<<Numeral(Len(children[m]))>>}, RegisterModule(m, name, c)
  PROVE  /\ [name |-> name, module |-> c] \in Child
         /\ children' = [children EXCEPT ![m] = Append(@, [name |-> name, module |-> c])]
         /\ m \notin Below(c, children)
         /\ c \in held
<1>1. Len(children[m]) \in Nat
  BY DEF Typed, Tree
<1> QED
  BY <1>1 DEF RegisterModule, contains, Child, AnyName

LEMMA AppendIsTree ==
  ASSUME NEW tree \in Tree, NEW m \in Module, NEW e \in Child
  PROVE  [tree EXCEPT ![m] = Append(@, e)] \in Tree
<1>1. Append(tree[m], e) \in Seq(Child)
  BY DEF Tree
<1> QED
  BY <1>1 DEF Tree

LEMMA MoveIsTree ==
  ASSUME NEW tree \in Tree, NEW m \in Module, NEW n \in Module
  PROVE  [tree EXCEPT ![m] = tree[n], ![n] = <<>>] \in Tree
  BY DEF Tree

(* An edge of the moved tree is an old one, or one of n's, now m's.        *)
LEMMA ParentsOfMoved ==
  ASSUME NEW tree \in Tree, NEW m \in Module, NEW n \in Module, m # n,
         NEW x \in Module, NEW y \in Module
  PROVE  ChildOf(x, y, [tree EXCEPT ![m] = tree[n], ![n] = <<>>])
           <=> y # n /\ ((y # m /\ ChildOf(x, y, tree)) \/ (y = m /\ ChildOf(x, n, tree)))
<1> DEFINE moved == [tree EXCEPT ![m] = tree[n], ![n] = <<>>]
<1>1. moved[y] = IF y = n THEN <<>> ELSE IF y = m THEN tree[n] ELSE tree[y]
  BY DEF Tree
<1>2. CASE y = n
  BY <1>1, <1>2 DEF ChildOf
<1>3. CASE y = m
  BY <1>1, <1>3 DEF ChildOf
<1>4. CASE y # n /\ y # m
  BY <1>1, <1>4 DEF ChildOf
<1> QED
  BY <1>2, <1>3, <1>4

(* Destructors keep the invariant, and only take edges away.               *)
LEMMA SettleKeeps ==
  ASSUME Typed, NEW handles \in SUBSET exists, NEW leaves, NEW tree \in Tree,
         \A x, y \in Module : ChildOf(x, y, tree) => x \in exists /\ y \in exists,
         Settle(exists, handles, leaves, tree)
  PROVE  IInv' /\ \A x, y \in Module : ChildOf(x, y, children') => ChildOf(x, y, tree)
<1> DEFINE kept == Kept(exists, handles, tree)
<1>1. exists' = kept /\ held' = handles
      /\ children' = [m \in Module |-> IF m \in kept THEN tree[m] ELSE <<>>]
  BY DEF Settle
<1>2. /\ kept \subseteq exists
      /\ \A x \in exists : x \in kept <=> x \in handles \/ \E y \in kept : ChildOf(x, y, tree)
  BY KeptIsReferred
<1> HIDE DEF kept
<1>3. exists \subseteq Module
  BY DEF Typed
<1>4. \A x, y \in Module : ChildOf(x, y, children') <=> y \in kept /\ ChildOf(x, y, tree)
  BY <1>1 DEF ChildOf
<1>5. Typed'
  BY <1>1, <1>2, <1>3 DEF Typed, Tree
<1>6. ChildrenExist'
  BY <1>1, <1>2, <1>4 DEF ChildrenExist
<1>7. Referred'
  <2> SUFFICES ASSUME NEW x \in kept, x \notin handles
               PROVE  \E y \in kept : ChildOf(x, y, children')
    BY <1>1 DEF Referred
  <2>1. PICK y \in kept : ChildOf(x, y, tree)
    BY <1>2
  <2> QED
    BY <2>1, <1>2, <1>3, <1>4
<1> QED
  BY <1>4, <1>5, <1>6, <1>7 DEF IInv

(* The two moves, from what they do to the tree.                           *)
LEMMA MoveConstructKeeps ==
  ASSUME IInv, NEW m \in Module, NEW n \in Module, MoveConstruct(m, n)
  PROVE  IInv' /\ (NoCycle(children) => NoCycle(children'))
<1>1. /\ m \notin exists /\ n \in held /\ m # n
      /\ exists' = exists \cup {m} /\ held' = held \cup {m}
      /\ children' = [children EXCEPT ![m] = children[n], ![n] = <<>>]
  BY DEF MoveConstruct, IInv, Typed
<1>2. children \in Tree /\ n \in exists /\ exists \subseteq Module
  BY <1>1 DEF IInv, Typed
<1>3. \A x, y \in Module : ChildOf(x, y, children')
        <=> y # n /\ ((y # m /\ ChildOf(x, y, children)) \/ (y = m /\ ChildOf(x, n, children)))
  BY <1>1, <1>2, ParentsOfMoved
<1>4. Typed'
  BY <1>1, <1>2, MoveIsTree DEF IInv, Typed
<1>5. ChildrenExist'
  BY <1>1, <1>2, <1>3 DEF IInv, ChildrenExist
<1>6. Referred'
  <2> SUFFICES ASSUME NEW x \in exists, x \notin held'
               PROVE  \E y \in exists' : ChildOf(x, y, children')
    BY <1>1 DEF Referred
  <2>1. PICK y \in exists : ChildOf(x, y, children)
    BY <1>1 DEF IInv, Referred
  <2>2. CASE y = n
    BY <2>1, <2>2, <1>1, <1>2, <1>3
  <2>3. CASE y # n
    BY <2>1, <2>3, <1>1, <1>2, <1>3
  <2> QED
    BY <2>2, <2>3
<1>7. m \notin Below(n, children)
  <2> DEFINE Others == Module \ {m}
  <2>1. n \in Others /\ Closed(Others, children)
    BY <1>1 DEF Closed, IInv, ChildrenExist
  <2> QED
    BY <2>1 DEF Below
<1>8. NoCycle(children) => NoCycle(children')
  BY <1>1, <1>2, <1>7, MoveMakesNoCycle
<1> QED
  BY <1>4, <1>5, <1>6, <1>8 DEF IInv

LEMMA MoveAssignKeeps ==
  ASSUME IInv, NEW m \in Module, NEW n \in Module, MoveAssign(m, n)
  PROVE  IInv' /\ (NoCycle(children) /\ m \notin Below(n, children) => NoCycle(children'))
<1> DEFINE moved == [children EXCEPT ![m] = children[n], ![n] = <<>>]
           leaves == [parameters EXCEPT ![m] = parameters[n], ![n] = <<>>]
<1>1. m \in held /\ n \in held /\ m # n /\ Settle(exists, held, leaves, moved)
  BY DEF MoveAssign
<1>2. Typed /\ children \in Tree /\ held \in SUBSET exists /\ moved \in Tree
  BY MoveIsTree DEF IInv, Typed
<1>3. \A x, y \in Module : ChildOf(x, y, moved) => x \in exists /\ y \in exists
  <2>1. \A x, y \in Module : ChildOf(x, y, moved)
          <=> y # n /\ ((y # m /\ ChildOf(x, y, children)) \/ (y = m /\ ChildOf(x, n, children)))
    BY <1>1, <1>2, ParentsOfMoved
  <2> QED
    BY <2>1, <1>1, <1>2 DEF IInv, ChildrenExist
<1> HIDE DEF moved, leaves
<1>4. IInv' /\ \A x, y \in Module : ChildOf(x, y, children') => ChildOf(x, y, moved)
  BY <1>1, <1>2, <1>3, SettleKeeps
<1>5. NoCycle(children) /\ m \notin Below(n, children) => NoCycle(moved)
  BY <1>1, <1>2, MoveMakesNoCycle DEF moved
<1> QED
  BY <1>4, <1>5, LossMakesNoCycle

LEMMA RegisterKeeps ==
  ASSUME IInv, NEW m \in held, NEW c \in Module,
         NEW name \in Names \cup {<<Numeral(Len(children[m]))>>}, RegisterModule(m, name, c)
  PROVE  IInv' /\ (NoCycle(children) => NoCycle(children'))
<1> DEFINE e == [name |-> name, module |-> c]
<1>1. Typed /\ m \in Module /\ m \in exists /\ children \in Tree
  BY DEF IInv, Typed
<1>2. e \in Child /\ children' = [children EXCEPT ![m] = Append(@, e)]
      /\ m \notin Below(c, children) /\ c \in held
  BY <1>1, RegistrationAppends
<1>3. UNCHANGED <<exists, held>>
  BY DEF RegisterModule
<1>4. c \in exists /\ e.module = c
  BY <1>2 DEF IInv, Typed
<1> HIDE DEF e
<1>5. \A x, y \in Module : ChildOf(x, y, children')
        <=> ChildOf(x, y, children) \/ (y = m /\ x = c)
  BY <1>1, <1>2, <1>4, ParentsOfAppend
<1>6. Typed'
  BY <1>1, <1>2, <1>3, AppendIsTree DEF IInv, Typed
<1>7. ChildrenExist'
  BY <1>1, <1>3, <1>4, <1>5 DEF IInv, ChildrenExist
<1>8. Referred'
  BY <1>1, <1>3, <1>5 DEF IInv, Typed, Referred
<1>9. NoCycle(children) => NoCycle(children')
  BY <1>1, <1>2, <1>4, AppendMakesNoCycle
<1> QED
  BY <1>6, <1>7, <1>8, <1>9 DEF IInv
-----------------------------------------------------------------------------
LEMMA InitEstablishes == Init => IInv
<1> SUFFICES ASSUME Init
             PROVE  IInv
  OBVIOUS
<1>1. Typed
  BY DEF Init, Typed, Tree
<1>2. ChildrenExist
  BY DEF Init, ChildrenExist, ChildOf
<1> QED
  BY <1>1, <1>2 DEF Init, IInv, Referred

(* Each step keeps the invariant, and only a move into a module below the  *)
(* source may make a cycle.                                                *)
LEMMA StepKeeps ==
  ASSUME IInv, [Next]_vars
  PROVE  /\ IInv'
         /\ \/ NoCycle(children) => NoCycle(children')
            \/ \E m, n \in Module : MoveAssign(m, n) /\ m \in Below(n, children)
<1>1. ASSUME NEW m \in Module, Create(m)
      PROVE  IInv' /\ (NoCycle(children) => NoCycle(children'))
  <2>1. exists' = exists \cup {m} /\ held' = held \cup {m} /\ children' = children
    BY <1>1 DEF Create
  <2> QED
    BY <2>1 DEF IInv, Typed, ChildrenExist, Referred
<1>2. ASSUME NEW m \in Module, Drop(m)
      PROVE  IInv' /\ (NoCycle(children) => NoCycle(children'))
  <2>1. Typed /\ children \in Tree /\ held \ {m} \in SUBSET exists
    BY DEF IInv, Typed
  <2>2. Settle(exists, held \ {m}, parameters, children)
    BY <1>2 DEF Drop
  <2>3. \A x, y \in Module : ChildOf(x, y, children) => x \in exists /\ y \in exists
    BY DEF IInv, ChildrenExist
  <2>4. IInv' /\ \A x, y \in Module : ChildOf(x, y, children') => ChildOf(x, y, children)
    BY <2>1, <2>2, <2>3, SettleKeeps
  <2> QED
    BY <2>4, LossMakesNoCycle
<1>3. ASSUME UNCHANGED <<exists, held, children>>
      PROVE  IInv' /\ (NoCycle(children) => NoCycle(children'))
  BY <1>3 DEF IInv, Typed, ChildrenExist, Referred
<1>4. ASSUME NEW m \in Module, NEW n \in Module, NEW name \in Names, Register(m, name, n)
      PROVE  IInv' /\ (NoCycle(children) => NoCycle(children'))
  BY <1>4, RegisterKeeps DEF Register
<1>5. ASSUME NEW m \in Module, NEW n \in Module, Add(m, n)
      PROVE  IInv' /\ (NoCycle(children) => NoCycle(children'))
  BY <1>5, RegisterKeeps DEF Add
<1>6. ASSUME NEW m \in Module, NEW n \in Module, MoveConstruct(m, n)
      PROVE  IInv' /\ (NoCycle(children) => NoCycle(children'))
  BY <1>6, MoveConstructKeeps
<1>7. ASSUME NEW m \in Module, NEW n \in Module, MoveAssign(m, n)
      PROVE  IInv' /\ (NoCycle(children) /\ m \notin Below(n, children) => NoCycle(children'))
  BY <1>7, MoveAssignKeeps
<1>8. CASE UNCHANGED vars
  BY <1>8, <1>3 DEF vars
<1>9. CASE Next
  <2>1. CASE \E m \in Module : Create(m) \/ Drop(m)
    BY <2>1, <1>1, <1>2
  <2>2. CASE \E m \in Module : ZeroGrad(m)
    BY <2>2, <1>3 DEF ZeroGrad
  <2>3. CASE \E m \in Module, name \in Names, v \in Variable : RegisterParameter(m, name, v)
    BY <2>3, <1>3 DEF RegisterParameter
  <2>4. CASE \E v \in Variable : Backward(v)
    BY <2>4, <1>3 DEF Backward
  <2>5. CASE \E m, n \in Module : Add(m, n) \/ MoveConstruct(m, n)
    BY <2>5, <1>5, <1>6
  <2>6. CASE \E m, n \in Module, name \in Names : Register(m, name, n)
    BY <2>6, <1>4
  <2>7. CASE \E m, n \in Module : MoveAssign(m, n)
    BY <2>7, <1>7
  <2> QED
    BY <1>9, <2>1, <2>2, <2>3, <2>4, <2>5, <2>6, <2>7 DEF Next
<1> QED
  BY <1>8, <1>9

(* Every module that exists is referred to by the program or by a module   *)
(* that exists, and every child exists: shared_ptr, in shape.              *)
THEOREM Invariance == Spec => []IInv
<1>1. IInv /\ [Next]_vars => IInv'
  BY StepKeeps
<1> QED
  BY <1>1, InitEstablishes, PTL DEF Spec

(* register_module and Sequential::add make no cycle, and a move makes one *)
(* only when its target is below its source.                               *)
THEOREM CheckIsEnough == Spec => OnlyMovesMakeCycles
<1>1. IInv /\ [Next]_vars =>
        [NoCycle(children) =>
           \/ NoCycle(children)'
           \/ \E m, n \in Module : MoveAssign(m, n) /\ m \in Below(n, children)]_vars
  <2>1. NoCycle(children)' <=> NoCycle(children')
    BY DEF NoCycle, NoCycleIn, ChildOf
  <2> QED
    BY <2>1, StepKeeps
<1> QED
  BY <1>1, Invariance, PTL DEF Spec, OnlyMovesMakeCycles

(* As long as there is no cycle, no module outlives the last path to it    *)
(* from a module the program holds.                                        *)
THEOREM SharedOwnershipIsSound == Spec => []LeaksOnlyInCycles
<1>1. IInv => LeaksOnlyInCycles
  <2> SUFFICES ASSUME IInv, NoCycle(children), NEW x \in exists,
                      ~\E h \in held : x \in Below(h, children)
               PROVE  FALSE
    BY DEF LeaksOnlyInCycles
  <2> DEFINE lost == {z \in exists : ~\E h \in held : z \in Below(h, children)}
  <2>1. exists \subseteq Module /\ held \subseteq exists
    BY DEF IInv, Typed
  <2>2. PICK top \in lost : \A y \in lost : ~ChildOf(top, y, children)
    BY <2>1 DEF NoCycle, NoCycleIn
  <2>3. top \notin held
    BY <2>1, BelowIsClosed
  <2>4. PICK y \in exists : ChildOf(top, y, children)
    BY <2>3 DEF IInv, Referred
  <2>5. PICK h \in held : y \in Below(h, children)
    BY <2>2, <2>4
  <2>6. top \in Below(h, children)
    BY <2>1, <2>4, <2>5, BelowIsClosed DEF Closed
  <2> QED
    BY <2>6, <2>2
<1> QED
  BY <1>1, Invariance, PTL

-----------------------------------------------------------------------------
(* The names of one module: none is empty, and no two entries share one.   *)
Part == (UNION {Range(name) : name \in Names}) \cup {Numeral(i) : i \in Nat}
Leaf == [name : AnyName, parameter : Variable]
Leaves == [Module -> Seq(Leaf)]

Told(entries) ==
  /\ \A i \in DOMAIN entries : entries[i].name # <<>>
  /\ \A i, j \in DOMAIN entries : i # j => entries[i].name # entries[j].name

NameInv ==
  /\ parameters \in Leaves
  /\ \A x \in Module : Told(parameters[x]) /\ Told(children[x])

LEMMA NothingTold == Told(<<>>)
  BY DEF Told

LEMMA AppendTold ==
  ASSUME NEW S, NEW s \in Seq(S), NEW e, Told(s), e.name # <<>>, e.name \notin NameOf(s)
  PROVE  Told(Append(s, e))
<1>1. \A i \in DOMAIN s : s[i].name # e.name
  BY DEF NameOf
<1>2. /\ Len(s) \in Nat /\ DOMAIN s = 1 .. Len(s)
      /\ DOMAIN Append(s, e) = 1 .. Len(s) + 1
      /\ Append(s, e)[Len(s) + 1] = e
      /\ \A i \in 1 .. Len(s) : Append(s, e)[i] = s[i]
  OBVIOUS
<1>3. \A i \in 1 .. Len(s) + 1 : i = Len(s) + 1 \/ i \in 1 .. Len(s)
  BY <1>2
<1>. QED
  BY <1>1, <1>2, <1>3 DEF Told

(* What a step makes of the entries of a module: nothing, those of some    *)
(* module, or one more under a name that is free.                          *)
Successor(entries, all, S) ==
  \/ entries = <<>>
  \/ \E y \in Module : entries = all[y]
  \/ \E y \in Module, e \in S :
       entries = Append(all[y], e) /\ e.name # <<>> /\ e.name \notin NameOf(all[y])

LEMMA SuccessorTold ==
  ASSUME NEW S, NEW all \in [Module -> Seq(S)], \A y \in Module : Told(all[y]),
         NEW entries, Successor(entries, all, S)
  PROVE  entries \in Seq(S) /\ Told(entries)
<1>1. CASE entries = <<>>
  BY <1>1, NothingTold
<1>2. CASE \E y \in Module : entries = all[y]
  BY <1>2
<1>3. ASSUME NEW y \in Module, NEW e \in S, entries = Append(all[y], e),
             e.name # <<>>, e.name \notin NameOf(all[y])
      PROVE  entries \in Seq(S) /\ Told(entries)
  BY <1>3, AppendTold
<1>. QED
  BY <1>1, <1>2, <1>3 DEF Successor

LEMMA SettleSucceeds ==
  ASSUME NEW M, NEW handles, NEW leaves, NEW tree, Settle(M, handles, leaves, tree),
         NEW x \in Module
  PROVE  /\ parameters'[x] = <<>> \/ parameters'[x] = leaves[x]
         /\ children'[x] = <<>> \/ children'[x] = tree[x]
         /\ parameters' = [m \in Module |-> parameters'[m]]
  BY DEF Settle

LEMMA MovedEntries ==
  ASSUME NEW all, NEW m \in Module, NEW n \in Module, DOMAIN all = Module, NEW x \in Module
  PROVE  \/ [all EXCEPT ![m] = all[n], ![n] = <<>>][x] = <<>>
         \/ \E y \in Module : [all EXCEPT ![m] = all[n], ![n] = <<>>][x] = all[y]
  OBVIOUS

LEMMA AppendedEntries ==
  ASSUME NEW S, NEW all \in [Module -> Seq(S)], NEW m \in Module, NEW e \in S,
         e.name # <<>>, e.name \notin NameOf(all[m]), NEW x \in Module
  PROVE  Successor([all EXCEPT ![m] = Append(@, e)][x], all, S)
<1>1. CASE x = m
  BY <1>1 DEF Successor
<1>2. CASE x # m
  BY <1>2 DEF Successor
<1>. QED
  BY <1>1, <1>2

LEMMA NamesNext ==
  ASSUME IInv, NameInv, [Next]_vars
  PROVE  NameInv'
<1>0. /\ parameters \in [Module -> Seq(Leaf)] /\ children \in [Module -> Seq(Child)]
      /\ held \subseteq Module
  BY DEF NameInv, Leaves, IInv, Typed, Tree
<1>. SUFFICES /\ parameters' = [m \in Module |-> parameters'[m]]
              /\ \A x \in Module : /\ Successor(parameters'[x], parameters, Leaf)
                                   /\ Successor(children'[x], children, Child)
  <2>. SUFFICES ASSUME NEW x \in Module
                PROVE  parameters'[x] \in Seq(Leaf) /\ Told(parameters'[x]) /\ Told(children'[x])
    BY DEF NameInv, Leaves
  <2>. QED  BY <1>0, SuccessorTold DEF NameInv
<1>1. CASE UNCHANGED <<parameters, children>>
  BY <1>0, <1>1 DEF Successor
<1>3. ASSUME NEW m \in Module, Drop(m)
      PROVE  /\ parameters' = [y \in Module |-> parameters'[y]]
             /\ \A x \in Module : /\ Successor(parameters'[x], parameters, Leaf)
                                  /\ Successor(children'[x], children, Child)
  <2>1. Settle(exists, held \ {m}, parameters, children)
    BY <1>3 DEF Drop
  <2>. QED  BY <2>1, SettleSucceeds DEF Successor
<1>4. ASSUME NEW m \in Module, NEW name \in Names, NEW v \in Variable, RegisterParameter(m, name, v)
      PROVE  /\ parameters' = [y \in Module |-> parameters'[y]]
             /\ \A x \in Module : /\ Successor(parameters'[x], parameters, Leaf)
                                  /\ Successor(children'[x], children, Child)
  <2>. DEFINE e == [name |-> name, parameter |-> v]
  <2>1. /\ e \in Leaf /\ e.name # <<>> /\ e.name \notin NameOf(parameters[m])
        /\ parameters' = [parameters EXCEPT ![m] = Append(@, e)]
        /\ children' = children
    BY <1>4 DEF RegisterParameter, Leaf, AnyName
  <2>. HIDE DEF e
  <2>2. \A x \in Module : Successor(parameters'[x], parameters, Leaf)
    BY <1>0, <2>1, AppendedEntries
  <2>. QED  BY <1>0, <2>1, <2>2 DEF Successor
<1>5. ASSUME NEW m \in Module, NEW c \in Module,
             NEW name \in Names \cup {<<Numeral(Len(children[m]))>>}, RegisterModule(m, name, c)
      PROVE  /\ parameters' = [y \in Module |-> parameters'[y]]
             /\ \A x \in Module : /\ Successor(parameters'[x], parameters, Leaf)
                                  /\ Successor(children'[x], children, Child)
  <2>. DEFINE e == [name |-> name, module |-> c]
  <2>1. e \in Child /\ children' = [children EXCEPT ![m] = Append(@, e)]
    BY <1>5, RegistrationAppends DEF IInv
  <2>2. e.name # <<>> /\ e.name \notin NameOf(children[m]) /\ parameters' = parameters
    BY <1>5 DEF RegisterModule
  <2>. HIDE DEF e
  <2>3. \A x \in Module : Successor(children'[x], children, Child)
    BY <1>0, <2>1, <2>2, AppendedEntries
  <2>. QED  BY <1>0, <2>2, <2>3 DEF Successor
<1>6. ASSUME NEW m \in Module, NEW n \in Module, MoveConstruct(m, n)
      PROVE  /\ parameters' = [y \in Module |-> parameters'[y]]
             /\ \A x \in Module : /\ Successor(parameters'[x], parameters, Leaf)
                                  /\ Successor(children'[x], children, Child)
  <2>1. /\ parameters' = [parameters EXCEPT ![m] = parameters[n], ![n] = <<>>]
        /\ children' = [children EXCEPT ![m] = children[n], ![n] = <<>>]
    BY <1>6 DEF MoveConstruct
  <2>. QED  BY <1>0, <2>1, MovedEntries DEF Successor
<1>7. ASSUME NEW m \in Module, NEW n \in Module, MoveAssign(m, n)
      PROVE  /\ parameters' = [y \in Module |-> parameters'[y]]
             /\ \A x \in Module : /\ Successor(parameters'[x], parameters, Leaf)
                                  /\ Successor(children'[x], children, Child)
  <2>. DEFINE leaves == [parameters EXCEPT ![m] = parameters[n], ![n] = <<>>]
              tree == [children EXCEPT ![m] = children[n], ![n] = <<>>]
  <2>1. Settle(exists, held, leaves, tree)
    BY <1>7 DEF MoveAssign
  <2>2. \A x \in Module : /\ leaves[x] = <<>> \/ \E y \in Module : leaves[x] = parameters[y]
                          /\ tree[x] = <<>> \/ \E y \in Module : tree[x] = children[y]
    BY <1>0, MovedEntries
  <2>. HIDE DEF leaves, tree
  <2>. QED  BY <2>1, <2>2, SettleSucceeds DEF Successor
<1>8. CASE UNCHANGED vars
  BY <1>1, <1>8 DEF vars
<1>9. CASE Next
  <2>1. CASE \E m \in Module : Create(m) \/ ZeroGrad(m)
    BY <1>1, <2>1 DEF Create, ZeroGrad
  <2>2. CASE \E v \in Variable : Backward(v)
    BY <1>1, <2>2 DEF Backward
  <2>3. CASE \E m \in Module : Drop(m)
    BY <1>3, <2>3
  <2>4. CASE \E m \in Module, name \in Names, v \in Variable : RegisterParameter(m, name, v)
    BY <1>4, <2>4
  <2>5. CASE \E m, n \in Module, name \in Names : Register(m, name, n)
    BY <1>5, <2>5 DEF Register
  <2>6. CASE \E m, n \in Module : Add(m, n)
    BY <1>5, <2>6 DEF Add
  <2>7. CASE \E m, n \in Module : MoveConstruct(m, n)
    BY <1>6, <2>7
  <2>8. CASE \E m, n \in Module : MoveAssign(m, n)
    BY <1>7, <2>8
  <2>. QED
    BY <1>9, <2>1, <2>2, <2>3, <2>4, <2>5, <2>6, <2>7, <2>8 DEF Next
<1>. QED
  BY <1>8, <1>9

LEMMA NamesInvariance == Spec => []NameInv
<1>1. Init => NameInv
  BY NothingTold DEF Init, NameInv, Leaves
<1>2. IInv /\ NameInv /\ [Next]_vars => NameInv'
  BY NamesNext
<1>. QED
  BY <1>1, <1>2, Invariance, PTL DEF Spec

-----------------------------------------------------------------------------
(* Induction, and the recursive functions of named_parameters.             *)

(* Every non-empty set of natural numbers has a least element, and so a    *)
(* set that holds 0 and the successor of each element holds them all.      *)
LEMMA LeastExists ==
  ASSUME NEW T \in SUBSET Nat, T # {}
  PROVE  \E n \in T : \A m \in T : ~ (m < n)
<1> DEFINE R == OpToRel(<, Nat)
<1>1. IsWellFoundedOn(R, Nat)
  BY NatLessThanWellFounded
<1>2. PICK n \in T : \A m \in T : ~ (<<m, n>> \in R)
  <2>. HIDE DEF R
  <2>. QED
    BY <1>1, WFMin
<1>. QED
  BY <1>2 DEF OpToRel

LEMMA Induction ==
  ASSUME NEW S, 0 \in S, \A k \in Nat : k \in S => k + 1 \in S
  PROVE  \A k \in Nat : k \in S
<1>. DEFINE T == {k \in Nat : k \notin S}
<1>. SUFFICES ASSUME T # {} PROVE FALSE
  OBVIOUS
<1>1. T \in SUBSET Nat
  OBVIOUS
<1>2. PICK n \in T : \A m \in T : ~ (m < n)
  <2>. HIDE DEF T
  <2>. QED  BY <1>1, LeastExists
<1>3. n \in Nat /\ n # 0
  OBVIOUS
<1>4. n - 1 \in Nat /\ n - 1 < n /\ (n - 1) + 1 = n
  BY <1>3
<1>5. n - 1 \in S
  BY <1>2, <1>4
<1>6. n \in S
  BY <1>4, <1>5
<1>. QED
  BY <1>6

Entry == [name : Seq(Part), parameter : Variable]

(* FlattenSeq(seqs) is the last of its prefixes, which grow by one sequence *)
(* at a time.                                                              *)
Flat(f, seqs, m) ==
  f = [i \in 1 .. m |-> IF i = 1 THEN seqs[i] ELSE f[i - 1] \o seqs[i]]

LEMMA FlatExtends ==
  ASSUME NEW f, NEW seqs, NEW m \in Nat, m # 0, Flat(f, seqs, m)
  PROVE  \E g : Flat(g, seqs, m + 1)
<1>. DEFINE Grown(i, s) == s \o seqs[i]
<1>1. \A h, k : Flat(h, seqs, k) <=>
        h = [i \in 1 .. k |-> IF i = 1 THEN seqs[i] ELSE Grown(i, h[i - 1])]
  BY DEF Flat
<1>. HIDE DEF Grown
<1>2. f = [i \in 1 .. m |-> IF i = 1 THEN seqs[i] ELSE Grown(i, f[i - 1])]
  BY <1>1
<1>3. PICK g : g = [i \in 1 .. m + 1 |-> IF i = m + 1 THEN Grown(i, f[m]) ELSE f[i]]
  OBVIOUS
<1>4. \A i \in 1 .. m : g[i] = f[i]
  BY <1>3
<1>5. ASSUME NEW i \in 1 .. m + 1
      PROVE  g[i] = IF i = 1 THEN seqs[i] ELSE Grown(i, g[i - 1])
  <2>1. CASE i = m + 1
    <3>1. i - 1 = m /\ m \in 1 .. m /\ i # 1
      BY <2>1
    <3>2. g[i - 1] = f[m] /\ g[i] = Grown(i, f[m])
      BY <1>3, <1>4, <2>1, <3>1
    <3>. QED  BY <3>1, <3>2
  <2>2. CASE i \in 1 .. m /\ i # 1
    <3>1. i - 1 \in 1 .. m
      BY <2>2
    <3>2. f[i] = Grown(i, f[i - 1])
      BY <1>2, <2>2
    <3>. QED  BY <1>4, <2>2, <3>1, <3>2
  <2>3. CASE i = 1
    <3>1. 1 \in 1 .. m
      OBVIOUS
    <3>2. f[1] = seqs[1]
      BY <1>2, <3>1
    <3>. QED  BY <1>4, <2>3, <3>1, <3>2
  <2>. QED  BY <2>1, <2>2, <2>3
<1>6. g = [i \in 1 .. m + 1 |-> IF i = 1 THEN seqs[i] ELSE Grown(i, g[i - 1])]
  BY <1>3, <1>5
<1>. QED
  BY <1>1, <1>6

LEMMA FlatAt ==
  ASSUME NEW f, NEW seqs, NEW m, Flat(f, seqs, m), NEW i \in 1 .. m
  PROVE  f[i] = IF i = 1 THEN seqs[i] ELSE f[i - 1] \o seqs[i]
<1>. DEFINE Grown(j, s) == s \o seqs[j]
<1>1. f = [j \in 1 .. m |-> IF j = 1 THEN seqs[j] ELSE Grown(j, f[j - 1])]
  BY DEF Flat
<1>. HIDE DEF Grown
<1>2. f[i] = IF i = 1 THEN seqs[i] ELSE Grown(i, f[i - 1])
  BY <1>1
<1>. QED
  BY <1>2 DEF Grown

LEMMA FlatExists ==
  ASSUME NEW seqs, NEW m \in Nat
  PROVE  \E f : Flat(f, seqs, m)
<1>. DEFINE S == {k \in Nat : \E f : Flat(f, seqs, k)}
<1>1. 0 \in S
  <2>1. PICK f : f = [i \in 1 .. 0 |-> seqs]
    OBVIOUS
  <2>2. Flat(f, seqs, 0)
    BY <2>1 DEF Flat
  <2>. QED  BY <2>2
<1>2. 1 \in S
  <2>1. PICK f : f = [i \in 1 .. 1 |-> seqs[i]]
    OBVIOUS
  <2>2. Flat(f, seqs, 1)
    BY <2>1 DEF Flat
  <2>. QED  BY <2>2
<1>3. \A k \in Nat : k \in S => k + 1 \in S
  BY <1>2, FlatExtends
<1>. HIDE DEF S
<1>4. m \in S
  BY <1>1, <1>3, Induction
<1>. QED  BY <1>4 DEF S

(* F[k]: the first k sequences, flattened.                                 *)
FlatPrefixes(F, seqs) ==
  /\ F[0] = <<>>
  /\ \A k \in 0 .. Len(seqs) - 1 : F[k + 1] = F[k] \o seqs[k + 1]
  /\ \A k \in 0 .. Len(seqs) : F[k] \in Seq(Entry)
  /\ FlattenSeq(seqs) = F[Len(seqs)]

LEMMA FlattenFact ==
  ASSUME NEW seqs \in Seq(Seq(Entry))
  PROVE  \E F : FlatPrefixes(F, seqs)
<1>. DEFINE m == Len(seqs)
            f == CHOOSE g : Flat(g, seqs, m)
<1>1. m \in Nat /\ \A i \in 1 .. m : seqs[i] \in Seq(Entry)
  OBVIOUS
<1>2. Flat(f, seqs, m)
  BY <1>1, FlatExists
<1>3. FlattenSeq(seqs) = IF m = 0 THEN seqs ELSE f[m]
  BY DEF FlattenSeq, Flat
<1>4. m = 0 => seqs = <<>>
  OBVIOUS
<1>. HIDE DEF f, m
<1>5. PICK F : F = [k \in 0 .. m |-> IF k = 0 THEN <<>> ELSE f[k]]
  OBVIOUS
<1>6. F[0] = <<>> /\ FlattenSeq(seqs) = F[m]
  BY <1>1, <1>3, <1>4, <1>5
<1>. DEFINE S == {k \in Nat : k <= m => F[k] \in Seq(Entry)}
<1>7. 0 \in S
  <2>1. F[0] \in Seq(Entry)
    BY <1>6
  <2>. QED  BY <2>1
<1>8. ASSUME NEW k \in Nat, k + 1 <= m, F[k] \in Seq(Entry)
      PROVE  F[k + 1] = F[k] \o seqs[k + 1] /\ F[k + 1] \in Seq(Entry)
  <2>1. k + 1 \in 1 .. m /\ k + 1 \in 0 .. m /\ k + 1 # 0 /\ (k + 1) - 1 = k /\ k \in 0 .. m
    BY <1>1, <1>8
  <2>2. F[k + 1] = f[k + 1]
    BY <1>5, <2>1
  <2>3. CASE k = 0
    <3>1. f[k + 1] = seqs[k + 1]
      BY <1>2, <2>1, <2>3 DEF Flat
    <3>2. seqs[k + 1] \in Seq(Entry)
      BY <1>1, <2>1
    <3>3. <<>> \o seqs[k + 1] = seqs[k + 1]
      BY <3>2
    <3>. QED  BY <1>6, <2>2, <2>3, <3>1, <3>2, <3>3
  <2>4. CASE k # 0
    <3>1. f[k + 1] = f[k] \o seqs[k + 1]
      <4>1. k + 1 # 1
        BY <2>4
      <4>2. PICK l \in 1 .. m : l = k + 1
        BY <2>1
      <4>3. f[l] = IF l = 1 THEN seqs[l] ELSE f[l - 1] \o seqs[l]
        BY <1>2, FlatAt
      <4>4. l - 1 = k
        BY <4>2
      <4>. QED  BY <4>1, <4>2, <4>3, <4>4
    <3>2. F[k] = f[k]
      BY <1>5, <2>1, <2>4
    <3>3. seqs[k + 1] \in Seq(Entry)
      BY <1>1, <2>1
    <3>4. F[k + 1] = F[k] \o seqs[k + 1]
      BY <2>2, <3>1, <3>2
    <3>5. F[k] \o seqs[k + 1] \in Seq(Entry)
      BY <1>8, <3>3, ConcatProperties
    <3>. QED  BY <3>4, <3>5
  <2>. QED  BY <2>3, <2>4
<1>9. \A k \in Nat : k \in S
  <2>1. ASSUME NEW k \in Nat, k \in S PROVE k + 1 \in S
    <3>. SUFFICES ASSUME k + 1 <= m PROVE F[k + 1] \in Seq(Entry)
      OBVIOUS
    <3>1. k <= m
      BY <1>1
    <3>2. F[k] \in Seq(Entry)
      BY <2>1, <3>1
    <3>. QED  BY <1>8, <3>2
  <2>. HIDE DEF S
  <2>. QED  BY <1>7, <2>1, Induction
<1>10. \A k \in 0 .. m : F[k] \in Seq(Entry)
  BY <1>1, <1>9
<1>11. \A k \in 0 .. m - 1 : F[k + 1] = F[k] \o seqs[k + 1]
  <2>. SUFFICES ASSUME NEW k \in 0 .. m - 1 PROVE F[k + 1] = F[k] \o seqs[k + 1]
    OBVIOUS
  <2>1. k \in Nat /\ k + 1 <= m /\ k \in 0 .. m
    BY <1>1
  <2>. QED  BY <1>8, <1>10, <2>1
<1>. QED
  BY <1>6, <1>10, <1>11 DEF FlatPrefixes, m

(* The listings of all modules, level by level.                            *)
Inner(tree, level, x) ==
  [i \in DOMAIN tree[x] |-> Under(tree[x][i].name, level[tree[x][i].module])]
Level(leaves, tree, level) ==
  [x \in Module |-> leaves[x] \o FlattenSeq(Inner(tree, level, x))]
Levels(f, leaves, tree, m) ==
  f = [depth \in 0 .. m |->
        [x \in Module |->
          IF depth = 0 THEN <<>> ELSE leaves[x] \o FlattenSeq(Inner(tree, f[depth - 1], x))]]

LEMMA LevelsExtend ==
  ASSUME NEW f, NEW leaves, NEW tree, NEW m \in Nat, Levels(f, leaves, tree, m)
  PROVE  \E g : Levels(g, leaves, tree, m + 1)
<1>. DEFINE Up(level) == Level(leaves, tree, level)
            None == [x \in Module |-> <<>>]
<1>1. \A h, k : Levels(h, leaves, tree, k) <=>
        h = [depth \in 0 .. k |-> IF depth = 0 THEN None ELSE Up(h[depth - 1])]
  BY DEF Levels, Level
<1>. HIDE DEF Up, None
<1>2. PICK g : g = [i \in 0 .. m + 1 |-> IF i = m + 1 THEN Up(f[m]) ELSE f[i]]
  OBVIOUS
<1>3. \A i \in 0 .. m : g[i] = f[i]
  BY <1>2
<1>4. f = [depth \in 0 .. m |-> IF depth = 0 THEN None ELSE Up(f[depth - 1])]
  BY <1>1
<1>5. ASSUME NEW i \in 0 .. m + 1
      PROVE  g[i] = IF i = 0 THEN None ELSE Up(g[i - 1])
  <2>1. CASE i = m + 1
    <3>1. i - 1 = m /\ m \in 0 .. m /\ i # 0
      BY <2>1
    <3>2. g[i - 1] = f[m] /\ g[i] = Up(f[m])
      BY <1>2, <1>3, <2>1, <3>1
    <3>. QED  BY <3>1, <3>2
  <2>2. CASE i \in 0 .. m /\ i # 0
    <3>1. i - 1 \in 0 .. m
      BY <2>2
    <3>2. f[i] = Up(f[i - 1])
      BY <1>4, <2>2
    <3>. QED  BY <1>3, <2>2, <3>1, <3>2
  <2>3. CASE i = 0
    <3>1. 0 \in 0 .. m
      OBVIOUS
    <3>2. f[0] = None
      BY <1>4, <3>1
    <3>. QED  BY <1>3, <2>3, <3>1, <3>2
  <2>. QED  BY <2>1, <2>2, <2>3
<1>6. g = [depth \in 0 .. m + 1 |-> IF depth = 0 THEN None ELSE Up(g[depth - 1])]
  BY <1>2, <1>5
<1>. QED
  BY <1>1, <1>6

Climbs(f, leaves, tree, m) ==
  /\ f[0] = [x \in Module |-> <<>>]
  /\ \A d \in 0 .. m - 1 : f[d + 1] = Level(leaves, tree, f[d])
  /\ Listing(leaves, tree) = f[m]

LEMMA ListingFact ==
  ASSUME NEW leaves, NEW tree, NEW m \in Nat, m = Cardinality(Module)
  PROVE  \E f : Climbs(f, leaves, tree, m)
<1>. DEFINE S == {k \in Nat : \E f : Levels(f, leaves, tree, k)}
<1>1. 0 \in S
  <2>1. PICK f : f = [depth \in 0 .. 0 |-> [x \in Module |-> <<>>]]
    OBVIOUS
  <2>2. \A d \in 0 .. 0 : d = 0
    OBVIOUS
  <2>3. Levels(f, leaves, tree, 0)
    BY <2>1, <2>2 DEF Levels
  <2>. QED  BY <2>3
<1>2. \A k \in Nat : k \in S => k + 1 \in S
  BY LevelsExtend
<1>3. m \in S
  <2>. HIDE DEF S
  <2>. QED  BY <1>1, <1>2, Induction
<1>. DEFINE f == CHOOSE g : Levels(g, leaves, tree, m)
<1>4. Levels(f, leaves, tree, m)
  BY <1>3
<1>5. Listing(leaves, tree) = f[m]
  BY DEF Listing, Levels, Inner
<1>. HIDE DEF f
<1>6. f[0] = [x \in Module |-> <<>>]
  <2>1. 0 \in 0 .. m
    OBVIOUS
  <2>. QED  BY <1>4, <2>1 DEF Levels
<1>7. ASSUME NEW d \in 0 .. m - 1 PROVE f[d + 1] = Level(leaves, tree, f[d])
  <2>1. d + 1 \in 0 .. m /\ d + 1 # 0 /\ (d + 1) - 1 = d
    OBVIOUS
  <2>2. f[d + 1] = [x \in Module |-> leaves[x] \o FlattenSeq(Inner(tree, f[d], x))]
    BY <1>4, <2>1 DEF Levels
  <2>. QED  BY <2>2 DEF Level
<1>. QED
  BY <1>5, <1>6, <1>7 DEF Climbs

-----------------------------------------------------------------------------
(* Types.                                                                  *)

LEMMA SeqMonotone ==
  ASSUME NEW S, NEW T, S \subseteq T, NEW s \in Seq(S)
  PROVE  s \in Seq(T)
<1>1. Len(s) \in Nat /\ \A i \in 1 .. Len(s) : s[i] \in T
  OBVIOUS
<1>2. s = [i \in 1 .. Len(s) |-> s[i]]
  OBVIOUS
<1>. QED
  BY <1>1, <1>2, SeqDef

LEMMA NameFact == AnyName \subseteq Seq(Part)
<1>. DEFINE Given == UNION {Range(name) : name \in Names}
<1>1. Given \subseteq Part /\ \A i \in Nat : Numeral(i) \in Part
  BY DEF Part
<1>2. Names \subseteq Seq(Given)
  BY ModuleAssumption
<1>. HIDE DEF Given
<1>3. \A name \in Names : name \in Seq(Part)
  BY <1>1, <1>2, SeqMonotone
<1>4. \A i \in Nat : <<Numeral(i)>> \in Seq(Part)
  BY <1>1
<1>. QED
  BY <1>3, <1>4 DEF AnyName

LEMMA LeafFact ==
  ASSUME NEW s \in Seq(Leaf) PROVE s \in Seq(Entry)
<1>1. Leaf \subseteq Entry
  BY NameFact DEF Leaf, Entry
<1>. QED
  BY <1>1, SeqMonotone

LEMMA UnderFact ==
  ASSUME NEW name \in Seq(Part), NEW s \in Seq(Entry)
  PROVE  /\ Under(name, s) \in Seq(Entry)
         /\ Len(Under(name, s)) = Len(s)
         /\ DOMAIN Under(name, s) = DOMAIN s
         /\ \A i \in DOMAIN s : Under(name, s)[i] = [s[i] EXCEPT !.name = name \o s[i].name]
         /\ \A i \in DOMAIN s : Under(name, s)[i].name = name \o s[i].name
<1>1. Len(s) \in Nat /\ DOMAIN s = 1 .. Len(s) /\ \A i \in 1 .. Len(s) : s[i] \in Entry
  OBVIOUS
<1>2. Under(name, s) = [i \in 1 .. Len(s) |-> [s[i] EXCEPT !.name = name \o s[i].name]]
  BY <1>1 DEF Under
<1>3. ASSUME NEW i \in 1 .. Len(s)
      PROVE  /\ [s[i] EXCEPT !.name = name \o s[i].name] \in Entry
             /\ [s[i] EXCEPT !.name = name \o s[i].name].name = name \o s[i].name
  <2>1. s[i] \in Entry /\ s[i].name \in Seq(Part)
    BY <1>1 DEF Entry
  <2>2. name \o s[i].name \in Seq(Part)
    BY <2>1, ConcatProperties
  <2>3. PICK long \in Seq(Part) : long = name \o s[i].name
    BY <2>2
  <2>4. [s[i] EXCEPT !.name = long] \in Entry /\ [s[i] EXCEPT !.name = long].name = long
    BY <2>1 DEF Entry
  <2>. QED  BY <2>3, <2>4
<1>4. \A i \in 1 .. Len(s) : Under(name, s)[i] = [s[i] EXCEPT !.name = name \o s[i].name]
  BY <1>2
<1>5. Under(name, s) \in Seq(Entry) /\ Len(Under(name, s)) = Len(s)
  <2>. DEFINE e(i) == [s[i] EXCEPT !.name = name \o s[i].name]
  <2>1. \A i \in 1 .. Len(s) : e(i) \in Entry
    BY <1>3
  <2>2. Under(name, s) = [i \in 1 .. Len(s) |-> e(i)]
    BY <1>2
  <2>. HIDE DEF e
  <2>. QED  BY <1>1, <2>1, <2>2
<1>6. DOMAIN Under(name, s) = DOMAIN s
  BY <1>1, <1>2
<1>. QED
  BY <1>1, <1>3, <1>4, <1>5, <1>6

LEMMA InnerFact ==
  ASSUME NEW tree \in Tree, NEW level \in [Module -> Seq(Entry)], NEW x \in Module
  PROVE  /\ Inner(tree, level, x) \in Seq(Seq(Entry))
         /\ Len(Inner(tree, level, x)) = Len(tree[x])
         /\ \A i \in 1 .. Len(tree[x]) :
              /\ tree[x][i] \in Child
              /\ tree[x][i].name \in Seq(Part) /\ tree[x][i].module \in Module
              /\ Inner(tree, level, x)[i] = Under(tree[x][i].name, level[tree[x][i].module])
<1>1. tree[x] \in Seq(Child)
  BY DEF Tree
<1>2. /\ Len(tree[x]) \in Nat /\ DOMAIN tree[x] = 1 .. Len(tree[x])
      /\ \A i \in 1 .. Len(tree[x]) : tree[x][i] \in Child
  BY <1>1
<1>3. \A i \in 1 .. Len(tree[x]) : tree[x][i].name \in Seq(Part) /\ tree[x][i].module \in Module
  BY <1>2, NameFact DEF Child
<1>. DEFINE e(i) == Under(tree[x][i].name, level[tree[x][i].module])
<1>4. \A i \in 1 .. Len(tree[x]) : e(i) \in Seq(Entry)
  BY <1>3, UnderFact
<1>5. Inner(tree, level, x) = [i \in 1 .. Len(tree[x]) |-> e(i)]
  BY <1>2 DEF Inner
<1>6. \A i \in 1 .. Len(tree[x]) : Inner(tree, level, x)[i] = e(i)
  BY <1>5
<1>7. Inner(tree, level, x) \in Seq(Seq(Entry)) /\ Len(Inner(tree, level, x)) = Len(tree[x])
  <2>. HIDE DEF e
  <2>. QED  BY <1>2, <1>4, <1>5
<1>. QED
  BY <1>2, <1>3, <1>6, <1>7

LEMMA FlattenType ==
  ASSUME NEW seqs \in Seq(Seq(Entry)) PROVE FlattenSeq(seqs) \in Seq(Entry)
<1>1. PICK F : FlatPrefixes(F, seqs)
  BY FlattenFact
<1>2. Len(seqs) \in Nat
  OBVIOUS
<1>. QED
  BY <1>1, <1>2 DEF FlatPrefixes

LEMMA LevelFact ==
  ASSUME NEW leaves \in Leaves, NEW tree \in Tree, NEW level \in [Module -> Seq(Entry)]
  PROVE  Level(leaves, tree, level) \in [Module -> Seq(Entry)]
<1>. SUFFICES ASSUME NEW x \in Module
              PROVE  leaves[x] \o FlattenSeq(Inner(tree, level, x)) \in Seq(Entry)
  BY DEF Level
<1>1. FlattenSeq(Inner(tree, level, x)) \in Seq(Entry)
  BY InnerFact, FlattenType
<1>2. leaves[x] \in Seq(Entry)
  BY LeafFact DEF Leaves
<1>. QED
  BY <1>1, <1>2, ConcatProperties

LEMMA DepthFact == Cardinality(Module) \in Nat
  BY ModuleAssumption, FS_CardinalityType

LEMMA ClimbType ==
  ASSUME NEW leaves \in Leaves, NEW tree \in Tree, NEW m \in Nat, NEW f, Climbs(f, leaves, tree, m)
  PROVE  \A d \in 0 .. m : f[d] \in [Module -> Seq(Entry)]
<1>. DEFINE S == {d \in Nat : d <= m => f[d] \in [Module -> Seq(Entry)]}
<1>1. 0 \in S
  <2>1. f[0] \in [Module -> Seq(Entry)]
    BY DEF Climbs
  <2>. QED  BY <2>1
<1>2. ASSUME NEW d \in Nat, d \in S PROVE d + 1 \in S
  <2>. SUFFICES ASSUME d + 1 <= m PROVE f[d + 1] \in [Module -> Seq(Entry)]
    OBVIOUS
  <2>1. d \in 0 .. m - 1 /\ d <= m
    OBVIOUS
  <2>2. f[d + 1] = Level(leaves, tree, f[d])
    BY <2>1 DEF Climbs
  <2>3. f[d] \in [Module -> Seq(Entry)]
    BY <1>2, <2>1
  <2>. QED  BY <2>2, <2>3, LevelFact
<1>3. \A d \in Nat : d \in S
  <2>. HIDE DEF S
  <2>. QED  BY <1>1, <1>2, Induction
<1>. QED
  BY <1>3

-----------------------------------------------------------------------------
(* Entries stay, in order.                                                 *)

LEMMA KeptMeaning ==
  ASSUME NEW s, NEW t
  PROVE  KeptIn(s, t) <=>
           /\ \A i \in DOMAIN s : \E k \in DOMAIN t : t[k] = s[i]
           /\ \A i, j \in DOMAIN s :
                i < j => \E k, l \in DOMAIN t : k < l /\ t[k] = s[i] /\ t[l] = s[j]
  BY DEF KeptIn, Range

LEMMA ConcatAt ==
  ASSUME NEW s \in Seq(Entry), NEW u \in Seq(Entry)
  PROVE  /\ DOMAIN (s \o u) = 1 .. Len(s) + Len(u)
         /\ \A i \in DOMAIN s : i \in DOMAIN (s \o u) /\ (s \o u)[i] = s[i]
         /\ \A j \in DOMAIN u : /\ Len(s) + j \in DOMAIN (s \o u)
                                /\ (s \o u)[Len(s) + j] = u[j]
         /\ \A k \in DOMAIN (s \o u) : \/ k \in DOMAIN s
                                       \/ \E j \in DOMAIN u : k = Len(s) + j
<1>1. /\ Len(s) \in Nat /\ Len(u) \in Nat
      /\ DOMAIN s = 1 .. Len(s) /\ DOMAIN u = 1 .. Len(u)
  OBVIOUS
<1>2. /\ s \o u \in Seq(Entry) /\ Len(s \o u) = Len(s) + Len(u)
      /\ \A i \in 1 .. Len(s) + Len(u) :
           (s \o u)[i] = IF i <= Len(s) THEN s[i] ELSE u[i - Len(s)]
  BY ConcatProperties
<1>3. DOMAIN (s \o u) = 1 .. Len(s) + Len(u)
  BY <1>2, LenProperties
<1>4. ASSUME NEW i \in DOMAIN s
      PROVE  i \in DOMAIN (s \o u) /\ (s \o u)[i] = s[i]
  <2>1. i \in 1 .. Len(s) + Len(u) /\ i <= Len(s)
    BY <1>1
  <2>. QED  BY <1>2, <1>3, <2>1
<1>5. ASSUME NEW j \in DOMAIN u
      PROVE  Len(s) + j \in DOMAIN (s \o u) /\ (s \o u)[Len(s) + j] = u[j]
  <2>1. /\ Len(s) + j \in 1 .. Len(s) + Len(u) /\ ~ (Len(s) + j <= Len(s))
        /\ (Len(s) + j) - Len(s) = j
    BY <1>1
  <2>. QED  BY <1>2, <1>3, <2>1
<1>6. ASSUME NEW k \in DOMAIN (s \o u)
      PROVE  k \in DOMAIN s \/ \E j \in DOMAIN u : k = Len(s) + j
  <2>1. CASE k <= Len(s)
    BY <1>1, <1>3, <2>1
  <2>2. CASE ~ (k <= Len(s))
    <3>1. k - Len(s) \in 1 .. Len(u) /\ k = Len(s) + (k - Len(s))
      BY <1>1, <1>3, <2>2
    <3>. QED  BY <1>1, <3>1
  <2>. QED  BY <2>1, <2>2
<1>. QED
  BY <1>3, <1>4, <1>5, <1>6

LEMMA KeptInConcat ==
  ASSUME NEW s \in Seq(Entry), NEW t \in Seq(Entry), NEW u \in Seq(Entry), NEW v \in Seq(Entry),
         KeptIn(s, t), KeptIn(u, v)
  PROVE  KeptIn(s \o u, t \o v)
<1>. DEFINE su == s \o u
            tv == t \o v
<1>1. /\ Len(s) \in Nat /\ Len(t) \in Nat
      /\ DOMAIN s = 1 .. Len(s) /\ DOMAIN t = 1 .. Len(t)
      /\ DOMAIN u \subseteq Nat \ {0} /\ DOMAIN v \subseteq Nat \ {0}
  OBVIOUS
<1>2. /\ \A i \in DOMAIN s : su[i] = s[i]
      /\ \A j \in DOMAIN u : su[Len(s) + j] = u[j]
      /\ \A k \in DOMAIN su : k \in DOMAIN s \/ \E j \in DOMAIN u : k = Len(s) + j
  BY ConcatAt
<1>3. /\ \A i \in DOMAIN t : i \in DOMAIN tv /\ tv[i] = t[i]
      /\ \A j \in DOMAIN v : Len(t) + j \in DOMAIN tv /\ tv[Len(t) + j] = v[j]
  BY ConcatAt
<1>. HIDE DEF su, tv
<1>4. /\ \A i \in DOMAIN s : \E k \in DOMAIN t : t[k] = s[i]
      /\ \A i, j \in DOMAIN s :
           i < j => \E k, l \in DOMAIN t : k < l /\ t[k] = s[i] /\ t[l] = s[j]
  BY KeptMeaning
<1>5. /\ \A i \in DOMAIN u : \E k \in DOMAIN v : v[k] = u[i]
      /\ \A i, j \in DOMAIN u :
           i < j => \E k, l \in DOMAIN v : k < l /\ v[k] = u[i] /\ v[l] = u[j]
  BY KeptMeaning
<1>6. ASSUME NEW i \in DOMAIN su
      PROVE  \E k \in DOMAIN tv : tv[k] = su[i]
  <2>1. CASE i \in DOMAIN s
    <3>1. PICK k \in DOMAIN t : t[k] = s[i]
      BY <1>4, <2>1
    <3>. QED  BY <1>2, <1>3, <2>1, <3>1
  <2>2. ASSUME NEW j \in DOMAIN u, i = Len(s) + j
        PROVE  \E k \in DOMAIN tv : tv[k] = su[i]
    <3>1. PICK k \in DOMAIN v : v[k] = u[j]
      BY <1>5
    <3>2. Len(t) + k \in DOMAIN tv /\ tv[Len(t) + k] = v[k] /\ su[i] = u[j]
      BY <1>2, <1>3, <2>2
    <3>. QED  BY <3>1, <3>2
  <2>. QED  BY <1>2, <2>1, <2>2
<1>7. ASSUME NEW i \in DOMAIN su, NEW j \in DOMAIN su, i < j
      PROVE  \E k, l \in DOMAIN tv : k < l /\ tv[k] = su[i] /\ tv[l] = su[j]
  <2>1. CASE i \in DOMAIN s /\ j \in DOMAIN s
    <3>1. PICK k \in DOMAIN t, l \in DOMAIN t : k < l /\ t[k] = s[i] /\ t[l] = s[j]
      BY <1>4, <1>7, <2>1
    <3>. QED  BY <1>2, <1>3, <2>1, <3>1
  <2>2. ASSUME NEW a \in DOMAIN u, j = Len(s) + a, i \in DOMAIN s
        PROVE  \E k, l \in DOMAIN tv : k < l /\ tv[k] = su[i] /\ tv[l] = su[j]
    <3>1. PICK k \in DOMAIN t : t[k] = s[i]
      BY <1>4, <2>2
    <3>2. PICK l \in DOMAIN v : v[l] = u[a]
      BY <1>5
    <3>3. k < Len(t) + l
      BY <1>1
    <3>4. tv[k] = su[i] /\ tv[Len(t) + l] = su[j] /\ k \in DOMAIN tv /\ Len(t) + l \in DOMAIN tv
      BY <1>2, <1>3, <2>2, <3>1, <3>2
    <3>. QED  BY <3>3, <3>4
  <2>3. ASSUME NEW a \in DOMAIN u, i = Len(s) + a, NEW b \in DOMAIN u, j = Len(s) + b
        PROVE  \E k, l \in DOMAIN tv : k < l /\ tv[k] = su[i] /\ tv[l] = su[j]
    <3>1. a < b
      BY <1>1, <1>7, <2>3
    <3>2. PICK k \in DOMAIN v, l \in DOMAIN v : k < l /\ v[k] = u[a] /\ v[l] = u[b]
      BY <1>5, <3>1
    <3>3. Len(t) + k < Len(t) + l
      BY <1>1, <3>2
    <3>4. /\ tv[Len(t) + k] = su[i] /\ tv[Len(t) + l] = su[j]
          /\ Len(t) + k \in DOMAIN tv /\ Len(t) + l \in DOMAIN tv
      BY <1>2, <1>3, <2>3, <3>2
    <3>. QED  BY <3>3, <3>4
  <2>4. ASSUME NEW a \in DOMAIN u, i = Len(s) + a, j \in DOMAIN s PROVE FALSE
    BY <1>1, <1>7, <2>4
  <2>. QED  BY <1>2, <2>1, <2>2, <2>3, <2>4
<1>8. KeptIn(su, tv)
  BY <1>6, <1>7, KeptMeaning
<1>. QED
  BY <1>8 DEF su, tv

(* entries is the beginning of more.                                       *)
Begins(entries, more) ==
  /\ Len(entries) <= Len(more)
  /\ \A i \in 1 .. Len(entries) : more[i] = entries[i]

LEMMA BeginningKept ==
  ASSUME NEW s \in Seq(Entry), NEW t \in Seq(Entry), Begins(s, t)
  PROVE  KeptIn(s, t)
<1>1. /\ Len(s) \in Nat /\ Len(t) \in Nat /\ DOMAIN s = 1 .. Len(s) /\ DOMAIN t = 1 .. Len(t)
  OBVIOUS
<1>2. \A i \in DOMAIN s : i \in DOMAIN t /\ t[i] = s[i]
  BY <1>1 DEF Begins
<1>. QED
  BY <1>2, KeptMeaning

LEMMA KeptInMore ==
  ASSUME NEW s \in Seq(Entry), NEW t \in Seq(Entry), NEW v \in Seq(Entry), KeptIn(s, t)
  PROVE  KeptIn(s, t \o v)
<1>1. <<>> \in Seq(Entry) /\ s \o <<>> = s
  OBVIOUS
<1>2. KeptIn(<<>>, v)
  BY KeptMeaning
<1>3. KeptIn(s \o <<>>, t \o v)
  BY <1>1, <1>2, KeptInConcat
<1>. QED
  BY <1>1, <1>3

LEMMA KeptUnder ==
  ASSUME NEW name \in Seq(Part), NEW s \in Seq(Entry), NEW t \in Seq(Entry), KeptIn(s, t)
  PROVE  KeptIn(Under(name, s), Under(name, t))
<1>. DEFINE long(e) == [e EXCEPT !.name = name \o e.name]
<1>1. DOMAIN Under(name, s) = DOMAIN s /\ \A i \in DOMAIN s : Under(name, s)[i] = long(s[i])
  BY UnderFact
<1>2. DOMAIN Under(name, t) = DOMAIN t /\ \A i \in DOMAIN t : Under(name, t)[i] = long(t[i])
  BY UnderFact
<1>. HIDE DEF long
<1>3. /\ \A i \in DOMAIN s : \E k \in DOMAIN t : t[k] = s[i]
      /\ \A i, j \in DOMAIN s :
           i < j => \E k, l \in DOMAIN t : k < l /\ t[k] = s[i] /\ t[l] = s[j]
  BY KeptMeaning
<1>4. ASSUME NEW i \in DOMAIN s
      PROVE  \E k \in DOMAIN t : Under(name, t)[k] = Under(name, s)[i]
  <2>1. PICK k \in DOMAIN t : t[k] = s[i]
    BY <1>3
  <2>. QED  BY <1>1, <1>2, <2>1
<1>5. ASSUME NEW i \in DOMAIN s, NEW j \in DOMAIN s, i < j
      PROVE  \E k, l \in DOMAIN t : /\ k < l /\ Under(name, t)[k] = Under(name, s)[i]
                                    /\ Under(name, t)[l] = Under(name, s)[j]
  <2>1. PICK k \in DOMAIN t, l \in DOMAIN t : k < l /\ t[k] = s[i] /\ t[l] = s[j]
    BY <1>3, <1>5
  <2>. QED  BY <1>1, <1>2, <2>1
<1>. QED
  BY <1>1, <1>2, <1>4, <1>5, KeptMeaning

LEMMA FlattenKept ==
  ASSUME NEW old \in Seq(Seq(Entry)), NEW new \in Seq(Seq(Entry)), Len(old) <= Len(new),
         \A i \in 1 .. Len(old) : KeptIn(old[i], new[i])
  PROVE  KeptIn(FlattenSeq(old), FlattenSeq(new))
<1>1. PICK F : FlatPrefixes(F, old)
  BY FlattenFact
<1>2. PICK G : FlatPrefixes(G, new)
  BY FlattenFact
<1>3. PICK m \in Nat : m = Len(old)
  OBVIOUS
<1>4. PICK l \in Nat : l = Len(new)
  OBVIOUS
<1>5. \A i \in 1 .. m : old[i] \in Seq(Entry)
  BY <1>3
<1>6. \A i \in 1 .. l : new[i] \in Seq(Entry)
  BY <1>4
<1>. DEFINE Upto(k) == IF k <= m THEN k ELSE m
            S == {k \in Nat : k <= l => KeptIn(F[Upto(k)], G[k])}
<1>7. /\ F[0] = <<>>
      /\ \A k \in 0 .. m - 1 : F[k + 1] = F[k] \o old[k + 1]
      /\ \A k \in 0 .. m : F[k] \in Seq(Entry)
      /\ FlattenSeq(old) = F[m]
  BY <1>1, <1>3 DEF FlatPrefixes
<1>8. /\ G[0] = <<>>
      /\ \A k \in 0 .. l - 1 : G[k + 1] = G[k] \o new[k + 1]
      /\ \A k \in 0 .. l : G[k] \in Seq(Entry)
      /\ FlattenSeq(new) = G[l]
  BY <1>2, <1>4 DEF FlatPrefixes
<1>9. 0 \in S
  <2>1. KeptIn(<<>>, <<>>)
    BY KeptMeaning
  <2>2. KeptIn(F[0], G[0])
    BY <1>7, <1>8, <2>1
  <2>. QED  BY <2>2
<1>10. ASSUME NEW k \in Nat, k \in S PROVE k + 1 \in S
  <2>. SUFFICES ASSUME k + 1 <= l PROVE KeptIn(F[Upto(k + 1)], G[k + 1])
    OBVIOUS
  <2>1. k \in 0 .. l - 1 /\ k \in 0 .. l /\ k + 1 \in 1 .. l
    OBVIOUS
  <2>2. KeptIn(F[Upto(k)], G[k])
    BY <1>10, <2>1
  <2>3. G[k + 1] = G[k] \o new[k + 1] /\ G[k] \in Seq(Entry) /\ new[k + 1] \in Seq(Entry)
    BY <1>6, <1>8, <2>1
  <2>4. CASE k + 1 <= m
    <3>1. k \in 0 .. m - 1 /\ k \in 0 .. m /\ k + 1 \in 1 .. m
          /\ Upto(k) = k /\ Upto(k + 1) = k + 1
      BY <2>4
    <3>2. F[k + 1] = F[k] \o old[k + 1] /\ F[k] \in Seq(Entry) /\ old[k + 1] \in Seq(Entry)
      BY <1>5, <1>7, <3>1
    <3>3. KeptIn(old[k + 1], new[k + 1])
      BY <1>3, <3>1
    <3>4. KeptIn(F[k], G[k])
      BY <2>2, <3>1
    <3>5. KeptIn(F[k] \o old[k + 1], G[k] \o new[k + 1])
      BY <2>3, <3>2, <3>3, <3>4, KeptInConcat
    <3>. QED  BY <2>3, <3>1, <3>2, <3>5
  <2>5. CASE ~ (k + 1 <= m)
    <3>1. Upto(k) = m /\ Upto(k + 1) = m /\ m \in 0 .. m
      BY <2>5
    <3>2. F[m] \in Seq(Entry) /\ KeptIn(F[m], G[k])
      BY <1>7, <2>2, <3>1
    <3>3. KeptIn(F[m], G[k] \o new[k + 1])
      BY <2>3, <3>2, KeptInMore
    <3>. QED  BY <2>3, <3>1, <3>3
  <2>. QED  BY <2>4, <2>5
<1>11. l \in S
  <2>. HIDE DEF S
  <2>. QED  BY <1>9, <1>10, Induction
<1>12. Upto(l) = m
  BY <1>3, <1>4
<1>. QED
  BY <1>7, <1>8, <1>11, <1>12

(* In S, where children stay, entries are only added.                      *)
Grows(S, leaves, tree, leaves2, tree2) ==
  /\ S \subseteq Module
  /\ \A x \in S : Begins(leaves[x], leaves2[x]) /\ Begins(tree[x], tree2[x])
  /\ \A x \in Module, y \in S : ChildOf(x, y, tree) => x \in S

LEMMA LevelKept ==
  ASSUME NEW leaves \in Leaves, NEW tree \in Tree, NEW leaves2 \in Leaves, NEW tree2 \in Tree,
         NEW S, Grows(S, leaves, tree, leaves2, tree2),
         NEW level \in [Module -> Seq(Entry)], NEW level2 \in [Module -> Seq(Entry)],
         \A x \in S : KeptIn(level[x], level2[x])
  PROVE  \A x \in S : KeptIn(Level(leaves, tree, level)[x], Level(leaves2, tree2, level2)[x])
<1>. SUFFICES ASSUME NEW x \in S
              PROVE  KeptIn(Level(leaves, tree, level)[x], Level(leaves2, tree2, level2)[x])
  OBVIOUS
<1>1. x \in Module /\ Begins(leaves[x], leaves2[x]) /\ Begins(tree[x], tree2[x])
  BY DEF Grows
<1>2. leaves[x] \in Seq(Entry) /\ leaves2[x] \in Seq(Entry)
  BY <1>1, LeafFact DEF Leaves
<1>3. KeptIn(leaves[x], leaves2[x])
  BY <1>1, <1>2, BeginningKept
<1>. DEFINE old == Inner(tree, level, x)
            new == Inner(tree2, level2, x)
<1>4. /\ old \in Seq(Seq(Entry)) /\ Len(old) = Len(tree[x])
      /\ \A i \in 1 .. Len(tree[x]) :
           /\ tree[x][i].name \in Seq(Part) /\ tree[x][i].module \in Module
           /\ old[i] = Under(tree[x][i].name, level[tree[x][i].module])
  BY <1>1, InnerFact
<1>5. /\ new \in Seq(Seq(Entry)) /\ Len(new) = Len(tree2[x])
      /\ \A i \in 1 .. Len(tree2[x]) :
           new[i] = Under(tree2[x][i].name, level2[tree2[x][i].module])
  BY <1>1, InnerFact
<1>. HIDE DEF old, new
<1>6. /\ Len(tree[x]) \in Nat /\ DOMAIN tree[x] = 1 .. Len(tree[x])
      /\ Len(tree2[x]) \in Nat /\ Len(tree[x]) <= Len(tree2[x])
  BY <1>1, LenProperties DEF Tree, Begins
<1>7. ASSUME NEW i \in 1 .. Len(tree[x])
      PROVE  KeptIn(old[i], new[i])
  <2>1. i \in 1 .. Len(tree2[x]) /\ tree2[x][i] = tree[x][i]
    BY <1>1, <1>6 DEF Begins
  <2>2. PICK c \in Module : c = tree[x][i].module
    BY <1>4
  <2>3. c \in S
    BY <1>6, <2>2 DEF Grows, ChildOf
  <2>4. KeptIn(level[c], level2[c])
    BY <2>3
  <2>5. KeptIn(Under(tree[x][i].name, level[c]), Under(tree[x][i].name, level2[c]))
    BY <1>4, <2>4, KeptUnder
  <2>. QED  BY <1>4, <1>5, <2>1, <2>2, <2>5
<1>8. KeptIn(FlattenSeq(old), FlattenSeq(new))
  BY <1>4, <1>5, <1>6, <1>7, FlattenKept
<1>9. FlattenSeq(old) \in Seq(Entry) /\ FlattenSeq(new) \in Seq(Entry)
  BY <1>4, <1>5, FlattenType
<1>10. KeptIn(leaves[x] \o FlattenSeq(old), leaves2[x] \o FlattenSeq(new))
  BY <1>2, <1>3, <1>8, <1>9, KeptInConcat
<1>. QED
  BY <1>1, <1>10 DEF Level, old, new

LEMMA ListingKept ==
  ASSUME NEW leaves \in Leaves, NEW tree \in Tree, NEW leaves2 \in Leaves, NEW tree2 \in Tree,
         NEW S, Grows(S, leaves, tree, leaves2, tree2)
  PROVE  \A x \in S : KeptIn(Listing(leaves, tree)[x], Listing(leaves2, tree2)[x])
<1>1. PICK m \in Nat : m = Cardinality(Module)
  BY DepthFact
<1>2. PICK f : Climbs(f, leaves, tree, m)
  BY <1>1, ListingFact
<1>3. PICK g : Climbs(g, leaves2, tree2, m)
  BY <1>1, ListingFact
<1>. DEFINE T == {d \in Nat : d <= m => \A x \in S : KeptIn(f[d][x], g[d][x])}
<1>4. 0 \in T
  <2>1. KeptIn(<<>>, <<>>)
    BY KeptMeaning
  <2>2. \A x \in S : f[0][x] = <<>> /\ g[0][x] = <<>>
    BY <1>2, <1>3 DEF Climbs, Grows
  <2>. QED  BY <2>1, <2>2
<1>5. ASSUME NEW d \in Nat, d \in T PROVE d + 1 \in T
  <2>. SUFFICES ASSUME d + 1 <= m PROVE \A x \in S : KeptIn(f[d + 1][x], g[d + 1][x])
    OBVIOUS
  <2>1. d \in 0 .. m - 1 /\ d \in 0 .. m /\ d <= m
    OBVIOUS
  <2>2. f[d + 1] = Level(leaves, tree, f[d]) /\ g[d + 1] = Level(leaves2, tree2, g[d])
    BY <1>2, <1>3, <2>1 DEF Climbs
  <2>3. f[d] \in [Module -> Seq(Entry)] /\ g[d] \in [Module -> Seq(Entry)]
    BY <1>2, <1>3, <2>1, ClimbType
  <2>4. \A x \in S : KeptIn(f[d][x], g[d][x])
    BY <1>5, <2>1
  <2>. QED  BY <2>2, <2>3, <2>4, LevelKept
<1>6. m \in T
  <2>. HIDE DEF T
  <2>. QED  BY <1>4, <1>5, Induction
<1>. QED
  BY <1>2, <1>3, <1>6 DEF Climbs

LEMMA BeginsSelf ==
  ASSUME NEW S, NEW s \in Seq(S) PROVE Begins(s, s)
  BY DEF Begins

LEMMA BeginsAppend ==
  ASSUME NEW S, NEW s \in Seq(S), NEW e PROVE Begins(s, Append(s, e))
  BY DEF Begins

LEMMA BeginsGrown ==
  ASSUME NEW S, NEW all \in [Module -> Seq(S)], NEW m \in Module, NEW e, NEW x \in Module
  PROVE  Begins(all[x], [all EXCEPT ![m] = Append(@, e)][x])
<1>1. CASE x = m
  BY <1>1, BeginsAppend
<1>2. CASE x # m
  BY <1>2, BeginsSelf
<1>. QED
  BY <1>1, <1>2

(* Nothing but a move takes an entry from a module that is not destroyed,  *)
(* and its children are not destroyed.                                     *)
LEMMA GrowsNext ==
  ASSUME IInv, NameInv, IInv', [Next]_vars, ~ Moves
  PROVE  Grows(exists \cap exists', parameters, children, parameters', children')
<1>. DEFINE S == exists \cap exists'
<1>1. /\ parameters \in [Module -> Seq(Leaf)] /\ children \in [Module -> Seq(Child)]
      /\ S \subseteq Module /\ held \subseteq exists /\ exists \subseteq Module
  BY DEF NameInv, Leaves, IInv, Typed, Tree
<1>2. ASSUME NEW x \in Module, NEW y \in S, ChildOf(x, y, children), exists \subseteq exists'
      PROVE  x \in S
  BY <1>1, <1>2 DEF IInv, ChildrenExist
<1>3. CASE UNCHANGED <<parameters, children>> /\ exists \subseteq exists'
  BY <1>1, <1>2, <1>3, BeginsSelf DEF Grows
<1>4. ASSUME NEW m \in Module, Drop(m)
      PROVE  Grows(S, parameters, children, parameters', children')
  <2>. DEFINE handles == held \ {m}
              kept == Kept(exists, handles, children)
  <2>1. Settle(exists, handles, parameters, children)
    BY <1>4 DEF Drop
  <2>2. /\ exists' = kept
        /\ parameters' = [y \in Module |-> IF y \in kept THEN parameters[y] ELSE <<>>]
        /\ children' = [y \in Module |-> IF y \in kept THEN children[y] ELSE <<>>]
    BY <2>1 DEF Settle
  <2>3. /\ kept \subseteq exists
        /\ \A x \in exists : x \in kept <=>
             x \in handles \/ \E y \in kept : ChildOf(x, y, children)
    BY KeptIsReferred
  <2>. HIDE DEF kept, handles
  <2>4. \A x \in S : parameters'[x] = parameters[x] /\ children'[x] = children[x]
    BY <1>1, <2>2
  <2>5. \A x \in S : Begins(parameters[x], parameters'[x]) /\ Begins(children[x], children'[x])
    BY <1>1, <2>4, BeginsSelf
  <2>6. \A x \in Module, y \in S : ChildOf(x, y, children) => x \in S
    BY <1>1, <2>2, <2>3 DEF IInv, ChildrenExist
  <2>. QED  BY <1>1, <2>5, <2>6 DEF Grows
<1>5. ASSUME NEW m \in Module, NEW name, NEW v, RegisterParameter(m, name, v)
      PROVE  Grows(S, parameters, children, parameters', children')
  <2>. DEFINE e == [name |-> name, parameter |-> v]
  <2>1. /\ parameters' = [parameters EXCEPT ![m] = Append(@, e)]
        /\ children' = children /\ exists' = exists
    BY <1>5 DEF RegisterParameter
  <2>. HIDE DEF e
  <2>2. \A x \in S : Begins(parameters[x], parameters'[x]) /\ Begins(children[x], children'[x])
    BY <1>1, <2>1, BeginsGrown, BeginsSelf
  <2>3. \A x \in Module, y \in S : ChildOf(x, y, children) => x \in S
    BY <1>2, <2>1
  <2>. QED  BY <1>1, <2>2, <2>3 DEF Grows
<1>6. ASSUME NEW m \in Module, NEW name, NEW c, RegisterModule(m, name, c)
      PROVE  Grows(S, parameters, children, parameters', children')
  <2>. DEFINE e == [name |-> name, module |-> c]
  <2>1. /\ children' = [children EXCEPT ![m] = Append(@, e)]
        /\ parameters' = parameters /\ exists' = exists
    BY <1>6 DEF RegisterModule
  <2>. HIDE DEF e
  <2>2. \A x \in S : Begins(parameters[x], parameters'[x]) /\ Begins(children[x], children'[x])
    BY <1>1, <2>1, BeginsGrown, BeginsSelf
  <2>3. \A x \in Module, y \in S : ChildOf(x, y, children) => x \in S
    BY <1>2, <2>1
  <2>. QED  BY <1>1, <2>2, <2>3 DEF Grows
<1>7. CASE UNCHANGED vars
  BY <1>3, <1>7 DEF vars
<1>8. CASE Next
  <2>1. CASE \E m \in Module : Create(m) \/ ZeroGrad(m)
    BY <1>3, <2>1 DEF Create, ZeroGrad
  <2>2. CASE \E v \in Variable : Backward(v)
    BY <1>3, <2>2 DEF Backward
  <2>3. CASE \E m \in Module : Drop(m)
    BY <1>4, <2>3
  <2>4. CASE \E m \in Module, name \in Names, v \in Variable : RegisterParameter(m, name, v)
    BY <1>5, <2>4
  <2>5. CASE \E m, n \in Module, name \in Names : Register(m, name, n)
    BY <1>6, <2>5 DEF Register
  <2>6. CASE \E m, n \in Module : Add(m, n)
    BY <1>6, <2>6 DEF Add
  <2>7. CASE \E m, n \in Module : MoveConstruct(m, n) \/ MoveAssign(m, n)
    BY <2>7 DEF Moves
  <2>. QED
    BY <1>8, <2>1, <2>2, <2>3, <2>4, <2>5, <2>6, <2>7 DEF Next
<1>. QED
  BY <1>7, <1>8

(* Registering, adding, dropping and clearing keep each entry of           *)
(* named_parameters, its name and the order of any two: what a checkpoint  *)
(* was written by stays, whatever modules are shared and however deep.     *)
THEOREM CheckpointsStay == Spec => ListingGrows
<1>1. IInv /\ NameInv /\ IInv' /\ NameInv' /\ [Next]_vars =>
        [Moves \/ \A m \in exists \cap exists' :
           Ends(m) => KeptIn(NamedParameters(m), NamedParameters(m)')]_vars
  <2>. SUFFICES ASSUME IInv, NameInv, IInv', NameInv', [Next]_vars, ~ Moves,
                       NEW m \in exists \cap exists'
                PROVE  KeptIn(NamedParameters(m), NamedParameters(m)')
    OBVIOUS
  <2>1. /\ parameters \in Leaves /\ children \in Tree
        /\ parameters' \in Leaves /\ children' \in Tree
    BY DEF NameInv, IInv, Typed
  <2>2. Grows(exists \cap exists', parameters, children, parameters', children')
    BY GrowsNext
  <2>3. KeptIn(Listing(parameters, children)[m], Listing(parameters', children')[m])
    BY <2>1, <2>2, ListingKept
  <2>. QED  BY <2>3 DEF NamedParameters, Listing
<1>. QED
  BY <1>1, Invariance, NamesInvariance, PTL DEF Spec, ListingGrows

-----------------------------------------------------------------------------
(* Names without dots tell entries apart.                                  *)

(* Names of one part.                                                      *)
Simple(entries) == \A i \in DOMAIN entries : Len(entries[i].name) <= 1

LEMMA ToldConcat ==
  ASSUME NEW s \in Seq(Entry), NEW u \in Seq(Entry), Told(s), Told(u),
         \A i \in DOMAIN s, j \in DOMAIN u : s[i].name # u[j].name
  PROVE  Told(s \o u)
<1>. DEFINE su == s \o u
<1>1. /\ \A i \in DOMAIN s : su[i] = s[i]
      /\ \A j \in DOMAIN u : su[Len(s) + j] = u[j]
      /\ \A k \in DOMAIN su : k \in DOMAIN s \/ \E j \in DOMAIN u : k = Len(s) + j
  BY ConcatAt
<1>. HIDE DEF su
<1>2. \A k \in DOMAIN su : su[k].name # <<>>
  BY <1>1 DEF Told
<1>3. ASSUME NEW k \in DOMAIN su, NEW l \in DOMAIN su, k # l
      PROVE  su[k].name # su[l].name
  <2>1. CASE k \in DOMAIN s /\ l \in DOMAIN s
    BY <1>1, <1>3, <2>1 DEF Told
  <2>2. ASSUME NEW j \in DOMAIN u, l = Len(s) + j, k \in DOMAIN s
        PROVE  su[k].name # su[l].name
    BY <1>1, <2>2
  <2>3. ASSUME NEW i \in DOMAIN u, k = Len(s) + i, l \in DOMAIN s
        PROVE  su[k].name # su[l].name
    BY <1>1, <2>3
  <2>4. ASSUME NEW i \in DOMAIN u, k = Len(s) + i, NEW j \in DOMAIN u, l = Len(s) + j
        PROVE  su[k].name # su[l].name
    <3>1. i # j
      BY <1>3, <2>4
    <3>. QED  BY <1>1, <2>4, <3>1 DEF Told
  <2>. QED  BY <1>1, <2>1, <2>2, <2>3, <2>4
<1>4. Told(su)
  BY <1>2, <1>3 DEF Told
<1>. QED
  BY <1>4 DEF su

LEMMA PrefixedName ==
  ASSUME NEW name \in Seq(Part), Len(name) = 1, NEW a \in Seq(Part)
  PROVE  /\ Len(name \o a) = 1 + Len(a) /\ (name \o a)[1] = name[1]
         /\ \A i \in 1 .. Len(a) : (name \o a)[1 + i] = a[i]
<1>1. Len(a) \in Nat
  OBVIOUS
<1>. DEFINE long == name \o a
            n == Len(name)
<1>2. /\ Len(long) = n + Len(a)
      /\ \A i \in 1 .. n + Len(a) : long[i] = IF i <= n THEN name[i] ELSE a[i - n]
  BY ConcatProperties
<1>. HIDE DEF long
<1>3. 1 \in 1 .. 1 + Len(a) /\ 1 <= 1
  BY <1>1
<1>4. \A i \in 1 .. Len(a) : 1 + i \in 1 .. 1 + Len(a) /\ ~ (1 + i <= 1) /\ (1 + i) - 1 = i
  BY <1>1
<1>5. /\ Len(long) = 1 + Len(a) /\ long[1] = name[1]
      /\ \A i \in 1 .. Len(a) : long[1 + i] = a[i]
  BY <1>2, <1>3, <1>4
<1>. QED
  BY <1>5 DEF long

LEMMA PrefixedApart ==
  ASSUME NEW name \in Seq(Part), Len(name) = 1, NEW a \in Seq(Part), NEW b \in Seq(Part), a # b
  PROVE  name \o a # name \o b
<1>. SUFFICES ASSUME name \o a = name \o b PROVE FALSE
  OBVIOUS
<1>1. Len(a) \in Nat /\ Len(b) \in Nat /\ 1 + Len(a) = 1 + Len(b)
  BY PrefixedName, LenProperties
<1>2. Len(a) = Len(b)
  BY <1>1
<1>3. \A i \in 1 .. Len(a) : a[i] = b[i]
  BY <1>2, PrefixedName
<1>. QED
  BY <1>2, <1>3, SeqEqual

LEMMA UnderTold ==
  ASSUME NEW name \in Seq(Part), Len(name) = 1, NEW s \in Seq(Entry), Told(s)
  PROVE  /\ Told(Under(name, s))
         /\ \A i \in DOMAIN Under(name, s) : /\ Len(Under(name, s)[i].name) >= 2
                                             /\ Under(name, s)[i].name[1] = name[1]
<1>1. /\ DOMAIN Under(name, s) = DOMAIN s
      /\ \A i \in DOMAIN s : Under(name, s)[i].name = name \o s[i].name
  BY UnderFact
<1>2. \A i \in DOMAIN s : s[i].name \in Seq(Part)
  <2>1. DOMAIN s = 1 .. Len(s) /\ \A i \in 1 .. Len(s) : s[i] \in Entry
    OBVIOUS
  <2>. QED  BY <2>1 DEF Entry
<1>3. ASSUME NEW i \in DOMAIN s
      PROVE  /\ Len(name \o s[i].name) >= 2 /\ (name \o s[i].name)[1] = name[1]
             /\ name \o s[i].name # <<>>
  <2>1. PICK a \in Seq(Part) : a = s[i].name
    BY <1>2
  <2>2. a # <<>> /\ Len(a) \in Nat
    BY <2>1 DEF Told
  <2>3. Len(a) >= 1
    BY <2>2, EmptySeq
  <2>4. Len(name \o a) = 1 + Len(a) /\ (name \o a)[1] = name[1]
    BY PrefixedName
  <2>5. Len(<<>>) = 0
    OBVIOUS
  <2>6. Len(name \o a) >= 2 /\ name \o a # <<>>
    BY <2>2, <2>3, <2>4, <2>5
  <2>. QED  BY <2>1, <2>4, <2>6
<1>4. ASSUME NEW i \in DOMAIN s, NEW j \in DOMAIN s, i # j
      PROVE  name \o s[i].name # name \o s[j].name
  <2>1. s[i].name # s[j].name
    BY <1>4 DEF Told
  <2>. QED  BY <1>2, <2>1, PrefixedApart
<1>. DEFINE long(i) == name \o s[i].name
            u == Under(name, s)
<1>5. /\ DOMAIN u = DOMAIN s
      /\ \A i \in DOMAIN s : u[i].name = long(i)
  BY <1>1
<1>6. /\ \A i \in DOMAIN s : Len(long(i)) >= 2 /\ long(i)[1] = name[1] /\ long(i) # <<>>
      /\ \A i \in DOMAIN s, j \in DOMAIN s : i # j => long(i) # long(j)
  BY <1>3, <1>4
<1>. HIDE DEF long, u
<1>7. Told(u)
  BY <1>5, <1>6 DEF Told
<1>8. \A i \in DOMAIN u : Len(u[i].name) >= 2 /\ u[i].name[1] = name[1]
  BY <1>5, <1>6
<1>. QED
  BY <1>7, <1>8 DEF u

(* seqs[i] lists under heads[i]: the heads tell the sequences apart.       *)
Headed(s, head) == \A j \in DOMAIN s : Len(s[j].name) >= 2 /\ s[j].name[1] = head

LEMMA FlattenTold ==
  ASSUME NEW seqs \in Seq(Seq(Entry)), NEW head,
         \A i \in 1 .. Len(seqs) : Told(seqs[i]) /\ Headed(seqs[i], head[i]),
         \A i, j \in 1 .. Len(seqs) : i # j => head[i] # head[j]
  PROVE  /\ Told(FlattenSeq(seqs))
         /\ \A j \in DOMAIN FlattenSeq(seqs) : Len(FlattenSeq(seqs)[j].name) >= 2
<1>1. PICK F : FlatPrefixes(F, seqs)
  BY FlattenFact
<1>2. PICK m \in Nat : m = Len(seqs)
  OBVIOUS
<1>3. \A i \in 1 .. m : seqs[i] \in Seq(Entry)
  BY <1>2
<1>4. /\ F[0] = <<>>
      /\ \A k \in 0 .. m - 1 : F[k + 1] = F[k] \o seqs[k + 1]
      /\ \A k \in 0 .. m : F[k] \in Seq(Entry)
      /\ FlattenSeq(seqs) = F[m]
  BY <1>1, <1>2 DEF FlatPrefixes
<1>. DEFINE Good(s, k) == /\ Told(s)
                          /\ \A j \in DOMAIN s : /\ Len(s[j].name) >= 2
                                                 /\ \E i \in 1 .. k : s[j].name[1] = head[i]
            S == {k \in Nat : k <= m => Good(F[k], k)}
<1>5. 0 \in S
  <2>1. Good(<<>>, 0)
    BY NothingTold
  <2>2. Good(F[0], 0)
    BY <1>4, <2>1
  <2>. QED  BY <2>2
<1>6. ASSUME NEW k \in Nat, k \in S PROVE k + 1 \in S
  <2>. SUFFICES ASSUME k + 1 <= m PROVE Good(F[k + 1], k + 1)
    OBVIOUS
  <2>1. k \in 0 .. m - 1 /\ k \in 0 .. m /\ k + 1 \in 1 .. m /\ k <= m
    OBVIOUS
  <2>2. PICK s \in Seq(Entry) : s = F[k]
    BY <1>4, <2>1
  <2>3. PICK u \in Seq(Entry) : u = seqs[k + 1]
    BY <1>3, <2>1
  <2>4. F[k + 1] = s \o u
    BY <1>4, <2>1, <2>2, <2>3
  <2>5. Good(s, k)
    BY <1>6, <2>1, <2>2
  <2>6. Told(u) /\ Headed(u, head[k + 1])
    BY <1>2, <2>1, <2>3
  <2>7. ASSUME NEW i \in DOMAIN s, NEW j \in DOMAIN u PROVE s[i].name # u[j].name
    <3>1. PICK l \in 1 .. k : s[i].name[1] = head[l]
      BY <2>5
    <3>2. l \in 1 .. m /\ l # k + 1
      BY <2>1
    <3>3. head[l] # head[k + 1]
      BY <1>2, <2>1, <3>2
    <3>. QED  BY <2>6, <3>1, <3>3 DEF Headed
  <2>8. Told(s \o u)
    BY <2>5, <2>6, <2>7, ToldConcat
  <2>9. ASSUME NEW j \in DOMAIN (s \o u)
        PROVE  /\ Len((s \o u)[j].name) >= 2
               /\ \E i \in 1 .. k + 1 : (s \o u)[j].name[1] = head[i]
    <3>1. CASE j \in DOMAIN s
      <4>1. (s \o u)[j] = s[j]
        BY <3>1, ConcatAt
      <4>2. PICK i \in 1 .. k : s[j].name[1] = head[i]
        BY <2>5, <3>1
      <4>3. i \in 1 .. k + 1
        OBVIOUS
      <4>. QED  BY <2>5, <3>1, <4>1, <4>2, <4>3
    <3>2. ASSUME NEW l \in DOMAIN u, j = Len(s) + l
          PROVE  /\ Len((s \o u)[j].name) >= 2
                 /\ \E i \in 1 .. k + 1 : (s \o u)[j].name[1] = head[i]
      <4>1. (s \o u)[j] = u[l]
        BY <3>2, ConcatAt
      <4>2. k + 1 \in 1 .. k + 1
        OBVIOUS
      <4>. QED  BY <2>6, <4>1, <4>2 DEF Headed
    <3>. QED  BY <3>1, <3>2, ConcatAt
  <2>. HIDE DEF Good
  <2>10. Good(s \o u, k + 1)
    BY <2>8, <2>9 DEF Good
  <2>. QED  BY <2>4, <2>10
<1>7. m \in S
  <2>. HIDE DEF S
  <2>. QED  BY <1>5, <1>6, Induction
<1>. QED
  BY <1>4, <1>7

LEMMA LevelTold ==
  ASSUME NEW leaves \in Leaves, NEW tree \in Tree, NEW B \in SUBSET Module, Closed(B, tree),
         \A x \in B : /\ Told(leaves[x]) /\ Simple(leaves[x])
                      /\ Told(tree[x]) /\ Simple(tree[x]),
         NEW level \in [Module -> Seq(Entry)], \A x \in B : Told(level[x])
  PROVE  \A x \in B : Told(Level(leaves, tree, level)[x])
<1>. SUFFICES ASSUME NEW x \in B PROVE Told(Level(leaves, tree, level)[x])
  OBVIOUS
<1>. DEFINE seqs == Inner(tree, level, x)
            own == leaves[x]
<1>1. x \in Module /\ Level(leaves, tree, level)[x] = own \o FlattenSeq(seqs)
  BY DEF Level
<1>2. /\ seqs \in Seq(Seq(Entry)) /\ Len(seqs) = Len(tree[x])
      /\ \A i \in 1 .. Len(tree[x]) :
           /\ tree[x][i].name \in Seq(Part) /\ tree[x][i].module \in Module
           /\ seqs[i] = Under(tree[x][i].name, level[tree[x][i].module])
  BY <1>1, InnerFact
<1>3. own \in Seq(Entry) /\ Told(own) /\ Simple(own)
  BY <1>1, LeafFact DEF Leaves
<1>. HIDE DEF seqs, own
<1>4. Len(tree[x]) \in Nat /\ DOMAIN tree[x] = 1 .. Len(tree[x])
  BY <1>1, LenProperties DEF Tree
<1>5. \A i \in 1 .. Len(tree[x]) : Len(tree[x][i].name) = 1
  <2>. SUFFICES ASSUME NEW i \in 1 .. Len(tree[x]) PROVE Len(tree[x][i].name) = 1
    OBVIOUS
  <2>1. PICK a \in Seq(Part) : a = tree[x][i].name
    BY <1>2
  <2>2. a # <<>> /\ Len(a) <= 1
    BY <1>4, <2>1 DEF Told, Simple
  <2>3. Len(a) \in Nat \ {0}
    BY <2>2, EmptySeq
  <2>4. PICK n \in Nat \ {0} : n = Len(a)
    BY <2>3
  <2>5. n = 1
    BY <2>2, <2>4
  <2>. QED  BY <2>1, <2>4, <2>5
<1>. DEFINE head == [i \in 1 .. Len(tree[x]) |-> tree[x][i].name[1]]
<1>6. ASSUME NEW i \in 1 .. Len(tree[x])
      PROVE  Told(seqs[i]) /\ Headed(seqs[i], head[i])
  <2>1. PICK c \in Module : c = tree[x][i].module
    BY <1>2
  <2>2. c \in B
    BY <1>1, <1>4, <2>1 DEF Closed, ChildOf
  <2>3. level[c] \in Seq(Entry) /\ Told(level[c])
    BY <2>2
  <2>4. PICK a \in Seq(Part) : a = tree[x][i].name /\ Len(a) = 1
    BY <1>2, <1>5
  <2>5. Told(Under(a, level[c])) /\ Headed(Under(a, level[c]), a[1])
    BY <2>3, <2>4, UnderTold DEF Headed
  <2>. QED  BY <1>2, <2>1, <2>4, <2>5
<1>7. ASSUME NEW i \in 1 .. Len(tree[x]), NEW j \in 1 .. Len(tree[x]), i # j
      PROVE  head[i] # head[j]
  <2>1. PICK a \in Seq(Part) : a = tree[x][i].name /\ Len(a) = 1
    BY <1>2, <1>5
  <2>2. PICK b \in Seq(Part) : b = tree[x][j].name /\ Len(b) = 1
    BY <1>2, <1>5
  <2>3. a # b
    BY <1>4, <1>7, <2>1, <2>2 DEF Told
  <2>4. a[1] # b[1]
    <3>. SUFFICES ASSUME a[1] = b[1] PROVE FALSE
      OBVIOUS
    <3>1. \A k \in 1 .. Len(a) : a[k] = b[k]
      BY <2>1
    <3>. QED  BY <2>1, <2>2, <2>3, <3>1, SeqEqual
  <2>. QED  BY <2>1, <2>2, <2>4
<1>. HIDE DEF head
<1>8. /\ Told(FlattenSeq(seqs)) /\ FlattenSeq(seqs) \in Seq(Entry)
      /\ \A j \in DOMAIN FlattenSeq(seqs) : Len(FlattenSeq(seqs)[j].name) >= 2
  <2>1. \A i \in 1 .. Len(seqs) : Told(seqs[i]) /\ Headed(seqs[i], head[i])
    BY <1>2, <1>6
  <2>2. \A i, j \in 1 .. Len(seqs) : i # j => head[i] # head[j]
    BY <1>2, <1>7
  <2>3. seqs \in Seq(Seq(Entry))
    BY <1>2
  <2>4. FlattenSeq(seqs) \in Seq(Entry)
    BY <2>3, FlattenType
  <2>5. /\ Told(FlattenSeq(seqs))
        /\ \A j \in DOMAIN FlattenSeq(seqs) : Len(FlattenSeq(seqs)[j].name) >= 2
    BY <2>1, <2>2, <2>3, FlattenTold
  <2>. QED  BY <2>4, <2>5
<1>9. \A i \in DOMAIN own, j \in DOMAIN FlattenSeq(seqs) :
        own[i].name # FlattenSeq(seqs)[j].name
  <2>. SUFFICES ASSUME NEW i \in DOMAIN own, NEW j \in DOMAIN FlattenSeq(seqs),
                       own[i].name = FlattenSeq(seqs)[j].name
                PROVE  FALSE
    OBVIOUS
  <2>1. DOMAIN own = 1 .. Len(own)
    BY <1>3, LenProperties
  <2>2. own[i] \in Entry
    BY <1>3, <2>1, ElementOfSeq
  <2>3. PICK a \in Seq(Part) : a = own[i].name
    BY <2>2 DEF Entry
  <2>4. Len(a) \in Nat /\ Len(a) <= 1 /\ Len(a) >= 2
    BY <1>3, <1>8, <2>3 DEF Simple
  <2>. QED  BY <2>4
<1>10. Told(own \o FlattenSeq(seqs))
  BY <1>3, <1>8, <1>9, ToldConcat
<1>. QED
  BY <1>1, <1>10

LEMMA ListingTold ==
  ASSUME NEW leaves \in Leaves, NEW tree \in Tree, NEW B \in SUBSET Module, Closed(B, tree),
         \A x \in B : /\ Told(leaves[x]) /\ Simple(leaves[x])
                      /\ Told(tree[x]) /\ Simple(tree[x])
  PROVE  \A x \in B : Told(Listing(leaves, tree)[x])
<1>1. PICK m \in Nat : m = Cardinality(Module)
  BY DepthFact
<1>2. PICK f : Climbs(f, leaves, tree, m)
  BY <1>1, ListingFact
<1>. DEFINE T == {d \in Nat : d <= m => \A x \in B : Told(f[d][x])}
<1>3. 0 \in T
  <2>1. \A x \in B : f[0][x] = <<>>
    BY <1>2 DEF Climbs
  <2>. QED  BY <2>1, NothingTold
<1>4. ASSUME NEW d \in Nat, d \in T PROVE d + 1 \in T
  <2>. SUFFICES ASSUME d + 1 <= m PROVE \A x \in B : Told(f[d + 1][x])
    OBVIOUS
  <2>1. d \in 0 .. m - 1 /\ d \in 0 .. m /\ d <= m
    OBVIOUS
  <2>2. f[d + 1] = Level(leaves, tree, f[d])
    BY <1>2, <2>1 DEF Climbs
  <2>3. f[d] \in [Module -> Seq(Entry)]
    BY <1>2, <2>1, ClimbType
  <2>4. \A x \in B : Told(f[d][x])
    BY <1>4, <2>1
  <2>. QED  BY <2>2, <2>3, <2>4, LevelTold
<1>5. m \in T
  <2>. HIDE DEF T
  <2>. QED  BY <1>3, <1>4, Induction
<1>. QED
  BY <1>2, <1>5 DEF Climbs

(* As long as no name with a dot is given, no two entries of               *)
(* named_parameters have one name, however deep the modules and however    *)
(* often one is shared: the checks of one module at a time are enough.     *)
THEOREM NamesAreEnough == Spec => []NamesTellApart
<1>1. IInv /\ NameInv => NamesTellApart
  <2>. SUFFICES ASSUME IInv, NameInv, NEW m \in exists,
                       ~ \E x \in Below(m, children) :
                           \E name \in NameOf(parameters[x]) \cup NameOf(children[x]) :
                             Len(name) > 1
                PROVE  \A i, j \in DOMAIN NamedParameters(m) :
                         i # j => NamedParameters(m)[i].name # NamedParameters(m)[j].name
    BY DEF NamesTellApart
  <2>. DEFINE B == Below(m, children)
  <2>1. parameters \in Leaves /\ children \in Tree /\ m \in Module
    BY DEF NameInv, IInv, Typed
  <2>2. m \in B /\ Closed(B, children) /\ B \in SUBSET Module
    BY <2>1, BelowIsClosed
  <2>3. ASSUME NEW x \in B
        PROVE  Simple(parameters[x]) /\ Simple(children[x])
    <3>1. x \in Module /\ parameters[x] \in Seq(Leaf) /\ children[x] \in Seq(Child)
      BY <2>1, <2>2 DEF Leaves, Tree
    <3>2. \A i \in DOMAIN parameters[x] : Len(parameters[x][i].name) \in Nat
      BY <3>1, NameFact, LenProperties DEF Leaf
    <3>3. \A i \in DOMAIN children[x] : Len(children[x][i].name) \in Nat
      BY <3>1, NameFact, LenProperties DEF Child
    <3>. QED  BY <3>2, <3>3 DEF Simple, NameOf
  <2>4. \A x \in B : Told(parameters[x]) /\ Told(children[x])
    BY <2>2 DEF NameInv
  <2>. HIDE DEF B
  <2>5. Told(Listing(parameters, children)[m])
    BY <2>1, <2>2, <2>3, <2>4, ListingTold
  <2>. QED  BY <2>5 DEF NamedParameters, Told
<1>. QED
  BY <1>1, Invariance, NamesInvariance, PTL
=============================================================================
