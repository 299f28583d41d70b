------------------------------ MODULE ModuleTree ------------------------------
(***************************************************************************)
(* nn::Module of core/module.cpp: modules that own parameters and share    *)
(* ownership of child modules (shared_ptr), registration with its checks,  *)
(* named_parameters and zero_grad, and the defaulted moves.                *)
(*                                                                         *)
(* A name is the sequence of its parts between dots: "p.q" is <<p, q>>,    *)
(* the empty name is <<>>, and joining with '.' is concatenation.  A call  *)
(* that throws changes nothing, so it is not a step.  contains,            *)
(* collect_named and zero_grad recurse over the children; from a module    *)
(* above a cycle they exhaust the stack, which ends the program: that is   *)
(* no step either (contains may meet its target first, and throw).         *)
(***************************************************************************)
EXTENDS Naturals, FiniteSets, SequencesExt

CONSTANTS
  Module,       \* the modules that may be made
  Sequentials,  \* those of class Sequential; the others are of a class of the program
  Variable,
  Trainable,    \* the variables with requires_grad
  Names,        \* the names the program gives
  Numeral(_),   \* std::to_string of a number, as one part of a name
  MaxEntries    \* bound: entries registered at one time

ASSUME ModuleAssumption ==
  /\ IsFiniteSet(Module) /\ Sequentials \subseteq Module /\ Trainable \subseteq Variable
  /\ Names \subseteq Seq(UNION {Range(name) : name \in Names})

VARIABLES
  exists,      \* the modules not destroyed
  held,        \* the modules the program itself holds a shared_ptr to
  parameters,  \* per module: its entries [name, parameter], in order
  children,    \* per module: its entries [name, module], in order
  has_grad     \* the variables that have a gradient

vars == <<exists, held, parameters, children, has_grad>>
-----------------------------------------------------------------------------
ChildOf(x, y, tree) == \E i \in DOMAIN tree[y] : tree[y][i].module = x

(* What a recursion over the children from m visits.                       *)
Closed(S, tree) == \A y \in S, x \in Module : ChildOf(x, y, tree) => x \in S
Below(m, tree) == {x \in Module : \A S \in SUBSET Module : m \in S /\ Closed(S, tree) => x \in S}

(* Mutated: the search stops at the children.                              *)
containsNear(m, target) == target = m \/ ChildOf(target, m, children)

contains(m, target) == target \in Below(m, children)

(* No module is below itself: each set of modules has one on top.          *)
NoCycleIn(M, tree) ==
  \A S \in SUBSET M : S # {} => \E x \in S : \A y \in S : ~ChildOf(x, y, tree)
NoCycle(tree) == NoCycleIn(Module, tree)
Ends(m) == NoCycleIn(Below(m, children), children)

NameOf(entries) == {entries[i].name : i \in DOMAIN entries}
Entries == FoldSet(LAMBDA m, n : n + Len(parameters[m]) + Len(children[m]), 0, Module)

(* Mutated: a parent that is destroyed does not let go of its children.    *)
KeptByAnyParent(M, handles, tree) ==
  {x \in M : x \in handles \/ \E y \in M : ChildOf(x, y, tree)}

(* Who keeps a reference: the program's handles, and parents that exist.   *)
Kept(M, handles, tree) ==
  UNION {K \in SUBSET M : \A x \in K : x \in handles \/ \E y \in K : ChildOf(x, y, tree)}

(* The destructors of the modules nobody refers to any more have run.      *)
Settle(M, handles, leaves, tree) ==
  LET kept == Kept(M, handles, tree)
  IN  /\ exists' = kept
      /\ held' = handles
      /\ parameters' = [m \in Module |-> IF m \in kept THEN leaves[m] ELSE <<>>]
      /\ children' = [m \in Module |-> IF m \in kept THEN tree[m] ELSE <<>>]
-----------------------------------------------------------------------------
Init ==
  /\ exists = {} /\ held = {}
  /\ parameters = [m \in Module |-> <<>>] /\ children = [m \in Module |-> <<>>]
  /\ has_grad = {}

(* std::make_shared of a Sequential or of a class of the program.          *)
Create(m) ==
  /\ m \notin exists
  /\ exists' = exists \cup {m} /\ held' = held \cup {m}
  /\ UNCHANGED <<parameters, children, has_grad>>

(* A handle of the program goes.                                           *)
Drop(m) ==
  /\ m \in held
  /\ Settle(exists, held \ {m}, parameters, children)
  /\ UNCHANGED has_grad

RegisterParameter(m, name, v) ==
  /\ m \in held \ Sequentials
  /\ name # <<>>
  /\ v \in Trainable
  /\ name \notin NameOf(parameters[m]) \cup NameOf(children[m])
  /\ Entries < MaxEntries
  /\ parameters' = [parameters EXCEPT ![m] = Append(@, [name |-> name, parameter |-> v])]
  /\ UNCHANGED <<exists, held, children, has_grad>>

(* Mutated: children may have equal names.                                 *)
RegisterModuleTwice(m, name, c) ==
  /\ c \in held
  /\ name # <<>>
  /\ Ends(c) /\ ~contains(c, m)
  /\ name \notin NameOf(parameters[m])
  /\ Entries < MaxEntries
  /\ children' = [children EXCEPT ![m] = Append(@, [name |-> name, module |-> c])]
  /\ UNCHANGED <<exists, held, parameters, has_grad>>

(* Mutated: a child takes the place of the one of its name.                *)
RegisterModuleInPlace(m, name, c) ==
  /\ c \in held
  /\ name # <<>>
  /\ Ends(c) /\ ~contains(c, m)
  /\ name \notin NameOf(parameters[m])
  /\ Entries < MaxEntries
  /\ Settle(exists, held, parameters, [children EXCEPT ![m] =
       Append(SelectSeq(@, LAMBDA e : e.name # name), [name |-> name, module |-> c])])
  /\ UNCHANGED has_grad

RegisterModule(m, name, c) ==
  /\ c \in held
  /\ name # <<>>
  /\ Ends(c) /\ ~contains(c, m)
  /\ name \notin NameOf(parameters[m]) \cup NameOf(children[m])
  /\ Entries < MaxEntries
  /\ children' = [children EXCEPT ![m] = Append(@, [name |-> name, module |-> c])]
  /\ UNCHANGED <<exists, held, parameters, has_grad>>

(* register_module is protected: a class of the program calls it.          *)
Register(m, name, c) == m \in held \ Sequentials /\ RegisterModule(m, name, c)

(* Sequential::add, the only way into a Sequential.                        *)
Add(m, c) ==
  /\ m \in held \cap Sequentials
  /\ RegisterModule(m, <<Numeral(Len(children[m]))>>, c)

(* The defaulted moves: *n is left without entries.                        *)
SameClass(m, n) == m \in Sequentials <=> n \in Sequentials

MoveConstruct(m, n) ==
  /\ m \notin exists /\ n \in held /\ SameClass(m, n)
  /\ exists' = exists \cup {m} /\ held' = held \cup {m}
  /\ parameters' = [parameters EXCEPT ![m] = parameters[n], ![n] = <<>>]
  /\ children' = [children EXCEPT ![m] = children[n], ![n] = <<>>]
  /\ UNCHANGED has_grad

MoveAssign(m, n) ==
  /\ m \in held /\ n \in held \ {m} /\ SameClass(m, n)
  /\ Settle(exists, held, [parameters EXCEPT ![m] = parameters[n], ![n] = <<>>],
                          [children EXCEPT ![m] = children[n], ![n] = <<>>])
  /\ UNCHANGED has_grad

(* backward gives a trainable variable a gradient.                         *)
Backward(v) ==
  /\ v \in Trainable
  /\ has_grad' = has_grad \cup {v}
  /\ UNCHANGED <<exists, held, parameters, children>>

Owned(m) == {parameters[m][i].parameter : i \in DOMAIN parameters[m]}

ZeroGrad(m) ==
  /\ m \in held /\ Ends(m)
  /\ has_grad' = has_grad \ UNION {Owned(x) : x \in Below(m, children)}
  /\ UNCHANGED <<exists, held, parameters, children>>

Next ==
  \/ \E m \in Module :
       \/ Create(m) \/ Drop(m) \/ ZeroGrad(m)
       \/ \E name \in Names, v \in Variable : RegisterParameter(m, name, v)
       \/ \E n \in Module :
            \/ Add(m, n) \/ MoveConstruct(m, n) \/ MoveAssign(m, n)
            \/ \E name \in Names : Register(m, name, n)
  \/ \E v \in Variable : Backward(v)

Spec == Init /\ [][Next]_vars
-----------------------------------------------------------------------------
(* named_parameters of m, when the recursion ends: its own entries, then   *)
(* each child's, once for every path, under the child's name.              *)
Under(name, entries) == [i \in DOMAIN entries |-> [entries[i] EXCEPT !.name = name \o @]]

Listing(leaves, tree) ==
  LET upTo[depth \in 0 .. Cardinality(Module)] ==
        [x \in Module |->
          IF depth = 0 THEN <<>>
          ELSE leaves[x] \o
               FlattenSeq([i \in DOMAIN tree[x] |->
                 Under(tree[x][i].name, upTo[depth - 1][tree[x][i].module])])]
  IN  upTo[Cardinality(Module)]

NamedParameters(m) == Listing(parameters, children)[m]

(* s with entries added anywhere.                                          *)
KeptIn(s, t) ==
  /\ Range(s) \subseteq Range(t)
  /\ \A i, j \in DOMAIN s :
       i < j => \E k, l \in DOMAIN t : k < l /\ t[k] = s[i] /\ t[l] = s[j]

Moves == \E m, n \in Module : MoveConstruct(m, n) \/ MoveAssign(m, n)
-----------------------------------------------------------------------------
(* The check of register_module is enough: from modules without a cycle, a *)
(* cycle comes only of moving a module into one that is below it, which    *)
(* nothing checks.                                                         *)
OnlyMovesMakeCycles ==
  [][NoCycle(children) =>
       \/ NoCycle(children)'
       \/ \E m, n \in Module : MoveAssign(m, n) /\ m \in Below(n, children)]_vars

(* Without a cycle, every module not destroyed is below one that the       *)
(* program holds: shared ownership leaks nothing, whatever was shared,     *)
(* dropped and moved.                                                      *)
LeaksOnlyInCycles ==
  NoCycle(children) => \A x \in exists : \E h \in held : x \in Below(h, children)

(* Names tell entries of named_parameters apart, unless a name with a dot  *)
(* was given: register_parameter and register_module compare the names of  *)
(* one module only, and accept dots.                                       *)
NamesTellApart ==
  \A m \in exists : Ends(m) =>
    LET listing == NamedParameters(m)
    IN  \/ \A i, j \in DOMAIN listing : i # j => listing[i].name # listing[j].name
        \/ \E x \in Below(m, children) :
             \E name \in NameOf(parameters[x]) \cup NameOf(children[x]) : Len(name) > 1

(* What a checkpoint was written by stays: registering, adding, dropping   *)
(* and clearing keep each entry of named_parameters, with its name, and    *)
(* the entries' order; only a move takes entries away.                     *)
ListingGrows ==
  [][Moves \/ \A m \in exists \cap exists' :
       Ends(m) => KeptIn(NamedParameters(m), NamedParameters(m)')]_vars
=============================================================================
