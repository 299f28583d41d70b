---------------------------- MODULE MCBlockReduce ----------------------------
(***************************************************************************)
(* TLC instances of BlockReduce.  A number is the expression that computes *)
(* it, in prefix notation: different orders of addition give different     *)
(* numbers.                                                                *)
(***************************************************************************)
EXTENDS BlockReduce, Sequences, FiniteSets

Plus == 0
MCZero == <<1>>
MCGarbage == <<2>>
MCElement(i) == <<3 + i>>
MCAdd(x, y) == <<Plus>> \o x \o y
MCNumber == Seq(Nat \ {2})
MCOccurs(i, x) == Cardinality({k \in DOMAIN x : x[k] = 3 + i})

MCTree(count, b, s, l) ==
  LET tree[k \in 0 .. Lanes] ==
        IF k = Lanes THEN [j \in Lane |-> LocalSum(count, b, j)]
        ELSE LET wide == tree[IF k = 0 THEN 1 ELSE 2 * k]
             IN [j \in Lane |-> IF j < k THEN MCAdd(wide[j], wide[j + k]) ELSE wide[j]]
  IN tree[s][l]

(* Occurs is a count on these numbers, here on the short ones.             *)
Short == UNION {[1 .. k -> 0 .. 5] : k \in 1 .. 2}
ASSUME CountsInstance == Counts(0 .. 2, Short)
=============================================================================
