-------------------------------- MODULE Trees --------------------------------
(***************************************************************************)
(* Trees of values: kernel/tree.hpp.  The first half are lookups and       *)
(* updates by a path of keys in nested assocs; the second half are binary  *)
(* search trees, which the component server keeps its tables in.           *)
(***************************************************************************)
EXTENDS Values

\* The assocs with the path, which may start anywhere in the tree.
RECURSIVE treeSelectAssoc(_, _)
treeSelectAssoc(k, l) ==
    IF k = <<>> \/ l = <<>> THEN <<>>
    ELSE IF isSymbol(Car(l)) /\ Eq(Car(l), Car(k)) /\ Cdr(k) = <<>> THEN <<Lst(l)>>
    ELSE LET a == AsList(Car(l))
             rest == treeSelectAssoc(k, Cdr(l))
         IN IF ~isAssoc(Car(l)) THEN treeSelectAssoc(k, a) \o rest
            ELSE IF Eq(Car(a), Car(k))
                 THEN (IF Cdr(k) = <<>> THEN <<Car(l)>> ELSE treeSelectAssoc(Cdr(k), Cdr(a))) \o rest
            ELSE IF Cdr(a) = <<>> THEN rest
            ELSE treeSelectAssoc(k, AsList(Cadr(a))) \o treeSelectAssoc(k, Cddr(a)) \o rest

\* Mutant: only the first assoc with a key is followed.
RECURSIVE SubstFirst(_, _, _)
SubstFirst(k, n, l) ==
    IF k = <<>> \/ l = <<>> THEN l
    ELSE LET a == AsList(Car(l))
         IN IF isAssoc(Car(l)) /\ Eq(Car(a), Car(k))
            THEN <<Lst(IF Cdr(k) = <<>> THEN n ELSE <<Car(a)>> \o SubstFirst(Cdr(k), n, Cdr(a)))>> \o Cdr(l)
            ELSE <<Car(l)>> \o SubstFirst(k, n, Cdr(l))
\* The assocs with the path are replaced by n.
RECURSIVE treeSubstAssoc(_, _, _)
treeSubstAssoc(k, n, l) ==
    IF k = <<>> \/ l = <<>> THEN l
    ELSE IF isSymbol(Car(l)) /\ Eq(Car(l), Car(k)) /\ Cdr(k) = <<>> THEN n
    ELSE LET a == AsList(Car(l))
             rest == treeSubstAssoc(k, n, Cdr(l))
             Below(v) == IF isList(v) THEN Lst(treeSubstAssoc(k, n, v[2])) ELSE v
         IN IF ~isAssoc(Car(l)) THEN <<Below(Car(l))>> \o rest
            ELSE IF Eq(Car(a), Car(k))
                 THEN <<Lst(IF Cdr(k) = <<>> THEN n
                            ELSE <<Car(a)>> \o treeSubstAssoc(Cdr(k), n, Cdr(a)))>> \o rest
            ELSE IF Cdr(a) = <<>> THEN <<Car(l)>> \o rest
            ELSE <<Lst(<<Car(a), Below(Cadr(a))>> \o treeSubstAssoc(k, n, Cddr(a)))>> \o rest

\* The assocs with the path are left out, and so are lists that have nothing else.
RECURSIVE treeDelAssoc(_, _)
treeDelAssoc(k, l) ==
    IF k = <<>> \/ l = <<>> THEN l
    ELSE IF isSymbol(Car(l)) /\ Eq(Car(l), Car(k)) /\ Cdr(k) = <<>> THEN <<>>
    ELSE LET a == AsList(Car(l))
             rest == treeDelAssoc(k, Cdr(l))
             Below(v) == IF ~isList(v) THEN <<v>>
                         ELSE LET d == treeDelAssoc(k, v[2]) IN IF d = <<>> THEN <<>> ELSE <<Lst(d)>>
         IN IF ~isAssoc(Car(l)) THEN Below(Car(l)) \o rest
            ELSE IF Eq(Car(a), Car(k))
                 THEN (IF Cdr(k) = <<>> THEN <<>>
                       ELSE <<Lst(<<Car(a)>> \o treeDelAssoc(Cdr(k), Cdr(a)))>>) \o rest
            ELSE IF Cdr(a) = <<>> THEN <<Car(l)>> \o rest
            ELSE <<Lst(<<Car(a)>> \o Below(Cadr(a)) \o treeDelAssoc(k, Cddr(a)))>> \o rest

------------------------------------------------------------------------------
\* A binary search tree is empty, or a leaf and two branches.
mkrbtree(e, left, right) == <<e, left, right>>

\* Mutant: what is equal comes after.
NeverEqual(a, b) == IF Less(a, b) THEN -1 ELSE 1
rbtreeComp(a, b) == IF Eq(a, b) THEN 0 ELSE IF Less(a, b) THEN -1 ELSE 1

rbtreeCons(leaf, into, comp(_, _)) ==
    LET RECURSIVE Add(_)
        Add(tree) ==
            IF tree = <<>> THEN mkrbtree(leaf, <<>>, <<>>)
            ELSE CASE comp(leaf, tree[1]) = 0 -> tree
                   [] comp(leaf, tree[1]) = -1 -> mkrbtree(tree[1], Add(tree[2]), tree[3])
                   [] OTHER -> mkrbtree(tree[1], tree[2], Add(tree[3]))
    IN Add(into)

\* The last leaf of the list goes in first.
TreeOf(l, comp(_, _)) == FoldRight(LAMBDA e, tree : rbtreeCons(e, tree, comp), l, <<>>)

RECURSIVE rbtreeAssoc(_, _)
rbtreeAssoc(k, tree) ==
    IF tree = <<>> THEN <<>>
    ELSE LET leaf == AsList(tree[1])
         IN IF Eq(k, Car(leaf)) THEN leaf
            ELSE rbtreeAssoc(k, IF Less(k, Car(leaf)) THEN tree[2] ELSE tree[3])

RECURSIVE flatten(_)
flatten(tree) == IF tree = <<>> THEN <<>> ELSE flatten(tree[2]) \o <<tree[1]>> \o flatten(tree[3])

sort(l, comp(_, _)) == flatten(TreeOf(l, comp))

\* Mutant: the branch after the root starts one too late.
RECURSIVE LossyTree(_)
LossyTree(l) ==
    IF l = <<>> THEN <<>>
    ELSE LET left == (Len(l) - 1) \div 2
         IN mkrbtree(l[left + 1], LossyTree(SubSeq(l, 1, left)), LossyTree(SubSeq(l, left + 3, Len(l))))
\* A balanced tree of an ordered list: the root is in the middle, before it if there are two.
RECURSIVE mkbrbtree(_)
mkbrbtree(l) ==
    IF l = <<>> THEN <<>>
    ELSE LET left == (Len(l) - 1) \div 2
         IN mkrbtree(l[left + 1], mkbrbtree(SubSeq(l, 1, left)), mkbrbtree(SubSeq(l, left + 2, Len(l))))
=============================================================================
