--------------------------- MODULE CritbitProofs ---------------------------
(***************************************************************************)
(* What critbit.c promises callers that insert no key twice, for any       *)
(* number of threads, blocks and bits: a get finds what has been there all *)
(* the time, critbit_delete frees every block once, and the writers        *)
(* implement the dictionary.                                               *)
(*                                                                         *)
(* First the walks, then the two steps that change the tree, then the      *)
(* parts of the invariant one by one, then critbit_delete and the          *)
(* dictionary.                                                             *)
(***************************************************************************)
EXTENDS CritbitInv, ListProofs, SequenceTheorems

\* Nodes, leaves and places are told apart.
LEMMA NodeFacts ==
    /\ \A b \in Blocks : Leaf(b) \in Nodes /\ Inner(b) \in Nodes
    /\ \A b, c \in Blocks : Leaf(b) # Inner(c)
    /\ \A b, c \in Blocks : Leaf(b) = Leaf(c) => b = c
    /\ \A b, c \in Blocks : Inner(b) = Inner(c) => b = c
    /\ \A b \in Blocks : Leaf(b)[1] = b
    /\ \A n \in Nodes : \E b \in Blocks : n = Leaf(b) \/ n = Inner(b)
    /\ NULL \notin Nodes /\ NULL \notin Blocks /\ NULL \notin Values
    /\ \A n \in Nodes : n \notin Values
    /\ \A n \in Nodes, d \in 0 .. 1 : <<n, d>> # Top
  BY CritbitAssumption DEF Leaf, Inner, Nodes, Top

\* Keys are functions on the positions, which are those of the tree's bits.
LEMMA KeyFacts ==
    /\ WIDTH \in Nat /\ WIDTH > 0
    /\ Digits \subseteq Nat /\ \A p \in Digits : p < WIDTH
    /\ \A key \in Key, p \in Digits : key[p] \in 0 .. 1
    /\ \A key \in Key, b \in Int : Below(key, b) \in Key
    /\ Zero \in Key
    /\ Keys \subseteq Key
    /\ \A a, b \in Key : (\A p \in Digits : a[p] = b[p]) => a = b
    /\ NoBit \notin Digits
<1>1. WIDTH \in Nat /\ WIDTH > 0 BY CritbitAssumption
<1>2. Digits \subseteq Nat /\ (\A p \in Digits : p < WIDTH) /\ NoBit \notin Digits
  BY <1>1 DEF Digits, NoBit
<1>3. \A key \in Key, p \in Digits : key[p] \in 0 .. 1 BY DEF Key
<1>4. \A key \in Key, b \in Int : Below(key, b) \in Key BY DEF Key, Below
<1>5. Zero \in Key BY DEF Zero, Key
<1>6. Keys \subseteq Key BY CritbitAssumption
<1>7. \A a, b \in Key : (\A p \in Digits : a[p] = b[p]) => a = b BY DEF Key
<1> QED BY <1>1, <1>2, <1>3, <1>4, <1>5, <1>6, <1>7

\* The fields of the memory.
LEMMA Fields ==
    ASSUME TypeOK
    PROVE  /\ mem.root \in Ptr /\ mem.deleted_node \in Ptr
           /\ \A n \in Nodes, d \in 0 .. 1 : mem.child[n][d] \in Ptr \cup Values
           /\ \A n \in Nodes : mem.path[n] \in Key
           /\ \A n \in Nodes : mem.bit[n] \in Digits \cup {NoBit}
           /\ \A n \in Nodes : ~IsLeaf(n) <=> mem.bit[n] \in Digits
           /\ \A n \in InnerNodes : n \in Nodes /\ mem.bit[n] \in Digits
           /\ \A n \in Nodes : ~IsLeaf(n) <=> n \in InnerNodes
<1>1. mem \in [root : Ptr, deleted_node : Ptr,
               child : [Nodes -> [0 .. 1 -> Ptr \cup Values]],
               path : [Nodes -> Key], bit : [Nodes -> {NoBit} \cup Digits]]
  BY DEF TypeOK
<1>2. mem.root \in Ptr /\ mem.deleted_node \in Ptr BY <1>1
<1>3. \A n \in Nodes, d \in 0 .. 1 : mem.child[n][d] \in Ptr \cup Values
  <2>1. mem.child \in [Nodes -> [0 .. 1 -> Ptr \cup Values]] BY <1>1
  <2> QED BY <2>1
<1>4. \A n \in Nodes : mem.path[n] \in Key
  <2>1. mem.path \in [Nodes -> Key] BY <1>1
  <2> QED BY <2>1
<1>5. \A n \in Nodes : mem.bit[n] \in Digits \cup {NoBit}
  <2>1. mem.bit \in [Nodes -> {NoBit} \cup Digits] BY <1>1
  <2> QED BY <2>1
<1>6. \A n \in Nodes : ~IsLeaf(n) <=> mem.bit[n] \in Digits
  BY <1>5, KeyFacts DEF IsLeaf
<1>7. \A n : n \in InnerNodes <=> n \in Nodes /\ ~IsLeaf(n) BY DEF InnerNodes
<1> QED BY <1>2, <1>3, <1>4, <1>5, <1>6, <1>7

\* The positions of nodes.
LEMMA Positions ==
    ASSUME TypeOK
    PROVE  /\ \A x \in Nodes : Pos(x) \in Nat /\ Pos(x) <= WIDTH
           /\ \A x \in Nodes : IsLeaf(x) => Pos(x) = WIDTH
           /\ \A x \in InnerNodes :
                 /\ Pos(x) = mem.bit[x] /\ mem.bit[x] \in Nat /\ mem.bit[x] < WIDTH
                 /\ mem.bit[x] \in Digits /\ x \in Nodes /\ ~IsLeaf(x)
<1>1. \A x \in InnerNodes : /\ x \in Nodes /\ ~IsLeaf(x)
                            /\ mem.bit[x] \in Digits
  BY Fields
<1>2. \A x \in Nodes : x \in InnerNodes \/ IsLeaf(x) BY Fields
<1>3. \A x \in InnerNodes : Pos(x) = mem.bit[x] BY <1>1 DEF Pos
<1>4. \A x \in Nodes : IsLeaf(x) => Pos(x) = WIDTH BY DEF Pos
<1>5. \A p \in Digits : p \in Nat /\ p < WIDTH /\ p <= WIDTH BY KeyFacts
<1>6. ASSUME NEW x \in Nodes PROVE Pos(x) \in Nat /\ Pos(x) <= WIDTH
  <2>1. CASE IsLeaf(x)
    <3>1. Pos(x) = WIDTH BY <2>1, <1>4
    <3> QED BY <3>1, KeyFacts
  <2>2. CASE x \in InnerNodes
    <3>1. PICK p \in Digits : p = Pos(x) BY <2>2, <1>1, <1>3
    <3> QED BY <3>1, <1>5
  <2> QED BY <2>1, <2>2, <1>2
<1>7. ASSUME NEW x \in InnerNodes PROVE mem.bit[x] \in Nat /\ mem.bit[x] < WIDTH
  <2>1. PICK p \in Digits : p = mem.bit[x] BY <1>1
  <2> QED BY <2>1, <1>5
<1> QED BY <1>1, <1>3, <1>4, <1>6, <1>7

\* An inner node of the tree, with what it says of key.
LEMMA BelowIs ==
    ASSUME TypeOK, NEW T, Edges(T), NEW n \in T, n \in Nodes, ~IsLeaf(n),
           NEW key \in Key
    PROVE  Below(key, mem.bit[n]) = mem.path[n] <=> OnPath(key, n)
<1>1. mem.bit[n] \in Digits /\ mem.path[n] \in Key /\ mem.bit[n] \in Nat
  BY Fields, KeyFacts
<1>2. Below(key, mem.bit[n]) \in Key BY <1>1, KeyFacts
<1>3. \A p \in Digits : Below(key, mem.bit[n])[p] =
                           IF p < mem.bit[n] THEN key[p] ELSE 0
  BY DEF Below
<1>4. \A p \in Digits : p >= mem.bit[n] => mem.path[n][p] = 0 BY DEF Edges
<1>5. \A p \in Digits : p < mem.bit[n] \/ p >= mem.bit[n]
  <2>1. \A p \in Digits : p \in Nat BY KeyFacts
  <2> QED BY <1>1, <2>1
<1>6. ASSUME Below(key, mem.bit[n]) = mem.path[n] PROVE OnPath(key, n)
  BY <1>3, <1>6 DEF OnPath
<1>7. ASSUME OnPath(key, n) PROVE Below(key, mem.bit[n]) = mem.path[n]
  <2>1. \A p \in Digits : Below(key, mem.bit[n])[p] = mem.path[n][p]
    BY <1>1, <1>3, <1>4, <1>5, <1>7, KeyFacts DEF OnPath
  <2> QED BY <2>1, <1>1, <1>2, KeyFacts
<1> QED BY <1>6, <1>7
\* Positions are natural numbers.
LEMMA DigitFacts ==
    /\ WIDTH \in Nat /\ WIDTH > 0
    /\ \A p : p \in Digits <=> p \in Nat /\ p < WIDTH
  BY CritbitAssumption DEF Digits

-----------------------------------------------------------------------------
(* Above and below.                                                        *)

LEMMA UnderTrans ==
    ASSUME TypeOK, NEW x \in Nodes, NEW y \in Nodes, NEW z \in Nodes,
           Under(x, y), Under(y, z)
    PROVE  /\ Under(x, z) /\ mem.bit[z] < mem.bit[y]
           /\ mem.path[x][mem.bit[z]] = mem.path[y][mem.bit[z]]
<1>1. y \in InnerNodes /\ z \in InnerNodes BY DEF Under
<1>2. /\ mem.bit[y] \in Nat /\ mem.bit[z] \in Nat /\ mem.bit[z] \in Digits
      /\ Pos(y) = mem.bit[y] /\ Pos(x) \in Nat
  BY <1>1, Positions
<1>3. mem.bit[z] < mem.bit[y] /\ mem.bit[z] < Pos(x) BY <1>2 DEF Under
<1>4. \A p \in Digits : p < mem.bit[y] => mem.path[x][p] = mem.path[y][p]
  BY DEF Under, OnPath
<1>5. \A p \in Digits : p < mem.bit[z] => mem.path[y][p] = mem.path[z][p]
  BY DEF Under, OnPath
<1>6. \A p \in Digits : p < mem.bit[z] => p < mem.bit[y]
  BY <1>2, <1>3, DigitFacts
<1>7. OnPath(mem.path[x], z) BY <1>4, <1>5, <1>6 DEF OnPath
<1> QED BY <1>1, <1>2, <1>3, <1>4, <1>7 DEF Under

\* Of two nodes above a third one is above the other, or they are in the same
\* place.
LEMMA UnderBoth ==
    ASSUME TypeOK, NEW x \in Nodes, NEW y \in Nodes, NEW z \in Nodes,
           Under(x, y), Under(x, z), mem.bit[z] < mem.bit[y]
    PROVE  Under(y, z) /\ mem.path[x][mem.bit[z]] = mem.path[y][mem.bit[z]]
<1>1. y \in InnerNodes /\ z \in InnerNodes BY DEF Under
<1>2. /\ mem.bit[y] \in Nat /\ mem.bit[z] \in Nat /\ mem.bit[z] \in Digits
      /\ Pos(y) = mem.bit[y]
  BY <1>1, Positions
<1>4. \A p \in Digits : p < mem.bit[y] => mem.path[x][p] = mem.path[y][p]
  BY DEF Under, OnPath
<1>5. \A p \in Digits : p < mem.bit[z] => mem.path[x][p] = mem.path[z][p]
  BY DEF Under, OnPath
<1>6. \A p \in Digits : p < mem.bit[z] => p < mem.bit[y]
  BY <1>2, DigitFacts
<1>7. OnPath(mem.path[y], z) BY <1>4, <1>5, <1>6 DEF OnPath
<1> QED BY <1>1, <1>2, <1>4, <1>7 DEF Under

LEMMA UnderNot ==
    ASSUME TypeOK, NEW x \in Nodes, NEW y \in Nodes, Under(x, y)
    PROVE  x # y /\ ~Under(y, x)
<1>1. y \in InnerNodes /\ mem.bit[y] < Pos(x) BY DEF Under
<1>2. mem.bit[y] \in Nat /\ Pos(y) = mem.bit[y] /\ Pos(x) \in Nat
  BY <1>1, Positions
<1>3. x # y BY <1>1, <1>2
<1>4. ASSUME Under(y, x) PROVE FALSE
  <2>1. x \in InnerNodes /\ mem.bit[x] < Pos(y) BY <1>4 DEF Under
  <2>2. Pos(x) = mem.bit[x] BY <2>1, Positions
  <2> QED BY <1>1, <1>2, <2>1, <2>2
<1> QED BY <1>3, <1>4

\* The root has nothing above it.
LEMMA RootTop ==
    ASSUME TypeOK, NEW T \in SUBSET Nodes, Tree(T), NEW n \in T
    PROVE  /\ mem.root \in T
           /\ ~Under(mem.root, n)
<1>1. Leads(mem.root, n) BY DEF Tree, Cover
<1>2. mem.root \in T BY <1>1, NodeFacts DEF Tree, Members, Leads, Under, InnerNodes
<1>3. ASSUME Under(mem.root, n) PROVE FALSE
  <2>1. mem.root # n /\ ~Under(n, mem.root) BY <1>2, <1>3, UnderNot
  <2> QED BY <1>1, <2>1 DEF Leads
<1> QED BY <1>2, <1>3

\* c hangs at the inner node n in direction d.
Child(c, n, d, T) ==
    /\ n \in InnerNodes /\ mem.bit[n] \in Digits /\ mem.bit[n] \in Nat
    /\ c \in T /\ c \in Nodes /\ Under(c, n) /\ mem.path[c][mem.bit[n]] = d
    /\ c # mem.root /\ c # NULL

LEMMA EdgeFacts ==
    ASSUME TypeOK, NEW T \in SUBSET Nodes, Tree(T),
           NEW n \in T, ~IsLeaf(n), NEW d \in 0 .. 1
    PROVE  Child(mem.child[n][d], n, d, T)
<1>1. n \in InnerNodes /\ mem.bit[n] \in Digits /\ mem.bit[n] \in Nat
  BY Fields, Positions
<1>2. /\ mem.child[n][d] \in T /\ Under(mem.child[n][d], n)
      /\ mem.path[mem.child[n][d]][mem.bit[n]] = d
  BY DEF Tree, Edges
<1>3. mem.child[n][d] # mem.root BY <1>2, RootTop
<1>4. mem.child[n][d] # NULL BY <1>2, NodeFacts
<1> QED BY <1>1, <1>2, <1>3, <1>4 DEF Child

\* The parent of a node is the lowest one above it.
LEMMA ParentLowest ==
    ASSUME TypeOK, NEW T \in SUBSET Nodes, Tree(T),
           NEW q \in T, ~IsLeaf(q), NEW d \in 0 .. 1,
           NEW y \in T, Under(mem.child[q][d], y), y # q
    PROVE  Under(q, y) /\ mem.bit[y] < mem.bit[q]
<1>0. Child(mem.child[q][d], q, d, T) BY EdgeFacts
<1>1. PICK n \in T : n = mem.child[q][d] BY <1>0 DEF Child
<1>2. Under(n, q) /\ Under(n, y) /\ mem.path[n][mem.bit[q]] = d BY <1>0, <1>1 DEF Child
<1>3. y \in InnerNodes /\ q \in InnerNodes BY <1>2 DEF Under
<1>4. /\ mem.bit[y] \in Nat /\ mem.bit[q] \in Nat
      /\ Pos(y) = mem.bit[y] /\ Pos(q) = mem.bit[q]
      /\ ~IsLeaf(y) /\ ~IsLeaf(q)
  BY <1>3, Positions
<1>5. ASSUME mem.bit[q] < mem.bit[y] PROVE FALSE
  <2>1. Under(y, q) /\ mem.path[n][mem.bit[q]] = mem.path[y][mem.bit[q]]
    BY <1>2, <1>5, UnderBoth
  <2>2. Leads(n, y) BY <2>1, <1>1, <1>2 DEF Tree, Cover
  <2>3. n # y /\ ~Under(y, n) BY <1>2, UnderNot
  <2> QED BY <2>2, <2>3 DEF Leads
<1>6. ASSUME mem.bit[q] = mem.bit[y] PROVE FALSE
  <2>1. mem.path[q] \in Key /\ mem.path[y] \in Key BY Fields
  <2>2. \A p \in Digits : p < mem.bit[q] => mem.path[q][p] = mem.path[y][p]
    BY <1>2, <1>6 DEF Under, OnPath
  <2>3. \A p \in Digits : p >= mem.bit[q] => mem.path[q][p] = mem.path[y][p]
    BY <1>4, <1>6 DEF Tree, Edges
  <2>4. \A p \in Digits : p < mem.bit[q] \/ p >= mem.bit[q]
    BY <1>4, DigitFacts
  <2>5. mem.path[q] = mem.path[y]
    <3>1. \A p \in Digits : mem.path[q][p] = mem.path[y][p] BY <2>2, <2>3, <2>4
    <3> QED BY <3>1, <2>1, KeyFacts
  <2> QED BY <2>5, <1>4, <1>6 DEF Tree, Once
<1>7. mem.bit[y] < mem.bit[q] BY <1>4, <1>5, <1>6
<1>8. Under(q, y) BY <1>2, <1>7, UnderBoth
<1> QED BY <1>7, <1>8

\* No node is linked twice.
LEMMA OneParent ==
    ASSUME TypeOK, NEW T \in SUBSET Nodes, Tree(T),
           NEW q \in T, ~IsLeaf(q), NEW d \in 0 .. 1,
           NEW y \in T, ~IsLeaf(y), NEW e \in 0 .. 1,
           mem.child[q][d] = mem.child[y][e]
    PROVE  q = y /\ d = e
<1>0. Child(mem.child[q][d], q, d, T) /\ Child(mem.child[y][e], y, e, T) BY EdgeFacts
<1>1. Under(mem.child[q][d], y) /\ Under(mem.child[y][e], q) BY <1>0 DEF Child
<1>2. q = y
  <2>1. ASSUME q # y PROVE FALSE
    <3>1. Under(q, y) BY <1>1, <2>1, ParentLowest
    <3>2. Under(y, q) BY <1>1, <2>1, ParentLowest
    <3> QED BY <3>1, <3>2, UnderNot
  <2> QED BY <2>1
<1>3. /\ mem.path[mem.child[q][d]][mem.bit[q]] = d
      /\ mem.path[mem.child[y][e]][mem.bit[y]] = e
  BY <1>0 DEF Child
<1> QED BY <1>2, <1>3
-----------------------------------------------------------------------------
(* The walks.  Walk is a recursive function of the number of steps.        *)

\* One step of a walk.
Onward(place, key, On) ==
    IF At(place) \in On THEN <<At(place), Dir(At(place), key)>> ELSE place

\* f is the walk as far as step k.
Ascend(f, key, On, k) ==
    f = [d \in 0 .. k |-> IF d = 0 THEN Top ELSE Onward(f[d-1], key, On)]

\* The recursive definition of Walk does define a function.
LEMMA AscendExists ==
    ASSUME NEW key, NEW On, NEW K \in Nat
    PROVE  \E f : Ascend(f, key, On, K)
<1> DEFINE T == {k \in Nat : ~ \E f : Ascend(f, key, On, k)}
<1>0. T \subseteq Nat OBVIOUS
<1>1. SUFFICES ASSUME T # {} PROVE FALSE BY <1>0
<1>2. PICK k \in T : \A e \in T : k <= e BY <1>0, <1>1, LeastNat
<1>3. k # 0
  <2> DEFINE f == [d \in 0 .. 0 |-> Top]
  <2>1. Ascend(f, key, On, 0) BY DEF Ascend
  <2> QED BY <2>1
<1>4. k-1 \in Nat /\ k-1 \notin T BY <1>2, <1>3
<1>5. PICK g : Ascend(g, key, On, k-1) BY <1>4
<1> DEFINE f == [d \in 0 .. k |-> IF d = 0 THEN Top ELSE Onward(g[d-1], key, On)]
<1>6. \A d \in 0 .. k-1 : f[d] = g[d] BY <1>5, <1>4 DEF Ascend
<1>7. ASSUME NEW d \in 0 .. k
      PROVE  f[d] = IF d = 0 THEN Top ELSE Onward(f[d-1], key, On)
  <2>1. CASE d = 0 BY <2>1
  <2>2. CASE d # 0
    <3>1. d-1 \in 0 .. k-1 BY <2>2, <1>4
    <3>2. f[d-1] = g[d-1] BY <3>1, <1>6
    <3>3. f[d] = Onward(g[d-1], key, On) BY <2>2
    <3> QED BY <2>2, <3>2, <3>3
  <2> QED BY <2>1, <2>2
<1>8. Ascend(f, key, On, k) BY <1>7 DEF Ascend
<1> QED BY <1>8

LEMMA WalkIs ==
    ASSUME NEW key, NEW On
    PROVE  /\ Walk(key, On)[0] = Top
           /\ \A d \in 0 .. WIDTH : d # 0 =>
                 Walk(key, On)[d] = Onward(Walk(key, On)[d-1], key, On)
<1> DEFINE h == CHOOSE at : at = [d \in 0 .. WIDTH |->
                   IF d = 0 THEN Top
                   ELSE IF At(at[d-1]) \in On
                        THEN <<At(at[d-1]), Dir(At(at[d-1]), key)>>
                        ELSE at[d-1]]
<1>0. WIDTH \in Nat BY DigitFacts
<1>1. Walk(key, On) = h BY DEF Walk
<1>2. PICK f : Ascend(f, key, On, WIDTH) BY <1>0, AscendExists
<1>3. Ascend(h, key, On, WIDTH) BY <1>2 DEF Ascend, Onward
<1> HIDE DEF h
<1> DEFINE g == [d \in 0 .. WIDTH |-> IF d = 0 THEN Top ELSE Onward(h[d-1], key, On)]
<1>4. \A d \in 0 .. WIDTH : g[d] = IF d = 0 THEN Top ELSE Onward(h[d-1], key, On)
  OBVIOUS
<1>5. h = g BY <1>3 DEF Ascend
<1> HIDE DEF g
<1>6. 0 \in 0 .. WIDTH BY <1>0
<1> QED BY <1>1, <1>4, <1>5, <1>6

\* The walk has come to the place of p.
Stands(p, key, On, T) ==
    \/ p = Top
    \/ \E q \in T \cap On : /\ p = <<q, key[mem.bit[q]]>>
                            /\ \E e \in 0 .. WIDTH : At(Walk(key, On)[e]) = q

\* A walk stays in the tree, leaves On within WIDTH steps, and keeps on the way
\* to the leaf of its key.
LEMMA WalkFacts ==
    ASSUME TypeOK, NEW T \in SUBSET Nodes, Tree(T),
           NEW key \in Key, NEW On \in SUBSET InnerNodes
    PROVE  /\ \A d \in 0 .. WIDTH :
                 /\ Stands(Walk(key, On)[d], key, On, T)
                 /\ At(Walk(key, On)[d]) \in T \cup {NULL}
                 /\ \A x \in T : IsLeaf(x) /\ mem.path[x] = key =>
                                    Leads(At(Walk(key, On)[d]), x)
           /\ At(Walk(key, On)[WIDTH]) \notin On
<1> DEFINE W == Walk(key, On)
<1>w. /\ W[0] = Top
      /\ \A d \in 0 .. WIDTH : d # 0 => W[d] = Onward(W[d-1], key, On)
  BY WalkIs
<1>t. WIDTH \in Nat /\ At(Top) = mem.root BY DigitFacts DEF At
<1>n. \A n \in On : n \in InnerNodes /\ n \in Nodes /\ ~IsLeaf(n)
                    /\ mem.bit[n] \in Nat /\ mem.bit[n] < WIDTH /\ n # NULL
                    /\ mem.bit[n] \in Digits /\ key[mem.bit[n]] \in 0 .. 1
  BY Positions, NodeFacts, KeyFacts
<1> DEFINE Good(d) == /\ Stands(W[d], key, On, T)
                      /\ At(W[d]) \in T \cup {NULL}
                      /\ \A x \in T : IsLeaf(x) /\ mem.path[x] = key =>
                                         Leads(At(W[d]), x)
                      /\ At(W[d]) \in On => mem.bit[At(W[d])] >= d
           B == {d \in 0 .. WIDTH : ~Good(d)}
<1>1. Good(0)
  <2>1. Stands(W[0], key, On, T) BY <1>w DEF Stands
  <2>2. At(W[0]) = mem.root BY <1>w, <1>t
  <2>3. mem.root \in T \cup {NULL} BY DEF Tree, Members
  <2>4. \A x \in T : Leads(mem.root, x) BY DEF Tree, Cover
  <2>5. mem.root \in On => mem.bit[mem.root] >= 0 BY <1>n
  <2> QED BY <2>1, <2>2, <2>3, <2>4, <2>5
<1>2. ASSUME NEW d \in 0 .. WIDTH, d # 0, Good(d-1) PROVE Good(d)
  <2>0. d-1 \in 0 .. WIDTH BY <1>2, <1>t
  <2>1. PICK n : n = At(W[d-1]) OBVIOUS
  <2>2. W[d] = Onward(W[d-1], key, On) BY <1>2, <1>w
  <2>3. CASE n \notin On
    <3>1. W[d] = W[d-1] BY <2>1, <2>2, <2>3 DEF Onward
    <3> QED BY <3>1, <2>1, <2>3, <1>2
  <2>4. CASE n \in On
    <3>1. n \in T BY <1>2, <1>n, <2>1, <2>4
    <3>2. PICK e \in 0 .. 1 : e = key[mem.bit[n]] BY <1>n, <2>4
    <3>3. W[d] = <<n, e>> BY <2>1, <2>2, <2>4, <3>2 DEF Onward, Dir
    <3>c. Child(mem.child[n][e], n, e, T) BY <1>n, <2>4, <3>1, EdgeFacts
    <3>4. PICK c \in T : c = mem.child[n][e] BY <3>c DEF Child
    <3>5. At(W[d]) = c BY <3>3, <3>4, <3>1, NodeFacts DEF At
    <3>6. Stands(W[d], key, On, T) BY <3>1, <3>2, <3>3, <2>0, <2>1, <2>4 DEF Stands
    <3>7. ASSUME NEW x \in T, IsLeaf(x), mem.path[x] = key PROVE Leads(c, x)
      <4>1. Leads(n, x) BY <1>2, <2>1, <3>7
      <4>2. Under(x, n) BY <4>1, <3>7, <2>4, <1>n DEF Leads
      <4> QED BY <4>2, <3>1, <3>2, <3>4, <3>7 DEF Tree, Cover
    <3>8. ASSUME c \in On PROVE mem.bit[c] >= d
      <4>1. Under(c, n) BY <3>4, <3>c DEF Child
      <4>2. mem.bit[n] < mem.bit[c] BY <4>1, <3>8, Positions DEF Under
      <4>3. mem.bit[n] >= d-1 BY <1>2, <2>1, <2>4
      <4> QED BY <4>2, <4>3, <2>4, <3>8, <1>n
    <3> QED BY <3>4, <3>5, <3>6, <3>7, <3>8
  <2> QED BY <2>3, <2>4
<1>3. \A d \in 0 .. WIDTH : Good(d)
  <2>1. ASSUME B # {} PROVE FALSE
    <3>1. B \subseteq Nat OBVIOUS
    <3>2. PICK d \in B : \A e \in B : d <= e BY <2>1, <3>1, LeastNat
    <3>3. d # 0 /\ d \in 0 .. WIDTH /\ ~Good(d) BY <3>2, <1>1
    <3>4. d-1 \in 0 .. WIDTH /\ d-1 \notin B BY <3>2, <3>3, <1>t
    <3>5. Good(d-1) BY <3>4
    <3> QED BY <3>3, <3>5, <1>2
  <2> QED BY <2>1
<1>4. At(W[WIDTH]) \notin On
  <2>1. WIDTH \in 0 .. WIDTH BY <1>t
  <2>2. Good(WIDTH) BY <2>1, <1>3
  <2>3. ASSUME At(W[WIDTH]) \in On PROVE FALSE
    <3>1. mem.bit[At(W[WIDTH])] >= WIDTH BY <2>2, <2>3
    <3> QED BY <3>1, <2>3, <1>n, <1>t
  <2> QED BY <2>3
<1> QED BY <1>3, <1>4
-----------------------------------------------------------------------------
(* Where an insert puts its nodes.                                         *)

\* The critical bit of two keys.
LEMMA LowestDiffIs ==
    ASSUME NEW a \in Key, NEW key \in Key, a # key
    PROVE  /\ LowestDiff(a, key) \in Digits
           /\ a[LowestDiff(a, key)] # key[LowestDiff(a, key)]
           /\ \A p \in Digits : p < LowestDiff(a, key) => a[p] = key[p]
<1> DEFINE D == {p \in Digits : a[p] # key[p]}
<1>1. D # {} BY KeyFacts
<1>2. D \subseteq Nat BY DigitFacts
<1>3. PICK p \in D : \A e \in D : p <= e BY <1>1, <1>2, LeastNat
<1>4. \A q \in Digits : q < p => a[q] = key[q]
  <2>1. ASSUME NEW q \in Digits, q < p, a[q] # key[q] PROVE FALSE
    <3>1. q \in D BY <2>1
    <3>2. p <= q /\ p \in Nat /\ q \in Nat BY <3>1, <1>2, <1>3
    <3> QED BY <3>2, <2>1
  <2> QED BY <2>1
<1> QED BY <1>3, <1>4 DEF LowestDiff

\* The inner nodes that an insert's walk goes through.
Agree(key) == {i \in InnerNodes : Below(key, mem.bit[i]) = mem.path[i]}

\* The two keys are the same below position b.
Same(a, c, b) == \A p \in Digits : p < b => a[p] = c[p]

\* What is known of the place p where an insert of key ends, of the node n
\* there and the critical bit at.
Forks(p, n, key, at, T) ==
    /\ at \in Digits /\ at < Pos(n)
    /\ mem.path[n][at] # key[at] /\ Same(mem.path[n], key, at)
    /\ p = Top => n = mem.root
    /\ p # Top => /\ \E q \in T : /\ ~IsLeaf(q) /\ p = <<q, key[mem.bit[q]]>>
                                  /\ n = mem.child[q][key[mem.bit[q]]]
                                  /\ OnPath(key, q) /\ mem.bit[q] < at
                  /\ mem.root \in InnerNodes /\ OnPath(key, mem.root)
                  /\ mem.bit[mem.root] < at
    /\ \A x \in T : at <= Pos(x) /\ Same(mem.path[x], key, at) => Leads(n, x)
    /\ \A y \in T : ~IsLeaf(y) /\ OnPath(key, y) =>
          LET d == key[mem.bit[y]]
              c == mem.child[y][d]
          IN  /\ mem.bit[y] < at
              /\ <<y, d>> = p => c = n
              /\ <<y, d>> # p => /\ c \in InnerNodes /\ OnPath(key, c)
                                 /\ mem.bit[c] < at

LEMMA ForkPlace ==
    ASSUME TypeOK, NEW T \in SUBSET Nodes, Tree(T), NEW key \in Key,
           NEW p, Stands(p, key, Agree(key), T), NEW n \in T, n = At(p),
           n \notin Agree(key),
           \A x \in T : IsLeaf(x) => mem.path[x] # key,
           NEW at, at = LowestDiff(mem.path[n], key)
    PROVE  mem.path[n] # key /\ Forks(p, n, key, at, T)
<1>a. \A y \in T : ~IsLeaf(y) => (y \in Agree(key) <=> OnPath(key, y))
  <2>1. ASSUME NEW y \in T, ~IsLeaf(y) PROVE y \in Agree(key) <=> OnPath(key, y)
    <3>1. y \in InnerNodes BY <2>1, Fields
    <3>2. Below(key, mem.bit[y]) = mem.path[y] <=> OnPath(key, y)
      BY <2>1, BelowIs DEF Tree
    <3> QED BY <3>1, <3>2 DEF Agree
  <2> QED BY <2>1
<1>b. \A y \in T : ~IsLeaf(y) => /\ y \in InnerNodes /\ Pos(y) = mem.bit[y]
                                 /\ mem.bit[y] \in Digits /\ mem.bit[y] \in Nat
                                 /\ mem.bit[y] < WIDTH
                                 /\ key[mem.bit[y]] \in 0 .. 1
  BY Fields, Positions, KeyFacts
<1>c. mem.path[n] # key
  <2>1. CASE IsLeaf(n) BY <2>1
  <2>2. CASE ~IsLeaf(n)
    <3>1. ~OnPath(key, n) BY <1>a, <2>2
    <3> QED BY <3>1 DEF OnPath
  <2> QED BY <2>1, <2>2
<1>d. /\ at \in Digits /\ at \in Nat /\ at < WIDTH
      /\ mem.path[n][at] # key[at] /\ Same(mem.path[n], key, at)
  BY <1>c, Fields, LowestDiffIs, DigitFacts DEF Same
<1>e. Pos(n) \in Nat /\ at < Pos(n)
  <2>1. CASE IsLeaf(n) BY <2>1, <1>d, Positions
  <2>2. CASE ~IsLeaf(n)
    <3>1. PICK r \in Digits : r < mem.bit[n] /\ key[r] # mem.path[n][r]
      BY <2>2, <1>a DEF OnPath
    <3>2. ~(r < at) BY <3>1, <1>d DEF Same
    <3> QED BY <3>1, <3>2, <2>2, <1>b, <1>d, DigitFacts
  <2> QED BY <2>1, <2>2
<1>1. p = Top => n = mem.root BY DEF At
<1>2. ASSUME p # Top
      PROVE  \E q \in T : /\ ~IsLeaf(q) /\ p = <<q, key[mem.bit[q]]>>
                          /\ n = mem.child[q][key[mem.bit[q]]]
                          /\ OnPath(key, q) /\ mem.bit[q] < at
  <2>1. PICK q \in T \cap Agree(key) : p = <<q, key[mem.bit[q]]>>
    BY <1>2 DEF Stands
  <2>2. ~IsLeaf(q) BY Positions DEF Agree
  <2>3. OnPath(key, q) BY <2>2, <1>a
  <2>4. PICK d \in 0 .. 1 : d = key[mem.bit[q]] BY <2>2, <1>b
  <2>5. n = mem.child[q][d] BY <2>1, <2>4, <1>2 DEF At
  <2>c. Child(mem.child[q][d], q, d, T) BY <2>2, EdgeFacts
  <2>6. Under(n, q) /\ mem.path[n][mem.bit[q]] = d BY <2>5, <2>c DEF Child
  <2>7. \A r \in Digits : r < mem.bit[q] => mem.path[n][r] = key[r]
    BY <2>3, <2>6 DEF Under, OnPath
  <2>8. ~(at < mem.bit[q]) /\ at # mem.bit[q] BY <2>4, <2>6, <2>7, <1>d
  <2>9. mem.bit[q] < at BY <2>2, <2>8, <1>b, <1>d
  <2> QED BY <2>1, <2>2, <2>3, <2>4, <2>5, <2>9
<1>3. ASSUME p # Top
      PROVE  /\ mem.root \in InnerNodes /\ OnPath(key, mem.root)
             /\ mem.bit[mem.root] < at
  <2>1. PICK q \in T : ~IsLeaf(q) /\ OnPath(key, q) /\ mem.bit[q] < at
    BY <1>2, <1>3
  <2>2. Leads(mem.root, q) BY DEF Tree, Cover
  <2>3. CASE mem.root = q BY <2>1, <2>3, <1>b
  <2>4. CASE Under(q, mem.root)
    <3>1. mem.root \in InnerNodes /\ mem.bit[mem.root] < mem.bit[q]
      BY <2>1, <2>4, <1>b DEF Under
    <3>2. mem.bit[mem.root] \in Nat BY <3>1, Positions
    <3>3. OnPath(key, mem.root)
      <4>1. \A r \in Digits : r < mem.bit[mem.root] => r < mem.bit[q]
        BY <3>1, <3>2, <2>1, <1>b, DigitFacts
      <4> QED BY <4>1, <2>1, <2>4 DEF Under, OnPath
    <3> QED BY <3>1, <3>2, <3>3, <2>1, <1>b, <1>d
  <2> QED BY <2>2, <2>3, <2>4 DEF Leads
<1>4. ASSUME NEW x \in T, at <= Pos(x), Same(mem.path[x], key, at)
      PROVE  Leads(n, x)
  <2>1. CASE p = Top BY <2>1, <1>1 DEF Tree, Cover
  <2>2. CASE p # Top
    <3>1. PICK q \in T : /\ ~IsLeaf(q) /\ n = mem.child[q][key[mem.bit[q]]]
                         /\ OnPath(key, q) /\ mem.bit[q] < at
      BY <1>2, <2>2
    <3>2. Pos(x) \in Nat BY Positions
    <3>b. q \in InnerNodes /\ mem.bit[q] \in Nat /\ mem.bit[q] \in Digits
      BY <3>1, <1>b
    <3>c. mem.bit[q] < at /\ at \in Nat BY <3>1, <1>d
    <3>3. \A r \in Digits : r < mem.bit[q] => r < at BY <3>b, <3>c, DigitFacts
    <3>4. Under(x, q)
      <4>1. mem.bit[q] < Pos(x) BY <3>2, <3>b, <3>c, <1>4
      <4>2. OnPath(mem.path[x], q) BY <3>1, <3>3, <1>4 DEF OnPath, Same
      <4> QED BY <4>1, <4>2, <3>b DEF Under
    <3>5. mem.path[x][mem.bit[q]] = key[mem.bit[q]] BY <3>1, <3>b, <1>4 DEF Same
    <3> QED BY <3>1, <3>4, <3>5 DEF Tree, Cover
  <2> QED BY <2>1, <2>2
<1>5. ASSUME NEW y \in T, ~IsLeaf(y), OnPath(key, y) PROVE mem.bit[y] < at
  <2>1. SUFFICES ASSUME at <= mem.bit[y] PROVE FALSE BY <1>b, <1>d, <1>5
  <2>2. Same(mem.path[y], key, at)
    BY <2>1, <1>b, <1>d, <1>5, DigitFacts DEF OnPath, Same
  <2>3. Leads(n, y) BY <2>1, <2>2, <1>b, <1>4, <1>5
  <2>4. y # n BY <1>a, <1>5
  <2>5. Under(y, n) BY <2>3, <2>4 DEF Leads
  <2>6. ~IsLeaf(n) /\ mem.bit[n] < mem.bit[y] BY <2>5, <1>b, <1>5, Positions DEF Under
  <2>7. \A r \in Digits : r < mem.bit[n] => r < mem.bit[y]
    BY <2>6, <1>b, <1>5, DigitFacts
  <2>8. OnPath(key, n) BY <2>5, <2>7, <1>5 DEF Under, OnPath
  <2> QED BY <2>6, <2>8, <1>a
<1>6. ASSUME NEW y \in T, ~IsLeaf(y), OnPath(key, y),
             NEW d \in 0 .. 1, d = key[mem.bit[y]],
             NEW c, c = mem.child[y][d]
      PROVE  /\ <<y, d>> = p => c = n
             /\ <<y, d>> # p => /\ c \in InnerNodes /\ OnPath(key, c)
                                /\ mem.bit[c] < at
  <2>0. mem.bit[y] < at /\ mem.bit[y] \in Nat /\ mem.bit[y] \in Digits
    BY <1>5, <1>6, <1>b
  <2>1. mem.path[n][mem.bit[y]] = d BY <2>0, <1>d, <1>6 DEF Same
  <2>2. Under(n, y)
    <3>1. \A r \in Digits : r < mem.bit[y] => r < at BY <2>0, <1>d, DigitFacts
    <3>2. OnPath(mem.path[n], y) BY <3>1, <1>d, <1>6 DEF OnPath, Same
    <3>3. mem.bit[y] < Pos(n) BY <2>0, <1>d, <1>e
    <3> QED BY <3>2, <3>3, <1>b, <1>6 DEF Under
  <2>3. Leads(c, n) BY <2>1, <2>2, <1>6 DEF Tree, Cover
  <2>4. <<y, d>> = p => c = n BY <1>6, NodeFacts DEF At
  <2>c. Child(mem.child[y][d], y, d, T) BY <1>6, EdgeFacts
  <2>5. c \in T BY <2>c, <1>6 DEF Child
  <2>6. CASE c = n
    <3>0. mem.child[y][d] # mem.root BY <2>c DEF Child
    <3>1. n # mem.root BY <3>0, <2>6, <1>6
    <3>2. p # Top BY <3>1, <1>1
    <3>3. PICK q \in T : /\ ~IsLeaf(q) /\ p = <<q, key[mem.bit[q]]>>
                         /\ n = mem.child[q][key[mem.bit[q]]]
      BY <3>2, <1>2
    <3>4. PICK e \in 0 .. 1 : e = key[mem.bit[q]] BY <3>3, <1>b
    <3>6. mem.child[q][e] = mem.child[y][d] BY <3>3, <3>4, <2>6, <1>6
    <3>5. q = y /\ key[mem.bit[q]] = d
      <4>1. q = y /\ e = d BY <3>3, <3>6, <1>6, OneParent
      <4> QED BY <4>1, <3>4
    <3> QED BY <3>3, <3>5, <2>6
  <2>7. CASE Under(n, c)
    <3>1. p # Top BY <2>5, <2>7, <1>1, RootTop
    <3>2. PICK q \in T : /\ ~IsLeaf(q) /\ p = <<q, key[mem.bit[q]]>>
                         /\ n = mem.child[q][key[mem.bit[q]]]
                         /\ OnPath(key, q) /\ mem.bit[q] < at
      BY <3>1, <1>2
    <3>3. c # n /\ c \in InnerNodes BY <2>5, <2>7, UnderNot DEF Under
    <3>4. CASE c = q BY <3>2, <3>3, <3>4, <2>4
    <3>5. CASE c # q
      <4>1. key[mem.bit[q]] \in 0 .. 1 BY <3>2, <1>b
      <4>2. Under(q, c) /\ mem.bit[c] < mem.bit[q]
        BY <4>1, <3>2, <3>5, <2>5, <2>7, ParentLowest
      <4>3. mem.bit[c] \in Nat BY <3>3, Positions
      <4>4. \A r \in Digits : r < mem.bit[c] => r < mem.bit[q]
        BY <4>2, <4>3, <3>2, <1>b, DigitFacts
      <4>5. OnPath(key, c) BY <4>2, <4>4, <3>2 DEF Under, OnPath
      <4>b. mem.bit[q] \in Nat BY <3>2, <1>b
      <4>c. mem.bit[q] < at /\ at \in Nat BY <3>2, <1>d
      <4>6. mem.bit[c] < at BY <4>2, <4>3, <4>b, <4>c
      <4> QED BY <4>5, <4>6, <3>3, <2>4
    <3> QED BY <3>4, <3>5
  <2> QED BY <2>3, <2>6, <2>7 DEF Leads
<1>7. ASSUME NEW y \in T, ~IsLeaf(y), OnPath(key, y)
      PROVE  /\ mem.bit[y] < at
             /\ <<y, key[mem.bit[y]]>> = p => mem.child[y][key[mem.bit[y]]] = n
             /\ <<y, key[mem.bit[y]]>> # p =>
                   /\ mem.child[y][key[mem.bit[y]]] \in InnerNodes
                   /\ OnPath(key, mem.child[y][key[mem.bit[y]]])
                   /\ mem.bit[mem.child[y][key[mem.bit[y]]]] < at
  <2>1. PICK d \in 0 .. 1 : d = key[mem.bit[y]] BY <1>7, <1>b
  <2>2. PICK c : c = mem.child[y][d] OBVIOUS
  <2>3. /\ <<y, d>> = p => c = n
        /\ <<y, d>> # p => c \in InnerNodes /\ OnPath(key, c) /\ mem.bit[c] < at
    BY <2>1, <2>2, <1>6, <1>7
  <2>4. mem.bit[y] < at BY <1>5, <1>7
  <2> QED BY <2>1, <2>2, <2>3, <2>4
<1> QED BY <1>c, <1>d, <1>e, <1>1, <1>2, <1>3, <1>4, <1>7, Zenon DEF Forks
\* The leaf k and the inner node m get in at place p, above the node n.
Fork(p, n, k, m, key, at) ==
    /\ mem'.root = IF p = Top THEN m ELSE mem.root
    /\ mem'.deleted_node = mem.deleted_node
    /\ \A x \in Nodes \ {m}, e \in 0 .. 1 :
          mem'.child[x][e] = IF <<x, e>> = p THEN m ELSE mem.child[x][e]
    /\ mem'.child[m][key[at]] = k /\ mem'.child[m][1 - key[at]] = n
    /\ \A x \in Nodes \ {m} : mem'.path[x] = mem.path[x] /\ mem'.bit[x] = mem.bit[x]
    /\ mem'.bit[m] = at /\ mem'.path[m] = Below(key, at)

\* Above and below after the insert.
Forked(n, k, m, key, at, T) ==
    /\ \A x \in Nodes \ {m} : /\ IsLeaf(x)' <=> IsLeaf(x)
                              /\ Pos(x)' = Pos(x)
    /\ IsLeaf(m)' = FALSE /\ Pos(m)' = at
    /\ Same(mem'.path[m], key, at)
    /\ \A r \in Digits : r >= at => mem'.path[m][r] = 0
    /\ \A x, y \in Nodes \ {m} : /\ Under(x, y)' <=> Under(x, y)
                                 /\ Leads(y, x)' <=> Leads(y, x)
    /\ \A x \in Nodes \ {m} :
          Under(x, m)' <=> at < Pos(x) /\ Same(mem.path[x], key, at)
    /\ \A y \in Nodes \ {m} :
          /\ Under(m, y)' <=> y \in InnerNodes /\ mem.bit[y] < at /\ OnPath(key, y)
          /\ Under(k, y)' <=> y \in InnerNodes /\ OnPath(key, y)
    /\ Under(k, m)' /\ Under(n, m)'
    /\ key[at] \in 0 .. 1 /\ mem.path[n][at] = 1 - key[at]
    /\ \A x \in T : Leads(n, x) => Leads(m, x)'

LEMMA ForkNodes ==
    ASSUME TypeOK, NEW T \in SUBSET Nodes, Tree(T), NEW key \in Key,
           NEW k \in Nodes, NEW m \in Nodes, k \notin T, m \notin T, k # m,
           IsLeaf(k), mem.path[k] = key, NEW n \in T, NEW p, NEW at,
           Forks(p, n, key, at, T), Fork(p, n, k, m, key, at)
    PROVE  Forked(n, k, m, key, at, T)
<1>t. at \in Digits /\ at \in Nat /\ at < WIDTH /\ WIDTH \in Nat
  BY DigitFacts DEF Forks
<1>s. \A x \in Nodes \ {m} : mem'.path[x] = mem.path[x] /\ mem'.bit[x] = mem.bit[x]
  BY DEF Fork
<1>m. mem'.bit[m] = at /\ mem'.path[m] = Below(key, at) BY DEF Fork
<1>1. \A x \in Nodes \ {m} : /\ IsLeaf(x)' <=> IsLeaf(x)
                             /\ Pos(x)' = Pos(x)
                             /\ x \in InnerNodes' <=> x \in InnerNodes
  BY <1>s DEF IsLeaf, Pos, InnerNodes
<1>2. IsLeaf(m)' = FALSE /\ Pos(m)' = at /\ m \in InnerNodes'
  <2>1. at # NoBit BY <1>t, KeyFacts
  <2>2. IsLeaf(m)' = FALSE BY <2>1, <1>m DEF IsLeaf
  <2> QED BY <2>2, <1>m DEF Pos, InnerNodes
<1>3. /\ Same(mem'.path[m], key, at)
      /\ \A r \in Digits : r >= at => mem'.path[m][r] = 0
  <2>1. \A r \in Digits : mem'.path[m][r] = IF r < at THEN key[r] ELSE 0
    BY <1>m DEF Below
  <2>2. \A r \in Digits : r >= at => ~(r < at) BY <1>t, DigitFacts
  <2> QED BY <2>1, <2>2 DEF Same
<1>4. \A x, y \in Nodes \ {m} : /\ Under(x, y)' <=> Under(x, y)
                                /\ Leads(y, x)' <=> Leads(y, x)
  <2>1. ASSUME NEW x \in Nodes \ {m}, NEW y \in Nodes \ {m}
        PROVE  Under(x, y)' <=> Under(x, y)
    BY <1>s, <1>1 DEF Under, OnPath
  <2> QED BY <2>1 DEF Leads
<1>5. \A x \in Nodes \ {m} :
         Under(x, m)' <=> at < Pos(x) /\ Same(mem.path[x], key, at)
  <2>1. ASSUME NEW x \in Nodes \ {m}
        PROVE  Under(x, m)' <=> at < Pos(x) /\ Same(mem.path[x], key, at)
    <3>1. OnPath(mem.path[x], m)' <=> Same(mem.path[x], key, at)
      BY <1>s, <1>m, <1>3 DEF OnPath, Same
    <3> QED BY <3>1, <1>1, <1>2, <1>m DEF Under
  <2> QED BY <2>1
<1>6. ASSUME NEW y \in Nodes \ {m}
      PROVE  /\ Under(m, y)' <=> /\ y \in InnerNodes /\ mem.bit[y] < at
                                 /\ OnPath(key, y)
             /\ Under(k, y)' <=> y \in InnerNodes /\ OnPath(key, y)
  <2>1. ASSUME y \in InnerNodes, mem.bit[y] < at
        PROVE  OnPath(mem.path[m], y)' <=> OnPath(key, y)
    <3>1. mem.bit[y] \in Nat BY <2>1, Positions
    <3>2. \A r \in Digits : r < mem.bit[y] => r < at BY <3>1, <2>1, <1>t, DigitFacts
    <3>3. \A r \in Digits : r < mem.bit[y] => mem'.path[m][r] = key[r]
      BY <3>2, <1>3 DEF Same
    <3>4. mem'.bit[y] = mem.bit[y] /\ mem'.path[y] = mem.path[y] BY <1>s
    <3> QED BY <3>3, <3>4 DEF OnPath
  <2>2. Under(m, y)' <=> y \in InnerNodes /\ mem.bit[y] < at /\ OnPath(key, y)
    <3>1. mem'.bit[y] = mem.bit[y] /\ Pos(m)' = at BY <1>s, <1>2
    <3> QED BY <3>1, <2>1, <1>1 DEF Under
  <2>3. Under(k, y)' <=> Under(k, y) BY <1>4
  <2>4. y \in InnerNodes => mem.bit[y] < Pos(k) BY Positions
  <2>5. Under(k, y) <=> y \in InnerNodes /\ OnPath(key, y) BY <2>4 DEF Under
  <2> QED BY <2>2, <2>3, <2>5
<1>7. Under(k, m)'
  <2>1. at < Pos(k) BY <1>t, Positions
  <2> QED BY <2>1, <1>5 DEF Same
<1>8. Under(n, m)'
  <2>1. n \in Nodes \ {m} OBVIOUS
  <2> QED BY <2>1, <1>5 DEF Forks
<1>9. key[at] \in 0 .. 1 /\ mem.path[n][at] = 1 - key[at]
  <2>1. key[at] \in 0 .. 1 /\ mem.path[n][at] \in 0 .. 1 /\ mem.path[n][at] # key[at]
    BY <1>t, KeyFacts, Fields DEF Forks
  <2> QED BY <2>1
<1>10. ASSUME NEW x \in T, Leads(n, x) PROVE Leads(m, x)'
  <2>1. CASE n = x BY <2>1, <1>8 DEF Leads
  <2>2. CASE Under(x, n)
    <3>1. n \in InnerNodes /\ at < mem.bit[n] /\ mem.bit[n] < Pos(x)
      BY <2>2, Positions DEF Under, Forks
    <3>2. mem.bit[n] \in Nat /\ Pos(x) \in Nat BY <3>1, Positions
    <3>3. \A r \in Digits : r < at => r < mem.bit[n] BY <3>1, <3>2, <1>t, DigitFacts
    <3>4. Same(mem.path[x], key, at)
      <4>1. \A r \in Digits : r < at => mem.path[n][r] = key[r] BY DEF Forks, Same
      <4>2. \A r \in Digits : r < mem.bit[n] => mem.path[x][r] = mem.path[n][r]
        BY <2>2 DEF Under, OnPath
      <4> QED BY <3>3, <4>1, <4>2 DEF Same
    <3>5. at < Pos(x) BY <3>1, <3>2, <1>t
    <3>6. x \in Nodes \ {m} OBVIOUS
    <3>7. Under(x, m)' BY <3>4, <3>5, <3>6, <1>5
    <3> QED BY <3>7 DEF Leads
  <2> QED BY <2>1, <2>2, <1>10 DEF Leads
<1> QED BY <1>1, <1>2, <1>3, <1>4, <1>5, <1>6, <1>7, <1>8, <1>9, <1>10 DEF Forked
\* The tree with the two nodes of an insert.
LEMMA ForkTree ==
    ASSUME TypeOK, NEW T \in SUBSET Nodes, Tree(T), NEW key \in Key,
           NEW b \in Blocks, NEW k \in Nodes, NEW m \in Nodes,
           k = Leaf(b), m = Inner(b), k \notin T, m \notin T, k # m,
           IsLeaf(k), mem.path[k] = key, NEW n \in T, NEW p, NEW at,
           \A x \in T : IsLeaf(x) => mem.path[x] # key,
           Forks(p, n, key, at, T), Fork(p, n, k, m, key, at),
           \A c \in Blocks : Leaf(c) \in T \cup {k, m} <=> st'[c] = "live"
    PROVE  Tree(T \cup {k, m})'
<1> DEFINE U == T \cup {k, m}
<1>f. Forked(n, k, m, key, at, T) BY ForkNodes
<1>t. /\ at \in Digits /\ at \in Nat /\ at < WIDTH /\ WIDTH \in Nat
      /\ key[at] \in 0 .. 1
      /\ \A e \in 0 .. 1 : e = key[at] \/ e = 1 - key[at]
  <2>1. at \in Digits /\ key[at] \in 0 .. 1 BY <1>f DEF Forks, Forked
  <2>2. \A e \in 0 .. 1 : e = key[at] \/ e = 1 - key[at] BY <2>1
  <2> QED BY <2>1, <2>2, DigitFacts
<1>u. \A x \in U : x \in Nodes /\ (x \in T \/ x = k \/ x = m) OBVIOUS
<1>o. \A x \in T : x \in Nodes \ {m} OBVIOUS
<1>k. k \in Nodes \ {m} OBVIOUS
\* Before and after.
<1>s. \A x \in Nodes \ {m} : /\ mem'.path[x] = mem.path[x]
                             /\ mem'.bit[x] = mem.bit[x]
                             /\ IsLeaf(x)' <=> IsLeaf(x)
                             /\ Pos(x)' = Pos(x)
  BY <1>f DEF Fork, Forked
<1>c. \A x \in Nodes \ {m}, e \in 0 .. 1 :
         mem'.child[x][e] = IF <<x, e>> = p THEN m ELSE mem.child[x][e]
  BY DEF Fork
<1>b. \A y \in T : ~IsLeaf(y) => /\ y \in InnerNodes /\ Pos(y) = mem.bit[y]
                                 /\ mem.bit[y] \in Digits /\ mem.bit[y] \in Nat
                                 /\ key[mem.bit[y]] \in 0 .. 1
  BY Fields, Positions, KeyFacts
<1>p. \A x \in T, e \in 0 .. 1 : <<x, e>> = p =>
         /\ ~IsLeaf(x) /\ e = key[mem.bit[x]] /\ n = mem.child[x][e]
         /\ OnPath(key, x) /\ mem.bit[x] < at
  <2> SUFFICES ASSUME NEW x \in T, NEW e \in 0 .. 1, <<x, e>> = p
               PROVE  /\ ~IsLeaf(x) /\ e = key[mem.bit[x]] /\ n = mem.child[x][e]
                      /\ OnPath(key, x) /\ mem.bit[x] < at
    OBVIOUS
  <2>1. p # Top BY NodeFacts
  <2>2. PICK q \in T : /\ ~IsLeaf(q) /\ p = <<q, key[mem.bit[q]]>>
                       /\ n = mem.child[q][key[mem.bit[q]]]
                       /\ OnPath(key, q) /\ mem.bit[q] < at
    BY <2>1 DEF Forks
  <2>3. q = x /\ e = key[mem.bit[q]]
    <3>1. PICK d : d = key[mem.bit[q]] OBVIOUS
    <3>2. <<x, e>> = <<q, d>> BY <2>2, <3>1
    <3>3. q = x /\ e = d BY <3>2
    <3> QED BY <3>1, <3>3
  <2> QED BY <2>2, <2>3
<1>1. Members(U)'
  <2>1. mem'.root \in U \cup {NULL} BY DEF Fork, Tree, Members
  <2>2. ASSUME NEW c \in Blocks, Inner(c) \in U PROVE ~IsLeaf(Inner(c))'
    <3>1. Inner(c) # k BY NodeFacts
    <3>2. CASE Inner(c) = m BY <3>2, <1>f DEF Forked
    <3>3. CASE Inner(c) \in T BY <3>3, <1>s DEF Tree, Members
    <3> QED BY <3>1, <3>2, <3>3, <2>2, <1>u
  <2> QED BY <2>1, <2>2 DEF Members
<1>2. Edges(U)'
  <2>1. ASSUME NEW x \in T, ~IsLeaf(x)
        PROVE  \A r \in Digits : r >= mem'.bit[x] => mem'.path[x][r] = 0
    BY <2>1, <1>s DEF Tree, Edges
  <2>2. ASSUME NEW x \in T, ~IsLeaf(x), NEW e \in 0 .. 1
        PROVE  /\ mem'.child[x][e] \in U
               /\ Under(mem.child[x][e], x)'
               /\ mem'.path[mem'.child[x][e]][mem'.bit[x]] = e
    <3>0. x \in Nodes \ {m} /\ mem'.bit[x] = mem.bit[x] BY <1>o, <1>s
    <3>1. CASE <<x, e>> = p
      <4>1. mem'.child[x][e] = m BY <3>0, <3>1, <1>c
      <4>2. e = key[mem.bit[x]] /\ OnPath(key, x) /\ mem.bit[x] < at
        BY <3>1, <1>p
      <4>3. Under(m, x)' BY <4>2, <3>0, <2>2, <1>b, <1>f DEF Forked
      <4>4. mem'.path[m][mem.bit[x]] = e
        BY <4>2, <2>2, <1>b, <1>f DEF Forked, Same
      <4> QED BY <4>1, <4>3, <4>4, <3>0
    <3>2. CASE <<x, e>> # p
      <4>c. Child(mem.child[x][e], x, e, T) BY <2>2, EdgeFacts
      <4>1. PICK c \in T : c = mem.child[x][e] BY <4>c DEF Child
      <4>2. mem'.child[x][e] = c BY <3>0, <3>2, <4>1, <1>c
      <4>3. Under(c, x) /\ mem.path[c][mem.bit[x]] = e BY <4>1, <4>c DEF Child
      <4>4. Under(c, x)' BY <4>3, <3>0, <1>o, <1>f DEF Forked
      <4> QED BY <4>2, <4>3, <4>4, <3>0, <1>o, <1>s
    <3> QED BY <3>1, <3>2
  <2>3. ~(~IsLeaf(k)') BY <1>k, <1>s
  <2>4. \A r \in Digits : r >= mem'.bit[m] => mem'.path[m][r] = 0
    BY <1>f DEF Forked, Fork
  <2>5. ASSUME NEW e \in 0 .. 1
        PROVE  /\ mem'.child[m][e] \in U
               /\ Under(mem.child[m][e], m)'
               /\ mem'.path[mem'.child[m][e]][mem'.bit[m]] = e
    <3>1. mem'.bit[m] = at BY DEF Fork
    <3>2. CASE e = key[at]
      <4>1. mem'.child[m][e] = k BY <3>2 DEF Fork
      <4>2. mem'.path[k] = key BY <1>k, <1>s
      <4> QED BY <4>1, <4>2, <3>1, <3>2, <1>f DEF Forked
    <3>3. CASE e = 1 - key[at]
      <4>1. mem'.child[m][e] = n BY <3>3 DEF Fork
      <4>2. mem'.path[n] = mem.path[n] BY <1>o, <1>s
      <4> QED BY <4>1, <4>2, <3>1, <3>3, <1>f DEF Forked
    <3> QED BY <3>2, <3>3, <1>t
  <2>6. \A x \in U : ~IsLeaf(x)' => (x \in T /\ ~IsLeaf(x)) \/ x = m
    BY <2>3, <1>o, <1>s
  <2>7. ASSUME NEW x \in U, ~IsLeaf(x)'
        PROVE  \A r \in Digits : r >= mem'.bit[x] => mem'.path[x][r] = 0
    <3>1. CASE x \in T /\ ~IsLeaf(x) BY <3>1, <2>1
    <3>2. CASE x = m BY <3>2, <2>4
    <3> QED BY <3>1, <3>2, <2>6, <2>7
  <2>8. ASSUME NEW x \in U, ~IsLeaf(x)', NEW e \in 0 .. 1
        PROVE  /\ mem'.child[x][e] \in U
               /\ Under(mem.child[x][e], x)'
               /\ mem'.path[mem'.child[x][e]][mem'.bit[x]] = e
    <3>1. CASE x \in T /\ ~IsLeaf(x) BY <3>1, <2>2
    <3>2. CASE x = m BY <3>2, <2>5
    <3> QED BY <3>1, <3>2, <2>6, <2>8
  <2> HIDE DEF U
  <2> QED BY <2>7, <2>8, Zenon DEF Edges
<1>3. Cover(U)'
  <2>r. mem.root \in T BY RootTop
  <2>1. ASSUME NEW x \in U PROVE Leads(mem.root, x)'
    <3>1. CASE p = Top
      <4>1. mem'.root = m /\ n = mem.root BY <3>1 DEF Fork, Forks
      <4>2. x \in T => Leads(m, x)' BY <4>1, <1>f DEF Forked, Tree, Cover
      <4>3. Leads(m, k)' /\ Leads(m, m)' BY <1>f DEF Forked, Leads
      <4> QED BY <4>1, <4>2, <4>3, <1>u DEF Leads
    <3>2. CASE p # Top
      <4>1. mem'.root = mem.root BY <3>2 DEF Fork
      <4>2. PICK z \in T : z = mem.root BY <2>r
      <4>3. z \in InnerNodes /\ OnPath(key, z) /\ mem.bit[z] < at
        BY <3>2, <4>2 DEF Forks
      <4>4. Under(m, z)' /\ Under(k, z)' BY <4>3, <1>o, <1>f DEF Forked
      <4>5. x \in T => Leads(z, x) BY <4>2 DEF Tree, Cover
      <4>6. x \in T => Leads(z, x)' BY <4>5, <1>o, <1>f DEF Forked
      <4>7. Leads(z, x)' BY <4>4, <4>6, <1>u DEF Leads
      <4> QED BY <4>7, <4>1, <4>2
    <3> QED BY <3>1, <3>2
  <2>2. ASSUME NEW y \in T, NEW x \in U, Under(x, y)'
        PROVE  Leads(mem.child[y][mem.path[x][mem.bit[y]]], x)'
    <3>0. y \in Nodes \ {m} /\ mem'.bit[y] = mem.bit[y] BY <1>o, <1>s
    <3>1. ~IsLeaf(y)
      <4>1. y \in InnerNodes' BY <2>2 DEF Under
      <4> QED BY <4>1, <3>0, <1>s DEF InnerNodes
    <3>2. CASE x \in T
      <4>1. Under(x, y) BY <2>2, <3>0, <3>2, <1>o, <1>f DEF Forked
      <4>2. mem.path[x] \in Key /\ mem'.path[x] = mem.path[x]
        BY <3>2, <1>o, <1>s, Fields
      <4>3. PICK d \in 0 .. 1 : d = mem.path[x][mem.bit[y]]
        BY <4>2, <3>1, <1>b, KeyFacts
      <4>c. Child(mem.child[y][d], y, d, T) BY <3>1, EdgeFacts
      <4>4. PICK c \in T : c = mem.child[y][d] BY <4>c DEF Child
      <4>5. Leads(c, x) BY <4>1, <4>3, <4>4, <3>2 DEF Tree, Cover
      <4>6. CASE <<y, d>> = p
        <5>1. mem'.child[y][d] = m BY <4>6, <3>0, <1>c
        <5>2. c = n BY <4>4, <4>6, <1>p
        <5>3. Leads(m, x)' BY <5>2, <4>5, <3>2, <1>f DEF Forked
        <5> QED BY <5>1, <5>3, <4>2, <4>3, <3>0
      <4>7. CASE <<y, d>> # p
        <5>1. mem'.child[y][d] = c BY <4>4, <4>7, <3>0, <1>c
        <5>2. Leads(c, x)' BY <4>5, <3>2, <1>o, <1>f DEF Forked
        <5> QED BY <5>1, <5>2, <4>2, <4>3, <3>0
      <4> QED BY <4>6, <4>7
    <3>3. CASE x = k \/ x = m
      <4>1. OnPath(key, y) /\ (x = m => mem.bit[y] < at)
        BY <2>2, <3>0, <3>3, <1>f DEF Forked
      <4>2. PICK d \in 0 .. 1 : d = key[mem.bit[y]] BY <3>1, <1>b
      <4>3. mem'.path[x][mem'.bit[y]] = d
        <5>1. mem'.path[k] = key BY <1>k, <1>s
        <5>2. x = m => mem'.path[m][mem.bit[y]] = key[mem.bit[y]]
          BY <4>1, <3>1, <1>b, <1>f DEF Forked, Same
        <5> QED BY <5>1, <5>2, <4>2, <3>0, <3>3
      <4>c. Child(mem.child[y][d], y, d, T) BY <3>1, EdgeFacts
      <4>4. PICK c \in T : c = mem.child[y][d] BY <4>c DEF Child
      <4>5. CASE <<y, d>> = p
        <5>1. mem'.child[y][d] = m BY <4>5, <3>0, <1>c
        <5>2. Leads(m, x)' BY <3>3, <1>f DEF Forked, Leads
        <5> QED BY <5>1, <5>2, <4>3
      <4>6. CASE <<y, d>> # p
        <5>1. mem'.child[y][d] = c BY <4>4, <4>6, <3>0, <1>c
        <5>2. c \in InnerNodes /\ OnPath(key, c) /\ mem.bit[c] < at
          BY <4>1, <4>2, <4>4, <4>6, <3>1 DEF Forks
        <5>3. Leads(c, x)' BY <5>2, <3>3, <1>o, <1>f DEF Forked, Leads
        <5> QED BY <5>1, <5>3, <4>3
      <4> QED BY <4>5, <4>6
    <3> QED BY <3>2, <3>3, <1>u
  <2>3. ASSUME NEW x \in U PROVE ~Under(x, k)'
    BY <1>k, <1>s DEF Under, InnerNodes
  <2>4. ASSUME NEW x \in U, Under(x, m)'
        PROVE  Leads(mem.child[m][mem.path[x][mem.bit[m]]], x)'
    <3>0. mem'.bit[m] = at BY DEF Fork
    <3>1. x # m
      <4>1. Pos(m)' = at BY <1>f DEF Forked
      <4> QED BY <4>1, <3>0, <2>4, <1>t DEF Under
    <3>2. CASE x = k
      <4>1. mem'.path[k] = key BY <1>k, <1>s
      <4>2. mem'.child[m][key[at]] = k BY DEF Fork
      <4> QED BY <4>1, <4>2, <3>0, <3>2 DEF Leads
    <3>3. CASE x \in T
      <4>1. at < Pos(x) /\ Same(mem.path[x], key, at)
        BY <2>4, <3>3, <1>o, <1>f DEF Forked
      <4>2. Pos(x) \in Nat BY <3>3, Positions
      <4>3. Leads(n, x) BY <4>1, <4>2, <3>3, <1>t DEF Forks
      <4>4. mem.path[x][at] = mem.path[n][at]
        <5>1. CASE Under(x, n)
          <6>1. at < mem.bit[n] BY <5>1, Positions DEF Forks, Under
          <6> QED BY <6>1, <5>1, <1>t DEF Under, OnPath
        <5> QED BY <5>1, <4>3 DEF Leads
      <4>5. mem'.path[x][at] = 1 - key[at] BY <4>4, <3>3, <1>o, <1>s, <1>f DEF Forked
      <4>6. mem'.child[m][1 - key[at]] = n BY DEF Fork
      <4>7. Leads(n, x)' BY <4>3, <3>3, <1>o, <1>f DEF Forked
      <4> QED BY <4>5, <4>6, <4>7, <3>0
    <3> QED BY <3>1, <3>2, <3>3, <1>u
  <2>5. \A x, y \in U : Under(x, y)' =>
           Leads(mem.child[y][mem.path[x][mem.bit[y]]], x)'
    BY <2>2, <2>3, <2>4, <1>u
  <2> QED BY <2>1, <2>5 DEF Cover
<1>4. Once(U)'
  <2>1. \A x, y \in T : mem'.path[x] = mem'.path[y] /\ Pos(x)' = Pos(y)' => x = y
    BY <1>o, <1>s DEF Tree, Once
  <2>2. ASSUME NEW x \in T, mem'.path[x] = mem'.path[m], Pos(x)' = Pos(m)'
        PROVE  FALSE
    <3>1. Pos(x) = at BY <2>2, <1>o, <1>s, <1>f DEF Forked
    <3>2. ~IsLeaf(x) BY <3>1, <1>t, Positions
    <3>3. mem.bit[x] = at BY <3>1, <3>2, <1>b
    <3>4. OnPath(key, x)
      <4>1. Same(mem.path[x], key, at) BY <2>2, <1>o, <1>s, <1>f DEF Forked
      <4> QED BY <4>1, <3>3 DEF OnPath, Same
    <3>5. mem.bit[x] < at BY <3>2, <3>4 DEF Forks
    <3> QED BY <3>3, <3>5, <1>t
  <2>3. ASSUME NEW x \in T, mem'.path[x] = mem'.path[k], Pos(x)' = Pos(k)'
        PROVE  FALSE
    <3>1. mem.path[x] = key /\ Pos(x) = WIDTH
      BY <2>3, <1>o, <1>k, <1>s, Positions
    <3>2. ~IsLeaf(x) BY <3>1
    <3>3. mem.bit[x] < WIDTH /\ Pos(x) = mem.bit[x] BY <3>2, <1>b, Positions
    <3> QED BY <3>1, <3>2, <3>3, <1>b, <1>t
  <2>4. Pos(k)' # Pos(m)'
    <3>1. Pos(k)' = WIDTH BY <1>k, <1>s, Positions
    <3> QED BY <3>1, <1>t, <1>f DEF Forked
  <2> QED BY <2>1, <2>2, <2>3, <2>4, <1>u DEF Once
<1> QED BY <1>1, <1>2, <1>3, <1>4 DEF Tree
-----------------------------------------------------------------------------
(* What a remove unlinks.                                                  *)

\* The place g gets the node or NULL s.
Splice(g, s) ==
    /\ mem'.root = IF g = Top THEN s ELSE mem.root
    /\ mem'.deleted_node = mem.deleted_node
    /\ \A x \in Nodes, e \in 0 .. 1 :
          mem'.child[x][e] = IF <<x, e>> = g THEN s ELSE mem.child[x][e]
    /\ mem'.path = mem.path /\ mem'.bit = mem.bit

\* Links do not matter to what belongs where.
LEMMA SameOrder ==
    ASSUME mem'.path = mem.path, mem'.bit = mem.bit
    PROVE  /\ InnerNodes' = InnerNodes
           /\ \A x : (IsLeaf(x)' <=> IsLeaf(x)) /\ Pos(x)' = Pos(x)
           /\ \A x, y : /\ Under(x, y)' <=> Under(x, y)
                        /\ Leads(y, x)' <=> Leads(y, x)
<1>1. \A x : IsLeaf(x)' <=> IsLeaf(x) BY DEF IsLeaf
<1>2. InnerNodes' = InnerNodes BY <1>1 DEF InnerNodes
<1>3. \A x : Pos(x)' = Pos(x) BY <1>1 DEF Pos
<1>4. \A x, y : Under(x, y)' <=> Under(x, y) BY <1>2, <1>3 DEF Under, OnPath
<1> QED BY <1>1, <1>2, <1>3, <1>4 DEF Leads

\* g is the place of q.
PlaceOf(g, q, T) ==
    \/ g = Top /\ mem.root = q
    \/ \E y \in T, e \in 0 .. 1 : ~IsLeaf(y) /\ g = <<y, e>> /\ mem.child[y][e] = q

\* The tree without the leaf k and its parent q, whose place the sibling s has
\* taken.
LEMMA SpliceTree ==
    ASSUME TypeOK, NEW T \in SUBSET Nodes, Tree(T),
           NEW k \in T, IsLeaf(k), NEW q \in T, ~IsLeaf(q), NEW d \in 0 .. 1,
           k = mem.child[q][d], NEW s, s = mem.child[q][1 - d],
           NEW g, PlaceOf(g, q, T), Splice(g, s),
           \A c \in Blocks : Leaf(c) \in T \ {k, q} <=> st'[c] = "live"
    PROVE  /\ s \in T \ {k, q}
           /\ \A x \in T \ {k, q} : Leads(q, x) => Leads(s, x)
           /\ Tree(T \ {k, q})'
<1> DEFINE U == T \ {k, q}
<1>o. /\ InnerNodes' = InnerNodes
      /\ \A x : (IsLeaf(x)' <=> IsLeaf(x)) /\ Pos(x)' = Pos(x)
      /\ \A x, y : /\ Under(x, y)' <=> Under(x, y)
                   /\ Leads(y, x)' <=> Leads(y, x)
  BY SameOrder DEF Splice
<1>d. 1 - d \in 0 .. 1 /\ 1 - d # d /\ \A e \in 0 .. 1 : e = d \/ e = 1 - d
  OBVIOUS
<1>b. \A y \in T : ~IsLeaf(y) => y \in InnerNodes /\ mem.bit[y] \in Digits
  BY Fields
<1>k. /\ Under(k, q) /\ mem.path[k][mem.bit[q]] = d
      /\ k # mem.root /\ k \notin InnerNodes
  <2>0. Child(mem.child[q][d], q, d, T) BY EdgeFacts
  <2>1. Under(k, q) /\ mem.path[k][mem.bit[q]] = d /\ k # mem.root
    BY <2>0 DEF Child
  <2>2. k \notin InnerNodes BY DEF InnerNodes
  <2> QED BY <2>1, <2>2
<1>1. /\ s \in U /\ Under(s, q) /\ mem.path[s][mem.bit[q]] = 1 - d
  <2>1. PICK e \in 0 .. 1 : e = 1 - d BY <1>d
  <2>2. s = mem.child[q][e] BY <2>1
  <2>c. Child(mem.child[q][e], q, e, T) BY EdgeFacts
  <2>3. s \in T /\ Under(s, q) /\ mem.path[s][mem.bit[q]] = e
    BY <2>2, <2>c DEF Child
  <2>4. s # q BY <2>3, UnderNot
  <2>5. s # k BY <2>1, <2>3, <1>k, <1>d
  <2> QED BY <2>1, <2>3, <2>4, <2>5
<1>2. ASSUME NEW x \in U, Leads(q, x) PROVE Leads(s, x)
  <2>1. Under(x, q) BY <1>2 DEF Leads
  <2>2. PICK e \in 0 .. 1 : e = mem.path[x][mem.bit[q]]
    <3>1. mem.path[x] \in Key BY Fields
    <3> QED BY <3>1, <1>b, KeyFacts
  <2>3. Leads(mem.child[q][e], x) BY <2>1, <2>2 DEF Tree, Cover
  <2>4. ~Leads(k, x) BY <1>k DEF Leads, Under
  <2>5. e # d BY <2>3, <2>4
  <2>6. e = 1 - d BY <2>5, <1>d
  <2> QED BY <2>3, <2>6
\* No other link leads to what is taken out.
<1>3. ASSUME NEW n \in U, ~IsLeaf(n), NEW e \in 0 .. 1, <<n, e>> # g
      PROVE  mem.child[n][e] \in U
  <2>c. Child(mem.child[n][e], n, e, T) BY <1>3, EdgeFacts
  <2>1. mem.child[n][e] \in T BY <2>c DEF Child
  <2>2. mem.child[n][e] # k
    <3>1. ASSUME mem.child[n][e] = k PROVE FALSE
      <4>1. mem.child[n][e] = mem.child[q][d] BY <3>1
      <4>2. n = q BY <4>1, <1>3, OneParent
      <4> QED BY <4>2
    <3> QED BY <3>1
  <2>3. mem.child[n][e] # q
    <3>1. ASSUME mem.child[n][e] = q PROVE FALSE
      <4>1. mem.root # q BY <3>1, <2>c DEF Child
      <4>2. PICK y \in T, f \in 0 .. 1 : /\ ~IsLeaf(y) /\ g = <<y, f>>
                                         /\ mem.child[y][f] = q
        BY <4>1 DEF PlaceOf
      <4>3. mem.child[n][e] = mem.child[y][f] BY <3>1, <4>2
      <4>4. n = y /\ e = f BY <4>2, <4>3, <1>3, OneParent
      <4> QED BY <4>2, <4>4, <1>3
    <3> QED BY <3>1
  <2> QED BY <2>1, <2>2, <2>3
<1>p. \A x \in U, e \in 0 .. 1 : <<x, e>> = g =>
         ~IsLeaf(x) /\ mem.child[x][e] = q
  <2>1. ASSUME NEW x \in U, NEW e \in 0 .. 1, <<x, e>> = g
        PROVE  ~IsLeaf(x) /\ mem.child[x][e] = q
    <3>1. g # Top BY <2>1, NodeFacts
    <3>2. PICK y \in T, f \in 0 .. 1 : /\ ~IsLeaf(y) /\ g = <<y, f>>
                                       /\ mem.child[y][f] = q
      BY <3>1 DEF PlaceOf
    <3>3. x = y /\ e = f BY <2>1, <3>2
    <3> QED BY <3>2, <3>3
  <2> QED BY <2>1
<1>4. Members(U)'
  <2>1. mem'.root \in U
    <3>1. CASE g = Top BY <3>1, <1>1 DEF Splice
    <3>2. CASE g # Top
      <4>1. PICK y \in T, e \in 0 .. 1 : ~IsLeaf(y) /\ mem.child[y][e] = q
        BY <3>2 DEF PlaceOf
      <4>c. Child(mem.child[y][e], y, e, T) BY <4>1, EdgeFacts
      <4>2. q # mem.root BY <4>1, <4>c DEF Child
      <4>3. mem.root \in T BY RootTop
      <4> QED BY <3>2, <4>2, <4>3, <1>k DEF Splice
    <3> QED BY <3>1, <3>2
  <2>2. \A b \in Blocks : Inner(b) \in U => ~IsLeaf(Inner(b))' BY <1>o DEF Members, Tree
  <2> QED BY <2>1, <2>2 DEF Members
<1>5. Edges(U)'
  <2>1. ASSUME NEW n \in U, ~IsLeaf(n), NEW e \in 0 .. 1
        PROVE  /\ mem'.child[n][e] \in U
               /\ Under(mem'.child[n][e], n)
               /\ mem.path[mem'.child[n][e]][mem.bit[n]] = e
    <3>0. Child(mem.child[n][e], n, e, T) BY <2>1, EdgeFacts
    <3>1. CASE <<n, e>> # g
      <4>1. mem'.child[n][e] = mem.child[n][e] BY <3>1 DEF Splice
      <4>2. mem.child[n][e] \in U BY <3>1, <2>1, <1>3
      <4>3. Under(mem.child[n][e], n) /\ mem.path[mem.child[n][e]][mem.bit[n]] = e
        BY <3>0 DEF Child
      <4> QED BY <4>1, <4>2, <4>3
    <3>2. CASE <<n, e>> = g
      <4>1. mem'.child[n][e] = s BY <3>2 DEF Splice
      <4>2. mem.child[n][e] = q BY <3>2, <1>p
      <4>3. Under(q, n) /\ mem.path[q][mem.bit[n]] = e BY <4>2, <3>0 DEF Child
      <4>4. Under(s, n) /\ mem.path[s][mem.bit[n]] = mem.path[q][mem.bit[n]]
        <5>1. s \in Nodes /\ q \in Nodes /\ n \in Nodes /\ Under(s, q) BY <1>1
        <5> QED BY <4>3, <5>1, UnderTrans
      <4> QED BY <4>1, <4>3, <4>4, <1>1
    <3> QED BY <3>1, <3>2
  <2>2. ASSUME NEW n \in U, ~IsLeaf(n)
        PROVE  \A r \in Digits : r >= mem.bit[n] => mem.path[n][r] = 0
    BY <2>2 DEF Tree, Edges
  <2>3. mem'.path = mem.path /\ mem'.bit = mem.bit BY DEF Splice
  <2>4. ASSUME NEW n \in U, ~IsLeaf(n)', NEW e \in 0 .. 1
        PROVE  /\ mem'.child[n][e] \in U
               /\ Under(mem.child[n][e], n)'
               /\ mem'.path[mem'.child[n][e]][mem'.bit[n]] = e
    <3>1. PICK c : c = mem'.child[n][e] OBVIOUS
    <3>2. c \in U /\ Under(c, n) /\ mem.path[c][mem.bit[n]] = e
      BY <3>1, <2>1, <2>4, <1>o
    <3>3. Under(c, n)' BY <3>2, <1>o
    <3> QED BY <3>1, <3>2, <3>3, <2>3
  <2>5. ASSUME NEW n \in U, ~IsLeaf(n)'
        PROVE  \A r \in Digits : r >= mem'.bit[n] => mem'.path[n][r] = 0
    <3>1. ~IsLeaf(n) BY <2>5, <1>o
    <3>2. \A r \in Digits : r >= mem.bit[n] => mem.path[n][r] = 0 BY <3>1, <2>2
    <3> QED BY <3>2, <2>3
  <2> HIDE DEF U
  <2> QED BY <2>4, <2>5, Zenon DEF Edges
<1>6. Cover(U)'
  <2>1. ASSUME NEW x \in U PROVE Leads(mem'.root, x)
    <3>1. Leads(mem.root, x) BY DEF Tree, Cover
    <3>2. CASE g = Top
      <4>1. mem'.root = s BY <3>2 DEF Splice
      <4>2. mem.root = q BY <3>2, NodeFacts DEF PlaceOf
      <4> QED BY <3>1, <4>1, <4>2, <1>2
    <3>3. CASE g # Top BY <3>1, <3>3 DEF Splice
    <3> QED BY <3>2, <3>3
  <2>2. ASSUME NEW x \in U, NEW n \in U, Under(x, n), NEW e,
               e = mem.path[x][mem.bit[n]]
        PROVE  Leads(mem'.child[n][e], x)
    <3>0. ~IsLeaf(n) /\ e \in 0 .. 1
      <4>1. n \in InnerNodes BY <2>2 DEF Under
      <4>2. ~IsLeaf(n) BY <4>1 DEF InnerNodes
      <4>3. mem.path[x] \in Key BY Fields
      <4> QED BY <4>2, <4>3, <2>2, <1>b, KeyFacts
    <3>1. Leads(mem.child[n][e], x) BY <2>2 DEF Tree, Cover
    <3>2. CASE <<n, e>> # g
      <4>1. mem'.child[n][e] = mem.child[n][e] BY <3>0, <3>2 DEF Splice
      <4> QED BY <3>1, <4>1
    <3>3. CASE <<n, e>> = g
      <4>1. mem'.child[n][e] = s BY <3>0, <3>3 DEF Splice
      <4>2. mem.child[n][e] = q BY <3>0, <3>3, <1>p
      <4> QED BY <3>1, <4>1, <4>2, <1>2
    <3> QED BY <3>2, <3>3
  <2>3. mem'.path = mem.path /\ mem'.bit = mem.bit BY DEF Splice
  <2>4. ASSUME NEW x \in U PROVE Leads(mem.root, x)'
    <3>1. PICK c : c = mem'.root OBVIOUS
    <3>2. Leads(c, x)' BY <3>1, <2>1, <1>o
    <3> QED BY <3>1, <3>2
  <2>5. ASSUME NEW x \in U, NEW n \in U, Under(x, n)'
        PROVE  Leads(mem.child[n][mem.path[x][mem.bit[n]]], x)'
    <3>1. PICK e : e = mem.path[x][mem.bit[n]] OBVIOUS
    <3>2. PICK c : c = mem'.child[n][e] OBVIOUS
    <3>3. Leads(c, x) BY <3>1, <3>2, <2>2, <2>5, <1>o
    <3>4. Leads(c, x)' BY <3>3, <1>o
    <3> QED BY <3>1, <3>2, <3>4, <2>3
  <2> QED BY <2>4, <2>5 DEF Cover
<1>7. Once(U)'
  <2>1. mem'.path = mem.path BY DEF Splice
  <2> QED BY <2>1, <1>o DEF Tree, Once
<1> QED BY <1>1, <1>2, <1>4, <1>5, <1>6, <1>7 DEF Tree

\* The tree with one leaf, and without.
LEMMA SpliceRoot ==
    ASSUME TypeOK, NEW T \in SUBSET Nodes, Tree(T), mem.root \in T, IsLeaf(mem.root),
           Splice(Top, NULL), \A c \in Blocks : st'[c] # "live"
    PROVE  T = {mem.root} /\ Tree({})'
<1>1. ASSUME NEW x \in T PROVE x = mem.root
  BY DEF Tree, Cover, Leads, Under, InnerNodes
<1>2. mem'.root = NULL BY DEF Splice
<1> QED BY <1>1, <1>2 DEF Tree, Members, Edges, Cover, Once
-----------------------------------------------------------------------------
(* The stores.                                                             *)

Memory == [root : Ptr, deleted_node : Ptr,
           child : [Nodes -> [0 .. 1 -> Ptr \cup Values]],
           path : [Nodes -> Key], bit : [Nodes -> {NoBit} \cup Digits]]

\* A place is the root or a slot of a node.
IsPlace(p) == p = Top \/ \E n \in Nodes, d \in 0 .. 1 : p = <<n, d>>

LEMMA PutFacts ==
    ASSUME mem \in Memory, NEW p, IsPlace(p), NEW v \in Ptr
    PROVE  /\ Put(p, v) \in Memory
           /\ Put(p, v).root = IF p = Top THEN v ELSE mem.root
           /\ Put(p, v).deleted_node = mem.deleted_node
           /\ \A x \in Nodes, e \in 0 .. 1 : Put(p, v).child[x][e] =
                 IF <<x, e>> = p THEN v ELSE mem.child[x][e]
           /\ Put(p, v).path = mem.path
           /\ Put(p, v).bit = mem.bit
<1>1. CASE p = Top
  <2>1. Put(p, v) = [mem EXCEPT !.root = v] BY <1>1 DEF Put
  <2>2. \A x \in Nodes, e \in 0 .. 1 : <<x, e>> # p BY <1>1, NodeFacts
  <2> QED BY <1>1, <2>1, <2>2 DEF Memory
<1>2. CASE p # Top
  <2>1. PICK n \in Nodes, d \in 0 .. 1 : p = <<n, d>> BY <1>2 DEF IsPlace
  <2>2. p[1] = n /\ p[2] = d BY <2>1
  <2>3. Put(p, v) = [mem EXCEPT !.child[n][d] = v] BY <1>2, <2>2 DEF Put
  <2>4. \A x \in Nodes, e \in 0 .. 1 : <<x, e>> = p <=> x = n /\ e = d BY <2>1
  <2>5. mem.child \in [Nodes -> [0 .. 1 -> Ptr \cup Values]] BY DEF Memory
  <2>6. Put(p, v).child = [mem.child EXCEPT ![n][d] = v] BY <2>3 DEF Memory
  <2>7. \A x \in Nodes, e \in 0 .. 1 : Put(p, v).child[x][e] =
           IF x = n /\ e = d THEN v ELSE mem.child[x][e]
    BY <2>5, <2>6
  <2>8. Put(p, v).child \in [Nodes -> [0 .. 1 -> Ptr \cup Values]]
    BY <2>5, <2>6
  <2>9. /\ Put(p, v).root = mem.root /\ Put(p, v).deleted_node = mem.deleted_node
        /\ Put(p, v).path = mem.path /\ Put(p, v).bit = mem.bit
    BY <2>3 DEF Memory
  <2>10. Put(p, v) \in Memory
    <3>1. Put(p, v) = [root |-> mem.root, deleted_node |-> mem.deleted_node,
                       child |-> Put(p, v).child, path |-> mem.path,
                       bit |-> mem.bit]
      BY <2>3, <2>6 DEF Memory
    <3>2. /\ mem.root \in Ptr /\ mem.deleted_node \in Ptr
          /\ mem.path \in [Nodes -> Key] /\ mem.bit \in [Nodes -> {NoBit} \cup Digits]
      BY DEF Memory
    <3> QED BY <3>1, <3>2, <2>8 DEF Memory
  <2> QED BY <1>2, <2>4, <2>7, <2>9, <2>10
<1> QED BY <1>1, <1>2

\* A node that is written as a whole.
Filled(M, m, F, at, pt) ==
    [M EXCEPT !.child[m] = F, !.bit[m] = at, !.path[m] = pt]

LEMMA FillFacts ==
    ASSUME NEW M \in Memory, NEW m \in Nodes, NEW F \in [0 .. 1 -> Ptr \cup Values],
           NEW at \in Digits, NEW pt \in Key, NEW N,
           N = Filled(M, m, F, at, pt)
    PROVE  /\ N \in Memory
           /\ N.root = M.root /\ N.deleted_node = M.deleted_node
           /\ N.child[m] = F /\ N.bit[m] = at /\ N.path[m] = pt
           /\ \A x \in Nodes \ {m} : /\ N.child[x] = M.child[x]
                                     /\ N.bit[x] = M.bit[x]
                                     /\ N.path[x] = M.path[x]
<1>1. /\ M.root \in Ptr /\ M.deleted_node \in Ptr
      /\ M.child \in [Nodes -> [0 .. 1 -> Ptr \cup Values]]
      /\ M.path \in [Nodes -> Key] /\ M.bit \in [Nodes -> {NoBit} \cup Digits]
  BY DEF Memory
<1>2. /\ N.root = M.root /\ N.deleted_node = M.deleted_node
      /\ N.child = [M.child EXCEPT ![m] = F]
      /\ N.bit = [M.bit EXCEPT ![m] = at] /\ N.path = [M.path EXCEPT ![m] = pt]
  BY DEF Memory, Filled
<1>3. N = [root |-> M.root, deleted_node |-> M.deleted_node,
           child |-> [M.child EXCEPT ![m] = F],
           path |-> [M.path EXCEPT ![m] = pt], bit |-> [M.bit EXCEPT ![m] = at]]
  BY DEF Memory, Filled
<1>4. [M.child EXCEPT ![m] = F] \in [Nodes -> [0 .. 1 -> Ptr \cup Values]]
  BY <1>1
<1>5. [M.path EXCEPT ![m] = pt] \in [Nodes -> Key] BY <1>1
<1>6. [M.bit EXCEPT ![m] = at] \in [Nodes -> {NoBit} \cup Digits] BY <1>1
<1>7. N \in Memory BY <1>1, <1>3, <1>4, <1>5, <1>6 DEF Memory
<1> QED BY <1>1, <1>2, <1>7
LEMMA MemoryIs == TypeOK <=> mem \in Memory /\ TypeOK BY DEF TypeOK, Memory

\* What an insert does to memory.
Publishes(b, key, T) ==
    /\ b \in Blocks /\ st[b] = "held" /\ key \in Key
    /\ mem.path[Leaf(b)] = key /\ IsLeaf(Leaf(b)) /\ IsLeaf(Inner(b))
    /\ Leaf(b) \notin T /\ Inner(b) \notin T
    /\ \A x \in T : IsLeaf(x) => mem.path[x] # key
    /\ mem' \in Memory
    /\ \/ mem.root = NULL /\ T = {} /\ Splice(Top, Leaf(b))
       \/ \E n \in T : \E p, at : /\ Forks(p, n, key, at, T)
                                  /\ Fork(p, n, Leaf(b), Inner(b), key, at)

\* The leaves of the tree.
LEMMA LeavesLive ==
    ASSUME NEW T \in SUBSET Nodes, Tree(T), NEW x \in T, IsLeaf(x)
    PROVE  \E b \in Blocks : x = Leaf(b) /\ st[b] = "live"
<1>1. PICK b \in Blocks : x = Leaf(b) \/ x = Inner(b) BY NodeFacts
<1>2. x # Inner(b) BY DEF Tree, Members
<1> QED BY <1>1, <1>2 DEF Tree, Members

LEMMA EmptyTree ==
    ASSUME NEW T \in SUBSET Nodes, Tree(T), mem.root = NULL
    PROVE  T = {}
  BY NodeFacts DEF Tree, Cover, Leads, Under, InnerNodes

\* The store of an insert at the place p, where n is.
Linked(key, k, m, p, n) ==
    LET same == mem.path[n] = key
        at   == IF same THEN NoBit ELSE LowestDiff(mem.path[n], key)
        dir  == IF same THEN 0 ELSE key[at]
    IN  IF n = NULL THEN Put(p, k)
        ELSE [Put(p, m) EXCEPT
                !.child[m] = [d \in 0 .. 1 |-> IF d = dir THEN k ELSE n],
                !.bit[m] = at,
                !.path[m] = IF same THEN key ELSE Below(key, at)]

LEMMA PublishFacts ==
    ASSUME TypeOK, InvBlocks, InvCall, InvNew, NEW T \in SUBSET Nodes, Tree(T),
           NEW w \in Writers, InsertPublish(w)
    PROVE  Publishes(wr[w].k, wr[w].key, T)
<1>1. PICK b, key : b = wr[w].k /\ key = wr[w].key OBVIOUS
<1>2. Holding(w) /\ Inserting(w)
  <2>1. wr[w].pc = "insert" BY DEF InsertPublish
  <2>2. wr[w].op = "insert" BY <2>1 DEF InvCall, CallOK
  <2> QED BY <2>1, <2>2 DEF Holding, Inserting
<1>3. b \in Blocks /\ st[b] = "held" /\ mem.path[Leaf(b)] = key
  BY <1>1, <1>2 DEF InvCall, CallOK
<1>4. key \in Key BY <1>1 DEF TypeOK
<1>5. IsLeaf(Leaf(b)) /\ IsLeaf(Inner(b)) BY <1>3 DEF InvBlocks
<1>6. Leaf(b) \notin T /\ Inner(b) \notin T BY <1>3, <1>5 DEF Tree, Members
<1>7. ASSUME NEW x \in T, IsLeaf(x) PROVE mem.path[x] # key
  <2>1. PICK c \in Blocks : x = Leaf(c) /\ st[c] = "live" BY <1>7, LeavesLive
  <2> QED BY <2>1, <1>1, <1>2 DEF InvNew
<1>8. PICK k, m : k = Leaf(b) /\ m = Inner(b) OBVIOUS
<1>9. k \in Nodes /\ m \in Nodes /\ k # m /\ k \in Ptr /\ m \in Ptr
  BY <1>3, <1>8, NodeFacts DEF Ptr
<1>10. PICK p : p = Walk(key, Agree(key))[WIDTH] OBVIOUS
<1>11. PICK n : n = At(p) OBVIOUS
<1>12. /\ Stands(p, key, Agree(key), T) /\ n \in T \cup {NULL}
       /\ n \notin Agree(key)
  <2>1. Agree(key) \in SUBSET InnerNodes BY DEF Agree
  <2>2. WIDTH \in 0 .. WIDTH BY DigitFacts
  <2> QED BY <1>4, <1>10, <1>11, <2>1, <2>2, WalkFacts
<1>13. IsPlace(p)
  <2>1. CASE p = Top BY <2>1 DEF IsPlace
  <2>2. CASE p # Top
    <3>1. PICK q \in T \cap Agree(key) : p = <<q, key[mem.bit[q]]>>
      BY <1>12, <2>2 DEF Stands
    <3>2. q \in Nodes /\ key[mem.bit[q]] \in 0 .. 1
      BY <1>4, Positions, KeyFacts DEF Agree
    <3> QED BY <3>1, <3>2 DEF IsPlace
  <2> QED BY <2>1, <2>2
<1>14. mem \in Memory BY MemoryIs
<1> DEFINE same == mem.path[n] = key
           at   == IF same THEN NoBit ELSE LowestDiff(mem.path[n], key)
           dir  == IF same THEN 0 ELSE key[at]
           F    == [d \in 0 .. 1 |-> IF d = dir THEN k ELSE n]
<1>15. mem' = IF n = NULL THEN Put(p, k)
              ELSE [Put(p, m) EXCEPT
                      !.child[m] = F, !.bit[m] = at,
                      !.path[m] = IF same THEN key ELSE Below(key, at)]
  <2>1. mem' = Linked(wr[w].key, Leaf(wr[w].k), Inner(wr[w].k),
                      Walk(wr[w].key, Agree(wr[w].key))[WIDTH],
                      At(Walk(wr[w].key, Agree(wr[w].key))[WIDTH]))
    BY Zenon DEF InsertPublish, Linked, Agree, Sibling
  <2>2. mem' = Linked(key, k, m, p, n) BY <2>1, <1>1, <1>8, <1>10, <1>11
  <2> QED BY <2>2, Zenon DEF Linked
<1>16. CASE n = NULL
  <2>1. p = Top
    <3>1. ASSUME p # Top PROVE FALSE
      <4>1. PICK q \in T \cap Agree(key) : p = <<q, key[mem.bit[q]]>>
        BY <1>12, <3>1 DEF Stands
      <4>2. q \in T /\ ~IsLeaf(q) /\ key[mem.bit[q]] \in 0 .. 1
        BY <1>4, Positions, KeyFacts DEF Agree
      <4>3. n = mem.child[q][key[mem.bit[q]]] BY <1>11, <3>1, <4>1 DEF At
      <4>4. PICK d \in 0 .. 1 : d = key[mem.bit[q]] BY <4>2
      <4>c. Child(mem.child[q][d], q, d, T) BY <4>2, EdgeFacts
      <4>5. mem.child[q][d] # NULL BY <4>c DEF Child
      <4> QED BY <4>3, <4>4, <4>5, <1>16
    <3> QED BY <3>1
  <2>2. mem.root = NULL BY <2>1, <1>11, <1>16 DEF At
  <2>3. T = {} BY <2>2, EmptyTree
  <2>4. mem' = Put(p, k) BY <1>15, <1>16
  <2>5. mem' \in Memory /\ Splice(Top, Leaf(b))
    BY <2>1, <2>4, <1>8, <1>9, <1>13, <1>14, PutFacts DEF Splice
  <2> QED BY <2>2, <2>3, <2>5, <1>1, <1>3, <1>4, <1>5, <1>6, <1>7 DEF Publishes
<1>17. CASE n # NULL
  <2>1. n \in T BY <1>12, <1>17
  <2>2. PICK t : t = LowestDiff(mem.path[n], key) OBVIOUS
  <2>3. mem.path[n] # key /\ Forks(p, n, key, t, T)
    BY <2>1, <2>2, <1>4, <1>7, <1>11, <1>12, ForkPlace
  <2>4. t \in Digits /\ key[t] \in 0 .. 1 /\ Below(key, t) \in Key
    <3>1. t \in Digits /\ t \in Int BY <2>3, DigitFacts DEF Forks
    <3> QED BY <3>1, <1>4, KeyFacts
  <2>5. PICK G : G = [d \in 0 .. 1 |-> IF d = key[t] THEN k ELSE n] OBVIOUS
  <2>6. G \in [0 .. 1 -> Ptr \cup Values] BY <2>1, <2>5, <1>9 DEF Ptr
  <2>7. mem' = [Put(p, m) EXCEPT !.child[m] = G, !.bit[m] = t,
                                 !.path[m] = Below(key, t)]
    BY <1>15, <1>17, <2>2, <2>3, <2>5
  <2>8. PICK M : M = Put(p, m) OBVIOUS
  <2>9. /\ M \in Memory
        /\ M.root = IF p = Top THEN m ELSE mem.root
        /\ M.deleted_node = mem.deleted_node
        /\ \A x \in Nodes, e \in 0 .. 1 : M.child[x][e] =
              IF <<x, e>> = p THEN m ELSE mem.child[x][e]
        /\ M.path = mem.path
        /\ M.bit = mem.bit
    BY <2>8, <1>9, <1>13, <1>14, PutFacts
  <2>10. PICK N : N = mem' OBVIOUS
  <2>p. PICK pt \in Key : pt = Below(key, t) BY <2>4
  <2>11. N = Filled(M, m, G, t, pt) BY <2>7, <2>8, <2>10, <2>p DEF Filled
  <2>12. /\ N \in Memory
         /\ N.root = M.root /\ N.deleted_node = M.deleted_node
         /\ N.child[m] = G /\ N.bit[m] = t /\ N.path[m] = pt
         /\ \A x \in Nodes \ {m} : /\ N.child[x] = M.child[x]
                                   /\ N.bit[x] = M.bit[x]
                                   /\ N.path[x] = M.path[x]
    <3>1. /\ M \in Memory /\ m \in Nodes /\ t \in Digits /\ pt \in Key
          /\ G \in [0 .. 1 -> Ptr \cup Values]
      BY <2>4, <2>6, <2>9, <1>9
    <3> HIDE DEF same, at, dir, F
    <3> QED BY <3>1, <2>11, FillFacts
  <2>13. G[key[t]] = k /\ G[1 - key[t]] = n BY <2>4, <2>5
  <2>14. Fork(p, n, k, m, key, t) BY <2>9, <2>10, <2>12, <2>13, <2>p DEF Fork
  <2>15. mem' \in Memory BY <2>10, <2>12
  <2>16. \E x \in T : \E pl, cr : /\ Forks(pl, x, key, cr, T)
                                  /\ Fork(pl, x, Leaf(b), Inner(b), key, cr)
    BY <2>1, <2>3, <2>14, <1>8
  <2> HIDE DEF same, at, dir, F
  <2> QED BY <2>15, <2>16, <1>1, <1>3, <1>4, <1>5, <1>6, <1>7 DEF Publishes
<1> QED BY <1>16, <1>17

\* What a remove does to memory when it unlinks the leaf of block b.
Unlinks(b, key, T) ==
    /\ b \in Blocks /\ st[b] = "live" /\ Leaf(b) \in T
    /\ mem.path[Leaf(b)] = key /\ IsLeaf(Leaf(b))
    /\ mem' \in Memory
    /\ \/ mem.root = Leaf(b) /\ Splice(Top, NULL)
       \/ \E q \in T, d \in 0 .. 1 : \E g :
             /\ ~IsLeaf(q) /\ Leaf(b) = mem.child[q][d] /\ PlaceOf(g, q, T)
             /\ Splice(g, mem.child[q][1 - d])

\* The lookup of a remove finds the leaf of the key, if there is one.
LEMMA LookupFacts ==
    ASSUME TypeOK, NEW T \in SUBSET Nodes, Tree(T), NEW key \in Key
    PROVE  /\ At(k_parent(key)) \in T \cup {NULL}
           /\ At(k_parent(key)) \in T => IsLeaf(At(k_parent(key)))
           /\ Present(key) => \E b \in Blocks : /\ At(k_parent(key)) = Leaf(b)
                                                /\ Leaf(b) \in T /\ st[b] = "live"
                                                /\ mem.path[Leaf(b)] = key
           /\ \A b \in Blocks : st[b] = "live" /\ mem.path[Leaf(b)] = key
                                   /\ IsLeaf(Leaf(b)) =>
                 At(k_parent(key)) = Leaf(b) /\ Present(key)
<1>1. PICK n : n = At(k_parent(key)) OBVIOUS
<1>2. WIDTH \in 0 .. WIDTH /\ InnerNodes \in SUBSET InnerNodes BY DigitFacts
<1>3. /\ n \in T \cup {NULL} /\ n \notin InnerNodes
      /\ \A x \in T : IsLeaf(x) /\ mem.path[x] = key => Leads(n, x)
  BY <1>1, <1>2, WalkFacts DEF k_parent
<1>4. n \in T => IsLeaf(n) BY <1>3 DEF InnerNodes
<1>5. ASSUME Present(key)
      PROVE  \E b \in Blocks : /\ n = Leaf(b) /\ Leaf(b) \in T /\ st[b] = "live"
                               /\ mem.path[Leaf(b)] = key
  <2>1. n \in T /\ mem.path[n] = key BY <1>1, <1>3, <1>5 DEF Present
  <2> QED BY <2>1, <1>4, LeavesLive
<1>6. ASSUME NEW b \in Blocks, st[b] = "live", mem.path[Leaf(b)] = key,
             IsLeaf(Leaf(b))
      PROVE  n = Leaf(b) /\ Present(key)
  <2>1. Leaf(b) \in T BY <1>6 DEF Tree, Members
  <2>2. Leads(n, Leaf(b)) BY <2>1, <1>3, <1>6
  <2>3. n = Leaf(b) BY <2>2, <1>3 DEF Leads, Under
  <2> QED BY <2>1, <2>3, <1>1, <1>6, NodeFacts DEF Present
<1> QED BY <1>1, <1>3, <1>4, <1>5, <1>6

LEMMA UnlinkFacts ==
    ASSUME TypeOK, InvBlocks, NEW T \in SUBSET Nodes, Tree(T), NEW key \in Key,
           Present(key), mem' = Unlinked(key)
    PROVE  \E b \in Blocks : At(k_parent(key)) = Leaf(b) /\ Unlinks(b, key, T)
<1>1. PICK b \in Blocks : /\ At(k_parent(key)) = Leaf(b)
                          /\ Leaf(b) \in T /\ st[b] = "live"
                          /\ mem.path[Leaf(b)] = key
  BY LookupFacts
<1>2. IsLeaf(Leaf(b)) BY DEF InvBlocks
<1>3. PICK p : p = k_parent(key) OBVIOUS
<1>4. mem \in Memory BY MemoryIs
<1>5. NULL \in Ptr BY DEF Ptr
<1>w. \A e \in 0 .. WIDTH : Stands(Walk(key, InnerNodes)[e], key, InnerNodes, T)
  BY WalkFacts
<1>6. CASE p = Top
  <2>1. mem.root = Leaf(b) BY <1>1, <1>3, <1>6 DEF At
  <2>2. mem' = Put(Top, NULL) BY <1>3, <1>6 DEF Unlinked
  <2>3. mem' \in Memory /\ Splice(Top, NULL)
    BY <2>2, <1>4, <1>5, PutFacts DEF Splice, IsPlace
  <2> QED BY <2>1, <2>3, <1>1, <1>2 DEF Unlinks
<1>7. CASE p # Top
  <2>1. Stands(p, key, InnerNodes, T)
    <3>1. WIDTH \in 0 .. WIDTH BY DigitFacts
    <3> QED BY <3>1, <1>3, <1>w DEF k_parent
  <2>2. PICK q \in T \cap InnerNodes :
           /\ p = <<q, key[mem.bit[q]]>>
           /\ \E e \in 0 .. WIDTH : At(Walk(key, InnerNodes)[e]) = q
    BY <2>1, <1>7 DEF Stands
  <2>3. ~IsLeaf(q) BY DEF InnerNodes
  <2>4. PICK d \in 0 .. 1 : d = key[mem.bit[q]] BY Positions, KeyFacts
  <2>5. p = <<q, d>> /\ p[1] = q /\ p[2] = d BY <2>2, <2>4
  <2>6. Leaf(b) = mem.child[q][d] BY <2>5, <1>1, <1>3, <1>7 DEF At
  <2>7. PICK g : g = n_parent(key, p) OBVIOUS
  <2>8. PICK e \in 0 .. WIDTH : /\ At(Walk(key, InnerNodes)[e]) = q
                                /\ g = Walk(key, InnerNodes)[e]
    BY <2>2, <2>5, <2>7 DEF n_parent
  <2>9. At(g) = q /\ Stands(g, key, InnerNodes, T) BY <2>8, <1>w
  <2>10. PlaceOf(g, q, T) /\ IsPlace(g)
    <3>1. CASE g = Top BY <3>1, <2>9 DEF At, PlaceOf, IsPlace
    <3>2. CASE g # Top
      <4>1. PICK y \in T \cap InnerNodes : g = <<y, key[mem.bit[y]]>>
        BY <2>9, <3>2 DEF Stands
      <4>2. PICK f \in 0 .. 1 : f = key[mem.bit[y]] BY Positions, KeyFacts
      <4>3. g = <<y, f>> /\ mem.child[y][f] = q BY <4>1, <4>2, <3>2, <2>9 DEF At
      <4>4. ~IsLeaf(y) /\ y \in Nodes BY DEF InnerNodes
      <4> QED BY <4>3, <4>4 DEF PlaceOf, IsPlace
    <3> QED BY <3>1, <3>2
  <2>11. PICK f \in 0 .. 1 : f = 1 - d OBVIOUS
  <2>12. At(<<p[1], 1 - p[2]>>) = mem.child[q][f]
    <3>1. <<p[1], 1 - p[2]>> = <<q, f>> BY <2>5, <2>11
    <3>2. <<q, f>> # Top BY NodeFacts
    <3> QED BY <3>1, <3>2 DEF At
  <2>c. Child(mem.child[q][f], q, f, T) BY <2>3, EdgeFacts
  <2>13. PICK s \in T : s = mem.child[q][f] BY <2>c DEF Child
  <2>14. s \in Ptr BY DEF Ptr
  <2>15. mem' = Put(g, s) BY <1>3, <1>7, <2>7, <2>12, <2>13 DEF Unlinked
  <2>m. PICK M : M = Put(g, s) OBVIOUS
  <2>p. /\ M \in Memory
        /\ M.root = IF g = Top THEN s ELSE mem.root
        /\ M.deleted_node = mem.deleted_node
        /\ \A x \in Nodes, i \in 0 .. 1 : M.child[x][i] =
              IF <<x, i>> = g THEN s ELSE mem.child[x][i]
        /\ M.path = mem.path
        /\ M.bit = mem.bit
    BY <2>m, <2>10, <2>14, <1>4, PutFacts
  <2>16. mem' \in Memory /\ Splice(g, s) BY <2>m, <2>p, <2>15 DEF Splice
  <2>17. Splice(g, mem.child[q][1 - d]) BY <2>11, <2>13, <2>16
  <2>18. \E z \in T, h \in 0 .. 1 : \E i :
             /\ ~IsLeaf(z) /\ Leaf(b) = mem.child[z][h] /\ PlaceOf(i, z, T)
             /\ Splice(i, mem.child[z][1 - h])
    <3>1. q \in T BY <2>2
    <3> QED BY <3>1, <2>3, <2>6, <2>10, <2>17
  <2> QED BY <2>16, <2>18, <1>1, <1>2 DEF Unlinks
<1> QED BY <1>6, <1>7
-----------------------------------------------------------------------------
(* One step of a writer.                                                   *)

Calls == [pc : {"idle", "alloc", "lock", "insert", "remove", "free", "return"},
          op : {"none", "insert", "remove"}, key : Key,
          value : Values \cup {NULL}, k : Blocks \cup {NULL},
          ret : Values \cup {NULL, "0", "ENOMEM", "none"}]

LEMMA TypeFacts ==
    ASSUME TypeOK
    PROVE  /\ mem \in Memory /\ mutex \in Writers \cup {NULL}
           /\ wr \in [Writers -> Calls]
           /\ st \in [Blocks -> {"raw", "held", "live", "gone"}]
           /\ inserts \in Nat /\ removes \in Nat
           /\ \A w \in Writers : wr[w] \in Calls
           /\ \A w \in Writers : /\ wr[w].key \in Key
                                 /\ wr[w].value \in Values \cup {NULL}
<1>1. wr \in [Writers -> Calls] BY DEF TypeOK, Calls
<1>2. \A w \in Writers : wr[w] \in Calls BY <1>1
<1>3. \A w \in Writers : /\ wr[w].key \in Key
                         /\ wr[w].value \in Values \cup {NULL}
  BY <1>2 DEF Calls
<1> QED BY <1>1, <1>2, <1>3 DEF TypeOK, Memory

\* A new leaf.
Makes(b, key, value) ==
    /\ b \in Blocks /\ st[b] = "raw" /\ st' = [st EXCEPT ![b] = "held"]
    /\ mem' \in Memory
    /\ mem'.root = mem.root /\ mem'.deleted_node = mem.deleted_node
    /\ mem'.bit = mem.bit
    /\ mem'.path[Leaf(b)] = key /\ mem'.child[Leaf(b)][0] = value
    /\ \A x \in Nodes \ {Leaf(b)} : /\ mem'.path[x] = mem.path[x]
                                    /\ mem'.child[x] = mem.child[x]

LEMMA AllocFacts ==
    ASSUME TypeOK, NEW w \in Writers, InsertAlloc(w)
    PROVE  \E b \in Blocks :
              /\ Makes(b, wr[w].key, wr[w].value)
              /\ wr' = [wr EXCEPT ![w].k = b, ![w].pc = "lock"]
<1>0. /\ mem \in Memory /\ wr[w].key \in Key /\ wr[w].value \in Ptr \cup Values
  BY TypeFacts DEF Ptr
<1>1. PICK b \in Blocks :
         /\ st[b] = "raw" /\ st' = [st EXCEPT ![b] = "held"]
         /\ wr' = [wr EXCEPT ![w].k = b, ![w].pc = "lock"]
         /\ mem' = [mem EXCEPT !.path[Leaf(b)] = wr[w].key,
                               !.child[Leaf(b)][0] = wr[w].value]
  BY DEF InsertAlloc
<1>2. PICK l \in Nodes : l = Leaf(b) BY NodeFacts
<1>3. PICK key \in Key, v \in Ptr \cup Values : key = wr[w].key /\ v = wr[w].value
  BY <1>0
<1>4. mem' = [mem EXCEPT !.path[l] = key, !.child[l][0] = v] BY <1>1, <1>2, <1>3
<1>5. /\ mem.root \in Ptr /\ mem.deleted_node \in Ptr
      /\ mem.child \in [Nodes -> [0 .. 1 -> Ptr \cup Values]]
      /\ mem.path \in [Nodes -> Key] /\ mem.bit \in [Nodes -> {NoBit} \cup Digits]
  BY <1>0 DEF Memory
<1>6. /\ mem'.root = mem.root /\ mem'.deleted_node = mem.deleted_node
      /\ mem'.bit = mem.bit
      /\ mem'.path = [mem.path EXCEPT ![l] = key]
      /\ mem'.child = [mem.child EXCEPT ![l][0] = v]
      /\ mem' = [root |-> mem.root, deleted_node |-> mem.deleted_node,
                 child |-> [mem.child EXCEPT ![l][0] = v],
                 path |-> [mem.path EXCEPT ![l] = key], bit |-> mem.bit]
  BY <1>0, <1>4 DEF Memory
<1>7. [mem.child EXCEPT ![l][0] = v] \in [Nodes -> [0 .. 1 -> Ptr \cup Values]]
  BY <1>5
<1>8. [mem.path EXCEPT ![l] = key] \in [Nodes -> Key] BY <1>5
<1>9. mem' \in Memory BY <1>5, <1>6, <1>7, <1>8 DEF Memory
<1>10. /\ mem'.path[l] = key /\ mem'.child[l][0] = v
       /\ \A x \in Nodes \ {l} : /\ mem'.path[x] = mem.path[x]
                                 /\ mem'.child[x] = mem.child[x]
  BY <1>5, <1>6
<1>11. Makes(b, wr[w].key, wr[w].value)
  BY <1>1, <1>2, <1>3, <1>6, <1>9, <1>10 DEF Makes
<1> QED BY <1>1, <1>11

\* The leaf of block b joins the list.
Joins(b) ==
    /\ mem' \in Memory
    /\ mem'.root = mem.root /\ mem'.deleted_node = Leaf(b)
    /\ mem'.bit = mem.bit /\ mem'.path = mem.path
    /\ mem'.child[Leaf(b)][0] = mem.deleted_node
    /\ \A x \in Nodes \ {Leaf(b)} : mem'.child[x] = mem.child[x]

LEMMA FreeFacts ==
    ASSUME TypeOK, NEW b \in Blocks, mem' = free_node(Leaf(b))
    PROVE  Joins(b)
<1>0. mem \in Memory BY TypeFacts
<1>2. PICK l \in Nodes : l = Leaf(b) BY NodeFacts
<1>5. /\ mem.root \in Ptr /\ mem.deleted_node \in Ptr
      /\ mem.child \in [Nodes -> [0 .. 1 -> Ptr \cup Values]]
      /\ mem.path \in [Nodes -> Key] /\ mem.bit \in [Nodes -> {NoBit} \cup Digits]
  BY <1>0 DEF Memory
<1>4. mem' = [mem EXCEPT !.child[l][0] = mem.deleted_node, !.deleted_node = l]
  BY <1>2 DEF free_node
<1>6. /\ mem'.root = mem.root /\ mem'.deleted_node = l
      /\ mem'.bit = mem.bit /\ mem'.path = mem.path
      /\ mem'.child = [mem.child EXCEPT ![l][0] = mem.deleted_node]
      /\ mem' = [root |-> mem.root, deleted_node |-> l,
                 child |-> [mem.child EXCEPT ![l][0] = mem.deleted_node],
                 path |-> mem.path, bit |-> mem.bit]
  BY <1>0, <1>4 DEF Memory
<1>7. [mem.child EXCEPT ![l][0] = mem.deleted_node]
         \in [Nodes -> [0 .. 1 -> Ptr \cup Values]]
  BY <1>5
<1>8. l \in Ptr BY DEF Ptr
<1>9. mem' \in Memory BY <1>5, <1>6, <1>7, <1>8 DEF Memory
<1>10. /\ mem'.child[l][0] = mem.deleted_node
       /\ \A x \in Nodes \ {l} : mem'.child[x] = mem.child[x]
  BY <1>5, <1>6
<1> QED BY <1>2, <1>6, <1>9, <1>10 DEF Joins

\* The steps that touch neither memory nor blocks.
Still(w) == \/ CallInsert(w) \/ InsertNoMemory(w) \/ CallRemove(w)
            \/ RemoveAbsent(w) \/ Lock(w) \/ WriterReturn(w)

LEMMA StillFacts ==
    ASSUME NEW w \in Writers, Still(w)
    PROVE  mem' = mem /\ st' = st
  BY DEF Still, CallInsert, Call, InsertNoMemory, CallRemove, RemoveAbsent, Lock,
         WriterReturn

LEMMA StepKinds ==
    ASSUME NEW w \in Writers, WriterNext(w)
    PROVE  \/ Still(w) \/ InsertAlloc(w) \/ InsertPublish(w)
           \/ RemoveUnlink(w) \/ RemoveFree(w)
  BY DEF WriterNext, Still
\* What a step of writer w does to memory and blocks.
Effect(w, T) ==
    \/ Still(w) /\ mem' = mem /\ st' = st
    \/ /\ wr[w].pc = "alloc"
       /\ \E b \in Blocks : /\ Makes(b, wr[w].key, wr[w].value)
                            /\ wr' = [wr EXCEPT ![w].k = b, ![w].pc = "lock"]
    \/ /\ wr[w].pc = "insert" /\ Publishes(wr[w].k, wr[w].key, T)
       /\ st' = [st EXCEPT ![wr[w].k] = "live"]
       /\ wr' = [wr EXCEPT ![w].pc = "return", ![w].ret = "0"]
    \/ /\ wr[w].pc = "remove"
       /\ \E b \in Blocks : /\ Unlinks(b, wr[w].key, T)
                            /\ At(k_parent(wr[w].key)) = Leaf(b)
                            /\ st' = [st EXCEPT ![b] = "gone"]
                            /\ wr' = [wr EXCEPT ![w].pc = "free", ![w].k = b,
                                                ![w].ret = mem.child[Leaf(b)][0]]
    \/ /\ wr[w].pc = "free" /\ wr[w].k \in Blocks /\ st[wr[w].k] = "gone"
       /\ Joins(wr[w].k) /\ st' = st
       /\ wr' = [wr EXCEPT ![w].pc = "return"]

LEMMA Effects ==
    ASSUME TypeOK, InvBlocks, InvCall, InvNew, NEW T \in SUBSET Nodes, Tree(T),
           NEW w \in Writers, WriterNext(w)
    PROVE  Effect(w, T)
<1>1. CASE Still(w) BY <1>1, StillFacts DEF Effect
<1>2. CASE InsertAlloc(w)
  <2>1. wr[w].pc = "alloc" BY <1>2 DEF InsertAlloc
  <2>2. \E b \in Blocks : /\ Makes(b, wr[w].key, wr[w].value)
                          /\ wr' = [wr EXCEPT ![w].k = b, ![w].pc = "lock"]
    BY <1>2, AllocFacts
  <2> QED BY <2>1, <2>2 DEF Effect
<1>3. CASE InsertPublish(w)
  <2>1. Publishes(wr[w].k, wr[w].key, T) BY <1>3, PublishFacts
  <2>2. /\ wr[w].pc = "insert" /\ st' = [st EXCEPT ![wr[w].k] = "live"]
        /\ wr' = [wr EXCEPT ![w].pc = "return", ![w].ret = "0"]
    BY <1>3 DEF InsertPublish, Return
  <2> QED BY <2>1, <2>2 DEF Effect
<1>4. CASE RemoveUnlink(w)
  <2>1. PICK key \in Key : key = wr[w].key BY TypeFacts
  <2>2. Present(key) /\ mem' = Unlinked(key) BY <1>4, <2>1 DEF RemoveUnlink
  <2>3. PICK b \in Blocks : At(k_parent(key)) = Leaf(b) /\ Unlinks(b, key, T)
    BY <2>2, UnlinkFacts
  <2>4. Leaf(b)[1] = b BY NodeFacts
  <2>5. /\ wr[w].pc = "remove" /\ st' = [st EXCEPT ![b] = "gone"]
        /\ wr' = [wr EXCEPT ![w].pc = "free", ![w].k = b,
                            ![w].ret = mem.child[Leaf(b)][0]]
    BY <1>4, <2>1, <2>3, <2>4 DEF RemoveUnlink
  <2> QED BY <2>1, <2>3, <2>5 DEF Effect
<1>5. CASE RemoveFree(w)
  <2>1. /\ wr[w].pc = "free" /\ mem' = free_node(Leaf(wr[w].k)) /\ st' = st
        /\ wr' = [wr EXCEPT ![w].pc = "return"]
    BY <1>5 DEF RemoveFree, Goto
  <2>2. wr[w].k \in Blocks /\ st[wr[w].k] = "gone" BY <2>1 DEF InvCall, CallOK, Freeing
  <2>3. Joins(wr[w].k) BY <2>1, <2>2, FreeFacts
  <2> QED BY <2>1, <2>2, <2>3 DEF Effect
<1> QED BY <1>1, <1>2, <1>3, <1>4, <1>5, StepKinds

\* Where a leaf's fields stay as they are.
Keeps(w) ==
    /\ mem' \in Memory /\ st' \in [Blocks -> {"raw", "held", "live", "gone"}]
    /\ \A c \in Blocks :
          /\ IsLeaf(Leaf(c))'
          /\ st[c] # "raw" => mem'.path[Leaf(c)] = mem.path[Leaf(c)]
          /\ st[c] \in {"held", "live"} \/ (st[c] = "gone" /\ wr[w].pc # "free") =>
                mem'.child[Leaf(c)][0] = mem.child[Leaf(c)][0]

\* A splice or a fork changes slots of inner nodes only.
LEMMA LeavesKept ==
    ASSUME TypeOK, InvBlocks, NEW T \in SUBSET Nodes, Tree(T),
           NEW w \in Writers, Effect(w, T)
    PROVE  Keeps(w)
<1>0. /\ mem \in Memory /\ st \in [Blocks -> {"raw", "held", "live", "gone"}]
  BY TypeFacts
<1>1. \A c \in Blocks : Leaf(c) \in Nodes /\ IsLeaf(Leaf(c))
  BY NodeFacts DEF InvBlocks
<1>2. CASE mem' = mem /\ st' = st BY <1>0, <1>1, <1>2 DEF Keeps, IsLeaf
<1>3. ASSUME NEW b \in Blocks, Makes(b, wr[w].key, wr[w].value) PROVE Keeps(w)
  <2>1. \A c \in Blocks : c # b => Leaf(c) \in Nodes \ {Leaf(b)} BY NodeFacts
  <2>2. \A c \in Blocks : st[c] # "raw" => c # b BY <1>3 DEF Makes
  <2>3. st' \in [Blocks -> {"raw", "held", "live", "gone"}]
    BY <1>0, <1>3 DEF Makes
  <2>4. \A c \in Blocks : IsLeaf(Leaf(c))' BY <1>1, <1>3 DEF Makes, IsLeaf
  <2>5. \A c \in Blocks : st[c] # "raw" =>
           /\ mem'.path[Leaf(c)] = mem.path[Leaf(c)]
           /\ mem'.child[Leaf(c)] = mem.child[Leaf(c)]
    BY <2>1, <2>2, <1>3 DEF Makes
  <2> QED BY <1>3, <2>3, <2>4, <2>5 DEF Keeps, Makes
<1>4. ASSUME Publishes(wr[w].k, wr[w].key, T), st' = [st EXCEPT ![wr[w].k] = "live"]
      PROVE  Keeps(w)
  <2>1. st' \in [Blocks -> {"raw", "held", "live", "gone"}] BY <1>0, <1>4
  <2>2. mem' \in Memory /\ wr[w].k \in Blocks BY <1>4 DEF Publishes
  <2>3. CASE Splice(Top, Leaf(wr[w].k))
    <3>1. \A c \in Blocks : <<Leaf(c), 0>> # Top BY <1>1, NodeFacts
    <3>2. \A c \in Blocks : mem'.child[Leaf(c)][0] = mem.child[Leaf(c)][0]
      BY <2>3, <3>1, <1>1 DEF Splice
    <3> QED BY <2>1, <2>2, <2>3, <3>2, <1>1 DEF Keeps, Splice, IsLeaf
  <2>4. ASSUME NEW n \in T, NEW p, NEW at, Forks(p, n, wr[w].key, at, T),
               Fork(p, n, Leaf(wr[w].k), Inner(wr[w].k), wr[w].key, at)
        PROVE  Keeps(w)
    <3>1. \A c \in Blocks : Leaf(c) \in Nodes \ {Inner(wr[w].k)}
      BY <2>2, NodeFacts
    <3>2. \A c \in Blocks : <<Leaf(c), 0>> # p
      <4>1. ASSUME NEW c \in Blocks, <<Leaf(c), 0>> = p PROVE FALSE
        <5>1. p # Top BY <4>1, <1>1, NodeFacts
        <5>2. PICK q \in T : ~IsLeaf(q) /\ p = <<q, wr[w].key[mem.bit[q]]>>
          BY <5>1, <2>4 DEF Forks
        <5>3. Leaf(c) = q BY <4>1, <5>2
        <5> QED BY <5>2, <5>3, <1>1
      <4> QED BY <4>1
    <3>3. \A c \in Blocks : mem'.child[Leaf(c)][0] = mem.child[Leaf(c)][0]
      BY <3>1, <3>2, <2>4 DEF Fork
    <3>4. \A c \in Blocks : /\ mem'.path[Leaf(c)] = mem.path[Leaf(c)]
                            /\ mem'.bit[Leaf(c)] = mem.bit[Leaf(c)]
      BY <3>1, <2>4 DEF Fork
    <3> QED BY <2>1, <2>2, <3>3, <3>4, <1>1 DEF Keeps, IsLeaf
  <2> QED BY <2>3, <2>4, <1>4 DEF Publishes
<1>5. ASSUME NEW b \in Blocks, Unlinks(b, wr[w].key, T),
             st' = [st EXCEPT ![b] = "gone"]
      PROVE  Keeps(w)
  <2>1. st' \in [Blocks -> {"raw", "held", "live", "gone"}] BY <1>0, <1>5
  <2>2. mem' \in Memory BY <1>5 DEF Unlinks
  <2>3. ASSUME NEW g, NEW s, Splice(g, s), \A c \in Blocks : <<Leaf(c), 0>> # g
        PROVE  Keeps(w)
    <3>2. \A c \in Blocks : mem'.child[Leaf(c)][0] = mem.child[Leaf(c)][0]
      BY <2>3, <1>1 DEF Splice
    <3> QED BY <2>1, <2>2, <2>3, <3>2, <1>1 DEF Keeps, Splice, IsLeaf
  <2>4. CASE Splice(Top, NULL)
    <3>1. \A c \in Blocks : <<Leaf(c), 0>> # Top BY <1>1, NodeFacts
    <3> QED BY <3>1, <2>3, <2>4
  <2>5. ASSUME NEW q \in T, NEW d \in 0 .. 1, NEW g, PlaceOf(g, q, T),
               Splice(g, mem.child[q][1 - d])
        PROVE  Keeps(w)
    <3>1. \A c \in Blocks : <<Leaf(c), 0>> # g
      <4>1. ASSUME NEW c \in Blocks, <<Leaf(c), 0>> = g PROVE FALSE
        <5>1. g # Top BY <4>1, <1>1, NodeFacts
        <5>2. PICK y \in T, e \in 0 .. 1 : ~IsLeaf(y) /\ g = <<y, e>>
          BY <5>1, <2>5 DEF PlaceOf
        <5>3. Leaf(c) = y BY <4>1, <5>2
        <5> QED BY <5>2, <5>3, <1>1
      <4> QED BY <4>1
    <3> QED BY <3>1, <2>3, <2>5
  <2> QED BY <2>4, <2>5, <1>5 DEF Unlinks
<1>6. ASSUME wr[w].pc = "free", wr[w].k \in Blocks, st[wr[w].k] = "gone",
             Joins(wr[w].k), st' = st
      PROVE  Keeps(w)
  <2>1. \A c \in Blocks : st[c] \in {"held", "live"} =>
           Leaf(c) \in Nodes \ {Leaf(wr[w].k)}
    BY <1>6, NodeFacts
  <2> QED BY <2>1, <1>0, <1>1, <1>6 DEF Keeps, Joins, IsLeaf
<1> QED BY <1>2, <1>3, <1>4, <1>5, <1>6 DEF Effect
-----------------------------------------------------------------------------
(* The calls.                                                              *)

\* The record of writer w after its step.
NewCall(w, T) ==
    \/ \E key \in Keys, value \in Values :
          /\ wr[w].pc = "idle" /\ mutex' = mutex
          /\ wr'[w] = [pc |-> "alloc", op |-> "insert", key |-> key,
                       value |-> value, k |-> NULL, ret |-> "none"]
    \/ \E key \in Keys :
          /\ wr[w].pc = "idle" /\ mutex' = mutex
          /\ wr'[w] = [pc |-> "lock", op |-> "remove", key |-> key,
                       value |-> NULL, k |-> NULL, ret |-> "none"]
    \/ /\ wr[w].pc = "alloc" /\ mutex' = mutex
       /\ wr'[w] = [wr[w] EXCEPT !.pc = "return", !.ret = "ENOMEM"]
    \/ \E b \in Blocks :
          /\ wr[w].pc = "alloc" /\ mutex' = mutex
          /\ Makes(b, wr[w].key, wr[w].value)
          /\ wr'[w] = [wr[w] EXCEPT !.k = b, !.pc = "lock"]
    \/ /\ wr[w].pc = "insert" /\ mutex' = mutex
       /\ wr'[w] = [wr[w] EXCEPT !.pc = "return", !.ret = "0"]
    \/ /\ wr[w].pc = "remove" /\ mutex' = mutex
       /\ wr'[w] = [wr[w] EXCEPT !.pc = "return", !.ret = NULL]
    \/ \E b \in Blocks :
          /\ wr[w].pc = "remove" /\ mutex' = mutex /\ st[b] = "live"
          /\ st' = [st EXCEPT ![b] = "gone"]
          /\ wr'[w] = [wr[w] EXCEPT !.pc = "free", !.k = b,
                                    !.ret = mem.child[Leaf(b)][0]]
    \/ /\ wr[w].pc = "free" /\ mutex' = mutex
       /\ wr'[w] = [wr[w] EXCEPT !.pc = "return"]
    \/ /\ wr[w].pc = "lock" /\ mutex = NULL /\ mutex' = w
       /\ wr'[w] = [wr[w] EXCEPT !.pc = wr[w].op]
    \/ /\ wr[w].pc = "return" /\ mutex' = (IF mutex = w THEN NULL ELSE mutex)
       /\ wr'[w] = NoCall

LEMMA NewCalls ==
    ASSUME TypeOK, InvBlocks, InvCall, InvNew, NEW T \in SUBSET Nodes, Tree(T),
           NEW w \in Writers, WriterNext(w)
    PROVE  /\ NewCall(w, T) /\ wr' = [wr EXCEPT ![w] = wr'[w]]
           /\ \A v \in Writers \ {w} : wr'[v] = wr[v]
           /\ inserts' \in Nat /\ removes' \in Nat
<1>t. wr \in [Writers -> Calls] /\ inserts \in Nat /\ removes \in Nat BY TypeFacts
<1>e. Effect(w, T) BY Effects
<1>n. inserts' \in Nat /\ removes' \in Nat
  <2>1. CASE CallInsert(w) BY <2>1, <1>t DEF CallInsert
  <2>2. CASE CallRemove(w) BY <2>2, <1>t DEF CallRemove
  <2>3. CASE InsertAlloc(w) \/ InsertNoMemory(w) \/ InsertPublish(w)
    BY <2>3, <1>t DEF InsertAlloc, InsertNoMemory, InsertPublish
  <2>4. CASE RemoveAbsent(w) \/ RemoveUnlink(w) \/ RemoveFree(w)
    BY <2>4, <1>t DEF RemoveAbsent, RemoveUnlink, RemoveFree
  <2>5. CASE Lock(w) \/ WriterReturn(w) BY <2>5, <1>t DEF Lock, WriterReturn
  <2> QED BY <2>1, <2>2, <2>3, <2>4, <2>5 DEF WriterNext
<1>1. CASE CallInsert(w)
  <2>1. PICK key \in Keys, value \in Values : Call(w, "insert", key, value, "alloc")
    BY <1>1 DEF CallInsert
  <2> QED BY <2>1, <1>t, <1>n DEF Call, NoCall, NewCall
<1>2. CASE CallRemove(w)
  <2>1. PICK key \in Keys : Call(w, "remove", key, NULL, "lock")
    BY <1>2 DEF CallRemove
  <2> QED BY <2>1, <1>t, <1>n DEF Call, NoCall, NewCall
<1>3. CASE InsertNoMemory(w)
  BY <1>3, <1>t, <1>n DEF InsertNoMemory, Return, NewCall
<1>4. CASE InsertAlloc(w)
  <2>1. PICK b \in Blocks : /\ Makes(b, wr[w].key, wr[w].value)
                            /\ wr' = [wr EXCEPT ![w].k = b, ![w].pc = "lock"]
    BY <1>4, AllocFacts
  <2>2. wr[w].pc = "alloc" /\ mutex' = mutex BY <1>4 DEF InsertAlloc
  <2>3. wr'[w] = [wr[w] EXCEPT !.k = b, !.pc = "lock"] BY <2>1, <1>t
  <2>4. NewCall(w, T) BY <2>1, <2>2, <2>3 DEF NewCall
  <2> QED BY <2>1, <2>4, <1>t, <1>n
<1>5. CASE InsertPublish(w)
  BY <1>5, <1>t, <1>n DEF InsertPublish, Return, NewCall
<1>6. CASE RemoveAbsent(w)
  BY <1>6, <1>t, <1>n DEF RemoveAbsent, Return, NewCall
<1>7. CASE RemoveUnlink(w)
  <2>1. wr[w].pc = "remove" /\ mutex' = mutex /\ wr'[w].pc = "free"
    BY <1>7, <1>t DEF RemoveUnlink, Calls
  <2>2. PICK b \in Blocks : /\ Unlinks(b, wr[w].key, T)
                            /\ st' = [st EXCEPT ![b] = "gone"]
                            /\ wr' = [wr EXCEPT ![w].pc = "free", ![w].k = b,
                                                ![w].ret = mem.child[Leaf(b)][0]]
    <3>1. PICK key \in Key : key = wr[w].key BY TypeFacts
    <3>2. Present(key) /\ mem' = Unlinked(key) BY <1>7, <3>1 DEF RemoveUnlink
    <3>3. PICK b \in Blocks : At(k_parent(key)) = Leaf(b) /\ Unlinks(b, key, T)
      BY <3>2, UnlinkFacts
    <3>4. Leaf(b)[1] = b BY NodeFacts
    <3> QED BY <1>7, <3>1, <3>3, <3>4 DEF RemoveUnlink
  <2>3. wr'[w] = [wr[w] EXCEPT !.pc = "free", !.k = b,
                               !.ret = mem.child[Leaf(b)][0]]
    BY <2>2, <1>t
  <2>4. NewCall(w, T) BY <2>1, <2>2, <2>3 DEF NewCall, Unlinks
  <2> QED BY <2>2, <2>4, <1>t, <1>n
<1>8. CASE RemoveFree(w) BY <1>8, <1>t, <1>n DEF RemoveFree, Goto, NewCall
<1>9. CASE Lock(w) BY <1>9, <1>t, <1>n DEF Lock, Goto, NewCall
<1>10. CASE WriterReturn(w) BY <1>10, <1>t, <1>n DEF WriterReturn, NewCall
<1> QED BY <1>1, <1>2, <1>3, <1>4, <1>5, <1>6, <1>7, <1>8, <1>9, <1>10 DEF WriterNext
\* How blocks come and go.
LEMMA BlocksStep ==
    ASSUME TypeOK, NEW T \in SUBSET Nodes, NEW w \in Writers, Effect(w, T)
    PROVE  \A c \in Blocks :
              /\ st[c] = "gone" => st'[c] = "gone"
              /\ st[c] = "live" => st'[c] \in {"live", "gone"}
              /\ st[c] = "held" /\ ~(wr[w].pc = "insert" /\ wr[w].k = c) =>
                    st'[c] = "held"
<1>0. st \in [Blocks -> {"raw", "held", "live", "gone"}] BY TypeFacts
<1>1. CASE st' = st BY <1>1
<1>2. ASSUME NEW b \in Blocks, Makes(b, wr[w].key, wr[w].value)
      PROVE  \A c \in Blocks : st[c] # "raw" => st'[c] = st[c]
  BY <1>0, <1>2 DEF Makes
<1>3. ASSUME Publishes(wr[w].k, wr[w].key, T), st' = [st EXCEPT ![wr[w].k] = "live"]
      PROVE  \A c \in Blocks : /\ c # wr[w].k => st'[c] = st[c]
                               /\ c = wr[w].k => st[c] = "held"
  BY <1>0, <1>3 DEF Publishes
<1>4. ASSUME NEW b \in Blocks, Unlinks(b, wr[w].key, T), st' = [st EXCEPT ![b] = "gone"]
      PROVE  \A c \in Blocks : /\ c # b => st'[c] = st[c]
                               /\ c = b => st[c] = "live" /\ st'[c] = "gone"
  BY <1>0, <1>4 DEF Unlinks
<1> QED BY <1>1, <1>2, <1>3, <1>4 DEF Effect

\* Only an insert that has come to it publishes.
LEMMA StillWhen ==
    ASSUME NEW w \in Writers, NEW T, Effect(w, T),
           wr[w].pc \notin {"alloc", "insert", "remove", "free"}
    PROVE  mem' = mem /\ st' = st
  BY DEF Effect

\* Two inserts do not hold the same block.
LEMMA OwnBlock ==
    ASSUME InvCall, InvNew, NEW v \in Writers, NEW w \in Writers, v # w,
           Holding(v), Holding(w)
    PROVE  wr[v].k # wr[w].k
<1>1. Inserting(v) /\ Inserting(w) BY DEF Holding, Inserting
<1>2. wr[v].key # wr[w].key BY <1>1 DEF InvNew
<1> QED BY <1>2 DEF InvCall, CallOK

LEMMA CallStep ==
    ASSUME TypeOK, InvBlocks, InvCall, InvNew, NEW T \in SUBSET Nodes, Tree(T),
           NEW w \in Writers, WriterNext(w)
    PROVE  /\ wr' \in [Writers -> Calls] /\ mutex' \in Writers \cup {NULL}
           /\ InvCall'
<1>t. /\ wr \in [Writers -> Calls] /\ mutex \in Writers \cup {NULL}
      /\ wr[w] \in Calls
  BY TypeFacts
<1>a. /\ NULL \notin Writers /\ NULL \notin Values /\ NULL # "none" /\ "none" \notin Values
      /\ Keys \subseteq Key /\ Zero \in Key
  BY CritbitAssumption, KeyFacts
<1>e. Effect(w, T) BY Effects
<1>k. Keeps(w) BY <1>e, LeavesKept
<1>c. /\ NewCall(w, T) /\ wr' = [wr EXCEPT ![w] = wr'[w]]
      /\ \A v \in Writers \ {w} : wr'[v] = wr[v]
  BY NewCalls
<1>o. CallOK(w) BY DEF InvCall
<1>m. mutex' \in Writers \cup {NULL} BY <1>t, <1>c DEF NewCall
<1>1. wr'[w] \in Calls /\ CallOK(w)'
  <2>1. ASSUME NEW key \in Keys, NEW value \in Values,
               wr'[w] = [pc |-> "alloc", op |-> "insert", key |-> key,
                         value |-> value, k |-> NULL, ret |-> "none"]
        PROVE  wr'[w] \in Calls /\ CallOK(w)'
    BY <2>1, <1>a DEF Calls, CallOK, Holding, Freeing
  <2>2. ASSUME NEW key \in Keys,
               wr'[w] = [pc |-> "lock", op |-> "remove", key |-> key,
                         value |-> NULL, k |-> NULL, ret |-> "none"]
        PROVE  wr'[w] \in Calls /\ CallOK(w)'
    BY <2>2, <1>a DEF Calls, CallOK, Holding, Freeing
  <2>3. ASSUME wr[w].pc \in {"alloc", "insert", "remove"},
               NEW res \in {"ENOMEM", "0", NULL},
               wr'[w] = [wr[w] EXCEPT !.pc = "return", !.ret = res]
        PROVE  wr'[w] \in Calls /\ CallOK(w)'
    BY <2>3, <1>t, <1>a, <1>o, ZenonT(60) DEF Calls, CallOK, Holding, Freeing
  <2>4. ASSUME NEW b \in Blocks, wr[w].pc = "alloc",
               Makes(b, wr[w].key, wr[w].value),
               wr'[w] = [wr[w] EXCEPT !.k = b, !.pc = "lock"]
        PROVE  wr'[w] \in Calls /\ CallOK(w)'
    <3>1. wr'[w] \in Calls BY <2>4, <1>t DEF Calls
    <3>2. /\ wr'[w].k = b /\ wr'[w].pc = "lock" /\ wr'[w].op = wr[w].op
          /\ wr'[w].key = wr[w].key /\ wr'[w].value = wr[w].value
          /\ wr'[w].ret = wr[w].ret
      BY <2>4, <1>t DEF Calls
    <3>3. /\ st'[b] = "held" /\ mem'.path[Leaf(b)] = wr[w].key
          /\ mem'.child[Leaf(b)][0] = wr[w].value
      BY <2>4, TypeFacts DEF Makes
    <3> QED BY <3>1, <3>2, <3>3, <2>4, <1>o DEF CallOK, Holding, Freeing
  <2>5. ASSUME NEW b \in Blocks, wr[w].pc = "remove", mutex' = mutex, st[b] = "live",
               st' = [st EXCEPT ![b] = "gone"],
               wr'[w] = [wr[w] EXCEPT !.pc = "free", !.k = b,
                                      !.ret = mem.child[Leaf(b)][0]]
        PROVE  wr'[w] \in Calls /\ CallOK(w)'
    <3>1. mem.child[Leaf(b)][0] \in Values BY <2>5 DEF InvBlocks
    <3>2. wr'[w] \in Calls BY <3>1, <2>5, <1>t DEF Calls
    <3>3. /\ wr'[w].k = b /\ wr'[w].pc = "free" /\ wr'[w].op = wr[w].op
          /\ wr'[w].key = wr[w].key /\ wr'[w].value = wr[w].value
          /\ wr'[w].ret = mem.child[Leaf(b)][0]
      BY <2>5, <1>t DEF Calls
    <3>4. st'[b] = "gone" BY <2>5, TypeFacts
    <3> QED BY <3>1, <3>2, <3>3, <3>4, <2>5, <1>a, <1>o DEF CallOK, Holding, Freeing
  <2>6. ASSUME wr[w].pc = "free", wr'[w] = [wr[w] EXCEPT !.pc = "return"]
        PROVE  wr'[w] \in Calls /\ CallOK(w)'
    BY <2>6, <1>t, <1>o DEF Calls, CallOK, Holding, Freeing
  <2>7. ASSUME wr[w].pc = "lock", mutex' = w,
               wr'[w] = [wr[w] EXCEPT !.pc = wr[w].op]
        PROVE  wr'[w] \in Calls /\ CallOK(w)'
    <3>1. mem' = mem /\ st' = st BY <2>7, <1>e, StillWhen
    <3>2. wr[w].op \in {"insert", "remove"} BY <2>7, <1>o DEF CallOK
    <3>3. wr'[w] \in Calls BY <3>2, <2>7, <1>t DEF Calls
    <3>4. /\ wr'[w].k = wr[w].k /\ wr'[w].pc = wr[w].op /\ wr'[w].op = wr[w].op
          /\ wr'[w].key = wr[w].key /\ wr'[w].value = wr[w].value
          /\ wr'[w].ret = wr[w].ret
      BY <2>7, <1>t DEF Calls
    <3> QED BY <3>1, <3>2, <3>3, <3>4, <2>7, <1>o DEF CallOK, Holding, Freeing
  <2>8. ASSUME wr'[w] = NoCall PROVE wr'[w] \in Calls /\ CallOK(w)'
    BY <2>8, <1>a DEF NoCall, Calls, CallOK, Holding, Freeing
  <2> QED BY <2>1, <2>2, <2>3, <2>4, <2>5, <2>6, <2>7, <2>8, <1>c DEF NewCall
<1>2. ASSUME NEW v \in Writers \ {w} PROVE CallOK(v)'
  <2>1. wr'[v] = wr[v] /\ CallOK(v) BY <1>c DEF InvCall
  <2>2. wr[v].pc \in {"insert", "remove", "free"} => mutex' = v
    BY <2>1, <1>c, <1>a DEF CallOK, NewCall
  <2>3. Holding(v) => /\ st'[wr[v].k] = "held"
                      /\ mem'.path[Leaf(wr[v].k)] = wr[v].key
                      /\ mem'.child[Leaf(wr[v].k)][0] = wr[v].value
    <3>1. SUFFICES ASSUME Holding(v)
                   PROVE  /\ st'[wr[v].k] = "held"
                          /\ mem'.path[Leaf(wr[v].k)] = wr[v].key
                          /\ mem'.child[Leaf(wr[v].k)][0] = wr[v].value
      OBVIOUS
    <3>2. PICK b \in Blocks : /\ b = wr[v].k /\ st[b] = "held"
                              /\ mem.path[Leaf(b)] = wr[v].key
                              /\ mem.child[Leaf(b)][0] = wr[v].value
      BY <3>1, <2>1 DEF CallOK
    <3>3. ~(wr[w].pc = "insert" /\ wr[w].k = b)
      <4>1. ASSUME wr[w].pc = "insert" PROVE wr[w].k # b
        <5>1. Holding(w) BY <4>1, <1>o DEF CallOK, Holding
        <5> QED BY <5>1, <3>1, <3>2, OwnBlock
      <4> QED BY <4>1
    <3>4. st'[b] = "held" BY <3>2, <3>3, <1>e, BlocksStep
    <3> QED BY <3>2, <3>4, <1>k DEF Keeps
  <2>4. Freeing(v) => wr[v].k \in Blocks /\ st'[wr[v].k] = "gone"
    BY <2>1, <1>e, BlocksStep DEF CallOK
  <2>5. (Holding(v)' <=> Holding(v)) /\ (Freeing(v)' <=> Freeing(v))
    BY <2>1 DEF Holding, Freeing
  <2> QED BY <2>1, <2>2, <2>3, <2>4, <2>5 DEF CallOK
<1>3. InvCall' BY <1>1, <1>2 DEF InvCall
<1>4. wr' \in [Writers -> Calls] BY <1>1, <1>c, <1>t
<1> QED BY <1>m, <1>3, <1>4
-----------------------------------------------------------------------------
(* The blocks, the keys under way and the list.                            *)

LEMMA InnerKept ==
    ASSUME TypeOK, InvBlocks, NEW T \in SUBSET Nodes, Tree(T),
           NEW w \in Writers, Effect(w, T),
           NEW c \in Blocks, st'[c] \in {"raw", "held"}
    PROVE  st[c] \in {"raw", "held"} /\ IsLeaf(Inner(c))'
<1>0. /\ st \in [Blocks -> {"raw", "held", "live", "gone"}] /\ Inner(c) \in Nodes
  BY TypeFacts, NodeFacts
<1>1. st[c] \in {"raw", "held"} BY <1>0, BlocksStep
<1>2. IsLeaf(Inner(c)) BY <1>1 DEF InvBlocks
<1>3. CASE mem'.bit = mem.bit BY <1>1, <1>2, <1>3 DEF IsLeaf
<1>4. ASSUME Publishes(wr[w].k, wr[w].key, T), st' = [st EXCEPT ![wr[w].k] = "live"]
      PROVE  IsLeaf(Inner(c))'
  <2>1. wr[w].k \in Blocks /\ c # wr[w].k BY <1>0, <1>4 DEF Publishes
  <2>2. Inner(c) \in Nodes \ {Inner(wr[w].k)} BY <2>1, NodeFacts
  <2>3. mem'.bit[Inner(c)] = mem.bit[Inner(c)]
    BY <2>2, <1>4 DEF Publishes, Splice, Fork
  <2> QED BY <2>3, <1>2 DEF IsLeaf
<1>5. ASSUME NEW b \in Blocks, Unlinks(b, wr[w].key, T) PROVE mem'.bit = mem.bit
  BY <1>5 DEF Unlinks, Splice
<1> QED BY <1>1, <1>3, <1>4, <1>5 DEF Effect, Makes, Joins

LEMMA BlockStep ==
    ASSUME TypeOK, InvBlocks, InvCall, InvNew, NEW T \in SUBSET Nodes, Tree(T),
           NEW w \in Writers, WriterNext(w)
    PROVE  InvBlocks'
<1>e. Effect(w, T) BY Effects
<1>k. Keeps(w) BY <1>e, LeavesKept
<1>t. /\ st \in [Blocks -> {"raw", "held", "live", "gone"}]
      /\ wr \in [Writers -> Calls] /\ wr[w] \in Calls
  BY TypeFacts
<1>c. /\ NewCall(w, T)
      /\ \A v \in Writers \ {w} : wr'[v] = wr[v]
  BY NewCalls
<1>o. CallOK(w) BY DEF InvCall
<1>1. ASSUME NEW c \in Blocks, st'[c] = "held"
      PROVE  \E v \in Writers : Holding(v)' /\ wr'[v].k = c
  <2>1. CASE st[c] = "held"
    <3>1. PICK v \in Writers : Holding(v) /\ wr[v].k = c BY <2>1 DEF InvBlocks
    <3>2. CASE v # w
      <4>1. wr'[v] = wr[v] BY <3>2, <1>c
      <4> QED BY <4>1, <3>1 DEF Holding
    <3>3. CASE v = w
      <4>1. wr[w].pc # "insert"
        <5>1. ASSUME wr[w].pc = "insert" PROVE FALSE
          <6>1. st' = [st EXCEPT ![c] = "live"] \/ Still(w)
            BY <5>1, <3>1, <3>3, <1>e DEF Effect
          <6>2. ~Still(w)
            BY <5>1, <1>t DEF Still, CallInsert, Call, InsertNoMemory, CallRemove,
                              RemoveAbsent, Lock, WriterReturn
          <6> QED BY <6>1, <6>2, <1>1, <1>t
        <5> QED BY <5>1
      <4>2. wr[w].pc = "lock" /\ wr[w].op = "insert"
        BY <4>1, <3>1, <3>3 DEF Holding
      <4>3. wr'[w] = [wr[w] EXCEPT !.pc = wr[w].op] BY <4>2, <1>c DEF NewCall
      <4>4. wr'[w].pc = "insert" /\ wr'[w].op = "insert" /\ wr'[w].k = c
        BY <4>2, <4>3, <3>1, <3>3, <1>t DEF Calls
      <4> QED BY <4>4 DEF Holding
    <3> QED BY <3>2, <3>3
  <2>2. CASE st[c] # "held"
    <3>1. ASSUME NEW b \in Blocks, Makes(b, wr[w].key, wr[w].value),
                 wr[w].pc = "alloc",
                 wr' = [wr EXCEPT ![w].k = b, ![w].pc = "lock"]
          PROVE  Holding(w)' /\ wr'[w].k = c
      <4>1. c = b BY <3>1, <2>2, <1>1, <1>t DEF Makes
      <4>2. wr'[w].k = b /\ wr'[w].pc = "lock" /\ wr'[w].op = wr[w].op
        BY <3>1, <1>t DEF Calls
      <4>3. wr[w].op = "insert" BY <3>1, <1>o DEF CallOK
      <4> QED BY <4>1, <4>2, <4>3 DEF Holding
    <3>2. st' # st BY <2>2, <1>1
    <3>3. ~Publishes(wr[w].k, wr[w].key, T) \/ st' # [st EXCEPT ![wr[w].k] = "live"]
      BY <2>2, <1>1, <1>t DEF Publishes
    <3>4. \A b \in Blocks : st' # [st EXCEPT ![b] = "gone"] BY <2>2, <1>1, <1>t
    <3> QED BY <3>1, <3>2, <3>3, <3>4, <1>e DEF Effect
  <2> QED BY <2>1, <2>2
<1>2. ASSUME NEW c \in Blocks, st'[c] = "live"
      PROVE  mem'.child[Leaf(c)][0] \in Values
  <2>1. CASE st[c] = "live" BY <2>1, <1>k DEF Keeps, InvBlocks
  <2>2. CASE st[c] # "live"
    <3>1. wr[w].pc = "insert" /\ c = wr[w].k
      <4>1. st' # st BY <2>2, <1>2
      <4>2. \A b \in Blocks : /\ st' # [st EXCEPT ![b] = "gone"]
                              /\ st' # [st EXCEPT ![b] = "held"]
        BY <2>2, <1>2, <1>t
      <4>3. wr[w].pc = "insert" /\ st' = [st EXCEPT ![wr[w].k] = "live"]
        BY <4>1, <4>2, <1>e DEF Effect, Makes
      <4> QED BY <4>3, <2>2, <1>2, <1>t
    <3>2. Holding(w) /\ wr[w].op = "insert" BY <3>1, <1>o DEF CallOK, Holding
    <3>3. st[c] = "held" /\ mem.child[Leaf(c)][0] \in Values
      BY <3>1, <3>2, <1>o DEF CallOK
    <3> QED BY <3>3, <1>k DEF Keeps
  <2> QED BY <2>1, <2>2
<1>3. \A c \in Blocks : st'[c] \in {"raw", "held"} => IsLeaf(Inner(c))'
  BY <1>e, InnerKept
<1>4. \A c \in Blocks : IsLeaf(Leaf(c))' BY <1>k DEF Keeps
<1> QED BY <1>1, <1>2, <1>3, <1>4 DEF InvBlocks

\* The callers' rule keeps the keys of inserts apart.
LEMMA NewStep ==
    ASSUME TypeOK, InvBlocks, InvCall, InvNew, NEW T \in SUBSET Nodes, Tree(T),
           NEW w \in Writers, WriterNext(w), UniqueKeys
    PROVE  InvNew'
<1>e. Effect(w, T) BY Effects
<1>k. Keeps(w) BY <1>e, LeavesKept
<1>t. /\ st \in [Blocks -> {"raw", "held", "live", "gone"}]
      /\ wr \in [Writers -> Calls] /\ wr[w] \in Calls
  BY TypeFacts
<1>c. /\ NewCall(w, T)
      /\ \A v \in Writers \ {w} : wr'[v] = wr[v]
  BY NewCalls
<1>o. CallOK(w) BY DEF InvCall
<1>1. \A v \in Writers \ {w} : Inserting(v)' <=> Inserting(v) BY <1>c DEF Inserting
\* w goes on, or calls.
<1>2. Inserting(w)' => \/ Inserting(w) /\ wr'[w].key = wr[w].key /\ wr[w].pc # "insert"
                       \/ wr[w].pc = "idle" /\ wr'[w].op = "insert"
  <2>1. ASSUME NEW key \in Keys, NEW value,
               wr'[w] = [pc |-> "alloc", op |-> "insert", key |-> key,
                         value |-> value, k |-> NULL, ret |-> "none"]
        PROVE  wr'[w].op = "insert"
    BY <2>1
  <2>2. ASSUME NEW key \in Keys,
               wr'[w] = [pc |-> "lock", op |-> "remove", key |-> key,
                         value |-> NULL, k |-> NULL, ret |-> "none"]
        PROVE  ~Inserting(w)'
    BY <2>2 DEF Inserting
  <2>3. ASSUME NEW b \in Blocks, wr[w].pc = "alloc",
               wr'[w] = [wr[w] EXCEPT !.k = b, !.pc = "lock"]
        PROVE  wr'[w].op = wr[w].op /\ wr'[w].key = wr[w].key
    BY <2>3, <1>t DEF Calls
  <2>4. ASSUME wr[w].pc = "lock", wr'[w] = [wr[w] EXCEPT !.pc = wr[w].op]
        PROVE  wr'[w].op = wr[w].op /\ wr'[w].key = wr[w].key
    BY <2>4, <1>t DEF Calls
  <2>5. wr'[w].pc \notin {"alloc", "lock", "insert"} => ~Inserting(w)'
    BY DEF Inserting
  <2>6. ASSUME NEW v \in {"ENOMEM", "0", NULL},
               wr'[w] = [wr[w] EXCEPT !.pc = "return", !.ret = v]
        PROVE  ~Inserting(w)'
    <3>1. wr'[w].pc = "return" BY <2>6, <1>t DEF Calls
    <3> QED BY <3>1, <2>5
  <2>7. ASSUME NEW b \in Blocks, wr'[w] = [wr[w] EXCEPT !.pc = "free", !.k = b,
                                             !.ret = mem.child[Leaf(b)][0]]
        PROVE  ~Inserting(w)'
    <3>1. wr'[w].pc = "free" BY <2>7, <1>t DEF Calls
    <3> QED BY <3>1, <2>5
  <2>8. ASSUME wr'[w] = [wr[w] EXCEPT !.pc = "return"] PROVE ~Inserting(w)'
    <3>1. wr'[w].pc = "return" BY <2>8, <1>t DEF Calls
    <3> QED BY <3>1, <2>5
  <2>9. ASSUME wr'[w] = NoCall PROVE ~Inserting(w)'
    <3>1. wr'[w].pc = "idle" BY <2>9 DEF NoCall
    <3> QED BY <3>1, <2>5
  <2>10. ASSUME wr[w].pc \in {"alloc", "lock"}, wr'[w].op = wr[w].op, Inserting(w)'
         PROVE  Inserting(w) /\ wr[w].pc # "insert"
    BY <2>10 DEF Inserting
  <2>11. \/ wr[w].pc = "idle" /\ wr'[w].op = "insert"
         \/ ~Inserting(w)'
         \/ /\ wr[w].pc \in {"alloc", "lock"}
            /\ wr'[w].op = wr[w].op /\ wr'[w].key = wr[w].key
    BY <1>c, <2>1, <2>2, <2>3, <2>4, <2>6, <2>7, <2>8, <2>9 DEF NewCall
  <2> QED BY <2>10, <2>11
<1>3. wr[w].pc = "idle" => wr[w].op = "none" /\ mem' = mem /\ st' = st
  BY <1>e, <1>o, StillWhen DEF CallOK, NoCall
<1>4. ASSUME NEW c \in Blocks, st'[c] = "live"
      PROVE  /\ st[c] = "live" \/ wr[w].pc = "insert"
             /\ \/ st[c] = "live" /\ mem'.path[Leaf(c)] = mem.path[Leaf(c)]
                \/ Inserting(w) /\ mem'.path[Leaf(c)] = wr[w].key
  <2>1. CASE st[c] = "live" BY <2>1, <1>k DEF Keeps
  <2>2. CASE st[c] # "live"
    <3>1. wr[w].pc = "insert" /\ c = wr[w].k
      <4>1. st' # st BY <2>2, <1>4
      <4>2. \A b \in Blocks : /\ st' # [st EXCEPT ![b] = "gone"]
                              /\ st' # [st EXCEPT ![b] = "held"]
        BY <2>2, <1>4, <1>t
      <4>3. wr[w].pc = "insert" /\ st' = [st EXCEPT ![wr[w].k] = "live"]
        BY <4>1, <4>2, <1>e DEF Effect, Makes
      <4> QED BY <4>3, <2>2, <1>4, <1>t
    <3>2. Holding(w) /\ Inserting(w) BY <3>1, <1>o DEF CallOK, Holding, Inserting
    <3>3. st[c] = "held" /\ mem.path[Leaf(c)] = wr[w].key
      BY <3>1, <3>2, <1>o DEF CallOK
    <3> QED BY <3>1, <3>2, <3>3, <1>k DEF Keeps
  <2> QED BY <2>1, <2>2
<1>5. ASSUME NEW v \in Writers, Inserting(v)', NEW c \in Blocks, st'[c] = "live"
      PROVE  mem'.path[Leaf(c)] # wr'[v].key
  <2>1. CASE v # w
    <3>1. Inserting(v) /\ wr'[v].key = wr[v].key BY <2>1, <1>1, <1>5, <1>c
    <3> QED BY <3>1, <2>1, <1>4, <1>5 DEF InvNew
  <2>2. CASE v = w /\ wr[w].pc # "idle"
    <3>1. Inserting(w) /\ wr'[w].key = wr[w].key /\ wr[w].pc # "insert"
      BY <2>2, <1>2, <1>5
    <3>2. st[c] = "live" /\ mem'.path[Leaf(c)] = mem.path[Leaf(c)]
      BY <3>1, <1>4, <1>5, <1>k DEF Keeps
    <3> QED BY <3>1, <3>2, <2>2 DEF InvNew
  <2>3. CASE v = w /\ wr[w].pc = "idle"
    <3>1. wr[w].op = "none" /\ wr'[w].op = "insert" /\ mem' = mem /\ st' = st
      BY <2>3, <1>2, <1>3, <1>5 DEF Inserting
    <3> QED BY <3>1, <2>3, <1>5 DEF UniqueKeys
  <2> QED BY <2>1, <2>2, <2>3
<1>6. ASSUME NEW v \in Writers \ {w}, Inserting(v)', Inserting(w)'
      PROVE  wr'[v].key # wr'[w].key
  <2>1. Inserting(v) /\ wr'[v].key = wr[v].key BY <1>1, <1>6, <1>c
  <2>2. CASE wr[w].pc # "idle"
    <3>1. Inserting(w) /\ wr'[w].key = wr[w].key BY <2>2, <1>2, <1>6
    <3> QED BY <3>1, <2>1 DEF InvNew
  <2>3. CASE wr[w].pc = "idle"
    <3>1. wr[w].op = "none" /\ wr'[w].op = "insert"
      BY <2>3, <1>2, <1>3, <1>6 DEF Inserting
    <3>2. wr[v].op = "insert" BY <2>1 DEF Inserting
    <3>3. wr[v].key # wr'[w].key BY <3>1, <3>2 DEF UniqueKeys
    <3> QED BY <3>3, <2>1
  <2> QED BY <2>2, <2>3
<1>7. ASSUME NEW v \in Writers \ {w}, NEW x \in Writers \ {w}, v # x,
             Inserting(v)', Inserting(x)'
      PROVE  wr'[v].key # wr'[x].key
  BY <1>1, <1>7, <1>c DEF InvNew
<1>8. ASSUME NEW x \in Writers, Inserting(x)', NEW v \in Writers \ {x}, Inserting(v)'
      PROVE  wr'[v].key # wr'[x].key
  <2>1. CASE x = w BY <2>1, <1>6, <1>8
  <2>2. CASE v = w BY <2>2, <1>6, <1>8
  <2>3. CASE x # w /\ v # w BY <2>3, <1>7, <1>8
  <2> QED BY <2>1, <2>2, <2>3
<1> QED BY <1>5, <1>8 DEF InvNew
\* The leaves in the list.
Kept(c) == st[c] = "gone" /\ \A v \in Writers : ~(Freeing(v) /\ wr[v].k = c)

LEMMA FreedFacts ==
    /\ Freed \subseteq Nodes
    /\ \A c \in Blocks : Leaf(c) \in Freed <=> Kept(c)
    /\ \A x \in Freed : \E c \in Blocks : x = Leaf(c) /\ Kept(c)
    /\ IsFiniteSet(Freed)
<1>1. Freed = {n \in Nodes : \E c \in Blocks : n = Leaf(c) /\ Kept(c)}
  BY DEF Freed, Kept
<1>2. IsFiniteSet(Nodes)
  <2>1. IsFiniteSet({0, 1})
    <3>1. IsFiniteSet({}) BY FS_EmptySet
    <3>2. IsFiniteSet({} \cup {0}) BY <3>1, FS_AddElement
    <3>3. IsFiniteSet(({} \cup {0}) \cup {1}) BY <3>2, FS_AddElement
    <3>4. ({} \cup {0}) \cup {1} = {0, 1} OBVIOUS
    <3> QED BY <3>3, <3>4
  <2> QED BY <2>1, CritbitAssumption, FS_Product DEF Nodes
<1>3. Freed \subseteq Nodes BY <1>1
<1>4. IsFiniteSet(Freed) BY <1>2, <1>3, FS_Subset
<1>5. \A c \in Blocks : Leaf(c) \in Freed <=> Kept(c) BY <1>1, NodeFacts
<1> QED BY <1>1, <1>3, <1>4, <1>5

LEMMA FreedFactsNext ==
    /\ \A c \in Blocks : Leaf(c) \in Freed' <=> Kept(c)'
    /\ \A x \in Freed' : \E c \in Blocks : x = Leaf(c) /\ Kept(c)'
<1>1. Freed' = {n \in Nodes : \E c \in Blocks : n = Leaf(c) /\ Kept(c)'}
  BY DEF Freed, Kept, Freeing
<1> QED BY <1>1, NodeFacts

\* free_node is the only step that changes the list.
LEMMA ListStep ==
    ASSUME TypeOK, InvBlocks, InvCall, InvNew, InvList,
           NEW T \in SUBSET Nodes, Tree(T), NEW w \in Writers, WriterNext(w)
    PROVE  InvList'
<1>e. Effect(w, T) BY Effects
<1>k. Keeps(w) BY <1>e, LeavesKept
<1>t. /\ st \in [Blocks -> {"raw", "held", "live", "gone"}]
      /\ wr \in [Writers -> Calls] /\ wr[w] \in Calls
  BY TypeFacts
<1>c. \A v \in Writers \ {w} : wr'[v] = wr[v] BY NewCalls
<1>o. CallOK(w) BY DEF InvCall
<1>p. /\ ListOf(Freed, Links, mem.deleted_node, NULL)
      /\ \A n \in Nodes : Links[n] = mem.child[n][0] /\ Links'[n] = mem'.child[n][0]
  BY DEF InvList, Links
<1>1. CASE wr[w].pc # "free"
  <2>1. mem'.deleted_node = mem.deleted_node
    BY <1>e, <1>1 DEF Effect, Makes, Publishes, Unlinks, Fork, Splice
  <2>2. \/ /\ \/ st' = st
              \/ \E b \in Blocks : st[b] # "gone" /\ st' = [st EXCEPT ![b] = "held"]
              \/ \E b \in Blocks : st[b] # "gone" /\ st' = [st EXCEPT ![b] = "live"]
           /\ wr'[w].pc # "free"
        \/ \E b \in Blocks : /\ st[b] # "gone" /\ st' = [st EXCEPT ![b] = "gone"]
                             /\ wr'[w].pc = "free" /\ wr'[w].k = b
    <3>1. CASE Still(w) /\ st' = st
      <4>1. wr'[w].pc # "free"
        <5>1. CASE CallInsert(w) \/ CallRemove(w)
          BY <5>1, <1>t DEF CallInsert, CallRemove, Call, NoCall
        <5>2. CASE InsertNoMemory(w) \/ RemoveAbsent(w)
          BY <5>2, <1>t DEF InsertNoMemory, RemoveAbsent, Return, Calls
        <5>3. CASE Lock(w)
          <6>1. wr[w].op # "free" BY <1>t DEF Calls
          <6> QED BY <6>1, <5>3, <1>t DEF Lock, Goto, Calls
        <5>4. CASE WriterReturn(w) BY <5>4, <1>t DEF WriterReturn, NoCall
        <5> QED BY <5>1, <5>2, <5>3, <5>4, <3>1 DEF Still
      <4> QED BY <4>1, <3>1
    <3>2. ASSUME NEW b \in Blocks, Makes(b, wr[w].key, wr[w].value),
                 wr' = [wr EXCEPT ![w].k = b, ![w].pc = "lock"]
          PROVE  /\ st[b] # "gone" /\ st' = [st EXCEPT ![b] = "held"]
                 /\ wr'[w].pc # "free"
      BY <3>2, <1>t DEF Makes, Calls
    <3>3. ASSUME Publishes(wr[w].k, wr[w].key, T),
                 wr' = [wr EXCEPT ![w].pc = "return", ![w].ret = "0"]
          PROVE  /\ wr[w].k \in Blocks /\ st[wr[w].k] # "gone"
                 /\ wr'[w].pc # "free"
      BY <3>3, <1>t DEF Publishes, Calls
    <3>4. ASSUME NEW b \in Blocks, Unlinks(b, wr[w].key, T),
                 wr' = [wr EXCEPT ![w].pc = "free", ![w].k = b,
                                  ![w].ret = mem.child[Leaf(b)][0]]
          PROVE  st[b] # "gone" /\ wr'[w].pc = "free" /\ wr'[w].k = b
      BY <3>4, <1>t DEF Unlinks, Calls
    <3> QED BY <1>e, <1>1, <3>1, <3>2, <3>3, <3>4 DEF Effect
  <2>3. ASSUME NEW c \in Blocks PROVE Kept(c)' <=> Kept(c)
    <3>1. \A v \in Writers \ {w} : Freeing(v)' /\ wr'[v].k = c <=> Freeing(v) /\ wr[v].k = c
      BY <1>c DEF Freeing
    <3>2. ~Freeing(w) BY <1>1 DEF Freeing
    <3>3. CASE \E b \in Blocks : /\ st[b] # "gone" /\ st' = [st EXCEPT ![b] = "gone"]
                                 /\ wr'[w].pc = "free" /\ wr'[w].k = b
      <4>1. Freeing(w)' BY <3>3 DEF Freeing
      <4>2. wr'[w].k = c \/ st'[c] = st[c] BY <3>3, <1>t
      <4>3. wr'[w].k = c => st[c] # "gone" BY <3>3
      <4> QED BY <3>1, <3>2, <4>1, <4>2, <4>3 DEF Kept
    <3>4. CASE wr'[w].pc # "free" /\ (st'[c] = "gone" <=> st[c] = "gone")
      <4>1. ~Freeing(w)' BY <3>4 DEF Freeing
      <4> QED BY <3>1, <3>2, <3>4, <4>1 DEF Kept
    <3> QED BY <2>2, <3>3, <3>4, <1>t
  <2>4. Freed' = Freed BY <2>3, FreedFacts, FreedFactsNext
  <2>5. \A x \in Freed : Links'[x] = Links[x]
    <3>1. ASSUME NEW x \in Freed PROVE mem'.child[x][0] = mem.child[x][0]
      <4>1. PICK c \in Blocks : x = Leaf(c) /\ st[c] = "gone" BY FreedFacts DEF Kept
      <4> QED BY <4>1, <1>1, <1>k DEF Keeps
    <3> QED BY <3>1, <1>p, FreedFacts
  <2>6. PICK F, next, next2, head :
           F = Freed /\ next = Links /\ next2 = Links' /\ head = mem.deleted_node
    OBVIOUS
  <2>7. ListOf(F, next2, head, NULL)
    <3>1. ListOf(F, next, head, NULL) /\ \A x \in F : next2[x] = next[x]
      BY <2>6, <2>5, <1>p
    <3> QED BY <3>1, ListFrame
  <2> QED BY <2>7, <2>6, <2>1, <2>4 DEF InvList
<1>2. CASE wr[w].pc = "free"
  <2>1. ~Still(w)
    BY <1>2 DEF Still, CallInsert, Call, InsertNoMemory, CallRemove, RemoveAbsent, Lock,
                WriterReturn
  <2>2. PICK b \in Blocks : /\ b = wr[w].k /\ st[b] = "gone" /\ Joins(b) /\ st' = st
                            /\ wr' = [wr EXCEPT ![w].pc = "return"]
    BY <2>1, <1>2, <1>e DEF Effect
  <2>3. \A v \in Writers \ {w} : ~Freeing(v)
    BY <1>2, CritbitAssumption DEF InvCall, CallOK, Freeing
  <2>4. Freeing(w) /\ ~Freeing(w)' BY <1>2, <2>2, <1>t DEF Freeing, Calls
  <2>5. \A v \in Writers : ~Freeing(v)' BY <2>3, <2>4, <1>c DEF Freeing
  <2>6. \A c \in Blocks : Kept(c)' <=> Kept(c) \/ c = b
    BY <2>2, <2>3, <2>4, <2>5 DEF Kept
  <2>7. ~Kept(b) BY <2>2, <2>4 DEF Kept
  <2>8. Freed' = Freed \cup {Leaf(b)} /\ Leaf(b) \notin Freed
    BY <2>6, <2>7, FreedFacts, FreedFactsNext, NodeFacts
  <2>9. /\ mem'.deleted_node = Leaf(b) /\ Links'[Leaf(b)] = mem.deleted_node
        /\ \A x \in Freed : Links'[x] = Links[x]
    BY <2>2, <2>8, <1>p, FreedFacts, NodeFacts DEF Joins
  <2>10. PICK F, next, next2, head, n :
           /\ F = Freed /\ next = Links /\ next2 = Links' /\ head = mem.deleted_node
           /\ n = Leaf(b)
    OBVIOUS
  <2>11. ListOf(F \cup {n}, next2, n, NULL)
    <3>1. /\ ListOf(F, next, head, NULL) /\ \A x \in F : next2[x] = next[x]
          /\ n \notin F /\ next2[n] = head /\ IsFiniteSet(F)
      BY <2>8, <2>9, <2>10, <1>p, FreedFacts
    <3> QED BY <3>1, ListPush
  <2> QED BY <2>11, <2>10, <2>9, <2>8 DEF InvList
<1> QED BY <1>1, <1>2
-----------------------------------------------------------------------------
(* The tree and what readers see of it, by writers' steps.                 *)

\* A node that a step does not write.
Alike(x) == /\ mem'.path[x] = mem.path[x] /\ mem'.bit[x] = mem.bit[x]

\* Nodes that are not written keep their order.
LEMMA AlikeOrder ==
    ASSUME NEW S \in SUBSET Nodes, \A x \in S : Alike(x)
    PROVE  /\ \A x \in S : (IsLeaf(x)' <=> IsLeaf(x)) /\ Pos(x)' = Pos(x)
           /\ \A x, y \in S : /\ Under(x, y)' <=> Under(x, y)
                              /\ Leads(y, x)' <=> Leads(y, x)
<1>1. \A x \in S : (IsLeaf(x)' <=> IsLeaf(x)) /\ (x \in InnerNodes' <=> x \in InnerNodes)
  BY DEF Alike, IsLeaf, InnerNodes
<1>2. \A x \in S : Pos(x)' = Pos(x) BY <1>1 DEF Pos, Alike
<1>3. ASSUME NEW x \in S, NEW y \in S PROVE Under(x, y)' <=> Under(x, y)
  <2>1. OnPath(mem.path[x], y)' <=> OnPath(mem.path[x], y) BY DEF OnPath, Alike
  <2> QED BY <2>1, <1>1, <1>2 DEF Under, Alike
<1>4. \A x, y \in S : Leads(y, x)' <=> Leads(y, x) BY <1>3 DEF Leads
<1> QED BY <1>1, <1>2, <1>3, <1>4

\* The tree stays when none of its nodes is written.
LEMMA TreeFrame ==
    ASSUME TypeOK, NEW T \in SUBSET Nodes, Tree(T), mem'.root = mem.root,
           \A x \in T : Alike(x) /\ mem'.child[x] = mem.child[x],
           \A c \in Blocks : st'[c] = "live" <=> st[c] = "live"
    PROVE  Tree(T)'
<1>1. /\ \A x \in T : (IsLeaf(x)' <=> IsLeaf(x)) /\ Pos(x)' = Pos(x)
      /\ \A x, y \in T : /\ Under(x, y)' <=> Under(x, y)
                         /\ Leads(y, x)' <=> Leads(y, x)
  BY AlikeOrder
<1>2. Members(T)' BY <1>1 DEF Tree, Members
<1>3. Edges(T)'
  <2>1. ASSUME NEW n \in T, ~IsLeaf(n)', NEW d \in 0 .. 1
        PROVE  /\ mem'.child[n][d] \in T
               /\ Under(mem.child[n][d], n)'
               /\ mem'.path[mem'.child[n][d]][mem'.bit[n]] = d
    <3>1. ~IsLeaf(n) /\ Alike(n) /\ mem'.child[n] = mem.child[n] BY <2>1, <1>1
    <3>c. Child(mem.child[n][d], n, d, T) BY <3>1, EdgeFacts
    <3>2. PICK c \in T : c = mem.child[n][d] BY <3>c DEF Child
    <3>3. Under(c, n) /\ mem.path[c][mem.bit[n]] = d BY <3>2, <3>c DEF Child
    <3>4. Alike(c) /\ Under(c, n)' BY <3>2, <3>3, <1>1
    <3>5. mem'.child[n][d] = c BY <3>1, <3>2
    <3>6. Under(mem.child[n][d], n)' BY <3>4, <3>5
    <3> QED BY <3>1, <3>2, <3>3, <3>4, <3>5, <3>6 DEF Alike
  <2>2. \A n \in T : ~IsLeaf(n)' =>
           \A p \in Digits : p >= mem'.bit[n] => mem'.path[n][p] = 0
    BY <1>1 DEF Tree, Edges, Alike
  <2> QED BY <2>1, <2>2 DEF Edges
<1>4. Cover(T)'
  <2>1. ASSUME NEW x \in T PROVE Leads(mem.root, x)'
    <3>1. PICK t \in T : t = mem.root BY RootTop
    <3>2. Leads(t, x)' BY <3>1, <1>1 DEF Tree, Cover
    <3> QED BY <3>1, <3>2
  <2>2. ASSUME NEW x \in T, NEW n \in T, Under(x, n)'
        PROVE  Leads(mem.child[n][mem.path[x][mem.bit[n]]], x)'
    <3>1. Under(x, n) BY <2>2, <1>1
    <3>2. n \in InnerNodes /\ ~IsLeaf(n) BY <3>1 DEF Under, InnerNodes
    <3>3. mem.path[x][mem.bit[n]] \in 0 .. 1 BY <3>2, Fields, KeyFacts
    <3>e. PICK d \in 0 .. 1 : d = mem.path[x][mem.bit[n]] BY <3>3
    <3>c. Child(mem.child[n][d], n, d, T) BY <3>2, EdgeFacts
    <3>4. PICK c \in T : c = mem.child[n][mem.path[x][mem.bit[n]]]
      BY <3>c, <3>e DEF Child
    <3>5. Leads(c, x) BY <3>1, <3>4 DEF Tree, Cover
    <3>6. Leads(c, x)' BY <3>5, <1>1
    <3>7. mem'.child[n][mem'.path[x][mem'.bit[n]]] = c BY <3>4 DEF Alike
    <3> QED BY <3>6, <3>7
  <2> QED BY <2>1, <2>2 DEF Cover
<1>5. Once(T)' BY <1>1 DEF Tree, Once, Alike
<1> QED BY <1>2, <1>3, <1>4, <1>5 DEF Tree

\* The values a key has.
LEMMA CurrentIs ==
    ASSUME NEW m, NEW s, NEW key
    PROVE  /\ \A b \in Blocks : s[b] = "live" /\ m.path[Leaf(b)] = key =>
                 m.child[Leaf(b)][0] \in Current(m, s, key)
           /\ (\A b \in Blocks : s[b] = "live" => m.path[Leaf(b)] # key) =>
                 Current(m, s, key) = {NULL}
           /\ \A v \in Current(m, s, key) :
                 \/ v = NULL /\ \A b \in Blocks : s[b] = "live" => m.path[Leaf(b)] # key
                 \/ \E b \in Blocks : /\ s[b] = "live" /\ m.path[Leaf(b)] = key
                                      /\ v = m.child[Leaf(b)][0]
<1> DEFINE Here == {x \in Blocks : s[x] = "live" /\ m.path[Leaf(x)] = key}
           here == {m.child[Leaf(b)][0] : b \in Here}
<1>1. Current(m, s, key) = IF here = {} THEN {NULL} ELSE here BY DEF Current
<1>2. here = {} <=> \A b \in Blocks : s[b] = "live" => m.path[Leaf(b)] # key OBVIOUS
<1>3. \A v \in here : \E b \in Blocks : /\ s[b] = "live" /\ m.path[Leaf(b)] = key
                                        /\ v = m.child[Leaf(b)][0]
  OBVIOUS
<1>4. \A b \in Blocks : s[b] = "live" /\ m.path[Leaf(b)] = key =>
         m.child[Leaf(b)][0] \in here
  OBVIOUS
<1> HIDE DEF here
<1> QED BY <1>1, <1>2, <1>3, <1>4

\* What a writer's step does to a get.
Watches(r) ==
    /\ rd'[r].pc = rd[r].pc /\ rd'[r].key = rd[r].key /\ rd'[r].n = rd[r].n
    /\ rd'[r].res = rd[r].res
    /\ rd'[r].valid = rd[r].valid \cup Current(mem', st', rd[r].key)

LEMMA SeenFacts ==
    ASSUME TypeOK, Seen, NEW r \in Readers
    PROVE  /\ rd[r].pc # "idle" => Watches(r)
           /\ rd[r].pc = "idle" => rd'[r] = NoGet
<1>1. rd[r] \in [pc : {"idle", "root", "walk", "ret"}, key : Key, n : Ptr,
                 res : Ptr \cup Values, valid : SUBSET (Values \cup {NULL})]
  BY DEF TypeOK
<1>2. rd[r].pc # "idle" => rd'[r] = [rd[r] EXCEPT !.valid = @ \cup Current(mem', st', rd[r].key)]
  BY DEF Seen
<1> QED BY <1>1, <1>2 DEF Seen, Watches
\* A step that writes no node in sight, or takes a place of one to a node on
\* the same way.
LEMMA SightKeep ==
    ASSUME TypeOK, NEW r \in Readers, NEW F \in SUBSET Nodes, NEW T \in SUBSET Nodes,
           Sight(r, F, T), NEW T2 \in SUBSET T, Watches(r),
           \A x \in F : Alike(x),
           \A n \in F : ~IsLeaf(n) => \A d \in 0 .. 1 :
              /\ mem'.child[n][d] \in F
              /\ \A l \in T2 : Leads(mem.child[n][d], l) => Leads(mem'.child[n][d], l),
           \A n \in F : IsLeaf(n) => \/ mem'.child[n][0] = mem.child[n][0]
                                     \/ mem'.child[n][0] \notin Values,
           \A b \in Blocks : Leaf(b) \in F => st'[b] \in {"live", "gone"}
    PROVE  Sight(r, F, T2)'
<1> DEFINE key == rd[r].key
<1>w. /\ rd'[r].key = key /\ rd'[r].n = rd[r].n /\ rd[r].valid \subseteq rd'[r].valid
  BY DEF Watches
<1>k. key \in Key BY DEF TypeOK
<1>1. /\ rd[r].n \in F /\ T \subseteq F
      /\ \A b \in Blocks : /\ Leaf(b) \in F => st[b] \in {"live", "gone"}
                           /\ Inner(b) \in F => ~IsLeaf(Inner(b))
      /\ \A n \in F :
            IsLeaf(n) /\ mem.path[n] = key /\ mem.child[n][0] \in Values =>
               mem.child[n][0] \in rd[r].valid
      /\ NULL \notin rd[r].valid =>
            \A l \in T : IsLeaf(l) /\ mem.path[l] = key =>
               /\ Leads(rd[r].n, l)
               /\ \A n \in F : Under(l, n) => Leads(mem.child[n][key[mem.bit[n]]], l)
  BY DEF Sight
<1>2. /\ \A x \in F : IsLeaf(x)' <=> IsLeaf(x)
      /\ \A x, y \in F : /\ Under(x, y)' <=> Under(x, y)
                         /\ Leads(y, x)' <=> Leads(y, x)
  BY AlikeOrder
<1>3. \A b \in Blocks : Inner(b) \in F => ~IsLeaf(Inner(b))' BY <1>1, <1>2
<1>4. \A n \in F : ~IsLeaf(n)' => \A d \in 0 .. 1 : mem'.child[n][d] \in F BY <1>2
<1>5. \A n \in F : IsLeaf(n)' /\ mem'.path[n] = key /\ mem'.child[n][0] \in Values =>
         mem'.child[n][0] \in rd'[r].valid
  BY <1>1, <1>2, <1>w DEF Alike
<1>6. ASSUME NULL \notin rd'[r].valid, NEW l \in T2, IsLeaf(l)', mem'.path[l] = key
      PROVE  /\ Leads(rd[r].n, l)'
             /\ \A n \in F : Under(l, n)' => Leads(mem.child[n][key[mem.bit[n]]], l)'
  <2>1. l \in T /\ l \in F /\ IsLeaf(l) /\ mem.path[l] = key /\ NULL \notin rd[r].valid
    BY <1>6, <1>1, <1>2, <1>w DEF Alike
  <2>2. Leads(rd[r].n, l)'
    <3>1. PICK n \in F : n = rd[r].n BY <1>1
    <3>2. Leads(n, l)' BY <3>1, <2>1, <1>1, <1>2
    <3> QED BY <3>1, <3>2, <1>w
  <2>3. ASSUME NEW n \in F, Under(l, n)'
        PROVE  Leads(mem.child[n][key[mem.bit[n]]], l)'
    <3>1. Under(l, n) /\ n \in InnerNodes BY <2>1, <2>3, <1>2 DEF Under
    <3>2. PICK d \in 0 .. 1 : d = key[mem.bit[n]] BY <3>1, <1>k, Fields, KeyFacts
    <3>3. Leads(mem.child[n][d], l) BY <2>1, <3>1, <3>2, <1>1
    <3>4. ~IsLeaf(n) BY <3>1, Fields
    <3>5. PICK c \in F : c = mem'.child[n][d] BY <3>4
    <3>6. Leads(c, l) BY <3>3, <3>4, <3>5
    <3>7. Leads(c, l)' BY <3>6, <1>2, <2>1
    <3>8. mem'.bit[n] = mem.bit[n] BY DEF Alike
    <3> QED BY <3>2, <3>5, <3>7, <3>8, <1>w
  <2> QED BY <2>2, <2>3
<1>7. T2 \subseteq F /\ rd'[r].n \in F BY <1>1, <1>w
<1> QED BY <1>3, <1>4, <1>5, <1>6, <1>7, <1>w DEF Sight

\* What a step must do for the readers on their walks.
Follows(T, T2) ==
    \A r \in Readers, F \in SUBSET Nodes :
       rd[r].pc = "walk" /\ Sight(r, F, T) => \E F2 \in SUBSET Nodes : Sight(r, F2, T2)'

LEMMA ViewsStep ==
    ASSUME TypeOK, Seen, NEW T, NEW T2, Views(T), Follows(T, T2)
    PROVE  Views(T2)'
<1>1. ASSUME NEW r \in Readers, rd'[r].pc = "walk"
      PROVE  \E F2 \in SUBSET Nodes : Sight(r, F2, T2)'
  <2>1. rd[r].pc = "walk" BY <1>1, SeenFacts DEF Watches, NoGet
  <2> QED BY <2>1 DEF Views, Follows
<1> QED BY <1>1 DEF Views

\* Steps that leave the tree as it is.
LEMMA QuietStep ==
    ASSUME TypeOK, InvBlocks, NEW T \in SUBSET Nodes, Tree(T), NEW w \in Writers, Seen,
           \/ mem' = mem /\ st' = st
           \/ \E b \in Blocks : Makes(b, wr[w].key, wr[w].value)
           \/ \E b \in Blocks : st[b] = "gone" /\ Joins(b) /\ st' = st
    PROVE  Tree(T)' /\ Follows(T, T)
<1>l. \A b \in Blocks : Leaf(b) \in T <=> st[b] = "live" BY DEF Tree, Members
<1>t. st \in [Blocks -> {"raw", "held", "live", "gone"}] BY TypeFacts
<1>1. CASE mem' = mem /\ st' = st
  <2>1. Tree(T)' BY <1>1, TreeFrame DEF Alike
  <2>2. ASSUME NEW r \in Readers, NEW F \in SUBSET Nodes, rd[r].pc = "walk", Sight(r, F, T)
        PROVE  Sight(r, F, T)'
    <3>1. Watches(r) BY <2>2, SeenFacts
    <3>2. /\ \A n \in F : ~IsLeaf(n) => \A d \in 0 .. 1 : mem.child[n][d] \in F
          /\ \A b \in Blocks : Leaf(b) \in F => st[b] \in {"live", "gone"}
      BY <2>2 DEF Sight
    <3> QED BY <3>1, <3>2, <2>2, <1>1, SightKeep DEF Alike
  <2> QED BY <2>1, <2>2 DEF Follows
<1>2. ASSUME NEW b \in Blocks, Makes(b, wr[w].key, wr[w].value)
      PROVE  Tree(T)' /\ Follows(T, T)
  <2>1. /\ \A c \in Blocks : c # b => st'[c] = st[c]
        /\ st[b] = "raw" /\ st'[b] = "held" /\ mem'.root = mem.root
    BY <1>2, <1>t DEF Makes
  <2>2. \A x \in Nodes : x # Leaf(b) => Alike(x) /\ mem'.child[x] = mem.child[x]
    BY <1>2 DEF Makes, Alike
  <2>3. Leaf(b) \notin T BY <2>1, <1>l
  <2>4. Tree(T)'
    <3>1. /\ \A x \in T : Alike(x) /\ mem'.child[x] = mem.child[x]
          /\ \A c \in Blocks : st'[c] = "live" <=> st[c] = "live"
      BY <2>1, <2>2, <2>3
    <3> QED BY <3>1, <2>1, TreeFrame
  <2>5. ASSUME NEW r \in Readers, NEW F \in SUBSET Nodes, rd[r].pc = "walk", Sight(r, F, T)
        PROVE  Sight(r, F, T)'
    <3>1. Watches(r) BY <2>5, SeenFacts
    <3>2. /\ \A n \in F : ~IsLeaf(n) => \A d \in 0 .. 1 : mem.child[n][d] \in F
          /\ \A c \in Blocks : Leaf(c) \in F => st[c] \in {"live", "gone"}
      BY <2>5 DEF Sight
    <3>3. Leaf(b) \notin F BY <3>2, <2>1
    <3>4. \A x \in F : Alike(x) /\ mem'.child[x] = mem.child[x] BY <2>2, <3>3
    <3>5. \A c \in Blocks : Leaf(c) \in F => st'[c] \in {"live", "gone"}
      BY <3>2, <3>3, <2>1
    <3> QED BY <3>1, <3>2, <3>4, <3>5, <2>5, SightKeep
  <2> QED BY <2>4, <2>5 DEF Follows
<1>3. ASSUME NEW b \in Blocks, st[b] = "gone", Joins(b), st' = st
      PROVE  Tree(T)' /\ Follows(T, T)
  <2>1. /\ \A x \in Nodes : Alike(x)
        /\ \A x \in Nodes : x # Leaf(b) => mem'.child[x] = mem.child[x]
        /\ mem'.root = mem.root
    BY <1>3 DEF Joins, Alike
  <2>2. mem'.child[Leaf(b)][0] \notin Values
    <3>1. mem.deleted_node \in Ptr BY Fields
    <3> QED BY <3>1, <1>3, NodeFacts DEF Joins, Ptr
  <2>3. IsLeaf(Leaf(b)) BY DEF InvBlocks
  <2>4. Tree(T)'
    <3>1. Leaf(b) \notin T BY <1>3, <1>l
    <3>2. /\ \A x \in T : Alike(x) /\ mem'.child[x] = mem.child[x]
          /\ \A c \in Blocks : st'[c] = "live" <=> st[c] = "live"
      BY <3>1, <2>1, <1>3
    <3> QED BY <3>2, <2>1, TreeFrame
  <2>5. ASSUME NEW r \in Readers, NEW F \in SUBSET Nodes, rd[r].pc = "walk", Sight(r, F, T)
        PROVE  Sight(r, F, T)'
    <3>1. Watches(r) BY <2>5, SeenFacts
    <3>2. /\ \A n \in F : ~IsLeaf(n) => \A d \in 0 .. 1 : mem.child[n][d] \in F
          /\ \A c \in Blocks : Leaf(c) \in F => st[c] \in {"live", "gone"}
      BY <2>5 DEF Sight
    <3>3. \A n \in F : ~IsLeaf(n) => mem'.child[n] = mem.child[n] BY <2>1, <2>3
    <3>4. \A n \in F : IsLeaf(n) => \/ mem'.child[n][0] = mem.child[n][0]
                                    \/ mem'.child[n][0] \notin Values
      BY <2>1, <2>2
    <3>5. \A c \in Blocks : Leaf(c) \in F => st'[c] \in {"live", "gone"}
      BY <3>2, <1>3
    <3>6. \A n \in F : ~IsLeaf(n) => \A d \in 0 .. 1 :
             /\ mem'.child[n][d] \in F
             /\ \A l \in T : Leads(mem.child[n][d], l) => Leads(mem'.child[n][d], l)
      BY <3>2, <3>3
    <3> QED BY <3>1, <3>4, <3>5, <3>6, <2>1, <2>5, SightKeep
  <2> QED BY <2>4, <2>5 DEF Follows
<1> QED BY <1>1, <1>2, <1>3
\* A remove takes a leaf and its parent out of the tree; both stay in sight.
LEMMA UnlinkStep ==
    ASSUME TypeOK, InvBlocks, NEW T \in SUBSET Nodes, Tree(T), Seen,
           NEW b \in Blocks, NEW key, Unlinks(b, key, T), st' = [st EXCEPT ![b] = "gone"]
    PROVE  \E T2 \in SUBSET Nodes : Tree(T2)' /\ Follows(T, T2)
<1> DEFINE k == Leaf(b)
<1>t. st \in [Blocks -> {"raw", "held", "live", "gone"}] BY TypeFacts
<1>l. \A c \in Blocks : Leaf(c) \in T <=> st[c] = "live" BY DEF Tree, Members
<1>k. k \in T /\ IsLeaf(k) /\ k \in Nodes BY NodeFacts DEF Unlinks
<1>s. /\ \A c \in Blocks : c # b => st'[c] = st[c]
      /\ st'[b] = "gone" /\ st[b] = "live"
  BY <1>t DEF Unlinks
\* T2 and the step it takes, for the readers.
<1>f. ASSUME NEW T2 \in SUBSET T, NEW g, NEW s, Splice(g, s), g # Top => s \in T,
             \A x \in T, d \in 0 .. 1 : g = <<x, d>> => ~IsLeaf(x),
             \A n \in Nodes, d \in 0 .. 1 : g = <<n, d>> =>
                \A l \in T2 : Leads(mem.child[n][d], l) => Leads(s, l),
             g # Top => \E x \in T, d \in 0 .. 1 : g = <<x, d>>
      PROVE  Follows(T, T2)
  <2>1. ASSUME NEW r \in Readers, NEW F \in SUBSET Nodes, rd[r].pc = "walk", Sight(r, F, T)
        PROVE  Sight(r, F, T2)'
    <3>1. Watches(r) BY <2>1, SeenFacts
    <3>2. /\ \A n \in F : ~IsLeaf(n) => \A d \in 0 .. 1 : mem.child[n][d] \in F
          /\ \A c \in Blocks : Leaf(c) \in F => st[c] \in {"live", "gone"}
          /\ T \subseteq F
      BY <2>1 DEF Sight
    <3>3. \A x \in F : Alike(x) BY <1>f DEF Splice, Alike
    <3>4. \A c \in Blocks : Leaf(c) \in F => st'[c] \in {"live", "gone"}
      BY <3>2, <1>s
    <3>5. ASSUME NEW n \in F, ~IsLeaf(n), NEW d \in 0 .. 1
          PROVE  /\ mem'.child[n][d] \in F
                 /\ \A l \in T2 : Leads(mem.child[n][d], l) => Leads(mem'.child[n][d], l)
      <4>1. mem'.child[n][d] = IF <<n, d>> = g THEN s ELSE mem.child[n][d]
        BY <1>f DEF Splice
      <4>2. <<n, d>> # Top BY NodeFacts
      <4>3. CASE <<n, d>> = g
        <5>1. mem'.child[n][d] = s /\ s \in F BY <4>1, <4>2, <4>3, <1>f, <3>2
        <5> QED BY <5>1, <4>3, <1>f
      <4>4. CASE <<n, d>> # g BY <4>1, <4>4, <3>2, <3>5
      <4> QED BY <4>3, <4>4
    <3>6. ASSUME NEW n \in F, IsLeaf(n) PROVE mem'.child[n][0] = mem.child[n][0]
      <4>1. mem'.child[n][0] = IF <<n, 0>> = g THEN s ELSE mem.child[n][0]
        BY <1>f DEF Splice
      <4>2. <<n, 0>> # g
        <5>1. <<n, 0>> # Top BY NodeFacts
        <5>2. ASSUME <<n, 0>> = g PROVE FALSE
          <6>1. PICK x \in T, d \in 0 .. 1 : g = <<x, d>> BY <5>1, <5>2, <1>f
          <6>2. x = n BY <6>1, <5>2
          <6> QED BY <6>1, <6>2, <1>f, <3>6
        <5> QED BY <5>2
      <4> QED BY <4>1, <4>2
    <3> QED BY <3>1, <3>3, <3>4, <3>5, <3>6, <2>1, SightKeep
  <2> QED BY <2>1 DEF Follows
<1>1. CASE mem.root = k /\ Splice(Top, NULL)
  <2>1. T = {k} /\ Tree({})'
    <3>1. T = {mem.root}
      <4>1. ASSUME NEW x \in T PROVE x = k
        BY <1>1, <1>k DEF Tree, Cover, Leads, Under, InnerNodes
      <4> QED BY <4>1, <1>1, <1>k
    <3>2. \A c \in Blocks : st'[c] # "live"
      BY <3>1, <1>1, <1>l, <1>s, NodeFacts
    <3> QED BY <3>1, <3>2, <1>1, <1>k, SpliceRoot
  <2>2. Follows(T, {})
    <3>1. \A n \in Nodes, d \in 0 .. 1 : Top # <<n, d>> BY NodeFacts
    <3> QED BY <3>1, <1>1, <1>f
  <2>3. {} \in SUBSET Nodes OBVIOUS
  <2> QED BY <2>1, <2>2, <2>3
<1>2. ASSUME NEW q \in T, NEW d \in 0 .. 1, NEW g, ~IsLeaf(q), k = mem.child[q][d],
             PlaceOf(g, q, T), Splice(g, mem.child[q][1 - d])
      PROVE  \E T2 \in SUBSET Nodes : Tree(T2)' /\ Follows(T, T2)
  <2>1. PICK s : s = mem.child[q][1 - d] OBVIOUS
  <2>2. \A c \in Blocks : Leaf(c) \in T \ {k, q} <=> st'[c] = "live"
    <3>1. \A c \in Blocks : Leaf(c) # q BY <1>2 DEF InvBlocks
    <3>2. \A c \in Blocks : Leaf(c) = k <=> c = b BY NodeFacts
    <3> QED BY <3>1, <3>2, <1>l, <1>s
  <2>3. /\ s \in T \ {k, q}
        /\ \A x \in T \ {k, q} : Leads(q, x) => Leads(s, x)
        /\ Tree(T \ {k, q})'
    <3>1. Splice(g, s) BY <2>1, <1>2
    <3> HIDE DEF k
    <3>2. /\ k \in T /\ IsLeaf(k) /\ ~IsLeaf(q) /\ k = mem.child[q][d] /\ PlaceOf(g, q, T)
          /\ s = mem.child[q][1 - d]
          /\ \A c \in Blocks : Leaf(c) \in T \ {k, q} <=> st'[c] = "live"
      BY <2>1, <2>2, <1>2, <1>k
    <3> QED BY <3>1, <3>2, SpliceTree
  <2>4. Follows(T, T \ {k, q})
    <3>1. g # Top => \E x \in T, e \in 0 .. 1 : /\ g = <<x, e>> /\ ~IsLeaf(x)
                                                /\ mem.child[x][e] = q
      BY <1>2 DEF PlaceOf
    <3>2. \A n \in Nodes, e \in 0 .. 1 : <<n, e>> # Top BY NodeFacts
    <3>3. \A x \in Nodes, e \in 0 .. 1 : g = <<x, e>> => ~IsLeaf(x) /\ mem.child[x][e] = q
      BY <3>1, <3>2
    <3>4. T \ {k, q} \in SUBSET T OBVIOUS
    <3>5. PICK T2 \in SUBSET T : T2 = T \ {k, q} BY <3>4
    <3>6. /\ \A x \in T, e \in 0 .. 1 : g = <<x, e>> => ~IsLeaf(x)
          /\ \A n \in Nodes, e \in 0 .. 1 : g = <<n, e>> =>
                \A l \in T2 : Leads(mem.child[n][e], l) => Leads(s, l)
      BY <3>3, <3>5, <2>3
    <3>7. Splice(g, s) /\ s \in T BY <2>1, <2>3, <1>2
    <3> QED BY <3>1, <3>5, <3>6, <3>7, <1>f
  <2>5. T \ {k, q} \in SUBSET Nodes OBVIOUS
  <2> HIDE DEF k
  <2> QED BY <2>3, <2>4, <2>5
<1> QED BY <1>1, <1>2 DEF Unlinks
\* The first leaf.
LEMMA FirstLeaf ==
    ASSUME TypeOK, InvBlocks, InvGet, NEW T \in SUBSET Nodes, Tree(T), T = {}, Seen,
           NEW b \in Blocks, NEW key, mem.path[Leaf(b)] = key, st[b] = "held",
           IsLeaf(Leaf(b)), Splice(Top, Leaf(b)), st' = [st EXCEPT ![b] = "live"]
    PROVE  Tree({Leaf(b)})' /\ Follows(T, {Leaf(b)})
<1> DEFINE k == Leaf(b)
<1>t. st \in [Blocks -> {"raw", "held", "live", "gone"}] BY TypeFacts
<1>l. \A c \in Blocks : st[c] # "live" BY DEF Tree, Members
<1>s. /\ \A c \in Blocks : c # b => st'[c] = st[c]
      /\ st'[b] = "live"
  BY <1>t
<1>m. /\ mem'.root = k /\ mem'.path = mem.path /\ mem'.bit = mem.bit
      /\ \A x \in Nodes, e \in 0 .. 1 : mem'.child[x][e] = mem.child[x][e]
  BY NodeFacts DEF Splice
<1>o. /\ InnerNodes' = InnerNodes
      /\ \A x : IsLeaf(x)' <=> IsLeaf(x)
      /\ \A x, y : /\ Under(x, y)' <=> Under(x, y)
                   /\ Leads(y, x)' <=> Leads(y, x)
  BY <1>m, SameOrder
<1>k. k \in Nodes /\ k \notin InnerNodes BY NodeFacts DEF InnerNodes
<1>u. \A x : ~Under(x, k) /\ ~Under(x, k)' BY <1>k, <1>o DEF Under
<1>1. Tree({k})'
  <2>1. Members({k})' BY <1>l, <1>s, <1>m, NodeFacts DEF Members
  <2>2. Edges({k})' BY <1>o DEF Edges
  <2>3. Cover({k})'
    <3>1. Leads(k, k)' BY DEF Leads
    <3>2. Leads(mem.root, k)' BY <3>1, <1>m
    <3>3. ~Under(k, k)' BY <1>u
    <3> QED BY <3>2, <3>3 DEF Cover
  <2>4. Once({k})' BY DEF Once
  <2> QED BY <2>1, <2>2, <2>3, <2>4 DEF Tree
<1>2. ASSUME NEW r \in Readers, NEW F \in SUBSET Nodes, rd[r].pc = "walk", Sight(r, F, T)
      PROVE  Sight(r, F \cup {k}, {k})'
  <2>w. /\ rd'[r].key = rd[r].key /\ rd'[r].n = rd[r].n
        /\ rd'[r].valid = rd[r].valid \cup Current(mem', st', rd[r].key)
    BY <1>2, SeenFacts DEF Watches
  <2>1. /\ rd[r].n \in F
        /\ \A c \in Blocks : /\ Leaf(c) \in F => st[c] \in {"live", "gone"}
                             /\ Inner(c) \in F => ~IsLeaf(Inner(c))
        /\ \A n \in F : ~IsLeaf(n) => \A d \in 0 .. 1 : mem.child[n][d] \in F
        /\ \A n \in F :
              IsLeaf(n) /\ mem.path[n] = rd[r].key /\ mem.child[n][0] \in Values =>
                 mem.child[n][0] \in rd[r].valid
    BY <1>2 DEF Sight
  \* The tree was empty in the time of the get.
  <2>2. NULL \in rd[r].valid
    <3>1. Current(mem, st, rd[r].key) = {NULL} BY <1>l, CurrentIs
    <3> QED BY <3>1, <1>2 DEF InvGet
  <2>3. \A c \in Blocks : /\ Leaf(c) \in F \cup {k} => st'[c] \in {"live", "gone"}
                          /\ Inner(c) \in F \cup {k} => ~IsLeaf(Inner(c))'
    BY <2>1, <1>s, <1>o, NodeFacts
  <2>4. \A n \in F \cup {k} : ~IsLeaf(n)' => \A d \in 0 .. 1 : mem'.child[n][d] \in F \cup {k}
    BY <2>1, <1>o, <1>m
  <2>5. ASSUME NEW n \in F \cup {k}, IsLeaf(n)', mem'.path[n] = rd[r].key,
               mem'.child[n][0] \in Values
        PROVE  mem'.child[n][0] \in rd'[r].valid
    <3>1. CASE n \in F BY <3>1, <2>1, <2>5, <2>w, <1>m, <1>o
    <3>2. CASE n = k
      <4>1. mem'.child[Leaf(b)][0] \in Current(mem', st', rd[r].key)
        BY <3>2, <2>5, <1>s, CurrentIs
      <4> QED BY <4>1, <3>2, <2>w
    <3> QED BY <3>1, <3>2
  <2>6. rd'[r].n \in F \cup {k} /\ {k} \subseteq F \cup {k} /\ NULL \in rd'[r].valid
    BY <2>1, <2>2, <2>w
  <2> HIDE DEF k
  <2> QED BY <2>3, <2>4, <2>5, <2>6, <2>w DEF Sight
<1>3. \A F \in SUBSET Nodes : F \cup {k} \in SUBSET Nodes BY <1>k
<1> HIDE DEF k
<1>4. Follows(T, {k}) BY <1>2, <1>3 DEF Follows
<1> QED BY <1>1, <1>4 DEF k

\* Any other leaf, with its new parent.
LEMMA ForkStep ==
    ASSUME TypeOK, InvBlocks, InvGet, NEW T \in SUBSET Nodes, Tree(T), Seen,
           NEW b \in Blocks, NEW key \in Key, NEW k \in Nodes, NEW m \in Nodes,
           k = Leaf(b), m = Inner(b), k \notin T, m \notin T,
           IsLeaf(k), IsLeaf(m), mem.path[k] = key, st[b] = "held",
           NEW n \in T, NEW p, NEW at,
           \A x \in T : IsLeaf(x) => mem.path[x] # key,
           Forks(p, n, key, at, T), Fork(p, n, k, m, key, at),
           st' = [st EXCEPT ![b] = "live"]
    PROVE  Tree(T \cup {k, m})' /\ Follows(T, T \cup {k, m})
<1> DEFINE T2 == T \cup {k, m}
<1>t. st \in [Blocks -> {"raw", "held", "live", "gone"}] BY TypeFacts
<1>l. \A c \in Blocks : Leaf(c) \in T <=> st[c] = "live" BY DEF Tree, Members
<1>s. /\ \A c \in Blocks : c # b => st'[c] = st[c]
      /\ st'[b] = "live"
  BY <1>t
<1>k. k # m BY NodeFacts
<1>1. Tree(T2)'
  <2>1. \A c \in Blocks : Leaf(c) \in T2 <=> st'[c] = "live"
    BY <1>l, <1>s, NodeFacts
  <2> QED BY <2>1, <1>k, ForkTree
<1>2. Forked(n, k, m, key, at, T) BY <1>k, ForkNodes
<1>o. /\ \A x \in Nodes \ {m} : IsLeaf(x)' <=> IsLeaf(x)
      /\ ~IsLeaf(m)'
      /\ \A x, y \in Nodes \ {m} : /\ Under(x, y)' <=> Under(x, y)
                                   /\ Leads(y, x)' <=> Leads(y, x)
      /\ key[at] \in 0 .. 1
      /\ \A x \in T : Leads(n, x) => Leads(m, x)'
  BY <1>2 DEF Forked
<1>p. \A x \in Nodes, e \in 0 .. 1 : p = <<x, e>> => x \in T /\ ~IsLeaf(x) /\ mem.child[x][e] = n
  <2>1. ASSUME NEW x \in Nodes, NEW e \in 0 .. 1, p = <<x, e>>
        PROVE  x \in T /\ ~IsLeaf(x) /\ mem.child[x][e] = n
    <3>1. p # Top BY <2>1, NodeFacts
    <3>2. PICK q \in T : /\ ~IsLeaf(q) /\ p = <<q, key[mem.bit[q]]>>
                         /\ n = mem.child[q][key[mem.bit[q]]]
      BY <3>1 DEF Forks
    <3>3. q = x /\ key[mem.bit[q]] = e
      <4>1. PICK d : d = key[mem.bit[q]] OBVIOUS
      <4>2. <<x, e>> = <<q, d>> BY <2>1, <3>2, <4>1
      <4>3. q = x /\ d = e BY <4>2
      <4> QED BY <4>1, <4>3
    <3> QED BY <3>2, <3>3
  <2> QED BY <2>1
<1>m. /\ \A x \in Nodes \ {m}, e \in 0 .. 1 :
            mem'.child[x][e] = IF <<x, e>> = p THEN m ELSE mem.child[x][e]
      /\ \A e \in 0 .. 1 : mem'.child[m][e] \in {k, n}
      /\ \A x \in Nodes \ {m} : mem'.path[x] = mem.path[x] /\ mem'.bit[x] = mem.bit[x]
  <2>1. /\ mem'.child[m][key[at]] = k /\ mem'.child[m][1 - key[at]] = n
        /\ \A x \in Nodes \ {m}, e \in 0 .. 1 :
              mem'.child[x][e] = IF <<x, e>> = p THEN m ELSE mem.child[x][e]
        /\ \A x \in Nodes \ {m} : mem'.path[x] = mem.path[x] /\ mem'.bit[x] = mem.bit[x]
    BY DEF Fork
  <2>2. \A e \in 0 .. 1 : e = key[at] \/ e = 1 - key[at] BY <1>o
  <2> QED BY <2>1, <2>2
<1>3. ASSUME NEW r \in Readers, NEW F \in SUBSET Nodes, rd[r].pc = "walk", Sight(r, F, T)
      PROVE  Sight(r, F \cup {k, m}, T2)'
  <2> DEFINE F2 == F \cup {k, m}
             look == rd[r].key
  <2>w. /\ rd'[r].key = look /\ rd'[r].n = rd[r].n
        /\ rd'[r].valid = rd[r].valid \cup Current(mem', st', look)
    BY <1>3, SeenFacts DEF Watches
  <2>k. look \in Key BY DEF TypeOK
  <2>1. /\ rd[r].n \in F /\ T \subseteq F
        /\ \A c \in Blocks : /\ Leaf(c) \in F => st[c] \in {"live", "gone"}
                             /\ Inner(c) \in F => ~IsLeaf(Inner(c))
        /\ \A x \in F : ~IsLeaf(x) => \A d \in 0 .. 1 : mem.child[x][d] \in F
        /\ \A x \in F :
              IsLeaf(x) /\ mem.path[x] = look /\ mem.child[x][0] \in Values =>
                 mem.child[x][0] \in rd[r].valid
        /\ NULL \notin rd[r].valid =>
              \A l \in T : IsLeaf(l) /\ mem.path[l] = look =>
                 /\ Leads(rd[r].n, l)
                 /\ \A x \in F : Under(l, x) => Leads(mem.child[x][look[mem.bit[x]]], l)
    BY <1>3 DEF Sight
  <2>f. k \notin F /\ m \notin F BY <2>1
  <2>3. \A c \in Blocks : /\ Leaf(c) \in F2 => st'[c] \in {"live", "gone"}
                          /\ Inner(c) \in F2 => ~IsLeaf(Inner(c))'
    BY <2>1, <2>f, <1>s, <1>o, NodeFacts
  <2>4. ASSUME NEW x \in F2, ~IsLeaf(x)', NEW d \in 0 .. 1 PROVE mem'.child[x][d] \in F2
    <3>1. CASE x = m BY <3>1, <1>m, <2>1
    <3>2. CASE x # m
      <4>1. x \in F /\ ~IsLeaf(x) BY <3>2, <2>4, <1>o, <1>k
      <4>2. mem.child[x][d] \in F BY <4>1, <2>1
      <4> QED BY <4>1, <4>2, <3>2, <1>m
    <3> QED BY <3>1, <3>2
  <2>5. ASSUME NEW x \in F2, IsLeaf(x)', mem'.path[x] = look, mem'.child[x][0] \in Values
        PROVE  mem'.child[x][0] \in rd'[r].valid
    <3>1. x # m BY <2>5, <1>o
    <3>2. CASE x = k
      <4>1. mem'.child[Leaf(b)][0] \in Current(mem', st', look)
        BY <3>2, <2>5, <1>s, CurrentIs
      <4> QED BY <4>1, <3>2, <2>w
    <3>3. CASE x \in F
      <4>1. IsLeaf(x) /\ mem.path[x] = look BY <3>1, <3>3, <2>5, <1>o, <1>m
      <4>2. mem'.child[x][0] = mem.child[x][0]
        <5>1. p # <<x, 0>> BY <4>1, <1>p, <3>3
        <5> QED BY <5>1, <3>1, <3>3, <1>m
      <4> QED BY <4>1, <4>2, <3>3, <2>1, <2>5, <2>w
    <3> QED BY <3>1, <3>2, <3>3
  <2>6. ASSUME NULL \notin rd'[r].valid, NEW l \in T2, IsLeaf(l)', mem'.path[l] = look
        PROVE  /\ Leads(rd[r].n, l)'
               /\ \A x \in F2 : Under(l, x)' => Leads(mem.child[x][look[mem.bit[x]]], l)'
    <3>1. l # m BY <2>6, <1>o
    <3>2. NULL \notin rd[r].valid BY <2>6, <2>w
    <3>3. l # k
      <4>1. ASSUME l = k PROVE FALSE
        <5>1. key = look BY <4>1, <2>6, <1>m, <1>k
        <5>2. \A c \in Blocks : st[c] = "live" => mem.path[Leaf(c)] # look
          BY <5>1, <1>l DEF InvBlocks
        <5>3. Current(mem, st, look) = {NULL} BY <5>2, CurrentIs
        <5>4. Current(mem, st, look) \subseteq rd[r].valid BY <1>3 DEF InvGet
        <5> QED BY <5>3, <5>4, <3>2
      <4> QED BY <4>1
    <3>4. l \in T /\ l \in Nodes \ {m} /\ IsLeaf(l) /\ mem.path[l] = look
      BY <3>1, <3>3, <2>6, <1>o, <1>m
    <3>5. Leads(rd[r].n, l)'
      <4>1. PICK y \in F : y = rd[r].n BY <2>1
      <4>2. Leads(y, l)' BY <4>1, <3>2, <3>4, <2>1, <2>f, <1>o
      <4> QED BY <4>1, <4>2, <2>w
    <3>6. ASSUME NEW x \in F2, Under(l, x)'
          PROVE  Leads(mem.child[x][look[mem.bit[x]]], l)'
      <4>1. CASE x = m
        <5>1. m \in T2 /\ l \in T2 OBVIOUS
        <5>2. Leads(mem.child[m][mem.path[l][mem.bit[m]]], l)'
          BY <5>1, <4>1, <3>6, <1>1 DEF Tree, Cover
        <5>3. mem'.path[l] = rd'[r].key BY <2>6, <2>w
        <5> QED BY <5>2, <5>3, <4>1
      <4>2. CASE x = k
        <5>1. ~IsLeaf(k)' BY <4>2, <3>6 DEF Under, InnerNodes
        <5> QED BY <5>1, <1>o, <1>k
      <4>3. CASE x \in F
        <5>1. x \in Nodes \ {m} BY <4>3, <2>f
        <5>2. Under(l, x) /\ x \in InnerNodes BY <5>1, <3>4, <3>6, <1>o DEF Under
        <5>3. PICK d \in 0 .. 1 : d = look[mem.bit[x]] BY <5>2, <2>k, Fields, KeyFacts
        <5>4. Leads(mem.child[x][d], l) BY <5>2, <5>3, <4>3, <3>2, <3>4, <2>1
        <5>5. mem'.bit[x] = mem.bit[x] BY <5>1, <1>m
        <5>6. CASE p = <<x, d>>
          <6>1. mem'.child[x][d] = m BY <5>6, <5>1, <1>m
          <6>2. mem.child[x][d] = n BY <5>6, <5>1, <1>p
          <6>3. Leads(m, l)' BY <6>2, <5>4, <3>4, <1>o
          <6> QED BY <6>1, <6>3, <5>3, <5>5, <2>w
        <5>7. CASE p # <<x, d>>
          <6>1. ~IsLeaf(x) BY <5>2, Fields
          <6>2. PICK c \in F : c = mem.child[x][d] BY <6>1, <4>3, <2>1
          <6>3. mem'.child[x][d] = c BY <6>2, <5>7, <5>1, <1>m
          <6>4. Leads(c, l) /\ c \in Nodes \ {m} BY <6>2, <5>4, <2>f
          <6>5. Leads(c, l)' BY <6>4, <3>4, <1>o
          <6> QED BY <6>3, <6>5, <5>3, <5>5, <2>w
        <5> QED BY <5>6, <5>7
      <4> QED BY <4>1, <4>2, <4>3
    <3> QED BY <3>5, <3>6
  <2>7. rd'[r].n \in F2 /\ T2 \subseteq F2 BY <2>1, <2>w
  <2> HIDE DEF F2, T2
  <2>8. Sight(r, F2, T2)' BY <2>3, <2>4, <2>5, <2>6, <2>7, <2>w DEF Sight
  <2> QED BY <2>8 DEF F2
<1>4. \A F \in SUBSET Nodes : F \cup {k, m} \in SUBSET Nodes OBVIOUS
<1> HIDE DEF T2
<1>5. Follows(T, T2) BY <1>3, <1>4 DEF Follows
<1> QED BY <1>1, <1>5 DEF T2
\* Every step of a writer leaves a tree, and readers that find their way.
LEMMA TreeStep ==
    ASSUME TypeOK, InvBlocks, InvGet, NEW T \in SUBSET Nodes, Tree(T), Seen,
           NEW w \in Writers, Effect(w, T)
    PROVE  \E T2 \in SUBSET Nodes : Tree(T2)' /\ Follows(T, T2)
<1>1. CASE mem' = mem /\ st' = st BY <1>1, QuietStep
<1>2. CASE \E b \in Blocks : Makes(b, wr[w].key, wr[w].value) BY <1>2, QuietStep
<1>3. CASE wr[w].k \in Blocks /\ st[wr[w].k] = "gone" /\ Joins(wr[w].k) /\ st' = st
  BY <1>3, QuietStep
<1>4. ASSUME NEW b \in Blocks, Unlinks(b, wr[w].key, T), st' = [st EXCEPT ![b] = "gone"]
      PROVE  \E T2 \in SUBSET Nodes : Tree(T2)' /\ Follows(T, T2)
  BY <1>4, UnlinkStep
<1>5. ASSUME Publishes(wr[w].k, wr[w].key, T), st' = [st EXCEPT ![wr[w].k] = "live"]
      PROVE  \E T2 \in SUBSET Nodes : Tree(T2)' /\ Follows(T, T2)
  <2>1. PICK b \in Blocks, key \in Key : b = wr[w].k /\ key = wr[w].key
    BY <1>5 DEF Publishes
  <2>2. PICK k \in Nodes, m \in Nodes : k = Leaf(b) /\ m = Inner(b) BY NodeFacts
  <2>3. /\ st[b] = "held" /\ mem.path[k] = key /\ IsLeaf(k) /\ IsLeaf(m)
        /\ k \notin T /\ m \notin T /\ \A x \in T : IsLeaf(x) => mem.path[x] # key
        /\ st' = [st EXCEPT ![b] = "live"]
    BY <1>5, <2>1, <2>2 DEF Publishes
  <2>4. CASE T = {} /\ Splice(Top, k)
    <3>1. Tree({k})' /\ Follows(T, {k}) BY <2>2, <2>3, <2>4, FirstLeaf
    <3>2. {k} \in SUBSET Nodes OBVIOUS
    <3> QED BY <3>1, <3>2
  <2>5. ASSUME NEW n \in T, NEW p, NEW at, Forks(p, n, key, at, T), Fork(p, n, k, m, key, at)
        PROVE  \E T2 \in SUBSET Nodes : Tree(T2)' /\ Follows(T, T2)
    <3>1. Tree(T \cup {k, m})' /\ Follows(T, T \cup {k, m}) BY <2>2, <2>3, <2>5, ForkStep
    <3>2. T \cup {k, m} \in SUBSET Nodes OBVIOUS
    <3> QED BY <3>1, <3>2
  <2>6. \/ T = {} /\ Splice(Top, k)
        \/ \E n \in T : \E p, at : Forks(p, n, key, at, T) /\ Fork(p, n, k, m, key, at)
    BY <1>5, <2>1, <2>2 DEF Publishes
  <2> QED BY <2>4, <2>5, <2>6
<1> QED BY <1>1, <1>2, <1>3, <1>4, <1>5 DEF Effect

Gets == [pc : {"idle", "root", "walk", "ret"}, key : Key, n : Ptr,
         res : Ptr \cup Values, valid : SUBSET (Values \cup {NULL})]

LEMMA NoGetIs == NoGet \in Gets /\ NoGet.pc = "idle" BY KeyFacts DEF NoGet, Gets, Ptr

\* Values are what the leaves of the tree hold.
LEMMA CurrentType ==
    ASSUME NEW m, NEW s, NEW key,
           \A b \in Blocks : s[b] = "live" => m.child[Leaf(b)][0] \in Values
    PROVE  Current(m, s, key) \in SUBSET (Values \cup {NULL})
<1>1. ASSUME NEW v \in Current(m, s, key) PROVE v \in Values \cup {NULL}
  <2>1. CASE v = NULL BY <2>1
  <2>2. CASE v # NULL
    <3>1. PICK b \in Blocks : s[b] = "live" /\ v = m.child[Leaf(b)][0]
      BY <2>2, CurrentIs
    <3> QED BY <3>1
  <2> QED BY <2>1, <2>2
<1> QED BY <1>1

\* A get under way learns the new value, whatever a writer does.
LEMMA GetWatches ==
    ASSUME TypeOK, InvGet, InvBlocks', Seen
    PROVE  rd' \in [Readers -> Gets] /\ InvGet'
<1>t. rd \in [Readers -> Gets] BY DEF TypeOK, Gets
<1>1. ASSUME NEW r \in Readers
      PROVE  /\ rd'[r] \in Gets
             /\ rd'[r].pc = "idle" => rd'[r] = NoGet
             /\ rd'[r].pc # "idle" => /\ rd'[r].key \in Keys
                                      /\ Current(mem', st', rd'[r].key) \subseteq rd'[r].valid
             /\ rd'[r].pc = "root" => rd'[r].res = NULL
             /\ rd'[r].pc = "ret" /\ rd'[r].res \notin rd'[r].valid =>
                   NULL \in rd'[r].valid /\ rd'[r].res \in Nodes
  <2>1. CASE rd[r].pc = "idle" BY <2>1, SeenFacts, NoGetIs
  <2>2. CASE rd[r].pc # "idle"
    <3>1. PICK V : V = Current(mem', st', rd[r].key) OBVIOUS
    <3>2. V \in SUBSET (Values \cup {NULL})
      <4>1. PICK m, s, key : m = mem' /\ s = st' /\ key = rd[r].key OBVIOUS
      <4>2. \A b \in Blocks : s[b] = "live" => m.child[Leaf(b)][0] \in Values
        BY <4>1 DEF InvBlocks
      <4>3. Current(m, s, key) \in SUBSET (Values \cup {NULL}) BY <4>2, CurrentType
      <4> QED BY <3>1, <4>1, <4>3
    <3>3. rd'[r] = [rd[r] EXCEPT !.valid = @ \cup V] BY <2>2, <3>1 DEF Seen
    <3>4. /\ rd'[r].pc = rd[r].pc /\ rd'[r].key = rd[r].key /\ rd'[r].res = rd[r].res
          /\ rd'[r].valid = rd[r].valid \cup V
      BY <2>2, <3>1, SeenFacts DEF Watches
    <3>5. rd'[r] \in Gets BY <3>2, <3>3, <1>t DEF Gets
    <3>6. /\ rd[r].key \in Keys
          /\ rd[r].pc = "root" => rd[r].res = NULL
          /\ rd[r].pc = "ret" /\ rd[r].res \notin rd[r].valid =>
                NULL \in rd[r].valid /\ rd[r].res \in Nodes
      BY <2>2 DEF InvGet
    <3> QED BY <3>1, <3>4, <3>5, <3>6, <2>2
  <2> QED BY <2>1, <2>2
<1>2. rd' \in [Readers -> Gets]
  <2>1. \E f : rd' = [r \in Readers |-> f[r]]
    <3>1. rd' = [r \in Readers |-> rd'[r]] BY DEF Seen
    <3> QED BY <3>1
  <2> QED BY <2>1, <1>1
<1>3. InvGet' BY <1>1 DEF InvGet
<1> QED BY <1>2, <1>3

\* What a step does that a writer takes.
LEMMA WriterKeeps ==
    ASSUME TypeOK, up, UpInv, NEW w \in Writers, WriterStep(w), UniqueKeys
    PROVE  TypeOK' /\ up' /\ UpInv'
<1>1. /\ InvBlocks /\ InvCall /\ InvNew /\ InvList /\ InvGet
      /\ WriterNext(w) /\ Seen /\ up' = up
  BY DEF UpInv, WriterStep
<1>2. PICK T \in SUBSET Nodes : Tree(T) /\ Views(T) BY DEF UpInv
<1>3. Effect(w, T) BY <1>1, <1>2, Effects
<1>4. InvBlocks' BY <1>1, <1>2, BlockStep
<1>5. wr' \in [Writers -> Calls] /\ mutex' \in Writers \cup {NULL} /\ InvCall'
  BY <1>1, <1>2, CallStep
<1>6. InvNew' BY <1>1, <1>2, NewStep
<1>7. InvList' BY <1>1, <1>2, ListStep
<1>8. rd' \in [Readers -> Gets] /\ InvGet' BY <1>1, <1>4, GetWatches
<1>9. PICK T2 \in SUBSET Nodes : Tree(T2)' /\ Follows(T, T2) BY <1>1, <1>2, <1>3, TreeStep
<1>10. Views(T2)' BY <1>1, <1>2, <1>9, ViewsStep
<1>11. mem' \in Memory /\ st' \in [Blocks -> {"raw", "held", "live", "gone"}]
  BY <1>1, <1>2, <1>3, LeavesKept DEF Keeps
<1>12. inserts' \in Nat /\ removes' \in Nat BY <1>1, <1>2, NewCalls
<1>13. TypeOK'
  BY <1>1, <1>5, <1>8, <1>11, <1>12 DEF TypeOK, Memory, Calls, Gets
<1> QED BY <1>1, <1>4, <1>5, <1>6, <1>7, <1>8, <1>9, <1>10, <1>13 DEF UpInv
-----------------------------------------------------------------------------
(* A get walks on.                                                         *)

\* The fields of a get.
LEMMA GetType ==
    ASSUME TypeOK, NEW r \in Readers
    PROVE  /\ rd \in [Readers -> Gets] /\ rd[r] \in Gets
           /\ rd[r].key \in Key /\ rd[r].n \in Ptr /\ rd[r].res \in Ptr \cup Values
  BY DEF TypeOK, Gets

\* One step down, over nodes of the tree or unlinked ones.
LEMMA SightDown ==
    ASSUME TypeOK, NEW T \in SUBSET Nodes, NEW F \in SUBSET Nodes, NEW r \in Readers,
           Sight(r, F, T), ~IsLeaf(rd[r].n), NEW c,
           c = mem.child[rd[r].n][Dir(rd[r].n, rd[r].key)]
    PROVE  /\ c \in F
           /\ NULL \notin rd[r].valid =>
                 \A l \in T : IsLeaf(l) /\ mem.path[l] = rd[r].key => Leads(c, l)
<1>1. PICK n \in F : n = rd[r].n BY DEF Sight
<1>2. PICK d \in 0 .. 1 : d = rd[r].key[mem.bit[n]]
  BY <1>1, GetType, Fields, KeyFacts
<1>3. c = mem.child[n][d] BY <1>1, <1>2 DEF Dir
<1>4. c \in F BY <1>1, <1>3 DEF Sight
<1>5. ASSUME NULL \notin rd[r].valid, NEW l \in T, IsLeaf(l), mem.path[l] = rd[r].key
      PROVE  Leads(c, l)
  <2>1. Leads(n, l) /\ (Under(l, n) => Leads(mem.child[n][rd[r].key[mem.bit[n]]], l))
    BY <1>1, <1>5 DEF Sight
  <2>2. n # l BY <1>1, <1>5
  <2> QED BY <2>1, <2>2, <1>2, <1>3 DEF Leads
<1> QED BY <1>4, <1>5

\* The leaf that a get has come to.
LEMMA SightLeaf ==
    ASSUME TypeOK, InvBlocks, NEW T \in SUBSET Nodes, Tree(T), NEW F \in SUBSET Nodes,
           NEW r \in Readers, Sight(r, F, T), IsLeaf(rd[r].n),
           Current(mem, st, rd[r].key) \subseteq rd[r].valid,
           NEW v, v = Value(rd[r].n, rd[r].key), v \notin rd[r].valid
    PROVE  NULL \in rd[r].valid /\ v \in Nodes
<1>1. PICK n \in F : n = rd[r].n BY DEF Sight
<1>2. IsLeaf(n) /\ v = IF mem.path[n] = rd[r].key THEN mem.child[n][0] ELSE NULL
  BY <1>1 DEF Value
<1>3. mem.path[n] = rd[r].key => v \notin Values BY <1>1, <1>2 DEF Sight
<1>4. v = NULL \/ (mem.path[n] = rd[r].key /\ v \in Nodes)
  <2>1. mem.child[n][0] \in Ptr \cup Values BY Fields
  <2> QED BY <2>1, <1>2, <1>3 DEF Ptr
<1>5. ASSUME NULL \notin rd[r].valid PROVE FALSE
  <2>1. PICK b \in Blocks : st[b] = "live" /\ mem.path[Leaf(b)] = rd[r].key
    BY <1>5, CurrentIs
  <2>2. PICK l \in T : l = Leaf(b) BY <2>1 DEF Tree, Members
  <2>3. IsLeaf(l) /\ mem.child[l][0] \in Values BY <2>1, <2>2 DEF InvBlocks
  <2>4. Leads(n, l) BY <1>1, <1>5, <2>1, <2>2, <2>3 DEF Sight
  <2>5. n = l BY <2>4, <1>2 DEF Leads, Under, InnerNodes
  <2> QED BY <2>1, <2>2, <2>3, <2>5, <1>2, <1>3
<1> QED BY <1>4, <1>5

\* A get elsewhere does not notice.
LEMMA SightSame ==
    ASSUME mem' = mem, st' = st, NEW T, NEW F, NEW r, Sight(r, F, T),
           rd'[r].key = rd[r].key, rd'[r].valid = rd[r].valid, rd'[r].n \in F,
           NULL \notin rd[r].valid =>
              \A l \in T : IsLeaf(l) /\ mem.path[l] = rd[r].key => Leads(rd'[r].n, l)
    PROVE  Sight(r, F, T)'
<1>1. /\ \A x : IsLeaf(x)' <=> IsLeaf(x)
      /\ \A x, y : /\ Under(x, y)' <=> Under(x, y)
                   /\ Leads(y, x)' <=> Leads(y, x)
  BY SameOrder
<1>2. \A l : Leads(rd[r].n, l)' <=> Leads(rd'[r].n, l)
  <2>1. PICK n : n = rd'[r].n OBVIOUS
  <2>2. \A l : Leads(n, l)' <=> Leads(n, l) BY <1>1
  <2> QED BY <2>1, <2>2
<1>3. \A l, n : Leads(mem.child[n][rd[r].key[mem.bit[n]]], l)'
                  <=> Leads(mem.child[n][rd[r].key[mem.bit[n]]], l)
  <2>1. ASSUME NEW n, NEW l
        PROVE  Leads(mem.child[n][rd[r].key[mem.bit[n]]], l)'
                  <=> Leads(mem.child[n][rd[r].key[mem.bit[n]]], l)
    <3>1. PICK c : c = mem.child[n][rd[r].key[mem.bit[n]]] OBVIOUS
    <3>2. c = mem'.child[n][rd'[r].key[mem'.bit[n]]] BY <3>1
    <3>3. Leads(c, l)' <=> Leads(c, l) BY <1>1
    <3> QED BY <3>1, <3>2, <3>3
  <2> QED BY <2>1
<1>4. /\ T \subseteq F
      /\ \A b \in Blocks : /\ Leaf(b) \in F => st[b] \in {"live", "gone"}
                           /\ Inner(b) \in F => ~IsLeaf(Inner(b))
      /\ \A n \in F : ~IsLeaf(n) => \A d \in 0 .. 1 : mem.child[n][d] \in F
      /\ \A n \in F :
            IsLeaf(n) /\ mem.path[n] = rd[r].key /\ mem.child[n][0] \in Values =>
               mem.child[n][0] \in rd[r].valid
      /\ NULL \notin rd[r].valid =>
            \A l \in T : IsLeaf(l) /\ mem.path[l] = rd[r].key =>
               /\ Leads(rd'[r].n, l)
               /\ \A n \in F : Under(l, n) => Leads(mem.child[n][rd[r].key[mem.bit[n]]], l)
  BY DEF Sight
<1>5. /\ rd'[r].n \in F /\ T \subseteq F
      /\ \A b \in Blocks : /\ Leaf(b) \in F => st'[b] \in {"live", "gone"}
                           /\ Inner(b) \in F => ~IsLeaf(Inner(b))'
      /\ \A n \in F : ~IsLeaf(n)' => \A d \in 0 .. 1 : mem'.child[n][d] \in F
      /\ \A n \in F :
            IsLeaf(n)' /\ mem'.path[n] = rd'[r].key /\ mem'.child[n][0] \in Values =>
               mem'.child[n][0] \in rd'[r].valid
  BY <1>1, <1>4
<1>6. ASSUME NULL \notin rd'[r].valid, NEW l \in T, IsLeaf(l)', mem'.path[l] = rd'[r].key
      PROVE  /\ Leads(rd[r].n, l)'
             /\ \A n \in F : Under(l, n)' => Leads(mem.child[n][rd[r].key[mem.bit[n]]], l)'
  BY <1>1, <1>2, <1>3, <1>4, <1>6
<1> QED BY <1>5, <1>6 DEF Sight
\* What InvGet says of one reader.
GetOK(r) ==
    /\ rd[r].pc = "idle" => rd[r] = NoGet
    /\ rd[r].pc # "idle" => /\ rd[r].key \in Keys
                            /\ Current(mem, st, rd[r].key) \subseteq rd[r].valid
    /\ rd[r].pc = "root" => rd[r].res = NULL
    /\ rd[r].pc = "ret" /\ rd[r].res \notin rd[r].valid =>
          NULL \in rd[r].valid /\ rd[r].res \in Nodes

LEMMA GetSplit == InvGet <=> \A r \in Readers : GetOK(r) BY DEF InvGet, GetOK

\* The steps of a get.
LEMMA GetMoves ==
    ASSUME TypeOK, InvBlocks, InvGet, NEW T \in SUBSET Nodes, Tree(T), Views(T),
           NEW r \in Readers, GetNext(r)
    PROVE  /\ rd'[r] \in Gets /\ GetOK(r)'
           /\ rd'[r].pc = "walk" => \E F \in SUBSET Nodes : Sight(r, F, T)'
<1>u. mem' = mem /\ st' = st BY DEF GetNext
<1>t. rd \in [Readers -> Gets] /\ rd[r] \in Gets BY GetType
<1>o. GetOK(r) BY GetSplit
<1>b. \A key : Current(mem', st', key) = Current(mem, st, key) BY <1>u
<1>v. \A key : Current(mem, st, key) \in SUBSET (Values \cup {NULL})
  <2>1. PICK m, s : m = mem /\ s = st OBVIOUS
  <2>2. \A b \in Blocks : s[b] = "live" => m.child[Leaf(b)][0] \in Values
    BY <2>1 DEF InvBlocks
  <2>3. \A key : Current(m, s, key) \in SUBSET (Values \cup {NULL}) BY <2>2, CurrentType
  <2> QED BY <2>1, <2>3
<1>1. CASE GetCall(r)
  <2>1. PICK key \in Keys :
           rd' = [rd EXCEPT ![r] = [NoGet EXCEPT !.pc = "root", !.key = key,
                                                 !.valid = Current(mem, st, key)]]
    BY <1>1 DEF GetCall
  <2>2. PICK V \in SUBSET (Values \cup {NULL}) : V = Current(mem, st, key) BY <1>v
  <2>3. rd'[r] = [pc |-> "root", key |-> key, n |-> NULL, res |-> NULL, valid |-> V]
    BY <2>1, <2>2, <1>t DEF NoGet
  <2>4. rd'[r] \in Gets BY <2>3, KeyFacts DEF Gets, Ptr
  <2>5. Current(mem', st', key) = V BY <2>2, <1>b
  <2>6. GetOK(r)' BY <2>3, <2>5 DEF GetOK
  <2> QED BY <2>3, <2>4, <2>6
<1>2. CASE GetRoot(r)
  <2>1. /\ rd[r].pc = "root"
        /\ rd' = [rd EXCEPT ![r].n = mem.root,
                            ![r].pc = IF mem.root = NULL THEN "ret" ELSE "walk"]
    BY <1>2 DEF GetRoot
  <2>2. /\ rd'[r].pc = IF mem.root = NULL THEN "ret" ELSE "walk"
        /\ rd'[r].n = mem.root /\ rd'[r].key = rd[r].key /\ rd'[r].res = rd[r].res
        /\ rd'[r].valid = rd[r].valid
    BY <2>1, <1>t DEF Gets
  <2>3. rd'[r] \in Gets
    <3>1. mem.root \in Ptr BY Fields
    <3> QED BY <3>1, <2>1, <1>t DEF Gets
  <2>4. /\ rd[r].key \in Keys /\ rd[r].res = NULL
        /\ Current(mem, st, rd[r].key) \subseteq rd[r].valid
    BY <2>1, <1>o DEF GetOK
  <2>5. Current(mem', st', rd'[r].key) \subseteq rd'[r].valid BY <2>2, <2>4, <1>b
  <2>6. CASE mem.root = NULL
    <3>1. NULL \in rd[r].valid
      <4>1. T = {} BY <2>6, EmptyTree
      <4>2. \A b \in Blocks : st[b] # "live" BY <4>1 DEF Tree, Members
      <4>3. Current(mem, st, rd[r].key) = {NULL} BY <4>2, CurrentIs
      <4> QED BY <4>3, <2>4
    <3> QED BY <3>1, <2>2, <2>3, <2>4, <2>5, <2>6 DEF GetOK
  <2>7. CASE mem.root # NULL
    <3>1. GetOK(r)' BY <2>2, <2>4, <2>5, <2>7 DEF GetOK
    <3>2. Sight(r, T, T)'
      <4>1. mem.root \in T BY <2>7 DEF Tree, Members
      <4>2. \A b \in Blocks : /\ Leaf(b) \in T => st[b] \in {"live", "gone"}
                              /\ Inner(b) \in T => ~IsLeaf(Inner(b))
        BY DEF Tree, Members
      <4>3. /\ \A x : IsLeaf(x)' <=> IsLeaf(x)
            /\ \A x, y : /\ Under(x, y)' <=> Under(x, y)
                         /\ Leads(y, x)' <=> Leads(y, x)
        BY <1>u, SameOrder
      <4>4. \A n \in T : ~IsLeaf(n) => \A d \in 0 .. 1 : mem.child[n][d] \in T
        BY DEF Tree, Edges
      <4>5. ASSUME NEW n \in T, IsLeaf(n), mem.path[n] = rd[r].key
            PROVE  mem.child[n][0] \in rd[r].valid
        <5>1. PICK b \in Blocks : n = Leaf(b) /\ st[b] = "live" BY <4>5, LeavesLive
        <5>2. mem.child[Leaf(b)][0] \in Current(mem, st, rd[r].key)
          BY <4>5, <5>1, CurrentIs
        <5> QED BY <5>1, <5>2, <2>4
      <4>6. ASSUME NEW l \in T, mem.path[l] = rd[r].key
            PROVE  /\ Leads(rd[r].n, l)'
                   /\ \A n \in T : Under(l, n)' =>
                         Leads(mem.child[n][rd[r].key[mem.bit[n]]], l)'
        <5>1. Leads(rd[r].n, l)'
          <6>1. PICK n : n = mem.root OBVIOUS
          <6>2. Leads(n, l)' BY <6>1, <4>3 DEF Tree, Cover
          <6> QED BY <6>1, <6>2, <2>2
        <5>2. ASSUME NEW n \in T, Under(l, n)'
              PROVE  Leads(mem.child[n][rd[r].key[mem.bit[n]]], l)'
          <6>1. PICK c : c = mem.child[n][rd[r].key[mem.bit[n]]] OBVIOUS
          <6>2. Leads(c, l)' BY <6>1, <5>2, <4>3, <4>6 DEF Tree, Cover
          <6>3. c = mem'.child[n][rd'[r].key[mem'.bit[n]]] BY <6>1, <2>2, <1>u
          <6> QED BY <6>2, <6>3
        <5> QED BY <5>1, <5>2
      <4>7. \A b \in Blocks : /\ Leaf(b) \in T => st'[b] \in {"live", "gone"}
                              /\ Inner(b) \in T => ~IsLeaf(Inner(b))'
        BY <4>2, <4>3, <1>u
      <4>8. \A n \in T : ~IsLeaf(n)' => \A d \in 0 .. 1 : mem'.child[n][d] \in T
        BY <4>3, <4>4, <1>u
      <4>9. \A n \in T :
               IsLeaf(n)' /\ mem'.path[n] = rd'[r].key /\ mem'.child[n][0] \in Values =>
                  mem'.child[n][0] \in rd'[r].valid
        BY <4>3, <4>5, <2>2, <1>u
      <4>10. \A l \in T : mem'.path[l] = rd'[r].key =>
                /\ Leads(rd[r].n, l)'
                /\ \A n \in T : Under(l, n)' =>
                      Leads(mem.child[n][rd[r].key[mem.bit[n]]], l)'
        BY <4>6, <2>2, <1>u
      <4> QED BY <4>1, <4>7, <4>8, <4>9, <4>10, <2>2 DEF Sight
    <3> QED BY <3>1, <3>2, <2>3
  <2> QED BY <2>6, <2>7
<1>3. CASE GetChild(r)
  <2>1. /\ rd[r].pc = "walk" /\ ~IsLeaf(rd[r].n)
        /\ rd' = [rd EXCEPT ![r].n = mem.child[@][Dir(@, rd[r].key)]]
    BY <1>3 DEF GetChild
  <2>2. PICK F \in SUBSET Nodes : Sight(r, F, T) BY <2>1 DEF Views
  <2>3. PICK c : c = mem.child[rd[r].n][Dir(rd[r].n, rd[r].key)] OBVIOUS
  <2>4. /\ c \in F
        /\ NULL \notin rd[r].valid =>
              \A l \in T : IsLeaf(l) /\ mem.path[l] = rd[r].key => Leads(c, l)
    BY <2>1, <2>2, <2>3, SightDown
  <2>5. rd' = [rd EXCEPT ![r].n = c] BY <2>1, <2>3, <1>t
  <2>6. /\ rd'[r] \in Gets /\ rd'[r].pc = "walk" /\ rd'[r].n = c
        /\ rd'[r].key = rd[r].key /\ rd'[r].valid = rd[r].valid
    BY <2>1, <2>4, <2>5, <1>t DEF Gets, Ptr
  <2>7. Sight(r, F, T)' BY <2>2, <2>4, <2>6, <1>u, SightSame
  <2>8. GetOK(r)' BY <2>1, <2>6, <1>o, <1>b DEF GetOK
  <2> QED BY <2>6, <2>7, <2>8
<1>4. CASE GetValue(r)
  <2>1. /\ rd[r].pc = "walk" /\ IsLeaf(rd[r].n)
        /\ rd' = [rd EXCEPT ![r].res = Value(rd[r].n, rd[r].key), ![r].pc = "ret"]
    BY <1>4 DEF GetValue
  <2>2. PICK F \in SUBSET Nodes : Sight(r, F, T) BY <2>1 DEF Views
  <2>3. PICK v : v = Value(rd[r].n, rd[r].key) OBVIOUS
  <2>4. v \in Ptr \cup Values
    <3>1. rd[r].n \in Nodes BY <2>2 DEF Sight
    <3> QED BY <3>1, <2>3, Fields DEF Value, Ptr
  <2>5. rd' = [rd EXCEPT ![r].res = v, ![r].pc = "ret"] BY <2>1, <2>3
  <2>6. /\ rd'[r] \in Gets /\ rd'[r].pc = "ret" /\ rd'[r].res = v
        /\ rd'[r].key = rd[r].key /\ rd'[r].valid = rd[r].valid
    BY <2>4, <2>5, <1>t DEF Gets
  <2>7. rd[r].key \in Keys /\ Current(mem, st, rd[r].key) \subseteq rd[r].valid
    BY <2>1, <1>o DEF GetOK
  <2>8. v \notin rd[r].valid => NULL \in rd[r].valid /\ v \in Nodes
    BY <2>1, <2>2, <2>3, <2>7, SightLeaf
  <2>9. GetOK(r)' BY <2>6, <2>7, <2>8, <1>b DEF GetOK
  <2> QED BY <2>6, <2>9
<1>5. CASE GetReturn(r)
  <2>1. rd'[r] = NoGet BY <1>5, <1>t DEF GetReturn
  <2>2. rd'[r].pc = "idle" BY <2>1, NoGetIs
  <2> QED BY <2>1, <2>2, NoGetIs DEF GetOK
<1> QED BY <1>1, <1>2, <1>3, <1>4, <1>5 DEF GetNext

\* Steps that leave memory alone leave what is said of it.
LEMMA StillMemory ==
    ASSUME mem' = mem, st' = st, wr' = wr, mutex' = mutex
    PROVE  /\ InvBlocks' <=> InvBlocks
           /\ InvCall' <=> InvCall
           /\ InvNew' <=> InvNew
           /\ InvList' <=> InvList
           /\ \A T : Tree(T)' <=> Tree(T)
<1>1. InvBlocks' <=> InvBlocks BY DEF InvBlocks, IsLeaf, Holding
<1>2. InvCall' <=> InvCall BY DEF InvCall, CallOK, Holding, Freeing
<1>3. InvNew' <=> InvNew BY DEF InvNew, Inserting
<1>4. InvList' <=> InvList
  <2>1. Freed' = Freed BY DEF Freed, Freeing
  <2>2. Links' = Links BY DEF Links
  <2> QED BY <2>1, <2>2 DEF InvList
<1>5. ASSUME NEW T PROVE Tree(T)' <=> Tree(T)
  BY DEF Tree, Members, Edges, Cover, Once, Leads, Under, OnPath, Pos, IsLeaf, InnerNodes
<1> QED BY <1>1, <1>2, <1>3, <1>4, <1>5

\* A step of a get.
LEMMA GetKeeps ==
    ASSUME TypeOK, up, UpInv, NEW r \in Readers, GetStep(r)
    PROVE  TypeOK' /\ up' /\ UpInv'
<1>1. /\ InvBlocks /\ InvCall /\ InvNew /\ InvList /\ InvGet /\ GetNext(r) /\ up' = up
      /\ mem' = mem /\ st' = st /\ wr' = wr /\ mutex' = mutex
      /\ inserts' = inserts /\ removes' = removes
  BY DEF UpInv, GetStep, GetNext
<1>2. PICK T \in SUBSET Nodes : Tree(T) /\ Views(T) BY DEF UpInv
<1>3. InvBlocks' /\ InvCall' /\ InvNew' /\ InvList' /\ Tree(T)' BY <1>1, <1>2, StillMemory
<1>4. /\ rd'[r] \in Gets /\ GetOK(r)'
      /\ rd'[r].pc = "walk" => \E F \in SUBSET Nodes : Sight(r, F, T)'
  BY <1>1, <1>2, GetMoves
<1>t. rd \in [Readers -> Gets] BY GetType
<1>5. rd' = [rd EXCEPT ![r] = rd'[r]] /\ \A s \in Readers \ {r} : rd'[s] = rd[s]
  BY <1>1, <1>t DEF GetNext, GetCall, GetRoot, GetChild, GetValue, GetReturn
<1>6. rd' \in [Readers -> Gets] BY <1>4, <1>5, <1>t
<1>7. ASSUME NEW s \in Readers \ {r}
      PROVE  /\ GetOK(s)'
             /\ rd'[s].pc = "walk" => \E F \in SUBSET Nodes : Sight(s, F, T)'
  <2>1. rd'[s] = rd[s] BY <1>5
  <2>2. GetOK(s) BY <1>1, GetSplit
  <2>3. GetOK(s)' BY <1>1, <2>1, <2>2 DEF GetOK
  <2>4. ASSUME rd'[s].pc = "walk" PROVE \E F \in SUBSET Nodes : Sight(s, F, T)'
    <3>1. PICK F \in SUBSET Nodes : Sight(s, F, T) BY <2>1, <2>4, <1>2 DEF Views
    <3>2. /\ rd'[s].n \in F
          /\ NULL \notin rd[s].valid =>
                \A l \in T : IsLeaf(l) /\ mem.path[l] = rd[s].key => Leads(rd'[s].n, l)
      BY <3>1, <2>1 DEF Sight
    <3>3. Sight(s, F, T)' BY <3>1, <3>2, <2>1, <1>1, SightSame
    <3> QED BY <3>3
  <2> QED BY <2>3, <2>4
<1>8. InvGet' BY <1>4, <1>7 DEF InvGet, GetOK
<1>9. Views(T)' BY <1>4, <1>7 DEF Views
<1>10. TypeOK' BY <1>1, <1>6 DEF TypeOK, Gets
<1> QED BY <1>1, <1>3, <1>8, <1>9, <1>10 DEF UpInv
-----------------------------------------------------------------------------
(* critbit_delete: the recursion of delete_node.                           *)

Dirs == 0 .. 1

\* Where a step of the recursion gets to.
Down(n, i) == IF n # NULL /\ ~IsLeaf(n) THEN mem.child[n][i] ELSE NULL

\* f is the way of delete_node on the descent s, as far as level k.
Climb(f, s, k) ==
    f = [d \in 0 .. k |-> IF d = 0 THEN mem.root ELSE Down(f[d-1], s[d])]

Front(s, d) == [i \in 1 .. d |-> s[i]]

\* The recursive definition of EndOf does define a function.
LEMMA ClimbExists ==
    ASSUME NEW s, NEW K \in Nat
    PROVE  \E f : Climb(f, s, K)
<1> DEFINE T == {k \in Nat : ~ \E f : Climb(f, s, k)}
<1>0. T \subseteq Nat OBVIOUS
<1>1. SUFFICES ASSUME T # {} PROVE FALSE BY <1>0
<1>2. PICK k \in T : \A e \in T : k <= e BY <1>0, <1>1, LeastNat
<1>3. k # 0
  <2> DEFINE f == [d \in 0 .. 0 |-> mem.root]
  <2>1. Climb(f, s, 0) BY DEF Climb
  <2> QED BY <2>1
<1>4. k-1 \in Nat /\ k-1 \notin T BY <1>2, <1>3
<1>5. PICK g : Climb(g, s, k-1) BY <1>4
<1> DEFINE f == [d \in 0 .. k |-> IF d = 0 THEN mem.root ELSE Down(g[d-1], s[d])]
<1>6. \A d \in 0 .. k-1 : f[d] = g[d] BY <1>5, <1>4 DEF Climb
<1>7. ASSUME NEW d \in 0 .. k
      PROVE  f[d] = IF d = 0 THEN mem.root ELSE Down(f[d-1], s[d])
  <2>1. CASE d = 0 BY <2>1
  <2>2. CASE d # 0
    <3>1. d-1 \in 0 .. k-1 BY <2>2, <1>4
    <3>2. f[d-1] = g[d-1] BY <3>1, <1>6
    <3>3. f[d] = Down(g[d-1], s[d]) BY <2>2
    <3> QED BY <2>2, <3>2, <3>3
  <2> QED BY <2>1, <2>2
<1>8. Climb(f, s, k) BY <1>7 DEF Climb
<1> QED BY <1>8

LEMMA ClimbIs ==
    ASSUME NEW s, NEW k \in Nat, NEW f, Climb(f, s, k)
    PROVE  \A d \in 0 .. k : f[d] = IF d = 0 THEN mem.root ELSE Down(f[d-1], s[d])
<1> DEFINE g == [d \in 0 .. k |-> IF d = 0 THEN mem.root ELSE Down(f[d-1], s[d])]
<1>1. \A d \in 0 .. k : g[d] = IF d = 0 THEN mem.root ELSE Down(f[d-1], s[d])
  OBVIOUS
<1>2. f = g BY DEF Climb
<1> HIDE DEF g
<1> QED BY <1>1, <1>2

\* EndOf is where the climb ends.
LEMMA EndIs ==
    ASSUME NEW k \in Nat, NEW s \in [1 .. k -> Dirs]
    PROVE  \E f : Climb(f, s, k) /\ EndOf(s) = f[k]
<1> DEFINE h == CHOOSE at : at = [d \in 0 .. Len(s) |->
                   IF d = 0 THEN mem.root
                   ELSE IF at[d-1] # NULL /\ ~IsLeaf(at[d-1])
                        THEN mem.child[at[d-1]][s[d]] ELSE NULL]
<1>1. Len(s) = k
  <2>1. s \in Seq(Dirs) OBVIOUS
  <2>2. Len(s) \in Nat /\ DOMAIN s = 1 .. Len(s) BY <2>1, LenProperties
  <2>3. DOMAIN s = 1 .. k OBVIOUS
  <2> QED BY <2>2, <2>3
<1>2. PICK f : Climb(f, s, k) BY ClimbExists
<1>3. EndOf(s) = h[k] BY <1>1 DEF EndOf
<1>4. Climb(h, s, k) BY <1>1, <1>2 DEF Climb, Down
<1> QED BY <1>3, <1>4
\* The empty descent ends at the mem.root, the others one link below the descent
\* without the last slot.
LEMMA EndSteps ==
    ASSUME NEW k \in Nat, NEW s \in [1 .. k -> Dirs]
    PROVE  /\ k = 0 => EndOf(s) = mem.root
           /\ k # 0 => /\ k-1 \in Nat
                       /\ Front(s, k-1) \in [1 .. k-1 -> Dirs]
                       /\ s[k] \in Dirs
                       /\ EndOf(s) = Down(EndOf(Front(s, k-1)), s[k])
<1>1. PICK f : Climb(f, s, k) /\ EndOf(s) = f[k] BY EndIs
<1>2. \A d \in 0 .. k : f[d] = IF d = 0 THEN mem.root ELSE Down(f[d-1], s[d])
  BY <1>1, ClimbIs
<1>3. CASE k = 0 BY <1>1, <1>2, <1>3
<1>4. CASE k # 0
  <2> DEFINE t == Front(s, k-1)
  <2>1. k-1 \in Nat /\ t \in [1 .. k-1 -> Dirs] /\ s[k] \in Dirs
    BY <1>4 DEF Front
  <2>2. \A d \in 1 .. k-1 : t[d] = s[d] BY DEF Front
  <2> HIDE DEF t
  <2>3. PICK g : Climb(g, t, k-1) /\ EndOf(t) = g[k-1] BY <2>1, EndIs
  <2>4. \A d \in 0 .. k-1 : g[d] = IF d = 0 THEN mem.root ELSE Down(g[d-1], t[d])
    BY <2>1, <2>3, ClimbIs
  <2> DEFINE B == {d \in 0 .. k-1 : f[d] # g[d]}
  <2>5. ASSUME B # {} PROVE FALSE
    <3>1. B \subseteq Nat OBVIOUS
    <3>2. PICK e \in B : \A b \in B : e <= b BY <2>5, <3>1, LeastNat
    <3>3. e \in 0 .. k-1 /\ f[e] # g[e] /\ e # 0 BY <3>2, <1>2, <2>4
    <3>4. e-1 \in 0 .. k-1 /\ e-1 \notin B /\ e \in 1 .. k-1 BY <3>2, <3>3, <2>1
    <3>5. f[e-1] = g[e-1] BY <3>4
    <3>6. f[e] = Down(f[e-1], s[e]) BY <3>4, <1>2
    <3>7. g[e] = Down(g[e-1], t[e]) BY <3>4, <2>4
    <3> QED BY <3>3, <3>4, <3>5, <3>6, <3>7, <2>2
  <2>6. k-1 \in 0 .. k-1 /\ k \in 0 .. k BY <2>1
  <2>7. f[k-1] = g[k-1] BY <2>5, <2>6
  <2>8. f[k] = Down(f[k-1], s[k]) BY <2>6, <1>2, <1>4
  <2> QED BY <2>1, <2>3, <2>7, <2>8, <1>1, <1>4 DEF t
<1> QED BY <1>3, <1>4

\* A descent that is made longer by one slot.
LEMMA EndLonger ==
    ASSUME NEW k \in Nat, NEW s \in [1 .. k -> Dirs], NEW i \in Dirs
    PROVE  \E t \in [1 .. k+1 -> Dirs] : EndOf(t) = Down(EndOf(s), i)
<1> DEFINE t == [d \in 1 .. k+1 |-> IF d = k+1 THEN i ELSE s[d]]
<1>1. k+1 \in Nat /\ k+1 # 0 /\ k+1-1 = k /\ k+1 \in 1 .. k+1 OBVIOUS
<1>2. t \in [1 .. k+1 -> Dirs] OBVIOUS
<1>3. t[k+1] = i BY <1>1
<1>4. \A d \in 1 .. k : t[d] = s[d] OBVIOUS
<1> HIDE DEF t
<1>5. Front(t, k) = s BY <1>4 DEF Front
<1>6. EndOf(t) = Down(EndOf(Front(t, k+1-1)), t[k+1]) BY <1>1, <1>2, EndSteps
<1> QED BY <1>1, <1>2, <1>3, <1>5, <1>6

\* A descent stays in the tree.
LEMMA EndsLive ==
    ASSUME TypeOK, NEW T \in SUBSET Nodes, Tree(T), NEW K \in Nat, NEW S \in [1 .. K -> Dirs]
    PROVE  EndOf(S) \in T \cup {NULL}
<1> DEFINE Good(k) == \A s \in [1 .. k -> Dirs] : EndOf(s) \in T \cup {NULL}
           B == {k \in Nat : ~Good(k)}
<1>0. B \subseteq Nat OBVIOUS
<1>1. SUFFICES ASSUME B # {} PROVE FALSE OBVIOUS
<1>2. PICK k \in B : \A b \in B : k <= b BY <1>0, <1>1, LeastNat
<1>3. PICK s \in [1 .. k -> Dirs] : EndOf(s) \notin T \cup {NULL} BY <1>2
<1>4. CASE k = 0
  <2>1. EndOf(s) = mem.root BY <1>4, EndSteps
  <2> QED BY <2>1, <1>3 DEF Tree, Members
<1>5. CASE k # 0
  <2>1. /\ k-1 \in Nat /\ Front(s, k-1) \in [1 .. k-1 -> Dirs] /\ s[k] \in Dirs
        /\ EndOf(s) = Down(EndOf(Front(s, k-1)), s[k])
    BY <1>5, EndSteps
  <2>2. k-1 \notin B BY <1>2, <2>1
  <2>3. PICK n : n = EndOf(Front(s, k-1)) OBVIOUS
  <2>4. n \in T \cup {NULL} BY <2>1, <2>2, <2>3
  <2>5. PICK d \in 0 .. 1 : d = s[k] BY <2>1 DEF Dirs
  <2>6. EndOf(s) = Down(n, d) BY <2>1, <2>3, <2>5
  <2>7. CASE n \in T /\ ~IsLeaf(n)
    <3>c. Child(mem.child[n][d], n, d, T) BY <2>7, EdgeFacts
    <3>1. mem.child[n][d] \in T BY <3>c DEF Child
    <3>2. Down(n, d) \in T \cup {NULL} BY <3>1 DEF Down
    <3> QED BY <3>2, <2>6, <1>3
  <2>8. CASE n = NULL \/ IsLeaf(n) BY <2>8, <2>6, <1>3 DEF Down
  <2> QED BY <2>4, <2>7, <2>8
<1> QED BY <1>4, <1>5

\* Two descents do not end at the same node.
LEMMA OneDescent ==
    ASSUME TypeOK, NEW T \in SUBSET Nodes, Tree(T),
           NEW K \in Nat, NEW S \in [1 .. K -> Dirs],
           NEW L \in Nat, NEW R \in [1 .. L -> Dirs],
           EndOf(S) = EndOf(R), EndOf(S) # NULL
    PROVE  S = R
<1> DEFINE Single(k) == \A s \in [1 .. k -> Dirs], l \in Nat :
                          \A t \in [1 .. l -> Dirs] :
                             EndOf(s) = EndOf(t) /\ EndOf(s) # NULL
                             => k = l /\ s = t
           B == {k \in Nat : ~Single(k)}
<1>0. B \subseteq Nat OBVIOUS
<1>1. SUFFICES ASSUME B # {} PROVE FALSE OBVIOUS
<1>2. PICK k \in B : \A b \in B : k <= b BY <1>0, <1>1, LeastNat
<1>3. PICK s \in [1 .. k -> Dirs], l \in Nat :
         \E t \in [1 .. l -> Dirs] :
            EndOf(s) = EndOf(t) /\ EndOf(s) # NULL /\ ~(k = l /\ s = t)
  BY <1>2
<1>4. PICK t \in [1 .. l -> Dirs] :
         EndOf(s) = EndOf(t) /\ EndOf(s) # NULL /\ ~(k = l /\ s = t)
  BY <1>3
\* A descent that is not empty does not end at the mem.root.
<1>5. ASSUME NEW j \in Nat, j # 0, NEW u \in [1 .. j -> Dirs], EndOf(u) # NULL
      PROVE  \E n \in T : /\ ~IsLeaf(n) /\ n = EndOf(Front(u, j-1))
                          /\ u[j] \in Dirs
                          /\ EndOf(u) = mem.child[n][u[j]]
                          /\ EndOf(u) # mem.root
  <2>1. /\ j-1 \in Nat /\ Front(u, j-1) \in [1 .. j-1 -> Dirs] /\ u[j] \in Dirs
        /\ EndOf(u) = Down(EndOf(Front(u, j-1)), u[j])
    BY <1>5, EndSteps
  <2>2. PICK n : n = EndOf(Front(u, j-1)) OBVIOUS
  <2>3. n # NULL /\ ~IsLeaf(n) /\ EndOf(u) = mem.child[n][u[j]]
    BY <1>5, <2>1, <2>2 DEF Down
  <2>4. n \in T \cup {NULL} BY <2>1, <2>2, EndsLive
  <2>5. PICK d \in 0 .. 1 : d = u[j] BY <2>1 DEF Dirs
  <2>6. mem.child[n][d] # mem.root
    <3>1. n \in T /\ ~IsLeaf(n) BY <2>3, <2>4
    <3>2. Child(mem.child[n][d], n, d, T) BY <3>1, EdgeFacts
    <3> QED BY <3>2 DEF Child
  <2> QED BY <2>1, <2>2, <2>3, <2>4, <2>5, <2>6
<1>6. CASE k = 0
  <2>1. EndOf(s) = mem.root BY <1>6, EndSteps
  <2>2. l = 0 BY <2>1, <1>4, <1>5
  <2>3. s = t BY <1>6, <2>2
  <2> QED BY <1>4, <1>6, <2>2, <2>3
<1>7. CASE k # 0
  <2>1. PICK m \in T : /\ ~IsLeaf(m) /\ m = EndOf(Front(s, k-1))
                       /\ s[k] \in Dirs
                       /\ EndOf(s) = mem.child[m][s[k]]
                       /\ EndOf(s) # mem.root
    BY <1>4, <1>5, <1>7
  <2>2. l # 0 BY <2>1, <1>4, EndSteps
  <2>3. PICK n \in T : /\ ~IsLeaf(n) /\ n = EndOf(Front(t, l-1))
                       /\ t[l] \in Dirs
                       /\ EndOf(t) = mem.child[n][t[l]]
    BY <1>4, <1>5, <2>2
  <2>4. m = n /\ s[k] = t[l]
    <3>1. PICK i \in 0 .. 1 : i = s[k] BY <2>1 DEF Dirs
    <3>2. PICK j \in 0 .. 1 : j = t[l] BY <2>3 DEF Dirs
    <3>3. mem.child[m][i] = mem.child[n][j] BY <3>1, <3>2, <2>1, <2>3, <1>4
    <3>4. m = n /\ i = j
      <4>1. ~IsLeaf(m) /\ ~IsLeaf(n) BY <2>1, <2>3
      <4> QED BY <4>1, <3>3, OneParent
    <3> QED BY <3>1, <3>2, <3>4
  <2>5. /\ k-1 \in Nat /\ Front(s, k-1) \in [1 .. k-1 -> Dirs]
        /\ l-1 \in Nat /\ Front(t, l-1) \in [1 .. l-1 -> Dirs]
    BY <1>7, <2>2, EndSteps
  <2>6. Single(k-1)
    <3> HIDE DEF Single
    <3>1. k \in Nat /\ ~(k <= k-1) BY <1>2
    <3>2. k-1 \notin B BY <3>1, <1>2
    <3> QED BY <3>2, <2>5
  <2>7. m # NULL BY NodeFacts
  <2>8. k-1 = l-1 /\ Front(s, k-1) = Front(t, l-1)
    <3>1. PICK p \in [1 .. k-1 -> Dirs] : p = Front(s, k-1) BY <2>5
    <3>2. PICK q \in [1 .. l-1 -> Dirs] : q = Front(t, l-1) BY <2>5
    <3>3. EndOf(p) = EndOf(q) /\ EndOf(p) # NULL
      BY <2>1, <2>3, <2>4, <2>7, <3>1, <3>2
    <3>4. PICK a \in Nat : a = k-1 BY <2>5
    <3>5. PICK b \in Nat : b = l-1 BY <2>5
    <3>6. Single(a) /\ p \in [1 .. a -> Dirs] /\ q \in [1 .. b -> Dirs]
      BY <2>6, <3>1, <3>2, <3>4, <3>5
    <3>7. a = b /\ p = q BY <3>3, <3>4, <3>5, <3>6
    <3> QED BY <3>1, <3>2, <3>4, <3>5, <3>7
  <2>9. k = l BY <2>8
  <2>10. ASSUME NEW d \in 1 .. k PROVE s[d] = t[d]
    <3>1. CASE d = k BY <3>1, <2>4, <2>9
    <3>2. CASE d # k
      <4>1. d \in 1 .. k-1 BY <3>2
      <4>2. Front(s, k-1)[d] = s[d] /\ Front(t, k-1)[d] = t[d]
        BY <4>1 DEF Front
      <4> QED BY <4>2, <2>8, <2>9
    <3> QED BY <3>1, <3>2
  <2>11. s = t BY <2>9, <2>10
  <2> QED BY <2>9, <2>11, <1>4
<1> QED BY <1>6, <1>7

\* A descent ends at each leaf: the positions on the way increase.
LEMMA SomeDescent ==
    ASSUME TypeOK, NEW T \in SUBSET Nodes, Tree(T), NEW x \in T
    PROVE  \E d \in 0 .. WIDTH : \E s \in [1 .. d -> Dirs] : EndOf(s) = x
<1> SUFFICES ASSUME \A d \in 0 .. WIDTH : \A s \in [1 .. d -> Dirs] : EndOf(s) # x
             PROVE  FALSE
  OBVIOUS
<1>0. WIDTH \in Nat BY DigitFacts
<1>p. \A n \in InnerNodes : n \in Nodes /\ ~IsLeaf(n) /\ mem.bit[n] \in Nat /\ mem.bit[n] < WIDTH
  BY Positions
<1> DEFINE On(d) == \E s \in [1 .. d -> Dirs] :
                       /\ EndOf(s) \in T /\ Under(x, EndOf(s))
                       /\ d <= mem.bit[EndOf(s)]
           B == {d \in 0 .. WIDTH : ~On(d)}
<1>1. On(0)
  <2>1. PICK s : s \in [1 .. 0 -> Dirs]
    <3>1. [i \in 1 .. 0 |-> 0] \in [1 .. 0 -> Dirs] OBVIOUS
    <3> QED BY <3>1
  <2>2. EndOf(s) = mem.root BY <2>1, EndSteps
  <2>3. mem.root # x /\ Leads(mem.root, x) /\ mem.root \in T
    <3>1. 0 \in 0 .. WIDTH BY <1>0
    <3>2. EndOf(s) # x BY <3>1, <2>1
    <3> QED BY <3>2, <2>2, RootTop DEF Tree, Cover
  <2>4. Under(x, mem.root) /\ mem.root \in InnerNodes BY <2>3 DEF Leads, Under
  <2>5. 0 <= mem.bit[mem.root]
    <3>1. mem.bit[mem.root] \in Nat BY <2>4, <1>p
    <3> QED BY <3>1
  <2> QED BY <2>1, <2>2, <2>3, <2>4, <2>5
<1>2. ~On(WIDTH)
  <2>1. ASSUME NEW s \in [1 .. WIDTH -> Dirs], Under(x, EndOf(s)), WIDTH <= mem.bit[EndOf(s)]
        PROVE  FALSE
    <3>1. PICK q \in Nat : q = mem.bit[EndOf(s)] /\ q < WIDTH BY <2>1, <1>p DEF Under
    <3> QED BY <3>1, <2>1, <1>0
  <2> QED BY <2>1
<1>3. WIDTH \in B /\ B \subseteq Nat
  <2> HIDE DEF On
  <2> QED BY <1>0, <1>2
<1>4. PICK e \in B : \A b \in B : e <= b
  <2> HIDE DEF B
  <2> QED BY <1>3, LeastNat
<1>5. e # 0 /\ e \in 0 .. WIDTH /\ ~On(e)
  <2> HIDE DEF On
  <2> QED BY <1>1, <1>4
<1>6. e-1 \in 0 .. WIDTH /\ e-1 \in Nat /\ e-1 \notin B /\ On(e-1)
  <2> HIDE DEF On
  <2>1. e-1 \in 0 .. WIDTH /\ e-1 \in Nat /\ ~(e <= e-1) BY <1>5, <1>0
  <2> QED BY <2>1, <1>4
<1>7. PICK s \in [1 .. e-1 -> Dirs] :
         /\ EndOf(s) \in T /\ Under(x, EndOf(s)) /\ e-1 <= mem.bit[EndOf(s)]
  BY <1>6
<1>8. PICK n \in T : n = EndOf(s) BY <1>7
<1>9. Under(x, n) /\ n \in InnerNodes /\ ~IsLeaf(n) /\ n # NULL /\ e-1 <= mem.bit[n]
  BY <1>7, <1>8, <1>p, NodeFacts DEF Under
<1>10. PICK i \in 0 .. 1 : i = mem.path[x][mem.bit[n]] BY <1>9, Fields, KeyFacts
<1>c. Child(mem.child[n][i], n, i, T) BY <1>9, EdgeFacts
<1>11. PICK c \in T : c = mem.child[n][i] BY <1>c DEF Child
<1>12. Leads(c, x) BY <1>8, <1>9, <1>10, <1>11 DEF Tree, Cover
<1>13. PICK t \in [1 .. e-1+1 -> Dirs] : EndOf(t) = Down(n, i)
  <2>1. i \in Dirs BY DEF Dirs
  <2>2. PICK a \in Nat : a = e-1 BY <1>6
  <2>3. s \in [1 .. a -> Dirs] BY <2>2
  <2>4. \E t \in [1 .. a+1 -> Dirs] : EndOf(t) = Down(EndOf(s), i)
    BY <2>1, <2>3, EndLonger
  <2> QED BY <2>2, <2>4, <1>8
<1>14. t \in [1 .. e -> Dirs] /\ EndOf(t) = c
  <2>1. e-1+1 = e BY <1>5
  <2>2. Down(n, i) = c BY <1>9, <1>11 DEF Down
  <2> QED BY <2>1, <2>2, <1>13
<1>15. c # x BY <1>14, <1>5
<1>16. Under(x, c) /\ c \in InnerNodes BY <1>12, <1>15 DEF Leads, Under
<1>17. Under(c, n) BY <1>11, <1>c DEF Child
<1>18. mem.bit[n] < mem.bit[c] BY <1>16, <1>17, Positions DEF Under
<1>19. e <= mem.bit[c]
  <2>1. PICK a \in Nat, q \in Nat : a = mem.bit[n] /\ q = mem.bit[c] BY <1>9, <1>16, <1>p
  <2> QED BY <2>1, <1>5, <1>9, <1>18
<1> QED BY <1>5, <1>14, <1>16, <1>19

\* delete_node frees each leaf of the tree once, and no other node.
LEMMA TreeOnce ==
    ASSUME TypeOK, NEW T \in SUBSET Nodes, Tree(T), NEW x \in Nodes
    PROVE  delete_node(x) = IF x \in T /\ IsLeaf(x) THEN 1 ELSE 0
<1> DEFINE D == {s \in Descents : EndOf(s) = x}
<1>0. /\ Descents = UNION {[1 .. d -> Dirs] : d \in 0 .. WIDTH}
      /\ \A s \in Descents : \E d \in 0 .. WIDTH : s \in [1 .. d -> Dirs]
  BY DEF Descents, Dirs
<1>1. x # NULL /\ 0 .. WIDTH \subseteq Nat BY NodeFacts
<1>d. delete_node(x) = IF IsLeaf(x) THEN Cardinality(D) ELSE 0 BY DEF delete_node
<1>2. CASE x \in T
  <2>1. PICK d \in 0 .. WIDTH : \E s \in [1 .. d -> Dirs] : EndOf(s) = x
    BY <1>2, SomeDescent
  <2>2. PICK s \in [1 .. d -> Dirs] : EndOf(s) = x BY <2>1
  <2>3. s \in Descents BY <2>1, <2>2, <1>0
  <2>4. ASSUME NEW t \in Descents, EndOf(t) = x PROVE t = s
    <3>1. PICK e \in 0 .. WIDTH : t \in [1 .. e -> Dirs] BY <1>0
    <3> QED BY <3>1, <2>1, <2>2, <2>4, <1>1, OneDescent
  <2>5. D = {s} BY <2>2, <2>3, <2>4
  <2>6. Cardinality(D) = 1 BY <2>5, FS_Singleton
  <2> HIDE DEF D
  <2> QED BY <2>6, <1>2, <1>d
<1>3. CASE x \notin T
  <2>1. ASSUME NEW t \in Descents, EndOf(t) = x PROVE FALSE
    <3>1. PICK e \in 0 .. WIDTH : t \in [1 .. e -> Dirs] BY <1>0
    <3>2. x \in T \cup {NULL} BY <3>1, <2>1, <1>1, EndsLive
    <3> QED BY <3>2, <1>1, <1>3
  <2>2. D = {} BY <2>1
  <2>3. Cardinality(D) = 0 BY <2>2, FS_EmptySet
  <2> HIDE DEF D
  <2> QED BY <2>3, <1>3, <1>d
<1> QED BY <1>2, <1>3
-----------------------------------------------------------------------------
(* critbit_delete: the list, and all of it.                                *)

\* The loop over the deleted leaves frees each of them once, and no other.
LEMMA ListedOnce ==
    ASSUME TypeOK, InvList, NEW x \in Nodes
    PROVE  Listed(x) = IF x \in Freed THEN 1 ELSE 0
<1> DEFINE N == Cardinality(Blocks)
           Put0 == Blocks \X {0}
           h == CHOOSE at : at = [d \in 0 .. N |->
                   IF d = 0 THEN mem.deleted_node
                   ELSE IF at[d-1] = NULL THEN NULL ELSE mem.child[at[d-1]][0]]
<1>1. Listed(x) = Cardinality({d \in 0 .. N : h[d] = x}) BY DEF Listed
<1>2. IsFiniteSet(Put0) /\ Cardinality(Put0) = N /\ N \in Nat
  <2>1. IsFiniteSet({0}) /\ Cardinality({0}) = 1 BY FS_Singleton
  <2>2. IsFiniteSet(Blocks) /\ N \in Nat BY CritbitAssumption, FS_CardinalityType
  <2>3. IsFiniteSet(Put0) /\ Cardinality(Put0) = N * 1 BY <2>1, <2>2, FS_Product
  <2> QED BY <2>2, <2>3
<1>3. /\ NULL \notin Put0 /\ x # NULL /\ Freed \in SUBSET Put0 /\ Freed \subseteq Nodes
  <2>1. \A b \in Blocks : Leaf(b) \in Put0 BY DEF Leaf
  <2>2. Freed \in SUBSET Put0 BY <2>1, FreedFacts
  <2>3. Put0 \subseteq Nodes BY DEF Nodes
  <2> QED BY <2>2, <2>3, NodeFacts
<1>4. ListOf(Freed, Links, mem.deleted_node, NULL) BY DEF InvList
<1>5. PICK F, S, next, head : /\ F = Freed /\ S = Put0 /\ next = Links
                              /\ head = mem.deleted_node
  OBVIOUS
<1>6. /\ IsFiniteSet(S) /\ NULL \notin S /\ F \in SUBSET S /\ ListOf(F, next, head, NULL)
      /\ Cardinality(S) = N
  BY <1>2, <1>3, <1>4, <1>5
<1> HIDE DEF Put0
<1>7. PICK g \in [0 .. N -> F \cup {NULL}] :
         \A d \in 0 .. N : g[d] = IF d = 0 THEN head
                                  ELSE IF g[d-1] = NULL THEN NULL ELSE next[g[d-1]]
  <2>1. \E g \in [0 .. Cardinality(S) -> F \cup {NULL}] :
           \A d \in 0 .. Cardinality(S) :
              g[d] = IF d = 0 THEN head
                     ELSE IF g[d-1] = NULL THEN NULL ELSE next[g[d-1]]
    BY <1>6, ListWalk
  <2> QED BY <2>1, <1>6
<1>8. \A d \in 0 .. N : d # 0 => d-1 \in 0 .. N BY <1>2
<1>9. \A n \in F : next[n] = mem.child[n][0] BY <1>3, <1>5 DEF Links
<1>10. \A d \in 0 .. N :
          g[d] = IF d = 0 THEN mem.deleted_node
                 ELSE IF g[d-1] = NULL THEN NULL ELSE mem.child[g[d-1]][0]
  <2>1. \A d \in 0 .. N : d # 0 => g[d-1] \in F \cup {NULL} BY <1>7, <1>8
  <2> QED BY <2>1, <1>5, <1>7, <1>9
<1>11. g = [d \in 0 .. N |-> IF d = 0 THEN mem.deleted_node
                             ELSE IF g[d-1] = NULL THEN NULL ELSE mem.child[g[d-1]][0]]
  BY <1>10
<1>12. h = [d \in 0 .. N |-> IF d = 0 THEN mem.deleted_node
                             ELSE IF h[d-1] = NULL THEN NULL ELSE mem.child[h[d-1]][0]]
  BY <1>11
<1> HIDE DEF h
<1> DEFINE r == [d \in 0 .. N |-> IF d = 0 THEN mem.deleted_node
                             ELSE IF h[d-1] = NULL THEN NULL ELSE mem.child[h[d-1]][0]]
<1>13. \A d \in 0 .. N : r[d] = IF d = 0 THEN mem.deleted_node
                                ELSE IF h[d-1] = NULL THEN NULL ELSE mem.child[h[d-1]][0]
  OBVIOUS
<1>14. h = r BY <1>12
<1> HIDE DEF r
<1>15. h[0] = head
  <2>1. 0 \in 0 .. N BY <1>2
  <2> QED BY <2>1, <1>5, <1>13, <1>14
<1>16. \A d \in 0 .. N : d # 0 => /\ h[d-1] = NULL => h[d] = NULL
                                  /\ h[d-1] \in F => h[d] = next[h[d-1]]
  <2>1. NULL \notin F BY <1>6
  <2> QED BY <2>1, <1>9, <1>13, <1>14
<1>17. PICK f : f = h OBVIOUS
<1>18. Cardinality({d \in 0 .. N : f[d] = x}) = IF x \in F THEN 1 ELSE 0
  <2>1. /\ f[0] = head
        /\ \A d \in 0 .. Cardinality(S) : d # 0 => /\ f[d-1] = NULL => f[d] = NULL
                                                   /\ f[d-1] \in F => f[d] = next[f[d-1]]
    BY <1>6, <1>15, <1>16, <1>17
  <2>2. Cardinality({d \in 0 .. Cardinality(S) : f[d] = x}) = IF x \in F THEN 1 ELSE 0
    BY <2>1, <1>3, <1>6, ListCount
  <2> QED BY <2>2, <1>6
<1> QED BY <1>1, <1>5, <1>17, <1>18

\* When no thread is inside, every block is in the tree, in the list or raw,
\* and critbit_delete frees it as often as it should.
LEMMA FreesEach ==
    ASSUME TypeOK, UpInv, Quiet, NEW b \in Blocks
    PROVE  /\ Frees(Leaf(b)) = IF st[b] = "raw" THEN 0 ELSE 1
           /\ Frees(Inner(b)) = 0
<1>1. InvBlocks /\ InvCall /\ InvList BY DEF UpInv
<1>2. PICK T \in SUBSET Nodes : Tree(T) BY DEF UpInv
<1>3. PICK k \in Nodes, m \in Nodes : k = Leaf(b) /\ m = Inner(b) BY NodeFacts
<1>4. /\ delete_node(k) = IF k \in T /\ IsLeaf(k) THEN 1 ELSE 0
      /\ delete_node(m) = IF m \in T /\ IsLeaf(m) THEN 1 ELSE 0
  BY <1>2, TreeOnce
<1>5. /\ Listed(k) = IF k \in Freed THEN 1 ELSE 0
      /\ Listed(m) = IF m \in Freed THEN 1 ELSE 0
  BY <1>1, ListedOnce
<1>6. /\ k \in T <=> st[b] = "live"
      /\ m \in T => ~IsLeaf(m)
      /\ IsLeaf(k)
  BY <1>1, <1>2, <1>3 DEF Tree, Members, InvBlocks
<1>7. \A w \in Writers : ~Freeing(w) /\ ~Holding(w) BY DEF Quiet, Freeing, Holding
<1>8. k \in Freed <=> st[b] = "gone" BY <1>3, <1>7, FreedFacts DEF Kept
<1>9. m \notin Freed BY <1>3, FreedFacts, NodeFacts
<1>10. st[b] \in {"raw", "live", "gone"}
  <2>1. st[b] # "held" BY <1>1, <1>7 DEF InvBlocks
  <2> QED BY <2>1, TypeFacts
<1>11. Frees(k) = IF st[b] = "raw" THEN 0 ELSE 1
  BY <1>4, <1>5, <1>6, <1>8, <1>10 DEF Frees
<1>12. Frees(m) = 0 BY <1>4, <1>5, <1>6, <1>9 DEF Frees
<1> QED BY <1>3, <1>11, <1>12

AllRaw == \A b \in Blocks : st[b] = "raw"

\* critbit_delete gives every block back.
LEMMA DeleteKeeps ==
    ASSUME TypeOK, up, UpInv, critbit_delete
    PROVE  TypeOK' /\ ~up' /\ Quiet' /\ InvCall' /\ InvGet' /\ AllRaw'
<1>1. /\ Quiet /\ ~up' /\ up' \in BOOLEAN
      /\ UNCHANGED <<mem, mutex, wr, rd, inserts, removes>>
      /\ st' = [b \in Blocks |-> IF Frees(Leaf(b)) > 0 THEN "raw" ELSE st[b]]
  BY DEF critbit_delete
<1>2. InvCall /\ InvGet BY DEF UpInv
<1>3. ASSUME NEW b \in Blocks PROVE st'[b] = "raw"
  <2>1. Frees(Leaf(b)) = IF st[b] = "raw" THEN 0 ELSE 1 BY <1>1, FreesEach
  <2>2. st'[b] = IF Frees(Leaf(b)) > 0 THEN "raw" ELSE st[b] BY <1>1
  <2> QED BY <2>1, <2>2
<1>4. AllRaw' BY <1>3 DEF AllRaw
<1>5. st' \in [Blocks -> {"raw", "held", "live", "gone"}]
  <2>1. PICK f : f = [b \in Blocks |-> Frees(Leaf(b))] OBVIOUS
  <2>2. st' = [b \in Blocks |-> IF f[b] > 0 THEN "raw" ELSE st[b]] BY <1>1, <2>1
  <2> QED BY <2>2, TypeFacts
<1>6. TypeOK' BY <1>1, <1>5 DEF TypeOK
<1>7. Quiet' BY <1>1 DEF Quiet
<1>8. InvCall'
  <2>1. ASSUME NEW w \in Writers PROVE CallOK(w)'
    <3>1. CallOK(w) /\ wr[w].pc = "idle" BY <1>1, <1>2 DEF InvCall, Quiet
    <3>2. ~Holding(w)' /\ ~Freeing(w)' BY <3>1, <1>1 DEF Holding, Freeing
    <3> QED BY <3>1, <3>2, <1>1 DEF CallOK
  <2> QED BY <2>1 DEF InvCall
<1>9. InvGet' BY <1>1, <1>2 DEF InvGet, Quiet
<1> QED BY <1>1, <1>4, <1>6, <1>7, <1>8, <1>9

\* The state that critbit_new begins with.
Fresh == /\ TypeOK /\ Quiet /\ InvCall /\ InvGet /\ AllRaw
         /\ mem = Cleared

LEMMA FreshUp == Fresh => UpInv
<1> SUFFICES ASSUME Fresh PROVE UpInv OBVIOUS
<1>1. TypeOK /\ Quiet /\ InvCall /\ InvGet /\ AllRaw BY DEF Fresh
<1>2. /\ mem.root = NULL /\ mem.deleted_node = NULL
      /\ \A n \in Nodes : IsLeaf(n)
  BY DEF Fresh, Cleared, IsLeaf
<1>3. InvBlocks BY <1>1, <1>2, NodeFacts DEF InvBlocks, AllRaw
<1>4. InvNew BY <1>1 DEF InvNew, Quiet, Inserting
<1>5. InvList
  <2>1. Freed = {}
    <3>1. \A x \in Freed : FALSE BY <1>1, FreedFacts DEF Kept, AllRaw
    <3> QED BY <3>1
  <2>2. Cardinality({}) = 0 BY FS_EmptySet
  <2> DEFINE q == [i \in 1 .. 0 |-> NULL]
  <2>3. q \in [1 .. 0 -> {}] OBVIOUS
  <2>4. IsList({}, Links, NULL, q, NULL) BY <2>2 DEF IsList
  <2>5. ListOf({}, Links, NULL, NULL) BY <2>2, <2>3, <2>4 DEF ListOf
  <2> QED BY <2>1, <2>5, <1>2 DEF InvList
<1>6. Tree({})
  BY <1>1, <1>2 DEF Tree, Members, Edges, Cover, Once, AllRaw
<1>7. Views({}) BY <1>1 DEF Views, Quiet
<1>8. {} \in SUBSET Nodes OBVIOUS
<1> QED BY <1>1, <1>3, <1>4, <1>5, <1>6, <1>7, <1>8 DEF UpInv

LEMMA ClearedType == Cleared \in Memory
  BY KeyFacts DEF Cleared, Memory, Ptr

LEMMA NewKeeps ==
    ASSUME TypeOK, ~up, Quiet, InvCall, InvGet, AllRaw, critbit_new
    PROVE  TypeOK' /\ up' /\ UpInv'
<1>1. /\ up' = TRUE /\ mem' = Cleared /\ inserts' = 0 /\ removes' = 0
      /\ UNCHANGED <<mutex, wr, rd, st>>
  BY DEF critbit_new
<1>2. TypeOK' BY <1>1, ClearedType DEF TypeOK, Memory
<1>3. Quiet' /\ AllRaw' BY <1>1 DEF Quiet, AllRaw
<1>4. InvCall'
  <2>1. ASSUME NEW w \in Writers PROVE CallOK(w)'
    <3>1. CallOK(w) /\ wr[w].pc = "idle" BY DEF InvCall, Quiet
    <3>2. ~Holding(w)' /\ ~Freeing(w)' BY <3>1, <1>1 DEF Holding, Freeing
    <3> QED BY <3>1, <3>2, <1>1 DEF CallOK
  <2> QED BY <2>1 DEF InvCall
<1>5. InvGet' BY <1>1 DEF InvGet, Quiet
<1>6. Fresh' BY <1>1, <1>2, <1>3, <1>4, <1>5 DEF Fresh, Cleared
<1>7. (Fresh => UpInv)' BY FreshUp, PTL
<1> QED BY <1>1, <1>2, <1>6, <1>7
-----------------------------------------------------------------------------
(* The invariant holds.                                                    *)

LEMMA CInvIs == CInv <=> /\ TypeOK
                         /\ up => UpInv
                         /\ ~up => Quiet /\ InvCall /\ InvGet /\ AllRaw
  BY DEF CInv, AllRaw

LEMMA CritbitInit == Init => CInv
<1> SUFFICES ASSUME Init PROVE CInv OBVIOUS
<1>1. /\ mem = Cleared /\ mutex = NULL /\ wr = [w \in Writers |-> NoCall]
      /\ rd = [r \in Readers |-> NoGet] /\ inserts = 0 /\ removes = 0 /\ up = TRUE
      /\ st = [b \in Blocks |-> "raw"]
  BY DEF Init
<1>2. NoCall \in Calls BY KeyFacts DEF NoCall, Calls
<1>3. wr \in [Writers -> Calls] /\ rd \in [Readers -> Gets] BY <1>1, <1>2, NoGetIs
<1>4. mem \in Memory /\ st \in [Blocks -> {"raw", "held", "live", "gone"}]
  BY <1>1, ClearedType
<1>5. TypeOK BY <1>1, <1>3, <1>4 DEF TypeOK, Memory, Calls, Gets
<1>6. /\ \A w \in Writers : wr[w] = NoCall /\ wr[w].pc = "idle" /\ wr[w].ret = "none"
      /\ \A r \in Readers : rd[r] = NoGet /\ rd[r].pc = "idle"
  BY <1>1, NoGetIs DEF NoCall
<1>7. Quiet BY <1>6 DEF Quiet
<1>8. InvCall BY <1>6 DEF InvCall, CallOK, Holding, Freeing
<1>9. InvGet BY <1>6 DEF InvGet
<1>10. AllRaw BY <1>1 DEF AllRaw
<1>11. UpInv BY <1>1, <1>5, <1>7, <1>8, <1>9, <1>10, FreshUp DEF Fresh
<1> QED BY <1>1, <1>5, <1>11, CInvIs

LEMMA CritbitStep ==
    ASSUME CInv, [Next /\ UniqueKeys]_vars
    PROVE  CInv'
<1>1. TypeOK /\ (up => UpInv) /\ (~up => Quiet /\ InvCall /\ InvGet /\ AllRaw) BY CInvIs
<1>i. CInv' <=> /\ TypeOK'
                /\ up' => UpInv'
                /\ ~up' => Quiet' /\ InvCall' /\ InvGet' /\ AllRaw'
  BY DEF CInv, AllRaw
<1>2. ASSUME NEW w \in Writers, WriterStep(w), UniqueKeys PROVE CInv'
  <2>1. up BY <1>2 DEF WriterStep
  <2> QED BY <2>1, <1>1, <1>2, <1>i, WriterKeeps
<1>3. ASSUME NEW r \in Readers, GetStep(r) PROVE CInv'
  <2>1. up BY <1>3 DEF GetStep
  <2> QED BY <2>1, <1>1, <1>3, <1>i, GetKeeps
<1>4. CASE critbit_delete
  <2>1. up BY <1>4 DEF critbit_delete
  <2> QED BY <2>1, <1>1, <1>4, <1>i, DeleteKeeps
<1>5. CASE critbit_new
  <2>1. ~up BY <1>5 DEF critbit_new
  <2> QED BY <2>1, <1>1, <1>5, <1>i, NewKeeps
<1>6. CASE UNCHANGED vars
  <2>1. /\ mem' = mem /\ st' = st /\ wr' = wr /\ mutex' = mutex /\ rd' = rd /\ up' = up
        /\ inserts' = inserts /\ removes' = removes
    BY <1>6 DEF vars
  <2>2. TypeOK' BY <2>1, <1>1 DEF TypeOK
  <2>3. InvCall' <=> InvCall BY <2>1, StillMemory
  <2>4. InvGet' <=> InvGet BY <2>1 DEF InvGet
  <2>5. ASSUME up PROVE UpInv'
    <3>1. InvBlocks' /\ InvCall' /\ InvNew' /\ InvList' /\ InvGet'
      BY <2>1, <2>4, <2>5, <1>1, StillMemory DEF UpInv
    <3>2. PICK T \in SUBSET Nodes : Tree(T) /\ Views(T) BY <2>5, <1>1 DEF UpInv
    <3>3. Tree(T)' BY <2>1, <3>2, StillMemory
    <3>4. Views(T)'
      <4>1. ASSUME NEW r \in Readers, rd'[r].pc = "walk"
            PROVE  \E F \in SUBSET Nodes : Sight(r, F, T)'
        <5>1. PICK F \in SUBSET Nodes : Sight(r, F, T) BY <2>1, <3>2, <4>1 DEF Views
        <5>2. /\ rd'[r].n \in F
              /\ NULL \notin rd[r].valid =>
                    \A l \in T : IsLeaf(l) /\ mem.path[l] = rd[r].key => Leads(rd'[r].n, l)
          BY <5>1, <2>1 DEF Sight
        <5>3. Sight(r, F, T)' BY <5>1, <5>2, <2>1, SightSame
        <5> QED BY <5>3
      <4> QED BY <4>1 DEF Views
    <3> QED BY <3>1, <3>3, <3>4 DEF UpInv
  <2>6. ASSUME ~up PROVE Quiet' /\ InvCall' /\ InvGet' /\ AllRaw'
    BY <2>1, <2>3, <2>4, <2>6, <1>1 DEF Quiet, AllRaw
  <2> QED BY <2>1, <2>2, <2>5, <2>6, <1>i
<1> QED BY <1>2, <1>3, <1>4, <1>5, <1>6 DEF Next

\* The tree, the list of deleted leaves and the blocks that calls under way
\* hold are at all times what critbit.c takes them for, whatever the threads
\* do, as long as no key is inserted twice.
THEOREM CritbitInvariance == UniqueSpec => []CInv
<1>1. Init => CInv BY CritbitInit
<1>2. CInv /\ [Next /\ UniqueKeys]_vars => CInv' BY CritbitStep
<1> QED BY <1>1, <1>2, PTL DEF UniqueSpec

\* critbit_get, which takes no lock and checks nothing, finds a key that is in
\* the tree throughout the call, with its value; what else it may return is
\* a link free_node wrote, and then the key was removed meanwhile.
THEOREM GetsStable == UniqueSpec => []GetStable
<1>1. CInv => GetStable
  <2> SUFFICES ASSUME CInv PROVE GetStable OBVIOUS
  <2>1. InvGet BY DEF CInv, UpInv
  <2> QED BY <2>1 DEF InvGet, GetStable
<1> QED BY <1>1, CritbitInvariance, PTL

\* critbit_delete, called when no thread is inside, frees every block that was
\* allocated once, from the tree or from the list, and no inner node.
THEOREM DeletesFreeOnce == UniqueSpec => []DeleteFreesOnce
<1>1. CInv => DeleteFreesOnce
  <2> SUFFICES ASSUME CInv, up, Quiet, NEW b \in Blocks
               PROVE  /\ Frees(Leaf(b)) = IF st[b] = "raw" THEN 0 ELSE 1
                      /\ Frees(Inner(b)) = 0
    BY DEF DeleteFreesOnce
  <2> QED BY FreesEach DEF CInv
<1> QED BY <1>1, CritbitInvariance, PTL
-----------------------------------------------------------------------------
(* The writers implement the dictionary.                                   *)

\* Block b has the key.
LeafOf(key, b) == st[b] = "live" /\ mem.path[Leaf(b)] = key

\* A lookup finds the leaf of the key.
Finds ==
    \A key \in Key :
       /\ \A b \in Blocks : LeafOf(key, b) => Find(key) = mem.child[Leaf(b)][0]
       /\ (\A b \in Blocks : ~LeafOf(key, b)) => Find(key) = NULL

LEMMA FindKnown == CInv /\ up => Finds
<1> SUFFICES ASSUME CInv, up, NEW key \in Key
             PROVE  /\ \A b \in Blocks : LeafOf(key, b) => Find(key) = mem.child[Leaf(b)][0]
                    /\ (\A b \in Blocks : ~LeafOf(key, b)) => Find(key) = NULL
  BY DEF Finds
<1>1. TypeOK /\ InvBlocks BY DEF CInv, UpInv
<1>2. PICK T \in SUBSET Nodes : Tree(T) BY DEF CInv, UpInv
<1>3. PICK n : n = At(k_parent(key)) OBVIOUS
<1>4. Find(key) = IF n = NULL THEN NULL
                  ELSE IF mem.path[n] = key THEN mem.child[n][0] ELSE NULL
  BY <1>3 DEF Find, Value
<1>5. ASSUME NEW b \in Blocks, LeafOf(key, b) PROVE Find(key) = mem.child[Leaf(b)][0]
  <2>1. IsLeaf(Leaf(b)) BY <1>1 DEF InvBlocks
  <2>2. n = Leaf(b) BY <2>1, <1>1, <1>2, <1>3, <1>5, LookupFacts DEF LeafOf
  <2>3. n # NULL /\ mem.path[n] = key BY <2>2, <1>5, NodeFacts DEF LeafOf
  <2> QED BY <2>2, <2>3, <1>4
<1>6. ASSUME \A b \in Blocks : ~LeafOf(key, b) PROVE Find(key) = NULL
  <2>1. ~Present(key) BY <1>1, <1>2, <1>6, LookupFacts DEF LeafOf
  <2> QED BY <2>1, <1>3, <1>4 DEF Present
<1> QED BY <1>5, <1>6

\* The refinement mapping, by name.
Asked(c) == IF c.pc = "idle" THEN NULL ELSE [op |-> c.op, key |-> c.key, value |-> c.value]
TheMap   == [k \in Keys |-> IF up THEN Find(k) ELSE NULL]
TheCall  == [w \in Writers |-> IF wr[w].pc = "idle" THEN NULL ELSE
               [op |-> wr[w].op, key |-> wr[w].key, value |-> wr[w].value]]
TheRes   == [w \in Writers |-> wr[w].ret]

\* The dictionary changes with the live leaves only.
LEMMA MapSame ==
    ASSUME Finds, Finds', up, up',
           \A c \in Blocks : st'[c] = "live" <=> st[c] = "live",
           \A c \in Blocks : st[c] = "live" =>
              /\ mem'.path[Leaf(c)] = mem.path[Leaf(c)]
              /\ mem'.child[Leaf(c)][0] = mem.child[Leaf(c)][0]
    PROVE  TheMap' = TheMap
<1>1. ASSUME NEW key \in Key PROVE Find(key)' = Find(key)
  <2>1. CASE \E c \in Blocks : LeafOf(key, c)
    <3>1. PICK c \in Blocks : LeafOf(key, c) BY <2>1
    <3>2. LeafOf(key, c)' BY <3>1 DEF LeafOf
    <3> QED BY <3>1, <3>2 DEF Finds, LeafOf
  <2>2. CASE \A c \in Blocks : ~LeafOf(key, c)
    <3>1. \A c \in Blocks : ~LeafOf(key, c)' BY <2>2 DEF LeafOf
    <3> QED BY <2>2, <3>1 DEF Finds
  <2> QED BY <2>1, <2>2
<1> QED BY <1>1, KeyFacts DEF TheMap

\* A leaf more is a key more.
LEMMA MapGains ==
    ASSUME Finds, Finds', up, up', NEW b \in Blocks, NEW key \in Keys, NEW v,
           \A c \in Blocks : st'[c] = "live" <=> st[c] = "live" \/ c = b,
           mem'.path[Leaf(b)] = key, mem'.child[Leaf(b)][0] = v,
           \A c \in Blocks : st[c] = "live" =>
              /\ mem.path[Leaf(c)] # key
              /\ mem'.path[Leaf(c)] = mem.path[Leaf(c)]
              /\ mem'.child[Leaf(c)][0] = mem.child[Leaf(c)][0]
    PROVE  TheMap' = [TheMap EXCEPT ![key] = v] /\ TheMap[key] = NULL
<1>0. Keys \subseteq Key BY KeyFacts
<1>1. Find(key) = NULL
  <2>1. \A c \in Blocks : ~LeafOf(key, c) BY DEF LeafOf
  <2> QED BY <2>1, <1>0 DEF Finds
<1>2. Find(key)' = v
  <2>1. LeafOf(key, b)' BY DEF LeafOf
  <2> QED BY <2>1, <1>0 DEF Finds
<1>3. ASSUME NEW j \in Keys, j # key PROVE Find(j)' = Find(j)
  <2>1. CASE \E c \in Blocks : LeafOf(j, c)
    <3>1. PICK c \in Blocks : LeafOf(j, c) BY <2>1
    <3>2. LeafOf(j, c)' BY <3>1 DEF LeafOf
    <3> QED BY <3>1, <3>2, <1>0 DEF Finds, LeafOf
  <2>2. CASE \A c \in Blocks : ~LeafOf(j, c)
    <3>1. \A c \in Blocks : ~LeafOf(j, c)' BY <2>2, <1>3 DEF LeafOf
    <3> QED BY <2>2, <3>1, <1>0 DEF Finds
  <2> QED BY <2>1, <2>2
<1> QED BY <1>1, <1>2, <1>3 DEF TheMap

\* A leaf less is a key less.
LEMMA MapLoses ==
    ASSUME Finds, Finds', up, up', NEW b \in Blocks, NEW key \in Keys, LeafOf(key, b),
           \A c \in Blocks : LeafOf(key, c) => c = b,
           \A c \in Blocks : st'[c] = "live" <=> st[c] = "live" /\ c # b,
           \A c \in Blocks : st[c] = "live" =>
              /\ mem'.path[Leaf(c)] = mem.path[Leaf(c)]
              /\ mem'.child[Leaf(c)][0] = mem.child[Leaf(c)][0]
    PROVE  /\ TheMap' = [TheMap EXCEPT ![key] = NULL]
           /\ TheMap[key] = mem.child[Leaf(b)][0]
<1>0. Keys \subseteq Key BY KeyFacts
<1>1. Find(key) = mem.child[Leaf(b)][0] BY <1>0 DEF Finds
<1>2. Find(key)' = NULL
  <2>1. \A c \in Blocks : ~LeafOf(key, c)' BY DEF LeafOf
  <2> QED BY <2>1, <1>0 DEF Finds
<1>3. ASSUME NEW j \in Keys, j # key PROVE Find(j)' = Find(j)
  <2>1. CASE \E c \in Blocks : LeafOf(j, c)
    <3>1. PICK c \in Blocks : LeafOf(j, c) BY <2>1
    <3>2. c # b BY <3>1, <1>3 DEF LeafOf
    <3>3. LeafOf(j, c)' BY <3>1, <3>2 DEF LeafOf
    <3> QED BY <3>1, <3>3, <1>0 DEF Finds, LeafOf
  <2>2. CASE \A c \in Blocks : ~LeafOf(j, c)
    <3>1. \A c \in Blocks : ~LeafOf(j, c)' BY <2>2, <1>3 DEF LeafOf
    <3> QED BY <2>2, <3>1, <1>0 DEF Finds
  <2> QED BY <2>1, <2>2
<1> QED BY <1>1, <1>2, <1>3 DEF TheMap

\* What a change of a call is to the dictionary.
LEMMA AskedNext ==
    ASSUME TypeOK, NEW w \in Writers, wr' = [wr EXCEPT ![w] = wr'[w]]
    PROVE  /\ TheCall' = [TheCall EXCEPT ![w] = Asked(wr'[w])]
           /\ TheRes' = [TheRes EXCEPT ![w] = wr'[w].ret]
           /\ TheCall[w] = Asked(wr[w]) /\ TheRes[w] = wr[w].ret
<1>1. wr \in [Writers -> Calls] BY TypeFacts
<1>2. \A v \in Writers \ {w} : wr'[v] = wr[v] BY <1>1
<1> QED BY <1>2 DEF TheCall, TheRes, Asked
\* The dictionary's actions, over the names of the mapping.
LEMMA MapActions ==
    ASSUME NEW w \in Writers
    PROVE  /\ TheMap' = TheMap /\ TheCall' = TheCall /\ TheRes' = TheRes =>
                 UNCHANGED Map!vars
           /\ TheMap' = TheMap /\ TheRes' = TheRes /\ TheCall[w] = NULL
                 /\ (\E c \in Map!Calls : TheCall' = [TheCall EXCEPT ![w] = c]) => Map!Next
           /\ TheMap' = TheMap /\ TheRes[w] # "none"
                 /\ TheCall' = [TheCall EXCEPT ![w] = NULL]
                 /\ TheRes' = [TheRes EXCEPT ![w] = "none"] => Map!Next
<1>1. ASSUME TheMap' = TheMap, TheCall' = TheCall, TheRes' = TheRes
      PROVE  UNCHANGED Map!vars
  BY <1>1 DEF Map!vars, TheMap, TheCall, TheRes
<1>2. ASSUME TheMap' = TheMap, TheRes' = TheRes, TheCall[w] = NULL,
             NEW c \in Map!Calls, TheCall' = [TheCall EXCEPT ![w] = c]
      PROVE  Map!Next
  <2>1. Map!Call(w) BY <1>2 DEF Map!Call, TheMap, TheCall, TheRes
  <2> QED BY <2>1 DEF Map!Next
<1>3. ASSUME TheMap' = TheMap, TheRes[w] # "none",
             TheCall' = [TheCall EXCEPT ![w] = NULL],
             TheRes' = [TheRes EXCEPT ![w] = "none"]
      PROVE  Map!Next
  <2>1. Map!Return(w) BY <1>3 DEF Map!Return, TheMap, TheCall, TheRes
  <2> QED BY <2>1 DEF Map!Next
<1> QED BY <1>1, <1>2, <1>3

LEMMA MapEffects ==
    ASSUME NEW w \in Writers, NEW c, TheCall[w] = c, c # NULL, TheRes[w] = "none",
           TheCall' = TheCall, NEW res, TheRes' = [TheRes EXCEPT ![w] = res]
    PROVE  /\ c.op = "insert" /\ res = "ENOMEM" /\ TheMap' = TheMap => Map!Next
           /\ c.op = "insert" /\ res = "0" /\ TheMap[c.key] = NULL
                 /\ TheMap' = [TheMap EXCEPT ![c.key] = c.value] => Map!Next
           /\ c.op = "remove" /\ res = TheMap[c.key]
                 /\ TheMap' = [TheMap EXCEPT ![c.key] = NULL] => Map!Next
<1>o. Map!Observe BY DEF Map!Observe
<1>1. ASSUME c.op = "insert", res = "ENOMEM", TheMap' = TheMap PROVE Map!Next
  <2>1. Map!InsertNoMemory(w)
    BY <1>o, <1>1 DEF Map!InsertNoMemory, Map!Effect, TheMap, TheCall, TheRes
  <2> QED BY <2>1 DEF Map!Next
<1>2. ASSUME c.op = "insert", res = "0", TheMap[c.key] = NULL,
             TheMap' = [TheMap EXCEPT ![c.key] = c.value]
      PROVE  Map!Next
  <2>1. Map!InsertNew(w)
    BY <1>o, <1>2 DEF Map!InsertNew, Map!Effect, Map!With, TheMap, TheCall, TheRes
  <2> QED BY <2>1 DEF Map!Next
<1>3. ASSUME c.op = "remove", res = TheMap[c.key],
             TheMap' = [TheMap EXCEPT ![c.key] = NULL]
      PROVE  Map!Next
  <2>1. Map!Remove(w)
    BY <1>o, <1>3 DEF Map!Remove, Map!Effect, Map!With, TheMap, TheCall, TheRes
  <2> QED BY <2>1 DEF Map!Next
<1> QED BY <1>1, <1>2, <1>3
\* A call under way is a call of the dictionary.
LEMMA AskedIs ==
    ASSUME NEW c, c.pc # "idle", c.key \in Keys,
           \/ c.op = "insert" /\ c.value \in Values
           \/ c.op = "remove" /\ c.value = NULL
    PROVE  /\ Asked(c) \in Map!Calls /\ Asked(c) # NULL
           /\ Asked(c).op = c.op /\ Asked(c).key = c.key /\ Asked(c).value = c.value
<1>1. Asked(c) = [op |-> c.op, key |-> c.key, value |-> c.value] BY DEF Asked
<1>2. Asked(c) \in Map!Calls BY <1>1 DEF Map!Calls
<1>3. Asked(c) # NULL BY <1>2, MarkAssumption
<1> QED BY <1>1, <1>2, <1>3

\* What a step of a writer has to do with the dictionary, whichever it is.
LEMMA WriterFacts ==
    ASSUME CInv, CInv', up, NEW w \in Writers, WriterStep(w)
    PROVE  /\ Finds /\ Finds' /\ up' /\ WriterNext(w) /\ CallOK(w)
           /\ wr \in [Writers -> Calls] /\ wr[w] \in Calls
           /\ TheCall' = [TheCall EXCEPT ![w] = Asked(wr'[w])]
           /\ TheRes' = [TheRes EXCEPT ![w] = wr'[w].ret]
           /\ TheCall[w] = Asked(wr[w]) /\ TheRes[w] = wr[w].ret
           /\ \A c \in Blocks : st[c] = "live" =>
                 /\ mem'.path[Leaf(c)] = mem.path[Leaf(c)]
                 /\ mem'.child[Leaf(c)][0] = mem.child[Leaf(c)][0]
           /\ (st[wr[w].k] = "held" /\ wr[w].k \in Blocks =>
                 /\ mem'.path[Leaf(wr[w].k)] = mem.path[Leaf(wr[w].k)]
                 /\ mem'.child[Leaf(wr[w].k)][0] = mem.child[Leaf(wr[w].k)][0])
<1>1. /\ TypeOK /\ InvBlocks /\ InvCall /\ InvNew /\ WriterNext(w) /\ up'
  BY DEF CInv, UpInv, WriterStep
<1>2. PICK T \in SUBSET Nodes : Tree(T) BY DEF CInv, UpInv
<1>3. Finds BY FindKnown
<1>4. (CInv /\ up => Finds)' BY FindKnown, PTL
<1>5. Effect(w, T) BY <1>1, <1>2, Effects
<1>6. Keeps(w) BY <1>1, <1>2, <1>5, LeavesKept
<1>7. wr' = [wr EXCEPT ![w] = wr'[w]] BY <1>1, <1>2, NewCalls
<1>8. wr \in [Writers -> Calls] /\ wr[w] \in Calls BY <1>1, TypeFacts
<1>9. /\ TheCall' = [TheCall EXCEPT ![w] = Asked(wr'[w])]
      /\ TheRes' = [TheRes EXCEPT ![w] = wr'[w].ret]
      /\ TheCall[w] = Asked(wr[w]) /\ TheRes[w] = wr[w].ret
  BY <1>1, <1>7, AskedNext
<1>10. /\ \A c \in Blocks : st[c] = "live" =>
              /\ mem'.path[Leaf(c)] = mem.path[Leaf(c)]
              /\ mem'.child[Leaf(c)][0] = mem.child[Leaf(c)][0]
       /\ (st[wr[w].k] = "held" /\ wr[w].k \in Blocks =>
              /\ mem'.path[Leaf(wr[w].k)] = mem.path[Leaf(wr[w].k)]
              /\ mem'.child[Leaf(wr[w].k)][0] = mem.child[Leaf(wr[w].k)][0])
  BY <1>6 DEF Keeps
<1>11. CallOK(w) BY <1>1 DEF InvCall
<1> QED BY <1>1, <1>3, <1>4, <1>8, <1>9, <1>10, <1>11

\* An update of a field by what it has.
LEMMA NoChange ==
    ASSUME NEW w \in Writers
    PROVE  /\ [TheCall EXCEPT ![w] = TheCall[w]] = TheCall
           /\ [TheRes EXCEPT ![w] = TheRes[w]] = TheRes
  BY DEF TheCall, TheRes
LEMMA NoMapChange ==
    ASSUME NEW key \in Keys, TheMap[key] = NULL
    PROVE  [TheMap EXCEPT ![key] = NULL] = TheMap
  BY DEF TheMap

\* The steps that are none of the dictionary, its calls and its returns.
LEMMA CallMaps ==
    ASSUME CInv, CInv', up, NEW w \in Writers, WriterStep(w),
           \/ CallInsert(w) \/ CallRemove(w) \/ Lock(w) \/ InsertAlloc(w)
           \/ RemoveFree(w) \/ WriterReturn(w) \/ InsertNoMemory(w)
    PROVE  Map!Next \/ UNCHANGED Map!vars
<1>1. /\ Finds /\ Finds' /\ up' /\ CallOK(w)
      /\ wr \in [Writers -> Calls] /\ wr[w] \in Calls
      /\ TheCall' = [TheCall EXCEPT ![w] = Asked(wr'[w])]
      /\ TheRes' = [TheRes EXCEPT ![w] = wr'[w].ret]
      /\ TheCall[w] = Asked(wr[w]) /\ TheRes[w] = wr[w].ret
      /\ \A c \in Blocks : st[c] = "live" =>
            /\ mem'.path[Leaf(c)] = mem.path[Leaf(c)]
            /\ mem'.child[Leaf(c)][0] = mem.child[Leaf(c)][0]
  BY WriterFacts
<1>2. TypeOK BY DEF CInv
<1>3. \A c \in Blocks : st'[c] = "live" <=> st[c] = "live"
  <2>1. CASE InsertAlloc(w)
    <3>1. PICK b \in Blocks : Makes(b, wr[w].key, wr[w].value) BY <2>1, <1>2, AllocFacts
    <3>2. st \in [Blocks -> {"raw", "held", "live", "gone"}] BY <1>2, TypeFacts
    <3> QED BY <3>1, <3>2 DEF Makes
  <2>2. CASE ~InsertAlloc(w)
    <3>1. st' = st
      BY <2>2 DEF CallInsert, CallRemove, Call, Lock, RemoveFree, WriterReturn,
                  InsertNoMemory
    <3> QED BY <3>1
  <2> QED BY <2>1, <2>2
<1>4. TheMap' = TheMap BY <1>1, <1>3, MapSame
<1>5. CASE CallInsert(w) \/ CallRemove(w)
  <2>1. PICK op \in {"insert", "remove"}, key \in Keys, value \in Values \cup {NULL},
           first \in {"alloc", "lock"} :
           /\ \/ op = "insert" /\ value \in Values
              \/ op = "remove" /\ value = NULL
           /\ Call(w, op, key, value, first)
    <3>1. CASE CallInsert(w)
      <4>1. PICK key \in Keys, value \in Values : Call(w, "insert", key, value, "alloc")
        BY <3>1 DEF CallInsert
      <4> QED BY <4>1, Zenon
    <3>2. CASE CallRemove(w)
      <4>1. PICK key \in Keys : Call(w, "remove", key, NULL, "lock")
        BY <3>2 DEF CallRemove
      <4> QED BY <4>1, Zenon
    <3> QED BY <1>5, <3>1, <3>2
  <2>2. /\ wr[w].pc = "idle"
        /\ wr'[w] = [NoCall EXCEPT !.pc = first, !.op = op, !.key = key, !.value = value]
    BY <2>1, <1>1 DEF Call
  <2>3. /\ wr'[w].pc # "idle" /\ wr'[w].key = key /\ wr'[w].op = op
        /\ wr'[w].value = value /\ wr'[w].ret = "none"
    BY <2>2 DEF NoCall
  <2>4. Asked(wr'[w]) \in Map!Calls BY <2>1, <2>3, AskedIs
  <2>5. wr[w].ret = "none" BY <2>2, <1>1 DEF CallOK, NoCall
  <2>6. TheRes' = TheRes BY <2>3, <2>5, <1>1, NoChange
  <2>7. TheCall[w] = NULL BY <2>2, <1>1 DEF Asked
  <2> QED BY <2>4, <2>6, <2>7, <1>1, <1>4, MapActions
<1>6. CASE Lock(w) \/ InsertAlloc(w) \/ RemoveFree(w)
  <2>1. /\ wr'[w].pc # "idle" /\ wr[w].pc # "idle" /\ wr'[w].op = wr[w].op
        /\ wr'[w].key = wr[w].key /\ wr'[w].value = wr[w].value
        /\ wr'[w].ret = wr[w].ret
    <3>1. wr[w].op \in {"none", "insert", "remove"} BY <1>1 DEF Calls
    <3>2. CASE Lock(w) BY <3>1, <3>2, <1>1 DEF Lock, Goto, Calls
    <3>3. CASE InsertAlloc(w) BY <3>3, <1>1 DEF InsertAlloc, Calls
    <3>4. CASE RemoveFree(w) BY <3>4, <1>1 DEF RemoveFree, Goto, Calls
    <3> QED BY <1>6, <3>2, <3>3, <3>4
  <2>2. Asked(wr'[w]) = Asked(wr[w]) BY <2>1 DEF Asked
  <2>3. TheCall' = TheCall /\ TheRes' = TheRes BY <2>1, <2>2, <1>1, NoChange
  <2> QED BY <2>3, <1>4, MapActions
<1>7. CASE WriterReturn(w)
  <2>1. wr[w].pc = "return" /\ wr'[w] = NoCall BY <1>7, <1>1 DEF WriterReturn
  <2>2. wr[w].ret # "none" BY <2>1, <1>1 DEF CallOK
  <2>3. wr'[w].pc = "idle" /\ wr'[w].ret = "none" BY <2>1 DEF NoCall
  <2>4. Asked(wr'[w]) = NULL BY <2>3 DEF Asked
  <2> QED BY <2>2, <2>3, <2>4, <1>1, <1>4, MapActions
<1>8. CASE InsertNoMemory(w)
  <2>1. /\ wr[w].pc = "alloc"
        /\ wr'[w] = [wr[w] EXCEPT !.pc = "return", !.ret = "ENOMEM"]
    BY <1>8, <1>1 DEF InsertNoMemory, Return
  <2>2. /\ wr'[w].pc # "idle" /\ wr'[w].op = wr[w].op
        /\ wr'[w].key = wr[w].key /\ wr'[w].value = wr[w].value
        /\ wr'[w].ret = "ENOMEM"
    BY <2>1, <1>1 DEF Calls
  <2>3. Asked(wr'[w]) = Asked(wr[w]) BY <2>1, <2>2 DEF Asked
  <2>4. TheCall' = TheCall BY <2>3, <1>1, NoChange
  <2>5. /\ wr[w].key \in Keys /\ wr[w].op = "insert" /\ wr[w].value \in Values
        /\ wr[w].ret = "none"
    BY <2>1, <1>1 DEF CallOK
  <2>6. Asked(wr[w]) # NULL /\ Asked(wr[w]).op = "insert" BY <2>1, <2>5, AskedIs
  <2>7. PICK c : c = Asked(wr[w]) OBVIOUS
  <2>8. TheCall[w] = c /\ c # NULL /\ c.op = "insert" BY <1>1, <2>6, <2>7
  <2>9. TheRes[w] = "none" /\ TheRes' = [TheRes EXCEPT ![w] = "ENOMEM"]
    BY <1>1, <2>2, <2>5
  <2> QED BY <2>4, <2>8, <2>9, <1>4, MapEffects
<1> QED BY <1>5, <1>6, <1>7, <1>8
\* The store that links a leaf is the insert.
LEMMA PublishMaps ==
    ASSUME CInv, CInv', up, NEW w \in Writers, WriterStep(w), InsertPublish(w)
    PROVE  Map!Next
<1>1. /\ Finds /\ Finds' /\ up' /\ CallOK(w)
      /\ wr \in [Writers -> Calls] /\ wr[w] \in Calls
      /\ TheCall' = [TheCall EXCEPT ![w] = Asked(wr'[w])]
      /\ TheRes' = [TheRes EXCEPT ![w] = wr'[w].ret]
      /\ TheCall[w] = Asked(wr[w]) /\ TheRes[w] = wr[w].ret
      /\ \A c \in Blocks : st[c] = "live" =>
            /\ mem'.path[Leaf(c)] = mem.path[Leaf(c)]
            /\ mem'.child[Leaf(c)][0] = mem.child[Leaf(c)][0]
      /\ (st[wr[w].k] = "held" /\ wr[w].k \in Blocks =>
            /\ mem'.path[Leaf(wr[w].k)] = mem.path[Leaf(wr[w].k)]
            /\ mem'.child[Leaf(wr[w].k)][0] = mem.child[Leaf(wr[w].k)][0])
  BY WriterFacts
<1>2. TypeOK /\ InvNew BY DEF CInv, UpInv
<1>3. /\ wr[w].pc = "insert" /\ st' = [st EXCEPT ![wr[w].k] = "live"]
      /\ wr'[w] = [wr[w] EXCEPT !.pc = "return", !.ret = "0"]
  BY <1>1 DEF InsertPublish, Return
<1>4. /\ wr[w].key \in Keys /\ wr[w].op = "insert" /\ wr[w].value \in Values
      /\ wr[w].ret = "none" /\ Holding(w) /\ Inserting(w)
  BY <1>1, <1>3 DEF CallOK, Holding, Inserting
<1>5. PICK b \in Blocks, key \in Keys, v \in Values :
         b = wr[w].k /\ key = wr[w].key /\ v = wr[w].value
  BY <1>1, <1>4 DEF CallOK
<1>6. st[b] = "held" /\ mem.path[Leaf(b)] = key /\ mem.child[Leaf(b)][0] = v
  BY <1>1, <1>4, <1>5 DEF CallOK
<1>7. mem'.path[Leaf(b)] = key /\ mem'.child[Leaf(b)][0] = v BY <1>1, <1>5, <1>6
<1>8. \A c \in Blocks : st'[c] = "live" <=> st[c] = "live" \/ c = b
  <2>1. st \in [Blocks -> {"raw", "held", "live", "gone"}] BY <1>2, TypeFacts
  <2> QED BY <2>1, <1>3, <1>5
<1>9. \A c \in Blocks : st[c] = "live" => mem.path[Leaf(c)] # key
  BY <1>2, <1>4, <1>5 DEF InvNew
<1>10. TheMap' = [TheMap EXCEPT ![key] = v] /\ TheMap[key] = NULL
  BY <1>1, <1>7, <1>8, <1>9, MapGains
<1>11. /\ wr'[w].pc # "idle" /\ wr'[w].op = wr[w].op
       /\ wr'[w].key = wr[w].key /\ wr'[w].value = wr[w].value
       /\ wr'[w].ret = "0"
  BY <1>1, <1>3 DEF Calls
<1>12. Asked(wr'[w]) = Asked(wr[w]) BY <1>3, <1>11 DEF Asked
<1>13. TheCall' = TheCall BY <1>1, <1>12, NoChange
<1>14. /\ Asked(wr[w]) # NULL /\ Asked(wr[w]).op = "insert"
       /\ Asked(wr[w]).key = key /\ Asked(wr[w]).value = v
  BY <1>3, <1>4, <1>5, AskedIs
<1>15. PICK c : c = Asked(wr[w]) OBVIOUS
<1>16. TheCall[w] = c /\ c # NULL /\ c.op = "insert" /\ c.key = key /\ c.value = v
  BY <1>1, <1>14, <1>15
<1>17. TheRes[w] = "none" /\ TheRes' = [TheRes EXCEPT ![w] = "0"] BY <1>1, <1>4, <1>11
<1> QED BY <1>10, <1>13, <1>16, <1>17, MapEffects

\* The lookup that finds nothing, or the store that unlinks a leaf, is the
\* remove.
LEMMA RemoveMaps ==
    ASSUME CInv, CInv', up, NEW w \in Writers, WriterStep(w),
           RemoveAbsent(w) \/ RemoveUnlink(w)
    PROVE  Map!Next
<1>1. /\ Finds /\ Finds' /\ up' /\ CallOK(w)
      /\ wr \in [Writers -> Calls] /\ wr[w] \in Calls
      /\ TheCall' = [TheCall EXCEPT ![w] = Asked(wr'[w])]
      /\ TheRes' = [TheRes EXCEPT ![w] = wr'[w].ret]
      /\ TheCall[w] = Asked(wr[w]) /\ TheRes[w] = wr[w].ret
      /\ \A c \in Blocks : st[c] = "live" =>
            /\ mem'.path[Leaf(c)] = mem.path[Leaf(c)]
            /\ mem'.child[Leaf(c)][0] = mem.child[Leaf(c)][0]
  BY WriterFacts
<1>2. TypeOK /\ InvBlocks BY DEF CInv, UpInv
<1>3. PICK T \in SUBSET Nodes : Tree(T) BY DEF CInv, UpInv
<1>4. wr[w].pc = "remove" BY DEF RemoveAbsent, RemoveUnlink
<1>5. /\ wr[w].key \in Keys /\ wr[w].op = "remove" /\ wr[w].value = NULL
      /\ wr[w].ret = "none"
  BY <1>1, <1>4 DEF CallOK
<1>6. PICK key \in Keys : key = wr[w].key BY <1>5
<1>7. key \in Key BY KeyFacts
<1>8. /\ Asked(wr[w]) # NULL /\ Asked(wr[w]).op = "remove" /\ Asked(wr[w]).key = key
  BY <1>4, <1>5, <1>6, AskedIs
<1>c. PICK a : a = Asked(wr[w]) OBVIOUS
<1>d. TheCall[w] = a /\ a # NULL /\ a.op = "remove" /\ a.key = key BY <1>1, <1>8, <1>c
<1>9. CASE RemoveAbsent(w)
  <2>1. /\ ~Present(key) /\ st' = st
        /\ wr'[w] = [wr[w] EXCEPT !.pc = "return", !.ret = NULL]
    BY <1>1, <1>6, <1>9 DEF RemoveAbsent, Return
  <2>2. /\ wr'[w].pc # "idle" /\ wr'[w].op = wr[w].op
        /\ wr'[w].key = wr[w].key /\ wr'[w].value = wr[w].value
        /\ wr'[w].ret = NULL
    BY <1>1, <2>1 DEF Calls
  <2>3. Asked(wr'[w]) = Asked(wr[w]) BY <1>4, <2>2 DEF Asked
  <2>4. TheCall' = TheCall BY <1>1, <2>3, NoChange
  <2>5. TheMap' = TheMap BY <1>1, <2>1, MapSame
  <2>6. \A b \in Blocks : ~LeafOf(key, b)
    <3>1. \A b \in Blocks : IsLeaf(Leaf(b)) BY <1>2 DEF InvBlocks
    <3> QED BY <3>1, <2>1, <1>2, <1>3, <1>7, LookupFacts DEF LeafOf
  <2>7. TheMap[key] = NULL BY <2>6, <1>1, <1>7 DEF Finds, TheMap
  <2>8. TheMap' = [TheMap EXCEPT ![key] = NULL] BY <2>5, <2>7, NoMapChange
  <2>9. TheRes[w] = "none" /\ TheRes' = [TheRes EXCEPT ![w] = TheMap[key]]
    BY <1>1, <1>5, <2>2, <2>7
  <2> QED BY <1>d, <2>4, <2>8, <2>9, MapEffects
<1>10. CASE RemoveUnlink(w)
  <2>1. Present(key) BY <1>6, <1>10 DEF RemoveUnlink
  <2>2. PICK b \in Blocks : /\ At(k_parent(key)) = Leaf(b) /\ st[b] = "live"
                            /\ mem.path[Leaf(b)] = key
    BY <2>1, <1>2, <1>3, <1>7, LookupFacts
  <2>3. Leaf(b)[1] = b BY NodeFacts
  <2>4. /\ st' = [st EXCEPT ![b] = "gone"]
        /\ wr'[w] = [wr[w] EXCEPT !.pc = "free", !.k = b, !.ret = mem.child[Leaf(b)][0]]
    BY <1>1, <1>6, <1>10, <2>2, <2>3 DEF RemoveUnlink
  <2>5. /\ wr'[w].pc # "idle" /\ wr'[w].op = wr[w].op
        /\ wr'[w].key = wr[w].key /\ wr'[w].value = wr[w].value
        /\ wr'[w].ret = mem.child[Leaf(b)][0]
    BY <1>1, <2>4 DEF Calls
  <2>6. Asked(wr'[w]) = Asked(wr[w]) BY <1>4, <2>5 DEF Asked
  <2>7. TheCall' = TheCall BY <1>1, <2>6, NoChange
  <2>8. \A c \in Blocks : LeafOf(key, c) => c = b
    <3>1. \A c \in Blocks : IsLeaf(Leaf(c)) BY <1>2 DEF InvBlocks
    <3>2. \A c \in Blocks : LeafOf(key, c) => Leaf(c) = Leaf(b)
      BY <3>1, <2>2, <1>2, <1>3, <1>7, LookupFacts DEF LeafOf
    <3> QED BY <3>2, NodeFacts
  <2>9. \A c \in Blocks : st'[c] = "live" <=> st[c] = "live" /\ c # b
    <3>1. st \in [Blocks -> {"raw", "held", "live", "gone"}] BY <1>2, TypeFacts
    <3> QED BY <3>1, <2>4
  <2>10. LeafOf(key, b) BY <2>2 DEF LeafOf
  <2>11. /\ TheMap' = [TheMap EXCEPT ![key] = NULL]
         /\ TheMap[key] = mem.child[Leaf(b)][0]
    BY <1>1, <2>8, <2>9, <2>10, MapLoses
  <2>12. TheRes[w] = "none" /\ TheRes' = [TheRes EXCEPT ![w] = TheMap[key]]
    BY <1>1, <1>5, <2>5, <2>11
  <2> QED BY <1>d, <2>7, <2>11, <2>12, MapEffects
<1> QED BY <1>9, <1>10

LEMMA MapInit == Init => Map!Init
<1> SUFFICES ASSUME Init PROVE Map!Init OBVIOUS
<1>1. CInv /\ up BY CritbitInit DEF Init
<1>2. Finds BY <1>1, FindKnown
<1>3. \A b \in Blocks : st[b] = "raw" BY DEF Init
<1>4. \A key \in Key : Find(key) = NULL BY <1>2, <1>3 DEF Finds, LeafOf
<1>5. TheMap = [k \in Keys |-> NULL] BY <1>4, KeyFacts DEF TheMap
<1>6. \A w \in Writers : wr[w].pc = "idle" /\ wr[w].ret = "none" BY DEF Init, NoCall
<1>7. TheCall = [w \in Writers |-> NULL] /\ TheRes = [w \in Writers |-> "none"]
  BY <1>6 DEF TheCall, TheRes
<1>8. \A v : <<>> = [r \in {} |-> v] OBVIOUS
<1> QED BY <1>5, <1>7, <1>8 DEF Map!Init, TheMap, TheCall, TheRes

LEMMA MapStep ==
    ASSUME CInv, CInv', [Next /\ UniqueKeys]_vars
    PROVE  [up /\ up' => UNCHANGED Map!vars \/ Map!Next]_<<mem, wr, up>>
<1>1. ASSUME NEW w \in Writers, WriterStep(w) PROVE UNCHANGED Map!vars \/ Map!Next
  <2>1. up /\ WriterNext(w) BY <1>1 DEF WriterStep
  <2> QED BY <1>1, <2>1, CallMaps, PublishMaps, RemoveMaps DEF WriterNext
<1>2. ASSUME NEW r \in Readers, GetStep(r) PROVE UNCHANGED <<mem, wr, up>>
  BY <1>2 DEF GetStep, GetNext
<1>3. CASE critbit_delete \/ critbit_new BY <1>3 DEF critbit_delete, critbit_new
<1>4. CASE UNCHANGED vars BY <1>4 DEF vars
<1> QED BY <1>1, <1>2, <1>3, <1>4 DEF Next

\* Each life of the tree is a behaviour of the dictionary: an insert or a
\* remove takes effect at the one store of critbit_insert or critbit_remove
\* that links or unlinks the leaf, or finds that there is nothing to remove or
\* no memory, and returns what the dictionary has at that moment.
THEOREM WritersRefine == UniqueSpec => WritersImplementMap
<1>1. Init => Map!Init BY MapInit
<1>2. CInv /\ CInv' /\ [Next /\ UniqueKeys]_vars =>
         [up /\ up' => UNCHANGED Map!vars \/ Map!Next]_<<mem, wr, up>>
  BY MapStep
<1> QED BY <1>1, <1>2, CritbitInvariance, PTL DEF UniqueSpec, WritersImplementMap
=============================================================================
