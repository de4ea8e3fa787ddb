------------------------- MODULE CritnibLifeProofs -------------------------
(***************************************************************************)
(* The blocks of a critnib over its whole life: the tree has its shape,    *)
(* critnib_delete frees every block exactly once, and malloc then has all  *)
(* of them back.                                                           *)
(*                                                                         *)
(* The first part of the module is about what critnib_delete does in a     *)
(* given state: its descent meets each live block once, its loops over the *)
(* pools each pooled one, its loop over the pending slots each one that is *)
(* in its grace period.  The second part is the inductive invariant, which *)
(* says that there are no others.  The third part takes that invariant to  *)
(* critnib-tag.c, which has the same structure: a key that its caller has  *)
(* inserted stays in the tree until its own remove, and the descent of     *)
(* critnib_tag_remove then never leaves the tree.  Its readers keep, each  *)
(* for its own call, what CritnibProofs and CritnibLeProofs say of theirs. *)
(***************************************************************************)
EXTENDS CritnibTag, CritnibLeProofs, SequenceTheorems

\* A writer has the block in its hands.
Owning(w, x) ==
    \/ /\ wpc[w] \in {"set_key", "set_value", "walk", "clear", "link", "head",
                      "publish"}
       /\ x = wk[w]
    \/ wpc[w] \in {"clear", "link", "head", "publish"} /\ x = wm[w]

InvHeld == \A x \in Obj : st[x] = "held" => \E w \in Writers : Owning(w, x)

\* A block in its grace period is in a pending slot, or it is the leaf that a
\* remove is about to put there.
InSlots(x) == \E i \in Slots : x \in {pending_del_nodes[i], pending_del_leaves[i]}

InvGone == \A x \in Obj : st[x] = "gone" =>
              InSlots(x) \/ \E w \in Writers : wpc[w] = "fix" /\ x = wn[w]

\* The slot a remove will use has been emptied.
InvEmptied ==
    \A w \in Writers :
       /\ wpc[w] = "free_leaf" =>
             LET x == pending_del_nodes[wdel[w]]
             IN  x # NULL => st[x] # "gone"
       /\ wpc[w] \in {"find", "fix"} => /\ pending_del_nodes[wdel[w]] = NULL
                                        /\ pending_del_leaves[wdel[w]] = NULL

Pooled(S) == {x \in S : st[x] = "pool"}
NextNode == [n \in Nodes |-> child[n][0]]

InvLists == /\ ListOf(Pooled(Nodes), NextNode, deleted_node, NULL)
            /\ ListOf(Pooled(Leaves), lval, deleted_leaf, NULL)

AllRaw == \A x \in Obj : st[x] = "raw"

LifeInv ==
    /\ TypeOK /\ up \in BOOLEAN
    /\ up => WParts /\ Shape /\ InvHeld /\ InvGone /\ InvEmptied /\ InvLists
    /\ ~up => Idle /\ InvInsert /\ AllRaw

-----------------------------------------------------------------------------
(* What critnib_delete does in a state that satisfies the invariant.       *)

\* The loops over the pools free each pooled block once, and no other.
LEMMA PoolsOnce ==
    ASSUME TypeOK, InvLists, NEW x \in Obj
    PROVE  DeletePools(x) = IF st[x] = "pool" THEN 1 ELSE 0
<1> DEFINE N == Cardinality(Nodes)
           L == Cardinality(Leaves)
           h == CHOOSE node : node = [d \in 0 .. N |->
                   IF d = 0 THEN deleted_node
                   ELSE IF node[d-1] = NULL THEN NULL
                        ELSE child[node[d-1]][0]]
           k == CHOOSE leaf : leaf = [d \in 0 .. L |->
                   IF d = 0 THEN deleted_leaf
                   ELSE IF leaf[d-1] = NULL THEN NULL
                        ELSE lval[leaf[d-1]]]
<1>1. DeletePools(x) = Cardinality({d \in 0 .. N : h[d] = x})
                       + Cardinality({d \in 0 .. L : k[d] = x})
  BY DEF DeletePools
<1>2. /\ NULL \notin Nodes /\ NULL \notin Leaves /\ x # NULL
      /\ Pooled(Nodes) \in SUBSET Nodes /\ Pooled(Leaves) \in SUBSET Leaves
      /\ x \in Nodes <=> x \notin Leaves
      /\ N \in Nat /\ L \in Nat
  BY PtrAssumption, FiniteAssumption, FS_CardinalityType DEF Pooled, Obj
<1>n. /\ IsFiniteSet(Nodes) /\ IsFiniteSet(Leaves)
      /\ ListOf(Pooled(Nodes), NextNode, deleted_node, NULL)
      /\ ListOf(Pooled(Leaves), lval, deleted_leaf, NULL)
  BY FiniteAssumption DEF InvLists
<1>3. Cardinality({d \in 0 .. N : h[d] = x})
        = IF x \in Pooled(Nodes) THEN 1 ELSE 0
  <2>1. PICK g \in [0 .. N -> Pooled(Nodes) \cup {NULL}] :
           \A d \in 0 .. N :
              g[d] = IF d = 0 THEN deleted_node
                     ELSE IF g[d-1] = NULL THEN NULL ELSE NextNode[g[d-1]]
    <3>1. PICK next, head : next = NextNode /\ head = deleted_node OBVIOUS
    <3>2. /\ IsFiniteSet(Nodes) /\ NULL \notin Nodes
          /\ Pooled(Nodes) \in SUBSET Nodes
          /\ ListOf(Pooled(Nodes), next, head, NULL)
      BY <1>2, <1>n, <3>1
    <3>3. \E g \in [0 .. N -> Pooled(Nodes) \cup {NULL}] :
             \A d \in 0 .. N :
                g[d] = IF d = 0 THEN head
                       ELSE IF g[d-1] = NULL THEN NULL ELSE next[g[d-1]]
      BY <3>2, ListWalk
    <3> QED BY <3>1, <3>3
  <2>2. \A d \in 0 .. N : d # 0 => d-1 \in 0 .. N BY <1>2
  <2>3. \A d \in 0 .. N :
              g[d] = IF d = 0 THEN deleted_node
                     ELSE IF g[d-1] = NULL THEN NULL ELSE child[g[d-1]][0]
    BY <2>1, <2>2 DEF NextNode, Pooled
  <2>4. g = [d \in 0 .. N |-> IF d = 0 THEN deleted_node
                              ELSE IF g[d-1] = NULL THEN NULL
                                   ELSE child[g[d-1]][0]]
    BY <2>3
  <2>5. h = [d \in 0 .. N |-> IF d = 0 THEN deleted_node
                              ELSE IF h[d-1] = NULL THEN NULL
                                   ELSE child[h[d-1]][0]]
    BY <2>4
  <2> HIDE DEF h
  <2> DEFINE r == [d \in 0 .. N |-> IF d = 0 THEN deleted_node
                              ELSE IF h[d-1] = NULL THEN NULL
                                   ELSE child[h[d-1]][0]]
  <2>6. \A d \in 0 .. N : r[d] = IF d = 0 THEN deleted_node
                                 ELSE IF h[d-1] = NULL THEN NULL
                                      ELSE child[h[d-1]][0]
    OBVIOUS
  <2>7. h = r BY <2>5
  <2> HIDE DEF r
  <2>8. h[0] = deleted_node BY <2>6, <2>7, <1>2
  <2>9. \A d \in 0 .. N : d # 0 =>
           /\ h[d-1] = NULL => h[d] = NULL
           /\ h[d-1] \in Pooled(Nodes) => h[d] = NextNode[h[d-1]]
    BY <2>6, <2>7, <1>2 DEF NextNode
  <2> QED BY <2>8, <2>9, <1>2, <1>n, ListCount
<1>4. Cardinality({d \in 0 .. L : k[d] = x})
        = IF x \in Pooled(Leaves) THEN 1 ELSE 0
  <2>1. PICK g \in [0 .. L -> Pooled(Leaves) \cup {NULL}] :
           \A d \in 0 .. L :
              g[d] = IF d = 0 THEN deleted_leaf
                     ELSE IF g[d-1] = NULL THEN NULL ELSE lval[g[d-1]]
    <3>1. PICK next, head : next = lval /\ head = deleted_leaf OBVIOUS
    <3>2. /\ IsFiniteSet(Leaves) /\ NULL \notin Leaves
          /\ Pooled(Leaves) \in SUBSET Leaves
          /\ ListOf(Pooled(Leaves), next, head, NULL)
      BY <1>2, <1>n, <3>1
    <3>3. \E g \in [0 .. L -> Pooled(Leaves) \cup {NULL}] :
             \A d \in 0 .. L :
                g[d] = IF d = 0 THEN head
                       ELSE IF g[d-1] = NULL THEN NULL ELSE next[g[d-1]]
      BY <3>2, ListWalk
    <3> QED BY <3>1, <3>3
  <2>4. g = [d \in 0 .. L |-> IF d = 0 THEN deleted_leaf
                              ELSE IF g[d-1] = NULL THEN NULL
                                   ELSE lval[g[d-1]]]
    BY <2>1
  <2>5. k = [d \in 0 .. L |-> IF d = 0 THEN deleted_leaf
                              ELSE IF k[d-1] = NULL THEN NULL
                                   ELSE lval[k[d-1]]]
    BY <2>4
  <2> HIDE DEF k
  <2> DEFINE r == [d \in 0 .. L |-> IF d = 0 THEN deleted_leaf
                              ELSE IF k[d-1] = NULL THEN NULL
                                   ELSE lval[k[d-1]]]
  <2>6. \A d \in 0 .. L : r[d] = IF d = 0 THEN deleted_leaf
                                 ELSE IF k[d-1] = NULL THEN NULL
                                      ELSE lval[k[d-1]]
    OBVIOUS
  <2>7. k = r BY <2>5
  <2> HIDE DEF r
  <2>8. k[0] = deleted_leaf BY <2>6, <2>7, <1>2
  <2>9. \A d \in 0 .. L : d # 0 =>
           /\ k[d-1] = NULL => k[d] = NULL
           /\ k[d-1] \in Pooled(Leaves) => k[d] = lval[k[d-1]]
    BY <2>6, <2>7, <1>2
  <2> QED BY <2>8, <2>9, <1>2, <1>n, ListCount
<1> HIDE DEF h, k
<1> QED BY <1>1, <1>2, <1>3, <1>4 DEF Pooled
-----------------------------------------------------------------------------
(* Descents.                                                               *)

\* Slot i of what the descent has come to.
Down(n, i) == IF n \in Nodes THEN child[n][i] ELSE NULL

\* f is the way delete_node goes on the descent s, as far as level k.
Climb(f, s, k) ==
    f = [d \in 0 .. k |-> IF d = 0 THEN root ELSE Down(f[d-1], s[d])]

Front(s, d) == [i \in 1 .. d |-> s[i]]

\* The recursive definition of EndOf does define a function.
LEMMA ClimbExists ==
    ASSUME NEW s, NEW K \in Nat
    PROVE  \E f : Climb(f, s, K)
<1> DEFINE T == {k \in Nat : ~ \E f : Climb(f, s, k)}
<1>0. T \subseteq Nat OBVIOUS
<1>1. SUFFICES ASSUME T # {} PROVE FALSE BY <1>0
<1>2. PICK k \in T : \A e \in T : k <= e BY <1>0, <1>1, LeastNat
<1>3. k # 0
  <2> DEFINE f == [d \in 0 .. 0 |-> root]
  <2>1. Climb(f, s, 0) BY DEF Climb
  <2> QED BY <2>1
<1>4. k-1 \in Nat /\ k-1 \notin T BY <1>2, <1>3
<1>5. PICK g : Climb(g, s, k-1) BY <1>4
<1> DEFINE f == [d \in 0 .. k |-> IF d = 0 THEN root ELSE Down(g[d-1], s[d])]
<1>6. \A d \in 0 .. k-1 : f[d] = g[d] BY <1>5, <1>4 DEF Climb
<1>7. ASSUME NEW d \in 0 .. k
      PROVE  f[d] = IF d = 0 THEN root ELSE Down(f[d-1], s[d])
  <2>1. CASE d = 0 BY <2>1
  <2>2. CASE d # 0
    <3>1. d-1 \in 0 .. k-1 BY <2>2, <1>4
    <3>2. f[d-1] = g[d-1] BY <3>1, <1>6
    <3>3. f[d] = Down(g[d-1], s[d]) BY <2>2
    <3> QED BY <2>2, <3>2, <3>3
  <2> QED BY <2>1, <2>2
<1>8. Climb(f, s, k) BY <1>7 DEF Climb
<1> QED BY <1>8

LEMMA ClimbIs ==
    ASSUME NEW s, NEW k \in Nat, NEW f, Climb(f, s, k)
    PROVE  \A d \in 0 .. k : f[d] = IF d = 0 THEN root ELSE Down(f[d-1], s[d])
<1> DEFINE g == [d \in 0 .. k |-> IF d = 0 THEN root ELSE Down(f[d-1], s[d])]
<1>1. \A d \in 0 .. k : g[d] = IF d = 0 THEN root ELSE Down(f[d-1], s[d])
  OBVIOUS
<1>2. f = g BY DEF Climb
<1> HIDE DEF g
<1> QED BY <1>1, <1>2

\* EndOf is where the climb ends.
LEMMA EndIs ==
    ASSUME NEW k \in Nat, NEW s \in [1 .. k -> Nibs]
    PROVE  \E f : Climb(f, s, k) /\ EndOf(s) = f[k]
<1> DEFINE h == CHOOSE at : at = [d \in 0 .. Len(s) |->
                   IF d = 0 THEN root
                   ELSE IF at[d-1] \in Nodes THEN child[at[d-1]][s[d]]
                   ELSE NULL]
<1>1. Len(s) = k
  <2>1. s \in Seq(Nibs) OBVIOUS
  <2>2. Len(s) \in Nat /\ DOMAIN s = 1 .. Len(s) BY <2>1, LenProperties
  <2>3. DOMAIN s = 1 .. k OBVIOUS
  <2> QED BY <2>2, <2>3
<1>2. PICK f : Climb(f, s, k) BY ClimbExists
<1>3. EndOf(s) = h[k] BY <1>1 DEF EndOf
<1>4. Climb(h, s, k) BY <1>1, <1>2 DEF Climb, Down
<1> QED BY <1>3, <1>4
\* The empty descent ends at the root, the others one link below the descent
\* without the last slot.
LEMMA EndSteps ==
    ASSUME NEW k \in Nat, NEW s \in [1 .. k -> Nibs]
    PROVE  /\ k = 0 => EndOf(s) = root
           /\ k # 0 => /\ k-1 \in Nat
                       /\ Front(s, k-1) \in [1 .. k-1 -> Nibs]
                       /\ s[k] \in Nibs
                       /\ EndOf(s) = Down(EndOf(Front(s, k-1)), s[k])
<1>1. PICK f : Climb(f, s, k) /\ EndOf(s) = f[k] BY EndIs
<1>2. \A d \in 0 .. k : f[d] = IF d = 0 THEN root ELSE Down(f[d-1], s[d])
  BY <1>1, ClimbIs
<1>3. CASE k = 0 BY <1>1, <1>2, <1>3
<1>4. CASE k # 0
  <2> DEFINE t == Front(s, k-1)
  <2>1. k-1 \in Nat /\ t \in [1 .. k-1 -> Nibs] /\ s[k] \in Nibs
    BY <1>4 DEF Front
  <2>2. \A d \in 1 .. k-1 : t[d] = s[d] BY DEF Front
  <2> HIDE DEF t
  <2>3. PICK g : Climb(g, t, k-1) /\ EndOf(t) = g[k-1] BY <2>1, EndIs
  <2>4. \A d \in 0 .. k-1 : g[d] = IF d = 0 THEN root ELSE Down(g[d-1], t[d])
    BY <2>1, <2>3, ClimbIs
  <2> DEFINE B == {d \in 0 .. k-1 : f[d] # g[d]}
  <2>5. ASSUME B # {} PROVE FALSE
    <3>1. B \subseteq Nat OBVIOUS
    <3>2. PICK e \in B : \A b \in B : e <= b BY <2>5, <3>1, LeastNat
    <3>3. e \in 0 .. k-1 /\ f[e] # g[e] /\ e # 0 BY <3>2, <1>2, <2>4
    <3>4. e-1 \in 0 .. k-1 /\ e-1 \notin B /\ e \in 1 .. k-1 BY <3>2, <3>3, <2>1
    <3>5. f[e-1] = g[e-1] BY <3>4
    <3>6. f[e] = Down(f[e-1], s[e]) BY <3>4, <1>2
    <3>7. g[e] = Down(g[e-1], t[e]) BY <3>4, <2>4
    <3> QED BY <3>3, <3>4, <3>5, <3>6, <3>7, <2>2
  <2>6. k-1 \in 0 .. k-1 /\ k \in 0 .. k BY <2>1
  <2>7. f[k-1] = g[k-1] BY <2>5, <2>6
  <2>8. f[k] = Down(f[k-1], s[k]) BY <2>6, <1>2, <1>4
  <2> QED BY <2>1, <2>3, <2>7, <2>8, <1>1, <1>4 DEF t
<1> QED BY <1>3, <1>4

\* A descent that is made longer by one slot.
LEMMA EndLonger ==
    ASSUME NEW k \in Nat, NEW s \in [1 .. k -> Nibs], NEW i \in Nibs
    PROVE  \E t \in [1 .. k+1 -> Nibs] : EndOf(t) = Down(EndOf(s), i)
<1> DEFINE t == [d \in 1 .. k+1 |-> IF d = k+1 THEN i ELSE s[d]]
<1>1. k+1 \in Nat /\ k+1 # 0 /\ k+1-1 = k /\ k+1 \in 1 .. k+1 OBVIOUS
<1>2. t \in [1 .. k+1 -> Nibs] OBVIOUS
<1>3. t[k+1] = i BY <1>1
<1>4. \A d \in 1 .. k : t[d] = s[d] OBVIOUS
<1> HIDE DEF t
<1>5. Front(t, k) = s BY <1>4 DEF Front
<1>6. EndOf(t) = Down(EndOf(Front(t, k+1-1)), t[k+1]) BY <1>1, <1>2, EndSteps
<1> QED BY <1>1, <1>2, <1>3, <1>5, <1>6

\* A descent stays in the tree.
LEMMA EndsLive ==
    ASSUME TypeOK, InvTree, NEW K \in Nat, NEW S \in [1 .. K -> Nibs]
    PROVE  EndOf(S) \in Ptr /\ NullOr(EndOf(S), "live")
<1> DEFINE Good(k) == \A s \in [1 .. k -> Nibs] :
                         EndOf(s) \in Ptr /\ NullOr(EndOf(s), "live")
           B == {k \in Nat : ~Good(k)}
<1>0. B \subseteq Nat OBVIOUS
<1>1. SUFFICES ASSUME B # {} PROVE FALSE OBVIOUS
<1>2. PICK k \in B : \A b \in B : k <= b BY <1>0, <1>1, LeastNat
<1>3. PICK s \in [1 .. k -> Nibs] : ~(EndOf(s) \in Ptr /\ NullOr(EndOf(s), "live"))
  BY <1>2
<1>4. CASE k = 0
  <2>1. EndOf(s) = root BY <1>4, EndSteps
  <2> QED BY <2>1, <1>3, LinkTypes DEF InvTree
<1>5. CASE k # 0
  <2>1. /\ k-1 \in Nat /\ Front(s, k-1) \in [1 .. k-1 -> Nibs] /\ s[k] \in Nibs
        /\ EndOf(s) = Down(EndOf(Front(s, k-1)), s[k])
    BY <1>5, EndSteps
  <2>2. k-1 \notin B BY <1>2, <2>1
  <2>3. PICK n : n = EndOf(Front(s, k-1)) OBVIOUS
  <2>4. n \in Ptr /\ NullOr(n, "live") BY <2>1, <2>2, <2>3
  <2>5. CASE n \in Nodes
    <3>1. st[n] = "live" BY <2>4, <2>5, LinkTypes DEF NullOr
    <3>2. EndOf(s) = child[n][s[k]] BY <2>1, <2>3, <2>5 DEF Down
    <3>3. child[n][s[k]] \in Ptr /\ NullOr(child[n][s[k]], "live")
      BY <2>1, <2>5, <3>1, LinkTypes DEF InvTree
    <3> QED BY <3>2, <3>3, <1>3
  <2>6. CASE n \notin Nodes
    <3>1. EndOf(s) = NULL BY <2>1, <2>3, <2>6 DEF Down
    <3> QED BY <3>1, <1>3, LinkTypes DEF NullOr
  <2> QED BY <2>5, <2>6
<1> QED BY <1>4, <1>5
\* Two descents do not end at the same block.
LEMMA OneDescent ==
    ASSUME TypeOK, InvTree, NEW K \in Nat, NEW S \in [1 .. K -> Nibs],
           NEW L \in Nat, NEW T \in [1 .. L -> Nibs],
           EndOf(S) = EndOf(T), EndOf(S) # NULL
    PROVE  S = T
<1> DEFINE Alike(k) == \A s \in [1 .. k -> Nibs], l \in Nat :
                          \A t \in [1 .. l -> Nibs] :
                             EndOf(s) = EndOf(t) /\ EndOf(s) # NULL
                             => k = l /\ s = t
           B == {k \in Nat : ~Alike(k)}
<1>0. B \subseteq Nat OBVIOUS
<1>1. SUFFICES ASSUME B # {} PROVE FALSE OBVIOUS
<1>2. PICK k \in B : \A b \in B : k <= b BY <1>0, <1>1, LeastNat
<1>3. PICK s \in [1 .. k -> Nibs], l \in Nat :
         \E t \in [1 .. l -> Nibs] :
            EndOf(s) = EndOf(t) /\ EndOf(s) # NULL /\ ~(k = l /\ s = t)
  BY <1>2
<1>4. PICK t \in [1 .. l -> Nibs] :
         EndOf(s) = EndOf(t) /\ EndOf(s) # NULL /\ ~(k = l /\ s = t)
  BY <1>3
\* A descent that is not empty does not end at the root.
<1>5. ASSUME NEW j \in Nat, j # 0, NEW u \in [1 .. j -> Nibs], EndOf(u) # NULL
      PROVE  \E n \in Nodes : /\ st[n] = "live" /\ n = EndOf(Front(u, j-1))
                              /\ u[j] \in Nibs
                              /\ EndOf(u) = child[n][u[j]]
                              /\ EndOf(u) # root
  <2>1. /\ j-1 \in Nat /\ Front(u, j-1) \in [1 .. j-1 -> Nibs] /\ u[j] \in Nibs
        /\ EndOf(u) = Down(EndOf(Front(u, j-1)), u[j])
    BY <1>5, EndSteps
  <2>2. PICK n : n = EndOf(Front(u, j-1)) OBVIOUS
  <2>3. n \in Nodes /\ EndOf(u) = child[n][u[j]] BY <1>5, <2>1, <2>2 DEF Down
  <2>4. n \in Ptr /\ NullOr(n, "live") BY <2>1, <2>2, EndsLive
  <2>5. st[n] = "live" BY <2>3, <2>4, LinkTypes DEF NullOr
  <2>6. child[n][u[j]] # root BY <1>5, <2>1, <2>3, <2>5 DEF InvTree
  <2> QED BY <2>1, <2>2, <2>3, <2>5, <2>6
<1>6. CASE k = 0
  <2>1. EndOf(s) = root BY <1>6, EndSteps
  <2>2. l = 0 BY <2>1, <1>4, <1>5
  <2>3. s = t BY <1>6, <2>2
  <2> QED BY <1>4, <1>6, <2>2, <2>3
<1>7. CASE k # 0
  <2>1. PICK m \in Nodes : /\ st[m] = "live" /\ m = EndOf(Front(s, k-1))
                           /\ s[k] \in Nibs
                           /\ EndOf(s) = child[m][s[k]]
                           /\ EndOf(s) # root
    BY <1>4, <1>5, <1>7
  <2>2. l # 0 BY <2>1, <1>4, EndSteps
  <2>3. PICK n \in Nodes : /\ st[n] = "live" /\ n = EndOf(Front(t, l-1))
                           /\ t[l] \in Nibs
                           /\ EndOf(t) = child[n][t[l]]
    BY <1>4, <1>5, <2>2
  <2>4. m = n /\ s[k] = t[l]
    <3>1. PICK i \in Nibs : i = s[k] BY <2>1
    <3>2. PICK j \in Nibs : j = t[l] BY <2>3
    <3>3. child[m][i] = child[n][j] /\ child[m][i] # NULL
      BY <3>1, <3>2, <2>1, <2>3, <1>4
    <3>4. m = n /\ i = j BY <3>3, <2>1, <2>3 DEF InvTree
    <3> QED BY <3>1, <3>2, <3>4
  <2>5. /\ k-1 \in Nat /\ Front(s, k-1) \in [1 .. k-1 -> Nibs]
        /\ l-1 \in Nat /\ Front(t, l-1) \in [1 .. l-1 -> Nibs]
    BY <1>7, <2>2, EndSteps
  <2>6. Alike(k-1)
    <3> HIDE DEF Alike
    <3>1. k \in Nat /\ ~(k <= k-1) BY <1>2
    <3>2. k-1 \notin B BY <3>1, <1>2
    <3> QED BY <3>2, <2>5
  <2>7. m # NULL BY LinkTypes
  <2>8. k-1 = l-1 /\ Front(s, k-1) = Front(t, l-1)
    <3>1. PICK p \in [1 .. k-1 -> Nibs] : p = Front(s, k-1) BY <2>5
    <3>2. PICK q \in [1 .. l-1 -> Nibs] : q = Front(t, l-1) BY <2>5
    <3>3. EndOf(p) = EndOf(q) /\ EndOf(p) # NULL
      BY <2>1, <2>3, <2>4, <2>7, <3>1, <3>2
    <3>4. PICK a \in Nat : a = k-1 BY <2>5
    <3>5. PICK b \in Nat : b = l-1 BY <2>5
    <3>6. Alike(a) /\ p \in [1 .. a -> Nibs] /\ q \in [1 .. b -> Nibs]
      BY <2>6, <3>1, <3>2, <3>4, <3>5
    <3>7. a = b /\ p = q BY <3>3, <3>4, <3>5, <3>6
    <3> QED BY <3>1, <3>2, <3>4, <3>5, <3>7
  <2>9. k = l BY <2>8
  <2>10. ASSUME NEW d \in 1 .. k PROVE s[d] = t[d]
    <3>1. CASE d = k BY <3>1, <2>4, <2>9
    <3>2. CASE d # k
      <4>1. d \in 1 .. k-1 BY <3>2
      <4>2. Front(s, k-1)[d] = s[d] /\ Front(t, k-1)[d] = t[d]
        BY <4>1 DEF Front
      <4> QED BY <4>2, <2>8, <2>9
    <3> QED BY <3>1, <3>2
  <2>11. s = t BY <2>9, <2>10
  <2> QED BY <2>9, <2>11, <1>4
<1> QED BY <1>6, <1>7

\* A descent ends at each live block: the positions on the way decrease.
LEMMA SomeDescent ==
    ASSUME TypeOK, InvTree, InvEdge, InvCover, NEW x \in Obj, st[x] = "live"
    PROVE  \E d \in 0 .. LEVELS : \E s \in [1 .. d -> Nibs] : EndOf(s) = x
<1> SUFFICES ASSUME \A d \in 0 .. LEVELS : \A s \in [1 .. d -> Nibs] : EndOf(s) # x
             PROVE  FALSE
  OBVIOUS
<1>0. LEVELS \in Nat /\ \A n \in Nodes : shift[n] \in 0 .. LEVELS-1
  BY SizeAssumption DEF TypeOK, Digits
<1> DEFINE On(d) == \E s \in [1 .. d -> Nibs] :
                       /\ EndOf(s) \in Nodes /\ Under(x, EndOf(s))
                       /\ shift[EndOf(s)] + d < LEVELS
           B == {d \in 0 .. LEVELS : ~On(d)}
<1>1. On(0)
  <2>1. PICK s : s \in [1 .. 0 -> Nibs]
    <3>1. [i \in 1 .. 0 |-> 0] \in [1 .. 0 -> Nibs] OBVIOUS
    <3> QED BY <3>1
  <2>2. EndOf(s) = root BY <2>1, EndSteps
  <2>3. root # x /\ Leads(root, x)
    <3>1. 0 \in 0 .. LEVELS BY <1>0
    <3>2. EndOf(s) # x BY <3>1, <2>1
    <3> QED BY <3>2, <2>2 DEF InvCover
  <2>4. Under(x, root) /\ root \in Nodes BY <2>3 DEF Leads, Under
  <2>5. shift[root] + 0 < LEVELS BY <2>4, <1>0
  <2> QED BY <2>1, <2>2, <2>4, <2>5
<1>2. ~On(LEVELS) BY <1>0
<1>3. LEVELS \in B /\ B \subseteq Nat BY <1>0, <1>2
<1>4. PICK e \in B : \A b \in B : e <= b BY <1>3, LeastNat
<1>5. e # 0 /\ e \in 0 .. LEVELS /\ ~On(e) BY <1>1, <1>4
<1>6. e-1 \in 0 .. LEVELS /\ e-1 \notin B BY <1>4, <1>5, <1>0
<1>7. PICK s \in [1 .. e-1 -> Nibs] :
         /\ EndOf(s) \in Nodes /\ Under(x, EndOf(s))
         /\ shift[EndOf(s)] + (e-1) < LEVELS
  BY <1>6
<1>8. PICK n \in Nodes : n = EndOf(s) BY <1>7
<1>9. st[n] = "live" BY <1>6, <1>8, EndsLive, LinkTypes DEF NullOr
<1>10. PICK i \in Nibs : i = slice_index(PathOf(x), shift[n]) BY LinkTypes
<1>11. PICK c : c = child[n][i] OBVIOUS
<1>12. Leads(c, x) BY <1>7, <1>8, <1>9, <1>10, <1>11 DEF InvCover, SlotFor
<1>13. PICK t \in [1 .. e-1+1 -> Nibs] : EndOf(t) = Down(n, i)
  BY <1>6, <1>8, EndLonger
<1>14. t \in [1 .. e -> Nibs] /\ EndOf(t) = c
  <2>1. e-1+1 = e BY <1>6
  <2> QED BY <2>1, <1>13, <1>8, <1>11 DEF Down
<1>15. c # x BY <1>14, <1>5
<1>16. c \in Nodes /\ Under(x, c) /\ c # NULL
  BY <1>12, <1>15, LinkTypes DEF Leads, Under
<1>17. Under(c, n) BY <1>9, <1>11, <1>16 DEF InvEdge
<1>18. shift[c] < shift[n] BY <1>16, <1>17, PlaceFacts DEF Under
<1>19. shift[c] + e < LEVELS BY <1>0, <1>5, <1>6, <1>7, <1>8, <1>16, <1>18
<1> QED BY <1>5, <1>14, <1>16, <1>19

\* delete_node frees each live block once, and no other.
LEMMA TreeOnce ==
    ASSUME TypeOK, InvTree, InvEdge, InvCover, NEW x \in Obj
    PROVE  delete_node(x) = IF st[x] = "live" THEN 1 ELSE 0
<1> DEFINE D == {s \in Descents : EndOf(s) = x}
<1>0. \A s \in Descents : \E d \in 0 .. LEVELS : s \in [1 .. d -> Nibs]
  BY DEF Descents
<1>1. x # NULL /\ 0 .. LEVELS \subseteq Nat BY LinkTypes
<1>2. CASE st[x] = "live"
  <2>1. PICK d \in 0 .. LEVELS : \E s \in [1 .. d -> Nibs] : EndOf(s) = x
    BY <1>2, SomeDescent
  <2>2. PICK s \in [1 .. d -> Nibs] : EndOf(s) = x BY <2>1
  <2>3. s \in Descents BY <2>1, <2>2 DEF Descents
  <2>4. ASSUME NEW t \in Descents, EndOf(t) = x PROVE t = s
    <3>1. PICK e \in 0 .. LEVELS : t \in [1 .. e -> Nibs] BY <1>0
    <3> QED BY <3>1, <2>1, <2>2, <2>4, <1>1, OneDescent
  <2>5. D = {s} BY <2>2, <2>3, <2>4
  <2> QED BY <2>5, <1>2, FS_Singleton DEF delete_node
<1>3. CASE st[x] # "live"
  <2>1. ASSUME NEW t \in Descents, EndOf(t) = x PROVE FALSE
    <3>1. PICK e \in 0 .. LEVELS : t \in [1 .. e -> Nibs] BY <1>0
    <3>2. NullOr(x, "live") BY <3>1, <2>1, <1>1, EndsLive
    <3> QED BY <3>2, <1>1, <1>3 DEF NullOr
  <2>2. D = {} BY <2>1
  <2> QED BY <2>2, <1>3, FS_EmptySet DEF delete_node
<1> QED BY <1>2, <1>3
-----------------------------------------------------------------------------
(* What critnib_delete frees.                                              *)

\* Nobody is between two steps that recycle the blocks of one slot.
LEMMA IdlePcs ==
    ASSUME Idle, NEW w \in Writers
    PROVE  /\ wpc[w] \notin Busy /\ wpc[w] # "fix" /\ wpc[w] # "free_leaf"
           /\ \A x : ~Owning(w, x)
  BY DEF Idle, Owning, Busy, InsertPC, RemovePC

\* The loop over the pending slots frees each block in its grace period once,
\* and no other: its stamp tells the slot it is in.
LEMMA PendingOnce ==
    ASSUME TypeOK, InvPending, InvGone, Idle, NEW x \in Obj
    PROVE  DeletePending(x) = IF st[x] = "gone" THEN 1 ELSE 0
<1> DEFINE A == {i \in Slots : pending_del_nodes[i] = x}
           B == {i \in Slots : pending_del_leaves[i] = x}
           j == stamp[x] % DELETED_LIFE
<1>0. x # NULL BY LinkTypes
<1>1. ASSUME NEW i \in Slots, x \in {pending_del_nodes[i], pending_del_leaves[i]}
      PROVE  st[x] = "gone" /\ i = j
  BY <1>0, <1>1, IdlePcs DEF InvPending, Waiting
<1> HIDE DEF j
<1>2. \A i \in Slots : /\ pending_del_nodes[i] = x => x \in Nodes
                       /\ pending_del_leaves[i] = x => x \in Leaves
  BY <1>0 DEF TypeOK
<1>3. ~(x \in Nodes /\ x \in Leaves) BY PtrAssumption
<1>4. A = {} \/ B = {} BY <1>2, <1>3
<1>5. A \subseteq {j} /\ B \subseteq {j} BY <1>1
<1>6. CASE st[x] = "gone"
  <2>1. PICK i \in Slots : x \in {pending_del_nodes[i], pending_del_leaves[i]}
    BY <1>6, IdlePcs DEF InvGone, InSlots
  <2>2. (A = {j} /\ B = {}) \/ (A = {} /\ B = {j})
    BY <2>1, <1>4, <1>5
  <2>3. Cardinality({j}) = 1 /\ Cardinality({}) = 0 BY FS_Singleton, FS_EmptySet
  <2> QED BY <2>2, <2>3, <1>6 DEF DeletePending
<1>7. CASE st[x] # "gone"
  <2>1. A = {} /\ B = {} BY <1>1, <1>7
  <2>2. Cardinality({}) = 0 BY FS_EmptySet
  <2> QED BY <2>1, <2>2, <1>7 DEF DeletePending
<1> QED BY <1>6, <1>7

\* Every block that malloc does not have is freed, once.
LEMMA FreesEach ==
    ASSUME LifeInv, up, Idle, NEW x \in Obj
    PROVE  Frees(x) = IF st[x] = "raw" THEN 0 ELSE 1
<1>1. /\ TypeOK /\ InvTree /\ InvEdge /\ InvCover /\ InvPending /\ InvGone
      /\ InvLists /\ InvHeld
  BY DEF LifeInv, WParts, Shape
<1>2. st[x] \in {"raw", "live", "gone", "pool"}
  <2>1. st[x] \in States BY <1>1 DEF TypeOK
  <2>2. st[x] # "held" BY <1>1, IdlePcs DEF InvHeld
  <2> QED BY <2>1, <2>2 DEF States
<1>3. delete_node(x) = IF st[x] = "live" THEN 1 ELSE 0 BY <1>1, TreeOnce
<1>4. DeletePools(x) = IF st[x] = "pool" THEN 1 ELSE 0 BY <1>1, PoolsOnce
<1>5. DeletePending(x) = IF st[x] = "gone" THEN 1 ELSE 0 BY <1>1, PendingOnce
<1> QED BY <1>2, <1>3, <1>4, <1>5 DEF Frees
-----------------------------------------------------------------------------
(* The steps of the writers.                                               *)

\* A writer keeps the block it has in its hands, or gives it away.
LEMMA OwnerStep ==
    ASSUME WParts, NEW w \in Writers, WriterNext(w), NEW x \in Obj,
           Owning(w, x), st'[x] = "held"
    PROVE  Owning(w, x)'
<1> USE DEF WParts
<1>t. x # NULL /\ wpc \in [Writers -> {"idle", "lock", "unlock"} \cup InsertPC \cup RemovePC]
  BY LinkTypes DEF TypeOK
<1>0. Insert(w)
  <2>1. wpc[w] \in InsertPC /\ wpc[w] \notin RemovePC
        /\ wpc[w] \notin {"idle", "lock", "unlock"}
    BY DEF Owning, InsertPC, RemovePC
  <2> QED BY <2>1, StepKinds, EdgePcs, RemovePcs
<1>1. CASE InsertAllocLeaf(w) \/ InsertNoLeaf(w)
  BY <1>1 DEF InsertAllocLeaf, InsertNoLeaf, Owning
<1>2. CASE InsertSetKey(w) \/ InsertSetValue(w) \/ InsertDescend(w)
  BY <1>2, <1>t DEF InsertSetKey, InsertSetValue, InsertDescend, Owning, Goto, locals
<1>3. CASE InsertInSlot(w)
  <2>1. x = wk[w] BY <1>3 DEF InsertInSlot, Owning
  <2> QED BY <2>1, <1>3, InSlotFacts
<1>4. CASE InsertExists(w) \/ InsertNoNode(w)
  <2>1. x = wk[w] BY <1>4 DEF InsertExists, InsertNoNode, Diverges, Owning
  <2> QED BY <2>1, <1>4, DropLeafFacts
<1>5. CASE InsertAllocNode(w)
  <2>1. x = wk[w] BY <1>5 DEF InsertAllocNode, Diverges, Owning
  <2>2. wk' = wk /\ wpc'[w] = "clear" BY <1>5, <1>t DEF InsertAllocNode, Goto
  <2> QED BY <2>1, <2>2 DEF Owning
<1>6. CASE InsertClear(w) \/ InsertLink(w) \/ InsertHead(w)
  BY <1>6, <1>t DEF InsertClear, InsertLink, InsertHead, Owning, Goto, locals
<1>7. CASE InsertPublish(w)
  <2>1. x \in {wk[w], wm[w]} BY <1>7 DEF InsertPublish, Owning
  <2> QED BY <2>1, <1>7, PublishFacts
<1> QED BY <1>0, <1>1, <1>2, <1>3, <1>4, <1>5, <1>6, <1>7 DEF Insert

\* A block that nobody had comes from alloc_leaf or alloc_node.
LEMMA NewHeld ==
    ASSUME WParts, NEW w \in Writers, WriterNext(w), NEW x \in Obj,
           st'[x] = "held", st[x] # "held"
    PROVE  Owning(w, x)'
<1> USE DEF WParts
<1>t. wpc \in [Writers -> {"idle", "lock", "unlock"} \cup InsertPC \cup RemovePC]
      /\ wk \in [Writers -> Leaves \cup {NULL}]
      /\ wm \in [Writers -> Nodes \cup {NULL}]
  BY DEF TypeOK
<1>1. CASE Quiet(w) BY <1>1, QuietFacts
<1>2. CASE InsertAllocLeaf(w)
  <2>1. wk'[w] = x BY <1>2, <1>t, AllocLeafFacts
  <2>2. wpc'[w] = "set_key" BY <1>2, <1>t DEF InsertAllocLeaf, Goto
  <2> QED BY <2>1, <2>2 DEF Owning
<1>3. CASE InsertAllocNode(w)
  <2>1. wm'[w] = x BY <1>3, <1>t, AllocNodeFacts
  <2>2. wpc'[w] = "clear" BY <1>3, <1>t DEF InsertAllocNode, Goto
  <2> QED BY <2>1, <2>2 DEF Owning
<1>4. CASE InsertSetValue(w) \/ InsertClear(w) \/ InsertLink(w)
           \/ RemoveCount(w) \/ RemoveKeep(w)
  BY <1>4 DEF InsertSetValue, InsertClear, InsertLink, RemoveCount, RemoveKeep, aux
<1>5. CASE InsertInSlot(w) BY <1>5, InSlotFacts
<1>6. CASE InsertExists(w) \/ InsertNoNode(w) BY <1>6, DropLeafFacts
<1>7. CASE InsertPublish(w) BY <1>7, PublishFacts
<1>8. CASE RemoveFreeNode(w) BY <1>8, RemoveFreeNodeFacts
<1>9. CASE RemoveFreeLeaf(w) BY <1>9, RemoveFreeLeafFacts
<1>10. CASE RemoveRoot(w) \/ RemoveUnlink(w) BY <1>10, UnlinkFacts
<1>11. CASE RemoveCollapse(w) BY <1>11, CollapseFacts
<1> QED BY <1>1, <1>2, <1>3, <1>4, <1>5, <1>6, <1>7, <1>8, <1>9, <1>10,
           <1>11, QuietOrLoud DEF Loud

LEMMA HeldStep ==
    ASSUME WParts, InvHeld, NEW w \in Writers, WriterNext(w)
    PROVE  InvHeld'
<1>1. ASSUME NEW x \in Obj, st'[x] = "held"
      PROVE  \E u \in Writers : Owning(u, x)'
  <2>1. CASE st[x] = "held"
    <3>1. PICK u \in Writers : Owning(u, x) BY <2>1 DEF InvHeld
    <3>2. CASE u = w BY <3>1, <3>2, <1>1, OwnerStep
    <3>3. CASE u # w
      <4>1. wpc'[u] = wpc[u] /\ wk'[u] = wk[u] /\ wm'[u] = wm[u]
        BY <3>3, OthersSame DEF WParts
      <4>2. Owning(u, x)' BY <3>1, <4>1 DEF Owning
      <4> QED BY <4>2
    <3> QED BY <3>2, <3>3
  <2>2. CASE st[x] # "held" BY <2>2, <1>1, NewHeld
  <2> QED BY <2>1, <2>2
<1> QED BY <1>1 DEF InvHeld
\* What the steps do to the pending slots: only three of them fill one, which
\* has been emptied before, and one empties one.
LEMMA SlotsStep ==
    ASSUME WParts, InvEmptied, NEW w \in Writers, WriterNext(w)
    PROVE  \/ UNCHANGED <<pending_del_nodes, pending_del_leaves>>
           \/ RemoveFreeLeaf(w)
           \/ /\ RemoveRoot(w) \/ RemoveKeep(w) \/ RemoveCollapse(w)
              /\ pending_del_nodes[wdel[w]] = NULL
              /\ pending_del_leaves[wdel[w]] = NULL
              /\ pending_del_leaves'[wdel[w]] = wn[w]
              /\ RemoveCollapse(w) => pending_del_nodes'[wdel[w]] = wpar[w]
              /\ \A i \in Slots : i # wdel[w] =>
                    /\ pending_del_nodes'[i] = pending_del_nodes[i]
                    /\ pending_del_leaves'[i] = pending_del_leaves[i]
<1>t. /\ wdel[w] \in Slots
      /\ pending_del_nodes \in [Slots -> Nodes \cup {NULL}]
      /\ pending_del_leaves \in [Slots -> Leaves \cup {NULL}]
  BY DEF WParts, TypeOK
<1>1. CASE RemoveRoot(w) \/ RemoveKeep(w) \/ RemoveCollapse(w)
  <2>1. wpc[w] \in {"find", "fix"}
    BY <1>1 DEF RemoveRoot, RemoveKeep, RemoveCollapse, Found
  <2>2. pending_del_nodes[wdel[w]] = NULL /\ pending_del_leaves[wdel[w]] = NULL
    BY <2>1 DEF InvEmptied
  <2>3. /\ pending_del_leaves' = [pending_del_leaves EXCEPT ![wdel[w]] = wn[w]]
        /\ \/ pending_del_nodes' = pending_del_nodes
           \/ pending_del_nodes' = [pending_del_nodes EXCEPT ![wdel[w]] = wpar[w]]
        /\ RemoveCollapse(w) =>
              pending_del_nodes' = [pending_del_nodes EXCEPT ![wdel[w]] = wpar[w]]
    BY <1>1 DEF RemoveRoot, RemoveKeep, RemoveCollapse
  <2> QED BY <1>1, <1>t, <2>2, <2>3
<1>2. CASE ~(RemoveRoot(w) \/ RemoveKeep(w) \/ RemoveCollapse(w) \/ RemoveFreeLeaf(w))
  <2>1. CASE Quiet(w) BY <2>1, QuietFacts
  <2>2. CASE Loud(w)
    BY <1>2, <2>2 DEF Loud, InsertAllocLeaf, InsertSetValue, InsertInSlot,
       InsertExists, InsertAllocNode, InsertNoNode, InsertClear, InsertLink,
       InsertPublish, RemoveCount, RemoveFreeNode, RemoveUnlink, pending
  <2> QED BY <2>1, <2>2, QuietOrLoud
<1> QED BY <1>1, <1>2

\* A block enters its grace period when a remove unlinks it.
LEMMA NewGone ==
    ASSUME WParts, NEW w \in Writers, WriterNext(w), NEW x \in Obj,
           st'[x] = "gone", st[x] # "gone"
    PROVE  \/ (RemoveRoot(w) \/ RemoveUnlink(w)) /\ x = wn[w]
           \/ RemoveCollapse(w) /\ x = wpar[w]
<1> USE DEF WParts
<1>1. CASE Quiet(w) BY <1>1, QuietFacts
<1>2. CASE InsertAllocLeaf(w) BY <1>2, AllocLeafFacts
<1>3. CASE InsertAllocNode(w) BY <1>3, AllocNodeFacts
<1>4. CASE InsertSetValue(w) \/ InsertClear(w) \/ InsertLink(w)
           \/ RemoveCount(w) \/ RemoveKeep(w)
  BY <1>4 DEF InsertSetValue, InsertClear, InsertLink, RemoveCount, RemoveKeep, aux
<1>5. CASE InsertInSlot(w) BY <1>5, InSlotFacts
<1>6. CASE InsertExists(w) \/ InsertNoNode(w) BY <1>6, DropLeafFacts
<1>7. CASE InsertPublish(w) BY <1>7, PublishFacts
<1>8. CASE RemoveFreeNode(w) BY <1>8, RemoveFreeNodeFacts
<1>9. CASE RemoveFreeLeaf(w) BY <1>9, RemoveFreeLeafFacts
<1>10. CASE RemoveRoot(w) \/ RemoveUnlink(w) BY <1>10, UnlinkFacts
<1>11. CASE RemoveCollapse(w) BY <1>11, CollapseFacts
<1> QED BY <1>1, <1>2, <1>3, <1>4, <1>5, <1>6, <1>7, <1>8, <1>9, <1>10,
           <1>11, QuietOrLoud DEF Loud

\* Every block in its grace period is in a slot, and the slots that are
\* overwritten have been emptied.
LEMMA GoneStep ==
    ASSUME WParts, InvGone, InvEmptied, NEW w \in Writers, WriterNext(w)
    PROVE  InvGone'
<1>t. /\ wdel[w] \in Slots /\ \A x \in Obj : x # NULL
      /\ wpc \in [Writers -> {"idle", "lock", "unlock"} \cup InsertPC \cup RemovePC]
  BY LinkTypes DEF WParts, TypeOK
<1> DEFINE Safe(x) == InSlots(x)' \/ \E u \in Writers : wpc'[u] = "fix" /\ x = wn'[u]
<1>1. ASSUME NEW x \in Obj, st'[x] = "gone", st[x] # "gone"
      PROVE  Safe(x)
  <2>1. CASE RemoveRoot(w) /\ x = wn[w]
    <3>1. pending_del_leaves' = [pending_del_leaves EXCEPT ![wdel[w]] = wn[w]]
          /\ pending_del_leaves \in [Slots -> Leaves \cup {NULL}]
      BY <2>1 DEF RemoveRoot, WParts, TypeOK
    <3> QED BY <3>1, <2>1, <1>t DEF InSlots
  <2>2. CASE RemoveUnlink(w) /\ x = wn[w]
    BY <2>2, <1>t DEF RemoveUnlink, Goto, locals
  <2>3. CASE RemoveCollapse(w) /\ x = wpar[w]
    <3>1. pending_del_nodes' = [pending_del_nodes EXCEPT ![wdel[w]] = wpar[w]]
          /\ pending_del_nodes \in [Slots -> Nodes \cup {NULL}]
      BY <2>3 DEF RemoveCollapse, WParts, TypeOK
    <3> QED BY <3>1, <2>3, <1>t DEF InSlots
  <2> QED BY <1>1, <2>1, <2>2, <2>3, NewGone
<1>2. ASSUME NEW x \in Obj, st'[x] = "gone", InSlots(x) PROVE Safe(x)
  <2>1. PICK i \in Slots : x \in {pending_del_nodes[i], pending_del_leaves[i]}
    BY <1>2 DEF InSlots
  <2>2. CASE UNCHANGED <<pending_del_nodes, pending_del_leaves>>
    BY <2>1, <2>2 DEF InSlots
  <2>3. CASE RemoveFreeLeaf(w)
    <3>1. /\ \A j \in Slots : j # wdel[w] =>
                /\ pending_del_nodes'[j] = pending_del_nodes[j]
                /\ pending_del_leaves'[j] = pending_del_leaves[j]
          /\ \A y \in Obj : st'[y] = IF y = pending_del_leaves[wdel[w]]
                                     THEN "pool" ELSE st[y]
      BY <2>3, RemoveFreeLeafFacts DEF WParts
    <3>2. wpc[w] = "free_leaf" BY <2>3 DEF RemoveFreeLeaf
    <3>3. x # pending_del_leaves[wdel[w]] /\ st[x] = "gone" BY <3>1, <1>2
    <3>4. x # pending_del_nodes[wdel[w]]
      BY <3>2, <3>3, <1>t DEF InvEmptied
    <3>5. i # wdel[w] BY <2>1, <3>3, <3>4
    <3> QED BY <2>1, <3>1, <3>5 DEF InSlots
  <2>4. CASE /\ pending_del_nodes[wdel[w]] = NULL
             /\ pending_del_leaves[wdel[w]] = NULL
             /\ \A j \in Slots : j # wdel[w] =>
                   /\ pending_del_nodes'[j] = pending_del_nodes[j]
                   /\ pending_del_leaves'[j] = pending_del_leaves[j]
    <3>1. i # wdel[w] BY <2>1, <2>4, <1>t
    <3> QED BY <2>1, <2>4, <3>1 DEF InSlots
  <2> QED BY <2>2, <2>3, <2>4, SlotsStep
<1>3. ASSUME NEW x \in Obj, NEW u \in Writers, wpc[u] = "fix", x = wn[u]
      PROVE  Safe(x)
  <2>1. CASE u # w
    <3>1. wpc'[u] = wpc[u] /\ wn'[u] = wn[u] BY <2>1, OthersSame DEF WParts
    <3> QED BY <3>1, <1>3
  <2>2. CASE u = w
    <3>1. RemoveKeep(w) \/ RemoveCollapse(w)
      <4>1. Remove(w)
        BY <1>3, <2>2, StepKinds, EdgePcs, InsertPcs DEF WParts, InsertPC
      <4> QED BY <4>1, <1>3, <2>2 DEF Remove, RemoveEmpty, RemoveCount,
             RemoveFreeNode, RemoveFreeLeaf, RemoveDescend, RemoveAbsent,
             RemoveRoot, RemoveUnlink, Found
    <3>2. pending_del_leaves' = [pending_del_leaves EXCEPT ![wdel[w]] = wn[w]]
          /\ pending_del_leaves \in [Slots -> Leaves \cup {NULL}]
      BY <3>1 DEF RemoveKeep, RemoveCollapse, WParts, TypeOK
    <3> QED BY <3>2, <1>3, <2>2, <1>t DEF InSlots
  <2> QED BY <2>1, <2>2
<1>4. ASSUME NEW x \in Obj, st'[x] = "gone" PROVE Safe(x)
  BY <1>1, <1>2, <1>3, <1>4 DEF InvGone
<1> QED BY <1>4 DEF InvGone

\* The slot of a remove has been emptied by the time it is used.
LEMMA EmptiedStep ==
    ASSUME WParts, InvEmptied, NEW w \in Writers, WriterNext(w)
    PROVE  InvEmptied'
<1>t. /\ wdel[w] \in Slots /\ pending_del_nodes[wdel[w]] \in Nodes \cup {NULL}
      /\ \A n \in Nodes : n \in Obj
      /\ wpc \in [Writers -> {"idle", "lock", "unlock"} \cup InsertPC \cup RemovePC]
      /\ \A u \in Writers : wdel[u] \in Slots
  BY LinkTypes DEF WParts, TypeOK
<1> DEFINE Fit(u) ==
       /\ wpc[u] = "free_leaf" =>
             LET x == pending_del_nodes[wdel[u]]
             IN  x # NULL => st[x] # "gone"
       /\ wpc[u] \in {"find", "fix"} => /\ pending_del_nodes[wdel[u]] = NULL
                                        /\ pending_del_leaves[wdel[u]] = NULL
<1>1. ASSUME NEW u \in Writers, u # w PROVE Fit(u)'
  <2>1. /\ wpc'[u] = wpc[u] /\ wdel'[u] = wdel[u] /\ Fit(u)
    BY <1>1, OthersSame DEF InvEmptied, WParts
  <2>2. CASE wpc[u] \notin {"free_leaf", "find", "fix"} BY <2>1, <2>2
  <2>3. CASE wpc[u] \in {"free_leaf", "find", "fix"}
    <3>1. ~(Insert(w) \/ Remove(w))
      <4>1. wpc[u] \in Busy BY <2>3 DEF Busy, RemovePC
      <4>2. ASSUME Insert(w) \/ Remove(w) PROVE wpc[w] \in Busy
        BY <4>2, InsertPcs, RemovePcs DEF Busy, WParts
      <4> QED BY <4>1, <4>2, <1>1 DEF WParts, InvLock
    <3>2. Quiet(w) BY <3>1, StepKinds DEF Quiet, WParts
    <3> QED BY <2>1, <3>2, QuietFacts
  <2> QED BY <2>2, <2>3
<1>2. Fit(w)'
  <2>1. ASSUME wpc'[w] = "free_leaf"
        PROVE  pending_del_nodes'[wdel'[w]] # NULL =>
                  st'[pending_del_nodes'[wdel'[w]]] # "gone"
    <3>1. RemoveFreeNode(w)
      <4>1. Remove(w)
        BY <2>1, StepKinds, EdgePcs, InsertPcs DEF WParts, InsertPC
      <4> QED BY <4>1, <2>1, <1>t DEF Remove, RemoveEmpty, RemoveCount,
             RemoveFreeLeaf, RemoveDescend, RemoveAbsent, RemoveRoot,
             RemoveUnlink, RemoveKeep, RemoveCollapse, Found, Goto, Ret
    <3>2. wdel' = wdel /\ pending_del_nodes' = pending_del_nodes
      BY <3>1 DEF RemoveFreeNode, locals, pending
    <3>3. \A y \in Obj : st'[y] = IF y = pending_del_nodes[wdel[w]]
                                  THEN "pool" ELSE st[y]
      BY <3>1, RemoveFreeNodeFacts DEF WParts
    <3> QED BY <3>2, <3>3, <1>t
  <2>2. ASSUME wpc'[w] \in {"find", "fix"}
        PROVE  /\ pending_del_nodes'[wdel'[w]] = NULL
               /\ pending_del_leaves'[wdel'[w]] = NULL
    <3>1. RemoveFreeLeaf(w) \/ RemoveDescend(w) \/ RemoveUnlink(w)
      <4>1. Remove(w)
        BY <2>2, StepKinds, EdgePcs, InsertPcs DEF WParts, InsertPC
      <4> QED BY <4>1, <2>2, RemovePcs DEF WParts
    <3>2. CASE RemoveFreeLeaf(w)
      <4>1. wdel' = wdel BY <3>2 DEF RemoveFreeLeaf
      <4> QED BY <4>1, <3>2, <1>t, RemoveFreeLeafFacts DEF WParts
    <3>3. CASE RemoveDescend(w) \/ RemoveUnlink(w)
      <4>1. /\ wpc[w] = "find" /\ wdel' = wdel
            /\ UNCHANGED <<pending_del_nodes, pending_del_leaves>>
        BY <3>3 DEF RemoveDescend, RemoveUnlink, Found, locals, pending
      <4> QED BY <4>1 DEF InvEmptied
    <3> QED BY <3>1, <3>2, <3>3
  <2> QED BY <2>1, <2>2
<1> QED BY <1>1, <1>2 DEF InvEmptied
\* Steps that leave the pool of nodes alone.
LEMMA NodeListFrame ==
    ASSUME InvLists, deleted_node' = deleted_node,
           \A n \in Nodes : st'[n] = "pool" <=> st[n] = "pool",
           \A n \in Nodes : st[n] = "pool" => child'[n][0] = child[n][0]
    PROVE  ListOf(Pooled(Nodes)', NextNode', deleted_node', NULL)
<1>1. Pooled(Nodes)' = Pooled(Nodes) BY DEF Pooled
<1>2. \A n \in Pooled(Nodes) : NextNode'[n] = NextNode[n]
  BY DEF Pooled, NextNode
<1>3. ListOf(Pooled(Nodes), NextNode, deleted_node, NULL) BY DEF InvLists
<1>4. ListOf(Pooled(Nodes), NextNode', deleted_node, NULL)
  BY <1>2, <1>3, ListFrame
<1> QED BY <1>1, <1>4

\* Steps that leave the pool of leaves alone.
LEMMA LeafListFrame ==
    ASSUME InvLists, deleted_leaf' = deleted_leaf,
           \A l \in Leaves : st'[l] = "pool" <=> st[l] = "pool",
           \A l \in Leaves : st[l] = "pool" => lval'[l] = lval[l]
    PROVE  ListOf(Pooled(Leaves)', lval', deleted_leaf', NULL)
<1>1. Pooled(Leaves)' = Pooled(Leaves) BY DEF Pooled
<1>2. \A l \in Pooled(Leaves) : lval'[l] = lval[l] BY DEF Pooled
<1>3. ListOf(Pooled(Leaves), lval, deleted_leaf, NULL) BY DEF InvLists
<1>4. ListOf(Pooled(Leaves), lval', deleted_leaf, NULL)
  BY <1>2, <1>3, ListFrame
<1> QED BY <1>1, <1>4

\* A leaf that is not in the pool is pushed on it.
LEMMA LeafListPush ==
    ASSUME InvLists, NEW k \in Leaves, st[k] # "pool", deleted_leaf' = k,
           \A l \in Leaves : lval'[l] = IF l = k THEN deleted_leaf ELSE lval[l],
           \A l \in Leaves : st'[l] = IF l = k THEN "pool" ELSE st[l]
    PROVE  ListOf(Pooled(Leaves)', lval', deleted_leaf', NULL)
<1> DEFINE S == Pooled(Leaves)
<1>1. S' = S \cup {k} /\ k \notin S BY DEF Pooled
<1>2. IsFiniteSet(S) BY FiniteAssumption, FS_Subset DEF Pooled
<1>3. ListOf(S, lval, deleted_leaf, NULL) BY DEF InvLists
<1>4. (\A l \in S : lval'[l] = lval[l]) /\ lval'[k] = deleted_leaf
  BY <1>1 DEF Pooled
<1>5. ListOf(S \cup {k}, lval', k, NULL)
  <2> HIDE DEF S
  <2> QED BY <1>1, <1>2, <1>3, <1>4, ListPush
<1> QED BY <1>1, <1>5
\* Every writer step keeps the pool of nodes a list of all free nodes.
LEMMA NodeListStep ==
    ASSUME WParts, InvLists, NEW w \in Writers, WriterNext(w)
    PROVE  ListOf(Pooled(Nodes)', NextNode', deleted_node', NULL)
<1> USE DEF WParts
<1>0. /\ \A n \in Nodes : n \in Obj /\ n # NULL /\ n \notin Leaves
      /\ \A l \in Leaves : l \in Obj /\ l # NULL
      /\ 0 \in Nibs
  BY PtrAssumption, KeyFacts DEF Obj
<1> DEFINE S == Pooled(Nodes)
<1>s. /\ IsFiniteSet(S) /\ ListOf(S, NextNode, deleted_node, NULL)
      /\ \A n \in Nodes : n \in S <=> st[n] = "pool"
      /\ S' = {n \in Nodes : st'[n] = "pool"} /\ S \subseteq Nodes
      /\ \A n \in Nodes : NextNode[n] = child[n][0] /\ NextNode'[n] = child'[n][0]
  BY FiniteAssumption, FS_Subset DEF Pooled, InvLists, NextNode
<1>1. CASE Quiet(w) BY <1>1, QuietFacts, NodeListFrame
<1>2. CASE InsertAllocLeaf(w)
  <2>1. deleted_node' = deleted_node /\ child' = child
    BY <1>2 DEF InsertAllocLeaf, heap
  <2>2. \A n \in Nodes : st'[n] = st[n] BY <1>2, <1>0, AllocLeafFacts
  <2> QED BY <2>1, <2>2, NodeListFrame
<1>3. CASE InsertAllocNode(w)
  <2>1. child' = child BY <1>3 DEF InsertAllocNode, heap
  <2>2. PICK m \in Nodes : /\ alloc_node(m)
                           /\ \A y \in Obj : st'[y] = IF y = m THEN "held"
                                                      ELSE st[y]
    BY <1>3, AllocNodeFacts
  <2>3. CASE deleted_node # NULL
    <3>1. m = deleted_node /\ deleted_node' = child[m][0]
      BY <2>2, <2>3 DEF alloc_node
    <3>2. m \in S /\ ListOf(S \ {m}, NextNode, NextNode[m], NULL)
      <4> HIDE DEF S
      <4> QED BY <1>s, <2>3, <3>1, ListPop
    <3>3. S' = S \ {m} BY <1>0, <1>s, <2>2
    <3>4. NextNode' = NextNode BY <2>1 DEF NextNode
    <3>5. NextNode[m] = deleted_node' BY <1>s, <3>1
    <3> QED BY <3>2, <3>3, <3>4, <3>5
  <2>4. CASE deleted_node = NULL
    <3>1. st[m] = "raw" /\ deleted_node' = deleted_node
      BY <2>2, <2>4, MallocFact DEF alloc_node
    <3> QED BY <3>1, <2>1, <2>2, <1>0, NodeListFrame
  <2> QED BY <2>3, <2>4
<1>4. CASE InsertSetValue(w) \/ RemoveCount(w) \/ RemoveKeep(w)
  <2>1. deleted_node' = deleted_node /\ child' = child /\ st' = st
    BY <1>4 DEF InsertSetValue, RemoveCount, RemoveKeep, heap, aux, pools
  <2> QED BY <2>1, NodeListFrame
<1>5. CASE InsertExists(w) \/ InsertNoNode(w)
  <2>1. deleted_node' = deleted_node /\ child' = child
        /\ \A n \in Nodes : st'[n] = st[n]
    BY <1>5, <1>0, DropLeafFacts
  <2> QED BY <2>1, NodeListFrame
<1>6. CASE InsertClear(w)
  <2>1. st[wm[w]] = "held" BY <1>6 DEF InsertClear, InvInsert, Is
  <2>2. \A n \in Nodes : st[n] = "pool" => child'[n] = child[n]
    BY <1>6, <2>1 DEF InsertClear, TypeOK
  <2>3. deleted_node' = deleted_node /\ st' = st
    BY <1>6 DEF InsertClear, aux, pools
  <2> QED BY <2>2, <2>3, NodeListFrame
<1>7. CASE InsertLink(w)
  <2>1. st[wm[w]] = "held" BY <1>7 DEF InsertLink, InvInsert, Is
  <2>2. \A n \in Nodes : st[n] = "pool" => child'[n][0] = child[n][0]
    BY <1>7, <1>0, <2>1, LinkFacts
  <2>3. deleted_node' = deleted_node /\ st' = st
    BY <1>7 DEF InsertLink, aux, pools
  <2> QED BY <2>2, <2>3, NodeListFrame
<1>8. CASE InsertInSlot(w)
  <2>1. \A n \in Nodes : st[n] = "pool" => child'[n][0] = child[n][0]
    BY <1>8, <1>0, InSlotFacts DEF NullOr
  <2>2. \A n \in Nodes : st'[n] = st[n] BY <1>8, <1>0, InSlotFacts
  <2>3. deleted_node' = deleted_node BY <1>8 DEF InsertInSlot, pools
  <2> QED BY <2>1, <2>2, <2>3, NodeListFrame
<1>9. CASE InsertPublish(w)
  <2>1. \A n \in Nodes : st[n] = "pool" => child'[n][0] = child[n][0]
    BY <1>9, <1>0, PublishFacts DEF NullOr
  <2>2. \A n \in Nodes : st'[n] = "pool" <=> st[n] = "pool"
    BY <1>9, <1>0, PublishFacts
  <2>3. deleted_node' = deleted_node BY <1>9 DEF InsertPublish, pools
  <2> QED BY <2>1, <2>2, <2>3, NodeListFrame
<1>10. CASE RemoveFreeNode(w)
  <2> DEFINE x == pending_del_nodes[wdel[w]]
  <2>1. /\ x \in Nodes \cup {NULL}
        /\ x # NULL => st[x] = "gone"
        /\ deleted_node' = IF x = NULL THEN deleted_node ELSE x
        /\ \A n \in Nodes, j \in Nibs :
              child'[n][j] = IF n = x /\ j = 0 THEN deleted_node
                             ELSE child[n][j]
        /\ \A y \in Obj : st'[y] = IF y = x THEN "pool" ELSE st[y]
    BY <1>10, RemoveFreeNodeFacts DEF Waiting
  <2> HIDE DEF x
  <2>2. /\ \A n \in Nodes : st'[n] = IF n = x THEN "pool" ELSE st[n]
        /\ \A n \in Nodes : child'[n][0] = IF n = x THEN deleted_node
                                           ELSE child[n][0]
    BY <2>1, <1>0
  <2>3. CASE x = NULL BY <2>1, <2>2, <2>3, <1>0, NodeListFrame
  <2>4. CASE x # NULL
    <3>1. x \in Nodes /\ deleted_node' = x /\ x \notin S
      BY <2>1, <2>4, <1>s
    <3>2. S' = S \cup {x} BY <3>1, <2>2, <1>s
    <3>3. (\A y \in S : NextNode'[y] = NextNode[y]) /\ NextNode'[x] = deleted_node
      BY <3>1, <2>2, <1>s
    <3>4. ListOf(S \cup {x}, NextNode', x, NULL)
      <4> HIDE DEF S
      <4> QED BY <3>1, <3>3, <1>s, ListPush
    <3> QED BY <3>1, <3>2, <3>4
  <2> QED BY <2>3, <2>4
<1>11. CASE RemoveFreeLeaf(w)
  <2>1. /\ deleted_node' = deleted_node /\ child' = child
        /\ \A n \in Nodes : st'[n] = st[n]
    BY <1>11, <1>0, RemoveFreeLeafFacts
  <2> QED BY <2>1, NodeListFrame
<1>12. CASE RemoveRoot(w) \/ RemoveUnlink(w)
  <2>1. /\ \A n \in Nodes : st[n] = "pool" => child'[n][0] = child[n][0]
        /\ \A n \in Nodes : st'[n] = st[n]
        /\ deleted_node' = deleted_node
    BY <1>12, <1>0, UnlinkFacts DEF NullOr
  <2> QED BY <2>1, NodeListFrame
<1>13. CASE RemoveCollapse(w)
  <2>1. /\ \A n \in Nodes : st[n] = "pool" => child'[n][0] = child[n][0]
        /\ \A n \in Nodes : st'[n] = "pool" <=> st[n] = "pool"
        /\ deleted_node' = deleted_node
    BY <1>13, <1>0, CollapseFacts DEF NullOr
  <2> QED BY <2>1, NodeListFrame
<1> QED BY <1>1, <1>2, <1>3, <1>4, <1>5, <1>6, <1>7, <1>8, <1>9, <1>10,
           <1>11, <1>12, <1>13, QuietOrLoud DEF Loud

\* The same for the pool of leaves.
LEMMA LeafListStep ==
    ASSUME WParts, InvLists, NEW w \in Writers, WriterNext(w)
    PROVE  ListOf(Pooled(Leaves)', lval', deleted_leaf', NULL)
<1> USE DEF WParts
<1>0. /\ \A n \in Nodes : n \in Obj /\ n # NULL
      /\ \A l \in Leaves : l \in Obj /\ l # NULL /\ l \notin Nodes
  BY PtrAssumption DEF Obj
<1> DEFINE S == Pooled(Leaves)
<1>s. /\ IsFiniteSet(S) /\ ListOf(S, lval, deleted_leaf, NULL)
      /\ \A l \in Leaves : l \in S <=> st[l] = "pool"
      /\ S' = {l \in Leaves : st'[l] = "pool"} /\ S \subseteq Leaves
  BY FiniteAssumption, FS_Subset DEF Pooled, InvLists
<1>1. CASE Quiet(w) BY <1>1, QuietFacts, LeafListFrame
<1>2. CASE InsertAllocLeaf(w)
  <2>1. lval' = lval BY <1>2 DEF InsertAllocLeaf, heap
  <2>2. PICK k \in Leaves : /\ alloc_leaf(k)
                            /\ \A y \in Obj : st'[y] = IF y = k THEN "held"
                                                       ELSE st[y]
    BY <1>2, AllocLeafFacts
  <2>3. CASE deleted_leaf # NULL
    <3>1. k = deleted_leaf /\ deleted_leaf' = lval[k]
      BY <2>2, <2>3 DEF alloc_leaf
    <3>2. k \in S /\ ListOf(S \ {k}, lval, lval[k], NULL)
      <4> HIDE DEF S
      <4> QED BY <1>s, <2>3, <3>1, ListPop
    <3>3. S' = S \ {k} BY <1>0, <1>s, <2>2
    <3> QED BY <2>1, <3>1, <3>2, <3>3
  <2>4. CASE deleted_leaf = NULL
    <3>1. st[k] = "raw" /\ deleted_leaf' = deleted_leaf
      BY <2>2, <2>4, MallocFact DEF alloc_leaf
    <3> QED BY <3>1, <2>1, <2>2, <1>0, LeafListFrame
  <2> QED BY <2>3, <2>4
<1>3. CASE InsertAllocNode(w)
  <2>1. deleted_leaf' = deleted_leaf /\ lval' = lval
    BY <1>3 DEF InsertAllocNode, heap
  <2>2. \A l \in Leaves : st'[l] = st[l] BY <1>3, <1>0, AllocNodeFacts
  <2> QED BY <2>1, <2>2, LeafListFrame
<1>4. CASE InsertSetValue(w)
  <2>1. st[wk[w]] = "held" BY <1>4 DEF InsertSetValue, InvInsert, Is
  <2>2. \A l \in Leaves : st[l] = "pool" => lval'[l] = lval[l]
    BY <1>4, <2>1 DEF InsertSetValue, TypeOK
  <2>3. deleted_leaf' = deleted_leaf /\ st' = st
    BY <1>4 DEF InsertSetValue, pools, aux
  <2> QED BY <2>2, <2>3, LeafListFrame
<1>5. CASE InsertExists(w) \/ InsertNoNode(w)
  <2>1. /\ wk[w] \in Leaves /\ st[wk[w]] # "pool"
        /\ deleted_leaf' = wk[w]
        /\ \A l \in Leaves :
              lval'[l] = IF l = wk[w] THEN deleted_leaf ELSE lval[l]
        /\ \A l \in Leaves : st'[l] = IF l = wk[w] THEN "pool" ELSE st[l]
    BY <1>5, <1>0, DropLeafFacts
  <2> QED BY <2>1, LeafListPush
<1>6. CASE InsertClear(w) \/ InsertLink(w) \/ RemoveCount(w) \/ RemoveKeep(w)
  <2>1. deleted_leaf' = deleted_leaf /\ lval' = lval /\ st' = st
    BY <1>6 DEF InsertClear, InsertLink, RemoveCount, RemoveKeep, pools, heap,
                aux
  <2> QED BY <2>1, LeafListFrame
<1>7. CASE InsertInSlot(w)
  <2>1. deleted_leaf' = deleted_leaf /\ lval' = lval
    BY <1>7 DEF InsertInSlot, pools
  <2>2. \A l \in Leaves : st'[l] = "pool" <=> st[l] = "pool"
    BY <1>7, <1>0, InSlotFacts
  <2> QED BY <2>1, <2>2, LeafListFrame
<1>8. CASE InsertPublish(w)
  <2>1. deleted_leaf' = deleted_leaf /\ lval' = lval
    BY <1>8 DEF InsertPublish, pools
  <2>2. \A l \in Leaves : st'[l] = "pool" <=> st[l] = "pool"
    BY <1>8, <1>0, PublishFacts
  <2> QED BY <2>1, <2>2, LeafListFrame
<1>9. CASE RemoveFreeNode(w)
  <2>1. /\ deleted_leaf' = deleted_leaf /\ lval' = lval
        /\ \A l \in Leaves : st'[l] = st[l]
    BY <1>9, <1>0, RemoveFreeNodeFacts
  <2> QED BY <2>1, LeafListFrame
<1>10. CASE RemoveFreeLeaf(w)
  <2> DEFINE x == pending_del_leaves[wdel[w]]
  <2>1. /\ x \in Leaves \cup {NULL}
        /\ x # NULL => st[x] = "gone"
        /\ deleted_leaf' = IF x = NULL THEN deleted_leaf ELSE x
        /\ \A l \in Leaves : lval'[l] = IF l = x THEN deleted_leaf ELSE lval[l]
        /\ \A y \in Obj : st'[y] = IF y = x THEN "pool" ELSE st[y]
    BY <1>10, RemoveFreeLeafFacts DEF Waiting
  <2> HIDE DEF x
  <2>2. \A l \in Leaves : st'[l] = IF l = x THEN "pool" ELSE st[l]
    BY <2>1, <1>0
  <2>3. CASE x = NULL BY <2>1, <2>2, <2>3, <1>0, LeafListFrame
  <2>4. CASE x # NULL
    <3>1. x \in Leaves /\ deleted_leaf' = x /\ st[x] # "pool"
      BY <2>1, <2>4
    <3> QED BY <3>1, <2>1, <2>2, LeafListPush
  <2> QED BY <2>3, <2>4
<1>11. CASE RemoveRoot(w) \/ RemoveUnlink(w)
  <2>1. /\ deleted_leaf' = deleted_leaf /\ lval' = lval
        /\ \A l \in Leaves : st'[l] = "pool" <=> st[l] = "pool"
    BY <1>11, <1>0, UnlinkFacts
  <2> QED BY <2>1, LeafListFrame
<1>12. CASE RemoveCollapse(w)
  <2>1. /\ deleted_leaf' = deleted_leaf /\ lval' = lval
        /\ \A l \in Leaves : st'[l] = st[l]
    BY <1>12, <1>0, CollapseFacts
  <2> QED BY <2>1, LeafListFrame
<1> QED BY <1>1, <1>2, <1>3, <1>4, <1>5, <1>6, <1>7, <1>8, <1>9, <1>10,
           <1>11, <1>12, QuietOrLoud DEF Loud
-----------------------------------------------------------------------------
(* critnib_new, critnib_delete, and the invariant.                         *)

LEMMA WriterLife ==
    ASSUME LifeInv, up, NEW w \in Writers, WriterNext(w), up' = up
    PROVE  LifeInv'
<1>1. WParts /\ Shape /\ InvHeld /\ InvGone /\ InvEmptied /\ InvLists
  BY DEF LifeInv
<1>2. WParts' /\ Shape' BY <1>1, ShapeStep
<1>3. InvHeld' /\ InvGone' /\ InvEmptied'
  BY <1>1, HeldStep, GoneStep, EmptiedStep
<1>4. InvLists' BY <1>1, NodeListStep, LeafListStep DEF InvLists
<1>5. TypeOK' BY <1>2 DEF WParts
<1> QED BY <1>2, <1>3, <1>4, <1>5 DEF LifeInv

\* An empty structure that nobody uses, and every block back with malloc.
Unused ==
    /\ TypeOK /\ Idle /\ InvInsert /\ AllRaw
    /\ root = NULL /\ deleted_node = NULL /\ deleted_leaf = NULL
    /\ pending_del_nodes = [i \in Slots |-> NULL]
    /\ pending_del_leaves = [i \in Slots |-> NULL]
    /\ mutex = NULL

LEMMA UnusedLife ==
    Unused => WParts /\ Shape /\ InvHeld /\ InvGone /\ InvEmptied /\ InvLists
<1> SUFFICES ASSUME Unused
             PROVE  WParts /\ Shape /\ InvHeld /\ InvGone /\ InvEmptied /\ InvLists
  OBVIOUS
<1> USE DEF Unused, AllRaw
<1>0. /\ \A n \in Nodes : n \in Obj /\ st[n] = "raw"
      /\ \A l \in Leaves : l \in Obj /\ st[l] = "raw"
      /\ \A x \in Obj : st[x] = "raw" /\ x # NULL
      /\ \A w \in Writers : wpc[w] = "idle" /\ w # NULL
  BY LinkTypes, PtrAssumption DEF Obj, Idle
<1>1. InvLock BY <1>0 DEF InvLock, Busy, InsertPC, RemovePC
<1>2. InvTree /\ InvPoolNodes /\ InvPoolLeaves
  BY <1>0 DEF InvTree, InvPoolNodes, InvPoolLeaves, NullOr
<1>3. InvPending /\ InvDel /\ InvRemove
  BY <1>0 DEF InvPending, InvDel, InvRemove
<1>4. InvEdge /\ InvCover /\ InvUnique /\ InvFork
  BY <1>0 DEF InvEdge, InvCover, InvUnique, InvFork
<1>5. InvCall /\ InvLeaf /\ InvPlace /\ InvFind
  BY <1>0 DEF InvCall, InvLeaf, InvPlace, InvFind, InsertPC, RemovePC
<1>6. InvHeld /\ InvGone /\ InvEmptied
  BY <1>0 DEF InvHeld, InvGone, InvEmptied
<1>7. ASSUME NEW next PROVE ListOf({}, next, NULL, NULL)
  <2>1. Cardinality({}) = 0 BY FS_EmptySet
  <2> DEFINE q == [i \in 1 .. 0 |-> 0]
  <2>2. q \in [1 .. 0 -> {}] OBVIOUS
  <2>3. IsList({}, next, NULL, q, NULL) BY <2>1 DEF IsList
  <2> QED BY <2>1, <2>2, <2>3 DEF ListOf
<1>8. Pooled(Nodes) = {} /\ Pooled(Leaves) = {} BY <1>0 DEF Pooled
<1>9. InvLists BY <1>7, <1>8 DEF InvLists
<1> QED BY <1>1, <1>2, <1>3, <1>4, <1>5, <1>6, <1>9 DEF WParts, Shape

LEMMA LifeInitial == LifeInit => LifeInv
<1> SUFFICES ASSUME LifeInit PROVE LifeInv OBVIOUS
<1>1. Unused
  <2>0. /\ [p \in Digits |-> 0] \in Key
        /\ 0 \in Digits /\ 0 \in Nibs /\ 0 \in Slots
        /\ \A w \in Writers : w # NULL
        /\ NULL \in Ptr
    BY KeyFacts, PtrAssumption DEF Ptr
  <2>1. TypeOK BY <2>0 DEF LifeInit, Init, TypeOK, Results, States
  <2> QED BY <2>1 DEF LifeInit, Init, Unused, Idle, InvInsert, AllRaw, InsertPC
<1> QED BY <1>1, UnusedLife DEF LifeInv, Unused, LifeInit

LEMMA NewLife ==
    ASSUME LifeInv, critnib_new
    PROVE  LifeInv'
<1>1. /\ TypeOK /\ Idle /\ InvInsert /\ AllRaw /\ up'
      /\ UNCHANGED <<child, path, shift, lkey, lval, wpc, wop, wkey, wval,
                     wk, wm, wsh, wn, wpar, wgp, wdel, wret, st, stamp>>
  BY DEF LifeInv, critnib_new, heap, locals, aux
<1>2. TypeOK' BY <1>1 DEF critnib_new, TypeOK, Ptr
<1>3. Idle' /\ AllRaw' BY <1>1 DEF Idle, AllRaw
<1>4. InvInsert' BY <1>1 DEF InvInsert, Idle
<1>5. Unused' BY <1>2, <1>3, <1>4 DEF Unused, critnib_new
<1>6. (WParts /\ Shape /\ InvHeld /\ InvGone /\ InvEmptied /\ InvLists)'
  <2>1. (Unused => WParts /\ Shape /\ InvHeld /\ InvGone /\ InvEmptied /\ InvLists)'
    BY UnusedLife, PTL
  <2> QED BY <1>5, <2>1
<1> QED BY <1>1, <1>2, <1>6 DEF LifeInv, critnib_new

\* critnib_delete has given every block back.
LEMMA DeleteLife ==
    ASSUME LifeInv, critnib_delete
    PROVE  LifeInv'
<1>1. TypeOK /\ up /\ Idle /\ WParts BY DEF LifeInv, critnib_delete
<1>2. /\ UNCHANGED <<root, deleted_node, deleted_leaf, pending_del_nodes,
                     pending_del_leaves, remove_count, mutex, wpc, wop, wkey,
                     wval, inserts, removes, wk, wm, wsh, wn, wpar, wgp, wdel,
                     wret>>
      /\ ~up' /\ up' \in BOOLEAN
  BY DEF critnib_delete, pools, pending, call, locals
<1>3. \A x \in Obj : st'[x] = "raw"
  <2>1. ASSUME NEW x \in Obj PROVE st'[x] = "raw"
    <3>1. Frees(x) = IF st[x] = "raw" THEN 0 ELSE 1
      BY <1>1, FreesEach
    <3> QED BY <3>1 DEF critnib_delete
  <2> QED BY <2>1
<1>4. TypeOK'
  <2>1. /\ st' \in [Obj -> States]
        /\ stamp' \in [Obj -> Nat]
    <3>1. st' = [x \in Obj |-> IF Frees(x) > 0 THEN "raw" ELSE st[x]]
          /\ stamp' = [x \in Obj |-> IF Frees(x) > 0 THEN 0 ELSE stamp[x]]
      BY DEF critnib_delete
    <3>2. st \in [Obj -> States] /\ stamp \in [Obj -> Nat] /\ "raw" \in States
      BY <1>1 DEF TypeOK, States
    <3> QED BY <3>1, <3>2
  <2>2. /\ NIB \in Nibs /\ 0 \in Digits
        /\ \A n \in Nodes : n \in Ptr
    BY SizeAssumption DEF Nibs, Digits, Ptr, Obj
  <2>3. /\ child' \in [Nodes -> [Nibs -> Ptr]]
        /\ path' \in [Nodes -> Key]
        /\ shift' \in [Nodes -> Digits]
        /\ lkey' \in [Leaves -> Key]
        /\ lval' \in [Leaves -> Values \cup Leaves \cup {NULL}]
    BY <2>2 DEF critnib_delete, Junk, Key
  <2> QED BY <1>1, <1>2, <2>1, <2>3 DEF TypeOK
<1>5. Idle' /\ AllRaw' BY <1>1, <1>2, <1>3 DEF Idle, AllRaw
<1>6. InvInsert' BY <1>1, <1>2 DEF WParts, InvInsert, Idle
<1> QED BY <1>2, <1>4, <1>5, <1>6 DEF LifeInv
LEMMA LifeStutter ==
    ASSUME LifeInv, UNCHANGED lvars
    PROVE  LifeInv'
<1>1. UNCHANGED wvars /\ up' = up BY DEF lvars
<1>2. ASSUME up
      PROVE  (WParts /\ Shape /\ InvHeld /\ InvGone /\ InvEmptied /\ InvLists)'
  <2>1. WParts' BY <1>1, <1>2, WriterPartsFrame DEF LifeInv, WParts
  <2>2. Shape' BY <1>1, <1>2, ShapeFrame DEF LifeInv
  <2> USE <1>1, <1>2 DEF LifeInv, wvars, heap, pools, pending, call, locals, aux
  <2>3. InvHeld' BY DEF InvHeld, Owning
  <2>4. InvGone' BY DEF InvGone, InSlots
  <2>5. InvEmptied' BY DEF InvEmptied
  <2>6. InvLists'
    <3>1. UNCHANGED <<Pooled(Nodes), Pooled(Leaves), NextNode, lval,
                      deleted_node, deleted_leaf>>
      BY DEF Pooled, NextNode
    <3> QED BY <3>1 DEF InvLists, ListOf, IsList
  <2> QED BY <2>1, <2>2, <2>3, <2>4, <2>5, <2>6
<1>3. ASSUME ~up PROVE (Idle /\ InvInsert /\ AllRaw)'
  BY <1>1, <1>3 DEF LifeInv, wvars, heap, pools, pending, call, locals, aux,
                    Idle, InvInsert, Is, NullOr, Slot, AllRaw
<1>4. TypeOK'
  BY <1>1 DEF LifeInv, wvars, heap, pools, pending, call, locals, aux, TypeOK
<1> QED BY <1>1, <1>2, <1>3, <1>4 DEF LifeInv

\* The invariant of the life of a critnib: critnib_new starts it anew,
\* whatever malloc's blocks contain; inserts and removes preserve it; and
\* critnib_delete, which the last of them may be followed by, gives every
\* block back.
THEOREM LifeInvariance == LifeSpec => []LifeInv
<1>1. LifeInit => LifeInv BY LifeInitial
<1>2. LifeInv /\ [LifeNext]_lvars => LifeInv'
  <2> SUFFICES ASSUME LifeInv, [LifeNext]_lvars PROVE LifeInv' OBVIOUS
  <2>1. CASE critnib_new BY <2>1, NewLife
  <2>2. CASE critnib_delete BY <2>2, DeleteLife
  <2>3. CASE up /\ (\E w \in Writers : WriterNext(w)) /\ UNCHANGED up
    BY <2>3, WriterLife
  <2>4. CASE UNCHANGED lvars BY <2>4, LifeStutter
  <2> QED BY <2>1, <2>2, <2>3, <2>4 DEF LifeNext
<1> QED BY <1>1, <1>2, PTL DEF LifeSpec

-----------------------------------------------------------------------------
(* What the invariant gives.                                               *)

Spread(f, k) ==
    f = [d \in 0 .. k |-> IF d = 0 THEN {root} \ {NULL} ELSE Grown(f[d-1])]

LEMMA SpreadIs ==
    ASSUME NEW k \in Nat, NEW f, Spread(f, k)
    PROVE  \A d \in 0 .. k :
              f[d] = IF d = 0 THEN {root} \ {NULL} ELSE Grown(f[d-1])
<1> DEFINE g == [d \in 0 .. k |->
                    IF d = 0 THEN {root} \ {NULL} ELSE Grown(f[d-1])]
<1>1. \A d \in 0 .. k : g[d] = IF d = 0 THEN {root} \ {NULL} ELSE Grown(f[d-1])
  OBVIOUS
<1>2. f = g BY DEF Spread
<1> HIDE DEF g
<1> QED BY <1>1, <1>2

\* The recursive definition of Reachable does define a function.
LEMMA SpreadExists ==
    ASSUME NEW K \in Nat
    PROVE  \E f : Spread(f, K)
<1> DEFINE T == {k \in Nat : ~ \E f : Spread(f, k)}
<1>0. T \subseteq Nat OBVIOUS
<1>1. SUFFICES ASSUME T # {} PROVE FALSE BY <1>0
<1>2. PICK k \in T : \A e \in T : k <= e BY <1>0, <1>1, LeastNat
<1>3. k # 0
  <2> DEFINE f == [d \in 0 .. 0 |-> {root} \ {NULL}]
  <2>1. Spread(f, 0) BY DEF Spread
  <2> QED BY <2>1
<1>4. k-1 \in Nat /\ k-1 \notin T BY <1>2, <1>3
<1>5. PICK g : Spread(g, k-1) BY <1>4
<1> DEFINE f == [d \in 0 .. k |->
                    IF d = 0 THEN {root} \ {NULL} ELSE Grown(g[d-1])]
<1>6. \A d \in 0 .. k-1 : f[d] = g[d]
  <2>1. \A d \in 0 .. k-1 :
           g[d] = IF d = 0 THEN {root} \ {NULL} ELSE Grown(g[d-1])
    BY <1>4, <1>5, SpreadIs
  <2>2. \A d \in 0 .. k-1 : d \in 0 .. k BY <1>4
  <2> QED BY <2>1, <2>2
<1>7. ASSUME NEW d \in 0 .. k
      PROVE  f[d] = IF d = 0 THEN {root} \ {NULL} ELSE Grown(f[d-1])
  <2>1. CASE d = 0 BY <2>1
  <2>2. CASE d # 0
    <3>1. d-1 \in 0 .. k-1 BY <2>2, <1>4
    <3>2. f[d-1] = g[d-1] BY <3>1, <1>6
    <3>3. f[d] = Grown(g[d-1]) BY <2>2
    <3> QED BY <2>2, <3>2, <3>3
  <2> QED BY <2>1, <2>2
<1>8. Spread(f, k) BY <1>7 DEF Spread
<1> QED BY <1>8

\* Every block that can be reached is live.
LEMMA ReachableLive ==
    ASSUME TypeOK, InvTree
    PROVE  \A x \in Reachable : x \in Obj /\ st[x] = "live"
<1> DEFINE Alive == {x \in Obj : st[x] = "live"}
           h == CHOOSE within : within = [d \in 0 .. LEVELS |->
                  IF d = 0 THEN {root} \ {NULL}
                  ELSE Grown(within[d-1])]
<1>0. LEVELS \in Nat BY SizeAssumption
<1>1. PICK f : Spread(f, LEVELS) BY <1>0, SpreadExists
<1>2. Reachable = h[LEVELS] BY DEF Reachable
<1>3. Spread(h, LEVELS) BY <1>1 DEF Spread
<1> HIDE DEF h
<1>4. \A d \in 0 .. LEVELS :
         h[d] = IF d = 0 THEN {root} \ {NULL} ELSE Grown(h[d-1])
  BY <1>0, <1>3, SpreadIs
<1>5. ASSUME NEW S, S \subseteq Alive PROVE Grown(S) \subseteq Alive
  <2>1. ASSUME NEW n \in Nodes, st[n] = "live", NEW i \in Nibs,
               child[n][i] # NULL
        PROVE  child[n][i] \in Alive
    BY <2>1, LinkTypes DEF InvTree, NullOr, Ptr
  <2> QED BY <1>5, <2>1 DEF Grown
<1>6. {root} \ {NULL} \subseteq Alive BY LinkTypes DEF InvTree, NullOr, Ptr
<1> DEFINE T == {d \in Nat : d <= LEVELS /\ ~(h[d] \subseteq Alive)}
<1>7. T = {}
  <2>0. T \subseteq Nat OBVIOUS
  <2>1. SUFFICES ASSUME T # {} PROVE FALSE OBVIOUS
  <2>2. PICK k \in T : \A e \in T : k <= e BY <2>0, <2>1, LeastNat
  <2>3. k \in 0 .. LEVELS /\ ~(h[k] \subseteq Alive) BY <2>2, <1>0
  <2>4. k # 0 BY <2>3, <1>4, <1>6
  <2>5. k-1 \in Nat /\ k-1 \notin T /\ k-1 <= LEVELS BY <2>2, <2>3, <2>4, <1>0
  <2>6. h[k-1] \subseteq Alive BY <2>5
  <2> QED BY <2>3, <2>4, <2>6, <1>4, <1>5
<1>8. h[LEVELS] \subseteq Alive BY <1>0, <1>7
<1> QED BY <1>2, <1>8

\* Two children make at least two.
LEMMA OccupiedSize ==
    ASSUME NEW n \in Nodes
    PROVE  /\ \A i \in Nibs : child[n][i] # NULL => Cardinality(Occupied(n)) >= 1
           /\ \A i, j \in Nibs :
                 child[n][i] # NULL /\ child[n][j] # NULL /\ i # j
                 => Cardinality(Occupied(n)) >= 2
<1> DEFINE S == Occupied(n)
<1>1. IsFiniteSet(Nibs) BY SizeAssumption, FS_Interval DEF Nibs
<1>2. S \subseteq Nibs BY DEF Occupied
<1>3. IsFiniteSet(S) /\ Cardinality(S) \in Nat
  BY <1>1, <1>2, FS_Subset, FS_CardinalityType
<1>4. ASSUME NEW i \in Nibs, child[n][i] # NULL
      PROVE  Cardinality(S) >= 1
  <2>1. i \in S BY <1>4 DEF Occupied
  <2>2. Cardinality({i}) = 1 BY FS_Singleton
  <2>3. {i} \subseteq S BY <2>1
  <2> QED BY <1>3, <2>2, <2>3, FS_Subset
<1>5. ASSUME NEW i \in Nibs, NEW j \in Nibs, child[n][i] # NULL,
             child[n][j] # NULL, i # j
      PROVE  Cardinality(S) >= 2
  <2>1. i \in S /\ j \in S BY <1>5 DEF Occupied
  <2>2. Cardinality({i}) = 1 /\ IsFiniteSet({i}) BY FS_Singleton
  <2>3. Cardinality({i} \cup {j}) = 2
    <3>1. j \notin {i} BY <1>5
    <3> QED BY <2>2, <3>1, FS_AddElement
  <2>4. {i} \cup {j} \subseteq S BY <2>1
  <2> QED BY <1>3, <2>3, <2>4, FS_Subset
<1> QED BY <1>4, <1>5

LEMMA ShapeOfTree ==
    ASSUME WParts, Shape
    PROVE  TreeShape
<1>1. TypeOK /\ InvTree /\ InvEdge /\ InvFork BY DEF WParts, Shape
<1>2. SUFFICES ASSUME NEW n \in Reachable, n \in Nodes
               PROVE  /\ Cardinality(Occupied(n)) >= IF Fixing(n) THEN 1 ELSE 2
                      /\ path[n] = path_mask(path[n], shift[n])
                      /\ \A i \in Occupied(n) :
                            LET c == child[n][i]
                            IN  /\ path_mask(PathOf(c), shift[n]) = path[n]
                                /\ slice_index(PathOf(c), shift[n]) = i
                                /\ c \in Nodes => shift[c] < shift[n]
  BY DEF TreeShape, Fixing
<1>3. st[n] = "live" BY <1>1, ReachableLive
<1>4. Cardinality(Occupied(n)) >= IF Fixing(n) THEN 1 ELSE 2
  BY <1>1, <1>2, <1>3, OccupiedSize DEF InvFork
<1>5. path[n] = path_mask(path[n], shift[n]) BY <1>1, <1>2, <1>3 DEF InvEdge
<1>6. ASSUME NEW i \in Nibs, child[n][i] # NULL
      PROVE  /\ path_mask(PathOf(child[n][i]), shift[n]) = path[n]
             /\ slice_index(PathOf(child[n][i]), shift[n]) = i
             /\ child[n][i] \in Nodes => shift[child[n][i]] < shift[n]
  <2>1. /\ Under(child[n][i], n)
        /\ slice_index(PathOf(child[n][i]), shift[n]) = i
    BY <1>1, <1>2, <1>3, <1>6 DEF InvEdge
  <2>2. child[n][i] \in Nodes => ShiftOf(child[n][i]) = shift[child[n][i]]
    BY PtrAssumption DEF ShiftOf
  <2> QED BY <2>1, <2>2 DEF Under
<1> QED BY <1>4, <1>5, <1>6 DEF Occupied

\* In every life of the structure, and in the middle of every operation, each
\* node of the tree branches, and below each of its slots are only keys that
\* agree with it and with the slot - however the blocks that malloc handed
\* out were filled.
THEOREM ShapeInEveryLife == LifeSpec => []LifeShape
<1>1. LifeInv => LifeShape BY ShapeOfTree DEF LifeInv, LifeShape
<1> QED BY <1>1, LifeInvariance, PTL

\* The three loops and the recursion of critnib_delete free each block at
\* most once, and none that malloc has.
THEOREM DeleteIsClean == LifeSpec => []DeleteFreesOnce
<1>1. ASSUME LifeInv PROVE DeleteFreesOnce
  <2>1. SUFFICES ASSUME up, Idle, NEW x \in Obj
                 PROVE  Frees(x) <= IF st[x] = "raw" THEN 0 ELSE 1
    BY DEF DeleteFreesOnce
  <2>2. Frees(x) = IF st[x] = "raw" THEN 0 ELSE 1
    BY <1>1, <2>1, FreesEach
  <2> QED BY <2>2
<1> QED BY <1>1, LifeInvariance, PTL

\* critnib_delete gives every block back: none is lost by an insert that
\* fails, a collapse, a slot that is used again, or the pools.
THEOREM NothingLeaks == LifeSpec => []NoLeak
<1>1. LifeInv => NoLeak BY DEF LifeInv, NoLeak, AllRaw
<1> QED BY <1>1, LifeInvariance, PTL

-----------------------------------------------------------------------------
(* critnib-tag.c.                                                          *)

\* A live leaf has the key.
There(key) == \E l \in Leaves : LeafOf(key, l)

\* What a caller has inserted, and not removed since, is in the tree.
InvOwned == up => \A key \in owned : There(key)

\* Nobody else works on the key of a call.
InvApart ==
    \A w, x \in Writers :
       w # x /\ wpc[w] # "idle" /\ wpc[x] # "idle" => wkey[w] # wkey[x]

\* Nobody owns a key that is being removed.
InvTaken ==
    \A w \in Writers :
       wpc[w] # "idle" /\ wop[w] = "remove" => wkey[w] \notin owned

\* An insert that is about to return 0 has put its key into the tree.
InvDone ==
    \A w \in Writers :
       wpc[w] = "unlock" /\ wop[w] = "insert" /\ wret[w] = "0" => There(wkey[w])

\* A remove of a key that is in the tree, until it takes it out, and after.
InvSure ==
    \A w \in Writers : sure[w] =>
       /\ wpc[w] # "idle" /\ wop[w] = "remove"
       /\ wpc[w] \notin {"fix", "unlock"} => There(wkey[w])
       /\ wpc[w] = "unlock" => wret[w] # NULL

TagParts == /\ owned \in SUBSET Keys /\ sure \in [Writers -> BOOLEAN]
            /\ InvOwned /\ InvApart /\ InvTaken /\ InvDone /\ InvSure

\* The readers of critnib-tag.c: what CritnibInv and CritnibShape say of a
\* thread in get, and CritnibLeInv of one in find_le.
ReadTypes == /\ LeTypeOK
             /\ valid \in [Readers -> SUBSET (Values \cup Leaves \cup {NULL})]
             /\ finding \in [Readers -> BOOLEAN]

GetParts(r) == /\ FreshAt(r) /\ ClosedAt(r) /\ StepAt(r) /\ ValueAt(r) /\ MissAt(r)
               /\ stack[r] = <<>> /\ rpc[r] \notin {"scan", "back"}

LeParts(r) == LeStepAt(r) /\ LeClosedAt(r) /\ LeAloneAt(r)

Rested(r) == rpc[r] = "idle" /\ valid[r] = {} /\ stack[r] = <<>>

ReadParts(r) == /\ finding[r] => LeParts(r)
                /\ ~finding[r] => GetParts(r)
                /\ rpc[r] = "idle" \/ ~up => Rested(r)

ReadInv == ReadTypes /\ LeFresh /\ \A r \in Readers : ReadParts(r)

TagInv == IF Crashed THEN RemoveFinds /\ ParanoiaIdle /\ ResultsSound
          ELSE LifeInv /\ TagParts /\ ReadInv

\* A key leaves the tree only by the remove that is for it.
LEMMA ThereStays ==
    ASSUME LifeInv, up, NEW w \in Writers, WriterNext(w), NEW key, There(key),
           RemoveRoot(w) \/ RemoveUnlink(w) => wkey[w] # key
    PROVE  There(key)'
<1> USE DEF WParts
<1>0. WParts /\ \A l \in Leaves : l \in Obj /\ l \notin Nodes
  BY PtrAssumption DEF LifeInv, Obj
<1>1. TypeOK' BY <1>0, TypeStep
<1>2. PICK l \in Leaves : st[l] = "live" /\ lkey[l] = key BY DEF There, LeafOf
<1>3. lkey'[l] = key BY <1>0, <1>2, LeafKeySame
<1>4. st'[l] = "live"
  <2>1. CASE ~TreeChange(w) BY <1>0, <1>1, <1>2, <2>1, StillStep DEF Still
  <2>2. CASE InsertInSlot(w) BY <1>0, <1>2, <2>2, InSlotFacts
  <2>3. CASE InsertPublish(w) BY <1>0, <1>2, <2>3, PublishFacts
  <2>4. CASE RemoveRoot(w) \/ RemoveUnlink(w)
    <3>1. lkey[wn[w]] = wkey[w]
          /\ st'[l] = IF l = wn[w] THEN "gone" ELSE st[l]
      BY <1>0, <2>4, UnlinkFacts
    <3> QED BY <1>2, <2>4, <3>1
  <2>5. CASE RemoveCollapse(w) BY <1>0, <1>2, <2>5, CollapseFacts
  <2> QED BY <2>1, <2>2, <2>3, <2>4, <2>5 DEF TreeChange
<1> QED BY <1>3, <1>4 DEF There, LeafOf

LEMMA TagCallStep ==
    ASSUME LifeInv, TagParts, up, up' = up, NEW w \in Writers, TagCall(w)
    PROVE  TagParts'
<1>0. TypeOK BY DEF LifeInv
<1>1. /\ wpc[w] = "idle" /\ wpc'[w] = "lock"
      /\ wop'[w] \in {"insert", "remove"}
      /\ wkey'[w] \in Keys
      /\ \A x \in Writers : x # w => wpc[x] = "idle" \/ wkey[x] # wkey'[w]
      /\ sure' = [sure EXCEPT ![w] = wop'[w] = "remove" /\ wkey'[w] \in owned]
      /\ owned' = IF wop'[w] = "remove" THEN owned \ {wkey'[w]} ELSE owned
      /\ wret' = wret
  BY <1>0 DEF TagCall, CallInsert, CallRemove, Call, Goto, Alone, TypeOK
<1>2. /\ UNCHANGED <<lkey, st>>
      /\ \A u \in Writers : u # w =>
            wpc'[u] = wpc[u] /\ wkey'[u] = wkey[u] /\ wop'[u] = wop[u]
  BY <1>0, EdgePcs DEF TagCall
<1>3. \A key : There(key)' <=> There(key) BY <1>2 DEF There, LeafOf
<1> HIDE DEF There
<1>4. owned' \in SUBSET Keys /\ sure' \in [Writers -> BOOLEAN]
  BY <1>1 DEF TagParts
<1>5. InvOwned' BY <1>1, <1>3 DEF TagParts, InvOwned
<1>6. InvApart' BY <1>1, <1>2 DEF TagParts, InvApart
<1>7. InvTaken' BY <1>1, <1>2 DEF TagParts, InvTaken
<1>8. InvDone' BY <1>1, <1>2, <1>3 DEF TagParts, InvDone
<1>9. InvSure'
  <2>1. ASSUME NEW u \in Writers, sure'[u]
        PROVE  /\ wpc'[u] # "idle" /\ wop'[u] = "remove"
               /\ wpc'[u] \notin {"fix", "unlock"} => There(wkey[u])'
               /\ wpc'[u] = "unlock" => wret'[u] # NULL
    <3>1. CASE u = w
      <4>1. wop'[w] = "remove" /\ wkey'[w] \in owned
        BY <1>1, <2>1, <3>1 DEF TagParts
      <4>2. There(wkey'[w]) BY <4>1 DEF TagParts, InvOwned
      <4> QED BY <1>1, <1>3, <3>1, <4>1, <4>2
    <3>2. CASE u # w
      <4>1. sure[u] BY <1>1, <2>1, <3>2 DEF TagParts
      <4> QED BY <1>1, <1>2, <1>3, <3>2, <4>1 DEF TagParts, InvSure
    <3> QED BY <3>1, <3>2
  <2> QED BY <2>1 DEF InvSure
<1> QED BY <1>4, <1>5, <1>6, <1>7, <1>8, <1>9 DEF TagParts

LEMMA TagReturnStep ==
    ASSUME LifeInv, TagParts, up, up' = up, NEW w \in Writers, TagReturn(w)
    PROVE  TagParts'
<1>0. TypeOK /\ InvCall BY DEF LifeInv, Shape
<1>1. /\ wpc[w] = "unlock" /\ wpc'[w] = "idle"
      /\ wkey[w] \in Keys
      /\ sure' = [sure EXCEPT ![w] = FALSE]
      /\ owned' = IF wop[w] = "insert" /\ wret[w] = "0"
                  THEN owned \cup {wkey[w]} ELSE owned
      /\ \A u \in Writers : u # w => wret'[u] = wret[u]
  BY <1>0 DEF TagReturn, Unlock, Goto, TypeOK, InvCall
<1>2. /\ UNCHANGED <<lkey, st>>
      /\ \A u \in Writers : u # w =>
            wpc'[u] = wpc[u] /\ wkey'[u] = wkey[u] /\ wop'[u] = wop[u]
  BY <1>0, EdgePcs DEF TagReturn
<1>3. \A key : There(key)' <=> There(key) BY <1>2 DEF There, LeafOf
<1> HIDE DEF There
<1>4. owned' \in SUBSET Keys /\ sure' \in [Writers -> BOOLEAN]
  BY <1>1 DEF TagParts
<1>5. InvOwned'
  <2>1. wop[w] = "insert" /\ wret[w] = "0" => There(wkey[w])
    BY <1>1 DEF TagParts, InvDone
  <2> QED BY <1>1, <1>3, <2>1 DEF TagParts, InvOwned
<1>6. InvApart' BY <1>1, <1>2 DEF TagParts, InvApart
<1>7. InvTaken'
  <2>1. ASSUME NEW u \in Writers, wpc'[u] # "idle", wop'[u] = "remove"
        PROVE  wkey'[u] \notin owned'
    <3>1. u # w /\ wpc[u] # "idle" /\ wop[u] = "remove" /\ wkey'[u] = wkey[u]
      BY <1>1, <1>2, <2>1
    <3>2. wkey[u] # wkey[w] BY <1>1, <3>1 DEF TagParts, InvApart
    <3>3. wkey[u] \notin owned BY <3>1 DEF TagParts, InvTaken
    <3> QED BY <1>1, <3>1, <3>2, <3>3
  <2> QED BY <2>1 DEF InvTaken
<1>8. InvDone' BY <1>1, <1>2, <1>3 DEF TagParts, InvDone
<1>9. InvSure'
  <2>1. ASSUME NEW u \in Writers, sure'[u]
        PROVE  /\ wpc'[u] # "idle" /\ wop'[u] = "remove"
               /\ wpc'[u] \notin {"fix", "unlock"} => There(wkey[u])'
               /\ wpc'[u] = "unlock" => wret'[u] # NULL
    <3>1. u # w /\ sure[u] BY <1>1, <2>1 DEF TagParts
    <3> QED BY <1>1, <1>2, <1>3, <3>1 DEF TagParts, InvSure
  <2> QED BY <2>1 DEF InvSure
<1> QED BY <1>4, <1>5, <1>6, <1>7, <1>8, <1>9 DEF TagParts

\* A remove that looks for a key that is in the tree is on the way to it.
LEMMA SureFinds ==
    ASSUME LifeInv, up, NEW w \in Writers, There(wkey[w])
    PROVE  /\ root # NULL
           /\ wpc[w] = "find" => /\ wn[w] # NULL
                                 /\ is_leaf(wn[w]) => lkey[wn[w]] = wkey[w]
<1>1. PICK l \in Leaves : st[l] = "live" /\ lkey[l] = wkey[w]
  BY DEF There, LeafOf
<1>2. l \in Obj /\ l # NULL /\ NULL \notin Nodes /\ Nodes \cap Leaves = {}
  BY PtrAssumption DEF Obj
<1>3. InvCover /\ InvFind BY DEF LifeInv, Shape
<1>4. Leads(root, l) BY <1>1, <1>2, <1>3 DEF InvCover
<1>5. wpc[w] = "find" => Leads(wn[w], l) BY <1>1, <1>3 DEF InvFind
<1>6. \A p : Leads(p, l) => p = l \/ p \in Nodes BY DEF Leads, Under
<1> QED BY <1>1, <1>2, <1>4, <1>5, <1>6 DEF is_leaf

\* What a remove returns is the value its leaf has had.
LEMMA RemoveGives ==
    ASSUME LifeInv, up, NEW w \in Writers,
           RemoveRoot(w) \/ RemoveKeep(w) \/ RemoveCollapse(w)
    PROVE  wret'[w] # NULL
<1>1. TypeOK /\ WParts /\ InvLeaf BY DEF LifeInv, Shape
<1>2. wret'[w] = lval[wn[w]]
  BY <1>1 DEF RemoveRoot, RemoveKeep, RemoveCollapse, Ret, TypeOK
<1>3. lval[wn[w]] \in Values
  <2>1. CASE RemoveRoot(w)
    <3>1. wn[w] \in Leaves /\ st[wn[w]] = "live"
      BY <1>1, <2>1, UnlinkFacts DEF WParts
    <3> QED BY <1>1, <3>1 DEF InvLeaf
  <2>2. CASE RemoveKeep(w) \/ RemoveCollapse(w)
    BY <1>1, <2>2 DEF RemoveKeep, RemoveCollapse, InvLeaf
  <2> QED BY <2>1, <2>2
<1> QED BY <1>2, <1>3, PtrAssumption

\* An insert that returns 0 has linked its leaf.
LEMMA InsertPuts ==
    ASSUME LifeInv, up, NEW w \in Writers, Insert(w),
           wpc'[w] = "unlock", wret'[w] = "0"
    PROVE  There(wkey[w])'
<1>0. /\ TypeOK /\ WParts /\ InvPlace
      /\ \A l \in Leaves : l \in Obj
      /\ wpc[w] \in InsertPC
  BY InsertPcs DEF LifeInv, Shape, Obj
<1>1. InsertInSlot(w) \/ InsertPublish(w)
  <2>1. wpc[w] # "unlock" BY <1>0 DEF InsertPC
  <2>2. ~InsertNoLeaf(w) /\ ~InsertExists(w) /\ ~InsertNoNode(w)
    BY <1>0 DEF InsertNoLeaf, InsertExists, InsertNoNode, Ret, TypeOK
  <2>3. ~InsertAllocLeaf(w) /\ ~InsertSetKey(w) /\ ~InsertSetValue(w)
        /\ ~InsertAllocNode(w) /\ ~InsertClear(w) /\ ~InsertLink(w)
        /\ ~InsertHead(w) /\ ~InsertDescend(w)
    BY <1>0, <2>1 DEF InsertAllocLeaf, InsertSetKey, InsertSetValue,
       InsertAllocNode, InsertClear, InsertLink, InsertHead, InsertDescend,
       Goto, TypeOK
  <2> QED BY <2>2, <2>3 DEF Insert
<1>2. wk[w] \in Leaves /\ st'[wk[w]] = "live"
  <2>1. CASE InsertInSlot(w) BY <1>0, <2>1, InSlotFacts DEF WParts
  <2>2. CASE InsertPublish(w) BY <1>0, <2>2, PublishFacts DEF WParts
  <2> QED BY <1>1, <2>1, <2>2
<1>3. lkey' = lkey /\ wkey' = wkey /\ lkey[wk[w]] = wkey[w]
  BY <1>0, <1>1 DEF InsertInSlot, InsertPublish, call, InvPlace
<1> QED BY <1>2, <1>3 DEF There, LeafOf

LEMMA TagRunStep ==
    ASSUME LifeInv, TagParts, up, up' = up, UNCHANGED <<owned, sure>>,
           NEW w \in Writers, ~RemoveNullDeref(w),
           Lock(w) \/ critnib_tag_insert(w) \/ critnib_tag_remove(w)
    PROVE  WriterNext(w) /\ TagParts'
<1>0. TypeOK /\ InvLock /\ InvCall BY DEF LifeInv, WParts, Shape
<1>1. Lock(w) \/ Insert(w) \/ Remove(w)
  BY DEF critnib_tag_insert, critnib_tag_remove, RemoveOther, Remove
<1>2. WriterNext(w) BY <1>1 DEF WriterNext, Run
<1>3. /\ UNCHANGED <<wop, wkey>>
      /\ \A u \in Writers : u # w => wpc'[u] = wpc[u]
      /\ wpc[w] # "idle" /\ wpc'[w] # "idle"
  BY <1>0, <1>1, InsertPcs, RemovePcs
     DEF Lock, Goto, TypeOK, call, InsertPC, RemovePC
<1>4. ASSUME NEW u \in Writers, u # w, wpc[u] = "unlock"
      PROVE  wret' = wret
  <2>1. wpc[u] \in Busy BY <1>4 DEF Busy
  <2>2. Insert(w) \/ Remove(w) => wpc[w] \in Busy
    BY <1>0, InsertPcs, RemovePcs DEF Busy
  <2>3. Lock(w) BY <1>0, <1>1, <1>4, <2>1, <2>2 DEF InvLock
  <2> QED BY <2>3 DEF Lock
<1>5. ASSUME NEW key, There(key), RemoveRoot(w) \/ RemoveUnlink(w) => wkey[w] # key
      PROVE  There(key)'
  BY <1>2, <1>5, ThereStays
<1>6. Remove(w) => wop[w] = "remove" /\ wpc[w] \in RemovePC
  BY <1>0, RemovePcs DEF InvCall
<1>7. RemoveRoot(w) \/ RemoveUnlink(w) => Remove(w) BY DEF Remove
<1> USE DEF TagParts
<1>a. InvOwned'
  <2>1. ASSUME NEW key \in owned PROVE There(key)'
    <3>1. There(key) BY DEF InvOwned
    <3>2. RemoveRoot(w) \/ RemoveUnlink(w) => wkey[w] # key
      BY <1>3, <1>6, <1>7 DEF InvTaken
    <3> QED BY <1>5, <3>1, <3>2
  <2> QED BY <2>1 DEF InvOwned
<1>b. InvApart' BY <1>3 DEF InvApart
<1>c. InvTaken' BY <1>3 DEF InvTaken
<1>d. InvDone'
  <2>1. ASSUME NEW u \in Writers, wpc'[u] = "unlock", wop'[u] = "insert",
               wret'[u] = "0"
        PROVE  There(wkey[u])'
    <3>1. CASE u = w
      <4>1. Insert(w)
        <5>1. ~Lock(w) BY <1>0, <2>1, <3>1 DEF Lock, Goto, TypeOK
        <5> QED BY <1>1, <1>3, <1>6, <2>1, <3>1, <5>1
      <4> QED BY <2>1, <3>1, <4>1, InsertPuts
    <3>2. CASE u # w
      <4>1. wpc[u] = "unlock" /\ wop[u] = "insert" BY <1>3, <2>1, <3>2
      <4>2. wret' = wret BY <1>4, <3>2, <4>1
      <4>3. There(wkey[u]) BY <2>1, <4>1, <4>2 DEF InvDone
      <4>4. wkey[u] # wkey[w] BY <1>3, <3>2, <4>1 DEF InvApart
      <4> QED BY <1>3, <1>5, <4>3, <4>4
    <3> QED BY <3>1, <3>2
  <2> QED BY <2>1 DEF InvDone
<1>e. InvSure'
  <2>1. ASSUME NEW u \in Writers, sure[u]
        PROVE  /\ wpc'[u] # "idle" /\ wop'[u] = "remove"
               /\ wpc'[u] \notin {"fix", "unlock"} => There(wkey[u])'
               /\ wpc'[u] = "unlock" => wret'[u] # NULL
    <3>1. /\ wpc[u] # "idle" /\ wop[u] = "remove"
          /\ wpc[u] \notin {"fix", "unlock"} => There(wkey[u])
          /\ wpc[u] = "unlock" => wret[u] # NULL
      BY <2>1 DEF InvSure
    <3>2. CASE u # w
      <4>1. wkey[u] # wkey[w] BY <1>3, <3>1, <3>2 DEF InvApart
      <4>2. wpc'[u] = wpc[u] BY <1>3, <3>2
      <4>3. wpc[u] = "unlock" => wret' = wret BY <1>4, <3>2
      <4>4. There(wkey[u]) => There(wkey[u])' BY <1>3, <1>5, <4>1
      <4> QED BY <1>3, <3>1, <4>2, <4>3, <4>4
    <3>3. CASE u = w
      <4>0. ~Insert(w)
        <5>1. Insert(w) => wpc[w] \in InsertPC BY <1>0, InsertPcs
        <5> QED BY <1>0, <3>1, <3>3, <5>1 DEF InvCall
      <4>1. CASE Lock(w)
        <5>1. /\ ~(RemoveRoot(w) \/ RemoveUnlink(w))
              /\ wpc[w] = "lock" /\ wpc'[w] \in {"alloc_leaf", "remove"}
          BY <4>1, <1>0 DEF Lock, RemoveRoot, RemoveUnlink, Found, Goto, TypeOK
        <5> QED BY <1>3, <1>5, <3>1, <3>3, <5>1
      <4>2. CASE RemoveEmpty(w)
        BY <4>2, <3>1, <3>3, SureFinds DEF RemoveEmpty
      <4>3. CASE RemoveAbsent(w)
        <5>1. wpc[w] = "find" BY <4>3 DEF RemoveAbsent
        <5>2. /\ wn[w] # NULL
              /\ is_leaf(wn[w]) => lkey[wn[w]] = wkey[w]
          BY <5>1, <3>1, <3>3, SureFinds
        <5> QED BY <4>3, <5>2 DEF RemoveAbsent
      <4>4. CASE RemoveRoot(w) \/ RemoveKeep(w) \/ RemoveCollapse(w)
        <5>1. wpc'[w] = "unlock"
          BY <1>0, <4>4 DEF RemoveRoot, RemoveKeep, RemoveCollapse, Ret, Goto,
             TypeOK
        <5>2. wret'[w] # NULL BY <4>4, RemoveGives
        <5> QED BY <1>3, <3>1, <3>3, <5>1, <5>2
      <4>5. CASE RemoveUnlink(w)
        <5>1. wpc'[w] = "fix" BY <1>0, <4>5 DEF RemoveUnlink, Goto, TypeOK
        <5> QED BY <1>3, <3>1, <3>3, <5>1
      <4>6. CASE \/ RemoveCount(w) \/ RemoveFreeNode(w) \/ RemoveFreeLeaf(w)
                 \/ RemoveDescend(w)
        <5>1. /\ wpc[w] \in {"remove", "free_node", "free_leaf", "find"}
              /\ wpc'[w] \in {"free_node", "free_leaf", "find"}
          BY <1>0, <4>6 DEF RemoveCount, RemoveFreeNode, RemoveFreeLeaf,
             RemoveDescend, Goto, TypeOK
        <5>2. ~(RemoveRoot(w) \/ RemoveUnlink(w))
          <6>1. RemoveRoot(w) => wpc'[w] = "unlock"
            BY <1>0 DEF RemoveRoot, Ret, Goto, TypeOK
          <6>2. RemoveUnlink(w) => wpc'[w] = "fix"
            BY <1>0 DEF RemoveUnlink, Goto, TypeOK
          <6> QED BY <5>1, <6>1, <6>2
        <5> QED BY <1>3, <1>5, <3>1, <3>3, <5>1, <5>2
      <4> QED BY <1>1, <4>0, <4>1, <4>2, <4>3, <4>4, <4>5, <4>6 DEF Remove
    <3> QED BY <3>2, <3>3
  <2> QED BY <2>1 DEF InvSure
<1> QED BY <1>2, <1>a, <1>b, <1>c, <1>d, <1>e

\* The last child of a node is never removed.
LEMMA NoParanoia ==
    ASSUME LifeInv
    PROVE  ParanoiaIdle
<1>1. SUFFICES ASSUME NEW w \in Writers, wpc[w] = "fix"
               PROVE  Occupied(wpar[w]) # {}
  BY DEF ParanoiaIdle
<1>2. up BY <1>1 DEF LifeInv, Idle
<1>3. TypeOK /\ InvRemove /\ InvFork BY <1>2 DEF LifeInv, WParts, Shape
<1>4. wpar[w] \in Nodes /\ st[wpar[w]] = "live"
  BY <1>1, <1>3 DEF InvRemove, Is, TypeOK
<1> QED BY <1>3, <1>4 DEF InvFork, Occupied

LEMMA SureOfIt == ASSUME LifeInv, TagParts PROVE RemoveFinds
  BY DEF LifeInv, TypeOK, InsertPC, RemovePC, TagParts, InvSure, RemoveFinds

\* The dereference of NULL is met only by a remove that is not sure.
LEMMA TagCrash ==
    ASSUME LifeInv, TagParts, up, UNCHANGED sure, NEW w \in Writers,
           RemoveNullDeref(w)
    PROVE  Crashed' /\ RemoveFinds' /\ ParanoiaIdle'
<1>0. TypeOK /\ InvLock BY DEF LifeInv, WParts
<1>1. /\ wpc[w] = "find" /\ wn[w] = NULL
      /\ wpc'[w] = "crash"
      /\ \A u \in Writers : u # w => wpc'[u] = wpc[u]
      /\ wret' = wret
  BY <1>0 DEF RemoveNullDeref, Goto, TypeOK
<1>2. \A u \in Writers : u # w => wpc[u] \notin Busy
  BY <1>0, <1>1 DEF InvLock, Busy, RemovePC
<1>3. ~sure[w]
  <2>1. sure[w] => There(wkey[w]) BY <1>1 DEF TagParts, InvSure
  <2> QED BY <1>1, <2>1, SureFinds
<1>4. \A u \in Writers : u # w => wpc'[u] \notin {"crash", "unlock", "fix"}
  BY <1>0, <1>1, <1>2 DEF Busy, InsertPC, RemovePC, TypeOK
<1> QED BY <1>1, <1>3, <1>4 DEF Crashed, RemoveFinds, ParanoiaIdle

-----------------------------------------------------------------------------
(* The readers of critnib-tag.c.                                           *)

LEMMA IdleParts ==
    ASSUME NEW r \in Readers, Rested(r)
    PROVE  LeParts(r) /\ GetParts(r)
<1> USE DEF Rested
<1>1. ~InAttempt(r) /\ rpc[r] \notin Reading BY DEF InAttempt, Reading
<1>2. LeParts(r) BY <1>1 DEF LeParts, LeStepAt, LeClosedAt, LeAloneAt
<1>3. GetParts(r)
  BY <1>1 DEF GetParts, FreshAt, ClosedAt, StepAt, ValueAt, MissAt
<1> QED BY <1>2, <1>3

LEMMA ReadTypesGive == ReadTypes => ReadersOK
<1>1. -1 .. NIB \subseteq Int OBVIOUS
<1> QED BY <1>1 DEF ReadTypes, LeTypeOK, ReadersOK

LEMMA AnswerType ==
    ASSUME TypeOK
    PROVE  \A key : /\ Answer(key) \subseteq Values \cup Leaves \cup {NULL}
                    /\ Current(key) \subseteq Values \cup Leaves \cup {NULL}
  BY DEF TypeOK, Answer, Current

\* A step of a writer.
LEMMA TagNote ==
    ASSUME WParts, Shape, up, up' = up, ReadInv, NEW w \in Writers, WriterNext(w),
           TagSeen
    PROVE  ReadInv'
<1>1. WParts' /\ Gentle /\ Shape' BY ShapeStep
<1>2. TypeOK /\ TypeOK' BY <1>1 DEF WParts
<1>3. LeWatch /\ finding' = finding BY DEF TagSeen
<1>4. UNCHANGED <<rpc, locs, stack>> BY <1>3 DEF LeWatch
<1>5. LeTypeOK /\ LeFresh /\ ReadersOK BY ReadTypesGive DEF ReadInv, ReadTypes
<1>6. LeTypeOK' /\ \A r \in Readers : LeStepAt(r) => LeStepAt(r)'
  BY <1>3, <1>5, LeTypeWriter
<1>7. LeFresh' BY <1>1, <1>2, <1>3, <1>5, LeFreshWriter
<1>8. ReadTypes'
  <2>1. \A key : Answer(key)' \subseteq Values \cup Leaves \cup {NULL}
    BY <1>2, AnswerType DEF TypeOK, Answer
  <2>2. \A key : Current(key)' \subseteq Values \cup Leaves \cup {NULL}
    BY <1>2 DEF TypeOK, Current
  <2>3. valid \in [Readers -> SUBSET (Values \cup Leaves \cup {NULL})]
    BY DEF ReadInv, ReadTypes
  <2>4. valid' \in [Readers -> SUBSET (Values \cup Leaves \cup {NULL})]
    BY <2>1, <2>2, <2>3 DEF TagSeen
  <2> QED BY <2>4, <1>3, <1>6 DEF ReadInv, ReadTypes
<1>9. ASSUME NEW r \in Readers PROVE ReadParts(r)'
  <2>0. ReadParts(r) BY DEF ReadInv
  <2>1. rpc'[r] = rpc[r] /\ stack'[r] = stack[r] /\ finding'[r] = finding[r]
    BY <1>3, <1>4
  <2>2. ASSUME finding[r] PROVE LeParts(r)'
    <3>1. LeStepAt(r) /\ LeClosedAt(r) /\ LeAloneAt(r)
      BY <2>0, <2>2 DEF ReadParts, LeParts
    <3>2. LeStepAt(r)' BY <3>1, <1>6
    <3>3. LeClosedAt(r)' BY <3>1, <1>1, <1>3, <1>5, <1>7, LeClosedWriter
    <3>4. LeAloneAt(r)' BY <3>1, <1>1, <1>3, <1>5, LeAloneWriter
    <3> QED BY <3>2, <3>3, <3>4 DEF LeParts
  <2>3. ASSUME ~finding[r] PROVE GetParts(r)'
    <3>1. FreshAt(r) /\ ClosedAt(r) /\ StepAt(r) /\ ValueAt(r) /\ MissAt(r)
      BY <2>0, <2>3 DEF ReadParts, GetParts
    <3>2. Notes(r)
      <4>1. rpc[r] \in Reading => InAttempt(r) BY DEF Reading, InAttempt
      <4>2. valid'[r] = IF rpc[r] = "idle" THEN valid[r]
                        ELSE valid[r] \cup Current(rkey[r])'
        BY <2>3 DEF TagSeen
      <4> QED BY <4>1, <4>2, <1>3 DEF LeWatch, Notes
    <3>3. FreshAt(r)' /\ ClosedAt(r)' /\ StepAt(r)' /\ ValueAt(r)'
      BY <3>1, <3>2, <1>1, <1>2, <1>4, <1>5, NoteStep
    <3>4. MissAt(r)' BY <3>1, <3>2, <1>4, <1>5, MissNote
    <3> QED BY <2>0, <2>1, <2>3, <3>3, <3>4 DEF ReadParts, GetParts
  <2>4. rpc[r] = "idle" => Rested(r)'
    BY <2>0, <2>1 DEF ReadParts, Rested, TagSeen
  <2> QED BY <2>1, <2>2, <2>3, <2>4 DEF ReadParts
<1> QED BY <1>7, <1>8, <1>9 DEF ReadInv

\* What is known of a reader that rests.
LEMMA ReadRests ==
    ASSUME UNCHANGED <<root, child, path, shift, lkey, lval, st, stamp,
                       remove_count, up>>,
           NEW u \in Readers, Rests(u), LeRests(u), finding'[u] = finding[u],
           ReadParts(u)
    PROVE  ReadParts(u)'
<1>1. finding[u] => LeParts(u)' BY LeOther DEF ReadParts, LeParts
<1>2. ASSUME ~finding[u] PROVE GetParts(u)'
  <2>1. FreshAt(u)' /\ ClosedAt(u)' /\ StepAt(u)' /\ ValueAt(u)'
    BY <1>2, GetRests DEF ReadParts, GetParts
  <2>2. MissAt(u)' BY <1>2, MissRests DEF ReadParts, GetParts
  <2> QED BY <1>2, <2>1, <2>2 DEF ReadParts, GetParts, Rests, LeRests
<1>3. (rpc[u] = "idle" \/ ~up => Rested(u)) =>
         (rpc'[u] = "idle" \/ ~up' => Rested(u)')
  BY DEF Rested, Rests, LeRests
<1> QED BY <1>1, <1>2, <1>3 DEF ReadParts

\* A step of a thread in get.
LEMMA TagGetStep ==
    ASSUME WParts, Shape, up, up' = up, ReadInv, NEW r \in Readers,
           critnib_tag_get(r)
    PROVE  ReadInv'
<1>0. /\ TypeOK /\ InvTree /\ LeTypeOK /\ LeFresh /\ ReadersOK
      /\ finding \in [Readers -> BOOLEAN]
  BY ReadTypesGive DEF WParts, ReadInv, ReadTypes
<1>1. GetCall(r) \/ (~finding[r] /\ GetRun(r)) BY DEF critnib_tag_get
<1>2. /\ UNCHANGED <<stack, touched>>
      /\ finding' \in [Readers -> BOOLEAN] /\ ~finding'[r]
      /\ \A u \in Readers : u # r => finding'[u] = finding[u]
  BY <1>0 DEF critnib_tag_get, Same
<1>3. /\ UNCHANGED <<root, child, path, shift, lkey, lval, st, stamp, remove_count>>
      /\ \A u \in Readers : u # r => Rests(u)
  BY <1>0, <1>1, GetKeeps
<1>4. GetParts(r)
  <2>1. CASE GetCall(r)
    <3>1. rpc[r] = "idle" BY <2>1 DEF GetCall
    <3>2. Rested(r) BY <3>1 DEF ReadInv, ReadParts
    <3> QED BY <3>2, IdleParts
  <2>2. CASE ~finding[r] BY <2>2 DEF ReadInv, ReadParts
  <2> QED BY <1>1, <2>1, <2>2
<1>5. FreshAt(r)' /\ ClosedAt(r)' /\ StepAt(r)' /\ ValueAt(r)' /\ MissAt(r)'
  BY <1>0, <1>1, <1>4, GetMoves, MissMoves DEF GetParts
<1>6. ReadTypes' /\ rpc'[r] \notin {"scan", "back"}
  <2>t. /\ root \in Ptr /\ NULL \in Ptr /\ Live \subseteq Obj
        /\ \A n \in Nodes, i \in Nibs : child[n][i] \in Ptr
        /\ \A n \in Nodes : shift[n] \in Digits
        /\ \A l \in Leaves : lval[l] \in Values \cup Leaves \cup {NULL}
        /\ remove_count \in Nat
        /\ rkey[r] \in Key
    BY <1>0 DEF TypeOK, ReadersOK, Live, Ptr
  <2>k. ReadKeys \subseteq Key BY ReadAssumption, SizeAssumption
  <2>c. \A key : Current(key) \subseteq Values \cup Leaves \cup {NULL}
    BY <1>0, AnswerType
  <2>v. valid \in [Readers -> SUBSET (Values \cup Leaves \cup {NULL})]
    BY DEF ReadInv, ReadTypes
  <2>y. /\ rpc \in [Readers -> {"idle", "count", "root", "walk", "child", "scan",
                            "back", "value", "check", "ret"}]
        /\ rkey \in [Readers -> Key] /\ rwrs1 \in [Readers -> Nat]
        /\ rn \in [Readers -> Ptr] /\ rnib \in [Readers -> -1 .. NIB]
        /\ rres \in [Readers -> Values \cup Leaves \cup {NULL}]
        /\ fresh \in [Readers -> SUBSET Obj]
    BY <1>0 DEF LeTypeOK
  <2>s. SUFFICES
           /\ rpc' \in [Readers -> {"idle", "count", "root", "walk", "child", "scan",
                            "back", "value", "check", "ret"}]
           /\ rkey' \in [Readers -> Key] /\ rwrs1' \in [Readers -> Nat]
           /\ rn' \in [Readers -> Ptr] /\ rnib' \in [Readers -> -1 .. NIB]
           /\ rres' \in [Readers -> Values \cup Leaves \cup {NULL}]
           /\ fresh' \in [Readers -> SUBSET Obj]
           /\ valid' \in [Readers -> SUBSET (Values \cup Leaves \cup {NULL})]
           /\ rpc'[r] \notin {"scan", "back"}
    BY <1>0, <1>2 DEF LeTypeOK, ReadTypes
  <2>1. CASE GetCall(r)
    <3>1. PICK key \in Key :
             rkey' = [rkey EXCEPT ![r] = key] /\ valid' = [valid EXCEPT ![r] = Current(key)]
      BY <2>1, <2>k DEF GetCall
    <3>2. Current(key) \subseteq Values \cup Leaves \cup {NULL} BY <2>c
    <3>3. valid' \in [Readers -> SUBSET (Values \cup Leaves \cup {NULL})]
      BY <3>1, <3>2, <2>v
    <3> QED BY <2>1, <2>y, <3>1, <3>3 DEF GetCall, RGoto
  <2>2. CASE GetCount(r) BY <2>2, <2>y, <2>t, <2>v DEF GetCount, RGoto
  <2>3. CASE GetRoot(r) BY <2>3, <2>y, <2>t, <2>v DEF GetRoot, RGoto
  <2>4. CASE GetShift(r)
    <3>1. rn[r] \in Nodes BY <2>4 DEF GetShift
    <3>2. slice_index(rkey[r], shift[rn[r]]) \in Nibs
      BY <3>1, <2>t, KeyFacts
    <3>3. slice_index(rkey[r], shift[rn[r]]) \in -1 .. NIB
      BY <3>2, SizeAssumption DEF Nibs
    <3> QED BY <3>3, <2>4, <2>y, <2>v DEF GetShift, RGoto
  <2>5. CASE GetChild(r)
    <3>1. rn[r] \in Nodes /\ rnib[r] \in Nibs
      BY <2>5, <1>4 DEF GetChild, GetParts, StepAt
    <3>2. child[rn[r]][rnib[r]] \in Ptr BY <3>1, <2>t
    <3> QED BY <3>2, <2>5, <2>y, <2>v DEF GetChild, RGoto
  <2>6. CASE GetMiss(r) BY <2>6, <2>y, <2>v DEF GetMiss, RGoto
  <2>7. CASE GetMatch(r) BY <2>7, <2>y, <2>v DEF GetMatch, RGoto, locs
  <2>8. CASE GetValue(r)
    <3>1. rn[r] \in Leaves BY <2>8, <1>4 DEF GetValue, GetParts, StepAt
    <3>2. lval[rn[r]] \in Values \cup Leaves \cup {NULL} BY <3>1, <2>t
    <3> QED BY <3>2, <2>8, <2>y, <2>v DEF GetValue, RGoto
  <2>z. 0 \in Nat /\ 0 \in -1 .. NIB /\ NULL \in Ptr /\ [p \in Digits |-> 0] \in Key
    BY KeyFacts, SizeAssumption DEF Ptr
  <2>9. CASE GetRestart(r) BY <2>9, <2>y, <2>v, <2>z DEF GetRestart, RGoto
  <2>10. CASE GetDone(r) BY <2>10, <2>y, <2>v DEF GetDone, RGoto, locs
  <2>11. CASE GetReturn(r) BY <2>11, <2>y, <2>v, <2>z DEF GetReturn, RGoto
  <2> QED BY <1>1, <2>1, <2>2, <2>3, <2>4, <2>5, <2>6, <2>7, <2>8, <2>9, <2>10,
             <2>11 DEF GetRun
<1>7. LeFresh'
  <2>1. ASSUME NEW u \in Readers, InAttempt(u)'
        PROVE  /\ rwrs1'[u] <= remove_count'
               /\ \A x \in Obj : st'[x] = "live" => x \in fresh'[u]
               /\ \A x \in fresh'[u] : st'[x] \in {"live", "gone"}
               /\ \A x \in fresh'[u] : st'[x] = "gone" => rwrs1'[u] <= stamp'[x] + 1
    <3>1. CASE u # r
      <4>1. Rests(u) BY <1>3, <3>1
      <4> QED BY <1>0, <1>3, <2>1, <4>1 DEF LeFresh, InAttempt, Rests
    <3>2. CASE u = r
      <4>1. rpc'[r] \in Reading
        BY <1>6, <2>1, <3>2 DEF ReadTypes, LeTypeOK, InAttempt, Reading
      <4> QED BY <1>5, <3>2, <4>1 DEF FreshAt
    <3> QED BY <3>1, <3>2
  <2> QED BY <2>1 DEF LeFresh
<1>8. ASSUME NEW u \in Readers PROVE ReadParts(u)'
  <2>1. CASE u # r
    <3>1. Rests(u) /\ LeRests(u) /\ finding'[u] = finding[u]
      BY <1>2, <1>3, <2>1 DEF Rests, LeRests
    <3>2. ReadParts(u) BY DEF ReadInv
    <3> QED BY <1>3, <3>1, <3>2, ReadRests
  <2>2. CASE u = r
    <3>1. stack'[r] = <<>> BY <1>2, <1>4 DEF GetParts
    <3>2. rpc'[r] = "idle" => Rested(r)' BY <1>5, <3>1 DEF MissAt, Rested
    <3> QED BY <1>2, <1>5, <1>6, <2>2, <3>1, <3>2 DEF ReadParts, GetParts
  <2> QED BY <2>1, <2>2
<1> QED BY <1>2, <1>6, <1>7, <1>8 DEF ReadInv

LEMMA LeValid ==
    ASSUME TypeOK, ReadTypes, NEW r \in Readers, LeCall(r) \/ LeRun(r)
    PROVE  /\ valid' \in [Readers -> SUBSET (Values \cup Leaves \cup {NULL})]
           /\ \A u \in Readers : u # r => valid'[u] = valid[u]
           /\ rpc'[r] = "idle" => valid'[r] = {}
<1> USE DEF ReadTypes, LeTypeOK, RGoto
<1>1. CASE LeCall(r)
  BY <1>1, AnswerType DEF LeCall
<1>2. CASE LeReturn(r) BY <1>2 DEF LeReturn, GetReturn
<1>3. CASE ~LeCall(r) /\ ~LeReturn(r)
  <2>1. valid' = valid
    BY <1>3 DEF LeRun, LeCount, GetCount, LeRoot, GetRoot, LeNull, LeLeaf,
       LeOutside, LeInside, LeChild, GetChild, LeBack, LeScan, LeScanned, LeValue,
       LeRestart, GetRestart, LeDone, GetDone
  <2>2. rpc'[r] # "idle"
    <3>1. CASE LeCount(r) \/ LeRoot(r) \/ LeNull(r) \/ LeLeaf(r) \/ LeScanned(r)
      BY <3>1 DEF LeCount, GetCount, LeRoot, GetRoot, LeNull, LeLeaf, LeScanned
    <3>2. CASE LeOutside(r) \/ LeInside(r) \/ LeChild(r) \/ LeBack(r)
      BY <3>2 DEF LeOutside, LeInside, LeChild, GetChild, LeBack
    <3>3. CASE LeScan(r) BY <3>3 DEF LeScan
    <3>4. CASE LeValue(r) \/ LeRestart(r) \/ LeDone(r)
      BY <3>4 DEF LeValue, LeRestart, GetRestart, LeDone, GetDone
    <3> QED BY <1>3, <3>1, <3>2, <3>3, <3>4 DEF LeRun
  <2> QED BY <2>1, <2>2
<1> QED BY <1>1, <1>2, <1>3

\* A step of a thread in find_le.
LEMMA TagLeStep ==
    ASSUME WParts, Shape, up, up' = up, ReadInv, NEW r \in Readers,
           critnib_tag_find_le(r)
    PROVE  ReadInv'
<1>0. /\ TypeOK /\ LeTypeOK /\ LeFresh /\ ReadTypes
      /\ finding \in [Readers -> BOOLEAN]
  BY DEF WParts, ReadInv, ReadTypes
<1>1. LeCall(r) \/ (finding[r] /\ LeRun(r)) BY DEF critnib_tag_find_le
<1>2. /\ finding' \in [Readers -> BOOLEAN] /\ finding'[r]
      /\ \A u \in Readers : u # r => finding'[u] = finding[u]
  BY <1>0 DEF critnib_tag_find_le
<1>3. /\ UNCHANGED <<root, child, path, shift, lkey, lval, st, stamp, remove_count>>
      /\ \A u \in Readers : u # r => LeRests(u)
  BY <1>0, <1>1, LeReaderKeeps
<1>4. LeParts(r)
  <2>1. CASE LeCall(r)
    <3>1. rpc[r] = "idle" BY <2>1 DEF LeCall
    <3>2. Rested(r) BY <3>1 DEF ReadInv, ReadParts
    <3> QED BY <3>2, IdleParts
  <2>2. CASE finding[r] BY <2>2 DEF ReadInv, ReadParts
  <2> QED BY <1>1, <2>1, <2>2
<1>5. /\ valid' \in [Readers -> SUBSET (Values \cup Leaves \cup {NULL})]
      /\ \A u \in Readers : u # r => valid'[u] = valid[u]
      /\ rpc'[r] = "idle" => valid'[r] = {}
  BY <1>0, <1>1, LeValid
<1>6. LeTypeOK' /\ LeStepAt(r)' BY <1>0, <1>1, <1>4, LeTypeReader DEF LeParts
<1>7. LeFresh' BY <1>0, <1>1, LeFreshReader
<1>8. LeClosedAt(r)' BY <1>0, <1>1, <1>4, LeClosedReader DEF LeParts
<1>9. LeAloneAt(r)' BY <1>0, <1>1, <1>4, LeAloneReader DEF LeParts
<1>10. ASSUME NEW u \in Readers PROVE ReadParts(u)'
  <2>1. CASE u # r
    <3>1. Rests(u) /\ LeRests(u) /\ finding'[u] = finding[u]
      BY <1>2, <1>3, <1>5, <2>1 DEF Rests, LeRests
    <3>2. ReadParts(u) BY DEF ReadInv
    <3> QED BY <1>3, <3>1, <3>2, ReadRests
  <2>2. CASE u = r
    <3>1. rpc'[r] = "idle" => Rested(r)' BY <1>5, <1>6 DEF LeStepAt, Rested
    <3> QED BY <1>2, <1>6, <1>8, <1>9, <2>2, <3>1 DEF ReadParts, LeParts
  <2> QED BY <2>1, <2>2
<1> QED BY <1>2, <1>5, <1>6, <1>7, <1>10 DEF ReadInv, ReadTypes

\* No reader is inside when the structure is made or deleted.
LEMMA TagQuiet ==
    ASSUME ReadInv, \A r \in Readers : Rested(r),
           UNCHANGED <<rvars, stack, touched, finding>>
    PROVE  ReadInv'
<1>1. UNCHANGED <<rpc, rkey, rwrs1, rn, rnib, rres, fresh, valid>>
  BY DEF rvars, locs
<1>2. ReadTypes' BY <1>1 DEF ReadInv, ReadTypes, LeTypeOK
<1>3. \A r \in Readers : Rested(r)' BY <1>1 DEF Rested
<1>4. LeFresh' BY <1>3 DEF Rested, LeFresh, InAttempt
<1>5. ASSUME NEW r \in Readers PROVE LeParts(r)' /\ GetParts(r)'
  <2>1. rpc'[r] = "idle" /\ valid'[r] = {} /\ stack'[r] = <<>> BY <1>3 DEF Rested
  <2>2. ~InAttempt(r)' /\ rpc'[r] \notin Reading BY <2>1 DEF InAttempt, Reading
  <2>3. LeParts(r)'
    BY <2>1, <2>2 DEF LeParts, LeStepAt, LeClosedAt, LeAloneAt
  <2>4. GetParts(r)'
    BY <2>1, <2>2 DEF GetParts, FreshAt, ClosedAt, StepAt, ValueAt, MissAt
  <2> QED BY <2>3, <2>4
<1> QED BY <1>2, <1>3, <1>4, <1>5 DEF ReadInv, ReadParts

\* What the invariant says of the results.
LEMMA ReadGives == ASSUME ReadInv PROVE ResultsSound
<1>1. SUFFICES ASSUME NEW r \in Readers, rpc[r] = "check", ~Expired(r)
               PROVE  IF finding[r]
                      THEN /\ ~touched[r] => rres[r] \in Answer(rkey[r])
                           /\ rres[r] # NULL => \E l \in fresh[r] \cap Leaves :
                                 AtMost(lkey[l], rkey[r]) /\ lval[l] = rres[r]
                      ELSE rres[r] \in valid[r]
  BY DEF ResultsSound
<1>2. InAttempt(r) /\ ReadParts(r) BY <1>1 DEF InAttempt, ReadInv
<1>3. CASE finding[r]
  <2>1. LeClosedAt(r) /\ LeAloneAt(r) BY <1>2, <1>3 DEF ReadParts, LeParts
  <2>2. GraceHere(r) BY <1>1, <1>2, <2>1 DEF LeClosedAt
  <2>3. ~touched[r] => AloneHere(r) BY <1>2, <2>1 DEF LeAloneAt
  <2> QED BY <1>1, <1>3, <2>2, <2>3 DEF GraceHere, AloneHere
<1>4. CASE ~finding[r]
  <2>1. MissAt(r) BY <1>2, <1>4 DEF ReadParts, GetParts
  <2> QED BY <1>1, <1>4, <2>1 DEF MissAt
<1> QED BY <1>3, <1>4

\* A crash shows the readers nothing.
LEMMA CrashReads ==
    ASSUME ReadInv, NEW w \in Writers, RemoveNullDeref(w), TagSeen
    PROVE  ResultsSound'
<1>1. UNCHANGED <<lkey, lval, st, remove_count>>
  BY DEF RemoveNullDeref, heap, pending, aux
<1>2. UNCHANGED <<rpc, rkey, rwrs1, rres, finding>> BY DEF TagSeen, LeWatch, locs
<1>3. \A key : Answer(key)' = Answer(key) BY <1>1 DEF Answer
<1>4. ASSUME NEW r \in Readers, rpc[r] = "check", ~Expired(r)'
      PROVE  /\ ~Expired(r)
             /\ touched[r] => touched'[r]
             /\ fresh[r] \subseteq fresh'[r]
             /\ valid[r] \subseteq valid'[r]
  <2>1. InAttempt(r) /\ rpc[r] # "idle" BY <1>4 DEF InAttempt
  <2>2. \A x \in fresh[r] : x \in Obj /\ st[x] \in {"live", "gone"}
    BY <2>1 DEF ReadInv, LeFresh, ReadTypes, LeTypeOK
  <2>3. fresh[r] \subseteq fresh'[r] BY <1>1, <2>1, <2>2 DEF TagSeen, LeWatch
  <2>4. touched[r] => touched'[r] BY DEF TagSeen, LeWatch
  <2>5. valid[r] \subseteq valid'[r] BY <2>1 DEF TagSeen
  <2> QED BY <1>1, <1>2, <1>4, <2>3, <2>4, <2>5 DEF Expired
<1>5. ResultsSound BY ReadGives
<1> QED BY <1>1, <1>2, <1>3, <1>4, <1>5 DEF ResultsSound

LEMMA TagFrame ==
    ASSUME LifeInv, TagParts, UNCHANGED <<lvars, owned, sure>>
    PROVE  LifeInv' /\ TagParts'
<1>1. LifeInv' BY LifeStutter
<1>2. UNCHANGED <<up, wpc, wop, wkey, wret, lkey, st>>
  BY DEF lvars, wvars, heap, call, aux
<1>3. \A key : There(key)' <=> There(key) BY <1>2 DEF There, LeafOf
<1> HIDE DEF There
<1>4. InvOwned' /\ InvApart' /\ InvTaken' /\ InvDone' /\ InvSure'
  BY <1>2, <1>3 DEF TagParts, InvOwned, InvApart, InvTaken, InvDone, InvSure
<1> QED BY <1>1, <1>4 DEF TagParts

LEMMA TagSame ==
    ASSUME TagInv, UNCHANGED tvars
    PROVE  TagInv'
<1>1. UNCHANGED <<child, lkey, lval, st, remove_count, wpc, wpar, wret, sure>>
  BY DEF tvars, levars, vars, wvars, heap, locals, pending, aux
<1>r. UNCHANGED <<rpc, rkey, rwrs1, rn, rnib, rres, fresh, valid, stack, touched,
                  finding>>
  BY DEF tvars, levars, vars, rvars, locs
<1>2. Crashed' <=> Crashed BY <1>1 DEF Crashed
<1>3. CASE Crashed
  <2>1. RemoveFinds' /\ ParanoiaIdle'
    BY <1>1, <1>3 DEF TagInv, RemoveFinds, ParanoiaIdle, Occupied
  <2>2. ResultsSound'
    <3>1. \A key : Answer(key)' = Answer(key) BY <1>1 DEF Answer
    <3>2. \A r : Expired(r)' <=> Expired(r) BY <1>1, <1>r DEF Expired
    <3> QED BY <1>1, <1>3, <1>r, <3>1, <3>2 DEF TagInv, ResultsSound
  <2> QED BY <1>2, <1>3, <2>1, <2>2 DEF TagInv
<1>4. CASE ~Crashed
  <2>1. LifeInv' /\ TagParts'
    <3>1. UNCHANGED <<lvars, owned, sure>> BY DEF tvars, levars, vars, lvars
    <3> QED BY <1>4, <3>1, TagFrame DEF TagInv
  <2>2. UNCHANGED <<root, path, shift, stamp, up>>
    BY DEF tvars, levars, vars, wvars, heap, aux
  <2>3. ReadInv BY <1>4 DEF TagInv
  <2>4. ReadTypes' BY <1>r, <2>3 DEF ReadInv, ReadTypes, LeTypeOK
  <2>5. LeFresh'
    <3>1. \A r : InAttempt(r)' <=> InAttempt(r) BY <1>r DEF InAttempt
    <3> QED BY <1>1, <1>r, <2>2, <2>3, <3>1 DEF ReadInv, LeFresh
  <2>6. ASSUME NEW u \in Readers PROVE ReadParts(u)'
    <3>1. Rests(u) /\ LeRests(u) /\ finding'[u] = finding[u]
      BY <1>r DEF Rests, LeRests
    <3>2. ReadParts(u) BY <2>3 DEF ReadInv
    <3> QED BY <1>1, <2>2, <3>1, <3>2, ReadRests
  <2> QED BY <1>2, <1>4, <2>1, <2>4, <2>5, <2>6 DEF TagInv, ReadInv
<1> QED BY <1>3, <1>4

LEMMA TagInitial == TagInit => TagInv
<1> SUFFICES ASSUME TagInit PROVE TagInv OBVIOUS
<1>1. LifeInv BY LifeInitial DEF TagInit, LeInit, GetInit, LifeInit
<1>2. \A w \in Writers : wpc[w] = "idle" /\ ~sure[w]
  BY DEF TagInit, LeInit, GetInit, Init
<1>3. TagParts
  BY <1>2 DEF TagInit, TagParts, InvOwned, InvApart, InvTaken, InvDone, InvSure
<1>4. ~Crashed BY <1>2 DEF Crashed
<1>5. \A r \in Readers : Rested(r)
  BY DEF TagInit, LeInit, GetInit, Rested
<1>6. ReadTypes
  <2>1. LeTypeOK BY LeInitial DEF TagInit, LeInv
  <2> QED BY <2>1 DEF TagInit, LeInit, GetInit, ReadTypes
<1>7. LeFresh BY <1>5 DEF Rested, LeFresh, InAttempt
<1>8. \A r \in Readers : ReadParts(r) BY <1>5, IdleParts DEF ReadParts
<1> QED BY <1>1, <1>3, <1>4, <1>6, <1>7, <1>8 DEF TagInv, ReadInv

\* critnib-tag.c, with everything around it, over the lives of the structure.
THEOREM TagInvariance == TagSpec => []TagInv
<1>1. TagInit => TagInv BY TagInitial
<1>2. TagInv /\ [TagNext]_tvars => TagInv'
  <2> SUFFICES ASSUME TagInv, [TagNext]_tvars PROVE TagInv' OBVIOUS
  <2>n. ASSUME LifeInv', TagParts', ReadInv' PROVE TagInv'
    <3>1. ~Crashed'
      BY <2>n DEF LifeInv, TypeOK, InsertPC, RemovePC, Crashed
    <3> QED BY <2>n, <3>1 DEF TagInv
  <2>1. ASSUME ~Crashed, up, UNCHANGED up, TagSeen, NEW w \in Writers, TagWriter(w)
        PROVE  TagInv'
    <3>0. LifeInv /\ TagParts /\ ReadInv BY <2>1 DEF TagInv
    <3>p. WParts /\ Shape BY <2>1, <3>0 DEF LifeInv
    <3>1. CASE TagCall(w)
      <4>1. WriterNext(w) BY <3>1 DEF TagCall, WriterNext
      <4>2. ReadInv' BY <2>1, <3>0, <3>p, <4>1, TagNote
      <4> QED BY <2>1, <2>n, <3>0, <3>1, <4>1, <4>2, WriterLife, TagCallStep
    <3>2. CASE TagReturn(w)
      <4>1. WriterNext(w) BY <3>2 DEF TagReturn, WriterNext, Run
      <4>2. ReadInv' BY <2>1, <3>0, <3>p, <4>1, TagNote
      <4> QED BY <2>1, <2>n, <3>0, <3>2, <4>1, <4>2, WriterLife, TagReturnStep
    <3>3. CASE RemoveNullDeref(w) /\ UNCHANGED sure
      <4>1. Crashed' /\ RemoveFinds' /\ ParanoiaIdle'
        BY <2>1, <3>0, <3>3, TagCrash
      <4>2. ResultsSound' BY <2>1, <3>0, <3>3, CrashReads
      <4> QED BY <4>1, <4>2 DEF TagInv
    <3>4. CASE /\ Lock(w) \/ critnib_tag_insert(w) \/ critnib_tag_remove(w)
               /\ UNCHANGED <<owned, sure>>
               /\ ~RemoveNullDeref(w)
      <4>1. WriterNext(w) /\ TagParts' BY <2>1, <3>0, <3>4, TagRunStep
      <4>2. ReadInv' BY <2>1, <3>0, <3>p, <4>1, TagNote
      <4> QED BY <2>1, <2>n, <3>0, <4>1, <4>2, WriterLife
    <3> QED BY <2>1, <3>1, <3>2, <3>3, <3>4 DEF TagWriter
  <2>2. ASSUME ~Crashed, up, NEW r \in Readers, UNCHANGED <<up, owned, sure>>,
               critnib_tag_get(r) \/ critnib_tag_find_le(r)
        PROVE  TagInv'
    <3>0. LifeInv /\ TagParts /\ ReadInv BY <2>2 DEF TagInv
    <3>p. WParts /\ Shape BY <2>2, <3>0 DEF LifeInv
    <3>1. UNCHANGED wvars
      BY <2>2 DEF critnib_tag_get, critnib_tag_find_le, GetCall, GetRun,
         GetCount, GetRoot, GetShift, GetChild, GetMiss, GetMatch, GetValue,
         GetRestart, GetDone, GetReturn, LeCall, LeRun, LeCount, LeRoot,
         LeNull, LeLeaf, LeOutside, LeInside, LeChild, LeBack, LeScan,
         LeScanned, LeValue, LeRestart, LeDone, LeReturn
    <3>2. LifeInv' /\ TagParts' BY <2>2, <3>0, <3>1, TagFrame DEF lvars
    <3>3. ReadInv' BY <2>2, <3>0, <3>p, TagGetStep, TagLeStep
    <3> QED BY <2>n, <3>2, <3>3
  <2>3. CASE ~Crashed /\ critnib_tag_delete
    <3>0. LifeInv /\ TagParts /\ ReadInv BY <2>3 DEF TagInv
    <3>1. /\ Idle /\ ~up' /\ wpc' = wpc /\ UNCHANGED <<owned, sure>>
          /\ critnib_delete
      BY <2>3 DEF critnib_tag_delete, critnib_delete
    <3>2. TagParts'
      BY <3>0, <3>1 DEF TagParts, Idle, InvOwned, InvApart, InvTaken, InvDone,
         InvSure
    <3>3. ReadInv'
      <4>1. \A r \in Readers : Rested(r)
        BY <2>3, <3>0 DEF critnib_tag_delete, ReadInv, ReadParts
      <4> QED BY <2>3, <3>0, <4>1, TagQuiet DEF critnib_tag_delete
    <3> QED BY <2>n, <3>0, <3>1, <3>2, <3>3, DeleteLife
  <2>4. CASE ~Crashed /\ critnib_tag_new
    <3>0. LifeInv /\ TagParts /\ ReadInv BY <2>4 DEF TagInv
    <3>1. /\ ~up /\ wpc' = wpc /\ owned' = {} /\ UNCHANGED sure
          /\ critnib_new
      BY <2>4 DEF critnib_tag_new, critnib_new
    <3>2. Idle BY <3>0, <3>1 DEF LifeInv
    <3>3. TagParts'
      BY <3>0, <3>1, <3>2 DEF TagParts, Idle, InvOwned, InvApart, InvTaken,
         InvDone, InvSure
    <3>4. ReadInv'
      <4>1. \A r \in Readers : Rested(r) BY <3>0, <3>1 DEF ReadInv, ReadParts
      <4> QED BY <2>4, <3>0, <4>1, TagQuiet DEF critnib_tag_new
    <3> QED BY <2>n, <3>0, <3>1, <3>3, <3>4, NewLife
  <2>5. CASE UNCHANGED tvars BY <2>5, TagSame
  <2> QED BY <2>1, <2>2, <2>3, <2>4, <2>5 DEF TagNext
<1> QED BY <1>1, <1>2, PTL DEF TagSpec

LEMMA TagGives == TagInv => RemoveFinds /\ ParanoiaIdle /\ ResultsSound
<1>1. CASE Crashed BY <1>1 DEF TagInv
<1>2. CASE ~Crashed BY <1>2, SureOfIt, NoParanoia, ReadGives DEF TagInv
<1> QED BY <1>1, <1>2

\* A remove of critnib-tag.c for a key that its caller has inserted, and that
\* nobody has removed since, does not dereference NULL and does not return
\* it: the descent without a test for an empty slot is safe for such callers,
\* whatever the other threads do to the tree.
THEOREM RemoveFindsIt == TagSpec => []RemoveFinds
BY TagInvariance, TagGives, PTL

\* The assignment to ochild that critnib_tag_remove calls paranoia is never
\* the last one: a node that has lost a child has another.
THEOREM ParanoiaIsIdle == TagSpec => []ParanoiaIdle
BY TagInvariance, TagGives, PTL

\* critnib_tag_get and critnib_tag_find_le, called side by side while writers
\* work on the tree, over the lives of the structure: what a get stops with
\* was current at some moment of the call; what a find_le stops with belonged
\* during its attempt to a key at most its argument, and is the exact answer
\* when the tree was left alone.  That a find_le is current is not true.
THEOREM ResultsAreSound == TagSpec => []ResultsSound
BY TagInvariance, TagGives, PTL
=============================================================================
