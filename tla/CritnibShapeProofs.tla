------------------------- MODULE CritnibShapeProofs -------------------------
(***************************************************************************)
(* Every writer step keeps the shape of the tree (Shape of CritnibShape).  *)
(*                                                                         *)
(* First the order of the trie: Under is transitive (UnderTrans), and two  *)
(* blocks that a third one belongs below are comparable (UnderBoth).  Then *)
(* what a new block meets at its place (NewBlock), and one lemma per part  *)
(* of the invariant.  Only four steps change the tree: the two stores of   *)
(* insert that link a leaf and the stores of remove that unlink a leaf and *)
(* collapse a node; all other steps leave it Still.                        *)
(***************************************************************************)
EXTENDS CritnibShape, CritnibProofs

\* Masking at a lower and then at a higher position is masking at the higher
\* one, and leaves the nibble at the higher one alone.
LEMMA MaskNarrow ==
    ASSUME NEW key \in Key, NEW s \in Int, NEW t \in Digits, s < t
    PROVE  /\ path_mask(path_mask(key, s), t) = path_mask(key, t)
           /\ slice_index(path_mask(key, s), t) = slice_index(key, t)
  BY DEF path_mask, slice_index, Digits, Key

\* Masks at one position are equal if the keys agree above it.
LEMMA MaskAgree ==
    ASSUME NEW a \in Key, NEW b \in Key, NEW s \in Int
    PROVE  path_mask(a, s) = path_mask(b, s) <=>
              \A p \in Digits : p > s => a[p] = b[p]
<1>1. ASSUME path_mask(a, s) = path_mask(b, s), NEW p \in Digits, p > s
      PROVE  a[p] = b[p]
  <2>1. path_mask(a, s)[p] = path_mask(b, s)[p] BY <1>1
  <2> QED BY <2>1, <1>1 DEF path_mask
<1>2. ASSUME \A p \in Digits : p > s => a[p] = b[p]
      PROVE  path_mask(a, s) = path_mask(b, s)
  BY <1>2 DEF path_mask
<1> QED BY <1>1, <1>2

\* Positions and paths of blocks are in range.
LEMMA PlaceFacts ==
    ASSUME TypeOK
    PROVE  /\ \A x \in Obj : /\ PathOf(x) \in Key
                             /\ ShiftOf(x) \in Int
                             /\ x # NULL
           /\ \A n \in Nodes : /\ shift[n] \in Digits /\ shift[n] \in Int
                               /\ shift[n] >= 0
                               /\ path[n] \in Key
                               /\ PathOf(n) = path[n] /\ ShiftOf(n) = shift[n]
                               /\ n \in Obj /\ n \notin Leaves
           /\ \A l \in Leaves : /\ PathOf(l) = lkey[l] /\ ShiftOf(l) = -1
                                /\ l \in Obj /\ l \notin Nodes
           /\ NULL \notin Nodes
<1>1. \A n \in Nodes : n \in Obj /\ n # NULL /\ n \notin Leaves
  BY PtrAssumption DEF Obj
<1>2. \A l \in Leaves : l \in Obj /\ l # NULL /\ l \notin Nodes
  BY PtrAssumption DEF Obj
<1>3. \A n \in Nodes : /\ shift[n] \in Digits /\ shift[n] \in Int
                       /\ shift[n] >= 0 /\ path[n] \in Key
  BY DEF TypeOK, Digits
<1>4. \A l \in Leaves : lkey[l] \in Key BY DEF TypeOK
<1> QED BY <1>1, <1>2, <1>3, <1>4, PtrAssumption DEF PathOf, ShiftOf, is_leaf, Obj

\* Links and slots are in range.
LEMMA LinkTypes ==
    ASSUME TypeOK
    PROVE  /\ \A n \in Nodes : n \in Obj /\ n \in Ptr
           /\ \A x \in Obj : x \in Ptr /\ x # NULL
           /\ NULL \in Ptr /\ NULL \notin Nodes
           /\ root \in Ptr
           /\ \A n \in Nodes, i \in Nibs : child[n][i] \in Ptr
           /\ \A p \in Ptr : p # NULL => p \in Obj
           /\ \A x \in Obj, n \in Nodes : slice_index(PathOf(x), shift[n]) \in Nibs
<1>1. /\ \A n \in Nodes : n \in Obj /\ n \in Ptr
      /\ \A x \in Obj : x \in Ptr /\ x # NULL
      /\ NULL \in Ptr /\ NULL \notin Nodes
      /\ \A p \in Ptr : p # NULL => p \in Obj
  BY PtrAssumption DEF Obj, Ptr
<1>2. root \in Ptr /\ \A n \in Nodes, i \in Nibs : child[n][i] \in Ptr
  BY DEF TypeOK
<1>3. ASSUME NEW x \in Obj, NEW n \in Nodes
      PROVE  slice_index(PathOf(x), shift[n]) \in Nibs
  <2>1. PathOf(x) \in Key /\ shift[n] \in Digits BY PlaceFacts
  <2> QED BY <2>1, KeyFacts
<1> QED BY <1>1, <1>2, <1>3

\* What belongs below a block that belongs below n, belongs below n, into
\* the same slot.
LEMMA UnderTrans ==
    ASSUME TypeOK, NEW x \in Obj, NEW c \in Nodes, NEW n \in Nodes,
           Under(x, c), Under(c, n)
    PROVE  /\ Under(x, n) /\ SlotFor(n, x) = SlotFor(n, c)
           /\ slice_index(PathOf(x), shift[n]) = slice_index(PathOf(c), shift[n])
<1>0. /\ PathOf(x) \in Key /\ ShiftOf(x) \in Int /\ shift[c] \in Int
      /\ shift[n] \in Digits /\ shift[n] \in Int
      /\ PathOf(c) = path[c] /\ ShiftOf(c) = shift[c]
  BY PlaceFacts
<1>1. /\ ShiftOf(x) < shift[c] /\ path_mask(PathOf(x), shift[c]) = path[c]
      /\ shift[c] < shift[n] /\ path_mask(path[c], shift[n]) = path[n]
  BY <1>0 DEF Under
<1>2. /\ path_mask(path[c], shift[n]) = path_mask(PathOf(x), shift[n])
      /\ slice_index(path[c], shift[n]) = slice_index(PathOf(x), shift[n])
  BY <1>0, <1>1, MaskNarrow
<1>3. Under(x, n)
  <2>1. ShiftOf(x) < shift[n] BY <1>0, <1>1
  <2> QED BY <1>1, <1>2, <2>1 DEF Under
<1>4. SlotFor(n, x) = SlotFor(n, c)
  BY <1>0, <1>2 DEF SlotFor
<1> QED BY <1>0, <1>2, <1>3, <1>4

\* Of two nodes that x belongs below, the one with the lower position belongs
\* below the other, where x does.
LEMMA UnderBoth ==
    ASSUME TypeOK, NEW x \in Obj, NEW c \in Nodes, NEW n \in Nodes,
           Under(x, c), Under(x, n), shift[c] < shift[n]
    PROVE  Under(c, n) /\ SlotFor(n, c) = SlotFor(n, x)
<1>0. /\ PathOf(x) \in Key /\ ShiftOf(x) \in Int /\ shift[c] \in Int
      /\ shift[n] \in Digits
      /\ PathOf(c) = path[c] /\ ShiftOf(c) = shift[c]
  BY PlaceFacts
<1>1. /\ path_mask(PathOf(x), shift[c]) = path[c]
      /\ path_mask(PathOf(x), shift[n]) = path[n]
  BY DEF Under
<1>2. /\ path_mask(path[c], shift[n]) = path_mask(PathOf(x), shift[n])
      /\ slice_index(path[c], shift[n]) = slice_index(PathOf(x), shift[n])
  BY <1>0, <1>1, MaskNarrow
<1>3. Under(c, n) BY <1>0, <1>1, <1>2 DEF Under
<1>4. SlotFor(n, c) = SlotFor(n, x) BY <1>0, <1>2 DEF SlotFor
<1> QED BY <1>3, <1>4

\* A lookup of y that x lies on leads on to what belongs below y.
LEMMA LeadsTrans ==
    ASSUME TypeOK, NEW x \in Obj, NEW c \in Nodes, NEW p,
           Under(x, c), Leads(p, c)
    PROVE  Under(x, p)
  BY UnderTrans DEF Leads, Under

-----------------------------------------------------------------------------
(* The place of a new block: x belongs below the live node p, into a slot  *)
(* that holds q (p NULL: q is the root), and does not belong below q.      *)

Place(x, p, q) ==
    /\ IF p = NULL THEN root = q
       ELSE /\ p \in Nodes /\ st[p] = "live"
            /\ Under(x, p)
            /\ SlotFor(p, x) = q
    /\ ~Under(x, q)

\* Every live node that x belongs below is p, or leads on to x.
LEMMA NewBlock ==
    ASSUME TypeOK, InvCover, InvUnique, NEW x \in Obj, NEW p, NEW q,
           Place(x, p, q), NEW n \in Nodes, st[n] = "live", Under(x, n)
    PROVE  p # NULL /\ (n = p \/ Leads(SlotFor(n, x), x))
<1>0. n \in Obj BY PlaceFacts
<1>1. ~Leads(q, n)
  BY LeadsTrans DEF Place
<1>2. p # NULL
  BY <1>0, <1>1 DEF Place, InvCover
<1>3. /\ p \in Nodes /\ st[p] = "live" /\ Under(x, p) /\ SlotFor(p, x) = q
      /\ p \in Obj
  BY <1>2, PlaceFacts DEF Place
<1>4. shift[n] \in Int /\ shift[p] \in Int BY <1>3, PlaceFacts
<1>5. CASE shift[n] < shift[p]
  <2>1. Under(n, p) /\ SlotFor(p, n) = q BY <1>3, <1>5, UnderBoth
  <2>2. Leads(q, n) BY <2>1, <1>0, <1>3 DEF InvCover
  <2> QED BY <2>2, <1>1
<1>6. CASE shift[n] = shift[p]
  <2>1. PathOf(n) = PathOf(p) /\ ShiftOf(n) = ShiftOf(p)
    BY <1>3, <1>6, PlaceFacts DEF Under
  <2> QED BY <2>1, <1>0, <1>2, <1>3 DEF InvUnique
<1>7. CASE shift[p] < shift[n]
  <2>1. Under(p, n) /\ SlotFor(n, p) = SlotFor(n, x)
    BY <1>3, <1>7, UnderBoth
  <2>2. Leads(SlotFor(n, x), p) BY <2>1, <1>3 DEF InvCover
  <2>3. Under(x, SlotFor(n, x)) BY <2>2, <1>3, LeadsTrans
  <2> QED BY <2>3, <1>2 DEF Leads
<1> QED BY <1>4, <1>5, <1>6, <1>7

\* From the root a lookup gets to the place.
LEMMA NewRoot ==
    ASSUME TypeOK, InvCover, NEW x \in Obj, NEW p, NEW q,
           Place(x, p, q), p # NULL
    PROVE  Leads(root, x)
<1>1. p \in Nodes /\ st[p] = "live" /\ Under(x, p) /\ p \in Obj
  BY PlaceFacts DEF Place
<1>2. Leads(root, p) BY <1>1 DEF InvCover
<1> QED BY <1>1, <1>2, LeadsTrans DEF Leads

\* A live block in the position of x could only be q.
LEMMA NewUnique ==
    ASSUME TypeOK, InvCover, NEW x \in Obj, NEW p, NEW q,
           Place(x, p, q), NEW y \in Obj, st[y] = "live",
           PathOf(x) = PathOf(y), ShiftOf(x) = ShiftOf(y)
    PROVE  y = q
<1>1. \A n : Under(x, n) <=> Under(y, n) BY DEF Under
<1>2. CASE p = NULL
  BY <1>1, <1>2 DEF Place, InvCover, Leads
<1>3. CASE p # NULL
  <2>1. /\ p \in Nodes /\ st[p] = "live" /\ Under(y, p)
        /\ SlotFor(p, y) = q
    BY <1>1, <1>3 DEF Place, SlotFor
  <2>2. Leads(q, y) BY <2>1 DEF InvCover
  <2> QED BY <2>2, <1>1 DEF Leads, Place
<1> QED BY <1>2, <1>3

\* Everything that belongs at the place, live already, belongs below q or is q.
LEMMA AtPlace ==
    ASSUME TypeOK, InvCover, NEW x \in Nodes, NEW p, NEW q,
           Place(x, p, q), NEW y \in Obj, st[y] = "live", Under(y, x)
    PROVE  Leads(q, y)
<1>0. x \in Obj BY PlaceFacts
<1>1. CASE p = NULL BY <1>1 DEF Place, InvCover
<1>2. CASE p # NULL
  <2>1. p \in Nodes /\ st[p] = "live" /\ Under(x, p) /\ SlotFor(p, x) = q
    BY <1>2 DEF Place
  <2>2. Under(y, p) /\ SlotFor(p, y) = q BY <2>1, UnderTrans
  <2> QED BY <2>1, <2>2 DEF InvCover
<1> QED BY <1>1, <1>2

-----------------------------------------------------------------------------
(* Frames: what belongs where, while heads (path, shift, key) stay.        *)

Headed(x) == PathOf(x)' = PathOf(x) /\ ShiftOf(x)' = ShiftOf(x)

\* Whether x belongs below p depends on the heads of the two only.
LEMMA UnderSame ==
    ASSUME TypeOK, TypeOK', NEW x \in Obj, NEW p \in Ptr,
           Headed(x), p \in Nodes => Headed(p)
    PROVE  /\ Under(x, p)' <=> Under(x, p)
           /\ Leads(p, x)' <=> Leads(p, x)
           /\ p \in Nodes => /\ shift'[p] = shift[p] /\ path'[p] = path[p]
                             /\ slice_index(PathOf(x), shift[p])'
                                  = slice_index(PathOf(x), shift[p])
<1>1. PathOf(x)' = PathOf(x) /\ ShiftOf(x)' = ShiftOf(x) BY DEF Headed
<1>2. p \in Nodes => shift'[p] = shift[p] /\ path'[p] = path[p]
  BY PtrAssumption DEF Headed, PathOf, ShiftOf, is_leaf
<1>3. Under(x, p)' <=> Under(x, p) BY <1>1, <1>2 DEF Under
<1>4. Leads(p, x)' <=> Leads(p, x) BY <1>3 DEF Leads
<1>5. p \in Nodes => slice_index(PathOf(x), shift[p])'
                       = slice_index(PathOf(x), shift[p])
  BY <1>1, <1>2 DEF slice_index
<1> QED BY <1>2, <1>3, <1>4, <1>5

\* Paths, shifts and keys are written only in blocks a writer holds.
LEMMA HeadSame ==
    ASSUME TypeOK, InvInsert, NEW w \in Writers, WriterNext(w)
    PROVE  /\ \A x \in Obj : st[x] # "held" => Headed(x)
           /\ wpc[w] \notin {"head", "set_key"} => \A x \in Obj : Headed(x)
<1>0. /\ \A l \in Leaves : l \in Obj /\ l \notin Nodes
      /\ \A x \in Obj : x \notin Leaves => x \in Nodes
  BY PtrAssumption DEF Obj
<1>1. CASE InsertHead(w)
  <2>1. Is(wm[w], "held") /\ wpc[w] = "head" BY <1>1 DEF InsertHead, InvInsert
  <2>2. lkey' = lkey BY <1>1 DEF InsertHead
  <2>3. \A n \in Nodes : n # wm[w] => shift'[n] = shift[n] /\ path'[n] = path[n]
    BY <1>1 DEF InsertHead, TypeOK
  <2>4. \A x \in Obj : st[x] # "held" => Headed(x)
    BY <1>0, <2>1, <2>2, <2>3 DEF Is, Headed, PathOf, ShiftOf, is_leaf
  <2> QED BY <2>1, <2>4
<1>2. CASE InsertSetKey(w)
  <2>1. Is(wk[w], "held") /\ wpc[w] = "set_key"
    BY <1>2 DEF InsertSetKey, InvInsert
  <2>2. path' = path /\ shift' = shift BY <1>2 DEF InsertSetKey
  <2>3. \A l \in Leaves : l # wk[w] => lkey'[l] = lkey[l]
    BY <1>2 DEF InsertSetKey, TypeOK
  <2>4. \A x \in Obj : st[x] # "held" => Headed(x)
    BY <1>0, <2>1, <2>2, <2>3 DEF Is, Headed, PathOf, ShiftOf, is_leaf
  <2> QED BY <2>1, <2>4
<1>3. CASE ~InsertHead(w) /\ ~InsertSetKey(w)
  <2>1. lkey' = lkey /\ path' = path /\ shift' = shift
    BY <1>3 DEF WriterNext, CallInsert, CallRemove, Call, Run, Lock, Unlock,
         Insert, InsertAllocLeaf, InsertNoLeaf, InsertSetValue, InsertDescend,
         InsertInSlot, InsertExists, InsertAllocNode, InsertNoNode,
         InsertClear, InsertLink, InsertPublish,
         Remove, RemoveEmpty, RemoveCount, RemoveFreeNode, RemoveFreeLeaf,
         RemoveDescend, RemoveAbsent, RemoveRoot, RemoveUnlink, RemoveKeep,
         RemoveCollapse, heap
  <2> QED BY <2>1 DEF Headed, PathOf, ShiftOf, is_leaf
<1> QED BY <1>1, <1>2, <1>3

\* The tree, and what is in it, stays as it is.
Still ==
    /\ root' = root
    /\ \A x \in Obj : st'[x] = "live" <=> st[x] = "live"
    /\ \A n \in Nodes : st[n] = "live" =>
          \A i \in Nibs : child'[n][i] = child[n][i]

TreeChange(w) == \/ InsertInSlot(w) \/ InsertPublish(w)
                 \/ RemoveRoot(w) \/ RemoveUnlink(w) \/ RemoveCollapse(w)

\* All steps but those five leave the tree still.
LEMMA StillStep ==
    ASSUME TypeOK, TypeOK', InvPoolNodes, InvPoolLeaves, InvPending,
           InvLock, InvInsert, NEW w \in Writers, WriterNext(w), ~TreeChange(w)
    PROVE  Still
<1>0. /\ \A n \in Nodes : n \in Obj /\ n # NULL
      /\ \A l \in Leaves : l \in Obj /\ l # NULL
      /\ \A x \in Obj : x # NULL
  BY PtrAssumption DEF Obj
<1>1. CASE Quiet(w) BY <1>1, QuietFacts DEF Still
<1>2. CASE InsertAllocLeaf(w)
  <2>1. root' = root /\ child' = child BY <1>2 DEF InsertAllocLeaf, heap
  <2>2. \A x \in Obj : st'[x] = "live" <=> st[x] = "live"
    BY <1>2, <1>0, AllocLeafFacts
  <2> QED BY <2>1, <2>2 DEF Still
<1>3. CASE InsertAllocNode(w)
  <2>1. root' = root /\ child' = child BY <1>3 DEF InsertAllocNode, heap
  <2>2. \A x \in Obj : st'[x] = "live" <=> st[x] = "live"
    BY <1>3, <1>0, AllocNodeFacts
  <2> QED BY <2>1, <2>2 DEF Still
<1>4. CASE InsertSetValue(w) \/ RemoveCount(w) \/ RemoveKeep(w)
  BY <1>4 DEF InsertSetValue, RemoveCount, RemoveKeep, heap, aux, Still
<1>5. CASE InsertExists(w) \/ InsertNoNode(w)
  BY <1>5, <1>0, DropLeafFacts DEF Still
<1>6. CASE InsertClear(w)
  <2>1. st[wm[w]] = "held" BY <1>6 DEF InsertClear, InvInsert, Is
  <2>2. \A n \in Nodes : st[n] = "live" => child'[n] = child[n]
    BY <1>6, <2>1 DEF InsertClear, TypeOK
  <2>3. root' = root /\ st' = st BY <1>6 DEF InsertClear, aux
  <2> QED BY <2>2, <2>3 DEF Still
<1>7. CASE InsertLink(w)
  <2>1. st[wm[w]] = "held" BY <1>7 DEF InsertLink, InvInsert, Is
  <2>2. \A n \in Nodes : st[n] = "live" =>
           \A i \in Nibs : child'[n][i] = child[n][i]
    BY <1>7, <2>1, LinkFacts
  <2>3. root' = root /\ st' = st BY <1>7 DEF InsertLink, aux
  <2> QED BY <2>2, <2>3 DEF Still
<1>8. CASE RemoveFreeNode(w)
  <2> DEFINE x == pending_del_nodes[wdel[w]]
  <2>1. /\ x # NULL => st[x] = "gone"
        /\ root' = root
        /\ \A n \in Nodes, j \in Nibs : n # x => child'[n][j] = child[n][j]
        /\ \A y \in Obj : st'[y] = IF y = x THEN "pool" ELSE st[y]
    BY <1>8, RemoveFreeNodeFacts DEF Waiting
  <2> HIDE DEF x
  <2>2. \A y \in Obj : st'[y] = "live" <=> st[y] = "live" BY <2>1, <1>0
  <2>3. \A n \in Nodes : st[n] = "live" =>
           \A i \in Nibs : child'[n][i] = child[n][i]
    BY <2>1, <1>0
  <2> QED BY <2>1, <2>2, <2>3 DEF Still
<1>9. CASE RemoveFreeLeaf(w)
  <2> DEFINE x == pending_del_leaves[wdel[w]]
  <2>1. /\ x # NULL => st[x] = "gone"
        /\ root' = root /\ child' = child
        /\ \A y \in Obj : st'[y] = IF y = x THEN "pool" ELSE st[y]
    BY <1>9, RemoveFreeLeafFacts DEF Waiting
  <2> HIDE DEF x
  <2>2. \A y \in Obj : st'[y] = "live" <=> st[y] = "live" BY <2>1, <1>0
  <2> QED BY <2>1, <2>2 DEF Still
<1> QED BY <1>1, <1>2, <1>3, <1>4, <1>5, <1>6, <1>7, <1>8, <1>9, QuietOrLoud
        DEF Loud, TreeChange

\* A still step keeps the shape.
LEMMA StillFrame ==
    ASSUME TypeOK, TypeOK', InvTree, InvEdge, InvCover, InvUnique, Still,
           \A x \in Obj : st[x] = "live" => Headed(x)
    PROVE  InvEdge' /\ InvCover' /\ InvUnique'
<1>0. /\ \A n \in Nodes : n \in Obj /\ n \in Ptr
      /\ \A x \in Obj : x \in Ptr /\ x # NULL
      /\ NULL \in Ptr /\ NULL \notin Nodes
      /\ root \in Ptr
      /\ \A n \in Nodes, i \in Nibs : child[n][i] \in Ptr
      /\ \A p \in Ptr : p # NULL => p \in Obj
      /\ \A x \in Obj, n \in Nodes : slice_index(PathOf(x), shift[n]) \in Nibs
  BY LinkTypes
<1>1. ASSUME NEW x \in Obj, st[x] = "live",
             NEW p \in Ptr, p = NULL \/ st[p] = "live"
      PROVE  /\ Under(x, p)' <=> Under(x, p)
             /\ Leads(p, x)' <=> Leads(p, x)
             /\ p \in Nodes => /\ shift'[p] = shift[p] /\ path'[p] = path[p]
                               /\ slice_index(PathOf(x), shift[p])'
                                    = slice_index(PathOf(x), shift[p])
  <2>1. Headed(x) /\ (p \in Nodes => Headed(p)) BY <1>0, <1>1
  <2> QED BY <2>1, <1>1, UnderSame
<1>2. InvEdge'
  <2> SUFFICES ASSUME NEW n \in Nodes, st'[n] = "live"
        PROVE /\ path_mask(path'[n], shift'[n]) = path'[n]
              /\ \A i \in Nibs : child'[n][i] # NULL =>
                    /\ Under(child[n][i], n)'
                    /\ slice_index(PathOf(child[n][i]), shift[n])' = i
    BY DEF InvEdge
  <2>1. st[n] = "live" /\ n \in Obj /\ n \in Ptr BY <1>0 DEF Still
  <2>2. shift'[n] = shift[n] /\ path'[n] = path[n] BY <1>1, <2>1
  <2>3. ASSUME NEW i \in Nibs, NEW c, c = child'[n][i], c # NULL
        PROVE  Under(c, n)' /\ slice_index(PathOf(c), shift[n])' = i
    <3>1. c = child[n][i] BY <2>1, <2>3 DEF Still
    <3>2. c \in Obj /\ st[c] = "live"
      BY <1>0, <2>1, <2>3, <3>1 DEF InvTree, NullOr
    <3>3. Under(c, n) /\ slice_index(PathOf(c), shift[n]) = i
      BY <2>1, <2>3, <3>1 DEF InvEdge
    <3> QED BY <3>2, <3>3, <1>1, <2>1
  <2> QED BY <2>1, <2>2, <2>3 DEF InvEdge
<1>3. InvCover'
  <2> SUFFICES ASSUME NEW x \in Obj, st'[x] = "live"
        PROVE /\ Leads(root, x)'
              /\ \A n \in Nodes : st'[n] = "live" /\ Under(x, n)' =>
                    Leads(SlotFor(n, x), x)'
    BY DEF InvCover
  <2>1. st[x] = "live" BY DEF Still
  <2>2. Leads(root, x)'
    <3>1. PICK p : p = root OBVIOUS
    <3>2. Leads(p, x) BY <3>1, <2>1 DEF InvCover
    <3>3. p \in Ptr /\ (p = NULL \/ st[p] = "live")
      BY <3>1, <1>0 DEF InvTree, NullOr
    <3>4. Leads(p, x)' BY <3>2, <3>3, <2>1, <1>1
    <3>5. p = root' BY <3>1 DEF Still
    <3> QED BY <3>4, <3>5 DEF Leads, Under
  <2>3. ASSUME NEW n \in Nodes, st'[n] = "live", Under(x, n)'
        PROVE  Leads(SlotFor(n, x), x)'
    <3>1. st[n] = "live" /\ n \in Obj /\ n \in Ptr BY <2>3, <1>0 DEF Still
    <3>2. /\ Under(x, n)
          /\ slice_index(PathOf(x), shift[n])' = slice_index(PathOf(x), shift[n])
      BY <3>1, <2>1, <2>3, <1>1
    <3>3. PICK p : p = SlotFor(n, x) OBVIOUS
    <3>4. Leads(p, x) BY <3>1, <3>2, <3>3, <2>1 DEF InvCover
    <3>5. p \in Ptr /\ (p = NULL \/ st[p] = "live")
      BY <3>1, <3>3, <1>0 DEF InvTree, NullOr, SlotFor
    <3>6. Leads(p, x)' BY <3>4, <3>5, <2>1, <1>1
    <3>7. p = SlotFor(n, x)'
      BY <3>1, <3>2, <3>3, <1>0 DEF Still, SlotFor
    <3> QED BY <3>6, <3>7 DEF Leads, Under
  <2> QED BY <2>2, <2>3
<1>4. InvUnique'
  BY DEF InvUnique, Still, Headed
<1> QED BY <1>2, <1>3, <1>4

-----------------------------------------------------------------------------
(* The steps that change the tree.                                         *)

\* The new leaf belongs where the walk of insert has stopped.
LEMMA LeafPlace ==
    ASSUME TypeOK, InvInsert, InvPlace, NEW w \in Writers,
           wpc[w] \in {"walk", "clear", "link", "head", "publish"},
           ~OnPath(wn[w], wkey[w])
    PROVE  /\ Place(wk[w], wpar[w], wn[w])
           /\ wk[w] \in Leaves /\ st[wk[w]] = "held"
           /\ lkey[wk[w]] = wkey[w]
           /\ wpar[w] # NULL => wpar[w] \in Nodes /\ OnPath(wpar[w], wkey[w])
<1>1. /\ wk[w] \in Leaves /\ st[wk[w]] = "held" /\ lkey[wk[w]] = wkey[w]
      /\ wpar[w] \in Nodes \cup {NULL} /\ NullOr(wpar[w], "live")
      /\ wn[w] = Slot(wpar[w], wkey[w])
      /\ wpar[w] # NULL => OnPath(wpar[w], wkey[w])
  BY DEF InvInsert, InvPlace, Is, TypeOK
<1>2. PathOf(wk[w]) = wkey[w] /\ ShiftOf(wk[w]) = -1 BY <1>1, PlaceFacts
<1>3. ~Under(wk[w], wn[w]) BY <1>2 DEF Under, OnPath
<1>4. CASE wpar[w] = NULL BY <1>1, <1>3, <1>4 DEF Place, Slot
<1>5. CASE wpar[w] # NULL
  <2>1. wpar[w] \in Nodes /\ st[wpar[w]] = "live" BY <1>1, <1>5 DEF NullOr
  <2>2. -1 < shift[wpar[w]] BY <2>1, PlaceFacts
  <2>3. Under(wk[w], wpar[w]) BY <1>1, <1>2, <1>5, <2>1, <2>2 DEF Under, OnPath
  <2>4. SlotFor(wpar[w], wk[w]) = wn[w] BY <1>1, <1>2, <1>5 DEF SlotFor, Slot
  <2> QED BY <1>1, <1>3, <1>5, <2>1, <2>3, <2>4 DEF Place
<1> QED BY <1>1, <1>4, <1>5

\* Where an insert stops without having found the key, no live leaf has it.
LEMMA KeyIsNew ==
    ASSUME TypeOK, InvInsert, InvCover, InvPlace, NEW w \in Writers,
           wpc[w] \in {"walk", "clear", "link", "head", "publish"},
           ~OnPath(wn[w], wkey[w]),
           wn[w] = NULL \/ PathOf(wn[w]) # wkey[w],
           NEW l \in Leaves, st[l] = "live"
    PROVE  lkey[l] # wkey[w]
<1>1. Place(wk[w], wpar[w], wn[w]) /\ wk[w] \in Leaves /\ lkey[wk[w]] = wkey[w]
  BY LeafPlace
<1>2. l \in Obj /\ wk[w] \in Obj /\ l # NULL /\ PathOf(l) = lkey[l]
      /\ PathOf(wk[w]) = lkey[wk[w]] /\ ShiftOf(l) = ShiftOf(wk[w])
  BY <1>1, PlaceFacts
<1>3. ASSUME lkey[l] = wkey[w] PROVE FALSE
  <2>1. l = wn[w] BY <1>1, <1>2, <1>3, NewUnique
  <2> QED BY <2>1, <1>2, <1>3
<1> QED BY <1>3

\* Insert puts its leaf into the empty slot it belongs in.
LEMMA InSlotShape ==
    ASSUME TypeOK, TypeOK', InvTree, InvInsert, InvEdge, InvCover, InvUnique,
           InvPlace, NEW w \in Writers, InsertInSlot(w), WriterNext(w)
    PROVE  InvEdge' /\ InvCover' /\ InvUnique'
<1>w. wpc[w] = "walk" /\ wn[w] = NULL /\ ~OnPath(wn[w], wkey[w])
  BY PtrAssumption DEF InsertInSlot, OnPath
<1>1. PICK k : k = wk[w] OBVIOUS
<1>2. PICK p : p = wpar[w] OBVIOUS
<1>3. /\ Place(k, p, NULL) /\ k \in Leaves /\ st[k] = "held"
      /\ p # NULL => p \in Nodes
  BY <1>1, <1>2, <1>w, LeafPlace
<1>t. /\ \A n \in Nodes : n \in Obj /\ n \in Ptr /\ n # NULL
      /\ \A x \in Obj : x \in Ptr /\ x # NULL
      /\ NULL \in Ptr /\ NULL \notin Nodes
      /\ root \in Ptr
      /\ \A n \in Nodes, i \in Nibs : child[n][i] \in Ptr
      /\ \A q \in Ptr : q # NULL => q \in Obj
      /\ \A x \in Obj, n \in Nodes : slice_index(PathOf(x), shift[n]) \in Nibs
      /\ k \in Obj /\ k \notin Nodes
  BY <1>3, LinkTypes, PlaceFacts
<1>4. PICK s : s = slice_index(PathOf(k), shift[p]) OBVIOUS
<1>5. /\ root' = IF p = NULL THEN k ELSE root
      /\ \A n \in Nodes, j \in Nibs :
            child'[n][j] = IF p # NULL /\ n = p /\ j = s THEN k ELSE child[n][j]
      /\ \A y \in Obj : st'[y] = IF y = k THEN "live" ELSE st[y]
  <2>1. PathOf(k) = wkey[w] BY <1>1, <1>3, <1>w, LeafPlace, PlaceFacts
  <2> QED BY <2>1, <1>1, <1>2, <1>4, InSlotFacts
\* Heads stay, so Under and Leads mean what they meant before.
<1>6. \A x \in Obj : Headed(x) BY <1>w, HeadSame
<1>7. /\ \A x \in Obj, q \in Ptr : /\ Under(x, q)' <=> Under(x, q)
                                   /\ Leads(q, x)' <=> Leads(q, x)
      /\ \A x \in Obj, n \in Nodes :
            slice_index(PathOf(x), shift[n])' = slice_index(PathOf(x), shift[n])
      /\ \A n \in Nodes : shift'[n] = shift[n] /\ path'[n] = path[n]
  <2>1. \A q \in Nodes : q \in Obj BY <1>t
  <2> QED BY <1>6, <2>1, <1>t, UnderSame
<1>8. InvUnique'
  <2>1. ASSUME NEW y \in Obj, st[y] = "live",
               PathOf(k) = PathOf(y), ShiftOf(k) = ShiftOf(y)
        PROVE  FALSE
    BY <2>1, <1>3, <1>t, NewUnique
  <2> QED BY <2>1, <1>5, <1>6 DEF InvUnique, Headed
<1>9. InvEdge'
  <2>1. ASSUME NEW n \in Nodes, st'[n] = "live"
        PROVE  path_mask(path'[n], shift'[n]) = path'[n] /\ st[n] = "live"
    BY <2>1, <1>5, <1>7, <1>t DEF InvEdge
  <2>2. ASSUME NEW n \in Nodes, st'[n] = "live", NEW i \in Nibs,
               NEW c, c = child'[n][i], c # NULL
        PROVE  Under(c, n)' /\ slice_index(PathOf(c), shift[n])' = i
    <3>1. CASE p # NULL /\ n = p /\ i = s
      <4>1. c = k BY <2>2, <3>1, <1>5
      <4>2. Under(k, n) BY <3>1, <1>3 DEF Place
      <4> QED BY <4>1, <4>2, <3>1, <1>t, <1>4, <1>7
    <3>2. CASE ~(p # NULL /\ n = p /\ i = s)
      <4>1. c = child[n][i] BY <2>2, <3>2, <1>5
      <4>2. st[n] = "live" BY <2>1, <2>2
      <4>3. Under(c, n) /\ slice_index(PathOf(c), shift[n]) = i
        BY <4>1, <4>2, <2>2 DEF InvEdge
      <4>4. c \in Obj BY <4>1, <2>2, <1>t
      <4> QED BY <4>3, <4>4, <1>t, <1>7
    <3> QED BY <3>1, <3>2
  <2> QED BY <2>1, <2>2 DEF InvEdge
<1>10. ASSUME NEW x \in Obj, st'[x] = "live"
       PROVE  Leads(root, x)'
  <2>1. PICK q : q = root' OBVIOUS
  <2>2. Leads(q, x) /\ q \in Ptr
    <3>1. CASE p = NULL
      <4>1. q = k /\ root = NULL BY <2>1, <3>1, <1>3, <1>5 DEF Place
      <4>2. x = k
        <5>1. ~Leads(root, x) BY <4>1, <1>t DEF Leads, Under
        <5> QED BY <5>1, <1>5, <1>10 DEF InvCover
      <4> QED BY <4>1, <4>2, <1>t DEF Leads
    <3>2. CASE p # NULL /\ x = k
      BY <2>1, <3>2, <1>3, <1>5, <1>t, NewRoot
    <3>3. CASE p # NULL /\ x # k
      BY <2>1, <3>3, <1>5, <1>10, <1>t DEF InvCover
    <3> QED BY <3>1, <3>2, <3>3
  <2>3. Leads(q, x)' BY <2>2, <1>7
  <2> QED BY <2>1, <2>3 DEF Leads, Under
<1>11. ASSUME NEW x \in Obj, st'[x] = "live",
              NEW n \in Nodes, st'[n] = "live", Under(x, n)'
       PROVE  Leads(SlotFor(n, x), x)'
  <2>1. PICK q : q = SlotFor(n, x)' OBVIOUS
  <2>2. PICK i \in Nibs : i = slice_index(PathOf(x), shift[n]) BY <1>t
  <2>3. q = child'[n][i] /\ SlotFor(n, x) = child[n][i]
    BY <2>1, <2>2, <1>7 DEF SlotFor
  <2>4. st[n] = "live" /\ Under(x, n) BY <1>5, <1>7, <1>11, <1>t
  <2>5. Leads(q, x)
    <3>1. CASE x = k
      <4>1. p # NULL /\ (n = p \/ Leads(SlotFor(n, x), x))
        BY <3>1, <2>4, <1>3, <1>t, NewBlock
      <4>2. CASE n = p
        <5>1. i = s BY <4>2, <2>2, <3>1, <1>4
        <5> QED BY <5>1, <4>1, <4>2, <2>3, <3>1, <1>5 DEF Leads
      <4>3. CASE n # p
        BY <4>1, <4>3, <2>3, <1>5
      <4> QED BY <4>2, <4>3
    <3>2. CASE x # k
      <4>1. st[x] = "live" BY <3>2, <1>5, <1>11
      <4>2. Leads(child[n][i], x) BY <4>1, <2>3, <2>4 DEF InvCover
      <4>3. child[n][i] # NULL BY <4>2, <1>t DEF Leads, Under
      <4>4. ~(p # NULL /\ n = p /\ i = s)
        BY <4>3, <1>3, <1>4 DEF Place, SlotFor
      <4> QED BY <4>2, <4>4, <2>3, <1>5
    <3> QED BY <3>1, <3>2
  <2>6. q \in Ptr BY <2>3, <1>5, <1>t
  <2>7. Leads(q, x)' BY <2>5, <2>6, <1>7
  <2> QED BY <2>1, <2>7 DEF Leads, Under
<1> QED BY <1>8, <1>9, <1>10, <1>11 DEF InvCover

\* The new node belongs between the parent and the block the walk stopped at,
\* and the two blocks it holds belong below it, into different slots.
LEMMA NodePlace ==
    ASSUME TypeOK, InvTree, InvInsert, InvEdge, InvPlace, NEW w \in Writers,
           wpc[w] = "publish"
    PROVE  /\ Place(wm[w], wpar[w], wn[w])
           /\ Under(wk[w], wm[w]) /\ Under(wn[w], wm[w])
           /\ SlotFor(wm[w], wk[w]) = wk[w] /\ SlotFor(wm[w], wn[w]) = wn[w]
           /\ slice_index(PathOf(wk[w]), shift[wm[w]])
                # slice_index(PathOf(wn[w]), shift[wm[w]])
           /\ wm[w] \in Nodes /\ st[wm[w]] = "held" /\ st[wn[w]] = "live"
           /\ wn[w] \in Obj
           /\ path_mask(path[wm[w]], shift[wm[w]]) = path[wm[w]]
           /\ \A i \in Nibs : child[wm[w]][i] # NULL =>
                 \/ /\ child[wm[w]][i] = wk[w]
                    /\ i = slice_index(PathOf(wk[w]), shift[wm[w]])
                 \/ /\ child[wm[w]][i] = wn[w]
                    /\ i = slice_index(PathOf(wn[w]), shift[wm[w]])
<1> DEFINE k == wk[w]
           m == wm[w]
           p == wpar[w]
           q == wn[w]
           K == wkey[w]
           sh == wsh[w]
<1>1. /\ k \in Leaves /\ lkey[k] = K
      /\ Place(k, p, q)
      /\ m \in Nodes /\ st[m] = "held" /\ q # NULL /\ q \in Obj
      /\ p \in Nodes \cup {NULL} /\ NullOr(p, "live") /\ q = Slot(p, K)
      /\ p # NULL => OnPath(p, K)
      /\ ~OnPath(q, K)
      /\ TopDiff(PathOf(q), K, sh)
      /\ shift[m] = sh /\ path[m] = path_mask(K, sh)
      /\ K \in Key /\ sh \in Digits /\ sh \in Int
      /\ \A i \in Nibs : child[m][i] = IF i = slice_index(K, sh) THEN k
                                       ELSE IF i = slice_index(PathOf(q), sh) THEN q
                                       ELSE NULL
  <2>1. /\ Is(k, "held") /\ Is(m, "held") /\ q # NULL
        /\ NullOr(p, "live") /\ q = Slot(p, K)
    BY DEF InvInsert
  <2>2. /\ lkey[k] = K /\ (p # NULL => OnPath(p, K))
        /\ ~OnPath(q, K)
        /\ TopDiff(PathOf(q), K, sh)
        /\ shift[m] = sh /\ path[m] = path_mask(K, sh)
        /\ \A i \in Nibs : child[m][i] = IF i = slice_index(K, sh) THEN k
                                         ELSE IF i = slice_index(PathOf(q), sh) THEN q
                                         ELSE NULL
    BY DEF InvPlace
  <2>3. /\ k \in Leaves \cup {NULL} /\ m \in Nodes \cup {NULL} /\ q \in Ptr
        /\ p \in Nodes \cup {NULL} /\ K \in Key /\ sh \in Digits /\ sh \in Int
    BY DEF TypeOK, Digits
  <2>4. Place(k, p, q) BY <2>2, LeafPlace
  <2> QED BY <2>1, <2>2, <2>3, <2>4 DEF Is, Ptr
<1> HIDE DEF k, m, p, q, K, sh
<1>2. st[q] = "live"
  BY <1>1, SlotLive DEF NullOr
<1>3. /\ PathOf(k) = K /\ ShiftOf(k) = -1 /\ k \in Obj
      /\ PathOf(m) = path[m] /\ ShiftOf(m) = sh /\ m \in Obj
      /\ PathOf(q) \in Key /\ ShiftOf(q) \in Int /\ -1 < sh
  BY <1>1, PlaceFacts
<1>4. ShiftOf(q) < sh
  <2>1. CASE q \in Leaves BY <2>1, <1>3, PlaceFacts
  <2>2. CASE q \in Nodes
    <3>1. /\ shift[q] \in Int /\ path[q] \in Key
          /\ PathOf(q) = path[q] /\ ShiftOf(q) = shift[q]
      BY <2>2, PlaceFacts
    <3>2. ASSUME sh <= shift[q] PROVE FALSE
      <4>1. \A d \in Digits : d > shift[q] => path[q][d] = K[d]
        BY <1>1, <3>1, <3>2 DEF TopDiff, Digits
      <4>2. path_mask(K, shift[q]) = path_mask(path[q], shift[q])
        BY <4>1, <3>1, <1>1, MaskAgree
      <4>3. path_mask(path[q], shift[q]) = path[q] BY <2>2, <1>2 DEF InvEdge
      <4> QED BY <4>2, <4>3, <2>2, <1>1 DEF OnPath
    <3> QED BY <3>1, <3>2, <1>1
  <2> QED BY <2>1, <2>2, <1>1 DEF Obj
<1>5. Under(k, m) BY <1>1, <1>3 DEF Under
<1>6. Under(q, m)
  <2>1. path_mask(PathOf(q), sh) = path_mask(K, sh)
    BY <1>1, <1>3, MaskAgree DEF TopDiff
  <2> QED BY <2>1, <1>1, <1>4 DEF Under
<1>7. slice_index(K, sh) # slice_index(PathOf(q), sh)
  BY <1>1 DEF TopDiff, slice_index
<1>8. slice_index(K, sh) \in Nibs /\ slice_index(PathOf(q), sh) \in Nibs
  BY <1>1, <1>3, KeyFacts
<1>9. SlotFor(m, k) = k /\ SlotFor(m, q) = q
  BY <1>1, <1>3, <1>7, <1>8 DEF SlotFor
<1>10. ~Under(m, q)
  <2>1. q \in Nodes => ShiftOf(q) = shift[q] BY PlaceFacts
  <2> QED BY <2>1, <1>1, <1>3, <1>4 DEF Under
<1>11. Place(m, p, q)
  <2>1. CASE p = NULL BY <2>1, <1>1, <1>10 DEF Place
  <2>2. CASE p # NULL
    <3>1. /\ p \in Nodes /\ st[p] = "live"
          /\ Under(k, p) /\ SlotFor(p, k) = q
          /\ shift[p] \in Digits /\ shift[p] \in Int
      BY <2>2, <1>1, PlaceFacts DEF Place
    <3>2. PICK s \in Nibs : s = slice_index(K, shift[p]) BY <3>1, <1>1, KeyFacts
    <3>3. child[p][s] = q BY <3>1, <3>2, <1>3 DEF SlotFor
    <3>4. Under(q, p) /\ slice_index(PathOf(q), shift[p]) = slice_index(K, shift[p])
      BY <3>1, <3>2, <3>3, <1>1 DEF InvEdge
    <3>5. sh # shift[p] BY <3>4, <1>7
    <3>6. ~(sh > shift[p])
      <4>1. path_mask(PathOf(q), shift[p]) = path_mask(K, shift[p])
        BY <3>1, <3>4, <1>3 DEF Under
      <4>2. \A d \in Digits : d > shift[p] => PathOf(q)[d] = K[d]
        BY <4>1, <3>1, <1>1, <1>3, MaskAgree
      <4> QED BY <4>2, <1>1, <1>7 DEF slice_index
    <3>7. shift[m] < shift[p] BY <3>1, <3>5, <3>6, <1>1
    <3>8. Under(m, p) /\ SlotFor(p, m) = q
      BY <3>1, <3>7, <1>1, <1>3, <1>5, UnderBoth
    <3> QED BY <2>2, <3>1, <3>8, <1>10 DEF Place
  <2> QED BY <2>1, <2>2
<1>12. path_mask(path[m], shift[m]) = path[m]
  <2>1. \A d \in Digits : d > sh => path_mask(K, sh)[d] = K[d]
    BY DEF path_mask
  <2>2. path_mask(K, sh) \in Key BY <1>1, KeyFacts
  <2>3. path_mask(path_mask(K, sh), sh) = path_mask(K, sh)
    BY <2>1, <2>2, <1>1, MaskAgree
  <2> QED BY <2>3, <1>1
<1>13. \A i \in Nibs : child[m][i] # NULL =>
          \/ child[m][i] = k /\ i = slice_index(PathOf(k), shift[m])
          \/ child[m][i] = q /\ i = slice_index(PathOf(q), shift[m])
  BY <1>1, <1>3
<1> QED BY <1>1, <1>2, <1>3, <1>5, <1>6, <1>7, <1>9, <1>11, <1>12, <1>13
        DEF k, m, p, q

\* Insert puts a node with its leaf and the block that was there into the
\* slot where the walk stopped.
LEMMA PublishShape ==
    ASSUME TypeOK, TypeOK', InvTree, InvInsert, InvEdge, InvCover, InvUnique,
           InvPlace, NEW w \in Writers, InsertPublish(w), WriterNext(w)
    PROVE  InvEdge' /\ InvCover' /\ InvUnique'
<1>w. wpc[w] = "publish" BY DEF InsertPublish
<1>1. PICK k, m, p, q : k = wk[w] /\ m = wm[w] /\ p = wpar[w] /\ q = wn[w]
  OBVIOUS
<1>2. /\ Place(m, p, q)
      /\ Under(k, m) /\ Under(q, m)
      /\ SlotFor(m, k) = k /\ SlotFor(m, q) = q
      /\ m \in Nodes /\ st[m] = "held" /\ st[q] = "live"
      /\ q \in Obj
      /\ path_mask(path[m], shift[m]) = path[m]
      /\ \A i \in Nibs : child[m][i] # NULL =>
            \/ child[m][i] = k /\ i = slice_index(PathOf(k), shift[m])
            \/ child[m][i] = q /\ i = slice_index(PathOf(q), shift[m])
  BY <1>1, <1>w, NodePlace
<1>3. /\ Place(k, p, q) /\ k \in Leaves /\ st[k] = "held"
      /\ p # NULL => p \in Nodes
      /\ lkey[k] = wkey[w]
  <2>1. ~OnPath(wn[w], wkey[w]) BY <1>w DEF InvPlace
  <2> QED BY <2>1, <1>1, <1>w, LeafPlace
<1>t. /\ \A n \in Nodes : n \in Obj /\ n \in Ptr /\ n # NULL
      /\ \A x \in Obj : x \in Ptr /\ x # NULL
      /\ NULL \in Ptr /\ NULL \notin Nodes
      /\ root \in Ptr
      /\ \A n \in Nodes, i \in Nibs : child[n][i] \in Ptr
      /\ \A y \in Ptr : y # NULL => y \in Obj
      /\ \A x \in Obj, n \in Nodes : slice_index(PathOf(x), shift[n]) \in Nibs
      /\ k \in Obj /\ k \notin Nodes /\ m \notin Leaves
  BY <1>2, <1>3, LinkTypes, PlaceFacts
<1>4. PICK s : s = slice_index(PathOf(k), shift[p]) OBVIOUS
<1>5. /\ root' = IF p = NULL THEN m ELSE root
      /\ \A n \in Nodes, j \in Nibs :
            child'[n][j] = IF p # NULL /\ n = p /\ j = s THEN m ELSE child[n][j]
      /\ \A y \in Obj : st'[y] = IF y = m \/ y = k THEN "live" ELSE st[y]
  <2>1. PathOf(k) = wkey[w] BY <1>3, PlaceFacts
  <2> QED BY <2>1, <1>1, <1>4, PublishFacts
<1>6. \A x \in Obj : Headed(x) BY <1>w, HeadSame
<1>7. /\ \A x \in Obj, y \in Ptr : /\ Under(x, y)' <=> Under(x, y)
                                   /\ Leads(y, x)' <=> Leads(y, x)
      /\ \A x \in Obj, n \in Nodes :
            slice_index(PathOf(x), shift[n])' = slice_index(PathOf(x), shift[n])
      /\ \A n \in Nodes : shift'[n] = shift[n] /\ path'[n] = path[n]
  <2>1. \A y \in Nodes : y \in Obj BY <1>t
  <2> QED BY <1>6, <2>1, <1>t, UnderSame
\* The parent, if any: where node and leaf belong below it.
<1>8. p # NULL => /\ p \in Nodes /\ st[p] = "live" /\ p # m
                  /\ Under(m, p) /\ Under(k, p)
                  /\ s = slice_index(PathOf(m), shift[p])
                  /\ s \in Nibs /\ child[p][s] = q
  <2> SUFFICES ASSUME p # NULL
        PROVE  /\ p \in Nodes /\ st[p] = "live" /\ p # m
               /\ Under(m, p) /\ Under(k, p)
               /\ s = slice_index(PathOf(m), shift[p])
               /\ s \in Nibs /\ child[p][s] = q
    OBVIOUS
  <2>1. /\ p \in Nodes /\ st[p] = "live" /\ Under(m, p) /\ Under(k, p)
        /\ SlotFor(p, k) = q
    BY <1>2, <1>3 DEF Place
  <2>2. p # m BY <2>1, <1>2
  <2>3. s \in Nibs /\ child[p][s] = q BY <2>1, <1>4, <1>t DEF SlotFor
  <2>4. s = slice_index(PathOf(m), shift[p])
    <3>1. /\ path[m] = path_mask(PathOf(k), shift[m]) /\ PathOf(m) = path[m]
          /\ shift[m] < shift[p] /\ PathOf(k) \in Key
          /\ shift[m] \in Int /\ shift[p] \in Digits
      BY <1>2, <1>t, <2>1, PlaceFacts DEF Under
    <3> QED BY <3>1, <1>4, MaskNarrow
  <2> QED BY <2>1, <2>2, <2>3, <2>4
<1>9. InvUnique'
  <2>1. ASSUME NEW y \in Obj, st[y] = "live",
               PathOf(k) = PathOf(y), ShiftOf(k) = ShiftOf(y)
        PROVE  FALSE
    <3>1. y = q BY <2>1, <1>3, <1>t, NewUnique
    <3>2. slice_index(PathOf(k), shift[m]) # slice_index(PathOf(q), shift[m])
      BY <1>1, <1>w, NodePlace
    <3> QED BY <3>1, <3>2, <2>1
  <2>2. ASSUME NEW y \in Obj, st[y] = "live",
               PathOf(m) = PathOf(y), ShiftOf(m) = ShiftOf(y)
        PROVE  FALSE
    <3>1. y = q BY <2>2, <1>2, <1>t, NewUnique
    <3>2. ShiftOf(q) < shift[m] /\ shift[m] = ShiftOf(m) /\ shift[m] \in Int
      BY <1>2, PlaceFacts DEF Under
    <3> QED BY <3>1, <3>2, <2>2
  <2>3. ShiftOf(k) # ShiftOf(m)
    <3>1. ShiftOf(k) = -1 /\ ShiftOf(m) \in Int /\ ShiftOf(m) >= 0
      BY <1>2, <1>3, PlaceFacts
    <3> QED BY <3>1
  <2> QED BY <2>1, <2>2, <2>3, <1>5, <1>6 DEF InvUnique, Headed
<1>10. InvEdge'
  <2>1. ASSUME NEW n \in Nodes, st'[n] = "live"
        PROVE  /\ path_mask(path'[n], shift'[n]) = path'[n]
               /\ n = m \/ st[n] = "live"
    <3>1. n = m \/ st[n] = "live" BY <2>1, <1>5, <1>t
    <3>2. path_mask(path[n], shift[n]) = path[n] BY <3>1, <1>2 DEF InvEdge
    <3> QED BY <3>1, <3>2, <1>7
  <2>2. ASSUME NEW n \in Nodes, st'[n] = "live", NEW i \in Nibs,
               NEW c, c = child'[n][i], c # NULL
        PROVE  Under(c, n)' /\ slice_index(PathOf(c), shift[n])' = i
    <3>1. CASE p # NULL /\ n = p /\ i = s
      <4>1. c = m BY <2>2, <3>1, <1>5
      <4> QED BY <4>1, <3>1, <1>t, <1>2, <1>7, <1>8
    <3>2. CASE ~(p # NULL /\ n = p /\ i = s)
      <4>1. c = child[n][i] BY <2>2, <3>2, <1>5
      <4>2. n = m \/ st[n] = "live" BY <2>1, <2>2
      <4>3. Under(c, n) /\ slice_index(PathOf(c), shift[n]) = i
        <5>1. CASE n = m BY <5>1, <4>1, <2>2, <1>2
        <5>2. CASE st[n] = "live" BY <5>2, <4>1, <2>2 DEF InvEdge
        <5> QED BY <5>1, <5>2, <4>2
      <4>4. c \in Obj BY <4>1, <2>2, <1>t
      <4> QED BY <4>3, <4>4, <1>t, <1>7
    <3> QED BY <3>1, <3>2
  <2> QED BY <2>1, <2>2 DEF InvEdge
<1>11. ASSUME NEW x \in Obj, st'[x] = "live"
       PROVE  Leads(root, x)'
  <2>1. PICK r : r = root' OBVIOUS
  <2>2. Leads(r, x) /\ r \in Ptr
    <3>1. CASE p = NULL
      <4>1. r = m /\ root = q BY <2>1, <3>1, <1>2, <1>5 DEF Place
      <4>2. CASE x = k \/ x = m BY <4>1, <4>2, <1>2, <1>t DEF Leads
      <4>3. CASE x # k /\ x # m
        <5>1. Leads(q, x) BY <4>1, <4>3, <1>5, <1>11 DEF InvCover
        <5>2. Under(x, m) BY <5>1, <1>2, UnderTrans DEF Leads, Under
        <5> QED BY <5>2, <4>1, <1>2, <1>t DEF Leads
      <4> QED BY <4>2, <4>3
    <3>2. CASE p # NULL /\ x = k
      BY <2>1, <3>2, <1>3, <1>5, <1>t, NewRoot
    <3>3. CASE p # NULL /\ x = m
      BY <2>1, <3>3, <1>2, <1>5, <1>t, NewRoot
    <3>4. CASE p # NULL /\ x # k /\ x # m
      BY <2>1, <3>4, <1>5, <1>11, <1>t DEF InvCover
    <3> QED BY <3>1, <3>2, <3>3, <3>4
  <2>3. Leads(r, x)' BY <2>2, <1>7
  <2> QED BY <2>1, <2>3 DEF Leads, Under
<1>12. ASSUME NEW x \in Obj, st'[x] = "live",
              NEW n \in Nodes, st'[n] = "live", Under(x, n)'
       PROVE  Leads(SlotFor(n, x), x)'
  <2>1. PICK r : r = SlotFor(n, x)' OBVIOUS
  <2>2. PICK i \in Nibs : i = slice_index(PathOf(x), shift[n]) BY <1>t
  <2>3. r = child'[n][i] /\ SlotFor(n, x) = child[n][i]
    BY <2>1, <2>2, <1>7 DEF SlotFor
  <2>4. Under(x, n) BY <1>7, <1>12, <1>t
  <2>5. Leads(r, x)
    <3>1. CASE n = m
      <4>1. r = child[m][i] BY <3>1, <2>3, <1>5, <1>8
      <4>2. x # m BY <3>1, <2>4, <1>2, PlaceFacts DEF Under
      <4>3. CASE x = k BY <4>1, <4>3, <3>1, <2>3, <1>2 DEF Leads
      <4>4. CASE x # k
        <5>1. st[x] = "live" BY <4>2, <4>4, <1>5, <1>12
        <5>2. Leads(q, x) BY <5>1, <3>1, <2>4, <1>2, AtPlace
        <5>3. CASE x = q BY <5>3, <4>1, <3>1, <2>3, <1>2 DEF Leads
        <5>4. CASE x # q
          <6>1. Under(x, q) /\ q \in Nodes BY <5>2, <5>4 DEF Leads, Under
          <6>2. SlotFor(m, x) = q BY <6>1, <1>2, UnderTrans
          <6> QED BY <6>1, <6>2, <4>1, <3>1, <2>3 DEF Leads
        <5> QED BY <5>3, <5>4
      <4> QED BY <4>3, <4>4
    <3>2. CASE n # m
      <4>0. st[n] = "live" BY <3>2, <1>5, <1>12, <1>t
      <4>1. CASE x = k \/ x = m
        <5>0. Place(x, p, q) BY <4>1, <1>2, <1>3
        <5>1. p # NULL /\ (n = p \/ Leads(SlotFor(n, x), x))
          BY <4>0, <5>0, <2>4, NewBlock
        <5>2. CASE n = p
          <6>1. i = s BY <5>1, <5>2, <2>2, <4>1, <1>4, <1>8
          <6>2. r = m BY <6>1, <5>1, <5>2, <2>3, <1>5
          <6> QED BY <6>2, <4>1, <1>2 DEF Leads
        <5>3. CASE n # p BY <5>1, <5>3, <2>3, <1>5
        <5> QED BY <5>2, <5>3
      <4>2. CASE x # k /\ x # m
        <5>1. st[x] = "live" BY <4>2, <1>5, <1>12
        <5>2. Leads(child[n][i], x) BY <4>0, <5>1, <2>3, <2>4 DEF InvCover
        <5>3. CASE p # NULL /\ n = p /\ i = s
          <6>1. r = m /\ Leads(q, x) BY <5>2, <5>3, <2>3, <1>5, <1>8
          <6>2. Under(x, m) BY <6>1, <1>2, UnderTrans DEF Leads, Under
          <6> QED BY <6>1, <6>2 DEF Leads
        <5>4. CASE ~(p # NULL /\ n = p /\ i = s)
          BY <5>2, <5>4, <2>3, <1>5
        <5> QED BY <5>3, <5>4
      <4> QED BY <4>1, <4>2
    <3> QED BY <3>1, <3>2
  <2>6. r \in Ptr BY <2>3, <1>5, <1>t, <1>2
  <2>7. Leads(r, x)' BY <2>5, <2>6, <1>7
  <2> QED BY <2>1, <2>7 DEF Leads, Under
<1> QED BY <1>9, <1>10, <1>11, <1>12 DEF InvCover

\* Remove takes its leaf out of the tree.
LEMMA UnlinkShape ==
    ASSUME TypeOK, TypeOK', InvTree, InvInsert, InvDel, InvRemove,
           InvEdge, InvCover, InvUnique,
           NEW w \in Writers, RemoveRoot(w) \/ RemoveUnlink(w), WriterNext(w)
    PROVE  InvEdge' /\ InvCover' /\ InvUnique'
<1>w. wpc[w] = "find" BY DEF RemoveRoot, RemoveUnlink, Found
<1>1. PICK l, p : l = wn[w] /\ p = wpar[w] OBVIOUS
<1>2. PICK s : s = slice_index(wkey[w], shift[p]) OBVIOUS
<1>3. /\ l \in Leaves /\ st[l] = "live"
      /\ p # NULL => p \in Nodes
      /\ l = IF p = NULL THEN root ELSE child[p][s]
      /\ root' = IF p = NULL THEN NULL ELSE root
      /\ \A n \in Nodes, j \in Nibs :
            child'[n][j] = IF p # NULL /\ n = p /\ j = s THEN NULL
                           ELSE child[n][j]
      /\ \A y \in Obj : st'[y] = IF y = l THEN "gone" ELSE st[y]
  BY <1>1, <1>2, UnlinkFacts DEF Slot
<1>t. /\ \A n \in Nodes : n \in Obj /\ n \in Ptr /\ n # NULL
      /\ \A x \in Obj : x \in Ptr /\ x # NULL
      /\ NULL \in Ptr /\ NULL \notin Nodes
      /\ root \in Ptr
      /\ \A n \in Nodes, i \in Nibs : child[n][i] \in Ptr
      /\ \A y \in Ptr : y # NULL => y \in Obj
      /\ \A x \in Obj, n \in Nodes : slice_index(PathOf(x), shift[n]) \in Nibs
      /\ l \in Obj /\ l \notin Nodes
  BY <1>3, LinkTypes, PlaceFacts
<1>6. \A x \in Obj : Headed(x) BY <1>w, HeadSame
<1>7. /\ \A x \in Obj, y \in Ptr : /\ Under(x, y)' <=> Under(x, y)
                                   /\ Leads(y, x)' <=> Leads(y, x)
      /\ \A x \in Obj, n \in Nodes :
            slice_index(PathOf(x), shift[n])' = slice_index(PathOf(x), shift[n])
      /\ \A n \in Nodes : shift'[n] = shift[n] /\ path'[n] = path[n]
  <2>1. \A y \in Nodes : y \in Obj BY <1>t
  <2> QED BY <1>6, <2>1, <1>t, UnderSame
<1>8. \A x \in Obj : st'[x] = "live" <=> st[x] = "live" /\ x # l BY <1>3
\* Nothing else was found through the leaf.
<1>9. \A x \in Obj : x # l => ~Leads(l, x) BY <1>t DEF Leads, Under
<1>10. InvUnique' BY <1>6, <1>8 DEF InvUnique, Headed
<1>11. InvEdge'
  <2>1. ASSUME NEW n \in Nodes, st'[n] = "live"
        PROVE  path_mask(path'[n], shift'[n]) = path'[n] /\ st[n] = "live"
    BY <2>1, <1>7, <1>8, <1>t DEF InvEdge
  <2>2. ASSUME NEW n \in Nodes, st'[n] = "live", NEW i \in Nibs,
               NEW c, c = child'[n][i], c # NULL
        PROVE  Under(c, n)' /\ slice_index(PathOf(c), shift[n])' = i
    <3>1. c = child[n][i] BY <2>2, <1>3
    <3>2. st[n] = "live" BY <2>1, <2>2
    <3>3. Under(c, n) /\ slice_index(PathOf(c), shift[n]) = i
      BY <3>1, <3>2, <2>2 DEF InvEdge
    <3>4. c \in Obj BY <3>1, <2>2, <1>t
    <3> QED BY <3>3, <3>4, <1>t, <1>7
  <2> QED BY <2>1, <2>2 DEF InvEdge
<1>12. ASSUME NEW x \in Obj, st'[x] = "live"
       PROVE  Leads(root, x)'
  <2>1. Leads(root, x) /\ x # l BY <1>8, <1>12 DEF InvCover
  <2>2. root' = root BY <2>1, <1>3, <1>9
  <2>3. PICK r \in Ptr : r = root BY <1>t
  <2>4. Leads(r, x)' BY <2>1, <2>3, <1>7
  <2> QED BY <2>2, <2>3, <2>4 DEF Leads, Under
<1>13. ASSUME NEW x \in Obj, st'[x] = "live",
              NEW n \in Nodes, st'[n] = "live", Under(x, n)'
       PROVE  Leads(SlotFor(n, x), x)'
  <2>1. PICK i \in Nibs : i = slice_index(PathOf(x), shift[n]) BY <1>t
  <2>2. PICK r \in Ptr : r = child[n][i] BY <1>t
  <2>3. Under(x, n) /\ x # l /\ st[x] = "live" /\ st[n] = "live"
    BY <1>7, <1>8, <1>13, <1>t
  <2>4. Leads(r, x) BY <2>1, <2>2, <2>3 DEF InvCover, SlotFor
  <2>5. SlotFor(n, x)' = r
    <3>1. SlotFor(n, x)' = child'[n][i] BY <2>1, <1>7 DEF SlotFor
    <3>2. ~(p # NULL /\ n = p /\ i = s) BY <2>2, <2>3, <2>4, <1>3, <1>9
    <3> QED BY <3>1, <3>2, <2>2, <1>3
  <2>6. Leads(r, x)' BY <2>4, <1>7
  <2> QED BY <2>5, <2>6 DEF Leads, Under
<1> QED BY <1>10, <1>11, <1>12, <1>13 DEF InvCover

\* Remove puts the only child of a node into the place of the node.
LEMMA CollapseShape ==
    ASSUME TypeOK, TypeOK', InvTree, InvInsert, InvDel, InvRemove,
           InvEdge, InvCover, InvUnique,
           NEW w \in Writers, RemoveCollapse(w), WriterNext(w)
    PROVE  InvEdge' /\ InvCover' /\ InvUnique'
<1>w. wpc[w] = "fix" BY DEF RemoveCollapse
<1>1. PICK d, g : d = wpar[w] /\ g = wgp[w] OBVIOUS
<1>2. PICK s : s = slice_index(wkey[w], shift[g]) OBVIOUS
<1>3. /\ d \in Nodes /\ st[d] = "live"
      /\ g # NULL => g \in Nodes /\ st[g] = "live" /\ s \in Nibs
      /\ d = IF g = NULL THEN root ELSE child[g][s]
      /\ \A y \in Obj : st'[y] = IF y = d THEN "gone" ELSE st[y]
  BY <1>1, <1>2, CollapseFacts DEF Slot, NullOr
<1>4. PICK o \in Nibs :
         /\ child[d][o] # NULL
         /\ root' = IF g = NULL THEN child[d][o] ELSE root
         /\ \A n \in Nodes, j \in Nibs :
               child'[n][j] = IF g # NULL /\ n = g /\ j = s
                              THEN child[d][o] ELSE child[n][j]
  BY <1>1, <1>2, CollapseFacts
<1>5. PICK c : c = child[d][o] OBVIOUS
<1>t. /\ \A n \in Nodes : n \in Obj /\ n \in Ptr /\ n # NULL
      /\ \A x \in Obj : x \in Ptr /\ x # NULL
      /\ NULL \in Ptr /\ NULL \notin Nodes
      /\ root \in Ptr
      /\ \A n \in Nodes, i \in Nibs : child[n][i] \in Ptr
      /\ \A y \in Ptr : y # NULL => y \in Obj
      /\ \A x \in Obj, n \in Nodes : slice_index(PathOf(x), shift[n]) \in Nibs
      /\ c \in Obj /\ c \in Ptr
  BY <1>3, <1>4, <1>5, LinkTypes
<1>6. \A x \in Obj : Headed(x) BY <1>w, HeadSame
<1>7. /\ \A x \in Obj, y \in Ptr : /\ Under(x, y)' <=> Under(x, y)
                                   /\ Leads(y, x)' <=> Leads(y, x)
      /\ \A x \in Obj, n \in Nodes :
            slice_index(PathOf(x), shift[n])' = slice_index(PathOf(x), shift[n])
      /\ \A n \in Nodes : shift'[n] = shift[n] /\ path'[n] = path[n]
  <2>1. \A y \in Nodes : y \in Obj BY <1>t
  <2> QED BY <1>6, <2>1, <1>t, UnderSame
<1>8. \A x \in Obj : st'[x] = "live" <=> st[x] = "live" /\ x # d BY <1>3
<1>9. \A j \in Nibs : j # o => child[d][j] = NULL
  <2>1. PICK i \in Nibs : Occupied(d) = {i} BY <1>1 DEF RemoveCollapse
  <2> QED BY <2>1, <1>4 DEF Occupied
\* What a lookup found through the node it finds through the child.
<1>10. ASSUME NEW x \in Obj, st[x] = "live", x # d, Leads(d, x)
       PROVE  Leads(c, x)
  <2>1. Under(x, d) BY <1>10 DEF Leads
  <2>2. Leads(SlotFor(d, x), x) BY <2>1, <1>3, <1>10 DEF InvCover
  <2>3. PICK i \in Nibs : i = slice_index(PathOf(x), shift[d]) BY <1>3, <1>t
  <2>4. SlotFor(d, x) = child[d][i] BY <2>3 DEF SlotFor
  <2>5. child[d][i] # NULL BY <2>2, <2>4, <1>t DEF Leads, Under
  <2> QED BY <2>2, <2>4, <2>5, <1>5, <1>9
<1>11. InvUnique' BY <1>6, <1>8 DEF InvUnique, Headed
<1>12. InvEdge'
  <2>1. ASSUME NEW n \in Nodes, st'[n] = "live"
        PROVE  path_mask(path'[n], shift'[n]) = path'[n] /\ st[n] = "live"
    BY <2>1, <1>7, <1>8, <1>t DEF InvEdge
  <2>2. ASSUME NEW n \in Nodes, st'[n] = "live", NEW i \in Nibs,
               NEW b, b = child'[n][i], b # NULL
        PROVE  Under(b, n)' /\ slice_index(PathOf(b), shift[n])' = i
    <3>0. st[n] = "live" BY <2>1, <2>2
    <3>1. CASE g # NULL /\ n = g /\ i = s
      <4>1. b = c BY <2>2, <3>1, <1>4, <1>5
      <4>2. Under(c, d) BY <1>3, <1>4, <1>5 DEF InvEdge
      <4>3. Under(d, n) /\ slice_index(PathOf(d), shift[n]) = i
        BY <3>0, <3>1, <1>3, <1>t DEF InvEdge
      <4>4. Under(c, n) /\ slice_index(PathOf(c), shift[n]) = i
        BY <4>2, <4>3, <1>3, <1>t, UnderTrans
      <4> QED BY <4>1, <4>4, <1>t, <1>7
    <3>2. CASE ~(g # NULL /\ n = g /\ i = s)
      <4>1. b = child[n][i] BY <2>2, <3>2, <1>4
      <4>3. Under(b, n) /\ slice_index(PathOf(b), shift[n]) = i
        BY <3>0, <4>1, <2>2 DEF InvEdge
      <4>4. b \in Obj BY <4>1, <2>2, <1>t
      <4> QED BY <4>3, <4>4, <1>t, <1>7
    <3> QED BY <3>1, <3>2
  <2> QED BY <2>1, <2>2 DEF InvEdge
<1>13. ASSUME NEW x \in Obj, st'[x] = "live"
       PROVE  Leads(root, x)'
  <2>1. Leads(root, x) /\ x # d /\ st[x] = "live" BY <1>8, <1>13 DEF InvCover
  <2>2. PICK r \in Ptr : r = root' BY <1>4, <1>5, <1>t
  <2>3. Leads(r, x)
    <3>1. CASE g = NULL BY <3>1, <2>1, <2>2, <1>3, <1>4, <1>5, <1>10
    <3>2. CASE g # NULL BY <3>2, <2>1, <2>2, <1>4
    <3> QED BY <3>1, <3>2
  <2>4. Leads(r, x)' BY <2>3, <1>7
  <2> QED BY <2>2, <2>4 DEF Leads, Under
<1>14. ASSUME NEW x \in Obj, st'[x] = "live",
              NEW n \in Nodes, st'[n] = "live", Under(x, n)'
       PROVE  Leads(SlotFor(n, x), x)'
  <2>1. PICK i \in Nibs : i = slice_index(PathOf(x), shift[n]) BY <1>t
  <2>2. PICK r \in Ptr : r = child'[n][i] BY <1>4, <1>5, <1>t
  <2>3. Under(x, n) /\ x # d /\ st[x] = "live" /\ st[n] = "live"
    BY <1>7, <1>8, <1>14, <1>t
  <2>4. Leads(child[n][i], x) BY <2>1, <2>3 DEF InvCover, SlotFor
  <2>5. Leads(r, x)
    <3>1. CASE g # NULL /\ n = g /\ i = s
      BY <3>1, <2>2, <2>3, <2>4, <1>3, <1>4, <1>5, <1>10
    <3>2. CASE ~(g # NULL /\ n = g /\ i = s)
      BY <3>2, <2>2, <2>4, <1>4
    <3> QED BY <3>1, <3>2
  <2>6. SlotFor(n, x)' = r BY <2>1, <2>2, <1>7 DEF SlotFor
  <2>7. Leads(r, x)' BY <2>5, <1>7
  <2> QED BY <2>6, <2>7 DEF Leads, Under
<1> QED BY <1>11, <1>12, <1>13, <1>14 DEF InvCover

-----------------------------------------------------------------------------
(* The other parts of the shape, one lemma each.                           *)

\* Where the steps of a call take its thread; the call itself stays.
LEMMA InsertPcs ==
    ASSUME TypeOK, NEW w \in Writers, Insert(w)
    PROVE  /\ wpc[w] \in InsertPC
           /\ wpc'[w] \in InsertPC \cup {"unlock"}
           /\ \A u \in Writers : u # w => wpc'[u] = wpc[u]
           /\ UNCHANGED call
<1> USE DEF TypeOK, Goto, Ret, InsertPC
<1>1. CASE InsertAllocLeaf(w) BY <1>1 DEF InsertAllocLeaf
<1>2. CASE InsertNoLeaf(w) BY <1>2 DEF InsertNoLeaf
<1>3. CASE InsertSetKey(w) BY <1>3 DEF InsertSetKey
<1>4. CASE InsertSetValue(w) BY <1>4 DEF InsertSetValue
<1>5. CASE InsertDescend(w) BY <1>5 DEF InsertDescend
<1>6. CASE InsertInSlot(w) BY <1>6 DEF InsertInSlot
<1>7. CASE InsertExists(w) BY <1>7 DEF InsertExists, Diverges
<1>8. CASE InsertAllocNode(w) BY <1>8 DEF InsertAllocNode, Diverges
<1>9. CASE InsertNoNode(w) BY <1>9 DEF InsertNoNode, Diverges
<1>10. CASE InsertClear(w) BY <1>10 DEF InsertClear
<1>11. CASE InsertLink(w) BY <1>11 DEF InsertLink
<1>12. CASE InsertHead(w) BY <1>12 DEF InsertHead
<1>13. CASE InsertPublish(w) BY <1>13 DEF InsertPublish
<1> QED BY <1>1, <1>2, <1>3, <1>4, <1>5, <1>6, <1>7, <1>8, <1>9, <1>10,
           <1>11, <1>12, <1>13 DEF Insert

LEMMA RemovePcs ==
    ASSUME TypeOK, NEW w \in Writers, Remove(w)
    PROVE  /\ wpc[w] \in RemovePC
           /\ wpc'[w] \in RemovePC \cup {"unlock"}
           /\ wpc'[w] = "find" => RemoveFreeLeaf(w) \/ RemoveDescend(w)
           /\ wpc'[w] = "fix" => RemoveUnlink(w)
           /\ \A u \in Writers : u # w => wpc'[u] = wpc[u]
           /\ UNCHANGED call
<1> USE DEF TypeOK, Goto, Ret, RemovePC
<1>1. CASE RemoveEmpty(w) BY <1>1 DEF RemoveEmpty
<1>2. CASE RemoveCount(w) BY <1>2 DEF RemoveCount
<1>3. CASE RemoveFreeNode(w) BY <1>3 DEF RemoveFreeNode
<1>4. CASE RemoveFreeLeaf(w) BY <1>4 DEF RemoveFreeLeaf
<1>5. CASE RemoveDescend(w) BY <1>5 DEF RemoveDescend
<1>6. CASE RemoveAbsent(w) BY <1>6 DEF RemoveAbsent
<1>7. CASE RemoveRoot(w) BY <1>7 DEF RemoveRoot, Found
<1>8. CASE RemoveUnlink(w) BY <1>8 DEF RemoveUnlink, Found
<1>9. CASE RemoveKeep(w) BY <1>9 DEF RemoveKeep
<1>10. CASE RemoveCollapse(w) BY <1>10 DEF RemoveCollapse
<1> QED BY <1>1, <1>2, <1>3, <1>4, <1>5, <1>6, <1>7, <1>8, <1>9, <1>10
        DEF Remove

\* Calls, locking and unlocking: nothing but the thread's own call changes.
LEMMA EdgePcs ==
    ASSUME TypeOK, NEW w \in Writers,
           CallInsert(w) \/ CallRemove(w) \/ Lock(w) \/ Unlock(w)
    PROVE  /\ UNCHANGED <<root, child, path, shift, lkey, lval, st>>
           /\ wpc[w] \in {"idle", "lock", "unlock"}
           /\ wpc'[w] \in {"idle", "lock", "alloc_leaf", "remove"}
           /\ \A u \in Writers : u # w =>
                 /\ wpc'[u] = wpc[u] /\ wkey'[u] = wkey[u]
                 /\ wop'[u] = wop[u] /\ wval'[u] = wval[u]
                 /\ wk'[u] = wk[u] /\ wm'[u] = wm[u] /\ wsh'[u] = wsh[u]
                 /\ wn'[u] = wn[u] /\ wpar'[u] = wpar[u]
<1> USE DEF TypeOK, Goto, heap, aux, locals
<1>1. CASE CallInsert(w) BY <1>1 DEF CallInsert, Call
<1>2. CASE CallRemove(w) BY <1>2 DEF CallRemove, Call
<1>3. CASE Lock(w) BY <1>3 DEF Lock, call
<1>4. CASE Unlock(w) BY <1>4 DEF Unlock
<1> QED BY <1>1, <1>2, <1>3, <1>4

\* Callers pass their keys and values, and the steps taken are the call's.
LEMMA CallStep ==
    ASSUME TypeOK, InvCall, NEW w \in Writers, WriterNext(w)
    PROVE  InvCall'
<1> DEFINE Fine(u) ==
       /\ wpc[u] \in InsertPC => wop[u] = "insert"
       /\ wpc[u] \in RemovePC => wop[u] = "remove"
       /\ wpc[u] # "idle" =>
             /\ wkey[u] \in Keys
             /\ wop[u] = "insert" => wval[u] \in Values
             /\ wop[u] = "remove" => wval[u] = NULL
             /\ wop[u] # "none"
<1>d. Fine(w) /\ \A u \in Writers : Fine(u) BY DEF InvCall
<1>1. CASE CallInsert(w) \/ CallRemove(w) \/ Lock(w) \/ Unlock(w)
  <2>1. \A u \in Writers : u # w => Fine(u)' BY <1>1, <1>d, EdgePcs
  <2>2. Fine(w)'
    <3> USE DEF TypeOK, Goto, InsertPC, RemovePC
    <3>1. CASE CallInsert(w) BY <3>1 DEF CallInsert, Call
    <3>2. CASE CallRemove(w) BY <3>2 DEF CallRemove, Call
    <3>3. CASE Lock(w) BY <3>3, <1>d DEF Lock, call
    <3>4. CASE Unlock(w) BY <3>4 DEF Unlock
    <3> QED BY <1>1, <3>1, <3>2, <3>3, <3>4
  <2> QED BY <2>1, <2>2 DEF InvCall
<1>2. CASE Insert(w)
  <2>1. \A u \in Writers : u # w => Fine(u)' BY <1>2, <1>d, InsertPcs DEF call
  <2>2. Fine(w)'
    BY <1>2, <1>d, InsertPcs DEF call, InsertPC, RemovePC
  <2> QED BY <2>1, <2>2 DEF InvCall
<1>3. CASE Remove(w)
  <2>1. \A u \in Writers : u # w => Fine(u)' BY <1>3, <1>d, RemovePcs DEF call
  <2>2. Fine(w)'
    BY <1>3, <1>d, RemovePcs DEF call, InsertPC, RemovePC
  <2> QED BY <2>1, <2>2 DEF InvCall
<1> QED BY <1>1, <1>2, <1>3 DEF WriterNext, Run

\* A block becomes live only when insert links it.
LEMMA NewLive ==
    ASSUME TypeOK, TypeOK', InvTree, InvPoolNodes, InvPoolLeaves, InvPending,
           InvLock, InvDel, InvInsert, InvRemove,
           NEW w \in Writers, WriterNext(w), NEW x \in Obj, st'[x] = "live"
    PROVE  \/ st[x] = "live"
           \/ InsertInSlot(w) /\ x = wk[w]
           \/ InsertPublish(w) /\ x \in {wk[w], wm[w]}
<1>1. CASE ~TreeChange(w) BY <1>1, StillStep DEF Still
<1>2. CASE InsertInSlot(w) BY <1>2, InSlotFacts
<1>3. CASE InsertPublish(w) BY <1>3, PublishFacts
<1>4. CASE RemoveRoot(w) \/ RemoveUnlink(w) BY <1>4, UnlinkFacts
<1>5. CASE RemoveCollapse(w) BY <1>5, CollapseFacts
<1> QED BY <1>1, <1>2, <1>3, <1>4, <1>5 DEF TreeChange

LEMMA WPartsStep ==
    ASSUME WParts, NEW w \in Writers, WriterNext(w)
    PROVE  WParts' /\ Gentle
<1> USE DEF WParts
<1>1. TypeOK' BY TypeStep
<1>2. InvLock' /\ InvTree' BY <1>1, LockStep, TreeStep
<1>4. InvPoolNodes' /\ InvPoolLeaves' BY PoolNodesStep, PoolLeavesStep
<1>5. InvPending' /\ InvDel' BY <1>1, PendingStep, DelStep
<1>6. InvInsert' /\ InvRemove' BY <1>1, InsertStep, RemoveStep
<1>7. Gentle BY <1>1, GentleStep
<1> QED BY <1>1, <1>2, <1>4, <1>5, <1>6, <1>7

\* A thread that is past a call's lock is alone there.
LEMMA StepKinds ==
    ASSUME TypeOK, InvLock, NEW w \in Writers, WriterNext(w)
    PROVE  \/ CallInsert(w) \/ CallRemove(w) \/ Lock(w) \/ Unlock(w)
           \/ /\ Insert(w) \/ Remove(w)
              /\ \A u \in Writers : u # w =>
                    wpc'[u] = wpc[u] /\ wpc[u] \notin Busy
<1>1. ASSUME Insert(w) \/ Remove(w), NEW u \in Writers, u # w
      PROVE  wpc'[u] = wpc[u] /\ wpc[u] \notin Busy
  <2>1. wpc[w] \in Busy BY <1>1, InsertPcs, RemovePcs DEF Busy
  <2> QED BY <2>1, <1>1, OnlyOne
<1> QED BY <1>1 DEF WriterNext, Run

\* The value of a leaf that enters the tree is a caller's, and stays until
\* the remove that takes it out has returned it.
LEMMA LeafStep ==
    ASSUME WParts, WParts', Gentle, InvCall, InvPlace, InvLeaf,
           NEW w \in Writers, WriterNext(w)
    PROVE  InvLeaf'
<1>0. \A l \in Leaves : l \in Obj /\ l # NULL /\ l \notin Nodes
  BY PtrAssumption DEF Obj
<1>1. ASSUME NEW l \in Leaves, st'[l] = "live"
      PROVE  lval'[l] \in Values
  <2>1. lval'[l] = lval[l] BY <1>1 DEF Gentle
  <2>2. CASE st[l] = "live" BY <2>1, <2>2 DEF InvLeaf
  <2>3. CASE InsertInSlot(w) /\ l = wk[w]
    <3>1. wpc[w] = "walk" BY <2>3 DEF InsertInSlot
    <3>2. lval[l] = wval[w] BY <2>3, <3>1 DEF InvPlace
    <3>3. wval[w] \in Values BY <3>1 DEF InvCall, InsertPC
    <3> QED BY <2>1, <3>2, <3>3
  <2>4. CASE InsertPublish(w) /\ l \in {wk[w], wm[w]}
    <3>1. wpc[w] = "publish" BY <2>4 DEF InsertPublish
    <3>2. wm[w] \in Nodes \cup {NULL} BY DEF WParts, TypeOK
    <3>3. l = wk[w] BY <2>4, <3>2, <1>0
    <3>4. lval[l] = wval[w] BY <3>1, <3>3 DEF InvPlace
    <3>5. wval[w] \in Values BY <3>1 DEF InvCall, InsertPC
    <3> QED BY <2>1, <3>4, <3>5
  <2> QED BY <2>2, <2>3, <2>4, <1>0, <1>1, NewLive DEF WParts
<1>2. ASSUME NEW u \in Writers, wpc'[u] = "fix"
      PROVE  lval'[wn'[u]] \in Values
  <2>1. CASE CallInsert(w) \/ CallRemove(w) \/ Lock(w) \/ Unlock(w)
    <3>1. u # w /\ wpc[u] = "fix" /\ lval' = lval /\ wn'[u] = wn[u]
      BY <2>1, <1>2, EdgePcs DEF WParts
    <3> QED BY <3>1 DEF InvLeaf
  <2>2. CASE /\ Insert(w) \/ Remove(w)
             /\ \A v \in Writers : v # w =>
                   wpc'[v] = wpc[v] /\ wpc[v] \notin Busy
    <3>1. u = w BY <2>2, <1>2 DEF Busy, RemovePC
    <3>2. Remove(w)
      BY <2>2, <3>1, <1>2, InsertPcs DEF WParts, InsertPC
    <3>3. RemoveUnlink(w) BY <3>1, <3>2, <1>2, RemovePcs DEF WParts
    <3>4. lval' = lval /\ wn' = wn BY <3>3 DEF RemoveUnlink, locals
    <3>5. wn[w] \in Leaves /\ st[wn[w]] = "live"
      BY <3>3, UnlinkFacts DEF WParts
    <3> QED BY <3>1, <3>4, <3>5 DEF InvLeaf
  <2> QED BY <2>1, <2>2, StepKinds DEF WParts
<1> QED BY <1>1, <1>2 DEF InvLeaf
\* Every node keeps two children, but for the one that a remove is about to
\* collapse.
LEMMA ForkStep ==
    ASSUME WParts, WParts', InvEdge, InvPlace, InvFork,
           NEW w \in Writers, WriterNext(w)
    PROVE  InvFork'
<1> DEFINE Two(n) == \E i, j \in Nibs : /\ i # j
                                        /\ child[n][i] # NULL
                                        /\ child[n][j] # NULL
           Mine(n) == wpc[w] = "fix" /\ wpar[w] = n
<1> USE DEF WParts
<1>0. \A n \in Nodes : n \in Obj /\ n # NULL /\ n \notin Leaves
  BY PtrAssumption DEF Obj
<1>1. ASSUME NEW n \in Nodes, st[n] = "live",
             \A i \in Nibs : child[n][i] # NULL => child'[n][i] # NULL,
             Mine(n) => Two(n)
      PROVE  \E i \in Nibs :
                /\ child'[n][i] # NULL
                /\ Fixing(n)' \/ \E j \in Nibs : j # i /\ child'[n][j] # NULL
  <2>1. CASE Two(n) BY <2>1, <1>1
  <2>2. CASE ~Two(n)
    <3>1. PICK i \in Nibs : child[n][i] # NULL /\ Fixing(n)
      BY <2>2, <1>1 DEF InvFork
    <3>2. PICK u \in Writers : wpc[u] = "fix" /\ wpar[u] = n
      BY <3>1 DEF Fixing
    <3>3. u # w BY <3>2, <2>2, <1>1
    <3>4. wpc'[u] = "fix" /\ wpar'[u] = n BY <3>2, <3>3, OthersSame
    <3>5. Fixing(n)' BY <3>4 DEF Fixing
    <3> QED BY <3>1, <3>5, <1>1
  <2> QED BY <2>1, <2>2
<1>2. CASE ~TreeChange(w)
  <2>1. Still BY <1>2, StillStep
  <2>2. ASSUME NEW n \in Nodes, Mine(n) PROVE Two(n)
    <3>1. Remove(w) BY <2>2, InsertPcs, EdgePcs DEF WriterNext, Run, InsertPC
    <3>2. RemoveKeep(w)
      BY <3>1, <2>2, <1>2 DEF Remove, TreeChange, RemoveEmpty, RemoveCount,
         RemoveFreeNode, RemoveFreeLeaf, RemoveDescend, RemoveAbsent
    <3> QED BY <3>2, <2>2 DEF RemoveKeep, Occupied
  <2> QED BY <2>1, <2>2, <1>0, <1>1 DEF Still, InvFork
<1>3. CASE InsertInSlot(w)
  <2>1. wk[w] \in Leaves /\ wk[w] # NULL
    BY <1>3, InSlotFacts, PtrAssumption
  <2>2. /\ \A n \in Nodes : st'[n] = "live" => st[n] = "live"
        /\ \A n \in Nodes, i \in Nibs :
              child[n][i] # NULL => child'[n][i] # NULL
    BY <1>3, <2>1, <1>0, InSlotFacts
  <2>3. wpc[w] = "walk" BY <1>3 DEF InsertInSlot
  <2> QED BY <2>2, <2>3, <1>1 DEF InvFork
<1>4. CASE InsertPublish(w)
  <2>p. wpc[w] = "publish" BY <1>4 DEF InsertPublish
  <2>1. PICK m \in Nodes : m = wm[w] /\ m \in Obj BY <1>4, <1>0, PublishFacts
  <2>2. /\ wk[w] # NULL
        /\ \A n \in Nodes : st'[n] = "live" => st[n] = "live" \/ n = m
        /\ \A n \in Nodes, i \in Nibs :
              child[n][i] # NULL => child'[n][i] # NULL
    BY <1>4, <2>1, <1>0, PublishFacts, PtrAssumption
  <2>3. Two(m)
    <3>1. PICK i, j : /\ i = slice_index(PathOf(wk[w]), shift[m])
                      /\ j = slice_index(PathOf(wn[w]), shift[m])
      OBVIOUS
    <3>2. wk[w] \in Obj /\ wn[w] \in Obj /\ wn[w] # NULL
      BY <2>p, <1>4, PublishFacts, PtrAssumption DEF Obj
    <3>3. i \in Nibs /\ j \in Nibs BY <3>1, <3>2, <2>1, LinkTypes
    <3>4. child[m][i] = wk[w] /\ child[m][j] = wn[w] /\ i # j
      BY <2>p, <2>1, <3>1, NodePlace DEF SlotFor
    <3> QED BY <3>2, <3>3, <3>4, <2>2
  <2>4. ASSUME NEW n \in Nodes, n = m
        PROVE  \E i \in Nibs : /\ child'[n][i] # NULL
                               /\ \E j \in Nibs : j # i /\ child'[n][j] # NULL
    BY <2>2, <2>3, <2>4
  <2> QED BY <2>p, <2>2, <2>4, <1>1 DEF InvFork
<1>5. CASE RemoveRoot(w)
  <2>1. child' = child /\ wpc[w] = "find" BY <1>5 DEF RemoveRoot, Found, heap
  <2>2. \A n \in Nodes : st'[n] = "live" => st[n] = "live"
    BY <1>5, <1>0, UnlinkFacts
  <2> QED BY <2>1, <2>2, <1>1 DEF InvFork
<1>6. CASE RemoveUnlink(w)
  <2>p. /\ wpc[w] = "find" /\ wpar[w] # NULL
        /\ wpc'[w] = "fix" /\ wpar' = wpar
    BY <1>6 DEF RemoveUnlink, Found, Goto, locals, TypeOK
  <2>1. PICK p, s : /\ p = wpar[w] /\ p \in Nodes
                    /\ s = slice_index(wkey[w], shift[p])
    BY <2>p, <1>6, UnlinkFacts
  <2>2. /\ \A n \in Nodes : st'[n] = "live" => st[n] = "live"
        /\ \A n \in Nodes, i \in Nibs :
              ~(n = p /\ i = s) => child'[n][i] = child[n][i]
    BY <2>p, <2>1, <1>6, <1>0, UnlinkFacts
  <2>3. Fixing(p)' BY <2>p, <2>1 DEF Fixing
  <2>4. ~Fixing(p)
    <3>1. wpc[w] \in Busy BY <2>p DEF Busy, RemovePC
    <3>2. \A u \in Writers : u # w => wpc[u] \notin Busy BY <3>1, OnlyOne
    <3> QED BY <2>p, <3>2 DEF Fixing, Busy, RemovePC
  <2>5. ASSUME NEW n \in Nodes, st'[n] = "live"
        PROVE  \E i \in Nibs :
                /\ child'[n][i] # NULL
                /\ Fixing(n)' \/ \E j \in Nibs : j # i /\ child'[n][j] # NULL
    <3>1. CASE n = p
      <4>1. Two(n) BY <3>1, <2>2, <2>4, <2>5 DEF InvFork
      <4>2. PICK i \in Nibs : child[n][i] # NULL /\ i # s BY <4>1
      <4> QED BY <4>2, <3>1, <2>2, <2>3
    <3>2. CASE n # p BY <3>2, <2>p, <2>2, <2>5, <1>1
    <3> QED BY <3>1, <3>2
  <2> QED BY <2>5 DEF InvFork
<1>7. CASE RemoveCollapse(w)
  <2>1. /\ \A n \in Nodes : st'[n] = "live" => st[n] = "live" /\ n # wpar[w]
        /\ \A n \in Nodes, i \in Nibs :
              child[n][i] # NULL => child'[n][i] # NULL
    BY <1>7, <1>0, CollapseFacts
  <2> QED BY <2>1, <1>1 DEF InvFork
<1> QED BY <1>2, <1>3, <1>4, <1>5, <1>6, <1>7 DEF TreeChange
\* InsertLink fills the two slots of the new node that the leaf and the block
\* the walk stopped at belong in, and they are two.
LEMMA LinkSlots ==
    ASSUME WParts, InvPlace, NEW w \in Writers, InsertLink(w),
           NEW i \in Nibs
    PROVE  child'[wm[w]][i] =
              IF i = slice_index(wkey[w], wsh[w]) THEN wk[w]
              ELSE IF i = slice_index(PathOf(wn[w]), wsh[w]) THEN wn[w]
              ELSE NULL
<1> DEFINE a == slice_index(wkey[w], wsh[w])
           b == slice_index(PathOf(wn[w]), wsh[w])
           m == wm[w]
           f == [child EXCEPT ![m][a] = wk[w]]
<1>p. wpc[w] = "link" BY DEF InsertLink
<1>1. /\ m \in Nodes /\ wk[w] \in Ptr /\ wn[w] \in Obj /\ wn[w] \in Ptr
      /\ wsh[w] \in Digits /\ wkey[w] \in Key
      /\ child \in [Nodes -> [Nibs -> Ptr]]
      /\ \A j \in Nibs : child[m][j] = NULL
  BY <1>p DEF WParts, TypeOK, InvInsert, Is, Ptr, Obj
<1>2. PathOf(wn[w]) \in Key BY <1>1, PlaceFacts DEF WParts
<1>3. a \in Nibs /\ b \in Nibs BY <1>1, <1>2, KeyFacts
<1>4. a # b
  <2>1. TopDiff(PathOf(wn[w]), wkey[w], wsh[w]) BY <1>p DEF InvPlace
  <2> QED BY <2>1 DEF TopDiff, slice_index
<1>5. child' = [f EXCEPT ![m][b] = wn[w]] BY DEF InsertLink
<1> HIDE DEF a, b, m
<1>6. /\ f \in [Nodes -> [Nibs -> Ptr]]
      /\ \A n \in Nodes, j \in Nibs :
            f[n][j] = IF n = m /\ j = a THEN wk[w] ELSE child[n][j]
  BY <1>1, <1>3, StoreSlot
<1> HIDE DEF f
<1>7. \A n \in Nodes, j \in Nibs :
         child'[n][j] = IF n = m /\ j = b THEN wn[w] ELSE f[n][j]
  BY <1>1, <1>3, <1>5, <1>6, StoreSlot
<1>8. child'[m][i] = IF i = a THEN wk[w] ELSE IF i = b THEN wn[w] ELSE NULL
  BY <1>1, <1>4, <1>6, <1>7
<1> QED BY <1>8 DEF a, b, m

\* What an insert knows of its place stays true until it has published.
LEMMA PlaceStep ==
    ASSUME WParts, WParts', InvPlace, NEW w \in Writers, WriterNext(w)
    PROVE  InvPlace'
<1> DEFINE
      Key1(u) == wpc[u] \in {"set_value", "walk", "clear", "link", "head",
                             "publish"} => lkey[wk[u]] = wkey[u]
      Val(u) == wpc[u] \in {"walk", "clear", "link", "head", "publish"} =>
             /\ lval[wk[u]] = wval[u]
             /\ wpar[u] # NULL => OnPath(wpar[u], wkey[u])
      Stop(u) == wpc[u] \in {"clear", "link", "head", "publish"} =>
             /\ ~OnPath(wn[u], wkey[u])
             /\ TopDiff(PathOf(wn[u]), wkey[u], wsh[u])
      Full(u) == wpc[u] \in {"head", "publish"} =>
             \A i \in Nibs :
                child[wm[u]][i] =
                   IF i = slice_index(wkey[u], wsh[u]) THEN wk[u]
                   ELSE IF i = slice_index(PathOf(wn[u]), wsh[u]) THEN wn[u]
                   ELSE NULL
      Head(u) == wpc[u] = "publish" =>
             /\ shift[wm[u]] = wsh[u]
             /\ path[wm[u]] = path_mask(wkey[u], wsh[u])
      Fine(u) == Key1(u) /\ Val(u) /\ Stop(u) /\ Full(u) /\ Head(u)
<1> USE DEF WParts
<1>d. /\ InvPlace <=> \A u \in Writers : Fine(u)
      /\ InvPlace' <=> \A u \in Writers : Fine(u)'
  BY DEF InvPlace
<1>w. Fine(w) BY <1>d
<1>t. /\ wk[w] \in Leaves \cup {NULL} /\ wm[w] \in Nodes \cup {NULL}
      /\ wpar[w] \in Nodes \cup {NULL} /\ wkey[w] \in Key /\ wn[w] \in Ptr
      /\ \A n \in Nodes : n \in Obj /\ n # NULL /\ n \notin Leaves
  BY PtrAssumption DEF TypeOK, Obj
<1>s. NullOr(wpar[w], "live") => NullOr(Slot(wpar[w], wkey[w]), "live")
  BY <1>t, SlotLive
<1>1. CASE CallInsert(w) \/ CallRemove(w) \/ Lock(w) \/ Unlock(w)
  <2>1. Fine(w)' BY <1>1, EdgePcs
  <2>2. ASSUME NEW u \in Writers, u # w
        PROVE  Fine(u)'
    <3>1. /\ UNCHANGED <<root, child, path, shift, lkey, lval, st>>
          /\ wpc'[u] = wpc[u] /\ wkey'[u] = wkey[u] /\ wval'[u] = wval[u]
          /\ wk'[u] = wk[u] /\ wm'[u] = wm[u] /\ wsh'[u] = wsh[u]
          /\ wn'[u] = wn[u] /\ wpar'[u] = wpar[u]
      BY <1>1, <2>2, EdgePcs
    <3>2. Fine(u) BY <1>d
    <3> QED BY <3>1, <3>2 DEF OnPath, PathOf, is_leaf
  <2> QED BY <2>1, <2>2, <1>d
<1>2. ASSUME Insert(w) \/ Remove(w), Fine(w)'
      PROVE  InvPlace'
  <2>1. wpc[w] \in Busy BY <1>2, InsertPcs, RemovePcs DEF Busy
  <2>2. ASSUME NEW u \in Writers, u # w
        PROVE  Fine(u)'
    <3>1. wpc'[u] = wpc[u] /\ wpc[u] \notin Busy BY <2>1, <2>2, OnlyOne
    <3> QED BY <3>1 DEF Busy, InsertPC
  <2> QED BY <2>2, <1>2, <1>d
<1>3. CASE Remove(w)
  <2>1. Fine(w)' BY <1>3, RemovePcs DEF RemovePC
  <2> QED BY <2>1, <1>2, <1>3
<1>4. CASE Insert(w)
  <2> SUFFICES Fine(w)' BY <1>2, <1>4
  <2> USE DEF TypeOK, Goto, Ret
  <2>1. CASE \/ InsertAllocLeaf(w) \/ InsertNoLeaf(w) \/ InsertInSlot(w)
             \/ InsertExists(w) \/ InsertNoNode(w) \/ InsertPublish(w)
    <3>1. wpc'[w] \in {"set_key", "unlock"}
      BY <2>1 DEF InsertAllocLeaf, InsertNoLeaf, InsertInSlot, InsertExists,
         InsertNoNode, InsertPublish
    <3> QED BY <3>1
  <2>2. CASE InsertSetKey(w)
    <3>1. wpc'[w] = "set_value" /\ wk' = wk /\ wkey' = wkey
      BY <2>2 DEF InsertSetKey, locals, call
    <3>2. wk[w] \in Leaves BY <2>2, <1>t DEF InsertSetKey, InvInsert, Is
    <3>3. lkey'[wk[w]] = wkey[w] BY <2>2, <3>2 DEF InsertSetKey
    <3> QED BY <3>1, <3>3
  <2>3. CASE InsertSetValue(w)
    <3>1. /\ wpc[w] = "set_value" /\ wpc'[w] = "walk"
          /\ UNCHANGED <<wk, wkey, wval, wpar, lkey>>
      BY <2>3 DEF InsertSetValue, call
    <3>2. wk[w] \in Leaves /\ wpar[w] = NULL BY <3>1, <1>t DEF InvInsert, Is
    <3>3. lval'[wk[w]] = wval[w] BY <2>3, <3>2 DEF InsertSetValue
    <3> QED BY <3>1, <3>2, <3>3, <1>w
  <2>4. CASE InsertDescend(w)
    <3>1. /\ wpc[w] = "walk" /\ wpc' = wpc /\ wpar'[w] = wn[w]
          /\ UNCHANGED <<wk, wkey, wval, lkey, lval, path, shift>>
          /\ OnPath(wn[w], wkey[w])
      BY <2>4 DEF InsertDescend, heap, call
    <3> QED BY <3>1, <1>w DEF OnPath
  <2>5. CASE InsertAllocNode(w)
    <3>1. /\ wpc[w] = "walk" /\ wpc'[w] = "clear"
          /\ UNCHANGED <<wk, wkey, wval, wn, wpar, lkey, lval, path, shift>>
          /\ ~OnPath(wn[w], wkey[w])
      BY <2>5 DEF InsertAllocNode, Diverges, heap, call
    <3>2. TopDiff(PathOf(wn[w]), wkey[w], wsh'[w])
      BY <2>5 DEF InsertAllocNode
    <3> QED BY <3>1, <3>2, <1>w DEF OnPath, PathOf, is_leaf
  <2>6. CASE InsertClear(w)
    <3>1. /\ wpc[w] = "clear" /\ wpc'[w] = "link"
          /\ UNCHANGED <<wk, wkey, wval, wn, wpar, wsh, lkey, lval, path, shift>>
      BY <2>6 DEF InsertClear, locals, call
    <3> QED BY <3>1, <1>w DEF OnPath, PathOf, is_leaf
  <2>7. CASE InsertLink(w)
    <3>1. /\ wpc[w] = "link" /\ wpc'[w] = "head"
          /\ UNCHANGED <<wk, wm, wkey, wval, wn, wpar, wsh>>
          /\ UNCHANGED <<lkey, lval, path, shift>>
      BY <2>7 DEF InsertLink, locals, call
    <3>2. Key1(w)' /\ Val(w)' /\ Stop(w)' /\ Head(w)'
      BY <3>1, <1>w DEF OnPath, PathOf, is_leaf
    <3>3. PathOf(wn[w])' = PathOf(wn[w]) BY <3>1 DEF PathOf, is_leaf
    <3>4. Full(w)' BY <2>7, <3>1, <3>3, LinkSlots
    <3> QED BY <3>2, <3>4
  <2>8. CASE InsertHead(w)
    <3>1. /\ wpc[w] = "head" /\ wpc'[w] = "publish"
          /\ UNCHANGED <<wk, wm, wkey, wval, wn, wpar, wsh>>
          /\ UNCHANGED <<lkey, lval, child>>
      BY <2>8 DEF InsertHead, locals, call
    <3>2. /\ wm[w] \in Nodes /\ st[wm[w]] = "held" /\ wn[w] # NULL
          /\ NullOr(wpar[w], "live") /\ wn[w] = Slot(wpar[w], wkey[w])
      BY <3>1, <1>t DEF InvInsert, Is
    <3>3. st[wn[w]] = "live" BY <3>2, <1>s DEF NullOr
    <3>4. /\ shift'[wm[w]] = wsh[w]
          /\ path'[wm[w]] = path_mask(wkey[w], wsh[w])
          /\ \A n \in Nodes : n # wm[w] => shift'[n] = shift[n] /\ path'[n] = path[n]
      BY <2>8, <3>2 DEF InsertHead
    <3>5. /\ wn[w] # wm[w]
          /\ wpar[w] # NULL => wpar[w] \in Nodes /\ wpar[w] # wm[w]
      BY <3>2, <3>3, <1>t DEF NullOr
    <3>6. PathOf(wn[w])' = PathOf(wn[w])
      <4>1. wn[w] \in Leaves \/ wn[w] \in Nodes
        BY <3>2, <1>t DEF Ptr, Obj
      <4> QED BY <4>1, <3>1, <3>4, <3>5 DEF PathOf, is_leaf
    <3>7. OnPath(wn[w], wkey[w])' <=> OnPath(wn[w], wkey[w])
      BY <3>1, <3>4, <3>5 DEF OnPath
    <3>8. wpar[w] # NULL =>
             (OnPath(wpar[w], wkey[w])' <=> OnPath(wpar[w], wkey[w]))
      BY <3>1, <3>4, <3>5 DEF OnPath
    <3>9. Key1(w)' /\ Val(w)' BY <3>1, <3>8, <1>w
    <3>10. Stop(w)' BY <3>1, <3>6, <3>7, <1>w DEF TopDiff
    <3>11. Full(w)' BY <3>1, <3>6, <1>w
    <3>12. Head(w)' BY <3>1, <3>4
    <3> QED BY <3>9, <3>10, <3>11, <3>12
  <2> QED BY <1>4, <2>1, <2>2, <2>3, <2>4, <2>5, <2>6, <2>7, <2>8 DEF Insert
<1> QED BY <1>1, <1>3, <1>4 DEF WriterNext, Run

\* A remove stays on the way to its leaf.
LEMMA FindStep ==
    ASSUME WParts, WParts', InvCover, InvCover', InvFind,
           NEW w \in Writers, WriterNext(w)
    PROVE  InvFind'
<1> DEFINE Fine(u) == wpc[u] = "find" =>
       \A l \in Leaves : st[l] = "live" /\ lkey[l] = wkey[u] => Leads(wn[u], l)
<1> USE DEF WParts
<1>d. /\ InvFind <=> \A u \in Writers : Fine(u)
      /\ InvFind' <=> \A u \in Writers : Fine(u)'
  BY DEF InvFind
<1>1. CASE CallInsert(w) \/ CallRemove(w) \/ Lock(w) \/ Unlock(w)
  <2>1. Fine(w)' BY <1>1, EdgePcs
  <2>2. ASSUME NEW u \in Writers, u # w
        PROVE  Fine(u)'
    <3>1. /\ UNCHANGED <<root, child, path, shift, lkey, lval, st>>
          /\ wpc'[u] = wpc[u] /\ wkey'[u] = wkey[u] /\ wn'[u] = wn[u]
      BY <1>1, <2>2, EdgePcs
    <3>2. Fine(u) BY <1>d
    <3> QED BY <3>1, <3>2 DEF Leads, Under, ShiftOf, PathOf, is_leaf
  <2> QED BY <2>1, <2>2, <1>d
<1>2. CASE /\ Insert(w) \/ Remove(w)
           /\ \A v \in Writers : v # w =>
                 wpc'[v] = wpc[v] /\ wpc[v] \notin Busy
  <2>1. ASSUME NEW u \in Writers, u # w PROVE Fine(u)'
    BY <1>2, <2>1 DEF Busy, RemovePC
  <2>2. ASSUME wpc'[w] = "find" PROVE Fine(w)'
    <3>1. Remove(w) BY <1>2, <2>2, InsertPcs DEF InsertPC
    <3>2. CASE RemoveFreeLeaf(w)
      <4>1. wn'[w] = root' BY <3>2 DEF RemoveFreeLeaf, TypeOK
      <4>2. \A l \in Leaves : st'[l] = "live" => Leads(root, l)'
        BY DEF InvCover, Obj
      <4> QED BY <4>1, <4>2 DEF Leads, Under
    <3>3. CASE RemoveDescend(w)
      <4>1. /\ wpc[w] = "find" /\ wn[w] \in Nodes
            /\ UNCHANGED <<child, path, shift, lkey, wkey, st>>
            /\ wn'[w] = child[wn[w]][slice_index(wkey[w], shift[wn[w]])]
        BY <3>3 DEF RemoveDescend, heap, call, aux, TypeOK
      <4>2. st[wn[w]] = "live"
        <5>1. NullOr(wpar[w], "live") /\ wn[w] = Slot(wpar[w], wkey[w])
          BY <4>1 DEF InvRemove
        <5>2. wpar[w] \in Nodes \cup {NULL} /\ wkey[w] \in Key BY DEF TypeOK
        <5> QED BY <5>1, <5>2, <4>1, SlotLive, PtrAssumption DEF NullOr
      <4>3. ASSUME NEW l \in Leaves, st[l] = "live", lkey[l] = wkey[w]
            PROVE  Leads(wn'[w], l)
        <5>1. Leads(wn[w], l) BY <4>1, <4>3 DEF InvFind
        <5>2. l \in Obj /\ l \notin Nodes /\ PathOf(l) = wkey[w]
          BY <4>3, PlaceFacts
        <5>3. Under(l, wn[w]) BY <4>1, <5>1, <5>2 DEF Leads
        <5>4. Leads(SlotFor(wn[w], l), l)
          BY <4>1, <4>2, <4>3, <5>2, <5>3 DEF InvCover
        <5> QED BY <4>1, <5>2, <5>4 DEF SlotFor
      <4> QED BY <4>1, <4>3 DEF Leads, Under, ShiftOf, PathOf, is_leaf
    <3> QED BY <3>1, <3>2, <3>3, <2>2, RemovePcs
  <2> QED BY <2>1, <2>2, <1>d
<1> QED BY <1>1, <1>2, StepKinds

\* Every writer step keeps the shape.
LEMMA ShapeStep ==
    ASSUME WParts, Shape, NEW w \in Writers, WriterNext(w)
    PROVE  WParts' /\ Gentle /\ Shape'
<1> USE DEF WParts, Shape
<1>1. WParts' /\ Gentle BY WPartsStep
<1>2. InvEdge' /\ InvCover' /\ InvUnique'
  <2>1. CASE ~TreeChange(w)
    <3>1. \A x \in Obj : st[x] = "live" => Headed(x) BY HeadSame
    <3> QED BY <2>1, <3>1, <1>1, StillStep, StillFrame
  <2>2. CASE InsertInSlot(w) BY <2>2, <1>1, InSlotShape
  <2>3. CASE InsertPublish(w) BY <2>3, <1>1, PublishShape
  <2>4. CASE RemoveRoot(w) \/ RemoveUnlink(w) BY <2>4, <1>1, UnlinkShape
  <2>5. CASE RemoveCollapse(w) BY <2>5, <1>1, CollapseShape
  <2> QED BY <2>1, <2>2, <2>3, <2>4, <2>5 DEF TreeChange
<1>3. InvFork' BY <1>1, ForkStep
<1>4. InvCall' BY CallStep
<1>5. InvLeaf' BY <1>1, LeafStep
<1>6. InvPlace' BY <1>1, PlaceStep
<1>7. InvFind' BY <1>1, <1>2, FindStep
<1> QED BY <1>1, <1>2, <1>3, <1>4, <1>5, <1>6, <1>7
-----------------------------------------------------------------------------
(* The readers: why a miss is right.                                       *)

\* A block that has left the tree keeps its links until it is recycled.
LEMMA GoneLinks ==
    ASSUME WParts, WParts', NEW w \in Writers, WriterNext(w),
           NEW n \in Nodes, st'[n] = "gone", NEW i \in Nibs
    PROVE  child'[n][i] = child[n][i]
<1> USE DEF WParts
<1>0. n \in Obj /\ n # NULL /\ n \notin Leaves /\ child[n] \in [Nibs -> Ptr]
  BY PtrAssumption DEF Obj, TypeOK
<1>1. st[n] \in {"live", "gone"} BY <1>0, WPartsStep DEF Gentle
<1>2. CASE InsertInSlot(w)
  <2>1. st'[n] = IF n = wk[w] THEN "live" ELSE st[n] BY <1>2, <1>0, InSlotFacts
  <2>2. wpar[w] # NULL => st[wpar[w]] = "live" BY <1>2, InSlotFacts DEF NullOr
  <2> QED BY <1>2, <2>1, <2>2, InSlotFacts
<1>3. CASE InsertPublish(w)
  <2>1. st'[n] = IF n = wm[w] \/ n = wk[w] THEN "live" ELSE st[n]
    BY <1>3, <1>0, PublishFacts
  <2>2. wpar[w] # NULL => st[wpar[w]] = "live" BY <1>3, PublishFacts DEF NullOr
  <2> QED BY <1>3, <2>1, <2>2, PublishFacts
<1>4. CASE RemoveRoot(w) \/ RemoveUnlink(w)
  <2>1. st'[n] = st[n] BY <1>4, <1>0, UnlinkFacts
  <2>2. wpar[w] # NULL => st[wpar[w]] = "live" BY <1>4, UnlinkFacts DEF NullOr
  <2> QED BY <1>4, <2>1, <2>2, UnlinkFacts
<1>5. CASE RemoveCollapse(w)
  <2>1. /\ st'[n] = IF n = wpar[w] THEN "gone" ELSE st[n]
        /\ wgp[w] # NULL => st[wgp[w]] = "live"
        /\ wgp[w] # wpar[w]
    BY <1>5, <1>0, CollapseFacts DEF NullOr
  <2> QED BY <1>5, <2>1, CollapseFacts
<1>6. CASE InsertClear(w) \/ InsertLink(w)
  <2>1. st[wm[w]] = "held" /\ wm[w] \in Nodes
    BY <1>6 DEF InsertClear, InsertLink, InvInsert, Is, TypeOK
  <2>2. n # wm[w] BY <2>1, <1>1
  <2>3. CASE InsertClear(w) BY <2>2, <2>3 DEF InsertClear, TypeOK
  <2>4. CASE InsertLink(w) BY <2>2, <2>4, LinkFacts
  <2> QED BY <1>6, <2>3, <2>4
<1>7. CASE RemoveFreeNode(w)
  <2>1. st'[n] = IF n = pending_del_nodes[wdel[w]] THEN "pool" ELSE st[n]
    BY <1>7, <1>0, RemoveFreeNodeFacts
  <2> QED BY <1>7, <2>1, RemoveFreeNodeFacts
<1>8. CASE ~TreeChange(w) /\ ~InsertClear(w) /\ ~InsertLink(w) /\ ~RemoveFreeNode(w)
  <2>1. child' = child
    BY <1>8 DEF WriterNext, CallInsert, CallRemove, Call, Run, Lock, Unlock,
         Insert, InsertAllocLeaf, InsertNoLeaf, InsertSetKey, InsertSetValue,
         InsertDescend, InsertExists, InsertAllocNode, InsertNoNode, InsertHead,
         Remove, RemoveEmpty, RemoveCount, RemoveFreeLeaf,
         RemoveDescend, RemoveAbsent, RemoveKeep, TreeChange, heap
  <2> QED BY <2>1
<1> QED BY <1>2, <1>3, <1>4, <1>5, <1>6, <1>7, <1>8 DEF TreeChange

\* A leaf becomes live only when no live leaf has its key.
LEMMA NewKey ==
    ASSUME WParts, WParts', Shape, NEW w \in Writers, WriterNext(w),
           NEW l \in Leaves, st'[l] = "live", st[l] # "live",
           NEW k \in Leaves, st[k] = "live"
    PROVE  lkey[k] # lkey[l]
<1> USE DEF WParts, Shape
<1>0. l \in Obj /\ l \notin Nodes /\ l # NULL BY PtrAssumption DEF Obj
<1>1. CASE InsertInSlot(w) /\ l = wk[w]
  <2>1. wpc[w] = "walk" /\ wn[w] = NULL /\ ~OnPath(wn[w], wkey[w])
    BY <1>1, PtrAssumption DEF InsertInSlot, OnPath
  <2>2. lkey[k] # wkey[w] BY <2>1, KeyIsNew
  <2> QED BY <1>1, <2>1, <2>2 DEF InvPlace
<1>2. CASE InsertPublish(w) /\ l \in {wk[w], wm[w]}
  <2>1. wpc[w] = "publish" BY <1>2 DEF InsertPublish
  <2>2. ~OnPath(wn[w], wkey[w]) /\ TopDiff(PathOf(wn[w]), wkey[w], wsh[w])
    BY <2>1 DEF InvPlace
  <2>3. lkey[k] # wkey[w] BY <2>1, <2>2, KeyIsNew DEF TopDiff
  <2>4. l = wk[w] BY <1>0, <1>2 DEF TypeOK
  <2> QED BY <2>1, <2>3, <2>4 DEF InvPlace
<1> QED BY <1>0, <1>1, <1>2, NewLive

\* A writer step leaves a reader on the way to the leaf of its key.
LEMMA MissNote ==
    ASSUME WParts, Shape, NEW w \in Writers, WriterNext(w),
           ReadersOK, UNCHANGED <<rpc, locs>>, NEW r \in Readers, Notes(r),
           FreshAt(r), ClosedAt(r), StepAt(r), MissAt(r)
    PROVE  MissAt(r)'
<1>p. WParts OBVIOUS
<1>q. WParts' /\ Gentle /\ Shape' BY <1>p, ShapeStep
<1>t. /\ TypeOK /\ TypeOK' /\ InvInsert /\ InvCover'
      /\ \A n \in Nodes : n \in Obj /\ n # NULL /\ n \in Ptr
      /\ \A l \in Leaves : l \in Obj /\ l # NULL /\ l \notin Nodes
      /\ NULL \in Ptr /\ NULL \notin Nodes
      /\ \A n \in Nodes, i \in Nibs : child[n][i] \in Ptr
      /\ \A x \in Obj, n \in Nodes : slice_index(PathOf(x), shift[n]) \in Nibs
      /\ \A x \in Ptr : x # NULL => x \in Obj
  BY <1>p, <1>q, LinkTypes, PlaceFacts DEF WParts, Shape
<1>0. /\ UNCHANGED <<rpc, rkey, rwrs1, rn, rnib, rres>>
      /\ rpc[r] \in Reading =>
            fresh'[r] = {x \in Obj : \/ st'[x] = "live"
                                     \/ st'[x] = "gone" /\ x \in fresh[r]}
      /\ rpc[r] # "idle" => valid'[r] = valid[r] \cup Current(rkey[r])'
      /\ rpc[r] = "idle" => valid'[r] = valid[r]
  BY DEF Notes, locs
<1>f. ASSUME rpc[r] \in Reading, ~Expired(r)'
      PROVE  ~Expired(r) /\ fresh[r] \subseteq fresh'[r]
  BY <1>f, <1>q, <1>t, FreshStays
<1>h. \A x \in Obj : st[x] # "held" => Headed(x) BY <1>t, HeadSame
<1>1. ASSUME rpc[r] # "idle"
      PROVE  /\ rkey[r] \in ReadKeys
             /\ \/ NULL \in valid'[r]
                \/ \E l \in Leaves : st'[l] = "live" /\ lkey'[l] = rkey[r]
  <2>1. rkey[r] \in ReadKeys BY <1>1 DEF MissAt
  <2>2. ASSUME ~\E l \in Leaves : st'[l] = "live" /\ lkey'[l] = rkey[r]
        PROVE  NULL \in valid'[r]
    <3>1. Current(rkey[r])' = {NULL} BY <2>2, <1>0 DEF Current
    <3> QED BY <3>1, <1>0, <1>1
  <2> QED BY <2>1, <2>2
<1>2. ASSUME rpc[r] \in Reading, ~Expired(r)',
             NULL \notin valid'[r], NEW l \in Leaves,
             st'[l] = "live", lkey'[l] = rkey[r]
      PROVE  /\ \A n \in Nodes : n \in fresh'[r] /\ Under(l, n)' =>
                    Leads(SlotFor(n, l), l)'
             /\ Walking(r) => Leads(rn[r], l)'
  <2>0. rpc[r] # "idle" BY <1>2 DEF Reading
  <2>1. ~Expired(r) /\ NULL \notin valid[r]
    BY <2>0, <1>0, <1>2, <1>f
  <2>2. lkey[l] = rkey[r] BY <1>2, <1>q DEF Gentle
  <2>3. st[l] = "live"
    <3>1. PICK k \in Leaves : st[k] = "live" /\ lkey[k] = rkey[r]
      BY <2>0, <2>1 DEF MissAt
    <3> QED BY <3>1, <2>2, <1>2, <1>p, <1>q, NewKey
  <2>4. /\ \A n \in Nodes : n \in fresh[r] /\ Under(l, n) =>
              Leads(SlotFor(n, l), l)
        /\ Walking(r) => Leads(rn[r], l)
    BY <2>1, <2>2, <2>3, <1>2 DEF MissAt
  \* On fresh blocks nothing changes for the reader.
  <2>5. ASSUME NEW p \in Ptr, p = NULL \/ p \in fresh[r]
        PROVE  /\ Under(l, p)' <=> Under(l, p)
               /\ Leads(p, l)' <=> Leads(p, l)
               /\ p \in Nodes => slice_index(PathOf(l), shift[p])'
                                   = slice_index(PathOf(l), shift[p])
    <3>1. Headed(l) BY <2>3, <1>h, <1>t
    <3>2. p \in Nodes => st[p] \in {"live", "gone"}
      BY <2>5, <1>2, <1>t DEF FreshAt
    <3>3. p \in Nodes => Headed(p) BY <3>2, <1>h, <1>t
    <3> QED BY <3>1, <3>3, <1>t, UnderSame
  <2>6. ASSUME NEW n \in Nodes, n \in fresh'[r], Under(l, n)'
        PROVE  Leads(SlotFor(n, l), l)'
    <3>1. CASE st'[n] = "live" BY <3>1, <2>6, <1>2, <1>t DEF InvCover
    <3>2. CASE st'[n] # "live"
      <4>1. st'[n] = "gone" /\ n \in fresh[r] BY <3>2, <2>6, <1>0, <1>2
      <4>2. PICK i \in Nibs : i = slice_index(PathOf(l), shift[n]) BY <1>t
      <4>3. PICK q \in Ptr : q = child[n][i] BY <1>t
      <4>4. Under(l, n) /\ slice_index(PathOf(l), shift[n])' = i
        BY <4>1, <4>2, <2>5, <2>6, <1>t
      <4>5. Leads(q, l) BY <4>1, <4>2, <4>3, <4>4, <2>4 DEF SlotFor
      <4>6. q = NULL \/ q \in fresh[r]
        BY <4>1, <4>3, <2>1, <1>2 DEF ClosedAt
      <4>7. Leads(q, l)' BY <4>5, <4>6, <2>5
      <4>8. SlotFor(n, l)' = q
        BY <4>1, <4>3, <4>4, <1>p, <1>q, GoneLinks DEF SlotFor
      <4> QED BY <4>7, <4>8 DEF Leads, Under
    <3> QED BY <3>1, <3>2
  <2>7. ASSUME Walking(r) PROVE Leads(rn[r], l)'
    <3>1. PICK p \in Ptr : p = rn[r] BY DEF ReadersOK
    <3>2. p = NULL \/ p \in fresh[r]
      BY <3>1, <2>1, <2>7, <1>2 DEF ClosedAt
    <3>3. Leads(p, l)' BY <3>1, <3>2, <2>4, <2>5, <2>7
    <3> QED BY <3>1, <3>3, <1>0 DEF Leads, Under
  <2> QED BY <2>6, <2>7
<1>3. ASSUME rpc[r] = "child", ~Expired(r)'
      PROVE  rnib[r] = slice_index(rkey[r], shift'[rn[r]])
  <2>1. rpc[r] \in Reading /\ Walking(r) BY <1>3 DEF Reading, Walking
  <2>2. ~Expired(r) BY <2>1, <1>3, <1>f
  <2>3. rn[r] \in Nodes BY <1>3 DEF StepAt
  <2>4. rn[r] \in fresh[r] BY <2>1, <2>2, <2>3, <1>t DEF ClosedAt
  <2>5. Headed(rn[r])
    BY <2>1, <2>3, <2>4, <1>h, <1>t DEF FreshAt
  <2>6. shift'[rn[r]] = shift[rn[r]]
    BY <2>3, <2>5, <1>t, <1>0 DEF Headed, ShiftOf
  <2> QED BY <2>2, <2>6, <1>3 DEF MissAt
<1>4. ASSUME rpc[r] = "ret" \/ (rpc[r] = "check" /\ ~Expired(r)')
      PROVE  rres[r] \in valid'[r]
  <2>1. rpc[r] # "idle" /\ rpc[r] \in Reading BY <1>4 DEF Reading
  <2>2. rpc[r] = "check" => ~Expired(r)
    BY <2>1, <1>4, <1>f
  <2>3. rres[r] \in valid[r] BY <2>2, <1>4 DEF MissAt
  <2> QED BY <2>1, <2>3, <1>0
<1>5. Walking(r)' <=> Walking(r) BY <1>0 DEF Walking
<1> QED BY <1>0, <1>1, <1>2, <1>3, <1>4, <1>5 DEF MissAt

LEMMA MissWriter ==
    ASSUME IInv, Shape, InvMiss, NEW w \in Writers, WriterNext(w), Seen
    PROVE  InvMiss'
<1>1. WParts /\ ReadersOK BY GetTypes DEF WParts, IInv
<1>2. UNCHANGED <<rpc, locs>> /\ \A r \in Readers : Notes(r)
  BY DEF Seen, Observed, Notes
<1>3. ASSUME NEW r \in Readers PROVE MissAt(r)'
  <2>1. FreshAt(r) /\ ClosedAt(r) /\ StepAt(r) /\ MissAt(r)
    BY DEF IInv, InvFresh, InvClosed, InvStep, InvMiss
  <2> QED BY <1>1, <1>2, <2>1, MissNote
<1> QED BY <1>3 DEF InvMiss

\* Shape and InvMiss when the writers' variables stay.
LEMMA ShapeFrame ==
    ASSUME Shape, UNCHANGED wvars
    PROVE  Shape'
<1> USE DEF wvars, heap, pools, pending, call, locals, aux
<1>1. InvEdge' /\ InvCover' /\ InvUnique'
  BY DEF Shape, InvEdge, InvCover, InvUnique, Leads, Under, SlotFor, ShiftOf,
         PathOf, is_leaf
<1>2. InvFork' BY DEF Shape, InvFork, Fixing
<1>3. InvCall' /\ InvLeaf' BY DEF Shape, InvCall, InvLeaf
<1>4. InvPlace' BY DEF Shape, InvPlace, OnPath, PathOf, is_leaf
<1>5. InvFind'
  BY DEF Shape, InvFind, Leads, Under, ShiftOf, PathOf, is_leaf
<1> QED BY <1>1, <1>2, <1>3, <1>4, <1>5 DEF Shape

\* A reader goes from one fresh block that leads to the leaf to the next.
LEMMA MissMoves ==
    ASSUME TypeOK, Shape, ReadersOK, NEW r \in Readers, GetCall(r) \/ GetRun(r),
           ClosedAt(r), StepAt(r), ValueAt(r), MissAt(r)
    PROVE  MissAt(r)'
<1> DEFINE
      Key1(u) ==
         /\ rpc[u] = "idle" => valid[u] = {}
         /\ rpc[u] # "idle" =>
             /\ rkey[u] \in ReadKeys
             /\ \/ NULL \in valid[u]
                \/ \E l \in Leaves : st[l] = "live" /\ lkey[l] = rkey[u]
      Sought(u, l) == /\ rpc[u] \in Reading /\ ~Expired(u) /\ NULL \notin valid[u]
                      /\ l \in Leaves /\ st[l] = "live" /\ lkey[l] = rkey[u]
      Way(u, l) == Sought(u, l) =>
             \A n \in Nodes : n \in fresh[u] /\ Under(l, n) =>
                Leads(SlotFor(n, l), l)
      Here(u, l) == Sought(u, l) /\ Walking(u) => Leads(rn[u], l)
      Nib(u) == rpc[u] = "child" /\ ~Expired(u) =>
             rnib[u] = slice_index(rkey[u], shift[rn[u]])
      Res(u) == /\ rpc[u] = "check" /\ ~Expired(u) => rres[u] \in valid[u]
                /\ rpc[u] = "ret" => rres[u] \in valid[u]
      Fine(u) == /\ Key1(u) /\ Nib(u) /\ Res(u)
                 /\ \A l \in Leaves : Way(u, l) /\ Here(u, l)
<1>d. /\ MissAt(r) <=> Fine(r)
      /\ MissAt(r)' <=> Fine(r)'
  BY DEF MissAt
<1>e. UNCHANGED <<root, child, path, shift, lkey, lval, st, remove_count>>
  BY GetKeeps
<1>u. /\ \A x, p : /\ Under(x, p)' <=> Under(x, p)
                   /\ SlotFor(p, x)' = SlotFor(p, x)
                   /\ Leads(p, x)' <=> Leads(p, x)
      /\ \A n \in Nodes : \A x : Leads(SlotFor(n, x), x)' <=> Leads(SlotFor(n, x), x)
  BY <1>e DEF Leads, Under, SlotFor, ShiftOf, PathOf, is_leaf
<1>2. Fine(r)'
  <2>0. Fine(r) BY <1>d
  <2>t. /\ TypeOK /\ rkey[r] \in Key /\ rn[r] \in Ptr
        /\ \A l \in Leaves : l \in Obj /\ l # NULL /\ l \notin Nodes /\ PathOf(l) = lkey[l]
        /\ NULL \notin Nodes /\ NULL \notin Leaves
    BY PlaceFacts, PtrAssumption DEF ReadersOK
  <2>f. \A v : rpc' = [rpc EXCEPT ![r] = v] => rpc'[r] = v
    BY DEF ReadersOK
  \* The steps that leave argument, attempt and values as they were.
  <2>1. ASSUME rkey'[r] = rkey[r], valid'[r] = valid[r],
               rpc[r] # "idle", rpc'[r] # "idle"
        PROVE  Key1(r)'
    BY <2>0, <2>1, <1>e
  <2>2. ASSUME rkey'[r] = rkey[r], valid'[r] = valid[r], fresh'[r] = fresh[r],
               rwrs1'[r] = rwrs1[r], rpc[r] \in Reading, NEW l \in Leaves
        PROVE  Way(r, l)' /\ (Sought(r, l)' => Sought(r, l))
    <3>1. Sought(r, l)' => Sought(r, l) BY <2>2, <1>e DEF Expired
    <3> QED BY <3>1, <2>0, <2>2, <1>u
  <2>3. CASE GetCall(r)
    <3>1. PICK key \in ReadKeys : /\ rkey' = [rkey EXCEPT ![r] = key]
                                  /\ valid' = [valid EXCEPT ![r] = Current(key)]
      BY <2>3 DEF GetCall
    <3>2. rkey'[r] = key /\ valid'[r] = Current(key) /\ rpc'[r] = "count"
      BY <3>1, <2>3, <2>f DEF GetCall, RGoto, ReadersOK
    <3>3. Key1(r)' BY <3>2, <1>e DEF Current
    <3> QED BY <3>2, <3>3 DEF Reading
  <2>4. CASE GetCount(r)
    <3>1. /\ rpc[r] = "count" /\ rpc'[r] = "root" /\ rkey' = rkey
          /\ valid' = valid /\ fresh'[r] = Live
      BY <2>4, <2>f DEF GetCount, RGoto, ReadersOK
    <3>2. ASSUME NEW l \in Leaves PROVE Way(r, l)'
      <4>1. ASSUME NEW n \in Nodes, n \in fresh'[r], Under(l, n), st[l] = "live"
            PROVE  Leads(SlotFor(n, l), l)
        <5>1. st[n] = "live" BY <3>1, <4>1 DEF Live
        <5> QED BY <5>1, <4>1, <2>t DEF Shape, InvCover
      <4> QED BY <4>1, <1>u, <1>e
    <3> QED BY <3>1, <3>2, <2>1 DEF Walking
  <2>5. CASE GetRoot(r)
    <3>1. /\ rpc[r] = "root" /\ rpc[r] \in Reading /\ rpc'[r] = "walk"
          /\ rn'[r] = root
          /\ UNCHANGED <<rkey, valid, fresh, rwrs1>>
      BY <2>5, <2>f DEF GetRoot, RGoto, ReadersOK, Reading
    <3>2. ASSUME NEW l \in Leaves, st[l] = "live" PROVE Leads(rn[r], l)'
      <4>1. Leads(root, l) BY <3>2, <2>t DEF Shape, InvCover
      <4> QED BY <4>1, <3>1, <1>e DEF Leads, Under, ShiftOf, PathOf, is_leaf
    <3>3. \A l \in Leaves : Way(r, l)' /\ Here(r, l)'
      BY <3>1, <3>2, <2>2, <1>e
    <3> QED BY <3>1, <3>3, <2>1
  <2>6. CASE GetShift(r) \/ GetMatch(r)
    <3>1. /\ rpc[r] = "walk" /\ rpc[r] \in Reading /\ Walking(r)
          /\ rpc'[r] \in {"child", "value"}
          /\ UNCHANGED <<rkey, valid, fresh, rwrs1, rn>>
          /\ rpc'[r] = "child" => rnib'[r] = slice_index(rkey[r], shift[rn[r]])
      BY <2>6, <2>f DEF GetShift, GetMatch, RGoto, ReadersOK, Reading,
         Walking, locs
    <3>2. ASSUME NEW l \in Leaves PROVE Way(r, l)' /\ Here(r, l)'
      <4>1. Way(r, l)' /\ (Sought(r, l)' => Sought(r, l)) BY <3>1, <2>2
      <4>2. Sought(r, l) => Leads(rn[r], l) BY <3>1, <2>0
      <4>3. Leads(rn[r], l)' <=> Leads(rn[r], l)
        BY <3>1, <1>e DEF Leads, Under, ShiftOf, PathOf, is_leaf
      <4> QED BY <4>1, <4>2, <4>3
    <3>3. Nib(r)' BY <3>1, <1>e
    <3> QED BY <3>1, <3>2, <3>3, <2>1
  <2>7. CASE GetChild(r)
    <3>1. /\ rpc[r] = "child" /\ rpc[r] \in Reading /\ Walking(r)
          /\ rpc'[r] = "walk"
          /\ rn'[r] = child[rn[r]][rnib[r]]
          /\ UNCHANGED <<rkey, valid, fresh, rwrs1>>
      BY <2>7, <2>f DEF GetChild, RGoto, ReadersOK, Reading, Walking
    <3>2. ASSUME NEW l \in Leaves, Sought(r, l) PROVE Leads(rn[r], l)'
      <4>1. /\ rn[r] \in Nodes /\ rn[r] \in fresh[r]
            /\ rnib[r] = slice_index(rkey[r], shift[rn[r]])
        BY <3>1, <3>2, <2>0, <2>t DEF StepAt, ClosedAt
      <4>2. Leads(rn[r], l) BY <3>1, <3>2, <2>0
      <4>3. Under(l, rn[r]) BY <4>1, <4>2, <2>t DEF Leads
      <4>4. Leads(SlotFor(rn[r], l), l) BY <4>1, <4>3, <3>2, <2>0
      <4>5. SlotFor(rn[r], l) = rn'[r] BY <4>1, <3>1, <3>2, <2>t DEF SlotFor
      <4>6. Leads(rn'[r], l) BY <4>4, <4>5
      <4> QED BY <4>6, <1>e DEF Leads, Under, ShiftOf, PathOf, is_leaf
    <3>3. \A l \in Leaves : Way(r, l)' /\ Here(r, l)'
      BY <3>1, <3>2, <2>2
    <3> QED BY <3>1, <3>3, <2>1
  <2>8. CASE GetMiss(r) \/ GetValue(r) \/ GetDone(r)
    <3>1. /\ rpc[r] # "idle" /\ rpc[r] \in Reading
          /\ rpc'[r] \in {"check", "ret"}
          /\ UNCHANGED <<rkey, valid, fresh, rwrs1>>
      BY <2>8, <2>f DEF GetMiss, GetValue, GetDone, RGoto, ReadersOK,
         Reading, locs
    <3>2. \A l \in Leaves : Way(r, l)' /\ Here(r, l)'
      BY <3>1, <2>2 DEF Walking
    <3>3. Expired(r)' <=> Expired(r) BY <3>1, <1>e DEF Expired
    <3>4. Res(r)'
      <4>1. CASE GetMiss(r)
        <5>1. /\ rpc[r] = "walk" /\ rpc'[r] = "check" /\ rres'[r] = NULL
              /\ rn[r] = NULL \/ (rn[r] \in Leaves /\ lkey[rn[r]] # rkey[r])
          BY <4>1, <2>f DEF GetMiss, RGoto, ReadersOK, is_leaf
        <5>2. ASSUME ~Expired(r), NULL \notin valid[r] PROVE FALSE
          <6>1. PICK l \in Leaves : st[l] = "live" /\ lkey[l] = rkey[r]
            BY <5>1, <5>2, <2>0
          <6>2. Leads(rn[r], l) BY <5>1, <5>2, <6>1, <3>1, <2>0 DEF Walking
          <6> QED BY <5>1, <6>1, <6>2, <2>t DEF Leads, Under
        <5> QED BY <5>1, <5>2, <3>1, <3>3
      <4>2. CASE GetValue(r)
        <5>1. /\ rpc[r] = "value" /\ rpc'[r] = "check"
              /\ rres'[r] = lval[rn[r]]
          BY <4>2, <2>f DEF GetValue, RGoto, ReadersOK
        <5>2. ASSUME ~Expired(r) PROVE lval[rn[r]] \in valid[r]
          <6>1. rn[r] \in Leaves BY <5>1 DEF StepAt
          <6>2. rn[r] \in fresh[r]
            BY <5>1, <5>2, <6>1, <3>1, <2>t DEF ClosedAt, Walking
          <6>3. lkey[rn[r]] = rkey[r] BY <5>1, <5>2 DEF ValueAt
          <6> QED BY <6>1, <6>2, <6>3, <3>1 DEF ValueAt
        <5> QED BY <5>1, <5>2, <3>1, <3>3
      <4>3. CASE GetDone(r)
        <5>1. rpc[r] = "check" /\ ~Expired(r) /\ rpc'[r] = "ret" /\ rres' = rres
          BY <4>3, <2>f DEF GetDone, RGoto, locs
        <5> QED BY <5>1, <3>1, <2>0
      <4> QED BY <2>8, <4>1, <4>2, <4>3
    <3> QED BY <3>1, <3>2, <3>4, <2>1
  <2>9. CASE GetRestart(r)
    <3>1. rpc[r] = "check" /\ rpc'[r] = "count" /\ UNCHANGED <<rkey, valid>>
      BY <2>9, <2>f DEF GetRestart, RGoto
    <3> QED BY <3>1, <2>1 DEF Reading
  <2>10. CASE GetReturn(r)
    <3>1. rpc'[r] = "idle" /\ valid'[r] = {}
      BY <2>10, <2>f DEF GetReturn, RGoto, ReadersOK
    <3> QED BY <3>1 DEF Reading
  <2> QED BY <2>3, <2>4, <2>5, <2>6, <2>7, <2>8, <2>9, <2>10 DEF GetRun
<1> QED BY <1>2, <1>d

\* A get that rests.
LEMMA MissRests ==
    ASSUME UNCHANGED <<root, child, path, shift, lkey, lval, st, remove_count>>,
           NEW u \in Readers, Rests(u), MissAt(u)
    PROVE  MissAt(u)'
<1>1. /\ \A x, p : Leads(p, x)' <=> Leads(p, x)
      /\ \A x, p : Under(x, p)' <=> Under(x, p)
      /\ \A n \in Nodes : \A x : Leads(SlotFor(n, x), x)' <=> Leads(SlotFor(n, x), x)
      /\ \A x : Leads(rn[u], x)' <=> Leads(rn[u], x)
  BY DEF Leads, Under, SlotFor, ShiftOf, PathOf, is_leaf, Rests
<1>2. (Expired(u)' <=> Expired(u)) /\ (Walking(u)' <=> Walking(u))
  BY DEF Expired, Walking, Rests
<1> HIDE DEF Leads, Under, SlotFor
<1> QED BY <1>1, <1>2 DEF MissAt, Rests

LEMMA MissReader ==
    ASSUME IInv, Shape, InvMiss, NEW r \in Readers, GetCall(r) \/ GetRun(r)
    PROVE  InvMiss'
<1>1. TypeOK /\ ReadersOK BY GetTypes DEF IInv
<1>2. /\ UNCHANGED <<root, child, path, shift, lkey, lval, st, remove_count>>
      /\ \A u \in Readers : u # r => Rests(u)
  BY <1>1, GetKeeps
<1>3. ASSUME NEW u \in Readers PROVE MissAt(u)'
  <2>1. ClosedAt(u) /\ StepAt(u) /\ ValueAt(u) /\ MissAt(u)
    BY DEF IInv, InvClosed, InvStep, InvValue, InvMiss
  <2>2. CASE u # r BY <1>2, <2>1, <2>2, MissRests
  <2>3. CASE u = r BY <1>1, <2>1, <2>3, MissMoves
  <2> QED BY <2>2, <2>3
<1> QED BY <1>3 DEF InvMiss

LEMMA InitShape ==
    ASSUME GetInit
    PROVE  Shape /\ InvMiss
<1>0. /\ NULL \notin Obj /\ \A n \in Nodes : n \in Obj
      /\ \A l \in Leaves : l \in Obj
  BY PtrAssumption DEF Obj
<1>1. /\ \A x \in Obj : st[x] = "raw"
      /\ \A w \in Writers : wpc[w] = "idle"
      /\ \A r \in Readers : rpc[r] = "idle" /\ valid[r] = {}
  BY DEF GetInit, Init
<1>2. InvEdge /\ InvCover /\ InvUnique /\ InvFork
  BY <1>0, <1>1 DEF InvEdge, InvCover, InvUnique, InvFork
<1>3. InvCall /\ InvLeaf /\ InvPlace /\ InvFind
  BY <1>0, <1>1 DEF InvCall, InvLeaf, InvPlace, InvFind, InsertPC, RemovePC
<1>4. InvMiss BY <1>1 DEF InvMiss, MissAt, Reading
<1> QED BY <1>2, <1>3, <1>4 DEF Shape

\* For every number of threads, every set of blocks, keys and values, and
\* every grace period: the tree that critnib_insert and critnib_remove leave
\* behind at each of their stores has its shape, and a critnib_get within its
\* grace period is on the way to the leaf of its key.
THEOREM ShapeHolds == Spec => []ShapeInv
<1>1. GetInit => ShapeInv BY InitIInv, InitShape DEF ShapeInv
<1>2. ShapeInv /\ [Next]_vars => ShapeInv'
  <2> SUFFICES ASSUME ShapeInv, [Next]_vars PROVE ShapeInv' OBVIOUS
  <2> USE DEF ShapeInv
  <2>w. WParts BY DEF WParts, IInv, GetTypeOK
  <2>1. ASSUME NEW w \in Writers, WriterNext(w), Seen PROVE ShapeInv'
    BY <2>1, <2>w, WriterStep, ShapeStep, MissWriter
  <2>2. ASSUME NEW r \in Readers, GetCall(r) \/ GetRun(r) PROVE ShapeInv'
    <3>1. UNCHANGED wvars
      BY <2>2 DEF GetRun, GetCall, GetCount, GetRoot, GetShift,
         GetChild, GetMiss, GetMatch, GetValue, GetRestart, GetDone, GetReturn
    <3> QED BY <2>2, <3>1, ReaderStep, MissReader, ShapeFrame
  <2>3. ASSUME UNCHANGED vars PROVE ShapeInv'
    <3>1. /\ UNCHANGED wvars
          /\ UNCHANGED <<rpc, rkey, rwrs1, rn, rnib, rres, fresh, valid>>
      BY <2>3 DEF vars, rvars, locs
    <3>2. UNCHANGED <<root, child, path, shift, lkey, lval, st, remove_count>>
      BY <3>1 DEF wvars, heap, pending, aux
    <3>3. InvMiss' BY <3>1, <3>2, MissRests DEF InvMiss, Rests
    <3> QED BY <2>3, <3>1, <3>3, StutterStep, ShapeFrame
  <2> QED BY <2>1, <2>2, <2>3 DEF Next
<1> QED BY <1>1, <1>2, PTL DEF Spec

\* A critnib_get that passes the second load of remove_count returns a value
\* its key had at some moment since the call, NULL only if the key was absent
\* at one: no insert, remove or reuse of blocks under way can hide a key that
\* was there all the time, nor show a value it never had.
THEOREM GetIsCurrent == Spec => []GetCurrent
<1>1. ShapeInv => GetCurrent BY DEF ShapeInv, InvMiss, MissAt, GetCurrent
<1> QED BY <1>1, ShapeHolds, PTL
-----------------------------------------------------------------------------
(* critnib implements the concurrent dictionary of ConcurrentMap: the      *)
(* refinement ImplementsMap of CritnibGet, step by step.                   *)
(*                                                                         *)
(* Find, which the refinement mapping looks keys up with, is a recursive   *)
(* function over the levels of the tree.  FindSays reduces it, by          *)
(* induction over the levels, to the live leaves: Find(key) is the value   *)
(* of the live leaf that has the key, and NULL if there is none.  After    *)
(* that a step is described by what it does to the live leaves.            *)

\* One step of the lookup that Find makes.
Deeper(n, key) == IF n \in Nodes THEN child[n][slice_index(key, shift[n])] ELSE n

\* f is the lookup of key, as far as level k.
Walk(f, key, k) == f = [d \in 0 .. k |-> IF d = 0 THEN root
                                         ELSE Deeper(f[d-1], key)]

\* The recursive definition of Find does define a function.
LEMMA WalkExists ==
    ASSUME NEW key
    PROVE  \E f : Walk(f, key, LEVELS)
<1> DEFINE T == {k \in Nat : ~ \E f : Walk(f, key, k)}
<1>0. T \subseteq Nat /\ LEVELS \in Nat BY SizeAssumption
<1>1. SUFFICES ASSUME T # {} PROVE FALSE BY <1>0
<1>2. PICK k \in T : \A e \in T : k <= e BY <1>0, <1>1, LeastNat
<1>3. k # 0
  <2> DEFINE f == [d \in 0 .. 0 |-> root]
  <2>1. Walk(f, key, 0) BY DEF Walk
  <2> QED BY <2>1
<1>4. k-1 \in Nat /\ k-1 \notin T BY <1>2, <1>3
<1>5. PICK g : Walk(g, key, k-1) BY <1>4
<1> DEFINE f == [d \in 0 .. k |-> IF d = 0 THEN root ELSE Deeper(g[d-1], key)]
<1>6. \A d \in 0 .. k-1 : f[d] = g[d] BY <1>5, <1>4 DEF Walk
<1>7. ASSUME NEW d \in 0 .. k
      PROVE  f[d] = IF d = 0 THEN root ELSE Deeper(f[d-1], key)
  <2>1. CASE d = 0 BY <2>1
  <2>2. CASE d # 0
    <3>1. d-1 \in 0 .. k-1 BY <2>2, <1>4
    <3>2. f[d-1] = g[d-1] BY <3>1, <1>6
    <3>3. f[d] = Deeper(g[d-1], key) BY <2>2
    <3> QED BY <2>2, <3>2, <3>3
  <2> QED BY <2>1, <2>2
<1>8. Walk(f, key, k) BY <1>7 DEF Walk
<1> QED BY <1>8

LEMMA WalkIs ==
    ASSUME NEW key, NEW f, Walk(f, key, LEVELS)
    PROVE  /\ f[0] = root
           /\ \A d \in 0 .. LEVELS : d # 0 => f[d] = Deeper(f[d-1], key)
<1>1. \A d \in 0 .. LEVELS : f[d] = IF d = 0 THEN root ELSE Deeper(f[d-1], key)
  <2> DEFINE g == [d \in 0 .. LEVELS |-> IF d = 0 THEN root ELSE Deeper(f[d-1], key)]
  <2>1. \A d \in 0 .. LEVELS : g[d] = IF d = 0 THEN root ELSE Deeper(f[d-1], key)
    OBVIOUS
  <2>2. f = g BY DEF Walk
  <2> HIDE DEF g
  <2> QED BY <2>1, <2>2
<1>2. 0 \in 0 .. LEVELS BY SizeAssumption
<1> QED BY <1>1, <1>2

\* Find reads its result off the end of the lookup.
LEMMA FindWalks ==
    ASSUME NEW key
    PROVE  \E f : /\ Walk(f, key, LEVELS)
                  /\ Find(key) = IF f[LEVELS] \in Leaves /\ lkey[f[LEVELS]] = key
                                 THEN lval[f[LEVELS]] ELSE NULL
<1>1. PICK f : Walk(f, key, LEVELS) BY WalkExists
<1> DEFINE h == CHOOSE at : at = [d \in 0 .. LEVELS |->
                   IF d = 0 THEN root
                   ELSE IF at[d-1] \in Nodes
                        THEN child[at[d-1]][slice_index(key, shift[at[d-1]])]
                        ELSE at[d-1]]
<1>2. Walk(h, key, LEVELS) BY <1>1 DEF Walk, Deeper
<1>3. Find(key) = IF h[LEVELS] \in Leaves /\ lkey[h[LEVELS]] = key
                  THEN lval[h[LEVELS]] ELSE NULL
  BY DEF Find
<1> QED BY <1>2, <1>3

\* l is the leaf of the key.
LeafOf(key, l) == l \in Leaves /\ st[l] = "live" /\ lkey[l] = key

FindFacts ==
    \A key \in Key :
       /\ \A l \in Leaves : LeafOf(key, l) => Find(key) = lval[l]
       /\ (\A l \in Leaves : ~LeafOf(key, l)) => Find(key) = NULL

\* LEVELS steps from the root lead to a leaf, and to the leaf of the key if
\* it has one: a lookup stays on live blocks, positions decrease, and every
\* block it comes to leads to the leaf.
LEMMA FindSays == TypeOK /\ InvTree /\ InvEdge /\ InvCover => FindFacts
<1> SUFFICES ASSUME TypeOK, InvTree, InvEdge, InvCover, NEW key \in Key
      PROVE  /\ \A l \in Leaves : LeafOf(key, l) => Find(key) = lval[l]
             /\ (\A l \in Leaves : ~LeafOf(key, l)) => Find(key) = NULL
  BY DEF FindFacts
<1>t. /\ LEVELS \in Nat \ {0}
      /\ root \in Ptr /\ NULL \notin Nodes /\ NULL \notin Leaves
      /\ \A n \in Nodes, i \in Nibs : child[n][i] \in Ptr
      /\ \A x \in Ptr : x # NULL => x \in Obj
      /\ \A n \in Nodes : /\ shift[n] \in Digits /\ shift[n] \in Int
                          /\ shift[n] >= 0 /\ ShiftOf(n) = shift[n] /\ n \in Obj
                          /\ slice_index(key, shift[n]) \in Nibs
      /\ \A l \in Leaves : l \in Obj /\ l \notin Nodes /\ PathOf(l) = lkey[l]
  BY LinkTypes, PlaceFacts, SizeAssumption, PtrAssumption, KeyFacts
<1>1. PICK f : /\ Walk(f, key, LEVELS)
               /\ Find(key) = IF f[LEVELS] \in Leaves /\ lkey[f[LEVELS]] = key
                              THEN lval[f[LEVELS]] ELSE NULL
  BY FindWalks
<1>2. /\ f[0] = root
      /\ \A d \in 0 .. LEVELS : d # 0 => f[d] = Deeper(f[d-1], key)
  BY <1>1, WalkIs
<1> DEFINE Good(d) == /\ f[d] \in Ptr /\ NullOr(f[d], "live")
                      /\ f[d] \in Nodes => shift[f[d]] + d < LEVELS
                      /\ \A l \in Leaves : LeafOf(key, l) => Leads(f[d], l)
           T == {d \in 0 .. LEVELS : ~Good(d)}
<1>3. Good(0)
  <2>1. \A l \in Leaves : LeafOf(key, l) => Leads(root, l)
    BY <1>t DEF LeafOf, InvCover
  <2>2. root \in Nodes => shift[root] + 0 < LEVELS BY <1>t DEF Digits
  <2> QED BY <1>2, <1>t, <2>1, <2>2 DEF InvTree
<1>4. ASSUME NEW d \in 0 .. LEVELS, d # 0, Good(d-1)
      PROVE  Good(d)
  <2>1. PICK n : n = f[d-1] OBVIOUS
  <2>2. f[d] = Deeper(n, key) BY <1>2, <1>4, <2>1
  <2>3. CASE n \notin Nodes BY <1>4, <2>1, <2>2, <2>3 DEF Deeper
  <2>4. CASE n \in Nodes
    <3>1. PICK i \in Nibs : i = slice_index(key, shift[n]) BY <2>4, <1>t
    <3>2. PICK c \in Ptr : c = child[n][i] BY <2>4, <1>t
    <3>3. f[d] = c BY <2>2, <2>4, <3>1, <3>2 DEF Deeper
    <3>4. st[n] = "live" /\ shift[n] + (d-1) < LEVELS
      BY <1>4, <1>t, <2>1, <2>4 DEF NullOr
    <3>5. NullOr(c, "live") BY <2>4, <3>2, <3>4 DEF InvTree
    <3>6. c \in Nodes => shift[c] + d < LEVELS
      <4>1. ASSUME c \in Nodes PROVE shift[c] + d < LEVELS
        <5>1. Under(c, n) BY <4>1, <2>4, <3>2, <3>4, <1>t DEF InvEdge
        <5>2. shift[c] < shift[n] BY <5>1, <4>1, <1>t DEF Under
        <5> QED BY <5>2, <3>4, <4>1, <2>4, <1>t
      <4> QED BY <4>1
    <3>7. ASSUME NEW l \in Leaves, LeafOf(key, l) PROVE Leads(c, l)
      <4>1. Leads(n, l) BY <1>4, <2>1, <3>7
      <4>2. Under(l, n) BY <4>1, <2>4, <3>7, <1>t DEF Leads
      <4>3. Leads(SlotFor(n, l), l)
        BY <4>2, <2>4, <3>4, <3>7, <1>t DEF InvCover, LeafOf
      <4> QED BY <4>3, <3>1, <3>2, <3>7, <1>t DEF SlotFor, LeafOf
    <3> QED BY <3>3, <3>5, <3>6, <3>7
  <2> QED BY <2>3, <2>4
<1>5. Good(LEVELS)
  <2>1. ASSUME T # {} PROVE FALSE
    <3>1. T \subseteq Nat OBVIOUS
    <3>2. PICK d \in T : \A e \in T : d <= e BY <2>1, <3>1, LeastNat
    <3>3. d # 0 /\ d \in 0 .. LEVELS /\ ~Good(d) BY <3>2, <1>3
    <3>4. d-1 \in 0 .. LEVELS /\ d-1 \notin T BY <3>2, <3>3, <1>t
    <3>5. Good(d-1) BY <3>4
    <3> QED BY <3>3, <3>5, <1>4
  <2> QED BY <2>1, <1>t
<1>6. PICK e : e = f[LEVELS] OBVIOUS
<1>7. /\ e \in Ptr /\ NullOr(e, "live") /\ e \notin Nodes
      /\ \A l \in Leaves : LeafOf(key, l) => e = l
  <2>1. e \notin Nodes BY <1>5, <1>6, <1>t
  <2> QED BY <2>1, <1>5, <1>6 DEF Leads, Under
<1>8. ASSUME NEW l \in Leaves, LeafOf(key, l) PROVE Find(key) = lval[l]
  BY <1>1, <1>6, <1>7, <1>8 DEF LeafOf
<1>9. ASSUME \A l \in Leaves : ~LeafOf(key, l) PROVE Find(key) = NULL
  <2>1. ~(e \in Leaves /\ lkey[e] = key)
    BY <1>7, <1>9, <1>t DEF LeafOf, NullOr
  <2> QED BY <2>1, <1>1, <1>6
<1> QED BY <1>8, <1>9

\* What the readers' auxiliary Current says of a key is what Find says.
FindIs == /\ FindFacts
          /\ \A key \in Key : Current(key) = {Find(key)}

LEMMA CurrentIs ==
    TypeOK /\ InvTree /\ InvEdge /\ InvCover /\ InvUnique => FindIs
<1> SUFFICES ASSUME TypeOK, InvTree, InvEdge, InvCover, InvUnique, NEW key \in Key
      PROVE  Current(key) = {Find(key)}
  BY FindSays DEF FindIs
<1>1. FindFacts BY FindSays
<1> DEFINE here == {lval[l] : l \in {x \in Leaves : st[x] = "live"
                                                   /\ lkey[x] = key}}
<1>2. CASE \E l \in Leaves : LeafOf(key, l)
  <2>1. PICK l \in Leaves : LeafOf(key, l) BY <1>2
  <2>2. ASSUME NEW k \in Leaves, LeafOf(key, k) PROVE k = l
    <3>1. /\ k \in Obj /\ l \in Obj
          /\ PathOf(k) = PathOf(l) /\ ShiftOf(k) = ShiftOf(l)
      BY <2>1, <2>2, PlaceFacts DEF LeafOf
    <3> QED BY <3>1, <2>1, <2>2 DEF LeafOf, InvUnique
  <2>3. here = {lval[l]} BY <2>1, <2>2 DEF LeafOf
  <2>4. Find(key) = lval[l] BY <2>1, <1>1 DEF FindFacts
  <2> QED BY <2>3, <2>4, <1>1 DEF Current
<1>3. CASE \A l \in Leaves : ~LeafOf(key, l)
  <2>1. here = {} BY <1>3 DEF LeafOf
  <2>2. Find(key) = NULL BY <1>3, <1>1 DEF FindFacts
  <2> QED BY <2>1, <2>2, <1>1 DEF Current
<1> QED BY <1>2, <1>3

-----------------------------------------------------------------------------
(* The refinement mapping, by name.                                        *)

TheMap   == [k \in Keys |-> Find(k)]
TheCall  == [w \in Writers |-> IF wpc[w] = "idle" THEN NULL ELSE
               [op |-> wop[w], key |-> wkey[w], value |-> wval[w]]]
TheRes   == [w \in Writers |-> CASE wpc[w] = "unlock" -> wret[w]
                                 [] wpc[w] = "fix" -> lval[wn[w]]
                                 [] OTHER -> "none"]
TheGet   == [r \in Readers |-> IF rpc[r] = "idle" THEN NULL ELSE rkey[r]]
TheGot   == [r \in Readers |-> IF rpc[r] = "ret" THEN rres[r] ELSE "none"]

\* Everything known before and after a step.
Before == /\ ShapeInv /\ WParts /\ Shape /\ InvMiss /\ FindIs

LEMMA ShapeKnows == ShapeInv => Before
  BY CurrentIs DEF Before, ShapeInv, WParts, IInv, GetTypeOK, Shape

LEMMA StepKnows ==
    ASSUME ShapeInv, NEW w \in Writers, WriterNext(w), Seen
    PROVE  Before /\ Before' /\ Gentle
<1>1. Before BY ShapeKnows
<1>2. ShapeInv'
  BY <1>1, WriterStep, ShapeStep, MissWriter DEF Before, ShapeInv
<1>3. (ShapeInv => Before)' BY ShapeKnows, PTL
<1> QED BY <1>1, <1>2, <1>3, ShapeStep DEF Before

\* The dictionary changes with the live leaves only.
LEMMA MapSame ==
    ASSUME FindFacts, FindFacts',
           \A l \in Leaves : st'[l] = "live" <=> st[l] = "live",
           \A l \in Leaves : st[l] = "live" =>
              lkey'[l] = lkey[l] /\ lval'[l] = lval[l]
    PROVE  TheMap' = TheMap
<1>1. ASSUME NEW key \in Key PROVE Find(key)' = Find(key)
  <2>1. CASE \E l \in Leaves : LeafOf(key, l)
    <3>1. PICK l \in Leaves : LeafOf(key, l) BY <2>1
    <3>2. LeafOf(key, l)' BY <3>1 DEF LeafOf
    <3> QED BY <3>1, <3>2 DEF FindFacts, LeafOf
  <2>2. CASE \A l \in Leaves : ~LeafOf(key, l)
    <3>1. \A l \in Leaves : ~LeafOf(key, l)' BY <2>2 DEF LeafOf
    <3> QED BY <2>2, <3>1 DEF FindFacts
  <2> QED BY <2>1, <2>2
<1> QED BY <1>1, KeyFacts DEF TheMap

LEMMA MapStays ==
    ASSUME Before, Before', Gentle, NEW w \in Writers, WriterNext(w),
           ~InsertInSlot(w), ~InsertPublish(w), ~RemoveRoot(w), ~RemoveUnlink(w)
    PROVE  TheMap' = TheMap
<1> USE DEF Before, WParts
<1>0. \A l \in Leaves : l \in Obj /\ l \notin Nodes BY PtrAssumption DEF Obj
<1>1. \A l \in Leaves : st'[l] = "live" <=> st[l] = "live"
  <2>1. CASE RemoveCollapse(w) BY <2>1, <1>0, CollapseFacts
  <2>2. CASE ~TreeChange(w) BY <2>2, <1>0, StillStep DEF Still
  <2> QED BY <2>1, <2>2 DEF TreeChange
<1>2. \A l \in Leaves : st[l] = "live" => lkey'[l] = lkey[l] /\ lval'[l] = lval[l]
  BY <1>1 DEF Gentle
<1> QED BY <1>1, <1>2, MapSame DEF FindIs

\* The store that links its leaf is where an insert takes effect.
LEMMA MapGains ==
    ASSUME Before, Before', Gentle, NEW w \in Writers, WriterNext(w),
           InsertInSlot(w) \/ InsertPublish(w)
    PROVE  /\ wkey[w] \in Keys
           /\ TheMap' = [TheMap EXCEPT ![wkey[w]] = wval[w]]
           /\ TheMap[wkey[w]] = NULL
<1> USE DEF Before, WParts
<1>0. \A l \in Leaves : l \in Obj /\ l \notin Nodes BY PtrAssumption DEF Obj
<1>1. wpc[w] \in {"walk", "publish"} BY DEF InsertInSlot, InsertPublish
<1>2. PICK k, key, v : k = wk[w] /\ key = wkey[w] /\ v = wval[w] OBVIOUS
<1>3. /\ k \in Leaves /\ st[k] = "held" /\ lkey[k] = key /\ lval[k] = v
      /\ key \in Keys /\ key \in Key
      /\ \A l \in Leaves : st'[l] = "live" <=> (st[l] = "live" \/ l = k)
  <2>1. lkey[k] = key /\ lval[k] = v BY <1>1, <1>2 DEF Shape, InvPlace
  <2>2. key \in Keys BY <1>1, <1>2 DEF Shape, InvCall
  <2>3. CASE InsertInSlot(w)
    BY <2>1, <2>2, <2>3, <1>0, <1>2, InSlotFacts, KeyFacts
  <2>4. CASE InsertPublish(w)
    BY <2>1, <2>2, <2>4, <1>0, <1>2, PublishFacts, KeyFacts
  <2> QED BY <2>3, <2>4
<1>4. \A l \in Leaves : st[l] = "live" => lkey[l] # key
  BY <1>3, NewKey
<1>5. \A l \in Leaves : st'[l] = "live" => lkey'[l] = lkey[l] /\ lval'[l] = lval[l]
  BY DEF Gentle
<1>6. Find(key) = NULL
  <2>1. \A l \in Leaves : ~LeafOf(key, l) BY <1>4 DEF LeafOf
  <2> QED BY <2>1, <1>3 DEF FindIs, FindFacts
<1>7. Find(key)' = v
  <2>1. LeafOf(key, k)' BY <1>3, <1>5 DEF LeafOf
  <2> QED BY <2>1, <1>3, <1>5 DEF FindIs, FindFacts
<1>8. ASSUME NEW j \in Keys, j # key PROVE Find(j)' = Find(j)
  <2>0. j \in Key BY KeyFacts
  <2>1. CASE \E l \in Leaves : LeafOf(j, l)
    <3>1. PICK l \in Leaves : LeafOf(j, l) BY <2>1
    <3>2. LeafOf(j, l)' BY <3>1, <1>3, <1>5 DEF LeafOf
    <3> QED BY <3>1, <3>2, <2>0, <1>5 DEF FindIs, FindFacts, LeafOf
  <2>2. CASE \A l \in Leaves : ~LeafOf(j, l)
    <3>1. \A l \in Leaves : ~LeafOf(j, l)' BY <2>2, <1>3, <1>5, <1>8 DEF LeafOf
    <3> QED BY <2>0, <2>2, <3>1 DEF FindIs, FindFacts
  <2> QED BY <2>1, <2>2
<1> QED BY <1>2, <1>3, <1>6, <1>7, <1>8 DEF TheMap

\* The store that unlinks its leaf is where a remove takes effect.
LEMMA MapLoses ==
    ASSUME Before, Before', Gentle, NEW w \in Writers, WriterNext(w),
           RemoveRoot(w) \/ RemoveUnlink(w)
    PROVE  /\ wkey[w] \in Keys
           /\ TheMap' = [TheMap EXCEPT ![wkey[w]] = NULL]
           /\ TheMap[wkey[w]] = lval[wn[w]]
           /\ lval' = lval
<1> USE DEF Before, WParts
<1>0. \A l \in Leaves : l \in Obj /\ l \notin Nodes BY PtrAssumption DEF Obj
<1>1. wpc[w] = "find" /\ lval' = lval
  BY DEF RemoveRoot, RemoveUnlink, Found, heap
<1>2. PICK k, key : k = wn[w] /\ key = wkey[w] OBVIOUS
<1>3. /\ k \in Leaves /\ st[k] = "live" /\ lkey[k] = key
      /\ key \in Keys /\ key \in Key
      /\ \A l \in Leaves : st'[l] = "live" <=> (st[l] = "live" /\ l # k)
  <2>1. key \in Keys BY <1>1, <1>2 DEF Shape, InvCall
  <2> QED BY <2>1, <1>0, <1>2, UnlinkFacts, KeyFacts
<1>4. ASSUME NEW l \in Leaves, st[l] = "live", lkey[l] = key PROVE l = k
  <2>1. /\ k \in Obj /\ l \in Obj
        /\ PathOf(k) = PathOf(l) /\ ShiftOf(k) = ShiftOf(l)
    BY <1>3, <1>4, PlaceFacts
  <2> QED BY <2>1, <1>3, <1>4 DEF Shape, InvUnique
<1>5. \A l \in Leaves : st'[l] = "live" => lkey'[l] = lkey[l] /\ lval'[l] = lval[l]
  BY DEF Gentle
<1>6. Find(key) = lval[k] BY <1>3 DEF FindIs, FindFacts, LeafOf
<1>7. Find(key)' = NULL
  <2>1. \A l \in Leaves : ~LeafOf(key, l)' BY <1>3, <1>4, <1>5 DEF LeafOf
  <2> QED BY <2>1, <1>3 DEF FindIs, FindFacts
<1>8. ASSUME NEW j \in Keys, j # key PROVE Find(j)' = Find(j)
  <2>0. j \in Key BY KeyFacts
  <2>1. CASE \E l \in Leaves : LeafOf(j, l)
    <3>1. PICK l \in Leaves : LeafOf(j, l) BY <2>1
    <3>2. LeafOf(j, l)' BY <3>1, <1>3, <1>5, <1>8 DEF LeafOf
    <3> QED BY <3>1, <3>2, <2>0, <1>5 DEF FindIs, FindFacts, LeafOf
  <2>2. CASE \A l \in Leaves : ~LeafOf(j, l)
    <3>1. \A l \in Leaves : ~LeafOf(j, l)' BY <2>2, <1>3, <1>5 DEF LeafOf
    <3> QED BY <2>0, <2>2, <3>1 DEF FindIs, FindFacts
  <2> QED BY <2>1, <2>2
<1> QED BY <1>1, <1>2, <1>3, <1>6, <1>7, <1>8 DEF TheMap
-----------------------------------------------------------------------------
(* The steps of the writers.                                               *)

\* What a writer step shows the readers.
LEMMA ReadersSee ==
    ASSUME Before, Before', Seen
    PROVE  /\ TheGet' = TheGet /\ TheGot' = TheGot
           /\ valid' = [r \in Readers |->
                 IF TheGet[r] = NULL THEN {} ELSE valid[r] \cup {TheMap'[TheGet[r]]}]
           /\ TheMap' = TheMap => valid' = valid
<1> USE DEF Before
<1>1. UNCHANGED <<rpc, rkey, rres>> BY DEF Seen, locs
<1>2. TheGet' = TheGet /\ TheGot' = TheGot BY <1>1 DEF TheGet, TheGot
<1>3. ASSUME NEW r \in Readers
      PROVE  /\ valid'[r] = IF TheGet[r] = NULL THEN {}
                            ELSE valid[r] \cup {TheMap'[TheGet[r]]}
             /\ TheMap' = TheMap => valid'[r] = valid[r]
  <2>1. CASE rpc[r] = "idle"
    BY <2>1 DEF TheGet, InvMiss, MissAt, Seen, Observed
  <2>2. CASE rpc[r] # "idle"
    <3>1. rkey[r] \in Keys /\ rkey[r] \in Key /\ rkey[r] # NULL
      BY <2>2, ReadAssumption, MarkAssumption, KeyFacts DEF InvMiss, MissAt
    <3>2. valid'[r] = valid[r] \cup Current(rkey[r])'
      BY <2>2 DEF Seen, Observed
    <3>3. PICK key \in Key : key = rkey[r] BY <3>1
    <3>4. Current(key)' = {Find(key)'} /\ Current(key) = {Find(key)}
      BY <3>3 DEF FindIs
    <3>5. Current(rkey[r])' = Current(key)' BY <1>1, <3>3 DEF Current
    <3>6. TheGet[r] = key /\ TheMap'[key] = Find(key)' /\ TheMap[key] = Find(key)
      BY <2>2, <3>1, <3>3 DEF TheGet, TheMap
    <3>7. Find(key) \in valid[r]
      <4>1. CASE \E l \in Leaves : LeafOf(key, l)
        <5>1. PICK l \in Leaves : LeafOf(key, l) BY <4>1
        <5>2. lval[l] \in valid[r]
          BY <5>1, <2>2, <3>3 DEF LeafOf, ShapeInv, IInv, InvValue, ValueAt
        <5> QED BY <5>1, <5>2 DEF FindIs, FindFacts
      <4>2. CASE \A l \in Leaves : ~LeafOf(key, l)
        <5>1. NULL \in valid[r] BY <4>2, <2>2, <3>3 DEF LeafOf, InvMiss, MissAt
        <5> QED BY <5>1, <4>2 DEF FindIs, FindFacts
      <4> QED BY <4>1, <4>2
    <3> QED BY <3>1, <3>2, <3>3, <3>4, <3>5, <3>6, <3>7
  <2> QED BY <2>1, <2>2
<1>4. /\ valid' = [r \in Readers |-> valid'[r]]
      /\ valid = [r \in Readers |-> valid[r]]
  BY DEF Seen, Observed, ShapeInv, IInv, GetTypeOK
<1> QED BY <1>2, <1>3, <1>4

\* Under the lock: the call stays, only the result of w may change, and as
\* long as the call has not taken effect there is none.
LEMMA CallGoesOn ==
    ASSUME Before, Before', NEW w \in Writers, WriterNext(w),
           Insert(w) \/ Remove(w)
    PROVE  /\ TheCall' = TheCall
           /\ TheRes' = [TheRes EXCEPT ![w] = TheRes'[w]]
           /\ wpc[w] # "fix" => TheRes[w] = "none"
           /\ TheCall[w] = [op |-> wop[w], key |-> wkey[w], value |-> wval[w]]
           /\ TheCall[w] \in Map!Calls /\ TheCall[w] # NULL
           /\ Insert(w) => wop[w] = "insert"
           /\ Remove(w) => wop[w] = "remove"
<1> USE DEF Before, WParts
<1>1. /\ wpc[w] \in InsertPC \cup RemovePC
      /\ wpc'[w] \in InsertPC \cup RemovePC \cup {"unlock"}
      /\ UNCHANGED <<wop, wkey, wval>>
      /\ \A u \in Writers : u # w => wpc'[u] = wpc[u] /\ wpc[u] \notin Busy
      /\ Insert(w) => wop[w] = "insert"
      /\ Remove(w) => wop[w] = "remove"
  <2>1. /\ wpc[w] \in InsertPC \cup RemovePC
        /\ wpc'[w] \in InsertPC \cup RemovePC \cup {"unlock"}
        /\ UNCHANGED <<wop, wkey, wval>>
    BY InsertPcs, RemovePcs DEF call
  <2>2. ASSUME NEW u \in Writers, u # w
        PROVE  wpc'[u] = wpc[u] /\ wpc[u] \notin Busy
    BY <2>1, <2>2, OnlyOne DEF Busy
  <2>3. /\ Insert(w) => wpc[w] \in InsertPC
        /\ Remove(w) => wpc[w] \in RemovePC
    BY InsertPcs, RemovePcs
  <2> QED BY <2>1, <2>2, <2>3 DEF Shape, InvCall
<1>2. "idle" \notin InsertPC \cup RemovePC \cup {"unlock"}
  BY DEF InsertPC, RemovePC
<1>3. TheCall' = TheCall BY <1>1, <1>2 DEF TheCall
<1>4. \A u \in Writers : u # w => TheRes'[u] = TheRes[u]
  BY <1>1 DEF TheRes, Busy, RemovePC
<1>5. TheRes' = [TheRes EXCEPT ![w] = TheRes'[w]]
  <2>1. TheRes \in [Writers -> {TheRes[u] : u \in Writers}] BY DEF TheRes
  <2>2. TheRes' = [u \in Writers |-> TheRes'[u]] BY DEF TheRes
  <2> QED BY <1>4, <2>1, <2>2
<1>6. wpc[w] # "fix" => TheRes[w] = "none"
  BY <1>1 DEF TheRes, InsertPC, RemovePC
<1>7. TheCall[w] = [op |-> wop[w], key |-> wkey[w], value |-> wval[w]]
  BY <1>1, <1>2 DEF TheCall
<1>8. TheCall[w] \in Map!Calls
  <2>1. /\ wkey[w] \in Keys
        /\ wop[w] = "insert" => wval[w] \in Values
        /\ wop[w] = "remove" => wval[w] = NULL
        /\ wop[w] \in {"insert", "remove"}
    BY <1>1, <1>2 DEF Shape, InvCall
  <2> QED BY <2>1, <1>7 DEF Map!Calls
<1> QED BY <1>1, <1>3, <1>5, <1>6, <1>7, <1>8, MarkAssumption

\* What to show for a step that lets the call of w take effect.
LEMMA TakesEffect ==
    ASSUME Before, Before', Seen, NEW w \in Writers, WriterNext(w),
           Insert(w) \/ Remove(w), wpc[w] # "fix",
           NEW op, op = wop[w], NEW m, TheMap' = m, NEW res, TheRes'[w] = res
    PROVE  Map!Effect(w, op, m, res)
<1>0. /\ TheCall' = TheCall
      /\ TheRes' = [TheRes EXCEPT ![w] = TheRes'[w]]
      /\ TheRes[w] = "none"
      /\ TheCall[w] = [op |-> wop[w], key |-> wkey[w], value |-> wval[w]]
      /\ TheCall[w] # NULL
  BY CallGoesOn, Zenon
<1>1. TheRes' = [TheRes EXCEPT ![w] = res] /\ TheCall[w].op = op
  BY <1>0
<1>2. /\ TheGet' = TheGet /\ TheGot' = TheGot
      /\ valid' = [r \in Readers |->
            IF TheGet[r] = NULL THEN {} ELSE valid[r] \cup {TheMap'[TheGet[r]]}]
  BY ReadersSee
<1> QED BY <1>0, <1>1, <1>2
    DEF Map!Effect, Map!Observe, TheMap, TheCall, TheRes, TheGet, TheGot

\* What to show for a step of a call that is none of the dictionary.
LEMMA GoesOn ==
    ASSUME Before, Before', Seen, NEW w \in Writers, WriterNext(w),
           Insert(w) \/ Remove(w), TheMap' = TheMap, TheRes'[w] = TheRes[w]
    PROVE  UNCHANGED Map!vars
<1>1. /\ TheCall' = TheCall
      /\ TheRes' = [TheRes EXCEPT ![w] = TheRes[w]]
  BY CallGoesOn
<1>2. TheRes' = TheRes
  <2>1. TheRes \in [Writers -> {TheRes[u] : u \in Writers}] BY DEF TheRes
  <2> QED BY <1>1, <2>1
<1>3. TheGet' = TheGet /\ TheGot' = TheGot /\ valid' = valid BY ReadersSee
<1> QED BY <1>1, <1>2, <1>3
    DEF Map!vars, TheMap, TheCall, TheRes, TheGet, TheGot
\* Calls and returns.
LEMMA EdgeMaps ==
    ASSUME Before, Before', Gentle, Seen, NEW w \in Writers, WriterNext(w),
           CallInsert(w) \/ CallRemove(w) \/ Lock(w) \/ Unlock(w)
    PROVE  Map!Call(w) \/ Map!Return(w) \/ UNCHANGED Map!vars
<1> USE DEF Before, WParts
<1>1. TheMap' = TheMap
  <2>1. wpc[w] \in {"idle", "lock", "unlock"} BY EdgePcs
  <2>2. /\ ~InsertInSlot(w) /\ ~InsertPublish(w)
        /\ ~RemoveRoot(w) /\ ~RemoveUnlink(w)
    BY <2>1 DEF InsertInSlot, InsertPublish, RemoveRoot, RemoveUnlink, Found
  <2> QED BY <2>2, MapStays
<1>2. TheGet' = TheGet /\ TheGot' = TheGot /\ valid' = valid BY <1>1, ReadersSee
<1>3. ASSUME NEW u \in Writers, u # w
      PROVE  TheCall'[u] = TheCall[u] /\ TheRes'[u] = TheRes[u]
  <2>1. /\ wpc'[u] = wpc[u] /\ wkey'[u] = wkey[u] /\ wop'[u] = wop[u]
        /\ wval'[u] = wval[u] /\ wn'[u] = wn[u] /\ lval' = lval
    BY <1>3, EdgePcs
  <2>2. wret'[u] = wret[u]
    BY <1>3 DEF CallInsert, CallRemove, Call, Lock, Unlock, TypeOK
  <2>3. TheCall'[u] = TheCall[u] BY <2>1 DEF TheCall
  <2>4. TheRes'[u] = TheRes[u] BY <2>1, <2>2 DEF TheRes
  <2> QED BY <2>3, <2>4
<1>4. /\ TheCall' = [TheCall EXCEPT ![w] = TheCall'[w]]
      /\ TheRes' = [TheRes EXCEPT ![w] = TheRes'[w]]
  <2>1. /\ TheCall = [u \in Writers |-> TheCall[u]]
        /\ TheCall' = [u \in Writers |-> TheCall'[u]]
    BY DEF TheCall
  <2>2. /\ TheRes = [u \in Writers |-> TheRes[u]]
        /\ TheRes' = [u \in Writers |-> TheRes'[u]]
    BY DEF TheRes
  <2> QED BY <2>1, <2>2, <1>3
<1>5. ASSUME TheRes'[w] = TheRes[w] PROVE TheRes' = TheRes
  <2>1. TheRes = [u \in Writers |-> TheRes[u]] BY DEF TheRes
  <2> QED BY <1>4, <1>5, <2>1
<1>6. CASE CallInsert(w) \/ CallRemove(w)
  <2>1. PICK c \in Map!Calls :
           /\ wop'[w] = c.op /\ wkey'[w] = c.key /\ wval'[w] = c.value
           /\ c = [op |-> c.op, key |-> c.key, value |-> c.value]
    <3>1. CASE CallInsert(w)
      <4>1. PICK key \in Keys, value \in Values : Call(w, "insert", key, value)
        BY <3>1 DEF CallInsert
      <4> DEFINE c == [op |-> "insert", key |-> key, value |-> value]
      <4>2. c \in Map!Calls BY DEF Map!Calls
      <4>3. wop'[w] = "insert" /\ wkey'[w] = key /\ wval'[w] = value
        BY <4>1 DEF Call, TypeOK
      <4> QED BY <4>2, <4>3
    <3>2. CASE CallRemove(w)
      <4>1. PICK key \in Keys : Call(w, "remove", key, NULL)
        BY <3>2 DEF CallRemove
      <4> DEFINE c == [op |-> "remove", key |-> key, value |-> NULL]
      <4>2. c \in Map!Calls BY DEF Map!Calls
      <4>3. wop'[w] = "remove" /\ wkey'[w] = key /\ wval'[w] = NULL
        BY <4>1 DEF Call, TypeOK
      <4> QED BY <4>2, <4>3
    <3> QED BY <1>6, <3>1, <3>2
  <2>2. wpc[w] = "idle" /\ wpc'[w] = "lock"
    BY <1>6 DEF CallInsert, CallRemove, Call, Goto, TypeOK
  <2>3. TheCall[w] = NULL /\ TheCall'[w] = c
    BY <2>1, <2>2 DEF TheCall
  <2>4. TheRes' = TheRes BY <2>2, <1>5 DEF TheRes
  <2>5. TheCall' = [TheCall EXCEPT ![w] = c] BY <2>3, <1>4
  <2>6. Map!Call(w)
    BY <2>1, <2>3, <2>4, <2>5, <1>1, <1>2
       DEF Map!Call, TheMap, TheCall, TheRes, TheGet, TheGot
  <2> QED BY <2>6
<1>7. CASE Lock(w)
  <2>1. /\ wpc[w] = "lock" /\ wpc'[w] \in {"alloc_leaf", "remove"}
        /\ UNCHANGED <<wop, wkey, wval>>
    BY <1>7 DEF Lock, Goto, TypeOK, call
  <2>2. TheCall'[w] = TheCall[w] BY <2>1 DEF TheCall
  <2>3. TheRes' = TheRes BY <2>1, <1>5 DEF TheRes
  <2>4. TheCall' = TheCall
    <3>1. TheCall = [u \in Writers |-> TheCall[u]] BY DEF TheCall
    <3> QED BY <1>4, <2>2, <3>1
  <2>5. UNCHANGED Map!vars
    BY <2>3, <2>4, <1>1, <1>2
       DEF Map!vars, TheMap, TheCall, TheRes, TheGet, TheGot
  <2> QED BY <2>5
<1>8. CASE Unlock(w)
  <2>1. wpc[w] = "unlock" /\ wpc'[w] = "idle"
    BY <1>8 DEF Unlock, Goto, TypeOK
  <2>2. TheCall'[w] = NULL /\ TheRes'[w] = "none" /\ TheRes[w] = wret[w]
    BY <2>1 DEF TheCall, TheRes
  <2>3. wret[w] # "none"
    <3>1. wret[w] \in Results BY DEF TypeOK
    <3> QED BY <3>1, MarkAssumption DEF Results
  <2>4. Map!Return(w)
    BY <2>2, <2>3, <1>1, <1>2, <1>4
       DEF Map!Return, TheMap, TheCall, TheRes, TheGet, TheGot
  <2> QED BY <2>4
<1> QED BY <1>6, <1>7, <1>8

\* critnib_insert: it takes effect when it links its leaf, or has found the
\* key or no memory.
LEMMA InsertMaps ==
    ASSUME Before, Before', Gentle, Seen, NEW w \in Writers, WriterNext(w),
           Insert(w)
    PROVE  \/ Map!InsertNew(w) \/ Map!InsertExisting(w) \/ Map!InsertNoMemory(w)
           \/ UNCHANGED Map!vars
<1> USE DEF Before, WParts
<1>1. /\ wpc[w] \in InsertPC /\ wpc[w] # "fix"
      /\ wpc'[w] \in InsertPC \cup {"unlock"}
  BY InsertPcs DEF InsertPC
<1>2. /\ TheRes[w] = "none" /\ wop[w] = "insert"
      /\ TheCall[w].key = wkey[w] /\ TheCall[w].value = wval[w]
  <2>1. /\ wpc[w] # "fix" => TheRes[w] = "none"
        /\ TheCall[w] = [op |-> wop[w], key |-> wkey[w], value |-> wval[w]]
        /\ Insert(w) => wop[w] = "insert"
    BY CallGoesOn, Zenon
  <2> QED BY <1>1, <2>1
<1>3. /\ wpc'[w] = "unlock" => TheRes'[w] = wret'[w]
      /\ wpc'[w] # "unlock" => TheRes'[w] = "none"
  BY <1>1 DEF TheRes, InsertPC
<1>4. ~RemoveRoot(w) /\ ~RemoveUnlink(w)
  BY <1>1 DEF RemoveRoot, RemoveUnlink, Found, InsertPC
<1>5. CASE InsertInSlot(w) \/ InsertPublish(w)
  <2>1. wpc'[w] = "unlock" /\ wret'[w] = "0"
    BY <1>5 DEF InsertInSlot, InsertPublish, Ret, Goto, TypeOK
  <2>2. /\ TheMap' = [TheMap EXCEPT ![TheCall[w].key] = TheCall[w].value]
        /\ TheMap[TheCall[w].key] = NULL
    BY <1>2, <1>5, MapGains
  <2>3. Map!Effect(w, "insert", [TheMap EXCEPT ![TheCall[w].key] = TheCall[w].value], "0")
    BY <1>1, <1>2, <1>3, <2>1, <2>2, TakesEffect
  <2>4. Map!InsertNew(w)
    BY <2>2, <2>3 DEF Map!InsertNew, Map!With, TheMap, TheCall
  <2> QED BY <2>4
<1>6. CASE InsertNoLeaf(w) \/ InsertNoNode(w)
  <2>1. wpc'[w] = "unlock" /\ wret'[w] = "ENOMEM"
    BY <1>6 DEF InsertNoLeaf, InsertNoNode, Ret, Goto, TypeOK
  <2>2. ~InsertInSlot(w) /\ ~InsertPublish(w)
    BY <1>6 DEF InsertNoLeaf, InsertNoNode, Diverges, InsertInSlot, InsertPublish
  <2>3. TheMap' = TheMap BY <2>2, <1>4, MapStays
  <2>4. Map!Effect(w, "insert", TheMap, "ENOMEM")
    BY <1>1, <1>2, <1>3, <2>1, <2>3, TakesEffect
  <2>5. Map!InsertNoMemory(w) BY <2>4 DEF Map!InsertNoMemory, TheMap
  <2> QED BY <2>5
<1>7. CASE InsertExists(w)
  <2>1. wpc'[w] = "unlock" /\ wret'[w] = "EEXIST"
    BY <1>7 DEF InsertExists, Ret, Goto, TypeOK
  <2>2. ~InsertInSlot(w) /\ ~InsertPublish(w)
    BY <1>7 DEF InsertExists, Diverges, InsertInSlot, InsertPublish
  <2>3. TheMap' = TheMap BY <2>2, <1>4, MapStays
  <2>4. Map!Effect(w, "insert", TheMap, "EEXIST")
    BY <1>1, <1>2, <1>3, <2>1, <2>3, TakesEffect
  \* The walk has stopped at the leaf of the key.
  <2>5. TheMap[TheCall[w].key] # NULL
    <3>1. /\ wpc[w] = "walk" /\ wn[w] # NULL /\ ~OnPath(wn[w], wkey[w])
          /\ PathOf(wn[w]) = wkey[w]
      BY <1>7 DEF InsertExists, Diverges
    <3>2. /\ wn[w] \in Obj /\ wpar[w] \in Nodes \cup {NULL}
          /\ wkey[w] \in Key /\ wkey[w] \in Keys
      BY <3>1 DEF TypeOK, Ptr, Shape, InvCall
    <3>3. st[wn[w]] = "live"
      <4>1. NullOr(wpar[w], "live") /\ wn[w] = Slot(wpar[w], wkey[w])
        BY <3>1 DEF InvInsert
      <4> QED BY <3>1, <3>2, <4>1, SlotLive DEF NullOr
    <3>4. wn[w] \in Leaves
      <4>1. ASSUME wn[w] \in Nodes PROVE FALSE
        <5>1. path[wn[w]] = wkey[w] BY <3>1, <4>1, PlaceFacts
        <5>2. path_mask(path[wn[w]], shift[wn[w]]) = path[wn[w]]
          BY <3>3, <4>1 DEF Shape, InvEdge
        <5> QED BY <5>1, <5>2, <3>1, <4>1 DEF OnPath
      <4> QED BY <4>1, <3>2 DEF Obj
    <3>5. LeafOf(wkey[w], wn[w])
      BY <3>1, <3>3, <3>4, PlaceFacts DEF LeafOf
    <3>6. Find(wkey[w]) = lval[wn[w]] /\ lval[wn[w]] \in Values
      BY <3>2, <3>3, <3>4, <3>5 DEF FindIs, FindFacts, Shape, InvLeaf
    <3> QED BY <1>2, <3>2, <3>6, PtrAssumption DEF TheMap
  <2>6. Map!InsertExisting(w)
    BY <2>4, <2>5 DEF Map!InsertExisting, TheMap, TheCall
  <2> QED BY <2>6
<1>8. CASE \/ InsertAllocLeaf(w) \/ InsertSetKey(w) \/ InsertSetValue(w)
           \/ InsertDescend(w) \/ InsertAllocNode(w) \/ InsertClear(w)
           \/ InsertLink(w) \/ InsertHead(w)
  <2>1. wpc'[w] # "unlock"
    BY <1>8 DEF InsertAllocLeaf, InsertSetKey, InsertSetValue, InsertDescend,
       InsertAllocNode, InsertClear, InsertLink, InsertHead, Goto, TypeOK
  <2>2. ~InsertInSlot(w) /\ ~InsertPublish(w)
    BY <2>1 DEF InsertInSlot, InsertPublish, Ret, Goto, TypeOK
  <2>3. TheMap' = TheMap BY <2>2, <1>4, MapStays
  <2> QED BY <2>1, <2>3, <1>2, <1>3, GoesOn
<1> QED BY <1>5, <1>6, <1>7, <1>8 DEF Insert

\* critnib_remove: it takes effect when it unlinks its leaf, or has found
\* that there is none.
LEMMA RemoveMaps ==
    ASSUME Before, Before', Gentle, Seen, NEW w \in Writers, WriterNext(w),
           Remove(w)
    PROVE  Map!Remove(w) \/ UNCHANGED Map!vars
<1> USE DEF Before, WParts
<1>1. /\ wpc[w] \in RemovePC
      /\ wpc'[w] \in RemovePC \cup {"unlock"}
      /\ wpc'[w] = "fix" => RemoveUnlink(w)
  BY RemovePcs
<1>2. /\ wpc[w] # "fix" => TheRes[w] = "none"
      /\ wop[w] = "remove" /\ TheCall[w].key = wkey[w]
  <2>1. /\ wpc[w] # "fix" => TheRes[w] = "none"
        /\ TheCall[w] = [op |-> wop[w], key |-> wkey[w], value |-> wval[w]]
        /\ Remove(w) => wop[w] = "remove"
    BY CallGoesOn, Zenon
  <2> QED BY <2>1
<1>3. /\ wpc'[w] = "unlock" => TheRes'[w] = wret'[w]
      /\ wpc'[w] = "fix" => TheRes'[w] = lval'[wn'[w]]
      /\ wpc'[w] \notin {"unlock", "fix"} => TheRes'[w] = "none"
      /\ wpc[w] = "fix" => TheRes[w] = lval[wn[w]]
  BY <1>1 DEF TheRes, RemovePC
<1>4. ~InsertInSlot(w) /\ ~InsertPublish(w)
  BY <1>1 DEF InsertInSlot, InsertPublish, RemovePC
<1>5. ASSUME NEW v, wpc[w] # "fix", TheRes'[w] = v, TheMap[wkey[w]] = v,
             TheMap' = [TheMap EXCEPT ![wkey[w]] = NULL]
      PROVE  Map!Remove(w)
  <2>1. TheMap' = [TheMap EXCEPT ![TheCall[w].key] = NULL] BY <1>2, <1>5
  <2>2. TheRes'[w] = TheMap[TheCall[w].key] BY <1>2, <1>5
  <2>3. ASSUME NEW m, m = [TheMap EXCEPT ![TheCall[w].key] = NULL],
               NEW res, res = TheMap[TheCall[w].key]
        PROVE  Map!Effect(w, "remove", m, res)
    <3>1. "remove" = wop[w] /\ TheMap' = m /\ TheRes'[w] = res
      BY <1>2, <2>1, <2>2, <2>3
    <3>2. Insert(w) \/ Remove(w) OBVIOUS
    <3> QED BY <1>5, <3>1, <3>2, TakesEffect, Zenon
  <2>4. Map!Effect(w, "remove", [TheMap EXCEPT ![TheCall[w].key] = NULL],
                   TheMap[TheCall[w].key])
    BY <2>3 DEF Map!Effect
  <2> QED BY <2>4 DEF Map!Remove, Map!With, TheMap, TheCall
<1>6. CASE RemoveRoot(w) \/ RemoveUnlink(w)
  <2>1. /\ TheMap' = [TheMap EXCEPT ![wkey[w]] = NULL]
        /\ TheMap[wkey[w]] = lval[wn[w]] /\ lval' = lval
    BY <1>6, MapLoses
  <2>2. TheRes'[w] = lval[wn[w]] /\ wpc[w] = "find"
    <3>1. CASE RemoveRoot(w)
      BY <3>1, <1>3 DEF RemoveRoot, Found, Ret, Goto, TypeOK
    <3>2. CASE RemoveUnlink(w)
      <4>1. wpc[w] = "find" /\ wpc'[w] = "fix" /\ wn' = wn
        BY <3>2 DEF RemoveUnlink, Found, Goto, TypeOK, locals
      <4> QED BY <4>1, <2>1, <1>3
    <3> QED BY <1>6, <3>1, <3>2
  <2> QED BY <2>1, <2>2, <1>5
<1>7. CASE RemoveEmpty(w) \/ RemoveAbsent(w)
  <2>1. /\ wpc[w] \in {"remove", "find"} /\ wpc'[w] = "unlock"
        /\ wret'[w] = NULL
    BY <1>7 DEF RemoveEmpty, RemoveAbsent, Ret, Goto, TypeOK
  <2>2. ~RemoveRoot(w) /\ ~RemoveUnlink(w)
    BY <1>7, PtrAssumption DEF RemoveRoot, RemoveUnlink, Found, RemoveEmpty,
       RemoveAbsent, is_leaf
  <2>3. TheMap' = TheMap BY <2>2, <1>4, MapStays
  <2>4. wkey[w] \in Keys /\ wkey[w] \in Key
    BY <2>1, KeyFacts DEF Shape, InvCall
  <2>5. ASSUME NEW l \in Leaves, LeafOf(wkey[w], l) PROVE FALSE
    <3>1. l \in Obj /\ l # NULL /\ l \notin Nodes BY PtrAssumption DEF Obj
    <3>2. CASE RemoveEmpty(w)
      <4>1. Leads(root, l) BY <2>5, <3>1 DEF LeafOf, Shape, InvCover
      <4> QED BY <4>1, <3>1, <3>2, PtrAssumption DEF RemoveEmpty, Leads, Under
    <3>3. CASE RemoveAbsent(w)
      <4>1. /\ wpc[w] = "find"
            /\ wn[w] = NULL \/ (wn[w] \in Leaves /\ lkey[wn[w]] # wkey[w])
        BY <3>3 DEF RemoveAbsent, is_leaf
      <4>2. Leads(wn[w], l) BY <4>1, <2>5 DEF LeafOf, Shape, InvFind
      <4> QED BY <4>1, <4>2, <2>5, <3>1, PtrAssumption DEF LeafOf, Leads, Under
    <3> QED BY <1>7, <3>2, <3>3
  <2>6. Find(wkey[w]) = NULL BY <2>4, <2>5 DEF FindIs, FindFacts
  <2>7. TheMap[wkey[w]] = NULL BY <2>4, <2>6 DEF TheMap
  <2>8. TheMap' = [TheMap EXCEPT ![wkey[w]] = NULL]
    <3>1. TheMap = [k \in Keys |-> TheMap[k]] BY DEF TheMap
    <3> QED BY <3>1, <2>3, <2>4, <2>7
  <2> QED BY <2>1, <2>7, <2>8, <1>3, <1>5
<1>8. CASE \/ RemoveCount(w) \/ RemoveFreeNode(w) \/ RemoveFreeLeaf(w)
           \/ RemoveDescend(w)
  <2>1. wpc[w] # "fix" /\ wpc'[w] \in {"free_node", "free_leaf", "find"}
    BY <1>8 DEF RemoveCount, RemoveFreeNode, RemoveFreeLeaf, RemoveDescend,
       Goto, TypeOK
  <2>2. ~RemoveRoot(w) /\ ~RemoveUnlink(w)
    <3>1. \/ wpc[w] \in {"remove", "free_node", "free_leaf"} \/ wn[w] \in Nodes
      BY <1>8 DEF RemoveCount, RemoveFreeNode, RemoveFreeLeaf, RemoveDescend
    <3> QED BY <3>1, PtrAssumption DEF RemoveRoot, RemoveUnlink, Found, is_leaf
  <2>3. TheMap' = TheMap BY <2>2, <1>4, MapStays
  <2> QED BY <2>1, <2>3, <1>2, <1>3, GoesOn
<1>9. CASE RemoveKeep(w) \/ RemoveCollapse(w)
  <2>1. /\ wpc[w] = "fix" /\ wpc'[w] = "unlock" /\ wret'[w] = lval[wn[w]]
    BY <1>9 DEF RemoveKeep, RemoveCollapse, Ret, Goto, TypeOK
  <2>2. ~RemoveRoot(w) /\ ~RemoveUnlink(w)
    BY <2>1 DEF RemoveRoot, RemoveUnlink, Found
  <2>3. TheMap' = TheMap BY <2>2, <1>4, MapStays
  <2> QED BY <2>1, <2>3, <1>3, GoesOn
<1> QED BY <1>6, <1>7, <1>8, <1>9 DEF Remove
-----------------------------------------------------------------------------
(* The steps of the readers.                                               *)

\* A reader changes neither the dictionary nor the writers, and of the
\* readers' calls and results only its own.
LEMMA ReaderLeaves ==
    ASSUME Before, Before', NEW r \in Readers, GetCall(r) \/ GetRun(r)
    PROVE  /\ TheMap' = TheMap /\ TheCall' = TheCall /\ TheRes' = TheRes
           /\ TheGet' = [TheGet EXCEPT ![r] = TheGet'[r]]
           /\ TheGot' = [TheGot EXCEPT ![r] = TheGot'[r]]
<1> USE DEF Before
<1>1. UNCHANGED wvars
  BY DEF GetRun, GetCall, GetCount, GetRoot, GetShift,
     GetChild, GetMiss, GetMatch, GetValue, GetRestart, GetDone, GetReturn
<1>2. UNCHANGED <<st, lkey, lval, wpc, wop, wkey, wval, wret, wn>>
  BY <1>1 DEF wvars, heap, pending, aux, call, locals
<1>3. TheMap' = TheMap BY <1>2, MapSame DEF FindIs
<1>4. TheCall' = TheCall /\ TheRes' = TheRes BY <1>2 DEF TheCall, TheRes
<1>5. ASSUME NEW q \in Readers, q # r
      PROVE  TheGet'[q] = TheGet[q] /\ TheGot'[q] = TheGot[q]
  <2>1. rpc'[q] = rpc[q] /\ rkey'[q] = rkey[q] /\ rres'[q] = rres[q]
    BY <1>5 DEF GetRun, GetCall, GetCount, GetRoot, GetShift,
       GetChild, GetMiss, GetMatch, GetValue, GetRestart, GetDone, GetReturn,
       RGoto, locs, ShapeInv, IInv, GetTypeOK
  <2> QED BY <2>1 DEF TheGet, TheGot
<1>6. /\ TheGet = [q \in Readers |-> TheGet[q]]
      /\ TheGet' = [q \in Readers |-> TheGet'[q]]
  BY DEF TheGet
<1>7. /\ TheGot = [q \in Readers |-> TheGot[q]]
      /\ TheGot' = [q \in Readers |-> TheGot'[q]]
  BY DEF TheGot
<1> QED BY <1>3, <1>4, <1>5, <1>6, <1>7

\* critnib_get: its result is settled by the second load of remove_count.
LEMMA GetMaps ==
    ASSUME Before, Before', NEW r \in Readers, GetCall(r) \/ GetRun(r)
    PROVE  \/ Map!Get(r) \/ Map!GetResult(r) \/ Map!GetReturn(r)
           \/ UNCHANGED Map!vars
<1> USE DEF Before
<1>0. /\ TheMap' = TheMap /\ TheCall' = TheCall /\ TheRes' = TheRes
      /\ TheGet' = [TheGet EXCEPT ![r] = TheGet'[r]]
      /\ TheGot' = [TheGot EXCEPT ![r] = TheGot'[r]]
  BY ReaderLeaves, Zenon
<1>1. /\ TheGet = [q \in Readers |-> TheGet[q]]
      /\ TheGot = [q \in Readers |-> TheGot[q]]
  BY DEF TheGet, TheGot
<1>t. GetTypeOK BY DEF ShapeInv, IInv
<1>2. CASE GetCall(r)
  <2>1. PICK key \in ReadKeys : /\ rkey' = [rkey EXCEPT ![r] = key]
                                /\ valid' = [valid EXCEPT ![r] = Current(key)]
    BY <1>2 DEF GetCall
  <2>2. key \in Keys /\ key \in Key BY ReadAssumption, KeyFacts
  <2>3. rpc[r] = "idle" /\ rpc'[r] = "count" /\ rkey'[r] = key
    BY <1>2, <1>t, <2>1 DEF GetCall, RGoto, GetTypeOK
  <2>4. TheGet[r] = NULL /\ TheGet'[r] = key BY <2>3 DEF TheGet
  <2>5. TheGot'[r] = TheGot[r] BY <2>3 DEF TheGot
  <2>6. valid' = [valid EXCEPT ![r] = {TheMap[key]}]
    BY <2>1, <2>2 DEF FindIs, TheMap
  <2>7. TheGet' = [TheGet EXCEPT ![r] = key] /\ TheGot' = TheGot
    BY <1>0, <1>1, <2>4, <2>5
  <2>8. Map!Get(r)
    BY <1>0, <2>2, <2>4, <2>6, <2>7
       DEF Map!Get, TheMap, TheCall, TheRes, TheGet, TheGot
  <2> QED BY <2>8
<1>3. CASE GetDone(r)
  <2>1. /\ rpc[r] = "check" /\ ~Expired(r) /\ rpc'[r] = "ret"
        /\ UNCHANGED <<rkey, rres, valid>>
    BY <1>3, <1>t DEF GetDone, RGoto, GetTypeOK, locs
  <2>2. rkey[r] \in Keys /\ rres[r] \in valid[r]
    BY <2>1, ReadAssumption DEF InvMiss, MissAt
  <2>3. TheGet'[r] = TheGet[r] /\ TheGet[r] # NULL
    BY <2>1, <2>2, MarkAssumption DEF TheGet
  <2>4. TheGot[r] = "none" /\ TheGot'[r] = rres[r] BY <2>1 DEF TheGot
  <2>5. TheGet' = TheGet BY <1>0, <1>1, <2>3
  <2>6. PICK v \in valid[r] : TheGot' = [TheGot EXCEPT ![r] = v]
    BY <1>0, <2>2, <2>4
  <2>7. Map!GetResult(r)
    BY <1>0, <2>1, <2>3, <2>4, <2>5, <2>6
       DEF Map!GetResult, TheMap, TheCall, TheRes, TheGet, TheGot
  <2> QED BY <2>7
<1>4. CASE GetReturn(r)
  <2>1. /\ rpc[r] = "ret" /\ rpc'[r] = "idle"
        /\ valid' = [valid EXCEPT ![r] = {}]
    BY <1>4, <1>t DEF GetReturn, RGoto, GetTypeOK
  <2>2. TheGet'[r] = NULL /\ TheGot'[r] = "none" /\ TheGot[r] = rres[r]
    BY <2>1 DEF TheGet, TheGot
  <2>3. rres[r] # "none"
    <3>1. rres[r] \in Values \cup Leaves \cup {NULL} BY <1>t DEF GetTypeOK
    <3> QED BY <3>1, MarkAssumption
  <2>4. Map!GetReturn(r)
    BY <1>0, <2>1, <2>2, <2>3
       DEF Map!GetReturn, TheMap, TheCall, TheRes, TheGet, TheGot
  <2> QED BY <2>4
<1>5. CASE ~GetCall(r) /\ ~GetDone(r) /\ ~GetReturn(r)
  <2>1. /\ rpc[r] \notin {"idle", "ret"} /\ rpc'[r] \notin {"idle", "ret"}
        /\ UNCHANGED <<rkey, valid>>
    BY <1>5, <1>t DEF GetRun, GetCount, GetRoot, GetShift,
       GetChild, GetMiss, GetMatch, GetValue, GetRestart, RGoto, locs, GetTypeOK
  <2>2. TheGet'[r] = TheGet[r] /\ TheGot'[r] = TheGot[r]
    BY <2>1 DEF TheGet, TheGot
  <2>3. TheGet' = TheGet /\ TheGot' = TheGot BY <1>0, <1>1, <2>2
  <2>4. UNCHANGED Map!vars
    BY <1>0, <2>1, <2>3
       DEF Map!vars, TheMap, TheCall, TheRes, TheGet, TheGot
  <2> QED BY <2>4
<1> QED BY <1>2, <1>3, <1>4, <1>5

-----------------------------------------------------------------------------
(* critnib implements the dictionary.                                      *)

LEMMA InitMaps ==
    ASSUME GetInit
    PROVE  Map!Init
<1>1. Before BY InitIInv, InitShape, ShapeKnows DEF ShapeInv
<1>2. ASSUME NEW key \in Keys PROVE Find(key) = NULL
  <2>1. \A l \in Leaves : ~LeafOf(key, l)
    BY PtrAssumption DEF LeafOf, GetInit, Init, Obj
  <2> QED BY <2>1, <1>1, KeyFacts DEF Before, FindIs, FindFacts
<1>3. TheMap = [k \in Keys |-> NULL] BY <1>2 DEF TheMap
<1>4. /\ TheCall = [w \in Writers |-> NULL]
      /\ TheRes = [w \in Writers |-> "none"]
  BY DEF GetInit, Init, TheCall, TheRes
<1>5. /\ TheGet = [r \in Readers |-> NULL]
      /\ TheGot = [r \in Readers |-> "none"]
      /\ valid = [r \in Readers |-> {}]
  BY DEF GetInit, TheGet, TheGot
<1> QED BY <1>3, <1>4, <1>5
    DEF Map!Init, TheMap, TheCall, TheRes, TheGet, TheGot

LEMMA NextMaps ==
    ASSUME ShapeInv, ShapeInv', [Next]_vars
    PROVE  [Map!Next]_(Map!vars)
<1>0. Before /\ Before'
  <2>1. (ShapeInv => Before)' BY ShapeKnows, PTL
  <2> QED BY <2>1, ShapeKnows
<1>1. ASSUME NEW w \in Writers, WriterNext(w), Seen
      PROVE  Map!Next \/ UNCHANGED Map!vars
  <2>1. Gentle BY <1>1, StepKnows
  <2>2. CASE CallInsert(w) \/ CallRemove(w) \/ Lock(w) \/ Unlock(w)
    BY <1>0, <1>1, <2>1, <2>2, EdgeMaps DEF Map!Next
  <2>3. CASE Insert(w)
    BY <1>0, <1>1, <2>1, <2>3, InsertMaps DEF Map!Next
  <2>4. CASE Remove(w)
    BY <1>0, <1>1, <2>1, <2>4, RemoveMaps DEF Map!Next
  <2> QED BY <1>1, <2>2, <2>3, <2>4 DEF WriterNext, Run
<1>2. ASSUME NEW r \in Readers, GetCall(r) \/ GetRun(r)
      PROVE  Map!Next \/ UNCHANGED Map!vars
  BY <1>0, <1>2, GetMaps DEF Map!Next
<1>3. ASSUME UNCHANGED vars
      PROVE  UNCHANGED Map!vars
  <2>1. /\ UNCHANGED <<st, lkey, lval, wpc, wop, wkey, wval, wret, wn>>
        /\ UNCHANGED <<rpc, rkey, rres, valid>>
    BY <1>3 DEF vars, rvars, locs, wvars, heap, pending, aux, call, locals
  <2>2. TheMap' = TheMap BY <1>0, <2>1, MapSame DEF Before, FindIs
  <2>3. TheCall' = TheCall /\ TheRes' = TheRes BY <2>1 DEF TheCall, TheRes
  <2>4. TheGet' = TheGet /\ TheGot' = TheGot BY <2>1 DEF TheGet, TheGot
  <2> QED BY <2>1, <2>2, <2>3, <2>4
      DEF Map!vars, TheMap, TheCall, TheRes, TheGet, TheGot
<1> QED BY <1>1, <1>2, <1>3 DEF Next

\* critnib implements the concurrent dictionary, for every number of threads,
\* every set of blocks, keys and values, and every DELETED_LIFE: each insert
\* and remove takes effect at one store between its call and its return, and
\* each get returns a value its key had between its call and its return.
THEOREM Refines == Spec => ImplementsMap
<1>1. GetInit => Map!Init BY InitMaps
<1>2. ShapeInv /\ ShapeInv' /\ [Next]_vars => [Map!Next]_(Map!vars)
  BY NextMaps
<1> QED BY <1>1, <1>2, ShapeHolds, PTL DEF Spec, ImplementsMap, Map!Spec
=============================================================================
