--------------------------- MODULE CritnibProofs ---------------------------
(***************************************************************************)
(* The writers' half of the inductive invariant of CritnibInv: every step  *)
(* of critnib_insert and critnib_remove keeps its parts.  First what each  *)
(* helper and each action changes, then one lemma per part.  A step that   *)
(* holds the mutex is alone (OnlyOne), so that the parts about a writer's  *)
(* locals need only be looked at for the writer that moves.                *)
(***************************************************************************)
EXTENDS CritnibInv, ListProofs

\* Division with remainder, as the provers do not know it.
LEMMA DivMod ==
    ASSUME NEW a \in Nat, NEW L \in Nat \ {0}
    PROVE  /\ a \div L \in Nat
           /\ a % L \in 0 .. L-1
           /\ a = L * (a \div L) + (a % L)
  OBVIOUS

\* Keys, nibbles and slots stay in range: slice_index selects a child,
\* path_mask yields a key, a remove number selects a pending slot.
LEMMA KeyFacts ==
    /\ \A key \in Key, sh \in Digits : /\ slice_index(key, sh) \in Nibs
                                       /\ path_mask(key, sh) \in Key
    /\ [p \in Digits |-> 0] \in Key
    /\ 0 \in Digits /\ 0 \in Nibs /\ 0 \in Slots
    /\ Keys \subseteq Key
    /\ \A a \in Nat : a % DELETED_LIFE \in Slots
  <1>1. \A a \in Nat : a % DELETED_LIFE \in Slots
    BY DivMod, SizeAssumption DEF Slots
  <1>2. 0 \in Digits /\ 0 \in Nibs /\ 0 \in Slots
    BY SizeAssumption DEF Digits, Nibs, Slots
  <1>3. \A key \in Key, sh \in Digits : slice_index(key, sh) \in Nibs
    BY DEF Key, slice_index
  <1>4. \A key \in Key, sh \in Digits : path_mask(key, sh) \in Key
    BY <1>2 DEF Key, path_mask
  <1>5. [p \in Digits |-> 0] \in Key
    BY <1>2 DEF Key
  <1>6. Keys \subseteq Key
    BY SizeAssumption
  <1> QED BY <1>1, <1>2, <1>3, <1>4, <1>5, <1>6

\* malloc returns a block nobody has.
LEMMA MallocFact ==
    ASSUME NEW S, Raw(S) # {}
    PROVE  Malloc(S) \in S /\ st[Malloc(S)] = "raw"
  BY DEF Malloc, Raw

\* What storing v in one slot of one node does to the children.
LEMMA StoreSlot ==
    ASSUME NEW f \in [Nodes -> [Nibs -> Ptr]],
           NEW n \in Nodes, NEW i \in Nibs, NEW v \in Ptr
    PROVE  LET g == [f EXCEPT ![n][i] = v]
           IN  /\ g \in [Nodes -> [Nibs -> Ptr]]
               /\ \A m \in Nodes, j \in Nibs :
                     g[m][j] = IF m = n /\ j = i THEN v ELSE f[m][j]
  OBVIOUS

\* What a store through the parent pointer does: the root or one slot of one
\* node takes the value, every other link stays.
LEMMA StoreAtFacts ==
    ASSUME TypeOK, NEW p \in Nodes \cup {NULL}, NEW key \in Key, NEW v \in Ptr,
           StoreAt(p, key, v)
    PROVE  /\ root' \in Ptr
           /\ child' \in [Nodes -> [Nibs -> Ptr]]
           /\ root' = IF p = NULL THEN v ELSE root
           /\ p = NULL => child' = child
           /\ p # NULL => p \in Nodes /\ slice_index(key, shift[p]) \in Nibs
           /\ \A m \in Nodes, j \in Nibs :
                 child'[m][j] =
                    IF p # NULL /\ m = p /\ j = slice_index(key, shift[p])
                    THEN v ELSE child[m][j]
  <1>0. child \in [Nodes -> [Nibs -> Ptr]] /\ root \in Ptr
    BY DEF TypeOK
  <1>1. CASE p = NULL BY <1>0, <1>1 DEF StoreAt
  <1>2. CASE p # NULL
    <2> DEFINE i == slice_index(key, shift[p])
    <2>1. p \in Nodes BY <1>2
    <2>2. i \in Nibs BY <2>1, KeyFacts DEF TypeOK
    <2>3. child' = [child EXCEPT ![p][i] = v] /\ root' = root
      BY <1>2 DEF StoreAt
    <2> HIDE DEF i
    <2>4. /\ child' \in [Nodes -> [Nibs -> Ptr]]
          /\ \A m \in Nodes, j \in Nibs :
                child'[m][j] = IF m = p /\ j = i THEN v ELSE child[m][j]
      BY <2>1, <2>2, <2>3, <1>0, StoreSlot
    <2> QED BY <1>0, <1>2, <2>1, <2>2, <2>3, <2>4 DEF i
  <1> QED BY <1>1, <1>2

\* free_node writes child[0] of the block and the head of the pool, no more.
LEMMA FreeNodeFacts ==
    ASSUME TypeOK, NEW n \in Nodes \cup {NULL}, free_node(n)
    PROVE  /\ child' \in [Nodes -> [Nibs -> Ptr]]
           /\ deleted_node' = IF n = NULL THEN deleted_node ELSE n
           /\ \A m \in Nodes, j \in Nibs :
                 child'[m][j] = IF m = n /\ j = 0 THEN deleted_node
                                ELSE child[m][j]
  <1>0. child \in [Nodes -> [Nibs -> Ptr]] /\ deleted_node \in Ptr
    BY DEF TypeOK, Ptr, Obj
  <1>1. CASE n = NULL BY <1>0, <1>1, PtrAssumption DEF free_node
  <1>2. CASE n # NULL
    <2>1. n \in Nodes /\ 0 \in Nibs BY <1>2, KeyFacts
    <2>2. child' = [child EXCEPT ![n][0] = deleted_node]
      BY <1>2 DEF free_node
    <2>3. /\ child' \in [Nodes -> [Nibs -> Ptr]]
          /\ \A m \in Nodes, j \in Nibs :
                child'[m][j] = IF m = n /\ j = 0 THEN deleted_node
                               ELSE child[m][j]
      BY <1>0, <2>1, <2>2, StoreSlot
    <2> QED BY <1>2, <2>3 DEF free_node
  <1> QED BY <1>1, <1>2

\* free_leaf writes the value of the block and the head of the pool, no more.
LEMMA FreeLeafFacts ==
    ASSUME TypeOK, NEW k \in Leaves \cup {NULL}, free_leaf(k)
    PROVE  /\ lval' \in [Leaves -> Values \cup Leaves \cup {NULL}]
           /\ deleted_leaf' = IF k = NULL THEN deleted_leaf ELSE k
           /\ \A l \in Leaves :
                 lval'[l] = IF l = k THEN deleted_leaf ELSE lval[l]
  BY PtrAssumption DEF free_leaf, TypeOK

\* Recycling concerns one block, if any.
LEMMA RecycleFacts ==
    ASSUME TypeOK, NEW x \in Ptr, Recycle(x)
    PROVE  /\ st' \in [Obj -> States]
           /\ stamp' \in [Obj -> Nat]
           /\ \A y \in Obj : /\ st'[y] = IF y = x THEN "pool" ELSE st[y]
                             /\ y # x => stamp'[y] = stamp[y]
  <1>0. st \in [Obj -> States] /\ stamp \in [Obj -> Nat]
    BY DEF TypeOK
  <1>1. NULL \notin Obj BY PtrAssumption DEF Obj
  <1>2. CASE x = NULL BY <1>0, <1>1, <1>2 DEF Recycle, aux
  <1>3. CASE x # NULL
    <2>1. x \in Obj BY <1>3 DEF Ptr
    <2>2. /\ st' = [st EXCEPT ![x] = "pool"]
          /\ stamp' = [stamp EXCEPT ![x] = 0]
      BY <1>3 DEF Recycle
    <2> QED BY <1>0, <2>1, <2>2 DEF States
  <1> QED BY <1>2, <1>3

\* Retiring concerns one block, which gets the number of this remove.
LEMMA RetireFacts ==
    ASSUME TypeOK, remove_count > 0, NEW x \in Obj, Retire(x)
    PROVE  /\ st' \in [Obj -> States]
           /\ stamp' \in [Obj -> Nat]
           /\ \A y \in Obj :
                 /\ st'[y] = IF y = x THEN "gone" ELSE st[y]
                 /\ stamp'[y] = IF y = x THEN remove_count - 1 ELSE stamp[y]
  BY DEF TypeOK, Retire, States

\* A change of state concerns one block and no stamp.
LEMMA BecomeFacts ==
    ASSUME TypeOK, NEW x \in Obj, NEW s \in States, Become(x, s)
    PROVE  /\ st' \in [Obj -> States]
           /\ stamp' = stamp
           /\ \A y \in Obj : st'[y] = IF y = x THEN s ELSE st[y]
  BY DEF TypeOK, Become, States

\* What InsertLink does to the children: wk and wn enter the new node.
LEMMA LinkFacts ==
    ASSUME TypeOK, InvInsert, NEW w \in Writers, InsertLink(w)
    PROVE  /\ wm[w] \in Nodes /\ wk[w] \in Leaves
           /\ child' \in [Nodes -> [Nibs -> Ptr]]
           /\ \E a, b \in Nibs : \A m \in Nodes, j \in Nibs :
                 child'[m][j] = IF m = wm[w] /\ j = b THEN wn[w]
                                ELSE IF m = wm[w] /\ j = a THEN wk[w]
                                ELSE child[m][j]
  <1> DEFINE a == slice_index(wkey[w], wsh[w])
             b == slice_index(PathOf(wn[w]), wsh[w])
             f == [child EXCEPT ![wm[w]][a] = wk[w]]
  <1>1. wm[w] \in Nodes /\ wk[w] \in Leaves /\ wn[w] \in Obj
    BY DEF InsertLink, InvInsert, Is, TypeOK, Ptr
  <1>2. PathOf(wn[w]) \in Key
    BY <1>1 DEF PathOf, is_leaf, TypeOK, Obj
  <1>3. a \in Nibs /\ b \in Nibs
    BY <1>2, KeyFacts DEF TypeOK
  <1>4. wk[w] \in Ptr /\ wn[w] \in Ptr
    BY <1>1 DEF Obj, Ptr
  <1>5. child' = [f EXCEPT ![wm[w]][b] = wn[w]]
    BY DEF InsertLink
  <1> HIDE DEF a, b
  <1>6. /\ f \in [Nodes -> [Nibs -> Ptr]]
        /\ \A m \in Nodes, j \in Nibs :
              f[m][j] = IF m = wm[w] /\ j = a THEN wk[w] ELSE child[m][j]
    BY <1>1, <1>3, <1>4, StoreSlot DEF TypeOK
  <1> HIDE DEF f
  <1>7. /\ child' \in [Nodes -> [Nibs -> Ptr]]
        /\ \A m \in Nodes, j \in Nibs :
              child'[m][j] = IF m = wm[w] /\ j = b THEN wn[w] ELSE f[m][j]
    BY <1>1, <1>3, <1>4, <1>5, <1>6, StoreSlot
  <1>8. \A m \in Nodes, j \in Nibs :
           child'[m][j] = IF m = wm[w] /\ j = b THEN wn[w]
                          ELSE IF m = wm[w] /\ j = a THEN wk[w]
                          ELSE child[m][j]
    BY <1>6, <1>7
  <1> QED BY <1>1, <1>3, <1>7, <1>8

\* Every writer step keeps the types.
LEMMA TypeStep ==
    ASSUME TypeOK, InvPoolNodes, InvPoolLeaves, InvDel, InvInsert, InvRemove,
           NEW w \in Writers, WriterNext(w)
    PROVE  TypeOK'
<1> USE KeyFacts, PtrAssumption
<1>1. CASE CallInsert(w)
  BY <1>1 DEF CallInsert, TypeOK, heap, pools, pending, call, locals, aux, Goto, Ret, InsertPC, RemovePC, Results, Call
<1>2. CASE CallRemove(w)
  BY <1>2 DEF CallRemove, TypeOK, heap, pools, pending, call, locals, aux, Goto, Ret, InsertPC, RemovePC, Results, Call
<1>3. CASE Lock(w)
  BY <1>3 DEF Lock, TypeOK, heap, pools, pending, call, locals, aux, Goto, Ret, InsertPC, RemovePC, Results
<1>4. CASE Unlock(w)
  BY <1>4 DEF Unlock, TypeOK, heap, pools, pending, call, locals, aux, Goto, Ret, Results, Ptr
<1>5. CASE InsertAllocLeaf(w)
  <2>1. PICK k \in Leaves : /\ alloc_leaf(k)
                            /\ wk' = [wk EXCEPT ![w] = k]
                            /\ Become(k, "held")
    BY <1>5 DEF InsertAllocLeaf
  <2>2. deleted_leaf' \in Leaves \cup {NULL}
    BY <2>1 DEF alloc_leaf, TypeOK, InvPoolLeaves, NullOr
  <2>3. st' \in [Obj -> States] /\ stamp' = stamp
    BY <2>1, BecomeFacts DEF Obj, States
  <2> QED BY <2>1, <2>2, <2>3, <1>5 DEF InsertAllocLeaf, TypeOK, heap, pools, pending, call, locals, aux, Goto, Ret, InsertPC
<1>6. CASE InsertNoLeaf(w)
  BY <1>6 DEF InsertNoLeaf, TypeOK, heap, pools, pending, call, locals, aux, Goto, Ret, InsertPC, RemovePC, Results
<1>7. CASE InsertSetKey(w)
  BY <1>7 DEF InsertSetKey, TypeOK, heap, pools, pending, call, locals, aux, Goto, Ret, InsertPC, RemovePC, Results, InvInsert, Is
<1>8. CASE InsertSetValue(w)
  BY <1>8 DEF InsertSetValue, TypeOK, heap, pools, pending, call, locals, aux, Goto, Ret, InsertPC, RemovePC, Results, InvInsert, Is
<1>9. CASE InsertDescend(w)
  BY <1>9 DEF InsertDescend, TypeOK, heap, pools, pending, call, locals, aux, Goto, Ret, InsertPC, RemovePC, Results, OnPath
<1>10. CASE InsertInSlot(w)
  <2>1. wk[w] \in Obj /\ wk[w] \in Obj
    BY <1>10 DEF InsertInSlot, InvInsert, Is, TypeOK, Obj
  <2>2. root' \in Ptr /\ child' \in [Nodes -> [Nibs -> Ptr]]
    BY <2>1, <1>10, StoreAtFacts DEF InsertInSlot, TypeOK, Ptr
  <2>3. st' \in [Obj -> States]
    BY <2>1, <1>10 DEF InsertInSlot, TypeOK, Become, States
  <2> QED BY <2>2, <2>3, <1>10 DEF InsertInSlot, TypeOK, heap, pools, pending, call, locals, aux, Goto, Ret, Become, Results
<1>11. CASE InsertExists(w)
  <2>1. /\ lval' \in [Leaves -> Values \cup Leaves \cup {NULL}]
        /\ deleted_leaf' \in Leaves \cup {NULL}
    BY <1>11, FreeLeafFacts DEF InsertExists, TypeOK
  <2>2. st' \in [Obj -> States] /\ stamp' \in [Obj -> Nat]
    BY <1>11, RecycleFacts DEF InsertExists, TypeOK, Obj, Ptr
  <2> QED BY <2>1, <2>2, <1>11 DEF InsertExists, TypeOK, heap, pools, pending, call, locals, aux, Goto, Ret, Diverges, Results
<1>12. CASE InsertAllocNode(w)
  <2>1. PICK m \in Nodes : /\ alloc_node(m)
                           /\ wm' = [wm EXCEPT ![w] = m]
                           /\ Become(m, "held")
    BY <1>12 DEF InsertAllocNode
  <2>2. deleted_node' \in Nodes \cup {NULL}
    BY <2>1 DEF alloc_node, TypeOK, InvPoolNodes, NullOr
  <2>3. st' \in [Obj -> States] /\ stamp' = stamp
    BY <2>1, BecomeFacts DEF Obj, States
  <2>4. wsh' \in [Writers -> Digits] BY <1>12 DEF InsertAllocNode, TypeOK
  <2> QED BY <2>1, <2>2, <2>3, <2>4, <1>12 DEF InsertAllocNode, TypeOK, heap, pools, pending, call, locals, aux, Goto, Ret, InsertPC
<1>13. CASE InsertNoNode(w)
  <2>1. /\ lval' \in [Leaves -> Values \cup Leaves \cup {NULL}]
        /\ deleted_leaf' \in Leaves \cup {NULL}
    BY <1>13, FreeLeafFacts DEF InsertNoNode, TypeOK
  <2>2. st' \in [Obj -> States] /\ stamp' \in [Obj -> Nat]
    BY <1>13, RecycleFacts DEF InsertNoNode, TypeOK, Obj, Ptr
  <2> QED BY <2>1, <2>2, <1>13 DEF InsertNoNode, TypeOK, heap, pools, pending, call, locals, aux, Goto, Ret, Diverges, Results
<1>14. CASE InsertClear(w)
  <2>1. wm[w] \in Nodes BY <1>14 DEF InsertClear, InvInsert, Is, TypeOK
  <2>2. [i \in Nibs |-> NULL] \in [Nibs -> Ptr] BY DEF Ptr
  <2>3. child' \in [Nodes -> [Nibs -> Ptr]]
    BY <2>1, <2>2, <1>14 DEF InsertClear, TypeOK
  <2> QED BY <2>3, <1>14 DEF InsertClear, TypeOK, heap, pools, pending, call, locals, aux, Goto, Ret, InsertPC
<1>15. CASE InsertLink(w)
  <2>1. child' \in [Nodes -> [Nibs -> Ptr]] BY <1>15, LinkFacts DEF TypeOK
  <2> QED BY <2>1, <1>15 DEF InsertLink, TypeOK, heap, pools, pending, call, locals, aux, Goto, Ret, InsertPC
<1>16. CASE InsertHead(w)
  BY <1>16 DEF InsertHead, TypeOK, heap, pools, pending, call, locals, aux, Goto, Ret, InsertPC, RemovePC, Results
<1>17. CASE InsertPublish(w)
  <2>1. wm[w] \in Obj /\ wk[w] \in Obj
    BY <1>17 DEF InsertPublish, InvInsert, Is, TypeOK, Obj
  <2>2. root' \in Ptr /\ child' \in [Nodes -> [Nibs -> Ptr]]
    BY <2>1, <1>17, StoreAtFacts DEF InsertPublish, TypeOK, Ptr
  <2>3. st' \in [Obj -> States]
    BY <2>1, <1>17 DEF InsertPublish, TypeOK, Become, States
  <2> QED BY <2>2, <2>3, <1>17 DEF InsertPublish, TypeOK, heap, pools, pending, call, locals, aux, Goto, Ret, Become, Results
<1>18. CASE RemoveEmpty(w)
  BY <1>18 DEF RemoveEmpty, TypeOK, heap, pools, pending, call, locals, aux, Goto, Ret, InsertPC, RemovePC, Results
<1>19. CASE RemoveCount(w)
  BY <1>19 DEF RemoveCount, TypeOK, heap, pools, pending, call, locals, aux, Goto, Ret, InsertPC, RemovePC, Results
<1>20. CASE RemoveFreeNode(w)
  <2>1. pending_del_nodes[wdel[w]] \in Nodes \cup {NULL} BY DEF TypeOK
  <2>2. child' \in [Nodes -> [Nibs -> Ptr]] /\ deleted_node' \in Nodes \cup {NULL}
    BY <2>1, <1>20, FreeNodeFacts DEF RemoveFreeNode, TypeOK
  <2>3. st' \in [Obj -> States] /\ stamp' \in [Obj -> Nat]
    BY <2>1, <1>20, RecycleFacts DEF RemoveFreeNode, Obj, Ptr
  <2> QED BY <2>2, <2>3, <1>20 DEF RemoveFreeNode, TypeOK, heap, pools, pending, call, locals, aux, Goto, Ret, RemovePC
<1>21. CASE RemoveFreeLeaf(w)
  <2>1. pending_del_leaves[wdel[w]] \in Leaves \cup {NULL} BY DEF TypeOK
  <2>2. /\ lval' \in [Leaves -> Values \cup Leaves \cup {NULL}]
        /\ deleted_leaf' \in Leaves \cup {NULL}
    BY <2>1, <1>21, FreeLeafFacts DEF RemoveFreeLeaf, TypeOK
  <2>3. st' \in [Obj -> States] /\ stamp' \in [Obj -> Nat]
    BY <2>1, <1>21, RecycleFacts DEF RemoveFreeLeaf, Obj, Ptr
  <2> QED BY <2>2, <2>3, <1>21 DEF RemoveFreeLeaf, TypeOK, heap, pools, pending, call, locals, aux, Goto, Ret, RemovePC
<1>22. CASE RemoveDescend(w)
  BY <1>22 DEF RemoveDescend, TypeOK, heap, pools, pending, call, locals, aux, Goto, Ret, InsertPC, RemovePC, Results
<1>23. CASE RemoveAbsent(w)
  BY <1>23 DEF RemoveAbsent, TypeOK, heap, pools, pending, call, locals, aux, Goto, Ret, InsertPC, RemovePC, Results
<1>24. CASE RemoveRoot(w)
  <2>1. remove_count > 0 /\ wn[w] \in Leaves
    BY <1>24 DEF RemoveRoot, Found, InvDel, is_leaf
  <2>2. st' \in [Obj -> States] /\ stamp' \in [Obj -> Nat]
    BY <2>1, <1>24, RetireFacts DEF RemoveRoot, Obj
  <2> QED BY <2>1, <2>2, <1>24 DEF RemoveRoot, TypeOK, heap, pools, pending, call, locals, aux, Goto, Ret, Found, Results, Ptr
<1>25. CASE RemoveUnlink(w)
  <2>1. remove_count > 0 /\ wn[w] \in Leaves
    BY <1>25 DEF RemoveUnlink, Found, InvDel, is_leaf
  <2>2. st' \in [Obj -> States] /\ stamp' \in [Obj -> Nat]
    BY <2>1, <1>25, RetireFacts DEF RemoveUnlink, Obj
  <2>3. child' \in [Nodes -> [Nibs -> Ptr]]
    <3>1. /\ wpar[w] \in Nodes /\ NULL \in Ptr
          /\ slice_index(wkey[w], shift[wpar[w]]) \in Nibs
      BY <1>25 DEF RemoveUnlink, TypeOK, Ptr
    <3> QED BY <3>1, <1>25, StoreSlot DEF RemoveUnlink, TypeOK
  <2> QED BY <2>2, <2>3, <1>25 DEF RemoveUnlink, TypeOK, heap, pools, pending, call, locals, aux, Goto, Ret, RemovePC
<1>26. CASE RemoveKeep(w)
  <2>1. wn[w] \in Leaves BY <1>26 DEF RemoveKeep, InvRemove
  <2> QED BY <2>1, <1>26 DEF RemoveKeep, TypeOK, heap, pools, pending, call, locals, aux, Goto, Ret, Results
<1>27. CASE RemoveCollapse(w)
  <2>1. wn[w] \in Leaves /\ wpar[w] \in Nodes /\ remove_count > 0
    BY <1>27 DEF RemoveCollapse, InvRemove, InvDel, Is, TypeOK
  <2>2. PICK o \in Nibs : StoreAt(wgp[w], wkey[w], child[wpar[w]][o])
    BY <1>27 DEF RemoveCollapse
  <2>3. child[wpar[w]][o] \in Ptr BY <2>1 DEF TypeOK
  <2>4. root' \in Ptr /\ child' \in [Nodes -> [Nibs -> Ptr]]
    BY <2>2, <2>3, StoreAtFacts DEF TypeOK
  <2>5. st' \in [Obj -> States] /\ stamp' \in [Obj -> Nat]
    BY <2>1, <1>27, RetireFacts DEF RemoveCollapse, Obj
  <2> QED BY <2>1, <2>4, <2>5, <1>27 DEF RemoveCollapse, TypeOK, heap, pools, pending, call, locals, aux, Goto, Ret, Results
<1> QED BY <1>1, <1>2, <1>3, <1>4, <1>5, <1>6, <1>7, <1>8, <1>9, <1>10, <1>11, <1>12, <1>13, <1>14, <1>15, <1>16, <1>17, <1>18, <1>19, <1>20, <1>21, <1>22, <1>23, <1>24, <1>25, <1>26, <1>27
      DEF WriterNext, Run, Insert, Remove

\* A writer's step changes nobody else's program counter, and past the lock
\* only the owner of the mutex moves.
LEMMA LockStep ==
    ASSUME TypeOK, InvLock, NEW w \in Writers, WriterNext(w)
    PROVE  InvLock'
<1> USE PtrAssumption
<1> DEFINE Past == Insert(w) \/ Remove(w)
<1>1. CASE CallInsert(w) \/ CallRemove(w)
  BY <1>1 DEF CallInsert, CallRemove, Call, Goto, InvLock, TypeOK, Busy,
              InsertPC, RemovePC
<1>2. CASE Lock(w)
  BY <1>2 DEF Lock, Goto, InvLock, TypeOK, Busy, InsertPC, RemovePC
<1>3. CASE Unlock(w)
  BY <1>3 DEF Unlock, Goto, InvLock, TypeOK, Busy, InsertPC, RemovePC
<1>4. CASE Past
  <2>1. /\ wpc[w] \in Busy
        /\ \E l \in Busy : wpc' = [wpc EXCEPT ![w] = l]
        /\ mutex' = mutex
    <3>1. CASE InsertAllocLeaf(w)
      BY <3>1 DEF InsertAllocLeaf, Goto, Ret, Busy, InsertPC, RemovePC
    <3>2. CASE InsertNoLeaf(w)
      BY <3>2 DEF InsertNoLeaf, Goto, Ret, Busy, InsertPC, RemovePC
    <3>3. CASE InsertSetKey(w)
      BY <3>3 DEF InsertSetKey, Goto, Ret, Busy, InsertPC, RemovePC
    <3>4. CASE InsertSetValue(w)
      BY <3>4 DEF InsertSetValue, Goto, Ret, Busy, InsertPC, RemovePC
    <3>5. CASE InsertDescend(w)
      <4>1. wpc' = [wpc EXCEPT ![w] = wpc[w]] BY <3>5 DEF InsertDescend, TypeOK
      <4> QED BY <4>1, <3>5 DEF InsertDescend, Busy, InsertPC, RemovePC
    <3>6. CASE InsertInSlot(w)
      BY <3>6 DEF InsertInSlot, Goto, Ret, Busy, InsertPC, RemovePC
    <3>7. CASE InsertExists(w)
      BY <3>7 DEF InsertExists, Diverges, Goto, Ret, Busy, InsertPC, RemovePC
    <3>8. CASE InsertAllocNode(w)
      BY <3>8 DEF InsertAllocNode, Diverges, Goto, Ret, Busy, InsertPC, RemovePC
    <3>9. CASE InsertNoNode(w)
      BY <3>9 DEF InsertNoNode, Diverges, Goto, Ret, Busy, InsertPC, RemovePC
    <3>10. CASE InsertClear(w)
      BY <3>10 DEF InsertClear, Goto, Ret, Busy, InsertPC, RemovePC
    <3>11. CASE InsertLink(w)
      BY <3>11 DEF InsertLink, Goto, Ret, Busy, InsertPC, RemovePC
    <3>12. CASE InsertHead(w)
      BY <3>12 DEF InsertHead, Goto, Ret, Busy, InsertPC, RemovePC
    <3>13. CASE InsertPublish(w)
      BY <3>13 DEF InsertPublish, Goto, Ret, Busy, InsertPC, RemovePC
    <3>14. CASE RemoveEmpty(w)
      BY <3>14 DEF RemoveEmpty, Goto, Ret, Busy, InsertPC, RemovePC
    <3>15. CASE RemoveCount(w)
      BY <3>15 DEF RemoveCount, Goto, Ret, Busy, InsertPC, RemovePC
    <3>16. CASE RemoveFreeNode(w)
      BY <3>16 DEF RemoveFreeNode, Goto, Ret, Busy, InsertPC, RemovePC
    <3>17. CASE RemoveFreeLeaf(w)
      BY <3>17 DEF RemoveFreeLeaf, Goto, Ret, Busy, InsertPC, RemovePC
    <3>18. CASE RemoveDescend(w)
      <4>1. wpc' = [wpc EXCEPT ![w] = wpc[w]] BY <3>18 DEF RemoveDescend, TypeOK
      <4> QED BY <4>1, <3>18 DEF RemoveDescend, Busy, InsertPC, RemovePC
    <3>19. CASE RemoveAbsent(w)
      BY <3>19 DEF RemoveAbsent, Goto, Ret, Busy, InsertPC, RemovePC
    <3>20. CASE RemoveRoot(w)
      BY <3>20 DEF RemoveRoot, Found, Goto, Ret, Busy, InsertPC, RemovePC
    <3>21. CASE RemoveUnlink(w)
      BY <3>21 DEF RemoveUnlink, Found, Goto, Ret, Busy, InsertPC, RemovePC
    <3>22. CASE RemoveKeep(w)
      BY <3>22 DEF RemoveKeep, Goto, Ret, Busy, InsertPC, RemovePC
    <3>23. CASE RemoveCollapse(w)
      BY <3>23 DEF RemoveCollapse, Goto, Ret, Busy, InsertPC, RemovePC
    <3> QED BY <1>4, <3>1, <3>2, <3>3, <3>4, <3>5, <3>6, <3>7, <3>8, <3>9, <3>10, <3>11, <3>12, <3>13, <3>14, <3>15, <3>16, <3>17, <3>18, <3>19, <3>20, <3>21, <3>22, <3>23
         DEF Insert, Remove
  <2> QED BY <2>1 DEF InvLock, TypeOK
<1> QED BY <1>1, <1>2, <1>3, <1>4 DEF WriterNext, Run

-----------------------------------------------------------------------------
(* Steps that leave the links, the pools and the auxiliary state alone.    *)

Quiet(w) ==
    \/ CallInsert(w) \/ CallRemove(w) \/ Lock(w) \/ Unlock(w)
    \/ InsertNoLeaf(w) \/ InsertSetKey(w) \/ InsertDescend(w) \/ InsertHead(w)
    \/ RemoveEmpty(w) \/ RemoveDescend(w) \/ RemoveAbsent(w)

Loud(w) ==
    \/ InsertAllocLeaf(w) \/ InsertSetValue(w) \/ InsertInSlot(w)
    \/ InsertExists(w) \/ InsertAllocNode(w) \/ InsertNoNode(w)
    \/ InsertClear(w) \/ InsertLink(w) \/ InsertPublish(w)
    \/ RemoveCount(w) \/ RemoveFreeNode(w) \/ RemoveFreeLeaf(w)
    \/ RemoveRoot(w) \/ RemoveUnlink(w) \/ RemoveKeep(w) \/ RemoveCollapse(w)

\* Every writer step is of one of the two kinds.
LEMMA QuietOrLoud ==
    ASSUME NEW w \in Writers, WriterNext(w)
    PROVE  Quiet(w) \/ Loud(w)
  BY DEF WriterNext, Run, Insert, Remove, Quiet, Loud

\* A quiet step changes no link, no pool, no count, no state of a block.
LEMMA QuietFacts ==
    ASSUME NEW w \in Writers, Quiet(w)
    PROVE  /\ UNCHANGED <<root, child, lval, deleted_node, deleted_leaf>>
           /\ UNCHANGED <<pending_del_nodes, pending_del_leaves, remove_count>>
           /\ UNCHANGED <<st, stamp>>
  BY DEF Quiet, CallInsert, CallRemove, Call, Lock, Unlock, InsertNoLeaf,
         InsertSetKey, InsertDescend, InsertHead, RemoveEmpty, RemoveDescend,
         RemoveAbsent, heap, pools, pending, aux

\* alloc_leaf hands out a block that was in the pool or malloc's.
LEMMA AllocLeafFacts ==
    ASSUME TypeOK, InvPoolLeaves, NEW w \in Writers, InsertAllocLeaf(w)
    PROVE  \E k \in Leaves :
              /\ alloc_leaf(k)
              /\ st[k] \in {"pool", "raw"}
              /\ wk' = [wk EXCEPT ![w] = k]
              /\ stamp' = stamp
              /\ \A y \in Obj : st'[y] = IF y = k THEN "held" ELSE st[y]
  <1>1. PICK k \in Leaves : /\ alloc_leaf(k)
                            /\ wk' = [wk EXCEPT ![w] = k]
                            /\ Become(k, "held")
    BY DEF InsertAllocLeaf
  <1>2. st[k] \in {"pool", "raw"}
    BY <1>1, MallocFact DEF alloc_leaf, InvPoolLeaves, NullOr
  <1>3. /\ stamp' = stamp
        /\ \A y \in Obj : st'[y] = IF y = k THEN "held" ELSE st[y]
    BY <1>1, BecomeFacts DEF Obj, States
  <1> QED BY <1>1, <1>2, <1>3

\* alloc_node hands out a block that was in the pool or malloc's.
LEMMA AllocNodeFacts ==
    ASSUME TypeOK, InvPoolNodes, NEW w \in Writers, InsertAllocNode(w)
    PROVE  \E m \in Nodes :
              /\ alloc_node(m)
              /\ st[m] \in {"pool", "raw"}
              /\ wm' = [wm EXCEPT ![w] = m]
              /\ stamp' = stamp
              /\ \A y \in Obj : st'[y] = IF y = m THEN "held" ELSE st[y]
  <1>1. PICK m \in Nodes : /\ alloc_node(m)
                           /\ wm' = [wm EXCEPT ![w] = m]
                           /\ Become(m, "held")
    BY DEF InsertAllocNode
  <1>2. st[m] \in {"pool", "raw"}
    BY <1>1, MallocFact DEF alloc_node, InvPoolNodes, NullOr
  <1>3. /\ stamp' = stamp
        /\ \A y \in Obj : st'[y] = IF y = m THEN "held" ELSE st[y]
    BY <1>1, BecomeFacts DEF Obj, States
  <1> QED BY <1>1, <1>2, <1>3

\* Storing the new leaf in an empty slot: the leaf was the writer's own, the
\* slot was empty, and nothing else changes.
LEMMA InSlotFacts ==
    ASSUME TypeOK, InvInsert, NEW w \in Writers, InsertInSlot(w)
    PROVE  /\ wk[w] \in Leaves /\ st[wk[w]] = "held"
           /\ NullOr(wpar[w], "live") /\ Slot(wpar[w], wkey[w]) = NULL
           /\ root' = IF wpar[w] = NULL THEN wk[w] ELSE root
           /\ wpar[w] # NULL => wpar[w] \in Nodes
           /\ \A n \in Nodes, j \in Nibs :
                 child'[n][j] = IF /\ wpar[w] # NULL
                                   /\ n = wpar[w]
                                   /\ j = slice_index(wkey[w], shift[wpar[w]])
                                THEN wk[w] ELSE child[n][j]
           /\ stamp' = stamp
           /\ \A y \in Obj : st'[y] = IF y = wk[w] THEN "live" ELSE st[y]
  <1>1. /\ wk[w] \in Leaves /\ st[wk[w]] = "held"
        /\ NullOr(wpar[w], "live") /\ Slot(wpar[w], wkey[w]) = NULL
    BY DEF InsertInSlot, InvInsert, Is, TypeOK
  <1>2. wk[w] \in Obj /\ wk[w] \in Ptr BY <1>1 DEF Obj, Ptr
  <1>3. /\ stamp' = stamp
        /\ \A y \in Obj : st'[y] = IF y = wk[w] THEN "live" ELSE st[y]
    BY <1>2, BecomeFacts DEF InsertInSlot, States
  <1>4. StoreAt(wpar[w], wkey[w], wk[w]) /\ wpar[w] \in Nodes \cup {NULL}
        /\ wkey[w] \in Key
    BY DEF InsertInSlot, TypeOK
  <1>5. /\ root' = IF wpar[w] = NULL THEN wk[w] ELSE root
        /\ \A n \in Nodes, j \in Nibs :
              child'[n][j] = IF /\ wpar[w] # NULL
                                /\ n = wpar[w]
                                /\ j = slice_index(wkey[w], shift[wpar[w]])
                             THEN wk[w] ELSE child[n][j]
    BY <1>2, <1>4, StoreAtFacts
  <1> QED BY <1>1, <1>3, <1>4, <1>5

\* Storing the new node: node and leaf were the writer's own, the node
\* replaces the block the walk stopped at.
LEMMA PublishFacts ==
    ASSUME TypeOK, InvInsert, NEW w \in Writers, InsertPublish(w)
    PROVE  /\ wk[w] \in Leaves /\ st[wk[w]] = "held"
           /\ wm[w] \in Nodes /\ st[wm[w]] = "held"
           /\ NullOr(wpar[w], "live")
           /\ wn[w] = Slot(wpar[w], wkey[w]) /\ wn[w] \in Obj
           /\ root' = IF wpar[w] = NULL THEN wm[w] ELSE root
           /\ wpar[w] # NULL => wpar[w] \in Nodes
           /\ \A n \in Nodes, j \in Nibs :
                 child'[n][j] = IF /\ wpar[w] # NULL
                                   /\ n = wpar[w]
                                   /\ j = slice_index(wkey[w], shift[wpar[w]])
                                THEN wm[w] ELSE child[n][j]
           /\ stamp' = stamp
           /\ \A y \in Obj : st'[y] = IF y = wm[w] \/ y = wk[w] THEN "live"
                                      ELSE st[y]
  <1>1. /\ wk[w] \in Leaves /\ st[wk[w]] = "held"
        /\ wm[w] \in Nodes /\ st[wm[w]] = "held"
        /\ NullOr(wpar[w], "live")
        /\ wn[w] = Slot(wpar[w], wkey[w]) /\ wn[w] \in Obj
    BY DEF InsertPublish, InvInsert, Is, TypeOK, Ptr
  <1>2. wk[w] \in Obj /\ wm[w] \in Obj /\ wm[w] \in Ptr BY <1>1 DEF Obj, Ptr
  <1>3. /\ stamp' = stamp
        /\ \A y \in Obj : st'[y] = IF y = wm[w] \/ y = wk[w] THEN "live"
                                   ELSE st[y]
    BY <1>2 DEF InsertPublish, TypeOK
  <1>4. StoreAt(wpar[w], wkey[w], wm[w]) /\ wpar[w] \in Nodes \cup {NULL}
        /\ wkey[w] \in Key
    BY DEF InsertPublish, TypeOK
  <1>5. /\ root' = IF wpar[w] = NULL THEN wm[w] ELSE root
        /\ \A n \in Nodes, j \in Nibs :
              child'[n][j] = IF /\ wpar[w] # NULL
                                /\ n = wpar[w]
                                /\ j = slice_index(wkey[w], shift[wpar[w]])
                             THEN wm[w] ELSE child[n][j]
    BY <1>2, <1>4, StoreAtFacts
  <1> QED BY <1>1, <1>3, <1>4, <1>5

\* The error exits of insert give the leaf to the pool and change nothing else.
LEMMA DropLeafFacts ==
    ASSUME TypeOK, InvInsert, NEW w \in Writers,
           InsertExists(w) \/ InsertNoNode(w)
    PROVE  /\ wk[w] \in Leaves /\ st[wk[w]] = "held"
           /\ root' = root /\ child' = child /\ deleted_node' = deleted_node
           /\ UNCHANGED <<pending_del_nodes, pending_del_leaves, remove_count>>
           /\ deleted_leaf' = wk[w]
           /\ \A l \in Leaves :
                 lval'[l] = IF l = wk[w] THEN deleted_leaf ELSE lval[l]
           /\ \A y \in Obj : /\ st'[y] = IF y = wk[w] THEN "pool" ELSE st[y]
                             /\ y # wk[w] => stamp'[y] = stamp[y]
  <1>1. wk[w] \in Leaves /\ st[wk[w]] = "held"
    BY DEF InsertExists, InsertNoNode, Diverges, InvInsert, Is, TypeOK
  <1>2. wk[w] \in Ptr /\ wk[w] # NULL BY <1>1, PtrAssumption DEF Obj, Ptr
  <1>3. free_leaf(wk[w]) /\ Recycle(wk[w])
    BY DEF InsertExists, InsertNoNode
  <1>4. \A y \in Obj : /\ st'[y] = IF y = wk[w] THEN "pool" ELSE st[y]
                       /\ y # wk[w] => stamp'[y] = stamp[y]
    BY <1>2, <1>3, RecycleFacts
  <1>5. /\ deleted_leaf' = wk[w]
        /\ \A l \in Leaves :
              lval'[l] = IF l = wk[w] THEN deleted_leaf ELSE lval[l]
    BY <1>1, <1>2, <1>3, FreeLeafFacts
  <1> QED BY <1>1, <1>4, <1>5 DEF InsertExists, InsertNoNode, pending

\* Recycling the pending node: it was in its grace period, in this slot.
LEMMA RemoveFreeNodeFacts ==
    ASSUME TypeOK, InvPending, InvLock, NEW w \in Writers, RemoveFreeNode(w)
    PROVE  LET x == pending_del_nodes[wdel[w]]
           IN  /\ x \in Nodes \cup {NULL}
               /\ x # NULL => Waiting(x, wdel[w])
               /\ UNCHANGED <<root, lval, deleted_leaf, remove_count>>
               /\ UNCHANGED <<pending_del_nodes, pending_del_leaves>>
               /\ deleted_node' = IF x = NULL THEN deleted_node ELSE x
               /\ \A n \in Nodes, j \in Nibs :
                     child'[n][j] = IF n = x /\ j = 0 THEN deleted_node
                                    ELSE child[n][j]
               /\ \A y \in Obj : /\ st'[y] = IF y = x THEN "pool" ELSE st[y]
                                 /\ y # x => stamp'[y] = stamp[y]
  <1> DEFINE x == pending_del_nodes[wdel[w]]
  <1>1. x \in Nodes \cup {NULL} /\ x \in Ptr /\ wdel[w] \in Slots
    BY DEF TypeOK, Ptr, Obj
  <1>2. free_node(x) /\ Recycle(x) BY DEF RemoveFreeNode
  <1>3. x # NULL => Waiting(x, wdel[w])
    <2>1. ASSUME NEW u \in Writers, wpc[u] = "free_leaf" PROVE FALSE
      BY <2>1 DEF InvLock, RemoveFreeNode, Busy, RemovePC, InsertPC
    <2> QED BY <1>1, <2>1 DEF InvPending
  <1> HIDE DEF x
  <1>4. /\ deleted_node' = IF x = NULL THEN deleted_node ELSE x
        /\ \A n \in Nodes, j \in Nibs :
              child'[n][j] = IF n = x /\ j = 0 THEN deleted_node
                             ELSE child[n][j]
    BY <1>1, <1>2, FreeNodeFacts
  <1>5. \A y \in Obj : /\ st'[y] = IF y = x THEN "pool" ELSE st[y]
                       /\ y # x => stamp'[y] = stamp[y]
    BY <1>1, <1>2, RecycleFacts
  <1>6. /\ UNCHANGED <<root, lval, deleted_leaf, remove_count>>
        /\ UNCHANGED <<pending_del_nodes, pending_del_leaves>>
    BY DEF RemoveFreeNode, pending
  <1> QED BY <1>1, <1>3, <1>4, <1>5, <1>6 DEF x

\* Recycling the pending leaf, and emptying both slots.
LEMMA RemoveFreeLeafFacts ==
    ASSUME TypeOK, InvPending, NEW w \in Writers, RemoveFreeLeaf(w)
    PROVE  LET x == pending_del_leaves[wdel[w]]
           IN  /\ x \in Leaves \cup {NULL}
               /\ x # NULL => Waiting(x, wdel[w])
               /\ UNCHANGED <<root, child, deleted_node, remove_count>>
               /\ \A i \in Slots :
                     /\ pending_del_nodes'[i] =
                           IF i = wdel[w] THEN NULL ELSE pending_del_nodes[i]
                     /\ pending_del_leaves'[i] =
                           IF i = wdel[w] THEN NULL ELSE pending_del_leaves[i]
               /\ deleted_leaf' = IF x = NULL THEN deleted_leaf ELSE x
               /\ \A l \in Leaves :
                     lval'[l] = IF l = x THEN deleted_leaf ELSE lval[l]
               /\ \A y \in Obj : /\ st'[y] = IF y = x THEN "pool" ELSE st[y]
                                 /\ y # x => stamp'[y] = stamp[y]
  <1> DEFINE x == pending_del_leaves[wdel[w]]
  <1>1. x \in Leaves \cup {NULL} /\ x \in Ptr /\ wdel[w] \in Slots
    BY DEF TypeOK, Ptr, Obj
  <1>2. free_leaf(x) /\ Recycle(x) BY DEF RemoveFreeLeaf
  <1>3. x # NULL => Waiting(x, wdel[w])
    BY <1>1 DEF InvPending
  <1>4. \A i \in Slots :
           /\ pending_del_nodes'[i] =
                 IF i = wdel[w] THEN NULL ELSE pending_del_nodes[i]
           /\ pending_del_leaves'[i] =
                 IF i = wdel[w] THEN NULL ELSE pending_del_leaves[i]
    BY DEF RemoveFreeLeaf, TypeOK
  <1>5. UNCHANGED <<root, child, deleted_node, remove_count>>
    BY DEF RemoveFreeLeaf
  <1> HIDE DEF x
  <1>6. /\ deleted_leaf' = IF x = NULL THEN deleted_leaf ELSE x
        /\ \A l \in Leaves :
              lval'[l] = IF l = x THEN deleted_leaf ELSE lval[l]
    BY <1>1, <1>2, FreeLeafFacts
  <1>7. \A y \in Obj : /\ st'[y] = IF y = x THEN "pool" ELSE st[y]
                       /\ y # x => stamp'[y] = stamp[y]
    BY <1>1, <1>2, RecycleFacts
  <1> QED BY <1>1, <1>3, <1>4, <1>5, <1>6, <1>7 DEF x

\* A leaf is unlinked from the root, or from the slot of its parent.
LEMMA UnlinkFacts ==
    ASSUME TypeOK, InvTree, InvDel, InvRemove, NEW w \in Writers,
           RemoveRoot(w) \/ RemoveUnlink(w)
    PROVE  /\ wn[w] \in Leaves /\ st[wn[w]] = "live"
           /\ lkey[wn[w]] = wkey[w]
           /\ NullOr(wpar[w], "live")
           /\ wn[w] = Slot(wpar[w], wkey[w])
           /\ remove_count > 0 /\ wdel[w] = (remove_count - 1) % DELETED_LIFE
           /\ root' = IF wpar[w] = NULL THEN NULL ELSE root
           /\ wpar[w] # NULL => wpar[w] \in Nodes
           /\ \A n \in Nodes, j \in Nibs :
                 child'[n][j] = IF /\ wpar[w] # NULL
                                   /\ n = wpar[w]
                                   /\ j = slice_index(wkey[w], shift[wpar[w]])
                                THEN NULL ELSE child[n][j]
           /\ UNCHANGED <<lkey, lval, shift, deleted_node, deleted_leaf>>
           /\ UNCHANGED <<pending_del_nodes, remove_count>>
           /\ \A y \in Obj :
                 /\ st'[y] = IF y = wn[w] THEN "gone" ELSE st[y]
                 /\ stamp'[y] = IF y = wn[w] THEN remove_count - 1 ELSE stamp[y]
  <1>1. /\ wn[w] \in Leaves
        /\ lkey[wn[w]] = wkey[w]
        /\ NullOr(wpar[w], "live")
        /\ wn[w] = Slot(wpar[w], wkey[w])
        /\ remove_count > 0 /\ wdel[w] = (remove_count - 1) % DELETED_LIFE
    BY DEF RemoveRoot, RemoveUnlink, Found, is_leaf, InvDel, InvRemove
  <1>2. wn[w] \in Obj /\ wn[w] # NULL BY <1>1, PtrAssumption DEF Obj
  <1>3. wpar[w] # NULL => /\ wpar[w] \in Nodes
                          /\ slice_index(wkey[w], shift[wpar[w]]) \in Nibs
    BY KeyFacts DEF TypeOK
  <1>4. st[wn[w]] = "live"
    BY <1>1, <1>2, <1>3 DEF Slot, InvTree, NullOr
  <1>5. Retire(wn[w]) BY DEF RemoveRoot, RemoveUnlink
  <1>6. \A y \in Obj :
           /\ st'[y] = IF y = wn[w] THEN "gone" ELSE st[y]
           /\ stamp'[y] = IF y = wn[w] THEN remove_count - 1 ELSE stamp[y]
    BY <1>1, <1>2, <1>5, RetireFacts
  <1>7. /\ UNCHANGED <<lkey, lval, shift, deleted_node, deleted_leaf>>
        /\ UNCHANGED <<pending_del_nodes, remove_count>>
    BY DEF RemoveRoot, RemoveUnlink, heap, pools, pending
  <1>8. /\ root' = IF wpar[w] = NULL THEN NULL ELSE root
        /\ \A n \in Nodes, j \in Nibs :
              child'[n][j] = IF /\ wpar[w] # NULL
                                /\ n = wpar[w]
                                /\ j = slice_index(wkey[w], shift[wpar[w]])
                             THEN NULL ELSE child[n][j]
    <2>1. CASE RemoveRoot(w) BY <2>1 DEF RemoveRoot, heap
    <2>2. CASE RemoveUnlink(w)
      <3> DEFINE i == slice_index(wkey[w], shift[wpar[w]])
      <3>1. wpar[w] \in Nodes /\ i \in Nibs /\ wpar[w] # NULL
        BY <2>2, <1>3 DEF RemoveUnlink
      <3>2. child' = [child EXCEPT ![wpar[w]][i] = NULL] /\ root' = root
        BY <2>2 DEF RemoveUnlink
      <3>3. child \in [Nodes -> [Nibs -> Ptr]] /\ NULL \in Ptr
        BY DEF TypeOK, Ptr
      <3> HIDE DEF i
      <3>4. \A n \in Nodes, j \in Nibs :
               child'[n][j] = IF n = wpar[w] /\ j = i THEN NULL
                              ELSE child[n][j]
        BY <3>1, <3>2, <3>3, StoreSlot
      <3> QED BY <3>1, <3>2, <3>4 DEF i
    <2> QED BY <2>1, <2>2
  <1> QED BY <1>1, <1>3, <1>4, <1>6, <1>7, <1>8

\* The collapse: the grandparent's slot takes the node's only child, and the
\* node leaves the tree with the number of this remove.
LEMMA CollapseFacts ==
    ASSUME TypeOK, InvTree, InvDel, InvRemove, NEW w \in Writers,
           RemoveCollapse(w)
    PROVE  /\ wn[w] \in Leaves /\ st[wn[w]] = "gone"
           /\ stamp[wn[w]] = remove_count - 1
           /\ wpar[w] \in Nodes /\ st[wpar[w]] = "live"
           /\ NullOr(wgp[w], "live") /\ wgp[w] # wpar[w]
           /\ wpar[w] = Slot(wgp[w], wkey[w])
           /\ wgp[w] # NULL => /\ wgp[w] \in Nodes
                               /\ slice_index(wkey[w], shift[wgp[w]]) \in Nibs
           /\ remove_count > 0 /\ wdel[w] = (remove_count - 1) % DELETED_LIFE
           /\ UNCHANGED <<lkey, lval, shift, deleted_node, deleted_leaf>>
           /\ UNCHANGED remove_count
           /\ \E o \in Nibs :
                 /\ child[wpar[w]][o] # NULL
                 /\ root' = IF wgp[w] = NULL THEN child[wpar[w]][o] ELSE root
                 /\ \A n \in Nodes, j \in Nibs :
                       child'[n][j] =
                          IF /\ wgp[w] # NULL
                             /\ n = wgp[w]
                             /\ j = slice_index(wkey[w], shift[wgp[w]])
                          THEN child[wpar[w]][o] ELSE child[n][j]
           /\ \A y \in Obj :
                 /\ st'[y] = IF y = wpar[w] THEN "gone" ELSE st[y]
                 /\ stamp'[y] = IF y = wpar[w] THEN remove_count - 1
                                ELSE stamp[y]
  <1>1. /\ wn[w] \in Leaves /\ st[wn[w]] = "gone"
        /\ stamp[wn[w]] = remove_count - 1
        /\ wpar[w] \in Nodes /\ st[wpar[w]] = "live"
        /\ NullOr(wgp[w], "live")
        /\ wpar[w] = Slot(wgp[w], wkey[w])
        /\ remove_count > 0 /\ wdel[w] = (remove_count - 1) % DELETED_LIFE
    BY DEF RemoveCollapse, InvDel, InvRemove, Is, TypeOK
  <1>2. /\ wgp[w] \in Nodes \cup {NULL}
        /\ wgp[w] # NULL => slice_index(wkey[w], shift[wgp[w]]) \in Nibs
    BY KeyFacts DEF TypeOK
  <1>3. wgp[w] # wpar[w]
    BY <1>1, PtrAssumption DEF RemoveCollapse, InvRemove, Is, Slot
  <1>4. wpar[w] \in Obj BY <1>1 DEF Obj
  <1>5. \A y \in Obj :
           /\ st'[y] = IF y = wpar[w] THEN "gone" ELSE st[y]
           /\ stamp'[y] = IF y = wpar[w] THEN remove_count - 1 ELSE stamp[y]
    BY <1>1, <1>4, RetireFacts DEF RemoveCollapse
  <1>6. PICK o \in Nibs : /\ Occupied(wpar[w]) = {o}
                          /\ StoreAt(wgp[w], wkey[w], child[wpar[w]][o])
    BY DEF RemoveCollapse
  <1>7. child[wpar[w]][o] # NULL /\ child[wpar[w]][o] \in Ptr
    BY <1>1, <1>6 DEF Occupied, TypeOK
  <1>8. wkey[w] \in Key BY DEF TypeOK
  <1>9. /\ root' = IF wgp[w] = NULL THEN child[wpar[w]][o] ELSE root
        /\ \A n \in Nodes, j \in Nibs :
              child'[n][j] =
                 IF /\ wgp[w] # NULL
                    /\ n = wgp[w]
                    /\ j = slice_index(wkey[w], shift[wgp[w]])
                 THEN child[wpar[w]][o] ELSE child[n][j]
    BY <1>2, <1>6, <1>7, <1>8, StoreAtFacts
  <1>10. /\ UNCHANGED <<lkey, lval, shift, deleted_node, deleted_leaf>>
         /\ UNCHANGED remove_count
    BY DEF RemoveCollapse, pools
  <1> QED BY <1>1, <1>2, <1>3, <1>5, <1>7, <1>9, <1>10

-----------------------------------------------------------------------------
(* Each part of the invariant is preserved by every step of a writer.      *)

\* What a step needs for the tree to stay as it is.
LEMMA TreeFrame ==
    ASSUME TypeOK, TypeOK', InvTree, root' = root,
           \A x \in Obj : st'[x] = "live" <=> st[x] = "live",
           \A n \in Nodes : st[n] = "live" =>
              \A i \in Nibs : child'[n][i] = child[n][i]
    PROVE  InvTree'
  <1>1. \A n \in Nodes : n \in Obj BY DEF Obj
  <1>2. \A x \in Ptr : x # NULL => x \in Obj BY DEF Ptr
  <1>3. root \in Ptr /\ \A n \in Nodes, i \in Nibs : child[n][i] \in Ptr
    BY DEF TypeOK
  <1> QED BY <1>1, <1>2, <1>3 DEF InvTree, NullOr

\* Every writer step keeps the tree a tree of live blocks without sharing.
LEMMA TreeStep ==
    ASSUME TypeOK, TypeOK', InvTree, InvPoolNodes, InvPoolLeaves, InvPending,
           InvLock, InvDel, InvInsert, InvRemove,
           NEW w \in Writers, WriterNext(w)
    PROVE  InvTree'
<1>0. /\ \A n \in Nodes : n \in Obj /\ n # NULL
      /\ \A l \in Leaves : l \in Obj /\ l # NULL
      /\ \A n \in Nodes : n \notin Leaves
      /\ \A x \in Ptr : x # NULL => x \in Obj
      /\ root \in Ptr
      /\ \A n \in Nodes, i \in Nibs : child[n][i] \in Ptr
  BY PtrAssumption DEF Obj, Ptr, TypeOK
<1>1. CASE Quiet(w) BY <1>1, QuietFacts, TreeFrame
<1>2. CASE InsertAllocLeaf(w)
  <2>1. root' = root /\ child' = child BY <1>2 DEF InsertAllocLeaf, heap
  <2>2. \A x \in Obj : st'[x] = "live" <=> st[x] = "live"
    BY <1>2, <1>0, AllocLeafFacts
  <2> QED BY <2>1, <2>2, TreeFrame
<1>3. CASE InsertAllocNode(w)
  <2>1. root' = root /\ child' = child BY <1>3 DEF InsertAllocNode, heap
  <2>2. \A x \in Obj : st'[x] = "live" <=> st[x] = "live"
    BY <1>3, <1>0, AllocNodeFacts
  <2> QED BY <2>1, <2>2, TreeFrame
<1>4. CASE InsertSetValue(w) \/ RemoveCount(w) \/ RemoveKeep(w)
  <2>1. root' = root /\ child' = child /\ st' = st
    BY <1>4 DEF InsertSetValue, RemoveCount, RemoveKeep, heap, aux
  <2> QED BY <2>1, TreeFrame
<1>5. CASE InsertExists(w) \/ InsertNoNode(w)
  <2>1. root' = root /\ child' = child /\ 
        \A x \in Obj : st'[x] = "live" <=> st[x] = "live"
    BY <1>5, <1>0, DropLeafFacts
  <2> QED BY <2>1, TreeFrame
<1>6. CASE InsertClear(w)
  <2>1. st[wm[w]] = "held" BY <1>6 DEF InsertClear, InvInsert, Is
  <2>2. \A n \in Nodes : st[n] = "live" => child'[n] = child[n]
    BY <1>6, <2>1 DEF InsertClear, TypeOK
  <2>3. root' = root /\ st' = st BY <1>6 DEF InsertClear, aux
  <2> QED BY <2>2, <2>3, TreeFrame
<1>7. CASE InsertLink(w)
  <2>1. st[wm[w]] = "held" BY <1>7 DEF InsertLink, InvInsert, Is
  <2>2. \A n \in Nodes : st[n] = "live" =>
           \A i \in Nibs : child'[n][i] = child[n][i]
    BY <1>7, <2>1, LinkFacts
  <2>3. root' = root /\ st' = st BY <1>7 DEF InsertLink, aux
  <2> QED BY <2>2, <2>3, TreeFrame
<1>8. CASE InsertInSlot(w)
  <2>1. \A n \in Nodes, i \in Nibs :
           st[n] = "live" => child[n][i] # wk[w] /\ n # wk[w]
    BY <1>8, <1>0, InSlotFacts DEF InvTree, NullOr
  <2>2. root # wk[w] BY <1>8, <1>0, InSlotFacts DEF InvTree, NullOr
  <2>3. \A n \in Nodes : st'[n] = "live" <=> st[n] = "live"
    BY <1>8, <1>0, InSlotFacts
  <2>4. NullOr(root, "live")'
    BY <1>8, <1>0, InSlotFacts DEF InvTree, NullOr
  <2>5. \A n \in Nodes : st'[n] = "live" =>
          \A i \in Nibs : /\ NullOr(child[n][i], "live")'
                          /\ child'[n][i] # NULL => child'[n][i] # root'
    BY <1>8, <1>0, <2>1, <2>2, <2>3, InSlotFacts DEF InvTree, NullOr, Slot
  <2>6. \A m, n \in Nodes : st'[m] = "live" /\ st'[n] = "live" =>
          \A i, j \in Nibs :
             child'[m][i] = child'[n][j] /\ child'[m][i] # NULL
             => m = n /\ i = j
    BY <1>8, <1>0, <2>1, <2>3, InSlotFacts DEF InvTree
  <2> QED BY <2>4, <2>5, <2>6 DEF InvTree
<1>9. CASE InsertPublish(w)
  <2> DEFINE k == wk[w]
             m == wm[w]
             nn == wn[w]
             s == slice_index(wkey[w], shift[wpar[w]])
  <2>1. /\ k \in Leaves /\ m \in Nodes /\ k # m /\ nn \in Obj
        /\ st[k] = "held" /\ st[m] = "held"
        /\ wpar[w] # NULL => wpar[w] \in Nodes /\ st[wpar[w]] = "live"
        /\ nn = IF wpar[w] = NULL THEN root ELSE child[wpar[w]][s]
        /\ wpar[w] # NULL => s \in Nibs
        /\ nn # NULL
    BY <1>9, <1>0, PublishFacts, KeyFacts, PtrAssumption
       DEF NullOr, Slot, TypeOK, Obj
  <2>2. /\ \A i \in Nibs : child[m][i] \in {NULL, k, nn}
        /\ \A i, j \in Nibs : child[m][i] = child[m][j] /\ child[m][i] # NULL
                              => i = j
    BY <1>9 DEF InsertPublish, InvInsert
  <2>3. /\ root' = IF wpar[w] = NULL THEN m ELSE root
        /\ \A n \in Nodes, j \in Nibs :
              child'[n][j] = IF wpar[w] # NULL /\ n = wpar[w] /\ j = s
                             THEN m ELSE child[n][j]
        /\ \A y \in Obj : st'[y] = IF y = m \/ y = k THEN "live" ELSE st[y]
    BY <1>9, PublishFacts
  <2> HIDE DEF k, m, nn, s
  <2>4. /\ st[nn] = "live" /\ nn # k /\ nn # m
        /\ \A n \in Nodes, i \in Nibs : st[n] = "live" =>
              child[n][i] # k /\ child[n][i] # m
        /\ root # k /\ root # m
    BY <1>0, <2>1 DEF InvTree, NullOr
  <2>5. NullOr(root, "live")'
    BY <1>0, <2>1, <2>3 DEF InvTree, NullOr
  <2>6. \A n \in Nodes : st'[n] = "live" <=> n = m \/ st[n] = "live"
    BY <1>0, <2>1, <2>3
  <2>7. \A i \in Nibs : child'[m][i] = child[m][i]
    BY <2>1, <2>3
  <2>8. \A n \in Nodes : st[n] = "live" => \A i \in Nibs : child'[n][i] # nn
    <3>1. CASE wpar[w] = NULL BY <3>1, <2>1, <2>3, <2>4 DEF InvTree
    <3>2. CASE wpar[w] # NULL BY <3>2, <2>1, <2>3, <2>4 DEF InvTree
    <3> QED BY <3>1, <3>2
  <2>9. ASSUME NEW n \in Nodes, st'[n] = "live", NEW i \in Nibs
        PROVE  /\ NullOr(child[n][i], "live")'
               /\ child'[n][i] # NULL => child'[n][i] # root'
    <3>1. CASE n = m
      BY <3>1, <1>0, <2>1, <2>2, <2>3, <2>4, <2>7 DEF InvTree, NullOr
    <3>2. CASE n # m
      <4>1. st[n] = "live" BY <3>2, <2>6, <2>9
      <4>2. CASE wpar[w] # NULL /\ n = wpar[w] /\ i = s
        BY <4>2, <1>0, <2>1, <2>3, <2>4 DEF NullOr
      <4>3. CASE ~(wpar[w] # NULL /\ n = wpar[w] /\ i = s)
        BY <4>1, <4>3, <1>0, <2>1, <2>3, <2>4 DEF InvTree, NullOr
      <4> QED BY <4>2, <4>3
    <3> QED BY <3>1, <3>2
  <2>10. ASSUME NEW a \in Nodes, NEW b \in Nodes,
                st'[a] = "live", st'[b] = "live", NEW i \in Nibs, NEW j \in Nibs,
                child'[a][i] = child'[b][j], child'[a][i] # NULL
         PROVE  a = b /\ i = j
    <3>1. CASE a = m /\ b = m BY <3>1, <2>2, <2>7, <2>10
    <3>2. CASE a = m /\ b # m
      <4>1. st[b] = "live" BY <3>2, <2>6, <2>10
      <4>2. child'[a][i] \in {k, nn} BY <3>2, <2>2, <2>7, <2>10
      <4> QED BY <4>1, <4>2, <2>3, <2>4, <2>8, <2>10, <2>1
    <3>3. CASE a # m /\ b = m
      <4>1. st[a] = "live" BY <3>3, <2>6, <2>10
      <4>2. child'[b][j] \in {k, nn} BY <3>3, <2>2, <2>7, <2>10
      <4> QED BY <4>1, <4>2, <2>3, <2>4, <2>8, <2>10, <2>1
    <3>4. CASE a # m /\ b # m
      <4>1. st[a] = "live" /\ st[b] = "live" BY <3>4, <2>6, <2>10
      <4> QED BY <4>1, <2>1, <2>3, <2>4, <2>10 DEF InvTree
    <3> QED BY <3>1, <3>2, <3>3, <3>4
  <2> QED BY <2>5, <2>9, <2>10 DEF InvTree
<1>10. CASE RemoveFreeNode(w)
  <2> DEFINE x == pending_del_nodes[wdel[w]]
  <2>1. /\ x \in Nodes \cup {NULL}
        /\ x # NULL => st[x] = "gone"
        /\ root' = root
        /\ \A n \in Nodes, j \in Nibs : n # x => child'[n][j] = child[n][j]
        /\ \A y \in Obj : st'[y] = IF y = x THEN "pool" ELSE st[y]
    BY <1>10, RemoveFreeNodeFacts DEF Waiting
  <2> HIDE DEF x
  <2>2. \A y \in Obj : st'[y] = "live" <=> st[y] = "live"
    BY <2>1, <1>0, PtrAssumption DEF Obj
  <2>3. \A n \in Nodes : st[n] = "live" =>
           \A i \in Nibs : child'[n][i] = child[n][i]
    BY <2>1, <1>0
  <2> QED BY <2>1, <2>2, <2>3, TreeFrame
<1>11. CASE RemoveFreeLeaf(w)
  <2> DEFINE x == pending_del_leaves[wdel[w]]
  <2>1. /\ x \in Leaves \cup {NULL}
        /\ x # NULL => st[x] = "gone"
        /\ root' = root /\ child' = child
        /\ \A y \in Obj : st'[y] = IF y = x THEN "pool" ELSE st[y]
    BY <1>11, RemoveFreeLeafFacts DEF Waiting
  <2> HIDE DEF x
  <2>2. \A y \in Obj : st'[y] = "live" <=> st[y] = "live"
    BY <2>1, <1>0, PtrAssumption DEF Obj
  <2> QED BY <2>1, <2>2, TreeFrame
<1>12. CASE RemoveRoot(w) \/ RemoveUnlink(w)
  <2> DEFINE x == wn[w]
             s == slice_index(wkey[w], shift[wpar[w]])
  <2>1. /\ x \in Leaves /\ st[x] = "live"
        /\ wpar[w] # NULL => wpar[w] \in Nodes /\ st[wpar[w]] = "live"
        /\ x = IF wpar[w] = NULL THEN root ELSE child[wpar[w]][s]
        /\ wpar[w] # NULL => s \in Nibs
        /\ root' = IF wpar[w] = NULL THEN NULL ELSE root
        /\ \A n \in Nodes, j \in Nibs :
              child'[n][j] = IF wpar[w] # NULL /\ n = wpar[w] /\ j = s
                             THEN NULL ELSE child[n][j]
        /\ \A y \in Obj : st'[y] = IF y = x THEN "gone" ELSE st[y]
    BY <1>12, UnlinkFacts, KeyFacts DEF NullOr, Slot, TypeOK
  <2> HIDE DEF x, s
  <2>2. root' # x /\ \A n \in Nodes, i \in Nibs : st[n] = "live" =>
           child'[n][i] # x
    BY <1>0, <2>1 DEF InvTree
  <2>3. \A n \in Nodes : st'[n] = "live" <=> st[n] = "live"
    BY <1>0, <2>1
  <2> QED BY <1>0, <2>1, <2>2, <2>3 DEF InvTree, NullOr
<1>13. CASE RemoveCollapse(w)
  <2> DEFINE x == wpar[w]
             g == wgp[w]
             s == slice_index(wkey[w], shift[g])
  <2>1. /\ x \in Nodes /\ st[x] = "live" /\ g # x
        /\ g # NULL => g \in Nodes /\ st[g] = "live" /\ s \in Nibs
        /\ x = IF g = NULL THEN root ELSE child[g][s]
        /\ \A y \in Obj : st'[y] = IF y = x THEN "gone" ELSE st[y]
    BY <1>13, CollapseFacts DEF NullOr, Slot
  <2>2. PICK o \in Nibs :
           /\ child[x][o] # NULL
           /\ root' = IF g = NULL THEN child[x][o] ELSE root
           /\ \A n \in Nodes, j \in Nibs :
                 child'[n][j] = IF g # NULL /\ n = g /\ j = s
                                THEN child[x][o] ELSE child[n][j]
    BY <1>13, CollapseFacts
  <2> DEFINE c == child[x][o]
  <2> HIDE DEF x, g, s
  <2>3. /\ c # NULL /\ c \in Obj /\ st[c] = "live" /\ c # x
        /\ c # root
        /\ \A n \in Nodes, i \in Nibs : st[n] = "live" /\ child[n][i] = c
              => n = x
    BY <1>0, <2>1, <2>2 DEF InvTree, NullOr
  <2>4. \A n \in Nodes : st'[n] = "live" <=> st[n] = "live" /\ n # x
    BY <1>0, <2>1
  <2>5. root' # x /\ \A n \in Nodes, i \in Nibs : st[n] = "live" =>
           child'[n][i] # x
    <3>1. CASE g = NULL BY <3>1, <1>0, <2>1, <2>2, <2>3 DEF InvTree
    <3>2. CASE g # NULL BY <3>2, <1>0, <2>1, <2>2, <2>3 DEF InvTree
    <3> QED BY <3>1, <3>2
  <2>6. NullOr(root, "live")'
    BY <1>0, <2>1, <2>2, <2>3, <2>5 DEF InvTree, NullOr
  <2>7. ASSUME NEW n \in Nodes, st'[n] = "live", NEW i \in Nibs
        PROVE  /\ NullOr(child[n][i], "live")'
               /\ child'[n][i] # NULL => child'[n][i] # root'
    <3>1. st[n] = "live" /\ n # x BY <2>4, <2>7
    <3>2. NullOr(child[n][i], "live")'
      BY <3>1, <1>0, <2>1, <2>2, <2>3, <2>5 DEF InvTree, NullOr
    <3>3. child'[n][i] # NULL => child'[n][i] # root'
      BY <3>1, <1>0, <2>1, <2>2, <2>3 DEF InvTree
    <3> QED BY <3>2, <3>3
  <2>8. ASSUME NEW a \in Nodes, NEW b \in Nodes,
               st'[a] = "live", st'[b] = "live", NEW i \in Nibs, NEW j \in Nibs,
               child'[a][i] = child'[b][j], child'[a][i] # NULL
        PROVE  a = b /\ i = j
    <3>1. st[a] = "live" /\ a # x /\ st[b] = "live" /\ b # x
      BY <2>4, <2>8
    <3> QED BY <3>1, <2>1, <2>2, <2>3, <2>8 DEF InvTree
  <2> QED BY <2>6, <2>7, <2>8 DEF InvTree
<1> QED BY <1>1, <1>2, <1>3, <1>4, <1>5, <1>6, <1>7, <1>8, <1>9, <1>10,
           <1>11, <1>12, <1>13, QuietOrLoud DEF Loud

\* No writer step makes a pointer to a block malloc still has, and no block
\* goes back to malloc.
LEMMA RawStep ==
    ASSUME TypeOK, TypeOK', InvRaw, InvTree, InvPoolNodes, InvPoolLeaves,
           InvPending, InvLock, InvDel, InvInsert, InvRemove,
           NEW w \in Writers, WriterNext(w)
    PROVE  InvRaw' /\ \A x \in Obj : st[x] # "raw" => st'[x] # "raw"
<1>0. /\ \A n \in Nodes : n \in Obj /\ n # NULL
      /\ \A l \in Leaves : l \in Obj /\ l # NULL
      /\ \A x \in Ptr : x # NULL => x \in Obj
      /\ root \in Ptr
      /\ \A n \in Nodes, i \in Nibs : child[n][i] \in Ptr
  BY PtrAssumption DEF Obj, Ptr, TypeOK
<1>f. ASSUME \A x \in Obj : st[x] # "raw" => st'[x] # "raw",
             root' \in {root, NULL} \/ (root' \in Obj /\ st'[root'] # "raw"),
             \A n \in Nodes, i \in Nibs :
                \/ child'[n][i] \in {child[n][i], NULL}
                \/ (child'[n][i] \in Obj /\ st'[child'[n][i]] # "raw")
      PROVE  InvRaw'
  BY <1>f, <1>0 DEF InvRaw
<1>1. CASE Quiet(w) BY <1>1, <1>f, QuietFacts
<1>2. CASE InsertAllocLeaf(w)
  <2>1. root' = root /\ child' = child BY <1>2 DEF InsertAllocLeaf, heap
  <2>2. \A x \in Obj : st[x] # "raw" => st'[x] # "raw"
    BY <1>2, AllocLeafFacts
  <2> QED BY <2>1, <2>2, <1>f
<1>3. CASE InsertAllocNode(w)
  <2>1. root' = root /\ child' = child BY <1>3 DEF InsertAllocNode, heap
  <2>2. \A x \in Obj : st[x] # "raw" => st'[x] # "raw"
    BY <1>3, AllocNodeFacts
  <2> QED BY <2>1, <2>2, <1>f
<1>4. CASE InsertSetValue(w) \/ RemoveCount(w) \/ RemoveKeep(w)
  <2>1. root' = root /\ child' = child /\ st' = st
    BY <1>4 DEF InsertSetValue, RemoveCount, RemoveKeep, heap, aux
  <2> QED BY <2>1, <1>f
<1>5. CASE InsertExists(w) \/ InsertNoNode(w)
  <2>1. root' = root /\ child' = child
        /\ \A x \in Obj : st[x] # "raw" => st'[x] # "raw"
    BY <1>5, DropLeafFacts
  <2> QED BY <2>1, <1>f
<1>6. CASE InsertClear(w)
  <2>1. \A n \in Nodes, i \in Nibs : child'[n][i] \in {child[n][i], NULL}
    BY <1>6 DEF InsertClear, TypeOK
  <2>2. root' = root /\ st' = st BY <1>6 DEF InsertClear, aux
  <2> QED BY <2>1, <2>2, <1>f
<1>7. CASE InsertLink(w)
  <2>1. /\ wk[w] \in Leaves /\ st[wk[w]] = "held"
        /\ wn[w] \in Obj /\ wn[w] = Slot(wpar[w], wkey[w])
        /\ wpar[w] # NULL => wpar[w] \in Nodes
        /\ wpar[w] # NULL => slice_index(wkey[w], shift[wpar[w]]) \in Nibs
    <3>1. wk[w] \in Leaves /\ st[wk[w]] = "held" /\ wn[w] # NULL
          /\ wn[w] = Slot(wpar[w], wkey[w])
      BY <1>7 DEF InsertLink, InvInsert, Is, TypeOK
    <3>2. /\ wpar[w] # NULL => wpar[w] \in Nodes
          /\ wpar[w] # NULL => slice_index(wkey[w], shift[wpar[w]]) \in Nibs
          /\ wn[w] \in Ptr
      BY KeyFacts DEF TypeOK
    <3> QED BY <3>1, <3>2, <1>0
  <2>2. st[wk[w]] # "raw" /\ wk[w] \in Obj
    BY <2>1, <1>0
  <2>5. st[wn[w]] # "raw"
    <3>1. CASE wpar[w] = NULL BY <3>1, <2>1, <1>0, PtrAssumption DEF Slot, InvRaw, Obj
    <3>2. CASE wpar[w] # NULL BY <3>2, <2>1, <1>0, PtrAssumption DEF Slot, InvRaw, Obj
    <3> QED BY <3>1, <3>2
  <2>3. root' = root /\ st' = st BY <1>7 DEF InsertLink, aux
  <2>4. \A n \in Nodes, i \in Nibs : child'[n][i] \in {child[n][i], wk[w], wn[w]}
    BY <1>7, LinkFacts
  <2> QED BY <2>1, <2>2, <2>3, <2>4, <2>5, <1>f
<1>8. CASE InsertInSlot(w)
  <2>1. \A x \in Obj : st[x] # "raw" => st'[x] # "raw"
    BY <1>8, InSlotFacts
  <2>2. wk[w] \in Obj /\ st'[wk[w]] # "raw"
    BY <1>8, <1>0, InSlotFacts
  <2>3. /\ root' \in {root, wk[w]}
        /\ \A n \in Nodes, i \in Nibs : child'[n][i] \in {child[n][i], wk[w]}
    BY <1>8, InSlotFacts
  <2> QED BY <2>1, <2>2, <2>3, <1>f
<1>9. CASE InsertPublish(w)
  <2>1. \A x \in Obj : st[x] # "raw" => st'[x] # "raw"
    BY <1>9, PublishFacts
  <2>2. wm[w] \in Obj /\ st'[wm[w]] # "raw"
    BY <1>9, <1>0, PublishFacts
  <2>3. /\ root' \in {root, wm[w]}
        /\ \A n \in Nodes, i \in Nibs : child'[n][i] \in {child[n][i], wm[w]}
    BY <1>9, PublishFacts
  <2> QED BY <2>1, <2>2, <2>3, <1>f
<1>10. CASE RemoveFreeNode(w)
  <2>1. /\ root' = root
        /\ \A x \in Obj : st[x] # "raw" => st'[x] # "raw"
        /\ \A n \in Nodes, i \in Nibs :
              child'[n][i] \in {child[n][i], deleted_node}
    BY <1>10, RemoveFreeNodeFacts
  <2>2. deleted_node = NULL \/ (deleted_node \in Obj /\ st[deleted_node] = "pool")
    BY DEF InvPoolNodes, NullOr, TypeOK, Obj
  <2> QED BY <2>1, <2>2, <1>f
<1>11. CASE RemoveFreeLeaf(w)
  <2>1. /\ root' = root /\ child' = child
        /\ \A x \in Obj : st[x] # "raw" => st'[x] # "raw"
    BY <1>11, RemoveFreeLeafFacts
  <2> QED BY <2>1, <1>f
<1>12. CASE RemoveRoot(w) \/ RemoveUnlink(w)
  <2>1. /\ root' \in {root, NULL}
        /\ \A n \in Nodes, i \in Nibs : child'[n][i] \in {child[n][i], NULL}
        /\ \A x \in Obj : st[x] # "raw" => st'[x] # "raw"
    BY <1>12, UnlinkFacts
  <2> QED BY <2>1, <1>f
<1>13. CASE RemoveCollapse(w)
  <2>1. \A x \in Obj : st[x] # "raw" => st'[x] # "raw"
    BY <1>13, CollapseFacts
  <2>2. PICK o \in Nibs :
           /\ child[wpar[w]][o] # NULL
           /\ root' \in {root, child[wpar[w]][o]}
           /\ \A n \in Nodes, j \in Nibs :
                 child'[n][j] \in {child[n][j], child[wpar[w]][o]}
    BY <1>13, CollapseFacts
  <2>3. child[wpar[w]][o] \in Obj /\ st[child[wpar[w]][o]] # "raw"
    BY <1>13, <1>0, <2>2, CollapseFacts DEF InvRaw
  <2> QED BY <2>1, <2>2, <2>3, <1>f
<1> QED BY <1>1, <1>2, <1>3, <1>4, <1>5, <1>6, <1>7, <1>8, <1>9, <1>10,
           <1>11, <1>12, <1>13, QuietOrLoud DEF Loud

\* What a step needs for the pools to stay as they are.
LEMMA PoolNodesFrame ==
    ASSUME TypeOK, InvPoolNodes, deleted_node' = deleted_node,
           \A n \in Nodes : st'[n] = "pool" <=> st[n] = "pool",
           \A n \in Nodes : st[n] = "pool" => child'[n][0] = child[n][0]
    PROVE  InvPoolNodes'
  <1>1. deleted_node # NULL => deleted_node \in Nodes BY DEF TypeOK
  <1> QED BY <1>1 DEF InvPoolNodes, NullOr

\* Steps that leave the pool of leaves alone.
LEMMA PoolLeavesFrame ==
    ASSUME TypeOK, InvPoolLeaves, deleted_leaf' = deleted_leaf,
           \A l \in Leaves : st'[l] = "pool" <=> st[l] = "pool",
           \A l \in Leaves : st[l] = "pool" => lval'[l] = lval[l]
    PROVE  InvPoolLeaves'
  <1>1. deleted_leaf # NULL => deleted_leaf \in Leaves BY DEF TypeOK
  <1>2. \A l \in Leaves : st[l] = "pool" => lval[l] \in Leaves \cup {NULL}
    BY DEF InvPoolLeaves
  <1> QED BY <1>1, <1>2 DEF InvPoolLeaves, NullOr

\* A leaf that is not in the pool is pushed on it.
LEMMA PushLeaf ==
    ASSUME TypeOK, InvPoolLeaves, NEW k \in Leaves, st[k] # "pool",
           deleted_leaf' = k,
           \A l \in Leaves : lval'[l] = IF l = k THEN deleted_leaf ELSE lval[l],
           \A l \in Leaves : st'[l] = IF l = k THEN "pool" ELSE st[l]
    PROVE  InvPoolLeaves'
  <1>1. deleted_leaf # NULL => deleted_leaf \in Leaves BY DEF TypeOK
  <1>2. deleted_leaf \in Leaves \cup {NULL} BY DEF TypeOK
  <1> QED BY <1>1, <1>2 DEF InvPoolLeaves, NullOr

\* Every writer step keeps the pool of nodes a list of free blocks: a push
\* is of a block that was not in it, a pop takes the head.
LEMMA PoolNodesStep ==
    ASSUME TypeOK, InvTree, InvPoolNodes, InvPoolLeaves, InvPending, InvLock,
           InvDel, InvInsert, InvRemove, NEW w \in Writers, WriterNext(w)
    PROVE  InvPoolNodes'
<1>0. /\ \A n \in Nodes : n \in Obj /\ n # NULL /\ n \notin Leaves
      /\ \A l \in Leaves : l \in Obj /\ l # NULL
      /\ 0 \in Nibs
  BY PtrAssumption, KeyFacts DEF Obj
<1>1. CASE Quiet(w) BY <1>1, QuietFacts, PoolNodesFrame
<1>2. CASE InsertAllocLeaf(w)
  <2>1. deleted_node' = deleted_node /\ child' = child
    BY <1>2 DEF InsertAllocLeaf, heap
  <2>2. \A n \in Nodes : st'[n] = st[n] BY <1>2, <1>0, AllocLeafFacts
  <2> QED BY <2>1, <2>2, PoolNodesFrame
<1>3. CASE InsertAllocNode(w)
  <2>1. child' = child BY <1>3 DEF InsertAllocNode, heap
  <2>2. PICK m \in Nodes : /\ alloc_node(m)
                           /\ st[m] \in {"pool", "raw"}
                           /\ \A y \in Obj : st'[y] = IF y = m THEN "held"
                                                      ELSE st[y]
    BY <1>3, AllocNodeFacts
  <2>3. CASE deleted_node # NULL
    <3>1. m = deleted_node /\ deleted_node' = child[m][0]
          /\ st[m] = "pool"
      BY <2>2, <2>3 DEF alloc_node, InvPoolNodes, NullOr
    <3>2. \A n \in Nodes : st'[n] = IF n = m THEN "held" ELSE st[n]
      BY <2>2, <1>0
    <3> QED BY <3>1, <3>2, <2>1 DEF InvPoolNodes, NullOr
  <2>4. CASE deleted_node = NULL
    <3>1. st[m] = "raw" /\ deleted_node' = deleted_node
      BY <2>2, <2>4, MallocFact DEF alloc_node
    <3> QED BY <3>1, <2>1, <2>2, <1>0, PoolNodesFrame
  <2> QED BY <2>3, <2>4
<1>4. CASE InsertSetValue(w) \/ RemoveCount(w) \/ RemoveKeep(w)
  <2>1. deleted_node' = deleted_node /\ child' = child /\ st' = st
    BY <1>4 DEF InsertSetValue, RemoveCount, RemoveKeep, heap, aux, pools
  <2> QED BY <2>1, PoolNodesFrame
<1>5. CASE InsertExists(w) \/ InsertNoNode(w)
  <2>1. deleted_node' = deleted_node /\ child' = child
        /\ \A n \in Nodes : st'[n] = st[n]
    BY <1>5, <1>0, DropLeafFacts
  <2> QED BY <2>1, PoolNodesFrame
<1>6. CASE InsertClear(w)
  <2>1. st[wm[w]] = "held" BY <1>6 DEF InsertClear, InvInsert, Is
  <2>2. \A n \in Nodes : st[n] = "pool" => child'[n] = child[n]
    BY <1>6, <2>1 DEF InsertClear, TypeOK
  <2>3. deleted_node' = deleted_node /\ st' = st
    BY <1>6 DEF InsertClear, aux, pools
  <2> QED BY <2>2, <2>3, PoolNodesFrame
<1>7. CASE InsertLink(w)
  <2>1. st[wm[w]] = "held" BY <1>7 DEF InsertLink, InvInsert, Is
  <2>2. \A n \in Nodes : st[n] = "pool" => child'[n][0] = child[n][0]
    BY <1>7, <1>0, <2>1, LinkFacts
  <2>3. deleted_node' = deleted_node /\ st' = st
    BY <1>7 DEF InsertLink, aux, pools
  <2> QED BY <2>2, <2>3, PoolNodesFrame
<1>8. CASE InsertInSlot(w)
  <2>1. \A n \in Nodes : st[n] = "pool" => child'[n][0] = child[n][0]
    BY <1>8, <1>0, InSlotFacts DEF NullOr
  <2>2. \A n \in Nodes : st'[n] = st[n] BY <1>8, <1>0, InSlotFacts
  <2>3. deleted_node' = deleted_node BY <1>8 DEF InsertInSlot, pools
  <2> QED BY <2>1, <2>2, <2>3, PoolNodesFrame
<1>9. CASE InsertPublish(w)
  <2>1. \A n \in Nodes : st[n] = "pool" => child'[n][0] = child[n][0]
    BY <1>9, <1>0, PublishFacts DEF NullOr
  <2>2. \A n \in Nodes : st'[n] = "pool" <=> st[n] = "pool"
    BY <1>9, <1>0, PublishFacts
  <2>3. deleted_node' = deleted_node BY <1>9 DEF InsertPublish, pools
  <2> QED BY <2>1, <2>2, <2>3, PoolNodesFrame
<1>10. CASE RemoveFreeNode(w)
  <2> DEFINE x == pending_del_nodes[wdel[w]]
  <2>1. /\ x \in Nodes \cup {NULL}
        /\ x # NULL => st[x] = "gone"
        /\ deleted_node' = IF x = NULL THEN deleted_node ELSE x
        /\ \A n \in Nodes, j \in Nibs :
              child'[n][j] = IF n = x /\ j = 0 THEN deleted_node
                             ELSE child[n][j]
        /\ \A y \in Obj : st'[y] = IF y = x THEN "pool" ELSE st[y]
    BY <1>10, RemoveFreeNodeFacts DEF Waiting
  <2> HIDE DEF x
  <2>2. /\ \A n \in Nodes : st'[n] = IF n = x THEN "pool" ELSE st[n]
        /\ \A n \in Nodes : child'[n][0] = IF n = x THEN deleted_node
                                           ELSE child[n][0]
    BY <2>1, <1>0
  <2>3. CASE x = NULL BY <2>1, <2>2, <2>3, <1>0, PoolNodesFrame
  <2>4. CASE x # NULL
    <3>1. x \in Nodes /\ deleted_node' = x /\ st[x] # "pool"
      BY <2>1, <2>4
    <3>2. deleted_node # NULL => deleted_node \in Nodes BY DEF TypeOK
    <3> QED BY <3>1, <3>2, <2>2 DEF InvPoolNodes, NullOr
  <2> QED BY <2>3, <2>4
<1>11. CASE RemoveFreeLeaf(w)
  <2>1. /\ deleted_node' = deleted_node /\ child' = child
        /\ \A n \in Nodes : st'[n] = st[n]
    BY <1>11, <1>0, RemoveFreeLeafFacts
  <2> QED BY <2>1, PoolNodesFrame
<1>12. CASE RemoveRoot(w) \/ RemoveUnlink(w)
  <2>1. /\ \A n \in Nodes : st[n] = "pool" => child'[n][0] = child[n][0]
        /\ \A n \in Nodes : st'[n] = st[n]
        /\ deleted_node' = deleted_node
    BY <1>12, <1>0, UnlinkFacts DEF NullOr
  <2> QED BY <2>1, PoolNodesFrame
<1>13. CASE RemoveCollapse(w)
  <2>1. /\ \A n \in Nodes : st[n] = "pool" => child'[n][0] = child[n][0]
        /\ \A n \in Nodes : st'[n] = "pool" <=> st[n] = "pool"
        /\ deleted_node' = deleted_node
    BY <1>13, <1>0, CollapseFacts DEF NullOr
  <2> QED BY <2>1, PoolNodesFrame
<1> QED BY <1>1, <1>2, <1>3, <1>4, <1>5, <1>6, <1>7, <1>8, <1>9, <1>10,
           <1>11, <1>12, <1>13, QuietOrLoud DEF Loud

\* The same for the pool of leaves.
LEMMA PoolLeavesStep ==
    ASSUME TypeOK, InvTree, InvPoolNodes, InvPoolLeaves, InvPending, InvLock,
           InvDel, InvInsert, InvRemove, NEW w \in Writers, WriterNext(w)
    PROVE  InvPoolLeaves'
<1>0. /\ \A n \in Nodes : n \in Obj /\ n # NULL
      /\ \A l \in Leaves : l \in Obj /\ l # NULL /\ l \notin Nodes
  BY PtrAssumption DEF Obj
<1>1. CASE Quiet(w) BY <1>1, QuietFacts, PoolLeavesFrame
<1>2. CASE InsertAllocLeaf(w)
  <2>1. lval' = lval BY <1>2 DEF InsertAllocLeaf, heap
  <2>2. PICK k \in Leaves : /\ alloc_leaf(k)
                            /\ st[k] \in {"pool", "raw"}
                            /\ \A y \in Obj : st'[y] = IF y = k THEN "held"
                                                       ELSE st[y]
    BY <1>2, AllocLeafFacts
  <2>3. CASE deleted_leaf # NULL
    <3>1. k = deleted_leaf /\ deleted_leaf' = lval[k] /\ st[k] = "pool"
      BY <2>2, <2>3 DEF alloc_leaf, InvPoolLeaves, NullOr
    <3>2. \A l \in Leaves : st'[l] = IF l = k THEN "held" ELSE st[l]
      BY <2>2, <1>0
    <3> QED BY <3>1, <3>2, <2>1 DEF InvPoolLeaves, NullOr
  <2>4. CASE deleted_leaf = NULL
    <3>1. st[k] = "raw" /\ deleted_leaf' = deleted_leaf
      BY <2>2, <2>4, MallocFact DEF alloc_leaf
    <3> QED BY <3>1, <2>1, <2>2, <1>0, PoolLeavesFrame
  <2> QED BY <2>3, <2>4
<1>3. CASE InsertAllocNode(w)
  <2>1. deleted_leaf' = deleted_leaf /\ lval' = lval
    BY <1>3 DEF InsertAllocNode, heap
  <2>2. \A l \in Leaves : st'[l] = st[l] BY <1>3, <1>0, AllocNodeFacts
  <2> QED BY <2>1, <2>2, PoolLeavesFrame
<1>4. CASE InsertSetValue(w)
  <2>1. st[wk[w]] = "held" BY <1>4 DEF InsertSetValue, InvInsert, Is
  <2>2. \A l \in Leaves : st[l] = "pool" => lval'[l] = lval[l]
    BY <1>4, <2>1 DEF InsertSetValue, TypeOK
  <2>3. deleted_leaf' = deleted_leaf /\ st' = st
    BY <1>4 DEF InsertSetValue, pools, aux
  <2> QED BY <2>2, <2>3, PoolLeavesFrame
<1>5. CASE InsertExists(w) \/ InsertNoNode(w)
  <2>1. /\ wk[w] \in Leaves /\ st[wk[w]] # "pool"
        /\ deleted_leaf' = wk[w]
        /\ \A l \in Leaves :
              lval'[l] = IF l = wk[w] THEN deleted_leaf ELSE lval[l]
        /\ \A l \in Leaves : st'[l] = IF l = wk[w] THEN "pool" ELSE st[l]
    BY <1>5, <1>0, DropLeafFacts
  <2> QED BY <2>1, PushLeaf
<1>6. CASE InsertClear(w) \/ InsertLink(w) \/ RemoveCount(w) \/ RemoveKeep(w)
  <2>1. deleted_leaf' = deleted_leaf /\ lval' = lval /\ st' = st
    BY <1>6 DEF InsertClear, InsertLink, RemoveCount, RemoveKeep, pools, heap,
                aux
  <2> QED BY <2>1, PoolLeavesFrame
<1>7. CASE InsertInSlot(w)
  <2>1. deleted_leaf' = deleted_leaf /\ lval' = lval
    BY <1>7 DEF InsertInSlot, pools
  <2>2. \A l \in Leaves : st'[l] = "pool" <=> st[l] = "pool"
    BY <1>7, <1>0, InSlotFacts
  <2> QED BY <2>1, <2>2, PoolLeavesFrame
<1>8. CASE InsertPublish(w)
  <2>1. deleted_leaf' = deleted_leaf /\ lval' = lval
    BY <1>8 DEF InsertPublish, pools
  <2>2. \A l \in Leaves : st'[l] = "pool" <=> st[l] = "pool"
    BY <1>8, <1>0, PublishFacts
  <2> QED BY <2>1, <2>2, PoolLeavesFrame
<1>9. CASE RemoveFreeNode(w)
  <2>1. /\ deleted_leaf' = deleted_leaf /\ lval' = lval
        /\ \A l \in Leaves : st'[l] = st[l]
    BY <1>9, <1>0, RemoveFreeNodeFacts
  <2> QED BY <2>1, PoolLeavesFrame
<1>10. CASE RemoveFreeLeaf(w)
  <2> DEFINE x == pending_del_leaves[wdel[w]]
  <2>1. /\ x \in Leaves \cup {NULL}
        /\ x # NULL => st[x] = "gone"
        /\ deleted_leaf' = IF x = NULL THEN deleted_leaf ELSE x
        /\ \A l \in Leaves : lval'[l] = IF l = x THEN deleted_leaf ELSE lval[l]
        /\ \A y \in Obj : st'[y] = IF y = x THEN "pool" ELSE st[y]
    BY <1>10, RemoveFreeLeafFacts DEF Waiting
  <2> HIDE DEF x
  <2>2. \A l \in Leaves : st'[l] = IF l = x THEN "pool" ELSE st[l]
    BY <2>1, <1>0
  <2>3. CASE x = NULL BY <2>1, <2>2, <2>3, <1>0, PoolLeavesFrame
  <2>4. CASE x # NULL
    <3>1. x \in Leaves /\ deleted_leaf' = x /\ st[x] # "pool"
      BY <2>1, <2>4
    <3> QED BY <3>1, <2>1, <2>2, PushLeaf
  <2> QED BY <2>3, <2>4
<1>11. CASE RemoveRoot(w) \/ RemoveUnlink(w)
  <2>1. /\ deleted_leaf' = deleted_leaf /\ lval' = lval
        /\ \A l \in Leaves : st'[l] = "pool" <=> st[l] = "pool"
    BY <1>11, <1>0, UnlinkFacts
  <2> QED BY <2>1, PoolLeavesFrame
<1>12. CASE RemoveCollapse(w)
  <2>1. /\ deleted_leaf' = deleted_leaf /\ lval' = lval
        /\ \A l \in Leaves : st'[l] = st[l]
    BY <1>12, <1>0, CollapseFacts
  <2> QED BY <2>1, PoolLeavesFrame
<1> QED BY <1>1, <1>2, <1>3, <1>4, <1>5, <1>6, <1>7, <1>8, <1>9, <1>10,
           <1>11, <1>12, QuietOrLoud DEF Loud

\* A step of one writer leaves the locals of the others alone.
LEMMA OthersSame ==
    ASSUME TypeOK, NEW w \in Writers, WriterNext(w),
           NEW u \in Writers, u # w
    PROVE  /\ wpc'[u] = wpc[u] /\ wkey'[u] = wkey[u]
           /\ wk'[u] = wk[u] /\ wm'[u] = wm[u]
           /\ wn'[u] = wn[u] /\ wpar'[u] = wpar[u] /\ wgp'[u] = wgp[u]
           /\ wdel'[u] = wdel[u]
<1> USE DEF TypeOK, call, locals, Goto, Ret
<1>1. CASE CallInsert(w) \/ CallRemove(w)
  BY <1>1 DEF CallInsert, CallRemove, Call
<1>2. CASE Lock(w) \/ Unlock(w)
  BY <1>2 DEF Lock, Unlock
<1>3. CASE InsertAllocLeaf(w)
  BY <1>3 DEF InsertAllocLeaf
<1>4. CASE InsertNoLeaf(w) \/ InsertSetKey(w) \/ InsertSetValue(w)
  BY <1>4 DEF InsertNoLeaf, InsertSetKey, InsertSetValue
<1>5. CASE InsertDescend(w) \/ InsertInSlot(w) \/ InsertExists(w) \/ InsertNoNode(w)
  BY <1>5 DEF InsertDescend, InsertInSlot, InsertExists, InsertNoNode
<1>6. CASE InsertAllocNode(w)
  BY <1>6 DEF InsertAllocNode
<1>7. CASE InsertClear(w) \/ InsertLink(w) \/ InsertHead(w) \/ InsertPublish(w)
  BY <1>7 DEF InsertClear, InsertLink, InsertHead, InsertPublish
<1>8. CASE RemoveEmpty(w) \/ RemoveCount(w) \/ RemoveFreeNode(w) \/ RemoveFreeLeaf(w)
  BY <1>8 DEF RemoveEmpty, RemoveCount, RemoveFreeNode, RemoveFreeLeaf
<1>9. CASE RemoveDescend(w) \/ RemoveAbsent(w) \/ RemoveRoot(w)
  BY <1>9 DEF RemoveDescend, RemoveAbsent, RemoveRoot
<1>10. CASE RemoveUnlink(w) \/ RemoveKeep(w) \/ RemoveCollapse(w)
  BY <1>10 DEF RemoveUnlink, RemoveKeep, RemoveCollapse
<1> QED BY <1>1, <1>2, <1>3, <1>4, <1>5, <1>6, <1>7, <1>8, <1>9, <1>10
        DEF WriterNext, Run, Insert, Remove

\* While a writer is between lock and unlock, no other one is.
LEMMA OnlyOne ==
    ASSUME TypeOK, InvLock, NEW w \in Writers, wpc[w] \in Busy,
           WriterNext(w), NEW u \in Writers, u # w
    PROVE  wpc'[u] = wpc[u] /\ wpc[u] \notin Busy
  BY OthersSame DEF InvLock

\* Loud steps are made under the mutex.
LEMMA LoudBusy ==
    ASSUME NEW w \in Writers, Loud(w)
    PROVE  /\ wpc[w] \in Busy
           /\ WriterNext(w)
           /\ wpc[w] # "free_leaf" \/ RemoveFreeLeaf(w)
  <1>1. WriterNext(w) BY DEF Loud, WriterNext, Run, Insert, Remove
  <1>2. wpc[w] \in Busy
    BY DEF Loud, InsertAllocLeaf, InsertSetValue, InsertInSlot, InsertExists,
           InsertAllocNode, InsertNoNode, InsertClear, InsertLink,
           InsertPublish, RemoveCount, RemoveFreeNode, RemoveFreeLeaf,
           RemoveRoot, RemoveUnlink, RemoveKeep, RemoveCollapse, Diverges,
           Found, Busy, InsertPC, RemovePC
  <1>3. wpc[w] # "free_leaf" \/ RemoveFreeLeaf(w)
    BY DEF Loud, InsertAllocLeaf, InsertSetValue, InsertInSlot, InsertExists,
           InsertAllocNode, InsertNoNode, InsertClear, InsertLink,
           InsertPublish, RemoveCount, RemoveFreeNode,
           RemoveRoot, RemoveUnlink, RemoveKeep, RemoveCollapse, Diverges,
           Found
  <1> QED BY <1>1, <1>2, <1>3

\* Quiet steps are not the two that recycle.
LEMMA QuietNotFree ==
    ASSUME NEW w \in Writers, Quiet(w)
    PROVE  wpc[w] # "free_leaf" /\ WriterNext(w)
  <1>1. WriterNext(w) BY DEF Quiet, WriterNext, Run, Insert, Remove
  <1>2. wpc[w] # "free_leaf"
    BY DEF Quiet, CallInsert, CallRemove, Call, Lock, Unlock, InsertNoLeaf,
           InsertSetKey, InsertDescend, InsertHead, RemoveEmpty,
           RemoveDescend, RemoveAbsent
  <1> QED BY <1>1, <1>2

\* What a step needs for the blocks in their grace period to stay there.
LEMMA PendingFrame ==
    ASSUME TypeOK, InvPending, NEW w \in Writers, WriterNext(w),
           wpc[w] # "free_leaf",
           pending_del_nodes' = pending_del_nodes,
           pending_del_leaves' = pending_del_leaves,
           remove_count' \in Nat, remove_count' >= remove_count,
           \A x \in Obj : st[x] = "gone" =>
              st'[x] = "gone" /\ stamp'[x] = stamp[x]
    PROVE  InvPending'
  <1>1. \A u \in Writers : wpc[u] = "free_leaf" =>
           wpc'[u] = "free_leaf" /\ wdel'[u] = wdel[u]
    BY OthersSame
  <1>2. \A i \in Slots :
           /\ pending_del_nodes[i] # NULL => pending_del_nodes[i] \in Obj
           /\ pending_del_leaves[i] # NULL => pending_del_leaves[i] \in Obj
    BY DEF TypeOK, Obj
  <1>3. ASSUME NEW x \in Obj, NEW i \in Slots, Waiting(x, i)
        PROVE  st'[x] = "gone" /\ stamp'[x] % DELETED_LIFE = i
               /\ stamp'[x] < remove_count'
    <2>1. stamp[x] \in Nat /\ remove_count \in Nat BY DEF TypeOK
    <2> QED BY <1>3, <2>1 DEF Waiting
  <1> QED BY <1>1, <1>2, <1>3 DEF InvPending, Waiting

\* Every writer step keeps in slot i only blocks whose remove had number i
\* modulo DELETED_LIFE.
LEMMA PendingStep ==
    ASSUME TypeOK, TypeOK', InvTree, InvPoolNodes, InvPoolLeaves, InvPending,
           InvLock, InvDel, InvInsert, InvRemove,
           NEW w \in Writers, WriterNext(w)
    PROVE  InvPending'
<1>0. /\ \A n \in Nodes : n \in Obj /\ n # NULL /\ n \notin Leaves
      /\ \A l \in Leaves : l \in Obj /\ l # NULL
      /\ \A i \in Slots :
           /\ pending_del_nodes[i] \in Nodes \cup {NULL}
           /\ pending_del_leaves[i] \in Leaves \cup {NULL}
      /\ remove_count \in Nat /\ remove_count' \in Nat /\ wdel[w] \in Slots
  BY PtrAssumption DEF Obj, TypeOK
<1>1. CASE Quiet(w)
  <2>1. remove_count' >= remove_count BY <1>0, <1>1, QuietFacts
  <2> QED BY <1>0, <1>1, <2>1, QuietFacts, QuietNotFree, PendingFrame
<1>2. CASE Loud(w)
  <2>0. \/ wpc[w] # "free_leaf"
        \/ RemoveFreeLeaf(w)
    BY <1>2, LoudBusy
  <2>1. CASE InsertAllocLeaf(w)
    <3>1. UNCHANGED <<pending_del_nodes, pending_del_leaves, remove_count>>
          /\ wpc[w] # "free_leaf"
      BY <2>1 DEF InsertAllocLeaf, pending
    <3>2. \A x \in Obj : st[x] = "gone" => st'[x] = "gone" /\ stamp'[x] = stamp[x]
      BY <2>1, <1>0, AllocLeafFacts
    <3> QED BY <3>1, <3>2, <1>0, PendingFrame
  <2>2. CASE InsertAllocNode(w)
    <3>1. UNCHANGED <<pending_del_nodes, pending_del_leaves, remove_count>>
          /\ wpc[w] # "free_leaf"
      BY <2>2 DEF InsertAllocNode, pending, Diverges
    <3>2. \A x \in Obj : st[x] = "gone" => st'[x] = "gone" /\ stamp'[x] = stamp[x]
      BY <2>2, <1>0, AllocNodeFacts
    <3> QED BY <3>1, <3>2, <1>0, PendingFrame
  <2>3. CASE InsertSetValue(w) \/ InsertClear(w) \/ InsertLink(w)
    <3>1. UNCHANGED <<pending_del_nodes, pending_del_leaves, remove_count>>
          /\ wpc[w] # "free_leaf" /\ UNCHANGED <<st, stamp>>
      BY <2>3 DEF InsertSetValue, InsertClear, InsertLink, pending, aux
    <3> QED BY <3>1, <1>0, PendingFrame
  <2>4. CASE RemoveCount(w)
    <3>1. UNCHANGED <<pending_del_nodes, pending_del_leaves, st, stamp>>
          /\ wpc[w] # "free_leaf" /\ remove_count' = remove_count + 1
      BY <2>4 DEF RemoveCount, pending, aux
    <3>2. remove_count' >= remove_count BY <3>1, <1>0
    <3> QED BY <3>1, <3>2, <1>0, PendingFrame
  <2>5. CASE InsertExists(w) \/ InsertNoNode(w)
    <3>1. UNCHANGED <<pending_del_nodes, pending_del_leaves, remove_count>>
          /\ \A x \in Obj : st[x] = "gone" =>
                st'[x] = "gone" /\ stamp'[x] = stamp[x]
      BY <2>5, <1>0, DropLeafFacts
    <3>2. wpc[w] # "free_leaf"
      BY <2>5 DEF InsertExists, InsertNoNode, Diverges
    <3> QED BY <3>1, <3>2, <1>0, PendingFrame
  <2>6. CASE InsertInSlot(w)
    <3>1. UNCHANGED <<pending_del_nodes, pending_del_leaves, remove_count>>
          /\ wpc[w] # "free_leaf"
      BY <2>6 DEF InsertInSlot, pending
    <3>2. \A x \in Obj : st[x] = "gone" => st'[x] = "gone" /\ stamp'[x] = stamp[x]
      BY <2>6, <1>0, InSlotFacts
    <3> QED BY <3>1, <3>2, <1>0, PendingFrame
  <2>7. CASE InsertPublish(w)
    <3>1. UNCHANGED <<pending_del_nodes, pending_del_leaves, remove_count>>
          /\ wpc[w] # "free_leaf"
      BY <2>7 DEF InsertPublish, pending
    <3>2. \A x \in Obj : st[x] = "gone" => st'[x] = "gone" /\ stamp'[x] = stamp[x]
      BY <2>7, <1>0, PublishFacts
    <3> QED BY <3>1, <3>2, <1>0, PendingFrame
  <2>8. CASE RemoveUnlink(w)
    <3>1. UNCHANGED <<pending_del_nodes, pending_del_leaves, remove_count>>
          /\ wpc[w] # "free_leaf"
      BY <2>8 DEF RemoveUnlink, pending, Found
    <3>2. \A x \in Obj : st[x] = "gone" => st'[x] = "gone" /\ stamp'[x] = stamp[x]
      BY <2>8, <1>0, UnlinkFacts
    <3> QED BY <3>1, <3>2, <1>0, PendingFrame
  <2>n. ASSUME wpc[w] # "free_leaf"
        PROVE  \A i \in Slots : pending_del_nodes[i] # NULL =>
                  Waiting(pending_del_nodes[i], i)
    <3>1. \A u \in Writers : wpc[u] # "free_leaf"
      BY <2>n, <1>2, LoudBusy DEF InvLock, Busy, RemovePC
    <3> QED BY <3>1 DEF InvPending
  <2>9. CASE RemoveRoot(w)
    <3>1. /\ wn[w] \in Leaves /\ st[wn[w]] = "live"
          /\ remove_count > 0 /\ wdel[w] = (remove_count - 1) % DELETED_LIFE
          /\ UNCHANGED <<pending_del_nodes, remove_count>>
          /\ \A y \in Obj :
               /\ st'[y] = IF y = wn[w] THEN "gone" ELSE st[y]
               /\ stamp'[y] = IF y = wn[w] THEN remove_count - 1 ELSE stamp[y]
      BY <2>9, UnlinkFacts
    <3>2. /\ wpc[w] # "free_leaf"
          /\ \A i \in Slots : pending_del_leaves'[i] =
                IF i = wdel[w] THEN wn[w] ELSE pending_del_leaves[i]
      BY <2>9 DEF RemoveRoot, Found, TypeOK
    <3>3. \A i \in Slots : pending_del_nodes[i] # NULL =>
             Waiting(pending_del_nodes[i], i)
      BY <3>2, <2>n
    <3> QED BY <3>1, <3>2, <3>3, <1>0 DEF InvPending, Waiting
  <2>10. CASE RemoveKeep(w)
    <3>1. /\ wn[w] \in Leaves /\ st[wn[w]] = "gone"
          /\ stamp[wn[w]] = remove_count - 1
          /\ remove_count > 0 /\ wdel[w] = (remove_count - 1) % DELETED_LIFE
      BY <2>10 DEF RemoveKeep, InvRemove, InvDel
    <3>2. /\ wpc[w] # "free_leaf"
          /\ UNCHANGED <<pending_del_nodes, remove_count, st, stamp>>
          /\ \A i \in Slots : pending_del_leaves'[i] =
                IF i = wdel[w] THEN wn[w] ELSE pending_del_leaves[i]
      BY <2>10 DEF RemoveKeep, TypeOK, aux
    <3>3. \A i \in Slots : pending_del_nodes[i] # NULL =>
             Waiting(pending_del_nodes[i], i)
      BY <3>2, <2>n
    <3> QED BY <3>1, <3>2, <3>3, <1>0 DEF InvPending, Waiting
  <2>11. CASE RemoveCollapse(w)
    <3>1. /\ wn[w] \in Leaves /\ st[wn[w]] = "gone"
          /\ stamp[wn[w]] = remove_count - 1
          /\ wpar[w] \in Nodes /\ st[wpar[w]] = "live"
          /\ remove_count > 0 /\ wdel[w] = (remove_count - 1) % DELETED_LIFE
          /\ UNCHANGED remove_count
          /\ \A y \in Obj :
               /\ st'[y] = IF y = wpar[w] THEN "gone" ELSE st[y]
               /\ stamp'[y] = IF y = wpar[w] THEN remove_count - 1 ELSE stamp[y]
      BY <2>11, CollapseFacts
    <3>2. /\ wpc[w] # "free_leaf"
          /\ \A i \in Slots :
               /\ pending_del_leaves'[i] =
                     IF i = wdel[w] THEN wn[w] ELSE pending_del_leaves[i]
               /\ pending_del_nodes'[i] =
                     IF i = wdel[w] THEN wpar[w] ELSE pending_del_nodes[i]
      BY <2>11 DEF RemoveCollapse, TypeOK
    <3>3. \A i \in Slots : pending_del_nodes[i] # NULL =>
             Waiting(pending_del_nodes[i], i)
      BY <3>2, <2>n
    <3> QED BY <3>1, <3>2, <3>3, <1>0 DEF InvPending, Waiting
  <2>12. CASE RemoveFreeNode(w)
    <3> DEFINE x == pending_del_nodes[wdel[w]]
    <3>1. /\ x \in Nodes \cup {NULL}
          /\ UNCHANGED <<pending_del_nodes, pending_del_leaves, remove_count>>
          /\ \A y \in Obj : /\ st'[y] = IF y = x THEN "pool" ELSE st[y]
                            /\ y # x => stamp'[y] = stamp[y]
      BY <2>12, RemoveFreeNodeFacts
    <3>2. /\ wpc[w] # "free_leaf" /\ wpc'[w] = "free_leaf"
          /\ wdel'[w] = wdel[w]
      BY <2>12 DEF RemoveFreeNode, Goto, locals, TypeOK
    <3>3. \A i \in Slots : pending_del_nodes[i] # NULL =>
             Waiting(pending_del_nodes[i], i)
      BY <3>2, <2>n
    <3>4. \A i \in Slots : i # wdel[w] /\ pending_del_nodes[i] # NULL =>
             pending_del_nodes[i] # x
      BY <3>3, <1>0 DEF Waiting
    <3> HIDE DEF x
    <3>5. \A i \in Slots : i # wdel[w] /\ pending_del_nodes'[i] # NULL =>
             Waiting(pending_del_nodes[i], i)'
      BY <3>1, <3>3, <3>4, <1>0 DEF Waiting
    <3>6. \A i \in Slots : pending_del_leaves'[i] # NULL =>
             Waiting(pending_del_leaves[i], i)'
      BY <3>1, <1>0 DEF InvPending, Waiting
    <3> QED BY <3>2, <3>5, <3>6 DEF InvPending
  <2>13. CASE RemoveFreeLeaf(w)
    <3> DEFINE x == pending_del_leaves[wdel[w]]
    <3>1. /\ x \in Leaves \cup {NULL}
          /\ UNCHANGED remove_count
          /\ \A i \in Slots :
                /\ pending_del_nodes'[i] =
                      IF i = wdel[w] THEN NULL ELSE pending_del_nodes[i]
                /\ pending_del_leaves'[i] =
                      IF i = wdel[w] THEN NULL ELSE pending_del_leaves[i]
          /\ \A y \in Obj : /\ st'[y] = IF y = x THEN "pool" ELSE st[y]
                            /\ y # x => stamp'[y] = stamp[y]
      BY <2>13, RemoveFreeLeafFacts
    <3>2. \A u \in Writers : wpc[u] = "free_leaf" => u = w
      BY <1>2, LoudBusy DEF InvLock, Busy, RemovePC
    <3>3. \A i \in Slots : i # wdel[w] /\ pending_del_nodes[i] # NULL =>
             Waiting(pending_del_nodes[i], i)
      BY <3>2 DEF InvPending
    <3>4. \A i \in Slots : pending_del_leaves[i] # NULL =>
             Waiting(pending_del_leaves[i], i)
      BY DEF InvPending
    <3>5. \A i \in Slots : i # wdel[w] /\ pending_del_leaves[i] # NULL =>
             pending_del_leaves[i] # x
      BY <3>4, <1>0 DEF Waiting
    <3> HIDE DEF x
    <3>6. \A i \in Slots : pending_del_nodes'[i] # NULL =>
             Waiting(pending_del_nodes[i], i)'
      BY <3>1, <3>3, <1>0 DEF Waiting
    <3>7. \A i \in Slots : pending_del_leaves'[i] # NULL =>
             Waiting(pending_del_leaves[i], i)'
      BY <3>1, <3>4, <3>5, <1>0 DEF Waiting
    <3> QED BY <3>6, <3>7 DEF InvPending
  <2> QED BY <1>2, <2>1, <2>2, <2>3, <2>4, <2>5, <2>6, <2>7, <2>8, <2>9,
             <2>10, <2>11, <2>12, <2>13 DEF Loud
<1> QED BY <1>1, <1>2, QuietOrLoud

\* Two removes that use the same slot are DELETED_LIFE removes apart.
LEMMA SameSlot ==
    ASSUME NEW a \in Nat, NEW b \in Nat, NEW L \in Nat \ {0},
           a % L = b % L, a < b
    PROVE  a + L <= b
<1> DEFINE p == a \div L
           q == b \div L
           i == a % L
<1>1. p \in Nat /\ i \in Int /\ a = L*p + i
  <2>1. /\ a \div L \in Nat /\ a % L \in 0 .. L-1
        /\ a = L * (a \div L) + (a % L)
    BY DivMod
  <2> QED BY <2>1
<1>2. q \in Nat /\ b = L*q + i
  <2>1. /\ b \div L \in Nat /\ b % L \in 0 .. L-1
        /\ b = L * (b \div L) + (b % L)
    BY DivMod
  <2> QED BY <2>1
<1> HIDE DEF p, q, i
<1>3. ASSUME NEW x \in Nat, NEW y \in Nat, x < y
      PROVE  L*x + L <= L*y
  <2>1. L * (y - x - 1) >= 0 BY <1>3, SMT
  <2>2. L * (y - x - 1) = L*y - L*x - L BY SMT
  <2> QED BY <2>1, <2>2
<1>4. L*p \in Int /\ L*q \in Int BY <1>1, <1>2
<1>5. CASE p < q
  <2>1. L*p + L <= L*q BY <1>1, <1>2, <1>3, <1>5
  <2> QED BY <2>1, <1>1, <1>2, <1>4
<1>6. CASE p = q BY <1>1, <1>2, <1>4, <1>6
<1>7. CASE q < p
  <2>1. L*q + L <= L*p BY <1>1, <1>2, <1>3, <1>7
  <2> QED BY <2>1, <1>1, <1>2, <1>4
<1> QED BY <1>1, <1>2, <1>5, <1>6, <1>7

FreePC == {"free_node", "free_leaf", "find", "fix"}

\* When a remove takes its slot, what is in there was unlinked DELETED_LIFE
\* counted removes ago: the count is bumped before the slot is emptied.
LEMMA DelStep ==
    ASSUME TypeOK, TypeOK', InvTree, InvPoolNodes, InvPoolLeaves, InvPending,
           InvLock, InvDel, InvInsert, InvRemove,
           NEW w \in Writers, WriterNext(w)
    PROVE  InvDel'
<1> DEFINE Fine(u) ==
             /\ remove_count > 0
             /\ wdel[u] = (remove_count - 1) % DELETED_LIFE
             /\ wpc[u] = "free_node" => GraceOver(pending_del_nodes[wdel[u]])
             /\ wpc[u] \in {"free_node", "free_leaf"} =>
                   GraceOver(pending_del_leaves[wdel[u]])
<1>d. /\ InvDel <=> \A u \in Writers : wpc[u] \in FreePC => Fine(u)
      /\ InvDel' <=> \A u \in Writers : wpc'[u] \in FreePC => Fine(u)'
  BY DEF InvDel, FreePC
<1>1. CASE CallInsert(w) \/ CallRemove(w) \/ Lock(w) \/ Unlock(w)
  <2>1. /\ wpc'[w] \notin FreePC
        /\ UNCHANGED <<remove_count, stamp, pending_del_nodes, pending_del_leaves>>
    BY <1>1 DEF CallInsert, CallRemove, Call, Lock, Unlock, Goto, FreePC,
                TypeOK, pending, aux
  <2>2. ASSUME NEW u \in Writers, u # w, wpc'[u] \in FreePC
        PROVE  Fine(u)'
    <3>1. wpc'[u] = wpc[u] /\ wdel'[u] = wdel[u] BY <2>2, OthersSame
    <3>2. Fine(u) BY <3>1, <2>2, <1>d
    <3> QED BY <2>1, <3>1, <3>2 DEF GraceOver
  <2> QED BY <2>1, <2>2, <1>d
<1>2. ASSUME wpc[w] \in Busy, wpc'[w] \in FreePC => Fine(w)'
      PROVE  InvDel'
  <2>1. \A u \in Writers : u # w => wpc'[u] \notin Busy
    BY <1>2, OnlyOne
  <2>2. FreePC \subseteq Busy BY DEF FreePC, Busy, RemovePC
  <2> QED BY <2>1, <2>2, <1>2, <1>d
<1>3. CASE RemoveCount(w)
  <2>1. /\ wpc[w] \in Busy /\ wpc'[w] = "free_node"
        /\ remove_count' = remove_count + 1 /\ remove_count \in Nat
        /\ wdel'[w] = remove_count % DELETED_LIFE
        /\ UNCHANGED <<stamp, pending_del_nodes, pending_del_leaves>>
    BY <1>3 DEF RemoveCount, Goto, TypeOK, Busy, RemovePC, aux
  <2> DEFINE d == remove_count % DELETED_LIFE
  <2>2. d \in Slots BY <2>1, KeyFacts
  <2>3. \A u \in Writers : wpc[u] # "free_leaf"
    BY <1>3, <2>1 DEF RemoveCount, InvLock, Busy, RemovePC
  <2>4. ASSUME NEW x \in Obj, Waiting(x, d)
        PROVE  stamp[x] + DELETED_LIFE < remove_count + 1
    <3>1. stamp[x] \in Nat /\ DELETED_LIFE \in Nat \ {0}
      BY SizeAssumption DEF TypeOK
    <3>2. stamp[x] + DELETED_LIFE <= remove_count
      BY <3>1, <2>1, <2>4, SameSlot DEF Waiting
    <3> QED BY <3>1, <3>2, <2>1
  <2>5. /\ pending_del_nodes[d] # NULL =>
             pending_del_nodes[d] \in Obj /\ Waiting(pending_del_nodes[d], d)
        /\ pending_del_leaves[d] # NULL =>
             pending_del_leaves[d] \in Obj /\ Waiting(pending_del_leaves[d], d)
    BY <2>2, <2>3 DEF InvPending, TypeOK, Obj
  <2>6. /\ GraceOver(pending_del_nodes[wdel[w]])'
        /\ GraceOver(pending_del_leaves[wdel[w]])'
    BY <2>1, <2>4, <2>5 DEF GraceOver
  <2>7. remove_count' > 0 /\ wdel'[w] = (remove_count' - 1) % DELETED_LIFE
    BY <2>1
  <2> QED BY <1>2, <2>1, <2>6, <2>7
<1>4. CASE RemoveFreeNode(w)
  <2> DEFINE x == pending_del_nodes[wdel[w]]
  <2>1. /\ wpc[w] = "free_node" /\ wpc'[w] = "free_leaf"
        /\ UNCHANGED <<remove_count, wdel, pending_del_leaves>>
    BY <1>4 DEF RemoveFreeNode, Goto, TypeOK, locals, pending
  <2>2. Fine(w) BY <2>1, <1>d DEF FreePC
  <2>3. /\ x \in Nodes \cup {NULL}
        /\ \A y \in Obj : y # x => stamp'[y] = stamp[y]
    BY <1>4, RemoveFreeNodeFacts
  <2>4. LET y == pending_del_leaves[wdel[w]]
        IN  y # NULL => y \in Obj /\ y # x
    BY <2>3, PtrAssumption DEF TypeOK, Obj
  <2> HIDE DEF x
  <2>5. GraceOver(pending_del_leaves[wdel[w]])'
    BY <2>1, <2>2, <2>3, <2>4 DEF GraceOver
  <2>6. wpc[w] \in Busy BY <2>1 DEF Busy, RemovePC
  <2> QED BY <1>2, <2>1, <2>2, <2>5, <2>6
<1>5. CASE RemoveFreeLeaf(w) \/ RemoveDescend(w) \/ RemoveUnlink(w)
  <2>1. /\ wpc[w] \in FreePC /\ wpc'[w] \in {"find", "fix"}
        /\ UNCHANGED <<remove_count, wdel>>
    BY <1>5 DEF RemoveFreeLeaf, RemoveDescend, RemoveUnlink, Found, Goto,
                TypeOK, locals, pending, FreePC
  <2>2. Fine(w) BY <2>1, <1>d
  <2>3. wpc[w] \in Busy BY <2>1 DEF FreePC, Busy, RemovePC
  <2> QED BY <1>2, <2>1, <2>2, <2>3
<1>6. CASE Insert(w)
  <2>1. wpc'[w] \notin FreePC /\ wpc[w] \in Busy
    <3>1. CASE InsertDescend(w)
      BY <3>1 DEF InsertDescend, FreePC, Busy, InsertPC
    <3>2. CASE ~InsertDescend(w)
      BY <1>6, <3>2 DEF Insert, InsertAllocLeaf, InsertNoLeaf, InsertSetKey,
           InsertSetValue, InsertInSlot, InsertExists, InsertAllocNode,
           InsertNoNode, InsertClear, InsertLink, InsertHead, InsertPublish,
           Diverges, Goto, Ret, FreePC, Busy, InsertPC, TypeOK
    <3> QED BY <3>1, <3>2
  <2> QED BY <2>1, <1>2
<1>7. CASE RemoveEmpty(w) \/ RemoveAbsent(w) \/ RemoveRoot(w) \/ RemoveKeep(w)
           \/ RemoveCollapse(w)
  <2>1. wpc'[w] \notin FreePC /\ wpc[w] \in Busy
    BY <1>7 DEF RemoveEmpty, RemoveAbsent, RemoveRoot, RemoveKeep, RemoveCollapse,
         Found, Goto, Ret, FreePC, Busy, RemovePC, TypeOK
  <2> QED BY <2>1, <1>2
<1> QED BY <1>1, <1>3, <1>4, <1>5, <1>6, <1>7
        DEF WriterNext, Run, Remove

\* Call, lock and unlock leave every block, and what another writer knows of
\* it, alone.
LEMMA EdgeFacts ==
    ASSUME TypeOK, NEW w \in Writers,
           CallInsert(w) \/ CallRemove(w) \/ Lock(w) \/ Unlock(w)
    PROVE  /\ UNCHANGED <<root, child, shift, st, stamp, remove_count>>
           /\ wpc'[w] \in {"idle", "lock", "alloc_leaf", "remove"}
           /\ wpc[w] \in {"idle", "lock"} => wpar' = wpar
           /\ wpc[w] \notin {"idle", "lock"} =>
                 wpar'[w] = NULL /\ wpc'[w] = "idle"
  BY DEF CallInsert, CallRemove, Call, Lock, Unlock, Goto, TypeOK, heap,
         pending, aux, locals

\* The slot the lock holder works on holds a live block or nothing.
LEMMA SlotLive ==
    ASSUME TypeOK, InvTree, NEW p \in Nodes \cup {NULL}, NullOr(p, "live"),
           NEW key \in Key
    PROVE  Slot(p, key) \in Ptr /\ NullOr(Slot(p, key), "live")
<1>1. CASE p = NULL BY <1>1 DEF Slot, InvTree, TypeOK
<1>2. CASE p # NULL
  <2>1. p \in Nodes /\ st[p] = "live" /\ shift[p] \in Digits
    BY <1>2 DEF NullOr, TypeOK
  <2>2. slice_index(key, shift[p]) \in Nibs BY <2>1, KeyFacts
  <2> QED BY <1>2, <2>1, <2>2 DEF Slot, InvTree, TypeOK
<1> QED BY <1>1, <1>2

\* Steps that leave a slot as it is: the parent is not the node they change.
LEMMA SlotSame ==
    ASSUME NEW p, NEW key, root' = root,
           p # NULL => child'[p] = child[p] /\ shift'[p] = shift[p]
    PROVE  Slot(p, key)' = Slot(p, key)
  BY DEF Slot

\* Every writer step keeps what an insert knows of its locals.
LEMMA InsertStep ==
    ASSUME TypeOK, TypeOK', InvTree, InvPoolNodes, InvPoolLeaves, InvPending,
           InvLock, InvDel, InvInsert, InvRemove,
           NEW w \in Writers, WriterNext(w)
    PROVE  InvInsert'
<1> DEFINE
      Entry(u) == wpc[u] \in {"idle", "lock", "alloc_leaf", "set_key",
                              "set_value"} => wpar[u] = NULL
      Leaf(u) == wpc[u] \in {"set_key", "set_value", "walk", "clear", "link",
                             "head", "publish"} => Is(wk[u], "held")
      At(u) == wpc[u] \in {"walk", "clear", "link", "head", "publish"} =>
             /\ NullOr(wpar[u], "live")
             /\ wn[u] = Slot(wpar[u], wkey[u])
      Node(u) == wpc[u] \in {"clear", "link", "head", "publish"} =>
             Is(wm[u], "held") /\ wn[u] # NULL
      Empty(u) == wpc[u] = "link" => \A i \in Nibs : child[wm[u]][i] = NULL
      Linked(u) == wpc[u] \in {"head", "publish"} =>
             /\ \A i \in Nibs : child[wm[u]][i] \in {NULL, wk[u], wn[u]}
             /\ \A i, j \in Nibs :
                   child[wm[u]][i] = child[wm[u]][j] /\ child[wm[u]][i] # NULL
                   => i = j
      Fine(u) == Entry(u) /\ Leaf(u) /\ At(u) /\ Node(u) /\ Empty(u) /\ Linked(u)
<1>d. /\ InvInsert <=> \A u \in Writers : Fine(u)
      /\ InvInsert' <=> \A u \in Writers : Fine(u)'
  BY DEF InvInsert
<1>w. Fine(w) BY <1>d
<1>t. /\ wk[w] \in Leaves \cup {NULL} /\ wm[w] \in Nodes \cup {NULL}
      /\ wpar[w] \in Nodes \cup {NULL} /\ wkey[w] \in Key /\ wn[w] \in Ptr
      /\ \A n \in Nodes : n \in Obj /\ n # NULL /\ n \notin Leaves
      /\ \A l \in Leaves : l \in Obj /\ l # NULL
      /\ \A n \in Nodes : child'[n] \in [Nibs -> Ptr] /\ child[n] \in [Nibs -> Ptr]
  BY PtrAssumption DEF TypeOK, Obj
<1>1. CASE CallInsert(w) \/ CallRemove(w) \/ Lock(w) \/ Unlock(w)
  <2>1. /\ UNCHANGED <<root, child, shift, st, stamp, remove_count>>
        /\ wpc'[w] \in {"idle", "lock", "alloc_leaf", "remove"}
        /\ wpc[w] \in {"idle", "lock"} => wpar' = wpar
        /\ wpc[w] \notin {"idle", "lock"} =>
              wpar'[w] = NULL /\ wpc'[w] = "idle"
    BY <1>1, EdgeFacts
  <2>2. Fine(w)' BY <2>1, <1>w
  <2>3. ASSUME NEW u \in Writers, u # w
        PROVE  Fine(u)'
    <3>1. /\ wpc'[u] = wpc[u] /\ wkey'[u] = wkey[u]
          /\ wk'[u] = wk[u] /\ wm'[u] = wm[u]
          /\ wn'[u] = wn[u] /\ wpar'[u] = wpar[u]
      BY <2>3, OthersSame
    <3>2. Fine(u) BY <1>d
    <3> QED BY <2>1, <3>1, <3>2 DEF Is, NullOr, Slot
  <2> QED BY <2>2, <2>3, <1>d
<1>2. ASSUME wpc[w] \in Busy, Fine(w)'
      PROVE  InvInsert'
  <2>1. ASSUME NEW u \in Writers, u # w
        PROVE  Fine(u)'
    <3>1. /\ wpc'[u] = wpc[u] /\ wpar'[u] = wpar[u] /\ wpc[u] \notin Busy
      BY <1>2, <2>1, OnlyOne, OthersSame
    <3>2. Fine(u) BY <1>d
    <3> QED BY <3>1, <3>2 DEF Busy, InsertPC
  <2> QED BY <2>1, <1>2, <1>d
<1>3. ASSUME wpc[w] \in Busy, wpc'[w] \in RemovePC \cup {"unlock"}
      PROVE  InvInsert'
  <2>1. Fine(w)' BY <1>3 DEF RemovePC
  <2> QED BY <2>1, <1>2, <1>3
<1>4. CASE Remove(w) \/ InsertNoLeaf(w) \/ InsertInSlot(w) \/ InsertExists(w)
           \/ InsertNoNode(w) \/ InsertPublish(w)
  <2>1. wpc[w] \in Busy /\ wpc'[w] \in RemovePC \cup {"unlock"}
    BY <1>4 DEF Remove, RemoveEmpty, RemoveCount, RemoveFreeNode,
         RemoveFreeLeaf, RemoveDescend, RemoveAbsent, RemoveRoot, RemoveUnlink,
         RemoveKeep, RemoveCollapse, InsertNoLeaf, InsertInSlot, InsertExists,
         InsertNoNode, InsertPublish, Diverges, Found, Goto, Ret, Busy,
         InsertPC, RemovePC, TypeOK
  <2> QED BY <2>1, <1>3
<1>5. CASE InsertAllocLeaf(w)
  <2>1. /\ wpc[w] = "alloc_leaf" /\ wpc'[w] = "set_key" /\ wpar' = wpar
    BY <1>5 DEF InsertAllocLeaf, Goto, TypeOK
  <2>2. PICK k \in Leaves :
              /\ wk' = [wk EXCEPT ![w] = k]
              /\ \A y \in Obj : st'[y] = IF y = k THEN "held" ELSE st[y]
    BY <1>5, AllocLeafFacts
  <2>3. wk'[w] = k /\ k # NULL /\ st'[k] = "held"
    BY <2>2, <1>t DEF TypeOK
  <2>4. Fine(w)' BY <2>1, <2>3, <1>w DEF Is
  <2> QED BY <2>1, <2>4, <1>2 DEF Busy, InsertPC
<1>6. CASE InsertSetKey(w)
  <2>1. /\ wpc[w] = "set_key" /\ wpc'[w] = "set_value"
        /\ UNCHANGED <<wpar, wk, st>>
    BY <1>6 DEF InsertSetKey, Goto, TypeOK, locals, aux
  <2>2. Fine(w)' BY <2>1, <1>w DEF Is
  <2> QED BY <2>1, <2>2, <1>2 DEF Busy, InsertPC
<1>7. CASE InsertSetValue(w)
  <2>1. /\ wpc[w] = "set_value" /\ wpc'[w] = "walk"
        /\ UNCHANGED <<wpar, wk, st, root>> /\ wn'[w] = root
    BY <1>7 DEF InsertSetValue, Goto, TypeOK, aux
  <2>2. Fine(w)' BY <2>1, <1>w DEF Is, NullOr, Slot
  <2> QED BY <2>1, <2>2, <1>2 DEF Busy, InsertPC
<1>8. CASE InsertDescend(w)
  <2>1. /\ wpc[w] = "walk" /\ wpc'[w] = "walk" /\ wn[w] \in Nodes
        /\ UNCHANGED <<wk, wkey, st, root, child, shift>>
        /\ wpar'[w] = wn[w]
        /\ wn'[w] = child[wn[w]][slice_index(wkey[w], shift[wn[w]])]
    BY <1>8 DEF InsertDescend, OnPath, TypeOK, aux, heap, call
  <2>2. st[wn[w]] = "live"
    BY <2>1, <1>w, <1>t, SlotLive DEF NullOr
  <2>3. Fine(w)' BY <2>1, <2>2, <1>w, <1>t DEF Is, NullOr, Slot
  <2> QED BY <2>1, <2>3, <1>2 DEF Busy, InsertPC
<1>9. CASE InsertAllocNode(w)
  <2>1. /\ wpc[w] = "walk" /\ wpc'[w] = "clear" /\ wn[w] # NULL
        /\ UNCHANGED <<wk, wkey, wn, wpar, root, child, shift>>
    BY <1>9 DEF InsertAllocNode, Diverges, Goto, TypeOK, heap, call
  <2>2. PICK m \in Nodes :
              /\ st[m] \in {"pool", "raw"}
              /\ wm' = [wm EXCEPT ![w] = m]
              /\ \A y \in Obj : st'[y] = IF y = m THEN "held" ELSE st[y]
    BY <1>9, AllocNodeFacts
  <2>3. wm'[w] = m BY <2>2 DEF TypeOK
  <2>4. Fine(w)' BY <2>1, <2>2, <2>3, <1>w, <1>t DEF Is, NullOr, Slot
  <2> QED BY <2>1, <2>4, <1>2 DEF Busy, InsertPC
<1>10. CASE InsertClear(w)
  <2>1. /\ wpc[w] = "clear" /\ wpc'[w] = "link"
        /\ UNCHANGED <<wk, wkey, wn, wm, wpar, root, shift, st>>
        /\ child' = [child EXCEPT ![wm[w]] = [i \in Nibs |-> NULL]]
    BY <1>10 DEF InsertClear, Goto, TypeOK, locals, call, aux
  <2>2. wm[w] \in Nodes /\ st[wm[w]] = "held" BY <2>1, <1>w, <1>t DEF Is
  <2>3. wpar[w] # NULL => wpar[w] # wm[w] /\ child'[wpar[w]] = child[wpar[w]]
    BY <2>1, <2>2, <1>w, <1>t DEF NullOr, TypeOK
  <2>4. \A i \in Nibs : child'[wm[w]][i] = NULL BY <2>1, <2>2 DEF TypeOK
  <2>5. At(w)' BY <2>1, <2>3, <1>w, <1>t DEF NullOr, Slot
  <2>6. Leaf(w)' /\ Node(w)' BY <2>1, <2>2, <1>w, <1>t DEF Is
  <2>7. Fine(w)' BY <2>1, <2>4, <2>5, <2>6
  <2> QED BY <2>1, <2>7, <1>2 DEF Busy, InsertPC
<1>11. CASE InsertLink(w)
  <2>1. /\ wpc[w] = "link" /\ wpc'[w] = "head"
        /\ UNCHANGED <<wk, wkey, wn, wm, wpar, root, shift, st>>
    BY <1>11 DEF InsertLink, Goto, TypeOK, locals, call, aux
  <2>2. PICK a, b \in Nibs : \A m \in Nodes, j \in Nibs :
                 child'[m][j] = IF m = wm[w] /\ j = b THEN wn[w]
                                ELSE IF m = wm[w] /\ j = a THEN wk[w]
                                ELSE child[m][j]
    BY <1>11, LinkFacts
  <2>3. wm[w] \in Nodes /\ st[wm[w]] = "held" /\ st[wk[w]] = "held" /\ wn[w] # NULL
    BY <2>1, <1>w, <1>t DEF Is
  <2>4. st[wn[w]] = "live"
    BY <2>1, <2>3, <1>w, <1>t, SlotLive DEF NullOr
  <2>5. wpar[w] # NULL => child'[wpar[w]] = child[wpar[w]]
    <3> SUFFICES ASSUME wpar[w] # NULL PROVE child'[wpar[w]] = child[wpar[w]]
      OBVIOUS
    <3>1. wpar[w] \in Nodes /\ wpar[w] # wm[w]
      BY <2>1, <2>3, <1>w, <1>t DEF NullOr
    <3>2. \A j \in Nibs : child'[wpar[w]][j] = child[wpar[w]][j]
      BY <2>2, <3>1
    <3> QED BY <3>1, <3>2, <1>t
  <2>6. \A j \in Nibs : child'[wm[w]][j] = IF j = b THEN wn[w]
                                           ELSE IF j = a THEN wk[w] ELSE NULL
    BY <2>1, <2>2, <2>3, <1>w
  <2>7. Linked(w)' BY <2>1, <2>3, <2>4, <2>6
  <2>8. At(w)' BY <2>1, <2>5, <1>w, <1>t DEF NullOr, Slot
  <2>9. Leaf(w)' /\ Node(w)' BY <2>1, <1>w DEF Is
  <2>10. Fine(w)' BY <2>1, <2>7, <2>8, <2>9
  <2> QED BY <2>1, <2>10, <1>2 DEF Busy, InsertPC
<1>12. CASE InsertHead(w)
  <2>1. /\ wpc[w] = "head" /\ wpc'[w] = "publish"
        /\ UNCHANGED <<wk, wkey, wn, wm, wpar, root, child, st>>
        /\ shift' = [shift EXCEPT ![wm[w]] = wsh[w]]
    BY <1>12 DEF InsertHead, Goto, TypeOK, locals, call, aux
  <2>2. wm[w] \in Nodes /\ st[wm[w]] = "held" BY <2>1, <1>w, <1>t DEF Is
  <2>3. wpar[w] # NULL => shift'[wpar[w]] = shift[wpar[w]]
    BY <2>1, <2>2, <1>w, <1>t DEF NullOr, TypeOK
  <2>4. At(w)' BY <2>1, <2>3, <1>w, <1>t DEF NullOr, Slot
  <2>5. Leaf(w)' /\ Node(w)' /\ Linked(w)' BY <2>1, <1>w DEF Is
  <2>6. Fine(w)' BY <2>1, <2>4, <2>5
  <2> QED BY <2>1, <2>6, <1>2 DEF Busy, InsertPC
<1> QED BY <1>1, <1>4, <1>5, <1>6, <1>7, <1>8, <1>9, <1>10, <1>11, <1>12
        DEF WriterNext, Run, Insert

\* Every writer step keeps what a remove knows of its locals.
LEMMA RemoveStep ==
    ASSUME TypeOK, TypeOK', InvTree, InvPoolNodes, InvPoolLeaves, InvPending,
           InvLock, InvDel, InvInsert, InvRemove,
           NEW w \in Writers, WriterNext(w)
    PROVE  InvRemove'
<1> DEFINE
      Entry(u) == wpc[u] \in {"remove", "free_node", "free_leaf"} => wpar[u] = NULL
      At(u) == wpc[u] = "find" => /\ NullOr(wpar[u], "live")
                                  /\ wn[u] = Slot(wpar[u], wkey[u])
      Above(u) == wpc[u] \in {"find", "fix"} /\ wpar[u] # NULL =>
             /\ wpar[u] = Slot(wgp[u], wkey[u])
             /\ NullOr(wgp[u], "live")
      Fix(u) == wpc[u] = "fix" =>
             /\ Is(wpar[u], "live")
             /\ child[wpar[u]][slice_index(wkey[u], shift[wpar[u]])] = NULL
             /\ wn[u] \in Leaves
             /\ st[wn[u]] = "gone"
             /\ stamp[wn[u]] = remove_count - 1
      Fine(u) == Entry(u) /\ At(u) /\ Above(u) /\ Fix(u)
<1>d. /\ InvRemove <=> \A u \in Writers : Fine(u)
      /\ InvRemove' <=> \A u \in Writers : Fine(u)'
  BY DEF InvRemove
<1>w. Fine(w) BY <1>d
<1>t. /\ wpar[w] \in Nodes \cup {NULL} /\ wgp[w] \in Nodes \cup {NULL}
      /\ wkey[w] \in Key /\ wn[w] \in Ptr
      /\ \A n \in Nodes : n \in Obj /\ n # NULL /\ n \notin Leaves
      /\ \A l \in Leaves : l \in Obj /\ l # NULL
      /\ \A n \in Nodes : shift[n] \in Digits
  BY PtrAssumption DEF TypeOK, Obj
<1>1. CASE CallInsert(w) \/ CallRemove(w) \/ Lock(w) \/ Unlock(w)
  <2>1. /\ UNCHANGED <<root, child, shift, st, stamp, remove_count>>
        /\ wpc'[w] \in {"idle", "lock", "alloc_leaf", "remove"}
        /\ wpc[w] \in {"idle", "lock"} => wpar' = wpar
        /\ wpc[w] \notin {"idle", "lock"} =>
              wpar'[w] = NULL /\ wpc'[w] = "idle"
    BY <1>1, EdgeFacts
  <2>2. wpc[w] \in {"idle", "lock"} => wpar[w] = NULL BY DEF InvInsert
  <2>3. Fine(w)' BY <2>1, <2>2
  <2>4. ASSUME NEW u \in Writers, u # w
        PROVE  Fine(u)'
    <3>1. /\ wpc'[u] = wpc[u] /\ wkey'[u] = wkey[u] /\ wgp'[u] = wgp[u]
          /\ wn'[u] = wn[u] /\ wpar'[u] = wpar[u]
      BY <2>4, OthersSame
    <3>2. Fine(u) BY <1>d
    <3> QED BY <2>1, <3>1, <3>2 DEF Is, NullOr, Slot
  <2> QED BY <2>3, <2>4, <1>d
<1>2. ASSUME wpc[w] \in Busy, Fine(w)'
      PROVE  InvRemove'
  <2>1. ASSUME NEW u \in Writers, u # w
        PROVE  Fine(u)'
    <3>1. wpc'[u] \notin Busy
      BY <1>2, <2>1, OnlyOne
    <3> QED BY <3>1 DEF Busy, RemovePC
  <2> QED BY <2>1, <1>2, <1>d
<1>3. CASE Insert(w)
  <2>1. wpc'[w] \notin RemovePC /\ wpc[w] \in Busy
    <3>1. CASE InsertDescend(w)
      BY <3>1 DEF InsertDescend, RemovePC, Busy, InsertPC
    <3>2. CASE ~InsertDescend(w)
      BY <1>3, <3>2 DEF Insert, InsertAllocLeaf, InsertNoLeaf, InsertSetKey,
           InsertSetValue, InsertInSlot, InsertExists, InsertAllocNode,
           InsertNoNode, InsertClear, InsertLink, InsertHead, InsertPublish,
           Diverges, Goto, Ret, RemovePC, Busy, InsertPC, TypeOK
    <3> QED BY <3>1, <3>2
  <2>2. Fine(w)' BY <2>1 DEF RemovePC
  <2> QED BY <2>1, <2>2, <1>2
<1>4. CASE RemoveEmpty(w) \/ RemoveAbsent(w) \/ RemoveRoot(w) \/ RemoveKeep(w)
           \/ RemoveCollapse(w)
  <2>1. wpc'[w] = "unlock" /\ wpc[w] \in Busy
    BY <1>4 DEF RemoveEmpty, RemoveAbsent, RemoveRoot, RemoveKeep, RemoveCollapse,
         Found, Goto, Ret, Busy, RemovePC, TypeOK
  <2>2. Fine(w)' BY <2>1
  <2> QED BY <2>1, <2>2, <1>2
<1>5. CASE RemoveCount(w) \/ RemoveFreeNode(w)
  <2>1. /\ wpc[w] \in {"remove", "free_node", "free_leaf"}
        /\ wpc'[w] \in {"free_node", "free_leaf"}
        /\ wpar' = wpar
    BY <1>5 DEF RemoveCount, RemoveFreeNode, Goto, TypeOK, locals
  <2>2. Fine(w)' BY <2>1, <1>w
  <2> QED BY <2>1, <2>2, <1>2 DEF Busy, RemovePC
<1>6. CASE RemoveFreeLeaf(w)
  <2>1. /\ wpc[w] = "free_leaf" /\ wpc'[w] = "find"
        /\ UNCHANGED <<root, wpar>> /\ wn'[w] = root
    BY <1>6 DEF RemoveFreeLeaf, Goto, TypeOK
  <2>2. Fine(w)' BY <2>1, <1>w DEF NullOr, Slot
  <2> QED BY <2>1, <2>2, <1>2 DEF Busy, RemovePC
<1>7. CASE RemoveDescend(w)
  <2>1. /\ wpc[w] = "find" /\ wpc'[w] = "find" /\ wn[w] \in Nodes
        /\ UNCHANGED <<wkey, st, root, child, shift>>
        /\ wgp'[w] = wpar[w] /\ wpar'[w] = wn[w]
        /\ wn'[w] = child[wn[w]][slice_index(wkey[w], shift[wn[w]])]
    BY <1>7 DEF RemoveDescend, TypeOK, aux, heap, call
  <2>2. st[wn[w]] = "live"
    BY <2>1, <1>w, <1>t, SlotLive DEF NullOr
  <2>3. Fine(w)' BY <2>1, <2>2, <1>w, <1>t DEF NullOr, Slot
  <2> QED BY <2>1, <2>3, <1>2 DEF Busy, RemovePC
<1>8. CASE RemoveUnlink(w)
  <2> DEFINE s == slice_index(wkey[w], shift[wpar[w]])
  <2>1. /\ wpc[w] = "find" /\ wpc'[w] = "fix" /\ wpar[w] # NULL
        /\ UNCHANGED <<wkey, root, shift, remove_count, wn, wpar, wgp>>
    BY <1>8 DEF RemoveUnlink, Found, Goto, TypeOK, call, locals, pending
  <2>2. /\ wn[w] \in Leaves
        /\ NullOr(wpar[w], "live")
        /\ wn[w] = Slot(wpar[w], wkey[w])
        /\ wpar[w] \in Nodes
        /\ \A n \in Nodes, j \in Nibs :
                 child'[n][j] = IF /\ wpar[w] # NULL
                                   /\ n = wpar[w]
                                   /\ j = s
                                THEN NULL ELSE child[n][j]
        /\ \A y \in Obj :
                 /\ st'[y] = IF y = wn[w] THEN "gone" ELSE st[y]
                 /\ stamp'[y] = IF y = wn[w] THEN remove_count - 1 ELSE stamp[y]
    BY <1>8, <2>1, UnlinkFacts
  <2>3. s \in Nibs BY <2>2, <1>t, KeyFacts
  <2>4. Fix(w)' BY <2>1, <2>2, <2>3, <1>t DEF Is, NullOr
  <2>5. wpar[w] = Slot(wgp[w], wkey[w]) /\ NullOr(wgp[w], "live")
    BY <2>1, <1>w
  <2>6. wgp[w] # NULL => /\ wgp[w] \in Nodes /\ wgp[w] # wpar[w]
                         /\ slice_index(wkey[w], shift[wgp[w]]) \in Nibs
    BY <2>1, <2>2, <2>5, <1>t, KeyFacts DEF Slot
  <2>7. Slot(wgp[w], wkey[w])' = Slot(wgp[w], wkey[w])
    BY <2>1, <2>2, <2>6 DEF Slot
  <2>8. Above(w)' BY <2>1, <2>2, <2>5, <2>6, <2>7, <1>t DEF NullOr
  <2>9. Fine(w)' BY <2>1, <2>4, <2>8
  <2> QED BY <2>1, <2>9, <1>2 DEF Busy, RemovePC
<1> QED BY <1>1, <1>3, <1>4, <1>5, <1>6, <1>7, <1>8
        DEF WriterNext, Run, Remove
-----------------------------------------------------------------------------
(* The readers' half of the inductive invariant, and the theorems.         *)
(*                                                                         *)
(* A writer step is shown to be Gentle: whatever it does to the tree, a    *)
(* block leaves it only with the number of the current remove as stamp, is *)
(* recycled only when its grace period is over, and links of blocks that   *)
(* are or were in the tree change only to NULL or to live blocks.  What a  *)
(* reader relies on follows from Gentle alone, whichever action it was.    *)

Gentle ==
    /\ remove_count' \in Nat
    /\ remove_count' >= remove_count
    /\ \A x \in Obj : st[x] = "live" =>
          \/ st'[x] = "live"
          \/ st'[x] = "gone" /\ remove_count > 0 /\ stamp'[x] = remove_count - 1
    /\ \A x \in Obj : st[x] = "gone" =>
          \/ st'[x] = "gone" /\ stamp'[x] = stamp[x]
          \/ st'[x] = "pool" /\ stamp[x] + DELETED_LIFE < remove_count'
    /\ \A x \in Obj : st'[x] = "gone" => st[x] \in {"live", "gone"}
    /\ \A n \in Nodes : st'[n] \in {"live", "gone"} =>
          \A i \in Nibs :
             \/ child'[n][i] = NULL
             \/ child'[n][i] \in Obj /\ st'[child'[n][i]] = "live"
             \/ st[n] \in {"live", "gone"} /\ child'[n][i] = child[n][i]
    /\ \A l \in Leaves : st'[l] \in {"live", "gone"} =>
          lkey'[l] = lkey[l] /\ lval'[l] = lval[l]

\* Keys of leaves are written only while the leaf is a writer's own.
LEMMA LeafKeySame ==
    ASSUME TypeOK, InvInsert, NEW w \in Writers, WriterNext(w)
    PROVE  \A l \in Leaves : st[l] # "held" => lkey'[l] = lkey[l]
<1>1. CASE InsertSetKey(w)
  <2>1. Is(wk[w], "held") BY <1>1 DEF InsertSetKey, InvInsert
  <2> QED BY <1>1, <2>1 DEF InsertSetKey, Is, TypeOK
<1>2. CASE ~InsertSetKey(w)
  <2>1. lkey' = lkey
    BY <1>2 DEF WriterNext, CallInsert, CallRemove, Call, Run, Lock, Unlock,
         Insert, InsertAllocLeaf, InsertNoLeaf, InsertSetValue, InsertDescend,
         InsertInSlot, InsertExists, InsertAllocNode, InsertNoNode,
         InsertClear, InsertLink, InsertHead, InsertPublish,
         Remove, RemoveEmpty, RemoveCount, RemoveFreeNode, RemoveFreeLeaf,
         RemoveDescend, RemoveAbsent, RemoveRoot, RemoveUnlink, RemoveKeep,
         RemoveCollapse, heap
  <2> QED BY <2>1
<1> QED BY <1>1, <1>2

\* Every step of insert and remove is gentle.
LEMMA GentleStep ==
    ASSUME TypeOK, TypeOK', InvTree, InvPoolNodes, InvPoolLeaves, InvPending,
           InvLock, InvDel, InvInsert, InvRemove,
           NEW w \in Writers, WriterNext(w)
    PROVE  Gentle
<1>0. /\ \A n \in Nodes : n \in Obj /\ n # NULL /\ n \notin Leaves
      /\ \A l \in Leaves : l \in Obj /\ l # NULL /\ l \notin Nodes
      /\ \A x \in Ptr : x # NULL => x \in Obj
      /\ \A x \in Obj : x # NULL
      /\ remove_count \in Nat /\ remove_count' \in Nat
      /\ \A n \in Nodes, i \in Nibs : child[n][i] \in Ptr
      /\ \A x \in Obj : stamp[x] \in Nat
      /\ wdel[w] \in Slots
      /\ wn[w] \in Ptr
  BY PtrAssumption DEF Obj, Ptr, TypeOK
<1>k. \A l \in Leaves : st[l] # "held" => lkey'[l] = lkey[l]
  BY LeafKeySame
\* Steps that change neither stamps nor the count, and recycle nothing.
<1>1. ASSUME remove_count' = remove_count, stamp' = stamp,
             \A x \in Obj : st[x] \in {"live", "gone"} => st'[x] = st[x],
             \A x \in Obj : st'[x] = "gone" => st[x] = "gone",
             \A n \in Nodes : st'[n] \in {"live", "gone"} =>
                \A i \in Nibs :
                   \/ child'[n][i] \in Obj /\ st'[child'[n][i]] = "live"
                   \/ child'[n][i] = NULL
                   \/ st[n] \in {"live", "gone"} /\ child'[n][i] = child[n][i],
             \A l \in Leaves : st'[l] \in {"live", "gone"} =>
                lkey'[l] = lkey[l] /\ lval'[l] = lval[l]
      PROVE  Gentle
  BY <1>0, <1>1 DEF Gentle
<1>2. CASE Quiet(w)
  <2>1. UNCHANGED <<root, child, lval, remove_count, st, stamp>>
    BY <1>2, QuietFacts
  <2> QED BY <2>1, <1>1, <1>k
<1>3. CASE InsertAllocLeaf(w)
  <2>1. PICK k \in Leaves :
              /\ st[k] \in {"pool", "raw"}
              /\ stamp' = stamp
              /\ \A y \in Obj : st'[y] = IF y = k THEN "held" ELSE st[y]
    BY <1>3, AllocLeafFacts
  <2>2. UNCHANGED <<remove_count, child, lkey, lval>>
    BY <1>3 DEF InsertAllocLeaf, heap, pending
  <2> QED BY <2>1, <2>2, <1>0, <1>1
<1>4. CASE InsertAllocNode(w)
  <2>1. PICK k \in Nodes :
              /\ st[k] \in {"pool", "raw"}
              /\ stamp' = stamp
              /\ \A y \in Obj : st'[y] = IF y = k THEN "held" ELSE st[y]
    BY <1>4, AllocNodeFacts
  <2>2. UNCHANGED <<remove_count, child, lkey, lval>>
    BY <1>4 DEF InsertAllocNode, heap, pending
  <2> QED BY <2>1, <2>2, <1>0, <1>1
<1>5. CASE InsertSetValue(w)
  <2>1. /\ UNCHANGED <<remove_count, child, lkey, st, stamp>>
        /\ lval' = [lval EXCEPT ![wk[w]] = wval[w]]
        /\ Is(wk[w], "held")
    BY <1>5 DEF InsertSetValue, pending, aux, InvInsert
  <2>2. \A l \in Leaves : st[l] \in {"live", "gone"} => lval'[l] = lval[l]
    BY <2>1 DEF Is, TypeOK
  <2> QED BY <2>1, <2>2, <1>1
<1>6. CASE InsertInSlot(w)
  <2>1. /\ UNCHANGED <<remove_count, lkey, lval>>
    BY <1>6 DEF InsertInSlot, pending
  <2>2. /\ wk[w] \in Leaves /\ st[wk[w]] = "held"
        /\ NullOr(wpar[w], "live")
        /\ \A n \in Nodes, j \in Nibs :
                 child'[n][j] = IF /\ wpar[w] # NULL
                                   /\ n = wpar[w]
                                   /\ j = slice_index(wkey[w], shift[wpar[w]])
                                THEN wk[w] ELSE child[n][j]
        /\ stamp' = stamp
        /\ \A y \in Obj : st'[y] = IF y = wk[w] THEN "live" ELSE st[y]
    BY <1>6, InSlotFacts
  <2> QED BY <2>1, <2>2, <1>0, <1>1
<1>7. CASE InsertExists(w) \/ InsertNoNode(w)
  <2>1. /\ wk[w] \in Leaves /\ st[wk[w]] = "held"
        /\ child' = child /\ remove_count' = remove_count
        /\ \A l \in Leaves :
              lval'[l] = IF l = wk[w] THEN deleted_leaf ELSE lval[l]
        /\ \A y \in Obj : /\ st'[y] = IF y = wk[w] THEN "pool" ELSE st[y]
                          /\ y # wk[w] => stamp'[y] = stamp[y]
    BY <1>7, DropLeafFacts
  <2>2. lkey' = lkey BY <1>7 DEF InsertExists, InsertNoNode
  <2> QED BY <2>1, <2>2, <1>0 DEF Gentle
<1>8. CASE InsertClear(w)
  <2>1. /\ UNCHANGED <<remove_count, lkey, lval, st, stamp>>
        /\ child' = [child EXCEPT ![wm[w]] = [i \in Nibs |-> NULL]]
        /\ Is(wm[w], "held")
    BY <1>8 DEF InsertClear, pending, aux, InvInsert
  <2>2. \A n \in Nodes : st[n] \in {"live", "gone"} => child'[n] = child[n]
    BY <2>1 DEF Is, TypeOK
  <2> QED BY <2>1, <2>2, <1>1
<1>9. CASE InsertLink(w)
  <2>1. /\ UNCHANGED <<remove_count, lkey, lval, st, stamp>>
        /\ Is(wm[w], "held")
    BY <1>9 DEF InsertLink, pending, aux, InvInsert
  <2>2. \A n \in Nodes : st[n] \in {"live", "gone"} =>
           \A i \in Nibs : child'[n][i] = child[n][i]
    BY <1>9, <2>1, LinkFacts DEF Is
  <2> QED BY <2>1, <2>2, <1>1
<1>10. CASE InsertPublish(w)
  <2>1. UNCHANGED <<remove_count, lkey, lval>>
    BY <1>10 DEF InsertPublish, pending
  <2>2. /\ wk[w] \in Leaves /\ st[wk[w]] = "held"
        /\ wm[w] \in Nodes /\ st[wm[w]] = "held"
        /\ NullOr(wpar[w], "live")
        /\ wn[w] = Slot(wpar[w], wkey[w]) /\ wn[w] \in Obj
        /\ \A n \in Nodes, j \in Nibs :
                 child'[n][j] = IF /\ wpar[w] # NULL
                                   /\ n = wpar[w]
                                   /\ j = slice_index(wkey[w], shift[wpar[w]])
                                THEN wm[w] ELSE child[n][j]
        /\ stamp' = stamp
        /\ \A y \in Obj : st'[y] = IF y = wm[w] \/ y = wk[w] THEN "live"
                                   ELSE st[y]
    BY <1>10, PublishFacts
  <2>3. wpar[w] \in Nodes \cup {NULL} /\ wkey[w] \in Key BY DEF TypeOK
  <2>4. st[wn[w]] = "live"
    BY <2>2, <2>3, SlotLive, PtrAssumption DEF NullOr, Obj
  <2>5. \A i \in Nibs : child[wm[w]][i] \in {NULL, wk[w], wn[w]}
    BY <1>10 DEF InsertPublish, InvInsert
  <2>6. ASSUME NEW n \in Nodes, st'[n] \in {"live", "gone"}, NEW i \in Nibs
        PROVE  \/ child'[n][i] \in Obj /\ st'[child'[n][i]] = "live"
               \/ child'[n][i] = NULL
               \/ st[n] \in {"live", "gone"} /\ child'[n][i] = child[n][i]
    <3>1. CASE n = wm[w]
      <4>1. wpar[w] # NULL => wpar[w] # n BY <3>1, <2>2 DEF NullOr
      <4>2. child'[n][i] \in {NULL, wk[w], wn[w]}
        BY <3>1, <4>1, <2>2, <2>5, <2>6
      <4> QED BY <4>2, <2>2, <2>4, <1>0
    <3>2. CASE n # wm[w]
      <4>1. st[n] \in {"live", "gone"} BY <3>2, <2>2, <2>6, <1>0
      <4> QED BY <4>1, <2>2, <2>6, <1>0
    <3> QED BY <3>1, <3>2
  <2>7. \A x \in Obj : st[x] \in {"live", "gone"} => st'[x] = st[x]
    BY <2>2
  <2>8. \A x \in Obj : st'[x] = "gone" => st[x] = "gone"
    BY <2>2
  <2> QED BY <2>1, <2>2, <2>6, <2>7, <2>8, <1>1
<1>11. CASE RemoveCount(w)
  <2>1. /\ UNCHANGED <<child, lkey, lval, st, stamp>>
        /\ remove_count' = remove_count + 1
    BY <1>11 DEF RemoveCount, heap, aux
  <2> QED BY <2>1, <1>0 DEF Gentle
<1>12. CASE RemoveFreeNode(w)
  <2> DEFINE x == pending_del_nodes[wdel[w]]
  <2>1. /\ x \in Nodes \cup {NULL}
        /\ x # NULL => st[x] = "gone"
        /\ UNCHANGED <<lval, remove_count>>
        /\ \A n \in Nodes, j \in Nibs : n # x => child'[n][j] = child[n][j]
        /\ \A y \in Obj : /\ st'[y] = IF y = x THEN "pool" ELSE st[y]
                          /\ y # x => stamp'[y] = stamp[y]
    BY <1>12, RemoveFreeNodeFacts DEF Waiting
  <2>2. x # NULL => stamp[x] + DELETED_LIFE < remove_count
    BY <1>12 DEF RemoveFreeNode, InvDel, GraceOver
  <2>3. lkey' = lkey BY <1>12 DEF RemoveFreeNode
  <2> HIDE DEF x
  <2> QED BY <2>1, <2>2, <2>3, <1>0 DEF Gentle
<1>13. CASE RemoveFreeLeaf(w)
  <2> DEFINE x == pending_del_leaves[wdel[w]]
  <2>1. /\ x \in Leaves \cup {NULL}
        /\ x # NULL => st[x] = "gone"
        /\ UNCHANGED <<child, remove_count>>
        /\ \A l \in Leaves : l # x => lval'[l] = lval[l]
        /\ \A y \in Obj : /\ st'[y] = IF y = x THEN "pool" ELSE st[y]
                          /\ y # x => stamp'[y] = stamp[y]
    BY <1>13, RemoveFreeLeafFacts DEF Waiting
  <2>2. x # NULL => stamp[x] + DELETED_LIFE < remove_count
    BY <1>13 DEF RemoveFreeLeaf, InvDel, GraceOver
  <2>3. lkey' = lkey BY <1>13 DEF RemoveFreeLeaf
  <2> HIDE DEF x
  <2> QED BY <2>1, <2>2, <2>3, <1>0 DEF Gentle
<1>14. CASE RemoveRoot(w) \/ RemoveUnlink(w)
  <2>1. /\ wn[w] \in Leaves /\ st[wn[w]] = "live"
        /\ remove_count > 0
        /\ \A n \in Nodes, j \in Nibs :
                 child'[n][j] = IF /\ wpar[w] # NULL
                                   /\ n = wpar[w]
                                   /\ j = slice_index(wkey[w], shift[wpar[w]])
                                THEN NULL ELSE child[n][j]
        /\ UNCHANGED <<lkey, lval, remove_count>>
        /\ \A y \in Obj :
              /\ st'[y] = IF y = wn[w] THEN "gone" ELSE st[y]
              /\ stamp'[y] = IF y = wn[w] THEN remove_count - 1 ELSE stamp[y]
    BY <1>14, UnlinkFacts
  <2> QED BY <2>1, <1>0 DEF Gentle
<1>15. CASE RemoveKeep(w)
  <2>1. UNCHANGED <<child, lkey, lval, st, stamp, remove_count>>
    BY <1>15 DEF RemoveKeep, heap, aux
  <2> QED BY <2>1, <1>1
<1>16. CASE RemoveCollapse(w)
  <2> DEFINE x == wpar[w]
             g == wgp[w]
             s == slice_index(wkey[w], shift[g])
  <2>1. /\ x \in Nodes /\ st[x] = "live" /\ g # x
        /\ g # NULL => g \in Nodes /\ st[g] = "live" /\ s \in Nibs
        /\ x = IF g = NULL THEN root ELSE child[g][s]
        /\ remove_count > 0
        /\ UNCHANGED <<lkey, lval, remove_count>>
        /\ \A y \in Obj :
              /\ st'[y] = IF y = x THEN "gone" ELSE st[y]
              /\ stamp'[y] = IF y = x THEN remove_count - 1 ELSE stamp[y]
    BY <1>16, CollapseFacts DEF NullOr, Slot
  <2>2. PICK o \in Nibs :
           /\ child[x][o] # NULL
           /\ \A n \in Nodes, j \in Nibs :
                 child'[n][j] = IF g # NULL /\ n = g /\ j = s
                                THEN child[x][o] ELSE child[n][j]
    BY <1>16, CollapseFacts
  <2> HIDE DEF x, g, s
  <2>3. child[x][o] \in Obj /\ st[child[x][o]] = "live" /\ child[x][o] # x
    BY <1>0, <2>1, <2>2 DEF InvTree, NullOr
  <2>4. st'[child[x][o]] = "live" BY <2>1, <2>3
  <2>5. \A n \in Nodes : st'[n] \in {"live", "gone"} =>
           st[n] \in {"live", "gone"}
    BY <2>1, <1>0
  <2>6. \A n \in Nodes : st'[n] \in {"live", "gone"} =>
          \A i \in Nibs :
             \/ child'[n][i] \in Obj /\ st'[child'[n][i]] = "live"
             \/ st[n] \in {"live", "gone"} /\ child'[n][i] = child[n][i]
    BY <2>2, <2>3, <2>4, <2>5
  <2> QED BY <2>1, <2>6, <1>0 DEF Gentle
<1> QED BY <1>2, <1>3, <1>4, <1>5, <1>6, <1>7, <1>8, <1>9, <1>10, <1>11,
           <1>12, <1>13, <1>14, <1>15, <1>16, QuietOrLoud DEF Loud

\* Within the grace period, fresh blocks stay fresh.
LEMMA FreshStays ==
    ASSUME TypeOK, TypeOK', ReadersOK, Gentle, UNCHANGED <<rpc, locs>>,
           NEW r \in Readers, FreshAt(r), Notes(r),
           rpc[r] \in Reading, ~Expired(r)'
    PROVE  ~Expired(r) /\ fresh[r] \subseteq fresh'[r]
<1>0. /\ UNCHANGED <<rpc, rwrs1>>
      /\ fresh'[r] = {x \in Obj : \/ st'[x] = "live"
                                  \/ st'[x] = "gone" /\ x \in fresh[r]}
  BY DEF Notes, locs
<1>t. /\ remove_count \in Nat /\ remove_count' \in Nat
      /\ DELETED_LIFE \in Nat \ {0}
      /\ \A x \in Obj : stamp[x] \in Nat
      /\ rwrs1[r] \in Nat /\ fresh[r] \subseteq Obj
      /\ remove_count' >= remove_count
  BY SizeAssumption DEF ReadersOK, TypeOK, Gentle
<1>1. rwrs1[r] + DELETED_LIFE > remove_count' BY <1>0, <1>t DEF Expired
<1>2. ~Expired(r) BY <1>1, <1>t DEF Expired
<1>3. ASSUME NEW x \in fresh[r]
      PROVE  x \in fresh'[r]
  <2>1. x \in Obj /\ st[x] \in {"live", "gone"} BY <1>t DEF FreshAt
  <2>2. st[x] = "gone" => rwrs1[r] <= stamp[x] + 1 BY DEF FreshAt
  <2>3. ~(st[x] = "gone" /\ stamp[x] + DELETED_LIFE < remove_count')
    BY <1>1, <2>1, <2>2, <1>t
  <2>4. st'[x] \in {"live", "gone"} BY <2>1, <2>3 DEF Gentle
  <2> QED BY <2>1, <2>4, <1>0
<1> QED BY <1>2, <1>3

\* A gentle step that a reader takes note of keeps what the reader relies on.
LEMMA NoteStep ==
    ASSUME TypeOK, TypeOK', ReadersOK, Gentle, UNCHANGED <<rpc, locs>>,
           NEW r \in Readers, Notes(r),
           FreshAt(r), ClosedAt(r), StepAt(r), ValueAt(r)
    PROVE  FreshAt(r)' /\ ClosedAt(r)' /\ StepAt(r)' /\ ValueAt(r)'
<1>0. /\ UNCHANGED <<rpc, rkey, rwrs1, rn, rnib, rres>>
      /\ rpc[r] \in Reading =>
            fresh'[r] = {x \in Obj : \/ st'[x] = "live"
                                     \/ st'[x] = "gone" /\ x \in fresh[r]}
      /\ rpc[r] # "idle" => valid'[r] = valid[r] \cup Current(rkey[r])'
  BY DEF Notes, locs
<1>t. /\ remove_count \in Nat /\ remove_count' \in Nat
      /\ \A x \in Obj : stamp[x] \in Nat /\ stamp'[x] \in Nat /\ x # NULL
      /\ rwrs1[r] \in Nat /\ fresh[r] \subseteq Obj /\ rn[r] \in Ptr
      /\ Leaves \subseteq Obj /\ Nodes \subseteq Obj
      /\ Ptr = Obj \cup {NULL}
      /\ remove_count' >= remove_count
  BY PtrAssumption DEF ReadersOK, TypeOK, Obj, Ptr, Gentle
<1>3. ASSUME rpc[r] \in Reading
      PROVE  /\ rwrs1[r] <= remove_count'
             /\ \A x \in Obj : st'[x] = "live" => x \in fresh'[r]
             /\ \A x \in fresh'[r] : st'[x] \in {"live", "gone"}
             /\ \A x \in fresh'[r] : st'[x] = "gone" => rwrs1[r] <= stamp'[x] + 1
  <2>1. rwrs1[r] <= remove_count BY <1>3 DEF FreshAt
  <2>2. ASSUME NEW x \in fresh'[r], st'[x] = "gone"
        PROVE  rwrs1[r] <= stamp'[x] + 1
    <3>1. x \in Obj /\ x \in fresh[r] BY <2>2, <1>0, <1>3
    <3>2. CASE st[x] = "live"
      <4>1. remove_count > 0 /\ stamp'[x] = remove_count - 1
        BY <2>2, <3>1, <3>2 DEF Gentle
      <4> QED BY <4>1, <2>1, <1>t
    <3>3. CASE st[x] = "gone"
      <4>1. stamp'[x] = stamp[x] BY <2>2, <3>1, <3>3 DEF Gentle
      <4> QED BY <4>1, <3>1, <3>3, <1>3 DEF FreshAt
    <3> QED BY <2>2, <3>1, <3>2, <3>3 DEF Gentle
  <2> QED BY <2>1, <2>2, <1>0, <1>3, <1>t
<1>4. FreshAt(r)' BY <1>0, <1>3 DEF FreshAt
<1>5. ASSUME rpc[r] \in Reading, ~Expired(r)'
      PROVE  ~Expired(r) /\ fresh[r] \subseteq fresh'[r]
  BY <1>5, FreshStays
<1>6. ClosedAt(r)'
  <2>1. ASSUME rpc[r] \in Reading, ~Expired(r)'
        PROVE  /\ \A n \in Nodes : n \in fresh'[r] =>
                     \A i \in Nibs : child'[n][i] = NULL \/ child'[n][i] \in fresh'[r]
               /\ Walking(r)' => rn[r] = NULL \/ rn[r] \in fresh'[r]
    <3>1. ~Expired(r) /\ fresh[r] \subseteq fresh'[r] BY <2>1, <1>5
    <3>2. ASSUME NEW n \in Nodes, n \in fresh'[r], NEW i \in Nibs
          PROVE  child'[n][i] = NULL \/ child'[n][i] \in fresh'[r]
      <4>1. st'[n] \in {"live", "gone"} /\ n \in Obj BY <3>2, <1>3, <2>1, <1>t
      <4>2. CASE child'[n][i] \in Obj /\ st'[child'[n][i]] = "live"
        BY <4>2, <1>0, <2>1
      <4>3. CASE st[n] \in {"live", "gone"} /\ child'[n][i] = child[n][i]
        <5>1. n \in fresh[r]
          <6>1. CASE st[n] = "live" BY <6>1, <4>1, <2>1 DEF FreshAt
          <6>2. CASE st[n] = "gone"
            <7>1. st'[n] # "live" BY <6>2, <4>1 DEF Gentle
            <7> QED BY <7>1, <3>2, <1>0, <2>1
          <6> QED BY <6>1, <6>2, <4>3
        <5>2. child[n][i] = NULL \/ child[n][i] \in fresh[r]
          BY <5>1, <2>1, <3>1 DEF ClosedAt
        <5> QED BY <5>2, <4>3, <3>1
      <4> QED BY <4>1, <4>2, <4>3 DEF Gentle
    <3>3. Walking(r)' => rn[r] = NULL \/ rn[r] \in fresh'[r]
      BY <3>1, <1>0, <2>1 DEF ClosedAt, Walking
    <3> QED BY <3>2, <3>3
  <2> QED BY <2>1, <1>0 DEF ClosedAt
<1>7. StepAt(r)' BY <1>0 DEF StepAt
<1>8. ASSUME rpc[r] # "idle", NEW l \in Leaves,
             st'[l] = "live", lkey'[l] = rkey[r]
      PROVE  lval'[l] \in valid'[r]
  <2>1. lval'[l] \in Current(rkey[r])' BY <1>0, <1>8 DEF Current
  <2> QED BY <2>1, <1>0, <1>8
<1>9. ASSUME rpc[r] \in Reading, NEW l \in Leaves,
             l \in fresh'[r], lkey'[l] = rkey[r]
      PROVE  lval'[l] \in valid'[r]
  <2>0. rpc[r] # "idle" BY <1>9 DEF Reading
  <2>1. CASE st'[l] = "live" BY <2>0, <2>1, <1>8, <1>9
  <2>2. CASE st'[l] # "live"
    <3>1. st'[l] = "gone" /\ l \in fresh[r] BY <2>2, <1>0, <1>9
    <3>2. lkey'[l] = lkey[l] /\ lval'[l] = lval[l] BY <3>1 DEF Gentle
    <3>3. lval[l] \in valid[r] BY <3>1, <3>2, <1>9 DEF ValueAt
    <3> QED BY <3>2, <3>3, <2>0, <1>0
  <2> QED BY <2>1, <2>2
<1>10. ASSUME rpc[r] = "value", ~Expired(r)'
       PROVE  lkey'[rn[r]] = rkey[r]
  <2>1. rpc[r] \in Reading /\ Walking(r) BY <1>10 DEF Reading, Walking
  <2>2. ~Expired(r) /\ fresh[r] \subseteq fresh'[r] BY <2>1, <1>5, <1>10
  <2>3. rn[r] \in Leaves /\ rn[r] # NULL BY <1>10, <1>t DEF StepAt
  <2>4. rn[r] \in fresh'[r] BY <2>1, <2>2, <2>3 DEF ClosedAt
  <2>5. st'[rn[r]] \in {"live", "gone"} BY <2>4, <2>1, <1>3
  <2>6. lkey[rn[r]] = rkey[r] BY <1>10, <2>2 DEF ValueAt
  <2> QED BY <2>3, <2>5, <2>6 DEF Gentle
<1>11. ASSUME rpc[r] = "check", ~Expired(r)', rres[r] # NULL
       PROVE  rres[r] \in valid'[r]
  <2>1. rpc[r] \in Reading /\ rpc[r] # "idle" BY <1>11 DEF Reading
  <2>2. ~Expired(r) BY <2>1, <1>5, <1>11
  <2> QED BY <2>1, <2>2, <1>0, <1>11 DEF ValueAt
<1>12. ValueAt(r)' BY <1>0, <1>8, <1>9, <1>10, <1>11 DEF ValueAt
<1> QED BY <1>4, <1>6, <1>7, <1>12

LEMMA GetTypes == GetTypeOK => TypeOK /\ ReadersOK
<1>1. Nibs \subseteq Int BY SizeAssumption DEF Nibs
<1>2. {"idle", "count"} \cup Reading
        \subseteq {"idle", "count", "root", "walk", "child", "scan", "back",
                   "value", "check", "ret"}
  BY DEF Reading
<1>3. GetTypeOK => rpc \in [Readers -> {"idle", "count"} \cup Reading]
  BY DEF GetTypeOK
<1>4. GetTypeOK => rpc \in [Readers -> {"idle", "count", "root", "walk", "child",
                            "scan", "back", "value", "check", "ret"}]
  BY <1>2, <1>3
<1> QED BY <1>1, <1>4 DEF GetTypeOK, ReadersOK

\* A step of a writer, for all gets.
LEMMA ReaderFrame ==
    ASSUME GetTypeOK, TypeOK', InvFresh, InvClosed, InvStep, InvValue, InvStand,
           Gentle, Seen, \A x \in Obj : st[x] # "raw" => st'[x] # "raw"
    PROVE  /\ GetTypeOK' /\ InvFresh' /\ InvClosed' /\ InvStep' /\ InvValue'
           /\ InvStand'
<1>0. UNCHANGED <<rpc, locs>> /\ \A r \in Readers : Notes(r)
  BY DEF Seen, Observed, Notes
<1>1. UNCHANGED <<rpc, rkey, rwrs1, rn, rnib, rres>> BY <1>0 DEF locs
<1>2. GetTypeOK'
  <2>1. \A key : Current(key)' \subseteq Values \cup Leaves \cup {NULL}
    BY DEF Current, TypeOK
  <2>2. fresh' \in [Readers -> SUBSET Obj]
    BY DEF Seen, Observed, GetTypeOK
  <2>3. valid' \in [Readers -> SUBSET (Values \cup Leaves \cup {NULL})]
    BY <2>1 DEF Seen, Observed, GetTypeOK
  <2> QED BY <1>1, <2>2, <2>3 DEF GetTypeOK
<1>3. ASSUME NEW r \in Readers
      PROVE  FreshAt(r)' /\ ClosedAt(r)' /\ StepAt(r)' /\ ValueAt(r)'
  <2>1. FreshAt(r) /\ ClosedAt(r) /\ StepAt(r) /\ ValueAt(r)
    BY DEF InvFresh, InvClosed, InvStep, InvValue
  <2> QED BY <1>0, <2>1, GetTypes, NoteStep
<1>4. InvStand'
  <2>1. \A r \in Readers : rn[r] \in Ptr BY DEF GetTypeOK
  <2> QED BY <1>1, <2>1 DEF InvStand, Walking, Ptr
<1> QED BY <1>2, <1>3, <1>4 DEF InvFresh, InvClosed, InvStep, InvValue

\* The inductive step for the writers.
LEMMA WriterStep ==
    ASSUME IInv, NEW w \in Writers, WriterNext(w), Seen
    PROVE  IInv'
<1> USE DEF IInv
<1>0. TypeOK BY DEF GetTypeOK
<1>1. TypeOK' BY <1>0, TypeStep
<1>2. InvLock' BY <1>0, LockStep
<1>3. InvTree' BY <1>0, <1>1, TreeStep
<1>4. InvRaw' /\ \A x \in Obj : st[x] # "raw" => st'[x] # "raw"
  BY <1>0, <1>1, RawStep
<1>5. InvPoolNodes' BY <1>0, PoolNodesStep
<1>6. InvPoolLeaves' BY <1>0, PoolLeavesStep
<1>7. InvPending' BY <1>0, <1>1, PendingStep
<1>8. InvDel' BY <1>0, <1>1, DelStep
<1>9. InvInsert' BY <1>0, <1>1, InsertStep
<1>10. InvRemove' BY <1>0, <1>1, RemoveStep
<1>11. Gentle BY <1>0, <1>1, GentleStep
<1>12. /\ GetTypeOK' /\ InvFresh' /\ InvClosed' /\ InvStep' /\ InvValue'
       /\ InvStand'
  BY <1>1, <1>4, <1>11, ReaderFrame
<1> QED BY <1>2, <1>3, <1>4, <1>5, <1>6, <1>7, <1>8, <1>9, <1>10, <1>12

\* A reader writes nothing the writers' half of the invariant speaks of.
LEMMA WriterPartsFrame ==
    ASSUME TypeOK, InvLock, InvTree, InvPoolNodes, InvPoolLeaves,
           InvPending, InvDel, InvInsert, InvRemove, UNCHANGED wvars
    PROVE  /\ TypeOK' /\ InvLock' /\ InvTree' /\ InvPoolNodes'
           /\ InvPoolLeaves' /\ InvPending' /\ InvDel' /\ InvInsert'
           /\ InvRemove'
<1> USE DEF wvars, heap, pools, pending, call, locals, aux
<1>1. TypeOK' BY DEF TypeOK
<1>2. InvLock' BY DEF InvLock
<1>3. InvTree' BY DEF InvTree, NullOr
<1>4. InvPoolNodes' /\ InvPoolLeaves' BY DEF InvPoolNodes, InvPoolLeaves, NullOr
<1>5. InvPending' BY DEF InvPending, Waiting
<1>6. InvDel' BY DEF InvDel, GraceOver
<1>7. InvInsert' BY DEF InvInsert, Is, NullOr, Slot
<1>8. InvRemove' BY DEF InvRemove, Is, NullOr, Slot
<1> QED BY <1>1, <1>2, <1>3, <1>4, <1>5, <1>6, <1>7, <1>8

LEMMA RawFrame ==
    ASSUME InvRaw, UNCHANGED wvars
    PROVE  InvRaw'
  BY DEF InvRaw, wvars, heap, aux

\* A get writes its own variables only.
LEMMA GetKeeps ==
    ASSUME ReadersOK, NEW r \in Readers, GetCall(r) \/ GetRun(r)
    PROVE  /\ UNCHANGED wvars
           /\ UNCHANGED <<root, child, path, shift, lkey, lval, st, stamp,
                          remove_count>>
           /\ \A u \in Readers : u # r => Rests(u)
<1>1. UNCHANGED wvars
  BY DEF GetCall, GetRun, GetCount, GetRoot, GetShift, GetChild, GetMiss,
         GetMatch, GetValue, GetRestart, GetDone, GetReturn
<1>2. UNCHANGED <<root, child, path, shift, lkey, lval, st, stamp, remove_count>>
  BY <1>1 DEF wvars, heap, pending, aux
<1>3. ASSUME NEW u \in Readers, u # r PROVE Rests(u)
  BY <1>3 DEF Rests, ReadersOK, GetCall, GetRun, GetCount, GetRoot, GetShift,
     GetChild, GetMiss, GetMatch, GetValue, GetRestart, GetDone, GetReturn,
     RGoto, locs
<1> QED BY <1>1, <1>2, <1>3

\* What is known of a get that rests.
LEMMA GetRests ==
    ASSUME UNCHANGED <<child, lkey, lval, st, stamp, remove_count>>,
           NEW u \in Readers, Rests(u),
           FreshAt(u), ClosedAt(u), StepAt(u), ValueAt(u)
    PROVE  FreshAt(u)' /\ ClosedAt(u)' /\ StepAt(u)' /\ ValueAt(u)'
<1> USE DEF Rests
<1>1. FreshAt(u)' BY DEF FreshAt
<1>2. ClosedAt(u)' BY DEF ClosedAt, Expired, Walking
<1>3. StepAt(u)' BY DEF StepAt
<1>4. ValueAt(u)' BY DEF ValueAt, Expired
<1> QED BY <1>1, <1>2, <1>3, <1>4

\* What is known of a get that makes a step.
LEMMA GetMoves ==
    ASSUME TypeOK, InvTree, ReadersOK, NEW r \in Readers, GetCall(r) \/ GetRun(r),
           FreshAt(r), ClosedAt(r), StepAt(r), ValueAt(r)
    PROVE  FreshAt(r)' /\ ClosedAt(r)' /\ StepAt(r)' /\ ValueAt(r)'
<1> DEFINE
      Fresh(u) == FreshAt(u)
      Closed(u) == rpc[u] \in Reading /\ ~Expired(u) =>
         \A n \in Nodes : n \in fresh[u] =>
            \A i \in Nibs : child[n][i] = NULL \/ child[n][i] \in fresh[u]
      Stands(u) == ~Expired(u) /\ Walking(u) => rn[u] = NULL \/ rn[u] \in fresh[u]
      Step(u) == StepAt(u)
      LiveVal(u) == rpc[u] # "idle" =>
             \A l \in Leaves :
                st[l] = "live" /\ lkey[l] = rkey[u] => lval[l] \in valid[u]
      FreshVal(u) == rpc[u] \in Reading =>
             \A l \in Leaves :
                l \in fresh[u] /\ lkey[l] = rkey[u] => lval[l] \in valid[u]
      Hit(u) == /\ rpc[u] = "value" /\ ~Expired(u) => lkey[rn[u]] = rkey[u]
                /\ rpc[u] = "check" /\ ~Expired(u) /\ rres[u] # NULL =>
                      rres[u] \in valid[u]
      Fine(u) == /\ Fresh(u) /\ Closed(u) /\ Stands(u) /\ Step(u)
                 /\ LiveVal(u) /\ FreshVal(u) /\ Hit(u)
<1>0. TypeOK /\ InvTree /\ ReadersOK OBVIOUS
<1>p. {"walk", "child", "value"} \subseteq Reading BY DEF Reading
<1>d. Fine(r) BY <1>p DEF ClosedAt, ValueAt, Walking
<1>m. UNCHANGED <<root, child, shift, lkey, lval, st, stamp, remove_count>>
  BY GetKeeps
<1>t. /\ Leaves \subseteq Obj /\ Nodes \subseteq Obj
      /\ Ptr = Obj \cup {NULL}
      /\ NULL \notin Obj
      /\ root \in Ptr
      /\ \A n \in Nodes, i \in Nibs : child[n][i] \in Ptr
      /\ \A n \in Nodes : shift[n] \in Digits
      /\ remove_count \in Nat
      /\ rkey[r] \in Key
  BY <1>0, PtrAssumption DEF TypeOK, ReadersOK, Obj, Ptr
<1>5. Fine(r)'
  <2>0. Fine(r) BY <1>d
  <2> USE DEF Reading, Walking, FreshAt, StepAt
  <2>1. CASE GetCall(r)
    <3>1. PICK key \in ReadKeys : /\ rkey' = [rkey EXCEPT ![r] = key]
                                  /\ valid' = [valid EXCEPT ![r] = Current(key)]
      BY <2>1 DEF GetCall
    <3>2. rkey'[r] = key /\ valid'[r] = Current(key) /\ rpc'[r] = "count"
      BY <2>1, <3>1, <1>0 DEF GetCall, RGoto, ReadersOK
    <3>3. LiveVal(r)' BY <3>2, <1>m DEF Current
    <3> QED BY <3>2, <3>3
  <2>2. CASE GetCount(r)
    <3>1. /\ rpc[r] = "count" /\ rpc'[r] = "root" /\ rwrs1'[r] = remove_count
          /\ fresh'[r] = Live /\ rkey' = rkey /\ valid' = valid
      BY <2>2, <1>0 DEF GetCount, RGoto, ReadersOK
    <3>2. Fresh(r)' BY <3>1, <1>m, <1>t DEF Live
    <3>3. Closed(r)' BY <3>1, <1>m, <1>t, <1>0 DEF Live, InvTree, NullOr
    <3>4. FreshVal(r)' /\ LiveVal(r)' BY <3>1, <1>m, <2>0 DEF Live
    <3> QED BY <3>1, <3>2, <3>3, <3>4
  <2>3. CASE GetRoot(r)
    <3>1. /\ rpc[r] = "root" /\ rpc'[r] = "walk" /\ rn'[r] = root
          /\ UNCHANGED <<rkey, rwrs1, fresh, valid>>
      BY <2>3, <1>0 DEF GetRoot, RGoto, ReadersOK
    <3>2. Stands(r)' BY <3>1, <1>t, <1>0, <2>0 DEF InvTree, NullOr
    <3> QED BY <3>1, <3>2, <2>0, <1>m DEF Expired
  <2>4. CASE GetShift(r)
    <3>1. /\ rpc[r] = "walk" /\ rpc'[r] = "child" /\ rn[r] \in Nodes
          /\ rnib'[r] = slice_index(rkey[r], shift[rn[r]])
          /\ UNCHANGED <<rkey, rwrs1, rn, fresh, valid>>
      BY <2>4, <1>0 DEF GetShift, RGoto, ReadersOK
    <3>2. rnib'[r] \in Nibs BY <3>1, <1>t, KeyFacts
    <3> QED BY <3>1, <3>2, <2>0, <1>m DEF Expired
  <2>5. CASE GetChild(r)
    <3>1. /\ rpc[r] = "child" /\ rpc'[r] = "walk"
          /\ rn'[r] = child[rn[r]][rnib[r]]
          /\ UNCHANGED <<rkey, rwrs1, fresh, valid>>
      BY <2>5, <1>0 DEF GetChild, RGoto, ReadersOK
    <3>2. rn[r] \in Nodes /\ rnib[r] \in Nibs /\ rn[r] # NULL
      BY <3>1, <2>0, <1>t
    <3>3. Stands(r)' BY <3>1, <3>2, <2>0, <1>m DEF Expired
    <3> QED BY <3>1, <3>3, <2>0, <1>m DEF Expired
  <2>6. CASE GetMiss(r)
    <3>1. /\ rpc[r] = "walk" /\ rpc'[r] = "check" /\ rres'[r] = NULL
          /\ UNCHANGED <<rkey, rwrs1, fresh, valid>>
      BY <2>6, <1>0 DEF GetMiss, RGoto, ReadersOK
    <3> QED BY <3>1, <2>0, <1>m DEF Expired
  <2>7. CASE GetMatch(r)
    <3>1. /\ rpc[r] = "walk" /\ rpc'[r] = "value" /\ rn[r] \in Leaves
          /\ lkey[rn[r]] = rkey[r]
          /\ UNCHANGED <<rkey, rwrs1, rn, fresh, valid>>
      BY <2>7, <1>0 DEF GetMatch, RGoto, ReadersOK, is_leaf, locs
    <3> QED BY <3>1, <2>0, <1>m DEF Expired
  <2>8. CASE GetValue(r)
    <3>1. /\ rpc[r] = "value" /\ rpc'[r] = "check" /\ rres'[r] = lval[rn[r]]
          /\ UNCHANGED <<rkey, rwrs1, rn, fresh, valid>>
      BY <2>8, <1>0 DEF GetValue, RGoto, ReadersOK
    <3>2. rn[r] \in Leaves /\ rn[r] # NULL BY <3>1, <2>0, <1>t
    <3>3. ~Expired(r)' => ~Expired(r) BY <3>1, <1>m DEF Expired
    <3>4. Hit(r)' BY <3>1, <3>2, <3>3, <2>0
    <3> QED BY <3>1, <3>4, <2>0, <1>m DEF Expired
  <2>9. CASE GetRestart(r)
    <3>1. /\ rpc[r] = "check" /\ rpc'[r] = "count"
          /\ UNCHANGED <<rkey, valid>>
      BY <2>9, <1>0 DEF GetRestart, RGoto, ReadersOK
    <3> QED BY <3>1, <2>0, <1>m
  <2>10. CASE GetDone(r)
    <3>1. /\ rpc[r] = "check" /\ rpc'[r] = "ret"
          /\ UNCHANGED <<rkey, rwrs1, fresh, valid>>
      BY <2>10, <1>0 DEF GetDone, RGoto, ReadersOK, locs
    <3> QED BY <3>1, <2>0, <1>m DEF Expired
  <2>11. CASE GetReturn(r)
    <3>1. rpc'[r] = "idle"
      BY <2>11, <1>0 DEF GetReturn, RGoto, ReadersOK
    <3> QED BY <3>1
  <2> QED BY <2>1, <2>2, <2>3, <2>4, <2>5, <2>6, <2>7, <2>8, <2>9, <2>10,
             <2>11 DEF GetRun
<1> QED BY <1>5 DEF ClosedAt, ValueAt, Reading, Walking

\* The inductive step for the readers.
LEMMA ReaderStep ==
    ASSUME IInv, NEW r \in Readers, GetCall(r) \/ GetRun(r)
    PROVE  IInv'
<1>0. /\ GetTypeOK /\ TypeOK /\ ReadersOK /\ InvTree /\ InvRaw
      /\ InvFresh /\ InvClosed /\ InvStep /\ InvValue /\ InvStand
  BY GetTypes DEF IInv
<1>v. /\ UNCHANGED wvars
      /\ UNCHANGED <<root, child, lkey, lval, st, stamp, remove_count>>
      /\ \A u \in Readers : u # r => Rests(u)
  BY <1>0, GetKeeps
<1>1. /\ TypeOK' /\ InvLock' /\ InvRaw' /\ InvTree' /\ InvPoolNodes'
      /\ InvPoolLeaves' /\ InvPending' /\ InvDel' /\ InvInsert' /\ InvRemove'
  BY <1>0, <1>v, WriterPartsFrame, RawFrame DEF IInv
<1>t. /\ root \in Ptr
      /\ rn[r] \in Ptr /\ rnib[r] \in Nibs
      /\ \A n \in Nodes, i \in Nibs : child[n][i] \in Ptr
      /\ \A n \in Nodes : shift[n] \in Digits
      /\ \A l \in Leaves : lval[l] \in Values \cup Leaves \cup {NULL}
      /\ remove_count \in Nat
      /\ rkey[r] \in Key
      /\ [p \in Digits |-> 0] \in Key /\ ReadKeys \subseteq Key /\ 0 \in Nibs
      /\ NULL \in Ptr
  BY <1>0, KeyFacts, ReadAssumption DEF TypeOK, GetTypeOK, Ptr
<1>c. \A key : Current(key) \subseteq Values \cup Leaves \cup {NULL}
  BY <1>t DEF Current
<1>2. GetTypeOK'
  <2> USE DEF GetTypeOK
  <2>1. CASE GetCall(r)
    BY <2>1, <1>0, <1>1, <1>t, <1>c DEF GetCall, RGoto
  <2>2. CASE GetCount(r)
    BY <2>2, <1>0, <1>1, <1>t DEF GetCount, RGoto, Reading, Live
  <2>3. CASE GetRoot(r)
    BY <2>3, <1>0, <1>1, <1>t DEF GetRoot, RGoto, Reading
  <2>4. CASE GetShift(r)
    <3>1. rn[r] \in Nodes BY <2>4 DEF GetShift
    <3>2. slice_index(rkey[r], shift[rn[r]]) \in Nibs BY <3>1, <1>t, KeyFacts
    <3> QED BY <3>2, <2>4, <1>0, <1>1 DEF GetShift, RGoto, Reading
  <2>5. CASE GetChild(r)
    <3>1. rn[r] \in Nodes BY <2>5, <1>0 DEF GetChild, InvStep, StepAt
    <3>2. child[rn[r]][rnib[r]] \in Ptr BY <3>1, <1>t
    <3> QED BY <3>2, <2>5, <1>0, <1>1 DEF GetChild, RGoto, Reading
  <2>6. CASE GetMiss(r)
    BY <2>6, <1>0, <1>1 DEF GetMiss, RGoto, Reading
  <2>7. CASE GetMatch(r)
    BY <2>7, <1>0, <1>1 DEF GetMatch, RGoto, Reading, locs
  <2>8. CASE GetValue(r)
    <3>1. rn[r] \in Leaves BY <2>8, <1>0 DEF GetValue, InvStep, StepAt
    <3>2. lval[rn[r]] \in Values \cup Leaves \cup {NULL} BY <3>1, <1>t
    <3> QED BY <3>2, <2>8, <1>0, <1>1 DEF GetValue, RGoto, Reading
  <2>9. CASE GetRestart(r)
    BY <2>9, <1>0, <1>1, <1>t DEF GetRestart, RGoto
  <2>10. CASE GetDone(r)
    BY <2>10, <1>0, <1>1 DEF GetDone, RGoto, Reading, locs
  <2>11. CASE GetReturn(r)
    BY <2>11, <1>0, <1>1, <1>t DEF GetReturn, RGoto
  <2> QED BY <2>1, <2>2, <2>3, <2>4, <2>5, <2>6, <2>7, <2>8, <2>9, <2>10,
             <2>11 DEF GetRun
<1>3. ASSUME NEW u \in Readers
      PROVE  FreshAt(u)' /\ ClosedAt(u)' /\ StepAt(u)' /\ ValueAt(u)'
  <2>1. FreshAt(u) /\ ClosedAt(u) /\ StepAt(u) /\ ValueAt(u)
    BY <1>0 DEF InvFresh, InvClosed, InvStep, InvValue
  <2>2. CASE u # r BY <1>v, <2>1, <2>2, GetRests
  <2>3. CASE u = r BY <1>0, <2>1, <2>3, GetMoves
  <2> QED BY <2>2, <2>3
<1>4. InvStand'
  <2>1. ASSUME NEW u \in Readers, Walking(u)', rn'[u] # NULL
        PROVE  st[rn'[u]] # "raw"
    <3>1. CASE u # r BY <1>0, <1>v, <2>1, <3>1 DEF InvStand, Walking, Rests
    <3>2. CASE u = r /\ GetRoot(r)
      <4>1. rn'[r] = root BY <1>0, <3>2 DEF GetRoot, GetTypeOK
      <4> QED BY <4>1, <1>0, <2>1, <3>2 DEF InvRaw
    <3>3. CASE u = r /\ GetChild(r)
      <4>1. rn'[r] = child[rn[r]][rnib[r]] /\ rn[r] \in Nodes
        BY <1>0, <3>3 DEF GetChild, GetTypeOK, InvStep, StepAt
      <4> QED BY <4>1, <1>0, <1>t, <2>1, <3>3 DEF InvRaw
    <3>4. CASE u = r /\ (GetShift(r) \/ GetMatch(r))
      <4>1. rn' = rn /\ Walking(r)
        BY <3>4 DEF GetShift, GetMatch, Walking, locs
      <4> QED BY <4>1, <1>0, <2>1, <3>4 DEF InvStand
    <3>5. CASE u = r /\ ~GetRoot(r) /\ ~GetChild(r) /\ ~GetShift(r) /\ ~GetMatch(r)
      <4>1. ~Walking(r)'
        BY <1>0, <3>5 DEF GetTypeOK, GetRun, GetCall, GetCount, GetMiss, GetValue,
           GetRestart, GetDone, GetReturn, RGoto, Walking
      <4> QED BY <4>1, <2>1, <3>5
    <3> QED BY <3>1, <3>2, <3>3, <3>4, <3>5
  <2> QED BY <2>1, <1>v DEF InvStand
<1>5. InvFresh' /\ InvClosed' /\ InvStep' /\ InvValue'
  BY <1>3 DEF InvFresh, InvClosed, InvStep, InvValue
<1> QED BY <1>1, <1>2, <1>4, <1>5 DEF IInv

\* The structure critnib_new returns, with every thread idle.
LEMMA InitIInv ==
    ASSUME GetInit
    PROVE  IInv
<1>i. Init BY DEF GetInit
<1>0. /\ [p \in Digits |-> 0] \in Key
      /\ 0 \in Digits /\ 0 \in Nibs /\ 0 \in Slots
      /\ \A w \in Writers : w # NULL
      /\ NULL \in Ptr
  BY KeyFacts, PtrAssumption DEF Ptr
<1>1. TypeOK
  BY <1>i, <1>0 DEF Init, TypeOK, Results, States
<1>2. GetTypeOK
  BY <1>0, <1>1 DEF GetInit, GetTypeOK
<1>3. InvLock BY <1>i, <1>0 DEF InvLock, Init, Busy, InsertPC, RemovePC
<1>4. /\ InvRaw /\ InvPoolNodes /\ InvPoolLeaves /\ InvPending
  BY <1>i, PtrAssumption DEF InvRaw, InvPoolNodes, InvPoolLeaves, InvPending, NullOr,
     Init, Obj
<1>5. InvTree BY <1>i DEF InvTree, NullOr, Init, Obj
<1>6. InvDel /\ InvInsert /\ InvRemove
  BY <1>i DEF InvDel, InvInsert, InvRemove, Init
<1>7. InvFresh /\ InvClosed /\ InvStep /\ InvValue /\ InvStand
  BY DEF InvFresh, InvClosed, InvStep, InvValue, InvStand, FreshAt, ClosedAt,
         StepAt, ValueAt, GetInit, Reading, Walking
<1> QED BY <1>2, <1>3, <1>4, <1>5, <1>6, <1>7 DEF IInv

\* A step that changes nothing.
LEMMA StutterStep ==
    ASSUME IInv, UNCHANGED vars
    PROVE  IInv'
<1>0. TypeOK BY DEF IInv, GetTypeOK
<1>1. UNCHANGED wvars /\ UNCHANGED <<rpc, rkey, rwrs1, rn, rnib, rres, fresh, valid>>
  BY DEF vars, rvars, locs
<1>m. UNCHANGED <<child, lkey, lval, st, stamp, remove_count>>
  BY <1>1 DEF wvars, heap, pending, aux
<1>2. /\ TypeOK' /\ InvLock' /\ InvRaw' /\ InvTree' /\ InvPoolNodes'
      /\ InvPoolLeaves' /\ InvPending' /\ InvDel' /\ InvInsert' /\ InvRemove'
  BY <1>0, <1>1, WriterPartsFrame, RawFrame DEF IInv
<1>3. GetTypeOK' BY <1>1, <1>2 DEF IInv, GetTypeOK
<1>4. ASSUME NEW u \in Readers
      PROVE  FreshAt(u)' /\ ClosedAt(u)' /\ StepAt(u)' /\ ValueAt(u)'
  <2>1. FreshAt(u) /\ ClosedAt(u) /\ StepAt(u) /\ ValueAt(u)
    BY DEF IInv, InvFresh, InvClosed, InvStep, InvValue
  <2>2. Rests(u) BY <1>1 DEF Rests
  <2> QED BY <1>m, <2>1, <2>2, GetRests
<1>5. InvStand' BY <1>1, <1>m DEF IInv, InvStand, Walking
<1> QED BY <1>2, <1>3, <1>4, <1>5 DEF IInv, InvFresh, InvClosed, InvStep, InvValue

\* IInv is inductive, so it holds in every reachable state.
THEOREM Invariance == Spec => []IInv
<1>1. GetInit => IInv BY InitIInv
<1>2. IInv /\ [Next]_vars => IInv'
  <2> SUFFICES ASSUME IInv, [Next]_vars PROVE IInv'
    OBVIOUS
  <2>1. ASSUME NEW w \in Writers, WriterNext(w) /\ Seen PROVE IInv'
    BY <2>1, WriterStep
  <2>2. ASSUME NEW r \in Readers, GetCall(r) \/ GetRun(r) PROVE IInv'
    BY <2>2, ReaderStep
  <2>3. CASE UNCHANGED vars BY <2>3, StutterStep
  <2> QED BY <2>1, <2>2, <2>3 DEF Next
<1> QED BY <1>1, <1>2, PTL DEF Spec

\* For every number of threads, every set of blocks, keys and values, and
\* every grace period: the variables of critnib_insert, critnib_remove and
\* critnib_get always have their types.
THEOREM TypeCorrect == Spec => []GetTypeOK
<1>1. IInv => GetTypeOK BY DEF IInv
<1> QED BY <1>1, Invariance, PTL

\* Within its grace period a get only stands on blocks that were in the tree
\* during the attempt and that no remove has recycled since.
THEOREM GraceIsSafe == Spec => []GraceSafe
<1>1. IInv => GraceSafe
  BY DEF IInv, GraceSafe, InvClosed, ClosedAt, Walking, Reading
<1> QED BY <1>1, Invariance, PTL

\* However stale, a get never leaves the blocks of the structure.
THEOREM StaleIsContained == Spec => []StaleContained
<1>1. IInv => StaleContained BY DEF IInv, StaleContained, InvStand
<1> QED BY <1>1, Invariance, PTL
=============================================================================
