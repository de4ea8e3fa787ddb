------------------------------ MODULE Critnib ------------------------------
(***************************************************************************)
(* The critnib of critnib.c: its memory, its node and leaf pools, and the  *)
(* writer side (critnib_insert, critnib_remove).  Readers never write to   *)
(* the structure; they are in CritnibGet and CritnibLe, which extend this  *)
(* module.                                                                 *)
(*                                                                         *)
(* One step is one access other threads can tell apart: a store to memory  *)
(* a reader may look at, or a lock operation.  Reads made under the mutex  *)
(* of memory only writers write are merged with the step that follows.     *)
(*                                                                         *)
(* Keys are those of Nibbles: the code's shift is SLICE times a position.  *)
(***************************************************************************)
EXTENDS Nibbles, FiniteSets

CONSTANTS
    Writers,       \* threads that call critnib_insert and critnib_remove
    Nodes,         \* blocks malloc can hand out as struct critnib_node
    Leaves,        \* blocks malloc can hand out as struct critnib_leaf
    NULL,
    DELETED_LIFE,  \* grace period, in removes (16 in the code)
    Keys,          \* keys the callers use
    Values,        \* values the callers store
    MaxInserts,    \* bound: calls of critnib_insert in a behaviour
    MaxRemoves,    \* bound: calls of critnib_remove in a behaviour
    MallocMayFail  \* FALSE: malloc fails only when it has no block left

Obj    == Nodes \cup Leaves
Ptr    == Obj \cup {NULL}
Slots  == 0 .. DELETED_LIFE-1

ASSUME SizeAssumption ==
    /\ LEVELS \in Nat \ {0}
    /\ NIB \in Nat \ {0}
    /\ DELETED_LIFE \in Nat \ {0}
    /\ MaxInserts \in Nat
    /\ MaxRemoves \in Nat
    /\ MallocMayFail \in BOOLEAN
    /\ Keys \subseteq Key

ASSUME PtrAssumption ==
    /\ Nodes \cap Leaves = {}
    /\ NULL \notin Nodes \cup Leaves \cup Values \cup Writers
    /\ Values \cap Leaves = {}

-----------------------------------------------------------------------------
VARIABLES
    root, child, path, shift,      \* struct critnib_node, by block
    lkey, lval,                    \* struct critnib_leaf, by block
    deleted_node, deleted_leaf,    \* heads of the pools of freed blocks
    pending_del_nodes, pending_del_leaves,
    remove_count,
    mutex,                         \* its owner, or NULL
    \* One value per writer thread: program counter, call, locals, result.
    wpc, wop, wkey, wval, wk, wm, wsh, wn, wpar, wgp, wdel, wret,
    inserts, removes,              \* calls made, for the bounds
    \* Auxiliary.  What has become of a block: "raw" (malloc's), "held" (a
    \* writer's local only), "live" (in the tree), "gone" (unlinked, in its
    \* grace period), "pool" (free for reuse); and, for a gone block, the
    \* number of the remove that unlinked it.
    st, stamp

heap    == <<child, path, shift, lkey, lval>>
pools   == <<deleted_node, deleted_leaf>>
pending == <<pending_del_nodes, pending_del_leaves, remove_count>>
call    == <<wop, wkey, wval, inserts, removes>>
locals  == <<wk, wm, wsh, wn, wpar, wgp, wdel>>
aux     == <<st, stamp>>
wvars   == <<root, heap, pools, pending, mutex, wpc, call, locals, wret, aux>>

States  == {"raw", "held", "live", "gone", "pool"}
Results == Values \cup Leaves \cup {NULL} \cup {"0", "EEXIST", "ENOMEM"}
InsertPC == {"alloc_leaf", "set_key", "set_value", "walk", "clear", "link",
             "head", "publish"}
RemovePC == {"remove", "free_node", "free_leaf", "find", "fix"}

-----------------------------------------------------------------------------
(* The helpers of critnib.c.                                               *)

is_leaf(n) == n \in Leaves

\* The word a writer's "struct critnib_node **" points at: the root when its
\* node is NULL, else the slot of that node that the key selects.
StoreAt(p, key, v) ==
    IF p = NULL
    THEN root' = v /\ UNCHANGED child
    ELSE child' = [child EXCEPT ![p][slice_index(key, shift[p])] = v]
         /\ UNCHANGED root

Goto(w, l) == wpc' = [wpc EXCEPT ![w] = l]
Ret(w, r)  == /\ Goto(w, "unlock")
              /\ wret' = [wret EXCEPT ![w] = r]

Raw(S) == {x \in S : st[x] = "raw"}
\* Blocks malloc still has are interchangeable, so one of them stands for all.
Malloc(S) == CHOOSE x \in Raw(S) : TRUE
MallocFails(S) == MallocMayFail \/ Raw(S) = {}

-----------------------------------------------------------------------------
(* critnib_new: the structure is zeroed.  Locals of idle threads are NULL. *)

Init ==
    /\ root = NULL
    /\ child = [n \in Nodes |-> [i \in Nibs |-> NULL]]
    /\ path = [n \in Nodes |-> [p \in Digits |-> 0]]
    /\ shift = [n \in Nodes |-> 0]
    /\ lkey = [l \in Leaves |-> [p \in Digits |-> 0]]
    /\ lval = [l \in Leaves |-> NULL]
    /\ deleted_node = NULL
    /\ deleted_leaf = NULL
    /\ pending_del_nodes = [i \in Slots |-> NULL]
    /\ pending_del_leaves = [i \in Slots |-> NULL]
    /\ remove_count = 0
    /\ mutex = NULL
    /\ wpc = [w \in Writers |-> "idle"]
    /\ wop = [w \in Writers |-> "none"]
    /\ wkey = [w \in Writers |-> [p \in Digits |-> 0]]
    /\ wval = [w \in Writers |-> NULL]
    /\ wk = [w \in Writers |-> NULL]
    /\ wm = [w \in Writers |-> NULL]
    /\ wsh = [w \in Writers |-> 0]
    /\ wn = [w \in Writers |-> NULL]
    /\ wpar = [w \in Writers |-> NULL]
    /\ wgp = [w \in Writers |-> NULL]
    /\ wdel = [w \in Writers |-> 0]
    /\ wret = [w \in Writers |-> NULL]
    /\ inserts = 0
    /\ removes = 0
    /\ st = [x \in Obj |-> "raw"]
    /\ stamp = [x \in Obj |-> 0]

(* A call, os_mutex_lock, and os_mutex_unlock with the return.             *)
Call(w, op, key, value) ==
    /\ wpc[w] = "idle"
    /\ wop' = [wop EXCEPT ![w] = op]
    /\ wkey' = [wkey EXCEPT ![w] = key]
    /\ wval' = [wval EXCEPT ![w] = value]
    /\ Goto(w, "lock")
    /\ UNCHANGED <<root, heap, pools, pending, mutex, locals, wret, aux>>

Lock(w) ==
    /\ wpc[w] = "lock"
    /\ mutex = NULL
    /\ mutex' = w
    /\ Goto(w, IF wop[w] = "insert" THEN "alloc_leaf" ELSE "remove")
    /\ UNCHANGED <<root, heap, pools, pending, call, locals, wret, aux>>

Unlock(w) ==
    /\ wpc[w] = "unlock"
    /\ mutex' = NULL
    /\ Goto(w, "idle")
    /\ wop' = [wop EXCEPT ![w] = "none"]
    /\ wkey' = [wkey EXCEPT ![w] = [p \in Digits |-> 0]]
    /\ wval' = [wval EXCEPT ![w] = NULL]
    /\ wk' = [wk EXCEPT ![w] = NULL]
    /\ wm' = [wm EXCEPT ![w] = NULL]
    /\ wsh' = [wsh EXCEPT ![w] = 0]
    /\ wn' = [wn EXCEPT ![w] = NULL]
    /\ wpar' = [wpar EXCEPT ![w] = NULL]
    /\ wgp' = [wgp EXCEPT ![w] = NULL]
    /\ wdel' = [wdel EXCEPT ![w] = 0]
    /\ wret' = [wret EXCEPT ![w] = NULL]
    /\ UNCHANGED <<root, heap, pools, pending, inserts, removes, aux>>

-----------------------------------------------------------------------------
(* The pools.  free_node links a block through child[0], free_leaf through *)
(* value; both keep the blocks inside the structure, never giving them     *)
(* back to malloc, because a stalled reader may still walk through them.   *)

\* Mutant: the block becomes the head without being linked to the others.
free_node_unlinked(n) ==
    IF n = NULL
    THEN UNCHANGED <<child, deleted_node>>
    ELSE deleted_node' = n /\ UNCHANGED child

free_node(n) ==
    IF n = NULL
    THEN UNCHANGED <<child, deleted_node>>
    ELSE /\ child' = [child EXCEPT ![n][0] = deleted_node]
         /\ deleted_node' = n

free_leaf(k) ==
    IF k = NULL
    THEN UNCHANGED <<lval, deleted_leaf>>
    ELSE /\ lval' = [lval EXCEPT ![k] = deleted_leaf]
         /\ deleted_leaf' = k

\* The block alloc_leaf returns, and the pool's new head, when it succeeds.
alloc_leaf(k) ==
    \/ /\ deleted_leaf # NULL
       /\ k = deleted_leaf
       /\ deleted_leaf' = lval[deleted_leaf]
    \/ /\ deleted_leaf = NULL
       /\ Raw(Leaves) # {}
       /\ k = Malloc(Leaves)
       /\ UNCHANGED deleted_leaf

\* Mutant: the next block is read from a slot that is not the link.
alloc_node_last(n) ==
    \/ /\ deleted_node # NULL
       /\ n = deleted_node
       /\ deleted_node' = child[deleted_node][NIB]
    \/ /\ deleted_node = NULL
       /\ Raw(Nodes) # {}
       /\ n = Malloc(Nodes)
       /\ UNCHANGED deleted_node

alloc_node(n) ==
    \/ /\ deleted_node # NULL
       /\ n = deleted_node
       /\ deleted_node' = child[deleted_node][0]
    \/ /\ deleted_node = NULL
       /\ Raw(Nodes) # {}
       /\ n = Malloc(Nodes)
       /\ UNCHANGED deleted_node

Become(x, s) == st' = [st EXCEPT ![x] = s] /\ UNCHANGED stamp

\* x leaves the tree in the remove whose number is remove_count - 1.
Retire(x) == /\ st' = [st EXCEPT ![x] = "gone"]
             /\ stamp' = [stamp EXCEPT ![x] = remove_count - 1]

\* Mutant: x, if any, goes back to malloc.
RecycleToMalloc(x) == IF x = NULL
                      THEN UNCHANGED aux
                      ELSE /\ st' = [st EXCEPT ![x] = "raw"]
                           /\ stamp' = [stamp EXCEPT ![x] = 0]

\* x, if any, becomes free for reuse.
Recycle(x) == IF x = NULL
              THEN UNCHANGED aux
              ELSE /\ st' = [st EXCEPT ![x] = "pool"]
                   /\ stamp' = [stamp EXCEPT ![x] = 0]

-----------------------------------------------------------------------------
(* critnib_insert.                                                         *)

InsertAllocLeaf(w) ==
    /\ wpc[w] = "alloc_leaf"
    /\ \E k \in Leaves : /\ alloc_leaf(k)
                         /\ wk' = [wk EXCEPT ![w] = k]
                         /\ Become(k, "held")
    /\ Goto(w, "set_key")
    /\ UNCHANGED <<root, heap, deleted_node, pending, mutex, call, wret,
                   wm, wsh, wn, wpar, wgp, wdel>>

InsertNoLeaf(w) ==
    /\ wpc[w] = "alloc_leaf"
    /\ deleted_leaf = NULL
    /\ MallocFails(Leaves)
    /\ Ret(w, "ENOMEM")
    /\ UNCHANGED <<root, heap, pools, pending, mutex, call, locals, aux>>

InsertSetKey(w) ==
    /\ wpc[w] = "set_key"
    /\ lkey' = [lkey EXCEPT ![wk[w]] = wkey[w]]
    /\ Goto(w, "set_value")
    /\ UNCHANGED <<root, child, path, shift, lval, pools, pending, mutex,
                   call, locals, wret, aux>>

\* k->value = value; n = c->root; parent = &c->root.
InsertSetValue(w) ==
    /\ wpc[w] = "set_value"
    /\ lval' = [lval EXCEPT ![wk[w]] = wval[w]]
    /\ wn' = [wn EXCEPT ![w] = root]
    /\ Goto(w, "walk")
    /\ UNCHANGED <<root, child, path, shift, lkey, pools, pending, mutex,
                   call, wk, wm, wsh, wpar, wgp, wdel, wret, aux>>

\* Mutant: the walk does not compare the path.
OnPathUnchecked(n, key) == n \in Nodes

\* The loop's condition: n is a node on the key's path.
OnPath(n, key) == n \in Nodes /\ path_mask(key, shift[n]) = path[n]

InsertDescend(w) ==
    /\ wpc[w] = "walk"
    /\ OnPath(wn[w], wkey[w])
    /\ wpar' = [wpar EXCEPT ![w] = wn[w]]
    /\ wn' = [wn EXCEPT ![w] =
                 child[wn[w]][slice_index(wkey[w], shift[wn[w]])]]
    /\ UNCHANGED <<root, heap, pools, pending, mutex, wpc, call, wret,
                   wk, wm, wsh, wgp, wdel, aux>>

\* The tree is empty, or the slot the walk ended at is: the leaf goes there.
InsertInSlot(w) ==
    /\ wpc[w] = "walk"
    /\ wn[w] = NULL
    /\ StoreAt(wpar[w], wkey[w], wk[w])
    /\ Become(wk[w], "live")
    /\ Ret(w, "0")
    /\ UNCHANGED <<path, shift, lkey, lval, pools, pending, mutex, call,
                   locals>>

\* The key, or the path of the node, that the walk stopped at.
PathOf(n) == IF is_leaf(n) THEN lkey[n] ELSE path[n]

Diverges(w) == /\ wpc[w] = "walk"
               /\ wn[w] # NULL
               /\ ~OnPath(wn[w], wkey[w])

\* Mutant: the return for a key that is there already forgets to unlock.
InsertExistsLocked(w) ==
    /\ Diverges(w)
    /\ PathOf(wn[w]) = wkey[w]
    /\ free_leaf(wk[w])
    /\ Recycle(wk[w])
    /\ Goto(w, "idle")
    /\ UNCHANGED <<root, child, path, shift, lkey, deleted_node, pending,
                   mutex, call, locals, wret>>

InsertExists(w) ==
    /\ Diverges(w)
    /\ PathOf(wn[w]) = wkey[w]
    /\ free_leaf(wk[w])
    /\ Recycle(wk[w])
    /\ Ret(w, "EEXIST")
    /\ UNCHANGED <<root, child, path, shift, lkey, deleted_node, pending,
                   mutex, call, locals>>

InsertAllocNode(w) ==
    /\ Diverges(w)
    /\ \E sh \in Digits : /\ TopDiff(PathOf(wn[w]), wkey[w], sh)
                          /\ wsh' = [wsh EXCEPT ![w] = sh]
    /\ \E m \in Nodes : /\ alloc_node(m)
                        /\ wm' = [wm EXCEPT ![w] = m]
                        /\ Become(m, "held")
    /\ Goto(w, "clear")
    /\ UNCHANGED <<root, heap, deleted_leaf, pending, mutex, call, wret,
                   wk, wn, wpar, wgp, wdel>>

InsertNoNode(w) ==
    /\ Diverges(w)
    /\ PathOf(wn[w]) # wkey[w]
    /\ deleted_node = NULL
    /\ MallocFails(Nodes)
    /\ free_leaf(wk[w])
    /\ Recycle(wk[w])
    /\ Ret(w, "ENOMEM")
    /\ UNCHANGED <<root, child, path, shift, lkey, deleted_node, pending,
                   mutex, call, locals>>

InsertClear(w) ==
    /\ wpc[w] = "clear"
    /\ child' = [child EXCEPT ![wm[w]] = [i \in Nibs |-> NULL]]
    /\ Goto(w, "link")
    /\ UNCHANGED <<root, path, shift, lkey, lval, pools, pending, mutex,
                   call, locals, wret, aux>>

\* Mutant: the second slot gets the new node itself.
InsertLinkLoop(w) ==
    /\ wpc[w] = "link"
    /\ child' = [child EXCEPT
                    ![wm[w]][slice_index(wkey[w], wsh[w])] = wk[w],
                    ![wm[w]][slice_index(PathOf(wn[w]), wsh[w])] = wm[w]]
    /\ Goto(w, "head")
    /\ UNCHANGED <<root, path, shift, lkey, lval, pools, pending, mutex,
                   call, locals, wret, aux>>

\* Mutant: what was in the slot before is not linked.
InsertLinkOne(w) ==
    /\ wpc[w] = "link"
    /\ child' = [child EXCEPT ![wm[w]][slice_index(wkey[w], wsh[w])] = wk[w]]
    /\ Goto(w, "head")
    /\ UNCHANGED <<root, path, shift, lkey, lval, pools, pending, mutex,
                   call, locals, wret, aux>>

InsertLink(w) ==
    /\ wpc[w] = "link"
    /\ child' = [child EXCEPT
                    ![wm[w]][slice_index(wkey[w], wsh[w])] = wk[w],
                    ![wm[w]][slice_index(PathOf(wn[w]), wsh[w])] = wn[w]]
    /\ Goto(w, "head")
    /\ UNCHANGED <<root, path, shift, lkey, lval, pools, pending, mutex,
                   call, locals, wret, aux>>

InsertHead(w) ==
    /\ wpc[w] = "head"
    /\ shift' = [shift EXCEPT ![wm[w]] = wsh[w]]
    /\ path' = [path EXCEPT ![wm[w]] = path_mask(wkey[w], wsh[w])]
    /\ Goto(w, "publish")
    /\ UNCHANGED <<root, child, lkey, lval, pools, pending, mutex,
                   call, locals, wret, aux>>

\* store(parent, m): the new node, and with it the new leaf, enter the tree.
InsertPublish(w) ==
    /\ wpc[w] = "publish"
    /\ StoreAt(wpar[w], wkey[w], wm[w])
    /\ st' = [st EXCEPT ![wm[w]] = "live", ![wk[w]] = "live"]
    /\ Ret(w, "0")
    /\ UNCHANGED <<path, shift, lkey, lval, pools, pending, mutex, call,
                   locals, stamp>>

-----------------------------------------------------------------------------
(* critnib_remove.                                                         *)

RemoveEmpty(w) ==
    /\ wpc[w] = "remove"
    /\ root = NULL
    /\ Ret(w, NULL)
    /\ UNCHANGED <<root, heap, pools, pending, mutex, call, locals, aux>>

\* Every remove of a non-empty tree counts, whether it finds its key or not.
RemoveCount(w) ==
    /\ wpc[w] = "remove"
    /\ root # NULL
    /\ wdel' = [wdel EXCEPT ![w] = remove_count % DELETED_LIFE]
    /\ remove_count' = remove_count + 1
    /\ Goto(w, "free_node")
    /\ UNCHANGED <<root, heap, pools, pending_del_nodes, pending_del_leaves,
                   mutex, call, wret, wk, wm, wsh, wn, wpar, wgp, aux>>

\* The blocks the remove DELETED_LIFE earlier unlinked have had their grace.
RemoveFreeNode(w) ==
    /\ wpc[w] = "free_node"
    /\ free_node(pending_del_nodes[wdel[w]])
    /\ Recycle(pending_del_nodes[wdel[w]])
    /\ Goto(w, "free_leaf")
    /\ UNCHANGED <<root, path, shift, lkey, lval, deleted_leaf, pending,
                   mutex, call, locals, wret>>

\* Mutant: the pending slots keep what has been recycled.
RemoveFreeLeafKept(w) ==
    /\ wpc[w] = "free_leaf"
    /\ free_leaf(pending_del_leaves[wdel[w]])
    /\ Recycle(pending_del_leaves[wdel[w]])
    /\ wn' = [wn EXCEPT ![w] = root]
    /\ Goto(w, "find")
    /\ UNCHANGED <<root, child, path, shift, lkey, deleted_node, pending,
                   mutex, call, wret, wk, wm, wsh, wpar, wgp, wdel>>

RemoveFreeLeaf(w) ==
    /\ wpc[w] = "free_leaf"
    /\ free_leaf(pending_del_leaves[wdel[w]])
    /\ Recycle(pending_del_leaves[wdel[w]])
    /\ pending_del_nodes' = [pending_del_nodes EXCEPT ![wdel[w]] = NULL]
    /\ pending_del_leaves' = [pending_del_leaves EXCEPT ![wdel[w]] = NULL]
    /\ wn' = [wn EXCEPT ![w] = root]
    /\ Goto(w, "find")
    /\ UNCHANGED <<root, child, path, shift, lkey, deleted_node,
                   remove_count, mutex, call, wret,
                   wk, wm, wsh, wpar, wgp, wdel>>

\* wn is the code's kn, wpar its n (the node k_parent is in), wgp the node
\* n_parent is in.
RemoveDescend(w) ==
    /\ wpc[w] = "find"
    /\ wn[w] \in Nodes
    /\ wgp' = [wgp EXCEPT ![w] = wpar[w]]
    /\ wpar' = [wpar EXCEPT ![w] = wn[w]]
    /\ wn' = [wn EXCEPT ![w] =
                 child[wn[w]][slice_index(wkey[w], shift[wn[w]])]]
    /\ UNCHANGED <<root, heap, pools, pending, mutex, wpc, call, wret,
                   wk, wm, wsh, wdel, aux>>

\* An empty slot, or a leaf with another key.
RemoveAbsent(w) ==
    /\ wpc[w] = "find"
    /\ \/ wn[w] = NULL
       \/ is_leaf(wn[w]) /\ lkey[wn[w]] # wkey[w]
    /\ Ret(w, NULL)
    /\ UNCHANGED <<root, heap, pools, pending, mutex, call, locals, aux>>

\* Mutant: the leaf at the end of the walk is taken for the key's.
FoundAny(w) == wpc[w] = "find" /\ is_leaf(wn[w])

Found(w) == /\ wpc[w] = "find"
            /\ is_leaf(wn[w])
            /\ lkey[wn[w]] = wkey[w]

\* The leaf is the whole tree.
RemoveRoot(w) ==
    /\ Found(w)
    /\ wpar[w] = NULL
    /\ root' = NULL
    /\ Retire(wn[w])
    /\ pending_del_leaves' = [pending_del_leaves EXCEPT ![wdel[w]] = wn[w]]
    /\ Ret(w, lval[wn[w]])
    /\ UNCHANGED <<heap, pools, pending_del_nodes, remove_count, mutex,
                   call, locals>>

RemoveUnlink(w) ==
    /\ Found(w)
    /\ wpar[w] # NULL
    /\ child' = [child EXCEPT
                    ![wpar[w]][slice_index(wkey[w], shift[wpar[w]])] = NULL]
    /\ Retire(wn[w])
    /\ Goto(w, "fix")
    /\ UNCHANGED <<root, path, shift, lkey, lval, pools, pending, mutex,
                   call, locals, wret>>

Occupied(n) == {i \in Nibs : child[n][i] # NULL}

\* Another two children remain: the node stays.
RemoveKeep(w) ==
    /\ wpc[w] = "fix"
    /\ \E i, j \in Occupied(wpar[w]) : i # j
    /\ pending_del_leaves' = [pending_del_leaves EXCEPT ![wdel[w]] = wn[w]]
    /\ Ret(w, lval[wn[w]])
    /\ UNCHANGED <<root, heap, pools, pending_del_nodes, remove_count, mutex,
                   call, locals, aux>>

\* Only one child remains: it takes the place of the node.
RemoveCollapse(w) ==
    /\ wpc[w] = "fix"
    /\ \E ochild \in Nibs :
          /\ Occupied(wpar[w]) = {ochild}
          /\ StoreAt(wgp[w], wkey[w], child[wpar[w]][ochild])
    /\ Retire(wpar[w])
    /\ pending_del_nodes' = [pending_del_nodes EXCEPT ![wdel[w]] = wpar[w]]
    /\ pending_del_leaves' = [pending_del_leaves EXCEPT ![wdel[w]] = wn[w]]
    /\ Ret(w, lval[wn[w]])
    /\ UNCHANGED <<path, shift, lkey, lval, pools, remove_count, mutex,
                   call, locals>>

-----------------------------------------------------------------------------
Insert(w) ==
    \/ InsertAllocLeaf(w) \/ InsertNoLeaf(w) \/ InsertSetKey(w)
    \/ InsertSetValue(w) \/ InsertDescend(w) \/ InsertInSlot(w)
    \/ InsertExists(w) \/ InsertAllocNode(w) \/ InsertNoNode(w)
    \/ InsertClear(w) \/ InsertLink(w) \/ InsertHead(w) \/ InsertPublish(w)

Remove(w) ==
    \/ RemoveEmpty(w) \/ RemoveCount(w) \/ RemoveFreeNode(w)
    \/ RemoveFreeLeaf(w) \/ RemoveDescend(w) \/ RemoveAbsent(w)
    \/ RemoveRoot(w) \/ RemoveUnlink(w) \/ RemoveKeep(w)
    \/ RemoveCollapse(w)

CallInsert(w) == /\ inserts < MaxInserts
                 /\ \E key \in Keys, value \in Values :
                       Call(w, "insert", key, value)
                 /\ inserts' = inserts + 1
                 /\ UNCHANGED removes
CallRemove(w) == /\ removes < MaxRemoves
                 /\ \E key \in Keys : Call(w, "remove", key, NULL)
                 /\ removes' = removes + 1
                 /\ UNCHANGED inserts

\* What a writer does of its own accord once it has been called.
Run(w) == Lock(w) \/ Insert(w) \/ Remove(w) \/ Unlock(w)

WriterNext(w) == CallInsert(w) \/ CallRemove(w) \/ Run(w)

-----------------------------------------------------------------------------
(* Properties of the structure.                                            *)

TypeOK ==
    /\ root \in Ptr
    /\ child \in [Nodes -> [Nibs -> Ptr]]
    /\ path \in [Nodes -> Key]
    /\ shift \in [Nodes -> Digits]
    /\ lkey \in [Leaves -> Key]
    /\ lval \in [Leaves -> Values \cup Leaves \cup {NULL}]
    /\ deleted_node \in Nodes \cup {NULL}
    /\ deleted_leaf \in Leaves \cup {NULL}
    /\ pending_del_nodes \in [Slots -> Nodes \cup {NULL}]
    /\ pending_del_leaves \in [Slots -> Leaves \cup {NULL}]
    /\ remove_count \in Nat
    /\ mutex \in Writers \cup {NULL}
    /\ wpc \in [Writers -> {"idle", "lock", "unlock"} \cup InsertPC \cup RemovePC]
    /\ wop \in [Writers -> {"none", "insert", "remove"}]
    /\ wkey \in [Writers -> Key]
    /\ wval \in [Writers -> Values \cup {NULL}]
    /\ wk \in [Writers -> Leaves \cup {NULL}]
    /\ wm \in [Writers -> Nodes \cup {NULL}]
    /\ wsh \in [Writers -> Digits]
    /\ wn \in [Writers -> Ptr]
    /\ wpar \in [Writers -> Nodes \cup {NULL}]
    /\ wgp \in [Writers -> Nodes \cup {NULL}]
    /\ wdel \in [Writers -> Slots]
    /\ wret \in [Writers -> Results]
    /\ inserts \in Nat
    /\ removes \in Nat
    /\ st \in [Obj -> States]
    /\ stamp \in [Obj -> Nat]

\* The blocks of S and those one link below.
Grown(S) == S \cup ({child[n][i] : n \in S \cap Nodes, i \in Nibs} \ {NULL})

\* The blocks within d links of the root; LEVELS links reach every one.
Reachable ==
    LET within[d \in 0 .. LEVELS] ==
          IF d = 0 THEN {root} \ {NULL} ELSE Grown(within[d-1])
    IN  within[LEVELS]

\* What a sequential lookup of key finds.
Find(key) ==
    LET at[d \in 0 .. LEVELS] ==
          IF d = 0 THEN root
          ELSE LET n == at[d-1]
               IN  IF n \in Nodes THEN child[n][slice_index(key, shift[n])]
                                  ELSE n
        l == at[LEVELS]
    IN  IF l \in Leaves /\ lkey[l] = key THEN lval[l] ELSE NULL

\* The shape every lookup relies on: below slot i of a node, all keys agree
\* with the node's path above its nibble and have i as that nibble, shifts
\* decrease, and outside the remove that is about to collapse it a node has
\* at least two children (the code's ASSERTne(ochild, -1)).
TreeShape ==
    \A n \in Reachable \cap Nodes :
        /\ Cardinality(Occupied(n)) >=
              IF \E w \in Writers : wpc[w] = "fix" /\ wpar[w] = n
              THEN 1 ELSE 2
        /\ path[n] = path_mask(path[n], shift[n])
        /\ \A i \in Occupied(n) :
              LET c == child[n][i]
              IN  /\ path_mask(PathOf(c), shift[n]) = path[n]
                  /\ slice_index(PathOf(c), shift[n]) = i
                  /\ c \in Nodes => shift[c] < shift[n]
=============================================================================
