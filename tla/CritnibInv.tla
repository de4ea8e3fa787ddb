----------------------------- MODULE CritnibInv -----------------------------
(***************************************************************************)
(* The inductive invariant behind GraceSafe, StaleContained and the hit    *)
(* half of GetCurrent, as a conjunction of named parts.  It only speaks of *)
(* single edges of the tree and single links of the pools, never of        *)
(* reachability, so that every part is preserved for a local reason.       *)
(* TLC checks it on small instances; CritnibProofs proves it.              *)
(***************************************************************************)
EXTENDS CritnibGet

Is(x, s) == x # NULL /\ st[x] = s
NullOr(x, s) == x = NULL \/ st[x] = s

\* The word the writer's parent pointer refers to.
Slot(p, key) == IF p = NULL THEN root ELSE child[p][slice_index(key, shift[p])]

Busy == InsertPC \cup RemovePC \cup {"unlock"}

\* A writer is past os_mutex_lock exactly when it owns the mutex.
InvLock == \A w \in Writers : wpc[w] \in Busy <=> mutex = w

\* No pointer leads to a block malloc has not handed out.
InvRaw ==
    /\ root # NULL => st[root] # "raw"
    /\ \A n \in Nodes, i \in Nibs :
          child[n][i] # NULL => st[child[n][i]] # "raw"

\* The tree is made of live blocks, and no block hangs in two places.
InvTree ==
    /\ NullOr(root, "live")
    /\ \A n \in Nodes : st[n] = "live" =>
          \A i \in Nibs : /\ NullOr(child[n][i], "live")
                          /\ child[n][i] # NULL => child[n][i] # root
    /\ \A m, n \in Nodes : st[m] = "live" /\ st[n] = "live" =>
          \A i, j \in Nibs :
             child[m][i] = child[n][j] /\ child[m][i] # NULL => m = n /\ i = j

\* The pools are lists of free blocks without sharing.
InvPoolNodes ==
    /\ NullOr(deleted_node, "pool")
    /\ \A n \in Nodes : st[n] = "pool" =>
          /\ NullOr(child[n][0], "pool")
          /\ child[n][0] # NULL => child[n][0] \in Nodes /\ child[n][0] # deleted_node
    /\ \A m, n \in Nodes :
          st[m] = "pool" /\ st[n] = "pool" /\ child[m][0] = child[n][0]
          /\ child[m][0] # NULL => m = n

InvPoolLeaves ==
    /\ NullOr(deleted_leaf, "pool")
    /\ \A l \in Leaves : st[l] = "pool" =>
          /\ lval[l] \in Leaves \cup {NULL}
          /\ NullOr(lval[l], "pool")
          /\ lval[l] # NULL => lval[l] # deleted_leaf
    /\ \A k, l \in Leaves :
          st[k] = "pool" /\ st[l] = "pool" /\ lval[k] = lval[l]
          /\ lval[k] # NULL => k = l

\* Block x waits in slot i for the remove that will recycle it.
Waiting(x, i) == /\ st[x] = "gone"
                 /\ stamp[x] % DELETED_LIFE = i
                 /\ stamp[x] < remove_count

InvPending ==
    \A i \in Slots :
       /\ \/ pending_del_nodes[i] = NULL
          \/ Waiting(pending_del_nodes[i], i)
          \/ \E w \in Writers : wpc[w] = "free_leaf" /\ wdel[w] = i
       /\ \/ pending_del_leaves[i] = NULL
          \/ Waiting(pending_del_leaves[i], i)

\* x, if any, was unlinked more than DELETED_LIFE counted removes ago.
GraceOver(x) == x # NULL => stamp[x] + DELETED_LIFE < remove_count

InvDel ==
    \A w \in Writers : wpc[w] \in {"free_node", "free_leaf", "find", "fix"} =>
       /\ remove_count > 0
       /\ wdel[w] = (remove_count - 1) % DELETED_LIFE
       /\ wpc[w] = "free_node" => GraceOver(pending_del_nodes[wdel[w]])
       /\ wpc[w] \in {"free_node", "free_leaf"} =>
             GraceOver(pending_del_leaves[wdel[w]])

\* What the lock holder knows of the blocks its locals point at.
InvInsert ==
    \A w \in Writers :
       /\ wpc[w] \in {"idle", "lock", "alloc_leaf", "set_key", "set_value"} =>
             wpar[w] = NULL
       /\ wpc[w] \in {"set_key", "set_value", "walk", "clear", "link", "head",
                      "publish"} => Is(wk[w], "held")
       /\ wpc[w] \in {"walk", "clear", "link", "head", "publish"} =>
             /\ NullOr(wpar[w], "live")
             /\ wn[w] = Slot(wpar[w], wkey[w])
       /\ wpc[w] \in {"clear", "link", "head", "publish"} =>
             Is(wm[w], "held") /\ wn[w] # NULL
       /\ wpc[w] = "link" => \A i \in Nibs : child[wm[w]][i] = NULL
       /\ wpc[w] \in {"head", "publish"} =>
             /\ \A i \in Nibs : child[wm[w]][i] \in {NULL, wk[w], wn[w]}
             /\ \A i, j \in Nibs :
                   child[wm[w]][i] = child[wm[w]][j] /\ child[wm[w]][i] # NULL
                   => i = j

InvRemove ==
    \A w \in Writers :
       /\ wpc[w] \in {"remove", "free_node", "free_leaf"} => wpar[w] = NULL
       /\ wpc[w] = "find" => /\ NullOr(wpar[w], "live")
                             /\ wn[w] = Slot(wpar[w], wkey[w])
       /\ wpc[w] \in {"find", "fix"} /\ wpar[w] # NULL =>
             /\ wpar[w] = Slot(wgp[w], wkey[w])
             /\ NullOr(wgp[w], "live")
       /\ wpc[w] = "fix" =>
             /\ Is(wpar[w], "live")
             /\ child[wpar[w]][slice_index(wkey[w], shift[wpar[w]])] = NULL
             /\ wn[w] \in Leaves
             /\ st[wn[w]] = "gone"
             /\ stamp[wn[w]] = remove_count - 1

\* The parts about a get, each for one thread.
\*
\* Which blocks an attempt may meet, and when they can be recycled at the
\* earliest.
FreshAt(r) ==
    rpc[r] \in Reading =>
       /\ rwrs1[r] <= remove_count
       /\ \A x \in Obj : st[x] = "live" => x \in fresh[r]
       /\ \A x \in fresh[r] : st[x] \in {"live", "gone"}
       /\ \A x \in fresh[r] : st[x] = "gone" => rwrs1[r] <= stamp[x] + 1

\* Within the grace period links lead from fresh blocks to fresh blocks only,
\* and the reader stands on one.
ClosedAt(r) ==
    rpc[r] \in Reading /\ ~Expired(r) =>
       /\ \A n \in Nodes : n \in fresh[r] =>
             \A i \in Nibs : child[n][i] = NULL \/ child[n][i] \in fresh[r]
       /\ Walking(r) => rn[r] = NULL \/ rn[r] \in fresh[r]

StepAt(r) == /\ rpc[r] = "child" => rn[r] \in Nodes /\ rnib[r] \in Nibs
             /\ rpc[r] = "value" => rn[r] \in Leaves

\* The leaves a get may meet carry values its key has had since the call.
ValueAt(r) ==
    /\ rpc[r] # "idle" =>
          \A l \in Leaves :
             st[l] = "live" /\ lkey[l] = rkey[r] => lval[l] \in valid[r]
    /\ rpc[r] \in Reading =>
          \A l \in Leaves :
             l \in fresh[r] /\ lkey[l] = rkey[r] => lval[l] \in valid[r]
    /\ rpc[r] = "value" /\ ~Expired(r) => lkey[rn[r]] = rkey[r]
    /\ rpc[r] = "check" /\ ~Expired(r) /\ rres[r] # NULL =>
          rres[r] \in valid[r]

InvFresh  == \A r \in Readers : FreshAt(r)
InvClosed == \A r \in Readers : ClosedAt(r)
InvStep   == \A r \in Readers : StepAt(r)
InvValue  == \A r \in Readers : ValueAt(r)

\* Nor does a get, however stale, stand on a block malloc has not handed out.
InvStand == \A r \in Readers : Walking(r) /\ rn[r] # NULL => st[rn[r]] # "raw"

\* What the parts about a get need to know of the types of its variables.
ReadersOK ==
    /\ rpc \in [Readers -> {"idle", "count", "root", "walk", "child", "scan",
                            "back", "value", "check", "ret"}]
    /\ rkey \in [Readers -> Key]
    /\ rwrs1 \in [Readers -> Nat]
    /\ rn \in [Readers -> Ptr]
    /\ rnib \in [Readers -> Int]
    /\ rres \in [Readers -> Values \cup Leaves \cup {NULL}]
    /\ fresh \in [Readers -> SUBSET Obj]
    /\ valid \in [Readers -> SUBSET (Values \cup Leaves \cup {NULL})]

\* The variables of a get stay as they are.
Rests(r) ==
    /\ rpc'[r] = rpc[r] /\ rkey'[r] = rkey[r] /\ rwrs1'[r] = rwrs1[r]
    /\ rn'[r] = rn[r] /\ rnib'[r] = rnib[r] /\ rres'[r] = rres[r]
    /\ fresh'[r] = fresh[r] /\ valid'[r] = valid[r]

\* What a get takes note of when a writer makes a step.
Notes(r) ==
    /\ rpc[r] \in Reading =>
          fresh'[r] = {x \in Obj : \/ st'[x] = "live"
                                   \/ st'[x] = "gone" /\ x \in fresh[r]}
    /\ valid'[r] = IF rpc[r] = "idle" THEN valid[r]
                   ELSE valid[r] \cup Current(rkey[r])'

IInv == /\ GetTypeOK /\ InvLock /\ InvRaw /\ InvTree
        /\ InvPoolNodes /\ InvPoolLeaves /\ InvPending /\ InvDel
        /\ InvInsert /\ InvRemove
        /\ InvFresh /\ InvClosed /\ InvStep /\ InvValue /\ InvStand
=============================================================================
