---------------------------- MODULE CritnibShape ----------------------------
(***************************************************************************)
(* The second layer of the inductive invariant: the shape of the tree, and *)
(* why a lookup that misses is right.  Like CritnibInv it speaks of single *)
(* edges only.  That the tree holds every key where a lookup finds it is   *)
(* InvCover: wherever a live block belongs below a live node, the slot it  *)
(* belongs in is the block itself or a node it belongs below.  A lookup    *)
(* goes from one such node to the next, so reachability never has to be    *)
(* mentioned.                                                              *)
(***************************************************************************)
EXTENDS CritnibInv

\* The parts of IInv that speak of the structure and the writers only, and
\* need not know what is in the blocks that malloc has.
WParts == /\ TypeOK /\ InvLock /\ InvTree /\ InvPoolNodes /\ InvPoolLeaves
          /\ InvPending /\ InvDel /\ InvInsert /\ InvRemove

\* The position of a block's branching nibble; a leaf is below all of them.
ShiftOf(x) == IF x \in Leaves THEN -1 ELSE shift[x]

\* Block x belongs into the subtree of node n.
Under(x, n) == /\ n \in Nodes
               /\ ShiftOf(x) < shift[n]
               /\ path_mask(PathOf(x), shift[n]) = path[n]

\* From p a lookup of x gets to x: p is x, or a node x belongs below.
Leads(p, x) == p = x \/ Under(x, p)

\* The slot of n that x belongs in.
SlotFor(n, x) == child[n][slice_index(PathOf(x), shift[n])]

\* Live nodes have a path without a rest, and below slot i are blocks that
\* belong below the node and into that slot.
InvEdge ==
    \A n \in Nodes : st[n] = "live" =>
       /\ path_mask(path[n], shift[n]) = path[n]
       /\ \A i \in Nibs : child[n][i] # NULL =>
             /\ Under(child[n][i], n)
             /\ slice_index(PathOf(child[n][i]), shift[n]) = i

\* A lookup finds every live block.
InvCover ==
    \A x \in Obj : st[x] = "live" =>
       /\ Leads(root, x)
       /\ \A n \in Nodes : st[n] = "live" /\ Under(x, n) => Leads(SlotFor(n, x), x)

\* A position in the trie, and so a key, is taken by one live block only.
InvUnique ==
    \A x, y \in Obj :
       /\ st[x] = "live" /\ st[y] = "live"
       /\ PathOf(x) = PathOf(y) /\ ShiftOf(x) = ShiftOf(y)
       => x = y

\* The node a remove has just taken a leaf from.
Fixing(n) == \E w \in Writers : wpc[w] = "fix" /\ wpar[w] = n

\* A node has two children, or one and a remove that will collapse it.
InvFork ==
    \A n \in Nodes : st[n] = "live" =>
       \E i \in Nibs :
          /\ child[n][i] # NULL
          /\ Fixing(n) \/ \E j \in Nibs : j # i /\ child[n][j] # NULL

\* What a caller may pass, and when.
InvCall ==
    \A w \in Writers :
       /\ wpc[w] \in InsertPC => wop[w] = "insert"
       /\ wpc[w] \in RemovePC => wop[w] = "remove"
       /\ wpc[w] # "idle" =>
             /\ wkey[w] \in Keys
             /\ wop[w] = "insert" => wval[w] \in Values
             /\ wop[w] = "remove" => wval[w] = NULL
             /\ wop[w] # "none"

\* The leaves of the tree carry values of callers.
InvLeaf == /\ \A l \in Leaves : st[l] = "live" => lval[l] \in Values
           /\ \A w \in Writers : wpc[w] = "fix" => lval[wn[w]] \in Values

\* What an insert knows of the place it has come to.
InvPlace ==
    \A w \in Writers :
       /\ wpc[w] \in {"set_value", "walk", "clear", "link", "head", "publish"} =>
             lkey[wk[w]] = wkey[w]
       /\ wpc[w] \in {"walk", "clear", "link", "head", "publish"} =>
             /\ lval[wk[w]] = wval[w]
             /\ wpar[w] # NULL => OnPath(wpar[w], wkey[w])
       /\ wpc[w] \in {"clear", "link", "head", "publish"} =>
             /\ ~OnPath(wn[w], wkey[w])
             /\ TopDiff(PathOf(wn[w]), wkey[w], wsh[w])
       /\ wpc[w] \in {"head", "publish"} =>
             \A i \in Nibs :
                child[wm[w]][i] =
                   IF i = slice_index(wkey[w], wsh[w]) THEN wk[w]
                   ELSE IF i = slice_index(PathOf(wn[w]), wsh[w]) THEN wn[w]
                   ELSE NULL
       /\ wpc[w] = "publish" =>
             /\ shift[wm[w]] = wsh[w]
             /\ path[wm[w]] = path_mask(wkey[w], wsh[w])

\* A remove is on the way to the leaf of its key, if there is one.
InvFind ==
    \A w \in Writers : wpc[w] = "find" =>
       \A l \in Leaves :
          st[l] = "live" /\ lkey[l] = wkey[w] => Leads(wn[w], l)

Shape == /\ InvEdge /\ InvCover /\ InvUnique /\ InvFork
         /\ InvCall /\ InvLeaf /\ InvPlace /\ InvFind

\* Why a miss is right.  Once no live leaf has the key, NULL is among the
\* values of the key; as long as one has had it since the call, the reader
\* is on the way to it, and the way goes over fresh blocks that still lead
\* there although some of them may have left the tree.
MissAt(r) ==
    /\ rpc[r] = "idle" => valid[r] = {}
    /\ rpc[r] # "idle" =>
          /\ rkey[r] \in ReadKeys
          /\ \/ NULL \in valid[r]
             \/ \E l \in Leaves : st[l] = "live" /\ lkey[l] = rkey[r]
    /\ rpc[r] \in Reading /\ ~Expired(r) /\ NULL \notin valid[r] =>
          \A l \in Leaves : st[l] = "live" /\ lkey[l] = rkey[r] =>
             /\ \A n \in Nodes : n \in fresh[r] /\ Under(l, n) =>
                   Leads(SlotFor(n, l), l)
             /\ Walking(r) => Leads(rn[r], l)
    /\ rpc[r] = "child" /\ ~Expired(r) =>
          rnib[r] = slice_index(rkey[r], shift[rn[r]])
    /\ rpc[r] = "check" /\ ~Expired(r) => rres[r] \in valid[r]
    /\ rpc[r] = "ret" => rres[r] \in valid[r]

InvMiss == \A r \in Readers : MissAt(r)

ShapeInv == IInv /\ Shape /\ InvMiss
=============================================================================
