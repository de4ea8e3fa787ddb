---------------------------- MODULE CritbitInv -----------------------------
(***************************************************************************)
(* The inductive invariant of critbit, as a conjunction of named parts.    *)
(* Which inner nodes are in the tree is not written down anywhere: an      *)
(* unlinked one looks like any other.  The invariant says that there is a  *)
(* set of nodes that is the tree, and for each get one of nodes it may     *)
(* still meet; about both it speaks of single links only.                  *)
(***************************************************************************)
EXTENDS Critbit, Lists

Ptr == Nodes \cup {NULL}

TypeOK ==
    /\ mem \in [root : Ptr, deleted_node : Ptr,
                child : [Nodes -> [0 .. 1 -> Ptr \cup Values]],
                path : [Nodes -> Key], bit : [Nodes -> {NoBit} \cup Digits]]
    /\ mutex \in Writers \cup {NULL}
    /\ wr \in [Writers ->
          [pc : {"idle", "alloc", "lock", "insert", "remove", "free", "return"},
           op : {"none", "insert", "remove"}, key : Key,
           value : Values \cup {NULL}, k : Blocks \cup {NULL},
           ret : Values \cup {NULL, "0", "ENOMEM", "none"}]]
    /\ rd \in [Readers ->
          [pc : {"idle", "root", "walk", "ret"}, key : Key, n : Ptr,
           res : Ptr \cup Values, valid : SUBSET (Values \cup {NULL})]]
    /\ inserts \in Nat /\ removes \in Nat
    /\ up \in BOOLEAN
    /\ st \in [Blocks -> {"raw", "held", "live", "gone"}]

-----------------------------------------------------------------------------
(* The tree.                                                               *)

\* The position a node branches at; a leaf is below all of them.
Pos(n) == IF IsLeaf(n) THEN WIDTH ELSE mem.bit[n]

\* The key agrees with inner node n.
OnPath(key, n) == \A p \in Digits : p < mem.bit[n] => key[p] = mem.path[n][p]

\* Node x belongs into the subtree of n.
Under(x, n) == n \in InnerNodes /\ mem.bit[n] < Pos(x) /\ OnPath(mem.path[x], n)

\* A walk for x that has come to p gets to x.
Leads(p, x) == p = x \/ Under(x, p)

\* The nodes of T are the live leaves and the inner nodes above them.
Members(T) ==
    /\ mem.root \in T \cup {NULL}
    /\ \A b \in Blocks : Leaf(b) \in T <=> st[b] = "live"
    /\ \A b \in Blocks : Inner(b) \in T => ~IsLeaf(Inner(b))

\* Below an inner node are two nodes that belong there.
Edges(T) ==
    \A n \in T : ~IsLeaf(n) =>
       /\ \A p \in Digits : p >= mem.bit[n] => mem.path[n][p] = 0
       /\ \A d \in 0 .. 1 :
             /\ mem.child[n][d] \in T
             /\ Under(mem.child[n][d], n)
             /\ mem.path[mem.child[n][d]][mem.bit[n]] = d

\* A walk finds every node.
Cover(T) ==
    \A x \in T : /\ Leads(mem.root, x)
                 /\ \A n \in T : Under(x, n) =>
                       Leads(mem.child[n][mem.path[x][mem.bit[n]]], x)

\* A position, and so a key, is taken once.
Once(T) == \A x, y \in T : mem.path[x] = mem.path[y] /\ Pos(x) = Pos(y) => x = y

Tree(T) == Members(T) /\ Edges(T) /\ Cover(T) /\ Once(T)

-----------------------------------------------------------------------------
(* The blocks and the writers.                                             *)

\* An insert that has not linked its leaf yet.
Inserting(w) == wr[w].op = "insert" /\ wr[w].pc \in {"alloc", "lock", "insert"}
Holding(w)   == wr[w].op = "insert" /\ wr[w].pc \in {"lock", "insert"}
Freeing(w)   == wr[w].pc = "free"

InvBlocks ==
    \A b \in Blocks :
       /\ IsLeaf(Leaf(b))
       /\ st[b] \in {"raw", "held"} => IsLeaf(Inner(b))
       /\ st[b] = "held" => \E w \in Writers : Holding(w) /\ wr[w].k = b
       /\ st[b] = "live" => mem.child[Leaf(b)][0] \in Values

CallOK(w) ==
    /\ wr[w].pc = "idle" => wr[w] = NoCall
    /\ wr[w].pc \in {"insert", "alloc"} => wr[w].op = "insert"
    /\ wr[w].pc \in {"remove", "free"} => wr[w].op = "remove"
    /\ wr[w].pc # "idle" =>
          /\ wr[w].key \in Keys
          /\ \/ wr[w].op = "insert" /\ wr[w].value \in Values
             \/ wr[w].op = "remove" /\ wr[w].value = NULL
    /\ wr[w].ret = "none" <=> wr[w].pc \notin {"free", "return"}
    /\ wr[w].pc \in {"insert", "remove", "free"} => mutex = w
    /\ Holding(w) => /\ wr[w].k \in Blocks
                     /\ st[wr[w].k] = "held"
                     /\ mem.path[Leaf(wr[w].k)] = wr[w].key
                     /\ mem.child[Leaf(wr[w].k)][0] = wr[w].value
    /\ Freeing(w) => wr[w].k \in Blocks /\ st[wr[w].k] = "gone"

InvCall == \A w \in Writers : CallOK(w)

\* What the callers keep to: the key of an insert under way is its own.
InvNew ==
    \A w \in Writers : Inserting(w) =>
       /\ \A b \in Blocks : st[b] = "live" => mem.path[Leaf(b)] # wr[w].key
       /\ \A v \in Writers \ {w} : Inserting(v) => wr[v].key # wr[w].key

-----------------------------------------------------------------------------
(* The list of deleted leaves.                                             *)

\* The removed leaves that are in the list.
Freed == {n \in Nodes : \E b \in Blocks :
             /\ n = Leaf(b)
             /\ st[b] = "gone"
             /\ \A w \in Writers : ~(Freeing(w) /\ wr[w].k = b)}

Links == [n \in Nodes |-> mem.child[n][0]]

InvList == ListOf(Freed, Links, mem.deleted_node, NULL)

-----------------------------------------------------------------------------
(* The readers.                                                            *)

\* F has the nodes a get that walks may still meet: with T those of the tree,
\* and others that have been in it since the call.  A value it may find under
\* its key has been the key's.  As long as the key has been there, the walk
\* is on the way to its leaf, also over unlinked nodes.
Sight(r, F, T) ==
    LET key == rd[r].key
    IN  /\ rd[r].n \in F
        /\ T \subseteq F
        /\ \A b \in Blocks : /\ Leaf(b) \in F => st[b] \in {"live", "gone"}
                             /\ Inner(b) \in F => ~IsLeaf(Inner(b))
        /\ \A n \in F : ~IsLeaf(n) => \A d \in 0 .. 1 : mem.child[n][d] \in F
        /\ \A n \in F :
              IsLeaf(n) /\ mem.path[n] = key /\ mem.child[n][0] \in Values =>
                 mem.child[n][0] \in rd[r].valid
        /\ NULL \notin rd[r].valid =>
              \A l \in T : IsLeaf(l) /\ mem.path[l] = key =>
                 /\ Leads(rd[r].n, l)
                 /\ \A n \in F : Under(l, n) => Leads(mem.child[n][key[mem.bit[n]]], l)

InvGet ==
    \A r \in Readers :
       /\ rd[r].pc = "idle" => rd[r] = NoGet
       /\ rd[r].pc # "idle" => /\ rd[r].key \in Keys
                               /\ Current(mem, st, rd[r].key) \subseteq rd[r].valid
       /\ rd[r].pc = "root" => rd[r].res = NULL
       /\ rd[r].pc = "ret" /\ rd[r].res \notin rd[r].valid =>
             NULL \in rd[r].valid /\ rd[r].res \in Nodes

Views(T) == \A r \in Readers : rd[r].pc = "walk" =>
               \E F \in SUBSET Nodes : Sight(r, F, T)

\* The parts that hold while the structure is up.
UpInv == /\ InvBlocks /\ InvCall /\ InvNew /\ InvList /\ InvGet
         /\ \E T \in SUBSET Nodes : Tree(T) /\ Views(T)

CInv == /\ TypeOK
        /\ up => UpInv
        /\ ~up => Quiet /\ InvCall /\ InvGet /\ \A b \in Blocks : st[b] = "raw"
=============================================================================
