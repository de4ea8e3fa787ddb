---------------------------- MODULE CritnibLife ----------------------------
(***************************************************************************)
(* The life of a critnib: critnib_new, any number of inserts and removes   *)
(* by several threads, critnib_delete, and again.  critnib_delete takes no *)
(* lock: its callers (th.c joins its threads first) make sure that nobody  *)
(* uses the structure any more.                                            *)
(***************************************************************************)
EXTENDS Critnib, Sequences

\* Memory is finite, so that blocks can be counted.
ASSUME FiniteAssumption == IsFiniteSet(Nodes) /\ IsFiniteSet(Leaves)

VARIABLE up    \* between critnib_new and critnib_delete

lvars == <<wvars, up>>

Idle == \A w \in Writers : wpc[w] = "idle"

-----------------------------------------------------------------------------
\* The sequences of slots delete_node's recursion can go through.
Descents == UNION {[1 .. d -> Nibs] : d \in 0 .. LEVELS}

\* Where such a descent ends; NULL when the code would not have got there.
EndOf(descent) ==
    LET at[d \in 0 .. Len(descent)] ==
          IF d = 0 THEN root
          ELSE IF at[d-1] \in Nodes THEN child[at[d-1]][descent[d]] ELSE NULL
    IN  at[Len(descent)]

\* How often delete_node frees x: once per call, so once per descent to it.
delete_node(x) == Cardinality({d \in Descents : EndOf(d) = x})

\* How often the two loops over the pools free x.
DeletePools(x) ==
    LET node[d \in 0 .. Cardinality(Nodes)] ==
          IF d = 0 THEN deleted_node
          ELSE IF node[d-1] = NULL THEN NULL ELSE child[node[d-1]][0]
        leaf[d \in 0 .. Cardinality(Leaves)] ==
          IF d = 0 THEN deleted_leaf
          ELSE IF leaf[d-1] = NULL THEN NULL ELSE lval[leaf[d-1]]
    IN    Cardinality({d \in 0 .. Cardinality(Nodes) : node[d] = x})
        + Cardinality({d \in 0 .. Cardinality(Leaves) : leaf[d] = x})

\* Mutant: the pending nodes are forgotten.
DeletePendingLeaves(x) == Cardinality({i \in Slots : pending_del_leaves[i] = x})

\* How often the loop over the pending blocks frees x.
DeletePending(x) == Cardinality({i \in Slots : pending_del_nodes[i] = x})
                    + Cardinality({i \in Slots : pending_del_leaves[i] = x})

Frees(x) == delete_node(x) + DeletePools(x) + DeletePending(x)

\* What malloc hands out is not cleared.  One kind of junk stands for all:
\* links back to the block itself.
Junk == /\ child' = [n \in Nodes |-> [i \in Nibs |-> n]]
        /\ path' = [n \in Nodes |-> [p \in Digits |-> NIB]]
        /\ shift' = [n \in Nodes |-> 0]
        /\ lkey' = [l \in Leaves |-> [p \in Digits |-> NIB]]
        /\ lval' = [l \in Leaves |-> l]

critnib_delete ==
    /\ up
    /\ Idle
    /\ up' = FALSE
    /\ st' = [x \in Obj |-> IF Frees(x) > 0 THEN "raw" ELSE st[x]]
    /\ stamp' = [x \in Obj |-> IF Frees(x) > 0 THEN 0 ELSE stamp[x]]
    /\ Junk
    /\ UNCHANGED <<root, pools, pending, mutex, wpc, call, locals, wret>>

\* Zalloc clears the structure.
critnib_new ==
    /\ ~up
    /\ up' = TRUE
    /\ root' = NULL
    /\ deleted_node' = NULL
    /\ deleted_leaf' = NULL
    /\ pending_del_nodes' = [i \in Slots |-> NULL]
    /\ pending_del_leaves' = [i \in Slots |-> NULL]
    /\ remove_count' = 0
    /\ mutex' = NULL
    /\ inserts' = 0
    /\ removes' = 0
    /\ UNCHANGED <<heap, wpc, wop, wkey, wval, locals, wret, aux>>

LifeInit == Init /\ up = TRUE
LifeNext == \/ critnib_new
            \/ critnib_delete
            \/ up /\ (\E w \in Writers : WriterNext(w)) /\ UNCHANGED up
LifeSpec == LifeInit /\ [][LifeNext]_lvars

-----------------------------------------------------------------------------
(* Properties.                                                             *)

\* Whenever critnib_delete may be called, it passes each block to free at
\* most once, and no block malloc has already: tree, pools and pending slots
\* do not share, however the inserts and removes before it ended.
DeleteFreesOnce ==
    up /\ Idle => \A x \in Obj : Frees(x) <= IF st[x] = "raw" THEN 0 ELSE 1

\* After critnib_delete malloc has every block back: no insert that returned
\* EEXIST or ENOMEM, no collapsed node and no recycled block was lost.
NoLeak == ~up => \A x \in Obj : st[x] = "raw"

\* The tree has its shape in every life, whatever malloc's blocks contain.
LifeShape == up => TreeShape
=============================================================================
