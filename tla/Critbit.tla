------------------------------ MODULE Critbit ------------------------------
(***************************************************************************)
(* critbit.c.  A block from Zalloc holds two nodes: block b's first node   *)
(* is the leaf of the insert that allocated it, its second the inner node  *)
(* that insert may put above.  A removed leaf goes to a list that only     *)
(* critbit_delete empties, so a block is never reused ("1 ||" in           *)
(* alloc_node), and a reader may stand on unlinked nodes as long as it     *)
(* likes.                                                                  *)
(*                                                                         *)
(* A key is a function from bit positions to bits; the lowest bit in which *)
(* two keys differ is the critical one.  bit = NoBit marks a leaf.  A step *)
(* is one store a reader can see, one load of a reader, or a lock          *)
(* operation; what a writer reads under the mutex belongs to its store.    *)
(***************************************************************************)
EXTENDS Integers, FiniteSets, Sequences

CONSTANTS
    Writers, Readers,  \* threads
    Blocks,            \* what Zalloc can hand out
    NULL,
    WIDTH,             \* bits of a key (64 in the code)
    Keys, Values,      \* what the callers use
    MaxInserts,        \* bound: calls of critbit_insert in a life
    MaxRemoves         \* bound: calls of critbit_remove in a life

Digits == 0 .. WIDTH-1
Key    == [Digits -> {0, 1}]
NoBit  == -1
Zero   == [p \in Digits |-> 0]

Leaf(b)  == <<b, 0>>       \* k
Inner(b) == <<b, 1>>       \* k+1
Nodes    == Blocks \X {0, 1}
Top      == <<NULL, 0>>    \* &c->root; other places are <<node, direction>>

ASSUME CritbitAssumption ==
    /\ WIDTH \in Nat \ {0}
    /\ Keys \subseteq Key
    /\ MaxInserts \in Nat
    /\ MaxRemoves \in Nat
    /\ IsFiniteSet(Blocks)
    /\ NULL \notin Nodes \cup Values \cup Writers \cup Blocks
    /\ Values \cap Nodes = {}
    /\ "none" \notin Values \cup {NULL}

VARIABLES
    mem,               \* struct critbit and, by node, struct critbit_node
    mutex,
    wr,                \* writers: program counter, call, block k, result
    rd,                \* readers: program counter, key, node, result; valid,
                       \* auxiliary: the values the key has had since the call
    inserts, removes,
    up,                \* between critbit_new and critbit_delete
    st                 \* auxiliary, per block: "raw" (malloc has it), "held"
                       \* (an insert has it), "live" (in the tree), "gone"

vars == <<mem, mutex, wr, rd, inserts, removes, up, st>>

Cleared == [root |-> NULL, deleted_node |-> NULL,
            child |-> [n \in Nodes |-> [d \in 0 .. 1 |-> NULL]],
            path |-> [n \in Nodes |-> Zero], bit |-> [n \in Nodes |-> NoBit]]
NoCall  == [pc |-> "idle", op |-> "none", key |-> Zero, value |-> NULL,
            k |-> NULL, ret |-> "none"]
NoGet   == [pc |-> "idle", key |-> Zero, n |-> NULL, res |-> NULL, valid |-> {}]

Init ==
    /\ mem = Cleared
    /\ mutex = NULL
    /\ wr = [w \in Writers |-> NoCall]
    /\ rd = [r \in Readers |-> NoGet]
    /\ inserts = 0
    /\ removes = 0
    /\ up = TRUE
    /\ st = [b \in Blocks |-> "raw"]

-----------------------------------------------------------------------------
(* Helpers.  child[n][0] is the value of a leaf and the link of a removed  *)
(* leaf.                                                                   *)

IsLeaf(n)   == mem.bit[n] = NoBit
InnerNodes  == {n \in Nodes : ~IsLeaf(n)}
Dir(n, key) == key[mem.bit[n]]       \* !!(n->bit & key)

At(place)     == IF place = Top THEN mem.root ELSE mem.child[place[1]][place[2]]
Put(place, v) == IF place = Top THEN [mem EXCEPT !.root = v]
                 ELSE [mem EXCEPT !.child[place[1]][place[2]] = v]

\* The places a walk for key goes through as long as it is on the
\* nodes On; the last one repeats.
Walk(key, On) ==
    LET at[d \in 0 .. WIDTH] ==
          IF d = 0 THEN Top
          ELSE LET last == at[d-1]
                   n == At(last)
               IN  IF n \in On THEN <<n, Dir(n, key)>> ELSE last
    IN  at

\* key & (bit-1)
Below(key, b) == [p \in Digits |-> IF p < b THEN key[p] ELSE 0]

\* The lowest bit in which the two differ: at = x & -x of x = path ^ key.
LowestDiff(a, key) == CHOOSE p \in Digits : a[p] # key[p]
                                 /\ \A q \in Digits : q < p => a[q] = key[q]

Goto(w, l)   == wr' = [wr EXCEPT ![w].pc = l]
Return(w, v) == wr' = [wr EXCEPT ![w].pc = "return", ![w].ret = v]

\* The values key has in memory m with the blocks in state s.
Current(m, s, key) ==
    LET here == {m.child[Leaf(b)][0] : b \in {x \in Blocks :
                     s[x] = "live" /\ m.path[Leaf(x)] = key}}
    IN  IF here = {} THEN {NULL} ELSE here

-----------------------------------------------------------------------------
(* critbit_insert.                                                         *)

Call(w, op, key, value, first) ==
    /\ wr[w].pc = "idle"
    /\ wr' = [wr EXCEPT ![w] = [NoCall EXCEPT !.pc = first, !.op = op,
                                              !.key = key, !.value = value]]
    /\ UNCHANGED <<mem, mutex, st>>

CallInsert(w) ==
    /\ inserts < MaxInserts
    /\ \E key \in Keys, value \in Values : Call(w, "insert", key, value, "alloc")
    /\ inserts' = inserts + 1
    /\ UNCHANGED removes

\* The block is allocated and the leaf made before the lock is taken.
InsertAlloc(w) ==
    /\ wr[w].pc = "alloc"
    /\ \E b \in Blocks : st[b] = "raw"
    /\ LET b == CHOOSE x \in Blocks : st[x] = "raw"
       IN  /\ st' = [st EXCEPT ![b] = "held"]
           /\ wr' = [wr EXCEPT ![w].k = b, ![w].pc = "lock"]
           /\ mem' = [mem EXCEPT !.path[Leaf(b)] = wr[w].key,
                                 !.child[Leaf(b)][0] = wr[w].value]
    /\ UNCHANGED <<mutex, inserts, removes>>

\* Zalloc may fail at any time; no lock is held.
InsertNoMemory(w) ==
    /\ wr[w].pc = "alloc"
    /\ Return(w, "ENOMEM")
    /\ UNCHANGED <<mem, mutex, inserts, removes, st>>

\* Mutant: the sibling is read from the place that m already has.
SiblingLate(n, m) == m

\* m->child[!dir]
Sibling(n, m) == n

\* The walk goes on as long as the key agrees with the inner nodes; the leaf
\* becomes the root, or the inner node m is filled and takes the place of n.
\* It is new, so nobody looks at it before.  When the key exists, at is 0:
\* the bit is NoBit, the path the whole key, and m taken for a leaf from now
\* on.
InsertPublish(w) ==
    /\ wr[w].pc = "insert"
    /\ LET key    == wr[w].key
           k      == Leaf(wr[w].k)
           m      == Inner(wr[w].k)
           agree  == {i \in InnerNodes : Below(key, mem.bit[i]) = mem.path[i]}
           parent == Walk(key, agree)[WIDTH]
           n      == At(parent)
           same   == mem.path[n] = key
           at     == IF same THEN NoBit ELSE LowestDiff(mem.path[n], key)
           dir    == IF same THEN 0 ELSE key[at]
       IN  mem' = IF n = NULL THEN Put(parent, k)
                  ELSE [Put(parent, m) EXCEPT
                          !.child[m] = [d \in 0 .. 1 |->
                                          IF d = dir THEN k ELSE Sibling(n, m)],
                          !.bit[m] = at,
                          !.path[m] = IF same THEN key ELSE Below(key, at)]
    /\ st' = [st EXCEPT ![wr[w].k] = "live"]
    /\ Return(w, "0")
    /\ UNCHANGED <<mutex, inserts, removes>>

-----------------------------------------------------------------------------
(* critbit_remove.                                                         *)

CallRemove(w) ==
    /\ removes < MaxRemoves
    /\ \E key \in Keys : Call(w, "remove", key, NULL, "lock")
    /\ removes' = removes + 1
    /\ UNCHANGED inserts

k_parent(key) == Walk(key, InnerNodes)[WIDTH]
Present(key)  == At(k_parent(key)) # NULL /\ mem.path[At(k_parent(key))] = key

RemoveAbsent(w) ==
    /\ wr[w].pc = "remove"
    /\ ~Present(wr[w].key)
    /\ Return(w, NULL)
    /\ UNCHANGED <<mem, mutex, inserts, removes, st>>

\* The place of the node that holds the place p.
n_parent(key, p) == LET walk == Walk(key, InnerNodes)
                    IN  walk[CHOOSE d \in 0 .. WIDTH : At(walk[d]) = p[1]]

\* Mutant: the leaf's own subtree is kept, its sibling lost.
UnlinkedKept(key) ==
    LET p == k_parent(key)
    IN  IF p = Top THEN Put(Top, NULL)
        ELSE Put(n_parent(key, p), At(p))

\* The root leaf is dropped; any other leaf's sibling takes the parent's
\* place.
Unlinked(key) ==
    LET p == k_parent(key)
    IN  IF p = Top THEN Put(Top, NULL)
        ELSE Put(n_parent(key, p), At(<<p[1], 1 - p[2]>>))

RemoveUnlink(w) ==
    /\ wr[w].pc = "remove"
    /\ Present(wr[w].key)
    /\ LET k == At(k_parent(wr[w].key))
       IN  /\ mem' = Unlinked(wr[w].key)
           /\ st' = [st EXCEPT ![k[1]] = "gone"]
           /\ wr' = [wr EXCEPT ![w].pc = "free", ![w].k = k[1],
                               ![w].ret = mem.child[k][0]]
    /\ UNCHANGED <<mutex, inserts, removes>>

\* Mutant: the list is lost.
free_node_only(n) == [mem EXCEPT !.child[n][0] = NULL, !.deleted_node = n]

\* The leaf joins the list of deleted blocks; its value becomes the link.
free_node(n) == [mem EXCEPT !.child[n][0] = mem.deleted_node, !.deleted_node = n]

RemoveFree(w) ==
    /\ wr[w].pc = "free"
    /\ mem' = free_node(Leaf(wr[w].k))
    /\ Goto(w, "return")
    /\ UNCHANGED <<mutex, inserts, removes, st>>

-----------------------------------------------------------------------------
\* pthread_mutex_lock.
Lock(w) ==
    /\ wr[w].pc = "lock"
    /\ mutex = NULL
    /\ mutex' = w
    /\ Goto(w, wr[w].op)
    /\ UNCHANGED <<mem, inserts, removes, st>>

\* return UNLOCK, ...; an insert that got no memory has not locked.
WriterReturn(w) ==
    /\ wr[w].pc = "return"
    /\ mutex' = IF mutex = w THEN NULL ELSE mutex
    /\ wr' = [wr EXCEPT ![w] = NoCall]
    /\ UNCHANGED <<mem, inserts, removes, st>>

WriterNext(w) ==
    \/ CallInsert(w) \/ InsertAlloc(w) \/ InsertNoMemory(w) \/ InsertPublish(w)
    \/ CallRemove(w) \/ RemoveAbsent(w) \/ RemoveUnlink(w) \/ RemoveFree(w)
    \/ Lock(w) \/ WriterReturn(w)

-----------------------------------------------------------------------------
(* critbit_get: no lock, no check afterwards.                              *)

GetCall(r) ==
    /\ rd[r].pc = "idle"
    /\ \E key \in Keys :
          rd' = [rd EXCEPT ![r] = [NoGet EXCEPT !.pc = "root", !.key = key,
                                                !.valid = Current(mem, st, key)]]

GetRoot(r) ==
    /\ rd[r].pc = "root"
    /\ rd' = [rd EXCEPT ![r].n = mem.root,
                        ![r].pc = IF mem.root = NULL THEN "ret" ELSE "walk"]

GetChild(r) ==
    /\ rd[r].pc = "walk"
    /\ ~IsLeaf(rd[r].n)
    /\ rd' = [rd EXCEPT ![r].n = mem.child[@][Dir(@, rd[r].key)]]

\* Mutant: the leaf's path is not compared.
ValueAny(n, key) == mem.child[n][0]

\* (n->path == key) ? n->child[0] : 0; a leaf's path never changes.
Value(n, key) == IF mem.path[n] = key THEN mem.child[n][0] ELSE NULL

GetValue(r) ==
    /\ rd[r].pc = "walk"
    /\ IsLeaf(rd[r].n)
    /\ rd' = [rd EXCEPT ![r].res = Value(rd[r].n, rd[r].key), ![r].pc = "ret"]

GetReturn(r) == rd[r].pc = "ret" /\ rd' = [rd EXCEPT ![r] = NoGet]

GetNext(r) == /\ \/ GetCall(r) \/ GetRoot(r) \/ GetChild(r)
                 \/ GetValue(r) \/ GetReturn(r)
              /\ UNCHANGED <<mem, mutex, wr, inserts, removes, st>>

Seen == rd' = [r \in Readers |->
                 IF rd[r].pc = "idle" THEN NoGet
                 ELSE [rd[r] EXCEPT !.valid = @ \cup Current(mem', st', rd[r].key)]]

-----------------------------------------------------------------------------
(* critbit_delete and critbit_new, when no thread is inside.               *)

Quiet == /\ \A w \in Writers : wr[w].pc = "idle"
         /\ \A r \in Readers : rd[r].pc = "idle"

Descents == UNION {[1 .. d -> 0 .. 1] : d \in 0 .. WIDTH}

\* Where the recursion of delete_node gets to on a descent.
EndOf(descent) ==
    LET at[d \in 0 .. Len(descent)] ==
          IF d = 0 THEN mem.root
          ELSE IF at[d-1] # NULL /\ ~IsLeaf(at[d-1])
               THEN mem.child[at[d-1]][descent[d]] ELSE NULL
    IN  at[Len(descent)]

\* How often it gets to the leaf n.
delete_node(n) ==
    IF IsLeaf(n) THEN Cardinality({d \in Descents : EndOf(d) = n}) ELSE 0

\* How often n is in the list of deleted leaves.
Listed(n) ==
    LET Ends == 0 .. Cardinality(Blocks)
        at[d \in Ends] ==
          IF d = 0 THEN mem.deleted_node
          ELSE IF at[d-1] = NULL THEN NULL ELSE mem.child[at[d-1]][0]
    IN  Cardinality({d \in Ends : at[d] = n})

\* How often critbit_delete passes n to Free.
Frees(n) == delete_node(n) + Listed(n)

critbit_delete ==
    /\ up
    /\ Quiet
    /\ up' = FALSE
    /\ st' = [b \in Blocks |-> IF Frees(Leaf(b)) > 0 THEN "raw" ELSE st[b]]
    /\ UNCHANGED <<mem, mutex, wr, rd, inserts, removes>>

\* Zalloc clears what it hands out.
critbit_new ==
    /\ ~up
    /\ up' = TRUE
    /\ mem' = Cleared
    /\ inserts' = 0
    /\ removes' = 0
    /\ UNCHANGED <<mutex, wr, rd, st>>

WriterStep(w) == up /\ WriterNext(w) /\ Seen /\ UNCHANGED up
GetStep(r)    == up /\ GetNext(r) /\ UNCHANGED up

Next == \/ \E w \in Writers : WriterStep(w)
        \/ \E r \in Readers : GetStep(r)
        \/ critbit_delete
        \/ critbit_new

Spec == Init /\ [][Next]_vars

\* What critbit asks of its callers (hmload.c keeps the tests that do not from
\* it): nobody inserts a key that is present or on its way in.
UniqueKeys ==
    \A w \in Writers : wr[w].op = "none" /\ wr'[w].op = "insert" =>
        /\ \A b \in Blocks : st[b] \in {"held", "live"} =>
                mem.path[Leaf(b)] # wr'[w].key
        /\ \A v \in Writers \ {w} : wr[v].op = "insert" => wr[v].key # wr'[w].key

UniqueSpec == Init /\ [][Next /\ UniqueKeys]_vars

\* The scheduler runs every thread that is inside a call.
Fairness == /\ \A w \in Writers : WF_vars(WriterStep(w) /\ wr[w].pc # "idle")
            /\ \A r \in Readers : WF_vars(GetStep(r) /\ rd[r].pc # "idle")

-----------------------------------------------------------------------------
(* Properties.                                                             *)

\* What readers may rely on although nothing is checked after the walk: a key
\* that is in the tree throughout the call is found, with its value, however
\* many nodes above it are unlinked meanwhile (the CHECKs of th.c's threads);
\* and a get that returns something else, a list link free_node wrote over
\* the value, had its key removed during the call.
GetStable ==
    \A r \in Readers : rd[r].pc = "ret" /\ rd[r].res \notin rd[r].valid =>
        NULL \in rd[r].valid /\ rd[r].res \in Nodes

\* A get ends, although the nodes it stands on may be unlinked at any time and
\* nothing bounds its walk; no lock is needed for that.
GetEnds == \A r \in Readers : (rd[r].pc = "root") ~> (rd[r].pc = "idle")

\* What a sequential lookup of key finds.
Find(key) == LET n == At(k_parent(key))
             IN  IF n = NULL THEN NULL ELSE Value(n, key)

Map == INSTANCE ConcurrentMap WITH
    Readers <- {},
    map     <- [k \in Keys |-> IF up THEN Find(k) ELSE NULL],
    wcall   <- [w \in Writers |-> IF wr[w].pc = "idle" THEN NULL ELSE
                  [op |-> wr[w].op, key |-> wr[w].key, value |-> wr[w].value]],
    wres    <- [w \in Writers |-> wr[w].ret],
    rcall   <- <<>>,
    rres    <- <<>>,
    current <- <<>>

\* The mark "no call" of the dictionary is not a call.
ASSUME MarkAssumption == NULL \notin Map!Calls

\* Each life of the tree is a behaviour of the dictionary, as long as nobody
\* inserts a key that is present: every insert and remove takes effect at
\* the store that links or unlinks the leaf.  The dictionary is a function of
\* mem, wr and up, so that steps of readers need not be looked at.
WritersImplementMap ==
    Map!Init /\ [][up /\ up' => UNCHANGED Map!vars \/ Map!Next]_<<mem, wr, up>>

\* Whenever critbit_delete may be called, it frees every block that was
\* allocated exactly once, by the address malloc returned, although only
\* leaves are freed and inner nodes live on in the blocks of others.
DeleteFreesOnce ==
    up /\ Quiet => \A b \in Blocks :
        /\ Frees(Leaf(b)) = IF st[b] = "raw" THEN 0 ELSE 1
        /\ Frees(Inner(b)) = 0
=============================================================================
