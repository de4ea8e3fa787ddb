------------------------------ MODULE Tcradix ------------------------------
(***************************************************************************)
(* tcradix.c: a radix tree with tail compression.  A node above the last   *)
(* level whose subtree has a single key holds that key and its value in    *)
(* only_key and only_val; below it there may be a copy, which readers do   *)
(* not look at.  At the last level the slots hold the values.              *)
(*                                                                         *)
(* write_status is odd while a writer is at work.  A get notes it, walks,  *)
(* and starts over if it has changed, but only when the walk went all the  *)
(* way down: the returns inside GETL do not look at it.                    *)
(*                                                                         *)
(* Under the mutex, the stores of a call are a function of the memory it   *)
(* finds.  The operators insert, insert_child and nremove are that         *)
(* function, with the recursion of the code: they append to a trail the    *)
(* memory after every store a reader can see, and the writer then takes    *)
(* the trail step by step, the readers' loads in between.  Keys are those  *)
(* of Nibbles, so sl(key, lev) is key[lev].                                *)
(***************************************************************************)
EXTENDS Nibbles, FiniteSets, Sequences

Ext == INSTANCE SequencesExt

CONSTANTS
    Writers, Readers,  \* threads
    Root,              \* the node in struct tcrhead
    Blocks,            \* what Zalloc can hand out as struct tcrnode
    NULL,
    Keys, Values,      \* what the callers use
    Budgets,           \* how many Zallocs of an insert may succeed
    MaxInserts,        \* bound: calls of tcradix_insert in a behaviour
    MaxRemoves         \* bound: calls of tcradix_remove in a behaviour

Nodes     == Blocks \cup {Root}
TOP       == LEVELS - 1
NoKey     == [p \in Digits |-> 0]     \* 0: no only_key, but also a key
TOP_EMPTY == [p \in Digits |-> NIB]

ASSUME TcradixAssumption ==
    /\ LEVELS \in Nat \ {0, 1}
    /\ NIB \in Nat \ {0}
    /\ Keys \subseteq Key
    /\ Budgets \subseteq Nat
    /\ MaxInserts \in Nat
    /\ MaxRemoves \in Nat
    /\ Root \notin Blocks
    /\ NULL \notin Nodes \cup Values \cup Writers
    /\ Values \cap Nodes = {}

VARIABLES
    mem,               \* struct tcrnode, by node; deleted_node; and, as raw,
                       \* the blocks that malloc has
    write_status, mutex,
    wr,                \* writers: program counter, call; what the call still
                       \* has to store and its result; auxiliary: the value
                       \* of the key when it took the lock
    rd,                \* readers: program counter, key, wrs1, node, level,
                       \* result; valid, auxiliary: the values the key has had
                       \* since the call
    inserts, removes

vars == <<mem, write_status, mutex, wr, rd, inserts, removes>>

NoCall == [pc |-> "idle", op |-> "none", key |-> NoKey, value |-> NULL,
           trail |-> <<>>, ret |-> NULL, before |-> NULL]
NoGet  == [pc |-> "idle", key |-> NoKey, wrs1 |-> 0, n |-> NULL, lev |-> 0,
           res |-> NULL, valid |-> {}]

\* tcradix_new.
Init ==
    /\ mem = [nodes |-> [x \in Nodes |-> [i \in Nibs |-> NULL]],
              only_key |-> [x \in Nodes |-> IF x = Root THEN TOP_EMPTY ELSE NoKey],
              only_val |-> [x \in Nodes |-> NULL],
              nchildren |-> [x \in Nodes |-> 0],
              deleted_node |-> NULL,
              raw |-> Blocks]
    /\ write_status = 0
    /\ mutex = NULL
    /\ wr = [w \in Writers |-> NoCall]
    /\ rd = [r \in Readers |-> NoGet]
    /\ inserts = 0
    /\ removes = 0

sl(key, lev) == slice_index(key, lev)

\* What a get of key that nobody disturbs returns.
Find(h, key) ==
    LET at[l \in Digits] ==       \* the node the walk meets at level l
          IF l = TOP THEN Root
          ELSE IF at[l+1] = NULL \/ h.only_key[at[l+1]] # NoKey THEN NULL
          ELSE h.nodes[at[l+1]][sl(key, l+1)]
        only == {l \in Digits \ {0} : at[l] # NULL /\ key # NoKey
                                      /\ h.only_key[at[l]] = key}
    IN  IF only # {} THEN h.only_val[at[CHOOSE l \in only : TRUE]]
        ELSE IF at[0] = NULL THEN NULL ELSE h.nodes[at[0]][sl(key, 0)]

TopIsEmpty(h) == h.only_key[Root] = TOP_EMPTY /\ h.nchildren[Root] = 0

-----------------------------------------------------------------------------
(* A call's progress s: memory, trail, result, Zallocs left, and whether   *)
(* nremove returned 1.                                                     *)

Start(h, left, ret) == [h |-> h, trail |-> <<>>, left |-> left, ret |-> ret,
                        empty |-> FALSE]
Do(s, h) == [s EXCEPT !.h = h, !.trail = Append(@, h)]

\* The blocks teardown frees, in order: those below the slot of only_key, or
\* below every slot when there is none, and n.
RECURSIVE teardown(_, _, _)
teardown(h, n, lev) ==
    LET Below(i) == IF h.nodes[n][i] # NULL /\ (h.only_key[n] # NoKey =>
                                                  i = sl(h.only_key[n], lev))
                    THEN teardown(h, h.nodes[n][i], lev - 1) ELSE <<>>
    IN  IF lev = 0 THEN <<n>>
        ELSE Ext!FlattenSeq([i \in 1 .. NIB+1 |-> Below(i-1)]) \o <<n>>

\* A block of the pool, or a cleared one from Zalloc; NULL when it fails.
alloc_node(s) ==
    IF s.h.deleted_node # NULL THEN s.h.deleted_node
    ELSE IF s.left = 0 \/ s.h.raw = {} THEN NULL
    ELSE CHOOSE b \in s.h.raw : TRUE

Taken(s, m) ==
    IF s.h.deleted_node # NULL
    THEN Do(s, [s.h EXCEPT !.deleted_node = s.h.nodes[m][0], !.nodes[m][0] = NULL])
    ELSE [Do(s, [s.h EXCEPT !.raw = @ \ {m},
                            !.nodes[m] = [i \in Nibs |-> NULL],
                            !.only_key[m] = NoKey,
                            !.only_val[m] = NULL])
            EXCEPT !.left = @ - 1]

RECURSIVE insert(_, _, _, _, _)

\* The child gets key and value: as only_key and only_val, in its slot at the
\* last level, and for key 0, which cannot be an only_key, with its whole
\* path.  Then it is linked.
insert_child(s, n, lev, key, value) ==
    LET i  == sl(key, lev)
        m  == alloc_node(s)
        s1 == Taken(s, m)
        s2 == Do(s1, [s1.h EXCEPT !.only_key[m] = key])
        s3 == Do(s2, [s2.h EXCEPT !.only_val[m] = value,
                                  !.nchildren[m] = IF lev = 1 THEN 1 ELSE 0])
        s4 == IF lev = 1 THEN Do(s3, [s3.h EXCEPT !.nodes[m][sl(key, 0)] = value])
              ELSE IF key = NoKey THEN insert(s3, m, lev - 1, key, value)
              ELSE s3
    IN  IF s.h.nodes[n][i] # NULL
        THEN insert(s, s.h.nodes[n][i], lev - 1, key, value)
        ELSE IF m = NULL THEN [s EXCEPT !.ret = "ENOMEM"]
        ELSE IF s4.ret # "0"
             THEN Do(s4, [s4.h EXCEPT !.raw = @ \cup Ext!ToSet(teardown(s4.h, m, lev - 1))])
        ELSE Do(s4, [s4.h EXCEPT !.nodes[n][i] = m, !.nchildren[n] = @ + 1])

\* Mutant: only_key is cleared before the key it holds has a subtree.
MaterializeLate(s, n, lev) ==
    insert_child(Do(s, [s.h EXCEPT !.only_key[n] = NoKey]), n, lev,
                 s.h.only_key[n], s.h.only_val[n])

\* The key that was the only one is given a subtree, then only_key is cleared.
Materialize(s, n, lev) ==
    LET copy == insert_child(s, n, lev, s.h.only_key[n], s.h.only_val[n])
    IN  IF copy.ret # "0" THEN copy ELSE Do(copy, [copy.h EXCEPT !.only_key[n] = NoKey])

insert(s, n, lev, key, value) ==
    LET slot == s.h.nodes[n][sl(key, 0)]
        only == s.h.only_key[n]
        s1   == IF only = NoKey THEN s
                ELSE IF only = key THEN Do(s, [s.h EXCEPT !.only_val[n] = value])
                ELSE Materialize(s, n, lev)
    IN  IF lev = 0
        THEN Do(s, [s.h EXCEPT !.nodes[n][sl(key, 0)] = value,
                               !.nchildren[n] = IF slot = NULL THEN @ + 1 ELSE @])
        ELSE IF s1.ret # "0" THEN s1
        ELSE insert_child(s1, n, lev, key, value)

\* The first key goes to the root: only_val, then only_key.
tcradix_insert(key, value, left) ==
    LET s0 == Start(mem, left, "0")
        s1 == Do(s0, [mem EXCEPT !.only_val[Root] = value])
        s2 == Do(s1, [s1.h EXCEPT !.only_key[Root] = key])
    IN  insert(IF TopIsEmpty(mem) THEN s2 ELSE s0, Root, TOP, key, value)

Empty(h, n) == h.nchildren[n] = 0 /\ h.only_key[n] = NoKey

\* Mutant: the value is not cleared for the next user.
ClearNot(h, m) == h

\* m->only_val = 0
Clear(h, m) == [h EXCEPT !.only_val[m] = NULL]

\* Mutant: the pool is replaced by m.
PoolOnly(h, m) == [h EXCEPT !.deleted_node = m]

PoolPut(h, m) == [h EXCEPT !.nodes[m][0] = h.deleted_node, !.deleted_node = m]

\* The child m of n has become empty: unlink it, clear it for the next user,
\* put it into the pool.
Drop(s, n, i, m) ==
    LET s1 == Do(s, [s.h EXCEPT !.nodes[n][i] = NULL])
        s2 == Do(s1, Clear(s1.h, m))
        s3 == Do(s2, [PoolPut(s2.h, m) EXCEPT !.nchildren[n] = @ - 1])
    IN  [s3 EXCEPT !.empty = Empty(s3.h, n)]

\* Mutant: only_key stays.
TakeOnlyKeep(s, n) == [s EXCEPT !.ret = s.h.only_val[n]]

TakeOnly(s, n) == [Do(s, [s.h EXCEPT !.only_key[n] = NoKey])
                     EXCEPT !.ret = s.h.only_val[n]]

\* The walk goes on below the node whose only_key it was.
RECURSIVE nremove(_, _, _, _)
nremove(s, n, lev, key) ==
    LET s1 == IF s.h.only_key[n] = key /\ key # NoKey THEN TakeOnly(s, n) ELSE s
        i  == sl(key, lev)
        m  == s1.h.nodes[n][i]
        s2 == Do(s1, [s1.h EXCEPT !.nodes[n][i] = NULL, !.nchildren[n] = @ - 1])
        s3 == nremove(s1, m, lev - 1, key)
    IN  IF m = NULL THEN [s1 EXCEPT !.empty = lev > 0 /\ Empty(s1.h, n)]
        ELSE IF lev = 0 THEN [s2 EXCEPT !.ret = m, !.empty = Empty(s2.h, n)]
        ELSE IF s3.empty THEN Drop(s3, n, i, m)
        ELSE s3

-----------------------------------------------------------------------------
(* tcradix_insert and tcradix_remove.                                      *)

Call(w, op, key, value) ==
    /\ wr[w].pc = "idle"
    /\ wr' = [wr EXCEPT ![w] = [NoCall EXCEPT !.pc = "lock", !.op = op,
                                              !.key = key, !.value = value]]
    /\ UNCHANGED <<mem, write_status, mutex>>

CallInsert(w) == /\ inserts < MaxInserts
                 /\ \E key \in Keys, value \in Values : Call(w, "insert", key, value)
                 /\ inserts' = inserts + 1
                 /\ UNCHANGED removes

\* A value of 0 is indistinguishable from "not existent": nothing to do.
CallInsertNull(w) == /\ inserts < MaxInserts
                     /\ wr[w].pc = "idle"
                     /\ inserts' = inserts + 1
                     /\ UNCHANGED <<mem, write_status, mutex, wr, removes>>

CallRemove(w) == /\ removes < MaxRemoves
                 /\ \E key \in Keys : Call(w, "remove", key, NULL)
                 /\ removes' = removes + 1
                 /\ UNCHANGED inserts

Lock(w) ==
    /\ wr[w].pc = "lock"
    /\ mutex = NULL
    /\ mutex' = w
    /\ wr' = [wr EXCEPT ![w].pc = "poke", ![w].before = Find(mem, wr[w].key)]
    /\ UNCHANGED <<mem, write_status, inserts, removes>>

write_poke == write_status' = write_status + 1

\* The first write_poke; from here on the stores are determined.
Poke(w) ==
    /\ wr[w].pc = "poke"
    /\ write_poke
    /\ \E left \in Budgets :
          LET s == IF wr[w].op = "insert"
                   THEN tcradix_insert(wr[w].key, wr[w].value, left)
                   ELSE nremove(Start(mem, 0, NULL), Root, TOP, wr[w].key)
          IN  wr' = [wr EXCEPT ![w].pc = "store", ![w].trail = s.trail,
                               ![w].ret = s.ret]
    /\ UNCHANGED <<mem, mutex, inserts, removes>>

Store(w) ==
    /\ wr[w].pc = "store"
    /\ wr[w].trail # <<>>
    /\ mem' = Head(wr[w].trail)
    /\ wr' = [wr EXCEPT ![w].trail = Tail(@)]
    /\ UNCHANGED <<write_status, mutex, inserts, removes>>

PokeAgain(w) ==
    /\ wr[w].pc = "store"
    /\ wr[w].trail = <<>>
    /\ write_poke
    /\ wr' = [wr EXCEPT ![w].pc = "unlock"]
    /\ UNCHANGED <<mem, mutex, inserts, removes>>

Unlock(w) ==
    /\ wr[w].pc = "unlock"
    /\ mutex' = NULL
    /\ wr' = [wr EXCEPT ![w] = NoCall]
    /\ UNCHANGED <<mem, write_status, inserts, removes>>

WriterNext(w) == \/ CallInsert(w) \/ CallInsertNull(w) \/ CallRemove(w)
                 \/ Lock(w) \/ Poke(w) \/ Store(w) \/ PokeAgain(w) \/ Unlock(w)

-----------------------------------------------------------------------------
(* tcradix_get and get_slow, which is the same loop.                       *)

\* The entry of key; TOP_EMPTY has none in a new tree.
Entry(h, key) == IF key = TOP_EMPTY /\ TopIsEmpty(h) THEN NULL ELSE Find(h, key)

GetCall(r) ==
    /\ rd[r].pc = "idle"
    /\ \E key \in Keys :
          rd' = [rd EXCEPT ![r] = [NoGet EXCEPT !.pc = "status", !.key = key,
                                                !.valid = {Entry(mem, key)}]]

\* Only an even status is good enough to start with.
GetStatus(r) ==
    /\ rd[r].pc = "status"
    /\ write_status % 2 = 0
    /\ rd' = [rd EXCEPT ![r].wrs1 = write_status, ![r].n = Root,
                        ![r].lev = TOP, ![r].pc = "key"]

Return(r, l, v) == rd' = [rd EXCEPT ![r].pc = l, ![r].res = v]

\* A stale walk can take a value, or a block malloc has, for a node.
Lost(r) == rd[r].n \notin Nodes \/ rd[r].n \in mem.raw

GetLost(r) ==
    /\ rd[r].pc \in {"key", "val", "child"}
    /\ Lost(r)
    /\ Return(r, "lost", NULL)

\* The read of n->only_key; not at level 0.
GetKey(r) ==
    /\ rd[r].pc = "key"
    /\ ~Lost(r)
    /\ LET nk == IF rd[r].lev = 0 THEN NoKey ELSE mem.only_key[rd[r].n]
       IN  \/ nk = NoKey /\ rd' = [rd EXCEPT ![r].pc = "child"]
           \/ nk # NoKey /\ nk = rd[r].key /\ rd' = [rd EXCEPT ![r].pc = "val"]
           \/ nk \notin {NoKey, rd[r].key} /\ Return(r, "ret", NULL)

\* return n->only_val
GetVal(r) ==
    /\ rd[r].pc = "val"
    /\ ~Lost(r)
    /\ Return(r, "ret", mem.only_val[rd[r].n])

\* n = n->nodes[sl(key, l)]; the last one is the value.
GetChild(r) ==
    /\ rd[r].pc = "child"
    /\ ~Lost(r)
    /\ LET n == mem.nodes[rd[r].n][sl(rd[r].key, rd[r].lev)]
       IN  \/ n = NULL /\ Return(r, "ret", NULL)
           \/ /\ n # NULL /\ rd[r].lev > 0
              /\ rd' = [rd EXCEPT ![r].n = n, ![r].lev = @ - 1, ![r].pc = "key"]
           \/ n # NULL /\ rd[r].lev = 0 /\ Return(r, "check", n)

\* Mutant: the status is not compared.
UnchangedAny(r) == TRUE

\* wrs1 == wrs2
Unchanged(r) == rd[r].wrs1 = write_status

GetRetry(r) ==
    /\ rd[r].pc = "check"
    /\ ~Unchanged(r)
    /\ rd' = [rd EXCEPT ![r] = [NoGet EXCEPT !.pc = "status", !.key = rd[r].key,
                                             !.valid = rd[r].valid]]

GetDone(r) ==
    /\ rd[r].pc = "check"
    /\ Unchanged(r)
    /\ rd' = [rd EXCEPT ![r].pc = "checked"]

GetReturn(r) ==
    /\ rd[r].pc \in {"ret", "checked", "lost"}
    /\ rd' = [rd EXCEPT ![r] = NoGet]

GetNext(r) ==
    /\ \/ GetCall(r) \/ GetStatus(r) \/ GetLost(r) \/ GetKey(r) \/ GetVal(r)
       \/ GetChild(r) \/ GetRetry(r) \/ GetDone(r) \/ GetReturn(r)
    /\ UNCHANGED <<mem, write_status, mutex, wr, inserts, removes>>

\* The entry of a key changes in the calls for that key only.
Seen == rd' = [r \in Readers |->
                 IF mutex # NULL /\ rd[r].pc # "idle" /\ rd[r].key = wr[mutex].key
                 THEN [rd[r] EXCEPT !.valid = @ \cup {Entry(mem', rd[r].key)}] ELSE rd[r]]

-----------------------------------------------------------------------------
(* tcradix_delete, which the callers use when nobody is inside.            *)

Quiet == /\ \A w \in Writers : wr[w].pc = "idle"
         /\ \A r \in Readers : rd[r].pc = "idle"

RECURSIVE Pool(_)
Pool(m) == IF m = NULL THEN <<>> ELSE <<m>> \o Pool(mem.nodes[m][0])

\* The blocks tcradix_delete frees, in order: the pool, then the tree.
tcradix_delete == Pool(mem.deleted_node) \o teardown(mem, Root, TOP)

Delete ==
    /\ Quiet
    /\ mem' = [mem EXCEPT !.raw = @ \cup Ext!ToSet(tcradix_delete)]
    /\ wr' = [w \in Writers |-> [NoCall EXCEPT !.pc = "deleted"]]
    /\ rd' = [r \in Readers |-> [NoGet EXCEPT !.pc = "deleted"]]
    /\ UNCHANGED <<write_status, mutex, inserts, removes>>

-----------------------------------------------------------------------------
Next == \/ (\E w \in Writers : WriterNext(w)) /\ Seen
        \/ \E r \in Readers : GetNext(r)
        \/ Delete

Spec == Init /\ [][Next]_vars

-----------------------------------------------------------------------------
(* Properties.                                                             *)

\* A get of a key that is in the tree throughout the call returns a value it
\* had, and never leaves the structure, whatever is inserted and removed
\* around it; and a get that finds nothing was right at some moment.  The
\* returns inside GETL need no look at write_status for this.
GetStable ==
    \A r \in Readers :
        /\ rd[r].pc = "ret" /\ (rd[r].res = NULL \/ NULL \notin rd[r].valid) =>
              rd[r].res \in rd[r].valid
        /\ rd[r].pc = "lost" => NULL \in rd[r].valid

\* A value from the last level, the only one write_status is looked at for,
\* was the key's at some moment of the call.
CheckedCurrent ==
    \A r \in Readers : rd[r].pc = "checked" => rd[r].res \in rd[r].valid

\* A writer changes the entry of its own key only: giving the compressed key
\* a subtree, clearing only_key and failing half way never move another.  The
\* exception is TOP_EMPTY, the mark of a new tree and yet a key: while the
\* first key is stored, its value passes for that of TOP_EMPTY.
OwnKeyOnly ==
    [][\A key \in Keys : Find(mem', key) # Find(mem, key) =>
          mutex # NULL /\ (wr[mutex].key = key \/ (key = TOP_EMPTY /\ TopIsEmpty(mem)))]_mem

\* What the calls report is what has happened: an insert that returns 0 left
\* its value, one that fails its value or the old one, a remove returns what
\* was there and leaves nothing.
Reports ==
    \A w \in Writers : wr[w].pc = "unlock" =>
       LET now == Find(mem, wr[w].key)
       IN  IF wr[w].op = "remove" THEN now = NULL /\ wr[w].ret = wr[w].before
           ELSE IF wr[w].ret = "0" THEN now = wr[w].value
           ELSE now \in {wr[w].before, wr[w].value}

\* A block of the pool has nothing in it but the link (alloc_node's check
\* "reclaimed node not clean"): insert_child relies on it.
PoolClean ==
    \A m \in Ext!ToSet(Pool(mem.deleted_node)) :
        /\ Empty(mem, m)
        /\ mem.only_val[m] = NULL
        /\ \A i \in Nibs \ {0} : mem.nodes[m][i] = NULL

\* Whenever nobody is inside, tcradix_delete frees the root and every block
\* that was allocated, each exactly once, although teardown looks at one slot
\* only of a node with an only_key.
DeleteFreesOnce ==
    /\ Quiet => /\ Ext!ToSet(tcradix_delete) = Nodes \ mem.raw
                /\ Len(tcradix_delete) = Cardinality(Nodes \ mem.raw)
=============================================================================
