----------------------------- MODULE CritnibGet -----------------------------
(***************************************************************************)
(* critnib_get against concurrent inserts and removes.  A get takes no     *)
(* lock: it loads remove_count, walks the tree, and loads remove_count     *)
(* again; when DELETED_LIFE removes were counted in between, the blocks it *)
(* walked through may have been reused and it starts over.                 *)
(***************************************************************************)
EXTENDS Critnib

CONSTANTS
    Readers,   \* threads that call critnib_get
    ReadKeys   \* keys they ask for

ASSUME ReadAssumption == ReadKeys \subseteq Keys

VARIABLES
    rpc, rkey,     \* program counter and argument
    rwrs1, rn, rnib, rres,   \* wrs1, n, slice_index(key, n->shift), res
    \* Auxiliary.  The blocks that have been in the tree since the attempt
    \* loaded remove_count and have not been recycled since; the values the
    \* key has had since the call.
    fresh, valid

locs  == <<rkey, rwrs1, rn, rnib, rres>>
rvars == <<rpc, locs, fresh, valid>>
vars  == <<wvars, rvars>>

Live == {x \in Obj : st[x] = "live"}

\* The values of key in the tree: those of the live leaves that carry it.
Current(key) ==
    LET here == {lval[l] : l \in {x \in Leaves : st[x] = "live"
                                                 /\ lkey[x] = key}}
    IN  IF here = {} THEN {NULL} ELSE here

-----------------------------------------------------------------------------
GetInit ==
    /\ Init
    /\ rpc = [r \in Readers |-> "idle"]
    /\ rkey = [r \in Readers |-> [p \in Digits |-> 0]]
    /\ rwrs1 = [r \in Readers |-> 0]
    /\ rn = [r \in Readers |-> NULL]
    /\ rnib = [r \in Readers |-> 0]
    /\ rres = [r \in Readers |-> NULL]
    /\ fresh = [r \in Readers |-> {}]
    /\ valid = [r \in Readers |-> {}]

RGoto(r, l) == rpc' = [rpc EXCEPT ![r] = l]

GetCall(r) ==
    /\ rpc[r] = "idle"
    /\ \E key \in ReadKeys : /\ rkey' = [rkey EXCEPT ![r] = key]
                             /\ valid' = [valid EXCEPT ![r] = Current(key)]
    /\ RGoto(r, "count")
    /\ UNCHANGED <<wvars, rwrs1, rn, rnib, rres, fresh>>

\* load(&c->remove_count, &wrs1)
GetCount(r) ==
    /\ rpc[r] = "count"
    /\ rwrs1' = [rwrs1 EXCEPT ![r] = remove_count]
    /\ fresh' = [fresh EXCEPT ![r] = Live]
    /\ RGoto(r, "root")
    /\ UNCHANGED <<wvars, rkey, rn, rnib, rres, valid>>

\* load(&c->root, &n)
GetRoot(r) ==
    /\ rpc[r] = "root"
    /\ rn' = [rn EXCEPT ![r] = root]
    /\ RGoto(r, "walk")
    /\ UNCHANGED <<wvars, rkey, rwrs1, rnib, rres, fresh, valid>>

\* The loop test, and the read of n->shift.
GetShift(r) ==
    /\ rpc[r] = "walk"
    /\ rn[r] \in Nodes
    /\ rnib' = [rnib EXCEPT ![r] = slice_index(rkey[r], shift[rn[r]])]
    /\ RGoto(r, "child")
    /\ UNCHANGED <<wvars, rkey, rwrs1, rn, rres, fresh, valid>>

\* load(&n->child[...], &n)
GetChild(r) ==
    /\ rpc[r] = "child"
    /\ rn' = [rn EXCEPT ![r] = child[rn[r]][rnib[r]]]
    /\ RGoto(r, "walk")
    /\ UNCHANGED <<wvars, rkey, rwrs1, rnib, rres, fresh, valid>>

\* The walk ends at NULL, or at a leaf that has another key, or the key.
GetMiss(r) ==
    /\ rpc[r] = "walk"
    /\ \/ rn[r] = NULL
       \/ is_leaf(rn[r]) /\ lkey[rn[r]] # rkey[r]
    /\ rres' = [rres EXCEPT ![r] = NULL]
    /\ RGoto(r, "check")
    /\ UNCHANGED <<wvars, rkey, rwrs1, rn, rnib, fresh, valid>>

GetMatch(r) ==
    /\ rpc[r] = "walk"
    /\ is_leaf(rn[r])
    /\ lkey[rn[r]] = rkey[r]
    /\ RGoto(r, "value")
    /\ UNCHANGED <<wvars, locs, fresh, valid>>

GetValue(r) ==
    /\ rpc[r] = "value"
    /\ rres' = [rres EXCEPT ![r] = lval[rn[r]]]
    /\ RGoto(r, "check")
    /\ UNCHANGED <<wvars, rkey, rwrs1, rn, rnib, fresh, valid>>

\* Mutant: the boundary of the grace period is off by one.
ExpiredLate(r) == rwrs1[r] + DELETED_LIFE < remove_count

\* load(&c->remove_count, &wrs2); while (wrs1 + DELETED_LIFE <= wrs2)
Expired(r) == rwrs1[r] + DELETED_LIFE <= remove_count

GetRestart(r) ==
    /\ rpc[r] = "check"
    /\ Expired(r)
    /\ RGoto(r, "count")
    /\ rwrs1' = [rwrs1 EXCEPT ![r] = 0]
    /\ rn' = [rn EXCEPT ![r] = NULL]
    /\ rnib' = [rnib EXCEPT ![r] = 0]
    /\ rres' = [rres EXCEPT ![r] = NULL]
    /\ fresh' = [fresh EXCEPT ![r] = {}]
    /\ UNCHANGED <<wvars, rkey, valid>>

GetDone(r) ==
    /\ rpc[r] = "check"
    /\ ~Expired(r)
    /\ RGoto(r, "ret")
    /\ UNCHANGED <<wvars, locs, fresh, valid>>

GetReturn(r) ==
    /\ rpc[r] = "ret"
    /\ RGoto(r, "idle")
    /\ rkey' = [rkey EXCEPT ![r] = [p \in Digits |-> 0]]
    /\ rwrs1' = [rwrs1 EXCEPT ![r] = 0]
    /\ rn' = [rn EXCEPT ![r] = NULL]
    /\ rnib' = [rnib EXCEPT ![r] = 0]
    /\ rres' = [rres EXCEPT ![r] = NULL]
    /\ fresh' = [fresh EXCEPT ![r] = {}]
    /\ valid' = [valid EXCEPT ![r] = {}]
    /\ UNCHANGED wvars

\* What a reader does of its own accord once it has been called.
GetRun(r) == \/ GetCount(r) \/ GetRoot(r) \/ GetShift(r) \/ GetChild(r)
             \/ GetMiss(r) \/ GetMatch(r) \/ GetValue(r)
             \/ GetRestart(r) \/ GetDone(r) \/ GetReturn(r)

-----------------------------------------------------------------------------
\* Every writer step brings the auxiliary variables of the readers up to date.
Reading  == {"root", "walk", "child", "value", "check", "ret"}
Observed ==
    /\ fresh' = [r \in Readers |->
          IF rpc[r] \in Reading
          THEN {x \in Obj : \/ st'[x] = "live"
                            \/ st'[x] = "gone" /\ x \in fresh[r]}
          ELSE fresh[r]]
    /\ valid' = [r \in Readers |->
          IF rpc[r] = "idle" THEN valid[r]
          ELSE valid[r] \cup Current(rkey[r])']

Seen == UNCHANGED <<rpc, locs>> /\ Observed

Next == \/ \E w \in Writers : WriterNext(w) /\ Seen
        \/ \E r \in Readers : GetCall(r) \/ GetRun(r)

Spec == GetInit /\ [][Next]_vars

\* The threads are scheduled: neither a writer past its call nor a reader
\* past its call is suspended for ever.  Nobody has to make a call.
FairSpec == /\ Spec
            /\ \A w \in Writers : WF_vars(Run(w) /\ Seen)
            /\ \A r \in Readers : WF_vars(GetRun(r))

-----------------------------------------------------------------------------
(* Properties.                                                             *)

GetTypeOK ==
    /\ TypeOK
    /\ rpc \in [Readers -> {"idle", "count"} \cup Reading]
    /\ rkey \in [Readers -> Key]
    /\ rwrs1 \in [Readers -> Nat]
    /\ rn \in [Readers -> Ptr]
    /\ rnib \in [Readers -> Nibs]
    /\ rres \in [Readers -> Values \cup Leaves \cup {NULL}]
    /\ fresh \in [Readers -> SUBSET Obj]
    /\ valid \in [Readers -> SUBSET (Values \cup Leaves \cup {NULL})]

Walking(r) == rpc[r] \in {"walk", "child", "value"}

\* The grace period works: as long as fewer than DELETED_LIFE removes have
\* been counted since a get loaded remove_count, every block the get stands
\* on has been in the tree during the attempt and has not been recycled
\* since (pending_del_*, "guaranteed correctness if they took no longer than
\* DELETED_LIFE concurrent deletes").
GraceSafe ==
    \A r \in Readers :
        Walking(r) /\ ~Expired(r) /\ rn[r] # NULL => rn[r] \in fresh[r]

\* A get that stops returns a value its key had at some moment since the
\* call: a torn, recycled or foreign leaf never gets past the second load of
\* remove_count.
GetCurrent ==
    \A r \in Readers :
        rpc[r] = "check" /\ ~Expired(r) => rres[r] \in valid[r]

\* Even a get that will have to start over only ever dereferences blocks of
\* the structure: "their pointers [do not] lead anywhere wrong, thus a stale
\* read ... won't crash".
StaleContained ==
    \A r \in Readers :
        Walking(r) /\ rn[r] # NULL => st[rn[r]] # "raw"

\* critnib implements the concurrent dictionary.  An insert takes effect at
\* the store that links its leaf, a remove at the store that unlinks it.
Map == INSTANCE ConcurrentMap WITH
    map     <- [k \in Keys |-> Find(k)],
    wcall   <- [w \in Writers |-> IF wpc[w] = "idle" THEN NULL ELSE
                  [op |-> wop[w], key |-> wkey[w], value |-> wval[w]]],
    wres    <- [w \in Writers |-> CASE wpc[w] = "unlock" -> wret[w]
                                    [] wpc[w] = "fix" -> lval[wn[w]]
                                    [] OTHER -> "none"],
    rcall   <- [r \in Readers |-> IF rpc[r] = "idle" THEN NULL ELSE rkey[r]],
    rres    <- [r \in Readers |-> IF rpc[r] = "ret" THEN rres[r] ELSE "none"],
    current <- valid

\* The marks "no call" and "no result yet" of the dictionary are neither calls,
\* keys nor results.
ASSUME MarkAssumption ==
    /\ NULL \notin Keys \cup Map!Calls
    /\ "none" \notin Values \cup Leaves \cup {NULL}

ImplementsMap == Map!Spec

\* A get whose grace period does not run out is never stuck in its walk.
GetReturnsInGrace ==
    \A r \in Readers : rpc[r] # "idle" ~> (rpc[r] = "idle" \/ Expired(r))

\* Reads are "only almost wait-free: if for some reason a read thread gets
\* pathologically stalled, it will notice the data being stale and restart
\* the work": once the writers are done, every get returns.
GetReturns == \A r \in Readers : rpc[r] # "idle" ~> rpc[r] = "idle"

\* Every path out of insert and remove releases the mutex, and the calls
\* that wait for it finish.
WritersFinish == \A w \in Writers : wpc[w] # "idle" ~> wpc[w] = "idle"

=============================================================================
