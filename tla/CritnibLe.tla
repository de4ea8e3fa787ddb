----------------------------- MODULE CritnibLe -----------------------------
(***************************************************************************)
(* critnib_find_le against concurrent inserts and removes.  The loop that  *)
(* loads remove_count before and after is the one of critnib_get, and its  *)
(* steps are CritnibGet's.  In between, find_le recurses along the path of *)
(* the key; on the way back it looks for the next subtree to the left.     *)
(*                                                                         *)
(* The reads of path and shift at the entry of find_le are one step: they  *)
(* do not change while a node is in the tree or in its grace period.       *)
(***************************************************************************)
EXTENDS CritnibGet, Sequences

SeqExt == INSTANCE SequencesExt

CONSTANT MaxDepth   \* bound: frames of find_le on a thread's stack
ASSUME DepthAssumption == MaxDepth \in Nat \ {0}

VARIABLES
    stack,   \* per reader: the frames of find_le that wait for a call
    touched  \* auxiliary: the set of live blocks has changed in this attempt

levars == <<vars, stack, touched>>

\* The value of the greatest key in the tree that is at most key.
Answer(key) ==
    LET below == {l \in Leaves : st[l] = "live" /\ AtMost(lkey[l], key)}
        top   == {l \in below : \A m \in below : AtMost(lkey[m], lkey[l])}
    IN  IF below = {} THEN {NULL} ELSE {lval[l] : l \in top}

-----------------------------------------------------------------------------
LeInit == /\ GetInit
          /\ stack = [r \in Readers |-> <<>>]
          /\ touched = [r \in Readers |-> FALSE]

Same == UNCHANGED <<stack, touched>>

LeCall(r) ==
    /\ rpc[r] = "idle"
    /\ \E key \in ReadKeys : /\ rkey' = [rkey EXCEPT ![r] = key]
                             /\ valid' = [valid EXCEPT ![r] = Answer(key)]
    /\ RGoto(r, "count")
    /\ UNCHANGED <<wvars, rwrs1, rn, rnib, rres, fresh>> /\ Same

LeCount(r) == /\ GetCount(r)
              /\ touched' = [touched EXCEPT ![r] = FALSE]
              /\ UNCHANGED stack

LeRoot(r) == GetRoot(r) /\ Same

\* The entry of find_le(n, key), by what n is.
LeNull(r) ==
    /\ rpc[r] = "walk"
    /\ rn[r] = NULL
    /\ RGoto(r, "back")
    /\ UNCHANGED <<wvars, locs, fresh, valid>> /\ Same

\* Mutant: the leaf's key is not compared.
LeLeafAny(r) ==
    /\ rpc[r] = "walk"
    /\ is_leaf(rn[r])
    /\ RGoto(r, "value")
    /\ UNCHANGED <<wvars, locs, fresh, valid>> /\ Same

LeLeaf(r) ==
    /\ rpc[r] = "walk"
    /\ is_leaf(rn[r])
    /\ RGoto(r, IF AtMost(lkey[rn[r]], rkey[r]) THEN "value" ELSE "back")
    /\ UNCHANGED <<wvars, locs, fresh, valid>> /\ Same

\* The key is not in the subtree of n.
Outside(n, key) == Strays(key, path[n], shift[n])

LeOutside(r) ==
    /\ rpc[r] = "walk"
    /\ rn[r] \in Nodes
    /\ Outside(rn[r], rkey[r])
    /\ IF Less(path[rn[r]], rkey[r])
       THEN RGoto(r, "scan") /\ rnib' = [rnib EXCEPT ![r] = NIB]
       ELSE RGoto(r, "back") /\ UNCHANGED rnib
    /\ UNCHANGED <<wvars, rkey, rwrs1, rn, rres, fresh, valid>> /\ Same

LeInside(r) ==
    /\ rpc[r] = "walk"
    /\ rn[r] \in Nodes
    /\ ~Outside(rn[r], rkey[r])
    /\ Len(stack[r]) < MaxDepth
    /\ LET nib == slice_index(rkey[r], shift[rn[r]])
       IN  /\ rnib' = [rnib EXCEPT ![r] = nib]
           /\ stack' = [stack EXCEPT ![r] = Append(@, [n |-> rn[r], nib |-> nib])]
    /\ RGoto(r, "child")
    /\ UNCHANGED <<wvars, rkey, rwrs1, rn, rres, fresh, valid, touched>>

\* load(&n->child[nib], &m); find_le(m, key)
LeChild(r) == GetChild(r) /\ Same

\* Mutant: the slot the recursion came back from is looked at again.
NextLeftSame(frame) == frame.nib

\* for (nib--; ...
NextLeft(frame) == frame.nib - 1

\* NULL is returned: to critnib_find_le, or to a frame, which then goes left.
LeBack(r) ==
    /\ rpc[r] = "back"
    /\ IF stack[r] = <<>>
       THEN /\ rres' = [rres EXCEPT ![r] = NULL]
            /\ RGoto(r, "check")
            /\ UNCHANGED <<rn, rnib, stack>>
       ELSE /\ rn' = [rn EXCEPT ![r] = SeqExt!Last(stack[r]).n]
            /\ rnib' = [rnib EXCEPT ![r] = NextLeft(SeqExt!Last(stack[r]))]
            /\ stack' = [stack EXCEPT ![r] = SeqExt!Front(@)]
            /\ RGoto(r, "scan")
            /\ UNCHANGED rres
    /\ UNCHANGED <<wvars, rkey, rwrs1, fresh, valid, touched>>

\* One iteration of the loop that looks at the slots of n from rnib down: the
\* one of find_le, which stays in n, or the one of find_successor, which
\* enters the rightmost subtree until it meets a leaf.  The source names the
\* slot twice, for the test and for the use; without an atomic load in between
\* gcc -O3 makes one load of the two, which is the one below.
LeScan(r) ==
    /\ rpc[r] = "scan"
    /\ rnib[r] >= 0
    /\ LET m == child[rn[r]][rnib[r]]
       IN  \/ /\ m = NULL
              /\ rnib' = [rnib EXCEPT ![r] = @ - 1]
              /\ UNCHANGED <<rpc, rn>>
           \/ /\ is_leaf(m)
              /\ rn' = [rn EXCEPT ![r] = m]
              /\ RGoto(r, "value")
              /\ UNCHANGED rnib
           \/ /\ m \in Nodes
              /\ rn' = [rn EXCEPT ![r] = m]
              /\ rnib' = [rnib EXCEPT ![r] = NIB]
              /\ UNCHANGED rpc
    /\ UNCHANGED <<wvars, rkey, rwrs1, rres, fresh, valid>> /\ Same

LeScanned(r) ==
    /\ rpc[r] = "scan"
    /\ rnib[r] < 0
    /\ RGoto(r, "back")
    /\ UNCHANGED <<wvars, locs, fresh, valid>> /\ Same

\* A value goes up through all frames; NULL makes the caller go left.
LeValue(r) ==
    /\ rpc[r] = "value"
    /\ IF lval[rn[r]] # NULL
       THEN /\ rres' = [rres EXCEPT ![r] = lval[rn[r]]]
            /\ stack' = [stack EXCEPT ![r] = <<>>]
            /\ RGoto(r, "check")
       ELSE RGoto(r, "back") /\ UNCHANGED <<rres, stack>>
    /\ UNCHANGED <<wvars, rkey, rwrs1, rn, rnib, fresh, valid, touched>>

LeRestart(r) == GetRestart(r) /\ Same
LeDone(r) == GetDone(r) /\ Same
LeReturn(r) == GetReturn(r) /\ touched' = [touched EXCEPT ![r] = FALSE]
                            /\ UNCHANGED stack

LeRun(r) == \/ LeCount(r) \/ LeRoot(r) \/ LeNull(r) \/ LeLeaf(r)
            \/ LeOutside(r) \/ LeInside(r) \/ LeChild(r) \/ LeBack(r)
            \/ LeScan(r) \/ LeScanned(r) \/ LeValue(r)
            \/ LeRestart(r) \/ LeDone(r) \/ LeReturn(r)

-----------------------------------------------------------------------------
InAttempt(r) == rpc[r] \notin {"idle", "count"}

\* What a step of a writer leaves as it is in a reader, and what the auxiliary
\* variables note of it.
LeWatch ==
    /\ UNCHANGED <<rpc, locs, stack>>
    /\ fresh' = [r \in Readers |->
          IF InAttempt(r)
          THEN {x \in Obj : \/ st'[x] = "live"
                            \/ st'[x] = "gone" /\ x \in fresh[r]}
          ELSE fresh[r]]
    /\ touched' = [r \in Readers |-> touched[r] \/ (InAttempt(r) /\ Live' # Live)]

LeSeen ==
    /\ LeWatch
    /\ valid' = [r \in Readers |->
          IF rpc[r] = "idle" THEN valid[r]
          ELSE valid[r] \cup Answer(rkey[r])']

LeNext == \/ \E w \in Writers : WriterNext(w) /\ LeSeen
          \/ \E r \in Readers : LeCall(r) \/ LeRun(r)

LeSpec == LeInit /\ [][LeNext]_levars

-----------------------------------------------------------------------------
(* Properties.                                                             *)

\* Within the grace period every block find_le stands on or will come back to
\* has been in the tree during the attempt and has not been recycled; and the
\* recursion goes down the tree, one frame per level, whatever the writers
\* do to it meanwhile.
LeGraceSafe ==
    \A r \in Readers : InAttempt(r) /\ ~Expired(r) =>
        /\ rpc[r] \in {"walk", "child", "scan", "value"} /\ rn[r] # NULL =>
              rn[r] \in fresh[r]
        /\ \A i \in DOMAIN stack[r] : stack[r][i].n \in fresh[r]
        /\ Len(stack[r]) <= LEVELS

\* While no writer changes the tree, find_le returns the value of the
\* greatest key that is at most its argument.
LeExact ==
    \A r \in Readers :
        rpc[r] = "check" /\ ~touched[r] => rres[r] \in Answer(rkey[r])

\* Whatever happens meanwhile, a find_le that stops returns a value that a
\* key at most its argument had in the tree during the attempt.
LeSound ==
    \A r \in Readers :
        rpc[r] = "check" /\ ~Expired(r) /\ rres[r] # NULL =>
            \E l \in Leaves : /\ l \in fresh[r]
                              /\ AtMost(lkey[l], rkey[r])
                              /\ lval[l] = rres[r]

\* "the result of get() or find_le() is a value that was current at any point
\* between the call start and end": the answer find_le stops with was the
\* answer at some moment since the call.
LeCurrent ==
    \A r \in Readers :
        rpc[r] = "check" /\ ~Expired(r) => rres[r] \in valid[r]
=============================================================================
