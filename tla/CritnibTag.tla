---------------------------- MODULE CritnibTag -----------------------------
(***************************************************************************)
(* critnib-tag.c, the version of the critnib that critnib.c was made from. *)
(* Its structures, pools, insert, get, find_le and delete take the steps   *)
(* of critnib.c; the loads are plain ones, which the build does once and   *)
(* in this order.  critnib_tag_remove differs: its descent does not look   *)
(* for an empty slot, and dereferences NULL when it meets one.             *)
(*                                                                         *)
(* As in th.c, a thread's calls are for keys no other thread works on.     *)
(* Unlike th.c and 1corr.c, it may remove a key that it has not inserted.  *)
(***************************************************************************)
EXTENDS CritnibLe, CritnibLife

VARIABLES
    finding,   \* per reader: its call is find_le, not get
    \* Auxiliary: the keys whose insert has returned 0 and that have not been
    \* removed since; per writer, whether its remove was for such a key.
    owned, sure

tvars == <<levars, up, finding, owned, sure>>

TagInit == /\ LeInit
           /\ up = TRUE
           /\ finding = [r \in Readers |-> FALSE]
           /\ owned = {}
           /\ sure = [w \in Writers |-> FALSE]

-----------------------------------------------------------------------------
critnib_tag_insert(w) == Insert(w)

\* while (!is_leaf(kn)) reads kn->shift whatever kn is: the process dies.
RemoveNullDeref(w) ==
    /\ wpc[w] = "find"
    /\ wn[w] = NULL
    /\ Goto(w, "crash")
    /\ UNCHANGED <<root, heap, pools, pending, mutex, call, locals, wret, aux>>

\* Only a leaf with another key makes it return NULL.
RemoveOther(w) == wn[w] # NULL /\ RemoveAbsent(w)

critnib_tag_remove(w) ==
    \/ RemoveEmpty(w) \/ RemoveCount(w) \/ RemoveFreeNode(w)
    \/ RemoveFreeLeaf(w) \/ RemoveDescend(w)
    \/ RemoveNullDeref(w) \/ RemoveOther(w)
    \/ RemoveRoot(w) \/ RemoveUnlink(w) \/ RemoveKeep(w)
    \/ RemoveCollapse(w)

Alone(w, key) == \A x \in Writers \ {w} : wpc[x] = "idle" \/ wkey[x] # key

TagCall(w) == /\ CallInsert(w) \/ CallRemove(w)
              /\ Alone(w, wkey'[w])
              /\ sure' = [sure EXCEPT ![w] = wop'[w] = "remove" /\ wkey'[w] \in owned]
              /\ owned' = IF wop'[w] = "remove" THEN owned \ {wkey'[w]} ELSE owned

TagReturn(w) == /\ Unlock(w)
                /\ sure' = [sure EXCEPT ![w] = FALSE]
                /\ owned' = IF wop[w] = "insert" /\ wret[w] = "0"
                            THEN owned \cup {wkey[w]} ELSE owned

TagWriter(w) ==
    \/ TagCall(w) \/ TagReturn(w)
    \/ /\ Lock(w) \/ critnib_tag_insert(w) \/ critnib_tag_remove(w)
       /\ UNCHANGED <<owned, sure>>

-----------------------------------------------------------------------------
critnib_tag_get(r) ==
    \/ GetCall(r) /\ Same /\ finding' = [finding EXCEPT ![r] = FALSE]
    \/ ~finding[r] /\ GetRun(r) /\ Same /\ UNCHANGED finding

critnib_tag_find_le(r) ==
    \/ LeCall(r) /\ finding' = [finding EXCEPT ![r] = TRUE]
    \/ finding[r] /\ LeRun(r) /\ UNCHANGED finding

TagSeen ==
    /\ LeWatch
    /\ UNCHANGED finding
    /\ valid' = [r \in Readers |->
          IF rpc[r] = "idle" THEN valid[r]
          ELSE valid[r] \cup IF finding[r] THEN Answer(rkey[r])'
                             ELSE Current(rkey[r])']

\* Called when no thread uses the structure.
critnib_tag_delete == /\ critnib_delete
                      /\ \A r \in Readers : rpc[r] = "idle"
                      /\ UNCHANGED <<rvars, stack, touched, finding, owned, sure>>

critnib_tag_new == /\ critnib_new
                   /\ owned' = {}
                   /\ UNCHANGED <<rvars, stack, touched, finding, sure>>

Crashed == \E w \in Writers : wpc[w] = "crash"

TagNext ==
    /\ ~Crashed
    /\ \/ up /\ (\E w \in Writers : TagWriter(w)) /\ TagSeen /\ UNCHANGED up
       \/ up /\ (\E r \in Readers : critnib_tag_get(r)) /\ UNCHANGED <<up, owned, sure>>
       \/ up /\ (\E r \in Readers : critnib_tag_find_le(r)) /\ UNCHANGED <<up, owned, sure>>
       \/ critnib_tag_delete
       \/ critnib_tag_new

TagSpec == TagInit /\ [][TagNext]_tvars

-----------------------------------------------------------------------------
(* Properties.                                                             *)

\* The test that critnib_tag_remove's descent leaves out is missed only by
\* callers that remove a key that is not there: for a key that its caller
\* has inserted, and nobody has removed, the remove neither dereferences
\* NULL nor returns it, whatever other inserts, failed inserts and removes
\* have made of the tree.
RemoveFinds ==
    \A w \in Writers : sure[w] =>
        /\ wpc[w] # "crash"
        /\ wpc[w] = "unlock" => wret[w] # NULL

\* The "paranoia" assignment to ochild is dead code: a node that loses a
\* child has another.
ParanoiaIdle == \A w \in Writers : wpc[w] = "fix" => Occupied(wpar[w]) # {}

\* What the reads of critnib_tag do hold to within the grace period: a get
\* returns a value its key has had since the call; a find_le the value some
\* key at most its argument had in the tree during the attempt, and the exact
\* answer when the tree was left alone.  Otherwise that key may never have been
\* the greatest: the scan to the left is critnib.c's, of which LeCurrent fails.
ResultsSound ==
    \A r \in Readers : rpc[r] = "check" /\ ~Expired(r) =>
        IF finding[r]
        THEN /\ ~touched[r] => rres[r] \in Answer(rkey[r])
             /\ rres[r] # NULL => \E l \in fresh[r] \cap Leaves :
                   AtMost(lkey[l], rkey[r]) /\ lval[l] = rres[r]
        ELSE rres[r] \in valid[r]
=============================================================================
