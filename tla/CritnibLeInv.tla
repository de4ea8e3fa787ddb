---------------------------- MODULE CritnibLeInv ----------------------------
(***************************************************************************)
(* The inductive invariant behind the properties of critnib_find_le.  The  *)
(* parts about the structure are those of CritnibInv and CritnibShape; the *)
(* parts below are about a thread in find_le, once for a thread in its     *)
(* grace period, whatever the writers do, and once for a thread under      *)
(* which the tree has been left alone.                                     *)
(***************************************************************************)
EXTENDS CritnibLe, CritnibShape

Frame == [n : Nodes, nib : Nibs]

LeTypeOK ==
    /\ rpc \in [Readers -> {"idle", "count", "root", "walk", "child", "scan",
                            "back", "value", "check", "ret"}]
    /\ rkey \in [Readers -> Key]
    /\ rwrs1 \in [Readers -> Nat]
    /\ rn \in [Readers -> Ptr]
    /\ rnib \in [Readers -> -1 .. NIB]
    /\ rres \in [Readers -> Values \cup Leaves \cup {NULL}]
    /\ fresh \in [Readers -> SUBSET Obj]
    /\ stack \in [Readers -> Seq(Frame)]
    /\ touched \in [Readers -> BOOLEAN]

Standing(r) == rpc[r] \in {"walk", "child", "scan", "value"}

LeStepAt(r) ==
    /\ rpc[r] \in {"child", "scan"} => rn[r] \in Nodes
    /\ rpc[r] = "child" => /\ stack[r] # <<>>
                           /\ SeqExt!Last(stack[r]) = [n |-> rn[r], nib |-> rnib[r]]
    /\ rpc[r] = "value" => rn[r] \in Leaves
    /\ rpc[r] \in {"idle", "count", "root", "check", "ret"} => stack[r] = <<>>

LeStep == \A r \in Readers : LeStepAt(r)

\* Which blocks an attempt may meet, and when they can be recycled at the
\* earliest.
LeFresh ==
    \A r \in Readers : InAttempt(r) =>
       /\ rwrs1[r] <= remove_count
       /\ \A x \in Obj : st[x] = "live" => x \in fresh[r]
       /\ \A x \in fresh[r] : st[x] \in {"live", "gone"}
       /\ \A x \in fresh[r] : st[x] = "gone" => rwrs1[r] <= stamp[x] + 1

\* Below slot i of n are only blocks that belong there.
Sorted(n, c, i) == c # NULL => /\ Under(c, n)
                               /\ slice_index(PathOf(c), shift[n]) = i

\* The keys below slots 0 .. i of n are all at most key.
Low(n, i, key) == \A k \in Key : /\ path_mask(k, shift[n]) = path[n]
                                 /\ k[shift[n]] <= i
                                 => AtMost(k, key)

\* A frame of find_le: its node is on the path of the key.
OnKey(f, key) == /\ path_mask(key, shift[f.n]) = path[f.n]
                 /\ f.nib = slice_index(key, shift[f.n])

\* Within the grace period a thread meets only blocks of its attempt, which
\* keep their place in the trie although some may have left the tree.
GraceLinks(r) ==
    \A n \in Nodes : n \in fresh[r] =>
       /\ path_mask(path[n], shift[n]) = path[n]
       /\ \A i \in Nibs : /\ child[n][i] = NULL \/ child[n][i] \in fresh[r]
                          /\ Sorted(n, child[n][i], i)

\* Frame i is at least i levels below the root.
GraceFrames(r) ==
    \A i \in DOMAIN stack[r] :
       /\ stack[r][i].n \in fresh[r]
       /\ OnKey(stack[r][i], rkey[r])
       /\ shift[stack[r][i].n] + i <= LEVELS

GraceHere(r) ==
    /\ Standing(r) /\ rn[r] # NULL => rn[r] \in fresh[r]
    /\ rpc[r] = "walk" /\ rn[r] \in Nodes =>
          shift[rn[r]] + Len(stack[r]) < LEVELS
    /\ rpc[r] = "scan" => Low(rn[r], rnib[r], rkey[r])
    /\ rpc[r] = "value" => AtMost(lkey[rn[r]], rkey[r])
    /\ rpc[r] = "check" /\ rres[r] # NULL =>
          \E l \in Leaves : /\ l \in fresh[r]
                            /\ AtMost(lkey[l], rkey[r])
                            /\ lval[l] = rres[r]

LeClosedAt(r) ==
    InAttempt(r) /\ ~Expired(r) => GraceLinks(r) /\ GraceFrames(r) /\ GraceHere(r)

LeClosed == \A r \in Readers : LeClosedAt(r)

\* Leaf l is in a slot to the left of one that find_le waits for.
Left(r, l) == \E i \in DOMAIN stack[r] :
                 /\ Under(l, stack[r][i].n)
                 /\ slice_index(lkey[l], shift[stack[r][i].n]) < stack[r][i].nib

\* Block x is below the slot that frame f waits for.
Inside(x, f) == Under(x, f.n) /\ slice_index(PathOf(x), shift[f.n]) = f.nib

\* Leaf l comes before every key below n.
Precedes(l, n) == \A k \in Key : path_mask(k, shift[n]) = path[n] => Less(lkey[l], k)

\* Leaf l is in the part of the tree that find_le has not looked at yet, or
\* what it is certain to find there comes after l.
Ahead(r, l) ==
    \/ Left(r, l)
    \/ rpc[r] = "walk" /\ Leads(rn[r], l)
    \/ /\ rpc[r] = "child" /\ Under(l, rn[r])
       /\ slice_index(lkey[l], shift[rn[r]]) = rnib[r]
    \/ /\ rpc[r] = "scan" /\ Under(l, rn[r])
       /\ slice_index(lkey[l], shift[rn[r]]) <= rnib[r]
    \/ /\ rpc[r] = "scan" /\ Precedes(l, rn[r])
       /\ \E i \in Nibs : i <= rnib[r] /\ child[rn[r]][i] # NULL
    \/ rpc[r] = "value" /\ AtMost(lkey[l], lkey[rn[r]])

\* As long as the tree has been left alone, the thread stands on live blocks,
\* below its frames, and nothing that could be the answer is behind it.
AloneFrames(r) ==
    \A i \in DOMAIN stack[r] :
       /\ st[stack[r][i].n] = "live"
       /\ OnKey(stack[r][i], rkey[r])
       /\ rpc[r] \in {"walk", "scan", "value"} /\ rn[r] # NULL =>
             Inside(rn[r], stack[r][i])
       /\ \A j \in DOMAIN stack[r] : i < j =>
             Inside(stack[r][j].n, stack[r][i])

AloneHere(r) ==
    /\ Standing(r) /\ rn[r] # NULL => st[rn[r]] = "live"
    /\ rpc[r] = "scan" => Low(rn[r], rnib[r], rkey[r])
    /\ rpc[r] = "value" => AtMost(lkey[rn[r]], rkey[r])
    /\ rpc[r] = "check" => rres[r] \in Answer(rkey[r])

AloneAhead(r) ==
    rpc[r] \in {"walk", "child", "scan", "back", "value"} =>
       \A l \in Leaves :
          st[l] = "live" /\ AtMost(lkey[l], rkey[r]) => Ahead(r, l)

LeAloneAt(r) ==
    InAttempt(r) /\ ~touched[r] => AloneFrames(r) /\ AloneHere(r) /\ AloneAhead(r)

LeAlone == \A r \in Readers : LeAloneAt(r)

\* The variables of a thread stay as they are.
LeRests(r) ==
    /\ rpc'[r] = rpc[r] /\ rkey'[r] = rkey[r] /\ rwrs1'[r] = rwrs1[r]
    /\ rn'[r] = rn[r] /\ rnib'[r] = rnib[r] /\ rres'[r] = rres[r]
    /\ fresh'[r] = fresh[r] /\ stack'[r] = stack[r] /\ touched'[r] = touched[r]

LeInv == /\ WParts /\ Shape /\ LeTypeOK /\ LeStep /\ LeFresh
         /\ LeClosed /\ LeAlone
=============================================================================
