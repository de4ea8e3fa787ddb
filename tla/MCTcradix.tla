----------------------------- MODULE MCTcradix -----------------------------
(***************************************************************************)
(* Tcradix for TLC, with keys of three binary digits.  The value stored    *)
(* under a key names it.  In one of two scenarios a reader watches the     *)
(* writers, in the other they make more calls.  They restrict the calls    *)
(* made and when Zalloc fails, never a step of a call under way.           *)
(***************************************************************************)
EXTENDS Tcradix

VARIABLE watched

KeyOf(k) == [p \in Digits |-> (k \div 2^p) % 2]
ValueOf(key) == <<"v0", "v1", "v2", "v3", "v4", "v5", "v6", "v7">>
                   [key[0] + 2 * key[1] + 4 * key[2] + 1]
\* 1 and 3 part at the second level, 7 is TOP_EMPTY.
ThreeKeys == {KeyOf(k) : k \in {1, 3, 7}}
\* And 0, which cannot be an only_key; for writers alone.
FourKeys  == {KeyOf(k) : k \in {0, 1, 3, 7}}
MCValues  == {ValueOf(key) : key \in Keys}

OwnValue == \A w \in Writers : wr[w].op = "none" /\ wr'[w].op = "insert" =>
                wr'[w].value = ValueOf(wr'[w].key)

\* The readers ask for a key that shares its nodes and for TOP_EMPTY, from
\* the second insert on.
Asked == \A r \in Readers : rd[r].pc = "idle" /\ rd'[r].pc # "idle" =>
            rd'[r].key \in {KeyOf(1), KeyOf(7)} /\ inserts > 1

\* An insert of a NULL value does nothing; one, at the start, is enough.
NullFirst == inserts' # inserts /\ wr' = wr => inserts + removes = 0

Called(w) == wr[w].pc = "idle" /\ wr'[w].pc # "idle"

Failing(w) == wr[w].pc = "poke" /\ wr'[w].ret = "ENOMEM"

\* Of the inserts that are watched only the second may run out of memory,
\* which leaves one to follow.
Watched == /\ Asked
           /\ inserts' <= 3 /\ removes' <= 2
           /\ \A w \in Writers : /\ Called(w) => wr'[w].key \in ThreeKeys
                                 /\ inserts' # inserts => wr' # wr
                                 /\ Failing(w) => inserts = 2

Alone == UNCHANGED rd

OwnInit == Init /\ watched \in BOOLEAN

OwnSpec ==
    /\ OwnInit
    /\ [][/\ Next /\ OwnValue /\ NullFirst
          /\ IF watched THEN Watched ELSE Alone
          /\ UNCHANGED watched]_<<vars, watched>>
=============================================================================
