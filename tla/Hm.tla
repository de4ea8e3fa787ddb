-------------------------------- MODULE Hm --------------------------------
(***************************************************************************)
(* hmload.c and hmproto.h: the table of dictionaries that the test         *)
(* programs go through, and what its entries do for a single thread.  A    *)
(* dictionary is a function from the keys that are there to their values,  *)
(* which are numbers; 0 is NULL.                                           *)
(***************************************************************************)
EXTENDS Integers, FiniteSetsExt

\* A value no caller stores: the address of a node.
Junk == -1

\* hm_immutable: bit 0 stands for no writes, bit 1 for no find_le and no
\* second insert of a key.
HM_ARR(name, imm) == [hm_name |-> name, hm_immutable |-> imm]

hms == << HM_ARR("critbit", 2), HM_ARR("tcradix", 2),
          HM_ARR("critnib", 0), HM_ARR("critnib_tag", 0) >>

\* Mutant: the flag is not looked at.
ExcusedNever(h, req) == FALSE

\* hm_immutable & req, for the req of the programs' tests, 0 or 2; no
\* dictionary has bit 0.
Excused(h, req) == hms[h].hm_immutable = 2 /\ req = 2

With(d, key, value) ==
    [k \in DOMAIN d \cup {key} |-> IF k = key THEN value ELSE d[k]]

\* A key that is present gets an inner node that passes for a leaf.
critbit_insert(d, key, value) == With(d, key, IF key \in DOMAIN d THEN Junk ELSE value)

\* A value of 0 is no value; any other replaces the old one.
tcradix_insert(d, key, value) == IF value = 0 THEN d ELSE With(d, key, value)

\* EEXIST leaves the old value; critnib_tag_insert is the same.
critnib_insert(d, key, value) == IF key \in DOMAIN d THEN d ELSE With(d, key, value)

hm_insert(h, d, key, value) ==
    CASE hms[h].hm_name = "critbit" -> critbit_insert(d, key, value)
      [] hms[h].hm_name = "tcradix" -> tcradix_insert(d, key, value)
      [] OTHER -> critnib_insert(d, key, value)

hm_get(d, key) == IF key \in DOMAIN d THEN d[key] ELSE 0

hm_remove(d, key) == [k \in DOMAIN d \ {key} |-> d[k]]

\* The nibble of k at position s.
Nibble(k, s) == (k \div 16^s) % 16

\* The position at which the root of a tree of the keys in S branches: the
\* highest at which two of them differ.
Branching(S) ==
    CHOOSE s \in 0 .. 15 :
       /\ \E j, k \in S : Nibble(j, s) # Nibble(k, s)
       /\ \A j, k \in S : j \div 16^(s+1) = k \div 16^(s+1)

\* The key that a descent for key ends at in the critnib of these keys, which
\* looks at the branching nibbles only; none when it meets an empty slot.
Descent(keys, key) ==
    LET at[S \in SUBSET keys] ==
          IF Cardinality(S) <= 1 THEN S
          ELSE LET s == Branching(S)
               IN  at[{k \in S : Nibble(k, s) = Nibble(key, s)}]
    IN  at[keys]

\* critnib_tag_remove does not look for an empty slot, and dereferences NULL
\* when it meets one.  Only the empty tree has a test of its own.
hm_remove_dies(h, d, key) ==
    /\ hms[h].hm_name = "critnib_tag"
    /\ DOMAIN d # {}
    /\ Descent(DOMAIN d, key) = {}

\* Mutant: a key is not below itself.
LessOnly(d, key) == {k \in DOMAIN d : k < key}

AtMostKey(d, key) == {k \in DOMAIN d : k <= key}

\* What critnib_find_le may return: the value of the greatest key that is at
\* most key; but a value of 0 there is taken for nothing, and the search goes
\* on to the left, past whole subtrees, to the value of some smaller key.
critnib_find_le(d, key) ==
    LET below == AtMostKey(d, key)
        top   == Max(below)
    IN  IF below = {} THEN {0}
        ELSE IF d[top] # 0 THEN {d[top]}
        ELSE {0} \cup {d[k] : k \in below}
=============================================================================
