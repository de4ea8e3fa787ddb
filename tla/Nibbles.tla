------------------------------ MODULE Nibbles ------------------------------
(***************************************************************************)
(* Keys as the critnib looks at them.  A key is the function from nibble   *)
(* positions to nibbles; position p stands for bits SLICE*p up to          *)
(* SLICE*p + SLICE - 1.  CritnibBits shows that these definitions are what *)
(* the shifts and masks of the code compute.                               *)
(***************************************************************************)
EXTENDS Integers

CONSTANTS
    LEVELS,  \* nibbles in a key (16 in the code)
    NIB      \* the largest nibble (15 in the code)

Digits == 0 .. LEVELS-1
Nibs   == 0 .. NIB
Key    == [Digits -> Nibs]

\* key & path_mask(sh): the nibbles above position sh, the rest cleared.
path_mask(key, sh) == [p \in Digits |-> IF p > sh THEN key[p] ELSE 0]

slice_index(key, sh) == key[sh]

\* sh is the position of the highest nibble in which the two differ:
\* util_mssb_index64(a ^ b) & ~(SLICE - 1).
TopDiff(a, b, sh) == /\ a[sh] # b[sh]
                     /\ \A p \in Digits : p > sh => a[p] = b[p]

\* The order of keys.
Less(a, b) == \E sh \in Digits : TopDiff(a, b, sh) /\ a[sh] < b[sh]
AtMost(a, b) == a = b \/ Less(a, b)

\* (key ^ path) >> sh & ~NIB: they differ above position sh.
Strays(key, path, sh) == path_mask(key, sh) # path_mask(path, sh)
=============================================================================
