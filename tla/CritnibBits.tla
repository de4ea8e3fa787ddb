---------------------------- MODULE CritnibBits ----------------------------
(***************************************************************************)
(* The shifts and masks of critnib.c on machine words, against the nibble  *)
(* positions of Nibbles that every other module uses.  A word has W bits   *)
(* (64 in the code) and a nibble SLICE (4 in the code).                    *)
(***************************************************************************)
EXTENDS Nibbles, Bitwise

CONSTANT SLICE
ASSUME WidthAssumption == NIB = 2^SLICE - 1

W    == SLICE * LEVELS
Word == 0 .. 2^W - 1

VARIABLES key, path   \* a key, and the path or key of what the walk met

\* The nibbles of a word.
NibblesOf(a) == [p \in Digits |-> (a \div 2^(SLICE * p)) % 2^SLICE]

\* Unsigned W-bit operations.
Inv(a)    == 2^W - 1 - a
Shl(a, s) == (a * 2^s) % 2^W
Shr(a, s) == a \div 2^s

-----------------------------------------------------------------------------
\* ~NIB << shift
mask_bits(sh) == Shl(Inv(NIB), sh)

\* (key >> shift) & NIB
slice_bits(a, sh) == Shr(a, sh) & NIB

\* 63 - clz: the index of the most significant set bit of a # 0.
util_mssb_index64(a) == CHOOSE i \in 0 .. W-1 : Shr(a, i) = 1

\* Mutant: not rounded down to a nibble.
shift_bits_raw(a, b) == util_mssb_index64(a ^^ b)

\* The shift of the node insert makes, as an 8-bit sh_t.
shift_bits(a, b) == util_mssb_index64(a ^^ b) & (255 - (SLICE - 1))

\* find_le's test for a key outside the subtree.
strays_bits(a, b, sh) == (Shr(a ^^ b, sh) & Inv(NIB)) # 0

-----------------------------------------------------------------------------
\* All pairs of words.
BitsInit == key \in Word /\ path = 0
BitsNext == path' = (path + 1) % 2^W /\ UNCHANGED key
BitsSpec == BitsInit /\ [][BitsNext]_<<key, path>>

\* The bit operations of critnib.c are what the nibble model says, at every
\* shift: path_mask and slice_index give the part of a key above a node and
\* the child it selects; insert puts its new node exactly where key and path
\* part, so that they share the new node's path and fall into different
\* slots; and find_le's comparisons order keys as their nibbles do and look at
\* the nibbles above the node only.
BitsAgree ==
    /\ \A sh \in Digits :
         /\ NibblesOf(key & mask_bits(SLICE * sh)) = path_mask(NibblesOf(key), sh)
         /\ slice_bits(key, SLICE * sh) = slice_index(NibblesOf(key), sh)
         /\ strays_bits(key, path, SLICE * sh)
              <=> Strays(NibblesOf(key), NibblesOf(path), sh)
    /\ key # path =>
         LET sh == shift_bits(path, key)
         IN  /\ sh % SLICE = 0
             /\ TopDiff(NibblesOf(path), NibblesOf(key), sh \div SLICE)
             /\ (key & mask_bits(sh)) = (path & mask_bits(sh))
             /\ slice_bits(key, sh) # slice_bits(path, sh)
    /\ key < path <=> Less(NibblesOf(key), NibblesOf(path))
=============================================================================
