-------------------------------- MODULE Util --------------------------------
(***************************************************************************)
(* util.c: the checksum of a buffer of little-endian words, and the reader *)
(* of text lines.  A word has WORD values (2^32 in the code).              *)
(***************************************************************************)
EXTENDS Integers, Sequences, FiniteSets, SequencesExt

CONSTANTS
    WORD,       \* values of a word
    Words,      \* words in the buffer
    MaxText,    \* bound: characters in the file
    Maxes       \* the sizes of the caller's line buffer

ASSUME UtilAssumption == /\ WORD \in Nat \ {0, 1}
                         /\ Words \in Nat \ {0, 1}
                         /\ MaxText \in Nat
                         /\ Maxes \subseteq Nat \ {0, 1}

-----------------------------------------------------------------------------
(* The checksum.  addr is a sequence of words; csump and skip are offsets  *)
(* in words, skip = 0 for nothing to skip.                                 *)

VARIABLES
    mem, csump, skip,
    sealed        \* auxiliary: mem after the last insert, <<>> before it

sumvars == <<mem, csump, skip, sealed>>

\* Mutant: the checksum is part of what it is computed from.
AtZeroSkip(p) == p >= IF skip = 0 THEN Words ELSE skip

\* p32 == csump || p32 >= skip
AtZero(p) == p = csump \/ p >= IF skip = 0 THEN Words ELSE skip

\* The loop: p32, lo32 and hi32 after k turns.  Two words at a time are
\* passed over, so that the last turn may be one word past the end.
Loop(addr) ==
    LET turn[k \in 0 .. Len(addr)] ==
          IF k = 0 THEN [p |-> 0, lo |-> 0, hi |-> 0]
          ELSE LET s  == turn[k - 1]
                   lo == (s.lo + addr[s.p + 1]) % WORD
               IN  IF s.p >= Len(addr) THEN s
                   ELSE IF AtZero(s.p)
                        THEN [s EXCEPT !.p = @ + 2, !.hi = (@ + 2 * s.lo) % WORD]
                        ELSE [p |-> s.p + 1, lo |-> lo, hi |-> (s.hi + lo) % WORD]
    IN  turn[Len(addr)]

\* lo32 comes first in memory.
csum(addr) == <<Loop(addr).lo, Loop(addr).hi>>

\* With insert.
Inserted == [p \in 1 .. Words |-> IF p \in {csump + 1, csump + 2}
                                  THEN csum(mem)[p - csump] ELSE mem[p]]

\* Without it.
Verified == SubSeq(mem, csump + 1, csump + 2) = csum(mem)

\* Mutant: the upper half of what came before is forgotten.
util_checksum_seq_low(addr, old) ==
    FoldLeft(LAMBDA s, x : LET lo == (s[1] + x) % WORD IN <<lo, (s[2] + lo) % WORD>>,
             <<old[1], 0>>, addr)

util_checksum_seq(addr, old) ==
    FoldLeft(LAMBDA s, x : LET lo == (s[1] + x) % WORD IN <<lo, (s[2] + lo) % WORD>>,
             old, addr)

SumInit == /\ mem \in [1 .. Words -> 0 .. WORD - 1]
           /\ csump \in 0 .. Words - 2
           /\ skip \in 0 .. Words
           /\ sealed = <<>>

util_checksum == /\ mem' = Inserted
                 /\ sealed' = Inserted
                 /\ UNCHANGED <<csump, skip>>

\* What may happen to the buffer afterwards: a word changes, or two change
\* places.
Damage == /\ mem = sealed
          /\ \/ \E p \in 1 .. Words, x \in 0 .. WORD - 1 : mem' = [mem EXCEPT ![p] = x]
             \/ \E p \in 1 .. Words - 1 :
                   mem' = [mem EXCEPT ![p] = mem[p + 1], ![p + 1] = mem[p]]
          /\ UNCHANGED <<csump, skip, sealed>>

SumNext == util_checksum \/ Damage

\* The words the checksum is about, and its own two.
Own     == {csump + 1, csump + 2}
Covered == {p \in 1 .. Words : skip = 0 \/ p <= skip} \ Own
Changed == {p \in 1 .. Words : mem[p] # sealed[p]}

\* A buffer whose checksum was inserted verifies, also after what is to be
\* skipped has changed; it does not verify after a word, of the data or of
\* the checksum, has changed or after two neighbouring words of the data have
\* changed places, wherever in the buffer the checksum lies, and whether or
\* not an even number of words is skipped.
ChecksumDetects ==
    sealed # <<>> =>
      /\ Changed \cap (Covered \cup Own) = {} => Verified
      /\ Changed # {} /\ (Changed \subseteq Covered \/ Changed \subseteq Own) => ~Verified

\* The checksum may be computed piece by piece, at any cut; and it is the
\* checksum of the buffer with zeros in the checksum's place.
ChecksumPieces ==
    /\ \A k \in 0 .. Words :
          util_checksum_seq(SubSeq(mem, k + 1, Words),
                            util_checksum_seq(SubSeq(mem, 1, k), <<0, 0>>))
             = util_checksum_seq(mem, <<0, 0>>)
    /\ skip = 0 =>
          csum(mem) = util_checksum_seq([p \in 1 .. Words |-> IF p \in Own THEN 0 ELSE mem[p]],
                                        <<0, 0>>)

-----------------------------------------------------------------------------
(* util_fgets.                                                             *)

VARIABLES
    text, pos,   \* the file, and how much of it has been read
    max,         \* the caller's buffer
    out,         \* what the caller has got, one string after the other
    cuts         \* auxiliary: where the strings ended in the file

fgetsvars == <<text, pos, max, out, cuts>>

Chars == {"a", "\r", "\n"}

\* The C library's: up to max - 1 characters, or to the end of a line.
fgets == LET rest == SubSeq(text, pos + 1, Len(text))
             room == SubSeq(rest, 1, IF Len(rest) < max THEN Len(rest) ELSE max - 1)
         IN  IF Contains(room, "\n") THEN SubSeq(room, 1, SelectInSeq(room, LAMBDA c : c = "\n"))
             ELSE room

\* Mutant: the character after \r is not looked at.
CRLFAny(str) == Len(str) >= 2 /\ str[Len(str) - 1] = "\r"

EndsInCRLF(str) == Len(str) >= 2 /\ str[Len(str) - 1] = "\r" /\ str[Len(str)] = "\n"

FgetsInit == /\ text \in SeqOf(Chars, MaxText)
             /\ max \in Maxes
             /\ pos = 0 /\ out = <<>> /\ cuts = {}

util_fgets == /\ pos < Len(text)
              /\ out' = out \o IF EndsInCRLF(fgets)
                               THEN Append(SubSeq(fgets, 1, Len(fgets) - 2), "\n")
                               ELSE fgets
              /\ pos' = pos + Len(fgets)
              /\ cuts' = cuts \cup {pos'}
              /\ UNCHANGED <<text, max>>

\* The carriage returns of the line ends read so far, and the file as far as
\* it was read without the characters at the places S.
LineEnds   == {p \in 1 .. pos - 1 : text[p] = "\r" /\ text[p + 1] = "\n"}
Without(S) == FoldLeft(LAMBDA s, p : IF p \in S THEN s ELSE Append(s, text[p]),
                       <<>>, [p \in 1 .. pos |-> p])

\* What the caller gets, put together, is the file without the carriage
\* returns before line feeds, but for those that the end of the caller's buffer
\* has cut off from their line feeds, which stay although util.c:188 promises
\* "conversion CRLF to LF": no character but these carriage returns is lost,
\* and none is doubled, whatever the size of the buffer.
FgetsKeeps == out = Without(LineEnds \ cuts)
=============================================================================
