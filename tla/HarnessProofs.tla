--------------------------- MODULE HarnessProofs ---------------------------
(***************************************************************************)
(* What th.c promises, for any number of processors and keys, on any       *)
(* dictionary that does what ConcurrentMap says: nobody is inside a        *)
(* dictionary that is deleted, no CHECK that failed is forgotten, and none *)
(* fails unless an insert got no memory.                                   *)
(*                                                                         *)
(* The inductive invariant ties each thread's place in its round to the    *)
(* call it is in, and, as long as no insert has failed, to what the        *)
(* dictionary has for the key of the round: threads keep out of each       *)
(* other's way because their keys are different.                           *)
(***************************************************************************)
EXTENDS Harness, SequenceTheorems, TLAPS

Users   == Threads \cup {Main}
Results == Keys \cup {NULL, "none", "0", "ENOMEM"}
Writing == {"write1000", "read_write_remove"}

HarnessType ==
    /\ map \in [Keys -> Keys \cup {NULL}]
    /\ wcall \in [Users -> Map!Calls \cup {NULL}]
    /\ wres \in [Users -> Results]
    /\ rcall \in [Threads -> Keys \cup {NULL}]
    /\ rres \in [Threads -> Results]
    /\ current \in [Threads -> SUBSET Results]
    /\ nproc \in 1 .. MaxProcs
    /\ mpc \in {"test", "preload", "create", "join", "exit"}
    /\ test \in Nat \ {0}
    /\ n \in Nat \ {0}
    /\ at \in [Threads -> Int]
    /\ key \in [Threads -> Keys]
    /\ nomem \in Nat

Flags == {done, bad, any_bad, alarm} \subseteq BOOLEAN

InTest == mpc \in {"preload", "create", "join"}

\* Which threads there are.
Phase ==
    /\ InTest => test <= 10
    /\ mpc \in {"test", "preload", "exit"} => \A t \in Threads : at[t] = Gone
    /\ mpc = "create" => \A t \in Threads : at[t] # Gone => t < n
    /\ mpc = "create" => n <= ntr + ntw + 1
    /\ mpc = "join" => \A t \in Threads : at[t] # Gone => n <= t /\ t <= ntr + ntw

\* A call is the one of the place its thread is at.
CallOf(o, k) == [op |-> o, key |-> k, value |-> IF o = "insert" THEN k ELSE NULL]

Place(t) ==
    /\ at[t] \in {Gone, Ended} \/ at[t] \in 0 .. Len(Calls(Body(t)))
    /\ at[t] > 0 => key[t] \in RoundKeys(t)
    /\ wcall[t] # NULL => /\ at[t] > 0
                          /\ op(t) \in {"insert", "remove"}
                          /\ wcall[t] = CallOf(op(t), key[t])
    /\ rcall[t] # NULL => at[t] > 0 /\ op(t) = "get" /\ rcall[t] = key[t]
    /\ wres[t] # "none" => wcall[t] # NULL
    /\ rres[t] # "none" => rcall[t] # NULL

\* The key that a writer has inserted and not yet removed is there.
OwnKey(t) ==
    at[t] > 0 /\ Body(t) \in Writing =>
       /\ \/ op(t) = "insert" /\ wres[t] # "none"
          \/ op(t) = "get"
          \/ op(t) = "remove" /\ wres[t] = "none"
          => map[key[t]] = key[t]
       /\ op(t) = "remove" /\ wres[t] # "none" => wres[t] = key[t]

\* A get can only return the value of its key.
GetsKey(t) == rcall[t] # NULL => /\ current[t] \subseteq {key[t]}
                                 /\ rres[t] \in {"none", key[t]}

ThreadInv(t) == Place(t) /\ (nomem = 0 => OwnKey(t) /\ GetsKey(t))

\* main's insert, and the keys that it has preloaded.
Loaded(j) == map[Preload[j]] = Preload[j]

MainInv ==
    /\ wres[Main] # "none" => wcall[Main] # NULL
    /\ wcall[Main] # NULL => /\ mpc = "preload" /\ n <= Len(Preload)
                             /\ wcall[Main] = CallOf("insert", Preload[n])
    /\ mpc = "preload" /\ nomem = 0 =>
          /\ \A j \in 1 .. Len(Preload) : j < n => Loaded(j)
          /\ wres[Main] # "none" => Loaded(n)
    /\ mpc \in {"create", "join"} /\ nomem = 0 =>
          \A j \in 1 .. Len(Preload) : Loaded(j)

\* The test of find_le has one key.
OnlyK == InTest /\ Now.rthread = "le1" =>
            \A k \in Keys : map[k] # NULL => k = K /\ map[k] = K

Told == IF InTest THEN alarm = (any_bad \/ bad) ELSE alarm = any_bad

\* A CHECK has not failed for nothing.
NoAlarm == bad => nomem > 0

HarnessInv ==
    /\ HarnessType /\ Flags
    /\ Phase
    /\ \A t \in Threads : ThreadInv(t)
    /\ MainInv
    /\ OnlyK
    /\ NoAlarm
    /\ Told

\* The process is gone, and what led to it.
Killed == mpc = "crash" /\ nomem > 0

-----------------------------------------------------------------------------
(* The tests, their threads and their keys.                                *)

Readings == {"read1", "read1p", "read1000", "le1", "le1000"}

LEMMA MaxOfTwo ==
    ASSUME NEW a \in Int, NEW b \in Int
    PROVE  Max({a, b}) = IF a >= b THEN a ELSE b
<1> DEFINE m == IF a >= b THEN a ELSE b
<1>1. m \in {a, b} /\ \A y \in {a, b} : m >= y
  OBVIOUS
<1>2. ASSUME NEW x \in {a, b}, \A y \in {a, b} : x >= y
      PROVE  x = m
  BY <1>2
<1> QED BY <1>1, <1>2 DEF Max

LEMMA KeyFacts ==
    /\ K \in Keys /\ NULL \notin Keys /\ "none" \notin Keys
    /\ Preloadable \subseteq Keys
    /\ \A t \in Threads : w1000[t] \subseteq Keys /\ w1000[t] \cap Preloadable = {}
    /\ \A t, u \in Threads : t # u => w1000[t] \cap w1000[u] = {}
    /\ K \in Preloadable /\ \A j \in DOMAIN the1000 : the1000[j] \in Preloadable
    /\ the1000 \in Seq(Preloadable) /\ Len(the1000) \in Nat \ {0}
    /\ 1 \in DOMAIN the1000
<1>1. /\ K \in Preloadable /\ Preloadable \subseteq Keys
      /\ \A j \in DOMAIN the1000 : the1000[j] \in Preloadable
  BY HarnessAssumption DEF Preloadable
<1>2. NULL \notin Keys /\ "none" \notin Keys
  BY HarnessAssumption
<1>3. /\ \A t \in Threads : w1000[t] \subseteq Keys /\ w1000[t] \cap Preloadable = {}
      /\ \A t, u \in Threads : t # u => w1000[t] \cap w1000[u] = {}
  BY HarnessAssumption
<1>4. the1000 \in Seq(Keys) /\ the1000 # <<>>
  BY HarnessAssumption
<1>5. Len(the1000) \in Nat \ {0} /\ DOMAIN the1000 = 1 .. Len(the1000)
  BY <1>4, EmptySeq
<1>6. the1000 \in Seq(Preloadable)
  BY <1>1, <1>4, <1>5, ElementOfSeq, IsASeq
<1> QED BY <1>1, <1>2, <1>3, <1>5, <1>6

LEMMA UserFacts ==
    /\ Threads \subseteq Nat \ {0} /\ Main \notin Threads /\ Main \in Users
    /\ \A t \in Threads : t \in Users
BY HarnessAssumption, MaxOfTwo DEF Threads, Main, Users

LEMMA TestFacts ==
    ASSUME test \in 1 .. 10
    PROVE  /\ Now.spreload \in 0 .. 2 /\ Now.rpreload \in {0, Len(the1000)}
           /\ Now.rthread \in Readings \cup {"read_write_remove"}
           /\ Now.wthread \in {"none", "-1", "write1000"}
           /\ Now.rthread = "read1" => Now.spreload >= 1
           /\ Now.rthread \in {"read1000", "read1p"} =>
                 Now.spreload = 0 /\ Now.rpreload = Len(the1000)
           /\ Now.rthread = "le1" => Now.spreload = 1 /\ Now.rpreload = 0 /\ ~Mixed
<1> DEFINE N == Len(the1000)
<1>1. Tests = << Test(1, 0, "read1", "none", 0),
           Test(2, 0, "read1", "none", 0),
           Test(1, N, "read1", "none", 0),
           Test(0, N, "read1000", "none", 0),
           Test(0, N, "read1p", "none", 0),
           Test(1, 0, "read1", "write1000", 0),
           Test(0, N, "read1000", "write1000", 0),
           Test(0, 0, "read_write_remove", "-1", 0),
           Test(1, 0, "le1", "none", 2),
           Test(0, N, "le1000", "none", 2) >>
  BY DEF Tests
<1> HIDE DEF N
<1>2. \/ Now = Test(1, 0, "read1", "none", 0)
      \/ Now = Test(2, 0, "read1", "none", 0)
      \/ Now = Test(1, N, "read1", "none", 0)
      \/ Now = Test(0, N, "read1000", "none", 0)
      \/ Now = Test(0, N, "read1p", "none", 0)
      \/ Now = Test(1, 0, "read1", "write1000", 0)
      \/ Now = Test(0, N, "read1000", "write1000", 0)
      \/ Now = Test(0, 0, "read_write_remove", "-1", 0)
      \/ Now = Test(1, 0, "le1", "none", 2)
      \/ Now = Test(0, N, "le1000", "none", 2)
  BY <1>1 DEF Now
<1> QED BY <1>2 DEF Test, Readings, Mixed, N

LEMMA TestCount == Len(Tests) = 10
BY DEF Tests

LEMMA PreloadFacts ==
    ASSUME test \in 1 .. 10
    PROVE  /\ Preload \in Seq(Preloadable) /\ Len(Preload) \in Nat
           /\ \A j \in 1 .. Len(Preload) : Preload[j] \in Preloadable
           /\ Now.spreload >= 1 => 1 \in 1 .. Len(Preload) /\ Preload[1] = K
           /\ Now.rthread \in {"read1000", "read1p"} => Preload = the1000
           /\ Now.rthread = "le1" => \A j \in 1 .. Len(Preload) : Preload[j] = K
<1> DEFINE A == IF Now.spreload >= 1 THEN <<K>> ELSE <<>>
           B == IF Now.spreload >= 2 THEN <<One>> ELSE <<>>
           C == SubSeq(the1000, Now.spreload + 1, Now.rpreload)
<1>0. /\ Now.spreload \in 0 .. 2 /\ Now.rpreload \in {0, Len(the1000)}
      /\ Now.rpreload \in Nat
  BY TestFacts, KeyFacts
<1>1. A \in Seq(Preloadable) /\ B \in Seq(Preloadable)
  <2>1. K \in Preloadable /\ One \in Preloadable BY DEF Preloadable
  <2>2. /\ <<K>> \in Seq(Preloadable) /\ <<One>> \in Seq(Preloadable)
        /\ <<>> \in Seq(Preloadable)
    BY <2>1
  <2> QED BY <2>2
<1>2. C \in Seq(Preloadable)
  <2>1. \A j \in Now.spreload + 1 .. Now.rpreload : the1000[j] \in Preloadable
    BY <1>0, KeyFacts
  <2> QED BY <1>0, <2>1, SubSeqProperties
<1>3. Preload = A \o B \o C
  BY DEF Preload
<1>4. A \o B \in Seq(Preloadable) /\ Preload \in Seq(Preloadable)
  BY <1>1, <1>2, <1>3
<1>5. Now.spreload >= 1 => 1 \in 1 .. Len(Preload) /\ Preload[1] = K
  <2> SUFFICES ASSUME Now.spreload >= 1
               PROVE  1 \in 1 .. Len(Preload) /\ Preload[1] = K
    OBVIOUS
  <2>1. A = <<K>> OBVIOUS
  <2>2. Len(A \o B) >= 1 /\ (A \o B)[1] = K BY <2>1, <1>1
  <2>3. Len(Preload) >= 1 /\ Preload[1] = K
    BY <2>2, <1>2, <1>3, <1>4
  <2>4. Len(Preload) \in Nat BY <1>4
  <2> QED BY <2>3, <2>4
<1>6. Now.rthread \in {"read1000", "read1p"} => Preload = the1000
  <2> SUFFICES ASSUME Now.rthread \in {"read1000", "read1p"}
               PROVE  Preload = the1000
    OBVIOUS
  <2>1. A = <<>> /\ B = <<>> /\ C = SubSeq(the1000, 1, Len(the1000))
    BY TestFacts
  <2>2. C = the1000 BY <2>1, KeyFacts, SubSeqFull
  <2>3. the1000 \in Seq(Preloadable) /\ <<>> \in Seq(Preloadable) BY KeyFacts
  <2> HIDE DEF A, B, C
  <2> QED BY <1>3, <2>1, <2>2, <2>3, ConcatEmptySeq
<1>7. Now.rthread = "le1" => \A j \in 1 .. Len(Preload) : Preload[j] = K
  <2> SUFFICES ASSUME Now.rthread = "le1"
               PROVE  \A j \in 1 .. Len(Preload) : Preload[j] = K
    OBVIOUS
  <2>1. A = <<K>> /\ B = <<>> /\ C = SubSeq(the1000, 2, 0)
    BY TestFacts
  <2>6. 2 \in Int /\ 0 \in Int /\ 0 < 2 OBVIOUS
  <2>7. SubSeq(the1000, 2, 0) = <<>> BY <2>6, SubSeqEmpty
  <2>2. C = <<>> BY <2>1, <2>7
  <2>3. <<K>> \in Seq(Preloadable) BY KeyFacts
  <2>4. <<K>> \o <<>> = <<K>> BY <2>3, ConcatEmptySeq
  <2> HIDE DEF A, B, C
  <2>5. Preload = <<K>> BY <1>3, <2>1, <2>2, <2>4
  <2> QED BY <2>5
<1> QED BY <1>4, <1>5, <1>6, <1>7

LEMMA CountFacts ==
    ASSUME nproc \in 1 .. MaxProcs
    PROVE  ntr \in Nat \ {0} /\ ntw \in Nat /\ (~Mixed => ntw = 0)
<1>1. nproc \in Nat /\ nproc >= 1 BY HarnessAssumption
<1>2. nwthreads \in Nat \ {0}
  BY <1>1, MaxOfTwo DEF nwthreads, nthreads
<1>3. nrthreads \in Nat \ {0}
  BY <1>1, <1>2, MaxOfTwo DEF nrthreads, nthreads
<1> QED BY <1>1, <1>2, <1>3 DEF ntr, ntw, nthreads

\* What a thread of this test does, with which keys.
LEMMA BodyFacts ==
    ASSUME test \in 1 .. 10, nproc \in 1 .. MaxProcs,
           NEW t \in Threads, t <= ntr + ntw
    PROVE  /\ Body(t) \in Readings \cup Writing
           /\ Body(t) \in Writing => RoundKeys(t) = w1000[t]
           /\ Body(t) = "le1" => Now.rthread = "le1"
           /\ Body(t) \in {"read1", "read1p", "read1000"} =>
                 \A k \in RoundKeys(t) : \E j \in 1 .. Len(Preload) : Preload[j] = k
           /\ RoundKeys(t) \subseteq Keys
<1>1. ntr \in Nat /\ ntw \in Nat /\ (~Mixed => ntw = 0) /\ t \in Nat
  BY CountFacts, UserFacts
<1>2. \/ Body(t) = Now.rthread /\ Now.rthread \in Readings \cup {"read_write_remove"}
      \/ Body(t) = Now.wthread /\ Mixed /\ Now.wthread = "write1000"
  BY <1>1, TestFacts DEF Body, Mixed
<1>3. Body(t) \in Readings \cup Writing
  BY <1>2 DEF Readings, Writing
<1>4. Body(t) \in Writing => RoundKeys(t) = w1000[t]
  BY DEF RoundKeys, Writing
<1>5. Body(t) \in Readings => Body(t) = Now.rthread
  BY <1>2 DEF Readings
<1>6. ASSUME Body(t) \in {"read1", "read1p", "read1000"}, NEW k \in RoundKeys(t)
      PROVE  \E j \in 1 .. Len(Preload) : Preload[j] = k
  <2>1. Body(t) = Now.rthread BY <1>5, <1>6 DEF Readings
  <2>2. CASE Body(t) = "read1"
    <3>1. k = K BY <2>2, <1>6 DEF RoundKeys
    <3> QED BY <2>1, <2>2, <3>1, PreloadFacts, TestFacts
  <2>3. CASE Body(t) = "read1p"
    <3>1. k = the1000[1] BY <2>3, <1>6 DEF RoundKeys
    <3> QED BY <2>1, <2>3, <3>1, PreloadFacts, KeyFacts
  <2>4. CASE Body(t) = "read1000"
    <3>1. k \in {the1000[j] : j \in DOMAIN the1000} BY <2>4, <1>6 DEF RoundKeys
    <3> QED BY <2>1, <2>4, <3>1, PreloadFacts, KeyFacts
  <2> QED BY <1>6, <2>2, <2>3, <2>4
<1>7. RoundKeys(t) \subseteq Keys
  <2>1. CASE Body(t) \in {"read1", "read1p", "read1000"}
    BY <2>1, <1>6, PreloadFacts, KeyFacts
  <2>2. CASE Body(t) \in {"le1", "le1000"}
    <3>1. RoundKeys(t) = Keys BY <2>2 DEF RoundKeys
    <3> QED BY <3>1
  <2>3. CASE Body(t) \in Writing
    BY <2>3, <1>4, KeyFacts
  <2> QED BY <1>3, <2>1, <2>2, <2>3 DEF Readings
<1> QED BY <1>3, <1>4, <1>5, <1>6, <1>7 DEF Readings
\* Everything that describes a test is a matter of test and nproc.
LEMMA Same ==
    ASSUME UNCHANGED <<test, nproc>>
    PROVE  /\ Now' = Now /\ Preload' = Preload /\ ntr' = ntr /\ ntw' = ntw
           /\ \A t \in Threads : Body(t)' = Body(t) /\ RoundKeys(t)' = RoundKeys(t)
<1>1. Now' = Now BY DEF Now
<1>2. Preload' = Preload BY <1>1 DEF Preload
<1>3. nthreads' = nthreads /\ nwthreads' = nwthreads /\ nrthreads' = nrthreads
  BY DEF nthreads, nwthreads, nrthreads
<1>4. ntr' = ntr /\ ntw' = ntw
  BY <1>1, <1>3 DEF ntr, ntw, Mixed
<1>5. \A t \in Threads : Body(t)' = Body(t)
  BY <1>1, <1>4 DEF Body
<1>6. \A t \in Threads : RoundKeys(t)' = RoundKeys(t)
  BY <1>5 DEF RoundKeys
<1> QED BY <1>1, <1>2, <1>4, <1>5, <1>6

LEMMA Running ==
    ASSUME HarnessInv, NEW t \in Threads, at[t] # Gone
    PROVE  /\ mpc \in {"create", "join"} /\ InTest
           /\ test \in 1 .. 10 /\ nproc \in 1 .. MaxProcs
           /\ t <= ntr + ntw
<1>1. mpc \in {"create", "join"} BY DEF HarnessInv, Phase, HarnessType
<1>2. InTest /\ test \in 1 .. 10 /\ nproc \in 1 .. MaxProcs
  BY <1>1 DEF HarnessInv, Phase, HarnessType, InTest
<1>3. ntr \in Nat /\ ntw \in Nat /\ t \in Nat /\ n \in Nat
  BY <1>2, CountFacts, UserFacts DEF HarnessInv, HarnessType
<1>4. t <= ntr + ntw
  BY <1>1, <1>3 DEF HarnessInv, Phase
<1> QED BY <1>1, <1>2, <1>4

\* The calls of a round, and what follows what.
LEMMA OpFacts ==
    ASSUME HarnessInv, NEW t \in Threads, at[t] > 0
    PROVE  /\ at[t] # Gone /\ Body(t) \in Readings \cup Writing
           /\ at[t] \in 1 .. Len(Calls(Body(t)))
           /\ op(t) \in {"get", "insert", "remove", "find_le"}
           /\ op(t) \in {"insert", "remove"} => Body(t) \in Writing
           /\ op(t) = "get" => Body(t) \in {"read1", "read1p", "read1000"} \cup Writing
           /\ op(t) = "find_le" => Body(t) \in {"le1", "le1000"}
<1>1. at[t] \in Int /\ at[t] # Gone /\ at[t] # Ended
  BY DEF HarnessInv, HarnessType, Gone, Ended
<1>2. Body(t) \in Readings \cup Writing
  BY <1>1, Running, BodyFacts
<1>3. at[t] \in 1 .. Len(Calls(Body(t)))
  BY <1>1 DEF HarnessInv, ThreadInv, Place
<1>4. CASE Body(t) \in {"read1", "read1p", "read1000"}
  <2>1. Calls(Body(t)) = <<"get">> BY <1>4 DEF Calls
  <2>2. at[t] = 1 BY <2>1, <1>3
  <2> QED BY <1>1, <1>2, <1>3, <1>4, <2>1, <2>2 DEF op
<1>5. CASE Body(t) \in {"le1", "le1000"}
  <2>1. Calls(Body(t)) = <<"find_le">> BY <1>5 DEF Calls
  <2>2. at[t] = 1 BY <2>1, <1>3
  <2> QED BY <1>1, <1>2, <1>3, <1>5, <2>1, <2>2 DEF op
<1>6. CASE Body(t) = "write1000"
  <2>1. Calls(Body(t)) = <<"insert", "remove">> BY <1>6 DEF Calls
  <2>2. at[t] \in {1, 2} BY <2>1, <1>3
  <2> QED BY <1>1, <1>2, <1>3, <1>6, <2>1, <2>2 DEF op, Writing
<1>7. CASE Body(t) = "read_write_remove"
  <2>1. Calls(Body(t)) = <<"insert", "get", "remove">> BY <1>7 DEF Calls
  <2>2. at[t] \in {1, 2, 3} BY <2>1, <1>3
  <2> QED BY <1>1, <1>2, <1>3, <1>7, <2>1, <2>2 DEF op, Writing
<1> QED BY <1>2, <1>4, <1>5, <1>6, <1>7 DEF Readings, Writing

LEMMA AdvanceFacts ==
    ASSUME HarnessInv, NEW t \in Threads, at[t] > 0, Advance(t), UNCHANGED <<test, nproc>>
    PROVE  /\ at' \in [Threads -> Int]
           /\ \A u \in Threads \ {t} : at'[u] = at[u]
           /\ at'[t] \in 0 .. Len(Calls(Body(t)))
           /\ op(t) \in {"remove", "find_le"} => at'[t] = 0
           /\ op(t) = "insert" => at'[t] > 0 /\ op(t)' \in {"get", "remove"}
           /\ op(t) = "get" => \/ at'[t] = 0
                               \/ Body(t) \in Writing /\ at'[t] > 0 /\ op(t)' = "remove"
<1>0. at \in [Threads -> Int] BY DEF HarnessInv, HarnessType
<1>1. at[t] \in 1 .. Len(Calls(Body(t))) /\ Body(t) \in Readings \cup Writing
  BY OpFacts
<1>2. Body(t)' = Body(t) BY Same
<1>3. at' = [at EXCEPT ![t] = (at[t] + 1) % (Len(Calls(Body(t))) + 1)]
  BY <1>0 DEF Advance
<1>4. CASE Body(t) \in {"read1", "read1p", "read1000"}
  <2>1. Calls(Body(t)) = <<"get">> BY <1>4 DEF Calls
  <2>2. at[t] = 1 BY <2>1, <1>1
  <2>3. at' = [at EXCEPT ![t] = 0] BY <2>1, <2>2, <1>3
  <2> QED BY <1>0, <2>1, <2>2, <2>3 DEF op
<1>5. CASE Body(t) \in {"le1", "le1000"}
  <2>1. Calls(Body(t)) = <<"find_le">> BY <1>5 DEF Calls
  <2>2. at[t] = 1 BY <2>1, <1>1
  <2>3. at' = [at EXCEPT ![t] = 0] BY <2>1, <2>2, <1>3
  <2> QED BY <1>0, <2>1, <2>2, <2>3 DEF op
<1>6. CASE Body(t) = "write1000"
  <2>1. Calls(Body(t)) = <<"insert", "remove">> BY <1>6 DEF Calls
  <2>2. at[t] \in {1, 2} BY <2>1, <1>1
  <2>3. Len(Calls(Body(t))) + 1 = 3 BY <2>1
  <2>4. CASE at[t] = 1
    <3>1. (1 + 1) % 3 = 2 OBVIOUS
    <3>2. at' = [at EXCEPT ![t] = 2] BY <2>3, <2>4, <3>1, <1>3
    <3> QED BY <1>0, <1>2, <2>1, <2>4, <3>2 DEF op
  <2>5. CASE at[t] = 2
    <3>1. (2 + 1) % 3 = 0 OBVIOUS
    <3>2. at' = [at EXCEPT ![t] = 0] BY <2>3, <2>5, <3>1, <1>3
    <3> QED BY <1>0, <1>2, <2>1, <2>5, <3>2 DEF op
  <2> QED BY <2>2, <2>4, <2>5
<1>7. CASE Body(t) = "read_write_remove"
  <2>1. Calls(Body(t)) = <<"insert", "get", "remove">> BY <1>7 DEF Calls
  <2>2. at[t] \in {1, 2, 3} BY <2>1, <1>1
  <2>3. Len(Calls(Body(t))) + 1 = 4 BY <2>1
  <2>4. CASE at[t] = 1
    <3>1. (1 + 1) % 4 = 2 OBVIOUS
    <3>2. at' = [at EXCEPT ![t] = 2] BY <2>3, <2>4, <3>1, <1>3
    <3> QED BY <1>0, <1>2, <2>1, <2>4, <3>2 DEF op
  <2>5. CASE at[t] = 2
    <3>1. (2 + 1) % 4 = 3 OBVIOUS
    <3>2. at' = [at EXCEPT ![t] = 3] BY <2>3, <2>5, <3>1, <1>3
    <3> QED BY <1>0, <1>2, <1>7, <2>1, <2>5, <3>2 DEF op, Writing
  <2>6. CASE at[t] = 3
    <3>1. (3 + 1) % 4 = 0 OBVIOUS
    <3>2. at' = [at EXCEPT ![t] = 0] BY <2>3, <2>6, <3>1, <1>3
    <3> QED BY <1>0, <1>2, <2>1, <2>6, <3>2 DEF op
  <2> QED BY <2>2, <2>4, <2>5, <2>6
<1> QED BY <1>1, <1>4, <1>5, <1>6, <1>7 DEF Readings, Writing

\* A key that is asked for is there.
LEMMA Present ==
    ASSUME HarnessInv, NEW t \in Threads, at[t] > 0, op(t) = "get", nomem = 0
    PROVE  /\ map[key[t]] = key[t]
           /\ \/ key[t] \in Preloadable
              \/ Body(t) \in Writing /\ key[t] \in w1000[t]
<1>1. /\ at[t] # Gone /\ Body(t) \in {"read1", "read1p", "read1000"} \cup Writing
      /\ key[t] \in RoundKeys(t)
  BY OpFacts DEF HarnessInv, ThreadInv, Place
<1>2. /\ test \in 1 .. 10 /\ nproc \in 1 .. MaxProcs /\ t <= ntr + ntw
      /\ mpc \in {"create", "join"}
  BY <1>1, Running
<1>3. CASE Body(t) \in {"read1", "read1p", "read1000"}
  <2>1. PICK j \in 1 .. Len(Preload) : Preload[j] = key[t]
    BY <1>1, <1>2, <1>3, BodyFacts
  <2>2. Preload[j] \in Preloadable BY <1>2, PreloadFacts
  <2>3. Loaded(j) BY <1>2 DEF HarnessInv, MainInv
  <2> QED BY <2>1, <2>2, <2>3 DEF Loaded
<1>4. CASE Body(t) \in Writing
  <2>1. map[key[t]] = key[t] BY <1>4 DEF HarnessInv, ThreadInv, OwnKey
  <2> QED BY <1>1, <1>2, <1>4, <2>1, BodyFacts
<1> QED BY <1>1, <1>3, <1>4

\* A thread whose own state stays, and whose key does.
LEMMA Undisturbed ==
    ASSUME NEW t \in Threads, ThreadInv(t), UNCHANGED <<test, nproc>>,
           at'[t] = at[t], key'[t] = key[t], wcall'[t] = wcall[t], wres'[t] = wres[t],
           rcall'[t] = rcall[t], rres'[t] = rres[t],
           nomem' = 0 => nomem = 0,
           nomem' = 0 /\ at[t] > 0 /\ Body(t) \in Writing => map'[key[t]] = map[key[t]],
           nomem' = 0 /\ rcall[t] # NULL => current'[t] \subseteq {key[t]}
    PROVE  ThreadInv(t)'
<1>1. Body(t)' = Body(t) /\ RoundKeys(t)' = RoundKeys(t) BY Same
<1>2. op(t)' = op(t) BY <1>1 DEF op
<1>3. Place(t)' BY <1>1, <1>2 DEF ThreadInv, Place
<1>4. nomem' = 0 => OwnKey(t)' BY <1>1, <1>2 DEF ThreadInv, OwnKey
<1>5. nomem' = 0 => GetsKey(t)' BY DEF ThreadInv, GetsKey
<1> QED BY <1>3, <1>4, <1>5 DEF ThreadInv
-----------------------------------------------------------------------------
(* The steps of a thread.                                                  *)

LEMMA PhaseKept ==
    ASSUME HarnessInv, NEW t \in Threads, at[t] # Gone,
           \A u \in Threads \ {t} : at'[u] = at[u],
           UNCHANGED <<mpc, test, n, nproc>>
    PROVE  Phase' /\ InTest' = InTest
<1>1. ntr' = ntr /\ ntw' = ntw BY Same
<1>2. mpc \in {"create", "join"} BY Running
<1> QED BY <1>1, <1>2 DEF HarnessInv, Phase, InTest

LEMMA MainKept ==
    ASSUME HarnessInv, mpc \in {"create", "join"},
           UNCHANGED <<mpc, test, n, nproc>>,
           wcall'[Main] = wcall[Main], wres'[Main] = wres[Main],
           nomem' = 0 => nomem = 0,
           \A k \in Preloadable : map'[k] = map[k]
    PROVE  MainInv'
<1>1. Preload' = Preload BY Same
<1>2. test \in 1 .. 10 BY DEF HarnessInv, HarnessType, Phase, InTest
<1>3. \A j \in 1 .. Len(Preload) : Preload[j] \in Preloadable BY <1>2, PreloadFacts
<1> QED BY <1>1, <1>3 DEF HarnessInv, MainInv, Loaded

\* CHECK never loses an alarm.
LEMMA CheckTold ==
    ASSUME HarnessInv, InTest, InTest', NEW ok \in BOOLEAN, CHECK(ok),
           UNCHANGED <<any_bad, done, nomem>>, nomem = 0 => ok
    PROVE  Told' /\ NoAlarm' /\ Flags'
<1>1. bad \in BOOLEAN /\ any_bad \in BOOLEAN /\ alarm \in BOOLEAN /\ done \in BOOLEAN
  BY DEF HarnessInv, Flags
<1>2. bad' = (bad \/ ~ok) /\ alarm' = (alarm \/ ~ok) BY DEF CHECK
<1>3. alarm = (any_bad \/ bad) BY DEF HarnessInv, Told
<1>4. bad => nomem > 0 BY DEF HarnessInv, NoAlarm
<1>5. Told' BY <1>1, <1>2, <1>3 DEF Told
<1>6. NoAlarm'
  <2>1. nomem \in Nat BY DEF HarnessInv, HarnessType
  <2>2. ~ok => nomem > 0 BY <2>1
  <2> QED BY <1>2, <1>4, <2>2 DEF NoAlarm
<1>7. bad' \in BOOLEAN /\ alarm' \in BOOLEAN BY <1>2
<1> QED BY <1>1, <1>5, <1>6, <1>7 DEF Flags

LEMMA RoundStep ==
    ASSUME HarnessInv, NEW t \in Threads, Round(t), UNCHANGED nproc
    PROVE  HarnessInv'
<1>0. /\ HarnessType /\ Flags /\ Told /\ NoAlarm /\ OnlyK
      /\ \A u \in Threads : ThreadInv(u)
  BY DEF HarnessInv
<1>1. /\ at[t] = 0 /\ at[t] # Gone
      /\ UNCHANGED <<map, wcall, wres, rcall, rres, current, done, bad, any_bad,
                     mpc, test, hm, n, nomem, alarm, nproc>>
      /\ \/ at' = [at EXCEPT ![t] = Ended] /\ key' = key
         \/ /\ at' = [at EXCEPT ![t] = 1]
            /\ \E k \in RoundKeys(t) : key' = [key EXCEPT ![t] = k]
  BY DEF Round, dict, main, Gone
<1>2. /\ mpc \in {"create", "join"} /\ InTest /\ test \in 1 .. 10
      /\ nproc \in 1 .. MaxProcs /\ t <= ntr + ntw
  BY <1>1, Running
<1>3. RoundKeys(t) \subseteq Keys /\ Body(t) \in Readings \cup Writing
  BY <1>2, BodyFacts
<1>4. /\ at' \in [Threads -> Int] /\ key' \in [Threads -> Keys]
      /\ \A u \in Threads \ {t} : at'[u] = at[u] /\ key'[u] = key[u]
      /\ at'[t] = Ended \/ (at'[t] = 1 /\ key'[t] \in RoundKeys(t))
  <2>1. CASE at' = [at EXCEPT ![t] = Ended] /\ key' = key
    <3>1. at \in [Threads -> Int] /\ key \in [Threads -> Keys] BY <1>0 DEF HarnessType
    <3>2. Ended \in Int BY DEF Ended
    <3> QED BY <2>1, <3>1, <3>2
  <2>2. CASE /\ at' = [at EXCEPT ![t] = 1]
             /\ \E k \in RoundKeys(t) : key' = [key EXCEPT ![t] = k]
    <3>1. PICK k \in RoundKeys(t) : key' = [key EXCEPT ![t] = k] BY <2>2
    <3> QED BY <2>2, <3>1, <1>0, <1>3 DEF HarnessType
  <2> QED BY <1>1, <2>1, <2>2
<1>5. HarnessType'
  BY <1>0, <1>1, <1>4 DEF HarnessType
<1>6. Phase' /\ InTest' = InTest
  BY <1>1, <1>4, PhaseKept
<1>7. MainInv'
  BY <1>1, <1>2, MainKept
<1>8. wcall[t] = NULL /\ rcall[t] = NULL /\ wres[t] = "none" /\ rres[t] = "none"
  BY <1>0, <1>1 DEF ThreadInv, Place
<1>9. ASSUME NEW u \in Threads
      PROVE  ThreadInv(u)'
  <2>1. CASE u # t
    BY <2>1, <1>0, <1>1, <1>4, Undisturbed DEF ThreadInv, GetsKey
  <2>2. CASE u = t
    <3>1. Body(t)' = Body(t) /\ RoundKeys(t)' = RoundKeys(t) BY <1>1, Same
    <3>2. Len(Calls(Body(t))) \in Nat /\ Len(Calls(Body(t))) >= 1
      BY <1>3 DEF Calls, Readings, Writing
    <3>3. Place(t)'
      BY <1>1, <1>4, <1>8, <3>1, <3>2 DEF Place, Gone, Ended
    <3>4. Body(t) \in Writing => Calls(Body(t))[1] = "insert"
      BY DEF Calls, Writing
    <3>5. OwnKey(t)'
      BY <1>1, <1>4, <1>8, <3>1, <3>4 DEF OwnKey, op, Ended
    <3>6. GetsKey(t)' BY <1>1, <1>8 DEF GetsKey
    <3> QED BY <2>2, <3>3, <3>5, <3>6 DEF ThreadInv
  <2> QED BY <2>1, <2>2
<1>10. OnlyK' BY <1>0, <1>1, <1>6, Same DEF OnlyK
<1>11. Told' /\ NoAlarm' /\ Flags'
  BY <1>0, <1>1, <1>6 DEF Told, NoAlarm, Flags
<1> QED BY <1>5, <1>6, <1>7, <1>9, <1>10, <1>11 DEF HarnessInv

LEMMA StartStep ==
    ASSUME HarnessInv, NEW t \in Threads, Start(t), UNCHANGED nproc
    PROVE  HarnessInv'
<1>0. /\ HarnessType /\ Flags /\ Told /\ NoAlarm /\ OnlyK
      /\ \A u \in Threads : ThreadInv(u)
  BY DEF HarnessInv
<1>1. /\ at[t] > 0
      /\ UNCHANGED <<map, wres, rres, done, bad, any_bad, mpc, test, hm, n, at, key,
                     nomem, alarm, nproc>>
  BY DEF Start, Map!Get, Map!Call, main
<1>2. /\ at[t] # Gone /\ op(t) \in {"get", "insert", "remove", "find_le"}
      /\ op(t) \in {"insert", "remove"} => Body(t) \in Writing
  BY <1>1, OpFacts
<1>3. /\ mpc \in {"create", "join"} /\ InTest /\ test \in 1 .. 10
      /\ nproc \in 1 .. MaxProcs /\ t <= ntr + ntw
  BY <1>2, Running
<1>4. key[t] \in Keys BY <1>0 DEF HarnessType
<1>5. CASE op(t) = "get" /\ Map!Get(t) /\ rcall'[t] = key[t]
  <2>1. /\ rcall[t] = NULL /\ UNCHANGED <<wcall, wres>>
        /\ rcall' = [rcall EXCEPT ![t] = key[t]]
        /\ current' = [current EXCEPT ![t] = {map[key[t]]}]
    BY <1>5, <1>0 DEF Map!Get, HarnessType
  <2>2. map[key[t]] \in Results BY <1>0, <1>4 DEF HarnessType, Results
  <2>3. /\ rcall' \in [Threads -> Keys \cup {NULL}] /\ current' \in [Threads -> SUBSET Results]
        /\ \A u \in Threads \ {t} : rcall'[u] = rcall[u] /\ current'[u] = current[u]
        /\ rcall'[t] = key[t] /\ current'[t] = {map[key[t]]}
    BY <2>1, <2>2, <1>0, <1>4 DEF HarnessType
  <2>4. HarnessType' BY <2>1, <2>3, <1>0, <1>1 DEF HarnessType
  <2>5. ASSUME NEW u \in Threads
        PROVE  ThreadInv(u)'
    <3>1. CASE u # t
      BY <3>1, <2>1, <2>3, <1>0, <1>1, Undisturbed DEF ThreadInv, GetsKey
    <3>2. CASE u = t
      <4>1. Body(t)' = Body(t) /\ RoundKeys(t)' = RoundKeys(t) BY <1>1, Same
      <4>2. op(t)' = op(t) BY <4>1, <1>1 DEF op
      <4>3. Place(t)' BY <4>1, <4>2, <2>1, <2>3, <1>0, <1>1, <1>5 DEF ThreadInv, Place
      <4>4. rres[t] = "none" BY <2>1, <1>0 DEF ThreadInv, Place
      <4>5. nomem = 0 => GetsKey(t)'
        BY <4>4, <2>3, <1>1, <1>5, Present DEF GetsKey
      <4>6. nomem = 0 => OwnKey(t)'
        BY <4>1, <4>2, <2>1, <1>0, <1>1 DEF ThreadInv, OwnKey
      <4> QED BY <3>2, <4>3, <4>5, <4>6, <1>1 DEF ThreadInv
    <3> QED BY <3>1, <3>2
  <2>6. MainInv' BY <1>1, <1>3, <2>1, MainKept
  <2> QED BY <2>4, <2>5, <2>6, <1>0, <1>1, <1>2, PhaseKept, Same
          DEF HarnessInv, OnlyK, Told, NoAlarm, Flags
<1>6. CASE /\ op(t) \in {"insert", "remove"} /\ Map!Call(t)
           /\ wcall'[t] = [op |-> op(t), key |-> key[t],
                           value |-> IF op(t) = "insert" THEN key[t] ELSE NULL]
  <2>1. wcall[t] = NULL /\ UNCHANGED <<rcall, rres, current>>
    BY <1>6 DEF Map!Call
  <2>2. PICK c \in Map!Calls : wcall' = [wcall EXCEPT ![t] = c]
    BY <1>6 DEF Map!Call
  <2>3. /\ wcall' \in [Users -> Map!Calls \cup {NULL}]
        /\ \A u \in Users \ {t} : wcall'[u] = wcall[u]
        /\ wcall'[t] = CallOf(op(t), key[t])
    BY <2>2, <1>0, <1>6 DEF HarnessType, CallOf
  <2>4. HarnessType' BY <2>1, <2>3, <1>0, <1>1 DEF HarnessType
  <2>5. ASSUME NEW u \in Threads
        PROVE  ThreadInv(u)'
    <3>1. CASE u # t
      BY <3>1, <2>1, <2>3, <1>0, <1>1, UserFacts, Undisturbed DEF ThreadInv, GetsKey
    <3>2. CASE u = t
      <4>1. Body(t)' = Body(t) /\ RoundKeys(t)' = RoundKeys(t) BY <1>1, Same
      <4>2. op(t)' = op(t) BY <4>1, <1>1 DEF op
      <4>3. wres[t] = "none" BY <2>1, <1>0 DEF ThreadInv, Place
      <4>4. Place(t)' BY <4>1, <4>2, <4>3, <2>1, <2>3, <1>0, <1>1, <1>6 DEF ThreadInv, Place
      <4>5. nomem = 0 => GetsKey(t)'
        BY <2>1, <1>0, <1>1 DEF ThreadInv, GetsKey
      <4>6. nomem = 0 => OwnKey(t)'
        BY <4>1, <4>2, <1>0, <1>1 DEF ThreadInv, OwnKey
      <4> QED BY <3>2, <4>4, <4>5, <4>6, <1>1 DEF ThreadInv
    <3> QED BY <3>1, <3>2
  <2>6. MainInv' BY <1>1, <1>3, <2>3, UserFacts, MainKept
  <2> QED BY <2>4, <2>5, <2>6, <1>0, <1>1, <1>2, PhaseKept, Same
          DEF HarnessInv, OnlyK, Told, NoAlarm, Flags
<1> QED BY <1>5, <1>6 DEF Start
\* A call returns, and its result is checked.
LEMMA FinishStep ==
    ASSUME HarnessInv, NEW t \in Threads, Finish(t), UNCHANGED nproc
    PROVE  HarnessInv'
<1>0. /\ HarnessType /\ Flags /\ Told /\ NoAlarm /\ OnlyK
      /\ \A u \in Threads : ThreadInv(u)
  BY DEF HarnessInv
<1>1. /\ at[t] > 0 /\ Advance(t)
      /\ UNCHANGED <<map, done, any_bad, mpc, test, hm, n, key, nomem, nproc>>
  BY DEF Finish, Map!GetReturn, Map!Return, main
<1>2. /\ at[t] # Gone /\ op(t) \in {"get", "insert", "remove", "find_le"}
      /\ op(t) \in {"insert", "remove"} => Body(t) \in Writing
  BY <1>1, OpFacts
<1>3. /\ mpc \in {"create", "join"} /\ InTest /\ test \in 1 .. 10
      /\ nproc \in 1 .. MaxProcs /\ t <= ntr + ntw
  BY <1>2, Running
<1>4. /\ at' \in [Threads -> Int] /\ \A u \in Threads \ {t} : at'[u] = at[u]
      /\ at'[t] \in 0 .. Len(Calls(Body(t)))
      /\ op(t) \in {"remove", "find_le"} => at'[t] = 0
      /\ op(t) = "insert" => at'[t] > 0 /\ op(t)' \in {"get", "remove"}
      /\ op(t) = "get" => \/ at'[t] = 0
                          \/ Body(t) \in Writing /\ at'[t] > 0 /\ op(t)' = "remove"
  BY <1>1, AdvanceFacts
<1>5. Phase' /\ InTest' /\ Now' = Now BY <1>1, <1>2, <1>3, <1>4, PhaseKept, Same
<1>6. Body(t)' = Body(t) /\ RoundKeys(t)' = RoundKeys(t) BY <1>1, Same
<1>7. OnlyK' BY <1>0, <1>1, <1>3, <1>5 DEF OnlyK
<1>8. key[t] \in RoundKeys(t) BY <1>0, <1>1 DEF ThreadInv, Place
<1>9. ASSUME wcall'[t] = NULL, wres'[t] = "none", rcall'[t] = NULL, rres'[t] = "none"
      PROVE  Place(t)'
  BY <1>9, <1>1, <1>4, <1>6, <1>8 DEF Place
<1>10. CASE rres[t] # "none" /\ Map!GetReturn(t) /\ CHECK(rres[t] = key[t])
  <2>1. rcall[t] # NULL /\ op(t) = "get"
    BY <1>10, <1>0 DEF ThreadInv, Place
  <2>2. wcall[t] = NULL /\ wres[t] = "none" BY <2>1, <1>0 DEF ThreadInv, Place
  <2>3. /\ UNCHANGED <<wcall, wres>>
        /\ rcall' \in [Threads -> Keys \cup {NULL}] /\ rcall'[t] = NULL
        /\ rres' \in [Threads -> Results] /\ rres'[t] = "none"
        /\ current' \in [Threads -> SUBSET Results]
        /\ \A u \in Threads \ {t} : rcall'[u] = rcall[u] /\ rres'[u] = rres[u]
                                    /\ current'[u] = current[u]
    BY <1>10, <1>0 DEF Map!GetReturn, HarnessType, Results
  <2>4. HarnessType' BY <2>3, <1>0, <1>1, <1>4 DEF HarnessType
  <2>5. nomem = 0 => rres[t] = key[t]
    BY <2>1, <1>10, <1>0 DEF ThreadInv, GetsKey
  <2>6. Told' /\ NoAlarm' /\ Flags'
    BY <2>5, <1>1, <1>3, <1>5, <1>10, CheckTold
  <2>7. ASSUME NEW u \in Threads
        PROVE  ThreadInv(u)'
    <3>1. CASE u # t
      BY <3>1, <2>3, <1>0, <1>1, <1>4, Undisturbed DEF ThreadInv, GetsKey
    <3>2. CASE u = t
      <4>1. Place(t)' BY <2>2, <2>3, <1>9
      <4>2. GetsKey(t)' BY <2>3 DEF GetsKey
      <4>3. nomem = 0 => OwnKey(t)'
        <5>1. nomem = 0 => map[key[t]] = key[t] BY <2>1, <1>1, Present
        <5> QED BY <5>1, <2>1, <2>2, <2>3, <1>1, <1>4 DEF OwnKey
      <4> QED BY <3>2, <4>1, <4>2, <4>3, <1>1 DEF ThreadInv
    <3> QED BY <3>1, <3>2
  <2>8. MainInv' BY <2>3, <1>1, <1>3, MainKept
  <2> QED BY <2>4, <2>6, <2>7, <2>8, <1>5, <1>7 DEF HarnessInv
<1>11. ASSUME Map!Return(t), op(t) \in {"insert", "remove"}
       PROVE  /\ wres[t] # "none" /\ HarnessType'
              /\ \A u \in Threads : ThreadInv(u)'
              /\ MainInv'
  <2>1. wres[t] # "none" /\ UNCHANGED <<rcall, rres, current>>
    BY <1>11 DEF Map!Return
  <2>2. /\ wcall' \in [Users -> Map!Calls \cup {NULL}] /\ wcall'[t] = NULL
        /\ wres' \in [Users -> Results] /\ wres'[t] = "none"
        /\ \A u \in Users \ {t} : wcall'[u] = wcall[u] /\ wres'[u] = wres[u]
    BY <1>11, <1>0, UserFacts DEF Map!Return, HarnessType, Results
  <2>3. HarnessType' BY <2>1, <2>2, <1>0, <1>1, <1>4 DEF HarnessType
  <2>4. rcall[t] = NULL /\ rres[t] = "none"
    BY <1>11, <1>0 DEF ThreadInv, Place
  <2>5. ASSUME NEW u \in Threads
        PROVE  ThreadInv(u)'
    <3>1. CASE u # t
      BY <3>1, <2>1, <2>2, <1>0, <1>1, <1>4, UserFacts, Undisturbed DEF ThreadInv, GetsKey
    <3>2. CASE u = t
      <4>1. Place(t)' BY <2>1, <2>2, <2>4, <1>9
      <4>2. GetsKey(t)' BY <2>1, <2>4 DEF GetsKey
      <4>3. nomem = 0 => OwnKey(t)'
        <5>1. op(t) = "insert" /\ nomem = 0 => map[key[t]] = key[t]
          BY <2>1, <1>0, <1>1, <1>2 DEF ThreadInv, OwnKey
        <5>2. CASE op(t) = "insert" BY <5>1, <5>2, <2>2, <1>1, <1>4 DEF OwnKey
        <5>3. CASE op(t) = "remove" BY <5>3, <1>4 DEF OwnKey
        <5> QED BY <5>2, <5>3, <1>11
      <4> QED BY <3>2, <4>1, <4>2, <4>3, <1>1 DEF ThreadInv
    <3> QED BY <3>1, <3>2
  <2>6. MainInv' BY <2>2, <1>1, <1>3, UserFacts, MainKept
  <2> QED BY <2>1, <2>3, <2>5, <2>6
<1>12. CASE op(t) = "insert" /\ Map!Return(t) /\ CHECK(TRUE)
  <2>1. Told' /\ NoAlarm' /\ Flags'
    BY <1>1, <1>3, <1>5, <1>12, CheckTold
  <2> QED BY <2>1, <1>5, <1>7, <1>11, <1>12 DEF HarnessInv
<1>13. CASE op(t) = "remove" /\ Map!Return(t) /\ CHECK(wres[t] = key[t])
  <2>1. nomem = 0 => wres[t] = key[t]
    BY <1>13, <1>11, <1>0, <1>1, <1>2 DEF ThreadInv, OwnKey
  <2>2. Told' /\ NoAlarm' /\ Flags'
    BY <2>1, <1>1, <1>3, <1>5, <1>13, CheckTold
  <2> QED BY <2>2, <1>5, <1>7, <1>11, <1>13 DEF HarnessInv
<1> QED BY <1>10, <1>12, <1>13 DEF Finish
\* find_le in the test with one key finds that key, or nothing.
LEMMA FindLeChecks ==
    ASSUME HarnessInv, NEW t \in Threads, at[t] > 0, op(t) = "find_le", Body(t) = "le1",
           nomem = 0
    PROVE  find_le(key[t]) = IF Rank(key[t]) < Rank(K) THEN NULL ELSE K
<1>1. at[t] # Gone BY OpFacts
<1>2. /\ mpc \in {"create", "join"} /\ InTest /\ test \in 1 .. 10
      /\ nproc \in 1 .. MaxProcs /\ t <= ntr + ntw
  BY <1>1, Running
<1>3. Now.rthread = "le1" /\ Now.spreload = 1
  BY <1>2, BodyFacts, TestFacts
<1>4. map[K] = K /\ \A k \in Keys : map[k] # NULL => k = K
  <2>1. \A k \in Keys : map[k] # NULL => k = K
    BY <1>2, <1>3 DEF HarnessInv, OnlyK
  <2>2. 1 \in 1 .. Len(Preload) /\ Preload[1] = K
    BY <1>2, <1>3, PreloadFacts
  <2>3. Loaded(1) BY <1>2, <2>2 DEF HarnessInv, MainInv
  <2> QED BY <2>1, <2>2, <2>3 DEF Loaded
<1>5. ASSUME NEW k \in Keys
      PROVE  /\ Rank(k) \in DOMAIN Order /\ Order[Rank(k)] = k
             /\ Rank(k) \in Nat \ {0} /\ Rank(k) <= Len(Order)
  <2>1. \E j \in DOMAIN Order : Order[j] = k BY DEF Keys
  <2>2. Rank(k) \in DOMAIN Order /\ Order[Rank(k)] = k BY <2>1 DEF Rank
  <2>3. DOMAIN Order = 1 .. Len(Order) /\ Len(Order) \in Nat BY HarnessAssumption
  <2> QED BY <2>2, <2>3
<1>6. key[t] \in Keys /\ K \in Keys /\ K # NULL
  BY KeyFacts DEF HarnessInv, HarnessType
<1> DEFINE y == key[t]
           below == {j \in 1 .. Rank(y) : map[Order[j]] # NULL}
<1>7. Rank(y) \in Nat /\ Rank(K) \in Nat /\ Rank(K) >= 1 /\ Order[Rank(K)] = K
  BY <1>5, <1>6
<1>8. \A j \in 1 .. Rank(y) : j \in DOMAIN Order /\ Order[j] \in Keys
  <2>1. Rank(y) <= Len(Order) /\ Rank(y) \in Nat BY <1>5, <1>6
  <2>2. DOMAIN Order = 1 .. Len(Order) /\ Len(Order) \in Nat BY HarnessAssumption
  <2> QED BY <2>1, <2>2 DEF Keys
<1>9. \A j \in 1 .. Rank(y) : map[Order[j]] # NULL <=> j = Rank(K)
  <2> SUFFICES ASSUME NEW j \in 1 .. Rank(y)
               PROVE  map[Order[j]] # NULL <=> j = Rank(K)
    OBVIOUS
  <2>1. map[Order[j]] # NULL => Order[j] = K BY <1>4, <1>8
  <2>2. Order[j] = K => j = Rank(K)
    BY <1>5, <1>6, <1>8, HarnessAssumption
  <2>3. j = Rank(K) => map[Order[j]] # NULL BY <1>4, <1>6, <1>7
  <2> QED BY <2>1, <2>2, <2>3
<1>10. CASE Rank(y) < Rank(K)
  <2>1. below = {} BY <1>7, <1>9, <1>10
  <2> QED BY <2>1, <1>10 DEF find_le
<1>11. CASE ~(Rank(y) < Rank(K))
  <2>1. Rank(K) \in 1 .. Rank(y) BY <1>7, <1>11
  <2>2. below = {Rank(K)} BY <2>1, <1>9
  <2>3. (CHOOSE j \in below : \A m \in below : m <= j) = Rank(K)
    BY <2>2, <1>7
  <2>4. below # {} BY <2>2
  <2> HIDE DEF below
  <2>5. find_le(y) = map[Order[CHOOSE j \in below : \A m \in below : m <= j]]
    BY <2>4 DEF find_le, below
  <2> QED BY <2>3, <2>5, <1>4, <1>7, <1>11
<1> QED BY <1>10, <1>11

LEMMA FindLeStep ==
    ASSUME HarnessInv, NEW t \in Threads, FindLe(t), UNCHANGED nproc
    PROVE  HarnessInv'
<1>0. /\ HarnessType /\ Flags /\ Told /\ NoAlarm /\ OnlyK
      /\ \A u \in Threads : ThreadInv(u)
  BY DEF HarnessInv
<1> DEFINE ok == Body(t) = "le1" =>
                    find_le(key[t]) = IF Rank(key[t]) < Rank(K) THEN NULL ELSE K
<1>1. /\ at[t] > 0 /\ Advance(t) /\ op(t) = "find_le"
      /\ UNCHANGED <<map, wcall, wres, rcall, rres, current, done, any_bad, mpc, test,
                     hm, n, key, nomem, nproc>>
      /\ CHECK(ok)
  BY DEF FindLe, dict, main
<1>2. at[t] # Gone BY <1>1, OpFacts
<1>3. mpc \in {"create", "join"} /\ InTest BY <1>2, Running
<1>4. /\ at' \in [Threads -> Int] /\ \A u \in Threads \ {t} : at'[u] = at[u]
      /\ at'[t] \in 0 .. Len(Calls(Body(t))) /\ at'[t] = 0
  BY <1>1, AdvanceFacts
<1>5. Phase' /\ InTest' /\ Now' = Now BY <1>1, <1>2, <1>3, <1>4, PhaseKept, Same
<1>6. HarnessType' BY <1>0, <1>1, <1>4 DEF HarnessType
<1>7. nomem = 0 => ok BY <1>1, FindLeChecks
<1>8. ok \in BOOLEAN OBVIOUS
<1>9. Told' /\ NoAlarm' /\ Flags'
  <2> HIDE DEF ok
  <2> QED BY <1>1, <1>3, <1>5, <1>7, <1>8, CheckTold
<1>10. ASSUME NEW u \in Threads
       PROVE  ThreadInv(u)'
  <2>1. CASE u # t
    BY <2>1, <1>0, <1>1, <1>4, Undisturbed DEF ThreadInv, GetsKey
  <2>2. CASE u = t
    <3>1. wcall[t] = NULL /\ rcall[t] = NULL /\ wres[t] = "none" /\ rres[t] = "none"
      BY <1>0, <1>1 DEF ThreadInv, Place
    <3>2. Body(t)' = Body(t) BY <1>1, Same
    <3>3. Place(t)' BY <3>1, <3>2, <1>1, <1>4 DEF Place
    <3>4. OwnKey(t)' /\ GetsKey(t)' BY <3>1, <1>1, <1>4 DEF OwnKey, GetsKey
    <3> QED BY <2>2, <3>3, <3>4 DEF ThreadInv
  <2> QED BY <2>1, <2>2
<1>11. MainInv' BY <1>1, <1>3, MainKept
<1>12. OnlyK' BY <1>0, <1>1, <1>3, <1>5 DEF OnlyK
<1> QED BY <1>5, <1>6, <1>9, <1>10, <1>11, <1>12 DEF HarnessInv
-----------------------------------------------------------------------------
(* What happens inside the dictionary.                                     *)

LEMMA ObserveFacts ==
    ASSUME HarnessType, Map!Observe, map' \in [Keys -> Keys \cup {NULL}]
    PROVE  /\ current' \in [Threads -> SUBSET Results]
           /\ \A u \in Threads : rcall[u] # NULL =>
                 current'[u] = current[u] \cup {map'[rcall[u]]}
<1>1. current' = [r \in Threads |->
                    IF rcall[r] = NULL THEN {} ELSE current[r] \cup {map'[rcall[r]]}]
  BY DEF Map!Observe
<1>2. \A u \in Threads : rcall[u] # NULL => map'[rcall[u]] \in Results
  BY DEF HarnessType, Results
<1>3. \A u \in Threads : current[u] \in SUBSET Results
  BY DEF HarnessType
<1> QED BY <1>1, <1>2, <1>3

\* A thread's insert or remove takes effect: only its own key changes.
LEMMA EffectStep ==
    ASSUME HarnessInv, NEW t \in Threads, wcall[t] # NULL, wres[t] = "none",
           NEW v \in Keys \cup {NULL}, map' = [map EXCEPT ![key[t]] = v],
           NEW r \in Results, wres' = [wres EXCEPT ![t] = r],
           Map!Observe, nomem' \in Nat, nomem' >= nomem,
           nomem' = 0 => \/ op(t) = "insert" /\ v = key[t]
                         \/ op(t) = "remove" /\ r = key[t],
           UNCHANGED <<wcall, rcall, rres, done, bad, any_bad, mpc, test, hm, n,
                       at, key, alarm, nproc>>
    PROVE  HarnessInv'
<1>0. /\ HarnessType /\ Flags /\ Told /\ NoAlarm /\ OnlyK
      /\ \A u \in Threads : ThreadInv(u)
      /\ nomem \in Nat
  BY DEF HarnessInv, HarnessType
<1>1. /\ at[t] > 0 /\ op(t) \in {"insert", "remove"} /\ rcall[t] = NULL
      /\ key[t] \in RoundKeys(t) /\ key[t] \in Keys
  BY <1>0 DEF ThreadInv, Place, HarnessType
<1>2. at[t] # Gone /\ Body(t) \in Writing BY <1>1, OpFacts
<1>3. /\ mpc \in {"create", "join"} /\ InTest /\ test \in 1 .. 10
      /\ nproc \in 1 .. MaxProcs /\ t <= ntr + ntw
  BY <1>2, Running
<1>4. key[t] \in w1000[t] BY <1>1, <1>2, <1>3, BodyFacts
<1>5. /\ map' \in [Keys -> Keys \cup {NULL}] /\ map'[key[t]] = v
      /\ \A k \in Keys : k # key[t] => map'[k] = map[k]
      /\ wres' \in [Users -> Results] /\ wres'[t] = r
      /\ \A u \in Users \ {t} : wres'[u] = wres[u]
  BY <1>0, <1>1, UserFacts DEF HarnessType
<1>6. /\ current' \in [Threads -> SUBSET Results]
      /\ \A u \in Threads : rcall[u] # NULL =>
            current'[u] = current[u] \cup {map'[rcall[u]]}
  BY <1>0, <1>5, ObserveFacts
<1>7. HarnessType' BY <1>0, <1>5, <1>6 DEF HarnessType
<1>8. Phase' /\ InTest' = InTest BY <1>2, PhaseKept
<1>9. nomem' = 0 => nomem = 0 BY <1>0
<1>10. \A k \in Preloadable : map'[k] = map[k]
  BY <1>4, <1>5, KeyFacts
<1>11. MainInv'
  <2>1. wres'[Main] = wres[Main] BY <1>5, UserFacts
  <2> QED BY <2>1, <1>3, <1>9, <1>10, MainKept
<1>12. ASSUME NEW u \in Threads, u # t
       PROVE  ThreadInv(u)'
  <2>1. key[u] \in Keys BY <1>0 DEF HarnessType
  <2>2. at[u] > 0 /\ Body(u) \in Writing => map'[key[u]] = map[key[u]]
    <3> SUFFICES ASSUME at[u] > 0, Body(u) \in Writing
                 PROVE  map'[key[u]] = map[key[u]]
      OBVIOUS
    <3>1. at[u] # Gone BY OpFacts
    <3>2. u <= ntr + ntw BY <3>1, Running
    <3>3. key[u] \in RoundKeys(u) BY <1>0 DEF ThreadInv, Place
    <3>4. key[u] \in w1000[u] BY <3>2, <3>3, <1>3, BodyFacts
    <3> QED BY <3>4, <2>1, <1>4, <1>5, <1>12, KeyFacts
  <2>3. nomem = 0 /\ rcall[u] # NULL => current'[u] \subseteq {key[u]}
    <3> SUFFICES ASSUME nomem = 0, rcall[u] # NULL
                 PROVE  current'[u] \subseteq {key[u]}
      OBVIOUS
    <3>1. at[u] > 0 /\ op(u) = "get" /\ rcall[u] = key[u] BY <1>0 DEF ThreadInv, Place
    <3>2. /\ map[key[u]] = key[u]
          /\ key[u] \in Preloadable \/ key[u] \in w1000[u]
      BY <3>1, Present
    <3>3. map'[key[u]] = key[u] BY <3>2, <2>1, <1>4, <1>5, <1>12, KeyFacts
    <3>4. current[u] \subseteq {key[u]} BY <1>0 DEF ThreadInv, GetsKey
    <3> QED BY <3>1, <3>3, <3>4, <1>6
  <2>4. wres'[u] = wres[u] BY <1>5, <1>12, UserFacts
  <2> QED BY <2>2, <2>3, <2>4, <1>0, <1>9, Undisturbed
<1>13. ThreadInv(t)'
  <2>1. Body(t)' = Body(t) /\ RoundKeys(t)' = RoundKeys(t) BY Same
  <2>2. op(t)' = op(t) BY <2>1 DEF op
  <2>3. Place(t)' BY <2>1, <2>2, <1>0 DEF ThreadInv, Place
  <2>4. GetsKey(t)' BY <1>1 DEF GetsKey
  <2>5. nomem' = 0 => OwnKey(t)'
    <3>1. nomem' = 0 /\ op(t) = "remove" => r # "none" /\ r = key[t]
      BY <1>1, KeyFacts
    <3>2. nomem' = 0 /\ op(t) = "insert" => map'[key[t]] = key[t]
      BY <1>5
    <3> QED BY <2>1, <2>2, <3>1, <3>2, <1>1, <1>5 DEF OwnKey
  <2> QED BY <2>3, <2>4, <2>5 DEF ThreadInv
<1>14. OnlyK'
  <2>1. Now.rthread # "le1"
    <3>1. Now.rthread = "le1" => ~Mixed BY <1>3, TestFacts
    <3>2. ~Mixed => ntw = 0 BY <1>3, CountFacts
    <3>3. ntr \in Nat /\ t \in Nat BY <1>3, CountFacts, UserFacts
    <3>4. Now.rthread = "le1" => Body(t) = "le1"
      BY <3>1, <3>2, <3>3, <1>3 DEF Body
    <3> QED BY <3>4, <1>2 DEF Writing
  <2>2. Now' = Now BY Same
  <2> QED BY <2>1, <2>2 DEF OnlyK
<1>15. Told' /\ NoAlarm' /\ Flags'
  BY <1>0, <1>8 DEF Told, NoAlarm, Flags
<1> QED BY <1>7, <1>8, <1>11, <1>12, <1>13, <1>14, <1>15 DEF HarnessInv

\* main's insert takes effect: there are no threads yet.
LEMMA MainEffectStep ==
    ASSUME HarnessInv, wcall[Main] # NULL, wres[Main] = "none",
           NEW v \in Keys \cup {NULL}, map' = [map EXCEPT ![Preload[n]] = v],
           NEW r \in Results, wres' = [wres EXCEPT ![Main] = r],
           Map!Observe, nomem' \in Nat, nomem' >= nomem,
           v = Preload[n] \/ v = map[Preload[n]],
           nomem' = 0 => v = Preload[n],
           UNCHANGED <<wcall, rcall, rres, done, bad, any_bad, mpc, test, hm, n,
                       at, key, alarm, nproc>>
    PROVE  HarnessInv'
<1>0. /\ HarnessType /\ Flags /\ Told /\ NoAlarm /\ OnlyK /\ Phase /\ MainInv
      /\ \A u \in Threads : ThreadInv(u)
      /\ nomem \in Nat /\ n \in Nat \ {0}
  BY DEF HarnessInv, HarnessType
<1>1. mpc = "preload" /\ n <= Len(Preload) /\ test \in 1 .. 10
  BY <1>0 DEF MainInv, Phase, InTest, HarnessType
<1>2. /\ Len(Preload) \in Nat /\ n \in 1 .. Len(Preload)
      /\ \A j \in 1 .. Len(Preload) : Preload[j] \in Keys
      /\ Now.rthread = "le1" => Preload[n] = K
  BY <1>0, <1>1, PreloadFacts, KeyFacts
<1>3. /\ map' \in [Keys -> Keys \cup {NULL}] /\ map'[Preload[n]] = v
      /\ \A k \in Keys : k # Preload[n] => map'[k] = map[k]
      /\ wres' \in [Users -> Results]
      /\ \A u \in Threads : wres'[u] = wres[u]
  BY <1>0, <1>2, UserFacts DEF HarnessType
<1>4. current' \in [Threads -> SUBSET Results] BY <1>0, <1>3, ObserveFacts
<1>5. HarnessType' BY <1>0, <1>3, <1>4 DEF HarnessType
<1>6. ntr' = ntr /\ ntw' = ntw /\ Preload' = Preload /\ Now' = Now BY Same
<1>7. Phase' /\ InTest' = InTest BY <1>0, <1>6 DEF Phase, InTest
<1>8. nomem' = 0 => nomem = 0 BY <1>0
<1>9. ASSUME NEW u \in Threads
      PROVE  ThreadInv(u)'
  <2>1. at[u] = Gone /\ ~(at[u] > 0) BY <1>0, <1>1 DEF Phase, Gone
  <2>2. rcall[u] = NULL BY <2>1, <1>0 DEF ThreadInv, Place
  <2> QED BY <2>1, <2>2, <1>0, <1>3, <1>8, Undisturbed
<1>10. MainInv'
  <2>1. ASSUME nomem' = 0, NEW j \in 1 .. Len(Preload), Loaded(j) \/ j = n
        PROVE  Loaded(j)'
    BY <2>1, <1>2, <1>3, <1>6 DEF Loaded
  <2>2. nomem' = 0 => Loaded(n)' BY <2>1, <1>2
  <2> QED BY <2>1, <2>2, <1>0, <1>1, <1>6, <1>8 DEF MainInv
<1>11. OnlyK'
  BY <1>0, <1>2, <1>3, <1>6, <1>7 DEF OnlyK
<1>12. Told' /\ NoAlarm' /\ Flags'
  BY <1>0, <1>7 DEF Told, NoAlarm, Flags
<1> QED BY <1>5, <1>7, <1>9, <1>10, <1>11, <1>12 DEF HarnessInv

LEMMA GetResultStep ==
    ASSUME HarnessInv, NEW t \in Threads, Map!GetResult(t),
           UNCHANGED <<done, bad, any_bad, mpc, test, hm, n, at, key, nomem, alarm, nproc>>
    PROVE  HarnessInv'
<1>0. /\ HarnessType /\ Flags /\ Told /\ NoAlarm /\ OnlyK
      /\ \A u \in Threads : ThreadInv(u)
  BY DEF HarnessInv
<1>1. rcall[t] # NULL /\ UNCHANGED <<map, wcall, wres, rcall, current>>
  BY DEF Map!GetResult
<1>2. PICK v \in current[t] : rres' = [rres EXCEPT ![t] = v] BY DEF Map!GetResult
<1>3. at[t] > 0 BY <1>0, <1>1 DEF ThreadInv, Place
<1>4. at[t] # Gone BY <1>3, OpFacts
<1>5. mpc \in {"create", "join"} BY <1>4, Running
<1>6. /\ rres' \in [Threads -> Results] /\ rres'[t] = v
      /\ \A u \in Threads \ {t} : rres'[u] = rres[u]
  BY <1>0, <1>2 DEF HarnessType
<1>7. HarnessType' BY <1>0, <1>1, <1>6 DEF HarnessType
<1>8. Phase' /\ InTest' = InTest BY <1>4, PhaseKept
<1>9. MainInv' BY <1>1, <1>5, MainKept
<1>10. ASSUME NEW u \in Threads
       PROVE  ThreadInv(u)'
  <2>1. CASE u # t
    BY <2>1, <1>0, <1>1, <1>6, Undisturbed DEF ThreadInv, GetsKey
  <2>2. CASE u = t
    <3>1. Body(t)' = Body(t) /\ RoundKeys(t)' = RoundKeys(t) BY Same
    <3>2. op(t)' = op(t) BY <3>1 DEF op
    <3>3. Place(t)' BY <3>1, <3>2, <1>0, <1>1 DEF ThreadInv, Place
    <3>4. nomem = 0 => OwnKey(t)' BY <3>1, <3>2, <1>0, <1>1 DEF ThreadInv, OwnKey
    <3>5. nomem = 0 => GetsKey(t)' BY <1>0, <1>1, <1>6 DEF ThreadInv, GetsKey
    <3> QED BY <2>2, <3>3, <3>4, <3>5 DEF ThreadInv
  <2> QED BY <2>1, <2>2
<1>11. OnlyK' BY <1>0, <1>1, <1>8, Same DEF OnlyK
<1>12. Told' /\ NoAlarm' /\ Flags'
  BY <1>0, <1>8 DEF Told, NoAlarm, Flags
<1> QED BY <1>7, <1>8, <1>9, <1>10, <1>11, <1>12 DEF HarnessInv
LEMMA DictionaryStep ==
    ASSUME HarnessInv, NEW t \in Users, Dictionary(t), UNCHANGED nproc
    PROVE  HarnessInv'
<1>0. /\ UNCHANGED <<done, bad, any_bad, mpc, test, hm, n, at, key, alarm, nproc>>
      /\ Inside(t)
  BY DEF Dictionary, main
<1>1. HarnessType /\ MainInv /\ (\A u \in Threads : ThreadInv(u)) /\ nomem \in Nat
  BY DEF HarnessInv, HarnessType
<1>2. CASE t \in Threads /\ Map!GetResult(t) /\ UNCHANGED nomem
  BY <1>0, <1>2, GetResultStep
<1>3. ASSUME \/ Map!InsertNew(t) /\ nomem' = nomem
             \/ Map!Remove(t) /\ nomem' = nomem
             \/ Map!InsertNoMemory(t) /\ nomem' = nomem + 1
      PROVE  HarnessInv'
  <2>1. /\ wcall[t] # NULL /\ wres[t] = "none" /\ Map!Observe
        /\ UNCHANGED <<wcall, rcall, rres>>
        /\ nomem' \in Nat /\ nomem' >= nomem
    BY <1>1, <1>3 DEF Map!InsertNew, Map!Remove, Map!InsertNoMemory, Map!Effect
  <2>2. /\ Map!InsertNew(t) => /\ wcall[t].op = "insert"
                               /\ map' = [map EXCEPT ![wcall[t].key] = wcall[t].value]
                               /\ wres' = [wres EXCEPT ![t] = "0"]
        /\ Map!Remove(t) => /\ wcall[t].op = "remove"
                            /\ map' = [map EXCEPT ![wcall[t].key] = NULL]
                            /\ wres' = [wres EXCEPT ![t] = map[wcall[t].key]]
        /\ Map!InsertNoMemory(t) => /\ wcall[t].op = "insert" /\ map' = map
                                    /\ wres' = [wres EXCEPT ![t] = "ENOMEM"]
    BY DEF Map!InsertNew, Map!Remove, Map!InsertNoMemory, Map!Effect, Map!With
  <2>3. CASE t \in Threads
    <3>1. /\ wcall[t] = CallOf(op(t), key[t]) /\ op(t) \in {"insert", "remove"}
          /\ key[t] \in Keys /\ at[t] > 0
      BY <2>1, <2>3, <1>1 DEF ThreadInv, Place, HarnessType
    <3>2. /\ wcall[t].op = op(t) /\ wcall[t].key = key[t]
          /\ op(t) = "insert" => wcall[t].value = key[t]
      BY <3>1 DEF CallOf
    <3>3. map \in [Keys -> Keys \cup {NULL}] BY <1>1 DEF HarnessType
    <3>4. CASE Map!InsertNew(t) /\ nomem' = nomem
      <4>1. /\ map' = [map EXCEPT ![key[t]] = key[t]]
            /\ wres' = [wres EXCEPT ![t] = "0"] /\ op(t) = "insert"
            /\ key[t] \in Keys \cup {NULL} /\ "0" \in Results
        BY <2>2, <3>1, <3>2, <3>4 DEF Results
      <4> QED BY <4>1, <2>1, <2>3, <1>0, EffectStep
    <3>5. CASE Map!Remove(t) /\ nomem' = nomem
      <4>1. /\ map' = [map EXCEPT ![key[t]] = NULL] /\ NULL \in Keys \cup {NULL}
            /\ wres' = [wres EXCEPT ![t] = map[key[t]]] /\ op(t) = "remove"
            /\ map[key[t]] \in Results
        BY <2>2, <3>1, <3>2, <3>3, <3>5 DEF Results
      <4>2. at[t] > 0 /\ Body(t) \in Writing BY <2>3, <3>1, <4>1, OpFacts
      <4>3. nomem = 0 => map[key[t]] = key[t]
        BY <4>1, <4>2, <2>1, <2>3, <1>1 DEF ThreadInv, OwnKey
      <4> QED BY <4>1, <4>3, <3>5, <2>1, <2>3, <1>0, EffectStep
    <3>6. CASE Map!InsertNoMemory(t) /\ nomem' = nomem + 1
      <4>1. /\ map' = [map EXCEPT ![key[t]] = map[key[t]]]
            /\ map[key[t]] \in Keys \cup {NULL} /\ "ENOMEM" \in Results
            /\ wres' = [wres EXCEPT ![t] = "ENOMEM"] /\ nomem' # 0
        BY <2>2, <3>1, <3>3, <3>6, <1>1 DEF Results
      <4> QED BY <4>1, <2>1, <2>3, <1>0, EffectStep
    <3> QED BY <1>3, <3>4, <3>5, <3>6
  <2>4. CASE t = Main
    <3>1. wcall[Main] = CallOf("insert", Preload[n]) /\ n <= Len(Preload) /\ mpc = "preload"
      BY <2>1, <2>4, <1>1 DEF MainInv
    <3>2. /\ wcall[Main].op = "insert" /\ wcall[Main].key = Preload[n]
          /\ wcall[Main].value = Preload[n]
      BY <3>1 DEF CallOf
    <3>3. test \in 1 .. 10 /\ n \in Nat \ {0}
      BY <3>1 DEF HarnessInv, HarnessType, Phase, InTest
    <3>4. Preload[n] \in Keys
      BY <3>1, <3>3, PreloadFacts, KeyFacts
    <3>5. map \in [Keys -> Keys \cup {NULL}] BY <1>1 DEF HarnessType
    <3>6. CASE Map!InsertNew(t) /\ nomem' = nomem
      <4>1. /\ map' = [map EXCEPT ![Preload[n]] = Preload[n]]
            /\ wres' = [wres EXCEPT ![Main] = "0"]
            /\ Preload[n] \in Keys \cup {NULL} /\ "0" \in Results
        BY <2>2, <2>4, <3>2, <3>4, <3>6 DEF Results
      <4> QED BY <4>1, <2>1, <2>4, <1>0, MainEffectStep
    <3>7. CASE Map!InsertNoMemory(t) /\ nomem' = nomem + 1
      <4>1. /\ map' = [map EXCEPT ![Preload[n]] = map[Preload[n]]]
            /\ map[Preload[n]] \in Keys \cup {NULL} /\ "ENOMEM" \in Results
            /\ wres' = [wres EXCEPT ![Main] = "ENOMEM"] /\ nomem' # 0
        BY <2>2, <2>4, <3>4, <3>5, <3>7, <1>1 DEF Results
      <4> QED BY <4>1, <2>1, <2>4, <1>0, MainEffectStep
    <3>8. ~Map!Remove(t) BY <2>2, <2>4, <3>2
    <3> QED BY <1>3, <3>6, <3>7, <3>8
  <2> QED BY <2>3, <2>4 DEF Users
<1> QED BY <1>0, <1>2, <1>3 DEF Inside

-----------------------------------------------------------------------------
(* The steps of main.                                                      *)

\* Steps of main that leave the dictionary and the threads alone.
LEMMA ThreadsKept ==
    ASSUME HarnessInv, UNCHANGED <<test, nproc, at, key, wcall, wres, rcall, rres, current,
                                   map, nomem>>
    PROVE  \A u \in Threads : ThreadInv(u)'
BY Undisturbed DEF HarnessInv, ThreadInv, GetsKey

\* No thread: whatever the next test is, nobody is in it yet.
LEMMA NoThreads ==
    ASSUME HarnessInv, mpc \in {"test", "exit", "preload"},
           UNCHANGED <<at, wcall, wres, rcall, rres>>
    PROVE  /\ \A u \in Threads : at'[u] = Gone /\ wcall[u] = NULL /\ rcall[u] = NULL
           /\ \A u \in Threads : ThreadInv(u)'
<1>1. ASSUME NEW u \in Threads
      PROVE  /\ at[u] = Gone /\ ~(at[u] > 0) /\ wcall[u] = NULL /\ rcall[u] = NULL
             /\ wres[u] = "none" /\ rres[u] = "none"
  BY DEF HarnessInv, Phase, ThreadInv, Place, Gone
<1>2. ASSUME NEW u \in Threads
      PROVE  Place(u)' /\ OwnKey(u)' /\ GetsKey(u)'
  BY <1>1 DEF Place, OwnKey, GetsKey
<1> QED BY <1>1, <1>2 DEF ThreadInv

LEMMA IdleMain ==
    ASSUME HarnessInv, mpc # "preload"
    PROVE  wcall[Main] = NULL /\ wres[Main] = "none"
BY DEF HarnessInv, MainInv

LEMMA ExitStep ==
    ASSUME HarnessInv, Exit, UNCHANGED nproc
    PROVE  HarnessInv'
<1>0. HarnessType /\ Flags /\ Told /\ NoAlarm BY DEF HarnessInv
<1>1. /\ mpc = "test" /\ mpc' = "exit" /\ ~InTest /\ ~InTest'
      /\ UNCHANGED <<map, wcall, wres, rcall, rres, current, done, bad, any_bad, test, hm, n,
                     at, key, nomem, alarm, nproc>>
  BY DEF Exit, dict, InTest
<1>2. HarnessType' BY <1>0, <1>1 DEF HarnessType
<1>3. (\A u \in Threads : at'[u] = Gone) /\ (\A u \in Threads : ThreadInv(u)')
  BY <1>1, NoThreads
<1>4. Phase' BY <1>1, <1>3 DEF Phase
<1>5. MainInv' BY <1>1, IdleMain DEF MainInv
<1>6. OnlyK' BY <1>1 DEF OnlyK
<1>7. Told' /\ NoAlarm' /\ Flags' BY <1>0, <1>1 DEF Told, NoAlarm, Flags
<1> QED BY <1>2, <1>3, <1>4, <1>5, <1>6, <1>7 DEF HarnessInv

LEMMA SkipStep ==
    ASSUME HarnessInv, Skip, UNCHANGED nproc
    PROVE  HarnessInv'
<1>0. HarnessType /\ Flags /\ Told /\ NoAlarm BY DEF HarnessInv
<1>1. /\ mpc = "test" /\ mpc' = "test" /\ ~InTest /\ ~InTest'
      /\ UNCHANGED <<map, wcall, wres, rcall, rres, current, done, bad, any_bad, n,
                     at, key, nomem, alarm, nproc>>
      /\ test' \in {test, test + 1}
  BY DEF Skip, NextDictionary, dict, InTest
<1>2. HarnessType' BY <1>0, <1>1 DEF HarnessType
<1>3. (\A u \in Threads : at'[u] = Gone) /\ (\A u \in Threads : ThreadInv(u)')
  BY <1>1, NoThreads
<1>4. Phase' BY <1>1, <1>3 DEF Phase
<1>5. MainInv' BY <1>1, IdleMain DEF MainInv
<1>6. OnlyK' BY <1>1 DEF OnlyK
<1>7. Told' /\ NoAlarm' /\ Flags' BY <1>0, <1>1 DEF Told, NoAlarm, Flags
<1> QED BY <1>2, <1>3, <1>4, <1>5, <1>6, <1>7 DEF HarnessInv

\* A new dictionary, and bad starts again: what it said is in any_bad.
LEMMA SelectStep ==
    ASSUME HarnessInv, Select, UNCHANGED nproc
    PROVE  HarnessInv'
<1>0. HarnessType /\ Flags /\ Told /\ NoAlarm BY DEF HarnessInv
<1>1. /\ mpc = "test" /\ mpc' = "preload" /\ ~InTest /\ InTest'
      /\ test <= 10 /\ bad' = FALSE /\ n' = 1 /\ nomem' = 0
      /\ map' = [k \in Keys |-> NULL]
      /\ UNCHANGED <<wcall, wres, rcall, rres, current, done, any_bad, test, hm,
                     at, key, alarm, nproc>>
  BY TestCount DEF Select, InTest
<1>2. HarnessType' BY <1>0, <1>1 DEF HarnessType
<1>3. (\A u \in Threads : at'[u] = Gone) /\ (\A u \in Threads : ThreadInv(u)')
  BY <1>1, NoThreads
<1>4. Phase' BY <1>1, <1>3 DEF Phase
<1>5. MainInv'
  <2>1. test' \in 1 .. 10 BY <1>0, <1>1 DEF HarnessType
  <2>2. Len(Preload') \in Nat
    <3>1. test \in 1 .. 10 BY <2>1, <1>1
    <3>2. Len(Preload) \in Nat BY <3>1, PreloadFacts
    <3>3. Preload' = Preload BY <1>1, Same
    <3> QED BY <3>2, <3>3
  <2>3. \A j \in 1 .. Len(Preload') : ~(j < 1) BY <2>2
  <2> QED BY <2>3, <1>1, IdleMain DEF MainInv
<1>6. OnlyK' BY <1>1 DEF OnlyK
<1>7. Told'
  <2>1. alarm = any_bad BY <1>0, <1>1 DEF Told
  <2>2. any_bad \in BOOLEAN BY <1>0 DEF Flags
  <2> QED BY <1>1, <2>1, <2>2 DEF Told
<1>8. NoAlarm' /\ Flags' BY <1>0, <1>1 DEF NoAlarm, Flags
<1> QED BY <1>2, <1>3, <1>4, <1>5, <1>6, <1>7, <1>8 DEF HarnessInv

LEMMA FillStep ==
    ASSUME HarnessInv, Fill, UNCHANGED nproc
    PROVE  HarnessInv'
<1>0. HarnessType /\ Flags /\ Told /\ NoAlarm /\ OnlyK /\ MainInv /\ Phase
  BY DEF HarnessInv
<1>1. /\ mpc = "preload" /\ n <= Len(Preload) /\ InTest /\ InTest'
      /\ UNCHANGED <<map, rcall, rres, current, done, bad, any_bad, mpc, test, hm,
                     at, key, nomem, alarm, nproc>>
  BY DEF Fill, InTest, Map!Call, Map!Return
<1>2. Preload' = Preload /\ Now' = Now BY <1>1, Same
<1>3. ASSUME n' \in Nat \ {0}, \A u \in Threads : wcall'[u] = wcall[u] /\ wres'[u] = wres[u],
             wcall' \in [Users -> Map!Calls \cup {NULL}], wres' \in [Users -> Results],
             MainInv'
      PROVE  HarnessInv'
  <2>1. HarnessType' BY <1>0, <1>1, <1>3 DEF HarnessType
  <2>2. \A u \in Threads : ThreadInv(u)'
    BY <1>1, <1>3, Undisturbed DEF HarnessInv, ThreadInv, GetsKey
  <2>3. Phase' BY <1>0, <1>1, Same DEF Phase
  <2>4. OnlyK' BY <1>0, <1>1, <1>2 DEF OnlyK
  <2>5. Told' /\ NoAlarm' /\ Flags'
    BY <1>0, <1>1 DEF Told, NoAlarm, Flags
  <2> QED BY <2>1, <2>2, <2>3, <2>4, <2>5, <1>3 DEF HarnessInv
<1>4. CASE /\ Map!Call(Main) /\ UNCHANGED n
           /\ wcall'[Main] = [op |-> "insert", key |-> Preload[n], value |-> Preload[n]]
  <2>1. PICK c \in Map!Calls : wcall' = [wcall EXCEPT ![Main] = c]
    BY <1>4 DEF Map!Call
  <2>2. wcall[Main] = NULL /\ UNCHANGED wres BY <1>4 DEF Map!Call
  <2>3. /\ wcall' \in [Users -> Map!Calls \cup {NULL}]
        /\ \A u \in Threads : wcall'[u] = wcall[u]
    BY <2>1, <1>0, UserFacts DEF HarnessType
  <2>4. wcall'[Main] = CallOf("insert", Preload[n]) BY <1>4 DEF CallOf
  <2>5. wres[Main] = "none" BY <2>2, <1>0 DEF MainInv
  <2>6. MainInv' BY <2>2, <2>4, <2>5, <1>0, <1>1, <1>2, <1>4 DEF MainInv, Loaded
  <2> QED BY <2>2, <2>3, <2>6, <1>0, <1>3, <1>4 DEF HarnessType
<1>5. CASE Map!Return(Main) /\ n' = n + 1
  <2>1. wres[Main] # "none" BY <1>5 DEF Map!Return
  <2>2. /\ wcall' \in [Users -> Map!Calls \cup {NULL}] /\ wcall'[Main] = NULL
        /\ wres' \in [Users -> Results] /\ wres'[Main] = "none"
        /\ \A u \in Threads : wcall'[u] = wcall[u] /\ wres'[u] = wres[u]
    BY <1>0, <1>5, UserFacts DEF Map!Return, HarnessType, Results
  <2>3. n \in Nat \ {0} /\ test \in 1 .. 10
    BY <1>0, <1>1 DEF HarnessType, Phase
  <2>4. Len(Preload) \in Nat BY <2>3, PreloadFacts
  <2>5. \A j \in 1 .. Len(Preload) : j < n + 1 <=> j < n \/ j = n BY <2>3, <2>4
  <2>6. MainInv' BY <2>1, <2>2, <2>5, <1>0, <1>1, <1>2, <1>5 DEF MainInv, Loaded
  <2>7. n' \in Nat \ {0} BY <2>3, <1>5
  <2> QED BY <2>2, <2>6, <2>7, <1>3
<1> QED BY <1>4, <1>5 DEF Fill
\* The flags and the dictionary stay, and main goes on inside the test.
LEMMA MainStays ==
    ASSUME HarnessInv, InTest, InTest', HarnessType', Phase', MainInv', done' \in BOOLEAN,
           UNCHANGED <<map, wcall, wres, rcall, rres, current, bad, any_bad, test, hm, key,
                       nomem, alarm, nproc>>,
           \A u \in Threads : ThreadInv(u)'
    PROVE  HarnessInv'
<1>1. Now' = Now BY Same
<1>2. OnlyK' BY <1>1 DEF HarnessInv, OnlyK
<1>3. Told' /\ NoAlarm' /\ Flags'
  BY DEF HarnessInv, Told, NoAlarm, Flags
<1> QED BY <1>2, <1>3 DEF HarnessInv

LEMMA FilledStep ==
    ASSUME HarnessInv, Filled, UNCHANGED nproc
    PROVE  HarnessInv'
<1>0. HarnessType /\ MainInv /\ Phase BY DEF HarnessInv
<1>1. /\ mpc = "preload" /\ n > Len(Preload) /\ done' = FALSE /\ n' = 1 /\ mpc' = "create"
      /\ UNCHANGED <<map, wcall, wres, rcall, rres, current, bad, any_bad, test, hm,
                     at, key, nomem, alarm, nproc>>
      /\ InTest /\ InTest'
  BY DEF Filled, dict, InTest
<1>2. HarnessType' BY <1>0, <1>1 DEF HarnessType
<1>3. \A u \in Threads : ThreadInv(u)' BY <1>1, ThreadsKept
<1>4. /\ ntr' = ntr /\ ntw' = ntw /\ Preload' = Preload
      /\ ntr \in Nat /\ ntw \in Nat /\ test \in 1 .. 10 /\ n \in Nat
  BY <1>0, <1>1, Same, CountFacts DEF HarnessType, Phase
<1>5. Phase' BY <1>0, <1>1, <1>4 DEF Phase
<1>6. wcall[Main] = NULL
  <2>1. Len(Preload) \in Nat BY <1>4, PreloadFacts
  <2>2. ~(n <= Len(Preload)) BY <2>1, <1>1, <1>4
  <2> QED BY <2>2, <1>0 DEF MainInv
<1>7. nomem = 0 => \A j \in 1 .. Len(Preload) : Loaded(j)
  <2>1. Len(Preload) \in Nat BY <1>4, PreloadFacts
  <2>2. \A j \in 1 .. Len(Preload) : j < n BY <2>1, <1>1, <1>4
  <2> QED BY <2>2, <1>0, <1>1 DEF MainInv
<1>8. MainInv' BY <1>0, <1>1, <1>4, <1>6, <1>7 DEF MainInv, Loaded
<1>9. done' \in BOOLEAN BY <1>1
<1> QED BY <1>1, <1>2, <1>3, <1>5, <1>8, <1>9, MainStays

LEMMA CreateStep ==
    ASSUME HarnessInv, Create, UNCHANGED nproc
    PROVE  HarnessInv'
<1>0. HarnessType /\ MainInv /\ Phase /\ (\A u \in Threads : ThreadInv(u))
  BY DEF HarnessInv
<1>1. /\ mpc = "create" /\ n <= ntr + ntw /\ n' = n + 1 /\ at' = [at EXCEPT ![n] = 0]
      /\ UNCHANGED <<map, wcall, wres, rcall, rres, current, done, bad, any_bad, mpc, test, hm,
                     key, nomem, alarm, nproc>>
      /\ InTest /\ InTest'
  BY DEF Create, dict, InTest
<1>2. at' \in [Threads -> Int] /\ \A u \in Threads : at'[u] = IF u = n THEN 0 ELSE at[u]
  <2>1. at \in [Threads -> Int] /\ 0 \in Int BY <1>0 DEF HarnessType
  <2> QED BY <2>1, <1>1
<1>3. HarnessType' BY <1>0, <1>1, <1>2 DEF HarnessType
<1>4. /\ ntr' = ntr /\ ntw' = ntw /\ ntr \in Nat /\ ntw \in Nat /\ n \in Nat
      /\ test \in 1 .. 10 /\ nproc \in 1 .. MaxProcs
  BY <1>0, <1>1, Same, CountFacts DEF HarnessType, Phase, InTest
<1>5. Phase'
  <2>1. \A u \in Threads : at'[u] # Gone => u < n + 1
    <3>1. \A u \in Threads : u \in Nat BY UserFacts
    <3> QED BY <3>1, <1>0, <1>1, <1>2, <1>4 DEF Phase
  <2> QED BY <2>1, <1>0, <1>1, <1>4 DEF Phase, InTest
<1>6. ASSUME NEW u \in Threads
      PROVE  ThreadInv(u)'
  <2>1. CASE u # n
    BY <2>1, <1>0, <1>1, <1>2, Undisturbed DEF ThreadInv, GetsKey
  <2>2. CASE u = n
    <3>1. at[u] = Gone /\ ~(at[u] > 0)
      BY <2>2, <1>0, <1>1, <1>4 DEF Phase, Gone
    <3>2. wcall[u] = NULL /\ rcall[u] = NULL /\ wres[u] = "none" /\ rres[u] = "none"
      BY <3>1, <1>0 DEF ThreadInv, Place
    <3>3. Body(u)' = Body(u) BY <1>1, Same
    <3>4. Len(Calls(Body(u))) \in Nat
      <4>1. Body(u) \in Readings \cup Writing BY <2>2, <1>1, <1>4, BodyFacts
      <4> QED BY <4>1 DEF Calls, Readings, Writing
    <3>5. at'[u] = 0 BY <2>2, <1>2
    <3>6. Place(u)' BY <3>2, <3>3, <3>4, <3>5, <1>1 DEF Place
    <3>7. OwnKey(u)' /\ GetsKey(u)' BY <3>2, <3>5, <1>1 DEF OwnKey, GetsKey
    <3> QED BY <3>6, <3>7 DEF ThreadInv
  <2> QED BY <2>1, <2>2
<1>7. MainInv'
  <2>1. wcall[Main] = NULL /\ wres[Main] = "none" BY <1>1, IdleMain
  <2>2. Preload' = Preload BY <1>1, Same
  <2> QED BY <2>1, <2>2, <1>0, <1>1 DEF MainInv, Loaded
<1>8. done' \in BOOLEAN BY <1>1 DEF HarnessInv, Flags
<1> QED BY <1>1, <1>3, <1>5, <1>6, <1>7, <1>8, MainStays

LEMMA SetDoneStep ==
    ASSUME HarnessInv, SetDone, UNCHANGED nproc
    PROVE  HarnessInv'
<1>0. HarnessType /\ MainInv /\ Phase BY DEF HarnessInv
<1>1. /\ mpc = "create" /\ n > ntr + ntw /\ done' = TRUE /\ n' = 1 /\ mpc' = "join"
      /\ UNCHANGED <<map, wcall, wres, rcall, rres, current, bad, any_bad, test, hm,
                     at, key, nomem, alarm, nproc>>
      /\ InTest /\ InTest'
  BY DEF SetDone, dict, InTest
<1>2. HarnessType' BY <1>0, <1>1 DEF HarnessType
<1>3. \A u \in Threads : ThreadInv(u)' BY <1>1, ThreadsKept
<1>4. /\ ntr' = ntr /\ ntw' = ntw /\ ntr \in Nat /\ ntw \in Nat /\ n \in Nat
      /\ n <= ntr + ntw + 1
  BY <1>0, <1>1, Same, CountFacts DEF HarnessType, Phase
<1>5. Phase'
  <2>1. \A u \in Threads : at'[u] # Gone => 1 <= u /\ u <= ntr + ntw
    <3>1. \A u \in Threads : u \in Nat \ {0} BY UserFacts
    <3> QED BY <3>1, <1>0, <1>1, <1>4 DEF Phase
  <2> QED BY <2>1, <1>0, <1>1, <1>4 DEF Phase, InTest
<1>6. MainInv'
  <2>1. wcall[Main] = NULL /\ wres[Main] = "none" BY <1>1, IdleMain
  <2>2. Preload' = Preload BY <1>1, Same
  <2> QED BY <2>1, <2>2, <1>0, <1>1 DEF MainInv, Loaded
<1>7. done' \in BOOLEAN BY <1>1
<1> QED BY <1>1, <1>2, <1>3, <1>5, <1>6, <1>7, MainStays

LEMMA JoinStep ==
    ASSUME HarnessInv, Join, UNCHANGED nproc
    PROVE  HarnessInv'
<1>0. HarnessType /\ MainInv /\ Phase /\ (\A u \in Threads : ThreadInv(u))
  BY DEF HarnessInv
<1>1. /\ mpc = "join" /\ n <= ntr + ntw /\ at[n] = Ended /\ n' = n + 1
      /\ at' = [at EXCEPT ![n] = Gone]
      /\ UNCHANGED <<map, wcall, wres, rcall, rres, current, done, bad, any_bad, mpc, test, hm,
                     key, nomem, alarm, nproc>>
      /\ InTest /\ InTest'
  BY DEF Join, MustJoin, dict, InTest
<1>2. at' \in [Threads -> Int] /\ \A u \in Threads : at'[u] = IF u = n THEN Gone ELSE at[u]
  <2>1. Gone \in Int BY DEF Gone
  <2> QED BY <2>1, <1>0, <1>1 DEF HarnessType
<1>3. HarnessType' BY <1>0, <1>1, <1>2 DEF HarnessType
<1>4. ntr' = ntr /\ ntw' = ntw /\ ntr \in Nat /\ ntw \in Nat /\ n \in Nat
  BY <1>0, <1>1, Same, CountFacts DEF HarnessType
<1>5. Phase'
  <2>1. \A u \in Threads : at'[u] # Gone => n + 1 <= u /\ u <= ntr + ntw
    <3>1. \A u \in Threads : u \in Nat \ {0} BY UserFacts
    <3> QED BY <3>1, <1>0, <1>1, <1>2, <1>4 DEF Phase
  <2> QED BY <2>1, <1>0, <1>1, <1>4 DEF Phase, InTest
<1>6. ASSUME NEW u \in Threads
      PROVE  ThreadInv(u)'
  <2>1. CASE u # n
    BY <2>1, <1>0, <1>1, <1>2, Undisturbed DEF ThreadInv, GetsKey
  <2>2. CASE u = n
    <3>1. ~(at[u] > 0) BY <2>2, <1>1 DEF Ended
    <3>2. wcall[u] = NULL /\ rcall[u] = NULL /\ wres[u] = "none" /\ rres[u] = "none"
      BY <3>1, <1>0 DEF ThreadInv, Place
    <3>3. at'[u] = Gone /\ ~(at'[u] > 0) BY <2>2, <1>2 DEF Gone
    <3>4. Place(u)' BY <3>2, <3>3, <1>1 DEF Place
    <3>5. OwnKey(u)' /\ GetsKey(u)' BY <3>2, <3>3, <1>1 DEF OwnKey, GetsKey
    <3> QED BY <3>4, <3>5 DEF ThreadInv
  <2> QED BY <2>1, <2>2
<1>7. MainInv'
  <2>1. wcall[Main] = NULL /\ wres[Main] = "none" BY <1>1, IdleMain
  <2>2. Preload' = Preload BY <1>1, Same
  <2> QED BY <2>1, <2>2, <1>0, <1>1 DEF MainInv, Loaded
<1>8. done' \in BOOLEAN BY <1>1 DEF HarnessInv, Flags
<1> QED BY <1>1, <1>3, <1>5, <1>6, <1>7, <1>8, MainStays

\* All threads have been joined when the dictionary is deleted.
LEMMA ReportStep ==
    ASSUME HarnessInv, Report, UNCHANGED nproc
    PROVE  HarnessInv'
<1>0. HarnessType /\ Flags /\ Told /\ NoAlarm /\ Phase /\ (\A u \in Threads : ThreadInv(u))
  BY DEF HarnessInv
<1>1. /\ mpc = "join" /\ ~(n <= ntr + ntw) /\ any_bad' = (any_bad \/ bad)
      /\ mpc' = "test" /\ InTest /\ ~InTest'
      /\ test' \in {test, test + 1}
      /\ UNCHANGED <<map, wcall, wres, rcall, rres, current, done, bad, n,
                     at, key, nomem, alarm, nproc>>
  BY DEF Report, MustJoin, Verdict, NextDictionary, dict, InTest
<1>2. HarnessType' BY <1>0, <1>1 DEF HarnessType
<1>3. ntr \in Nat /\ ntw \in Nat /\ n \in Nat
  BY <1>0, CountFacts DEF HarnessType
<1>4. ASSUME NEW u \in Threads
      PROVE  /\ at[u] = Gone /\ ~(at[u] > 0) /\ wcall[u] = NULL /\ rcall[u] = NULL
             /\ wres[u] = "none" /\ rres[u] = "none"
  <2>1. u \in Nat BY UserFacts
  <2>2. at[u] = Gone BY <2>1, <1>0, <1>1, <1>3 DEF Phase
  <2>3. ~(at[u] > 0) BY <2>2 DEF Gone
  <2> QED BY <2>2, <2>3, <1>0 DEF ThreadInv, Place
<1>5. ASSUME NEW u \in Threads
      PROVE  ThreadInv(u)'
  <2>1. Place(u)' BY <1>1, <1>4 DEF Place
  <2>2. OwnKey(u)' /\ GetsKey(u)' BY <1>1, <1>4 DEF OwnKey, GetsKey
  <2> QED BY <2>1, <2>2 DEF ThreadInv
<1>6. Phase' BY <1>1, <1>4 DEF Phase
<1>7. MainInv' BY <1>1, IdleMain DEF MainInv
<1>8. OnlyK' BY <1>1 DEF OnlyK
<1>9. Told' BY <1>0, <1>1 DEF Told
<1>10. any_bad' \in BOOLEAN BY <1>1
<1>11. NoAlarm' /\ Flags' BY <1>0, <1>1, <1>10 DEF NoAlarm, Flags
<1> QED BY <1>2, <1>5, <1>6, <1>7, <1>8, <1>9, <1>11 DEF HarnessInv

-----------------------------------------------------------------------------
LEMMA HarnessStart ==
    ASSUME Init
    PROVE  HarnessInv
<1>1. /\ map = [k \in Keys |-> NULL]
      /\ wcall = [t \in Users |-> NULL] /\ wres = [t \in Users |-> "none"]
      /\ rcall = [t \in Threads |-> NULL] /\ rres = [t \in Threads |-> "none"]
      /\ current = [t \in Threads |-> {}]
  BY DEF Init, Map!Init, Users
<1>2. /\ nproc \in 1 .. MaxProcs /\ mpc = "test" /\ test = 1 /\ n = 1
      /\ at = [t \in Threads |-> Gone] /\ key = [t \in Threads |-> K] /\ nomem = 0
      /\ done = FALSE /\ bad = FALSE /\ any_bad = FALSE /\ alarm = FALSE
      /\ ~InTest
  BY DEF Init, InTest
<1>3. Gone \in Int /\ ~(Gone > 0) BY DEF Gone
<1>4. HarnessType
  BY <1>1, <1>2, <1>3, KeyFacts DEF HarnessType, Results
<1>5. Phase BY <1>2 DEF Phase
<1>6. ASSUME NEW t \in Threads
      PROVE  ThreadInv(t)
  <2>1. /\ at[t] = Gone /\ ~(at[t] > 0) /\ wcall[t] = NULL /\ rcall[t] = NULL
        /\ wres[t] = "none" /\ rres[t] = "none"
    BY <1>1, <1>2, <1>3, UserFacts
  <2>2. Place(t) BY <2>1 DEF Place
  <2>3. OwnKey(t) /\ GetsKey(t) BY <2>1 DEF OwnKey, GetsKey
  <2> QED BY <2>2, <2>3 DEF ThreadInv
<1>7. MainInv BY <1>1, <1>2, UserFacts DEF MainInv
<1>8. OnlyK BY <1>2 DEF OnlyK
<1>9. Told /\ NoAlarm /\ Flags BY <1>2 DEF Told, NoAlarm, Flags
<1> QED BY <1>4, <1>5, <1>6, <1>7, <1>8, <1>9 DEF HarnessInv

\* A thread finds the key it removes, unless its insert got no memory.
LEMMA CrashStep ==
    ASSUME HarnessInv, NEW t \in Threads, Crash(t)
    PROVE  Killed'
<1>1. /\ wcall[t] # NULL /\ wcall[t].op = "remove" /\ wres[t] = "none"
      /\ map[wcall[t].key] = NULL /\ mpc' = "crash" /\ nomem' = nomem
  BY DEF Crash
<1>2. at[t] > 0 /\ wcall[t] = CallOf(op(t), key[t])
  BY <1>1 DEF HarnessInv, ThreadInv, Place
<1>3. op(t) = "remove" /\ wcall[t].key = key[t] BY <1>1, <1>2 DEF CallOf
<1>4. Body(t) \in Writing BY <1>2, <1>3, OpFacts
<1>5. nomem = 0 => map[key[t]] = key[t]
  BY <1>1, <1>2, <1>3, <1>4 DEF HarnessInv, ThreadInv, OwnKey
<1>6. key[t] \in Keys /\ nomem \in Nat BY DEF HarnessInv, HarnessType
<1>7. nomem # 0 BY <1>1, <1>3, <1>5, <1>6, KeyFacts
<1> QED BY <1>1, <1>6, <1>7 DEF Killed

LEMMA HarnessStep ==
    ASSUME HarnessInv, [Next]_vars
    PROVE  HarnessInv' \/ Killed'
<1>1. CASE Alive /\ MainNext
  <2>1. Main \in Users BY UserFacts
  <2> QED BY <1>1, <2>1, ExitStep, SkipStep, SelectStep, FillStep, FilledStep, CreateStep,
             SetDoneStep, JoinStep, ReportStep, DictionaryStep
          DEF MainNext, MainWork, Alive
<1>2. ASSUME NEW t \in Threads, Alive, thread(t)
      PROVE  HarnessInv' \/ Killed'
  <2>1. t \in Users BY UserFacts
  <2> QED BY <1>2, <2>1, RoundStep, StartStep, FinishStep, FindLeStep, DictionaryStep,
             CrashStep
          DEF thread, Work, Served, Alive
<1>3. CASE UNCHANGED vars
  <2>1. UNCHANGED <<map, wcall, wres, rcall, rres, current, nproc, done, bad, any_bad, mpc,
                    test, hm, n, at, key, nomem, alarm>>
    BY <1>3 DEF vars, dict, main
  <2>2. \A u \in Threads : ThreadInv(u)' BY <2>1, ThreadsKept
  <2>3. HarnessType' BY <2>1 DEF HarnessInv, HarnessType
  <2>4. Now' = Now /\ Preload' = Preload /\ ntr' = ntr /\ ntw' = ntw /\ InTest' = InTest
    BY <2>1, Same DEF InTest
  <2>5. Phase' BY <2>1, <2>4 DEF HarnessInv, Phase
  <2>6. MainInv' BY <2>1, <2>4 DEF HarnessInv, MainInv, Loaded
  <2>7. OnlyK' /\ Told' /\ NoAlarm' /\ Flags'
    BY <2>1, <2>4 DEF HarnessInv, OnlyK, Told, NoAlarm, Flags
  <2> QED BY <2>2, <2>3, <2>5, <2>6, <2>7 DEF HarnessInv
<1> QED BY <1>1, <1>2, <1>3 DEF Next

LEMMA KilledStep ==
    ASSUME Killed, [Next]_vars
    PROVE  Killed'
BY DEF Killed, Next, Alive, vars, main

\* The inductive invariant holds for any number of processors and any keys,
\* until critnib_tag has killed the process for want of memory.
THEOREM HarnessInvariance == Spec => [](HarnessInv \/ Killed)
<1>1. Init => HarnessInv \/ Killed BY HarnessStart
<1>2. (HarnessInv \/ Killed) /\ [Next]_vars => (HarnessInv \/ Killed)'
  BY HarnessStep, KilledStep
<1> QED BY <1>1, <1>2, PTL DEF Spec

\* run_test: on a dictionary that keeps the promises of ConcurrentMap every
\* CHECK passes, and critnib_tag dereferences no NULL, unless an insert of
\* this run got no memory.
THEOREM ChecksPass == Spec => []NoFalseAlarm
<1>1. HarnessInv => NoFalseAlarm
  BY DEF HarnessInv, HarnessType, NoAlarm, NoFalseAlarm
<1>2. Killed => NoFalseAlarm BY DEF Killed, NoFalseAlarm
<1> QED BY <1>1, <1>2, HarnessInvariance, PTL

\* run_test: when hm_delete is called no thread is inside the dictionary.
THEOREM DeleteIsAlone == Spec => []NobodyInside
<1>1. HarnessInv => NobodyInside
  <2> SUFFICES ASSUME HarnessInv, mpc \in {"test", "exit"}
               PROVE  /\ \A t \in Threads : at[t] = Gone
                      /\ \A t \in Threads \cup {Main} : wcall[t] = NULL
                      /\ \A t \in Threads : rcall[t] = NULL
    BY DEF NobodyInside
  <2>1. ASSUME NEW t \in Threads
        PROVE  at[t] = Gone /\ wcall[t] = NULL /\ rcall[t] = NULL
    <3>1. at[t] = Gone BY DEF HarnessInv, Phase
    <3>2. ~(at[t] > 0) BY <3>1 DEF Gone
    <3> QED BY <3>1, <3>2 DEF HarnessInv, ThreadInv, Place
  <2>2. wcall[Main] = NULL BY IdleMain
  <2> QED BY <2>1, <2>2
<1>2. Killed => NobodyInside BY DEF Killed, NobodyInside
<1> QED BY <1>1, <1>2, HarnessInvariance, PTL

\* test, main: the exit status tells whether any CHECK of any run has failed,
\* although every run resets bad.
THEOREM ExitTells == Spec => []VerdictComplete
<1>1. HarnessInv => VerdictComplete
  <2> SUFFICES ASSUME HarnessInv, mpc = "exit"
               PROVE  any_bad = alarm
    BY DEF VerdictComplete
  <2>1. ~InTest BY DEF InTest
  <2> QED BY <2>1 DEF HarnessInv, Told
<1>2. Killed => VerdictComplete BY DEF Killed, VerdictComplete
<1> QED BY <1>1, <1>2, HarnessInvariance, PTL
=============================================================================
