------------------------------- MODULE Corr1 -------------------------------
(***************************************************************************)
(* 1corr.c: sequential tests of each dictionary.  A test is a sequence of  *)
(* rounds, the turns of its loops; a round is a sequence of calls, most of *)
(* them with the result a CHECK expects, and may use a random number.  The *)
(* first CHECK that fails ends the program.                                *)
(***************************************************************************)
EXTENDS Hm, Sequences

CONSTANTS
    MAX,      \* turns of the counting loops (1000 and 1048576 in the code)
    RANDOM,   \* turns of the loops on random numbers (1000000 and 1024)
    QUERIES,  \* find_le's per turn of test_le_brute (1024)
    HALF,     \* half the bits of a word (32)
    ws16,     \* the random numbers of test_le_brute (0 .. 65535)
    MaxLost   \* bound: inserts of a test that get no memory

ASSUME Corr1Assumption == /\ {MAX, RANDOM, QUERIES, HALF} \subseteq Nat \ {0}
                          /\ ws16 \subseteq Nat
                          /\ MaxLost \in Nat

VARIABLES
    tst, dic,    \* the test and the dictionary of run_test
    round, v,    \* the turn of the test's loops, its random number
    todo,        \* the calls this turn has still to make
    d,           \* the dictionary; <<>> is an empty one
    ws,          \* test_le_brute: what has been inserted
    status,      \* "new" before hm_new, "run", and how the program ended
    lost         \* auxiliary: the inserts of the test that got no memory

corrvars == <<tst, dic, round, v, todo, d, ws, status, lost>>

-----------------------------------------------------------------------------
(* The tests.                                                              *)

Any == -2   \* a result that is not looked at

Insert(k, x) == [op |-> "insert", key |-> k, val |-> x]
Get(k, x)    == [op |-> "get", key |-> k, val |-> x]
Remove(k, x) == [op |-> "remove", key |-> k, val |-> x]
Le(k, x)     == [op |-> "find_le", key |-> k, val |-> x]

test_smoke == <<Insert(123, 456), Get(123, 456), Get(124, 0)>>

test_key0 == <<Insert(1, 1), Insert(0, 2), Insert(65536, 3), Get(1, 1), Remove(1, 1),
               Get(0, 2), Remove(0, 2), Get(65536, 3), Remove(65536, 3)>>

test_1to1000(i) == IF i < MAX THEN <<Insert(i, i)>> ELSE <<Get(i - MAX, i - MAX)>>

test_insert_delete1M(i) == <<Get(i, 0), Insert(i, i), Get(i, i), Remove(i, i), Get(i, 0)>>

test_insert_bulk_delete1M(i) ==
    IF i < MAX THEN <<Get(i, 0), Insert(i, i), Get(i, i)>>
    ELSE LET k == i - MAX IN <<Get(k, k), Remove(k, k), Get(k, 0)>>

All1s == 2^(2*HALF) - 1

\* The edges of half a word and of a word; the value is ~key.
vals == <<0, 2^(HALF-1) - 1, 2^(HALF-1), 2^HALF - 1,
          2^(2*HALF-1) - 1, 2^(2*HALF-1), All1s>>

test_ffffffff_and_friends(i) ==
    LET k == vals[(i % Len(vals)) + 1]
    IN  CASE i \div Len(vals) = 0 -> <<Insert(k, All1s - k)>>
          [] i \div Len(vals) = 1 -> <<Get(k, All1s - k)>>
          [] i \div Len(vals) = 2 -> <<Remove(k, All1s - k)>>

test_insert_delete_random(w) == <<Insert(w, w), Get(w, w), Remove(w, w), Get(w, 0)>>

test_le_basic ==
    LET INS(x) == Insert(x, x)
        GET_SAME(x) == Get(x, x)
        GET_NULL(x) == Get(x, 0)
    IN  << INS(1), INS(2), INS(3), INS(0), INS(4), INS(15), INS(14), INS(17),
           INS(18), INS(32), GET_NULL(122), GET_SAME(1), GET_SAME(2),
           GET_SAME(3), GET_SAME(4), GET_NULL(5), GET_SAME(17), GET_SAME(18),
           Le(1, 1), Le(2, 2), Le(5, 4), Le(6, 4), Le(17, 17), Le(21, 18),
           Le(268435455, 32) >>

\* Every two bits become a nibble.
expand_bits(x) == MapThenSumSet(LAMBDA g : ((x \div 4^g) % 4) * 16^g, 0 .. 7)

\* A number goes in or out, then the answers are compared with ws.
test_le_brute(i, w) ==
    LET k     == expand_bits(w)
        below == {x \in ws : x <= w}
    IN  CASE i % (QUERIES + 1) # 0 ->
                <<Le(k, IF below = {} THEN 0 ELSE expand_bits(Max(below)))>>
          [] i % (QUERIES + 1) = 0 /\ w \in ws    -> <<Remove(k, Any)>>
          [] i % (QUERIES + 1) = 0 /\ w \notin ws -> <<Insert(k, k)>>

test_same_only == <<Insert(123, 456), Insert(123, 457), Get(123, 456), Get(124, 0)>>

test_same_two == <<Insert(122, 111), Insert(123, 456), Insert(123, 457),
                   Get(122, 111), Get(123, 456), Get(124, 0)>>

TEST(name, req, rounds, rnd) == [name |-> name, req |-> req, rounds |-> rounds, rnd |-> rnd]

\* main: what the dictionary must provide, the turns and the random numbers.
Suite ==
    << TEST("smoke", 0, 1, {0}),
       TEST("key0", 0, 1, {0}),
       TEST("1to1000", 0, 2 * MAX, {0}),
       TEST("insert_delete1M", 0, MAX, {0}),
       TEST("insert_bulk_delete1M", 0, 2 * MAX, {0}),
       TEST("ffffffff_and_friends", 0, 3 * Len(vals), {0}),
       TEST("insert_delete_random", 0, RANDOM, {vals[i] : i \in DOMAIN vals}),
       TEST("le_basic", 2, 1, {0}),
       TEST("le_brute", 2, RANDOM * (QUERIES + 1), ws16),
       TEST("same_only", 2, 1, {0}),
       TEST("same_two", 2, 1, {0}) >>

name == Suite[tst].name

\* The calls of turn i with the random number w.
Calls1(i, w) ==
    CASE name = "smoke" -> test_smoke
      [] name = "key0" -> test_key0
      [] name = "1to1000" -> test_1to1000(i)
      [] name = "insert_delete1M" -> test_insert_delete1M(i)
      [] name = "insert_bulk_delete1M" -> test_insert_bulk_delete1M(i)
      [] name = "ffffffff_and_friends" -> test_ffffffff_and_friends(i)
      [] name = "insert_delete_random" -> test_insert_delete_random(w)
      [] name = "le_basic" -> test_le_basic
      [] name = "le_brute" -> test_le_brute(i, w)
      [] name = "same_only" -> test_same_only
      [] name = "same_two" -> test_same_two

-----------------------------------------------------------------------------
(* run_test.                                                               *)

CorrInit == /\ tst = 1 /\ dic = 1
            /\ round = 0 /\ v = 0
            /\ todo = <<>>
            /\ d = <<>> /\ ws = {} /\ lost = {}
            /\ status = "new"

NextHm == /\ dic' = (dic % Len(hms)) + 1
          /\ tst' = IF dic < Len(hms) THEN tst ELSE tst + 1

CorrSkip == /\ status = "new"
            /\ tst <= Len(Suite)
            /\ Excused(dic, Suite[tst].req)
            /\ NextHm
            /\ UNCHANGED <<round, v, todo, d, ws, status, lost>>

\* hm_new
CorrNew == /\ status = "new"
           /\ tst <= Len(Suite)
           /\ ~Excused(dic, Suite[tst].req)
           /\ d' = <<>> /\ ws' = {} /\ lost' = {}
           /\ round' = 0
           /\ status' = "run"
           /\ UNCHANGED <<tst, dic, v, todo>>

\* The next turn; test_le_brute notes what it is about to do.
CorrRound == /\ status = "run"
             /\ todo = <<>>
             /\ round < Suite[tst].rounds
             /\ \E w \in Suite[tst].rnd :
                  /\ v' = w
                  /\ todo' = Calls1(round, w)
                  /\ ws' = CASE name # "le_brute" \/ Head(todo').op = "find_le" -> ws
                             [] name = "le_brute" /\ Head(todo').op = "insert" -> ws \cup {w}
                             [] name = "le_brute" /\ Head(todo').op = "remove" -> ws \ {w}
             /\ round' = round + 1
             /\ UNCHANGED <<tst, dic, d, status, lost>>

\* hm_delete
CorrDelete == /\ status = "run"
              /\ todo = <<>>
              /\ round = Suite[tst].rounds
              /\ NextHm
              /\ status' = "new"
              /\ UNCHANGED <<round, v, todo, d, ws, lost>>

CorrExit == /\ status = "new"
            /\ tst > Len(Suite)
            /\ status' = "exit 0"
            /\ UNCHANGED <<tst, dic, round, v, todo, d, ws, lost>>

\* A call that changes the dictionary to new.
Did(new) == /\ d' = new
            /\ todo' = Tail(todo)
            /\ UNCHANGED <<tst, dic, round, v, ws>>

CorrInsert == /\ todo # <<>> /\ status = "run"
              /\ Head(todo).op = "insert"
              /\ Did(hm_insert(dic, d, Head(todo).key, Head(todo).val))
              /\ UNCHANGED <<status, lost>>

\* What insert returns is not looked at.  For a key that is present it makes
\* no difference; and a tcradix_insert that fails may have stored its key all
\* the same, which is CorrInsert.
CorrNoMemory == /\ todo # <<>> /\ status = "run"
                /\ Head(todo).op = "insert"
                /\ Head(todo).key \notin DOMAIN d
                /\ Cardinality(lost) < MaxLost
                /\ lost' = lost \cup {Head(todo)}
                /\ Did(d)
                /\ UNCHANGED status

\* Mutant: an absent key is good enough.
CHECKPresent(res) == /\ status' = IF Head(todo).val \in {Any, res} \/ res = 0
                                  THEN status ELSE "exit 1"
                     /\ UNCHANGED lost

CHECK1(res) == /\ status' = IF Head(todo).val \in {Any, res} THEN status ELSE "exit 1"
               /\ UNCHANGED lost

CorrGet == /\ todo # <<>> /\ status = "run"
           /\ Head(todo).op = "get"
           /\ Did(d)
           /\ CHECK1(hm_get(d, Head(todo).key))

CorrRemove == /\ todo # <<>> /\ status = "run"
              /\ Head(todo).op = "remove"
              /\ Did(hm_remove(d, Head(todo).key))
              /\ IF hm_remove_dies(dic, d, Head(todo).key)
                 THEN status' = "crash" /\ UNCHANGED lost
                 ELSE CHECK1(hm_get(d, Head(todo).key))

\* critbit's and tcradix's call abort.
CorrFindLe == /\ todo # <<>> /\ status = "run"
              /\ Head(todo).op = "find_le"
              /\ Did(d)
              /\ IF hms[dic].hm_immutable = 2
                 THEN status' = "abort" /\ UNCHANGED lost
                 ELSE \E res \in critnib_find_le(d, Head(todo).key) : CHECK1(res)

CorrNext == \/ CorrSkip \/ CorrNew \/ CorrRound \/ CorrDelete \/ CorrExit
            \/ CorrInsert \/ CorrNoMemory \/ CorrGet \/ CorrRemove \/ CorrFindLe

CorrSpec == CorrInit /\ [][CorrNext]_corrvars

-----------------------------------------------------------------------------
(* Properties.                                                             *)

\* The expectations of the tests agree with what every dictionary does for
\* its caller: with enough memory no CHECK fails, nothing aborts and nothing
\* dereferences NULL.  They put a value of 0 only where find_le has nothing
\* to its left, the flags of hmload.c keep critbit and tcradix from the tests
\* that insert a key twice or call find_le, and critnib_tag is only asked to
\* remove what has been inserted.
CorrPasses ==
    /\ status # "abort"
    /\ status \in {"exit 1", "crash"} => lost # {}

\* An insert that had no effect does not go unnoticed, although what insert
\* returns is ignored: by the end of the test some CHECK has failed.  Except
\* for a value of 0, which is not told from none; and test_le_basic never
\* asks for 14 and 15, nor test_le_brute for every key.
LossNoticed ==
    status = "run" /\ todo = <<>> /\ round = Suite[tst].rounds =>
        \A call \in lost :
           \/ call.val = 0
           \/ name = "le_brute"
           \/ name = "le_basic" /\ call.key \in {14, 15}
=============================================================================
