------------------------------ MODULE Harness ------------------------------
(***************************************************************************)
(* th.c: the test program runs each of its tests on each dictionary, with  *)
(* threads that work until the flag done is set, joins them, deletes the   *)
(* dictionary and reports whether a CHECK has failed.                      *)
(*                                                                         *)
(* The dictionary behind the hm_ pointers is what ConcurrentMap promises,  *)
(* so that the module asks two things: whether those promises are enough   *)
(* for the CHECKs, and whether th.c keeps its side.  A value is its key,   *)
(* as in th.c.  Random keys are taken to be different ones.                *)
(***************************************************************************)
EXTENDS Hm, Sequences, FiniteSets

CONSTANTS
    NULL,
    MaxProcs,              \* bound: processors
    Order,                 \* the keys, from the smallest to the greatest
    K, One, the1000,       \* those that are preloaded, the1000 a sequence
    w1000,                 \* per thread: those it makes up
    OnlyHm,                \* the dictionary the option -a names, 0 without it
    MaxFailures            \* bound: inserts that fail in a run of a test

Threads == 1 .. Max({2, MaxProcs})
Main    == 0
Keys     == {Order[i] : i \in DOMAIN Order}
Preloadable == {K, One} \cup {the1000[i] : i \in DOMAIN the1000}

ASSUME HarnessAssumption ==
    /\ MaxProcs \in Nat \ {0}
    /\ OnlyHm \in 0 .. 4
    /\ MaxFailures \in Nat
    /\ {NULL, "none"} \cap Keys = {}
    /\ {Order, the1000} \subseteq Seq(Keys) /\ the1000 # <<>>
    /\ \A i, j \in DOMAIN Order : i # j => Order[i] # Order[j]
    /\ Keys = Preloadable \cup UNION {w1000[t] : t \in Threads}
    /\ \A t \in Threads : /\ w1000[t] # {}
                          /\ w1000[t] \cap Preloadable = {}
                          /\ \A u \in Threads \ {t} : w1000[t] \cap w1000[u] = {}

Test(s, r, rthread, wthread, req) ==
    [spreload |-> s, rpreload |-> r, rthread |-> rthread, wthread |-> wthread,
     req |-> req]

\* The tests of main.  "-1" is a writer for the test of hm_immutable only.
\* The cachekiller threads differ in what they do to the cache, the test on
\* pointers in how its keys are made.
Tests ==
    LET N == Len(the1000)
    IN  << Test(1, 0, "read1", "none", 0),
           Test(2, 0, "read1", "none", 0),
           Test(1, N, "read1", "none", 0),
           Test(0, N, "read1000", "none", 0),
           Test(0, N, "read1p", "none", 0),
           Test(1, 0, "read1", "write1000", 0),
           Test(0, N, "read1000", "write1000", 0),
           Test(0, 0, "read_write_remove", "-1", 0),
           Test(1, 0, "le1", "none", 2),
           Test(0, N, "le1000", "none", 2) >>

VARIABLES
    map, wcall, wres, rcall, rres, current,   \* the dictionary
    nproc, done, bad, any_bad,
    mpc, test, hm, n,      \* main: where it is, test, dictionary, loop counter
    at, key,               \* threads: 0 at the loop's head, else the call it
                           \* is at, Gone or Ended; the key of this round
    nomem, alarm           \* auxiliary: inserts that failed in this run of a
                           \* test; a CHECK has failed in some run

dict == <<map, wcall, wres, rcall, rres, current>>
main == <<mpc, test, hm, n>>
vars == <<dict, nproc, done, bad, any_bad, main, at, key, nomem, alarm>>

Map == INSTANCE ConcurrentMap WITH Writers <- Threads \cup {Main},
                                   Readers <- Threads, Values <- Keys

Gone  == -1    \* not created, or joined
Ended == -2    \* returned, not joined

-----------------------------------------------------------------------------
(* The threads.                                                            *)

Now == Tests[test]
Mixed == Now.wthread \notin {"none", "-1"}

nthreads  == nproc
nwthreads == Max({1, nthreads \div 2})
nrthreads == Max({1, nthreads - nwthreads})

\* Readers and writers of this test; a single processor gets one of each.
ntr == IF Mixed THEN nrthreads ELSE nthreads
ntw == IF Mixed THEN nwthreads ELSE 0

Body(t) == IF t > ntr THEN Now.wthread ELSE Now.rthread

\* The calls of one round, and the keys it may be about.  thread_read1000 and
\* thread_write1000 take theirs in turn, the others' are random.
Calls(body) ==
    CASE body \in {"read1", "read1p", "read1000"} -> <<"get">>
      [] body = "write1000" -> <<"insert", "remove">>
      [] body = "read_write_remove" -> <<"insert", "get", "remove">>
      [] body \in {"le1", "le1000"} -> <<"find_le">>

\* Mutant: the readers also look for the keys that the writers work on.
RoundKeysShared(t) ==
    CASE Body(t) = "read1" -> {K} \cup IF Mixed THEN w1000[ntr + 1] ELSE {}
      [] Body(t) = "read1p" -> {the1000[1]}
      [] Body(t) = "read1000" -> {the1000[i] : i \in DOMAIN the1000}
      [] Body(t) \in {"write1000", "read_write_remove"} -> w1000[t]
      [] Body(t) \in {"le1", "le1000"} -> Keys

RoundKeys(t) ==
    CASE Body(t) = "read1" -> {K}
      [] Body(t) = "read1p" -> {the1000[1]}
      [] Body(t) = "read1000" -> {the1000[i] : i \in DOMAIN the1000}
      [] Body(t) \in {"write1000", "read_write_remove"} -> w1000[t]
      [] Body(t) \in {"le1", "le1000"} -> Keys

op(t) == Calls(Body(t))[at[t]]

\* Mutant: the flag is not looked at.
RoundAlways(t) ==
    /\ at[t] = 0
    /\ at' = [at EXCEPT ![t] = 1]
    /\ \E k \in RoundKeys(t) : key' = [key EXCEPT ![t] = k]
    /\ UNCHANGED <<dict, done, bad, any_bad, main, nomem, alarm>>

\* while (!done)
Round(t) ==
    /\ at[t] = 0
    /\ \/ done /\ at' = [at EXCEPT ![t] = Ended] /\ UNCHANGED key
       \/ /\ ~done
          /\ at' = [at EXCEPT ![t] = 1]
          /\ \E k \in RoundKeys(t) : key' = [key EXCEPT ![t] = k]
    /\ UNCHANGED <<dict, done, bad, any_bad, main, nomem, alarm>>

Start(t) ==
    /\ at[t] > 0
    /\ \/ /\ op(t) = "get"
          /\ Map!Get(t)
          /\ rcall'[t] = key[t]
       \/ /\ op(t) \in {"insert", "remove"}
          /\ Map!Call(t)
          /\ wcall'[t] = [op |-> op(t), key |-> key[t],
                          value |-> IF op(t) = "insert" THEN key[t] ELSE NULL]
    /\ UNCHANGED <<done, bad, any_bad, main, at, key, nomem, alarm>>

CHECK(ok) == /\ bad' = (bad \/ ~ok)
             /\ alarm' = (alarm \/ ~ok)

Advance(t) == at' = [at EXCEPT ![t] = (@ + 1) % (Len(Calls(Body(t))) + 1)]

\* What insert returns is not looked at.
Finish(t) ==
    /\ at[t] > 0
    /\ \/ /\ rres[t] # "none"
          /\ Map!GetReturn(t)
          /\ CHECK(rres[t] = key[t])
       \/ /\ op(t) = "insert"
          /\ Map!Return(t)
          /\ CHECK(TRUE)
       \/ /\ op(t) = "remove"
          /\ Map!Return(t)
          /\ CHECK(wres[t] = key[t])
    /\ Advance(t)
    /\ UNCHANGED <<done, any_bad, main, key, nomem>>

Rank(k) == CHOOSE i \in DOMAIN Order : Order[i] = k

find_le(y) == LET below == {i \in 1 .. Rank(y) : map[Order[i]] # NULL}
              IN  IF below = {} THEN NULL
                  ELSE map[Order[CHOOSE i \in below : \A j \in below : j <= i]]

\* No test has both this thread and writers.
FindLe(t) ==
    /\ at[t] > 0
    /\ op(t) = "find_le"
    /\ CHECK(Body(t) = "le1" =>
                find_le(key[t]) = IF Rank(key[t]) < Rank(K) THEN NULL ELSE K)
    /\ Advance(t)
    /\ UNCHANGED <<dict, done, any_bad, main, key, nomem>>

\* What happens inside the dictionary.  No key is inserted twice.
Inside(t) ==
    \/ /\ Map!InsertNew(t) \/ Map!Remove(t)
       /\ UNCHANGED nomem
    \/ t \in Threads /\ Map!GetResult(t) /\ UNCHANGED nomem
    \/ nomem < MaxFailures /\ Map!InsertNoMemory(t) /\ nomem' = nomem + 1

Dictionary(t) == Inside(t) /\ UNCHANGED <<done, bad, any_bad, main, at, key, alarm>>

\* critnib_tag_remove does not look for an empty slot: for a key that is not
\* there it may dereference NULL, once the root is a node, which has two keys
\* below it.  The program is killed.
Crash(t) ==
    /\ hms[hm].hm_name = "critnib_tag"
    /\ wcall[t] # NULL /\ wcall[t].op = "remove" /\ wres[t] = "none"
    /\ map[wcall[t].key] = NULL
    /\ \E j, k \in Keys : j # k /\ map[j] # NULL /\ map[k] # NULL
    /\ mpc' = "crash"
    /\ UNCHANGED <<dict, done, bad, any_bad, test, hm, n, at, key, nomem, alarm>>

\* What a thread does itself, and what the dictionary does for it.
Work(t)   == Round(t) \/ Start(t) \/ Finish(t)
Served(t) == FindLe(t) \/ Dictionary(t) \/ Crash(t)

thread(t) == Work(t) \/ Served(t)

-----------------------------------------------------------------------------
(* main, test and run_test.                                                *)

hmin == IF OnlyHm = 0 THEN 1 ELSE OnlyHm
hmax == IF OnlyHm = 0 THEN Len(hms) ELSE OnlyHm

\* spreload keys, then the1000 from that index on.
Preload == (IF Now.spreload >= 1 THEN <<K>> ELSE <<>>)
           \o (IF Now.spreload >= 2 THEN <<One>> ELSE <<>>)
           \o SubSeq(the1000, Now.spreload + 1, Now.rpreload)

Skipped == Excused(hm, Now.req)

NextDictionary == /\ hm' = IF hm < hmax THEN hm + 1 ELSE hmin
                  /\ test' = IF hm < hmax THEN test ELSE test + 1
                  /\ mpc' = "test"

Exit == /\ mpc = "test"
        /\ test > Len(Tests)
        /\ mpc' = "exit"
        /\ UNCHANGED <<dict, done, bad, any_bad, test, hm, n, at, key, nomem, alarm>>

Skip == /\ mpc = "test"
        /\ test <= Len(Tests)
        /\ Skipped
        /\ NextDictionary
        /\ UNCHANGED <<dict, done, bad, any_bad, n, at, key, nomem, alarm>>

\* bad = 0; hm_new
Select == /\ mpc = "test"
          /\ test <= Len(Tests)
          /\ ~Skipped
          /\ bad' = FALSE
          /\ map' = [k \in Keys |-> NULL]
          /\ n' = 1
          /\ nomem' = 0
          /\ mpc' = "preload"
          /\ UNCHANGED <<wcall, wres, rcall, rres, current, done, any_bad,
                         test, hm, at, key, alarm>>

Fill == /\ mpc = "preload"
        /\ n <= Len(Preload)
        /\ \/ /\ Map!Call(Main)
              /\ wcall'[Main] = [op |-> "insert", key |-> Preload[n], value |-> Preload[n]]
              /\ UNCHANGED n
           \/ Map!Return(Main) /\ n' = n + 1
        /\ UNCHANGED <<done, bad, any_bad, mpc, test, hm, at, key, nomem, alarm>>

\* done = 0
Filled == /\ mpc = "preload"
          /\ n > Len(Preload)
          /\ done' = FALSE
          /\ n' = 1
          /\ mpc' = "create"
          /\ UNCHANGED <<dict, bad, any_bad, test, hm, at, key, nomem, alarm>>

Create == /\ mpc = "create"
          /\ n <= ntr + ntw
          /\ at' = [at EXCEPT ![n] = 0]
          /\ n' = n + 1
          /\ UNCHANGED <<dict, done, bad, any_bad, mpc, test, hm, key, nomem, alarm>>

\* sleep(1); done = 1
SetDone == /\ mpc = "create"
           /\ n > ntr + ntw
           /\ done' = TRUE
           /\ n' = 1
           /\ mpc' = "join"
           /\ UNCHANGED <<dict, bad, any_bad, test, hm, at, key, nomem, alarm>>

\* Mutant: the writers are not waited for.
MustJoinReaders(i) == i <= ntr

MustJoin(i) == i <= ntr + ntw

Join == /\ mpc = "join"
        /\ MustJoin(n)
        /\ at[n] = Ended
        /\ at' = [at EXCEPT ![n] = Gone]
        /\ n' = n + 1
        /\ UNCHANGED <<dict, done, bad, any_bad, mpc, test, hm, key, nomem, alarm>>

\* Mutant: the verdict on the last dictionary replaces the others.
VerdictLast == bad

\* any_bad = 1 if bad
Verdict == any_bad \/ bad

\* hm_delete, and the report.
Report == /\ mpc = "join"
          /\ ~MustJoin(n)
          /\ any_bad' = Verdict
          /\ NextDictionary
          /\ UNCHANGED <<dict, done, bad, n, at, key, nomem, alarm>>

MainWork == \/ Exit \/ Skip \/ Select \/ Fill \/ Filled \/ Create \/ SetDone
            \/ Join \/ Report

MainNext == MainWork \/ Dictionary(Main)

-----------------------------------------------------------------------------
Init ==
    /\ Map!Init
    /\ nproc \in 1 .. MaxProcs
    /\ done = FALSE
    /\ bad = FALSE
    /\ any_bad = FALSE
    /\ mpc = "test"
    /\ test = 1
    /\ hm = hmin
    /\ n = 1
    /\ at = [t \in Threads |-> Gone]
    /\ key = [t \in Threads |-> K]
    /\ nomem = 0
    /\ alarm = FALSE

Alive == mpc # "crash" /\ UNCHANGED nproc

Next == Alive /\ (MainNext \/ \E t \in Threads : thread(t))

Spec == Init /\ [][Next]_vars

\* The scheduler runs every thread.  That a call of the dictionary ever
\* answers is not assumed.
Fairness == /\ WF_vars(Alive /\ MainWork)
            /\ \A t \in Threads : WF_vars(Alive /\ Work(t))

-----------------------------------------------------------------------------
(* Properties.                                                             *)

\* The promises of ConcurrentMap are enough for every CHECK of every thread,
\* whatever the others do meanwhile, and no thread removes a key that is not
\* there, which could kill the program: a CHECK fails, or the program dies,
\* only when an insert of this run of the test got no memory.
NoFalseAlarm == bad \/ mpc = "crash" => nomem > 0

\* After hm_delete nobody is inside the dictionary, or will be.
NobodyInside ==
    mpc \in {"test", "exit"} => /\ \A t \in Threads : at[t] = Gone
                                /\ \A t \in Threads \cup {Main} : wcall[t] = NULL
                                /\ \A t \in Threads : rcall[t] = NULL

\* No CHECK that failed is forgotten, although bad is a plain flag that all
\* threads write and every run resets: main returns 1 if one has.
VerdictComplete == mpc = "exit" => any_bad = alarm
=============================================================================
