# ptok: a TLA+ verification of its concurrent dictionaries

ptok is a set of dictionaries from 64-bit keys to pointers, made to be read by
many threads without any lock while a few threads write: `critnib` (the one
that matters, later used in libpmemobj), its older variant `critnib_tag`, a
tail-compressed radix tree `tcradix`, and `critbit`.  `th.c` exercises them with
threads, `1corr.c` sequentially.  This directory holds TLA+ models of that code,
the TLC runs that check them on small instances, and proofs that TLAPS checks
for every instance.

## 1. Inventory

| part | state | operations | what is hard |
|---|---|---|---|
| `critnib.c` | tree of nodes and tagged leaves, pools of freed nodes and leaves, rings of `DELETED_LIFE` pending blocks, `remove_count`, a mutex | new, insert, remove, get, find_le, delete | readers take no lock and write nothing; blocks are reused after a grace period counted in removes; a reader notices staleness only after its walk |
| `critnib-tag.c` | the same | the same, under the names `critnib_tag_*` | as above, with plain reads; remove does not test for an empty slot |
| `tcradix.c` | radix tree whose nodes may hold a copy of their only key, a pool, `write_status` (a sequence lock), a mutex | new, insert, remove, get, delete | only the walk to the last level is validated by `write_status`; key 0 and key 2^64-1 are special; out of memory half way |
| `critbit.c` | binary tree with leaf and inner node in one block, list of deleted blocks, a mutex | new, insert, remove, get, delete | readers stand on unlinked blocks; blocks are never reused, freed only by delete |
| `hmload.c`, `hmproto.h` | table of the four implementations, current selection | hm_select | what an implementation cannot do is a flag that every caller has to look at |
| `th.c` | threads, the flag `done`, the flag `bad` | run_test, thread bodies | joins before delete; what a thread may assert while others write |
| `1corr.c`, `test.c` | a dictionary, the set of what is in it | eleven sequential tests | the same expectations for dictionaries that differ in NULL values and equal keys; what insert returns is ignored |
| `tlog.c`, `readtlog` (not called) | log of `TLOG_SIZE` records, its counter | tlog_init, tlog, tlog_save | a slot is claimed before it is filled, and is not cleared; the counter runs on when the log is full |
| `os_thread_posix.c`, `os_thread.h` | none (casts to pthread) | mutexes, conditions, threads | none |
| `util.c`, `util.h` | allocator pointers | Zalloc, atomics, bit scans, checksums, util_fgets | memory order of the atomics; the edges of the loops |
| `out.c`, `out.h` | none | assertions, messages | none |

Interaction: `th.c` and `1corr.c` call a dictionary only through the `hm_*`
pointers.  The dictionaries call `os_mutex_*` or `pthread_mutex_*`, the atomics
of `util.h` and `Malloc`/`Zalloc`/`Free`.  Threads meet only in a dictionary's
memory.

What makes each part correct:

* a write takes effect at one moment and reports what it did; a get returns a
  value that was current since its call (`critnib.c`, CONCURRENCY ISSUES);
* no reader that is still within its grace period stands on a reused block;
* a stale reader stays inside the structure, notices, and restarts;
* the tree keeps the shape that every lookup relies on;
* delete frees every block exactly once;
* every path releases the mutex;
* the test programs join before they delete, forget no failure, expect what the
  dictionaries do, and end;
* a saved log holds what was logged; a checksum notices what it is to notice.

## 2. Modules

| module | what it is |
|---|---|
| `Nibbles` | keys as nibbles, and the helpers of `critnib.c` on them |
| `Critnib` | the structure, its pools, pending slots and mutex; insert and remove |
| `CritnibGet` | `Critnib` with readers in `critnib_get`; its properties |
| `CritnibLe` | `Critnib` with readers in `critnib_find_le` |
| `CritnibLife` | `Critnib` between `critnib_new` and `critnib_delete`, repeatedly |
| `CritnibBits` | the code's shifts and masks against `Nibbles` |
| `CritnibTag` | `critnib-tag.c`: the steps of the modules above with its own remove, in one specification |
| `CritnibInv` | the first layer of the inductive invariant: blocks, pools, pending slots, lock, what an attempt may meet |
| `CritnibShape` | the second layer: the shape of the tree, and why a miss is right |
| `CritnibLeInv` | the inductive invariant of `CritnibLe` |
| `Tcradix` | `tcradix.c` |
| `Critbit` | `critbit.c` |
| `ConcurrentMap` | what a concurrent dictionary promises; `CritnibGet` and `Critbit` are checked to implement it |
| `Hm` | `hmload.c`: the table of dictionaries, and what each entry does for a single thread |
| `Harness` | `th.c`, over a dictionary that keeps `ConcurrentMap`'s promises |
| `Corr1` | `1corr.c`, over the dictionaries of `Hm` |
| `Tlog` | `tlog.c` |
| `Util` | the checksums and `util_fgets` of `util.c` |
| `Lists` | lists threaded through a field, for the invariants |
| `ListProofs` | proofs: such a list gets to each of its members in one turn |
| `CritbitInv` | the inductive invariant of `Critbit` |
| `CritnibProofs` | proofs: writers and readers preserve the first layer; types, grace periods, stale readers |
| `CritnibShapeProofs` | proofs: the shape of the tree; a get returns a current value; `CritnibGet` implements `ConcurrentMap` |
| `CritnibLeProofs` | proofs: find_le |
| `CritnibLifeProofs` | the inductive invariants of `CritnibLife` and of `CritnibTag`, and proofs: critnib_delete frees every block once, and leaves none; critnib_tag_remove finds what was inserted; what the reads of critnib_tag stop with |
| `CritbitProofs` | proofs: gets, delete and the writers of `Critbit` |
| `HarnessProofs` | the inductive invariant of `Harness`, and proofs |
| `TlogProofs` | the inductive invariant of `Tlog`, and proofs |
| `MC*` | instances and scenarios for TLC; `MCCritnibLive` is that of `get_live`, `MCHarness` holds both programs and `MCSupport` the parts below the dictionaries, each initial state choosing one of them |

`CritnibGet`, `CritnibLe` and `CritnibLife` each extend `Critnib` (`CritnibLe` by way of
`CritnibGet`, whose attempts and grace period it shares), so that one text of
insert and remove serves them all, and `CritnibTag` puts the three together.
Definitions whose comment begins with "Mutant" are wrong on purpose: put in the
place of the definition below them, they make the property that PROJECT.json
names fail.

## 3. How the critnib model corresponds to the code

**State.** Keys are functions from nibble positions to nibbles (`Nibbles`), so
that `key >> shift & NIB` is `key[shift]`; `CritnibBits` shows on machine words
that the shifts and masks compute exactly this.  `child`, `path`, `shift` are the
fields of `struct critnib_node`, `lkey` and `lval` of `struct critnib_leaf`, each a
function on blocks; the tag bit of a leaf pointer is membership in `Leaves`.
Blocks come from malloc one at a time (`Malloc` picks one of those it has left;
they are interchangeable).  `wpc` and the other `w*` variables are the program
counter and locals of the writer threads, `r*` those of the readers: `wn` is
the pointer the walk holds, `wpar` the node its parent pointer is in (NULL for
`&c->root`), `wgp` the node `n_parent` is in, `wdel` is `del`.

**Auxiliary state.** `st` says what has become of a block (malloc's, in a writer's
hands, in the tree, pending, in the pool), `stamp` which remove unlinked it;
`fresh` are the blocks that have been in the tree since an attempt loaded
`remove_count` and were not recycled since; `valid` are the values the key has
had since the call.  No action of the code depends on them, except that
`Malloc` hands out what `st` calls raw.

**Steps.** A step is one access that another thread can tell apart.  Writers hold
the mutex from `Lock` to `Unlock`, so what they only read is read in the step
that uses it.  Stores that readers can see are separate steps, in the code's
order: in insert key, value, the clearing of the new node's slots, the two
links, shift with path, and the publishing store; in remove the counter, the
recycling of the pending node, then of the pending leaf, the unlinking, and the
collapse.  Three groups are one step: the loop that clears the slots, the two
links at lines 422-423, and shift with path at 424-425.  They write to a node
that is in the tree only after the publishing store; a stale reader that
stands on it sees the group done or not done, and either order of two reads
around a group.  Readers make one step per load: counter, root, shift, child,
key, value, counter.  In find_le there are two exceptions.  The reads of path and shift at
the entry are one step: in the grace period they cannot change.  And the scans name a
slot twice, for the test and for the use (`critnib.c:577` and 583,
`critnib-tag.c:512` and 562), as two plain reads that race with the writers'
stores; the model makes one load of them, as gcc 12 at the Makefile's -O3 does.  A
build that reads twice could get NULL from the second and dereference it, which
the model has no step for.

**Memory order.** The models are sequentially consistent.  On x86-64, with the
code's acquire loads and release stores, this is what the program gets, except
that the first leaf is published by a plain store (`critnib.c:369`), which gcc
12 at -O3 keeps behind the leaf's fields.

**Calls.** Any thread may call insert with any key and value, and remove with any
key, at any time.  A scenario in an MC module (`FillSpec`,
`OwnSpec`) and `UniqueSpec` of `Critbit` restrict which calls are made, never a step of
a call under way.

**Left out.** The wrap of the 64-bit `remove_count`; values that are NULL (a NULL
result means absent); critnib_new when its own malloc fails (it changes no
state); critnib_delete while other threads are inside (the callers join first).

## 4. The other models

**`CritnibTag`.** `critnib-tag.c` is `critnib.c` with its helpers written out, `shift` an
int32_t and its own insert of the same stores in the same order; the steps
differ in remove, whose descent does not test for an empty slot.  Meeting one is the action `RemoveNullDeref`,
which ends the process.  A thread that reads decides at each call whether it
calls get or find_le; `owned` and `sure` (auxiliary) record which keys a caller
may count on: those it has inserted and nobody has removed.  What a find_le stops with
is claimed to be sound only (`ResultsSound`): as in critnib.c, its scan may miss
what was current throughout the call (`le_scan`, section 7).

**`Tcradix`.** The tree is one record `mem`.  insert and remove run under the mutex,
so they are computed as the list of the memory states that their stores make
one after the other (`insert`, `insert_child`, `nremove` append to it), and
`Store` lets them become visible one at a time; `Poke` and `PokeAgain` are the
increments of `write_status` around them.  A get makes one step per load.
`Budgets` are the numbers of blocks after which Zalloc fails within a call.

**`Critbit`.** One block holds a leaf and an inner node (`Leaf(b)`, `Inner(b)`), and
insert uses both halves of its own block.  A writer's call is one step per store
that a reader can see.  Blocks are not reused.

**`Harness`.** Each thread repeats its round of calls until it sees `done`; a call
starts and finishes in separate steps, and its result is any that
`ConcurrentMap` allows in between.  `bad`, `any_bad`, the order of creating,
setting `done`, joining and deleting, and the loop over the dictionaries are
those of `run_test`, `test` and `main`.  `nproc` is chosen at the start, and readers
and writers are shared out as `main` does it (a count of 0, which it takes for 8,
aside).  At most `MaxFailures` inserts run out of memory.  `th.c` does not look at what
insert returns and removes the key all the same; critnib_tag_remove may then meet an
empty slot and dereference NULL (`critnib-tag.c:430-435`), which `Crash` has as an end of
the program.  The tree's shape is not in this model, so `Crash` is possible
whenever the key is absent and the root is a node; `Corr1`, which has the numbers, says
exactly when.

**`Hm` and `Corr1`.** For one thread a dictionary is a function from keys to
numbers, 0 being NULL, and the four differ in what a second insert of a key does
(critbit makes a leaf whose value is an address, tcradix replaces, critnib
refuses), in whether a value of 0 is stored, and in find_le, which critbit and
tcradix abort in.  That the dictionaries do have these effects is what the
other modules are about.  critnib's find_le takes a value of 0 for nothing and
goes on to the left; what it then meets depends on the tree, so any smaller key's
value is allowed.  A remove of an absent key returns NULL, except that critnib_tag's
may dereference it: `Descent` follows the branching nibbles of the keys that are
there, which determine the tree, to the leaf or the empty slot at which
critnib_tag_remove arrives, and in the latter case the program ends as "crash".
A test is a number of rounds, the turns of its loops, each a
short sequence of calls with the result that `CHECK` expects; random numbers are
any of a small set.  The first failing `CHECK` ends the program.  At most `MaxLost`
inserts of a test get no memory.

**`Tlog`.** A call of `tlog` is three steps: the fetch-and-add, the timestamp, the other
fields.  `tlog_save` reads the counter and then the slots one by one while others
log, and may be cut short by `write`.  Nothing in the repository calls these
functions; the model assumes that `tlog_init` is called when nobody is inside and
that `rdtsc` goes up from one stamp to the next.  On other machines `getticks` is 0,
which is the mutant of `ThreadOrder`.

**`Util`.** Words have `WORD` values, so that the sums wrap; addresses are offsets in
words, little endian.  The loop of `util_checksum` is a recursive function of the
number of turns, with its jumps of two words.  The checksum may lie anywhere in
the buffer, also across the start of what is skipped.  `fgets` is the C library's.

## 5. Runs

| run | instance | shows |
|---|---|---|
| `get_map` | 2 writers, 1 reader of one key, 2 keys, 2 nodes, 3 leaves, `DELETED_LIFE` 1, 3 inserts, 2 removes, malloc may fail | critnib implements `ConcurrentMap`: every write takes effect at one store, every get returns a value current since its call |
| `get_grace` | 1 writer, 1 reader, 3 keys, 2 values, `DELETED_LIFE` 2, 4 inserts, 3 removes | the inductive invariant `ShapeInv`; grace periods are respected; stale readers stay inside; hits and misses are current |
| `get_live` | either 1 writer, 1 reader, 3 keys, `DELETED_LIFE` 1, 4 inserts, 2 removes; or 2 writers alone, 3 keys of one node, 3 inserts, 2 removes, malloc may fail; fairness | a get returns or outlives its grace period, nodes being collapsed and rebuilt under it; every call of insert or remove returns, by whichever of the nine exits, and with it the one that waits for the mutex |
| `get_stuck` | 1 writer, 1 reader, 3 keys, `DELETED_LIFE` 1, 3 inserts, 3 removes, fairness | *violated*: a stale get need not return |
| `life` | 1 writer, 4 keys, 3 nodes, 4 leaves, 4 inserts, 3 removes per life, malloc may fail | the tree's shape; delete frees each block once and loses none |
| `le` | 1 writer, 1 reader, 4 keys of two ternary digits, `DELETED_LIFE` 1, 4 inserts, 2 removes | the inductive invariant `LeInv`; find_le stays on the tree within its grace period, answers soundly, and exactly when the tree is left alone |
| `le_scan` | one node of four slots, 4 inserts | *violated*: find_le's answer need not have been current |
| `tag` | 1 writer, 1 reader, 3 keys of two ternary digits, 3 inserts, 2 removes per life | a get of critnib_tag returns what was current, a find_le a value of a key at most its argument; remove finds what is there; the paranoia branch is dead |
| `tcradix` | 1 writer; either alone, 4 keys of three binary digits, 0 and all ones among them, 4 inserts, 3 removes; or with 1 reader, 3 keys, 3 inserts, 2 removes; Zalloc fails after 0, 1 or 2 blocks or not at all | reports, isolation of keys at each store, clean pool, delete; what a get may return |
| `critbit` | 1 writer, 1 reader, 3 keys, 3 inserts, 2 removes per life, fairness | stable keys are found, writes implement `ConcurrentMap`'s, delete frees each block once, every get that began returns |
| `programs` | `th.c` with 1 or 2 processors, 4 dictionaries, 1 failing insert; `1corr.c` with loops of 3 or 4 turns, words of 8 bits, 2 failing inserts; fairness | `th.c`: no false alarm and no crash as long as there is memory, no thread inside at delete, no CHECK forgotten, and it ends unless a call of a dictionary never answers; `1corr.c`: no test fails, aborts or crashes as long as there is memory, a lost insert is noticed, and it ends |
| `support` | all pairs of 8-bit words, nibbles of two bits; all buffers of 4 words of 2 bits, places of the checksum and skips; all texts of up to 5 characters, buffers of 2 to 4; 2 threads that log 3 times each, 3 slots, one tlog_init | shifts, masks and comparisons are the nibble operations; the checksum finds changes and may be computed in pieces; util_fgets drops only carriage returns before a line's end; the file holds what was logged, thread by thread in order |

Deadlock is checked except in `get_live`, `tag`, `tcradix`, `programs` and
`support`: there the writers have made all calls the bounds allow, the process
may die at a NULL pointer, the tree is deleted for good, the program exits, and
the text is read or the bound on calls reached.  In the others a reader, or the
next life, can always go on.

**Bounds.** `MaxInserts` and `MaxRemoves` bound the calls.  One remove more than
`DELETED_LIFE` ends a grace period and recycles blocks, and the inserts left
reuse them, which is where a reader can go wrong: three removes for 2
(`get_grace`, `life`), two for 1 (`get_map`, `get_live`, `le`, `tag`).  With `DELETED_LIFE` = 1 stale
readers meet nodes that have been rebuilt.  The runs `get_grace`, `get_live`, `le`
and `tag` start from a given order of the first inserts, which makes a tree of two
nodes or a node with an empty slot; `get_map`, `life` and `critbit` do not.
Two levels with binary nibbles give trees of two nodes, the smallest
in which a node hangs below another and a collapse moves it; `le` and
`tag` use ternary nibbles, the smallest with a slot to the left, one to the right and
the key's own, and `le_scan` one node of four slots.  One reader is enough for
the properties of readers: they write nothing, so that no reader can tell
whether there are others.  One writer at a time holds the mutex; `get_map` has
two to check that the lock keeps them apart, and `get_live` two so that one waits.
There ternary digits give a node with two children and one with
three, from which a remove takes a leaf and keeps the node, and with keys that are
inserted twice or removed when absent and mallocs that fail, every exit of insert and
remove is taken.  Its other half, and that of `tcradix`, has a reader and smaller
bounds, `MCCritnibLive` and `MCTcradix` choosing one in the initial state.  `tcradix` has key 0 and the all-ones key, and
an insert whose very first Zalloc fails.  `MaxDepth` bounds find_le's stack
once it is stale, when its recursion has no bound of its own; a find_le in its
grace period stays below it (`LeGraceSafe`).  Two processors give `th.c` a reader and a
writer at once, one the case in which both counts are rounded up.  With
four turns `1corr.c`'s test_le_brute inserts, removes and asks in any order.  Six
calls on three slots fill the log twice over, and the slots keep old records
across tlog_init.  Four words are enough for the checksum
at either end, in the middle or across the skip, with an odd or even rest.

**Fairness.** `LiveSpec` and `FairFillSpec` assume weak fairness of each thread
that has been called: the operating system does not suspend a thread for ever.
Nobody is obliged to make a call.  The mutex needs no stronger assumption:
`get_live` has two, but the bound on calls ends the competition, so that a writer that
waits sees the mutex free and stays enabled once the other has made its last call; with
unbounded calls it could be passed over for ever, which pthread's mutex does not exclude and
the property is not about.  `Critbit`'s `Fairness` is the same, for a writer and a reader
that have begun.  `ProgramSpec` assumes weak fairness of what `main` and the threads of
`th.c` do themselves, sleeping and joining included, and of `1corr.c`, which has one thread.  It
does not assume that a call of a dictionary that a thread of `th.c` is in ever answers, because
`get_stuck` shows that a stale get of critnib may not: `ProgramEnds` says that `th.c` ends
or one such call lasts for ever.  Which calls do answer is what `get_live` shows of
gets in their grace period and of critnib's writes, and `critbit` of all its gets.
That tcradix's get returns is not checked: with fairness the run does not finish
within five minutes at the bounds of `tcradix`, and it is only expected while
writers pause, as get_slow waits for an even `write_status`.

## 6. Proofs

| theorem | module | states | checked by run |
|---|---|---|---|
| `Invariance` | `CritnibProofs` | `Spec => []IInv` | |
| `TypeCorrect` | `CritnibProofs` | `GetTypeOK` | `get_map` |
| `GraceIsSafe` | `CritnibProofs` | `GraceSafe`: within the grace period a get stands on no recycled block | `get_grace` |
| `StaleIsContained` | `CritnibProofs` | `StaleContained`: after it, on blocks of the structure only | `get_grace` |
| `ShapeHolds` | `CritnibShapeProofs` | `ShapeInv`, with the shape of the tree | `get_grace` |
| `GetIsCurrent` | `CritnibShapeProofs` | `GetCurrent`: what a get returns, a miss included, was current since its call | `get_grace` |
| `Refines` | `CritnibShapeProofs` | `ImplementsMap`: every step of `CritnibGet` is a step of `ConcurrentMap` or a stutter | `get_map` |
| `LeInvariance` | `CritnibLeProofs` | `LeSpec => []LeInv` | `le` |
| `LeGraceIsSafe` | `CritnibLeProofs` | `LeGraceSafe`: the same as `GraceSafe` for find_le and its stack, whose depth is bounded | `le` |
| `LeIsSound` | `CritnibLeProofs` | `LeSound`: what find_le returns is the value of a leaf that was there and is not above the key | `le` |
| `LeIsExact` | `CritnibLeProofs` | `LeExact`: when no write came in between, it is the greatest such leaf | `le` |
| `LifeInvariance` | `CritnibLifeProofs` | `LifeSpec => []LifeInv` | |
| `ShapeInEveryLife` | `CritnibLifeProofs` | `LifeShape`: the tree has its shape, whatever malloc's blocks contain | `life` |
| `DeleteIsClean` | `CritnibLifeProofs` | `DeleteFreesOnce`: critnib_delete frees no block twice and none that malloc has | `life` |
| `NothingLeaks` | `CritnibLifeProofs` | `NoLeak`: after critnib_delete malloc has every block back | `life` |
| `TagInvariance` | `CritnibLifeProofs` | `TagSpec => []TagInv` | |
| `RemoveFindsIt` | `CritnibLifeProofs` | `RemoveFinds`: critnib_tag_remove of a key its caller has inserted meets no NULL and does not return it | `tag` |
| `ParanoiaIsIdle` | `CritnibLifeProofs` | `ParanoiaIdle`: the paranoia assignment of critnib_tag_remove has no effect | `tag` |
| `ResultsAreSound` | `CritnibLifeProofs` | `ResultsSound`: what critnib_tag_get stops with, a miss included, was current at some moment of the call; what critnib_tag_find_le stops with was, during the attempt, the value of a key at most its argument, and of the greatest such key, or NULL for none, if the tree was left alone | `tag` |
| `CritbitInvariance` | `CritbitProofs` | `UniqueSpec => []CInv` | |
| `GetsStable` | `CritbitProofs` | `GetStable`: a get finds a key that stays; what else it may return | `critbit` |
| `DeletesFreeOnce` | `CritbitProofs` | `DeleteFreesOnce`: critbit_delete frees every allocated block exactly once, and no inner node | `critbit` |
| `WritersRefine` | `CritbitProofs` | `WritersImplementMap`: each life of the tree is a behaviour of `ConcurrentMap` | `critbit` |
| `HarnessInvariance` | `HarnessProofs` | `Spec => [](HarnessInv \/ Killed)` | |
| `ChecksPass` | `HarnessProofs` | `NoFalseAlarm`: no CHECK of `th.c` fails, and no remove kills the process, unless an insert got no memory | `programs` |
| `DeleteIsAlone` | `HarnessProofs` | `NobodyInside`: no thread is inside a dictionary when it is deleted | `programs` |
| `ExitTells` | `HarnessProofs` | `VerdictComplete`: the exit status forgets no failed CHECK | `programs` |
| `TlogInvariance` | `TlogProofs` | `TlogSpec => []TlogInv` | |
| `SaveIsExact` | `TlogProofs` | `SaveExact`: the file holds what was logged | `support` |
| `ThreadsAreInOrder` | `TlogProofs` | `ThreadOrder`: each thread's records are in order and without gaps | `support` |

They hold for any number of threads, blocks, keys, levels, slots and processors,
any `NIB` of at least one, any `DELETED_LIFE` of at least one and any bound on calls,
from the named assumptions of the modules: `SizeAssumption` and `PtrAssumption` (sizes
are positive, kinds of blocks and values are told apart), `ReadAssumption` (gets ask
for keys that writers may write), `MarkAssumption` (the marks of `ConcurrentMap` are no
values), `DepthAssumption` (find_le's bound is positive), `FiniteAssumption` (memory is
finite, so that the frees of a block can be counted), `CritbitAssumption` (keys have at
least one bit, memory is finite, nodes, values and marks are told apart),
`HarnessAssumption` (the keys
threads make up are their own, as random 64-bit keys nearly always are) and
`TlogAssumption`.  The theorems about `Critbit` are about `UniqueSpec`: nobody inserts a key
that is present or on its way in, which critbit asks of its callers; an insert of
a present key makes the tree something else (section 4, `Hm`).

**The structure (`IInv`).** None of the properties is inductive.  That a get in its
grace period never stands on a recycled block depends on when blocks are
recycled (`InvPending`, `InvDel`: a block waits in the slot of the remove that
unlinked it, and that slot is emptied `DELETED_LIFE` counted removes later), on
which blocks a reader can meet at all (`InvFresh`, `InvClosed`: within the grace
period links lead from blocks of the attempt to blocks of the attempt), and
this again on the tree being made of live blocks that hang in one place each
(`InvTree`), on the pools being lists without sharing (`InvPoolNodes`,
`InvPoolLeaves`), on the lock (`InvLock`) and on what its holder knows
(`InvInsert`, `InvRemove`).  `CritnibProofs` shows that every writer action preserves
the parts about the structure, one lemma per action and part, and then adds the
readers: `Gentle` says how a writer step may change what a reader sees
(a fresh block keeps its fields, or its grace period is over).

**The shape (`ShapeInv`).** That a miss is right needs to know where a key would be.
All parts speak of single links, never of reachability, so no induction over
the tree is needed: `InvEdge` (what hangs in a slot belongs below the node and into
that slot), `InvCover` (wherever a live block belongs below a live node, the slot
it belongs in holds the block itself or a node that it belongs below), `InvUnique`
(a place in the trie is taken once) and `InvFork` (a node has two children, except between
the two stores of a remove).  `InvPlace` and `InvFind` are what insert and remove know of the
place they have come to; the walk of each is a chain of `InvCover` steps.  `InvMiss`
carries this over to readers: as long as NULL has not been among the values of
the key, the fresh blocks still lead to its leaf, also those that have left the
tree, and the reader is on that way.

**The refinement (`Refines`).** The abstract map at a key is what `Find` computes, a
lookup of `LEVELS` steps through `child`.  `FindFacts` says that this is the value of the
live leaf with the key, or NULL if there is none: on the way positions decrease
(`InvEdge`) and every block still leads to that leaf (`InvCover`), so after `LEVELS`
steps the lookup is on it.  The induction is over the set of levels at which this fails, which would have a
least member (`LeastNat`), and so is the proof that the recursive function exists
(`WalkExists`).  The map is thereby determined by the live leaves, and each action is a case:
an insert takes effect at the store that links its leaf, a remove at the one that
unlinks it, and those that fail at the step that finds the key there, or absent, or no
memory; the other steps leave the live leaves alone, and what a get returns is
justified by `InvMiss`.

**find_le (`LeInv`).** `LeClosed` is about an attempt in its grace period, whatever the
writers do: all blocks it can meet are its own, each still sorted (`Sorted`) though it
may have left the tree, the frames of the recursion are on the path of the
key, each lower than the one before, and what is found is not above the key.
`LeAlone` is about an attempt during which no writer has changed the tree: nothing that could be
the answer is behind the walk (`Ahead`: it is to the left of a frame, below the
place the walk stands on, or before something the scan is certain to find).  The step
of the scan that needs most is the one that goes on to the left: an answer
still ahead stays ahead because slots are in the order of keys (`Low`, `Precedes`).

**The life of a dictionary (`LifeInv`).** That critnib_delete frees every block once is a
count over a recursion and two kinds of loops, while the invariant must be about
single steps.  While the structure is up, `LifeInv` is the invariant of its
writers without the parts about readers (`WParts`, `Shape`), and says in addition that no block
gets out of sight: one that is held is in a writer's hands (`InvHeld`), one in its
grace period is in a pending slot or will be by the same remove (`InvGone`; `InvEmptied`:
nothing is overwritten there), and the pools hold all the blocks that are in them, in
a finite list (`InvLists`; that a pool is without sharing, as `IInv` has it, would
also allow a cycle beside the list).  Between two lives every block is with malloc
(`AllRaw`).  `FreesEach` does the counting, in any state in which nobody is inside: the
recursion gets to each live block along one descent (`OneDescent`: as no block hangs
in two places, two descents to it take the same slots; `SomeDescent`: a descent can
always be continued towards it, and ends there because positions decrease), the loops get to each pooled block
in one turn (`PoolsOnce`, from `ListCount`), and each block that waits is in the one slot
that its stamp names (`PendingOnce`).  `ReachableLive` connects the single edges of `Shape`
with the blocks that `TreeShape` speaks of.

**critnib-tag.c (`TagInv`).** Its writers are those of `CritnibLife` but for one
step, so `LifeInv` is the base; the step that dereferences NULL ends the behaviour, and
all that is claimed of the state after it is that no caller with a good key is there.  What is added ties the
callers to the tree: a key that is `owned` is that of a live leaf (`InvOwned`), which is so
because only a remove for the same key takes the leaf out (`ThereStays`), no two calls at
a time are for one key (`InvApart`) and a remove takes its key out of `owned` when it
begins (`InvTaken`); and `InvSure` and `InvDone` follow the leaf through the steps of a remove
and of an insert.  `SureFinds` is where the shape comes in: by `InvFind` the descent of a
remove for a key that is there stands on a block that leads to it, hence never on
an empty slot.

For the readers `TagInv` joins two invariants that were made for two
specifications.  Their parts speak of one thread at a time (`FreshAt`, `ClosedAt`,
`StepAt`, `ValueAt` and `MissAt` of a get, `LeStepAt`, `LeClosedAt` and `LeAloneAt` of a
find_le), and the lemmas about them assume of a writer's step only what the thread sees of it
(`Notes`, `LeWatch`), so that `ReadInv` can ask of each thread the parts of the
call it is in (`finding`), and nothing but rest of a thread in no call (`Rested`).  Rest is
what both invariants can start from (`IdleParts`), and what makes critnib_tag_delete
and critnib_tag_new harmless: whatever they do to the memory, nobody is looking.
A step of one reader leaves the others at rest (`ReadRests`).

**`Critbit` (`CInv`).** Which inner nodes are in the tree is written down nowhere: an inner
node lives in the block of some leaf, goes when one of its two subtrees does, and
looks afterwards as before.  So the invariant says that there *is* a set `T` of nodes
which is the tree: the live leaves, the root, and with an inner node both
children (`Members`, `Edges`), such that from every inner node on the path of a node
the child in its direction leads on to it (`Cover`), and a place is taken once
(`Once`).  Again all of it speaks of single links.  A get that walks has a set `F` of its own (`Sight`),
which contains `T` and what has left it since the call: it is closed under links,
any value in it under the get's key has been the key's, and as long as the key has
not been absent, all of `F` leads to its leaf.  The other parts are who holds which block
(`InvBlocks`, `CallOK`), that an insert under way has its key to itself (`InvNew`), and that
`deleted_node` heads a list of exactly the removed leaves (`InvList`).  Only two
steps change `T`: `ForkTree` is the store that puts a new inner node above what was at
the place (`ForkPlace` shows that the walk, which stops where the key ceases to
agree, has come to the one place where it belongs), `SpliceTree` the store that
replaces a node by its other child.  `DeletesFreeOnce` counts descents as for critnib;
`WritersRefine` reads the dictionary off the live leaves (`FindKnown`), which the steps other
than those two leave alone.

**`th.c` (`HarnessInv`).** Each thread's place in its round determines the call it is in
(`Place`); as long as no insert has failed, the place also determines what the
dictionary has for the round's key (`OwnKey`), because no other thread has that
key, and a get under way can return only that (`GetsKey`).  So a remove is asked for a key
that is there, and `Crash` needs a failed insert; after it nothing runs any more (`Killed`),
and of `HarnessInv` the state need only keep that an insert failed and what the
verdict rests on.  `Phase` says which threads
exist at each point of `run_test`, `Told` that `any_bad` together with `bad` is exactly
whether some CHECK failed.

**`Tlog` (`TlogInv`).** A slot that was given out has one owner until it is filled
(`Owned`); the slots of finished calls hold what was logged, stamped in order
(`Kept`, `Stamped`, `Later`), without a gap up to the call before the present one
(`NoneLost`).  `Saving` ties the file to the memory while it is written, and `Saved` restates
this of the file alone, since the memory goes on changing after it.

**Only model-checked.** `Tcradix`, `Corr1`, the sweeps over inputs of `CritnibBits` and `Util`
(what the recursive loop of `util_checksum` computes is an induction over its turns), and everything temporal:
liveness under fairness is out of the prover's reach.

## 7. Findings

* **A stale get can walk for ever** (`get_stuck`, `critnib.c:290`).  free_node links a
  recycled node into the pool through child[0].  If a stalled reader stands on
  it, and the pool's next node is one that used to be its ancestor, the pool link
  and the old child link make a cycle; the walk never gets to the second load of
  `remove_count`, although critnib.c:62-64 says that a stalled reader "will notice
  the data being stale and restart the work".  The cycle lasts until an insert
  takes a node out of the pool again.  find_le follows the same links, by
  recursion (line 631).
* **find_le can return what was never the answer** (`le_scan`, `critnib.c:641`).  Its
  scan reads slots one after the other.  With 0 and 3 in the tree, find_le(2) sees
  slot 2 empty; insert(2) and insert(1) follow; it goes on to slot 1 and returns
  1's value.  The answer was 0's until insert(2), and 2's from then on.
  critnib.c:100-102 promises "a value that was current at any point between the
  call start and end".  `LeSound` is what does hold.
  critnib-tag.c has the same scan (lines 561-568) and the same promise (lines
  100-103); `ResultsSound` is what holds of it.

A third is too plain for a run of its own: **util_fgets does not convert every CRLF**
(`util.c:200`), although util.c:188 promises "fgets wrapper with conversion CRLF to
LF".  If the end of the caller's buffer falls between the two characters, the
first call returns a string that ends in CR and the second LF alone, which is too short
to be looked at (util.c:198).  `FgetsKeeps` is what does hold: nothing else is lost or
changed, and every CRLF that comes in one piece is converted.

Two remarks on the test programs, of which no line of the repository says otherwise.
1corr.c would not notice the loss of the keys 14 and 15 in test_le_basic
(`LossNoticed`).  And neither program looks at what insert returns: after one
that got no memory, `th.c:118` and `1corr.c:78` remove a key that is not there, and
critnib_tag_remove, which does not test for an empty slot, may dereference NULL
(`NoFalseAlarm` and `CorrPasses` say that this takes a failed insert).

## 8. Not modelled

* `os_thread_posix.c` and `os_thread.h`: each function passes its argument on to
  pthread; the dictionaries use the mutex alone, and the models have it as `lock`.
* `out.c`, `out.h`: assertion macros and messages.  What the dictionaries assert is
  covered by invariants.
* `util_parse_size`, `util_is_zeroed`, `util_concat_str`, `util_safe_strcpy`, `util_localtime`, `util_init` and
  the macros of `util.h`: one library call or table lookup each, called by nobody.
* `test.c`: three calls without a check.  `readtlog`: prints the file of `tlog_save`.
* The code for Windows and under `TRACEMEM`.
* In `th.c` a pthread_create that fails (line 274: the thread, whose handle has never
  been set, is joined all the same, which is undefined); random keys that are equal by chance.

## 9. Plan

In place: all modules of section 2, the runs of section 5, the proofs of section 6.
What could be added:

1. `Tcradix`: `PoolClean` and `DeleteFreesOnce`.  `insert` and `nremove` compute lists of memory
   states by recursion over the levels; a proof needs them as steps.
2. Runs with more blocks or levels where the time allows; the wrap of
   `remove_count` as a small modulus.
