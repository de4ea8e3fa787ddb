-------------------------------- MODULE Tlog --------------------------------
(***************************************************************************)
(* tlog.c: a log in memory that threads write to without a lock, each call *)
(* to the slot that an atomic add gives it, and that is saved to a file.   *)
(* Nothing clears the slots.  No program of the repository calls it: that  *)
(* tlog_init waits for the others is assumed, tlog_save may come any time. *)
(***************************************************************************)
EXTENDS Naturals, Sequences, FiniteSetsExt

CONSTANTS
    Loggers,     \* the threads, numbers above 0
    TLOG_SIZE,
    MaxCalls,    \* bound: calls of tlog per thread
    MaxInits     \* bound: calls of tlog_init

ASSUME TlogAssumption == /\ Loggers \subseteq Nat \ {0}
                         /\ {TLOG_SIZE, MaxCalls} \subseteq Nat \ {0}
                         /\ MaxInits \in Nat

VARIABLES
    i, tlog_data,
    lpc, o,          \* per thread: where it is in tlog, its slot (0 outside)
    calls,           \* calls so far, which are also what is logged
    clock,           \* what rdtsc counts
    spc, l, file,    \* tlog_save; the file
    inits,
    returned,        \* auxiliary: per slot, what was logged since tlog_init by
                     \* a call that has returned
    due, quiet       \* auxiliary: returned when tlog_save began, and whether no
                     \* thread was inside tlog

tlogvars == <<i, tlog_data, lpc, o, calls, clock, spc, l, file, inits,
              returned, due, quiet>>

Slots == 0 .. TLOG_SIZE - 1
Idle  == \A t \in Loggers : lpc[t] = "idle"

TlogInit ==
    /\ i = 0
    /\ tlog_data = [s \in Slots |-> [timestamp |-> 0, tid |-> 0, data |-> 0]]
    /\ lpc = [t \in Loggers |-> "idle"]
    /\ o = [t \in Loggers |-> 0]
    /\ calls = [t \in Loggers |-> 0]
    /\ clock = 1
    /\ spc = "none" /\ l = 0 /\ file = <<>>
    /\ inits = 0
    /\ returned = <<>> /\ due = <<>> /\ quiet = TRUE

tlog_init ==
    /\ Idle /\ spc # "write"
    /\ inits < MaxInits
    /\ inits' = inits + 1
    /\ i' = 0
    /\ returned' = <<>>
    /\ UNCHANGED <<tlog_data, lpc, o, calls, clock, spc, l, file, due, quiet>>

-----------------------------------------------------------------------------
(* tlog.                                                                   *)

\* util_fetch_and_add64; a call that finds the log full leaves it alone.
Claim(t) ==
    /\ lpc[t] = "idle"
    /\ calls[t] < MaxCalls
    /\ calls' = [calls EXCEPT ![t] = @ + 1]
    /\ i' = i + 1
    /\ o' = [o EXCEPT ![t] = IF i < TLOG_SIZE THEN i ELSE 0]
    /\ lpc' = [lpc EXCEPT ![t] = IF i < TLOG_SIZE THEN "stamp" ELSE "idle"]
    /\ UNCHANGED <<tlog_data, clock, spc, l, file, inits, returned, due, quiet>>

\* Mutant: what a machine without rdtsc gets.
getticks0 == 0

getticks == clock

Stamp(t) ==
    /\ lpc[t] = "stamp"
    /\ tlog_data' = [tlog_data EXCEPT ![o[t]].timestamp = getticks]
    /\ clock' = clock + 1
    /\ lpc' = [lpc EXCEPT ![t] = "fill"]
    /\ UNCHANGED <<i, o, calls, spc, l, file, inits, returned, due, quiet>>

\* tid, act, data1 and data2
Fill(t) ==
    /\ lpc[t] = "fill"
    /\ tlog_data' = [tlog_data EXCEPT ![o[t]].tid = t, ![o[t]].data = calls[t]]
    /\ returned' = [s \in DOMAIN returned \cup {o[t]} |->
                      IF s = o[t] THEN [tid |-> t, data |-> calls[t]] ELSE returned[s]]
    /\ lpc' = [lpc EXCEPT ![t] = "idle"]
    /\ o' = [o EXCEPT ![t] = 0]
    /\ UNCHANGED <<i, calls, clock, spc, l, file, inits, due, quiet>>

tlog(t) == Claim(t) \/ Stamp(t) \/ Fill(t)

-----------------------------------------------------------------------------
(* tlog_save.                                                              *)

\* Mutant: a full log is one too short.
LengthLess == IF i >= TLOG_SIZE THEN TLOG_SIZE - 1 ELSE i

Length == IF i > TLOG_SIZE THEN TLOG_SIZE ELSE i

\* creat truncates the file; when it fails nothing else happens.
SaveLength ==
    /\ spc # "write"
    /\ spc' = "write"
    /\ l' = Length
    /\ file' = <<>>
    /\ due' = returned
    /\ quiet' = Idle
    /\ UNCHANGED <<i, tlog_data, lpc, o, calls, clock, inits, returned>>

\* write goes through the slots while others may change them.
SaveSlot ==
    /\ spc = "write"
    /\ Len(file) < l
    /\ file' = Append(file, tlog_data[Len(file)])
    /\ UNCHANGED <<i, tlog_data, lpc, o, calls, clock, spc, l, inits, returned, due, quiet>>

\* Nobody looks whether write has written everything.
SaveClose ==
    /\ spc = "write"
    /\ spc' = IF Len(file) = l THEN "saved" ELSE "short"
    /\ l' = 0
    /\ UNCHANGED <<i, tlog_data, lpc, o, calls, clock, file, inits, returned, due, quiet>>

tlog_save == SaveLength \/ SaveSlot \/ SaveClose

TlogNext == tlog_init \/ tlog_save \/ \E t \in Loggers : tlog(t)

TlogSpec == TlogInit /\ [][TlogNext]_tlogvars

-----------------------------------------------------------------------------
(* Properties.                                                             *)

Closed  == spc \in {"saved", "short"}
InFile  == 0 .. Len(file) - 1
Rec(s)  == file[s + 1]

\* The file holds what was logged: every call that had returned when
\* tlog_save began is there, in its slot and whole, unless write was short.
\* When no call was under way, there is nothing else in it, such as what a
\* slot was left with before tlog_init.
SaveExact ==
    Closed =>
      /\ \A s \in InFile \cap DOMAIN due :
            due[s] = [tid |-> Rec(s).tid, data |-> Rec(s).data]
      /\ spc = "saved" => DOMAIN due \subseteq InFile
      /\ quiet => InFile \subseteq DOMAIN due

\* The records of one thread are in the order of its calls, in the file and
\* by their timestamps, and none between two of them is missing, although the
\* slot and the time are taken in separate steps and a full log drops calls.
ThreadOrder ==
    Closed =>
      \A a, b \in InFile \cap DOMAIN due :
        a < b /\ Rec(a).tid = Rec(b).tid =>
          /\ Rec(a).timestamp < Rec(b).timestamp
          /\ Rec(a).data < Rec(b).data
          /\ \A x \in Rec(a).data .. Rec(b).data :
                \E s \in a .. b : Rec(s).tid = Rec(a).tid /\ Rec(s).data = x
=============================================================================
