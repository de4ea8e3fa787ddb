----------------------------- MODULE MCHarness -----------------------------
(***************************************************************************)
(* The two test programs for TLC, one of which is run: th.c on one or two  *)
(* processors, with a writer in the mixed tests, or 1corr.c.               *)
(***************************************************************************)
EXTENDS Harness, Corr1

CONSTANTS lo, hi, own1, own2

VARIABLE program

SixKeys == <<One, lo, own1, K, hi, own2>>
TwoKeys == <<lo, hi>>
OwnKeys == <<{own1}, {own2}>>

ProgramInit == program \in {"th", "1corr"} /\ Init /\ CorrInit

th    == program = "th" /\ Next /\ UNCHANGED <<program, corrvars>>
corr1 == program = "1corr" /\ CorrNext /\ UNCHANGED <<program, vars>>

ProgramSpec == /\ ProgramInit
               /\ [][th \/ corr1]_<<program, vars, corrvars>>
               /\ program = "th" => Fairness
               /\ WF_corrvars(corr1)

\* Thread t is in a call that has no result yet.
InCall(t) == \/ wcall[t] # NULL /\ wres[t] = "none"
             \/ t # Main /\ rcall[t] # NULL /\ rres[t] = "none"
             \/ t # Main /\ at[t] > 0 /\ op(t) = "find_le"

\* The program that was started ends, unless a call of a dictionary never
\* does: done is seen by every thread whose calls return, every join of those
\* returns, and no loop of 1corr.c goes on for ever.
ProgramEnds ==
    \/ <>(IF program = "th" THEN mpc \in {"exit", "crash"}
                            ELSE status \notin {"new", "run"})
    \/ \E t \in Threads \cup {Main} : <>[]InCall(t)
=============================================================================
