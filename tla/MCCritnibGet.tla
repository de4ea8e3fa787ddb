---------------------------- MODULE MCCritnibGet ----------------------------
(***************************************************************************)
(* Instances of CritnibGet for TLC.  Keys are two binary digits, so NIB is *)
(* 1 and the nibbles of the code are bits.                                 *)
(***************************************************************************)
EXTENDS CritnibShape, Sequences, TLC

Key2(n) == [p \in 0 .. 1 |-> (n \div 2^p) % 2]
OneKey    == {Key2(2)}
TwoKeys   == {Key2(n) : n \in {0, 2}}
ThreeKeys == {Key2(n) : n \in {0, 2, 3}}
FourKeys  == {Key2(n) : n \in 0 .. 3}

\* Values are stored and compared, nothing else.
ValueSymmetry == Permutations(Values)
\* Writers differ in nothing but their names.
WriterSymmetry == Permutations(Writers)

\* A scenario: the writers first insert 0, 2 and 3 in this order, which makes
\* a tree of two nodes, all with one value; then everything may happen.  It
\* restricts the calls made, never a step of a call under way, so that its
\* behaviours are behaviours of Spec.
Fill == <<Key2(0), Key2(2), Key2(3)>>
Filled == inserts >= Len(Fill) /\ \A w \in Writers : wop[w] # "insert"

Scenario ==
    /\ inserts' # inserts /\ inserts < Len(Fill) =>
          \E w \in Writers :
             /\ wpc[w] = "idle"
             /\ wkey'[w] = Fill[inserts + 1]
             /\ \A l \in Leaves : st[l] = "live" => lval[l] = wval'[w]
    /\ removes' # removes \/ (rpc' # rpc /\ \A r \in Readers : rpc[r] = "idle")
          => Filled \/ inserts > Len(Fill)

FillSpec == GetInit /\ [][Next /\ Scenario]_vars

FairFillSpec ==
    /\ FillSpec
    /\ \A w \in Writers : WF_vars(Run(w) /\ Seen)
    /\ \A r \in Readers : WF_vars(GetRun(r))
=============================================================================
