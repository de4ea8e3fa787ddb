---------------------------- MODULE MCCritnibLe ----------------------------
(***************************************************************************)
(* Instances of CritnibLe for TLC.  The value stored under a key names it. *)
(***************************************************************************)
EXTENDS CritnibLeInv

Number(key) == IF LEVELS = 1 THEN key[0] ELSE key[0] + (NIB + 1) * key[1]
KeyOf(n) == CHOOSE key \in Key : Number(key) = n
KeySet(S) == {KeyOf(n) : n \in S}
ValueOf(key) == <<"v0", "v1", "v2", "v3", "v4", "v5", "v6", "v7", "v8">>[Number(key) + 1]

\* Four slots of one node.
SlotKeys == KeySet(0 .. 3)
ThirdSlot == KeySet({2})
\* Trees of two ternary levels, and what to ask them for.
FourKeys  == KeySet({0, 1, 2, 3})
UpperKeys == KeySet({1, 2, 3})
MCValues == {ValueOf(key) : key \in Keys}

\* Restricts the calls made, never a step of a call under way.
OwnValue ==
    \A w \in Writers : wop[w] = "none" /\ wop'[w] = "insert" =>
        wval'[w] = ValueOf(wkey'[w])

OwnSpec == LeInit /\ [][LeNext /\ OwnValue]_levars

\* The writers first insert 0, 2 and 3 in this order, which makes a tree of
\* two nodes, the lower with its middle slot empty; then everything may
\* happen.
Fill == <<KeyOf(0), KeyOf(2), KeyOf(3)>>
Filled == inserts >= Len(Fill) /\ \A w \in Writers : wop[w] # "insert"
Scenario ==
    /\ inserts' # inserts /\ inserts < Len(Fill) =>
          \E w \in Writers : wpc[w] = "idle" /\ wkey'[w] = Fill[inserts + 1]
    /\ removes' # removes \/ (rpc' # rpc /\ \A r \in Readers : rpc[r] = "idle")
          => Filled \/ inserts > Len(Fill)

FillSpec == LeInit /\ [][LeNext /\ OwnValue /\ Scenario]_levars
=============================================================================
