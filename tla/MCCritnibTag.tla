---------------------------- MODULE MCCritnibTag ---------------------------
(***************************************************************************)
(* CritnibTag for TLC, with ternary keys of two digits.  The value stored  *)
(* under a key names it.                                                   *)
(***************************************************************************)
EXTENDS CritnibTag

KeyOf(n) == [p \in Digits |-> IF p = 0 THEN n % (NIB + 1) ELSE n \div (NIB + 1)]
\* Two slots of one node, so that its third is empty, and a key in another.
ThreeKeys == {KeyOf(n) : n \in {0, 2, 4}}
\* What the reader asks for: the middle one.
OneKey    == {KeyOf(2)}

ValueOf(key) == <<"v0", "v1", "v2", "v3", "v4">>[key[0] + (NIB + 1) * key[1] + 1]
MCValues == {ValueOf(key) : key \in Keys}

\* These restrict the calls made, never a step of a call under way.
OwnValue ==
    \A w \in Writers : wop[w] = "none" /\ wop'[w] = "insert" =>
        wval'[w] = ValueOf(wkey'[w])

\* In each life 0 and 2 are inserted first, with removes at any time; then
\* the reader may start.
Fill == <<KeyOf(0), KeyOf(2)>>
Scenario ==
    /\ inserts' # inserts /\ inserts < Len(Fill) /\ up =>
          \E w \in Writers : wpc[w] = "idle" /\ wkey'[w] = Fill[inserts + 1]
    /\ rpc' # rpc /\ (\A r \in Readers : rpc[r] = "idle") => inserts >= Len(Fill)

FillSpec == TagInit /\ [][TagNext /\ OwnValue /\ Scenario]_tvars
=============================================================================
