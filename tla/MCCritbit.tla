----------------------------- MODULE MCCritbit -----------------------------
(***************************************************************************)
(* Critbit for TLC.  The callers keep to UniqueKeys, and the value stored  *)
(* under a key names it.  Both restrict the calls made, never a step of a  *)
(* call under way.                                                         *)
(***************************************************************************)
EXTENDS Critbit

KeyOf(n) == [p \in Digits |-> (n \div 2^p) % 2]
ValueOf(key) == <<"v0", "v1", "v2", "v3">>[key[0] + 2 * key[1] + 1]
ThreeKeys == {KeyOf(n) : n \in {0, 2, 3}}
MCValues  == {ValueOf(key) : key \in Keys}

OwnValue == \A w \in Writers : wr[w].op = "none" /\ wr'[w].op = "insert" =>
                wr'[w].value = ValueOf(wr'[w].key)

OwnSpec == Init /\ [][Next /\ UniqueKeys /\ OwnValue]_vars /\ Fairness
=============================================================================
