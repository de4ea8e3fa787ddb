--------------------------- MODULE MCCritnibLive ---------------------------
(***************************************************************************)
(* Liveness of CritnibGet for TLC, in one of two scenarios: a reader       *)
(* watches one writer, or two writers are alone and compete for the mutex. *)
(* They restrict the calls made and when malloc fails, never a step of a   *)
(* call under way.                                                         *)
(***************************************************************************)
EXTENDS MCCritnibGet

VARIABLE watched

\* Three slots of one node, which thus outlives the loss of a leaf.
OneNode  == {[p \in 0 .. 1 |-> IF p = 0 THEN i ELSE 0] : i \in 0 .. 2}
LiveKeys == ThreeKeys \cup OneNode

Called(w) == wpc[w] = "idle" /\ wpc'[w] # "idle"

\* Tree first, then removes that collapse nodes and inserts that rebuild them
\* under the reader; malloc fails only when it has no block left.
Watched ==
    /\ Scenario
    /\ \A w \in Writers : Called(w) => w = CHOOSE u \in Writers : TRUE
    /\ \A w \in Writers : Called(w) => wkey'[w] \in ThreeKeys
    /\ \A w \in Writers : /\ InsertNoLeaf(w) => Raw(Leaves) = {}
                          /\ InsertNoNode(w) => Raw(Nodes) = {}

\* Keys that are present or absent, in any order, and malloc may always fail.
Alone ==
    /\ UNCHANGED rpc
    /\ inserts' <= 3
    /\ \A w \in Writers : Called(w) => wkey'[w] \in OneNode

LiveInit == GetInit /\ watched \in BOOLEAN

LiveSpec ==
    /\ LiveInit
    /\ [][Next /\ (IF watched THEN Watched ELSE Alone) /\ UNCHANGED watched]_<<vars, watched>>
    /\ \A w \in Writers : WF_vars(Run(w) /\ Seen)
    /\ \A r \in Readers : WF_vars(GetRun(r))
=============================================================================
