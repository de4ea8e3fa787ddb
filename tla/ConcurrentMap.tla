--------------------------- MODULE ConcurrentMap ---------------------------
(***************************************************************************)
(* What the dictionaries of this repository promise their callers: the     *)
(* comments of critnib_insert, critnib_remove and critnib_get, and the     *)
(* guarantee of the CONCURRENCY ISSUES comment, "the result of get() or    *)
(* find_le() is a value that was current at any point between the call     *)
(* start and end".                                                         *)
(*                                                                         *)
(* A write takes effect at one moment between its call and its return.  A  *)
(* read returns any value its key has had since the call.                  *)
(***************************************************************************)
CONSTANTS Writers, Readers, Keys, Values, NULL

VARIABLES
    map,     \* the value of each key, NULL when absent
    wcall,   \* per writer: its call, or NULL
    wres,    \* per writer: its result, or "none" before the effect
    rcall,   \* per reader: the key it asks for, or NULL
    rres,    \* per reader: its result, or "none" before it has one
    current  \* per reader: the values its key has had since the call

vars == <<map, wcall, wres, rcall, rres, current>>

Calls == [op : {"insert"}, key : Keys, value : Values]
         \cup [op : {"remove"}, key : Keys, value : {NULL}]

Init == /\ map = [k \in Keys |-> NULL]
        /\ wcall = [w \in Writers |-> NULL]
        /\ wres = [w \in Writers |-> "none"]
        /\ rcall = [r \in Readers |-> NULL]
        /\ rres = [r \in Readers |-> "none"]
        /\ current = [r \in Readers |-> {}]

Call(w) == /\ wcall[w] = NULL
           /\ \E c \in Calls : wcall' = [wcall EXCEPT ![w] = c]
           /\ UNCHANGED <<map, wres, rcall, rres, current>>

\* Every reader under way sees that its key has had the value of this moment.
Observe == current' = [r \in Readers |->
              IF rcall[r] = NULL THEN {} ELSE current[r] \cup {map'[rcall[r]]}]

\* w's call, which is of this kind, makes the dictionary m and returns res.
Effect(w, op, m, res) == /\ wcall[w] # NULL
                         /\ wcall[w].op = op
                         /\ wres[w] = "none"
                         /\ map' = m
                         /\ wres' = [wres EXCEPT ![w] = res]
                         /\ Observe
                         /\ UNCHANGED <<wcall, rcall, rres>>

With(w, v) == [map EXCEPT ![wcall[w].key] = v]

InsertNew(w) == /\ Effect(w, "insert", With(w, wcall[w].value), "0")
                /\ map[wcall[w].key] = NULL

InsertExisting(w) == /\ Effect(w, "insert", map, "EEXIST")
                     /\ map[wcall[w].key] # NULL

InsertNoMemory(w) == Effect(w, "insert", map, "ENOMEM")

\* Removing an absent key changes nothing and returns NULL.
Remove(w) == Effect(w, "remove", With(w, NULL), map[wcall[w].key])

Return(w) == /\ wres[w] # "none"
             /\ wcall' = [wcall EXCEPT ![w] = NULL]
             /\ wres' = [wres EXCEPT ![w] = "none"]
             /\ UNCHANGED <<map, rcall, rres, current>>

Get(r) == /\ rcall[r] = NULL
          /\ \E k \in Keys : /\ rcall' = [rcall EXCEPT ![r] = k]
                             /\ current' = [current EXCEPT ![r] = {map[k]}]
          /\ UNCHANGED <<map, wcall, wres, rres>>

GetResult(r) == /\ rcall[r] # NULL
                /\ rres[r] = "none"
                /\ \E v \in current[r] : rres' = [rres EXCEPT ![r] = v]
                /\ UNCHANGED <<map, wcall, wres, rcall, current>>

GetReturn(r) == /\ rres[r] # "none"
                /\ rcall' = [rcall EXCEPT ![r] = NULL]
                /\ rres' = [rres EXCEPT ![r] = "none"]
                /\ current' = [current EXCEPT ![r] = {}]
                /\ UNCHANGED <<map, wcall, wres>>

Next == \/ \E w \in Writers : \/ Call(w) \/ Return(w)
                              \/ InsertNew(w) \/ InsertExisting(w)
                              \/ InsertNoMemory(w) \/ Remove(w)
        \/ \E r \in Readers : Get(r) \/ GetResult(r) \/ GetReturn(r)

Spec == Init /\ [][Next]_vars
=============================================================================
