----------------------------- MODULE TlogProofs -----------------------------
(***************************************************************************)
(* What tlog.c promises, for any number of threads, calls and slots.  The  *)
(* file is written from slots that other threads go on filling, and what a *)
(* closed file says must outlive the memory it was copied from, so the     *)
(* inductive invariant speaks of the memory (who owns which slot, what the *)
(* slots that are done hold), of the snapshot due and of the file.         *)
(***************************************************************************)
EXTENDS Tlog, TLAPS

Record == [timestamp : Nat, tid : Nat, data : Nat]

TlogType ==
    /\ i \in Nat
    /\ tlog_data \in [Slots -> Record]
    /\ lpc \in [Loggers -> {"idle", "stamp", "fill"}]
    /\ o \in [Loggers -> Nat]
    /\ calls \in [Loggers -> Nat]
    /\ clock \in Nat
    /\ spc \in {"none", "write", "saved", "short"}
    /\ l \in Nat
    /\ file \in Seq(Record)
    /\ quiet \in BOOLEAN

\* What calls that have returned logged, as returned and due record it.
Logged(f) == /\ DOMAIN f \subseteq Slots
             /\ \A s \in DOMAIN f : f[s] \in [tid : Loggers, data : Nat]

\* The calls of a thread are in order, and none between two of them is missing.
InOrder(f) ==
    \A a, b \in DOMAIN f : a < b /\ f[a].tid = f[b].tid =>
       /\ f[a].data < f[b].data
       /\ \A x \in f[a].data .. f[b].data :
             \E s \in DOMAIN f : /\ a <= s /\ s <= b
                                 /\ f[s].tid = f[a].tid /\ f[s].data = x

Busy(t) == lpc[t] # "idle"

\* A slot that was given out is owned by one call, until that has returned.
Owned ==
    /\ \A t \in Loggers : Busy(t) => /\ o[t] < i /\ o[t] \in Slots
                                     /\ o[t] \notin DOMAIN returned
    /\ \A t, u \in Loggers : Busy(t) /\ Busy(u) /\ t # u => o[t] # o[u]
    /\ \A s \in DOMAIN returned : s < i
    /\ \A s \in Slots : s < i => \/ s \in DOMAIN returned
                                 \/ \E t \in Loggers : Busy(t) /\ o[t] = s

\* The slots of calls that have returned hold what was logged.
Kept ==
    \A s \in DOMAIN returned :
       /\ tlog_data[s].tid = returned[s].tid
       /\ tlog_data[s].data = returned[s].data
       /\ tlog_data[s].timestamp < clock

\* They are stamped in order.
Stamped ==
    \A a, b \in DOMAIN returned : a < b /\ returned[a].tid = returned[b].tid =>
       tlog_data[a].timestamp < tlog_data[b].timestamp

\* A call under way comes after those that its thread has made.
Later ==
    \A t \in Loggers, a \in DOMAIN returned :
       returned[a].tid = t /\ Busy(t) =>
          /\ a < o[t]
          /\ returned[a].data < calls[t]
          /\ lpc[t] = "fill" => tlog_data[a].timestamp < tlog_data[o[t]].timestamp
Ticked ==
    \A t \in Loggers : lpc[t] = "fill" => tlog_data[o[t]].timestamp < clock

\* Nothing is lost up to the call before this one, nor, while the log has
\* room, up to the last call.
Until(a, c) ==
    \A x \in returned[a].data .. c :
       \E s \in DOMAIN returned : /\ a <= s
                                  /\ returned[s].tid = returned[a].tid
                                  /\ returned[s].data = x
NoneLost ==
    \A t \in Loggers, a \in DOMAIN returned : returned[a].tid = t =>
       /\ returned[a].data <= calls[t]
       /\ Busy(t) => Until(a, calls[t] - 1)
       /\ ~Busy(t) /\ i < TLOG_SIZE => Until(a, calls[t])

\* While tlog_save writes, the slots that are due stay as they are.
Saving ==
    spc = "write" =>
       /\ \A s \in DOMAIN due : s \in DOMAIN returned /\ due[s] = returned[s]
       /\ \A s \in DOMAIN due : s < Len(file) => file[s + 1] = tlog_data[s]
       /\ Len(file) <= l /\ l <= TLOG_SIZE
       /\ \A s \in DOMAIN due : s < l
       /\ quiet => \A s \in Slots : s < l => s \in DOMAIN due

\* What the file has, after the memory has gone on.
Saved ==
    /\ \A s \in DOMAIN due : s < Len(file) =>
          file[s + 1].tid = due[s].tid /\ file[s + 1].data = due[s].data
    /\ \A a, b \in DOMAIN due :
          a < b /\ b < Len(file) /\ due[a].tid = due[b].tid =>
             file[a + 1].timestamp < file[b + 1].timestamp
    /\ spc = "saved" => \A s \in DOMAIN due : s < Len(file)
    /\ Len(file) <= TLOG_SIZE
    /\ quiet => \A s \in Slots : s < Len(file) => s \in DOMAIN due

TlogInv ==
    /\ TlogType
    /\ Logged(returned) /\ Logged(due)
    /\ InOrder(returned) /\ InOrder(due)
    /\ Owned /\ Kept /\ Stamped /\ Later /\ Ticked /\ NoneLost
    /\ Saving /\ Saved

-----------------------------------------------------------------------------
LEMMA TlogStart ==
    ASSUME TlogInit
    PROVE  TlogInv
<1>1. DOMAIN <<>> = {} /\ Len(<<>>) = 0 /\ <<>> \in Seq(Record)
  OBVIOUS
<1>2. TlogType
  <2>1. [timestamp |-> 0, tid |-> 0, data |-> 0] \in Record
    BY DEF Record
  <2> QED BY <1>1, <2>1 DEF TlogInit, TlogType
<1>3. Logged(returned) /\ Logged(due) /\ InOrder(returned) /\ InOrder(due)
  BY <1>1 DEF TlogInit, Logged, InOrder
<1>4. Owned
  BY <1>1 DEF TlogInit, Owned, Busy, Slots
<1>5. Kept /\ Stamped /\ Later /\ NoneLost
  BY <1>1 DEF TlogInit, Kept, Stamped, Later, NoneLost
<1>6. Ticked
  BY DEF TlogInit, Ticked
<1>7. Saving /\ Saved
  BY <1>1, TlogAssumption DEF TlogInit, Saving, Saved, Slots
<1> QED BY <1>2, <1>3, <1>4, <1>5, <1>6, <1>7 DEF TlogInv

\* tlog_init forgets the log, but neither a snapshot nor a closed file.
LEMMA InitStep ==
    ASSUME TlogInv, tlog_init
    PROVE  TlogInv'
<1>1. /\ i' = 0 /\ returned' = <<>> /\ DOMAIN returned' = {} /\ spc # "write"
      /\ UNCHANGED <<tlog_data, lpc, o, calls, clock, spc, l, file, due, quiet>>
      /\ \A t \in Loggers : ~Busy(t)'
  BY DEF tlog_init, Idle, Busy
<1>2. TlogType'
  BY <1>1 DEF TlogInv, TlogType
<1>3. (Logged(returned) /\ Logged(due) /\ InOrder(returned) /\ InOrder(due))'
  BY <1>1 DEF TlogInv, Logged, InOrder
<1>4. Owned'
  BY <1>1 DEF Owned, Slots
<1>5. (Kept /\ Stamped /\ Later /\ NoneLost)'
  BY <1>1 DEF Kept, Stamped, Later, NoneLost
<1>6. Ticked'
  BY <1>1 DEF TlogInv, Ticked, Busy
<1>7. (Saving /\ Saved)'
  BY <1>1 DEF TlogInv, Saving, Saved
<1> QED BY <1>2, <1>3, <1>4, <1>5, <1>6, <1>7 DEF TlogInv

LEMMA ClaimStep ==
    ASSUME TlogInv, NEW t \in Loggers, Claim(t)
    PROVE  TlogInv'
<1>0. /\ TlogType /\ Owned /\ Kept /\ Stamped /\ Later /\ Ticked /\ NoneLost
      /\ Saving /\ Saved /\ Logged(returned) /\ Logged(due)
      /\ InOrder(returned) /\ InOrder(due)
  BY DEF TlogInv
<1>1. /\ i' = i + 1 /\ i \in Nat /\ TLOG_SIZE \in Nat
      /\ UNCHANGED <<tlog_data, clock, spc, l, file, returned, due, quiet>>
      /\ ~Busy(t)
      /\ calls'[t] = calls[t] + 1
      /\ \A u \in Loggers \ {t} : lpc'[u] = lpc[u] /\ o'[u] = o[u] /\ calls'[u] = calls[u]
      /\ i < TLOG_SIZE => lpc'[t] = "stamp" /\ o'[t] = i
      /\ ~(i < TLOG_SIZE) => lpc'[t] = "idle"
  BY <1>0, TlogAssumption DEF Claim, TlogType, Busy
<1>2. TlogType'
  BY <1>0, TlogAssumption DEF Claim, TlogType
<1>3. (Logged(returned) /\ Logged(due) /\ InOrder(returned) /\ InOrder(due))'
  BY <1>0, <1>1 DEF Logged, InOrder
<1>4. Owned'
  <2>1. \A u \in Loggers : Busy(u)' => /\ o'[u] < i' /\ o'[u] \in Slots
                                       /\ o'[u] \notin DOMAIN returned'
    BY <1>0, <1>1 DEF Owned, Busy, Slots, TlogType
  <2>2. \A u, v \in Loggers : Busy(u)' /\ Busy(v)' /\ u # v => o'[u] # o'[v]
    BY <1>0, <1>1 DEF Owned, Busy, TlogType
  <2>3. \A s \in DOMAIN returned' : s < i'
    BY <1>0, <1>1 DEF Owned, Logged, Slots
  <2>4. ASSUME NEW s \in Slots, s < i'
        PROVE  s \in DOMAIN returned' \/ \E u \in Loggers : Busy(u)' /\ o'[u] = s
    <3>1. CASE s < i
      <4>1. CASE s \in DOMAIN returned BY <4>1, <1>1
      <4>2. CASE s \notin DOMAIN returned
        <5>1. PICK u \in Loggers : Busy(u) /\ o[u] = s
          BY <3>1, <4>2, <1>0 DEF Owned
        <5>2. Busy(u)' /\ o'[u] = s BY <5>1, <1>1 DEF Busy
        <5> QED BY <5>2
      <4> QED BY <4>1, <4>2
    <3>2. CASE ~(s < i)
      <4>1. s = i /\ i < TLOG_SIZE BY <2>4, <3>2, <1>1 DEF Slots
      <4>2. Busy(t)' /\ o'[t] = s BY <4>1, <1>1 DEF Busy
      <4> QED BY <4>2
    <3> QED BY <3>1, <3>2
  <2> QED BY <2>1, <2>2, <2>3, <2>4 DEF Owned
<1>5. (Kept /\ Stamped)'
  BY <1>0, <1>1 DEF Kept, Stamped
<1>6. Later'
  <2> SUFFICES ASSUME NEW u \in Loggers, NEW a \in DOMAIN returned,
                      returned[a].tid = u, Busy(u)'
               PROVE  /\ a < o'[u]
                      /\ returned[a].data < calls'[u]
                      /\ lpc'[u] = "fill" => tlog_data[a].timestamp < tlog_data[o'[u]].timestamp
    BY <1>1 DEF Later
  <2>1. CASE u # t
    BY <2>1, <1>0, <1>1 DEF Later, Busy
  <2>2. CASE u = t
    <3>1. returned[a].data <= calls[t] /\ returned[a].data \in Nat /\ calls[t] \in Nat
      BY <2>2, <1>0 DEF NoneLost, Logged, TlogType
    <3>2. a < i /\ i < TLOG_SIZE /\ lpc'[t] = "stamp"
      BY <2>2, <1>0, <1>1 DEF Owned, Busy
    <3> QED BY <2>2, <3>1, <3>2, <1>1
  <2> QED BY <2>1, <2>2
<1>7. Ticked'
  BY <1>0, <1>1 DEF Ticked
<1>8. NoneLost'
  <2> SUFFICES ASSUME NEW u \in Loggers, NEW a \in DOMAIN returned, returned[a].tid = u
               PROVE  /\ returned[a].data <= calls'[u]
                      /\ Busy(u)' => Until(a, calls'[u] - 1)
                      /\ ~Busy(u)' /\ i' < TLOG_SIZE => Until(a, calls'[u])
    BY <1>1 DEF NoneLost, Until
  <2>1. /\ returned[a].data <= calls[u] /\ returned[a].data \in Nat /\ calls[u] \in Nat
        /\ Busy(u) => Until(a, calls[u] - 1)
        /\ ~Busy(u) /\ i < TLOG_SIZE => Until(a, calls[u])
    BY <1>0 DEF NoneLost, Logged, TlogType
  <2>2. CASE u # t
    BY <2>1, <2>2, <1>1 DEF Busy
  <2>3. CASE u = t
    <3>1. calls'[u] - 1 = calls[u] BY <2>1, <2>3, <1>1
    <3>2. i < TLOG_SIZE <=> Busy(u)' BY <2>3, <1>1 DEF Busy
    <3> QED BY <2>1, <2>3, <3>1, <3>2, <1>1
  <2> QED BY <2>2, <2>3
<1>9. (Saving /\ Saved)'
  BY <1>0, <1>1 DEF Saving, Saved
<1> QED BY <1>2, <1>3, <1>4, <1>5, <1>6, <1>7, <1>8, <1>9 DEF TlogInv
LEMMA StampStep ==
    ASSUME TlogInv, NEW t \in Loggers, Stamp(t)
    PROVE  TlogInv'
<1>0. /\ TlogType /\ Owned /\ Kept /\ Stamped /\ Later /\ Ticked /\ NoneLost
      /\ Saving /\ Saved /\ Logged(returned) /\ Logged(due)
      /\ InOrder(returned) /\ InOrder(due)
  BY DEF TlogInv
<1>1. /\ lpc[t] = "stamp" /\ lpc'[t] = "fill" /\ clock' = clock + 1 /\ clock \in Nat
      /\ \A u \in Loggers \ {t} : lpc'[u] = lpc[u]
      /\ \A u \in Loggers : Busy(u)' = Busy(u)
      /\ UNCHANGED <<i, o, calls, spc, l, file, returned, due, quiet>>
  BY <1>0 DEF Stamp, TlogType, Busy
<1>2. o[t] \in Slots /\ o[t] \notin DOMAIN returned
  BY <1>0, <1>1 DEF Owned, Busy
<1>12. /\ \A s \in Slots : s # o[t] => tlog_data'[s] = tlog_data[s]
      /\ \A s \in Slots : tlog_data[s] \in Record
  BY <1>0, <1>2 DEF Stamp, TlogType
<1>3. tlog_data'[o[t]].timestamp = clock
  BY <1>0, <1>1, <1>2 DEF Stamp, getticks, TlogType, Record
<1>4. TlogType'
  <2>1. tlog_data' \in [Slots -> Record]
    BY <1>0, <1>1, <1>2 DEF Stamp, getticks, TlogType, Record
  <2> QED BY <1>0, <1>1, <2>1 DEF Stamp, TlogType
<1>5. (Logged(returned) /\ Logged(due) /\ InOrder(returned) /\ InOrder(due))'
  BY <1>0, <1>1 DEF Logged, InOrder
<1>6. (Owned /\ NoneLost)'
  BY <1>0, <1>1 DEF Owned, NoneLost, Until
<1>7. \A s \in DOMAIN returned : /\ s \in Slots /\ s # o[t]
                                 /\ tlog_data'[s] = tlog_data[s]
                                 /\ tlog_data[s].timestamp \in Nat
  BY <1>0, <1>1, <1>2, <1>12 DEF Owned, Logged, Busy, Record
<1>8. (Kept /\ Stamped)'
  BY <1>0, <1>1, <1>7 DEF Kept, Stamped
<1>9. Later'
  <2> SUFFICES ASSUME NEW u \in Loggers, NEW a \in DOMAIN returned,
                      returned[a].tid = u, Busy(u)
               PROVE  /\ a < o[u]
                      /\ returned[a].data < calls[u]
                      /\ lpc'[u] = "fill" => tlog_data'[a].timestamp < tlog_data'[o[u]].timestamp
    BY <1>1 DEF Later
  <2>1. a < o[u] /\ returned[a].data < calls[u]
    BY <1>0 DEF Later
  <2>2. CASE u # t
    <3>1. tlog_data'[o[u]] = tlog_data[o[u]]
      BY <2>2, <1>0, <1>1, <1>2, <1>12 DEF Owned, Busy
    <3> QED BY <2>1, <2>2, <3>1, <1>0, <1>1, <1>7 DEF Later
  <2>3. CASE u = t
    BY <2>1, <2>3, <1>0, <1>3, <1>7 DEF Kept
  <2> QED BY <2>2, <2>3
<1>10. Ticked'
  <2> SUFFICES ASSUME NEW u \in Loggers, lpc'[u] = "fill"
               PROVE  tlog_data'[o[u]].timestamp < clock + 1
    BY <1>1 DEF Ticked
  <2>1. CASE u = t BY <2>1, <1>1, <1>3
  <2>2. CASE u # t
    <3>1. lpc[u] = "fill" /\ o[u] # o[t] /\ o[u] \in Slots
      BY <2>2, <1>0, <1>1 DEF Owned, Busy
    <3>2. tlog_data'[o[u]] = tlog_data[o[u]] /\ tlog_data[o[u]].timestamp \in Nat
      BY <3>1, <1>2, <1>12 DEF Record
    <3> QED BY <3>1, <3>2, <1>0, <1>1 DEF Ticked
  <2> QED BY <2>1, <2>2
<1>11. (Saving /\ Saved)'
  BY <1>0, <1>1, <1>7 DEF Saving, Saved
<1> QED BY <1>4, <1>5, <1>6, <1>8, <1>9, <1>10, <1>11 DEF TlogInv

LEMMA FillStep ==
    ASSUME TlogInv, NEW t \in Loggers, Fill(t)
    PROVE  TlogInv'
<1>0. /\ TlogType /\ Owned /\ Kept /\ Stamped /\ Later /\ Ticked /\ NoneLost
      /\ Saving /\ Saved /\ Logged(returned) /\ Logged(due)
      /\ InOrder(returned) /\ InOrder(due)
  BY DEF TlogInv
<1> DEFINE m == o[t]
<1>1. /\ lpc[t] = "fill" /\ Busy(t) /\ ~Busy(t)' /\ lpc'[t] = "idle"
      /\ \A u \in Loggers \ {t} : lpc'[u] = lpc[u] /\ o'[u] = o[u]
      /\ \A u \in Loggers \ {t} : Busy(u)' = Busy(u)
      /\ UNCHANGED <<i, calls, clock, spc, l, file, due, quiet>>
      /\ calls[t] \in Nat /\ t \in Nat /\ i \in Nat
  BY <1>0, TlogAssumption DEF Fill, TlogType, Busy
<1>2. m \in Slots /\ m < i /\ m \notin DOMAIN returned /\ m \in Nat
  BY <1>0, <1>1 DEF Owned, TlogType
<1>3. /\ tlog_data'[m].tid = t /\ tlog_data'[m].data = calls[t]
      /\ tlog_data'[m].timestamp = tlog_data[m].timestamp
      /\ tlog_data' \in [Slots -> Record]
      /\ tlog_data[m].timestamp \in Nat
  <2>1. tlog_data[m] \in Record BY <1>0, <1>2 DEF TlogType
  <2>2. tlog_data' = [tlog_data EXCEPT
                        ![m] = [[@ EXCEPT !.tid = t] EXCEPT !.data = calls[t]]]
    BY <1>0, <1>2 DEF Fill, TlogType
  <2>3. tlog_data'[m] = [[tlog_data[m] EXCEPT !.tid = t] EXCEPT !.data = calls[t]]
    BY <2>2, <1>0, <1>2 DEF TlogType
  <2>4. tlog_data'[m] \in Record
    BY <2>1, <2>3, <1>1 DEF Record
  <2>5. tlog_data' \in [Slots -> Record]
    BY <2>2, <2>3, <2>4, <1>0, <1>2 DEF TlogType
  <2> QED BY <2>1, <2>3, <2>5 DEF Record
<1>4. /\ \A s \in Slots : s # m => tlog_data'[s] = tlog_data[s]
      /\ \A s \in Slots : tlog_data[s] \in Record
  BY <1>0, <1>1, <1>2 DEF Fill, TlogType
<1>5. /\ DOMAIN returned' = DOMAIN returned \cup {m}
      /\ returned'[m].tid = t /\ returned'[m].data = calls[t]
      /\ returned'[m] \in [tid : Loggers, data : Nat]
      /\ \A s \in DOMAIN returned : s # m /\ returned'[s] = returned[s]
  BY <1>1, <1>2 DEF Fill
<1>6. TlogType'
  BY <1>0, <1>1, <1>3 DEF Fill, TlogType
<1>7. Logged(returned)' /\ Logged(due)'
  BY <1>0, <1>1, <1>2, <1>5 DEF Logged
<1>8. \A s \in DOMAIN returned :
        /\ s \in Slots /\ s \in Nat /\ tlog_data'[s] = tlog_data[s]
        /\ tlog_data[s].timestamp \in Nat
        /\ returned[s].data \in Nat
  BY <1>0, <1>4, <1>5 DEF Logged, Slots, Record
<1>9. \A a \in DOMAIN returned : returned[a].tid = t =>
        /\ a < m /\ returned[a].data < calls[t]
        /\ tlog_data[a].timestamp < tlog_data[m].timestamp
        /\ Until(a, calls[t] - 1)
  BY <1>0, <1>1 DEF Later, NoneLost
<1>10. InOrder(returned)'
  <2> SUFFICES ASSUME NEW a \in DOMAIN returned', NEW b \in DOMAIN returned', a < b,
                      returned'[a].tid = returned'[b].tid
               PROVE  /\ returned'[a].data < returned'[b].data
                      /\ \A x \in returned'[a].data .. returned'[b].data :
                            \E s \in DOMAIN returned' :
                               /\ a <= s /\ s <= b
                               /\ returned'[s].tid = returned'[a].tid
                               /\ returned'[s].data = x
    BY DEF InOrder
  <2>1. CASE a # m /\ b # m
    <3>1. /\ a \in DOMAIN returned /\ b \in DOMAIN returned
          /\ returned'[a] = returned[a] /\ returned'[b] = returned[b]
      BY <2>1, <1>5
    <3>2. /\ returned[a].data < returned[b].data
          /\ \A x \in returned[a].data .. returned[b].data :
                \E s \in DOMAIN returned :
                   /\ a <= s /\ s <= b
                   /\ returned[s].tid = returned[a].tid /\ returned[s].data = x
      BY <3>1, <1>0 DEF InOrder
    <3> QED BY <3>1, <3>2, <1>5
  <2>2. CASE b = m
    <3>1. a \in DOMAIN returned /\ returned'[a] = returned[a] /\ returned[a].tid = t
      BY <2>2, <1>2, <1>5
    <3>2. ASSUME NEW x \in returned[a].data .. calls[t]
          PROVE  \E s \in DOMAIN returned' :
                    /\ a <= s /\ s <= b
                    /\ returned'[s].tid = t /\ returned'[s].data = x
      <4>1. CASE x = calls[t]
        <5>1. m \in DOMAIN returned' /\ a <= m /\ m <= b
          BY <3>1, <2>2, <1>2, <1>5, <1>8, <1>9
        <5> QED BY <4>1, <5>1, <1>5
      <4>2. CASE x # calls[t]
        <5>1. x \in returned[a].data .. (calls[t] - 1)
          BY <3>1, <4>2, <1>1, <1>8
        <5>2. PICK s \in DOMAIN returned : a <= s /\ returned[s].tid = t /\ returned[s].data = x
          BY <3>1, <5>1, <1>9 DEF Until
        <5>3. s < m BY <5>2, <1>9
        <5> QED BY <2>2, <5>2, <5>3, <1>2, <1>5, <1>8
      <4> QED BY <4>1, <4>2
    <3>3. returned[a].data < calls[t] BY <3>1, <1>9
    <3> QED BY <2>2, <3>1, <3>2, <3>3, <1>5
  <2>3. CASE a = m
    <3>1. b \in DOMAIN returned /\ returned[b].tid = t
      BY <2>3, <1>2, <1>5
    <3> QED BY <2>3, <3>1, <1>2, <1>8, <1>9
  <2> QED BY <2>1, <2>2, <2>3
<1>11. InOrder(due)'
  BY <1>0, <1>1 DEF InOrder
<1>12. Owned'
  <2>1. \A u \in Loggers : Busy(u)' => /\ o'[u] < i' /\ o'[u] \in Slots
                                       /\ o'[u] \notin DOMAIN returned'
    BY <1>0, <1>1, <1>5 DEF Owned
  <2>2. \A u, v \in Loggers : Busy(u)' /\ Busy(v)' /\ u # v => o'[u] # o'[v]
    BY <1>0, <1>1 DEF Owned
  <2>3. \A s \in DOMAIN returned' : s < i'
    BY <1>0, <1>1, <1>2, <1>5 DEF Owned
  <2>4. ASSUME NEW s \in Slots, s < i'
        PROVE  s \in DOMAIN returned' \/ \E u \in Loggers : Busy(u)' /\ o'[u] = s
    <3>1. CASE s \in DOMAIN returned \/ s = m BY <3>1, <1>5
    <3>2. CASE s \notin DOMAIN returned /\ s # m
      <4>1. PICK u \in Loggers : Busy(u) /\ o[u] = s
        BY <2>4, <3>2, <1>0, <1>1 DEF Owned
      <4>2. Busy(u)' /\ o'[u] = s BY <3>2, <4>1, <1>1
      <4> QED BY <4>2
    <3> QED BY <3>1, <3>2
  <2> QED BY <2>1, <2>2, <2>3, <2>4 DEF Owned
<1>13. Kept'
  <2> SUFFICES ASSUME NEW s \in DOMAIN returned'
               PROVE  /\ tlog_data'[s].tid = returned'[s].tid
                      /\ tlog_data'[s].data = returned'[s].data
                      /\ tlog_data'[s].timestamp < clock
    BY <1>1 DEF Kept
  <2>1. CASE s = m BY <2>1, <1>0, <1>1, <1>3, <1>5 DEF Ticked
  <2>2. CASE s # m
    <3>1. s \in DOMAIN returned BY <2>2, <1>5
    <3> QED BY <3>1, <1>0, <1>5, <1>8 DEF Kept
  <2> QED BY <2>1, <2>2
<1>14. Stamped'
  <2> SUFFICES ASSUME NEW a \in DOMAIN returned', NEW b \in DOMAIN returned', a < b,
                      returned'[a].tid = returned'[b].tid
               PROVE  tlog_data'[a].timestamp < tlog_data'[b].timestamp
    BY DEF Stamped
  <2>1. CASE a # m /\ b # m
    BY <2>1, <1>0, <1>5, <1>8 DEF Stamped
  <2>2. CASE b = m
    <3>1. a \in DOMAIN returned /\ returned[a].tid = t
      BY <2>2, <1>2, <1>5
    <3> QED BY <2>2, <3>1, <1>3, <1>8, <1>9
  <2>3. CASE a = m
    <3>1. b \in DOMAIN returned /\ returned[b].tid = t
      BY <2>3, <1>2, <1>5
    <3> QED BY <2>3, <3>1, <1>2, <1>8, <1>9
  <2> QED BY <2>1, <2>2, <2>3
<1>15. Later'
  <2> SUFFICES ASSUME NEW u \in Loggers, NEW a \in DOMAIN returned',
                      returned'[a].tid = u, Busy(u)'
               PROVE  /\ a < o'[u]
                      /\ returned'[a].data < calls[u]
                      /\ lpc'[u] = "fill" => tlog_data'[a].timestamp < tlog_data'[o'[u]].timestamp
    BY <1>1 DEF Later
  <2>1. u # t /\ a # m BY <1>1, <1>5
  <2>2. a \in DOMAIN returned /\ returned[a].tid = u /\ Busy(u) /\ o'[u] = o[u]
        /\ lpc'[u] = lpc[u]
    BY <2>1, <1>1, <1>5
  <2>3. o[u] \in Slots /\ o[u] # m BY <2>1, <2>2, <1>0, <1>1 DEF Owned
  <2> QED BY <2>1, <2>2, <2>3, <1>0, <1>4, <1>5, <1>8 DEF Later
<1>16. Ticked'
  <2> SUFFICES ASSUME NEW u \in Loggers, lpc'[u] = "fill"
               PROVE  tlog_data'[o'[u]].timestamp < clock
    BY <1>1 DEF Ticked
  <2>1. u # t BY <1>1
  <2>2. lpc[u] = "fill" /\ o'[u] = o[u] BY <2>1, <1>1
  <2>3. o[u] # m /\ o[u] \in Slots BY <2>1, <2>2, <1>0, <1>1 DEF Owned, Busy
  <2> QED BY <2>2, <2>3, <1>0, <1>4 DEF Ticked
<1>17. NoneLost'
  <2> SUFFICES ASSUME NEW u \in Loggers, NEW a \in DOMAIN returned', returned'[a].tid = u
               PROVE  /\ returned'[a].data <= calls[u]
                      /\ Busy(u)' => Until(a, calls[u] - 1)'
                      /\ ~Busy(u)' /\ i < TLOG_SIZE => Until(a, calls[u])'
    BY <1>1 DEF NoneLost, Until
  <2>2. CASE u # t
    <3>1. a # m /\ a \in DOMAIN returned /\ returned[a].tid = u BY <2>2, <1>5
    <3>2. returned'[a] = returned[a] BY <3>1, <1>5
    <3>3. /\ returned[a].data <= calls[u]
          /\ Busy(u) => Until(a, calls[u] - 1)
          /\ ~Busy(u) /\ i < TLOG_SIZE => Until(a, calls[u])
      BY <3>1, <1>0 DEF NoneLost
    <3>4. /\ Until(a, calls[u] - 1) => Until(a, calls[u] - 1)'
          /\ Until(a, calls[u]) => Until(a, calls[u])'
      BY <3>1, <1>5, <1>1 DEF Until
    <3> QED BY <2>2, <3>2, <3>3, <3>4, <1>1
  <2>3. CASE u = t
    <3>1. \A x \in returned'[a].data .. calls[t] :
            \E s \in DOMAIN returned' : /\ a <= s
                                        /\ returned'[s].tid = returned'[a].tid
                                        /\ returned'[s].data = x
      <4>1. CASE a = m
        BY <4>1, <1>1, <1>2, <1>5
      <4>2. CASE a # m
        <5>1. a \in DOMAIN returned /\ returned'[a] = returned[a] /\ returned[a].tid = t
          BY <2>3, <4>2, <1>5
        <5>2. SUFFICES ASSUME NEW x \in returned[a].data .. calls[t]
                       PROVE  \E s \in DOMAIN returned' :
                                 a <= s /\ returned'[s].tid = t /\ returned'[s].data = x
          BY <5>1
        <5>3. CASE x = calls[t]
          <6>1. m \in DOMAIN returned' /\ a <= m
            BY <5>1, <1>2, <1>5, <1>8, <1>9
          <6> QED BY <5>3, <6>1, <1>5
        <5>4. CASE x # calls[t]
          <6>1. x \in returned[a].data .. (calls[t] - 1)
            BY <5>1, <5>4, <1>1, <1>8
          <6>2. PICK s \in DOMAIN returned : a <= s /\ returned[s].tid = t /\ returned[s].data = x
            BY <5>1, <6>1, <1>9 DEF Until
          <6> QED BY <6>2, <1>5
        <5> QED BY <5>3, <5>4
      <4> QED BY <4>1, <4>2
    <3>2. returned'[a].data <= calls[t]
      BY <2>3, <1>1, <1>5, <1>8, <1>9
    <3> QED BY <2>3, <3>1, <3>2, <1>1 DEF Until
  <2> QED BY <2>2, <2>3
<1>18. Saving'
  <2> SUFFICES ASSUME spc = "write"
               PROVE  /\ \A s \in DOMAIN due : s \in DOMAIN returned' /\ due[s] = returned'[s]
                      /\ \A s \in DOMAIN due : s < Len(file) => file[s + 1] = tlog_data'[s]
    BY <1>0, <1>1 DEF Saving
  <2>1. \A s \in DOMAIN due : s \in DOMAIN returned /\ due[s] = returned[s]
    BY <1>0 DEF Saving
  <2> QED BY <2>1, <1>0, <1>5, <1>8 DEF Saving
<1>19. Saved'
  BY <1>0, <1>1 DEF Saved
<1> QED BY <1>6, <1>7, <1>10, <1>11, <1>12, <1>13, <1>14, <1>15, <1>16, <1>17,
           <1>18, <1>19 DEF TlogInv
LEMMA SaveLengthStep ==
    ASSUME TlogInv, SaveLength
    PROVE  TlogInv'
<1>0. /\ TlogType /\ Owned /\ Kept /\ Stamped /\ Later /\ Ticked /\ NoneLost
      /\ Saving /\ Saved /\ Logged(returned) /\ Logged(due)
      /\ InOrder(returned) /\ InOrder(due)
  BY DEF TlogInv
<1>1. /\ spc' = "write" /\ l' = Length /\ file' = <<>> /\ due' = returned
      /\ quiet' = Idle
      /\ UNCHANGED <<i, tlog_data, lpc, o, calls, clock, returned>>
      /\ Len(file') = 0
  BY DEF SaveLength
<1>2. l' \in Nat /\ l' <= TLOG_SIZE /\ l' <= i /\ TLOG_SIZE \in Nat
      /\ (l' = i \/ l' = TLOG_SIZE)
  BY <1>0, <1>1, TlogAssumption DEF Length, TlogType
<1>3. TlogType'
  BY <1>0, <1>1, <1>2 DEF TlogType, Idle
<1>4. (Logged(returned) /\ InOrder(returned) /\ Owned /\ Kept /\ Stamped /\ Later
       /\ Ticked /\ NoneLost)'
  BY <1>0, <1>1 DEF Logged, InOrder, Owned, Busy, Kept, Stamped, Later, Ticked,
                    NoneLost, Until
<1>5. (Logged(due) /\ InOrder(due))'
  BY <1>0, <1>1 DEF Logged, InOrder
<1>6. \A s \in DOMAIN returned : s \in Nat /\ s < i /\ s < TLOG_SIZE
  BY <1>0, <1>2 DEF Logged, Slots, Owned
<1>7. Idle => \A s \in Slots : s < i => s \in DOMAIN returned
  BY <1>0 DEF Owned, Idle, Busy
<1>8. Saving'
  <2>1. \A s \in DOMAIN returned : s < l' /\ ~(s < 0) BY <1>2, <1>6
  <2>2. quiet' => \A s \in Slots : s < l' => s \in DOMAIN returned
    BY <1>1, <1>2, <1>7, <1>0 DEF Slots, TlogType
  <2> QED BY <1>1, <1>2, <2>1, <2>2 DEF Saving
<1>9. Saved'
  <2>1. \A s \in Slots : ~(s < 0) BY <1>2 DEF Slots
  <2> QED BY <1>1, <1>2, <1>6, <2>1 DEF Saved
<1> QED BY <1>3, <1>4, <1>5, <1>8, <1>9 DEF TlogInv

LEMMA SaveSlotStep ==
    ASSUME TlogInv, SaveSlot
    PROVE  TlogInv'
<1>0. /\ TlogType /\ Owned /\ Kept /\ Stamped /\ Later /\ Ticked /\ NoneLost
      /\ Saving /\ Saved /\ Logged(returned) /\ Logged(due)
      /\ InOrder(returned) /\ InOrder(due)
  BY DEF TlogInv
<1> DEFINE z == Len(file)
<1>1. /\ spc = "write" /\ z < l /\ file' = Append(file, tlog_data[z])
      /\ UNCHANGED <<i, tlog_data, lpc, o, calls, clock, spc, l, returned, due, quiet>>
  BY DEF SaveSlot
<1>2. /\ z \in Nat /\ l \in Nat /\ l <= TLOG_SIZE /\ z \in Slots
      /\ tlog_data[z] \in Record
  BY <1>0, <1>1, TlogAssumption DEF TlogType, Saving, Slots
<1>3. /\ Len(file') = z + 1 /\ file' \in Seq(Record)
      /\ file'[z + 1] = tlog_data[z]
      /\ \A s \in Nat : s < z => file'[s + 1] = file[s + 1]
  BY <1>0, <1>1, <1>2 DEF TlogType
<1>4. TlogType'
  BY <1>0, <1>1, <1>3 DEF TlogType
<1>5. (Logged(returned) /\ InOrder(returned) /\ Owned /\ Kept /\ Stamped /\ Later
       /\ Ticked /\ NoneLost)'
  BY <1>0, <1>1 DEF Logged, InOrder, Owned, Busy, Kept, Stamped, Later, Ticked,
                    NoneLost, Until
<1>6. (Logged(due) /\ InOrder(due))'
  BY <1>0, <1>1 DEF Logged, InOrder
<1>7. \A s \in DOMAIN due : /\ s \in Nat /\ s \in DOMAIN returned /\ due[s] = returned[s]
                            /\ s < z + 1 => file'[s + 1] = tlog_data[s]
  <2> SUFFICES ASSUME NEW s \in DOMAIN due
               PROVE  /\ s \in Nat /\ s \in DOMAIN returned /\ due[s] = returned[s]
                      /\ s < z + 1 => file'[s + 1] = tlog_data[s]
    OBVIOUS
  <2>1. s \in Nat /\ s \in DOMAIN returned /\ due[s] = returned[s]
    BY <1>0, <1>1 DEF Logged, Slots, Saving
  <2>2. s < z => file[s + 1] = tlog_data[s]
    BY <1>0, <1>1 DEF Saving
  <2>3. s < z + 1 => s < z \/ s = z BY <2>1, <1>2
  <2> QED BY <2>1, <2>2, <2>3, <1>3
<1>8. Saving'
  BY <1>0, <1>1, <1>2, <1>3, <1>7 DEF Saving
<1>9. Saved'
  <2>1. \A s \in DOMAIN due : s < Len(file') =>
          file'[s + 1].tid = due[s].tid /\ file'[s + 1].data = due[s].data
    BY <1>0, <1>3, <1>7 DEF Kept
  <2>2. ASSUME NEW a \in DOMAIN due, NEW b \in DOMAIN due,
               a < b, b < Len(file'), due[a].tid = due[b].tid
        PROVE  file'[a + 1].timestamp < file'[b + 1].timestamp
    <3>1. a < z + 1 /\ b < z + 1 BY <2>2, <1>2, <1>3, <1>7
    <3>2. tlog_data[a].timestamp < tlog_data[b].timestamp
      BY <2>2, <1>0, <1>7 DEF Stamped
    <3> QED BY <3>1, <3>2, <1>7
  <2>3. quiet => \A s \in Slots : s < Len(file') => s \in DOMAIN due
    BY <1>0, <1>1, <1>2, <1>3 DEF Saving, Slots
  <2>4. spc' # "saved" /\ Len(file') <= TLOG_SIZE
    BY <1>1, <1>2, <1>3, TlogAssumption
  <2> QED BY <2>1, <2>2, <2>3, <2>4, <1>1 DEF Saved
<1> QED BY <1>4, <1>5, <1>6, <1>8, <1>9 DEF TlogInv

LEMMA SaveCloseStep ==
    ASSUME TlogInv, SaveClose
    PROVE  TlogInv'
<1>0. /\ TlogType /\ Owned /\ Kept /\ Stamped /\ Later /\ Ticked /\ NoneLost
      /\ Saving /\ Saved /\ Logged(returned) /\ Logged(due)
      /\ InOrder(returned) /\ InOrder(due)
  BY DEF TlogInv
<1>1. /\ spc = "write" /\ spc' = (IF Len(file) = l THEN "saved" ELSE "short")
      /\ l' = 0
      /\ UNCHANGED <<i, tlog_data, lpc, o, calls, clock, file, returned, due, quiet>>
  BY DEF SaveClose
<1>2. TlogType'
  BY <1>0, <1>1 DEF TlogType
<1>3. (Logged(returned) /\ InOrder(returned) /\ Owned /\ Kept /\ Stamped /\ Later
       /\ Ticked /\ NoneLost)'
  BY <1>0, <1>1 DEF Logged, InOrder, Owned, Busy, Kept, Stamped, Later, Ticked,
                    NoneLost, Until
<1>4. (Logged(due) /\ InOrder(due))'
  BY <1>0, <1>1 DEF Logged, InOrder
<1>5. (Saving /\ Saved)'
  BY <1>0, <1>1 DEF Saving, Saved
<1> QED BY <1>2, <1>3, <1>4, <1>5 DEF TlogInv

LEMMA TlogStep ==
    ASSUME TlogInv, [TlogNext]_tlogvars
    PROVE  TlogInv'
<1>1. CASE tlog_init BY <1>1, InitStep
<1>2. CASE tlog_save
  BY <1>2, SaveLengthStep, SaveSlotStep, SaveCloseStep DEF tlog_save
<1>3. ASSUME NEW t \in Loggers, tlog(t)
      PROVE  TlogInv'
  BY <1>3, ClaimStep, StampStep, FillStep DEF tlog
<1>4. CASE UNCHANGED tlogvars
  <2>1. UNCHANGED <<i, tlog_data, lpc, o, calls, clock, spc, l, file, returned, due, quiet>>
    BY <1>4 DEF tlogvars
  <2>2. TlogType' /\ (Logged(returned) /\ Logged(due) /\ InOrder(returned) /\ InOrder(due))'
    BY <2>1 DEF TlogInv, TlogType, Logged, InOrder
  <2>3. (Owned /\ Kept /\ Stamped /\ Later /\ Ticked /\ NoneLost)'
    BY <2>1 DEF TlogInv, Owned, Busy, Kept, Stamped, Later, Ticked, NoneLost, Until
  <2>4. (Saving /\ Saved)'
    BY <2>1 DEF TlogInv, Saving, Saved
  <2> QED BY <2>2, <2>3, <2>4 DEF TlogInv
<1> QED BY <1>1, <1>2, <1>3, <1>4 DEF TlogNext

\* The invariant says what a closed file has.
LEMMA TlogInvSaves ==
    ASSUME TlogInv
    PROVE  SaveExact /\ ThreadOrder
<1>0. /\ Saved /\ Logged(due) /\ InOrder(due)
      /\ file \in Seq(Record) /\ Len(file) \in Nat /\ TLOG_SIZE \in Nat
  BY TlogAssumption DEF TlogInv, TlogType
<1>1. \A s \in DOMAIN due : s \in Nat /\ (s \in InFile <=> s < Len(file))
  BY <1>0 DEF Logged, Slots, InFile
<1>2. \A s \in InFile : s \in Slots /\ s < Len(file)
  BY <1>0 DEF InFile, Slots, Saved
<1>3. \A s \in DOMAIN due : s < Len(file) => Rec(s).tid = due[s].tid /\ Rec(s).data = due[s].data
  BY <1>0 DEF Saved, Rec
<1>4. SaveExact
  <2>1. ASSUME NEW s \in InFile \cap DOMAIN due
        PROVE  due[s] = [tid |-> Rec(s).tid, data |-> Rec(s).data]
    BY <1>0, <1>1, <1>3 DEF Logged
  <2>2. spc = "saved" => DOMAIN due \subseteq InFile
    BY <1>0, <1>1 DEF Saved
  <2>3. quiet => InFile \subseteq DOMAIN due
    BY <1>0, <1>2 DEF Saved
  <2> QED BY <2>1, <2>2, <2>3 DEF SaveExact
<1>5. ASSUME NEW a \in InFile \cap DOMAIN due, NEW b \in InFile \cap DOMAIN due,
             a < b, Rec(a).tid = Rec(b).tid
      PROVE  /\ Rec(a).timestamp < Rec(b).timestamp
             /\ Rec(a).data < Rec(b).data
             /\ \A x \in Rec(a).data .. Rec(b).data :
                   \E s \in a .. b : Rec(s).tid = Rec(a).tid /\ Rec(s).data = x
  <2>1. /\ due[a].tid = due[b].tid /\ Rec(a).tid = due[a].tid
        /\ Rec(a).data = due[a].data /\ Rec(b).data = due[b].data
        /\ b < Len(file) /\ a \in Nat /\ b \in Nat
    BY <1>1, <1>3, <1>5
  <2>2. Rec(a).timestamp < Rec(b).timestamp
    BY <2>1, <1>0, <1>5 DEF Saved, Rec
  <2>3. /\ due[a].data < due[b].data
        /\ \A x \in due[a].data .. due[b].data :
              \E s \in DOMAIN due : /\ a <= s /\ s <= b
                                    /\ due[s].tid = due[a].tid /\ due[s].data = x
    BY <2>1, <1>0, <1>5 DEF InOrder
  <2>4. ASSUME NEW x \in due[a].data .. due[b].data
        PROVE  \E s \in a .. b : Rec(s).tid = Rec(a).tid /\ Rec(s).data = x
    <3>1. PICK s \in DOMAIN due : /\ a <= s /\ s <= b
                                 /\ due[s].tid = due[a].tid /\ due[s].data = x
      BY <2>3, <2>4
    <3>2. s \in a .. b /\ s < Len(file) BY <3>1, <2>1, <1>0, <1>1
    <3>3. Rec(s).tid = due[s].tid /\ Rec(s).data = due[s].data BY <3>2, <1>3
    <3> QED BY <3>1, <3>2, <3>3, <2>1
  <2> QED BY <2>1, <2>2, <2>3, <2>4
<1>6. ThreadOrder BY <1>5 DEF ThreadOrder
<1> QED BY <1>4, <1>6

-----------------------------------------------------------------------------
\* TlogInv holds in every reachable state, whatever the number of threads,
\* slots, calls and calls of tlog_init.
THEOREM TlogInvariance == TlogSpec => []TlogInv
<1>1. TlogInit => TlogInv BY TlogStart
<1>2. TlogInv /\ [TlogNext]_tlogvars => TlogInv' BY TlogStep
<1> QED BY <1>1, <1>2, PTL DEF TlogSpec

\* tlog_save: what it leaves in the file is what was logged, each call in the
\* slot that util_fetch_and_add64 gave it, although threads go on logging.
THEOREM SaveIsExact == TlogSpec => []SaveExact
<1>1. TlogInv => SaveExact BY TlogInvSaves
<1> QED BY <1>1, TlogInvariance, PTL

\* tlog: the records of one thread are in the order of its calls, stamped in
\* that order and without a gap.
THEOREM ThreadsAreInOrder == TlogSpec => []ThreadOrder
<1>1. TlogInv => ThreadOrder BY TlogInvSaves
<1> QED BY <1>1, TlogInvariance, PTL
=============================================================================
