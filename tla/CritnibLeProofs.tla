-------------------------- MODULE CritnibLeProofs --------------------------
(***************************************************************************)
(* critnib_find_le against any number of writers: the recursion stays on   *)
(* blocks of the attempt and goes down the tree within the grace period,   *)
(* an answer belongs to a key at most the argument, and it is the answer   *)
(* when the tree was left alone.                                           *)
(***************************************************************************)
EXTENDS CritnibLeInv, CritnibShapeProofs

-----------------------------------------------------------------------------
(* The order of keys and the trie.                                         *)

\* Below a common path, the slot decides.
LEMMA SlotLess ==
    ASSUME NEW a \in Key, NEW b \in Key, NEW s \in Digits,
           path_mask(a, s) = path_mask(b, s), a[s] < b[s]
    PROVE  Less(a, b)
<1>1. \A p \in Digits : p > s => a[p] = b[p]
  BY MaskAgree DEF Digits
<1>2. a[s] # b[s] BY SizeAssumption DEF Key, Nibs
<1> QED BY <1>1, <1>2 DEF Less, TopDiff

LEMMA LessNotAtMost ==
    ASSUME NEW a \in Key, NEW b \in Key, Less(a, b)
    PROVE  ~AtMost(b, a)
<1>1. PICK s \in Digits : TopDiff(a, b, s) /\ a[s] < b[s] BY DEF Less
<1>2. a # b BY <1>1 DEF TopDiff
<1>3. ASSUME Less(b, a) PROVE FALSE
  <2>1. PICK t \in Digits : TopDiff(b, a, t) /\ b[t] < a[t] BY <1>3 DEF Less
  <2>2. s \in Int /\ t \in Int BY DEF Digits
  <2>3. s = t BY <1>1, <2>1, <2>2 DEF TopDiff
  <2>4. a[s] \in Int /\ b[s] \in Int BY DEF Key, Nibs
  <2> QED BY <1>1, <2>1, <2>3, <2>4
<1> QED BY <1>2, <1>3 DEF AtMost

\* A key that strays from a node's path is on one side of all its keys, and
\* comparing it with the path tells on which.
LEMMA StraysLess ==
    ASSUME NEW key \in Key, NEW pa \in Key, NEW s \in Digits,
           path_mask(pa, s) = pa, Strays(key, pa, s),
           NEW k \in Key, path_mask(k, s) = pa
    PROVE  /\ Less(pa, key) => Less(k, key)
           /\ ~Less(pa, key) => ~AtMost(k, key)
<1>0. /\ s \in Int /\ path_mask(k, s) = path_mask(pa, s)
      /\ \A p \in Digits : p \in Int
  BY DEF Digits
<1>1. \A p \in Digits : p > s => k[p] = pa[p] BY <1>0, MaskAgree
<1>2. ~(\A p \in Digits : p > s => key[p] = pa[p])
  BY <1>0, MaskAgree DEF Strays
<1>3. ASSUME Less(pa, key) PROVE Less(k, key)
  <2>1. PICK t \in Digits : TopDiff(pa, key, t) /\ pa[t] < key[t]
    BY <1>3 DEF Less
  <2>2. t > s BY <1>0, <1>2, <2>1 DEF TopDiff
  <2> QED BY <1>0, <1>1, <2>1, <2>2 DEF Less, TopDiff
<1>4. ASSUME AtMost(k, key) PROVE Less(pa, key)
  <2>1. k # key BY <1>1, <1>2
  <2>2. PICK t \in Digits : TopDiff(k, key, t) /\ k[t] < key[t]
    BY <1>4, <2>1 DEF AtMost, Less
  <2>3. t > s BY <1>0, <1>1, <1>2, <2>2 DEF TopDiff
  <2> QED BY <1>0, <1>1, <2>2, <2>3 DEF Less, TopDiff
<1> QED BY <1>3, <1>4

-----------------------------------------------------------------------------
(* The stack of frames.                                                    *)

LEMMA PushFacts ==
    ASSUME NEW s \in Seq(Frame), NEW f \in Frame
    PROVE  /\ Append(s, f) \in Seq(Frame) /\ Append(s, f) # <<>>
           /\ Len(s) \in Nat /\ Len(Append(s, f)) = Len(s) + 1
           /\ DOMAIN Append(s, f) = 1 .. Len(s) + 1 /\ DOMAIN s = 1 .. Len(s)
           /\ \A i \in 1 .. Len(s) : Append(s, f)[i] = s[i]
           /\ Append(s, f)[Len(s) + 1] = f
           /\ SeqExt!Last(Append(s, f)) = f
<1>1. /\ Append(s, f) \in Seq(Frame)
      /\ Len(s) \in Nat /\ Len(Append(s, f)) = Len(s) + 1
      /\ DOMAIN Append(s, f) = 1 .. Len(s) + 1 /\ DOMAIN s = 1 .. Len(s)
      /\ \A i \in 1 .. Len(s) : Append(s, f)[i] = s[i]
      /\ Append(s, f)[Len(s) + 1] = f
  OBVIOUS
<1>2. Append(s, f) # <<>> BY <1>1
<1> QED BY <1>1, <1>2 DEF SeqExt!Last

LEMMA PopFacts ==
    ASSUME NEW s \in Seq(Frame), s # <<>>
    PROVE  /\ SeqExt!Front(s) \in Seq(Frame)
           /\ SeqExt!Last(s) \in Frame /\ SeqExt!Last(s) = s[Len(s)]
           /\ Len(s) \in Nat /\ Len(s) > 0 /\ DOMAIN s = 1 .. Len(s)
           /\ Len(SeqExt!Front(s)) = Len(s) - 1
           /\ DOMAIN SeqExt!Front(s) = 1 .. Len(s) - 1
           /\ \A i \in 1 .. Len(s) - 1 : SeqExt!Front(s)[i] = s[i]
<1>1. /\ Len(s) \in Nat /\ Len(s) > 0 /\ DOMAIN s = 1 .. Len(s)
      /\ s[Len(s)] \in Frame
  OBVIOUS
<1>2. PICK f : f = SubSeq(s, 1, Len(s) - 1) OBVIOUS
<1>3. /\ f \in Seq(Frame) /\ Len(f) = Len(s) - 1
      /\ DOMAIN f = 1 .. Len(s) - 1
      /\ \A i \in 1 .. Len(s) - 1 : f[i] = s[i]
  BY <1>1, <1>2
<1> QED BY <1>1, <1>2, <1>3 DEF SeqExt!Last, SeqExt!Front
-----------------------------------------------------------------------------
(* The steps of the writers.                                               *)

\* What the thread of a reader keeps during a step of a writer, and that its
\* fresh blocks stay fresh within the grace period.
LEMMA LeFreshStays ==
    ASSUME TypeOK, TypeOK', LeTypeOK, LeFresh, Gentle, LeWatch,
           NEW r \in Readers, InAttempt(r), ~Expired(r)'
    PROVE  ~Expired(r) /\ fresh[r] \subseteq fresh'[r]
<1>0. /\ UNCHANGED <<rpc, rwrs1>>
      /\ fresh'[r] = {x \in Obj : \/ st'[x] = "live"
                                  \/ st'[x] = "gone" /\ x \in fresh[r]}
  BY DEF LeWatch, locs
<1>t. /\ remove_count \in Nat /\ remove_count' \in Nat
      /\ DELETED_LIFE \in Nat \ {0}
      /\ \A x \in Obj : stamp[x] \in Nat
      /\ rwrs1[r] \in Nat /\ fresh[r] \subseteq Obj
      /\ remove_count' >= remove_count
  BY SizeAssumption DEF LeTypeOK, TypeOK, Gentle
<1>1. rwrs1[r] + DELETED_LIFE > remove_count' BY <1>0, <1>t DEF Expired
<1>2. ~Expired(r) BY <1>1, <1>t DEF Expired
<1>3. ASSUME NEW x \in fresh[r]
      PROVE  x \in fresh'[r]
  <2>1. x \in Obj /\ st[x] \in {"live", "gone"} BY <1>t DEF LeFresh
  <2>2. st[x] = "gone" => rwrs1[r] <= stamp[x] + 1 BY DEF LeFresh
  <2>3. ~(st[x] = "gone" /\ stamp[x] + DELETED_LIFE < remove_count')
    BY <1>1, <2>1, <2>2, <1>t
  <2>4. st'[x] \in {"live", "gone"} BY <2>1, <2>3 DEF Gentle
  <2> QED BY <2>1, <2>4, <1>0
<1> QED BY <1>2, <1>3

LEMMA LeFreshWriter ==
    ASSUME TypeOK, TypeOK', LeTypeOK, LeFresh, Gentle, LeWatch
    PROVE  LeFresh'
<1>0. UNCHANGED <<rpc, rwrs1>> BY DEF LeWatch, locs
<1>t. /\ remove_count \in Nat /\ remove_count' \in Nat
      /\ \A x \in Obj : stamp[x] \in Nat /\ stamp'[x] \in Nat
      /\ remove_count' >= remove_count
  BY DEF TypeOK, Gentle
<1>1. ASSUME NEW r \in Readers, InAttempt(r)
      PROVE  /\ rwrs1[r] <= remove_count'
             /\ \A x \in Obj : st'[x] = "live" => x \in fresh'[r]
             /\ \A x \in fresh'[r] : st'[x] \in {"live", "gone"}
             /\ \A x \in fresh'[r] : st'[x] = "gone" => rwrs1[r] <= stamp'[x] + 1
  <2>0. fresh'[r] = {x \in Obj : \/ st'[x] = "live"
                                 \/ st'[x] = "gone" /\ x \in fresh[r]}
    BY <1>1 DEF LeWatch
  <2>1. rwrs1[r] <= remove_count /\ rwrs1[r] \in Nat
    BY <1>1 DEF LeFresh, LeTypeOK
  <2>2. ASSUME NEW x \in fresh'[r], st'[x] = "gone"
        PROVE  rwrs1[r] <= stamp'[x] + 1
    <3>1. x \in Obj /\ x \in fresh[r] BY <2>0, <2>2
    <3>2. CASE st[x] = "live"
      <4>1. remove_count > 0 /\ stamp'[x] = remove_count - 1
        BY <2>2, <3>1, <3>2 DEF Gentle
      <4> QED BY <4>1, <2>1, <1>t
    <3>3. CASE st[x] = "gone"
      <4>1. stamp'[x] = stamp[x] BY <2>2, <3>1, <3>3 DEF Gentle
      <4> QED BY <4>1, <3>1, <3>3, <1>1 DEF LeFresh
    <3> QED BY <2>2, <3>1, <3>2, <3>3 DEF Gentle
  <2> QED BY <2>0, <2>1, <2>2, <1>t
<1> QED BY <1>0, <1>1 DEF LeFresh, InAttempt

LEMMA LeTypeWriter ==
    ASSUME LeTypeOK, LeWatch
    PROVE  LeTypeOK' /\ \A r \in Readers : LeStepAt(r) => LeStepAt(r)'
<1>1. UNCHANGED <<rpc, rkey, rwrs1, rn, rnib, rres, stack>> BY DEF LeWatch, locs
<1>2. fresh' \in [Readers -> SUBSET Obj] BY DEF LeWatch, LeTypeOK
<1>3. touched' \in [Readers -> BOOLEAN]
  <2>1. \A r \in Readers : touched[r] \in BOOLEAN BY DEF LeTypeOK
  <2>2. \A r \in Readers : (touched[r] \/ (InAttempt(r) /\ Live' # Live)) \in BOOLEAN
    BY <2>1, Zenon
  <2> QED BY <2>2, Zenon DEF LeWatch
<1> QED BY <1>1, <1>2, <1>3 DEF LeTypeOK, LeStepAt

\* A block whose head stays is in the same place of the trie.
LEMMA HeadFrame ==
    ASSUME TypeOK, TypeOK', NEW n \in Nodes, Headed(n)
    PROVE  /\ shift'[n] = shift[n] /\ path'[n] = path[n]
           /\ \A i, key : Low(n, i, key)' <=> Low(n, i, key)
           /\ \A f, key : f.n = n => (OnKey(f, key)' <=> OnKey(f, key))
<1>1. shift'[n] = shift[n] /\ path'[n] = path[n]
  BY UnderSame, PlaceFacts DEF Ptr, Obj
<1>2. \A i, key : Low(n, i, key)' <=> Low(n, i, key) BY <1>1 DEF Low
<1>3. \A f, key : f.n = n => (OnKey(f, key)' <=> OnKey(f, key))
  BY <1>1 DEF OnKey
<1> QED BY <1>1, <1>2, <1>3

LEMMA LeClosedWriter ==
    ASSUME WParts, WParts', Shape, Shape', Gentle, LeTypeOK, LeFresh, LeFresh',
           NEW w \in Writers, WriterNext(w), LeWatch,
           NEW r \in Readers, LeStepAt(r), LeClosedAt(r)
    PROVE  LeClosedAt(r)'
<1> USE DEF WParts
<1>0. UNCHANGED <<rpc, rkey, rwrs1, rn, rnib, rres, stack>> BY DEF LeWatch, locs
<1>1. SUFFICES ASSUME InAttempt(r), ~Expired(r)'
               PROVE  GraceLinks(r)' /\ GraceFrames(r)' /\ GraceHere(r)'
  BY <1>0 DEF LeClosedAt, InAttempt
<1>2. ~Expired(r) /\ fresh[r] \subseteq fresh'[r] BY <1>1, LeFreshStays
<1>3. GraceLinks(r) /\ GraceFrames(r) /\ GraceHere(r) BY <1>1, <1>2 DEF LeClosedAt
<1>4. ASSUME NEW x \in fresh[r]
      PROVE  /\ x \in Obj /\ st[x] \in {"live", "gone"} /\ Headed(x)
             /\ st'[x] \in {"live", "gone"}
             /\ x \in Leaves => lkey'[x] = lkey[x] /\ lval'[x] = lval[x]
  <2>1. x \in Obj /\ st[x] \in {"live", "gone"} BY <1>1 DEF LeTypeOK, LeFresh
  <2>2. st'[x] \in {"live", "gone"}
    BY <1>0, <1>1, <1>2 DEF LeFresh, InAttempt
  <2>3. Headed(x) BY <2>1, HeadSame
  <2> QED BY <2>1, <2>2, <2>3 DEF Gentle
<1>5. GraceLinks(r)'
  <2>1. SUFFICES ASSUME NEW n \in Nodes, n \in fresh'[r]
                 PROVE  /\ path_mask(path'[n], shift'[n]) = path'[n]
                        /\ \A i \in Nibs :
                              /\ child'[n][i] = NULL \/ child'[n][i] \in fresh'[r]
                              /\ Sorted(n, child[n][i], i)'
    BY DEF GraceLinks
  <2>2. CASE st'[n] = "live"
    <3>1. ASSUME NEW i \in Nibs, child'[n][i] # NULL
          PROVE  child'[n][i] \in fresh'[r]
      <4>1. st'[child'[n][i]] = "live" BY <2>2, <3>1 DEF InvTree, NullOr
      <4>2. child'[n][i] \in Obj BY <3>1, LinkTypes DEF TypeOK, Ptr
      <4> QED BY <4>1, <4>2, <1>0, <1>1 DEF LeFresh, InAttempt
    <3>2. /\ path_mask(path'[n], shift'[n]) = path'[n]
          /\ \A i \in Nibs : Sorted(n, child[n][i], i)'
      BY <2>2 DEF Shape, InvEdge, Sorted
    <3> QED BY <3>1, <3>2
  <2>3. CASE st'[n] # "live"
    <3>1. st'[n] = "gone" /\ n \in fresh[r]
      BY <2>1, <2>3, <1>1 DEF LeWatch
    <3>2. Headed(n) /\ shift'[n] = shift[n] /\ path'[n] = path[n]
      BY <3>1, <1>4, HeadFrame
    <3>3. ASSUME NEW i \in Nibs
          PROVE  /\ child'[n][i] = NULL \/ child'[n][i] \in fresh'[r]
                 /\ Sorted(n, child[n][i], i)'
      <4>1. PICK c : c = child[n][i] OBVIOUS
      <4>2. child'[n][i] = c BY <3>1, <4>1, GoneLinks
      <4>3. CASE c = NULL BY <4>2, <4>3 DEF Sorted
      <4>4. CASE c # NULL
        <5>1. c \in fresh[r] /\ Sorted(n, c, i)
          BY <3>1, <4>1, <4>4, <1>3 DEF GraceLinks
        <5>2. c \in Obj /\ Headed(c) BY <5>1, <1>4
        <5>3. /\ Under(c, n)' <=> Under(c, n)
              /\ slice_index(PathOf(c), shift[n])' = slice_index(PathOf(c), shift[n])
          BY <5>2, <3>2, UnderSame, LinkTypes
        <5>4. Sorted(n, c, i)' BY <5>1, <5>3 DEF Sorted
        <5>5. Sorted(n, child[n][i], i)' BY <5>4, <4>2 DEF Sorted
        <5> QED BY <4>2, <5>1, <5>5, <1>2
      <4> QED BY <4>3, <4>4
    <3>4. path_mask(path[n], shift[n]) = path[n] BY <3>1, <1>3 DEF GraceLinks
    <3> QED BY <3>2, <3>3, <3>4
  <2> QED BY <2>2, <2>3
<1>6. GraceFrames(r)'
  <2>1. SUFFICES ASSUME NEW i \in DOMAIN stack[r]
                 PROVE  /\ stack[r][i].n \in fresh'[r]
                        /\ OnKey(stack[r][i], rkey[r])'
                        /\ shift'[stack[r][i].n] + i <= LEVELS
    BY <1>0 DEF GraceFrames
  <2>2. PICK f, key : f = stack[r][i] /\ key = rkey[r] OBVIOUS
  <2>3. f \in Frame /\ f.n \in Nodes
    <3>1. stack[r] \in Seq(Frame) BY DEF LeTypeOK
    <3>2. f \in Frame BY <2>1, <2>2, <3>1
    <3> QED BY <3>2 DEF Frame
  <2>4. f.n \in fresh[r] /\ OnKey(f, key) /\ shift[f.n] + i <= LEVELS
    BY <2>2, <1>3 DEF GraceFrames
  <2>5. Headed(f.n) BY <2>4, <1>4
  <2>6. shift'[f.n] = shift[f.n] /\ path'[f.n] = path[f.n]
    BY <2>3, <2>5, HeadFrame
  <2>7. OnKey(f, key)' BY <2>4, <2>6 DEF OnKey
  <2>8. OnKey(stack[r][i], rkey[r])' BY <2>2, <2>7, <1>0 DEF OnKey
  <2> QED BY <2>2, <2>4, <2>6, <2>8, <1>2
<1>7. GraceHere(r)'
  <2>1. Standing(r)' /\ rn'[r] # NULL => rn'[r] \in fresh'[r]
    BY <1>0, <1>2, <1>3 DEF GraceHere, Standing
  <2>2. ASSUME rpc[r] \in {"walk", "scan"}, rn[r] \in Nodes
        PROVE  /\ shift'[rn[r]] = shift[rn[r]] /\ path'[rn[r]] = path[rn[r]]
    <3>1. rn[r] \in fresh[r]
      BY <2>2, <1>3, PtrAssumption DEF GraceHere, Standing
    <3> QED BY <2>2, <3>1, <1>4, HeadFrame
  <2>3. rpc'[r] = "walk" /\ rn'[r] \in Nodes =>
           shift'[rn'[r]] + Len(stack'[r]) < LEVELS
    BY <1>0, <1>3, <2>2 DEF GraceHere
  <2>4. rpc'[r] = "scan" => Low(rn[r], rnib[r], rkey[r])'
    <3>1. rpc[r] = "scan" => rn[r] \in Nodes BY DEF LeStepAt
    <3> QED BY <1>0, <1>3, <2>2, <3>1 DEF GraceHere, Low
  <2>5. rpc'[r] = "value" => AtMost(lkey'[rn'[r]], rkey'[r])
    <3>1. rpc[r] = "value" => rn[r] \in Leaves /\ rn[r] \in fresh[r]
      BY <1>3, PtrAssumption DEF LeStepAt, GraceHere, Standing
    <3> QED BY <1>0, <1>3, <1>4, <3>1 DEF GraceHere
  <2>6. ASSUME rpc[r] = "check", rres[r] # NULL
        PROVE  \E l \in Leaves : /\ l \in fresh'[r]
                                 /\ AtMost(lkey'[l], rkey[r])
                                 /\ lval'[l] = rres[r]
    BY <2>6, <1>2, <1>3, <1>4 DEF GraceHere
  <2> QED BY <1>0, <2>1, <2>3, <2>4, <2>5, <2>6 DEF GraceHere
<1> QED BY <1>5, <1>6, <1>7
\* A step that leaves the set of live blocks as it is leaves the tree alone.
LEMMA LiveStill ==
    ASSUME WParts, WParts', NEW w \in Writers, WriterNext(w), Live' = Live
    PROVE  Still
<1> USE DEF WParts
<1>0. \A x \in Obj : st'[x] = "live" <=> st[x] = "live"
  <2>1. \A x : x \in Live' <=> x \in Live OBVIOUS
  <2> QED BY <2>1 DEF Live
<1>1. ~InsertInSlot(w)
  <2>1. ASSUME InsertInSlot(w) PROVE FALSE
    BY <2>1, <1>0, InSlotFacts DEF Obj
  <2> QED BY <2>1
<1>2. ~InsertPublish(w)
  <2>1. ASSUME InsertPublish(w) PROVE FALSE
    BY <2>1, <1>0, PublishFacts DEF Obj
  <2> QED BY <2>1
<1>3. ~RemoveRoot(w) /\ ~RemoveUnlink(w)
  <2>1. ASSUME RemoveRoot(w) \/ RemoveUnlink(w) PROVE FALSE
    BY <2>1, <1>0, UnlinkFacts DEF Obj
  <2> QED BY <2>1
<1>4. ~RemoveCollapse(w)
  <2>1. ASSUME RemoveCollapse(w) PROVE FALSE
    BY <2>1, <1>0, CollapseFacts DEF Obj
  <2> QED BY <2>1
<1> QED BY <1>1, <1>2, <1>3, <1>4, StillStep DEF TreeChange

LEMMA LeAloneWriter ==
    ASSUME WParts, WParts', Gentle, LeTypeOK, NEW w \in Writers, WriterNext(w),
           LeWatch, NEW r \in Readers, LeStepAt(r), LeAloneAt(r)
    PROVE  LeAloneAt(r)'
<1> USE DEF WParts
<1>0. UNCHANGED <<rpc, rkey, rn, rnib, rres, stack>> BY DEF LeWatch, locs
<1>1. SUFFICES ASSUME InAttempt(r), ~touched'[r]
               PROVE  AloneFrames(r)' /\ AloneHere(r)' /\ AloneAhead(r)'
  BY <1>0 DEF LeAloneAt, InAttempt
<1>2. ~touched[r] /\ Live' = Live
  <2>1. touched'[r] = (touched[r] \/ (InAttempt(r) /\ Live' # Live))
    BY DEF LeWatch
  <2> QED BY <2>1, <1>1
<1>3. AloneFrames(r) /\ AloneHere(r) /\ AloneAhead(r) BY <1>1, <1>2 DEF LeAloneAt
<1>4. Still BY <1>2, LiveStill
<1>5. ASSUME NEW x \in Obj, st[x] = "live"
      PROVE  /\ st'[x] = "live" /\ Headed(x)
             /\ x \in Leaves => lkey'[x] = lkey[x] /\ lval'[x] = lval[x]
             /\ x \in Nodes => /\ shift'[x] = shift[x] /\ path'[x] = path[x]
                               /\ \A i \in Nibs : child'[x][i] = child[x][i]
  <2>1. st'[x] = "live" BY <1>4, <1>5 DEF Still
  <2>2. Headed(x) BY <1>5, HeadSame
  <2>3. x \in Leaves => lkey'[x] = lkey[x] /\ lval'[x] = lval[x]
    BY <2>1 DEF Gentle
  <2>4. x \in Nodes => shift'[x] = shift[x] /\ path'[x] = path[x]
    BY <2>2, HeadFrame
  <2> QED BY <2>1, <2>2, <2>3, <2>4, <1>4, <1>5 DEF Still
<1>6. ASSUME NEW x \in Obj, st[x] = "live", NEW n \in Nodes, st[n] = "live"
      PROVE  /\ Under(x, n)' <=> Under(x, n)
             /\ slice_index(PathOf(x), shift[n])' = slice_index(PathOf(x), shift[n])
             /\ Leads(n, x)' <=> Leads(n, x)
  BY <1>5, <1>6, UnderSame, LinkTypes
<1>7. ASSUME NEW i \in DOMAIN stack[r]
      PROVE  /\ stack[r][i].n \in Nodes /\ stack[r][i].n \in Obj
             /\ st[stack[r][i].n] = "live" /\ stack[r][i] \in Frame
  <2>1. stack[r] \in Seq(Frame) BY DEF LeTypeOK
  <2>2. stack[r][i] \in Frame BY <1>7, <2>1
  <2>3. stack[r][i].n \in Nodes BY <2>2 DEF Frame
  <2> QED BY <2>2, <2>3, <1>3, LinkTypes DEF AloneFrames
<1>8. ASSUME NEW x \in Obj, st[x] = "live", NEW i \in DOMAIN stack[r]
      PROVE  Inside(x, stack[r][i])' <=> Inside(x, stack[r][i])
  <2>1. PICK f : f = stack[r][i] OBVIOUS
  <2>2. f.n \in Nodes /\ st[f.n] = "live" BY <1>7, <2>1
  <2>3. Inside(x, f)' <=> Inside(x, f) BY <1>6, <1>8, <2>2 DEF Inside
  <2>4. Inside(x, stack[r][i])' <=> Inside(x, f)' BY <2>1, <1>0 DEF Inside
  <2> QED BY <2>1, <2>3, <2>4
<1>9. AloneFrames(r)'
  <2>1. ASSUME NEW i \in DOMAIN stack[r]
        PROVE  /\ st'[stack[r][i].n] = "live"
               /\ OnKey(stack[r][i], rkey[r])'
    <3>1. /\ stack[r][i].n \in Nodes /\ stack[r][i].n \in Obj
          /\ st[stack[r][i].n] = "live" /\ OnKey(stack[r][i], rkey[r])
      BY <1>3, <1>7 DEF AloneFrames
    <3> QED BY <3>1, <1>0, <1>5 DEF OnKey
  <2>2. ASSUME NEW i \in DOMAIN stack[r],
               rpc[r] \in {"walk", "scan", "value"}, rn[r] # NULL
        PROVE  Inside(rn[r], stack[r][i])'
    <3>1. PICK x \in Obj : x = rn[r] BY <2>2 DEF LeTypeOK, Ptr
    <3>2. st[x] = "live" /\ Inside(x, stack[r][i])
      BY <2>2, <3>1, <1>3 DEF AloneFrames, AloneHere, Standing
    <3>3. Inside(x, stack[r][i])' BY <3>2, <1>8
    <3> QED BY <3>1, <3>3, <1>0 DEF Inside
  <2>3. ASSUME NEW i \in DOMAIN stack[r], NEW j \in DOMAIN stack[r], i < j
        PROVE  Inside(stack[r][j].n, stack[r][i])'
    <3>1. PICK x \in Obj : x = stack[r][j].n BY <1>7
    <3>2. st[x] = "live" /\ Inside(x, stack[r][i])
      BY <2>3, <3>1, <1>3, <1>7 DEF AloneFrames
    <3>3. Inside(x, stack[r][i])' BY <3>2, <1>8
    <3> QED BY <3>1, <3>3, <1>0 DEF Inside
  <2> QED BY <2>1, <2>2, <2>3, <1>0 DEF AloneFrames
<1>10. \A l \in Leaves : l \in Obj BY DEF Obj
<1>11. AloneHere(r)'
  <2>1. ASSUME Standing(r), rn[r] # NULL PROVE st'[rn[r]] = "live"
    BY <2>1, <1>3, <1>5 DEF AloneHere, LeTypeOK, Ptr
  <2>2. ASSUME rpc[r] = "scan" PROVE Low(rn[r], rnib[r], rkey[r])'
    <3>1. rn[r] \in Nodes /\ st[rn[r]] = "live" /\ rn[r] \in Obj
      BY <2>2, <1>3, LinkTypes DEF AloneHere, Standing, LeStepAt
    <3>2. shift'[rn[r]] = shift[rn[r]] /\ path'[rn[r]] = path[rn[r]]
      BY <3>1, <1>5
    <3> QED BY <2>2, <3>2, <1>0, <1>3 DEF AloneHere, Low
  <2>3. ASSUME rpc[r] = "value" PROVE AtMost(lkey'[rn[r]], rkey[r])
    <3>1. rn[r] \in Leaves /\ st[rn[r]] = "live" /\ rn[r] \in Obj
      BY <2>3, <1>3, <1>10, PtrAssumption DEF AloneHere, Standing, LeStepAt
    <3> QED BY <2>3, <3>1, <1>3, <1>5 DEF AloneHere
  <2>4. ASSUME rpc[r] = "check" PROVE rres[r] \in Answer(rkey[r])'
    <3>1. rres[r] \in Answer(rkey[r]) BY <2>4, <1>3 DEF AloneHere
    <3>2. \A l \in Leaves : /\ st'[l] = "live" <=> st[l] = "live"
                            /\ st[l] = "live" => lkey'[l] = lkey[l] /\ lval'[l] = lval[l]
      BY <1>5, <1>10, <1>4 DEF Still
    <3> DEFINE below == {l \in Leaves : st[l] = "live" /\ AtMost(lkey[l], rkey[r])}
               top   == {l \in below : \A m \in below : AtMost(lkey[m], lkey[l])}
    <3>3. below' = below BY <3>2, <1>0
    <3>4. top' = top
      <4>1. \A l \in below : lkey'[l] = lkey[l] BY <3>2
      <4> HIDE DEF below
      <4> QED BY <3>3, <4>1
    <3>5. {lval[l] : l \in top}' = {lval[l] : l \in top}
      <4>1. \A l \in top : lval'[l] = lval[l] BY <3>2
      <4> HIDE DEF top
      <4> QED BY <3>4, <4>1
    <3>6. Answer(rkey[r])' = Answer(rkey[r])
      BY <3>3, <3>5 DEF Answer
    <3> QED BY <3>1, <3>6
  <2> QED BY <2>1, <2>2, <2>3, <2>4, <1>0 DEF AloneHere, Standing
<1>12. AloneAhead(r)'
  <2>1. SUFFICES ASSUME rpc[r] \in {"walk", "child", "scan", "back", "value"},
                        NEW l \in Leaves, st'[l] = "live", AtMost(lkey'[l], rkey[r])
                 PROVE  Ahead(r, l)'
    BY <1>0 DEF AloneAhead
  <2>2. /\ l \in Obj /\ st[l] = "live" /\ lkey'[l] = lkey[l]
        /\ PathOf(l) = lkey[l] /\ PathOf(l)' = lkey[l]
    BY <2>1, <1>4, <1>5, <1>10 DEF Still, PathOf, is_leaf
  <2>3. Ahead(r, l) BY <2>1, <2>2, <1>3 DEF AloneAhead
  <2>4. ASSUME Left(r, l) PROVE Left(r, l)'
    <3>1. PICK i \in DOMAIN stack[r] :
             /\ Under(l, stack[r][i].n)
             /\ slice_index(lkey[l], shift[stack[r][i].n]) < stack[r][i].nib
      BY <2>4 DEF Left
    <3>2. PICK n \in Nodes : n = stack[r][i].n /\ st[n] = "live" /\ n \in Obj
      BY <1>7
    <3>3. Under(l, n)' /\ shift'[n] = shift[n] BY <3>1, <3>2, <2>2, <1>5, <1>6
    <3>4. Under(l, stack[r][i].n)' BY <3>2, <3>3, <1>0 DEF Under
    <3> QED BY <3>1, <3>2, <3>3, <3>4, <2>2, <1>0 DEF Left
  <2>5. ASSUME rpc[r] \in {"walk", "child", "scan"}, rn[r] \in Nodes
        PROVE  \E n \in Nodes : /\ n = rn[r] /\ st[n] = "live" /\ n \in Obj
                                /\ Under(l, rn[r])' <=> Under(l, n)
                                /\ Leads(rn[r], l)' <=> Leads(n, l)
                                /\ shift'[n] = shift[n] /\ path'[n] = path[n]
                                /\ \A i \in Nibs : child'[n][i] = child[n][i]
    <3>1. PICK n \in Nodes : n = rn[r] /\ st[n] = "live" /\ n \in Obj
      BY <2>5, <1>3, LinkTypes DEF AloneHere, Standing
    <3>2. /\ Under(l, n)' <=> Under(l, n)
          /\ Leads(n, l)' <=> Leads(n, l)
          /\ shift'[n] = shift[n] /\ path'[n] = path[n]
          /\ \A i \in Nibs : child'[n][i] = child[n][i]
      BY <3>1, <2>2, <1>5, <1>6
    <3>3. /\ Under(l, rn[r])' <=> Under(l, n)'
          /\ Leads(rn[r], l)' <=> Leads(n, l)'
      BY <3>1, <1>0 DEF Under, Leads
    <3> QED BY <3>1, <3>2, <3>3
  <2>6. CASE rpc[r] = "walk" /\ Leads(rn[r], l)
    <3>1. CASE rn[r] \in Nodes BY <2>5, <2>6, <3>1, <1>0 DEF Ahead
    <3>2. CASE rn[r] \notin Nodes BY <2>6, <3>2, <1>0 DEF Ahead, Leads, Under
    <3> QED BY <3>1, <3>2
  <2>7. CASE rpc[r] = "child" /\ Under(l, rn[r])
             /\ slice_index(lkey[l], shift[rn[r]]) = rnib[r]
    BY <2>2, <2>5, <2>7, <1>0 DEF Ahead, LeStepAt
  <2>8. CASE rpc[r] = "scan" /\ Under(l, rn[r])
             /\ slice_index(lkey[l], shift[rn[r]]) <= rnib[r]
    BY <2>2, <2>5, <2>8, <1>0 DEF Ahead, LeStepAt
  <2>9. CASE /\ rpc[r] = "scan" /\ Precedes(l, rn[r])
             /\ \E i \in Nibs : i <= rnib[r] /\ child[rn[r]][i] # NULL
    <3>1. rn[r] \in Nodes BY <2>9 DEF LeStepAt
    <3>2. Precedes(l, rn[r])' BY <2>2, <2>5, <2>9, <3>1, <1>0 DEF Precedes
    <3>3. \E i \in Nibs : i <= rnib'[r] /\ child'[rn'[r]][i] # NULL
      BY <2>5, <2>9, <3>1, <1>0
    <3> QED BY <2>9, <3>2, <3>3, <1>0 DEF Ahead
  <2>10. CASE rpc[r] = "value" /\ AtMost(lkey[l], lkey[rn[r]])
    <3>1. rn[r] \in Leaves /\ st[rn[r]] = "live" /\ rn[r] \in Obj
      BY <2>10, <1>3, <1>10, PtrAssumption DEF AloneHere, Standing, LeStepAt
    <3> QED BY <2>2, <2>10, <3>1, <1>0, <1>5 DEF Ahead
  <2> QED BY <2>3, <2>4, <2>6, <2>7, <2>8, <2>9, <2>10 DEF Ahead
<1> QED BY <1>9, <1>11, <1>12
-----------------------------------------------------------------------------
(* The steps of the readers.                                               *)

LEMMA LeReaderKeeps ==
    ASSUME LeTypeOK, NEW r \in Readers, LeCall(r) \/ LeRun(r)
    PROVE  /\ UNCHANGED wvars
           /\ UNCHANGED <<root, child, path, shift, lkey, lval, st, stamp, remove_count>>
           /\ \A u \in Readers : u # r => LeRests(u)
<1>1. UNCHANGED wvars
  BY DEF LeRun, LeCall, LeCount, GetCount, LeRoot, GetRoot, LeNull, LeLeaf,
     LeOutside, LeInside, LeChild, GetChild, LeBack, LeScan, LeScanned, LeValue,
     LeRestart, GetRestart, LeDone, GetDone, LeReturn, GetReturn
<1>2. UNCHANGED <<root, child, path, shift, lkey, lval, st, stamp, remove_count>>
  BY <1>1 DEF wvars, heap, pending, aux
<1>3. ASSUME NEW u \in Readers, u # r
      PROVE  LeRests(u)
  <2> USE <1>3 DEF LeRests, LeTypeOK, RGoto, locs, Same
  <2>1. CASE LeCall(r) BY <2>1 DEF LeCall
  <2>2. CASE LeCount(r) BY <2>2 DEF LeCount, GetCount
  <2>3. CASE LeRoot(r) BY <2>3 DEF LeRoot, GetRoot
  <2>4. CASE LeNull(r) \/ LeLeaf(r) \/ LeScanned(r)
    BY <2>4 DEF LeNull, LeLeaf, LeScanned
  <2>5. CASE LeOutside(r) BY <2>5 DEF LeOutside
  <2>6. CASE LeInside(r) BY <2>6 DEF LeInside
  <2>7. CASE LeChild(r) BY <2>7 DEF LeChild, GetChild
  <2>8. CASE LeBack(r) BY <2>8 DEF LeBack
  <2>9. CASE LeScan(r) BY <2>9 DEF LeScan
  <2>10. CASE LeValue(r) BY <2>10 DEF LeValue
  <2>11. CASE LeRestart(r) BY <2>11 DEF LeRestart, GetRestart
  <2>12. CASE LeDone(r) BY <2>12 DEF LeDone, GetDone
  <2>13. CASE LeReturn(r) BY <2>13 DEF LeReturn, GetReturn
  <2> QED BY <2>1, <2>2, <2>3, <2>4, <2>5, <2>6, <2>7, <2>8, <2>9, <2>10,
             <2>11, <2>12, <2>13 DEF LeRun
<1> QED BY <1>1, <1>2, <1>3

LEMMA LeTypeReader ==
    ASSUME TypeOK, LeTypeOK, NEW r \in Readers, LeCall(r) \/ LeRun(r), LeStepAt(r)
    PROVE  LeTypeOK' /\ LeStepAt(r)'
<1>t. /\ ReadKeys \subseteq Key /\ [p \in Digits |-> 0] \in Key
      /\ NIB \in Nat /\ 0 \in -1 .. NIB /\ NIB \in -1 .. NIB
      /\ Nibs \subseteq -1 .. NIB /\ NULL \in Ptr /\ root \in Ptr
      /\ remove_count \in Nat /\ Live \subseteq Obj
      /\ \A n \in Nodes : n \in Ptr /\ n # NULL /\ shift[n] \in Digits
      /\ \A l \in Leaves : l \in Ptr /\ l # NULL
      /\ \A n \in Nodes, i \in Nibs : child[n][i] \in Ptr
      /\ \A l \in Leaves : lval[l] \in Values \cup Leaves \cup {NULL}
  <2>1. ReadKeys \subseteq Key /\ [p \in Digits |-> 0] \in Key
    BY KeyFacts, ReadAssumption
  <2>2. /\ NIB \in Nat /\ 0 \in -1 .. NIB /\ NIB \in -1 .. NIB
        /\ Nibs \subseteq -1 .. NIB
    BY SizeAssumption DEF Nibs
  <2>3. /\ NULL \in Ptr /\ root \in Ptr /\ Live \subseteq Obj
        /\ \A n \in Nodes : n \in Ptr /\ n # NULL
        /\ \A n \in Nodes, i \in Nibs : child[n][i] \in Ptr
    BY LinkTypes DEF Live
  <2>4. /\ remove_count \in Nat /\ \A n \in Nodes : shift[n] \in Digits
        /\ \A l \in Leaves : lval[l] \in Values \cup Leaves \cup {NULL}
    BY DEF TypeOK
  <2>5. \A l \in Leaves : l \in Ptr /\ l # NULL
    BY PtrAssumption DEF Ptr, Obj
  <2> QED BY <2>1, <2>2, <2>3, <2>4, <2>5
<1>s. /\ stack[r] \in Seq(Frame) /\ <<>> \in Seq(Frame)
      /\ rn[r] \in Ptr /\ rnib[r] \in -1 .. NIB /\ rkey[r] \in Key
  BY DEF LeTypeOK
<1>1. ASSUME rpc' \in [Readers -> {"idle", "count", "root", "walk", "child", "scan",
                            "back", "value", "check", "ret"}],
             rkey' \in [Readers -> Key], rwrs1' \in [Readers -> Nat],
             rn' \in [Readers -> Ptr], rnib' \in [Readers -> -1 .. NIB],
             rres' \in [Readers -> Values \cup Leaves \cup {NULL}],
             fresh' \in [Readers -> SUBSET Obj], stack' \in [Readers -> Seq(Frame)],
             touched' \in [Readers -> BOOLEAN],
             /\ rpc'[r] \in {"child", "scan"} => rn'[r] \in Nodes
             /\ rpc'[r] = "child" =>
                   /\ stack'[r] # <<>>
                   /\ SeqExt!Last(stack'[r]) = [n |-> rn'[r], nib |-> rnib'[r]]
             /\ rpc'[r] = "value" => rn'[r] \in Leaves
             /\ rpc'[r] \in {"idle", "count", "root", "check", "ret"} =>
                   stack'[r] = <<>>
      PROVE  LeTypeOK' /\ LeStepAt(r)'
  BY <1>1 DEF LeTypeOK, LeStepAt
<1> USE DEF RGoto, locs, Same, LeTypeOK, LeStepAt
<1>2. CASE LeCall(r) BY <1>1, <1>2, <1>t DEF LeCall
<1>3. CASE LeCount(r) BY <1>1, <1>3, <1>t DEF LeCount, GetCount
<1>4. CASE LeRoot(r) BY <1>1, <1>4, <1>t DEF LeRoot, GetRoot
<1>5. CASE LeNull(r) \/ LeScanned(r) BY <1>1, <1>5, <1>t DEF LeNull, LeScanned
<1>6. CASE LeLeaf(r)
  <2>1. PICK at \in {"value", "back"} : rpc' = [rpc EXCEPT ![r] = at]
    BY <1>6 DEF LeLeaf
  <2>2. /\ rn[r] \in Leaves
        /\ UNCHANGED <<rkey, rwrs1, rn, rnib, rres, fresh, stack, touched>>
    BY <1>6 DEF LeLeaf, is_leaf
  <2> QED BY <1>1, <2>1, <2>2
<1>7. CASE LeOutside(r)
  <2>1. CASE Less(path[rn[r]], rkey[r])
    <3>1. /\ rpc' = [rpc EXCEPT ![r] = "scan"] /\ rnib' = [rnib EXCEPT ![r] = NIB]
          /\ UNCHANGED <<rkey, rwrs1, rn, rres, fresh, stack, touched>>
          /\ rn[r] \in Nodes
      BY <1>7, <2>1 DEF LeOutside
    <3>2. NIB \in -1 .. NIB BY <1>t
    <3>3. /\ rpc'[r] = "scan"
          /\ rpc' \in [Readers -> {"idle", "count", "root", "walk", "child", "scan",
                            "back", "value", "check", "ret"}]
          /\ rnib' \in [Readers -> -1 .. NIB]
      BY <3>1, <3>2
    <3> QED BY <1>1, <3>1, <3>3
  <2>2. CASE ~Less(path[rn[r]], rkey[r]) BY <1>1, <1>7, <1>t, <2>2 DEF LeOutside
  <2> QED BY <2>1, <2>2
<1>8. CASE LeInside(r)
  <2>1. PICK f : f = [n |-> rn[r], nib |-> slice_index(rkey[r], shift[rn[r]])]
    OBVIOUS
  <2>2. f \in Frame BY <1>8, <1>s, <1>t, <2>1, KeyFacts DEF LeInside, Frame
  <2>3. /\ stack' = [stack EXCEPT ![r] = Append(stack[r], f)]
        /\ rnib' = [rnib EXCEPT ![r] = f.nib] /\ rn' = rn
    BY <1>8, <2>1 DEF LeInside
  <2>4. /\ Append(stack[r], f) \in Seq(Frame) /\ Append(stack[r], f) # <<>>
        /\ SeqExt!Last(Append(stack[r], f)) = f
    BY <1>s, <2>2, PushFacts
  <2>5. /\ stack' \in [Readers -> Seq(Frame)] /\ stack'[r] = Append(stack[r], f)
        /\ rnib' \in [Readers -> -1 .. NIB] /\ rnib'[r] = f.nib
    BY <2>2, <2>3, <2>4, <1>t DEF Frame
  <2>6. /\ rpc'[r] = "child" /\ rn'[r] \in Nodes /\ UNCHANGED <<rkey, rwrs1, rres, fresh, touched>>
        /\ rpc' = [rpc EXCEPT ![r] = "child"]
    BY <1>8 DEF LeInside
  <2>7. SeqExt!Last(stack'[r]) = [n |-> rn'[r], nib |-> rnib'[r]]
    BY <2>1, <2>3, <2>4, <2>5
  <2>8. stack'[r] # <<>> BY <2>4, <2>5
  <2> QED BY <1>1, <2>3, <2>5, <2>6, <2>7, <2>8
<1>9. CASE LeChild(r)
  <2>1. rnib[r] \in Nibs
    <3>1. SeqExt!Last(stack[r]) \in Frame /\ SeqExt!Last(stack[r]) = [n |-> rn[r], nib |-> rnib[r]]
      BY <1>9, <1>s, PopFacts DEF LeChild, GetChild
    <3> QED BY <3>1 DEF Frame
  <2> QED BY <1>1, <1>9, <1>t, <2>1 DEF LeChild, GetChild
<1>10. CASE LeBack(r)
  <2>1. CASE stack[r] = <<>> BY <1>1, <1>10, <1>t, <2>1 DEF LeBack
  <2>2. CASE stack[r] # <<>>
    <3>1. PICK f \in Frame, s \in Seq(Frame) :
             f = SeqExt!Last(stack[r]) /\ s = SeqExt!Front(stack[r])
      BY <1>s, <2>2, PopFacts
    <3>2. /\ rn' = [rn EXCEPT ![r] = f.n] /\ rnib' = [rnib EXCEPT ![r] = f.nib - 1]
          /\ stack' = [stack EXCEPT ![r] = s] /\ rpc' = [rpc EXCEPT ![r] = "scan"]
          /\ UNCHANGED <<rres, rkey, rwrs1, fresh, touched>>
      BY <1>10, <2>2, <3>1 DEF LeBack, NextLeft
    <3>3. f.n \in Nodes /\ f.nib - 1 \in -1 .. NIB
      BY <3>1, <1>t DEF Frame, Nibs
    <3> QED BY <1>1, <1>t, <3>2, <3>3
  <2> QED BY <2>1, <2>2
<1>11. CASE LeScan(r)
  <2>1. rnib[r] >= 0 /\ rnib[r] \in Nibs /\ rn[r] \in Nodes
    BY <1>11, <1>s, <1>t DEF LeScan, Nibs
  <2>2. rnib[r] - 1 \in -1 .. NIB BY <2>1, <1>t DEF Nibs
  <2>3. PICK m \in Ptr : m = child[rn[r]][rnib[r]] BY <2>1, <1>t
  <2>4. /\ UNCHANGED <<rkey, rwrs1, rres, fresh, stack, touched>> /\ rpc[r] = "scan"
        /\ \/ m = NULL /\ rnib' = [rnib EXCEPT ![r] = rnib[r] - 1] /\ UNCHANGED <<rpc, rn>>
           \/ /\ m \in Leaves /\ rn' = [rn EXCEPT ![r] = m]
              /\ rpc' = [rpc EXCEPT ![r] = "value"] /\ UNCHANGED rnib
           \/ /\ m \in Nodes /\ rn' = [rn EXCEPT ![r] = m]
              /\ rnib' = [rnib EXCEPT ![r] = NIB] /\ UNCHANGED rpc
    BY <1>11, <2>3 DEF LeScan, is_leaf
  <2>5. CASE m = NULL /\ rnib' = [rnib EXCEPT ![r] = rnib[r] - 1] /\ UNCHANGED <<rpc, rn>>
    BY <1>1, <2>1, <2>2, <2>4, <2>5
  <2>6. CASE /\ m \in Leaves /\ rn' = [rn EXCEPT ![r] = m]
             /\ rpc' = [rpc EXCEPT ![r] = "value"] /\ UNCHANGED rnib
    BY <1>1, <2>3, <2>4, <2>6
  <2>7. CASE /\ m \in Nodes /\ rn' = [rn EXCEPT ![r] = m]
             /\ rnib' = [rnib EXCEPT ![r] = NIB] /\ UNCHANGED rpc
    BY <1>1, <1>t, <2>3, <2>4, <2>7
  <2> QED BY <2>4, <2>5, <2>6, <2>7
<1>12. CASE LeValue(r)
  <2>1. /\ rn[r] \in Leaves /\ lval[rn[r]] \in Values \cup Leaves \cup {NULL}
        /\ UNCHANGED <<rkey, rwrs1, rn, rnib, fresh, touched>>
    BY <1>12, <1>t DEF LeValue
  <2>2. CASE lval[rn[r]] # NULL BY <1>1, <1>12, <1>s, <2>1, <2>2 DEF LeValue
  <2>3. CASE lval[rn[r]] = NULL BY <1>1, <1>12, <2>1, <2>3 DEF LeValue
  <2> QED BY <2>2, <2>3
<1>13. CASE LeRestart(r) BY <1>1, <1>13, <1>t DEF LeRestart, GetRestart
<1>14. CASE LeDone(r) BY <1>1, <1>14, <1>t DEF LeDone, GetDone
<1>15. CASE LeReturn(r) BY <1>1, <1>15, <1>t DEF LeReturn, GetReturn
<1> QED BY <1>2, <1>3, <1>4, <1>5, <1>6, <1>7, <1>8, <1>9, <1>10, <1>11,
           <1>12, <1>13, <1>14, <1>15 DEF LeRun

\* An attempt begins with the load of remove_count and keeps its blocks.
LEMMA LeAttempt ==
    ASSUME LeTypeOK, NEW r \in Readers, LeCall(r) \/ LeRun(r), InAttempt(r)'
    PROVE  \/ LeCount(r)
           \/ /\ ~LeCount(r) /\ InAttempt(r)
              /\ ~LeCall(r) /\ ~LeRestart(r) /\ ~LeReturn(r)
              /\ rkey'[r] = rkey[r] /\ rwrs1'[r] = rwrs1[r]
              /\ fresh'[r] = fresh[r] /\ touched'[r] = touched[r]
<1> USE DEF LeTypeOK, RGoto, locs, Same, InAttempt
<1>1. ~LeCall(r) BY DEF LeCall
<1>2. ~LeRestart(r) BY DEF LeRestart, GetRestart
<1>3. ~LeReturn(r) BY DEF LeReturn, GetReturn
<1>4. CASE LeRoot(r) BY <1>1, <1>2, <1>3, <1>4 DEF LeRoot, GetRoot, LeCount, GetCount
<1>5. CASE LeNull(r) \/ LeLeaf(r) \/ LeScanned(r) \/ LeOutside(r)
  BY <1>1, <1>2, <1>3, <1>5 DEF LeNull, LeLeaf, LeScanned, LeOutside, LeCount, GetCount
<1>6. CASE LeInside(r) \/ LeScan(r) \/ LeBack(r) \/ LeValue(r)
  BY <1>1, <1>2, <1>3, <1>6 DEF LeInside, LeScan, LeBack, LeValue, LeCount, GetCount
<1>7. CASE LeChild(r) \/ LeDone(r)
  BY <1>1, <1>2, <1>3, <1>7 DEF LeChild, GetChild, LeDone, GetDone, LeCount, GetCount
<1> QED BY <1>1, <1>2, <1>3, <1>4, <1>5, <1>6, <1>7 DEF LeRun

LEMMA LeFreshReader ==
    ASSUME TypeOK, LeTypeOK, LeFresh, NEW r \in Readers, LeCall(r) \/ LeRun(r)
    PROVE  LeFresh'
<1>1. /\ UNCHANGED <<st, stamp, remove_count>>
      /\ \A u \in Readers : u # r => /\ rpc'[u] = rpc[u] /\ rwrs1'[u] = rwrs1[u]
                                     /\ fresh'[u] = fresh[u]
  BY LeReaderKeeps DEF LeRests
<1>2. ASSUME InAttempt(r)'
      PROVE  /\ rwrs1'[r] <= remove_count'
             /\ \A x \in Obj : st'[x] = "live" => x \in fresh'[r]
             /\ \A x \in fresh'[r] : st'[x] \in {"live", "gone"}
             /\ \A x \in fresh'[r] : st'[x] = "gone" => rwrs1'[r] <= stamp'[x] + 1
  <2>1. CASE LeCount(r)
    <3>1. fresh'[r] = Live /\ rwrs1'[r] = remove_count /\ remove_count \in Nat
      BY <2>1 DEF LeCount, GetCount, LeTypeOK, TypeOK
    <3> QED BY <3>1, <1>1 DEF Live
  <2>2. CASE ~LeCount(r)
    <3>1. InAttempt(r) /\ rwrs1'[r] = rwrs1[r] /\ fresh'[r] = fresh[r]
      BY <1>2, <2>2, LeAttempt
    <3> QED BY <3>1, <1>1 DEF LeFresh
  <2> QED BY <2>1, <2>2
<1> QED BY <1>1, <1>2 DEF LeFresh, InAttempt

\* The threads that do not move keep what is known of them.
LEMMA LeOther ==
    ASSUME UNCHANGED <<root, child, path, shift, lkey, lval, st, remove_count>>,
           NEW u \in Readers, LeRests(u),
           LeStepAt(u), LeClosedAt(u), LeAloneAt(u)
    PROVE  LeStepAt(u)' /\ LeClosedAt(u)' /\ LeAloneAt(u)'
<1> USE DEF LeRests
<1>1. /\ InAttempt(u)' <=> InAttempt(u)
      /\ Expired(u)' <=> Expired(u)
  BY DEF InAttempt, Expired
<1>2. LeStepAt(u)' BY DEF LeStepAt
<1>3. ASSUME GraceLinks(u), GraceFrames(u), GraceHere(u)
      PROVE  GraceLinks(u)' /\ GraceFrames(u)' /\ GraceHere(u)'
  <2>1. GraceLinks(u)'
    BY <1>3 DEF GraceLinks, Sorted, Under, ShiftOf, PathOf, is_leaf
  <2>2. GraceFrames(u)' BY <1>3 DEF GraceFrames, OnKey
  <2>3. GraceHere(u)' BY <1>3 DEF GraceHere, Standing, Low
  <2> QED BY <2>1, <2>2, <2>3
<1>4. ASSUME AloneFrames(u), AloneHere(u), AloneAhead(u)
      PROVE  AloneFrames(u)' /\ AloneHere(u)' /\ AloneAhead(u)'
  <2>1. AloneFrames(u)'
    BY <1>4 DEF AloneFrames, OnKey, Inside, Under, ShiftOf, PathOf, is_leaf
  <2>2. AloneHere(u)' BY <1>4 DEF AloneHere, Standing, Low, Answer
  <2>3. AloneAhead(u)'
    BY <1>4 DEF AloneAhead, Ahead, Left, Leads, Precedes, Under, ShiftOf,
                PathOf, is_leaf
  <2> QED BY <2>1, <2>2, <2>3
<1>5. LeClosedAt(u)' BY <1>1, <1>3 DEF LeClosedAt
<1>6. LeAloneAt(u)' BY <1>1, <1>4 DEF LeAloneAt
<1> QED BY <1>2, <1>5, <1>6

\* What is known of the thread that moves, as a condition on what it moves to.
LEMMA LeClosedReader ==
    ASSUME WParts, Shape, LeTypeOK, LeFresh, NEW r \in Readers,
           LeStepAt(r), LeClosedAt(r), LeCall(r) \/ LeRun(r)
    PROVE  LeClosedAt(r)'
<1> SUFFICES ASSUME InAttempt(r)', ~Expired(r)'
             PROVE  GraceLinks(r)' /\ GraceFrames(r)' /\ GraceHere(r)'
  BY DEF LeClosedAt
<1> DEFINE
      key == rkey[r]
      Frames(s) == \A i \in DOMAIN s : /\ s[i].n \in fresh[r]
                                       /\ OnKey(s[i], key)
                                       /\ shift[s[i].n] + i <= LEVELS
      Here(pc, n, nib, s) ==
         /\ pc \in {"walk", "child", "scan", "value"} /\ n # NULL => n \in fresh[r]
         /\ pc = "walk" /\ n \in Nodes => shift[n] + Len(s) < LEVELS
         /\ pc = "scan" => Low(n, nib, key)
         /\ pc = "value" => AtMost(lkey[n], key)
      Told(pc, res) == pc = "check" /\ res # NULL =>
                          \E l \in Leaves : /\ l \in fresh[r]
                                            /\ AtMost(lkey[l], key)
                                            /\ lval[l] = res
<1>0. UNCHANGED <<root, child, path, shift, lkey, lval, st, stamp, remove_count>>
  BY LeReaderKeeps
<1>t. /\ TypeOK /\ rkey[r] \in Key /\ rn[r] \in Ptr /\ rnib[r] \in -1 .. NIB
      /\ stack[r] \in Seq(Frame)
  BY DEF WParts, LeTypeOK
<1>1. CASE LeCount(r)
  <2>1. /\ rpc'[r] = "root" /\ fresh'[r] = Live /\ stack'[r] = <<>>
    BY <1>1 DEF LeCount, GetCount, RGoto, LeTypeOK, LeStepAt
  <2>2. GraceLinks(r)'
    <3>1. ASSUME NEW n \in Nodes, st[n] = "live", NEW i \in Nibs
          PROVE  /\ child[n][i] = NULL \/ child[n][i] \in Live
                 /\ Sorted(n, child[n][i], i)
      <4>1. NullOr(child[n][i], "live") BY <3>1 DEF WParts, InvTree
      <4>2. child[n][i] \in Ptr BY <1>t, LinkTypes
      <4>3. Sorted(n, child[n][i], i) BY <3>1 DEF Shape, InvEdge, Sorted
      <4> QED BY <4>1, <4>2, <4>3 DEF NullOr, Live, Ptr
    <3>2. \A n \in Nodes : n \in Live => path_mask(path[n], shift[n]) = path[n]
      BY DEF Shape, InvEdge, Live
    <3>3. \A n \in Nodes : n \in Live => st[n] = "live" BY DEF Live
    <3> QED BY <1>0, <2>1, <3>1, <3>2, <3>3
            DEF GraceLinks, Sorted, Under, ShiftOf, PathOf, is_leaf
  <2>3. GraceFrames(r)' BY <2>1 DEF GraceFrames
  <2>4. GraceHere(r)' BY <2>1 DEF GraceHere, Standing
  <2> QED BY <2>2, <2>3, <2>4
<1>2. CASE ~LeCount(r)
  <2>1. /\ InAttempt(r) /\ rkey'[r] = key /\ rwrs1'[r] = rwrs1[r]
        /\ fresh'[r] = fresh[r]
        /\ ~LeCall(r) /\ ~LeRestart(r) /\ ~LeReturn(r)
    BY <1>2, LeAttempt
  <2>2. ~Expired(r) BY <2>1, <1>0 DEF Expired
  <2>3. GraceLinks(r) /\ GraceFrames(r) /\ GraceHere(r)
    BY <2>1, <2>2 DEF LeClosedAt
  <2>4. /\ Frames(stack[r]) /\ Here(rpc[r], rn[r], rnib[r], stack[r])
        /\ Told(rpc[r], rres[r])
    BY <2>3 DEF GraceFrames, GraceHere, Standing
  <2>5. SUFFICES /\ Frames(stack'[r]) /\ Here(rpc'[r], rn'[r], rnib'[r], stack'[r])
                 /\ Told(rpc'[r], rres'[r])
    <3>1. GraceLinks(r)'
      BY <1>0, <2>1, <2>3 DEF GraceLinks, Sorted, Under, ShiftOf, PathOf, is_leaf
    <3>2. GraceFrames(r)' BY <1>0, <2>1, <2>5 DEF GraceFrames, OnKey
    <3>3. GraceHere(r)' BY <1>0, <2>1, <2>5 DEF GraceHere, Standing, Low
    <3> QED BY <3>1, <3>2, <3>3
  <2>p. /\ \A n \in Nodes : /\ shift[n] \in Digits /\ shift[n] \in Int
                            /\ path[n] \in Key /\ PathOf(n) = path[n]
                            /\ ShiftOf(n) = shift[n]
        /\ \A l \in Leaves : PathOf(l) = lkey[l] /\ lkey[l] \in Key /\ l \notin Nodes
        /\ NULL \notin Nodes /\ NULL \notin Leaves
    BY <1>t, PlaceFacts, PtrAssumption DEF TypeOK
  <2> USE DEF RGoto, locs, Same, LeTypeOK
  <2>6. CASE LeRoot(r)
    <3>1. /\ rpc'[r] = "walk" /\ rn'[r] = root /\ stack'[r] = <<>>
      BY <2>6 DEF LeRoot, GetRoot, LeStepAt
    <3>2. root # NULL => root \in fresh[r]
      <4>1. root \in Ptr BY <1>t, LinkTypes
      <4>2. root # NULL => st[root] = "live" BY DEF WParts, InvTree, NullOr
      <4> QED BY <4>1, <4>2, <2>1 DEF LeFresh, Ptr
    <3>3. root \in Nodes => shift[root] + Len(<<>>) < LEVELS
      <4>1. Len(<<>>) = 0 OBVIOUS
      <4> QED BY <4>1, <2>p, SizeAssumption DEF Digits
    <3>4. Frames(<<>>) OBVIOUS
    <3> QED BY <3>1, <3>2, <3>3, <3>4
  <2>7. CASE LeNull(r) \/ LeScanned(r)
    <3>1. rpc'[r] = "back" /\ stack'[r] = stack[r]
      BY <2>7 DEF LeNull, LeScanned
    <3> QED BY <3>1, <2>4
  <2>8. CASE LeLeaf(r)
    <3>1. /\ rpc[r] = "walk" /\ rn[r] \in Leaves
          /\ rpc'[r] = IF AtMost(lkey[rn[r]], rkey[r]) THEN "value" ELSE "back"
          /\ rn'[r] = rn[r] /\ stack'[r] = stack[r]
      BY <2>8 DEF LeLeaf, is_leaf
    <3> QED BY <3>1, <2>4
  <2>9. CASE LeOutside(r)
    <3>1. /\ rpc[r] = "walk" /\ rn[r] \in Nodes
          /\ Strays(key, path[rn[r]], shift[rn[r]])
          /\ rn'[r] = rn[r] /\ stack'[r] = stack[r]
          /\ Less(path[rn[r]], key) => rpc'[r] = "scan" /\ rnib'[r] = NIB
          /\ ~Less(path[rn[r]], key) => rpc'[r] = "back"
      BY <2>9 DEF LeOutside, Outside
    <3>2. PICK n \in Nodes : n = rn[r] BY <3>1
    <3>3. n \in fresh[r] BY <2>4, <2>p, <3>1, <3>2
    <3>4. path_mask(path[n], shift[n]) = path[n] BY <2>3, <3>3 DEF GraceLinks
    <3>5. ASSUME Less(path[n], key) PROVE Low(n, NIB, key)
      <4>1. SUFFICES ASSUME NEW k \in Key, path_mask(k, shift[n]) = path[n]
                     PROVE  AtMost(k, key)
        BY DEF Low
      <4>2. Less(k, key)
        BY <4>1, <3>1, <3>2, <3>4, <3>5, <1>t, <2>p, StraysLess
      <4> QED BY <4>2 DEF AtMost
    <3> QED BY <3>1, <3>2, <3>3, <3>5, <2>4
  <2>10. CASE LeInside(r)
    <3>1. PICK n, nib, f : /\ n \in Nodes /\ n = rn[r]
                           /\ nib = slice_index(key, shift[n])
                           /\ f = [n |-> n, nib |-> nib]
      BY <2>10 DEF LeInside
    <3>2. /\ rpc[r] = "walk" /\ rpc'[r] = "child" /\ rn'[r] = n
          /\ stack'[r] = Append(stack[r], f)
          /\ ~Strays(key, path[n], shift[n])
      BY <2>10, <3>1 DEF LeInside, Outside
    <3>3. n \in fresh[r] /\ shift[n] + Len(stack[r]) < LEVELS
      BY <2>4, <2>p, <3>1, <3>2
    <3>4. nib \in Nibs BY <3>1, <1>t, <2>p, KeyFacts
    <3>5. f \in Frame /\ f.n = n /\ f.nib = nib BY <3>1, <3>4 DEF Frame
    <3>6. OnKey(f, key)
      <4>1. path_mask(path[n], shift[n]) = path[n]
        BY <2>3, <3>1, <3>3 DEF GraceLinks
      <4> QED BY <4>1, <3>1, <3>2, <3>5 DEF OnKey, Strays
    <3>7. PICK s : s = Append(stack[r], f) OBVIOUS
    <3>8. /\ Len(stack[r]) \in Nat /\ DOMAIN s = 1 .. Len(stack[r]) + 1
          /\ DOMAIN stack[r] = 1 .. Len(stack[r])
          /\ \A i \in 1 .. Len(stack[r]) : s[i] = stack[r][i]
          /\ s[Len(stack[r]) + 1] = f
      BY <1>t, <3>5, <3>7, PushFacts
    <3>9. Frames(s)
      <4>1. SUFFICES ASSUME NEW i \in DOMAIN s
                     PROVE  /\ s[i].n \in fresh[r] /\ OnKey(s[i], key)
                            /\ shift[s[i].n] + i <= LEVELS
        OBVIOUS
      <4>2. CASE i \in 1 .. Len(stack[r]) BY <2>4, <3>8, <4>2
      <4>3. CASE i = Len(stack[r]) + 1
        BY <4>3, <3>1, <3>3, <3>5, <3>6, <3>8, <2>p, SizeAssumption
      <4> QED BY <4>1, <4>2, <4>3, <3>8
    <3> QED BY <3>2, <3>3, <3>7, <3>9
  <2>11. CASE LeChild(r)
    <3>1. /\ rpc[r] = "child" /\ rpc'[r] = "walk" /\ stack'[r] = stack[r]
          /\ rn'[r] = child[rn[r]][rnib[r]] /\ stack[r] # <<>>
          /\ SeqExt!Last(stack[r]) = [n |-> rn[r], nib |-> rnib[r]]
          /\ rn[r] \in Nodes
      BY <2>11 DEF LeChild, GetChild, LeStepAt
    <3>2. /\ SeqExt!Last(stack[r]) \in Frame
          /\ SeqExt!Last(stack[r]) = stack[r][Len(stack[r])]
          /\ Len(stack[r]) \in Nat /\ Len(stack[r]) > 0
          /\ DOMAIN stack[r] = 1 .. Len(stack[r])
      BY <1>t, <3>1, PopFacts
    <3>3. rnib[r] \in Nibs BY <3>1, <3>2 DEF Frame
    <3>4. PICK n, c : n \in Nodes /\ n = rn[r] /\ c = child[n][rnib[r]] BY <3>1
    <3>5. n \in fresh[r] BY <2>4, <2>p, <3>1, <3>4
    <3>6. (c = NULL \/ c \in fresh[r]) /\ Sorted(n, c, rnib[r])
      BY <2>3, <3>3, <3>4, <3>5 DEF GraceLinks
    <3>7. shift[n] + Len(stack[r]) <= LEVELS
      <4>1. Len(stack[r]) \in DOMAIN stack[r] BY <3>2
      <4>2. stack[r][Len(stack[r])].n = n BY <3>1, <3>2, <3>4
      <4> QED BY <2>4, <4>1, <4>2
    <3>8. c \in Nodes => shift[c] < shift[n] BY <3>6, <2>p DEF Sorted, Under
    <3>9. c \in Nodes => shift[c] + Len(stack[r]) < LEVELS
      BY <3>2, <3>4, <3>7, <3>8, <2>p, SizeAssumption
    <3> QED BY <3>1, <3>4, <3>6, <3>9, <2>4
  <2>12. CASE LeBack(r)
    <3>1. CASE stack[r] = <<>>
      <4>1. rpc'[r] = "check" /\ rres'[r] = NULL /\ stack'[r] = stack[r]
        BY <2>12, <3>1 DEF LeBack
      <4> QED BY <4>1, <2>4
    <3>2. CASE stack[r] # <<>>
      <4>1. PICK f, s : f = SeqExt!Last(stack[r]) /\ s = SeqExt!Front(stack[r])
        OBVIOUS
      <4>2. /\ f \in Frame /\ f = stack[r][Len(stack[r])]
            /\ Len(stack[r]) \in Nat /\ Len(stack[r]) > 0
            /\ DOMAIN stack[r] = 1 .. Len(stack[r])
            /\ DOMAIN s = 1 .. Len(stack[r]) - 1
            /\ \A i \in 1 .. Len(stack[r]) - 1 : s[i] = stack[r][i]
        BY <1>t, <3>2, <4>1, PopFacts
      <4>3. /\ rpc'[r] = "scan" /\ rn'[r] = f.n /\ rnib'[r] = f.nib - 1
            /\ stack'[r] = s
        BY <2>12, <3>2, <4>1 DEF LeBack, NextLeft
      <4>4. f.n \in Nodes /\ f.nib \in Nibs BY <4>2 DEF Frame
      <4>5. f.n \in fresh[r] /\ OnKey(f, key)
        <5>1. Len(stack[r]) \in DOMAIN stack[r] BY <4>2
        <5> QED BY <2>4, <4>2, <5>1
      <4>6. Low(f.n, f.nib - 1, key)
        <5>1. SUFFICES ASSUME NEW k \in Key, path_mask(k, shift[f.n]) = path[f.n],
                              k[shift[f.n]] <= f.nib - 1
                       PROVE  AtMost(k, key)
          BY DEF Low
        <5>2. /\ path_mask(k, shift[f.n]) = path_mask(key, shift[f.n])
              /\ f.nib = key[shift[f.n]]
          BY <4>5, <5>1 DEF OnKey, slice_index
        <5>3. k[shift[f.n]] < key[shift[f.n]]
          BY <5>1, <5>2, <4>4, <2>p DEF Key, Nibs
        <5>4. Less(k, key) BY <5>2, <5>3, <4>4, <2>p, <1>t, SlotLess
        <5> QED BY <5>4 DEF AtMost
      <4>7. Frames(s)
        <5>1. \A i \in DOMAIN s : i \in DOMAIN stack[r] /\ s[i] = stack[r][i]
          BY <4>2
        <5> QED BY <2>4, <5>1
      <4> QED BY <4>3, <4>5, <4>6, <4>7
    <3> QED BY <3>1, <3>2
  <2>13. CASE LeScan(r)
    <3>1. PICK n, i, m : /\ n \in Nodes /\ n = rn[r] /\ i \in Nibs /\ i = rnib[r]
                         /\ m = child[n][i]
      BY <2>13, <1>t DEF LeScan, LeStepAt, Nibs
    <3>2. /\ rpc[r] = "scan" /\ stack'[r] = stack[r]
          /\ \/ m = NULL /\ rnib'[r] = i - 1 /\ rpc'[r] = "scan" /\ rn'[r] = n
             \/ m \in Leaves /\ rn'[r] = m /\ rpc'[r] = "value"
             \/ m \in Nodes /\ rn'[r] = m /\ rnib'[r] = NIB /\ rpc'[r] = "scan"
      BY <2>13, <3>1 DEF LeScan, is_leaf
    <3>3. n \in fresh[r] /\ Low(n, i, key) BY <2>4, <2>p, <3>1, <3>2
    <3>4. (m = NULL \/ m \in fresh[r]) /\ Sorted(n, m, i)
      BY <2>3, <3>1, <3>3 DEF GraceLinks
    <3>5. CASE m = NULL
      <4>1. Low(n, i - 1, key)
        <5>1. SUFFICES ASSUME NEW k \in Key, path_mask(k, shift[n]) = path[n],
                              k[shift[n]] <= i - 1
                       PROVE  AtMost(k, key)
          BY DEF Low
        <5>2. k[shift[n]] <= i BY <5>1, <3>1, <2>p DEF Key, Nibs
        <5> QED BY <5>1, <5>2, <3>3 DEF Low
      <4> QED BY <3>2, <3>3, <3>5, <4>1, <2>4, <2>p
    <3>6. CASE m \in Leaves
      <4>1. path_mask(lkey[m], shift[n]) = path[n] /\ lkey[m][shift[n]] = i
        BY <3>4, <3>6, <2>p DEF Sorted, Under, slice_index
      <4>2. AtMost(lkey[m], key) BY <4>1, <3>1, <3>3, <3>6, <2>p DEF Low, Nibs
      <4> QED BY <3>2, <3>4, <3>6, <4>2, <2>4, <2>p
    <3>7. CASE m \in Nodes
      <4>1. /\ shift[m] < shift[n] /\ path_mask(path[m], shift[n]) = path[n]
            /\ slice_index(path[m], shift[n]) = i
        BY <3>4, <3>7, <2>p DEF Sorted, Under
      <4>2. Low(m, NIB, key)
        <5>1. SUFFICES ASSUME NEW k \in Key, path_mask(k, shift[m]) = path[m]
                       PROVE  AtMost(k, key)
          BY DEF Low
        <5>2. /\ path_mask(path_mask(k, shift[m]), shift[n]) = path_mask(k, shift[n])
              /\ slice_index(path_mask(k, shift[m]), shift[n]) = slice_index(k, shift[n])
          BY <4>1, <3>1, <3>7, <2>p, MaskNarrow
        <5>3. path_mask(k, shift[n]) = path[n] /\ k[shift[n]] = i
          BY <5>1, <5>2, <4>1 DEF slice_index
        <5> QED BY <5>3, <3>1, <3>3 DEF Low, Nibs
      <4> QED BY <3>2, <3>4, <3>7, <4>2, <2>4, <2>p
    <3> QED BY <3>2, <3>5, <3>6, <3>7
  <2>14. CASE LeValue(r)
    <3>1. /\ rpc[r] = "value" /\ rn[r] \in Leaves
          /\ rn[r] \in fresh[r] /\ AtMost(lkey[rn[r]], key)
      BY <2>4, <2>14, <2>p DEF LeValue, LeStepAt
    <3>2. CASE lval[rn[r]] # NULL
      <4>1. rpc'[r] = "check" /\ rres'[r] = lval[rn[r]] /\ stack'[r] = <<>>
        BY <2>14, <3>2 DEF LeValue
      <4>2. Frames(<<>>) OBVIOUS
      <4> QED BY <3>1, <4>1, <4>2
    <3>3. CASE lval[rn[r]] = NULL
      <4>1. rpc'[r] = "back" /\ stack'[r] = stack[r]
        BY <2>14, <3>3 DEF LeValue
      <4> QED BY <2>4, <4>1
    <3> QED BY <3>2, <3>3
  <2>15. CASE LeDone(r)
    <3>1. rpc'[r] = "ret" /\ stack'[r] = stack[r] BY <2>15 DEF LeDone, GetDone
    <3> QED BY <3>1, <2>4
  <2> QED BY <2>1, <2>6, <2>7, <2>8, <2>9, <2>10, <2>11, <2>12, <2>13, <2>14,
             <2>15, <1>2 DEF LeRun
<1> QED BY <1>1, <1>2
\* Below slot i of n every key comes after the leaves in the slots before.
LEMMA SlotOrder ==
    ASSUME TypeOK, NEW l \in Leaves, NEW x \in Obj, NEW n \in Nodes,
           Under(l, n), Under(x, n),
           slice_index(lkey[l], shift[n]) < slice_index(PathOf(x), shift[n])
    PROVE  /\ x \in Leaves => Less(lkey[l], lkey[x])
           /\ x \in Nodes => Precedes(l, x)
<1>t. /\ lkey[l] \in Key /\ shift[n] \in Digits /\ shift[n] \in Int
      /\ PathOf(l) = lkey[l]
      /\ x \in Leaves => PathOf(x) = lkey[x] /\ lkey[x] \in Key
      /\ x \in Nodes => /\ PathOf(x) = path[x] /\ ShiftOf(x) = shift[x]
                        /\ shift[x] \in Int
  BY PlaceFacts DEF TypeOK
<1>1. /\ path_mask(lkey[l], shift[n]) = path[n]
      /\ path_mask(PathOf(x), shift[n]) = path[n] /\ ShiftOf(x) < shift[n]
  BY <1>t DEF Under
<1>2. ASSUME x \in Leaves PROVE Less(lkey[l], lkey[x])
  <2>1. /\ path_mask(lkey[l], shift[n]) = path_mask(lkey[x], shift[n])
        /\ lkey[l][shift[n]] < lkey[x][shift[n]]
    BY <1>1, <1>2, <1>t DEF slice_index
  <2> QED BY <1>2, <1>t, <2>1, SlotLess
<1>3. ASSUME x \in Nodes PROVE Precedes(l, x)
  <2>1. SUFFICES ASSUME NEW k \in Key, path_mask(k, shift[x]) = path[x]
                 PROVE  Less(lkey[l], k)
    BY DEF Precedes
  <2>2. /\ path_mask(path_mask(k, shift[x]), shift[n]) = path_mask(k, shift[n])
        /\ slice_index(path_mask(k, shift[x]), shift[n]) = slice_index(k, shift[n])
    BY <1>1, <1>3, <1>t, MaskNarrow
  <2>3. /\ path_mask(lkey[l], shift[n]) = path_mask(k, shift[n])
        /\ lkey[l][shift[n]] < k[shift[n]]
    BY <2>1, <2>2, <1>1, <1>3, <1>t DEF slice_index
  <2> QED BY <1>t, <2>3, SlotLess
<1> QED BY <1>2, <1>3

\* Below n is what comes after a leaf that comes before all of n.
LEMMA PrecedesDown ==
    ASSUME TypeOK, NEW l, NEW x \in Obj, NEW n \in Nodes, Under(x, n),
           Precedes(l, n)
    PROVE  /\ x \in Leaves => Less(lkey[l], lkey[x])
           /\ x \in Nodes => Precedes(l, x)
<1>t. /\ shift[n] \in Digits /\ shift[n] \in Int
      /\ x \in Leaves => PathOf(x) = lkey[x] /\ lkey[x] \in Key
      /\ x \in Nodes => /\ PathOf(x) = path[x] /\ ShiftOf(x) = shift[x]
                        /\ shift[x] \in Int
  BY PlaceFacts DEF TypeOK
<1>1. path_mask(PathOf(x), shift[n]) = path[n] /\ ShiftOf(x) < shift[n]
  BY DEF Under
<1>2. x \in Leaves => Less(lkey[l], lkey[x]) BY <1>1, <1>t DEF Precedes
<1>3. ASSUME x \in Nodes PROVE Precedes(l, x)
  <2>1. SUFFICES ASSUME NEW k \in Key, path_mask(k, shift[x]) = path[x]
                 PROVE  Less(lkey[l], k)
    BY DEF Precedes
  <2>2. path_mask(path_mask(k, shift[x]), shift[n]) = path_mask(k, shift[n])
    BY <1>1, <1>3, <1>t, MaskNarrow
  <2>3. path_mask(k, shift[n]) = path[n] BY <2>1, <2>2, <1>1, <1>3, <1>t
  <2> QED BY <2>3 DEF Precedes
<1> QED BY <1>2, <1>3

\* What belongs below a block that is inside a frame is inside it, too.
LEMMA InsideDown ==
    ASSUME TypeOK, NEW x \in Obj, NEW n \in Nodes, Under(x, n),
           NEW f \in Frame, Inside(n, f)
    PROVE  Inside(x, f)
<1>1. f.n \in Nodes BY DEF Frame
<1>2. Under(n, f.n) /\ slice_index(PathOf(n), shift[f.n]) = f.nib BY DEF Inside
<1>3. /\ Under(x, f.n)
      /\ slice_index(PathOf(x), shift[f.n]) = slice_index(PathOf(n), shift[f.n])
  BY <1>1, <1>2, UnderTrans
<1> QED BY <1>2, <1>3 DEF Inside
\* While the tree is left alone, find_le looks for the answer in the part of
\* the tree where it is.
LEMMA LeAloneReader ==
    ASSUME WParts, Shape, LeTypeOK, NEW r \in Readers,
           LeStepAt(r), LeAloneAt(r), LeCall(r) \/ LeRun(r)
    PROVE  LeAloneAt(r)'
<1> SUFFICES ASSUME InAttempt(r)', ~touched'[r]
             PROVE  AloneFrames(r)' /\ AloneHere(r)' /\ AloneAhead(r)'
  BY DEF LeAloneAt
<1> DEFINE
      key == rkey[r]
      Below(l) == l \in Leaves /\ st[l] = "live" /\ AtMost(lkey[l], key)
      Frames(s, pc, n) ==
         \A i \in DOMAIN s :
            /\ st[s[i].n] = "live"
            /\ OnKey(s[i], key)
            /\ pc \in {"walk", "scan", "value"} /\ n # NULL => Inside(n, s[i])
            /\ \A j \in DOMAIN s : i < j => Inside(s[j].n, s[i])
      Here(pc, n, nib) ==
         /\ pc \in {"walk", "child", "scan", "value"} /\ n # NULL => st[n] = "live"
         /\ pc = "scan" => Low(n, nib, key)
         /\ pc = "value" => AtMost(lkey[n], key)
      Told(pc, res) == pc = "check" => res \in Answer(key)
      LeftIn(s, l) == \E i \in DOMAIN s :
                         /\ Under(l, s[i].n)
                         /\ slice_index(lkey[l], shift[s[i].n]) < s[i].nib
      Next1(pc, n, nib, l) ==
         \/ pc = "walk" /\ Leads(n, l)
         \/ pc = "child" /\ Under(l, n) /\ slice_index(lkey[l], shift[n]) = nib
         \/ pc = "scan" /\ Under(l, n) /\ slice_index(lkey[l], shift[n]) <= nib
         \/ /\ pc = "scan" /\ Precedes(l, n)
            /\ \E i \in Nibs : i <= nib /\ child[n][i] # NULL
         \/ pc = "value" /\ AtMost(lkey[l], lkey[n])
      Work == {"walk", "child", "scan", "back", "value"}
<1>0. UNCHANGED <<root, child, path, shift, lkey, lval, st, stamp, remove_count>>
  BY LeReaderKeeps
<1>t. /\ TypeOK /\ rkey[r] \in Key /\ rn[r] \in Ptr /\ rnib[r] \in -1 .. NIB
      /\ stack[r] \in Seq(Frame)
  BY DEF WParts, LeTypeOK
<1>1. CASE LeCount(r)
  <2>1. /\ rpc'[r] = "root" /\ stack'[r] = <<>>
    BY <1>1 DEF LeCount, GetCount, RGoto, LeTypeOK, LeStepAt
  <2>2. AloneFrames(r)' BY <2>1 DEF AloneFrames
  <2>3. AloneHere(r)' BY <2>1 DEF AloneHere, Standing
  <2>4. AloneAhead(r)' BY <2>1 DEF AloneAhead
  <2> QED BY <2>2, <2>3, <2>4
<1>2. CASE ~LeCount(r)
  <2>1. /\ InAttempt(r) /\ rkey'[r] = key /\ ~touched[r]
        /\ ~LeCall(r) /\ ~LeRestart(r) /\ ~LeReturn(r)
    BY <1>2, LeAttempt
  <2>2. AloneFrames(r) /\ AloneHere(r) /\ AloneAhead(r) BY <2>1 DEF LeAloneAt
  <2>3. Frames(stack[r], rpc[r], rn[r]) BY <2>2 DEF AloneFrames
  <2>4. Here(rpc[r], rn[r], rnib[r]) /\ Told(rpc[r], rres[r])
    BY <2>2 DEF AloneHere, Standing
  <2>5. ASSUME NEW l, Below(l), rpc[r] \in Work
        PROVE  LeftIn(stack[r], l) \/ Next1(rpc[r], rn[r], rnib[r], l)
    BY <2>2, <2>5 DEF AloneAhead, Ahead, Left
  <2>s. SUFFICES /\ Frames(stack'[r], rpc'[r], rn'[r])
                 /\ Here(rpc'[r], rn'[r], rnib'[r]) /\ Told(rpc'[r], rres'[r])
                 /\ rpc'[r] \in Work => \A l : Below(l) =>
                       \/ LeftIn(stack'[r], l)
                       \/ Next1(rpc'[r], rn'[r], rnib'[r], l)
    <3>1. AloneFrames(r)'
      BY <1>0, <2>1, <2>s DEF AloneFrames, OnKey, Inside, Under, ShiftOf, PathOf,
                              is_leaf
    <3>2. AloneHere(r)' BY <1>0, <2>1, <2>s DEF AloneHere, Standing, Low, Answer
    <3>3. AloneAhead(r)'
      BY <1>0, <2>1, <2>s DEF AloneAhead, Ahead, Left, Leads, Precedes, Under,
                              ShiftOf, PathOf, is_leaf
    <3> QED BY <3>1, <3>2, <3>3
  <2>p. /\ \A n \in Nodes : /\ shift[n] \in Digits /\ shift[n] \in Int
                            /\ path[n] \in Key /\ PathOf(n) = path[n]
                            /\ n \in Obj /\ n \notin Leaves
        /\ \A l \in Leaves : /\ PathOf(l) = lkey[l] /\ lkey[l] \in Key
                             /\ l \notin Nodes /\ l \in Obj
        /\ NULL \notin Nodes /\ NULL \notin Leaves
        /\ NIB \in Nat
    BY <1>t, PlaceFacts, PtrAssumption, SizeAssumption DEF TypeOK
  <2>q. ASSUME NEW l \in Leaves, NEW n
        PROVE  /\ Under(l, n) => /\ n \in Nodes
                                 /\ path_mask(lkey[l], shift[n]) = path[n]
                                 /\ lkey[l][shift[n]] \in Nibs
                                 /\ slice_index(lkey[l], shift[n]) = lkey[l][shift[n]]
               /\ n \notin Nodes /\ Leads(n, l) => n = l
               /\ n \in Nodes /\ Leads(n, l) => Under(l, n)
    BY <2>p DEF Under, Leads, slice_index, Key
  <2>n. ASSUME NEW l \in Leaves, NEW n, Under(l, n)
        PROVE  /\ slice_index(lkey[l], shift[n]) \in Int
               /\ slice_index(lkey[l], shift[n]) >= 0
               /\ slice_index(lkey[l], shift[n]) <= NIB
               /\ slice_index(lkey[l], shift[n]) \in Nibs
               /\ slice_index(lkey[l], shift[n]) = lkey[l][shift[n]]
    <3>1. /\ slice_index(lkey[l], shift[n]) \in Nibs
          /\ slice_index(lkey[l], shift[n]) = lkey[l][shift[n]]
      BY <2>n, <2>q
    <3> QED BY <3>1, <2>p DEF Nibs
  <2>d. \A i \in DOMAIN stack[r] : stack[r][i] \in Frame /\ stack[r][i].n \in Nodes
    <3>1. \A i \in DOMAIN stack[r] : stack[r][i] \in Frame BY <1>t
    <3> QED BY <3>1 DEF Frame
  <2>w. \A n \in Nodes : st[n] = "live" => path_mask(path[n], shift[n]) = path[n]
    BY DEF Shape, InvEdge
  <2> USE DEF RGoto, locs, Same, LeTypeOK
  <2>6. CASE LeRoot(r)
    <3>1. rpc'[r] = "walk" /\ rn'[r] = root /\ stack'[r] = <<>>
      BY <2>6 DEF LeRoot, GetRoot, LeStepAt
    <3>2. root # NULL => st[root] = "live" BY DEF WParts, InvTree, NullOr
    <3>3. \A l : Below(l) => Leads(root, l) BY <2>p DEF Shape, InvCover
    <3>4. Frames(<<>>, "walk", root) OBVIOUS
    <3> QED BY <3>1, <3>2, <3>3, <3>4
  <2>7. CASE LeNull(r)
    <3>1. /\ rpc[r] = "walk" /\ rn[r] = NULL /\ rpc'[r] = "back"
          /\ stack'[r] = stack[r]
      BY <2>7 DEF LeNull
    <3>2. \A l : Below(l) => LeftIn(stack[r], l) BY <2>5, <2>p, <2>q, <3>1
    <3> HIDE DEF LeftIn
    <3> QED BY <3>1, <3>2, <2>3
  <2>8. CASE LeScanned(r)
    <3>1. /\ rpc[r] = "scan" /\ rnib[r] < 0 /\ rpc'[r] = "back"
          /\ stack'[r] = stack[r]
      BY <2>8 DEF LeScanned
    <3>2. ASSUME NEW l, Below(l) PROVE LeftIn(stack[r], l)
      <4>1. ~(Under(l, rn[r]) /\ slice_index(lkey[l], shift[rn[r]]) <= rnib[r])
        <5>1. Under(l, rn[r]) => /\ slice_index(lkey[l], shift[rn[r]]) \in Int
                                 /\ slice_index(lkey[l], shift[rn[r]]) >= 0
          BY <3>2, <2>n
        <5> QED BY <5>1, <3>1, <1>t, <2>p
      <4>2. ~(\E i \in Nibs : i <= rnib[r]) BY <3>1, <1>t DEF Nibs
      <4> HIDE DEF LeftIn
      <4> QED BY <2>5, <3>1, <3>2, <4>1, <4>2
    <3> HIDE DEF LeftIn
    <3> QED BY <3>1, <3>2, <2>3
  <2>9. CASE LeLeaf(r)
    <3>1. /\ rpc[r] = "walk" /\ rn[r] \in Leaves
          /\ rpc'[r] = IF AtMost(lkey[rn[r]], rkey[r]) THEN "value" ELSE "back"
          /\ rn'[r] = rn[r] /\ stack'[r] = stack[r]
      BY <2>9 DEF LeLeaf, is_leaf
    <3>2. ASSUME NEW l, Below(l) PROVE LeftIn(stack[r], l) \/ rn[r] = l
      <4> HIDE DEF LeftIn
      <4> QED BY <2>5, <2>p, <2>q, <3>1, <3>2
    <3>3. \A l : AtMost(lkey[l], lkey[l]) BY DEF AtMost
    <3> HIDE DEF LeftIn
    <3>4. CASE AtMost(lkey[rn[r]], key) BY <3>1, <3>2, <3>3, <3>4, <2>3, <2>4
    <3>5. CASE ~AtMost(lkey[rn[r]], key) BY <3>1, <3>2, <3>5, <2>3, <2>4
    <3> QED BY <3>4, <3>5
  <2>10. CASE LeOutside(r)
    <3>1. PICK n \in Nodes : n = rn[r] BY <2>10 DEF LeOutside
    <3>2. /\ rpc[r] = "walk" /\ Strays(key, path[n], shift[n])
          /\ rn'[r] = n /\ stack'[r] = stack[r]
          /\ Less(path[n], key) => rpc'[r] = "scan" /\ rnib'[r] = NIB
          /\ ~Less(path[n], key) => rpc'[r] = "back"
      BY <2>10, <3>1 DEF LeOutside, Outside
    <3>3. st[n] = "live" BY <2>4, <2>p, <3>1, <3>2
    <3>4. path_mask(path[n], shift[n]) = path[n] BY <2>w, <3>3
    <3>5. ASSUME Less(path[n], key) PROVE Low(n, NIB, key)
      <4>1. SUFFICES ASSUME NEW k \in Key, path_mask(k, shift[n]) = path[n]
                     PROVE  AtMost(k, key)
        BY DEF Low
      <4>2. Less(k, key) BY <4>1, <3>2, <3>4, <3>5, <1>t, <2>p, StraysLess
      <4> QED BY <4>2 DEF AtMost
    <3>6. ASSUME NEW l, Below(l) PROVE LeftIn(stack[r], l) \/ Under(l, n)
      <4> HIDE DEF LeftIn
      <4> QED BY <2>5, <2>q, <3>1, <3>2, <3>6
    <3>7. ASSUME NEW l \in Leaves, Under(l, n)
          PROVE  slice_index(lkey[l], shift[n]) <= NIB
      BY <3>7, <2>p, <2>q DEF Nibs
    <3>8. ASSUME NEW l, Below(l), Under(l, n) PROVE Less(path[n], key)
      BY <3>2, <3>4, <3>8, <1>t, <2>p, <2>q, StraysLess
    <3> HIDE DEF LeftIn
    <3>9. CASE Less(path[n], key)
      BY <3>1, <3>2, <3>3, <3>5, <3>6, <3>7, <3>9, <2>3
    <3>10. CASE ~Less(path[n], key) BY <3>1, <3>2, <3>6, <3>8, <3>10, <2>3
    <3> QED BY <3>9, <3>10
  <2>11. CASE LeInside(r)
    <3>1. PICK n, nib, f : /\ n \in Nodes /\ n = rn[r]
                           /\ nib = slice_index(key, shift[n])
                           /\ f = [n |-> n, nib |-> nib]
      BY <2>11 DEF LeInside
    <3>2. /\ rpc[r] = "walk" /\ rpc'[r] = "child" /\ rn'[r] = n /\ rnib'[r] = nib
          /\ stack'[r] = Append(stack[r], f)
          /\ ~Strays(key, path[n], shift[n])
      BY <2>11, <3>1 DEF LeInside, Outside
    <3>3. st[n] = "live" BY <2>4, <2>p, <3>1, <3>2
    <3>4. nib \in Nibs BY <3>1, <1>t, <2>p, KeyFacts
    <3>5. f \in Frame /\ f.n = n /\ f.nib = nib BY <3>1, <3>4 DEF Frame
    <3>6. path_mask(key, shift[n]) = path[n] /\ OnKey(f, key)
      <4>1. path_mask(path[n], shift[n]) = path[n] BY <2>w, <3>1, <3>3
      <4> QED BY <4>1, <3>1, <3>2, <3>5 DEF OnKey, Strays
    <3>7. PICK s : s = Append(stack[r], f) OBVIOUS
    <3>8. /\ Len(stack[r]) \in Nat /\ DOMAIN s = 1 .. Len(stack[r]) + 1
          /\ DOMAIN stack[r] = 1 .. Len(stack[r])
          /\ \A i \in 1 .. Len(stack[r]) : s[i] = stack[r][i]
          /\ s[Len(stack[r]) + 1] = f
      BY <1>t, <3>5, <3>7, PushFacts
    <3>9. /\ \A i \in DOMAIN stack[r] : i \in DOMAIN s /\ s[i] = stack[r][i]
          /\ Len(stack[r]) + 1 \in DOMAIN s
      BY <3>8
    <3>10. Frames(s, "child", n)
      <4>1. SUFFICES ASSUME NEW i \in DOMAIN s
                     PROVE  /\ st[s[i].n] = "live" /\ OnKey(s[i], key)
                            /\ \A j \in DOMAIN s : i < j => Inside(s[j].n, s[i])
        OBVIOUS
      <4>2. CASE i \in DOMAIN stack[r]
        <5>1. /\ st[s[i].n] = "live" /\ OnKey(s[i], key) /\ Inside(n, s[i])
              /\ \A j \in DOMAIN stack[r] : i < j => Inside(s[j].n, s[i])
          BY <2>3, <2>p, <3>1, <3>2, <3>9, <4>2
        <5>2. ASSUME NEW j \in DOMAIN s, i < j PROVE Inside(s[j].n, s[i])
          <6>1. j \in DOMAIN stack[r] \/ s[j].n = n BY <3>5, <3>8
          <6> QED BY <5>1, <5>2, <6>1
        <5> QED BY <5>1, <5>2
      <4>3. CASE i = Len(stack[r]) + 1
        <5>1. \A j \in DOMAIN s : ~(i < j) BY <3>8, <4>3
        <5> QED BY <5>1, <3>3, <3>5, <3>6, <3>8, <4>3
      <4> QED BY <4>2, <4>3, <3>8
    <3>11. ASSUME NEW l, Below(l)
           PROVE  LeftIn(s, l) \/ Next1("child", n, nib, l)
      <4>1. CASE LeftIn(stack[r], l) BY <3>9, <4>1
      <4>2. CASE Under(l, n)
        <5>1. /\ path_mask(lkey[l], shift[n]) = path[n] /\ lkey[l] \in Key
              /\ slice_index(lkey[l], shift[n]) = lkey[l][shift[n]]
              /\ lkey[l][shift[n]] \in Int /\ nib \in Int /\ nib = key[shift[n]]
          BY <3>1, <3>4, <3>11, <4>2, <2>p, <2>q DEF Nibs, slice_index
        <5>2. ~(nib < lkey[l][shift[n]])
          <6>1. ASSUME nib < lkey[l][shift[n]] PROVE FALSE
            <7>1. Less(key, lkey[l])
              BY <3>1, <3>6, <5>1, <6>1, <1>t, <2>p, SlotLess
            <7>2. ~AtMost(lkey[l], key) BY <7>1, <5>1, <1>t, LessNotAtMost
            <7> QED BY <7>2, <3>11
          <6> QED BY <6>1
        <5>3. CASE lkey[l][shift[n]] = nib BY <4>2, <5>1, <5>3
        <5>4. CASE lkey[l][shift[n]] < nib
          <6>1. /\ Under(l, s[Len(stack[r]) + 1].n)
                /\ slice_index(lkey[l], shift[s[Len(stack[r]) + 1].n])
                      < s[Len(stack[r]) + 1].nib
            BY <3>5, <3>8, <4>2, <5>1, <5>4
          <6> QED BY <6>1, <3>9
        <5> QED BY <5>1, <5>2, <5>3, <5>4
      <4>3. LeftIn(stack[r], l) \/ Under(l, n)
        <5> HIDE DEF LeftIn
        <5> QED BY <2>5, <2>q, <3>1, <3>2, <3>11
      <4> QED BY <4>1, <4>2, <4>3
    <3>12. /\ rpc'[r] = "child" /\ rn'[r] = n /\ rnib'[r] = nib /\ stack'[r] = s
           /\ Here("child", n, nib)
      BY <3>2, <3>3, <3>7
    <3> HIDE DEF LeftIn, Frames, Next1, Here
    <3>13. Told(rpc'[r], rres'[r]) BY <3>12
    <3> QED BY <3>10, <3>11, <3>12, <3>13
  <2>12. CASE LeChild(r)
    <3>1. /\ rpc[r] = "child" /\ rpc'[r] = "walk" /\ stack'[r] = stack[r]
          /\ rn'[r] = child[rn[r]][rnib[r]] /\ stack[r] # <<>>
          /\ SeqExt!Last(stack[r]) = [n |-> rn[r], nib |-> rnib[r]]
          /\ rn[r] \in Nodes
      BY <2>12 DEF LeChild, GetChild, LeStepAt
    <3>2. PICK n, c, nib : /\ n \in Nodes /\ n = rn[r] /\ nib = rnib[r]
                           /\ c = child[n][nib]
      BY <3>1
    <3>3. /\ SeqExt!Last(stack[r]) \in Frame
          /\ SeqExt!Last(stack[r]) = stack[r][Len(stack[r])]
          /\ Len(stack[r]) \in Nat /\ Len(stack[r]) > 0
          /\ DOMAIN stack[r] = 1 .. Len(stack[r])
      BY <1>t, <3>1, PopFacts
    <3>4. /\ nib \in Nibs /\ Len(stack[r]) \in DOMAIN stack[r]
          /\ stack[r][Len(stack[r])].n = n /\ stack[r][Len(stack[r])].nib = nib
      BY <3>1, <3>2, <3>3 DEF Frame
    <3>5. st[n] = "live" BY <2>4, <2>p, <3>1, <3>2
    <3>6. c # NULL => /\ c \in Obj /\ st[c] = "live" /\ Under(c, n)
                      /\ slice_index(PathOf(c), shift[n]) = nib
      <4>1. c \in Ptr BY <3>2, <3>4, <1>t, LinkTypes
      <4>2. NullOr(c, "live") BY <3>2, <3>4, <3>5 DEF WParts, InvTree
      <4> QED BY <4>1, <4>2, <3>2, <3>4, <3>5 DEF Shape, InvEdge, NullOr, Ptr
    <3>7. ASSUME c # NULL, NEW i \in DOMAIN stack[r] PROVE Inside(c, stack[r][i])
      <4>1. CASE i = Len(stack[r]) BY <3>4, <3>6, <3>7, <4>1 DEF Inside
      <4>2. CASE i < Len(stack[r])
        <5>1. Inside(n, stack[r][i]) BY <2>3, <3>4, <4>2
        <5> QED BY <5>1, <3>2, <3>6, <3>7, <1>t, <2>d, InsideDown
      <4> QED BY <4>1, <4>2, <3>3
    <3>8. ASSUME NEW l, Below(l) PROVE LeftIn(stack[r], l) \/ Leads(c, l)
      <4>1. ASSUME Under(l, n), slice_index(lkey[l], shift[n]) = nib
            PROVE  Leads(c, l)
        <5>1. Leads(SlotFor(n, l), l)
          BY <3>2, <3>5, <3>8, <4>1, <2>p DEF Shape, InvCover
        <5>2. SlotFor(n, l) = c BY <3>2, <3>8, <4>1, <2>p DEF SlotFor
        <5> QED BY <5>1, <5>2
      <4> HIDE DEF LeftIn
      <4> QED BY <2>5, <3>1, <3>2, <3>8, <4>1
    <3>9. Frames(stack[r], "walk", c) BY <2>3, <3>7
    <3>10. /\ rpc'[r] = "walk" /\ rn'[r] = c /\ stack'[r] = stack[r]
           /\ Here("walk", c, rnib'[r])
      BY <3>1, <3>2, <3>6
    <3> HIDE DEF LeftIn, Frames, Here
    <3>11. Told(rpc'[r], rres'[r]) BY <3>10
    <3> QED BY <3>8, <3>9, <3>10, <3>11
  <2>13. CASE LeBack(r)
    <3>0. rpc[r] = "back" BY <2>13 DEF LeBack
    <3>1. \A l : Below(l) => LeftIn(stack[r], l)
      <4> HIDE DEF LeftIn
      <4> QED BY <2>5, <3>0
    <3>2. CASE stack[r] = <<>>
      <4>1. rpc'[r] = "check" /\ rres'[r] = NULL /\ stack'[r] = stack[r]
        BY <2>13, <3>2 DEF LeBack
      <4>2. ~(\E l : Below(l)) BY <3>1, <3>2
      <4>3. NULL \in Answer(key) BY <4>2 DEF Answer
      <4> QED BY <4>1, <4>3, <2>3
    <3>3. CASE stack[r] # <<>>
      <4>1. PICK f, s : f = SeqExt!Last(stack[r]) /\ s = SeqExt!Front(stack[r])
        OBVIOUS
      <4>2. /\ f \in Frame /\ f = stack[r][Len(stack[r])]
            /\ Len(stack[r]) \in Nat /\ Len(stack[r]) > 0
            /\ DOMAIN stack[r] = 1 .. Len(stack[r])
            /\ DOMAIN s = 1 .. Len(stack[r]) - 1
            /\ \A i \in 1 .. Len(stack[r]) - 1 : s[i] = stack[r][i]
        BY <1>t, <3>3, <4>1, PopFacts
      <4>3. /\ rpc'[r] = "scan" /\ rn'[r] = f.n /\ rnib'[r] = f.nib - 1
            /\ stack'[r] = s
        BY <2>13, <3>3, <4>1 DEF LeBack, NextLeft
      <4>4. f.n \in Nodes /\ f.nib \in Nibs BY <4>2 DEF Frame
      <4>5. Len(stack[r]) \in DOMAIN stack[r] BY <4>2
      <4>6. st[f.n] = "live" /\ OnKey(f, key) BY <2>3, <4>2, <4>5
      <4>7. Low(f.n, f.nib - 1, key)
        <5>1. SUFFICES ASSUME NEW k \in Key, path_mask(k, shift[f.n]) = path[f.n],
                              k[shift[f.n]] <= f.nib - 1
                       PROVE  AtMost(k, key)
          BY DEF Low
        <5>2. /\ path_mask(k, shift[f.n]) = path_mask(key, shift[f.n])
              /\ f.nib = key[shift[f.n]]
          BY <4>6, <5>1 DEF OnKey, slice_index
        <5>3. k[shift[f.n]] < key[shift[f.n]]
          BY <5>1, <5>2, <4>4, <2>p DEF Key, Nibs
        <5>4. Less(k, key) BY <5>2, <5>3, <4>4, <2>p, <1>t, SlotLess
        <5> QED BY <5>4 DEF AtMost
      <4>8. \A i \in DOMAIN s : /\ i \in DOMAIN stack[r] /\ s[i] = stack[r][i]
                                /\ i < Len(stack[r])
        BY <4>2
      <4>9. Frames(s, "scan", f.n)
        <5>1. \A i \in DOMAIN s : Inside(f.n, s[i]) BY <2>3, <4>2, <4>5, <4>8
        <5> QED BY <2>3, <4>8, <5>1
      <4>10. ASSUME NEW l, Below(l)
             PROVE  LeftIn(s, l) \/ Next1("scan", f.n, f.nib - 1, l)
        <5>1. PICK i \in DOMAIN stack[r] :
                 /\ Under(l, stack[r][i].n)
                 /\ slice_index(lkey[l], shift[stack[r][i].n]) < stack[r][i].nib
          BY <3>1, <4>10
        <5>2. CASE i = Len(stack[r])
          <6>1. /\ Under(l, f.n)
                /\ slice_index(lkey[l], shift[f.n]) < f.nib
            BY <4>2, <5>1, <5>2
          <6>2. slice_index(lkey[l], shift[f.n]) \in Int
            BY <4>10, <6>1, <2>n
          <6>3. slice_index(lkey[l], shift[f.n]) <= f.nib - 1
            BY <4>4, <6>1, <6>2 DEF Nibs
          <6> QED BY <6>1, <6>3
        <5>3. CASE i # Len(stack[r])
          <6>1. i \in DOMAIN s /\ s[i] = stack[r][i] BY <4>2, <5>3
          <6> QED BY <5>1, <6>1
        <5> QED BY <5>2, <5>3
      <4>11. Here("scan", f.n, f.nib - 1) BY <4>6, <4>7
      <4> HIDE DEF LeftIn, Frames, Next1, Here
      <4>12. Told(rpc'[r], rres'[r]) BY <4>3
      <4> QED BY <4>3, <4>9, <4>10, <4>11, <4>12
    <3> QED BY <3>2, <3>3
  <2>14. CASE LeScan(r)
    <3>1. PICK n, i, m : /\ n \in Nodes /\ n = rn[r] /\ i \in Nibs /\ i = rnib[r]
                         /\ m = child[n][i]
      BY <2>14, <1>t DEF LeScan, LeStepAt, Nibs
    <3>2. /\ rpc[r] = "scan" /\ stack'[r] = stack[r]
          /\ \/ m = NULL /\ rnib'[r] = i - 1 /\ rpc'[r] = "scan" /\ rn'[r] = n
             \/ m \in Leaves /\ rn'[r] = m /\ rpc'[r] = "value"
             \/ m \in Nodes /\ rn'[r] = m /\ rnib'[r] = NIB /\ rpc'[r] = "scan"
      BY <2>14, <3>1 DEF LeScan, is_leaf
    <3>3. st[n] = "live" /\ Low(n, i, key) BY <2>4, <2>p, <3>1, <3>2
    <3>4. m # NULL => /\ m \in Obj /\ st[m] = "live" /\ Under(m, n)
                      /\ slice_index(PathOf(m), shift[n]) = i
      <4>1. m \in Ptr BY <3>1, <1>t, LinkTypes
      <4>2. NullOr(m, "live") BY <3>1, <3>3 DEF WParts, InvTree
      <4> QED BY <4>1, <4>2, <3>1, <3>3 DEF Shape, InvEdge, NullOr, Ptr
    <3>5. ASSUME m # NULL, NEW j \in DOMAIN stack[r] PROVE Inside(m, stack[r][j])
      <4>1. Inside(n, stack[r][j]) BY <2>3, <2>p, <3>1, <3>2
      <4> QED BY <4>1, <3>1, <3>4, <3>5, <1>t, <2>d, InsideDown
    <3>6. ASSUME NEW l, Below(l)
          PROVE  \/ LeftIn(stack[r], l)
                 \/ Under(l, n) /\ lkey[l][shift[n]] < i
                 \/ Leads(m, l)
                 \/ Precedes(l, n) /\ \E j \in Nibs : j <= i /\ child[n][j] # NULL
      <4>1. ASSUME Under(l, n), slice_index(lkey[l], shift[n]) <= i
            PROVE  lkey[l][shift[n]] < i \/ Leads(m, l)
        <5>1. Leads(SlotFor(n, l), l)
          BY <3>1, <3>3, <3>6, <4>1, <2>p DEF Shape, InvCover
        <5>2. /\ slice_index(lkey[l], shift[n]) = lkey[l][shift[n]]
              /\ lkey[l][shift[n]] \in Int /\ i \in Int
          BY <3>1, <3>6, <4>1, <2>q DEF Nibs
        <5>3. CASE lkey[l][shift[n]] = i
          <6>1. SlotFor(n, l) = m BY <3>1, <3>6, <5>2, <5>3, <2>p DEF SlotFor
          <6> QED BY <5>1, <6>1
        <5> QED BY <4>1, <5>2, <5>3
      <4> HIDE DEF LeftIn
      <4> QED BY <2>5, <3>1, <3>2, <3>6, <4>1
    <3>7. CASE m = NULL
      <4>1. rnib'[r] = i - 1 /\ rpc'[r] = "scan" /\ rn'[r] = n
        BY <3>2, <3>7, <2>p
      <4>2. Low(n, i - 1, key)
        <5>1. SUFFICES ASSUME NEW k \in Key, path_mask(k, shift[n]) = path[n],
                              k[shift[n]] <= i - 1
                       PROVE  AtMost(k, key)
          BY DEF Low
        <5>2. k[shift[n]] <= i BY <5>1, <3>1, <2>p DEF Key, Nibs
        <5> QED BY <5>1, <5>2, <3>3 DEF Low
      <4>3. ASSUME NEW l, Below(l)
            PROVE  LeftIn(stack[r], l) \/ Next1("scan", n, i - 1, l)
        <5>1. ~Leads(m, l) BY <3>7, <4>3, <2>p, <2>q
        <5>2. CASE Under(l, n) /\ lkey[l][shift[n]] < i
          <6>1. /\ slice_index(lkey[l], shift[n]) \in Int
                /\ slice_index(lkey[l], shift[n]) = lkey[l][shift[n]]
            BY <4>3, <5>2, <2>n
          <6>2. slice_index(lkey[l], shift[n]) <= i - 1
            BY <3>1, <5>2, <6>1 DEF Nibs
          <6> QED BY <5>2, <6>2
        <5>3. CASE Precedes(l, n) /\ \E j \in Nibs : j <= i /\ child[n][j] # NULL
          <6>1. \E j \in Nibs : j <= i - 1 /\ child[n][j] # NULL
            <7>1. PICK j \in Nibs : j <= i /\ child[n][j] # NULL BY <5>3
            <7>2. j # i BY <3>1, <3>7, <7>1
            <7>3. j <= i - 1 BY <3>1, <7>1, <7>2 DEF Nibs
            <7> QED BY <7>1, <7>3
          <6> QED BY <5>3, <6>1
        <5> HIDE DEF LeftIn, Next1
        <5> QED BY <3>6, <4>3, <5>1, <5>2, <5>3
      <4>4. Frames(stack[r], "scan", n) BY <2>3, <3>1, <3>2
      <4>5. Here("scan", n, i - 1) BY <3>3, <4>2
      <4> HIDE DEF LeftIn, Frames, Next1, Here
      <4>6. Told(rpc'[r], rres'[r]) BY <4>1
      <4> QED BY <3>2, <4>1, <4>3, <4>4, <4>5, <4>6
    <3>8. CASE m \in Leaves
      <4>1. rn'[r] = m /\ rpc'[r] = "value" BY <3>2, <3>8, <2>p
      <4>2. path_mask(lkey[m], shift[n]) = path[n] /\ lkey[m][shift[n]] = i
        BY <3>4, <3>8, <2>p DEF Under, slice_index
      <4>3. AtMost(lkey[m], key) BY <4>2, <3>1, <3>3, <3>8, <2>p DEF Low, Nibs
      <4>4. ASSUME NEW l, Below(l)
            PROVE  LeftIn(stack[r], l) \/ Next1("value", m, rnib'[r], l)
        <5>1. CASE Under(l, n) /\ lkey[l][shift[n]] < i
          <6>1. Less(lkey[l], lkey[m])
            BY <3>1, <3>4, <3>8, <4>4, <5>1, <1>t, <2>p, <2>q, SlotOrder
          <6> QED BY <6>1 DEF AtMost
        <5>2. CASE Leads(m, l)
          <6>1. m = l BY <3>8, <4>4, <5>2, <2>p, <2>q
          <6> QED BY <6>1 DEF AtMost
        <5>3. CASE Precedes(l, n)
          <6>1. Less(lkey[l], lkey[m])
            BY <3>1, <3>4, <3>8, <5>3, <1>t, <2>p, PrecedesDown
          <6> QED BY <6>1 DEF AtMost
        <5> HIDE DEF LeftIn, Next1
        <5> QED BY <3>6, <4>4, <5>1, <5>2, <5>3
      <4>5. Frames(stack[r], "value", m) BY <2>3, <3>5
      <4>6. Here("value", m, rnib'[r]) BY <3>4, <4>3
      <4> HIDE DEF LeftIn, Frames, Next1, Here
      <4>7. Told(rpc'[r], rres'[r]) BY <4>1
      <4> QED BY <3>2, <4>1, <4>4, <4>5, <4>6, <4>7
    <3>9. CASE m \in Nodes
      <4>1. rn'[r] = m /\ rnib'[r] = NIB /\ rpc'[r] = "scan" /\ m # NULL
        BY <3>2, <3>9, <2>p
      <4>2. /\ shift[m] < shift[n] /\ path_mask(path[m], shift[n]) = path[n]
            /\ slice_index(path[m], shift[n]) = i
        BY <3>4, <3>9, <4>1, <1>t, <2>p, PlaceFacts DEF Under
      <4>3. Low(m, NIB, key)
        <5>1. SUFFICES ASSUME NEW k \in Key, path_mask(k, shift[m]) = path[m]
                       PROVE  AtMost(k, key)
          BY DEF Low
        <5>2. /\ path_mask(path_mask(k, shift[m]), shift[n]) = path_mask(k, shift[n])
              /\ slice_index(path_mask(k, shift[m]), shift[n]) = slice_index(k, shift[n])
          BY <4>2, <3>1, <3>9, <2>p, MaskNarrow
        <5>3. path_mask(k, shift[n]) = path[n] /\ k[shift[n]] = i
          BY <5>1, <5>2, <4>2 DEF slice_index
        <5> QED BY <5>3, <3>1, <3>3 DEF Low, Nibs
      <4>4. \E j \in Nibs : j <= NIB /\ child[m][j] # NULL
        <5>1. \E j \in Nibs : child[m][j] # NULL
          BY <3>4, <3>9, <4>1 DEF Shape, InvFork
        <5> QED BY <5>1, <2>p DEF Nibs
      <4>5. ASSUME NEW l, Below(l)
            PROVE  LeftIn(stack[r], l) \/ Next1("scan", m, NIB, l)
        <5>1. CASE Under(l, n) /\ lkey[l][shift[n]] < i
          <6>1. Precedes(l, m)
            BY <3>1, <3>4, <3>9, <4>1, <4>5, <5>1, <1>t, <2>p, <2>q, SlotOrder
          <6> QED BY <6>1, <4>4
        <5>2. CASE Leads(m, l)
          <6>1. Under(l, m) BY <3>9, <4>5, <5>2, <2>q
          <6>2. slice_index(lkey[l], shift[m]) <= NIB
            BY <6>1, <4>5, <2>n
          <6> QED BY <6>1, <6>2
        <5>3. CASE Precedes(l, n)
          <6>1. Precedes(l, m)
            BY <3>1, <3>4, <3>9, <4>1, <5>3, <1>t, <2>p, PrecedesDown
          <6> QED BY <6>1, <4>4
        <5> HIDE DEF LeftIn, Next1
        <5> QED BY <3>6, <4>5, <5>1, <5>2, <5>3
      <4>6. Frames(stack[r], "scan", m) BY <2>3, <3>5
      <4>7. Here("scan", m, NIB) BY <3>4, <4>1, <4>3
      <4> HIDE DEF LeftIn, Frames, Next1, Here
      <4>8. Told(rpc'[r], rres'[r]) BY <4>1
      <4> QED BY <3>2, <4>1, <4>5, <4>6, <4>7, <4>8
    <3> QED BY <3>2, <3>7, <3>8, <3>9
  <2>15. CASE LeValue(r)
    <3>1. PICK n \in Leaves : n = rn[r] /\ rpc[r] = "value"
      BY <2>15 DEF LeValue, LeStepAt
    <3>2. st[n] = "live" /\ AtMost(lkey[n], key) BY <2>4, <2>p, <3>1
    <3>3. lval[n] \in Values /\ lval[n] # NULL
      BY <3>2, PtrAssumption DEF Shape, InvLeaf
    <3>4. rpc'[r] = "check" /\ rres'[r] = lval[n] /\ stack'[r] = <<>>
      BY <2>15, <3>1, <3>3 DEF LeValue
    <3>5. ASSUME NEW l, Below(l) PROVE AtMost(lkey[l], lkey[n])
      <4>1. CASE LeftIn(stack[r], l)
        <5>1. PICK i \in DOMAIN stack[r] :
                 /\ Under(l, stack[r][i].n)
                 /\ slice_index(lkey[l], shift[stack[r][i].n]) < stack[r][i].nib
          BY <4>1
        <5>2. Inside(n, stack[r][i]) BY <2>3, <2>p, <3>1
        <5>3. stack[r][i].n \in Nodes BY <2>d
        <5>4. Less(lkey[l], lkey[n])
          BY <3>5, <5>1, <5>2, <5>3, <1>t, <2>p, SlotOrder DEF Inside
        <5> QED BY <5>4 DEF AtMost
      <4>2. LeftIn(stack[r], l) \/ AtMost(lkey[l], lkey[n])
        <5> HIDE DEF LeftIn
        <5> QED BY <2>5, <3>1, <3>5
      <4> QED BY <4>1, <4>2
    <3>6. lval[n] \in Answer(key)
      <4>1. Below(n) BY <3>2
      <4> DEFINE below == {l \in Leaves : st[l] = "live" /\ AtMost(lkey[l], key)}
                 top == {l \in below : \A m \in below : AtMost(lkey[m], lkey[l])}
      <4>2. n \in below /\ n \in top BY <3>5, <4>1
      <4>3. Answer(key) = {lval[l] : l \in top} BY <4>2 DEF Answer
      <4> QED BY <4>2, <4>3
    <3>7. Frames(<<>>, "check", rn'[r]) OBVIOUS
    <3> QED BY <3>4, <3>6, <3>7
  <2>16. CASE LeDone(r)
    <3>1. rpc'[r] = "ret" /\ stack'[r] = stack[r] BY <2>16 DEF LeDone, GetDone
    <3> QED BY <3>1, <2>3
  <2> QED BY <2>1, <2>6, <2>7, <2>8, <2>9, <2>10, <2>11, <2>12, <2>13, <2>14,
             <2>15, <2>16, <1>2 DEF LeRun
<1> QED BY <1>1, <1>2
-----------------------------------------------------------------------------
(* The invariant, and what it says of find_le.                             *)

LEMMA LeInitial ==
    ASSUME LeInit
    PROVE  LeInv
<1>1. GetInit BY DEF LeInit
<1>2. WParts BY <1>1, InitIInv DEF WParts, IInv, GetTypeOK
<1>3. Shape BY <1>1, InitShape
<1>4. \A r \in Readers : /\ rpc[r] = "idle" /\ stack[r] = <<>> /\ rn[r] = NULL
                         /\ ~InAttempt(r)
  BY DEF LeInit, GetInit, InAttempt
<1>5. LeTypeOK
  <2>1. /\ [p \in Digits |-> 0] \in Key /\ 0 \in -1 .. NIB /\ NULL \in Ptr
        /\ <<>> \in Seq(Frame)
    BY KeyFacts, SizeAssumption DEF Ptr
  <2> QED BY <2>1, <1>1 DEF LeInit, GetInit, LeTypeOK
<1>6. LeStep BY <1>4 DEF LeStep, LeStepAt
<1>7. LeFresh /\ LeClosed /\ LeAlone
  BY <1>4 DEF LeFresh, LeClosed, LeAlone, LeClosedAt, LeAloneAt
<1> QED BY <1>2, <1>3, <1>5, <1>6, <1>7 DEF LeInv

\* Steps of the readers leave the structure alone.
LEMMA PartsFrame ==
    ASSUME WParts, Shape, UNCHANGED wvars
    PROVE  WParts' /\ Shape'
<1>1. WParts' BY WriterPartsFrame DEF WParts
<1>2. Shape' BY ShapeFrame
<1> QED BY <1>1, <1>2

LEMMA LeStutter ==
    ASSUME LeInv, UNCHANGED levars
    PROVE  LeInv'
<1>1. /\ UNCHANGED wvars
      /\ UNCHANGED <<rpc, rkey, rwrs1, rn, rnib, rres, fresh, stack, touched>>
  BY DEF levars, vars, rvars, locs
<1>2. UNCHANGED <<root, child, path, shift, lkey, lval, st, stamp, remove_count>>
  BY <1>1 DEF wvars, heap, pending, aux
<1>3. WParts' /\ Shape' BY <1>1, PartsFrame DEF LeInv
<1>4. LeTypeOK' BY <1>1 DEF LeInv, LeTypeOK
<1>5. LeFresh' BY <1>1, <1>2 DEF LeInv, LeFresh, InAttempt
<1>6. LeStep' /\ LeClosed' /\ LeAlone'
  <2>1. ASSUME NEW u \in Readers
        PROVE  LeStepAt(u)' /\ LeClosedAt(u)' /\ LeAloneAt(u)'
    <3>1. LeStepAt(u) /\ LeClosedAt(u) /\ LeAloneAt(u)
      BY DEF LeInv, LeStep, LeClosed, LeAlone
    <3>2. LeRests(u) BY <1>1 DEF LeRests
    <3> QED BY <1>2, <3>1, <3>2, LeOther
  <2> QED BY <2>1 DEF LeStep, LeClosed, LeAlone
<1> QED BY <1>3, <1>4, <1>5, <1>6 DEF LeInv

\* For every number of threads and every grace period: a critnib_find_le that
\* runs against inserts and removes knows what LeInv says of its frames and of
\* the block it stands on, after each of its loads and each of their stores.
THEOREM LeInvariance == LeSpec => []LeInv
<1>1. LeInit => LeInv BY LeInitial
<1>2. LeInv /\ [LeNext]_levars => LeInv'
  <2> SUFFICES ASSUME LeInv, [LeNext]_levars PROVE LeInv' OBVIOUS
  <2>0. /\ WParts /\ Shape /\ LeTypeOK /\ LeStep /\ LeFresh /\ LeClosed /\ LeAlone
        /\ TypeOK
    BY DEF LeInv, WParts
  <2>p. ASSUME NEW u \in Readers PROVE LeStepAt(u) /\ LeClosedAt(u) /\ LeAloneAt(u)
    BY <2>0 DEF LeStep, LeClosed, LeAlone
  <2>1. ASSUME NEW w \in Writers, WriterNext(w), LeSeen PROVE LeInv'
    <3>0. LeWatch BY <2>1 DEF LeSeen
    <3>1. WParts' /\ Gentle /\ Shape' BY <2>0, <2>1, ShapeStep
    <3>2. TypeOK' BY <3>1 DEF WParts
    <3>3. LeTypeOK' /\ \A u \in Readers : LeStepAt(u)'
      BY <2>0, <2>p, <3>0, LeTypeWriter
    <3>4. LeFresh' BY <2>0, <3>0, <3>1, <3>2, LeFreshWriter
    <3>5. ASSUME NEW u \in Readers PROVE LeClosedAt(u)'
      BY <2>0, <2>p, <2>1, <3>0, <3>1, <3>4, LeClosedWriter
    <3>6. ASSUME NEW u \in Readers PROVE LeAloneAt(u)'
      BY <2>0, <2>p, <2>1, <3>0, <3>1, LeAloneWriter
    <3> QED BY <3>1, <3>3, <3>4, <3>5, <3>6 DEF LeInv, LeStep, LeClosed, LeAlone
  <2>2. ASSUME NEW r \in Readers, LeCall(r) \/ LeRun(r) PROVE LeInv'
    <3>1. /\ UNCHANGED wvars
          /\ UNCHANGED <<root, child, path, shift, lkey, lval, st, remove_count>>
          /\ \A u \in Readers : u # r => LeRests(u)
      BY <2>0, <2>2, LeReaderKeeps
    <3>2. WParts' /\ Shape' BY <2>0, <3>1, PartsFrame
    <3>3. LeTypeOK' /\ LeStepAt(r)' BY <2>0, <2>p, <2>2, LeTypeReader
    <3>4. LeFresh' BY <2>0, <2>2, LeFreshReader
    <3>5. LeClosedAt(r)' BY <2>0, <2>p, <2>2, LeClosedReader
    <3>6. LeAloneAt(r)' BY <2>0, <2>p, <2>2, LeAloneReader
    <3>7. ASSUME NEW u \in Readers
          PROVE  LeStepAt(u)' /\ LeClosedAt(u)' /\ LeAloneAt(u)'
      <4>1. CASE u = r BY <3>3, <3>5, <3>6, <4>1
      <4>2. CASE u # r BY <2>p, <3>1, <4>2, LeOther
      <4> QED BY <4>1, <4>2
    <3> QED BY <3>2, <3>3, <3>4, <3>7 DEF LeInv, LeStep, LeClosed, LeAlone
  <2>3. ASSUME UNCHANGED levars PROVE LeInv' BY <2>3, LeStutter
  <2> QED BY <2>1, <2>2, <2>3 DEF LeNext
<1> QED BY <1>1, <1>2, PTL DEF LeSpec

\* Within the grace period find_le never stands on, nor comes back to, a block
\* that has been recycled; and it goes down the tree, one frame per level.
THEOREM LeGraceIsSafe == LeSpec => []LeGraceSafe
<1>1. LeInv => LeGraceSafe
  <2>1. SUFFICES ASSUME LeInv, NEW r \in Readers, InAttempt(r), ~Expired(r)
                 PROVE  /\ rpc[r] \in {"walk", "child", "scan", "value"}
                           /\ rn[r] # NULL => rn[r] \in fresh[r]
                        /\ \A i \in DOMAIN stack[r] : stack[r][i].n \in fresh[r]
                        /\ Len(stack[r]) <= LEVELS
    BY DEF LeGraceSafe
  <2>2. GraceFrames(r) /\ GraceHere(r) BY <2>1 DEF LeInv, LeClosed, LeClosedAt
  <2>3. stack[r] \in Seq(Frame) BY <2>1 DEF LeInv, LeTypeOK
  <2>4. Len(stack[r]) <= LEVELS
    <3>1. Len(stack[r]) \in Nat /\ DOMAIN stack[r] = 1 .. Len(stack[r]) BY <2>3
    <3>2. CASE Len(stack[r]) = 0 BY <3>2, SizeAssumption
    <3>3. CASE Len(stack[r]) > 0
      <4>1. PICK i, f : i = Len(stack[r]) /\ f = stack[r][i] OBVIOUS
      <4>2. i \in DOMAIN stack[r] BY <3>1, <3>3, <4>1
      <4>3. f \in Frame BY <2>3, <4>1, <4>2
      <4>4. f.n \in Nodes BY <4>3 DEF Frame
      <4>5. shift[f.n] \in Nat
        <5>1. TypeOK BY <2>1 DEF LeInv, WParts
        <5> QED BY <4>4, <5>1, SizeAssumption DEF TypeOK, Digits
      <4>6. shift[f.n] + i <= LEVELS BY <2>2, <4>1, <4>2 DEF GraceFrames
      <4> QED BY <3>1, <4>1, <4>5, <4>6, SizeAssumption
    <3> QED BY <3>1, <3>2, <3>3
  <2> QED BY <2>2, <2>4 DEF GraceFrames, GraceHere, Standing
<1> QED BY <1>1, LeInvariance, PTL

\* Whatever the writers do meanwhile, a find_le that passes the second load of
\* remove_count returns NULL or a value that a key at most its argument had in
\* the tree during the attempt.
THEOREM LeIsSound == LeSpec => []LeSound
<1>1. LeInv => LeSound
  BY DEF LeInv, LeClosed, LeClosedAt, GraceHere, LeSound, InAttempt
<1> QED BY <1>1, LeInvariance, PTL

\* A find_le under which no writer changes the tree returns the value of the
\* greatest key that is at most its argument, and NULL if there is none.
THEOREM LeIsExact == LeSpec => []LeExact
<1>1. LeInv => LeExact
  BY DEF LeInv, LeAlone, LeAloneAt, AloneHere, LeExact, InAttempt
<1> QED BY <1>1, LeInvariance, PTL
=============================================================================
