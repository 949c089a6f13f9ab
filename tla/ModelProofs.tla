---------------------------- MODULE ModelProofs ----------------------------
(***************************************************************************)
(* What the work with models leaves, for any number of runs, requests and  *)
(* texts.  Of Extraction: that nothing in the graph is without a memory    *)
(* that has been stored, that the counts of a run add up, and that what    *)
(* names its message is read at the message's moment.  Of ModelServer:     *)
(* whose vectors a request is answered with, and that the slots of the     *)
(* reranker are counted right.                                             *)
(***************************************************************************)
EXTENDS ModelServer, Extraction, FiniteSetTheorems, NaturalsInduction, WellFoundedInduction, TLAPS

-----------------------------------------------------------------------------
(* numbers and sequences *)

\* A set of numbers that is not empty has a least.
LEMMA LeastOf ==
    ASSUME NEW S, S \subseteq Nat, S # {}
    PROVE  Min(S) \in S /\ \A n \in S : Min(S) <= n
  <1> DEFINE below == {p \in Nat \X Nat : p[1] < p[2]}
  <1>1. IsWellFoundedOn(below, Nat)
    BY NatLessThanWellFounded DEF OpToRel
  <1>2. PICK m \in S : \A n \in S : <<n, m>> \notin below
    <2> HIDE DEF below
    <2> QED BY <1>1, WFMin
  <1>3. ASSUME NEW n \in S PROVE m <= n
    <2>1. m \in Nat /\ n \in Nat
      OBVIOUS
    <2>2. ~(n < m)
      BY <1>2, <2>1
    <2> QED BY <2>1, <2>2
  <1> QED BY <1>3 DEF Min

LEMMA LowestOf ==
    ASSUME NEW S, S \subseteq Nat, S # {}
    PROVE  Lowest(S) \in S /\ \A n \in S : Lowest(S) <= n
  BY LeastOf DEF Lowest

\* What holds of 0, and of the next of every number it holds of, holds of all.
LEMMA Counting ==
    ASSUME NEW S, 0 \in S, \A n \in Nat : n \in S => n + 1 \in S
    PROVE  Nat \subseteq S
  <1> DEFINE rest == Nat \ S
  <1> SUFFICES ASSUME rest # {} PROVE FALSE
    OBVIOUS
  <1>1. Min(rest) \in rest /\ \A n \in rest : Min(rest) <= n
    BY LeastOf
  <1> DEFINE m == Min(rest)
  <1> HIDE DEF m
  <1>2. m \in Nat /\ m \notin S /\ \A n \in rest : m <= n
    BY <1>1 DEF m
  <1>3. m - 1 \in Nat /\ (m - 1) + 1 = m /\ ~(m <= m - 1)
    BY <1>2
  <1>4. m - 1 \in S
    BY <1>2, <1>3
  <1> QED BY <1>2, <1>3, <1>4

\* A sequence, its first element and what follows.
LEMMA SequenceIs ==
    ASSUME NEW s, IsSeq(s)
    PROVE  /\ Len(s) \in Nat /\ DOMAIN s = 1 .. Len(s) /\ DOMAIN s \subseteq Nat
           /\ s = <<>> <=> Len(s) = 0
  BY DEF IsSeq

LEMMA RestIs ==
    ASSUME NEW s, IsSeq(s), s # <<>>
    PROVE  /\ IsSeq(Tail(s)) /\ Len(Tail(s)) = Len(s) - 1
           /\ 1 \in DOMAIN s /\ Head(s) = s[1]
           /\ \A k \in DOMAIN Tail(s) : k + 1 \in DOMAIN s /\ Tail(s)[k] = s[k + 1]
  <1> DEFINE t == Tail(s)
  <1>1. s \in Seq(Range(s)) /\ Len(s) \in Nat \ {0}
    BY DEF IsSeq
  <1>2. t \in Seq(Range(s)) /\ Len(t) = Len(s) - 1 /\ \A k \in 1 .. Len(t) : t[k] = s[k + 1]
    BY <1>1
  <1> HIDE DEF t
  <1>3. t \in Seq(Range(t))
    BY <1>2 DEF Range
  <1>4. Head(s) = s[1]
    BY <1>1
  <1> QED BY <1>1, <1>2, <1>3, <1>4 DEF IsSeq, t

LEMMA AppendedIs ==
    ASSUME NEW s, IsSeq(s), NEW e
    PROVE  /\ IsSeq(Append(s, e)) /\ Len(Append(s, e)) = Len(s) + 1
           /\ Append(s, e)[Len(s) + 1] = e
           /\ \A k \in DOMAIN s : Append(s, e)[k] = s[k]
  <1> DEFINE t == Append(s, e)
  <1>1. s \in Seq(Range(s) \cup {e}) /\ Len(s) \in Nat
    BY DEF IsSeq, Range
  <1>2. /\ t \in Seq(Range(s) \cup {e}) /\ Len(t) = Len(s) + 1 /\ t[Len(s) + 1] = e
        /\ \A k \in 1 .. Len(s) : t[k] = s[k]
    BY <1>1
  <1> HIDE DEF t
  <1>3. t \in Seq(Range(t))
    BY <1>2 DEF Range
  <1> QED BY <1>1, <1>2, <1>3 DEF IsSeq, t

\* What is given place by place is a sequence.
LEMMA ListIs ==
    ASSUME NEW n \in Nat, NEW s, DOMAIN s = 1 .. n, s = [k \in DOMAIN s |-> s[k]]
    PROVE  IsSeq(s) /\ Len(s) = n
  <1>1. s \in [1 .. n -> Range(s)]
    BY DEF Range
  <1> QED BY <1>1 DEF IsSeq

\* What is picked from a sequence are elements of it, each from a place of its own.
LEMMA PickedIs ==
    ASSUME NEW s, IsSeq(s), NEW S, S \subseteq DOMAIN s, NEW t \in Picked(s, S)
    PROVE  /\ IsFiniteSet(S) /\ IsSeq(t) /\ Len(t) = Cardinality(S)
           /\ \E order \in [DOMAIN t -> S] :
                /\ \A n \in DOMAIN t : t[n] = s[order[n]]
                /\ \A m, n \in DOMAIN t : order[m] = order[n] => m = n
  <1>1. IsFiniteSet(S) /\ Cardinality(S) \in Nat
    <2>1. IsFiniteSet(DOMAIN s)
      BY SequenceIs, FS_Interval
    <2> QED BY <2>1, FS_Subset, FS_CardinalityType
  <1>2. PICK order \in InOrder(S) : t = [n \in DOMAIN order |-> s[order[n]]]
    BY DEF Picked
  <1>3. /\ order \in [1 .. Cardinality(S) -> S] /\ DOMAIN order = 1 .. Cardinality(S)
        /\ \A m, n \in 1 .. Cardinality(S) : m < n => order[m] < order[n]
    BY <1>2 DEF InOrder
  <1>4. DOMAIN t = 1 .. Cardinality(S) /\ \A n \in DOMAIN t : t[n] = s[order[n]]
    BY <1>2, <1>3
  <1>5. IsSeq(t) /\ Len(t) = Cardinality(S)
    BY <1>1, <1>2, <1>4, ListIs
  <1>6. ASSUME NEW m \in DOMAIN t, NEW n \in DOMAIN t, order[m] = order[n] PROVE m = n
    <2>1. order[m] \in Nat /\ m \in Nat /\ n \in Nat
      BY <1>3, <1>4, SequenceIs
    <2>2. ~(m < n) /\ ~(n < m)
      BY <1>3, <1>4, <1>6, <2>1
    <2> QED BY <2>1, <2>2
  <1> QED BY <1>1, <1>3, <1>4, <1>5, <1>6

\* One sequence after another.
LEMMA JoinedIs ==
    ASSUME NEW s, NEW t, IsSeq(s), IsSeq(t)
    PROVE  /\ IsSeq(s \o t) /\ Len(s \o t) = Len(s) + Len(t)
           /\ \A i \in DOMAIN s : (s \o t)[i] = s[i]
           /\ \A j \in DOMAIN t : (s \o t)[Len(s) + j] = t[j]
  <1> DEFINE u == s \o t
  <1> DEFINE All == Range(s) \cup Range(t)
  <1>1. s \in Seq(All) /\ t \in Seq(All) /\ Len(s) \in Nat /\ Len(t) \in Nat
    BY DEF IsSeq
  <1>2. /\ u \in Seq(All) /\ Len(u) = Len(s) + Len(t)
        /\ \A i \in 1 .. Len(s) : u[i] = s[i]
        /\ \A j \in 1 .. Len(t) : u[Len(s) + j] = t[j]
    <2> HIDE DEF All
    <2> QED BY <1>1
  <1> HIDE DEF u
  <1>3. u \in Seq(Range(u))
    BY <1>2 DEF Range
  <1> QED BY <1>1, <1>2, <1>3 DEF IsSeq, u

\* The sequences that follow one another in a sequence, as one: the elements are theirs.
LEMMA FlattenedIs ==
    ASSUME NEW s, IsSeq(s), \A i \in DOMAIN s : IsSeq(s[i])
    PROVE  /\ IsSeq(FlattenSeq(s))
           /\ \A k \in DOMAIN FlattenSeq(s) : \E i \in DOMAIN s : \E j \in DOMAIN s[i] : FlattenSeq(s)[k] = s[i][j]
           /\ \A i \in DOMAIN s : \A j \in DOMAIN s[i] : \E k \in DOMAIN FlattenSeq(s) : FlattenSeq(s)[k] = s[i][j]
  <1> DEFINE L == Len(s)
  <1>0. L \in Nat /\ DOMAIN s = 1 .. L
    BY SequenceIs
  <1>1. CASE L = 0
    <2>1. s = <<>>
      BY <1>0, <1>1, SequenceIs
    <2>2. FlattenSeq(s) = s
      BY <1>1 DEF FlattenSeq
    <2> QED BY <2>1, <2>2
  <1>2. CASE L # 0
    <2> DEFINE Next(f, i) == IF i = 1 THEN s[i] ELSE f[i - 1] \o s[i]
    <2> DEFINE Flat(f, n) == f = [i \in 1 .. n |-> Next(f, i)]
    <2> DEFINE Some == {n \in Nat : n <= L => \E f : Flat(f, n)}
    <2>1. 0 \in Some
      <3> DEFINE e == [i \in 1 .. 0 |-> 0]
      <3>1. \A i \in 1 .. 0 : e[i] = Next(e, i)
        OBVIOUS
      <3>2. e = [i \in 1 .. 0 |-> e[i]]
        OBVIOUS
      <3> HIDE DEF e, Next
      <3>3. [i \in 1 .. 0 |-> e[i]] = [i \in 1 .. 0 |-> Next(e, i)]
        BY <3>1
      <3>4. Flat(e, 0)
        BY <3>2, <3>3
      <3> HIDE DEF Flat
      <3> QED BY <3>4
    <2>2. ASSUME NEW n \in Nat, n \in Some PROVE n + 1 \in Some
      <3>1. ASSUME n + 1 <= L PROVE \E f : Flat(f, n + 1)
        <4>0. n <= L
          BY <3>1, <1>0
        <4>1. PICK f : Flat(f, n)
          <5> HIDE DEF Flat
          <5> QED BY <4>0, <2>2
        <4> DEFINE g == [i \in 1 .. n + 1 |-> IF i = n + 1 THEN Next(f, i) ELSE f[i]]
        <4>2. \A i \in 1 .. n + 1 : g[i] = Next(g, i)
          <5> SUFFICES ASSUME NEW i \in 1 .. n + 1 PROVE g[i] = Next(g, i)
            OBVIOUS
          <5>1. i # 1 => i - 1 \in 1 .. n /\ i - 1 # n + 1
            OBVIOUS
          <5>2. i # 1 => g[i - 1] = f[i - 1]
            BY <5>1
          <5>3. Next(g, i) = Next(f, i)
            BY <5>2
          <5>4. i # n + 1 => f[i] = Next(f, i)
            <6> HIDE DEF Next
            <6>1. i # n + 1 => i \in 1 .. n
              OBVIOUS
            <6>2. f = [k \in 1 .. n |-> Next(f, k)]
              BY <4>1
            <6>3. \A k \in 1 .. n : f[k] = Next(f, k)
              BY <6>2
            <6> QED BY <6>1, <6>3
          <5> QED BY <5>3, <5>4
        <4>3. g = [i \in 1 .. n + 1 |-> g[i]]
          OBVIOUS
        <4>4. [i \in 1 .. n + 1 |-> g[i]] = [i \in 1 .. n + 1 |-> Next(g, i)]
          BY <4>2
        <4> HIDE DEF g, Next
        <4>5. Flat(g, n + 1)
          BY <4>3, <4>4
        <4> QED BY <4>5
      <3> HIDE DEF Flat
      <3> QED BY <3>1
    <2>3. L \in Some
      <3> HIDE DEF Some
      <3> QED BY <2>1, <2>2, <1>0, Counting
    <2> DEFINE flatten == CHOOSE f : Flat(f, L)
    <2>4. FlattenSeq(s) = flatten[L]
      BY <1>2 DEF FlattenSeq
    <2>5. Flat(flatten, L)
      <3>1. \E f : Flat(f, L)
        <4> HIDE DEF Flat
        <4> QED BY <1>0, <2>3
      <3> HIDE DEF Flat
      <3> QED BY <3>1
    <2> HIDE DEF flatten
    <2>6. \A i \in 1 .. L : flatten[i] = IF i = 1 THEN s[i] ELSE flatten[i - 1] \o s[i]
      <3> HIDE DEF Next
      <3>1. flatten = [i \in 1 .. L |-> Next(flatten, i)]
        BY <2>5
      <3>2. \A i \in 1 .. L : flatten[i] = Next(flatten, i)
        BY <3>1
      <3> QED BY <3>2 DEF Next
    <2> DEFINE Made(n, u) == \A k \in DOMAIN u : \E i \in 1 .. n : \E j \in DOMAIN s[i] : u[k] = s[i][j]
    <2> DEFINE Has(n, u)  == \A i \in 1 .. n : \A j \in DOMAIN s[i] : \E k \in DOMAIN u : u[k] = s[i][j]
    <2> DEFINE Good == {n \in Nat : n \in 1 .. L => IsSeq(flatten[n]) /\ Made(n, flatten[n]) /\ Has(n, flatten[n])}
    <2>7. 0 \in Good
      OBVIOUS
    <2>8. ASSUME NEW n \in Nat, n \in Good PROVE n + 1 \in Good
      <3>1. ASSUME n + 1 \in 1 .. L, n = 0
            PROVE  /\ IsSeq(flatten[n + 1]) /\ Made(n + 1, flatten[n + 1]) /\ Has(n + 1, flatten[n + 1])
        <4>1. flatten[n + 1] = s[1] /\ n + 1 = 1 /\ 1 \in DOMAIN s
          BY <1>0, <2>6, <3>1
        <4> QED BY <4>1
      <3>2. ASSUME n + 1 \in 1 .. L, n # 0
            PROVE  /\ IsSeq(flatten[n + 1]) /\ Made(n + 1, flatten[n + 1]) /\ Has(n + 1, flatten[n + 1])
        <4>1. n \in 1 .. L /\ n + 1 \in DOMAIN s /\ n + 1 # 1 /\ (n + 1) - 1 = n
          BY <1>0, <3>2
        <4>2. flatten[n + 1] = flatten[n] \o s[n + 1]
          BY <2>6, <3>2, <4>1
        <4>3. IsSeq(flatten[n]) /\ Made(n, flatten[n]) /\ Has(n, flatten[n]) /\ IsSeq(s[n + 1])
          BY <2>8, <4>1
        <4> DEFINE u == flatten[n + 1]
        <4> DEFINE v == flatten[n]
        <4> DEFINE w == s[n + 1]
        <4>4. /\ IsSeq(u) /\ Len(u) = Len(v) + Len(w)
              /\ \A i \in DOMAIN v : u[i] = v[i]
              /\ \A j \in DOMAIN w : u[Len(v) + j] = w[j]
          <5>1. /\ IsSeq(v \o w) /\ Len(v \o w) = Len(v) + Len(w)
                /\ \A i \in DOMAIN v : (v \o w)[i] = v[i]
                /\ \A j \in DOMAIN w : (v \o w)[Len(v) + j] = w[j]
            <6>1. IsSeq(v) /\ IsSeq(w)
              BY <4>3
            <6> HIDE DEF v, w
            <6> QED BY <6>1, JoinedIs
          <5>2. u = v \o w
            BY <4>2
          <5> HIDE DEF u, v, w
          <5> QED BY <5>1, <5>2
        <4>5. /\ Len(v) \in Nat /\ Len(w) \in Nat /\ DOMAIN v = 1 .. Len(v) /\ DOMAIN w = 1 .. Len(w)
              /\ DOMAIN u = 1 .. Len(v) + Len(w)
          BY <4>3, <4>4, SequenceIs
        <4>6. Made(n, v) /\ Has(n, v)
          BY <4>3
        <4> HIDE DEF u, v
        <4>7. Made(n + 1, u)
          <5> SUFFICES ASSUME NEW k \in DOMAIN u
                       PROVE  \E i \in 1 .. n + 1 : \E j \in DOMAIN s[i] : u[k] = s[i][j]
            OBVIOUS
          <5>1. CASE k \in DOMAIN v
            <6>1. PICK i \in 1 .. n : \E j \in DOMAIN s[i] : v[k] = s[i][j]
              BY <4>6, <5>1
            <6>2. i \in 1 .. n + 1 /\ u[k] = v[k]
              BY <4>4, <5>1
            <6> QED BY <6>1, <6>2
          <5>2. CASE k \notin DOMAIN v
            <6>1. k - Len(v) \in DOMAIN w /\ Len(v) + (k - Len(v)) = k
              BY <4>5, <5>2
            <6>2. u[k] = w[k - Len(v)]
              BY <4>4, <6>1
            <6> QED BY <6>1, <6>2
          <5> QED BY <5>1, <5>2
        <4>8. Has(n + 1, u)
          <5> SUFFICES ASSUME NEW i \in 1 .. n + 1, NEW j \in DOMAIN s[i]
                       PROVE  \E k \in DOMAIN u : u[k] = s[i][j]
            OBVIOUS
          <5>1. CASE i \in 1 .. n
            <6>1. PICK k \in DOMAIN v : v[k] = s[i][j]
              BY <4>6, <5>1
            <6>2. k \in DOMAIN u /\ u[k] = v[k]
              BY <4>4, <4>5
            <6> QED BY <6>1, <6>2
          <5>2. CASE i = n + 1
            <6>1. j \in DOMAIN w
              BY <5>2
            <6>2. Len(v) + j \in DOMAIN u /\ u[Len(v) + j] = w[j]
              BY <4>4, <4>5, <6>1
            <6> QED BY <5>2, <6>2
          <5> QED BY <5>1, <5>2
        <4> HIDE DEF Made, Has
        <4> QED BY <4>4, <4>7, <4>8 DEF u
      <3> HIDE DEF Made, Has
      <3> QED BY <3>1, <3>2
    <2>9. L \in Good
      <3> HIDE DEF Good
      <3> QED BY <2>7, <2>8, <1>0, Counting
    <2> QED BY <1>0, <1>2, <2>4, <2>9
  <1> QED BY <1>0, <1>1, <1>2

-----------------------------------------------------------------------------
(* what is true of a run *)

RunFields    == {"stage", "tries", "extracted", "stored", "merged", "discarded", "contexts", "common", "rest",
                 "kept", "keys", "mentions", "index", "counts", "new", "wrote", "links", "edges"}
MemoryFields == {"item", "readings", "zone", "event", "precision", "basis", "observed"}
IsItem(x)    == DOMAIN x = ItemFields /\ x.names \in Seq(Names) /\ IsSeq(x.said)
IsMemory(m)  == DOMAIN m = MemoryFields /\ IsItem(m.item)
Memories(s)  == IsSeq(s) /\ \A i \in DOMAIN s : IsMemory(s[i])
Texts(kept)  == {kept[i].item.text : i \in DOMAIN kept}

Formed(one) ==
    /\ DOMAIN one = RunFields
    /\ Memories(one.rest) /\ Memories(one.kept) /\ IsSeq(one.mentions) /\ IsSeq(one.new)

Untouched(one) ==
    /\ one.kept = <<>> /\ one.rest = <<>> /\ one.mentions = <<>> /\ one.new = <<>>
    /\ one.keys = {} /\ one.links = {} /\ one.wrote = {}
    /\ one.extracted = 0 /\ one.stored = 0 /\ one.merged = 0

Early     == {"redact", "decide", "extract", "failed"}
Folding   == {"ground", "dedup"}
Resolving == {"seed", "resolve", "write"}
Listed(one) == one.extracted = Len(one.kept) + one.merged + one.discarded

\* What has been extracted is still to be folded, kept, merged or discarded.
Account(one) ==
    /\ one.extracted \in Nat /\ one.stored \in Nat /\ one.merged \in Nat /\ one.discarded \in Nat
    /\ one.stage \in Early => Untouched(one) /\ one.discarded = 0
    /\ one.stage \in Folding => one.extracted = Len(one.rest) + Len(one.kept) + one.merged + one.discarded
    /\ one.stage \in Folding \cup Resolving => one.stored = 0
    /\ one.stage \in Resolving \cup {"commit"} => Listed(one) /\ one.kept # <<>>
    /\ one.stage = "commit" => one.stored = Len(one.kept)
    /\ one.stage = "done" /\ one.extracted > 0 => one.extracted = one.stored + one.merged + one.discarded

\* No text is kept twice.
Distinct(one) ==
    /\ \A i, j \in DOMAIN one.kept : one.kept[i].item.text = one.kept[j].item.text => i = j
    /\ one.stage \in Folding => \A i \in DOMAIN one.kept : BatchKeyOf(one.kept[i]) \in one.keys

\* Each mention of a memory that is kept is still to be resolved or has its link.
Met(one, r) ==
    \A i \in DOMAIN one.kept : \A j \in DOMAIN one.kept[i].item.names :
        LET text == one.kept[i].item.text
            name == one.kept[i].item.names[j]
        IN  \/ \E k \in DOMAIN one.mentions : one.mentions[k].memory = text /\ one.mentions[k].name = name
            \/ name \in DOMAIN one.index /\ <<r, text, name, one.index[name]>> \in one.links
Joins(one, r, e) ==
    \E text \in Texts(one.kept), a, b \in Names : {<<r, text, a, e[1]>>, <<r, text, b, e[3]>>} \subseteq one.links
Linked(one, r) ==
    /\ one.stage \in Folding \cup {"seed"} => one.links = {} /\ one.wrote = {} /\ one.new = <<>>
    /\ one.stage \in Resolving \cup {"commit"} =>
        /\ \A k \in DOMAIN one.mentions : one.mentions[k].memory \in Texts(one.kept)
        /\ \A l \in one.links : l[1] = r /\ l[2] \in Texts(one.kept)
        /\ Met(one, r)
        /\ \A k \in DOMAIN one.new : one.new[k] \in Touched(one)
        /\ one.wrote \subseteq Touched(one)
    /\ one.stage \in {"write", "commit"} => \A e \in one.edges : Joins(one, r, e)

Sound(one, r) == Formed(one) /\ Account(one) /\ Distinct(one) /\ Linked(one, r)

\* A link is of a memory that has been stored, and so is what a name or an edge has it from.
Held(l) == l[1] \in Runs /\ run[l[1]].stage = "done" /\ run[l[1]].stored > 0 /\ l[2] \in Texts(run[l[1]].kept)
Anchored ==
    /\ \A l \in links : Held(l)
    /\ \A n \in Names : entities[n] > 0 /\ Known[n] = 0 => \E l \in links : l[4] = n
    /\ \A e \in edges : \E k, l \in links : k[4] = e[1] /\ l[4] = e[3] /\ k[1] = l[1] /\ k[2] = l[2]

GraphInv ==
    /\ job \in Jobs /\ DOMAIN run = Runs /\ DOMAIN entities = Names
    /\ \A r \in Runs : Sound(run[r], r)
    /\ Anchored

-----------------------------------------------------------------------------
LEMMA AnchoredIs == Anchored => NoOrphans
  <1> SUFFICES ASSUME Anchored PROVE NoOrphans
    OBVIOUS
  <1> DEFINE of(n) == {<<l[1], l[2]>> : l \in {k \in links : k[4] = n}}
  <1> DEFINE stored == UNION {{<<r, m.item.text>> : m \in Stored(r)} : r \in Runs}
  <1>1. ASSUME NEW l \in links PROVE <<l[1], l[2]>> \in stored
    <2>1. Held(l)
      BY DEF Anchored
    <2>2. PICK i \in DOMAIN run[l[1]].kept : l[2] = run[l[1]].kept[i].item.text
      BY <2>1 DEF Held, Texts
    <2>3. run[l[1]].kept[i] \in Stored(l[1])
      BY <2>1 DEF Held, Stored, ToSet
    <2> QED BY <2>1, <2>2, <2>3 DEF Held
  <1> HIDE DEF stored
  <1>2. \A n \in Names : entities[n] > 0 /\ Known[n] = 0 => of(n) \cap stored # {}
    <2> SUFFICES ASSUME NEW n \in Names, entities[n] > 0 /\ Known[n] = 0 PROVE of(n) \cap stored # {}
      OBVIOUS
    <2>1. PICK l \in links : l[4] = n
      BY DEF Anchored
    <2>2. <<l[1], l[2]>> \in of(n)
      BY <2>1
    <2> QED BY <1>1, <2>2
  <1>3. \A e \in edges : of(e[1]) \cap of(e[3]) \cap stored # {}
    <2> SUFFICES ASSUME NEW e \in edges PROVE of(e[1]) \cap of(e[3]) \cap stored # {}
      OBVIOUS
    <2>1. PICK k \in links, l \in links : k[4] = e[1] /\ l[4] = e[3] /\ k[1] = l[1] /\ k[2] = l[2]
      BY DEF Anchored
    <2>2. <<k[1], k[2]>> \in of(e[1]) /\ <<l[1], l[2]>> \in of(e[3])
      BY <2>1
    <2> QED BY <1>1, <2>1, <2>2
  <1>4. {<<l[1], l[2]>> : l \in links} \subseteq stored
    BY <1>1
  <1> QED BY <1>2, <1>3, <1>4 DEF NoOrphans, stored

\* A run that has not begun to extract, or is over without it.
LEMMA UntouchedSound ==
    ASSUME NEW one, NEW r, DOMAIN one = RunFields, Untouched(one), one.stage \in Early \cup {"done"},
           one.discarded \in Nat, one.stage \in Early => one.discarded = 0
    PROVE  Sound(one, r)
  <1>1. IsSeq(<<>>) /\ Memories(<<>>)
    BY DEF IsSeq, Memories
  <1>2. Formed(one)
    BY <1>1 DEF Formed, Untouched
  <1>3. Account(one)
    BY DEF Account, Untouched, Early, Folding, Resolving
  <1>4. Distinct(one)
    BY DEF Distinct, Untouched
  <1>5. Linked(one, r)
    BY DEF Linked, Early, Folding, Resolving
  <1> QED BY <1>2, <1>3, <1>4, <1>5 DEF Sound

LEMMA FreshIs ==
    /\ DOMAIN Fresh = RunFields /\ Untouched(Fresh) /\ Fresh.stage = "redact" /\ Fresh.discarded = 0
    /\ \A stage, n : LET one == [Fresh EXCEPT !.tries = n, !.stage = stage]
                     IN  DOMAIN one = RunFields /\ Untouched(one) /\ one.stage = stage /\ one.discarded = 0
    /\ LET one == [Fresh EXCEPT !.stage = "done"]
       IN  DOMAIN one = RunFields /\ Untouched(one) /\ one.stage = "done" /\ one.discarded = 0
  BY DEF Fresh, RunFields, Untouched

LEMMA GraphBegins == ExtractionInit => GraphInv
  <1> SUFFICES ASSUME ExtractionInit PROVE GraphInv
    OBVIOUS
  <1>1. \A r \in Runs : run[r] = Fresh \/ run[r] = [Fresh EXCEPT !.stage = "done"]
    BY DEF ExtractionInit
  <1>2. \A r \in Runs : Sound(run[r], r)
    <2> SUFFICES ASSUME NEW r \in Runs PROVE Sound(run[r], r)
      OBVIOUS
    <2>1. /\ DOMAIN run[r] = RunFields /\ Untouched(run[r])
          /\ run[r].stage \in Early \cup {"done"} /\ run[r].discarded = 0
      BY <1>1, FreshIs DEF Early
    <2> QED BY <2>1, UntouchedSound
  <1>3. Anchored
    BY ExtractionAssumption DEF ExtractionInit, Anchored
  <1> QED BY <1>2, <1>3, ExtractionAssumption DEF ExtractionInit, GraphInv

-----------------------------------------------------------------------------
\* A step of one run leaves the others as they were.
LEMMA SetMoves ==
    ASSUME GraphInv, NEW r \in Runs, NEW new, Set(r, new)
    PROVE  DOMAIN run' = Runs /\ run'[r] = new /\ \A q \in Runs \ {r} : run'[q] = run[q]
  BY DEF GraphInv, Set

\* Where the graph is not written, a step of a run that is not over keeps what is anchored.
LEMMA QuietKeeps ==
    ASSUME GraphInv, NEW r \in Runs, NEW new, Set(r, new), Sound(new, r), run[r].stage # "done",
           UNCHANGED <<job, Graph>>
    PROVE  GraphInv'
  <1>1. DOMAIN run' = Runs /\ run'[r] = new /\ \A q \in Runs \ {r} : run'[q] = run[q]
    BY SetMoves
  <1>2. \A q \in Runs : Sound(run[q], q)
    BY DEF GraphInv
  <1>3. \A q \in Runs : Sound(run'[q], q)
    BY <1>1, <1>2
  <1>4. links' = links /\ entities' = entities /\ edges' = edges /\ job' = job
    BY DEF Graph
  <1>5. \A l \in links : Held(l) => Held(l)'
    BY <1>1 DEF Held
  <1>6. Anchored'
    BY <1>4, <1>5 DEF GraphInv, Anchored
  <1>7. (\A q \in Runs : Sound(run[q], q))'
    BY <1>3
  <1> QED BY <1>1, <1>4, <1>6, <1>7 DEF GraphInv

\* A run that is rolled back begins again, or has failed.
LEMMA RollbackKeeps ==
    ASSUME GraphInv, NEW r \in Runs, Rollback(r), run[r].stage # "done"
    PROVE  GraphInv'
  <1> DEFINE stage == IF run[r].tries + 1 < MaxTries THEN "redact" ELSE "failed"
  <1> DEFINE new == [Fresh EXCEPT !.tries = run[r].tries + 1, !.stage = stage]
  <1>1. DOMAIN new = RunFields /\ Untouched(new) /\ new.stage = stage /\ new.discarded = 0
    BY FreshIs
  <1>2. stage \in Early
    BY DEF Early
  <1>3. Set(r, new) /\ UNCHANGED <<job, Graph>>
    BY DEF Rollback
  <1> HIDE DEF new, stage
  <1>4. Sound(new, r)
    BY <1>1, <1>2, UntouchedSound
  <1> QED BY <1>3, <1>4, QuietKeeps

LEMMA RedactKeeps ==
    ASSUME GraphInv, NEW r \in Runs, NEW works \in BOOLEAN, Redact(r, works)
    PROVE  GraphInv'
  <1> DEFINE one == run[r]
  <1> DEFINE on == [one EXCEPT !.stage = "decide"]
  <1> DEFINE off == [one EXCEPT !.stage = "done", !.discarded = 1]
  <1>1. DOMAIN one = RunFields /\ one.stage = "redact" /\ Untouched(one) /\ one.discarded = 0
    BY DEF GraphInv, Sound, Formed, Account, Redact, AtStage, Early
  <1>2. DOMAIN on = RunFields /\ on.stage = "decide" /\ Untouched(on) /\ on.discarded = 0
    BY <1>1 DEF RunFields, Untouched
  <1>3. DOMAIN off = RunFields /\ off.stage = "done" /\ Untouched(off) /\ off.discarded = 1
    BY <1>1 DEF RunFields, Untouched
  <1>4. Set(r, on) \/ Set(r, off)
    BY DEF Redact
  <1>5. UNCHANGED <<job, Graph>>
    BY DEF Redact, Quiet
  <1> HIDE DEF on, off
  <1>6. Sound(on, r) /\ Sound(off, r)
    BY <1>2, <1>3, UntouchedSound DEF Early
  <1> QED BY <1>1, <1>4, <1>5, <1>6, QuietKeeps

LEMMA DecideKeeps ==
    ASSUME GraphInv, NEW r \in Runs, NEW answer, Decide(r, answer)
    PROVE  GraphInv'
  <1> DEFINE one == run[r]
  <1> DEFINE on == [one EXCEPT !.stage = "extract", !.contexts = NormalizeMessages(WorkerPayload(job[r]))]
  <1> DEFINE off == [one EXCEPT !.stage = "done", !.discarded = 1]
  <1>1. DOMAIN one = RunFields /\ one.stage = "decide" /\ Untouched(one) /\ one.discarded = 0
    BY DEF GraphInv, Sound, Formed, Account, Decide, AtStage, Early
  <1>2. DOMAIN on = RunFields /\ on.stage = "extract" /\ Untouched(on) /\ on.discarded = 0
    BY <1>1 DEF RunFields, Untouched
  <1>3. DOMAIN off = RunFields /\ off.stage = "done" /\ Untouched(off) /\ off.discarded = 1
    BY <1>1 DEF RunFields, Untouched
  <1>4. Set(r, on) \/ Set(r, off)
    BY DEF Decide
  <1>5. UNCHANGED <<job, Graph>>
    BY DEF Decide, Quiet
  <1> HIDE DEF on, off
  <1>6. Sound(on, r) /\ Sound(off, r)
    BY <1>2, <1>3, UntouchedSound DEF Early
  <1> QED BY <1>1, <1>4, <1>5, <1>6, QuietKeeps

-----------------------------------------------------------------------------
\* What the worker makes of an item keeps the item.
LEMMA AppliedIs ==
    ASSUME NEW item, IsItem(item), NEW p, NEW contexts
    PROVE  /\ IsMemory(ApplyTemporalMetadata(item, p, contexts))
           /\ ApplyTemporalMetadata(item, p, contexts).item = item
  BY DEF ApplyTemporalMetadata, IsMemory, MemoryFields

LEMMA ParsedIs ==
    ASSUME NEW reply, NEW p, NEW contexts, IsSeq(reply.items), \A i \in DOMAIN reply.items : IsItem(reply.items[i]),
           NEW parsed \in ParseMemories(reply, p, contexts)
    PROVE  /\ Memories(parsed)
           /\ \A n \in DOMAIN parsed : \E i \in DOMAIN reply.items :
                 parsed[n] = ApplyTemporalMetadata(reply.items[i], p, contexts)
  <1> DEFINE S == {i \in DOMAIN reply.items : reply.items[i].kind = "object"}
  <1>1. PICK valid \in Picked(reply.items, S) :
            parsed = [i \in DOMAIN valid |-> ApplyTemporalMetadata(valid[i], p, contexts)]
    BY DEF ParseMemories
  <1> HIDE DEF S
  <1>2. S \subseteq DOMAIN reply.items
    BY DEF S
  <1>3. IsSeq(valid) /\ \A n \in DOMAIN valid : \E i \in DOMAIN reply.items : valid[n] = reply.items[i]
    BY <1>2, PickedIs
  <1>4. DOMAIN parsed = 1 .. Len(valid) /\ Len(valid) \in Nat
    BY <1>1, <1>3, SequenceIs
  <1>5. \A i \in DOMAIN parsed : parsed[i] = ApplyTemporalMetadata(valid[i], p, contexts)
    BY <1>1
  <1>6. IsSeq(parsed)
    BY <1>1, <1>4, ListIs
  <1>7. \A i \in DOMAIN parsed : IsMemory(parsed[i])
    BY <1>1, <1>3, <1>5, AppliedIs
  <1>8. \A n \in DOMAIN parsed : \E i \in DOMAIN reply.items :
            parsed[n] = ApplyTemporalMetadata(reply.items[i], p, contexts)
    BY <1>1, <1>3, <1>5
  <1> QED BY <1>6, <1>7, <1>8 DEF Memories

LEMMA PseudonymIs ==
    ASSUME NEW m, IsMemory(m)
    PROVE  /\ IsMemory(PseudonymizeFact(m))
           /\ \A f \in MemoryFields \ {"item"} : PseudonymizeFact(m)[f] = m[f]
           /\ \A f \in ItemFields \ {"fact"} : PseudonymizeFact(m).item[f] = m.item[f]
  <1> DEFINE x == [m.item EXCEPT !.fact = "none"]
  <1> DEFINE n == [m EXCEPT !.item = x]
  <1>1. DOMAIN x = ItemFields /\ \A f \in ItemFields \ {"fact"} : x[f] = m.item[f]
    BY DEF IsMemory, IsItem
  <1> HIDE DEF x
  <1>2. DOMAIN n = MemoryFields /\ n.item = x /\ \A f \in MemoryFields \ {"item"} : n[f] = m[f]
    BY DEF IsMemory, MemoryFields
  <1>3. PseudonymizeFact(m) = n \/ PseudonymizeFact(m) = m
    BY DEF PseudonymizeFact, x
  <1> HIDE DEF n
  <1>4. x.names = m.item.names /\ x.said = m.item.said
    BY <1>1 DEF ItemFields
  <1>5. IsMemory(n)
    BY <1>1, <1>2, <1>4 DEF IsMemory, IsItem
  <1> QED BY <1>1, <1>2, <1>3, <1>5

LEMMA SafeIs ==
    ASSUME NEW parsed, Memories(parsed), NEW memories \in Safe(parsed)
    PROVE  /\ Memories(memories)
           /\ \A n \in DOMAIN memories : \E i \in DOMAIN parsed : memories[n] = PseudonymizeFact(parsed[i])
  <1> DEFINE S == {i \in DOMAIN parsed : parsed[i].item.tier # "direct"}
  <1>1. PICK kept \in Picked(parsed, S) : memories = [i \in DOMAIN kept |-> PseudonymizeFact(kept[i])]
    BY DEF Safe
  <1> HIDE DEF S
  <1>2. S \subseteq DOMAIN parsed
    BY DEF S
  <1>3. IsSeq(kept) /\ \A n \in DOMAIN kept : \E i \in DOMAIN parsed : kept[n] = parsed[i]
    BY <1>2, PickedIs DEF Memories
  <1>4. DOMAIN memories = 1 .. Len(kept) /\ Len(kept) \in Nat
    BY <1>1, <1>3, SequenceIs
  <1>5. \A i \in DOMAIN memories : memories[i] = PseudonymizeFact(kept[i])
    BY <1>1
  <1>6. IsSeq(memories)
    BY <1>1, <1>4, ListIs
  <1>7. \A n \in DOMAIN memories : \E i \in DOMAIN parsed : memories[n] = PseudonymizeFact(parsed[i])
    BY <1>1, <1>3, <1>5
  <1>8. \A n \in DOMAIN memories : IsMemory(memories[n])
    BY <1>7, PseudonymIs DEF Memories
  <1> QED BY <1>6, <1>7, <1>8 DEF Memories

\* What a reply may say of a job.
LEMMA RepliesAre ==
    ASSUME job \in Jobs, NEW r \in Runs, NEW reply \in job[r].replies
    PROVE  IsSeq(reply.items) /\ \A i \in DOMAIN reply.items : IsItem(reply.items[i])
  BY JobsAssumption DEF IsItem

LEMMA ExtractKeeps ==
    ASSUME GraphInv, NEW r \in Runs, NEW reply \in job[r].replies, Extract(r, reply)
    PROVE  GraphInv'
  <1> DEFINE one == run[r]
  <1>1. /\ DOMAIN one = RunFields /\ one.stage = "extract" /\ Untouched(one) /\ one.discarded = 0
    BY DEF GraphInv, Sound, Formed, Account, Extract, AtStage, Early
  <1>2. PICK parsed \in ParseMemories(reply, job[r], one.contexts) : \E memories \in Safe(parsed) :
            /\ Set(r, [one EXCEPT !.stage = IF memories = <<>> THEN "done" ELSE "ground",
                                  !.extracted = Len(memories), !.rest = memories])
            /\ UNCHANGED <<job, Graph>>
    BY DEF Extract, Quiet
  <1>3. PICK memories \in Safe(parsed) :
            /\ Set(r, [one EXCEPT !.stage = IF memories = <<>> THEN "done" ELSE "ground",
                                  !.extracted = Len(memories), !.rest = memories])
            /\ UNCHANGED <<job, Graph>>
    BY <1>2
  <1>4. Memories(memories)
    <2>1. IsSeq(reply.items) /\ \A i \in DOMAIN reply.items : IsItem(reply.items[i])
      BY RepliesAre DEF GraphInv
    <2>2. Memories(parsed)
      BY <2>1, ParsedIs
    <2> QED BY <2>2, SafeIs
  <1> DEFINE stage == IF memories = <<>> THEN "done" ELSE "ground"
  <1> DEFINE new == [one EXCEPT !.stage = stage, !.extracted = Len(memories), !.rest = memories]
  <1>5. /\ DOMAIN new = RunFields /\ new.stage = stage /\ new.extracted = Len(memories) /\ new.rest = memories
        /\ new.kept = <<>> /\ new.mentions = <<>> /\ new.new = <<>> /\ new.keys = {} /\ new.links = {}
        /\ new.wrote = {} /\ new.stored = 0 /\ new.merged = 0 /\ new.discarded = 0
    BY <1>1 DEF RunFields, Untouched
  <1>6. Set(r, new)
    BY <1>3
  <1>7. Len(memories) \in Nat /\ (memories = <<>> <=> Len(memories) = 0)
    BY <1>4, SequenceIs DEF Memories
  <1> HIDE DEF new
  <1>8. Sound(new, r)
    <2>1. IsSeq(<<>>) /\ Memories(<<>>)
      BY DEF IsSeq, Memories
    <2>2. Formed(new)
      BY <1>4, <1>5, <2>1 DEF Formed
    <2>3. Account(new)
      BY <1>5, <1>7 DEF Account, Early, Folding, Resolving
    <2>4. Distinct(new)
      BY <1>5 DEF Distinct
    <2>5. Linked(new, r)
      BY <1>5 DEF Linked, Early, Folding, Resolving
    <2> QED BY <2>2, <2>3, <2>4, <2>5 DEF Sound
  <1> QED BY <1>1, <1>3, <1>6, <1>8, QuietKeeps

-----------------------------------------------------------------------------
\* The second pass keeps the item as well.
LEMMA GroundedIs ==
    ASSUME NEW m, IsMemory(m), NEW common
    PROVE  IsMemory(GroundMemoryTemporal(m, common)) /\ GroundMemoryTemporal(m, common).item = m.item
  BY DEF GroundMemoryTemporal, IsMemory, MemoryFields

LEMMA GroundKeeps ==
    ASSUME GraphInv, NEW r \in Runs, Ground(r)
    PROVE  GraphInv'
  <1> DEFINE one == run[r]
  <1>1. Sound(one, r) /\ one.stage = "ground"
    BY DEF GraphInv, Ground, AtStage
  <1>2. PICK contexts \in {NormalizeMessages(job[r])} :
            Set(r, [one EXCEPT !.stage = "dedup", !.contexts = <<>>, !.common = CommonContext(contexts, job[r])])
    BY DEF Ground
  <1> DEFINE new == [one EXCEPT !.stage = "dedup", !.contexts = <<>>, !.common = CommonContext(contexts, job[r])]
  <1>3. /\ DOMAIN new = RunFields /\ new.stage = "dedup" /\ new.extracted = one.extracted
        /\ new.stored = one.stored /\ new.merged = one.merged /\ new.discarded = one.discarded
        /\ new.rest = one.rest /\ new.kept = one.kept /\ new.keys = one.keys /\ new.mentions = one.mentions
        /\ new.new = one.new /\ new.wrote = one.wrote /\ new.links = one.links
    BY <1>1 DEF RunFields, Sound, Formed
  <1>4. Set(r, new)
    BY <1>2
  <1>5. UNCHANGED <<job, Graph>>
    BY DEF Ground, Quiet
  <1> HIDE DEF new
  <1>6. Formed(new)
    BY <1>1, <1>3 DEF Sound, Formed
  <1>7. Account(new)
    BY <1>1, <1>3 DEF Sound, Account, Early, Folding, Resolving, Listed
  <1>8. Distinct(new)
    BY <1>1, <1>3 DEF Sound, Distinct, Folding
  <1>9. Linked(new, r)
    BY <1>1, <1>3 DEF Sound, Linked, Early, Folding, Resolving
  <1>10. Sound(new, r)
    BY <1>6, <1>7, <1>8, <1>9 DEF Sound
  <1> QED BY <1>1, <1>4, <1>5, <1>10, QuietKeeps

\* One more memory is folded, merged or discarded, or is kept when its text is new.
LEMMA FoldedSound ==
    ASSUME NEW r, NEW one, Sound(one, r), one.stage = "dedup", one.rest # <<>>,
           NEW new, DOMAIN new = RunFields, new.stage = "dedup", new.rest = Tail(one.rest),
           new.extracted = one.extracted, new.stored = one.stored, new.mentions = one.mentions, new.new = one.new,
           new.wrote = one.wrote, new.links = one.links, one.keys \subseteq new.keys,
           new.merged \in Nat, new.discarded \in Nat,
           \/ new.kept = one.kept /\ new.merged + new.discarded = one.merged + one.discarded + 1
           \/ /\ new.merged = one.merged /\ new.discarded = one.discarded
              /\ \E memory : /\ IsMemory(memory) /\ new.kept = Append(one.kept, memory)
                             /\ BatchKeyOf(memory) \in new.keys \ one.keys
    PROVE  Sound(new, r)
  <1> DEFINE Fewer == new.kept = one.kept /\ new.merged + new.discarded = one.merged + one.discarded + 1
  <1>1. /\ Memories(one.rest) /\ Memories(one.kept) /\ IsSeq(one.rest) /\ IsSeq(one.kept)
        /\ one.extracted \in Nat /\ one.stored \in Nat /\ one.merged \in Nat /\ one.discarded \in Nat
        /\ one.extracted = Len(one.rest) + Len(one.kept) + one.merged + one.discarded /\ one.stored = 0
        /\ Len(one.rest) \in Nat /\ Len(one.kept) \in Nat
    BY SequenceIs DEF Sound, Formed, Memories, Account, Folding
  <1> DEFINE left == Len(new.rest)
  <1>2. /\ IsSeq(new.rest) /\ left = Len(one.rest) - 1
        /\ \A k \in DOMAIN new.rest : k + 1 \in DOMAIN one.rest /\ new.rest[k] = one.rest[k + 1]
    BY <1>1, RestIs
  <1>3. Memories(new.rest)
    BY <1>1, <1>2 DEF Memories
  <1>4. CASE Fewer
    <2>1. Formed(new)
      BY <1>1, <1>3, <1>4 DEF Formed, Sound
    <2>2. Account(new)
      <3> DEFINE sum == one.extracted
      <3> DEFINE rest == Len(one.rest)
      <3> DEFINE kept == Len(one.kept)
      <3> DEFINE merged == one.merged
      <3> DEFINE discarded == one.discarded
      <3> DEFINE m == new.merged
      <3> DEFINE d == new.discarded
      <3>1. /\ sum \in Nat /\ rest \in Nat /\ kept \in Nat /\ merged \in Nat /\ discarded \in Nat
            /\ m \in Nat /\ d \in Nat /\ sum = rest + kept + merged + discarded
            /\ left = rest - 1 /\ m + d = merged + discarded + 1
        BY <1>1, <1>2, <1>4
      <3> HIDE DEF left, Fewer, sum, rest, kept, merged, discarded, m, d
      <3>2. sum = left + kept + m + d
        BY <3>1
      <3>3. new.extracted = Len(new.rest) + Len(new.kept) + new.merged + new.discarded
        BY <1>4, <3>2 DEF left, Fewer, sum, kept, m, d
      <3>4. new.extracted \in Nat /\ new.stored \in Nat /\ new.stored = 0
        BY <1>1
      <3> QED BY <3>3, <3>4 DEF Account, Early, Folding, Resolving
    <2>3. Distinct(new)
      BY <1>4 DEF Distinct, Sound, Folding
    <2>4. Linked(new, r)
      BY DEF Linked, Sound, Early, Folding, Resolving
    <2> QED BY <2>1, <2>2, <2>3, <2>4 DEF Sound
  <1>5. CASE ~Fewer
    <2>1. PICK memory : /\ IsMemory(memory) /\ new.kept = Append(one.kept, memory)
                        /\ BatchKeyOf(memory) \in new.keys /\ BatchKeyOf(memory) \notin one.keys
      BY <1>5
    <2>2. new.merged = one.merged /\ new.discarded = one.discarded
      BY <1>5
    <2>3. /\ IsSeq(new.kept) /\ Len(new.kept) = Len(one.kept) + 1 /\ new.kept[Len(one.kept) + 1] = memory
          /\ \A k \in DOMAIN one.kept : new.kept[k] = one.kept[k]
      BY <1>1, <2>1, AppendedIs
    <2>4. DOMAIN one.kept = 1 .. Len(one.kept) /\ DOMAIN new.kept = 1 .. Len(one.kept) + 1
      BY <1>1, <2>3, SequenceIs
    <2>5. \A k \in DOMAIN new.kept : k \in DOMAIN one.kept \/ k = Len(one.kept) + 1
      BY <1>1, <2>4
    <2>6. Memories(new.kept)
      BY <1>1, <2>1, <2>3, <2>5 DEF Memories
    <2>7. Formed(new)
      BY <1>3, <2>6 DEF Formed, Sound
    <2>8. Account(new)
      <3> DEFINE sum == one.extracted
      <3> DEFINE rest == Len(one.rest)
      <3> DEFINE kept == Len(one.kept)
      <3> DEFINE merged == one.merged
      <3> DEFINE discarded == one.discarded
      <3>1. /\ sum \in Nat /\ rest \in Nat /\ kept \in Nat /\ merged \in Nat /\ discarded \in Nat
            /\ sum = rest + kept + merged + discarded /\ left = rest - 1
        BY <1>1, <1>2
      <3> HIDE DEF left, Fewer, sum, rest, kept, merged, discarded
      <3>2. sum = left + (kept + 1) + merged + discarded
        BY <3>1
      <3>3. new.extracted = Len(new.rest) + Len(new.kept) + new.merged + new.discarded
        BY <2>2, <2>3, <3>2 DEF left, sum, kept, merged, discarded
      <3>4. new.extracted \in Nat /\ new.stored \in Nat /\ new.stored = 0
        BY <1>1
      <3> QED BY <3>3, <3>4 DEF Account, Early, Folding, Resolving
    <2>9. Distinct(new)
      <3>1. \A k \in DOMAIN one.kept : /\ BatchKeyOf(one.kept[k]) \in one.keys
                                       /\ one.kept[k].item.text # memory.item.text
        BY <2>1 DEF Sound, Distinct, Folding, BatchKeyOf
      <3>2. \A i, j \in DOMAIN new.kept : new.kept[i].item.text = new.kept[j].item.text => i = j
        BY <2>3, <2>5, <3>1 DEF Sound, Distinct
      <3>3. \A i \in DOMAIN new.kept : BatchKeyOf(new.kept[i]) \in new.keys
        BY <2>1, <2>3, <2>5, <3>1
      <3> QED BY <3>2, <3>3 DEF Distinct
    <2>10. Linked(new, r)
      BY DEF Linked, Sound, Early, Folding, Resolving
    <2> QED BY <2>7, <2>8, <2>9, <2>10 DEF Sound
  <1> QED BY <1>4, <1>5

LEMMA DedupKeeps ==
    ASSUME GraphInv, NEW r \in Runs, NEW verdict \in Verdicts, Dedup(r, verdict)
    PROVE  GraphInv'
  <1> DEFINE one == run[r]
  <1>1. Sound(one, r) /\ one.stage = "dedup" /\ one.rest # <<>> /\ UNCHANGED <<job, Graph>>
    BY DEF GraphInv, Dedup, AtStage, Quiet
  <1>2. /\ DOMAIN one = RunFields /\ one.merged \in Nat /\ one.discarded \in Nat /\ IsMemory(Head(one.rest))
    BY <1>1, RestIs DEF Sound, Formed, Account, Memories
  <1>3. PICK memory : memory = GroundMemoryTemporal(Head(one.rest), one.common)
    OBVIOUS
  <1>4. IsMemory(memory)
    BY <1>2, <1>3, GroundedIs
  <1> DEFINE tail == [one EXCEPT !.rest = Tail(@)]
  <1> DEFINE seen == [tail EXCEPT !.keys = @ \union {BatchKeyOf(memory), FactKey(memory)}]
  <1> DEFINE news == {[FoldInBatch(tail, memory) EXCEPT !.keys = @ \union {BatchKeyOf(memory)}],
                      [seen EXCEPT !.discarded = @ + 1], [seen EXCEPT !.merged = @ + 1]}
  <1> DEFINE more == [seen EXCEPT !.kept = Append(@, memory)]
  <1>5. (\E new \in news : Set(r, new)) \/ (~Repeats(tail, memory) /\ Set(r, more))
    BY <1>3 DEF Dedup, Verdicts
  <1>6. /\ DOMAIN tail = RunFields /\ tail.rest = Tail(one.rest)
        /\ tail.keys = one.keys /\ tail.stage = one.stage /\ tail.extracted = one.extracted
        /\ tail.stored = one.stored /\ tail.merged = one.merged /\ tail.discarded = one.discarded
        /\ tail.kept = one.kept /\ tail.mentions = one.mentions /\ tail.new = one.new
        /\ tail.wrote = one.wrote /\ tail.links = one.links
    BY <1>2 DEF RunFields
  <1> HIDE DEF tail
  <1>7. /\ DOMAIN seen = RunFields /\ seen.keys = one.keys \cup {BatchKeyOf(memory), FactKey(memory)}
        /\ seen.rest = Tail(one.rest) /\ seen.stage = one.stage /\ seen.extracted = one.extracted
        /\ seen.stored = one.stored /\ seen.merged = one.merged /\ seen.discarded = one.discarded
        /\ seen.kept = one.kept /\ seen.mentions = one.mentions /\ seen.new = one.new
        /\ seen.wrote = one.wrote /\ seen.links = one.links
    BY <1>6 DEF RunFields
  <1> HIDE DEF seen
  <1>8. ASSUME NEW new \in news PROVE Sound(new, r)
    <2>1. /\ DOMAIN new = RunFields /\ new.stage = "dedup" /\ new.rest = Tail(one.rest)
          /\ new.extracted = one.extracted /\ new.stored = one.stored /\ new.mentions = one.mentions
          /\ new.new = one.new /\ new.wrote = one.wrote /\ new.links = one.links /\ one.keys \subseteq new.keys
          /\ new.merged \in Nat /\ new.discarded \in Nat
          /\ new.kept = one.kept /\ new.merged + new.discarded = one.merged + one.discarded + 1
      <3>1. CASE new = [seen EXCEPT !.discarded = @ + 1]
        BY <1>1, <1>2, <1>7, <3>1 DEF RunFields
      <3>2. CASE new = [seen EXCEPT !.merged = @ + 1]
        BY <1>1, <1>2, <1>7, <3>2 DEF RunFields
      <3>3. CASE new = [FoldInBatch(tail, memory) EXCEPT !.keys = @ \union {BatchKeyOf(memory)}]
        <4> DEFINE fold == FoldInBatch(tail, memory)
        <4>1. DOMAIN fold = RunFields /\ fold.merged = one.merged + 1 /\ fold.rest = Tail(one.rest)
              /\ fold.keys = one.keys /\ fold.stage = one.stage /\ fold.extracted = one.extracted
              /\ fold.stored = one.stored /\ fold.discarded = one.discarded
              /\ fold.kept = one.kept /\ fold.mentions = one.mentions /\ fold.new = one.new
              /\ fold.wrote = one.wrote /\ fold.links = one.links
          BY <1>6 DEF FoldInBatch, RunFields
        <4>2. new = [fold EXCEPT !.keys = @ \union {BatchKeyOf(memory)}]
          BY <3>3
        <4> HIDE DEF fold
        <4> QED BY <1>1, <1>2, <4>1, <4>2 DEF RunFields
      <3> QED BY <3>1, <3>2, <3>3
    <2> QED BY <1>1, <2>1, FoldedSound
  <1>9. ASSUME ~Repeats(tail, memory) PROVE Sound(more, r)
    <2> DEFINE new == more
    <2>1. /\ DOMAIN new = RunFields /\ new.stage = "dedup" /\ new.rest = Tail(one.rest)
          /\ new.extracted = one.extracted /\ new.stored = one.stored /\ new.mentions = one.mentions
          /\ new.new = one.new /\ new.wrote = one.wrote /\ new.links = one.links /\ one.keys \subseteq new.keys
          /\ new.merged = one.merged /\ new.discarded = one.discarded /\ new.kept = Append(one.kept, memory)
          /\ new.keys = one.keys \cup {BatchKeyOf(memory), FactKey(memory)}
      BY <1>1, <1>2, <1>6, <1>7 DEF RunFields
    <2>2. BatchKeyOf(memory) \notin one.keys
      BY <1>6, <1>9 DEF Repeats, RunFields
    <2> HIDE DEF new
    <2>3. Sound(new, r)
      BY <1>1, <1>2, <1>4, <2>1, <2>2, FoldedSound
    <2> QED BY <2>3 DEF new
  <1> HIDE DEF news, more
  <1> QED BY <1>1, <1>5, <1>8, <1>9, QuietKeeps

-----------------------------------------------------------------------------
\* What is mentioned: the names of the memories, place by place.
LEMMA MentionsAre ==
    ASSUME NEW kept, Memories(kept)
    PROVE  /\ IsSeq(Mentions(kept))
           /\ \A k \in DOMAIN Mentions(kept) : Mentions(kept)[k].memory \in Texts(kept)
           /\ \A i \in DOMAIN kept : \A j \in DOMAIN kept[i].item.names :
                 \E k \in DOMAIN Mentions(kept) : /\ Mentions(kept)[k].memory = kept[i].item.text
                                                  /\ Mentions(kept)[k].name = kept[i].item.names[j]
  <1> DEFINE mention(i, j) == [memory |-> kept[i].item.text, name |-> kept[i].item.names[j]]
  <1> DEFINE of(i) == [j \in DOMAIN kept[i].item.names |-> mention(i, j)]
  <1> DEFINE s == [i \in DOMAIN kept |-> of(i)]
  <1>1. DOMAIN s = 1 .. Len(kept) /\ Len(kept) \in Nat
    BY SequenceIs DEF Memories
  <1>2. IsSeq(s)
    <2>1. s = [i \in DOMAIN s |-> s[i]]
      OBVIOUS
    <2> HIDE DEF s
    <2> QED BY <1>1, <2>1, ListIs
  <1>3. \A i \in DOMAIN s : /\ IsSeq(s[i]) /\ DOMAIN s[i] = DOMAIN kept[i].item.names
                            /\ \A j \in DOMAIN s[i] : s[i][j] = mention(i, j)
    <2> SUFFICES ASSUME NEW i \in DOMAIN kept
                 PROVE  /\ IsSeq(s[i]) /\ DOMAIN s[i] = DOMAIN kept[i].item.names
                        /\ \A j \in DOMAIN s[i] : s[i][j] = mention(i, j)
      OBVIOUS
    <2> DEFINE t == of(i)
    <2>1. kept[i].item.names \in Seq(Names)
      BY DEF Memories, IsMemory, IsItem
    <2>2. DOMAIN t = 1 .. Len(kept[i].item.names) /\ Len(kept[i].item.names) \in Nat
      BY <2>1
    <2>3. t = [j \in DOMAIN t |-> t[j]]
      OBVIOUS
    <2>4. DOMAIN t = DOMAIN kept[i].item.names /\ \A j \in DOMAIN t : t[j] = mention(i, j)
      OBVIOUS
    <2>5. s[i] = t
      OBVIOUS
    <2> HIDE DEF s, t, mention
    <2>6. IsSeq(t)
      BY <2>2, <2>3, ListIs
    <2> QED BY <2>4, <2>5, <2>6
  <1>4. Mentions(kept) = FlattenSeq(s)
    BY DEF Mentions
  <1>5. DOMAIN s = DOMAIN kept
    OBVIOUS
  <1> DEFINE flat == FlattenSeq(s)
  <1> HIDE DEF s, of
  <1>6. /\ IsSeq(flat)
        /\ \A k \in DOMAIN flat : \E i \in DOMAIN s : \E j \in DOMAIN s[i] : flat[k] = s[i][j]
        /\ \A i \in DOMAIN s : \A j \in DOMAIN s[i] : \E k \in DOMAIN flat : flat[k] = s[i][j]
    BY <1>2, <1>3, FlattenedIs
  <1> HIDE DEF flat
  <1>7. \A k \in DOMAIN flat : flat[k].memory \in Texts(kept)
    BY <1>3, <1>5, <1>6 DEF Texts
  <1>8. \A i \in DOMAIN kept : \A j \in DOMAIN kept[i].item.names :
            \E k \in DOMAIN flat : flat[k].memory = kept[i].item.text /\ flat[k].name = kept[i].item.names[j]
    <2> SUFFICES ASSUME NEW i \in DOMAIN kept, NEW j \in DOMAIN kept[i].item.names
                 PROVE  \E k \in DOMAIN flat : flat[k].memory = kept[i].item.text
                                              /\ flat[k].name = kept[i].item.names[j]
      OBVIOUS
    <2>1. PICK k \in DOMAIN flat : flat[k] = s[i][j]
      BY <1>3, <1>5, <1>6
    <2>2. flat[k] = mention(i, j)
      BY <1>3, <1>5, <2>1
    <2> QED BY <2>2
  <1> QED BY <1>4, <1>6, <1>7, <1>8 DEF flat

\* As many are left as there are texts that are not blocked, where no text comes twice.
LEMMA BlockedAre ==
    ASSUME NEW kept, IsSeq(kept), NEW blocked, blocked \subseteq Texts(kept),
           \A i, j \in DOMAIN kept : kept[i].item.text = kept[j].item.text => i = j
    PROVE  LET there == {i \in DOMAIN kept : kept[i].item.text \notin blocked}
           IN  /\ Cardinality(there) \in Nat /\ Cardinality(blocked) \in Nat
               /\ Len(kept) = Cardinality(there) + Cardinality(blocked)
  <1> DEFINE there == {i \in DOMAIN kept : kept[i].item.text \notin blocked}
  <1> DEFINE gone == {i \in DOMAIN kept : kept[i].item.text \in blocked}
  <1>1. IsFiniteSet(DOMAIN kept) /\ Cardinality(DOMAIN kept) = Len(kept)
    <2>1. DOMAIN kept = 1 .. Len(kept) /\ Len(kept) \in Nat
      BY SequenceIs
    <2>2. IsFiniteSet(1 .. Len(kept)) /\ Cardinality(1 .. Len(kept)) = IF 1 > Len(kept) THEN 0 ELSE Len(kept) - 1 + 1
      BY <2>1, FS_Interval
    <2>3. Cardinality(1 .. Len(kept)) = Len(kept)
      BY <2>1, <2>2
    <2> HIDE DEF there, gone
    <2> QED BY <2>1, <2>2, <2>3
  <1>2. gone \subseteq DOMAIN kept /\ there = DOMAIN kept \ gone /\ DOMAIN kept \cap gone = gone
    OBVIOUS
  <1> DEFINE text == [i \in gone |-> kept[i].item.text]
  <1>3. text \in Bijection(gone, blocked)
    <2>1. text \in [gone -> blocked]
      OBVIOUS
    <2>2. \A i, j \in gone : text[i] = text[j] => i = j
      OBVIOUS
    <2>3. \A t \in blocked : \E i \in gone : text[i] = t
      BY DEF Texts
    <2> HIDE DEF text, gone
    <2> QED BY <2>1, <2>2, <2>3 DEF Bijection, Injection, Surjection, IsInjective
  <1> HIDE DEF there, gone, text
  <1>4. IsFiniteSet(gone)
    BY <1>1, <1>2, FS_Subset
  <1>5. Cardinality(blocked) = Cardinality(gone) /\ IsFiniteSet(blocked)
    BY <1>3, <1>4, FS_Bijection DEF ExistsBijection
  <1>6. IsFiniteSet(there) /\ Cardinality(there) = Cardinality(DOMAIN kept) - Cardinality(gone)
    <2> DEFINE all == DOMAIN kept
    <2>1. IsFiniteSet(all) /\ IsFiniteSet(gone)
      BY <1>1, <1>4
    <2> HIDE DEF all
    <2>2. IsFiniteSet(all \ gone) /\ Cardinality(all \ gone) = Cardinality(all) - Cardinality(all \cap gone)
      BY <2>1, FS_Difference
    <2>3. there = all \ gone /\ all \cap gone = gone /\ all = DOMAIN kept
      BY <1>2 DEF all
    <2> QED BY <2>2, <2>3
  <1>7. Cardinality(there) \in Nat /\ Cardinality(blocked) \in Nat
    BY <1>5, <1>6, FS_CardinalityType
  <1> QED BY <1>1, <1>5, <1>6, <1>7 DEF there

LEMMA PlanAllKeeps ==
    ASSUME GraphInv, NEW r \in Runs, NEW blocked \in SUBSET Texts(run[r].kept), PlanAll(r, blocked)
    PROVE  GraphInv'
  <1> DEFINE one == run[r]
  <1> DEFINE there == {i \in DOMAIN one.kept : one.kept[i].item.text \notin blocked}
  <1>1. Sound(one, r) /\ one.stage = "dedup" /\ one.rest = <<>> /\ UNCHANGED <<job, Graph>>
    BY DEF GraphInv, PlanAll, AtStage, Quiet
  <1>2. PICK left \in Picked(one.kept, there) :
            Set(r, [one EXCEPT !.stage = IF left = <<>> THEN "done" ELSE "seed",
                               !.discarded = @ + Cardinality(blocked),
                               !.mentions = IF left = <<>> THEN <<>> ELSE MentionsLeft(one.kept, left),
                               !.kept = left])
    BY DEF PlanAll
  <1> DEFINE stage == IF left = <<>> THEN "done" ELSE "seed"
  <1> DEFINE mentions == IF left = <<>> THEN <<>> ELSE MentionsLeft(one.kept, left)
  <1> DEFINE new == [one EXCEPT !.stage = stage, !.discarded = @ + Cardinality(blocked),
                                !.mentions = mentions, !.kept = left]
  <1>3. Set(r, new)
    BY <1>2
  <1>4. /\ Memories(one.kept) /\ Memories(one.rest) /\ IsSeq(one.kept) /\ DOMAIN one = RunFields
        /\ one.extracted \in Nat /\ one.merged \in Nat /\ one.discarded \in Nat /\ one.stored = 0
        /\ one.extracted = Len(one.rest) + Len(one.kept) + one.merged + one.discarded
        /\ one.links = {} /\ one.wrote = {} /\ one.new = <<>>
        /\ \A i, j \in DOMAIN one.kept : one.kept[i].item.text = one.kept[j].item.text => i = j
    BY <1>1 DEF Sound, Formed, Account, Distinct, Linked, Folding, Memories
  <1>5. /\ DOMAIN new = RunFields /\ new.stage = stage /\ new.mentions = mentions /\ new.kept = left
        /\ new.discarded = one.discarded + Cardinality(blocked) /\ new.rest = one.rest
        /\ new.extracted = one.extracted /\ new.stored = one.stored /\ new.merged = one.merged
        /\ new.new = one.new /\ new.wrote = one.wrote /\ new.links = one.links
    BY <1>4 DEF RunFields
  <1> HIDE DEF new, there
  <1>6. /\ IsSeq(left) /\ Len(left) = Cardinality(there)
        /\ \E order \in [DOMAIN left -> there] :
              /\ \A n \in DOMAIN left : left[n] = one.kept[order[n]]
              /\ \A m, n \in DOMAIN left : order[m] = order[n] => m = n
    BY <1>4, PickedIs DEF there
  <1>7. PICK order \in [DOMAIN left -> there] :
              /\ \A n \in DOMAIN left : left[n] = one.kept[order[n]]
              /\ \A m, n \in DOMAIN left : order[m] = order[n] => m = n
    BY <1>6
  <1>8. \A n \in DOMAIN left : order[n] \in DOMAIN one.kept
    BY DEF there
  <1>9. Memories(left)
    BY <1>4, <1>6, <1>7, <1>8 DEF Memories
  <1>10. \A m, n \in DOMAIN left : left[m].item.text = left[n].item.text => m = n
    <2> SUFFICES ASSUME NEW m \in DOMAIN left, NEW n \in DOMAIN left, left[m].item.text = left[n].item.text
                 PROVE  m = n
      OBVIOUS
    <2>1. order[m] = order[n]
      BY <1>4, <1>7, <1>8
    <2> QED BY <1>7, <2>1
  <1>11. /\ IsSeq(mentions) /\ \A k \in DOMAIN mentions : mentions[k].memory \in Texts(left)
         /\ \A i \in DOMAIN left : \A j \in DOMAIN left[i].item.names :
               \E k \in DOMAIN mentions : /\ mentions[k].memory = left[i].item.text
                                          /\ mentions[k].name = left[i].item.names[j]
    <2>1. CASE left = <<>>
      <3>1. mentions = <<>> /\ IsSeq(<<>>)
        BY <2>1 DEF IsSeq
      <3> QED BY <2>1, <3>1
    <2>2. CASE left # <<>>
      <3>1. mentions = Mentions(left)
        BY <2>2 DEF MentionsLeft
      <3> HIDE DEF mentions
      <3> QED BY <1>9, <3>1, MentionsAre
    <2> QED BY <2>1, <2>2
  <1> HIDE DEF mentions
  <1>12. new.extracted = Len(left) + new.merged + new.discarded /\ new.discarded \in Nat
    <2> DEFINE sum == one.extracted
    <2> DEFINE kept == Len(one.kept)
    <2> DEFINE merged == one.merged
    <2> DEFINE discarded == one.discarded
    <2> DEFINE l == Len(left)
    <2> DEFINE b == Cardinality(blocked)
    <2>1. l \in Nat /\ b \in Nat /\ kept = l + b
      <3> DEFINE k == one.kept
      <3>1. IsSeq(k) /\ blocked \subseteq Texts(k) /\ \A i, j \in DOMAIN k : k[i].item.text = k[j].item.text => i = j
        BY <1>4
      <3> DEFINE S == {i \in DOMAIN k : k[i].item.text \notin blocked}
      <3>2. there = S
        BY DEF there
      <3> HIDE DEF k
      <3>3. Cardinality(S) \in Nat /\ Cardinality(blocked) \in Nat /\ Len(k) = Cardinality(S) + Cardinality(blocked)
        BY <3>1, BlockedAre
      <3> QED BY <1>6, <3>2, <3>3 DEF k
    <2>2. Len(one.rest) = 0
      BY <1>1
    <2>3. /\ sum \in Nat /\ merged \in Nat /\ discarded \in Nat /\ kept \in Nat
          /\ sum = kept + merged + discarded
      BY <1>4, <2>2, SequenceIs
    <2> HIDE DEF sum, kept, merged, discarded, l, b
    <2>4. sum = l + merged + (discarded + b) /\ discarded + b \in Nat
      BY <2>1, <2>3
    <2> QED BY <1>5, <2>4 DEF sum, merged, discarded, l, b
  <1>13. Formed(new)
    BY <1>4, <1>5, <1>9, <1>11 DEF Formed, IsSeq
  <1>14. Account(new)
    <2>1. left = <<>> => Len(left) = 0
      OBVIOUS
    <2>2. new.stage = "done" => new.extracted = new.stored + new.merged + new.discarded
      BY <1>4, <1>5, <1>12, <2>1
    <2>3. new.extracted = Len(new.kept) + new.merged + new.discarded
      BY <1>5, <1>12
    <2>4. /\ new.extracted \in Nat /\ new.stored \in Nat /\ new.merged \in Nat /\ new.discarded \in Nat
          /\ new.stored = 0
      <3>1. one.stored = 0 /\ one.extracted \in Nat /\ one.merged \in Nat
        BY <1>4
      <3>2. new.stored = one.stored /\ new.extracted = one.extracted /\ new.merged = one.merged
        BY <1>5
      <3> QED BY <1>12, <3>1, <3>2
    <2>5. new.stage = "done" \/ (new.stage = "seed" /\ new.kept # <<>>)
      BY <1>5
    <2> QED BY <2>2, <2>3, <2>4, <2>5 DEF Account, Listed, Early, Folding, Resolving
  <1>15. Distinct(new)
    BY <1>5, <1>10 DEF Distinct, Folding
  <1>16. Linked(new, r)
    BY <1>4, <1>5, <1>11 DEF Linked, Met, Folding, Resolving, Touched
  <1>17. Sound(new, r)
    BY <1>13, <1>14, <1>15, <1>16 DEF Sound
  <1> QED BY <1>1, <1>3, <1>17, QuietKeeps

-----------------------------------------------------------------------------
\* What a run counts and keeps stays while its mentions are resolved and its rows written.
LEMMA ResolvingOn ==
    ASSUME NEW r, NEW one, Sound(one, r), one.stage \in Resolving,
           NEW new, DOMAIN new = RunFields, new.stage \in Resolving,
           new.extracted = one.extracted, new.stored = one.stored, new.merged = one.merged,
           new.discarded = one.discarded, new.rest = one.rest, new.kept = one.kept,
           IsSeq(new.mentions), IsSeq(new.new)
    PROVE  Formed(new) /\ Account(new) /\ Distinct(new)
  <1>1. Formed(new)
    BY DEF Sound, Formed
  <1>2. Account(new)
    BY DEF Sound, Account, Listed, Early, Folding, Resolving
  <1>3. Distinct(new)
    BY DEF Sound, Distinct, Folding, Resolving
  <1> QED BY <1>1, <1>2, <1>3

LEMMA SeedKeeps ==
    ASSUME GraphInv, NEW r \in Runs, Seed(r)
    PROVE  GraphInv'
  <1> DEFINE one == run[r]
  <1> DEFINE found == SeedExact(one.kept)
  <1> DEFINE new == [one EXCEPT !.stage = "resolve", !.index = [n \in found |-> n],
                                !.counts = [n \in found |-> entities[n]]]
  <1>1. Sound(one, r) /\ one.stage = "seed" /\ UNCHANGED <<job, Graph>> /\ Set(r, new)
    BY DEF GraphInv, Seed, AtStage, Quiet
  <1> HIDE DEF found
  <1>2. /\ DOMAIN new = RunFields /\ new.stage = "resolve" /\ new.extracted = one.extracted
        /\ new.stored = one.stored /\ new.merged = one.merged /\ new.discarded = one.discarded
        /\ new.rest = one.rest /\ new.kept = one.kept /\ new.mentions = one.mentions
        /\ new.new = one.new /\ new.wrote = one.wrote /\ new.links = one.links
    BY <1>1 DEF RunFields, Sound, Formed
  <1> HIDE DEF new
  <1>3. IsSeq(new.mentions) /\ IsSeq(new.new) /\ one.stage \in Resolving /\ new.stage \in Resolving
    BY <1>1, <1>2 DEF Sound, Formed, Resolving
  <1>4. Formed(new) /\ Account(new) /\ Distinct(new)
    BY <1>1, <1>2, <1>3, ResolvingOn
  <1>5. one.links = {} /\ one.wrote = {} /\ one.new = <<>> /\ Met(one, r)
    BY <1>1 DEF Sound, Linked, Resolving
  <1>6. Met(new, r)
    BY <1>2, <1>5 DEF Met
  <1>7. Linked(new, r)
    BY <1>1, <1>2, <1>5, <1>6 DEF Sound, Linked, Folding, Resolving, Touched
  <1>8. Sound(new, r)
    BY <1>4, <1>7 DEF Sound
  <1> QED BY <1>1, <1>8, QuietKeeps

\* A name stays at the entity it came to, and what is new has been linked.
LEMMA ResolveMentionKeeps ==
    ASSUME GraphInv, NEW r \in Runs, ResolveMention(r)
    PROVE  GraphInv'
  <1> DEFINE one    == run[r]
  <1> DEFINE m      == Head(one.mentions)
  <1> DEFINE alike  == FuzzyMatch(m.name)
  <1> DEFINE known  == m.name \in DOMAIN one.index \/ alike # <<>>
  <1> DEFINE target == IF m.name \in DOMAIN one.index THEN one.index[m.name]
                       ELSE IF alike # <<>> THEN alike[1] ELSE m.name
  <1> DEFINE read   == IF target \in DOMAIN one.counts THEN one.counts[target] ELSE entities[target]
  <1> DEFINE index  == Noted(one.index, m.name, target)
  <1> DEFINE counts == Noted(one.counts, target, IF known THEN read + 1 ELSE 1)
  <1> DEFINE news   == IF known THEN one.new ELSE Append(one.new, m.name)
  <1> DEFINE link   == <<r, m.memory, m.name, target>>
  <1> DEFINE new    == [one EXCEPT !.mentions = Tail(@), !.index = index, !.counts = counts, !.new = news,
                                   !.links = @ \union {link}]
  <1>1. /\ Sound(one, r) /\ one.stage = "resolve" /\ one.mentions # <<>> /\ UNCHANGED <<job, Graph>>
        /\ DOMAIN one = RunFields /\ IsSeq(one.mentions) /\ IsSeq(one.new)
    BY DEF GraphInv, ResolveMention, AtStage, Quiet, Sound, Formed
  <1>2. Set(r, new)
    <2>1. new = [one EXCEPT !.mentions = Tail(@), !.index = Noted(@, m.name, target),
                            !.counts = Noted(@, target, IF known THEN read + 1 ELSE 1),
                            !.new = IF known THEN @ ELSE Append(@, m.name), !.links = @ \union {link}]
      BY <1>1 DEF RunFields
    <2> QED BY <2>1 DEF ResolveMention
  <1>3. /\ m.name \in DOMAIN one.index => target = one.index[m.name]
        /\ ~known => target = m.name /\ news = Append(one.new, m.name)
        /\ known => news = one.new
    OBVIOUS
  <1> HIDE DEF target, alike
  <1>4. /\ m.name \in DOMAIN index /\ index[m.name] = target
        /\ \A n \in DOMAIN one.index : n \in DOMAIN index /\ index[n] = one.index[n]
    BY <1>3 DEF Noted
  <1> HIDE DEF index, counts, news
  <1>5. /\ DOMAIN new = RunFields /\ new.stage = "resolve" /\ new.extracted = one.extracted
        /\ new.stored = one.stored /\ new.merged = one.merged /\ new.discarded = one.discarded
        /\ new.rest = one.rest /\ new.kept = one.kept /\ new.mentions = Tail(one.mentions)
        /\ new.index = index /\ new.new = news /\ new.wrote = one.wrote /\ new.links = one.links \cup {link}
    BY <1>1 DEF RunFields
  <1> HIDE DEF new
  <1> DEFINE tail == Tail(one.mentions)
  <1>6. /\ IsSeq(tail) /\ 1 \in DOMAIN one.mentions /\ m = one.mentions[1]
        /\ \A k \in DOMAIN tail : k + 1 \in DOMAIN one.mentions /\ tail[k] = one.mentions[k + 1]
        /\ \A k \in DOMAIN one.mentions : k = 1 \/ (k - 1 \in DOMAIN tail /\ tail[k - 1] = one.mentions[k])
    <2>1. /\ IsSeq(tail) /\ Len(tail) = Len(one.mentions) - 1 /\ 1 \in DOMAIN one.mentions /\ m = one.mentions[1]
          /\ \A k \in DOMAIN tail : k + 1 \in DOMAIN one.mentions /\ tail[k] = one.mentions[k + 1]
      BY <1>1, RestIs
    <2>2. /\ DOMAIN one.mentions = 1 .. Len(one.mentions) /\ Len(one.mentions) \in Nat
          /\ DOMAIN tail = 1 .. Len(tail)
      BY <1>1, <2>1, SequenceIs
    <2> HIDE DEF tail, m
    <2>3. \A k \in DOMAIN one.mentions : k = 1 \/ (k - 1 \in DOMAIN tail /\ (k - 1) + 1 = k)
      BY <2>1, <2>2
    <2>4. ASSUME NEW k \in DOMAIN one.mentions, k # 1
          PROVE  k - 1 \in DOMAIN tail /\ tail[k - 1] = one.mentions[k]
      <3>1. k - 1 \in DOMAIN tail /\ (k - 1) + 1 = k
        BY <2>3, <2>4
      <3>2. tail[k - 1] = one.mentions[(k - 1) + 1]
        BY <2>1, <3>1
      <3> QED BY <3>1, <3>2
    <2> QED BY <2>1, <2>4
  <1> HIDE DEF tail
  <1>7. /\ IsSeq(news)
        /\ \A k \in DOMAIN news : (k \in DOMAIN one.new /\ news[k] = one.new[k]) \/ news[k] = target
    <2>1. CASE known
      BY <1>1, <1>3, <2>1
    <2>2. CASE ~known
      <3>1. target = m.name /\ news = Append(one.new, target)
        BY <1>3, <2>2
      <3>2. /\ IsSeq(news) /\ Len(news) = Len(one.new) + 1 /\ news[Len(one.new) + 1] = target
            /\ \A k \in DOMAIN one.new : news[k] = one.new[k]
        BY <1>1, <3>1, AppendedIs
      <3>3. /\ DOMAIN one.new = 1 .. Len(one.new) /\ Len(one.new) \in Nat
            /\ DOMAIN news = 1 .. Len(one.new) + 1
        BY <1>1, <3>2, SequenceIs
      <3>4. \A k \in DOMAIN news : k \in DOMAIN one.new \/ k = Len(one.new) + 1
        BY <3>3
      <3> QED BY <3>2, <3>4
    <2> QED BY <2>1, <2>2
  <1> HIDE DEF m, known
  <1>8. IsSeq(new.mentions) /\ IsSeq(new.new) /\ one.stage \in Resolving /\ new.stage \in Resolving
    BY <1>1, <1>5, <1>6, <1>7 DEF Resolving, tail
  <1>9. Formed(new) /\ Account(new) /\ Distinct(new)
    BY <1>1, <1>5, <1>8, ResolvingOn
  <1>10. /\ \A k \in DOMAIN one.mentions : one.mentions[k].memory \in Texts(one.kept)
         /\ \A l \in one.links : l[1] = r /\ l[2] \in Texts(one.kept)
         /\ Met(one, r)
         /\ \A k \in DOMAIN one.new : one.new[k] \in Touched(one)
         /\ one.wrote \subseteq Touched(one)
    BY <1>1 DEF Sound, Linked, Resolving
  <1>11. /\ Touched(one) \subseteq Touched(new) /\ target \in Touched(new)
    <2>1. one.links \subseteq new.links /\ link \in new.links /\ link[4] = target
      BY <1>5
    <2> HIDE DEF link
    <2> QED BY <2>1 DEF Touched
  <1>12. \A k \in DOMAIN new.mentions : new.mentions[k].memory \in Texts(new.kept)
    BY <1>5, <1>6, <1>10 DEF tail
  <1>13. \A l \in new.links : l[1] = r /\ l[2] \in Texts(new.kept)
    BY <1>5, <1>6, <1>10
  <1>14. Met(new, r)
    <2> SUFFICES ASSUME NEW i \in DOMAIN one.kept, NEW j \in DOMAIN one.kept[i].item.names
                 PROVE  LET text == one.kept[i].item.text
                            name == one.kept[i].item.names[j]
                        IN  \/ \E k \in DOMAIN tail : tail[k].memory = text /\ tail[k].name = name
                            \/ name \in DOMAIN index /\ <<r, text, name, index[name]>> \in new.links
      <3>1. new.kept = one.kept /\ new.mentions = tail /\ new.index = index
        BY <1>5 DEF tail
      <3> HIDE DEF tail, index, new
      <3> QED BY <3>1 DEF Met
    <2> DEFINE text == one.kept[i].item.text
    <2> DEFINE name == one.kept[i].item.names[j]
    <2>1. CASE name \in DOMAIN one.index /\ <<r, text, name, one.index[name]>> \in one.links
      BY <1>4, <1>5, <2>1
    <2>2. CASE \E k \in DOMAIN one.mentions : one.mentions[k].memory = text /\ one.mentions[k].name = name
      <3>1. PICK k \in DOMAIN one.mentions : one.mentions[k].memory = text /\ one.mentions[k].name = name
        BY <2>2
      <3>2. CASE k = 1
        BY <1>4, <1>5, <1>6, <3>1, <3>2
      <3>3. CASE k # 1
        BY <1>6, <3>1, <3>3
      <3> QED BY <3>2, <3>3
    <2> QED BY <1>10, <2>1, <2>2 DEF Met
  <1>15. \A k \in DOMAIN new.new : new.new[k] \in Touched(new)
    BY <1>5, <1>7, <1>10, <1>11
  <1>16. new.wrote \subseteq Touched(new)
    BY <1>5, <1>10, <1>11
  <1>17. Linked(new, r)
    BY <1>5, <1>12, <1>13, <1>14, <1>15, <1>16 DEF Linked, Folding, Resolving
  <1>18. Sound(new, r)
    BY <1>9, <1>17 DEF Sound
  <1> QED BY <1>1, <1>2, <1>18, QuietKeeps

\* What is met and touched depends on the memories, the mentions left, the index and the links.
LEMMA SameMet ==
    ASSUME NEW one, NEW new, NEW r, Met(one, r), new.kept = one.kept, new.mentions = one.mentions,
           new.index = one.index, new.links = one.links
    PROVE  Met(new, r) /\ Touched(new) = Touched(one)
  <1>1. Touched(new) = Touched(one)
    BY DEF Touched
  <1>2. Met(new, r)
    <2>1. ASSUME NEW i \in DOMAIN one.kept, NEW j \in DOMAIN one.kept[i].item.names
          PROVE  LET text == one.kept[i].item.text
                     name == one.kept[i].item.names[j]
                 IN  \/ \E k \in DOMAIN one.mentions : one.mentions[k].memory = text /\ one.mentions[k].name = name
                     \/ name \in DOMAIN one.index /\ <<r, text, name, one.index[name]>> \in one.links
      BY DEF Met
    <2>2. ASSUME NEW i \in DOMAIN new.kept, NEW j \in DOMAIN new.kept[i].item.names
          PROVE  LET text == new.kept[i].item.text
                     name == new.kept[i].item.names[j]
                 IN  \/ \E k \in DOMAIN new.mentions : new.mentions[k].memory = text /\ new.mentions[k].name = name
                     \/ name \in DOMAIN new.index /\ <<r, text, name, new.index[name]>> \in new.links
      <3>1. i \in DOMAIN one.kept /\ j \in DOMAIN one.kept[i].item.names
        OBVIOUS
      <3> QED BY <2>1, <3>1
    <2> QED BY <2>2, Zenon DEF Met
  <1> QED BY <1>1, <1>2

\* An edge is between the entities of two names of one memory.
LEMMA EdgesAre ==
    ASSUME NEW kept, NEW index, NEW e \in EdgesOf(kept, index)
    PROVE  \E i \in DOMAIN kept : \E a, b \in DOMAIN kept[i].item.names :
                /\ e[1] = index[kept[i].item.names[a]]
                /\ e[3] = index[kept[i].item.names[b]]
  <1> DEFINE names(i) == [j \in DOMAIN kept[i].item.names |-> index[kept[i].item.names[j]]]
  <1> DEFINE first(i) == {j \in DOMAIN names(i) : \A k \in 1 .. j - 1 : names(i)[k] # names(i)[j]}
  <1>1. PICK i \in DOMAIN kept : e \in IF Cardinality(first(i)) < 2 THEN {}
                                       ELSE {x \in SemanticRelations(kept[i].item, names(i), first(i)) : x[1] # x[3]}
    BY DEF EdgesOf
  <1>2. e \in SemanticRelations(kept[i].item, names(i), first(i))
    <2> HIDE DEF names, first
    <2> QED BY <1>1
  <1> DEFINE s == names(i)
  <1> DEFINE f == first(i)
  <1>3. f \subseteq DOMAIN s
    OBVIOUS
  <1>4. DOMAIN s = DOMAIN kept[i].item.names /\ \A j \in DOMAIN s : s[j] = index[kept[i].item.names[j]]
    OBVIOUS
  <1>5. e \in SemanticRelations(kept[i].item, s, f)
    BY <1>2
  <1> HIDE DEF s, f
  <1>6. \E a, b \in f : e[1] = s[a] /\ e[3] = s[b]
    <2> DEFINE present == {s[j] : j \in f}
    <2> DEFINE typed == Typed(kept[i].item, present)
    <2>1. CASE e \in {<<v.from, v.rel, v.to>> : v \in typed}
      <3>1. PICK v \in typed : e = <<v.from, v.rel, v.to>>
        BY <2>1
      <3>2. v.from \in present /\ v.to \in present
        BY <3>1 DEF Typed
      <3> QED BY <3>1, <3>2
    <2>2. CASE e \in RelatedToBackfill(s, f, {{v.from, v.to} : v \in typed})
      <3>1. PICK p \in f \X f : e = <<s[p[1]], "related_to", s[p[2]]>>
        BY <2>2 DEF RelatedToBackfill
      <3> QED BY <3>1
    <2>3. e \in {<<v.from, v.rel, v.to>> : v \in typed} \cup RelatedToBackfill(s, f, {{v.from, v.to} : v \in typed})
      BY <1>5 DEF SemanticRelations
    <2> QED BY <2>1, <2>2, <2>3
  <1> QED BY <1>3, <1>4, <1>6

LEMMA SynthesizeEdgesKeeps ==
    ASSUME GraphInv, NEW r \in Runs, SynthesizeEdges(r)
    PROVE  GraphInv'
  <1> DEFINE one == run[r]
  <1> DEFINE es == EdgesOf(one.kept, one.index)
  <1> DEFINE new == [one EXCEPT !.stage = "write", !.edges = es]
  <1>1. /\ Sound(one, r) /\ one.stage = "resolve" /\ one.mentions = <<>> /\ UNCHANGED <<job, Graph>> /\ Set(r, new)
        /\ DOMAIN one = RunFields /\ IsSeq(one.mentions) /\ IsSeq(one.new) /\ Memories(one.kept)
    BY DEF GraphInv, SynthesizeEdges, AtStage, Quiet, Sound, Formed
  <1> HIDE DEF es
  <1>2. /\ DOMAIN new = RunFields /\ new.stage = "write" /\ new.extracted = one.extracted
        /\ new.stored = one.stored /\ new.merged = one.merged /\ new.discarded = one.discarded
        /\ new.rest = one.rest /\ new.kept = one.kept /\ new.mentions = one.mentions /\ new.index = one.index
        /\ new.new = one.new /\ new.wrote = one.wrote /\ new.links = one.links /\ new.edges = es
    BY <1>1 DEF RunFields
  <1> HIDE DEF new
  <1>3. one.stage \in Resolving /\ new.stage \in Resolving /\ IsSeq(new.mentions) /\ IsSeq(new.new)
    BY <1>1, <1>2 DEF Resolving
  <1>4. Formed(new) /\ Account(new) /\ Distinct(new)
    BY <1>1, <1>2, <1>3, ResolvingOn
  <1>5. /\ \A k \in DOMAIN one.mentions : one.mentions[k].memory \in Texts(one.kept)
        /\ \A l \in one.links : l[1] = r /\ l[2] \in Texts(one.kept)
        /\ Met(one, r)
        /\ \A k \in DOMAIN one.new : one.new[k] \in Touched(one)
        /\ one.wrote \subseteq Touched(one)
    BY <1>1 DEF Sound, Linked, Resolving
  <1>6. Met(new, r) /\ Touched(new) = Touched(one)
    BY <1>2, <1>5, SameMet
  <1>7. \A e \in new.edges : Joins(new, r, e)
    <2> SUFFICES ASSUME NEW e \in es PROVE Joins(new, r, e)
      BY <1>2
    <2>1. PICK i \in DOMAIN one.kept : \E a, b \in DOMAIN one.kept[i].item.names :
                /\ e[1] = one.index[one.kept[i].item.names[a]]
                /\ e[3] = one.index[one.kept[i].item.names[b]]
      <3>1. e \in EdgesOf(one.kept, one.index)
        BY DEF es
      <3> DEFINE kept == one.kept
      <3> DEFINE index == one.index
      <3>2. e \in EdgesOf(kept, index)
        BY <3>1
      <3> HIDE DEF kept, index
      <3>3. \E i \in DOMAIN kept : \E a, b \in DOMAIN kept[i].item.names :
                /\ e[1] = index[kept[i].item.names[a]]
                /\ e[3] = index[kept[i].item.names[b]]
        BY <3>2, EdgesAre
      <3> QED BY <3>3 DEF kept, index
    <2>2. PICK a \in DOMAIN one.kept[i].item.names, b \in DOMAIN one.kept[i].item.names :
                /\ e[1] = one.index[one.kept[i].item.names[a]]
                /\ e[3] = one.index[one.kept[i].item.names[b]]
      BY <2>1
    <2> DEFINE text == one.kept[i].item.text
    <2> DEFINE x == one.kept[i].item.names[a]
    <2> DEFINE y == one.kept[i].item.names[b]
    <2>3. one.kept[i].item.names \in Seq(Names)
      BY <1>1 DEF Memories, IsMemory, IsItem
    <2>4. x \in Names /\ y \in Names
      <3> DEFINE names == one.kept[i].item.names
      <3>1. names \in Seq(Names) /\ a \in DOMAIN names /\ b \in DOMAIN names
        BY <2>2, <2>3
      <3> HIDE DEF names
      <3>2. names[a] \in Names /\ names[b] \in Names
        BY <3>1
      <3> QED BY <3>2 DEF names
    <2>5. <<r, text, x, one.index[x]>> \in one.links /\ <<r, text, y, one.index[y]>> \in one.links
      <3>1. DOMAIN one.mentions = {}
        BY <1>1
      <3>2. \A p \in DOMAIN one.kept : \A q \in DOMAIN one.kept[p].item.names :
               <<r, one.kept[p].item.text, one.kept[p].item.names[q], one.index[one.kept[p].item.names[q]]>> \in one.links
        BY <1>5, <3>1 DEF Met
      <3> QED BY <2>2, <3>2
    <2>6. text \in Texts(one.kept)
      BY DEF Texts
    <2>7. e[1] = one.index[x] /\ e[3] = one.index[y]
      BY <2>2
    <2> HIDE DEF text, x, y
    <2> QED BY <1>2, <2>4, <2>5, <2>6, <2>7 DEF Joins
  <1>8. Linked(new, r)
    BY <1>2, <1>5, <1>6, <1>7 DEF Linked, Folding, Resolving
  <1>9. Sound(new, r)
    BY <1>4, <1>8 DEF Sound
  <1> QED BY <1>1, <1>9, QuietKeeps

LEMMA MetStill ==
    ASSUME NEW r, NEW one, NEW new, Met(one, r), new.kept = one.kept, new.mentions = one.mentions,
           new.index = one.index, new.links = one.links
    PROVE  Met(new, r)
  <1> DEFINE Is(k, m, x, l) ==
        \A i \in DOMAIN k : \A j \in DOMAIN k[i].item.names :
            LET text == k[i].item.text
                name == k[i].item.names[j]
            IN  \/ \E p \in DOMAIN m : m[p].memory = text /\ m[p].name = name
                \/ name \in DOMAIN x /\ <<r, text, name, x[name]>> \in l
  <1>1. Is(one.kept, one.mentions, one.index, one.links)
    BY DEF Met
  <1>2. Is(new.kept, new.mentions, new.index, new.links)
    <2> HIDE DEF Is
    <2> QED BY <1>1
  <1> QED BY <1>2 DEF Met

\* Only what it has linked does a run write.
LEMMA WritesTouched ==
    ASSUME NEW one, NEW r, Linked(one, r), one.stage = "write"
    PROVE  NextWrites(one) \subseteq Touched(one)
  BY DEF NextWrites, Linked, Resolving

LEMMA WriteKeeps ==
    ASSUME GraphInv, NEW r \in Runs, NEW n \in Names, Write(r, n)
    PROVE  GraphInv'
  <1> DEFINE one == run[r]
  <1> DEFINE new == [one EXCEPT !.wrote = @ \union {n}]
  <1>1. /\ Sound(one, r) /\ one.stage = "write" /\ UNCHANGED <<job, Graph>> /\ Set(r, new)
        /\ n \in NextWrites(one) /\ DOMAIN one = RunFields /\ IsSeq(one.mentions) /\ IsSeq(one.new)
    BY DEF GraphInv, Write, AtStage, Sound, Formed
  <1>2. /\ DOMAIN new = RunFields /\ new.stage = "write" /\ new.extracted = one.extracted
        /\ new.stored = one.stored /\ new.merged = one.merged /\ new.discarded = one.discarded
        /\ new.rest = one.rest /\ new.kept = one.kept /\ new.mentions = one.mentions /\ new.index = one.index
        /\ new.new = one.new /\ new.wrote = one.wrote \cup {n} /\ new.links = one.links /\ new.edges = one.edges
    BY <1>1 DEF RunFields
  <1> HIDE DEF new
  <1>3. one.stage \in Resolving /\ new.stage \in Resolving /\ IsSeq(new.mentions) /\ IsSeq(new.new)
    BY <1>1, <1>2 DEF Resolving
  <1>4. Formed(new) /\ Account(new) /\ Distinct(new)
    BY <1>1, <1>2, <1>3, ResolvingOn
  <1>5. Linked(one, r)
    BY <1>1 DEF Sound
  <1>6. n \in Touched(one)
    BY <1>1, <1>5, WritesTouched
  <1>7. Met(new, r) /\ Touched(new) = Touched(one)
    <2>1. Met(one, r)
      BY <1>1, <1>5 DEF Linked, Resolving
    <2>2. Met(new, r)
      BY <1>2, <2>1, MetStill
    <2>3. Touched(new) = Touched(one)
      BY <1>2 DEF Touched
    <2> QED BY <2>2, <2>3
  <1>8. \A e : Joins(one, r, e) => Joins(new, r, e)
    BY <1>2 DEF Joins
  <1>9. Linked(new, r)
    BY <1>1, <1>2, <1>5, <1>6, <1>7, <1>8 DEF Linked, Folding, Resolving
  <1>10. Sound(new, r)
    BY <1>4, <1>9 DEF Sound
  <1> QED BY <1>1, <1>10, QuietKeeps

LEMMA UpdateCacheKeeps ==
    ASSUME GraphInv, NEW r \in Runs, UpdateCache(r)
    PROVE  GraphInv'
  <1> DEFINE one == run[r]
  <1> DEFINE new == [one EXCEPT !.stage = "commit", !.stored = Len(one.kept)]
  <1>1. /\ Sound(one, r) /\ one.stage = "write" /\ UNCHANGED <<job, Graph>> /\ Set(r, new)
        /\ DOMAIN one = RunFields /\ Memories(one.kept)
    BY DEF GraphInv, UpdateCache, AtStage, Sound, Formed
  <1>2. /\ DOMAIN new = RunFields /\ new.stage = "commit" /\ new.extracted = one.extracted
        /\ new.stored = Len(one.kept) /\ new.merged = one.merged /\ new.discarded = one.discarded
        /\ new.rest = one.rest /\ new.kept = one.kept /\ new.mentions = one.mentions /\ new.index = one.index
        /\ new.new = one.new /\ new.wrote = one.wrote /\ new.links = one.links /\ new.edges = one.edges
    BY <1>1 DEF RunFields
  <1> HIDE DEF new
  <1>3. Formed(new)
    BY <1>1, <1>2 DEF Sound, Formed
  <1>4. Account(new)
    <2>1. Len(one.kept) \in Nat
      BY <1>1, SequenceIs DEF Memories
    <2> QED BY <1>1, <1>2, <2>1 DEF Sound, Account, Listed, Early, Folding, Resolving
  <1>5. Distinct(new)
    BY <1>1, <1>2 DEF Sound, Distinct, Folding
  <1>6. Linked(one, r)
    BY <1>1 DEF Sound
  <1>7. Met(new, r) /\ Touched(new) = Touched(one)
    <2>1. Met(one, r)
      BY <1>1, <1>6 DEF Linked, Resolving
    <2>2. Met(new, r)
      BY <1>2, <2>1, MetStill
    <2>3. Touched(new) = Touched(one)
      BY <1>2 DEF Touched
    <2> QED BY <2>2, <2>3
  <1>8. \A e : Joins(one, r, e) => Joins(new, r, e)
    BY <1>2 DEF Joins
  <1>9. Linked(new, r)
    BY <1>1, <1>2, <1>6, <1>7, <1>8 DEF Linked, Folding, Resolving
  <1>10. Sound(new, r)
    BY <1>3, <1>4, <1>5, <1>9 DEF Sound
  <1> QED BY <1>1, <1>10, QuietKeeps

\* What is committed comes from one run, which has stored all it keeps.
LEMMA CommitKeeps ==
    ASSUME GraphInv, NEW r \in Runs, Commit(r)
    PROVE  GraphInv'
  <1> DEFINE one == run[r]
  <1> DEFINE new == [one EXCEPT !.stage = "done"]
  <1>1. /\ Sound(one, r) /\ one.stage = "commit" /\ job' = job /\ Set(r, new)
        /\ DOMAIN one = RunFields /\ Memories(one.kept)
        /\ entities' = [n \in Names |-> IF n \in one.wrote THEN one.counts[n] ELSE entities[n]]
        /\ links' = links \cup one.links
        /\ edges' = InsertIgnoringConflicts(one.edges)
    BY DEF GraphInv, Commit, AtStage, Sound, Formed
  <1>2. /\ DOMAIN new = RunFields /\ new.stage = "done" /\ new.extracted = one.extracted
        /\ new.stored = one.stored /\ new.merged = one.merged /\ new.discarded = one.discarded
        /\ new.rest = one.rest /\ new.kept = one.kept /\ new.mentions = one.mentions
        /\ new.new = one.new /\ new.wrote = one.wrote /\ new.links = one.links
    BY <1>1 DEF RunFields
  <1> HIDE DEF new
  <1>3. Sound(new, r)
    <2>1. Formed(new)
      BY <1>1, <1>2 DEF Sound, Formed
    <2>2. Account(new)
      BY <1>1, <1>2 DEF Sound, Account, Listed, Early, Folding, Resolving
    <2>3. Distinct(new)
      BY <1>1, <1>2 DEF Sound, Distinct, Folding
    <2>4. Linked(new, r)
      BY <1>2 DEF Linked, Folding, Resolving
    <2> QED BY <2>1, <2>2, <2>3, <2>4 DEF Sound
  <1>4. DOMAIN run' = Runs /\ run'[r] = new /\ \A q \in Runs \ {r} : run'[q] = run[q]
    BY <1>1, SetMoves
  <1>5. \A q \in Runs : Sound(run'[q], q)
    BY <1>3, <1>4 DEF GraphInv
  <1>6. /\ \A l \in one.links : l[1] = r /\ l[2] \in Texts(one.kept)
        /\ one.wrote \subseteq Touched(one)
        /\ \A e \in one.edges : Joins(one, r, e)
    BY <1>1 DEF Sound, Linked
  <1>7. new.stored > 0
    <2>1. new.stored = Len(one.kept) /\ one.kept # <<>> /\ Len(one.kept) \in Nat
      BY <1>1, <1>2, SequenceIs DEF Sound, Account, Memories
    <2>2. Len(one.kept) # 0
      BY <1>1, <2>1, SequenceIs DEF Memories
    <2> DEFINE n == Len(one.kept)
    <2>3. n > 0
      BY <2>1, <2>2
    <2> QED BY <2>1, <2>3
  <1>8. \A l \in links' : Held(l)'
    <2>1. ASSUME NEW l \in links PROVE Held(l)'
      <3>1. Held(l) /\ l[1] # r
        BY <1>1 DEF GraphInv, Anchored, Held
      <3> QED BY <1>4, <3>1 DEF Held
    <2>2. ASSUME NEW l \in one.links PROVE Held(l)'
      <3>1. run'[r].stage = "done" /\ run'[r].stored > 0 /\ l[1] = r /\ l[2] \in Texts(run'[r].kept)
        BY <1>2, <1>4, <1>6, <1>7
      <3> QED BY <3>1 DEF Held
    <2> QED BY <1>1, <2>1, <2>2
  <1>9. \A n \in Names : entities'[n] > 0 /\ Known[n] = 0 => \E l \in links' : l[4] = n
    <2> SUFFICES ASSUME NEW n \in Names, entities'[n] > 0, Known[n] = 0 PROVE \E l \in links' : l[4] = n
      OBVIOUS
    <2>1. CASE n \in one.wrote
      <3>1. PICK l \in one.links : l[4] = n
        BY <1>6, <2>1 DEF Touched
      <3> QED BY <1>1, <3>1
    <2>2. CASE n \notin one.wrote
      <3>1. entities[n] > 0
        BY <1>1, <2>2
      <3>2. PICK l \in links : l[4] = n
        BY <3>1 DEF GraphInv, Anchored
      <3> QED BY <1>1, <3>2
    <2> QED BY <2>1, <2>2
  <1>10. \A e \in edges' : \E k, l \in links' : k[4] = e[1] /\ l[4] = e[3] /\ k[1] = l[1] /\ k[2] = l[2]
    <2>1. ASSUME NEW e \in edges
          PROVE  \E k, l \in links' : k[4] = e[1] /\ l[4] = e[3] /\ k[1] = l[1] /\ k[2] = l[2]
      <3>1. PICK k \in links, l \in links : k[4] = e[1] /\ l[4] = e[3] /\ k[1] = l[1] /\ k[2] = l[2]
        BY DEF GraphInv, Anchored
      <3> QED BY <1>1, <3>1
    <2>2. ASSUME NEW e \in one.edges
          PROVE  \E k, l \in links' : k[4] = e[1] /\ l[4] = e[3] /\ k[1] = l[1] /\ k[2] = l[2]
      <3>1. PICK text \in Texts(one.kept), a \in Names, b \in Names :
                {<<r, text, a, e[1]>>, <<r, text, b, e[3]>>} \subseteq one.links
        BY <1>6 DEF Joins
      <3> DEFINE k == <<r, text, a, e[1]>>
      <3> DEFINE l == <<r, text, b, e[3]>>
      <3>2. k \in links' /\ l \in links'
        BY <1>1, <3>1
      <3>3. k[4] = e[1] /\ l[4] = e[3] /\ k[1] = l[1] /\ k[2] = l[2]
        OBVIOUS
      <3> HIDE DEF k, l
      <3> QED BY <3>2, <3>3
    <2>3. \A e \in edges' : e \in edges \/ e \in one.edges
      BY <1>1 DEF InsertIgnoringConflicts
    <2> QED BY <2>1, <2>2, <2>3
  <1>11. Anchored'
    BY <1>8, <1>9, <1>10 DEF Anchored
  <1>12. (\A q \in Runs : Sound(run[q], q))'
    BY <1>5
  <1> QED BY <1>1, <1>4, <1>11, <1>12 DEF GraphInv

-----------------------------------------------------------------------------
LEMMA GraphKept == GraphInv /\ [ExtractionNext]_extractionVars => GraphInv'
  <1> SUFFICES ASSUME GraphInv, [ExtractionNext]_extractionVars PROVE GraphInv'
    OBVIOUS
  <1>1. CASE UNCHANGED extractionVars
    BY <1>1 DEF extractionVars, GraphInv, Anchored, Held
  <1>2. ASSUME NEW r \in Runs, Step(r) PROVE GraphInv'
    <2>1. ASSUME NEW works \in BOOLEAN, Redact(r, works) PROVE GraphInv'
      BY <2>1, RedactKeeps
    <2>2. ASSUME NEW answer \in Answers, Decide(r, answer) PROVE GraphInv'
      BY <2>2, DecideKeeps
    <2>3. ASSUME NEW reply \in job[r].replies, Extract(r, reply) PROVE GraphInv'
      BY <2>3, ExtractKeeps
    <2>4. ASSUME NEW reply \in job[r].replies, ExtractFails(r, reply) PROVE GraphInv'
      BY <2>4, RollbackKeeps DEF ExtractFails, AtStage
    <2>5. ASSUME NEW verdict \in Verdicts, Dedup(r, verdict) PROVE GraphInv'
      BY <2>5, DedupKeeps
    <2>6. ASSUME NEW blocked \in SUBSET {run[r].kept[i].item.text : i \in DOMAIN run[r].kept}, PlanAll(r, blocked)
          PROVE  GraphInv'
      BY <2>6, PlanAllKeeps DEF Texts
    <2>7. CASE Ground(r)
      BY <2>7, GroundKeeps
    <2>8. CASE Seed(r)
      BY <2>8, SeedKeeps
    <2>9. CASE ResolveMention(r)
      BY <2>9, ResolveMentionKeeps
    <2>10. CASE SynthesizeEdges(r)
      BY <2>10, SynthesizeEdgesKeeps
    <2>11. ASSUME NEW n \in Names, Write(r, n) PROVE GraphInv'
      BY <2>11, WriteKeeps
    <2>12. ASSUME NEW n \in Names, WriteRefused(r, n) PROVE GraphInv'
      BY <2>12, RollbackKeeps DEF WriteRefused, AtStage
    <2>13. CASE Deadlocked(r)
      BY <2>13, RollbackKeeps DEF Deadlocked, WaitsFor, AtStage
    <2>14. CASE UpdateCache(r)
      BY <2>14, UpdateCacheKeeps
    <2>15. CASE Commit(r)
      BY <2>15, CommitKeeps
    <2>16. CASE Crash(r)
      BY <2>16, RollbackKeeps DEF Crash
    <2> QED BY <1>2, <2>1, <2>2, <2>3, <2>4, <2>5, <2>6, <2>7, <2>8, <2>9, <2>10, <2>11, <2>12, <2>13, <2>14,
               <2>15, <2>16 DEF Step
  <1> QED BY <1>1, <1>2 DEF ExtractionNext, Finished

LEMMA GraphAlways == ExtractionSpec => []GraphInv
  BY GraphBegins, GraphKept, PTL DEF ExtractionSpec

\* "a dropped memory leaves no orphan links or edges behind it" (pipeline.py): whatever runs overlap,
\* fail and are tried again, what is new in the graph hangs on a memory that has been stored.
THEOREM NothingOrphaned == ExtractionSpec => []NoOrphans
  <1>1. GraphInv => NoOrphans
    BY AnchoredIs DEF GraphInv
  <1> QED BY <1>1, GraphAlways, PTL

\* The counts that a run reports add up to what it has extracted.
THEOREM CountsAddUp == ExtractionSpec => []EveryItemAccounted
  <1>1. GraphInv => EveryItemAccounted
    BY DEF GraphInv, Sound, Account, EveryItemAccounted
  <1> QED BY <1>1, GraphAlways, PTL

-----------------------------------------------------------------------------
(* when it was *)

\* What can be said of an expression without a reference stays when there is one.
LEMMA Timeless ==
    ASSUME NEW e, NEW now, Resolved(Resolve(e, None))
    PROVE  Resolve(e, now) = Resolve(e, None)
  <1> DEFINE exact == ParseExactValue(e)
  <1> DEFINE alone == ResolveWithoutReference(e)
  <1> SUFFICES ASSUME now # None PROVE Resolve(e, now) = Resolve(e, None)
    OBVIOUS
  <1>1. e.form # "vague" /\ alone # NoMatch /\ Resolve(e, None) = alone /\ ~Resolved(NoMatch)
    BY DEF Resolve, Else, Resolved, Unresolved, Match, NoMatch
  <1>2. CASE exact # NoMatch
    BY <1>1, <1>2 DEF Resolve, ResolveWithoutReference, Else
  <1>3. CASE exact = NoMatch /\ Composed(e)
    <2> DEFINE x == Parts(e)[1]
    <2> DEFINE y == Parts(e)[2]
    <2> DEFINE left == ExtendedEndpoint(x, now)
    <2> DEFINE right == ExtendedEndpoint(y, now)
    <2> DEFINE bare == ResolveInterval(e, ParseExactValue(x), ParseExactValue(y))
    <2>1. e.form \in {"interval", "of", "until"}
      BY <1>3 DEF Composed
    <2>2. alone = bare /\ bare # NoMatch
      <3>1. alone = Else(bare, NoMatch)
        <4> HIDE DEF bare
        <4>1. alone = Else(bare, CASE e.form = "quarter" -> QuarterOf(e)
                                   [] e.form = "weekbefore" -> WeekBefore(e)
                                   [] e.form = "date" /\ e.h = None -> ParseAbsolute(e)
                                   [] OTHER -> NoMatch)
          BY <1>3 DEF ResolveWithoutReference, Else, bare
        <4> QED BY <2>1, <4>1
      <3> HIDE DEF bare
      <3> QED BY <1>1, <3>1 DEF Else
    <2>3. e.form # "until"
      BY <2>2 DEF ResolveInterval
    <2>4. ResolveInterval(e, left, right) = bare
      <3>1. CASE e.form = "interval"
        <4>1. bare = Between(ParseExactValue(x), ParseExactValue(y))
          BY <3>1 DEF ResolveInterval
        <4>2. Resolved(ParseExactValue(x)) /\ Resolved(ParseExactValue(y))
          BY <2>2, <4>1 DEF Between
        <4>3. ParseExactValue(x) # NoMatch /\ ParseExactValue(y) # NoMatch
          BY <1>1, <4>2
        <4>4. left = ParseExactValue(x) /\ right = ParseExactValue(y)
          BY <4>3 DEF ExtendedEndpoint, Else
        <4> QED BY <4>4
      <3>2. CASE e.form = "of"
        <4>1. ParseExactValue(x) # NoMatch
          BY <2>2, <3>2 DEF ResolveInterval
        <4>2. left = ParseExactValue(x)
          BY <4>1 DEF ExtendedEndpoint, Else
        <4> QED BY <3>2, <4>2 DEF ResolveInterval
      <3> QED BY <2>1, <2>3, <3>1, <3>2
    <2>5. Until(e, now, left) = NoMatch
      BY <2>3 DEF Until
    <2>6. ResolveAdditional(e, now) = bare
      <3> HIDE DEF bare, left, right
      <3>1. OfParts(e, now, left, right) = bare
        BY <2>2, <2>4, <2>5 DEF OfParts, Else
      <3> QED BY <1>3, <3>1 DEF ResolveAdditional, left, right
    <2> HIDE DEF bare, left, right, x, y
    <2> QED BY <1>1, <1>3, <2>2, <2>6 DEF Resolve, Else
  <1>4. CASE exact = NoMatch /\ ~Composed(e)
    <2>1. alone = CASE e.form = "quarter" -> QuarterOf(e)
                    [] e.form = "weekbefore" -> WeekBefore(e)
                    [] e.form = "date" /\ e.h = None -> ParseAbsolute(e)
                    [] OTHER -> NoMatch
      BY <1>4 DEF ResolveWithoutReference, Else
    <2>2. CASE e.form = "quarter"
      <3>1. alone = QuarterOf(e)
        BY <2>1, <2>2
      <3>2. ExtendedInterval(e, now) = NoMatch /\ TimesOfDay(e, now) = NoMatch
        BY <2>2 DEF ExtendedInterval, TimesOfDay
      <3>3. Periods(e, now) = QuarterOf(e)
        BY <2>2 DEF Periods
      <3> QED BY <1>1, <1>4, <3>1, <3>2, <3>3 DEF Resolve, ResolveAdditional, Simple, Else
    <2>3. ASSUME \/ e.form = "weekbefore" /\ alone = WeekBefore(e)
                 \/ e.form = "date" /\ e.h = None /\ alone = ParseAbsolute(e)
          PROVE  Resolve(e, now) = alone
      <3>1. /\ ExtendedInterval(e, now) = NoMatch /\ TimesOfDay(e, now) = NoMatch
            /\ Periods(e, now) = NoMatch /\ RelativePoint(e, now) = NoMatch
        BY <2>3 DEF ExtendedInterval, TimesOfDay, Periods, RelativePoint
      <3>2. ResolveAdditional(e, now) = NoMatch
        BY <1>4, <3>1 DEF ResolveAdditional, Simple, Else
      <3>3. ResolveMatch(e, now) = alone
        BY <1>1, <2>3 DEF ResolveMatch, Else
      <3> QED BY <1>1, <1>4, <3>2, <3>3 DEF Resolve, Else
    <2>4. e.form = "quarter" \/ (e.form = "weekbefore" /\ alone = WeekBefore(e))
            \/ (e.form = "date" /\ e.h = None /\ alone = ParseAbsolute(e))
      BY <1>1, <2>1
    <2> QED BY <1>1, <2>2, <2>3, <2>4
  <1> QED BY <1>2, <1>3, <1>4

\* A payload as the runs have it.
Whole(p) ==
    /\ DOMAIN p = PayloadFields /\ IsSeq(p.messages)
    /\ \A i \in DOMAIN p.messages : IsSeq(p.messages[i].said)

\* The message that an item names, and how its expressions read there.
NamedBy(item, p)  == {j \in DOMAIN p.messages : item.message \in IdsOf(p.messages[j], p)}
MessageOf(item, p) == p.messages[Lowest(NamedBy(item, p))]
ZoneOf(item, p)   == MessageZone(MessageOf(item, p), p)
ReadOf(item, p)   == Readings(item.said, MessageOf(item, p).occurred.at, ZoneOf(item, p))
SpokenOf(item, p) == UtcOf(FirstResolved(ReadOf(item, p)).start, ZoneOf(item, p))
Placed(item, p)   == /\ item.message # "none" /\ item.zone = NoZone /\ NamedBy(item, p) # {}
                     /\ Given(MessageOf(item, p).occurred)
Spoken(m, p) == SpokenOf(m.item, p) # None /\ ~Given(m.item.event) => m.event = SpokenOf(m.item, p)

\* What each of the passes makes of it.
FirstRead(m, p)  == Placed(m.item, p) => m.readings = ReadOf(m.item, p) /\ Spoken(m, p)
SecondRead(m, p) ==
    Placed(m.item, p) =>
        /\ \A k \in DOMAIN ReadOf(m.item, p) :
               Resolved(ReadOf(m.item, p)[k]) \/ Resolved(m.readings[k]) => m.readings[k] = ReadOf(m.item, p)[k]
        /\ Spoken(m, p)

LEMMA ReadAsSaid ==
    ASSUME \A r \in Runs : \A i \in DOMAIN run[r].kept : SecondRead(run[r].kept[i], job[r])
    PROVE  GroundedInItsMessage
  BY DEF GroundedInItsMessage, SecondRead, Spoken, Placed, SpokenOf, ReadOf, ZoneOf, MessageOf, NamedBy

\* That the worker lets the event stand for the time leaves the rest of the payload.
LEMMA WorkerPayloadIs ==
    ASSUME NEW p, Whole(p)
    PROVE  /\ WorkerPayload(p).messages = p.messages /\ WorkerPayload(p).id = p.id
           /\ WorkerPayload(p).source = p.source
           /\ WorkerPayload(p).zone = p.zone
  BY DEF WorkerPayload, Whole, PayloadFields

\* A message that says when it occurred is read then, whatever the payload says of that.
LEMMA ContextOf ==
    ASSUME NEW p, NEW q, q.messages = p.messages, q.id = p.id, q.source = p.source, q.zone = p.zone,
           NEW j \in DOMAIN p.messages,
           Given(p.messages[j].occurred)
    PROVE  LET c == NormalizeMessages(q)[j]
               zone == MessageZone(p.messages[j], p)
           IN  /\ c.ref = p.messages[j].occurred.at /\ c.ref # None /\ c.zone = zone
               /\ c.ids = IdsOf(p.messages[j], p)
               /\ c.matches = Readings(p.messages[j].said, p.messages[j].occurred.at, zone)
  <1> DEFINE m == p.messages[j]
  <1>1. MessageZone(m, q) = MessageZone(m, p)
    BY DEF MessageZone, OrElse
  <1>2. MessageReference(m, q) = m.occurred.at
    BY DEF MessageReference, OrElse
  <1>3. IdsOf(m, q) = IdsOf(m, p)
    BY DEF IdsOf
  <1>4. NormalizeMessages(q)[j] = NormalizeMessage(m, q)
    BY DEF NormalizeMessages
  <1> HIDE DEF m
  <1>5. /\ NormalizeMessage(m, q).ref = MessageReference(m, q)
        /\ NormalizeMessage(m, q).zone = MessageZone(m, q)
        /\ NormalizeMessage(m, q).ids = IdsOf(m, q)
        /\ NormalizeMessage(m, q).matches = Readings(m.said, MessageReference(m, q), MessageZone(m, q))
    BY DEF NormalizeMessage, Context
  <1>6. m.occurred.at # None
    BY DEF Given, m
  <1> QED BY <1>1, <1>2, <1>3, <1>4, <1>5, <1>6 DEF m

LEMMA ContextIds ==
    ASSUME NEW p, NEW q, q.messages = p.messages, q.id = p.id, q.source = p.source
    PROVE  /\ DOMAIN NormalizeMessages(q) = DOMAIN p.messages
           /\ \A j \in DOMAIN p.messages : NormalizeMessages(q)[j].ids = IdsOf(p.messages[j], p)
  <1>1. \A m : NormalizeMessage(m, q).ids = IdsOf(m, q)
    BY DEF NormalizeMessage, Context
  <1>2. \A m : IdsOf(m, q) = IdsOf(m, p)
    BY DEF IdsOf
  <1> QED BY <1>1, <1>2 DEF NormalizeMessages

\* The first that resolves stays the first when more readings follow.
LEMMA FirstStays ==
    ASSUME NEW s, NEW t, IsSeq(s), IsSeq(t), FirstResolved(s) # NoMatch
    PROVE  FirstResolved(s \o t) = FirstResolved(s) /\ Resolved(FirstResolved(s))
  <1> DEFINE u == s \o t
  <1> DEFINE here == {i \in DOMAIN s : Resolved(s[i])}
  <1> DEFINE there == {i \in DOMAIN u : Resolved(u[i])}
  <1>1. /\ IsSeq(u) /\ Len(u) = Len(s) + Len(t) /\ \A i \in DOMAIN s : u[i] = s[i]
    BY JoinedIs
  <1>2. /\ DOMAIN s = 1 .. Len(s) /\ DOMAIN u = 1 .. Len(s) + Len(t) /\ Len(s) \in Nat /\ Len(t) \in Nat
    BY <1>1, SequenceIs
  <1> HIDE DEF u
  <1>3. here # {} /\ FirstResolved(s) = s[Lowest(here)]
    BY DEF FirstResolved
  <1>4. here \subseteq Nat /\ there \subseteq Nat /\ here \subseteq there
    BY <1>1, <1>2
  <1>5. /\ Lowest(here) \in here /\ \A n \in here : Lowest(here) <= n
        /\ Lowest(there) \in there /\ \A n \in there : Lowest(there) <= n
    <2> HIDE DEF here, there
    <2> QED BY <1>3, <1>4, LowestOf
  <1> DEFINE a == Lowest(here)
  <1> DEFINE b == Lowest(there)
  <1>6. b <= a /\ a \in Nat /\ b \in Nat
    BY <1>4, <1>5
  <1>7. b \in here
    <2>1. a \in 1 .. Len(s) /\ b \in DOMAIN u /\ Resolved(u[b])
      BY <1>2, <1>5
    <2> HIDE DEF a, b
    <2>2. b \in 1 .. Len(s)
      BY <1>2, <1>6, <2>1
    <2> QED BY <1>1, <1>2, <2>1, <2>2
  <1>8. a = b
    <2>1. a <= b
      BY <1>5, <1>7
    <2> HIDE DEF a, b
    <2> QED BY <1>6, <2>1
  <1>9. FirstResolved(u) = u[b]
    BY <1>5 DEF FirstResolved
  <1> HIDE DEF there
  <1>10. u[b] = s[a] /\ Resolved(s[a])
    BY <1>1, <1>5, <1>8
  <1> QED BY <1>3, <1>9, <1>10 DEF u

\* The message an item names is found, and is the one it names.
LEMMA NamedIs ==
    ASSUME NEW item, NEW p, Whole(p), Placed(item, p)
    PROVE  /\ NamedBy(item, p) \subseteq Nat /\ Lowest(NamedBy(item, p)) \in DOMAIN p.messages
           /\ Lowest(NamedBy(item, p)) # 0
  <1>1. NamedBy(item, p) \subseteq DOMAIN p.messages /\ DOMAIN p.messages = 1 .. Len(p.messages)
        /\ Len(p.messages) \in Nat
    BY SequenceIs DEF NamedBy, Whole
  <1>2. NamedBy(item, p) \subseteq Nat /\ NamedBy(item, p) # {}
    BY <1>1 DEF Placed
  <1>3. Lowest(NamedBy(item, p)) \in NamedBy(item, p)
    BY <1>2, LowestOf
  <1> QED BY <1>1, <1>2, <1>3

\* The first pass.
LEMMA FirstReads ==
    ASSUME NEW p, Whole(p), NEW item, IsItem(item)
    PROVE  FirstRead(ApplyTemporalMetadata(item, p, NormalizeMessages(WorkerPayload(p))), p)
  <1> DEFINE q == WorkerPayload(p)
  <1> DEFINE contexts == NormalizeMessages(q)
  <1> DEFINE made == ApplyTemporalMetadata(item, p, contexts)
  <1> DEFINE ctx == ContextForMemory(item, p, contexts)
  <1> DEFINE zone == ZoneOf(item, p)
  <1> DEFINE msg == MessageOf(item, p)
  <1> DEFINE read == ReadOf(item, p)
  <1> DEFINE j == Lowest(NamedBy(item, p))
  <1> SUFFICES ASSUME Placed(item, p)
               PROVE  made.readings = read /\ (SpokenOf(item, p) # None /\ ~Given(item.event) => made.event = SpokenOf(item, p))
    <2>1. made.item = item
      BY AppliedIs
    <2> HIDE DEF made
    <2> QED BY <2>1 DEF FirstRead, Spoken, made
  <1>1. q.messages = p.messages /\ q.id = p.id /\ q.source = p.source /\ q.zone = p.zone
    BY WorkerPayloadIs
  <1>2. j \in DOMAIN p.messages /\ j # 0 /\ msg = p.messages[j] /\ zone = MessageZone(msg, p)
        /\ Given(msg.occurred) /\ item.message # "none" /\ item.zone = NoZone /\ NamedBy(item, p) # {}
    BY NamedIs DEF MessageOf, ZoneOf, Placed
  <1>3. /\ contexts[j].ref = msg.occurred.at /\ contexts[j].ref # None /\ contexts[j].zone = zone
        /\ contexts[j].matches = Readings(msg.said, msg.occurred.at, zone)
    <2> HIDE DEF q
    <2> QED BY <1>1, <1>2, ContextOf
  <1>4. /\ DOMAIN contexts = DOMAIN p.messages
        /\ \A i \in DOMAIN p.messages : contexts[i].ids = IdsOf(p.messages[i], p)
    <2> HIDE DEF q
    <2> QED BY <1>1, ContextIds
  <1> HIDE DEF contexts, q, msg, zone
  <1>5. ContextMessage(item, contexts) = j
    <2> DEFINE named == {i \in DOMAIN contexts : item.message \in contexts[i].ids}
    <2>1. named = NamedBy(item, p)
      BY <1>2, <1>4 DEF NamedBy
    <2>2. named # {}
      BY <1>2, <2>1
    <2>3. ContextMessage(item, contexts) = Lowest(named)
      BY <2>2 DEF ContextMessage
    <2> QED BY <2>1, <2>3
  <1> HIDE DEF j
  <1>6. ctx = contexts[j]
    BY <1>2, <1>5 DEF ContextForMemory
  <1> HIDE DEF ctx
  <1>7. ctx.ref = msg.occurred.at /\ ctx.ref # None /\ ctx.zone = zone
        /\ ctx.matches = Readings(msg.said, msg.occurred.at, zone) /\ ctx # NoContext
    <2>1. NoContext.ref = None
      BY DEF NoContext, Context
    <2> QED BY <1>3, <1>6, <2>1
  <1>8. ItemReference(item, p, ctx) = msg.occurred.at
    BY <1>7 DEF ItemReference
  <1> DEFINE at == CASE item.zone # NoZone -> item.zone
                     [] item.zone = NoZone /\ ctx # NoContext -> ctx.zone
                     [] OTHER -> IF p.zone = NoZone THEN 0 ELSE p.zone
  <1>9. at = zone
    BY <1>2, <1>7
  <1>10. read = Readings(item.said, msg.occurred.at, zone)
    BY DEF ReadOf, msg, zone
  <1> DEFINE event == EventOf(item, ctx, read, zone)
  <1>11. made.readings = read /\ made.event = event.at
    <2>1. /\ made.readings = Readings(item.said, ItemReference(item, p, ctx), at)
          /\ made.event = EventOf(item, ctx, Readings(item.said, ItemReference(item, p, ctx), at), at).at
      <3> HIDE DEF at
      <3> QED BY DEF ApplyTemporalMetadata, ctx, at
    <2> HIDE DEF at
    <2> QED BY <1>8, <1>9, <1>10, <2>1
  <1>12. ASSUME SpokenOf(item, p) # None, ~Given(item.event) PROVE event.at = SpokenOf(item, p)
    <2>1. SpokenOf(item, p) = UtcOf(FirstResolved(read).start, zone)
      BY DEF SpokenOf, zone
    <2>2. FirstResolved(read) # NoMatch
      BY <1>12, <2>1 DEF UtcOf, NoMatch, Match
    <2>3. IsSeq(read) /\ IsSeq(ctx.matches)
      <3>1. IsSeq(item.said) /\ IsSeq(msg.said)
        BY <1>2 DEF IsItem, Whole
      <3>2. \A said, ref, z : IsSeq(said) => IsSeq(Readings(said, ref, z))
        <4> SUFFICES ASSUME NEW said, NEW ref, NEW z, IsSeq(said) PROVE IsSeq(Readings(said, ref, z))
          OBVIOUS
        <4> DEFINE s == Readings(said, ref, z)
        <4>1. DOMAIN s = 1 .. Len(said) /\ Len(said) \in Nat
          BY SequenceIs DEF Readings
        <4>2. s = [i \in DOMAIN s |-> s[i]]
          BY DEF Readings
        <4> HIDE DEF s
        <4>3. IsSeq(s)
          BY <4>1, <4>2, ListIs
        <4> QED BY <4>3 DEF s
      <3> QED BY <1>7, <1>10, <3>1, <3>2
    <2> DEFINE spoken == FirstResolved(read \o ctx.matches)
    <2> HIDE DEF read
    <2>4. spoken = FirstResolved(read) /\ Resolved(spoken)
      BY <2>2, <2>3, FirstStays
    <2> HIDE DEF spoken
    <2>5. event.at = UtcOf(spoken.start, zone)
      BY <1>12, <2>4 DEF EventOf, spoken
    <2> QED BY <2>1, <2>4, <2>5
  <1> HIDE DEF made, event, read
  <1> QED BY <1>11, <1>12

\* Leaving out the fact of a memory leaves its reading.
LEMMA FirstReadSafely ==
    ASSUME NEW m, IsMemory(m), NEW p, FirstRead(m, p)
    PROVE  FirstRead(PseudonymizeFact(m), p)
  <1> DEFINE n == PseudonymizeFact(m)
  <1>1. n.readings = m.readings /\ n.event = m.event
    BY PseudonymIs DEF MemoryFields
  <1>2. n.item.message = m.item.message /\ n.item.zone = m.item.zone /\ n.item.said = m.item.said
        /\ n.item.event = m.item.event
    BY PseudonymIs DEF ItemFields
  <1> HIDE DEF n
  <1>3. NamedBy(n.item, p) = NamedBy(m.item, p)
    BY <1>2 DEF NamedBy
  <1>4. MessageOf(n.item, p) = MessageOf(m.item, p) /\ ZoneOf(n.item, p) = ZoneOf(m.item, p)
    BY <1>3 DEF MessageOf, ZoneOf
  <1>5. ReadOf(n.item, p) = ReadOf(m.item, p) /\ SpokenOf(n.item, p) = SpokenOf(m.item, p)
    BY <1>2, <1>4 DEF ReadOf, SpokenOf
  <1>6. Placed(n.item, p) <=> Placed(m.item, p)
    BY <1>2, <1>3, <1>4 DEF Placed
  <1> QED BY <1>1, <1>2, <1>5, <1>6 DEF FirstRead, Spoken, n

\* The second pass: all messages that are dated agree with the one that is named, or there is no
\* reference in common.
LEMMA SecondReads ==
    ASSUME NEW p, Whole(p), NEW m, IsMemory(m), FirstRead(m, p)
    PROVE  SecondRead(GroundMemoryTemporal(m, CommonContext(NormalizeMessages(p), p)), p)
  <1> DEFINE contexts == NormalizeMessages(p)
  <1> DEFINE common == CommonContext(contexts, p)
  <1> DEFINE again == GroundMemoryTemporal(m, common)
  <1> DEFINE item == m.item
  <1> DEFINE read == ReadOf(item, p)
  <1> DEFINE msg == MessageOf(item, p)
  <1> DEFINE zone == ZoneOf(item, p)
  <1> DEFINE j == Lowest(NamedBy(item, p))
  <1>0. again.item = m.item
    BY GroundedIs
  <1> SUFFICES ASSUME Placed(item, p)
               PROVE  /\ \A k \in DOMAIN read : Resolved(read[k]) \/ Resolved(again.readings[k]) => again.readings[k] = read[k]
                      /\ SpokenOf(item, p) # None /\ ~Given(item.event) => again.event = SpokenOf(item, p)
    <2>1. again.item = item
      BY <1>0
    <2>2. SecondRead(again, p)
      <3> HIDE DEF again, item, read
      <3> QED BY <2>1 DEF SecondRead, Spoken, read
    <2> QED BY <2>2
  <1>1. j \in DOMAIN p.messages /\ msg = p.messages[j] /\ zone = MessageZone(msg, p) /\ Given(msg.occurred)
    BY NamedIs DEF MessageOf, ZoneOf, Placed
  <1>2. contexts[j].ref = msg.occurred.at /\ contexts[j].ref # None /\ contexts[j].zone = zone
    BY <1>1, ContextOf
  <1>3. DOMAIN contexts = DOMAIN p.messages
    BY ContextIds
  <1>4. m.readings = read /\ (SpokenOf(item, p) # None /\ ~Given(item.event) => m.event = SpokenOf(item, p))
    BY DEF FirstRead, Spoken
  <1>5. /\ again.readings = Reread(m, common)
        /\ m.event # None => again.event = m.event
    <2> HIDE DEF common
    <2> QED BY DEF GroundMemoryTemporal, IsMemory, MemoryFields
  <1> HIDE DEF j, msg, zone
  <1>6. read = Readings(item.said, msg.occurred.at, zone)
    BY DEF ReadOf, msg, zone
  <1>7. common.ref = None \/ (common.ref = msg.occurred.at /\ common.zone = zone)
    <2> DEFINE dated == {i \in DOMAIN contexts : contexts[i].ref # None}
    <2> DEFINE first == contexts[Lowest(dated)]
    <2> HIDE DEF contexts
    <2>1. j \in dated
      BY <1>1, <1>2, <1>3
    <2> HIDE DEF dated
    <2>2. CASE \E i \in dated : <<contexts[i].ref, contexts[i].zone>> # <<first.ref, first.zone>>
      <3>1. common = Context(None, None, None, first.zone, "ambiguous_message_timestamps", <<>>, {})
        BY <2>1, <2>2 DEF CommonContext, dated
      <3> QED BY <3>1 DEF Context
    <2>3. CASE ~ \E i \in dated : <<contexts[i].ref, contexts[i].zone>> # <<first.ref, first.zone>>
      <3>1. common = first
        BY <2>1, <2>3 DEF CommonContext, dated
      <3>2. <<contexts[j].ref, contexts[j].zone>> = <<first.ref, first.zone>>
        BY <2>1, <2>3
      <3>3. contexts[j].ref = first.ref /\ contexts[j].zone = first.zone
        <4> HIDE DEF first
        <4> QED BY <3>2
      <3> HIDE DEF common, first
      <3> QED BY <1>2, <3>1, <3>3
    <2> QED BY <2>2, <2>3
  <1> HIDE DEF again, common, read, contexts
  <1>8. ASSUME NEW k \in DOMAIN read, Resolved(read[k]) \/ Resolved(again.readings[k])
        PROVE  again.readings[k] = read[k]
    <2> DEFINE e == item.said[k]
    <2> DEFINE now == LocalOf(msg.occurred.at, zone)
    <2>1. read[k] = Resolve(e, now) /\ k \in DOMAIN m.readings
      BY <1>4, <1>6, <1>8 DEF Readings
    <2>2. again.readings[k] = IF Resolved(read[k]) THEN read[k] ELSE Resolve(e, LocalOf(common.ref, common.zone))
      BY <1>4, <1>5, <2>1 DEF Reread
    <2>3. CASE Resolved(read[k])
      BY <2>2, <2>3
    <2>4. CASE ~Resolved(read[k])
      <3>1. again.readings[k] = Resolve(e, LocalOf(common.ref, common.zone))
        BY <2>2, <2>4
      <3>2. CASE common.ref = None
        <4>1. LocalOf(common.ref, common.zone) = None
          BY <3>2 DEF LocalOf
        <4>2. Resolved(Resolve(e, None))
          BY <1>8, <2>4, <3>1, <4>1
        <4>3. Resolve(e, now) = Resolve(e, None)
          <5> HIDE DEF e, now
          <5> QED BY <4>2, Timeless
        <4> QED BY <2>1, <3>1, <4>1, <4>3
      <3>3. CASE common.ref = msg.occurred.at /\ common.zone = zone
        BY <2>1, <3>1, <3>3
      <3> QED BY <1>7, <3>2, <3>3
    <2> QED BY <2>3, <2>4
  <1>9. SpokenOf(item, p) # None /\ ~Given(item.event) => again.event = SpokenOf(item, p)
    BY <1>4, <1>5
  <1> QED BY <1>8, <1>9

-----------------------------------------------------------------------------
\* The contexts that a run works with are of its own payload, and what it keeps has been read with them.
ReadsRight(one, p) ==
    /\ one.stage = "extract" => one.contexts = NormalizeMessages(WorkerPayload(p))
    /\ one.stage \in Folding => Whole(p) /\ \A i \in DOMAIN one.rest : FirstRead(one.rest[i], p)
    /\ one.stage = "dedup" => one.common = CommonContext(NormalizeMessages(p), p)
    /\ \A i \in DOMAIN one.kept : SecondRead(one.kept[i], p)
ReadInv == \A r \in Runs : ReadsRight(run[r], job[r])

LEMMA OneReads ==
    ASSUME GraphInv, ReadInv, NEW r \in Runs, NEW new, Set(r, new), job' = job, ReadsRight(new, job[r])
    PROVE  ReadInv'
  <1>1. DOMAIN run' = Runs /\ run'[r] = new /\ \A q \in Runs \ {r} : run'[q] = run[q]
    BY SetMoves
  <1>2. \A q \in Runs : ReadsRight(run'[q], job[q])
    BY <1>1 DEF ReadInv
  <1> QED BY <1>2 DEF ReadInv

\* What is kept stays as it has been read.
LEMMA StillRead ==
    ASSUME NEW p, NEW one, ReadsRight(one, p), NEW new, new.kept = one.kept,
           new.stage \notin {"extract", "ground", "dedup"}
    PROVE  ReadsRight(new, p)
  BY DEF ReadsRight, Folding

LEMMA NothingKept ==
    ASSUME NEW p, NEW new, new.kept = <<>>, new.stage \notin {"extract", "ground", "dedup"}
    PROVE  ReadsRight(new, p)
  BY DEF ReadsRight, Folding

LEMMA RollbackReads ==
    ASSUME GraphInv, ReadInv, NEW r \in Runs, Rollback(r)
    PROVE  ReadInv'
  <1> DEFINE stage == IF run[r].tries + 1 < MaxTries THEN "redact" ELSE "failed"
  <1> DEFINE new == [Fresh EXCEPT !.tries = run[r].tries + 1, !.stage = stage]
  <1>1. Untouched(new) /\ new.stage = stage
    BY FreshIs
  <1>2. Set(r, new) /\ job' = job
    BY DEF Rollback
  <1> HIDE DEF new
  <1>3. ReadsRight(new, job[r])
    BY <1>1, NothingKept DEF Untouched
  <1> QED BY <1>2, <1>3, OneReads

LEMMA DecideReads ==
    ASSUME GraphInv, ReadInv, NEW r \in Runs, NEW answer, Decide(r, answer)
    PROVE  ReadInv'
  <1> DEFINE one == run[r]
  <1> DEFINE on == [one EXCEPT !.stage = "extract", !.contexts = NormalizeMessages(WorkerPayload(job[r]))]
  <1> DEFINE off == [one EXCEPT !.stage = "done", !.discarded = 1]
  <1>1. DOMAIN one = RunFields /\ ReadsRight(one, job[r])
    BY DEF GraphInv, Sound, Formed, ReadInv
  <1>2. /\ on.stage = "extract" /\ on.contexts = NormalizeMessages(WorkerPayload(job[r])) /\ on.kept = one.kept
        /\ off.stage = "done" /\ off.kept = one.kept
    BY <1>1 DEF RunFields
  <1>3. Set(r, on) \/ Set(r, off)
    BY DEF Decide
  <1>4. job' = job
    BY DEF Decide, Quiet
  <1> HIDE DEF on, off
  <1>5. ReadsRight(on, job[r]) /\ ReadsRight(off, job[r])
    BY <1>1, <1>2, StillRead DEF ReadsRight, Folding
  <1> QED BY <1>3, <1>4, <1>5, OneReads

LEMMA ExtractReads ==
    ASSUME GraphInv, ReadInv, NEW r \in Runs, NEW reply \in job[r].replies, Extract(r, reply)
    PROVE  ReadInv'
  <1> DEFINE one == run[r]
  <1> DEFINE p == job[r]
  <1>1. /\ DOMAIN one = RunFields /\ one.stage = "extract" /\ one.kept = <<>>
        /\ one.contexts = NormalizeMessages(WorkerPayload(p)) /\ job' = job
    BY DEF GraphInv, Sound, Formed, Account, Extract, AtStage, Early, Untouched, ReadInv, ReadsRight, Quiet
  <1>2. PICK parsed \in ParseMemories(reply, p, one.contexts) : \E memories \in Safe(parsed) :
            Set(r, [one EXCEPT !.stage = IF memories = <<>> THEN "done" ELSE "ground",
                               !.extracted = Len(memories), !.rest = memories])
    BY DEF Extract
  <1>3. PICK memories \in Safe(parsed) :
            Set(r, [one EXCEPT !.stage = IF memories = <<>> THEN "done" ELSE "ground",
                               !.extracted = Len(memories), !.rest = memories])
    BY <1>2
  <1>4. Whole(p)
    BY JobsAssumption DEF GraphInv, Whole
  <1>5. /\ IsSeq(reply.items) /\ \A i \in DOMAIN reply.items : IsItem(reply.items[i])
    BY RepliesAre DEF GraphInv
  <1>6. /\ Memories(parsed)
        /\ \A n \in DOMAIN parsed : \E i \in DOMAIN reply.items :
              parsed[n] = ApplyTemporalMetadata(reply.items[i], p, NormalizeMessages(WorkerPayload(p)))
    <2> DEFINE cs == one.contexts
    <2>1. parsed \in ParseMemories(reply, p, cs)
      BY <1>2
    <2> HIDE DEF cs, p
    <2>2. /\ Memories(parsed)
          /\ \A n \in DOMAIN parsed : \E i \in DOMAIN reply.items : parsed[n] = ApplyTemporalMetadata(reply.items[i], p, cs)
      BY <1>5, <2>1, ParsedIs
    <2>3. cs = NormalizeMessages(WorkerPayload(p))
      BY <1>1 DEF cs, p
    <2> QED BY <2>2, <2>3
  <1> HIDE DEF p
  <1>7. \A n \in DOMAIN parsed : IsMemory(parsed[n]) /\ FirstRead(parsed[n], p)
    <2> SUFFICES ASSUME NEW n \in DOMAIN parsed PROVE IsMemory(parsed[n]) /\ FirstRead(parsed[n], p)
      OBVIOUS
    <2>1. PICK i \in DOMAIN reply.items :
              parsed[n] = ApplyTemporalMetadata(reply.items[i], p, NormalizeMessages(WorkerPayload(p)))
      BY <1>6
    <2>2. IsItem(reply.items[i])
      BY <1>5
    <2> QED BY <1>4, <1>6, <2>1, <2>2, FirstReads DEF Memories
  <1>8. \A n \in DOMAIN memories : FirstRead(memories[n], p)
    <2> SUFFICES ASSUME NEW n \in DOMAIN memories PROVE FirstRead(memories[n], p)
      OBVIOUS
    <2>1. PICK i \in DOMAIN parsed : memories[n] = PseudonymizeFact(parsed[i])
      BY <1>6, SafeIs
    <2> QED BY <1>7, <2>1, FirstReadSafely
  <1> DEFINE stage == IF memories = <<>> THEN "done" ELSE "ground"
  <1> DEFINE new == [one EXCEPT !.stage = stage, !.extracted = Len(memories), !.rest = memories]
  <1>9. new.stage = stage /\ new.rest = memories /\ new.kept = <<>>
    BY <1>1 DEF RunFields
  <1>10. Set(r, new)
    BY <1>3
  <1> HIDE DEF new
  <1>11. ReadsRight(new, p)
    BY <1>4, <1>8, <1>9 DEF ReadsRight, Folding
  <1> QED BY <1>1, <1>10, <1>11, OneReads DEF p

LEMMA GroundReads ==
    ASSUME GraphInv, ReadInv, NEW r \in Runs, Ground(r)
    PROVE  ReadInv'
  <1> DEFINE one == run[r]
  <1> DEFINE p == job[r]
  <1> DEFINE common == CommonContext(NormalizeMessages(p), p)
  <1> DEFINE new == [one EXCEPT !.stage = "dedup", !.contexts = <<>>, !.common = common]
  <1>1. DOMAIN one = RunFields /\ one.stage = "ground" /\ ReadsRight(one, p) /\ job' = job /\ Set(r, new)
    BY DEF GraphInv, Sound, Formed, ReadInv, Ground, AtStage, Quiet
  <1> HIDE DEF common
  <1>2. new.stage = "dedup" /\ new.common = common /\ new.rest = one.rest /\ new.kept = one.kept
    BY <1>1 DEF RunFields
  <1> HIDE DEF new
  <1>3. ReadsRight(new, p)
    BY <1>1, <1>2 DEF ReadsRight, Folding, common
  <1> QED BY <1>1, <1>3, OneReads

LEMMA DedupReads ==
    ASSUME GraphInv, ReadInv, NEW r \in Runs, NEW verdict \in Verdicts, Dedup(r, verdict)
    PROVE  ReadInv'
  <1> DEFINE one == run[r]
  <1> DEFINE p == job[r]
  <1> DEFINE memory == GroundMemoryTemporal(Head(one.rest), one.common)
  <1>1. /\ DOMAIN one = RunFields /\ one.stage = "dedup" /\ one.rest # <<>> /\ job' = job
        /\ IsSeq(one.rest) /\ IsSeq(one.kept) /\ Memories(one.rest) /\ ReadsRight(one, p)
    BY DEF GraphInv, Sound, Formed, Memories, ReadInv, Dedup, AtStage, Quiet
  <1>2. /\ 1 \in DOMAIN one.rest /\ Head(one.rest) = one.rest[1]
        /\ \A k \in DOMAIN Tail(one.rest) : k + 1 \in DOMAIN one.rest /\ Tail(one.rest)[k] = one.rest[k + 1]
    BY <1>1, RestIs
  <1>3. /\ Whole(p) /\ \A i \in DOMAIN one.rest : FirstRead(one.rest[i], p)
        /\ one.common = CommonContext(NormalizeMessages(p), p)
        /\ \A i \in DOMAIN one.kept : SecondRead(one.kept[i], p)
    BY <1>1 DEF ReadsRight, Folding
  <1>4. SecondRead(memory, p)
    <2> DEFINE m == Head(one.rest)
    <2>1. IsMemory(m) /\ FirstRead(m, p)
      BY <1>1, <1>2, <1>3 DEF Memories
    <2> HIDE DEF m, p
    <2>2. SecondRead(GroundMemoryTemporal(m, CommonContext(NormalizeMessages(p), p)), p)
      BY <1>3, <2>1, SecondReads
    <2> QED BY <1>3, <2>2 DEF m
  <1>5. run'[r].stage = "dedup" /\ run'[r].common = one.common /\ run'[r].rest = Tail(one.rest)
        /\ (run'[r].kept = one.kept \/ run'[r].kept = Append(one.kept, memory))
    <2> DEFINE tail == [one EXCEPT !.rest = Tail(@)]
    <2> DEFINE seen == [tail EXCEPT !.keys = @ \union {BatchKeyOf(memory), FactKey(memory)}]
    <2> DEFINE fold == FoldInBatch(tail, memory)
    <2> DEFINE news == {[fold EXCEPT !.keys = @ \union {BatchKeyOf(memory)}],
                        [seen EXCEPT !.discarded = @ + 1], [seen EXCEPT !.merged = @ + 1],
                        [seen EXCEPT !.kept = Append(@, memory)]}
    <2>1. \E new \in news : Set(r, new)
      BY DEF Dedup, Verdicts
    <2>2. run'[r] \in news
      BY <2>1, SetMoves
    <2> HIDE DEF memory
    <2>3. /\ DOMAIN tail = RunFields /\ tail.rest = Tail(one.rest) /\ tail.stage = "dedup"
          /\ tail.common = one.common /\ tail.kept = one.kept
      BY <1>1 DEF RunFields
    <2> HIDE DEF tail
    <2>4. /\ DOMAIN seen = RunFields /\ seen.rest = Tail(one.rest) /\ seen.stage = "dedup"
          /\ seen.common = one.common /\ seen.kept = one.kept
      BY <2>3 DEF RunFields
    <2>5. /\ DOMAIN fold = RunFields /\ fold.rest = Tail(one.rest) /\ fold.stage = "dedup"
          /\ fold.common = one.common /\ fold.kept = one.kept
      BY <2>3 DEF RunFields, FoldInBatch
    <2> HIDE DEF seen, fold
    <2> DEFINE P(x) == /\ x.stage = "dedup" /\ x.common = one.common /\ x.rest = Tail(one.rest)
                       /\ (x.kept = one.kept \/ x.kept = Append(one.kept, memory))
    <2>6. P([fold EXCEPT !.keys = @ \union {BatchKeyOf(memory)}])
      BY <2>5 DEF RunFields
    <2>7. P([seen EXCEPT !.discarded = @ + 1]) /\ P([seen EXCEPT !.merged = @ + 1])
      BY <2>4 DEF RunFields
    <2>8. P([seen EXCEPT !.kept = Append(@, memory)])
      BY <2>4 DEF RunFields
    <2>9. \A x \in news : P(x)
      <3> HIDE DEF P
      <3> QED BY <2>6, <2>7, <2>8
    <2> HIDE DEF news
    <2> QED BY <2>2, <2>9
  <1>6. \A i \in DOMAIN run'[r].kept : SecondRead(run'[r].kept[i], p)
    <2>1. CASE run'[r].kept = one.kept
      BY <1>3, <2>1
    <2>2. CASE run'[r].kept = Append(one.kept, memory)
      <3> DEFINE more == Append(one.kept, memory)
      <3> HIDE DEF memory
      <3>1. /\ IsSeq(more) /\ Len(more) = Len(one.kept) + 1 /\ more[Len(one.kept) + 1] = memory
            /\ \A k \in DOMAIN one.kept : more[k] = one.kept[k]
        BY <1>1, AppendedIs
      <3> HIDE DEF more
      <3>2. DOMAIN one.kept = 1 .. Len(one.kept) /\ DOMAIN more = 1 .. Len(one.kept) + 1 /\ Len(one.kept) \in Nat
        BY <1>1, <3>1, SequenceIs
      <3>3. \A k \in DOMAIN more : k \in DOMAIN one.kept \/ k = Len(one.kept) + 1
        BY <3>2
      <3>4. \A k \in DOMAIN more : SecondRead(more[k], p)
        BY <1>3, <1>4, <3>1, <3>3
      <3> QED BY <2>2, <3>4 DEF more
    <2> QED BY <1>5, <2>1, <2>2
  <1>7. ReadsRight(run'[r], p)
    <2>1. \A i \in DOMAIN run'[r].rest : FirstRead(run'[r].rest[i], p)
      BY <1>2, <1>3, <1>5
    <2> QED BY <1>3, <1>5, <1>6, <2>1 DEF ReadsRight, Folding
  <1>8. Set(r, run'[r])
    <2>1. \E new : Set(r, new)
      BY DEF Dedup, Verdicts
    <2>2. PICK new : Set(r, new)
      BY <2>1
    <2>3. run'[r] = new
      BY <2>2, SetMoves
    <2> QED BY <2>2, <2>3
  <1> QED BY <1>1, <1>7, <1>8, OneReads

LEMMA PlanAllReads ==
    ASSUME GraphInv, ReadInv, NEW r \in Runs, NEW blocked, PlanAll(r, blocked)
    PROVE  ReadInv'
  <1> DEFINE one == run[r]
  <1> DEFINE there == {i \in DOMAIN one.kept : one.kept[i].item.text \notin blocked}
  <1>1. DOMAIN one = RunFields /\ IsSeq(one.kept) /\ ReadsRight(one, job[r]) /\ job' = job
    BY DEF GraphInv, Sound, Formed, Memories, ReadInv, PlanAll, Quiet
  <1>2. PICK left \in Picked(one.kept, there) :
            Set(r, [one EXCEPT !.stage = IF left = <<>> THEN "done" ELSE "seed",
                               !.discarded = @ + Cardinality(blocked),
                               !.mentions = IF left = <<>> THEN <<>> ELSE MentionsLeft(one.kept, left),
                               !.kept = left])
    BY DEF PlanAll
  <1> DEFINE stage == IF left = <<>> THEN "done" ELSE "seed"
  <1> DEFINE mentions == IF left = <<>> THEN <<>> ELSE MentionsLeft(one.kept, left)
  <1> DEFINE new == [one EXCEPT !.stage = stage, !.discarded = @ + Cardinality(blocked),
                                !.mentions = mentions, !.kept = left]
  <1>3. Set(r, new)
    BY <1>2
  <1> HIDE DEF there, mentions
  <1>4. new.stage = stage /\ new.kept = left
    BY <1>1 DEF RunFields
  <1> HIDE DEF new
  <1>5. \A n \in DOMAIN left : \E i \in DOMAIN one.kept : left[n] = one.kept[i]
    <2>1. there \subseteq DOMAIN one.kept
      BY DEF there
    <2> QED BY <1>1, <2>1, PickedIs
  <1>6. ReadsRight(new, job[r])
    BY <1>1, <1>4, <1>5 DEF ReadsRight, Folding
  <1> QED BY <1>1, <1>3, <1>6, OneReads

LEMMA ReadKept == GraphInv /\ ReadInv /\ [ExtractionNext]_extractionVars => ReadInv'
  <1> SUFFICES ASSUME GraphInv, ReadInv, [ExtractionNext]_extractionVars PROVE ReadInv'
    OBVIOUS
  <1>1. CASE UNCHANGED extractionVars
    BY <1>1 DEF extractionVars, ReadInv
  <1>2. ASSUME NEW r \in Runs, Step(r) PROVE ReadInv'
    <2> DEFINE one == run[r]
    <2>1. DOMAIN one = RunFields /\ ReadsRight(one, job[r])
      BY DEF GraphInv, Sound, Formed, ReadInv
    <2>2. ASSUME NEW works \in BOOLEAN, Redact(r, works) PROVE ReadInv'
      <3> DEFINE on == [one EXCEPT !.stage = "decide"]
      <3> DEFINE off == [one EXCEPT !.stage = "done", !.discarded = 1]
      <3>1. on.stage = "decide" /\ on.kept = one.kept /\ off.stage = "done" /\ off.kept = one.kept
        BY <2>1 DEF RunFields
      <3>2. (Set(r, on) \/ Set(r, off)) /\ job' = job
        BY <2>2 DEF Redact, Quiet
      <3> HIDE DEF on, off
      <3>3. ReadsRight(on, job[r]) /\ ReadsRight(off, job[r])
        BY <2>1, <3>1, StillRead
      <3> QED BY <3>2, <3>3, OneReads
    <2>3. ASSUME NEW answer \in Answers, Decide(r, answer) PROVE ReadInv'
      BY <2>3, DecideReads
    <2>4. ASSUME NEW reply \in job[r].replies, Extract(r, reply) PROVE ReadInv'
      BY <2>4, ExtractReads
    <2>5. CASE Ground(r)
      BY <2>5, GroundReads
    <2>6. ASSUME NEW verdict \in Verdicts, Dedup(r, verdict) PROVE ReadInv'
      BY <2>6, DedupReads
    <2>7. ASSUME NEW blocked, PlanAll(r, blocked) PROVE ReadInv'
      BY <2>7, PlanAllReads
    <2>8. CASE Rollback(r)
      BY <2>8, RollbackReads
    <2>9. CASE Seed(r) \/ ResolveMention(r) \/ SynthesizeEdges(r) \/ (\E n \in Names : Write(r, n))
               \/ UpdateCache(r) \/ Commit(r)
      <3>1. \E new : Set(r, new) /\ new.kept = one.kept /\ new.stage \in {"resolve", "write", "commit", "done"}
        <4>1. CASE Seed(r)
          <5>1. PICK x, y : Set(r, [one EXCEPT !.stage = "resolve", !.index = x, !.counts = y])
            BY <4>1 DEF Seed
          <5> DEFINE new == [one EXCEPT !.stage = "resolve", !.index = x, !.counts = y]
          <5>2. new.kept = one.kept /\ new.stage = "resolve"
            BY <2>1 DEF RunFields
          <5> HIDE DEF new
          <5> QED BY <5>1, <5>2 DEF new
        <4>2. CASE ResolveMention(r)
          <5> DEFINE m      == Head(one.mentions)
          <5> DEFINE alike  == FuzzyMatch(m.name)
          <5> DEFINE known  == m.name \in DOMAIN one.index \/ alike # <<>>
          <5> DEFINE target == IF m.name \in DOMAIN one.index THEN one.index[m.name]
                               ELSE IF alike # <<>> THEN alike[1] ELSE m.name
          <5> DEFINE read   == IF target \in DOMAIN one.counts THEN one.counts[target] ELSE entities[target]
          <5> DEFINE new    == [one EXCEPT !.mentions = Tail(@), !.index = Noted(@, m.name, target),
                                           !.counts = Noted(@, target, IF known THEN read + 1 ELSE 1),
                                           !.new = IF known THEN @ ELSE Append(@, m.name),
                                           !.links = @ \union {<<r, m.memory, m.name, target>>}]
          <5>1. Set(r, new) /\ one.stage = "resolve"
            BY <4>2 DEF ResolveMention, AtStage
          <5> HIDE DEF m, alike, known, target, read
          <5>2. new.kept = one.kept /\ new.stage = one.stage
            BY <2>1 DEF RunFields
          <5> HIDE DEF new
          <5> QED BY <5>1, <5>2 DEF new
        <4>3. CASE SynthesizeEdges(r)
          <5>1. PICK x : Set(r, [one EXCEPT !.stage = "write", !.edges = x])
            BY <4>3 DEF SynthesizeEdges
          <5> DEFINE new == [one EXCEPT !.stage = "write", !.edges = x]
          <5>2. new.kept = one.kept /\ new.stage = "write"
            BY <2>1 DEF RunFields
          <5> HIDE DEF new
          <5> QED BY <5>1, <5>2 DEF new
        <4>4. ASSUME NEW n \in Names, Write(r, n)
              PROVE  \E new : Set(r, new) /\ new.kept = one.kept /\ new.stage \in {"resolve", "write", "commit", "done"}
          BY <2>1, <4>4 DEF Write, AtStage, RunFields
        <4>5. CASE UpdateCache(r)
          <5>1. PICK x : Set(r, [one EXCEPT !.stage = "commit", !.stored = x])
            BY <4>5 DEF UpdateCache
          <5> DEFINE new == [one EXCEPT !.stage = "commit", !.stored = x]
          <5>2. new.kept = one.kept /\ new.stage = "commit"
            BY <2>1 DEF RunFields
          <5> HIDE DEF new
          <5> QED BY <5>1, <5>2 DEF new
        <4>6. CASE Commit(r)
          BY <2>1, <4>6 DEF Commit, RunFields
        <4> QED BY <2>9, <4>1, <4>2, <4>3, <4>4, <4>5, <4>6
      <3>2. job' = job
        BY <2>9 DEF Seed, ResolveMention, SynthesizeEdges, Write, UpdateCache, Commit, Quiet
      <3>3. PICK new : Set(r, new) /\ new.kept = one.kept /\ new.stage \in {"resolve", "write", "commit", "done"}
        BY <3>1
      <3>4. ReadsRight(new, job[r])
        BY <2>1, <3>3, StillRead
      <3> QED BY <3>2, <3>3, <3>4, OneReads
    <2>10. ASSUME NEW reply \in job[r].replies, ExtractFails(r, reply) PROVE Rollback(r)
      BY <2>10 DEF ExtractFails
    <2>11. ASSUME NEW n \in Names, WriteRefused(r, n) PROVE Rollback(r)
      BY <2>11 DEF WriteRefused
    <2>12. Deadlocked(r) \/ Crash(r) => Rollback(r)
      BY DEF Deadlocked, Crash
    <2> QED BY <1>2, <2>2, <2>3, <2>4, <2>5, <2>6, <2>7, <2>8, <2>9, <2>10, <2>11, <2>12 DEF Step
  <1> QED BY <1>1, <1>2 DEF ExtractionNext, Finished

\* A memory that names its message is read at that message's moment, by both passes.
THEOREM EachInItsMessage == ExtractionSpec => []GroundedInItsMessage
  <1>1. ExtractionInit => ReadInv
    <2> SUFFICES ASSUME ExtractionInit, NEW r \in Runs PROVE ReadsRight(run[r], job[r])
      BY DEF ReadInv
    <2>1. run[r] = Fresh \/ run[r] = [Fresh EXCEPT !.stage = "done"]
      BY DEF ExtractionInit
    <2>2. run[r].kept = <<>> /\ run[r].stage \in {"redact", "done"}
      BY <2>1, FreshIs DEF Untouched
    <2> QED BY <2>2, NothingKept
  <1>2. ReadInv => GroundedInItsMessage
    BY ReadAsSaid DEF ReadInv, ReadsRight
  <1> QED BY <1>1, <1>2, ReadKept, GraphAlways, PTL DEF ExtractionSpec

-----------------------------------------------------------------------------
(* what is true of a request, wherever it is *)

Shape(r)    == r = [pc |-> r.pc, got |-> r.got, answer |-> r.answer, futs |-> r.futs, vectors |-> r.vectors]
Reply(a)    == a = [status |-> a.status, got |-> a.got]
True(texts) == [k \in DOMAIN texts |-> Vector(Model, texts[k])]

\* A future that has its vector has that of the text at its place.
Futures(r, texts) ==
    /\ DOMAIN r.futs = DOMAIN texts /\ DOMAIN r.vectors = DOMAIN texts
    /\ \A k \in DOMAIN texts : r.futs[k] = "ok" => r.vectors[k] = True(texts)[k]
\* What has been gathered is the vectors of the first texts, in their order.
Prefix(r, texts) ==
    /\ Len(r.got) \in 0 .. Len(texts)
    /\ r.got = [k \in 1 .. Len(r.got) |-> True(texts)[k]]
\* Every text of the batch that is waited for has been handed over.
Batch(r, texts)  == {k \in DOMAIN texts : k > Len(r.got) /\ k <= Len(r.got) + MaxBatch}
Handed(r, texts) == r.pc = "gather" => \A k \in Batch(r, texts) : r.futs[k] \in {"pending", "ok", "failed", "refused"}
Complete(r, q)   ==
    /\ r.pc = "new" => q.kind = "text"
    /\ r.pc = "keep" => q.kind = "text" /\ Len(r.got) = Len(TextsOf(q))
    /\ r.pc \in {"slot", "scoring"} => q.kind = "rerank"

\* What an answer of 200 says.
Own(a, q) ==
    a.status = 200 =>
        CASE q.kind = "embed" -> a.got = [k \in DOMAIN q.texts |-> Vector(Model, q.texts[k])]
          [] q.kind = "text" -> \E u \in Alike(q.texts[1]) : a.got = <<Vector(Profiles[q.profile].model, u)>>
          [] q.kind = "classify" -> a.got = [k \in DOMAIN q.texts |-> Label(q.texts[k], q.labels)]
          [] OTHER -> TRUE

Honest(r, q) ==
    /\ Shape(r) /\ Reply(r.answer)
    /\ Futures(r, TextsOf(q)) /\ Prefix(r, TextsOf(q)) /\ Handed(r, TextsOf(q))
    /\ Complete(r, q) /\ Own(r.answer, q)

-----------------------------------------------------------------------------
(* and of the server *)

Items == {f \in Requests \X Nat : f[2] \in DOMAIN TextsOf(R(f[1]))}
Batching ==
    /\ queue \in Seq(Items)
    /\ worker = [pc |-> worker.pc, items |-> worker.items, texts |-> worker.texts]
    /\ worker.items \in Seq(Items)
    /\ worker.pc = "computing" => worker.texts = [n \in DOMAIN worker.items |-> Text(worker.items[n])]
\* What is kept is the vector of some text that reads as the key says.
KeptFor(key, vector) ==
    /\ key[3] # Blank
    /\ \E u \in DOMAIN Normal : Normal[u] = key[3] /\ vector = Vector(Profiles[key[1]].model, u)
Kept == \A key \in DOMAIN cache : KeptFor(key, cache[key])

AllHonest == DOMAIN req = Requests /\ \A i \in Requests : Honest(req[i], R(i))

VectorsInv == case \in Cases /\ AllHonest /\ Batching /\ Kept

-----------------------------------------------------------------------------
(* requests and their texts *)

LEMMA RequestsAre ==
    ASSUME case \in Cases, NEW i \in Requests
    PROVE  /\ IsSeq(R(i).texts) /\ IsSeq(R(i).labels)
           /\ R(i).kind = "text" => Len(R(i).texts) = 1 /\ R(i).texts[1] \in DOMAIN Normal
           /\ TextsOf(R(i)) \in Seq(Range(R(i).texts) \cup Range(R(i).labels))
           /\ R(i).kind # "classify" => TextsOf(R(i)) = R(i).texts
           /\ R(i).kind = "classify" => TextsOf(R(i)) = R(i).texts \o R(i).labels
           /\ DOMAIN TextsOf(R(i)) = 1 .. Len(TextsOf(R(i))) /\ Len(TextsOf(R(i))) \in Nat
  <1>1. /\ IsSeq(R(i).texts) /\ IsSeq(R(i).labels)
        /\ R(i).kind = "text" => Len(R(i).texts) = 1 /\ R(i).texts[1] \in DOMAIN Normal
    BY AskedAssumption DEF R, Requests
  <1>2. R(i).texts \in Seq(Range(R(i).texts) \cup Range(R(i).labels)) /\ R(i).labels \in Seq(Range(R(i).texts) \cup Range(R(i).labels))
    BY <1>1 DEF IsSeq
  <1>3. TextsOf(R(i)) \in Seq(Range(R(i).texts) \cup Range(R(i).labels))
    BY <1>2 DEF TextsOf
  <1>4. /\ R(i).kind # "classify" => TextsOf(R(i)) = R(i).texts
        /\ R(i).kind = "classify" => TextsOf(R(i)) = R(i).texts \o R(i).labels
    BY DEF TextsOf
  <1>5. \A S, s : s \in Seq(S) => DOMAIN s = 1 .. Len(s) /\ Len(s) \in Nat
    OBVIOUS
  <1>6. DOMAIN TextsOf(R(i)) = 1 .. Len(TextsOf(R(i))) /\ Len(TextsOf(R(i))) \in Nat
    BY <1>3, <1>5, Zenon
  <1> QED BY <1>1, <1>3, <1>4, <1>6, Zenon

\* A request whose futures get on stays honest.
LEMMA StaysHonest ==
    ASSUME NEW q, NEW r, NEW s, Honest(r, q), Shape(s),
           s.pc \in {r.pc, "gone"}, s.got = r.got, s.answer = r.answer,
           DOMAIN s.futs = DOMAIN r.futs, DOMAIN s.vectors = DOMAIN r.vectors,
           \A k \in DOMAIN TextsOf(q) :
               \/ s.futs[k] = r.futs[k] /\ s.vectors[k] = r.vectors[k]
               \/ s.futs[k] = "failed"
               \/ s.futs[k] = "cancelled" /\ s.pc = "gone"
               \/ s.futs[k] = "ok" /\ s.vectors[k] = True(TextsOf(q))[k]
    PROVE  Honest(s, q)
  <1> DEFINE texts == TextsOf(q)
  <1>1. Futures(s, texts)
    BY DEF Honest, Futures
  <1>2. Prefix(s, texts)
    BY DEF Honest, Prefix
  <1>3. Handed(s, texts)
    BY DEF Honest, Handed, Batch
  <1>4. Complete(s, q) /\ Own(s.answer, q) /\ Reply(s.answer)
    BY DEF Honest, Complete
  <1> QED BY <1>1, <1>2, <1>3, <1>4 DEF Honest

\* Everything pending fails.
LEMMA FailsHonest ==
    ASSUME NEW q, NEW r, Honest(r, q)
    PROVE  Honest([r EXCEPT !.futs = [k \in DOMAIN @ |-> IF @[k] = "pending" THEN "failed" ELSE @[k]]], q)
  <1> DEFINE f == [k \in DOMAIN r.futs |-> IF r.futs[k] = "pending" THEN "failed" ELSE r.futs[k]]
             s == [r EXCEPT !.futs = f]
  <1>1. s = [pc |-> r.pc, got |-> r.got, answer |-> r.answer, futs |-> f, vectors |-> r.vectors]
    BY DEF Honest, Shape
  <1>2. Shape(s) /\ s.pc = r.pc /\ s.got = r.got /\ s.answer = r.answer /\ s.futs = f /\ s.vectors = r.vectors
    BY <1>1 DEF Shape
  <1>3. \A k \in DOMAIN TextsOf(q) : s.futs[k] = r.futs[k] \/ s.futs[k] = "failed"
    BY <1>2 DEF Honest, Futures
  <1>4. DOMAIN s.futs = DOMAIN r.futs
    BY <1>2
  <1> HIDE DEF s
  <1>5. Honest(s, q)
    BY <1>2, <1>3, <1>4, StaysHonest
  <1> QED BY <1>5 DEF s

LEMMA AllFail ==
    ASSUME NEW r, DOMAIN r = Requests, \A i \in Requests : Honest(r[i], R(i))
    PROVE  DOMAIN FailPending(r) = Requests /\ \A i \in Requests : Honest(FailPending(r)[i], R(i))
  <1>1. \A i \in Requests : FailPending(r)[i] =
            [r[i] EXCEPT !.futs = [k \in DOMAIN @ |-> IF @[k] = "pending" THEN "failed" ELSE @[k]]]
    BY DEF FailPending
  <1>2. DOMAIN FailPending(r) = Requests
    BY DEF FailPending
  <1> QED BY <1>1, <1>2, FailsHonest

\* A batch is computed: each future that waits gets the vector of its own text.
LEMMA ComputedHonest ==
    ASSUME VectorsInv, worker.pc = "computing"
    PROVE  LET c == Computed(worker.items, worker.texts)
           IN  DOMAIN c = Requests /\ \A i \in Requests : Honest(c[i], R(i))
  <1> DEFINE items == worker.items
             c == Computed(items, worker.texts)
             hit(i, k) == {n \in DOMAIN items : items[n] = <<i, k>> /\ Pending(items[n])}
  <1>1. DOMAIN c = Requests
    BY DEF Computed
  <1>2. ASSUME NEW i \in Requests PROVE Honest(c[i], R(i))
    <2> DEFINE r == req[i]
               texts == TextsOf(R(i))
               f == [k \in DOMAIN r.futs |-> IF hit(i, k) # {} THEN "ok" ELSE r.futs[k]]
               v == [k \in DOMAIN r.vectors |-> IF hit(i, k) # {} THEN Vector(Model, worker.texts[Min(hit(i, k))]) ELSE r.vectors[k]]
               s == c[i]
    <2>1. Honest(r, R(i))
      BY DEF VectorsInv, AllHonest
    <2>2. s = [r EXCEPT !.futs = f, !.vectors = v]
      BY DEF Computed
    <2>3. \A p, g, w, d, e, a, b :
            [[pc |-> p, got |-> g, answer |-> w, futs |-> d, vectors |-> e] EXCEPT !.futs = a, !.vectors = b] =
                [pc |-> p, got |-> g, answer |-> w, futs |-> a, vectors |-> b]
      <3> TAKE p, g, w, d, e, a, b
      <3>1. [[pc |-> p, got |-> g, answer |-> w, futs |-> d, vectors |-> e] EXCEPT !.futs = a] =
                [pc |-> p, got |-> g, answer |-> w, futs |-> a, vectors |-> e]
        OBVIOUS
      <3>2. [[pc |-> p, got |-> g, answer |-> w, futs |-> a, vectors |-> e] EXCEPT !.vectors = b] =
                [pc |-> p, got |-> g, answer |-> w, futs |-> a, vectors |-> b]
        OBVIOUS
      <3> QED BY <3>1, <3>2
    <2>4. s = [pc |-> r.pc, got |-> r.got, answer |-> r.answer, futs |-> f, vectors |-> v]
      <3> HIDE DEF f, v, s, r
      <3>1. r = [pc |-> r.pc, got |-> r.got, answer |-> r.answer, futs |-> r.futs, vectors |-> r.vectors]
        BY <2>1 DEF Honest, Shape
      <3> QED BY <2>2, <2>3, <3>1, Zenon
    <2>5. Shape(s) /\ s.pc = r.pc /\ s.got = r.got /\ s.answer = r.answer /\ s.futs = f /\ s.vectors = v
      <3> HIDE DEF f, v, s
      <3> QED BY <2>4 DEF Shape
    <2>6. ASSUME NEW k \in DOMAIN texts, hit(i, k) # {}
          PROVE  f[k] = "ok" /\ v[k] = True(texts)[k]
      <3>1. Min(hit(i, k)) \in hit(i, k)
        <4>1. items \in Seq(Items)
          BY DEF VectorsInv, Batching
        <4>2. hit(i, k) \subseteq Nat
          BY <4>1
        <4> HIDE DEF hit
        <4> QED BY <2>6, <4>2, LeastOf
      <3> DEFINE n == Min(hit(i, k))
      <3>2. n \in DOMAIN items /\ items[n] = <<i, k>>
        BY <3>1
      <3>3. worker.texts[n] = Text(<<i, k>>)
        <4> HIDE DEF n
        <4> QED BY <3>2 DEF VectorsInv, Batching
      <3>4. Text(<<i, k>>) = texts[k]
        BY DEF Text
      <3>5. k \in DOMAIN r.futs /\ k \in DOMAIN r.vectors
        BY <2>1 DEF Honest, Futures
      <3>6. v[k] = Vector(Model, worker.texts[n])
        BY <2>6, <3>5
      <3> QED BY <2>6, <3>3, <3>4, <3>5, <3>6 DEF True
    <2>7. ASSUME NEW k \in DOMAIN texts, hit(i, k) = {}
          PROVE  f[k] = r.futs[k] /\ v[k] = r.vectors[k]
      <3>5. k \in DOMAIN r.futs /\ k \in DOMAIN r.vectors
        BY <2>1 DEF Honest, Futures
      <3> QED BY <2>7, <3>5
    <2>8. DOMAIN f = DOMAIN r.futs /\ DOMAIN v = DOMAIN r.vectors
      OBVIOUS
    <2>9. \A k \in DOMAIN TextsOf(R(i)) :
               \/ s.futs[k] = r.futs[k] /\ s.vectors[k] = r.vectors[k]
               \/ s.futs[k] = "ok" /\ s.vectors[k] = True(TextsOf(R(i)))[k]
      <3> HIDE DEF f, v, s, hit
      <3> QED BY <2>5, <2>6, <2>7
    <2> HIDE DEF f, v, s, r, c
    <2>10. Honest(s, R(i))
      BY <2>1, <2>5, <2>8, <2>9, StaysHonest
    <2> QED BY <2>10 DEF s
  <1> QED BY <1>1, <1>2

-----------------------------------------------------------------------------
(* steps of one request *)

LEMMA Frame ==
    ASSUME case' = case
    PROVE  Requests' = Requests /\ (\A i : R(i)' = R(i)) /\ Items' = Items
  BY DEF Requests, R, Items

LEMMA OneMoves ==
    ASSUME VectorsInv, case' = case, NEW i \in Requests, NEW s, Honest(s, R(i)),
           req' = [req EXCEPT ![i] = s]
    PROVE  AllHonest'
  <1>1. DOMAIN req' = Requests /\ \A j \in Requests : req'[j] = IF j = i THEN s ELSE req[j]
    BY DEF VectorsInv, AllHonest
  <1>2. \A j \in Requests : Honest(req'[j], R(j))
    BY <1>1 DEF VectorsInv, AllHonest
  <1> QED BY <1>1, <1>2, Frame DEF AllHonest

LEMMA GivenHonest ==
    ASSUME NEW q, NEW r, Honest(r, q), NEW status, NEW got, Own(Answered(status, got), q)
    PROVE  Honest(Give(r, status, got), q)
  <1> DEFINE a == Answered(status, got)
             s == Give(r, status, got)
  <1>1. s = [pc |-> "answered", got |-> r.got, answer |-> a, futs |-> r.futs, vectors |-> r.vectors]
    <2>1. [[r EXCEPT !.pc = "answered"] EXCEPT !.answer = a] = s
      BY DEF Give
    <2>2. [r EXCEPT !.pc = "answered"] =
            [pc |-> "answered", got |-> r.got, answer |-> r.answer, futs |-> r.futs, vectors |-> r.vectors]
      BY DEF Honest, Shape
    <2> HIDE DEF a, s
    <2>3. [[pc |-> "answered", got |-> r.got, answer |-> r.answer, futs |-> r.futs, vectors |-> r.vectors]
                EXCEPT !.answer = a] =
            [pc |-> "answered", got |-> r.got, answer |-> a, futs |-> r.futs, vectors |-> r.vectors]
      OBVIOUS
    <2> QED BY <2>1, <2>2, <2>3, Zenon
  <1>2. Shape(s) /\ s.pc = "answered" /\ s.got = r.got /\ s.answer = a /\ s.futs = r.futs /\ s.vectors = r.vectors
    BY <1>1 DEF Shape
  <1>3. Reply(a)
    BY DEF Reply, Answered
  <1> HIDE DEF s, a
  <1>4. Futures(s, TextsOf(q)) /\ Prefix(s, TextsOf(q)) /\ Handed(s, TextsOf(q)) /\ Complete(s, q)
    BY <1>2 DEF Honest, Futures, Prefix, Handed, Complete
  <1> QED BY <1>2, <1>3, <1>4 DEF Honest, a, s

LEMMA MovedHonest ==
    ASSUME NEW q, NEW r, Honest(r, q), NEW pc \in {"post", "submit", "slot", "scoring"},
           pc \in {"slot", "scoring"} => q.kind = "rerank"
    PROVE  Honest([r EXCEPT !.pc = pc], q)
  <1> DEFINE s == [r EXCEPT !.pc = pc]
  <1>1. s = [pc |-> pc, got |-> r.got, answer |-> r.answer, futs |-> r.futs, vectors |-> r.vectors]
    BY DEF Honest, Shape
  <1>2. Shape(s) /\ s.pc = pc /\ s.got = r.got /\ s.answer = r.answer /\ s.futs = r.futs /\ s.vectors = r.vectors
    BY <1>1 DEF Shape
  <1> HIDE DEF s
  <1>4. Futures(s, TextsOf(q)) /\ Prefix(s, TextsOf(q)) /\ Handed(s, TextsOf(q)) /\ Complete(s, q)
    BY <1>2 DEF Honest, Futures, Prefix, Handed, Complete
  <1> QED BY <1>2, <1>4 DEF Honest, s

LEMMA AnswerKeeps ==
    ASSUME VectorsInv, case' = case, NEW i \in Requests, NEW status, NEW got,
           Answer(i, status, got), Own(Answered(status, got), R(i))
    PROVE  AllHonest'
  <1>1. Honest(Give(req[i], status, got), R(i))
    BY GivenHonest DEF VectorsInv, AllHonest
  <1>2. req' = [req EXCEPT ![i] = Give(req[i], status, got)]
    BY DEF Answer
  <1> QED BY <1>1, <1>2, OneMoves

LEMMA ErrorKeeps ==
    ASSUME VectorsInv, case' = case, NEW i \in Requests, NEW status, status # 200, Error(i, status)
    PROVE  AllHonest'
  <1>1. \A s : s # 200 => Own(Answered(s, <<>>), R(i))
    BY DEF Own, Answered
  <1> QED BY <1>1, AnswerKeeps DEF Error

LEMMA GoKeeps ==
    ASSUME VectorsInv, case' = case, NEW i \in Requests, NEW pc \in {"post", "submit", "slot", "scoring"}, Go(i, pc),
           pc \in {"slot", "scoring"} => R(i).kind = "rerank"
    PROVE  AllHonest'
  <1>1. Honest([req[i] EXCEPT !.pc = pc], R(i))
    BY MovedHonest DEF VectorsInv, AllHonest
  <1>2. req' = [req EXCEPT ![i] = [req[i] EXCEPT !.pc = pc]]
    BY DEF Go
  <1> QED BY <1>1, <1>2, OneMoves

\* Nothing but the request changes.
LEMMA Unasked ==
    ASSUME VectorsInv, case' = case, AllHonest', UNCHANGED <<queue, worker, cache>>
    PROVE  VectorsInv'
  <1>1. Batching'
    BY Frame DEF VectorsInv, Batching, Text, R
  <1>2. Kept'
    BY DEF VectorsInv, Kept
  <1> QED BY <1>1, <1>2 DEF VectorsInv

\* What was gathered and what the batch has brought are the vectors of the first texts.
LEMMA VectorsTrue ==
    ASSUME VectorsInv, NEW i \in Requests, Stands(i, "gather"), Settled(i),
           {k \in ChunkOf(i) : req[i].futs[k] \in {"failed", "refused"}} = {}
    PROVE  /\ Len(Vectors(i)) \in 0 .. Len(TextsOf(R(i)))
           /\ Vectors(i) = [k \in 1 .. Len(Vectors(i)) |-> True(TextsOf(R(i)))[k]]
  <1> DEFINE r == req[i]
             texts == TextsOf(R(i))
             L == Len(texts)
             g == Len(r.got)
             m == IF g + MaxBatch <= L THEN g + MaxBatch ELSE L
             v == Vectors(i)
  <1>1. Honest(r, R(i)) /\ r.pc = "gather"
    BY DEF VectorsInv, AllHonest, Stands
  <1>2. L \in Nat /\ DOMAIN texts = 1 .. L
    BY RequestsAre DEF VectorsInv
  <1>3. g \in 0 .. L /\ \A k \in 1 .. g : r.got[k] = True(texts)[k]
    <2> HIDE DEF r, texts
    <2>1. Prefix(r, texts)
      BY <1>1 DEF Honest, texts
    <2>2. r.got = [k \in 1 .. g |-> True(texts)[k]] /\ g \in 0 .. L
      BY <2>1 DEF Prefix
    <2> HIDE DEF g, L
    <2> QED BY <2>2
  <1>4. MaxBatch \in Nat \ {0}
    BY LimitsAssumption
  <1>5. m \in g .. L
    BY <1>2, <1>3, <1>4
  <1>6. ChunkOf(i) = (g + 1) .. m
    BY <1>2, <1>3, <1>4 DEF ChunkOf
  <1>7. Cardinality(ChunkOf(i)) = m - g
    <2> HIDE DEF m
    <2>1. g \in Int /\ m \in Int /\ (g + 1 > m => m = g)
      BY <1>3, <1>5
    <2> HIDE DEF g
    <2>2. Cardinality((g + 1) .. m) = IF g + 1 > m THEN 0 ELSE m - (g + 1) + 1
      BY <2>1, FS_Interval
    <2>3. Cardinality((g + 1) .. m) = m - g
      BY <2>1, <2>2
    <2> QED BY <1>6, <2>3
  <1>8. \A k \in ChunkOf(i) : r.vectors[k] = True(texts)[k]
    <2> SUFFICES ASSUME NEW k \in ChunkOf(i) PROVE r.vectors[k] = True(texts)[k]
      OBVIOUS
    <2>1. k \in DOMAIN texts /\ k \in Batch(r, texts)
      BY DEF ChunkOf, Batch
    <2>2. r.futs[k] # "pending" /\ r.futs[k] \notin {"failed", "refused"}
      BY DEF Settled
    <2>3. r.futs[k] = "ok"
      BY <1>1, <2>1, <2>2 DEF Honest, Handed
    <2> QED BY <1>1, <2>1, <2>3 DEF Honest, Futures
  <1>9. v = [k \in 1 .. m |-> IF k <= g THEN r.got[k] ELSE r.vectors[k]]
    <2> HIDE DEF m
    <2>1. g + (m - g) = m
      BY <1>3, <1>5
    <2> QED BY <1>7, <2>1 DEF Vectors
  <1>10. v = [k \in 1 .. m |-> True(texts)[k]]
    <2> HIDE DEF r, m, texts, g, v
    <2>1. \A k \in 1 .. m : (IF k <= g THEN r.got[k] ELSE r.vectors[k]) = True(texts)[k]
      BY <1>3, <1>5, <1>6, <1>8
    <2> QED BY <1>9, <2>1
  <1>11. Len(v) = m
    <2> HIDE DEF m, v
    <2>1. m \in Nat
      BY <1>3, <1>5
    <2> QED BY <1>10, <2>1
  <1> HIDE DEF m, v
  <1>12. Len(v) \in 0 .. L
    BY <1>3, <1>5, <1>11
  <1> QED BY <1>10, <1>11, <1>12 DEF v

LEMMA FirstOfTwo ==
    ASSUME NEW s, NEW t, IsSeq(s), IsSeq(t)
    PROVE  \A k \in DOMAIN s : k \in DOMAIN (s \o t) /\ (s \o t)[k] = s[k]
  BY DEF IsSeq

\* What is true of every text is what a request for vectors or for classes may be told.
LEMMA GatheredOwn ==
    ASSUME case \in Cases, NEW i \in Requests, NEW got,
           got = [k \in 1 .. Len(TextsOf(R(i))) |-> True(TextsOf(R(i)))[k]], R(i).kind # "text"
    PROVE  Own(Answered(200, IF R(i).kind = "classify" THEN Classes(i, got) ELSE got), R(i))
  <1> DEFINE q == R(i)
             a == Answered(200, IF R(i).kind = "classify" THEN Classes(i, got) ELSE got)
  <1>1. /\ IsSeq(q.texts) /\ IsSeq(q.labels)
        /\ q.kind # "classify" => TextsOf(q) = q.texts
        /\ q.kind = "classify" => TextsOf(q) = q.texts \o q.labels
        /\ DOMAIN TextsOf(q) = 1 .. Len(TextsOf(q))
    BY RequestsAre
  <1>2. got = [k \in DOMAIN TextsOf(q) |-> Vector(Model, TextsOf(q)[k])]
    BY <1>1 DEF True
  <1>3. CASE q.kind = "embed"
    <2>1. a.got = [k \in DOMAIN q.texts |-> Vector(Model, q.texts[k])]
      BY <1>1, <1>2, <1>3 DEF Answered
    <2> QED BY <1>3, <2>1 DEF Own
  <1>4. CASE q.kind = "classify"
    <2>1. \A k \in DOMAIN q.texts : k \in DOMAIN TextsOf(q) /\ TextsOf(q)[k] = q.texts[k]
      <3> HIDE DEF q
      <3>3. TextsOf(q) = q.texts \o q.labels
        BY <1>1, <1>4
      <3>4. \A k \in DOMAIN q.texts : k \in DOMAIN (q.texts \o q.labels) /\ (q.texts \o q.labels)[k] = q.texts[k]
        BY <1>1, FirstOfTwo, Zenon
      <3> QED BY <3>3, <3>4, Zenon
    <2>2. \A k \in DOMAIN q.texts : got[k][2] = q.texts[k]
      BY <1>2, <2>1 DEF Vector
    <2>3. a.got = Classes(i, got)
      BY <1>4 DEF Answered
    <2>4. a.got = [k \in DOMAIN q.texts |-> Label(q.texts[k], q.labels)]
      BY <2>2, <2>3 DEF Classes
    <2>5. Own(a, q)
      <3> HIDE DEF a, q
      <3> QED BY <1>4, <2>4 DEF Own
    <2> QED BY <2>5
  <1>5. CASE q.kind \notin {"embed", "text", "classify"}
    BY <1>5 DEF Own
  <1> QED BY <1>3, <1>4, <1>5

LEMMA GatheredKeeps ==
    ASSUME VectorsInv, NEW i \in Requests, Gathered(i)
    PROVE  VectorsInv'
  <1> DEFINE r == req[i]
             texts == TextsOf(R(i))
             v == Vectors(i)
             bad == {k \in ChunkOf(i) : req[i].futs[k] \in {"failed", "refused"}}
  <1>1. case' = case /\ UNCHANGED <<queue, worker, cache>>
    BY DEF Gathered, NoServer, batching
  <1>2. Honest(r, R(i)) /\ r.pc = "gather"
    BY DEF VectorsInv, AllHonest, Gathered, Stands
  <1>3. CASE bad # {}
    <2>1. \E s \in {429, 503} : Error(i, s)
      BY <1>3 DEF Gathered
    <2>2. AllHonest'
      BY <1>1, <2>1, ErrorKeeps
    <2> QED BY <1>1, <2>2, Unasked
  <1>4. CASE bad = {}
    <2>1. Len(v) \in 0 .. Len(texts) /\ v = [k \in 1 .. Len(v) |-> True(texts)[k]]
      BY <1>4, VectorsTrue DEF Gathered
    <2>2. ASSUME NEW pc \in {"submit", "keep"}, req' = [req EXCEPT ![i].pc = pc, ![i].got = v],
                 pc = "keep" => R(i).kind = "text" /\ Len(v) = Len(texts)
          PROVE  AllHonest'
      <3> DEFINE s == [pc |-> pc, got |-> v, answer |-> r.answer, futs |-> r.futs, vectors |-> r.vectors]
      <3>1. req' = [req EXCEPT ![i] = s]
        <4>1. r = [pc |-> r.pc, got |-> r.got, answer |-> r.answer, futs |-> r.futs, vectors |-> r.vectors]
          BY <1>2 DEF Honest, Shape
        <4>2. [r EXCEPT !.pc = pc] = [pc |-> pc, got |-> r.got, answer |-> r.answer, futs |-> r.futs, vectors |-> r.vectors]
          BY <4>1
        <4>3. [[r EXCEPT !.pc = pc] EXCEPT !.got = v] = s
          <5> HIDE DEF v, r
          <5>1. [[pc |-> pc, got |-> r.got, answer |-> r.answer, futs |-> r.futs, vectors |-> r.vectors]
                    EXCEPT !.got = v] = s
            OBVIOUS
          <5> HIDE DEF s
          <5> QED BY <4>2, <5>1, Zenon
        <4>4. req' = [req EXCEPT ![i] = [[req[i] EXCEPT !.pc = pc] EXCEPT !.got = v]]
          <5> HIDE DEF v
          <5> QED BY <2>2 DEF VectorsInv, AllHonest
        <4> QED BY <4>3, <4>4
      <3>2. Honest(s, R(i))
        <4> HIDE DEF v, r
        <4>1. Shape(s) /\ Futures(s, texts) /\ Reply(s.answer)
          BY <1>2 DEF Shape, Honest, Futures
        <4>2. Prefix(s, texts)
          BY <2>1 DEF Prefix
        <4>3. Handed(s, texts) /\ Complete(s, R(i)) /\ Own(s.answer, R(i))
          BY <1>2, <2>2 DEF Handed, Complete, Honest
        <4> QED BY <4>1, <4>2, <4>3 DEF Honest
      <3> HIDE DEF s
      <3> QED BY <1>1, <3>1, <3>2, OneMoves
    <2>3. CASE Len(v) < Len(texts)
      <3>1. req' = [req EXCEPT ![i].pc = "submit", ![i].got = v]
        BY <1>4, <2>3 DEF Gathered
      <3>2. AllHonest'
        BY <2>2, <3>1
      <3> QED BY <1>1, <3>2, Unasked
    <2>4. CASE ~(Len(v) < Len(texts))
      <3>1. Len(v) = Len(texts)
        <4>1. Len(texts) \in Nat
          BY RequestsAre DEF VectorsInv
        <4> HIDE DEF v, texts
        <4> QED BY <2>1, <2>4, <4>1
      <3>2. CASE R(i).kind = "text"
        <4>1. req' = [req EXCEPT ![i].pc = "keep", ![i].got = v]
          BY <1>4, <2>4, <3>2 DEF Gathered
        <4>2. AllHonest'
          BY <2>2, <3>1, <3>2, <4>1
        <4> QED BY <1>1, <4>2, Unasked
      <3>3. CASE R(i).kind # "text"
        <4> DEFINE got == IF R(i).kind = "classify" THEN Classes(i, v) ELSE v
        <4>1. Answer(i, 200, got)
          BY <1>4, <2>4, <3>3 DEF Gathered
        <4>2. Own(Answered(200, got), R(i))
          BY <2>1, <3>1, <3>3, GatheredOwn DEF VectorsInv
        <4> HIDE DEF got
        <4>3. AllHonest'
          BY <1>1, <4>1, <4>2, AnswerKeeps
        <4> QED BY <1>1, <4>3, Unasked
      <3> QED BY <3>2, <3>3
    <2> QED BY <2>3, <2>4
  <1> QED BY <1>3, <1>4

\* What the callers keep is a vector of the profile's model, of a text that reads alike
\* (embedding.py:114).
LEMMA CacheGetKeeps ==
    ASSUME VectorsInv, NEW i \in Requests, CacheGet(i)
    PROVE  VectorsInv'
  <1> DEFINE key == CacheKey(R(i))
  <1>1. case' = case /\ UNCHANGED <<queue, worker, cache>>
    BY DEF CacheGet, NoServer, batching
  <1>2. CASE key \in DOMAIN cache /\ Answer(i, 200, <<cache[key]>>)
    <2>1. R(i).kind = "text"
      BY DEF VectorsInv, AllHonest, Honest, Complete, CacheGet, Stands
    <2>3. KeptFor(key, cache[key])
      BY <1>2 DEF VectorsInv, Kept
    <2>4. key[1] = R(i).profile /\ key[3] = Normal[R(i).texts[1]]
      BY DEF CacheKey
    <2>5. \E u \in Alike(R(i).texts[1]) : <<cache[key]>> = <<Vector(Profiles[R(i).profile].model, u)>>
      <3> HIDE DEF key
      <3> QED BY <2>3, <2>4 DEF KeptFor, Alike
    <2>6. Own(Answered(200, <<cache[key]>>), R(i))
      <3> HIDE DEF key
      <3>1. \A g : Answered(200, g).got = g
        BY DEF Answered
      <3> QED BY <2>1, <2>5, <3>1 DEF Own
    <2>7. AllHonest'
      BY <1>1, <1>2, <2>6, AnswerKeeps
    <2> QED BY <1>1, <2>7, Unasked
  <1>3. CASE Go(i, "post")
    <2>1. AllHonest'
      BY <1>1, <1>3, GoKeeps
    <2> QED BY <1>1, <2>1, Unasked
  <1> QED BY <1>2, <1>3 DEF CacheGet

LEMMA CacheSetKeeps ==
    ASSUME VectorsInv, NEW i \in Requests, CacheSet(i)
    PROVE  VectorsInv'
  <1> DEFINE key == CacheKey(R(i))
             r == req[i]
             q == R(i)
  <1>1. case' = case /\ UNCHANGED <<queue, worker>>
    BY DEF CacheSet, NoServer, batching
  <1>2. Honest(r, q) /\ q.kind = "text" /\ Len(r.got) = Len(TextsOf(q))
    BY DEF VectorsInv, AllHonest, Honest, Complete, CacheSet, Stands
  <1>3. TextsOf(q) = q.texts /\ Len(q.texts) = 1 /\ DOMAIN q.texts = 1 .. 1
    <2>1. TextsOf(q) = q.texts /\ Len(q.texts) = 1
      BY <1>2, RequestsAre DEF VectorsInv
    <2>2. DOMAIN TextsOf(q) = 1 .. Len(TextsOf(q))
      BY RequestsAre DEF VectorsInv
    <2> QED BY <2>1, <2>2
  <1>4. r.got = [k \in 1 .. 1 |-> Vector(Model, q.texts[k])]
    <2>1. r.got = [k \in 1 .. Len(r.got) |-> True(TextsOf(q))[k]]
      BY <1>2 DEF Honest, Prefix
    <2>2. r.got = [k \in 1 .. 1 |-> True(q.texts)[k]]
      BY <1>2, <1>3, <2>1
    <2> HIDE DEF q, r
    <2>3. \A k \in 1 .. 1 : True(q.texts)[k] = Vector(Model, q.texts[k])
      BY <1>3 DEF True
    <2> QED BY <2>2, <2>3
  <1>5. r.got[1] = Vector(Model, q.texts[1])
    <2> HIDE DEF q, r
    <2> QED BY <1>4
  <1>6. CASE ~ValidEmbedding(ProfileOf(i), r.got[1])
    <2>1. Error(i, 500) /\ UNCHANGED cache
      BY <1>6 DEF CacheSet
    <2>2. AllHonest'
      BY <1>1, <2>1, ErrorKeeps
    <2> QED BY <1>1, <2>1, <2>2, Unasked
  <1>7. CASE ValidEmbedding(ProfileOf(i), r.got[1])
    <2>1. Profiles[q.profile].model = Model
      BY <1>5, <1>7 DEF ValidEmbedding, ProfileOf, Vector
    <2>2. Own(Answered(200, r.got), q)
      <3>1. q.texts[1] \in DOMAIN Normal
        BY <1>2, RequestsAre DEF VectorsInv
      <3> HIDE DEF q, r
      <3>2. q.texts[1] \in Alike(q.texts[1])
        BY <3>1 DEF Alike
      <3>3. \A x : [k \in 1 .. 1 |-> x[k]] = <<x[1]>>
        OBVIOUS
      <3>4. r.got = <<Vector(Profiles[q.profile].model, q.texts[1])>>
        BY <1>4, <2>1, <3>3
      <3>5. \A g : Answered(200, g).got = g
        BY DEF Answered
      <3> QED BY <1>2, <3>2, <3>4, <3>5 DEF Own
    <2>3. Answer(i, 200, r.got)
      BY <1>7 DEF CacheSet
    <2>4. AllHonest'
      BY <1>1, <2>2, <2>3, AnswerKeeps
    <2>5. \/ cache' = cache
          \/ HasKey(q) /\ cache' = [k \in DOMAIN cache \cup {key} |-> IF k = key THEN r.got[1] ELSE cache[k]]
      BY <1>7 DEF CacheSet
    <2>6. key[1] = q.profile /\ key[3] = Normal[q.texts[1]] /\ q.texts[1] \in DOMAIN Normal
      BY <1>2, RequestsAre DEF CacheKey, VectorsInv
    <2>7. Kept'
      <3> HIDE DEF key, q, r
      <3>1. HasKey(q) => KeptFor(key, r.got[1])
        BY <1>5, <2>1, <2>6 DEF KeptFor, HasKey
      <3>2. \A k \in DOMAIN cache : KeptFor(k, cache[k])
        BY DEF Kept, VectorsInv
      <3>3. Kept' <=> \A k \in DOMAIN cache' : KeptFor(k, cache'[k])
        BY DEF Kept, KeptFor
      <3> QED BY <2>5, <3>1, <3>2, <3>3
    <2>8. Batching'
      BY <1>1, Frame DEF VectorsInv, Batching, Text, R
    <2> QED BY <1>1, <2>4, <2>7, <2>8 DEF VectorsInv
  <1> QED BY <1>6, <1>7

\* Of a batch, as many of the first are queued as there is room for.
LEMMA RoomFor ==
    ASSUME NEW low \in Nat, NEW L \in Nat, NEW batch \in Nat, NEW room \in Int
    PROVE  LET in_ == {k \in {k \in 1 .. L : k > low /\ k <= low + batch} : k - low <= room}
           IN  /\ Cardinality(in_) \in Nat
               /\ \A n \in 1 .. Cardinality(in_) : low + n \in 1 .. L
  <1> DEFINE in_ == {k \in {k \in 1 .. L : k > low /\ k <= low + batch} : k - low <= room}
             m1 == IF low + batch <= L THEN low + batch ELSE L
             m  == IF low + room <= m1 THEN low + room ELSE m1
  <1>1. m \in Int /\ m <= L
    OBVIOUS
  <1>2. in_ = (low + 1) .. m
    OBVIOUS
  <1> HIDE DEF m, in_
  <1>3. Cardinality((low + 1) .. m) = IF low + 1 > m THEN 0 ELSE m - (low + 1) + 1
    BY <1>1, FS_Interval
  <1>4. Cardinality(in_) = IF low >= m THEN 0 ELSE m - low
    BY <1>1, <1>2, <1>3
  <1>5. Cardinality(in_) \in Nat /\ \A n \in 1 .. Cardinality(in_) : low + n \in 1 .. L
    BY <1>1, <1>4
  <1> QED BY <1>5 DEF in_

LEMMA SubmitKeeps ==
    ASSUME VectorsInv, NEW i \in Requests, Submit(i)
    PROVE  VectorsInv'
  <1> DEFINE r == req[i]
             texts == TextsOf(R(i))
             ks == ChunkOf(i)
             low == Len(r.got)
             room == MaxQueue - Len(queue)
             in_ == {k \in ks : k - low <= room}
             f == [k \in DOMAIN r.futs |-> IF k \in in_ THEN "pending" ELSE IF k \in ks THEN "refused" ELSE r.futs[k]]
             s == [pc |-> "gather", got |-> r.got, answer |-> r.answer, futs |-> f, vectors |-> r.vectors]
             more == [n \in 1 .. Cardinality(in_) |-> <<i, low + n>>]
  <1>1. case' = case /\ UNCHANGED cache /\ worker' \in {worker, Waiting} /\ queue' = queue \o more
    BY DEF Submit, StartedWorker
  <1>2. Honest(r, R(i))
    BY DEF VectorsInv, AllHonest
  <1>3. req' = [req EXCEPT ![i] = s]
    <2>1. req' = [req EXCEPT ![i].pc = "gather", ![i].futs = f]
      BY DEF Submit
    <2>2. r = [pc |-> r.pc, got |-> r.got, answer |-> r.answer, futs |-> r.futs, vectors |-> r.vectors]
      BY <1>2 DEF Honest, Shape
    <2>3. [r EXCEPT !.pc = "gather"] = [pc |-> "gather", got |-> r.got, answer |-> r.answer, futs |-> r.futs, vectors |-> r.vectors]
      BY <2>2
    <2>4. [[r EXCEPT !.pc = "gather"] EXCEPT !.futs = f] = s
      <3> HIDE DEF f, r
      <3>1. [[pc |-> "gather", got |-> r.got, answer |-> r.answer, futs |-> r.futs, vectors |-> r.vectors]
                EXCEPT !.futs = f] = s
        OBVIOUS
      <3> HIDE DEF s
      <3> QED BY <2>3, <3>1, Zenon
    <2>5. req' = [req EXCEPT ![i] = [[req[i] EXCEPT !.pc = "gather"] EXCEPT !.futs = f]]
      <3> HIDE DEF f
      <3> QED BY <2>1 DEF VectorsInv, AllHonest
    <2> HIDE DEF f, s
    <2> QED BY <2>4, <2>5
  <1>4. Honest(s, R(i))
    <2> DEFINE g == f
    <2>1. DOMAIN f = DOMAIN texts
      BY <1>2 DEF Honest, Futures
    <2>2. \A k \in DOMAIN texts : f[k] = "ok" => r.futs[k] = "ok"
      BY <2>1
    <2>3. \A k \in DOMAIN texts : k \in ks => f[k] \in {"pending", "refused"}
      BY <2>1
    <2>4. ks = Batch(r, texts)
      BY DEF ChunkOf, Batch
    <2> HIDE DEF f, ks, r, texts
    <2>5. Shape(s) /\ Futures(s, texts) /\ Reply(s.answer)
      BY <1>2, <2>1, <2>2 DEF Shape, Honest, Futures, texts
    <2>6. Prefix(s, texts) /\ Complete(s, R(i)) /\ Own(s.answer, R(i))
      BY <1>2 DEF Prefix, Complete, Honest, texts
    <2>7. Handed(s, texts)
      BY <2>3, <2>4 DEF Handed, Batch
    <2> QED BY <2>5, <2>6, <2>7 DEF Honest, texts
  <1>5. AllHonest'
    <2> HIDE DEF s
    <2> QED BY <1>1, <1>3, <1>4, OneMoves
  <1>6. more \in Seq(Items)
    <2>1. DOMAIN texts = 1 .. Len(texts) /\ Len(texts) \in Nat
      BY RequestsAre DEF VectorsInv
    <2>2. low \in Nat
      BY <1>2, <2>1 DEF Honest, Prefix
    <2>3. room \in Int
      BY LimitsAssumption DEF VectorsInv, Batching
    <2>4. MaxBatch \in Nat
      BY LimitsAssumption
    <2>5. in_ = {k \in {k \in 1 .. Len(texts) : k > low /\ k <= low + MaxBatch} : k - low <= room}
      BY <2>1 DEF ChunkOf
    <2>6. Cardinality(in_) \in Nat /\ \A n \in 1 .. Cardinality(in_) : low + n \in 1 .. Len(texts)
      <3> HIDE DEF low, room, texts, in_
      <3> QED BY <2>1, <2>2, <2>3, <2>4, <2>5, RoomFor
    <2>7. \A k \in 1 .. Len(texts) : <<i, k>> \in Items
      BY <2>1 DEF Items
    <2> HIDE DEF low, room, texts, in_
    <2> QED BY <2>6, <2>7
  <1>7. Batching'
    <2>1. queue' \in Seq(Items)
      <3> HIDE DEF more
      <3> QED BY <1>1, <1>6 DEF VectorsInv, Batching
    <2>2. CASE worker' = worker
      BY <1>1, <2>1, <2>2, Frame DEF VectorsInv, Batching, Text, R
    <2>3. CASE worker' = Waiting
      BY <1>1, <2>1, <2>3, Frame DEF Batching, Waiting
    <2> QED BY <1>1, <2>2, <2>3
  <1>8. Kept'
    BY <1>1 DEF VectorsInv, Kept
  <1> QED BY <1>1, <1>5, <1>7, <1>8 DEF VectorsInv

-----------------------------------------------------------------------------
(* steps of the worker *)

\* The worker has what it may have.
LEMMA WorkerKeeps ==
    ASSUME VectorsInv, case' = case, AllHonest', cache' = cache,
           queue' \in Seq(Items),
           worker' = [pc |-> worker'.pc, items |-> worker'.items, texts |-> worker'.texts],
           worker'.items \in Seq(Items),
           worker'.pc = "computing" => worker'.texts = [n \in DOMAIN worker'.items |-> Text(worker'.items[n])]
    PROVE  VectorsInv'
  <1>2. \A f : Text(f)' = Text(f)
    BY DEF Text, R
  <1>3. Batching'
    BY <1>2, Frame DEF Batching
  <1>4. Kept'
    BY DEF VectorsInv, Kept
  <1> QED BY <1>3, <1>4 DEF VectorsInv

LEMMA NoRequest ==
    ASSUME VectorsInv, case' = case, req' = req PROVE AllHonest'
  BY Frame DEF VectorsInv, AllHonest

LEMMA TakeKeeps ==
    ASSUME VectorsInv, Take PROVE VectorsInv'
  <1>1. case' = case /\ req' = req /\ cache' = cache
    BY DEF Take, NotAsked
  <1>2. queue' \in Seq(Items) /\ <<Head(queue)>> \in Seq(Items)
    BY DEF Take, VectorsInv, Batching
  <1>3. worker' = [pc |-> "collecting", items |-> <<Head(queue)>>, texts |-> worker.texts]
    <2>1. [worker EXCEPT !.pc = "collecting"] = [pc |-> "collecting", items |-> worker.items, texts |-> worker.texts]
      BY DEF VectorsInv, Batching
    <2>2. worker' = [[worker EXCEPT !.pc = "collecting"] EXCEPT !.items = <<Head(queue)>>]
      BY DEF Take
    <2> QED BY <2>1, <2>2
  <1>4. AllHonest'
    BY <1>1, NoRequest
  <1> QED BY <1>1, <1>2, <1>3, <1>4, WorkerKeeps

LEMMA CollectKeeps ==
    ASSUME VectorsInv, Collect PROVE VectorsInv'
  <1>1. case' = case /\ req' = req /\ cache' = cache
    BY DEF Collect, NotAsked
  <1>2. queue' \in Seq(Items) /\ Append(worker.items, Head(queue)) \in Seq(Items)
    BY DEF Collect, VectorsInv, Batching
  <1>3. worker' = [pc |-> worker.pc, items |-> Append(worker.items, Head(queue)), texts |-> worker.texts]
    BY DEF Collect, VectorsInv, Batching
  <1>4. worker.pc # "computing"
    BY DEF Collect
  <1>5. AllHonest'
    BY <1>1, NoRequest
  <1> QED BY <1>1, <1>2, <1>3, <1>4, <1>5, WorkerKeeps

\* Those whose request is still there keep their order, and their texts go with them.
LEMMA FormKeeps ==
    ASSUME VectorsInv, Form PROVE VectorsInv'
  <1> DEFINE there == {n \in DOMAIN worker.items : Pending(worker.items[n])}
  <1>1. case' = case /\ req' = req /\ cache' = cache /\ queue' = queue
    BY DEF Form, NotAsked
  <1>2. queue' \in Seq(Items)
    BY <1>1 DEF VectorsInv, Batching
  <1>3. PICK live \in Picked(worker.items, there) :
            worker' = IF there = {} THEN Waiting
                      ELSE [pc |-> "computing", items |-> live, texts |-> BatchTexts(worker.items, live)]
    BY DEF Form
  <1>4. live \in Seq(Items)
    <2>1. worker.items \in Seq(Items)
      BY DEF VectorsInv, Batching
    <2>2. IsSeq(worker.items) /\ \A i \in DOMAIN worker.items : worker.items[i] \in Items
      BY <2>1 DEF IsSeq, Range
    <2>3. there \subseteq DOMAIN worker.items
      OBVIOUS
    <2> HIDE DEF there
    <2>4. IsSeq(live) /\ \A n \in DOMAIN live : \E i \in DOMAIN worker.items : live[n] = worker.items[i]
      BY <2>2, <2>3, PickedIs
    <2>5. \A n \in DOMAIN live : live[n] \in Items
      BY <2>2, <2>4
    <2> QED BY <2>4, <2>5 DEF IsSeq
  <1>7. AllHonest'
    BY <1>1, NoRequest
  <1>5. CASE there = {}
    <2>1. worker' = [pc |-> "waiting", items |-> <<>>, texts |-> <<>>]
      BY <1>3, <1>5 DEF Waiting
    <2>2. <<>> \in Seq(Items)
      OBVIOUS
    <2> QED BY <1>1, <1>2, <1>7, <2>1, <2>2, WorkerKeeps
  <1>6. CASE there # {}
    <2>1. worker' = [pc |-> "computing", items |-> live, texts |-> BatchTexts(worker.items, live)]
      BY <1>3, <1>6
    <2>2. BatchTexts(worker.items, live) = [n \in DOMAIN live |-> Text(live[n])]
      BY DEF BatchTexts
    <2> QED BY <1>1, <1>2, <1>4, <1>7, <2>1, <2>2, WorkerKeeps
  <1> QED BY <1>5, <1>6

LEMMA ComputeKeeps ==
    ASSUME VectorsInv, Compute PROVE VectorsInv'
  <1> DEFINE c == Computed(worker.items, worker.texts)
  <1>1. case' = case /\ cache' = cache /\ queue' = queue /\ req' \in {c, FailPending(c)} /\ worker' \in {Ended, Waiting}
    BY DEF Compute, NotAsked
  <1>2. DOMAIN c = Requests /\ \A i \in Requests : Honest(c[i], R(i))
    BY ComputedHonest DEF Compute
  <1> HIDE DEF c
  <1>3. DOMAIN FailPending(c) = Requests /\ \A i \in Requests : Honest(FailPending(c)[i], R(i))
    BY <1>2, AllFail
  <1>4. AllHonest'
    BY <1>1, <1>2, <1>3, Frame DEF AllHonest
  <1>5. /\ worker' = [pc |-> worker'.pc, items |-> worker'.items, texts |-> worker'.texts]
        /\ worker'.items = <<>> /\ worker'.pc # "computing"
    BY <1>1 DEF Ended, Waiting
  <1>6. queue' \in Seq(Items) /\ <<>> \in Seq(Items)
    BY <1>1 DEF VectorsInv, Batching
  <1> QED BY <1>1, <1>4, <1>5, <1>6, WorkerKeeps

\* Whoever fails what is pending leaves an empty queue.
LEMMA FailAllKeeps ==
    ASSUME VectorsInv, case' = case, cache' = cache, FailAll, worker' \in {worker, Ended}
    PROVE  VectorsInv'
  <1>1. AllHonest'
    BY AllFail, Frame DEF FailAll, VectorsInv, AllHonest
  <1>2. queue' \in Seq(Items) /\ <<>> \in Seq(Items)
    BY DEF FailAll
  <1>3. CASE worker' = worker
    BY <1>1, <1>2, <1>3, WorkerKeeps DEF VectorsInv, Batching
  <1>4. CASE worker' = Ended
    BY <1>1, <1>2, <1>4, WorkerKeeps DEF Ended
  <1> QED BY <1>3, <1>4

LEMMA CancelledKeeps ==
    ASSUME VectorsInv, NEW i \in Requests, Cancelled(i) PROVE VectorsInv'
  <1> DEFINE r == req[i]
             f == [k \in DOMAIN r.futs |-> IF r.futs[k] = "pending" THEN "cancelled" ELSE r.futs[k]]
             s == [pc |-> "gone", got |-> r.got, answer |-> r.answer, futs |-> f, vectors |-> r.vectors]
  <1>1. case' = case /\ UNCHANGED <<queue, worker, cache>>
    BY DEF Cancelled, NotBatching, batching
  <1>2. Honest(r, R(i))
    BY DEF VectorsInv, AllHonest
  <1>3. req' = [req EXCEPT ![i] = s]
    <2>1. req' = [req EXCEPT ![i].pc = "gone", ![i].futs = f]
      BY DEF Cancelled
    <2>2. r = [pc |-> r.pc, got |-> r.got, answer |-> r.answer, futs |-> r.futs, vectors |-> r.vectors]
      BY <1>2 DEF Honest, Shape
    <2>3. [r EXCEPT !.pc = "gone"] = [pc |-> "gone", got |-> r.got, answer |-> r.answer, futs |-> r.futs, vectors |-> r.vectors]
      BY <2>2
    <2>4. [[r EXCEPT !.pc = "gone"] EXCEPT !.futs = f] = s
      <3> HIDE DEF f, r
      <3>1. [[pc |-> "gone", got |-> r.got, answer |-> r.answer, futs |-> r.futs, vectors |-> r.vectors]
                EXCEPT !.futs = f] = s
        OBVIOUS
      <3> HIDE DEF s
      <3> QED BY <2>3, <3>1, Zenon
    <2>5. req' = [req EXCEPT ![i] = [[req[i] EXCEPT !.pc = "gone"] EXCEPT !.futs = f]]
      <3> HIDE DEF f
      <3> QED BY <2>1 DEF VectorsInv, AllHonest
    <2> HIDE DEF f, s
    <2> QED BY <2>4, <2>5
  <1>4. Honest(s, R(i))
    <2>1. Shape(s) /\ s.pc = "gone" /\ s.got = r.got /\ s.answer = r.answer /\ s.futs = f /\ s.vectors = r.vectors
      BY DEF Shape
    <2>2. DOMAIN s.futs = DOMAIN r.futs
      BY <2>1
    <2>3. \A k \in DOMAIN TextsOf(R(i)) : s.futs[k] = r.futs[k] \/ s.futs[k] = "cancelled"
      BY <1>2, <2>1 DEF Honest, Futures
    <2> HIDE DEF s, r
    <2> QED BY <1>2, <2>1, <2>2, <2>3, StaysHonest
  <1>5. AllHonest'
    <2> HIDE DEF s
    <2> QED BY <1>1, <1>3, <1>4, OneMoves
  <1> QED BY <1>1, <1>5, Unasked

LEMMA ArriveKeeps ==
    ASSUME VectorsInv, NEW i \in Requests, Arrive(i) PROVE VectorsInv'
  <1>1. case' = case /\ cache' = cache /\ queue' = queue /\ worker' \in {worker, Waiting}
    BY DEF Arrive, Error, StartedWorker
  <1>2. \/ R(i).kind = "ready" /\ \E s \in {200, 503} : Answer(i, s, StatusPayload)
        \/ R(i).kind = "rerank" /\ Answer(i, 200, <<>>)
        \/ \E s \in {Validated(R(i)), 503, 429} : s # 200 /\ Error(i, s)
        \/ \E pc \in {"submit", "slot"} : Go(i, pc) /\ (pc = "slot" => R(i).kind = "rerank")
    BY DEF Arrive, ReserveRerank
  <1>3. AllHonest'
    <2>1. ASSUME NEW s, NEW g, R(i).kind \in {"ready", "rerank"} PROVE Own(Answered(s, g), R(i))
      BY <2>1 DEF Own
    <2>2. CASE R(i).kind \in {"ready", "rerank"} /\ \E s \in {200, 503} : \E g \in {StatusPayload, <<>>} : Answer(i, s, g)
      BY <1>1, <2>1, <2>2, AnswerKeeps
    <2>3. CASE \E s \in {Validated(R(i)), 503, 429} : s # 200 /\ Error(i, s)
      BY <1>1, <2>3, ErrorKeeps
    <2>4. CASE \E pc \in {"submit", "slot"} : Go(i, pc) /\ (pc = "slot" => R(i).kind = "rerank")
      BY <1>1, <2>4, GoKeeps
    <2> QED BY <1>2, <2>2, <2>3, <2>4
  <1>4. CASE worker' = worker
    BY <1>1, <1>3, <1>4, Unasked
  <1>5. CASE worker' = Waiting
    <2>1. worker' = [pc |-> worker'.pc, items |-> worker'.items, texts |-> worker'.texts] /\ worker'.items = <<>>
          /\ worker'.pc # "computing"
      BY <1>5 DEF Waiting
    <2>2. queue' \in Seq(Items) /\ <<>> \in Seq(Items)
      BY <1>1 DEF VectorsInv, Batching
    <2> QED BY <1>1, <1>3, <2>1, <2>2, WorkerKeeps
  <1> QED BY <1>1, <1>4, <1>5

LEMMA RerankKeeps ==
    ASSUME VectorsInv, NEW i \in Requests, Acquire(i) \/ Score(i) PROVE VectorsInv'
  <1>1. case' = case /\ UNCHANGED <<queue, worker, cache>>
    BY DEF Acquire, Score, NotBatching, batching
  <1>4. R(i).kind = "rerank"
    BY DEF VectorsInv, AllHonest, Honest, Complete, Acquire, Score, Stands
  <1>2. CASE Acquire(i)
    <2>1. Error(i, 503) \/ Go(i, "scoring")
      BY <1>2 DEF Acquire
    <2>2. AllHonest'
      BY <1>1, <1>4, <2>1, ErrorKeeps, GoKeeps
    <2> QED BY <1>1, <2>2, Unasked
  <1>3. CASE Score(i)
    <2>1. Own(Answered(200, Ranked(R(i).texts, R(i).top)), R(i))
      BY <1>4 DEF Own
    <2>2. AllHonest'
      BY <1>1, <1>3, <2>1, ErrorKeeps, AnswerKeeps DEF Score
    <2> QED BY <1>1, <2>2, Unasked
  <1> QED BY <1>2, <1>3

\* Steps of the engine touch no request but to fail what is pending.
LEMMA EngineKeeps ==
    ASSUME VectorsInv, WarmUp \/ ComputeFails \/ BeginStop \/ Dies \/ Stop PROVE VectorsInv'
  <1>1. case' = case /\ cache' = cache
    BY DEF WarmUp, ComputeFails, BeginStop, Dies, Stop, StopFails, StopQueue, StopRerank, NotAsked
  <1>2. CASE FailAll /\ worker' \in {worker, Ended}
    BY <1>1, <1>2, FailAllKeeps
  <1>3. CASE req' = req /\ queue' \in {queue, <<>>} /\ worker' \in {worker, Ended}
    <2>1. AllHonest'
      BY <1>1, <1>3, NoRequest
    <2>2. queue' \in Seq(Items) /\ <<>> \in Seq(Items)
      <3>1. <<>> \in Seq(Items)
        OBVIOUS
      <3>2. queue \in Seq(Items)
        BY DEF VectorsInv, Batching
      <3> QED BY <1>3, <3>1, <3>2
    <2>3. CASE worker' = worker
      BY <1>1, <2>1, <2>2, <2>3, WorkerKeeps DEF VectorsInv, Batching
    <2>4. CASE worker' = Ended
      <3>1. /\ worker' = [pc |-> worker'.pc, items |-> worker'.items, texts |-> worker'.texts]
            /\ worker'.items = <<>> /\ worker'.pc # "computing"
        BY <2>4 DEF Ended
      <3> QED BY <1>1, <2>1, <2>2, <3>1, WorkerKeeps
    <2> QED BY <1>3, <2>3, <2>4
  <1>4. \/ FailAll /\ worker' \in {worker, Ended}
        \/ req' = req /\ queue' \in {queue, <<>>} /\ worker' \in {worker, Ended}
    <2>1. CASE WarmUp
      BY <2>1 DEF WarmUp
    <2>2. CASE ComputeFails
      BY <2>2 DEF ComputeFails
    <2>3. CASE BeginStop
      BY <2>3 DEF BeginStop
    <2>4. CASE Dies
      BY <2>4 DEF Dies
    <2>5. CASE Stop
      BY <2>5 DEF Stop, StopFails, StopQueue, StopRerank, batching
    <2> QED BY <2>1, <2>2, <2>3, <2>4, <2>5
  <1> QED BY <1>2, <1>3, <1>4

LEMMA VectorsSteps ==
    ASSUME VectorsInv, [ServerNext]_serverVars PROVE VectorsInv'
  <1>1. CASE UNCHANGED serverVars
    <2>1. case' = case /\ req' = req /\ UNCHANGED <<queue, worker, cache>>
      BY <1>1 DEF serverVars, batching
    <2> QED BY <2>1, NoRequest, Unasked
  <1>2. CASE WarmUp \/ ComputeFails \/ BeginStop \/ Dies \/ Stop
    BY <1>2, EngineKeeps
  <1>3. CASE Take \/ Collect \/ Form \/ Compute
    BY <1>3, TakeKeeps, CollectKeeps, FormKeeps, ComputeKeeps
  <1>4. CASE \E i \in Requests : Handle(i) \/ Cancelled(i)
    BY <1>4, CacheGetKeeps, CacheSetKeeps, ArriveKeeps, SubmitKeeps, GatheredKeeps, RerankKeeps, CancelledKeeps
       DEF Handle, EmbedText
  <1> QED BY <1>1, <1>2, <1>3, <1>4 DEF ServerNext, Serve

LEMMA VectorsBegin == ServerInit => VectorsInv
  <1> SUFFICES ASSUME ServerInit PROVE VectorsInv
    OBVIOUS
  <1>1. case \in Cases /\ cache = <<>> /\ queue = <<>> /\ worker = Ended
    BY DEF ServerInit
  <1>2. ASSUME NEW i \in Requests PROVE Honest(req[i], R(i))
    <2> DEFINE r == req[i]
               texts == TextsOf(R(i))
    <2>1. r = [pc |-> IF R(i).kind = "text" THEN "new" ELSE "post", got |-> <<>>, answer |-> Answered(0, <<>>),
               futs |-> [k \in DOMAIN texts |-> Unset], vectors |-> [k \in DOMAIN texts |-> <<>>]]
      BY DEF ServerInit, Asking
    <2>2. /\ r.pc = (IF R(i).kind = "text" THEN "new" ELSE "post") /\ r.got = <<>> /\ r.answer = Answered(0, <<>>)
          /\ r.futs = [k \in DOMAIN texts |-> Unset] /\ r.vectors = [k \in DOMAIN texts |-> <<>>]
      <3> HIDE DEF r, texts
      <3> QED BY <2>1
    <2>3. Shape(r) /\ Reply(r.answer)
      <3> HIDE DEF r, texts
      <3> QED BY <2>1, <2>2 DEF Shape, Reply, Answered
    <2>4. Len(texts) \in Nat
      BY <1>1, RequestsAre
    <2> HIDE DEF r, texts
    <2>5. Futures(r, texts)
      BY <2>2 DEF Futures, Unset
    <2>6. Prefix(r, texts)
      <3>1. \A f : <<>> = [k \in 1 .. 0 |-> f[k]]
        OBVIOUS
      <3>2. Len(r.got) = 0
        BY <2>2
      <3> QED BY <2>2, <2>4, <3>1, <3>2 DEF Prefix
    <2>7. Handed(r, texts) /\ Complete(r, R(i)) /\ Own(r.answer, R(i))
      BY <2>2 DEF Handed, Complete, Own, Answered
    <2> QED BY <2>3, <2>5, <2>6, <2>7 DEF Honest, r, texts
  <1>3. AllHonest
    BY <1>2 DEF AllHonest, ServerInit
  <1>4. Batching
    BY <1>1 DEF Batching, Ended
  <1>5. Kept
    BY <1>1 DEF Kept
  <1> QED BY <1>1, <1>3, <1>4, <1>5 DEF VectorsInv

-----------------------------------------------------------------------------
(* the slots of the reranker *)

Standing(pc)  == {i \in Requests : Stands(i, pc)}
Slots   == rerank = [pending |-> rerank.pending, active |-> rerank.active, free |-> rerank.free]
           /\ rerank.pending \in Int /\ rerank.active \in Int /\ rerank.free \in Int
SlotsInv == VectorsInv /\ Slots /\ SlotsCounted

LEMMA FiniteAt ==
    ASSUME case \in Cases, NEW pc
    PROVE  IsFiniteSet(Standing(pc)) /\ Cardinality(Standing(pc)) \in Nat
  <1>1. Requests = 1 .. Len(case.asked) /\ Len(case.asked) \in Nat
    BY AskedAssumption DEF Requests, IsSeq
  <1>2. IsFiniteSet(Requests)
    BY <1>1, FS_Interval
  <1>3. Standing(pc) \subseteq Requests
    BY DEF Standing
  <1>4. IsFiniteSet(Standing(pc))
    BY <1>2, <1>3, FS_Subset
  <1> QED BY <1>4, FS_CardinalityType

\* What is counted changes with who comes and goes.
LEMMA Counts ==
    ASSUME SlotsInv, case' = case, NEW i \in Requests,
           \A j \in Requests \ {i} : req'[j].pc = req[j].pc, NEW pc
    PROVE  Cardinality(Standing(pc)') = Cardinality(Standing(pc)) + (IF req'[i].pc = pc THEN 1 ELSE 0) - (IF req[i].pc = pc THEN 1 ELSE 0)
  <1>1. IsFiniteSet(Standing(pc)) /\ Cardinality(Standing(pc)) \in Nat
    BY FiniteAt DEF SlotsInv, VectorsInv
  <1>2. Standing(pc)' = IF req'[i].pc = pc THEN Standing(pc) \cup {i} ELSE Standing(pc) \ {i}
    BY Frame DEF Standing, Stands
  <1>3. i \in Standing(pc) <=> req[i].pc = pc
    BY DEF Standing, Stands
  <1>4. Cardinality(Standing(pc) \cup {i}) = IF i \in Standing(pc) THEN Cardinality(Standing(pc)) ELSE Cardinality(Standing(pc)) + 1
    BY <1>1, FS_AddElement
  <1>5. Cardinality(Standing(pc) \ {i}) = IF i \in Standing(pc) THEN Cardinality(Standing(pc)) - 1 ELSE Cardinality(Standing(pc))
    BY <1>1, FS_RemoveElement
  <1> HIDE DEF Standing
  <1>6. CASE req'[i].pc = pc
    BY <1>1, <1>2, <1>3, <1>4, <1>6
  <1>7. CASE req'[i].pc # pc
    BY <1>1, <1>2, <1>3, <1>5, <1>7
  <1> QED BY <1>6, <1>7

LEMMA NobodyMoves ==
    ASSUME SlotsInv, VectorsInv', case' = case, rerank' = rerank, \A j \in Requests : req'[j].pc = req[j].pc
    PROVE  SlotsInv'
  <1>1. \A pc : Standing(pc)' = Standing(pc)
    BY Frame DEF Standing, Stands
  <1>2. Slots'
    BY DEF SlotsInv, Slots
  <1>3. SlotsCounted'
    <2>1. Standing("scoring")' = Standing("scoring") /\ Standing("slot")' = Standing("slot")
      BY <1>1
    <2> QED BY <2>1 DEF SlotsInv, SlotsCounted, Standing
  <1> QED BY <1>2, <1>3 DEF SlotsInv

\* One request moves, and takes or gives back what its places hold.
Holds(pc) == IF pc \in {"slot", "scoring"} THEN 1 ELSE 0
Scores(pc) == IF pc = "scoring" THEN 1 ELSE 0
LEMMA OneCounted ==
    ASSUME SlotsInv, VectorsInv', case' = case, NEW i \in Requests,
           \A j \in Requests \ {i} : req'[j].pc = req[j].pc,
           rerank' = [pending |-> rerank.pending + Holds(req'[i].pc) - Holds(req[i].pc),
                      active  |-> rerank.active + Scores(req'[i].pc) - Scores(req[i].pc),
                      free    |-> rerank.free - Scores(req'[i].pc) + Scores(req[i].pc)],
           rerank'.pending <= MaxRerank, rerank'.active <= RerankSlots
    PROVE  SlotsInv'
  <1>1. /\ rerank'.pending = rerank.pending + Holds(req'[i].pc) - Holds(req[i].pc)
        /\ rerank'.active = rerank.active + Scores(req'[i].pc) - Scores(req[i].pc)
        /\ rerank'.free = rerank.free - Scores(req'[i].pc) + Scores(req[i].pc)
    OBVIOUS
  <1>2. \A pc : Holds(pc) \in {0, 1} /\ Scores(pc) \in {0, 1}
    BY DEF Holds, Scores
  <1>3. rerank.pending \in Int /\ rerank.active \in Int /\ rerank.free \in Int
    BY DEF SlotsInv, Slots
  <1>4. Slots'
    BY <1>1, <1>2, <1>3 DEF Slots
  <1>5. /\ Cardinality(Standing("scoring")') = Cardinality(Standing("scoring")) + Scores(req'[i].pc) - Scores(req[i].pc)
        /\ Cardinality(Standing("slot")') = Cardinality(Standing("slot"))
              + (Holds(req'[i].pc) - Scores(req'[i].pc)) - (Holds(req[i].pc) - Scores(req[i].pc))
    <2>1. \A pc : Cardinality(Standing(pc)') =
            Cardinality(Standing(pc)) + (IF req'[i].pc = pc THEN 1 ELSE 0) - (IF req[i].pc = pc THEN 1 ELSE 0)
      BY Counts
    <2>2. \A pc : Scores(pc) = (IF pc = "scoring" THEN 1 ELSE 0) /\ Holds(pc) - Scores(pc) = (IF pc = "slot" THEN 1 ELSE 0)
      BY DEF Holds, Scores
    <2>3. Cardinality(Standing("scoring")') =
            Cardinality(Standing("scoring")) + (IF req'[i].pc = "scoring" THEN 1 ELSE 0) - (IF req[i].pc = "scoring" THEN 1 ELSE 0)
      BY <2>1
    <2>4. Cardinality(Standing("slot")') =
            Cardinality(Standing("slot")) + (IF req'[i].pc = "slot" THEN 1 ELSE 0) - (IF req[i].pc = "slot" THEN 1 ELSE 0)
      BY <2>1
    <2> QED BY <2>2, <2>3, <2>4
  <1>6. Cardinality(Standing("scoring")) \in Nat /\ Cardinality(Standing("slot")) \in Nat
    BY FiniteAt DEF SlotsInv, VectorsInv
  <1>7. /\ rerank.active = Cardinality(Standing("scoring")) /\ rerank.pending = rerank.active + Cardinality(Standing("slot"))
        /\ rerank.free + rerank.active = RerankSlots
    BY DEF SlotsInv, SlotsCounted, Standing
  <1>8. /\ rerank'.active = Cardinality(Standing("scoring")') /\ rerank'.pending = rerank'.active + Cardinality(Standing("slot")')
        /\ rerank'.free + rerank'.active = RerankSlots
    BY <1>1, <1>2, <1>3, <1>5, <1>6, <1>7
  <1>9. SlotsCounted'
    BY <1>8 DEF SlotsCounted, Standing
  <1> QED BY <1>4, <1>9 DEF SlotsInv

\* Where the steps of one request bring it.
LEMMA Brings ==
    ASSUME VectorsInv, NEW i \in Requests
    PROVE  /\ \A s, g : Answer(i, s, g) =>
                req'[i].pc = "answered" /\ \A j \in Requests \ {i} : req'[j].pc = req[j].pc
           /\ \A pc : Go(i, pc) =>
                req'[i].pc = pc /\ \A j \in Requests \ {i} : req'[j].pc = req[j].pc
           /\ \A s : Error(i, s) =>
                req'[i].pc = "answered" /\ \A j \in Requests \ {i} : req'[j].pc = req[j].pc
  <1>1. DOMAIN req = Requests /\ Shape(req[i])
    BY DEF VectorsInv, AllHonest, Honest
  <1>2. \A pc : [req[i] EXCEPT !.pc = pc].pc = pc
    BY <1>1 DEF Shape
  <1>3. \A s, g : Give(req[i], s, g).pc = "answered"
    <2> TAKE s, g
    <2>1. Give(req[i], s, g) = [[req[i] EXCEPT !.pc = "answered"] EXCEPT !.answer = Answered(s, g)]
      BY DEF Give
    <2>2. [req[i] EXCEPT !.pc = "answered"] = [pc |-> "answered", got |-> req[i].got, answer |-> req[i].answer,
                                               futs |-> req[i].futs, vectors |-> req[i].vectors]
      BY <1>1 DEF Shape
    <2>3. \A g2, w, f, v, a :
            [[pc |-> "answered", got |-> g2, answer |-> w, futs |-> f, vectors |-> v] EXCEPT !.answer = a].pc = "answered"
      OBVIOUS
    <2> QED BY <2>1, <2>2, <2>3, Zenon
  <1>4. \A x : req' = [req EXCEPT ![i] = x] => req'[i] = x /\ \A j \in Requests \ {i} : req'[j] = req[j]
    BY <1>1
  <1>5. \A s, g : Answer(i, s, g) => req' = [req EXCEPT ![i] = Give(req[i], s, g)]
    BY DEF Answer
  <1>6. \A pc : Go(i, pc) => req' = [req EXCEPT ![i] = [req[i] EXCEPT !.pc = pc]]
    BY DEF Go
  <1>7. \A s, g : Answer(i, s, g) => req'[i].pc = "answered" /\ \A j \in Requests \ {i} : req'[j].pc = req[j].pc
    BY <1>3, <1>4, <1>5
  <1>8. \A s : Error(i, s) => \E n : Answer(i, n, <<>>)
    BY DEF Error
  <1>9. \A pc : Go(i, pc) => req'[i].pc = pc /\ \A j \in Requests \ {i} : req'[j].pc = req[j].pc
    BY <1>2, <1>4, <1>6
  <1> QED BY <1>7, <1>8, <1>9

\* What the reranker has to do with.
LEMMA SlotsAre ==
    ASSUME SlotsInv
    PROVE  /\ rerank = [pending |-> rerank.pending, active |-> rerank.active, free |-> rerank.free]
           /\ rerank.pending \in Int /\ rerank.active \in Int /\ rerank.free \in Int
           /\ rerank.free + rerank.active = RerankSlots
           /\ rerank.active <= RerankSlots /\ rerank.pending <= MaxRerank
           /\ RerankSlots \in Nat /\ MaxRerank \in Nat
  <1>1. RerankSlots \in Nat /\ MaxRerank \in Nat
    BY LimitsAssumption
  <1> QED BY <1>1 DEF SlotsInv, Slots, SlotsCounted

LEMMA ArriveCounted ==
    ASSUME SlotsInv, NEW i \in Requests, Arrive(i) PROVE SlotsInv'
  <1>1. VectorsInv' /\ case' = case
    BY ArriveKeeps DEF SlotsInv, Arrive
  <1>2. req[i].pc = "post"
    BY DEF Arrive, Stands
  <1>3. CASE rerank.pending < MaxRerank /\ Go(i, "slot") /\ rerank' = [rerank EXCEPT !.pending = @ + 1]
    <2>1. req'[i].pc = "slot" /\ \A j \in Requests \ {i} : req'[j].pc = req[j].pc
      BY <1>3, Brings DEF SlotsInv
    <2>2. rerank' = [pending |-> rerank.pending + 1, active |-> rerank.active, free |-> rerank.free]
      BY <1>3, SlotsAre
    <2>3. rerank' = [pending |-> rerank.pending + Holds(req'[i].pc) - Holds(req[i].pc),
                     active  |-> rerank.active + Scores(req'[i].pc) - Scores(req[i].pc),
                     free    |-> rerank.free - Scores(req'[i].pc) + Scores(req[i].pc)]
      BY <1>2, <2>1, <2>2, SlotsAre DEF Holds, Scores
    <2>4. rerank'.pending <= MaxRerank /\ rerank'.active <= RerankSlots
      BY <1>3, <2>2, SlotsAre
    <2> QED BY <1>1, <2>1, <2>3, <2>4, OneCounted
  <1>4. CASE /\ rerank' = rerank
             /\ req'[i].pc \in {"answered", "submit"} /\ \A j \in Requests \ {i} : req'[j].pc = req[j].pc
    <2>1. rerank' = [pending |-> rerank.pending + Holds(req'[i].pc) - Holds(req[i].pc),
                     active  |-> rerank.active + Scores(req'[i].pc) - Scores(req[i].pc),
                     free    |-> rerank.free - Scores(req'[i].pc) + Scores(req[i].pc)]
      BY <1>2, <1>4, SlotsAre DEF Holds, Scores
    <2>2. rerank'.pending <= MaxRerank /\ rerank'.active <= RerankSlots
      BY <1>4, SlotsAre
    <2> QED BY <1>1, <1>4, <2>1, <2>2, OneCounted
  <1>5. \/ rerank.pending < MaxRerank /\ Go(i, "slot") /\ rerank' = [rerank EXCEPT !.pending = @ + 1]
        \/ rerank' = rerank /\ ((\E s, g : Answer(i, s, g)) \/ (\E s : Error(i, s)) \/ Go(i, "submit"))
    <2>1. CASE ReserveRerank(i)
      BY <2>1, SlotsAre DEF ReserveRerank
    <2>2. CASE ~ReserveRerank(i)
      BY <2>2 DEF Arrive
    <2> QED BY <2>1, <2>2
  <1>6. CASE rerank' = rerank /\ ((\E s, g : Answer(i, s, g)) \/ (\E s : Error(i, s)) \/ Go(i, "submit"))
    <2>1. req'[i].pc \in {"answered", "submit"} /\ \A j \in Requests \ {i} : req'[j].pc = req[j].pc
      BY <1>6, Brings DEF SlotsInv
    <2> QED BY <1>4, <1>6, <2>1
  <1> QED BY <1>3, <1>5, <1>6

LEMMA AcquireCounted ==
    ASSUME SlotsInv, NEW i \in Requests, Acquire(i) PROVE SlotsInv'
  <1>1. VectorsInv' /\ case' = case
    BY RerankKeeps DEF SlotsInv, Acquire, NotBatching
  <1>2. req[i].pc = "slot" /\ rerank.free > 0
    BY DEF Acquire, Stands
  <1>3. CASE Error(i, 503) /\ rerank' = [rerank EXCEPT !.pending = @ - 1]
    <2>1. req'[i].pc = "answered" /\ \A j \in Requests \ {i} : req'[j].pc = req[j].pc
      BY <1>3, Brings DEF SlotsInv
    <2>2. rerank' = [pending |-> rerank.pending - 1, active |-> rerank.active, free |-> rerank.free]
      BY <1>3, SlotsAre
    <2>3. rerank' = [pending |-> rerank.pending + Holds(req'[i].pc) - Holds(req[i].pc),
                     active  |-> rerank.active + Scores(req'[i].pc) - Scores(req[i].pc),
                     free    |-> rerank.free - Scores(req'[i].pc) + Scores(req[i].pc)]
      BY <1>2, <2>1, <2>2, SlotsAre DEF Holds, Scores
    <2>4. rerank'.pending <= MaxRerank /\ rerank'.active <= RerankSlots
      BY <2>2, SlotsAre
    <2> QED BY <1>1, <2>1, <2>3, <2>4, OneCounted
  <1>4. CASE Go(i, "scoring") /\ rerank' = [rerank EXCEPT !.active = @ + 1, !.free = @ - 1]
    <2>1. req'[i].pc = "scoring" /\ \A j \in Requests \ {i} : req'[j].pc = req[j].pc
      BY <1>4, Brings DEF SlotsInv
    <2>2. rerank' = [pending |-> rerank.pending, active |-> rerank.active + 1, free |-> rerank.free - 1]
      <3>1. rerank' = [[rerank EXCEPT !.active = rerank.active + 1] EXCEPT !.free = rerank.free - 1]
        BY <1>4, SlotsAre
      <3>2. [rerank EXCEPT !.active = rerank.active + 1] =
                [pending |-> rerank.pending, active |-> rerank.active + 1, free |-> rerank.free]
        BY SlotsAre
      <3> QED BY <3>1, <3>2
    <2>3. rerank' = [pending |-> rerank.pending + Holds(req'[i].pc) - Holds(req[i].pc),
                     active  |-> rerank.active + Scores(req'[i].pc) - Scores(req[i].pc),
                     free    |-> rerank.free - Scores(req'[i].pc) + Scores(req[i].pc)]
      BY <1>2, <2>1, <2>2, SlotsAre DEF Holds, Scores
    <2>4. rerank'.pending <= MaxRerank /\ rerank'.active <= RerankSlots
      BY <1>2, <2>2, SlotsAre
    <2> QED BY <1>1, <2>1, <2>3, <2>4, OneCounted
  <1> QED BY <1>3, <1>4 DEF Acquire

LEMMA Released ==
    ASSUME SlotsInv, NEW n \in {0, 1}
    PROVE  Release(n) = [pending |-> rerank.pending - 1, active |-> rerank.active - n, free |-> rerank.free + n]
  <1>1. PICK p, a, f : p = rerank.pending - 1 /\ a = rerank.active - n /\ f = rerank.free + n
    OBVIOUS
  <1>2. Release(n) = [[[rerank EXCEPT !.pending = p] EXCEPT !.active = a] EXCEPT !.free = f]
    BY <1>1, SlotsAre DEF Release
  <1>3. rerank = [pending |-> rerank.pending, active |-> rerank.active, free |-> rerank.free]
    BY SlotsAre
  <1>4. \A x, y, z : [[[[pending |-> x, active |-> y, free |-> z] EXCEPT !.pending = p] EXCEPT !.active = a] EXCEPT !.free = f] =
            [pending |-> p, active |-> a, free |-> f]
    <2> TAKE x, y, z
    <2>1. [[pending |-> x, active |-> y, free |-> z] EXCEPT !.pending = p] = [pending |-> p, active |-> y, free |-> z]
      OBVIOUS
    <2>2. [[pending |-> p, active |-> y, free |-> z] EXCEPT !.active = a] = [pending |-> p, active |-> a, free |-> z]
      OBVIOUS
    <2>3. [[pending |-> p, active |-> a, free |-> z] EXCEPT !.free = f] = [pending |-> p, active |-> a, free |-> f]
      OBVIOUS
    <2> QED BY <2>1, <2>2, <2>3, Zenon
  <1>5. Release(n) = [pending |-> p, active |-> a, free |-> f]
    BY <1>2, <1>3, <1>4, Zenon
  <1> QED BY <1>1, <1>5

LEMMA ScoreCounted ==
    ASSUME SlotsInv, NEW i \in Requests, Score(i) PROVE SlotsInv'
  <1>1. VectorsInv' /\ case' = case
    BY RerankKeeps DEF SlotsInv, Score, NotBatching
  <1>2. req[i].pc = "scoring"
    BY DEF Score, Stands
  <1>3. req'[i].pc = "answered" /\ \A j \in Requests \ {i} : req'[j].pc = req[j].pc
    BY Brings DEF SlotsInv, Score
  <1>4. rerank' = [pending |-> rerank.pending - 1, active |-> rerank.active - 1, free |-> rerank.free + 1]
    BY Released DEF Score
  <1>5. rerank' = [pending |-> rerank.pending + Holds(req'[i].pc) - Holds(req[i].pc),
                   active  |-> rerank.active + Scores(req'[i].pc) - Scores(req[i].pc),
                   free    |-> rerank.free - Scores(req'[i].pc) + Scores(req[i].pc)]
    BY <1>2, <1>3, <1>4, SlotsAre DEF Holds, Scores
  <1>6. rerank'.pending <= MaxRerank /\ rerank'.active <= RerankSlots
    BY <1>4, SlotsAre
  <1> QED BY <1>1, <1>3, <1>5, <1>6, OneCounted

\* What a cancelled request held is given back (model_server.py:1020).
LEMMA CancelledCounted ==
    ASSUME SlotsInv, NEW i \in Requests, Cancelled(i) PROVE SlotsInv'
  <1>1. VectorsInv' /\ case' = case
    BY CancelledKeeps DEF SlotsInv, Cancelled, NotBatching
  <1>2. req[i].pc \in {"gather", "slot", "scoring"} /\ rerank' = HeldBy(i)
    BY DEF Cancelled
  <1>3. req'[i].pc = "gone" /\ \A j \in Requests \ {i} : req'[j].pc = req[j].pc
    <2> DEFINE f == [k \in DOMAIN req[i].futs |-> IF req[i].futs[k] = "pending" THEN "cancelled" ELSE req[i].futs[k]]
    <2>1. req' = [req EXCEPT ![i].pc = "gone", ![i].futs = f]
      BY DEF Cancelled
    <2>2. DOMAIN req = Requests
      BY DEF SlotsInv, VectorsInv, AllHonest
    <2> HIDE DEF f
    <2>3. req' = [req EXCEPT ![i] = [[req[i] EXCEPT !.pc = "gone"] EXCEPT !.futs = f]]
      BY <2>1, <2>2
    <2>4. req'[i] = [[req[i] EXCEPT !.pc = "gone"] EXCEPT !.futs = f] /\ \A j \in Requests \ {i} : req'[j] = req[j]
      BY <2>2, <2>3
    <2>5. Shape(req[i])
      BY DEF SlotsInv, VectorsInv, AllHonest, Honest
    <2>6. [req[i] EXCEPT !.pc = "gone"] = [pc |-> "gone", got |-> req[i].got, answer |-> req[i].answer,
                                          futs |-> req[i].futs, vectors |-> req[i].vectors]
      BY <2>5 DEF Shape
    <2>7. \A g, w, d, v, a :
            [[pc |-> "gone", got |-> g, answer |-> w, futs |-> d, vectors |-> v] EXCEPT !.futs = a].pc = "gone"
      OBVIOUS
    <2>8. [[req[i] EXCEPT !.pc = "gone"] EXCEPT !.futs = f].pc = "gone"
      BY <2>6, <2>7, Zenon
    <2> QED BY <2>4, <2>8
  <1>4. CASE req[i].pc = "gather"
    <2>1. rerank' = rerank
      BY <1>2, <1>4 DEF HeldBy, Stands
    <2>2. rerank' = [pending |-> rerank.pending + Holds(req'[i].pc) - Holds(req[i].pc),
                     active  |-> rerank.active + Scores(req'[i].pc) - Scores(req[i].pc),
                     free    |-> rerank.free - Scores(req'[i].pc) + Scores(req[i].pc)]
      BY <1>3, <1>4, <2>1, SlotsAre DEF Holds, Scores
    <2>3. rerank'.pending <= MaxRerank /\ rerank'.active <= RerankSlots
      BY <2>1, SlotsAre
    <2> QED BY <1>1, <1>3, <2>2, <2>3, OneCounted
  <1>5. CASE req[i].pc \in {"slot", "scoring"}
    <2> DEFINE n == Scores(req[i].pc)
    <2>1. n \in {0, 1} /\ rerank' = Release(n)
      BY <1>2, <1>5 DEF HeldBy, Stands, Scores
    <2> HIDE DEF n
    <2>2. rerank' = [pending |-> rerank.pending - 1, active |-> rerank.active - n, free |-> rerank.free + n]
      BY <2>1, Released
    <2>3. Holds(req[i].pc) = 1 /\ Holds(req'[i].pc) = 0 /\ Scores(req'[i].pc) = 0 /\ Scores(req[i].pc) = n
      BY <1>3, <1>5 DEF Holds, Scores, n
    <2>4. rerank' = [pending |-> rerank.pending + Holds(req'[i].pc) - Holds(req[i].pc),
                     active  |-> rerank.active + Scores(req'[i].pc) - Scores(req[i].pc),
                     free    |-> rerank.free - Scores(req'[i].pc) + Scores(req[i].pc)]
      BY <2>1, <2>2, <2>3, SlotsAre
    <2>5. rerank'.pending <= MaxRerank /\ rerank'.active <= RerankSlots
      BY <2>1, <2>2, SlotsAre
    <2> QED BY <1>1, <1>3, <2>4, <2>5, OneCounted
  <1> QED BY <1>2, <1>4, <1>5

\* The other steps of a request neither take nor give.
LEMMA OtherCounted ==
    ASSUME SlotsInv, NEW i \in Requests, EmbedText(i) \/ Submit(i) \/ Gathered(i) PROVE SlotsInv'
  <1>1. VectorsInv' /\ case' = case /\ rerank' = rerank
    BY CacheGetKeeps, CacheSetKeeps, SubmitKeeps, GatheredKeeps
       DEF SlotsInv, EmbedText, CacheGet, CacheSet, Submit, Gathered, NoServer
  <1>2. DOMAIN req = Requests /\ req[i].pc \in {"new", "keep", "submit", "gather"}
    BY DEF SlotsInv, VectorsInv, AllHonest, EmbedText, CacheGet, CacheSet, Submit, Gathered, Stands
  <1>3. \/ \E s, g : Answer(i, s, g)
        \/ \E s : Error(i, s)
        \/ Go(i, "post")
        \/ \E pc \in {"submit", "keep"} : \E v : req' = [req EXCEPT ![i].pc = pc, ![i].got = v]
        \/ \E f : req' = [req EXCEPT ![i].pc = "gather", ![i].futs = f]
    <2>1. CASE CacheGet(i)
      BY <2>1 DEF CacheGet
    <2>2. CASE CacheSet(i)
      BY <2>2 DEF CacheSet
    <2>3. CASE Submit(i)
      BY <2>3 DEF Submit
    <2>4. CASE Gathered(i)
      BY <2>4 DEF Gathered
    <2> QED BY <2>1, <2>2, <2>3, <2>4 DEF EmbedText
  <1>4. ASSUME NEW pc \in {"submit", "keep", "gather"}, NEW v,
               \/ req' = [req EXCEPT ![i].pc = pc, ![i].got = v]
               \/ req' = [req EXCEPT ![i].pc = pc, ![i].futs = v]
        PROVE  req'[i].pc = pc /\ \A j \in Requests \ {i} : req'[j].pc = req[j].pc
    <2>1. \/ req' = [req EXCEPT ![i] = [[req[i] EXCEPT !.pc = pc] EXCEPT !.got = v]]
          \/ req' = [req EXCEPT ![i] = [[req[i] EXCEPT !.pc = pc] EXCEPT !.futs = v]]
      BY <1>2, <1>4
    <2>2. \/ req'[i] = [[req[i] EXCEPT !.pc = pc] EXCEPT !.got = v]
          \/ req'[i] = [[req[i] EXCEPT !.pc = pc] EXCEPT !.futs = v]
      BY <1>2, <2>1
    <2>3. \A j \in Requests \ {i} : req'[j] = req[j]
      BY <1>2, <2>1
    <2>4. Shape(req[i])
      BY DEF SlotsInv, VectorsInv, AllHonest, Honest
    <2>5. [req[i] EXCEPT !.pc = pc] = [pc |-> pc, got |-> req[i].got, answer |-> req[i].answer,
                                          futs |-> req[i].futs, vectors |-> req[i].vectors]
      BY <2>4 DEF Shape
    <2>6. \A p, g, w, d, e, a :
            /\ [[pc |-> p, got |-> g, answer |-> w, futs |-> d, vectors |-> e] EXCEPT !.futs = a].pc = p
            /\ [[pc |-> p, got |-> g, answer |-> w, futs |-> d, vectors |-> e] EXCEPT !.got = a].pc = p
      OBVIOUS
    <2>7. req'[i].pc = pc
      BY <2>2, <2>5, <2>6, Zenon
    <2> QED BY <2>3, <2>7
  <1>5. req'[i].pc \in {"answered", "post", "submit", "keep", "gather"} /\ \A j \in Requests \ {i} : req'[j].pc = req[j].pc
    BY <1>3, <1>4, Brings DEF SlotsInv
  <1>6. rerank' = [pending |-> rerank.pending + Holds(req'[i].pc) - Holds(req[i].pc),
                   active  |-> rerank.active + Scores(req'[i].pc) - Scores(req[i].pc),
                   free    |-> rerank.free - Scores(req'[i].pc) + Scores(req[i].pc)]
    BY <1>1, <1>2, <1>5, SlotsAre DEF Holds, Scores
  <1>7. rerank'.pending <= MaxRerank /\ rerank'.active <= RerankSlots
    BY <1>1, SlotsAre
  <1> QED BY <1>1, <1>5, <1>6, <1>7, OneCounted

\* The worker and the engine settle futures, and let every request stand where it is.
LEMMA EngineCounted ==
    ASSUME SlotsInv,
           Take \/ Collect \/ Form \/ Compute \/ WarmUp \/ ComputeFails \/ BeginStop \/ Dies \/ Stop
    PROVE  SlotsInv'
  <1>1. VectorsInv'
    BY TakeKeeps, CollectKeeps, FormKeeps, ComputeKeeps, EngineKeeps DEF SlotsInv
  <1>2. case' = case /\ rerank' = rerank
    BY DEF Take, Collect, Form, Compute, WarmUp, ComputeFails, BeginStop, Dies, Stop, StopFails, StopQueue, StopRerank, NotAsked
  <1>3. DOMAIN req = Requests /\ \A i \in Requests : Shape(req[i])
    BY DEF SlotsInv, VectorsInv, AllHonest, Honest
  <1>4. \A i \in Requests : FailPending(req)[i].pc = req[i].pc
    BY <1>3 DEF FailPending, Shape
  <1>5. \A items, texts : \A i \in Requests : Computed(items, texts)[i].pc = req[i].pc
    <2> SUFFICES ASSUME NEW items, NEW texts, NEW i \in Requests PROVE Computed(items, texts)[i].pc = req[i].pc
      OBVIOUS
    <2>1. PICK f, v : Computed(items, texts)[i] = [[req[i] EXCEPT !.futs = f] EXCEPT !.vectors = v]
      BY <1>3 DEF Computed
    <2>2. \A a : [req[i] EXCEPT !.futs = a] = [pc |-> req[i].pc, got |-> req[i].got, answer |-> req[i].answer,
                                              futs |-> a, vectors |-> req[i].vectors]
      BY <1>3 DEF Shape
    <2>3. \A p, g, w, d, e, a : [[pc |-> p, got |-> g, answer |-> w, futs |-> d, vectors |-> e] EXCEPT !.vectors = a].pc = p
      OBVIOUS
    <2> QED BY <2>1, <2>2, <2>3, Zenon
  <1>6. \A items, texts : \A i \in Requests : FailPending(Computed(items, texts))[i].pc = req[i].pc
    <2> SUFFICES ASSUME NEW items, NEW texts, NEW i \in Requests PROVE FailPending(Computed(items, texts))[i].pc = req[i].pc
      OBVIOUS
    <2> DEFINE c == Computed(items, texts)
    <2>1. PICK f, v : c[i] = [[req[i] EXCEPT !.futs = f] EXCEPT !.vectors = v]
      BY <1>3 DEF Computed
    <2>2. \A a : [req[i] EXCEPT !.futs = a] = [pc |-> req[i].pc, got |-> req[i].got, answer |-> req[i].answer,
                                              futs |-> a, vectors |-> req[i].vectors]
      BY <1>3 DEF Shape
    <2>3. \A p, g, w, d, e, a :
            [[pc |-> p, got |-> g, answer |-> w, futs |-> d, vectors |-> e] EXCEPT !.vectors = a] =
                [pc |-> p, got |-> g, answer |-> w, futs |-> d, vectors |-> a]
      OBVIOUS
    <2> HIDE DEF c
    <2>4. c[i] = [pc |-> c[i].pc, got |-> c[i].got, answer |-> c[i].answer, futs |-> c[i].futs, vectors |-> c[i].vectors]
          /\ c[i].pc = req[i].pc
      <3>1. c[i] = [pc |-> req[i].pc, got |-> req[i].got, answer |-> req[i].answer, futs |-> f, vectors |-> v]
        BY <2>1, <2>2, <2>3, Zenon
      <3> QED BY <3>1
    <2>5. PICK d : FailPending(c)[i] = [c[i] EXCEPT !.futs = d]
      BY DEF FailPending
    <2>7. FailPending(c)[i].pc = c[i].pc
      <3>1. \A x : x = [pc |-> x.pc, got |-> x.got, answer |-> x.answer, futs |-> x.futs, vectors |-> x.vectors] =>
                [x EXCEPT !.futs = d].pc = x.pc
        OBVIOUS
      <3> QED BY <2>4, <2>5, <3>1, Zenon
    <2> QED BY <2>4, <2>7 DEF c
  <1>7. req' \in {req, FailPending(req), Computed(worker.items, worker.texts), FailPending(Computed(worker.items, worker.texts))}
    BY DEF Take, Collect, Form, Compute, WarmUp, ComputeFails, BeginStop, Dies, Stop, StopFails, StopQueue, StopRerank, FailAll, batching
  <1>8. \A j \in Requests : req'[j].pc = req[j].pc
    BY <1>4, <1>5, <1>6, <1>7
  <1> QED BY <1>1, <1>2, <1>8, NobodyMoves

LEMMA SlotsSteps ==
    ASSUME SlotsInv, [ServerNext]_serverVars PROVE SlotsInv'
  <1>1. CASE UNCHANGED serverVars
    <2>1. case' = case /\ rerank' = rerank /\ req' = req
      BY <1>1 DEF serverVars
    <2>2. VectorsInv'
      BY <1>1, VectorsSteps DEF SlotsInv
    <2> QED BY <2>1, <2>2, NobodyMoves
  <1>2. CASE Take \/ Collect \/ Form \/ Compute \/ WarmUp \/ ComputeFails \/ BeginStop \/ Dies \/ Stop
    BY <1>2, EngineCounted
  <1>3. CASE \E i \in Requests : Handle(i) \/ Cancelled(i)
    BY <1>3, ArriveCounted, AcquireCounted, ScoreCounted, CancelledCounted, OtherCounted DEF Handle
  <1> QED BY <1>1, <1>2, <1>3 DEF ServerNext, Serve

LEMMA SlotsBegin == ServerInit => SlotsInv
  <1> SUFFICES ASSUME ServerInit PROVE SlotsInv
    OBVIOUS
  <1>1. rerank = [pending |-> 0, active |-> 0, free |-> RerankSlots] /\ case \in Cases
    BY DEF ServerInit
  <1>2. RerankSlots \in Nat /\ MaxRerank \in Nat
    BY LimitsAssumption
  <1>3. \A i \in Requests : req[i].pc \in {"new", "post"}
    BY DEF ServerInit, Asking
  <1>4. Standing("scoring") = {} /\ Standing("slot") = {}
    BY <1>3 DEF Standing, Stands
  <1>5. Cardinality({}) = 0
    BY FS_EmptySet
  <1>6. SlotsCounted
    <2>1. rerank.pending = 0 /\ rerank.active = 0
      BY <1>1
    <2>2. /\ Cardinality({i \in Requests : Stands(i, "scoring")}) = 0
          /\ Cardinality({i \in Requests : Stands(i, "slot")}) = 0
      BY <1>4, <1>5 DEF Standing
    <2>3. /\ rerank.active = Cardinality({i \in Requests : Stands(i, "scoring")})
          /\ rerank.pending = rerank.active + Cardinality({i \in Requests : Stands(i, "slot")})
      <3> HIDE DEF Stands
      <3> QED BY <2>1, <2>2
    <2>4. rerank.free + rerank.active = RerankSlots /\ rerank.active <= RerankSlots /\ rerank.pending <= MaxRerank
      BY <1>1, <1>2
    <2> QED BY <2>3, <2>4 DEF SlotsCounted
  <1>7. Slots
    BY <1>1, <1>2 DEF Slots
  <1> QED BY <1>6, <1>7, VectorsBegin DEF SlotsInv

\* Whoever asks the server has the vectors of its own texts, whoever asks through the cache one for a
\* text that differs from its own in white space at most, and no slot is lost or given twice, however
\* many requests share the batches and the reranker, whatever fails or is cancelled, and while the
\* server is shut down (model_server.py:583, :957; embedding.py:114).
THEOREM RightlyServed == ServerSpec => []ServedRight
  <1>1. SlotsInv => ServedRight
    <2> SUFFICES ASSUME SlotsInv PROVE ServedRight
      OBVIOUS
    <2>1. \A i \in Requests : Own(req[i].answer, R(i))
      BY DEF SlotsInv, VectorsInv, AllHonest, Honest
    <2>2. OwnVectors
      BY <2>1 DEF OwnVectors, Own
    <2> QED BY <2>2 DEF ServedRight, SlotsInv
  <1> QED BY <1>1, SlotsBegin, SlotsSteps, PTL DEF ServerSpec
=============================================================================
