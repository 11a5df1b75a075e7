-------------------------- MODULE BlockStreamProofs --------------------------
(***************************************************************************)
(* What the scan and the partials are of any text: that their loops end,    *)
(* what they are made of, and that the deltas a host puts together are the *)
(* text it was shown, if that only grows; BlockStreamText shows that it    *)
(* does.  As in NativeRoundProofs, induction is done with sets.            *)
(***************************************************************************)
EXTENDS BlockStream, SequenceTheorems, WellFoundedInduction, TLAPS

-----------------------------------------------------------------------------
(* Induction. *)

LEMMA Less ==
    ASSUME NEW x \in Nat, NEW y \in Nat, y < x
    PROVE  <<y, x>> \in OpToRel(<, Nat)
BY DEF OpToRel

LEMMA Least ==
    ASSUME NEW T \in SUBSET Nat, T # {}
    PROVE  \E x \in T : \A y \in T : x <= y
<1>1. PICK x \in T : \A y \in T : ~ (<<y, x>> \in OpToRel(<, Nat))
  <2>1. T \subseteq Nat
    OBVIOUS
  <2> HIDE DEF OpToRel
  <2>2. QED
    BY <2>1, WFMin, NatLessThanWellFounded
<1>2. ASSUME NEW y \in T PROVE x <= y
  <2>1. x \in Nat /\ y \in Nat /\ ~ (y < x)
    BY <1>1, Less
  <2>2. QED
    BY <2>1
<1>3. QED
  BY <1>2

LEMMA Induction ==
    ASSUME NEW T, 0 \in T, \A n \in Nat : n \in T => n + 1 \in T
    PROVE  Nat \subseteq T
<1> SUFFICES ASSUME Nat \ T # {} PROVE FALSE
  OBVIOUS
<1>1. PICK x \in Nat \ T : \A y \in Nat \ T : x <= y
  BY Least
<1>2. x # 0 /\ x - 1 \in Nat /\ (x - 1) + 1 = x
  OBVIOUS
<1>3. x - 1 \in T
  BY <1>1, <1>2
<1>4. QED
  BY <1>2, <1>3

(* From 1 to n. *)
LEMMA InductionTo ==
    ASSUME NEW n \in Nat, NEW T, 1 \in T, \A i \in 1..n : i + 1 \in 1..n /\ i \in T => i + 1 \in T
    PROVE  1..n \subseteq T
<1> DEFINE U == {i \in Nat : i \in 1..n => i \in T}
<1>1. 0 \in U
  OBVIOUS
<1>2. ASSUME NEW i \in Nat, i \in U PROVE i + 1 \in U
  <2>1. CASE i = 0
    BY <2>1
  <2>2. CASE i # 0 /\ i + 1 <= n
    <3>1. i \in 1..n /\ i + 1 \in 1..n
      BY <2>2
    <3>2. QED
      BY <1>2, <3>1
  <2>3. CASE ~(i + 1 <= n)
    BY <2>3
  <2>4. QED
    BY <2>1, <2>2, <2>3
<1>3. Nat \subseteq U
  <2> HIDE DEF U
  <2>1. QED
    BY <1>1, <1>2, Induction
<1>4. QED
  BY <1>3

-----------------------------------------------------------------------------
(* Sequences put one after the other. *)

Joins(seqs, f) ==
    f = [i \in 1..Len(seqs) |-> IF i = 1 THEN seqs[i] ELSE f[i - 1] \o seqs[i]]

LEMMA JoinExists ==
    ASSUME NEW E, NEW seqs \in Seq(Seq(E))
    PROVE  \E f : Joins(seqs, f)
<1> DEFINE n == Len(seqs)
           Body(f, i) == IF i = 1 THEN seqs[i] ELSE f[i - 1] \o seqs[i]
           T == {m \in Nat : \E f : f = [i \in 1..m |-> Body(f, i)]}
<1>0. n \in Nat
  BY LenProperties
<1>1. 0 \in T
  <2>1. ASSUME NEW f, f = [i \in 1..0 |-> 0] PROVE f = [i \in 1..0 |-> Body(f, i)]
    BY <2>1
  <2>2. QED
    BY <2>1
<1>2. ASSUME NEW m \in Nat, m \in T PROVE m + 1 \in T
  <2>1. PICK f : f = [i \in 1..m |-> Body(f, i)]
    BY <1>2
  <2> DEFINE g == [i \in 1..(m + 1) |-> IF i <= m THEN f[i] ELSE Body(f, i)]
  <2>2. ASSUME NEW i \in 1..(m + 1) PROVE g[i] = Body(g, i)
    <3>1. CASE i = 1
      <4>1. m >= 1 => f[1] = seqs[1]
        BY <2>1
      <4>2. QED
        BY <3>1, <4>1
    <3>2. CASE i # 1
      <4>1. i - 1 \in 1..m /\ g[i - 1] = f[i - 1]
        BY <3>2
      <4>2. ASSUME i <= m PROVE f[i] = f[i - 1] \o seqs[i]
        <5>1. i \in 1..m
          BY <4>2
        <5>2. f[i] = Body(f, i)
          <6> HIDE DEF Body
          <6>1. QED
            BY <2>1, <5>1
        <5>3. QED
          BY <3>2, <5>2
      <4>3. QED
        BY <3>2, <4>1, <4>2
    <3>3. QED
      BY <3>1, <3>2
  <2>3. g = [i \in 1..(m + 1) |-> Body(g, i)]
    <3>1. g = [i \in 1..(m + 1) |-> g[i]]
      OBVIOUS
    <3> HIDE DEF g, Body
    <3>2. QED
      BY <2>2, <3>1
  <2>4. QED
    <3> HIDE DEF g, Body
    <3>1. \E h : h = [i \in 1..(m + 1) |-> Body(h, i)]
      BY <2>3
    <3>2. QED
      BY <3>1
<1>3. n \in T
  <2> HIDE DEF T
  <2>1. QED
    BY <1>0, <1>1, <1>2, Induction
<1>4. QED
  BY <1>3 DEF Joins

LEMMA FlattenJoins ==
    ASSUME NEW E, NEW seqs \in Seq(Seq(E)), seqs # <<>>
    PROVE  \E f : Joins(seqs, f) /\ S!FlattenSeq(seqs) = f[Len(seqs)]
<1> DEFINE f == CHOOSE f : Joins(seqs, f)
<1>1. Joins(seqs, f)
  BY JoinExists
<1>2. Len(seqs) # 0
  BY EmptySeq
<1>3. S!FlattenSeq(seqs) = f[Len(seqs)]
  BY <1>2 DEF S!FlattenSeq, Joins
<1>4. QED
  BY <1>1, <1>3

LEMMA FlattenTyped ==
    ASSUME NEW E, NEW seqs \in Seq(Seq(E))
    PROVE  S!FlattenSeq(seqs) \in Seq(E)
<1> DEFINE n == Len(seqs)
<1>0. n \in Nat
  BY LenProperties
<1>1. CASE seqs = <<>>
  <2>1. S!FlattenSeq(seqs) = <<>>
    BY <1>1 DEF S!FlattenSeq
  <2>2. QED
    BY <2>1, EmptySeq
<1>2. CASE seqs # <<>>
  <2>1. PICK f : Joins(seqs, f) /\ S!FlattenSeq(seqs) = f[n]
    BY <1>2, FlattenJoins
  <2>2. n \in 1..n /\ 1 \in 1..n
    BY <1>0, <1>2, EmptySeq
  <2> DEFINE T == {i \in 1..n : f[i] \in Seq(E)}
  <2>3. 1 \in T
    <3>1. f[1] = seqs[1]
      BY <2>1, <2>2 DEF Joins
    <3>2. QED
      BY <2>2, <3>1, ElementOfSeq
  <2>4. ASSUME NEW i \in 1..n, i + 1 \in 1..n, i \in T
        PROVE  i + 1 \in T
    <3>1. i + 1 # 1 /\ (i + 1) - 1 = i
      BY <1>0
    <3>2. f[i + 1] = f[i] \o seqs[i + 1]
      BY <2>1, <2>4, <3>1 DEF Joins
    <3>3. f[i] \in Seq(E) /\ seqs[i + 1] \in Seq(E)
      BY <2>4, ElementOfSeq
    <3>4. f[i] \o seqs[i + 1] \in Seq(E)
      BY <3>3, ConcatProperties
    <3>5. QED
      BY <2>4, <3>2, <3>4
  <2>5. n \in T
    <3> HIDE DEF T
    <3>1. 1..n \subseteq T
      BY <1>0, <2>3, <2>4, InductionTo
    <3>2. QED
      BY <2>2, <3>1
  <2>6. QED
    BY <2>1, <2>5
<1>3. QED
  BY <1>1, <1>2

LEMMA SeqOf ==
    ASSUME NEW E, NEW n \in Nat, NEW s, s \in [1..n -> E]
    PROVE  s \in Seq(E) /\ Len(s) = n
BY SeqDef, LenProperties

-----------------------------------------------------------------------------
(* Places in a text. *)

LEMMA MinOf ==
    ASSUME NEW T \in SUBSET Nat, T # {}
    PROVE  S!Min(T) \in T /\ \A y \in T : S!Min(T) <= y
<1>1. PICK x \in T : \A y \in T : x <= y
  BY Least
<1>2. QED
  BY <1>1 DEF S!Min

LEMMA MaxOf ==
    ASSUME NEW n \in Nat, NEW T \in SUBSET (1..n), T # {}
    PROVE  S!Max(T) \in T /\ \A y \in T : S!Max(T) >= y
<1> DEFINE U == {u \in Nat : \A y \in T : y <= u}
<1>1. U \in SUBSET Nat /\ n \in U
  OBVIOUS
<1>2. PICK x \in U : \A u \in U : x <= u
  <2> HIDE DEF U
  <2>1. QED
    BY <1>1, Least
<1>3. x \in Nat /\ \A y \in T : y <= x /\ y \in Nat /\ y >= 1
  OBVIOUS
<1>4. x \in T
  <2>1. SUFFICES ASSUME x \notin T PROVE FALSE
    OBVIOUS
  <2>2. PICK z \in T : TRUE
    OBVIOUS
  <2>3. x - 1 \in Nat
    BY <1>3, <2>2
  <2>4. \A y \in T : y <= x - 1
    BY <1>3, <2>1
  <2>5. x - 1 \in U
    BY <2>3, <2>4
  <2>6. x <= x - 1
    BY <1>2, <2>5
  <2>7. QED
    BY <1>3, <2>6
<1>5. \E m \in T : \A y \in T : m >= y
  BY <1>3, <1>4
<1>6. QED
  BY <1>5 DEF S!Max

LEMMA TrimTyped ==
    ASSUME NEW E, NEW s \in Seq(E)
    PROVE  Trim(s) \in Seq(E)
<1> DEFINE words == {i \in DOMAIN s : s[i] # "nl"}
           m == S!Min(words)
           n == S!Max(words)
<1>1. Len(s) \in Nat /\ DOMAIN s = 1..Len(s)
  BY LenProperties
<1>2. CASE words = {}
  BY <1>2, EmptySeq DEF Trim
<1>3. CASE words # {}
  <2>1. words \in SUBSET Nat /\ words \in SUBSET (1..Len(s))
    BY <1>1
  <2>2. m \in words /\ n \in words
    <3> HIDE DEF words
    <3>1. QED
      BY <1>1, <1>3, <2>1, MinOf, MaxOf
  <2>3. m \in 1..Len(s) /\ n \in 1..Len(s)
    BY <2>1, <2>2
  <2>4. Trim(s) = SubSeq(s, m, n)
    BY <1>3 DEF Trim
  <2> HIDE DEF m, n
  <2>5. \A i \in m..n : s[i] \in E
    <3>1. ASSUME NEW i \in m..n PROVE i \in 1..Len(s)
      BY <1>1, <2>3
    <3>2. QED
      BY <3>1, ElementOfSeq
  <2>6. SubSeq(s, m, n) \in Seq(E)
    BY <2>3, <2>5, SubSeqProperties
  <2>7. QED
    BY <2>4, <2>6
<1>4. QED
  BY <1>2, <1>3

(* A sequence of at most one element at each place, put together. *)
LEMMA GatherTyped ==
    ASSUME NEW E, NEW n \in Nat, NEW s, s \in [1..n -> Seq(E)]
    PROVE  S!FlattenSeq(s) \in Seq(E)
<1>1. s \in Seq(Seq(E))
  BY SeqOf
<1>2. QED
  BY <1>1, FlattenTyped

-----------------------------------------------------------------------------
(* Loops that go from p to next[p], up to n.  What they find from each place *)
(* on is a recursive function; that there is one, and what its values are,  *)
(* is shown from the end of the text backwards.                            *)

Forward(n, next) == \A p \in 1..n : next[p] \in (p + 1)..(n + 1)

LEMMA Backwards ==
    ASSUME NEW n \in Nat, NEW next, Forward(n, next), NEW T, n + 1 \in T,
           \A p \in 1..n : next[p] \in T => p \in T
    PROVE  1..(n + 1) \subseteq T
<1> DEFINE U == {m \in Nat : m <= n => \A p \in (n + 1 - m)..(n + 1) : p \in T}
<1>1. 0 \in U
  <2>1. \A p \in (n + 1 - 0)..(n + 1) : p = n + 1
    OBVIOUS
  <2>2. QED
    BY <2>1
<1>2. ASSUME NEW m \in Nat, m \in U PROVE m + 1 \in U
  <2>1. SUFFICES ASSUME m + 1 <= n, NEW p \in (n + 1 - (m + 1))..(n + 1) PROVE p \in T
    OBVIOUS
  <2>2. \A q \in (n + 1 - m)..(n + 1) : q \in T
    BY <1>2, <2>1
  <2>3. CASE p \in (n + 1 - m)..(n + 1)
    BY <2>2, <2>3
  <2>4. CASE p = n - m
    <3>1. p \in 1..n
      BY <2>1, <2>4
    <3>2. next[p] \in (p + 1)..(n + 1)
      BY <3>1 DEF Forward
    <3>3. next[p] \in (n + 1 - m)..(n + 1)
      BY <2>4, <3>2
    <3>4. QED
      BY <2>2, <3>1, <3>3
  <2>5. QED
    BY <2>1, <2>3, <2>4
<1>3. n \in U
  <2> HIDE DEF U
  <2>1. QED
    BY <1>1, <1>2, Induction
<1>4. \A p \in 1..(n + 1) : p \in T
  BY <1>3
<1>5. QED
  BY <1>4

(* G is what there is at a place, given what there is where the loop goes on.*)
Goes(n, next, end, G, f) ==
    f = [p \in 1..(n + 1) |-> IF p > n THEN end ELSE G[<<p, f[next[p]]>>]]

LEMMA ForwardExists ==
    ASSUME NEW n \in Nat, NEW next, Forward(n, next), NEW V, NEW end \in V,
           NEW G \in [(1..n) \X V -> V]
    PROVE  \E f \in [1..(n + 1) -> V] : Goes(n, next, end, G, f)
<1> DEFINE Body(f, p) == IF p > n THEN end ELSE G[<<p, f[next[p]]>>]
           U == {m \in Nat : m <= n =>
                    \E f \in [(n + 1 - m)..(n + 1) -> V] :
                        \A p \in (n + 1 - m)..(n + 1) : f[p] = Body(f, p)}
<1>1. 0 \in U
  <2> DEFINE f == [p \in (n + 1 - 0)..(n + 1) |-> end]
  <2>1. f \in [(n + 1 - 0)..(n + 1) -> V]
    OBVIOUS
  <2>2. ASSUME NEW p \in (n + 1 - 0)..(n + 1) PROVE f[p] = Body(f, p)
    <3>1. p > n
      OBVIOUS
    <3>2. QED
      BY <3>1
  <2> HIDE DEF f, Body
  <2>3. QED
    BY <2>1, <2>2
<1>2. ASSUME NEW m \in Nat, m \in U PROVE m + 1 \in U
  <2>1. SUFFICES ASSUME m + 1 <= n
                 PROVE  \E g \in [(n + 1 - (m + 1))..(n + 1) -> V] :
                            \A p \in (n + 1 - (m + 1))..(n + 1) : g[p] = Body(g, p)
    <3> HIDE DEF Body
    <3>1. QED
      OBVIOUS
  <2>2. PICK f \in [(n + 1 - m)..(n + 1) -> V] :
            \A p \in (n + 1 - m)..(n + 1) : f[p] = Body(f, p)
    <3> HIDE DEF Body
    <3>1. m <= n
      BY <2>1
    <3>2. QED
      BY <1>2, <3>1
  <2> DEFINE a == n - m
             D == (n + 1 - m)..(n + 1)
             N == (n + 1 - (m + 1))..(n + 1)
             v == G[<<a, f[next[a]]>>]
             g == [p \in N |-> IF p = a THEN v ELSE f[p]]
  <2>3. a \in 1..n /\ a \in N /\ a \notin D
    BY <2>1
  <2>4. ASSUME NEW p \in N PROVE p = a \/ p \in D
    BY <2>1
  <2>5. \A p \in D : p \in N /\ p # a
    BY <2>1
  <2>6. next[a] \in D
    <3>1. next[a] \in (a + 1)..(n + 1)
      BY <2>3 DEF Forward
    <3>2. QED
      BY <2>1, <3>1
  <2>7. v \in V
    <3>1. f[next[a]] \in V
      BY <2>2, <2>6
    <3>2. <<a, f[next[a]]>> \in (1..n) \X V
      BY <2>3, <3>1
    <3>3. QED
      BY <3>2
  <2> HIDE DEF v
  <2>8. g \in [N -> V]
    <3>1. ASSUME NEW p \in N PROVE g[p] \in V
      <4> HIDE DEF N, D, a
      <4>1. QED
        BY <2>2, <2>4, <2>7 DEF D
    <3>2. QED
      BY <3>1
  <2>9. ASSUME NEW p \in D PROVE g[p] = Body(g, p)
    <3>1. p \in N /\ p # a
      BY <2>5
    <3>2. g[p] = f[p]
      BY <3>1
    <3>3. f[p] = Body(f, p)
      BY <2>2
    <3>4. CASE p > n
      BY <3>2, <3>3, <3>4
    <3>5. CASE ~(p > n)
      <4>1. p \in 1..n
        BY <2>1, <3>5
      <4>2. next[p] \in (p + 1)..(n + 1)
        BY <4>1 DEF Forward
      <4>3. next[p] \in D
        BY <2>1, <4>1, <4>2
      <4>4. g[next[p]] = f[next[p]]
        <5>1. next[p] \in N /\ next[p] # a
          BY <2>5, <4>3
        <5> HIDE DEF N, a
        <5>2. QED
          BY <5>1
      <4>5. QED
        BY <3>2, <3>3, <3>5, <4>4
    <3>6. QED
      BY <3>4, <3>5
  <2>10. g[a] = Body(g, a)
    <3>1. ~(a > n)
      BY <2>3
    <3>2. g[a] = v
      BY <2>3
    <3>3. g[next[a]] = f[next[a]]
      <4>1. next[a] \in N /\ next[a] # a
        BY <2>5, <2>6
      <4> HIDE DEF N, a
      <4>2. QED
        BY <4>1
    <3> HIDE DEF g, a
    <3>4. QED
      BY <3>1, <3>2, <3>3 DEF v
  <2>11. \A p \in N : g[p] = Body(g, p)
    <3> HIDE DEF g, Body, D, N, a
    <3>1. QED
      BY <2>4, <2>9, <2>10
  <2>12. QED
    <3> HIDE DEF g, Body
    <3>1. QED
      BY <2>8, <2>11
<1>3. n \in U
  <2> HIDE DEF U
  <2>1. QED
    BY <1>1, <1>2, Induction
<1>4. PICK f \in [1..(n + 1) -> V] : \A p \in 1..(n + 1) : f[p] = Body(f, p)
  <2>1. n + 1 - n = 1
    OBVIOUS
  <2> HIDE DEF Body
  <2>2. QED
    BY <1>3, <2>1
<1>5. f = [p \in 1..(n + 1) |-> Body(f, p)]
  <2>1. f = [p \in 1..(n + 1) |-> f[p]]
    OBVIOUS
  <2> HIDE DEF Body
  <2>2. QED
    BY <1>4, <2>1
<1>6. QED
  BY <1>5 DEF Goes

-----------------------------------------------------------------------------
(* Headers: every place of the scan lies behind the one before. *)

LEMMA FirstOfTwo ==
    ASSUME NEW x, NEW y
    PROVE  <<x, y>>[1] = x /\ <<x, y>>[2] = y
OBVIOUS

LEMMA FirstOfThree ==
    ASSUME NEW x, NEW y, NEW z
    PROVE  <<x, y, z>>[1] = x /\ <<x, y, z>>[2] = y
OBVIOUS


(* Of an opening header, with its bracket or without, the first two pieces  *)
(* tell the kind.                                                          *)
LEMMA OpenerParts ==
    ASSUME NEW k \in Kinds, k # "text"
    PROVE  /\ Len(Opener[k]) = 3 /\ Len(Recovered(k)) = 3
           /\ Recovered(k)[1] = Opener[k][1] /\ Recovered(k)[2] = Opener[k][2]
<1>1. k = "call" \/ k = "schema"
  BY DEF Kinds
<1>2. Len(Opener[k]) = 3
  <2>1. CASE k = "call"
    <3>1. PICK o : o = <<"[to", "ol_call: t", "]">>
      OBVIOUS
    <3>2. Opener[k] = o
      BY <2>1, <3>1 DEF Opener
    <3>3. Len(o) = 3
      BY <3>1
    <3>4. QED
      BY <3>2, <3>3
  <2>2. CASE k = "schema"
    <3>1. PICK o : o = <<"[sch", "ema: s", "]">>
      OBVIOUS
    <3>2. Opener[k] = o
      BY <2>2, <3>1 DEF Opener
    <3>3. Len(o) = 3
      BY <3>1
    <3>4. QED
      BY <3>2, <3>3
  <2>3. QED
    BY <1>1, <2>1, <2>2
<1>3. PICK x : x = Opener[k][1]
  OBVIOUS
<1>4. PICK y : y = Opener[k][2]
  OBVIOUS
<1>5. Recovered(k) = <<x, y, "nl">>
  BY <1>3, <1>4 DEF Recovered
<1>6. PICK r : r = <<x, y, "nl">>
  OBVIOUS
<1>7. Len(r) = 3
  BY <1>6
<1>8. r[1] = x /\ r[2] = y
  BY <1>6, FirstOfThree
<1>9. QED
  BY <1>2, <1>3, <1>4, <1>5, <1>6, <1>7, <1>8

LEMMA HeaderLengths ==
    /\ \A k \in Kinds : Len(Closer[k]) = 2
    /\ \A h \in Openings : Len(h) \in {2, 3}
    /\ \A h \in Closings : Len(h) = 2
<1>1. ASSUME NEW k \in Kinds PROVE Len(Closer[k]) = 2
  <2>1. CASE k = "text"
    <3>1. Closer[k] = <<"[/res", "ponse_text]">>
      BY <2>1 DEF Closer
    <3>2. QED
      BY <3>1
  <2>2. CASE k = "call"
    <3>1. Closer[k] = <<"[/to", "ol_call]">>
      BY <2>2 DEF Closer
    <3>2. QED
      BY <3>1
  <2>3. CASE k = "schema"
    <3>1. Closer[k] = <<"[/sch", "ema]">>
      BY <2>3 DEF Closer
    <3>2. QED
      BY <3>1
  <2>4. QED
    BY <2>1, <2>2, <2>3 DEF Kinds
<1>2. ASSUME NEW h \in Openings PROVE Len(h) \in {2, 3}
  <2>1. PICK k \in Kinds : h \in Opening(k)
    BY DEF Openings
  <2>2. CASE k = "text"
    <3>1. h = Opener["text"]
      BY <2>1, <2>2 DEF Opening
    <3>2. h = <<"[res", "ponse_text]">>
      BY <3>1 DEF Opener
    <3>3. QED
      BY <3>2
  <2>3. CASE k # "text"
    <3>1. h = Opener[k] \/ h = Recovered(k)
      BY <2>1, <2>3 DEF Opening
    <3>2. QED
      BY <2>3, <3>1, OpenerParts
  <2>4. QED
    BY <2>2, <2>3
<1>3. QED
  BY <1>1, <1>2 DEF Closings

(* An opening header is no closing one. *)
LEMMA OpeningsAreOpenings == Openings \cap Closings = {}
<1> SUFFICES ASSUME NEW h \in Openings, h \in Closings PROVE FALSE
  OBVIOUS
<1>1. Len(h) = 2
  BY HeaderLengths
<1>2. PICK k \in Kinds : h \in Opening(k)
  BY DEF Openings
<1>3. k = "text"
  <2>1. k # "text" => h = Opener[k] \/ h = Recovered(k)
    BY <1>2 DEF Opening
  <2>2. k # "text" => Len(h) = 3
    BY <2>1, OpenerParts
  <2>3. QED
    BY <1>1, <2>2
<1>4. h[1] = "[res"
  <2>1. PICK o : o = <<"[res", "ponse_text]">>
    OBVIOUS
  <2>2. o[1] = "[res"
    BY <2>1, FirstOfTwo
  <2>3. h = o
    BY <1>2, <1>3, <2>1 DEF Opening, Opener
  <2>4. QED
    BY <2>2, <2>3
<1>5. PICK c \in Kinds : h = Closer[c]
  BY DEF Closings
<1>6. h[1] \in {"[/res", "[/to", "[/sch"}
  <2>1. CASE c = "text"
    <3>1. PICK o : o = <<"[/res", "ponse_text]">>
      OBVIOUS
    <3>2. o[1] = "[/res"
      BY <3>1, FirstOfTwo
    <3>3. h = o
      BY <1>5, <2>1, <3>1 DEF Closer
    <3>4. QED
      BY <3>2, <3>3
  <2>2. CASE c = "call"
    <3>1. PICK o : o = <<"[/to", "ol_call]">>
      OBVIOUS
    <3>2. o[1] = "[/to"
      BY <3>1, FirstOfTwo
    <3>3. h = o
      BY <1>5, <2>2, <3>1 DEF Closer
    <3>4. QED
      BY <3>2, <3>3
  <2>3. CASE c = "schema"
    <3>1. PICK o : o = <<"[/sch", "ema]">>
      OBVIOUS
    <3>2. o[1] = "[/sch"
      BY <3>1, FirstOfTwo
    <3>3. h = o
      BY <1>5, <2>3, <3>1 DEF Closer
    <3>4. QED
      BY <3>2, <3>3
  <2>4. QED
    BY <2>1, <2>2, <2>3 DEF Kinds
<1>7. QED
  BY <1>4, <1>6

LEMMA SameStart ==
    ASSUME NEW E, NEW s, NEW t, s[1] = t[1], s[2] = t[2], s[1] \in E, s[2] \in E
    PROVE  SubSeq(s, 1, 2) = SubSeq(t, 1, 2)
<1>1. \A i \in 1..2 : i = 1 \/ i = 2
  OBVIOUS
<1>2. (\A i \in 1..2 : s[i] \in E) /\ (\A i \in 1..2 : t[i] \in E) /\ \A i \in 1..2 : s[i] = t[i]
  BY <1>1
<1>3. /\ SubSeq(s, 1, 2) \in Seq(E) /\ Len(SubSeq(s, 1, 2)) = 2
      /\ \A i \in 1..2 : SubSeq(s, 1, 2)[i] = s[1 + i - 1]
  BY <1>2, SubSeqProperties
<1>4. /\ SubSeq(t, 1, 2) \in Seq(E) /\ Len(SubSeq(t, 1, 2)) = 2
      /\ \A i \in 1..2 : SubSeq(t, 1, 2)[i] = t[1 + i - 1]
  BY <1>2, SubSeqProperties
<1>5. \A i \in 1..2 : 1 + i - 1 = i
  OBVIOUS
<1>6. \A i \in 1..2 : SubSeq(s, 1, 2)[i] = SubSeq(t, 1, 2)[i]
  BY <1>2, <1>3, <1>4, <1>5
<1>7. QED
  BY <1>3, <1>4, <1>6, SeqEqual

LEMMA KindOfHeader ==
    ASSUME NEW header, header \in Openings \/ Malformed(header)
    PROVE  KindOf(header) \in Kinds
<1>1. \E k \in Kinds : SubSeq(header, 1, 2) = SubSeq(Opener[k], 1, 2)
  <2>1. CASE header \in Openings
    <3>1. PICK k \in Kinds : header \in Opening(k)
      BY <2>1 DEF Openings
    <3>2. CASE header = Opener[k]
      BY <3>2
    <3>3. CASE header # Opener[k]
      <4>1. k # "text" /\ header = Recovered(k)
        BY <3>1, <3>3 DEF Opening
      <4>2. header[1] = Opener[k][1] /\ header[2] = Opener[k][2]
        BY <4>1, OpenerParts
      <4>3. SubSeq(header, 1, 2) = SubSeq(Opener[k], 1, 2)
        <5>1. PICK E : E = {header[1], header[2]}
          OBVIOUS
        <5>2. header[1] \in E /\ header[2] \in E
          BY <5>1
        <5>3. QED
          BY <4>2, <5>2, SameStart
      <4>4. QED
        BY <4>3
    <3>4. QED
      BY <3>2, <3>3
  <2>2. CASE Malformed(header)
    BY <2>2 DEF Malformed, Starts
  <2>3. QED
    BY <2>1, <2>2
<1>2. QED
  BY <1>1 DEF KindOf

LEMMA HeaderFits ==
    ASSUME NEW E, NEW t \in Seq(E), NEW p \in 1..Len(t), NEW final
    PROVE  /\ Len(Header(t, p, final)) \in Nat
           /\ p + Len(Header(t, p, final)) <= Len(t) + 1
<1> DEFINE ends == {q \in p..Len(t) : t[q] \in Brackets \/ (final /\ t[q] = "nl")}
           h == Header(t, p, final)
<1>1. Len(t) \in Nat /\ DOMAIN t = 1..Len(t)
  BY LenProperties
<1>2. h = IF t[p] \notin Firsts \/ ends = {} THEN <<>> ELSE SubSeq(t, p, S!Min(ends))
  BY DEF Header
<1>3. CASE h = <<>>
  <2>1. Len(h) = 0
    <3> HIDE DEF h
    <3>1. QED
      BY <1>3, EmptySeq
  <2> HIDE DEF h
  <2>2. Len(h) \in Nat /\ p + Len(h) <= Len(t) + 1
    BY <1>1, <2>1
  <2>3. QED
    BY <2>2 DEF h
<1>4. CASE ends # {} /\ h = SubSeq(t, p, S!Min(ends))
  <2>1. ends \in SUBSET Nat /\ ends \in SUBSET (p..Len(t))
    BY <1>1
  <2>2. S!Min(ends) \in ends
    <3> HIDE DEF ends
    <3>1. QED
      BY <1>4, <2>1, MinOf
  <2>3. PICK m : m = S!Min(ends)
    OBVIOUS
  <2>4. m \in p..Len(t)
    BY <2>1, <2>2, <2>3
  <2>5. \A i \in p..m : t[i] \in E
    <3>1. ASSUME NEW i \in p..m PROVE i \in 1..Len(t)
      BY <1>1, <2>4
    <3>2. QED
      BY <3>1, ElementOfSeq
  <2>6. Len(SubSeq(t, p, m)) = m - p + 1
    BY <1>1, <2>4, <2>5, SubSeqProperties
  <2>7. m - p + 1 \in Nat /\ p + (m - p + 1) <= Len(t) + 1
    BY <1>1, <2>4
  <2>8. QED
    <3> HIDE DEF h, ends
    <3>1. Len(h) = m - p + 1
      BY <1>4, <2>3, <2>6
    <3>2. QED
      BY <2>7, <3>1 DEF h
<1>5. QED
  BY <1>2, <1>3, <1>4
LEMMA EndsFits ==
    ASSUME NEW E, NEW t \in Seq(E), NEW p \in 1..Len(t), NEW final
    PROVE  /\ Begins(t, p, final) = p + Len(Header(t, p, final))
           /\ Begins(t, p, final) \in p..(Len(t) + 1)
           /\ Ends(t, p, final) \in Begins(t, p, final)..(Len(t) + 1)
<1> DEFINE begin == Begins(t, p, final)
           bounds == {q \in begin..Len(t) : Boundary(t, q, final)} \cup {Len(t) + 1}
           end == Ends(t, p, final)
<1>1. Len(t) \in Nat
  BY LenProperties
<1>2. begin = p + Len(Header(t, p, final)) /\ begin \in p..(Len(t) + 1)
  <2>1. Len(Header(t, p, final)) \in Nat /\ p + Len(Header(t, p, final)) <= Len(t) + 1
    BY HeaderFits
  <2>2. begin = p + Len(Header(t, p, final))
    BY DEF Begins
  <2> HIDE DEF begin
  <2>3. QED
    BY <1>1, <2>1, <2>2
<1>3. end = S!Min(bounds)
  BY DEF Ends
<1>4. QED
  <2> HIDE DEF begin, end
  <2>1. /\ bounds \in SUBSET Nat /\ bounds # {}
        /\ \A q \in bounds : q \in begin..(Len(t) + 1)
    BY <1>1, <1>2
  <2>2. end \in bounds
    <3> HIDE DEF bounds
    <3>1. QED
      BY <1>3, <2>1, MinOf
  <2>3. end \in begin..(Len(t) + 1)
    <3> HIDE DEF bounds
    <3>1. QED
      BY <2>1, <2>2
  <2>4. QED
    BY <1>2, <2>3 DEF begin, end

LEMMA AfterForward ==
    ASSUME NEW E, NEW t \in Seq(E), NEW p \in 1..Len(t), NEW final
    PROVE  After(t, p, final) \in (p + 1)..(Len(t) + 1)
<1>1. Len(t) \in Nat
  BY LenProperties
<1>2. PICK header : header = Header(t, p, final)
  OBVIOUS
<1>3. PICK n : n = Len(header)
  OBVIOUS
<1>4. n \in Nat /\ p + n <= Len(t) + 1
  BY <1>2, <1>3, HeaderFits
<1>5. CASE UnfinishedAt(t, p, final)
  <2>1. header = <<>>
    BY <1>2, <1>5 DEF UnfinishedAt
  <2>2. n = 0
    BY <1>3, <2>1
  <2>3. header \notin Openings /\ ~Malformed(header) /\ header \notin Closings
    <3>1. header \in Openings => n \in {2, 3}
      BY <1>3, HeaderLengths
    <3>2. Malformed(header) => n > 2
      BY <1>3 DEF Malformed
    <3>3. header \in Closings => n = 2
      BY <1>3, HeaderLengths
    <3>4. QED
      BY <2>2, <3>1, <3>2, <3>3
  <2>4. After(t, p, final) = Len(t) + 1
    BY <1>2, <1>5, <2>3 DEF After
  <2>5. QED
    BY <1>1, <2>4
<1>6. CASE ~UnfinishedAt(t, p, final) /\ (header \in Openings \/ Malformed(header))
  <2>1. n >= 1
    <3>1. n \in {2, 3} \/ n > 2
      BY <1>3, <1>6, HeaderLengths DEF Malformed
    <3>2. QED
      BY <1>4, <3>1
  <2>2. PICK q : q = Ends(t, p, final)
    OBVIOUS
  <2>3. PICK k : k = KindOf(header)
    OBVIOUS
  <2>4. k \in Kinds
    BY <1>6, <2>3, KindOfHeader
  <2>5. Len(Closer[k]) = 2
    BY <2>4, HeaderLengths
  <2>6. q \in (p + 1)..(Len(t) + 1)
    <3>1. PICK begin : begin = Begins(t, p, final)
      OBVIOUS
    <3>2. begin = p + n /\ q \in begin..(Len(t) + 1)
      BY <1>2, <1>3, <2>2, <3>1, EndsFits
    <3>3. QED
      BY <1>1, <1>4, <2>1, <3>2
  <2>7. After(t, p, final) = AfterBlock(t, q, k)
    <3>1. header \notin Closings
      <4>1. Malformed(header) => n > 2
        BY <1>3 DEF Malformed
      <4>2. header \in Closings => n = 2
        BY <1>3, HeaderLengths
      <4>3. QED
        BY <1>6, <4>1, <4>2, OpeningsAreOpenings
    <3>2. QED
      BY <1>2, <1>6, <2>2, <2>3, <3>1 DEF After
  <2>8. AfterBlock(t, q, k) \in (p + 1)..(Len(t) + 1)
    <3>1. CASE StartsWith(t, q, Closer[k])
      <4>1. q + 2 - 1 <= Len(t)
        BY <2>5, <3>1 DEF StartsWith
      <4>2. AfterBlock(t, q, k) = q + 2
        BY <2>5, <3>1 DEF AfterBlock
      <4>3. QED
        BY <1>1, <2>6, <4>1, <4>2
    <3>2. CASE ~StartsWith(t, q, Closer[k])
      BY <2>6, <3>2 DEF AfterBlock
    <3>3. QED
      BY <3>1, <3>2
  <2>9. QED
    BY <2>7, <2>8
<1>7. CASE /\ ~UnfinishedAt(t, p, final) /\ header \notin Openings /\ ~Malformed(header)
           /\ header \in Closings
  <2>1. n = 2
    BY <1>3, <1>7, HeaderLengths
  <2>2. After(t, p, final) = p + n
    BY <1>2, <1>3, <1>7 DEF After
  <2>3. QED
    BY <1>1, <1>4, <2>1, <2>2
<1>8. CASE /\ ~UnfinishedAt(t, p, final) /\ header \notin Openings /\ ~Malformed(header)
           /\ header \notin Closings
  <2>1. After(t, p, final) = p + 1
    BY <1>2, <1>8 DEF After
  <2>2. QED
    BY <1>1, <2>1
<1>9. QED
  BY <1>5, <1>6, <1>7, <1>8

LEMMA BehindForward ==
    ASSUME NEW E, NEW s \in Seq(E), NEW p \in 1..Len(s)
    PROVE  Behind(s, p) \in (p + 1)..(Len(s) + 1)
<1> DEFINE stops == {q \in (p + 2)..Len(s) : s[q] \in Brackets \cup Firsts \cup {"nl"}}
<1>1. Len(s) \in Nat
  BY LenProperties
<1>2. PICK stop : stop = S!Min(stops)
  OBVIOUS
<1>3. Behind(s, p) = CASE Closes(s, p) -> p + 2
                       [] Heads(s, p) -> IF stops = {} THEN Len(s) + 1
                                         ELSE IF s[stop] \in Firsts THEN stop ELSE stop + 1
                       [] OTHER -> p + 1
  BY <1>2 DEF Behind
<1>4. Closes(s, p) => p + 2 \in (p + 1)..(Len(s) + 1)
  <2>1. ASSUME Closes(s, p) PROVE p + 2 - 1 <= Len(s)
    <3>1. PICK closer \in Closings : StartsWith(s, p, closer)
      BY <2>1 DEF Closes
    <3>2. Len(closer) = 2
      BY HeaderLengths
    <3>3. QED
      BY <3>1, <3>2 DEF StartsWith
  <2>2. QED
    BY <1>1, <2>1
<1>5. stops # {} => stop \in (p + 1)..(Len(s) + 1) /\ stop + 1 \in (p + 1)..(Len(s) + 1)
  <2>1. stops \in SUBSET Nat /\ \A q \in stops : q \in (p + 2)..Len(s)
    BY <1>1
  <2>2. stops # {} => stop \in stops
    <3> HIDE DEF stops
    <3>1. QED
      BY <1>2, <2>1, MinOf
  <2>3. stops # {} => stop \in (p + 2)..Len(s)
    <3> HIDE DEF stops
    <3>1. QED
      BY <2>1, <2>2
  <2> HIDE DEF stops
  <2>4. QED
    BY <1>1, <2>3
<1>6. Len(s) + 1 \in (p + 1)..(Len(s) + 1) /\ p + 1 \in (p + 1)..(Len(s) + 1)
  BY <1>1
<1>7. PICK R : R = (p + 1)..(Len(s) + 1)
  OBVIOUS
<1>8. Behind(s, p) \in R
  <2> HIDE DEF stops
  <2>1. QED
    BY <1>3, <1>4, <1>5, <1>6, <1>7
<1>9. QED
  BY <1>7, <1>8
-----------------------------------------------------------------------------
(* What a scan returns. *)

Blocks(E, K) == [kind : K, content : Seq(E), bracket : BOOLEAN]

LEMMA OpenedTyped ==
    ASSUME NEW E, NEW t \in Seq(E), NEW p \in 1..Len(t), NEW final,
           NEW K, KindOf(Header(t, p, final)) \in K
    PROVE  OpenedAt(t, p, final) \in Blocks(E, K)
<1> DEFINE begin == Begins(t, p, final)
           end == Ends(t, p, final)
<1>1. Len(t) \in Nat
  BY LenProperties
<1>2. begin \in p..(Len(t) + 1) /\ end \in begin..(Len(t) + 1)
  BY EndsFits
<1> HIDE DEF begin, end
<1>3. begin \in Nat /\ begin >= 1 /\ end \in Nat /\ end <= Len(t) + 1
  BY <1>1, <1>2
<1>4. \A i \in begin..(end - 1) : t[i] \in E
  <2>1. ASSUME NEW i \in begin..(end - 1) PROVE i \in 1..Len(t)
    BY <1>1, <1>3
  <2>2. QED
    BY <2>1, ElementOfSeq
<1>5. SubSeq(t, begin, end - 1) \in Seq(E)
  BY <1>3, <1>4, SubSeqProperties
<1>6. Trim(SubSeq(t, begin, end - 1)) \in Seq(E)
  BY <1>5, TrimTyped
<1>7. QED
  BY <1>6 DEF OpenedAt, Block, Blocks, begin, end

LEMMA ImplicitTyped ==
    ASSUME NEW E, NEW chat \in Seq(E), NEW K, "text" \in K
    PROVE  Implicit(chat) \in Seq(Blocks(E, K))
<1>1. [kind |-> "text", content |-> chat, bracket |-> chat[1] \in Firsts] \in Blocks(E, K)
  BY DEF Blocks
<1>2. QED
  BY <1>1, EmptySeq DEF Implicit

(* What there is from a place on: text outside of blocks, then blocks. *)
Pasts(E, K) == [chat : Seq(E), blocks : Seq(Blocks(E, K))]

LEMMA FromTyped ==
    ASSUME NEW E, NEW t \in Seq(E), NEW p \in 1..Len(t), NEW final,
           NEW K, "text" \in K, KindOf(Header(t, p, final)) \in K, NEW past \in Pasts(E, K)
    PROVE  From(t, p, final, past) \in Pasts(E, K)
<1>1. past.chat \in Seq(E) /\ past.blocks \in Seq(Blocks(E, K))
  BY DEF Pasts
<1>2. [chat |-> <<>>, blocks |-> <<>>] \in Pasts(E, K)
  BY EmptySeq DEF Pasts
<1>3. PICK opened : opened = OpenedAt(t, p, final)
  OBVIOUS
<1>4. [chat |-> <<>>, blocks |-> <<opened>> \o Implicit(Trim(past.chat)) \o past.blocks]
         \in Pasts(E, K)
  <2>1. PICK implicit : implicit = Implicit(Trim(past.chat))
    OBVIOUS
  <2>2. implicit \in Seq(Blocks(E, K))
    BY <1>1, <2>1, TrimTyped, ImplicitTyped
  <2>3. opened \in Blocks(E, K)
    BY <1>3, OpenedTyped
  <2>4. <<opened>> \in Seq(Blocks(E, K))
    BY <2>3
  <2>5. <<opened>> \o implicit \in Seq(Blocks(E, K))
    BY <2>2, <2>4, ConcatProperties
  <2>6. <<opened>> \o implicit \o past.blocks \in Seq(Blocks(E, K))
    BY <1>1, <2>5, ConcatProperties
  <2>7. QED
    BY <2>1, <2>6, EmptySeq DEF Pasts
<1>5. [past EXCEPT !.chat = <<t[p]>> \o @] \in Pasts(E, K)
  <2>1. t[p] \in E
    BY ElementOfSeq
  <2>2. <<t[p]>> \in Seq(E)
    BY <2>1
  <2>3. <<t[p]>> \o past.chat \in Seq(E)
    BY <1>1, <2>2, ConcatProperties
  <2>4. QED
    BY <2>3 DEF Pasts
<1>6. QED
  BY <1>2, <1>3, <1>4, <1>5 DEF From

(* What the scan finds from each place on. *)
Scans(t, final, from) ==
    /\ from[Len(t) + 1] = [chat |-> <<>>, blocks |-> <<>>]
    /\ \A p \in 1..Len(t) : from[p] = From(t, p, final, from[After(t, p, final)])
    /\ All(t, final) = Implicit(Trim(from[1].chat)) \o from[1].blocks

LEMMA ScanExists ==
    ASSUME NEW E, NEW t \in Seq(E), NEW final,
           NEW K, "text" \in K, \A p \in 1..Len(t) : KindOf(Header(t, p, final)) \in K
    PROVE  \E from : Scans(t, final, from) /\ \A p \in 1..(Len(t) + 1) : from[p] \in Pasts(E, K)
<1> DEFINE n == Len(t)
           V == Pasts(E, K)
           end == [chat |-> <<>>, blocks |-> <<>>]
           next == [p \in 1..n |-> After(t, p, final)]
           G == [x \in (1..n) \X V |-> From(t, x[1], final, x[2])]
           Body(f, p) == IF p > n THEN end ELSE From(t, p, final, f[After(t, p, final)])
           from == CHOOSE f : f = [p \in 1..(n + 1) |-> Body(f, p)]
<1>1. n \in Nat
  BY LenProperties
<1>2. Forward(n, next)
  BY AfterForward DEF Forward
<1>3. end \in V
  BY EmptySeq DEF Pasts
<1>4. G \in [(1..n) \X V -> V]
  <2>1. ASSUME NEW x \in (1..n) \X V PROVE From(t, x[1], final, x[2]) \in V
    <3>1. x[1] \in 1..n /\ x[2] \in V
      OBVIOUS
    <3>2. QED
      BY <3>1, FromTyped
  <2> HIDE DEF V
  <2>2. QED
    BY <2>1
<1>5. PICK f \in [1..(n + 1) -> V] : Goes(n, next, end, G, f)
  <2> HIDE DEF n, V, end, next, G
  <2>1. QED
    BY <1>1, <1>2, <1>3, <1>4, ForwardExists
<1>6. \A p \in 1..n : next[p] = After(t, p, final) /\ next[p] \in 1..(n + 1)
  <2>1. ASSUME NEW p \in 1..n PROVE next[p] \in 1..(n + 1)
    <3>1. next[p] \in (p + 1)..(n + 1)
      BY <1>2 DEF Forward
    <3> HIDE DEF next, n
    <3>2. QED
      BY <1>1, <3>1
  <2>2. QED
    BY <2>1
<1>7. ASSUME NEW p \in 1..(n + 1) PROVE f[p] = Body(f, p)
  <2>1. CASE p > n
    BY <1>5, <2>1 DEF Goes
  <2>2. CASE ~(p > n)
    <3>1. p \in 1..n
      BY <1>1, <2>2
    <3>2. f[p] = G[<<p, f[next[p]]>>]
      <4> HIDE DEF G, next, end, n
      <4>1. QED
        BY <1>5, <2>2 DEF Goes
    <3>3. PICK v : v = f[next[p]]
      OBVIOUS
    <3>4. v \in V
      <4> HIDE DEF V, next, n
      <4>1. QED
        BY <1>5, <1>6, <3>1, <3>3
    <3>5. G[<<p, v>>] = From(t, p, final, v)
      <4>1. <<p, v>> \in (1..n) \X V
        BY <3>1, <3>4
      <4> HIDE DEF V
      <4>2. QED
        BY <4>1
    <3>6. v = f[After(t, p, final)]
      BY <1>6, <3>1, <3>3
    <3> HIDE DEF G, next, end, n
    <3>7. QED
      BY <2>2, <3>2, <3>3, <3>5, <3>6
  <2>3. QED
    BY <2>1, <2>2
<1>8. f = [p \in 1..(n + 1) |-> Body(f, p)]
  <2>1. f = [p \in 1..(n + 1) |-> f[p]]
    BY <1>5
  <2> HIDE DEF Body, n
  <2>2. QED
    BY <1>7, <2>1
<1>9. from = [p \in 1..(n + 1) |-> Body(from, p)]
  <2> HIDE DEF Body, n
  <2>1. \E g : g = [p \in 1..(n + 1) |-> Body(g, p)]
    BY <1>8
  <2>2. QED
    BY <2>1
<1>10. All(t, final) = Implicit(Trim(from[1].chat)) \o from[1].blocks
  BY DEF All
<1> HIDE DEF from
<1> DEFINE T == {p \in 1..(n + 1) : from[p] \in V}
<1>11. n + 1 \in T
  <2>1. n + 1 \in 1..(n + 1) /\ n + 1 > n
    <3> HIDE DEF n
    <3>1. QED
      BY <1>1
  <2>2. from[n + 1] = end
    <3> HIDE DEF n, end
    <3>1. QED
      BY <1>9, <2>1
  <2>3. QED
    BY <1>3, <2>1, <2>2
<1>12. ASSUME NEW p \in 1..n, next[p] \in T PROVE p \in T
  <2>1. p \in 1..(n + 1) /\ ~(p > n)
    <3> HIDE DEF n
    <3>1. QED
      BY <1>1
  <2>2. from[p] = From(t, p, final, from[After(t, p, final)])
    <3> HIDE DEF n, end
    <3>1. QED
      BY <1>9, <2>1
  <2>3. from[After(t, p, final)] \in V
    BY <1>6, <1>12
  <2>4. From(t, p, final, from[After(t, p, final)]) \in V
    BY <2>3, FromTyped
  <2>5. QED
    BY <2>1, <2>2, <2>4
<1>13. \A p \in 1..(n + 1) : from[p] \in V
  <2>1. 1..(n + 1) \subseteq T
    <3> HIDE DEF T, next, n
    <3>1. QED
      BY <1>1, <1>2, <1>11, <1>12, Backwards
  <2>2. QED
    BY <2>1
<1>14. Scans(t, final, from)
  <2>1. from[n + 1] = end
    <3>1. n + 1 \in 1..(n + 1) /\ n + 1 > n
      <4> HIDE DEF n
      <4>1. QED
        BY <1>1
    <3> HIDE DEF n, end
    <3>2. QED
      BY <1>9, <3>1
  <2>2. ASSUME NEW p \in 1..n PROVE from[p] = From(t, p, final, from[After(t, p, final)])
    <3>1. p \in 1..(n + 1) /\ ~(p > n)
      <4> HIDE DEF n
      <4>1. QED
        BY <1>1
    <3> HIDE DEF n, end
    <3>2. QED
      BY <1>9, <3>1
  <2>3. QED
    BY <1>10, <2>1, <2>2 DEF Scans
<1>15. QED
  BY <1>13, <1>14

LEMMA AllTyped ==
    ASSUME NEW E, NEW t \in Seq(E), NEW final,
           NEW K, "text" \in K, \A p \in 1..Len(t) : KindOf(Header(t, p, final)) \in K
    PROVE  All(t, final) \in Seq(Blocks(E, K))
<1>1. PICK from : Scans(t, final, from) /\ \A p \in 1..(Len(t) + 1) : from[p] \in Pasts(E, K)
  BY ScanExists
<1>2. 1 \in 1..(Len(t) + 1)
  BY LenProperties
<1>3. from[1].chat \in Seq(E) /\ from[1].blocks \in Seq(Blocks(E, K))
  BY <1>1, <1>2 DEF Pasts
<1>4. Implicit(Trim(from[1].chat)) \in Seq(Blocks(E, K))
  BY <1>3, TrimTyped, ImplicitTyped
<1>5. QED
  BY <1>1, <1>3, <1>4, ConcatProperties DEF Scans

LEMMA AnswersTyped ==
    ASSUME NEW B, NEW blocks \in Seq(B)
    PROVE  Answers(blocks) \in Seq(B)
<1>1. Len(blocks) \in Nat /\ DOMAIN blocks = 1..Len(blocks)
  BY LenProperties
<1> DEFINE f == [i \in DOMAIN blocks |-> IF blocks[i].bracket THEN <<blocks[i]>> ELSE <<>>]
<1>2. ASSUME NEW i \in 1..Len(blocks) PROVE <<blocks[i]>> \in Seq(B)
  <2>1. blocks[i] \in B
    BY ElementOfSeq
  <2>2. QED
    BY <2>1
<1>3. f \in [1..Len(blocks) -> Seq(B)]
  BY <1>1, <1>2, EmptySeq
<1> HIDE DEF f
<1>4. S!FlattenSeq(f) \in Seq(B)
  BY <1>1, <1>3, GatherTyped
<1>5. QED
  BY <1>4 DEF Answers, f

(* What is left of a text from each place on. *)
Strips(s, from) ==
    /\ from[Len(s) + 1] = <<>>
    /\ \A p \in 1..Len(s) :
          from[p] = (IF Closes(s, p) \/ Heads(s, p) THEN <<>> ELSE <<s[p]>>) \o from[Behind(s, p)]
    /\ Strip(s) = from[1]

LEMMA StripExists ==
    ASSUME NEW E, NEW s \in Seq(E)
    PROVE  \E from : Strips(s, from) /\ \A p \in 1..(Len(s) + 1) : from[p] \in Seq(E)
<1> DEFINE n == Len(s)
           V == Seq(E)
           Here(p) == IF Closes(s, p) \/ Heads(s, p) THEN <<>> ELSE <<s[p]>>
           next == [p \in 1..n |-> Behind(s, p)]
           G == [x \in (1..n) \X V |-> Here(x[1]) \o x[2]]
           Body(f, p) == IF p > n THEN <<>> ELSE Here(p) \o f[Behind(s, p)]
           from == CHOOSE f : f = [p \in 1..(n + 1) |-> Body(f, p)]
<1>1. n \in Nat
  BY LenProperties
<1>2. Forward(n, next)
  BY BehindForward DEF Forward
<1>3. <<>> \in V
  BY EmptySeq
<1>4. ASSUME NEW p \in 1..n, NEW v \in V PROVE Here(p) \o v \in V
  <2>1. s[p] \in E
    BY ElementOfSeq
  <2>2. <<s[p]>> \in Seq(E)
    BY <2>1
  <2>3. Here(p) \in Seq(E)
    BY <2>2, EmptySeq
  <2> HIDE DEF Here
  <2>4. QED
    BY <2>3, ConcatProperties
<1> HIDE DEF Here
<1>5. G \in [(1..n) \X V -> V]
  <2>1. ASSUME NEW x \in (1..n) \X V PROVE Here(x[1]) \o x[2] \in V
    <3>1. x[1] \in 1..n /\ x[2] \in V
      OBVIOUS
    <3> HIDE DEF V, n
    <3>2. QED
      BY <1>4, <3>1
  <2> HIDE DEF V
  <2>2. QED
    BY <2>1
<1>6. PICK f \in [1..(n + 1) -> V] : Goes(n, next, <<>>, G, f)
  <2> HIDE DEF n, V, next, G
  <2>1. QED
    BY <1>1, <1>2, <1>3, <1>5, ForwardExists
<1>7. \A p \in 1..n : next[p] = Behind(s, p) /\ next[p] \in 1..(n + 1)
  <2>1. ASSUME NEW p \in 1..n PROVE next[p] \in 1..(n + 1)
    <3>1. next[p] \in (p + 1)..(n + 1)
      BY <1>2 DEF Forward
    <3> HIDE DEF next, n
    <3>2. QED
      BY <1>1, <3>1
  <2>2. QED
    BY <2>1
<1>8. ASSUME NEW p \in 1..(n + 1) PROVE f[p] = Body(f, p)
  <2>1. CASE p > n
    BY <1>6, <2>1 DEF Goes
  <2>2. CASE ~(p > n)
    <3>1. p \in 1..n
      BY <1>1, <2>2
    <3>2. f[p] = G[<<p, f[next[p]]>>]
      <4> HIDE DEF G, next, n
      <4>1. QED
        BY <1>6, <2>2 DEF Goes
    <3>3. PICK v : v = f[next[p]]
      OBVIOUS
    <3>4. v \in V
      <4> HIDE DEF V, next, n
      <4>1. QED
        BY <1>6, <1>7, <3>1, <3>3
    <3>5. G[<<p, v>>] = Here(p) \o v
      <4>1. <<p, v>> \in (1..n) \X V
        BY <3>1, <3>4
      <4> HIDE DEF V
      <4>2. QED
        BY <4>1
    <3>6. v = f[Behind(s, p)]
      BY <1>7, <3>1, <3>3
    <3> HIDE DEF G, next, n
    <3>7. QED
      BY <2>2, <3>2, <3>3, <3>5, <3>6
  <2>3. QED
    BY <2>1, <2>2
<1>9. f = [p \in 1..(n + 1) |-> Body(f, p)]
  <2>1. f = [p \in 1..(n + 1) |-> f[p]]
    BY <1>6
  <2> HIDE DEF Body, n
  <2>2. QED
    BY <1>8, <2>1
<1>10. from = [p \in 1..(n + 1) |-> Body(from, p)]
  <2> HIDE DEF Body, n
  <2>1. \E g : g = [p \in 1..(n + 1) |-> Body(g, p)]
    BY <1>9
  <2>2. QED
    BY <2>1
<1>11. Strip(s) = from[1]
  BY DEF Strip, Here
<1> HIDE DEF from
<1> DEFINE T == {p \in 1..(n + 1) : from[p] \in V}
<1>12. n + 1 \in T
  <2>1. n + 1 \in 1..(n + 1) /\ n + 1 > n
    <3> HIDE DEF n
    <3>1. QED
      BY <1>1
  <2>2. from[n + 1] = <<>>
    <3> HIDE DEF n
    <3>1. QED
      BY <1>10, <2>1
  <2>3. QED
    BY <1>3, <2>1, <2>2
<1>13. ASSUME NEW p \in 1..n, next[p] \in T PROVE p \in T
  <2>1. p \in 1..(n + 1) /\ ~(p > n)
    <3> HIDE DEF n
    <3>1. QED
      BY <1>1
  <2>2. from[p] = Here(p) \o from[Behind(s, p)]
    <3> HIDE DEF n
    <3>1. QED
      BY <1>10, <2>1
  <2>3. from[Behind(s, p)] \in V
    BY <1>7, <1>13
  <2>4. Here(p) \o from[Behind(s, p)] \in V
    <3> HIDE DEF V, n
    <3>1. QED
      BY <1>4, <1>13, <2>3
  <2>5. QED
    BY <2>1, <2>2, <2>4
<1>14. \A p \in 1..(n + 1) : from[p] \in V
  <2>1. 1..(n + 1) \subseteq T
    <3> HIDE DEF T, next, n
    <3>1. QED
      BY <1>1, <1>2, <1>12, <1>13, Backwards
  <2>2. QED
    BY <2>1
<1>15. Strips(s, from)
  <2>1. from[n + 1] = <<>>
    <3>1. n + 1 \in 1..(n + 1) /\ n + 1 > n
      <4> HIDE DEF n
      <4>1. QED
        BY <1>1
    <3> HIDE DEF n
    <3>2. QED
      BY <1>10, <3>1
  <2>2. ASSUME NEW p \in 1..n PROVE from[p] = Here(p) \o from[Behind(s, p)]
    <3>1. p \in 1..(n + 1) /\ ~(p > n)
      <4> HIDE DEF n
      <4>1. QED
        BY <1>1
    <3> HIDE DEF n
    <3>2. QED
      BY <1>10, <3>1
  <2>3. QED
    BY <1>11, <2>1, <2>2 DEF Strips, Here
<1>16. QED
  BY <1>14, <1>15

LEMMA StripTyped ==
    ASSUME NEW E, NEW s \in Seq(E)
    PROVE  Strip(s) \in Seq(E)
<1>1. PICK from : Strips(s, from) /\ \A p \in 1..(Len(s) + 1) : from[p] \in Seq(E)
  BY StripExists
<1>2. 1 \in 1..(Len(s) + 1)
  BY LenProperties
<1>3. QED
  BY <1>1, <1>2 DEF Strips

LEMMA FoundTyped ==
    ASSUME NEW E, NEW t \in Seq(E), NEW final
    PROVE  \E K : Found(t, final) \in Seq(Blocks(E, K))
<1> DEFINE K == {"text"} \cup {KindOf(Header(t, p, final)) : p \in 1..Len(t)}
<1>1. "text" \in K /\ \A p \in 1..Len(t) : KindOf(Header(t, p, final)) \in K
  OBVIOUS
<1> HIDE DEF K
<1>2. Scan(t, final) \in Seq(Blocks(E, K))
  <2>1. All(t, final) \in Seq(Blocks(E, K))
    BY <1>1, AllTyped
  <2>2. QED
    BY <2>1, AnswersTyped DEF Scan
<1>3. Fallback(t, final) \in Seq(Blocks(E, K))
  <2>1. Trim(Strip(t)) \in Seq(E)
    BY StripTyped, TrimTyped
  <2>2. PICK text : text = Trim(Strip(t))
    OBVIOUS
  <2>3. [kind |-> "text", content |-> text, bracket |-> FALSE] \in Blocks(E, K)
    BY <1>1, <2>1, <2>2 DEF Blocks
  <2>4. QED
    BY <2>2, <2>3, EmptySeq DEF Fallback
<1>4. Found(t, final) \in Seq(Blocks(E, K))
  BY <1>2, <1>3 DEF Found
<1>5. QED
  BY <1>4

-----------------------------------------------------------------------------
(* What the host has to add. *)

LEMMA SliceTyped ==
    ASSUME NEW E, NEW s \in Seq(E), NEW n \in Nat
    PROVE  SubSeq(s, n + 1, Len(s)) \in Seq(E)
<1>1. Len(s) \in Nat
  BY LenProperties
<1>2. \A i \in (n + 1)..Len(s) : s[i] \in E
  <2>1. ASSUME NEW i \in (n + 1)..Len(s) PROVE i \in 1..Len(s)
    BY <1>1
  <2>2. QED
    BY <2>1, ElementOfSeq
<1>3. QED
  BY <1>1, <1>2, SubSeqProperties

(* It is an end of the text, and the rest of what extends the text before. *)
LEMMA DeltaIs ==
    ASSUME NEW E, NEW previous \in Seq(E), NEW text \in Seq(E)
    PROVE  /\ Delta(previous, text) \in Seq(E)
           /\ \E u \in Seq(E) : text = u \o Delta(previous, text)
           /\ IsPrefix(previous, text) => text = previous \o Delta(previous, text)
<1> DEFINE n == Len(previous)
           d == SubSeq(text, n + 1, Len(text))
<1>1. n \in Nat /\ Len(text) \in Nat
  BY LenProperties
<1>2. CASE IsPrefix(previous, text)
  <2>1. Delta(previous, text) = d
    BY <1>2 DEF Delta
  <2>2. d \in Seq(E)
    BY <1>1, SliceTyped
  <2>3. n <= Len(text) /\ SubSeq(text, 1, n) = previous
    BY <1>2 DEF IsPrefix
  <2>4. text = previous \o d
    <3>1. 1 \in 1..(Len(text) + 1) /\ n \in (1 - 1)..Len(text) /\ Len(text) \in n..Len(text)
      BY <1>1, <2>3
    <3>2. SubSeq(text, 1, n) \o SubSeq(text, n + 1, Len(text)) = SubSeq(text, 1, Len(text))
      <4> HIDE DEF n
      <4>1. QED
        BY <3>1, ConcatAdjacentSubSeq
    <3>3. SubSeq(text, 1, Len(text)) = text
      BY SubSeqFull
    <3>4. QED
      BY <2>3, <3>2, <3>3
  <2>5. QED
    BY <2>1, <2>2, <2>4
<1>3. CASE ~IsPrefix(previous, text)
  <2>1. Delta(previous, text) = text
    BY <1>3 DEF Delta
  <2>2. text = <<>> \o text /\ <<>> \in Seq(E)
    BY ConcatEmptySeq, EmptySeq
  <2>3. QED
    BY <1>3, <2>1, <2>2
<1>4. QED
  BY <1>2, <1>3

InAnyOrder(s, t, u) == (s \o t) \o u = s \o (t \o u)

LEMMA Associative ==
    ASSUME NEW E, NEW s \in Seq(E), NEW t \in Seq(E), NEW u \in Seq(E)
    PROVE  InAnyOrder(s, t, u)
BY ConcatAssociative DEF InAnyOrder

LEMMA SuffixOf ==
    ASSUME NEW E, NEW u \in Seq(E), NEW s \in Seq(E)
    PROVE  S!IsSuffix(s, u \o s)
<1> DEFINE t == u \o s
           a == Len(u)
           n == Len(s)
           r == S!Reverse(s)
           q == S!Reverse(t)
<1>1. a \in Nat /\ n \in Nat
  BY LenProperties
<1>2. /\ t \in Seq(E) /\ Len(t) = a + n
      /\ \A i \in 1..(a + n) : t[i] = IF i <= a THEN u[i] ELSE s[i - a]
  BY ConcatProperties
<1> HIDE DEF t
<1>3. r = [i \in 1..n |-> s[(n - i) + 1]] /\ q = [i \in 1..(a + n) |-> t[((a + n) - i) + 1]]
  BY <1>2 DEF S!Reverse
<1>4. ASSUME NEW i \in 1..n PROVE (n - i) + 1 \in 1..n
  BY <1>1
<1>5. ASSUME NEW i \in 1..(a + n) PROVE ((a + n) - i) + 1 \in 1..(a + n)
  BY <1>1
<1>6. r \in Seq(E) /\ Len(r) = n
  <2>1. r \in [1..n -> E]
    BY <1>3, <1>4, ElementOfSeq
  <2> HIDE DEF r, n
  <2>2. QED
    BY <1>1, <2>1, SeqOf
<1>7. q \in Seq(E) /\ Len(q) = a + n
  <2>1. \A i \in 1..(a + n) : t[((a + n) - i) + 1] \in E
    BY <1>2, <1>5, ElementOfSeq
  <2>2. q \in [1..(a + n) -> E]
    BY <1>3, <2>1
  <2>3. a + n \in Nat
    BY <1>1
  <2> HIDE DEF q, n, a
  <2>4. QED
    BY <2>2, <2>3, SeqOf
<1>8. ASSUME NEW i \in 1..n PROVE r[i] = q[i]
  <2>1. i \in 1..(a + n) /\ ~(((a + n) - i) + 1 <= a) /\ (((a + n) - i) + 1) - a = (n - i) + 1
    BY <1>1
  <2>2. r[i] = s[(n - i) + 1]
    BY <1>3
  <2>3. q[i] = t[((a + n) - i) + 1]
    BY <1>3, <2>1
  <2>4. ((a + n) - i) + 1 \in 1..(a + n)
    BY <1>5, <2>1
  <2>5. t[((a + n) - i) + 1] = s[(n - i) + 1]
    BY <1>2, <2>1, <2>4
  <2>6. QED
    BY <2>2, <2>3, <2>5
<1>9. SubSeq(r, 1, n) = SubSeq(q, 1, n)
  <2>1. \A i \in 1..n : r[i] \in E /\ q[i] \in E
    <3>1. ASSUME NEW i \in 1..n PROVE r[i] \in E
      BY <1>6, ElementOfSeq
    <3>2. QED
      BY <1>8, <3>1
  <2> HIDE DEF r, q, n
  <2>2. /\ SubSeq(r, 1, n) \in Seq(E) /\ Len(SubSeq(r, 1, n)) = IF 1 <= n THEN n - 1 + 1 ELSE 0
        /\ \A i \in 1..(n - 1 + 1) : SubSeq(r, 1, n)[i] = r[1 + i - 1]
    BY <1>1, <2>1, SubSeqProperties
  <2>3. /\ SubSeq(q, 1, n) \in Seq(E) /\ Len(SubSeq(q, 1, n)) = IF 1 <= n THEN n - 1 + 1 ELSE 0
        /\ \A i \in 1..(n - 1 + 1) : SubSeq(q, 1, n)[i] = q[1 + i - 1]
    BY <1>1, <2>1, SubSeqProperties
  <2>4. n - 1 + 1 = n /\ \A i \in 1..n : 1 + i - 1 = i
    BY <1>1
  <2>5. Len(SubSeq(r, 1, n)) = Len(SubSeq(q, 1, n)) /\ 1..Len(SubSeq(r, 1, n)) \subseteq 1..n
    BY <1>1, <2>2, <2>3
  <2>6. \A i \in 1..n : SubSeq(r, 1, n)[i] = SubSeq(q, 1, n)[i]
    BY <1>8, <2>2, <2>3, <2>4
  <2>7. QED
    BY <2>2, <2>3, <2>5, <2>6, SeqEqual
<1>10. n <= a + n
  BY <1>1
<1>11. S!IsPrefix(r, q)
  BY <1>6, <1>7, <1>9, <1>10 DEF S!IsPrefix
<1>12. QED
  BY <1>11 DEF S!IsSuffix, t

-----------------------------------------------------------------------------
(* The partials of a chunk. *)

Start == [last |-> last, cursor |-> cursor, seen |-> seen, shown |-> shown]

Shows(blocks, f) ==
    f = [i \in 0..Len(blocks) |-> IF i = 0 THEN Start ELSE Show(f[i - 1], blocks[i], i - 1)]

LEMMA ShowsExists ==
    ASSUME NEW blocks, Len(blocks) \in Nat
    PROVE  \E f : Shows(blocks, f)
<1> DEFINE n == Len(blocks)
           Body(f, i) == IF i = 0 THEN Start ELSE Show(f[i - 1], blocks[i], i - 1)
           T == {m \in Nat : \E f : f = [i \in 0..m |-> Body(f, i)]}
<1>1. 0 \in T
  <2>1. ASSUME NEW f, f = [i \in 0..0 |-> Start] PROVE f = [i \in 0..0 |-> Body(f, i)]
    BY <2>1
  <2>2. QED
    BY <2>1
<1>2. ASSUME NEW m \in Nat, m \in T PROVE m + 1 \in T
  <2>1. PICK f : f = [i \in 0..m |-> Body(f, i)]
    BY <1>2
  <2> DEFINE g == [i \in 0..(m + 1) |-> IF i <= m THEN f[i] ELSE Body(f, i)]
  <2>2. ASSUME NEW i \in 0..(m + 1) PROVE g[i] = Body(g, i)
    <3>1. CASE i = 0
      <4>1. 0 \in 0..m /\ i <= m
        BY <3>1
      <4>2. f[0] = Start
        BY <2>1, <4>1
      <4>3. QED
        BY <3>1, <4>1, <4>2
    <3>2. CASE i # 0
      <4>1. i - 1 \in 0..m /\ i - 1 \in 0..(m + 1) /\ i - 1 <= m
        BY <3>2
      <4>2. g[i - 1] = f[i - 1]
        BY <4>1
      <4>3. ASSUME i <= m PROVE f[i] = Body(f, i)
        <5>1. i \in 0..m
          BY <4>3
        <5>2. QED
          <6> HIDE DEF Body
          <6>1. QED
            BY <2>1, <5>1
      <4>4. g[i] = Body(f, i)
        <5> HIDE DEF Body
        <5>1. QED
          BY <4>3
      <4>5. QED
        BY <3>2, <4>2, <4>4
    <3>3. QED
      BY <3>1, <3>2
  <2>3. g = [i \in 0..(m + 1) |-> Body(g, i)]
    <3>1. g = [i \in 0..(m + 1) |-> g[i]]
      OBVIOUS
    <3> HIDE DEF g, Body
    <3>2. QED
      BY <2>2, <3>1
  <2>4. QED
    <3> HIDE DEF g, Body
    <3>1. \E h : h = [i \in 0..(m + 1) |-> Body(h, i)]
      BY <2>3
    <3>2. QED
      BY <3>1
<1>3. n \in T
  <2> HIDE DEF T
  <2>1. QED
    BY <1>1, <1>2, Induction
<1>4. QED
  BY <1>3 DEF Shows

(* A segment is as it was, or has been told one text. *)
AsBefore(st, s) ==
    st.cursor[s] = cursor[s] /\ st.seen[s] = seen[s] /\ st.shown[s] = shown[s]

Told(st, s, E) ==
    \E text \in Seq(E) : /\ st.cursor[s] = text /\ st.seen[s] = text
                         /\ st.shown[s] = shown[s] \o Delta(cursor[s], text)

(* After i blocks. *)
Stage(st, i, E) ==
    /\ DOMAIN st = {"last", "cursor", "seen", "shown"}
    /\ st.cursor \in [Segments -> Seq(E)] /\ st.seen \in [Segments -> Seq(E)]
    /\ st.shown \in [Segments -> Seq(E)]
    /\ \A s \in Segments : AsBefore(st, s) \/ (s < i /\ Told(st, s, E))

LEMMA ShowStage ==
    ASSUME NEW E, NEW K, NEW b \in Blocks(E, K), NEW i \in Nat, NEW st, Stage(st, i, E)
    PROVE  Stage(Show(st, b, i), i + 1, E)
<1> DEFINE p == Payload(b, i)
           text == p.value
           state == Show(st, b, i)
<1>0. \A s \in Segments : s \in Int
  BY DEF Segments
<1>1. CASE ~IsPartial(b) \/ st.last[b.kind] = p
  <2>1. state = st
    BY <1>1 DEF Show
  <2>2. \A s \in Segments : s < i => s < i + 1
    BY <1>0
  <2>3. QED
    BY <2>1, <2>2 DEF Stage
<1>2. CASE ~(~IsPartial(b) \/ st.last[b.kind] = p) /\ b.kind # "text"
  <2>1. state = [st EXCEPT !.last[b.kind] = p]
    BY <1>2 DEF Show
  <2>2. /\ DOMAIN state = DOMAIN st /\ state.cursor = st.cursor
        /\ state.seen = st.seen /\ state.shown = st.shown
    BY <2>1 DEF Stage
  <2> HIDE DEF state
  <2>3. \A s \in Segments : s < i => s < i + 1
    BY <1>0
  <2>4. QED
    BY <2>2, <2>3 DEF Stage, AsBefore, Told, state
<1>3. CASE ~(~IsPartial(b) \/ st.last[b.kind] = p) /\ b.kind = "text"
  <2>1. state = [last   |-> [st.last EXCEPT !["text"] = p],
                 cursor |-> [st.cursor EXCEPT ![i] = text],
                 seen   |-> [st.seen EXCEPT ![i] = text],
                 shown  |-> [st.shown EXCEPT ![i] = @ \o Delta(st.cursor[i], text)]]
    BY <1>3 DEF Show
  <2>2. text \in Seq(E)
    <3>1. b.content \in Seq(E)
      BY DEF Blocks
    <3>2. Strip(b.content) \in Seq(E)
      BY <3>1, StripTyped
    <3>3. text = Strip(b.content)
      BY <1>3 DEF Payload
    <3>4. QED
      BY <3>2, <3>3
  <2> HIDE DEF text
  <2>3. i \in Segments => st.shown[i] \o Delta(st.cursor[i], text) \in Seq(E)
    <3>1. SUFFICES ASSUME i \in Segments PROVE st.shown[i] \o Delta(st.cursor[i], text) \in Seq(E)
      OBVIOUS
    <3>2. st.shown[i] \in Seq(E) /\ st.cursor[i] \in Seq(E)
      BY <3>1 DEF Stage
    <3>3. Delta(st.cursor[i], text) \in Seq(E)
      BY <2>2, <3>2, DeltaIs
    <3>4. QED
      BY <3>2, <3>3, ConcatProperties
  <2>4. PICK d : d = st.shown[i] \o Delta(st.cursor[i], text)
    OBVIOUS
  <2>5. /\ DOMAIN state = {"last", "cursor", "seen", "shown"}
        /\ state.cursor = [st.cursor EXCEPT ![i] = text] /\ state.seen = [st.seen EXCEPT ![i] = text]
        /\ state.shown = [st.shown EXCEPT ![i] = d]
    BY <2>1, <2>4
  <2> HIDE DEF state
  <2>6. /\ state.cursor \in [Segments -> Seq(E)] /\ state.seen \in [Segments -> Seq(E)]
        /\ state.shown \in [Segments -> Seq(E)]
    <3>1. i \in Segments => d \in Seq(E)
      BY <2>3, <2>4
    <3>2. /\ st.cursor \in [Segments -> Seq(E)] /\ st.seen \in [Segments -> Seq(E)]
          /\ st.shown \in [Segments -> Seq(E)]
      BY DEF Stage
    <3>3. state.cursor \in [Segments -> Seq(E)]
      BY <2>2, <2>5, <3>2
    <3>4. state.seen \in [Segments -> Seq(E)]
      BY <2>2, <2>5, <3>2
    <3>5. state.shown \in [Segments -> Seq(E)]
      BY <2>5, <3>1, <3>2
    <3>6. QED
      BY <3>3, <3>4, <3>5
  <2>7. ASSUME NEW s \in Segments, s # i
        PROVE  AsBefore(state, s) \/ (s < i + 1 /\ Told(state, s, E))
    <3>1. /\ state.cursor[s] = st.cursor[s] /\ state.seen[s] = st.seen[s]
          /\ state.shown[s] = st.shown[s]
      BY <2>5, <2>7 DEF Stage
    <3>2. AsBefore(st, s) \/ (s < i /\ Told(st, s, E))
      BY DEF Stage
    <3>3. s < i => s < i + 1
      BY <1>0
    <3>4. QED
      BY <3>1, <3>2, <3>3 DEF AsBefore, Told
  <2>8. ASSUME i \in Segments PROVE i < i + 1 /\ Told(state, i, E)
    <3>1. ~(i < i) /\ i < i + 1
      OBVIOUS
    <3>2. AsBefore(st, i)
      BY <2>8, <3>1 DEF Stage
    <3>3. state.cursor[i] = text /\ state.seen[i] = text /\ state.shown[i] = d
      BY <2>5, <2>8 DEF Stage
    <3>4. d = shown[i] \o Delta(cursor[i], text)
      BY <2>4, <3>2 DEF AsBefore
    <3>5. QED
      BY <2>2, <3>1, <3>3, <3>4 DEF Told
  <2>9. \A s \in Segments : AsBefore(state, s) \/ (s < i + 1 /\ Told(state, s, E))
    BY <2>7, <2>8
  <2>10. QED
    BY <2>5, <2>6, <2>9 DEF Stage, state
<1>4. QED
  BY <1>1, <1>2, <1>3

LEMMA ShowAllStage ==
    ASSUME NEW E, NEW K, NEW blocks \in Seq(Blocks(E, K)),
           cursor \in [Segments -> Seq(E)], seen \in [Segments -> Seq(E)],
           shown \in [Segments -> Seq(E)]
    PROVE  Stage(ShowAll(blocks), Len(blocks), E)
<1> DEFINE n == Len(blocks)
           f == CHOOSE f : Shows(blocks, f)
<1>0. n \in Nat
  BY LenProperties
<1>1. Shows(blocks, f)
  BY <1>0, ShowsExists
<1>2. ShowAll(blocks) = f[n]
  BY DEF ShowAll, Shows, Start
<1> HIDE DEF f
<1> DEFINE T == {i \in Nat : i <= n => Stage(f[i], i, E)}
<1>3. 0 \in T
  <2>1. 0 \in 0..n
    BY <1>0
  <2>2. f[0] = Start
    BY <1>1, <2>1 DEF Shows
  <2>3. Stage(Start, 0, E)
    <3>1. /\ DOMAIN Start = {"last", "cursor", "seen", "shown"}
          /\ Start.cursor = cursor /\ Start.seen = seen /\ Start.shown = shown
      BY DEF Start
    <3>2. QED
      BY <3>1 DEF Stage, AsBefore
  <2>4. QED
    BY <2>2, <2>3
<1>4. ASSUME NEW i \in Nat, i \in T PROVE i + 1 \in T
  <2>1. SUFFICES ASSUME i + 1 <= n PROVE Stage(f[i + 1], i + 1, E)
    OBVIOUS
  <2>2. i + 1 \in 0..n /\ i + 1 # 0 /\ (i + 1) - 1 = i /\ i <= n /\ i + 1 \in 1..n
    BY <1>0, <2>1
  <2>3. f[i + 1] = Show(f[i], blocks[i + 1], i)
    BY <1>1, <2>2 DEF Shows
  <2>4. Stage(f[i], i, E)
    BY <1>4, <2>2
  <2>5. blocks[i + 1] \in Blocks(E, K)
    BY <2>2, ElementOfSeq
  <2>6. QED
    BY <2>3, <2>4, <2>5, ShowStage
<1>5. n \in T
  <2> HIDE DEF T
  <2>1. QED
    BY <1>0, <1>3, <1>4, Induction
<1>6. QED
  BY <1>0, <1>2, <1>5

-----------------------------------------------------------------------------
(* Texts are sequences. *)

Parts == {"[res", "ponse_text]", "[to", "ol_call: t", "]", "[sch", "ema: s", "[/res",
          "[/to", "ol_call]", "[/sch", "ema]", "nl"}

Contents ==
    UNION {UNION {{d[i].content[j] : j \in DOMAIN d[i].content} : i \in DOMAIN d} : d \in Documents}

Pieces == Parts \cup Contents

LEMMA HeadersTyped ==
    ASSUME NEW k \in Kinds
    PROVE  Opener[k] \in Seq(Pieces) /\ Recovered(k) \in Seq(Pieces) /\ Closer[k] \in Seq(Pieces)
<1>1. PICK p : p = Pieces
  OBVIOUS
<1>2. /\ "[res" \in p /\ "ponse_text]" \in p /\ "[to" \in p /\ "ol_call: t" \in p /\ "]" \in p
      /\ "[sch" \in p /\ "ema: s" \in p /\ "[/res" \in p /\ "[/to" \in p /\ "ol_call]" \in p
      /\ "[/sch" \in p /\ "ema]" \in p /\ "nl" \in p
  BY <1>1 DEF Pieces, Parts
<1>3. ASSUME NEW x \in p, NEW y \in p PROVE <<x, y>> \in Seq(p)
  OBVIOUS
<1>4. ASSUME NEW x \in p, NEW y \in p, NEW z \in p PROVE <<x, y, z>> \in Seq(p)
  OBVIOUS
<1>5. CASE k = "text"
  <2>1. Opener[k] = <<"[res", "ponse_text]">> /\ Closer[k] = <<"[/res", "ponse_text]">>
    BY <1>5 DEF Opener, Closer
  <2>2. Recovered(k) = <<"[res", "ponse_text]", "nl">>
    <3>1. Opener[k][1] = "[res" /\ Opener[k][2] = "ponse_text]"
      BY <2>1, FirstOfTwo
    <3>2. QED
      BY <3>1 DEF Recovered
  <2>3. Opener[k] \in Seq(p)
    BY <1>2, <1>3, <1>4, <2>1
  <2>4. Closer[k] \in Seq(p)
    BY <1>2, <1>3, <2>1
  <2>5. Recovered(k) \in Seq(p)
    BY <1>2, <1>4, <2>2
  <2>6. QED
    BY <1>1, <2>3, <2>4, <2>5
<1>6. CASE k = "call"
  <2>1. Opener[k] = <<"[to", "ol_call: t", "]">> /\ Closer[k] = <<"[/to", "ol_call]">>
    BY <1>6 DEF Opener, Closer
  <2>2. Recovered(k) = <<"[to", "ol_call: t", "nl">>
    <3>1. PICK o : o = <<"[to", "ol_call: t", "]">>
      OBVIOUS
    <3>2. o[1] = "[to" /\ o[2] = "ol_call: t"
      BY <3>1, FirstOfThree
    <3>3. Opener[k] = o
      BY <2>1, <3>1
    <3>4. QED
      BY <3>2, <3>3 DEF Recovered
  <2>3. Opener[k] \in Seq(p)
    BY <1>2, <1>3, <1>4, <2>1
  <2>4. Closer[k] \in Seq(p)
    BY <1>2, <1>3, <2>1
  <2>5. Recovered(k) \in Seq(p)
    BY <1>2, <1>4, <2>2
  <2>6. QED
    BY <1>1, <2>3, <2>4, <2>5
<1>7. CASE k = "schema"
  <2>1. Opener[k] = <<"[sch", "ema: s", "]">> /\ Closer[k] = <<"[/sch", "ema]">>
    BY <1>7 DEF Opener, Closer
  <2>2. Recovered(k) = <<"[sch", "ema: s", "nl">>
    <3>1. PICK o : o = <<"[sch", "ema: s", "]">>
      OBVIOUS
    <3>2. o[1] = "[sch" /\ o[2] = "ema: s"
      BY <3>1, FirstOfThree
    <3>3. Opener[k] = o
      BY <2>1, <3>1
    <3>4. QED
      BY <3>2, <3>3 DEF Recovered
  <2>3. Opener[k] \in Seq(p)
    BY <1>2, <1>3, <1>4, <2>1
  <2>4. Closer[k] \in Seq(p)
    BY <1>2, <1>3, <2>1
  <2>5. Recovered(k) \in Seq(p)
    BY <1>2, <1>4, <2>2
  <2>6. QED
    BY <1>1, <2>3, <2>4, <2>5
<1>8. QED
  BY <1>5, <1>6, <1>7 DEF Kinds

LEMMA ContentTyped ==
    ASSUME NEW d \in Documents, NEW i \in DOMAIN d
    PROVE  d[i].kind \in Kinds \cup {"orphan"} /\ d[i].content \in Seq(Pieces)
<1> DEFINE b == d[i]
<1>1. b.content \in Seq(S!Range(b.content)) /\ b.kind \in Kinds \cup {"orphan"}
  BY DocumentsAssumption DEF IsSequence
<1>2. S!Range(b.content) \subseteq Contents
  BY DEF Contents, S!Range
<1>3. S!Range(b.content) \subseteq Pieces
  BY <1>2 DEF Pieces
<1>4. QED
  BY <1>1, <1>3, SeqMonotonic

LEMMA SpellTyped ==
    ASSUME NEW d \in Documents, NEW i \in DOMAIN d
    PROVE  Spell(d[i]) \in Seq(Pieces)
<1> DEFINE b == d[i]
<1>1. b.kind \in Kinds \cup {"orphan"}
  BY ContentTyped
<1>2. b.content \in Seq(Pieces)
  BY ContentTyped
<1>3. CASE b.kind = "orphan"
  BY <1>2, <1>3 DEF Spell
<1>4. CASE b.kind # "orphan"
  <2>1. b.kind \in Kinds
    BY <1>1, <1>4
  <2>2. PICK o : o = IF b.header = "whole" THEN Opener[b.kind] ELSE Recovered(b.kind)
    OBVIOUS
  <2>3. PICK c : c = IF b.closed THEN Closer[b.kind] ELSE <<>>
    OBVIOUS
  <2>4. o \in Seq(Pieces) /\ c \in Seq(Pieces)
    BY <2>1, <2>2, <2>3, HeadersTyped, EmptySeq
  <2>5. Spell(b) = o \o b.content \o c
    BY <1>4, <2>2, <2>3 DEF Spell
  <2>6. o \o b.content \in Seq(Pieces)
    BY <1>2, <2>4, ConcatProperties
  <2>7. QED
    BY <2>4, <2>5, <2>6, ConcatProperties
<1>5. QED
  BY <1>3, <1>4

LEMMA SpellAllTyped ==
    ASSUME NEW d \in Documents
    PROVE  SpellAll(d) \in Seq(Pieces)
<1>1. d \in Seq(S!Range(d))
  BY DocumentsAssumption DEF IsSequence
<1>2. Len(d) \in Nat /\ DOMAIN d = 1..Len(d)
  BY <1>1, LenProperties
<1> DEFINE f == [i \in DOMAIN d |-> Spell(d[i])]
<1>3. f \in [1..Len(d) -> Seq(Pieces)]
  BY <1>2, SpellTyped
<1> HIDE DEF f
<1>4. S!FlattenSeq(f) \in Seq(Pieces)
  BY <1>2, <1>3, GatherTyped
<1>5. QED
  BY <1>4 DEF SpellAll, f

-----------------------------------------------------------------------------
(* What the host has put together. *)

Texts == [Segments -> Seq(Pieces)]

Typed ==
    /\ turn \in Nat /\ buffer \in Seq(Pieces) /\ rest \in Seq(Pieces)
    /\ cursor \in Texts /\ seen \in Texts /\ shown \in Texts

IsEnd(s, t) == \E u \in Seq(Pieces) : t = u \o s

(* Nothing was shown in this turn, or the cursor is where it ends. *)
SegmentInv(s) ==
    /\ \/ seen[s] = <<>> /\ shown[s] = <<>>
       \/ cursor[s] = seen[s] /\ IsEnd(shown[s], seen[s])
    /\ turn = 1 => shown[s] = seen[s]

(* The cursor of the first turn begins with nothing; that of a later one is *)
(* what an earlier one left.                                               *)
TurnInv ==
    /\ phase = "idle" => seen = NoText /\ shown = NoText
    /\ turn = 0 => phase = "idle" /\ cursor = NoText
    /\ turn = 1 /\ phase # "idle" => cursor = seen

DeltaInv ==
    /\ Typed /\ TurnInv
    /\ Closed(doc) => \A s \in Segments : SegmentInv(s)

LEMMA NoTextSegment ==
    ASSUME NEW s \in Segments, seen = NoText, shown = NoText
    PROVE  SegmentInv(s)
BY DEF SegmentInv, NoText

LEMMA NoTextTyped == NoText \in Texts
BY EmptySeq DEF NoText, Texts

LEMMA InitDelta == Init => DeltaInv
<1> SUFFICES ASSUME Init PROVE DeltaInv
  OBVIOUS
<1>1. /\ turn = 0 /\ buffer = <<>> /\ rest = <<>> /\ phase = "idle"
      /\ cursor = NoText /\ seen = NoText /\ shown = NoText
  BY DEF Init
<1>2. Typed
  BY <1>1, NoTextTyped, EmptySeq DEF Typed
<1>3. TurnInv
  BY <1>1 DEF TurnInv
<1>4. \A s \in Segments : SegmentInv(s)
  BY <1>1, NoTextSegment
<1>5. QED
  BY <1>2, <1>3, <1>4 DEF DeltaInv

(* A chunk tells a segment nothing, or a text that extends the one before. *)
LEMMA WriteSegment ==
    ASSUME Typed, NEW s \in Segments, SegmentInv(s), turn = 1 => cursor[s] = seen[s],
           NEW st, AsBefore(st, s) \/ Told(st, s, Pieces),
           seen' = st.seen, shown' = st.shown, cursor' = st.cursor, turn' = turn,
           IsPrefix(seen[s], seen'[s])
    PROVE  SegmentInv(s)'
<1> DEFINE old == seen[s]
           new == seen'[s]
           d == Delta(cursor[s], new)
<1>1. old \in Seq(Pieces) /\ cursor[s] \in Seq(Pieces) /\ shown[s] \in Seq(Pieces)
  BY DEF Typed, Texts
<1>2. CASE AsBefore(st, s)
  <2>1. cursor'[s] = cursor[s] /\ seen'[s] = seen[s] /\ shown'[s] = shown[s]
    BY <1>2 DEF AsBefore
  <2>2. QED
    BY <2>1 DEF SegmentInv
<1>3. CASE Told(st, s, Pieces)
  <2>1. new \in Seq(Pieces) /\ cursor'[s] = new /\ shown'[s] = shown[s] \o d
    BY <1>3 DEF Told
  <2>2. /\ d \in Seq(Pieces) /\ \E u \in Seq(Pieces) : new = u \o d
        /\ IsPrefix(cursor[s], new) => new = cursor[s] \o d
    BY <1>1, <2>1, DeltaIs
  <2>3. PICK e : e = d
    OBVIOUS
  <2>4. PICK n : n = new
    OBVIOUS
  <2>5. e \in Seq(Pieces) /\ n \in Seq(Pieces) /\ shown'[s] = shown[s] \o e /\ seen'[s] = n /\ cursor'[s] = n
    BY <2>1, <2>2, <2>3, <2>4
  <2>6. (\E u \in Seq(Pieces) : n = u \o e) /\ (IsPrefix(cursor[s], n) => n = cursor[s] \o e)
    BY <2>2, <2>3, <2>4
  <2>7. IsPrefix(old, n)
    BY <2>4
  <2> HIDE DEF d, new
  <2>8. CASE old = <<>> /\ shown[s] = <<>>
    <3>1. shown[s] \o e = e
      BY <2>5, <2>8, ConcatEmptySeq
    <3>2. IsEnd(shown'[s], n)
      BY <2>5, <2>6, <3>1 DEF IsEnd
    <3>3. turn = 1 => shown'[s] = n
      <4>1. turn = 1 => n = <<>> \o e
        BY <2>6, <2>7, <2>8
      <4>2. <<>> \o e = e
        BY <2>5, ConcatEmptySeq
      <4>3. QED
        BY <2>5, <3>1, <4>1, <4>2
    <3>4. QED
      BY <2>5, <3>2, <3>3 DEF SegmentInv, IsEnd
  <2>9. CASE cursor[s] = old /\ IsEnd(shown[s], old)
    <3>1. n = old \o e
      BY <2>6, <2>7, <2>9
    <3>2. PICK u \in Seq(Pieces) : old = u \o shown[s]
      BY <2>9 DEF IsEnd
    <3>3. (u \o shown[s]) \o e = u \o (shown[s] \o e)
      <4>1. u \in Seq(Pieces) /\ shown[s] \in Seq(Pieces) /\ e \in Seq(Pieces)
        BY <1>1, <2>5, <3>2
      <4>2. QED
        <5>1. InAnyOrder(u, shown[s], e)
          BY <4>1, Associative
        <5>2. QED
          BY <5>1 DEF InAnyOrder
    <3>4. IsEnd(shown'[s], n)
      BY <2>5, <3>1, <3>2, <3>3 DEF IsEnd
    <3>5. turn = 1 => shown'[s] = n
      BY <2>5, <3>1 DEF SegmentInv
    <3>6. QED
      BY <2>5, <3>4, <3>5 DEF SegmentInv, IsEnd
  <2>10. QED
    BY <2>8, <2>9 DEF SegmentInv
<1>4. QED
  BY <1>2, <1>3

LEMMA WriteDelta ==
    ASSUME DeltaInv, Write, Grows
    PROVE  DeltaInv'
<1>1. /\ phase = "streaming" /\ rest # <<>> /\ phase' = phase /\ turn' = turn /\ doc' = doc
      /\ \E n \in 1..Len(rest) : /\ buffer' = buffer \o SubSeq(rest, 1, n)
                                 /\ rest' = SubSeq(rest, n + 1, Len(rest))
  BY DEF Write
<1>2. PICK st : st = ShowAll(Found(buffer', FALSE))
  OBVIOUS
<1>3. cursor' = st.cursor /\ seen' = st.seen /\ shown' = st.shown
  BY <1>2 DEF Write
<1>4. Typed /\ TurnInv
  BY DEF DeltaInv
<1>5. buffer' \in Seq(Pieces) /\ rest' \in Seq(Pieces)
  <2>1. PICK n \in 1..Len(rest) : /\ buffer' = buffer \o SubSeq(rest, 1, n)
                                  /\ rest' = SubSeq(rest, n + 1, Len(rest))
    BY <1>1
  <2>2. rest \in Seq(Pieces) /\ buffer \in Seq(Pieces)
    BY <1>4 DEF Typed
  <2>3. Len(rest) \in Nat
    BY <2>2, LenProperties
  <2>4. \A i \in 1..n : i \in 1..Len(rest)
    BY <2>3
  <2>5. \A i \in 1..n : rest[i] \in Pieces
    BY <2>2, <2>4, ElementOfSeq
  <2>6. SubSeq(rest, 1, n) \in Seq(Pieces)
    BY <2>3, <2>5, SubSeqProperties
  <2>7. SubSeq(rest, n + 1, Len(rest)) \in Seq(Pieces)
    BY <2>2, <2>3, SliceTyped
  <2>8. QED
    BY <2>1, <2>2, <2>6, <2>7, ConcatProperties
<1>6. PICK n \in Nat : Stage(st, n, Pieces)
  <2>1. PICK K : Found(buffer', FALSE) \in Seq(Blocks(Pieces, K))
    BY <1>5, FoundTyped
  <2>2. PICK blocks : blocks = Found(buffer', FALSE)
    OBVIOUS
  <2>3. Stage(ShowAll(blocks), Len(blocks), Pieces) /\ Len(blocks) \in Nat
    BY <1>4, <2>1, <2>2, ShowAllStage, LenProperties DEF Typed, Texts
  <2>4. QED
    BY <1>2, <2>2, <2>3
<1>7. Typed'
  BY <1>1, <1>3, <1>4, <1>5, <1>6 DEF Typed, Texts, Stage
<1>8. \A s \in Segments : AsBefore(st, s) \/ Told(st, s, Pieces)
  BY <1>6 DEF Stage
<1>9. TurnInv'
  <2>1. turn = 1 => cursor = seen
    BY <1>1, <1>4 DEF TurnInv
  <2>2. turn = 1 => \A s \in Segments : cursor'[s] = seen'[s]
    BY <1>3, <1>8, <2>1 DEF AsBefore, Told
  <2>3. cursor' \in Texts /\ seen' \in Texts
    BY <1>7 DEF Typed
  <2>4. turn = 1 => cursor' = seen'
    BY <2>2, <2>3 DEF Texts
  <2>5. turn # 0
    BY <1>1, <1>4 DEF TurnInv
  <2>6. QED
    BY <1>1, <2>4, <2>5 DEF TurnInv
<1>10. ASSUME Closed(doc), NEW s \in Segments PROVE SegmentInv(s)'
  <2>1. SegmentInv(s)
    BY <1>10 DEF DeltaInv
  <2>2. IsPrefix(seen[s], seen'[s])
    BY <1>1, <1>10 DEF Grows
  <2>3. turn = 1 => cursor[s] = seen[s]
    BY <1>1, <1>4 DEF TurnInv
  <2>4. QED
    BY <1>1, <1>3, <1>4, <1>8, <2>1, <2>2, <2>3, WriteSegment
<1>11. Closed(doc)' = Closed(doc) /\ Segments' = Segments
  BY <1>1 DEF Closed
<1>12. QED
  BY <1>7, <1>9, <1>10, <1>11 DEF DeltaInv

LEMMA StepDelta == DeltaInv /\ [Next]_vars /\ [Grows]_vars => DeltaInv'
<1> SUFFICES ASSUME DeltaInv, [Next]_vars, [Grows]_vars PROVE DeltaInv'
  OBVIOUS
<1>0. Typed /\ TurnInv
  BY DEF DeltaInv
<1>1. CASE Begin
  <2>1. /\ phase = "idle" /\ phase' = "streaming" /\ turn' = turn + 1 /\ buffer' = <<>>
        /\ cursor' = cursor /\ seen' = seen /\ shown' = shown
        /\ \E d \in Documents : rest' = SpellAll(d)
    BY <1>1 DEF Begin, Reset
  <2>2. seen = NoText /\ shown = NoText /\ (turn = 0 => cursor = NoText)
    BY <1>0, <2>1 DEF TurnInv
  <2>3. Typed'
    BY <1>0, <2>1, SpellAllTyped, EmptySeq DEF Typed, Texts
  <2>4. turn' = 1 <=> turn = 0
    BY <1>0, <2>1 DEF Typed
  <2>5. turn' # 0
    BY <1>0, <2>1 DEF Typed
  <2>6. TurnInv'
    BY <2>1, <2>2, <2>4, <2>5 DEF TurnInv
  <2>7. ASSUME NEW s \in Segments PROVE SegmentInv(s)'
    <3>1. seen'[s] = <<>> /\ shown'[s] = <<>>
      BY <2>1, <2>2 DEF NoText
    <3>2. QED
      BY <3>1 DEF SegmentInv
  <2>8. QED
    BY <2>3, <2>6, <2>7 DEF DeltaInv
<1>2. CASE Write
  <2>1. vars' # vars
    <3>1. \E n \in 1..Len(rest) : rest' = SubSeq(rest, n + 1, Len(rest))
      BY <1>2 DEF Write
    <3>2. PICK n \in 1..Len(rest) : rest' = SubSeq(rest, n + 1, Len(rest))
      BY <3>1
    <3>3. rest \in Seq(Pieces)
      BY <1>0 DEF Typed
    <3>4. Len(rest) \in Nat
      BY <3>3, LenProperties
    <3>5. \A i \in (n + 1)..Len(rest) : rest[i] \in Pieces
      <4>1. \A i \in (n + 1)..Len(rest) : i \in 1..Len(rest)
        BY <3>4
      <4>2. QED
        BY <3>3, <4>1, ElementOfSeq
    <3>6. Len(rest') = IF n + 1 <= Len(rest) THEN Len(rest) - (n + 1) + 1 ELSE 0
      BY <3>2, <3>4, <3>5, SubSeqProperties
    <3>7. Len(rest') # Len(rest)
      BY <3>4, <3>6
    <3>8. QED
      BY <3>7 DEF vars
  <2>2. Grows
    BY <2>1
  <2>3. QED
    BY <1>2, <2>2, WriteDelta
<1>3. CASE End
  <2>1. /\ phase = "streaming" /\ phase' = "ended"
        /\ UNCHANGED <<doc, turn, rest, buffer, cursor, seen, shown>>
    BY <1>3 DEF End
  <2>2. Typed' /\ Segments' = Segments
    BY <1>0, <2>1 DEF Typed, Texts
  <2>3. TurnInv'
    BY <1>0, <2>1 DEF TurnInv
  <2>4. Closed(doc)' = Closed(doc)
    BY <2>1 DEF Closed
  <2>5. \A s \in Segments : SegmentInv(s)' = SegmentInv(s)
    BY <2>1 DEF SegmentInv
  <2>6. QED
    BY <2>2, <2>3, <2>4, <2>5 DEF DeltaInv
<1>4. CASE ProcessIntents
  <2>1. /\ phase = "ended" /\ phase' = "idle" /\ rest' = <<>> /\ seen' = NoText /\ shown' = NoText
        /\ UNCHANGED <<turn, buffer, cursor>>
    BY <1>4 DEF ProcessIntents
  <2>2. Typed'
    BY <1>0, <2>1, NoTextTyped, EmptySeq DEF Typed
  <2>3. TurnInv'
    BY <1>0, <2>1 DEF TurnInv
  <2>4. ASSUME NEW s \in Segments PROVE SegmentInv(s)'
    <3>1. seen'[s] = <<>> /\ shown'[s] = <<>>
      BY <2>1 DEF NoText
    <3>2. QED
      BY <3>1 DEF SegmentInv
  <2>5. QED
    BY <2>2, <2>3, <2>4 DEF DeltaInv
<1>5. CASE UNCHANGED vars
  <2>1. UNCHANGED <<doc, turn, rest, phase, buffer, cursor, seen, shown>>
    BY <1>5 DEF vars
  <2>2. QED
    BY <2>1 DEF DeltaInv, Typed, TurnInv, SegmentInv, Closed, Texts, IsEnd
<1>6. QED
  BY <1>1, <1>2, <1>3, <1>4, <1>5 DEF Next

LEMMA DeltaAccumulates == DeltaInv => DeltasAccumulate
<1> SUFFICES ASSUME DeltaInv, Closed(doc), NEW s \in Segments
             PROVE  S!IsSuffix(shown[s], seen[s]) /\ (turn = 1 => shown[s] = seen[s])
  BY DEF DeltasAccumulate
<1>1. SegmentInv(s) /\ shown[s] \in Seq(Pieces) /\ seen[s] \in Seq(Pieces)
  BY DEF DeltaInv, Typed, Texts
<1>2. PICK u \in Seq(Pieces) : seen[s] = u \o shown[s]
  <2>1. CASE seen[s] = <<>> /\ shown[s] = <<>>
    <3>1. <<>> \in Seq(Pieces) /\ <<>> \o shown[s] = shown[s]
      BY <1>1, EmptySeq, ConcatEmptySeq
    <3>2. QED
      BY <2>1, <3>1
  <2>2. CASE IsEnd(shown[s], seen[s])
    BY <2>2 DEF IsEnd
  <2>3. QED
    BY <1>1, <2>1, <2>2 DEF SegmentInv
<1>3. S!IsSuffix(shown[s], seen[s])
  <2>1. S!IsSuffix(shown[s], u \o shown[s])
    BY <1>1, SuffixOf
  <2>2. QED
    BY <1>2, <2>1
<1>4. QED
  BY <1>1, <1>3 DEF SegmentInv
===============================================================================
