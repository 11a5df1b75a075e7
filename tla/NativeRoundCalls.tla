--------------------------- MODULE NativeRoundCalls ---------------------------
(***************************************************************************)
(* That calls arrive whole: whatever lines a provider tells them in, as    *)
(* long as it is honest, and wherever the stream is cut into chunks.       *)
(***************************************************************************)
EXTENDS NativeRoundProofs, FiniteSetTheorems

-----------------------------------------------------------------------------
(* Sequences, part after part. *)

LEMMA SequenceListed ==
    ASSUME NEW s, IsSequence(s)
    PROVE  Listed(s)
BY SeqListed DEF IsSequence

LEMMA Together ==
    ASSUME NEW s, Listed(s), NEW t, Listed(t)
    PROVE  \E E : s \in Seq(E) /\ t \in Seq(E)
<1> DEFINE A == {s[i] : i \in 1..Len(s)}
           B == {t[i] : i \in 1..Len(t)}
           E == A \cup B
<1>1. s \in Seq(A) /\ t \in Seq(B)
  BY DEF Listed
<1> HIDE DEF A, B
<1>2. A \subseteq E /\ B \subseteq E
  OBVIOUS
<1> HIDE DEF E
<1>3. s \in Seq(E) /\ t \in Seq(E)
  BY <1>1, <1>2, SeqMonotonic
<1>4. QED
  BY <1>3

LEMMA ConcatListed ==
    ASSUME NEW s, Listed(s), NEW t, Listed(t)
    PROVE  /\ Listed(s \o t) /\ Len(s) \in Nat /\ Len(t) \in Nat
           /\ Len(s \o t) = Len(s) + Len(t)
           /\ \A i \in 1..(Len(s) + Len(t)) :
                 (s \o t)[i] = IF i <= Len(s) THEN s[i] ELSE t[i - Len(s)]
<1>1. PICK E : s \in Seq(E) /\ t \in Seq(E)
  BY Together
<1>2. s \o t \in Seq(E)
  BY <1>1, ConcatProperties
<1>3. Listed(s \o t)
  BY <1>2, SeqListed
<1>4. Len(s) \in Nat /\ Len(t) \in Nat
  BY <1>1, LenProperties
<1>5. Len(s \o t) = Len(s) + Len(t)
  BY <1>1, ConcatProperties
<1>6. \A i \in 1..(Len(s) + Len(t)) :
          (s \o t)[i] = IF i <= Len(s) THEN s[i] ELSE t[i - Len(s)]
  BY <1>1, ConcatProperties
<1>7. QED
  BY <1>3, <1>4, <1>5, <1>6

InAnyOrder(s, t, u) == (s \o t) \o u = s \o (t \o u)

LEMMA Associative ==
    ASSUME NEW s, Listed(s), NEW t, Listed(t), NEW u, Listed(u)
    PROVE  InAnyOrder(s, t, u)
<1>1. PICK E : s \o t \in Seq(E) /\ u \in Seq(E)
  BY ConcatListed, Together
<1>2. Len(s \o t) = Len(s) + Len(t) /\ Len(s) \in Nat /\ Len(t) \in Nat
  BY ConcatListed
<1>3. \A i \in 1..Len(s) : s[i] \in E
  <2>1. ASSUME NEW i \in 1..Len(s) PROVE s[i] \in E
    <3>1. i \in 1..Len(s \o t) /\ i \in 1..(Len(s) + Len(t)) /\ i <= Len(s)
      BY <1>2, InLonger
    <3>2. (s \o t)[i] = s[i]
      BY <3>1, ConcatListed
    <3>3. QED
      BY <1>1, <3>1, <3>2, ElementOfSeq
  <2>2. QED
    BY <2>1
<1>4. \A i \in 1..Len(t) : t[i] \in E
  <2>1. ASSUME NEW i \in 1..Len(t) PROVE t[i] \in E
    <3>1. /\ Len(s) + i \in 1..Len(s \o t) /\ Len(s) + i \in 1..(Len(s) + Len(t))
          /\ ~(Len(s) + i <= Len(s)) /\ (Len(s) + i) - Len(s) = i
      BY <1>2
    <3>2. (s \o t)[Len(s) + i] = t[i]
      BY <3>1, ConcatListed
    <3>3. QED
      BY <1>1, <3>1, <3>2, ElementOfSeq
  <2>2. QED
    BY <2>1
<1>5. s \in Seq(E) /\ t \in Seq(E)
  <2>1. \A i \in 1..Len(s) : s[i] \in E
    BY <1>3
  <2>2. s = [i \in 1..Len(s) |-> s[i]] /\ t = [i \in 1..Len(t) |-> t[i]]
    BY LenProperties DEF Listed
  <2>3. s \in [1..Len(s) -> E] /\ t \in [1..Len(t) -> E]
    BY <1>3, <1>4, <2>2
  <2>4. QED
    BY <1>2, <2>3, SeqDef
<1>6. QED
  BY <1>1, <1>5, ConcatAssociative DEF InAnyOrder

LEMMA ConcatEmpty ==
    ASSUME NEW s, Listed(s)
    PROVE  s \o <<>> = s /\ <<>> \o s = s
BY ConcatEmptySeq DEF Listed

LEMMA OneListed ==
    ASSUME NEW x
    PROVE  Listed(<<x>>) /\ Len(<<x>>) = 1 /\ <<x>>[1] = x
<1>1. <<x>> \in Seq({x}) /\ Len(<<x>>) = 1 /\ <<x>>[1] = x
  OBVIOUS
<1>2. QED
  BY <1>1, SeqListed

LEMMA SameSequence ==
    ASSUME NEW s, Listed(s), NEW t, Listed(t), Len(s) = Len(t),
           \A i \in 1..Len(s) : s[i] = t[i]
    PROVE  s = t
<1>1. /\ Len(s) \in Nat /\ s = [i \in 1..Len(s) |-> s[i]]
      /\ t = [i \in 1..Len(t) |-> t[i]]
  BY LenProperties DEF Listed
<1>2. QED
  BY <1>1

LEMMA TailListed ==
    ASSUME NEW s, Listed(s), s # <<>>
    PROVE  /\ Listed(Tail(s)) /\ Len(s) \in Nat \ {0} /\ Len(Tail(s)) = Len(s) - 1
           /\ Head(s) = s[1]
           /\ \A i \in 1..(Len(s) - 1) : Tail(s)[i] = s[i + 1]
<1> DEFINE E == {s[i] : i \in 1..Len(s)}
<1>1. s \in Seq(E)
  BY DEF Listed
<1> HIDE DEF E
<1>2. /\ Tail(s) \in Seq(E) /\ Len(Tail(s)) = Len(s) - 1 /\ Head(s) = s[1]
      /\ \A i \in 1..Len(Tail(s)) : Tail(s)[i] = s[i + 1]
  BY <1>1, HeadTailProperties
<1>3. Len(s) \in Nat \ {0}
  BY <1>1, LenProperties, EmptySeq
<1>4. QED
  BY <1>2, <1>3, SeqListed

LEMMA HeadFirst ==
    ASSUME NEW s, Listed(s), s # <<>>
    PROVE  s = <<Head(s)>> \o Tail(s)
<1>1. /\ Listed(Tail(s)) /\ Len(s) \in Nat \ {0} /\ Len(Tail(s)) = Len(s) - 1
      /\ Head(s) = s[1]
      /\ \A i \in 1..(Len(s) - 1) : Tail(s)[i] = s[i + 1]
  BY TailListed
<1>2. PICK t : t = Tail(s)
  OBVIOUS
<1>3. PICK h : h = <<Head(s)>>
  OBVIOUS
<1>4. Listed(h) /\ Len(h) = 1 /\ h[1] = s[1]
  BY <1>1, <1>3, OneListed
<1>5. /\ Listed(h \o t) /\ Len(h \o t) = 1 + (Len(s) - 1)
      /\ \A i \in 1..(1 + (Len(s) - 1)) : (h \o t)[i] = IF i <= 1 THEN h[i] ELSE t[i - 1]
  <2>1. Listed(t) /\ Len(t) = Len(s) - 1
    BY <1>1, <1>2
  <2>2. /\ Listed(h \o t) /\ Len(h \o t) = Len(h) + Len(t)
        /\ \A i \in 1..(Len(h) + Len(t)) :
              (h \o t)[i] = IF i <= Len(h) THEN h[i] ELSE t[i - Len(h)]
    BY <1>4, <2>1, ConcatListed
  <2>3. QED
    BY <1>4, <2>1, <2>2
<1>6. ASSUME NEW i \in 1..Len(s) PROVE s[i] = (h \o t)[i]
  <2>0. i \in 1..(1 + (Len(s) - 1))
    BY <1>1
  <2>1. CASE i = 1
    BY <1>4, <1>5, <2>0, <2>1
  <2>2. CASE i # 1
    <3>1. ~(i <= 1) /\ i - 1 \in 1..(Len(s) - 1) /\ (i - 1) + 1 = i
      BY <1>1, <2>2
    <3>2. t[i - 1] = s[i]
      BY <1>1, <1>2, <3>1
    <3>3. QED
      BY <1>5, <2>0, <3>1, <3>2
  <2>3. QED
    BY <2>1, <2>2
<1>7. Len(h \o t) = Len(s)
  BY <1>1, <1>5
<1>8. QED
  BY <1>2, <1>3, <1>5, <1>6, <1>7, SameSequence

(* A function from 1 to n + 1 is one to n and its last element.             *)
LEMMA LastApart ==
    ASSUME NEW n \in Nat, NEW s, s = [i \in 1..(n + 1) |-> s[i]],
           NEW t, t = [i \in 1..n |-> s[i]]
    PROVE  s = t \o <<s[n + 1]>> /\ Listed(t) /\ Len(t) = n
<1>1. Listed(s) /\ Len(s) = n + 1
  BY FunctionListed
<1>2. t = [i \in 1..n |-> t[i]]
  OBVIOUS
<1>3. Listed(t) /\ Len(t) = n
  BY <1>2, FunctionListed
<1>4. PICK x : x = <<s[n + 1]>>
  OBVIOUS
<1>5. Listed(x) /\ Len(x) = 1 /\ x[1] = s[n + 1]
  BY <1>4, OneListed
<1>6. /\ Listed(t \o x) /\ Len(t \o x) = n + 1
      /\ \A i \in 1..(n + 1) : (t \o x)[i] = IF i <= n THEN t[i] ELSE x[i - n]
  <2>1. /\ Listed(t \o x) /\ Len(t \o x) = Len(t) + Len(x)
        /\ \A i \in 1..(Len(t) + Len(x)) :
              (t \o x)[i] = IF i <= Len(t) THEN t[i] ELSE x[i - Len(t)]
    BY <1>3, <1>5, ConcatListed
  <2>2. QED
    BY <1>3, <1>5, <2>1
<1>7. ASSUME NEW i \in 1..Len(s) PROVE s[i] = (t \o x)[i]
  <2>1. CASE i <= n
    BY <1>1, <1>6, <2>1
  <2>2. CASE ~(i <= n)
    <3>1. i = n + 1 /\ i - n = 1 /\ i \in 1..(n + 1)
      BY <1>1, <2>2
    <3>2. QED
      BY <1>5, <1>6, <2>2, <3>1
  <2>3. QED
    BY <2>1, <2>2
<1>8. QED
  BY <1>1, <1>3, <1>4, <1>6, <1>7, SameSequence

(* From 0 to n. *)
LEMMA InductionUpTo ==
    ASSUME NEW n \in Nat, NEW T, 0 \in T, \A i \in 0..(n - 1) : i \in T => i + 1 \in T
    PROVE  0..n \subseteq T
<1> DEFINE U == {i \in Nat : i <= n => i \in T}
<1>1. 0 \in U
  OBVIOUS
<1>2. ASSUME NEW i \in Nat, i \in U PROVE i + 1 \in U
  <2>1. CASE i + 1 <= n
    <3>1. i \in 0..(n - 1) /\ i <= n
      BY <2>1
    <3>2. QED
      BY <1>2, <3>1
  <2>2. CASE ~(i + 1 <= n)
    BY <2>2
  <2>3. QED
    BY <2>1, <2>2
<1>3. Nat \subseteq U
  <2> HIDE DEF U
  <2>1. QED
    BY <1>1, <1>2, Induction
<1>4. QED
  BY <1>3

-----------------------------------------------------------------------------
(* Sequences of sequences: what comes last is joined last. *)

Lists(seqs) == Listed(seqs) /\ \A i \in 1..Len(seqs) : Listed(seqs[i])

LEMMA ListsTyped ==
    ASSUME NEW seqs, Lists(seqs)
    PROVE  \E E : seqs \in Seq(Seq(E))
<1> DEFINE E == UNION {{seqs[i][j] : j \in 1..Len(seqs[i])} : i \in 1..Len(seqs)}
<1>1. ASSUME NEW i \in 1..Len(seqs) PROVE seqs[i] \in Seq(E)
  <2> DEFINE A == {seqs[i][j] : j \in 1..Len(seqs[i])}
  <2>1. seqs[i] \in Seq(A)
    BY DEF Lists, Listed
  <2>2. A \subseteq E
    OBVIOUS
  <2> HIDE DEF A, E
  <2>3. QED
    BY <2>1, <2>2, SeqMonotonic
<1>2. Len(seqs) \in Nat /\ seqs = [i \in 1..Len(seqs) |-> seqs[i]]
  BY LenProperties DEF Lists, Listed
<1> HIDE DEF E
<1>3. seqs \in [1..Len(seqs) -> Seq(E)]
  BY <1>1, <1>2
<1>4. seqs \in Seq(Seq(E))
  BY <1>2, <1>3, SeqDef
<1>5. QED
  BY <1>4

LEMMA TypedLists ==
    ASSUME NEW E, NEW seqs \in Seq(Seq(E))
    PROVE  Lists(seqs)
BY SeqListed, ElementOfSeq DEF Lists

LEMMA FlattenListed ==
    ASSUME NEW seqs, Lists(seqs)
    PROVE  Listed(S!FlattenSeq(seqs))
<1>1. PICK E : seqs \in Seq(Seq(E))
  BY ListsTyped
<1>2. QED
  BY <1>1, FlattenPlaced, SeqListed

LEMMA FlattenNone == S!FlattenSeq(<<>>) = <<>>
BY EmptyListed DEF S!FlattenSeq

LEMMA ListsMore ==
    ASSUME NEW seqs, Lists(seqs), NEW x, Listed(x)
    PROVE  /\ Lists(seqs \o <<x>>) /\ Len(seqs) \in Nat
           /\ Len(seqs \o <<x>>) = Len(seqs) + 1
           /\ \A i \in 1..Len(seqs) : (seqs \o <<x>>)[i] = seqs[i]
           /\ (seqs \o <<x>>)[Len(seqs) + 1] = x
<1>1. PICK o : o = <<x>>
  OBVIOUS
<1>2. Listed(o) /\ Len(o) = 1 /\ o[1] = x
  BY <1>1, OneListed
<1>3. Listed(seqs) /\ \A i \in 1..Len(seqs) : Listed(seqs[i])
  BY DEF Lists
<1>4. /\ Listed(seqs \o o) /\ Len(seqs) \in Nat /\ Len(seqs \o o) = Len(seqs) + Len(o)
      /\ \A i \in 1..(Len(seqs) + Len(o)) :
            (seqs \o o)[i] = IF i <= Len(seqs) THEN seqs[i] ELSE o[i - Len(seqs)]
  BY <1>2, <1>3, ConcatListed
<1>5. ASSUME NEW i \in 1..Len(seqs) PROVE (seqs \o o)[i] = seqs[i]
  <2>1. i \in 1..(Len(seqs) + Len(o)) /\ i <= Len(seqs)
    BY <1>2, <1>4
  <2>2. QED
    BY <1>4, <2>1
<1>6. (seqs \o o)[Len(seqs) + 1] = x
  <2>1. /\ Len(seqs) + 1 \in 1..(Len(seqs) + Len(o)) /\ ~(Len(seqs) + 1 <= Len(seqs))
        /\ (Len(seqs) + 1) - Len(seqs) = 1
    BY <1>2, <1>4
  <2>2. QED
    BY <1>2, <1>4, <2>1
<1>7. Len(seqs \o o) = Len(seqs) + 1
  BY <1>2, <1>4
<1>8. ASSUME NEW i \in 1..Len(seqs \o o) PROVE Listed((seqs \o o)[i])
  <2>1. i \in 1..Len(seqs) \/ i = Len(seqs) + 1
    BY <1>4, <1>7
  <2>2. QED
    BY <1>3, <1>5, <1>6, <2>1
<1>9. Lists(seqs \o o)
  BY <1>4, <1>8 DEF Lists
<1>10. QED
  BY <1>1, <1>4, <1>5, <1>6, <1>7, <1>9

LEMMA FlattenMore ==
    ASSUME NEW seqs, Lists(seqs), NEW x, Listed(x)
    PROVE  S!FlattenSeq(seqs \o <<x>>) = S!FlattenSeq(seqs) \o x
<1> DEFINE n == Len(seqs)
<1>1. PICK more : more = seqs \o <<x>>
  OBVIOUS
<1>2. /\ Lists(more) /\ n \in Nat /\ Len(more) = n + 1
      /\ \A i \in 1..n : more[i] = seqs[i]
      /\ more[n + 1] = x
  BY <1>1, ListsMore
<1>3. more # <<>>
  BY <1>2, EmptyListed
<1>4. PICK E : more \in Seq(Seq(E))
  BY <1>2, ListsTyped
<1>5. PICK f : Joins(more, f) /\ S!FlattenSeq(more) = f[n + 1]
  BY <1>2, <1>3, <1>4, FlattenJoins
<1>6. CASE seqs = <<>>
  <2>1. n = 0
    BY <1>6, EmptyListed
  <2>2. f[1] = more[1] /\ more[1] = x
    BY <1>2, <1>5, <2>1 DEF Joins
  <2>3. S!FlattenSeq(seqs) = <<>>
    BY <1>6, FlattenNone
  <2>4. <<>> \o x = x
    BY ConcatEmpty
  <2>5. S!FlattenSeq(more) = x
    BY <1>5, <2>1, <2>2
  <2>6. QED
    BY <1>1, <2>3, <2>4, <2>5
<1>7. CASE seqs # <<>>
  <2>1. PICK F : seqs \in Seq(Seq(F))
    BY ListsTyped
  <2>2. PICK g : Joins(seqs, g) /\ S!FlattenSeq(seqs) = g[n]
    BY <1>7, <2>1, FlattenJoins
  <2>3. n # 0
    BY <1>7, <2>1, EmptySeq
  <2> DEFINE T == {i \in 1..n : f[i] = g[i]}
  <2>4. 1 \in T
    <3>1. 1 \in 1..n /\ 1 \in 1..(n + 1)
      BY <1>2, <2>3
    <3>2. f[1] = more[1] /\ g[1] = seqs[1]
      BY <1>2, <1>5, <2>2, <3>1 DEF Joins
    <3>3. QED
      BY <1>2, <3>1, <3>2
  <2>5. ASSUME NEW i \in 1..n, i + 1 \in 1..n, i \in T PROVE i + 1 \in T
    <3>1. i + 1 # 1 /\ (i + 1) - 1 = i /\ i + 1 \in 1..(n + 1)
      BY <1>2, <2>5
    <3>2. f[i + 1] = f[i] \o more[i + 1]
      BY <1>2, <1>5, <3>1 DEF Joins
    <3>3. g[i + 1] = g[i] \o seqs[i + 1]
      BY <2>2, <2>5, <3>1 DEF Joins
    <3>4. QED
      BY <1>2, <2>5, <3>2, <3>3
  <2>6. f[n] = g[n]
    <3> HIDE DEF T
    <3>1. 1..n \subseteq T
      BY <1>2, <2>4, <2>5, InductionTo
    <3>2. n \in 1..n
      BY <1>2, <2>3
    <3>3. n \in T
      BY <3>1, <3>2
    <3>4. QED
      BY <3>3 DEF T
  <2>7. f[n + 1] = f[n] \o more[n + 1]
    <3>1. n + 1 \in 1..(n + 1) /\ n + 1 # 1 /\ (n + 1) - 1 = n
      BY <1>2, <2>3
    <3>2. QED
      BY <1>2, <1>5, <3>1 DEF Joins
  <2>8. QED
    BY <1>1, <1>2, <1>5, <2>2, <2>6, <2>7
<1>8. QED
  BY <1>6, <1>7

LEMMA FlattenConcat ==
    ASSUME NEW s, Lists(s), NEW t, Lists(t)
    PROVE  /\ Lists(s \o t)
           /\ S!FlattenSeq(s \o t) = S!FlattenSeq(s) \o S!FlattenSeq(t)
<1> DEFINE n == Len(t)
           First(i) == [j \in 1..i |-> t[j]]
           Fits(i) == /\ Lists(First(i)) /\ Lists(s \o First(i))
                      /\ S!FlattenSeq(s \o First(i)) = S!FlattenSeq(s) \o S!FlattenSeq(First(i))
           T == {i \in 0..n : Fits(i)}
<1>1. /\ Listed(s) /\ n \in Nat /\ t = First(n)
      /\ Listed(S!FlattenSeq(s)) /\ \A i \in 1..n : Listed(t[i])
  BY FlattenListed, LenProperties DEF Lists, Listed
<1>2. 0 \in T
  <2>1. ASSUME NEW z, z = First(0) PROVE z = <<>>
    <3>1. z = [j \in 1..0 |-> z[j]]
      BY <2>1
    <3>2. Listed(z) /\ Len(z) = 0
      BY <3>1, FunctionListed
    <3>3. \A i \in 1..0 : z[i] = <<>>[i]
      OBVIOUS
    <3>4. QED
      BY <3>2, <3>3, EmptyListed, SameSequence
  <2>2. PICK z : z = First(0)
    OBVIOUS
  <2>3. z = <<>>
    BY <2>1, <2>2
  <2>4. Lists(<<>>)
    BY EmptyListed DEF Lists
  <2>5. s \o <<>> = s /\ S!FlattenSeq(s) \o <<>> = S!FlattenSeq(s)
    BY <1>1, ConcatEmpty
  <2>6. First(0) = <<>>
    BY <2>2, <2>3
  <2> HIDE DEF First
  <2>7. Fits(0)
    BY <2>4, <2>5, <2>6, FlattenNone
  <2>8. QED
    BY <1>1, <2>7
<1>3. ASSUME NEW i \in 0..(n - 1), i \in T PROVE i + 1 \in T
  <2>1. i \in Nat /\ i + 1 \in 0..n /\ i + 1 \in 1..n
    BY <1>1
  <2>2. PICK a : a = First(i)
    OBVIOUS
  <2>3. PICK b : b = First(i + 1)
    OBVIOUS
  <2>4. i + 1 \in 1..(i + 1)
    BY <2>1
  <2>5. b = [j \in 1..(i + 1) |-> b[j]] /\ b[i + 1] = t[i + 1]
    BY <2>3, <2>4
  <2>6. a = [j \in 1..i |-> b[j]]
    <3>1. \A j \in 1..i : b[j] = t[j]
      BY <2>1, <2>3
    <3>2. QED
      BY <2>2, <3>1
  <2>7. b = a \o <<t[i + 1]>>
    BY <2>1, <2>5, <2>6, LastApart
  <2>8. PICK x : x = t[i + 1]
    OBVIOUS
  <2>9. Listed(x)
    BY <1>1, <2>1, <2>8
  <2> HIDE DEF First
  <2>10. Fits(i)
    BY <1>3
  <2>11. /\ Lists(a) /\ Lists(s \o a)
         /\ S!FlattenSeq(s \o a) = S!FlattenSeq(s) \o S!FlattenSeq(a)
    BY <2>2, <2>10
  <2>12. Lists(b) /\ S!FlattenSeq(b) = S!FlattenSeq(a) \o x
    BY <2>7, <2>8, <2>9, <2>11, ListsMore, FlattenMore
  <2>13. s \o b = (s \o a) \o <<x>>
    <3>1. PICK o : o = <<x>>
      OBVIOUS
    <3>2. Listed(o) /\ Listed(a) /\ Listed(s)
      BY <1>1, <2>11, <3>1, OneListed DEF Lists
    <3>3. (s \o a) \o o = s \o (a \o o)
      <4>1. InAnyOrder(s, a, o)
        BY <3>2, Associative
      <4>2. QED
        BY <4>1 DEF InAnyOrder
    <3>4. b = a \o o
      BY <2>7, <2>8, <3>1
    <3>5. QED
      BY <3>1, <3>3, <3>4
  <2>14. Lists(s \o b) /\ S!FlattenSeq(s \o b) = S!FlattenSeq(s \o a) \o x
    BY <2>9, <2>11, <2>13, ListsMore, FlattenMore
  <2>15. Listed(S!FlattenSeq(s)) /\ Listed(S!FlattenSeq(a)) /\ Listed(x)
    BY <1>1, <2>9, <2>11, FlattenListed
  <2>16. (S!FlattenSeq(s) \o S!FlattenSeq(a)) \o x = S!FlattenSeq(s) \o (S!FlattenSeq(a) \o x)
    <3>1. InAnyOrder(S!FlattenSeq(s), S!FlattenSeq(a), x)
      BY <2>15, Associative
    <3>2. QED
      BY <3>1 DEF InAnyOrder
  <2>17. Fits(i + 1)
    BY <2>3, <2>11, <2>12, <2>14, <2>16
  <2>18. QED
    BY <2>1, <2>17
<1>4. n \in T
  <2> HIDE DEF T
  <2>1. 0..n \subseteq T
    BY <1>1, <1>2, <1>3, InductionUpTo
  <2>2. QED
    BY <1>1, <2>1
<1>5. QED
  <2> HIDE DEF First
  <2>1. QED
    BY <1>1, <1>4

-----------------------------------------------------------------------------
(* What the proof says of the driver's buffers. *)

(* The calls among events. *)
Own(e) == IF e.kind = "call" THEN <<e>> ELSE <<>>
CallsIn(es) == S!FlattenSeq([i \in 1..Len(es) |-> Own(es[i])])

AreDeltas(ds) == Listed(ds) /\ \A n \in 1..Len(ds) : Listed(ds[n].args)

(* What a buffer holds after deltas: under each index the last id and name   *)
(* that were told, and the arguments one after the other.                  *)
Gathered(b, ds) ==
    /\ DOMAIN b = {ds[n].index : n \in 1..Len(ds)}
    /\ \A x \in DOMAIN b :
          /\ b[x] = [id |-> b[x].id, name |-> b[x].name, args |-> S!FlattenSeq(Pieces(ds, x))]
          /\ b[x].id # NoId => \E n \in 1..Len(ds) : ds[n].index = x /\ ds[n].id = b[x].id
          /\ b[x].name # "" => \E n \in 1..Len(ds) : ds[n].index = x /\ ds[n].name = b[x].name
          /\ \A n \in 1..Len(ds) : ds[n].index = x =>
                /\ ds[n].id # NoId => b[x].id # NoId
                /\ ds[n].name # "" => b[x].name # ""

DeltasTo(i) == S!FlattenSeq([j \in 1..i |-> Lines[j].deltas])
Flushed(i) == \E j \in 1..i : Lines[j].finish = "tool_calls"

(* The calls that the first lines tell. *)
CallsTo(i) ==
    IF provider = "openai" THEN IF Flushed(i) THEN Said ELSE <<>>
    ELSE S!FlattenSeq([j \in 1..i |-> Calls(Lines[j].deltas)])

Starts(s, t) == \E u : Listed(u) /\ t = s \o u

BufferFits(b, i) ==
    provider = "openai" /\ ~Flushed(i) => AreDeltas(DeltasTo(i)) /\ Gathered(b, DeltasTo(i))

-----------------------------------------------------------------------------
(* The calls among events. *)

LEMMA OwnListed ==
    ASSUME NEW e
    PROVE  Listed(Own(e))
BY OneListed, EmptyListed DEF Own

Owns(es) == [i \in 1..Len(es) |-> Own(es[i])]

LEMMA OwnsLists ==
    ASSUME NEW es, Listed(es)
    PROVE  /\ Lists(Owns(es)) /\ Len(Owns(es)) = Len(es) /\ Len(es) \in Nat
           /\ CallsIn(es) = S!FlattenSeq(Owns(es)) /\ Listed(CallsIn(es))
<1>1. PICK s : s = Owns(es)
  OBVIOUS
<1>2. Len(es) \in Nat
  BY ListedFacts
<1>3. s = [i \in 1..Len(es) |-> s[i]]
  BY <1>1 DEF Owns
<1>4. Listed(s) /\ Len(s) = Len(es)
  BY <1>2, <1>3, FunctionListed
<1>5. \A i \in 1..Len(es) : s[i] = Own(es[i])
  BY <1>1 DEF Owns
<1>6. Lists(s)
  BY <1>4, <1>5, OwnListed DEF Lists
<1>7. CallsIn(es) = S!FlattenSeq(s)
  BY <1>1 DEF CallsIn, Owns
<1>8. QED
  BY <1>1, <1>2, <1>4, <1>6, <1>7, FlattenListed

LEMMA CallsInConcat ==
    ASSUME NEW s, Listed(s), NEW t, Listed(t)
    PROVE  Listed(s \o t) /\ CallsIn(s \o t) = CallsIn(s) \o CallsIn(t)
<1>1. PICK u : u = s \o t
  OBVIOUS
<1>2. /\ Listed(u) /\ Len(s) \in Nat /\ Len(t) \in Nat /\ Len(u) = Len(s) + Len(t)
      /\ \A i \in 1..(Len(s) + Len(t)) : u[i] = IF i <= Len(s) THEN s[i] ELSE t[i - Len(s)]
  BY <1>1, ConcatListed
<1>3. PICK a : a = Owns(s)
  OBVIOUS
<1>4. PICK b : b = Owns(t)
  OBVIOUS
<1>5. PICK c : c = Owns(u)
  OBVIOUS
<1>6. /\ Lists(a) /\ Len(a) = Len(s) /\ CallsIn(s) = S!FlattenSeq(a)
      /\ Lists(b) /\ Len(b) = Len(t) /\ CallsIn(t) = S!FlattenSeq(b)
      /\ Lists(c) /\ Len(c) = Len(u) /\ CallsIn(u) = S!FlattenSeq(c)
  BY <1>2, <1>3, <1>4, <1>5, OwnsLists
<1>7. /\ Listed(a \o b) /\ Len(a \o b) = Len(s) + Len(t)
      /\ \A i \in 1..(Len(s) + Len(t)) :
            (a \o b)[i] = IF i <= Len(s) THEN a[i] ELSE b[i - Len(s)]
  <2>1. Listed(a) /\ Listed(b)
    BY <1>6 DEF Lists
  <2>2. /\ Listed(a \o b) /\ Len(a \o b) = Len(a) + Len(b)
        /\ \A i \in 1..(Len(a) + Len(b)) :
              (a \o b)[i] = IF i <= Len(a) THEN a[i] ELSE b[i - Len(a)]
    BY <2>1, ConcatListed
  <2>3. QED
    BY <1>6, <2>2
<1>8. ASSUME NEW i \in 1..Len(c) PROVE c[i] = (a \o b)[i]
  <2>1. i \in 1..(Len(s) + Len(t)) /\ c[i] = Own(u[i])
    BY <1>2, <1>5, <1>6 DEF Owns
  <2>2. CASE i <= Len(s)
    <3>1. i \in 1..Len(s)
      BY <1>2, <2>1, <2>2
    <3>2. a[i] = Own(s[i])
      BY <1>3, <3>1 DEF Owns
    <3>3. QED
      BY <1>2, <1>7, <2>1, <2>2, <3>2
  <2>3. CASE ~(i <= Len(s))
    <3>1. i - Len(s) \in 1..Len(t)
      BY <1>2, <2>1, <2>3
    <3>2. b[i - Len(s)] = Own(t[i - Len(s)])
      BY <1>4, <3>1 DEF Owns
    <3>3. QED
      BY <1>2, <1>7, <2>1, <2>3, <3>2
  <2>4. QED
    BY <2>2, <2>3
<1>9. c = a \o b
  BY <1>2, <1>6, <1>7, <1>8, SameSequence DEF Lists
<1>10. QED
  <2>1. S!FlattenSeq(a \o b) = S!FlattenSeq(a) \o S!FlattenSeq(b)
    BY <1>6, FlattenConcat
  <2>2. QED
    BY <1>1, <1>2, <1>6, <1>9, <2>1

LEMMA CallsInNone == CallsIn(<<>>) = <<>>
<1>1. PICK a : a = Owns(<<>>)
  OBVIOUS
<1>2. Lists(a) /\ Len(a) = 0 /\ CallsIn(<<>>) = S!FlattenSeq(a)
  BY <1>1, EmptyListed, OwnsLists
<1>3. a = <<>>
  BY <1>2, EmptyListed, SameSequence DEF Lists
<1>4. QED
  BY <1>2, <1>3, FlattenNone

LEMMA CallsInOne ==
    ASSUME NEW e
    PROVE  CallsIn(<<e>>) = Own(e)
<1>1. PICK s : s = <<e>>
  OBVIOUS
<1>2. Listed(s) /\ Len(s) = 1 /\ s[1] = e
  BY <1>1, OneListed
<1>3. PICK a : a = Owns(s)
  OBVIOUS
<1>4. Lists(a) /\ Len(a) = 1 /\ CallsIn(s) = S!FlattenSeq(a)
  BY <1>2, <1>3, OwnsLists
<1>5. a[1] = Own(e)
  BY <1>2, <1>3 DEF Owns
<1>6. PICK o : o = Own(e)
  OBVIOUS
<1>7. Listed(o)
  BY <1>6, OwnListed
<1>8. PICK l : l = <<o>>
  OBVIOUS
<1>9. Listed(l) /\ Len(l) = 1 /\ l[1] = o
  BY <1>8, OneListed
<1>10. \A i \in 1..Len(a) : a[i] = l[i]
  <2>1. \A i \in 1..Len(a) : i = 1
    BY <1>4
  <2>2. QED
    BY <1>5, <1>6, <1>9, <2>1
<1>11. a = l
  BY <1>4, <1>9, <1>10, SameSequence DEF Lists
<1>12. Lists(<<>>)
  BY EmptyListed DEF Lists
<1>13. <<>> \o l = l /\ <<>> \o o = o
  BY <1>7, <1>9, ConcatEmpty
<1>14. S!FlattenSeq(<<>> \o <<o>>) = S!FlattenSeq(<<>>) \o o
  BY <1>7, <1>12, FlattenMore
<1>15. S!FlattenSeq(l) = o
  BY <1>8, <1>13, <1>14, FlattenNone
<1>16. QED
  BY <1>1, <1>4, <1>6, <1>11, <1>15

LEMMA FirstCall ==
    ASSUME NEW es, Listed(es), es # <<>>
    PROVE  /\ Listed(Tail(es)) /\ Listed(CallsIn(Tail(es)))
           /\ CallsIn(es) = Own(Head(es)) \o CallsIn(Tail(es))
<1>1. PICK h : h = <<Head(es)>>
  OBVIOUS
<1>2. PICK t : t = Tail(es)
  OBVIOUS
<1>3. Listed(t) /\ Listed(h)
  BY <1>1, <1>2, TailListed, OneListed
<1>4. es = h \o t
  BY <1>1, <1>2, HeadFirst
<1>5. CallsIn(h \o t) = CallsIn(h) \o CallsIn(t)
  BY <1>3, CallsInConcat
<1>6. CallsIn(h) = Own(Head(es))
  BY <1>1, CallsInOne
<1>7. QED
  BY <1>2, <1>3, <1>4, <1>5, <1>6, OwnsLists

(* All of the events, or none of them. *)
LEMMA CallsInAll ==
    ASSUME NEW es, Listed(es), NEW all \in BOOLEAN,
           \A i \in 1..Len(es) : (es[i].kind = "call") = all
    PROVE  CallsIn(es) = IF all THEN es ELSE <<>>
<1> DEFINE n == Len(es)
           First(i) == [j \in 1..i |-> es[j]]
           Fits(i) == /\ Listed(First(i))
                      /\ CallsIn(First(i)) = IF all THEN First(i) ELSE <<>>
           T == {i \in 0..n : Fits(i)}
<1>1. n \in Nat /\ es = First(n)
  BY LenProperties DEF Listed
<1>2. 0 \in T
  <2>1. PICK z : z = First(0)
    OBVIOUS
  <2>2. z = [j \in 1..0 |-> z[j]]
    BY <2>1
  <2>3. Listed(z) /\ Len(z) = 0
    BY <2>2, FunctionListed
  <2>4. z = <<>>
    <3>1. \A i \in 1..0 : z[i] = <<>>[i]
      OBVIOUS
    <3>2. QED
      BY <2>3, <3>1, EmptyListed, SameSequence
  <2> HIDE DEF First
  <2>5. Fits(0)
    BY <2>1, <2>4, EmptyListed, CallsInNone
  <2>6. QED
    BY <1>1, <2>5
<1>3. ASSUME NEW i \in 0..(n - 1), i \in T PROVE i + 1 \in T
  <2>1. i \in Nat /\ i + 1 \in 0..n /\ i + 1 \in 1..n
    BY <1>1
  <2>2. PICK a : a = First(i)
    OBVIOUS
  <2>3. PICK b : b = First(i + 1)
    OBVIOUS
  <2>4. i + 1 \in 1..(i + 1)
    BY <2>1
  <2>5. b = [j \in 1..(i + 1) |-> b[j]] /\ b[i + 1] = es[i + 1]
    BY <2>3, <2>4
  <2>6. a = [j \in 1..i |-> b[j]]
    <3>1. \A j \in 1..i : b[j] = es[j]
      BY <2>1, <2>3
    <3>2. QED
      BY <2>2, <3>1
  <2>7. b = a \o <<es[i + 1]>>
    BY <2>1, <2>5, <2>6, LastApart
  <2>8. PICK e : e = es[i + 1]
    OBVIOUS
  <2>9. PICK o : o = <<e>>
    OBVIOUS
  <2>10. Listed(o) /\ CallsIn(o) = Own(e) /\ b = a \o o
    BY <2>7, <2>8, <2>9, OneListed, CallsInOne
  <2> HIDE DEF First
  <2>11. Listed(a) /\ CallsIn(a) = IF all THEN a ELSE <<>>
    BY <1>3, <2>2
  <2>12. Listed(a \o o) /\ CallsIn(a \o o) = CallsIn(a) \o CallsIn(o)
    BY <2>10, <2>11, CallsInConcat
  <2>13. Own(e) = IF all THEN o ELSE <<>>
    BY <2>1, <2>8, <2>9 DEF Own
  <2>14. <<>> \o <<>> = <<>>
    BY EmptyListed, ConcatEmpty
  <2>15. CallsIn(b) = IF all THEN b ELSE <<>>
    BY <2>10, <2>11, <2>12, <2>13, <2>14
  <2>16. Fits(i + 1)
    BY <2>3, <2>10, <2>12, <2>15
  <2>17. QED
    BY <2>1, <2>16
<1>4. n \in T
  <2> HIDE DEF T
  <2>1. 0..n \subseteq T
    BY <1>1, <1>2, <1>3, InductionUpTo
  <2>2. QED
    BY <1>1, <2>1
<1>5. QED
  <2> HIDE DEF First
  <2>1. QED
    BY <1>1, <1>4

-----------------------------------------------------------------------------
(* The buffer of deltas. *)

LEMMA FlattenEmpties ==
    ASSUME NEW seqs, Listed(seqs), \A i \in 1..Len(seqs) : seqs[i] = <<>>
    PROVE  S!FlattenSeq(seqs) = <<>>
<1> DEFINE n == Len(seqs)
<1>1. n \in Nat /\ Lists(seqs)
  BY ListedFacts, EmptyListed DEF Lists
<1>2. CASE seqs = <<>>
  BY <1>2, FlattenNone
<1>3. CASE seqs # <<>>
  <2>1. PICK E : seqs \in Seq(Seq(E))
    BY <1>1, ListsTyped
  <2>2. PICK f : Joins(seqs, f) /\ S!FlattenSeq(seqs) = f[n]
    BY <1>3, <2>1, FlattenJoins
  <2>3. n # 0
    BY <1>3, <2>1, EmptySeq
  <2> DEFINE T == {i \in 1..n : f[i] = <<>>}
  <2>4. 1 \in T
    <3>1. 1 \in 1..n
      BY <1>1, <2>3
    <3>2. QED
      BY <2>2, <3>1 DEF Joins
  <2>5. ASSUME NEW i \in 1..n, i + 1 \in 1..n, i \in T PROVE i + 1 \in T
    <3>1. i + 1 # 1 /\ (i + 1) - 1 = i
      BY <1>1
    <3>2. f[i + 1] = f[i] \o seqs[i + 1]
      BY <2>2, <2>5, <3>1 DEF Joins
    <3>3. <<>> \o <<>> = <<>>
      BY EmptyListed, ConcatEmpty
    <3>4. QED
      BY <2>5, <3>2, <3>3
  <2>6. n \in T
    <3> HIDE DEF T
    <3>1. 1..n \subseteq T
      BY <1>1, <2>4, <2>5, InductionTo
    <3>2. n \in 1..n
      BY <1>1, <2>3
    <3>3. QED
      BY <3>1, <3>2
  <2>7. QED
    BY <2>2, <2>6
<1>4. QED
  BY <1>2, <1>3

LEMMA PiecesLists ==
    ASSUME NEW ds, AreDeltas(ds), NEW x
    PROVE  /\ Lists(Pieces(ds, x)) /\ Len(Pieces(ds, x)) = Len(ds)
           /\ \A n \in 1..Len(ds) :
                 Pieces(ds, x)[n] = IF ds[n].index = x THEN ds[n].args ELSE <<>>
<1>1. Len(ds) \in Nat /\ DOMAIN ds = 1..Len(ds)
  BY ListedFacts DEF AreDeltas
<1>2. PICK p : p = Pieces(ds, x)
  OBVIOUS
<1>3. \A n \in 1..Len(ds) : p[n] = IF ds[n].index = x THEN ds[n].args ELSE <<>>
  BY <1>1, <1>2 DEF Pieces
<1>4. p = [n \in 1..Len(ds) |-> p[n]]
  BY <1>1, <1>2 DEF Pieces
<1>5. Listed(p) /\ Len(p) = Len(ds)
  BY <1>1, <1>4, FunctionListed
<1>6. Lists(p)
  BY <1>3, <1>5, EmptyListed DEF Lists, AreDeltas
<1>7. QED
  BY <1>2, <1>3, <1>5, <1>6

LEMMA DeltasMore ==
    ASSUME NEW ds, AreDeltas(ds), NEW d, Listed(d.args)
    PROVE  /\ AreDeltas(ds \o <<d>>) /\ Len(ds) \in Nat /\ Len(ds \o <<d>>) = Len(ds) + 1
           /\ \A i \in 1..Len(ds) : (ds \o <<d>>)[i] = ds[i]
           /\ (ds \o <<d>>)[Len(ds) + 1] = d
<1>1. PICK o : o = <<d>>
  OBVIOUS
<1>2. Listed(o) /\ Len(o) = 1 /\ o[1] = d
  BY <1>1, OneListed
<1>3. Listed(ds) /\ \A i \in 1..Len(ds) : Listed(ds[i].args)
  BY DEF AreDeltas
<1>4. /\ Listed(ds \o o) /\ Len(ds) \in Nat /\ Len(ds \o o) = Len(ds) + Len(o)
      /\ \A i \in 1..(Len(ds) + Len(o)) :
            (ds \o o)[i] = IF i <= Len(ds) THEN ds[i] ELSE o[i - Len(ds)]
  BY <1>2, <1>3, ConcatListed
<1>5. ASSUME NEW i \in 1..Len(ds) PROVE (ds \o o)[i] = ds[i]
  <2>1. i \in 1..(Len(ds) + Len(o)) /\ i <= Len(ds)
    BY <1>2, <1>4
  <2>2. QED
    BY <1>4, <2>1
<1>6. (ds \o o)[Len(ds) + 1] = d
  <2>1. /\ Len(ds) + 1 \in 1..(Len(ds) + Len(o)) /\ ~(Len(ds) + 1 <= Len(ds))
        /\ (Len(ds) + 1) - Len(ds) = 1
    BY <1>2, <1>4
  <2>2. QED
    BY <1>2, <1>4, <2>1
<1>7. Len(ds \o o) = Len(ds) + 1
  BY <1>2, <1>4
<1>8. ASSUME NEW i \in 1..Len(ds \o o) PROVE Listed((ds \o o)[i].args)
  <2>1. i \in 1..Len(ds) \/ i = Len(ds) + 1
    BY <1>4, <1>7
  <2>2. QED
    BY <1>3, <1>5, <1>6, <2>1
<1>9. AreDeltas(ds \o o)
  BY <1>4, <1>8 DEF AreDeltas
<1>10. QED
  BY <1>1, <1>4, <1>5, <1>6, <1>7, <1>9

LEMMA PiecesMore ==
    ASSUME NEW ds, AreDeltas(ds), NEW d, Listed(d.args), NEW x
    PROVE  S!FlattenSeq(Pieces(ds \o <<d>>, x))
               = S!FlattenSeq(Pieces(ds, x)) \o (IF d.index = x THEN d.args ELSE <<>>)
<1>1. PICK more : more = ds \o <<d>>
  OBVIOUS
<1>2. /\ AreDeltas(more) /\ Len(ds) \in Nat /\ Len(more) = Len(ds) + 1
      /\ \A i \in 1..Len(ds) : more[i] = ds[i]
      /\ more[Len(ds) + 1] = d
  BY <1>1, DeltasMore
<1>3. PICK p : p = Pieces(ds, x)
  OBVIOUS
<1>4. PICK q : q = Pieces(more, x)
  OBVIOUS
<1>5. /\ Lists(p) /\ Len(p) = Len(ds)
      /\ \A n \in 1..Len(ds) : p[n] = IF ds[n].index = x THEN ds[n].args ELSE <<>>
  BY <1>3, PiecesLists
<1>6. /\ Lists(q) /\ Len(q) = Len(ds) + 1
      /\ \A n \in 1..(Len(ds) + 1) : q[n] = IF more[n].index = x THEN more[n].args ELSE <<>>
  BY <1>2, <1>4, PiecesLists
<1>7. PICK last : last = IF d.index = x THEN d.args ELSE <<>>
  OBVIOUS
<1>8. Listed(last)
  BY <1>7, EmptyListed
<1>a. PICK w : w = p \o <<last>>
  OBVIOUS
<1>9. /\ Lists(w) /\ Len(w) = Len(p) + 1
      /\ \A i \in 1..Len(p) : w[i] = p[i]
      /\ w[Len(p) + 1] = last
  <2>1. Lists(p) /\ Listed(last)
    BY <1>5, <1>8
  <2>2. QED
    BY <1>a, <2>1, ListsMore
<1>b. Len(q) = Len(ds) + 1 /\ Len(ds) \in Nat
  BY <1>2, <1>6
<1>10. ASSUME NEW i \in 1..Len(q) PROVE q[i] = w[i]
  <2>0. i \in 1..Len(ds) \/ i = Len(ds) + 1
    BY <1>b
  <2>1. CASE i \in 1..Len(ds)
    <3>1. i \in 1..(Len(ds) + 1)
      BY <1>6
    <3>2. q[i] = p[i]
      BY <1>2, <1>5, <1>6, <2>1, <3>1
    <3>3. QED
      BY <1>5, <1>9, <2>1, <3>2
  <2>2. CASE i = Len(ds) + 1
    <3>1. i \in 1..(Len(ds) + 1)
      BY <1>6
    <3>2. q[i] = last
      BY <1>2, <1>6, <1>7, <2>2, <3>1
    <3>3. QED
      BY <1>5, <1>9, <2>2, <3>2
  <2>3. QED
    BY <2>0, <2>1, <2>2
<1>11. q = w
  <2>1. Listed(q) /\ Listed(w) /\ Len(q) = Len(w)
    BY <1>5, <1>6, <1>9 DEF Lists
  <2>2. QED
    BY <1>10, <2>1, SameSequence
<1>12. S!FlattenSeq(p \o <<last>>) = S!FlattenSeq(p) \o last
  BY <1>5, <1>8, FlattenMore
<1>13. QED
  BY <1>1, <1>3, <1>4, <1>7, <1>11, <1>12, <1>a

(* One delta more. *)
LEMMA GatherOne ==
    ASSUME NEW b, NEW ds, AreDeltas(ds), Gathered(b, ds), NEW d, Listed(d.args)
    PROVE  Gathered(Accumulate(b, d), ds \o <<d>>)
<1> DEFINE y == d.index
<1>1. PICK more : more = ds \o <<d>>
  OBVIOUS
<1>2. /\ AreDeltas(more) /\ Len(ds) \in Nat /\ Len(more) = Len(ds) + 1
      /\ \A i \in 1..Len(ds) : more[i] = ds[i]
      /\ more[Len(ds) + 1] = d
  BY <1>1, DeltasMore
<1>3. /\ \A n \in 1..Len(ds) : n \in 1..Len(more)
      /\ Len(ds) + 1 \in 1..Len(more)
      /\ \A n \in 1..Len(more) : n \in 1..Len(ds) \/ n = Len(ds) + 1
  BY <1>2
<1>4. PICK old : old = IF y \in DOMAIN b THEN b[y] ELSE Blank
  OBVIOUS
<1>5. PICK new : new = [id   |-> IF d.id = NoId THEN old.id ELSE d.id,
                        name |-> IF d.name = "" THEN old.name ELSE d.name,
                        args |-> old.args \o d.args]
  OBVIOUS
<1>6. PICK c : c = Accumulate(b, d)
  OBVIOUS
<1>7. c = [i \in DOMAIN b \cup {y} |-> IF i = y THEN new ELSE b[i]]
  BY <1>4, <1>5, <1>6 DEF Accumulate
<1>8. /\ DOMAIN c = DOMAIN b \cup {y} /\ c[y] = new
      /\ \A i \in DOMAIN b : i # y => c[i] = b[i]
  BY <1>7
<1>9. DOMAIN c = {more[n].index : n \in 1..Len(more)}
  <2>1. DOMAIN b = {ds[n].index : n \in 1..Len(ds)}
    BY DEF Gathered
  <2>2. ASSUME NEW i \in DOMAIN c PROVE \E n \in 1..Len(more) : more[n].index = i
    <3>1. CASE i = y
      BY <1>2, <1>3, <3>1
    <3>2. CASE i # y
      <4>1. PICK n \in 1..Len(ds) : ds[n].index = i
        BY <1>8, <2>1, <3>2
      <4>2. QED
        BY <1>2, <1>3, <4>1
    <3>3. QED
      BY <3>1, <3>2
  <2>3. ASSUME NEW n \in 1..Len(more) PROVE more[n].index \in DOMAIN c
    <3>1. CASE n \in 1..Len(ds)
      BY <1>2, <1>8, <2>1, <3>1
    <3>2. CASE n = Len(ds) + 1
      BY <1>2, <1>8, <3>2
    <3>3. QED
      BY <1>3, <3>1, <3>2
  <2>4. QED
    BY <2>2, <2>3
<1>10. /\ old = [id |-> old.id, name |-> old.name, args |-> S!FlattenSeq(Pieces(ds, y))]
       /\ old.id # NoId => \E n \in 1..Len(ds) : ds[n].index = y /\ ds[n].id = old.id
       /\ old.name # "" => \E n \in 1..Len(ds) : ds[n].index = y /\ ds[n].name = old.name
       /\ \A n \in 1..Len(ds) : ds[n].index = y =>
             /\ ds[n].id # NoId => old.id # NoId
             /\ ds[n].name # "" => old.name # ""
  <2>1. CASE y \in DOMAIN b
    <3>1. old = b[y]
      BY <1>4, <2>1
    <3>2. /\ b[y] = [id |-> b[y].id, name |-> b[y].name, args |-> S!FlattenSeq(Pieces(ds, y))]
          /\ b[y].id # NoId => \E n \in 1..Len(ds) : ds[n].index = y /\ ds[n].id = b[y].id
          /\ b[y].name # "" => \E n \in 1..Len(ds) : ds[n].index = y /\ ds[n].name = b[y].name
          /\ \A n \in 1..Len(ds) : ds[n].index = y =>
                /\ ds[n].id # NoId => b[y].id # NoId
                /\ ds[n].name # "" => b[y].name # ""
      BY <2>1, Zenon DEF Gathered
    <3>3. QED
      BY <3>1, <3>2, Zenon
  <2>2. CASE y \notin DOMAIN b
    <3>0. DOMAIN b = {ds[n].index : n \in 1..Len(ds)}
      BY DEF Gathered
    <3>1. \A n \in 1..Len(ds) : ds[n].index # y
      BY <2>2, <3>0
    <3>2. PICK p : p = Pieces(ds, y)
      OBVIOUS
    <3>3. Listed(p) /\ \A i \in 1..Len(p) : p[i] = <<>>
      BY <3>1, <3>2, PiecesLists DEF Lists
    <3>4. S!FlattenSeq(p) = <<>>
      BY <3>3, FlattenEmpties
    <3>5. old = [id |-> NoId, name |-> "", args |-> <<>>]
      BY <1>4, <2>2 DEF Blank
    <3>6. old.id = NoId /\ old.name = ""
      BY <3>5
    <3>7. QED
      BY <3>1, <3>2, <3>4, <3>5, <3>6
  <2>3. QED
    BY <2>1, <2>2
<1>11. /\ new.id = (IF d.id = NoId THEN old.id ELSE d.id)
       /\ new.name = (IF d.name = "" THEN old.name ELSE d.name)
       /\ new.args = old.args \o d.args
       /\ new = [id |-> new.id, name |-> new.name, args |-> new.args]
  BY <1>5
<1>12. old.args = S!FlattenSeq(Pieces(ds, y))
  <2>1. PICK joined : joined = S!FlattenSeq(Pieces(ds, y))
    OBVIOUS
  <2>2. old = [id |-> old.id, name |-> old.name, args |-> joined]
    BY <1>10, <2>1
  <2>3. old.args = joined
    BY <2>2
  <2>4. QED
    BY <2>1, <2>3
<1>13. new.args = S!FlattenSeq(Pieces(more, y))
  <2>1. S!FlattenSeq(Pieces(ds \o <<d>>, y))
            = S!FlattenSeq(Pieces(ds, y)) \o (IF d.index = y THEN d.args ELSE <<>>)
    BY PiecesMore
  <2>2. QED
    BY <1>1, <1>11, <1>12, <2>1
<1>14. ASSUME NEW x \in DOMAIN b, x # y
       PROVE  S!FlattenSeq(Pieces(more, x)) = S!FlattenSeq(Pieces(ds, x))
  <2>1. S!FlattenSeq(Pieces(more, x)) = S!FlattenSeq(Pieces(ds, x)) \o <<>>
    BY <1>1, <1>14, PiecesMore
  <2>2. Listed(S!FlattenSeq(Pieces(ds, x)))
    BY PiecesLists, FlattenListed
  <2>3. QED
    BY <2>1, <2>2, ConcatEmpty
<1>15. ASSUME NEW x \in DOMAIN c
       PROVE  /\ c[x] = [id |-> c[x].id, name |-> c[x].name, args |-> S!FlattenSeq(Pieces(more, x))]
              /\ c[x].id # NoId => \E n \in 1..Len(more) : more[n].index = x /\ more[n].id = c[x].id
              /\ c[x].name # "" =>
                    \E n \in 1..Len(more) : more[n].index = x /\ more[n].name = c[x].name
              /\ \A n \in 1..Len(more) : more[n].index = x =>
                    /\ more[n].id # NoId => c[x].id # NoId
                    /\ more[n].name # "" => c[x].name # ""
  <2>1. CASE x = y
    <3>0. c[x] = new
      BY <1>8, <2>1
    <3>1. new = [id |-> new.id, name |-> new.name, args |-> S!FlattenSeq(Pieces(more, x))]
      BY <1>11, <1>13, <2>1
    <3>2. ASSUME new.id # NoId
          PROVE  \E n \in 1..Len(more) : more[n].index = x /\ more[n].id = new.id
      <4>1. CASE d.id = NoId
        BY <1>2, <1>3, <1>10, <1>11, <2>1, <3>2, <4>1
      <4>2. CASE d.id # NoId
        BY <1>2, <1>3, <1>11, <2>1, <4>2
      <4>3. QED
        BY <4>1, <4>2
    <3>3. ASSUME new.name # ""
          PROVE  \E n \in 1..Len(more) : more[n].index = x /\ more[n].name = new.name
      <4>1. CASE d.name = ""
        BY <1>2, <1>3, <1>10, <1>11, <2>1, <3>3, <4>1
      <4>2. CASE d.name # ""
        BY <1>2, <1>3, <1>11, <2>1, <4>2
      <4>3. QED
        BY <4>1, <4>2
    <3>4. ASSUME NEW n \in 1..Len(more), more[n].index = x
          PROVE  /\ more[n].id # NoId => new.id # NoId
                 /\ more[n].name # "" => new.name # ""
      <4>1. CASE n \in 1..Len(ds)
        BY <1>2, <1>10, <1>11, <2>1, <3>4, <4>1
      <4>2. CASE n = Len(ds) + 1
        BY <1>2, <1>11, <4>2
      <4>3. QED
        BY <1>3, <4>1, <4>2
    <3>5. QED
      BY <3>0, <3>1, <3>2, <3>3, <3>4
  <2>2. CASE x # y
    <3>1. x \in DOMAIN b /\ c[x] = b[x]
      BY <1>8, <2>2
    <3>2. /\ b[x] = [id |-> b[x].id, name |-> b[x].name, args |-> S!FlattenSeq(Pieces(ds, x))]
          /\ b[x].id # NoId => \E n \in 1..Len(ds) : ds[n].index = x /\ ds[n].id = b[x].id
          /\ b[x].name # "" => \E n \in 1..Len(ds) : ds[n].index = x /\ ds[n].name = b[x].name
          /\ \A n \in 1..Len(ds) : ds[n].index = x =>
                /\ ds[n].id # NoId => b[x].id # NoId
                /\ ds[n].name # "" => b[x].name # ""
      BY <3>1 DEF Gathered
    <3>3. b[x] = [id |-> b[x].id, name |-> b[x].name, args |-> S!FlattenSeq(Pieces(more, x))]
      BY <1>14, <2>2, <3>1, <3>2
    <3>4. /\ b[x].id # NoId => \E n \in 1..Len(more) : more[n].index = x /\ more[n].id = b[x].id
          /\ b[x].name # "" =>
                \E n \in 1..Len(more) : more[n].index = x /\ more[n].name = b[x].name
      BY <1>2, <1>3, <3>2
    <3>5. ASSUME NEW n \in 1..Len(more), more[n].index = x
          PROVE  /\ more[n].id # NoId => b[x].id # NoId
                 /\ more[n].name # "" => b[x].name # ""
      <4>1. n \in 1..Len(ds)
        BY <1>2, <1>3, <2>2, <3>5
      <4>2. QED
        BY <1>2, <3>2, <3>5, <4>1
    <3>6. QED
      BY <3>1, <3>3, <3>4, <3>5
  <2>3. QED
    BY <2>1, <2>2
<1>16. Gathered(c, more)
  BY <1>9, <1>15 DEF Gathered
<1>17. QED
  BY <1>1, <1>6, <1>16

(* All deltas of a line, one after the other. *)
Accumulated(b, ds, f) ==
    f = [i \in 0..Len(ds) |-> IF i = 0 THEN b ELSE Accumulate(f[i - 1], ds[i])]

LEMMA AccumulatedExists ==
    ASSUME NEW b, NEW ds, Listed(ds)
    PROVE  \E f : Accumulated(b, ds, f)
<1> DEFINE n == Len(ds)
           Body(f, i) == IF i = 0 THEN b ELSE Accumulate(f[i - 1], ds[i])
           T == {m \in Nat : \E f : f = [i \in 0..m |-> Body(f, i)]}
<1>0. n \in Nat
  BY ListedFacts
<1>1. 0 \in T
  <2>1. PICK f : f = [i \in 0..0 |-> b]
    OBVIOUS
  <2>2. f = [i \in 0..0 |-> Body(f, i)]
    BY <2>1
  <2>3. QED
    BY <2>2
<1>2. ASSUME NEW m \in Nat, m \in T PROVE m + 1 \in T
  <2>1. PICK f : f = [i \in 0..m |-> Body(f, i)]
    BY <1>2
  <2> DEFINE g == [i \in 0..(m + 1) |-> IF i <= m THEN f[i] ELSE Body(f, i)]
  <2>2. ASSUME NEW i \in 0..(m + 1) PROVE g[i] = Body(g, i)
    <3>1. CASE i = 0
      <4>1. f[0] = b
        BY <2>1
      <4>2. QED
        BY <3>1, <4>1
    <3>2. CASE i # 0
      <4>1. i - 1 \in 0..m /\ g[i - 1] = f[i - 1]
        BY <3>2
      <4>2. ASSUME i <= m PROVE f[i] = Accumulate(f[i - 1], ds[i])
        <5>1. i \in 0..m
          BY <4>2
        <5>2. f[i] = Body(f, i)
          <6> HIDE DEF Body
          <6>1. QED
            BY <2>1, <5>1
        <5>3. QED
          BY <3>2, <5>2
      <4>3. QED
        BY <3>2, <4>1, <4>2
    <3>3. QED
      BY <3>1, <3>2
  <2>3. g = [i \in 0..(m + 1) |-> Body(g, i)]
    <3>1. g = [i \in 0..(m + 1) |-> g[i]]
      OBVIOUS
    <3> HIDE DEF g, Body
    <3>2. QED
      BY <2>2, <3>1
  <2>4. QED
    <3> HIDE DEF g, Body
    <3>1. \E h : h = [i \in 0..(m + 1) |-> Body(h, i)]
      BY <2>3
    <3>2. QED
      BY <3>1
<1>3. n \in T
  <2> HIDE DEF T
  <2>1. QED
    BY <1>0, <1>1, <1>2, Induction
<1>4. QED
  BY <1>3 DEF Accumulated

LEMMA GatherAll ==
    ASSUME NEW b, NEW ds, AreDeltas(ds), Gathered(b, ds), NEW more, AreDeltas(more)
    PROVE  AreDeltas(ds \o more) /\ Gathered(AccumulateAll(b, more), ds \o more)
<1> DEFINE n == Len(more)
           First(i) == [j \in 1..i |-> more[j]]
           f == CHOOSE f : Accumulated(b, more, f)
           Fits(i) == AreDeltas(ds \o First(i)) /\ Gathered(f[i], ds \o First(i))
           T == {i \in 0..n : Fits(i)}
<1>1. /\ Listed(ds) /\ Listed(more) /\ n \in Nat /\ more = First(n)
      /\ \A i \in 1..n : Listed(more[i].args)
  BY LenProperties DEF AreDeltas, Listed
<1>2. Accumulated(b, more, f)
  BY <1>1, AccumulatedExists
<1>3. AccumulateAll(b, more) = f[n]
  BY DEF AccumulateAll, Accumulated
<1> HIDE DEF f
<1>4. /\ f[0] = b
      /\ \A i \in 0..(n - 1) : f[i + 1] = Accumulate(f[i], more[i + 1])
  <2>1. f[0] = b
    <3>1. 0 \in 0..n
      BY <1>1
    <3>2. QED
      BY <1>2, <3>1 DEF Accumulated
  <2>2. ASSUME NEW i \in 0..(n - 1) PROVE f[i + 1] = Accumulate(f[i], more[i + 1])
    <3>1. i + 1 \in 0..n /\ i + 1 # 0 /\ (i + 1) - 1 = i
      BY <1>1
    <3>2. QED
      BY <1>2, <3>1 DEF Accumulated
  <2>3. QED
    BY <2>1, <2>2
<1>5. 0 \in T
  <2>1. PICK z : z = First(0)
    OBVIOUS
  <2>2. z = [j \in 1..0 |-> z[j]]
    BY <2>1
  <2>3. Listed(z) /\ Len(z) = 0
    BY <2>2, FunctionListed
  <2>4. z = <<>>
    <3>1. \A i \in 1..0 : z[i] = <<>>[i]
      OBVIOUS
    <3>2. QED
      BY <2>3, <3>1, EmptyListed, SameSequence
  <2>5. ds \o z = ds
    BY <1>1, <2>4, ConcatEmpty
  <2> HIDE DEF First
  <2>6. Fits(0)
    BY <1>4, <2>1, <2>5
  <2>7. QED
    BY <1>1, <2>6
<1>6. ASSUME NEW i \in 0..(n - 1), i \in T PROVE i + 1 \in T
  <2>1. i \in Nat /\ i + 1 \in 0..n /\ i + 1 \in 1..n
    BY <1>1
  <2>2. PICK a : a = First(i)
    OBVIOUS
  <2>3. PICK c : c = First(i + 1)
    OBVIOUS
  <2>4. i + 1 \in 1..(i + 1)
    BY <2>1
  <2>5. c = [j \in 1..(i + 1) |-> c[j]] /\ c[i + 1] = more[i + 1]
    BY <2>3, <2>4
  <2>6. a = [j \in 1..i |-> c[j]]
    <3>1. \A j \in 1..i : c[j] = more[j]
      BY <2>1, <2>3
    <3>2. QED
      BY <2>2, <3>1
  <2>7. c = a \o <<more[i + 1]>> /\ Listed(a)
    BY <2>1, <2>5, <2>6, LastApart
  <2>8. PICK d : d = more[i + 1]
    OBVIOUS
  <2>9. Listed(d.args) /\ f[i + 1] = Accumulate(f[i], d)
    BY <1>1, <1>4, <2>1, <2>8
  <2> HIDE DEF First
  <2>10. AreDeltas(ds \o a) /\ Gathered(f[i], ds \o a)
    BY <1>6, <2>2
  <2>11. /\ AreDeltas((ds \o a) \o <<d>>)
         /\ Gathered(Accumulate(f[i], d), (ds \o a) \o <<d>>)
    BY <2>9, <2>10, DeltasMore, GatherOne
  <2>12. (ds \o a) \o <<d>> = ds \o c
    <3>1. PICK o : o = <<d>>
      OBVIOUS
    <3>2. Listed(o) /\ Listed(a) /\ Listed(ds)
      BY <1>1, <2>7, <3>1, OneListed
    <3>3. (ds \o a) \o o = ds \o (a \o o)
      <4>1. InAnyOrder(ds, a, o)
        BY <3>2, Associative
      <4>2. QED
        BY <4>1 DEF InAnyOrder
    <3>4. c = a \o o
      BY <2>7, <2>8, <3>1
    <3>5. QED
      BY <3>1, <3>3, <3>4
  <2>13. Fits(i + 1)
    BY <2>3, <2>9, <2>11, <2>12
  <2>14. QED
    BY <2>1, <2>13
<1>7. n \in T
  <2> HIDE DEF T
  <2>1. 0..n \subseteq T
    BY <1>1, <1>5, <1>6, InductionUpTo
  <2>2. QED
    BY <1>1, <2>1
<1>8. QED
  <2> HIDE DEF First
  <2>1. QED
    BY <1>1, <1>3, <1>7

-----------------------------------------------------------------------------
(* A complete buffer. *)

Increasing(n, s) == \A k, l \in 1..n : k < l => s[k] < s[l]
Onto(n, s, R) == \A x \in R : \E k \in 1..n : s[k] = x

LEMMA NotBefore ==
    ASSUME NEW n \in Nat, NEW R \in SUBSET Nat, NEW s \in [1..n -> R], NEW t \in [1..n -> R],
           Increasing(n, s), Increasing(n, t), Onto(n, t, R),
           NEW i \in 1..n, \A k \in 1..(i - 1) : s[k] = t[k]
    PROVE  ~(s[i] < t[i])
<1> SUFFICES ASSUME s[i] < t[i] PROVE FALSE
  OBVIOUS
<1>1. PICK j \in 1..n : t[j] = s[i]
  BY DEF Onto
<1>2. s[i] \in Nat /\ t[i] \in Nat /\ t[j] \in Nat /\ s[j] \in Nat
  OBVIOUS
<1>3. CASE j < i
  <2>1. j \in 1..(i - 1)
    BY <1>3
  <2>2. s[j] < s[i]
    BY <1>3 DEF Increasing
  <2>3. s[j] = t[j]
    BY <2>1
  <2>4. QED
    BY <1>1, <1>2, <2>2, <2>3
<1>4. CASE j = i
  BY <1>1, <1>2, <1>4
<1>5. CASE i < j
  <2>1. t[i] < t[j]
    BY <1>5 DEF Increasing
  <2>2. QED
    BY <1>1, <1>2, <2>1
<1>6. QED
  BY <1>3, <1>4, <1>5

LEMMA OneOrder ==
    ASSUME NEW n \in Nat, NEW R \in SUBSET Nat, NEW s \in [1..n -> R], NEW t \in [1..n -> R],
           Increasing(n, s), Increasing(n, t), Onto(n, s, R), Onto(n, t, R)
    PROVE  s = t
<1> DEFINE T == {i \in 1..n : s[i] # t[i]}
<1> SUFFICES ASSUME T # {} PROVE FALSE
  OBVIOUS
<1>1. PICK i \in T : \A k \in T : i <= k
  <2>1. T \in SUBSET Nat
    OBVIOUS
  <2> HIDE DEF T
  <2>2. QED
    BY <2>1, Least
<1>2. \A k \in 1..(i - 1) : s[k] = t[k]
  <2>1. ASSUME NEW k \in 1..(i - 1) PROVE s[k] = t[k]
    <3>1. k \in 1..n /\ ~(i <= k)
      OBVIOUS
    <3>2. QED
      BY <1>1, <3>1
  <2>2. QED
    BY <2>1
<1>3. i \in 1..n /\ s[i] # t[i] /\ s[i] \in Nat /\ t[i] \in Nat
  OBVIOUS
<1> HIDE DEF T
<1>4. ~(s[i] < t[i])
  BY <1>2, <1>3, NotBefore
<1>5. ~(t[i] < s[i])
  <2>1. \A k \in 1..(i - 1) : t[k] = s[k]
    BY <1>2
  <2>2. QED
    BY <1>3, <2>1, NotBefore
<1>6. QED
  BY <1>3, <1>4, <1>5

LEMMA InOrderIs ==
    ASSUME NEW n \in Nat, NEW R \in SUBSET Nat, NEW index \in [1..n -> R],
           Increasing(n, index), Onto(n, index, R)
    PROVE  InOrder(R) = index
<1>1. Cardinality(R) = n
  <2>1. ASSUME NEW k \in 1..n, NEW l \in 1..n, index[k] = index[l] PROVE k = l
    <3>1. index[k] \in Nat /\ index[l] \in Nat
      OBVIOUS
    <3>2. ~(k < l)
      BY <2>1, <3>1 DEF Increasing
    <3>3. ~(l < k)
      BY <2>1, <3>1 DEF Increasing
    <3>4. QED
      BY <3>2, <3>3
  <2>2. index \in Bijection(1..n, R)
    BY <2>1 DEF Bijection, Injection, Surjection, IsInjective, Onto
  <2>3. QED
    BY <2>2, FS_CountingElements DEF ExistsBijection
<1> DEFINE IsOrder(s) == /\ S!Range(s) = R
                         /\ \A i, j \in DOMAIN s : i < j => s[i] < s[j]
<1>2. IsOrder(index)
  BY DEF S!Range, Onto, Increasing
<1>3. InOrder(R) = CHOOSE s \in [1..n -> R] : IsOrder(s)
  BY <1>1 DEF InOrder
<1>4. PICK s : s = InOrder(R)
  OBVIOUS
<1>5. s \in [1..n -> R] /\ IsOrder(s)
  <2> HIDE DEF IsOrder
  <2>1. \E o \in [1..n -> R] : IsOrder(o)
    BY <1>2
  <2>2. QED
    BY <1>3, <1>4, <2>1
<1>6. Onto(n, s, R) /\ Increasing(n, s)
  BY <1>5 DEF S!Range, Onto, Increasing
<1>7. QED
  BY <1>4, <1>5, <1>6, OneOrder

(* When all deltas have come, the buffer is flushed as the calls they tell.  *)
LEMMA FlushSays ==
    ASSUME NEW b, NEW ds, AreDeltas(ds), Gathered(b, ds),
           NEW says, Listed(says), TellsInPieces(says, ds)
    PROVE  Flush(b) = Calls(says)
<1> DEFINE n == Len(says)
<1>1. n \in Nat /\ DOMAIN says = 1..n /\ DOMAIN ds = 1..Len(ds)
  BY ListedFacts DEF AreDeltas
<1>a. PICK index \in [DOMAIN says -> 0..9] :
          /\ \A k, l \in DOMAIN says : k < l => index[k] < index[l]
          /\ \A m \in DOMAIN ds : \E k \in DOMAIN says :
                /\ ds[m].index = index[k]
                /\ ds[m].id \in {NoId, says[k].id} /\ ds[m].name \in {"", says[k].name}
          /\ \A k \in DOMAIN says :
                /\ \E m \in DOMAIN ds : ds[m].index = index[k] /\ ds[m].id # NoId
                /\ \E m \in DOMAIN ds : ds[m].index = index[k] /\ ds[m].name # ""
                /\ S!FlattenSeq(Pieces(ds, index[k])) = says[k].args
  BY DEF TellsInPieces
<1>b. index \in [1..n -> 0..9] /\ DOMAIN index = 1..n
  BY <1>1, <1>a
<1>c. \A k, l \in 1..n : k < l => index[k] < index[l]
  BY <1>1, <1>a
<1>2. /\ \A m \in 1..Len(ds) : \E k \in 1..n :
            /\ ds[m].index = index[k]
            /\ ds[m].id \in {NoId, says[k].id} /\ ds[m].name \in {"", says[k].name}
      /\ \A k \in 1..n :
            /\ \E m \in 1..Len(ds) : ds[m].index = index[k] /\ ds[m].id # NoId
            /\ \E m \in 1..Len(ds) : ds[m].index = index[k] /\ ds[m].name # ""
            /\ S!FlattenSeq(Pieces(ds, index[k])) = says[k].args
  <2>1. ASSUME NEW m \in 1..Len(ds)
        PROVE  \E k \in 1..n : /\ ds[m].index = index[k]
                               /\ ds[m].id \in {NoId, says[k].id}
                               /\ ds[m].name \in {"", says[k].name}
    <3>1. m \in DOMAIN ds
      BY <1>1
    <3>2. PICK k \in DOMAIN says : /\ ds[m].index = index[k]
                                   /\ ds[m].id \in {NoId, says[k].id}
                                   /\ ds[m].name \in {"", says[k].name}
      BY <1>a, <3>1
    <3>3. QED
      BY <1>1, <3>2
  <2>2. ASSUME NEW k \in 1..n
        PROVE  /\ \E m \in 1..Len(ds) : ds[m].index = index[k] /\ ds[m].id # NoId
               /\ \E m \in 1..Len(ds) : ds[m].index = index[k] /\ ds[m].name # ""
               /\ S!FlattenSeq(Pieces(ds, index[k])) = says[k].args
    <3>1. k \in DOMAIN says
      BY <1>1
    <3>2. /\ \E m \in DOMAIN ds : ds[m].index = index[k] /\ ds[m].id # NoId
          /\ \E m \in DOMAIN ds : ds[m].index = index[k] /\ ds[m].name # ""
          /\ S!FlattenSeq(Pieces(ds, index[k])) = says[k].args
      BY <1>a, <3>1
    <3>3. QED
      BY <1>1, <3>2
  <2>3. QED
    BY <2>1, <2>2
<1>3. \A k, l \in 1..n : index[k] = index[l] => k = l
  <2>1. ASSUME NEW k \in 1..n, NEW l \in 1..n, index[k] = index[l] PROVE k = l
    <3>1. index[k] \in 0..9 /\ index[l] \in 0..9
      BY <1>b
    <3>2. ~(k < l)
      BY <1>c, <2>1, <3>1
    <3>a. ~(l < k)
      BY <1>c, <2>1, <3>1
    <3>3. QED
      BY <3>2, <3>a
  <2>2. QED
    BY <2>1
<1> DEFINE R == {index[k] : k \in 1..n}
<1>4. DOMAIN b = R
  <2>1. DOMAIN b = {ds[m].index : m \in 1..Len(ds)}
    BY DEF Gathered
  <2>2. ASSUME NEW m \in 1..Len(ds) PROVE ds[m].index \in R
    BY <1>2
  <2>3. ASSUME NEW k \in 1..n PROVE \E m \in 1..Len(ds) : ds[m].index = index[k]
    BY <1>2
  <2>4. QED
    BY <2>1, <2>2, <2>3
<1>5. ASSUME NEW k \in 1..n
      PROVE  /\ index[k] \in DOMAIN b
             /\ b[index[k]].id # NoId /\ b[index[k]].name # ""
             /\ Call(b[index[k]]) = Call(says[k])
  <2>1. PICK x : x = index[k]
    OBVIOUS
  <2>2. x \in DOMAIN b
    BY <1>4, <2>1
  <2>3. PICK joined : joined = S!FlattenSeq(Pieces(ds, x))
    OBVIOUS
  <2>4. /\ b[x] = [id |-> b[x].id, name |-> b[x].name, args |-> joined]
        /\ b[x].id # NoId => \E m \in 1..Len(ds) : ds[m].index = x /\ ds[m].id = b[x].id
        /\ b[x].name # "" => \E m \in 1..Len(ds) : ds[m].index = x /\ ds[m].name = b[x].name
        /\ \A m \in 1..Len(ds) : ds[m].index = x =>
              /\ ds[m].id # NoId => b[x].id # NoId
              /\ ds[m].name # "" => b[x].name # ""
    BY <2>2, <2>3 DEF Gathered
  <2>5. b[x].args = joined
    <3>1. b[x] = [id |-> b[x].id, name |-> b[x].name, args |-> joined]
      BY <2>4
    <3>2. QED
      BY <3>1
  <2>6. joined = says[k].args
    BY <1>2, <2>1, <2>3
  <2>7. b[x].id # NoId
    <3>1. PICK m \in 1..Len(ds) : ds[m].index = x /\ ds[m].id # NoId
      BY <1>2, <2>1
    <3>2. QED
      BY <2>4, <3>1
  <2>8. b[x].name # ""
    <3>1. PICK m \in 1..Len(ds) : ds[m].index = x /\ ds[m].name # ""
      BY <1>2, <2>1
    <3>2. QED
      BY <2>4, <3>1
  <2>9. b[x].id = says[k].id
    <3>1. PICK m \in 1..Len(ds) : ds[m].index = x /\ ds[m].id = b[x].id
      BY <2>4, <2>7
    <3>2. PICK l \in 1..n : ds[m].index = index[l] /\ ds[m].id \in {NoId, says[l].id}
      BY <1>2
    <3>3. l = k
      BY <1>3, <2>1, <3>1, <3>2
    <3>4. QED
      BY <2>7, <3>1, <3>2, <3>3
  <2>10. b[x].name = says[k].name
    <3>1. PICK m \in 1..Len(ds) : ds[m].index = x /\ ds[m].name = b[x].name
      BY <2>4, <2>8
    <3>2. PICK l \in 1..n : ds[m].index = index[l] /\ ds[m].name \in {"", says[l].name}
      BY <1>2
    <3>3. l = k
      BY <1>3, <2>1, <3>1, <3>2
    <3>4. QED
      BY <2>8, <3>1, <3>2, <3>3
  <2>11. Call(b[x]) = Call(says[k])
    BY <2>5, <2>6, <2>9, <2>10 DEF Call
  <2>12. QED
    BY <2>1, <2>2, <2>7, <2>8, <2>11
<1>6. {i \in DOMAIN b : b[i].id # NoId /\ b[i].name # ""} = R
  BY <1>4, <1>5
<1>7. InOrder(R) = index
  <2>1. R \in SUBSET Nat
    BY <1>b
  <2>2. index \in [1..n -> R] /\ Onto(n, index, R)
    BY <1>b DEF Onto
  <2>3. Increasing(n, index)
    BY <1>c DEF Increasing
  <2> HIDE DEF R
  <2>4. QED
    BY <1>1, <2>1, <2>2, <2>3, InOrderIs
<1>8. Flush(b) = [k \in DOMAIN index |-> Call(b[index[k]])]
  <2> HIDE DEF R
  <2>1. QED
    BY <1>6, <1>7 DEF Flush
<1>9. Flush(b) = [k \in 1..n |-> Call(says[k])]
  BY <1>5, <1>8, <1>b
<1>10. QED
  BY <1>1, <1>9 DEF Calls

-----------------------------------------------------------------------------
(* A line of an answer. *)

AnswerFits == provider \in Providers /\ answer \in Answers[provider] /\ Honest(provider, answer)

LEMMA CallsAreDeltas ==
    ASSUME NEW cs, IsCalls(cs)
    PROVE  AreDeltas(cs)
<1>1. Listed(cs) /\ \A i \in DOMAIN cs : Listed(cs[i].args)
  BY SequenceListed DEF IsCalls
<1>2. QED
  BY <1>1, ListedFacts DEF AreDeltas

LEMMA LinesFit ==
    ASSUME AnswerFits
    PROVE  /\ Listed(Lines) /\ Len(Lines) \in Nat /\ DOMAIN Lines = 1..Len(Lines)
           /\ Listed(answer.says)
           /\ \A i \in 1..Len(Lines) : Listed(Lines[i].text) /\ AreDeltas(Lines[i].deltas)
<1>1. /\ IsCalls(answer.says) /\ IsSequence(Lines)
      /\ \A i \in DOMAIN Lines : IsSequence(Lines[i].text) /\ IsCalls(Lines[i].deltas)
  BY AnswersAssumption DEF AnswerFits, Lines
<1>2. Listed(Lines) /\ Len(Lines) \in Nat /\ DOMAIN Lines = 1..Len(Lines)
  BY <1>1, SequenceListed, ListedFacts
<1>3. Listed(answer.says)
  BY <1>1, CallsAreDeltas DEF AreDeltas
<1>4. \A i \in 1..Len(Lines) : Listed(Lines[i].text) /\ AreDeltas(Lines[i].deltas)
  BY <1>1, <1>2, SequenceListed, CallsAreDeltas
<1>5. QED
  BY <1>2, <1>3, <1>4

LEMMA CallsListed ==
    ASSUME NEW cs, Listed(cs)
    PROVE  Listed(Calls(cs)) /\ CallsIn(Calls(cs)) = Calls(cs)
<1>1. PICK s : s = Calls(cs)
  OBVIOUS
<1>2. Len(cs) \in Nat /\ DOMAIN cs = 1..Len(cs)
  BY ListedFacts
<1>3. s = [i \in 1..Len(cs) |-> s[i]] /\ \A i \in 1..Len(cs) : s[i] = Call(cs[i])
  BY <1>1, <1>2 DEF Calls
<1>4. Listed(s) /\ Len(s) = Len(cs)
  BY <1>2, <1>3, FunctionListed
<1>5. \A i \in 1..Len(s) : (s[i].kind = "call") = TRUE
  BY <1>3, <1>4 DEF Call
<1>6. QED
  BY <1>1, <1>4, <1>5, CallsInAll

LEMMA TextsQuiet ==
    ASSUME NEW line, Listed(line.text)
    PROVE  Listed(Texts(line)) /\ CallsIn(Texts(line)) = <<>>
<1>1. PICK s : s = Texts(line)
  OBVIOUS
<1>2. Len(line.text) \in Nat /\ DOMAIN line.text = 1..Len(line.text)
  BY ListedFacts
<1>3. s = [i \in 1..Len(line.text) |-> s[i]] /\ \A i \in 1..Len(line.text) : s[i] = Text
  BY <1>1, <1>2 DEF Texts
<1>4. Listed(s) /\ Len(s) = Len(line.text)
  BY <1>2, <1>3, FunctionListed
<1>5. \A i \in 1..Len(s) : (s[i].kind = "call") = FALSE
  <2>1. Text.kind # "call"
    BY DEF Text
  <2>2. QED
    BY <1>3, <1>4, <2>1
<1>6. QED
  BY <1>1, <1>4, <1>5, CallsInAll

LEMMA FinishQuiet ==
    ASSUME NEW reason
    PROVE  Listed(Finish(reason)) /\ CallsIn(Finish(reason)) = <<>>
<1>1. CASE reason = ""
  <2>1. Finish(reason) = <<>>
    BY <1>1 DEF Finish
  <2>2. QED
    BY <2>1, EmptyListed, CallsInNone
<1>2. CASE reason # ""
  <2>1. PICK e : e = [kind |-> "finish", id |-> NoId, name |-> reason, args |-> <<>>]
    OBVIOUS
  <2>2. Finish(reason) = <<e>>
    BY <1>2, <2>1 DEF Finish
  <2>3. e.kind # "call"
    BY <2>1
  <2>4. Own(e) = <<>>
    BY <2>3 DEF Own
  <2>5. QED
    BY <2>2, <2>4, OneListed, CallsInOne
<1>3. QED
  BY <1>1, <1>2

LEMMA QuietAfter ==
    ASSUME NEW s, Listed(s), NEW q, Listed(q), CallsIn(q) = <<>>
    PROVE  Listed(s \o q) /\ CallsIn(s \o q) = CallsIn(s)
<1>1. Listed(s \o q) /\ CallsIn(s \o q) = CallsIn(s) \o CallsIn(q)
  BY CallsInConcat
<1>2. Listed(CallsIn(s))
  BY OwnsLists
<1>3. CallsIn(s) \o <<>> = CallsIn(s)
  BY <1>2, ConcatEmpty
<1>4. QED
  BY <1>1, <1>3

LEMMA NoLines ==
    /\ DeltasTo(0) = <<>> /\ ~Flushed(0)
    /\ S!FlattenSeq([j \in 1..0 |-> Calls(Lines[j].deltas)]) = <<>>
<1>1. ASSUME NEW z, z = [j \in 1..0 |-> z[j]] PROVE S!FlattenSeq(z) = <<>>
  <2>1. Listed(z) /\ Len(z) = 0
    BY <1>1, FunctionListed
  <2>2. \A i \in 1..0 : z[i] = <<>>[i]
    OBVIOUS
  <2>3. z = <<>>
    BY <2>1, <2>2, EmptyListed, SameSequence
  <2>4. QED
    BY <2>3, FlattenNone
<1>2. PICK y : y = [j \in 1..0 |-> Lines[j].deltas]
  OBVIOUS
<1>3. PICK z : z = [j \in 1..0 |-> Calls(Lines[j].deltas)]
  OBVIOUS
<1>4. y = [j \in 1..0 |-> y[j]] /\ z = [j \in 1..0 |-> z[j]]
  BY <1>2, <1>3
<1>5. S!FlattenSeq(y) = <<>> /\ S!FlattenSeq(z) = <<>>
  BY <1>1, <1>4
<1>6. QED
  BY <1>2, <1>3, <1>5 DEF DeltasTo, Flushed

LEMMA LineMore ==
    ASSUME NEW n \in Nat, NEW s, s = [j \in 1..(n + 1) |-> s[j]],
           NEW t, t = [j \in 1..n |-> s[j]], \A j \in 1..(n + 1) : Listed(s[j])
    PROVE  S!FlattenSeq(s) = S!FlattenSeq(t) \o s[n + 1]
<1>1. s = t \o <<s[n + 1]>> /\ Listed(t) /\ Len(t) = n
  BY LastApart
<1>2. \A j \in 1..n : t[j] = s[j] /\ j \in 1..(n + 1)
  OBVIOUS
<1>3. Lists(t)
  BY <1>1, <1>2 DEF Lists
<1>4. Listed(s[n + 1])
  <2>1. n + 1 \in 1..(n + 1)
    OBVIOUS
  <2>2. QED
    BY <2>1
<1>5. S!FlattenSeq(t \o <<s[n + 1]>>) = S!FlattenSeq(t) \o s[n + 1]
  BY <1>3, <1>4, FlattenMore
<1>6. QED
  BY <1>1, <1>5

LEMMA DeltasNext ==
    ASSUME AnswerFits, NEW i \in 0..(Len(Lines) - 1)
    PROVE  DeltasTo(i + 1) = DeltasTo(i) \o Lines[i + 1].deltas
<1>1. Len(Lines) \in Nat /\ \A j \in 1..Len(Lines) : Listed(Lines[j].deltas)
  BY LinesFit DEF AreDeltas
<1>2. i \in Nat /\ i + 1 \in 1..(i + 1) /\ \A j \in 1..(i + 1) : j \in 1..Len(Lines)
  BY <1>1
<1>3. PICK s : s = [j \in 1..(i + 1) |-> Lines[j].deltas]
  OBVIOUS
<1>4. PICK t : t = [j \in 1..i |-> Lines[j].deltas]
  OBVIOUS
<1>5. s = [j \in 1..(i + 1) |-> s[j]] /\ s[i + 1] = Lines[i + 1].deltas
  BY <1>2, <1>3
<1>6. t = [j \in 1..i |-> s[j]]
  <2>1. \A j \in 1..i : s[j] = Lines[j].deltas
    BY <1>2, <1>3
  <2>2. QED
    BY <1>4, <2>1
<1>7. \A j \in 1..(i + 1) : Listed(s[j])
  BY <1>1, <1>2, <1>3
<1>8. S!FlattenSeq(s) = S!FlattenSeq(t) \o s[i + 1]
  BY <1>2, <1>5, <1>6, <1>7, LineMore
<1>9. QED
  BY <1>3, <1>4, <1>5, <1>8 DEF DeltasTo

GeminiTo(i) == S!FlattenSeq([j \in 1..i |-> Calls(Lines[j].deltas)])

LEMMA GeminiNext ==
    ASSUME AnswerFits, NEW i \in 0..(Len(Lines) - 1)
    PROVE  GeminiTo(i + 1) = GeminiTo(i) \o Calls(Lines[i + 1].deltas)
<1>1. Len(Lines) \in Nat /\ \A j \in 1..Len(Lines) : Listed(Calls(Lines[j].deltas))
  BY LinesFit, CallsListed DEF AreDeltas
<1>2. i \in Nat /\ i + 1 \in 1..(i + 1) /\ \A j \in 1..(i + 1) : j \in 1..Len(Lines)
  BY <1>1
<1>3. PICK s : s = [j \in 1..(i + 1) |-> Calls(Lines[j].deltas)]
  OBVIOUS
<1>4. PICK t : t = [j \in 1..i |-> Calls(Lines[j].deltas)]
  OBVIOUS
<1>5. s = [j \in 1..(i + 1) |-> s[j]] /\ s[i + 1] = Calls(Lines[i + 1].deltas)
  BY <1>2, <1>3
<1>6. t = [j \in 1..i |-> s[j]]
  <2>1. \A j \in 1..i : s[j] = Calls(Lines[j].deltas)
    BY <1>2, <1>3
  <2>2. QED
    BY <1>4, <2>1
<1>7. \A j \in 1..(i + 1) : Listed(s[j])
  BY <1>1, <1>2, <1>3
<1>8. S!FlattenSeq(s) = S!FlattenSeq(t) \o s[i + 1]
  BY <1>2, <1>5, <1>6, <1>7, LineMore
<1>9. QED
  BY <1>3, <1>4, <1>5, <1>8 DEF GeminiTo

(* What was read of the answer so far is what it tells so far. *)
ReadFits(before, state, i) ==
    /\ Listed(state.events) /\ before \o CallsIn(state.events) = CallsTo(i)
    /\ BufferFits(state.deltas, i)

LEMMA SaidListed ==
    ASSUME AnswerFits
    PROVE  Listed(Said) /\ CallsIn(Said) = Said
BY LinesFit, CallsListed DEF Said

LEMMA ReadGeminiFits ==
    ASSUME AnswerFits, provider # "openai", NEW i \in 0..(Len(Lines) - 1),
           NEW before, Listed(before), NEW state, ReadFits(before, state, i),
           NEW r, r = ReadGemini(state, Lines[i + 1])
    PROVE  ReadFits(before, r, i + 1)
<1> DEFINE line == Lines[i + 1]
           new == Calls(line.deltas)
           es == state.events
<1>1. Listed(line.text) /\ Listed(line.deltas)
  <2>1. i + 1 \in 1..Len(Lines)
    BY LinesFit
  <2>2. QED
    BY <2>1, LinesFit DEF AreDeltas
<1>2. Listed(new) /\ CallsIn(new) = new
  BY <1>1, CallsListed
<1>3. PICK t : t = Texts(line)
  OBVIOUS
<1>4. PICK f : f = Finish(line.finish)
  OBVIOUS
<1>5. Listed(t) /\ CallsIn(t) = <<>> /\ Listed(f) /\ CallsIn(f) = <<>>
  BY <1>1, <1>3, <1>4, TextsQuiet, FinishQuiet
<1>6. r.events = ((es \o t) \o new) \o f
  <2>1. new = [k \in DOMAIN line.deltas |-> Call(line.deltas[k])]
    BY DEF Calls
  <2> HIDE DEF new, line
  <2>2. r = [deltas |-> state.deltas, events |-> ((es \o t) \o new) \o f]
    BY <1>3, <1>4, <2>1 DEF ReadGemini, line
  <2>3. PICK x : x = ((es \o t) \o new) \o f
    OBVIOUS
  <2>4. r = [deltas |-> state.deltas, events |-> x]
    BY <2>2, <2>3
  <2>5. QED
    BY <2>3, <2>4
<1> HIDE DEF new, line, es
<1>7. Listed(es) /\ before \o CallsIn(es) = CallsTo(i)
  BY DEF ReadFits, es
<1>8. Listed(es \o t) /\ CallsIn(es \o t) = CallsIn(es)
  BY <1>5, <1>7, QuietAfter
<1>9. Listed((es \o t) \o new) /\ CallsIn((es \o t) \o new) = CallsIn(es) \o new
  <2>1. Listed(es \o t) /\ Listed(new)
    BY <1>2, <1>8
  <2>2. /\ Listed((es \o t) \o new)
        /\ CallsIn((es \o t) \o new) = CallsIn(es \o t) \o CallsIn(new)
    BY <2>1, CallsInConcat
  <2>3. QED
    BY <1>2, <1>8, <2>2
<1>10. Listed(r.events) /\ CallsIn(r.events) = CallsIn(es) \o new
  BY <1>5, <1>6, <1>9, QuietAfter
<1>11. (before \o CallsIn(es)) \o new = before \o (CallsIn(es) \o new)
  <2>1. Listed(CallsIn(es)) /\ Listed(new)
    BY <1>2, <1>7, OwnsLists
  <2>2. QED
    <3>1. InAnyOrder(before, CallsIn(es), new)
      BY <2>1, Associative
    <3>2. QED
      BY <3>1 DEF InAnyOrder
<1>12. CallsTo(i) = GeminiTo(i) /\ CallsTo(i + 1) = GeminiTo(i + 1)
  BY DEF CallsTo, GeminiTo
<1>13. GeminiTo(i + 1) = GeminiTo(i) \o new
  BY GeminiNext DEF new, line
<1>14. before \o CallsIn(r.events) = CallsTo(i + 1)
  BY <1>7, <1>10, <1>11, <1>12, <1>13
<1>15. QED
  BY <1>10, <1>14 DEF ReadFits, BufferFits

LEMMA ReadOpenAIFits ==
    ASSUME AnswerFits, provider = "openai", NEW i \in 0..(Len(Lines) - 1),
           NEW before, Listed(before), NEW state, ReadFits(before, state, i),
           NEW r, r = ReadOpenAI(state, Lines[i + 1])
    PROVE  ReadFits(before, r, i + 1)
<1> DEFINE line == Lines[i + 1]
           es == state.events
           flush == line.finish = "tool_calls"
<1>1. /\ i + 1 \in 1..Len(Lines) /\ i + 1 \in DOMAIN Lines
      /\ Listed(line.text) /\ AreDeltas(line.deltas)
  <2>1. i + 1 \in 1..Len(Lines)
    BY LinesFit
  <2>2. QED
    BY <2>1, LinesFit
<1>2. PICK t : t = Texts(line)
  OBVIOUS
<1>3. PICK f : f = Finish(line.finish)
  OBVIOUS
<1>4. Listed(t) /\ CallsIn(t) = <<>> /\ Listed(f) /\ CallsIn(f) = <<>>
  BY <1>1, <1>2, <1>3, TextsQuiet, FinishQuiet
<1>5. PICK buffer : buffer = AccumulateAll(state.deltas, line.deltas)
  OBVIOUS
<1>6. PICK x : x = IF flush THEN Flush(buffer) ELSE <<>>
  OBVIOUS
<1>7. r.events = ((es \o t) \o f) \o x /\ r.deltas = IF flush THEN <<>> ELSE buffer
  <2>1. PICK y : y = ((es \o t) \o f) \o x
    OBVIOUS
  <2> HIDE DEF line
  <2>2. r = [deltas |-> IF flush THEN <<>> ELSE buffer, events |-> y]
    BY <1>2, <1>3, <1>5, <1>6, <2>1 DEF ReadOpenAI, line
  <2>3. QED
    BY <2>1, <2>2
<1> HIDE DEF line, es
<1>8. /\ Listed(es) /\ before \o CallsIn(es) = CallsTo(i)
      /\ BufferFits(state.deltas, i)
  BY DEF ReadFits, es
<1>9. Listed(es \o t) /\ CallsIn(es \o t) = CallsIn(es)
  BY <1>4, <1>8, QuietAfter
<1>10. Listed((es \o t) \o f) /\ CallsIn((es \o t) \o f) = CallsIn(es)
  BY <1>4, <1>9, QuietAfter
<1>11. ASSUME ~Flushed(i)
       PROVE  AreDeltas(DeltasTo(i + 1)) /\ Gathered(buffer, DeltasTo(i + 1))
  <2>1. AreDeltas(DeltasTo(i)) /\ Gathered(state.deltas, DeltasTo(i))
    BY <1>8, <1>11 DEF BufferFits
  <2>2. DeltasTo(i + 1) = DeltasTo(i) \o line.deltas
    BY DeltasNext DEF line
  <2>3. /\ AreDeltas(DeltasTo(i) \o line.deltas)
        /\ Gathered(AccumulateAll(state.deltas, line.deltas), DeltasTo(i) \o line.deltas)
    BY <1>1, <2>1, GatherAll
  <2>4. QED
    BY <1>5, <2>2, <2>3
<1>12. Flushed(i + 1) <=> Flushed(i) \/ flush
  <2>1. i \in Nat /\ \A j \in 1..(i + 1) : j \in 1..i \/ j = i + 1
    BY LinesFit
  <2>2. i + 1 \in 1..(i + 1) /\ \A j \in 1..i : j \in 1..(i + 1)
    BY <2>1
  <2>3. QED
    BY <2>1, <2>2 DEF Flushed, line
<1>13. CASE flush
  <2>1. i + 1 \in EndsOf(answer.lines) /\ Honest("openai", answer)
    BY <1>1, <1>13 DEF EndsOf, Lines, line, AnswerFits
  <2>2. /\ EndsOf(answer.lines) = {i + 1}
        /\ TellsInPieces(answer.says, S!FlattenSeq([j \in 1..(i + 1) |-> answer.lines[j].deltas]))
    BY <2>1 DEF Honest
  <2>3. ~Flushed(i)
    <3>1. ASSUME NEW j \in 1..i, Lines[j].finish = "tool_calls" PROVE FALSE
      <4>1. j \in 1..Len(Lines) /\ j # i + 1
        BY LinesFit
      <4>2. j \in EndsOf(answer.lines)
        BY <3>1, <4>1, LinesFit DEF EndsOf, Lines
      <4>3. QED
        BY <2>2, <4>1, <4>2
    <3>2. QED
      BY <3>1 DEF Flushed
  <2>4. TellsInPieces(answer.says, DeltasTo(i + 1))
    BY <2>2 DEF DeltasTo, Lines
  <2>5. Flush(buffer) = Said
    BY <1>11, <2>3, <2>4, FlushSays, LinesFit DEF Said
  <2>6. x = Said /\ Listed(x) /\ CallsIn(x) = x
    BY <1>6, <1>13, <2>5, SaidListed
  <2>7. Listed(r.events) /\ CallsIn(r.events) = CallsIn(es) \o x
    <3>1. /\ Listed(((es \o t) \o f) \o x)
          /\ CallsIn(((es \o t) \o f) \o x) = CallsIn((es \o t) \o f) \o CallsIn(x)
      BY <1>10, <2>6, CallsInConcat
    <3>2. QED
      BY <1>7, <1>10, <2>6, <3>1
  <2>8. before \o CallsIn(es) = <<>>
    BY <1>8, <2>3 DEF CallsTo
  <2>9. before \o (CallsIn(es) \o x) = (before \o CallsIn(es)) \o x
    <3>1. Listed(CallsIn(es)) /\ Listed(x)
      BY <1>8, <2>6, OwnsLists
    <3>2. QED
      <4>1. InAnyOrder(before, CallsIn(es), x)
        BY <3>1, Associative
      <4>2. QED
        BY <4>1 DEF InAnyOrder
  <2>10. <<>> \o x = x
    BY <2>6, ConcatEmpty
  <2>11. CallsTo(i + 1) = Said
    BY <1>12, <1>13 DEF CallsTo
  <2>12. before \o CallsIn(r.events) = CallsTo(i + 1)
    BY <2>6, <2>7, <2>8, <2>9, <2>10, <2>11
  <2>13. BufferFits(r.deltas, i + 1)
    BY <1>12, <1>13 DEF BufferFits
  <2>14. QED
    BY <2>7, <2>12, <2>13 DEF ReadFits
<1>14. CASE ~flush
  <2>1. x = <<>> /\ r.deltas = buffer
    BY <1>6, <1>7, <1>14
  <2>2. r.events = (es \o t) \o f
    BY <1>7, <1>10, <2>1, ConcatEmpty
  <2>3. CallsTo(i + 1) = CallsTo(i)
    BY <1>12, <1>14 DEF CallsTo
  <2>4. BufferFits(r.deltas, i + 1)
    BY <1>11, <1>12, <2>1 DEF BufferFits
  <2>5. QED
    BY <1>8, <1>10, <2>2, <2>3, <2>4 DEF ReadFits
<1>15. QED
  BY <1>13, <1>14

LEMMA ReadLineFits ==
    ASSUME AnswerFits, NEW i \in 0..(Len(Lines) - 1),
           NEW before, Listed(before), NEW state, ReadFits(before, state, i)
    PROVE  ReadFits(before, Read(state, Lines[i + 1]), i + 1)
<1>1. PICK r : r = Read(state, Lines[i + 1])
  OBVIOUS
<1>2. CASE provider = "openai"
  <2>1. r = ReadOpenAI(state, Lines[i + 1])
    BY <1>1, <1>2 DEF Read
  <2>2. QED
    BY <1>1, <1>2, <2>1, ReadOpenAIFits
<1>3. CASE provider # "openai"
  <2>1. r = ReadGemini(state, Lines[i + 1])
    BY <1>1, <1>3 DEF Read
  <2>2. QED
    BY <1>1, <1>3, <2>1, ReadGeminiFits
<1>4. QED
  BY <1>2, <1>3

-----------------------------------------------------------------------------
(* Lines, one after the other. *)

Reads(from, to, f) ==
    f = [i \in from..to |-> IF i = from THEN [deltas |-> deltas, events |-> <<>>]
                            ELSE Read(f[i - 1], Lines[i])]

LEMMA ReadsExist ==
    ASSUME NEW from \in Nat, NEW to \in Nat, from <= to
    PROVE  \E f : Reads(from, to, f)
<1> DEFINE Body(f, i) == IF i = from THEN [deltas |-> deltas, events |-> <<>>]
                         ELSE Read(f[i - 1], Lines[i])
           T == {m \in Nat : \E f : f = [i \in from..(from + m) |-> Body(f, i)]}
<1>1. 0 \in T
  <2>1. PICK f : f = [i \in from..(from + 0) |-> [deltas |-> deltas, events |-> <<>>]]
    OBVIOUS
  <2>2. \A i \in from..(from + 0) : i = from
    OBVIOUS
  <2>3. f = [i \in from..(from + 0) |-> Body(f, i)]
    BY <2>1, <2>2
  <2>4. QED
    BY <2>3
<1>2. ASSUME NEW m \in Nat, m \in T PROVE m + 1 \in T
  <2>1. PICK f : f = [i \in from..(from + m) |-> Body(f, i)]
    BY <1>2
  <2> DEFINE top == from + (m + 1)
             g == [i \in from..top |-> IF i <= from + m THEN f[i] ELSE Body(f, i)]
  <2>2. ASSUME NEW i \in from..top PROVE g[i] = Body(g, i)
    <3>1. CASE i = from
      <4>1. i <= from + m /\ i \in from..(from + m)
        BY <3>1
      <4>2. f[i] = Body(f, i)
        <5> HIDE DEF Body
        <5>1. QED
          BY <2>1, <4>1
      <4>3. QED
        BY <3>1, <4>1, <4>2
    <3>2. CASE i # from
      <4>1. i - 1 \in from..(from + m) /\ i - 1 \in from..top /\ i - 1 <= from + m
        BY <3>2
      <4>2. g[i - 1] = f[i - 1]
        BY <4>1
      <4>3. ASSUME i <= from + m PROVE f[i] = Read(f[i - 1], Lines[i])
        <5>1. i \in from..(from + m)
          BY <4>3
        <5>2. f[i] = Body(f, i)
          <6> HIDE DEF Body
          <6>1. QED
            BY <2>1, <5>1
        <5>3. QED
          BY <3>2, <5>2
      <4>4. QED
        BY <3>2, <4>2, <4>3
    <3>3. QED
      BY <3>1, <3>2
  <2>3. g = [i \in from..top |-> Body(g, i)]
    <3>1. g = [i \in from..top |-> g[i]]
      OBVIOUS
    <3> HIDE DEF g, Body
    <3>2. QED
      BY <2>2, <3>1
  <2>4. QED
    <3> HIDE DEF g, Body
    <3>1. \E h : h = [i \in from..(from + (m + 1)) |-> Body(h, i)]
      BY <2>3
    <3>2. QED
      BY <3>1
<1>3. to - from \in T
  <2>1. Nat \subseteq T
    <3> HIDE DEF T
    <3>1. QED
      BY <1>1, <1>2, Induction
  <2>2. to - from \in Nat
    OBVIOUS
  <2> HIDE DEF T
  <2>3. QED
    BY <2>1, <2>2
<1>4. from + (to - from) = to
  OBVIOUS
<1>5. QED
  BY <1>3, <1>4 DEF Reads

LEMMA ReadLinesFit ==
    ASSUME AnswerFits, NEW from \in Nat, NEW to \in Nat, from <= to, to <= Len(Lines),
           NEW before, Listed(before), before = CallsTo(from), BufferFits(deltas, from)
    PROVE  ReadFits(before, ReadLines(from, to), to)
<1> DEFINE f == CHOOSE f : Reads(from, to, f)
           Start == [deltas |-> deltas, events |-> <<>>]
           T == {m \in 0..(to - from) : ReadFits(before, f[from + m], from + m)}
<1>1. Reads(from, to, f)
  BY ReadsExist
<1>2. ReadLines(from, to) = f[to]
  BY DEF ReadLines, Reads
<1>3. Len(Lines) \in Nat
  BY LinesFit
<1> HIDE DEF f
<1>4. 0 \in T
  <2>1. from \in from..to /\ from + 0 = from /\ 0 \in 0..(to - from)
    OBVIOUS
  <2>2. f[from] = Start
    BY <1>1, <2>1 DEF Reads
  <2>3. PICK state : state = Start
    OBVIOUS
  <2>4. state.deltas = deltas /\ state.events = <<>>
    BY <2>3
  <2>5. before \o <<>> = before
    BY ConcatEmpty
  <2>6. ReadFits(before, state, from)
    BY <2>4, <2>5, EmptyListed, CallsInNone DEF ReadFits
  <2>7. QED
    BY <2>1, <2>2, <2>3, <2>6
<1>5. ASSUME NEW m \in 0..((to - from) - 1), m \in T PROVE m + 1 \in T
  <2>1. /\ from + m \in 0..(Len(Lines) - 1) /\ m + 1 \in 0..(to - from)
        /\ from + (m + 1) = (from + m) + 1
        /\ (from + m) + 1 \in from..to /\ (from + m) + 1 # from
        /\ ((from + m) + 1) - 1 = from + m
    BY <1>3
  <2>2. f[(from + m) + 1] = Read(f[from + m], Lines[(from + m) + 1])
    BY <1>1, <2>1 DEF Reads
  <2>3. ReadFits(before, f[from + m], from + m)
    BY <1>5
  <2>4. ReadFits(before, Read(f[from + m], Lines[(from + m) + 1]), (from + m) + 1)
    BY <2>1, <2>3, ReadLineFits
  <2>5. QED
    BY <2>1, <2>2, <2>4
<1>6. to - from \in T
  <2>1. to - from \in Nat
    OBVIOUS
  <2> HIDE DEF T
  <2>2. 0..(to - from) \subseteq T
    BY <1>4, <1>5, <2>1, InductionUpTo
  <2>3. QED
    BY <2>1, <2>2
<1>7. from + (to - from) = to
  OBVIOUS
<1>8. QED
  BY <1>2, <1>6, <1>7

-----------------------------------------------------------------------------
(* The inductive invariant. *)

(* What was heard and what the driver has for the engine are the calls told  *)
(* so far.                                                                 *)
Told(h, es, b, i) == h \o CallsIn(es) = CallsTo(i) /\ BufferFits(b, i)

(* Of a stream that a hand-over ended nothing is left. *)
WholeInv ==
    phase = "streaming" =>
        /\ AnswerFits /\ Listed(heard) /\ Listed(events)
        /\ \/ sent \in 0..Units /\ parsed = Complete(sent) /\ Told(heard, events, deltas, parsed)
           \/ sent = Units + 1 /\ events = <<>> /\ Starts(heard, Said)

LEMMA SameAnswer ==
    ASSUME UNCHANGED <<provider, answer>>, AnswerFits
    PROVE  AnswerFits' /\ Units' = Units /\ Lines' = Lines /\ Said' = Said
BY DEF AnswerFits, Units, Lines, Said

LEMMA StillTold ==
    ASSUME UNCHANGED <<provider, answer>>, NEW h, h = heard', NEW es, es = events',
           NEW b, b = deltas', NEW i, i = parsed', Told(h, es, b, i)
    PROVE  Told(heard, events, deltas, parsed)'
<1>1. provider' = provider /\ answer' = answer
  OBVIOUS
<1>2. Flushed(parsed)' <=> Flushed(i)
  BY <1>1 DEF Flushed, Lines
<1>3. DeltasTo(parsed)' = DeltasTo(i)
  BY <1>1 DEF DeltasTo, Lines
<1>4. CallsTo(parsed)' = CallsTo(i)
  <2>1. GeminiTo(parsed)' = GeminiTo(i)
    BY <1>1 DEF GeminiTo, Lines
  <2>2. Said' = Said
    BY <1>1 DEF Said
  <2>3. /\ CallsTo(i) = IF provider = "openai" THEN IF Flushed(i) THEN Said ELSE <<>> ELSE GeminiTo(i)
        /\ CallsTo(parsed)' = IF provider' = "openai" THEN IF Flushed(parsed)' THEN Said' ELSE <<>>
                              ELSE GeminiTo(parsed)'
    BY DEF CallsTo, GeminiTo
  <2>4. QED
    BY <1>1, <1>2, <2>1, <2>2, <2>3
<1>5. QED
  BY <1>1, <1>2, <1>3, <1>4 DEF Told, BufferFits

LEMMA AppendOne ==
    ASSUME NEW s, Listed(s), NEW e
    PROVE  Append(s, e) = s \o <<e>>
<1>1. PICK o : o = <<e>>
  OBVIOUS
<1>2. Listed(o) /\ o[1] = e /\ Len(o) = 1
  BY <1>1, OneListed
<1>3. PICK E : s \in Seq(E) /\ o \in Seq(E)
  BY <1>2, Together
<1>4. e \in E
  <2>1. 1 \in 1..Len(o)
    BY <1>2
  <2>2. o[1] \in E
    BY <1>3, <2>1, ElementOfSeq
  <2>3. QED
    BY <1>2, <2>2
<1>5. QED
  BY <1>3, <1>4, AppendIsConcat

(* The engine hears a call, or something that is none. *)
LEMMA HearFits ==
    ASSUME WholeInv, phase = "streaming", events # <<>>,
           UNCHANGED <<phase, provider, answer, parsed, deltas, sent>>, events' = Tail(events),
           heard' = IF Head(events).kind = "call" THEN Append(heard, Head(events)) ELSE heard
    PROVE  WholeInv'
<1>1. AnswerFits /\ Listed(heard) /\ Listed(events)
  BY DEF WholeInv
<1>2. sent \in 0..Units /\ parsed = Complete(sent) /\ Told(heard, events, deltas, parsed)
  BY DEF WholeInv
<1>3. PICK e : e = Head(events)
  OBVIOUS
<1>4. PICK t : t = Tail(events)
  OBVIOUS
<1>5. Listed(t) /\ Listed(CallsIn(t)) /\ CallsIn(events) = Own(e) \o CallsIn(t)
  BY <1>1, <1>3, <1>4, FirstCall
<1>6. PICK h : h = IF e.kind = "call" THEN Append(heard, e) ELSE heard
  OBVIOUS
<1>7. h = heard \o Own(e) /\ Listed(h) /\ Listed(Own(e))
  <2>1. Listed(Own(e))
    BY OwnListed
  <2>2. CASE e.kind = "call"
    <3>1. h = Append(heard, e) /\ Own(e) = <<e>>
      BY <1>6, <2>2 DEF Own
    <3>2. QED
      BY <1>1, <2>1, <3>1, AppendOne, AppendListed
  <2>3. CASE e.kind # "call"
    <3>1. h = heard /\ Own(e) = <<>>
      BY <1>6, <2>3 DEF Own
    <3>2. heard \o <<>> = heard
      BY <1>1, ConcatEmpty
    <3>3. QED
      BY <1>1, <2>1, <3>1, <3>2
  <2>4. QED
    BY <2>2, <2>3
<1>8. h \o CallsIn(t) = heard \o CallsIn(events)
  <2>1. (heard \o Own(e)) \o CallsIn(t) = heard \o (Own(e) \o CallsIn(t))
    <3>1. Listed(heard) /\ Listed(Own(e)) /\ Listed(CallsIn(t))
      BY <1>1, <1>5, <1>7
    <3>2. QED
      <4>1. InAnyOrder(heard, Own(e), CallsIn(t))
        BY <3>1, Associative
      <4>2. QED
        BY <4>1 DEF InAnyOrder
  <2>2. QED
    BY <1>5, <1>7, <2>1
<1>9. PICK b : b = deltas
  OBVIOUS
<1>10. PICK i : i = parsed
  OBVIOUS
<1>11. Told(h, t, b, i)
  BY <1>2, <1>8, <1>9, <1>10 DEF Told
<1>12. h = heard' /\ t = events' /\ b = deltas' /\ i = parsed'
  BY <1>3, <1>4, <1>6, <1>9, <1>10
<1>13. Told(heard, events, deltas, parsed)'
  BY <1>11, <1>12, StillTold
<1>14. AnswerFits' /\ Units' = Units
  BY <1>1, SameAnswer
<1>15. Listed(heard') /\ Listed(events')
  BY <1>5, <1>7, <1>12
<1>16. sent' \in 0..Units' /\ parsed' = Complete(sent)'
  BY <1>2, <1>14 DEF Complete
<1>17. QED
  BY <1>13, <1>14, <1>15, <1>16 DEF WholeInv

LEMMA StartsConcat ==
    ASSUME NEW s, Listed(s), NEW t, Listed(t), NEW u, Starts(s \o t, u)
    PROVE  Starts(s, u)
<1>1. PICK v : Listed(v) /\ u = (s \o t) \o v
  BY DEF Starts
<1>2. (s \o t) \o v = s \o (t \o v)
  <2>1. InAnyOrder(s, t, v)
    BY <1>1, Associative
  <2>2. QED
    BY <2>1 DEF InAnyOrder
<1>3. Listed(t \o v)
  BY <1>1, ConcatListed
<1>4. QED
  BY <1>1, <1>2, <1>3 DEF Starts

LEMMA GeminiListed ==
    ASSUME AnswerFits, NEW i \in 0..Len(Lines)
    PROVE  Listed(GeminiTo(i))
<1>1. i \in Nat /\ \A j \in 1..i : j \in 1..Len(Lines)
  BY LinesFit
<1>2. PICK s : s = [j \in 1..i |-> Calls(Lines[j].deltas)]
  OBVIOUS
<1>3. s = [j \in 1..i |-> s[j]] /\ \A j \in 1..i : s[j] = Calls(Lines[j].deltas)
  BY <1>2
<1>4. Listed(s) /\ Len(s) = i
  BY <1>1, <1>3, FunctionListed
<1>5. \A j \in 1..i : Listed(s[j])
  BY <1>1, <1>3, LinesFit, CallsListed DEF AreDeltas
<1>6. Lists(s)
  BY <1>4, <1>5 DEF Lists
<1>7. QED
  BY <1>2, <1>6, FlattenListed DEF GeminiTo

LEMMA AllGemini ==
    ASSUME AnswerFits, provider # "openai"
    PROVE  GeminiTo(Len(Lines)) = Said
<1>1. provider = "gemini" /\ Honest(provider, answer)
  BY DEF AnswerFits, Providers
<1>2. S!FlattenSeq([i \in DOMAIN Lines |-> Calls(Lines[i].deltas)]) = Said
  BY <1>1 DEF Honest, Lines, Said
<1>3. DOMAIN Lines = 1..Len(Lines)
  BY LinesFit
<1>4. QED
  BY <1>2, <1>3 DEF GeminiTo

(* What the first lines tell begins what the model says. *)
LEMMA ToldStarts ==
    ASSUME AnswerFits, NEW i \in 0..Len(Lines)
    PROVE  Starts(CallsTo(i), Said)
<1>1. Listed(Said)
  BY SaidListed
<1>2. CASE provider = "openai"
  <2>1. CallsTo(i) = Said \/ CallsTo(i) = <<>>
    BY <1>2 DEF CallsTo
  <2>2. Said = Said \o <<>> /\ Said = <<>> \o Said
    BY <1>1, ConcatEmpty
  <2>3. Starts(Said, Said) /\ Starts(<<>>, Said)
    BY <1>1, <2>2, EmptyListed DEF Starts
  <2>4. QED
    BY <2>1, <2>3
<1>3. CASE provider # "openai"
  <2> DEFINE n == Len(Lines) - i
             T == {m \in 0..n : Starts(GeminiTo(i), GeminiTo(i + m))}
  <2>1. Len(Lines) \in Nat /\ i \in Nat /\ n \in Nat /\ i + n = Len(Lines) /\ i + 0 = i
    BY LinesFit
  <2>2. 0 \in T
    <3>1. GeminiTo(i) = GeminiTo(i) \o <<>>
      BY GeminiListed, ConcatEmpty
    <3>2. Starts(GeminiTo(i), GeminiTo(i))
      BY <3>1, EmptyListed DEF Starts
    <3>3. QED
      BY <2>1, <3>2
  <2>3. ASSUME NEW m \in 0..(n - 1), m \in T PROVE m + 1 \in T
    <3>1. /\ i + m \in 0..(Len(Lines) - 1) /\ i + (m + 1) = (i + m) + 1
          /\ (i + m) + 1 \in 1..Len(Lines) /\ m + 1 \in 0..n
      BY <2>1
    <3>2. PICK c : c = Calls(Lines[(i + m) + 1].deltas)
      OBVIOUS
    <3>3. GeminiTo((i + m) + 1) = GeminiTo(i + m) \o c
      BY <3>1, <3>2, GeminiNext
    <3>4. Listed(c)
      BY <3>1, <3>2, LinesFit, CallsListed DEF AreDeltas
    <3>5. PICK u : Listed(u) /\ GeminiTo(i + m) = GeminiTo(i) \o u
      BY <2>3 DEF Starts
    <3>6. (GeminiTo(i) \o u) \o c = GeminiTo(i) \o (u \o c)
      <4>1. Listed(GeminiTo(i)) /\ Listed(u) /\ Listed(c)
        BY <3>4, <3>5, GeminiListed
      <4>2. QED
        <5>1. InAnyOrder(GeminiTo(i), u, c)
          BY <4>1, Associative
        <5>2. QED
          BY <5>1 DEF InAnyOrder
    <3>7. Listed(u \o c)
      BY <3>4, <3>5, ConcatListed
    <3>8. Starts(GeminiTo(i), GeminiTo(i + (m + 1)))
      BY <3>1, <3>3, <3>5, <3>6, <3>7 DEF Starts
    <3>9. QED
      BY <3>1, <3>8
  <2>4. n \in T
    <3> HIDE DEF T, n
    <3>1. 0..n \subseteq T
      BY <2>1, <2>2, <2>3, InductionUpTo
    <3>2. n \in 0..n
      BY <2>1
    <3>3. QED
      BY <3>1, <3>2
  <2>5. Starts(GeminiTo(i), Said)
    BY <1>3, <2>1, <2>4, AllGemini
  <2>6. QED
    BY <1>3, <2>5 DEF CallsTo, GeminiTo
<1>4. QED
  BY <1>2, <1>3

LEMMA AllTold ==
    ASSUME AnswerFits, \E i \in DOMAIN Lines : Lines[i].finish = "tool_calls"
    PROVE  CallsTo(Len(Lines)) = Said
<1>1. CASE provider = "openai"
  <2>1. Flushed(Len(Lines))
    BY LinesFit DEF Flushed
  <2>2. QED
    BY <1>1, <2>1 DEF CallsTo
<1>2. CASE provider # "openai"
  BY <1>2, AllGemini DEF CallsTo, GeminiTo
<1>3. QED
  BY <1>1, <1>2

LEMMA StartsPrefix ==
    ASSUME NEW s, Listed(s), NEW t, Listed(t), Starts(s, t)
    PROVE  S!IsPrefix(s, t)
<1>1. PICK u : Listed(u) /\ t = s \o u
  BY DEF Starts
<1>2. /\ Len(s) \in Nat /\ Len(u) \in Nat /\ Len(t) = Len(s) + Len(u)
      /\ \A i \in 1..(Len(s) + Len(u)) : t[i] = IF i <= Len(s) THEN s[i] ELSE u[i - Len(s)]
  BY <1>1, ConcatListed
<1>3. Len(s) <= Len(t)
  BY <1>2
<1>4. SubSeq(s, 1, Len(s)) = SubSeq(t, 1, Len(s))
  <2>1. ASSUME NEW x, Listed(x), Len(s) <= Len(x), \A i \in 1..Len(s) : x[i] = s[i]
        PROVE  SubSeq(x, 1, Len(s)) = s
    <3>1. PICK y : y = SubSeq(x, 1, Len(s))
      OBVIOUS
    <3> DEFINE E == {x[i] : i \in 1..Len(s)}
    <3>2. \A i \in 1..Len(s) : x[i] \in E
      OBVIOUS
    <3>3. 1 \in Int /\ Len(s) \in Int
      BY <1>2
    <3> HIDE DEF E
    <3>4. /\ y \in Seq(E) /\ Len(y) = (IF 1 <= Len(s) THEN Len(s) - 1 + 1 ELSE 0)
          /\ \A i \in 1..(Len(s) - 1 + 1) : y[i] = x[1 + i - 1]
      BY <3>1, <3>2, <3>3, SubSeqProperties
    <3>5. Listed(y) /\ Len(y) = Len(s)
      BY <1>2, <3>4, SeqListed
    <3>6. ASSUME NEW i \in 1..Len(y) PROVE y[i] = s[i]
      <4>1. i \in 1..(Len(s) - 1 + 1) /\ 1 + i - 1 = i /\ i \in 1..Len(s)
        BY <1>2, <3>5
      <4>2. y[i] = x[i]
        BY <3>4, <4>1
      <4>3. QED
        BY <2>1, <4>1, <4>2
    <3>7. QED
      BY <3>1, <3>5, <3>6, SameSequence
  <2>2. \A i \in 1..Len(s) : t[i] = s[i]
    <3>1. ASSUME NEW i \in 1..Len(s) PROVE t[i] = s[i]
      <4>1. i \in 1..(Len(s) + Len(u)) /\ i <= Len(s)
        BY <1>2, InLonger
      <4>2. QED
        BY <1>2, <4>1
    <3>2. QED
      BY <3>1
  <2>3. SubSeq(s, 1, Len(s)) = s
    BY <1>2, <2>1
  <2>4. SubSeq(t, 1, Len(s)) = s
    BY <1>3, <2>1, <2>2
  <2>5. QED
    BY <2>3, <2>4
<1>5. QED
  BY <1>3, <1>4 DEF S!IsPrefix

LEMMA Halves ==
    ASSUME NEW a \in Nat, NEW b \in Nat, NEW n \in Nat, a <= b
    PROVE  /\ a \div 2 \in Nat /\ b \div 2 \in Nat /\ a \div 2 <= b \div 2
           /\ (2 * n) \div 2 = n
OBVIOUS

LEMMA ParsedWithin ==
    ASSUME AnswerFits, NEW units \in 0..Units
    PROVE  Units \in Nat /\ Complete(units) \in 0..Len(Lines) /\ Complete(Units) = Len(Lines)
<1>1. Len(Lines) \in Nat /\ Units = 2 * Len(Lines)
  BY LinesFit DEF Units
<1>2. Units \in Nat /\ units \in Nat /\ units <= Units
  BY <1>1
<1>3. /\ units \div 2 \in Nat /\ Units \div 2 \in Nat /\ units \div 2 <= Units \div 2
      /\ (2 * Len(Lines)) \div 2 = Len(Lines)
  BY <1>1, <1>2, Halves
<1>4. QED
  BY <1>1, <1>2, <1>3 DEF Complete

LEMMA WholeArrives == WholeInv => CallsArriveWhole
<1> SUFFICES ASSUME WholeInv, phase = "streaming"
             PROVE  /\ S!IsPrefix(heard, Said)
                    /\ Unbroken /\ events = <<>> => heard = Said
  BY DEF CallsArriveWhole
<1>1. AnswerFits /\ Listed(heard) /\ Listed(events) /\ Listed(Said)
  BY SaidListed DEF WholeInv
<1>2. CASE sent \in 0..Units /\ parsed = Complete(sent) /\ Told(heard, events, deltas, parsed)
  <2>1. /\ Units \in Nat /\ parsed \in 0..Len(Lines) /\ Complete(Units) = Len(Lines)
        /\ heard \o CallsIn(events) = CallsTo(parsed)
    BY <1>1, <1>2, ParsedWithin DEF Told
  <2>2. Starts(heard, Said)
    <3>1. Starts(heard \o CallsIn(events), Said)
      BY <1>1, <2>1, ToldStarts
    <3>2. Listed(CallsIn(events))
      BY <1>1, OwnsLists
    <3>3. QED
      BY <1>1, <3>1, <3>2, StartsConcat
  <2>3. ASSUME Unbroken, events = <<>> PROVE heard = Said
    <3>1. heard \o <<>> = CallsTo(parsed)
      BY <2>1, <2>3, CallsInNone
    <3>2. heard \o <<>> = heard
      BY <1>1, ConcatEmpty
    <3>3. parsed = Len(Lines)
      BY <1>2, <2>1, <2>3 DEF Unbroken
    <3>4. CallsTo(Len(Lines)) = Said
      BY <1>1, <2>3, AllTold DEF Unbroken
    <3>5. QED
      BY <3>1, <3>2, <3>3, <3>4
  <2>4. QED
    BY <1>1, <2>2, <2>3, StartsPrefix
<1>3. CASE sent = Units + 1 /\ events = <<>> /\ Starts(heard, Said)
  <2>1. Units \in Nat
    BY <1>1, LinesFit DEF Units
  <2>2. ~Unbroken
    BY <1>3, <2>1 DEF Unbroken
  <2>3. QED
    BY <1>1, <1>3, <2>2, StartsPrefix
<1>4. QED
  BY <1>2, <1>3 DEF WholeInv

-----------------------------------------------------------------------------
(* Every step. *)

(* The lines of an answer tell the calls it means to make. *)
HonestProviders == \A p \in Providers : \A a \in Answers[p] : Honest(p, a)

LEMMA NothingTold == CallsTo(0) = <<>> /\ BufferFits(<<>>, 0)
<1>1. DeltasTo(0) = <<>> /\ ~Flushed(0) /\ GeminiTo(0) = <<>>
  BY NoLines DEF GeminiTo
<1>2. CallsTo(0) = <<>>
  BY <1>1 DEF CallsTo, GeminiTo
<1>3. AreDeltas(<<>>) /\ Gathered(<<>>, <<>>)
  <2>1. Len(<<>>) = 0 /\ Listed(<<>>) /\ DOMAIN <<>> = {}
    BY EmptyListed
  <2>2. QED
    BY <2>1 DEF AreDeltas, Gathered
<1>4. QED
  BY <1>1, <1>2, <1>3 DEF BufferFits

LEMMA NothingToldNext == (CallsTo(0) = <<>> /\ BufferFits(<<>>, 0))'
BY NothingTold, PTL

LEMMA UnitsCount == AnswerFits => Units \in Nat
BY LinesFit DEF Units

LEMMA UnitsNext == (AnswerFits => Units \in Nat)'
BY UnitsCount, PTL

LEMMA AskWhole ==
    ASSUME HonestProviders, Ask
    PROVE  WholeInv'
<1>1. /\ provider' \in Providers /\ answer' \in Answers[provider']
      /\ sent' = 0 /\ parsed' = 0 /\ deltas' = <<>> /\ events' = <<>> /\ heard' = <<>>
  BY DEF Ask
<1>2. AnswerFits'
  BY <1>1 DEF AnswerFits, HonestProviders
<1>3. Listed(heard') /\ Listed(events')
  BY <1>1, EmptyListed
<1>4. (CallsTo(0) = <<>>)' /\ BufferFits(<<>>, 0)'
  BY NothingToldNext
<1>5. CallsTo(parsed)' = <<>> /\ BufferFits(deltas, parsed)'
  BY <1>1, <1>4 DEF CallsTo, BufferFits, DeltasTo, Flushed
<1>6. Told(heard, events, deltas, parsed)'
  <2>1. <<>> \o CallsIn(<<>>) = <<>>
    BY EmptyListed, CallsInNone, ConcatEmpty
  <2>2. QED
    BY <1>1, <1>5, <2>1 DEF Told
<1>7. sent' \in 0..Units' /\ parsed' = Complete(sent)'
  <2>1. Units' \in Nat
    BY <1>2, UnitsNext
  <2>2. QED
    BY <1>1, <2>1 DEF Complete
<1>8. QED
  BY <1>2, <1>3, <1>6, <1>7 DEF WholeInv

LEMMA ChunkWhole ==
    ASSUME WholeInv, Chunk
    PROVE  WholeInv'
<1>1. /\ phase = "streaming" /\ events = <<>> /\ UNCHANGED <<phase, provider, answer, heard>>
      /\ deltas' = ReadLines(parsed, parsed').deltas
      /\ events' = ReadLines(parsed, parsed').events
  BY DEF Chunk
<1>2. PICK units \in (sent + 1)..Units : sent' = units /\ parsed' = Complete(units)
  BY DEF Chunk
<1>3. AnswerFits /\ Listed(heard) /\ Listed(events)
  BY <1>1 DEF WholeInv
<1>4. Units \in Nat /\ sent # Units + 1
  <2>1. Units \in Nat
    BY <1>3, UnitsCount
  <2>2. ASSUME sent = Units + 1 PROVE FALSE
    BY <1>2, <2>1, <2>2
  <2>3. QED
    BY <2>1, <2>2
<1>5. sent \in 0..Units /\ parsed = Complete(sent) /\ Told(heard, events, deltas, parsed)
  BY <1>1, <1>4 DEF WholeInv
<1>6. units \in 0..Units /\ sent \in Nat /\ units \in Nat /\ sent <= units
  BY <1>2, <1>4, <1>5
<1>7. /\ parsed \in 0..Len(Lines) /\ Complete(units) \in 0..Len(Lines)
      /\ parsed <= Complete(units) /\ Len(Lines) \in Nat
  <2>1. parsed \in 0..Len(Lines) /\ Complete(units) \in 0..Len(Lines)
    BY <1>3, <1>5, <1>6, ParsedWithin
  <2>2. sent \div 2 <= units \div 2
    BY <1>6, Halves
  <2>3. QED
    BY <1>3, <1>5, <2>1, <2>2, LinesFit DEF Complete
<1>8. PICK to : to = Complete(units)
  OBVIOUS
<1>9. PICK from : from = parsed
  OBVIOUS
<1>10. from \in Nat /\ to \in Nat /\ from <= to /\ to <= Len(Lines)
  BY <1>7, <1>8, <1>9
<1>11. heard = CallsTo(from) /\ BufferFits(deltas, from)
  <2>1. heard \o <<>> = CallsTo(parsed) /\ BufferFits(deltas, parsed)
    BY <1>1, <1>5, CallsInNone DEF Told
  <2>2. heard \o <<>> = heard
    BY <1>3, ConcatEmpty
  <2>3. QED
    BY <1>9, <2>1, <2>2
<1>12. ReadFits(heard, ReadLines(from, to), to)
  BY <1>3, <1>10, <1>11, ReadLinesFit
<1>13. deltas' = ReadLines(from, to).deltas /\ events' = ReadLines(from, to).events
  BY <1>1, <1>2, <1>8, <1>9
<1>14. PICK h : h = heard
  OBVIOUS
<1>15. PICK es : es = events'
  OBVIOUS
<1>16. PICK b : b = deltas'
  OBVIOUS
<1>17. Listed(es) /\ Told(h, es, b, to)
  BY <1>12, <1>13, <1>14, <1>15, <1>16 DEF ReadFits, Told
<1>18. Told(heard, events, deltas, parsed)'
  BY <1>1, <1>2, <1>8, <1>14, <1>15, <1>16, <1>17, StillTold
<1>19. AnswerFits' /\ Units' = Units
  BY <1>1, <1>3, SameAnswer
<1>20. sent' \in 0..Units' /\ parsed' = Complete(sent)'
  BY <1>2, <1>6, <1>19 DEF Complete
<1>21. Listed(heard') /\ Listed(events')
  BY <1>1, <1>3, <1>15, <1>17
<1>22. QED
  BY <1>18, <1>19, <1>20, <1>21 DEF WholeInv

LEMMA HearCallWhole ==
    ASSUME WholeInv, HearCall
    PROVE  WholeInv'
<1>1. /\ phase = "streaming" /\ events # <<>> /\ Head(events).kind = "call"
      /\ UNCHANGED <<phase, provider, answer, parsed, deltas>>
      /\ heard' = Append(heard, Head(events))
  BY DEF HearCall
<1>2. \/ events' = Tail(events) /\ UNCHANGED sent
      \/ events' = <<>> /\ sent' = Units + 1
  BY DEF HearCall
<1>3. CASE events' = Tail(events) /\ UNCHANGED sent
  BY <1>1, <1>3, HearFits
<1>4. CASE events' = <<>> /\ sent' = Units + 1
  <2>1. AnswerFits /\ Listed(heard) /\ Listed(events)
    BY <1>1 DEF WholeInv
  <2>2. sent \in 0..Units /\ parsed = Complete(sent) /\ Told(heard, events, deltas, parsed)
    BY <1>1 DEF WholeInv
  <2>3. Starts(heard \o CallsIn(events), Said)
    <3>1. parsed \in 0..Len(Lines)
      BY <2>1, <2>2, ParsedWithin
    <3>2. heard \o CallsIn(events) = CallsTo(parsed)
      BY <2>2 DEF Told
    <3>3. QED
      BY <2>1, <3>1, <3>2, ToldStarts
  <2>4. PICK e : e = Head(events)
    OBVIOUS
  <2>5. PICK t : t = CallsIn(Tail(events))
    OBVIOUS
  <2>6. Listed(t) /\ CallsIn(events) = <<e>> \o t
    <3>1. Listed(t) /\ CallsIn(events) = Own(e) \o t
      BY <1>1, <2>1, <2>4, <2>5, FirstCall
    <3>2. Own(e) = <<e>>
      BY <1>1, <2>4 DEF Own
    <3>3. QED
      BY <3>1, <3>2
  <2>7. heard' = heard \o <<e>> /\ Listed(heard')
    BY <1>1, <2>1, <2>4, AppendOne, AppendListed
  <2>8. Starts(heard', Said)
    <3>1. PICK o : o = <<e>>
      OBVIOUS
    <3>2. Listed(heard) /\ Listed(o) /\ Listed(t)
      BY <2>1, <2>6, <3>1, OneListed
    <3>3. (heard \o o) \o t = heard \o (o \o t)
      <4>1. InAnyOrder(heard, o, t)
        BY <3>2, Associative
      <4>2. QED
        BY <4>1 DEF InAnyOrder
    <3>4. PICK h : h = heard \o o
      OBVIOUS
    <3>5. Listed(h) /\ Starts(h \o t, Said)
      BY <2>3, <2>6, <2>7, <3>1, <3>3, <3>4
    <3>6. Starts(h, Said)
      BY <3>2, <3>5, StartsConcat
    <3>7. QED
      BY <2>7, <3>1, <3>4, <3>6
  <2>9. AnswerFits' /\ Units' = Units /\ Said' = Said
    BY <1>1, <2>1, SameAnswer
  <2>10. Starts(heard, Said)'
    BY <2>8, <2>9 DEF Starts
  <2>11. Listed(events')
    BY <1>4, EmptyListed
  <2>12. QED
    BY <1>4, <2>7, <2>9, <2>10, <2>11 DEF WholeInv
<1>5. QED
  BY <1>2, <1>3, <1>4

LEMMA StepWhole ==
    ASSUME HonestProviders, WholeInv, [Next]_vars
    PROVE  WholeInv'
<1>1. CASE Ask
  BY <1>1, AskWhole
<1>2. CASE Chunk
  BY <1>2, ChunkWhole
<1>3. CASE HearText \/ HearFinish
  <2>1. /\ phase = "streaming" /\ events # <<>> /\ Head(events).kind # "call"
        /\ UNCHANGED <<phase, provider, answer, parsed, deltas, sent, heard>>
        /\ events' = Tail(events)
    BY <1>3 DEF HearText, HearFinish
  <2>2. QED
    BY <2>1, HearFits
<1>4. CASE HearStray
  <2>1. /\ phase = "streaming" /\ events # <<>> /\ Head(events).kind = "call"
        /\ UNCHANGED <<phase, provider, answer, parsed, deltas, sent>>
        /\ events' = Tail(events) /\ heard' = Append(heard, Head(events))
    BY <1>4 DEF HearStray
  <2>2. QED
    BY <2>1, HearFits
<1>5. CASE HearCall
  BY <1>5, HearCallWhole
<1>6. CASE phase' # "streaming"
  BY <1>6 DEF WholeInv
<1>7. CASE UNCHANGED vars
  <2>1. UNCHANGED <<phase, provider, answer, sent, parsed, deltas, events, heard>>
    BY <1>7 DEF vars
  <2>2. CASE phase = "streaming"
    <3>1. AnswerFits /\ Listed(heard) /\ Listed(events)
      BY <2>2 DEF WholeInv
    <3>2. AnswerFits' /\ Units' = Units /\ Said' = Said /\ Listed(heard') /\ Listed(events')
      BY <2>1, <3>1, SameAnswer
    <3>3. CASE sent \in 0..Units /\ parsed = Complete(sent) /\ Told(heard, events, deltas, parsed)
      <4>1. Told(heard, events, deltas, parsed)'
        BY <2>1, <3>3, StillTold
      <4>2. sent' \in 0..Units' /\ parsed' = Complete(sent)'
        BY <2>1, <3>2, <3>3 DEF Complete
      <4>3. QED
        BY <3>2, <4>1, <4>2 DEF WholeInv
    <3>4. CASE sent = Units + 1 /\ events = <<>> /\ Starts(heard, Said)
      <4>1. Starts(heard, Said)'
        BY <2>1, <3>2, <3>4 DEF Starts
      <4>2. QED
        BY <2>1, <3>2, <3>4, <4>1 DEF WholeInv
    <3>5. QED
      BY <2>2, <3>3, <3>4 DEF WholeInv
  <2>3. CASE phase # "streaming"
    BY <2>1, <2>3 DEF WholeInv
  <2>4. QED
    BY <2>2, <2>3
<1>8. QED
  <2>1. StartRun \/ StreamError \/ CallFails \/ RetryEmpty \/ EndRun \/ NextRound
          => phase' # "streaming"
    BY DEF StartRun, StreamError, CallFails, RunEnds, RetryEmpty, EndRun, NextRound
  <2>2. QED
    BY <1>1, <1>2, <1>3, <1>4, <1>5, <1>6, <1>7, <2>1 DEF Next

(* However a stream is cut into chunks (openai.rs and gemini.rs,             *)
(* stream_generate) and however the pieces of its calls are mixed, the      *)
(* engine acts on the calls the model made, each whole and in their order:  *)
(* for any answers, as long as providers are honest, that is, the lines of  *)
(* an answer tell the calls it means to make.                              *)
THEOREM CallsWhole == HonestProviders => (Spec => []CallsArriveWhole)
<1> SUFFICES ASSUME HonestProviders PROVE Spec => []CallsArriveWhole
  OBVIOUS
<1>1. Init => WholeInv
  BY DEF Init, WholeInv
<1>2. WholeInv /\ [Next]_vars => WholeInv'
  BY StepWhole
<1>3. WholeInv => CallsArriveWhole
  BY WholeArrives
<1>4. QED
  BY <1>1, <1>2, <1>3, PTL DEF Spec
===============================================================================
