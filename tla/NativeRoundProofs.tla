--------------------------- MODULE NativeRoundProofs ---------------------------
(***************************************************************************)
(* What NativeRound keeps right, for any answers, providers and outcomes.  *)
(* The theorems of the library that justify induction take an operator;    *)
(* here it is done with sets, from a well-founded order.                   *)
(***************************************************************************)
EXTENDS NativeRound, SequenceTheorems, WellFoundedInduction, TLAPS

-----------------------------------------------------------------------------
(* Induction. *)

LEMMA Less ==
    ASSUME NEW x \in Nat, NEW y \in Nat, y < x
    PROVE  <<y, x>> \in OpToRel(<, Nat)
BY DEF OpToRel

LEMMA Least ==
    ASSUME NEW T \in SUBSET Nat, T # {}
    PROVE  \E x \in T : \A y \in T : x <= y
<1>1. PICK x \in T : \A y \in T : ~ (<<y, x>> \in OpToRel(<, Nat))
  <2>1. T \subseteq Nat
    OBVIOUS
  <2> HIDE DEF OpToRel
  <2>2. QED
    BY <2>1, WFMin, NatLessThanWellFounded
<1>2. ASSUME NEW y \in T PROVE x <= y
  <2>1. x \in Nat /\ y \in Nat /\ ~ (y < x)
    BY <1>1, Less
  <2>2. QED
    BY <2>1
<1>3. QED
  BY <1>2

LEMMA Induction ==
    ASSUME NEW T, 0 \in T, \A n \in Nat : n \in T => n + 1 \in T
    PROVE  Nat \subseteq T
<1> SUFFICES ASSUME Nat \ T # {} PROVE FALSE
  OBVIOUS
<1>1. PICK x \in Nat \ T : \A y \in Nat \ T : x <= y
  BY Least
<1>2. x # 0 /\ x - 1 \in Nat /\ (x - 1) + 1 = x
  OBVIOUS
<1>3. x - 1 \in T
  BY <1>1, <1>2
<1>4. QED
  BY <1>2, <1>3

(* From 1 to n. *)
LEMMA InductionTo ==
    ASSUME NEW n \in Nat, NEW T, 1 \in T, \A i \in 1..n : i + 1 \in 1..n /\ i \in T => i + 1 \in T
    PROVE  1..n \subseteq T
<1> DEFINE U == {i \in Nat : i \in 1..n => i \in T}
<1>1. 0 \in U
  OBVIOUS
<1>2. ASSUME NEW i \in Nat, i \in U PROVE i + 1 \in U
  <2>1. CASE i = 0
    BY <2>1
  <2>2. CASE i # 0 /\ i + 1 <= n
    <3>1. i \in 1..n /\ i + 1 \in 1..n
      BY <2>2
    <3>2. QED
      BY <1>2, <3>1
  <2>3. CASE ~(i + 1 <= n)
    BY <2>3
  <2>4. QED
    BY <2>1, <2>2, <2>3
<1>3. Nat \subseteq U
  <2> HIDE DEF U
  <2>1. QED
    BY <1>1, <1>2, Induction
<1>4. QED
  BY <1>3

-----------------------------------------------------------------------------
(* Sequences of sequences, put one after the other. *)

Joins(seqs, f) ==
    f = [i \in 1..Len(seqs) |-> IF i = 1 THEN seqs[i] ELSE f[i - 1] \o seqs[i]]

LEMMA JoinExists ==
    ASSUME NEW E, NEW seqs \in Seq(Seq(E))
    PROVE  \E f : Joins(seqs, f)
<1> DEFINE n == Len(seqs)
           Body(f, i) == IF i = 1 THEN seqs[i] ELSE f[i - 1] \o seqs[i]
           T == {m \in Nat : \E f : f = [i \in 1..m |-> Body(f, i)]}
<1>0. n \in Nat
  BY LenProperties
<1>1. 0 \in T
  <2>1. ASSUME NEW f, f = [i \in 1..0 |-> 0] PROVE f = [i \in 1..0 |-> Body(f, i)]
    BY <2>1
  <2>2. QED
    BY <2>1
<1>2. ASSUME NEW m \in Nat, m \in T PROVE m + 1 \in T
  <2>1. PICK f : f = [i \in 1..m |-> Body(f, i)]
    BY <1>2
  <2> DEFINE g == [i \in 1..(m + 1) |-> IF i <= m THEN f[i] ELSE Body(f, i)]
  <2>2. ASSUME NEW i \in 1..(m + 1) PROVE g[i] = Body(g, i)
    <3>1. CASE i = 1
      <4>1. m >= 1 => f[1] = seqs[1]
        BY <2>1
      <4>2. QED
        BY <3>1, <4>1
    <3>2. CASE i # 1
      <4>1. i - 1 \in 1..m /\ g[i - 1] = f[i - 1]
        BY <3>2
      <4>2. ASSUME i <= m PROVE f[i] = f[i - 1] \o seqs[i]
        <5>1. i \in 1..m
          BY <4>2
        <5>2. f[i] = Body(f, i)
          <6> HIDE DEF Body
          <6>1. QED
            BY <2>1, <5>1
        <5>3. QED
          BY <3>2, <5>2
      <4>3. QED
        BY <3>2, <4>1, <4>2
    <3>3. QED
      BY <3>1, <3>2
  <2>3. g = [i \in 1..(m + 1) |-> Body(g, i)]
    <3>1. g = [i \in 1..(m + 1) |-> g[i]]
      OBVIOUS
    <3> HIDE DEF g, Body
    <3>2. QED
      BY <2>2, <3>1
  <2>4. QED
    <3> HIDE DEF g, Body
    <3>1. \E h : h = [i \in 1..(m + 1) |-> Body(h, i)]
      BY <2>3
    <3>2. QED
      BY <3>1
<1>3. n \in T
  <2> HIDE DEF T
  <2>1. QED
    BY <1>0, <1>1, <1>2, Induction
<1>4. QED
  BY <1>3 DEF Joins

LEMMA FlattenJoins ==
    ASSUME NEW E, NEW seqs \in Seq(Seq(E)), seqs # <<>>
    PROVE  \E f : Joins(seqs, f) /\ S!FlattenSeq(seqs) = f[Len(seqs)]
<1> DEFINE f == CHOOSE f : Joins(seqs, f)
<1>1. Joins(seqs, f)
  BY JoinExists
<1>2. Len(seqs) # 0
  BY EmptySeq
<1>3. S!FlattenSeq(seqs) = f[Len(seqs)]
  BY <1>2 DEF S!FlattenSeq, Joins
<1>4. QED
  BY <1>1, <1>3

(* Where an element of the joined sequence comes from: place n of piece t,  *)
(* and the rest of the piece stands around it.                             *)
From(seqs, flat, k, t, n) ==
    \A m \in 1..Len(seqs[t]) :
        k - n + m \in 1..Len(flat) /\ flat[k - n + m] = seqs[t][m]

Placed(seqs, flat) ==
    \A k \in 1..Len(flat) : \E t \in 1..Len(seqs) : \E n \in 1..Len(seqs[t]) :
        From(seqs, flat, k, t, n)

LEMMA PlacedFirst ==
    ASSUME NEW E, NEW seqs \in Seq(Seq(E)), 1 \in 1..Len(seqs)
    PROVE  Placed(seqs, seqs[1])
<1>1. seqs[1] \in Seq(E) /\ Len(seqs[1]) \in Nat
  BY ElementOfSeq, LenProperties
<1>2. ASSUME NEW k \in 1..Len(seqs[1])
      PROVE  From(seqs, seqs[1], k, 1, k)
  <2>1. \A m \in 1..Len(seqs[1]) : k - k + m = m
    BY <1>1
  <2>2. QED
    BY <2>1 DEF From
<1>3. QED
  BY <1>2 DEF Placed

LEMMA InLonger ==
    ASSUME NEW a \in Nat, NEW b \in Nat, NEW p \in 1..a
    PROVE  p \in 1..(a + b) /\ p <= a
OBVIOUS

LEMMA Shifted ==
    ASSUME NEW a \in Nat, NEW b \in Nat, NEW k \in (a + 1)..(a + b), NEW m \in 1..b
    PROVE  /\ k - (k - a) + m = a + m /\ a + m \in 1..(a + b)
           /\ ~(a + m <= a) /\ (a + m) - a = m
OBVIOUS

LEMMA PlacedNext ==
    ASSUME NEW E, NEW seqs \in Seq(Seq(E)), NEW flat \in Seq(E), Placed(seqs, flat),
           NEW t \in 1..Len(seqs)
    PROVE  Placed(seqs, flat \o seqs[t])
<1> DEFINE s == seqs[t]
           new == flat \o s
           l == Len(flat)
<1>1. s \in Seq(E) /\ Len(s) \in Nat /\ l \in Nat
  BY ElementOfSeq, LenProperties
<1>2. /\ new \in Seq(E) /\ Len(new) = l + Len(s)
      /\ \A i \in 1..(l + Len(s)) : new[i] = IF i <= l THEN flat[i] ELSE s[i - l]
  BY <1>1, ConcatProperties
<1> HIDE DEF new
<1>3. ASSUME NEW k \in 1..l
      PROVE  \E u \in 1..Len(seqs) : \E n \in 1..Len(seqs[u]) : From(seqs, new, k, u, n)
  <2>0. PICK u \in 1..Len(seqs) : \E n \in 1..Len(seqs[u]) : From(seqs, flat, k, u, n)
    BY DEF Placed
  <2>1. PICK n \in 1..Len(seqs[u]) : From(seqs, flat, k, u, n)
    BY <2>0
  <2>2. ASSUME NEW m \in 1..Len(seqs[u])
        PROVE  k - n + m \in 1..Len(new) /\ new[k - n + m] = seqs[u][m]
    <3>1. k - n + m \in 1..l /\ flat[k - n + m] = seqs[u][m]
      BY <2>1 DEF From
    <3>2. k - n + m \in 1..(l + Len(s)) /\ k - n + m <= l
      <4>1. PICK p : p = k - n + m
        OBVIOUS
      <4>2. p \in 1..l
        BY <3>1, <4>1
      <4>3. p \in 1..(l + Len(s)) /\ p <= l
        BY <1>1, <4>2, InLonger
      <4>4. QED
        BY <4>1, <4>3
    <3>3. QED
      BY <1>2, <3>1, <3>2
  <2>3. From(seqs, new, k, u, n)
    BY <2>2 DEF From
  <2>4. QED
    BY <2>3
<1>4. ASSUME NEW k \in (l + 1)..(l + Len(s))
      PROVE  k - l \in 1..Len(s) /\ From(seqs, new, k, t, k - l)
  <2>1. k - l \in 1..Len(s)
    BY <1>1
  <2>2. ASSUME NEW m \in 1..Len(s)
        PROVE  k - (k - l) + m \in 1..Len(new) /\ new[k - (k - l) + m] = s[m]
    <3>1. k - (k - l) + m = l + m /\ l + m \in 1..(l + Len(s)) /\ ~(l + m <= l) /\ (l + m) - l = m
      BY <1>1, Shifted
    <3>2. QED
      BY <1>2, <3>1
  <2>3. QED
    BY <2>1, <2>2 DEF From
<1>5. \A k \in 1..Len(new) : k \in 1..l \/ k \in (l + 1)..(l + Len(s))
  BY <1>1, <1>2
<1>6. Placed(seqs, new)
  BY <1>3, <1>4, <1>5 DEF Placed
<1>7. QED
  BY <1>6 DEF new

LEMMA FlattenPlaced ==
    ASSUME NEW E, NEW seqs \in Seq(Seq(E))
    PROVE  S!FlattenSeq(seqs) \in Seq(E) /\ Placed(seqs, S!FlattenSeq(seqs))
<1> DEFINE n == Len(seqs)
<1>0. n \in Nat
  BY LenProperties
<1>1. CASE seqs = <<>>
  <2>1. S!FlattenSeq(seqs) = <<>>
    BY <1>1 DEF S!FlattenSeq
  <2>2. Len(<<>>) = 0 /\ <<>> \in Seq(E)
    BY EmptySeq
  <2>3. QED
    BY <2>1, <2>2 DEF Placed
<1>2. CASE seqs # <<>>
  <2>1. PICK f : Joins(seqs, f) /\ S!FlattenSeq(seqs) = f[n]
    BY <1>2, FlattenJoins
  <2>2. n \in 1..n /\ 1 \in 1..n
    BY <1>0, <1>2, EmptySeq
  <2> DEFINE T == {i \in 1..n : f[i] \in Seq(E) /\ Placed(seqs, f[i])}
  <2>3. 1 \in T
    <3>1. f[1] = seqs[1]
      BY <2>1, <2>2 DEF Joins
    <3>2. QED
      BY <2>2, <3>1, PlacedFirst, ElementOfSeq
  <2>4. ASSUME NEW i \in 1..n, i + 1 \in 1..n, i \in T
        PROVE  i + 1 \in T
    <3>1. i + 1 # 1 /\ (i + 1) - 1 = i
      BY <1>0
    <3>2. f[i + 1] = f[i] \o seqs[i + 1]
      BY <2>1, <2>4, <3>1 DEF Joins
    <3>3. f[i] \in Seq(E) /\ Placed(seqs, f[i]) /\ seqs[i + 1] \in Seq(E)
      BY <2>4, ElementOfSeq
    <3>4. f[i] \o seqs[i + 1] \in Seq(E) /\ Placed(seqs, f[i] \o seqs[i + 1])
      BY <2>4, <3>3, PlacedNext, ConcatProperties
    <3>5. QED
      BY <2>4, <3>2, <3>4
  <2>5. n \in T
    <3> HIDE DEF T
    <3>1. 1..n \subseteq T
      BY <1>0, <2>3, <2>4, InductionTo
    <3>2. QED
      BY <2>2, <3>1
  <2>6. QED
    BY <2>1, <2>5
<1>3. QED
  BY <1>1, <1>2
-----------------------------------------------------------------------------
(* Roles. *)

(* A word of the model follows one of the user. *)
AssistantAfterUser(messages) ==
    \A k \in 2..Len(messages) :
        messages[k].role = "assistant" => messages[k - 1].role = "user"

Alternate(roles) == \A i \in 2..Len(roles) : roles[i] # roles[i - 1]

(* Roles that alternate still do if the next piece begins with another role. *)
LEMMA AlternateNext ==
    ASSUME NEW E, NEW a \in Seq(E), NEW b \in Seq(E), Alternate(a), Alternate(b),
           Len(a) > 0, Len(b) > 0, a[Len(a)] # b[1]
    PROVE  /\ a \o b \in Seq(E) /\ Len(a \o b) = Len(a) + Len(b) /\ Alternate(a \o b)
           /\ (a \o b)[Len(a \o b)] = b[Len(b)]
<1> DEFINE l == Len(a)
           c == a \o b
<1>1. l \in Nat /\ Len(b) \in Nat
  BY LenProperties
<1>2. /\ c \in Seq(E) /\ Len(c) = l + Len(b)
      /\ \A i \in 1..(l + Len(b)) : c[i] = IF i <= l THEN a[i] ELSE b[i - l]
  BY ConcatProperties
<1> HIDE DEF c
<1>3. ASSUME NEW i \in 2..Len(c) PROVE c[i] # c[i - 1]
  <2>0. i \in 1..(l + Len(b)) /\ i - 1 \in 1..(l + Len(b))
    BY <1>1, <1>2
  <2>1. CASE i <= l
    <3>1. i \in 2..l /\ i - 1 <= l
      BY <1>1, <2>1
    <3>2. c[i] = a[i]
      BY <1>2, <2>0, <2>1
    <3>3. c[i - 1] = a[i - 1]
      BY <1>2, <2>0, <3>1
    <3>4. QED
      BY <3>1, <3>2, <3>3 DEF Alternate
  <2>2. CASE i = l + 1
    <3>1. ~(i <= l) /\ i - l = 1 /\ i - 1 = l /\ l <= l
      BY <1>1, <2>2
    <3>2. c[i] = b[1]
      BY <1>2, <2>0, <3>1
    <3>3. c[i - 1] = a[l]
      BY <1>2, <2>0, <3>1
    <3>4. QED
      BY <3>2, <3>3
  <2>3. CASE i > l + 1
    <3>1. i - l \in 2..Len(b) /\ ~(i <= l) /\ ~(i - 1 <= l) /\ (i - 1) - l = (i - l) - 1
      BY <1>1, <1>2, <2>3
    <3>2. c[i] = b[i - l] /\ c[i - 1] = b[(i - l) - 1]
      BY <1>2, <2>0, <3>1
    <3>3. QED
      BY <3>1, <3>2 DEF Alternate
  <2>4. QED
    BY <1>1, <1>2, <2>1, <2>2, <2>3
<1>4. Alternate(c)
  BY <1>3 DEF Alternate
<1>5. c[Len(c)] = b[Len(b)]
  <2>1. l + Len(b) \in 1..(l + Len(b)) /\ ~(l + Len(b) <= l) /\ (l + Len(b)) - l = Len(b)
    BY <1>1
  <2>2. QED
    BY <1>2, <2>1
<1>6. QED
  BY <1>2, <1>4, <1>5 DEF c

(* The piece that Gemini is sent for a message. *)
Piece(messages, i) ==
    IF i > 1 /\ Role(messages[i]) = "user" /\ Role(messages[i - 1]) = "user"
      THEN <<"model", "user">> ELSE <<Role(messages[i])>>

IsPiece(p, messages, i) ==
    /\ p \in Seq({"user", "model"}) /\ Len(p) > 0 /\ Alternate(p)
    /\ p[Len(p)] = Role(messages[i])
    /\ i > 1 => p[1] # Role(messages[i - 1])

LEMMA PieceFits ==
    ASSUME NEW messages, Len(messages) \in Nat, AssistantAfterUser(messages),
           NEW i \in 1..Len(messages), NEW p, p = Piece(messages, i)
    PROVE  IsPiece(p, messages, i)
<1> DEFINE role == Role(messages[i])
<1>1. role \in {"user", "model"}
  BY DEF Role
<1>2. CASE i > 1 /\ role = "user" /\ Role(messages[i - 1]) = "user"
  <2>1. p = <<"model", "user">>
    BY <1>2 DEF Piece
  <2>2. p \in Seq({"user", "model"}) /\ Len(p) = 2 /\ p[1] = "model" /\ p[2] = "user"
    BY <2>1
  <2>3. Alternate(p)
    BY <2>2 DEF Alternate
  <2>4. QED
    BY <1>2, <2>2, <2>3 DEF IsPiece
<1>3. CASE ~(i > 1 /\ role = "user" /\ Role(messages[i - 1]) = "user")
  <2> HIDE DEF role
  <2>1. p = <<role>>
    BY <1>3 DEF Piece, role
  <2>2. p \in Seq({"user", "model"}) /\ Len(p) = 1 /\ p[1] = role
    BY <1>1, <2>1
  <2>3. Alternate(p)
    BY <2>2 DEF Alternate
  <2>4. ASSUME i > 1 PROVE role # Role(messages[i - 1])
    <3>1. CASE role = "user"
      BY <1>3, <2>4, <3>1
    <3>2. CASE role = "model"
      <4>1. messages[i].role = "assistant"
        BY <3>2 DEF Role, role
      <4>2. messages[i - 1].role = "user"
        BY <2>4, <4>1 DEF AssistantAfterUser
      <4>3. QED
        BY <3>2, <4>2 DEF Role
    <3>3. QED
      BY <1>1, <3>1, <3>2
  <2>5. QED
    BY <2>2, <2>3, <2>4 DEF role, IsPiece
<1>4. QED
  BY <1>2, <1>3

(* What Gemini is sent alternates. *)
LEMMA GeminiAlternates ==
    ASSUME NEW E, NEW messages \in Seq(E), AssistantAfterUser(messages)
    PROVE  Alternate(Gemini(messages))
<1> DEFINE n == Len(messages)
           R == {"user", "model"}
           pieces == [i \in 1..n |-> Piece(messages, i)]
<1>0. n \in Nat /\ DOMAIN messages = 1..n
  BY LenProperties
<1>1. Gemini(messages) = S!FlattenSeq(pieces)
  BY <1>0 DEF Gemini, Piece
<1>2. ASSUME NEW i \in 1..n
      PROVE  /\ pieces[i] \in Seq(R) /\ Len(pieces[i]) > 0 /\ Alternate(pieces[i])
             /\ pieces[i][Len(pieces[i])] = Role(messages[i])
             /\ i > 1 => pieces[i][1] # Role(messages[i - 1])
  <2>1. pieces[i] = Piece(messages, i)
    OBVIOUS
  <2> HIDE DEF pieces
  <2>2. IsPiece(pieces[i], messages, i)
    BY <1>0, <2>1, PieceFits
  <2>3. QED
    BY <2>2 DEF IsPiece
<1>3. pieces \in Seq(Seq(R)) /\ Len(pieces) = n
  <2>0. pieces = [i \in 1..n |-> pieces[i]]
    OBVIOUS
  <2> HIDE DEF pieces, R
  <2>1. pieces \in [1..n -> Seq(R)]
    BY <1>2, <2>0
  <2>2. QED
    BY <1>0, <2>1, SeqDef, LenProperties
<1> HIDE DEF pieces, R
<1>4. CASE n = 0
  <2>1. pieces = <<>>
    BY <1>3, <1>4, EmptySeq
  <2>2. S!FlattenSeq(pieces) = <<>>
    BY <2>1 DEF S!FlattenSeq
  <2>3. QED
    BY <1>1, <2>2 DEF Alternate
<1>5. CASE n # 0
  <2>1. pieces # <<>>
    BY <1>3, <1>5
  <2>2. PICK f : Joins(pieces, f) /\ S!FlattenSeq(pieces) = f[n]
    BY <1>3, <2>1, FlattenJoins
  <2> DEFINE T == {i \in 1..n : /\ f[i] \in Seq(R) /\ Len(f[i]) > 0 /\ Alternate(f[i])
                                /\ f[i][Len(f[i])] = Role(messages[i])}
  <2>3. 1 \in T
    <3>1. 1 \in 1..n
      BY <1>0, <1>5
    <3>2. f[1] = pieces[1]
      BY <1>3, <2>2, <3>1 DEF Joins
    <3>3. /\ pieces[1] \in Seq(R) /\ Len(pieces[1]) > 0 /\ Alternate(pieces[1])
          /\ pieces[1][Len(pieces[1])] = Role(messages[1])
      BY <1>2, <3>1
    <3>4. /\ f[1] \in Seq(R) /\ Len(f[1]) > 0 /\ Alternate(f[1])
          /\ f[1][Len(f[1])] = Role(messages[1])
      BY <3>2, <3>3
    <3>5. QED
      BY <3>1, <3>4
  <2>4. ASSUME NEW i \in 1..n, i + 1 \in 1..n, i \in T
        PROVE  i + 1 \in T
    <3>1. i + 1 # 1 /\ (i + 1) - 1 = i /\ i + 1 > 1
      BY <1>0
    <3>2. f[i + 1] = f[i] \o pieces[i + 1]
      BY <1>3, <2>2, <2>4, <3>1 DEF Joins
    <3>3. /\ pieces[i + 1] \in Seq(R) /\ Len(pieces[i + 1]) > 0 /\ Alternate(pieces[i + 1])
          /\ pieces[i + 1][Len(pieces[i + 1])] = Role(messages[i + 1])
          /\ pieces[i + 1][1] # Role(messages[i])
      <4>1. i + 1 \in 1..n
        BY <2>4
      <4>2. /\ pieces[i + 1] \in Seq(R) /\ Len(pieces[i + 1]) > 0 /\ Alternate(pieces[i + 1])
            /\ pieces[i + 1][Len(pieces[i + 1])] = Role(messages[i + 1])
            /\ i + 1 > 1 => pieces[i + 1][1] # Role(messages[(i + 1) - 1])
        BY <1>2, <4>1
      <4>3. QED
        BY <3>1, <4>2
    <3>4. f[i] \in Seq(R) /\ Len(f[i]) > 0 /\ Alternate(f[i]) /\ f[i][Len(f[i])] = Role(messages[i])
      BY <2>4
    <3>5. Len(f[i]) \in Nat /\ Len(pieces[i + 1]) \in Nat
      BY <3>3, <3>4, LenProperties
    <3>6. /\ f[i] \o pieces[i + 1] \in Seq(R) /\ Alternate(f[i] \o pieces[i + 1])
          /\ Len(f[i] \o pieces[i + 1]) = Len(f[i]) + Len(pieces[i + 1])
          /\ (f[i] \o pieces[i + 1])[Len(f[i] \o pieces[i + 1])] = Role(messages[i + 1])
      <4>1. PICK a : a = f[i]
        OBVIOUS
      <4>2. PICK b : b = pieces[i + 1]
        OBVIOUS
      <4>3. a \in Seq(R) /\ Len(a) > 0 /\ Alternate(a) /\ a[Len(a)] = Role(messages[i])
        BY <3>4, <4>1
      <4>4. /\ b \in Seq(R) /\ Len(b) > 0 /\ Alternate(b)
            /\ b[Len(b)] = Role(messages[i + 1]) /\ b[1] # Role(messages[i])
        BY <3>3, <4>2
      <4>5. a[Len(a)] # b[1]
        BY <4>3, <4>4
      <4>6. /\ a \o b \in Seq(R) /\ Len(a \o b) = Len(a) + Len(b) /\ Alternate(a \o b)
            /\ (a \o b)[Len(a \o b)] = b[Len(b)]
        BY <4>3, <4>4, <4>5, AlternateNext
      <4>7. QED
        BY <4>1, <4>2, <4>4, <4>6
    <3>7. Len(f[i] \o pieces[i + 1]) > 0
      <4>1. \A x, y \in Nat : x > 0 /\ y > 0 => x + y > 0
        OBVIOUS
      <4>2. Len(f[i]) + Len(pieces[i + 1]) > 0
        BY <3>3, <3>4, <3>5, <4>1
      <4>3. QED
        BY <3>6, <4>2
    <3>8. /\ f[i + 1] \in Seq(R) /\ Len(f[i + 1]) > 0 /\ Alternate(f[i + 1])
          /\ f[i + 1][Len(f[i + 1])] = Role(messages[i + 1])
      BY <3>2, <3>6, <3>7
    <3>9. QED
      BY <2>4, <3>8
  <2>5. n \in T
    <3> HIDE DEF T
    <3>1. 1..n \subseteq T
      BY <1>0, <2>3, <2>4, InductionTo
    <3>2. QED
      BY <1>0, <1>5, <3>1
  <2>6. QED
    BY <1>1, <2>2, <2>5
<1>6. QED
  BY <1>4, <1>5
-----------------------------------------------------------------------------
(* Sequences, of whatever they hold. *)

Listed(s) == s \in Seq({s[i] : i \in 1..Len(s)})

LEMMA ListedFacts ==
    ASSUME NEW s, Listed(s)
    PROVE  Len(s) \in Nat /\ DOMAIN s = 1..Len(s)
BY LenProperties DEF Listed

LEMMA SeqListed ==
    ASSUME NEW E, NEW s \in Seq(E)
    PROVE  Listed(s)
<1> DEFINE R == {s[i] : i \in 1..Len(s)}
<1>1. Len(s) \in Nat /\ s = [i \in 1..Len(s) |-> s[i]]
  BY LenProperties
<1>2. \A i \in 1..Len(s) : s[i] \in R
  OBVIOUS
<1> HIDE DEF R
<1>3. s \in [1..Len(s) -> R]
  BY <1>1, <1>2
<1>4. s \in Seq(R)
  BY <1>1, <1>3, SeqDef
<1>5. QED
  BY <1>4 DEF Listed, R

LEMMA FunctionListed ==
    ASSUME NEW n \in Nat, NEW s, s = [i \in 1..n |-> s[i]]
    PROVE  Listed(s) /\ Len(s) = n
<1> DEFINE R == {s[i] : i \in 1..n}
<1>1. \A i \in 1..n : s[i] \in R
  OBVIOUS
<1> HIDE DEF R
<1>2. s \in [1..n -> R]
  BY <1>1
<1>3. s \in Seq(R)
  BY <1>2, SeqDef
<1>4. Len(s) = n
  BY <1>2, <1>3, LenProperties
<1>5. QED
  BY <1>3, <1>4, SeqListed

LEMMA EmptyListed == Listed(<<>>) /\ Len(<<>>) = 0
BY EmptySeq, SeqListed

LEMMA AppendListed ==
    ASSUME NEW s, Listed(s), NEW e
    PROVE  /\ Listed(Append(s, e)) /\ Len(Append(s, e)) = Len(s) + 1
           /\ \A i \in 1..(Len(s) + 1) :
                 Append(s, e)[i] = IF i <= Len(s) THEN s[i] ELSE e
<1> DEFINE R == {s[i] : i \in 1..Len(s)}
           E == R \cup {e}
<1>1. s \in Seq(R) /\ Len(s) \in Nat
  BY LenProperties DEF Listed
<1> HIDE DEF R
<1>2. R \subseteq E /\ e \in E
  OBVIOUS
<1> HIDE DEF E
<1>3. s \in Seq(E)
  <2>1. s \in [1..Len(s) -> R]
    BY <1>1, LenProperties
  <2>2. s \in [1..Len(s) -> E]
    BY <1>2, <2>1
  <2>3. QED
    BY <1>1, <2>2, SeqDef
<1>4. /\ Append(s, e) \in Seq(E) /\ Len(Append(s, e)) = Len(s) + 1
      /\ \A i \in 1..Len(s) : Append(s, e)[i] = s[i]
      /\ Append(s, e)[Len(s) + 1] = e
  BY <1>2, <1>3, AppendProperties
<1>5. ASSUME NEW i \in 1..(Len(s) + 1)
      PROVE  Append(s, e)[i] = IF i <= Len(s) THEN s[i] ELSE e
  <2>1. CASE i <= Len(s)
    <3>1. i \in 1..Len(s)
      BY <1>1, <2>1
    <3>2. QED
      BY <1>4, <2>1, <3>1
  <2>2. CASE ~(i <= Len(s))
    <3>1. i = Len(s) + 1
      BY <1>1, <2>2
    <3>2. QED
      BY <1>4, <2>2, <3>1
  <2>3. QED
    BY <2>1, <2>2
<1>6. QED
  BY <1>4, <1>5, SeqListed

Replaced(s, k, e) == [s EXCEPT ![k] = e]

LEMMA ReplaceListed ==
    ASSUME NEW s, Listed(s), NEW e, NEW k, NEW new, new = Replaced(s, k, e)
    PROVE  /\ Listed(new) /\ Len(new) = Len(s)
           /\ \A i \in 1..Len(s) : new[i] = IF i = k THEN e ELSE s[i]
<1>1. Len(s) \in Nat /\ DOMAIN s = 1..Len(s)
  BY ListedFacts
<1>2. new = [i \in 1..Len(s) |-> IF i = k THEN e ELSE s[i]]
  BY <1>1 DEF Replaced
<1>3. \A i \in 1..Len(s) : new[i] = IF i = k THEN e ELSE s[i]
  BY <1>2
<1>4. new = [i \in 1..Len(s) |-> new[i]]
  BY <1>2
<1>5. Listed(new) /\ Len(new) = Len(s)
  BY <1>1, <1>4, FunctionListed
<1>6. QED
  BY <1>3, <1>5
-----------------------------------------------------------------------------
(* The messages of a request. *)

Block(t) == <<Message("user", turns[t].input), Assistant(t)>> \o Results(t)
Blocks == [t \in DOMAIN turns |-> Block(t)]

LEMMA MessageFields ==
    ASSUME NEW role, NEW content
    PROVE  /\ Message(role, content).role = role /\ Message(role, content).id = NoId
           /\ Message(role, content).of = NoId
BY DEF Message

LEMMA AssistantFields ==
    ASSUME NEW t
    PROVE  /\ Assistant(t).role = "assistant"
           /\ Assistant(t).calls
                = [n \in DOMAIN turns[t].calls |-> IdOf(t, n, turns[t].calls[n])]
<1> DEFINE content == IF turns[t].said # "" THEN turns[t].said ELSE turns[t].response
           ids == [n \in DOMAIN turns[t].calls |-> IdOf(t, n, turns[t].calls[n])]
<1>1. Assistant(t) = [Message("assistant", content) EXCEPT !.calls = ids]
  BY DEF Assistant
<1> HIDE DEF content, ids
<1>2. [Message("assistant", content) EXCEPT !.calls = ids]
        = [role |-> "assistant", content |-> content, calls |-> ids, id |-> NoId, of |-> NoId]
  BY DEF Message
<1>3. Assistant(t).role = "assistant" /\ Assistant(t).calls = ids
  BY <1>1, <1>2
<1>4. QED
  BY <1>3 DEF ids

LEMMA ResultFields ==
    ASSUME NEW t, NEW n \in DOMAIN turns[t].results
    PROVE  /\ Results(t)[n].role = "tool" /\ "role" \in DOMAIN Results(t)[n]
           /\ Results(t)[n].id = turns[t].results[n].id
           /\ Results(t)[n].of = turns[t].results[n].of
<1> DEFINE r == turns[t].results[n]
<1>1. Results(t)[n] = [Message("tool", "result") EXCEPT !.id = r.id, !.of = r.of]
  BY DEF Results
<1>2. ASSUME NEW i, NEW o
      PROVE  [Message("tool", "result") EXCEPT !.id = i, !.of = o]
               = [role |-> "tool", content |-> "result", calls |-> <<>>, id |-> i, of |-> o]
  <2>1. PICK m : m = Message("tool", "result")
    OBVIOUS
  <2>2. m = [role |-> "tool", content |-> "result", calls |-> <<>>, id |-> NoId, of |-> NoId]
    BY <2>1 DEF Message
  <2>3. [m EXCEPT !.id = i]
          = [role |-> "tool", content |-> "result", calls |-> <<>>, id |-> i, of |-> NoId]
    BY <2>2
  <2>4. [[m EXCEPT !.id = i] EXCEPT !.of = o]
          = [role |-> "tool", content |-> "result", calls |-> <<>>, id |-> i, of |-> o]
    <3>1. PICK k : k = [m EXCEPT !.id = i]
      OBVIOUS
    <3>2. [k EXCEPT !.of = o]
            = [role |-> "tool", content |-> "result", calls |-> <<>>, id |-> i, of |-> o]
      <4>1. k = [role |-> "tool", content |-> "result", calls |-> <<>>, id |-> i, of |-> NoId]
        BY <2>3, <3>1
      <4>2. QED
        BY <4>1
    <3>3. QED
      BY <3>1, <3>2
  <2>5. [m EXCEPT !.id = i, !.of = o] = [[m EXCEPT !.id = i] EXCEPT !.of = o]
    OBVIOUS
  <2>6. QED
    BY <2>1, <2>4, <2>5
<1>3. Results(t)[n] = [role |-> "tool", content |-> "result", calls |-> <<>>,
                       id |-> r.id, of |-> r.of]
  <2> HIDE DEF r
  <2>1. QED
    BY <1>1, <1>2
<1> HIDE DEF r
<1>4. /\ Results(t)[n].role = "tool" /\ Results(t)[n].id = r.id /\ Results(t)[n].of = r.of
      /\ "role" \in DOMAIN Results(t)[n]
  BY <1>3
<1>5. QED
  BY <1>4 DEF r

(* A turn is told as the user's word, the model's, and the results. *)
LEMMA BlockFits ==
    ASSUME NEW t, Listed(turns[t].results)
    PROVE  /\ Listed(Block(t)) /\ Len(Block(t)) = Len(turns[t].results) + 2
           /\ Block(t)[1].role = "user" /\ Block(t)[2] = Assistant(t)
           /\ \A n \in 3..Len(Block(t)) : Block(t)[n] = Results(t)[n - 2]
<1> DEFINE l == Len(turns[t].results)
           u == Message("user", turns[t].input)
           a == Assistant(t)
           two == <<u, a>>
           r == Results(t)
           E == {u, a} \cup {r[i] : i \in 1..l}
<1>1. l \in Nat /\ DOMAIN turns[t].results = 1..l
  BY ListedFacts
<1>2. r = [i \in 1..l |-> r[i]]
  <2>1. DOMAIN r = 1..l /\ r = [i \in DOMAIN r |-> r[i]]
    BY <1>1 DEF Results
  <2>2. QED
    BY <2>1
<1>3. Block(t) = two \o r /\ u.role = "user"
  BY MessageFields DEF Block
<1> HIDE DEF u, a, r
<1>4. two \in Seq(E) /\ Len(two) = 2 /\ two[1] = u /\ two[2] = a
  OBVIOUS
<1>5. r \in Seq(E) /\ Len(r) = l
  <2>0. \A i \in 1..l : r[i] \in E
    OBVIOUS
  <2> HIDE DEF E
  <2>1. r \in [1..l -> E]
    BY <1>2, <2>0
  <2>2. r \in Seq(E)
    BY <1>1, <2>1, SeqDef
  <2>3. QED
    BY <1>1, <2>1, <2>2, LenProperties
<1> HIDE DEF two, E
<1>6. /\ two \o r \in Seq(E) /\ Len(two \o r) = 2 + l
      /\ \A i \in 1..(2 + l) : (two \o r)[i] = IF i <= 2 THEN two[i] ELSE r[i - 2]
  <2>1. /\ two \o r \in Seq(E) /\ Len(two \o r) = Len(two) + Len(r)
        /\ \A i \in 1..(Len(two) + Len(r)) :
              (two \o r)[i] = IF i <= Len(two) THEN two[i] ELSE r[i - Len(two)]
    <3>1. two \in Seq(E) /\ r \in Seq(E)
      BY <1>4, <1>5
    <3>2. QED
      BY <3>1, ConcatProperties
  <2>2. QED
    BY <1>4, <1>5, <2>1, Zenon
<1>7. Block(t)[1].role = "user" /\ Block(t)[2] = a
  <2>1. 1 \in 1..(2 + l) /\ 2 \in 1..(2 + l)
    BY <1>1
  <2>2. (two \o r)[1] = u /\ (two \o r)[2] = a
    BY <1>4, <1>6, <2>1
  <2>3. QED
    BY <1>3, <2>2
<1>8. ASSUME NEW n \in 3..(2 + l) PROVE Block(t)[n] = r[n - 2]
  <2>1. n \in 1..(2 + l) /\ ~(n <= 2)
    BY <1>1
  <2>2. QED
    BY <1>3, <1>6, <2>1
<1>9. Listed(Block(t))
  BY <1>3, <1>6, SeqListed
<1>10. Len(Block(t)) = l + 2
  BY <1>1, <1>3, <1>6
<1>11. QED
  BY <1>1, <1>7, <1>8, <1>9, <1>10 DEF a, r

ListedResults == Listed(turns) /\ \A t \in 1..Len(turns) : Listed(turns[t].results)

LEMMA MessagesPlaced ==
    ASSUME ListedResults
    PROVE  Listed(Messages) /\ Placed(Blocks, Messages) /\ Len(Blocks) = Len(turns)
<1> DEFINE n == Len(turns)
           E == UNION {{Block(t)[i] : i \in 1..Len(Block(t))} : t \in 1..n}
<1>1. n \in Nat /\ DOMAIN turns = 1..n
  BY ListedFacts DEF ListedResults
<1>2. ASSUME NEW t \in 1..n PROVE Block(t) \in Seq(E)
  <2> DEFINE R == {Block(t)[i] : i \in 1..Len(Block(t))}
  <2>1. Block(t) \in Seq(R)
    BY BlockFits DEF ListedResults, Listed
  <2>2. R \subseteq E
    OBVIOUS
  <2> HIDE DEF R, E
  <2>3. Len(Block(t)) \in Nat /\ Block(t) \in [1..Len(Block(t)) -> R]
    BY <2>1, LenProperties
  <2>4. Block(t) \in [1..Len(Block(t)) -> E]
    BY <2>2, <2>3
  <2>5. QED
    BY <2>3, <2>4, SeqDef
<1> HIDE DEF E
<1>3. Blocks \in [1..n -> Seq(E)]
  BY <1>1, <1>2 DEF Blocks
<1>4. Blocks \in Seq(Seq(E)) /\ Len(Blocks) = n
  BY <1>1, <1>3, SeqDef, LenProperties
<1>5. Messages = S!FlattenSeq(Blocks)
  BY DEF Messages, Blocks, Block
<1>6. Messages \in Seq(E) /\ Placed(Blocks, Messages)
  BY <1>4, <1>5, FlattenPlaced
<1>7. QED
  BY <1>4, <1>6, SeqListed

LEMMA MessagesAfterUser ==
    ASSUME ListedResults
    PROVE  AssistantAfterUser(Messages)
<1> SUFFICES ASSUME NEW k \in 2..Len(Messages), Messages[k].role = "assistant"
             PROVE  Messages[k - 1].role = "user"
  BY DEF AssistantAfterUser
<1>1. Len(Messages) \in Nat /\ k \in 1..Len(Messages)
  BY MessagesPlaced, ListedFacts
<1>2. PICK t \in 1..Len(turns) : \E n \in 1..Len(Blocks[t]) : From(Blocks, Messages, k, t, n)
  BY <1>1, MessagesPlaced DEF Placed
<1>3. PICK n \in 1..Len(Blocks[t]) : From(Blocks, Messages, k, t, n)
  BY <1>2
<1>4. Blocks[t] = Block(t) /\ Listed(turns[t].results) /\ DOMAIN turns[t].results = 1..Len(turns[t].results)
      /\ Len(turns[t].results) \in Nat
  BY ListedFacts DEF Blocks, ListedResults
<1>5. /\ Len(Block(t)) = Len(turns[t].results) + 2 /\ Block(t)[1].role = "user"
      /\ \A i \in 3..Len(Block(t)) : Block(t)[i] = Results(t)[i - 2]
  BY <1>4, BlockFits
<1>6. \A m \in 1..Len(Block(t)) : Messages[k - n + m] = Block(t)[m]
  BY <1>3, <1>4 DEF From
<1>7. Messages[k] = Block(t)[n]
  <2>1. k - n + n = k
    BY <1>1, <1>4, <1>5
  <2>2. QED
    BY <1>3, <1>4, <1>6, <2>1
<1>8. n \notin 3..Len(Block(t))
  <2> SUFFICES ASSUME n \in 3..Len(Block(t)) PROVE FALSE
    OBVIOUS
  <2>1. n - 2 \in DOMAIN turns[t].results
    BY <1>4, <1>5
  <2>2. Messages[k].role = "tool"
    BY <1>5, <1>7, <2>1, ResultFields
  <2>3. QED
    BY <2>2
<1>9. n # 1
  BY <1>5, <1>7
<1>10. n = 2 /\ 1 \in 1..Len(Block(t))
  BY <1>3, <1>4, <1>5, <1>8, <1>9
<1>11. k - n + 1 = k - 1
  BY <1>1, <1>10
<1>12. QED
  BY <1>5, <1>6, <1>10, <1>11
-----------------------------------------------------------------------------
(* The inductive invariants. *)

AsTurn(t) ==
    /\ t = [input |-> t.input, response |-> t.response, said |-> t.said,
            calls |-> t.calls, results |-> t.results]
    /\ Listed(t.calls) /\ Listed(t.results)

TurnsInv == Listed(turns) /\ \A t \in 1..Len(turns) : AsTurn(turns[t])

(* What a round gathers is listed, and the turn that is open has no results. *)
RoundInv ==
    /\ Listed(calls) /\ Listed(results) /\ Listed(heard)
    /\ Len(Lines) \in Nat
    /\ phase # "idle" => Len(turns) > 0 /\ Current.results = <<>>

RequestInv == Listed(request) /\ AssistantAfterUser(request)

Inv == TurnsInv /\ RoundInv /\ RequestInv

(* The result i is that of the call h that was heard. *)
Made(i, h) ==
    /\ Routed(heard[h].name)
    /\ results[i].name = heard[h].name /\ results[i].of = heard[h].id

RecordedAs(c, h) ==
    /\ Routed(heard[h].name)
    /\ calls[c].name = heard[h].name /\ calls[c].id = heard[h].id

(* The results of a round come in the order of their calls, which are       *)
(* recorded; but a hand-over is not, and nothing comes after it.           *)
ResultsInv ==
    /\ \A i \in 1..Len(results) :
          /\ results[i] = [id |-> NoId, name |-> results[i].name, of |-> results[i].of]
          /\ \E h \in 1..Len(heard) : Made(i, h)
          /\ \/ \E c \in 1..Len(calls) : calls[c].name = results[i].name
             \/ i = Len(results) /\ events = <<>> /\ sent = Units + 1
    /\ \A c \in 1..Len(calls) : \E h \in 1..Len(heard) : RecordedAs(c, h)
    /\ \A i, j \in 1..Len(results) : i < j =>
          \E g, h \in 1..Len(heard) : g < h /\ Made(i, g) /\ Made(j, h)

(* A result that has an id has that of its call, which the turn holds, and  *)
(* so have the results before it.                                          *)
TurnFits(t) ==
    \A n \in 1..Len(t.results) : t.results[n].id # NoId =>
        /\ t.results[n].id = t.results[n].of
        /\ \E c \in 1..Len(t.calls) : t.calls[c].id = t.results[n].id
        /\ \A m \in 1..(n - 1) : t.results[m].id # NoId

MessagesMatch(messages) ==
    \A i \in 1..Len(messages) :
        OpenAI(messages)[i].role = "tool" => FindsItsCall(OpenAI(messages), i)

RequestFits == MessagesMatch(request)

MatchInv ==
    /\ ResultsInv
    /\ \A t \in 1..Len(turns) : TurnFits(turns[t])
    /\ RequestFits

(* What the results rely on: no tool is called twice in a round, and a call *)
(* without an id is followed by none that has one.                         *)
OncePerTool ==
    \A i, j \in 1..Len(heard) :
        Routed(heard[i].name) /\ heard[i].name = heard[j].name => i = j

IdsFirst ==
    \A i, j \in 1..Len(heard) :
        i < j /\ Routed(heard[i].name) /\ Routed(heard[j].name) /\ heard[j].id # NoId
            => heard[i].id # NoId
-----------------------------------------------------------------------------
(* Turns. *)

LEMMA Responded ==
    ASSUME NEW t, AsTurn(t), NEW x, NEW new, new = [t EXCEPT !.response = x]
    PROVE  AsTurn(new) /\ new.calls = t.calls /\ new.results = t.results
<1>1. t = [input |-> t.input, response |-> t.response, said |-> t.said,
           calls |-> t.calls, results |-> t.results]
  BY DEF AsTurn
<1>2. new = [input |-> t.input, response |-> x, said |-> t.said,
             calls |-> t.calls, results |-> t.results]
  BY <1>1
<1>3. /\ new.input = t.input /\ new.response = x /\ new.said = t.said
      /\ new.calls = t.calls /\ new.results = t.results
  BY <1>2
<1>4. QED
  BY <1>2, <1>3 DEF AsTurn

WithCalls(t, c, x) == [t EXCEPT !.calls = c, !.said = x]

LEMMA Called ==
    ASSUME NEW t, AsTurn(t), NEW c, Listed(c), NEW x, NEW new, new = WithCalls(t, c, x)
    PROVE  AsTurn(new) /\ new.calls = c /\ new.results = t.results
<1>1. t = [input |-> t.input, response |-> t.response, said |-> t.said,
           calls |-> t.calls, results |-> t.results]
  BY DEF AsTurn
<1>2. PICK m : m = [t EXCEPT !.calls = c]
  OBVIOUS
<1>3. m = [input |-> t.input, response |-> t.response, said |-> t.said,
           calls |-> c, results |-> t.results]
  BY <1>1, <1>2
<1>4. new = [m EXCEPT !.said = x]
  BY <1>2 DEF WithCalls
<1>5. new = [input |-> t.input, response |-> t.response, said |-> x,
             calls |-> c, results |-> t.results]
  BY <1>3, <1>4
<1>6. /\ new.input = t.input /\ new.response = t.response /\ new.said = x
      /\ new.calls = c /\ new.results = t.results
  BY <1>5
<1>7. QED
  BY <1>5, <1>6 DEF AsTurn

LEMMA GivenResults ==
    ASSUME NEW t, AsTurn(t), NEW r, Listed(r), NEW new, new = [t EXCEPT !.results = r]
    PROVE  AsTurn(new) /\ new.calls = t.calls /\ new.results = r
<1>1. t = [input |-> t.input, response |-> t.response, said |-> t.said,
           calls |-> t.calls, results |-> t.results]
  BY DEF AsTurn
<1>2. new = [input |-> t.input, response |-> t.response, said |-> t.said,
             calls |-> t.calls, results |-> r]
  BY <1>1
<1>3. /\ new.input = t.input /\ new.response = t.response /\ new.said = t.said
      /\ new.calls = t.calls /\ new.results = r
  BY <1>2
<1>4. QED
  BY <1>2, <1>3 DEF AsTurn

LEMMA NewTurnFits ==
    ASSUME NEW input
    PROVE  AsTurn(NewTurn(input)) /\ NewTurn(input).results = <<>> /\ TurnFits(NewTurn(input))
<1>1. NewTurn(input) = [input |-> input, response |-> "", said |-> "",
                        calls |-> <<>>, results |-> <<>>]
  BY DEF NewTurn
<1>2. PICK t : t = NewTurn(input)
  OBVIOUS
<1>3. t = [input |-> input, response |-> "", said |-> "", calls |-> <<>>, results |-> <<>>]
  BY <1>1, <1>2
<1>4. /\ t.input = input /\ t.response = "" /\ t.said = ""
      /\ t.calls = <<>> /\ t.results = <<>>
  BY <1>3
<1>5. AsTurn(t)
  BY <1>3, <1>4, EmptyListed DEF AsTurn
<1>6. TurnFits(t)
  <2>1. Len(t.results) = 0
    BY <1>4, EmptyListed
  <2>2. QED
    BY <2>1 DEF TurnFits
<1>7. QED
  BY <1>2, <1>4, <1>5, <1>6

(* The open turn in an action. *)
LEMMA CurrentFits ==
    ASSUME Inv, phase # "idle"
    PROVE  /\ Len(turns) \in Nat /\ Len(turns) \in 1..Len(turns)
           /\ AsTurn(Current) /\ Current.results = <<>>
<1>1. Len(turns) \in Nat /\ Len(turns) > 0 /\ Current.results = <<>>
  BY ListedFacts DEF Inv, TurnsInv, RoundInv
<1>2. AsTurn(Current)
  BY <1>1 DEF Inv, TurnsInv, Current
<1>3. QED
  BY <1>1, <1>2

LEMMA AnsweredFits ==
    ASSUME Inv, phase # "idle"
    PROVE  AsTurn(Answered) /\ Answered.calls = Current.calls /\ Answered.results = <<>>
<1>1. CASE text = ""
  BY <1>1, CurrentFits DEF Answered
<1>2. CASE text # ""
  <2>1. Answered = [Current EXCEPT !.response = text]
    BY <1>2 DEF Answered
  <2>2. QED
    BY <2>1, CurrentFits, Responded
<1>3. QED
  BY <1>1, <1>2

LEMMA RecordedFits ==
    ASSUME Inv, phase # "idle"
    PROVE  /\ AsTurn(Recorded) /\ Recorded.results = <<>>
           /\ calls # <<>> => Recorded.calls = calls
<1>1. CASE calls = <<>>
  BY <1>1, AnsweredFits DEF Recorded
<1>2. CASE calls # <<>>
  <2>1. Recorded = WithCalls(Answered, calls, text)
    BY <1>2 DEF Recorded, WithCalls
  <2>2. Listed(calls)
    BY DEF Inv, RoundInv
  <2>3. AsTurn(Answered) /\ Answered.results = <<>>
    BY AnsweredFits
  <2>4. AsTurn(Recorded) /\ Recorded.calls = calls /\ Recorded.results = Answered.results
    BY <2>1, <2>2, <2>3, Called
  <2>5. QED
    BY <2>3, <2>4
<1>3. QED
  BY <1>1, <1>2

LEMMA ReplaceTurn ==
    ASSUME Inv, phase # "idle", NEW turn, AsTurn(turn), turns' = OnCurrent(turn)
    PROVE  /\ TurnsInv' /\ Len(turns') = Len(turns) /\ Current' = turn
           /\ \A t \in 1..Len(turns) : turns'[t] = IF t = Len(turns) THEN turn ELSE turns[t]
<1>1. Listed(turns) /\ \A t \in 1..Len(turns) : AsTurn(turns[t])
  BY DEF Inv, TurnsInv
<1>2. Len(turns) \in 1..Len(turns)
  BY CurrentFits
<1>3. /\ Listed(turns') /\ Len(turns') = Len(turns)
      /\ \A t \in 1..Len(turns) : turns'[t] = IF t = Len(turns) THEN turn ELSE turns[t]
  <2>1. PICK new : new = OnCurrent(turn)
    OBVIOUS
  <2>2. new = Replaced(turns, Len(turns), turn)
    BY <2>1 DEF OnCurrent, Replaced
  <2>3. /\ Listed(new) /\ Len(new) = Len(turns)
        /\ \A t \in 1..Len(turns) : new[t] = IF t = Len(turns) THEN turn ELSE turns[t]
    <3>1. Listed(turns)
      BY <1>1
    <3>2. QED
      BY <2>2, <3>1, ReplaceListed
  <2>4. QED
    BY <2>1, <2>3
<1>4. \A t \in 1..Len(turns) : AsTurn(turns'[t])
  BY <1>1, <1>3
<1>5. TurnsInv'
  BY <1>3, <1>4 DEF TurnsInv
<1>6. Current' = turn
  BY <1>2, <1>3 DEF Current
<1>7. QED
  BY <1>3, <1>5, <1>6

LEMMA AddTurn ==
    ASSUME NEW old, Listed(old), \A t \in 1..Len(old) : AsTurn(old[t]),
           NEW turn, AsTurn(turn), turns' = Append(old, turn)
    PROVE  /\ TurnsInv' /\ Len(turns') = Len(old) + 1 /\ Len(turns') > 0 /\ Current' = turn
           /\ \A t \in 1..(Len(old) + 1) : turns'[t] = IF t <= Len(old) THEN old[t] ELSE turn
<1>1. Len(old) \in Nat
  BY ListedFacts
<1>2. /\ Listed(turns') /\ Len(turns') = Len(old) + 1
      /\ \A t \in 1..(Len(old) + 1) : turns'[t] = IF t <= Len(old) THEN old[t] ELSE turn
  BY AppendListed
<1>3. ASSUME NEW t \in 1..(Len(old) + 1) PROVE AsTurn(turns'[t])
  <2>1. CASE t <= Len(old)
    <3>1. t \in 1..Len(old)
      BY <1>1, <2>1
    <3>2. QED
      BY <1>2, <2>1, <3>1
  <2>2. CASE ~(t <= Len(old))
    BY <1>2, <2>2
  <2>3. QED
    BY <2>1, <2>2
<1>4. TurnsInv'
  BY <1>2, <1>3 DEF TurnsInv
<1>5. Len(turns') > 0 /\ Len(old) + 1 \in 1..(Len(old) + 1) /\ ~(Len(old) + 1 <= Len(old))
  BY <1>1, <1>2
<1>6. Current' = turn
  BY <1>2, <1>5 DEF Current
<1>7. QED
  BY <1>2, <1>4, <1>5, <1>6
-----------------------------------------------------------------------------
(* Inv is inductive. *)

LEMMA InitInv == Init => Inv
<1> SUFFICES ASSUME Init PROVE Inv
  OBVIOUS
<1>1. /\ turns = <<>> /\ calls = <<>> /\ results = <<>> /\ heard = <<>> /\ request = <<>>
      /\ phase = "idle" /\ Len(Lines) = 0
  <2>1. answer.lines = <<>>
    BY DEF Init
  <2>2. QED
    BY <2>1, EmptyListed DEF Init, Lines
<1>2. TurnsInv
  BY <1>1, EmptyListed DEF TurnsInv
<1>3. RoundInv
  BY <1>1, EmptyListed DEF RoundInv
<1>4. RequestInv
  BY <1>1, EmptyListed DEF RequestInv, AssistantAfterUser
<1>5. QED
  BY <1>2, <1>3, <1>4 DEF Inv

LEMMA TurnsKept ==
    ASSUME TurnsInv, UNCHANGED turns
    PROVE  TurnsInv' /\ Current' = Current /\ Len(turns') = Len(turns)
BY DEF TurnsInv, Current

LEMMA RequestKept ==
    ASSUME RequestInv, UNCHANGED request
    PROVE  RequestInv'
BY DEF RequestInv, AssistantAfterUser

(* A step within a round leaves the turns alone. *)
LEMMA WithinRound ==
    ASSUME Inv, UNCHANGED <<phase, turns, request, answer>>,
           Listed(calls'), Listed(results'), Listed(heard')
    PROVE  Inv'
<1>1. TurnsInv' /\ Current' = Current /\ Len(turns') = Len(turns) /\ RequestInv'
  BY TurnsKept, RequestKept DEF Inv
<1>2. RoundInv'
  BY <1>1 DEF Inv, RoundInv, Lines
<1>3. QED
  BY <1>1, <1>2 DEF Inv

(* A step that ends a round changes the open turn, or adds one. *)
LEMMA RoundOver ==
    ASSUME Inv, UNCHANGED <<calls, results, heard, request, answer>>, TurnsInv',
           phase' # "idle" => Len(turns') > 0 /\ Current'.results = <<>>
    PROVE  Inv'
<1>1. RequestInv'
  BY RequestKept DEF Inv
<1>2. RoundInv'
  BY DEF Inv, RoundInv, Lines
<1>3. QED
  BY <1>1, <1>2 DEF Inv

LEMMA HearCallInv ==
    ASSUME Inv, HearCall
    PROVE  Inv'
<1>1. /\ UNCHANGED <<phase, turns, request, answer>>
      /\ results' = results \/ results' = Append(results, Result(Head(events)))
      /\ calls' = calls \/ calls' = Append(calls, Record(Head(events)))
      /\ heard' = Append(heard, Head(events))
  BY DEF HearCall
<1>2. Listed(calls) /\ Listed(results) /\ Listed(heard)
  BY DEF Inv, RoundInv
<1>3. Listed(calls') /\ Listed(results') /\ Listed(heard')
  BY <1>1, <1>2, AppendListed
<1>4. QED
  BY <1>1, <1>3, WithinRound

LEMMA HearStrayInv ==
    ASSUME Inv, HearStray
    PROVE  Inv'
<1>1. /\ UNCHANGED <<phase, turns, request, answer, calls, results>>
      /\ heard' = Append(heard, Head(events))
  BY DEF HearStray
<1>2. Listed(calls) /\ Listed(results) /\ Listed(heard)
  BY DEF Inv, RoundInv
<1>3. Listed(calls') /\ Listed(results') /\ Listed(heard')
  BY <1>1, <1>2, AppendListed
<1>4. QED
  BY <1>1, <1>3, WithinRound

LEMMA QuietInv ==
    ASSUME Inv, Chunk \/ HearText \/ HearFinish
    PROVE  Inv'
<1>1. UNCHANGED <<phase, turns, request, answer, calls, results, heard>>
  BY DEF Chunk, HearText, HearFinish
<1>2. Listed(calls) /\ Listed(results) /\ Listed(heard)
  BY DEF Inv, RoundInv
<1>3. QED
  BY <1>1, <1>2, WithinRound

LEMMA AskInv ==
    ASSUME Inv, Ask
    PROVE  Inv'
<1>1. /\ phase = "asking" /\ UNCHANGED turns /\ request' = Messages
      /\ calls' = <<>> /\ results' = <<>> /\ heard' = <<>>
  BY DEF Ask
<1>2. Len(Lines') \in Nat
  <2>1. PICK p \in Providers : \E a \in Answers[p] : answer' = a
    BY DEF Ask
  <2>2. PICK a \in Answers[p] : answer' = a
    BY <2>1
  <2>3. Len(a.lines) \in Nat
    <3>1. IsSequence(a.lines)
      BY AnswersAssumption
    <3>2. QED
      BY <3>1, LenProperties DEF IsSequence
  <2>4. QED
    BY <2>2, <2>3 DEF Lines
<1>3. ListedResults
  BY DEF Inv, TurnsInv, AsTurn, ListedResults
<1>4. Listed(Messages) /\ AssistantAfterUser(Messages)
  BY <1>3, MessagesPlaced, MessagesAfterUser
<1>5. RequestInv'
  BY <1>1, <1>4 DEF RequestInv, AssistantAfterUser
<1>6. TurnsInv' /\ Current' = Current /\ Len(turns') = Len(turns)
  BY <1>1, TurnsKept DEF Inv
<1>7. RoundInv'
  BY <1>1, <1>2, <1>6, EmptyListed DEF Inv, RoundInv
<1>8. QED
  BY <1>5, <1>6, <1>7 DEF Inv

LEMMA StartRunInv ==
    ASSUME Inv, StartRun
    PROVE  Inv'
<1>1. turns' = Append(turns, NewTurn("given"))
      /\ UNCHANGED <<calls, results, heard, request, answer>>
  BY DEF StartRun, roundVars
<1>2. Listed(turns) /\ \A t \in 1..Len(turns) : AsTurn(turns[t])
  BY DEF Inv, TurnsInv
<1>3. TurnsInv' /\ Len(turns') > 0 /\ Current' = NewTurn("given")
  BY <1>1, <1>2, NewTurnFits, AddTurn
<1>4. Current'.results = <<>>
  BY <1>3, NewTurnFits
<1>5. QED
  BY <1>1, <1>3, <1>4, RoundOver

(* The run returns with an error. *)
LEMMA FailureInv ==
    ASSUME Inv, StreamError \/ CallFails
    PROVE  Inv'
<1>1. phase # "idle" /\ phase' = "idle" /\ UNCHANGED <<calls, results, heard, request, answer>>
  BY DEF StreamError, CallFails, RunEnds
<1>2. PICK failed : failed = [Current EXCEPT !.response = "error"]
  OBVIOUS
<1>3. AsTurn(failed) /\ AsTurn(Answered)
  BY <1>1, <1>2, CurrentFits, AnsweredFits, Responded
<1>4. turns' = OnCurrent(failed) \/ turns' = OnCurrent(Answered)
  BY <1>2 DEF StreamError, CallFails
<1>5. TurnsInv'
  BY <1>1, <1>3, <1>4, ReplaceTurn
<1>6. QED
  BY <1>1, <1>5, RoundOver

LEMMA RetryEmptyInv ==
    ASSUME Inv, RetryEmpty
    PROVE  Inv'
<1>1. /\ phase # "idle" /\ UNCHANGED <<calls, results, heard, request, answer>>
      /\ turns' = OnCurrent(Recorded)
  BY DEF RetryEmpty, Drained, RoundEnds, roundVars
<1>2. TurnsInv' /\ Len(turns') = Len(turns) /\ Current' = Recorded
  BY <1>1, RecordedFits, ReplaceTurn
<1>3. Len(turns') > 0 /\ Current'.results = <<>>
  BY <1>1, <1>2, RecordedFits DEF Inv, RoundInv
<1>4. QED
  BY <1>1, <1>2, <1>3, RoundOver

LEMMA EndRunInv ==
    ASSUME Inv, EndRun
    PROVE  Inv'
<1>1. /\ phase # "idle" /\ phase' = "idle"
      /\ UNCHANGED <<calls, results, heard, request, answer>>
  BY DEF EndRun, Drained, RoundEnds, roundVars
<1>2. PICK marked : marked = [Recorded EXCEPT !.response = "marker"]
  OBVIOUS
<1>3. AsTurn(Recorded) /\ AsTurn(marked)
  BY <1>1, <1>2, RecordedFits, Responded
<1>4. turns' = OnCurrent(Recorded) \/ turns' = OnCurrent(marked)
  BY <1>2 DEF EndRun
<1>5. TurnsInv'
  BY <1>1, <1>3, <1>4, ReplaceTurn
<1>6. QED
  BY <1>1, <1>5, RoundOver

(* The results of the round, each with the id of its call. *)
MatchedResults == [i \in DOMAIN results |-> [results[i] EXCEPT !.id = CallId(results[i].name)]]

LEMMA MatchedListed ==
    ASSUME Inv
    PROVE  Listed(MatchedResults) /\ Len(MatchedResults) = Len(results)
<1>1. Len(results) \in Nat /\ DOMAIN results = 1..Len(results)
  BY ListedFacts DEF Inv, RoundInv
<1>2. PICK m : m = MatchedResults
  OBVIOUS
<1>3. m = [i \in 1..Len(results) |-> m[i]]
  BY <1>1, <1>2 DEF MatchedResults
<1>4. Listed(m) /\ Len(m) = Len(results)
  BY <1>1, <1>3, FunctionListed
<1>5. QED
  BY <1>2, <1>4

LEMMA NextRoundTurns ==
    ASSUME Inv, NextRound, NEW made, made = [Recorded EXCEPT !.results = MatchedResults]
    PROVE  /\ AsTurn(made) /\ made.calls = Recorded.calls /\ made.results = MatchedResults
           /\ TurnsInv' /\ Len(turns') = Len(turns) + 1 /\ Len(turns') > 0
           /\ Current' = NewTurn("")
           /\ \A t \in 1..(Len(turns) + 1) :
                 \/ t \in 1..(Len(turns) - 1) /\ turns'[t] = turns[t]
                 \/ turns'[t] = made
                 \/ turns'[t] = NewTurn("")
<1>1. phase # "idle"
  BY DEF NextRound, Drained
<1>2. turns' = NextTurn(Recorded, MatchedResults)
  BY DEF NextRound, MatchedResults
<1>3. AsTurn(made) /\ made.calls = Recorded.calls /\ made.results = MatchedResults
  BY <1>1, RecordedFits, MatchedListed, GivenResults
<1>4. PICK old : old = Replaced(turns, Len(turns), made)
  OBVIOUS
<1>5. turns' = Append(old, NewTurn(""))
  BY <1>2, <1>4 DEF NextTurn, OnCurrent, Replaced
<1>6. /\ Listed(old) /\ Len(old) = Len(turns) /\ Len(turns) \in Nat
      /\ \A t \in 1..Len(turns) : old[t] = IF t = Len(turns) THEN made ELSE turns[t]
  <2>1. Listed(turns)
    BY DEF Inv, TurnsInv
  <2>2. QED
    BY <1>4, <2>1, ReplaceListed, ListedFacts
<1>7. \A t \in 1..Len(old) : AsTurn(old[t])
  BY <1>3, <1>6 DEF Inv, TurnsInv
<1>8. /\ TurnsInv' /\ Len(turns') = Len(old) + 1 /\ Len(turns') > 0 /\ Current' = NewTurn("")
      /\ \A t \in 1..(Len(old) + 1) : turns'[t] = IF t <= Len(old) THEN old[t] ELSE NewTurn("")
  BY <1>5, <1>6, <1>7, NewTurnFits, AddTurn
<1>9. ASSUME NEW t \in 1..(Len(turns) + 1)
      PROVE  \/ t \in 1..(Len(turns) - 1) /\ turns'[t] = turns[t]
             \/ turns'[t] = made
             \/ turns'[t] = NewTurn("")
  <2>1. CASE t <= Len(turns) - 1
    <3>1. t \in 1..(Len(turns) - 1) /\ t \in 1..Len(turns) /\ t # Len(turns) /\ t <= Len(old)
      BY <1>6, <2>1
    <3>2. turns'[t] = turns[t]
      BY <1>6, <1>8, <3>1
    <3>3. QED
      BY <3>1, <3>2
  <2>2. CASE t = Len(turns)
    <3>1. t \in 1..Len(turns) /\ t <= Len(old)
      BY <1>6, <2>2
    <3>2. turns'[t] = made
      BY <1>6, <1>8, <2>2, <3>1
    <3>3. QED
      BY <3>2
  <2>3. CASE t = Len(turns) + 1
    <3>1. ~(t <= Len(old)) /\ t \in 1..(Len(old) + 1)
      BY <1>6, <2>3
    <3>2. QED
      BY <1>8, <3>1
  <2>4. Len(turns) \in Nat
    BY <1>6
  <2>5. t <= Len(turns) - 1 \/ t = Len(turns) \/ t = Len(turns) + 1
    BY <2>4
  <2>6. QED
    BY <2>1, <2>2, <2>3, <2>5
<1>10. QED
  BY <1>3, <1>6, <1>8, <1>9

LEMMA NextRoundInv ==
    ASSUME Inv, NextRound
    PROVE  Inv'
<1>1. UNCHANGED <<calls, results, heard, request, answer>>
  BY DEF NextRound, RoundEnds, roundVars
<1>2. PICK made : made = [Recorded EXCEPT !.results = MatchedResults]
  OBVIOUS
<1>3. TurnsInv' /\ Len(turns') > 0 /\ Current' = NewTurn("")
  BY <1>2, NextRoundTurns
<1>4. Current'.results = <<>>
  BY <1>3, NewTurnFits
<1>5. QED
  BY <1>1, <1>3, <1>4, RoundOver

LEMMA StepInv == Inv /\ [Next]_vars => Inv'
<1> SUFFICES ASSUME Inv, [Next]_vars PROVE Inv'
  OBVIOUS
<1>1. CASE StartRun
  BY <1>1, StartRunInv
<1>2. CASE Ask
  BY <1>2, AskInv
<1>3. CASE Chunk \/ HearText \/ HearFinish
  BY <1>3, QuietInv
<1>4. CASE StreamError \/ CallFails
  BY <1>4, FailureInv
<1>5. CASE HearStray
  BY <1>5, HearStrayInv
<1>6. CASE HearCall
  BY <1>6, HearCallInv
<1>7. CASE RetryEmpty
  BY <1>7, RetryEmptyInv
<1>8. CASE EndRun
  BY <1>8, EndRunInv
<1>9. CASE NextRound
  BY <1>9, NextRoundInv
<1>10. CASE UNCHANGED vars
  <2>1. UNCHANGED <<phase, turns, request, answer, calls, results, heard>>
    BY <1>10 DEF vars
  <2>2. Listed(calls) /\ Listed(results) /\ Listed(heard)
    BY DEF Inv, RoundInv
  <2>3. QED
    BY <2>1, <2>2, WithinRound
<1>11. QED
  BY <1>1, <1>2, <1>3, <1>4, <1>5, <1>6, <1>7, <1>8, <1>9, <1>10 DEF Next

(* Gemini is told user and model in turn (gemini.rs, gemini_contents), for  *)
(* whatever the providers answer and the calls come to.                    *)
THEOREM GeminiInTurn == Spec => []RolesAlternate
<1>1. Inv => RolesAlternate
  <2> SUFFICES ASSUME Inv PROVE RolesAlternate
    OBVIOUS
  <2>1. Alternate(Gemini(request))
    BY GeminiAlternates DEF Inv, RequestInv, Listed
  <2>2. QED
    BY <2>1 DEF Alternate, RolesAlternate
<1>2. QED
  BY <1>1, InitInv, StepInv, PTL DEF Spec
-----------------------------------------------------------------------------
(* Results and their calls: the request. *)

(* A result stands in its block, after the calls of its turn. *)
LEMMA ResultAt ==
    ASSUME ListedResults, NEW k \in 1..Len(Messages), Messages[k].role = "tool"
    PROVE  \E t \in 1..Len(turns) : \E n \in 1..Len(turns[t].results) :
               /\ n \in Nat /\ k - n \in 1..Len(Messages) /\ Messages[k - n] = Assistant(t)
               /\ \A m \in 1..n :
                     /\ m \in DOMAIN turns[t].results
                     /\ Messages[k - n + m] = Results(t)[m]
<1>1. Len(Messages) \in Nat
  BY MessagesPlaced, ListedFacts
<1>2. PICK t \in 1..Len(turns) : \E b \in 1..Len(Blocks[t]) : From(Blocks, Messages, k, t, b)
  BY <1>1, MessagesPlaced DEF Placed
<1>3. PICK b \in 1..Len(Blocks[t]) : From(Blocks, Messages, k, t, b)
  BY <1>2
<1> DEFINE l == Len(turns[t].results)
<1>4. Blocks[t] = Block(t) /\ Listed(turns[t].results) /\ DOMAIN turns[t].results = 1..l /\ l \in Nat
  BY ListedFacts DEF Blocks, ListedResults
<1> HIDE DEF l
<1>5. /\ Len(Block(t)) = l + 2 /\ Block(t)[1].role = "user" /\ Block(t)[2] = Assistant(t)
      /\ \A i \in 3..(l + 2) : Block(t)[i] = Results(t)[i - 2]
  BY <1>4, BlockFits DEF l
<1>6. \A m \in 1..(l + 2) : k - b + m \in 1..Len(Messages) /\ Messages[k - b + m] = Block(t)[m]
  BY <1>3, <1>4, <1>5 DEF From
<1>7. b \in 1..(l + 2) /\ b \in Nat /\ k \in Nat
  BY <1>1, <1>3, <1>4, <1>5
<1>8. Messages[k] = Block(t)[b]
  <2>1. k - b + b = k
    BY <1>7
  <2>2. QED
    BY <1>6, <1>7, <2>1
<1>9. b # 1
  BY <1>5, <1>8
<1>10. b # 2
  BY <1>5, <1>8, AssistantFields
<1> DEFINE n == b - 2
<1>11. n \in 1..l /\ n \in Nat /\ 2 \in 1..(l + 2)
  BY <1>4, <1>7, <1>9, <1>10
<1>12. k - n \in 1..Len(Messages) /\ Messages[k - n] = Assistant(t)
  <2>1. k - b + 2 = k - n
    BY <1>7
  <2>2. QED
    BY <1>5, <1>6, <1>11, <2>1
<1>13. ASSUME NEW m \in 1..n
       PROVE  m \in DOMAIN turns[t].results /\ Messages[k - n + m] = Results(t)[m]
  <2>1. m + 2 \in 3..(l + 2) /\ m + 2 \in 1..(l + 2) /\ (m + 2) - 2 = m /\ m \in 1..l
    BY <1>4, <1>11
  <2>2. k - b + (m + 2) = k - n + m
    BY <1>7, <2>1
  <2>3. Messages[k - n + m] = Block(t)[m + 2]
    BY <1>6, <2>1, <2>2
  <2>4. Block(t)[m + 2] = Results(t)[m]
    BY <1>5, <2>1
  <2>5. QED
    BY <1>4, <2>1, <2>3, <2>4
<1> HIDE DEF n
<1>14. QED
  BY <1>11, <1>12, <1>13 DEF l

(* What OpenAI is sent for a message. *)
LEMMA SentMessage ==
    ASSUME NEW messages, Listed(messages), NEW i \in 1..Len(messages),
           messages[i].role = "tool" => "role" \in DOMAIN messages[i]
    PROVE  /\ i \in DOMAIN messages
           /\ OpenAI(messages)[i].role = "tool" =>
                messages[i].role = "tool" /\ messages[i].id # NoId
           /\ messages[i].role # "tool" \/ messages[i].id # NoId =>
                OpenAI(messages)[i] = messages[i]
<1>1. i \in DOMAIN messages
  BY ListedFacts
<1> DEFINE m == messages[i]
<1>2. OpenAI(messages)[i] = IF m.role = "tool" /\ m.id = NoId THEN [m EXCEPT !.role = "user"] ELSE m
  BY <1>1 DEF OpenAI
<1> HIDE DEF m
<1>3. CASE m.role = "tool" /\ m.id = NoId
  <2>1. PICK sm : sm = OpenAI(messages)[i]
    OBVIOUS
  <2>2. sm = [m EXCEPT !.role = "user"]
    BY <1>2, <1>3, <2>1
  <2>3. "role" \in DOMAIN m
    BY <1>3 DEF m
  <2>4. sm.role = "user"
    BY <2>2, <2>3
  <2>5. QED
    BY <1>1, <1>3, <2>1, <2>4 DEF m
<1>4. CASE ~(m.role = "tool" /\ m.id = NoId)
  BY <1>1, <1>2, <1>4 DEF m
<1>5. QED
  BY <1>3, <1>4

LEMMA MessagesFit ==
    ASSUME ListedResults, \A t \in 1..Len(turns) : TurnFits(turns[t]),
           \A t \in 1..Len(turns) : Listed(turns[t].calls),
           NEW messages, messages = Messages,
           NEW k \in 1..Len(messages), OpenAI(messages)[k].role = "tool"
    PROVE  FindsItsCall(OpenAI(messages), k)
<1>1. Listed(messages) /\ Len(messages) \in Nat
  BY MessagesPlaced, ListedFacts
<1>2. ASSUME NEW j \in 1..Len(messages), messages[j].role = "tool"
      PROVE  "role" \in DOMAIN messages[j]
  <2>1. PICK t \in 1..Len(turns) : \E n \in 1..Len(turns[t].results) :
               /\ n \in Nat
               /\ \A m \in 1..n :
                     /\ m \in DOMAIN turns[t].results
                     /\ messages[j - n + m] = Results(t)[m]
    BY <1>2, ResultAt
  <2>2. PICK n \in 1..Len(turns[t].results) :
               /\ n \in Nat
               /\ \A m \in 1..n :
                     /\ m \in DOMAIN turns[t].results
                     /\ messages[j - n + m] = Results(t)[m]
    BY <2>1
  <2>3. n \in 1..n /\ j - n + n = j
    BY <1>1, <2>2
  <2>4. n \in DOMAIN turns[t].results /\ messages[j] = Results(t)[n]
    BY <2>2, <2>3
  <2>5. QED
    BY <2>4, ResultFields
<1> DEFINE sm == OpenAI(messages)
<1>3. ASSUME NEW j \in 1..Len(messages)
      PROVE  /\ sm[j].role = "tool" => messages[j].role = "tool" /\ messages[j].id # NoId
             /\ messages[j].role # "tool" \/ messages[j].id # NoId => sm[j] = messages[j]
  BY <1>1, <1>2, SentMessage
<1> HIDE DEF sm
<1>4. messages[k].role = "tool" /\ messages[k].id # NoId /\ sm[k] = messages[k]
  BY <1>3 DEF sm
<1>5. PICK t \in 1..Len(turns) : \E n \in 1..Len(turns[t].results) :
               /\ n \in Nat /\ k - n \in 1..Len(messages) /\ messages[k - n] = Assistant(t)
               /\ \A m \in 1..n :
                     /\ m \in DOMAIN turns[t].results
                     /\ messages[k - n + m] = Results(t)[m]
  BY <1>4, ResultAt
<1>6. PICK n \in 1..Len(turns[t].results) :
               /\ n \in Nat /\ k - n \in 1..Len(messages) /\ messages[k - n] = Assistant(t)
               /\ \A m \in 1..n :
                     /\ m \in DOMAIN turns[t].results
                     /\ messages[k - n + m] = Results(t)[m]
  BY <1>5
<1>7. Len(turns[t].results) \in Nat /\ n >= 1 /\ n \in 1..n /\ k - n + n = k /\ k \in Nat
  <2>1. Len(turns[t].results) \in Nat
    BY ListedFacts DEF ListedResults
  <2>2. QED
    BY <1>1, <1>6, <2>1
<1>8. messages[k] = Results(t)[n] /\ n \in DOMAIN turns[t].results
  BY <1>6, <1>7
<1>9. /\ messages[k].id = turns[t].results[n].id
      /\ messages[k].of = turns[t].results[n].of
  BY <1>8, ResultFields
<1>10. /\ messages[k].id = messages[k].of
       /\ \E c \in 1..Len(turns[t].calls) : turns[t].calls[c].id = messages[k].id
       /\ \A m \in 1..(n - 1) : turns[t].results[m].id # NoId
  BY <1>4, <1>9 DEF TurnFits
<1>11. sm[k - n].role = "assistant" /\ sm[k - n].calls = Assistant(t).calls
  <2>1. messages[k - n].role # "tool"
    BY <1>6, AssistantFields
  <2>2. sm[k - n] = messages[k - n]
    BY <1>3, <1>6, <2>1
  <2>3. QED
    BY <1>6, <2>2, AssistantFields
<1>12. ASSUME NEW j \in ((k - n) + 1)..k PROVE sm[j].role = "tool"
  <2> DEFINE m == j - (k - n)
  <2>1. m \in 1..n /\ k - n + m = j /\ j \in 1..Len(messages)
    <3>1. n \in Nat /\ k \in Nat /\ Len(messages) \in Nat /\ k - n >= 1 /\ k <= Len(messages)
      BY <1>1, <1>6, <1>7
    <3>2. j \in Int /\ j >= (k - n) + 1 /\ j <= k
      BY <3>1
    <3>3. QED
      BY <3>1, <3>2
  <2>2. CASE j = k
    BY <1>4, <2>2
  <2>3. CASE j # k
    <3>1. m \in 1..(n - 1)
      BY <1>6, <1>7, <2>1, <2>3
    <3> HIDE DEF m
    <3>2. messages[j] = Results(t)[m] /\ m \in DOMAIN turns[t].results
      BY <1>6, <2>1
    <3>3. messages[j].role = "tool" /\ messages[j].id # NoId
      BY <1>10, <3>1, <3>2, ResultFields
    <3>4. QED
      BY <1>3, <2>1, <3>3
  <2>4. QED
    BY <2>2, <2>3
<1>13. k - n \in 1..(k - 1)
  BY <1>1, <1>6, <1>7
<1>14. k - n \in CallerOf(sm, k)
  BY <1>11, <1>12, <1>13 DEF CallerOf
<1>15. messages[k].id \in S!Range(Assistant(t).calls)
  <2>1. PICK c \in 1..Len(turns[t].calls) : turns[t].calls[c].id = messages[k].id
    BY <1>10
  <2>2. c \in DOMAIN turns[t].calls
    BY ListedFacts
  <2>3. IdOf(t, c, turns[t].calls[c]) = messages[k].id
    BY <1>4, <2>1 DEF IdOf
  <2>4. Assistant(t).calls = [i \in DOMAIN turns[t].calls |-> IdOf(t, i, turns[t].calls[i])]
    BY AssistantFields
  <2>5. c \in DOMAIN Assistant(t).calls /\ Assistant(t).calls[c] = messages[k].id
    BY <2>2, <2>3, <2>4
  <2>6. QED
    BY <2>5 DEF S!Range
<1>16. FindsItsCall(sm, k)
  BY <1>4, <1>10, <1>11, <1>14, <1>15 DEF FindsItsCall
<1>17. QED
  BY <1>16 DEF sm
-----------------------------------------------------------------------------
(* Results and their calls: the round. *)

LEMMA ResultsKept ==
    ASSUME ResultsInv, UNCHANGED <<calls, results, heard>>,
           events = <<>> /\ sent = Units + 1 => events' = <<>> /\ sent' = Units' + 1
    PROVE  ResultsInv'
<1>1. ASSUME NEW i, NEW h PROVE Made(i, h)' <=> Made(i, h)
  BY DEF Made
<1>2. ASSUME NEW c, NEW h PROVE RecordedAs(c, h)' <=> RecordedAs(c, h)
  BY DEF RecordedAs
<1>3. \A i \in 1..Len(results') :
          /\ results'[i] = [id |-> NoId, name |-> results'[i].name, of |-> results'[i].of]
          /\ \E h \in 1..Len(heard') : Made(i, h)'
          /\ \/ \E c \in 1..Len(calls') : calls'[c].name = results'[i].name
             \/ i = Len(results') /\ events' = <<>> /\ sent' = Units' + 1
  BY <1>1 DEF ResultsInv
<1>4. \A c \in 1..Len(calls') : \E h \in 1..Len(heard') : RecordedAs(c, h)'
  BY <1>2 DEF ResultsInv
<1>5. \A i, j \in 1..Len(results') : i < j =>
          \E g, h \in 1..Len(heard') : g < h /\ Made(i, g)' /\ Made(j, h)'
  BY <1>1 DEF ResultsInv
<1>6. QED
  BY <1>3, <1>4, <1>5 DEF ResultsInv

(* What was in a list stays where it is when one more is added. *)
LEMMA Longer ==
    ASSUME NEW s, Listed(s), NEW e, NEW new, new = Append(s, e)
    PROVE  /\ Len(s) \in Nat /\ Len(new) = Len(s) + 1 /\ Len(new) \in 1..Len(new)
           /\ new[Len(new)] = e
           /\ \A i \in 1..Len(s) : i \in 1..Len(new) /\ new[i] = s[i] /\ i < Len(new)
           /\ \A i \in 1..Len(new) : i \in 1..Len(s) \/ i = Len(new)
<1>1. /\ Len(s) \in Nat /\ Len(new) = Len(s) + 1
      /\ \A i \in 1..(Len(s) + 1) : new[i] = IF i <= Len(s) THEN s[i] ELSE e
  BY AppendListed, ListedFacts
<1> DEFINE l == Len(s)
<1>2. l \in Nat /\ l + 1 \in 1..(l + 1) /\ ~(l + 1 <= l)
  BY <1>1
<1>3. ASSUME NEW i \in 1..l PROVE i \in 1..(l + 1) /\ i <= l /\ i < l + 1
  BY <1>2
<1>4. ASSUME NEW i \in 1..(l + 1) PROVE i \in 1..l \/ i = l + 1
  BY <1>2
<1> HIDE DEF l
<1>5. Len(new) = l + 1 /\ \A i \in 1..(l + 1) : new[i] = IF i <= l THEN s[i] ELSE e
  BY <1>1 DEF l
<1>6. new[l + 1] = e
  BY <1>2, <1>5
<1>7. \A i \in 1..l : new[i] = s[i]
  BY <1>3, <1>5
<1>8. QED
  BY <1>2, <1>3, <1>4, <1>5, <1>6, <1>7 DEF l

(* One more call is heard: a stray one, or one that is acted on. *)
LEMMA HeardMore ==
    ASSUME Inv, ResultsInv, events # <<>>, NEW e, heard' = Append(heard, e),
           results' = results \/ results' = Append(results, Result(e)),
           calls' = calls \/ calls' = Append(calls, Record(e)),
           Routed(e.name) \/ (results' = results /\ calls' = calls),
           \/ results' = results
           \/ calls' = Append(calls, Record(e))
           \/ events' = <<>> /\ sent' = Units' + 1
    PROVE  ResultsInv'
<1>0. Listed(calls) /\ Listed(results) /\ Listed(heard)
  BY DEF Inv, RoundInv
<1>a. PICK l : l = Len(heard')
  OBVIOUS
<1>1. /\ l \in 1..l /\ heard'[l] = e
      /\ \A h \in 1..Len(heard) : h \in 1..l /\ heard'[h] = heard[h] /\ h < l
  BY <1>0, <1>a, Longer
<1>2. /\ Result(e).name = e.name /\ Result(e).of = e.id
      /\ Result(e) = [id |-> NoId, name |-> Result(e).name, of |-> Result(e).of]
      /\ Record(e).name = e.name /\ Record(e).id = e.id
  BY DEF Result, Record
<1>3. ASSUME NEW i \in 1..Len(results) PROVE i \in 1..Len(results') /\ results'[i] = results[i]
  BY <1>0, Longer
<1>4. ASSUME NEW i \in 1..Len(results')
      PROVE  \/ i \in 1..Len(results)
             \/ /\ i = Len(results') /\ results'[i] = Result(e) /\ results' # results
                /\ Routed(e.name)
  <2>1. CASE results' = results
    BY <2>1
  <2>2. CASE results' # results
    BY <1>0, <2>2, Longer
  <2>3. QED
    BY <2>1, <2>2
<1>5. ASSUME NEW c \in 1..Len(calls) PROVE c \in 1..Len(calls') /\ calls'[c] = calls[c]
  BY <1>0, Longer
<1>6. ASSUME NEW c \in 1..Len(calls')
      PROVE  c \in 1..Len(calls) \/ (calls'[c] = Record(e) /\ Routed(e.name))
  <2>1. CASE calls' = calls
    <3>1. c \in 1..Len(calls)
      BY <2>1
    <3>2. QED
      BY <3>1
  <2>2. CASE calls' # calls
    BY <1>0, <2>2, Longer
  <2>3. QED
    BY <2>1, <2>2
<1>7. ASSUME NEW i \in 1..Len(results), NEW h \in 1..Len(heard), Made(i, h)
      PROVE  Made(i, h)'
  <2>1. results'[i] = results[i] /\ heard'[h] = heard[h]
    BY <1>1, <1>3
  <2>2. QED
    BY <1>7, <2>1 DEF Made
<1>8. ASSUME NEW i, results'[i] = Result(e), Routed(e.name)
      PROVE  Made(i, l)'
  BY <1>1, <1>2, <1>8 DEF Made
<1>9. ASSUME NEW i \in 1..Len(results')
      PROVE  /\ results'[i] = [id |-> NoId, name |-> results'[i].name, of |-> results'[i].of]
             /\ \E h \in 1..l : Made(i, h)'
             /\ \/ \E c \in 1..Len(calls') : calls'[c].name = results'[i].name
                \/ i = Len(results') /\ events' = <<>> /\ sent' = Units' + 1
  <2>1. CASE i \in 1..Len(results)
    <3>1. results'[i] = results[i]
      BY <1>3, <2>1
    <3>2. results[i] = [id |-> NoId, name |-> results[i].name, of |-> results[i].of]
      BY <2>1 DEF ResultsInv
    <3>3. PICK h \in 1..Len(heard) : Made(i, h)
      BY <2>1 DEF ResultsInv
    <3>4. h \in 1..l /\ Made(i, h)'
      BY <1>1, <1>7, <2>1, <3>3
    <3>5. PICK c \in 1..Len(calls) : calls[c].name = results[i].name
      BY <2>1 DEF ResultsInv
    <3>6. c \in 1..Len(calls') /\ calls'[c].name = results'[i].name
      BY <1>5, <3>1, <3>5
    <3>7. QED
      BY <3>1, <3>2, <3>4, <3>6
  <2>2. CASE i = Len(results') /\ results'[i] = Result(e) /\ results' # results /\ Routed(e.name)
    <3>1. Made(i, l)' /\ l \in 1..l
      BY <1>1, <1>8, <2>2
    <3>2. CASE calls' = Append(calls, Record(e))
      <4>1. Len(calls') \in 1..Len(calls') /\ calls'[Len(calls')] = Record(e)
        BY <1>0, <3>2, Longer
      <4>2. calls'[Len(calls')].name = results'[i].name
        BY <1>2, <2>2, <4>1
      <4>3. \E h \in 1..l : Made(i, h)'
        BY <3>1
      <4>4. QED
        BY <1>2, <2>2, <4>1, <4>2, <4>3
    <3>3. CASE events' = <<>> /\ sent' = Units' + 1
      <4>1. \E h \in 1..l : Made(i, h)'
        BY <3>1
      <4>2. QED
        BY <1>2, <2>2, <3>3, <4>1
    <3>4. QED
      BY <2>2, <3>2, <3>3
  <2>3. QED
    BY <1>4, <2>1, <2>2
<1>10. ASSUME NEW c \in 1..Len(calls') PROVE \E h \in 1..l : RecordedAs(c, h)'
  <2>1. CASE c \in 1..Len(calls)
    <3>1. PICK h \in 1..Len(heard) : RecordedAs(c, h)
      BY <2>1 DEF ResultsInv
    <3>2. h \in 1..l /\ heard'[h] = heard[h] /\ calls'[c] = calls[c]
      BY <1>1, <1>5, <2>1
    <3>3. RecordedAs(c, h)'
      BY <3>1, <3>2 DEF RecordedAs
    <3>4. QED
      BY <3>2, <3>3
  <2>2. CASE calls'[c] = Record(e) /\ Routed(e.name)
    <3>1. PICK h \in 1..l : heard'[h] = e
      BY <1>1
    <3>2. RecordedAs(c, h)'
      BY <1>2, <2>2, <3>1 DEF RecordedAs
    <3>3. QED
      BY <3>2
  <2>3. QED
    BY <1>6, <2>1, <2>2
<1>11. ASSUME NEW i \in 1..Len(results'), NEW j \in 1..Len(results'), i < j
       PROVE  \E g, h \in 1..l : g < h /\ Made(i, g)' /\ Made(j, h)'
  <2>0. i \in 1..Len(results)
    <3>1. Len(results') \in Nat
      BY <1>0, Longer
    <3>2. i # Len(results')
      BY <1>11, <3>1
    <3>3. QED
      BY <1>4, <3>2
  <2>1. CASE j \in 1..Len(results)
    <3>1. PICK g \in 1..Len(heard) : \E h \in 1..Len(heard) : g < h /\ Made(i, g) /\ Made(j, h)
      BY <1>11, <2>0, <2>1 DEF ResultsInv
    <3>2. PICK h \in 1..Len(heard) : g < h /\ Made(i, g) /\ Made(j, h)
      BY <3>1
    <3>3. Made(i, g)' /\ Made(j, h)'
      BY <1>7, <2>0, <2>1, <3>2
    <3>4. g \in 1..l /\ h \in 1..l
      BY <1>1
    <3>5. QED
      BY <3>2, <3>3, <3>4
  <2>2. CASE results'[j] = Result(e) /\ Routed(e.name)
    <3>1. PICK g \in 1..Len(heard) : Made(i, g)
      BY <2>0 DEF ResultsInv
    <3>2. g \in 1..l /\ g < l /\ l \in 1..l
      BY <1>1
    <3>3. Made(i, g)'
      BY <1>7, <2>0, <3>1
    <3>4. Made(j, l)'
      BY <1>8, <2>2
    <3>5. QED
      BY <3>2, <3>3, <3>4
  <2>3. QED
    BY <1>4, <2>1, <2>2
<1>12. QED
  BY <1>a, <1>9, <1>10, <1>11 DEF ResultsInv
-----------------------------------------------------------------------------
(* Results and their calls: the turns. *)

(* A result whose tool has a recorded call is given the id of its own; any  *)
(* other has none.                                                         *)
LEMMA CallIdFits ==
    ASSUME Inv, ResultsInv, OncePerTool, NEW i \in 1..Len(results)
    PROVE  /\ (\E c \in 1..Len(calls) : calls[c].name = results[i].name) =>
                 /\ CallId(results[i].name) = results[i].of
                 /\ \E c \in 1..Len(calls) : calls[c].id = results[i].of
           /\ CallId(results[i].name) # NoId =>
                 \E c \in 1..Len(calls) : calls[c].name = results[i].name
<1> DEFINE name == results[i].name
           same == {c \in DOMAIN calls : calls[c].name = name}
<1>1. Len(calls) \in Nat /\ DOMAIN calls = 1..Len(calls)
  BY ListedFacts DEF Inv, RoundInv
<1>2. CallId(name) = IF same = {} THEN NoId ELSE calls[S!Min(same)].id
  BY DEF CallId
<1>3. ASSUME NEW c \in 1..Len(calls), calls[c].name = name
      PROVE  calls[c].id = results[i].of
  <2>1. PICK h \in 1..Len(heard) : Made(i, h)
    BY DEF ResultsInv
  <2>2. PICK g \in 1..Len(heard) : RecordedAs(c, g)
    BY DEF ResultsInv
  <2>3. g = h
    BY <1>3, <2>1, <2>2 DEF OncePerTool, Made, RecordedAs
  <2>4. QED
    BY <2>1, <2>2, <2>3 DEF Made, RecordedAs
<1>4. ASSUME same # {}
      PROVE  S!Min(same) \in 1..Len(calls) /\ calls[S!Min(same)].name = name
  <2>1. same \in SUBSET Nat
    BY <1>1
  <2>2. \A c \in same : c \in 1..Len(calls) /\ calls[c].name = name
    BY <1>1
  <2> HIDE DEF same
  <2>3. \E x \in same : \A y \in same : x <= y
    BY <1>4, <2>1, Least
  <2>4. S!Min(same) \in same
    BY <2>3 DEF S!Min
  <2>5. QED
    BY <2>2, <2>4
<1>5. ASSUME NEW c \in 1..Len(calls), calls[c].name = name
      PROVE  CallId(name) = results[i].of
  <2>1. same # {}
    BY <1>1, <1>5
  <2> HIDE DEF same
  <2>2. QED
    BY <1>2, <1>3, <1>4, <2>1
<1>6. ASSUME CallId(name) # NoId
      PROVE  \E c \in 1..Len(calls) : calls[c].name = name
  <2>1. same # {}
    BY <1>2, <1>6
  <2>2. QED
    BY <1>1, <2>1
<1> HIDE DEF same
<1>7. QED
  BY <1>3, <1>5, <1>6

LEMMA MatchedAt ==
    ASSUME Inv, ResultsInv, NEW i \in 1..Len(results)
    PROVE  /\ MatchedResults[i].id = CallId(results[i].name)
           /\ MatchedResults[i].of = results[i].of
<1>1. i \in DOMAIN results
  BY ListedFacts DEF Inv, RoundInv
<1>2. MatchedResults[i] = [results[i] EXCEPT !.id = CallId(results[i].name)]
  BY <1>1 DEF MatchedResults
<1>3. PICK r : r = results[i]
  OBVIOUS
<1>4. r = [id |-> NoId, name |-> r.name, of |-> r.of]
  BY <1>3 DEF ResultsInv
<1>5. PICK id : id = CallId(results[i].name)
  OBVIOUS
<1>6. [r EXCEPT !.id = id] = [id |-> id, name |-> r.name, of |-> r.of]
  BY <1>4
<1>7. PICK new : new = [r EXCEPT !.id = id]
  OBVIOUS
<1>8. new.id = id /\ new.of = r.of
  BY <1>6, <1>7
<1>9. QED
  BY <1>2, <1>3, <1>5, <1>7, <1>8

LEMMA MadeFits ==
    ASSUME Inv, phase # "idle", ResultsInv, OncePerTool, IdsFirst,
           NEW made, made.calls = Recorded.calls, made.results = MatchedResults
    PROVE  TurnFits(made)
<1>1. Len(MatchedResults) = Len(results) /\ Len(results) \in Nat
  BY MatchedListed, ListedFacts DEF Inv, RoundInv
<1> SUFFICES ASSUME NEW n \in 1..Len(results), MatchedResults[n].id # NoId
             PROVE  /\ MatchedResults[n].id = MatchedResults[n].of
                    /\ \E c \in 1..Len(Recorded.calls) :
                          Recorded.calls[c].id = MatchedResults[n].id
                    /\ \A m \in 1..(n - 1) : MatchedResults[m].id # NoId
  BY <1>1 DEF TurnFits
<1>2. \E c \in 1..Len(calls) : calls[c].name = results[n].name
  BY MatchedAt, CallIdFits
<1>3. /\ MatchedResults[n].id = results[n].of /\ MatchedResults[n].of = results[n].of
      /\ \E c \in 1..Len(calls) : calls[c].id = results[n].of
  BY <1>2, MatchedAt, CallIdFits
<1>4. Recorded.calls = calls
  <2>1. calls # <<>>
    BY <1>2, EmptyListed
  <2>2. QED
    BY <2>1, RecordedFits
<1>5. ASSUME NEW m \in 1..(n - 1) PROVE MatchedResults[m].id # NoId
  <2>1. m \in 1..Len(results) /\ m < n /\ m # Len(results)
    BY <1>1
  <2>2. \E c \in 1..Len(calls) : calls[c].name = results[m].name
    BY <2>1 DEF ResultsInv
  <2>3. MatchedResults[m].id = results[m].of
    BY <2>1, <2>2, MatchedAt, CallIdFits
  <2>4. PICK g \in 1..Len(heard) : \E h \in 1..Len(heard) : g < h /\ Made(m, g) /\ Made(n, h)
    BY <2>1 DEF ResultsInv
  <2>5. PICK h \in 1..Len(heard) : g < h /\ Made(m, g) /\ Made(n, h)
    BY <2>4
  <2>6. heard[h].id # NoId
    BY <1>3, <2>5 DEF Made
  <2>7. heard[g].id # NoId
    BY <2>5, <2>6 DEF IdsFirst, Made
  <2>8. QED
    BY <2>3, <2>5, <2>7 DEF Made
<1>6. QED
  BY <1>3, <1>4, <1>5

LEMMA NoResultsFit ==
    ASSUME NEW t, t.results = <<>>
    PROVE  TurnFits(t)
<1>1. Len(t.results) = 0
  BY EmptyListed
<1>2. QED
  BY <1>1 DEF TurnFits

TurnsFit == \A t \in 1..Len(turns) : TurnFits(turns[t])

LEMMA TurnReplaced ==
    ASSUME Inv, TurnsFit, phase # "idle", NEW turn, AsTurn(turn), turn.results = <<>>,
           turns' = OnCurrent(turn)
    PROVE  TurnsFit'
<1>1. /\ Len(turns') = Len(turns)
      /\ \A t \in 1..Len(turns) : turns'[t] = IF t = Len(turns) THEN turn ELSE turns[t]
  BY ReplaceTurn
<1>2. TurnFits(turn)
  BY NoResultsFit
<1>3. \A t \in 1..Len(turns') : TurnFits(turns'[t])
  BY <1>1, <1>2 DEF TurnsFit
<1>4. QED
  BY <1>3 DEF TurnsFit

(* Whatever is asked next, the turns that are told fit. *)
LEMMA StepTurns ==
    ASSUME Inv, ResultsInv, TurnsFit, OncePerTool, IdsFirst, [Next]_vars
    PROVE  TurnsFit'
<1>1. CASE UNCHANGED turns
  BY <1>1 DEF TurnsFit
<1>2. CASE StartRun
  <2>1. turns' = Append(turns, NewTurn("given")) /\ Listed(turns)
    BY <1>2 DEF StartRun, Inv, TurnsInv
  <2>2. /\ Len(turns') = Len(turns) + 1 /\ turns'[Len(turns')] = NewTurn("given")
        /\ \A t \in 1..Len(turns) : turns'[t] = turns[t]
        /\ \A t \in 1..Len(turns') : t \in 1..Len(turns) \/ t = Len(turns')
    BY <2>1, Longer
  <2>3. \A t \in 1..Len(turns') : TurnFits(turns'[t])
    BY <2>2, NewTurnFits DEF TurnsFit
  <2>4. QED
    BY <2>3 DEF TurnsFit
<1>3. CASE StreamError \/ CallFails
  <2>1. phase # "idle"
    BY <1>3 DEF StreamError, CallFails
  <2>2. PICK failed : failed = [Current EXCEPT !.response = "error"]
    OBVIOUS
  <2>3. AsTurn(failed) /\ AsTurn(Answered) /\ failed.results = <<>> /\ Answered.results = <<>>
    BY <2>1, <2>2, CurrentFits, AnsweredFits, Responded
  <2>4. turns' = OnCurrent(failed) \/ turns' = OnCurrent(Answered)
    BY <1>3, <2>2 DEF StreamError, CallFails
  <2>5. QED
    BY <2>1, <2>3, <2>4, TurnReplaced
<1>4. CASE RetryEmpty
  <2>1. phase # "idle" /\ turns' = OnCurrent(Recorded)
    BY <1>4 DEF RetryEmpty, Drained
  <2>2. QED
    BY <2>1, RecordedFits, TurnReplaced
<1>5. CASE EndRun
  <2>1. phase # "idle"
    BY <1>5 DEF EndRun, Drained
  <2>2. PICK marked : marked = [Recorded EXCEPT !.response = "marker"]
    OBVIOUS
  <2>3. AsTurn(Recorded) /\ AsTurn(marked) /\ Recorded.results = <<>> /\ marked.results = <<>>
    BY <2>1, <2>2, RecordedFits, Responded
  <2>4. turns' = OnCurrent(Recorded) \/ turns' = OnCurrent(marked)
    BY <1>5, <2>2 DEF EndRun
  <2>5. QED
    BY <2>1, <2>3, <2>4, TurnReplaced
<1>6. CASE NextRound
  <2>1. phase # "idle"
    BY <1>6 DEF NextRound, Drained
  <2>2. PICK made : made = [Recorded EXCEPT !.results = MatchedResults]
    OBVIOUS
  <2>3. /\ made.calls = Recorded.calls /\ made.results = MatchedResults
        /\ Len(turns') = Len(turns) + 1
        /\ \A t \in 1..(Len(turns) + 1) :
              \/ t \in 1..(Len(turns) - 1) /\ turns'[t] = turns[t]
              \/ turns'[t] = made
              \/ turns'[t] = NewTurn("")
    BY <1>6, <2>2, NextRoundTurns
  <2>4. TurnFits(made) /\ TurnFits(NewTurn(""))
    BY <2>1, <2>3, MadeFits, NewTurnFits
  <2>5. Len(turns) \in Nat
    BY ListedFacts DEF Inv, TurnsInv
  <2>6. \A t \in 1..(Len(turns) - 1) : TurnFits(turns[t])
    BY <2>5 DEF TurnsFit
  <2>7. \A t \in 1..Len(turns') : TurnFits(turns'[t])
    BY <2>3, <2>4, <2>6
  <2>8. QED
    BY <2>7 DEF TurnsFit
<1>7. QED
  <2>1. Ask \/ Chunk \/ HearText \/ HearFinish \/ HearStray \/ HearCall \/ UNCHANGED vars
          => UNCHANGED turns
    BY DEF Ask, Chunk, HearText, HearFinish, HearStray, HearCall, vars
  <2>2. QED
    BY <1>1, <1>2, <1>3, <1>4, <1>5, <1>6, <2>1 DEF Next
-----------------------------------------------------------------------------
(* Results and their calls: every step. *)

LEMMA HearCallResults ==
    ASSUME Inv, ResultsInv, HearCall
    PROVE  ResultsInv'
<1> DEFINE e == Head(events)
<1>1. events # <<>> /\ Routed(e.name) /\ heard' = Append(heard, e) /\ Units' = Units
  BY DEF HearCall, Units, Lines
<1>2. PICK outcome \in Outcomes \ {"failed"} :
          /\ results' = IF outcome = "skipped" THEN results ELSE Append(results, Result(e))
          /\ calls' = IF outcome = "handoff" THEN calls ELSE Append(calls, Record(e))
          /\ IF outcome = "handoff" THEN events' = <<>> /\ sent' = Units + 1
             ELSE events' = Tail(events) /\ UNCHANGED sent
  BY DEF HearCall
<1> HIDE DEF e
<1>3. CASE outcome = "skipped"
  <2>1. results' = results /\ calls' = Append(calls, Record(e))
    BY <1>2, <1>3
  <2>2. QED
    BY <1>1, <2>1, HeardMore
<1>4. CASE outcome = "handoff"
  <2>1. /\ results' = Append(results, Result(e)) /\ calls' = calls
        /\ events' = <<>> /\ sent' = Units' + 1
    BY <1>1, <1>2, <1>4
  <2>2. QED
    BY <1>1, <2>1, HeardMore
<1>5. CASE outcome # "skipped" /\ outcome # "handoff"
  <2>1. results' = Append(results, Result(e)) /\ calls' = Append(calls, Record(e))
    BY <1>2, <1>5
  <2>2. QED
    BY <1>1, <2>1, HeardMore
<1>6. QED
  BY <1>3, <1>4, <1>5

LEMMA NoneGathered ==
    ASSUME calls = <<>>, results = <<>>
    PROVE  ResultsInv
<1>1. Len(calls) = 0 /\ Len(results) = 0
  BY EmptyListed
<1>2. QED
  BY <1>1 DEF ResultsInv

LEMMA StepResults ==
    ASSUME Inv, ResultsInv, [Next]_vars
    PROVE  ResultsInv'
<1>1. CASE Ask
  <2>1. calls' = <<>> /\ results' = <<>>
    BY <1>1 DEF Ask
  <2>2. Len(calls') = 0 /\ Len(results') = 0
    BY <2>1, EmptyListed
  <2>3. QED
    BY <2>2 DEF ResultsInv
<1>2. CASE Chunk
  <2>1. UNCHANGED <<calls, results, heard>>
    BY <1>2 DEF Chunk
  <2>2. sent # Units + 1
    <3>1. Units \in Nat
      BY DEF Inv, RoundInv, Units
    <3>2. PICK units \in (sent + 1)..Units : TRUE
      BY <1>2 DEF Chunk
    <3>3. ASSUME sent = Units + 1 PROVE FALSE
      BY <3>1, <3>2, <3>3
    <3>4. QED
      BY <3>3
  <2>3. QED
    BY <2>1, <2>2, ResultsKept
<1>3. CASE HearText \/ HearFinish
  <2>1. UNCHANGED <<calls, results, heard>> /\ events # <<>>
    BY <1>3 DEF HearText, HearFinish
  <2>2. QED
    BY <2>1, ResultsKept
<1>4. CASE HearStray
  <2>1. /\ results' = results /\ calls' = calls /\ events # <<>>
        /\ heard' = Append(heard, Head(events))
    BY <1>4 DEF HearStray
  <2>2. QED
    BY <2>1, HeardMore
<1>5. CASE HearCall
  BY <1>5, HearCallResults
<1>6. CASE UNCHANGED <<calls, results, heard, events, sent, answer>>
  <2>1. Units' = Units
    BY <1>6 DEF Units, Lines
  <2>2. QED
    BY <1>6, <2>1, ResultsKept
<1>7. QED
  <2>1. StartRun \/ StreamError \/ CallFails \/ RetryEmpty \/ EndRun \/ NextRound \/ UNCHANGED vars
          => UNCHANGED <<calls, results, heard, events, sent, answer>>
    BY DEF StartRun, StreamError, CallFails, RunEnds, RetryEmpty, EndRun, NextRound, RoundEnds,
           roundVars, vars
  <2>2. QED
    BY <1>1, <1>2, <1>3, <1>4, <1>5, <1>6, <2>1 DEF Next

LEMMA StepRequest ==
    ASSUME Inv, TurnsFit, RequestFits, [Next]_vars
    PROVE  RequestFits'
<1>1. CASE Ask
  <2>1. PICK messages : messages = Messages
    OBVIOUS
  <2>2. request' = messages
    BY <1>1, <2>1 DEF Ask
  <2>3. ListedResults /\ \A t \in 1..Len(turns) : Listed(turns[t].calls)
    BY DEF Inv, TurnsInv, AsTurn, ListedResults
  <2>4. \A t \in 1..Len(turns) : TurnFits(turns[t])
    BY DEF TurnsFit
  <2>5. MessagesMatch(messages)
    BY <2>1, <2>3, <2>4, MessagesFit DEF MessagesMatch
  <2>6. QED
    BY <2>2, <2>5 DEF RequestFits
<1>2. CASE UNCHANGED request
  BY <1>2 DEF RequestFits
<1>3. QED
  <2>1. Ask \/ UNCHANGED request
    BY DEF Next, StartRun, Chunk, StreamError, HearText, HearFinish, HearStray, HearCall,
           CallFails, RunEnds, RetryEmpty, EndRun, NextRound, RoundEnds, vars
  <2>2. QED
    BY <1>1, <1>2, <2>1

(* What a round gathers fits its calls, what a turn holds fits the calls of *)
(* the turn, and what a request tells fits the calls it tells.             *)
THEOREM ResultsMatch == Spec /\ [](OncePerTool /\ IdsFirst) => []MatchInv
<1>1. Init => MatchInv
  <2> SUFFICES ASSUME Init PROVE MatchInv
    OBVIOUS
  <2>1. Len(turns) = 0 /\ Len(request) = 0 /\ calls = <<>> /\ results = <<>>
    BY EmptyListed DEF Init
  <2>2. QED
    BY <2>1, NoneGathered DEF MatchInv, RequestFits, MessagesMatch
<1>2. Inv /\ MatchInv /\ (OncePerTool /\ IdsFirst) /\ [Next]_vars => MatchInv'
  <2> SUFFICES ASSUME Inv, MatchInv, OncePerTool, IdsFirst, [Next]_vars PROVE MatchInv'
    OBVIOUS
  <2>1. ResultsInv /\ TurnsFit /\ RequestFits
    BY DEF MatchInv, TurnsFit
  <2>2. ResultsInv' /\ TurnsFit' /\ RequestFits'
    BY <2>1, StepResults, StepTurns, StepRequest
  <2>3. QED
    BY <2>2 DEF MatchInv, TurnsFit
<1>3. QED
  BY <1>1, <1>2, InitInv, StepInv, PTL DEF Spec

(* Each result that OpenAI is sent as one follows the calls it answers,     *)
(* under the id of its own (state.rs, to_messages_native_openai), as long  *)
(* as no tool is called twice in a round and no call without an id comes   *)
(* before one that has one.                                                *)
THEOREM ResultsFollowCalls ==
    Spec /\ [](OncePerTool /\ IdsFirst) => []ResultsFindTheirCalls
<1>1. Inv /\ MatchInv => ResultsFindTheirCalls
  <2> SUFFICES ASSUME Inv, MatchInv PROVE ResultsFindTheirCalls
    OBVIOUS
  <2>1. DOMAIN request = 1..Len(request)
    BY ListedFacts DEF Inv, RequestInv
  <2>2. QED
    BY <2>1 DEF MatchInv, RequestFits, MessagesMatch, ResultsFindTheirCalls
<1>2. QED
  BY <1>1, InitInv, StepInv, ResultsMatch, PTL DEF Spec
===============================================================================
