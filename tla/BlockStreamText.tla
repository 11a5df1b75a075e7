--------------------------- MODULE BlockStreamText ---------------------------
(***************************************************************************)
(* Text that was shown is never taken back, and is what the model said.    *)
(* First what the scan finds of any beginning of a document whose blocks   *)
(* are closed, block by block; then that the text of each only grows, that *)
(* all of it is shown, and that it is what the engine is handed; at last   *)
(* that the engine is handed all that such a document means.               *)
(***************************************************************************)
EXTENDS BlockStreamProofs

-----------------------------------------------------------------------------
(* Where headers are, in the text of blocks that are closed and hold none.  *)

Size(k) == IF k = "text" THEN 2 ELSE 3

(* What the headers of a kind are made of, and how they are told.           *)
OpenerShape(k, o) ==
    /\ Len(o) = Size(k) /\ o[1] \in Firsts /\ o[1] \notin Brackets /\ o[1] # "nl"
    /\ o[2] \in Seconds /\ o[2] # "nl" /\ o[Size(k)] \in Brackets
    /\ k # "text" => o[2] \notin Brackets /\ o[1] # "[res" /\ o[1] # "[/res"
    /\ k = "text" => o[1] = "[res"

CloserShape(k, c) ==
    /\ Len(c) = 2 /\ c[1] \in Firsts /\ c[1] \notin Brackets /\ c[1] # "nl"
    /\ c[2] \in Seconds /\ c[2] \in Brackets
    /\ k # "text" => c[1] # "[res" /\ c[1] # "[/res"
    /\ k = "text" => c[1] = "[/res"

LEMMA OpenerPieces ==
    /\ Opener["text"][1] = "[res" /\ Opener["text"][2] = "ponse_text]"
    /\ Opener["call"][1] = "[to" /\ Opener["call"][2] = "ol_call: t" /\ Opener["call"][3] = "]"
    /\ Opener["schema"][1] = "[sch" /\ Opener["schema"][2] = "ema: s" /\ Opener["schema"][3] = "]"
    /\ Len(Opener["text"]) = 2 /\ Len(Opener["call"]) = 3 /\ Len(Opener["schema"]) = 3
<1>1. PICK o : o = <<"[res", "ponse_text]">>
  OBVIOUS
<1>2. PICK q : q = <<"[to", "ol_call: t", "]">>
  OBVIOUS
<1>3. PICK r : r = <<"[sch", "ema: s", "]">>
  OBVIOUS
<1>4. Len(o) = 2 /\ o[1] = "[res" /\ o[2] = "ponse_text]"
  BY <1>1
<1>5. Len(q) = 3 /\ q[1] = "[to" /\ q[2] = "ol_call: t" /\ q[3] = "]"
  BY <1>2
<1>6. Len(r) = 3 /\ r[1] = "[sch" /\ r[2] = "ema: s" /\ r[3] = "]"
  BY <1>3
<1>7. Opener["text"] = o /\ Opener["call"] = q /\ Opener["schema"] = r
  BY <1>1, <1>2, <1>3 DEF Opener
<1>8. QED
  BY <1>4, <1>5, <1>6, <1>7

LEMMA CloserPieces ==
    /\ Closer["text"][1] = "[/res" /\ Closer["text"][2] = "ponse_text]"
    /\ Closer["call"][1] = "[/to" /\ Closer["call"][2] = "ol_call]"
    /\ Closer["schema"][1] = "[/sch" /\ Closer["schema"][2] = "ema]"
    /\ Len(Closer["text"]) = 2 /\ Len(Closer["call"]) = 2 /\ Len(Closer["schema"]) = 2
<1>1. PICK o : o = <<"[/res", "ponse_text]">>
  OBVIOUS
<1>2. PICK q : q = <<"[/to", "ol_call]">>
  OBVIOUS
<1>3. PICK r : r = <<"[/sch", "ema]">>
  OBVIOUS
<1>4. Len(o) = 2 /\ o[1] = "[/res" /\ o[2] = "ponse_text]"
  BY <1>1
<1>5. Len(q) = 2 /\ q[1] = "[/to" /\ q[2] = "ol_call]"
  BY <1>2
<1>6. Len(r) = 2 /\ r[1] = "[/sch" /\ r[2] = "ema]"
  BY <1>3
<1>7. Closer["text"] = o /\ Closer["call"] = q /\ Closer["schema"] = r
  BY <1>1, <1>2, <1>3 DEF Closer
<1>8. QED
  BY <1>4, <1>5, <1>6, <1>7

LEMMA PieceSets ==
    /\ Firsts = {"[res", "[to", "[sch", "[/res", "[/to", "[/sch"}
    /\ Seconds = {"ponse_text]", "ol_call: t", "ema: s", "ol_call]", "ema]"}
    /\ Telling = Seconds \cup {"[res", "[/res"}
<1>2. {Opener[k][1] : k \in Kinds} = {"[res", "[to", "[sch"}
  BY OpenerPieces DEF Kinds
<1>3. {Closer[k][1] : k \in Kinds} = {"[/res", "[/to", "[/sch"}
  BY CloserPieces DEF Kinds
<1>4. {Opener[k][2] : k \in Kinds} = {"ponse_text]", "ol_call: t", "ema: s"}
  BY OpenerPieces DEF Kinds
<1>5. {Closer[k][2] : k \in Kinds} = {"ponse_text]", "ol_call]", "ema]"}
  BY CloserPieces DEF Kinds
<1>6. Firsts = {"[res", "[to", "[sch", "[/res", "[/to", "[/sch"}
  BY <1>2, <1>3 DEF Firsts, Openers
<1>7. Seconds = {"ponse_text]", "ol_call: t", "ema: s", "ol_call]", "ema]"}
  BY <1>4, <1>5 DEF Seconds
<1>8. QED
  BY <1>6, <1>7, OpenerPieces, CloserPieces DEF Telling

LEMMA HeaderShapes ==
    ASSUME NEW k \in Kinds
    PROVE  OpenerShape(k, Opener[k]) /\ CloserShape(k, Closer[k])
<1>1. CASE k = "text"
  BY <1>1, PieceSets, OpenerPieces, CloserPieces DEF OpenerShape, CloserShape, Size, Brackets
<1>2. CASE k = "call"
  BY <1>2, PieceSets, OpenerPieces, CloserPieces DEF OpenerShape, CloserShape, Size, Brackets
<1>3. CASE k = "schema"
  BY <1>3, PieceSets, OpenerPieces, CloserPieces DEF OpenerShape, CloserShape, Size, Brackets
<1>4. QED
  BY <1>1, <1>2, <1>3 DEF Kinds

LEMMA HeaderParts ==
    ASSUME NEW h \in Openings \cup Closings \cup Starts
    PROVE  Len(h) \in {2, 3} /\ h[2] \in Seconds
<1>1. CASE h \in Openings
  <2>1. PICK k \in Kinds : h \in Opening(k)
    BY <1>1 DEF Openings
  <2>2. h = Opener[k] \/ (k # "text" /\ h = Recovered(k))
    BY <2>1 DEF Opening
  <2>3. h[2] = Opener[k][2]
    BY <2>2, OpenerParts
  <2>4. QED
    BY <1>1, <2>3, HeaderLengths, HeaderShapes DEF OpenerShape
<1>2. CASE h \in Closings
  <2>1. PICK k \in Kinds : h = Closer[k]
    BY <1>2 DEF Closings
  <2>2. QED
    BY <2>1, HeaderShapes DEF CloserShape
<1>3. CASE h \in Starts
  <2>1. PICK k \in Kinds : k # "text" /\ h = SubSeq(Opener[k], 1, 2)
    BY <1>3 DEF Starts
  <2>2. Opener[k] \in Seq(Pieces) /\ Len(Opener[k]) = 3 /\ Opener[k][2] \in Seconds
    BY <2>1, HeadersTyped, OpenerParts, HeaderShapes DEF OpenerShape
  <2>3. PICK o : o = Opener[k]
    OBVIOUS
  <2>4. \A i \in 1..2 : o[i] \in Pieces
    <3>1. \A i \in 1..2 : i \in 1..3
      OBVIOUS
    <3>2. QED
      BY <2>2, <2>3, <3>1, ElementOfSeq
  <2>5. Len(SubSeq(o, 1, 2)) = 2 /\ \A i \in 1..2 : SubSeq(o, 1, 2)[i] = o[1 + i - 1]
    BY <2>4, SubSeqProperties
  <2>6. SubSeq(o, 1, 2)[2] = o[2]
    BY <2>5
  <2>7. QED
    BY <2>1, <2>2, <2>3, <2>5, <2>6
<1>4. QED
  BY <1>1, <1>2, <1>3

(* Parts of a text. *)
LEMMA SliceIs ==
    ASSUME NEW E, NEW t \in Seq(E), NEW a \in Nat \ {0}, NEW b \in Int, b <= Len(t)
    PROVE  /\ SubSeq(t, a, b) \in Seq(E)
           /\ Len(SubSeq(t, a, b)) = IF a <= b THEN b - a + 1 ELSE 0
           /\ \A i \in 1..(b - a + 1) : SubSeq(t, a, b)[i] = t[a + i - 1]
<1>1. Len(t) \in Nat
  BY LenProperties
<1>2. \A i \in a..b : i \in 1..Len(t)
  BY <1>1
<1>3. \A i \in a..b : t[i] \in E
  BY <1>2, ElementOfSeq
<1>4. QED
  BY <1>3, SubSeqProperties

LEMMA SliceEqual ==
    ASSUME NEW E, NEW t \in Seq(E), NEW a \in Nat \ {0}, NEW b \in Nat, b <= Len(t), NEW s \in Seq(E),
           Len(s) = b - a + 1, \A x \in 1..Len(s) : t[a + x - 1] = s[x]
    PROVE  SubSeq(t, a, b) = s
<1>1. Len(s) \in Nat
  BY LenProperties
<1>2. /\ SubSeq(t, a, b) \in Seq(E)
      /\ Len(SubSeq(t, a, b)) = IF a <= b THEN b - a + 1 ELSE 0
      /\ \A i \in 1..(b - a + 1) : SubSeq(t, a, b)[i] = t[a + i - 1]
  BY SliceIs
<1>3. Len(SubSeq(t, a, b)) = Len(s)
  BY <1>1, <1>2
<1>4. \A i \in 1..Len(SubSeq(t, a, b)) : SubSeq(t, a, b)[i] = s[i]
  BY <1>2, <1>3
<1>5. QED
  BY <1>2, <1>3, <1>4, SeqEqual

LEMMA StartsHere ==
    ASSUME NEW E, NEW t \in Seq(E), NEW p \in 1..Len(t), NEW s, Len(s) \in {2, 3}, StartsWith(t, p, s)
    PROVE  p + 1 <= Len(t) /\ t[p] = s[1] /\ t[p + 1] = s[2]
<1>1. Len(t) \in Nat
  BY LenProperties
<1>2. PICK n : n = Len(s)
  OBVIOUS
<1>3. n \in {2, 3} /\ p + n - 1 <= Len(t) /\ SubSeq(t, p, p + n - 1) = s
  BY <1>2 DEF StartsWith
<1>4. \A i \in 1..((p + n - 1) - p + 1) : SubSeq(t, p, p + n - 1)[i] = t[p + i - 1]
  <2>1. p \in Nat \ {0} /\ p + n - 1 \in Int
    BY <1>1, <1>3
  <2>2. QED
    BY <1>3, <2>1, SliceIs
<1>5. 1 \in 1..((p + n - 1) - p + 1) /\ 2 \in 1..((p + n - 1) - p + 1)
  BY <1>1, <1>3
<1>6. s[1] = t[p + 1 - 1] /\ s[2] = t[p + 2 - 1]
  BY <1>3, <1>4, <1>5
<1>7. p + 1 - 1 = p /\ p + 2 - 1 = p + 1 /\ p + 1 <= Len(t)
  BY <1>1, <1>3
<1>8. QED
  BY <1>6, <1>7

LEMMA HeaderIs ==
    ASSUME NEW E, NEW t \in Seq(E), NEW p \in 1..Len(t), NEW final,
           Header(t, p, final) \in Openings \cup Closings
    PROVE  t[p] \in Firsts /\ p + 1 <= Len(t) /\ t[p + 1] \in Seconds
<1> DEFINE ends == {q \in p..Len(t) : t[q] \in Brackets \/ (final /\ t[q] = "nl")}
<1>1. Len(t) \in Nat
  BY LenProperties
<1>2. PICK h : h = Header(t, p, final)
  OBVIOUS
<1>3. Len(h) \in {2, 3} /\ h[2] \in Seconds
  BY <1>2, HeaderParts
<1>4. h # <<>>
  BY <1>3, EmptySeq
<1>5. PICK m : m = S!Min(ends)
  OBVIOUS
<1>6. t[p] \in Firsts /\ ends # {} /\ h = SubSeq(t, p, m)
  BY <1>2, <1>4, <1>5 DEF Header
<1>7. m \in p..Len(t)
  <2>1. ends \in SUBSET Nat /\ ends \subseteq p..Len(t)
    BY <1>1
  <2>2. m \in ends
    <3> HIDE DEF ends
    <3>1. QED
      BY <1>5, <1>6, <2>1, MinOf
  <2>3. QED
    BY <2>1, <2>2
<1>8. /\ Len(h) = IF p <= m THEN m - p + 1 ELSE 0
      /\ \A i \in 1..(m - p + 1) : h[i] = t[p + i - 1]
  <2>1. p \in Nat \ {0} /\ m \in Int /\ m <= Len(t)
    BY <1>1, <1>7
  <2> HIDE DEF ends
  <2>2. QED
    BY <1>6, <2>1, SliceIs
<1>9. 2 \in 1..(m - p + 1) /\ p + 2 - 1 = p + 1 /\ p + 1 <= Len(t)
  BY <1>1, <1>3, <1>7, <1>8
<1>10. h[2] = t[p + 1]
  BY <1>8, <1>9
<1>11. QED
  BY <1>3, <1>6, <1>9, <1>10

(* A place that is no beginning of a header, or is followed by none of the  *)
(* parts that tell one.                                                    *)
Harmless(t, p) ==
    t[p] \in Firsts => /\ t[p] # "[res" /\ t[p] # "[/res"
                       /\ p < Len(t) => t[p + 1] \notin Seconds

LEMMA NoBoundary ==
    ASSUME NEW E, NEW t \in Seq(E), NEW p \in 1..Len(t), NEW final, Harmless(t, p)
    PROVE  /\ ~Boundary(t, p, final) /\ ~UnfinishedAt(t, p, final)
           /\ ~Closes(t, p) /\ ~Heads(t, p)
<1>0. Len(t) \in Nat
  BY LenProperties
<1>1. Header(t, p, final) \notin Openings \cup Closings
  BY <1>0, HeaderIs DEF Harmless
<1>2. \A s \in Starts \cup Closings : ~StartsWith(t, p, s)
  <2>1. SUFFICES ASSUME NEW s \in Starts \cup Closings, StartsWith(t, p, s) PROVE FALSE
    OBVIOUS
  <2>2. Len(s) \in {2, 3} /\ s[2] \in Seconds
    BY HeaderParts
  <2>3. p + 1 <= Len(t) /\ t[p] = s[1] /\ t[p + 1] = s[2]
    BY <2>1, <2>2, StartsHere
  <2>4. s[1] \in Firsts
    <3>1. CASE s \in Closings
      <4>1. PICK k \in Kinds : s = Closer[k]
        BY <3>1 DEF Closings
      <4>2. QED
        BY <4>1, HeaderShapes DEF CloserShape
    <3>2. CASE s \in Starts
      <4>1. PICK k \in Kinds : k # "text" /\ s = SubSeq(Opener[k], 1, 2)
        BY <3>2 DEF Starts
      <4>2. s[1] = Opener[k][1]
        <5>1. Opener[k] \in Seq(Pieces) /\ 2 <= Len(Opener[k])
          BY <4>1, HeadersTyped, OpenerParts
        <5>2. PICK o : o = Opener[k]
          OBVIOUS
        <5>3. \A i \in 1..(2 - 1 + 1) : SubSeq(o, 1, 2)[i] = o[1 + i - 1]
          BY <5>1, <5>2, SliceIs
        <5>4. SubSeq(o, 1, 2)[1] = o[1]
          BY <5>3
        <5>5. QED
          BY <4>1, <5>2, <5>4
      <4>3. QED
        BY <4>2, HeaderShapes DEF OpenerShape
    <3>3. QED
      BY <3>1, <3>2
  <2>5. QED
    BY <1>0, <2>2, <2>3, <2>4 DEF Harmless
<1>3. ~UnfinishedAt(t, p, final)
  <2>1. Opener["text"][1] = "[res" /\ Closer["text"][1] = "[/res"
    BY OpenerPieces, CloserPieces
  <2>2. QED
    BY <1>2, <2>1 DEF UnfinishedAt, Harmless
<1>4. QED
  BY <1>1, <1>2, <1>3 DEF Boundary, Closes, Heads

-----------------------------------------------------------------------------
(* Where a closed block begins and ends, in a text that may end in it.      *)

(* s is spelled at p, as far as the text goes. *)
Here(t, p, s) == \A x \in 1..Len(s) : p + x - 1 <= Len(t) => t[p + x - 1] = s[x]

LEMMA WholeHeader ==
    ASSUME NEW t \in Seq(Pieces), NEW p \in 1..Len(t), NEW final, NEW s \in Seq(Pieces),
           Len(s) \in {2, 3}, p + Len(s) - 1 <= Len(t), Here(t, p, s),
           s[1] \in Firsts, s[Len(s)] \in Brackets,
           \A x \in 1..(Len(s) - 1) : s[x] \notin Brackets /\ s[x] # "nl"
    PROVE  Header(t, p, final) = s /\ StartsWith(t, p, s)
<1> DEFINE ends == {q \in p..Len(t) : t[q] \in Brackets \/ (final /\ t[q] = "nl")}
<1>1. Len(t) \in Nat /\ p \in Nat \ {0}
  BY LenProperties
<1>2. PICK n : n = Len(s)
  OBVIOUS
<1>3. PICK m : m = p + n - 1
  OBVIOUS
<1>4. n \in {2, 3} /\ m \in Nat /\ m <= Len(t) /\ m \in p..Len(t) /\ n = m - p + 1
  BY <1>1, <1>2, <1>3
<1>5. \A x \in 1..n : t[p + x - 1] = s[x]
  <2>1. ASSUME NEW x \in 1..n PROVE p + x - 1 <= Len(t)
    BY <1>1, <1>3, <1>4
  <2>2. QED
    BY <1>2, <2>1 DEF Here
<1>6. t[m] \in Brackets
  <2>1. n \in 1..n /\ p + n - 1 = m
    BY <1>3, <1>4
  <2>2. QED
    BY <1>2, <1>5, <2>1
<1>7. ASSUME NEW q \in p..Len(t), q < m PROVE t[q] \notin Brackets /\ t[q] # "nl"
  <2>1. q - p + 1 \in 1..(n - 1) /\ q - p + 1 \in 1..n /\ p + (q - p + 1) - 1 = q
    BY <1>1, <1>3, <1>4, <1>7
  <2>2. t[q] = s[q - p + 1]
    BY <1>5, <2>1
  <2>3. QED
    BY <1>2, <2>1, <2>2
<1>8. m \in ends /\ \A q \in ends : m <= q
  <2>1. m \in ends
    BY <1>4, <1>6
  <2>2. ASSUME NEW q \in ends, q < m PROVE FALSE
    BY <1>7, <2>2
  <2>3. \A q \in ends : q \in Nat
    BY <1>1
  <2> HIDE DEF ends
  <2>4. QED
    BY <1>4, <2>1, <2>2, <2>3
<1>9. S!Min(ends) = m
  <2>1. ends \in SUBSET Nat /\ ends # {}
    BY <1>1, <1>8
  <2>2. S!Min(ends) \in ends /\ \A q \in ends : S!Min(ends) <= q
    <3> HIDE DEF ends
    <3>1. QED
      BY <2>1, MinOf
  <2>3. PICK x : x = S!Min(ends)
    OBVIOUS
  <2>4. x \in Nat /\ x <= m /\ m <= x
    BY <1>8, <2>1, <2>2, <2>3
  <2>5. QED
    BY <1>4, <2>3, <2>4
<1>10. SubSeq(t, p, m) = s
  <2>1. Len(s) = m - p + 1 /\ \A x \in 1..Len(s) : t[p + x - 1] = s[x]
    BY <1>2, <1>4, <1>5
  <2> HIDE DEF ends
  <2>2. QED
    BY <1>1, <1>4, <2>1, SliceEqual
<1>11. t[p] \in Firsts
  <2>1. 1 \in 1..n /\ p + 1 - 1 = p
    BY <1>1, <1>4
  <2>2. t[p + 1 - 1] = s[1]
    BY <1>5, <2>1
  <2>3. QED
    BY <2>1, <2>2
<1>12. Header(t, p, final) = SubSeq(t, p, S!Min(ends))
  BY <1>8, <1>11 DEF Header
<1>13. StartsWith(t, p, s)
  BY <1>2, <1>3, <1>4, <1>10 DEF StartsWith
<1> HIDE DEF ends
<1>14. QED
  BY <1>9, <1>10, <1>12, <1>13

LEMMA NoHeader ==
    ASSUME NEW t \in Seq(Pieces), NEW p \in 1..Len(t), NEW final,
           \A q \in p..Len(t) : t[q] \notin Brackets /\ t[q] # "nl"
    PROVE  Header(t, p, final) = <<>>
BY DEF Header

LEMMA OpenerHere ==
    ASSUME NEW t \in Seq(Pieces), NEW p \in 1..Len(t), NEW final, NEW k \in Kinds,
           p + Size(k) - 1 <= Len(t), Here(t, p, Opener[k])
    PROVE  /\ Header(t, p, final) = Opener[k] /\ Opens(t, p, final)
           /\ KindOf(Opener[k]) = k /\ Begins(t, p, final) = p + Size(k)
<1>1. PICK o : o = Opener[k]
  OBVIOUS
<1>2. OpenerShape(k, o) /\ o \in Seq(Pieces) /\ Size(k) \in {2, 3}
  BY <1>1, HeaderShapes, HeadersTyped DEF Size
<1>3. \A x \in 1..(Len(o) - 1) : o[x] \notin Brackets /\ o[x] # "nl"
  <2>1. ASSUME NEW x \in 1..(Len(o) - 1) PROVE x = 1 \/ (x = 2 /\ k # "text")
    BY <1>2 DEF OpenerShape, Size
  <2>2. QED
    BY <1>2, <2>1 DEF OpenerShape
<1>4. Header(t, p, final) = o
  BY <1>1, <1>2, <1>3, WholeHeader DEF OpenerShape
<1>5. o \in Openings
  BY <1>1 DEF Openings, Opening
<1>6. o # <<>>
  BY <1>2, EmptySeq DEF OpenerShape
<1>7. Opens(t, p, final)
  BY <1>4, <1>5, <1>6 DEF Opens, UnfinishedAt
<1>8. KindOf(o) = k
  <2>1. ASSUME NEW j \in Kinds, SubSeq(o, 1, 2) = SubSeq(Opener[j], 1, 2) PROVE j = k
    <3>1. PICK r : r = Opener[j]
      OBVIOUS
    <3>2. r \in Seq(Pieces) /\ 2 <= Len(r) /\ 2 <= Len(o)
      <4>1. r \in Seq(Pieces)
        BY <2>1, <3>1, HeadersTyped
      <4>2. Len(r) = Size(j) /\ Len(o) = Size(k)
        BY <1>2, <2>1, <3>1, HeaderShapes DEF OpenerShape
      <4>3. Size(j) \in {2, 3} /\ Size(k) \in {2, 3}
        BY DEF Size
      <4>4. QED
        BY <4>1, <4>2, <4>3
    <3>3. \A i \in 1..(2 - 1 + 1) : SubSeq(r, 1, 2)[i] = r[1 + i - 1]
      BY <3>2, SliceIs
    <3>4. \A i \in 1..(2 - 1 + 1) : SubSeq(o, 1, 2)[i] = o[1 + i - 1]
      BY <1>2, <3>2, SliceIs
    <3>5. SubSeq(r, 1, 2)[2] = r[2] /\ SubSeq(o, 1, 2)[2] = o[2]
      BY <3>3, <3>4
    <3>6. Opener[j][2] = Opener[k][2]
      BY <1>1, <2>1, <3>1, <3>5
    <3>7. QED
      BY <3>6, OpenerPieces DEF Kinds
  <2>2. \E j \in Kinds : SubSeq(o, 1, 2) = SubSeq(Opener[j], 1, 2)
    BY <1>1
  <2>3. QED
    BY <2>1, <2>2 DEF KindOf
<1>9. Begins(t, p, final) = p + Size(k)
  BY <1>2, <1>4 DEF Begins, OpenerShape
<1>10. QED
  BY <1>1, <1>4, <1>7, <1>8, <1>9

LEMMA CloserHere ==
    ASSUME NEW t \in Seq(Pieces), NEW p \in 1..Len(t), NEW final, NEW k \in Kinds,
           p + 1 <= Len(t), Here(t, p, Closer[k])
    PROVE  Boundary(t, p, final) /\ StartsWith(t, p, Closer[k])
<1>1. PICK c : c = Closer[k]
  OBVIOUS
<1>2. CloserShape(k, c) /\ c \in Seq(Pieces)
  BY <1>1, HeaderShapes, HeadersTyped
<1>3. \A x \in 1..(Len(c) - 1) : c[x] \notin Brackets /\ c[x] # "nl"
  <2>1. ASSUME NEW x \in 1..(Len(c) - 1) PROVE x = 1
    BY <1>2 DEF CloserShape
  <2>2. QED
    BY <1>2, <2>1 DEF CloserShape
<1>4. p + Len(c) - 1 <= Len(t)
  BY <1>2, LenProperties DEF CloserShape
<1>5. Header(t, p, final) = c /\ StartsWith(t, p, c)
  BY <1>1, <1>2, <1>3, <1>4, WholeHeader DEF CloserShape
<1>6. c \in Closings
  BY <1>1 DEF Closings
<1>7. QED
  BY <1>1, <1>5, <1>6 DEF Boundary

LEMMA UnfinishedText ==
    ASSUME NEW t \in Seq(Pieces), NEW p \in 1..Len(t), NEW final, p = Len(t),
           t[p] = "[res" \/ t[p] = "[/res"
    PROVE  UnfinishedAt(t, p, final)
<1>1. Len(t) \in Nat
  BY LenProperties
<1>2. t[p] \in Firsts /\ t[p] \notin Brackets /\ t[p] # "nl"
  BY PieceSets DEF Brackets
<1>3. \A q \in p..Len(t) : q = p
  BY <1>1
<1>4. Header(t, p, final) = <<>>
  BY <1>2, <1>3, NoHeader
<1>5. Opener["text"][1] = "[res" /\ Closer["text"][1] = "[/res"
  BY OpenerPieces, CloserPieces
<1>6. QED
  BY <1>2, <1>4, <1>5 DEF UnfinishedAt

(* No part of c tells a header. *)
Plain(c) == c \in Seq(Pieces) /\ \A x \in 1..Len(c) : c[x] \notin Telling

(* Behind the content of the block at p. *)
ContentEnd(p, k, c) == p + Size(k) + Len(c)

(* A closed block at p, of which there is at least the whole opening header.*)
Cut(t, p, k, c) ==
    /\ p + Size(k) - 1 <= Len(t) /\ Plain(c)
    /\ Here(t, p, Opener[k]) /\ Here(t, p + Size(k), c) /\ Here(t, ContentEnd(p, k, c), Closer[k])

LEMMA CutNumbers ==
    ASSUME NEW t \in Seq(Pieces), NEW p \in 1..Len(t), NEW k \in Kinds, NEW c, Plain(c)
    PROVE  /\ Len(t) \in Nat /\ Len(c) \in Nat /\ p \in Nat /\ 1 <= p /\ p <= Len(t)
           /\ Size(k) \in {2, 3} /\ ContentEnd(p, k, c) = p + Size(k) + Len(c)
           /\ ContentEnd(p, k, c) \in Nat
<1>1. Len(t) \in Nat /\ Len(c) \in Nat
  BY LenProperties DEF Plain
<1>2. QED
  BY <1>1 DEF Size, ContentEnd

LEMMA Interior ==
    ASSUME NEW t \in Seq(Pieces), NEW p \in 1..Len(t), NEW k \in Kinds, NEW c, Cut(t, p, k, c),
           NEW q \in 1..Len(t), p + Size(k) <= q, q < ContentEnd(p, k, c)
    PROVE  Harmless(t, q)
<1> DEFINE a == p + Size(k)
           e == ContentEnd(p, k, c)
<1>1. Plain(c)
  BY DEF Cut
<1>2. /\ Len(t) \in Nat /\ Len(c) \in Nat /\ a \in Nat /\ e = a + Len(c) /\ q \in Nat
      /\ a <= q /\ q < e /\ e \in Nat
  BY <1>1, CutNumbers
<1> HIDE DEF a, e
<1>3. \A x \in 1..Len(c) : a + x - 1 <= Len(t) => t[a + x - 1] \notin Telling
  BY <1>1 DEF Cut, Here, Plain, a
<1>4. \A r \in a..(e - 1) : r <= Len(t) => t[r] \notin Telling
  <2>1. ASSUME NEW r \in a..(e - 1) PROVE r - a + 1 \in 1..Len(c) /\ a + (r - a + 1) - 1 = r
    BY <1>2
  <2>2. QED
    BY <1>3, <2>1
<1>5. t[q] \notin Telling
  BY <1>2, <1>4
<1>6. q < Len(t) => t[q + 1] \notin Seconds
  <2>1. SUFFICES ASSUME q < Len(t) PROVE t[q + 1] \notin Seconds
    OBVIOUS
  <2>2. CASE q + 1 < e
    <3>1. t[q + 1] \notin Telling
      BY <1>2, <1>4, <2>1, <2>2
    <3>2. QED
      BY <3>1, PieceSets
  <2>3. CASE q + 1 = e
    <3>1. 1 \in 1..Len(Closer[k]) /\ Closer[k][1] \in Firsts
      BY HeaderShapes DEF CloserShape
    <3>2. e + 1 - 1 = e /\ e <= Len(t)
      BY <1>2, <2>1, <2>3
    <3>3. t[e + 1 - 1] = Closer[k][1]
      BY <3>1, <3>2 DEF Cut, Here, e
    <3>4. t[e] \in Firsts
      BY <3>1, <3>2, <3>3
    <3>5. QED
      BY <2>3, <3>4, PieceSets
  <2>4. QED
    BY <1>2, <2>2, <2>3
<1>7. QED
  BY <1>5, <1>6, PieceSets DEF Harmless

(* The closing header is one as soon as its kind can be told. *)
CloserTold(t, e, k) == e + 1 <= Len(t) \/ (k = "text" /\ e = Len(t))

LEMMA CloserBoundary ==
    ASSUME NEW t \in Seq(Pieces), NEW p \in 1..Len(t), NEW k \in Kinds, NEW c, Cut(t, p, k, c),
           NEW final, NEW e \in 1..Len(t), e = ContentEnd(p, k, c)
    PROVE  Boundary(t, e, final) <=> CloserTold(t, e, k)
<1>1. Len(t) \in Nat /\ Len(Closer[k]) = 2 /\ Here(t, e, Closer[k])
  BY LenProperties, HeaderShapes DEF CloserShape, Cut
<1>2. t[e] = Closer[k][1]
  <2>1. 1 \in 1..2 /\ e + 1 - 1 = e /\ e <= Len(t)
    BY <1>1
  <2>2. QED
    BY <1>1, <2>1 DEF Here
<1>3. CASE e + 1 <= Len(t)
  BY <1>3, <1>1, CloserHere DEF CloserTold
<1>4. CASE e = Len(t) /\ k = "text"
  <2>1. t[e] = "[/res"
    BY <1>2, <1>4, CloserPieces
  <2>2. Boundary(t, e, final)
    BY <1>4, <2>1, UnfinishedText DEF Boundary
  <2>3. QED
    BY <1>4, <2>2 DEF CloserTold
<1>5. CASE e = Len(t) /\ k # "text"
  <2>1. Harmless(t, e)
    BY <1>1, <1>2, <1>5, HeaderShapes DEF CloserShape, Harmless
  <2>2. ~Boundary(t, e, final)
    BY <2>1, NoBoundary
  <2>3. QED
    BY <1>1, <1>5, <2>2 DEF CloserTold
<1>6. QED
  BY <1>1, <1>3, <1>4, <1>5

LEMMA EndsIs ==
    ASSUME NEW t \in Seq(Pieces), NEW p \in 1..Len(t), NEW k \in Kinds, NEW c, Cut(t, p, k, c),
           NEW final
    PROVE  Ends(t, p, final) = IF CloserTold(t, ContentEnd(p, k, c), k) THEN ContentEnd(p, k, c)
                               ELSE Len(t) + 1
<1> DEFINE a == p + Size(k)
           e == ContentEnd(p, k, c)
           n == Len(t)
           bounds == {q \in a..n : Boundary(t, q, final)} \cup {n + 1}
           r == IF CloserTold(t, e, k) THEN e ELSE n + 1
<1>1. Plain(c)
  BY DEF Cut
<1>2. /\ n \in Nat /\ a \in Nat /\ a >= 1 /\ e \in Nat /\ a <= e /\ a <= n + 1
  <2>1. p + Size(k) - 1 <= Len(t)
    BY DEF Cut
  <2>2. QED
    BY <1>1, <2>1, CutNumbers
<1>3. Begins(t, p, final) = a
  BY OpenerHere DEF Cut
<1>4. Ends(t, p, final) = S!Min(bounds)
  BY <1>3 DEF Ends
<1>5. \A q \in a..n : q < e => ~Boundary(t, q, final)
  <2>1. ASSUME NEW q \in a..n, q < e PROVE ~Boundary(t, q, final)
    <3>1. q \in 1..Len(t) /\ p + Size(k) <= q
      BY <1>2
    <3>2. QED
      BY <2>1, <3>1, Interior, NoBoundary
  <2>2. QED
    BY <2>1
<1>6. e <= n => (Boundary(t, e, final) <=> CloserTold(t, e, k))
  <2>1. e <= n => e \in 1..Len(t)
    BY <1>2
  <2>2. QED
    BY <2>1, CloserBoundary
<1>7. CloserTold(t, e, k) => e <= n
  BY <1>2 DEF CloserTold
<1>8. n = e \/ e + 1 <= n \/ e > n
  <2> HIDE DEF n, e
  <2>1. QED
    BY <1>2
<1>9. e < n => CloserTold(t, e, k)
  <2>1. e < n => e + 1 <= Len(t)
    <3> HIDE DEF e
    <3>1. QED
      BY <1>2
  <2>2. QED
    BY <2>1 DEF CloserTold
<1> HIDE DEF a, e, n
<1>10. r \in bounds
  <2>1. CASE CloserTold(t, e, k)
    BY <1>2, <1>6, <1>7, <2>1
  <2>2. CASE ~CloserTold(t, e, k)
    BY <2>2
  <2>3. QED
    BY <2>1, <2>2
<1>11. \A q \in bounds : r <= q
  <2>1. SUFFICES ASSUME NEW q \in a..n, Boundary(t, q, final) PROVE r <= q
    BY <1>2, <1>7
  <2>2. ~(q < e)
    BY <1>5, <2>1
  <2>3. CASE q = e
    BY <1>2, <1>6, <2>1, <2>3
  <2>4. CASE e < q
    BY <1>2, <1>9, <2>4
  <2>5. QED
    BY <1>2, <2>2, <2>3, <2>4
<1>12. bounds \in SUBSET Nat /\ bounds # {}
  BY <1>2
<1>13. S!Min(bounds) = r
  <2>1. S!Min(bounds) \in bounds /\ \A q \in bounds : S!Min(bounds) <= q
    <3> HIDE DEF bounds
    <3>1. QED
      BY <1>12, MinOf
  <2>2. PICK x : x = S!Min(bounds)
    OBVIOUS
  <2>3. x \in Nat /\ r \in Nat /\ x <= r /\ r <= x
    <3> HIDE DEF bounds, r
    <3>1. QED
      BY <1>10, <1>11, <1>12, <2>1, <2>2
  <2> HIDE DEF bounds, r
  <2>4. QED
    BY <2>2, <2>3
<1>14. QED
  BY <1>4, <1>13 DEF e, n

LEMMA AfterIs ==
    ASSUME NEW t \in Seq(Pieces), NEW p \in 1..Len(t), NEW k \in Kinds, NEW c, Cut(t, p, k, c),
           NEW final
    PROVE  After(t, p, final) = IF ContentEnd(p, k, c) + 1 <= Len(t) THEN ContentEnd(p, k, c) + 2
                                ELSE Ends(t, p, final)
<1> DEFINE e == ContentEnd(p, k, c)
           header == Header(t, p, final)
<1>1. Plain(c)
  BY DEF Cut
<1>2. Len(t) \in Nat /\ e \in Nat /\ e >= 1
  BY <1>1, CutNumbers
<1> HIDE DEF e
<1>3. header = Opener[k] /\ Opens(t, p, final) /\ KindOf(header) = k
  BY OpenerHere DEF Cut
<1>4. header \in Openings /\ ~UnfinishedAt(t, p, final) /\ header \notin Closings
  BY <1>3, OpeningsAreOpenings DEF Opens
<1>5. After(t, p, final) = AfterBlock(t, Ends(t, p, final), k)
  BY <1>3, <1>4 DEF After
<1>6. Len(Closer[k]) = 2
  BY HeaderLengths
<1>7. CASE e + 1 <= Len(t)
  <2>1. Ends(t, p, final) = e
    BY <1>7, EndsIs DEF CloserTold, e
  <2>2. StartsWith(t, e, Closer[k])
    <3>1. e \in 1..Len(t) /\ Here(t, e, Closer[k])
      BY <1>2, <1>7 DEF Cut, e
    <3>2. QED
      BY <1>7, <3>1, CloserHere
  <2>3. QED
    BY <1>5, <1>6, <1>7, <2>1, <2>2 DEF AfterBlock, e
<1>8. CASE ~(e + 1 <= Len(t))
  <2>1. PICK q : q = Ends(t, p, final)
    OBVIOUS
  <2>2. q = e \/ q = Len(t) + 1
    BY <2>1, EndsIs DEF e
  <2>3. ~(q + 2 - 1 <= Len(t))
    BY <1>2, <1>8, <2>2
  <2>4. ~StartsWith(t, q, Closer[k])
    BY <1>6, <2>3 DEF StartsWith
  <2>5. QED
    BY <1>5, <1>8, <2>1, <2>4 DEF AfterBlock, e
<1>9. QED
  BY <1>7, <1>8

(* How much of a content of n pieces there is, if it begins at a. *)
Visible(t, a, n) == IF Len(t) - a + 1 <= n THEN Len(t) - a + 1 ELSE n

(* The content of the block at p, as far as it goes. *)
Heard(t, p, k, c) == Trim(SubSeq(c, 1, Visible(t, p + Size(k), Len(c))))

(* The text ends where a first piece of a call's closer is taken for content.*)
InCloser(t, p, k, c) == k # "text" /\ ContentEnd(p, k, c) = Len(t)

LEMMA OpenedIs ==
    ASSUME NEW t \in Seq(Pieces), NEW p \in 1..Len(t), NEW k \in Kinds, NEW c, Cut(t, p, k, c),
           NEW final
    PROVE  /\ OpenedAt(t, p, final).kind = k /\ OpenedAt(t, p, final).bracket = TRUE
           /\ ~InCloser(t, p, k, c) => OpenedAt(t, p, final).content = Heard(t, p, k, c)
<1> DEFINE a == p + Size(k)
           e == ContentEnd(p, k, c)
           end == Ends(t, p, final)
           v == Visible(t, a, Len(c))
<1>1. Header(t, p, final) = Opener[k] /\ KindOf(Header(t, p, final)) = k /\ Begins(t, p, final) = a
  BY OpenerHere DEF Cut
<1>2. OpenedAt(t, p, final) = Block(k, SubSeq(t, a, end - 1))
  BY <1>1 DEF OpenedAt
<1>3. ASSUME k = "text" \/ e # Len(t) PROVE SubSeq(t, a, end - 1) = SubSeq(c, 1, v)
  <2>1. Plain(c) /\ p + Size(k) - 1 <= Len(t)
    BY DEF Cut
  <2>2. /\ Len(t) \in Nat /\ Len(c) \in Nat /\ a \in Nat /\ a >= 1 /\ e \in Nat /\ a <= Len(t) + 1
        /\ e = a + Len(c)
    BY <2>1, CutNumbers
  <2>3. v \in Nat /\ v <= Len(c)
    BY <2>2 DEF Visible
  <2>4. end = a + v
    <3>1. end = IF CloserTold(t, e, k) THEN e ELSE Len(t) + 1
      BY EndsIs
    <3> HIDE DEF a, e, end
    <3>2. CASE e <= Len(t)
      <4>1. CloserTold(t, e, k)
        BY <1>3, <2>2, <3>2 DEF CloserTold
      <4>2. QED
        BY <2>2, <3>1, <3>2, <4>1 DEF Visible
    <3>3. CASE ~(e <= Len(t))
      <4>1. ~CloserTold(t, e, k)
        BY <2>2, <3>3 DEF CloserTold
      <4>2. QED
        BY <2>2, <3>1, <3>3, <4>1 DEF Visible
    <3>4. QED
      BY <3>2, <3>3
  <2>5. \A x \in 1..v : t[a + x - 1] = c[x]
    <3> HIDE DEF a
    <3>1. ASSUME NEW x \in 1..v PROVE x \in 1..Len(c) /\ a + x - 1 <= Len(t)
      BY <2>2, <2>3 DEF Visible
    <3>2. Here(t, a, c)
      BY DEF Cut, a
    <3>3. QED
      BY <3>1, <3>2 DEF Here
  <2>6. PICK s : s = SubSeq(c, 1, v)
    OBVIOUS
  <2> HIDE DEF a, e, end, v
  <2>7. c \in Seq(Pieces)
    BY <2>1 DEF Plain
  <2>8. s \in Seq(Pieces) /\ Len(s) = v /\ \A i \in 1..v : s[i] = c[i]
    <3>1. /\ s \in Seq(Pieces) /\ Len(s) = (IF 1 <= v THEN v - 1 + 1 ELSE 0)
          /\ \A i \in 1..(v - 1 + 1) : s[i] = c[1 + i - 1]
      BY <2>3, <2>6, <2>7, SliceIs
    <3>2. v - 1 + 1 = v /\ \A i \in 1..v : 1 + i - 1 = i
      BY <2>3
    <3>3. Len(s) = v
      BY <2>3, <3>1
    <3>4. QED
      BY <3>1, <3>2, <3>3
  <2>9. /\ a \in Nat \ {0} /\ end - 1 \in Nat /\ end - 1 <= Len(t) /\ Len(s) = (end - 1) - a + 1
    <3>1. a + v <= Len(t) + 1
      BY <2>2, <2>3 DEF v, Visible
    <3>2. QED
      BY <2>2, <2>3, <2>4, <2>8, <3>1
  <2>10. \A x \in 1..Len(s) : t[a + x - 1] = s[x]
    BY <2>5, <2>8
  <2>11. SubSeq(t, a, end - 1) = s
    <3>1. PICK b : b = end - 1
      OBVIOUS
    <3>2. b \in Nat /\ b <= Len(t) /\ Len(s) = b - a + 1
      BY <2>9, <3>1
    <3>3. SubSeq(t, a, b) = s
      BY <2>8, <2>9, <2>10, <3>2, SliceEqual
    <3>4. QED
      BY <3>1, <3>3
  <2>12. QED
    BY <2>6, <2>11
<1>4. QED
  <2> HIDE DEF a, e, end, v
  <2>1. k = "text" \/ e # Len(t) => SubSeq(t, a, end - 1) = SubSeq(c, 1, v)
    BY <1>3
  <2>2. PICK b : b = OpenedAt(t, p, final)
    OBVIOUS
  <2>3. b.kind = k /\ b.bracket = TRUE /\ b.content = Trim(SubSeq(t, a, end - 1))
    BY <1>2, <2>2 DEF Block
  <2>4. k = "text" \/ e # Len(t) => b.content = Trim(SubSeq(c, 1, v))
    BY <2>1, <2>3
  <2>5. ~InCloser(t, p, k, c) => b.content = Heard(t, p, k, c)
    BY <2>4, Zenon DEF a, e, v, Heard, InCloser
  <2>6. QED
    BY <2>2, <2>3, <2>5

-----------------------------------------------------------------------------
(* A text without headers is stripped of nothing.                          *)

LEMMA OneOf ==
    ASSUME NEW E, NEW s \in Seq(E), NEW p \in 1..Len(s)
    PROVE  <<s[p]>> = SubSeq(s, p, p)
<1>1. PICK x : x = s[p]
  OBVIOUS
<1>2. x \in E
  BY <1>1, ElementOfSeq
<1>3. PICK o : o = <<x>>
  OBVIOUS
<1>4. o \in Seq(E) /\ Len(o) = 1 /\ o[1] = x
  BY <1>2, <1>3
<1>5. \A i \in 1..Len(o) : s[p + i - 1] = o[i]
  <2>1. ASSUME NEW i \in 1..Len(o) PROVE i = 1 /\ p + i - 1 = p
    BY <1>4
  <2>2. QED
    BY <1>1, <1>4, <2>1
<1>6. p \in Nat \ {0} /\ p <= Len(s) /\ Len(o) = p - p + 1
  BY <1>4, LenProperties
<1>7. SubSeq(s, p, p) = o
  BY <1>4, <1>5, <1>6, SliceEqual
<1>8. QED
  BY <1>1, <1>3, <1>7

LEMMA StripIs ==
    ASSUME NEW s \in Seq(Pieces), \A p \in 1..Len(s) : ~Closes(s, p) /\ ~Heads(s, p)
    PROVE  Strip(s) = s
<1> DEFINE n == Len(s)
<1>1. n \in Nat
  BY LenProperties
<1>2. PICK from : Strips(s, from) /\ \A p \in 1..(n + 1) : from[p] \in Seq(Pieces)
  BY StripExists
<1> DEFINE next == [p \in 1..n |-> p + 1]
           T == {p \in 1..(n + 1) : from[p] = SubSeq(s, p, n)}
<1>3. Forward(n, next)
  BY <1>1 DEF Forward
<1>4. n + 1 \in T
  <2>1. SubSeq(s, n + 1, n) = <<>>
    BY <1>1, SubSeqEmpty
  <2>2. from[n + 1] = <<>>
    BY <1>2 DEF Strips
  <2>3. n + 1 \in 1..(n + 1)
    BY <1>1
  <2>4. QED
    BY <2>1, <2>2, <2>3
<1>5. ASSUME NEW p \in 1..n, next[p] \in T PROVE p \in T
  <2>1. from[p + 1] = SubSeq(s, p + 1, n)
    BY <1>5
  <2>2. Behind(s, p) = p + 1
    BY DEF Behind
  <2>3. from[p] = <<s[p]>> \o from[p + 1]
    BY <1>2, <2>2 DEF Strips
  <2>4. <<s[p]>> = SubSeq(s, p, p)
    BY OneOf
  <2>5. SubSeq(s, p, p) \o SubSeq(s, p + 1, n) = SubSeq(s, p, n)
    <3>1. p \in 1..(n + 1) /\ p \in (p - 1)..n /\ n \in p..n
      BY <1>1
    <3>2. QED
      BY <3>1, ConcatAdjacentSubSeq
  <2>6. p \in 1..(n + 1)
    BY <1>1
  <2>7. QED
    BY <2>1, <2>3, <2>4, <2>5, <2>6
<1>6. 1 \in T
  <2>1. 1..(n + 1) \subseteq T
    <3> HIDE DEF T, next, n
    <3>1. QED
      BY <1>1, <1>3, <1>4, <1>5, Backwards
  <2>2. 1 \in 1..(n + 1)
    BY <1>1
  <2>3. QED
    BY <2>1, <2>2
<1>7. SubSeq(s, 1, n) = s
  BY SubSeqFull
<1>8. QED
  BY <1>2, <1>6, <1>7 DEF Strips

LEMMA StripHarmless ==
    ASSUME NEW s \in Seq(Pieces), \A p \in 1..Len(s) : Harmless(s, p)
    PROVE  Strip(s) = s
<1>1. ASSUME NEW p \in 1..Len(s) PROVE ~Closes(s, p) /\ ~Heads(s, p)
  BY NoBoundary
<1>2. QED
  BY <1>1, StripIs

(* A single piece. *)
LEMMA Single ==
    ASSUME NEW x \in Firsts
    PROVE  /\ <<x>> \in Seq(Pieces) /\ Strip(<<x>>) = <<x>> /\ Trim(<<x>>) = <<x>>
           /\ Unfinished(<<x>>) /\ <<x>> # <<>>
<1>1. PICK s : s = <<x>>
  OBVIOUS
<1>2. x \in Pieces /\ x # "nl"
  BY PieceSets DEF Pieces, Parts
<1>3. s \in Seq(Pieces) /\ Len(s) = 1 /\ s[1] = x /\ DOMAIN s = 1..1
  BY <1>1, <1>2
<1>4. Strip(s) = s
  <2>1. ASSUME NEW p \in 1..Len(s), NEW h \in Closings \cup Starts, StartsWith(s, p, h) PROVE FALSE
    <3>1. PICK n : n = Len(h)
      OBVIOUS
    <3>2. n \in {2, 3}
      BY <3>1, HeaderParts
    <3>3. p + n - 1 <= 1 /\ p \in 1..1
      BY <1>3, <2>1, <3>1 DEF StartsWith
    <3>4. QED
      BY <3>2, <3>3
  <2>2. QED
    BY <1>3, <2>1, StripIs DEF Closes, Heads
<1>5. Trim(s) = s
  <2> DEFINE words == {i \in DOMAIN s : s[i] # "nl"}
  <2>1. words = {1}
    BY <1>2, <1>3
  <2>2. S!Min({1}) = 1 /\ S!Max({1}) = 1
    BY DEF S!Min, S!Max
  <2>3. Trim(s) = SubSeq(s, 1, 1)
    BY <2>1, <2>2 DEF Trim
  <2>4. SubSeq(s, 1, Len(s)) = s
    BY <1>3, SubSeqFull
  <2>5. QED
    BY <1>3, <2>3, <2>4
<1>6. Unfinished(s)
  BY <1>3 DEF Unfinished
<1>7. s # <<>>
  BY <1>3, EmptySeq
<1>8. QED
  BY <1>1, <1>3, <1>4, <1>5, <1>6, <1>7

LEMMA TrimEmpty == Trim(<<>>) = <<>>
BY DEF Trim

(* What a text holds outside of blocks that are closed: nothing, or the     *)
(* bracket with which the next may begin, and neither is shown.            *)
Dangling(blocks) ==
    blocks = <<>> \/ \E x \in Firsts : blocks = <<[kind |-> "text", content |-> <<x>>, bracket |-> TRUE]>>

LEMMA DanglingIs ==
    ASSUME NEW chat, chat = <<>> \/ \E x \in Firsts : chat = <<x>>
    PROVE  Dangling(Implicit(Trim(chat)) \o <<>>)
<1>1. CASE chat = <<>>
  <2>1. Implicit(Trim(chat)) = <<>>
    BY <1>1, TrimEmpty DEF Implicit
  <2>2. <<>> \o <<>> = <<>>
    OBVIOUS
  <2>3. QED
    BY <2>1, <2>2 DEF Dangling
<1>2. ASSUME NEW x \in Firsts, chat = <<x>> PROVE Dangling(Implicit(Trim(chat)) \o <<>>)
  <2>1. Trim(chat) = chat /\ chat # <<>> /\ chat[1] = x
    BY <1>2, Single
  <2>2. PICK b : b = [kind |-> "text", content |-> <<x>>, bracket |-> TRUE]
    OBVIOUS
  <2>3. Implicit(Trim(chat)) = <<b>>
    BY <1>2, <2>1, <2>2 DEF Implicit
  <2>4. <<b>> \o <<>> = <<b>>
    OBVIOUS
  <2>5. QED
    BY <2>2, <2>3, <2>4 DEF Dangling
<1>3. QED
  BY <1>1, <1>2

(* There is nothing from p on but a beginning of a header. *)
Loose(t, p) ==
    \/ p = Len(t) + 1
    \/ p = Len(t) /\ t[p] \in Firsts
    \/ p + 1 = Len(t) /\ \E k \in Kinds \ {"text"} : Here(t, p, Opener[k])

(* Two parts of an opening header tell its kind. *)
LEMMA HalfOpener ==
    ASSUME NEW t \in Seq(Pieces), NEW p \in 1..Len(t), p + 1 = Len(t),
           NEW k \in Kinds \ {"text"}, Here(t, p, Opener[k])
    PROVE  /\ Heads(t, p) /\ \A final : UnfinishedAt(t, p, final)
           /\ t[p] \in Firsts
<1>1. PICK o : o = Opener[k]
  OBVIOUS
<1>2. OpenerShape(k, o) /\ o \in Seq(Pieces) /\ Len(o) = 3
  BY <1>1, HeaderShapes, HeadersTyped DEF OpenerShape, Size
<1>3. Len(t) \in Nat
  BY LenProperties
<1>4. t[p] = o[1] /\ t[p + 1] = o[2]
  <2>1. 1 \in 1..3 /\ 2 \in 1..3 /\ p + 1 - 1 = p /\ p + 2 - 1 = p + 1 /\ p <= Len(t) /\ p + 1 <= Len(t)
    BY <1>3
  <2>2. \A x \in 1..3 : p + x - 1 <= Len(t) => t[p + x - 1] = o[x]
    BY <1>1, <1>2 DEF Here
  <2>3. t[p + 1 - 1] = o[1] /\ t[p + 2 - 1] = o[2]
    BY <2>1, <2>2
  <2>4. QED
    BY <2>1, <2>3
<1>5. PICK s : s = SubSeq(o, 1, 2)
  OBVIOUS
<1>6. s \in Seq(Pieces) /\ Len(s) = 2 /\ s[1] = o[1] /\ s[2] = o[2]
  <2>1. \A i \in 1..2 : o[i] \in Pieces
    <3>1. \A i \in 1..2 : i \in 1..3
      OBVIOUS
    <3>2. QED
      BY <1>2, <3>1, ElementOfSeq
  <2>2. s \in Seq(Pieces)
    BY <1>5, <2>1, SubSeqProperties
  <2>3. Len(s) = 2
    BY <1>5, <2>1, SubSeqProperties
  <2>4. \A i \in 1..2 : s[i] = o[1 + i - 1]
    BY <1>5, <2>1, SubSeqProperties
  <2>5. s[1] = o[1] /\ s[2] = o[2]
    BY <2>4
  <2>6. QED
    BY <2>2, <2>3, <2>5
<1>7. s \in Starts
  BY <1>1, <1>5 DEF Starts
<1>8. StartsWith(t, p, s)
  <2>1. \A x \in 1..Len(s) : t[p + x - 1] = s[x]
    <3>1. ASSUME NEW x \in 1..Len(s) PROVE (x = 1 /\ p + x - 1 = p) \/ (x = 2 /\ p + x - 1 = p + 1)
      BY <1>3, <1>6
    <3>2. QED
      BY <1>4, <1>6, <3>1
  <2>2. PICK m : m = p + Len(s) - 1
    OBVIOUS
  <2>3. p \in Nat \ {0} /\ m \in Nat /\ m <= Len(t) /\ Len(s) = m - p + 1
    BY <1>3, <1>6, <2>2
  <2>4. SubSeq(t, p, m) = s
    BY <1>6, <2>1, <2>3, SliceEqual
  <2>5. QED
    BY <2>2, <2>3, <2>4 DEF StartsWith
<1>9. ASSUME NEW final PROVE UnfinishedAt(t, p, final)
  <2>1. ASSUME NEW q \in p..Len(t) PROVE t[q] \notin Brackets /\ t[q] # "nl"
    <3>1. q = p \/ q = p + 1
      BY <1>3
    <3>2. QED
      BY <1>2, <1>4, <3>1 DEF OpenerShape
  <2>2. Header(t, p, final) = <<>>
    BY <2>1, NoHeader
  <2>3. QED
    BY <1>2, <1>4, <1>7, <1>8, <2>2 DEF UnfinishedAt, OpenerShape
<1>10. QED
  BY <1>2, <1>4, <1>7, <1>8, <1>9 DEF Heads, OpenerShape

LEMMA LooseEnd ==
    ASSUME NEW t \in Seq(Pieces), NEW final, NEW from, Scans(t, final, from),
           NEW p \in 1..(Len(t) + 1), Loose(t, p)
    PROVE  Dangling(Implicit(Trim(from[p].chat)) \o from[p].blocks)
<1>0. Len(t) \in Nat
  BY LenProperties
<1>01. <<>> \notin Openings \cup Closings /\ ~Malformed(<<>>)
  <2>1. <<>> \notin Openings \cup Closings
    <3>1. PICK h : h = <<>>
      OBVIOUS
    <3>2. Len(h) = 0
      BY <3>1
    <3>3. h \notin Openings /\ h \notin Closings
      BY <3>2, HeaderLengths
    <3>4. QED
      BY <3>1, <3>3
  <2>2. ~Malformed(<<>>)
    BY EmptySeq DEF Malformed
  <2>3. QED
    BY <2>1, <2>2
<1>1. PICK past : past = from[p]
  OBVIOUS
<1>2. past.blocks = <<>> /\ (past.chat = <<>> \/ \E x \in Firsts : past.chat = <<x>>)
  <2>1. CASE p = Len(t) + 1
    BY <1>1, <2>1 DEF Scans
  <2>2. CASE p \in 1..Len(t) /\ UnfinishedAt(t, p, final)
    <3>1. past = From(t, p, final, from[After(t, p, final)])
      BY <1>1, <2>2 DEF Scans
    <3>2. Header(t, p, final) = <<>>
      BY <2>2 DEF UnfinishedAt
    <3>3. ~Opens(t, p, final)
      BY <2>2 DEF Opens
    <3>4. past = [chat |-> <<>>, blocks |-> <<>>]
      BY <1>01, <2>2, <3>1, <3>2, <3>3 DEF From
    <3>5. QED
      BY <3>4
  <2>3. CASE p = Len(t) /\ t[p] \in Firsts /\ ~UnfinishedAt(t, p, final) /\ p \in 1..Len(t)
    <3>1. past = From(t, p, final, from[After(t, p, final)])
      BY <1>1, <2>3 DEF Scans
    <3>2. Header(t, p, final) = <<>>
      <4>1. t[p] \notin Brackets /\ t[p] # "nl"
        BY <2>3, PieceSets DEF Brackets
      <4>2. \A q \in p..Len(t) : q = p
        BY <1>0, <2>3
      <4>3. QED
        BY <2>3, <4>1, <4>2, NoHeader
    <3>3. ~Opens(t, p, final)
      BY <1>01, <3>2 DEF Opens
    <3>4. After(t, p, final) = Len(t) + 1
      BY <1>01, <2>3, <3>2, <3>3 DEF After
    <3>5. from[After(t, p, final)] = [chat |-> <<>>, blocks |-> <<>>]
      BY <3>4 DEF Scans
    <3>6. PICK x : x = t[p]
      OBVIOUS
    <3>7. PICK end : end = [chat |-> <<>>, blocks |-> <<>>]
      OBVIOUS
    <3>8. past = [end EXCEPT !.chat = <<x>> \o @]
      BY <1>01, <2>3, <3>1, <3>2, <3>3, <3>5, <3>6, <3>7 DEF From
    <3>9. past.blocks = <<>> /\ past.chat = <<x>>
      <4>1. <<x>> \o <<>> = <<x>>
        OBVIOUS
      <4>2. QED
        BY <3>7, <3>8, <4>1
    <3>10. QED
      BY <2>3, <3>6, <3>9
  <2>4. CASE p + 1 = Len(t) /\ \E k \in Kinds \ {"text"} : Here(t, p, Opener[k])
    <3>1. p \in 1..Len(t)
      BY <1>0, <2>4
    <3>2. UnfinishedAt(t, p, final)
      BY <2>4, <3>1, HalfOpener
    <3>3. QED
      BY <2>2, <3>1, <3>2
  <2>5. p = Len(t) => p \in 1..Len(t)
    BY <1>0
  <2>6. QED
    BY <2>1, <2>2, <2>3, <2>4, <2>5 DEF Loose
<1>3. QED
  BY <1>1, <1>2, DanglingIs

-----------------------------------------------------------------------------
(* What the scan finds of a document whose blocks are all closed.          *)

(* The text is the beginning of one that spells d, whose blocks are at `at`.*)
Laid(t, d, at) ==
    /\ Len(d) \in Nat /\ at[1] = 1 /\ at[Len(d) + 1] \in Nat /\ Len(t) + 1 <= at[Len(d) + 1]
    /\ \A i \in 1..Len(d) :
          /\ d[i].kind \in Kinds /\ Plain(d[i].content) /\ at[i] \in Nat \ {0}
          /\ Here(t, at[i], Opener[d[i].kind])
          /\ Here(t, at[i] + Size(d[i].kind), d[i].content)
          /\ Here(t, ContentEnd(at[i], d[i].kind, d[i].content), Closer[d[i].kind])
          /\ at[i + 1] = ContentEnd(at[i], d[i].kind, d[i].content) + 2

(* There is the whole opening header of the block i. *)
Whole(t, d, at, i) == at[i] + Size(d[i].kind) - 1 <= Len(t)

LEMMA LaidNumbers ==
    ASSUME NEW t \in Seq(Pieces), NEW d, NEW at, Laid(t, d, at), NEW i \in 1..Len(d)
    PROVE  /\ Len(t) \in Nat /\ Len(d) \in Nat /\ i \in Nat /\ at[i] \in Nat /\ at[i] >= 1
           /\ d[i].kind \in Kinds /\ Size(d[i].kind) \in {2, 3} /\ Len(d[i].content) \in Nat
           /\ ContentEnd(at[i], d[i].kind, d[i].content) =
                 at[i] + Size(d[i].kind) + Len(d[i].content)
           /\ at[i + 1] = at[i] + Size(d[i].kind) + Len(d[i].content) + 2
<1>1. /\ d[i].kind \in Kinds /\ Plain(d[i].content) /\ at[i] \in Nat \ {0} /\ Len(d) \in Nat
      /\ at[i + 1] = ContentEnd(at[i], d[i].kind, d[i].content) + 2
  BY DEF Laid
<1>2. Len(t) \in Nat /\ Len(d[i].content) \in Nat
  BY <1>1, LenProperties DEF Plain
<1>3. QED
  BY <1>1, <1>2 DEF ContentEnd, Size

LEMMA LaidCut ==
    ASSUME NEW t \in Seq(Pieces), NEW d, NEW at, Laid(t, d, at), NEW i \in 1..Len(d),
           Whole(t, d, at, i)
    PROVE  at[i] \in 1..Len(t) /\ Cut(t, at[i], d[i].kind, d[i].content)
<1>1. at[i] \in 1..Len(t)
  <2>1. at[i] + Size(d[i].kind) - 1 <= Len(t)
    BY DEF Whole
  <2>2. QED
    BY <2>1, LaidNumbers
<1>2. QED
  BY <1>1 DEF Laid, Whole, Cut

(* The blocks of the document are one behind the other. *)
LEMMA Ascending ==
    ASSUME NEW t \in Seq(Pieces), NEW d, NEW at, Laid(t, d, at), NEW i \in 1..(Len(d) + 1),
           NEW l \in i..Len(d)
    PROVE  at[i] <= at[l]
<1> DEFINE n == Len(d)
           T == {x \in 1..n : i <= x => at[i] <= at[x]}
<1>0. n \in Nat /\ i \in 1..n /\ l \in 1..n
  BY DEF Laid
<1>1. \A x \in 1..n : at[x] \in Nat /\ (x + 1 \in 1..n => at[x] <= at[x + 1])
  <2>1. ASSUME NEW x \in 1..n PROVE at[x] \in Nat /\ at[x] <= at[x + 1]
    <3>1. PICK u : u = Size(d[x].kind)
      OBVIOUS
    <3>2. PICK v : v = Len(d[x].content)
      OBVIOUS
    <3>3. PICK a : a = at[x]
      OBVIOUS
    <3>4. a \in Nat /\ u \in {2, 3} /\ v \in Nat /\ at[x + 1] = a + u + v + 2
      BY <3>1, <3>2, <3>3, LaidNumbers
    <3>5. a <= a + u + v + 2
      BY <3>4
    <3>6. QED
      BY <3>3, <3>4, <3>5
  <2>2. QED
    BY <2>1
<1>2. 1 \in T
  BY <1>0, <1>1
<1>3. ASSUME NEW x \in 1..n, x + 1 \in 1..n, x \in T PROVE x + 1 \in T
  <2>1. at[x] \in Nat /\ at[x + 1] \in Nat /\ at[x] <= at[x + 1] /\ at[i] \in Nat
    BY <1>0, <1>1, <1>3
  <2>2. CASE i <= x
    BY <1>3, <2>1, <2>2
  <2>3. CASE i = x + 1
    BY <1>3, <2>1, <2>3
  <2>4. CASE i > x + 1
    BY <1>0, <1>3, <2>4
  <2>5. QED
    BY <1>0, <2>2, <2>3, <2>4
<1>4. 1..n \subseteq T
  <2> HIDE DEF T, n
  <2>1. QED
    BY <1>0, <1>2, <1>3, InductionTo
<1>5. QED
  BY <1>0, <1>4

(* It is all of that text. *)
Finished(t, d, at) == at[Len(d) + 1] = Len(t) + 1

(* From the block i on: each block that has its opening header is found in  *)
(* its place, and of nothing else there is a partial; of all the text, the  *)
(* blocks are all there is.                                                *)
Tells(t, d, at, final, i, blocks) ==
    /\ Finished(t, d, at) => Len(blocks) + i = Len(d) + 1
    /\ \A j \in 1..Len(blocks) :
          /\ blocks[j].bracket = TRUE
          /\ (i + j - 1 <= Len(d) /\ Whole(t, d, at, i + j - 1)) \/ ~IsPartial(blocks[j])
    /\ \A l \in i..Len(d) : Whole(t, d, at, l) =>
          (l - i) + 1 \in 1..Len(blocks) /\ blocks[(l - i) + 1] = OpenedAt(t, at[l], final)

LEMMA DanglingTells ==
    ASSUME NEW t, NEW d, NEW at, NEW final, NEW i \in Nat, NEW blocks, Dangling(blocks),
           \A l \in i..Len(d) : ~Whole(t, d, at, l),
           Finished(t, d, at) => blocks = <<>> /\ i = Len(d) + 1
    PROVE  Tells(t, d, at, final, i, blocks)
<1>1. CASE blocks = <<>>
  <2>1. Len(blocks) = 0
    BY <1>1, EmptySeq
  <2>2. Finished(t, d, at) => Len(blocks) + i = Len(d) + 1
    BY <2>1
  <2>3. QED
    BY <2>1, <2>2 DEF Tells
<1>2. CASE blocks # <<>>
  <2>1. PICK x \in Firsts : blocks = <<[kind |-> "text", content |-> <<x>>, bracket |-> TRUE]>>
    BY <1>2 DEF Dangling
  <2>2. PICK b : b = [kind |-> "text", content |-> <<x>>, bracket |-> TRUE]
    OBVIOUS
  <2>3. PICK s : s = <<b>>
    OBVIOUS
  <2>4. Len(s) = 1 /\ s[1] = b /\ blocks = s
    BY <2>1, <2>2, <2>3
  <2>5. b.bracket = TRUE /\ b.kind = "text" /\ b.content = <<x>>
    BY <2>2
  <2>6. ~IsPartial(b)
    BY <2>5, Single DEF IsPartial
  <2>7. \A j \in 1..Len(blocks) : blocks[j] = b
    <3>1. \A j \in 1..1 : j = 1
      OBVIOUS
    <3>2. QED
      BY <2>4, <3>1
  <2>8. ~Finished(t, d, at)
    BY <1>2
  <2>9. QED
    BY <2>5, <2>6, <2>7, <2>8 DEF Tells
<1>3. QED
  BY <1>1, <1>2

LEMMA OpenedTells ==
    ASSUME NEW t, NEW d, Len(d) \in Nat, NEW at, NEW final, NEW i \in 1..Len(d), NEW B,
           NEW rem \in Seq(B), NEW b \in B, b = OpenedAt(t, at[i], final), b.bracket = TRUE,
           Whole(t, d, at, i), Tells(t, d, at, final, i + 1, rem)
    PROVE  Tells(t, d, at, final, i, <<b>> \o rem)
<1>1. PICK s : s = <<b>>
  OBVIOUS
<1>2. s \in Seq(B) /\ Len(s) = 1 /\ s[1] = b
  BY <1>1
<1>3. PICK blocks : blocks = s \o rem
  OBVIOUS
<1>4. /\ Len(rem) \in Nat /\ Len(blocks) = Len(rem) + 1
      /\ \A j \in 1..(1 + Len(rem)) : blocks[j] = IF j <= 1 THEN s[j] ELSE rem[j - 1]
  <2>1. /\ Len(blocks) = Len(s) + Len(rem)
        /\ \A j \in 1..(Len(s) + Len(rem)) : blocks[j] = IF j <= Len(s) THEN s[j] ELSE rem[j - Len(s)]
    <3>1. s \in Seq(B) /\ rem \in Seq(B)
      BY <1>2
    <3>2. Len(s \o rem) = Len(s) + Len(rem)
      BY <3>1, ConcatProperties
    <3>3. \A j \in 1..(Len(s) + Len(rem)) :
             (s \o rem)[j] = IF j <= Len(s) THEN s[j] ELSE rem[j - Len(s)]
      BY <3>1, ConcatProperties
    <3>4. QED
      BY <1>3, <3>2, <3>3
  <2>2. Len(rem) \in Nat
    BY LenProperties
  <2>3. QED
    BY <1>2, <2>1, <2>2
<1>5. blocks[1] = b /\ \A j \in 1..Len(rem) : blocks[j + 1] = rem[j]
  <2>1. 1 \in 1..(1 + Len(rem))
    BY <1>4
  <2>2. ASSUME NEW j \in 1..Len(rem)
        PROVE  j + 1 \in 1..(1 + Len(rem)) /\ ~(j + 1 <= 1) /\ (j + 1) - 1 = j
    BY <1>4
  <2>3. blocks[1] = b
    <3>1. 1 <= 1
      OBVIOUS
    <3>2. QED
      BY <1>2, <1>4, <2>1, <3>1
  <2>4. \A j \in 1..Len(rem) : blocks[j + 1] = rem[j]
    BY <1>4, <2>2
  <2>5. QED
    BY <2>3, <2>4
<1>6. ASSUME NEW j \in 1..Len(blocks)
      PROVE  /\ blocks[j].bracket = TRUE
             /\ (i + j - 1 <= Len(d) /\ Whole(t, d, at, i + j - 1)) \/ ~IsPartial(blocks[j])
  <2>1. CASE j = 1
    <3>1. i + j - 1 = i
      BY <2>1
    <3>2. QED
      BY <1>5, <2>1, <3>1
  <2>2. CASE j # 1
    <3>1. j - 1 \in 1..Len(rem) /\ (j - 1) + 1 = j /\ (i + 1) + (j - 1) - 1 = i + j - 1
      <4>1. Len(rem) \in Nat /\ j \in 1..(Len(rem) + 1) /\ i \in Nat
        BY <1>4
      <4>2. QED
        BY <2>2, <4>1
    <3>2. blocks[j] = rem[j - 1]
      BY <1>5, <3>1
    <3>3. /\ rem[j - 1].bracket = TRUE
          /\ \/ (i + 1) + (j - 1) - 1 <= Len(d) /\ Whole(t, d, at, (i + 1) + (j - 1) - 1)
             \/ ~IsPartial(rem[j - 1])
      BY <3>1 DEF Tells
    <3>4. QED
      BY <3>1, <3>2, <3>3
  <2>3. QED
    BY <2>1, <2>2
<1>7. ASSUME NEW l \in i..Len(d), Whole(t, d, at, l)
      PROVE  (l - i) + 1 \in 1..Len(blocks) /\ blocks[(l - i) + 1] = OpenedAt(t, at[l], final)
  <2>1. CASE l = i
    <3>1. (l - i) + 1 = 1
      BY <2>1
    <3>2. QED
      BY <1>4, <1>5, <2>1, <3>1
  <2>2. CASE l # i
    <3>1. l \in (i + 1)..Len(d)
      BY <2>2
    <3>2. /\ (l - (i + 1)) + 1 \in 1..Len(rem)
          /\ rem[(l - (i + 1)) + 1] = OpenedAt(t, at[l], final)
      BY <1>7, <3>1 DEF Tells
    <3>3. (l - i) + 1 = ((l - (i + 1)) + 1) + 1
      BY <3>1
    <3>4. (l - i) + 1 \in 1..Len(blocks)
      BY <1>4, <3>2, <3>3
    <3>5. blocks[((l - (i + 1)) + 1) + 1] = rem[(l - (i + 1)) + 1]
      <4>1. PICK j : j = (l - (i + 1)) + 1
        OBVIOUS
      <4>2. blocks[j + 1] = rem[j]
        BY <1>5, <3>2, <4>1
      <4>3. QED
        BY <4>1, <4>2
    <3>6. QED
      BY <3>2, <3>3, <3>4, <3>5
  <2>3. QED
    BY <2>1, <2>2
<1>8. Finished(t, d, at) => Len(blocks) + i = Len(d) + 1
  <2>1. SUFFICES ASSUME Finished(t, d, at) PROVE Len(blocks) + i = Len(d) + 1
    OBVIOUS
  <2>2. Len(rem) + (i + 1) = Len(d) + 1
    BY <2>1 DEF Tells
  <2>3. QED
    BY <1>4, <2>2
<1>9. Tells(t, d, at, final, i, blocks)
  BY <1>6, <1>7, <1>8 DEF Tells
<1>10. QED
  BY <1>1, <1>3, <1>9

(* All blocks are found in all of the text. *)
LEMMA AllWhole ==
    ASSUME NEW t \in Seq(Pieces), NEW d, NEW at, Laid(t, d, at), Finished(t, d, at),
           NEW i \in 1..Len(d)
    PROVE  /\ Whole(t, d, at, i) /\ at[i + 1] <= Len(t) + 1
           /\ ContentEnd(at[i], d[i].kind, d[i].content) + 1 <= Len(t)
<1>1. PICK u : u = Size(d[i].kind)
  OBVIOUS
<1>2. PICK v : v = Len(d[i].content)
  OBVIOUS
<1>3. PICK a : a = at[i]
  OBVIOUS
<1>4. PICK e : e = ContentEnd(at[i], d[i].kind, d[i].content)
  OBVIOUS
<1>5. /\ a \in Nat /\ u \in {2, 3} /\ v \in Nat /\ at[i + 1] = a + u + v + 2 /\ e = a + u + v
      /\ Len(t) \in Nat /\ Len(d) \in Nat
  BY <1>1, <1>2, <1>3, <1>4, LaidNumbers
<1>6. at[i + 1] <= Len(t) + 1
  <2>1. CASE i = Len(d)
    BY <2>1, <1>5 DEF Finished
  <2>2. CASE i # Len(d)
    <3>1. i + 1 \in 1..Len(d) /\ Len(d) \in (i + 1)..Len(d) /\ Len(d) \in 1..Len(d)
      BY <1>5, <2>2
    <3>2. at[i + 1] <= at[Len(d)]
      <4>1. i + 1 \in 1..(Len(d) + 1)
        BY <1>5, <3>1
      <4>2. QED
        BY <3>1, <4>1, Ascending
    <3>3. PICK n : n = Len(d)
      OBVIOUS
    <3>4. PICK x : x = Size(d[n].kind)
      OBVIOUS
    <3>5. PICK y : y = Len(d[n].content)
      OBVIOUS
    <3>6. PICK z : z = at[n]
      OBVIOUS
    <3>7. z \in Nat /\ x \in {2, 3} /\ y \in Nat /\ at[n + 1] = z + x + y + 2
      <4>1. n \in 1..Len(d)
        BY <3>1, <3>3
      <4>2. /\ at[n] \in Nat /\ Size(d[n].kind) \in {2, 3} /\ Len(d[n].content) \in Nat
            /\ at[n + 1] = at[n] + Size(d[n].kind) + Len(d[n].content) + 2
        BY <4>1, LaidNumbers
      <4>3. QED
        BY <3>4, <3>5, <3>6, <4>2
    <3>8. at[n + 1] = Len(t) + 1 /\ at[i + 1] <= z
      BY <3>2, <3>3, <3>6 DEF Finished
    <3>9. PICK w : w = at[i + 1]
      OBVIOUS
    <3>10. w \in Nat /\ w <= z
      BY <1>5, <3>8, <3>9
    <3>11. z + x + y + 2 = Len(t) + 1
      BY <3>7, <3>8
    <3>12. w <= Len(t) + 1
      BY <1>5, <3>7, <3>10, <3>11
    <3>13. QED
      BY <3>9, <3>12
  <2>3. QED
    BY <2>1, <2>2
<1>7. a + u - 1 <= Len(t) /\ e + 1 <= Len(t)
  BY <1>5, <1>6
<1>8. QED
  BY <1>1, <1>3, <1>4, <1>6, <1>7 DEF Whole

(* No block is found behind the end of the text. *)
LEMMA NoneWhole ==
    ASSUME NEW t \in Seq(Pieces), NEW d, NEW at, Laid(t, d, at), NEW i \in 1..Len(d),
           at[i + 1] > Len(t) + 1
    PROVE  \A l \in (i + 1)..Len(d) : ~Whole(t, d, at, l)
<1> SUFFICES ASSUME NEW l \in (i + 1)..Len(d) PROVE ~Whole(t, d, at, l)
  OBVIOUS
<1>1. l \in 1..Len(d) /\ i + 1 \in 1..(Len(d) + 1)
  BY DEF Laid
<1>2. at[i + 1] <= at[l]
  BY <1>1, Ascending
<1>3. at[l] \in Nat /\ Size(d[l].kind) \in {2, 3} /\ Len(t) \in Nat
  BY <1>1, LaidNumbers
<1>4. at[i + 1] \in Nat
  <2>1. PICK u : u = Size(d[i].kind)
    OBVIOUS
  <2>2. PICK v : v = Len(d[i].content)
    OBVIOUS
  <2>3. PICK a : a = at[i]
    OBVIOUS
  <2>4. a \in Nat /\ u \in {2, 3} /\ v \in Nat /\ at[i + 1] = a + u + v + 2
    BY <2>1, <2>2, <2>3, LaidNumbers
  <2>5. a + u + v + 2 \in Nat
    BY <2>4
  <2>6. QED
    BY <2>4, <2>5
<1>5. at[l] + Size(d[l].kind) - 1 > Len(t)
  BY <1>2, <1>3, <1>4
<1>6. QED
  BY <1>3, <1>5 DEF Whole

LEMMA PartLoose ==
    ASSUME NEW t \in Seq(Pieces), NEW d, NEW at, Laid(t, d, at), NEW i \in 1..Len(d),
           at[i] <= Len(t) + 1, ~Whole(t, d, at, i)
    PROVE  /\ Loose(t, at[i]) /\ at[i] \in 1..(Len(t) + 1)
           /\ \A l \in i..Len(d) : ~Whole(t, d, at, l)
<1> DEFINE p == at[i]
           k == d[i].kind
<1>1. /\ Len(t) \in Nat /\ p \in Nat /\ p >= 1 /\ k \in Kinds /\ Size(k) \in {2, 3}
      /\ Len(d[i].content) \in Nat /\ at[i + 1] = p + Size(k) + Len(d[i].content) + 2
  BY LaidNumbers
<1>2. Here(t, p, Opener[k])
  BY DEF Laid
<1>3. ~(p + Size(k) - 1 <= Len(t)) /\ p <= Len(t) + 1
  BY DEF Whole
<1> HIDE DEF p
<1>4. p = Len(t) + 1 \/ p = Len(t) \/ (p + 1 = Len(t) /\ Size(k) = 3)
  BY <1>1, <1>3
<1>5. p = Len(t) => t[p] \in Firsts
  <2>1. ASSUME p = Len(t) PROVE t[p] \in Firsts
    <3>1. 1 \in 1..Len(Opener[k]) /\ Opener[k][1] \in Firsts
      BY <1>1, HeaderShapes DEF OpenerShape
    <3>2. p + 1 - 1 <= Len(t) /\ p + 1 - 1 = p
      BY <1>1, <2>1
    <3>3. t[p + 1 - 1] = Opener[k][1]
      BY <1>2, <3>1, <3>2 DEF Here
    <3>4. QED
      BY <3>1, <3>2, <3>3
  <2>2. QED
    BY <2>1
<1>6. Size(k) = 3 => k \in Kinds \ {"text"}
  BY <1>1 DEF Size
<1>7. Loose(t, p)
  BY <1>2, <1>4, <1>5, <1>6 DEF Loose
<1>8. \A l \in i..Len(d) : ~Whole(t, d, at, l)
  <2>1. at[i + 1] > Len(t) + 1
    <3>1. PICK u : u = Size(k)
      OBVIOUS
    <3>2. PICK v : v = Len(d[i].content)
      OBVIOUS
    <3>3. /\ Len(t) \in Nat /\ p \in Nat /\ u \in {2, 3} /\ v \in Nat /\ at[i + 1] = p + u + v + 2
          /\ ~(p + u - 1 <= Len(t))
      BY <1>1, <1>3, <3>1, <3>2
    <3>4. QED
      BY <3>3
  <2>2. \A l \in (i + 1)..Len(d) : ~Whole(t, d, at, l)
    BY <2>1, NoneWhole
  <2>3. \A l \in i..Len(d) : l = i \/ l \in (i + 1)..Len(d)
    BY DEF Laid
  <2>4. QED
    BY <2>2, <2>3
<1>9. p \in 1..(Len(t) + 1)
  BY <1>1, <1>3
<1>10. QED
  BY <1>7, <1>8, <1>9 DEF p

LEMMA ScanTells ==
    ASSUME NEW t \in Seq(Pieces), NEW final, NEW d, NEW at, Laid(t, d, at)
    PROVE  Tells(t, d, at, final, 1, All(t, final))
<1> DEFINE K == {"text"} \cup {KindOf(Header(t, p, final)) : p \in 1..Len(t)}
           B == Blocks(Pieces, K)
           n == Len(d)
<1>1. "text" \in K /\ \A p \in 1..Len(t) : KindOf(Header(t, p, final)) \in K
  OBVIOUS
<1> HIDE DEF K
<1>2. PICK from : /\ Scans(t, final, from)
                  /\ \A p \in 1..(Len(t) + 1) : from[p] \in Pasts(Pieces, K)
  BY <1>1, ScanExists
<1> DEFINE FoundFrom(p) == Implicit(Trim(from[p].chat)) \o from[p].blocks
<1>3. ASSUME NEW p \in 1..(Len(t) + 1)
      PROVE  /\ from[p].chat \in Seq(Pieces) /\ from[p].blocks \in Seq(B)
             /\ Implicit(Trim(from[p].chat)) \in Seq(B) /\ FoundFrom(p) \in Seq(B)
  <2>1. from[p].chat \in Seq(Pieces) /\ from[p].blocks \in Seq(B)
    BY <1>2 DEF Pasts
  <2>2. Implicit(Trim(from[p].chat)) \in Seq(B)
    BY <1>1, <2>1, TrimTyped, ImplicitTyped
  <2>3. QED
    BY <2>1, <2>2, ConcatProperties
<1>4. n \in Nat /\ Len(t) \in Nat
  BY LenProperties DEF Laid
<1>5. ASSUME NEW p \in 1..(Len(t) + 1), Loose(t, p), NEW i \in 1..(n + 1),
             \A l \in i..n : ~Whole(t, d, at, l),
             Finished(t, d, at) => p = Len(t) + 1 /\ i = n + 1
      PROVE  Tells(t, d, at, final, i, FoundFrom(p))
  <2>1. Dangling(FoundFrom(p))
    BY <1>2, <1>5, LooseEnd
  <2>2. i \in Nat
    BY <1>4
  <2>3. p = Len(t) + 1 => FoundFrom(p) = <<>>
    <3>1. SUFFICES ASSUME p = Len(t) + 1 PROVE FoundFrom(p) = <<>>
      OBVIOUS
    <3>2. from[p].chat = <<>> /\ from[p].blocks = <<>>
      <4>1. p > Len(t)
        BY <1>4, <3>1
      <4>2. from[p] = [chat |-> <<>>, blocks |-> <<>>]
        BY <1>2, <4>1 DEF Scans
      <4>3. QED
        BY <4>2
    <3>3. Implicit(Trim(from[p].chat)) = <<>>
      BY <3>2, TrimEmpty DEF Implicit
    <3>4. <<>> \o <<>> = <<>>
      OBVIOUS
    <3>5. QED
      BY <3>2, <3>3, <3>4
  <2> HIDE DEF FoundFrom
  <2>4. QED
    BY <1>5, <2>1, <2>2, <2>3, DanglingTells
<1> DEFINE next == [i \in 1..n |-> i + 1]
           T == {i \in 1..(n + 1) : at[i] <= Len(t) + 1 => Tells(t, d, at, final, i, FoundFrom(at[i]))}
<1>6. Forward(n, next)
  BY <1>4 DEF Forward
<1>7. n + 1 \in T
  <2>1. n + 1 \in 1..(n + 1) /\ \A l \in (n + 1)..n : FALSE
    BY <1>4
  <2>2. SUFFICES ASSUME at[n + 1] <= Len(t) + 1 PROVE Tells(t, d, at, final, n + 1, FoundFrom(at[n + 1]))
    BY <2>1
  <2>3. at[n + 1] = Len(t) + 1 /\ at[n + 1] \in 1..(Len(t) + 1)
    BY <1>4, <2>2 DEF Laid
  <2>4. Loose(t, at[n + 1])
    BY <2>3 DEF Loose
  <2> HIDE DEF FoundFrom
  <2>5. QED
    <3> HIDE DEF n
    <3>1. QED
      BY <1>5, <2>1, <2>3, <2>4
<1>8. ASSUME NEW i \in 1..n, next[i] \in T PROVE i \in T
  <2> DEFINE k == d[i].kind
             c == d[i].content
             p == at[i]
             e == ContentEnd(p, k, c)
             q == After(t, p, final)
             b == OpenedAt(t, p, final)
  <2>0. i \in 1..(n + 1) /\ i + 1 \in 1..(n + 1) /\ i + 1 \in T
    BY <1>4, <1>8
  <2>1. SUFFICES ASSUME p <= Len(t) + 1 PROVE Tells(t, d, at, final, i, FoundFrom(p))
    BY <2>0
  <2>2. CASE ~Whole(t, d, at, i)
    <3>1. Loose(t, p) /\ p \in 1..(Len(t) + 1) /\ \A l \in i..n : ~Whole(t, d, at, l)
      BY <2>1, <2>2, PartLoose
    <3>2. ~Finished(t, d, at)
      BY <2>2, AllWhole
    <3> HIDE DEF FoundFrom, p, n, T
    <3>3. QED
      BY <1>5, <2>0, <3>1, <3>2
  <2>3. CASE Whole(t, d, at, i)
    <3>1. p \in 1..Len(t) /\ Cut(t, p, k, c) /\ k \in Kinds /\ p \in 1..(Len(t) + 1)
      <4>1. p \in 1..Len(t) /\ Cut(t, p, k, c)
        BY <2>3, LaidCut
      <4>2. k \in Kinds
        BY LaidNumbers
      <4> HIDE DEF p
      <4>3. QED
        BY <1>4, <4>1, <4>2
    <3>2. /\ Opens(t, p, final) /\ ~UnfinishedAt(t, p, final) /\ KindOf(Header(t, p, final)) \in K
          /\ ~Malformed(Header(t, p, final)) /\ Header(t, p, final) \notin Closings
      <4>1. Opens(t, p, final) /\ KindOf(Header(t, p, final)) \in K
        BY <1>1, <3>1, OpenerHere DEF Cut
      <4>2. QED
        BY <4>1, OpeningsAreOpenings DEF Opens, Malformed
    <3>3. q \in 1..(Len(t) + 1)
      <4>1. q \in (p + 1)..(Len(t) + 1)
        BY <3>1, AfterForward
      <4> HIDE DEF q, p
      <4>2. QED
        BY <1>4, <3>1, <4>1
    <3>4. b \in B /\ b.bracket = TRUE
      BY <3>1, <3>2, OpenedTyped, OpenedIs
    <3>5. from[p].chat = <<>> /\ from[p].blocks = <<b>> \o Implicit(Trim(from[q].chat)) \o from[q].blocks
      <4>1. from[p] = From(t, p, final, from[q])
        BY <1>2, <3>1 DEF Scans
      <4>2. PICK past : past = from[q]
        OBVIOUS
      <4>3. PICK r : r = <<b>> \o Implicit(Trim(past.chat)) \o past.blocks
        OBVIOUS
      <4>4. From(t, p, final, past) = [chat |-> <<>>, blocks |-> r]
        BY <3>2, <4>3 DEF From
      <4> HIDE DEF b, q, p
      <4>5. from[p].chat = <<>> /\ from[p].blocks = r
        BY <4>1, <4>2, <4>4
      <4>6. QED
        BY <4>2, <4>3, <4>5
    <3>6. FoundFrom(p) = <<b>> \o FoundFrom(q)
      <4>1. PICK u : u = Implicit(Trim(from[q].chat))
        OBVIOUS
      <4>2. PICK v : v = from[q].blocks
        OBVIOUS
      <4>3. PICK s : s = <<b>>
        OBVIOUS
      <4> HIDE DEF b, q, p, B
      <4>4. s \in Seq(B) /\ u \in Seq(B) /\ v \in Seq(B)
        BY <1>3, <3>3, <3>4, <4>1, <4>2, <4>3
      <4>5. (s \o u) \o v = s \o (u \o v)
        <5>1. InAnyOrder(s, u, v)
          BY <4>4, Associative
        <5>2. QED
          BY <5>1 DEF InAnyOrder
      <4>6. Implicit(Trim(from[p].chat)) = <<>>
        BY <3>5, TrimEmpty DEF Implicit
      <4>7. from[p].blocks = s \o (u \o v) /\ s \o (u \o v) \in Seq(B)
        <5>1. u \o v \in Seq(B)
          BY <4>4, ConcatProperties
        <5>2. s \o (u \o v) \in Seq(B)
          BY <4>4, <5>1, ConcatProperties
        <5>3. QED
          BY <3>5, <4>1, <4>2, <4>3, <4>5, <5>2
      <4>8. FoundFrom(p) = s \o (u \o v)
        BY <4>6, <4>7, ConcatEmptySeq
      <4>9. QED
        BY <4>1, <4>2, <4>3, <4>8
    <3>7. Tells(t, d, at, final, i + 1, FoundFrom(q))
      <4>1. /\ Len(t) \in Nat /\ e \in Nat /\ at[i + 1] = e + 2 /\ e >= 1
        <5>1. at[i + 1] = e + 2
          BY DEF Laid
        <5>2. e = at[i] + Size(k) + Len(c) /\ at[i] \in Nat /\ at[i] >= 1 /\ Size(k) \in {2, 3} /\ Len(c) \in Nat
          BY LaidNumbers
        <5>3. PICK x : x = at[i]
          OBVIOUS
        <5>4. PICK y : y = Size(k)
          OBVIOUS
        <5>5. PICK z : z = Len(c)
          OBVIOUS
        <5> HIDE DEF e, k, c, p
        <5>6. e = x + y + z /\ x \in Nat /\ x >= 1 /\ y \in {2, 3} /\ z \in Nat
          BY <5>2, <5>3, <5>4, <5>5
        <5>7. QED
          BY <1>4, <5>1, <5>6
      <4>2. q = IF e + 1 <= Len(t) THEN e + 2 ELSE Ends(t, p, final)
        BY <3>1, AfterIs
      <4>3. Ends(t, p, final) = IF CloserTold(t, e, k) THEN e ELSE Len(t) + 1
        BY <3>1, EndsIs
      <4>4. Here(t, e, Closer[k])
        BY DEF Laid
      <4> HIDE DEF e, q, p, k, FoundFrom, n
      <4>5. CASE e + 1 <= Len(t)
        <5>1. q = at[i + 1] /\ at[i + 1] <= Len(t) + 1
          BY <4>1, <4>2, <4>5
        <5>2. QED
          BY <2>0, <5>1
      <4>6. CASE ~(e + 1 <= Len(t))
        <5>1. at[i + 1] > Len(t) + 1
          BY <4>1, <4>6
        <5>2. \A l \in (i + 1)..n : ~Whole(t, d, at, l)
          BY <5>1, NoneWhole DEF n
        <5>3. Loose(t, q)
          <6>1. CASE q = Len(t) + 1
            BY <6>1 DEF Loose
          <6>2. CASE q # Len(t) + 1
            <7>1. q = e /\ e = Len(t)
              BY <4>1, <4>2, <4>3, <4>6, <6>2 DEF CloserTold
            <7>2. t[e] \in Firsts
              <8>1. 1 \in 1..Len(Closer[k]) /\ Closer[k][1] \in Firsts
                BY <3>1, HeaderShapes DEF CloserShape
              <8>2. e + 1 - 1 <= Len(t) /\ e + 1 - 1 = e
                BY <4>1, <7>1
              <8>3. t[e + 1 - 1] = Closer[k][1]
                BY <4>4, <8>1, <8>2 DEF Here
              <8>4. QED
                BY <8>1, <8>2, <8>3
            <7>3. QED
              BY <7>1, <7>2 DEF Loose
          <6>3. QED
            BY <6>1, <6>2
        <5>4. ~Finished(t, d, at)
          <6>1. Finished(t, d, at) => at[i + 1] <= Len(t) + 1
            BY AllWhole DEF n
          <6>2. QED
            BY <4>1, <5>1, <6>1
        <5>5. QED
          BY <1>5, <2>0, <3>3, <5>2, <5>3, <5>4
      <4>7. QED
        BY <4>5, <4>6
    <3>8. Tells(t, d, at, final, i, <<b>> \o FoundFrom(q))
      <4>1. Len(d) \in Nat /\ i \in 1..Len(d) /\ FoundFrom(q) \in Seq(B) /\ b = OpenedAt(t, at[i], final)
        BY <1>3, <1>4, <3>3
      <4>2. PICK r : r = FoundFrom(q)
        OBVIOUS
      <4> HIDE DEF b, q, p, FoundFrom, B
      <4>3. QED
        BY <2>3, <3>4, <3>7, <4>1, <4>2, OpenedTells
    <3>9. QED
      BY <3>6, <3>8
  <2>4. QED
    BY <2>2, <2>3
<1>9. 1 \in T
  <2>1. 1..(n + 1) \subseteq T
    <3> HIDE DEF T, next, n
    <3>1. QED
      BY <1>4, <1>6, <1>7, <1>8, Backwards
  <2>2. 1 \in 1..(n + 1)
    BY <1>4
  <2>3. QED
    BY <2>1, <2>2
<1>10. at[1] = 1 /\ 1 <= Len(t) + 1
  BY <1>4 DEF Laid
<1>11. Tells(t, d, at, final, 1, FoundFrom(1))
  BY <1>9, <1>10
<1>12. All(t, final) = FoundFrom(1)
  BY <1>2 DEF Scans
<1>13. QED
  BY <1>11, <1>12

(* Where all blocks have a bracket, all are answers. *)
LEMMA AnswersIs ==
    ASSUME NEW B, NEW blocks \in Seq(B), \A i \in 1..Len(blocks) : blocks[i].bracket = TRUE
    PROVE  Answers(blocks) = blocks
<1> DEFINE n == Len(blocks)
           g == [i \in DOMAIN blocks |-> IF blocks[i].bracket THEN <<blocks[i]>> ELSE <<>>]
<1>1. n \in Nat /\ DOMAIN blocks = 1..n
  BY LenProperties
<1>2. CASE n = 0
  BY <1>1, <1>2 DEF Answers
<1>3. CASE n # 0
  <2>1. g = [i \in 1..n |-> SubSeq(blocks, i, i)]
    <3>1. ASSUME NEW i \in 1..n
          PROVE  (IF blocks[i].bracket THEN <<blocks[i]>> ELSE <<>>) = SubSeq(blocks, i, i)
      BY OneOf
    <3>2. QED
      BY <1>1, <3>1
  <2> HIDE DEF g
  <2>2. g \in [1..n -> Seq(B)]
    <3>1. ASSUME NEW i \in 1..n PROVE SubSeq(blocks, i, i) \in Seq(B)
      <4>1. i \in Nat \ {0} /\ i \in Int /\ i <= Len(blocks)
        BY <1>1
      <4>2. QED
        BY <4>1, SliceIs
    <3>2. QED
      BY <2>1, <3>1
  <2>3. g \in Seq(Seq(B)) /\ Len(g) = n
    <3> HIDE DEF n
    <3>1. QED
      BY <1>1, <2>2, SeqOf
  <2>4. g # <<>>
    BY <1>3, <2>3, EmptySeq
  <2>5. PICK f : Joins(g, f) /\ S!FlattenSeq(g) = f[n]
    BY <2>3, <2>4, FlattenJoins
  <2> DEFINE T == {i \in 1..n : f[i] = SubSeq(blocks, 1, i)}
  <2>6. 1 \in T
    <3>1. 1 \in 1..n
      BY <1>1, <1>3
    <3>2. f[1] = g[1]
      BY <2>3, <2>5, <3>1 DEF Joins
    <3>3. QED
      BY <2>1, <3>1, <3>2
  <2>7. ASSUME NEW i \in 1..n, i + 1 \in 1..n, i \in T PROVE i + 1 \in T
    <3>1. i + 1 # 1 /\ (i + 1) - 1 = i
      BY <1>1
    <3>2. f[i + 1] = f[i] \o g[i + 1]
      BY <2>3, <2>5, <2>7, <3>1 DEF Joins
    <3>3. f[i + 1] = SubSeq(blocks, 1, i) \o SubSeq(blocks, i + 1, i + 1)
      BY <2>1, <2>7, <3>2
    <3>4. 1 \in 1..(n + 1) /\ i \in (1 - 1)..n /\ i + 1 \in i..n
      BY <1>1, <2>7
    <3>5. SubSeq(blocks, 1, i) \o SubSeq(blocks, i + 1, i + 1) = SubSeq(blocks, 1, i + 1)
      BY <3>4, ConcatAdjacentSubSeq
    <3>6. QED
      BY <2>7, <3>3, <3>5
  <2>8. n \in T
    <3>1. 1..n \subseteq T
      <4> HIDE DEF T, n
      <4>1. QED
        BY <1>1, <2>6, <2>7, InductionTo
    <3>2. QED
      BY <1>1, <1>3, <3>1
  <2>9. S!FlattenSeq(g) = blocks
    BY <2>5, <2>8, SubSeqFull
  <2>10. \E i \in DOMAIN blocks : blocks[i].bracket
    <3>1. 1 \in 1..n
      BY <1>1, <1>3
    <3>2. QED
      BY <1>1, <3>1
  <2>11. QED
    BY <2>9, <2>10 DEF Answers, g
<1>4. QED
  BY <1>2, <1>3

(* Before the first opening header is there, there is nothing to show. *)
LEMMA FallbackIs ==
    ASSUME NEW t \in Seq(Pieces), NEW final, Loose(t, 1)
    PROVE  Fallback(t, final) = <<>>
<1>0. Len(t) \in Nat
  BY LenProperties
<1>1. CASE Len(t) = 0
  <2>1. Strip(t) = t
    <3>1. \A p \in 1..Len(t) : FALSE
      BY <1>1
    <3>2. QED
      BY <3>1, StripIs
  <2>2. t = <<>>
    BY <1>1, EmptySeq
  <2>3. QED
    BY <2>1, <2>2, TrimEmpty DEF Fallback
<1>2. CASE 1 = Len(t) /\ t[1] \in Firsts
  <2>1. PICK x : x = t[1]
    OBVIOUS
  <2>2. t = <<x>>
    <3>1. <<t[1]>> = SubSeq(t, 1, 1)
      BY <1>2, OneOf
    <3>2. SubSeq(t, 1, Len(t)) = t
      BY SubSeqFull
    <3>3. QED
      BY <1>2, <2>1, <3>1, <3>2
  <2>3. x \in Firsts
    BY <1>2, <2>1
  <2>4. Strip(t) = t /\ Trim(t) = t /\ Unfinished(t)
    BY <2>2, <2>3, Single
  <2>5. QED
    BY <2>4 DEF Fallback
<1>3. CASE Len(t) = 2 /\ \E k \in Kinds \ {"text"} : Here(t, 1, Opener[k])
  <2>1. PICK k \in Kinds \ {"text"} : Here(t, 1, Opener[k])
    BY <1>3
  <2>2. Heads(t, 1) /\ 1 \in 1..Len(t) /\ Len(t) = 2
    <3>1. 1 \in 1..Len(t) /\ Len(t) = 2 /\ 1 + 1 = Len(t)
      <4>1. Len(t) = 2
        BY <1>3
      <4>2. QED
        BY <4>1
    <3>2. QED
      BY <2>1, <3>1, HalfOpener
  <2>3. ~Closes(t, 1)
    <3>1. SUFFICES ASSUME NEW h \in Closings, StartsWith(t, 1, h) PROVE FALSE
      BY DEF Closes
    <3>2. Len(h) \in {2, 3}
      BY HeaderParts
    <3>3. t[1 + 1] = h[2]
      <4>1. PICK p : p = 1
        OBVIOUS
      <4>2. p \in 1..Len(t) /\ StartsWith(t, p, h)
        BY <2>2, <3>1, <4>1
      <4>3. t[p + 1] = h[2]
        BY <3>2, <4>2, StartsHere
      <4>4. QED
        BY <4>1, <4>3
    <3>4. t[2] = Opener[k][2]
      <4>1. 2 \in 1..Len(Opener[k])
        BY <2>1, HeaderShapes DEF OpenerShape, Size
      <4>2. 1 + 2 - 1 <= Len(t)
        BY <2>2
      <4>3. t[1 + 2 - 1] = Opener[k][2]
        BY <2>1, <4>1, <4>2 DEF Here
      <4>4. QED
        BY <4>3
    <3>5. PICK j \in Kinds : h = Closer[j]
      BY DEF Closings
    <3>6. Opener[k][2] # Closer[j][2]
      BY <2>1, OpenerPieces, CloserPieces DEF Kinds
    <3>7. QED
      BY <3>3, <3>4, <3>5, <3>6
  <2>4. Behind(t, 1) = Len(t) + 1
    <3>1. {q \in (1 + 2)..Len(t) : t[q] \in Brackets \cup Firsts \cup {"nl"}} = {}
      BY <2>2
    <3>2. QED
      BY <2>2, <2>3, <3>1 DEF Behind
  <2>5. PICK from : Strips(t, from)
    BY StripExists
  <2>6. Strip(t) = <<>> \o <<>>
    BY <2>2, <2>4, <2>5 DEF Strips
  <2>7. Strip(t) = <<>>
    BY <2>6
  <2>8. QED
    BY <2>7, TrimEmpty DEF Fallback
<1>4. QED
  BY <1>0, <1>1, <1>2, <1>3 DEF Loose

LEMMA FoundTells ==
    ASSUME NEW t \in Seq(Pieces), NEW final, NEW d, NEW at, Laid(t, d, at)
    PROVE  Tells(t, d, at, final, 1, Found(t, final))
<1> DEFINE K == {"text"} \cup {KindOf(Header(t, p, final)) : p \in 1..Len(t)}
<1>1. PICK blocks : blocks = All(t, final)
  OBVIOUS
<1>2. blocks \in Seq(Blocks(Pieces, K))
  <2>1. "text" \in K /\ \A p \in 1..Len(t) : KindOf(Header(t, p, final)) \in K
    OBVIOUS
  <2> HIDE DEF K
  <2>2. QED
    BY <1>1, <2>1, AllTyped
<1>3. Tells(t, d, at, final, 1, blocks)
  BY <1>1, ScanTells
<1>4. Scan(t, final) = blocks
  BY <1>1, <1>2, <1>3, AnswersIs DEF Scan, Tells
<1>5. CASE blocks # <<>>
  BY <1>3, <1>4, <1>5 DEF Found
<1>6. CASE blocks = <<>>
  <2>1. Len(blocks) = 0
    BY <1>6, EmptySeq
  <2>2. \A l \in 1..Len(d) : ~Whole(t, d, at, l)
    <3>1. ASSUME NEW l \in 1..Len(d), Whole(t, d, at, l) PROVE FALSE
      <4>1. (l - 1) + 1 \in 1..Len(blocks)
        BY <1>3, <3>1 DEF Tells
      <4>2. QED
        BY <2>1, <4>1
    <3>2. QED
      BY <3>1
  <2>3. Loose(t, 1)
    <3>0. Len(t) \in Nat /\ Len(d) \in Nat /\ at[1] = 1 /\ Len(t) + 1 <= at[Len(d) + 1]
      BY LenProperties DEF Laid
    <3>1. CASE Len(d) = 0
      <4>1. 1 = Len(t) + 1
        BY <3>0, <3>1
      <4>2. QED
        BY <4>1 DEF Loose
    <3>2. CASE Len(d) # 0
      <4>1. 1 \in 1..Len(d) /\ at[1] <= Len(t) + 1
        BY <3>0, <3>2
      <4>2. Loose(t, at[1])
        BY <2>2, <4>1, PartLoose
      <4>3. QED
        BY <3>0, <4>2
    <3>3. QED
      BY <3>1, <3>2
  <2>4. Found(t, final) = blocks
    BY <1>4, <1>6, <2>3, FallbackIs DEF Found
  <2>5. QED
    BY <1>3, <2>4
<1>7. QED
  BY <1>5, <1>6

-----------------------------------------------------------------------------
(* What was said so far only grows.                                        *)

LEMMA PrefixIs ==
    ASSUME NEW E, NEW a \in Seq(E), NEW b \in Seq(E)
    PROVE  IsPrefix(a, b) <=> Len(a) <= Len(b) /\ \A i \in 1..Len(a) : a[i] = b[i]
<1>1. Len(a) \in Nat /\ Len(b) \in Nat
  BY LenProperties
<1>2. ASSUME IsPrefix(a, b) PROVE Len(a) <= Len(b) /\ \A i \in 1..Len(a) : a[i] = b[i]
  <2>1. Len(a) <= Len(b) /\ SubSeq(b, 1, Len(a)) = a
    BY <1>2 DEF IsPrefix
  <2>2. \A i \in 1..(Len(a) - 1 + 1) : SubSeq(b, 1, Len(a))[i] = b[1 + i - 1]
    BY <1>1, <2>1, SliceIs
  <2>3. ASSUME NEW i \in 1..Len(a) PROVE i \in 1..(Len(a) - 1 + 1) /\ 1 + i - 1 = i
    BY <1>1
  <2>4. QED
    BY <2>1, <2>2, <2>3
<1>3. ASSUME Len(a) <= Len(b), \A i \in 1..Len(a) : a[i] = b[i] PROVE IsPrefix(a, b)
  <2>1. \A i \in 1..Len(a) : b[1 + i - 1] = a[i]
    <3>1. \A i \in 1..Len(a) : 1 + i - 1 = i
      OBVIOUS
    <3>2. QED
      BY <1>3, <3>1
  <2>2. PICK n : n = Len(a)
    OBVIOUS
  <2>3. n \in Nat /\ n <= Len(b) /\ Len(a) = n - 1 + 1
    BY <1>1, <1>3, <2>2
  <2>4. SubSeq(b, 1, n) = a
    BY <2>1, <2>3, SliceEqual
  <2>5. QED
    BY <1>3, <2>2, <2>4 DEF IsPrefix
<1>4. QED
  BY <1>2, <1>3

LEMMA PrefixOfEmpty ==
    ASSUME NEW E, NEW b \in Seq(E)
    PROVE  IsPrefix(<<>>, b)
<1>1. <<>> \in Seq(E) /\ Len(<<>>) = 0 /\ Len(b) \in Nat
  BY EmptySeq, LenProperties
<1>2. \A i \in 1..Len(<<>>) : FALSE
  BY <1>1
<1>3. PICK a : a = <<>>
  OBVIOUS
<1>4. a \in Seq(E) /\ Len(a) <= Len(b) /\ \A i \in 1..Len(a) : a[i] = b[i]
  BY <1>1, <1>2, <1>3
<1>5. IsPrefix(a, b)
  BY <1>4, PrefixIs
<1>6. QED
  BY <1>3, <1>5

LEMMA TrimPrefix ==
    ASSUME NEW E, NEW a \in Seq(E), NEW b \in Seq(E), IsPrefix(a, b)
    PROVE  IsPrefix(Trim(a), Trim(b))
<1> DEFINE A == {i \in DOMAIN a : a[i] # "nl"}
           B == {i \in DOMAIN b : b[i] # "nl"}
           m == S!Min(A)
           x == S!Max(A)
           y == S!Max(B)
<1>1. /\ Len(a) \in Nat /\ Len(b) \in Nat /\ DOMAIN a = 1..Len(a) /\ DOMAIN b = 1..Len(b)
      /\ Len(a) <= Len(b) /\ \A i \in 1..Len(a) : a[i] = b[i]
  BY LenProperties, PrefixIs
<1>2. CASE A = {}
  <2>1. Trim(a) = <<>>
    BY <1>2 DEF Trim
  <2>2. Trim(b) \in Seq(E)
    BY TrimTyped
  <2>3. QED
    BY <2>1, <2>2, PrefixOfEmpty
<1>3. CASE A # {}
  <2>1. /\ A \in SUBSET Nat /\ A \in SUBSET (1..Len(a)) /\ B \in SUBSET Nat /\ B \in SUBSET (1..Len(b))
        /\ A \subseteq B /\ B # {} /\ \A i \in B : i <= Len(a) => i \in A
    BY <1>1, <1>3
  <2>2. Trim(a) = SubSeq(a, m, x) /\ Trim(b) = SubSeq(b, S!Min(B), y)
    BY <1>3, <2>1 DEF Trim
  <2> HIDE DEF A, B
  <2>3. m \in A /\ (\A i \in A : m <= i) /\ x \in A /\ (\A i \in A : x >= i)
    BY <1>1, <1>3, <2>1, MinOf, MaxOf
  <2>4. S!Min(B) \in B /\ (\A i \in B : S!Min(B) <= i) /\ y \in B /\ (\A i \in B : y >= i)
    BY <1>1, <2>1, MinOf, MaxOf
  <2> HIDE DEF m, x, y
  <2>5. S!Min(B) = m
    <3>1. PICK z : z = S!Min(B)
      OBVIOUS
    <3>2. z \in B /\ (\A i \in B : z <= i) /\ z \in Nat /\ m \in Nat /\ m <= Len(a)
      <4>1. z \in B /\ \A i \in B : z <= i
        BY <2>4, <3>1
      <4>2. z \in Nat
        BY <2>1, <4>1
      <4>3. m \in 1..Len(a)
        BY <2>1, <2>3
      <4>4. QED
        BY <1>1, <4>1, <4>2, <4>3
    <3>3. z <= m
      BY <2>1, <2>3, <3>2
    <3>4. m <= z
      BY <1>1, <2>1, <2>3, <3>2, <3>3
    <3>5. QED
      BY <3>1, <3>2, <3>3, <3>4
  <2>6. /\ m \in Nat \ {0} /\ x \in Nat /\ y \in Nat /\ m <= x /\ x <= y /\ x <= Len(a) /\ y <= Len(b)
    BY <1>1, <2>1, <2>3, <2>4
  <2>7. PICK u : u = SubSeq(a, m, x)
    OBVIOUS
  <2>8. PICK v : v = SubSeq(b, m, y)
    OBVIOUS
  <2>9. u \in Seq(E) /\ Len(u) = x - m + 1 /\ \A i \in 1..(x - m + 1) : u[i] = a[m + i - 1]
    <3>1. /\ SubSeq(a, m, x) \in Seq(E)
          /\ Len(SubSeq(a, m, x)) = (IF m <= x THEN x - m + 1 ELSE 0)
          /\ \A i \in 1..(x - m + 1) : SubSeq(a, m, x)[i] = a[m + i - 1]
      BY <2>6, SliceIs
    <3>2. QED
      BY <2>6, <2>7, <3>1
  <2>10. v \in Seq(E) /\ Len(v) = y - m + 1 /\ \A i \in 1..(y - m + 1) : v[i] = b[m + i - 1]
    <3>1. m <= y
      BY <2>6
    <3>2. /\ SubSeq(b, m, y) \in Seq(E)
          /\ Len(SubSeq(b, m, y)) = (IF m <= y THEN y - m + 1 ELSE 0)
          /\ \A i \in 1..(y - m + 1) : SubSeq(b, m, y)[i] = b[m + i - 1]
      BY <2>6, SliceIs
    <3>3. QED
      BY <2>8, <3>1, <3>2
  <2>11. \A i \in 1..Len(u) : u[i] = v[i]
    <3>1. ASSUME NEW i \in 1..Len(u)
          PROVE  i \in 1..(x - m + 1) /\ i \in 1..(y - m + 1) /\ m + i - 1 \in 1..Len(a)
      BY <1>1, <2>6, <2>9
    <3>2. QED
      BY <1>1, <2>9, <2>10, <3>1
  <2>12. Len(u) <= Len(v)
    BY <2>6, <2>9, <2>10
  <2>13. IsPrefix(u, v)
    BY <2>9, <2>10, <2>11, <2>12, PrefixIs
  <2>14. QED
    BY <2>2, <2>5, <2>7, <2>8, <2>13
<1>4. QED
  BY <1>2, <1>3

LEMMA SlicePrefix ==
    ASSUME NEW E, NEW s \in Seq(E), NEW u \in Int, NEW v \in Int, u <= v, v <= Len(s)
    PROVE  IsPrefix(SubSeq(s, 1, u), SubSeq(s, 1, v))
<1>1. u <= Len(s) /\ Len(s) \in Nat
  BY LenProperties
<1>2. PICK a : a = SubSeq(s, 1, u)
  OBVIOUS
<1>3. PICK b : b = SubSeq(s, 1, v)
  OBVIOUS
<1>4. /\ a \in Seq(E) /\ Len(a) = (IF 1 <= u THEN u - 1 + 1 ELSE 0)
      /\ \A i \in 1..(u - 1 + 1) : a[i] = s[1 + i - 1]
  BY <1>1, <1>2, SliceIs
<1>5. /\ b \in Seq(E) /\ Len(b) = (IF 1 <= v THEN v - 1 + 1 ELSE 0)
      /\ \A i \in 1..(v - 1 + 1) : b[i] = s[1 + i - 1]
  BY <1>1, <1>3, SliceIs
<1>6. Len(a) <= Len(b)
  BY <1>4, <1>5
<1>7. ASSUME NEW i \in 1..Len(a) PROVE a[i] = b[i]
  <2>1. i \in 1..(u - 1 + 1) /\ i \in 1..(v - 1 + 1)
    BY <1>4
  <2>2. QED
    BY <1>4, <1>5, <2>1
<1>8. QED
  BY <1>2, <1>3, <1>4, <1>5, <1>6, <1>7, PrefixIs

(* What was said of the segment s: the block s + 1 as far as it goes. *)
Said(t, d, at, s) ==
    IF s + 1 \in 1..Len(d) /\ d[s + 1].kind = "text" /\ Whole(t, d, at, s + 1)
      THEN Heard(t, at[s + 1], "text", d[s + 1].content)
      ELSE <<>>

LEMMA VisibleNumbers ==
    ASSUME NEW t \in Seq(Pieces), NEW d, NEW at, Laid(t, d, at), NEW i \in 1..Len(d)
    PROVE  /\ Visible(t, at[i] + Size("text"), Len(d[i].content)) \in Int
           /\ Visible(t, at[i] + Size("text"), Len(d[i].content)) <= Len(d[i].content)
<1>1. Len(t) \in Nat /\ at[i] \in Nat /\ Len(d[i].content) \in Nat
  BY LaidNumbers
<1>2. Size("text") = 2
  BY DEF Size
<1>3. PICK a : a = at[i] + Size("text")
  OBVIOUS
<1>4. PICK n : n = Len(d[i].content)
  OBVIOUS
<1>5. a \in Int /\ n \in Nat
  BY <1>1, <1>2, <1>3, <1>4
<1>6. Visible(t, a, n) \in Int /\ Visible(t, a, n) <= n
  BY <1>1, <1>5 DEF Visible
<1>7. QED
  BY <1>3, <1>4, <1>6

(* It holds no header, so that all of it is shown. *)
LEMMA SaidQuiet ==
    ASSUME NEW t \in Seq(Pieces), NEW d, NEW at, Laid(t, d, at), NEW s \in Nat
    PROVE  Said(t, d, at, s) \in Seq(Pieces) /\ Strip(Said(t, d, at, s)) = Said(t, d, at, s)
<1> DEFINE Q == Pieces \ Telling
           u == Said(t, d, at, s)
<1>1. u \in Seq(Q)
  <2>1. CASE s + 1 \in 1..Len(d) /\ d[s + 1].kind = "text" /\ Whole(t, d, at, s + 1)
    <3>1. PICK i : i = s + 1
      OBVIOUS
    <3>2. PICK c : c = d[i].content
      OBVIOUS
    <3>3. PICK v : v = Visible(t, at[i] + Size("text"), Len(c))
      OBVIOUS
    <3>4. i \in 1..Len(d)
      BY <2>1, <3>1
    <3>5. Plain(c)
      BY <3>2, <3>4 DEF Laid
    <3>6. c \in Seq(Q)
      <4>1. c \in Seq(Pieces) /\ Len(c) \in Nat /\ c \in [1..Len(c) -> Pieces]
        BY <3>5, LenProperties DEF Plain
      <4>2. c \in [1..Len(c) -> Q]
        BY <3>5, <4>1 DEF Plain
      <4>3. PICK n : n = Len(c)
        OBVIOUS
      <4> HIDE DEF Q
      <4>4. QED
        BY <4>1, <4>2, <4>3, SeqOf
    <3>7. v \in Int /\ v <= Len(c)
      BY <3>2, <3>3, <3>4, VisibleNumbers
    <3> HIDE DEF Q
    <3>8. SubSeq(c, 1, v) \in Seq(Q)
      BY <3>6, <3>7, SliceIs
    <3>9. Trim(SubSeq(c, 1, v)) \in Seq(Q)
      BY <3>8, TrimTyped
    <3>10. u = Trim(SubSeq(c, 1, v))
      BY <2>1, <3>1, <3>2, <3>3 DEF Said, Heard
    <3>11. QED
      BY <3>9, <3>10
  <2>2. CASE ~(s + 1 \in 1..Len(d) /\ d[s + 1].kind = "text" /\ Whole(t, d, at, s + 1))
    <3>1. u = <<>>
      BY <2>2 DEF Said
    <3>2. QED
      BY <3>1, EmptySeq
  <2>3. QED
    BY <2>1, <2>2
<1> HIDE DEF u
<1>2. u \in Seq(Pieces)
  <2>1. Q \subseteq Pieces
    OBVIOUS
  <2> HIDE DEF Q
  <2>2. QED
    BY <1>1, <2>1, SeqMonotonic
<1>3. ASSUME NEW p \in 1..Len(u) PROVE Harmless(u, p)
  <2>1. Len(u) \in Nat
    BY <1>2, LenProperties
  <2>2. \A q \in 1..Len(u) : u[q] \in Q
    <3> HIDE DEF Q
    <3>1. QED
      BY <1>1, ElementOfSeq
  <2>3. p < Len(u) => p + 1 \in 1..Len(u)
    BY <2>1
  <2>4. QED
    BY <2>2, <2>3, PieceSets DEF Harmless
<1>4. QED
  BY <1>2, <1>3, StripHarmless DEF u

LEMMA SaidGrows ==
    ASSUME NEW t \in Seq(Pieces), NEW u \in Seq(Pieces), NEW d, NEW at, Laid(t, d, at), Laid(u, d, at),
           Len(t) <= Len(u), NEW s \in Nat
    PROVE  IsPrefix(Said(t, d, at, s), Said(u, d, at, s))
<1>1. Said(u, d, at, s) \in Seq(Pieces)
  BY SaidQuiet
<1>2. CASE ~(s + 1 \in 1..Len(d) /\ d[s + 1].kind = "text" /\ Whole(t, d, at, s + 1))
  <2>1. Said(t, d, at, s) = <<>>
    BY <1>2 DEF Said
  <2>2. QED
    BY <1>1, <2>1, PrefixOfEmpty
<1>3. CASE s + 1 \in 1..Len(d) /\ d[s + 1].kind = "text" /\ Whole(t, d, at, s + 1)
  <2>1. PICK i : i = s + 1
    OBVIOUS
  <2>2. PICK c : c = d[i].content
    OBVIOUS
  <2>3. PICK a : a = at[i] + Size("text")
    OBVIOUS
  <2>4. PICK n : n = Len(c)
    OBVIOUS
  <2>5. PICK v : v = Visible(t, a, n)
    OBVIOUS
  <2>6. PICK w : w = Visible(u, a, n)
    OBVIOUS
  <2>7. i \in 1..Len(d)
    BY <1>3, <2>1
  <2>8. Len(t) \in Nat /\ Len(u) \in Nat /\ at[i] \in Nat /\ Size(d[i].kind) \in {2, 3}
    BY <2>7, LaidNumbers
  <2>9. Whole(u, d, at, i)
    <3>1. at[i] + Size(d[i].kind) - 1 <= Len(t)
      BY <1>3, <2>1 DEF Whole
    <3>2. at[i] + Size(d[i].kind) - 1 <= Len(u)
      BY <2>8, <3>1
    <3>3. QED
      BY <3>2 DEF Whole
  <2>10. v \in Int /\ w \in Int /\ w <= n
    BY <2>2, <2>3, <2>4, <2>5, <2>6, <2>7, VisibleNumbers
  <2>11. v <= w
    <3>1. a \in Int /\ n \in Nat
      <4>1. Size("text") = 2
        BY DEF Size
      <4>2. n \in Nat
        BY <2>2, <2>4, <2>7, LaidNumbers
      <4>3. QED
        BY <2>3, <2>8, <4>1, <4>2
    <3>2. QED
      BY <2>5, <2>6, <2>8, <3>1 DEF Visible
  <2>12. Said(t, d, at, s) = Trim(SubSeq(c, 1, v)) /\ Said(u, d, at, s) = Trim(SubSeq(c, 1, w))
    BY <1>3, <2>1, <2>2, <2>3, <2>4, <2>5, <2>6, <2>7, <2>9 DEF Said, Heard
  <2>13. c \in Seq(Pieces)
    BY <2>2, <2>7 DEF Laid, Plain
  <2>14. IsPrefix(SubSeq(c, 1, v), SubSeq(c, 1, w))
    BY <2>4, <2>10, <2>11, <2>13, SlicePrefix
  <2>15. SubSeq(c, 1, v) \in Seq(Pieces) /\ SubSeq(c, 1, w) \in Seq(Pieces)
    <3>1. v <= n
      BY <2>2, <2>3, <2>4, <2>5, <2>7, VisibleNumbers
    <3>2. QED
      BY <2>4, <2>10, <2>13, <3>1, SliceIs
  <2>16. QED
    BY <2>12, <2>14, <2>15, TrimPrefix
<1>4. QED
  BY <1>2, <1>3

(* The block of a text segment is the one that the document has there. *)
LEMMA OpenedSaid ==
    ASSUME NEW t \in Seq(Pieces), NEW d, NEW at, Laid(t, d, at), NEW i \in 1..Len(d),
           Whole(t, d, at, i), NEW final
    PROVE  /\ OpenedAt(t, at[i], final).kind = d[i].kind
           /\ d[i].kind = "text" => OpenedAt(t, at[i], final).content = Said(t, d, at, i - 1)
<1>1. PICK b : b = OpenedAt(t, at[i], final)
  OBVIOUS
<1>2. PICK c : c = d[i].content
  OBVIOUS
<1>3. PICK k : k = d[i].kind
  OBVIOUS
<1>4. at[i] \in 1..Len(t) /\ Cut(t, at[i], k, c) /\ k \in Kinds
  BY <1>2, <1>3, LaidCut, LaidNumbers
<1>5. b.kind = k /\ (k = "text" => b.content = Heard(t, at[i], k, c))
  <2>1. PICK p : p = at[i]
    OBVIOUS
  <2>2. p \in 1..Len(t) /\ Cut(t, p, k, c) /\ b = OpenedAt(t, p, final)
    BY <1>1, <1>4, <2>1
  <2>3. b.kind = k
    BY <1>4, <2>2, OpenedIs
  <2>4. k = "text" => b.content = Heard(t, p, k, c)
    <3>1. PICK o : o = OpenedAt(t, p, final)
      OBVIOUS
    <3>2. k \in Kinds
      BY <1>4
    <3>3. ASSUME k = "text" PROVE o.content = Heard(t, p, k, c)
      <4>1. ~InCloser(t, p, k, c)
        BY <3>3 DEF InCloser
      <4>2. QED
        BY <2>2, <3>1, <3>2, <4>1, OpenedIs
    <3>4. QED
      BY <2>2, <3>1, <3>3
  <2>5. QED
    BY <2>1, <2>3, <2>4
<1>6. (i - 1) + 1 = i
  BY DEF Laid
<1>7. PICK s : s = i - 1
  OBVIOUS
<1>8. s + 1 = i
  BY <1>6, <1>7
<1>9. k = "text" => Said(t, d, at, s) = Heard(t, at[i], "text", c)
  BY <1>2, <1>3, <1>8 DEF Said
<1>10. QED
  BY <1>1, <1>3, <1>5, <1>7, <1>9

(* There are partials of a text segment as soon as something was said, and  *)
(* of nothing else.                                                        *)
LEMMA PartialSaid ==
    ASSUME NEW t \in Seq(Pieces), NEW final, NEW d, NEW at, Laid(t, d, at),
           NEW blocks, blocks = Found(t, final), NEW s \in Nat
    PROVE  /\ s + 1 \in 1..Len(blocks) /\ blocks[s + 1].kind = "text" /\ IsPartial(blocks[s + 1]) =>
                 Strip(blocks[s + 1].content) = Said(t, d, at, s)
           /\ Said(t, d, at, s) # <<>> =>
                 /\ s + 1 \in 1..Len(blocks) /\ blocks[s + 1].kind = "text"
                 /\ blocks[s + 1].content = Said(t, d, at, s)
<1> DEFINE i == s + 1
           u == Said(t, d, at, s)
<1>0. Tells(t, d, at, final, 1, blocks) /\ Len(d) \in Nat
  BY FoundTells DEF Laid
<1>1. ASSUME i \in 1..Len(d), Whole(t, d, at, i)
      PROVE  /\ i \in 1..Len(blocks) /\ blocks[i].kind = d[i].kind
             /\ d[i].kind = "text" => blocks[i].content = u
  <2>1. (i - 1) + 1 = i /\ i - 1 = s
    OBVIOUS
  <2>2. (i - 1) + 1 \in 1..Len(blocks) /\ blocks[(i - 1) + 1] = OpenedAt(t, at[i], final)
    BY <1>0, <1>1 DEF Tells
  <2>3. i \in 1..Len(blocks) /\ blocks[i] = OpenedAt(t, at[i], final)
    BY <2>1, <2>2
  <2>4. /\ OpenedAt(t, at[i], final).kind = d[i].kind
        /\ d[i].kind = "text" => OpenedAt(t, at[i], final).content = Said(t, d, at, i - 1)
    BY <1>1, OpenedSaid
  <2>5. QED
    BY <2>1, <2>3, <2>4
<1>2. ASSUME i \in 1..Len(blocks), blocks[i].kind = "text", IsPartial(blocks[i])
      PROVE  Strip(blocks[i].content) = u
  <2>1. 1 + i - 1 = i
    OBVIOUS
  <2>2. 1 + i - 1 <= Len(d) /\ Whole(t, d, at, 1 + i - 1)
    BY <1>0, <1>2 DEF Tells
  <2>3. i \in 1..Len(d) /\ Whole(t, d, at, i)
    BY <1>0, <2>1, <2>2
  <2>4. blocks[i].content = u
    BY <1>1, <1>2, <2>3
  <2>5. QED
    BY <2>4, SaidQuiet
<1>3. ASSUME u # <<>> PROVE i \in 1..Len(blocks) /\ blocks[i].kind = "text" /\ blocks[i].content = u
  <2>1. i \in 1..Len(d) /\ d[i].kind = "text" /\ Whole(t, d, at, i)
    BY <1>3 DEF Said
  <2>2. QED
    BY <1>1, <2>1
<1>4. QED
  BY <1>2, <1>3

-----------------------------------------------------------------------------
(* A document is spelled block behind block.                               *)

(* t is seqs put together, and at[i] is where seqs[i] begins. *)
Placed(seqs, t, at) ==
    /\ at[1] = 1 /\ at[Len(seqs) + 1] = Len(t) + 1
    /\ \A i \in 1..Len(seqs) :
          /\ at[i] \in Nat \ {0} /\ at[i + 1] = at[i] + Len(seqs[i])
          /\ \A x \in 1..Len(seqs[i]) :
                at[i] + x - 1 \in 1..Len(t) /\ t[at[i] + x - 1] = seqs[i][x]

(* How much there is before seqs[i]. *)
Ahead(f, i) == IF i = 1 THEN 0 ELSE Len(f[i - 1])

LEMMA JoinStep ==
    ASSUME NEW E, NEW seqs \in Seq(Seq(E)), NEW f, Joins(seqs, f), NEW i \in 1..Len(seqs),
           i = 1 \/ f[i - 1] \in Seq(E)
    PROVE  /\ f[i] \in Seq(E) /\ Ahead(f, i) \in Nat /\ Len(f[i]) = Ahead(f, i) + Len(seqs[i])
           /\ \A x \in 1..Len(seqs[i]) : f[i][Ahead(f, i) + x] = seqs[i][x]
           /\ i # 1 => \A x \in 1..Len(f[i - 1]) : f[i][x] = f[i - 1][x]
<1>1. seqs[i] \in Seq(E)
  BY ElementOfSeq
<1>2. PICK s : s = seqs[i]
  OBVIOUS
<1>3. s \in Seq(E) /\ Len(s) \in Nat
  BY <1>1, <1>2, LenProperties
<1>4. CASE i = 1
  <2>1. f[i] = s
    BY <1>2, <1>4 DEF Joins
  <2>2. Ahead(f, i) = 0
    BY <1>4 DEF Ahead
  <2>3. \A x \in 1..Len(s) : 0 + x = x
    OBVIOUS
  <2>4. QED
    BY <1>2, <1>3, <1>4, <2>1, <2>2, <2>3
<1>5. CASE i # 1
  <2>1. PICK g : g = f[i - 1]
    OBVIOUS
  <2>2. f[i] = g \o s /\ g \in Seq(E) /\ Ahead(f, i) = Len(g)
    BY <1>2, <1>5, <2>1 DEF Joins, Ahead
  <2>3. PICK h : h = g \o s
    OBVIOUS
  <2>4. Len(g) \in Nat
    BY <2>2, LenProperties
  <2>5. h \in Seq(E)
    BY <1>3, <2>2, <2>3, ConcatProperties
  <2>6. Len(h) = Len(g) + Len(s)
    BY <1>3, <2>2, <2>3, ConcatProperties
  <2>7. \A x \in 1..(Len(g) + Len(s)) : h[x] = IF x <= Len(g) THEN g[x] ELSE s[x - Len(g)]
    BY <1>3, <2>2, <2>3, ConcatProperties
  <2>8. ASSUME NEW x \in 1..Len(s) PROVE h[Len(g) + x] = s[x]
    <3>1. Len(g) + x \in 1..(Len(g) + Len(s)) /\ ~(Len(g) + x <= Len(g)) /\ Len(g) + x - Len(g) = x
      BY <1>3, <2>4
    <3>2. QED
      BY <2>7, <3>1
  <2>9. ASSUME NEW x \in 1..Len(g) PROVE h[x] = g[x]
    <3>1. x \in 1..(Len(g) + Len(s)) /\ x <= Len(g)
      BY <1>3, <2>4
    <3>2. QED
      BY <2>7, <3>1
  <2>10. QED
    BY <1>2, <2>1, <2>2, <2>3, <2>4, <2>5, <2>6, <2>8, <2>9
<1>6. QED
  BY <1>4, <1>5

LEMMA FlattenPlaces ==
    ASSUME NEW E, NEW seqs \in Seq(Seq(E))
    PROVE  \E at : Placed(seqs, S!FlattenSeq(seqs), at)
<1> DEFINE n == Len(seqs)
<1>0. n \in Nat
  BY LenProperties
<1>1. CASE seqs = <<>>
  <2>1. S!FlattenSeq(seqs) = <<>> /\ n = 0 /\ Len(<<>>) = 0
    BY <1>1, EmptySeq DEF S!FlattenSeq
  <2>2. PICK at : at = [i \in 1..1 |-> 1]
    OBVIOUS
  <2>3. at[1] = 1 /\ 0 + 1 = 1 /\ \A i \in 1..0 : FALSE
    BY <2>2
  <2>4. Placed(seqs, <<>>, at)
    BY <2>1, <2>3 DEF Placed
  <2>5. QED
    BY <2>1, <2>4
<1>2. CASE seqs # <<>>
  <2>1. PICK f : Joins(seqs, f) /\ S!FlattenSeq(seqs) = f[n]
    BY <1>2, FlattenJoins
  <2>2. n \in 1..n /\ 1 \in 1..n
    BY <1>0, <1>2, EmptySeq
  <2> DEFINE T == {i \in 1..n : /\ \A j \in 1..i : f[j] \in Seq(E)
                                /\ \A j \in 1..i : Len(f[j]) <= Len(f[i])
                                /\ \A j \in 1..i : \A x \in 1..Len(f[j]) : f[i][x] = f[j][x]}
  <2>3. 1 \in T
    <3>1. f[1] \in Seq(E)
      BY <2>1, <2>2, JoinStep
    <3>2. Len(f[1]) \in Nat /\ \A j \in 1..1 : j = 1
      BY <3>1, LenProperties
    <3>3. QED
      BY <2>2, <3>1, <3>2
  <2>4. ASSUME NEW i \in 1..n, i + 1 \in 1..n, i \in T
        PROVE  i + 1 \in T
    <3>1. PICK m : m = i + 1
      OBVIOUS
    <3>2. m \in 1..n /\ m # 1 /\ m - 1 = i /\ i \in 1..i /\ f[i] \in Seq(E)
      BY <1>0, <2>4, <3>1
    <3>3. Ahead(f, m) = Len(f[i])
      BY <3>2 DEF Ahead
    <3>4. PICK g : g = f[m]
      OBVIOUS
    <3>5. /\ g \in Seq(E) /\ Len(g) = Len(f[i]) + Len(seqs[m])
          /\ \A x \in 1..Len(f[i]) : g[x] = f[i][x]
      <4>1. /\ f[m] \in Seq(E) /\ Len(f[m]) = Ahead(f, m) + Len(seqs[m])
            /\ \A x \in 1..Len(f[m - 1]) : f[m][x] = f[m - 1][x]
        BY <2>1, <3>2, JoinStep
      <4>2. QED
        BY <3>2, <3>3, <3>4, <4>1
    <3>6. Len(f[i]) \in Nat /\ Len(seqs[m]) \in Nat /\ Len(g) \in Nat
      <4>1. seqs[m] \in Seq(E)
        BY <3>2, ElementOfSeq
      <4>2. QED
        BY <3>2, <3>5, <4>1, LenProperties
    <3>7. ASSUME NEW j \in 1..m
          PROVE  /\ f[j] \in Seq(E) /\ Len(f[j]) <= Len(g)
                 /\ \A x \in 1..Len(f[j]) : g[x] = f[j][x]
      <4>1. CASE j = m
        <5>1. f[j] = g
          BY <3>4, <4>1
        <5>2. Len(g) <= Len(g)
          BY <3>6
        <5>3. QED
          BY <3>5, <5>1, <5>2
      <4>2. CASE j # m
        <5>1. j \in 1..i
          BY <3>1, <4>2
        <5>2. /\ f[j] \in Seq(E) /\ Len(f[j]) <= Len(f[i])
              /\ \A x \in 1..Len(f[j]) : f[i][x] = f[j][x]
          BY <2>4, <5>1
        <5>3. Len(f[j]) \in Nat
          BY <5>2, LenProperties
        <5>4. Len(f[j]) <= Len(g)
          <6>1. PICK x : x = Len(f[j])
            OBVIOUS
          <6>2. PICK y : y = Len(f[i])
            OBVIOUS
          <6>3. PICK z : z = Len(seqs[m])
            OBVIOUS
          <6>4. x \in Nat /\ y \in Nat /\ z \in Nat /\ x <= y /\ Len(g) = y + z
            BY <3>5, <3>6, <5>2, <5>3, <6>1, <6>2, <6>3, Zenon
          <6>5. x <= y + z
            BY <6>4
          <6>6. QED
            BY <6>1, <6>4, <6>5, Zenon
        <5>5. \A x \in 1..Len(f[j]) : x \in 1..Len(f[i])
          BY <3>6, <5>2, <5>3
        <5>6. QED
          BY <3>5, <5>2, <5>4, <5>5
      <4>3. QED
        BY <4>1, <4>2
    <3>8. m \in T
      BY <3>2, <3>4, <3>7
    <3>9. QED
      <4> HIDE DEF T
      <4>1. QED
        BY <3>1, <3>8
  <2>5. n \in T
    <3> HIDE DEF T
    <3>1. 1..n \subseteq T
      BY <1>0, <2>3, <2>4, InductionTo
    <3>2. QED
      BY <2>2, <3>1
  <2>6. PICK t : t = f[n]
    OBVIOUS
  <2> DEFINE at == [i \in 1..(n + 1) |-> Ahead(f, i) + 1]
  <2>7. at[1] = 1
    BY <1>0 DEF Ahead
  <2>8. at[n + 1] = Len(t) + 1
    <3>1. n + 1 \in 1..(n + 1) /\ n + 1 # 1 /\ (n + 1) - 1 = n
      BY <1>0, <2>2
    <3>2. QED
      BY <2>6, <3>1 DEF Ahead
  <2>9. ASSUME NEW i \in 1..n
        PROVE  /\ at[i] \in Nat \ {0} /\ at[i + 1] = at[i] + Len(seqs[i])
               /\ \A x \in 1..Len(seqs[i]) :
                     at[i] + x - 1 \in 1..Len(t) /\ t[at[i] + x - 1] = seqs[i][x]
    <3>1. i # 1 => i - 1 \in 1..n
      BY <1>0
    <3>2. i = 1 \/ f[i - 1] \in Seq(E)
      BY <2>5, <3>1
    <3>3. PICK a : a = Ahead(f, i)
      OBVIOUS
    <3>4. /\ f[i] \in Seq(E) /\ a \in Nat /\ Len(f[i]) = a + Len(seqs[i])
          /\ \A x \in 1..Len(seqs[i]) : f[i][a + x] = seqs[i][x]
      BY <2>1, <3>2, <3>3, JoinStep
    <3>5. at[i] = a + 1 /\ at[i + 1] = Len(f[i]) + 1
      <4>1. i \in 1..(n + 1) /\ i + 1 \in 1..(n + 1) /\ i + 1 # 1 /\ (i + 1) - 1 = i
        BY <1>0
      <4>2. Ahead(f, i + 1) = Len(f[i])
        BY <4>1 DEF Ahead
      <4>3. QED
        BY <3>3, <4>1, <4>2
    <3>6. Len(seqs[i]) \in Nat
      <4>1. seqs[i] \in Seq(E)
        BY ElementOfSeq
      <4>2. QED
        BY <4>1, LenProperties
    <3>7. at[i] \in Nat \ {0} /\ at[i + 1] = at[i] + Len(seqs[i])
      <4>1. PICK u : u = Len(seqs[i])
        OBVIOUS
      <4>2. PICK v : v = Len(f[i])
        OBVIOUS
      <4>3. a \in Nat /\ Len(f[i]) = a + Len(seqs[i])
        BY <3>4
      <4>4. v = a + u /\ u \in Nat
        BY <3>6, <4>1, <4>2, <4>3, Zenon
      <4>5. v + 1 = (a + 1) + u /\ a + 1 \in Nat \ {0}
        BY <4>3, <4>4
      <4> HIDE DEF at
      <4>6. QED
        BY <3>5, <4>1, <4>2, <4>5
    <3>8. ASSUME NEW x \in 1..Len(seqs[i])
          PROVE  at[i] + x - 1 \in 1..Len(t) /\ t[at[i] + x - 1] = seqs[i][x]
      <4> HIDE DEF at
      <4>1. at[i] + x - 1 = a + x /\ a + x \in 1..Len(f[i])
        BY <3>4, <3>5, <3>6
      <4>2. Len(f[i]) <= Len(t) /\ t[a + x] = f[i][a + x]
        <5> HIDE DEF T
        <5>1. Len(f[i]) <= Len(f[n]) /\ f[n][a + x] = f[i][a + x]
          <6> USE DEF T
          <6>1. QED
            BY <2>5, <4>1
        <5>2. QED
          BY <2>6, <5>1
      <4>3. Len(t) \in Nat /\ Len(f[i]) \in Nat
        <5>1. t \in Seq(E)
          BY <2>2, <2>5, <2>6
        <5>2. QED
          BY <3>4, <5>1, LenProperties
      <4>4. QED
        BY <3>4, <4>1, <4>2, <4>3
    <3>9. QED
      BY <3>7, <3>8
  <2>10. Placed(seqs, t, at)
    <3> HIDE DEF at
    <3>1. QED
      BY <2>7, <2>8, <2>9 DEF Placed
  <2>11. QED
    BY <2>1, <2>6, <2>10
<1>3. QED
  BY <1>1, <1>2

(* s is o, c and e put together. *)
Joined(s, o, c, e) ==
    /\ Len(s) = Len(o) + Len(c) + Len(e)
    /\ \A x \in 1..Len(o) : s[x] = o[x]
    /\ \A x \in 1..Len(c) : s[Len(o) + x] = c[x]
    /\ \A x \in 1..Len(e) : s[Len(o) + Len(c) + x] = e[x]

LEMMA ThreeParts ==
    ASSUME NEW E, NEW o \in Seq(E), NEW c \in Seq(E), NEW e \in Seq(E), NEW s, s = o \o c \o e
    PROVE  Joined(s, o, c, e)
<1>1. PICK r : r = o \o c
  OBVIOUS
<1>2. Len(o) \in Nat /\ Len(c) \in Nat /\ Len(e) \in Nat
  BY LenProperties
<1>3. r \in Seq(E) /\ Len(r) = Len(o) + Len(c)
  BY <1>1, ConcatProperties
<1>4. \A x \in 1..(Len(o) + Len(c)) : r[x] = IF x <= Len(o) THEN o[x] ELSE c[x - Len(o)]
  BY <1>1, ConcatProperties
<1>5. s = r \o e
  BY <1>1
<1>7. Len(s) = Len(r) + Len(e)
  BY <1>3, <1>5, ConcatProperties
<1>8. \A x \in 1..(Len(r) + Len(e)) : s[x] = IF x <= Len(r) THEN r[x] ELSE e[x - Len(r)]
  BY <1>3, <1>5, ConcatProperties
<1>9. ASSUME NEW x \in 1..Len(o) PROVE s[x] = o[x]
  <2>1. x \in 1..(Len(r) + Len(e)) /\ x <= Len(r) /\ x \in 1..(Len(o) + Len(c)) /\ x <= Len(o)
    BY <1>2, <1>3
  <2>2. QED
    BY <1>4, <1>8, <2>1
<1>10. ASSUME NEW x \in 1..Len(c) PROVE s[Len(o) + x] = c[x]
  <2>1. PICK y : y = Len(o) + x
    OBVIOUS
  <2>2. /\ y \in 1..(Len(r) + Len(e)) /\ y <= Len(r) /\ y \in 1..(Len(o) + Len(c))
        /\ ~(y <= Len(o)) /\ y - Len(o) = x
    BY <1>2, <1>3, <2>1
  <2>3. s[y] = c[x]
    BY <1>4, <1>8, <2>2
  <2>4. QED
    BY <2>1, <2>3
<1>11. ASSUME NEW x \in 1..Len(e) PROVE s[Len(o) + Len(c) + x] = e[x]
  <2>1. PICK y : y = Len(o) + Len(c) + x
    OBVIOUS
  <2>2. y \in 1..(Len(r) + Len(e)) /\ ~(y <= Len(r)) /\ y - Len(r) = x
    BY <1>2, <1>3, <2>1
  <2>3. s[y] = e[x]
    BY <1>8, <2>2
  <2>4. QED
    BY <2>1, <2>3
<1>12. Len(s) = Len(o) + Len(c) + Len(e)
  BY <1>2, <1>3, <1>7
<1>13. QED
  BY <1>9, <1>10, <1>11, <1>12 DEF Joined

(* What stands at m in a part s of t that begins at a, stands at a + m. *)
LEMMA PartHere ==
    ASSUME NEW t, NEW a \in Nat, NEW s, NEW m \in Nat, NEW u, Len(u) \in Nat, Len(s) \in Nat,
           m + Len(u) <= Len(s), \A x \in 1..Len(s) : t[a + x - 1] = s[x],
           \A x \in 1..Len(u) : s[m + x] = u[x]
    PROVE  Here(t, a + m, u)
<1> SUFFICES ASSUME NEW x \in 1..Len(u) PROVE t[(a + m) + x - 1] = u[x]
  BY DEF Here
<1>1. PICK y : y = m + x
  OBVIOUS
<1>2. y \in 1..Len(s) /\ a + y - 1 = (a + m) + x - 1
  BY <1>1
<1>3. t[a + y - 1] = s[y]
  BY <1>2
<1>4. QED
  BY <1>1, <1>2, <1>3

(* The whole text of a document has its blocks one behind the other. *)
LEMMA LaidWhole ==
    ASSUME NEW d \in Documents, Closed(d)
    PROVE  \E at : Laid(SpellAll(d), d, at) /\ Finished(SpellAll(d), d, at)
<1> DEFINE n == Len(d)
           seqs == [i \in DOMAIN d |-> Spell(d[i])]
<1>1. n \in Nat /\ DOMAIN d = 1..n
  <2>1. d \in Seq(S!Range(d))
    BY DocumentsAssumption DEF IsSequence
  <2>2. QED
    BY <2>1, LenProperties
<1>2. seqs \in Seq(Seq(Pieces)) /\ Len(seqs) = n
  <2>1. seqs \in [1..n -> Seq(Pieces)]
    BY <1>1, SpellTyped
  <2> HIDE DEF n, seqs
  <2>2. QED
    BY <1>1, <2>1, SeqOf
<1>3. PICK t : t = SpellAll(d)
  OBVIOUS
<1>4. t \in Seq(Pieces) /\ Len(t) \in Nat
  BY <1>3, SpellAllTyped, LenProperties
<1>5. PICK at : Placed(seqs, t, at)
  <2>1. t = S!FlattenSeq(seqs)
    BY <1>3 DEF SpellAll
  <2> HIDE DEF seqs
  <2>2. QED
    BY <1>2, <2>1, FlattenPlaces
<1>6. ASSUME NEW i \in 1..n
      PROVE  /\ d[i].kind \in Kinds /\ Plain(d[i].content) /\ at[i] \in Nat \ {0}
             /\ Here(t, at[i], Opener[d[i].kind])
             /\ Here(t, at[i] + Size(d[i].kind), d[i].content)
             /\ Here(t, ContentEnd(at[i], d[i].kind, d[i].content), Closer[d[i].kind])
             /\ at[i + 1] = ContentEnd(at[i], d[i].kind, d[i].content) + 2
  <2>1. PICK b : b = d[i]
    OBVIOUS
  <2>2. PICK k : k = b.kind
    OBVIOUS
  <2>3. PICK c : c = b.content
    OBVIOUS
  <2>4. k # "orphan" /\ b.header = "whole" /\ b.closed /\ S!Range(c) \cap Telling = {}
    <3>1. b \in S!Range(d)
      BY <1>1, <2>1 DEF S!Range
    <3>2. QED
      BY <2>2, <2>3, <3>1 DEF Closed
  <2>5. k \in Kinds /\ c \in Seq(Pieces)
    BY <1>1, <2>1, <2>2, <2>3, <2>4, ContentTyped
  <2>6. Plain(c)
    <3>1. DOMAIN c = 1..Len(c)
      BY <2>5, LenProperties
    <3>2. \A x \in 1..Len(c) : c[x] \in S!Range(c)
      BY <3>1 DEF S!Range
    <3>3. QED
      BY <2>4, <2>5, <3>2 DEF Plain
  <2>7. PICK o : o = Opener[k]
    OBVIOUS
  <2>8. PICK e : e = Closer[k]
    OBVIOUS
  <2>9. o \in Seq(Pieces) /\ e \in Seq(Pieces) /\ Len(o) = Size(k) /\ Len(e) = 2
    BY <2>5, <2>7, <2>8, HeadersTyped, HeaderShapes DEF OpenerShape, CloserShape
  <2>10. PICK s : s = seqs[i]
    OBVIOUS
  <2>11. s = o \o c \o e
    <3>1. s = Spell(b)
      BY <1>1, <2>1, <2>10
    <3>2. QED
      BY <2>2, <2>3, <2>4, <2>7, <2>8, <3>1 DEF Spell
  <2>12. /\ Len(s) = Len(o) + Len(c) + Len(e)
         /\ \A x \in 1..Len(o) : s[x] = o[x]
         /\ \A x \in 1..Len(c) : s[Len(o) + x] = c[x]
         /\ \A x \in 1..Len(e) : s[Len(o) + Len(c) + x] = e[x]
    <3>1. Joined(s, o, c, e)
      BY <2>5, <2>9, <2>11, ThreeParts
    <3>2. QED
      BY <3>1 DEF Joined
  <2>13. PICK a : a = at[i]
    OBVIOUS
  <2>14. /\ a \in Nat \ {0} /\ at[i + 1] = a + Len(s)
         /\ \A x \in 1..Len(s) : t[a + x - 1] = s[x]
    <3> HIDE DEF seqs
    <3>1. QED
      BY <1>2, <1>5, <2>10, <2>13 DEF Placed
  <2>15. Len(c) \in Nat /\ Size(k) \in {2, 3} /\ Len(o) \in Nat /\ Len(e) \in Nat
    BY <2>5, <2>9, LenProperties DEF Size
  <2>16. Len(s) \in Nat
    BY <2>12, <2>15
  <2>17. Here(t, a, o)
    <3>1. \A x \in 1..Len(o) : s[0 + x] = o[x]
      <4>1. \A x \in 1..Len(o) : 0 + x = x
        OBVIOUS
      <4>2. QED
        BY <2>12, <4>1
    <3>2. 0 + Len(o) <= Len(s) /\ a \in Nat /\ a + 0 = a
      BY <2>12, <2>14, <2>15
    <3>3. Here(t, a + 0, o)
      BY <2>14, <2>15, <2>16, <3>1, <3>2, PartHere
    <3>4. QED
      BY <3>2, <3>3
  <2>18. Here(t, a + Size(k), c)
    <3>1. Len(o) + Len(c) <= Len(s) /\ a \in Nat
      BY <2>12, <2>14, <2>15
    <3>2. Here(t, a + Len(o), c)
      BY <2>12, <2>14, <2>15, <2>16, <3>1, PartHere
    <3>3. QED
      BY <2>9, <3>2
  <2>19. Here(t, ContentEnd(a, k, c), e)
    <3>1. PICK m : m = Len(o) + Len(c)
      OBVIOUS
    <3>2. m \in Nat /\ m + Len(e) <= Len(s) /\ a \in Nat /\ a + m = ContentEnd(a, k, c)
      <4>1. m \in Nat /\ a \in Nat
        BY <2>14, <2>15, <3>1
      <4>2. m + Len(e) <= Len(s)
        BY <2>12, <2>15, <3>1
      <4>3. a + m = ContentEnd(a, k, c)
        BY <2>9, <2>15, <3>1, <4>1 DEF ContentEnd
      <4>4. QED
        BY <4>1, <4>2, <4>3
    <3>3. \A x \in 1..Len(e) : s[m + x] = e[x]
      BY <2>12, <3>1
    <3>4. Here(t, a + m, e)
      BY <2>14, <2>15, <2>16, <3>2, <3>3, PartHere
    <3>5. QED
      BY <3>2, <3>4
  <2>20. at[i + 1] = ContentEnd(a, k, c) + 2
    BY <2>9, <2>12, <2>14, <2>15 DEF ContentEnd
  <2>21. QED
    BY <2>1, <2>2, <2>3, <2>5, <2>6, <2>7, <2>8, <2>13, <2>14, <2>17, <2>18, <2>19, <2>20
<1>7. at[1] = 1 /\ at[n + 1] = Len(t) + 1 /\ at[n + 1] \in Nat
  BY <1>2, <1>4, <1>5 DEF Placed
<1>8. Laid(t, d, at)
  <2>1. Len(t) + 1 <= at[n + 1]
    BY <1>4, <1>7
  <2>2. QED
    BY <1>1, <1>6, <1>7, <2>1 DEF Laid
<1>9. Finished(t, d, at)
  BY <1>7 DEF Finished
<1>10. QED
  BY <1>3, <1>8, <1>9

(* So has any beginning of it. *)
LEMMA LaidPrefix ==
    ASSUME NEW d, NEW at, NEW u \in Seq(Pieces), Laid(u, d, at), NEW t \in Seq(Pieces),
           Len(t) <= Len(u), \A x \in 1..Len(t) : t[x] = u[x]
    PROVE  Laid(t, d, at)
<1>1. Len(t) \in Nat /\ Len(u) \in Nat
  BY LenProperties
<1>2. ASSUME NEW p \in Nat \ {0}, NEW s, Here(u, p, s) PROVE Here(t, p, s)
  <2>1. SUFFICES ASSUME NEW x \in 1..Len(s), p + x - 1 <= Len(t) PROVE t[p + x - 1] = s[x]
    BY DEF Here
  <2>2. PICK y : y = p + x - 1
    OBVIOUS
  <2>3. y \in 1..Len(t) /\ y <= Len(u)
    BY <1>1, <2>1, <2>2
  <2>4. u[y] = s[x]
    BY <1>2, <2>2, <2>3 DEF Here
  <2>5. QED
    BY <2>2, <2>3, <2>4
<1>3. ASSUME NEW i \in 1..Len(d)
      PROVE  /\ Here(t, at[i], Opener[d[i].kind])
             /\ Here(t, at[i] + Size(d[i].kind), d[i].content)
             /\ Here(t, ContentEnd(at[i], d[i].kind, d[i].content), Closer[d[i].kind])
  <2>1. /\ at[i] \in Nat \ {0} /\ at[i] + Size(d[i].kind) \in Nat \ {0}
        /\ ContentEnd(at[i], d[i].kind, d[i].content) \in Nat \ {0}
    <3>1. PICK m : m = Size(d[i].kind)
      OBVIOUS
    <3>2. PICK v : v = Len(d[i].content)
      OBVIOUS
    <3>3. /\ at[i] \in Nat /\ at[i] >= 1 /\ m \in {2, 3} /\ v \in Nat
          /\ ContentEnd(at[i], d[i].kind, d[i].content) = at[i] + m + v
      BY <3>1, <3>2, LaidNumbers
    <3>4. at[i] \in Nat \ {0} /\ at[i] + m \in Nat \ {0} /\ at[i] + m + v \in Nat \ {0}
      BY <3>3
    <3>5. QED
      BY <3>1, <3>3, <3>4
  <2>2. /\ Here(u, at[i], Opener[d[i].kind])
        /\ Here(u, at[i] + Size(d[i].kind), d[i].content)
        /\ Here(u, ContentEnd(at[i], d[i].kind, d[i].content), Closer[d[i].kind])
    BY DEF Laid
  <2>3. QED
    BY <1>2, <2>1, <2>2
<1>4. Len(t) + 1 <= at[Len(d) + 1]
  BY <1>1 DEF Laid
<1>5. QED
  BY <1>3, <1>4 DEF Laid

(* What a segment is shown, if it was shown nothing or what was said.      *)
Spoken(t, d, at, s, text) == text = <<>> \/ (text = Said(t, d, at, s) /\ ~Unfinished(text))

(* What the host is shown of a segment after a chunk. *)
Showing(blocks, s, old) ==
    IF s + 1 \in 1..Len(blocks) /\ blocks[s + 1].kind = "text" /\ IsPartial(blocks[s + 1])
      THEN Strip(blocks[s + 1].content) ELSE old

(* It is never less, and is again what was said: a text that was shown once *)
(* is no beginning of a header, so that no text that extends it is one.     *)
LEMMA SpokenStep ==
    ASSUME NEW t \in Seq(Pieces), NEW u \in Seq(Pieces), NEW d, NEW at, Laid(t, d, at), Laid(u, d, at),
           Len(t) <= Len(u), NEW final, NEW blocks, blocks = Found(u, final), NEW s \in Nat,
           NEW old, Spoken(t, d, at, s, old)
    PROVE  /\ Spoken(u, d, at, s, Showing(blocks, s, old))
           /\ IsPrefix(old, Showing(blocks, s, old))
<1>1. PICK w : w = Said(u, d, at, s)
  OBVIOUS
<1>2. w \in Seq(Pieces) /\ Strip(w) = w /\ Said(t, d, at, s) \in Seq(Pieces)
  BY <1>1, SaidQuiet
<1>3. IsPrefix(Said(t, d, at, s), w)
  BY <1>1, SaidGrows
<1>4. old \in Seq(Pieces) /\ IsPrefix(old, w)
  BY <1>2, <1>3, EmptySeq, PrefixOfEmpty DEF Spoken
<1>5. CASE s + 1 \in 1..Len(blocks) /\ blocks[s + 1].kind = "text" /\ IsPartial(blocks[s + 1])
  <2>1. Strip(blocks[s + 1].content) = w
    BY <1>1, <1>5, PartialSaid
  <2>2. ~Unfinished(w)
    BY <1>5, <2>1 DEF IsPartial
  <2>3. Showing(blocks, s, old) = w
    BY <1>5, <2>1 DEF Showing
  <2>4. QED
    BY <1>1, <1>4, <2>2, <2>3 DEF Spoken
<1>6. CASE ~(s + 1 \in 1..Len(blocks) /\ blocks[s + 1].kind = "text" /\ IsPartial(blocks[s + 1]))
  <2>1. Showing(blocks, s, old) = old
    BY <1>6 DEF Showing
  <2>2. old = <<>>
    <3> SUFFICES ASSUME old # <<>> PROVE FALSE
      OBVIOUS
    <3>1. ~Unfinished(old)
      BY DEF Spoken
    <3>2. Len(old) \in Nat /\ Len(old) # 0 /\ Len(w) \in Nat
      BY <1>2, <1>4, EmptySeq, LenProperties
    <3>3. Len(old) <= Len(w) /\ \A i \in 1..Len(old) : old[i] = w[i]
      BY <1>2, <1>4, PrefixIs
    <3>4. w # <<>>
      <4>1. Len(w) # 0
        BY <3>2, <3>3
      <4>2. QED
        BY <4>1, EmptySeq
    <3>5. s + 1 \in 1..Len(blocks) /\ blocks[s + 1].kind = "text" /\ blocks[s + 1].content = w
      BY <1>1, <3>4, PartialSaid
    <3>6. Unfinished(w)
      BY <1>2, <1>6, <3>4, <3>5 DEF IsPartial
    <3>7. Len(w) = 1 /\ w[1] \in Firsts
      BY <3>6 DEF Unfinished
    <3>8. Len(old) = 1 /\ 1 \in 1..Len(old)
      <4>1. PICK n : n = Len(old)
        OBVIOUS
      <4>2. n \in Nat /\ n # 0 /\ n <= 1
        BY <3>2, <3>3, <3>7, <4>1
      <4>3. n = 1 /\ 1 \in 1..n
        BY <4>2
      <4>4. QED
        BY <4>1, <4>3
    <3>9. Unfinished(old)
      BY <3>3, <3>7, <3>8 DEF Unfinished
    <3>10. QED
      BY <3>1, <3>9
  <2>3. IsPrefix(old, old)
    BY <1>4, <2>2, PrefixOfEmpty
  <2>4. QED
    BY <2>1, <2>2, <2>3 DEF Spoken
<1>7. QED
  BY <1>5, <1>6

-----------------------------------------------------------------------------
(* What the partials of a chunk leave of each segment.                     *)

(* What went out last is what its segment was shown. *)
LastShown(memory, texts) ==
    /\ "text" \in DOMAIN memory
    /\ memory["text"].value # <<>> /\ memory["text"].seg \in Segments =>
          texts[memory["text"].seg] = memory["text"].value

(* After i blocks. *)
Seeing(st, i, blocks) ==
    /\ DOMAIN st = {"last", "cursor", "seen", "shown"} /\ DOMAIN st.seen = Segments
    /\ LastShown(st.last, st.seen)
    /\ \A s \in Segments : st.seen[s] = IF s < i THEN Showing(blocks, s, seen[s]) ELSE seen[s]

LEMMA SeeingStep ==
    ASSUME NEW blocks, Len(blocks) \in Nat, NEW i \in Nat, i + 1 \in 1..Len(blocks), NEW st,
           Seeing(st, i, blocks)
    PROVE  Seeing(Show(st, blocks[i + 1], i), i + 1, blocks)
<1>1. PICK b : b = blocks[i + 1]
  OBVIOUS
<1>2. PICK p : p = Payload(b, i)
  OBVIOUS
<1>3. PICK state : state = Show(st, b, i)
  OBVIOUS
<1>4. \A s \in Segments : s \in Int /\ (s < i + 1 <=> s < i \/ s = i)
  BY DEF Segments
<1>5. ASSUME state.seen = st.seen, DOMAIN state = DOMAIN st, LastShown(state.last, state.seen),
             i \in Segments => st.seen[i] = Showing(blocks, i, seen[i])
      PROVE  Seeing(state, i + 1, blocks)
  <2>1. ASSUME NEW s \in Segments
        PROVE  state.seen[s] = IF s < i + 1 THEN Showing(blocks, s, seen[s]) ELSE seen[s]
    <3>1. CASE s = i
      BY <1>4, <1>5, <3>1
    <3>2. CASE s # i
      BY <1>4, <1>5, <3>2 DEF Seeing
    <3>3. QED
      BY <3>1, <3>2
  <2>2. QED
    BY <1>5, <2>1 DEF Seeing
<1>6. b.kind # "text" \/ ~IsPartial(b) => \A old : Showing(blocks, i, old) = old
  BY <1>1 DEF Showing
<1>7. \A s \in Segments : ~(s < s)
  BY <1>4
<1>8. i \in Segments => st.seen[i] = seen[i]
  BY <1>7 DEF Seeing
<1>9. CASE ~IsPartial(b)
  <2>1. state = st
    BY <1>3, <1>9 DEF Show
  <2>2. QED
    BY <1>1, <1>3, <1>5, <1>6, <1>8, <1>9, <2>1 DEF Seeing
<1>10. CASE IsPartial(b) /\ b.kind # "text"
  <2>1. state = st \/ state = [st EXCEPT !.last[b.kind] = p]
    BY <1>2, <1>3, <1>10 DEF Show
  <2>2. PICK l : l = [st.last EXCEPT ![b.kind] = p]
    OBVIOUS
  <2>3. LastShown(l, st.seen)
    <3>1. LastShown(st.last, st.seen)
      BY DEF Seeing
    <3>2. DOMAIN l = DOMAIN st.last /\ l["text"] = st.last["text"]
      BY <1>10, <2>2, <3>1 DEF LastShown
    <3>3. QED
      BY <3>1, <3>2 DEF LastShown
  <2>4. state = st \/ (DOMAIN state = DOMAIN st /\ state.seen = st.seen /\ state.last = l)
    BY <2>1, <2>2 DEF Seeing
  <2>5. QED
    BY <1>1, <1>3, <1>5, <1>6, <1>8, <1>10, <2>3, <2>4 DEF Seeing
<1>11. CASE IsPartial(b) /\ b.kind = "text"
  <2>1. PICK text : text = Strip(b.content)
    OBVIOUS
  <2>2. p.seg = i /\ p.value = text /\ text # <<>>
    BY <1>2, <1>11, <2>1 DEF Payload, IsPartial
  <2>3. \A old : Showing(blocks, i, old) = text
    BY <1>1, <1>11, <2>1 DEF Showing
  <2>4. CASE st.last["text"] = p
    <3>1. state = st
      BY <1>2, <1>3, <1>11, <2>4 DEF Show
    <3>2. i \in Segments => st.seen[i] = text
      BY <2>2, <2>4 DEF Seeing, LastShown
    <3>3. QED
      BY <1>1, <1>3, <1>5, <2>3, <3>1, <3>2 DEF Seeing
  <2>5. CASE st.last["text"] # p
    <3>1. PICK l : l = [st.last EXCEPT !["text"] = p]
      OBVIOUS
    <3>2. PICK r : r = [st.seen EXCEPT ![i] = text]
      OBVIOUS
    <3>3. /\ DOMAIN state = {"last", "cursor", "seen", "shown"}
          /\ state.last = l /\ state.seen = r
      BY <1>2, <1>3, <1>11, <2>2, <2>5, <3>1, <3>2 DEF Show
    <3>4. DOMAIN r = Segments /\ \A s \in Segments : r[s] = IF s = i THEN text ELSE st.seen[s]
      BY <3>2 DEF Seeing
    <3>5. LastShown(l, r)
      <4>1. "text" \in DOMAIN l /\ l["text"] = p
        BY <3>1 DEF Seeing, LastShown
      <4>2. QED
        BY <2>2, <3>4, <4>1 DEF LastShown
    <3>6. ASSUME NEW s \in Segments
          PROVE  r[s] = IF s < i + 1 THEN Showing(blocks, s, seen[s]) ELSE seen[s]
      <4>1. CASE s = i
        BY <1>4, <2>3, <3>4, <4>1
      <4>2. CASE s # i
        BY <1>4, <3>4, <4>2 DEF Seeing
      <4>3. QED
        BY <4>1, <4>2
    <3>7. Seeing(state, i + 1, blocks)
      BY <3>3, <3>4, <3>5, <3>6 DEF Seeing
    <3>8. QED
      BY <1>1, <1>3, <3>7
  <2>6. QED
    BY <2>4, <2>5
<1>12. QED
  BY <1>9, <1>10, <1>11

LEMMA SeeingAll ==
    ASSUME NEW blocks, Len(blocks) \in Nat, DOMAIN seen = Segments, LastShown(last, seen)
    PROVE  Seeing(ShowAll(blocks), Len(blocks), blocks)
<1> DEFINE n == Len(blocks)
           f == CHOOSE f : Shows(blocks, f)
<1>1. Shows(blocks, f)
  BY ShowsExists
<1>2. ShowAll(blocks) = f[n]
  BY DEF ShowAll, Shows, Start
<1> HIDE DEF f
<1> DEFINE T == {i \in Nat : i <= n => Seeing(f[i], i, blocks)}
<1>3. 0 \in T
  <2>1. 0 \in 0..n
    OBVIOUS
  <2>2. f[0] = Start
    BY <1>1, <2>1 DEF Shows
  <2>3. DOMAIN Start = {"last", "cursor", "seen", "shown"} /\ Start.seen = seen /\ Start.last = last
    BY DEF Start
  <2>4. \A s \in Segments : ~(s < 0)
    BY DEF Segments
  <2>5. Seeing(Start, 0, blocks)
    BY <2>3, <2>4 DEF Seeing
  <2>6. QED
    BY <2>2, <2>5
<1>4. ASSUME NEW i \in Nat, i \in T PROVE i + 1 \in T
  <2>1. SUFFICES ASSUME i + 1 <= n PROVE Seeing(f[i + 1], i + 1, blocks)
    OBVIOUS
  <2>2. i + 1 \in 0..n /\ i + 1 # 0 /\ (i + 1) - 1 = i /\ i <= n /\ i + 1 \in 1..n
    BY <2>1
  <2>3. f[i + 1] = Show(f[i], blocks[i + 1], i)
    BY <1>1, <2>2 DEF Shows
  <2>4. Seeing(f[i], i, blocks)
    BY <1>4, <2>2
  <2>5. QED
    BY <2>2, <2>3, <2>4, SeeingStep
<1>5. n \in T
  <2> HIDE DEF T
  <2>1. QED
    BY <1>3, <1>4, Induction
<1>6. QED
  BY <1>2, <1>5

-----------------------------------------------------------------------------
(* What the engine is handed.                                              *)

LEMMA FinalsHold ==
    ASSUME NEW B, NEW blocks \in Seq(B), NEW i \in 1..Len(blocks),
           blocks[i].kind # "schema", IsIntent(blocks[i])
    PROVE  /\ Finals(blocks) \in Seq(B)
           /\ \E j \in 1..Len(Finals(blocks)) : Finals(blocks)[j] = blocks[i]
<1> DEFINE n == Len(blocks)
           schemas == {k \in DOMAIN blocks : blocks[k].kind = "schema" /\ IsIntent(blocks[k])}
           Other(b) == b.kind # "schema" /\ IsIntent(b)
           each == [k \in DOMAIN blocks |-> IF Other(blocks[k]) THEN <<blocks[k]>> ELSE <<>>]
           first == S!FlattenSeq(each)
           final == IF schemas = {} THEN <<>> ELSE <<blocks[S!Max(schemas)]>>
<1>1. n \in Nat /\ DOMAIN blocks = 1..n
  BY LenProperties
<1>2. ASSUME NEW k \in 1..n PROVE blocks[k] \in B /\ <<blocks[k]>> \in Seq(B)
  <2>1. blocks[k] \in B
    BY ElementOfSeq
  <2>2. QED
    BY <2>1
<1>3. each \in Seq(Seq(B)) /\ Len(each) = n
  <2>1. each \in [1..n -> Seq(B)]
    BY <1>1, <1>2, EmptySeq
  <2> HIDE DEF each, n
  <2>2. QED
    BY <1>1, <2>1, SeqOf
<1>4. final \in Seq(B)
  <2>1. CASE schemas = {}
    BY <2>1, EmptySeq
  <2>2. CASE schemas # {}
    <3>1. schemas \in SUBSET (1..n)
      BY <1>1
    <3>2. S!Max(schemas) \in schemas
      <4> HIDE DEF schemas, n
      <4>1. QED
        BY <1>1, <2>2, <3>1, MaxOf
    <3>3. PICK m : m = S!Max(schemas)
      OBVIOUS
    <3>4. m \in 1..n
      BY <3>1, <3>2, <3>3
    <3>5. final = <<blocks[m]>>
      BY <2>2, <3>3
    <3>6. QED
      BY <1>2, <3>4, <3>5
  <2>3. QED
    BY <2>1, <2>2
<1>5. PICK x : x = <<blocks[i]>>
  OBVIOUS
<1>6. each[i] = x /\ Len(x) = 1 /\ x[1] = blocks[i]
  BY <1>1, <1>5
<1> HIDE DEF each, final
<1>7. first \in Seq(B)
  BY <1>3, FlattenTyped
<1>8. PICK at : Placed(each, first, at)
  BY <1>3, FlattenPlaces
<1>9. PICK j : j = at[i] + 1 - 1
  OBVIOUS
<1>10. j \in 1..Len(first) /\ first[j] = blocks[i]
  <2>1. i \in 1..Len(each) /\ 1 \in 1..Len(each[i]) /\ each[i][1] = blocks[i]
    BY <1>3, <1>6
  <2>2. at[i] + 1 - 1 \in 1..Len(first) /\ first[at[i] + 1 - 1] = each[i][1]
    BY <1>8, <2>1 DEF Placed
  <2>3. QED
    BY <1>9, <2>1, <2>2
<1> HIDE DEF first
<1>11. PICK all : all = first \o final
  OBVIOUS
<1>12. all \in Seq(B)
  BY <1>4, <1>7, <1>11, ConcatProperties
<1>13. Len(all) = Len(first) + Len(final)
  BY <1>4, <1>7, <1>11, ConcatProperties
<1>14. \A k \in 1..(Len(first) + Len(final)) : all[k] = IF k <= Len(first) THEN first[k] ELSE final[k - Len(first)]
  BY <1>4, <1>7, <1>11, ConcatProperties
<1>15. Len(first) \in Nat /\ Len(final) \in Nat
  BY <1>4, <1>7, LenProperties
<1>16. j \in 1..(Len(first) + Len(final)) /\ j <= Len(first)
  BY <1>10, <1>15
<1>17. j \in 1..Len(all) /\ all[j] = blocks[i]
  BY <1>10, <1>13, <1>14, <1>16
<1>18. Finals(blocks) = all
  BY <1>11 DEF Finals, first, final, each
<1>19. QED
  BY <1>12, <1>17, <1>18

Emits(intents, f) ==
    f = [i \in 0..Len(intents) |->
            IF i = 0 THEN pending
            ELSE IF intents[i] \in emitted
                    \/ \E j \in 1..(i - 1) : intents[j] = intents[i]
                 THEN f[i - 1] ELSE Append(f[i - 1], intents[i])]

LEMMA EmitsExists ==
    ASSUME NEW intents, Len(intents) \in Nat
    PROVE  \E f : Emits(intents, f)
<1> DEFINE n == Len(intents)
           Known(i) == intents[i] \in emitted \/ \E j \in 1..(i - 1) : intents[j] = intents[i]
           Body(f, i) == IF i = 0 THEN pending
                         ELSE IF Known(i) THEN f[i - 1] ELSE Append(f[i - 1], intents[i])
           T == {m \in Nat : \E f : f = [i \in 0..m |-> Body(f, i)]}
<1>1. 0 \in T
  <2>1. ASSUME NEW f, f = [i \in 0..0 |-> pending] PROVE f = [i \in 0..0 |-> Body(f, i)]
    BY <2>1
  <2>2. QED
    BY <2>1
<1>2. ASSUME NEW m \in Nat, m \in T PROVE m + 1 \in T
  <2>1. PICK f : f = [i \in 0..m |-> Body(f, i)]
    BY <1>2
  <2> DEFINE g == [i \in 0..(m + 1) |-> IF i <= m THEN f[i] ELSE Body(f, i)]
  <2>2. ASSUME NEW i \in 0..(m + 1) PROVE g[i] = Body(g, i)
    <3>1. CASE i = 0
      <4>1. 0 \in 0..m /\ i <= m
        BY <3>1
      <4>2. f[0] = pending
        BY <2>1, <4>1
      <4>3. QED
        BY <3>1, <4>1, <4>2
    <3>2. CASE i # 0
      <4>1. i - 1 \in 0..m /\ i - 1 \in 0..(m + 1) /\ i - 1 <= m
        BY <3>2
      <4>2. g[i - 1] = f[i - 1]
        BY <4>1
      <4>3. ASSUME i <= m PROVE f[i] = Body(f, i)
        <5>1. i \in 0..m
          BY <4>3
        <5>2. QED
          <6> HIDE DEF Body
          <6>1. QED
            BY <2>1, <5>1
      <4>4. g[i] = Body(f, i)
        <5> HIDE DEF Body
        <5>1. QED
          BY <4>3
      <4>5. QED
        <5> HIDE DEF Known, g
        <5>1. QED
          BY <3>2, <4>2, <4>4
    <3>3. QED
      BY <3>1, <3>2
  <2>3. g = [i \in 0..(m + 1) |-> Body(g, i)]
    <3>1. g = [i \in 0..(m + 1) |-> g[i]]
      OBVIOUS
    <3> HIDE DEF g, Body
    <3>2. QED
      BY <2>2, <3>1
  <2>4. QED
    <3> HIDE DEF g, Body
    <3>1. \E h : h = [i \in 0..(m + 1) |-> Body(h, i)]
      BY <2>3
    <3>2. QED
      BY <3>1
<1>3. n \in T
  <2> HIDE DEF T
  <2>1. QED
    BY <1>1, <1>2, Induction
<1>4. QED
  BY <1>3 DEF Emits

(* Whatever was not handed over before is there. *)
LEMMA EmitAllHolds ==
    ASSUME NEW I, NEW intents \in Seq(I), pending \in Seq(I), emitted = {}, NEW j \in 1..Len(intents)
    PROVE  intents[j] \in S!Range(EmitAll(intents))
<1> DEFINE n == Len(intents)
           f == CHOOSE f : Emits(intents, f)
<1>0. n \in Nat
  BY LenProperties
<1>1. Emits(intents, f)
  BY <1>0, EmitsExists
<1>2. EmitAll(intents) = f[n]
  BY DEF EmitAll, Emits
<1> HIDE DEF f
<1> DEFINE Holds(i) == f[i] \in Seq(I) /\ \A k \in 1..i : intents[k] \in S!Range(f[i])
           T == {i \in Nat : i <= n => Holds(i)}
<1>3. 0 \in T
  <2>1. 0 \in 0..n
    BY <1>0
  <2>2. f[0] = pending
    BY <1>1, <2>1 DEF Emits
  <2>3. QED
    BY <2>2
<1>4. ASSUME NEW i \in Nat, i \in T PROVE i + 1 \in T
  <2>1. SUFFICES ASSUME i + 1 <= n PROVE Holds(i + 1)
    OBVIOUS
  <2>2. PICK m : m = i + 1
    OBVIOUS
  <2>3. m \in 0..n /\ m # 0 /\ m - 1 = i /\ i <= n /\ m \in 1..n
    BY <1>0, <2>1, <2>2
  <2>4. PICK s : s = f[i]
    OBVIOUS
  <2>5. s \in Seq(I) /\ \A k \in 1..i : intents[k] \in S!Range(s)
    BY <1>4, <2>3, <2>4
  <2>6. intents[m] \in I
    BY <2>3, ElementOfSeq
  <2>7. f[m] = IF \E k \in 1..i : intents[k] = intents[m] THEN s ELSE Append(s, intents[m])
    BY <1>1, <2>3, <2>4 DEF Emits
  <2>8. \A k \in 1..m : k = m \/ k \in 1..i
    BY <2>2
  <2>9. CASE \E k \in 1..i : intents[k] = intents[m]
    <3>1. f[m] = s
      BY <2>7, <2>9
    <3>2. QED
      BY <2>2, <2>5, <2>8, <2>9, <3>1
  <2>10. CASE ~\E k \in 1..i : intents[k] = intents[m]
    <3>1. PICK x : x = intents[m]
      OBVIOUS
    <3>2. PICK a : a = Append(s, x)
      OBVIOUS
    <3>3. Len(s) \in Nat /\ DOMAIN s = 1..Len(s)
      BY <2>5, LenProperties
    <3>4. a \in Seq(I) /\ Len(a) = Len(s) + 1
      BY <2>5, <2>6, <3>1, <3>2, AppendProperties
    <3>5. (\A k \in 1..Len(s) : a[k] = s[k]) /\ a[Len(s) + 1] = x
      BY <2>5, <2>6, <3>1, <3>2, AppendProperties
    <3>6. DOMAIN a = 1..(Len(s) + 1)
      BY <3>4, LenProperties
    <3>7. x \in S!Range(a)
      <4>1. Len(s) + 1 \in DOMAIN a
        BY <3>3, <3>6
      <4>2. QED
        BY <3>5, <4>1 DEF S!Range
    <3>8. S!Range(s) \subseteq S!Range(a)
      <4>1. \A k \in DOMAIN s : k \in DOMAIN a /\ a[k] = s[k]
        BY <3>3, <3>5, <3>6
      <4>2. QED
        BY <4>1 DEF S!Range
    <3>9. f[m] = a
      BY <2>7, <2>10, <3>1, <3>2
    <3>10. QED
      BY <2>2, <2>5, <2>8, <3>1, <3>4, <3>7, <3>8, <3>9
  <2>11. QED
    BY <2>9, <2>10
<1>5. n \in T
  <2> HIDE DEF T
  <2>1. QED
    BY <1>0, <1>3, <1>4, Induction
<1>6. QED
  BY <1>0, <1>2, <1>5

-----------------------------------------------------------------------------
(* Text that was shown only grows, and is what the model said.             *)

TextInv ==
    /\ phase \in {"idle", "streaming", "ended"} /\ (phase # "ended" => pending = <<>>)
    /\ phase = "streaming" => emitted = {} /\ LastShown(last, seen)
    /\ phase = "streaming" /\ Closed(doc) =>
          \E at : /\ Laid(buffer \o rest, doc, at)
                  /\ \A s \in Segments : Spoken(buffer, doc, at, s, seen[s])
    /\ ShownIsSaid

LEMMA PrefixOfItself ==
    ASSUME NEW E, NEW s \in Seq(E)
    PROVE  IsPrefix(s, s)
<1>1. Len(s) \in Nat
  BY LenProperties
<1>2. SubSeq(s, 1, Len(s)) = s
  BY SubSeqFull
<1>3. QED
  BY <1>1, <1>2 DEF IsPrefix

(* Both parts of a text begin as it does. *)
LEMMA PrefixOfText ==
    ASSUME NEW E, NEW s \in Seq(E), NEW r \in Seq(E)
    PROVE  Len(s) <= Len(s \o r) /\ \A x \in 1..Len(s) : (s \o r)[x] = s[x]
<1>1. PICK t : t = s \o r
  OBVIOUS
<1>2. Len(s) \in Nat /\ Len(r) \in Nat
  BY LenProperties
<1>3. Len(t) = Len(s) + Len(r)
  BY <1>1, ConcatProperties
<1>4. \A x \in 1..(Len(s) + Len(r)) : t[x] = IF x <= Len(s) THEN s[x] ELSE r[x - Len(s)]
  BY <1>1, ConcatProperties
<1>5. \A x \in 1..Len(s) : x \in 1..(Len(s) + Len(r)) /\ x <= Len(s)
  BY <1>2
<1>6. Len(s) <= Len(t) /\ \A x \in 1..Len(s) : t[x] = s[x]
  BY <1>2, <1>3, <1>4, <1>5
<1>7. QED
  BY <1>1, <1>6

SameText(s1, r1, s, r) == s1 \o r1 = s \o r
Chunk(n, s1, r1, s, r) == s1 = s \o SubSeq(r, 1, n) /\ r1 = SubSeq(r, n + 1, Len(r))

LEMMA ChunkOf ==
    ASSUME NEW E, NEW s \in Seq(E), NEW r \in Seq(E), NEW n \in 1..Len(r), NEW s1, NEW r1,
           Chunk(n, s1, r1, s, r)
    PROVE  s1 \in Seq(E) /\ r1 \in Seq(E) /\ SameText(s1, r1, s, r) /\ Len(s) <= Len(s1)
<1>1. Len(r) \in Nat /\ n \in Nat
  BY LenProperties
<1>2. PICK c : c = SubSeq(r, 1, n)
  OBVIOUS
<1>3. c \in Seq(E)
  <2>1. n \in Int /\ n <= Len(r)
    BY <1>1
  <2>2. QED
    BY <1>2, <2>1, SliceIs
<1>4. r1 \in Seq(E)
  BY <1>1, SliceTyped DEF Chunk
<1>5. c \o r1 = r
  <2>1. 1 \in 1..(Len(r) + 1) /\ n \in (1 - 1)..Len(r) /\ Len(r) \in n..Len(r)
    BY <1>1
  <2>2. SubSeq(r, 1, n) \o SubSeq(r, n + 1, Len(r)) = SubSeq(r, 1, Len(r))
    BY <2>1, ConcatAdjacentSubSeq
  <2>3. SubSeq(r, 1, Len(r)) = r
    BY SubSeqFull
  <2>4. QED
    BY <1>2, <2>2, <2>3 DEF Chunk
<1>6. InAnyOrder(s, c, r1)
  BY <1>3, <1>4, Associative
<1>7. s1 = s \o c
  BY <1>2 DEF Chunk
<1>8. s1 \o r1 = s \o r
  BY <1>5, <1>6, <1>7 DEF InAnyOrder
<1>9. s1 \in Seq(E)
  BY <1>3, <1>7, ConcatProperties
<1>10. Len(s) <= Len(s1)
  BY <1>3, <1>7, PrefixOfText
<1>11. QED
  BY <1>4, <1>8, <1>9, <1>10 DEF SameText

LEMMA WriteText ==
    ASSUME DeltaInv, TextInv, Write
    PROVE  TextInv' /\ Grows
<1>1. /\ phase = "streaming" /\ phase' = phase /\ doc' = doc /\ emitted' = emitted /\ pending' = pending
      /\ \E n \in 1..Len(rest) : /\ buffer' = buffer \o SubSeq(rest, 1, n)
                                 /\ rest' = SubSeq(rest, n + 1, Len(rest))
  BY DEF Write
<1>2. buffer \in Seq(Pieces) /\ rest \in Seq(Pieces) /\ seen \in [Segments -> Seq(Pieces)]
  BY DEF DeltaInv, Typed, Texts
<1>3. /\ buffer' \in Seq(Pieces) /\ rest' \in Seq(Pieces) /\ buffer' \o rest' = buffer \o rest
      /\ Len(buffer) <= Len(buffer')
  <2>1. PICK n \in 1..Len(rest) : /\ buffer' = buffer \o SubSeq(rest, 1, n)
                                  /\ rest' = SubSeq(rest, n + 1, Len(rest))
    BY <1>1
  <2>2. PICK s : s = buffer'
    OBVIOUS
  <2>3. PICK r : r = rest'
    OBVIOUS
  <2>4. Chunk(n, s, r, buffer, rest)
    BY <2>1, <2>2, <2>3 DEF Chunk
  <2>5. /\ s \in Seq(Pieces) /\ r \in Seq(Pieces) /\ SameText(s, r, buffer, rest)
        /\ Len(buffer) <= Len(s)
    BY <1>2, <2>4, ChunkOf
  <2>6. QED
    BY <2>2, <2>3, <2>5 DEF SameText
<1>4. PICK blocks : blocks = Found(buffer', FALSE)
  OBVIOUS
<1>5. Len(blocks) \in Nat
  <2>1. \E K : Found(buffer', FALSE) \in Seq(Blocks(Pieces, K))
    BY <1>3, FoundTyped
  <2>2. PICK K : blocks \in Seq(Blocks(Pieces, K))
    BY <1>4, <2>1
  <2>3. QED
    BY <2>2, LenProperties
<1>6. PICK st : st = ShowAll(blocks)
  OBVIOUS
<1>7. seen' = st.seen /\ last' = st.last
  BY <1>4, <1>6 DEF Write
<1>8. Seeing(st, Len(blocks), blocks)
  BY <1>1, <1>2, <1>5, <1>6, SeeingAll DEF TextInv
<1>9. LastShown(last', seen')
  BY <1>7, <1>8 DEF Seeing
<1>10. ASSUME NEW s \in Segments PROVE seen'[s] = Showing(blocks, s, seen[s])
  <2>1. s \in Nat
    BY DEF Segments
  <2>2. ~(s < Len(blocks)) => Showing(blocks, s, seen[s]) = seen[s]
    BY <1>5, <2>1 DEF Showing
  <2>3. QED
    BY <1>7, <1>8, <2>2 DEF Seeing
<1>11. ASSUME Closed(doc)
       PROVE  /\ \E at : /\ Laid(buffer' \o rest', doc, at)
                         /\ \A s \in Segments : Spoken(buffer', doc, at, s, seen'[s])
              /\ \A s \in Segments : IsPrefix(seen[s], seen'[s])
  <2>1. PICK at : /\ Laid(buffer \o rest, doc, at)
                  /\ \A s \in Segments : Spoken(buffer, doc, at, s, seen[s])
    BY <1>1, <1>11 DEF TextInv
  <2>2. PICK t : t = buffer
    OBVIOUS
  <2>3. PICK u : u = buffer'
    OBVIOUS
  <2>4. PICK w : w = buffer \o rest
    OBVIOUS
  <2>5. /\ t \in Seq(Pieces) /\ u \in Seq(Pieces) /\ w \in Seq(Pieces) /\ Len(t) <= Len(u)
        /\ Laid(w, doc, at)
    BY <1>2, <1>3, <2>1, <2>2, <2>3, <2>4, ConcatProperties
  <2>6. Len(t) <= Len(w) /\ \A x \in 1..Len(t) : w[x] = t[x]
    BY <1>2, <2>2, <2>4, PrefixOfText
  <2>7. Len(u) <= Len(w) /\ \A x \in 1..Len(u) : w[x] = u[x]
    <3>1. PICK r : r = rest'
      OBVIOUS
    <3>2. w = u \o r /\ r \in Seq(Pieces)
      BY <1>3, <2>3, <2>4, <3>1
    <3>3. QED
      BY <2>5, <3>2, PrefixOfText
  <2>8. Laid(t, doc, at) /\ Laid(u, doc, at)
    BY <2>5, <2>6, <2>7, LaidPrefix
  <2>9. ASSUME NEW s \in Segments
        PROVE  Spoken(u, doc, at, s, seen'[s]) /\ IsPrefix(seen[s], seen'[s])
    <3>1. s \in Nat
      BY DEF Segments
    <3>2. Spoken(t, doc, at, s, seen[s]) /\ blocks = Found(u, FALSE)
      BY <1>4, <2>1, <2>2, <2>3
    <3>3. PICK old : old = seen[s]
      OBVIOUS
    <3>4. /\ Spoken(u, doc, at, s, Showing(blocks, s, old))
          /\ IsPrefix(old, Showing(blocks, s, old))
      BY <2>5, <2>8, <3>1, <3>2, <3>3, SpokenStep
    <3>5. QED
      BY <1>10, <3>3, <3>4
  <2>10. Laid(buffer' \o rest', doc, at)
    BY <1>3, <2>1
  <2>11. QED
    BY <2>3, <2>9, <2>10
<1>12. Closed(doc)' = Closed(doc) /\ Segments' = Segments
  BY <1>1 DEF Closed
<1>13. Grows
  BY <1>11 DEF Grows
<1>14. ShownIsSaid'
  BY <1>1 DEF ShownIsSaid
<1>15. TextInv'
  <2>1. phase' = "streaming" /\ pending' = <<>> /\ emitted' = {}
    BY <1>1 DEF TextInv
  <2>2. phase' = "streaming" /\ Closed(doc)' =>
           \E at : /\ Laid(buffer' \o rest', doc', at)
                   /\ \A s \in Segments : Spoken(buffer', doc', at, s, seen'[s])
    BY <1>1, <1>11, <1>12
  <2>3. LastShown(last, seen)'
    BY <1>9 DEF LastShown, Segments
  <2>4. (phase = "streaming" /\ Closed(doc) =>
           \E at : /\ Laid(buffer \o rest, doc, at)
                   /\ \A s \in Segments : Spoken(buffer, doc, at, s, seen[s]))'
    BY <1>12, <2>2
  <2>5. QED
    BY <1>14, <2>1, <2>3, <2>4 DEF TextInv
<1>16. QED
  BY <1>13, <1>15

LEMMA EndSaid ==
    ASSUME DeltaInv, TextInv, End, rest = <<>>, Closed(doc), NEW s \in Segments, seen[s] # <<>>
    PROVE  [name |-> "response_text", value |-> seen[s]] \in S!Range(pending')
<1>1. phase = "streaming" /\ emitted = {} /\ pending = <<>> /\ buffer \in Seq(Pieces)
  BY DEF End, TextInv, DeltaInv, Typed
<1>2. PICK at : /\ Laid(buffer \o rest, doc, at)
                /\ \A x \in Segments : Spoken(buffer, doc, at, x, seen[x])
  BY <1>1 DEF TextInv
<1>3. buffer \o rest = buffer
  BY <1>1, ConcatEmptySeq
<1>4. PICK u : u = Said(buffer, doc, at, s)
  OBVIOUS
<1>5. seen[s] = u /\ u # <<>> /\ Laid(buffer, doc, at) /\ s \in Nat
  BY <1>2, <1>3, <1>4 DEF Spoken, Segments
<1>6. Strip(u) = u
  BY <1>1, <1>4, <1>5, SaidQuiet
<1>7. PICK found : found = Found(buffer, TRUE)
  OBVIOUS
<1>8. PICK K : found \in Seq(Blocks(Pieces, K))
  <2>1. \E K : Found(buffer, TRUE) \in Seq(Blocks(Pieces, K))
    BY <1>1, FoundTyped
  <2>2. QED
    BY <1>7, <2>1
<1>9. PICK B : B = Blocks(Pieces, K)
  OBVIOUS
<1>10. PICK i : i = s + 1
  OBVIOUS
<1>11. i \in 1..Len(found) /\ found[i].kind = "text" /\ found[i].content = u
  <2>1. PICK t : t = buffer
    OBVIOUS
  <2>2. PICK final : final = TRUE
    OBVIOUS
  <2>3. /\ t \in Seq(Pieces) /\ Laid(t, doc, at) /\ u = Said(t, doc, at, s)
        /\ found = Found(t, final)
    BY <1>1, <1>4, <1>5, <1>7, <2>1, <2>2
  <2>4. s + 1 \in 1..Len(found) /\ found[s + 1].kind = "text" /\ found[s + 1].content = u
    BY <1>5, <2>3, PartialSaid
  <2>5. QED
    BY <1>10, <2>4
<1>12. PICK b : b = found[i]
  OBVIOUS
<1>13. b.kind = "text" /\ b.content = u
  BY <1>11, <1>12
<1>14. IsIntent(b)
  BY <1>5, <1>6, <1>13 DEF IsIntent
<1>15. Intent(b) = [name |-> "response_text", value |-> u]
  BY <1>6, <1>13 DEF Intent, Name
<1>16. PICK blocks : blocks = Finals(found)
  OBVIOUS
<1>17. blocks \in Seq(B) /\ \E j \in 1..Len(blocks) : blocks[j] = b
  BY <1>8, <1>9, <1>11, <1>12, <1>13, <1>14, <1>16, FinalsHold
<1>18. PICK j \in 1..Len(blocks) : blocks[j] = b
  BY <1>17
<1>19. PICK n : n = Len(blocks)
  OBVIOUS
<1>20. n \in Nat /\ DOMAIN blocks = 1..n
  BY <1>17, <1>19, LenProperties
<1>21. PICK intents : intents = [x \in DOMAIN blocks |-> Intent(blocks[x])]
  OBVIOUS
<1>22. PICK I : I = {Intent(blocks[x]) : x \in DOMAIN blocks}
  OBVIOUS
<1>23. intents \in [1..n -> I]
  BY <1>20, <1>21, <1>22
<1>24. intents \in Seq(I) /\ Len(intents) = n
  BY <1>20, <1>23, SeqOf
<1>25. pending \in Seq(I) /\ j \in 1..Len(intents)
  BY <1>1, <1>18, <1>19, <1>24, EmptySeq
<1>26. intents[j] \in S!Range(EmitAll(intents))
  BY <1>1, <1>24, <1>25, EmitAllHolds
<1>27. intents[j] = Intent(b)
  BY <1>18, <1>19, <1>20, <1>21
<1>28. pending' = EmitAll(intents)
  BY <1>7, <1>16, <1>21 DEF End
<1>29. QED
  BY <1>5, <1>15, <1>26, <1>27, <1>28

LEMMA BeginText ==
    ASSUME DeltaInv, TextInv, Begin
    PROVE  TextInv' /\ Grows
<1>1. /\ phase = "idle" /\ phase' = "streaming" /\ pending' = pending /\ seen' = seen
      /\ buffer' = <<>> /\ emitted' = {} /\ last' = [k \in Kinds |-> Nothing]
      /\ \E d \in Documents : doc' = d /\ rest' = SpellAll(d)
  BY DEF Begin, Reset
<1>2. PICK d \in Documents : doc' = d /\ rest' = SpellAll(d)
  BY <1>1
<1>3. seen = NoText
  BY <1>1 DEF DeltaInv, TurnInv
<1>4. LastShown(last', seen')
  <2>1. "text" \in Kinds /\ Nothing.value = <<>>
    BY DEF Kinds, Nothing
  <2>2. QED
    BY <1>1, <2>1 DEF LastShown
<1>5. ASSUME Closed(d)
      PROVE  \E at : /\ Laid(buffer' \o rest', d, at)
                     /\ \A s \in Segments : Spoken(buffer', d, at, s, seen'[s])
  <2>1. SpellAll(d) \in Seq(Pieces)
    BY SpellAllTyped
  <2>2. PICK r : r = SpellAll(d)
    OBVIOUS
  <2>3. <<>> \o r = r
    BY <2>1, <2>2, ConcatEmptySeq
  <2>4. buffer' \o rest' = r
    BY <1>1, <1>2, <2>2, <2>3
  <2>5. PICK at : Laid(SpellAll(d), d, at)
    BY <1>5, LaidWhole
  <2>6. Laid(buffer' \o rest', d, at)
    BY <2>2, <2>4, <2>5
  <2>7. \A s \in Segments : seen'[s] = <<>>
    BY <1>1, <1>3 DEF NoText
  <2>8. QED
    BY <2>6, <2>7 DEF Spoken
<1>6. Segments' = Segments /\ Closed(doc)' = Closed(d)
  BY <1>2 DEF Segments, Closed
<1>7. (phase = "streaming" /\ Closed(doc) =>
         \E at : /\ Laid(buffer \o rest, doc, at)
                 /\ \A s \in Segments : Spoken(buffer, doc, at, s, seen[s]))'
  BY <1>2, <1>5, <1>6
<1>8. LastShown(last, seen)'
  BY <1>4 DEF LastShown, Segments
<1>9. phase' = "streaming" /\ pending' = <<>> /\ emitted' = {}
  BY <1>1 DEF TextInv
<1>10. TextInv'
  BY <1>7, <1>8, <1>9 DEF TextInv, ShownIsSaid
<1>11. QED
  BY <1>1, <1>10 DEF Grows

LEMMA StepText ==
    ASSUME DeltaInv, TextInv, [Next]_vars
    PROVE  TextInv' /\ [Grows]_vars
<1>1. CASE Begin
  BY <1>1, BeginText
<1>2. CASE Write
  BY <1>2, WriteText
<1>3. CASE End
  <2>1. /\ phase = "streaming" /\ phase' = "ended"
        /\ UNCHANGED <<doc, rest, seen>>
    BY <1>3 DEF End
  <2>2. Segments' = Segments /\ Closed(doc)' = Closed(doc)
    BY <2>1 DEF Segments, Closed
  <2>3. ShownIsSaid'
    <3>1. SUFFICES ASSUME rest = <<>>, Closed(doc), NEW s \in Segments, seen[s] # <<>>
                   PROVE  [name |-> "response_text", value |-> seen[s]] \in S!Range(pending')
      BY <2>1, <2>2 DEF ShownIsSaid
    <3>2. QED
      BY <1>3, <3>1, EndSaid
  <2>4. TextInv'
    BY <2>1, <2>3 DEF TextInv
  <2>5. Grows
    <3>1. \A s \in Segments : seen[s] \in Seq(Pieces) /\ seen'[s] = seen[s]
      BY <2>1 DEF DeltaInv, Typed, Texts
    <3>2. \A s \in Segments : IsPrefix(seen[s], seen'[s])
      BY <3>1, PrefixOfItself
    <3>3. QED
      BY <3>2 DEF Grows
  <2>6. QED
    BY <2>4, <2>5
<1>4. CASE ProcessIntents
  <2>1. phase = "ended" /\ phase' = "idle" /\ pending' = <<>>
    BY <1>4 DEF ProcessIntents
  <2>2. QED
    BY <2>1 DEF TextInv, ShownIsSaid, Grows
<1>5. CASE UNCHANGED vars
  <2>1. UNCHANGED <<doc, rest, phase, buffer, emitted, last, pending, seen>>
    BY <1>5 DEF vars
  <2>2. TextInv'
    BY <2>1 DEF TextInv, ShownIsSaid, Closed, LastShown, Segments
  <2>3. QED
    BY <1>5, <2>2
<1>6. QED
  BY <1>1, <1>2, <1>3, <1>4, <1>5 DEF Next

LEMMA InitText == Init => TextInv
BY DEF Init, TextInv, ShownIsSaid

(* Both together are inductive: what is shown grows because of what it is,  *)
(* and the deltas are kept because it grows.                               *)
LEMMA StepBoth == DeltaInv /\ TextInv /\ [Next]_vars => DeltaInv' /\ TextInv' /\ [Grows]_vars
<1> SUFFICES ASSUME DeltaInv, TextInv, [Next]_vars PROVE DeltaInv' /\ TextInv' /\ [Grows]_vars
  OBVIOUS
<1>1. TextInv' /\ [Grows]_vars
  BY StepText
<1>2. DeltaInv'
  BY <1>1, StepDelta
<1>3. QED
  BY <1>1, <1>2

(* What partials.rs shows of a text is never taken back, if the model closes *)
(* the blocks it opens and writes no header inside of them: for any such    *)
(* documents, and wherever their text is cut into chunks, in the middle of  *)
(* a header too.                                                           *)
THEOREM TextGrows == Spec => TextOnlyGrows
<1>1. Init => DeltaInv /\ TextInv
  BY InitDelta, InitText
<1>2. QED
  BY <1>1, StepBoth, PTL DEF Spec, TextOnlyGrows

(* When the whole text has come, what was shown of a segment last is one of *)
(* the intents that the engine is handed by end() of orchestrator.rs.      *)
THEOREM ShownWasSaid == Spec => []ShownIsSaid
<1>1. Init => DeltaInv /\ TextInv
  BY InitDelta, InitText
<1>2. TextInv => ShownIsSaid
  BY DEF TextInv
<1>3. QED
  BY <1>1, <1>2, StepBoth, PTL DEF Spec

(* The deltas that partials.rs hands out, put together, are the text that   *)
(* was shown, in the first turn all of it, in any other an end of it.      *)
THEOREM DeltasKept == Spec => []DeltasAccumulate
<1>1. Init => DeltaInv /\ TextInv
  BY InitDelta, InitText
<1>2. DeltaInv => DeltasAccumulate
  BY DeltaAccumulates
<1>3. QED
  BY <1>1, <1>2, StepBoth, PTL DEF Spec

-----------------------------------------------------------------------------
(* What a block says does not depend on the newlines around it.            *)

LEMMA TrimIs ==
    ASSUME NEW E, NEW c \in Seq(E)
    PROVE  \/ Trim(c) = <<>> /\ \A i \in 1..Len(c) : c[i] = "nl"
           \/ \E lo \in 1..Len(c), hi \in 1..Len(c) :
                 /\ lo <= hi /\ c[lo] # "nl" /\ Len(Trim(c)) = hi - lo + 1
                 /\ \A x \in 1..(hi - lo + 1) : Trim(c)[x] = c[lo + x - 1]
                 /\ \A i \in 1..Len(c) : c[i] # "nl" => i \in lo..hi
<1> DEFINE A == {i \in DOMAIN c : c[i] # "nl"}
<1>1. Len(c) \in Nat /\ DOMAIN c = 1..Len(c)
  BY LenProperties
<1>2. CASE A = {}
  <2>1. Trim(c) = <<>>
    BY <1>2 DEF Trim
  <2>2. QED
    BY <1>1, <1>2, <2>1
<1>3. CASE A # {}
  <2>1. A \in SUBSET Nat /\ A \in SUBSET (1..Len(c)) /\ \A i \in 1..Len(c) : i \in A <=> c[i] # "nl"
    BY <1>1
  <2>2. Trim(c) = SubSeq(c, S!Min(A), S!Max(A))
    BY <1>3 DEF Trim
  <2> HIDE DEF A
  <2>3. PICK lo : lo = S!Min(A)
    OBVIOUS
  <2>4. PICK hi : hi = S!Max(A)
    OBVIOUS
  <2>5. lo \in A /\ hi \in A /\ (\A i \in A : lo <= i) /\ (\A i \in A : hi >= i)
    BY <1>1, <1>3, <2>1, <2>3, <2>4, MinOf, MaxOf
  <2>6. lo \in 1..Len(c) /\ hi \in 1..Len(c) /\ lo <= hi /\ c[lo] # "nl"
    BY <2>1, <2>5
  <2>7. PICK u : u = SubSeq(c, lo, hi)
    OBVIOUS
  <2>8. Len(u) = hi - lo + 1 /\ \A x \in 1..(hi - lo + 1) : u[x] = c[lo + x - 1]
    <3>1. lo \in Nat \ {0} /\ hi \in Int /\ hi <= Len(c) /\ lo <= hi
      BY <1>1, <2>6
    <3>2. /\ Len(SubSeq(c, lo, hi)) = (IF lo <= hi THEN hi - lo + 1 ELSE 0)
          /\ \A x \in 1..(hi - lo + 1) : SubSeq(c, lo, hi)[x] = c[lo + x - 1]
      BY <3>1, SliceIs
    <3>3. QED
      BY <2>7, <3>1, <3>2
  <2>9. \A i \in 1..Len(c) : c[i] # "nl" => i \in lo..hi
    BY <1>1, <2>1, <2>5, <2>6
  <2>10. Trim(c) = u
    BY <2>2, <2>3, <2>4, <2>7
  <2>11. QED
    BY <2>6, <2>8, <2>9, <2>10
<1>4. QED
  BY <1>2, <1>3

(* The same pieces are left but for newlines, and each as often.           *)
LEMMA TrimSame ==
    ASSUME NEW E, NEW c \in Seq(E)
    PROVE  /\ S!Range(Trim(c)) \subseteq S!Range(c)
           /\ S!Range(c) \subseteq S!Range(Trim(c)) \cup {"nl"}
           /\ Parses(Trim(c)) <=> Parses(c)
<1> DEFINE w == Trim(c)
<1>1. Len(c) \in Nat /\ DOMAIN c = 1..Len(c)
  BY LenProperties
<1>2. CASE Trim(c) = <<>> /\ \A i \in 1..Len(c) : c[i] = "nl"
  <2>1. DOMAIN Trim(c) = {}
    BY <1>2
  <2>2. S!Range(Trim(c)) = {} /\ S!Range(c) \subseteq {"nl"}
    BY <1>1, <1>2, <2>1 DEF S!Range
  <2>3. Parses(Trim(c))
    BY <2>1 DEF Parses
  <2>4. Parses(c)
    BY <1>1, <1>2 DEF Parses
  <2>5. QED
    BY <2>2, <2>3, <2>4
<1>3. ASSUME NEW lo \in 1..Len(c), NEW hi \in 1..Len(c), lo <= hi, Len(w) = hi - lo + 1,
             \A x \in 1..(hi - lo + 1) : w[x] = c[lo + x - 1],
             \A i \in 1..Len(c) : c[i] # "nl" => i \in lo..hi
      PROVE  /\ S!Range(w) \subseteq S!Range(c)
             /\ S!Range(c) \subseteq S!Range(w) \cup {"nl"}
             /\ Parses(w) <=> Parses(c)
  <2>1. w \in Seq(E)
    BY TrimTyped
  <2>2. DOMAIN w = 1..(hi - lo + 1)
    BY <1>3, <2>1, LenProperties
  <2> HIDE DEF w
  <2>3. ASSUME NEW x \in DOMAIN w PROVE lo + x - 1 \in DOMAIN c /\ w[x] = c[lo + x - 1]
    BY <1>1, <1>3, <2>2
  <2>4. ASSUME NEW i \in DOMAIN c, c[i] # "nl"
        PROVE  i - lo + 1 \in DOMAIN w /\ w[i - lo + 1] = c[i]
    <3>1. i \in lo..hi
      BY <1>1, <1>3, <2>4
    <3>2. PICK x : x = i - lo + 1
      OBVIOUS
    <3>3. x \in 1..(hi - lo + 1) /\ lo + x - 1 = i
      BY <1>1, <3>1, <3>2
    <3>4. QED
      BY <1>3, <2>2, <3>2, <3>3
  <2>5. S!Range(w) \subseteq S!Range(c)
    BY <2>3 DEF S!Range
  <2>6. S!Range(c) \subseteq S!Range(w) \cup {"nl"}
    BY <2>4 DEF S!Range
  <2>7. ASSUME Parses(c) PROVE Parses(w)
    <3>1. \A x \in DOMAIN w : w[x] \in S!Range(Fields) \cup {"nl"}
      BY <2>3, <2>7 DEF Parses
    <3>2. ASSUME NEW x \in DOMAIN w, NEW y \in DOMAIN w, x # y, w[x] = w[y] PROVE w[x] = "nl"
      <4>1. PICK i : i = lo + x - 1
        OBVIOUS
      <4>2. PICK j : j = lo + y - 1
        OBVIOUS
      <4>3. i # j
        BY <1>1, <2>2, <3>2, <4>1, <4>2
      <4>4. i \in DOMAIN c /\ j \in DOMAIN c /\ w[x] = c[i] /\ w[y] = c[j]
        BY <2>3, <4>1, <4>2
      <4>5. QED
        BY <2>7, <3>2, <4>3, <4>4 DEF Parses
    <3>3. QED
      BY <3>1, <3>2 DEF Parses
  <2>8. ASSUME Parses(w) PROVE Parses(c)
    <3>1. \A i \in DOMAIN c : c[i] \in S!Range(Fields) \cup {"nl"}
      BY <2>4, <2>8 DEF Parses
    <3>2. ASSUME NEW i \in DOMAIN c, NEW j \in DOMAIN c, i # j, c[i] = c[j], c[i] # "nl" PROVE FALSE
      <4>1. PICK x : x = i - lo + 1
        OBVIOUS
      <4>2. PICK y : y = j - lo + 1
        OBVIOUS
      <4>3. x # y
        BY <1>1, <3>2, <4>1, <4>2
      <4>4. x \in DOMAIN w /\ y \in DOMAIN w /\ w[x] = c[i] /\ w[y] = c[j]
        BY <2>4, <3>2, <4>1, <4>2
      <4>5. QED
        BY <2>8, <3>2, <4>3, <4>4 DEF Parses
    <3>3. QED
      BY <3>1, <3>2 DEF Parses
  <2>9. QED
    BY <2>5, <2>6, <2>7, <2>8
<1>4. QED
  <2>1. CASE \E lo \in 1..Len(c), hi \in 1..Len(c) :
                /\ lo <= hi /\ c[lo] # "nl" /\ Len(w) = hi - lo + 1
                /\ \A x \in 1..(hi - lo + 1) : w[x] = c[lo + x - 1]
                /\ \A i \in 1..Len(c) : c[i] # "nl" => i \in lo..hi
    <3>1. PICK lo \in 1..Len(c), hi \in 1..Len(c) :
                /\ lo <= hi /\ c[lo] # "nl" /\ Len(w) = hi - lo + 1
                /\ \A x \in 1..(hi - lo + 1) : w[x] = c[lo + x - 1]
                /\ \A i \in 1..Len(c) : c[i] # "nl" => i \in lo..hi
      BY <2>1
    <3>2. QED
      BY <1>3, <3>1
  <2>2. QED
    BY <1>2, <2>1, TrimIs

LEMMA AssignedSame ==
    ASSUME NEW E, NEW c \in Seq(E)
    PROVE  Assigned(Trim(c)) = Assigned(c)
<1>1. "nl" \notin {Fields[i] : i \in DOMAIN Fields}
  <2>1. PICK s : s = <<"k: 1", "j: 2">>
    OBVIOUS
  <2>2. DOMAIN s = 1..2 /\ s[1] = "k: 1" /\ s[2] = "j: 2"
    <3>1. Len(s) = 2 /\ s[1] = "k: 1" /\ s[2] = "j: 2"
      BY <2>1
    <3>2. PICK x, y : x = "k: 1" /\ y = "j: 2"
      OBVIOUS
    <3>3. <<x, y>> \in Seq({x, y})
      OBVIOUS
    <3>4. s \in Seq({x, y})
      BY <2>1, <3>2, <3>3
    <3>5. QED
      BY <3>1, <3>4, LenProperties
  <2>3. \A i \in 1..2 : i = 1 \/ i = 2
    OBVIOUS
  <2>4. "nl" \notin {s[i] : i \in DOMAIN s}
    BY <2>2, <2>3
  <2>5. QED
    BY <2>1, <2>4 DEF Fields
<1>2. ASSUME NEW i \in DOMAIN Fields PROVE Fields[i] \in S!Range(Trim(c)) <=> Fields[i] \in S!Range(c)
  BY <1>1, TrimSame
<1>3. PICK F : F = Fields
  OBVIOUS
<1>4. \A i \in DOMAIN F : F[i] \in S!Range(Trim(c)) <=> F[i] \in S!Range(c)
  BY <1>2, <1>3
<1>5. [i \in DOMAIN F |-> IF F[i] \in S!Range(Trim(c)) THEN <<F[i]>> ELSE <<>>]
       = [i \in DOMAIN F |-> IF F[i] \in S!Range(c) THEN <<F[i]>> ELSE <<>>]
  BY <1>4
<1>6. QED
  BY <1>3, <1>5 DEF Assigned

(* A content without headers loses nothing but the newlines around it. *)
LEMMA PlainQuiet ==
    ASSUME NEW c, Plain(c)
    PROVE  Trim(c) \in Seq(Pieces) /\ Strip(Trim(c)) = Trim(c)
<1> DEFINE Q == Pieces \ Telling
<1>1. c \in Seq(Q)
  <2>1. c \in Seq(Pieces) /\ Len(c) \in Nat /\ c \in [1..Len(c) -> Pieces]
    BY LenProperties DEF Plain
  <2>2. c \in [1..Len(c) -> Q]
    BY <2>1 DEF Plain
  <2>3. PICK n : n = Len(c)
    OBVIOUS
  <2> HIDE DEF Q
  <2>4. QED
    BY <2>1, <2>2, <2>3, SeqOf
<1>2. PICK u : u = Trim(c)
  OBVIOUS
<1>3. u \in Seq(Q)
  <2> HIDE DEF Q
  <2>1. QED
    BY <1>1, <1>2, TrimTyped
<1>4. u \in Seq(Pieces)
  <2>1. Q \subseteq Pieces
    OBVIOUS
  <2> HIDE DEF Q
  <2>2. QED
    BY <1>3, <2>1, SeqMonotonic
<1>5. ASSUME NEW p \in 1..Len(u) PROVE Harmless(u, p)
  <2>1. Len(u) \in Nat
    BY <1>4, LenProperties
  <2>2. \A q \in 1..Len(u) : u[q] \in Q
    <3> HIDE DEF Q
    <3>1. QED
      BY <1>3, ElementOfSeq
  <2>3. p < Len(u) => p + 1 \in 1..Len(u)
    BY <2>1
  <2>4. QED
    BY <2>2, <2>3, PieceSets DEF Harmless
<1>6. Strip(u) = u
  BY <1>4, <1>5, StripHarmless
<1>7. QED
  BY <1>2, <1>4, <1>6

(* What a block is understood as is what it means. *)
LEMMA BlockMeans ==
    ASSUME NEW b, NEW said, said.kind \in Kinds, Plain(said.content),
           b.kind = said.kind, b.content = Trim(said.content)
    PROVE  (IsIntent(b) <=> Says(said)) /\ Intent(b) = Meant(said)
<1>1. said.content \in Seq(Pieces)
  BY DEF Plain
<1>2. CASE said.kind = "text"
  <2>1. Strip(b.content) = Trim(said.content)
    BY PlainQuiet
  <2>2. QED
    BY <1>2, <2>1 DEF IsIntent, Says, Intent, Meant
<1>3. CASE said.kind # "text"
  <2>1. Parses(b.content) <=> Parses(said.content)
    BY <1>1, TrimSame
  <2>2. Assigned(b.content) = Assigned(said.content)
    BY <1>1, AssignedSame
  <2>3. said.kind # "orphan"
    BY DEF Kinds
  <2>4. QED
    BY <1>3, <2>1, <2>2, <2>3 DEF IsIntent, Says, Intent, Meant
<1>4. QED
  BY <1>2, <1>3

(* At the end of a document all of it is found, block by block. *)
LEMMA AllFound ==
    ASSUME NEW d \in Documents, Closed(d), NEW blocks, blocks = Found(SpellAll(d), TRUE)
    PROVE  /\ Len(blocks) = Len(d) /\ Len(d) \in Nat
           /\ \A i \in 1..Len(d) :
                 /\ (IsIntent(blocks[i]) <=> Says(d[i])) /\ Intent(blocks[i]) = Meant(d[i])
                 /\ blocks[i].kind = d[i].kind /\ d[i].kind \in Kinds
<1>1. PICK t : t = SpellAll(d)
  OBVIOUS
<1>2. t \in Seq(Pieces)
  BY <1>1, SpellAllTyped
<1>3. PICK at : Laid(t, d, at) /\ Finished(t, d, at)
  BY <1>1, LaidWhole
<1>4. PICK final : final = TRUE
  OBVIOUS
<1>5. blocks = Found(t, final)
  BY <1>1, <1>4
<1>6. Tells(t, d, at, final, 1, blocks)
  BY <1>2, <1>3, <1>5, FoundTells
<1>7. Len(blocks) + 1 = Len(d) + 1 /\ Len(d) \in Nat
  BY <1>3, <1>6 DEF Tells, Laid
<1>8. Len(blocks) \in Nat
  <2>1. \E K : Found(t, final) \in Seq(Blocks(Pieces, K))
    BY <1>2, FoundTyped
  <2>2. PICK K : blocks \in Seq(Blocks(Pieces, K))
    BY <1>5, <2>1
  <2>3. QED
    BY <2>2, LenProperties
<1>9. ASSUME NEW i \in 1..Len(d)
      PROVE  /\ (IsIntent(blocks[i]) <=> Says(d[i])) /\ Intent(blocks[i]) = Meant(d[i])
             /\ blocks[i].kind = d[i].kind /\ d[i].kind \in Kinds
  <2>1. PICK k : k = d[i].kind
    OBVIOUS
  <2>2. PICK c : c = d[i].content
    OBVIOUS
  <2>3. PICK p : p = at[i]
    OBVIOUS
  <2>4. /\ Whole(t, d, at, i) /\ ContentEnd(p, k, c) + 1 <= Len(t)
    BY <1>2, <1>3, <2>1, <2>2, <2>3, AllWhole
  <2>5. p \in 1..Len(t) /\ Cut(t, p, k, c)
    BY <1>2, <1>3, <2>1, <2>2, <2>3, <2>4, LaidCut
  <2>6. /\ k \in Kinds /\ Plain(c) /\ Len(c) \in Nat /\ Size(k) \in {2, 3} /\ Len(t) \in Nat
        /\ ContentEnd(p, k, c) = p + Size(k) + Len(c)
    <3>1. Plain(c)
      BY <1>3, <2>2 DEF Laid
    <3>2. QED
      BY <1>2, <1>3, <2>1, <2>2, <2>3, <3>1, LaidNumbers
  <2>7. blocks[i] = OpenedAt(t, p, final)
    <3>1. i \in 1..Len(d) /\ (i - 1) + 1 = i
      BY <1>7
    <3>2. blocks[(i - 1) + 1] = OpenedAt(t, at[i], final)
      BY <1>6, <2>4, <3>1 DEF Tells
    <3>3. QED
      BY <2>3, <3>1, <3>2
  <2>8. ContentEnd(p, k, c) # Len(t)
    BY <2>4, <2>5, <2>6
  <2>9. /\ OpenedAt(t, p, final).kind = k
        /\ OpenedAt(t, p, final).content = Heard(t, p, k, c)
    <3>1. PICK o : o = OpenedAt(t, p, final)
      OBVIOUS
    <3>2. k \in Kinds
      BY <2>6
    <3>3. o.kind = k
      BY <1>2, <2>5, <3>1, <3>2, OpenedIs
    <3>4. o.content = Heard(t, p, k, c)
      <4>1. ~InCloser(t, p, k, c)
        BY <2>8 DEF InCloser
      <4>2. QED
        BY <1>2, <2>5, <3>1, <3>2, <4>1, OpenedIs
    <3>5. QED
      BY <3>1, <3>3, <3>4
  <2>10. Heard(t, p, k, c) = Trim(c)
    <3>1. PICK a : a = p + Size(k)
      OBVIOUS
    <3>2. a \in Nat /\ a + Len(c) + 1 <= Len(t)
      BY <2>4, <2>5, <2>6, <3>1
    <3>3. Visible(t, a, Len(c)) = Len(c)
      BY <2>6, <3>2 DEF Visible
    <3>4. SubSeq(c, 1, Len(c)) = c
      BY <2>6, SubSeqFull DEF Plain
    <3>5. QED
      BY <3>1, <3>3, <3>4 DEF Heard
  <2>11. PICK b : b = blocks[i]
    OBVIOUS
  <2>12. PICK said : said = d[i]
    OBVIOUS
  <2>13. /\ b.kind = said.kind /\ b.content = Trim(said.content) /\ said.kind \in Kinds
         /\ Plain(said.content)
    BY <2>1, <2>2, <2>6, <2>7, <2>9, <2>10, <2>11, <2>12
  <2>14. (IsIntent(b) <=> Says(said)) /\ Intent(b) = Meant(said)
    BY <2>13, BlockMeans
  <2>15. QED
    BY <2>11, <2>12, <2>13, <2>14
<1>10. Len(blocks) = Len(d)
  <2>1. PICK m : m = Len(blocks)
    OBVIOUS
  <2>2. PICK n : n = Len(d)
    OBVIOUS
  <2>3. m + 1 = n + 1 /\ m \in Nat /\ n \in Nat
    BY <1>7, <1>8, <2>1, <2>2
  <2>4. m = n
    BY <2>3
  <2>5. QED
    BY <2>1, <2>2, <2>4
<1>11. QED
  BY <1>7, <1>9, <1>10

-----------------------------------------------------------------------------
(* What the engine is handed is each intent once.                          *)

(* Those that are not said before. *)
First(keep, mean) == {i \in keep : \A j \in keep : j < i => mean[j] # mean[i]}

(* What was handed over of the first p - 1 intents: text, and which they are.*)
Handed(f, intents, p, text, known) ==
    p \in Nat \ {0} /\ f[p - 1] = text /\ {intents[k] : k \in 1..(p - 1)} = known

LEMMA HandedOne ==
    ASSUME NEW intents, Len(intents) \in Nat, NEW f, Emits(intents, f), emitted = {},
           NEW p \in 1..Len(intents), NEW text, NEW known, Handed(f, intents, p, text, known)
    PROVE  Handed(f, intents, p + 1,
                  IF intents[p] \in known THEN text ELSE Append(text, intents[p]),
                  known \cup {intents[p]})
<1>1. p \in 0..Len(intents) /\ p # 0 /\ (p + 1) - 1 = p /\ p + 1 \in Nat \ {0} /\ p \in Nat
  BY DEF Handed
<1>2. f[p] = IF \E j \in 1..(p - 1) : intents[j] = intents[p] THEN f[p - 1]
             ELSE Append(f[p - 1], intents[p])
  <2>1. intents[p] \notin emitted
    OBVIOUS
  <2>2. QED
    BY <1>1, <2>1 DEF Emits
<1>3. (\E j \in 1..(p - 1) : intents[j] = intents[p]) <=> intents[p] \in known
  BY DEF Handed
<1>4. f[p] = IF intents[p] \in known THEN text ELSE Append(text, intents[p])
  BY <1>2, <1>3 DEF Handed
<1>5. \A k \in 1..p : k = p \/ k \in 1..(p - 1)
  BY <1>1
<1>6. \A k \in 1..(p - 1) : k \in 1..p
  BY <1>1
<1>7. p \in 1..p
  BY <1>1
<1>8. {intents[k] : k \in 1..p} = {intents[k] : k \in 1..(p - 1)} \cup {intents[p]}
  BY <1>5, <1>6, <1>7
<1>9. {intents[k] : k \in 1..p} = known \cup {intents[p]}
  BY <1>8 DEF Handed
<1>10. QED
  BY <1>1, <1>4, <1>9 DEF Handed

Values(mean, keep) == {mean[i] : i \in keep}

(* Of n items those of a set, each a sequence of its own. *)
Picks(seqs, n, keep, items) ==
    Len(seqs) = n /\ \A i \in 1..n : seqs[i] = IF i \in keep THEN <<items[i]>> ELSE <<>>

(* The intents begin with what the blocks mean. *)
BeginWith(intents, blocks) ==
    /\ Len(intents) \in Nat /\ Len(blocks) <= Len(intents)
    /\ \A k \in 1..Len(blocks) : intents[k] = Intent(blocks[k])

LEMMA OnceEach ==
    ASSUME NEW B, NEW I, NEW n \in Nat, NEW keep \in SUBSET (1..n), NEW items, NEW mean,
           \A i \in 1..n : mean[i] = Intent(items[i]) /\ mean[i] \in I,
           NEW each \in Seq(Seq(B)), Picks(each, n, keep, items),
           NEW once \in Seq(Seq(I)), Picks(once, n, First(keep, mean), mean),
           NEW flat, flat = S!FlattenSeq(each), NEW intents, BeginWith(intents, flat),
           NEW f, Emits(intents, f), emitted = {}, pending = <<>>
    PROVE  Handed(f, intents, Len(flat) + 1, S!FlattenSeq(once), Values(mean, keep))
<1> DEFINE Means(m) == {mean[i] : i \in {j \in keep : j < m}}
<1>1. each \in Seq(Seq(B)) /\ Len(each) = n
  BY DEF Picks
<1>2. once \in Seq(Seq(I)) /\ Len(once) = n
  BY DEF Picks
<1>3. PICK at : Placed(each, flat, at)
  BY <1>1, FlattenPlaces
<1>4. ASSUME NEW m \in 1..n
      PROVE  /\ (m \in keep => each[m] = <<items[m]>>) /\ (m \notin keep => each[m] = <<>>)
             /\ (m \in First(keep, mean) => once[m] = <<mean[m]>>)
             /\ (m \notin First(keep, mean) => once[m] = <<>>)
  BY DEF Picks
<1>5. Len(flat) \in Nat
  <2>1. flat \in Seq(B)
    BY <1>1, FlattenTyped
  <2>2. QED
    BY <2>1, LenProperties
<1>6. Handed(f, intents, 1, <<>>, {}) /\ at[1] = 1 /\ Means(1) = {}
  <2>1. 0 \in 0..Len(intents) /\ f[0] = pending
    <3>1. 0 \in 0..Len(intents)
      BY DEF BeginWith
    <3>2. QED
      BY <3>1 DEF Emits
  <2>2. 1 - 1 = 0 /\ 1 \in Nat \ {0} /\ {intents[k] : k \in 1..0} = {}
    OBVIOUS
  <2>3. Means(1) = {}
    OBVIOUS
  <2>4. QED
    BY <1>3, <2>1, <2>2, <2>3 DEF Handed, Placed
(* One more of the blocks. *)
<1>7. ASSUME NEW m \in 1..n, NEW text, Handed(f, intents, at[m], text, Means(m))
      PROVE  Handed(f, intents, at[m + 1],
                    IF m \in First(keep, mean) THEN Append(text, mean[m]) ELSE text, Means(m + 1))
  <2>1. PICK p : p = at[m]
    OBVIOUS
  <2>2. m \in Nat /\ \A j \in keep : j \in Nat
    OBVIOUS
  <2>3. /\ at[m + 1] = p + Len(each[m]) /\ p \in Nat \ {0}
        /\ \A x \in 1..Len(each[m]) : p + x - 1 \in 1..Len(flat) /\ flat[p + x - 1] = each[m][x]
    BY <1>1, <1>3, <2>1 DEF Placed
  <2>4. CASE m \in keep
    <3>1. PICK s : s = <<items[m]>>
      OBVIOUS
    <3>2. Len(s) = 1 /\ s[1] = items[m] /\ each[m] = s
      BY <1>4, <2>4, <3>1
    <3>3. at[m + 1] = p + 1 /\ p \in 1..Len(flat) /\ flat[p] = items[m]
      <4>1. 1 \in 1..1 /\ p + 1 - 1 = p
        BY <2>3
      <4>2. QED
        BY <2>3, <3>2, <4>1
    <3>4. intents[p] = mean[m] /\ p \in 1..Len(intents)
      BY <1>5, <3>3 DEF BeginWith
    <3>5. Handed(f, intents, p + 1,
                 IF intents[p] \in Means(m) THEN text ELSE Append(text, intents[p]),
                 Means(m) \cup {intents[p]})
      <4>1. PICK known : known = Means(m)
        OBVIOUS
      <4>2. Handed(f, intents, p, text, known)
        BY <1>7, <2>1, <4>1
      <4> HIDE DEF Means
      <4>3. Handed(f, intents, p + 1,
                   IF intents[p] \in known THEN text ELSE Append(text, intents[p]),
                   known \cup {intents[p]})
        BY <3>4, <4>2, HandedOne DEF BeginWith
      <4>4. QED
        BY <4>1, <4>3
    <3>6. mean[m] \in Means(m) <=> m \notin First(keep, mean)
      BY <2>4 DEF First
    <3>7. Means(m + 1) = Means(m) \cup {mean[m]}
      <4>1. \A j \in keep : j < m + 1 <=> j < m \/ j = m
        BY <2>2
      <4>2. QED
        BY <2>4, <4>1
    <3> HIDE DEF Means
    <3>8. QED
      BY <3>3, <3>4, <3>5, <3>6, <3>7
  <2>5. CASE m \notin keep
    <3>1. Len(each[m]) = 0
      BY <1>4, <2>5, EmptySeq
    <3>2. at[m + 1] = p
      BY <2>3, <3>1
    <3>3. m \notin First(keep, mean)
      BY <2>5 DEF First
    <3>4. Means(m + 1) = Means(m)
      <4>1. \A j \in keep : j < m + 1 <=> j < m
        BY <2>2, <2>5
      <4>2. QED
        BY <4>1
    <3> HIDE DEF Means
    <3>5. QED
      BY <1>7, <2>1, <3>2, <3>3, <3>4
  <2>6. QED
    BY <2>4, <2>5
<1>8. Means(n + 1) = Values(mean, keep)
  <2>1. \A j \in keep : j < n + 1
    OBVIOUS
  <2>2. QED
    BY <2>1 DEF Values
<1>9. at[n + 1] = Len(flat) + 1
  BY <1>1, <1>3 DEF Placed
<1> HIDE DEF Means
<1>10. CASE n = 0
  <2>1. once = <<>>
    BY <1>2, <1>10, EmptySeq
  <2>2. S!FlattenSeq(once) = <<>>
    BY <2>1 DEF S!FlattenSeq
  <2>3. n + 1 = 1
    BY <1>10
  <2>4. Handed(f, intents, at[n + 1], S!FlattenSeq(once), Means(n + 1))
    BY <1>6, <2>2, <2>3
  <2>5. QED
    BY <1>8, <1>9, <2>4
<1>11. CASE n # 0
  <2>1. once # <<>>
    BY <1>2, <1>11, EmptySeq
  <2>2. PICK h : Joins(once, h) /\ S!FlattenSeq(once) = h[n]
    BY <1>2, <2>1, FlattenJoins
  <2> DEFINE T == {m \in 1..n : h[m] \in Seq(I) /\ Handed(f, intents, at[m + 1], h[m], Means(m + 1))}
  <2>3. \A m \in 1..n : mean[m] \in I
    OBVIOUS
  <2>4. 1 \in T
    <3>1. 1 \in 1..n
      BY <1>11
    <3>2. h[1] = once[1]
      BY <1>2, <2>2, <3>1 DEF Joins
    <3>3. Handed(f, intents, at[1 + 1],
                 IF 1 \in First(keep, mean) THEN Append(<<>>, mean[1]) ELSE <<>>, Means(1 + 1))
      BY <1>6, <1>7, <3>1
    <3>4. Append(<<>>, mean[1]) = <<mean[1]>>
      OBVIOUS
    <3>5. h[1] = IF 1 \in First(keep, mean) THEN Append(<<>>, mean[1]) ELSE <<>>
      BY <1>4, <3>1, <3>2, <3>4
    <3>6. <<mean[1]>> \in Seq(I) /\ <<>> \in Seq(I)
      BY <2>3, <3>1
    <3>7. h[1] \in Seq(I)
      BY <3>4, <3>5, <3>6
    <3>8. QED
      BY <3>1, <3>3, <3>5, <3>7
  <2>5. ASSUME NEW i \in 1..n, i + 1 \in 1..n, i \in T PROVE i + 1 \in T
    <3>1. PICK m : m = i + 1
      OBVIOUS
    <3>2. m \in 1..n /\ m # 1 /\ m - 1 = i
      BY <2>5, <3>1
    <3>3. PICK s : s = h[i]
      OBVIOUS
    <3>4. s \in Seq(I) /\ Handed(f, intents, at[m], s, Means(m))
      BY <2>5, <3>1, <3>3
    <3>5. h[m] = s \o once[m]
      BY <1>2, <2>2, <3>2, <3>3 DEF Joins
    <3>6. Handed(f, intents, at[m + 1],
                 IF m \in First(keep, mean) THEN Append(s, mean[m]) ELSE s, Means(m + 1))
      BY <1>7, <3>2, <3>4
    <3>7. PICK x : x = mean[m]
      OBVIOUS
    <3>8. x \in I
      BY <2>3, <3>2, <3>7
    <3>9. Append(s, x) = s \o <<x>> /\ s \o <<>> = s /\ Append(s, x) \in Seq(I)
      <4>1. Append(s, x) = s \o <<x>>
        BY <3>4, <3>8, AppendIsConcat
      <4>2. s \o <<>> = s
        BY <3>4, ConcatEmptySeq
      <4>3. Append(s, x) \in Seq(I)
        BY <3>4, <3>8, AppendProperties
      <4>4. QED
        BY <4>1, <4>2, <4>3
    <3>10. h[m] = IF m \in First(keep, mean) THEN Append(s, x) ELSE s
      BY <1>4, <3>2, <3>5, <3>7, <3>9
    <3>11. h[m] \in Seq(I)
      BY <3>4, <3>9, <3>10
    <3>12. QED
      BY <3>1, <3>2, <3>6, <3>7, <3>10, <3>11
  <2>6. n \in T
    <3>1. 1..n \subseteq T
      <4> HIDE DEF T
      <4>1. QED
        BY <2>4, <2>5, InductionTo
    <3>2. n \in 1..n
      BY <1>11
    <3>3. QED
      BY <3>1, <3>2
  <2>7. Handed(f, intents, at[n + 1], S!FlattenSeq(once), Means(n + 1))
    BY <2>2, <2>6
  <2>8. QED
    BY <1>8, <1>9, <2>7
<1>12. QED
  BY <1>10, <1>11

(* Of blocks that mean what the document says, the engine is handed what it *)
(* means.                                                                  *)
Mean(blocks, d) ==
    /\ IsSequence(d) /\ Len(blocks) = Len(d)
    /\ \A i \in 1..Len(d) :
          /\ (IsIntent(blocks[i]) <=> Says(d[i])) /\ Intent(blocks[i]) = Meant(d[i])
          /\ blocks[i].kind = d[i].kind /\ d[i].kind \in Kinds

LEMMA HandsOver ==
    ASSUME NEW B, NEW blocks \in Seq(B), NEW d, Mean(blocks, d), emitted = {}, pending = <<>>,
           NEW finals, finals = Finals(blocks),
           NEW intents, intents = [i \in DOMAIN finals |-> Intent(finals[i])]
    PROVE  EmitAll(intents) = Meaning(d)
<1> DEFINE n == Len(blocks)
           Other(b) == b.kind # "schema" /\ IsIntent(b)
           schemas == {i \in DOMAIN blocks : blocks[i].kind = "schema" /\ IsIntent(blocks[i])}
           keep == {i \in 1..n : Other(blocks[i])}
           mean == [i \in 1..n |-> Intent(blocks[i])]
           I == {Intent(b) : b \in B}
           each == [i \in 1..n |-> IF i \in keep THEN <<blocks[i]>> ELSE <<>>]
           once == [i \in 1..n |-> IF i \in First(keep, mean) THEN <<mean[i]>> ELSE <<>>]
           flat == S!FlattenSeq(each)
           final == IF schemas = {} THEN <<>> ELSE <<blocks[S!Max(schemas)]>>
           text == S!FlattenSeq(once)
           Saying(schema) == {i \in DOMAIN d : Says(d[i]) /\ (d[i].kind = "schema") = schema}
           known == Values(mean, keep)
<1>1. n \in Nat /\ DOMAIN blocks = 1..n /\ DOMAIN d = 1..n
  <2>1. Len(d) \in Nat /\ DOMAIN d = 1..Len(d) /\ n = Len(d)
    BY LenProperties DEF Mean, IsSequence
  <2>2. n \in Nat /\ DOMAIN blocks = 1..n
    BY LenProperties
  <2>3. QED
    BY <2>1, <2>2
<1>2. ASSUME NEW i \in 1..n
      PROVE  /\ (IsIntent(blocks[i]) <=> Says(d[i])) /\ Intent(blocks[i]) = Meant(d[i])
             /\ blocks[i].kind = d[i].kind /\ d[i].kind \in Kinds
             /\ blocks[i] \in B /\ mean[i] = Intent(blocks[i]) /\ mean[i] \in I
  <2>1. /\ (IsIntent(blocks[i]) <=> Says(d[i])) /\ Intent(blocks[i]) = Meant(d[i])
        /\ blocks[i].kind = d[i].kind /\ d[i].kind \in Kinds
    BY DEF Mean
  <2>2. blocks[i] \in B
    BY ElementOfSeq
  <2>3. QED
    BY <2>1, <2>2
<1>3. keep = Saying(FALSE) /\ schemas = Saying(TRUE)
  <2>1. ASSUME NEW i \in 1..n PROVE i \in keep <=> i \in Saying(FALSE)
    BY <1>1, <1>2
  <2>2. ASSUME NEW i \in 1..n PROVE i \in schemas <=> i \in Saying(TRUE)
    BY <1>1, <1>2
  <2>3. /\ keep \subseteq 1..n /\ Saying(FALSE) \subseteq 1..n
        /\ schemas \subseteq 1..n /\ Saying(TRUE) \subseteq 1..n
    BY <1>1
  <2> HIDE DEF keep, schemas, Saying
  <2>4. QED
    BY <2>1, <2>2, <2>3
<1>4. finals = flat \o final
  <2>1. [i \in DOMAIN blocks |-> IF Other(blocks[i]) THEN <<blocks[i]>> ELSE <<>>]
          = [i \in 1..n |-> IF i \in keep THEN <<blocks[i]>> ELSE <<>>]
    <3>1. ASSUME NEW i \in 1..n
          PROVE  (IF Other(blocks[i]) THEN <<blocks[i]>> ELSE <<>>)
                   = (IF i \in keep THEN <<blocks[i]>> ELSE <<>>)
      OBVIOUS
    <3> HIDE DEF keep, Other, n
    <3>2. QED
      BY <1>1, <3>1
  <2>2. Finals(blocks)
          = S!FlattenSeq([i \in DOMAIN blocks |-> IF Other(blocks[i]) THEN <<blocks[i]>> ELSE <<>>])
            \o final
    BY DEF Finals
  <2> HIDE DEF final, keep, Other
  <2>3. QED
    BY <2>1, <2>2
<1>5. Meaning(d) = text \o (IF schemas = {} THEN <<>> ELSE <<Meant(d[S!Max(schemas)])>>)
  <2>1. ~(d # <<>> /\ \A i \in DOMAIN d : d[i].kind = "orphan")
    <3>1. SUFFICES ASSUME d # <<>>, \A i \in DOMAIN d : d[i].kind = "orphan" PROVE FALSE
      OBVIOUS
    <3>2. CASE n = 0
      <4>1. Len(d) = 0 /\ d \in Seq(S!Range(d))
        BY <3>2 DEF Mean, IsSequence
      <4>2. QED
        BY <3>1, <4>1, EmptySeq
    <3>3. CASE n # 0
      <4>1. 1 \in 1..n
        BY <1>1, <3>3
      <4>2. d[1].kind \in Kinds /\ d[1].kind = "orphan"
        BY <1>1, <1>2, <3>1, <4>1
      <4>3. QED
        BY <4>2 DEF Kinds
    <3>4. QED
      BY <3>2, <3>3
  <2>2. PICK first : first = {i \in Saying(FALSE) :
                                 \A j \in Saying(FALSE) : j < i => Meant(d[j]) # Meant(d[i])}
    OBVIOUS
  <2>3. first = First(keep, mean)
    <3>1. \A i \in keep : i \in 1..n
      OBVIOUS
    <3>2. \A i \in keep : mean[i] = Meant(d[i])
      BY <1>2, <3>1
    <3>3. PICK k : k = keep
      OBVIOUS
    <3>4. PICK v : v = mean
      OBVIOUS
    <3> HIDE DEF keep, mean, Saying
    <3>5. k = Saying(FALSE) /\ \A i \in k : v[i] = Meant(d[i])
      BY <1>3, <3>2, <3>3, <3>4
    <3>6. first = {i \in k : \A j \in k : j < i => Meant(d[j]) # Meant(d[i])}
      BY <2>2, <3>5
    <3>7. ASSUME NEW i \in k
          PROVE  (\A j \in k : j < i => Meant(d[j]) # Meant(d[i]))
                    <=> (\A j \in k : j < i => v[j] # v[i])
      BY <3>5
    <3>8. first = First(k, v)
      BY <3>6, <3>7 DEF First
    <3>9. QED
      BY <3>3, <3>4, <3>8
  <2>4. [i \in DOMAIN d |-> IF i \in first THEN <<Meant(d[i])>> ELSE <<>>]
          = [i \in 1..n |-> IF i \in First(keep, mean) THEN <<mean[i]>> ELSE <<>>]
    <3>1. ASSUME NEW i \in 1..n
          PROVE  (IF i \in first THEN <<Meant(d[i])>> ELSE <<>>)
                   = (IF i \in First(keep, mean) THEN <<mean[i]>> ELSE <<>>)
      <4>1. mean[i] = Meant(d[i])
        BY <1>2
      <4> HIDE DEF mean, keep
      <4>2. QED
        BY <2>3, <4>1
    <3> HIDE DEF mean, keep, n
    <3>2. QED
      BY <1>1, <3>1
  <2>5. Meaning(d) = S!FlattenSeq([i \in DOMAIN d |-> IF i \in first THEN <<Meant(d[i])>> ELSE <<>>])
                     \o (IF Saying(TRUE) = {} THEN <<>> ELSE <<Meant(d[S!Max(Saying(TRUE))])>>)
    BY <2>1, <2>2 DEF Meaning
  <2> HIDE DEF Saying, mean, keep, schemas
  <2>6. QED
    BY <1>3, <2>4, <2>5
<1>6. /\ flat \in Seq(B) /\ text \in Seq(I)
      /\ each \in Seq(Seq(B)) /\ Picks(each, n, keep, blocks)
      /\ once \in Seq(Seq(I)) /\ Picks(once, n, First(keep, mean), mean)
  <2>1. ASSUME NEW i \in 1..n
        PROVE  /\ (IF i \in keep THEN <<blocks[i]>> ELSE <<>>) \in Seq(B)
               /\ (IF i \in First(keep, mean) THEN <<mean[i]>> ELSE <<>>) \in Seq(I)
    <3>1. PICK b : b = blocks[i]
      OBVIOUS
    <3>2. PICK v : v = mean[i]
      OBVIOUS
    <3>3. b \in B /\ v \in I
      BY <1>2, <3>1, <3>2
    <3> HIDE DEF mean, keep, I
    <3>4. <<b>> \in Seq(B) /\ <<v>> \in Seq(I) /\ <<>> \in Seq(B) /\ <<>> \in Seq(I)
      BY <3>3
    <3>5. QED
      BY <3>1, <3>2, <3>4
  <2> HIDE DEF mean, keep, I
  <2>2. each \in [1..n -> Seq(B)] /\ once \in [1..n -> Seq(I)]
    BY <2>1
  <2>3. /\ \A i \in 1..n : each[i] = IF i \in keep THEN <<blocks[i]>> ELSE <<>>
        /\ \A i \in 1..n : once[i] = IF i \in First(keep, mean) THEN <<mean[i]>> ELSE <<>>
    OBVIOUS
  <2> HIDE DEF n, each, once
  <2>4. each \in Seq(Seq(B)) /\ once \in Seq(Seq(I)) /\ Len(each) = n /\ Len(once) = n
    BY <1>1, <2>2, SeqOf
  <2>5. flat \in Seq(B) /\ text \in Seq(I)
    BY <2>4, FlattenTyped
  <2>6. QED
    BY <2>3, <2>4, <2>5 DEF Picks
<1>7. final \in Seq(B)
  <2>1. CASE schemas = {}
    BY <2>1, EmptySeq
  <2>2. CASE schemas # {}
    <3>1. schemas \in SUBSET (1..n)
      BY <1>1
    <3>2. S!Max(schemas) \in schemas
      <4> HIDE DEF schemas, n
      <4>1. QED
        BY <1>1, <2>2, <3>1, MaxOf
    <3>3. PICK m : m = S!Max(schemas)
      OBVIOUS
    <3>4. PICK b : b = blocks[m]
      OBVIOUS
    <3>5. b \in B
      BY <1>2, <3>1, <3>2, <3>3, <3>4
    <3>6. PICK s : s = <<b>>
      OBVIOUS
    <3>7. s \in Seq(B)
      BY <3>5, <3>6
    <3>8. final = s
      BY <2>2, <3>3, <3>4, <3>6
    <3> HIDE DEF final
    <3>9. QED
      BY <3>7, <3>8
  <2>3. QED
    BY <2>1, <2>2
<1>8. /\ finals \in Seq(B) /\ Len(finals) = Len(flat) + Len(final)
      /\ \A k \in 1..(Len(flat) + Len(final)) :
            finals[k] = IF k <= Len(flat) THEN flat[k] ELSE final[k - Len(flat)]
  <2> HIDE DEF flat, final
  <2>1. flat \o final \in Seq(B)
    BY <1>6, <1>7, ConcatProperties
  <2>2. Len(flat \o final) = Len(flat) + Len(final)
    BY <1>6, <1>7, ConcatProperties
  <2>3. \A k \in 1..(Len(flat) + Len(final)) :
           (flat \o final)[k] = IF k <= Len(flat) THEN flat[k] ELSE final[k - Len(flat)]
    BY <1>6, <1>7, ConcatProperties
  <2>4. QED
    BY <1>4, <2>1, <2>2, <2>3
<1>9. /\ Len(flat) \in Nat /\ Len(final) \in Nat
      /\ \A k \in 1..Len(flat) : k \in 1..Len(finals) /\ finals[k] = flat[k]
  <2> HIDE DEF flat, final
  <2>1. Len(flat) \in Nat /\ Len(final) \in Nat
    BY <1>6, <1>7, LenProperties
  <2>2. \A k \in 1..Len(flat) : k \in 1..(Len(flat) + Len(final)) /\ k <= Len(flat)
    BY <2>1
  <2>3. QED
    BY <1>8, <2>1, <2>2
<1>10. /\ Len(intents) = Len(finals) /\ Len(intents) \in Nat
       /\ \A k \in 1..Len(finals) : intents[k] = Intent(finals[k])
  <2>1. Len(finals) \in Nat /\ DOMAIN finals = 1..Len(finals)
    BY <1>8, LenProperties
  <2>2. ASSUME NEW k \in 1..Len(finals) PROVE Intent(finals[k]) \in I
    <3>1. finals[k] \in B
      BY <1>8, ElementOfSeq
    <3>2. QED
      BY <3>1
  <2> HIDE DEF I
  <2>3. intents \in [1..Len(finals) -> I]
    BY <2>1, <2>2
  <2>4. PICK m : m = Len(finals)
    OBVIOUS
  <2>5. Len(intents) = m
    BY <2>1, <2>3, <2>4, SeqOf
  <2>6. QED
    BY <2>1, <2>4, <2>5
<1> DEFINE f == CHOOSE f : Emits(intents, f)
<1>11. Emits(intents, f)
  BY <1>10, EmitsExists
<1>12. EmitAll(intents) = f[Len(intents)]
  BY DEF EmitAll, Emits
<1> HIDE DEF f
<1>13. Handed(f, intents, Len(flat) + 1, text, known)
  <2>1. keep \in SUBSET (1..n)
    OBVIOUS
  <2>2. \A i \in 1..n : mean[i] = Intent(blocks[i]) /\ mean[i] \in I
    BY <1>2
  <2>3. BeginWith(intents, flat)
    <3> HIDE DEF flat, final
    <3>1. QED
      BY <1>8, <1>9, <1>10 DEF BeginWith
  <2>4. PICK u : u = flat
    OBVIOUS
  <2> HIDE DEF n, keep, mean, I, each, once
  <2>5. u = S!FlattenSeq(each)
    BY <2>4
  <2> HIDE DEF flat
  <2>6. Handed(f, intents, Len(u) + 1, S!FlattenSeq(once), Values(mean, keep))
    BY <1>1, <1>6, <1>10, <1>11, <2>1, <2>2, <2>3, <2>4, <2>5, OnceEach
  <2>7. QED
    BY <2>4, <2>6
<1>14. CASE schemas = {}
  <2>1. final = <<>>
    BY <1>14
  <2> HIDE DEF flat, text, final, schemas, known
  <2>2. finals = flat
    BY <1>4, <1>6, <2>1, ConcatEmptySeq
  <2>3. Meaning(d) = text
    BY <1>5, <1>6, <1>14, ConcatEmptySeq
  <2>4. (Len(flat) + 1) - 1 = Len(flat)
    BY <1>9
  <2>5. f[Len(flat)] = text
    BY <1>13, <2>4 DEF Handed
  <2>6. QED
    BY <1>10, <1>12, <2>2, <2>3, <2>5
<1>15. CASE schemas # {}
  <2>1. PICK m : m = S!Max(schemas)
    OBVIOUS
  <2>2. m \in schemas
    <3>1. schemas \in SUBSET (1..n)
      BY <1>1
    <3> HIDE DEF schemas, n
    <3>2. QED
      BY <1>1, <1>15, <2>1, <3>1, MaxOf
  <2>3. m \in 1..n /\ blocks[m].kind = "schema"
    BY <1>1, <2>2
  <2>4. PICK x : x = Intent(blocks[m])
    OBVIOUS
  <2>5. x.name = "response_schema" /\ x \in I
    <3>1. x.name = Name["schema"]
      BY <2>3, <2>4 DEF Intent
    <3>2. x \in I
      BY <1>2, <2>3, <2>4
    <3>3. QED
      BY <3>1, <3>2 DEF Name
  <2>6. x \notin known
    <3>1. ASSUME NEW i \in keep PROVE mean[i] # x
      <4>1. i \in 1..n /\ blocks[i].kind # "schema"
        OBVIOUS
      <4>2. blocks[i].kind \in Kinds /\ mean[i] = Intent(blocks[i])
        BY <1>2, <4>1
      <4>3. mean[i].name = Name[blocks[i].kind]
        BY <4>2 DEF Intent
      <4>4. Name[blocks[i].kind] # "response_schema"
        BY <4>1, <4>2 DEF Kinds, Name
      <4>5. QED
        BY <2>5, <4>3, <4>4
    <3> HIDE DEF keep, mean
    <3>2. QED
      BY <3>1 DEF Values
  <2>7. final = <<blocks[m]>>
    BY <1>15, <2>1
  <2>8. PICK b : b = blocks[m]
    OBVIOUS
  <2>9. PICK p : p = Len(flat) + 1
    OBVIOUS
  <2>10. Meaning(d) = text \o <<x>>
    <3>1. x = Meant(d[m])
      BY <1>2, <2>3, <2>4
    <3> HIDE DEF schemas, text
    <3>2. QED
      BY <1>5, <1>15, <2>1, <3>1
  <2> HIDE DEF flat, text, final, schemas, known, I
  <2>11. PICK s : s = <<b>>
    OBVIOUS
  <2>12. Len(s) = 1 /\ s[1] = b /\ final = s
    BY <2>7, <2>8, <2>11
  <2>13. p \in 1..Len(intents) /\ p = Len(intents) /\ intents[p] = x
    <3>1. /\ p \in 1..(Len(flat) + Len(final)) /\ ~(p <= Len(flat)) /\ p - Len(flat) = 1
          /\ p = Len(flat) + Len(final)
      <4>1. PICK l : l = Len(flat)
        OBVIOUS
      <4>2. l \in Nat /\ Len(final) = 1 /\ p = l + 1
        BY <1>9, <2>9, <2>12, <4>1
      <4>3. p \in 1..(l + 1) /\ ~(p <= l) /\ p - l = 1 /\ p = l + 1
        BY <4>2
      <4>4. QED
        BY <4>1, <4>2, <4>3
    <3>2. finals[p] = b /\ p = Len(finals) /\ p \in 1..Len(finals)
      BY <1>8, <2>12, <3>1
    <3>3. QED
      BY <1>10, <2>4, <2>8, <3>2
  <2>14. Handed(f, intents, p + 1, IF intents[p] \in known THEN text ELSE Append(text, intents[p]),
                known \cup {intents[p]})
    <3>1. Handed(f, intents, p, text, known)
      BY <1>13, <2>9
    <3>2. QED
      BY <1>10, <1>11, <2>13, <3>1, HandedOne
  <2>15. (p + 1) - 1 = p
    BY <1>9, <2>9
  <2>16. f[p] = Append(text, x)
    BY <2>6, <2>13, <2>14, <2>15 DEF Handed
  <2>17. Append(text, x) = text \o <<x>>
    BY <1>6, <2>5, AppendIsConcat
  <2>18. QED
    BY <1>12, <2>10, <2>13, <2>16, <2>17
<1>16. QED
  BY <1>14, <1>15
-----------------------------------------------------------------------------
(* The whole text comes, piece by piece, and the engine is handed what it   *)
(* means.                                                                  *)

WholeInv == phase = "streaming" => doc \in Documents /\ buffer \o rest = SpellAll(doc)

UnderstoodInv == WholeInv /\ (Closed(doc) => DocumentIsUnderstood)

LEMMA EndUnderstood ==
    ASSUME DeltaInv, TextInv, UnderstoodInv, End, rest = <<>>, Closed(doc)
    PROVE  pending' = Meaning(doc)
<1>1. /\ phase = "streaming" /\ emitted = {} /\ pending = <<>> /\ buffer \in Seq(Pieces)
      /\ doc \in Documents /\ buffer \o rest = SpellAll(doc)
  BY DEF End, TextInv, DeltaInv, Typed, UnderstoodInv, WholeInv
<1>2. PICK d : d = doc
  OBVIOUS
<1>3. buffer = SpellAll(d)
  BY <1>1, <1>2, ConcatEmptySeq
<1>4. PICK blocks : blocks = Found(buffer, TRUE)
  OBVIOUS
<1>5. blocks = Found(SpellAll(d), TRUE) /\ d \in Documents /\ Closed(d)
  BY <1>1, <1>2, <1>3, <1>4
<1>6. /\ Len(blocks) = Len(d)
      /\ \A i \in 1..Len(d) :
            /\ (IsIntent(blocks[i]) <=> Says(d[i])) /\ Intent(blocks[i]) = Meant(d[i])
            /\ blocks[i].kind = d[i].kind /\ d[i].kind \in Kinds
  BY <1>5, AllFound
<1>7. Closed(d) /\ IsSequence(d)
  BY <1>5, DocumentsAssumption
<1>8. Mean(blocks, d)
  BY <1>6, <1>7 DEF Mean
<1>9. PICK K : blocks \in Seq(Blocks(Pieces, K))
  <2>1. \E K : Found(buffer, TRUE) \in Seq(Blocks(Pieces, K))
    BY <1>1, FoundTyped
  <2>2. QED
    BY <1>4, <2>1
<1>10. PICK B : B = Blocks(Pieces, K)
  OBVIOUS
<1>11. PICK finals : finals = Finals(blocks)
  OBVIOUS
<1>12. PICK intents : intents = [i \in DOMAIN finals |-> Intent(finals[i])]
  OBVIOUS
<1>13. EmitAll(intents) = Meaning(d)
  BY <1>1, <1>8, <1>9, <1>10, <1>11, <1>12, HandsOver
<1>14. pending' = EmitAll(intents)
  BY <1>4, <1>11, <1>12 DEF End
<1>15. QED
  BY <1>2, <1>13, <1>14

LEMMA StepUnderstood ==
    ASSUME DeltaInv, TextInv, UnderstoodInv, [Next]_vars
    PROVE  UnderstoodInv'
<1>1. CASE Begin
  <2>1. /\ phase' = "streaming" /\ buffer' = <<>>
        /\ \E d \in Documents : doc' = d /\ rest' = SpellAll(d)
    BY <1>1 DEF Begin, Reset
  <2>2. PICK d \in Documents : doc' = d /\ rest' = SpellAll(d)
    BY <2>1
  <2>3. <<>> \o SpellAll(d) = SpellAll(d)
    BY SpellAllTyped, ConcatEmptySeq
  <2>4. SpellAll(doc)' = SpellAll(d)
    BY <2>2 DEF SpellAll, Spell
  <2>5. WholeInv'
    BY <2>1, <2>2, <2>3, <2>4 DEF WholeInv
  <2>6. DocumentIsUnderstood'
    BY <2>1 DEF DocumentIsUnderstood
  <2>7. QED
    BY <2>5, <2>6 DEF UnderstoodInv
<1>2. CASE Write
  <2>1. /\ phase = "streaming" /\ phase' = phase /\ doc' = doc
        /\ \E n \in 1..Len(rest) : /\ buffer' = buffer \o SubSeq(rest, 1, n)
                                   /\ rest' = SubSeq(rest, n + 1, Len(rest))
    BY <1>2 DEF Write
  <2>2. buffer \in Seq(Pieces) /\ rest \in Seq(Pieces)
    BY DEF DeltaInv, Typed
  <2>3. PICK n \in 1..Len(rest) : /\ buffer' = buffer \o SubSeq(rest, 1, n)
                                  /\ rest' = SubSeq(rest, n + 1, Len(rest))
    BY <2>1
  <2>4. PICK s : s = buffer'
    OBVIOUS
  <2>5. PICK r : r = rest'
    OBVIOUS
  <2>6. Chunk(n, s, r, buffer, rest)
    BY <2>3, <2>4, <2>5 DEF Chunk
  <2>7. SameText(s, r, buffer, rest)
    BY <2>2, <2>6, ChunkOf
  <2>8. buffer' \o rest' = buffer \o rest
    BY <2>4, <2>5, <2>7 DEF SameText
  <2>9. SpellAll(doc)' = SpellAll(doc) /\ doc \in Documents /\ buffer \o rest = SpellAll(doc)
    BY <2>1 DEF SpellAll, Spell, UnderstoodInv, WholeInv
  <2>10. WholeInv'
    BY <2>1, <2>8, <2>9 DEF WholeInv
  <2>11. DocumentIsUnderstood'
    BY <2>1 DEF DocumentIsUnderstood
  <2>12. QED
    BY <2>10, <2>11 DEF UnderstoodInv
<1>3. CASE End
  <2>1. phase' = "ended" /\ UNCHANGED <<doc, rest>>
    BY <1>3 DEF End
  <2>2. WholeInv'
    BY <2>1 DEF WholeInv
  <2>3. ASSUME Closed(doc)' PROVE DocumentIsUnderstood'
    <3>1. Closed(doc)
      BY <2>1, <2>3 DEF Closed
    <3>2. Meaning(doc)' = Meaning(doc)
      BY <2>1 DEF Meaning
    <3>3. CASE rest = <<>>
      <4>1. pending' = Meaning(doc)
        BY <1>3, <3>1, <3>3, EndUnderstood
      <4>2. QED
        BY <3>2, <4>1 DEF DocumentIsUnderstood
    <3>4. CASE rest # <<>>
      BY <2>1, <3>4 DEF DocumentIsUnderstood
    <3>5. QED
      BY <3>3, <3>4
  <2>4. QED
    BY <2>2, <2>3 DEF UnderstoodInv
<1>4. CASE ProcessIntents
  <2>1. phase' = "idle"
    BY <1>4 DEF ProcessIntents
  <2>2. WholeInv' /\ DocumentIsUnderstood'
    BY <2>1 DEF WholeInv, DocumentIsUnderstood
  <2>3. QED
    BY <2>2 DEF UnderstoodInv
<1>5. CASE UNCHANGED vars
  <2>1. UNCHANGED <<doc, rest, phase, buffer, pending>>
    BY <1>5 DEF vars
  <2>2. /\ SpellAll(doc)' = SpellAll(doc) /\ Meaning(doc)' = Meaning(doc)
        /\ Closed(doc)' = Closed(doc)
    BY <2>1
  <2>3. WholeInv'
    BY <2>1, <2>2 DEF UnderstoodInv, WholeInv
  <2>4. (Closed(doc) => DocumentIsUnderstood)'
    BY <2>1, <2>2 DEF UnderstoodInv, DocumentIsUnderstood
  <2>5. QED
    BY <2>3, <2>4 DEF UnderstoodInv
<1>6. QED
  BY <1>1, <1>2, <1>3, <1>4, <1>5 DEF Next

(* When the text of closed blocks has come to its end, end() of             *)
(* orchestrator.rs hands the engine exactly what the model meant: each text *)
(* and each call that parses once, in their order, and the last schema      *)
(* behind them, wherever block_scanner.rs was cut off before.               *)
THEOREM ClosedUnderstood == Spec => [](Closed(doc) => DocumentIsUnderstood)
<1>1. Init => DeltaInv /\ TextInv /\ UnderstoodInv
  <2>1. Init => UnderstoodInv
    BY DEF Init, UnderstoodInv, WholeInv, DocumentIsUnderstood
  <2>2. QED
    BY <2>1, InitDelta, InitText
<1>2. DeltaInv /\ TextInv /\ UnderstoodInv /\ [Next]_vars => DeltaInv' /\ TextInv' /\ UnderstoodInv'
  BY StepBoth, StepUnderstood
<1>3. UnderstoodInv => (Closed(doc) => DocumentIsUnderstood)
  BY DEF UnderstoodInv
<1>4. QED
  BY <1>1, <1>2, <1>3, PTL DEF Spec
===============================================================================
