--------------------------- MODULE InferenceProofs ---------------------------
(***************************************************************************)
(* split_reasoning() finds what a reader hears, in every text; a larger     *)
(* budget only continues what a smaller one returned; and what `truncated`  *)
(* tells, for every budget and every default.                               *)
(*                                                                         *)
(* The induction over the text is by its least counterexample (LeastNumber, *)
(* CountUp).  What a reader has made of the first n parts is Understood(),   *)
(* said with positions in the text instead of a recursion.                  *)
(***************************************************************************)
EXTENDS Inference, SequenceTheorems, WellFoundedInduction, TLAPS

-----------------------------------------------------------------------------
(* Numbers and positions *)

(* A set of numbers that is not empty has a least one.                       *)
LEMMA LeastNumber ==
  ASSUME NEW S \in SUBSET Nat, S # {}
  PROVE  \E n \in S : \A m \in S : n <= m
<1>1. PICK n \in S : \A m \in S : <<m, n>> \notin OpToRel(<, Nat)
  BY WFMin, NatLessThanWellFounded, Zenon
<1>2. \A m \in S : ~(m < n)
  BY <1>1, Zenon DEF OpToRel
<1>3. QED
  BY <1>2

(* Min() and Max() of positions in a sequence are among them.                *)
LEMMA MinOfPositions ==
  ASSUME NEW S \in SUBSET Nat, S # {}
  PROVE  Min(S) \in S /\ \A m \in S : Min(S) <= m
BY LeastNumber DEF Min

(* A set of positions has a greatest member.                                 *)
LEMMA MaxOfPositions ==
  ASSUME NEW n \in Nat, NEW S \in SUBSET (1 .. n), S # {}
  PROVE  Max(S) \in S /\ \A m \in S : m <= Max(S)
<1> DEFINE D == {n - m : m \in S}
<1>1. D \in SUBSET Nat
  <2>1. \A m \in S : n - m \in Nat
    OBVIOUS
  <2>2. QED
    BY <2>1
<1>2. PICK d \in D : \A e \in D : d <= e
  <2>1. D # {}
    OBVIOUS
  <2> HIDE DEF D
  <2>2. QED
    BY <1>1, <2>1, LeastNumber
<1>3. PICK x \in S : d = n - x
  OBVIOUS
<1>4. \A m \in S : x >= m
  <2> TAKE m \in S
  <2>1. n - m \in D
    OBVIOUS
  <2>2. d <= n - m
    BY <1>2, <2>1
  <2>3. x \in Nat /\ m \in Nat
    OBVIOUS
  <2>4. QED
    BY <1>3, <2>2, <2>3
<1>5. \E y \in S : \A m \in S : y >= m
  BY <1>4
<1>6. Max(S) \in S /\ \A m \in S : Max(S) >= m
  BY <1>5 DEF Max
<1>7. QED
  BY <1>6

(* Induction up to a number: what holds of 0 and is handed on holds of all.  *)
LEMMA CountUp ==
  ASSUME NEW n \in Nat, NEW S,
         0 \in S,
         \A m \in 0 .. n - 1 : m \in S => m + 1 \in S
  PROVE  \A m \in 0 .. n : m \in S
<1> DEFINE Rest == {m \in 0 .. n : m \notin S}
<1> SUFFICES ASSUME Rest # {} PROVE FALSE
  OBVIOUS
<1>0. Rest \in SUBSET Nat
  OBVIOUS
<1>1. PICK k \in Rest : \A m \in Rest : k <= m
  <2> HIDE DEF Rest
  <2>1. QED
    BY <1>0, LeastNumber
<1>2. k # 0 /\ k - 1 \in 0 .. n - 1
  OBVIOUS
<1>3. k - 1 \in S
  BY <1>1, <1>2
<1>4. QED
  BY <1>1, <1>2, <1>3

-----------------------------------------------------------------------------
(* strip() *)

(* The parts that strip() leaves at the ends.                                *)
Solid(s) == {i \in 1 .. Len(s) : ~IsSpace(s[i])}

(* Where a text's first and last solid parts are, there strip() cuts.        *)
LEMMA StripOf ==
  ASSUME NEW s \in Seq(Tokens), NEW p \in 1 .. Len(s), NEW q \in 1 .. Len(s),
         ~IsSpace(s[p]), ~IsSpace(s[q]),
         \A i \in 1 .. p - 1 : IsSpace(s[i]),
         \A i \in q + 1 .. Len(s) : IsSpace(s[i])
  PROVE  Strip(s) = SubSeq(s, p, q) /\ p <= q
<1>1. /\ Len(s) \in Nat /\ Solid(s) # {}
      /\ Solid(s) \in SUBSET (1 .. Len(s)) /\ Solid(s) \in SUBSET Nat
  BY DEF Solid
<1>2. Min(Solid(s)) = p
  <2>1. Min(Solid(s)) \in Solid(s) /\ \A m \in Solid(s) : Min(Solid(s)) <= m
    BY <1>1, MinOfPositions
  <2>2. QED
    BY <2>1 DEF Solid
<1>3. Max(Solid(s)) = q
  <2>1. Max(Solid(s)) \in Solid(s) /\ \A m \in Solid(s) : m <= Max(Solid(s))
    BY <1>1, MaxOfPositions
  <2>2. QED
    BY <2>1 DEF Solid
<1>4. Strip(s) = SubSeq(s, p, q)
  BY <1>1, <1>2, <1>3 DEF Strip, Solid
<1>5. QED
  BY <1>4

(* Every text is blank, or has a first and a last part that is not space.    *)
LEMMA Solidity ==
  ASSUME NEW s \in Seq(Tokens)
  PROVE  \/ (\A i \in 1 .. Len(s) : IsSpace(s[i])) /\ Strip(s) = <<>>
         \/ \E p, q \in 1 .. Len(s) :
              /\ ~IsSpace(s[p]) /\ ~IsSpace(s[q])
              /\ \A i \in 1 .. p - 1 : IsSpace(s[i])
              /\ \A i \in q + 1 .. Len(s) : IsSpace(s[i])
              /\ p <= q
              /\ Strip(s) = SubSeq(s, p, q)
<1>1. CASE Solid(s) = {}
  BY <1>1 DEF Solid, Strip
<1>2. CASE Solid(s) # {}
  <2>1. Len(s) \in Nat /\ Solid(s) \in SUBSET (1 .. Len(s)) /\ Solid(s) \in SUBSET Nat
    BY DEF Solid
  <2>2. PICK p \in Solid(s) : \A m \in Solid(s) : p <= m
    BY <1>2, <2>1, MinOfPositions
  <2>3. PICK q \in Solid(s) : \A m \in Solid(s) : m <= q
    BY <1>2, <2>1, MaxOfPositions
  <2>4. /\ p \in 1 .. Len(s) /\ q \in 1 .. Len(s) /\ ~IsSpace(s[p]) /\ ~IsSpace(s[q])
        /\ \A i \in 1 .. p - 1 : IsSpace(s[i])
        /\ \A i \in q + 1 .. Len(s) : IsSpace(s[i])
    BY <2>2, <2>3 DEF Solid
  <2>5. Strip(s) = SubSeq(s, p, q) /\ p <= q
    BY <2>4, StripOf
  <2>6. QED
    BY <2>4, <2>5
<1>3. QED
  BY <1>1, <1>2

(* A part of a text.                                                         *)
LEMMA PartOfText ==
  ASSUME NEW s \in Seq(Tokens), NEW a \in Nat \ {0}, NEW b \in Nat, b <= Len(s)
  PROVE  /\ SubSeq(s, a, b) \in Seq(Tokens)
         /\ Len(SubSeq(s, a, b)) = IF a <= b THEN b - a + 1 ELSE 0
         /\ \A i \in 1 .. b - a + 1 : SubSeq(s, a, b)[i] = s[a + i - 1]
<1>1. \A i \in a .. b : s[i] \in Tokens
  OBVIOUS
<1>2. a \in Int /\ b \in Int
  OBVIOUS
<1>3. QED
  BY <1>1, <1>2, SubSeqProperties

(* White space behind a part makes no difference.                            *)
LEMMA TrimmedEnd ==
  ASSUME NEW s \in Seq(Tokens), NEW a \in Nat \ {0}, NEW b \in Nat, NEW c \in Nat,
         b <= c, c <= Len(s), \A i \in b + 1 .. c : IsSpace(s[i])
  PROVE  Strip(SubSeq(s, a, b)) = Strip(SubSeq(s, a, c))
<1> USE DEF IsSpace
<1> DEFINE u == SubSeq(s, a, b)
           v == SubSeq(s, a, c)
<1>1. /\ u \in Seq(Tokens) /\ Len(u) = IF a <= b THEN b - a + 1 ELSE 0
      /\ \A i \in 1 .. b - a + 1 : u[i] = s[a + i - 1]
  BY PartOfText
<1>2. /\ v \in Seq(Tokens) /\ Len(v) = IF a <= c THEN c - a + 1 ELSE 0
      /\ \A i \in 1 .. c - a + 1 : v[i] = s[a + i - 1]
  BY PartOfText
<1> HIDE DEF u, v
<1>3. Len(u) <= Len(v) /\ Len(u) \in Nat /\ Len(v) \in Nat /\ \A i \in 1 .. Len(u) : u[i] = v[i]
  BY <1>1, <1>2
<1>4. \A i \in Len(u) + 1 .. Len(v) : IsSpace(v[i])
  <2> TAKE i \in Len(u) + 1 .. Len(v)
  <2>1. i \in 1 .. c - a + 1 /\ a + i - 1 \in b + 1 .. c
    BY <1>1, <1>2
  <2>2. QED
    BY <1>2, <2>1
<1>5. CASE (\A i \in 1 .. Len(u) : IsSpace(u[i])) /\ Strip(u) = <<>>
  <2>1. \A i \in 1 .. Len(v) : IsSpace(v[i])
    BY <1>3, <1>4, <1>5
  <2>2. Strip(v) = <<>>
    BY <2>1 DEF Strip
  <2>3. QED
    BY <1>5, <2>2 DEF u, v
<1>6. CASE \E p, q \in 1 .. Len(u) :
              /\ ~IsSpace(u[p]) /\ ~IsSpace(u[q])
              /\ \A i \in 1 .. p - 1 : IsSpace(u[i])
              /\ \A i \in q + 1 .. Len(u) : IsSpace(u[i])
              /\ p <= q
              /\ Strip(u) = SubSeq(u, p, q)
  <2>1. PICK p, q \in 1 .. Len(u) :
              /\ ~IsSpace(u[p]) /\ ~IsSpace(u[q])
              /\ \A i \in 1 .. p - 1 : IsSpace(u[i])
              /\ \A i \in q + 1 .. Len(u) : IsSpace(u[i])
              /\ p <= q
              /\ Strip(u) = SubSeq(u, p, q)
    BY <1>6
  <2>2. /\ p \in 1 .. Len(v) /\ q \in 1 .. Len(v) /\ ~IsSpace(v[p]) /\ ~IsSpace(v[q])
        /\ \A i \in 1 .. p - 1 : IsSpace(v[i])
        /\ \A i \in q + 1 .. Len(v) : IsSpace(v[i])
    <3>1. p \in 1 .. Len(v) /\ q \in 1 .. Len(v)
      BY <1>3
    <3>2. v[p] = u[p] /\ v[q] = u[q] /\ \A i \in 1 .. p - 1 : v[i] = u[i]
      BY <1>3
    <3>3. \A i \in q + 1 .. Len(v) : IsSpace(v[i])
      <4> TAKE i \in q + 1 .. Len(v)
      <4>1. CASE i <= Len(u)
        BY <1>3, <2>1, <4>1
      <4>2. CASE i > Len(u)
        BY <1>3, <1>4, <4>2
      <4>3. QED
        BY <1>3, <4>1, <4>2
    <3>4. QED
      BY <2>1, <3>1, <3>2, <3>3
  <2>3. Strip(v) = SubSeq(v, p, q)
    BY <1>2, <2>2, StripOf
  <2>4. SubSeq(u, p, q) = SubSeq(v, p, q)
    <3>0. /\ p \in Nat \ {0} /\ q \in Nat /\ p <= q /\ q <= Len(u) /\ q <= Len(v)
          /\ (IF p <= q THEN q - p + 1 ELSE 0) = q - p + 1
      BY <1>3, <2>1
    <3>1. /\ SubSeq(u, p, q) \in Seq(Tokens) /\ Len(SubSeq(u, p, q)) = q - p + 1
          /\ \A i \in 1 .. q - p + 1 : SubSeq(u, p, q)[i] = u[p + i - 1]
      BY <1>1, <3>0, PartOfText
    <3>2. /\ SubSeq(v, p, q) \in Seq(Tokens) /\ Len(SubSeq(v, p, q)) = q - p + 1
          /\ \A i \in 1 .. q - p + 1 : SubSeq(v, p, q)[i] = v[p + i - 1]
      BY <1>2, <3>0, PartOfText
    <3>3. \A i \in 1 .. q - p + 1 : u[p + i - 1] = v[p + i - 1]
      <4> TAKE i \in 1 .. q - p + 1
      <4>1. p + i - 1 \in 1 .. Len(u)
        BY <1>3, <3>0
      <4>2. QED
        BY <1>3, <4>1
    <3>4. QED
      BY <3>1, <3>2, <3>3, SeqEqual
  <2>5. QED
    BY <2>1, <2>3, <2>4 DEF u, v
<1>7. QED
  BY <1>1, <1>5, <1>6, Solidity

-----------------------------------------------------------------------------
(* The reader *)

(* What the reader has understood of a text: nothing yet, and the type.      *)
Silence == [where |-> "start", answer |-> <<>>, reasoning |-> <<>>]

Hearings == [where : {"start", "block", "answer"}, answer : Seq(Tokens), reasoning : Seq(Tokens)]

(* What the reader has made of the first `n` parts of a text: nothing yet,   *)
(* an answer from part `k` on, a block opened at `k`, or one opened at `k`   *)
(* and closed at `c`.                                                        *)
Waits(s, n, h) ==
  /\ \A i \in 1 .. n : s[i] = "space"
  /\ h = Silence

Speaks(s, n, h, k) ==
  /\ \A i \in 1 .. k - 1 : s[i] = "space"
  /\ s[k] \notin {"space", "<think>"}
  /\ h = [where |-> "answer", answer |-> SubSeq(s, k, n), reasoning |-> <<>>]

Reasons(s, n, h, k) ==
  /\ \A i \in 1 .. k - 1 : s[i] = "space"
  /\ s[k] = "<think>"
  /\ \A i \in k + 1 .. n : s[i] # "</think>"
  /\ h = [where |-> "block", answer |-> <<>>, reasoning |-> SubSeq(s, k + 1, n)]

Concludes(s, n, h, k, c) ==
  /\ \A i \in 1 .. k - 1 : s[i] = "space"
  /\ s[k] = "<think>"
  /\ k < c
  /\ \A i \in k + 1 .. c - 1 : s[i] # "</think>"
  /\ s[c] = "</think>"
  /\ h = [where |-> "answer", answer |-> SubSeq(s, c + 1, n),
          reasoning |-> SubSeq(s, k + 1, c - 1)]

Understood(s, n, h) ==
  \/ Waits(s, n, h)
  \/ \E k \in 1 .. n : Speaks(s, n, h, k)
  \/ \E k \in 1 .. n : Reasons(s, n, h, k)
  \/ \E k, c \in 1 .. n : Concludes(s, n, h, k, c)

(* A part of the text that goes on by one token.                             *)
LEMMA OnePartMore ==
  ASSUME NEW s \in Seq(Tokens), NEW n \in Nat, n < Len(s), NEW k \in 1 .. n + 1
  PROVE  SubSeq(s, k, n + 1) = Append(SubSeq(s, k, n), s[n + 1])
<1>1. /\ SubSeq(s, k, n) \in Seq(Tokens) /\ Len(SubSeq(s, k, n)) = n - k + 1
      /\ \A i \in 1 .. n - k + 1 : SubSeq(s, k, n)[i] = s[k + i - 1]
  BY PartOfText
<1>2. /\ SubSeq(s, k, n + 1) \in Seq(Tokens) /\ Len(SubSeq(s, k, n + 1)) = n - k + 2
      /\ \A i \in 1 .. n - k + 2 : SubSeq(s, k, n + 1)[i] = s[k + i - 1]
  BY PartOfText
<1>3. s[n + 1] \in Tokens
  OBVIOUS
<1> DEFINE u == SubSeq(s, k, n)
           w == Append(u, s[n + 1])
<1>4. /\ w \in Seq(Tokens) /\ Len(w) = n - k + 2
      /\ \A i \in 1 .. n - k + 1 : w[i] = s[k + i - 1]
      /\ w[n - k + 2] = s[n + 1]
  <2> HIDE DEF u
  <2>1. u \in Seq(Tokens) /\ Len(u) = n - k + 1 /\ \A i \in 1 .. n - k + 1 : u[i] = s[k + i - 1]
    BY <1>1 DEF u
  <2>2. QED
    BY <1>3, <2>1
<1> HIDE DEF w
<1>5. \A i \in 1 .. n - k + 2 : SubSeq(s, k, n + 1)[i] = w[i]
  <2> TAKE i \in 1 .. n - k + 2
  <2>1. CASE i = n - k + 2
    <3>1. k + i - 1 = n + 1
      BY <2>1
    <3>2. QED
      BY <1>2, <1>4, <2>1, <3>1
  <2>2. CASE i \in 1 .. n - k + 1
    BY <1>2, <1>4, <2>2
  <2>3. QED
    BY <2>1, <2>2
<1>6. SubSeq(s, k, n + 1) = w
  BY <1>2, <1>4, <1>5, SeqEqual
<1>7. QED
  BY <1>6 DEF w

(* What one part of the text does to the reader.                             *)
LEMMA HearCases ==
  ASSUME NEW h \in Hearings, NEW t \in Tokens
  PROVE  /\ Hear(h, t) \in Hearings
         /\ h.where = "start" /\ t = "space" => Hear(h, t) = h
         /\ h.where = "start" /\ t = "<think>" =>
              Hear(h, t) = [where |-> "block", answer |-> h.answer, reasoning |-> h.reasoning]
         /\ h.where = "block" /\ t = "</think>" =>
              Hear(h, t) = [where |-> "answer", answer |-> h.answer, reasoning |-> h.reasoning]
         /\ h.where = "block" /\ t # "</think>" =>
              Hear(h, t) = [where |-> "block", answer |-> h.answer,
                            reasoning |-> Append(h.reasoning, t)]
         /\ h.where = "answer" \/ (h.where = "start" /\ t \notin {"space", "<think>"}) =>
              Hear(h, t) = [where |-> "answer", answer |-> Append(h.answer, t),
                            reasoning |-> h.reasoning]
<1>1. PICK w \in {"start", "block", "answer"}, x \in Seq(Tokens), y \in Seq(Tokens) :
        h = [where |-> w, answer |-> x, reasoning |-> y]
  BY DEF Hearings
<1>2. Append(x, t) \in Seq(Tokens) /\ Append(y, t) \in Seq(Tokens)
  OBVIOUS
<1>3. CASE w = "start" /\ t = "space"
  BY <1>1, <1>3 DEF Hear, IsSpace
<1>4. CASE w = "start" /\ t = "<think>"
  BY <1>1, <1>4 DEF Hear, IsSpace, Hearings
<1>5. CASE w = "block" /\ t = "</think>"
  BY <1>1, <1>5 DEF Hear, IsSpace, Hearings
<1>6. CASE w = "block" /\ t # "</think>"
  BY <1>1, <1>2, <1>6 DEF Hear, IsSpace, Hearings
<1>7. CASE w = "answer" \/ (w = "start" /\ t \notin {"space", "<think>"})
  BY <1>1, <1>2, <1>7 DEF Hear, IsSpace, Hearings
<1>8. QED
  BY <1>1, <1>3, <1>4, <1>5, <1>6, <1>7

(* The reader keeps understanding.                                           *)
LEMMA HearsOn ==
  ASSUME NEW s \in Seq(Tokens), NEW n \in Nat, n < Len(s),
         NEW h \in Hearings, Understood(s, n, h)
  PROVE  /\ Hear(h, s[n + 1]) \in Hearings
         /\ Understood(s, n + 1, Hear(h, s[n + 1]))
<1> DEFINE t == s[n + 1]
           g == Hear(h, t)
<1>0. t \in Tokens
  OBVIOUS
<1>1. g \in Hearings
  BY <1>0, HearCases
<1> SUFFICES Understood(s, n + 1, g)
  BY <1>1
<1> HIDE DEF g
<1>2. CASE Waits(s, n, h)
  <2>1. CASE t = "space"
    <3>1. g = h
      BY <1>0, <1>2, <2>1, HearCases DEF g, Waits, Silence
    <3>2. Waits(s, n + 1, g)
      BY <1>2, <2>1, <3>1 DEF Waits
    <3>3. QED
      BY <3>2 DEF Understood
  <2>2. CASE t = "<think>"
    <3>1. g = [where |-> "block", answer |-> <<>>, reasoning |-> <<>>]
      BY <1>0, <1>2, <2>2, HearCases DEF g, Waits, Silence
    <3>2. SubSeq(s, (n + 1) + 1, n + 1) = <<>>
      BY SubSeqEmpty
    <3>3. Reasons(s, n + 1, g, n + 1)
      BY <1>2, <2>2, <3>1, <3>2 DEF Reasons, Waits
    <3>4. QED
      BY <3>3 DEF Understood
  <2>3. CASE t \notin {"space", "<think>"}
    <3>1. g = [where |-> "answer", answer |-> Append(<<>>, t), reasoning |-> <<>>]
      BY <1>0, <1>2, <2>3, HearCases DEF g, Waits, Silence
    <3>2. SubSeq(s, n + 1, n) = <<>>
      BY SubSeqEmpty
    <3>3. SubSeq(s, n + 1, n + 1) = Append(<<>>, t)
      <4>1. n + 1 \in 1 .. n + 1
        OBVIOUS
      <4>2. SubSeq(s, n + 1, n + 1) = Append(SubSeq(s, n + 1, n), t)
        BY <4>1, OnePartMore
      <4>3. QED
        BY <3>2, <4>2
    <3>4. Speaks(s, n + 1, g, n + 1)
      BY <1>2, <2>3, <3>1, <3>3 DEF Speaks, Waits
    <3>5. QED
      BY <3>4 DEF Understood
  <2>4. QED
    BY <2>1, <2>2, <2>3
<1>3. CASE \E k \in 1 .. n : Speaks(s, n, h, k)
  <2>1. PICK k \in 1 .. n : Speaks(s, n, h, k)
    BY <1>3
  <2>2. g = [where |-> "answer", answer |-> Append(SubSeq(s, k, n), t), reasoning |-> <<>>]
    BY <1>0, <2>1, HearCases DEF g, Speaks
  <2>3. k \in 1 .. n + 1 /\ SubSeq(s, k, n + 1) = Append(SubSeq(s, k, n), t)
    BY OnePartMore
  <2>4. Speaks(s, n + 1, g, k)
    BY <2>1, <2>2, <2>3 DEF Speaks
  <2>5. QED
    BY <2>3, <2>4 DEF Understood
<1>4. CASE \E k \in 1 .. n : Reasons(s, n, h, k)
  <2>1. PICK k \in 1 .. n : Reasons(s, n, h, k)
    BY <1>4
  <2>2. k \in 1 .. n + 1 /\ k + 1 \in 1 .. n + 1
    OBVIOUS
  <2>3. CASE t = "</think>"
    <3>1. g = [where |-> "answer", answer |-> <<>>, reasoning |-> SubSeq(s, k + 1, n)]
      BY <1>0, <2>1, <2>3, HearCases DEF g, Reasons
    <3>2. n + 1 \in 1 .. n + 1 /\ k < n + 1 /\ (n + 1) - 1 = n
      OBVIOUS
    <3>3. SubSeq(s, (n + 1) + 1, n + 1) = <<>>
      BY SubSeqEmpty
    <3>4. Concludes(s, n + 1, g, k, n + 1)
      BY <2>1, <2>3, <3>1, <3>2, <3>3 DEF Reasons, Concludes
    <3>5. QED
      BY <2>2, <3>2, <3>4 DEF Understood
  <2>4. CASE t # "</think>"
    <3>1. g = [where |-> "block", answer |-> <<>>, reasoning |-> Append(SubSeq(s, k + 1, n), t)]
      BY <1>0, <2>1, <2>4, HearCases DEF g, Reasons
    <3>2. SubSeq(s, k + 1, n + 1) = Append(SubSeq(s, k + 1, n), t)
      BY <2>2, OnePartMore
    <3>3. \A i \in k + 1 .. n + 1 : s[i] # "</think>"
      BY <2>1, <2>4 DEF Reasons
    <3>4. Reasons(s, n + 1, g, k)
      BY <2>1, <3>1, <3>2, <3>3 DEF Reasons
    <3>5. QED
      BY <2>2, <3>4 DEF Understood
  <2>5. QED
    BY <2>3, <2>4
<1>5. CASE \E k, c \in 1 .. n : Concludes(s, n, h, k, c)
  <2>1. PICK k \in 1 .. n, c \in 1 .. n : Concludes(s, n, h, k, c)
    BY <1>5
  <2>2. g = [where |-> "answer", answer |-> Append(SubSeq(s, c + 1, n), t),
             reasoning |-> SubSeq(s, k + 1, c - 1)]
    BY <1>0, <2>1, HearCases DEF g, Concludes
  <2>3. k \in 1 .. n + 1 /\ c \in 1 .. n + 1 /\ c + 1 \in 1 .. n + 1
    OBVIOUS
  <2>4. SubSeq(s, c + 1, n + 1) = Append(SubSeq(s, c + 1, n), t)
    BY <2>3, OnePartMore
  <2>5. Concludes(s, n + 1, g, k, c)
    BY <2>1, <2>2, <2>4 DEF Concludes
  <2>6. QED
    BY <2>3, <2>5 DEF Understood
<1>6. QED
  BY <1>2, <1>3, <1>4, <1>5 DEF Understood

(* A part of a part is a part of the whole.                                  *)
LEMMA PartOfPart ==
  ASSUME NEW s \in Seq(Tokens), NEW a \in Nat \ {0}, NEW b \in Nat, b <= Len(s),
         NEW m \in Nat \ {0}, NEW n \in Nat, a + n - 1 <= b
  PROVE  SubSeq(SubSeq(s, a, b), m, n) = SubSeq(s, a + m - 1, a + n - 1)
<1> DEFINE u == SubSeq(s, a, b)
<1>1. CASE n < m
  <2>1. SubSeq(u, m, n) = <<>>
    BY <1>1, SubSeqEmpty
  <2>2. a + n - 1 < a + m - 1 /\ a + n - 1 \in Int /\ a + m - 1 \in Int
    BY <1>1
  <2>3. SubSeq(s, a + m - 1, a + n - 1) = <<>>
    BY <2>2, SubSeqEmpty
  <2>4. QED
    BY <2>1, <2>3
<1>2. CASE m <= n
  <2>1. /\ u \in Seq(Tokens) /\ Len(u) = b - a + 1
        /\ \A i \in 1 .. b - a + 1 : u[i] = s[a + i - 1]
    <3>1. a <= b
      BY <1>2
    <3>2. QED
      BY <3>1, PartOfText
  <2> HIDE DEF u
  <2>2. n <= Len(u)
    BY <2>1
  <2>3. /\ SubSeq(u, m, n) \in Seq(Tokens) /\ Len(SubSeq(u, m, n)) = n - m + 1
        /\ \A i \in 1 .. n - m + 1 : SubSeq(u, m, n)[i] = u[m + i - 1]
    BY <1>2, <2>1, <2>2, PartOfText
  <2> DEFINE x == a + m - 1
             y == a + n - 1
             v == SubSeq(s, x, y)
  <2>4. /\ x \in Nat \ {0} /\ y \in Nat /\ x <= y /\ y <= Len(s)
        /\ y - x + 1 = n - m + 1
    BY <1>2
  <2>5. /\ v \in Seq(Tokens) /\ Len(v) = n - m + 1
        /\ \A i \in 1 .. n - m + 1 : v[i] = s[x + i - 1]
    <3> HIDE DEF x, y
    <3>1. QED
      BY <2>4, PartOfText
  <2>6. \A i \in 1 .. n - m + 1 : SubSeq(u, m, n)[i] = v[i]
    <3> TAKE i \in 1 .. n - m + 1
    <3>1. m + i - 1 \in 1 .. b - a + 1 /\ a + (m + i - 1) - 1 = x + i - 1
      OBVIOUS
    <3>2. SubSeq(u, m, n)[i] = s[a + (m + i - 1) - 1]
      BY <2>1, <2>3, <3>1
    <3>3. v[i] = s[x + i - 1]
      BY <2>5
    <3>4. QED
      BY <3>1, <3>2, <3>3
  <2> HIDE DEF v
  <2>7. SubSeq(u, m, n) = v
    BY <2>3, <2>5, <2>6, SeqEqual
  <2>8. QED
    BY <2>7 DEF u, v
<1>3. QED
  BY <1>1, <1>2

(* The text between its first and its last part that is not space.           *)
LEMMA StripFrom ==
  ASSUME NEW s \in Seq(Tokens), NEW k \in 1 .. Len(s), s[k] # "space",
         \A i \in 1 .. k - 1 : s[i] = "space"
  PROVE  \E q \in k .. Len(s) :
           /\ s[q] # "space"
           /\ \A i \in q + 1 .. Len(s) : IsSpace(s[i])
           /\ Strip(s) = SubSeq(s, k, q)
           /\ Head(Strip(s)) = s[k] /\ Strip(s) # <<>>
           /\ Body(s) = SubSeq(s, k + 1, q)
<1>1. PICK p, q \in 1 .. Len(s) :
              /\ ~IsSpace(s[p]) /\ ~IsSpace(s[q])
              /\ \A i \in 1 .. p - 1 : IsSpace(s[i])
              /\ \A i \in q + 1 .. Len(s) : IsSpace(s[i])
              /\ p <= q
              /\ Strip(s) = SubSeq(s, p, q)
  BY Solidity DEF IsSpace
<1>2. p = k
  BY <1>1 DEF IsSpace
<1>3. q \in k .. Len(s)
  BY <1>1, <1>2
<1>4. Strip(s) = SubSeq(s, k, q)
  BY <1>1, <1>2
<1>5. Head(Strip(s)) = s[k] /\ Tail(Strip(s)) = SubSeq(s, k + 1, q)
  BY <1>3, <1>4, HeadTailOfSubSeq
<1>6. Strip(s) # <<>>
  <2>1. k \in Nat \ {0} /\ q \in Nat /\ q <= Len(s) /\ k <= q
    BY <1>3
  <2>2. Len(SubSeq(s, k, q)) = q - k + 1
    BY <2>1, PartOfText
  <2>3. Len(Strip(s)) # 0
    BY <1>4, <2>1, <2>2
  <2>4. QED
    BY <2>3
<1>7. QED
  BY <1>1, <1>3, <1>4, <1>5, <1>6 DEF IsSpace, Body

(* The reader and the expressions come to the same.                          *)
LEMMA SplitOfUnderstood ==
  ASSUME NEW s \in Seq(Tokens), NEW h \in Hearings, Understood(s, Len(s), h)
  PROVE  /\ split_reasoning(s).answer = Strip(h.answer)
         /\ split_reasoning(s).reasoning = Strip(h.reasoning)
<1> DEFINE N == Len(s)
<1>0. N \in Nat /\ Strip(<<>>) = <<>>
  BY DEF Strip
<1>1. CASE Waits(s, N, h)
  <2>1. Strip(s) = <<>> /\ h = Silence
    BY <1>1 DEF Waits, Strip, IsSpace
  <2>2. ~Opens(s)
    BY <2>1 DEF Opens
  <2>3. QED
    BY <1>0, <2>1, <2>2 DEF split_reasoning, Silence
<1>2. CASE \E k \in 1 .. N : Speaks(s, N, h, k)
  <2>1. PICK k \in 1 .. N : Speaks(s, N, h, k)
    BY <1>2
  <2>2. PICK q \in k .. N :
           /\ s[q] # "space"
           /\ \A i \in q + 1 .. N : IsSpace(s[i])
           /\ Strip(s) = SubSeq(s, k, q)
           /\ Head(Strip(s)) = s[k] /\ Strip(s) # <<>>
           /\ Body(s) = SubSeq(s, k + 1, q)
    BY <2>1, StripFrom DEF Speaks
  <2>3. ~Opens(s)
    BY <2>1, <2>2 DEF Opens, Speaks
  <2>4. split_reasoning(s) = [answer |-> Strip(s), reasoning |-> <<>>]
    BY <2>3 DEF split_reasoning
  <2> DEFINE v == SubSeq(s, k, N)
  <2>5. /\ v \in Seq(Tokens) /\ Len(v) = N - k + 1
        /\ \A i \in 1 .. N - k + 1 : v[i] = s[k + i - 1]
    BY <1>0, PartOfText
  <2> DEFINE r == q - k + 1
  <2>6. Strip(v) = SubSeq(v, 1, r)
    <3> HIDE DEF v
    <3>1. 1 \in 1 .. Len(v) /\ r \in 1 .. Len(v) /\ v[1] = s[k] /\ v[r] = s[q]
      BY <1>0, <2>1, <2>2, <2>5
    <3>2. \A i \in r + 1 .. Len(v) : IsSpace(v[i])
      <4> TAKE i \in r + 1 .. Len(v)
      <4>1. i \in 1 .. N - k + 1 /\ k + i - 1 \in q + 1 .. N
        BY <1>0, <2>5
      <4>2. QED
        BY <2>2, <2>5, <4>1
    <3>3. ~IsSpace(v[1]) /\ ~IsSpace(v[r])
      BY <2>1, <2>2, <3>1 DEF IsSpace, Speaks
    <3>4. \A i \in 1 .. 1 - 1 : IsSpace(v[i])
      OBVIOUS
    <3> HIDE DEF r
    <3>5. QED
      BY <2>5, <3>1, <3>2, <3>3, <3>4, StripOf
  <2>7. SubSeq(v, 1, r) = SubSeq(s, k, q)
    <3>1. r \in Nat /\ k + r - 1 = q /\ k + 1 - 1 = k /\ q <= N /\ k \in Nat \ {0}
      BY <1>0
    <3> HIDE DEF r
    <3>2. SubSeq(v, 1, r) = SubSeq(s, k + 1 - 1, k + r - 1)
      BY <1>0, <3>1, PartOfPart
    <3>3. QED
      BY <3>1, <3>2
  <2>8. h.answer = v /\ h.reasoning = <<>>
    BY <2>1 DEF Speaks
  <2>9. QED
    BY <1>0, <2>2, <2>4, <2>6, <2>7, <2>8
<1>3. CASE \E k \in 1 .. N : Reasons(s, N, h, k)
  <2>1. PICK k \in 1 .. N : Reasons(s, N, h, k)
    BY <1>3
  <2>2. PICK q \in k .. N :
           /\ s[q] # "space"
           /\ \A i \in q + 1 .. N : IsSpace(s[i])
           /\ Strip(s) = SubSeq(s, k, q)
           /\ Head(Strip(s)) = s[k] /\ Strip(s) # <<>>
           /\ Body(s) = SubSeq(s, k + 1, q)
    BY <2>1, StripFrom DEF Reasons
  <2>3. Opens(s)
    BY <2>1, <2>2 DEF Opens, Reasons
  <2> DEFINE b == SubSeq(s, k + 1, q)
  <2>4. Close(b) = 0
    <3>1. \A i \in 1 .. Len(b) : b[i] # "</think>"
      <4>1. /\ Len(b) = (IF k + 1 <= q THEN q - k ELSE 0)
            /\ \A i \in 1 .. q - k : b[i] = s[k + i]
        <5>1. k + 1 \in Nat \ {0} /\ q \in Nat /\ q <= Len(s)
          BY <1>0
        <5>2. /\ Len(b) = IF k + 1 <= q THEN q - (k + 1) + 1 ELSE 0
              /\ \A i \in 1 .. q - (k + 1) + 1 : b[i] = s[(k + 1) + i - 1]
          BY <5>1, PartOfText
        <5>3. q - (k + 1) + 1 = q - k
          BY <5>1
        <5> HIDE DEF b
        <5>4. \A i \in 1 .. q - k : b[i] = s[k + i]
          <6> TAKE i \in 1 .. q - k
          <6>1. (k + 1) + i - 1 = k + i
            OBVIOUS
          <6>2. QED
            BY <5>2, <5>3, <6>1
        <5>5. QED
          BY <5>2, <5>3, <5>4
      <4> HIDE DEF b
      <4>2. \A i \in 1 .. Len(b) : i \in 1 .. q - k /\ k + i \in k + 1 .. N
        BY <1>0, <4>1
      <4>3. QED
        BY <2>1, <4>1, <4>2 DEF Reasons
    <3> HIDE DEF b
    <3>2. QED
      BY <3>1 DEF Close, SelectInSeq
  <2>5. split_reasoning(s) = [answer |-> <<>>, reasoning |-> Strip(b)]
    BY <2>2, <2>3, <2>4 DEF split_reasoning
  <2>6. Strip(b) = Strip(SubSeq(s, k + 1, N))
    <3> DEFINE a == k + 1
    <3>1. a \in Nat \ {0} /\ q \in Nat /\ q <= N /\ N <= Len(s) /\ N \in Nat
      BY <1>0
    <3> HIDE DEF a, N
    <3>2. Strip(SubSeq(s, a, q)) = Strip(SubSeq(s, a, N))
      BY <2>2, <3>1, TrimmedEnd
    <3>3. QED
      BY <3>2 DEF a
  <2>7. h.answer = <<>> /\ h.reasoning = SubSeq(s, k + 1, N)
    BY <2>1 DEF Reasons
  <2>8. QED
    BY <1>0, <2>5, <2>6, <2>7
<1>4. CASE \E k, c \in 1 .. N : Concludes(s, N, h, k, c)
  <2>1. PICK k \in 1 .. N, c \in 1 .. N : Concludes(s, N, h, k, c)
    BY <1>4
  <2>2. PICK q \in k .. N :
           /\ s[q] # "space"
           /\ \A i \in q + 1 .. N : IsSpace(s[i])
           /\ Strip(s) = SubSeq(s, k, q)
           /\ Head(Strip(s)) = s[k] /\ Strip(s) # <<>>
           /\ Body(s) = SubSeq(s, k + 1, q)
    BY <2>1, StripFrom DEF Concludes
  <2>3. Opens(s)
    BY <2>1, <2>2 DEF Opens, Concludes
  <2>4. c <= q /\ k < c
    BY <1>0, <2>1, <2>2 DEF Concludes, IsSpace
  <2> DEFINE b == SubSeq(s, k + 1, q)
             e == c - k
  <2>5. /\ Len(b) = q - k
        /\ \A i \in 1 .. q - k : b[i] = s[k + i]
    <3>1. k + 1 \in Nat \ {0} /\ q \in Nat /\ q <= Len(s) /\ k + 1 <= q
      BY <1>0, <2>4
    <3>2. /\ Len(b) = IF k + 1 <= q THEN q - (k + 1) + 1 ELSE 0
          /\ \A i \in 1 .. q - (k + 1) + 1 : b[i] = s[(k + 1) + i - 1]
      BY <3>1, PartOfText
    <3>3. q - (k + 1) + 1 = q - k
      BY <3>1
    <3> HIDE DEF b
    <3>4. \A i \in 1 .. q - k : b[i] = s[k + i]
      <4> TAKE i \in 1 .. q - k
      <4>1. (k + 1) + i - 1 = k + i
        OBVIOUS
      <4>2. QED
        BY <3>2, <3>3, <4>1
    <3>5. QED
      BY <3>1, <3>2, <3>3, <3>4
  <2>6. Close(b) = e
    <3> DEFINE I == {i \in 1 .. Len(b) : b[i] = "</think>"}
    <3>1. e \in I /\ \A i \in I : e <= i
      <4> HIDE DEF b
      <4>1. e \in 1 .. Len(b) /\ b[e] = s[c]
        BY <1>0, <2>4, <2>5
      <4>2. ASSUME NEW i \in I PROVE e <= i
        <5>1. i \in 1 .. q - k /\ s[k + i] = "</think>"
          BY <2>5
        <5>2. k + i \notin k + 1 .. c - 1
          BY <2>1, <5>1 DEF Concludes
        <5>3. QED
          BY <1>0, <5>1, <5>2
      <4>3. QED
        BY <2>1, <4>1, <4>2 DEF Concludes
    <3>2. Close(b) = Min(I)
      <4>1. I # {}
        BY <3>1
      <4>2. QED
        BY <4>1 DEF Close, SelectInSeq
    <3>3. I \in SUBSET Nat
      OBVIOUS
    <3> HIDE DEF I
    <3>4. Min(I) \in I /\ \A m \in I : Min(I) <= m
      BY <3>1, <3>3, MinOfPositions
    <3>5. Min(I) <= e /\ e <= Min(I) /\ Min(I) \in Nat /\ e \in Nat
      BY <3>1, <3>3, <3>4
    <3> HIDE DEF e
    <3>6. QED
      BY <3>2, <3>5
  <2>7. split_reasoning(s) = [answer |-> Strip(SubSeq(b, e + 1, Len(b))),
                              reasoning |-> Strip(SubSeq(b, 1, e - 1))]
    <3>1. e # 0
      BY <2>4
    <3> HIDE DEF e, b
    <3>2. Body(s) = b
      BY <2>2 DEF b
    <3>3. QED
      BY <2>3, <2>6, <3>1, <3>2 DEF split_reasoning
  <2>8. SubSeq(b, e + 1, Len(b)) = SubSeq(s, c + 1, q)
    <3> DEFINE m == e + 1
               n == Len(b)
               a == k + 1
    <3>1. /\ m \in Nat \ {0} /\ n \in Nat /\ a + n - 1 = q /\ a + m - 1 = c + 1
          /\ a \in Nat \ {0} /\ q \in Nat /\ q <= Len(s)
      BY <1>0, <2>4, <2>5
    <3> HIDE DEF m, n, a
    <3>2. SubSeq(SubSeq(s, a, q), m, n) = SubSeq(s, a + m - 1, a + n - 1)
      BY <3>1, PartOfPart
    <3>3. QED
      BY <3>1, <3>2 DEF m, n, a
  <2>9. SubSeq(b, 1, e - 1) = SubSeq(s, k + 1, c - 1)
    <3> DEFINE n == e - 1
               a == k + 1
    <3>1. /\ n \in Nat /\ a + n - 1 = c - 1 /\ a + 1 - 1 = a /\ c - 1 <= q
          /\ a \in Nat \ {0} /\ q \in Nat /\ q <= Len(s)
      BY <1>0, <2>4
    <3> HIDE DEF n, a
    <3>2. SubSeq(SubSeq(s, a, q), 1, n) = SubSeq(s, a + 1 - 1, a + n - 1)
      BY <3>1, PartOfPart
    <3>3. QED
      BY <3>1, <3>2 DEF n, a
  <2>10. Strip(SubSeq(s, c + 1, q)) = Strip(SubSeq(s, c + 1, N))
    <3> DEFINE a == c + 1
    <3>1. a \in Nat \ {0} /\ q \in Nat /\ q <= N /\ N <= Len(s) /\ N \in Nat
      BY <1>0
    <3> HIDE DEF a, N
    <3>2. Strip(SubSeq(s, a, q)) = Strip(SubSeq(s, a, N))
      BY <2>2, <3>1, TrimmedEnd
    <3>3. QED
      BY <3>2 DEF a
  <2>11. h.answer = SubSeq(s, c + 1, N) /\ h.reasoning = SubSeq(s, k + 1, c - 1)
    BY <2>1 DEF Concludes
  <2>12. /\ split_reasoning(s).answer = Strip(SubSeq(b, e + 1, Len(b)))
         /\ split_reasoning(s).reasoning = Strip(SubSeq(b, 1, e - 1))
    <3> HIDE DEF b, e
    <3>1. QED
      BY <2>7
  <2> HIDE DEF b, e
  <2>13. QED
    BY <2>8, <2>9, <2>10, <2>11, <2>12
<1>5. QED
  BY <1>1, <1>2, <1>3, <1>4 DEF Understood

(* The reader's states after each part of a text, up to part `m`.            *)
Listened(s, f, m) ==
  f = [n \in 0 .. m |-> IF n = 0 THEN Silence ELSE Hear(f[n - 1], s[n])]

(* There is such a function, so Heard() is what its definition says.         *)
LEMMA SomebodyListens ==
  ASSUME NEW s \in Seq(Tokens)
  PROVE  \E f : Listened(s, f, Len(s)) /\ Heard(s) = f[Len(s)]
<1> DEFINE Reach == {m \in Nat : \E f : Listened(s, f, m)}
<1>1. 0 \in Reach
  <2> DEFINE f == [n \in 0 .. 0 |-> Silence]
  <2>1. Listened(s, f, 0)
    BY DEF Listened
  <2>2. QED
    BY <2>1
<1>2. ASSUME NEW m \in 0 .. Len(s) - 1, m \in Reach
      PROVE  m + 1 \in Reach
  <2>1. PICK f : Listened(s, f, m)
    BY <1>2
  <2> DEFINE g == [n \in 0 .. m + 1 |-> IF n <= m THEN f[n] ELSE Hear(f[m], s[m + 1])]
  <2>2. ASSUME NEW n \in 0 .. m + 1
        PROVE  g[n] = IF n = 0 THEN Silence ELSE Hear(g[n - 1], s[n])
    <3>1. CASE n = 0
      BY <2>1, <3>1 DEF Listened
    <3>2. CASE n \in 1 .. m
      <4>1. g[n] = f[n] /\ g[n - 1] = f[n - 1]
        BY <3>2
      <4>2. f[n] = Hear(f[n - 1], s[n])
        <5>1. n \in 0 .. m /\ n # 0
          BY <3>2
        <5>2. f[n] = IF n = 0 THEN Silence ELSE Hear(f[n - 1], s[n])
          BY <2>1, <5>1 DEF Listened
        <5>3. QED
          BY <5>1, <5>2
      <4>3. QED
        BY <3>2, <4>1, <4>2
    <3>3. CASE n = m + 1
      <4>1. g[n] = Hear(f[m], s[m + 1]) /\ g[n - 1] = f[m] /\ n # 0
        BY <3>3
      <4>2. QED
        BY <3>3, <4>1
    <3>4. QED
      BY <3>1, <3>2, <3>3
  <2>3. g = [n \in 0 .. m + 1 |-> IF n = 0 THEN Silence ELSE Hear(g[n - 1], s[n])]
    <3> DEFINE G == [n \in 0 .. m + 1 |-> IF n = 0 THEN Silence ELSE Hear(g[n - 1], s[n])]
    <3>1. DOMAIN g = 0 .. m + 1 /\ g = [n \in 0 .. m + 1 |-> g[n]]
      OBVIOUS
    <3> HIDE DEF g
    <3>2. QED
      BY <2>2, <3>1
  <2>4. Listened(s, g, m + 1)
    BY <2>3 DEF Listened
  <2>5. QED
    BY <2>4
<1>3. Len(s) \in Reach
  <2>1. Len(s) \in Nat /\ Len(s) \in 0 .. Len(s)
    OBVIOUS
  <2> HIDE DEF Reach
  <2>2. QED
    BY <1>1, <1>2, <2>1, CountUp
<1>4. PICK f : Listened(s, f, Len(s))
  BY <1>3
<1> DEFINE F == CHOOSE h : Listened(s, h, Len(s))
<1>5. Listened(s, F, Len(s))
  BY <1>4
<1>6. Heard(s) = F[Len(s)]
  BY DEF Heard, Listened, Silence
<1>7. QED
  BY <1>5, <1>6

(* The reader's states, one by one.                                          *)
LEMMA PartByPart ==
  ASSUME NEW s \in Seq(Tokens), NEW f, Listened(s, f, Len(s))
  PROVE  /\ f[0] = Silence
         /\ \A n \in 0 .. Len(s) - 1 : f[n + 1] = Hear(f[n], s[n + 1])
<1>1. 0 \in 0 .. Len(s)
  OBVIOUS
<1>2. f[0] = Silence
  BY <1>1 DEF Listened
<1>3. ASSUME NEW n \in 0 .. Len(s) - 1
      PROVE  f[n + 1] = Hear(f[n], s[n + 1])
  <2>1. n + 1 \in 0 .. Len(s) /\ n + 1 # 0 /\ (n + 1) - 1 = n
    OBVIOUS
  <2>2. f[n + 1] = IF n + 1 = 0 THEN Silence ELSE Hear(f[(n + 1) - 1], s[n + 1])
    BY <2>1 DEF Listened
  <2>3. QED
    BY <2>1, <2>2
<1>4. QED
  BY <1>2, <1>3

(* The reader understands every text.                                        *)
LEMMA HeardUnderstood ==
  ASSUME NEW s \in Seq(Tokens)
  PROVE  Heard(s) \in Hearings /\ Understood(s, Len(s), Heard(s))
<1>1. PICK f : Listened(s, f, Len(s)) /\ Heard(s) = f[Len(s)]
  BY SomebodyListens
<1> DEFINE Good == {n \in Nat : f[n] \in Hearings /\ Understood(s, n, f[n])}
<1>2. 0 \in Good
  <2>1. f[0] = Silence
    BY <1>1, PartByPart
  <2>2. Silence \in Hearings
    BY DEF Silence, Hearings
  <2>3. Waits(s, 0, Silence)
    BY DEF Waits
  <2>4. QED
    BY <2>1, <2>2, <2>3 DEF Understood
<1>3. ASSUME NEW n \in 0 .. Len(s) - 1, n \in Good
      PROVE  n + 1 \in Good
  <2>1. f[n + 1] = Hear(f[n], s[n + 1])
    BY <1>1, PartByPart
  <2>2. n \in Nat /\ n < Len(s) /\ f[n] \in Hearings /\ Understood(s, n, f[n])
    BY <1>3
  <2>3. Hear(f[n], s[n + 1]) \in Hearings /\ Understood(s, n + 1, Hear(f[n], s[n + 1]))
    BY <2>2, HearsOn
  <2>4. QED
    BY <2>1, <2>3
<1>4. Len(s) \in Good
  <2>1. Len(s) \in Nat /\ Len(s) \in 0 .. Len(s)
    OBVIOUS
  <2> HIDE DEF Good
  <2>2. QED
    BY <1>2, <1>3, <2>1, CountUp
<1>5. QED
  BY <1>1, <1>4

(* One part more is one thing more to hear.                                  *)
LEMMA HeardMore ==
  ASSUME NEW s \in Seq(Tokens), NEW t \in Tokens
  PROVE  Heard(Append(s, t)) = Hear(Heard(s), t)
<1> DEFINE u == Append(s, t)
<1>1. u \in Seq(Tokens) /\ Len(u) = Len(s) + 1 /\ Len(s) \in Nat
      /\ u[Len(s) + 1] = t /\ \A n \in 1 .. Len(s) : u[n] = s[n]
  OBVIOUS
<1> HIDE DEF u
<1>2. PICK f : Listened(s, f, Len(s)) /\ Heard(s) = f[Len(s)]
  BY SomebodyListens
<1>3. PICK g : Listened(u, g, Len(u)) /\ Heard(u) = g[Len(u)]
  BY <1>1, SomebodyListens
<1>4. /\ f[0] = Silence
      /\ \A n \in 0 .. Len(s) - 1 : f[n + 1] = Hear(f[n], s[n + 1])
  BY <1>2, PartByPart
<1>5. /\ g[0] = Silence
      /\ \A n \in 0 .. Len(u) - 1 : g[n + 1] = Hear(g[n], u[n + 1])
  BY <1>1, <1>3, PartByPart
<1> DEFINE Same == {n \in Nat : f[n] = g[n]}
<1>6. 0 \in Same
  BY <1>4, <1>5
<1>7. ASSUME NEW n \in 0 .. Len(s) - 1, n \in Same
      PROVE  n + 1 \in Same
  <2>1. n \in 0 .. Len(u) - 1 /\ n + 1 \in 1 .. Len(s)
    BY <1>1
  <2>2. f[n + 1] = Hear(f[n], s[n + 1]) /\ g[n + 1] = Hear(g[n], s[n + 1])
    BY <1>1, <1>4, <1>5, <2>1
  <2>3. QED
    BY <1>7, <2>2
<1>8. Len(s) \in Same
  <2>1. Len(s) \in 0 .. Len(s)
    BY <1>1
  <2> HIDE DEF Same
  <2>2. QED
    BY <1>1, <1>6, <1>7, <2>1, CountUp
<1>9. g[Len(s) + 1] = Hear(g[Len(s)], t)
  <2>1. Len(s) \in 0 .. Len(u) - 1
    BY <1>1
  <2>2. QED
    BY <1>1, <1>5, <2>1
<1>10. Heard(u) = Hear(Heard(s), t)
  BY <1>1, <1>2, <1>3, <1>8, <1>9
<1>11. QED
  BY <1>10 DEF u

(* split_reasoning() finds what the reader hears, in every text.             *)
THEOREM SplitIsHeard ==
  \A s \in Seq(Tokens) : /\ split_reasoning(s).answer = Strip(Heard(s).answer)
                         /\ split_reasoning(s).reasoning = Strip(Heard(s).reasoning)
BY HeardUnderstood, SplitOfUnderstood

(* strip() returns a part of its text, or nothing.                           *)
LEMMA StripType ==
  ASSUME NEW s \in Seq(Tokens)
  PROVE  Strip(s) \in Seq(Tokens)
<1>1. CASE Strip(s) = <<>>
  BY <1>1
<1>2. CASE \E p, q \in 1 .. Len(s) : p <= q /\ Strip(s) = SubSeq(s, p, q)
  <2>1. PICK p, q \in 1 .. Len(s) : p <= q /\ Strip(s) = SubSeq(s, p, q)
    BY <1>2
  <2>2. p \in Nat \ {0} /\ q \in Nat /\ q <= Len(s)
    OBVIOUS
  <2>3. QED
    BY <2>1, <2>2, PartOfText
<1>3. QED
  BY <1>1, <1>2, Solidity

(* A longer text has the longer stripped text.                               *)
LEMMA StripGrows ==
  ASSUME NEW s \in Seq(Tokens), NEW t \in Tokens
  PROVE  IsPrefix(Strip(s), Strip(Append(s, t)))
<1> DEFINE u == Append(s, t)
           N == Len(s)
<1>1. /\ u \in Seq(Tokens) /\ Len(u) = N + 1 /\ N \in Nat
      /\ u[N + 1] = t /\ \A n \in 1 .. N : u[n] = s[n]
  OBVIOUS
<1>2. Strip(u) \in Seq(Tokens)
  BY <1>1, StripType
<1>3. CASE Strip(s) = <<>>
  <2>1. Len(Strip(s)) = 0 /\ SubSeq(Strip(s), 1, 0) = <<>> /\ SubSeq(Strip(u), 1, 0) = <<>>
    BY <1>3, SubSeqEmpty
  <2>2. QED
    BY <1>2, <2>1 DEF IsPrefix
<1>4. CASE \E p, q \in 1 .. N :
              /\ ~IsSpace(s[p]) /\ ~IsSpace(s[q])
              /\ \A i \in 1 .. p - 1 : IsSpace(s[i])
              /\ \A i \in q + 1 .. N : IsSpace(s[i])
              /\ p <= q
              /\ Strip(s) = SubSeq(s, p, q)
  <2>1. PICK p, q \in 1 .. N :
              /\ ~IsSpace(s[p]) /\ ~IsSpace(s[q])
              /\ \A i \in 1 .. p - 1 : IsSpace(s[i])
              /\ \A i \in q + 1 .. N : IsSpace(s[i])
              /\ p <= q
              /\ Strip(s) = SubSeq(s, p, q)
    BY <1>4
  <2> HIDE DEF u, N
  <2>2. PICK r \in q .. N + 1 :
              /\ ~IsSpace(u[r])
              /\ \A i \in r + 1 .. N + 1 : IsSpace(u[i])
    <3>1. CASE IsSpace(t)
      <4>1. q \in q .. N + 1 /\ ~IsSpace(u[q])
        BY <1>1, <2>1 DEF IsSpace
      <4>2. \A i \in q + 1 .. N + 1 : IsSpace(u[i])
        <5> TAKE i \in q + 1 .. N + 1
        <5>1. CASE i = N + 1
          BY <1>1, <3>1, <5>1
        <5>2. CASE i <= N
          <6>1. i \in q + 1 .. N /\ i \in 1 .. N
            BY <1>1, <5>2
          <6>2. QED
            BY <1>1, <2>1, <6>1 DEF IsSpace
        <5>3. QED
          BY <1>1, <5>1, <5>2
      <4>3. QED
        BY <4>1, <4>2
    <3>2. CASE ~IsSpace(t)
      <4>1. N + 1 \in q .. N + 1 /\ ~IsSpace(u[N + 1])
        BY <1>1, <3>2
      <4>2. \A i \in (N + 1) + 1 .. N + 1 : IsSpace(u[i])
        BY <1>1
      <4>3. QED
        BY <4>1, <4>2
    <3>3. QED
      BY <3>1, <3>2
  <2>3. Strip(u) = SubSeq(u, p, r)
    <3>1. p \in 1 .. Len(u) /\ r \in 1 .. Len(u) /\ ~IsSpace(u[p])
      BY <1>1, <2>1, <2>2 DEF IsSpace
    <3>2. \A i \in 1 .. p - 1 : IsSpace(u[i])
      BY <1>1, <2>1 DEF IsSpace
    <3>3. QED
      BY <1>1, <2>2, <3>1, <3>2, StripOf
  <2> DEFINE m == q - p + 1
             l == r - p + 1
  <2>4. /\ Len(SubSeq(s, p, q)) = m /\ SubSeq(s, p, q) \in Seq(Tokens)
        /\ \A i \in 1 .. m : SubSeq(s, p, q)[i] = s[p + i - 1]
    <3>1. p \in Nat \ {0} /\ q \in Nat /\ q <= Len(s)
      BY <1>1 DEF N
    <3>2. QED
      BY <2>1, <3>1, PartOfText
  <2>5. /\ Len(SubSeq(u, p, r)) = l /\ SubSeq(u, p, r) \in Seq(Tokens)
    <3>1. p \in Nat \ {0} /\ r \in Nat /\ r <= Len(u) /\ p <= r
      BY <1>1, <2>1
    <3>2. QED
      BY <1>1, <3>1, PartOfText
  <2>6. SubSeq(SubSeq(u, p, r), 1, m) = SubSeq(u, p, q)
    <3>1. /\ p \in Nat \ {0} /\ r \in Nat /\ r <= Len(u) /\ m \in Nat
          /\ p + m - 1 <= r /\ p + m - 1 = q /\ p + 1 - 1 = p
      BY <1>1, <2>1
    <3> HIDE DEF m
    <3>2. SubSeq(SubSeq(u, p, r), 1, m) = SubSeq(u, p + 1 - 1, p + m - 1)
      BY <1>1, <3>1, PartOfPart
    <3>3. QED
      BY <3>1, <3>2
  <2>7. SubSeq(u, p, q) = SubSeq(s, p, q)
    <3>1. p \in Nat \ {0} /\ q \in Nat /\ q <= Len(u) /\ p <= q
      BY <1>1, <2>1
    <3>2. /\ Len(SubSeq(u, p, q)) = m /\ SubSeq(u, p, q) \in Seq(Tokens)
          /\ \A i \in 1 .. m : SubSeq(u, p, q)[i] = u[p + i - 1]
      BY <1>1, <3>1, PartOfText
    <3>3. \A i \in 1 .. m : u[p + i - 1] = s[p + i - 1]
      <4> TAKE i \in 1 .. m
      <4>1. p + i - 1 \in 1 .. N
        BY <1>1, <2>1
      <4>2. QED
        BY <1>1, <4>1
    <3> HIDE DEF m
    <3>4. QED
      BY <2>4, <3>2, <3>3, SeqEqual
  <2>8. SubSeq(SubSeq(s, p, q), 1, m) = SubSeq(s, p, q)
    <3> HIDE DEF m
    <3>1. QED
      BY <2>4, SubSeqFull
  <2>9. m <= l
    BY <1>1, <2>1
  <2> HIDE DEF m, l
  <2>10. IsPrefix(Strip(s), Strip(u))
    BY <2>1, <2>3, <2>4, <2>5, <2>6, <2>7, <2>8, <2>9 DEF IsPrefix
  <2>11. QED
    BY <2>10 DEF u
<1>5. QED
  BY <1>3, <1>4, Solidity

-----------------------------------------------------------------------------
(* The run *)

(* Generation stays within the budget and stops for one of its two reasons.  *)
InferenceInv ==
  /\ asked \in Asked \cup {Absent}
  /\ output \in Seq(Tokens \cup {"eos"})
  /\ \A i \in 1 .. Len(output) - 1 : output[i] # "eos"
  /\ phase = "asked" => output = <<>>
  /\ phase \in {"generating", "returned"} => Budget >= 1 /\ Len(output) <= Budget
  /\ phase = "returned" =>
       /\ Ended
       /\ result.truncated = Truncated
       /\ result.output_tokens = Len(output)

(* InferenceInv holds in every state of a run.                               *)
LEMMA InferenceInvariance == InferenceSpec => []InferenceInv
<1>1. InferenceInit => InferenceInv
  BY DEF InferenceInit, InferenceInv
<1>2. InferenceInv /\ [InferenceNext]_inferenceVars => InferenceInv'
  <2> SUFFICES ASSUME InferenceInv, [InferenceNext]_inferenceVars PROVE InferenceInv'
    OBVIOUS
  <2> USE DEF InferenceInv
  <2>0. Budget \in Int
    BY BudgetAssumption DEF Budget
  <2>1. CASE GenerateRaises \/ HandedOver \/ UNCHANGED inferenceVars
    BY <2>1 DEF GenerateRaises, HandedOver, inferenceVars, Budget, Ended, Truncated, Last
  <2>2. CASE Begin
    BY <2>0, <2>2 DEF Begin, Budget
  <2>3. CASE Emit
    <3>1. PICK t \in Tokens \cup {"eos"} : output' = Append(output, t)
      BY <2>3 DEF Emit
    <3>2. output' \in Seq(Tokens \cup {"eos"}) /\ Len(output') = Len(output) + 1
      BY <3>1
    <3>3. Len(output) < Budget
      BY <2>0, <2>3 DEF Emit, Ended
    <3>4. Budget' = Budget
      BY <2>3 DEF Emit, Budget
    <3>5. \A i \in 1 .. Len(output') - 1 : output'[i] # "eos"
      <4> TAKE i \in 1 .. Len(output') - 1
      <4>1. i \in 1 .. Len(output) /\ output'[i] = output[i]
        BY <3>1, <3>2
      <4>2. output[Len(output)] # "eos"
        BY <2>3, <4>1 DEF Emit, Ended, Last
      <4>3. QED
        BY <4>1, <4>2
    <3>6. QED
      BY <2>0, <2>3, <3>2, <3>3, <3>4, <3>5 DEF Emit
  <2>4. CASE Return
    <3>1. /\ result'.truncated = Truncated /\ result'.output_tokens = Len(output)
          /\ UNCHANGED <<asked, output>> /\ phase = "generating" /\ Ended
      BY <2>4 DEF Return
    <3>2. Budget' = Budget
      BY <3>1 DEF Budget
    <3>3. Truncated' = Truncated
      BY <3>1, <3>2 DEF Truncated
    <3>4. Ended'
      BY <3>1, <3>2 DEF Ended, Last
    <3>5. phase' = "returned" /\ Budget >= 1 /\ Len(output) <= Budget
      BY <2>4, <3>1 DEF Return
    <3>6. QED
      BY <3>1, <3>2, <3>3, <3>4, <3>5
  <2>5. QED
    BY <2>1, <2>2, <2>3, <2>4 DEF InferenceNext
<1>3. QED
  BY <1>1, <1>2, PTL DEF InferenceSpec

(* What the end of sequence is taken off is text.                            *)
LEMMA TextType == InferenceInv => Text(output) \in Seq(Tokens)
<1> SUFFICES ASSUME InferenceInv PROVE Text(output) \in Seq(Tokens)
  OBVIOUS
<1>1. /\ output \in Seq(Tokens \cup {"eos"}) /\ Len(output) \in Nat
      /\ \A i \in 1 .. Len(output) - 1 : output[i] \in Tokens
  BY DEF InferenceInv
<1>2. CASE output # <<>> /\ Last(output) = "eos"
  <2>1. 1 \in Int /\ Len(output) - 1 \in Int
    BY <1>1
  <2>2. SubSeq(output, 1, Len(output) - 1) \in Seq(Tokens)
    BY <1>1, <2>1, SubSeqProperties
  <2>3. QED
    BY <1>2, <2>2 DEF Text, Front
<1>3. CASE output = <<>>
  BY <1>3 DEF Text
<1>4. CASE output # <<>> /\ Last(output) # "eos"
  <2>1. \A i \in 1 .. Len(output) : output[i] \in Tokens
    <3> TAKE i \in 1 .. Len(output)
    <3>1. output[i] \in Tokens \cup {"eos"}
      BY <1>1
    <3>2. CASE i = Len(output)
      BY <1>4, <3>1, <3>2 DEF Last
    <3>3. CASE i # Len(output)
      BY <1>1, <3>3
    <3>4. QED
      BY <3>2, <3>3
  <2>2. 1 \in Int /\ Len(output) \in Int
    BY <1>1
  <2>3. SubSeq(output, 1, Len(output)) \in Seq(Tokens)
    BY <2>1, <2>2, SubSeqProperties
  <2>4. SubSeq(output, 1, Len(output)) = output
    BY <1>1, SubSeqFull
  <2>5. QED
    BY <1>4, <2>3, <2>4 DEF Text
<1>5. QED
  BY <1>2, <1>3, <1>4

(* In every state of a run the two expressions have found the block that a   *)
(* reader of the text so far has heard, wherever the budget has cut it off.  *)
THEOREM SplittingIsRight == InferenceSpec => []SplitsAsHeard
<1>1. InferenceInv => SplitsAsHeard
  BY TextType, SplitIsHeard DEF SplitsAsHeard
<1>2. QED
  BY <1>1, InferenceInvariance, PTL

(* One emitted token adds one part to the text, or none.                     *)
LEMMA OneTokenMore ==
  ASSUME InferenceInv, [InferenceNext]_inferenceVars
  PROVE  \/ Text(output') = Text(output)
         \/ \E t \in Tokens : Text(output') = Append(Text(output), t)
<1>1. CASE UNCHANGED output
  BY <1>1
<1>2. CASE Emit
  <2>1. PICK t \in Tokens \cup {"eos"} : output' = Append(output, t)
    BY <1>2 DEF Emit
  <2>2. Text(output) = output
    BY <1>2 DEF Emit, Ended, Text
  <2>3. /\ output \in Seq(Tokens \cup {"eos"}) /\ Len(output) \in Nat
        /\ output' \in Seq(Tokens \cup {"eos"}) /\ Len(output') = Len(output) + 1
        /\ output'[Len(output) + 1] = t /\ output' # <<>>
    BY <2>1 DEF InferenceInv
  <2>4. Last(output') = t
    BY <2>3 DEF Last
  <2>5. CASE t = "eos"
    <3>1. Front(output') = output
      <4>1. SubSeq(output', 1, Len(output)) = output
        BY <2>1, <2>3, AppendProperties
      <4>2. QED
        BY <2>3, <4>1 DEF Front
    <3>2. QED
      BY <2>2, <2>3, <2>4, <2>5, <3>1 DEF Text
  <2>6. CASE t # "eos"
    BY <2>1, <2>2, <2>4, <2>6 DEF Text
  <2>7. QED
    BY <2>5, <2>6
<1>3. QED
  BY <1>1, <1>2 DEF InferenceNext, GenerateRaises, Begin, Return, HandedOver, inferenceVars

(* A step that returns nothing takes nothing back.                           *)
LEMMA PrefixOfItself == ASSUME NEW x \in Seq(Tokens) PROVE IsPrefix(x, x)
BY DEF IsPrefix

(* Nothing that was an answer, or reasoning, is taken back by what follows:  *)
(* a larger budget only continues what a smaller one had returned.           *)
THEOREM AnswersOnlyGrow == InferenceSpec => NothingTakenBack
<1>1. ASSUME InferenceInv, [InferenceNext]_inferenceVars
      PROVE  LET now == split_reasoning(Text(output))
                 then == split_reasoning(Text(output'))
             IN IsPrefix(now.answer, then.answer) /\ IsPrefix(now.reasoning, then.reasoning)
  <2> DEFINE s == Text(output)
             u == Text(output')
             h == Heard(s)
  <2>1. s \in Seq(Tokens)
    BY <1>1, TextType
  <2>2. h \in Hearings /\ h.answer \in Seq(Tokens) /\ h.reasoning \in Seq(Tokens)
    BY <2>1, HeardUnderstood DEF Hearings
  <2>3. split_reasoning(s).answer = Strip(h.answer) /\ split_reasoning(s).reasoning = Strip(h.reasoning)
    BY <2>1, SplitIsHeard
  <2>4. /\ IsPrefix(Strip(h.answer), Strip(h.answer))
        /\ IsPrefix(Strip(h.reasoning), Strip(h.reasoning))
    BY <2>2, StripType, PrefixOfItself
  <2>5. CASE u = s
    BY <2>3, <2>4, <2>5
  <2>6. CASE \E t \in Tokens : u = Append(s, t)
    <3>1. PICK t \in Tokens : u = Append(s, t)
      BY <2>6
    <3>2. u \in Seq(Tokens) /\ Heard(u) = Hear(h, t)
      BY <2>1, <3>1, HeardMore
    <3>3. /\ Hear(h, t).answer \in {h.answer, Append(h.answer, t)}
          /\ Hear(h, t).reasoning \in {h.reasoning, Append(h.reasoning, t)}
      <4>1. h.where \in {"start", "block", "answer"}
        BY <2>2 DEF Hearings
      <4> HIDE DEF h
      <4>2. QED
        BY <2>2, <4>1, HearCases
    <3>4. /\ IsPrefix(Strip(h.answer), Strip(Append(h.answer, t)))
          /\ IsPrefix(Strip(h.reasoning), Strip(Append(h.reasoning, t)))
      BY <2>2, StripGrows
    <3>5. /\ split_reasoning(u).answer = Strip(Hear(h, t).answer)
          /\ split_reasoning(u).reasoning = Strip(Hear(h, t).reasoning)
      BY <3>2, SplitIsHeard
    <3> HIDE DEF h, s, u
    <3>6. /\ IsPrefix(split_reasoning(s).answer, split_reasoning(u).answer)
          /\ IsPrefix(split_reasoning(s).reasoning, split_reasoning(u).reasoning)
      BY <2>3, <2>4, <3>3, <3>4, <3>5
    <3>7. QED
      BY <3>6 DEF s, u
  <2>7. QED
    BY <1>1, <2>5, <2>6, OneTokenMore
<1>2. QED
  BY <1>1, InferenceInvariance, PTL DEF InferenceSpec, NothingTakenBack

(* A result not called truncated is complete, none is longer than was asked  *)
(* for, and only a run that used up its budget is called truncated.          *)
THEOREM TruncationIsHonest == InferenceSpec => []TruncationIsTold
<1>1. ASSUME InferenceInv PROVE TruncationIsTold
  <2> SUFFICES ASSUME phase = "returned"
               PROVE  /\ ~result.truncated => Last(output) = "eos"
                      /\ asked \notin {Absent, 0} =>
                           /\ result.output_tokens <= asked
                           /\ Last(output) = "eos" /\ result.output_tokens < asked => ~result.truncated
                      /\ result.truncated =>
                           result.output_tokens = IF asked \in {Absent, 0} THEN Default ELSE asked
    BY DEF TruncationIsTold
  <2>1. /\ Ended /\ result.truncated = Truncated /\ result.output_tokens = Len(output)
        /\ Len(output) <= Budget
    BY <1>1 DEF InferenceInv
  <2>2. Len(output) \in Nat /\ Budget \in Int
    BY <1>1, BudgetAssumption DEF InferenceInv, Budget
  <2>3. Last(output) = "eos" \/ Len(output) = Budget
    BY <2>1 DEF Ended
  <2>4. result.truncated = (Len(output) >= Budget)
    BY <2>1 DEF Truncated
  <2>5. Budget = IF asked \in {Absent, 0} THEN Default ELSE asked
    BY DEF Budget
  <2>6. CASE Len(output) = Budget
    <3>1. result.truncated
      <4>1. Len(output) >= Budget
        BY <2>2, <2>6
      <4>2. QED
        BY <2>4, <4>1, Zenon
    <3>2. result.output_tokens = Budget
      BY <2>1, <2>6
    <3>3. asked \notin {Absent, 0} => result.output_tokens = asked
      BY <2>5, <3>2
    <3>4. asked \notin {Absent, 0} => asked \in Int
      BY <2>5, <2>2
    <3>5. QED
      BY <2>5, <3>1, <3>2, <3>3, <3>4
  <2>7. CASE Len(output) < Budget
    <3>1. ~result.truncated
      <4>1. ~(Len(output) >= Budget)
        BY <2>2, <2>7
      <4>2. QED
        BY <2>4, <4>1, Zenon
    <3>2. asked \notin {Absent, 0} => asked \in Int /\ result.output_tokens < asked
      BY <2>5, <2>1, <2>2, <2>7
    <3>3. asked \notin {Absent, 0} => result.output_tokens <= asked
      BY <2>1, <2>2, <3>2
    <3>4. Last(output) = "eos"
      BY <2>2, <2>3, <2>7
    <3>5. QED
      BY <3>1, <3>3, <3>4
  <2>8. QED
    BY <2>1, <2>2, <2>6, <2>7
<1>2. QED
  BY <1>1, InferenceInvariance, PTL

=============================================================================
