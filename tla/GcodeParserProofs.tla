------------------------- MODULE GcodeParserProofs -------------------------
(***************************************************************************)
(* The parser's verdict on a line, for lines of any length: its passes     *)
(* over comments in parentheses leave the commands a reader would see.     *)
(***************************************************************************)
EXTENDS GcodeParser, Integers, SequenceTheorems, WellFoundedInduction, TLAPS

-----------------------------------------------------------------------------
(* Induction, stated with sets.                                            *)

Below == OpToRel(<, Nat)

\* A set of natural numbers that is not empty has a least element.
LEMMA LeastNatural ==
  ASSUME NEW T, T \subseteq Nat, T # {}
  PROVE  \E n \in T : \A m \in T : n <= m
<1>1. IsWellFoundedOn(Below, Nat)
  BY NatLessThanWellFounded DEF Below
<1>2. PICK n \in T : \A m \in T : <<m, n>> \notin Below
  BY <1>1, WFMin
<1>3. \A k, m \in Nat : <<m, k>> \notin Below => ~(m < k)
  BY DEF Below, OpToRel
<1>4. \A m \in T : ~(m < n)
  BY <1>2, <1>3
<1> QED BY <1>4

\* What contains 0 and the successor of each of its numbers contains them all.
LEMMA SetInduction ==
  ASSUME NEW S, 0 \in S, \A n \in Nat : n \in S => n + 1 \in S
  PROVE  Nat \subseteq S
<1> SUFFICES ASSUME Nat \ S # {} PROVE FALSE
  OBVIOUS
<1>1. PICK n \in Nat \ S : \A m \in Nat \ S : n <= m
  BY LeastNatural
<1>2. n - 1 \in Nat /\ n - 1 \in S
  BY <1>1
<1> QED BY <1>1, <1>2

-----------------------------------------------------------------------------
(* The first place of a mark.                                              *)

Text == Seq(Tokens)

\* The first place of a mark, or 0 if the line has none.
LEMMA PositionIs ==
  ASSUME NEW line \in Text, NEW t
  PROVE  /\ Position(line, t) \in 0 .. Len(line)
         /\ Position(line, t) = 0 => \A i \in 1 .. Len(line) : line[i] # t
         /\ Position(line, t) > 0 => /\ line[Position(line, t)] = t
                                     /\ \A i \in 1 .. Position(line, t) - 1 : line[i] # t
<1> DEFINE I == {i \in 1 .. Len(line) : line[i] = t}
<1>1. Len(line) \in Nat
  BY DEF Text
<1>2. CASE I = {}
  <2>1. Position(line, t) = 0
    BY <1>2 DEF Position, SX!SelectInSeq
  <2> QED BY <1>1, <1>2, <2>1
<1>3. CASE I # {}
  <2>1. I \subseteq Nat
    OBVIOUS
  <2>2. PICK n \in I : \A m \in I : n <= m
    BY <1>3, <2>1, LeastNatural
  <2>3. Position(line, t) = CHOOSE x \in I : \A m \in I : x <= m
    BY <1>3 DEF Position, SX!SelectInSeq, SX!Min
  <2>4. /\ Position(line, t) \in I
        /\ \A m \in I : Position(line, t) <= m
    BY <2>2, <2>3
  <2> QED BY <1>1, <2>4
<1> QED BY <1>2, <1>3

-----------------------------------------------------------------------------
(* One pass.                                                               *)

Outside(line) == \E i \in DOMAIN line : line[i] = "cmd" /\ ~InParentheses(line, i)

HasComment(line) == Position(line, "open") > 0 /\ Position(line, "close") > Position(line, "open")

\* What is left of a line that is cut at its semicolon.
LEMMA CutIs ==
  ASSUME NEW line \in Text
  PROVE  CutAtSemicolon(line) \in Text /\ Len(CutAtSemicolon(line)) <= Len(line)
<1>1. CASE Position(line, "semicolon") = 0
  BY <1>1 DEF CutAtSemicolon, Text
<1>2. CASE Position(line, "semicolon") # 0
  <2>1. Position(line, "semicolon") - 1 \in 0 .. Len(line)
    BY <1>2, PositionIs DEF Text
  <2>2. CutAtSemicolon(line) = SubSeq(line, 1, Position(line, "semicolon") - 1)
    BY <1>2 DEF CutAtSemicolon
  <2> QED BY <2>1, <2>2 DEF Text
<1> QED BY <1>1, <1>2

\* Two parts of a sequence, put together.
LEMMA Splice ==
  ASSUME NEW line \in Text, NEW p \in 1 .. Len(line), NEW q \in 1 .. Len(line), p < q
  PROVE  LET rest == SubSeq(line, 1, p - 1) \o SubSeq(line, q + 1, Len(line))
         IN  /\ rest \in Text /\ Len(rest) = Len(line) - (q - p + 1)
             /\ \A i \in 1 .. p - 1 : rest[i] = line[i]
             /\ \A i \in p .. Len(rest) : rest[i] = line[i + (q - p + 1)]
<1>1. Len(line) \in Nat
  BY DEF Text
<1>2. PICK a, b : a = SubSeq(line, 1, p - 1) /\ b = SubSeq(line, q + 1, Len(line))
  OBVIOUS
<1>4. a \in Text /\ Len(a) = p - 1 /\ \A i \in 1 .. p - 1 : a[i] = line[i]
  BY <1>1, <1>2 DEF Text
<1>5. b \in Text /\ Len(b) = Len(line) - q /\ \A i \in 1 .. Len(line) - q : b[i] = line[i + q]
  BY <1>1, <1>2 DEF Text
<1>6. /\ a \o b \in Text /\ Len(a \o b) = Len(a) + Len(b)
      /\ \A i \in 1 .. Len(a) + Len(b) :
           (a \o b)[i] = IF i <= Len(a) THEN a[i] ELSE b[i - Len(a)]
  BY <1>4, <1>5, ConcatProperties DEF Text
<1>7. Len(a \o b) = Len(line) - (q - p + 1)
  BY <1>1, <1>4, <1>5, <1>6
<1>8. \A i \in 1 .. p - 1 : (a \o b)[i] = line[i]
  BY <1>1, <1>4, <1>5, <1>6
<1>9. ASSUME NEW i \in p .. Len(a \o b) PROVE (a \o b)[i] = line[i + (q - p + 1)]
  <2>1. i - (p - 1) \in 1 .. Len(line) - q /\ i - (p - 1) + q = i + (q - p + 1)
    BY <1>1, <1>7
  <2>2. (a \o b)[i] = b[i - (p - 1)]
    BY <1>1, <1>4, <1>5, <1>6, <2>1
  <2> QED BY <1>5, <2>1, <2>2
<1> QED BY <1>2, <1>6, <1>7, <1>8, <1>9

\* rest is the line without its comment, from p to q.
Removes(line, rest, p, q) ==
  /\ p \in 1 .. Len(line) /\ q \in 1 .. Len(line) /\ p < q
  /\ line[p] = "open" /\ line[q] = "close"
  /\ \A i \in 1 .. p - 1 : line[i] # "open"
  /\ \A i \in 1 .. q - 1 : line[i] # "close"
  /\ rest \in Text /\ Len(rest) = Len(line) - (q - p + 1)
  /\ \A i \in 1 .. p - 1 : rest[i] = line[i]
  /\ \A i \in p .. Len(rest) : rest[i] = line[i + (q - p + 1)]

\* What a pass leaves: what was before the comment, and what was behind it.
LEMMA RemoveIs ==
  ASSUME NEW line \in Text, HasComment(line)
  PROVE  \E p, q \in 1 .. Len(line) : Removes(line, RemoveComment(line), p, q)
<1> DEFINE p == Position(line, "open")
           q == Position(line, "close")
<1>1. /\ p \in 0 .. Len(line) /\ (p > 0 => line[p] = "open" /\ \A i \in 1 .. p - 1 : line[i] # "open")
      /\ q \in 0 .. Len(line) /\ (q > 0 => line[q] = "close" /\ \A i \in 1 .. q - 1 : line[i] # "close")
  BY PositionIs
<1>2. p > 0 /\ q > p /\ RemoveComment(line) = SubSeq(line, 1, p - 1) \o SubSeq(line, q + 1, Len(line))
  BY DEF HasComment, RemoveComment
<1> HIDE DEF p, q
<1>3. Len(line) \in Nat
  BY DEF Text
<1>4. p \in 1 .. Len(line) /\ q \in 1 .. Len(line)
  BY <1>1, <1>2, <1>3
<1>5. Removes(line, RemoveComment(line), p, q)
  <2>1. PICK rest : rest = SubSeq(line, 1, p - 1) \o SubSeq(line, q + 1, Len(line))
    OBVIOUS
  <2>2. /\ rest \in Text /\ Len(rest) = Len(line) - (q - p + 1)
        /\ \A i \in 1 .. p - 1 : rest[i] = line[i]
        /\ \A i \in p .. Len(rest) : rest[i] = line[i + (q - p + 1)]
    BY <1>2, <1>4, <2>1, Splice
  <2>3. Removes(line, rest, p, q)
    BY <1>1, <1>2, <1>3, <1>4, <2>2 DEF Removes
  <2> QED BY <1>2, <2>1, <2>3
<1> QED BY <1>4, <1>5

\* A pass leaves a line without a comment as it is.
LEMMA NoRemoval ==
  ASSUME NEW line \in Text, ~HasComment(line)
  PROVE  RemoveComment(line) = line
  BY DEF HasComment, RemoveComment

\* A pass shifts what is behind the comment and takes nothing a reader would print.
LEMMA BehindComment ==
  ASSUME NEW line \in Text, NEW rest, NEW p \in 1 .. Len(line), NEW q \in 1 .. Len(line),
         Removes(line, rest, p, q), NEW i \in p .. Len(rest)
  PROVE  InParentheses(rest, i) <=> InParentheses(line, i + (q - p + 1))
<1> DEFINE d == q - p + 1
<1>1. /\ Len(line) \in Nat /\ Len(rest) \in Nat /\ d \in Nat /\ Len(line) = Len(rest) + d
      /\ p + d = q + 1 /\ i \in Nat /\ p \in Nat
  BY DEF Text, Removes
<1>2. /\ \A k \in 1 .. p - 1 : rest[k] = line[k] /\ line[k] # "open"
      /\ \A k \in p .. Len(rest) : rest[k] = line[k + d]
      /\ line[q] = "close"
  BY DEF Removes
<1> HIDE DEF d
<1>3. ASSUME InParentheses(rest, i) PROVE InParentheses(line, i + d)
  <2>1. PICK a \in 1 .. i - 1, b \in i + 1 .. Len(rest) :
          rest[a] = "open" /\ rest[b] = "close" /\ \A k \in a .. i : rest[k] # "close"
    BY <1>3 DEF InParentheses
  <2>2. a \in p .. Len(rest) /\ b \in p .. Len(rest)
    BY <1>1, <1>2, <2>1
  <2>3. a + d \in 1 .. (i + d) - 1 /\ b + d \in (i + d) + 1 .. Len(line)
    BY <1>1, <2>1
  <2>4. line[a + d] = "open" /\ line[b + d] = "close"
    BY <1>2, <2>1, <2>2
  <2>5. ASSUME NEW k \in a + d .. i + d PROVE line[k] # "close"
    <3>1. k - d \in a .. i /\ k - d \in p .. Len(rest) /\ (k - d) + d = k
      BY <1>1, <2>1, <2>2, <2>5
    <3> QED BY <1>2, <2>1, <3>1
  <2> QED BY <2>3, <2>4, <2>5 DEF InParentheses
<1>4. ASSUME InParentheses(line, i + d) PROVE InParentheses(rest, i)
  <2>1. PICK a \in 1 .. (i + d) - 1, b \in (i + d) + 1 .. Len(line) :
          line[a] = "open" /\ line[b] = "close" /\ \A k \in a .. i + d : line[k] # "close"
    BY <1>4 DEF InParentheses
  <2>2. a > q
    <3>1. q \in Nat /\ q <= i + d
      BY <1>1
    <3> QED BY <1>1, <1>2, <2>1, <3>1
  <2>3. /\ a - d \in 1 .. i - 1 /\ a - d \in p .. Len(rest) /\ (a - d) + d = a
        /\ b - d \in i + 1 .. Len(rest) /\ b - d \in p .. Len(rest) /\ (b - d) + d = b
    BY <1>1, <2>1, <2>2
  <2>4. rest[a - d] = "open" /\ rest[b - d] = "close"
    BY <1>2, <2>1, <2>3
  <2>5. ASSUME NEW k \in a - d .. i PROVE rest[k] # "close"
    <3>1. k \in p .. Len(rest) /\ k + d \in a .. i + d
      BY <1>1, <2>1, <2>3, <2>5
    <3> QED BY <1>2, <2>1, <3>1
  <2> QED BY <2>3, <2>4, <2>5 DEF InParentheses
<1> QED BY <1>3, <1>4 DEF d

\* Before the comment nothing is in parentheses, inside it everything is.
LEMMA BeforeAndInside ==
  ASSUME NEW line \in Text, NEW rest, NEW p \in 1 .. Len(line), NEW q \in 1 .. Len(line),
         Removes(line, rest, p, q)
  PROVE  /\ \A i \in 1 .. p - 1 : ~InParentheses(rest, i) /\ ~InParentheses(line, i)
         /\ \A i \in p .. q : line[i] = "cmd" => InParentheses(line, i)
<1>1. /\ Len(line) \in Nat /\ Len(rest) \in Nat /\ p \in Nat /\ q \in Nat /\ p < q
      /\ \A k \in 1 .. p - 1 : rest[k] = line[k] /\ line[k] # "open"
      /\ \A k \in 1 .. q - 1 : line[k] # "close"
      /\ line[p] = "open" /\ line[q] = "close"
  BY DEF Text, Removes
<1>2. ASSUME NEW i \in 1 .. p - 1 PROVE ~InParentheses(rest, i) /\ ~InParentheses(line, i)
  <2>1. \A a \in 1 .. i - 1 : a \in 1 .. p - 1
    BY <1>1
  <2> QED BY <1>1, <2>1 DEF InParentheses
<1>3. ASSUME NEW i \in p .. q, line[i] = "cmd" PROVE InParentheses(line, i)
  <2>1. i # p /\ i # q
    BY <1>1, <1>3
  <2>2. p \in 1 .. i - 1 /\ q \in i + 1 .. Len(line)
    BY <1>1, <2>1
  <2>3. \A k \in p .. i : k \in 1 .. q - 1
    BY <1>1, <2>2
  <2> QED BY <1>1, <2>2, <2>3 DEF InParentheses
<1> QED BY <1>2, <1>3

\* A pass keeps the commands outside comments, and makes none.
LEMMA KeepsOutside ==
  ASSUME NEW line \in Text
  PROVE  Outside(RemoveComment(line)) <=> Outside(line)
<1>1. CASE ~HasComment(line)
  BY <1>1, NoRemoval
<1>2. CASE HasComment(line)
  <2>1. PICK p \in 1 .. Len(line), q \in 1 .. Len(line) : Removes(line, RemoveComment(line), p, q)
    BY <1>2, RemoveIs
  <2>2. PICK rest : rest = RemoveComment(line)
    OBVIOUS
  <2> DEFINE d == q - p + 1
  <2>3. /\ Len(line) \in Nat /\ Len(rest) \in Nat /\ p \in Nat /\ q \in Nat /\ p < q
        /\ Len(line) = Len(rest) + d /\ DOMAIN line = 1 .. Len(line) /\ DOMAIN rest = 1 .. Len(rest)
        /\ \A k \in 1 .. p - 1 : rest[k] = line[k]
        /\ \A k \in p .. Len(rest) : rest[k] = line[k + d]
    BY <2>1, <2>2 DEF Text, Removes
  <2>4. /\ \A i \in 1 .. p - 1 : ~InParentheses(rest, i) /\ ~InParentheses(line, i)
        /\ \A i \in p .. q : line[i] = "cmd" => InParentheses(line, i)
        /\ \A i \in p .. Len(rest) : InParentheses(rest, i) <=> InParentheses(line, i + d)
    BY <2>1, <2>2, BeforeAndInside, BehindComment
  <2>5. ASSUME NEW i \in 1 .. Len(rest), rest[i] = "cmd", ~InParentheses(rest, i)
        PROVE  Outside(line)
    <3>1. CASE i < p
      <4>1. i \in 1 .. p - 1 /\ i \in 1 .. Len(line)
        BY <2>3, <3>1
      <4> QED BY <2>3, <2>4, <2>5, <4>1 DEF Outside
    <3>2. CASE i >= p
      <4>1. i \in p .. Len(rest) /\ i + d \in 1 .. Len(line)
        BY <2>3, <3>2
      <4> QED BY <2>3, <2>4, <2>5, <4>1 DEF Outside
    <3> QED BY <2>3, <3>1, <3>2
  <2>6. ASSUME NEW i \in 1 .. Len(line), line[i] = "cmd", ~InParentheses(line, i)
        PROVE  Outside(rest)
    <3>1. i < p \/ i > q
      BY <2>3, <2>4, <2>6
    <3>2. CASE i < p
      <4>1. i \in 1 .. p - 1 /\ i \in 1 .. Len(rest)
        BY <2>3, <3>2
      <4> QED BY <2>3, <2>4, <2>6, <4>1 DEF Outside
    <3>3. CASE i > q
      <4>1. i - d \in p .. Len(rest) /\ i - d \in 1 .. Len(rest) /\ (i - d) + d = i
        BY <2>3, <3>3
      <4>2. rest[i - d] = "cmd" /\ ~InParentheses(rest, i - d)
        BY <2>3, <2>4, <2>6, <4>1
      <4> QED BY <2>3, <4>1, <4>2 DEF Outside
    <3> QED BY <3>1, <3>2, <3>3
  <2> QED BY <2>2, <2>3, <2>5, <2>6 DEF Outside
<1> QED BY <1>1, <1>2

\* A pass makes no closing parenthesis a stray one.
LEMMA KeepsStray ==
  ASSUME NEW line \in Text, HasStray(RemoveComment(line))
  PROVE  HasStray(line)
<1>1. CASE ~HasComment(line)
  BY <1>1, NoRemoval
<1>2. CASE HasComment(line)
  <2>1. PICK p \in 1 .. Len(line), q \in 1 .. Len(line) : Removes(line, RemoveComment(line), p, q)
    BY <1>2, RemoveIs
  <2>2. PICK rest : rest = RemoveComment(line)
    OBVIOUS
  <2> DEFINE d == q - p + 1
  <2>3. /\ Len(line) \in Nat /\ Len(rest) \in Nat /\ p \in Nat /\ q \in Nat /\ p < q
        /\ Len(line) = Len(rest) + d /\ DOMAIN line = 1 .. Len(line) /\ DOMAIN rest = 1 .. Len(rest)
        /\ \A k \in 1 .. p - 1 : rest[k] = line[k]
        /\ \A k \in 1 .. q - 1 : line[k] # "close"
        /\ \A k \in p .. Len(rest) : rest[k] = line[k + d]
        /\ line[q] = "close"
    BY <2>1, <2>2 DEF Text, Removes
  <2>4. PICK b \in 1 .. Len(rest) :
          /\ rest[b] = "close"
          /\ \E a \in 0 .. b - 1 : /\ a = 0 \/ rest[a] = "close"
                                   /\ \A k \in a + 1 .. b - 1 : rest[k] \notin {"open", "close"}
    BY <2>2, <2>3 DEF HasStray
  <2>5. PICK a \in 0 .. b - 1 : /\ a = 0 \/ rest[a] = "close"
                                /\ \A k \in a + 1 .. b - 1 : rest[k] \notin {"open", "close"}
    BY <2>4
  <2>6. \A k \in 1 .. p - 1 : rest[k] # "close"
    <3>1. \A k \in 1 .. p - 1 : k \in 1 .. q - 1
      BY <2>3
    <3> QED BY <2>3, <3>1
  <2>7. b \in p .. Len(rest) /\ b + d \in 1 .. Len(line)
    BY <2>3, <2>4, <2>6
  <2>8. line[b + d] = "close"
    BY <2>3, <2>4, <2>7
  <2>9. CASE a >= p
    <3>1. a \in p .. Len(rest) /\ a + d \in 0 .. (b + d) - 1
      BY <2>3, <2>7, <2>9
    <3>2. line[a + d] = "close"
      BY <2>3, <2>5, <2>9, <3>1
    <3>3. ASSUME NEW k \in (a + d) + 1 .. (b + d) - 1 PROVE line[k] \notin {"open", "close"}
      <4>1. k - d \in a + 1 .. b - 1 /\ k - d \in p .. Len(rest) /\ (k - d) + d = k
        BY <2>3, <2>7, <2>9, <3>1
      <4> QED BY <2>3, <2>5, <4>1
    <3> QED BY <2>3, <2>7, <2>8, <3>1, <3>2, <3>3 DEF HasStray
  <2>10. CASE a < p
    <3>1. a = 0
      BY <2>3, <2>5, <2>6, <2>10
    <3>2. q \in 0 .. (b + d) - 1
      BY <2>3, <2>7
    <3>3. ASSUME NEW k \in q + 1 .. (b + d) - 1 PROVE line[k] \notin {"open", "close"}
      <4>1. k - d \in a + 1 .. b - 1 /\ k - d \in p .. Len(rest) /\ (k - d) + d = k
        BY <2>3, <2>7, <3>1, <3>2
      <4> QED BY <2>3, <2>5, <4>1
    <3> QED BY <2>3, <2>7, <2>8, <3>2, <3>3 DEF HasStray
  <2> QED BY <2>3, <2>9, <2>10
<1> QED BY <1>1, <1>2
-----------------------------------------------------------------------------
(* All passes.                                                             *)

\* A line without a comment and without a stray mark has no closing parenthesis.
LEMMA Clean ==
  ASSUME NEW line \in Text, ~HasComment(line), ~HasStray(line)
  PROVE  \A i \in DOMAIN line : line[i] # "close"
<1>1. Len(line) \in Nat /\ DOMAIN line = 1 .. Len(line)
  BY DEF Text
<1> SUFFICES ASSUME \E i \in DOMAIN line : line[i] = "close" PROVE FALSE
  OBVIOUS
<1> DEFINE p == Position(line, "open")
           q == Position(line, "close")
<1>2. /\ p \in 0 .. Len(line) /\ (p = 0 => \A i \in 1 .. Len(line) : line[i] # "open")
      /\ p > 0 => \A i \in 1 .. p - 1 : line[i] # "open"
      /\ q \in 0 .. Len(line) /\ (q = 0 => \A i \in 1 .. Len(line) : line[i] # "close")
      /\ q > 0 => line[q] = "close" /\ \A i \in 1 .. q - 1 : line[i] # "close"
  BY PositionIs
<1>3. p = 0 \/ q <= p
  BY <1>2 DEF HasComment
<1> HIDE DEF p, q
<1>4. q \in 1 .. Len(line) /\ line[q] = "close"
  BY <1>1, <1>2
<1>5. \A k \in 0 + 1 .. q - 1 : line[k] \notin {"open", "close"}
  <2>1. CASE p = 0
    <3>1. \A k \in 0 + 1 .. q - 1 : k \in 1 .. Len(line) /\ k \in 1 .. q - 1
      BY <1>1, <1>4
    <3> QED BY <1>2, <1>4, <2>1, <3>1
  <2>2. CASE p > 0
    <3>1. \A k \in 0 + 1 .. q - 1 : k \in 1 .. p - 1 /\ k \in 1 .. q - 1
      BY <1>1, <1>2, <1>3, <1>4, <2>2
    <3> QED BY <1>2, <1>4, <2>2, <3>1
  <2> QED BY <1>1, <1>2, <2>1, <2>2
<1>6. 0 \in 0 .. q - 1 /\ q \in DOMAIN line
  BY <1>1, <1>4
<1> QED BY <1>4, <1>5, <1>6 DEF HasStray

\* The first n passes over a line.
IsPasses(pass, line, n) ==
  pass = [k \in 0 .. n |-> IF k = 0 THEN CutAtSemicolon(line) ELSE RemoveComment(pass[k - 1])]

\* The recursive function of StripComments exists.
LEMMA PassesExist ==
  ASSUME NEW line
  PROVE  \A n \in Nat : \E pass : IsPasses(pass, line, n)
<1> DEFINE S == {n \in Nat : \E pass : IsPasses(pass, line, n)}
<1>1. 0 \in S
  <2>1. IsPasses([k \in 0 .. 0 |-> CutAtSemicolon(line)], line, 0)
    BY DEF IsPasses
  <2> QED BY <2>1
<1>2. ASSUME NEW n \in Nat, n \in S PROVE n + 1 \in S
  <2>1. PICK pass : IsPasses(pass, line, n)
    BY <1>2
  <2> DEFINE next == [k \in 0 .. n + 1 |-> IF k = n + 1 THEN RemoveComment(pass[n]) ELSE pass[k]]
  <2>2. \A k \in 0 .. n : pass[k] = IF k = 0 THEN CutAtSemicolon(line) ELSE RemoveComment(pass[k - 1])
    BY <2>1 DEF IsPasses
  <2>3. \A k \in 0 .. n : next[k] = pass[k]
    OBVIOUS
  <2>4. ASSUME NEW k \in 0 .. n + 1
        PROVE  next[k] = IF k = 0 THEN CutAtSemicolon(line) ELSE RemoveComment(next[k - 1])
    <3>1. CASE k = n + 1
      <4>1. next[k] = RemoveComment(pass[n]) /\ k - 1 = n /\ k # 0 /\ n \in 0 .. n
        BY <3>1
      <4> HIDE DEF next
      <4> QED BY <2>3, <4>1
    <3>2. CASE k \in 1 .. n
      <4>1. k \in 0 .. n /\ k - 1 \in 0 .. n /\ k # 0
        BY <3>2
      <4> HIDE DEF next
      <4> QED BY <2>2, <2>3, <4>1
    <3>3. CASE k = 0
      <4>1. k \in 0 .. n
        BY <3>3
      <4> HIDE DEF next
      <4> QED BY <2>2, <2>3, <3>3, <4>1
    <3> QED BY <3>1, <3>2, <3>3
  <2>5. next = [k \in 0 .. n + 1 |-> next[k]]
    OBVIOUS
  <2> HIDE DEF next
  <2>6. IsPasses(next, line, n + 1)
    BY <2>4, <2>5 DEF IsPasses
  <2> QED BY <2>6
<1> HIDE DEF S
<1>3. Nat \subseteq S
  BY <1>1, <1>2, SetInduction
<1> QED BY <1>3 DEF S

\* StripComments is the last of the passes.
LEMMA StripIs ==
  ASSUME NEW line \in Text
  PROVE  \E pass : IsPasses(pass, line, Len(line)) /\ StripComments(line) = pass[Len(line)]
<1>1. Len(line) \in Nat
  BY DEF Text
<1>2. \E pass : IsPasses(pass, line, Len(line))
  BY <1>1, PassesExist
<1> DEFINE pass == CHOOSE f : IsPasses(f, line, Len(line))
<1>3. IsPasses(pass, line, Len(line))
  BY <1>2
<1>4. StripComments(line) = pass[Len(line)]
  BY DEF StripComments, IsPasses
<1> QED BY <1>3, <1>4

\* After n passes the commands outside comments are the same, no mark has become
\* a stray one, and either no comment is left or the line has become shorter by n.
LEMMA AfterPasses ==
  ASSUME NEW line \in Text, NEW pass, IsPasses(pass, line, Len(line))
  PROVE  \A n \in 0 .. Len(line) :
           /\ pass[n] \in Text
           /\ HasStray(pass[n]) => HasStray(CutAtSemicolon(line))
           /\ Outside(pass[n]) <=> Outside(CutAtSemicolon(line))
           /\ ~HasComment(pass[n]) \/ Len(pass[n]) + n <= Len(line)
<1> DEFINE Good(n) == /\ pass[n] \in Text
                      /\ HasStray(pass[n]) => HasStray(CutAtSemicolon(line))
                      /\ Outside(pass[n]) <=> Outside(CutAtSemicolon(line))
                      /\ ~HasComment(pass[n]) \/ Len(pass[n]) + n <= Len(line)
           S == {n \in Nat : n <= Len(line) => Good(n)}
<1>1. Len(line) \in Nat
  BY DEF Text
<1>2. /\ pass[0] = CutAtSemicolon(line)
      /\ \A n \in 1 .. Len(line) : pass[n] = RemoveComment(pass[n - 1])
  BY <1>1 DEF IsPasses
<1>3. 0 \in S
  <2>1. Len(CutAtSemicolon(line)) + 0 <= Len(line)
    BY <1>1, CutIs DEF Text
  <2> QED BY <1>2, <2>1, CutIs
<1>4. ASSUME NEW n \in Nat, n \in S PROVE n + 1 \in S
  <2> SUFFICES ASSUME n + 1 <= Len(line) PROVE Good(n + 1)
    <3> HIDE DEF Good
    <3>1. (n + 1 <= Len(line) => Good(n + 1)) => n + 1 \in S
      OBVIOUS
    <3> QED BY <3>1
  <2>1. Good(n)
    <3> HIDE DEF Good
    <3> QED BY <1>1, <1>4
  <2>2. pass[n + 1] = RemoveComment(pass[n])
    <3>1. n + 1 \in 1 .. Len(line) /\ (n + 1) - 1 = n
      BY <1>1
    <3> QED BY <1>2, <3>1
  <2>3. PICK before, after : before = pass[n] /\ after = pass[n + 1]
    OBVIOUS
  <2>4. before \in Text /\ after = RemoveComment(before)
    BY <2>1, <2>2, <2>3
  <2>5. /\ after \in Text
        /\ ~HasComment(after) \/ Len(after) + (n + 1) <= Len(line)
    <3>1. CASE ~HasComment(before)
      BY <2>4, <3>1, NoRemoval
    <3>2. CASE HasComment(before)
      <4>1. PICK p \in 1 .. Len(before), q \in 1 .. Len(before) : Removes(before, after, p, q)
        BY <2>4, <3>2, RemoveIs
      <4>2. /\ Len(before) \in Nat /\ Len(after) \in Nat /\ p < q /\ after \in Text
            /\ Len(after) = Len(before) - (q - p + 1)
        BY <2>4, <4>1 DEF Text, Removes
      <4>3. Len(before) + n <= Len(line)
        BY <2>1, <2>3, <3>2
      <4> QED BY <1>1, <4>2, <4>3
    <3> QED BY <3>1, <3>2
  <2>6. HasStray(after) => HasStray(before)
    BY <2>4, KeepsStray
  <2>7. Outside(after) <=> Outside(before)
    BY <2>4, KeepsOutside
  <2> QED BY <2>1, <2>3, <2>5, <2>6, <2>7
<1> HIDE DEF S
<1>5. Nat \subseteq S
  BY <1>3, <1>4, SetInduction
<1>6. \A n \in 0 .. Len(line) : n \in Nat /\ n \in S /\ n <= Len(line)
  BY <1>1, <1>5
<1> QED BY <1>6 DEF S

\* What the passes leave: no comment, the commands a reader sees outside comments,
\* and no stray mark that was not there.
LEMMA StripKeeps ==
  ASSUME NEW line \in Text
  PROVE  /\ StripComments(line) \in Text /\ ~HasComment(StripComments(line))
         /\ HasStray(StripComments(line)) => HasStray(CutAtSemicolon(line))
         /\ Outside(StripComments(line)) <=> CommandOutside(line)
<1>1. PICK pass : IsPasses(pass, line, Len(line)) /\ StripComments(line) = pass[Len(line)]
  BY StripIs
<1>2. Len(line) \in 0 .. Len(line) /\ Len(line) \in Nat
  BY DEF Text
<1>3. PICK last : last = pass[Len(line)]
  OBVIOUS
<1>4. /\ last \in Text
      /\ HasStray(last) => HasStray(CutAtSemicolon(line))
      /\ Outside(last) <=> Outside(CutAtSemicolon(line))
      /\ ~HasComment(last) \/ Len(last) + Len(line) <= Len(line)
  BY <1>1, <1>2, <1>3, AfterPasses
<1>5. ~HasComment(last)
  <2>1. CASE Len(last) = 0
    <3>1. Position(last, "close") = 0 /\ Position(last, "open") = 0
      BY <1>4, <2>1, PositionIs
    <3> QED BY <3>1 DEF HasComment
  <2>2. CASE Len(last) # 0
    <3>1. Len(last) \in Nat
      BY <1>4 DEF Text
    <3> QED BY <1>2, <1>4, <2>2, <3>1
  <2> QED BY <2>1, <2>2
<1>6. CommandOutside(line) <=> Outside(CutAtSemicolon(line))
  BY DEF CommandOutside, Outside
<1> QED BY <1>1, <1>3, <1>4, <1>5, <1>6

\* The loop of stripComments ends, on a line without a comment that it would still
\* remove: as many passes as the line has words are always enough.
THEOREM PassesSuffice ==
  \A line \in Seq(Tokens) : RemoveComment(StripComments(line)) = StripComments(line)
  BY StripKeeps, NoRemoval DEF Text

\* stripComments never removes a command outside the comments: ParseLine finds the
\* command of every line, whatever marks are left open or closed twice in it.
THEOREM NoCommandDropped ==
  \A line \in Seq(Tokens) : CommandOutside(line) => HasCommand(line)
  BY StripKeeps DEF Text, HasCommand, Outside

\* ParseLine finds a command in a line exactly if a reader does: never in a comment,
\* and never missing one between two comments, in a line of any length without a
\* closing parenthesis that nothing opens.
THEOREM VerdictIsRight ==
  \A line \in Seq(Tokens) :
    ~HasStray(CutAtSemicolon(line)) => (HasCommand(line) <=> CommandOutside(line))
<1> SUFFICES ASSUME NEW line \in Text, ~HasStray(CutAtSemicolon(line)), HasCommand(line)
             PROVE  CommandOutside(line)
  BY NoCommandDropped DEF Text
<1>1. PICK last : last = StripComments(line)
  OBVIOUS
<1>2. /\ last \in Text /\ ~HasComment(last) /\ ~HasStray(last)
      /\ Outside(last) <=> CommandOutside(line)
  BY <1>1, StripKeeps
<1>3. \A i \in DOMAIN last : last[i] # "close"
  BY <1>2, Clean
<1>4. \A i \in DOMAIN last : \A b \in i + 1 .. Len(last) : b \in DOMAIN last
  BY <1>2 DEF Text
<1>5. \A i \in DOMAIN last : ~InParentheses(last, i)
  BY <1>3, <1>4 DEF InParentheses
<1> QED BY <1>1, <1>2, <1>5 DEF HasCommand, Outside
=============================================================================
