--------------------------- MODULE MessagePathProofs ---------------------------
(****************************************************************************)
(* Proofs about the way of a message, for all lines and names and for all   *)
(* sizes of the buffers that stand to each other as those of the code do.   *)
(****************************************************************************)
EXTENDS MessagePath, NaturalsInduction, WellFoundedInduction, SequenceTheorems, TLAPS

-----------------------------------------------------------------------------
(****************************************************************************)
(* Induction, for a set of numbers.                                         *)
(****************************************************************************)
LEMMA LeastExists ==
  ASSUME NEW S \in SUBSET Nat, S # {}
  PROVE  \E x \in S : \A y \in S : x <= y
<1>1. PICK x \in S : \A y \in S : ~(<<y, x>> \in OpToRel(<, Nat))
  BY NatLessThanWellFounded, WFMin, Zenon
<1>2. \A y \in S : x <= y
  <2> SUFFICES ASSUME NEW y \in S PROVE x <= y
    OBVIOUS
  <2>1. ~(y < x)
    BY <1>1 DEF OpToRel
  <2> QED BY <2>1
<1> QED BY <1>2

\* The least element of a set of numbers.
LEMMA MinIsLeast ==
  ASSUME NEW S \in SUBSET Nat, S # {}
  PROVE  Min(S) \in S /\ \A y \in S : Min(S) <= y
BY LeastExists DEF Min

\* What holds of 0 and of each next number holds up to any bound.
LEMMA CountingUp ==
  ASSUME NEW N \in Nat, NEW S, 0 \in S, \A k \in 0 .. N - 1 : k \in S => k + 1 \in S
  PROVE  \A k \in 0 .. N : k \in S
<1> SUFFICES ASSUME NEW b \in 0 .. N, b \notin S PROVE FALSE
  OBVIOUS
<1> DEFINE Missing == {k \in 0 .. N : k \notin S}
<1>1. Missing \in SUBSET Nat /\ Missing # {}
  OBVIOUS
<1>2. PICK x \in Missing : \A y \in Missing : x <= y
  <2> HIDE DEF Missing
  <2> QED BY <1>1, LeastExists
<1>3. x \in 0 .. N /\ x \notin S /\ x # 0
  BY <1>2
<1>4. x - 1 \in 0 .. N - 1 /\ x - 1 \in 0 .. N /\ ~(x <= x - 1) /\ x - 1 + 1 = x
  BY <1>3
<1>5. x - 1 \in S
  BY <1>2, <1>4
<1>6. x - 1 + 1 \in S
  BY <1>4, <1>5
<1> QED BY <1>3, <1>4, <1>6

-----------------------------------------------------------------------------
(****************************************************************************)
(* The lengths of texts.                                                    *)
(****************************************************************************)
\* Before is what its recursive definition says.
IsSum(f, text, n) == f = [k \in 0 .. n |-> IF k = 0 THEN 0 ELSE f[k - 1] + text[k].len + 1]

\* Such a function exists, for texts of any length.
LEMMA SumExists ==
  ASSUME NEW text, NEW N \in Nat
  PROVE  \E f : IsSum(f, text, N)
<1> DEFINE S == {n \in 0 .. N : \E f : IsSum(f, text, n)}
<1>1. 0 \in S
  <2>1. PICK f : f = [k \in 0 .. 0 |-> 0]
    OBVIOUS
  <2>2. IsSum(f, text, 0)
    BY <2>1 DEF IsSum
  <2> QED BY <2>2
<1>2. ASSUME NEW n \in 0 .. N - 1, n \in S PROVE n + 1 \in S
  <2>1. PICK f : IsSum(f, text, n)
    BY <1>2
  <2>2. PICK g : g = [k \in 0 .. n + 1 |-> IF k = n + 1 THEN f[n] + text[n + 1].len + 1 ELSE f[k]]
    OBVIOUS
  <2>3. \A k \in 0 .. n : f[k] = IF k = 0 THEN 0 ELSE f[k - 1] + text[k].len + 1
    BY <2>1 DEF IsSum
  <2>4. /\ \A k \in 0 .. n : g[k] = f[k]
        /\ g[n + 1] = f[n] + text[n + 1].len + 1
        /\ DOMAIN g = 0 .. n + 1
    BY <2>2
  <2>5. ASSUME NEW k \in 0 .. n + 1
        PROVE  g[k] = IF k = 0 THEN 0 ELSE g[k - 1] + text[k].len + 1
    <3>1. CASE k = n + 1
      <4>1. k # 0 /\ k - 1 = n /\ n \in 0 .. n
        BY <3>1
      <4> QED BY <2>4, <3>1, <4>1
    <3>2. CASE k = 0
      BY <2>3, <2>4, <3>2
    <3>3. CASE k # n + 1 /\ k # 0
      <4>1. k \in 0 .. n /\ k - 1 \in 0 .. n
        BY <3>3
      <4>2. g[k] = f[k] /\ g[k - 1] = f[k - 1]
        BY <2>4, <4>1
      <4> QED BY <2>3, <3>3, <4>1, <4>2
    <3> QED BY <3>1, <3>2, <3>3
  <2>6. IsSum(g, text, n + 1)
    <3>1. g = [k \in 0 .. n + 1 |-> g[k]]
      BY <2>2
    <3> QED BY <2>5, <3>1 DEF IsSum
  <2>7. n + 1 \in 0 .. N
    OBVIOUS
  <2> QED BY <2>6, <2>7
<1> HIDE DEF S
<1>3. \A n \in 0 .. N : n \in S
  BY <1>1, <1>2, CountingUp
<1>4. N \in S
  BY <1>3
<1> QED BY <1>4 DEF S

\* What stands before a word, word by word.
LEMMA BeforeSteps ==
  ASSUME NEW text \in Seq(Word)
  PROVE  /\ Before(text, 1) = 0
         /\ \A i \in DOMAIN text : Before(text, i + 1) = Before(text, i) + text[i].len + 1
<1> DEFINE f == CHOOSE f : IsSum(f, text, Len(text))
<1>1. IsSum(f, text, Len(text))
  <2>1. \E g : IsSum(g, text, Len(text))
    BY SumExists
  <2> QED BY <2>1
<1>2. \A i : Before(text, i) = f[i - 1]
  BY DEF Before, IsSum
<1> HIDE DEF f
<1>3. \A k \in 0 .. Len(text) : f[k] = IF k = 0 THEN 0 ELSE f[k - 1] + text[k].len + 1
  BY <1>1 DEF IsSum
<1>4. Before(text, 1) = 0
  <2>1. 0 \in 0 .. Len(text) /\ 1 - 1 = 0
    OBVIOUS
  <2> QED BY <1>2, <1>3, <2>1
<1>5. ASSUME NEW i \in DOMAIN text
      PROVE  Before(text, i + 1) = Before(text, i) + text[i].len + 1
  <2>1. i \in 0 .. Len(text) /\ i # 0 /\ i + 1 - 1 = i
    OBVIOUS
  <2>2. f[i] = f[i - 1] + text[i].len + 1
    BY <1>3, <2>1
  <2> QED BY <1>2, <2>1, <2>2
<1> QED BY <1>4, <1>5

\* What stands before a word is at least every word before it and its space.
LEMMA BeforeGrows ==
  ASSUME NEW text \in Seq(Word)
  PROVE  /\ \A i \in 1 .. Len(text) + 1 : Before(text, i) \in Nat
         /\ \A i \in DOMAIN text : text[i].len \in Nat
         /\ \A j \in 1 .. Len(text) + 1 : \A i \in 1 .. j - 1 :
              Before(text, i) + text[i].len + 1 <= Before(text, j)
<1> DEFINE Below(i, j) == /\ Before(text, i) \in Nat
                          /\ Before(text, i) + text[i].len + 1 <= Before(text, j)
           Above(j) == \A i \in 1 .. j - 1 : Below(i, j)
           S == {n \in 0 .. Len(text) : Before(text, n + 1) \in Nat /\ Above(n + 1)}
<1>1. ASSUME NEW i \in DOMAIN text PROVE text[i].len \in Nat
  <2>1. text[i] \in Word
    OBVIOUS
  <2> QED BY <2>1 DEF Word
<1>2. 0 \in S
  <2>1. 0 \in 0 .. Len(text) /\ 0 + 1 = 1 /\ 1 .. 1 - 1 = {}
    OBVIOUS
  <2> QED BY <2>1, BeforeSteps
<1>3. ASSUME NEW n \in 0 .. Len(text) - 1, n \in S PROVE n + 1 \in S
  <2>1. /\ n + 1 \in DOMAIN text
        /\ n + 1 \in 0 .. Len(text)
        /\ \A i \in 1 .. n + 1 + 1 - 1 : i \in 1 .. n + 1 - 1 \/ i = n + 1
    OBVIOUS
  <2>2. Before(text, n + 1 + 1) = Before(text, n + 1) + text[n + 1].len + 1
    BY <2>1, BeforeSteps
  <2>3. text[n + 1].len \in Nat
    BY <1>1, <2>1
  <2>4. Before(text, n + 1) \in Nat /\ Above(n + 1)
    BY <1>3
  <2>5. Before(text, n + 1 + 1) \in Nat
    BY <2>2, <2>3, <2>4
  <2>6. ASSUME NEW i \in 1 .. n + 1 + 1 - 1
        PROVE  Below(i, n + 1 + 1)
    <3>1. CASE i = n + 1
      BY <2>2, <2>4, <2>5, <3>1
    <3>2. CASE i \in 1 .. n + 1 - 1
      <4>1. Below(i, n + 1)
        BY <2>4, <3>2
      <4>2. Before(text, n + 1) <= Before(text, n + 1 + 1)
        BY <2>2, <2>3, <2>4
      <4>3. i \in 1 .. Len(text) /\ i \in DOMAIN text
        BY <3>2
      <4>4. text[i].len \in Nat
        BY <1>1, <4>3
      <4> QED BY <2>4, <2>5, <4>1, <4>2, <4>4
    <3> QED BY <2>1, <3>1, <3>2
  <2> QED BY <2>1, <2>5, <2>6
<1> HIDE DEF S
<1>4. \A n \in 0 .. Len(text) : n \in S
  BY <1>2, <1>3, CountingUp
<1>5. \A j \in 1 .. Len(text) + 1 : Before(text, j) \in Nat /\ Above(j)
  <2> SUFFICES ASSUME NEW j \in 1 .. Len(text) + 1
               PROVE  Before(text, j) \in Nat /\ Above(j)
    OBVIOUS
  <2>1. j - 1 \in 0 .. Len(text) /\ j - 1 + 1 = j
    OBVIOUS
  <2>2. j - 1 \in S
    BY <1>4, <2>1
  <2> QED BY <2>1, <2>2 DEF S
<1> QED BY <1>1, <1>5

\* Shorter words take less room.
LEMMA BeforeShorter ==
  ASSUME NEW s \in Seq(Word), NEW t \in Seq(Word), NEW N \in Nat,
         N <= Len(s), N <= Len(t), \A i \in 1 .. N : s[i].len <= t[i].len
  PROVE  \A j \in 1 .. N + 1 : Before(s, j) <= Before(t, j)
<1> DEFINE S == {n \in 0 .. N : Before(s, n + 1) <= Before(t, n + 1)}
<1>1. 0 \in S
  <2>1. 0 \in 0 .. N /\ 0 + 1 = 1
    OBVIOUS
  <2> QED BY <2>1, BeforeSteps
<1>2. ASSUME NEW n \in 0 .. N - 1, n \in S PROVE n + 1 \in S
  <2>1. /\ n + 1 \in DOMAIN s /\ n + 1 \in DOMAIN t /\ n + 1 \in 0 .. N /\ n + 1 \in 1 .. N
        /\ n + 1 \in 1 .. Len(s) + 1 /\ n + 1 \in 1 .. Len(t) + 1
    OBVIOUS
  <2>2. /\ Before(s, n + 1 + 1) = Before(s, n + 1) + s[n + 1].len + 1
        /\ Before(t, n + 1 + 1) = Before(t, n + 1) + t[n + 1].len + 1
    BY <2>1, BeforeSteps
  <2>3. /\ Before(s, n + 1) \in Nat /\ Before(t, n + 1) \in Nat
        /\ s[n + 1].len \in Nat /\ t[n + 1].len \in Nat
    BY <2>1, BeforeGrows
  <2>4. s[n + 1].len <= t[n + 1].len /\ Before(s, n + 1) <= Before(t, n + 1)
    BY <1>2, <2>1
  <2>5. Before(s, n + 1 + 1) <= Before(t, n + 1 + 1)
    <3>1. PICK a \in Nat, b \in Nat, c \in Nat, d \in Nat :
            /\ a = Before(s, n + 1) /\ b = Before(t, n + 1)
            /\ c = s[n + 1].len /\ d = t[n + 1].len
      BY <2>3
    <3>2. a <= b /\ c <= d
      BY <2>4, <3>1
    <3>3. a + c + 1 <= b + d + 1
      BY <3>2
    <3> QED BY <2>2, <3>1, <3>3
  <2> QED BY <2>1, <2>5
<1> HIDE DEF S
<1>3. \A n \in 0 .. N : n \in S
  BY <1>1, <1>2, CountingUp
<1> SUFFICES ASSUME NEW j \in 1 .. N + 1 PROVE Before(s, j) <= Before(t, j)
  OBVIOUS
<1>4. j - 1 \in 0 .. N /\ j - 1 + 1 = j
  OBVIOUS
<1>5. j - 1 \in S
  BY <1>3, <1>4
<1> QED BY <1>4, <1>5 DEF S

\* Where the words are the same, what stands before them is the same.
LEMMA BeforeSame ==
  ASSUME NEW s \in Seq(Word), NEW t \in Seq(Word), NEW N \in Nat,
         N <= Len(s), N <= Len(t), \A i \in 1 .. N : s[i].len = t[i].len
  PROVE  \A j \in 1 .. N + 1 : Before(s, j) = Before(t, j)
<1>1. /\ \A i \in 1 .. N : s[i].len \in Nat /\ t[i].len \in Nat
      /\ \A j \in 1 .. N + 1 : Before(s, j) \in Nat /\ Before(t, j) \in Nat
  BY BeforeGrows
<1>2. \A i \in 1 .. N : s[i].len <= t[i].len /\ t[i].len <= s[i].len
  BY <1>1
<1>3. \A j \in 1 .. N + 1 : Before(s, j) <= Before(t, j) /\ Before(t, j) <= Before(s, j)
  BY <1>2, BeforeShorter
<1> QED BY <1>1, <1>3

\* Every word of a text ends within its length.
LEMMA LengthBounds ==
  ASSUME NEW text \in Seq(Word)
  PROVE  /\ Length(text) \in Nat
         /\ \A i \in DOMAIN text : /\ Before(text, i) \in Nat /\ text[i].len \in Nat
                                   /\ Before(text, i) + text[i].len <= Length(text)
<1>1. CASE text = <<>>
  BY <1>1 DEF Length
<1>2. CASE text # <<>>
  <2>1. PICK n \in Nat : n = Len(text)
    OBVIOUS
  <2>2. n \in DOMAIN text /\ Length(text) = Before(text, n) + text[n].len
    BY <1>2, <2>1 DEF Length
  <2>3. Before(text, n) \in Nat /\ text[n].len \in Nat
    BY <2>1, <2>2, BeforeGrows
  <2>4. Length(text) \in Nat
    BY <2>2, <2>3
  <2>5. ASSUME NEW i \in DOMAIN text
        PROVE  /\ Before(text, i) \in Nat /\ text[i].len \in Nat
               /\ Before(text, i) + text[i].len <= Length(text)
    <3>1. Before(text, i) \in Nat /\ text[i].len \in Nat
      BY BeforeGrows
    <3>2. CASE i = n
      BY <2>2, <2>3, <3>1, <3>2
    <3>3. CASE i # n
      <4>1. i \in 1 .. n - 1 /\ n \in 1 .. Len(text) + 1
        BY <2>1, <3>3
      <4>2. Before(text, i) + text[i].len + 1 <= Before(text, n)
        BY <4>1, BeforeGrows
      <4> QED BY <2>2, <2>3, <3>1, <4>2
    <3> QED BY <3>2, <3>3
  <2> QED BY <2>4, <2>5
<1> QED BY <1>1, <1>2

\* A text of fewer and shorter words is shorter.
LEMMA LengthShorter ==
  ASSUME NEW s \in Seq(Word), NEW t \in Seq(Word),
         Len(s) <= Len(t), \A i \in DOMAIN s : s[i].len <= t[i].len
  PROVE  Length(s) <= Length(t)
<1>1. CASE s = <<>>
  BY <1>1, LengthBounds DEF Length
<1>2. CASE s # <<>>
  <2>1. PICK n \in Nat : n = Len(s)
    OBVIOUS
  <2>2. /\ n \in DOMAIN s /\ n \in DOMAIN t /\ n \in 1 .. n + 1
        /\ Length(s) = Before(s, n) + s[n].len
    BY <1>2, <2>1 DEF Length
  <2>3. Before(s, n) <= Before(t, n)
    <3>1. \A i \in 1 .. n : s[i].len <= t[i].len
      BY <2>1
    <3>2. n <= Len(s) /\ n <= Len(t)
      BY <2>1
    <3>3. \A j \in 1 .. n + 1 : Before(s, j) <= Before(t, j)
      BY <3>1, <3>2, BeforeShorter
    <3> QED BY <2>2, <3>3
  <2>4. /\ Before(s, n) \in Nat /\ s[n].len \in Nat
        /\ Before(t, n) \in Nat /\ t[n].len \in Nat
        /\ Before(t, n) + t[n].len <= Length(t) /\ Length(t) \in Nat
    BY <2>2, LengthBounds
  <2>5. s[n].len <= t[n].len
    BY <2>2
  <2> QED BY <2>2, <2>3, <2>4, <2>5
<1> QED BY <1>1, <1>2

\* A word in front of a text.
LEMMA OneMore ==
  ASSUME NEW w \in Word, NEW s \in Seq(Word)
  PROVE  /\ <<w>> \o s \in Seq(Word) /\ Len(<<w>> \o s) = Len(s) + 1 /\ (<<w>> \o s)[1] = w
         /\ \A i \in DOMAIN s : (<<w>> \o s)[i + 1] = s[i]
<1>1. <<w>> \in Seq(Word) /\ Len(<<w>>) = 1 /\ <<w>>[1] = w
  OBVIOUS
<1>2. PICK t : t = <<w>> \o s
  OBVIOUS
<1>3. /\ t \in Seq(Word) /\ Len(t) = 1 + Len(s)
      /\ \A i \in 1 .. 1 + Len(s) : t[i] = IF i <= 1 THEN <<w>>[i] ELSE s[i - 1]
  BY <1>1, <1>2, ConcatProperties
<1>4. ASSUME NEW i \in DOMAIN s PROVE t[i + 1] = s[i]
  <2>1. i + 1 \in 1 .. 1 + Len(s) /\ ~(i + 1 <= 1) /\ i + 1 - 1 = i
    OBVIOUS
  <2> QED BY <1>3, <2>1
<1>5. t[1] = w /\ Len(t) = Len(s) + 1
  <2>1. 1 \in 1 .. 1 + Len(s) /\ 1 <= 1
    OBVIOUS
  <2> QED BY <1>1, <1>3, <2>1
<1> QED BY <1>2, <1>3, <1>4, <1>5

\* A word more adds its length and a space.
LEMMA LengthOneMore ==
  ASSUME NEW w \in Word, NEW s \in Seq(Word)
  PROVE  Length(<<w>> \o s) <= w.len + 1 + Length(s)
<1>1. PICK t \in Seq(Word) : t = <<w>> \o s
  BY OneMore
<1>2. /\ Len(t) = Len(s) + 1 /\ t[1] = w /\ 1 \in DOMAIN t
      /\ \A i \in DOMAIN s : i + 1 \in DOMAIN t /\ t[i + 1] = s[i]
  <2>1. Len(t) = Len(s) + 1 /\ t[1] = w /\ \A i \in DOMAIN s : t[i + 1] = s[i]
    BY <1>1, OneMore
  <2> QED BY <2>1
<1>3. w.len \in Nat
  BY DEF Word
<1> DEFINE S == {n \in 0 .. Len(s) : Before(t, n + 1 + 1) = w.len + 1 + Before(s, n + 1)}
<1>4. 0 \in S
  <2>1. Before(t, 1 + 1) = Before(t, 1) + t[1].len + 1 /\ Before(t, 1) = 0 /\ Before(s, 1) = 0
    BY <1>2, BeforeSteps
  <2>2. 0 \in 0 .. Len(s) /\ 0 + 1 = 1
    OBVIOUS
  <2> QED BY <1>2, <1>3, <2>1, <2>2
<1>5. ASSUME NEW n \in 0 .. Len(s) - 1, n \in S PROVE n + 1 \in S
  <2>1. n + 1 \in DOMAIN s /\ n + 1 \in 0 .. Len(s) /\ n + 1 \in 1 .. Len(s) + 1
    OBVIOUS
  <2>2. n + 1 + 1 \in DOMAIN t /\ t[n + 1 + 1] = s[n + 1]
    BY <1>2, <2>1
  <2>3. /\ Before(s, n + 1 + 1) = Before(s, n + 1) + s[n + 1].len + 1
        /\ Before(t, n + 1 + 1 + 1) = Before(t, n + 1 + 1) + s[n + 1].len + 1
    BY <2>1, <2>2, BeforeSteps
  <2>4. Before(s, n + 1) \in Nat /\ s[n + 1].len \in Nat
    BY <2>1, BeforeGrows
  <2>5. Before(t, n + 1 + 1) = w.len + 1 + Before(s, n + 1)
    BY <1>5
  <2>6. Before(t, n + 1 + 1 + 1) = w.len + 1 + Before(s, n + 1 + 1)
    BY <1>3, <2>3, <2>4, <2>5
  <2> QED BY <2>1, <2>6
<1>6. CASE s = <<>>
  <2>1. Length(t) = Before(t, 1) + t[1].len /\ Length(s) = 0
    BY <1>1, <1>6 DEF Length
  <2>2. Length(t) = w.len
    BY <1>2, <1>3, <2>1, BeforeSteps
  <2>3. Length(<<w>> \o s) = w.len
    BY <1>1, <2>2
  <2> QED BY <1>3, <2>1, <2>3
<1>7. CASE s # <<>>
  <2>1. PICK n \in Nat : n + 1 = Len(s)
    <3>1. Len(s) - 1 \in Nat /\ Len(s) - 1 + 1 = Len(s)
      BY <1>7
    <3> QED BY <3>1
  <2>2. \A k \in 0 .. Len(s) : k \in S
    <3>1. Len(s) \in Nat
      OBVIOUS
    <3> HIDE DEF S
    <3> QED BY <1>4, <1>5, <3>1, CountingUp
  <2>3. n \in S
    BY <2>1, <2>2
  <2>4. Before(t, n + 1 + 1) = w.len + 1 + Before(s, n + 1)
    BY <2>3
  <2>5. /\ Length(s) = Before(s, n + 1) + s[n + 1].len
        /\ Length(t) = Before(t, n + 1 + 1) + t[n + 1 + 1].len
    BY <1>2, <1>7, <2>1 DEF Length
  <2>6. n + 1 \in DOMAIN s
    BY <2>1
  <2>7. Before(s, n + 1) \in Nat /\ s[n + 1].len \in Nat /\ t[n + 1 + 1] = s[n + 1]
    BY <1>2, <2>6, LengthBounds
  <2>8. Length(t) = w.len + 1 + Length(s)
    BY <1>3, <2>4, <2>5, <2>7
  <2>9. Length(<<w>> \o s) = w.len + 1 + Length(s)
    BY <1>1, <2>8
  <2> QED BY <1>3, <2>5, <2>7, <2>9
<1> QED BY <1>6, <1>7

-----------------------------------------------------------------------------
(****************************************************************************)
(* What a buffer keeps of a text.                                           *)
(****************************************************************************)
\* A set of positions with all those before them is that of a sequence.
LEMMA InitialSegment ==
  ASSUME NEW n \in Nat, NEW S \in SUBSET (1 .. n), \A i \in S : \A j \in 1 .. i : j \in S
  PROVE  \E k \in 0 .. n : S = 1 .. k
<1> DEFINE Missing == (1 .. n + 1) \ S
<1>1. Missing \in SUBSET Nat /\ Missing # {}
  <2>1. n + 1 \in 1 .. n + 1 /\ n + 1 \notin 1 .. n
    OBVIOUS
  <2> QED BY <2>1
<1>2. PICK x \in Missing : \A y \in Missing : x <= y
  <2> HIDE DEF Missing
  <2> QED BY <1>1, LeastExists
<1>3. x \in 1 .. n + 1 /\ x \notin S
  BY <1>2
<1>4. ASSUME NEW i \in S PROVE i \in 1 .. x - 1
  <2>1. i \in 1 .. n /\ (x <= i => x \in 1 .. i)
    BY <1>3
  <2>2. ~(x <= i)
    BY <1>3, <2>1
  <2> QED BY <1>3, <2>1, <2>2
<1>5. ASSUME NEW i \in 1 .. x - 1 PROVE i \in S
  <2>1. i \in 1 .. n + 1 /\ ~(x <= i)
    BY <1>3
  <2> QED BY <1>2, <2>1
<1>6. x - 1 \in 0 .. n
  BY <1>3
<1>7. S = 1 .. x - 1
  BY <1>4, <1>5
<1> QED BY <1>6, <1>7

\* A word that is cut keeps what it stands for, and a short one is not changed.
LEMMA CutKeeps ==
  ASSUME NEW w \in Word, NEW n \in Nat
  PROVE  /\ Cut(w, n) \in Word /\ Cut(w, n).len <= n /\ Cut(w, n).len <= w.len
         /\ Cut(w, n).stem = w.stem /\ (w.len <= n => Cut(w, n) = w)
         /\ (n > 0 /\ w.len > 0 => Cut(w, n).len > 0)
<1>1. CASE w.len <= n
  BY <1>1 DEF Cut, Word
<1>2. CASE ~(w.len <= n)
  <2>1. PICK u : u = [w EXCEPT !.len = n, !.colon = IF w.colon > n THEN 0 ELSE w.colon,
                               !.dollar = FALSE]
    OBVIOUS
  <2>2. u \in Word /\ u.len = n /\ u.stem = w.stem
    BY <2>1 DEF Word
  <2>3. Cut(w, n) = u
    BY <1>2, <2>1 DEF Cut
  <2>4. w.len \in Nat
    BY DEF Word
  <2> QED BY <1>2, <2>2, <2>3, <2>4
<1> QED BY <1>1, <1>2

\* strncpy and snprintf make a text of a text.
LEMMA FitType ==
  ASSUME NEW text \in Seq(Word), NEW n \in Nat
  PROVE  Fit(text, n) \in Seq(Word)
<1> DEFINE begun == {i \in DOMAIN text : Before(text, i) < n - 1}
<1>1. \A i \in DOMAIN text : Before(text, i) \in Nat
  BY BeforeGrows
<1>2. ASSUME NEW i \in begun, NEW j \in 1 .. i PROVE j \in begun
  <2>1. i \in DOMAIN text /\ j \in DOMAIN text /\ Before(text, i) < n - 1
    OBVIOUS
  <2>2. i = j \/ j \in 1 .. i - 1
    BY <2>1
  <2>3. CASE j \in 1 .. i - 1
    <3>1. i \in 1 .. Len(text) + 1
      BY <2>1
    <3>2. Before(text, j) + text[j].len + 1 <= Before(text, i) /\ text[j].len \in Nat
      BY <2>1, <2>3, <3>1, BeforeGrows
    <3>3. Before(text, j) < n - 1
      BY <1>1, <2>1, <3>2
    <3> QED BY <2>1, <3>3
  <2> QED BY <2>1, <2>2, <2>3
<1>3. PICK k \in 0 .. Len(text) : begun = 1 .. k
  <2>1. begun \in SUBSET (1 .. Len(text)) /\ Len(text) \in Nat
    OBVIOUS
  <2> HIDE DEF begun
  <2> QED BY <1>2, <2>1, InitialSegment
<1>4. ASSUME NEW i \in 1 .. k PROVE Cut(text[i], n - 1 - Before(text, i)) \in Word
  <2>1. i \in DOMAIN text /\ Before(text, i) < n - 1
    BY <1>3
  <2>2. n - 1 - Before(text, i) \in Nat /\ text[i] \in Word
    BY <1>1, <2>1
  <2> QED BY <2>2, CutKeeps
<1>5. Fit(text, n) = [i \in 1 .. k |-> Cut(text[i], n - 1 - Before(text, i))]
  BY <1>3 DEF Fit
<1> QED BY <1>4, <1>5

\* A buffer that is large enough keeps all of it.
LEMMA FitWhole ==
  ASSUME NEW text \in Seq(Word), NEW n \in Nat, Length(text) < n - 1
  PROVE  Fit(text, n) = text
<1>1. ASSUME NEW i \in DOMAIN text
      PROVE  Before(text, i) < n - 1 /\ Cut(text[i], n - 1 - Before(text, i)) = text[i]
  <2>1. /\ Before(text, i) \in Nat /\ text[i].len \in Nat /\ Length(text) \in Nat
        /\ Before(text, i) + text[i].len <= Length(text)
    BY LengthBounds
  <2>2. Before(text, i) < n - 1 /\ text[i].len <= n - 1 - Before(text, i)
    BY <2>1
  <2> QED BY <2>2 DEF Cut
<1>2. {i \in DOMAIN text : Before(text, i) < n - 1} = DOMAIN text
  BY <1>1
<1>3. Fit(text, n) = [i \in DOMAIN text |-> text[i]]
  BY <1>1, <1>2 DEF Fit
<1> QED BY <1>3

-----------------------------------------------------------------------------
(****************************************************************************)
(* How a text is cut up.                                                    *)
(****************************************************************************)
\* The words of a text whose first dollar sign is removed, which may leave a word
\* of no letters.
Loose == [stem : Stem, nth : Nat, len : Int, colon : Nat, dollar : BOOLEAN]

\* Kept is what its recursive definition says.
IsKept(f, text, n) ==
  f = [k \in 0 .. n |-> IF k = 0 THEN <<>>
                        ELSE IF text[k].len > 0 THEN Append(f[k - 1], text[k]) ELSE f[k - 1]]
AddWord(s, w) == IF w.len > 0 THEN Append(s, w) ELSE s

\* Such a function exists, for texts of any length.
LEMMA KeptExists ==
  ASSUME NEW text, NEW N \in Nat
  PROVE  \E f : IsKept(f, text, N)
<1> DEFINE S == {n \in 0 .. N : \E f : IsKept(f, text, n)}
<1>1. 0 \in S
  <2>1. PICK f : f = [k \in 0 .. 0 |-> <<>>]
    OBVIOUS
  <2>2. IsKept(f, text, 0)
    BY <2>1 DEF IsKept
  <2> QED BY <2>2
<1>2. ASSUME NEW n \in 0 .. N - 1, n \in S PROVE n + 1 \in S
  <2>1. PICK f : IsKept(f, text, n)
    BY <1>2
  <2>2. PICK last : last = AddWord(f[n], text[n + 1])
    OBVIOUS
  <2>3. PICK g : g = [k \in 0 .. n + 1 |-> IF k = n + 1 THEN last ELSE f[k]]
    OBVIOUS
  <2>4. \A k \in 0 .. n : f[k] = IF k = 0 THEN <<>> ELSE AddWord(f[k - 1], text[k])
    BY <2>1 DEF IsKept, AddWord
  <2>5. /\ \A k \in 0 .. n : g[k] = f[k]
        /\ g[n + 1] = last
        /\ g = [k \in 0 .. n + 1 |-> g[k]]
    BY <2>3
  <2>6. ASSUME NEW k \in 0 .. n + 1
        PROVE  g[k] = IF k = 0 THEN <<>> ELSE AddWord(g[k - 1], text[k])
    <3>1. CASE k = n + 1
      <4>1. k # 0 /\ k - 1 = n /\ n \in 0 .. n
        BY <3>1
      <4> QED BY <2>2, <2>5, <3>1, <4>1
    <3>2. CASE k = 0
      <4>1. g[0] = f[0] /\ f[0] = <<>>
        <5>1. 0 \in 0 .. n
          OBVIOUS
        <5> QED BY <2>4, <2>5, <5>1
      <4> QED BY <3>2, <4>1
    <3>3. CASE k # n + 1 /\ k # 0
      <4>1. k \in 0 .. n /\ k - 1 \in 0 .. n
        BY <3>3
      <4>2. g[k] = f[k] /\ g[k - 1] = f[k - 1]
        BY <2>5, <4>1
      <4>3. f[k] = AddWord(f[k - 1], text[k])
        BY <2>4, <3>3, <4>1
      <4> QED BY <3>3, <4>2, <4>3
    <3> QED BY <3>1, <3>2, <3>3
  <2>7. IsKept(g, text, n + 1)
    <3>1. g = [k \in 0 .. n + 1 |-> IF k = 0 THEN <<>> ELSE AddWord(g[k - 1], text[k])]
      BY <2>5, <2>6
    <3> QED BY <3>1 DEF IsKept, AddWord
  <2>8. n + 1 \in 0 .. N
    OBVIOUS
  <2> QED BY <2>7, <2>8
<1> HIDE DEF S
<1>3. \A n \in 0 .. N : n \in S
  BY <1>1, <1>2, CountingUp
<1>4. N \in S
  BY <1>3
<1> QED BY <1>4 DEF S

\* strtok takes the words one by one.
LEMMA KeptSteps ==
  ASSUME NEW text \in Seq(Loose)
  PROVE  \E f : /\ Kept(text) = f[Len(text)]
                /\ f[0] = <<>>
                /\ \A k \in 1 .. Len(text) : f[k] = AddWord(f[k - 1], text[k])
<1> DEFINE f == CHOOSE f : IsKept(f, text, Len(text))
<1>1. IsKept(f, text, Len(text))
  <2>1. \E g : IsKept(g, text, Len(text))
    BY KeptExists
  <2> QED BY <2>1
<1>2. Kept(text) = f[Len(text)]
  BY DEF Kept, IsKept
<1> HIDE DEF f
<1>3. \A k \in 0 .. Len(text) : f[k] = IF k = 0 THEN <<>> ELSE AddWord(f[k - 1], text[k])
  BY <1>1 DEF IsKept, AddWord
<1>4. \A k \in 1 .. Len(text) : f[k] = AddWord(f[k - 1], text[k])
  BY <1>3
<1>5. f[0] = <<>>
  BY <1>3
<1> QED BY <1>2, <1>4, <1>5

\* strtok makes a text of words that each have a letter.
LEMMA KeptType ==
  ASSUME NEW text \in Seq(Loose)
  PROVE  Kept(text) \in Seq(Word)
<1>1. PICK f : /\ Kept(text) = f[Len(text)]
               /\ f[0] = <<>>
               /\ \A k \in 1 .. Len(text) : f[k] = AddWord(f[k - 1], text[k])
  BY KeptSteps
<1> DEFINE S == {n \in 0 .. Len(text) : f[n] \in Seq(Word)}
<1>2. 0 \in S
  <2>1. 0 \in 0 .. Len(text) /\ <<>> \in Seq(Word)
    OBVIOUS
  <2> QED BY <1>1, <2>1
<1>3. ASSUME NEW n \in 0 .. Len(text) - 1, n \in S PROVE n + 1 \in S
  <2>1. n + 1 \in 1 .. Len(text) /\ n + 1 - 1 = n /\ n + 1 \in 0 .. Len(text)
    OBVIOUS
  <2>2. f[n + 1] = AddWord(f[n], text[n + 1]) /\ f[n] \in Seq(Word) /\ text[n + 1] \in Loose
    BY <1>1, <1>3, <2>1
  <2>3. ASSUME text[n + 1].len > 0 PROVE text[n + 1] \in Word
    BY <2>2, <2>3 DEF Loose, Word
  <2>4. f[n + 1] \in Seq(Word)
    BY <2>2, <2>3, AppendProperties DEF AddWord
  <2> QED BY <2>1, <2>4
<1>4. Len(text) \in Nat
  OBVIOUS
<1> HIDE DEF S
<1>5. \A n \in 0 .. Len(text) : n \in S
  BY <1>2, <1>3, <1>4, CountingUp
<1>6. Len(text) \in S
  BY <1>4, <1>5
<1> QED BY <1>1, <1>6 DEF S

\* Nothing is left out of a text that has no empty word.
LEMMA KeptWhole ==
  ASSUME NEW text \in Seq(Word), \A i \in DOMAIN text : text[i].len > 0
  PROVE  Kept(text) = text
<1>1. text \in Seq(Loose)
  <2>1. Word \subseteq Loose
    BY DEF Word, Loose
  <2> QED BY <2>1
<1>2. PICK f : /\ Kept(text) = f[Len(text)]
               /\ f[0] = <<>>
               /\ \A k \in 1 .. Len(text) : f[k] = AddWord(f[k - 1], text[k])
  BY <1>1, KeptSteps
<1> DEFINE Same(n) == /\ f[n] \in Seq(Word) /\ Len(f[n]) = n
                      /\ \A i \in 1 .. n : f[n][i] = text[i]
           S == {n \in 0 .. Len(text) : Same(n)}
<1>3. 0 \in S
  <2>1. 0 \in 0 .. Len(text) /\ 1 .. 0 = {} /\ <<>> \in Seq(Word) /\ Len(<<>>) = 0
    OBVIOUS
  <2>2. Same(0)
    BY <1>2, <2>1
  <2> QED BY <2>1, <2>2
<1>4. ASSUME NEW n \in 0 .. Len(text) - 1, n \in S PROVE n + 1 \in S
  <2>1. n + 1 \in 1 .. Len(text) /\ n + 1 - 1 = n /\ n + 1 \in 0 .. Len(text)
    OBVIOUS
  <2>2. f[n + 1] = Append(f[n], text[n + 1])
    <3>1. text[n + 1].len > 0
      BY <2>1
    <3>2. f[n + 1] = AddWord(f[n], text[n + 1])
      BY <1>2, <2>1
    <3> QED BY <3>1, <3>2 DEF AddWord
  <2>3. Same(n) /\ text[n + 1] \in Word
    BY <1>4, <2>1
  <2>4. /\ f[n + 1] \in Seq(Word) /\ Len(f[n + 1]) = n + 1
        /\ f[n + 1][n + 1] = text[n + 1]
        /\ \A i \in 1 .. n : f[n + 1][i] = f[n][i]
    BY <2>2, <2>3, AppendProperties
  <2>5. \A i \in 1 .. n + 1 : i \in 1 .. n \/ i = n + 1
    OBVIOUS
  <2>6. Same(n + 1)
    BY <2>3, <2>4, <2>5
  <2> QED BY <2>1, <2>6
<1>5. Len(text) \in Nat
  OBVIOUS
<1> HIDE DEF S
<1>6. \A n \in 0 .. Len(text) : n \in S
  BY <1>3, <1>4, <1>5, CountingUp
<1>7. Len(text) \in S
  BY <1>5, <1>6
<1>8. Same(Len(text))
  BY <1>7 DEF S
<1> QED BY <1>2, <1>8

\* remove_dollar_sign finds the first dollar sign, if there is one.
LEMMA FirstDollar ==
  ASSUME NEW text \in Seq(Word)
  PROVE  LET i == SelectInSeq(text, LAMBDA w : w.dollar)
         IN  /\ i \in 0 .. Len(text)
             /\ \A j \in DOMAIN text : text[j].dollar => i # 0 /\ i <= j
             /\ i # 0 => i \in DOMAIN text /\ text[i].dollar
<1> DEFINE I == {i \in 1 .. Len(text) : text[i].dollar}
<1>1. SelectInSeq(text, LAMBDA w : w.dollar) = IF I # {} THEN Min(I) ELSE 0
  BY DEF SelectInSeq
<1>2. I \in SUBSET Nat /\ I \subseteq DOMAIN text /\ Len(text) \in Nat
  OBVIOUS
<1>3. I # {} => Min(I) \in I /\ \A j \in I : Min(I) <= j
  <2> HIDE DEF I
  <2> QED BY <1>2, MinIsLeast
<1>4. \A i \in I : i \in 1 .. Len(text) /\ i # 0 /\ text[i].dollar
  OBVIOUS
<1>5. \A j \in DOMAIN text : text[j].dollar => j \in I
  OBVIOUS
<1> HIDE DEF I
<1> QED BY <1>1, <1>2, <1>3, <1>4, <1>5

\* The word that loses its dollar sign.
Undollared(w) == [w EXCEPT !.dollar = FALSE, !.len = @ - 1]

\* It is a letter shorter.
LEMMA UndollaredWord ==
  ASSUME NEW w \in Word
  PROVE  /\ Undollared(w) \in Loose /\ (w.len > 0 => Undollared(w) \in Word)
         /\ Undollared(w).len = w.len - 1 /\ Undollared(w).stem = w.stem
<1>1. w.len \in Nat /\ w.len - 1 \in Int /\ (w.len > 0 => w.len - 1 \in Nat)
  BY DEF Word
<1>2. PICK n : n = w.len - 1
  OBVIOUS
<1>3. PICK u : u = [w EXCEPT !.dollar = FALSE, !.len = n]
  OBVIOUS
<1>4. u.len = n /\ u.stem = w.stem /\ u = Undollared(w)
  BY <1>2, <1>3 DEF Undollared, Word
<1>5. n \in Int => u \in Loose
  BY <1>3 DEF Word, Loose
<1>6. n \in Nat => u \in Word
  BY <1>3 DEF Word
<1> QED BY <1>1, <1>2, <1>4, <1>5, <1>6

\* What remove_dollar_sign makes of a text.
LEMMA RemovedType ==
  ASSUME NEW text \in Seq(Word)
  PROVE  RemoveDollarSign(text) \in Seq(Loose)
<1>1. PICK i : i = SelectInSeq(text, LAMBDA w : w.dollar)
  OBVIOUS
<1>2. i \in 0 .. Len(text) /\ (i # 0 => i \in DOMAIN text)
  BY <1>1, FirstDollar
<1>3. Word \subseteq Loose
  BY DEF Word, Loose
<1>4. CASE i = 0
  <2>1. RemoveDollarSign(text) = text
    BY <1>1, <1>4 DEF RemoveDollarSign
  <2> QED BY <1>3, <2>1
<1>5. CASE i # 0
  <2>1. text[i] \in Word /\ Undollared(text[i]) \in Loose
    BY <1>2, <1>5, UndollaredWord
  <2>2. RemoveDollarSign(text) = [text EXCEPT ![i] = Undollared(text[i])]
    BY <1>1, <1>2, <1>5 DEF RemoveDollarSign, Undollared
  <2>3. text \in Seq(Loose)
    BY <1>3
  <2> QED BY <1>2, <1>5, <2>1, <2>2, <2>3
<1> QED BY <1>4, <1>5

\* Without a dollar sign it changes nothing.
LEMMA RemovedNone ==
  ASSUME NEW text \in Seq(Word), \A j \in DOMAIN text : ~text[j].dollar
  PROVE  RemoveDollarSign(text) = text
<1>1. PICK i : i = SelectInSeq(text, LAMBDA w : w.dollar)
  OBVIOUS
<1>2. i = 0
  BY <1>1, FirstDollar
<1> QED BY <1>1, <1>2 DEF RemoveDollarSign

\* The dollar sign of a command comes first.
LEMMA RemovedFirst ==
  ASSUME NEW w \in Word, NEW s \in Seq(Word), w.dollar, w.len > 0
  PROVE  Undollared(w) \in Word /\ RemoveDollarSign(<<w>> \o s) = <<Undollared(w)>> \o s
<1>1. Undollared(w) \in Word
  BY UndollaredWord
<1>2. PICK t : t = <<w>> \o s
  OBVIOUS
<1>3. /\ t \in Seq(Word) /\ Len(t) = Len(s) + 1 /\ t[1] = w
      /\ \A i \in DOMAIN s : t[i + 1] = s[i]
  BY <1>2, OneMore
<1>4. PICK u : u = <<Undollared(w)>> \o s
  OBVIOUS
<1>5. /\ u \in Seq(Word) /\ Len(u) = Len(s) + 1 /\ u[1] = Undollared(w)
      /\ \A i \in DOMAIN s : u[i + 1] = s[i]
  BY <1>1, <1>4, OneMore
<1>6. PICK i : i = SelectInSeq(t, LAMBDA v : v.dollar)
  OBVIOUS
<1>7. i = 1
  <2>1. 1 \in DOMAIN t /\ t[1].dollar
    BY <1>3
  <2>2. i \in 0 .. Len(t) /\ i # 0 /\ i <= 1
    BY <1>3, <1>6, <2>1, FirstDollar
  <2> QED BY <1>3, <2>2
<1>8. RemoveDollarSign(t) = [t EXCEPT ![1] = Undollared(w)]
  <2>1. i # 0 /\ i \in DOMAIN t
    BY <1>3, <1>7
  <2>2. RemoveDollarSign(t) = [t EXCEPT ![i] = Undollared(t[i])]
    BY <1>3, <1>6, <2>1 DEF RemoveDollarSign, Undollared
  <2> QED BY <1>3, <1>7, <2>2
<1>9. [t EXCEPT ![1] = Undollared(w)] = u
  <2>1. \A k \in 2 .. Len(t) : t[k] = u[k]
    <3> SUFFICES ASSUME NEW k \in 2 .. Len(t) PROVE t[k] = u[k]
      OBVIOUS
    <3>1. k - 1 \in DOMAIN s /\ k - 1 + 1 = k
      BY <1>3
    <3> QED BY <1>3, <1>5, <3>1
  <2>2. PICK v : v = [t EXCEPT ![1] = Undollared(w)]
    OBVIOUS
  <2>3. /\ v \in Seq(Word) /\ Len(v) = Len(t) /\ v[1] = u[1]
        /\ \A k \in 2 .. Len(t) : v[k] = u[k]
    BY <1>1, <1>3, <1>5, <2>1, <2>2
  <2>4. \A k \in 1 .. Len(v) : v[k] = u[k]
    BY <2>3
  <2>5. v = u
    BY <1>3, <1>5, <2>3, <2>4, SeqEqual
  <2> QED BY <2>2, <2>5
<1> QED BY <1>1, <1>2, <1>4, <1>8, <1>9

\* get_and_tokenise leaves room for the NULL after the tokens.
LEMMA TokensType ==
  ASSUME NEW text \in Seq(Word)
  PROVE  Tokens(text) \in Seq(Word) /\ Len(Tokens(text)) < MAX_COMMAND_LEN
<1>1. PICK words \in Seq(Word) : words = Kept(RemoveDollarSign(text))
  BY RemovedType, KeptType
<1>2. MAX_COMMAND_LEN \in Nat /\ MAX_COMMAND_LEN > 3
  BY LimitsAssumption
<1>3. CASE Len(words) < MAX_COMMAND_LEN
  BY <1>1, <1>3 DEF Tokens
<1>4. CASE ~(Len(words) < MAX_COMMAND_LEN)
  <2>1. Tokens(text) = SubSeq(words, 1, MAX_COMMAND_LEN - 1)
    BY <1>1, <1>4 DEF Tokens
  <2>2. PICK n \in Nat : n = MAX_COMMAND_LEN - 1 /\ n <= Len(words)
    BY <1>2, <1>4
  <2>3. SubSeq(words, 1, n) \in Seq(Word) /\ Len(SubSeq(words, 1, n)) = n
    BY <2>2
  <2> QED BY <1>2, <2>1, <2>2, <2>3
<1> QED BY <1>3, <1>4

\* Of a text without empty words the tokens are its first words.
LEMMA TokensAreFirst ==
  ASSUME NEW text \in Seq(Word), NEW words \in Seq(Word), RemoveDollarSign(text) = words,
         words # <<>>, \A i \in DOMAIN words : words[i].len > 0
  PROVE  /\ Tokens(text) # <<>>
         /\ Len(Tokens(text)) <= Len(words)
         /\ \A i \in DOMAIN Tokens(text) : Tokens(text)[i] = words[i]
         /\ Len(words) < MAX_COMMAND_LEN => Tokens(text) = words
<1>1. Kept(RemoveDollarSign(text)) = words
  BY KeptWhole
<1>2. MAX_COMMAND_LEN \in Nat /\ MAX_COMMAND_LEN > 3
  BY LimitsAssumption
<1>3. CASE Len(words) < MAX_COMMAND_LEN
  <2>1. Tokens(text) = words
    BY <1>1, <1>3 DEF Tokens
  <2> QED BY <2>1
<1>4. CASE ~(Len(words) < MAX_COMMAND_LEN)
  <2>1. Tokens(text) = SubSeq(words, 1, MAX_COMMAND_LEN - 1)
    BY <1>1, <1>4 DEF Tokens
  <2>2. PICK n \in Nat : n = MAX_COMMAND_LEN - 1 /\ n <= Len(words) /\ n > 0
    BY <1>2, <1>4
  <2>3. PICK tokens : tokens = SubSeq(words, 1, n)
    OBVIOUS
  <2>4. /\ tokens \in Seq(Word) /\ Len(tokens) = n
        /\ \A i \in 1 .. n : tokens[i] = words[i]
    BY <2>2, <2>3
  <2>5. tokens # <<>> /\ DOMAIN tokens = 1 .. n
    BY <2>2, <2>4
  <2> QED BY <1>4, <2>1, <2>2, <2>3, <2>4, <2>5
<1> QED BY <1>3, <1>4

-----------------------------------------------------------------------------
(****************************************************************************)
(* Commands and their args.                                                 *)
(****************************************************************************)
LEMMA Limits ==
  /\ QUEUE_MSG_SIZE \in Nat /\ MAX_COMMAND_LEN \in Nat /\ MAX_CMD_SIZE \in Nat
  /\ NAME_SIZE \in Nat /\ MAX_MESSAGE \in Nat /\ MAX_NAME_LEN \in Nat
  /\ RESPONSE_BUFFER_SIZE \in Nat /\ JOIN_SIZE \in Nat
  /\ 3 < MAX_COMMAND_LEN /\ MAX_COMMAND_LEN <= MAX_CMD_SIZE + 1
  /\ 7 < NAME_SIZE /\ NAME_SIZE <= MAX_NAME_LEN /\ NAME_SIZE + 60 < MAX_MESSAGE
  /\ MAX_MESSAGE + MAX_NAME_LEN + 2 <= JOIN_SIZE /\ MAX_MESSAGE + NAME_SIZE + 15 <= JOIN_SIZE
  /\ JOIN_SIZE + 16 <= RESPONSE_BUFFER_SIZE /\ RESPONSE_BUFFER_SIZE <= QUEUE_MSG_SIZE
BY LimitsAssumption

\* What command_handler leaves of args: none too long, and an empty one at the end.
ShortArgs(args) ==
  /\ args \in Args
  /\ args[MAX_CMD_SIZE].len = 0
  /\ \A i \in 1 .. MAX_CMD_SIZE : args[i].len < NAME_SIZE

\* An arg that command_handler has cleared.
LEMMA EmptyWord == Empty \in Word /\ Empty.len = 0
BY DEF Empty, Word, Stem, Kinds, Formats

\* command_handler makes a command of any tokens, and ends its args.
LEMMA CommandType ==
  ASSUME NEW tokens \in Seq(Word), tokens # <<>>, Len(tokens) < MAX_COMMAND_LEN
  PROVE  CommandOf(tokens) \in Command /\ ShortArgs(CommandOf(tokens).args)
<1>1. KindOf(tokens[1]) \in Kinds \cup {"unknown"}
  BY DEF KindOf
<1>2. PICK args : args = [i \in 1 .. MAX_CMD_SIZE |->
                            IF i < Len(tokens) THEN Cut(tokens[i + 1], NAME_SIZE - 1) ELSE Empty]
  OBVIOUS
<1>3. NAME_SIZE - 1 \in Nat /\ NAME_SIZE - 1 < NAME_SIZE /\ 0 < NAME_SIZE
  BY Limits
<1>4. ASSUME NEW i \in 1 .. MAX_CMD_SIZE
      PROVE  args[i] \in Word /\ args[i].len < NAME_SIZE
  <2>1. CASE i < Len(tokens)
    <3>1. tokens[i + 1] \in Word
      BY <2>1
    <3>2. args[i] = Cut(tokens[i + 1], NAME_SIZE - 1)
      BY <1>2, <2>1
    <3>3. args[i] \in Word /\ args[i].len <= NAME_SIZE - 1
      <4>1. PICK w \in Word : w = tokens[i + 1]
        BY <3>1
      <4>2. Cut(w, NAME_SIZE - 1) \in Word /\ Cut(w, NAME_SIZE - 1).len <= NAME_SIZE - 1
        BY <1>3, CutKeeps
      <4> QED BY <3>2, <4>1, <4>2
    <3>4. args[i].len \in Nat
      BY <3>3 DEF Word
    <3>5. \A k \in Nat : k <= NAME_SIZE - 1 => k < NAME_SIZE
      BY Limits
    <3> QED BY <3>3, <3>4, <3>5
  <2>2. CASE ~(i < Len(tokens))
    BY <1>2, <1>3, <2>2, EmptyWord
  <2> QED BY <2>1, <2>2
<1>5. args \in Args
  <2>1. args = [i \in 1 .. MAX_CMD_SIZE |-> args[i]]
    BY <1>2
  <2> QED BY <1>4, <2>1 DEF Args
<1>6. args[MAX_CMD_SIZE].len = 0
  <2>1. MAX_CMD_SIZE \in 1 .. MAX_CMD_SIZE /\ ~(MAX_CMD_SIZE < Len(tokens))
    BY Limits
  <2> QED BY <1>2, <2>1, EmptyWord
<1>7. CommandOf(tokens) = [kind |-> KindOf(tokens[1]), args |-> args]
  BY <1>2 DEF CommandOf
<1> QED BY <1>1, <1>4, <1>5, <1>6, <1>7 DEF Command, ShortArgs

EmptyAt(text) == SelectInSeq(text, LAMBDA w : w.len = 0)

\* The search of the two joins for an empty arg.
LEMMA FirstEmpty ==
  ASSUME NEW text \in Seq(Word)
  PROVE  LET i == EmptyAt(text)
         IN  /\ i \in 0 .. Len(text)
             /\ \A j \in DOMAIN text : text[j].len = 0 => i # 0 /\ i <= j
             /\ i # 0 => i \in DOMAIN text /\ text[i].len = 0
<1> DEFINE I == {i \in 1 .. Len(text) : text[i].len = 0}
<1>1. EmptyAt(text) = IF I # {} THEN Min(I) ELSE 0
  BY DEF EmptyAt, SelectInSeq
<1>2. I \in SUBSET Nat /\ I \subseteq DOMAIN text /\ Len(text) \in Nat
  OBVIOUS
<1>3. I # {} => Min(I) \in I /\ \A j \in I : Min(I) <= j
  <2> HIDE DEF I
  <2> QED BY <1>2, MinIsLeast
<1>4. \A i \in I : i \in 1 .. Len(text) /\ i # 0 /\ text[i].len = 0
  OBVIOUS
<1>5. \A j \in DOMAIN text : text[j].len = 0 => j \in I
  OBVIOUS
<1> HIDE DEF I
<1>6. PICK i : i = EmptyAt(text)
  OBVIOUS
<1>7. /\ i \in 0 .. Len(text)
      /\ \A j \in DOMAIN text : text[j].len = 0 => i # 0 /\ i <= j
      /\ i # 0 => i \in DOMAIN text /\ text[i].len = 0
  <2>1. CASE I = {}
    BY <1>1, <1>2, <1>5, <1>6, <2>1
  <2>2. CASE I # {}
    <3>1. i = Min(I) /\ i \in I
      BY <1>1, <1>3, <1>6, <2>2
    <3>2. \A j \in I : i <= j
      BY <1>3, <2>2, <3>1
    <3>3. i \in 0 .. Len(text) /\ i # 0 /\ i \in DOMAIN text /\ text[i].len = 0
      BY <1>4, <3>1
    <3> QED BY <1>5, <3>2, <3>3
  <2> QED BY <2>1, <2>2
<1> QED BY <1>6, <1>7

\* The args that are filled, and the empty one after them.
FilledFrom(words, args, start) ==
  /\ words \in Seq(Word)
  /\ start + Len(words) \in 1 .. MAX_CMD_SIZE
  /\ \A i \in DOMAIN words : words[i] = args[start + i - 1] /\ words[i].len > 0
  /\ args[start + Len(words)].len = 0

\* The loop of the two joins stops at the first empty arg.
LEMMA FilledWords ==
  ASSUME NEW args, ShortArgs(args), NEW start \in 1 .. MAX_CMD_SIZE
  PROVE  FilledFrom(Filled(args, start), args, start)
<1>1. PICK N \in Nat : N = MAX_CMD_SIZE
  BY Limits
<1>2. args \in [1 .. N -> Word] /\ args[N].len = 0 /\ start \in 1 .. N
  BY <1>1 DEF ShortArgs, Args
<1>3. PICK rest : rest = SubSeq(args, start, N)
  OBVIOUS
<1>4. /\ rest \in Seq(Word) /\ Len(rest) = N - start + 1
      /\ \A i \in 1 .. N - start + 1 : rest[i] = args[start + i - 1]
  <2>1. args \in Seq(Word) /\ Len(args) = N
    BY <1>2
  <2> QED BY <1>2, <1>3, <2>1
<1>5. PICK end : end = EmptyAt(rest)
  OBVIOUS
<1>6. N - start + 1 \in DOMAIN rest /\ rest[N - start + 1].len = 0
  <2>1. PICK k \in Nat : k = N - start + 1 /\ k \in 1 .. k /\ start + k - 1 = N
    BY <1>2
  <2>2. k \in DOMAIN rest /\ rest[k] = args[N]
    BY <1>4, <2>1
  <2> QED BY <1>2, <2>1, <2>2
<1>7. /\ end \in 1 .. N - start + 1
      /\ rest[end].len = 0
      /\ \A j \in DOMAIN rest : rest[j].len = 0 => end <= j
  BY <1>4, <1>5, <1>6, FirstEmpty
<1>8. Filled(args, start) = SubSeq(args, start, start + end - 2)
  <2>1. EmptyAt(SubSeq(args, start, MAX_CMD_SIZE)) = end /\ end # 0
    BY <1>1, <1>3, <1>5, <1>7
  <2> QED BY <2>1 DEF Filled, EmptyAt
<1>9. PICK words : words = SubSeq(args, start, start + end - 2)
  OBVIOUS
<1>10. /\ words \in Seq(Word) /\ Len(words) = end - 1
       /\ \A i \in 1 .. end - 1 : words[i] = args[start + i - 1]
  <2>1. args \in Seq(Word) /\ Len(args) = N
    BY <1>2
  <2> QED BY <1>2, <1>7, <1>9, <2>1
<1>11. ASSUME NEW i \in DOMAIN words PROVE words[i] = args[start + i - 1] /\ words[i].len > 0
  <2>1. i \in 1 .. end - 1 /\ i \in DOMAIN rest /\ ~(end <= i)
    BY <1>4, <1>7, <1>10
  <2>2. words[i] = args[start + i - 1] /\ words[i] = rest[i] /\ words[i] \in Word
    BY <1>4, <1>10, <2>1
  <2>3. rest[i].len # 0 /\ words[i].len \in Nat
    BY <1>7, <2>1, <2>2 DEF Word
  <2> QED BY <2>2, <2>3
<1>12. start + Len(words) \in 1 .. N /\ args[start + Len(words)].len = 0
  <2>1. start + Len(words) = start + end - 1 /\ start + end - 1 \in 1 .. N
    BY <1>2, <1>7, <1>10
  <2> QED BY <1>4, <1>7, <2>1
<1> QED BY <1>1, <1>8, <1>9, <1>10, <1>11, <1>12 DEF FilledFrom

\* There is no other way to fill them.
LEMMA FilledOnce ==
  ASSUME NEW args, ShortArgs(args), NEW start \in 1 .. MAX_CMD_SIZE, NEW s,
         FilledFrom(s, args, start)
  PROVE  Filled(args, start) = s
<1>1. PICK t : t = Filled(args, start)
  OBVIOUS
<1>2. FilledFrom(t, args, start)
  BY <1>1, FilledWords
<1>3. /\ s \in Seq(Word) /\ t \in Seq(Word)
      /\ \A i \in DOMAIN s : s[i] = args[start + i - 1] /\ s[i].len > 0
      /\ \A i \in DOMAIN t : t[i] = args[start + i - 1] /\ t[i].len > 0
      /\ args[start + Len(s)].len = 0 /\ args[start + Len(t)].len = 0
  BY <1>2 DEF FilledFrom
<1>4. ~(Len(s) < Len(t))
  <2> SUFFICES ASSUME Len(s) < Len(t) PROVE FALSE
    OBVIOUS
  <2>1. PICK k \in DOMAIN t : k = Len(s) + 1
    BY <1>3
  <2>2. start + k - 1 = start + Len(s)
    BY <1>3, <2>1
  <2>3. t[k] = args[start + Len(s)] /\ t[k].len > 0
    BY <1>3, <2>2
  <2> QED BY <1>3, <2>3
<1>5. ~(Len(t) < Len(s))
  <2> SUFFICES ASSUME Len(t) < Len(s) PROVE FALSE
    OBVIOUS
  <2>1. PICK k \in DOMAIN s : k = Len(t) + 1
    BY <1>3
  <2>2. start + k - 1 = start + Len(t)
    BY <1>3, <2>1
  <2>3. s[k] = args[start + Len(t)] /\ s[k].len > 0
    BY <1>3, <2>2
  <2> QED BY <1>3, <2>3
<1>6. Len(s) = Len(t) /\ \A i \in 1 .. Len(s) : s[i] = t[i]
  BY <1>3, <1>4, <1>5
<1> QED BY <1>1, <1>3, <1>6, SeqEqual

\* The words of a message, as join_args makes it.
Message(words) ==
  /\ words \in Seq(Word)
  /\ \A i \in DOMAIN words : words[i].len > 0
  /\ Length(words) < MAX_MESSAGE - 1

\* join_args keeps its result within MAX_MESSAGE.
LEMMA JoinedType ==
  ASSUME NEW args, ShortArgs(args), NEW start \in 1 .. MAX_CMD_SIZE
  PROVE  Message(JoinArgs(args, start))
<1>1. PICK words : words = Filled(args, start)
  OBVIOUS
<1>2. words \in Seq(Word) /\ \A i \in DOMAIN words : words[i].len > 0
  BY <1>1, FilledWords DEF FilledFrom
<1>3. PICK limit \in Nat : limit = MAX_MESSAGE - 1 /\ limit > 0
  BY Limits
<1> DEFINE fits == {i \in DOMAIN words : Before(words, i) + words[i].len < limit}
<1>4. \A i \in DOMAIN words : Before(words, i) \in Nat /\ words[i].len \in Nat
  BY <1>2, LengthBounds
<1>5. ASSUME NEW i \in fits, NEW j \in 1 .. i PROVE j \in fits
  <2>1. i \in DOMAIN words /\ j \in DOMAIN words /\ Before(words, i) + words[i].len < limit
    BY <1>2
  <2>2. i = j \/ j \in 1 .. i - 1
    BY <1>2, <2>1
  <2>3. CASE j \in 1 .. i - 1
    <3>1. i \in 1 .. Len(words) + 1
      BY <1>2, <2>1
    <3>2. Before(words, j) + words[j].len + 1 <= Before(words, i)
      BY <1>2, <2>3, <3>1, BeforeGrows
    <3>3. PICK a \in Nat, b \in Nat, c \in Nat, d \in Nat :
            /\ a = Before(words, j) /\ b = words[j].len
            /\ c = Before(words, i) /\ d = words[i].len
      BY <1>4, <2>1
    <3>4. a + b < limit
      BY <2>1, <3>2, <3>3
    <3> QED BY <2>1, <3>3, <3>4
  <2> QED BY <2>1, <2>2, <2>3
<1>6. PICK k \in 0 .. Len(words) : fits = 1 .. k
  <2>1. fits \in SUBSET (1 .. Len(words)) /\ Len(words) \in Nat
    BY <1>2
  <2> HIDE DEF fits
  <2> QED BY <1>5, <2>1, InitialSegment
<1>7. JoinArgs(args, start) = [i \in 1 .. k |-> words[i]]
  BY <1>1, <1>3, <1>6 DEF JoinArgs
<1>8. PICK joined : joined = [i \in 1 .. k |-> words[i]]
  OBVIOUS
<1>9. /\ joined \in Seq(Word) /\ Len(joined) = k
      /\ \A i \in 1 .. k : joined[i] = words[i] /\ joined[i].len > 0
  BY <1>2, <1>8
<1>10. Length(joined) < limit
  <2>1. CASE k = 0
    <3>1. joined = <<>>
      BY <1>9, <2>1
    <3> QED BY <1>3, <3>1 DEF Length
  <2>2. CASE k # 0
    <3>1. k \in fits /\ k \in 1 .. k + 1 /\ k \in 1 .. k /\ k \in Nat
      BY <1>6, <2>2
    <3>2. Before(words, k) + words[k].len < limit
      BY <3>1
    <3>3. \A j \in 1 .. k + 1 : Before(joined, j) = Before(words, j)
      <4>1. k <= Len(joined) /\ k <= Len(words) /\ \A i \in 1 .. k : joined[i].len = words[i].len
        BY <1>2, <1>9
      <4> QED BY <1>2, <1>9, <3>1, <4>1, BeforeSame
    <3>4. Length(joined) = Before(joined, k) + joined[k].len
      BY <1>9, <3>1 DEF Length
    <3>5. joined[k] = words[k] /\ Before(joined, k) = Before(words, k)
      BY <1>9, <3>1, <3>3
    <3> QED BY <3>2, <3>4, <3>5
  <2> QED BY <2>1, <2>2
<1> QED BY <1>3, <1>7, <1>8, <1>9, <1>10 DEF Message

\* A message within its limit is joined whole.
LEMMA JoinedWhole ==
  ASSUME NEW args, NEW start, Message(Filled(args, start))
  PROVE  JoinArgs(args, start) = Filled(args, start)
<1>1. PICK words : words = Filled(args, start)
  OBVIOUS
<1>2. words \in Seq(Word) /\ Length(words) < MAX_MESSAGE - 1
  BY <1>1 DEF Message
<1>3. ASSUME NEW i \in DOMAIN words PROVE Before(words, i) + words[i].len < MAX_MESSAGE - 1
  <2>1. /\ Before(words, i) + words[i].len <= Length(words) /\ Length(words) \in Nat
        /\ Before(words, i) \in Nat /\ words[i].len \in Nat
    BY <1>2, LengthBounds
  <2> QED BY <1>2, <2>1, Limits
<1>4. {i \in DOMAIN words : Before(words, i) + words[i].len < MAX_MESSAGE - 1} = DOMAIN words
  BY <1>3
<1>5. JoinArgs(args, start) = [i \in DOMAIN words |-> words[i]]
  BY <1>1, <1>4 DEF JoinArgs
<1> QED BY <1>1, <1>2, <1>5

-----------------------------------------------------------------------------
(****************************************************************************)
(* The answers of the server.                                               *)
(****************************************************************************)
NoneEmpty(text) == text \in Seq(Word) /\ \A i \in DOMAIN text : text[i].len > 0

\* A text whose words are cut to the length of an arg.
CutAll(text) == [i \in DOMAIN text |-> Cut(text[i], NAME_SIZE - 1)]

\* Cutting its words makes a text no longer.
LEMMA CutAllType ==
  ASSUME NEW text, NoneEmpty(text)
  PROVE  /\ NoneEmpty(CutAll(text)) /\ Len(CutAll(text)) = Len(text)
         /\ Length(CutAll(text)) <= Length(text)
         /\ \A i \in DOMAIN text : CutAll(text)[i] = Cut(text[i], NAME_SIZE - 1)
<1>1. NAME_SIZE - 1 \in Nat /\ NAME_SIZE - 1 > 0
  BY Limits
<1>2. text \in Seq(Word) /\ \A i \in DOMAIN text : text[i].len > 0
  BY DEF NoneEmpty
<1>3. PICK n \in Nat : n = Len(text) /\ DOMAIN text = 1 .. n
  BY <1>2
<1>4. PICK s : s = CutAll(text)
  OBVIOUS
<1>5. s = [i \in 1 .. n |-> Cut(text[i], NAME_SIZE - 1)]
  BY <1>3, <1>4 DEF CutAll
<1>6. ASSUME NEW i \in 1 .. n
      PROVE  /\ Cut(text[i], NAME_SIZE - 1) \in Word /\ Cut(text[i], NAME_SIZE - 1).len > 0
             /\ Cut(text[i], NAME_SIZE - 1).len <= text[i].len
  <2>1. PICK w \in Word : w = text[i] /\ w.len > 0
    BY <1>2, <1>3
  <2>2. /\ Cut(w, NAME_SIZE - 1) \in Word /\ Cut(w, NAME_SIZE - 1).len > 0
        /\ Cut(w, NAME_SIZE - 1).len <= w.len
    BY <1>1, <2>1, CutKeeps
  <2> QED BY <2>1, <2>2
<1>7. /\ s \in Seq(Word) /\ Len(s) = n
      /\ \A i \in 1 .. n : s[i] = Cut(text[i], NAME_SIZE - 1)
  BY <1>5, <1>6
<1>8. \A i \in DOMAIN s : s[i].len > 0 /\ s[i].len <= text[i].len
  BY <1>6, <1>7
<1>9. Length(s) <= Length(text)
  <2>1. Len(s) <= Len(text)
    BY <1>3, <1>7
  <2> QED BY <1>2, <1>7, <1>8, <2>1, LengthShorter
<1> QED BY <1>3, <1>4, <1>7, <1>8, <1>9 DEF NoneEmpty

Put(w, text) == <<w>> \o text

\* A word in front of a text, and of the text with its words cut.
LEMMA PutBefore ==
  ASSUME NEW w \in Word, w.len > 0, NEW text, NoneEmpty(text)
  PROVE  /\ NoneEmpty(Put(w, text)) /\ Put(w, text) # <<>> /\ Put(w, text)[1] = w
         /\ Length(Put(w, text)) <= w.len + 1 + Length(text)
         /\ Length(Put(w, text)) \in Nat /\ Length(text) \in Nat
         /\ CutAll(Put(w, text)) = Put(Cut(w, NAME_SIZE - 1), CutAll(text))
         /\ Length(CutAll(Put(w, text))) <= Cut(w, NAME_SIZE - 1).len + 1 + Length(CutAll(text))
         /\ Length(CutAll(Put(w, text))) \in Nat /\ Length(CutAll(text)) \in Nat
<1>1. text \in Seq(Word) /\ \A i \in DOMAIN text : text[i].len > 0
  BY DEF NoneEmpty
<1>2. PICK t : t = <<w>> \o text
  OBVIOUS
<1>3. /\ t \in Seq(Word) /\ Len(t) = Len(text) + 1 /\ t[1] = w
      /\ \A i \in DOMAIN text : t[i + 1] = text[i]
  BY <1>1, <1>2, OneMore
<1>4. ASSUME NEW i \in DOMAIN t PROVE i = 1 \/ (i - 1 \in DOMAIN text /\ t[i] = text[i - 1])
  <2>1. CASE i # 1
    <3>1. i - 1 \in DOMAIN text /\ i - 1 + 1 = i
      BY <1>1, <1>3, <2>1
    <3> QED BY <1>3, <3>1
  <2> QED BY <2>1
<1>5. \A i \in DOMAIN t : t[i].len > 0
  BY <1>1, <1>3, <1>4
<1>6. NoneEmpty(t) /\ t # <<>>
  BY <1>1, <1>3, <1>5 DEF NoneEmpty
<1>7. Length(t) <= w.len + 1 + Length(text) /\ Length(t) \in Nat /\ Length(text) \in Nat
  BY <1>1, <1>2, <1>3, LengthOneMore, LengthBounds
<1>8. PICK c \in Word : c = Cut(w, NAME_SIZE - 1)
  BY CutKeeps, Limits
<1>9. PICK s : s = CutAll(text)
  OBVIOUS
<1>10. /\ s \in Seq(Word) /\ Len(s) = Len(text)
       /\ \A i \in DOMAIN text : s[i] = Cut(text[i], NAME_SIZE - 1)
  BY <1>9, CutAllType DEF NoneEmpty
<1>11. PICK u : u = CutAll(t)
  OBVIOUS
<1>12. /\ u \in Seq(Word) /\ Len(u) = Len(t)
       /\ \A i \in DOMAIN t : u[i] = Cut(t[i], NAME_SIZE - 1)
  BY <1>6, <1>11, CutAllType DEF NoneEmpty
<1>13. u = <<c>> \o s
  <2>1. PICK v : v = <<c>> \o s
    OBVIOUS
  <2>2. /\ v \in Seq(Word) /\ Len(v) = Len(s) + 1 /\ v[1] = c
        /\ \A i \in DOMAIN s : v[i + 1] = s[i]
    BY <1>10, <2>1, OneMore
  <2>3. ASSUME NEW i \in 1 .. Len(u) PROVE u[i] = v[i]
    <3>1. i \in DOMAIN t /\ u[i] = Cut(t[i], NAME_SIZE - 1)
      BY <1>3, <1>12
    <3>2. CASE i = 1
      BY <1>3, <1>8, <2>2, <3>1, <3>2
    <3>3. CASE i - 1 \in DOMAIN text /\ t[i] = text[i - 1]
      <4>1. i - 1 \in DOMAIN s /\ i - 1 + 1 = i /\ s[i - 1] = Cut(text[i - 1], NAME_SIZE - 1)
        BY <1>1, <1>10, <3>3
      <4>2. v[i] = s[i - 1]
        BY <2>2, <4>1
      <4> QED BY <3>1, <3>3, <4>1, <4>2
    <3> QED BY <1>4, <3>1, <3>2, <3>3
  <2>4. Len(u) = Len(v)
    BY <1>3, <1>10, <1>12, <2>2
  <2> QED BY <1>12, <2>1, <2>2, <2>3, <2>4, SeqEqual
<1>14. Length(u) <= c.len + 1 + Length(s) /\ Length(u) \in Nat /\ Length(s) \in Nat
  BY <1>8, <1>10, <1>12, <1>13, LengthOneMore, LengthBounds
<1> QED BY <1>2, <1>3, <1>6, <1>7, <1>8, <1>9, <1>11, <1>13, <1>14 DEF Put

\* Words in front of a text, one by one.
Follows(s, w, r) ==
  /\ w \in Word /\ r \in Seq(Word) /\ s \in Seq(Word)
  /\ Len(s) = Len(r) + 1 /\ s[1] = w /\ \A i \in DOMAIN r : s[i + 1] = r[i]

\* A text is its first word and the rest.
LEMMA FirstAndRest ==
  ASSUME NEW s, NEW w, NEW r, Follows(s, w, r)
  PROVE  s = Put(w, r)
<1> USE DEF Follows
<1>1. PICK t : t = <<w>> \o r
  OBVIOUS
<1>2. /\ t \in Seq(Word) /\ Len(t) = Len(r) + 1 /\ t[1] = w
      /\ \A i \in DOMAIN r : t[i + 1] = r[i]
  BY <1>1, OneMore
<1>3. ASSUME NEW i \in 1 .. Len(s) PROVE s[i] = t[i]
  <2>1. CASE i = 1
    BY <1>2, <2>1
  <2>2. CASE i # 1
    <3>1. i - 1 \in DOMAIN r /\ i - 1 + 1 = i
      BY <2>2
    <3> QED BY <1>2, <3>1
  <2> QED BY <2>1, <2>2
<1>4. s = t
  BY <1>2, <1>3, SeqEqual
<1> QED BY <1>1, <1>4 DEF Put

\* And so with more words behind it.
LEMMA FirstThenRest ==
  ASSUME NEW s, NEW w, NEW r, Follows(s, w, r), NEW m \in Seq(Word)
  PROVE  s \o m = Put(w, r \o m)
<1>1. <<w>> \in Seq(Word) /\ r \in Seq(Word)
  BY DEF Follows
<1>2. (<<w>> \o r) \o m = <<w>> \o (r \o m)
  BY <1>1, ConcatAssociative
<1>3. s = <<w>> \o r
  BY FirstAndRest DEF Put
<1> QED BY <1>2, <1>3, Zenon DEF Put

\* Two words in front of a text.
LEMMA TwoMore ==
  ASSUME NEW a \in Word, NEW b \in Word, NEW m \in Seq(Word)
  PROVE  <<a, b>> \o m = Put(a, Put(b, m))
<1>1. PICK s : s = <<a, b>>
  OBVIOUS
<1>2. PICK r : r = <<b>>
  OBVIOUS
<1>3. Follows(s, a, r)
  BY <1>1, <1>2 DEF Follows
<1>4. s \o m = Put(a, r \o m)
  BY <1>3, FirstThenRest
<1> QED BY <1>1, <1>2, <1>4, Zenon DEF Put

\* Four words in front of a text.
LEMMA FourMore ==
  ASSUME NEW a \in Word, NEW b \in Word, NEW c \in Word, NEW d \in Word, NEW m \in Seq(Word)
  PROVE  <<a, b, c, d>> \o m = Put(a, Put(b, Put(c, Put(d, m))))
<1>1. PICK s : s = <<a, b, c, d>>
  OBVIOUS
<1>2. PICK r : r = <<b, c, d>>
  OBVIOUS
<1>3. PICK q : q = <<c, d>>
  OBVIOUS
<1>4. Follows(r, b, q)
  BY <1>2, <1>3 DEF Follows
<1>5. Follows(s, a, r)
  BY <1>1, <1>2 DEF Follows
<1>6. s \o m = Put(a, r \o m)
  BY <1>5, FirstThenRest
<1>7. r \o m = Put(b, q \o m)
  BY <1>4, FirstThenRest
<1>8. q \o m = Put(c, Put(d, m))
  BY <1>3, TwoMore, Zenon
<1> QED BY <1>1, <1>6, <1>7, <1>8, Zenon

\* A text of five words.
LEMMA FiveWords ==
  ASSUME NEW a \in Word, NEW b \in Word, NEW c \in Word, NEW d \in Word, NEW e \in Word
  PROVE  <<a, b, c, d, e>> = Put(a, Put(b, Put(c, Put(d, Put(e, <<>>)))))
<1>1. PICK s : s = <<a, b, c, d, e>>
  OBVIOUS
<1>2. PICK r : r = <<b, c, d, e>>
  OBVIOUS
<1>3. Follows(s, a, r)
  BY <1>1, <1>2 DEF Follows
<1>4. s = Put(a, r)
  BY <1>3, FirstAndRest
<1>5. PICK m : m = <<>>
  OBVIOUS
<1>6. m \in Seq(Word) /\ r \in Seq(Word)
  BY <1>3, <1>5 DEF Follows
<1>7. <<b, c, d, e>> \o m = Put(b, Put(c, Put(d, Put(e, m))))
  BY <1>6, FourMore
<1>8. r \o m = r
  BY <1>5, <1>6, ConcatEmptySeq, Zenon
<1> QED BY <1>1, <1>2, <1>4, <1>5, <1>7, <1>8, Zenon

\* The words that the server puts in: nothing but their kind and length is set.
Only(s, n, d) == [stem : {s}, nth : {0}, len : {n}, colon : {0}, dollar : {d}]

\* There is one such word.
LEMMA OnlyOne ==
  ASSUME NEW s, NEW n, NEW d, NEW x \in Only(s, n, d), NEW y \in Only(s, n, d)
  PROVE  x = y
BY DEF Only

\* A plain word is one.
LEMMA PlainOnly ==
  ASSUME NEW s, NEW n
  PROVE  Plain(s, n) \in Only(s, n, FALSE)
BY DEF Plain, Empty, Only

\* So is one with a dollar sign, which is a letter longer.
LEMMA DollarOnly ==
  ASSUME NEW s, NEW n, NEW m, m = n + 1
  PROVE  Dollar(s, n) \in Only(s, m, TRUE)
<1>1. PICK p : p = Plain(s, n + 1)
  OBVIOUS
<1>2. p \in Only(s, m, FALSE)
  BY <1>1, PlainOnly
<1>3. [p EXCEPT !.dollar = TRUE] \in Only(s, m, TRUE)
  BY <1>2 DEF Only
<1> QED BY <1>1, <1>3 DEF Dollar

\* And one that has lost it.
LEMMA UndollaredOnly ==
  ASSUME NEW s, NEW n, NEW m, NEW d, NEW x \in Only(s, n, d), m = n - 1
  PROVE  Undollared(x) \in Only(s, m, FALSE)
BY DEF Undollared, Only

\* A plain word is a word.
LEMMA LiteralWord ==
  ASSUME NEW s \in Stem, NEW n \in Nat
  PROVE  /\ Plain(s, n) \in Word /\ Plain(s, n).len = n /\ Plain(s, n).stem = s
         /\ Plain(s, n).colon = 0 /\ ~Plain(s, n).dollar
<1>1. PICK w : w = Plain(s, n)
  OBVIOUS
<1>2. w \in Only(s, n, FALSE)
  BY <1>1, PlainOnly
<1>3. w \in Word /\ w.len = n /\ w.stem = s /\ w.colon = 0 /\ ~w.dollar
  <2>1. w.len = n /\ w.stem = s /\ w.colon = 0 /\ w.dollar = FALSE
    BY <1>2 DEF Only
  <2>2. {s} \subseteq Stem /\ {0} \subseteq Nat /\ {n} \subseteq Nat /\ {FALSE} \subseteq BOOLEAN
    OBVIOUS
  <2>3. w \in Word
    BY <1>2, <2>2 DEF Only, Word
  <2> QED BY <2>1, <2>3
<1> QED BY <1>1, <1>3

\* The name of a command with its dollar sign, and without it.
LEMMA DollarWord ==
  ASSUME NEW s \in Stem, NEW n \in Nat
  PROVE  /\ Dollar(s, n) \in Word /\ Dollar(s, n).len = n + 1 /\ Dollar(s, n).stem = s
         /\ Dollar(s, n).dollar
         /\ Undollared(Dollar(s, n)) = Plain(s, n)
<1>1. PICK m \in Nat : m = n + 1 /\ n = m - 1
  <2>1. n + 1 \in Nat /\ n = n + 1 - 1
    OBVIOUS
  <2> QED BY <2>1
<1>2. PICK w : w = Dollar(s, n)
  OBVIOUS
<1>3. w \in Only(s, m, TRUE)
  BY <1>1, <1>2, DollarOnly
<1>4. w \in Word /\ w.len = m /\ w.stem = s /\ w.dollar
  <2>1. w.len = m /\ w.stem = s /\ w.dollar = TRUE
    BY <1>3 DEF Only
  <2>2. {s} \subseteq Stem /\ {0} \subseteq Nat /\ {m} \subseteq Nat /\ {TRUE} \subseteq BOOLEAN
    OBVIOUS
  <2>3. w \in Word
    BY <1>3, <2>2 DEF Only, Word
  <2> QED BY <2>1, <2>3
<1>5. Undollared(w) \in Only(s, n, FALSE)
  BY <1>1, <1>3, UndollaredOnly
<1>6. Undollared(w) = Plain(s, n)
  <2>1. PICK u : u = Undollared(w)
    OBVIOUS
  <2>2. PICK v : v = Plain(s, n)
    OBVIOUS
  <2>3. u \in Only(s, n, FALSE) /\ v \in Only(s, n, FALSE)
    BY <1>5, <2>1, <2>2, PlainOnly
  <2> QED BY <2>1, <2>2, <2>3, OnlyOne
<1> QED BY <1>1, <1>2, <1>4, <1>6

\* Every command that the server sends keeps its kind.
LEMMA KindKept ==
  ASSUME NEW s \in Kinds, NEW n \in Nat
  PROVE  /\ Dollar(s, n) \in Word /\ Dollar(s, n).dollar /\ Dollar(s, n).len = n + 1
         /\ Undollared(Dollar(s, n)) = Plain(s, n)
         /\ KindOf(Undollared(Dollar(s, n))) = s
<1>1. s \in Stem
  BY DEF Stem
<1>2. PICK w : w = Plain(s, n)
  OBVIOUS
<1>3. w.stem = s /\ w.colon = 0 /\ ~w.dollar
  BY <1>1, <1>2, LiteralWord
<1>4. KindOf(w) = s
  BY <1>3 DEF KindOf
<1>5. Undollared(Dollar(s, n)) = w
  BY <1>1, <1>2, DollarWord
<1> QED BY <1>1, <1>2, <1>4, <1>5, DollarWord

\* The words of the formats.
LEMMA Literals ==
  /\ Dollar("say", 3) \in Word /\ Dollar("say", 3).dollar /\ Dollar("say", 3).len = 4
  /\ Dollar("error", 5) \in Word /\ Dollar("error", 5).dollar /\ Dollar("error", 5).len = 6
  /\ Plain("message)", 8) \in Word /\ Plain("message)", 8).len = 8
  /\ Plain("you", 3) \in Word /\ Plain("you", 3).len = 3
  /\ Plain("to", 2) \in Word /\ Plain("to", 2).len = 2
  /\ Plain("has", 3) \in Word /\ Plain("has", 3).len = 3
  /\ Plain("been", 4) \in Word /\ Plain("been", 4).len = 4
  /\ Plain("kicked", 6) \in Word /\ Plain("kicked", 6).len = 6
  /\ Server \in Word /\ Server.len = 6 /\ Server.colon = 0 /\ ~Server.dollar
  /\ \A n \in Nat : Text(n) \in Word /\ Text(n).len = n
<1>1. /\ \A s \in {"say", "error", "message)", "you", "to", "has", "been", "kicked", "SERVER", "text"} :
           s \in Stem
      /\ \A n \in {2, 3, 4, 5, 6, 8} : n \in Nat
  BY DEF Stem, Kinds, Formats
<1>2. Server \in Word /\ Server.len = 6 /\ Server.colon = 0 /\ ~Server.dollar
  BY <1>1, LiteralWord DEF Server
<1>3. \A n \in Nat : Text(n) \in Word /\ Text(n).len = n
  BY <1>1, LiteralWord DEF Text
<1>4. /\ Dollar("say", 3) \in Word /\ Dollar("say", 3).dollar /\ Dollar("say", 3).len = 4
      /\ Dollar("error", 5) \in Word /\ Dollar("error", 5).dollar /\ Dollar("error", 5).len = 6
  BY <1>1, DollarWord
<1> QED BY <1>1, <1>2, <1>3, <1>4, LiteralWord

\* The name of a client as say and sayto print it.
LEMMA NamedWords ==
  ASSUME NEW w \in Word
  PROVE  /\ Named(w) \in Word /\ Named(w).len = w.len + 1
         /\ NamedPrivate(w) \in Word /\ NamedPrivate(w).len = w.len + 9
         /\ Bracketed(w) \in Word /\ Bracketed(w).len = w.len + 2
<1>1. w.len \in Nat /\ Colon(w) \in Nat
  BY DEF Word, Colon
<1>2. PICK c \in Nat : c = Colon(w)
  BY <1>1
<1>3. PICK m \in Nat : m = w.len + 1
  BY <1>1
<1>4. PICK n \in Nat : n = w.len + 9
  BY <1>1
<1>5. PICK k \in Nat : k = w.len + 2
  BY <1>1
<1>6. PICK u : u = [w EXCEPT !.len = m, !.colon = c, !.dollar = FALSE]
  OBVIOUS
<1>7. u \in Word /\ u.len = m /\ Named(w) = u
  BY <1>2, <1>3, <1>6 DEF Word, Named
<1>8. PICK v : v = [w EXCEPT !.len = n, !.colon = c, !.dollar = FALSE]
  OBVIOUS
<1>9. v \in Word /\ v.len = n /\ NamedPrivate(w) = v
  BY <1>2, <1>4, <1>8 DEF Word, NamedPrivate
<1>10. PICK d \in Nat : d = IF w.colon = 0 THEN 0 ELSE w.colon + 1
  <2>1. w.colon \in Nat
    BY DEF Word
  <2> QED BY <2>1
<1>11. PICK x : x = [w EXCEPT !.len = k, !.colon = d, !.dollar = FALSE]
  OBVIOUS
<1>12. x \in Word /\ x.len = k /\ Bracketed(w) = x
  BY <1>5, <1>10, <1>11 DEF Word, Bracketed
<1> QED BY <1>3, <1>4, <1>5, <1>7, <1>9, <1>12

\* What the client reads of an answer: a say$ begins with one of the words that
\* stand for who said it, and cut to the length of an arg the words fit the buffer
\* of join.
HeadsOf(name) == {Named(name), NamedPrivate(name), Plain("you", 3)}

AnswerOf(first, rest, heads) ==
  /\ first \in Word /\ first.dollar /\ first.len > 1
  /\ NoneEmpty(rest)
  /\ Length(CutAll(rest)) < JOIN_SIZE
  /\ \/ first = Dollar("say", 3) /\ rest # <<>> /\ rest[1] \in heads
     \/ KindOf(Undollared(first)) # "say"

\* The length of a message, and of the message with its words cut.
LEMMA MessageText ==
  ASSUME NEW words, Message(words)
  PROVE  /\ NoneEmpty(words) /\ Length(words) \in Nat /\ Length(words) < MAX_MESSAGE - 1
         /\ Length(CutAll(words)) \in Nat /\ Length(CutAll(words)) < MAX_MESSAGE - 1
<1>1. NoneEmpty(words) /\ words \in Seq(Word) /\ Length(words) < MAX_MESSAGE - 1
  BY DEF Message, NoneEmpty
<1>2. CutAll(words) \in Seq(Word) /\ Length(CutAll(words)) <= Length(words)
  BY <1>1, CutAllType DEF NoneEmpty
<1>3. Length(words) \in Nat /\ Length(CutAll(words)) \in Nat
  BY <1>1, <1>2, LengthBounds
<1> QED BY <1>1, <1>2, <1>3, Limits

\* A buffer for responses holds any answer, and so does the ring.
LEMMA AnswerFits ==
  ASSUME NEW text, NoneEmpty(text), Length(text) < RESPONSE_BUFFER_SIZE - 1
  PROVE  Fit(Fit(text, RESPONSE_BUFFER_SIZE), QUEUE_MSG_SIZE) = text
<1>1. text \in Seq(Word)
  BY DEF NoneEmpty
<1>2. Length(text) \in Nat
  BY <1>1, LengthBounds
<1>3. Length(text) < QUEUE_MSG_SIZE - 1
  BY <1>2, Limits
<1>4. Fit(text, RESPONSE_BUFFER_SIZE) = text /\ Fit(text, QUEUE_MSG_SIZE) = text
  BY <1>1, <1>3, FitWhole, Limits
<1> QED BY <1>4

\* What say sends to every client.
LEMMA SayAnswer ==
  ASSUME NEW name \in Word, name.len < NAME_SIZE, NEW words, Message(words)
  PROVE  LET rest == Put(Named(name), words)
             text == Put(Dollar("say", 3), rest)
         IN  /\ AnswerOf(Dollar("say", 3), rest, HeadsOf(name))
             /\ Fit(rest, MAX_MESSAGE + MAX_NAME_LEN + 2) = rest
             /\ Fit(Fit(text, RESPONSE_BUFFER_SIZE), QUEUE_MSG_SIZE) = text
<1>1. name.len \in Nat
  BY DEF Word
<1>2. Named(name) \in Word /\ Named(name).len = name.len + 1 /\ Named(name).len > 0
  <2>1. Named(name) \in Word /\ Named(name).len = name.len + 1
    BY NamedWords
  <2> QED BY <1>1, <2>1
<1>3. PICK rest : rest = Put(Named(name), words)
  OBVIOUS
<1>4. /\ NoneEmpty(rest) /\ rest # <<>> /\ rest[1] = Named(name)
      /\ Length(rest) <= Named(name).len + 1 + Length(words) /\ Length(rest) \in Nat
  BY <1>2, <1>3, MessageText, PutBefore
<1>5. Length(rest) <= NAME_SIZE + MAX_MESSAGE - 1
  BY <1>1, <1>2, <1>4, MessageText, Limits
<1>6. rest \in Seq(Word) /\ CutAll(rest) \in Seq(Word) /\ Length(CutAll(rest)) <= Length(rest)
  BY <1>4, CutAllType DEF NoneEmpty
<1>7. Length(CutAll(rest)) \in Nat
  BY <1>6, LengthBounds
<1>8. Length(CutAll(rest)) < JOIN_SIZE
  BY <1>4, <1>5, <1>6, <1>7, Limits
<1>9. Fit(rest, MAX_MESSAGE + MAX_NAME_LEN + 2) = rest
  <2>1. PICK n \in Nat : n = MAX_MESSAGE + MAX_NAME_LEN + 2
    BY Limits
  <2>2. Length(rest) < n - 1
    BY <1>4, <1>5, <2>1, Limits
  <2> QED BY <1>6, <2>1, <2>2, FitWhole
<1>10. PICK text : text = Put(Dollar("say", 3), rest)
  OBVIOUS
<1>11. /\ NoneEmpty(text) /\ Length(text) <= 4 + 1 + Length(rest) /\ Length(text) \in Nat
  BY <1>4, <1>10, Literals, PutBefore
<1>12. Length(text) < RESPONSE_BUFFER_SIZE - 1
  BY <1>4, <1>5, <1>11, Limits
<1>13. Fit(Fit(text, RESPONSE_BUFFER_SIZE), QUEUE_MSG_SIZE) = text
  BY <1>11, <1>12, AnswerFits
<1>14. AnswerOf(Dollar("say", 3), rest, HeadsOf(name))
  BY <1>4, <1>8, Literals DEF AnswerOf, HeadsOf
<1> QED BY <1>3, <1>9, <1>10, <1>13, <1>14

\* The message of a sayto$, with the word in front of it.
LEMMA PrivateMessage ==
  ASSUME NEW words, Message(words)
  PROVE  LET message == Put(Plain("message)", 8), words)
         IN  /\ NoneEmpty(message)
             /\ Length(message) \in Nat /\ Length(message) <= MAX_MESSAGE + 7
             /\ Length(CutAll(message)) \in Nat /\ Length(CutAll(message)) <= MAX_MESSAGE + 7
<1>1. PICK message : message = Put(Plain("message)", 8), words)
  OBVIOUS
<1>2. NoneEmpty(message) /\ Length(message) \in Nat /\ Length(message) <= 8 + 1 + Length(words)
  BY <1>1, Literals, MessageText, PutBefore
<1>3. Length(message) <= MAX_MESSAGE + 7
  BY <1>2, MessageText, Limits
<1>4. /\ CutAll(message) \in Seq(Word) /\ Length(CutAll(message)) <= Length(message)
  BY <1>2, CutAllType DEF NoneEmpty
<1>5. Length(CutAll(message)) \in Nat
  BY <1>4, LengthBounds
<1>6. Length(CutAll(message)) <= MAX_MESSAGE + 7
  BY <1>2, <1>3, <1>4, <1>5, Limits
<1> QED BY <1>1, <1>2, <1>3, <1>5, <1>6

\* A name is cut to the length of an arg.
LEMMA CutLength ==
  ASSUME NEW w \in Word, w.len > 0
  PROVE  /\ Cut(w, NAME_SIZE - 1) \in Word
         /\ Cut(w, NAME_SIZE - 1).len \in Nat
         /\ Cut(w, NAME_SIZE - 1).len > 0
         /\ Cut(w, NAME_SIZE - 1).len <= NAME_SIZE - 1
         /\ Cut(w, NAME_SIZE - 1).len <= w.len
<1>1. NAME_SIZE - 1 \in Nat /\ NAME_SIZE - 1 > 0
  BY Limits
<1>2. PICK c : c = Cut(w, NAME_SIZE - 1)
  OBVIOUS
<1>3. c \in Word /\ c.len > 0 /\ c.len <= NAME_SIZE - 1 /\ c.len <= w.len
  BY <1>1, <1>2, CutKeeps
<1>4. c.len \in Nat
  BY <1>3 DEF Word
<1> QED BY <1>2, <1>3, <1>4

\* What sayto sends to the receiver.
LEMMA ReceiverAnswer ==
  ASSUME NEW name \in Word, name.len < NAME_SIZE, NEW words, Message(words)
  PROVE  LET rest == Put(NamedPrivate(name), Put(Plain("message)", 8), words))
             text == Put(Dollar("say", 3), rest)
         IN  /\ AnswerOf(Dollar("say", 3), rest, HeadsOf(name))
             /\ Fit(Fit(text, RESPONSE_BUFFER_SIZE), QUEUE_MSG_SIZE) = text
<1>1. name.len \in Nat
  BY DEF Word
<1>2. PICK w \in Word : w = NamedPrivate(name) /\ w.len = name.len + 9 /\ w.len \in Nat /\ w.len > 0
  <2>1. NamedPrivate(name) \in Word /\ NamedPrivate(name).len = name.len + 9
    BY NamedWords
  <2> QED BY <1>1, <2>1
<1>3. PICK message : message = Put(Plain("message)", 8), words)
  OBVIOUS
<1>4. /\ NoneEmpty(message)
      /\ Length(message) \in Nat /\ Length(message) <= MAX_MESSAGE + 7
      /\ Length(CutAll(message)) \in Nat /\ Length(CutAll(message)) <= MAX_MESSAGE + 7
  BY <1>3, PrivateMessage
<1>5. PICK rest : rest = Put(w, message)
  OBVIOUS
<1>6. /\ NoneEmpty(rest) /\ rest # <<>> /\ rest[1] = w
      /\ Length(rest) <= w.len + 1 + Length(message) /\ Length(rest) \in Nat
      /\ Length(CutAll(rest)) <= Cut(w, NAME_SIZE - 1).len + 1 + Length(CutAll(message))
      /\ Length(CutAll(rest)) \in Nat
  BY <1>2, <1>4, <1>5, PutBefore
<1>7. Cut(w, NAME_SIZE - 1).len <= NAME_SIZE - 1 /\ Cut(w, NAME_SIZE - 1).len \in Nat
  BY <1>2, CutLength
<1>8. Length(CutAll(rest)) < JOIN_SIZE
  <2>1. Length(CutAll(rest)) <= NAME_SIZE + Length(CutAll(message))
    BY <1>4, <1>6, <1>7, Limits
  <2>2. Length(CutAll(rest)) <= NAME_SIZE + MAX_MESSAGE + 7
    BY <1>4, <1>6, <2>1, Limits
  <2> QED BY <1>6, <2>2, Limits
<1>9. Length(rest) <= MAX_MESSAGE + NAME_SIZE + 16
  <2>1. w.len + 1 <= NAME_SIZE + 9
    BY <1>1, <1>2, Limits
  <2>2. Length(rest) <= NAME_SIZE + 9 + Length(message)
    BY <1>2, <1>4, <1>6, <2>1, Limits
  <2> QED BY <1>4, <1>6, <2>2, Limits
<1>10. PICK text : text = Put(Dollar("say", 3), rest)
  OBVIOUS
<1>11. NoneEmpty(text) /\ Length(text) <= 4 + 1 + Length(rest) /\ Length(text) \in Nat
  BY <1>6, <1>10, Literals, PutBefore
<1>12. Length(text) < RESPONSE_BUFFER_SIZE - 1
  BY <1>6, <1>9, <1>11, Limits
<1>13. Fit(Fit(text, RESPONSE_BUFFER_SIZE), QUEUE_MSG_SIZE) = text
  BY <1>11, <1>12, AnswerFits
<1>14. AnswerOf(Dollar("say", 3), rest, HeadsOf(name))
  BY <1>2, <1>6, <1>8, Literals DEF AnswerOf, HeadsOf
<1> QED BY <1>2, <1>3, <1>5, <1>10, <1>13, <1>14

\* What sayto sends to the sender.
LEMMA SenderAnswer ==
  ASSUME NEW name, NEW whom \in Word, whom.len < NAME_SIZE, NEW words, Message(words)
  PROVE  LET rest == Put(Plain("you", 3), Put(Plain("to", 2),
                       Put(NamedPrivate(whom), Put(Plain("message)", 8), words))))
             text == Put(Dollar("say", 3), rest)
         IN  /\ AnswerOf(Dollar("say", 3), rest, HeadsOf(name))
             /\ Fit(Fit(text, RESPONSE_BUFFER_SIZE), QUEUE_MSG_SIZE) = text
<1>1. whom.len \in Nat
  BY DEF Word
<1>2. PICK w \in Word : w = NamedPrivate(whom) /\ w.len = whom.len + 9 /\ w.len \in Nat /\ w.len > 0
  <2>1. NamedPrivate(whom) \in Word /\ NamedPrivate(whom).len = whom.len + 9
    BY NamedWords
  <2> QED BY <1>1, <2>1
<1>3. PICK message : message = Put(Plain("message)", 8), words)
  OBVIOUS
<1>4. /\ NoneEmpty(message)
      /\ Length(message) \in Nat /\ Length(message) <= MAX_MESSAGE + 7
      /\ Length(CutAll(message)) \in Nat /\ Length(CutAll(message)) <= MAX_MESSAGE + 7
  BY <1>3, PrivateMessage
<1>5. PICK a : a = Put(w, message)
  OBVIOUS
<1>6. /\ NoneEmpty(a)
      /\ Length(a) <= w.len + 1 + Length(message) /\ Length(a) \in Nat
      /\ Length(CutAll(a)) <= Cut(w, NAME_SIZE - 1).len + 1 + Length(CutAll(message))
      /\ Length(CutAll(a)) \in Nat
  BY <1>2, <1>4, <1>5, PutBefore
<1>7. Cut(w, NAME_SIZE - 1).len <= NAME_SIZE - 1 /\ Cut(w, NAME_SIZE - 1).len \in Nat
  BY <1>2, CutLength
<1>8. /\ Length(CutAll(a)) <= MAX_MESSAGE + NAME_SIZE + 7
      /\ Length(a) <= MAX_MESSAGE + NAME_SIZE + 16
  BY <1>1, <1>2, <1>4, <1>6, <1>7, Limits
<1>9. PICK b : b = Put(Plain("to", 2), a)
  OBVIOUS
<1>10. /\ NoneEmpty(b)
       /\ Length(b) <= 2 + 1 + Length(a) /\ Length(b) \in Nat
       /\ Length(CutAll(b)) <= Cut(Plain("to", 2), NAME_SIZE - 1).len + 1 + Length(CutAll(a))
       /\ Length(CutAll(b)) \in Nat
  BY <1>6, <1>9, Literals, PutBefore
<1>11. /\ Cut(Plain("to", 2), NAME_SIZE - 1).len <= 2
       /\ Cut(Plain("to", 2), NAME_SIZE - 1).len \in Nat
  BY Literals, CutLength
<1>12. PICK rest : rest = Put(Plain("you", 3), b)
  OBVIOUS
<1>13. /\ NoneEmpty(rest) /\ rest # <<>> /\ rest[1] = Plain("you", 3)
       /\ Length(rest) <= 3 + 1 + Length(b) /\ Length(rest) \in Nat
       /\ Length(CutAll(rest)) <= Cut(Plain("you", 3), NAME_SIZE - 1).len + 1 + Length(CutAll(b))
       /\ Length(CutAll(rest)) \in Nat
  BY <1>10, <1>12, Literals, PutBefore
<1>14. /\ Cut(Plain("you", 3), NAME_SIZE - 1).len <= 3
       /\ Cut(Plain("you", 3), NAME_SIZE - 1).len \in Nat
  BY Literals, CutLength
<1>15. Length(CutAll(rest)) < JOIN_SIZE
  <2>1. Length(CutAll(b)) <= MAX_MESSAGE + NAME_SIZE + 10
    BY <1>6, <1>8, <1>10, <1>11, Limits
  <2>2. Length(CutAll(rest)) <= MAX_MESSAGE + NAME_SIZE + 14
    BY <1>10, <1>13, <1>14, <2>1, Limits
  <2> QED BY <1>13, <2>2, Limits
<1>16. Length(rest) <= MAX_MESSAGE + NAME_SIZE + 23
  BY <1>6, <1>8, <1>10, <1>13, Limits
<1>17. PICK text : text = Put(Dollar("say", 3), rest)
  OBVIOUS
<1>18. NoneEmpty(text) /\ Length(text) <= 4 + 1 + Length(rest) /\ Length(text) \in Nat
  BY <1>13, <1>17, Literals, PutBefore
<1>19. Length(text) < RESPONSE_BUFFER_SIZE - 1
  BY <1>13, <1>16, <1>18, Limits
<1>20. Fit(Fit(text, RESPONSE_BUFFER_SIZE), QUEUE_MSG_SIZE) = text
  BY <1>18, <1>19, AnswerFits
<1>21. AnswerOf(Dollar("say", 3), rest, HeadsOf(name))
  BY <1>13, <1>15, Literals DEF AnswerOf, HeadsOf
<1> QED BY <1>2, <1>3, <1>5, <1>9, <1>12, <1>17, <1>20, <1>21

\* A text that has at most so many characters.
Bounded(text, n) == NoneEmpty(text) /\ Length(text) \in Nat /\ Length(text) <= n

\* No words at all.
LEMMA NoWords == Bounded(<<>>, 0)
<1>1. PICK none : none = <<>>
  OBVIOUS
<1>2. NoneEmpty(none) /\ Length(none) = 0
  BY <1>1 DEF NoneEmpty, Length
<1> QED BY <1>1, <1>2 DEF Bounded

\* One word more in front.
LEMMA PutBounded ==
  ASSUME NEW w \in Word, NEW k \in Nat, w.len > 0, w.len <= k,
         NEW text, NEW n \in Nat, Bounded(text, n), NEW m \in Nat, m = n + k + 1
  PROVE  Bounded(Put(w, text), m)
<1>1. NoneEmpty(text) /\ Length(text) \in Nat /\ Length(text) <= n
  BY DEF Bounded
<1>2. PICK t : t = Put(w, text)
  OBVIOUS
<1>3. NoneEmpty(t) /\ Length(t) <= w.len + 1 + Length(text) /\ Length(t) \in Nat
  BY <1>1, <1>2, PutBefore
<1>4. w.len \in Nat
  BY DEF Word
<1>5. Length(t) <= m
  BY <1>1, <1>3, <1>4
<1> QED BY <1>2, <1>3, <1>5 DEF Bounded

\* A text of the server, with a name or without, fits the smallest of its buffers
\* and, cut, the buffer of join.
LEMMA ShortAnswer ==
  ASSUME NEW first \in Word, first.dollar, first.len > 1, first.len <= 16,
         NEW rest, Bounded(rest, NAME_SIZE + 40), NEW heads,
         \/ first = Dollar("say", 3) /\ rest # <<>> /\ rest[1] \in heads
         \/ KindOf(Undollared(first)) # "say",
         NEW size \in {MAX_MESSAGE, RESPONSE_BUFFER_SIZE}
  PROVE  /\ AnswerOf(first, rest, heads)
         /\ Fit(Fit(Put(first, rest), size), QUEUE_MSG_SIZE) = Put(first, rest)
<1>1. NoneEmpty(rest) /\ Length(rest) \in Nat /\ Length(rest) <= NAME_SIZE + 40
  BY DEF Bounded
<1>2. first.len \in Nat /\ first.len > 0
  <2>1. first.len \in Nat
    BY DEF Word
  <2> QED BY <2>1
<1>3. Length(CutAll(rest)) < JOIN_SIZE
  <2>1. CutAll(rest) \in Seq(Word) /\ Length(CutAll(rest)) <= Length(rest)
    BY <1>1, CutAllType DEF NoneEmpty
  <2>2. Length(CutAll(rest)) \in Nat
    BY <2>1, LengthBounds
  <2> QED BY <1>1, <2>1, <2>2, Limits
<1>4. AnswerOf(first, rest, heads)
  BY <1>1, <1>3 DEF AnswerOf
<1>5. PICK text : text = Put(first, rest)
  OBVIOUS
<1>6. NoneEmpty(text) /\ Length(text) <= first.len + 1 + Length(rest) /\ Length(text) \in Nat
  BY <1>1, <1>2, <1>5, PutBefore
<1>7. Length(text) <= NAME_SIZE + 57
  BY <1>1, <1>2, <1>6, Limits
<1>8. /\ size \in Nat /\ QUEUE_MSG_SIZE \in Nat
      /\ Length(text) < size - 1 /\ Length(text) < QUEUE_MSG_SIZE - 1
  BY <1>6, <1>7, Limits
<1>9. text \in Seq(Word)
  BY <1>6 DEF NoneEmpty
<1>10. Fit(text, size) = text /\ Fit(text, QUEUE_MSG_SIZE) = text
  BY <1>8, <1>9, FitWhole
<1> QED BY <1>4, <1>5, <1>10

\* The first words of all answers but a say$.
LEMMA SentWords ==
  \A w \in {Dollar("error", 5), Dollar("disconnresponse", 15), Dollar("connsuccess", 11),
            Dollar("mute", 4), Dollar("unmute", 6), Dollar("rename", 6)} :
    w \in Word /\ w.dollar /\ w.len > 1 /\ w.len <= 16 /\ KindOf(Undollared(w)) # "say"
<1>1. ASSUME NEW s \in Kinds, s # "say", NEW n \in Nat, n > 0, n <= 15, NEW w, w = Dollar(s, n)
      PROVE  w \in Word /\ w.dollar /\ w.len > 1 /\ w.len <= 16 /\ KindOf(Undollared(w)) # "say"
  <2>1. w \in Word /\ w.dollar /\ w.len = n + 1 /\ KindOf(Undollared(w)) = s
    BY <1>1, KindKept
  <2> QED BY <1>1, <2>1
<1>2. {"error", "disconnresponse", "connsuccess", "mute", "unmute", "rename"} \subseteq Kinds
  BY DEF Kinds
<1> QED BY <1>1, <1>2

\* The words of the text in which sayto does not find the receiver.
LEMMA NotFound ==
  ASSUME NEW whom \in Word, whom.len < NAME_SIZE
  PROVE  Bounded(Put(Text(4), Put(Text(3), Put(Text(6), Put(Bracketed(whom), <<>>)))),
                 NAME_SIZE + 40)
<1>1. whom.len \in Nat
  BY DEF Word
<1>2. PICK w \in Word : w = Bracketed(whom) /\ w.len = whom.len + 2 /\ w.len > 0
                        /\ w.len <= NAME_SIZE + 1
  <2>1. Bracketed(whom) \in Word /\ Bracketed(whom).len = whom.len + 2
    BY NamedWords
  <2> QED BY <1>1, <2>1, Limits
<1>3. PICK none : none = <<>>
  OBVIOUS
<1>4. Bounded(none, 0)
  BY <1>3, NoWords
<1>5. Bounded(Put(w, none), NAME_SIZE + 2)
  <2>1. NAME_SIZE + 1 \in Nat /\ NAME_SIZE + 2 \in Nat /\ NAME_SIZE + 2 = 0 + (NAME_SIZE + 1) + 1
    BY Limits
  <2> QED BY <1>2, <1>4, <2>1, PutBounded
<1>6. PICK a : a = Put(w, none)
  OBVIOUS
<1>7. Bounded(Put(Text(6), a), NAME_SIZE + 9)
  <2>1. /\ NAME_SIZE + 2 \in Nat /\ NAME_SIZE + 9 \in Nat /\ NAME_SIZE + 9 = NAME_SIZE + 2 + 6 + 1
        /\ Text(6) \in Word /\ Text(6).len > 0 /\ Text(6).len <= 6
    BY Limits, Literals
  <2> QED BY <1>5, <1>6, <2>1, PutBounded
<1>8. PICK b : b = Put(Text(6), a)
  OBVIOUS
<1>9. Bounded(Put(Text(3), b), NAME_SIZE + 13)
  <2>1. /\ NAME_SIZE + 9 \in Nat /\ NAME_SIZE + 13 \in Nat /\ NAME_SIZE + 13 = NAME_SIZE + 9 + 3 + 1
        /\ Text(3) \in Word /\ Text(3).len > 0 /\ Text(3).len <= 3
    BY Limits, Literals
  <2> QED BY <1>7, <1>8, <2>1, PutBounded
<1>10. PICK c : c = Put(Text(3), b)
  OBVIOUS
<1>11. Bounded(Put(Text(4), c), NAME_SIZE + 40)
  <2>1. /\ NAME_SIZE + 13 \in Nat /\ NAME_SIZE + 40 \in Nat /\ NAME_SIZE + 40 = NAME_SIZE + 13 + 26 + 1
        /\ Text(4) \in Word /\ Text(4).len > 0 /\ Text(4).len <= 26
    BY Limits, Literals
  <2> QED BY <1>9, <1>10, <2>1, PutBounded
<1> QED BY <1>2, <1>3, <1>6, <1>8, <1>10, <1>11

-----------------------------------------------------------------------------
(****************************************************************************)
(* What a command is made of.                                               *)
(****************************************************************************)
\* The filled args are the tokens after the first, cut.
LEMMA ArgsRead ==
  ASSUME NEW tokens \in Seq(Word), tokens # <<>>, Len(tokens) < MAX_COMMAND_LEN
  PROVE  /\ Filled(CommandOf(tokens).args, 1) \in Seq(Word)
         /\ \A i \in DOMAIN Filled(CommandOf(tokens).args, 1) :
              /\ i + 1 \in DOMAIN tokens
              /\ Filled(CommandOf(tokens).args, 1)[i] = Cut(tokens[i + 1], NAME_SIZE - 1)
<1>1. PICK args : args = CommandOf(tokens).args
  OBVIOUS
<1>2. \A i \in 1 .. MAX_CMD_SIZE :
        args[i] = IF i < Len(tokens) THEN Cut(tokens[i + 1], NAME_SIZE - 1) ELSE Empty
  BY <1>1 DEF CommandOf
<1>3. 1 \in 1 .. MAX_CMD_SIZE
  BY Limits
<1>4. PICK words : words = Filled(args, 1)
  OBVIOUS
<1>5. FilledFrom(words, args, 1)
  BY <1>1, <1>3, <1>4, CommandType, FilledWords
<1>6. words \in Seq(Word) /\ 1 + Len(words) \in 1 .. MAX_CMD_SIZE
  BY <1>5 DEF FilledFrom
<1>7. ASSUME NEW i \in DOMAIN words
      PROVE  i + 1 \in DOMAIN tokens /\ words[i] = Cut(tokens[i + 1], NAME_SIZE - 1)
  <2>1. words[i] = args[1 + i - 1] /\ words[i].len > 0 /\ 1 + i - 1 = i
    BY <1>5, <1>6 DEF FilledFrom
  <2>2. i \in 1 .. MAX_CMD_SIZE
    BY <1>6, Limits
  <2>3. words[i] = args[i]
    BY <2>1
  <2>4. i < Len(tokens)
    <3>1. CASE ~(i < Len(tokens))
      <4>1. words[i] = Empty
        BY <1>2, <2>2, <2>3, <3>1
      <4> QED BY <2>1, <4>1, EmptyWord
    <3> QED BY <3>1
  <2>5. words[i] = Cut(tokens[i + 1], NAME_SIZE - 1)
    BY <1>2, <2>2, <2>3, <2>4
  <2>6. i + 1 \in DOMAIN tokens
    BY <1>6, <2>4
  <2> QED BY <2>5, <2>6
<1> QED BY <1>1, <1>4, <1>6, <1>7

\* All of them, when there are not too many.
LEMMA ArgsReadWhole ==
  ASSUME NEW first \in Word, NEW rest, NoneEmpty(rest), Len(rest) + 1 < MAX_COMMAND_LEN
  PROVE  Filled(CommandOf(Put(first, rest)).args, 1) = CutAll(rest)
<1>1. PICK tokens : tokens = Put(first, rest)
  OBVIOUS
<1>2. rest \in Seq(Word)
  BY DEF NoneEmpty
<1>3. /\ tokens \in Seq(Word) /\ Len(tokens) = Len(rest) + 1
      /\ \A i \in DOMAIN rest : tokens[i + 1] = rest[i]
  BY <1>1, <1>2, OneMore DEF Put
<1>4. PICK args : args = CommandOf(tokens).args
  OBVIOUS
<1>5. ShortArgs(args)
  <2>1. tokens # <<>> /\ Len(tokens) < MAX_COMMAND_LEN
    BY <1>2, <1>3
  <2> QED BY <1>3, <1>4, <2>1, CommandType
<1>6. \A i \in 1 .. MAX_CMD_SIZE :
        args[i] = IF i < Len(tokens) THEN Cut(tokens[i + 1], NAME_SIZE - 1) ELSE Empty
  BY <1>4 DEF CommandOf
<1>7. PICK s : s = CutAll(rest)
  OBVIOUS
<1>8. /\ s \in Seq(Word) /\ Len(s) = Len(rest)
      /\ \A i \in DOMAIN s : s[i].len > 0
      /\ \A i \in DOMAIN rest : s[i] = Cut(rest[i], NAME_SIZE - 1)
  BY <1>7, CutAllType DEF NoneEmpty
<1>9. ASSUME NEW i \in DOMAIN s PROVE s[i] = args[1 + i - 1]
  <2>1. i \in DOMAIN rest /\ i \in 1 .. MAX_CMD_SIZE /\ i < Len(tokens) /\ 1 + i - 1 = i
    BY <1>2, <1>3, <1>8, Limits
  <2>2. s[i] = Cut(rest[i], NAME_SIZE - 1) /\ tokens[i + 1] = rest[i]
    BY <1>3, <1>8, <2>1
  <2>3. args[i] = Cut(tokens[i + 1], NAME_SIZE - 1)
    BY <1>6, <2>1
  <2> QED BY <2>1, <2>2, <2>3
<1>10. 1 + Len(s) \in 1 .. MAX_CMD_SIZE /\ args[1 + Len(s)].len = 0
  <2>1. 1 + Len(s) \in 1 .. MAX_CMD_SIZE /\ ~(1 + Len(s) < Len(tokens))
    BY <1>2, <1>3, <1>8, Limits
  <2>2. args[1 + Len(s)] = Empty
    BY <1>6, <2>1
  <2> QED BY <2>1, <2>2, EmptyWord
<1>11. FilledFrom(s, args, 1)
  BY <1>8, <1>9, <1>10 DEF FilledFrom
<1>12. 1 \in 1 .. MAX_CMD_SIZE
  BY Limits
<1> QED BY <1>1, <1>4, <1>5, <1>7, <1>11, <1>12, FilledOnce

\* What command_handler makes of the first token.
LEMMA CommandKinds ==
  /\ \A tokens \in Seq(Word) : CommandOf(tokens).kind = KindOf(tokens[1])
  /\ KindOf(Plain("say", 3)) = "say"
  /\ Undollared(Dollar("say", 3)) = Plain("say", 3)
<1>1. "say" \in Kinds /\ 3 \in Nat
  BY DEF Kinds
<1>2. \A tokens \in Seq(Word) : CommandOf(tokens).kind = KindOf(tokens[1])
  BY DEF CommandOf
<1>3. KindOf(Undollared(Dollar("say", 3))) = "say" /\ Undollared(Dollar("say", 3)) = Plain("say", 3)
  BY <1>1, KindKept
<1> QED BY <1>2, <1>3

\* The word at the beginning of what a client shows.
Begun(word, heads) == \E head \in heads : word = Cut(head, NAME_SIZE - 1)

\* What the client makes of an answer: args that fit join, the first who said it.
LEMMA AnswerRead ==
  ASSUME NEW first, NEW rest, NEW heads, AnswerOf(first, rest, heads),
         NEW text, text = Put(first, rest)
  PROVE  LET command1 == CommandOf(Tokens(text))
             words == Filled(command1.args, 1)
         IN  /\ Tokens(text) # <<>>
             /\ words \in Seq(Word) /\ Length(words) < JOIN_SIZE
             /\ command1.kind = "say" /\ words # <<>> => Begun(words[1], heads)
             /\ first = Dollar("say", 3) => command1.kind = "say"
             /\ Len(rest) + 1 < MAX_COMMAND_LEN => words = CutAll(rest)
<1>1. /\ first \in Word /\ first.dollar /\ first.len > 1 /\ NoneEmpty(rest)
      /\ Length(CutAll(rest)) < JOIN_SIZE
      /\ \/ first = Dollar("say", 3) /\ rest # <<>> /\ rest[1] \in heads
         \/ KindOf(Undollared(first)) # "say"
  BY DEF AnswerOf
<1>2. rest \in Seq(Word) /\ \A i \in DOMAIN rest : rest[i].len > 0
  BY <1>1 DEF NoneEmpty
<1>3. PICK u : u = Undollared(first)
  OBVIOUS
<1>4. u \in Word /\ u.len > 0
  <2>1. first.len \in Nat
    BY <1>1 DEF Word
  <2>2. first.len > 0 /\ first.len - 1 > 0
    BY <1>1, <2>1
  <2> QED BY <1>1, <1>3, <2>2, UndollaredWord
<1>5. PICK all : all = Put(u, rest)
  OBVIOUS
<1>6. /\ all \in Seq(Word) /\ Len(all) = Len(rest) + 1 /\ all[1] = u
      /\ \A i \in DOMAIN rest : all[i + 1] = rest[i]
  BY <1>2, <1>4, <1>5, OneMore DEF Put
<1>7. all # <<>> /\ \A i \in DOMAIN all : all[i].len > 0
  BY <1>1, <1>4, <1>5, PutBefore DEF NoneEmpty
<1>8. text \in Seq(Word) /\ RemoveDollarSign(text) = all
  <2>1. first.len > 0
    <3>1. first.len \in Nat
      BY <1>1 DEF Word
    <3> QED BY <1>1, <3>1
  <2>2. <<first>> \o rest \in Seq(Word)
    BY <1>1, <1>2, OneMore
  <2>3. RemoveDollarSign(<<first>> \o rest) = <<Undollared(first)>> \o rest
    BY <1>1, <1>2, <2>1, RemovedFirst
  <2> QED BY <1>3, <1>5, <2>2, <2>3 DEF Put
<1>9. PICK tokens : tokens = Tokens(text)
  OBVIOUS
<1>10. /\ tokens \in Seq(Word) /\ Len(tokens) < MAX_COMMAND_LEN /\ tokens # <<>>
       /\ Len(tokens) <= Len(all)
       /\ \A i \in DOMAIN tokens : tokens[i] = all[i]
       /\ Len(all) < MAX_COMMAND_LEN => tokens = all
  BY <1>6, <1>7, <1>8, <1>9, TokensType, TokensAreFirst
<1>11. PICK words : words = Filled(CommandOf(tokens).args, 1)
  OBVIOUS
<1>12. /\ words \in Seq(Word)
       /\ \A i \in DOMAIN words : /\ i + 1 \in DOMAIN tokens
                                  /\ words[i] = Cut(tokens[i + 1], NAME_SIZE - 1)
  BY <1>10, <1>11, ArgsRead
<1>13. ASSUME NEW i \in DOMAIN words
       PROVE  i \in DOMAIN rest /\ words[i] = Cut(rest[i], NAME_SIZE - 1)
  <2>1. i + 1 \in DOMAIN tokens /\ words[i] = Cut(tokens[i + 1], NAME_SIZE - 1)
    BY <1>12
  <2>2. i + 1 \in 1 .. Len(all) /\ tokens[i + 1] = all[i + 1]
    BY <1>6, <1>10, <2>1
  <2>3. i \in DOMAIN rest
    BY <1>2, <1>6, <1>12, <2>2
  <2> QED BY <1>6, <2>1, <2>2, <2>3
<1>14. PICK s : s = CutAll(rest)
  OBVIOUS
<1>15. /\ s \in Seq(Word) /\ Len(s) = Len(rest)
       /\ \A i \in DOMAIN rest : s[i] = Cut(rest[i], NAME_SIZE - 1)
  BY <1>1, <1>14, CutAllType DEF NoneEmpty
<1>16. Length(words) < JOIN_SIZE
  <2>1. Len(words) <= Len(s)
    <3>1. CASE words = <<>>
      BY <1>15, <3>1
    <3>2. CASE words # <<>>
      <4>1. Len(words) \in DOMAIN words
        BY <1>12, <3>2
      <4> QED BY <1>2, <1>13, <1>15, <4>1
    <3> QED BY <3>1, <3>2
  <2>2. ASSUME NEW i \in DOMAIN words PROVE words[i].len <= s[i].len
    <3>1. words[i] = s[i] /\ words[i].len \in Nat
      BY <1>12, <1>13, <1>15, LengthBounds
    <3> QED BY <3>1
  <2>3. Length(words) <= Length(s)
    BY <1>12, <1>15, <2>1, <2>2, LengthShorter
  <2>4. Length(words) \in Nat /\ Length(s) \in Nat
    BY <1>12, <1>15, LengthBounds
  <2> QED BY <1>1, <1>14, <2>3, <2>4, Limits
<1>17. CommandOf(tokens).kind = KindOf(u)
  <2>1. 1 \in DOMAIN tokens
    BY <1>10
  <2>2. tokens[1] = u
    BY <1>6, <1>10, <2>1
  <2> QED BY <1>10, <2>2, CommandKinds
<1>18. first = Dollar("say", 3) => CommandOf(tokens).kind = "say"
  BY <1>3, <1>17, CommandKinds
<1>19. ASSUME CommandOf(tokens).kind = "say", words # <<>> PROVE Begun(words[1], heads)
  <2>1. rest[1] \in heads
    BY <1>1, <1>3, <1>17, <1>19
  <2>2. 1 \in DOMAIN words
    BY <1>12, <1>19
  <2>3. words[1] = Cut(rest[1], NAME_SIZE - 1)
    BY <1>13, <2>2
  <2> QED BY <2>1, <2>3 DEF Begun
<1>20. ASSUME Len(rest) + 1 < MAX_COMMAND_LEN PROVE words = CutAll(rest)
  <2>1. tokens = Put(u, rest)
    BY <1>5, <1>6, <1>10, <1>20
  <2> QED BY <1>1, <1>4, <1>11, <1>20, <2>1, ArgsReadWhole
<1> QED BY <1>9, <1>10, <1>11, <1>12, <1>16, <1>18, <1>19, <1>20

\* The client finds the name of the sender in what it shows, unless the limit of
\* an arg took the colon.
LEMMA NameFound ==
  ASSUME NEW name \in Word, name.len < NAME_SIZE, name.len > 0, name.colon = 0, ~name.dollar,
         NEW text, text # <<>>, Begun(text[1], HeadsOf(name))
  PROVE  \/ Username(text) = name
         \/ Username(text) = Empty /\ (text[1] = Plain("you", 3) \/ name.len = NAME_SIZE - 1)
<1>1. PICK n \in Nat : n = name.len /\ n \in 1 .. NAME_SIZE - 1
  <2>1. name.len \in Nat
    BY DEF Word
  <2> QED BY <2>1, Limits
<1>2. PICK w : w = text[1]
  OBVIOUS
<1>3. ASSUME w = Plain("you", 3)
      PROVE  Username(text) = Empty
  <2>1. "you" \in Stem
    BY DEF Stem, Kinds, Formats
  <2>2. w.colon = 0 /\ ~(0 - 1 \in 1 .. NAME_SIZE - 1)
    BY <1>3, <2>1, LiteralWord, Limits
  <2> QED BY <1>2, <2>2 DEF Username
<1>4. ASSUME NEW k \in Nat, k > 0, NEW v, v = [name EXCEPT !.len = n + k, !.colon = n + 1,
                                                           !.dollar = FALSE],
             w = Cut(v, NAME_SIZE - 1)
      PROVE  Username(text) = name \/ (Username(text) = Empty /\ n = NAME_SIZE - 1)
  <2>1. /\ v \in Word /\ v.len = n + k /\ v.colon = n + 1
        /\ v.stem = name.stem /\ v.nth = name.nth /\ v.dollar = FALSE
    <3>1. PICK m \in Nat : m = n + k
      OBVIOUS
    <3>2. PICK c \in Nat : c = n + 1
      OBVIOUS
    <3>3. v = [name EXCEPT !.len = m, !.colon = c, !.dollar = FALSE]
      BY <1>4, <3>1, <3>2
    <3>4. /\ v \in Word /\ v.len = m /\ v.colon = c
          /\ v.stem = name.stem /\ v.nth = name.nth /\ v.dollar = FALSE
      BY <3>3 DEF Word
    <3> QED BY <3>1, <3>2, <3>4
  <2>2. CASE n = NAME_SIZE - 1
    <3>1. ~(v.len <= NAME_SIZE - 1) /\ v.colon > NAME_SIZE - 1
      <4>1. ~(n + k <= n) /\ n + 1 > n
        BY <1>4
      <4> QED BY <2>1, <2>2, <4>1
    <3>2. w.colon = 0
      BY <1>4, <2>1, <3>1 DEF Cut, Word
    <3>3. ~(0 - 1 \in 1 .. NAME_SIZE - 1)
      BY Limits
    <3>4. Username(text) = Empty
      BY <1>2, <3>2, <3>3 DEF Username
    <3> QED BY <2>2, <3>4
  <2>3. CASE n # NAME_SIZE - 1
    <3>1. ~(v.colon > NAME_SIZE - 1) /\ n + 1 - 1 = n
      BY <1>1, <2>1, <2>3, Limits
    <3>2. PICK l : w = [v EXCEPT !.len = l, !.colon = n + 1, !.dollar = FALSE]
      <4>1. CASE v.len <= NAME_SIZE - 1
        <5>1. w = v /\ v = [v EXCEPT !.len = v.len, !.colon = n + 1, !.dollar = FALSE]
          BY <1>4, <2>1, <4>1 DEF Cut, Word
        <5> QED BY <5>1
      <4>2. CASE ~(v.len <= NAME_SIZE - 1)
        BY <1>4, <2>1, <3>1, <4>2 DEF Cut
      <4> QED BY <4>1, <4>2
    <3>3. w.colon = n + 1
      BY <2>1, <3>2 DEF Word
    <3>4. w.colon - 1 = n /\ w.colon - 1 \in 1 .. NAME_SIZE - 1
      BY <1>1, <3>1, <3>3
    <3>5. Username(text) = [w EXCEPT !.len = w.colon - 1, !.colon = 0]
      BY <1>2, <3>4 DEF Username
    <3>6. Username(text) = [w EXCEPT !.len = n, !.colon = 0]
      BY <3>4, <3>5
    <3>7. [w EXCEPT !.len = n, !.colon = 0] = name
      BY <1>1, <2>1, <3>2 DEF Word
    <3> QED BY <3>6, <3>7
  <2> QED BY <2>2, <2>3
<1>5. Colon(name) = n + 1
  BY <1>1 DEF Colon
<1>6. /\ Named(name) = [name EXCEPT !.len = n + 1, !.colon = n + 1, !.dollar = FALSE]
      /\ NamedPrivate(name) = [name EXCEPT !.len = n + 9, !.colon = n + 1, !.dollar = FALSE]
  BY <1>1, <1>5 DEF Named, NamedPrivate
<1>7. 1 \in Nat /\ 1 > 0 /\ 9 \in Nat /\ 9 > 0
  OBVIOUS
<1>8. CASE w = Cut(Plain("you", 3), NAME_SIZE - 1)
  <2>1. Plain("you", 3).len <= NAME_SIZE - 1
    BY Literals, Limits
  <2>2. w = Plain("you", 3)
    BY <1>8, <2>1 DEF Cut
  <2> QED BY <1>2, <1>3, <2>2
<1>9. CASE w = Cut(Named(name), NAME_SIZE - 1)
  BY <1>1, <1>4, <1>6, <1>7, <1>9
<1>10. CASE w = Cut(NamedPrivate(name), NAME_SIZE - 1)
  BY <1>1, <1>4, <1>6, <1>7, <1>10
<1> QED BY <1>2, <1>8, <1>9, <1>10 DEF Begun, HeadsOf

\* And that of SERVER in the line of a kick$.
LEMMA ServerFound ==
  ASSUME NEW text, text # <<>>, Begun(text[1], {Named(Server)})
  PROVE  Username(text) = Server
<1>1. Server \in Only("SERVER", 6, FALSE)
  BY PlainOnly DEF Server
<1>2. PICK s : s = Server
  OBVIOUS
<1>3. PICK w : w = text[1]
  OBVIOUS
<1>4. PICK v : v = Named(s)
  OBVIOUS
<1>5. v = [s EXCEPT !.len = 7, !.colon = 7, !.dollar = FALSE]
  <2>1. s.len = 6 /\ s.colon = 0
    BY <1>1, <1>2 DEF Only
  <2>2. Colon(s) = 7 /\ s.len + 1 = 7
    BY <2>1 DEF Colon
  <2>3. PICK c : c = Colon(s)
    OBVIOUS
  <2>4. v = [s EXCEPT !.len = s.len + 1, !.colon = c, !.dollar = FALSE]
    BY <1>4, <2>3, Zenon DEF Named
  <2> QED BY <2>2, <2>3, <2>4
<1>6. v.len = 7 /\ v.colon = 7
  BY <1>1, <1>2, <1>5 DEF Only
<1>7. v.len <= NAME_SIZE - 1
  BY <1>6, Limits
<1>8. w = v
  BY <1>2, <1>3, <1>4, <1>7 DEF Begun, Cut
<1>9. w.colon - 1 = 6 /\ w.colon - 1 \in 1 .. NAME_SIZE - 1
  BY <1>6, <1>8, Limits
<1>10. Username(text) = [w EXCEPT !.len = 6, !.colon = 0]
  BY <1>3, <1>9 DEF Username
<1>11. [w EXCEPT !.len = 6, !.colon = 0] = s
  BY <1>1, <1>2, <1>5, <1>8 DEF Only
<1> QED BY <1>2, <1>10, <1>11

\* What the server reads of a say$ that keeps to the limits.
Whole(text, name) == Says(text) /\ InLimits(Tail(text)) /\ name.len < NAME_SIZE - 1

\* The words of a say$ that keeps to the limits.
LEMMA PlainMessage ==
  ASSUME NEW words \in Seq(Word), InLimits(words)
  PROVE  /\ Message(words) /\ NoneEmpty(words) /\ CutAll(words) = words
         /\ Len(words) + 2 < MAX_COMMAND_LEN
         /\ \A i \in DOMAIN words : ~words[i].dollar
<1>1. ASSUME NEW i \in DOMAIN words
      PROVE  words[i].len > 0 /\ ~words[i].dollar /\ Cut(words[i], NAME_SIZE - 1) = words[i]
  <2>1. words[i].len \in 1 .. NAME_SIZE - 1 /\ ~words[i].dollar
    BY DEF InLimits, Plainly
  <2>2. words[i].len > 0 /\ words[i].len <= NAME_SIZE - 1
    BY <2>1, Limits
  <2> QED BY <2>1, <2>2 DEF Cut
<1>2. Message(words) /\ NoneEmpty(words)
  BY <1>1 DEF Message, NoneEmpty, InLimits
<1>3. CutAll(words) = [i \in DOMAIN words |-> words[i]]
  BY <1>1 DEF CutAll
<1>4. [i \in DOMAIN words |-> words[i]] = words
  OBVIOUS
<1>5. Len(words) + 2 < MAX_COMMAND_LEN
  <2>1. Len(words) <= MAX_COMMAND_LEN - 3 /\ Len(words) \in Nat
    BY DEF InLimits
  <2> QED BY <2>1, Limits
<1> QED BY <1>1, <1>2, <1>3, <1>4, <1>5

\* What the server makes of a say$ that keeps to the limits.
LEMMA LineRead ==
  ASSUME NEW text \in Seq(Word), Says(text), InLimits(Tail(text))
  PROVE  /\ Fit(text, QUEUE_MSG_SIZE) = text
         /\ Tokens(text) # <<>>
         /\ CommandOf(Tokens(text)).kind = "say"
         /\ Filled(CommandOf(Tokens(text)).args, 1) = Tail(text)
<1>1. PICK tail : tail = Tail(text)
  OBVIOUS
<1>2. PICK w : w = text[1]
  OBVIOUS
<1>3. text # <<>> /\ (w = Dollar("say", 3) \/ w = Plain("say", 3))
  BY <1>2 DEF Says
<1>4. Follows(text, w, tail)
  <2>1. w \in Word /\ tail \in Seq(Word) /\ Len(text) = Len(tail) + 1
    BY <1>1, <1>2, <1>3
  <2>2. \A i \in DOMAIN tail : text[i + 1] = tail[i]
    BY <1>1, <1>3
  <2> QED BY <1>2, <2>1, <2>2 DEF Follows
<1>5. text = Put(w, tail) /\ tail \in Seq(Word) /\ w \in Word
  BY <1>4, FirstAndRest DEF Follows
<1>6. /\ Message(tail) /\ NoneEmpty(tail) /\ CutAll(tail) = tail /\ Len(tail) + 2 < MAX_COMMAND_LEN
      /\ \A i \in DOMAIN tail : ~tail[i].dollar
  BY <1>1, <1>5, PlainMessage
<1>7. /\ Plain("say", 3) \in Word /\ Plain("say", 3).len = 3 /\ ~Plain("say", 3).dollar
      /\ Dollar("say", 3) \in Word /\ Dollar("say", 3).len = 4 /\ Dollar("say", 3).dollar
  <2>1. "say" \in Stem
    BY DEF Stem, Kinds, Formats
  <2> QED BY <2>1, LiteralWord, Literals
<1>8. w.len \in Nat /\ w.len > 0 /\ w.len <= 4
  BY <1>3, <1>7
<1>9. Fit(text, QUEUE_MSG_SIZE) = text
  <2>1. Length(text) <= w.len + 1 + Length(tail) /\ Length(text) \in Nat
    BY <1>5, <1>6, <1>8, PutBefore
  <2>2. Length(tail) < MAX_MESSAGE - 1 /\ Length(tail) \in Nat
    BY <1>6, MessageText
  <2>3. Length(text) < QUEUE_MSG_SIZE - 1
    BY <1>8, <2>1, <2>2, Limits
  <2> QED BY <2>3, FitWhole, Limits
<1>10. RemoveDollarSign(text) = Put(Plain("say", 3), tail)
  <2>1. CASE w = Dollar("say", 3)
    <3>1. RemoveDollarSign(<<w>> \o tail) = <<Undollared(w)>> \o tail
      BY <1>5, <1>7, <1>8, <2>1, RemovedFirst
    <3> QED BY <1>5, <2>1, <3>1, CommandKinds DEF Put
  <2>2. CASE w = Plain("say", 3)
    <3>1. ASSUME NEW i \in DOMAIN text PROVE ~text[i].dollar
      <4>1. CASE i = 1
        BY <1>2, <1>7, <2>2, <4>1
      <4>2. CASE i # 1
        <5>1. i - 1 \in DOMAIN tail /\ i - 1 + 1 = i
          BY <1>4, <4>2 DEF Follows
        <5>2. text[i] = tail[i - 1]
          BY <1>4, <5>1 DEF Follows
        <5> QED BY <1>6, <5>1, <5>2
      <4> QED BY <4>1, <4>2
    <3>2. RemoveDollarSign(text) = text
      BY <3>1, RemovedNone
    <3> QED BY <1>5, <2>2, <3>2
  <2> QED BY <1>3, <2>1, <2>2
<1>11. PICK all : all = Put(Plain("say", 3), tail)
  OBVIOUS
<1>12. NoneEmpty(all) /\ all # <<>> /\ all[1] = Plain("say", 3)
  BY <1>6, <1>7, <1>11, PutBefore
<1>13. all \in Seq(Word) /\ Len(all) = Len(tail) + 1 /\ \A i \in DOMAIN all : all[i].len > 0
  BY <1>5, <1>7, <1>11, <1>12, OneMore DEF Put, NoneEmpty
<1>14. Len(all) < MAX_COMMAND_LEN /\ Len(tail) + 1 < MAX_COMMAND_LEN
  BY <1>5, <1>6, <1>13, Limits
<1>15. Tokens(text) = all
  BY <1>10, <1>11, <1>12, <1>13, <1>14, TokensAreFirst
<1>16. CommandOf(all).kind = "say"
  BY <1>12, <1>13, CommandKinds
<1>17. Filled(CommandOf(all).args, 1) = tail
  BY <1>6, <1>7, <1>11, <1>14, ArgsReadWhole
<1> QED BY <1>1, <1>9, <1>12, <1>15, <1>16, <1>17

-----------------------------------------------------------------------------
(****************************************************************************)
(* The invariant: what is known of the message at every stage.              *)
(****************************************************************************)
\* Who may be named at the beginning of the line shown.
Heads == IF Asked = "kick" THEN {Named(Server)} ELSE HeadsOf(from)

Queued == packet = Fit(line, QUEUE_MSG_SIZE)

AtServer ==
  /\ command.kind = Asked
  /\ Whole(line, from) => command.kind = "say" /\ Filled(command.args, 1) = Tail(line)

Answered ==
  /\ \E first, rest : packet = Put(first, rest) /\ AnswerOf(first, rest, Heads)
  /\ Whole(line, from) =>
       packet = Put(Dollar("say", 3), Put(Named(from), Tail(line)))

AtClient ==
  LET words == Filled(command.args, 1)
  IN  /\ words \in Seq(Word) /\ Length(words) < JOIN_SIZE
      /\ command.kind = "say" /\ words # <<>> => Begun(words[1], Heads)
      /\ Whole(line, from) => command.kind = "say" /\ words = Put(Named(from), Tail(line))

Done ==
  /\ shown # <<>> => Begun(shown[1], Heads)
  /\ Whole(line, from) => shown = Put(Named(from), Tail(line))

IInv ==
  /\ TypeOK
  /\ ShortArgs(command.args)
  /\ stage = "queued" => Queued
  /\ stage = "at_server" => AtServer
  /\ stage = "answered" => Answered
  /\ stage = "at_client" => AtClient
  /\ stage = "done" => Done
  /\ stage # "done" => shown = <<>>
  /\ stage # "unset_at_client"

\* What a line and a name are.
LEMMA TypedLine ==
  ASSUME line \in Line, from \in SenderName
  PROVE  line \in Seq(Word) /\ from \in Word /\ from.len < NAME_SIZE
BY TextAssumption

\* What the line says, and with it who may be named, is settled when it is typed.
LEMMA HeadsStay ==
  ASSUME line' = line, from' = from
  PROVE  Asked' = Asked /\ Heads' = Heads
<1>1. Asked' = Asked
  BY DEF Asked
<1> QED BY <1>1 DEF Heads, HeadsOf

\* command_handler on either side.
LEMMA ParseStep ==
  ASSUME IInv, NEW next, NEW unset, Parse(next, unset)
  PROVE  /\ command' \in Command /\ ShortArgs(command'.args)
         /\ Tokens(packet) # <<>> => command' = CommandOf(Tokens(packet)) /\ stage' = next
         /\ Tokens(packet) = <<>> => stage' = unset
         /\ line' = line /\ from' = from /\ packet' = packet /\ shown' = shown
<1>1. packet \in Seq(Word) /\ command \in Command /\ ShortArgs(command.args)
  BY DEF IInv, TypeOK
<1>2. PICK tokens : tokens = Tokens(packet)
  OBVIOUS
<1>3. tokens \in Seq(Word) /\ Len(tokens) < MAX_COMMAND_LEN
  BY <1>1, <1>2, TokensType
<1>4. /\ command' = IF tokens = <<>> THEN command ELSE CommandOf(tokens)
      /\ stage' = IF tokens = <<>> THEN unset ELSE next
      /\ line' = line /\ from' = from /\ packet' = packet /\ shown' = shown
  BY <1>2 DEF Parse
<1>5. command' \in Command /\ ShortArgs(command'.args)
  <2>1. CASE tokens = <<>>
    BY <1>1, <1>4, <2>1
  <2>2. CASE tokens # <<>>
    <3>1. CommandOf(tokens) \in Command /\ ShortArgs(CommandOf(tokens).args)
      BY <1>3, <2>2, CommandType
    <3> QED BY <1>4, <2>2, <3>1
  <2> QED BY <2>1, <2>2
<1> QED BY <1>2, <1>4, <1>5

\* q_append of the listener.
LEMMA QueueStep == IInv /\ ServerQueues => IInv'
<1> SUFFICES ASSUME IInv, ServerQueues PROVE IInv'
  OBVIOUS
<1>1. TypeOK /\ ShortArgs(command.args) /\ shown = <<>>
  BY DEF IInv, ServerQueues
<1>2. /\ stage' = "queued" /\ packet' = Fit(line, QUEUE_MSG_SIZE)
      /\ line' = line /\ from' = from /\ command' = command /\ shown' = shown
  BY DEF ServerQueues
<1>3. packet' \in Seq(Word)
  BY <1>1, <1>2, TypedLine, FitType, Limits DEF TypeOK
<1>4. TypeOK'
  BY <1>1, <1>2, <1>3 DEF TypeOK
<1>5. Queued'
  BY <1>2 DEF Queued
<1> QED BY <1>1, <1>2, <1>4, <1>5 DEF IInv

\* q_pop and command_handler of the server.
LEMMA ServerParseStep == IInv /\ ServerParses => IInv'
<1> SUFFICES ASSUME IInv, ServerParses PROVE IInv'
  OBVIOUS
<1>1. TypeOK /\ Queued /\ shown = <<>> /\ Parse("at_server", "unset_at_server")
  BY DEF IInv, ServerParses
<1>2. packet \in Seq(Word) /\ line \in Seq(Word)
  BY <1>1, TypedLine DEF TypeOK
<1>3. PICK tokens : tokens = Tokens(packet)
  OBVIOUS
<1>4. tokens \in Seq(Word)
  BY <1>2, <1>3, TokensType
<1>5. /\ command' \in Command /\ ShortArgs(command'.args)
      /\ tokens # <<>> => command' = CommandOf(tokens) /\ stage' = "at_server"
      /\ tokens = <<>> => stage' = "unset_at_server"
      /\ line' = line /\ from' = from /\ packet' = packet /\ shown' = shown
  BY <1>1, <1>3, ParseStep
<1>6. TypeOK'
  BY <1>1, <1>5 DEF TypeOK
<1>7. ASSUME tokens # <<>> PROVE AtServer'
  <2>1. command'.kind = KindOf(tokens[1])
    BY <1>4, <1>5, <1>7, CommandKinds
  <2>2. Asked = KindOf(tokens[1])
    BY <1>1, <1>3, <1>7 DEF Asked, Queued
  <2>3. command'.kind = Asked'
    BY <1>5, <2>1, <2>2, HeadsStay
  <2>4. ASSUME Whole(line, from)
        PROVE  command'.kind = "say" /\ Filled(command'.args, 1) = Tail(line)
    <3>1. Says(line) /\ InLimits(Tail(line))
      BY <2>4 DEF Whole
    <3>2. /\ packet = line
          /\ CommandOf(Tokens(line)).kind = "say"
          /\ Filled(CommandOf(Tokens(line)).args, 1) = Tail(line)
      BY <1>1, <1>2, <3>1, LineRead DEF Queued
    <3> QED BY <1>3, <1>5, <1>7, <3>2
  <2> QED BY <1>5, <2>3, <2>4 DEF AtServer
<1> QED BY <1>1, <1>5, <1>6, <1>7 DEF IInv

\* A handler that answers nothing.
LEMMA SilenceStep ==
  ASSUME IInv, stage = "at_server", command.kind # "say", Silence
  PROVE  IInv'
<1>1. TypeOK /\ ShortArgs(command.args) /\ AtServer /\ shown = <<>>
  BY DEF IInv
<1>2. /\ stage' = "done"
      /\ line' = line /\ from' = from /\ packet' = packet /\ command' = command /\ shown' = shown
  BY DEF Silence
<1>3. TypeOK'
  BY <1>1, <1>2 DEF TypeOK
<1>4. Done'
  BY <1>1, <1>2 DEF Done, AtServer
<1> QED BY <1>1, <1>2, <1>3, <1>4 DEF IInv

\* q_pop and command_handler of the client.
LEMMA ClientParseStep == IInv /\ ClientParses => IInv'
<1> SUFFICES ASSUME IInv, ClientParses PROVE IInv'
  OBVIOUS
<1>1. TypeOK /\ Answered /\ shown = <<>> /\ Parse("at_client", "unset_at_client")
  BY DEF IInv, ClientParses
<1>3. packet \in Seq(Word) /\ line \in Seq(Word) /\ from \in Word /\ from.len < NAME_SIZE
  BY <1>1, TypedLine DEF TypeOK
<1>4. /\ command' \in Command /\ ShortArgs(command'.args)
      /\ Tokens(packet) # <<>> => command' = CommandOf(Tokens(packet)) /\ stage' = "at_client"
      /\ Tokens(packet) = <<>> => stage' = "unset_at_client"
      /\ line' = line /\ from' = from /\ packet' = packet /\ shown' = shown
  BY <1>1, ParseStep
<1>2. Heads' = Heads
  BY <1>4, HeadsStay
<1>6. PICK first, rest : packet = Put(first, rest) /\ AnswerOf(first, rest, Heads)
  BY <1>1 DEF Answered
<1>7. PICK words : words = Filled(CommandOf(Tokens(packet)).args, 1)
  OBVIOUS
<1>8. /\ Tokens(packet) # <<>>
      /\ words \in Seq(Word) /\ Length(words) < JOIN_SIZE
      /\ CommandOf(Tokens(packet)).kind = "say" /\ words # <<>> => Begun(words[1], Heads)
  BY <1>6, <1>7, AnswerRead
<1>9. ASSUME Whole(line, from)
      PROVE  CommandOf(Tokens(packet)).kind = "say" /\ words = Put(Named(from), Tail(line))
  <2>1. PICK tail : tail = Tail(line)
    OBVIOUS
  <2>2. InLimits(tail) /\ tail \in Seq(Word) /\ from.len < NAME_SIZE - 1
    BY <1>3, <1>9, <2>1 DEF Whole, Says
  <2>3. /\ Message(tail) /\ NoneEmpty(tail) /\ CutAll(tail) = tail
        /\ Len(tail) + 2 < MAX_COMMAND_LEN
    BY <2>2, PlainMessage
  <2>4. PICK full : full = Put(Named(from), tail)
    OBVIOUS
  <2>5. packet = Put(Dollar("say", 3), full)
    BY <1>1, <1>9, <2>1, <2>4 DEF Answered
  <2>6. AnswerOf(Dollar("say", 3), full, HeadsOf(from))
    BY <1>3, <2>3, <2>4, SayAnswer
  <2>7. Named(from) \in Word /\ Named(from).len = from.len + 1 /\ from.len \in Nat
    BY <1>3, NamedWords DEF Word
  <2>8. Named(from).len > 0 /\ Cut(Named(from), NAME_SIZE - 1) = Named(from)
    <3>1. Named(from).len > 0 /\ Named(from).len <= NAME_SIZE - 1
      BY <2>2, <2>7, Limits
    <3> QED BY <3>1 DEF Cut
  <2>9. CutAll(full) = full
    BY <2>3, <2>4, <2>7, <2>8, PutBefore
  <2>10. Len(full) + 1 < MAX_COMMAND_LEN
    <3>1. Len(full) = Len(tail) + 1 /\ Len(tail) \in Nat
      BY <2>2, <2>4, <2>7, OneMore DEF Put
    <3> QED BY <2>3, <3>1
  <2>11. CommandOf(Tokens(packet)).kind = "say" /\ words = CutAll(full)
    BY <1>7, <2>5, <2>6, <2>10, AnswerRead
  <2> QED BY <2>1, <2>4, <2>9, <2>11
<1>5. TypeOK'
  BY <1>1, <1>4, <1>8 DEF TypeOK
<1>10. AtClient'
  <2>1. command' = CommandOf(Tokens(packet)) /\ Filled(command'.args, 1) = words
    BY <1>4, <1>7, <1>8
  <2> QED BY <1>2, <1>4, <1>8, <1>9, <2>1 DEF AtClient
<1> QED BY <1>1, <1>4, <1>5, <1>8, <1>10 DEF IInv

\* say_exec.
LEMMA ShowStep == IInv /\ ClientShows => IInv'
<1> SUFFICES ASSUME IInv, ClientShows PROVE IInv'
  OBVIOUS
<1>1. TypeOK /\ ShortArgs(command.args) /\ AtClient
  BY DEF IInv, ClientShows
<1>2. /\ stage' = "done"
      /\ shown' = IF command.kind = "say" THEN Filled(command.args, 1) ELSE <<>>
      /\ line' = line /\ from' = from /\ packet' = packet /\ command' = command
  BY DEF ClientShows
<1>3. shown' \in Seq(Word)
  <2>1. Filled(command.args, 1) \in Seq(Word) /\ <<>> \in Seq(Word)
    BY <1>1 DEF AtClient
  <2> QED BY <1>2, <2>1
<1>4. TypeOK'
  BY <1>1, <1>2, <1>3 DEF TypeOK
<1>5. Done'
  BY <1>1, <1>2, HeadsStay DEF Done, AtClient
<1> QED BY <1>1, <1>2, <1>4, <1>5 DEF IInv

\* An answer as the invariant knows it.
LEMMA AnswerStep ==
  ASSUME IInv, NEW text, NEW size, Answer(text, size),
         NEW first, NEW rest, text = Put(first, rest),
         AnswerOf(first, rest, Heads), Fit(Fit(text, size), QUEUE_MSG_SIZE) = text,
         stage = "at_server",
         Whole(line, from) => text = Put(Dollar("say", 3), Put(Named(from), Tail(line)))
  PROVE  IInv'
<1>1. TypeOK /\ ShortArgs(command.args) /\ shown = <<>>
  BY DEF IInv
<1>2. /\ stage' = "answered" /\ packet' = text
      /\ line' = line /\ from' = from /\ command' = command /\ shown' = shown
  BY DEF Answer
<1>3. packet' \in Seq(Word)
  <2>1. first \in Word /\ rest \in Seq(Word)
    BY DEF AnswerOf, NoneEmpty
  <2>2. <<first>> \o rest \in Seq(Word)
    BY <2>1, OneMore
  <2> QED BY <1>2, <2>2 DEF Put
<1>4. TypeOK'
  BY <1>1, <1>2, <1>3 DEF TypeOK
<1>5. Answered'
  BY <1>2, HeadsStay DEF Answered
<1> QED BY <1>1, <1>2, <1>4, <1>5 DEF IInv

\* say.
LEMMA SayStep == IInv /\ ServerSay => IInv'
<1> SUFFICES ASSUME IInv, ServerSay PROVE IInv'
  OBVIOUS
<1>1. TypeOK /\ ShortArgs(command.args) /\ AtServer /\ stage = "at_server"
  BY DEF IInv, ServerSay
<1>2. from \in Word /\ from.len < NAME_SIZE /\ line \in Seq(Word)
  BY <1>1, TypedLine DEF TypeOK
<1>3. PICK words : words = JoinArgs(command.args, 1)
  OBVIOUS
<1>4. Message(words)
  <2>1. 1 \in 1 .. MAX_CMD_SIZE
    BY Limits
  <2> QED BY <1>1, <1>3, <2>1, JoinedType
<1>5. PICK rest : rest = Put(Named(from), words)
  OBVIOUS
<1>6. PICK text : text = Put(Dollar("say", 3), rest)
  OBVIOUS
<1>7. /\ AnswerOf(Dollar("say", 3), rest, HeadsOf(from))
      /\ Fit(rest, MAX_MESSAGE + MAX_NAME_LEN + 2) = rest
      /\ Fit(Fit(text, RESPONSE_BUFFER_SIZE), QUEUE_MSG_SIZE) = text
  BY <1>2, <1>4, <1>5, <1>6, SayAnswer
<1>8. Answer(text, RESPONSE_BUFFER_SIZE)
  <2>1. Answer(Put(Dollar("say", 3), Fit(Put(Named(from), JoinArgs(command.args, 1)),
                                         MAX_MESSAGE + MAX_NAME_LEN + 2)), RESPONSE_BUFFER_SIZE)
    BY DEF ServerSay, Put
  <2> QED BY <1>3, <1>5, <1>6, <1>7, <2>1
<1>9. ASSUME Whole(line, from) PROVE words = Tail(line)
  <2>1. Says(line) /\ InLimits(Tail(line)) /\ Tail(line) \in Seq(Word)
    BY <1>2, <1>9 DEF Whole, Says
  <2>2. Message(Tail(line)) /\ Filled(command.args, 1) = Tail(line)
    BY <1>1, <1>9, <2>1, PlainMessage DEF AtServer
  <2> QED BY <1>3, <2>2, JoinedWhole
<1>10. Whole(line, from) => text = Put(Dollar("say", 3), Put(Named(from), Tail(line)))
  BY <1>5, <1>6, <1>9
<1>11. Heads = HeadsOf(from)
  BY <1>1 DEF ServerSay, AtServer, Heads
<1> QED BY <1>1, <1>6, <1>7, <1>8, <1>10, <1>11, AnswerStep

\* sayto, to each of those it may answer.
LEMMA SaytoStep == IInv /\ ServerSayto => IInv'
<1> SUFFICES ASSUME IInv, ServerSayto PROVE IInv'
  OBVIOUS
<1>1. TypeOK /\ ShortArgs(command.args) /\ AtServer /\ stage = "at_server"
  BY DEF IInv, ServerSayto
<1>2. from \in Word /\ from.len < NAME_SIZE
  BY <1>1, TypedLine DEF TypeOK
<1>3. ~Whole(line, from)
  BY <1>1 DEF ServerSayto, AtServer
<1>4. PICK whom : whom = command.args[1]
  OBVIOUS
<1>5. whom \in Word /\ whom.len < NAME_SIZE
  <2>1. 1 \in 1 .. MAX_CMD_SIZE
    BY Limits
  <2> QED BY <1>1, <1>4, <2>1 DEF ShortArgs, Args
<1>6. PICK words : words = JoinArgs(command.args, 2)
  OBVIOUS
<1>7. Message(words)
  <2>1. 2 \in 1 .. MAX_CMD_SIZE
    BY Limits
  <2> QED BY <1>1, <1>6, <2>1, JoinedType
<1>8. PICK message : message = Put(Plain("message)", 8), words)
  OBVIOUS
<1>9. message \in Seq(Word)
  BY <1>7, <1>8, PrivateMessage DEF NoneEmpty
<1>10. /\ NamedPrivate(from) \in Word /\ NamedPrivate(whom) \in Word /\ Bracketed(whom) \in Word
  BY <1>2, <1>5, NamedWords
<1>11. \/ Answer(<<Dollar("say", 3), NamedPrivate(from)>> \o message, RESPONSE_BUFFER_SIZE)
       \/ Answer(<<Dollar("say", 3), Plain("you", 3), Plain("to", 2), NamedPrivate(whom)>>
                   \o message, RESPONSE_BUFFER_SIZE)
       \/ Answer(<<Dollar("error", 5), Text(4), Text(3), Text(6), Bracketed(whom)>>,
                 RESPONSE_BUFFER_SIZE)
  BY <1>4, <1>6, <1>8, Zenon DEF ServerSayto, Put
<1>16. Heads = HeadsOf(from)
  BY <1>1 DEF ServerSayto, AtServer, Heads
<1>12. CASE Answer(<<Dollar("say", 3), NamedPrivate(from)>> \o message, RESPONSE_BUFFER_SIZE)
  <2>1. PICK rest : rest = Put(NamedPrivate(from), message)
    OBVIOUS
  <2>2. PICK text : text = Put(Dollar("say", 3), rest)
    OBVIOUS
  <2>3. Answer(text, RESPONSE_BUFFER_SIZE)
    <3>1. <<Dollar("say", 3), NamedPrivate(from)>> \o message
            = Put(Dollar("say", 3), Put(NamedPrivate(from), message))
      <4>1. Dollar("say", 3) \in Word
        BY Literals
      <4> QED BY <1>9, <1>10, <4>1, TwoMore, Zenon
    <3> QED BY <1>12, <2>1, <2>2, <3>1, Zenon
  <2>4. /\ AnswerOf(Dollar("say", 3), rest, HeadsOf(from))
        /\ Fit(Fit(text, RESPONSE_BUFFER_SIZE), QUEUE_MSG_SIZE) = text
    BY <1>2, <1>7, <1>8, <2>1, <2>2, ReceiverAnswer
  <2> QED BY <1>1, <1>3, <1>16, <2>2, <2>3, <2>4, AnswerStep
<1>13. CASE Answer(<<Dollar("say", 3), Plain("you", 3), Plain("to", 2), NamedPrivate(whom)>>
                     \o message, RESPONSE_BUFFER_SIZE)
  <2>1. PICK rest : rest = Put(Plain("you", 3), Put(Plain("to", 2), Put(NamedPrivate(whom), message)))
    OBVIOUS
  <2>2. PICK text : text = Put(Dollar("say", 3), rest)
    OBVIOUS
  <2>3. Answer(text, RESPONSE_BUFFER_SIZE)
    <3>1. <<Dollar("say", 3), Plain("you", 3), Plain("to", 2), NamedPrivate(whom)>> \o message
            = Put(Dollar("say", 3), Put(Plain("you", 3), Put(Plain("to", 2),
                  Put(NamedPrivate(whom), message))))
      <4>1. Dollar("say", 3) \in Word /\ Plain("you", 3) \in Word /\ Plain("to", 2) \in Word
        BY Literals
      <4>2. PICK a : a = Dollar("say", 3)
        OBVIOUS
      <4>3. PICK b : b = Plain("you", 3)
        OBVIOUS
      <4>4. PICK c : c = Plain("to", 2)
        OBVIOUS
      <4>5. PICK d : d = NamedPrivate(whom)
        OBVIOUS
      <4>6. a \in Word /\ b \in Word /\ c \in Word /\ d \in Word
        BY <1>10, <4>1, <4>2, <4>3, <4>4, <4>5
      <4>7. <<a, b, c, d>> \o message = Put(a, Put(b, Put(c, Put(d, message))))
        BY <1>9, <4>6, FourMore
      <4> QED BY <4>2, <4>3, <4>4, <4>5, <4>7, Zenon
    <3> QED BY <1>13, <2>1, <2>2, <3>1, Zenon
  <2>4. /\ AnswerOf(Dollar("say", 3), rest, HeadsOf(from))
        /\ Fit(Fit(text, RESPONSE_BUFFER_SIZE), QUEUE_MSG_SIZE) = text
    BY <1>5, <1>7, <1>8, <2>1, <2>2, SenderAnswer
  <2> QED BY <1>1, <1>3, <1>16, <2>2, <2>3, <2>4, AnswerStep
<1>14. CASE Answer(<<Dollar("error", 5), Text(4), Text(3), Text(6), Bracketed(whom)>>,
                   RESPONSE_BUFFER_SIZE)
  <2>1. PICK rest : rest = Put(Text(4), Put(Text(3), Put(Text(6), Put(Bracketed(whom), <<>>))))
    OBVIOUS
  <2>2. PICK text : text = Put(Dollar("error", 5), rest)
    OBVIOUS
  <2>3. Answer(text, RESPONSE_BUFFER_SIZE)
    <3>1. <<Dollar("error", 5), Text(4), Text(3), Text(6), Bracketed(whom)>>
            = Put(Dollar("error", 5), Put(Text(4), Put(Text(3), Put(Text(6),
                  Put(Bracketed(whom), <<>>)))))
      <4>1. Dollar("error", 5) \in Word /\ Text(4) \in Word /\ Text(3) \in Word /\ Text(6) \in Word
        BY Literals
      <4>2. PICK a : a = Dollar("error", 5)
        OBVIOUS
      <4>3. PICK b : b = Text(4)
        OBVIOUS
      <4>4. PICK c : c = Text(3)
        OBVIOUS
      <4>5. PICK d : d = Text(6)
        OBVIOUS
      <4>6. PICK e : e = Bracketed(whom)
        OBVIOUS
      <4>7. a \in Word /\ b \in Word /\ c \in Word /\ d \in Word /\ e \in Word
        BY <1>10, <4>1, <4>2, <4>3, <4>4, <4>5, <4>6
      <4>8. <<a, b, c, d, e>> = Put(a, Put(b, Put(c, Put(d, Put(e, <<>>)))))
        BY <4>7, FiveWords
      <4> QED BY <4>2, <4>3, <4>4, <4>5, <4>6, <4>8, Zenon
    <3> QED BY <1>14, <2>1, <2>2, <3>1, Zenon
  <2>4. /\ AnswerOf(Dollar("error", 5), rest, Heads)
        /\ Fit(Fit(text, RESPONSE_BUFFER_SIZE), QUEUE_MSG_SIZE) = text
    <3>1. Bounded(rest, NAME_SIZE + 40)
      BY <1>5, <2>1, NotFound
    <3> QED BY <2>2, <3>1, SentWords, ShortAnswer
  <2> QED BY <1>1, <1>3, <2>2, <2>3, <2>4, AnswerStep
<1> QED BY <1>11, <1>12, <1>13, <1>14

\* Any other answer.
LEMMA ShortStep ==
  ASSUME IInv, stage = "at_server", command.kind # "say",
         NEW first \in Word, first.dollar, first.len > 1, first.len <= 16,
         NEW rest, Bounded(rest, NAME_SIZE + 40),
         \/ first = Dollar("say", 3) /\ rest # <<>> /\ rest[1] \in Heads
         \/ KindOf(Undollared(first)) # "say",
         NEW size \in {MAX_MESSAGE, RESPONSE_BUFFER_SIZE},
         Answer(Put(first, rest), size)
  PROVE  IInv'
<1>1. ~Whole(line, from)
  BY DEF IInv, AtServer
<1>2. PICK text : text = Put(first, rest)
  OBVIOUS
<1>3. AnswerOf(first, rest, Heads) /\ Fit(Fit(text, size), QUEUE_MSG_SIZE) = text
  <2>1. PICK heads : heads = Heads
    OBVIOUS
  <2>2. AnswerOf(first, rest, heads) /\ Fit(Fit(text, size), QUEUE_MSG_SIZE) = text
    BY <1>2, <2>1, ShortAnswer
  <2> QED BY <2>1, <2>2
<1> QED BY <1>1, <1>2, <1>3, AnswerStep

\* A name on its own.
LEMMA SpacedName ==
  ASSUME NEW name \in Word, name.len < NAME_SIZE
  PROVE  Bounded(Spaced(name), NAME_SIZE + 40)
<1>1. name.len \in Nat
  BY DEF Word
<1>2. CASE name.len = 0
  <2>1. Bounded(<<>>, 0)
    BY NoWords
  <2>2. Bounded(<<>>, NAME_SIZE + 40)
    <3>1. PICK none : none = <<>>
      OBVIOUS
    <3>2. NoneEmpty(none) /\ Length(none) \in Nat /\ Length(none) <= 0
      BY <2>1, <3>1 DEF Bounded
    <3>3. Length(none) <= NAME_SIZE + 40
      BY <3>2, Limits
    <3> QED BY <3>1, <3>2, <3>3 DEF Bounded
  <2> QED BY <1>2, <2>2 DEF Spaced
<1>3. CASE name.len # 0
  <2>1. PICK none : none = <<>>
    OBVIOUS
  <2>2. /\ NAME_SIZE + 39 \in Nat /\ NAME_SIZE + 40 \in Nat /\ NAME_SIZE + 40 = 0 + (NAME_SIZE + 39) + 1
        /\ name.len > 0 /\ name.len <= NAME_SIZE + 39
    BY <1>1, <1>3, Limits
  <2>3. Bounded(none, 0)
    BY <2>1, NoWords
  <2>4. Bounded(Put(name, none), NAME_SIZE + 40)
    BY <2>2, <2>3, PutBounded
  <2>5. <<name>> \o <<>> = <<name>>
    <3>1. <<name>> \in Seq(Word)
      OBVIOUS
    <3> QED BY <3>1, ConcatEmptySeq, Zenon
  <2>6. Put(name, <<>>) = <<name>>
    BY <2>5, Zenon DEF Put
  <2> QED BY <1>3, <2>1, <2>4, <2>6 DEF Spaced
<1> QED BY <1>2, <1>3

\* A text of one word.
LEMMA OneWord ==
  ASSUME NEW w \in Word
  PROVE  <<w>> = Put(w, <<>>)
<1>1. <<w>> \in Seq(Word)
  OBVIOUS
<1>2. <<w>> \o <<>> = <<w>>
  BY <1>1, ConcatEmptySeq, Zenon
<1> QED BY <1>2, Zenon DEF Put

\* A text of three words.
LEMMA ThreeWords ==
  ASSUME NEW a \in Word, NEW b \in Word, NEW c \in Word
  PROVE  <<a, b, c>> = Put(a, Put(b, Put(c, <<>>)))
<1>1. PICK s : s = <<a, b, c>>
  OBVIOUS
<1>2. PICK r : r = <<b, c>>
  OBVIOUS
<1>3. PICK q : q = <<c>>
  OBVIOUS
<1>4. Follows(s, a, r) /\ Follows(r, b, q)
  BY <1>1, <1>2, <1>3 DEF Follows
<1>5. s = Put(a, r) /\ r = Put(b, q)
  BY <1>4, FirstAndRest
<1>6. q = Put(c, <<>>)
  BY <1>3, OneWord, Zenon
<1> QED BY <1>1, <1>5, <1>6, Zenon

\* And that of Permission denied.
LEMMA RefusedText ==
  ASSUME NEW a \in Word
  PROVE  <<a, Text(10), Text(7), Text(4), Text(5), Text(3), Text(4), Text(6)>>
           = Put(a, Put(Text(10), Put(Text(7), Put(Text(4), Put(Text(5), Put(Text(3),
               Put(Text(4), Put(Text(6), <<>>))))))))
<1>1. PICK b \in Word : b = Text(10)
  BY Literals
<1>2. PICK c \in Word : c = Text(7)
  BY Literals
<1>3. PICK d \in Word : d = Text(4)
  BY Literals
<1>4. PICK e \in Word : e = Text(5)
  BY Literals
<1>5. PICK f \in Word : f = Text(3)
  BY Literals
<1>6. PICK g \in Word : g = Text(4)
  BY Literals
<1>7. PICK h \in Word : h = Text(6)
  BY Literals
<1>8. PICK s : s = <<a, b, c, d, e, f, g, h>>
  OBVIOUS
<1>9. PICK r : r = <<b, c, d, e, f, g, h>>
  OBVIOUS
<1>10. PICK q : q = <<c, d, e, f, g, h>>
  OBVIOUS
<1>11. PICK p : p = <<d, e, f, g, h>>
  OBVIOUS
<1>12. Follows(s, a, r)
  BY <1>8, <1>9 DEF Follows
<1>13. Follows(r, b, q)
  BY <1>9, <1>10 DEF Follows
<1>14. Follows(q, c, p)
  BY <1>10, <1>11 DEF Follows
<1>15. s = Put(a, r) /\ r = Put(b, q) /\ q = Put(c, p)
  BY <1>12, <1>13, <1>14, FirstAndRest
<1>16. p = Put(d, Put(e, Put(f, Put(g, Put(h, <<>>)))))
  <2>1. <<d, e, f, g, h>> = Put(d, Put(e, Put(f, Put(g, Put(h, <<>>)))))
    BY FiveWords
  <2> QED BY <1>11, <2>1, Zenon
<1>17. <<a, b, c, d, e, f, g, h>>
         = Put(a, Put(b, Put(c, Put(d, Put(e, Put(f, Put(g, Put(h, <<>>))))))))
  BY <1>8, <1>15, <1>16, Zenon
<1> QED BY <1>17, <1>1, <1>2, <1>3, <1>4, <1>5, <1>6, <1>7, Zenon

\* An error without a name: Permission denied, Unknown command.
LEMMA Errors ==
  /\ Bounded(Put(Text(10), Put(Text(7), Put(Text(4), Put(Text(5), Put(Text(3), Put(Text(4),
               Put(Text(6), <<>>))))))), NAME_SIZE + 40)
  /\ Bounded(Put(Text(7), Put(Text(7), <<>>)), NAME_SIZE + 40)
<1>1. ASSUME NEW k \in Nat, k > 0, NEW text, NEW n \in Nat, Bounded(text, n), NEW m \in Nat,
             m = n + k + 1
      PROVE  Bounded(Put(Text(k), text), m)
  <2>1. Text(k) \in Word /\ Text(k).len > 0 /\ Text(k).len <= k
    BY <1>1, Literals
  <2> QED BY <1>1, <2>1, PutBounded
<1>2. PICK none : none = <<>>
  OBVIOUS
<1>3. Bounded(none, 0)
  BY <1>2, NoWords
<1>4. PICK a : a = Put(Text(6), none)
  OBVIOUS
<1>5. Bounded(a, 7)
  <2>1. 0 \in Nat /\ 6 \in Nat /\ 6 > 0 /\ 7 \in Nat /\ 7 = 0 + 6 + 1
    OBVIOUS
  <2> QED BY <1>1, <1>3, <1>4, <2>1
<1>6. PICK b : b = Put(Text(4), a)
  OBVIOUS
<1>7. Bounded(b, 12)
  <2>1. 7 \in Nat /\ 4 \in Nat /\ 4 > 0 /\ 12 \in Nat /\ 12 = 7 + 4 + 1
    OBVIOUS
  <2> QED BY <1>1, <1>5, <1>6, <2>1
<1>8. PICK c : c = Put(Text(3), b)
  OBVIOUS
<1>9. Bounded(c, 16)
  <2>1. 12 \in Nat /\ 3 \in Nat /\ 3 > 0 /\ 16 \in Nat /\ 16 = 12 + 3 + 1
    OBVIOUS
  <2> QED BY <1>1, <1>7, <1>8, <2>1
<1>10. PICK d : d = Put(Text(5), c)
  OBVIOUS
<1>11. Bounded(d, 22)
  <2>1. 16 \in Nat /\ 5 \in Nat /\ 5 > 0 /\ 22 \in Nat /\ 22 = 16 + 5 + 1
    OBVIOUS
  <2> QED BY <1>1, <1>9, <1>10, <2>1
<1>12. PICK e : e = Put(Text(4), d)
  OBVIOUS
<1>13. Bounded(e, 27)
  <2>1. 22 \in Nat /\ 4 \in Nat /\ 4 > 0 /\ 27 \in Nat /\ 27 = 22 + 4 + 1
    OBVIOUS
  <2> QED BY <1>1, <1>11, <1>12, <2>1
<1>14. PICK f : f = Put(Text(7), e)
  OBVIOUS
<1>15. Bounded(f, 35)
  <2>1. 27 \in Nat /\ 7 \in Nat /\ 7 > 0 /\ 35 \in Nat /\ 35 = 27 + 7 + 1
    OBVIOUS
  <2> QED BY <1>1, <1>13, <1>14, <2>1
<1>16. PICK g : g = Put(Text(10), f)
  OBVIOUS
<1>17. Bounded(g, 46)
  <2>1. 35 \in Nat /\ 10 \in Nat /\ 10 > 0 /\ 46 \in Nat /\ 46 = 35 + 10 + 1
    OBVIOUS
  <2> QED BY <1>1, <1>15, <1>16, <2>1
<1>18. PICK u : u = Put(Text(7), none)
  OBVIOUS
<1>19. Bounded(u, 8)
  <2>1. 0 \in Nat /\ 7 \in Nat /\ 7 > 0 /\ 8 \in Nat /\ 8 = 0 + 7 + 1
    OBVIOUS
  <2> QED BY <1>1, <1>3, <1>18, <2>1
<1>20. PICK v : v = Put(Text(7), u)
  OBVIOUS
<1>21. Bounded(v, 16)
  <2>1. 8 \in Nat /\ 7 \in Nat /\ 7 > 0 /\ 16 \in Nat /\ 16 = 8 + 7 + 1
    OBVIOUS
  <2> QED BY <1>1, <1>19, <1>20, <2>1
<1>22. Bounded(g, NAME_SIZE + 40) /\ Bounded(v, NAME_SIZE + 40)
  BY <1>17, <1>21, Limits DEF Bounded
<1> QED BY <1>2, <1>4, <1>6, <1>8, <1>10, <1>12, <1>14, <1>16, <1>18, <1>20, <1>22

\* The line of a kick$.
LEMMA KickedLine ==
  ASSUME NEW name \in Word, name.len < NAME_SIZE
  PROVE  /\ Bounded(Kicked(name), NAME_SIZE + 40)
         /\ Kicked(name) # <<>> /\ Kicked(name)[1] = Named(Server)
<1>1. name.len \in Nat
  BY DEF Word
<1>2. PICK s \in Word : s = Named(Server) /\ s.len > 0 /\ s.len <= 7
  <2>1. Server \in Word /\ Server.len = 6
    BY Literals
  <2>2. Named(Server) \in Word /\ Named(Server).len = Server.len + 1
    BY <2>1, NamedWords
  <2> QED BY <2>1, <2>2
<1>3. PICK a \in Word : a = Plain("has", 3) /\ a.len = 3
  BY Literals
<1>4. PICK b \in Word : b = Plain("been", 4) /\ b.len = 4
  BY Literals
<1>5. PICK c \in Word : c = Plain("kicked", 6) /\ c.len = 6
  BY Literals
<1>6. PICK none : none = <<>>
  OBVIOUS
<1>7. PICK x : x = Put(c, none)
  OBVIOUS
<1>8. Bounded(x, 7)
  <2>1. 0 \in Nat /\ 6 \in Nat /\ 7 \in Nat /\ 7 = 0 + 6 + 1 /\ c.len > 0 /\ c.len <= 6
    BY <1>5
  <2>2. Bounded(none, 0)
    BY <1>6, NoWords
  <2> QED BY <1>7, <2>1, <2>2, PutBounded
<1>9. PICK y : y = Put(b, x)
  OBVIOUS
<1>10. Bounded(y, 12)
  <2>1. 7 \in Nat /\ 4 \in Nat /\ 12 \in Nat /\ 12 = 7 + 4 + 1 /\ b.len > 0 /\ b.len <= 4
    BY <1>4
  <2> QED BY <1>8, <1>9, <2>1, PutBounded
<1>11. PICK z : z = Put(a, y)
  OBVIOUS
<1>12. Bounded(z, 16)
  <2>1. 12 \in Nat /\ 3 \in Nat /\ 16 \in Nat /\ 16 = 12 + 3 + 1 /\ a.len > 0 /\ a.len <= 3
    BY <1>3
  <2> QED BY <1>10, <1>11, <2>1, PutBounded
<1>13. z = <<a, b, c>> /\ z \in Seq(Word)
  <2>1. z = <<a, b, c>>
    BY <1>6, <1>7, <1>9, <1>11, ThreeWords, Zenon
  <2>2. z \in Seq(Word)
    BY <1>12 DEF Bounded, NoneEmpty
  <2> QED BY <2>1, <2>2
<1>14. PICK t : t = Spaced(name) \o z
  OBVIOUS
<1>15. Bounded(t, NAME_SIZE + 17)
  <2>1. CASE name.len = 0
    <3>1. Spaced(name) = <<>>
      BY <2>1 DEF Spaced
    <3>2. <<>> \o z = z
      BY <1>13, ConcatEmptySeq, Zenon
    <3>3. t = z
      BY <1>14, <3>1, <3>2, Zenon
    <3> QED BY <1>12, <3>3, Limits DEF Bounded
  <2>2. CASE name.len # 0
    <3>1. Spaced(name) = <<name>>
      BY <2>2 DEF Spaced
    <3>2. t = Put(name, z)
      BY <1>14, <3>1, Zenon DEF Put
    <3>3. /\ 16 \in Nat /\ NAME_SIZE \in Nat /\ NAME_SIZE + 17 \in Nat
          /\ NAME_SIZE + 17 = 16 + NAME_SIZE + 1 /\ name.len > 0 /\ name.len <= NAME_SIZE
      BY <1>1, <2>2, Limits
    <3> QED BY <1>12, <3>2, <3>3, PutBounded
  <2> QED BY <2>1, <2>2
<1>16. PICK full : full = Put(s, t)
  OBVIOUS
<1>17. Bounded(full, NAME_SIZE + 40) /\ full # <<>> /\ full[1] = s
  <2>1. /\ NAME_SIZE + 17 \in Nat /\ 22 \in Nat /\ NAME_SIZE + 40 \in Nat
        /\ NAME_SIZE + 40 = NAME_SIZE + 17 + 22 + 1 /\ s.len > 0 /\ s.len <= 22
    <3>1. s.len \in Nat
      BY DEF Word
    <3> QED BY <1>2, <3>1, Limits
  <2>2. Bounded(full, NAME_SIZE + 40)
    BY <1>15, <1>16, <2>1, PutBounded
  <2>3. NoneEmpty(t)
    BY <1>15 DEF Bounded
  <2> QED BY <1>2, <1>16, <2>2, <2>3, PutBefore
<1>18. Kicked(name) = full
  <2>1. Spaced(name) \in Seq(Word)
    <3>1. Bounded(Spaced(name), NAME_SIZE + 40)
      BY SpacedName
    <3> QED BY <3>1 DEF Bounded, NoneEmpty
  <2>2. <<s>> \in Seq(Word)
    OBVIOUS
  <2>3. (<<s>> \o Spaced(name)) \o z = <<s>> \o (Spaced(name) \o z)
    BY <1>13, <2>1, <2>2, ConcatAssociative
  <2>4. Kicked(name) = (<<s>> \o Spaced(name)) \o <<a, b, c>>
    BY <1>2, <1>3, <1>4, <1>5, Zenon DEF Kicked
  <2> QED BY <1>13, <1>14, <1>16, <2>3, <2>4, Zenon DEF Put
<1> QED BY <1>2, <1>17, <1>18

\* The first arg of a command.
LEMMA FirstArg ==
  ASSUME IInv
  PROVE  command.args[1] \in Word /\ command.args[1].len < NAME_SIZE
<1>1. 1 \in 1 .. MAX_CMD_SIZE
  BY Limits
<1> QED BY <1>1 DEF IInv, ShortArgs, Args

\* An answer of one word.
LEMMA OneWordStep ==
  ASSUME IInv, stage = "at_server", command.kind # "say", NEW first \in Word, first.dollar,
         first.len > 1, first.len <= 16, KindOf(Undollared(first)) # "say",
         NEW size \in {MAX_MESSAGE, RESPONSE_BUFFER_SIZE}, Answer(<<first>>, size)
  PROVE  IInv'
<1>1. PICK rest : rest = <<>>
  OBVIOUS
<1>2. Bounded(rest, NAME_SIZE + 40)
  <2>1. Bounded(rest, 0)
    BY <1>1, NoWords
  <2>2. Length(rest) \in Nat /\ Length(rest) <= NAME_SIZE + 40
    BY <2>1, Limits DEF Bounded
  <2> QED BY <2>1, <2>2 DEF Bounded
<1>3. Answer(Put(first, rest), size)
  BY <1>1, OneWord, Zenon
<1> QED BY <1>2, <1>3, ShortStep

\* kick, to each of those it may answer.
LEMMA KickStep == IInv /\ ServerKick => IInv'
<1> SUFFICES ASSUME IInv, ServerKick PROVE IInv'
  OBVIOUS
<1>1. stage = "at_server" /\ command.kind = "kick" /\ command.kind # "say"
  BY DEF ServerKick
<1>2. Heads = {Named(Server)}
  BY <1>1 DEF IInv, AtServer, Heads
<1>3. PICK name : name = command.args[1]
  OBVIOUS
<1>4. name \in Word /\ name.len < NAME_SIZE
  BY <1>3, FirstArg
<1>5. \/ Answer(<<Dollar("say", 3)>> \o Kicked(name), RESPONSE_BUFFER_SIZE)
      \/ Answer(<<Dollar("disconnresponse", 15)>>, MAX_MESSAGE)
      \/ Answer(<<Dollar("error", 5), Text(10), Text(7), Text(4), Text(5), Text(3), Text(4), Text(6)>>,
                MAX_MESSAGE)
      \/ Silence
  BY <1>3, Zenon DEF ServerKick
<1>6. CASE Answer(<<Dollar("say", 3)>> \o Kicked(name), RESPONSE_BUFFER_SIZE)
  <2>1. PICK rest : rest = Kicked(name)
    OBVIOUS
  <2>2. Bounded(rest, NAME_SIZE + 40) /\ rest # <<>> /\ rest[1] \in Heads
    BY <1>2, <1>4, <2>1, KickedLine
  <2>3. PICK first : first = Dollar("say", 3)
    OBVIOUS
  <2>4. first \in Word /\ first.dollar /\ first.len > 1 /\ first.len <= 16
    BY <2>3, Literals
  <2>5. Answer(Put(first, rest), RESPONSE_BUFFER_SIZE)
    BY <1>6, <2>1, <2>3, Zenon DEF Put
  <2> QED BY <1>1, <2>2, <2>3, <2>4, <2>5, ShortStep
<1>7. CASE Answer(<<Dollar("disconnresponse", 15)>>, MAX_MESSAGE)
  BY <1>1, <1>7, SentWords, OneWordStep
<1>8. CASE Answer(<<Dollar("error", 5), Text(10), Text(7), Text(4), Text(5), Text(3), Text(4), Text(6)>>,
                  MAX_MESSAGE)
  <2>1. PICK first \in Word : /\ first = Dollar("error", 5) /\ first.dollar /\ first.len > 1
                              /\ first.len <= 16 /\ KindOf(Undollared(first)) # "say"
    BY SentWords
  <2>2. PICK rest : rest = Put(Text(10), Put(Text(7), Put(Text(4), Put(Text(5), Put(Text(3),
                             Put(Text(4), Put(Text(6), <<>>)))))))
    OBVIOUS
  <2>3. Bounded(rest, NAME_SIZE + 40)
    BY <2>2, Errors
  <2>4. Answer(Put(first, rest), MAX_MESSAGE)
    <3>1. <<first, Text(10), Text(7), Text(4), Text(5), Text(3), Text(4), Text(6)>>
            = Put(first, rest)
      BY <2>2, RefusedText, Zenon
    <3> QED BY <1>8, <2>1, <3>1, Zenon
  <2> QED BY <1>1, <2>1, <2>3, <2>4, ShortStep
<1>9. CASE Silence
  BY <1>1, <1>9, SilenceStep
<1> QED BY <1>5, <1>6, <1>7, <1>8, <1>9

\* conn, mute, unmute and rename.
LEMMA EchoStep == IInv /\ ServerEchoes => IInv'
<1> SUFFICES ASSUME IInv, ServerEchoes PROVE IInv'
  OBVIOUS
<1>1. DOMAIN Echo = {"conn", "mute", "unmute", "rename"}
  BY DEF Echo
<1>2. stage = "at_server" /\ command.kind \in DOMAIN Echo /\ command.kind # "say"
  BY <1>1 DEF ServerEchoes
<1>3. PICK first : first = Echo[command.kind]
  OBVIOUS
<1>4. first \in {Dollar("connsuccess", 11), Dollar("mute", 4), Dollar("unmute", 6),
                Dollar("rename", 6)}
  BY <1>1, <1>2, <1>3 DEF Echo
<1>5. /\ first \in Word /\ first.dollar /\ first.len > 1 /\ first.len <= 16
      /\ KindOf(Undollared(first)) # "say"
  BY <1>4, SentWords
<1>6. PICK rest : rest = Spaced(command.args[1])
  OBVIOUS
<1>7. Bounded(rest, NAME_SIZE + 40)
  BY <1>6, FirstArg, SpacedName
<1>8. Answer(Put(first, rest), MAX_MESSAGE)
  BY <1>3, <1>6, Zenon DEF ServerEchoes, Put
<1> QED BY <1>2, <1>5, <1>7, <1>8, ShortStep

\* disconnect.
LEMMA DisconnectStep == IInv /\ ServerDisconnect => IInv'
<1> SUFFICES ASSUME IInv, ServerDisconnect PROVE IInv'
  OBVIOUS
<1>1. stage = "at_server" /\ command.kind # "say"
  BY DEF ServerDisconnect
<1>2. CASE Answer(<<Dollar("disconnresponse", 15)>>, MAX_MESSAGE)
  BY <1>1, <1>2, SentWords, OneWordStep
<1>3. CASE Silence
  BY <1>1, <1>3, SilenceStep
<1> QED BY <1>2, <1>3 DEF ServerDisconnect

\* handle_unknown_command.
LEMMA UnknownStep == IInv /\ ServerUnknown => IInv'
<1> SUFFICES ASSUME IInv, ServerUnknown PROVE IInv'
  OBVIOUS
<1>1. stage = "at_server" /\ command.kind # "say"
  BY DEF ServerUnknown
<1>2. PICK first \in Word : /\ first = Dollar("error", 5) /\ first.dollar /\ first.len > 1
                            /\ first.len <= 16 /\ KindOf(Undollared(first)) # "say"
  BY SentWords
<1>3. PICK t \in Word : t = Text(7)
  BY Literals
<1>4. PICK rest : rest = Put(t, Put(t, <<>>))
  OBVIOUS
<1>5. Bounded(rest, NAME_SIZE + 40)
  BY <1>3, <1>4, Errors
<1>6. Answer(<<first, t, t>>, MAX_MESSAGE)
  BY <1>2, <1>3, Zenon DEF ServerUnknown
<1>7. <<first, t, t>> = Put(first, rest)
  BY <1>4, ThreeWords, Zenon
<1>8. Answer(Put(first, rest), MAX_MESSAGE)
  BY <1>6, <1>7, Zenon
<1> QED BY <1>1, <1>2, <1>5, <1>8, ShortStep

\* The commands that are ignored.
LEMMA IgnoreStep == IInv /\ ServerIgnores => IInv'
<1> SUFFICES ASSUME IInv, ServerIgnores PROVE IInv'
  OBVIOUS
<1>1. stage = "at_server" /\ command.kind # "say" /\ Silence
  BY DEF ServerIgnores
<1> QED BY <1>1, SilenceStep

\* A line just typed.
LEMMA InitialInv == Init => IInv
<1> SUFFICES ASSUME Init PROVE IInv
  OBVIOUS
<1>1. /\ stage = "typed" /\ line \in Line /\ from \in SenderName
      /\ packet = <<>> /\ command = NoCommand /\ shown = <<>>
  BY DEF Init
<1>2. PICK args : args = [i \in 1 .. MAX_CMD_SIZE |-> Empty]
  OBVIOUS
<1>3. args \in Args
  BY <1>2, EmptyWord DEF Args
<1>4. MAX_CMD_SIZE \in 1 .. MAX_CMD_SIZE /\ 0 < NAME_SIZE
  BY Limits
<1>5. ShortArgs(args)
  BY <1>2, <1>3, <1>4, EmptyWord DEF ShortArgs
<1>6. NoCommand = [kind |-> "unknown", args |-> args]
  BY <1>2 DEF NoCommand
<1>7. NoCommand \in Command /\ NoCommand.args = args
  BY <1>3, <1>6 DEF Command
<1>8. TypeOK
  BY <1>1, <1>7 DEF TypeOK
<1> QED BY <1>1, <1>5, <1>7, <1>8 DEF IInv

\* The invariant speaks of the variables only.
LEMMA StutterStep == IInv /\ UNCHANGED vars => IInv'
<1> SUFFICES ASSUME IInv, UNCHANGED vars PROVE IInv'
  OBVIOUS
<1>1. /\ stage' = stage /\ line' = line /\ from' = from
      /\ packet' = packet /\ command' = command /\ shown' = shown
  BY DEF vars
<1>2. TypeOK'
  BY <1>1 DEF IInv, TypeOK
<1>3. /\ (stage = "queued" => Queued)' /\ (stage = "at_server" => AtServer)'
      /\ (stage = "answered" => Answered)' /\ (stage = "at_client" => AtClient)'
      /\ (stage = "done" => Done)'
  BY <1>1, HeadsStay DEF IInv, Queued, AtServer, Answered, AtClient, Done
<1> QED BY <1>1, <1>2, <1>3 DEF IInv

\* Through every pass of q_append, get_and_tokenise, command_handler, the handlers
\* and say_exec, the text is at each stage what the invariant says it is.
THEOREM PathInvariant == Spec => []IInv
<1>1. Init => IInv
  BY InitialInv
<1>2. IInv /\ [Next]_vars => IInv'
  <2> SUFFICES ASSUME IInv, [Next]_vars PROVE IInv'
    OBVIOUS
  <2>1. CASE ServerQueues
    BY <2>1, QueueStep
  <2>2. CASE ServerParses
    BY <2>2, ServerParseStep
  <2>3. CASE ServerSay
    BY <2>3, SayStep
  <2>4. CASE ServerSayto
    BY <2>4, SaytoStep
  <2>5. CASE ServerKick
    BY <2>5, KickStep
  <2>6. CASE ServerEchoes
    BY <2>6, EchoStep
  <2>7. CASE ServerDisconnect
    BY <2>7, DisconnectStep
  <2>8. CASE ServerUnknown
    BY <2>8, UnknownStep
  <2>9. CASE ServerIgnores
    BY <2>9, IgnoreStep
  <2>10. CASE ClientParses
    BY <2>10, ClientParseStep
  <2>11. CASE ClientShows
    BY <2>11, ShowStep
  <2>12. CASE UNCHANGED vars
    BY <2>12, StutterStep
  <2> QED BY <2>1, <2>2, <2>3, <2>4, <2>5, <2>6, <2>7, <2>8, <2>9, <2>10, <2>11, <2>12 DEF Next
<1> QED BY <1>1, <1>2, PTL DEF Spec

-----------------------------------------------------------------------------
(****************************************************************************)
(* The properties of the message path.                                      *)
(****************************************************************************)

\* Every text that the two rings hold, every command_t made of one and every
\* line shown is a sequence of words, and a command has exactly MAX_CMD_SIZE args.
THEOREM TypeCorrect == Spec => []TypeOK
<1>1. IInv => TypeOK
  BY DEF IInv
<1> QED BY <1>1, PathInvariant, PTL

\* The client never handles a command_t that command_handler left as the stack had
\* it, since every answer of the server begins with a word; and the last of its args
\* is empty, the only one that join is sure to stop at: get_and_tokenise counts
\* MAX_COMMAND_LEN tokens with the NULL, at most one more than a command_t has args.
THEOREM JoinTerminates == Spec => []ClientCommandSet
<1>1. IInv => ClientCommandSet
  BY DEF IInv, ShortArgs, ClientCommandSet
<1> QED BY <1>1, PathInvariant, PTL

\* Whatever is typed and whatever the name of the sender, join never writes past
\* its static buffer: what say and sayto send on has been through join_args, the
\* other answers are short, and cutting them up once more makes them no longer.
THEOREM JoinNeverOverflows == Spec => []JoinFits
<1>1. IInv => JoinFits
  BY DEF IInv, AtClient, JoinFits
<1> QED BY <1>1, PathInvariant, PTL

\* A say$ of words within the limits comes out of the ring of the server, of
\* join_args, of the ring of the client and of join as it was typed, behind the
\* name of its sender.
THEOREM MessageWhole == Spec => []SaysArriveWhole
<1>1. IInv => SaysArriveWhole
  <2> SUFFICES ASSUME IInv, stage = "done", Says(line), InLimits(Tail(line)),
                      from.len < NAME_SIZE - 1
               PROVE  shown = <<Named(from)>> \o Tail(line)
    BY DEF SaysArriveWhole
  <2>1. Done /\ Whole(line, from)
    BY DEF IInv, Whole
  <2>2. shown = Put(Named(from), Tail(line))
    BY <2>1 DEF Done
  <2> QED BY <2>2 DEF Put
<1> QED BY <1>1, PathInvariant, PTL

\* extract_username finds in a line on the screen the name of the client that
\* sent it, or nothing, and nothing only in an answer to the client's own sayto$
\* or when the name fills an arg; in the line of a kick$ it finds SERVER.  So a mute
\* hides no message of another client, but one of SERVER hides the kicks as well.
\* The name has to have a letter and no colon.
THEOREM NameRecognised == Spec => []SenderRecognised
<1>1. IInv => SenderRecognised
  <2> SUFFICES ASSUME IInv, stage = "done", shown # <<>>
               PROVE  IF Asked = "kick" THEN Username(shown) = Server
                      ELSE Regular(from) =>
                             \/ Username(shown) = from
                             \/ /\ Username(shown) = Empty
                                /\ (shown[1] = Plain("you", 3) \/ from.len = NAME_SIZE - 1)
    BY DEF SenderRecognised
  <2>1. from \in Word /\ from.len < NAME_SIZE
    BY TypedLine DEF IInv, TypeOK
  <2>2. Begun(shown[1], Heads)
    BY DEF IInv, Done
  <2>3. CASE Asked = "kick"
    <3>1. Begun(shown[1], {Named(Server)})
      BY <2>2, <2>3 DEF Heads
    <3> QED BY <2>3, <3>1, ServerFound
  <2>4. CASE Asked # "kick"
    <3>1. Begun(shown[1], HeadsOf(from))
      BY <2>2, <2>4 DEF Heads
    <3> QED BY <2>1, <2>4, <3>1, NameFound DEF Regular
  <2> QED BY <2>3, <2>4
<1> QED BY <1>1, PathInvariant, PTL
=============================================================================
