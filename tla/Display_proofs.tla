---------------------------- MODULE Display_proofs ----------------------------
(***************************************************************************)
(* Theorems about Display.tla, for a screen, windows, characters and bars   *)
(* of any sizes, and any number of windows at any places on the screen.     *)
(***************************************************************************)
EXTENDS Display, TLAPS, SequenceTheorems, NaturalsInduction, WellFoundedInduction

W == VGA_WIDTH
H == VGA_HEIGHT

\* The address of the first point of a line.
Line(y) == y * VGA_WIDTH

-----------------------------------------------------------------------------
(* Numbers *)

LEMMA Sizes ==
  /\ W \in Nat /\ W >= 1 /\ H \in Nat /\ H >= 1
  /\ PAGE_ROWS \in Nat /\ PAGE_ROWS >= 1 /\ START_LOW \in Nat /\ START_LOW >= 1
  /\ FONT_WIDTH \in Nat /\ FONT_WIDTH >= 1 /\ FONT_HEIGHT \in Nat /\ FONT_HEIGHT >= 1
  /\ TERMINAL_TEXT_COLS \in Nat /\ TERMINAL_TEXT_COLS >= 1
  /\ TERMINAL_TEXT_ROWS \in Nat /\ TERMINAL_TEXT_ROWS >= 1
  /\ LEFT_RIGHT_MARGIN \in Nat /\ TITLE_BAR_HEIGHT \in Nat /\ DOWN_MARGIN \in Nat
  /\ GUI_MAX_WINDOW_NUM \in Nat /\ FONT_HALF \in Nat /\ FONT_HALF >= 1
  BY SizesAssumption DEF W, H

LEMMA LeastNat ==
  ASSUME NEW S \in SUBSET Nat, S # {}
  PROVE  \E i \in S : \A j \in S : i <= j
<1>1. IsWellFoundedOn({p \in Nat \X Nat : p[1] < p[2]}, Nat)
  BY NatLessThanWellFounded DEF OpToRel
<1>2. PICK i \in S : \A j \in S : <<j, i>> \notin {p \in Nat \X Nat : p[1] < p[2]}
  BY <1>1, WFMin
<1>3. \A j \in S : ~(j < i)
  BY <1>2
<1> QED BY <1>3

\* A set of numbers that is closed under counting up to a bound.
LEMMA Counting ==
  ASSUME NEW N \in Nat, NEW S, 0 \in S, \A n \in 1..N : n - 1 \in S => n \in S
  PROVE  \A n \in 0..N : n \in S
<1> DEFINE Bad == {n \in Nat : n <= N /\ n \notin S}
<1> SUFFICES ASSUME Bad # {} PROVE FALSE
  OBVIOUS
<1>1. PICK j \in Bad : \A i \in Bad : j <= i
  BY LeastNat
<1>2. j \in Nat /\ j <= N /\ j \notin S /\ j # 0
  BY <1>1
<1>3. j - 1 \in Nat /\ j - 1 <= N /\ ~(j <= j - 1)
  BY <1>2
<1>4. j - 1 \in S
  BY <1>1, <1>3
<1> QED BY <1>2, <1>4

LEMMA Lines1 ==
  /\ Line(0) = 0 /\ Screen = Line(H) /\ Screen \in Nat
  /\ \A y \in Int : Line(y) \in Int
  /\ \A y \in Nat : Line(y) \in Nat
  BY Sizes DEF Line, Screen, W, H

LEMMA NextLine ==
  ASSUME NEW y \in Int
  PROVE  Line(y + 1) = Line(y) + W
  BY Sizes DEF Line, W

LEMMA LineSum ==
  ASSUME NEW y \in Int, NEW z \in Int
  PROVE  Line(y + z) = Line(y) + Line(z) /\ Line(y - z) = Line(y) - Line(z)
  BY Sizes DEF Line, W

LEMMA Later ==
  ASSUME NEW y \in Int, NEW z \in Int, y < z
  PROVE  Line(y) + W <= Line(z)
<1> DEFINE d == z - (y + 1)
<1>1. d \in Nat /\ y + 1 \in Int /\ z = (y + 1) + d
  OBVIOUS
<1> HIDE DEF d
<1>2. Line((y + 1) + d) = Line(y + 1) + Line(d)
  BY <1>1, LineSum
<1>3. Line(d) \in Nat /\ Line(y + 1) = Line(y) + W /\ Line(y) \in Int
  BY <1>1, Lines1, NextLine
<1> QED BY <1>1, <1>2, <1>3, Sizes

\* Every address is a column of a line, and of one only.
LEMMA Quotient ==
  ASSUME NEW a \in Int, NEW b \in Nat, b >= 1
  PROVE  /\ a \div b \in Int /\ a % b \in 0..(b - 1) /\ a = (a \div b) * b + (a % b)
  OBVIOUS

LEMMA OneQuotient ==
  ASSUME NEW b \in Nat, b >= 1, NEW q \in Int, NEW r \in 0..(b - 1)
  PROVE  (q * b + r) \div b = q /\ (q * b + r) % b = r
  OBVIOUS

LEMMA Columns ==
  ASSUME NEW y \in Int, NEW x \in 0..(W - 1)
  PROVE  (Line(y) + x) \div W = y /\ (Line(y) + x) % W = x
  BY OneQuotient, Sizes DEF Line, W

-----------------------------------------------------------------------------
(***************************************************************************)
(* A copy: which addresses it writes, and with what.                        *)
(***************************************************************************)
Covers(op, a) ==
  /\ a >= op.at /\ (a - op.at) \div W < op.obj.height /\ (a - op.at) % W < op.obj.width

Source(op, a) == <<op.obj.name, (a - op.at) % W, (a - op.at) \div W>>

LEMMA CopiedAt ==
  ASSUME NEW mem, NEW op, NEW a \in Address
  PROVE  Copied(mem, op)[a] = IF Covers(op, a) THEN Source(op, a) ELSE mem[a]
  BY DEF Copied, Covers, Source, W

\* What a copy to (X, Y) does at (x, y).
LEMMA CoversPoint ==
  ASSUME NEW op, NEW X \in Nat, NEW Y \in Int, op.at = Line(Y) + X,
         op.obj.width \in Nat, op.obj.height \in Nat, X + op.obj.width <= W,
         NEW x \in 0..(W - 1), NEW y \in Int
  PROVE  LET a == Line(y) + x
             inside == x - X \in 0..(op.obj.width - 1) /\ y - Y \in 0..(op.obj.height - 1)
         IN  /\ Covers(op, a) <=> inside
             /\ inside => Source(op, a) = <<op.obj.name, x - X, y - Y>>
<1> DEFINE a == Line(y) + x
           w == op.obj.width
           h == op.obj.height
           d == y - Y
<1>1. W \in Nat /\ w \in Nat /\ h \in Nat /\ X + w <= W /\ d \in Int /\ X \in Nat
      /\ x \in Nat /\ x <= W - 1
  BY Sizes
<1>2. a - op.at = Line(d) + (x - X)
  <2>1. Line(d) = Line(y) - Line(Y) /\ Line(y) \in Int /\ Line(Y) \in Int
    BY Lines1, LineSum
  <2> QED BY <1>1, <2>1
<1>3. Line(d) \in Int /\ a \in Int /\ op.at \in Int
  BY <1>1, Lines1
<1> HIDE DEF a, w, h, d
<1>4. CASE x >= X
  <2>1. x - X \in 0..(W - 1)
    BY <1>1, <1>4
  <2>2. (a - op.at) \div W = d /\ (a - op.at) % W = x - X
    BY <1>1, <1>2, <2>1, Columns
  <2>3. a >= op.at <=> d >= 0
    <3>1. CASE d >= 0
      <4>1. Line(d) \in Nat
        BY <1>1, <3>1, Lines1
      <4> QED BY <1>2, <1>3, <2>1, <3>1, <4>1
    <3>2. CASE d < 0
      <4>1. Line(d) + W <= 0
        BY <1>1, <3>2, Later, Lines1
      <4> QED BY <1>1, <1>2, <1>3, <2>1, <3>2, <4>1
    <3> QED BY <1>1, <3>1, <3>2
  <2>4. Covers(op, a) <=> d >= 0 /\ d < h /\ x - X < w
    BY <2>2, <2>3 DEF Covers, w, h
  <2>5. Source(op, a) = <<op.obj.name, x - X, d>>
    BY <2>2 DEF Source
  <2> QED BY <1>1, <1>4, <2>4, <2>5 DEF a, w, h, d
<1>5. CASE x < X
  <2>1. ~Covers(op, a)
    <3>1. d - 1 \in Int /\ x - X + W \in 0..(W - 1) /\ Line(d) = Line(d - 1) + W
      <4>1. Line((d - 1) + 1) = Line(d - 1) + W /\ (d - 1) + 1 = d
        BY <1>1, NextLine
      <4> QED BY <1>1, <1>5, <4>1
    <3>2. a - op.at = Line(d - 1) + (x - X + W)
      <4>1. Line(d - 1) \in Int
        BY <3>1, Lines1
      <4> QED BY <1>1, <1>2, <3>1, <4>1
    <3>3. (a - op.at) % W = x - X + W
      BY <3>1, <3>2, Columns
    <3>4. ~(x - X + W < w)
      BY <1>1
    <3> QED BY <3>3, <3>4 DEF Covers, w
  <2>2. ~(x - X \in 0..(w - 1))
    BY <1>1, <1>5
  <2> QED BY <2>1, <2>2 DEF a, w
<1> QED BY <1>1, <1>4, <1>5

-----------------------------------------------------------------------------
(***************************************************************************)
(* One copy after the other: the last one that covers an address counts.    *)
(***************************************************************************)
IsCopying(g, mem, ops, n) ==
  g = [k \in 0..n |-> IF k = 0 THEN mem ELSE Copied(g[k - 1], ops[k])]

LEMMA CopyingExists ==
  ASSUME NEW mem, NEW ops, NEW N \in Nat
  PROVE  \E g : IsCopying(g, mem, ops, N)
<1> DEFINE S == {n \in Nat : \E g : IsCopying(g, mem, ops, n)}
<1>1. 0 \in S
  <2>1. IsCopying([k \in 0..0 |-> mem], mem, ops, 0)
    BY DEF IsCopying
  <2> QED BY <2>1
<1>2. ASSUME NEW n \in 1..N, n - 1 \in S PROVE n \in S
  <2>1. PICK g : IsCopying(g, mem, ops, n - 1)
    BY <1>2
  <2> DEFINE h == [k \in 0..n |-> IF k = n THEN Copied(g[n - 1], ops[n]) ELSE g[k]]
  <2>2. ASSUME NEW k \in 0..n
        PROVE  h[k] = IF k = 0 THEN mem ELSE Copied(h[k - 1], ops[k])
    <3>1. CASE k = n
      <4>1. k # 0 /\ k - 1 \in 0..n /\ k - 1 # n /\ h[k] = Copied(g[n - 1], ops[n])
        BY <3>1
      <4> QED BY <3>1, <4>1
    <3>2. CASE k # n
      <4>1. k \in 0..(n - 1) /\ h[k] = g[k]
        BY <3>2
      <4>2. g[k] = IF k = 0 THEN mem ELSE Copied(g[k - 1], ops[k])
        BY <2>1, <4>1 DEF IsCopying
      <4>3. k # 0 => k - 1 \in 0..n /\ k - 1 # n
        BY <3>2
      <4> QED BY <4>1, <4>2, <4>3
    <3> QED BY <3>1, <3>2
  <2>3. h = [k \in 0..n |-> h[k]]
    OBVIOUS
  <2> HIDE DEF h
  <2>4. IsCopying(h, mem, ops, n)
    BY <2>2, <2>3 DEF IsCopying
  <2> QED BY <2>4
<1> HIDE DEF S
<1>3. N \in S
  BY <1>1, <1>2, Counting
<1> QED BY <1>3 DEF S

\* v is what the first n copies leave at a.
Outcome(v, mem, ops, n, a) ==
  \/ v = mem[a] /\ \A k \in 1..n : ~Covers(ops[k], a)
  \/ \E k \in 1..n : /\ Covers(ops[k], a) /\ v = Source(ops[k], a)
                     /\ \A j \in (k + 1)..n : ~Covers(ops[j], a)

LEMMA OutcomeNext ==
  ASSUME NEW mem, NEW ops, NEW n \in Nat, n >= 1, NEW a \in Address, NEW m,
         Outcome(m[a], mem, ops, n - 1, a)
  PROVE  Outcome(Copied(m, ops[n])[a], mem, ops, n, a)
<1>1. CASE Covers(ops[n], a)
  <2>1. Copied(m, ops[n])[a] = Source(ops[n], a)
    BY <1>1, CopiedAt
  <2>2. n \in 1..n /\ \A j \in (n + 1)..n : ~Covers(ops[j], a)
    OBVIOUS
  <2> QED BY <1>1, <2>1, <2>2 DEF Outcome
<1>2. CASE ~Covers(ops[n], a)
  <2>1. Copied(m, ops[n])[a] = m[a]
    BY <1>2, CopiedAt
  <2>2. CASE m[a] = mem[a] /\ \A k \in 1..(n - 1) : ~Covers(ops[k], a)
    <3>1. \A k \in 1..n : ~Covers(ops[k], a)
      BY <1>2, <2>2
    <3> QED BY <2>1, <2>2, <3>1 DEF Outcome
  <2>3. ASSUME NEW k \in 1..(n - 1), Covers(ops[k], a), m[a] = Source(ops[k], a),
               \A j \in (k + 1)..(n - 1) : ~Covers(ops[j], a)
        PROVE  Outcome(Copied(m, ops[n])[a], mem, ops, n, a)
    <3>1. k \in 1..n /\ \A j \in (k + 1)..n : ~Covers(ops[j], a)
      BY <1>2, <2>3
    <3> QED BY <2>1, <2>3, <3>1 DEF Outcome
  <2> QED BY <2>2, <2>3 DEF Outcome
<1> QED BY <1>1, <1>2

LEMMA AllCopiedAt ==
  ASSUME NEW mem, NEW ops, Len(ops) \in Nat, NEW a \in Address
  PROVE  Outcome(AllCopied(mem, ops)[a], mem, ops, Len(ops), a)
<1> DEFINE N == Len(ops)
           g == CHOOSE g : IsCopying(g, mem, ops, N)
<1>1. IsCopying(g, mem, ops, N)
  BY CopyingExists
<1>2. AllCopied(mem, ops) = g[N]
  BY DEF AllCopied, IsCopying
<1> HIDE DEF g, N
<1>3. N \in Nat
  BY DEF N
<1>4. g[0] = mem /\ \A n \in 1..N : g[n] = Copied(g[n - 1], ops[n])
  BY <1>1, <1>3 DEF IsCopying
<1> DEFINE S == {n \in Nat : Outcome(g[n][a], mem, ops, n, a)}
<1>5. 0 \in S
  BY <1>4 DEF Outcome
<1>6. ASSUME NEW n \in 1..N, n - 1 \in S PROVE n \in S
  <2>1. n \in Nat /\ n >= 1 /\ g[n] = Copied(g[n - 1], ops[n])
    BY <1>4
  <2>2. Outcome(g[n - 1][a], mem, ops, n - 1, a)
    BY <1>6
  <2>3. Outcome(Copied(g[n - 1], ops[n])[a], mem, ops, n, a)
    BY <2>1, <2>2, OutcomeNext
  <2> QED BY <2>1, <2>3
<1> HIDE DEF S
<1>7. N \in S
  BY <1>3, <1>5, <1>6, Counting
<1> QED BY <1>2, <1>7 DEF S, N

LEMMA FrontAndLast ==
  ASSUME NEW T, NEW ops \in Seq(T), ops # <<>>
  PROVE  /\ Len(ops) \in Nat /\ Len(ops) >= 1 /\ Last(ops) = ops[Len(ops)]
         /\ Len(Front(ops)) = Len(ops) - 1
         /\ \A k \in 1..(Len(ops) - 1) : Front(ops)[k] = ops[k]
<1> DEFINE n == Len(ops)
<1>1. n \in Nat /\ n >= 1
  <2>1. n \in Nat \ {0}
    BY EmptySeq
  <2> QED BY <2>1
<1>2. Last(ops) = ops[n]
  BY DEF Last
<1>3. Front(ops) = SubSeq(ops, 1, n - 1)
  BY DEF Front
<1>4. \A k \in 1..(n - 1) : ops[k] \in T
  <2>1. ops \in [1..n -> T]
    BY LenProperties
  <2> HIDE DEF n
  <2> QED BY <1>1, <2>1
<1> HIDE DEF n
<1>5. n - 1 \in Int /\ 1 \in Int
  BY <1>1
<1>6. /\ Len(SubSeq(ops, 1, n - 1)) = IF 1 <= n - 1 THEN n - 1 - 1 + 1 ELSE 0
      /\ \A k \in 1..(n - 1 - 1 + 1) : SubSeq(ops, 1, n - 1)[k] = ops[1 + k - 1]
  BY <1>4, <1>5, SubSeqProperties
<1> DEFINE s == SubSeq(ops, 1, n - 1)
<1>7. Len(s) = n - 1 /\ \A k \in 1..(n - 1) : s[k] = ops[k]
  <2>1. /\ Len(s) = IF 1 <= n - 1 THEN n - 1 - 1 + 1 ELSE 0
        /\ \A k \in 1..(n - 1 - 1 + 1) : s[k] = ops[1 + k - 1]
    BY <1>6
  <2> HIDE DEF s
  <2>2. ASSUME NEW k \in 1..(n - 1)
        PROVE  s[k] = ops[k]
    <3>1. k \in 1..(n - 1 - 1 + 1) /\ 1 + k - 1 = k
      BY <1>1
    <3> QED BY <2>1, <3>1
  <2> QED BY <1>1, <2>1, <2>2
<1>8. Len(ops) = n
  BY DEF n
<1> QED BY <1>1, <1>2, <1>3, <1>7, <1>8

\* The last copy is the engine's.
LEMMA WithEngine ==
  ASSUME NEW mem, NEW T, NEW ops \in Seq(T), ops # <<>>, NEW a \in Address
  PROVE  Outcome(Copied(AllCopied(mem, Front(ops)), Last(ops))[a], mem, ops, Len(ops), a)
<1> DEFINE n == Len(ops)
<1>1. n \in Nat /\ n >= 1 /\ Len(Front(ops)) = n - 1 /\ Last(ops) = ops[n]
      /\ \A k \in 1..(n - 1) : Front(ops)[k] = ops[k]
  BY FrontAndLast
<1>2. Outcome(AllCopied(mem, Front(ops))[a], mem, Front(ops), n - 1, a)
  BY <1>1, AllCopiedAt
<1> HIDE DEF n
<1>3. Outcome(AllCopied(mem, Front(ops))[a], mem, ops, n - 1, a)
  BY <1>1, <1>2 DEF Outcome
<1>4. Outcome(Copied(AllCopied(mem, Front(ops)), ops[n])[a], mem, ops, n, a)
  BY <1>1, <1>3, OutcomeNext
<1> QED BY <1>1, <1>4 DEF n

-----------------------------------------------------------------------------
(***************************************************************************)
(* The sort of the grid's lines.                                            *)
(***************************************************************************)
Arrays(N) == [1..N -> Int]

\* a has the entries of b, in another order between l and h.
Same(a, b, l, h, N) ==
  /\ \A k \in l..h : \E m \in l..h : a[m] = b[k]
  /\ \A k \in l..h : \E m \in l..h : a[k] = b[m]
  /\ \A k \in 1..N : k < l \/ k > h => a[k] = b[k]

LEMMA SameAsItself ==
  ASSUME NEW N \in Nat, NEW a, NEW l \in Int, NEW h \in Int
  PROVE  Same(a, a, l, h, N)
  BY DEF Same

LEMMA SameAsBoth ==
  ASSUME NEW N \in Nat, NEW a, NEW b, NEW c, NEW l \in Int, NEW h \in Int,
         Same(a, b, l, h, N), Same(b, c, l, h, N)
  PROVE  Same(a, c, l, h, N)
<1>1. ASSUME NEW k \in l..h PROVE \E m \in l..h : a[m] = c[k]
  <2>1. PICK i \in l..h : b[i] = c[k]
    BY DEF Same
  <2>2. PICK m \in l..h : a[m] = b[i]
    BY DEF Same
  <2> QED BY <2>1, <2>2
<1>2. ASSUME NEW k \in l..h PROVE \E m \in l..h : a[k] = c[m]
  <2>1. PICK i \in l..h : a[k] = b[i]
    BY DEF Same
  <2>2. PICK m \in l..h : b[i] = c[m]
    BY DEF Same
  <2> QED BY <2>1, <2>2
<1>3. ASSUME NEW k \in 1..N, k < l \/ k > h PROVE a[k] = c[k]
  BY <1>3 DEF Same
<1> QED BY <1>1, <1>2, <1>3 DEF Same

LEMMA SameInMore ==
  ASSUME NEW N \in Nat, NEW a, NEW b, NEW l \in 1..(N + 1), NEW h \in 0..N,
         NEW i \in 1..(N + 1), NEW j \in 0..N, l <= i, j <= h, Same(a, b, i, j, N)
  PROVE  Same(a, b, l, h, N)
<1>1. ASSUME NEW k \in l..h PROVE \E m \in l..h : a[m] = b[k]
  <2>1. CASE k \in i..j
    <3>1. PICK m \in i..j : a[m] = b[k]
      BY <2>1 DEF Same
    <3>2. m \in l..h
      OBVIOUS
    <3> QED BY <3>1, <3>2
  <2>2. CASE k \notin i..j
    <3>1. k \in 1..N /\ (k < i \/ k > j)
      BY <2>2
    <3>2. a[k] = b[k]
      BY <3>1 DEF Same
    <3> QED BY <3>2
  <2> QED BY <2>1, <2>2
<1>2. ASSUME NEW k \in l..h PROVE \E m \in l..h : a[k] = b[m]
  <2>1. CASE k \in i..j
    <3>1. PICK m \in i..j : a[k] = b[m]
      BY <2>1 DEF Same
    <3>2. m \in l..h
      OBVIOUS
    <3> QED BY <3>1, <3>2
  <2>2. CASE k \notin i..j
    <3>1. k \in 1..N /\ (k < i \/ k > j)
      BY <2>2
    <3>2. a[k] = b[k]
      BY <3>1 DEF Same
    <3> QED BY <3>2
  <2> QED BY <2>1, <2>2
<1>3. ASSUME NEW k \in 1..N, k < l \/ k > h PROVE a[k] = b[k]
  <2>1. k < i \/ k > j
    BY <1>3
  <2> QED BY <2>1 DEF Same
<1> QED BY <1>1, <1>2, <1>3 DEF Same

LEMMA Swapped ==
  ASSUME NEW N \in Nat, NEW a \in Arrays(N), NEW i \in 1..N, NEW j \in 1..N
  PROVE  /\ swap(a, i, j) \in Arrays(N)
         /\ \A k \in 1..N : swap(a, i, j)[k] = IF k = j THEN a[i]
                                               ELSE IF k = i THEN a[j] ELSE a[k]
  BY DEF swap, Arrays

LEMMA SwapKeeps ==
  ASSUME NEW N \in Nat, NEW a \in Arrays(N), NEW l \in 1..N, NEW h \in 1..N,
         NEW i \in l..h, NEW j \in l..h
  PROVE  Same(swap(a, i, j), a, l, h, N)
<1> DEFINE s == swap(a, i, j)
<1>1. \A k \in 1..N : s[k] = IF k = j THEN a[i] ELSE IF k = i THEN a[j] ELSE a[k]
  BY Swapped
<1> HIDE DEF s
<1>2. ASSUME NEW k \in l..h PROVE \E m \in l..h : s[m] = a[k]
  <2>1. CASE k = i
    <3>1. s[j] = a[i]
      BY <1>1
    <3> QED BY <2>1, <3>1
  <2>2. CASE k = j /\ k # i
    <3>1. s[i] = a[j]
      BY <1>1, <2>2
    <3> QED BY <2>2, <3>1
  <2>3. CASE k # i /\ k # j
    <3>1. s[k] = a[k]
      BY <1>1, <2>3
    <3> QED BY <3>1
  <2> QED BY <2>1, <2>2, <2>3
<1>3. ASSUME NEW k \in l..h PROVE \E m \in l..h : s[k] = a[m]
  BY <1>1
<1>4. ASSUME NEW k \in 1..N, k < l \/ k > h PROVE s[k] = a[k]
  <2>1. k # i /\ k # j
    BY <1>4
  <2> QED BY <1>1, <2>1
<1> QED BY <1>2, <1>3, <1>4 DEF Same, s

\* partition: where the loop stands after the comparison with arr[j]
Compared(s, pivot, j) ==
  IF s.arr[j] < pivot THEN [i |-> s.i + 1, arr |-> swap(s.arr, s.i + 1, j)] ELSE s

IsPartitioning(g, arr, low, high, n) ==
  g = [j \in (low - 1)..n |-> IF j = low - 1 THEN [i |-> low - 1, arr |-> arr]
                              ELSE Compared(g[j - 1], arr[high], j)]

LEMMA PartitioningExists ==
  ASSUME NEW arr, NEW low \in Int, NEW high \in Int, low <= high
  PROVE  \E g : IsPartitioning(g, arr, low, high, high - 1)
<1> DEFINE N == high - low
           S == {n \in Nat : \E g : IsPartitioning(g, arr, low, high, (low - 1) + n)}
           base == [i |-> low - 1, arr |-> arr]
<1>0. N \in Nat /\ (low - 1) + N = high - 1
  OBVIOUS
<1>1. 0 \in S
  <2>1. IsPartitioning([j \in (low - 1)..(low - 1) |-> base], arr, low, high, low - 1)
    BY DEF IsPartitioning
  <2>2. (low - 1) + 0 = low - 1
    OBVIOUS
  <2> QED BY <2>1, <2>2
<1> HIDE DEF base
<1>2. ASSUME NEW n \in 1..N, n - 1 \in S PROVE n \in S
  <2> DEFINE e == (low - 1) + n
  <2>0. e \in Int /\ (low - 1) + (n - 1) = e - 1 /\ low - 1 < e
    OBVIOUS
  <2>1. PICK g : IsPartitioning(g, arr, low, high, e - 1)
    BY <1>2, <2>0
  <2> HIDE DEF e
  <2> DEFINE h == [j \in (low - 1)..e |->
                     IF j = e THEN Compared(g[e - 1], arr[high], e) ELSE g[j]]
  <2>2. ASSUME NEW j \in (low - 1)..e
        PROVE  h[j] = IF j = low - 1 THEN base ELSE Compared(h[j - 1], arr[high], j)
    <3>1. CASE j = e
      <4>1. /\ j # low - 1 /\ j - 1 \in (low - 1)..e /\ j - 1 # e
            /\ h[j] = Compared(g[e - 1], arr[high], e)
        BY <2>0, <3>1
      <4> QED BY <3>1, <4>1
    <3>2. CASE j # e
      <4>1. j \in (low - 1)..(e - 1) /\ h[j] = g[j]
        BY <2>0, <3>2
      <4>2. g[j] = IF j = low - 1 THEN base ELSE Compared(g[j - 1], arr[high], j)
        BY <2>1, <4>1 DEF IsPartitioning, base
      <4>3. j # low - 1 => j - 1 \in (low - 1)..e /\ j - 1 # e
        BY <2>0, <3>2
      <4> QED BY <4>1, <4>2, <4>3
    <3> QED BY <3>1, <3>2
  <2>3. h = [j \in (low - 1)..e |-> h[j]]
    OBVIOUS
  <2> HIDE DEF h
  <2>4. IsPartitioning(h, arr, low, high, e)
    BY <2>2, <2>3 DEF IsPartitioning, base
  <2> QED BY <2>4 DEF e
<1> HIDE DEF S, N
<1>3. N \in S
  BY <1>0, <1>1, <1>2, Counting
<1> QED BY <1>0, <1>3 DEF S

\* Behind the loop, smaller entries stand up to i, the others after it.
Parted(s, arr, low, high, j, N) ==
  /\ s.arr \in Arrays(N) /\ s.i \in (low - 1)..j
  /\ Same(s.arr, arr, low, high - 1, N)
  /\ \A k \in low..(s.i) : s.arr[k] < arr[high]
  /\ \A k \in (s.i + 1)..j : s.arr[k] >= arr[high]

LEMMA PartedNext ==
  ASSUME NEW N \in Nat, NEW arr \in Arrays(N), NEW low \in 1..N, NEW high \in 1..N,
         NEW j \in low..(high - 1), NEW s, Parted(s, arr, low, high, j - 1, N)
  PROVE  Parted(Compared(s, arr[high], j), arr, low, high, j, N)
<1> DEFINE r == Compared(s, arr[high], j)
           p == arr[high]
<1>1. /\ s.arr \in Arrays(N) /\ s.i \in (low - 1)..(j - 1) /\ s.i \in Int
      /\ Same(s.arr, arr, low, high - 1, N)
      /\ \A k \in low..(s.i) : s.arr[k] < p
      /\ \A k \in (s.i + 1)..(j - 1) : s.arr[k] >= p
  BY DEF Parted
<1>2. p \in Int /\ j \in 1..N /\ s.arr[j] \in Int
  BY <1>1 DEF Arrays
<1> HIDE DEF p
<1>3. CASE ~(s.arr[j] < p)
  <2>1. r = s
    BY <1>3 DEF Compared, p
  <2>2. \A k \in (s.i + 1)..j : s.arr[k] >= p
    <3> TAKE k \in (s.i + 1)..j
    <3>1. CASE k = j
      BY <1>2, <1>3, <3>1
    <3>2. CASE k # j
      <4>1. k \in (s.i + 1)..(j - 1)
        BY <1>1, <3>2
      <4> QED BY <1>1, <4>1
    <3> QED BY <3>1, <3>2
  <2>3. s.i \in (low - 1)..j
    BY <1>1
  <2> HIDE DEF r
  <2> QED BY <1>1, <2>1, <2>2, <2>3 DEF Parted, p, r
<1>4. CASE s.arr[j] < p
  <2> DEFINE i == s.i + 1
             a == s.arr
             b == swap(a, i, j)
  <2>1. r = [i |-> i, arr |-> b]
    BY <1>4 DEF Compared, p
  <2>2. i \in low..j /\ i \in 1..N /\ i \in low..(high - 1) /\ j \in low..(high - 1)
        /\ high - 1 \in 1..N /\ i \in Int /\ low \in Int /\ j \in Int
    BY <1>1
  <2> DEFINE swapped == \A k \in 1..N : b[k] = IF k = j THEN a[i]
                                                ELSE IF k = i THEN a[j] ELSE a[k]
  <2>3. b \in Arrays(N) /\ swapped
    <3>1. a \in Arrays(N)
      BY <1>1
    <3> HIDE DEF a, i
    <3>2. j \in 1..N /\ i \in 1..N
      BY <1>2, <2>2
    <3>3. b \in Arrays(N)
      BY <3>1, <3>2, Swapped
    <3>4. swapped
      BY <3>1, <3>2, Swapped
    <3> QED BY <3>3, <3>4
  <2>4. Same(b, arr, low, high - 1, N)
    <3>1. Same(b, a, low, high - 1, N)
      BY <1>1, <2>2, SwapKeeps
    <3> QED BY <1>1, <2>2, <3>1, SameAsBoth
  <2>5. s.i = i - 1
    BY <1>1
  <2> HIDE DEF b, i
  <2>6. ASSUME NEW k \in low..i PROVE b[k] < p
    <3>0. k \in 1..N
      BY <2>2
    <3>1. CASE k = i
      <4>1. b[k] = a[j]
        <5>1. CASE i = j
          BY <2>3, <3>0, <3>1, <5>1
        <5>2. CASE i # j
          BY <2>3, <3>0, <3>1, <5>2
        <5> QED BY <5>1, <5>2
      <4> QED BY <1>4, <4>1
    <3>2. CASE k # i
      <4>1. k \in low..(s.i) /\ k # j
        BY <2>2, <2>5, <3>2
      <4>2. b[k] = a[k]
        BY <2>3, <3>0, <3>2, <4>1
      <4> QED BY <1>1, <4>1, <4>2
    <3> QED BY <3>1, <3>2
  <2>7. ASSUME NEW k \in (i + 1)..j PROVE b[k] >= p
    <3>0. k \in 1..N /\ k # i
      BY <2>2
    <3>1. CASE k = j
      <4>1. b[k] = a[i]
        BY <2>3, <3>0, <3>1
      <4>2. i \in (s.i + 1)..(j - 1)
        BY <2>2, <2>5, <3>0, <3>1
      <4> QED BY <1>1, <4>1, <4>2
    <3>2. CASE k # j
      <4>1. b[k] = a[k]
        BY <2>3, <3>0, <3>2
      <4>2. k \in (s.i + 1)..(j - 1)
        BY <2>2, <2>5, <3>0, <3>2
      <4> QED BY <1>1, <4>1, <4>2
    <3> QED BY <3>1, <3>2
  <2>8. r.i = i /\ r.arr = b /\ i \in (low - 1)..j
    BY <2>1, <2>2
  <2> HIDE DEF r
  <2> QED BY <2>3, <2>4, <2>6, <2>7, <2>8 DEF Parted, p, r
<1> QED BY <1>3, <1>4

LEMMA PartitionParts ==
  ASSUME NEW N \in Nat, NEW arr \in Arrays(N), NEW low \in 1..N, NEW high \in 1..N,
         low < high
  PROVE  LET p == partition(arr, low, high)
         IN  /\ p.at \in low..high /\ p.arr \in Arrays(N)
             /\ Same(p.arr, arr, low, high, N)
             /\ \A k \in low..(p.at - 1) : p.arr[k] < p.arr[p.at]
             /\ \A k \in (p.at + 1)..high : p.arr[k] >= p.arr[p.at]
<1> DEFINE g == CHOOSE g : IsPartitioning(g, arr, low, high, high - 1)
           e == g[high - 1]
           at == e.i + 1
           a == e.arr
           b == swap(a, at, high)
<1>1. IsPartitioning(g, arr, low, high, high - 1)
  <2>1. \E f : IsPartitioning(f, arr, low, high, high - 1)
    <3>1. low \in Int /\ high \in Int /\ low <= high
      OBVIOUS
    <3> QED BY <3>1, PartitioningExists
  <2> QED BY <2>1
<1>2. partition(arr, low, high) = [at |-> at, arr |-> b]
  BY DEF partition, IsPartitioning, Compared
<1> HIDE DEF g
<1>3. /\ g[low - 1] = [i |-> low - 1, arr |-> arr]
      /\ \A j \in low..(high - 1) : g[j] = Compared(g[j - 1], arr[high], j)
  BY <1>1 DEF IsPartitioning
<1>4. Parted(e, arr, low, high, high - 1, N)
  <2> DEFINE S == {n \in Nat : Parted(g[(low - 1) + n], arr, low, high, (low - 1) + n, N)}
             M == high - low
  <2>1. M \in Nat /\ (low - 1) + M = high - 1
    OBVIOUS
  <2>2. 0 \in S
    <3>1. (low - 1) + 0 = low - 1 /\ low \in Int /\ high - 1 \in Int
      OBVIOUS
    <3>2. Parted(g[low - 1], arr, low, high, low - 1, N)
      BY <1>3, <3>1, SameAsItself DEF Parted
    <3> QED BY <3>1, <3>2
  <2>3. ASSUME NEW n \in 1..M, n - 1 \in S PROVE n \in S
    <3> DEFINE j == (low - 1) + n
    <3>1. j \in low..(high - 1) /\ (low - 1) + (n - 1) = j - 1
      OBVIOUS
    <3>2. Parted(g[j - 1], arr, low, high, j - 1, N)
      BY <2>3, <3>1
    <3> HIDE DEF j
    <3>3. Parted(g[j], arr, low, high, j, N)
      BY <1>3, <3>1, <3>2, PartedNext
    <3> QED BY <3>3 DEF j
  <2> HIDE DEF S, M
  <2>4. M \in S
    BY <2>1, <2>2, <2>3, Counting
  <2> QED BY <2>1, <2>4 DEF S
<1>5. /\ a \in Arrays(N) /\ e.i \in (low - 1)..(high - 1) /\ e.i \in Int
      /\ Same(a, arr, low, high - 1, N)
      /\ \A k \in low..(e.i) : a[k] < arr[high]
      /\ \A k \in (e.i + 1)..(high - 1) : a[k] >= arr[high]
  BY <1>4 DEF Parted
<1> HIDE DEF e
<1>6. at \in low..high /\ at \in 1..N /\ high \in low..high /\ e.i = at - 1
  BY <1>5
<1> HIDE DEF at, a
<1>7. b \in Arrays(N) /\ \A k \in 1..N : b[k] = IF k = high THEN a[at]
                                             ELSE IF k = at THEN a[high] ELSE a[k]
  <2>1. high \in 1..N /\ at \in 1..N /\ a \in Arrays(N)
    BY <1>5, <1>6
  <2> QED BY <2>1, Swapped
<1>8. Same(b, arr, low, high, N)
  <2>1. Same(b, a, low, high, N)
    BY <1>5, <1>6, SwapKeeps
  <2>2. Same(a, arr, low, high, N)
    <3>1. high - 1 \in 0..N /\ high - 1 <= high /\ low \in 1..(N + 1) /\ high \in 0..N
      OBVIOUS
    <3> QED BY <1>5, <3>1, SameInMore
  <2> QED BY <2>1, <2>2, SameAsBoth
<1>9. a[high] = arr[high] /\ arr[high] \in Int
  <2>1. high > high - 1 /\ high \in 1..N
    OBVIOUS
  <2> QED BY <1>5, <2>1 DEF Same, Arrays
<1> HIDE DEF b
<1>10. b[at] = arr[high]
  <2>1. CASE at = high
    BY <1>6, <1>7, <1>9, <2>1
  <2>2. CASE at # high
    BY <1>6, <1>7, <1>9, <2>2
  <2> QED BY <2>1, <2>2
<1>11. ASSUME NEW k \in low..(at - 1) PROVE b[k] < b[at]
  <2>1. k \in 1..N /\ k # high /\ k # at /\ k \in low..(e.i)
    BY <1>6
  <2> QED BY <1>5, <1>7, <1>10, <2>1
<1>12. ASSUME NEW k \in (at + 1)..high PROVE b[k] >= b[at]
  <2>0. k \in 1..N /\ k # at
    BY <1>6
  <2>1. CASE k = high
    <3>1. b[k] = a[at] /\ at \in (e.i + 1)..(high - 1)
      BY <1>6, <1>7, <2>0, <2>1
    <3> QED BY <1>5, <1>10, <3>1
  <2>2. CASE k # high
    <3>1. k \in (e.i + 1)..(high - 1)
      BY <1>6, <2>0, <2>2
    <3>2. b[k] = a[k]
      BY <1>7, <2>0, <2>2
    <3> QED BY <1>5, <1>10, <3>1, <3>2
  <2> QED BY <2>1, <2>2
<1> QED BY <1>2, <1>6, <1>7, <1>8, <1>11, <1>12

\* quick_sort's body, with f for its two calls of itself
Body(f, s) ==
  IF s.low < s.high
  THEN LET p == partition(s.arr, s.low, s.high)
       IN  f[Part(f[Part(p.arr, s.low, p.at - 1)], p.at + 1, s.high)]
  ELSE s.arr

IsSort(f, N) == f = [s \in Slice(N) |-> Body(f, s)]

Width(s) == s.high - s.low

\* r is what a sort of the slice s is to make of its array.
Sorts(s, r, N) ==
  /\ r \in Arrays(N) /\ Same(r, s.arr, s.low, s.high, N)
  /\ \A i \in s.low..s.high, j \in s.low..s.high : i <= j => r[i] <= r[j]

LEMMA SliceParts ==
  ASSUME NEW N \in Nat, NEW s \in Slice(N)
  PROVE  /\ s.arr \in Arrays(N) /\ s.low \in 1..(N + 1) /\ s.high \in 0..N
         /\ Width(s) \in Int /\ Width(s) < N
  BY DEF Slice, Arrays, Width

LEMMA PartIsSlice ==
  ASSUME NEW N \in Nat, NEW a \in Arrays(N), NEW l \in 1..(N + 1), NEW h \in 0..N
  PROVE  /\ Part(a, l, h) \in Slice(N) /\ Width(Part(a, l, h)) = h - l
         /\ Part(a, l, h).arr = a /\ Part(a, l, h).low = l /\ Part(a, l, h).high = h
  BY DEF Slice, Arrays, Part, Width

\* The two smaller slices that a slice is sorted by.
LEMMA SortsNext ==
  ASSUME NEW N \in Nat, NEW s \in Slice(N), NEW f,
         \A t \in Slice(N) : Width(t) < Width(s) => Sorts(t, f[t], N)
  PROVE  /\ Sorts(s, Body(f, s), N)
         /\ \A g : (\A t \in Slice(N) : Width(t) < Width(s) => g[t] = f[t])
                     => Body(g, s) = Body(f, s)
<1> DEFINE low == s.low
           high == s.high
           p == partition(s.arr, low, high)
           u == Part(p.arr, low, p.at - 1)
           q == f[u]
           v == Part(q, p.at + 1, high)
           r == f[v]
<1>1. s.arr \in Arrays(N) /\ low \in 1..(N + 1) /\ high \in 0..N /\ Width(s) = high - low
  BY SliceParts DEF Width
<1>2. CASE ~(low < high)
  <2>1. Body(f, s) = s.arr /\ \A g : Body(g, s) = s.arr
    BY <1>2 DEF Body
  <2>2. Same(s.arr, s.arr, low, high, N)
    BY <1>1, SameAsItself
  <2>3. \A i \in low..high, j \in low..high : i <= j => s.arr[i] <= s.arr[j]
    <3> TAKE i \in low..high, j \in low..high
    <3>1. i = j /\ i \in 1..N
      BY <1>1, <1>2
    <3> QED BY <1>1, <3>1 DEF Arrays
  <2> QED BY <1>1, <2>1, <2>2, <2>3 DEF Sorts
<1>3. CASE low < high
  <2>0. low \in 1..N /\ high \in 1..N /\ low \in Int /\ high \in Int
    BY <1>1, <1>3
  <2> HIDE DEF low, high
  <2>1. /\ p.at \in low..high /\ p.arr \in Arrays(N) /\ Same(p.arr, s.arr, low, high, N)
        /\ \A k \in low..(p.at - 1) : p.arr[k] < p.arr[p.at]
        /\ \A k \in (p.at + 1)..high : p.arr[k] >= p.arr[p.at]
    BY <1>1, <1>3, <2>0, PartitionParts
  <2> DEFINE at == p.at
             a == p.arr
  <2>a. at \in low..high /\ at \in 1..N /\ at - 1 \in 0..N /\ at + 1 \in 1..(N + 1)
    BY <2>0, <2>1
  <2>2. Body(f, s) = r
    BY <1>3 DEF Body, low, high
  <2> HIDE DEF p
  <2>b. a \in Arrays(N) /\ Same(a, s.arr, low, high, N)
        /\ (\A k \in low..(at - 1) : a[k] < a[at])
        /\ \A k \in (at + 1)..high : a[k] >= a[at]
    BY <2>1
  <2> HIDE DEF at, a
  <2>3. u \in Slice(N) /\ Width(u) < Width(s) /\ u.arr = a /\ u.low = low /\ u.high = at - 1
    <3>1. low \in 1..(N + 1) /\ (at - 1) - low < high - low
      BY <2>0, <2>a
    <3>2. u = Part(a, low, at - 1)
      BY DEF a, at
    <3> HIDE DEF u
    <3> QED BY <1>1, <2>a, <2>b, <3>1, <3>2, PartIsSlice
  <2> HIDE DEF u
  <2>4. /\ q \in Arrays(N) /\ Same(q, a, low, at - 1, N)
        /\ \A i \in low..(at - 1), j \in low..(at - 1) : i <= j => q[i] <= q[j]
    BY <2>3 DEF Sorts
  <2> HIDE DEF q
  <2>5. v \in Slice(N) /\ Width(v) < Width(s) /\ v.arr = q /\ v.low = at + 1 /\ v.high = high
    <3>1. high \in 0..N /\ high - (at + 1) < high - low
      BY <2>0, <2>a
    <3>2. v = Part(q, at + 1, high)
      BY DEF at
    <3> HIDE DEF v
    <3> QED BY <1>1, <2>a, <2>4, <3>1, <3>2, PartIsSlice
  <2> HIDE DEF v
  <2>6. /\ r \in Arrays(N) /\ Same(r, q, at + 1, high, N)
        /\ \A i \in (at + 1)..high, j \in (at + 1)..high : i <= j => r[i] <= r[j]
    BY <2>5 DEF Sorts
  <2>7. ASSUME NEW g, \A t \in Slice(N) : Width(t) < Width(s) => g[t] = f[t]
        PROVE  Body(g, s) = r
    <3>1. g[u] = q /\ g[v] = r
      BY <2>3, <2>5, <2>7 DEF q
    <3>2. Body(g, s) = g[Part(g[u], at + 1, high)]
      BY <1>3 DEF Body, low, high, u, at, p
    <3> QED BY <3>1, <3>2 DEF v, at
  <2> HIDE DEF r
  <2>8. Same(r, s.arr, low, high, N)
    <3>0. low \in 1..(N + 1) /\ high \in 0..N /\ at - 1 <= high /\ low <= at + 1
      BY <2>0, <2>a
    <3>1. Same(q, a, low, high, N)
      BY <2>0, <2>4, <2>a, <3>0, SameInMore
    <3>2. Same(r, q, low, high, N)
      BY <2>0, <2>6, <2>a, <3>0, SameInMore
    <3>3. Same(r, a, low, high, N)
      BY <2>0, <3>1, <3>2, SameAsBoth
    <3> QED BY <2>0, <2>b, <3>3, SameAsBoth
  <2>9. /\ r[at] = a[at] /\ a[at] \in Int
        /\ \A k \in low..(at - 1) : r[k] = q[k] /\ q[k] < a[at]
        /\ \A k \in (at + 1)..high : r[k] >= a[at]
    <3>1. q[at] = a[at] /\ r[at] = q[at]
      <4>1. at > at - 1 /\ at < at + 1
        BY <2>a
      <4> QED BY <2>4, <2>6, <2>a, <4>1 DEF Same
    <3>2. ASSUME NEW k \in low..(at - 1) PROVE r[k] = q[k] /\ q[k] < a[at]
      <4>1. k \in 1..N /\ k < at + 1
        BY <2>0, <2>a
      <4>2. PICK m \in low..(at - 1) : q[k] = a[m]
        BY <2>4 DEF Same
      <4> QED BY <2>6, <2>b, <4>1, <4>2 DEF Same
    <3>3. ASSUME NEW k \in (at + 1)..high PROVE r[k] >= a[at]
      <4>1. PICK m \in (at + 1)..high : r[k] = q[m]
        BY <2>6 DEF Same
      <4>2. q[m] = a[m]
        <5>1. m \in 1..N /\ m > at - 1
          BY <2>0, <2>a
        <5> QED BY <2>4, <5>1 DEF Same
      <4> QED BY <2>b, <4>1, <4>2
    <3>4. a[at] \in Int
      BY <2>a, <2>b DEF Arrays
    <3> QED BY <3>1, <3>2, <3>3, <3>4
  <2>10. ASSUME NEW i \in low..high, NEW j \in low..high, i <= j PROVE r[i] <= r[j]
    <3>0. i \in Int /\ j \in Int /\ at \in Int /\ i \in 1..N /\ j \in 1..N
      BY <2>0, <2>a
    <3>1. r[i] \in Int /\ r[j] \in Int
      BY <2>6, <3>0 DEF Arrays
    <3>2. CASE j < at
      <4>1. i \in low..(at - 1) /\ j \in low..(at - 1)
        BY <2>10, <3>0, <3>2
      <4> QED BY <2>4, <2>9, <2>10, <4>1
    <3>3. CASE i > at
      <4>1. i \in (at + 1)..high /\ j \in (at + 1)..high
        BY <2>10, <3>0, <3>3
      <4> QED BY <2>6, <2>10, <4>1
    <3>4. CASE i <= at /\ j >= at
      <4>1. r[i] <= a[at]
        <5>1. CASE i = at
          BY <2>9, <5>1
        <5>2. CASE i # at
          <6>1. i \in low..(at - 1)
            BY <3>0, <3>4, <5>2
          <6>2. r[i] < a[at]
            BY <2>9, <6>1
          <6> QED BY <2>9, <3>1, <6>2
        <5> QED BY <5>1, <5>2
      <4>2. r[j] >= a[at]
        <5>1. CASE j = at
          BY <2>9, <5>1
        <5>2. CASE j # at
          <6>1. j \in (at + 1)..high
            BY <3>0, <3>4, <5>2
          <6> QED BY <2>9, <6>1
        <5> QED BY <5>1, <5>2
      <4> QED BY <2>9, <3>1, <4>1, <4>2
    <3> QED BY <3>0, <3>2, <3>3, <3>4
  <2>11. Sorts(s, r, N)
    BY <2>6, <2>8, <2>10 DEF Sorts, low, high
  <2> QED BY <2>2, <2>7, <2>11
<1> QED BY <1>1, <1>2, <1>3

LEMMA SortExists ==
  ASSUME NEW N \in Nat
  PROVE  \E f : IsSort(f, N)
<1> DEFINE Right(f, n) ==
             \A t \in Slice(N) : Width(t) < n => f[t] = Body(f, t) /\ Sorts(t, f[t], N)
           S == {n \in Nat : \E f : Right(f, n)}
<1>1. 0 \in S
  <2> DEFINE f == [t \in Slice(N) |-> t.arr]
  <2>1. ASSUME NEW t \in Slice(N), Width(t) < 0
        PROVE  f[t] = Body(f, t) /\ Sorts(t, f[t], N)
    <3>1. ~(t.low < t.high)
      BY <2>1, SliceParts DEF Width
    <3>2. Body(f, t) = t.arr /\ f[t] = t.arr
      BY <3>1 DEF Body
    <3>3. t.low \in Int /\ t.high \in Int /\ t.arr \in Arrays(N) /\ t.high < t.low
      BY <2>1, SliceParts DEF Width
    <3>4. Same(t.arr, t.arr, t.low, t.high, N)
      BY <3>3, SameAsItself
    <3>5. Sorts(t, t.arr, N)
      BY <3>3, <3>4 DEF Sorts
    <3> QED BY <3>2, <3>5
  <2> HIDE DEF f
  <2>2. Right(f, 0)
    BY <2>1
  <2> QED BY <2>2
<1>2. ASSUME NEW n \in 1..(N + 1), n - 1 \in S PROVE n \in S
  <2>1. PICK f : Right(f, n - 1)
    BY <1>2
  <2> DEFINE h == [t \in Slice(N) |-> IF Width(t) < n - 1 THEN f[t] ELSE Body(f, t)]
  <2>2. ASSUME NEW t \in Slice(N), Width(t) < n
        PROVE  h[t] = Body(h, t) /\ Sorts(t, h[t], N)
    <3>1. h[t] = IF Width(t) < n - 1 THEN f[t] ELSE Body(f, t)
      OBVIOUS
    <3>2. ASSUME NEW u \in Slice(N), Width(u) < Width(t)
          PROVE  Sorts(u, f[u], N) /\ h[u] = f[u]
      <4>1. Width(u) < n - 1
        BY <2>2, <3>2, SliceParts
      <4> QED BY <2>1, <4>1
    <3> HIDE DEF h
    <3>3. Sorts(t, Body(f, t), N) /\ Body(h, t) = Body(f, t)
      <4>1. \A u \in Slice(N) : Width(u) < Width(t) => Sorts(u, f[u], N)
        BY <3>2
      <4>2. \A u \in Slice(N) : Width(u) < Width(t) => h[u] = f[u]
        BY <3>2
      <4> QED BY <4>1, <4>2, SortsNext
    <3>4. Width(t) < n - 1 => f[t] = Body(f, t)
      BY <2>1
    <3> QED BY <3>1, <3>3, <3>4
  <2> HIDE DEF h
  <2>3. Right(h, n)
    BY <2>2
  <2>4. n \in Nat
    OBVIOUS
  <2> HIDE DEF Right
  <2> QED BY <2>3, <2>4
<1>3. PICK f : Right(f, N + 1)
  <2> HIDE DEF S
  <2>1. N + 1 \in S
    BY <1>1, <1>2, Counting
  <2> QED BY <2>1 DEF S
<1> DEFINE g == [t \in Slice(N) |-> f[t]]
<1>4. ASSUME NEW t \in Slice(N) PROVE g[t] = Body(g, t)
  <2>0. \A u \in Slice(N) : Width(u) < N + 1
    BY SliceParts
  <2>1. \A u \in Slice(N) : f[u] = Body(f, u) /\ Sorts(u, f[u], N) /\ g[u] = f[u]
    BY <1>3, <2>0
  <2> HIDE DEF g
  <2>2. Body(g, t) = Body(f, t)
    <3>1. \A u \in Slice(N) : Width(u) < Width(t) => Sorts(u, f[u], N)
      BY <2>1
    <3>2. \A u \in Slice(N) : Width(u) < Width(t) => g[u] = f[u]
      BY <2>1
    <3> QED BY <3>1, <3>2, SortsNext
  <2> QED BY <2>1, <2>2
<1>5. g = [t \in Slice(N) |-> g[t]]
  OBVIOUS
<1> HIDE DEF g
<1>6. IsSort(g, N)
  BY <1>4, <1>5 DEF IsSort
<1> QED BY <1>6

LEMMA QuickSort ==
  ASSUME NEW N \in Nat, NEW arr \in Arrays(N), Len(arr) = N
  PROVE  LET r == quick_sort(arr)
         IN  /\ r \in Arrays(N) /\ Same(r, arr, 1, N, N)
             /\ \A i \in 1..N, j \in 1..N : i <= j => r[i] <= r[j]
<1> DEFINE f == CHOOSE g : IsSort(g, N)
           S == {n \in Nat : \A t \in Slice(N) : Width(t) < n => Sorts(t, f[t], N)}
<1>1. IsSort(f, N)
  BY SortExists
<1>2. quick_sort(arr) = f[Part(arr, 1, N)]
  BY DEF quick_sort, IsSort, Body
<1> HIDE DEF f
<1>3. \A t \in Slice(N) : f[t] = Body(f, t)
  BY <1>1 DEF IsSort
<1>4. ASSUME NEW n \in 0..(N + 1),
             n > 0 => \A t \in Slice(N) : Width(t) < n - 1 => Sorts(t, f[t], N)
      PROVE  n \in S
  <2> SUFFICES ASSUME NEW t \in Slice(N), Width(t) < n PROVE Sorts(t, f[t], N)
    OBVIOUS
  <2>1. CASE n > 0
    <3>1. \A u \in Slice(N) : Width(u) < Width(t) => Sorts(u, f[u], N)
      BY <1>4, <2>1, SliceParts
    <3>2. Sorts(t, Body(f, t), N)
      BY <3>1, SortsNext
    <3> QED BY <1>3, <3>2
  <2>2. CASE n = 0
    <3>1. ~(t.low < t.high) /\ t.low \in Int /\ t.high \in Int /\ t.arr \in Arrays(N)
          /\ t.high < t.low
      BY <2>2, SliceParts DEF Width
    <3>2. Same(t.arr, t.arr, t.low, t.high, N)
      BY <3>1, SameAsItself
    <3>3. Sorts(t, t.arr, N)
      BY <3>1, <3>2 DEF Sorts
    <3> QED BY <1>3, <3>1, <3>3 DEF Body
  <2> QED BY <2>1, <2>2
<1>5. 0 \in S
  BY <1>4
<1>6. ASSUME NEW n \in 1..(N + 1), n - 1 \in S PROVE n \in S
  BY <1>4, <1>6
<1> HIDE DEF S
<1>7. N + 1 \in S
  BY <1>5, <1>6, Counting
<1>8. Sorts(Part(arr, 1, N), f[Part(arr, 1, N)], N)
  <2>1. 1 \in 1..(N + 1) /\ N \in 0..N /\ N - 1 < N + 1
    OBVIOUS
  <2>2. Part(arr, 1, N) \in Slice(N) /\ Width(Part(arr, 1, N)) = N - 1
    BY <2>1, PartIsSlice
  <2> QED BY <1>7, <2>1, <2>2 DEF S
<1> QED BY <1>2, <1>8 DEF Sorts, Part

-----------------------------------------------------------------------------
(***************************************************************************)
(* Whole characters: rounding down and up.                                  *)
(***************************************************************************)
LEMMA NextMultiple ==
  ASSUME NEW F \in Nat, NEW a \in Int, NEW b \in Int, a < b
  PROVE  a * F \in Int /\ b * F \in Int /\ a * F + F <= b * F
<1> DEFINE d == b - (a + 1)
<1>1. d \in Nat /\ b = (a + 1) + d
  OBVIOUS
<1> HIDE DEF d
<1>2. ((a + 1) + d) * F = a * F + F + d * F /\ d * F >= 0
  BY <1>1
<1>3. a * F \in Int /\ d * F \in Int
  BY <1>1
<1> QED BY <1>1, <1>2, <1>3

LEMMA Division ==
  ASSUME NEW n \in Nat, n >= 1, NEW rows \in Nat, NEW m \in Nat, m < rows * n
  PROVE  m \div n \in 0..(rows - 1) /\ m % n \in 0..(n - 1)
<1> DEFINE q == m \div n
           r == m % n
           all == rows * n
<1>1. q \in Int /\ r \in 0..(n - 1) /\ m = q * n + r
  BY Quotient
<1>2. m < all /\ all \in Nat
  OBVIOUS
<1> HIDE DEF q, r, all
<1>3. q * n \in Int
  BY <1>1
<1>4. q >= 0
  <2>1. CASE q < 0
    <3>1. q * n + n <= 0 * n /\ 0 * n = 0
      BY <1>1, <2>1, NextMultiple
    <3> QED BY <1>1, <1>3, <3>1
  <2> QED BY <1>1, <2>1
<1>5. q < rows
  <2>1. CASE rows < q
    <3>1. all + n <= q * n
      BY <1>1, <2>1, NextMultiple DEF all
    <3> QED BY <1>1, <1>2, <1>3, <3>1
  <2>2. CASE rows = q
    <3>1. all = q * n
      BY <2>2 DEF all
    <3> QED BY <1>1, <1>2, <1>3, <3>1
  <2> QED BY <1>1, <2>1, <2>2
<1> QED BY <1>1, <1>4, <1>5 DEF q, r

LEMMA RoundedDown ==
  ASSUME NEW F \in Nat, F >= 1, NEW m \in Int, NEW q \in Int
  PROVE  q = m \div F <=> q * F <= m /\ m < q * F + F
<1> DEFINE p == m \div F
           r == m % F
<1>1. p \in Int /\ r \in 0..(F - 1) /\ m = p * F + r /\ p * F \in Int /\ q * F \in Int
  BY Quotient
<1> HIDE DEF p, r
<1>2. p = q => q * F <= m /\ m < q * F + F
  BY <1>1
<1>3. CASE p < q
  <2>1. p * F + F <= q * F
    BY <1>1, <1>3, NextMultiple
  <2> QED BY <1>1, <1>3, <2>1 DEF p
<1>4. CASE q < p
  <2>1. q * F + F <= p * F
    BY <1>1, <1>4, NextMultiple
  <2> QED BY <1>1, <1>4, <2>1 DEF p
<1> QED BY <1>1, <1>2, <1>3, <1>4 DEF p

LEMMA RoundedUp ==
  ASSUME NEW F \in Nat, F >= 1, NEW m \in Nat
  PROVE  LET n == ceil_div(m, F)
         IN  /\ n \in Nat /\ n * F \in Nat /\ m <= n * F /\ n * F < m + F
             /\ m > 0 => n >= 1
<1> DEFINE n == ceil_div(m, F)
<1>1. n = (m + F - 1) \div F /\ m + F - 1 \in Int /\ n \in Int
  BY DEF ceil_div
<1> HIDE DEF n
<1>2. n * F <= m + F - 1 /\ m + F - 1 < n * F + F /\ n * F \in Int
  BY <1>1, RoundedDown
<1>3. n >= 0
  <2>1. CASE n < 0
    <3>1. n * F + F <= 0 * F /\ 0 * F = 0
      BY <1>1, <2>1, NextMultiple
    <3> QED BY <1>2, <3>1
  <2> QED BY <1>1, <2>1
<1>4. m > 0 => n # 0
  <2>1. CASE n = 0
    <3>1. n * F = 0
      BY <2>1
    <3> QED BY <1>2, <3>1
  <2> QED BY <2>1
<1> QED BY <1>1, <1>2, <1>3, <1>4 DEF n

(***************************************************************************)
(* The characters drawn for the columns (lines) a to b - 1 of a text of C   *)
(* characters that starts at o: none outside of the text, and the one at x, *)
(* unless it reaches over to b, which then is in the text too.              *)
(***************************************************************************)
LEMMA Characters ==
  ASSUME NEW F \in Nat, F >= 1, NEW C \in Nat, NEW o \in Int,
         NEW a \in Int, NEW b \in Int, o <= a, a <= b, a < o + C * F, b <= o + C * F
  PROVE  LET first == (a - o) \div F
             n     == ceil_div(b - a, F)
         IN  /\ first \in Nat /\ n \in Nat /\ first + n <= C
             /\ a < b => n >= 1
             /\ \A x \in a..(b - 1) :
                  LET c == (x - o) \div F
                  IN  /\ c \in first..(C - 1)
                      /\ c >= first + n => /\ c = (b - o) \div F /\ b - x <= F - 1
                                           /\ b < o + C * F
<1> DEFINE first == (a - o) \div F
           n     == ceil_div(b - a, F)
           e     == C * F
<1>1. e \in Nat /\ a - o \in Nat /\ b - a \in Nat /\ b <= o + e /\ a < o + e /\ o + e = o + C * F
  OBVIOUS
<1> HIDE DEF e
<1>2. first \in Int /\ first * F \in Int /\ first * F <= a - o /\ a - o < first * F + F
  <2>1. first \in Int /\ first * F \in Int
    BY <1>1
  <2> QED BY <1>1, <2>1, RoundedDown
<1>3. /\ n \in Nat /\ n * F \in Nat /\ b - a <= n * F /\ n * F < b - a + F
      /\ b - a > 0 => n >= 1
  BY <1>1, RoundedUp
<1> HIDE DEF first, n
<1>4. first >= 0
  <2>1. CASE first < 0
    <3>1. first * F + F <= 0 * F /\ 0 * F = 0
      BY <1>2, <2>1, NextMultiple
    <3> QED BY <1>1, <1>2, <3>1
  <2> QED BY <1>2, <2>1
<1>5. (first + n) * F = first * F + n * F /\ first + n \in Int /\ C \in Int /\ C * F = e
  BY <1>2, <1>3 DEF e
<1>6. first + n <= C
  <2>1. CASE C < first + n
    <3>1. e + F <= (first + n) * F
      BY <1>5, <2>1, NextMultiple
    <3> QED BY <1>1, <1>2, <1>3, <1>5, <3>1
  <2> QED BY <1>5, <2>1
<1>7. ASSUME NEW x \in a..(b - 1)
      PROVE  LET c == (x - o) \div F
             IN  /\ c \in first..(C - 1)
                 /\ c >= first + n => /\ c = (b - o) \div F /\ b - x <= F - 1
                                      /\ b < o + C * F
  <2> DEFINE c == (x - o) \div F
  <2>0. x \in Int /\ a <= x /\ x < b /\ x - o \in Int /\ b - o \in Int
    OBVIOUS
  <2>1. c \in Int /\ c * F \in Int /\ c * F <= x - o /\ x - o < c * F + F
    <3>1. c \in Int /\ c * F \in Int
      BY <2>0
    <3> QED BY <2>0, <3>1, RoundedDown
  <2> HIDE DEF c
  <2>2. c >= first
    <3>1. CASE c < first
      <4>1. c * F + F <= first * F
        BY <1>2, <2>1, <3>1, NextMultiple
      <4> QED BY <1>2, <2>0, <2>1, <4>1
    <3> QED BY <1>2, <2>1, <3>1
  <2>3. c < C
    <3>1. CASE C < c
      <4>1. e + F <= c * F
        BY <1>5, <2>1, <3>1, NextMultiple
      <4> QED BY <1>1, <2>0, <2>1, <4>1
    <3>2. CASE C = c
      BY <1>1, <1>5, <2>0, <2>1, <3>2
    <3> QED BY <2>1, <3>1, <3>2
  <2>4. ASSUME c >= first + n
        PROVE  c = (b - o) \div F /\ b - x <= F - 1 /\ b < o + e
    <3>1. (first + n) * F <= c * F
      <4>1. CASE first + n < c
        <5>1. (first + n) * F + F <= c * F
          BY <1>5, <2>1, <4>1, NextMultiple
        <5> QED BY <1>2, <1>3, <1>5, <2>1, <5>1
      <4>2. CASE first + n = c
        BY <1>5, <2>1, <4>2
      <4> QED BY <1>5, <2>1, <2>4, <4>1, <4>2
    <3>2. b - x <= F - 1
      BY <1>2, <1>3, <1>5, <2>0, <2>1, <3>1
    <3>3. c * F <= b - o /\ b - o < c * F + F
      BY <1>1, <1>2, <1>3, <1>5, <2>0, <2>1, <3>1
    <3>4. c = (b - o) \div F
      BY <2>0, <2>1, <3>3, RoundedDown
    <3>5. c * F + F <= e
      BY <1>5, <2>1, <2>3, NextMultiple
    <3> QED BY <1>1, <2>0, <2>1, <3>2, <3>3, <3>4, <3>5
  <2> QED BY <1>1, <2>1, <2>2, <2>3, <2>4 DEF c
<1> QED BY <1>2, <1>3, <1>4, <1>6, <1>7 DEF first, n

-----------------------------------------------------------------------------
(***************************************************************************)
(* The lines of the grid.                                                   *)
(***************************************************************************)
IsGrid(g, N, extent) ==
  /\ g \in [1..N -> 0..extent] /\ g[1] = 0 /\ g[N] = extent
  /\ \A i \in 1..N, j \in 1..N : i <= j => g[i] <= g[j]

IsLine(g, N, c) == \E k \in 1..N : g[k] = c

LEMMA GridLines ==
  ASSUME NEW extent \in Nat, NEW size \in Nat, NEW n \in Nat, NEW at \in [1..n -> Nat],
         \A w \in 1..n : at[w] + size <= extent
  PROVE  LET N == 2 + 2 * n
             g == Lines(extent, size, at)
         IN  /\ IsGrid(g, N, extent)
             /\ \A w \in 1..n : IsLine(g, N, at[w]) /\ IsLine(g, N, at[w] + size)
<1> DEFINE N == 2 + 2 * n
           edges == [k \in 1..(2 * n) |-> IF k % 2 = 1 THEN at[(k + 1) \div 2]
                                         ELSE at[k \div 2] + size]
           arr == <<0, extent>> \o edges
           g == Lines(extent, size, at)
<1>1. Len(at) = n
  BY LenProperties
<1>2. g = quick_sort(arr)
  BY <1>1 DEF Lines
<1>3. ASSUME NEW k \in 1..(2 * n) PROVE edges[k] \in 0..extent
  <2>1. CASE k % 2 = 1
    <3>1. (k + 1) \div 2 \in 1..n /\ edges[k] = at[(k + 1) \div 2]
      BY <2>1
    <3> HIDE DEF edges
    <3>2. at[(k + 1) \div 2] \in Nat /\ at[(k + 1) \div 2] + size <= extent
      BY <3>1
    <3> QED BY <3>1, <3>2
  <2>2. CASE k % 2 # 1
    <3>1. k \div 2 \in 1..n /\ edges[k] = at[k \div 2] + size
      BY <2>2
    <3> HIDE DEF edges
    <3>2. at[k \div 2] \in Nat /\ at[k \div 2] + size <= extent
      BY <3>1
    <3> QED BY <3>1, <3>2
  <2> QED BY <2>1, <2>2
<1>4. ASSUME NEW w \in 1..n
      PROVE  edges[2 * w - 1] = at[w] /\ edges[2 * w] = at[w] + size
  <2>1. 2 * w - 1 \in 1..(2 * n) /\ (2 * w - 1) % 2 = 1 /\ ((2 * w - 1) + 1) \div 2 = w
    OBVIOUS
  <2>2. 2 * w \in 1..(2 * n) /\ (2 * w) % 2 = 0 /\ (2 * w) \div 2 = w
    OBVIOUS
  <2>3. edges[2 * w - 1] = at[w]
    BY <2>1
  <2>4. edges[2 * w] = at[w] + size
    BY <2>2
  <2> QED BY <2>3, <2>4
<1>5. edges \in [1..(2 * n) -> Int]
  BY <1>3
<1> HIDE DEF edges
<1>6. /\ N \in Nat /\ N >= 2 /\ Len(arr) = N /\ arr \in Arrays(N) /\ arr[1] = 0 /\ arr[2] = extent
      /\ \A k \in 1..(2 * n) : arr[k + 2] = edges[k]
  <2>1. 2 * n \in Nat /\ edges \in Seq(Int) /\ Len(edges) = 2 * n
    <3>1. 2 * n \in Nat
      OBVIOUS
    <3> QED BY <1>5, <3>1, LenProperties
  <2>2. <<0, extent>> \in Seq(Int) /\ Len(<<0, extent>>) = 2
    OBVIOUS
  <2>3. /\ arr \in Seq(Int) /\ Len(arr) = 2 + 2 * n
        /\ \A i \in 1..Len(arr) : arr[i] = IF i <= 2 THEN <<0, extent>>[i] ELSE edges[i - 2]
    BY <2>1, <2>2, ConcatProperties
  <2> HIDE DEF arr
  <2>4. arr \in Arrays(N)
    BY <2>3, LenProperties DEF Arrays
  <2>5. arr[1] = 0 /\ arr[2] = extent
    <3>1. 1 \in 1..Len(arr) /\ 2 \in 1..Len(arr) /\ 1 <= 2
      BY <2>3
    <3> QED BY <2>3, <3>1
  <2>6. ASSUME NEW k \in 1..(2 * n) PROVE arr[k + 2] = edges[k]
    <3>1. k + 2 \in 1..Len(arr) /\ ~(k + 2 <= 2) /\ (k + 2) - 2 = k
      BY <2>3
    <3> QED BY <2>3, <3>1
  <2> QED BY <2>3, <2>4, <2>5, <2>6
<1>7. \A k \in 1..N : arr[k] \in 0..extent
  <2> TAKE k \in 1..N
  <2>1. CASE k = 1 \/ k = 2
    BY <1>6, <2>1
  <2>2. CASE ~(k = 1 \/ k = 2)
    <3>1. k - 2 \in 1..(2 * n) /\ (k - 2) + 2 = k
      BY <2>2
    <3>2. arr[(k - 2) + 2] = edges[k - 2]
      BY <1>6, <3>1
    <3> QED BY <1>3, <3>1, <3>2
  <2> QED BY <2>1, <2>2
<1> HIDE DEF arr, g
<1> HIDE DEF N
<1>8. /\ g \in Arrays(N) /\ Same(g, arr, 1, N, N)
      /\ \A i \in 1..N, j \in 1..N : i <= j => g[i] <= g[j]
  BY <1>2, <1>6, QuickSort
<1>9. \A k \in 1..N : g[k] \in 0..extent
  BY <1>7, <1>8 DEF Same
<1>10. ASSUME NEW k \in 1..N PROVE IsLine(g, N, arr[k])
  <2>1. \E m \in 1..N : g[m] = arr[k]
    BY <1>8 DEF Same
  <2> QED BY <2>1 DEF IsLine
<1>11. g[1] = 0 /\ g[N] = extent
  <2>0. 1 \in 1..N /\ 2 \in 1..N /\ N \in 1..N
    BY <1>6
  <2>a. arr[1] = 0 /\ arr[2] = extent
    BY <1>6
  <2>b. IsLine(g, N, 0) /\ IsLine(g, N, extent)
    BY <1>10, <2>0, <2>a
  <2>1. PICK k \in 1..N : g[k] = 0
    BY <2>b DEF IsLine
  <2>2. PICK m \in 1..N : g[m] = extent
    BY <2>b DEF IsLine
  <2>3. g[1] <= 0 /\ extent <= g[N]
    BY <1>8, <2>0, <2>1, <2>2
  <2>4. g[1] \in 0..extent /\ g[N] \in 0..extent
    BY <1>9, <2>0
  <2> QED BY <2>3, <2>4
<1>12. ASSUME NEW w \in 1..n PROVE IsLine(g, N, at[w]) /\ IsLine(g, N, at[w] + size)
  <2>1. (2 * w - 1) + 2 \in 1..N /\ 2 * w + 2 \in 1..N /\ 2 * w - 1 \in 1..(2 * n)
        /\ 2 * w \in 1..(2 * n)
    BY DEF N
  <2>2. arr[(2 * w - 1) + 2] = at[w] /\ arr[2 * w + 2] = at[w] + size
    BY <1>4, <1>6, <2>1
  <2>3. IsLine(g, N, arr[(2 * w - 1) + 2]) /\ IsLine(g, N, arr[2 * w + 2])
    BY <1>10, <2>1
  <2> QED BY <2>2, <2>3
<1>13. g \in [1..N -> 0..extent]
  BY <1>8, <1>9 DEF Arrays
<1>14. IsGrid(g, N, extent)
  BY <1>8, <1>11, <1>13 DEF IsGrid
<1> QED BY <1>12, <1>14 DEF N, g

\* The cell that a coordinate is in.
LEMMA CellOf ==
  ASSUME NEW extent \in Nat, NEW N \in Nat, N >= 1, NEW g, IsGrid(g, N, extent),
         NEW x \in 0..(extent - 1)
  PROVE  \E i \in 1..(N - 1) :
           /\ g[i] <= x /\ x < g[i + 1]
           /\ \A c \in Int : IsLine(g, N, c) => /\ c <= x <=> c <= g[i]
                                                /\ c > x <=> c >= g[i + 1]
<1> DEFINE S == {k \in Nat : k \in 1..N /\ g[k] > x}
<1>0. x \in Int /\ 1 \in 1..N /\ N \in 1..N /\ \A k \in 1..N : g[k] \in Int
  BY DEF IsGrid
<1>1. N \in S
  BY <1>0 DEF IsGrid
<1>2. PICK m \in S : \A k \in S : m <= k
  BY <1>1, LeastNat
<1>3. m \in 1..N /\ g[m] > x /\ m # 1
  BY <1>2 DEF IsGrid
<1> DEFINE i == m - 1
<1>4. i \in 1..(N - 1) /\ i \in 1..N /\ i \notin S /\ i + 1 = m
  BY <1>2, <1>3
<1>5. g[i] <= x /\ x < g[i + 1]
  BY <1>0, <1>3, <1>4
<1> HIDE DEF i, S
<1>6. ASSUME NEW c \in Int, IsLine(g, N, c)
      PROVE  (c <= x <=> c <= g[i]) /\ (c > x <=> c >= g[i + 1])
  <2>1. PICK k \in 1..N : g[k] = c
    BY <1>6 DEF IsLine
  <2>2. g[i] \in Int /\ g[i + 1] \in Int /\ i + 1 \in 1..N
    BY <1>0, <1>3, <1>4
  <2>3. k <= i \/ k >= i + 1
    BY <1>4
  <2>4. CASE k <= i
    <3>1. c <= g[i]
      BY <1>4, <2>1, <2>4 DEF IsGrid
    <3> QED BY <1>0, <1>5, <2>2, <3>1
  <2>5. CASE k >= i + 1
    <3>1. c >= g[i + 1]
      BY <1>4, <2>1, <2>2, <2>5 DEF IsGrid
    <3> QED BY <1>0, <1>5, <2>2, <3>1
  <2> QED BY <2>3, <2>4, <2>5
<1> QED BY <1>4, <1>5, <1>6

-----------------------------------------------------------------------------
(***************************************************************************)
(* FlattenSeq: all the entries, and no others.                              *)
(***************************************************************************)
IsFlattening(g, seqs, n) ==
  g = [i \in 1..n |-> IF i = 1 THEN seqs[i] ELSE g[i - 1] \o seqs[i]]

LEMMA FlatteningExists ==
  ASSUME NEW seqs, NEW N \in Nat
  PROVE  \E g : IsFlattening(g, seqs, N)
<1> DEFINE S == {n \in Nat : \E g : IsFlattening(g, seqs, n)}
<1>1. 0 \in S
  <2>1. IsFlattening([i \in 1..0 |-> <<>>], seqs, 0)
    BY DEF IsFlattening
  <2> QED BY <2>1
<1>2. ASSUME NEW n \in 1..N, n - 1 \in S PROVE n \in S
  <2>1. PICK g : IsFlattening(g, seqs, n - 1)
    BY <1>2
  <2> DEFINE h == [i \in 1..n |-> IF i = n
                                  THEN IF i = 1 THEN seqs[i] ELSE g[i - 1] \o seqs[i]
                                  ELSE g[i]]
  <2>2. ASSUME NEW i \in 1..n
        PROVE  h[i] = IF i = 1 THEN seqs[i] ELSE h[i - 1] \o seqs[i]
    <3>1. CASE i = n
      <4>1. i # 1 => i - 1 \in 1..n /\ i - 1 # n
        BY <3>1
      <4>2. h[i] = IF i = 1 THEN seqs[i] ELSE g[i - 1] \o seqs[i]
        BY <3>1
      <4>3. i # 1 => h[i - 1] = g[i - 1]
        BY <4>1
      <4> QED BY <4>2, <4>3
    <3>2. CASE i # n
      <4>1. i \in 1..(n - 1) /\ h[i] = g[i]
        BY <3>2
      <4>2. g[i] = IF i = 1 THEN seqs[i] ELSE g[i - 1] \o seqs[i]
        BY <2>1, <4>1 DEF IsFlattening
      <4>3. i # 1 => i - 1 \in 1..n /\ i - 1 # n
        BY <3>2
      <4>4. i # 1 => h[i - 1] = g[i - 1]
        BY <4>3
      <4> QED BY <4>1, <4>2, <4>4
    <3> QED BY <3>1, <3>2
  <2>3. h = [i \in 1..n |-> h[i]]
    OBVIOUS
  <2> HIDE DEF h
  <2>4. IsFlattening(h, seqs, n)
    BY <2>2, <2>3 DEF IsFlattening
  <2> QED BY <2>4
<1> HIDE DEF S
<1>3. N \in S
  BY <1>1, <1>2, Counting
<1> QED BY <1>3 DEF S

IsEntry(s, e) == \E k \in 1..Len(s) : s[k] = e

LEMMA Flattened ==
  ASSUME NEW T, NEW seqs \in Seq(Seq(T)), seqs # <<>>
  PROVE  /\ FlattenSeq(seqs) \in Seq(T)
         /\ \A i \in 1..Len(seqs) : \A e : IsEntry(seqs[i], e) => IsEntry(FlattenSeq(seqs), e)
<1> DEFINE N == Len(seqs)
           g == CHOOSE g : IsFlattening(g, seqs, N)
<1>0. N \in Nat /\ N >= 1 /\ \A i \in 1..N : seqs[i] \in Seq(T)
  OBVIOUS
<1>1. IsFlattening(g, seqs, N)
  BY <1>0, FlatteningExists
<1>2. FlattenSeq(seqs) = g[N]
  <2>1. ~(Len(seqs) = 0)
    BY <1>0
  <2> QED BY <2>1 DEF FlattenSeq, IsFlattening
<1> HIDE DEF g, N
<1>3. \A i \in 1..N : g[i] = IF i = 1 THEN seqs[i] ELSE g[i - 1] \o seqs[i]
  BY <1>1 DEF IsFlattening
<1> DEFINE Right(n) == /\ g[n] \in Seq(T)
                       /\ \A i \in 1..n : \A e : IsEntry(seqs[i], e) => IsEntry(g[n], e)
           S == {n \in Nat : n = 0 \/ Right(n)}
<1>4. 0 \in S
  OBVIOUS
<1> HIDE DEF Right
<1>5. ASSUME NEW n \in 1..N, n - 1 \in S PROVE n \in S
  <2>1. CASE n = 1
    <3>1. g[n] = seqs[1] /\ 1 \in 1..N
      BY <1>3, <2>1
    <3>2. Right(n)
      BY <1>0, <2>1, <3>1 DEF Right
    <3> QED BY <3>2
  <2>2. CASE n # 1
    <3>0. n - 1 \in Nat /\ n - 1 # 0
      BY <2>2
    <3>1. Right(n - 1) /\ g[n] = g[n - 1] \o seqs[n] /\ seqs[n] \in Seq(T)
      BY <1>0, <1>3, <1>5, <2>2, <3>0
    <3> DEFINE a == g[n - 1]
               b == seqs[n]
    <3>2. /\ a \in Seq(T) /\ b \in Seq(T) /\ g[n] = a \o b
          /\ \A i \in 1..(n - 1) : \A e : IsEntry(seqs[i], e) => IsEntry(a, e)
      BY <3>1 DEF Right
    <3> HIDE DEF a
    <3>3. /\ Len(a) \in Nat /\ Len(b) \in Nat /\ a \o b \in Seq(T)
          /\ Len(a \o b) = Len(a) + Len(b)
          /\ \A k \in 1..(Len(a) + Len(b)) :
               (a \o b)[k] = IF k <= Len(a) THEN a[k] ELSE b[k - Len(a)]
      BY <3>2, ConcatProperties, LenProperties
    <3>4. ASSUME NEW i \in 1..n, NEW e, IsEntry(seqs[i], e) PROVE IsEntry(a \o b, e)
      <4>1. CASE i = n
        <5>1. PICK k \in 1..Len(b) : b[k] = e
          BY <3>4, <4>1 DEF IsEntry
        <5>2. k + Len(a) \in 1..(Len(a) + Len(b)) /\ ~(k + Len(a) <= Len(a))
              /\ (k + Len(a)) - Len(a) = k
          BY <3>3
        <5> QED BY <3>3, <5>1, <5>2 DEF IsEntry
      <4>2. CASE i # n
        <5>1. i \in 1..(n - 1)
          BY <4>2
        <5>2. PICK k \in 1..Len(a) : a[k] = e
          BY <3>2, <3>4, <5>1 DEF IsEntry
        <5>3. k \in 1..(Len(a) + Len(b)) /\ k <= Len(a)
          BY <3>3
        <5> QED BY <3>3, <5>2, <5>3 DEF IsEntry
      <4> QED BY <4>1, <4>2
    <3> HIDE DEF b
    <3>5. Right(n)
      BY <3>2, <3>3, <3>4 DEF Right
    <3> QED BY <3>5
  <2> QED BY <2>1, <2>2
<1> HIDE DEF S
<1>6. N \in S
  <2>1. N \in Nat /\ N \in 0..N
    BY <1>0
  <2>2. \A n \in 1..N : n - 1 \in S => n \in S
    BY <1>5
  <2> QED BY <1>4, <2>1, <2>2, Counting
<1> QED BY <1>0, <1>2, <1>6 DEF S, Right, N

-----------------------------------------------------------------------------
(***************************************************************************)
(* Windows, and the copies that draw them.                                  *)
(***************************************************************************)
TW == TERMINAL_WIDTH_PIXEL
TH == TERMINAL_HEIGHT_PIXEL

\* Windows stand where is_valid_position lets them, in either half.
Placed ==
  /\ window_stack \in Seq([x : Positions.x, y : Positions.y])
  /\ curr_y \in {0, H}

Point(x, y) == Line(y + curr_y) + x

LEMMA Window ==
  ASSUME Placed, NEW w \in DOMAIN window_stack
  PROVE  LET win == window_stack[w]
         IN  /\ win.x \in Nat /\ win.y \in Nat /\ w \in 1..Len(window_stack) /\ w \in Nat
             /\ win.x + TW <= W /\ win.y + TH <= H
             /\ LEFT_RIGHT_MARGIN <= win.x /\ win.x + TW + LEFT_RIGHT_MARGIN <= W
             /\ TITLE_BAR_HEIGHT <= win.y /\ win.y + TH + DOWN_MARGIN <= H
             /\ TW \in Nat /\ TW >= 1 /\ TH \in Nat /\ TH >= 1
             /\ TW = TERMINAL_TEXT_COLS * FONT_WIDTH /\ TH = TERMINAL_TEXT_ROWS * FONT_HEIGHT
<1> DEFINE win == window_stack[w]
<1>1. win \in [x : Positions.x, y : Positions.y] /\ w \in 1..Len(window_stack)
  <2> DEFINE T == [x : Positions.x, y : Positions.y]
  <2>1. window_stack \in Seq(T)
    BY DEF Placed
  <2> HIDE DEF T
  <2>2. w \in 1..Len(window_stack)
    BY <2>1, LenProperties
  <2>3. win \in T
    BY <2>1, <2>2, ElementOfSeq
  <2> QED BY <2>2, <2>3 DEF T
<1> HIDE DEF win
<1>2. /\ win.x \in LEFT_RIGHT_MARGIN..(W - TW - LEFT_RIGHT_MARGIN)
      /\ win.y \in TITLE_BAR_HEIGHT..(H - TH - DOWN_MARGIN)
  BY <1>1, PlacesAssumption DEF TW, TH, W, H
<1>3. TW = TERMINAL_TEXT_COLS * FONT_WIDTH /\ TH = TERMINAL_TEXT_ROWS * FONT_HEIGHT
  BY DEF TW, TH, TERMINAL_WIDTH_PIXEL, TERMINAL_HEIGHT_PIXEL
<1>4. TW \in Nat /\ TW >= 1
  <2>0. FONT_WIDTH \in Nat /\ FONT_WIDTH >= 1
        /\ TERMINAL_TEXT_COLS \in Int /\ 0 < TERMINAL_TEXT_COLS
    BY Sizes
  <2>1. TERMINAL_TEXT_COLS * FONT_WIDTH \in Nat /\ TERMINAL_TEXT_COLS * FONT_WIDTH >= 1
    <3> DEFINE p == TERMINAL_TEXT_COLS * FONT_WIDTH
    <3>1. p \in Int /\ 0 * FONT_WIDTH + FONT_WIDTH <= p /\ 0 * FONT_WIDTH = 0
      BY <2>0, NextMultiple
    <3> HIDE DEF p
    <3>2. p \in Nat /\ p >= 1
      BY <2>0, <3>1
    <3> QED BY <3>2 DEF p
  <2> QED BY <1>3, <2>1
<1>5. TH \in Nat /\ TH >= 1
  <2>0. FONT_HEIGHT \in Nat /\ FONT_HEIGHT >= 1
        /\ TERMINAL_TEXT_ROWS \in Int /\ 0 < TERMINAL_TEXT_ROWS
    BY Sizes
  <2>1. TERMINAL_TEXT_ROWS * FONT_HEIGHT \in Nat /\ TERMINAL_TEXT_ROWS * FONT_HEIGHT >= 1
    <3> DEFINE p == TERMINAL_TEXT_ROWS * FONT_HEIGHT
    <3>1. p \in Int /\ 0 * FONT_HEIGHT + FONT_HEIGHT <= p /\ 0 * FONT_HEIGHT = 0
      BY <2>0, NextMultiple
    <3> HIDE DEF p
    <3>2. p \in Nat /\ p >= 1
      BY <2>0, <3>1
    <3> QED BY <3>2 DEF p
  <2> QED BY <1>3, <2>1
<1>6. /\ win.x \in Nat /\ win.x + TW <= W /\ LEFT_RIGHT_MARGIN <= win.x
      /\ win.x + TW + LEFT_RIGHT_MARGIN <= W
  <2> DEFINE a == win.x
  <2>1. a \in LEFT_RIGHT_MARGIN..(W - TW - LEFT_RIGHT_MARGIN)
    BY <1>2
  <2> HIDE DEF a
  <2>2. /\ a \in Nat /\ a + TW <= W /\ LEFT_RIGHT_MARGIN <= a
        /\ a + TW + LEFT_RIGHT_MARGIN <= W
    BY <1>4, <2>1, Sizes
  <2> QED BY <2>2 DEF a
<1>7. /\ win.y \in Nat /\ win.y + TH <= H /\ TITLE_BAR_HEIGHT <= win.y
      /\ win.y + TH + DOWN_MARGIN <= H
  <2> DEFINE a == win.y
  <2>1. a \in TITLE_BAR_HEIGHT..(H - TH - DOWN_MARGIN)
    BY <1>2
  <2> HIDE DEF a
  <2>2. /\ a \in Nat /\ a + TH <= H /\ TITLE_BAR_HEIGHT <= a
        /\ a + TH + DOWN_MARGIN <= H
    BY <1>5, <2>1, Sizes
  <2> QED BY <2>2 DEF a
<1>8. w \in Nat
  BY <1>1
<1> QED BY <1>1, <1>3, <1>4, <1>5, <1>6, <1>7, <1>8 DEF win

(***************************************************************************)
(* op draws an object at X, Y of the half, and on the screen.               *)
(***************************************************************************)
CopyTo(op, X, Y) ==
  /\ op.at = Line(Y + curr_y) + X /\ X \in Nat /\ Y \in Nat
  /\ op.obj.width \in Nat /\ op.obj.height \in Nat
  /\ X + op.obj.width <= W /\ Y + op.obj.height <= H

OnScreen(op) == \E X \in Nat, Y \in Nat : CopyTo(op, X, Y)

LEMMA DrawObject ==
  ASSUME Placed, NEW obj, NEW X \in Nat, NEW Y \in Nat,
         obj.width \in Nat, obj.height \in Nat, X + obj.width <= W, Y + obj.height <= H
  PROVE  LET op == draw_object(obj, X, Y) IN CopyTo(op, X, Y) /\ op.obj = obj /\ OnScreen(op)
  BY DEF draw_object, CopyTo, OnScreen, Line

LEMMA CopyCovers ==
  ASSUME Placed, NEW op, NEW X \in Nat, NEW Y \in Nat, CopyTo(op, X, Y),
         NEW x \in 0..(W - 1), NEW y \in Int
  PROVE  LET inside == x - X \in 0..(op.obj.width - 1) /\ y - Y \in 0..(op.obj.height - 1)
         IN  /\ Covers(op, Point(x, y)) <=> inside
             /\ inside => Source(op, Point(x, y)) = <<op.obj.name, x - X, y - Y>>
<1>1. curr_y \in Int /\ y + curr_y \in Int /\ Y + curr_y \in Int
      /\ (y + curr_y) - (Y + curr_y) = y - Y
  BY Sizes DEF Placed
<1>2. op.at = Line(Y + curr_y) + X /\ op.obj.width \in Nat /\ op.obj.height \in Nat
      /\ X + op.obj.width <= W
  BY DEF CopyTo
<1> DEFINE yy == y + curr_y
           YY == Y + curr_y
<1>3. LET inside == x - X \in 0..(op.obj.width - 1) /\ yy - YY \in 0..(op.obj.height - 1)
      IN  /\ Covers(op, Line(yy) + x) <=> inside
          /\ inside => Source(op, Line(yy) + x) = <<op.obj.name, x - X, yy - YY>>
  <2>1. yy \in Int /\ YY \in Int /\ op.at = Line(YY) + X
    BY <1>1, <1>2
  <2> HIDE DEF yy, YY
  <2> QED BY <1>2, <2>1, CoversPoint
<1> QED BY <1>1, <1>3 DEF Point

LEMMA HalfLine ==
  ASSUME Placed
  PROVE  curr_y \in Nat /\ Line(curr_y) \in Nat /\ Line(curr_y) \in {0, Screen}
<1>1. curr_y \in Nat
  BY Sizes DEF Placed
<1>2. Line(0) = 0 /\ Line(H) = Screen
  BY Lines1
<1> QED BY <1>1, <1>2, Lines1 DEF Placed

\* The half that is drawn.
Half == {a \in Address : a - Line(curr_y) \in 0..(Screen - 1)}

LEMMA PointOfHalf ==
  ASSUME Placed, NEW x \in 0..(W - 1), NEW y \in 0..(H - 1)
  PROVE  Point(x, y) \in Half /\ Point(x, y) - Line(curr_y) = Line(y) + x
<1>1. Line(y + curr_y) = Line(y) + Line(curr_y) /\ Line(y) \in Nat /\ Line(curr_y) \in Nat
      /\ curr_y \in Nat
  <2>1. curr_y \in Nat /\ curr_y \in Int /\ y \in Nat /\ y \in Int
    BY HalfLine
  <2>2. Line(y + curr_y) = Line(y) + Line(curr_y)
    BY <2>1, LineSum
  <2> QED BY <2>1, <2>2, Lines1
<1>2. Line(y) + W <= Screen /\ Screen \in Nat
  BY Sizes, Later, Lines1
<1>3. Line(curr_y) <= Screen
  BY HalfLine, Lines1
<1>4. Address = 0..(2 * Screen + W - 1)
  BY DEF Address, W
<1> QED BY <1>1, <1>2, <1>3, <1>4, Sizes DEF Point, Half

LEMMA OnlyPoints ==
  ASSUME Placed, NEW a \in Half
  PROVE  \E x \in 0..(W - 1), y \in 0..(H - 1) : a = Point(x, y)
<1> DEFINE d == a - Line(curr_y)
           y == d \div W
           x == d % W
<1>1. d \in 0..(Screen - 1) /\ a \in Int /\ Line(curr_y) \in Int /\ curr_y \in Nat
      /\ a = d + Line(curr_y) /\ Screen \in Nat /\ d \in Int
  <2>1. Line(curr_y) \in Int /\ curr_y \in Nat /\ Screen \in Nat
    BY HalfLine, Lines1
  <2>2. a \in Int /\ d \in 0..(Screen - 1)
    BY DEF Half, Address
  <2> QED BY <2>1, <2>2
<1> HIDE DEF d
<1>2. y \in Int /\ x \in 0..(W - 1) /\ d = Line(y) + x
  <2>1. d = y * W + x /\ y \in Int /\ x \in 0..(W - 1)
    BY <1>1, Quotient, Sizes
  <2> QED BY <2>1 DEF Line, W
<1> HIDE DEF x, y
<1>3. y >= 0
  <2>1. CASE y < 0
    <3>1. Line(y) + W <= Line(0) /\ Line(0) = 0 /\ Line(y) \in Int
      BY <1>2, <2>1, Later, Lines1
    <3> QED BY <1>1, <1>2, <3>1, Sizes
  <2> QED BY <1>2, <2>1
<1>4. y < H
  <2>1. CASE y >= H
    <3>1. Line(y) >= Screen
      <4>1. CASE y = H
        <5>1. Line(y) = Screen
          BY <4>1, Lines1
        <5> QED BY <1>1, <5>1
      <4>2. CASE H < y
        <5>1. Line(H) + W <= Line(y)
          BY <1>2, <4>2, Later, Sizes
        <5> QED BY <1>1, <1>2, <5>1, Lines1, Sizes
      <4> QED BY <1>2, <2>1, <4>1, <4>2, Sizes
    <3> QED BY <1>1, <1>2, <3>1, Lines1
  <2> QED BY <1>2, <2>1, Sizes
<1>5. a = Point(x, y)
  <2>1. Line(y + curr_y) = Line(y) + Line(curr_y) /\ Line(y) \in Int
    BY <1>1, <1>2, LineSum, Lines1
  <2> QED BY <1>1, <1>2, <2>1 DEF Point
<1> QED BY <1>2, <1>3, <1>4, <1>5, Sizes

LEMMA CopiesStayInHalf ==
  ASSUME Placed, NEW op, OnScreen(op), NEW a \in Address, Covers(op, a)
  PROVE  a \in Half
<1> DEFINE y == a \div W
           x == a % W
<1>1. a \in Int /\ y \in Int /\ x \in 0..(W - 1) /\ a = Line(y) + x
  <2>1. a \in Int
    BY DEF Address
  <2>2. a = y * W + x /\ y \in Int /\ x \in 0..(W - 1)
    BY <2>1, Quotient, Sizes
  <2> QED BY <2>1, <2>2 DEF Line, W
<1> HIDE DEF x, y
<1> DEFINE z == y - curr_y
<1>2. z \in Int /\ z + curr_y = y /\ curr_y \in Nat
  BY <1>1, Sizes DEF Placed
<1>3. a = Point(x, z)
  BY <1>1, <1>2 DEF Point
<1> HIDE DEF z
<1>4. PICK X \in Nat, Y \in Nat : CopyTo(op, X, Y)
  BY DEF OnScreen
<1>5. z - Y \in 0..(op.obj.height - 1)
  <2>1. x \in 0..(W - 1) /\ z \in Int /\ Covers(op, Point(x, z))
    BY <1>1, <1>2, <1>3
  <2> QED BY <1>4, <2>1, CopyCovers
<1>6. z \in 0..(H - 1)
  BY <1>2, <1>4, <1>5, Sizes DEF CopyTo
<1> QED BY <1>1, <1>3, <1>6, PointOfHalf

-----------------------------------------------------------------------------
(***************************************************************************)
(* The text of a window: a copy for each of its characters.                 *)
(***************************************************************************)
Glyph(w, row, col) ==
  print_char(Text(w, row, col), window_stack[w].x + col * FONT_WIDTH,
                                window_stack[w].y + row * FONT_HEIGHT)

Glyphs(w) == {Glyph(w, row, col) : row \in 0..(TERMINAL_TEXT_ROWS - 1),
                                   col \in 0..(TERMINAL_TEXT_COLS - 1)}

ColOf(w, x) == (x - window_stack[w].x) \div FONT_WIDTH
RowOf(w, y) == (y - window_stack[w].y) \div FONT_HEIGHT

\* what InWindow says of a point of the body
BodyPixel(w, x, y) ==
  <<GlyphOf(Text(w, RowOf(w, y), ColOf(w, x))),
    x - (window_stack[w].x + ColOf(w, x) * FONT_WIDTH),
    y - (window_stack[w].y + RowOf(w, y) * FONT_HEIGHT)>>

LEMMA FontObject ==
  ASSUME NEW byte \in 0..(FONT_HALF - 1)
  PROVE  gui_get_obj_font(byte) = Object(GlyphOf(byte), FONT_WIDTH, FONT_HEIGHT)
<1>1. Char(byte) = byte /\ byte >= 0
  BY Sizes DEF Char
<1>2. Truncated(Char(byte), FONT_HALF) = byte \div FONT_HALF
  BY <1>1 DEF Truncated
<1> QED BY <1>2 DEF gui_get_obj_font, GlyphOf

LEMMA TextInFont ==
  ASSUME NEW w \in Int, NEW row \in Int, NEW col \in Int
  PROVE  Text(w, row, col) \in 0..(FONT_HALF - 1)
<1> DEFINE m == 3 * w + row * TERMINAL_TEXT_COLS + col
<1>1. m \in Int
  BY Sizes
<1> HIDE DEF m
<1>2. m % FONT_HALF \in 0..(FONT_HALF - 1)
  BY <1>1, Sizes, Quotient
<1> QED BY <1>2 DEF Text, m

\* Characters of a text take up its width, and no more.
LEMMA CharacterPlace ==
  ASSUME NEW F \in Nat, F >= 1, NEW C \in Nat, NEW c \in 0..(C - 1)
  PROVE  c * F \in Nat /\ c * F + F <= C * F /\ C * F \in Nat
<1>1. c \in Nat /\ c < C
  OBVIOUS
<1>2. c * F \in Nat /\ C * F \in Nat
  BY <1>1
<1> QED BY <1>1, <1>2, NextMultiple

LEMMA GlyphCopy ==
  ASSUME Placed, NEW w \in DOMAIN window_stack,
         NEW row \in 0..(TERMINAL_TEXT_ROWS - 1), NEW col \in 0..(TERMINAL_TEXT_COLS - 1)
  PROVE  LET op == Glyph(w, row, col)
             win == window_stack[w]
         IN  /\ CopyTo(op, win.x + col * FONT_WIDTH, win.y + row * FONT_HEIGHT)
             /\ op.obj = Object(GlyphOf(Text(w, row, col)), FONT_WIDTH, FONT_HEIGHT)
             /\ OnScreen(op)
<1> DEFINE win == window_stack[w]
           X == win.x + col * FONT_WIDTH
           Y == win.y + row * FONT_HEIGHT
           byte == Text(w, row, col)
           obj == Object(GlyphOf(byte), FONT_WIDTH, FONT_HEIGHT)
<1>1. w \in Int /\ win.x \in Nat /\ win.y \in Nat /\ win.x + TW <= W /\ win.y + TH <= H
      /\ TW = TERMINAL_TEXT_COLS * FONT_WIDTH /\ TH = TERMINAL_TEXT_ROWS * FONT_HEIGHT
      /\ TW \in Nat /\ TH \in Nat
  <2>1. /\ win.x \in Nat /\ win.y \in Nat /\ w \in 1..Len(window_stack)
        /\ win.x + TW + LEFT_RIGHT_MARGIN <= W /\ win.y + TH + DOWN_MARGIN <= H
        /\ TW = TERMINAL_TEXT_COLS * FONT_WIDTH /\ TH = TERMINAL_TEXT_ROWS * FONT_HEIGHT
        /\ TW \in Nat /\ TH \in Nat
    BY Window
  <2> HIDE DEF win
  <2>2. w \in Int /\ win.x + TW <= W /\ win.y + TH <= H
    BY <2>1, Sizes
  <2> QED BY <2>1, <2>2
<1>2. col * FONT_WIDTH \in Nat /\ col * FONT_WIDTH + FONT_WIDTH <= TW
  BY <1>1, CharacterPlace, Sizes
<1>3. row * FONT_HEIGHT \in Nat /\ row * FONT_HEIGHT + FONT_HEIGHT <= TH
  BY <1>1, CharacterPlace, Sizes
<1> HIDE DEF win
<1>4. X \in Nat /\ Y \in Nat /\ X + FONT_WIDTH <= W /\ Y + FONT_HEIGHT <= H
  BY <1>1, <1>2, <1>3, Sizes
<1>5. gui_get_obj_font(byte) = obj
  <2>1. byte \in 0..(FONT_HALF - 1)
    <3>1. row \in Int /\ col \in Int
      OBVIOUS
    <3> QED BY <1>1, <3>1, TextInFont
  <2> HIDE DEF byte
  <2> QED BY <2>1, FontObject
<1>6. Glyph(w, row, col) = draw_object(obj, X, Y)
  BY <1>5 DEF Glyph, print_char, win
<1>7. obj.width = FONT_WIDTH /\ obj.height = FONT_HEIGHT
  BY DEF Object
<1>8. LET op == draw_object(obj, X, Y) IN CopyTo(op, X, Y) /\ op.obj = obj /\ OnScreen(op)
  <2> HIDE DEF obj, X, Y
  <2> QED BY <1>4, <1>7, DrawObject, Sizes
<1> QED BY <1>6, <1>8 DEF win

\* Only text of a window's body is drawn there, and what belongs there.
LEMMA TextCovers ==
  ASSUME Placed, NEW w \in DOMAIN window_stack, NEW x \in 0..(W - 1), NEW y \in Int,
         NEW row \in 0..(TERMINAL_TEXT_ROWS - 1), NEW col \in 0..(TERMINAL_TEXT_COLS - 1)
  PROVE  LET op == Glyph(w, row, col)
         IN  /\ Covers(op, Point(x, y)) <=> /\ InBody(x, y, window_stack[w])
                                            /\ row = RowOf(w, y) /\ col = ColOf(w, x)
             /\ Covers(op, Point(x, y)) => Source(op, Point(x, y)) = BodyPixel(w, x, y)
<1> DEFINE win == window_stack[w]
           op == Glyph(w, row, col)
           X == win.x + col * FONT_WIDTH
           Y == win.y + row * FONT_HEIGHT
<1>1. /\ CopyTo(op, X, Y) /\ op.obj.width = FONT_WIDTH /\ op.obj.height = FONT_HEIGHT
      /\ op.obj.name = GlyphOf(Text(w, row, col))
  <2>1. CopyTo(op, X, Y) /\ op.obj = Object(GlyphOf(Text(w, row, col)), FONT_WIDTH, FONT_HEIGHT)
    BY GlyphCopy
  <2> HIDE DEF op, X, Y
  <2> QED BY <2>1 DEF Object
<1> HIDE DEF op
<1>2. /\ win.x \in Nat /\ win.y \in Nat /\ TW \in Nat /\ TH \in Nat
      /\ TW = TERMINAL_TEXT_COLS * FONT_WIDTH /\ TH = TERMINAL_TEXT_ROWS * FONT_HEIGHT
  BY Window
<1>3. InBody(x, y, win) <=> /\ x >= win.x /\ x < win.x + TW
                            /\ y >= win.y /\ y < win.y + TH
  BY DEF InBody, TW, TH
<1> HIDE DEF win
<1> DEFINE cw == col * FONT_WIDTH
           rh == row * FONT_HEIGHT
<1>4. cw \in Nat /\ cw + FONT_WIDTH <= TW /\ rh \in Nat /\ rh + FONT_HEIGHT <= TH
  BY <1>2, CharacterPlace, Sizes
<1>5. x - win.x \in Int /\ y - win.y \in Int /\ row \in Int /\ col \in Int
  BY <1>2, Sizes
<1>6. col = (x - win.x) \div FONT_WIDTH <=> cw <= x - win.x /\ x - win.x < cw + FONT_WIDTH
  BY <1>5, RoundedDown, Sizes
<1>7. row = (y - win.y) \div FONT_HEIGHT <=> rh <= y - win.y /\ y - win.y < rh + FONT_HEIGHT
  BY <1>5, RoundedDown, Sizes
<1>8. X = win.x + cw /\ Y = win.y + rh /\ X \in Nat /\ Y \in Nat
  BY <1>2, <1>4
<1> HIDE DEF cw, rh
<1> HIDE DEF X, Y
<1>9. /\ Covers(op, Point(x, y)) <=> x - X \in 0..(FONT_WIDTH - 1) /\ y - Y \in 0..(FONT_HEIGHT - 1)
      /\ Covers(op, Point(x, y)) => Source(op, Point(x, y)) = <<op.obj.name, x - X, y - Y>>
  <2>1. CopyTo(op, X, Y) /\ X \in Nat /\ Y \in Nat
    BY <1>1, <1>8
  <2>2. /\ Covers(op, Point(x, y)) <=> /\ x - X \in 0..(op.obj.width - 1)
                                       /\ y - Y \in 0..(op.obj.height - 1)
        /\ x - X \in 0..(op.obj.width - 1) /\ y - Y \in 0..(op.obj.height - 1) =>
             Source(op, Point(x, y)) = <<op.obj.name, x - X, y - Y>>
    BY <2>1, CopyCovers
  <2> QED BY <1>1, <2>2
<1>10. x - X \in 0..(FONT_WIDTH - 1) <=> x >= win.x /\ x < win.x + TW /\ col = ColOf(w, x)
  BY <1>2, <1>4, <1>5, <1>6, <1>8, Sizes DEF ColOf, win
<1>11. y - Y \in 0..(FONT_HEIGHT - 1) <=> y >= win.y /\ y < win.y + TH /\ row = RowOf(w, y)
  BY <1>2, <1>4, <1>5, <1>7, <1>8, Sizes DEF RowOf, win
<1>12. Covers(op, Point(x, y)) <=> InBody(x, y, win) /\ row = RowOf(w, y) /\ col = ColOf(w, x)
  BY <1>3, <1>9, <1>10, <1>11
<1>13. ASSUME Covers(op, Point(x, y)) PROVE Source(op, Point(x, y)) = BodyPixel(w, x, y)
  <2>1. row = RowOf(w, y) /\ col = ColOf(w, x)
    BY <1>12, <1>13
  <2> QED BY <1>1, <1>9, <1>13, <2>1 DEF BodyPixel, X, Y, win
<1> QED BY <1>12, <1>13 DEF win, op

LEMMA Content ==
  ASSUME NEW w, NEW c0 \in Nat, NEW r0 \in Nat, NEW cols \in Nat, NEW rows \in Nat,
         c0 + cols <= TERMINAL_TEXT_COLS, r0 + rows <= TERMINAL_TEXT_ROWS
  PROVE  LET s == draw_terminal_content(w, c0, r0, cols, rows)
         IN  /\ s \in Seq(Glyphs(w))
             /\ \A row \in r0..(r0 + rows - 1), col \in c0..(c0 + cols - 1) :
                  IsEntry(s, Glyph(w, row, col))
<1> DEFINE s == draw_terminal_content(w, c0, r0, cols, rows)
           all == rows * cols
           X(k) == c0 + ((k - 1) % cols)
           Y(k) == r0 + ((k - 1) \div cols)
<1>1. all \in Nat /\ all = cols * rows
  OBVIOUS
<1>2. s = [k \in 1..all |-> Glyph(w, Y(k), X(k))]
  <2>1. 1..(cols * rows) = 1..all
    BY <1>1
  <2> HIDE DEF all
  <2> QED BY <2>1 DEF draw_terminal_content, Glyph
<1>3. ASSUME NEW k \in 1..all
      PROVE  /\ cols >= 1
             /\ X(k) \in 0..(TERMINAL_TEXT_COLS - 1) /\ Y(k) \in 0..(TERMINAL_TEXT_ROWS - 1)
  <2>1. cols >= 1
    <3>1. CASE cols = 0
      <4>1. all = 0
        BY <3>1
      <4> QED BY <4>1
    <3> QED BY <3>1
  <2> DEFINE m == k - 1
             q == m \div cols
             r == m % cols
  <2>2. m \in Nat /\ m < rows * cols
    BY <1>1
  <2> HIDE DEF all, m
  <2>3. q \in 0..(rows - 1) /\ r \in 0..(cols - 1)
    BY <2>1, <2>2, Division
  <2> HIDE DEF q, r
  <2>4. c0 + r \in 0..(TERMINAL_TEXT_COLS - 1) /\ r0 + q \in 0..(TERMINAL_TEXT_ROWS - 1)
    BY <2>3, Sizes
  <2> QED BY <2>1, <2>4 DEF q, r, m
<1> HIDE DEF s
<1>4. s \in Seq(Glyphs(w))
  <2>1. \A k \in 1..all : Glyph(w, Y(k), X(k)) \in Glyphs(w)
    <3> TAKE k \in 1..all
    <3>1. X(k) \in 0..(TERMINAL_TEXT_COLS - 1) /\ Y(k) \in 0..(TERMINAL_TEXT_ROWS - 1)
      BY <1>3
    <3> HIDE DEF X, Y
    <3> QED BY <3>1 DEF Glyphs
  <2> HIDE DEF X, Y, all
  <2> QED BY <1>1, <1>2, <2>1
<1>5. ASSUME NEW row \in r0..(r0 + rows - 1), NEW col \in c0..(c0 + cols - 1)
      PROVE  IsEntry(s, Glyph(w, row, col))
  <2> DEFINE q == row - r0
             r == col - c0
             k == q * cols + r + 1
  <2>1. q \in 0..(rows - 1) /\ r \in 0..(cols - 1) /\ cols >= 1 /\ r0 + q = row /\ c0 + r = col
        /\ q \in Int
    OBVIOUS
  <2> HIDE DEF q, r
  <2>2. q * cols \in Nat /\ q * cols + cols <= all
    BY <2>1, CharacterPlace
  <2>3. k \in 1..all /\ k - 1 = q * cols + r
    BY <1>1, <2>1, <2>2
  <2>4. (k - 1) \div cols = q /\ (k - 1) % cols = r
    BY <2>1, <2>3, OneQuotient
  <2> HIDE DEF k
  <2>5. X(k) = col /\ Y(k) = row
    BY <2>1, <2>4
  <2> HIDE DEF X, Y, all
  <2>6. s[k] = Glyph(w, row, col) /\ Len(s) = all
    BY <1>1, <1>2, <2>3, <2>5
  <2> QED BY <2>3, <2>6 DEF IsEntry
<1> QED BY <1>4, <1>5 DEF s

(***************************************************************************)
(* The grid of a frame.                                                     *)
(***************************************************************************)
GridSize == 2 + 2 * Len(window_stack)

Hits(x, y) == {w \in DOMAIN window_stack : InBody(x, y, window_stack[w])}

LEMMA Visible ==
  ASSUME Placed, NEW x, NEW y
  PROVE  LET w == find_visible_win_on(x, y)
         IN  IF Hits(x, y) = {} THEN w = NULL
             ELSE w \in Hits(x, y) /\ \A h \in Hits(x, y) : w <= h
<1> DEFINE hits == Hits(x, y)
<1>1. CASE hits = {}
  BY <1>1 DEF find_visible_win_on, Hits
<1>2. CASE hits # {}
  <2>1. hits \in SUBSET Nat
    <3>1. \A h \in DOMAIN window_stack : h \in Nat
      BY Window
    <3> QED BY <3>1 DEF Hits
  <2> HIDE DEF hits
  <2>2. \E w \in hits : \A h \in hits : w <= h
    BY <1>2, <2>1, LeastNat
  <2>3. find_visible_win_on(x, y) = CHOOSE w \in hits : \A h \in hits : w <= h
    BY <1>2 DEF find_visible_win_on, hits, Hits
  <2> QED BY <1>2, <2>2, <2>3 DEF hits
<1> QED BY <1>1, <1>2

LEMMA Grid ==
  ASSUME Placed
  PROVE  /\ GridSize \in Nat /\ GridSize >= 2
         /\ IsGrid(grid_x, GridSize, W) /\ IsGrid(grid_y, GridSize, H)
         /\ \A w \in DOMAIN window_stack :
              /\ IsLine(grid_x, GridSize, window_stack[w].x)
              /\ IsLine(grid_x, GridSize, window_stack[w].x + TW)
              /\ IsLine(grid_y, GridSize, window_stack[w].y)
              /\ IsLine(grid_y, GridSize, window_stack[w].y + TH)
<1> DEFINE n == Len(window_stack)
           xs == [w \in 1..n |-> window_stack[w].x]
           ys == [w \in 1..n |-> window_stack[w].y]
<1>1. n \in Nat /\ DOMAIN window_stack = 1..n
  BY LenProperties DEF Placed
<1>2. ASSUME NEW w \in 1..n
      PROVE  /\ window_stack[w].x \in Nat /\ window_stack[w].x + TW <= W
             /\ window_stack[w].y \in Nat /\ window_stack[w].y + TH <= H
  <2>1. w \in DOMAIN window_stack
    BY <1>1
  <2> HIDE DEF n, xs, ys
  <2> QED BY <2>1, Window
<1>3. grid_x = Lines(W, TW, xs) /\ grid_y = Lines(H, TH, ys)
  BY <1>1 DEF grid_x, grid_y, W, H, TW, TH
<1> HIDE DEF n
<1>4. /\ xs \in [1..n -> Nat] /\ ys \in [1..n -> Nat]
      /\ \A w \in 1..n : xs[w] + TW <= W /\ ys[w] + TH <= H
      /\ \A w \in 1..n : xs[w] = window_stack[w].x /\ ys[w] = window_stack[w].y
  BY <1>2
<1> HIDE DEF xs, ys
<1>5. TW \in Nat /\ TH \in Nat
  BY Sizes DEF TW, TH, TERMINAL_WIDTH_PIXEL, TERMINAL_HEIGHT_PIXEL
<1>6. /\ IsGrid(grid_x, 2 + 2 * n, W)
      /\ \A w \in 1..n : IsLine(grid_x, 2 + 2 * n, xs[w]) /\ IsLine(grid_x, 2 + 2 * n, xs[w] + TW)
  BY <1>1, <1>3, <1>4, <1>5, GridLines, Sizes
<1>7. /\ IsGrid(grid_y, 2 + 2 * n, H)
      /\ \A w \in 1..n : IsLine(grid_y, 2 + 2 * n, ys[w]) /\ IsLine(grid_y, 2 + 2 * n, ys[w] + TH)
  BY <1>1, <1>3, <1>4, <1>5, GridLines, Sizes
<1>8. GridSize = 2 + 2 * n /\ GridSize \in Nat /\ GridSize >= 2
  BY <1>1 DEF GridSize, n
<1> QED BY <1>1, <1>4, <1>6, <1>7, <1>8

LEMMA LineAfter ==
  ASSUME NEW extent \in Nat, NEW N \in Nat, NEW g, IsGrid(g, N, extent),
         NEW i \in 1..(N - 1)
  PROVE  /\ g[i] \in Nat /\ g[i + 1] \in Nat /\ g[i] <= g[i + 1] /\ g[i + 1] <= extent
         /\ \A c \in Int : IsLine(g, N, c) /\ c > g[i] => g[i + 1] <= c
<1>1. i \in 1..N /\ i + 1 \in 1..N /\ i <= i + 1
  OBVIOUS
<1>2. /\ g \in [1..N -> 0..extent]
      /\ \A j \in 1..N, k \in 1..N : j <= k => g[j] <= g[k]
  BY DEF IsGrid
<1>3. g[i] \in Nat /\ g[i + 1] \in Nat /\ g[i] <= g[i + 1] /\ g[i + 1] <= extent
  BY <1>1, <1>2
<1>4. ASSUME NEW c \in Int, IsLine(g, N, c), c > g[i] PROVE g[i + 1] <= c
  <2>1. PICK k \in 1..N : g[k] = c
    BY <1>4 DEF IsLine
  <2>2. CASE k <= i
    <3>1. g[k] <= g[i]
      BY <1>1, <1>2, <2>2
    <3> QED BY <1>3, <1>4, <2>1, <3>1
  <2>3. CASE i + 1 <= k
    BY <1>1, <1>2, <2>1, <2>3
  <2> QED BY <2>2, <2>3
<1> QED BY <1>3, <1>4

LEMMA CellContent ==
  ASSUME Placed, NEW idx \in 1..(GridSize - 1), NEW idy \in 1..(GridSize - 1),
         NEW w \in Hits(grid_x[idx], grid_y[idy])
  PROVE  LET win == window_stack[w]
             c0  == (grid_x[idx] - win.x) \div FONT_WIDTH
             n   == ceil_div(grid_x[idx + 1] - grid_x[idx], FONT_WIDTH)
             r0  == (grid_y[idy] - win.y) \div FONT_HEIGHT
             m   == ceil_div(grid_y[idy + 1] - grid_y[idy], FONT_HEIGHT)
         IN  /\ Cell(w, grid_x, grid_y, idx, idy) \in Seq(Glyphs(w))
             /\ \A row \in r0..(r0 + m - 1), col \in c0..(c0 + n - 1) :
                  IsEntry(Cell(w, grid_x, grid_y, idx, idy), Glyph(w, row, col))
<1> DEFINE win == window_stack[w]
           gx == grid_x
           gy == grid_y
           c0 == (gx[idx] - win.x) \div FONT_WIDTH
           n  == ceil_div(gx[idx + 1] - gx[idx], FONT_WIDTH)
           r0 == (gy[idy] - win.y) \div FONT_HEIGHT
           m  == ceil_div(gy[idy + 1] - gy[idy], FONT_HEIGHT)
<1>1. Cell(w, gx, gy, idx, idy) = draw_terminal_content(w, c0, r0, n, m)
  BY DEF Cell
<1>2. w \in DOMAIN window_stack /\ InBody(gx[idx], gy[idy], win)
  BY DEF Hits
<1>3. /\ GridSize \in Nat /\ IsGrid(gx, GridSize, W) /\ IsGrid(gy, GridSize, H)
      /\ IsLine(gx, GridSize, win.x + TW) /\ IsLine(gy, GridSize, win.y + TH)
  BY <1>2, Grid
<1> HIDE DEF gx, gy
<1>4. /\ win.x \in Nat /\ win.y \in Nat /\ TW \in Nat /\ TH \in Nat
      /\ TW = TERMINAL_TEXT_COLS * FONT_WIDTH /\ TH = TERMINAL_TEXT_ROWS * FONT_HEIGHT
  BY <1>2, Window
<1>5. /\ gx[idx] >= win.x /\ gx[idx] < win.x + TW
      /\ gy[idy] >= win.y /\ gy[idy] < win.y + TH
  BY <1>2 DEF InBody, TW, TH
<1> HIDE DEF win
<1>6. gx[idx] \in Nat /\ gx[idx + 1] \in Nat /\ gx[idx] <= gx[idx + 1] /\ gx[idx + 1] <= win.x + TW
  BY <1>3, <1>4, <1>5, LineAfter, Sizes
<1>7. gy[idy] \in Nat /\ gy[idy + 1] \in Nat /\ gy[idy] <= gy[idy + 1] /\ gy[idy + 1] <= win.y + TH
  BY <1>3, <1>4, <1>5, LineAfter, Sizes
<1>8. c0 \in Nat /\ n \in Nat /\ c0 + n <= TERMINAL_TEXT_COLS
  <2> DEFINE a == gx[idx]
             b == gx[idx + 1]
             o == win.x
  <2>1. o \in Int /\ a \in Int /\ b \in Int /\ o <= a /\ a <= b
        /\ a < o + TERMINAL_TEXT_COLS * FONT_WIDTH /\ b <= o + TERMINAL_TEXT_COLS * FONT_WIDTH
    BY <1>4, <1>5, <1>6
  <2> HIDE DEF a, b, o
  <2>2. /\ (a - o) \div FONT_WIDTH \in Nat /\ ceil_div(b - a, FONT_WIDTH) \in Nat
        /\ (a - o) \div FONT_WIDTH + ceil_div(b - a, FONT_WIDTH) <= TERMINAL_TEXT_COLS
    BY <2>1, Characters, Sizes
  <2> QED BY <2>2 DEF a, b, o
<1>9. r0 \in Nat /\ m \in Nat /\ r0 + m <= TERMINAL_TEXT_ROWS
  <2> DEFINE a == gy[idy]
             b == gy[idy + 1]
             o == win.y
  <2>1. o \in Int /\ a \in Int /\ b \in Int /\ o <= a /\ a <= b
        /\ a < o + TERMINAL_TEXT_ROWS * FONT_HEIGHT /\ b <= o + TERMINAL_TEXT_ROWS * FONT_HEIGHT
    BY <1>4, <1>5, <1>7
  <2> HIDE DEF a, b, o
  <2>2. /\ (a - o) \div FONT_HEIGHT \in Nat /\ ceil_div(b - a, FONT_HEIGHT) \in Nat
        /\ (a - o) \div FONT_HEIGHT + ceil_div(b - a, FONT_HEIGHT) <= TERMINAL_TEXT_ROWS
    BY <2>1, Characters, Sizes
  <2> QED BY <2>2 DEF a, b, o
<1>10. LET s == draw_terminal_content(w, c0, r0, n, m)
       IN  /\ s \in Seq(Glyphs(w))
           /\ \A row \in r0..(r0 + m - 1), col \in c0..(c0 + n - 1) :
                IsEntry(s, Glyph(w, row, col))
  <2> HIDE DEF c0, r0, n, m
  <2> QED BY <1>8, <1>9, Content
<1> QED BY <1>1, <1>10 DEF gx, gy, win

LEMMA CellsOps ==
  ASSUME Placed, NEW windows \in SUBSET DOMAIN window_stack
  PROVE  /\ Cells(windows) \in Seq(UNION {Glyphs(w) : w \in windows})
         /\ \A idx \in 1..(GridSize - 1), idy \in 1..(GridSize - 1) : \A e :
              LET w == find_visible_win_on(grid_x[idx], grid_y[idy])
              IN  w \in windows /\ IsEntry(Cell(w, grid_x, grid_y, idx, idy), e)
                    => IsEntry(Cells(windows), e)
<1> DEFINE T == UNION {Glyphs(w) : w \in windows}
           n == GridSize - 1
           all == n * n
           seen(idx, idy) == find_visible_win_on(grid_x[idx], grid_y[idy])
           part(idx, idy) == IF seen(idx, idy) \in windows
                             THEN Cell(seen(idx, idy), grid_x, grid_y, idx, idy) ELSE <<>>
           seqs == [k \in 1..all |-> part(1 + ((k - 1) \div n), 1 + ((k - 1) % n))]
<1>1. n \in Nat /\ n >= 1 /\ n = 1 + 2 * Len(window_stack)
  BY Grid DEF GridSize
<1>2. Cells(windows) = FlattenSeq(seqs)
  BY <1>1 DEF Cells
<1> HIDE DEF n
<1>3. all \in Nat /\ all >= 1
  BY <1>1
<1>4. ASSUME NEW idx \in 1..n, NEW idy \in 1..n PROVE part(idx, idy) \in Seq(T)
  <2> DEFINE w == seen(idx, idy)
  <2>1. CASE w \in windows
    <3>1. w \in DOMAIN window_stack /\ w # NULL
      <4>1. w \in DOMAIN window_stack
        BY <2>1
      <4> HIDE DEF w
      <4> QED BY <4>1, Window DEF NULL
    <3>2. w \in Hits(grid_x[idx], grid_y[idy])
      BY <3>1, Visible
    <3> HIDE DEF w
    <3>3. Cell(w, grid_x, grid_y, idx, idy) \in Seq(Glyphs(w))
      BY <3>2, CellContent DEF n
    <3>4. Glyphs(w) \subseteq T
      BY <2>1
    <3> HIDE DEF T
    <3>5. Cell(w, grid_x, grid_y, idx, idy) \in Seq(T)
      BY <3>3, <3>4, SeqMonotonic
    <3> QED BY <2>1, <3>5 DEF w
  <2>2. CASE w \notin windows
    BY <2>2
  <2> QED BY <2>1, <2>2
<1>5. ASSUME NEW k \in 1..all
      PROVE  (k - 1) \div n \in 0..(n - 1) /\ (k - 1) % n \in 0..(n - 1)
  <2> DEFINE m == k - 1
  <2>1. m \in Nat /\ m < n * n
    BY <1>3
  <2> HIDE DEF m
  <2>2. m \div n \in 0..(n - 1) /\ m % n \in 0..(n - 1)
    BY <1>1, <2>1, Division
  <2> QED BY <2>2 DEF m
<1> HIDE DEF part
<1>6. \A k \in 1..all : seqs[k] \in Seq(T)
  <2> TAKE k \in 1..all
  <2> DEFINE i == 1 + ((k - 1) \div n)
             j == 1 + ((k - 1) % n)
  <2>1. i \in 1..n /\ j \in 1..n
    BY <1>1, <1>5
  <2>2. seqs[k] = part(i, j)
    OBVIOUS
  <2> HIDE DEF i, j, T
  <2> QED BY <1>4, <2>1, <2>2
<1>7. seqs \in Seq(Seq(T)) /\ seqs # <<>> /\ Len(seqs) = all
  <2> DEFINE U == Seq(T)
  <2>1. seqs \in [1..all -> U]
    <3> HIDE DEF all, T
    <3> QED BY <1>6
  <2> HIDE DEF seqs, all, U
  <2>2. seqs \in Seq(U) /\ Len(seqs) = all
    BY <1>3, <2>1, LenProperties
  <2> QED BY <1>3, <2>2, EmptySeq DEF U
<1>8. ASSUME NEW idx \in 1..n, NEW idy \in 1..n
      PROVE  \E k \in 1..all : seqs[k] = part(idx, idy)
  <2> DEFINE q == idx - 1
             r == idy - 1
             k == q * n + r + 1
  <2>1. q \in 0..(n - 1) /\ r \in 0..(n - 1) /\ idx = 1 + q /\ idy = 1 + r /\ q \in Int
    BY <1>1
  <2> HIDE DEF q, r
  <2>2. q * n \in Nat /\ q * n + n <= n * n
    BY <1>1, <2>1, CharacterPlace
  <2>3. k \in 1..all /\ k - 1 = q * n + r
    BY <1>1, <1>3, <2>1, <2>2
  <2>4. (k - 1) \div n = q /\ (k - 1) % n = r
    <3>1. (q * n + r) \div n = q /\ (q * n + r) % n = r
      BY <1>1, <2>1, OneQuotient
    <3> QED BY <2>3, <3>1
  <2> HIDE DEF k
  <2>5. seqs[k] = part(idx, idy)
    BY <2>1, <2>3, <2>4
  <2> QED BY <2>3, <2>5
<1> HIDE DEF seqs, all, T
<1>9. /\ FlattenSeq(seqs) \in Seq(T)
      /\ \A i \in 1..Len(seqs) : \A e : IsEntry(seqs[i], e) => IsEntry(FlattenSeq(seqs), e)
  BY <1>7, Flattened
<1>10. ASSUME NEW idx \in 1..n, NEW idy \in 1..n, NEW e, seen(idx, idy) \in windows,
              IsEntry(Cell(seen(idx, idy), grid_x, grid_y, idx, idy), e)
       PROVE  IsEntry(Cells(windows), e)
  <2>1. IsEntry(part(idx, idy), e)
    BY <1>10 DEF part
  <2> QED BY <1>2, <1>7, <1>8, <1>9, <2>1
<1> QED BY <1>2, <1>9, <1>10 DEF T, n

(***************************************************************************)
(* On one axis, a point q at or soon after x in the same text, such that    *)
(* the cell of q draws the character of x.                                  *)
(***************************************************************************)
LEMMA DrawnFrom ==
  ASSUME NEW F \in Nat, F >= 1, NEW C \in Nat, NEW o \in Nat, NEW extent \in Nat,
         NEW N \in Nat, N >= 1, NEW g, IsGrid(g, N, extent),
         IsLine(g, N, o), IsLine(g, N, o + C * F), o + C * F <= extent,
         NEW x \in o..(o + C * F - 1)
  PROVE  \E i \in 1..(N - 1), q \in x..(x + F - 1) :
           LET first == (g[i] - o) \div F
               n     == ceil_div(g[i + 1] - g[i], F)
           IN  /\ o <= q /\ q < o + C * F
               /\ \A c \in Int : IsLine(g, N, c) => (c <= q <=> c <= g[i])
               /\ (x - o) \div F \in first..(first + n - 1)
               /\ (x - o) \div F \in 0..(C - 1)
<1> DEFINE end == o + C * F
<1>0. end \in Int /\ end <= extent /\ IsLine(g, N, end) /\ x \in o..(end - 1) /\ x \in Int
      /\ C * F \in Nat
  OBVIOUS
<1>1. PICK i \in 1..(N - 1) :
        /\ g[i] <= x /\ x < g[i + 1]
        /\ \A c \in Int : IsLine(g, N, c) => (c <= x <=> c <= g[i]) /\ (c > x <=> c >= g[i + 1])
  <2>1. x \in 0..(extent - 1)
    BY <1>0
  <2> QED BY <2>1, CellOf
<1> HIDE DEF end
<1> DEFINE a == g[i]
           b == g[i + 1]
           c == (x - o) \div F
           first == (a - o) \div F
           n == ceil_div(b - a, F)
<1>2. a \in Nat /\ b \in Nat /\ a <= b /\ b <= extent
  BY LineAfter
<1>3. a \in Int /\ b \in Int /\ o \in Int /\ o <= a /\ a <= b /\ b <= end /\ a < end
      /\ x \in a..(b - 1)
  BY <1>0, <1>1, <1>2
<1> HIDE DEF a, b
<1>4. /\ first \in Nat /\ n \in Nat
      /\ c \in first..(C - 1)
      /\ c >= first + n => c = (b - o) \div F /\ b - x <= F - 1 /\ b < end
  <2>1. a < o + C * F /\ b <= o + C * F
    BY <1>3 DEF end
  <2> QED BY <1>3, <2>1, Characters DEF end
<1> HIDE DEF c, first, n
<1>5. CASE c < first + n
  <2>1. x \in x..(x + F - 1) /\ o <= x /\ x < end
    BY <1>0
  <2>2. c \in first..(first + n - 1) /\ c \in 0..(C - 1)
    BY <1>4, <1>5
  <2>3. \A d \in Int : IsLine(g, N, d) => (d <= x <=> d <= g[i])
    BY <1>1
  <2> QED BY <2>1, <2>2, <2>3 DEF c, first, n, a, b, end
<1>6. CASE ~(c < first + n)
  <2>1. c = (b - o) \div F /\ b - x <= F - 1 /\ b < end /\ c \in 0..(C - 1)
    BY <1>4, <1>6
  <2>2. b \in x..(x + F - 1) /\ o <= b /\ b \in 0..(extent - 1)
    BY <1>0, <1>2, <1>3, <2>1
  <2>3. PICK j \in 1..(N - 1) :
          /\ g[j] <= b /\ b < g[j + 1]
          /\ \A d \in Int : IsLine(g, N, d) => (d <= b <=> d <= g[j]) /\ (d > b <=> d >= g[j + 1])
    BY <2>2, CellOf
  <2>4. g[j] \in Nat /\ g[j + 1] \in Nat
    BY LineAfter
  <2>5. g[j] = b
    <3>1. i + 1 \in 1..N
      OBVIOUS
    <3>2. IsLine(g, N, b)
      BY <3>1 DEF IsLine, b
    <3> QED BY <1>2, <2>3, <2>4, <3>2
  <2> DEFINE e == g[j + 1]
             m == ceil_div(e - b, F)
  <2>6. e \in Int /\ b < e /\ e <= end
    BY <1>0, <2>1, <2>3, <2>4
  <2> HIDE DEF e
  <2>7. m \in Nat /\ m >= 1
    <3>1. e - b \in Nat /\ e - b > 0
      BY <1>2, <2>6
    <3> QED BY <3>1, RoundedUp
  <2> HIDE DEF m
  <2>8. c \in c..(c + m - 1)
    BY <2>1, <2>7
  <2>9. c = (g[j] - o) \div F /\ m = ceil_div(g[j + 1] - g[j], F)
    BY <2>1, <2>5 DEF m, e
  <2>10. \A d \in Int : IsLine(g, N, d) => (d <= b <=> d <= g[j])
    BY <2>3
  <2> QED BY <2>1, <2>2, <2>8, <2>9, <2>10 DEF c, end
<1> QED BY <1>4, <1>5, <1>6

(***************************************************************************)
(* A point of a window's body that no window further up covers gets its     *)
(* character from one of the cells, but at a seam.                          *)
(***************************************************************************)
LEMMA CharacterDrawn ==
  ASSUME Placed, NEW windows \in SUBSET DOMAIN window_stack, NEW v \in windows,
         NEW x \in 0..(W - 1), NEW y \in 0..(H - 1), InBody(x, y, window_stack[v]),
         ~Seam(x), \A u \in CoveredBy(x, y) : v <= u
  PROVE  /\ RowOf(v, y) \in 0..(TERMINAL_TEXT_ROWS - 1)
         /\ ColOf(v, x) \in 0..(TERMINAL_TEXT_COLS - 1)
         /\ IsEntry(Cells(windows), Glyph(v, RowOf(v, y), ColOf(v, x)))
<1> DEFINE win == window_stack[v]
           gx == grid_x
           gy == grid_y
           N == GridSize
           row == RowOf(v, y)
           col == ColOf(v, x)
<1>1. /\ win.x \in Nat /\ win.y \in Nat /\ win.x + TW <= W /\ win.y + TH <= H
      /\ TW = TERMINAL_TEXT_COLS * FONT_WIDTH /\ TH = TERMINAL_TEXT_ROWS * FONT_HEIGHT
      /\ TW \in Nat /\ TH \in Nat
  BY Window
<1>2. /\ x >= win.x /\ x < win.x + TW /\ y >= win.y /\ y < win.y + TH
  BY DEF InBody, TW, TH
<1>3. /\ N \in Nat /\ N >= 2 /\ IsGrid(gx, N, W) /\ IsGrid(gy, N, H)
      /\ \A w \in DOMAIN window_stack :
           /\ IsLine(gx, N, window_stack[w].x) /\ IsLine(gx, N, window_stack[w].x + TW)
           /\ IsLine(gy, N, window_stack[w].y) /\ IsLine(gy, N, window_stack[w].y + TH)
  BY Grid
<1> HIDE DEF gx, gy, N
<1>4. PICK i \in 1..(N - 1), q \in x..(x + FONT_WIDTH - 1) :
        /\ win.x <= q /\ q < win.x + TW
        /\ \A c \in Int : IsLine(gx, N, c) => (c <= q <=> c <= gx[i])
        /\ col \in ((gx[i] - win.x) \div FONT_WIDTH)
                     ..((gx[i] - win.x) \div FONT_WIDTH
                          + ceil_div(gx[i + 1] - gx[i], FONT_WIDTH) - 1)
        /\ col \in 0..(TERMINAL_TEXT_COLS - 1)
  <2> DEFINE o == win.x
  <2>1. /\ o \in Nat /\ IsLine(gx, N, o) /\ IsLine(gx, N, o + TERMINAL_TEXT_COLS * FONT_WIDTH)
        /\ o + TERMINAL_TEXT_COLS * FONT_WIDTH <= W
        /\ x \in o..(o + TERMINAL_TEXT_COLS * FONT_WIDTH - 1)
        /\ N >= 1 /\ col = (x - o) \div FONT_WIDTH
    BY <1>1, <1>2, <1>3 DEF ColOf
  <2> HIDE DEF o, col
  <2>2. \E i \in 1..(N - 1), q \in x..(x + FONT_WIDTH - 1) :
          LET first == (gx[i] - o) \div FONT_WIDTH
              n     == ceil_div(gx[i + 1] - gx[i], FONT_WIDTH)
          IN  /\ o <= q /\ q < o + TERMINAL_TEXT_COLS * FONT_WIDTH
              /\ \A c \in Int : IsLine(gx, N, c) => (c <= q <=> c <= gx[i])
              /\ (x - o) \div FONT_WIDTH \in first..(first + n - 1)
              /\ (x - o) \div FONT_WIDTH \in 0..(TERMINAL_TEXT_COLS - 1)
    BY <1>3, <2>1, DrawnFrom, Sizes
  <2> QED BY <1>1, <2>1, <2>2 DEF o
<1>5. PICK j \in 1..(N - 1), r \in y..(y + FONT_HEIGHT - 1) :
        /\ win.y <= r /\ r < win.y + TH
        /\ \A c \in Int : IsLine(gy, N, c) => (c <= r <=> c <= gy[j])
        /\ row \in ((gy[j] - win.y) \div FONT_HEIGHT)
                     ..((gy[j] - win.y) \div FONT_HEIGHT
                          + ceil_div(gy[j + 1] - gy[j], FONT_HEIGHT) - 1)
        /\ row \in 0..(TERMINAL_TEXT_ROWS - 1)
  <2> DEFINE o == win.y
  <2>1. /\ o \in Nat /\ IsLine(gy, N, o) /\ IsLine(gy, N, o + TERMINAL_TEXT_ROWS * FONT_HEIGHT)
        /\ o + TERMINAL_TEXT_ROWS * FONT_HEIGHT <= H
        /\ y \in o..(o + TERMINAL_TEXT_ROWS * FONT_HEIGHT - 1)
        /\ N >= 1 /\ row = (y - o) \div FONT_HEIGHT
    BY <1>1, <1>2, <1>3 DEF RowOf
  <2> HIDE DEF o, row
  <2>2. \E jj \in 1..(N - 1), p \in y..(y + FONT_HEIGHT - 1) :
          LET first == (gy[jj] - o) \div FONT_HEIGHT
              n     == ceil_div(gy[jj + 1] - gy[jj], FONT_HEIGHT)
          IN  /\ o <= p /\ p < o + TERMINAL_TEXT_ROWS * FONT_HEIGHT
              /\ \A c \in Int : IsLine(gy, N, c) => (c <= p <=> c <= gy[jj])
              /\ (y - o) \div FONT_HEIGHT \in first..(first + n - 1)
              /\ (y - o) \div FONT_HEIGHT \in 0..(TERMINAL_TEXT_ROWS - 1)
    BY <1>3, <2>1, DrawnFrom, Sizes
  <2> QED BY <1>1, <2>1, <2>2 DEF o
<1> HIDE DEF win, row, col
<1>6. \A u \in DOMAIN window_stack :
        InBody(gx[i], gy[j], window_stack[u]) <=> InBody(q, r, window_stack[u])
  <2> TAKE u \in DOMAIN window_stack
  <2> DEFINE X == window_stack[u].x
             Y == window_stack[u].y
  <2>1. X \in Int /\ X + TW \in Int /\ Y \in Int /\ Y + TH \in Int
    <3>1. X \in Nat /\ Y \in Nat
      BY Window
    <3> HIDE DEF X, Y
    <3> QED BY <1>1, <3>1
  <2>2. /\ (X <= q <=> X <= gx[i]) /\ (X + TW <= q <=> X + TW <= gx[i])
        /\ (Y <= r <=> Y <= gy[j]) /\ (Y + TH <= r <=> Y + TH <= gy[j])
    <3>1. /\ IsLine(gx, N, X) /\ IsLine(gx, N, X + TW)
          /\ IsLine(gy, N, Y) /\ IsLine(gy, N, Y + TH)
      BY <1>3
    <3> HIDE DEF X, Y
    <3> QED BY <1>4, <1>5, <2>1, <3>1
  <2>3. gx[i] \in Nat /\ gy[j] \in Nat /\ q \in Int /\ r \in Int
    BY <1>3, LineAfter, Sizes
  <2>4. \A p, s : InBody(p, s, window_stack[u]) <=> p >= X /\ p < X + TW /\ s >= Y /\ s < Y + TH
    BY DEF InBody, TW, TH
  <2> HIDE DEF X, Y
  <2> QED BY <2>1, <2>2, <2>3, <2>4
<1>7. v \in Hits(gx[i], gy[j])
  <2>1. InBody(q, r, window_stack[v])
    BY <1>4, <1>5 DEF InBody, TW, TH, win
  <2> QED BY <1>6, <2>1 DEF Hits
<1>8. ASSUME NEW u \in Hits(gx[i], gy[j]) PROVE v <= u
  <2> DEFINE X == window_stack[u].x
             Y == window_stack[u].y
  <2>1. u \in DOMAIN window_stack /\ InBody(q, r, window_stack[u])
    BY <1>6 DEF Hits
  <2>2. X \in Nat /\ Y \in Nat
    BY <2>1, Window
  <2>3. q >= X /\ q < X + TW /\ r >= Y /\ r < Y + TH
    BY <2>1 DEF InBody, TW, TH
  <2>4. ~(X - x \in (LEFT_RIGHT_MARGIN + 1)..(FONT_WIDTH - 1))
    BY <2>1 DEF Seam
  <2>5. u \in CoveredBy(x, y) <=>
          /\ x - X \in (-LEFT_RIGHT_MARGIN)..(TW + LEFT_RIGHT_MARGIN - 1)
          /\ y - Y \in (-TITLE_BAR_HEIGHT)..(TH + DOWN_MARGIN - 1)
    BY <2>1 DEF CoveredBy, TW, TH
  <2> HIDE DEF X, Y
  <2>6. FONT_HEIGHT <= TITLE_BAR_HEIGHT + 1
    BY SizesAssumption
  <2>7. y - Y \in (-TITLE_BAR_HEIGHT)..(TH + DOWN_MARGIN - 1)
    BY <1>1, <2>2, <2>3, <2>6, Sizes
  <2>8. x - X \in (-LEFT_RIGHT_MARGIN)..(TW + LEFT_RIGHT_MARGIN - 1)
    BY <1>1, <2>2, <2>3, <2>4, Sizes
  <2> QED BY <2>5, <2>7, <2>8
<1>9. find_visible_win_on(gx[i], gy[j]) = v
  <2> DEFINE w == find_visible_win_on(gx[i], gy[j])
  <2>1. w \in Hits(gx[i], gy[j]) /\ w <= v
    BY <1>7, Visible
  <2>2. v <= w /\ w \in DOMAIN window_stack
    BY <1>8, <2>1 DEF Hits
  <2> HIDE DEF w
  <2>3. v \in Nat /\ w \in Nat
    BY <2>2, Window
  <2> QED BY <2>1, <2>2, <2>3 DEF w
<1>10. IsEntry(Cell(v, gx, gy, i, j), Glyph(v, row, col))
  BY <1>4, <1>5, <1>7, CellContent DEF gx, gy, N, win
<1>11. IsEntry(Cells(windows), Glyph(v, row, col))
  BY <1>9, <1>10, CellsOps DEF gx, gy, N
<1> QED BY <1>4, <1>5, <1>11 DEF row, col

-----------------------------------------------------------------------------
(***************************************************************************)
(* The borders of a window: what is drawn last at a point belongs there.    *)
(***************************************************************************)
LEMMA ObjectDrawn ==
  ASSUME Placed, NEW name, NEW w \in Nat, NEW h \in Nat, NEW X \in Nat, NEW Y \in Nat,
         X + w <= W, Y + h <= H, NEW x \in 0..(W - 1), NEW y \in Int
  PROVE  LET op == draw_object(Object(name, w, h), X, Y)
             inside == x - X \in 0..(w - 1) /\ y - Y \in 0..(h - 1)
         IN  /\ OnScreen(op)
             /\ Covers(op, Point(x, y)) <=> inside
             /\ inside => Source(op, Point(x, y)) = <<name, x - X, y - Y>>
<1> DEFINE obj == Object(name, w, h)
           op == draw_object(obj, X, Y)
<1>1. obj.name = name /\ obj.width = w /\ obj.height = h
  BY DEF Object
<1> HIDE DEF obj
<1>2. CopyTo(op, X, Y) /\ op.obj = obj /\ OnScreen(op)
  BY <1>1, DrawObject
<1> HIDE DEF op
<1>3. LET inside == x - X \in 0..(op.obj.width - 1) /\ y - Y \in 0..(op.obj.height - 1)
      IN  /\ Covers(op, Point(x, y)) <=> inside
          /\ inside => Source(op, Point(x, y)) = <<op.obj.name, x - X, y - Y>>
  BY <1>2, CopyCovers
<1> QED BY <1>1, <1>2, <1>3 DEF op, obj

\* The place of a button, as InWindow has it.
OnButton(w, b, size, x, y) ==
  /\ x - window_stack[w].x - b.left \in 0..(size.width - 1)
  /\ y - window_stack[w].y + b.up \in 0..(size.height - 1)

LEMMA ButtonDrawn ==
  ASSUME Placed, NEW w \in DOMAIN window_stack, NEW b \in {RED, YELLOW, GREEN},
         NEW size \in {RED, GREY}, NEW name, NEW x \in 0..(W - 1), NEW y \in Int
  PROVE  LET win == window_stack[w]
             op == draw_object(Object(name, size.width, size.height),
                               win.x + b.left, win.y - b.up)
         IN  /\ OnScreen(op)
             /\ Covers(op, Point(x, y)) <=> OnButton(w, b, size, x, y)
             /\ OnButton(w, b, size, x, y) =>
                  /\ Source(op, Point(x, y)) = <<name, x - (win.x + b.left), y - (win.y - b.up)>>
                  /\ x - win.x \in (-LEFT_RIGHT_MARGIN)..(TW + LEFT_RIGHT_MARGIN - 1)
                  /\ y - win.y \in (-TITLE_BAR_HEIGHT)..(-1)
<1> DEFINE win == window_stack[w]
           X == win.x + b.left
           Y == win.y - b.up
           sw == size.width
           sh == size.height
<1>1. /\ b.left \in Nat /\ b.up \in Nat /\ sw \in Nat /\ sh \in Nat
      /\ b.left + sw <= TW + LEFT_RIGHT_MARGIN /\ b.up <= TITLE_BAR_HEIGHT /\ sh <= b.up
  BY PlacesAssumption DEF TW
<1>2. /\ win.x \in Nat /\ win.y \in Nat /\ TW \in Nat /\ TH \in Nat
      /\ win.x + TW + LEFT_RIGHT_MARGIN <= W /\ TITLE_BAR_HEIGHT <= win.y
      /\ win.y + TH <= H
  BY Window
<1> HIDE DEF win, sw, sh
<1> DEFINE bl == b.left
           bu == b.up
           wx == win.x
           wy == win.y
<1>3. /\ bl \in Nat /\ bu \in Nat /\ wx \in Nat /\ wy \in Nat /\ X = wx + bl /\ Y = wy - bu
      /\ bl + sw <= TW + LEFT_RIGHT_MARGIN /\ bu <= TITLE_BAR_HEIGHT /\ sh <= bu
      /\ wx + TW + LEFT_RIGHT_MARGIN <= W /\ TITLE_BAR_HEIGHT <= wy /\ wy + TH <= H
  BY <1>1, <1>2
<1> HIDE DEF bl, bu, wx, wy, X, Y
<1>4. X \in Nat /\ Y \in Nat /\ X + sw <= W /\ Y + sh <= H
  BY <1>1, <1>2, <1>3, Sizes
<1>5. LET op == draw_object(Object(name, sw, sh), X, Y)
          inside == x - X \in 0..(sw - 1) /\ y - Y \in 0..(sh - 1)
      IN  /\ OnScreen(op)
          /\ Covers(op, Point(x, y)) <=> inside
          /\ inside => Source(op, Point(x, y)) = <<name, x - X, y - Y>>
  <2>1. sw \in Nat /\ sh \in Nat
    BY <1>1
  <2> QED BY <1>4, <2>1, ObjectDrawn
<1>6. x - X = x - wx - bl /\ y - Y = y - wy + bu
  BY <1>3, Sizes
<1>7. OnButton(w, b, size, x, y) <=> x - X \in 0..(sw - 1) /\ y - Y \in 0..(sh - 1)
  BY <1>6 DEF OnButton, bl, bu, wx, wy, win, sw, sh
<1>8. ASSUME x - X \in 0..(sw - 1), y - Y \in 0..(sh - 1)
      PROVE  /\ x - wx \in (-LEFT_RIGHT_MARGIN)..(TW + LEFT_RIGHT_MARGIN - 1)
             /\ y - wy \in (-TITLE_BAR_HEIGHT)..(-1)
  BY <1>1, <1>2, <1>3, <1>8, Sizes
<1> QED BY <1>5, <1>7, <1>8 DEF X, Y, wx, wy, bl, bu, sw, sh, win

InCover(w, x, y) ==
  /\ x - window_stack[w].x \in (-LEFT_RIGHT_MARGIN)..(TW + LEFT_RIGHT_MARGIN - 1)
  /\ y - window_stack[w].y \in (-TITLE_BAR_HEIGHT)..(TH + DOWN_MARGIN - 1)

LEMMA CoverIs ==
  ASSUME NEW w \in DOMAIN window_stack, NEW x, NEW y
  PROVE  w \in CoveredBy(x, y) <=> InCover(w, x, y)
  BY DEF CoveredBy, InCover, TW, TH

\* The four bars of a border: where each is drawn.
LEMMA BarsDrawn ==
  ASSUME Placed, NEW w \in DOMAIN window_stack, NEW x \in 0..(W - 1), NEW y \in Int
  PROVE  LET win == window_stack[w]
             dx == x - win.x
             dy == y - win.y
             P == Point(x, y)
             wide == dx \in (-LEFT_RIGHT_MARGIN)..(TW + LEFT_RIGHT_MARGIN - 1)
             up == draw_object(win_up, win.x - LEFT_RIGHT_MARGIN, win.y - TITLE_BAR_HEIGHT)
             left == draw_object(win_left, win.x - LEFT_RIGHT_MARGIN, win.y)
             down == draw_object(win_down, win.x - LEFT_RIGHT_MARGIN,
                                 win.y + TERMINAL_HEIGHT_PIXEL)
             right == draw_object(win_right, win.x + TERMINAL_WIDTH_PIXEL, win.y)
         IN  /\ OnScreen(up) /\ OnScreen(left) /\ OnScreen(down) /\ OnScreen(right)
             /\ Covers(up, P) <=> wide /\ dy \in (-TITLE_BAR_HEIGHT)..(-1)
             /\ Covers(up, P) => Source(up, P) =
                  <<<<"up">>, x - (win.x - LEFT_RIGHT_MARGIN), y - (win.y - TITLE_BAR_HEIGHT)>>
             /\ Covers(left, P) <=> dx \in (-LEFT_RIGHT_MARGIN)..(-1) /\ dy \in 0..(TH - 1)
             /\ Covers(left, P) => Source(left, P) =
                  <<<<"left">>, x - (win.x - LEFT_RIGHT_MARGIN), y - win.y>>
             /\ Covers(down, P) <=> wide /\ dy \in TH..(TH + DOWN_MARGIN - 1)
             /\ Covers(down, P) => Source(down, P) =
                  <<<<"down">>, x - (win.x - LEFT_RIGHT_MARGIN),
                    y - (win.y + TERMINAL_HEIGHT_PIXEL)>>
             /\ Covers(right, P) <=> dx \in TW..(TW + LEFT_RIGHT_MARGIN - 1) /\ dy \in 0..(TH - 1)
             /\ Covers(right, P) => Source(right, P) =
                  <<<<"right">>, x - (win.x + TERMINAL_WIDTH_PIXEL), y - win.y>>
<1> DEFINE win == window_stack[w]
           wx == win.x
           wy == win.y
           M == LEFT_RIGHT_MARGIN
           T == TITLE_BAR_HEIGHT
           D == DOWN_MARGIN
           dx == x - wx
           dy == y - wy
           P == Point(x, y)
           wide == dx \in (-M)..(TW + M - 1)
<1>1. /\ wx \in Nat /\ wy \in Nat /\ TW \in Nat /\ TH \in Nat /\ M \in Nat /\ T \in Nat
      /\ D \in Nat /\ M <= wx /\ wx + TW + M <= W /\ T <= wy /\ wy + TH + D <= H
      /\ W \in Nat /\ H \in Nat
  <2>1. /\ wx \in Nat /\ wy \in Nat /\ TW \in Nat /\ TH \in Nat
        /\ M <= wx /\ wx + TW + M <= W /\ T <= wy /\ wy + TH + D <= H
    BY Window
  <2> QED BY <2>1, Sizes
<1>2. /\ win_up = Object(<<"up">>, TW + 2 * M, T) /\ win_down = Object(<<"down">>, TW + 2 * M, D)
      /\ win_left = Object(<<"left">>, M, TH) /\ win_right = Object(<<"right">>, M, TH)
  BY DEF win_up, win_down, win_left, win_right, TW, TH
<1> HIDE DEF wx, wy, M, T, D
<1>3. LET op == draw_object(win_up, wx - M, wy - T)
      IN  /\ OnScreen(op) /\ (Covers(op, P) <=> wide /\ dy \in (-T)..(-1))
          /\ Covers(op, P) => Source(op, P) = <<<<"up">>, x - (wx - M), y - (wy - T)>>
  <2> DEFINE X == wx - M
             Y == wy - T
             w1 == TW + 2 * M
             op == draw_object(win_up, X, Y)
  <2>1. X \in Nat /\ Y \in Nat /\ w1 \in Nat /\ X + w1 <= W /\ Y + T <= H
    BY <1>1
  <2>2. x - X \in 0..(w1 - 1) /\ y - Y \in 0..(T - 1) <=> wide /\ dy \in (-T)..(-1)
    BY <1>1
  <2> HIDE DEF X, Y, w1
  <2>a. op = draw_object(Object(<<"up">>, w1, T), X, Y)
    BY <1>2 DEF w1
  <2> HIDE DEF op
  <2>3. /\ OnScreen(op) /\ (Covers(op, P) <=> x - X \in 0..(w1 - 1) /\ y - Y \in 0..(T - 1))
        /\ Covers(op, P) => Source(op, P) = <<<<"up">>, x - X, y - Y>>
    BY <1>1, <2>1, <2>a, ObjectDrawn, SMTT(30)
  <2> QED BY <2>2, <2>3 DEF X, Y, op
<1>4. LET op == draw_object(win_left, wx - M, wy)
      IN  /\ OnScreen(op) /\ (Covers(op, P) <=> dx \in (-M)..(-1) /\ dy \in 0..(TH - 1))
          /\ Covers(op, P) => Source(op, P) = <<<<"left">>, x - (wx - M), y - wy>>
  <2> DEFINE X == wx - M
             op == draw_object(win_left, X, wy)
  <2>1. X \in Nat /\ X + M <= W /\ wy + TH <= H
    BY <1>1
  <2>2. x - X \in 0..(M - 1) /\ y - wy \in 0..(TH - 1) <=> dx \in (-M)..(-1) /\ dy \in 0..(TH - 1)
    BY <1>1
  <2> HIDE DEF X
  <2>a. op = draw_object(Object(<<"left">>, M, TH), X, wy)
    BY <1>2
  <2> HIDE DEF op
  <2>3. /\ OnScreen(op) /\ (Covers(op, P) <=> x - X \in 0..(M - 1) /\ y - wy \in 0..(TH - 1))
        /\ Covers(op, P) => Source(op, P) = <<<<"left">>, x - X, y - wy>>
    BY <1>1, <2>1, <2>a, ObjectDrawn, SMTT(30)
  <2> QED BY <2>2, <2>3 DEF X, op
<1>5. LET op == draw_object(win_down, wx - M, wy + TH)
      IN  /\ OnScreen(op) /\ (Covers(op, P) <=> wide /\ dy \in TH..(TH + D - 1))
          /\ Covers(op, P) => Source(op, P) = <<<<"down">>, x - (wx - M), y - (wy + TH)>>
  <2> DEFINE X == wx - M
             Y == wy + TH
             w1 == TW + 2 * M
             op == draw_object(win_down, X, Y)
  <2>1. X \in Nat /\ Y \in Nat /\ w1 \in Nat /\ X + w1 <= W /\ Y + D <= H
    BY <1>1
  <2>2. x - X \in 0..(w1 - 1) /\ y - Y \in 0..(D - 1) <=> wide /\ dy \in TH..(TH + D - 1)
    BY <1>1
  <2> HIDE DEF X, Y, w1
  <2>a. op = draw_object(Object(<<"down">>, w1, D), X, Y)
    BY <1>2 DEF w1
  <2> HIDE DEF op
  <2>3. /\ OnScreen(op) /\ (Covers(op, P) <=> x - X \in 0..(w1 - 1) /\ y - Y \in 0..(D - 1))
        /\ Covers(op, P) => Source(op, P) = <<<<"down">>, x - X, y - Y>>
    BY <1>1, <2>1, <2>a, ObjectDrawn, SMTT(30)
  <2> QED BY <2>2, <2>3 DEF X, Y, op
<1>6. LET op == draw_object(win_right, wx + TW, wy)
      IN  /\ OnScreen(op) /\ (Covers(op, P) <=> dx \in TW..(TW + M - 1) /\ dy \in 0..(TH - 1))
          /\ Covers(op, P) => Source(op, P) = <<<<"right">>, x - (wx + TW), y - wy>>
  <2> DEFINE X == wx + TW
             op == draw_object(win_right, X, wy)
  <2>1. X \in Nat /\ X + M <= W /\ wy + TH <= H
    BY <1>1
  <2>2. x - X \in 0..(M - 1) /\ y - wy \in 0..(TH - 1)
          <=> dx \in TW..(TW + M - 1) /\ dy \in 0..(TH - 1)
    BY <1>1
  <2> HIDE DEF X
  <2>a. op = draw_object(Object(<<"right">>, M, TH), X, wy)
    BY <1>2
  <2> HIDE DEF op
  <2>3. /\ OnScreen(op) /\ (Covers(op, P) <=> x - X \in 0..(M - 1) /\ y - wy \in 0..(TH - 1))
        /\ Covers(op, P) => Source(op, P) = <<<<"right">>, x - X, y - wy>>
    BY <1>1, <2>1, <2>a, ObjectDrawn, SMTT(30)
  <2> QED BY <2>2, <2>3 DEF X, op
<1> QED BY <1>3, <1>4, <1>5, <1>6 DEF M, T, D, wx, wy, TW, TH

Close(w) == IF w = 1 THEN red ELSE grey

Border(w) == draw_window_border(window_stack[w], Close(w))

LEMMA BorderCovers ==
  ASSUME Placed, NEW w \in DOMAIN window_stack, NEW x \in 0..(W - 1), NEW y \in Int
  PROVE  LET P == Point(x, y)
         IN  /\ Len(Border(w)) = 7
             /\ \A k \in 1..7 : /\ OnScreen(Border(w)[k])
                                /\ Covers(Border(w)[k], P) =>
                                     InCover(w, x, y) /\ ~InBody(x, y, window_stack[w])
             /\ InCover(w, x, y) /\ ~InBody(x, y, window_stack[w]) =>
                  \E k \in 1..7 : /\ Covers(Border(w)[k], P)
                                  /\ Source(Border(w)[k], P) = InWindow(x, y, w)
                                  /\ \A j \in (k + 1)..7 : ~Covers(Border(w)[j], P)
<1> DEFINE win == window_stack[w]
           wx == win.x
           wy == win.y
           dx == x - wx
           dy == y - wy
           M == LEFT_RIGHT_MARGIN
           T == TITLE_BAR_HEIGHT
           D == DOWN_MARGIN
           P == Point(x, y)
           size == IF w = 1 THEN RED ELSE GREY
           closes == IF w = 1 THEN <<"red">> ELSE <<"grey">>
           wide == dx \in (-M)..(TW + M - 1)
           up == draw_object(win_up, wx - M, wy - T)
           left == draw_object(win_left, wx - M, wy)
           down == draw_object(win_down, wx - M, wy + TERMINAL_HEIGHT_PIXEL)
           right == draw_object(win_right, wx + TERMINAL_WIDTH_PIXEL, wy)
           Button(obj, b) == draw_object(obj, wx + b.left, wy - b.up)
           b5 == Button(Close(w), RED)
           b6 == Button(grey, YELLOW)
           b7 == Button(grey, GREEN)
           ops == <<up, left, down, right, b5, b6, b7>>
           on5 == OnButton(w, RED, size, x, y)
           on6 == OnButton(w, YELLOW, GREY, x, y)
           on7 == OnButton(w, GREEN, GREY, x, y)
<1>1. Border(w) = ops
  BY DEF Border, draw_window_border
<1>2. /\ wx \in Nat /\ wy \in Nat /\ TW \in Nat /\ TH \in Nat /\ TW >= 1 /\ TH >= 1
      /\ M \in Nat /\ T \in Nat /\ D \in Nat
  BY Window, Sizes
<1>3. /\ OnScreen(up) /\ OnScreen(left) /\ OnScreen(down) /\ OnScreen(right)
      /\ Covers(up, P) <=> wide /\ dy \in (-T)..(-1)
      /\ Covers(up, P) => Source(up, P) = <<<<"up">>, x - (wx - M), y - (wy - T)>>
      /\ Covers(left, P) <=> dx \in (-M)..(-1) /\ dy \in 0..(TH - 1)
      /\ Covers(left, P) => Source(left, P) = <<<<"left">>, x - (wx - M), y - wy>>
      /\ Covers(down, P) <=> wide /\ dy \in TH..(TH + D - 1)
      /\ Covers(down, P) =>
           Source(down, P) = <<<<"down">>, x - (wx - M), y - (wy + TERMINAL_HEIGHT_PIXEL)>>
      /\ Covers(right, P) <=> dx \in TW..(TW + M - 1) /\ dy \in 0..(TH - 1)
      /\ Covers(right, P) =>
           Source(right, P) = <<<<"right">>, x - (wx + TERMINAL_WIDTH_PIXEL), y - wy>>
  BY BarsDrawn
<1>4. /\ OnScreen(b5) /\ (Covers(b5, P) <=> on5)
      /\ on5 => /\ Source(b5, P) = <<closes, x - (wx + RED.left), y - (wy - RED.up)>>
                /\ wide /\ dy \in (-T)..(-1)
  <2>1. Close(w) = Object(closes, size.width, size.height)
    BY DEF Close, red, grey
  <2>2. size \in {RED, GREY} /\ RED \in {RED, YELLOW, GREEN}
    OBVIOUS
  <2> DEFINE op == draw_object(Object(closes, size.width, size.height), wx + RED.left, wy - RED.up)
  <2>3. b5 = op
    BY <2>1
  <2> HIDE DEF b5, closes, size
  <2>4. /\ OnScreen(op) /\ (Covers(op, P) <=> on5)
        /\ on5 => /\ Source(op, P) = <<closes, x - (wx + RED.left), y - (wy - RED.up)>>
                  /\ wide /\ dy \in (-T)..(-1)
    BY <2>2, ButtonDrawn
  <2> QED BY <2>3, <2>4
<1>5. /\ OnScreen(b6) /\ (Covers(b6, P) <=> on6)
      /\ on6 => /\ Source(b6, P) = <<<<"grey">>, x - (wx + YELLOW.left), y - (wy - YELLOW.up)>>
                /\ wide /\ dy \in (-T)..(-1)
  BY ButtonDrawn DEF grey
<1>6. /\ OnScreen(b7) /\ (Covers(b7, P) <=> on7)
      /\ on7 => /\ Source(b7, P) = <<<<"grey">>, x - (wx + GREEN.left), y - (wy - GREEN.up)>>
                /\ wide /\ dy \in (-T)..(-1)
  BY ButtonDrawn DEF grey
<1>7. Len(ops) = 7 /\ ops[1] = up /\ ops[2] = left /\ ops[3] = down /\ ops[4] = right
      /\ ops[5] = b5 /\ ops[6] = b6 /\ ops[7] = b7
  <2> HIDE DEF up, left, down, right, b5, b6, b7
  <2> QED OBVIOUS
<1>8. InBody(x, y, win) <=> dx \in 0..(TW - 1) /\ dy \in 0..(TH - 1)
  <2>1. InBody(x, y, win) <=> x >= wx /\ x < wx + TW /\ y >= wy /\ y < wy + TH
    BY DEF InBody, TW, TH
  <2> HIDE DEF wx, wy
  <2> QED BY <1>2, <2>1, Sizes
<1>9. InCover(w, x, y) <=> wide /\ dy \in (-T)..(TH + D - 1)
  BY DEF InCover
<1>10. InWindow(x, y, w) =
         IF InBody(x, y, win) THEN BodyPixel(w, x, y)
         ELSE IF on7 THEN <<<<"grey">>, x - (wx + GREEN.left), y - (wy - GREEN.up)>>
         ELSE IF on6 THEN <<<<"grey">>, x - (wx + YELLOW.left), y - (wy - YELLOW.up)>>
         ELSE IF on5 THEN <<closes, x - (wx + RED.left), y - (wy - RED.up)>>
         ELSE CASE y < wy -> <<<<"up">>, x - (wx - M), y - (wy - T)>>
                [] y >= wy + TH -> <<<<"down">>, x - (wx - M), y - (wy + TERMINAL_HEIGHT_PIXEL)>>
                [] OTHER -> IF x < wx THEN <<<<"left">>, x - (wx - M), y - wy>>
                            ELSE <<<<"right">>, x - (wx + TERMINAL_WIDTH_PIXEL), y - wy>>
  BY DEF InWindow, OnButton, BodyPixel, RowOf, ColOf, TH, TW
<1>11. dx \in Int /\ dy \in Int /\ x \in Int /\ dy = y - wy /\ dx = x - wx
  BY <1>2, Sizes
<1> HIDE DEF up, left, down, right, b5, b6, b7, on5, on6, on7, wx, wy, dx, dy, win, P, closes
<1> HIDE DEF ops, M, T, D
<1> DEFINE last(k) == /\ Covers(ops[k], P) /\ Source(ops[k], P) = InWindow(x, y, w)
                      /\ \A j \in (k + 1)..7 : ~Covers(ops[j], P)
<1>12. \A j \in 1..7 : j = 1 \/ j = 2 \/ j = 3 \/ j = 4 \/ j = 5 \/ j = 6 \/ j = 7
  OBVIOUS
<1>13. ASSUME NEW k \in 1..7
       PROVE  /\ OnScreen(ops[k])
              /\ Covers(ops[k], P) => InCover(w, x, y) /\ ~InBody(x, y, win)
  <2>1. OnScreen(ops[k])
    BY <1>3, <1>4, <1>5, <1>6, <1>7, <1>12
  <2>2. \/ Covers(up, P) \/ Covers(left, P) \/ Covers(down, P) \/ Covers(right, P)
        \/ Covers(b5, P) \/ Covers(b6, P) \/ Covers(b7, P)
        => InCover(w, x, y) /\ ~InBody(x, y, win)
    BY <1>2, <1>3, <1>4, <1>5, <1>6, <1>8, <1>9, <1>11
  <2>3. Covers(ops[k], P) =>
          \/ Covers(up, P) \/ Covers(left, P) \/ Covers(down, P) \/ Covers(right, P)
          \/ Covers(b5, P) \/ Covers(b6, P) \/ Covers(b7, P)
    BY <1>7, <1>12
  <2> QED BY <2>1, <2>2, <2>3
<1>14. ASSUME wide, dy \in (-T)..(TH + D - 1), ~(dx \in 0..(TW - 1) /\ dy \in 0..(TH - 1))
       PROVE  \E k \in 1..7 : last(k)
  <2>1. ~InBody(x, y, win)
    BY <1>8, <1>14
  <2>2. CASE on7
    <3>1. last(7)
      <4>1. \A j \in (7 + 1)..7 : FALSE
        OBVIOUS
      <4> QED BY <1>6, <1>7, <1>10, <2>1, <2>2, <4>1
    <3> QED BY <3>1
  <2>3. CASE ~on7 /\ on6
    <3>1. last(6)
      <4>1. \A j \in (6 + 1)..7 : j = 7
        OBVIOUS
      <4> QED BY <1>5, <1>6, <1>7, <1>10, <2>1, <2>3, <4>1
    <3> QED BY <3>1
  <2>4. CASE ~on7 /\ ~on6 /\ on5
    <3>1. last(5)
      <4>1. \A j \in (5 + 1)..7 : j = 6 \/ j = 7
        OBVIOUS
      <4> QED BY <1>4, <1>5, <1>6, <1>7, <1>10, <2>1, <2>4, <4>1
    <3> QED BY <3>1
  <2>5. CASE ~on7 /\ ~on6 /\ ~on5
    <3>0. ~Covers(b5, P) /\ ~Covers(b6, P) /\ ~Covers(b7, P)
      BY <1>4, <1>5, <1>6, <2>5
    <3>a. InWindow(x, y, w) =
            CASE y < wy -> <<<<"up">>, x - (wx - M), y - (wy - T)>>
              [] y >= wy + TH -> <<<<"down">>, x - (wx - M), y - (wy + TERMINAL_HEIGHT_PIXEL)>>
              [] OTHER -> IF x < wx THEN <<<<"left">>, x - (wx - M), y - wy>>
                          ELSE <<<<"right">>, x - (wx + TERMINAL_WIDTH_PIXEL), y - wy>>
      BY <1>10, <2>1, <2>5
    <3>1. CASE dy < 0
      <4>1. y < wy /\ ~(y >= wy + TH) /\ Covers(up, P) /\ ~Covers(left, P) /\ ~Covers(down, P)
            /\ ~Covers(right, P)
        BY <1>2, <1>3, <1>11, <1>14, <3>1
      <4>2. InWindow(x, y, w) = <<<<"up">>, x - (wx - M), y - (wy - T)>>
        BY <3>a, <4>1
      <4>3. \A j \in (1 + 1)..7 : j = 2 \/ j = 3 \/ j = 4 \/ j = 5 \/ j = 6 \/ j = 7
        OBVIOUS
      <4>4. last(1)
        BY <1>3, <1>7, <3>0, <4>1, <4>2, <4>3
      <4> QED BY <4>4
    <3>2. CASE dy >= TH
      <4>1. ~(y < wy) /\ y >= wy + TH /\ Covers(down, P) /\ ~Covers(right, P)
        BY <1>2, <1>3, <1>11, <1>14, <3>2
      <4>2. InWindow(x, y, w) = <<<<"down">>, x - (wx - M), y - (wy + TERMINAL_HEIGHT_PIXEL)>>
        BY <3>a, <4>1
      <4>3. \A j \in (3 + 1)..7 : j = 4 \/ j = 5 \/ j = 6 \/ j = 7
        OBVIOUS
      <4>4. last(3)
        BY <1>3, <1>7, <3>0, <4>1, <4>2, <4>3
      <4> QED BY <4>4
    <3>3. CASE dy >= 0 /\ dy < TH
      <4>0. ~(y < wy) /\ ~(y >= wy + TH) /\ ~Covers(down, P) /\ ~Covers(up, P)
        BY <1>2, <1>3, <1>11, <3>3
      <4>1. CASE x < wx
        <5>1. Covers(left, P) /\ ~Covers(right, P)
          BY <1>2, <1>3, <1>11, <1>14, <3>3, <4>1
        <5>2. InWindow(x, y, w) = <<<<"left">>, x - (wx - M), y - wy>>
          BY <3>a, <4>0, <4>1
        <5>3. \A j \in (2 + 1)..7 : j = 3 \/ j = 4 \/ j = 5 \/ j = 6 \/ j = 7
          OBVIOUS
        <5>4. last(2)
          BY <1>3, <1>7, <3>0, <4>0, <5>1, <5>2, <5>3
        <5> QED BY <5>4
      <4>2. CASE ~(x < wx)
        <5>1. Covers(right, P)
          BY <1>2, <1>3, <1>11, <1>14, <3>3, <4>2
        <5>2. InWindow(x, y, w) = <<<<"right">>, x - (wx + TERMINAL_WIDTH_PIXEL), y - wy>>
          BY <3>a, <4>0, <4>2
        <5>3. \A j \in (4 + 1)..7 : j = 5 \/ j = 6 \/ j = 7
          OBVIOUS
        <5>4. last(4)
          BY <1>3, <1>7, <3>0, <5>1, <5>2, <5>3
        <5> QED BY <5>4
      <4> QED BY <4>1, <4>2
    <3> QED BY <1>2, <1>11, <3>1, <3>2, <3>3
  <2> QED BY <2>2, <2>3, <2>4, <2>5
<1>15. Len(Border(w)) = 7
  BY <1>1, <1>7
<1>16. ASSUME InCover(w, x, y), ~InBody(x, y, win) PROVE \E k \in 1..7 : last(k)
  BY <1>8, <1>9, <1>14, <1>16
<1> QED BY <1>1, <1>13, <1>15, <1>16 DEF P, win

-----------------------------------------------------------------------------
(***************************************************************************)
(* A step that draws.  Drawn is what a point has once the engine is done.   *)
(***************************************************************************)
Drawn(x, y) == Copied(vram, engine)[Point(x, y)]

LEMMA IdleCopies ==
  ASSUME NEW mem, NEW a \in Address
  PROVE  ~Covers(Idle, a) /\ Copied(mem, Idle)[a] = mem[a]
<1>1. a \in Int /\ Idle.at = 0 /\ Idle.obj.width = 0
  BY DEF Address, Idle, Object
<1>2. ~Covers(Idle, a)
  <2>1. (a - 0) % W \in 0..(W - 1)
    BY <1>1, Quotient, Sizes
  <2> QED BY <1>1, <2>1 DEF Covers
<1> QED BY <1>2, CopiedAt

LEMMA DrawnLater ==
  ASSUME NEW T, NEW ops \in Seq(T), engine = Idle, vga_screen_copy(ops), NEW a \in Address
  PROVE  /\ Len(ops) \in Nat
         /\ Outcome(Copied(vram', engine')[a], vram, ops, Len(ops), a)
         /\ engine' = Idle \/ \E k \in 1..Len(ops) : engine' = ops[k]
         /\ vram'[a] = vram[a] \/ \E k \in 1..Len(ops) : Covers(ops[k], a)
<1>0. Len(ops) \in Nat
  OBVIOUS
<1>1. CASE ops = <<>>
  <2>1. engine' = Idle /\ vram' = vram /\ Len(ops) = 0
    BY <1>1 DEF vga_screen_copy
  <2>2. Copied(vram', engine')[a] = vram[a]
    BY <2>1, IdleCopies
  <2> QED BY <1>0, <2>1, <2>2 DEF Outcome
<1>2. CASE ops # <<>>
  <2>1. engine' = Last(ops) /\ vram' = AllCopied(vram, Front(ops))
    BY <1>2 DEF vga_screen_copy
  <2>2. Outcome(Copied(AllCopied(vram, Front(ops)), Last(ops))[a], vram, ops, Len(ops), a)
    BY <1>2, WithEngine
  <2>3. Len(ops) >= 1 /\ Last(ops) = ops[Len(ops)] /\ Len(Front(ops)) = Len(ops) - 1
        /\ \A k \in 1..(Len(ops) - 1) : Front(ops)[k] = ops[k]
    BY <1>2, FrontAndLast
  <2>4. Outcome(AllCopied(vram, Front(ops))[a], vram, Front(ops), Len(ops) - 1, a)
    BY <1>0, <2>3, AllCopiedAt
  <2>5. vram'[a] = vram[a] \/ \E k \in 1..Len(ops) : Covers(ops[k], a)
    <3>1. CASE vram'[a] = vram[a]
      BY <3>1
    <3>2. CASE vram'[a] # vram[a]
      <4>1. PICK k \in 1..(Len(ops) - 1) : Covers(Front(ops)[k], a)
        BY <2>1, <2>4, <3>2 DEF Outcome
      <4>2. k \in 1..Len(ops) /\ Covers(ops[k], a)
        BY <1>0, <2>3, <4>1
      <4> QED BY <4>2
    <3> QED BY <3>1, <3>2
  <2>6. Len(ops) \in 1..Len(ops)
    BY <1>0, <2>3
  <2> QED BY <1>0, <2>1, <2>2, <2>3, <2>5, <2>6
<1> QED BY <1>1, <1>2

-----------------------------------------------------------------------------
(***************************************************************************)
(* The desktop: bank by bank, all of one half and nothing else.             *)
(***************************************************************************)
DesktopAt(d) == <<<<"desktop">>, d % W, d \div W>>

Base == curr_y \div PAGE_ROWS

LEMMA Banks ==
  ASSUME Placed
  PROVE  /\ PageSize \in Nat /\ PageSize >= 1 /\ H \div PAGE_ROWS \in Nat
         /\ Base \in Nat /\ Base * PageSize = Line(curr_y)
         /\ (Base + (H \div PAGE_ROWS)) * PageSize = Line(curr_y) + Screen
<1> DEFINE B == H \div PAGE_ROWS
<1>1. B \in Int /\ H = B * PAGE_ROWS /\ H % PAGE_ROWS = 0
  <2>1. H % PAGE_ROWS = 0
    BY SizesAssumption DEF H
  <2>2. B \in Int /\ H = B * PAGE_ROWS + (H % PAGE_ROWS)
    BY Quotient, Sizes
  <2> HIDE DEF B
  <2>3. B * PAGE_ROWS \in Int
    BY <2>2, Sizes
  <2> QED BY <2>1, <2>2, <2>3
<1> HIDE DEF B
<1>2. PageSize = PAGE_ROWS * W /\ PageSize \in Nat /\ PageSize >= 1
  <2>1. PageSize = PAGE_ROWS * W
    BY DEF PageSize, W
  <2> QED BY <2>1, Sizes
<1>3. B >= 0
  <2>1. CASE B < 0
    <3>1. B * PAGE_ROWS + PAGE_ROWS <= 0 * PAGE_ROWS /\ 0 * PAGE_ROWS = 0
      BY <1>1, <2>1, NextMultiple, Sizes
    <3> QED BY <1>1, <3>1, Sizes
  <2> QED BY <1>1, <2>1
<1>4. B * PageSize = Screen
  <2>1. (B * PAGE_ROWS) * W = B * (PAGE_ROWS * W)
    BY <1>1, Sizes
  <2>2. Screen = H * W
    BY Lines1 DEF Line, W, H
  <2> QED BY <1>1, <1>2, <2>1, <2>2
<1>5. CASE curr_y = 0
  <2>1. Base = 0
    BY <1>5, Sizes DEF Base
  <2>2. Line(curr_y) = 0 /\ 0 * PageSize = 0 /\ 0 + B = B /\ 0 + Screen = Screen
    BY <1>2, <1>3, <1>5, <1>1, Lines1
  <2> QED BY <1>1, <1>2, <1>3, <1>4, <2>1, <2>2 DEF B
<1>6. CASE curr_y = H
  <2>1. Base = B /\ Line(curr_y) = Screen
    BY <1>6, Lines1 DEF Base, B
  <2>2. (B + B) * PageSize = B * PageSize + B * PageSize
    BY <1>1, <1>2
  <2> QED BY <1>1, <1>2, <1>3, <1>4, <2>1, <2>2 DEF B
<1> QED BY <1>5, <1>6 DEF Placed

\* Drawing a page makes f of m, and leaves bank q.
PageMakes(page, m, p, f, q) ==
  /\ DesktopPage([vram |-> m, curr_page |-> p, bank |-> p], page)
       = [vram |-> f, curr_page |-> q, bank |-> q]
  /\ \A a \in Address : f[a] = IF a \div PageSize = Base + page
                                THEN DesktopAt(a - Line(curr_y)) ELSE m[a]

LEMMA PageDrawn ==
  ASSUME Placed, NEW page \in Nat, NEW m, NEW p
  PROVE  \E f, q : PageMakes(page, m, p, f, q)
<1> DEFINE state == [vram |-> m, curr_page |-> p, bank |-> p]
           q == page + Base
           f == [a \in Address |->
                   IF a \div PageSize = q
                   THEN LET d == page * PageSize + (a % PageSize)
                        IN  <<<<"desktop">>, d % W, d \div W>>
                   ELSE m[a]]
<1>1. vga_set_page(q, state) = [vram |-> m, curr_page |-> q, bank |-> q]
  BY DEF vga_set_page
<1>2. DesktopPage(state, page) = [vram |-> f, curr_page |-> q, bank |-> q]
  <2> HIDE DEF state, q
  <2> QED BY <1>1 DEF DesktopPage, W, q, Base
<1>3. ASSUME NEW a \in Address
      PROVE  f[a] = IF a \div PageSize = Base + page
                    THEN DesktopAt(a - Line(curr_y)) ELSE m[a]
  <2>1. a \in Int /\ PageSize \in Nat /\ PageSize >= 1 /\ Base \in Nat
        /\ Base * PageSize = Line(curr_y) /\ q = Base + page /\ q \in Nat
    BY Banks DEF Address
  <2>2. CASE a \div PageSize = q
    <3>1. a = (a \div PageSize) * PageSize + (a % PageSize) /\ a % PageSize \in 0..(PageSize - 1)
      BY <2>1, Quotient
    <3>2. (Base + page) * PageSize = Base * PageSize + page * PageSize /\ page * PageSize \in Int
      BY <2>1
    <3> DEFINE r == a % PageSize
               b == page * PageSize
    <3>3. a = Line(curr_y) + b + r /\ r \in Int /\ b \in Int /\ Line(curr_y) \in Int
      <4>1. a = (Base + page) * PageSize + r /\ r \in Int
        BY <2>1, <2>2, <3>1
      <4>2. (Base + page) * PageSize = Line(curr_y) + b
        BY <2>1, <3>2
      <4>3. Line(curr_y) \in Int
        BY HalfLine
      <4> HIDE DEF r, b
      <4>4. b \in Int
        BY <3>2 DEF b
      <4> QED BY <4>1, <4>2, <4>3, <4>4
    <3> HIDE DEF r, b
    <3>4. a - Line(curr_y) = b + r
      BY <3>3
    <3>5. f[a] = DesktopAt(b + r)
      BY <2>2 DEF DesktopAt, b, r
    <3> QED BY <2>1, <2>2, <3>4, <3>5
  <2>3. CASE a \div PageSize # q
    BY <2>1, <2>3
  <2> QED BY <2>2, <2>3
<1>4. PageMakes(page, m, p, f, q)
  BY <1>2, <1>3 DEF PageMakes
<1> QED BY <1>4

IsBanking(g, n) ==
  g = [k \in 0..n |->
         IF k = 0 THEN [vram |-> vram, curr_page |-> curr_page, bank |-> bank]
         ELSE DesktopPage(g[k - 1], k - 1)]

LEMMA BankingExists ==
  ASSUME NEW N \in Nat
  PROVE  \E g : IsBanking(g, N)
<1> DEFINE S == {n \in Nat : \E g : IsBanking(g, n)}
           first == [vram |-> vram, curr_page |-> curr_page, bank |-> bank]
<1>1. 0 \in S
  <2>1. IsBanking([k \in 0..0 |-> first], 0)
    BY DEF IsBanking
  <2> QED BY <2>1
<1>2. ASSUME NEW n \in 1..N, n - 1 \in S PROVE n \in S
  <2>1. PICK g : IsBanking(g, n - 1)
    BY <1>2
  <2> DEFINE h == [k \in 0..n |-> IF k = n THEN DesktopPage(g[n - 1], n - 1) ELSE g[k]]
  <2>2. ASSUME NEW k \in 0..n
        PROVE  h[k] = IF k = 0 THEN first ELSE DesktopPage(h[k - 1], k - 1)
    <3>1. CASE k = n
      <4>1. k # 0 /\ k - 1 \in 0..n /\ k - 1 # n /\ h[k] = DesktopPage(g[n - 1], n - 1)
        BY <3>1
      <4> QED BY <3>1, <4>1
    <3>2. CASE k # n
      <4>1. k \in 0..(n - 1) /\ h[k] = g[k]
        BY <3>2
      <4>2. g[k] = IF k = 0 THEN first ELSE DesktopPage(g[k - 1], k - 1)
        BY <2>1, <4>1 DEF IsBanking
      <4>3. k # 0 => k - 1 \in 0..n /\ k - 1 # n
        BY <3>2
      <4> QED BY <4>1, <4>2, <4>3
    <3> QED BY <3>1, <3>2
  <2>3. h = [k \in 0..n |-> h[k]]
    OBVIOUS
  <2> HIDE DEF h
  <2>4. IsBanking(h, n)
    BY <2>2, <2>3 DEF IsBanking
  <2> QED BY <2>4
<1> HIDE DEF S
<1>3. N \in S
  BY <1>1, <1>2, Counting
<1> QED BY <1>3 DEF S

\* m is what so many pages leave of the memory
Paged(m, n) ==
  \A a \in Address : m[a] = IF a \div PageSize \in Base..(Base + n - 1)
                            THEN DesktopAt(a - Line(curr_y)) ELSE vram[a]

AfterPages(s, n) ==
  \E f, q : s = [vram |-> f, curr_page |-> q, bank |-> q] /\ Paged(f, n)

LEMMA PagedNext ==
  ASSUME Placed, NEW n \in Nat, n >= 1, NEW s, AfterPages(s, n - 1)
  PROVE  AfterPages(DesktopPage(s, n - 1), n)
<1> DEFINE page == n - 1
<1>p. PICK m, p : s = [vram |-> m, curr_page |-> p, bank |-> p] /\ Paged(m, n - 1)
  BY DEF AfterPages
<1>0. page \in Nat
  OBVIOUS
<1> HIDE DEF page
<1>1. PICK f, q : PageMakes(page, m, p, f, q)
  BY <1>0, PageDrawn
<1>2. Base \in Nat /\ PageSize \in Nat /\ PageSize >= 1
  BY Banks
<1>3. ASSUME NEW a \in Address
      PROVE  f[a] = IF a \div PageSize \in Base..(Base + n - 1)
                    THEN DesktopAt(a - Line(curr_y)) ELSE vram[a]
  <2>1. a \div PageSize \in Int
    BY <1>2, Quotient DEF Address
  <2>2. f[a] = IF a \div PageSize = Base + (n - 1)
               THEN DesktopAt(a - Line(curr_y)) ELSE m[a]
    BY <1>1 DEF PageMakes, page
  <2>3. m[a] = IF a \div PageSize \in Base..(Base + (n - 1) - 1)
               THEN DesktopAt(a - Line(curr_y)) ELSE vram[a]
    BY <1>p DEF Paged
  <2> DEFINE k == a \div PageSize
             d == DesktopAt(a - Line(curr_y))
  <2>4. k \in Base..(Base + n - 1) <=> k = Base + (n - 1) \/ k \in Base..(Base + (n - 1) - 1)
    <3> HIDE DEF k
    <3> QED BY <1>2, <2>1 DEF k
  <2> HIDE DEF k, d
  <2> QED BY <2>2, <2>3, <2>4 DEF k, d
<1>4. Paged(f, n)
  BY <1>3 DEF Paged
<1> QED BY <1>p, <1>1, <1>4 DEF PageMakes, AfterPages, page

LEMMA HalfPages ==
  ASSUME Placed, NEW a \in Address
  PROVE  (a \div PageSize \in Base..(Base + (H \div PAGE_ROWS) - 1)) <=> a \in Half
<1> DEFINE B == H \div PAGE_ROWS
           q == a \div PageSize
           P == PageSize
           L == Line(curr_y)
<1>1. /\ P \in Nat /\ P >= 1 /\ B \in Nat /\ Base \in Nat /\ Base * P = L
      /\ (Base + B) * P = L + Screen /\ a \in Int /\ L \in Int /\ Screen \in Int
  BY Banks, HalfLine, Lines1 DEF Address
<1>2. q \in Int
  BY <1>1, Quotient
<1>3. a \in Half <=> L <= a /\ a < L + Screen
  BY <1>1 DEF Half
<1>4. q * P <= a /\ a < q * P + P
  <2>1. q = a \div P
    OBVIOUS
  <2> HIDE DEF q, P
  <2> QED BY <1>1, <1>2, <2>1, RoundedDown
<1> HIDE DEF B, q, P, L
<1>5. CASE q < Base
  <2>1. q * P \in Int /\ q * P + P <= Base * P
    BY <1>1, <1>2, <1>5, NextMultiple
  <2> QED BY <1>1, <1>2, <1>3, <1>4, <1>5, <2>1 DEF B, q, P
<1>6. CASE q \in Base..(Base + B - 1)
  <2>1. q * P \in Int /\ q * P + P <= (Base + B) * P
    <3>1. q < Base + B /\ Base + B \in Int
      BY <1>1, <1>6
    <3> QED BY <1>1, <1>2, <3>1, NextMultiple
  <2>2. Base * P <= q * P
    <3>1. CASE q = Base
      BY <1>1, <2>1, <3>1
    <3>2. CASE q # Base
      <4>1. Base < q /\ Base \in Int
        BY <1>1, <1>6, <3>2
      <4>2. Base * P \in Int /\ Base * P + P <= q * P
        BY <1>1, <1>2, <4>1, NextMultiple
      <4> QED BY <1>1, <2>1, <4>2
    <3> QED BY <3>1, <3>2
  <2> QED BY <1>1, <1>2, <1>3, <1>4, <1>6, <2>1, <2>2 DEF B, q, P
<1>7. CASE q >= Base + B
  <2>1. (Base + B) * P <= q * P /\ q * P \in Int
    <3>1. CASE q = Base + B
      BY <1>1, <3>1
    <3>2. CASE q # Base + B
      <4>1. Base + B < q /\ Base + B \in Int
        BY <1>1, <1>2, <1>7, <3>2
      <4>2. (Base + B) * P + P <= q * P /\ q * P \in Int
        BY <1>1, <1>2, <4>1, NextMultiple
      <4> QED BY <1>1, <4>2
    <3> QED BY <3>1, <3>2
  <2> QED BY <1>1, <1>2, <1>3, <1>4, <1>7, <2>1 DEF B, q, P
<1> QED BY <1>1, <1>2, <1>5, <1>6, <1>7

LEMMA DesktopDrawn ==
  ASSUME Placed, bank = curr_page, render_desktop
  PROVE  /\ bank' = curr_page'
         /\ \A a \in Address : vram'[a] = IF a \in Half THEN DesktopAt(a - Line(curr_y))
                                          ELSE vram[a]
<1> DEFINE B == H \div PAGE_ROWS
           g == CHOOSE g : IsBanking(g, B)
<1>0. B \in Nat /\ Base \in Nat
  BY Banks
<1>1. IsBanking(g, B)
  BY <1>0, BankingExists
<1>2. vram' = g[B].vram /\ curr_page' = g[B].curr_page /\ bank' = g[B].bank
  BY DEF render_desktop, IsBanking, H
<1> HIDE DEF g, B
<1>3. /\ g[0] = [vram |-> vram, curr_page |-> curr_page, bank |-> curr_page]
      /\ \A n \in 1..B : g[n] = DesktopPage(g[n - 1], n - 1)
  BY <1>0, <1>1 DEF IsBanking
<1> DEFINE S == {n \in Nat : AfterPages(g[n], n)}
<1>4. 0 \in S
  <2>1. Paged(vram, 0)
    BY <1>0 DEF Paged
  <2> QED BY <1>3, <2>1 DEF AfterPages
<1>5. ASSUME NEW n \in 1..B, n - 1 \in S PROVE n \in S
  <2>0. n \in Nat /\ n >= 1
    BY <1>0
  <2>1. AfterPages(g[n - 1], n - 1)
    BY <1>5
  <2>2. AfterPages(DesktopPage(g[n - 1], n - 1), n)
    BY <2>0, <2>1, PagedNext
  <2>3. g[n] = DesktopPage(g[n - 1], n - 1)
    BY <1>3
  <2> QED BY <2>0, <2>2, <2>3
<1> HIDE DEF S
<1>6. B \in S
  BY <1>0, <1>4, <1>5, Counting
<1>7. PICK f, q : g[B] = [vram |-> f, curr_page |-> q, bank |-> q] /\ Paged(f, B)
  BY <1>6 DEF S, AfterPages
<1>8. ASSUME NEW a \in Address
      PROVE  vram'[a] = IF a \in Half THEN DesktopAt(a - Line(curr_y)) ELSE vram[a]
  <2>1. vram' = f
    BY <1>2, <1>7
  <2>2. (a \div PageSize \in Base..(Base + B - 1)) <=> a \in Half
    BY HalfPages DEF B
  <2> QED BY <1>7, <2>1, <2>2 DEF Paged
<1>9. bank' = curr_page'
  BY <1>2, <1>7
<1> QED BY <1>8, <1>9

-----------------------------------------------------------------------------
(***************************************************************************)
(* What each part of the frame draws: copies onto the screen.               *)
(***************************************************************************)
Copies(ops) == \E T : ops \in Seq(T) /\ \A op \in T : OnScreen(op)

LEMMA BothCopies ==
  ASSUME NEW a, NEW b, Copies(a), Copies(b)
  PROVE  Copies(a \o b)
<1>1. PICK S : a \in Seq(S) /\ \A op \in S : OnScreen(op)
  BY DEF Copies
<1>2. PICK T : b \in Seq(T) /\ \A op \in T : OnScreen(op)
  BY DEF Copies
<1> DEFINE U == S \cup T
<1>3. S \subseteq U /\ T \subseteq U /\ \A op \in U : OnScreen(op)
  BY <1>1, <1>2
<1> HIDE DEF U
<1>4. a \in Seq(U) /\ b \in Seq(U)
  BY <1>1, <1>2, <1>3, SeqMonotonic
<1>5. a \o b \in Seq(U)
  BY <1>4, ConcatProperties
<1> QED BY <1>3, <1>5 DEF Copies

LEMMA GlyphsAreCopies ==
  ASSUME Placed, NEW w \in DOMAIN window_stack
  PROVE  \A op \in Glyphs(w) : OnScreen(op)
<1>1. ASSUME NEW row \in 0..(TERMINAL_TEXT_ROWS - 1), NEW col \in 0..(TERMINAL_TEXT_COLS - 1)
      PROVE  OnScreen(Glyph(w, row, col))
  BY GlyphCopy
<1> QED BY <1>1 DEF Glyphs

LEMMA CellsAreCopies ==
  ASSUME Placed, NEW windows \in SUBSET DOMAIN window_stack
  PROVE  Copies(Cells(windows))
<1> DEFINE T == UNION {Glyphs(w) : w \in windows}
<1>1. Cells(windows) \in Seq(T)
  BY CellsOps
<1>2. ASSUME NEW op \in T PROVE OnScreen(op)
  <2>1. PICK w \in windows : op \in Glyphs(w)
    BY <1>2
  <2> QED BY <2>1, GlyphsAreCopies
<1> HIDE DEF T
<1> QED BY <1>1, <1>2 DEF Copies

LEMMA BorderIsCopies ==
  ASSUME Placed, NEW w \in DOMAIN window_stack
  PROVE  Border(w) \in Seq({Border(w)[k] : k \in 1..7}) /\ Len(Border(w)) = 7 /\ Copies(Border(w))
<1> DEFINE T == {Border(w)[k] : k \in 1..7}
<1>1. 0 \in 0..(W - 1) /\ 0 \in Int
  BY Sizes
<1>2. Len(Border(w)) = 7 /\ \A k \in 1..7 : OnScreen(Border(w)[k])
  BY <1>1, BorderCovers
<1>3. Border(w) \in Seq(T)
  <2>1. PICK a, b, c, d, e, f, g : Border(w) = <<a, b, c, d, e, f, g>>
    BY DEF Border, draw_window_border
  <2> DEFINE s == <<a, b, c, d, e, f, g>>
  <2>2. /\ s[1] = a /\ s[2] = b /\ s[3] = c /\ s[4] = d /\ s[5] = e /\ s[6] = f /\ s[7] = g
    OBVIOUS
  <2>3. a \in T /\ b \in T /\ c \in T /\ d \in T /\ e \in T /\ f \in T /\ g \in T
    <3>1. s = Border(w)
      BY <2>1
    <3> HIDE DEF s
    <3> QED BY <2>2, <3>1
  <2> HIDE DEF T
  <2>4. s \in Seq(T)
    BY <2>3
  <2> QED BY <2>1, <2>4
<1>4. \A op \in T : OnScreen(op)
  BY <1>2
<1> HIDE DEF T
<1> QED BY <1>2, <1>3, <1>4 DEF Copies, T

ButtonOps ==
  <<draw_object(terminal_button(gui_term_button_pressed), TERMINAL_B.x, TERMINAL_B.y)>>

OnTerminalButton(x, y) ==
  /\ x - TERMINAL_B.x \in 0..(TERMINAL_B.width - 1)
  /\ y - TERMINAL_B.y \in 0..(TERMINAL_B.height - 1)

TerminalButtonPixel(x, y) ==
  <<<<"terminal", gui_term_button_pressed>>, x - TERMINAL_B.x, y - TERMINAL_B.y>>

LEMMA TerminalButtonDrawn ==
  ASSUME Placed, NEW x \in 0..(W - 1), NEW y \in Int
  PROVE  /\ OnScreen(ButtonOps[1])
         /\ Covers(ButtonOps[1], Point(x, y)) <=> OnTerminalButton(x, y)
         /\ OnTerminalButton(x, y) =>
              Source(ButtonOps[1], Point(x, y)) = TerminalButtonPixel(x, y)
<1> DEFINE name == <<"terminal", gui_term_button_pressed>>
           X == TERMINAL_B.x
           Y == TERMINAL_B.y
           w == TERMINAL_B.width
           h == TERMINAL_B.height
           op == draw_object(Object(name, w, h), X, Y)
<1>1. X \in Nat /\ Y \in Nat /\ w \in Nat /\ h \in Nat /\ X + w <= W /\ Y + h <= H
  BY PlacesAssumption DEF W, H
<1>2. ButtonOps[1] = op
  BY DEF ButtonOps, terminal_button
<1> HIDE DEF X, Y, w, h, name
<1>3. /\ OnScreen(op)
      /\ Covers(op, Point(x, y)) <=> x - X \in 0..(w - 1) /\ y - Y \in 0..(h - 1)
      /\ x - X \in 0..(w - 1) /\ y - Y \in 0..(h - 1) =>
           Source(op, Point(x, y)) = <<name, x - X, y - Y>>
  BY <1>1, ObjectDrawn
<1> HIDE DEF op
<1> QED BY <1>2, <1>3 DEF OnTerminalButton, TerminalButtonPixel, X, Y, w, h, name

ClockOps == [k \in DOMAIN time |->
               print_char(time[k], CLOCK.x + FONT_WIDTH * (k - 1), CLOCK.y)]

CharAt(x) == (x - CLOCK.x) \div FONT_WIDTH

InClock(x, y) == CharAt(x) \in 0..(Len(time) - 1) /\ y - CLOCK.y \in 0..(FONT_HEIGHT - 1)

ClockPixel(x, y) ==
  <<GlyphOf(time[CharAt(x) + 1]), (x - CLOCK.x) % FONT_WIDTH, y - CLOCK.y>>

LEMMA ClockDrawn ==
  ASSUME Placed, NEW k \in 1..Len(time), NEW x \in 0..(W - 1), NEW y \in Int
  PROVE  /\ OnScreen(ClockOps[k])
         /\ Covers(ClockOps[k], Point(x, y)) <=> InClock(x, y) /\ k = CharAt(x) + 1
         /\ Covers(ClockOps[k], Point(x, y)) =>
              Source(ClockOps[k], Point(x, y)) = ClockPixel(x, y)
<1> DEFINE F == FONT_WIDTH
           G == FONT_HEIGHT
           C == Len(time)
           c == k - 1
           m == x - CLOCK.x
           X == CLOCK.x + F * c
           Y == CLOCK.y
           name == GlyphOf(time[k])
           op == draw_object(Object(name, F, G), X, Y)
<1>1. /\ CLOCK.x \in Nat /\ Y \in Nat /\ C \in Nat /\ time[k] \in 0..(FONT_HALF - 1)
      /\ CLOCK.x + F * C <= W /\ Y + G <= H /\ k \in DOMAIN time
  <2>1. time \in Seq(0..(FONT_HALF - 1))
    BY PlacesAssumption
  <2>2. DOMAIN time = 1..Len(time) /\ time \in [1..Len(time) -> 0..(FONT_HALF - 1)]
    BY <2>1, LenProperties
  <2>3. Len(time) \in Nat
    BY <2>1, LenProperties
  <2>4. k \in DOMAIN time /\ time[k] \in 0..(FONT_HALF - 1)
    BY <2>2
  <2>5. CLOCK.x \in Nat /\ CLOCK.y \in Nat
    BY PlacesAssumption
  <2>6. CLOCK.x + FONT_WIDTH * Len(time) <= VGA_WIDTH /\ CLOCK.y + FONT_HEIGHT <= VGA_HEIGHT
    BY PlacesAssumption
  <2> QED BY <2>3, <2>4, <2>5, <2>6 DEF W, H
<1>2. F \in Nat /\ F >= 1 /\ G \in Nat /\ G >= 1
  BY Sizes
<1>3. ClockOps[k] = op
  <2>1. gui_get_obj_font(time[k]) = Object(name, F, G)
    BY <1>1, FontObject
  <2>2. ClockOps[k] = print_char(time[k], X, Y)
    BY <1>1 DEF ClockOps
  <2> QED BY <2>1, <2>2 DEF print_char
<1>4. /\ c \in Nat /\ F * c \in Nat /\ c * F = F * c /\ F * c + F <= F * C
  <2>1. c \in 0..(C - 1) /\ c \in Nat
    BY <1>1
  <2> HIDE DEF c, F, C
  <2>2. c * F \in Nat /\ c * F + F <= C * F /\ C * F \in Nat
    BY <1>1, <1>2, <2>1, CharacterPlace
  <2>3. c * F = F * c /\ C * F = F * C
    BY <1>1, <1>2, <2>1
  <2> QED BY <2>1, <2>2, <2>3
<1>5. X \in Nat /\ X + F <= W /\ Y \in Nat /\ Y + G <= H
  <2> DEFINE p == F * c
             all == F * C
             o == CLOCK.x
  <2>1. all \in Int
    <3> HIDE DEF F, C
    <3> QED BY <1>1, <1>2
  <2>2. o \in Nat /\ o + all <= W /\ W \in Nat
    BY <1>1, Sizes
  <2>3. p \in Nat /\ p + F <= all
    BY <1>4
  <2> HIDE DEF p, all, o, F
  <2>4. o + p \in Nat /\ o + p + F <= W
    BY <1>2, <2>1, <2>2, <2>3
  <2>5. X = o + p
    BY DEF o, p
  <2> HIDE DEF X
  <2> QED BY <1>1, <2>4, <2>5
<1> HIDE DEF X, Y, F, G, name
<1>6. /\ OnScreen(op)
      /\ Covers(op, Point(x, y)) <=> x - X \in 0..(F - 1) /\ y - Y \in 0..(G - 1)
      /\ x - X \in 0..(F - 1) /\ y - Y \in 0..(G - 1) =>
           Source(op, Point(x, y)) = <<name, x - X, y - Y>>
  BY <1>2, <1>5, ObjectDrawn, SMTT(30)
<1>7. x - X \in 0..(F - 1) <=> c = CharAt(x)
  <2>1. m \in Int /\ x - X = m - c * F /\ c * F \in Int
    <3> HIDE DEF c, C
    <3> QED BY <1>1, <1>4 DEF X
  <2>2. c = m \div F <=> c * F <= m /\ m < c * F + F
    <3>1. c \in Int
      BY <1>4
    <3> HIDE DEF c, m
    <3> QED BY <1>2, <2>1, <3>1, RoundedDown
  <2> DEFINE p == c * F
  <2>3. x - X \in 0..(F - 1) <=> p <= m /\ m < p + F
    <3>1. x - X = m - p /\ p \in Int
      BY <2>1
    <3> HIDE DEF p, m
    <3> QED BY <1>2, <2>1, <3>1
  <2> QED BY <2>2, <2>3 DEF CharAt, F
<1>8. c = CharAt(x) => /\ x - X = m % F /\ time[CharAt(x) + 1] = time[k]
                       /\ CharAt(x) \in 0..(C - 1) /\ k = CharAt(x) + 1
  <2> HAVE c = CharAt(x)
  <2>1. m \in Int /\ x - X = m - c * F
    <3> HIDE DEF c, C
    <3> QED BY <1>1, <1>4 DEF X
  <2>2. m \div F = c
    BY DEF CharAt, F
  <2>3. m % F = x - X
    <3> HIDE DEF m, c
    <3>1. m = (m \div F) * F + (m % F) /\ m % F \in 0..(F - 1)
      BY <1>2, <2>1, Quotient
    <3> DEFINE p == c * F
               r == m % F
    <3>2. m = p + r /\ r \in Int /\ p \in Int
      BY <1>4, <1>2, <2>2, <3>1
    <3>3. x - X = m - p
      BY <2>1
    <3> HIDE DEF p, r
    <3>4. r = x - X
      BY <3>2, <3>3
    <3> QED BY <3>4 DEF r
  <2>4. CharAt(x) = k - 1
    OBVIOUS
  <2> QED BY <1>1, <2>3, <2>4
<1>9. k = CharAt(x) + 1 /\ InClock(x, y) => c = CharAt(x)
  <2> HAVE k = CharAt(x) + 1 /\ InClock(x, y)
  <2>1. CharAt(x) \in Int
    BY DEF InClock
  <2> QED BY <2>1
<1> HIDE DEF op, c, m
<1> QED BY <1>3, <1>6, <1>7, <1>8, <1>9 DEF InClock, ClockPixel, Y, G, F, C, name, m

-----------------------------------------------------------------------------
(***************************************************************************)
(* What is on the screen stays.                                             *)
(***************************************************************************)
Steps == {"rest", "desktop", "button", "clock", "grid", "lower", "top", "sync",
          "start_low", "start_high", "shown"}

EngineInHalf ==
  /\ engine = Idle \/ OnScreen(engine)
  /\ pc \in {"rest", "desktop", "start_low", "start_high", "shown"} => engine = Idle

HalfShown ==
  /\ start \in [low : {0}, high : Int]
  /\ ShownNow = IF pc \in {"rest", "shown"} THEN Line(curr_y) ELSE Screen - Line(curr_y)

Kept ==
  pc # "shown" =>
    \A a \in Address :
      /\ a - ShownNow \in 0..(Screen - 1) => vram[a] = <<<<"shown">>, 0, 0>>
      /\ a >= 2 * Screen => vram[a] = <<<<"objects">>, 0, 0>>

Unseen ==
  Placed /\ pc \in Steps /\ bank = curr_page /\ EngineInHalf /\ HalfShown /\ Kept

LEMMA HalvesApart ==
  ASSUME Placed, ShownNow = Screen - Line(curr_y), NEW a \in Half
  PROVE  ~(a - ShownNow \in 0..(Screen - 1)) /\ ~(a >= 2 * Screen)
<1> DEFINE L == Line(curr_y)
<1>1. /\ L \in {0, Screen} /\ Screen \in Nat /\ a \in Int
      /\ a - L \in 0..(Screen - 1) /\ ShownNow = Screen - L
  BY HalfLine, Lines1 DEF Half, Address
<1> HIDE DEF L
<1> QED BY <1>1

\* Drawing into the half that is not shown leaves the rest of memory alone.
LEMMA KeptOutside ==
  ASSUME Placed, Kept, pc # "shown", ShownNow = Screen - Line(curr_y),
         ShownNow' = ShownNow, \A a \in Address : vram'[a] = vram[a] \/ a \in Half
  PROVE  Kept'
<1>1. ASSUME NEW a \in Address
      PROVE  /\ a - ShownNow' \in 0..(Screen - 1) => vram'[a] = <<<<"shown">>, 0, 0>>
             /\ a >= 2 * Screen => vram'[a] = <<<<"objects">>, 0, 0>>
  <2>1. CASE a \in Half
    BY <2>1, HalvesApart
  <2>2. CASE vram'[a] = vram[a]
    BY <2>2 DEF Kept
  <2> QED BY <2>1, <2>2
<1> QED BY <1>1 DEF Kept

LEMMA SamePlaces ==
  ASSUME Placed, UNCHANGED <<window_stack, curr_y>>
  PROVE  Placed' /\ Half' = Half /\ \A op : OnScreen(op) => OnScreen(op)'
<1>1. Placed'
  BY DEF Placed
<1>2. Half' = Half
  BY DEF Half, Line
<1>3. ASSUME NEW op, OnScreen(op) PROVE OnScreen(op)'
  BY <1>3 DEF OnScreen, CopyTo, Line
<1> QED BY <1>1, <1>2, <1>3

LEMMA DrawIsUnseen ==
  ASSUME Unseen, NEW ops, Copies(ops), NEW from \in {"button", "clock", "grid", "lower", "top"},
         NEW to \in {"clock", "grid", "lower", "top", "sync"}, Draw(from, to, ops)
  PROVE  Unseen'
<1>1. /\ Placed /\ pc = from /\ pc' = to /\ vga_screen_copy(ops) /\ engine = Idle
      /\ UNCHANGED <<window_stack, curr_y, curr_page, bank, start>>
  BY DEF Unseen, Draw, vga_screen_copy, frameVars, pageVars
<1>2. PICK T : ops \in Seq(T) /\ \A op \in T : OnScreen(op)
  BY DEF Copies
<1>3. \A k \in 1..Len(ops) : OnScreen(ops[k])
  <2>1. ops \in [1..Len(ops) -> T]
    BY <1>2, LenProperties
  <2> QED BY <1>2, <2>1
<1>4. ASSUME NEW a \in Address PROVE vram'[a] = vram[a] \/ a \in Half
  <2>1. vram'[a] = vram[a] \/ \E k \in 1..Len(ops) : Covers(ops[k], a)
    BY <1>1, <1>2, DrawnLater
  <2>2. ASSUME NEW k \in 1..Len(ops), Covers(ops[k], a) PROVE a \in Half
    BY <1>1, <1>3, <2>2, CopiesStayInHalf
  <2> QED BY <2>1, <2>2
<1>5. ShownNow' = ShownNow
  BY <1>1 DEF ShownNow
<1>6. ShownNow = Screen - Line(curr_y) /\ pc # "shown"
  BY <1>1 DEF Unseen, HalfShown
<1>7. Kept'
  BY <1>1, <1>4, <1>5, <1>6, KeptOutside DEF Unseen
<1>8. Placed' /\ \A op : OnScreen(op) => OnScreen(op)'
  BY <1>1, SamePlaces
<1>9. EngineInHalf'
  <2>0. 0 \in Address
    BY Lines1, Sizes DEF Address, W
  <2>1. engine' = Idle \/ \E k \in 1..Len(ops) : engine' = ops[k]
    BY <1>1, <1>2, <2>0, DrawnLater
  <2>2. engine' = Idle \/ \E op : OnScreen(op) /\ engine' = op
    BY <1>3, <2>1
  <2>3. ASSUME NEW op, OnScreen(op), engine' = op PROVE OnScreen(engine)'
    <3>1. \E X \in Nat, Y \in Nat : CopyTo(op, X, Y)
      BY <2>3 DEF OnScreen
    <3> QED BY <1>1, <2>3, <3>1 DEF OnScreen, CopyTo, Line
  <2> QED BY <1>1, <2>2, <2>3 DEF EngineInHalf, Idle
<1>10. HalfShown'
  <2>1. start' \in [low : {0}, high : Int] /\ Line(curr_y') = Line(curr_y)
    BY <1>1 DEF Unseen, HalfShown
  <2> QED BY <1>1, <1>5, <1>6, <2>1 DEF HalfShown, Line
<1> QED BY <1>1, <1>7, <1>8, <1>9, <1>10 DEF Unseen, Steps

LEMMA StartRegisters ==
  ASSUME Placed
  PROVE  /\ StartAddress = Line(curr_y) /\ StartAddress % START_LOW = 0
         /\ StartAddress \div START_LOW \in Int
         /\ 0 + (StartAddress \div START_LOW) * START_LOW = Line(curr_y)
<1> DEFINE L == Line(curr_y)
           S == START_LOW
<1>1. StartAddress = L
  BY DEF StartAddress, Line
<1>2. S \in Nat /\ S >= 1 /\ L \in Int /\ L \in {0, Screen}
  BY Sizes, HalfLine
<1>3. L % S = 0
  <2>1. CASE L = 0
    <3>1. 0 \in Int /\ 0 \in 0..(S - 1) /\ 0 * S + 0 = 0
      BY <1>2
    <3>2. (0 * S + 0) % S = 0
      BY <1>2, <3>1, OneQuotient
    <3> QED BY <2>1, <3>1, <3>2
  <2>2. CASE L = Screen
    <3>1. (VGA_WIDTH * VGA_HEIGHT) % START_LOW = 0
      BY SizesAssumption
    <3> QED BY <2>2, <3>1 DEF Screen
  <2> QED BY <1>2, <2>1, <2>2
<1>4. L \div S \in Int /\ L = (L \div S) * S + (L % S)
  <2> HIDE DEF L, S
  <2> QED BY <1>2, Quotient
<1>5. 0 + (L \div S) * S = L
  <2> DEFINE p == (L \div S) * S
  <2>1. p \in Int
    <3> HIDE DEF L, S
    <3> QED BY <1>2, <1>4
  <2>2. L = p + 0
    BY <1>3, <1>4
  <2> HIDE DEF p, L
  <2>3. 0 + p = L
    BY <1>2, <2>1, <2>2
  <2> QED BY <2>3 DEF p
<1> QED BY <1>1, <1>3, <1>4, <1>5

LEMMA AgedKeeps ==
  ASSUME ShownNow \in {0, Screen}, NEW a \in Address
  PROVE  /\ a - ShownNow \in 0..(Screen - 1) => Aged[a] = <<<<"shown">>, 0, 0>>
         /\ a >= 2 * Screen => Aged[a] = <<<<"objects">>, 0, 0>>
<1>1. a \in Int /\ Screen \in Nat
  BY Lines1 DEF Address
<1>2. a >= 2 * Screen => ~(a - ShownNow \in 0..(Screen - 1))
  BY <1>1
<1>3. Aged[a] = CASE a - ShownNow \in 0..(Screen - 1) -> <<<<"shown">>, 0, 0>>
                  [] a >= 2 * Screen -> <<<<"objects">>, 0, 0>>
                  [] OTHER -> <<<<"old">>, 0, 0>>
  BY DEF Aged
<1> QED BY <1>2, <1>3

LEMMA InitUnseen ==
  ASSUME Init
  PROVE  Unseen
<1>1. Placed
  BY Sizes DEF Init, Placed, H
<1>2. start \in [low : {0}, high : Int] /\ ShownNow = 0 /\ Line(curr_y) = 0
  <2>1. start = [low |-> 0, high |-> 0] /\ curr_y = 0
    BY DEF Init
  <2>2. 0 + 0 * START_LOW = 0
    BY Sizes
  <2> QED BY <2>1, <2>2, Lines1 DEF ShownNow
<1>3. Kept
  BY <1>2, AgedKeeps DEF Init, Kept
<1>4. bank = curr_page
  BY DEF Init, vga_set_page
<1>5. pc = "rest" /\ engine = Idle
  BY DEF Init
<1> QED BY <1>1, <1>2, <1>3, <1>4, <1>5 DEF Unseen, Steps, EngineInHalf, HalfShown

LEMMA ShownIsHalf ==
  ASSUME Unseen
  PROVE  ShownNow \in {0, Screen}
<1>1. Line(curr_y) \in {0, Screen} /\ Screen \in Nat
  BY HalfLine, Lines1 DEF Unseen
<1> QED BY <1>1 DEF Unseen, HalfShown

LEMMA SameAddresses ==
  ASSUME UNCHANGED <<curr_y, start>>
  PROVE  Line(curr_y)' = Line(curr_y) /\ ShownNow' = ShownNow
  BY DEF Line, ShownNow

LEMMA RestUnseen ==
  ASSUME Unseen,
         \/ gui_render_begins \/ render_desktop \/ vga_accel_sync
         \/ set_start_low \/ set_start_high \/ EngineFinishes
         \/ \E terminal \in {NULL, 1}, pressed \in BOOLEAN : TimePasses(terminal, pressed)
         \/ \E x \in Positions.x, y \in Positions.y : WindowAt([x |-> x, y |-> y])
         \/ UNCHANGED vars
  PROVE  Unseen'
<1> USE DEF frameVars, pageVars
<1>0. /\ Placed /\ pc \in Steps /\ bank = curr_page /\ EngineInHalf /\ HalfShown /\ Kept
      /\ ShownNow \in {0, Screen} /\ Line(curr_y) \in {0, Screen} /\ Screen \in Nat
  BY ShownIsHalf, HalfLine, Lines1 DEF Unseen
<1>1. CASE gui_render_begins
  <2>1. /\ pc = "rest" /\ pc' = "desktop" /\ curr_y' = H - curr_y
        /\ UNCHANGED <<window_stack, curr_page, bank, engine, start, vram>>
    BY <1>1 DEF gui_render_begins, H
  <2>2. curr_y \in {0, H} /\ H \in Nat /\ H - H = 0 /\ H - 0 = H
    BY <1>0, Sizes DEF Placed
  <2>3. Placed'
    BY <1>0, <2>1, <2>2 DEF Placed, H
  <2>4. Line(curr_y') = Screen - Line(curr_y)
    BY <2>1, <2>2, Lines1, LineSum
  <2>5. ShownNow' = ShownNow /\ ShownNow = Line(curr_y) /\ start' \in [low : {0}, high : Int]
    BY <1>0, <2>1 DEF ShownNow, HalfShown
  <2>6. ShownNow' = Screen - Line(curr_y')
    BY <1>0, <2>4, <2>5
  <2>7. HalfShown'
    BY <2>1, <2>5, <2>6 DEF HalfShown, Line
  <2>8. Kept' /\ engine' = Idle
    BY <1>0, <2>1, <2>5 DEF Kept, EngineInHalf
  <2> QED BY <1>0, <2>1, <2>3, <2>7, <2>8 DEF Unseen, Steps, EngineInHalf, Idle
<1>2. CASE render_desktop
  <2>1. /\ pc = "desktop" /\ pc' = "button"
        /\ UNCHANGED <<window_stack, curr_y, engine, start>>
    BY <1>2 DEF render_desktop
  <2>2. /\ bank' = curr_page'
        /\ \A a \in Address : vram'[a] = vram[a] \/ a \in Half
    BY <1>0, <1>2, DesktopDrawn
  <2>3. Placed' /\ ShownNow' = ShownNow /\ Line(curr_y)' = Line(curr_y)
    BY <1>0, <2>1, SamePlaces, SameAddresses
  <2>4. ShownNow = Screen - Line(curr_y)
    BY <1>0, <2>1 DEF HalfShown
  <2>5. Kept'
    BY <1>0, <2>1, <2>2, <2>3, <2>4, KeptOutside
  <2>6. engine' = Idle
    BY <1>0, <2>1 DEF EngineInHalf
  <2>7. HalfShown'
    BY <1>0, <2>1, <2>3, <2>4 DEF HalfShown
  <2> QED BY <2>1, <2>2, <2>3, <2>5, <2>6, <2>7 DEF Unseen, Steps, EngineInHalf, Idle
<1>3. CASE vga_accel_sync
  <2>1. /\ pc = "sync" /\ pc' = "start_low" /\ engine = Idle
        /\ UNCHANGED <<window_stack, curr_y, curr_page, bank, engine, start, vram>>
    BY <1>3 DEF vga_accel_sync
  <2>2. Placed' /\ ShownNow' = ShownNow /\ Line(curr_y)' = Line(curr_y)
    BY <1>0, <2>1, SamePlaces, SameAddresses
  <2>3. HalfShown' /\ Kept'
    BY <1>0, <2>1, <2>2 DEF HalfShown, Kept
  <2> QED BY <1>0, <2>1, <2>2, <2>3 DEF Unseen, Steps, EngineInHalf, Idle
<1>4. CASE set_start_low
  <2>1. /\ pc = "start_low" /\ pc' = "start_high" /\ engine = Idle
        /\ start' = [start EXCEPT !.low = StartAddress % START_LOW]
        /\ UNCHANGED <<window_stack, curr_y, curr_page, bank, engine, vram>>
    BY <1>0, <1>4 DEF set_start_low, EngineInHalf
  <2>2. start \in [low : {0}, high : Int] /\ StartAddress % START_LOW = 0
    BY <1>0, StartRegisters DEF HalfShown
  <2>3. start' = start
    BY <2>1, <2>2
  <2>4. Placed' /\ ShownNow' = ShownNow /\ Line(curr_y)' = Line(curr_y)
    BY <1>0, <2>1, <2>3, SamePlaces, SameAddresses
  <2>5. HalfShown' /\ Kept'
    BY <1>0, <2>1, <2>3, <2>4 DEF HalfShown, Kept
  <2> QED BY <1>0, <2>1, <2>4, <2>5 DEF Unseen, Steps, EngineInHalf, Idle
<1>5. CASE set_start_high
  <2>1. /\ pc = "start_high" /\ pc' = "shown" /\ engine = Idle
        /\ start' = [start EXCEPT !.high = StartAddress \div START_LOW]
        /\ UNCHANGED <<window_stack, curr_y, curr_page, bank, engine, vram>>
    BY <1>0, <1>5 DEF set_start_high, EngineInHalf
  <2>2. /\ start \in [low : {0}, high : Int] /\ StartAddress \div START_LOW \in Int
        /\ 0 + (StartAddress \div START_LOW) * START_LOW = Line(curr_y)
    BY <1>0, StartRegisters DEF HalfShown
  <2>3. /\ start'.low = 0 /\ start'.high = StartAddress \div START_LOW
        /\ start' \in [low : {0}, high : Int]
    BY <2>1, <2>2
  <2>4. ShownNow' = Line(curr_y)
    BY <2>2, <2>3 DEF ShownNow
  <2>5. Placed' /\ Line(curr_y)' = Line(curr_y)
    <3>1. Placed'
      BY <1>0, <2>1, SamePlaces
    <3> QED BY <2>1, <3>1 DEF Line
  <2>6. HalfShown' /\ Kept'
    BY <2>1, <2>3, <2>4, <2>5 DEF HalfShown, Kept
  <2> QED BY <1>0, <2>1, <2>5, <2>6 DEF Unseen, Steps, EngineInHalf, Idle
<1>6. CASE EngineFinishes
  <2>1. /\ engine # Idle /\ engine' = Idle /\ vram' = Copied(vram, engine)
        /\ UNCHANGED <<window_stack, curr_y, curr_page, bank, start, pc>>
    BY <1>6 DEF EngineFinishes
  <2>2. OnScreen(engine) /\ pc \notin {"rest", "desktop", "start_low", "start_high", "shown"}
    BY <1>0, <2>1 DEF EngineInHalf
  <2>3. \A a \in Address : vram'[a] = vram[a] \/ a \in Half
    <3> TAKE a \in Address
    <3>1. CASE Covers(engine, a)
      BY <1>0, <2>2, <3>1, CopiesStayInHalf
    <3>2. CASE ~Covers(engine, a)
      BY <2>1, <3>2, CopiedAt
    <3> QED BY <3>1, <3>2
  <2>4. Placed' /\ ShownNow' = ShownNow /\ Line(curr_y)' = Line(curr_y)
    BY <1>0, <2>1, SamePlaces, SameAddresses
  <2>5. ShownNow = Screen - Line(curr_y) /\ pc # "shown"
    BY <1>0, <2>2 DEF HalfShown
  <2>6. Kept'
    BY <1>0, <2>3, <2>4, <2>5, KeptOutside
  <2>7. HalfShown'
    BY <1>0, <2>1, <2>4 DEF HalfShown
  <2> QED BY <1>0, <2>1, <2>4, <2>6, <2>7 DEF Unseen, EngineInHalf, Idle
<1>7. ASSUME NEW terminal, NEW pressed, TimePasses(terminal, pressed) PROVE Unseen'
  <2>1. /\ pc = "shown" /\ pc' = "rest" /\ engine = Idle /\ vram' = Aged /\ window_stack' = <<>>
        /\ UNCHANGED <<curr_y, curr_page, bank, engine, start>>
    BY <1>0, <1>7 DEF TimePasses, EngineInHalf
  <2>2. ShownNow' = ShownNow /\ Line(curr_y)' = Line(curr_y)
    BY <2>1, SameAddresses
  <2>3. Placed'
    BY <1>0, <2>1 DEF Placed
  <2>4. HalfShown'
    BY <1>0, <2>1, <2>2 DEF HalfShown
  <2>5. Kept'
    BY <1>0, <2>1, <2>2, AgedKeeps DEF Kept
  <2> QED BY <1>0, <2>1, <2>3, <2>4, <2>5 DEF Unseen, Steps, EngineInHalf, Idle
<1>8. ASSUME NEW x \in Positions.x, NEW y \in Positions.y, WindowAt([x |-> x, y |-> y])
      PROVE  Unseen'
  <2>1. /\ window_stack' = Append(window_stack, [x |-> x, y |-> y])
        /\ UNCHANGED <<curr_y, curr_page, bank, engine, start, vram, pc>>
    BY <1>8 DEF WindowAt
  <2>2. ShownNow' = ShownNow /\ Line(curr_y)' = Line(curr_y)
    BY <2>1, SameAddresses
  <2>3. Placed'
    BY <1>0, <2>1 DEF Placed
  <2>4. HalfShown' /\ Kept'
    BY <1>0, <2>1, <2>2 DEF HalfShown, Kept
  <2>5. pc = "rest" /\ engine = Idle
    BY <1>0, <1>8 DEF WindowAt, EngineInHalf
  <2> QED BY <1>0, <2>1, <2>3, <2>4, <2>5 DEF Unseen, Steps, EngineInHalf, Idle
<1>9. CASE UNCHANGED vars
  <2>1. UNCHANGED <<window_stack, curr_y, curr_page, bank, engine, start, vram, pc>>
    BY <1>9 DEF vars
  <2>2. Placed' /\ ShownNow' = ShownNow /\ Line(curr_y)' = Line(curr_y)
        /\ (OnScreen(engine) => OnScreen(engine)')
    <3>1. Placed' /\ (\A op : OnScreen(op) => OnScreen(op)')
      BY <1>0, <2>1, SamePlaces
    <3>2. OnScreen(engine) => OnScreen(engine)'
      BY <2>1 DEF OnScreen, CopyTo, Line
    <3> QED BY <2>1, <3>1, <3>2, SameAddresses
  <2>3. HalfShown' /\ Kept'
    BY <1>0, <2>1, <2>2 DEF HalfShown, Kept
  <2> QED BY <1>0, <2>1, <2>2, <2>3 DEF Unseen, Steps, EngineInHalf, Idle
<1> QED BY <1>1, <1>2, <1>3, <1>4, <1>5, <1>6, <1>7, <1>8, <1>9

LEMMA StatusBarIsCopies ==
  ASSUME Placed
  PROVE  /\ Copies(ButtonOps) /\ ButtonOps \in Seq({ButtonOps[1]}) /\ Len(ButtonOps) = 1
         /\ Copies(ClockOps) /\ Len(time) \in Nat /\ Len(ClockOps) = Len(time)
         /\ ClockOps \in Seq({ClockOps[k] : k \in 1..Len(time)})
<1>0. 0 \in 0..(W - 1) /\ 0 \in Int
  BY Sizes
<1>1. ButtonOps \in Seq({ButtonOps[1]}) /\ Len(ButtonOps) = 1
  BY DEF ButtonOps
<1>2. OnScreen(ButtonOps[1])
  BY <1>0, TerminalButtonDrawn
<1>3. Copies(ButtonOps)
  BY <1>1, <1>2 DEF Copies
<1> DEFINE N == Len(time)
           T == {ClockOps[k] : k \in 1..N}
<1>4. N \in Nat /\ DOMAIN time = 1..N
  <2>1. time \in Seq(0..(FONT_HALF - 1))
    BY PlacesAssumption
  <2> QED BY <2>1, LenProperties
<1>5. ClockOps \in [1..N -> T]
  <2>1. ClockOps = [k \in 1..N |-> ClockOps[k]]
    BY <1>4 DEF ClockOps
  <2> HIDE DEF N
  <2> QED BY <2>1
<1>6. ClockOps \in Seq(T) /\ Len(ClockOps) = N
  <2> HIDE DEF N, T
  <2> QED BY <1>4, <1>5
<1>7. \A op \in T : OnScreen(op)
  <2>1. \A k \in 1..N : OnScreen(ClockOps[k])
    BY <1>0, ClockDrawn
  <2> QED BY <2>1
<1>8. Copies(ClockOps)
  <2> HIDE DEF T
  <2> QED BY <1>6, <1>7 DEF Copies
<1> QED BY <1>1, <1>3, <1>4, <1>6, <1>8

LowerOps(w) == Cells({w}) \o draw_window_border(window_stack[w], grey)

TopText == draw_terminal_content(1, 0, 0, TERMINAL_TEXT_COLS, TERMINAL_TEXT_ROWS)
TopOps  == TopText \o draw_window_border(window_stack[1], red)

\* A step of the pass that has nothing to draw.
LEMMA Nothing ==
  Copies(<<>>)
<1> DEFINE T == {}
<1>1. \A op \in T : OnScreen(op)
  OBVIOUS
<1> HIDE DEF T
<1>2. <<>> \in Seq(T)
  BY EmptySeq
<1> QED BY <1>1, <1>2 DEF Copies

LEMMA WindowNumbers ==
  ASSUME Placed
  PROVE  /\ Len(window_stack) \in Nat /\ DOMAIN window_stack = 1..Len(window_stack)
         /\ window_stack # <<>> => 1 \in DOMAIN window_stack
  BY LenProperties, EmptySeq DEF Placed

LEMMA LowerIsCopies ==
  ASSUME Placed, NEW w \in 2..Len(window_stack)
  PROVE  /\ w \in DOMAIN window_stack /\ LowerOps(w) = Cells({w}) \o Border(w)
         /\ Copies(LowerOps(w))
<1>1. w \in DOMAIN window_stack /\ w # 1
  BY WindowNumbers
<1>2. LowerOps(w) = Cells({w}) \o Border(w)
  BY <1>1 DEF LowerOps, Border, Close
<1>3. Copies(Cells({w})) /\ Copies(Border(w))
  BY <1>1, CellsAreCopies, BorderIsCopies
<1> QED BY <1>1, <1>2, <1>3, BothCopies

LEMMA TopIsCopies ==
  ASSUME Placed, window_stack # <<>>
  PROVE  /\ 1 \in DOMAIN window_stack /\ TopOps = TopText \o Border(1)
         /\ TopText \in Seq(Glyphs(1)) /\ Copies(TopOps)
         /\ \A row \in 0..(TERMINAL_TEXT_ROWS - 1), col \in 0..(TERMINAL_TEXT_COLS - 1) :
              IsEntry(TopText, Glyph(1, row, col))
<1>1. 1 \in DOMAIN window_stack
  BY WindowNumbers
<1>2. TopOps = TopText \o Border(1)
  BY DEF TopOps, Border, Close
<1>3. /\ TopText \in Seq(Glyphs(1))
      /\ \A row \in 0..(TERMINAL_TEXT_ROWS - 1), col \in 0..(TERMINAL_TEXT_COLS - 1) :
           IsEntry(TopText, Glyph(1, row, col))
  <2> DEFINE C == TERMINAL_TEXT_COLS
             R == TERMINAL_TEXT_ROWS
  <2>1. C \in Nat /\ R \in Nat /\ 0 \in Nat /\ 0 + C <= C /\ 0 + R <= R
        /\ 0 + R - 1 = R - 1 /\ 0 + C - 1 = C - 1
    BY Sizes
  <2>2. /\ TopText \in Seq(Glyphs(1))
        /\ \A row \in 0..(0 + R - 1), col \in 0..(0 + C - 1) :
             IsEntry(TopText, Glyph(1, row, col))
    BY <2>1, Content DEF TopText
  <2> HIDE DEF C, R
  <2> QED BY <2>1, <2>2 DEF C, R
<1>4. Copies(TopText) /\ Copies(Border(1))
  BY <1>1, <1>3, GlyphsAreCopies, BorderIsCopies DEF Copies
<1> QED BY <1>1, <1>2, <1>3, <1>4, BothCopies

LEMMA UnseenNext ==
  ASSUME Unseen, [Next]_vars
  PROVE  Unseen'
<1>0. Placed
  BY DEF Unseen
<1>1. CASE render_term_button
  <2>1. Draw("button", "clock", ButtonOps)
    BY <1>1 DEF render_term_button, ButtonOps
  <2> QED BY <1>0, <2>1, StatusBarIsCopies, DrawIsUnseen
<1>2. CASE render_clock
  <2>1. Draw("clock", "grid", ClockOps)
    BY <1>2 DEF render_clock, ClockOps
  <2> QED BY <1>0, <2>1, StatusBarIsCopies, DrawIsUnseen
<1>3. CASE render_cells
  <2>1. Draw("grid", "lower", Cells(DOMAIN window_stack))
    BY <1>3 DEF render_cells
  <2> QED BY <1>0, <2>1, CellsAreCopies, DrawIsUnseen
<1>4. CASE render_lower_window
  <2>1. CASE next \in 2..Len(window_stack)
    <3>1. Draw("lower", "lower", LowerOps(next))
      BY <1>4, <2>1 DEF render_lower_window, LowerOps
    <3> QED BY <1>0, <2>1, <3>1, LowerIsCopies, DrawIsUnseen
  <2>2. CASE next \notin 2..Len(window_stack)
    <3>1. \E to \in {"lower", "top"} : Draw("lower", to, <<>>)
      BY <1>4, <2>2 DEF render_lower_window
    <3> QED BY <3>1, Nothing, DrawIsUnseen
  <2> QED BY <2>1, <2>2
<1>5. CASE render_top_window
  <2>1. CASE window_stack = <<>>
    <3>1. Draw("top", "sync", <<>>)
      BY <1>5, <2>1 DEF render_top_window
    <3> QED BY <3>1, Nothing, DrawIsUnseen
  <2>2. CASE window_stack # <<>>
    <3>1. Draw("top", "sync", TopOps)
      BY <1>5, <2>2 DEF render_top_window, TopOps, TopText
    <3> QED BY <1>0, <2>2, <3>1, TopIsCopies, DrawIsUnseen
  <2> QED BY <2>1, <2>2
<1> QED BY <1>1, <1>2, <1>3, <1>4, <1>5, RestUnseen DEF Next

(***************************************************************************)
(* Until the start address is set, nothing of a frame is seen and no object *)
(* is drawn over: buttons, clock, cells and borders all go to the half of   *)
(* video memory that is not shown (gui_render, render_windows), the start   *)
(* address names a half after each register write of                        *)
(* cirrus_setdisplaystart, and the program does not touch video memory      *)
(* while blits can run (vga_accel.h:59).                                    *)
(***************************************************************************)
THEOREM FramesDrawnUnseen == Spec => []DrawsUnseen
<1>1. Init => Unseen
  BY InitUnseen
<1>2. Unseen /\ [Next]_vars => Unseen'
  BY UnseenNext
<1>3. Unseen => DrawsUnseen
  <2> HAVE Unseen
  <2>1. ShownNow \in {0, Screen}
    BY ShownIsHalf
  <2> QED BY <2>1 DEF Unseen, DrawsUnseen, EngineInHalf, Kept
<1> QED BY <1>1, <1>2, <1>3, PTL DEF Spec

-----------------------------------------------------------------------------
(***************************************************************************)
(* What the parts of a frame leave at a point.                              *)
(***************************************************************************)
Desktop(x, y) == <<<<"desktop">>, x, y>>

WithButton(x, y) ==
  IF OnTerminalButton(x, y) THEN TerminalButtonPixel(x, y) ELSE Desktop(x, y)

Background(x, y) == IF InClock(x, y) THEN ClockPixel(x, y) ELSE WithButton(x, y)

LEMMA ButtonLeaves ==
  ASSUME Placed, NEW x \in 0..(W - 1), NEW y \in 0..(H - 1), NEW d,
         Outcome(d, vram, ButtonOps, 1, Point(x, y)), vram[Point(x, y)] = Desktop(x, y)
  PROVE  d = WithButton(x, y)
<1>1. /\ Covers(ButtonOps[1], Point(x, y)) <=> OnTerminalButton(x, y)
      /\ OnTerminalButton(x, y) =>
           Source(ButtonOps[1], Point(x, y)) = TerminalButtonPixel(x, y)
  BY TerminalButtonDrawn
<1>2. \A k \in 1..1 : k = 1
  OBVIOUS
<1>3. CASE OnTerminalButton(x, y)
  <2>1. PICK k \in 1..1 : d = Source(ButtonOps[k], Point(x, y))
    BY <1>1, <1>2, <1>3 DEF Outcome
  <2> QED BY <1>1, <1>2, <1>3, <2>1 DEF WithButton
<1>4. CASE ~OnTerminalButton(x, y)
  <2>1. d = vram[Point(x, y)]
    BY <1>1, <1>2, <1>4 DEF Outcome
  <2> QED BY <1>4, <2>1 DEF WithButton
<1> QED BY <1>3, <1>4

LEMMA ClockLeaves ==
  ASSUME Placed, NEW x \in 0..(W - 1), NEW y \in 0..(H - 1), NEW d,
         Outcome(d, vram, ClockOps, Len(time), Point(x, y)),
         vram[Point(x, y)] = WithButton(x, y)
  PROVE  d = Background(x, y)
<1> DEFINE P == Point(x, y)
           N == Len(time)
<1>1. \A k \in 1..N : /\ Covers(ClockOps[k], P) <=> InClock(x, y) /\ k = CharAt(x) + 1
                      /\ Covers(ClockOps[k], P) => Source(ClockOps[k], P) = ClockPixel(x, y)
  BY ClockDrawn
<1>2. CASE InClock(x, y)
  <2>1. CharAt(x) + 1 \in 1..N
    <3>1. CharAt(x) \in 0..(N - 1) /\ N \in Nat
      BY <1>2, StatusBarIsCopies DEF InClock
    <3> QED BY <3>1
  <2>2. Covers(ClockOps[CharAt(x) + 1], P)
    BY <1>1, <1>2, <2>1
  <2>3. PICK k \in 1..N : Covers(ClockOps[k], P) /\ d = Source(ClockOps[k], P)
    BY <2>1, <2>2 DEF Outcome
  <2> QED BY <1>1, <1>2, <2>3 DEF Background
<1>3. CASE ~InClock(x, y)
  <2>1. d = vram[P]
    BY <1>1, <1>3 DEF Outcome
  <2> QED BY <1>3, <2>1 DEF Background
<1> QED BY <1>2, <1>3

LEMMA BodyInCover ==
  ASSUME Placed, NEW w \in DOMAIN window_stack, NEW x \in Int, NEW y \in Int,
         InBody(x, y, window_stack[w])
  PROVE  w \in CoveredBy(x, y)
<1> DEFINE win == window_stack[w]
<1>1. /\ win.x \in Nat /\ win.y \in Nat /\ TW \in Nat /\ TH \in Nat
      /\ LEFT_RIGHT_MARGIN \in Nat /\ TITLE_BAR_HEIGHT \in Nat /\ DOWN_MARGIN \in Nat
  BY Window, Sizes
<1>2. x >= win.x /\ x < win.x + TW /\ y >= win.y /\ y < win.y + TH
  BY DEF InBody, TW, TH
<1>3. InCover(w, x, y)
  BY <1>1, <1>2 DEF InCover
<1> QED BY <1>3, CoverIs

LEMMA TextLeaves ==
  ASSUME Placed, NEW w \in DOMAIN window_stack, NEW op \in Glyphs(w),
         NEW x \in 0..(W - 1), NEW y \in 0..(H - 1), Covers(op, Point(x, y))
  PROVE  /\ InBody(x, y, window_stack[w]) /\ w \in CoveredBy(x, y)
         /\ Source(op, Point(x, y)) = InWindow(x, y, w)
<1>1. PICK row \in 0..(TERMINAL_TEXT_ROWS - 1), col \in 0..(TERMINAL_TEXT_COLS - 1) :
        op = Glyph(w, row, col)
  BY DEF Glyphs
<1>2. /\ InBody(x, y, window_stack[w])
      /\ Source(op, Point(x, y)) = BodyPixel(w, x, y)
  BY <1>1, TextCovers
<1>3. w \in CoveredBy(x, y)
  BY <1>2, BodyInCover
<1>4. BodyPixel(w, x, y) = InWindow(x, y, w)
  BY <1>2 DEF BodyPixel, InWindow, RowOf, ColOf
<1> QED BY <1>2, <1>3, <1>4

\* The entries of a window's text and of its border, one after the other.
LEMMA TextThenBorder ==
  ASSUME Placed, NEW w \in DOMAIN window_stack, NEW text \in Seq(Glyphs(w))
  PROVE  LET ops == text \o Border(w)
             t == Len(text)
         IN  /\ t \in Nat /\ Len(ops) = t + 7
             /\ \A k \in 1..t : ops[k] = text[k] /\ text[k] \in Glyphs(w)
             /\ \A k \in 1..7 : ops[t + k] = Border(w)[k]
<1> DEFINE S == Glyphs(w) \cup {Border(w)[k] : k \in 1..7}
           b == Border(w)
           ops == text \o b
           t == Len(text)
<1>1. text \in Seq(S) /\ b \in Seq(S) /\ Len(b) = 7
  <2>1. Glyphs(w) \subseteq S /\ {Border(w)[k] : k \in 1..7} \subseteq S
    OBVIOUS
  <2>2. Border(w) \in Seq({Border(w)[k] : k \in 1..7}) /\ Len(Border(w)) = 7
    BY BorderIsCopies
  <2> HIDE DEF S
  <2> QED BY <2>1, <2>2, SeqMonotonic
<1> HIDE DEF S, b
<1>2. /\ Len(ops) = Len(text) + Len(b)
      /\ \A i \in 1..(Len(text) + Len(b)) :
           ops[i] = IF i <= Len(text) THEN text[i] ELSE b[i - Len(text)]
  BY <1>1, ConcatProperties
<1>3. t \in Nat /\ \A k \in 1..t : text[k] \in Glyphs(w)
  <2>1. text \in [1..t -> Glyphs(w)] /\ t \in Nat
    BY LenProperties
  <2> HIDE DEF t
  <2> QED BY <2>1
<1> HIDE DEF ops
<1>4. Len(ops) = t + 7 /\ \A i \in 1..(t + 7) : ops[i] = IF i <= t THEN text[i] ELSE b[i - t]
  BY <1>1, <1>2
<1> HIDE DEF t
<1>5. \A k \in 1..t : ops[k] = text[k]
  BY <1>3, <1>4
<1>6. ASSUME NEW k \in 1..7 PROVE ops[t + k] = b[k]
  <2>1. t + k \in 1..(t + 7) /\ ~(t + k <= t) /\ (t + k) - t = k
    BY <1>3
  <2> QED BY <1>4, <2>1
<1> QED BY <1>3, <1>4, <1>5, <1>6 DEF ops, t, b

LEMMA WindowLeaves ==
  ASSUME Placed, NEW w \in DOMAIN window_stack, NEW text \in Seq(Glyphs(w)),
         NEW x \in 0..(W - 1), NEW y \in 0..(H - 1), NEW d,
         Outcome(d, vram, text \o Border(w), Len(text \o Border(w)), Point(x, y)),
         InBody(x, y, window_stack[w]) =>
           \E op \in Glyphs(w) : Covers(op, Point(x, y)) /\ IsEntry(text, op)
  PROVE  d = IF w \in CoveredBy(x, y) THEN InWindow(x, y, w) ELSE vram[Point(x, y)]
<1> DEFINE P == Point(x, y)
           b == Border(w)
           ops == text \o b
           t == Len(text)
<1>0. y \in Int
  OBVIOUS
<1>1. /\ t \in Nat /\ Len(ops) = t + 7
      /\ \A k \in 1..t : ops[k] = text[k] /\ text[k] \in Glyphs(w)
      /\ \A k \in 1..7 : ops[t + k] = b[k]
  BY TextThenBorder
<1>2. /\ \A k \in 1..7 : Covers(b[k], P) => w \in CoveredBy(x, y) /\ ~InBody(x, y, window_stack[w])
      /\ w \in CoveredBy(x, y) /\ ~InBody(x, y, window_stack[w]) =>
           \E k \in 1..7 : /\ Covers(b[k], P) /\ Source(b[k], P) = InWindow(x, y, w)
                           /\ \A j \in (k + 1)..7 : ~Covers(b[j], P)
  BY <1>0, BorderCovers, CoverIs
<1>3. Outcome(d, vram, ops, t + 7, P)
  BY <1>1
<1>4. \A op \in Glyphs(w) : Covers(op, P) => /\ InBody(x, y, window_stack[w])
                                             /\ w \in CoveredBy(x, y)
                                             /\ Source(op, P) = InWindow(x, y, w)
  BY TextLeaves
<1>5. InBody(x, y, window_stack[w]) => \E k \in 1..t : Covers(text[k], P)
  BY DEF IsEntry
<1> HIDE DEF ops, t, P, b
<1>6. \A i \in 1..(t + 7) : i \in 1..t \/ \E k \in 1..7 : i = t + k
  <2> TAKE i \in 1..(t + 7)
  <2>0. t \in Nat
    BY <1>1
  <2>1. i \in 1..t \/ (i - t \in 1..7 /\ i = t + (i - t))
    BY <2>0
  <2> QED BY <2>1
<1>7. CASE w \notin CoveredBy(x, y)
  <2>1. \A i \in 1..(t + 7) : ~Covers(ops[i], P)
    <3>1. \A k \in 1..t : ~Covers(ops[k], P)
      BY <1>1, <1>4, <1>7
    <3>2. \A k \in 1..7 : ~Covers(ops[t + k], P)
      BY <1>1, <1>2, <1>7
    <3> QED BY <1>6, <3>1, <3>2
  <2> QED BY <1>3, <1>7, <2>1 DEF Outcome, P
<1>8. CASE w \in CoveredBy(x, y) /\ InBody(x, y, window_stack[w])
  <2>1. PICK k \in 1..t : Covers(ops[k], P)
    BY <1>1, <1>5, <1>8
  <2>2. k \in 1..(t + 7)
    <3>1. t \in Nat
      BY <1>1
    <3> QED BY <3>1
  <2>3. PICK i \in 1..(t + 7) : Covers(ops[i], P) /\ d = Source(ops[i], P)
    BY <1>3, <2>1, <2>2 DEF Outcome
  <2>4. i \in 1..t
    <3>1. \A k1 \in 1..7 : ~Covers(ops[t + k1], P)
      BY <1>1, <1>2, <1>8
    <3> QED BY <1>6, <2>3, <3>1
  <2> QED BY <1>1, <1>4, <1>8, <2>3, <2>4
<1>9. CASE w \in CoveredBy(x, y) /\ ~InBody(x, y, window_stack[w])
  <2>1. PICK k \in 1..7 : /\ Covers(b[k], P) /\ Source(b[k], P) = InWindow(x, y, w)
                          /\ \A j \in (k + 1)..7 : ~Covers(b[j], P)
    BY <1>2, <1>9
  <2>2. t + k \in 1..(t + 7) /\ Covers(ops[t + k], P)
    <3>1. t \in Nat
      BY <1>1
    <3>2. t + k \in 1..(t + 7)
      BY <3>1
    <3>3. ops[t + k] = b[k]
      BY <1>1
    <3> QED BY <2>1, <3>2, <3>3
  <2>3. PICK i \in 1..(t + 7) : /\ Covers(ops[i], P) /\ d = Source(ops[i], P)
                                /\ \A j \in (i + 1)..(t + 7) : ~Covers(ops[j], P)
    BY <1>3, <2>2 DEF Outcome
  <2>4. PICK m \in 1..7 : i = t + m
    BY <1>1, <1>4, <1>6, <1>9, <2>3
  <2>5. m <= k
    <3>1. Covers(b[m], P)
      BY <1>1, <2>3, <2>4
    <3>2. m \notin (k + 1)..7
      BY <2>1, <3>1
    <3> QED BY <3>2
  <2>6. k <= m
    <3>1. t + k \notin (i + 1)..(t + 7)
      BY <2>2, <2>3
    <3> QED BY <1>1, <2>4, <3>1
  <2>7. m = k
    BY <2>5, <2>6
  <2> QED BY <1>1, <1>9, <2>1, <2>3, <2>4, <2>7
<1> QED BY <1>7, <1>8, <1>9

(***************************************************************************)
(* d is what a point has when the windows below a level have been drawn.    *)
(***************************************************************************)
PointPainted(x, y, d, level) ==
  /\ CoveredBy(x, y) = {} => d = Background(x, y)
  /\ \A v \in CoveredBy(x, y) :
       v > level /\ (\A u \in CoveredBy(x, y) : v <= u)
         => Seam(x) \/ d = InWindow(x, y, v)

LEMMA CellsLeave ==
  ASSUME Placed, NEW x \in 0..(W - 1), NEW y \in 0..(H - 1), NEW d,
         Len(window_stack) <= GUI_MAX_WINDOW_NUM,
         LET ops == Cells(DOMAIN window_stack)
         IN  Outcome(d, vram, ops, Len(ops), Point(x, y)),
         vram[Point(x, y)] = Background(x, y)
  PROVE  PointPainted(x, y, d, GUI_MAX_WINDOW_NUM)
<1> DEFINE ops == Cells(DOMAIN window_stack)
           T == UNION {Glyphs(w) : w \in DOMAIN window_stack}
           P == Point(x, y)
<1>1. ops \in Seq(T)
  BY CellsOps
<1>2. \A k \in 1..Len(ops) : ops[k] \in T
  <2>1. ops \in [1..Len(ops) -> T]
    <3> HIDE DEF ops, T
    <3> QED BY <1>1, LenProperties
  <2> HIDE DEF ops, T
  <2> QED BY <2>1
<1>3. \A v \in CoveredBy(x, y) : ~(v > GUI_MAX_WINDOW_NUM)
  <2> TAKE v \in CoveredBy(x, y)
  <2>1. v \in 1..Len(window_stack) /\ Len(window_stack) \in Nat
    BY WindowNumbers DEF CoveredBy
  <2> QED BY <2>1, Sizes
<1>4. CASE CoveredBy(x, y) = {}
  <2>1. ASSUME NEW k \in 1..Len(ops), Covers(ops[k], P) PROVE FALSE
    <3>1. PICK w \in DOMAIN window_stack : ops[k] \in Glyphs(w)
      BY <1>2
    <3> HIDE DEF ops
    <3>2. w \in CoveredBy(x, y)
      BY <2>1, <3>1, TextLeaves
    <3> QED BY <1>4, <3>2
  <2>2. Outcome(d, vram, ops, Len(ops), P)
    OBVIOUS
  <2> HIDE DEF ops
  <2>3. d = vram[P]
    BY <2>1, <2>2 DEF Outcome
  <2> QED BY <1>3, <2>3 DEF PointPainted
<1>5. CASE CoveredBy(x, y) # {}
  BY <1>3, <1>5 DEF PointPainted
<1> QED BY <1>4, <1>5

LEMMA WindowPaints ==
  ASSUME Placed, NEW w \in DOMAIN window_stack, NEW text \in Seq(Glyphs(w)),
         NEW x \in 0..(W - 1), NEW y \in 0..(H - 1), NEW d,
         Outcome(d, vram, text \o Border(w), Len(text \o Border(w)), Point(x, y)),
         InBody(x, y, window_stack[w]) /\ ~Seam(x) /\ (\A u \in CoveredBy(x, y) : w <= u) =>
           \E op \in Glyphs(w) : Covers(op, Point(x, y)) /\ IsEntry(text, op),
         PointPainted(x, y, vram[Point(x, y)], w)
  PROVE  PointPainted(x, y, d, w - 1)
<1>0. x \in Int /\ y \in Int /\ w \in Int
  BY Window
<1>1. \A v \in CoveredBy(x, y) : v \in Int
  BY Window DEF CoveredBy
<1>2. CASE w \notin CoveredBy(x, y)
  <2>1. ~InBody(x, y, window_stack[w])
    BY <1>0, <1>2, BodyInCover
  <2>2. d = vram[Point(x, y)]
    BY <1>2, <2>1, WindowLeaves
  <2>3. \A v \in CoveredBy(x, y) : v > w - 1 => v > w
    BY <1>0, <1>1, <1>2
  <2> QED BY <2>2, <2>3 DEF PointPainted
<1>3. CASE w \in CoveredBy(x, y)
  <2>1. ASSUME NEW v \in CoveredBy(x, y), v > w - 1, \A u \in CoveredBy(x, y) : v <= u
        PROVE  Seam(x) \/ d = InWindow(x, y, v)
    <3>1. v = w
      BY <1>0, <1>1, <1>3, <2>1
    <3>2. CASE ~Seam(x)
      <4>1. d = InWindow(x, y, w)
        BY <1>3, <2>1, <3>1, <3>2, WindowLeaves
      <4> QED BY <3>1, <4>1
    <3> QED BY <3>2
  <2> QED BY <1>3, <2>1 DEF PointPainted
<1> QED BY <1>2, <1>3

LEMMA GlyphHere ==
  ASSUME Placed, NEW w \in DOMAIN window_stack, NEW x \in 0..(W - 1), NEW y \in 0..(H - 1),
         InBody(x, y, window_stack[w]), RowOf(w, y) \in 0..(TERMINAL_TEXT_ROWS - 1),
         ColOf(w, x) \in 0..(TERMINAL_TEXT_COLS - 1)
  PROVE  LET op == Glyph(w, RowOf(w, y), ColOf(w, x))
         IN  op \in Glyphs(w) /\ Covers(op, Point(x, y))
<1>1. y \in Int
  OBVIOUS
<1>2. Covers(Glyph(w, RowOf(w, y), ColOf(w, x)), Point(x, y))
  BY <1>1, TextCovers
<1>3. Glyph(w, RowOf(w, y), ColOf(w, x)) \in Glyphs(w)
  BY DEF Glyphs
<1> QED BY <1>2, <1>3

LEMMA LowerLeaves ==
  ASSUME Placed, NEW w \in 2..Len(window_stack),
         NEW x \in 0..(W - 1), NEW y \in 0..(H - 1), NEW d,
         Outcome(d, vram, LowerOps(w), Len(LowerOps(w)), Point(x, y)),
         PointPainted(x, y, vram[Point(x, y)], w)
  PROVE  PointPainted(x, y, d, w - 1)
<1>1. w \in DOMAIN window_stack /\ LowerOps(w) = Cells({w}) \o Border(w)
  BY LowerIsCopies
<1>2. Cells({w}) \in Seq(Glyphs(w))
  <2>1. Cells({w}) \in Seq(UNION {Glyphs(u) : u \in {w}})
    BY <1>1, CellsOps
  <2>2. UNION {Glyphs(u) : u \in {w}} = Glyphs(w)
    OBVIOUS
  <2> QED BY <2>1, <2>2
<1>3. ASSUME InBody(x, y, window_stack[w]), ~Seam(x), \A u \in CoveredBy(x, y) : w <= u
      PROVE  \E op \in Glyphs(w) : Covers(op, Point(x, y)) /\ IsEntry(Cells({w}), op)
  <2>1. /\ RowOf(w, y) \in 0..(TERMINAL_TEXT_ROWS - 1)
        /\ ColOf(w, x) \in 0..(TERMINAL_TEXT_COLS - 1)
        /\ IsEntry(Cells({w}), Glyph(w, RowOf(w, y), ColOf(w, x)))
    <3>1. {w} \in SUBSET DOMAIN window_stack /\ w \in {w}
      BY <1>1
    <3> QED BY <1>3, <3>1, CharacterDrawn
  <2> QED BY <1>1, <1>3, <2>1, GlyphHere
<1> QED BY <1>1, <1>2, <1>3, WindowPaints

LEMMA TopLeaves ==
  ASSUME Placed, window_stack # <<>>, NEW x \in 0..(W - 1), NEW y \in 0..(H - 1), NEW d,
         Outcome(d, vram, TopOps, Len(TopOps), Point(x, y)),
         PointPainted(x, y, vram[Point(x, y)], 1)
  PROVE  PointPainted(x, y, d, 0)
<1>1. /\ 1 \in DOMAIN window_stack /\ TopOps = TopText \o Border(1)
      /\ TopText \in Seq(Glyphs(1)) /\ 1 - 1 = 0
      /\ \A row \in 0..(TERMINAL_TEXT_ROWS - 1), col \in 0..(TERMINAL_TEXT_COLS - 1) :
           IsEntry(TopText, Glyph(1, row, col))
  BY TopIsCopies
<1>2. ASSUME InBody(x, y, window_stack[1])
      PROVE  \E op \in Glyphs(1) : Covers(op, Point(x, y)) /\ IsEntry(TopText, op)
  <2>1. /\ RowOf(1, y) \in 0..(TERMINAL_TEXT_ROWS - 1)
        /\ ColOf(1, x) \in 0..(TERMINAL_TEXT_COLS - 1)
    <3> DEFINE win == window_stack[1]
    <3>1. /\ win.x \in Nat /\ win.y \in Nat /\ TW \in Nat /\ TH \in Nat
          /\ TW = TERMINAL_TEXT_COLS * FONT_WIDTH /\ TH = TERMINAL_TEXT_ROWS * FONT_HEIGHT
          /\ FONT_WIDTH \in Nat /\ FONT_WIDTH >= 1 /\ FONT_HEIGHT \in Nat /\ FONT_HEIGHT >= 1
          /\ TERMINAL_TEXT_COLS \in Nat /\ TERMINAL_TEXT_ROWS \in Nat
      BY <1>1, Window, Sizes
    <3> DEFINE dx == x - win.x
               dy == y - win.y
    <3>2. dx \in Nat /\ dx < TW /\ dy \in Nat /\ dy < TH
      <4>1. x >= win.x /\ x < win.x + TW /\ y >= win.y /\ y < win.y + TH
        BY <1>2 DEF InBody, TW, TH
      <4>2. win.x \in Int /\ win.y \in Int /\ TW \in Int /\ TH \in Int
        BY <3>1
      <4> DEFINE X == win.x
                 Y == win.y
      <4>3. X \in Int /\ Y \in Int /\ x >= X /\ x < X + TW /\ y >= Y /\ y < Y + TH
        BY <4>1, <4>2
      <4> HIDE DEF X, Y
      <4>0. x \in Int /\ y \in Int
        BY Sizes
      <4>4. x - X \in Nat /\ x - X < TW /\ y - Y \in Nat /\ y - Y < TH
        BY <4>0, <4>2, <4>3
      <4> QED BY <4>4 DEF X, Y
    <3> HIDE DEF dx, dy
    <3>3. dy \div FONT_HEIGHT \in 0..(TERMINAL_TEXT_ROWS - 1)
      BY <3>1, <3>2, Division
    <3>4. dx \div FONT_WIDTH \in 0..(TERMINAL_TEXT_COLS - 1)
      BY <3>1, <3>2, Division
    <3> QED BY <3>3, <3>4 DEF dx, dy, RowOf, ColOf
  <2> QED BY <1>1, <1>2, <2>1, GlyphHere
<1>3. PointPainted(x, y, d, 1 - 1)
  BY <1>1, <1>2, WindowPaints
<1> QED BY <1>1, <1>3

-----------------------------------------------------------------------------
(***************************************************************************)
(* The frame shown: the inductive invariant says of every step what has     *)
(* been drawn, the engine's copy included.                                  *)
(***************************************************************************)
Level == IF pc = "lower" THEN next ELSE IF pc = "top" THEN 1 ELSE 0

WindowSteps == {"lower", "top", "sync", "start_low", "start_high", "shown"}

Painted ==
  \A x \in 0..(W - 1), y \in 0..(H - 1) :
    /\ pc = "button" => Drawn(x, y) = Desktop(x, y)
    /\ pc = "clock" => Drawn(x, y) = WithButton(x, y)
    /\ pc = "grid" => Drawn(x, y) = Background(x, y)
    /\ pc \in WindowSteps => PointPainted(x, y, Drawn(x, y), Level)

FrameInv ==
  /\ Unseen /\ Painted
  /\ Len(window_stack) <= GUI_MAX_WINDOW_NUM /\ next \in Nat
  /\ pc = "shown" => mapping = running_term

\* The clock is right of the button, so the order of the two does not matter.
LEMMA BelongsIs ==
  ASSUME Placed, NEW x \in 0..(W - 1), NEW y \in 0..(H - 1), NEW d,
         PointPainted(x, y, d, 0)
  PROVE  Seam(x) \/ d = Belongs(x, y)
<1> DEFINE over == CoveredBy(x, y)
<1>1. CASE over = {}
  <2>1. d = Background(x, y)
    BY <1>1 DEF PointPainted
  <2>2. OnTerminalButton(x, y) => ~InClock(x, y)
    <3> DEFINE dx == x - CLOCK.x
               c == dx \div FONT_WIDTH
    <3>1. /\ TERMINAL_B.x \in Nat /\ TERMINAL_B.width \in Nat /\ CLOCK.x \in Nat
          /\ TERMINAL_B.x + TERMINAL_B.width <= CLOCK.x
      BY PlacesAssumption
    <3>2. OnTerminalButton(x, y) => dx \in Int /\ dx < 0
      BY <3>1 DEF OnTerminalButton
    <3>3. dx \in Int
      BY <3>1
    <3>4. FONT_WIDTH \in Nat /\ FONT_WIDTH >= 1
      BY Sizes
    <3> HIDE DEF dx
    <3>5. c \in Int /\ c * FONT_WIDTH <= dx /\ dx < c * FONT_WIDTH + FONT_WIDTH
      <4>1. c \in Int
        BY <3>3, <3>4, Quotient
      <4> QED BY <3>3, <3>4, <4>1, RoundedDown
    <3>6. c >= 0 => c * FONT_WIDTH >= 0
      <4> HIDE DEF c
      <4> QED BY <3>4, <3>5
    <3>7. c >= 0 => dx >= 0
      <4> DEFINE p == c * FONT_WIDTH
      <4>1. p <= dx /\ (c >= 0 => p >= 0) /\ p \in Int
        <5>1. p \in Int
          <6> HIDE DEF c
          <6> QED BY <3>4, <3>5
        <5> QED BY <3>5, <3>6, <5>1
      <4> HIDE DEF p, c
      <4> QED BY <3>3, <4>1
    <3>8. InClock(x, y) => c >= 0
      BY DEF InClock, CharAt, dx
    <3> HIDE DEF c
    <3> QED BY <3>2, <3>7, <3>8
  <2>3. Background(x, y) = Belongs(x, y)
    <3>1. Belongs(x, y) = CASE OnTerminalButton(x, y) -> TerminalButtonPixel(x, y)
                            [] InClock(x, y) -> ClockPixel(x, y)
                            [] OTHER -> Desktop(x, y)
      BY <1>1 DEF Belongs, OnTerminalButton, TerminalButtonPixel, InClock, CharAt, ClockPixel,
                  Desktop
    <3> QED BY <2>2, <3>1 DEF Background, WithButton
  <2> QED BY <2>1, <2>3
<1>2. CASE over # {}
  <2>1. over \subseteq Nat \ {0}
    BY WindowNumbers DEF CoveredBy
  <2>2. PICK v \in over : \A u \in over : v <= u
    <3> HIDE DEF over
    <3> QED BY <1>2, <2>1, LeastNat
  <2> DEFINE w == CHOOSE w \in over : \A u \in over : w <= u
  <2>3. w \in over /\ \A u \in over : w <= u
    BY <2>2
  <2>4. Belongs(x, y) = InWindow(x, y, w)
    BY <1>2 DEF Belongs
  <2>5. w > 0
    BY <2>1, <2>3
  <2> HIDE DEF w
  <2> QED BY <2>3, <2>4, <2>5 DEF PointPainted
<1> QED BY <1>1, <1>2

LEMMA FrameInvShows ==
  ASSUME FrameInv
  PROVE  FrameShown
<1> SUFFICES ASSUME pc = "shown" PROVE FrameShown
  BY DEF FrameShown
<1>1. Placed /\ engine = Idle /\ ShownNow = Line(curr_y) /\ mapping = running_term
  BY DEF FrameInv, Unseen, EngineInHalf, HalfShown
<1>2. ASSUME NEW x \in 0..(W - 1), NEW y \in 0..(H - 1)
      PROVE  Seam(x) \/ vram[ShownNow + y * VGA_WIDTH + x] = Belongs(x, y)
  <2>1. Point(x, y) \in Address
    BY <1>1, PointOfHalf DEF Half
  <2>2. Drawn(x, y) = vram[Point(x, y)]
    BY <1>1, <2>1, IdleCopies DEF Drawn
  <2>3. PointPainted(x, y, Drawn(x, y), 0)
    BY DEF FrameInv, Painted, WindowSteps, Level
  <2>4. ShownNow + y * VGA_WIDTH + x = Point(x, y)
    <3>1. y \in Int /\ curr_y \in Int /\ x \in Int
      BY <1>1, HalfLine
    <3>2. Line(y + curr_y) = Line(y) + Line(curr_y) /\ Line(y) \in Int /\ Line(curr_y) \in Int
      BY <3>1, LineSum, Lines1
    <3>3. y * VGA_WIDTH = Line(y) /\ Point(x, y) = Line(y + curr_y) + x
      BY DEF Line, Point
    <3> QED BY <1>1, <3>1, <3>2, <3>3
  <2> QED BY <1>1, <2>2, <2>3, <2>4, BelongsIs
<1> QED BY <1>1, <1>2 DEF FrameShown, W, H

LEMMA InitFrame ==
  ASSUME Init
  PROVE  FrameInv
<1>1. Unseen
  BY InitUnseen
<1>2. window_stack = <<>> /\ next = 0 /\ pc = "rest"
  BY DEF Init
<1>3. Len(window_stack) <= GUI_MAX_WINDOW_NUM
  BY <1>2, Sizes
<1> QED BY <1>1, <1>2, <1>3 DEF FrameInv, Painted, WindowSteps

LEMMA SameWindows ==
  ASSUME UNCHANGED <<window_stack, gui_term_button_pressed>>, NEW x, NEW y
  PROVE  /\ CoveredBy(x, y)' = CoveredBy(x, y) /\ (Seam(x)' <=> Seam(x))
         /\ WithButton(x, y)' = WithButton(x, y) /\ Background(x, y)' = Background(x, y)
         /\ \A v : InWindow(x, y, v)' = InWindow(x, y, v)
<1>1. CoveredBy(x, y)' = CoveredBy(x, y)
  BY DEF CoveredBy
<1>2. Seam(x)' <=> Seam(x)
  BY DEF Seam
<1>3. WithButton(x, y)' = WithButton(x, y)
  BY DEF WithButton, OnTerminalButton, TerminalButtonPixel, Desktop
<1>4. Background(x, y)' = Background(x, y)
  BY <1>3 DEF Background, InClock, ClockPixel, CharAt
<1>5. ASSUME NEW v PROVE InWindow(x, y, v)' = InWindow(x, y, v)
  BY DEF InWindow, InBody, Text
<1> QED BY <1>1, <1>2, <1>3, <1>4, <1>5

\* A step leads to a state in which the windows are painted.
LEMMA PaintedNext ==
  ASSUME UNCHANGED <<window_stack, gui_term_button_pressed>>, pc' \in WindowSteps,
         \A x \in 0..(W - 1), y \in 0..(H - 1) : PointPainted(x, y, Drawn(x, y)', Level')
  PROVE  Painted'
<1>1. ASSUME NEW x \in 0..(W - 1), NEW y \in 0..(H - 1)
      PROVE  PointPainted(x, y, Drawn(x, y), Level)'
  <2>1. PointPainted(x, y, Drawn(x, y)', Level')
    OBVIOUS
  <2>2. /\ CoveredBy(x, y) = {} => Drawn(x, y)' = Background(x, y)
        /\ \A v \in CoveredBy(x, y) :
             v > Level' /\ (\A u \in CoveredBy(x, y) : v <= u)
               => Seam(x) \/ Drawn(x, y)' = InWindow(x, y, v)
    BY <2>1 DEF PointPainted
  <2> QED BY <2>2, SameWindows DEF PointPainted
<1>2. pc' \notin {"button", "clock", "grid"}
  BY DEF WindowSteps
<1> QED BY <1>1, <1>2 DEF Painted

LEMMA DrawnNext ==
  ASSUME Unseen, NEW ops, Copies(ops), NEW from, NEW to, Draw(from, to, ops),
         NEW x \in 0..(W - 1), NEW y \in 0..(H - 1)
  PROVE  /\ Outcome(Drawn(x, y)', vram, ops, Len(ops), Point(x, y))
         /\ vram[Point(x, y)] = Drawn(x, y)
         /\ ops = <<>> => Drawn(x, y)' = Drawn(x, y)
<1>1. Placed /\ engine = Idle /\ vga_screen_copy(ops) /\ curr_y' = curr_y
  BY DEF Unseen, Draw, vga_screen_copy
<1>2. Point(x, y) \in Address
  BY <1>1, PointOfHalf DEF Half
<1>3. vram[Point(x, y)] = Drawn(x, y)
  BY <1>1, <1>2, IdleCopies DEF Drawn
<1>4. Drawn(x, y)' = Copied(vram', engine')[Point(x, y)]
  BY <1>1 DEF Drawn, Point, Line, Copied
<1>5. PICK T : ops \in Seq(T)
  BY DEF Copies
<1>6. Outcome(Copied(vram', engine')[Point(x, y)], vram, ops, Len(ops), Point(x, y))
  BY <1>1, <1>2, <1>5, DrawnLater
<1>7. ops = <<>> => Drawn(x, y)' = Drawn(x, y)
  BY <1>1, <1>4 DEF vga_screen_copy, Drawn
<1> QED BY <1>3, <1>4, <1>6, <1>7

LEMMA DesktopPainted ==
  ASSUME Unseen, render_desktop
  PROVE  Painted'
<1>1. Placed /\ bank = curr_page /\ engine = Idle /\ engine' = Idle
      /\ curr_y' = curr_y /\ pc' = "button"
  BY DEF Unseen, EngineInHalf, render_desktop
<1>2. ASSUME NEW x \in 0..(W - 1), NEW y \in 0..(H - 1)
      PROVE  Drawn(x, y)' = Desktop(x, y)
  <2>1. Point(x, y) \in Half /\ Point(x, y) - Line(curr_y) = Line(y) + x
    BY <1>1, PointOfHalf
  <2>2. Point(x, y) \in Address
    BY <2>1 DEF Half
  <2>3. vram'[Point(x, y)] = DesktopAt(Line(y) + x)
    BY <1>1, <2>1, <2>2, DesktopDrawn
  <2>4. DesktopAt(Line(y) + x) = Desktop(x, y)
    <3>1. y \in Int
      OBVIOUS
    <3> QED BY <3>1, Columns DEF DesktopAt, Desktop
  <2>5. Drawn(x, y)' = Copied(vram', Idle)[Point(x, y)]
    BY <1>1 DEF Drawn, Point, Line, Copied
  <2> QED BY <2>2, <2>3, <2>4, <2>5, IdleCopies
<1> QED BY <1>1, <1>2 DEF Painted, WindowSteps, Desktop

LEMMA StatusBarPainted ==
  ASSUME Unseen, Painted, render_term_button \/ render_clock
  PROVE  Painted'
<1>0. Placed /\ UNCHANGED <<window_stack, gui_term_button_pressed>>
  BY DEF Unseen, render_term_button, render_clock, Draw, frameVars
<1>1. CASE render_term_button
  <2>1. Draw("button", "clock", ButtonOps) /\ pc = "button" /\ pc' = "clock"
    BY <1>1 DEF render_term_button, ButtonOps, Draw
  <2>2. ASSUME NEW x \in 0..(W - 1), NEW y \in 0..(H - 1)
        PROVE  Drawn(x, y)' = WithButton(x, y)'
    <3>1. /\ Outcome(Drawn(x, y)', vram, ButtonOps, 1, Point(x, y))
          /\ vram[Point(x, y)] = Drawn(x, y)
      BY <1>0, <2>1, DrawnNext, StatusBarIsCopies
    <3>2. Drawn(x, y) = Desktop(x, y)
      BY <2>1 DEF Painted
    <3>3. Drawn(x, y)' = WithButton(x, y)
      BY <1>0, <3>1, <3>2, ButtonLeaves
    <3> QED BY <1>0, <3>3, SameWindows
  <2> QED BY <2>1, <2>2 DEF Painted, WindowSteps
<1>2. CASE render_clock
  <2>1. Draw("clock", "grid", ClockOps) /\ pc = "clock" /\ pc' = "grid"
    BY <1>2 DEF render_clock, ClockOps, Draw
  <2>2. ASSUME NEW x \in 0..(W - 1), NEW y \in 0..(H - 1)
        PROVE  Drawn(x, y)' = Background(x, y)'
    <3>1. /\ Outcome(Drawn(x, y)', vram, ClockOps, Len(time), Point(x, y))
          /\ vram[Point(x, y)] = Drawn(x, y)
      BY <1>0, <2>1, DrawnNext, StatusBarIsCopies
    <3>2. Drawn(x, y) = WithButton(x, y)
      BY <2>1 DEF Painted
    <3>3. Drawn(x, y)' = Background(x, y)
      BY <1>0, <3>1, <3>2, ClockLeaves
    <3> QED BY <1>0, <3>3, SameWindows
  <2> QED BY <2>1, <2>2 DEF Painted, WindowSteps
<1> QED BY <1>1, <1>2

LEMMA CellsPainted ==
  ASSUME FrameInv, render_cells
  PROVE  Painted' /\ next' \in Nat
<1>1. /\ Unseen /\ Placed /\ Painted /\ Len(window_stack) <= GUI_MAX_WINDOW_NUM
      /\ UNCHANGED <<window_stack, gui_term_button_pressed>>
      /\ pc = "grid" /\ pc' = "lower" /\ next' = GUI_MAX_WINDOW_NUM
      /\ Draw("grid", "lower", Cells(DOMAIN window_stack))
  BY DEF FrameInv, Unseen, render_cells, Draw, frameVars
<1>2. ASSUME NEW x \in 0..(W - 1), NEW y \in 0..(H - 1)
      PROVE  PointPainted(x, y, Drawn(x, y)', Level')
  <2> DEFINE ops == Cells(DOMAIN window_stack)
  <2>1. /\ Outcome(Drawn(x, y)', vram, ops, Len(ops), Point(x, y))
        /\ vram[Point(x, y)] = Drawn(x, y)
    <3>1. Copies(ops)
      BY <1>1, CellsAreCopies
    <3> QED BY <1>1, <3>1, DrawnNext
  <2>2. Drawn(x, y) = Background(x, y)
    BY <1>1 DEF Painted
  <2>3. PointPainted(x, y, Drawn(x, y)', GUI_MAX_WINDOW_NUM)
    BY <1>1, <2>1, <2>2, CellsLeave
  <2>4. Level' = GUI_MAX_WINDOW_NUM
    BY <1>1 DEF Level
  <2> QED BY <2>3, <2>4
<1>3. pc' \in WindowSteps
  BY <1>1 DEF WindowSteps
<1> QED BY <1>1, <1>2, <1>3, PaintedNext, Sizes

LEMMA LowerPainted ==
  ASSUME FrameInv, render_lower_window
  PROVE  Painted' /\ next' \in Nat
<1>1. /\ Unseen /\ Placed /\ Painted /\ next \in Nat /\ pc = "lower"
      /\ UNCHANGED <<window_stack, gui_term_button_pressed>>
      /\ pc' = (IF next > 1 THEN "lower" ELSE "top")
      /\ next' = (IF next > 1 THEN next - 1 ELSE next)
  BY DEF FrameInv, Unseen, render_lower_window, Draw, frameVars
<1>2. next' \in Nat /\ pc' \in WindowSteps /\ Level = next
      /\ Level' = (IF next > 1 THEN next - 1 ELSE 1)
  BY <1>1 DEF Level, WindowSteps
<1>3. CASE next \in 2..Len(window_stack)
  <2>1. Draw("lower", "lower", LowerOps(next)) /\ next > 1
    BY <1>3 DEF render_lower_window, LowerOps
  <2>2. ASSUME NEW x \in 0..(W - 1), NEW y \in 0..(H - 1)
        PROVE  PointPainted(x, y, Drawn(x, y)', Level')
    <3> DEFINE ops == LowerOps(next)
    <3>1. Copies(ops)
      BY <1>1, <1>3, LowerIsCopies
    <3>2. /\ Outcome(Drawn(x, y)', vram, ops, Len(ops), Point(x, y))
          /\ vram[Point(x, y)] = Drawn(x, y)
      BY <1>1, <2>1, <3>1, DrawnNext
    <3>3. PointPainted(x, y, Drawn(x, y), next)
      BY <1>1, <1>2 DEF Painted, WindowSteps
    <3>4. PointPainted(x, y, Drawn(x, y)', next - 1)
      BY <1>1, <1>3, <3>2, <3>3, LowerLeaves
    <3> QED BY <1>2, <2>1, <3>4
  <2> QED BY <1>1, <1>2, <2>2, PaintedNext
<1>4. CASE next \notin 2..Len(window_stack)
  <2>1. \E to : Draw("lower", to, <<>>)
    BY <1>4 DEF render_lower_window
  <2>2. ASSUME NEW x \in 0..(W - 1), NEW y \in 0..(H - 1)
        PROVE  PointPainted(x, y, Drawn(x, y)', Level')
    <3>1. Drawn(x, y)' = Drawn(x, y)
      BY <1>1, <2>1, Nothing, DrawnNext
    <3>2. PointPainted(x, y, Drawn(x, y), next)
      BY <1>1, <1>2 DEF Painted, WindowSteps
    <3>3. \A v \in CoveredBy(x, y) : v > Level' => v > next
      <4> TAKE v \in CoveredBy(x, y)
      <4>1. v \in 1..Len(window_stack) /\ Len(window_stack) \in Nat
        BY <1>1, WindowNumbers DEF CoveredBy
      <4> QED BY <1>1, <1>2, <1>4, <4>1
    <3> QED BY <3>1, <3>2, <3>3 DEF PointPainted
  <2> QED BY <1>1, <1>2, <2>2, PaintedNext
<1> QED BY <1>2, <1>3, <1>4

LEMMA TopPainted ==
  ASSUME FrameInv, render_top_window
  PROVE  Painted'
<1>1. /\ Unseen /\ Placed /\ Painted /\ pc = "top" /\ pc' = "sync"
      /\ UNCHANGED <<window_stack, gui_term_button_pressed>>
  BY DEF FrameInv, Unseen, render_top_window, Draw, frameVars
<1>2. pc' \in WindowSteps /\ Level = 1 /\ Level' = 0
  BY <1>1 DEF Level, WindowSteps
<1>3. ASSUME NEW x \in 0..(W - 1), NEW y \in 0..(H - 1)
      PROVE  PointPainted(x, y, Drawn(x, y)', Level')
  <2>1. PointPainted(x, y, Drawn(x, y), 1)
    BY <1>1, <1>2 DEF Painted, WindowSteps
  <2>2. CASE window_stack = <<>>
    <3>1. Draw("top", "sync", <<>>)
      BY <2>2 DEF render_top_window
    <3>2. Drawn(x, y)' = Drawn(x, y)
      BY <1>1, <3>1, Nothing, DrawnNext
    <3>3. CoveredBy(x, y) = {}
      BY <2>2 DEF CoveredBy
    <3> QED BY <2>1, <3>2, <3>3 DEF PointPainted
  <2>3. CASE window_stack # <<>>
    <3>1. Draw("top", "sync", TopOps)
      BY <2>3 DEF render_top_window, TopOps, TopText
    <3>2. Copies(TopOps)
      BY <1>1, <2>3, TopIsCopies
    <3>3. /\ Outcome(Drawn(x, y)', vram, TopOps, Len(TopOps), Point(x, y))
          /\ vram[Point(x, y)] = Drawn(x, y)
      BY <1>1, <3>1, <3>2, DrawnNext
    <3>4. PointPainted(x, y, Drawn(x, y)', 0)
      BY <1>1, <2>1, <2>3, <3>3, TopLeaves
    <3> QED BY <1>2, <3>4
  <2> QED BY <2>2, <2>3
<1> QED BY <1>1, <1>2, <1>3, PaintedNext

\* The steps that copy nothing, and the engine's.
LEMMA SamePainted ==
  ASSUME Unseen, Painted, UNCHANGED <<window_stack, gui_term_button_pressed, curr_y>>,
         \/ UNCHANGED <<engine, vram>>
         \/ vram' = Copied(vram, engine) /\ engine' = Idle,
         \/ UNCHANGED <<pc, next>>
         \/ /\ pc \in {"sync", "start_low", "start_high", "shown"}
            /\ pc' \in {"sync", "start_low", "start_high", "shown", "rest"}
  PROVE  Painted'
<1>1. ASSUME NEW x \in 0..(W - 1), NEW y \in 0..(H - 1)
      PROVE  Drawn(x, y)' = Drawn(x, y)
  <2>1. Point(x, y) \in Address
    BY PointOfHalf DEF Half, Unseen
  <2>2. Drawn(x, y)' = Copied(vram', engine')[Point(x, y)]
    BY DEF Drawn, Point, Line, Copied
  <2>3. CASE UNCHANGED <<engine, vram>>
    BY <2>2, <2>3 DEF Drawn
  <2>4. CASE vram' = Copied(vram, engine) /\ engine' = Idle
    BY <2>1, <2>2, <2>4, IdleCopies DEF Drawn
  <2> QED BY <2>3, <2>4
<1>2. CASE UNCHANGED <<pc, next>>
  <2>1. Level' = Level
    BY <1>2 DEF Level
  <2>2. CASE pc \in WindowSteps
    <3>1. ASSUME NEW x \in 0..(W - 1), NEW y \in 0..(H - 1)
          PROVE  PointPainted(x, y, Drawn(x, y)', Level')
      <4>1. PointPainted(x, y, Drawn(x, y), Level)
        BY <2>2 DEF Painted
      <4> QED BY <1>1, <2>1, <4>1
    <3> QED BY <1>2, <2>2, <3>1, PaintedNext
  <2>3. CASE pc \notin WindowSteps
    <3>1. ASSUME NEW x \in 0..(W - 1), NEW y \in 0..(H - 1)
          PROVE  /\ pc' = "button" => Drawn(x, y)' = Desktop(x, y)'
                 /\ pc' = "clock" => Drawn(x, y)' = WithButton(x, y)'
                 /\ pc' = "grid" => Drawn(x, y)' = Background(x, y)'
      <4>1. /\ pc = "button" => Drawn(x, y) = Desktop(x, y)
            /\ pc = "clock" => Drawn(x, y) = WithButton(x, y)
            /\ pc = "grid" => Drawn(x, y) = Background(x, y)
        BY DEF Painted
      <4>2. /\ WithButton(x, y)' = WithButton(x, y) /\ Background(x, y)' = Background(x, y)
            /\ Desktop(x, y)' = Desktop(x, y)
        BY SameWindows DEF Desktop
      <4> QED BY <1>1, <1>2, <4>1, <4>2
    <3> QED BY <1>2, <2>3, <3>1 DEF Painted, WindowSteps
  <2> QED BY <2>2, <2>3
<1>3. CASE /\ pc \in {"sync", "start_low", "start_high", "shown"}
           /\ pc' \in {"sync", "start_low", "start_high", "shown"}
  <2>1. Level = 0 /\ Level' = 0 /\ pc \in WindowSteps /\ pc' \in WindowSteps
    BY <1>3 DEF Level, WindowSteps
  <2>2. ASSUME NEW x \in 0..(W - 1), NEW y \in 0..(H - 1)
        PROVE  PointPainted(x, y, Drawn(x, y)', Level')
    <3>1. PointPainted(x, y, Drawn(x, y), 0)
      BY <2>1 DEF Painted
    <3> QED BY <1>1, <2>1, <3>1
  <2> QED BY <2>1, <2>2, PaintedNext
<1>4. CASE pc' = "rest"
  BY <1>4 DEF Painted, WindowSteps
<1> QED BY <1>2, <1>3, <1>4

LEMMA FrameNext ==
  ASSUME FrameInv, [Next]_vars
  PROVE  FrameInv'
<1> USE DEF frameVars, pageVars
<1>0. /\ Unseen /\ Unseen' /\ Painted /\ Len(window_stack) <= GUI_MAX_WINDOW_NUM
      /\ next \in Nat /\ (pc = "shown" => mapping = running_term)
  BY UnseenNext DEF FrameInv
<1>1. CASE gui_render_begins
  <2>1. pc' = "desktop" /\ UNCHANGED <<window_stack, next>>
    BY <1>1 DEF gui_render_begins
  <2> QED BY <1>0, <2>1 DEF FrameInv, Painted, WindowSteps
<1>2. CASE render_desktop
  <2>1. pc' = "button" /\ UNCHANGED <<window_stack, next>>
    BY <1>2 DEF render_desktop
  <2> QED BY <1>0, <1>2, <2>1, DesktopPainted DEF FrameInv
<1>3. CASE render_term_button \/ render_clock
  <2>1. pc' \in {"clock", "grid"} /\ UNCHANGED <<window_stack, next>>
    BY <1>3 DEF render_term_button, render_clock, Draw
  <2> QED BY <1>0, <1>3, <2>1, StatusBarPainted DEF FrameInv
<1>4. CASE render_cells
  <2>1. pc' = "lower" /\ UNCHANGED window_stack
    BY <1>4 DEF render_cells, Draw
  <2> QED BY <1>0, <1>4, <2>1, CellsPainted DEF FrameInv
<1>5. CASE render_lower_window
  <2>1. pc' \in {"lower", "top"} /\ UNCHANGED window_stack
    BY <1>5 DEF render_lower_window, Draw
  <2> QED BY <1>0, <1>5, <2>1, LowerPainted DEF FrameInv
<1>6. CASE render_top_window
  <2>1. pc' = "sync" /\ UNCHANGED <<window_stack, next>>
    BY <1>6 DEF render_top_window, Draw
  <2> QED BY <1>0, <1>6, <2>1, TopPainted DEF FrameInv
<1>7. CASE vga_accel_sync
  <2>1. /\ pc = "sync" /\ pc' = "start_low"
        /\ UNCHANGED <<window_stack, gui_term_button_pressed, curr_y, engine, vram, next>>
    BY <1>7 DEF vga_accel_sync
  <2>2. Painted'
    BY <1>0, <2>1, SamePainted
  <2> QED BY <1>0, <2>1, <2>2 DEF FrameInv
<1>8. CASE set_start_low
  <2>1. /\ pc = "start_low" /\ pc' = "start_high"
        /\ UNCHANGED <<window_stack, gui_term_button_pressed, curr_y, engine, vram, next>>
    BY <1>8 DEF set_start_low
  <2>2. Painted'
    BY <1>0, <2>1, SamePainted
  <2> QED BY <1>0, <2>1, <2>2 DEF FrameInv
<1>9. CASE set_start_high
  <2>1. /\ pc = "start_high" /\ pc' = "shown" /\ mapping' = running_term
        /\ UNCHANGED <<window_stack, gui_term_button_pressed, running_term, curr_y,
                       engine, vram, next>>
    BY <1>9 DEF set_start_high
  <2>2. Painted'
    BY <1>0, <2>1, SamePainted
  <2> QED BY <1>0, <2>1, <2>2 DEF FrameInv
<1>10. CASE EngineFinishes
  <2>1. /\ vram' = Copied(vram, engine) /\ engine' = Idle
        /\ UNCHANGED <<window_stack, gui_term_button_pressed, running_term, mapping, curr_y,
                       pc, next>>
    BY <1>10 DEF EngineFinishes
  <2>2. Painted'
    BY <1>0, <2>1, SamePainted
  <2> QED BY <1>0, <2>1, <2>2 DEF FrameInv
<1>11. ASSUME NEW terminal, NEW pressed, TimePasses(terminal, pressed) PROVE FrameInv'
  <2>1. pc' = "rest" /\ window_stack' = <<>> /\ next' = next
    BY <1>11 DEF TimePasses
  <2>2. Len(window_stack') <= GUI_MAX_WINDOW_NUM
    BY <2>1, Sizes
  <2> QED BY <1>0, <2>1, <2>2 DEF FrameInv, Painted, WindowSteps
<1>12. ASSUME NEW win, WindowAt(win) PROVE FrameInv'
  <2>1. /\ pc = "rest" /\ UNCHANGED <<pc, next>> /\ Len(window_stack) < GUI_MAX_WINDOW_NUM
        /\ window_stack' = Append(window_stack, win)
    BY <1>12 DEF WindowAt
  <2>2. Len(window_stack') <= GUI_MAX_WINDOW_NUM
    <3>1. PICK T : window_stack \in Seq(T) /\ win \in T
      <4>1. window_stack \in Seq([x : Positions.x, y : Positions.y])
        BY <1>0 DEF Unseen, Placed
      <4> DEFINE T == [x : Positions.x, y : Positions.y] \cup {win}
      <4>2. [x : Positions.x, y : Positions.y] \subseteq T /\ win \in T
        OBVIOUS
      <4> HIDE DEF T
      <4>3. window_stack \in Seq(T)
        BY <4>1, <4>2, SeqMonotonic
      <4> QED BY <4>2, <4>3
    <3>2. Len(Append(window_stack, win)) = Len(window_stack) + 1 /\ Len(window_stack) \in Nat
      BY <3>1
    <3> QED BY <2>1, <3>2, Sizes
  <2> QED BY <1>0, <2>1, <2>2 DEF FrameInv, Painted, WindowSteps
<1>13. CASE UNCHANGED vars
  <2>1. UNCHANGED <<window_stack, gui_term_button_pressed, running_term, mapping, curr_y,
                    engine, vram, pc, next>>
    BY <1>13 DEF vars
  <2>2. Painted'
    BY <1>0, <2>1, SamePainted
  <2> QED BY <1>0, <2>1, <2>2 DEF FrameInv
<1> QED BY <1>1, <1>2, <1>3, <1>4, <1>5, <1>6, <1>7, <1>8, <1>9, <1>10, <1>11, <1>12, <1>13
        DEF Next

(***************************************************************************)
(* What each step of a pass has drawn, together with what the earlier steps *)
(* left on the half (Painted): the argument that render_windows and the     *)
(* functions it calls make every point of a frame, for windows at any       *)
(* places.                                                                  *)
(***************************************************************************)
THEOREM FrameInvHolds == Spec => []FrameInv
<1>1. Init => FrameInv
  BY InitFrame
<1>2. FrameInv /\ [Next]_vars => FrameInv'
  BY FrameNext
<1> QED BY <1>1, <1>2, PTL DEF Spec

(***************************************************************************)
(* Every point of a frame that is shown has what the topmost window, or the *)
(* status bar or the desktop, has there, outside of the few columns of      *)
(* Seam: although render_windows draws from the bottom up and in two        *)
(* passes, cuts the screen into a grid whose lines quick_sort orders, and   *)
(* clips texts to whole cells.                                              *)
(***************************************************************************)
THEOREM FramesShowTheTopmost == Spec => []FrameShown
<1>1. FrameInv => FrameShown
  BY FrameInvShows
<1> QED BY <1>1, FrameInvHolds, PTL

=============================================================================
