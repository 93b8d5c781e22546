--------------------------- MODULE Terminal_proofs ---------------------------
(***************************************************************************)
(* Theorems about Terminal.tla, for every buffer size, every set of keys    *)
(* and of read sizes, and any number of keys held down.  The buffer holds   *)
(* what was typed as long as the count has not wrapped; what is said beyond *)
(* that is only that the types hold.                                        *)
(***************************************************************************)
EXTENDS Terminal, TLAPS, SequenceTheorems, FiniteSetTheorems,
        WellFoundedInduction

Byte == {"none", "lower", "upper"} \X (AllKeys \cup {"nul"})
Index == 0..(KEYBOARD_BUF_SIZE - 1)

\* The first cnt bytes of the buffer are what was typed.
Holds(buf, cnt, t) ==
  /\ buf \in [Index -> Byte] /\ cnt \in 0..KEYBOARD_BUF_SIZE
  /\ t \in Seq(Byte) /\ Len(t) = cnt
  /\ \A j \in 0..(cnt - 1) : buf[j] = t[j + 1]

\* A line that has ended is never left to be read later.
NoLine(buf, cnt) == \A j \in 0..(cnt - 1) : buf[j] # Newline

KeysHeld ==
  /\ key_flags \subseteq Keys /\ Cardinality(key_flags) <= MAX_HELD
  /\ capslock_status \in BOOLEAN

Counted ==
  /\ key_buf \in [Index -> Byte] /\ key_buf_cnt \in 0..255
  /\ user_ask_len \in ReadSizes \cup {0} /\ wrapped \in BOOLEAN

Buffered ==
  /\ Holds(key_buf, key_buf_cnt, typed) /\ key_buf_cnt < KEYBOARD_BUF_SIZE
  /\ NoLine(key_buf, key_buf_cnt)

Sleeper == user_ask_len # 0 => key_buf_cnt < user_ask_len

TermInv ==
  KeysHeld /\ Counted /\ ReadGivesTyped /\ (~wrapped => Buffered /\ Sleeper)

-----------------------------------------------------------------------------
(***************************************************************************)
(* Keys and bytes.                                                          *)
(***************************************************************************)
LEMMA Constants ==
  /\ KEYBOARD_BUF_SIZE \in 1..255 /\ MAX_HELD \in Nat
  /\ \A n \in ReadSizes : n \in 1..KEYBOARD_BUF_SIZE
  /\ NUL \in Byte /\ Newline \in Byte /\ NUL # Newline
  /\ IsFiniteSet(Keys)
<1>1. /\ IsFiniteSet(Shifts) /\ IsFiniteSet(Letters) /\ IsFiniteSet(Symbols)
      /\ IsFiniteSet({"ctrl", "caps", "enter", "back"})
  <2>1. \A a, b, c, d : IsFiniteSet({a, b, c, d})
    <3> TAKE a, b, c, d
    <3>1. {a, b, c, d} = ((({} \cup {a}) \cup {b}) \cup {c}) \cup {d}
      OBVIOUS
    <3>2. \A S, x : IsFiniteSet(S) => IsFiniteSet(S \cup {x})
      BY FS_AddElement
    <3>3. IsFiniteSet(((({} \cup {a}) \cup {b}) \cup {c}) \cup {d})
      BY <3>2, FS_EmptySet
    <3> QED BY <3>1, <3>3
  <2>2. /\ Shifts = {"lshift", "rshift", "rshift", "rshift"}
        /\ Letters = {"c", "l", "l", "l"} /\ Symbols = {"one", "one", "one", "one"}
    BY DEF Shifts, Letters, Symbols
  <2> QED BY <2>1, <2>2
<1>2. IsFiniteSet(AllKeys)
  BY <1>1, FS_Union DEF AllKeys
<1>3. IsFiniteSet(Keys)
  BY <1>2, FS_Subset, TerminalAssumption
<1>4. NUL \in Byte /\ Newline \in Byte /\ NUL # Newline
  BY DEF NUL, Newline, Byte, AllKeys
<1> QED BY <1>3, <1>4, TerminalAssumption

\* The four tables give the character that the user means, and never a newline.
LEMMA TablesAgree ==
  ASSUME capslock_status \in BOOLEAN, NEW k \in Letters \cup Symbols, NEW h
  PROVE  /\ Character(k, h) = Meant(k, h)
         /\ Meant(k, h) \in Byte \ {Newline}
<1>1. /\ Lower(k) \in Byte /\ Upper(k) \in Byte
      /\ Lower(k) # Newline /\ Upper(k) # Newline
  BY DEF Lower, Upper, Byte, AllKeys, Newline
<1>2. Character(k, h) = Meant(k, h)
  <2> DEFINE up == k \in Letters
  <2>0. Shifted(h) \in BOOLEAN /\ up \in BOOLEAN
    BY DEF Shifted
  <2>1. CASE capslock_status = TRUE /\ Shifted(h) = TRUE
    <3>1. Character(k, h) = caps_shift_scan_code_table(k)
      BY <2>1 DEF Character
    <3>2. CASE up = TRUE
      BY <2>1, <3>1, <3>2 DEF Meant, caps_shift_scan_code_table
    <3>3. CASE up = FALSE
      BY <2>1, <3>1, <3>3 DEF Meant, caps_shift_scan_code_table
    <3> QED BY <2>0, <3>2, <3>3
  <2>2. CASE capslock_status = TRUE /\ Shifted(h) = FALSE
    <3>1. Character(k, h) = caps_scan_code_table(k)
      BY <2>2 DEF Character
    <3>2. CASE up = TRUE
      BY <2>2, <3>1, <3>2 DEF Meant, caps_scan_code_table
    <3>3. CASE up = FALSE
      BY <2>2, <3>1, <3>3 DEF Meant, caps_scan_code_table
    <3> QED BY <2>0, <3>2, <3>3
  <2>3. CASE capslock_status = FALSE /\ Shifted(h) = TRUE
    <3>1. Character(k, h) = shift_scan_code_table(k)
      BY <2>3 DEF Character
    <3>2. CASE up = TRUE
      BY <2>3, <3>1, <3>2 DEF Meant, shift_scan_code_table
    <3>3. CASE up = FALSE
      BY <2>3, <3>1, <3>3 DEF Meant, shift_scan_code_table
    <3> QED BY <2>0, <3>2, <3>3
  <2>4. CASE capslock_status = FALSE /\ Shifted(h) = FALSE
    <3>1. Character(k, h) = scan_code_table(k)
      BY <2>4 DEF Character
    <3>2. CASE up = TRUE
      BY <2>4, <3>1, <3>2 DEF Meant, scan_code_table
    <3>3. CASE up = FALSE
      BY <2>4, <3>1, <3>3 DEF Meant, scan_code_table
    <3> QED BY <2>0, <3>2, <3>3
  <2> QED BY <2>0, <2>1, <2>2, <2>3, <2>4
<1> QED BY <1>1, <1>2 DEF Meant

\* Keys that are pressed and released are counted.
LEMMA PressKeepsTypes ==
  ASSUME key_flags \subseteq Keys, Cardinality(key_flags) <= MAX_HELD,
         NEW k, Press(k)
  PROVE  key_flags' \subseteq Keys /\ Cardinality(key_flags') <= MAX_HELD
<1>1. IsFiniteSet(key_flags)
  BY Constants, FS_Subset
<1>2. /\ Cardinality(key_flags) \in Nat
      /\ Cardinality(key_flags \cup {k}) =
           IF k \in key_flags THEN Cardinality(key_flags)
                              ELSE Cardinality(key_flags) + 1
  BY <1>1, FS_AddElement, FS_CardinalityType
<1> QED BY <1>2, Constants DEF Press

LEMMA ReleaseKeepsTypes ==
  ASSUME key_flags \subseteq Keys, Cardinality(key_flags) <= MAX_HELD,
         NEW k, key_flags' = key_flags \ {k}
  PROVE  key_flags' \subseteq Keys /\ Cardinality(key_flags') <= MAX_HELD
<1>1. IsFiniteSet(key_flags)
  BY Constants, FS_Subset
<1>2. /\ Cardinality(key_flags) \in Nat /\ Cardinality(key_flags \ {k}) \in Nat
      /\ Cardinality(key_flags \ {k}) <= Cardinality(key_flags)
  BY <1>1, FS_Subset, FS_CardinalityType, FS_RemoveElement
<1> QED BY <1>2, Constants

-----------------------------------------------------------------------------
(***************************************************************************)
(* The end of a read.                                                       *)
(***************************************************************************)

LEMMA Bytes8 ==
  /\ \A v \in 0..255 : uint8(v) = v
  /\ \A v \in Int : uint8(v) \in 0..255
BY DEF uint8

\* The loop of system_terminal_read stops somewhere.
LEMMA ScanEnds ==
  ASSUME NEW buf, NEW cnt, NEW n \in Nat
  PROVE  LET i == Scan(buf, cnt, n)
         IN  /\ i \in 0..n
             /\ i = n \/ i >= cnt \/ buf[i] = Newline
             /\ \A k \in 0..n : k = n \/ k >= cnt \/ buf[k] = Newline => i <= k
<1> DEFINE S == {i \in 0..n : i = n \/ i >= cnt \/ buf[i] = Newline}
<1>1. S \in SUBSET Nat /\ n \in S
  OBVIOUS
<1>2. Scan(buf, cnt, n) = Min(S)
  BY DEF Scan
<1>3. \E x \in S : \A y \in S : x <= y
  <2> HIDE DEF S
  <2>1. IsWellFoundedOn({p \in Nat \X Nat : p[1] < p[2]}, Nat)
    BY NatLessThanWellFounded DEF OpToRel
  <2>2. PICK m \in S : \A k \in S : <<k, m>> \notin {p \in Nat \X Nat : p[1] < p[2]}
    BY <1>1, <2>1, WFMin
  <2>3. ASSUME NEW k \in S  PROVE m <= k
    <3>1. m \in Nat /\ k \in Nat
      BY <1>1
    <3>2. ~(k < m)
      BY <2>2, <3>1
    <3> QED BY <3>1, <3>2
  <2> QED BY <2>3
<1>4. Min(S) \in S /\ \A x \in S : Min(S) <= x
  <2> HIDE DEF S
  <2> QED BY <1>3 DEF Min
<1> QED BY <1>2, <1>4

\* And at one place only.
LEMMA ScanStops ==
  ASSUME NEW buf, NEW cnt \in Nat, NEW n \in Nat, NEW i \in 0..n,
         \A j \in 0..(i - 1) : j < cnt /\ buf[j] # Newline,
         i = n \/ i >= cnt \/ buf[i] = Newline
  PROVE  Scan(buf, cnt, n) = i
<1> DEFINE k == Scan(buf, cnt, n)
<1>1. /\ k \in 0..n /\ k <= i
      /\ k = n \/ k >= cnt \/ buf[k] = Newline
  BY ScanEnds
<1> HIDE DEF k
<1>2. ~(k < i)
  <2> SUFFICES ASSUME k < i PROVE FALSE
    OBVIOUS
  <2>1. k \in 0..(i - 1) /\ k # n
    BY <1>1
  <2> QED BY <1>1, <2>1
<1> QED BY <1>1, <1>2 DEF k

\* And so does the history of it.
LEMMA TakenStops ==
  ASSUME NEW t \in Seq(Byte), NEW n \in Nat, NEW i \in 0..n, i <= Len(t),
         \A j \in 1..i : t[j] # Newline,
         i = n \/ i = Len(t) \/ t[i + 1] = Newline
  PROVE  Taken(t, n) = IF i < Len(t) /\ t[i + 1] = Newline
                       THEN SubSeq(t, i + 2, Len(t)) ELSE SubSeq(t, i + 1, Len(t))
<1> DEFINE Stop(k) == /\ k <= Len(t) /\ \A j \in 1..k : t[j] # Newline
                      /\ k = n \/ k = Len(t) \/ t[k + 1] = Newline
           stop == CHOOSE k \in 0..n : Stop(k)
<1>1. Stop(i) /\ Len(t) \in Nat
  OBVIOUS
<1>2. ASSUME NEW k \in 0..n, Stop(k)
      PROVE  k = i
  <2>1. CASE k < i
    <3>1. k + 1 \in 1..i /\ k # n /\ k # Len(t)
      BY <1>1, <2>1
    <3> QED BY <1>1, <1>2, <3>1
  <2>2. CASE i < k
    <3>1. i + 1 \in 1..k /\ i # n /\ i # Len(t)
      BY <1>1, <1>2, <2>2
    <3> QED BY <1>1, <1>2, <3>1
  <2> QED BY <2>1, <2>2
<1>3. Taken(t, n) = IF stop < Len(t) /\ t[stop + 1] = Newline
                    THEN SubSeq(t, stop + 2, Len(t)) ELSE SubSeq(t, stop + 1, Len(t))
  BY DEF Taken
<1>4. stop = i
  <2> HIDE DEF Stop
  <2> QED BY <1>1, <1>2
<1> QED BY <1>3, <1>4

\* What the read copies out is a beginning of what was typed.
LEMMA CopiedIsTyped ==
  ASSUME NEW buf, NEW cnt, NEW t, Holds(buf, cnt, t), NEW i \in 0..cnt
  PROVE  LET r == [k \in 1..i |-> buf[k - 1]]
         IN  Len(r) = i /\ IsPrefix(r, t)
<1> DEFINE r == [k \in 1..i |-> buf[k - 1]]
<1>0. cnt \in Nat /\ cnt <= KEYBOARD_BUF_SIZE /\ KEYBOARD_BUF_SIZE \in Nat /\ i \in Nat
  BY Constants DEF Holds
<1>1. \A k \in 1..i : k - 1 \in 0..(cnt - 1) /\ r[k] = buf[k - 1] /\ (k - 1) + 1 = k
  BY <1>0
<1>2. \A k \in 1..i : r[k] = t[k]
  BY <1>1 DEF Holds
<1>3. t \in Seq(Byte) /\ Len(t) = cnt /\ \A k \in 1..i : k \in 1..Len(t) /\ t[k] \in Byte
  BY <1>0, ElementOfSeq DEF Holds
<1>4. r \in [1..i -> Byte]
  <2>1. \A k \in 1..i : buf[k - 1] \in Byte
    BY <1>1, <1>2, <1>3
  <2> QED BY <2>1
<1>5. r \in Seq(Byte) /\ Len(r) = i
  <2> HIDE DEF r
  <2>1. r \in Seq(Byte)
    BY <1>0, <1>4, SeqDef
  <2> QED BY <1>0, <1>4, <2>1, LenProperties
<1>6. SubSeq(r, 1, i) = SubSeq(t, 1, i)
  <2> HIDE DEF r
  <2>1. /\ SubSeq(r, 1, i) \in Seq(Byte) /\ Len(SubSeq(r, 1, i)) = (IF 1 <= i THEN i - 1 + 1 ELSE 0)
        /\ \A k \in 1..(i - 1 + 1) : SubSeq(r, 1, i)[k] = r[1 + k - 1]
    <3>1. 1 \in Int /\ i \in Int /\ \A k \in 1..i : r[k] \in Byte
      BY <1>0, <1>2, <1>3
    <3> QED BY <3>1, SubSeqProperties
  <2>2. /\ SubSeq(t, 1, i) \in Seq(Byte) /\ Len(SubSeq(t, 1, i)) = (IF 1 <= i THEN i - 1 + 1 ELSE 0)
        /\ \A k \in 1..(i - 1 + 1) : SubSeq(t, 1, i)[k] = t[1 + k - 1]
    <3>1. 1 \in Int /\ i \in Int
      BY <1>0
    <3> QED BY <1>3, <3>1, SubSeqProperties
  <2>3. i - 1 + 1 = i /\ \A k \in 1..i : 1 + k - 1 = k
    BY <1>0
  <2>4. Len(SubSeq(r, 1, i)) = i /\ Len(SubSeq(t, 1, i)) = i
    BY <1>0, <2>1, <2>2
  <2>5. \A k \in 1..i : SubSeq(r, 1, i)[k] = SubSeq(t, 1, i)[k]
    BY <1>2, <2>1, <2>2, <2>3
  <2> QED BY <2>1, <2>2, <2>4, <2>5, SeqEqual
<1>7. IsPrefix(r, t)
  <2> HIDE DEF r
  <2> QED BY <1>0, <1>3, <1>5, <1>6 DEF IsPrefix
<1> QED BY <1>5, <1>7

LEMMA PutIsTyped ==
  ASSUME NEW buf \in [Index -> Byte], NEW i \in Nat, NEW c \in Byte
  PROVE  Put(buf, i, c) \in [Index -> Byte]
BY DEF Put

\* Whatever the count is, a read leaves types as they are, and a count that has
\* wrapped as one that has.
LEMMA FinishIsTyped ==
  ASSUME Counted, NEW buf \in [Index -> Byte], NEW cnt \in Nat,
         NEW n \in ReadSizes, NEW t, FinishRead(buf, cnt, n, t)
  PROVE  Counted' /\ (wrapped => wrapped' /\ ReadGivesTyped')
<1> DEFINE i == Scan(buf, cnt, n)
           del == ToDelete(buf, i)
           count == IF cnt > KEYBOARD_BUF_SIZE + del THEN 0 ELSE cnt
<1>1. i \in Nat
  <2>1. n \in Nat
    BY Constants
  <2> QED BY <2>1, ScanEnds
<1>2. del \in Nat /\ count \in Nat
  BY <1>1 DEF ToDelete
<1>3. /\ user_ask_len' = 0
      /\ key_buf' = [j \in DOMAIN buf |->
                       IF j + del < cnt THEN ByteAt(buf, j + del) ELSE buf[j]]
      /\ key_buf_cnt' = uint8(count - del)
      /\ wrapped' = (wrapped \/ del > cnt)
      /\ reply'.wrapped = wrapped
  BY DEF FinishRead
<1> HIDE DEF i, del, count
<1>4. key_buf' \in [Index -> Byte]
  <2>1. \A j \in Index : ByteAt(buf, j + del) \in Byte
    BY <1>2, Constants DEF ByteAt, Index
  <2> QED BY <1>3, <2>1
<1>5. key_buf_cnt' \in 0..255
  BY <1>2, <1>3, Bytes8
<1>6. Counted'
  BY <1>3, <1>4, <1>5 DEF Counted
<1> QED BY <1>3, <1>6 DEF ReadGivesTyped, Counted

\* What a read leaves behind.
ReadDone ==
  /\ user_ask_len' = 0
  /\ ReadGivesTyped' /\ (~wrapped' => Buffered')

\* A read of a full nbytes.  An old newline right behind it makes the count wrap;
\* otherwise the byte behind it is not deleted.
LEMMA FullRead ==
  ASSUME NEW buf, NEW cnt, NEW t, NEW n \in ReadSizes,
         Holds(buf, cnt, t), cnt < KEYBOARD_BUF_SIZE, n <= cnt,
         NoLine(buf, cnt), FinishRead(buf, cnt, n, t)
  PROVE  ReadDone
<1>0. /\ cnt \in Nat /\ n \in 1..KEYBOARD_BUF_SIZE /\ n \in Nat
      /\ KEYBOARD_BUF_SIZE \in 1..255 /\ n \in Index /\ n \in 0..cnt
  <2>1. n \in 1..KEYBOARD_BUF_SIZE /\ KEYBOARD_BUF_SIZE \in 1..255
    BY Constants
  <2>2. cnt \in 0..KEYBOARD_BUF_SIZE
    BY DEF Holds
  <2> QED BY <2>1, <2>2 DEF Index
<1>1. Scan(buf, cnt, n) = n
  <2>1. \A j \in 0..(n - 1) : j < cnt /\ buf[j] # Newline
    BY <1>0 DEF NoLine
  <2> QED BY <1>0, <2>1, ScanStops
<1>2. user_ask_len' = 0 /\ ReadGivesTyped'
  <2> DEFINE r == [k \in 1..n |-> buf[k - 1]]
  <2>1. Len(r) = n /\ IsPrefix(r, t)
    BY <1>0, CopiedIsTyped
  <2>2. user_ask_len' = 0 /\ reply'.gave = r /\ reply'.asked = n /\ reply'.had = t
    BY <1>1 DEF FinishRead
  <2> HIDE DEF r
  <2> QED BY <2>1, <2>2 DEF ReadGivesTyped, EveryReadGivesTyped
<1>3. CASE buf[n] = Newline
  <2>1. n = cnt
    BY <1>0, <1>3 DEF NoLine
  <2>2. ToDelete(buf, n) = n + 1
    BY <1>0, <1>3 DEF ToDelete, ByteAt, Index
  <2>3. n + 1 > cnt
    BY <1>0, <2>1
  <2>4. wrapped' = (wrapped \/ n + 1 > cnt)
    BY <1>1, <2>2 DEF FinishRead
  <2> QED BY <1>2, <2>3, <2>4 DEF ReadDone
<1>4. CASE buf[n] # Newline
  <2>1. ToDelete(buf, n) = n
    BY <1>0, <1>4 DEF ToDelete, ByteAt, Index
  <2>2. ~(cnt > KEYBOARD_BUF_SIZE + n)
    BY <1>0
  <2>3. /\ key_buf' = [j \in DOMAIN buf |->
                       IF j + n < cnt THEN ByteAt(buf, j + n) ELSE buf[j]]
        /\ key_buf_cnt' = uint8(cnt - n)
        /\ typed' = Taken(t, n)
    BY <1>1, <2>1, <2>2 DEF FinishRead
  <2>4. key_buf_cnt' = cnt - n
    <3>1. cnt - n \in 0..255
      BY <1>0
    <3> QED BY <2>3, <3>1, Bytes8
  <2>5. /\ t \in Seq(Byte) /\ Len(t) = cnt /\ DOMAIN buf = Index
        /\ \A j \in Index : buf[j] \in Byte
    BY DEF Holds
  <2>6. \A k \in 1..cnt : t[k] = buf[k - 1] /\ t[k] # Newline
    <3> TAKE k \in 1..cnt
    <3>1. k - 1 \in 0..(cnt - 1) /\ (k - 1) + 1 = k
      BY <1>0
    <3> QED BY <3>1 DEF Holds, NoLine
  <2>7. typed' = SubSeq(t, n + 1, cnt)
    <3>1. \A j \in 1..n : t[j] # Newline
      BY <1>0, <2>6
    <3>2. n < cnt => t[n + 1] # Newline
      BY <1>0, <2>6
    <3>3. Taken(t, n) = IF n < Len(t) /\ t[n + 1] = Newline
                        THEN SubSeq(t, n + 2, Len(t)) ELSE SubSeq(t, n + 1, Len(t))
      <4>1. n \in 0..n /\ n <= Len(t)
        BY <1>0, <2>5
      <4>2. n = n \/ n = Len(t) \/ t[n + 1] = Newline
        OBVIOUS
      <4> QED BY <1>0, <2>5, <3>1, <4>1, <4>2, TakenStops
    <3> QED BY <2>3, <2>5, <3>2, <3>3
  <2>8. /\ typed' \in Seq(Byte) /\ Len(typed') = cnt - n
        /\ \A j \in 1..(cnt - n) : typed'[j] = t[n + j]
    <3>1. /\ SubSeq(t, n + 1, cnt) \in Seq(Byte)
          /\ Len(SubSeq(t, n + 1, cnt)) =
               (IF n + 1 <= cnt THEN cnt - (n + 1) + 1 ELSE 0)
          /\ \A j \in 1..(cnt - (n + 1) + 1) : SubSeq(t, n + 1, cnt)[j] = t[(n + 1) + j - 1]
      <4>1. \A k \in (n + 1)..cnt : t[k] \in Byte
        <5> TAKE k \in (n + 1)..cnt
        <5>1. k \in 1..Len(t)
          BY <1>0, <2>5
        <5> QED BY <2>5, <5>1, ElementOfSeq
      <4>2. n + 1 \in Int /\ cnt \in Int
        BY <1>0
      <4> QED BY <4>1, <4>2, SubSeqProperties
    <3>2. cnt - (n + 1) + 1 = cnt - n /\ \A j \in 1..(cnt - n) : (n + 1) + j - 1 = n + j
      BY <1>0
    <3>3. (IF n + 1 <= cnt THEN cnt - (n + 1) + 1 ELSE 0) = cnt - n
      BY <1>0
    <3> QED BY <2>7, <3>1, <3>2, <3>3
  <2>9. \A j \in Index : key_buf'[j] = IF j + n < cnt THEN buf[j + n] ELSE buf[j]
    <3> TAKE j \in Index
    <3>1. j + n < cnt => j + n < KEYBOARD_BUF_SIZE
      BY <1>0 DEF Index
    <3> QED BY <2>3, <2>5, <3>1 DEF ByteAt
  <2>10. key_buf' \in [Index -> Byte]
    <3>1. DOMAIN key_buf' = Index /\ key_buf' = [j \in DOMAIN key_buf' |-> key_buf'[j]]
      BY <2>3, <2>5
    <3>2. \A j \in Index : key_buf'[j] \in Byte
      <4> TAKE j \in Index
      <4>1. j + n < cnt => j + n \in Index
        BY <1>0 DEF Index
      <4> QED BY <2>5, <2>9, <4>1
    <3> QED BY <3>1, <3>2
  <2>11. \A j \in 0..(cnt - n - 1) :
           /\ key_buf'[j] = buf[j + n] /\ typed'[j + 1] = buf[j + n]
           /\ buf[j + n] # Newline
    <3> TAKE j \in 0..(cnt - n - 1)
    <3>1. /\ j \in Index /\ j + n < cnt /\ j + 1 \in 1..(cnt - n) /\ n + (j + 1) \in 1..cnt
          /\ (n + (j + 1)) - 1 = j + n
      BY <1>0 DEF Index
    <3> QED BY <2>6, <2>8, <2>9, <3>1
  <2>12. Holds(key_buf', key_buf_cnt', typed') /\ NoLine(key_buf', key_buf_cnt')
         /\ key_buf_cnt' < KEYBOARD_BUF_SIZE
    <3>1. key_buf_cnt' \in 0..KEYBOARD_BUF_SIZE /\ key_buf_cnt' < KEYBOARD_BUF_SIZE
      BY <1>0, <2>4
    <3>2. \A j \in 0..(key_buf_cnt' - 1) :
            key_buf'[j] = typed'[j + 1] /\ key_buf'[j] # Newline
      BY <2>4, <2>11
    <3> QED BY <2>4, <2>8, <2>10, <3>1, <3>2 DEF Holds, NoLine
  <2> QED BY <1>2, <2>12 DEF ReadDone, Buffered
<1> QED BY <1>2, <1>3, <1>4 DEF ReadDone

\* A read that Enter ends takes all that was typed, and the newline with it.
LEMMA LineRead ==
  ASSUME NEW buf, NEW cnt, NEW t, NEW n \in ReadSizes, cnt < n,
         Holds(buf, cnt + 1, Append(t, Newline)), t \in Seq(Byte), Len(t) = cnt,
         NoLine(buf, cnt), FinishRead(buf, cnt + 1, n, Append(t, Newline))
  PROVE  ReadDone
<1> DEFINE line == Append(t, Newline)
<1>0. /\ cnt \in Nat /\ cnt + 1 \in Nat /\ n \in Nat /\ n <= KEYBOARD_BUF_SIZE
      /\ KEYBOARD_BUF_SIZE \in 1..255 /\ cnt \in 0..n /\ cnt \in Index
  <2>1. cnt \in Nat
    BY LenProperties
  <2> QED BY <2>1, Constants DEF Index
<1>1. /\ line \in Seq(Byte) /\ Len(line) = cnt + 1
      /\ line[cnt + 1] = Newline /\ \A k \in 1..cnt : line[k] = t[k]
  BY <1>0, Constants, AppendProperties
<1> HIDE DEF line
<1>2. /\ buf \in [Index -> Byte] /\ DOMAIN buf = Index
      /\ \A j \in 0..cnt : buf[j] = line[j + 1]
      /\ Holds(buf, cnt + 1, line) /\ FinishRead(buf, cnt + 1, n, line)
  <2>1. (cnt + 1) - 1 = cnt
    BY <1>0
  <2> QED BY <2>1 DEF Holds, line
<1>3. buf[cnt] = Newline /\ \A k \in 1..cnt : line[k] # Newline
  <2>1. buf[cnt] = Newline
    BY <1>0, <1>1, <1>2
  <2>2. ASSUME NEW k \in 1..cnt PROVE line[k] # Newline
    <3>1. k - 1 \in 0..cnt /\ k - 1 \in 0..(cnt - 1) /\ (k - 1) + 1 = k
      BY <1>0
    <3> QED BY <1>2, <3>1 DEF NoLine
  <2> QED BY <2>1, <2>2
<1>4. Scan(buf, cnt + 1, n) = cnt
  <2>1. \A j \in 0..(cnt - 1) : j < cnt + 1 /\ buf[j] # Newline
    BY <1>0 DEF NoLine
  <2>2. cnt = n \/ cnt >= cnt + 1 \/ buf[cnt] = Newline
    BY <1>3
  <2> QED BY <1>0, <2>1, <2>2, ScanStops
<1>5. ToDelete(buf, cnt) = cnt + 1
  <2>1. cnt < KEYBOARD_BUF_SIZE
    BY <1>0 DEF Index
  <2> QED BY <1>3, <2>1 DEF ToDelete, ByteAt
<1>6. /\ user_ask_len' = 0
      /\ key_buf' = [j \in DOMAIN buf |->
             IF j + (cnt + 1) < cnt + 1 THEN ByteAt(buf, j + (cnt + 1)) ELSE buf[j]]
      /\ key_buf_cnt' = uint8((cnt + 1) - (cnt + 1))
      /\ reply' = [asked |-> n, gave |-> [k \in 1..cnt |-> buf[k - 1]],
                   had |-> line, wrapped |-> wrapped]
      /\ typed' = Taken(line, n)
  <2>1. ~(cnt + 1 > KEYBOARD_BUF_SIZE + (cnt + 1))
    BY <1>0
  <2> QED BY <1>2, <1>4, <1>5, <2>1 DEF FinishRead
<1>7. key_buf_cnt' = 0
  <2>1. (cnt + 1) - (cnt + 1) = 0 /\ 0 \in 0..255
    BY <1>0
  <2> QED BY <1>6, <2>1, Bytes8
<1>8. key_buf' = buf
  <2>1. \A j \in Index : ~(j + (cnt + 1) < cnt + 1)
    BY <1>0 DEF Index
  <2>2. key_buf' = [j \in Index |-> buf[j]]
    BY <1>2, <1>6, <2>1
  <2> QED BY <1>2, <2>2
<1>9. typed' = <<>>
  <2>1. cnt <= Len(line) /\ line[cnt + 1] = Newline /\ cnt < Len(line)
    BY <1>0, <1>1
  <2>2. cnt = n \/ cnt = Len(line) \/ line[cnt + 1] = Newline
    BY <2>1
  <2>3. Taken(line, n) = IF cnt < Len(line) /\ line[cnt + 1] = Newline
                         THEN SubSeq(line, cnt + 2, Len(line))
                         ELSE SubSeq(line, cnt + 1, Len(line))
    BY <1>0, <1>1, <1>3, <2>1, <2>2, TakenStops
  <2>4. SubSeq(line, cnt + 2, cnt + 1) = <<>>
    <3>1. cnt + 2 \in Int /\ cnt + 1 \in Int /\ cnt + 1 < cnt + 2
      BY <1>0
    <3> QED BY <3>1, SubSeqEmpty
  <2> QED BY <1>1, <1>6, <2>1, <2>3, <2>4
<1>10. /\ Holds(key_buf', key_buf_cnt', typed') /\ NoLine(key_buf', key_buf_cnt')
       /\ key_buf_cnt' < KEYBOARD_BUF_SIZE
  <2>1. <<>> \in Seq(Byte) /\ Len(<<>>) = 0
    BY EmptySeq
  <2>2. 0 \in 0..KEYBOARD_BUF_SIZE /\ 0 < KEYBOARD_BUF_SIZE /\ \A j \in 0..(0 - 1) : FALSE
    BY <1>0
  <2> QED BY <1>2, <1>7, <1>8, <1>9, <2>1, <2>2 DEF Holds, NoLine
<1>11. ReadGivesTyped'
  <2> DEFINE r == [k \in 1..cnt |-> buf[k - 1]]
  <2>1. Len(r) = cnt /\ IsPrefix(r, line)
    <3>1. cnt \in 0..(cnt + 1)
      BY <1>0
    <3> QED BY <1>2, <3>1, CopiedIsTyped
  <2> HIDE DEF r
  <2>2. reply'.gave = r /\ reply'.asked = n /\ reply'.had = line
    BY <1>6 DEF r
  <2>3. cnt < Len(line) /\ line[cnt + 1] = Newline
    BY <1>0, <1>1
  <2> QED BY <2>1, <2>2, <2>3 DEF ReadGivesTyped, EveryReadGivesTyped
<1> QED BY <1>6, <1>10, <1>11 DEF ReadDone, Buffered

-----------------------------------------------------------------------------
(***************************************************************************)
(* The actions.                                                             *)
(***************************************************************************)

\* What an action keeps when the count has not wrapped.
Kept == ReadGivesTyped' /\ (~wrapped' => Buffered' /\ Sleeper')

\* What it keeps when it has.
StaysWrapped == wrapped' /\ ReadGivesTyped'

\* A read that returns leaves nobody asleep.
LEMMA DoneIsKept ==
  ASSUME ReadDone
  PROVE  Kept
BY DEF ReadDone, Sleeper, Kept

LEMMA NothingRead == ASSUME reply' = NoReply PROVE ReadGivesTyped'
<1>1. reply'.gave = <<>> /\ reply'.asked = 0 /\ reply'.had = <<>>
  BY DEF NoReply
<1>2. Len(<<>>) = 0 /\ IsPrefix(<<>>, <<>>)
  <2>1. Len(<<>>) = 0 /\ SubSeq(<<>>, 1, 0) = <<>>
    BY EmptySeq, SubSeqEmpty
  <2> QED BY <2>1 DEF IsPrefix
<1> QED BY <1>1, <1>2 DEF ReadGivesTyped, EveryReadGivesTyped

\* Types, after a byte, an erased byte or none.
LEMMA EditedIsTyped ==
  ASSUME Counted, NEW buf \in [Index -> Byte], NEW cnt \in 0..255, NEW t,
         Edited(buf, cnt, t)
  PROVE  Counted' /\ (wrapped => StaysWrapped)
<1>1. CASE Wakes(cnt)
  <2>1. user_ask_len \in ReadSizes /\ FinishRead(buf, cnt, user_ask_len, t)
    <3>1. user_ask_len > 0
      BY <1>1 DEF Wakes
    <3> QED BY <1>1, <3>1 DEF Edited, Counted
  <2> QED BY <2>1, FinishIsTyped DEF StaysWrapped
<1>2. CASE ~Wakes(cnt)
  BY <1>2, NothingRead DEF Edited, NoRead, Counted, StaysWrapped
<1> QED BY <1>1, <1>2

\* After a byte, an erased byte or none the reader is woken if that is enough.
LEMMA EditedIsKept ==
  ASSUME Counted, Sleeper, NEW buf, NEW cnt, NEW t, Holds(buf, cnt, t),
         cnt < KEYBOARD_BUF_SIZE, NoLine(buf, cnt), Edited(buf, cnt, t)
  PROVE  Kept
<1>1. CASE Wakes(cnt)
  <2>1. /\ user_ask_len \in ReadSizes /\ user_ask_len <= cnt
        /\ FinishRead(buf, cnt, user_ask_len, t)
    <3>1. user_ask_len > 0 /\ cnt >= user_ask_len
      BY <1>1 DEF Wakes
    <3>2. user_ask_len \in ReadSizes
      BY <3>1 DEF Counted
    <3>3. cnt \in Nat /\ user_ask_len \in Nat
      BY <3>2, Constants DEF Holds
    <3>4. FinishRead(buf, cnt, user_ask_len, t)
      BY <1>1 DEF Edited
    <3> QED BY <3>1, <3>2, <3>3, <3>4
  <2> QED BY <2>1, FullRead, DoneIsKept
<1>2. CASE ~Wakes(cnt)
  <2>1. /\ key_buf' = buf /\ key_buf_cnt' = cnt /\ typed' = t
        /\ user_ask_len' = user_ask_len /\ reply' = NoReply
    BY <1>2 DEF Edited, NoRead
  <2>2. user_ask_len # 0 => cnt < user_ask_len
    <3>1. cnt \in Nat /\ user_ask_len \in Nat
      BY Constants DEF Holds, Counted
    <3> QED BY <1>2, <3>1 DEF Wakes
  <2> QED BY <2>1, <2>2, NothingRead DEF Buffered, Sleeper, Kept
<1> QED BY <1>1, <1>2

LEMMA Conclude ==
  ASSUME KeysHeld', Counted', Kept
  PROVE  TermInv'
BY DEF Kept, TermInv

LEMMA StillWrapped ==
  ASSUME KeysHeld', Counted', StaysWrapped
  PROVE  TermInv'
BY DEF StaysWrapped, TermInv

LEMMA ReadKeeps ==
  ASSUME TermInv, NEW n \in ReadSizes, system_terminal_read(n)
  PROVE  TermInv'
<1>1. KeysHeld'
  BY DEF TermInv, KeysHeld, system_terminal_read
<1>2. /\ n \in 1..KEYBOARD_BUF_SIZE /\ KEYBOARD_BUF_SIZE \in 1..255 /\ n \in Nat
      /\ key_buf \in [Index -> Byte] /\ key_buf_cnt \in Nat /\ Counted
  BY Constants DEF TermInv, Counted
<1>3. Counted' /\ (wrapped => StaysWrapped)
  <2>1. CASE Enough(n)
    <3>1. FinishRead(key_buf, key_buf_cnt, n, typed)
      BY <2>1 DEF system_terminal_read
    <3> QED BY <1>2, <3>1, FinishIsTyped DEF StaysWrapped
  <2>2. CASE ~Enough(n)
    BY <1>2, <2>2, NothingRead DEF system_terminal_read, Counted, StaysWrapped
  <2> QED BY <2>1, <2>2
<1>4. ASSUME ~wrapped PROVE Kept
  <2>0. Buffered /\ key_buf_cnt < KEYBOARD_BUF_SIZE
    BY <1>4 DEF TermInv, Buffered
  <2>1. CASE n <= key_buf_cnt
    <3>1. Scan(key_buf, key_buf_cnt, n) = n
      <4>1. \A j \in 0..(n - 1) : j < key_buf_cnt /\ key_buf[j] # Newline
        BY <1>2, <2>0, <2>1 DEF Buffered, NoLine
      <4>2. n \in 0..n
        BY <1>2
      <4> QED BY <1>2, <4>1, <4>2, ScanStops
    <3>2. FinishRead(key_buf, key_buf_cnt, n, typed)
      BY <3>1 DEF Enough, system_terminal_read
    <3> QED BY <2>0, <2>1, <3>2, FullRead, DoneIsKept DEF Buffered
  <2>2. CASE key_buf_cnt < n
    <3>1. Scan(key_buf, key_buf_cnt, n) = key_buf_cnt
      <4>1. \A j \in 0..(key_buf_cnt - 1) : j < key_buf_cnt /\ key_buf[j] # Newline
        BY <1>2, <2>0 DEF Buffered, NoLine
      <4>2. key_buf_cnt \in 0..n /\ key_buf_cnt >= key_buf_cnt
        BY <1>2, <2>2
      <4> QED BY <1>2, <4>1, <4>2, ScanStops
    <3>2. ~Enough(n)
      BY <1>2, <2>2, <3>1 DEF Enough
    <3>3. /\ user_ask_len' = n /\ reply' = NoReply
          /\ UNCHANGED <<key_buf, key_buf_cnt, typed>>
      BY <3>2 DEF system_terminal_read
    <3> QED BY <2>0, <2>2, <3>3, NothingRead DEF Buffered, Sleeper, Kept
  <2> QED BY <1>2, <2>1, <2>2
<1> QED BY <1>1, <1>2, <1>3, <1>4, Conclude, StillWrapped DEF Counted

\* The newline goes where the reader looks for it first.
LEMMA EnterBuffered ==
  ASSUME Counted, Buffered, Sleeper, EnterReader
  PROVE  Kept
<1> DEFINE buf == Put(key_buf, key_buf_cnt, Newline)
<1>1. /\ user_ask_len \in ReadSizes /\ key_buf_cnt < user_ask_len
      /\ user_ask_len \in 1..KEYBOARD_BUF_SIZE /\ KEYBOARD_BUF_SIZE \in 1..255
      /\ key_buf_cnt \in Nat /\ key_buf_cnt \in Index /\ Newline \in Byte
      /\ user_ask_len \in Nat
  <2>1. user_ask_len \in ReadSizes /\ key_buf_cnt < user_ask_len
    BY DEF EnterReader, Counted, Sleeper
  <2>2. key_buf_cnt \in Nat
    BY DEF Buffered, Holds
  <2> QED BY <2>1, <2>2, Constants DEF Index
<1>2. /\ key_buf \in [Index -> Byte] /\ typed \in Seq(Byte) /\ Len(typed) = key_buf_cnt
      /\ \A j \in 0..(key_buf_cnt - 1) : key_buf[j] = typed[j + 1] /\ key_buf[j] # Newline
  BY DEF Buffered, Holds, NoLine
<1>3. buf = [key_buf EXCEPT ![key_buf_cnt] = Newline]
  BY <1>1 DEF Put, Index
<1>4. /\ buf \in [Index -> Byte] /\ buf[key_buf_cnt] = Newline
      /\ \A j \in Index : j # key_buf_cnt => buf[j] = key_buf[j]
  BY <1>1, <1>2, <1>3
<1> HIDE DEF buf
<1>5. uint8(key_buf_cnt + 1) = key_buf_cnt + 1
  <2>1. key_buf_cnt + 1 \in 0..255
    BY <1>1
  <2> QED BY <2>1, Bytes8
<1>6. \A j \in 0..(key_buf_cnt - 1) : buf[j] = typed[j + 1] /\ buf[j] # Newline
  <2> TAKE j \in 0..(key_buf_cnt - 1)
  <2>1. j \in Index /\ j # key_buf_cnt
    BY <1>1 DEF Index
  <2> QED BY <1>2, <1>4, <2>1
<1>7. Holds(buf, key_buf_cnt + 1, Append(typed, Newline))
  <2>1. /\ Append(typed, Newline) \in Seq(Byte)
        /\ Len(Append(typed, Newline)) = key_buf_cnt + 1
        /\ Append(typed, Newline)[key_buf_cnt + 1] = Newline
        /\ \A k \in 1..key_buf_cnt : Append(typed, Newline)[k] = typed[k]
    BY <1>1, <1>2, AppendProperties
  <2>2. key_buf_cnt + 1 \in 0..KEYBOARD_BUF_SIZE
    BY <1>1
  <2>3. ASSUME NEW j \in 0..((key_buf_cnt + 1) - 1)
        PROVE  buf[j] = Append(typed, Newline)[j + 1]
    <3>1. CASE j = key_buf_cnt
      BY <1>4, <2>1, <3>1
    <3>2. CASE j # key_buf_cnt
      <4>1. j \in 0..(key_buf_cnt - 1) /\ j + 1 \in 1..key_buf_cnt
        BY <1>1, <3>2
      <4> QED BY <1>6, <2>1, <4>1
    <3> QED BY <3>1, <3>2
  <2> QED BY <1>4, <2>1, <2>2, <2>3 DEF Holds
<1>8. FinishRead(buf, key_buf_cnt + 1, user_ask_len, Append(typed, Newline))
  BY <1>5 DEF EnterReader, buf
<1>9. ReadDone
  <2>1. NoLine(buf, key_buf_cnt)
    BY <1>6 DEF NoLine
  <2> QED BY <1>1, <1>2, <1>7, <1>8, <2>1, LineRead
<1> QED BY <1>9, DoneIsKept

LEMMA EnterKeeps ==
  ASSUME TermInv, EnterReader
  PROVE  TermInv'
<1>1. KeysHeld'
  BY PressKeepsTypes DEF TermInv, KeysHeld, EnterReader
<1>2. Counted /\ user_ask_len \in ReadSizes
  BY DEF TermInv, Counted, EnterReader
<1>3. Counted' /\ (wrapped => StaysWrapped)
  <2>1. key_buf_cnt \in Nat /\ key_buf \in [Index -> Byte]
    BY <1>2 DEF Counted
  <2>2. Put(key_buf, key_buf_cnt, Newline) \in [Index -> Byte]
    BY <2>1, Constants, PutIsTyped
  <2>3. uint8(key_buf_cnt + 1) \in Nat
    BY <2>1, Bytes8
  <2> QED BY <1>2, <2>2, <2>3, FinishIsTyped DEF EnterReader, StaysWrapped
<1>4. ~wrapped => Kept
  BY <1>2, EnterBuffered DEF TermInv
<1> QED BY <1>1, <1>3, <1>4, Conclude, StillWrapped DEF Counted

LEMMA EraseBuffered ==
  ASSUME Counted, Buffered, Sleeper, NEW k \in Keys, Erase(k)
  PROVE  Kept
<1>1. /\ key_buf \in [Index -> Byte] /\ typed \in Seq(Byte) /\ Len(typed) = key_buf_cnt
      /\ \A j \in 0..(key_buf_cnt - 1) : key_buf[j] = typed[j + 1] /\ key_buf[j] # Newline
      /\ KEYBOARD_BUF_SIZE \in 1..255
      /\ key_buf_cnt \in Nat /\ key_buf_cnt < KEYBOARD_BUF_SIZE
  BY Constants DEF Buffered, Holds, NoLine
<1>2. CASE key_buf_cnt > 0
  <2> DEFINE cnt == key_buf_cnt - 1
             t == SubSeq(typed, 1, Len(typed) - 1)
  <2>1. cnt \in Nat /\ cnt < KEYBOARD_BUF_SIZE /\ cnt \in 0..KEYBOARD_BUF_SIZE
    BY <1>1, <1>2
  <2>2. /\ t \in Seq(Byte) /\ Len(t) = cnt
        /\ \A i \in 1..cnt : t[i] = typed[i]
    <3>1. \A i \in 1..cnt : typed[i] \in Byte
      <4> TAKE i \in 1..cnt
      <4>1. i \in 1..Len(typed)
        BY <1>1, <1>2
      <4> QED BY <1>1, <4>1, ElementOfSeq
    <3>2. /\ SubSeq(typed, 1, cnt) \in Seq(Byte)
          /\ Len(SubSeq(typed, 1, cnt)) = (IF 1 <= cnt THEN cnt - 1 + 1 ELSE 0)
          /\ \A i \in 1..(cnt - 1 + 1) : SubSeq(typed, 1, cnt)[i] = typed[1 + i - 1]
      <4>1. 1 \in Int /\ cnt \in Int
        BY <2>1
      <4> HIDE DEF cnt
      <4> QED BY <3>1, <4>1, SubSeqProperties
    <3>3. t = SubSeq(typed, 1, cnt)
      BY <1>1
    <3>4. cnt - 1 + 1 = cnt /\ \A i \in 1..cnt : 1 + i - 1 = i
      BY <2>1
    <3> HIDE DEF t, cnt
    <3> QED BY <2>1, <3>2, <3>3, <3>4
  <2>3. Edited(key_buf, cnt, t)
    BY <1>2 DEF Erase
  <2>4. \A j \in 0..(cnt - 1) : /\ j \in 0..(key_buf_cnt - 1) /\ j + 1 \in 1..cnt
    BY <1>1, <1>2
  <2> HIDE DEF cnt, t
  <2>5. Holds(key_buf, cnt, t) /\ NoLine(key_buf, cnt)
    BY <1>1, <2>1, <2>2, <2>4 DEF Holds, NoLine
  <2> QED BY <1>1, <2>1, <2>3, <2>5, EditedIsKept
<1>3. CASE ~(key_buf_cnt > 0)
  <2>1. Edited(key_buf, key_buf_cnt, typed)
    BY <1>3 DEF Erase
  <2> QED BY <1>1, <2>1, EditedIsKept DEF Buffered
<1> QED BY <1>2, <1>3

LEMMA TypeBuffered ==
  ASSUME capslock_status \in BOOLEAN, Counted, Buffered, Sleeper,
         NEW k \in Keys, Type(k)
  PROVE  Kept
<1>1. /\ key_buf \in [Index -> Byte] /\ typed \in Seq(Byte) /\ Len(typed) = key_buf_cnt
      /\ \A j \in 0..(key_buf_cnt - 1) : key_buf[j] = typed[j + 1] /\ key_buf[j] # Newline
      /\ KEYBOARD_BUF_SIZE \in 1..255
      /\ key_buf_cnt \in Nat /\ key_buf_cnt < KEYBOARD_BUF_SIZE
  BY Constants DEF Buffered, Holds, NoLine
<1>2. CASE HasRoom(key_buf_cnt)
  <2> DEFINE c == Meant(k, key_flags')
             buf == Put(key_buf, key_buf_cnt, Character(k, key_flags'))
             t == Append(typed, c)
             cnt == key_buf_cnt + 1
  <2>1. c \in Byte /\ c # Newline /\ Character(k, key_flags') = c
    <3>1. k \in Letters \cup Symbols /\ capslock_status \in BOOLEAN
      BY DEF Type
    <3> QED BY <3>1, TablesAgree
  <2>2. /\ cnt \in 1..KEYBOARD_BUF_SIZE /\ cnt < KEYBOARD_BUF_SIZE
        /\ key_buf_cnt \in Index
    BY <1>1, <1>2 DEF HasRoom, Index
  <2>3. Edited(buf, cnt, t)
    BY <1>2 DEF Type
  <2>4. buf = [key_buf EXCEPT ![key_buf_cnt] = c]
    BY <1>1, <2>1 DEF Put
  <2> HIDE DEF c
  <2>5. /\ buf \in [Index -> Byte] /\ buf[key_buf_cnt] = c
        /\ \A j \in Index : j # key_buf_cnt => buf[j] = key_buf[j]
    BY <1>1, <2>1, <2>2, <2>4
  <2>6. /\ t \in Seq(Byte) /\ Len(t) = cnt /\ t[cnt] = c
        /\ \A i \in 1..key_buf_cnt : t[i] = typed[i]
    BY <1>1, <2>1, AppendProperties
  <2> HIDE DEF buf, t
  <2>7. ASSUME NEW j \in 0..(cnt - 1)
        PROVE  buf[j] = t[j + 1] /\ buf[j] # Newline
    <3>1. CASE j = key_buf_cnt
      BY <2>1, <2>5, <2>6, <3>1
    <3>2. CASE j # key_buf_cnt
      <4>1. j \in 0..(key_buf_cnt - 1) /\ j + 1 \in 1..key_buf_cnt /\ j \in Index
        BY <1>1, <3>2 DEF Index
      <4> QED BY <1>1, <2>5, <2>6, <3>2, <4>1
    <3> QED BY <3>1, <3>2
  <2> HIDE DEF cnt
  <2>8. Holds(buf, cnt, t) /\ NoLine(buf, cnt)
    <3>1. cnt \in 0..KEYBOARD_BUF_SIZE
      BY <2>2
    <3> QED BY <2>5, <2>6, <2>7, <3>1 DEF Holds, NoLine
  <2> QED BY <1>1, <2>2, <2>3, <2>8, EditedIsKept
<1>3. CASE ~HasRoom(key_buf_cnt)
  <2>1. Edited(key_buf, key_buf_cnt, typed)
    BY <1>3 DEF Type
  <2> QED BY <1>1, <2>1, EditedIsKept DEF Buffered
<1> QED BY <1>2, <1>3

LEMMA EraseKeeps ==
  ASSUME TermInv, NEW k \in Keys, Erase(k)
  PROVE  TermInv'
<1>1. KeysHeld'
  BY PressKeepsTypes DEF TermInv, KeysHeld, Erase
<1>2. Counted
  BY DEF TermInv
<1>3. /\ key_buf \in [Index -> Byte] /\ key_buf_cnt \in 0..255
      /\ key_buf_cnt > 0 => key_buf_cnt - 1 \in 0..255
  BY <1>2 DEF Counted
<1>4. Counted' /\ (wrapped => StaysWrapped)
  <2>1. CASE key_buf_cnt > 0
    BY <1>2, <1>3, <2>1, EditedIsTyped DEF Erase
  <2>2. CASE ~(key_buf_cnt > 0)
    BY <1>2, <1>3, <2>2, EditedIsTyped DEF Erase
  <2> QED BY <2>1, <2>2
<1>5. ~wrapped => Kept
  BY <1>2, EraseBuffered DEF TermInv
<1> QED BY <1>1, <1>2, <1>4, <1>5, Conclude, StillWrapped DEF Counted

LEMMA TypeKeeps ==
  ASSUME TermInv, NEW k \in Keys, Type(k)
  PROVE  TermInv'
<1>1. KeysHeld'
  <2>1. capslock_status' = capslock_status /\ Press(k)
    BY DEF Type
  <2> QED BY <2>1, PressKeepsTypes DEF TermInv, KeysHeld
<1>2. Counted /\ capslock_status \in BOOLEAN
  BY DEF TermInv, KeysHeld
<1>3. Counted' /\ (wrapped => StaysWrapped)
  <2>1. CASE HasRoom(key_buf_cnt)
    <3> DEFINE buf == Put(key_buf, key_buf_cnt, Character(k, key_flags'))
               t == Append(typed, Meant(k, key_flags'))
    <3>1. Character(k, key_flags') \in Byte
      <4>1. k \in Letters \cup Symbols
        BY DEF Type
      <4> QED BY <1>2, <4>1, TablesAgree
    <3>2. key_buf \in [Index -> Byte] /\ key_buf_cnt \in Nat
      BY <1>2 DEF Counted
    <3>3. buf \in [Index -> Byte]
      BY <3>1, <3>2, PutIsTyped
    <3>4. Edited(buf, key_buf_cnt + 1, t)
      BY <2>1 DEF Type
    <3>5. key_buf_cnt + 1 \in 0..255
      BY <1>2, <2>1, Constants DEF HasRoom, Counted
    <3> HIDE DEF buf, t
    <3> QED BY <1>2, <3>3, <3>4, <3>5, EditedIsTyped
  <2>2. CASE ~HasRoom(key_buf_cnt)
    <3>1. Edited(key_buf, key_buf_cnt, typed)
      BY <2>2 DEF Type
    <3> QED BY <1>2, <3>1, EditedIsTyped DEF Counted
  <2> QED BY <2>1, <2>2
<1>4. ~wrapped => Kept
  BY <1>2, TypeBuffered DEF TermInv
<1> QED BY <1>1, <1>2, <1>3, <1>4, Conclude, StillWrapped DEF Counted

\* What moves no bytes keeps them.
LEMMA NothingMoved ==
  ASSUME TermInv, KeysHeld', reply' = NoReply,
         UNCHANGED <<key_buf, key_buf_cnt, user_ask_len, typed, wrapped>>
  PROVE  TermInv'
BY NothingRead DEF TermInv, Counted, Buffered, Sleeper

\* The other keys leave buffer and reader alone, or find nobody to wake.
LEMMA OtherKeysKeep ==
  ASSUME TermInv, NEW k \in Keys, Release(k) \/ ControlKey(k) \/ Modifier(k)
  PROVE  TermInv'
<1>1. CASE Release(k)
  <2>1. KeysHeld'
    BY <1>1, ReleaseKeepsTypes DEF TermInv, KeysHeld, Release
  <2> QED BY <1>1, <2>1, NothingMoved DEF Release, termVars
<1>2. CASE ControlKey(k)
  <2>1. KeysHeld'
    BY <1>2, PressKeepsTypes DEF TermInv, KeysHeld, ControlKey
  <2> QED BY <1>2, <2>1, NothingMoved DEF ControlKey, NoRead
<1>3. CASE Modifier(k)
  <2>1. KeysHeld'
    BY <1>3, PressKeepsTypes DEF TermInv, KeysHeld, Modifier
  <2>2. Edited(key_buf, key_buf_cnt, typed) /\ Counted
    BY <1>3 DEF Modifier, TermInv
  <2>3. Counted' /\ (wrapped => StaysWrapped)
    BY <2>2, EditedIsTyped DEF Counted
  <2>4. ~wrapped => Kept
    BY <2>2, EditedIsKept DEF TermInv, Buffered
  <2> QED BY <2>1, <2>2, <2>3, <2>4, Conclude, StillWrapped DEF Counted
<1> QED BY <1>1, <1>2, <1>3

LEMMA LockKeeps ==
  ASSUME TermInv, CapsLock
  PROVE  TermInv'
<1>1. KeysHeld'
  BY PressKeepsTypes DEF TermInv, KeysHeld, CapsLock
<1> QED BY <1>1, NothingMoved DEF CapsLock, NoRead

\* A line that nobody has asked for is dropped as a whole, and a wrapped count is
\* in order again.
LEMMA LineDropped ==
  ASSUME TermInv, EnterNobody
  PROVE  TermInv'
<1>1. KeysHeld'
  BY PressKeepsTypes DEF TermInv, KeysHeld, EnterNobody
<1>2. /\ key_buf_cnt' = 0 /\ typed' = <<>> /\ key_buf' = key_buf
      /\ user_ask_len' = 0 /\ reply' = NoReply /\ wrapped' = FALSE
  BY DEF EnterNobody
<1>3. <<>> \in Seq(Byte) /\ Len(<<>>) = 0
  BY EmptySeq
<1>4. /\ 0 \in 0..KEYBOARD_BUF_SIZE /\ 0 < KEYBOARD_BUF_SIZE
      /\ \A j \in 0..(0 - 1) : FALSE
  BY Constants
<1>5. Counted'
  <2>1. key_buf \in [Index -> Byte] /\ 0 \in 0..255
    BY DEF TermInv, Counted
  <2> QED BY <1>2, <2>1 DEF Counted
<1>6. Buffered'
  <2>1. key_buf' \in [Index -> Byte]
    BY <1>2 DEF TermInv, Counted
  <2> QED BY <1>2, <1>3, <1>4, <2>1 DEF Buffered, Holds, NoLine
<1> QED BY <1>1, <1>2, <1>5, <1>6, NothingRead DEF TermInv, Sleeper

-----------------------------------------------------------------------------
(***************************************************************************)
(* Theorems.                                                                *)
(***************************************************************************)
LEMMA Start == ASSUME Init PROVE TermInv
<1>1. KeysHeld
  BY Constants, FS_EmptySet DEF Init, KeysHeld
<1>2. /\ KEYBOARD_BUF_SIZE \in 1..255 /\ <<>> \in Seq(Byte) /\ Len(<<>>) = 0
      /\ NUL \in Byte /\ NUL # Newline
  BY Constants, EmptySeq
<1>3. Holds(key_buf, key_buf_cnt, typed) /\ key_buf_cnt < KEYBOARD_BUF_SIZE
  <2>1. key_buf \in [Index -> Byte]
    BY <1>2 DEF Init, Index
  <2>2. 0 \in 0..KEYBOARD_BUF_SIZE /\ 0 < KEYBOARD_BUF_SIZE /\ \A j \in 0..(0 - 1) : FALSE
    BY <1>2
  <2> QED BY <1>2, <2>1, <2>2 DEF Init, Holds
<1>4. NoLine(key_buf, key_buf_cnt) /\ Counted
  BY <1>2, <1>3 DEF Init, NoLine, Counted, Holds
<1>5. ReadGivesTyped
  <2>1. Len(<<>>) = 0 /\ SubSeq(<<>>, 1, 0) = <<>>
    BY EmptySeq, SubSeqEmpty
  <2>2. reply.gave = <<>> /\ reply.asked = 0 /\ reply.had = <<>>
    BY DEF Init, NoReply
  <2> QED BY <2>1, <2>2 DEF IsPrefix, ReadGivesTyped, EveryReadGivesTyped
<1> QED BY <1>1, <1>3, <1>4, <1>5 DEF Init, TermInv, Buffered, Sleeper

LEMMA EveryStep ==
  ASSUME TermInv, [Next]_vars
  PROVE  TermInv'
<1>1. ASSUME NEW k \in Keys, Release(k) \/ ControlKey(k) \/ Modifier(k) PROVE TermInv'
  BY <1>1, OtherKeysKeep
<1>2. ASSUME NEW k \in Keys, Erase(k) PROVE TermInv'
  BY <1>2, EraseKeeps
<1>3. ASSUME NEW k \in Keys, Type(k) PROVE TermInv'
  BY <1>3, TypeKeeps
<1>4. CASE EnterReader \/ EnterNobody \/ CapsLock
  BY <1>4, EnterKeeps, LineDropped, LockKeeps
<1>5. ASSUME NEW n \in ReadSizes, system_terminal_read(n) PROVE TermInv'
  BY <1>5, ReadKeeps
<1>6. CASE UNCHANGED vars
  BY <1>6 DEF vars, termVars, TermInv, KeysHeld, Counted, Buffered, Sleeper,
              ReadGivesTyped, EveryReadGivesTyped
<1> QED BY <1>1, <1>2, <1>3, <1>4, <1>5, <1>6 DEF Next

\* The inductive invariant: as long as key_buf_cnt has not wrapped, the bytes up to
\* it are what was typed and not yet read, with no newline among them, and a
\* sleeping reader has asked for more; newlines may lie anywhere behind it.
THEOREM TermInvHolds == Spec => []TermInv
<1>1. TermInv /\ [Next]_vars => TermInv'
  BY EveryStep
<1>2. Init => TermInv
  BY Start
<1> QED BY <1>1, <1>2, PTL DEF Spec

\* key_buf_cnt, a uint8_t, stays below the size of the buffer, Enter's newline
\* (stored without a check) included, unless a read has made it wrap.
THEOREM TerminalTypes == Spec => []TermTypeOK
<1>1. TermInv => TermTypeOK
  BY Constants DEF TermInv, KeysHeld, Counted, Buffered, Holds, TermTypeOK
<1> QED BY <1>1, TermInvHolds, PTL

\* system_terminal_read gives a beginning of what was typed, nbytes long or up
\* to an Enter, whatever handle_scan_code stored, erased or dropped before and
\* whatever sizes are mixed, up to the read that finds an old newline.
THEOREM ReadsGiveTyped == Spec => []ReadGivesTyped
<1>1. TermInv => ReadGivesTyped
  BY DEF TermInv
<1> QED BY <1>1, TermInvHolds, PTL

\* handle_scan_code wakes a reader in the very step in which it has enough.
THEOREM SleepersWait == Spec => []SleeperWaits
<1>1. ASSUME TermInv, ~wrapped, user_ask_len # 0
      PROVE  Len(typed) < user_ask_len /\ \A i \in DOMAIN typed : typed[i] # Newline
  <2>1. Len(typed) < user_ask_len
    BY <1>1 DEF TermInv, Buffered, Holds, Sleeper
  <2>2. ASSUME NEW i \in DOMAIN typed PROVE typed[i] # Newline
    <3>1. /\ typed \in Seq(Byte) /\ Len(typed) = key_buf_cnt /\ key_buf_cnt \in Nat
          /\ \A j \in 0..(key_buf_cnt - 1) :
               key_buf[j] = typed[j + 1] /\ key_buf[j] # Newline
      BY <1>1 DEF TermInv, Buffered, Holds, NoLine
    <3>2. i \in 1..key_buf_cnt
      BY <3>1, LenProperties
    <3>3. i - 1 \in 0..(key_buf_cnt - 1) /\ (i - 1) + 1 = i
      BY <3>1, <3>2
    <3> QED BY <3>1, <3>3
  <2> QED BY <2>1, <2>2
<1>2. TermInv => SleeperWaits
  BY <1>1 DEF SleeperWaits
<1> QED BY <1>2, TermInvHolds, PTL
=============================================================================
