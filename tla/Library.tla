------------------------------ MODULE Library -------------------------------
(***************************************************************************)
(* The C library of the kernel (lib.c) and of the programs                  *)
(* (ece391support.c).                                                       *)
(*                                                                          *)
(* A memory m is a function from addresses to characters, and a string is   *)
(* the characters from an address to the next NUL.  Comparisons give        *)
(* whether the code returns 0, which is all that their callers look at.     *)
(***************************************************************************)
EXTENDS Integers, Sequences, SequencesExt, FiniteSetsExt

CONSTANTS
  WIDTH,   \* bits of an integer that printf prints, 32 in the code
  SIZE,    \* bounds: bytes of the memories the properties are checked on,
  SHORT    \* and of those that hold strings

NUL == "NUL"

\* The block that holds a string, and the string at an address.
CString(text) ==
  [i \in 0..Len(text) |-> IF i = Len(text) THEN NUL ELSE text[i + 1]]
strlen(m, s) == Min({n \in 0..Cardinality(DOMAIN m) :
                       s + n \in DOMAIN m /\ m[s + n] = NUL})
Text(m, s) == [i \in 1..strlen(m, s) |-> m[s + i - 1]]

-----------------------------------------------------------------------------
(***************************************************************************)
(* Strings.                                                                 *)
(***************************************************************************)

\* One byte after the other, so the two may overlap.
CopyByte(m, to, from) == [m EXCEPT ![to] = m[from]]

strcpy(m, dest, src) ==
  LET copied[i \in Nat] ==
        IF i = 0 THEN m ELSE CopyByte(copied[i - 1], dest + i - 1, src + i - 1)
      n == Min({i \in 0..(Cardinality(DOMAIN m) - dest) :
                  src + i \in DOMAIN m /\ copied[i][src + i] = NUL})
  IN  [copied[n] EXCEPT ![dest + n] = NUL]

strncpy(m, dest, src, n) ==
  [a \in DOMAIN m |->
     IF a \notin dest..(dest + n - 1) THEN m[a]
     ELSE IF a - dest < strlen(m, src) THEN m[src + a - dest] ELSE NUL]

\* Where a comparison stops, and that it finds no difference there
Differs(m, s1, s2, i) == m[s1 + i] # m[s2 + i]
Stops(m, s1, s2, i) == Differs(m, s1, s2, i) \/ m[s1 + i] = NUL

strncmp(m, s1, s2, n) ==
  \A i \in 0..(n - 1) :
    (\A j \in 0..(i - 1) : ~Stops(m, s1, s2, j)) => ~Differs(m, s1, s2, i)

ece391_strncmp(m, s1, s2, n) ==
  \/ n = 0
  \/ \E i \in 0..(n - 1) :
       /\ \A j \in 0..(i - 1) : ~Stops(m, s1, s2, j)
       /\ m[s1 + i] = NUL \/ i = n - 1
       /\ ~Differs(m, s1, s2, i)

ece391_strcmp(m, s1, s2) ==
  \E i \in 0..strlen(m, s1) :
    /\ \A j \in 0..i : ~Differs(m, s1, s2, j)
    /\ m[s1 + i] = NUL

-----------------------------------------------------------------------------
(***************************************************************************)
(* Memory.  rep stos and rep movs go through count units of size bytes.     *)
(***************************************************************************)

\* Byte a - s of what is stored is taken from the unit, over and over.
stos(m, s, unit, count) ==
  [a \in DOMAIN m |-> IF a \in s..(s + Len(unit) * count - 1)
                      THEN unit[((a - s) % Len(unit)) + 1] ELSE m[a]]

MoveUnit(m, to, from, size) ==
  [a \in DOMAIN m |-> IF a \in to..(to + size - 1) THEN m[from + a - to] ELSE m[a]]

movs(m, dest, src, size, count) ==
  FoldLeft(LAMBDA mem, i : MoveUnit(mem, dest + size * i, src + size * i, size),
           m, [k \in 1..count |-> k - 1])
movs_down(m, dest, src, count) ==
  FoldLeft(LAMBDA mem, i : CopyByte(mem, dest + i, src + i),
           m, [k \in 1..count |-> count - k])

\* Single bytes until the destination is aligned, double words, and the rest.
ToAligned(s, n) == Min({k \in 0..n : k = n \/ (s + k) % 4 = 0})
Dwords(s, n) == (n - ToAligned(s, n)) \div 4
Rest(s, n) == (n - ToAligned(s, n)) % 4
RestAt(s, n) == s + ToAligned(s, n) + 4 * Dwords(s, n)

memset(m, s, c, n) ==
  LET first  == stos(m, s, <<c>>, ToAligned(s, n))
      dwords == stos(first, s + ToAligned(s, n), <<c, c, c, c>>, Dwords(s, n))
  IN  stos(dwords, RestAt(s, n), <<c>>, Rest(s, n))

memset_word(m, s, word, n) == stos(m, s, word, n)
memset_dword(m, s, dword, n) == stos(m, s, dword, n)

memcpy(m, dest, src, n) ==
  LET first  == movs(m, dest, src, 1, ToAligned(dest, n))
      dwords == movs(first, dest + ToAligned(dest, n), src + ToAligned(dest, n),
                     4, Dwords(dest, n))
  IN  movs(dwords, RestAt(dest, n), RestAt(dest, n) - dest + src, 1, Rest(dest, n))

\* Slip: from the first byte to the last, whatever overlaps.
memmove_up(m, dest, src, n) == movs(m, dest, src, 1, n)

memmove(m, dest, src, n) ==
  IF src >= dest THEN movs(m, dest, src, 1, n) ELSE movs_down(m, dest, src, n)

-----------------------------------------------------------------------------
(***************************************************************************)
(* Numbers.                                                                 *)
(***************************************************************************)
lookup == <<"0", "1", "2", "3", "4", "5", "6", "7", "8", "9",
            "A", "B", "C", "D", "E", "F">>

Swap(s, i, j) == [s EXCEPT ![i] = s[j], ![j] = s[i]]
strrev(s) == FoldLeft(LAMBDA t, beg : Swap(t, beg, Len(t) + 1 - beg),
                      s, [k \in 1..(Len(s) \div 2) |-> k])

itoa(value, radix) ==
  LET lowestFirst[v \in 0..value] ==
        IF v = 0 THEN <<>>
        ELSE <<lookup[(v % radix) + 1]>> \o lowestFirst[v \div radix]
  IN  IF value = 0 THEN <<"0">> ELSE strrev(lowestFirst[value])

\* %#x: the number is put at HEX in conv_buf, and zeros between its length and
\* there; printed is what is from its length on.
HEX == WIDTH \div 4
printf_alternate_x(value) ==
  LET number == itoa(value, 16)
      conv_buf == [i \in Len(number)..(HEX + Len(number) - 1) |->
                     IF i < HEX THEN "0" ELSE number[i - HEX + 1]]
  IN  [i \in 1..HEX |-> conv_buf[Len(number) + i - 1]]

\* %d: value is the bit pattern.
Negative(value) == value >= 2^(WIDTH - 1)
printf_d(value) ==
  IF Negative(value) THEN <<"-">> \o itoa(2^WIDTH - value, 10) ELSE itoa(value, 10)

-----------------------------------------------------------------------------
(* Properties *)

Address == 0..(SIZE - 1)
Marked == [a \in Address |-> a]             \* a memory whose bytes all differ
Strings == {m \in [0..(SHORT - 1) -> {"a", "b", NUL}] : m[SHORT - 1] = NUL}
Copied(m, dest, src, n) ==
  [a \in DOMAIN m |-> IF a \in dest..(dest + n - 1) THEN m[a - dest + src] ELSE m[a]]
Filled(m, s, n, byte(_)) ==
  [a \in Address |-> IF a \in s..(s + n - 1) THEN byte(a - s) ELSE m[a]]
FirstChars(m, s, n) == SubSeq(Text(m, s), 1, Min({n, strlen(m, s)}))
Value(digits, radix) ==
  FoldLeft(LAMBDA v, c : radix * v + SelectInSeq(lookup, LAMBDA d : d = c) - 1, 0, digits)
IsNumeral(digits, radix, value) ==
  /\ Value(digits, radix) = value
  /\ \A i \in DOMAIN digits : digits[i] \in ToSet(SubSeq(lookup, 1, radix))

Apart(p, q, n) == p + n <= q \/ q + n <= p

MemoryAgrees ==
  \A p \in Address, q \in Address : \A n \in 0..(SIZE - Max({p, q})) :
    /\ memset(Marked, p, "c", n) = Filled(Marked, p, n, LAMBDA i : "c")
    /\ p + 2 * n <= SIZE =>
         memset_word(Marked, p, <<"lo", "hi">>, n)
           = Filled(Marked, p, 2 * n, LAMBDA i : IF i % 2 = 0 THEN "lo" ELSE "hi")
    /\ p + 4 * n <= SIZE =>
         memset_dword(Marked, p, <<0, 1, 2, 3>>, n)
           = Filled(Marked, p, 4 * n, LAMBDA i : i % 4)
    /\ memmove(Marked, p, q, n) = Copied(Marked, p, q, n)
    /\ Apart(p, q, n) => memcpy(Marked, p, q, n) = Copied(Marked, p, q, n)

CopyAgrees(m, p, q) ==
  LET bytes == strlen(m, q) + 1
  IN  (Apart(p, q, bytes) /\ p + bytes <= Cardinality(DOMAIN m)) =>
        strcpy(m, p, q) = Copied(m, p, q, bytes)

StringsAgree ==
  \A m \in Strings : \A p \in DOMAIN m, q \in DOMAIN m :
    /\ CopyAgrees(m, p, q)
    /\ ece391_strcmp(m, p, q) <=> Text(m, p) = Text(m, q)
    /\ \A n \in 0..(SHORT - Max({p, q})) :
         /\ strncmp(m, p, q, n) <=> FirstChars(m, p, n) = FirstChars(m, q, n)
         /\ ece391_strncmp(m, p, q, n) <=> strncmp(m, p, q, n)
         /\ Apart(p, q, n) /\ strlen(m, q) < n =>
              Text(strncpy(m, p, q, n), p) = Text(m, q)

NumbersAgree ==
  \A value \in 0..(2^WIDTH - 1) :
    /\ \A radix \in 2..16 : /\ IsNumeral(itoa(value, radix), radix, value)
                             /\ value > 0 => itoa(value, radix)[1] # "0"
    /\ Len(printf_alternate_x(value)) = HEX
    /\ IsNumeral(printf_alternate_x(value), 16, value)
    /\ IF printf_d(value)[1] = "-"
       THEN IsNumeral(Tail(printf_d(value)), 10, 2^WIDTH - value)
       ELSE IsNumeral(printf_d(value), 10, value)
=============================================================================
