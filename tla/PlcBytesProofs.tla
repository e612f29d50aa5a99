---------------------------- MODULE PlcBytesProofs ----------------------------
(***************************************************************************)
(* Theorems about PlcBytes: what its operators do with texts, buffers and  *)
(* lists of any length.                                                    *)
(***************************************************************************)
EXTENDS PlcBytes, SequenceTheorems, WellFoundedInduction, TLAPS

(* Induction, over sets of numbers *)

LEMMA LessIsWellFounded ==
    \E R : IsWellFoundedOn(R, Nat) /\ \A m, n \in Nat : <<m, n>> \in R <=> m < n
<1> DEFINE R == {p \in Nat \X Nat : p[1] < p[2]}
<1>1. R = OpToRel(<, Nat)
  BY DEF OpToRel
<1>2. IsWellFoundedOn(R, Nat)
  BY <1>1, NatLessThanWellFounded, Zenon
<1>3. \A m, n \in Nat : <<m, n>> \in R <=> m < n
  OBVIOUS
<1> QED
  BY <1>2, <1>3

LEMMA Least ==
    ASSUME NEW T, T \subseteq Nat, T # {}
    PROVE  \E n \in T : \A m \in T : n <= m
<1>1. PICK R : IsWellFoundedOn(R, Nat) /\ \A m, n \in Nat : <<m, n>> \in R <=> m < n
  BY LessIsWellFounded
<1>2. IsWellFoundedOn(R, Nat)
  BY <1>1
<1>3. PICK n \in T : \A m \in T : ~ (<<m, n>> \in R)
  BY <1>2, WFMin, Zenon
<1>4. \A m \in T : m \in Nat /\ n \in Nat /\ ~(m < n)
  BY <1>1, <1>3
<1>5. \A m \in T : n <= m
  BY <1>4
<1> QED
  BY <1>3, <1>5

LEMMA Induction ==
    ASSUME NEW T, NEW low \in Nat, NEW high \in Nat,
           low \in T, \A n \in low .. high : n \in T /\ n < high => n + 1 \in T
    PROVE  \A n \in low .. high : n \in T
<1> DEFINE F == {n \in low .. high : n \notin T}
<1> SUFFICES ASSUME F # {} PROVE FALSE
  OBVIOUS
<1>1. F \subseteq Nat
  OBVIOUS
<1> HIDE DEF F
<1>2. PICK n \in F : \A m \in F : n <= m
  BY <1>1, Least
<1> USE DEF F
<1>3. n \in low .. high /\ n \notin T /\ n # low
  OBVIOUS
<1>4. n - 1 \in low .. high /\ n - 1 < high /\ n - 1 + 1 = n
  BY <1>3
<1>5. n - 1 \in F
  BY <1>3, <1>4
<1>6. n \in Nat /\ ~(n <= n - 1)
  BY <1>3
<1> QED
  BY <1>2, <1>5, <1>6
-----------------------------------------------------------------------------
(* Sequences *)

LEMMA SameSeq ==
    ASSUME NEW S, NEW T, NEW s \in Seq(S), NEW t \in Seq(T), Len(s) = Len(t),
           \A i \in 1 .. Len(s) : s[i] = t[i]
    PROVE  s = t
  OBVIOUS

\* r is s and then t; r is the n elements of b that follow the first from.
Joins(S, r, s, t) ==
    /\ r \in Seq(S)
    /\ Len(r) = Len(s) + Len(t)
    /\ \A i \in 1 .. Len(s) : r[i] = s[i]
    /\ \A i \in 1 .. Len(t) : r[Len(s) + i] = t[i]
Cuts(S, r, b, from, n) ==
    /\ r \in Seq(S)
    /\ Len(r) = n
    /\ \A i \in 1 .. n : r[i] = b[from + i]

LEMMA ConcatFacts ==
    ASSUME NEW S, NEW s \in Seq(S), NEW t \in Seq(S)
    PROVE  Joins(S, s \o t, s, t)
  BY DEF Joins

LEMMA SliceFacts ==
    ASSUME NEW S, NEW b \in Seq(S), NEW from \in Nat, NEW to \in Nat,
           from <= to, to <= Len(b)
    PROVE  Cuts(S, Slice(b, from, to), b, from, to - from)
<1>1. /\ Len(b) \in Nat /\ from + 1 \in Int /\ to \in Int
      /\ (IF to < Len(b) THEN to ELSE Len(b)) = to
  OBVIOUS
<1>2. Slice(b, from, to) = SubSeq(b, from + 1, to)
  BY <1>1 DEF Slice
<1>3. \A i \in from + 1 .. to : b[i] \in S
  BY <1>1
<1>4. /\ SubSeq(b, from + 1, to) \in Seq(S)
      /\ Len(SubSeq(b, from + 1, to)) = IF from + 1 <= to THEN to - (from + 1) + 1 ELSE 0
      /\ \A i \in 1 .. to - (from + 1) + 1 : SubSeq(b, from + 1, to)[i] = b[from + 1 + i - 1]
  BY <1>1, <1>3, SubSeqProperties
<1>5. to - (from + 1) + 1 = to - from /\ \A i \in Int : from + 1 + i - 1 = from + i
  BY <1>1
<1>6. Len(SubSeq(b, from + 1, to)) = to - from
  BY <1>1, <1>4
<1>7. \A i \in 1 .. to - from : SubSeq(b, from + 1, to)[i] = b[from + i]
  BY <1>4, <1>5
<1> QED
  BY <1>2, <1>4, <1>6, <1>7 DEF Cuts

\* A slice that reaches beyond the end is cut.
LEMMA SliceCut ==
    ASSUME NEW S, NEW b \in Seq(S), NEW from \in Nat, NEW to \in Nat, to >= Len(b)
    PROVE  Slice(b, from, to) = Slice(b, from, Len(b))
  BY DEF Slice

LEMMA ZerosFacts ==
    ASSUME NEW n \in Nat
    PROVE  /\ Zeros(n) \in Seq({0}) /\ Zeros(n) \in Seq(0 .. 255)
           /\ Len(Zeros(n)) = n
           /\ \A i \in 1 .. n : Zeros(n)[i] = 0
  BY DEF Zeros

\* What Python's slice assignment does to a buffer when the bytes have the length
\* of the slice: they are there, and no other byte has changed or moved.
THEOREM SpliceIsLocal ==
    ASSUME NEW S, NEW buf \in Seq(S), NEW bytes \in Seq(S), NEW from \in Nat,
           from + Len(bytes) <= Len(buf)
    PROVE  LET new == Splice(buf, from, Len(bytes), bytes)
           IN  /\ new \in Seq(S) /\ Len(new) = Len(buf)
               /\ Slice(new, from, from + Len(bytes)) = bytes
               /\ \A i \in 1 .. Len(buf) :
                     i \notin from + 1 .. from + Len(bytes) => new[i] = buf[i]
<1>1. PICK n, m, stop : n = Len(bytes) /\ m = Len(buf) /\ stop = from + n
  OBVIOUS
<1>2. /\ n \in Nat /\ m \in Nat /\ stop \in Nat /\ 0 \in Nat
      /\ 0 <= from /\ from <= stop /\ stop <= m /\ from <= m /\ m <= m
      /\ from - 0 = from /\ m - stop \in Nat /\ stop + (m - stop) = m /\ stop - from = n
  BY <1>1
<1>3. PICK a : a = Slice(buf, 0, from) /\ Cuts(S, a, buf, 0, from - 0)
  <2>1. from <= Len(buf)
    BY <1>1, <1>2
  <2> QED
    BY <1>2, <2>1, SliceFacts
<1>4. a \in Seq(S) /\ Len(a) = from /\ \A i \in 1 .. from : a[i] = buf[i]
  <2>1. \A i \in 1 .. from : 0 + i = i
    BY <1>2
  <2> QED
    BY <1>2, <1>3, <2>1 DEF Cuts
<1>5. PICK z : z = Slice(buf, stop, m) /\ Cuts(S, z, buf, stop, m - stop)
  <2>1. m <= Len(buf)
    BY <1>1, <1>2
  <2> QED
    BY <1>2, <2>1, SliceFacts
<1>6. z \in Seq(S) /\ Len(z) = m - stop /\ \A i \in 1 .. m - stop : z[i] = buf[stop + i]
  BY <1>5 DEF Cuts
<1>7. PICK b : b = a \o bytes /\ Joins(S, b, a, bytes)
  <2>1. a \in Seq(S)
    BY <1>4
  <2> QED
    BY <2>1, ConcatFacts
<1>8. /\ b \in Seq(S) /\ Len(b) = stop
      /\ \A i \in 1 .. from : b[i] = buf[i]
      /\ \A i \in 1 .. n : b[from + i] = bytes[i]
  BY <1>1, <1>4, <1>7 DEF Joins
<1>9. PICK new : new = b \o z /\ Joins(S, new, b, z)
  <2>1. b \in Seq(S) /\ z \in Seq(S)
    BY <1>6, <1>8
  <2> QED
    BY <2>1, ConcatFacts
<1>10. /\ new \in Seq(S) /\ Len(new) = m
       /\ \A i \in 1 .. stop : new[i] = b[i]
       /\ \A i \in 1 .. m - stop : new[stop + i] = z[i]
  BY <1>2, <1>6, <1>8, <1>9 DEF Joins
<1>11. \A i \in 1 .. n : new[from + i] = bytes[i]
  BY <1>1, <1>2, <1>8, <1>10
<1>12. ASSUME NEW i \in 1 .. m, i \notin from + 1 .. stop
       PROVE  new[i] = buf[i]
  <2>1. CASE i <= from
    BY <2>1, <1>2, <1>8, <1>10
  <2>2. CASE i > stop
    <3>1. i - stop \in 1 .. m - stop /\ stop + (i - stop) = i
      BY <1>2, <2>2
    <3> QED
      BY <3>1, <1>6, <1>10
  <2> QED
    BY <1>2, <1>12, <2>1, <2>2
<1>13. PICK there : there = Slice(new, from, stop) /\ Cuts(S, there, new, from, stop - from)
  <2>1. stop <= Len(new) /\ new \in Seq(S)
    BY <1>2, <1>10
  <2> QED
    BY <1>2, <2>1, SliceFacts
<1>14. there = bytes
  <2>1. /\ there \in Seq(S) /\ Len(there) = Len(bytes)
        /\ \A i \in 1 .. Len(there) : there[i] = bytes[i]
    BY <1>1, <1>2, <1>11, <1>13 DEF Cuts
  <2> QED
    BY <2>1, SameSeq
<1>15. new = Splice(buf, from, Len(bytes), bytes)
  BY <1>1, <1>3, <1>5, <1>7, <1>9 DEF Splice
<1> QED
  BY <1>1, <1>10, <1>12, <1>13, <1>14, <1>15, Zenon
-----------------------------------------------------------------------------
(* Texts of two bytes a character *)

Octet == 0 .. 255
\* Characters of one code unit that are not the terminator.
Wide == 1 .. 65535

LEMMA WideBounds ==
    /\ 0 \notin Wide
    /\ \A x \in Wide : x \in Nat /\ x \in Int /\ 1 <= x /\ x <= 65535
  BY DEF Wide

LEMMA Quotient ==
    ASSUME NEW x \in Nat
    PROVE  x % 256 \in Nat /\ x % 256 <= 255 /\ x = (256 * (x \div 256)) + (x % 256)
  OBVIOUS

LEMMA Halves ==
    /\ \A x \in Wide : /\ x % 256 \in Octet /\ x \div 256 \in Octet
                       /\ (x % 256) + (256 * (x \div 256)) = x
    /\ \A i \in Nat : (2 * i) % 2 = 0 /\ (2 * i) \div 2 = i
    /\ \A i \in Nat \ {0} : /\ (2 * i - 1) % 2 = 1 /\ (2 * i - 1 + 1) \div 2 = i
                            /\ 2 * i - 1 \in Nat \ {0}
    /\ \A j \in Nat \ {0} : j % 2 = 1 => \E i \in Nat \ {0} : j = 2 * i - 1
    /\ \A j \in Nat \ {0} : j % 2 # 1 => \E i \in Nat \ {0} : j = 2 * i
<1>1. ASSUME NEW x \in Wide
      PROVE  /\ x % 256 \in Octet /\ x \div 256 \in Octet
             /\ (x % 256) + (256 * (x \div 256)) = x
  <2>1. x \in Int /\ 1 <= x /\ x <= 65535 /\ x \in Nat
    BY WideBounds
  <2>2. x % 256 \in Int /\ 0 <= x % 256 /\ x % 256 <= 255
    BY <2>1, Quotient
  <2>3. x \div 256 \in Int /\ (256 * (x \div 256)) + (x % 256) = x
    BY <2>1
  <2>4. 0 <= x \div 256 /\ x \div 256 <= 255
    BY <2>1, <2>2, <2>3
  <2>5. (x % 256) + (256 * (x \div 256)) = x
    BY <2>1, <2>2, <2>3
  <2>6. x % 256 \in Octet /\ x \div 256 \in Octet
    BY <2>1, <2>2, <2>3, <2>4 DEF Octet
  <2> QED
    BY <2>5, <2>6
<1>2. \A i \in Nat : (2 * i) % 2 = 0 /\ (2 * i) \div 2 = i
  OBVIOUS
<1>3. \A i \in Nat \ {0} : /\ (2 * i - 1) % 2 = 1 /\ (2 * i - 1 + 1) \div 2 = i
                           /\ 2 * i - 1 \in Nat \ {0}
  OBVIOUS
<1>4. ASSUME NEW j \in Nat \ {0}, j % 2 = 1
      PROVE  \E i \in Nat \ {0} : j = 2 * i - 1
  <2>1. (j + 1) \div 2 \in Nat \ {0} /\ j = 2 * ((j + 1) \div 2) - 1
    BY <1>4
  <2> QED
    BY <2>1
<1>5. ASSUME NEW j \in Nat \ {0}, j % 2 # 1
      PROVE  \E i \in Nat \ {0} : j = 2 * i
  <2>1. j \div 2 \in Nat \ {0} /\ j = 2 * (j \div 2)
    BY <1>5
  <2> QED
    BY <2>1
<1> QED
  BY <1>1, <1>2, <1>3, <1>4, <1>5

\* The bytes u are those of text t, two for each character, low byte first.
Encodes(u, t) ==
    /\ u \in Seq(Octet)
    /\ Len(u) = 2 * Len(t)
    /\ \A i \in 1 .. Len(t) : u[2 * i - 1] + (256 * u[2 * i]) = t[i]

LEMMA Utf16Facts ==
    ASSUME NEW t \in Seq(Wide)
    PROVE  Encodes(Utf16(t), t)
<1>1. PICK n, u : n = Len(t) /\ u = Utf16(t)
  OBVIOUS
<1>2. n \in Nat /\ \A i \in 1 .. n : t[i] \in Wide
  BY <1>1
<1>3. u = [i \in 1 .. 2 * n |->
             IF i % 2 = 1 THEN t[(i + 1) \div 2] % 256 ELSE t[i \div 2] \div 256]
  BY <1>1 DEF Utf16
<1>4. ASSUME NEW i \in 1 .. n
      PROVE  /\ u[2 * i - 1] = t[i] % 256
             /\ u[2 * i] = t[i] \div 256
  <2>1. /\ 2 * i - 1 \in 1 .. 2 * n /\ 2 * i \in 1 .. 2 * n
        /\ (2 * i - 1) % 2 = 1 /\ (2 * i - 1 + 1) \div 2 = i
        /\ (2 * i) % 2 = 0 /\ (2 * i) \div 2 = i
    BY <1>2, Halves
  <2> QED
    BY <1>3, <2>1
<1>5. ASSUME NEW j \in 1 .. 2 * n
      PROVE  u[j] \in Octet
  <2> j \in Nat \ {0}
    BY <1>2
  <2>1. CASE j % 2 = 1
    <3>1. PICK i \in Nat \ {0} : j = 2 * i - 1
      BY <2>1, Halves
    <3>2. i \in 1 .. n
      BY <3>1, <1>2
    <3>3. t[i] \in Wide /\ u[j] = t[i] % 256
      BY <3>1, <3>2, <1>2, <1>4
    <3> QED
      BY <3>3, Halves
  <2>2. CASE j % 2 # 1
    <3>1. PICK i \in Nat \ {0} : j = 2 * i
      BY <2>2, Halves
    <3>2. i \in 1 .. n
      BY <3>1, <1>2
    <3>3. t[i] \in Wide /\ u[j] = t[i] \div 256
      BY <3>1, <3>2, <1>2, <1>4
    <3> QED
      BY <3>3, Halves
  <2> QED
    BY <2>1, <2>2
<1>6. u \in Seq(Octet) /\ Len(u) = 2 * n
  BY <1>2, <1>3, <1>5
<1>7. \A i \in 1 .. n : u[2 * i - 1] + (256 * u[2 * i]) = t[i]
  BY <1>2, <1>4, Halves
<1> QED
  BY <1>1, <1>6, <1>7 DEF Encodes

LEMMA DecodeFacts ==
    ASSUME NEW t \in Seq(Wide), NEW u, Encodes(u, t)
    PROVE  Decode16(u) = t
<1>1. PICK n \in Nat : n = Len(t)
  OBVIOUS
<1>2. /\ Len(u) = 2 * n /\ (2 * n) % 2 = 0 /\ (2 * n) \div 2 = n
      /\ \A i \in 1 .. n : u[2 * i - 1] + (256 * u[2 * i]) = t[i]
  BY <1>1, Halves DEF Encodes
<1>3. Decode16(u) = [i \in 1 .. n |-> u[2 * i - 1] + (256 * u[2 * i])]
  BY <1>2 DEF Decode16
<1>4. t = [i \in 1 .. n |-> t[i]]
  BY <1>1
<1>5. [i \in 1 .. n |-> u[2 * i - 1] + (256 * u[2 * i])] = [i \in 1 .. n |-> t[i]]
  BY <1>2
<1> QED
  BY <1>3, <1>4, <1>5

\* The buffer c holds text t and then a terminator, where a terminator may be.
Shows(c, t) ==
    /\ 2 * Len(t) + 2 <= Len(c)
    /\ c[2 * Len(t) + 1] = 0 /\ c[2 * Len(t) + 2] = 0
    /\ \A i \in 1 .. Len(t) : c[2 * i - 1] + (256 * c[2 * i]) = t[i]

LEMMA NullFound ==
    ASSUME NEW c \in Seq(Octet), NEW t \in Seq(Wide), Shows(c, t)
    PROVE  Null16(c) = 2 * Len(t)
<1>1. PICK n, m : n = Len(t) /\ m = Len(c)
  OBVIOUS
<1>2. /\ n \in Nat /\ m \in Nat /\ 2 * n + 2 <= m /\ c[2 * n + 1] = 0 /\ c[2 * n + 2] = 0
      /\ \A i \in 1 .. n : t[i] \in Wide /\ c[2 * i - 1] + (256 * c[2 * i]) = t[i]
  BY <1>1 DEF Shows
<1>3. PICK at : at = {i \in 1 .. m - 1 : i % 2 = 1 /\ c[i] = 0 /\ c[i + 1] = 0}
  OBVIOUS
<1>4. 2 * n + 1 \in at
  <2>1. /\ 2 * n + 1 \in 1 .. m - 1 /\ (2 * n + 1) % 2 = 1 /\ 2 * n + 1 + 1 = 2 * n + 2
    BY <1>2
  <2> QED
    BY <1>2, <1>3, <2>1
<1>5. ASSUME NEW j \in at
      PROVE  2 * n + 1 <= j /\ j \in Nat
  <2>1. j \in 1 .. m - 1 /\ j % 2 = 1 /\ c[j] = 0 /\ c[j + 1] = 0
    BY <1>3
  <2> j \in Nat \ {0}
    BY <1>2, <2>1
  <2>2. PICK i \in Nat \ {0} : j = 2 * i - 1
    BY <2>1, Halves
  <2>3. j + 1 = 2 * i
    BY <2>2
  <2>4. c[2 * i - 1] = 0 /\ c[2 * i] = 0
    BY <2>1, <2>2, <2>3
  <2>5. i \notin 1 .. n
    <3> SUFFICES ASSUME i \in 1 .. n PROVE FALSE
      OBVIOUS
    <3>1. t[i] \in Wide /\ c[2 * i - 1] + (256 * c[2 * i]) = t[i]
      BY <1>2
    <3>2. t[i] = 0 + (256 * 0)
      BY <2>4, <3>1
    <3>3. t[i] = 0
      BY <3>2
    <3> QED
      BY <3>1, <3>3, WideBounds
  <2> QED
    BY <1>2, <2>2, <2>5
<1>6. PICK k \in Nat : k = 2 * n + 1
  BY <1>2
<1>7. k \in at /\ \A j \in at : k <= j /\ j \in Nat
  BY <1>4, <1>5, <1>6
<1>8. (CHOOSE i \in at : \A j \in at : i <= j) = k
  <2>1. \A i \in at : (\A j \in at : i <= j) => i = k
    BY <1>6, <1>7
  <2> QED
    BY <1>7, <2>1
<1>9. Null16(c) = k - 1
  <2>1. at # {}
    BY <1>7
  <2>2. Null16(c) = (CHOOSE i \in at : \A j \in at : i <= j) - 1
    BY <1>1, <1>3, <2>1 DEF Null16
  <2> QED
    BY <1>8, <2>2
<1> QED
  BY <1>1, <1>2, <1>6, <1>9

LEMMA WideText ==
    ASSUME NEW c \in Seq(Octet), NEW t \in Seq(Wide), Shows(c, t)
    PROVE  Decode16(Before(c, Null16(c))) = t
<1>1. PICK n, m, stop : n = Len(t) /\ m = Len(c) /\ stop = 2 * n
  OBVIOUS
<1>2. /\ n \in Nat /\ stop \in Nat /\ 0 \in Nat /\ 0 <= stop /\ stop <= m
      /\ stop - 0 = stop /\ stop # -1 /\ m \in Nat
  BY <1>1 DEF Shows
<1>3. Null16(c) = stop
  BY <1>1, NullFound
<1>4. Before(c, Null16(c)) = Slice(c, 0, stop)
  BY <1>2, <1>3 DEF Before
<1>5. PICK b : b = Slice(c, 0, stop) /\ Cuts(Octet, b, c, 0, stop - 0)
  <2>1. stop <= Len(c)
    BY <1>1, <1>2
  <2> QED
    BY <1>2, <2>1, SliceFacts
<1>6. /\ b \in Seq(Octet) /\ Len(b) = stop
      /\ \A i \in 1 .. stop : b[i] = c[i]
  <2>1. \A i \in 1 .. stop : 0 + i = i
    BY <1>2
  <2> QED
    BY <1>2, <1>5, <2>1 DEF Cuts
<1>7. \A i \in 1 .. n : 2 * i - 1 \in 1 .. stop /\ 2 * i \in 1 .. stop
  BY <1>1, <1>2
<1>8. \A i \in 1 .. n : b[2 * i - 1] + (256 * b[2 * i]) = t[i]
  BY <1>1, <1>6, <1>7 DEF Shows
<1>9. Encodes(b, t)
  BY <1>1, <1>6, <1>8 DEF Encodes
<1> QED
  BY <1>4, <1>5, <1>9, DecodeFacts

\* The bytes of a text decode to the text, and their number is even.
LEMMA WideShown ==
    ASSUME NEW u \in Seq(Octet), NEW r \in Seq(Octet), NEW t \in Seq(Wide), Encodes(u, t),
           NEW c, Joins(Octet, c, u, r),
           Len(r) >= 2, r[1] = 0, r[2] = 0
    PROVE  c \in Seq(Octet) /\ Shows(c, t)
<1>1. PICK n, k : n = Len(t) /\ k = Len(r)
  OBVIOUS
<1>2. /\ n \in Nat /\ k \in Nat /\ k >= 2 /\ Len(u) = 2 * n
      /\ \A i \in 1 .. n : u[2 * i - 1] + (256 * u[2 * i]) = t[i]
  BY <1>1 DEF Encodes
<1>3. /\ c \in Seq(Octet) /\ Len(c) = 2 * n + k
      /\ \A i \in 1 .. 2 * n : c[i] = u[i]
      /\ \A i \in 1 .. k : c[2 * n + i] = r[i]
  BY <1>1, <1>2 DEF Joins
<1>4. c[2 * n + 1] = 0 /\ c[2 * n + 2] = 0 /\ 2 * n + 2 <= Len(c)
  <2>1. 1 \in 1 .. k /\ 2 \in 1 .. k
    BY <1>2
  <2> QED
    BY <1>2, <1>3, <2>1
<1>5. ASSUME NEW i \in 1 .. n
      PROVE  c[2 * i - 1] + (256 * c[2 * i]) = t[i]
  <2>1. 2 * i - 1 \in 1 .. 2 * n /\ 2 * i \in 1 .. 2 * n
    BY <1>2
  <2> QED
    BY <1>2, <1>3, <2>1
<1> QED
  BY <1>1, <1>3, <1>4, <1>5 DEF Shows

\* A WSTRING that is followed by its terminator is read back whatever comes
\* after: the scan for the terminator looks at whole characters, so the zero
\* high byte of one and the zero low byte of the next never end the text.
THEOREM WideRoundTrip ==
    ASSUME NEW t \in Seq(Wide), NEW rest \in Seq(Octet)
    PROVE  LET c == Utf16(t) \o (<<0, 0>> \o rest)
           IN  Null16(c) = 2 * Len(t) /\ Decode16(Before(c, Null16(c))) = t
<1>1. PICK u : u = Utf16(t) /\ Encodes(u, t)
  BY Utf16Facts
<1>2. u \in Seq(Octet)
  BY <1>1 DEF Encodes
<1>3. PICK z : z \in Seq(Octet) /\ z = <<0, 0>>
  <2>1. 0 \in Octet
    BY DEF Octet
  <2>2. <<0, 0>> \in Seq(Octet)
    BY <2>1
  <2> QED
    BY <2>2
<1>4. PICK r : r = z \o rest /\ Joins(Octet, r, z, rest)
  <2>1. z \in Seq(Octet)
    BY <1>3
  <2> QED
    BY <2>1, ConcatFacts
<1>5. r \in Seq(Octet) /\ Len(r) >= 2 /\ r[1] = 0 /\ r[2] = 0
  <2>1. Len(z) = 2 /\ z[1] = 0 /\ z[2] = 0 /\ Len(rest) \in Nat
    BY <1>3
  <2> QED
    BY <1>4, <2>1 DEF Joins
<1>6. PICK c : c = u \o r /\ Joins(Octet, c, u, r)
  BY <1>2, <1>5, ConcatFacts
<1>7. c \in Seq(Octet) /\ Shows(c, t)
  BY <1>1, <1>2, <1>5, <1>6, WideShown
<1>8. Null16(c) = 2 * Len(t) /\ Decode16(Before(c, Null16(c))) = t
  BY <1>7, NullFound, WideText
<1> QED
  BY <1>1, <1>3, <1>4, <1>6, <1>8

LEMMA ZeroOctets ==
    ASSUME NEW n \in Nat
    PROVE  /\ Zeros(n) \in Seq(Octet) /\ Len(Zeros(n)) = n
           /\ \A i \in 1 .. n : Zeros(n)[i] = 0
  BY ZerosFacts DEF Octet

\* A WSTRING item of a structure: the bytes that bytes_from_dict makes of a text
\* that fits are as many as size_of_structure counts for it, and dict_from_bytes
\* gives the text back.
THEOREM WideFieldRoundTrip ==
    ASSUME NEW d, d.kind = "WSTRING", d.chars \in Nat,
           NEW t \in Seq(Wide), Len(t) <= Chars(d)
    PROVE  LET field == Utf16(t) \o Padding(d, t)
           IN  /\ Len(field) = TextWidth(d)
               /\ Decode16(Before(field, Null16(field))) = t
<1>1. PICK n, most, k : n = Len(t) /\ most = Chars(d) /\ k = 2 * (most + 1) - 2 * n
  OBVIOUS
<1>2. n \in Nat /\ most \in Nat /\ k \in Nat /\ k >= 2 /\ 2 * n + k = 2 * (most + 1)
  <2>1. Chars(d) \in Nat
    BY DefaultCharsAssumption DEF Chars
  <2>2. n \in Nat /\ most \in Nat /\ n <= most
    BY <1>1, <2>1
  <2> QED
    BY <1>1, <2>2
<1>3. Padding(d, t) = Zeros(k) /\ TextWidth(d) = 2 * (most + 1)
  BY <1>1 DEF Padding, TextWidth
<1>4. PICK u : u = Utf16(t) /\ Encodes(u, t)
  BY Utf16Facts
<1>5. u \in Seq(Octet) /\ Len(u) = 2 * n
  BY <1>1, <1>4 DEF Encodes
<1>6. PICK z : z = Zeros(k) /\ z \in Seq(Octet) /\ Len(z) = k /\ \A i \in 1 .. k : z[i] = 0
  BY <1>2, ZeroOctets
<1>7. PICK field : field = u \o z /\ Joins(Octet, field, u, z)
  <2>1. u \in Seq(Octet) /\ z \in Seq(Octet)
    BY <1>5, <1>6
  <2> QED
    BY <2>1, ConcatFacts
<1>8. Len(z) >= 2 /\ z[1] = 0 /\ z[2] = 0
  BY <1>2, <1>6
<1>9. field \in Seq(Octet) /\ Shows(field, t)
  <2>1. u \in Seq(Octet) /\ z \in Seq(Octet)
    BY <1>5, <1>6
  <2> QED
    BY <2>1, <1>4, <1>7, <1>8, WideShown
<1>10. Decode16(Before(field, Null16(field))) = t
  BY <1>9, WideText
<1>11. Len(field) = TextWidth(d)
  BY <1>2, <1>3, <1>5, <1>6, <1>7 DEF Joins
<1> QED
  BY <1>3, <1>4, <1>6, <1>7, <1>10, <1>11

\* A variable that shows o, is overwritten with the bytes of t and read again:
\* a WSTRING goes without its terminator, so that as much of the old text stays
\* as is longer than the new one, and nothing is lost but what was replaced.
THEOREM WideWriteLeavesTail ==
    ASSUME NEW o \in Seq(Wide), NEW t \in Seq(Wide), NEW room \in Nat,
           Len(t) <= Len(o) + room
    PROVE  LET old == Utf16(o) \o Zeros(2 * room)
           IN  WideValue(Overwritten(old, Utf16(t))) =
                  IF Len(t) >= Len(o) THEN t ELSE t \o SubSeq(o, Len(t) + 1, Len(o))
<1>1. PICK n, k, m, cut : /\ n = Len(t) /\ k = Len(o) /\ m = 2 * k + 2 * room
                          /\ cut = 2 * n
  OBVIOUS
<1>2. /\ n \in Nat /\ k \in Nat /\ m \in Nat /\ cut \in Nat /\ cut <= m /\ m - cut \in Nat
      /\ 2 * room \in Nat
      /\ \A i \in 1 .. n : t[i] \in Wide
      /\ \A i \in 1 .. k : o[i] \in Wide
  BY <1>1
<1>3. PICK u : u = Utf16(t) /\ Encodes(u, t)
  BY Utf16Facts
<1>4. /\ u \in Seq(Octet) /\ Len(u) = cut
      /\ \A i \in 1 .. n : u[2 * i - 1] + (256 * u[2 * i]) = t[i]
  BY <1>1, <1>3 DEF Encodes
<1>5. PICK p : p = Utf16(o) /\ Encodes(p, o)
  BY Utf16Facts
<1>6. /\ p \in Seq(Octet) /\ Len(p) = 2 * k
      /\ \A i \in 1 .. k : p[2 * i - 1] + (256 * p[2 * i]) = o[i]
  BY <1>1, <1>5 DEF Encodes
<1>7. PICK z : /\ z = Zeros(2 * room) /\ z \in Seq(Octet) /\ Len(z) = 2 * room
               /\ \A i \in 1 .. 2 * room : z[i] = 0
  BY <1>2, ZeroOctets
<1>8. PICK old : old = p \o z /\ Joins(Octet, old, p, z)
  <2>1. p \in Seq(Octet) /\ z \in Seq(Octet)
    BY <1>6, <1>7
  <2> QED
    BY <2>1, ConcatFacts
<1>9. /\ old \in Seq(Octet) /\ Len(old) = m
      /\ \A i \in 1 .. 2 * k : old[i] = p[i]
      /\ \A i \in 1 .. 2 * room : old[2 * k + i] = 0
  <2>1. /\ old \in Seq(Octet) /\ Len(old) = 2 * k + 2 * room
        /\ \A i \in 1 .. 2 * k : old[i] = p[i]
        /\ \A i \in 1 .. 2 * room : old[2 * k + i] = z[i]
    BY <1>6, <1>7, <1>8 DEF Joins
  <2> QED
    BY <2>1, <1>1, <1>7
<1>10. PICK tail : tail = Slice(old, cut, m) /\ Cuts(Octet, tail, old, cut, m - cut)
  <2>1. m <= Len(old) /\ old \in Seq(Octet)
    BY <1>2, <1>9
  <2> QED
    BY <1>2, <2>1, SliceFacts
<1>11. /\ tail \in Seq(Octet) /\ Len(tail) = m - cut
       /\ \A i \in 1 .. m - cut : tail[i] = old[cut + i]
  BY <1>10 DEF Cuts
<1>12. PICK b : b = u \o tail /\ Joins(Octet, b, u, tail)
  <2>1. u \in Seq(Octet) /\ tail \in Seq(Octet)
    BY <1>4, <1>11
  <2> QED
    BY <2>1, ConcatFacts
<1>13. /\ b \in Seq(Octet) /\ Len(b) = m
       /\ \A i \in 1 .. cut : b[i] = u[i]
       /\ \A i \in 1 .. m - cut : b[cut + i] = old[cut + i]
  <2>1. /\ b \in Seq(Octet) /\ Len(b) = cut + (m - cut)
        /\ \A i \in 1 .. cut : b[i] = u[i]
        /\ \A i \in 1 .. m - cut : b[cut + i] = tail[i]
    BY <1>4, <1>11, <1>12 DEF Joins
  <2>2. cut + (m - cut) = m
    BY <1>2
  <2> QED
    BY <2>1, <2>2, <1>11
<1>14. PICK y : y = Zeros(2) /\ y \in Seq(Octet) /\ Len(y) = 2 /\ y[1] = 0 /\ y[2] = 0
  <2>1. 2 \in Nat /\ 1 \in 1 .. 2 /\ 2 \in 1 .. 2
    OBVIOUS
  <2> QED
    BY <2>1, ZeroOctets
<1>15. PICK c : c = b \o y /\ Joins(Octet, c, b, y)
  <2>1. b \in Seq(Octet) /\ y \in Seq(Octet)
    BY <1>13, <1>14
  <2> QED
    BY <2>1, ConcatFacts
<1>16. /\ c \in Seq(Octet) /\ Len(c) = m + 2
       /\ \A i \in 1 .. m : c[i] = b[i]
       /\ c[m + 1] = 0 /\ c[m + 2] = 0
  <2>1. /\ c \in Seq(Octet) /\ Len(c) = m + 2
        /\ \A i \in 1 .. m : c[i] = b[i]
        /\ \A i \in 1 .. 2 : c[m + i] = y[i]
    BY <1>13, <1>14, <1>15 DEF Joins
  <2>2. 1 \in 1 .. 2 /\ 2 \in 1 .. 2
    OBVIOUS
  <2> QED
    BY <2>1, <2>2, <1>14
<1>17. WideValue(Overwritten(old, u)) = Decode16(Before(c, Null16(c)))
  <2>1. Overwritten(old, u) = b
    BY <1>4, <1>9, <1>10, <1>12 DEF Overwritten
  <2> QED
    BY <2>1, <1>14, <1>15 DEF WideValue
<1>18. \A i \in 1 .. n : c[2 * i - 1] + (256 * c[2 * i]) = t[i]
  <2>1. TAKE i \in 1 .. n
  <2>2. /\ 2 * i - 1 \in 1 .. cut /\ 2 * i \in 1 .. cut
        /\ 2 * i - 1 \in 1 .. m /\ 2 * i \in 1 .. m
    BY <1>1, <1>2
  <2> QED
    BY <2>2, <1>4, <1>13, <1>16
\* Past the new text the buffer is as it was.
<1>19. \A j \in cut + 1 .. m : c[j] = old[j]
  <2>1. TAKE j \in cut + 1 .. m
  <2>2. j - cut \in 1 .. m - cut /\ cut + (j - cut) = j /\ j \in 1 .. m
    BY <1>2
  <2> QED
    BY <2>2, <1>13, <1>16
<1>20. \A j \in 2 * k + 1 .. m : old[j] = 0
  <2>1. TAKE j \in 2 * k + 1 .. m
  <2>2. j - 2 * k \in 1 .. 2 * room /\ 2 * k + (j - 2 * k) = j
    BY <1>1, <1>2
  <2> QED
    BY <2>2, <1>9
<1>21. CASE n >= k
  <2>1. c[2 * n + 1] = 0 /\ c[2 * n + 2] = 0 /\ 2 * n + 2 <= m + 2
    <3>1. CASE cut = m
      <4>1. 2 * n + 1 = m + 1 /\ 2 * n + 2 = m + 2
        BY <3>1, <1>1
      <4>2. 2 * n + 2 <= m + 2
        BY <3>1, <1>1, <1>2
      <4> QED
        BY <4>1, <4>2, <1>16
    <3>2. CASE cut < m
      <4>1. /\ 2 * n + 1 \in cut + 1 .. m /\ 2 * n + 2 \in cut + 1 .. m
            /\ 2 * n + 1 \in 2 * k + 1 .. m /\ 2 * n + 2 \in 2 * k + 1 .. m
            /\ 2 * n + 2 <= m + 2
        BY <3>2, <1>1, <1>2, <1>21
      <4> QED
        BY <4>1, <1>19, <1>20
    <3> QED
      BY <1>2, <3>1, <3>2
  <2>2. Shows(c, t)
    BY <2>1, <1>1, <1>16, <1>18 DEF Shows
  <2>3. Decode16(Before(c, Null16(c))) = t
    BY <2>2, <1>16, WideText
  <2> QED
    BY <2>3, <1>1, <1>3, <1>5, <1>7, <1>8, <1>17, <1>21
<1>22. CASE n < k
  <2>1. PICK e, l : e = SubSeq(o, n + 1, k) /\ l = k - n
    OBVIOUS
  <2>2. /\ e \in Seq(Wide) /\ Len(e) = l /\ l \in Nat
        /\ \A i \in 1 .. l : e[i] = o[n + i]
    <3>1. Slice(o, n, k) = e
      BY <1>1, <1>2, <2>1 DEF Slice
    <3>2. n <= k /\ k <= Len(o)
      BY <1>1, <1>2, <1>22
    <3>3. Cuts(Wide, Slice(o, n, k), o, n, k - n)
      BY <1>2, <3>2, SliceFacts
    <3> QED
      BY <1>2, <1>22, <2>1, <3>1, <3>3 DEF Cuts
  <2>3. PICK s : s = t \o e /\ Joins(Wide, s, t, e)
    <3>1. e \in Seq(Wide)
      BY <2>2
    <3> QED
      BY <3>1, ConcatFacts
  <2>4. /\ s \in Seq(Wide) /\ Len(s) = k
        /\ \A i \in 1 .. n : s[i] = t[i]
        /\ \A i \in 1 .. l : s[n + i] = o[n + i]
    <3>1. n + l = k
      BY <1>2, <2>1
    <3>2. /\ s \in Seq(Wide) /\ Len(s) = n + l
          /\ \A i \in 1 .. n : s[i] = t[i]
          /\ \A i \in 1 .. l : s[n + i] = e[i]
      BY <1>1, <2>2, <2>3 DEF Joins
    <3> QED
      BY <2>2, <3>1, <3>2
  <2>5. ASSUME NEW i \in 1 .. k
        PROVE  c[2 * i - 1] + (256 * c[2 * i]) = s[i]
    <3>1. CASE i <= n
      BY <3>1, <1>2, <1>18, <2>4
    <3>2. CASE i > n
      <4>1. /\ 2 * i - 1 \in cut + 1 .. m /\ 2 * i \in cut + 1 .. m
            /\ 2 * i - 1 \in 1 .. 2 * k /\ 2 * i \in 1 .. 2 * k
        BY <3>2, <1>1, <1>2
      <4>2. i - n \in 1 .. l /\ n + (i - n) = i
        BY <3>2, <1>2, <2>1
      <4>3. s[i] = o[i]
        BY <4>2, <2>4
      <4> QED
        BY <4>1, <4>3, <1>6, <1>9, <1>19
    <3> QED
      BY <1>2, <3>1, <3>2
  <2>6. c[2 * k + 1] = 0 /\ c[2 * k + 2] = 0 /\ 2 * k + 2 <= m + 2
    <3>1. CASE room = 0
      BY <3>1, <1>1, <1>2, <1>16
    <3>2. CASE room > 0
      <4>1. /\ 2 * k + 1 \in cut + 1 .. m /\ 2 * k + 2 \in cut + 1 .. m
            /\ 2 * k + 1 \in 2 * k + 1 .. m /\ 2 * k + 2 \in 2 * k + 1 .. m
            /\ 2 * k + 2 <= m + 2
        BY <3>2, <1>1, <1>2, <1>22
      <4> QED
        BY <4>1, <1>19, <1>20
    <3> QED
      BY <3>1, <3>2
  <2>7. Shows(c, s)
    BY <2>4, <2>5, <2>6, <1>16 DEF Shows
  <2>8. Decode16(Before(c, Null16(c))) = s
    BY <2>4, <2>7, <1>16, WideText
  <2>9. ~(n >= k)
    BY <1>2, <1>22
  <2> QED
    BY <2>1, <2>3, <2>8, <2>9, <1>1, <1>3, <1>5, <1>7, <1>8, <1>17
<1> QED
  BY <1>2, <1>21, <1>22
-----------------------------------------------------------------------------
(* Texts of one byte a unit *)

\* No byte of s is the terminator.
Unbroken(s) == \A i \in 1 .. Len(s) : s[i] # 0

\* The terminator that is found is the first one.
LEMMA NullIs ==
    ASSUME NEW b \in Seq(Octet), NEW k \in Nat, k < Len(b), b[k + 1] = 0,
           \A i \in 1 .. k : b[i] # 0
    PROVE  Null8(b) = k
<1>1. PICK at, n : at = {i \in DOMAIN b : b[i] = 0} /\ n = k + 1
  OBVIOUS
<1>2. n \in Nat /\ n \in at /\ \A j \in at : n <= j /\ j \in Nat
  <2>1. n \in Nat /\ n \in at
    BY <1>1
  <2>2. ASSUME NEW j \in at
        PROVE  n <= j /\ j \in Nat
    <3>1. j \in 1 .. Len(b) /\ b[j] = 0
      BY <1>1
    <3>2. j \notin 1 .. k
      BY <3>1
    <3> QED
      BY <1>1, <3>1, <3>2
  <2> QED
    BY <2>1, <2>2
<1>3. (CHOOSE i \in at : \A j \in at : i <= j) = n
  <2>1. \A i \in at : (\A j \in at : i <= j) => i = n
    BY <1>2
  <2> QED
    BY <1>2, <2>1
<1>4. Null8(b) = n - 1
  <2>1. at # {}
    BY <1>2
  <2>2. Null8(b) = (CHOOSE i \in at : \A j \in at : i <= j) - 1
    BY <1>1, <2>1 DEF Null8
  <2> QED
    BY <1>3, <2>2
<1> QED
  BY <1>1, <1>4

\* What is before the first terminator, or all of it, holds none.
LEMMA BeforeNull ==
    ASSUME NEW b \in Seq(Octet)
    PROVE  LET s == Before(b, Null8(b))
           IN  s \in Seq(Octet) /\ Len(s) <= Len(b) /\ Unbroken(s)
<1>1. PICK at : at = {i \in DOMAIN b : b[i] = 0}
  OBVIOUS
<1>2. CASE at = {}
  <2>1. Null8(b) = -1
    BY <1>1, <1>2 DEF Null8
  <2>2. Before(b, Null8(b)) = b
    BY <2>1 DEF Before
  <2>3. Unbroken(b)
    BY <1>1, <1>2 DEF Unbroken
  <2> QED
    BY <2>2, <2>3
<1>3. CASE at # {}
  <2>1. at \subseteq Nat
    BY <1>1
  <2>2. PICK n \in at : \A m \in at : n <= m
    BY <1>3, <2>1, Least
  <2>3. PICK k : k = n - 1
    OBVIOUS
  <2>4. n \in 1 .. Len(b) /\ b[n] = 0
    BY <1>1
  <2>5. /\ k \in Nat /\ k < Len(b) /\ b[k + 1] = 0 /\ k # -1 /\ 0 \in Nat
        /\ 0 <= k /\ k <= Len(b) /\ k - 0 = k
    BY <2>3, <2>4
  <2>6. \A i \in 1 .. k : b[i] # 0
    <3>1. ASSUME NEW i \in 1 .. k, b[i] = 0
          PROVE  FALSE
      <4>1. i \in at
        BY <1>1, <2>5, <3>1
      <4>2. ~(n <= i)
        BY <2>3, <2>4, <3>1
      <4> QED
        BY <2>2, <4>1, <4>2
    <3> QED
      BY <3>1
  <2>7. Null8(b) = k
    BY <2>5, <2>6, NullIs
  <2>8. Before(b, Null8(b)) = Slice(b, 0, k)
    BY <2>5, <2>7 DEF Before
  <2>9. Cuts(Octet, Slice(b, 0, k), b, 0, k - 0)
    BY <2>5, SliceFacts
  <2>10. PICK s : s = Slice(b, 0, k) /\ Cuts(Octet, s, b, 0, k - 0)
    BY <2>9
  <2>11. s \in Seq(Octet) /\ Len(s) = k /\ \A i \in 1 .. k : s[i] = b[i]
    <3>1. \A i \in 1 .. k : 0 + i = i
      BY <2>5
    <3> QED
      BY <2>5, <2>10, <3>1 DEF Cuts
  <2> QED
    BY <2>5, <2>6, <2>8, <2>10, <2>11 DEF Unbroken
<1> QED
  BY <1>2, <1>3

\* A STRING written as a C string, cut at its first zero byte and terminated,
\* into a variable that has room for it: what is read is the text up to there,
\* whatever was in the variable before, and the bytes behind the terminator
\* are the old ones.
THEOREM TerminatedTextEnds ==
    ASSUME NEW x \in Seq(Octet), NEW old \in Seq(Octet),
           Len(Before(x, Null8(x))) < Len(old)
    PROVE  LET text == Before(x, Null8(x))
               new == Overwritten(old, Append(text, 0))
           IN  /\ Len(new) = Len(old)
               /\ Before(new, Null8(new)) = text
               /\ \A i \in Len(text) + 2 .. Len(old) : new[i] = old[i]
<1>1. PICK text, n, m, stop : /\ text = Before(x, Null8(x)) /\ n = Len(text)
                              /\ m = Len(old) /\ stop = n + 1
  OBVIOUS
<1>2. text \in Seq(Octet) /\ Unbroken(text)
  BY <1>1, BeforeNull
<1>3. /\ n \in Nat /\ m \in Nat /\ stop \in Nat /\ n < m /\ stop <= m /\ m <= m
      /\ 0 \in Nat /\ 0 <= n /\ n - 0 = n /\ n # -1 /\ m - stop \in Nat
      /\ stop + (m - stop) = m
  BY <1>1, <1>2
<1>4. PICK u : u = Append(text, 0)
  OBVIOUS
<1>5. /\ u \in Seq(Octet) /\ Len(u) = stop /\ u[stop] = 0
      /\ \A i \in 1 .. n : u[i] = text[i]
  <2>1. 0 \in Octet
    BY DEF Octet
  <2> QED
    BY <1>1, <1>2, <1>4, <2>1, AppendProperties
<1>6. PICK tail : tail = Slice(old, stop, m) /\ Cuts(Octet, tail, old, stop, m - stop)
  <2>1. m <= Len(old)
    BY <1>1, <1>3
  <2> QED
    BY <1>3, <2>1, SliceFacts
<1>7. /\ tail \in Seq(Octet) /\ Len(tail) = m - stop
      /\ \A i \in 1 .. m - stop : tail[i] = old[stop + i]
  BY <1>6 DEF Cuts
<1>8. PICK new : new = u \o tail /\ Joins(Octet, new, u, tail)
  <2>1. u \in Seq(Octet) /\ tail \in Seq(Octet)
    BY <1>5, <1>7
  <2> QED
    BY <2>1, ConcatFacts
<1>9. /\ new \in Seq(Octet) /\ Len(new) = m
      /\ \A i \in 1 .. stop : new[i] = u[i]
      /\ \A i \in 1 .. m - stop : new[stop + i] = tail[i]
  <2>1. /\ new \in Seq(Octet) /\ Len(new) = stop + (m - stop)
        /\ \A i \in 1 .. stop : new[i] = u[i]
        /\ \A i \in 1 .. m - stop : new[stop + i] = tail[i]
    BY <1>5, <1>7, <1>8 DEF Joins
  <2> QED
    BY <1>3, <2>1
<1>10. Overwritten(old, u) = new
  BY <1>1, <1>5, <1>6, <1>8 DEF Overwritten
<1>11. new[n + 1] = 0 /\ \A i \in 1 .. n : new[i] = text[i] /\ new[i] # 0
  BY <1>1, <1>2, <1>3, <1>5, <1>9 DEF Unbroken
<1>12. Null8(new) = n
  <2>1. n < Len(new)
    BY <1>3, <1>9
  <2> QED
    BY <1>3, <1>9, <1>11, <2>1, NullIs
<1>13. Before(new, Null8(new)) = Slice(new, 0, n)
  BY <1>3, <1>12 DEF Before
<1>14. PICK s : s = Slice(new, 0, n) /\ Cuts(Octet, s, new, 0, n - 0)
  <2>1. n <= Len(new)
    BY <1>3, <1>9
  <2> QED
    BY <1>3, <1>9, <2>1, SliceFacts
<1>15. s = text
  <2>1. \A i \in 1 .. n : 0 + i = i
    BY <1>3
  <2>2. s \in Seq(Octet) /\ Len(s) = n /\ \A i \in 1 .. n : s[i] = new[i]
    BY <1>3, <1>14, <2>1 DEF Cuts
  <2>3. Len(s) = Len(text) /\ \A i \in 1 .. Len(s) : s[i] = text[i]
    BY <1>1, <1>11, <2>2
  <2> QED
    BY <1>2, <2>2, <2>3, SameSeq
<1>16. \A i \in n + 2 .. m : new[i] = old[i]
  <2>1. TAKE i \in n + 2 .. m
  <2>2. i - stop \in 1 .. m - stop /\ stop + (i - stop) = i
    BY <1>1, <1>3
  <2> QED
    BY <2>2, <1>7, <1>9
<1> QED
  BY <1>1, <1>4, <1>9, <1>10, <1>13, <1>14, <1>15, <1>16
-----------------------------------------------------------------------------
(* Parts that follow each other *)

\* A function over 1 .. n may be given by its first value and by each from the
\* one before.
Follows(f, V, n, first, step) ==
    /\ f \in [1 .. n -> V]
    /\ f[1] = first
    /\ \A i \in 2 .. n : f[i] = step[<<f[i - 1], i>>]

LEMMA Recursion ==
    ASSUME NEW V, NEW n \in Nat \ {0}, NEW first \in V, NEW step \in [V \X (1 .. n) -> V]
    PROVE  \E f : Follows(f, V, n, first, step)
<1> DEFINE Upto(f, k) ==
               f[1] = first /\ \A i \in 2 .. k : f[i] = step[<<f[i - 1], i>>]
           T == {k \in 1 .. n : \E f \in [1 .. n -> V] : Upto(f, k)}
<1>1. 1 \in T
  <2>1. PICK f : f = [i \in 1 .. n |-> first]
    OBVIOUS
  <2>2. f \in [1 .. n -> V] /\ f[1] = first
    BY <2>1
  <2> QED
    BY <2>2
<1>2. ASSUME NEW k \in 1 .. n, k \in T, k < n
      PROVE  k + 1 \in T
  <2>1. PICK f \in [1 .. n -> V] : Upto(f, k)
    BY <1>2
  <2>2. PICK v : v = step[<<f[k], k + 1>>]
    OBVIOUS
  <2>3. v \in V
    <3>1. f[k] \in V /\ k + 1 \in 1 .. n
      BY <1>2
    <3> QED
      BY <2>2, <3>1
  <2>4. PICK g : g = [f EXCEPT ![k + 1] = v]
    OBVIOUS
  <2>5. /\ g \in [1 .. n -> V] /\ g[k + 1] = v
        /\ \A i \in 1 .. n : i # k + 1 => g[i] = f[i]
    BY <1>2, <2>3, <2>4
  <2>6. g[1] = first
    BY <1>2, <2>1, <2>5
  <2>7. ASSUME NEW i \in 2 .. k + 1
        PROVE  g[i] = step[<<g[i - 1], i>>]
    <3>1. CASE i = k + 1
      <4>1. i - 1 = k /\ g[k] = f[k]
        BY <3>1, <1>2, <2>5
      <4> QED
        BY <3>1, <4>1, <2>2, <2>5
    <3>2. CASE i # k + 1
      <4>1. i \in 2 .. k /\ i \in 1 .. n /\ i - 1 \in 1 .. n /\ i - 1 # k + 1
        BY <3>2, <1>2
      <4> QED
        BY <3>2, <4>1, <2>1, <2>5
    <3> QED
      BY <3>1, <3>2
  <2>8. Upto(g, k + 1) /\ k + 1 \in 1 .. n
    BY <1>2, <2>6, <2>7
  <2> QED
    BY <2>5, <2>8
<1>3. n \in T
  <2> HIDE DEF T
  <2>1. 1 \in Nat /\ n \in Nat /\ n \in 1 .. n
    OBVIOUS
  <2>2. \A k \in 1 .. n : k \in T /\ k < n => k + 1 \in T
    BY <1>2
  <2>3. \A k \in 1 .. n : k \in T
    BY <1>1, <2>1, <2>2, Induction
  <2> QED
    BY <2>1, <2>3
<1> QED
  BY <1>3 DEF Follows

\* f says where parts of these sizes start.
Starts(f, sizes) ==
    /\ f \in [1 .. Len(sizes) + 1 -> Nat]
    /\ f[1] = 0
    /\ \A i \in 1 .. Len(sizes) : f[i + 1] = f[i] + sizes[i]

LEMMA StartsExists ==
    ASSUME NEW sizes \in Seq(Nat)
    PROVE  \E f : Starts(f, sizes)
<1>1. PICK n, m : n = Len(sizes) /\ m = n + 1
  OBVIOUS
<1>2. n \in Nat /\ m \in Nat \ {0} /\ \A i \in 1 .. n : sizes[i] \in Nat
  BY <1>1
<1>3. PICK step : step = [p \in Nat \X (1 .. m) |->
                            IF p[2] = 1 THEN 0 ELSE p[1] + sizes[p[2] - 1]]
  OBVIOUS
<1>4. step \in [Nat \X (1 .. m) -> Nat]
  <2>1. ASSUME NEW p \in Nat \X (1 .. m)
        PROVE  (IF p[2] = 1 THEN 0 ELSE p[1] + sizes[p[2] - 1]) \in Nat
    <3>1. p[1] \in Nat /\ p[2] \in 1 .. m
      OBVIOUS
    <3>2. CASE p[2] # 1
      <4>1. p[2] - 1 \in 1 .. n
        BY <1>1, <1>2, <3>1, <3>2
      <4>2. sizes[p[2] - 1] \in Nat
        BY <1>2, <4>1
      <4> QED
        BY <3>1, <3>2, <4>2
    <3> QED
      BY <3>2
  <2> QED
    BY <1>3, <2>1
<1>5. PICK f : Follows(f, Nat, m, 0, step)
  <2>1. 0 \in Nat /\ m \in Nat \ {0}
    BY <1>2
  <2> QED
    BY <1>4, <2>1, Recursion
<1>6. ASSUME NEW i \in 1 .. n
      PROVE  f[i + 1] = f[i] + sizes[i]
  <2>1. i + 1 \in 2 .. m /\ i + 1 \in 1 .. m /\ i + 1 - 1 = i /\ i \in 1 .. m /\ i + 1 # 1
    BY <1>1, <1>2
  <2>2. f[i] \in Nat /\ f[i + 1] = step[<<f[i], i + 1>>]
    BY <1>5, <2>1 DEF Follows
  <2>3. <<f[i], i + 1>> \in Nat \X (1 .. m)
    BY <2>1, <2>2
  <2>4. step[<<f[i], i + 1>>] = f[i] + sizes[i + 1 - 1]
    <3>1. PICK p : p = <<f[i], i + 1>>
      OBVIOUS
    <3>2. p \in Nat \X (1 .. m) /\ p[1] = f[i] /\ p[2] = i + 1 /\ p[2] # 1
      BY <2>1, <2>3, <3>1
    <3>3. step[p] = p[1] + sizes[p[2] - 1]
      BY <1>3, <3>2
    <3> QED
      BY <3>1, <3>2, <3>3
  <2> QED
    BY <2>1, <2>2, <2>4
<1> QED
  BY <1>1, <1>5, <1>6 DEF Starts, Follows

\* There is one such function, and StartOf is it.
LEMMA StartOfIs ==
    ASSUME NEW sizes \in Seq(Nat), NEW f, Starts(f, sizes)
    PROVE  \A i : StartOf(sizes, i) = f[i]
<1>1. PICK n, m : n = Len(sizes) /\ m = n + 1
  OBVIOUS
<1>2. n \in Nat /\ m \in Nat \ {0}
  BY <1>1
<1>3. /\ f \in [1 .. m -> Nat] /\ f[1] = 0
      /\ \A i \in 1 .. n : f[i + 1] = f[i] + sizes[i]
  BY <1>1 DEF Starts
<1> DEFINE P(s) == s = [j \in 1 .. Len(sizes) + 1 |->
                          IF j = 1 THEN 0 ELSE s[j - 1] + sizes[j - 1]]
<1>4. P(f)
  <2>1. ASSUME NEW j \in 1 .. m
        PROVE  f[j] = IF j = 1 THEN 0 ELSE f[j - 1] + sizes[j - 1]
    <3>1. CASE j = 1
      BY <3>1, <1>3
    <3>2. CASE j # 1
      <4>1. j - 1 \in 1 .. n /\ j - 1 + 1 = j
        BY <3>2, <1>1, <1>2
      <4> QED
        BY <3>2, <4>1, <1>3
    <3> QED
      BY <3>1, <3>2
  <2>2. f = [j \in 1 .. m |-> f[j]]
    BY <1>3
  <2> QED
    BY <1>1, <2>1, <2>2
<1>5. PICK g : g = CHOOSE s : P(s)
  OBVIOUS
<1>6. \A i : StartOf(sizes, i) = g[i]
  BY <1>5 DEF StartOf
<1>7. P(g)
  <2> HIDE DEF P
  <2> QED
    BY <1>4, <1>5
<1>8. /\ DOMAIN g = 1 .. m
      /\ \A j \in 1 .. m : g[j] = IF j = 1 THEN 0 ELSE g[j - 1] + sizes[j - 1]
  BY <1>1, <1>7
<1> DEFINE T == {i \in 1 .. m : g[i] = f[i]}
<1>9. 1 \in T
  BY <1>2, <1>3, <1>8
<1>10. ASSUME NEW k \in 1 .. m, k \in T, k < m
       PROVE  k + 1 \in T
  <2>1. k + 1 \in 1 .. m /\ k \in 1 .. n /\ k + 1 - 1 = k /\ k + 1 # 1
    BY <1>1, <1>2, <1>10
  <2>2. g[k] = f[k]
    BY <1>10
  <2>3. g[k + 1] = g[k] + sizes[k]
    BY <1>8, <2>1
  <2> QED
    BY <1>3, <2>1, <2>2, <2>3
<1>11. \A i \in 1 .. m : g[i] = f[i]
  <2> HIDE DEF T
  <2>1. 1 \in Nat /\ m \in Nat
    BY <1>2
  <2>2. \A k \in 1 .. m : k \in T /\ k < m => k + 1 \in T
    BY <1>10
  <2>3. \A k \in 1 .. m : k \in T
    BY <1>9, <2>1, <2>2, Induction
  <2> USE DEF T
  <2> QED
    BY <2>3
<1>12. g = [j \in 1 .. m |-> g[j]]
  BY <1>1, <1>7
<1>13. g = f
  BY <1>3, <1>11, <1>12
<1> QED
  BY <1>6, <1>13

\* No part starts before the end of an earlier one.
LEMMA StartsGrow ==
    ASSUME NEW sizes \in Seq(Nat), NEW f, Starts(f, sizes),
           NEW i \in 1 .. Len(sizes)
    PROVE  f[i] + sizes[i] <= f[Len(sizes) + 1]
<1>1. PICK n, m : n = Len(sizes) /\ m = n + 1
  OBVIOUS
<1>2. /\ n \in Nat /\ m \in Nat /\ i \in 1 .. n
      /\ f \in [1 .. m -> Nat]
      /\ \A j \in 1 .. n : sizes[j] \in Nat /\ f[j + 1] = f[j] + sizes[j]
  BY <1>1 DEF Starts
<1> DEFINE T == {j \in i + 1 .. m : f[i + 1] <= f[j]}
<1>3. i + 1 \in T /\ i + 1 \in Nat
  <2>1. i + 1 \in 1 .. m /\ i + 1 \in i + 1 .. m /\ i + 1 \in Nat
    BY <1>1, <1>2
  <2>2. f[i + 1] \in Nat
    BY <1>2, <2>1
  <2> QED
    BY <2>1, <2>2
<1>4. ASSUME NEW j \in i + 1 .. m, j \in T, j < m
      PROVE  j + 1 \in T
  <2>1. /\ j \in 1 .. n /\ j \in 1 .. m /\ j + 1 \in i + 1 .. m /\ j + 1 \in 1 .. m
        /\ i + 1 \in 1 .. m
    BY <1>1, <1>2, <1>4
  <2>2. f[j + 1] = f[j] + sizes[j] /\ sizes[j] \in Nat /\ f[j] \in Nat /\ f[i + 1] \in Nat
    BY <1>2, <2>1
  <2>3. f[i + 1] <= f[j]
    BY <1>4
  <2>4. f[i + 1] <= f[j + 1]
    BY <2>2, <2>3
  <2> QED
    BY <2>1, <2>4
<1>5. m \in T
  <2> HIDE DEF T
  <2>1. m \in i + 1 .. m
    BY <1>1, <1>2
  <2>2. \A j \in i + 1 .. m : j \in T /\ j < m => j + 1 \in T
    BY <1>4
  <2>3. i + 1 \in Nat /\ m \in Nat /\ i + 1 \in T
    BY <1>2, <1>3
  <2>4. \A j \in i + 1 .. m : j \in T
    BY <2>2, <2>3, Induction
  <2> QED
    BY <2>1, <2>4
<1>6. f[i + 1] <= f[m]
  BY <1>5
<1> QED
  BY <1>1, <1>2, <1>6

\* r is the sequences of seqs one after the other, each where f says.
Lies(S, r, seqs, f) ==
    /\ r \in Seq(S)
    /\ Len(r) = f[Len(seqs) + 1]
    /\ \A i \in 1 .. Len(seqs) : \A x \in 1 .. Len(seqs[i]) : r[f[i] + x] = seqs[i][x]

\* FlattenSeq puts each sequence where StartOf says.
LEMMA FlattenLies ==
    ASSUME NEW S, NEW seqs \in Seq(Seq(S)), NEW sizes \in Seq(Nat),
           Len(sizes) = Len(seqs),
           \A i \in 1 .. Len(seqs) : Len(seqs[i]) = sizes[i],
           NEW f, Starts(f, sizes)
    PROVE  Lies(S, FlattenSeq(seqs), seqs, f)
<1>1. PICK n : n = Len(seqs)
  OBVIOUS
<1>2. /\ n \in Nat /\ n + 1 \in Nat
      /\ \A i \in 1 .. n : seqs[i] \in Seq(S) /\ Len(seqs[i]) = sizes[i] /\ sizes[i] \in Nat
  BY <1>1
<1>3. /\ f \in [1 .. n + 1 -> Nat] /\ f[1] = 0
      /\ \A i \in 1 .. n : f[i + 1] = f[i] + sizes[i]
  BY <1>1 DEF Starts
<1>4. CASE n = 0
  <2>1. Len(seqs) = 0
    BY <1>1, <1>4
  <2>2. FlattenSeq(seqs) = seqs
    BY <2>1, Zenon DEF FlattenSeq
  <2>3. seqs = <<>>
    BY <2>1
  <2>4. PICK r : r = FlattenSeq(seqs) /\ r \in Seq(S) /\ Len(r) = 0
    <3>1. <<>> \in Seq(S) /\ Len(<<>>) = 0
      OBVIOUS
    <3> QED
      BY <2>2, <2>3, <3>1
  <2> QED
    BY <1>1, <1>3, <1>4, <2>4 DEF Lies
<1>5. CASE n # 0
  <2>1. PICK step : step = [p \in Seq(S) \X (1 .. n) |-> p[1] \o seqs[p[2]]]
    OBVIOUS
  <2>2. step \in [Seq(S) \X (1 .. n) -> Seq(S)]
    <3>1. ASSUME NEW p \in Seq(S) \X (1 .. n)
          PROVE  p[1] \o seqs[p[2]] \in Seq(S)
      <4>1. p[1] \in Seq(S) /\ seqs[p[2]] \in Seq(S)
        BY <1>2
      <4> QED
        BY <4>1
    <3> QED
      BY <2>1, <3>1
  <2>3. PICK h : Follows(h, Seq(S), n, seqs[1], step)
    <3>1. n \in Nat \ {0} /\ seqs[1] \in Seq(S)
      BY <1>2, <1>5
    <3> QED
      BY <2>2, <3>1, Recursion
  <2>4. /\ h \in [1 .. n -> Seq(S)] /\ h[1] = seqs[1]
        /\ \A i \in 2 .. n : h[i] = h[i - 1] \o seqs[i]
    <3>1. h \in [1 .. n -> Seq(S)] /\ h[1] = seqs[1]
      BY <2>3 DEF Follows
    <3>2. ASSUME NEW i \in 2 .. n
          PROVE  h[i] = h[i - 1] \o seqs[i]
      <4>1. PICK p : p = <<h[i - 1], i>>
        OBVIOUS
      <4>2. i - 1 \in 1 .. n /\ i \in 1 .. n
        BY <1>2
      <4>3. p \in Seq(S) \X (1 .. n) /\ p[1] = h[i - 1] /\ p[2] = i
        BY <3>1, <4>1, <4>2
      <4>4. step[p] = p[1] \o seqs[p[2]]
        BY <2>1, <4>3
      <4>5. h[i] = step[p]
        BY <2>3, <4>1 DEF Follows
      <4> QED
        BY <4>3, <4>4, <4>5
    <3> QED
      BY <3>1, <3>2
  <2> DEFINE P(s) == s = [i \in 1 .. Len(seqs) |->
                            IF i = 1 THEN seqs[i] ELSE s[i - 1] \o seqs[i]]
  <2>5. P(h)
    <3>1. ASSUME NEW i \in 1 .. n
          PROVE  h[i] = IF i = 1 THEN seqs[i] ELSE h[i - 1] \o seqs[i]
      <4>1. CASE i = 1
        BY <4>1, <2>4
      <4>2. CASE i # 1
        <5>1. i \in 2 .. n
          BY <4>2, <1>2
        <5>2. h[i] = h[i - 1] \o seqs[i]
          BY <2>4, <5>1
        <5> QED
          BY <4>2, <5>2
      <4> QED
        BY <4>1, <4>2
    <3>2. h = [i \in 1 .. n |-> h[i]]
      BY <2>4
    <3> QED
      BY <1>1, <3>1, <3>2
  <2>6. PICK g : g = CHOOSE s : P(s)
    OBVIOUS
  <2>7. FlattenSeq(seqs) = g[n]
    BY <1>1, <1>5, <2>6 DEF FlattenSeq
  <2>8. P(g)
    <3> HIDE DEF P
    <3> QED
      BY <2>5, <2>6
  <2>9. \A i \in 1 .. n : g[i] = IF i = 1 THEN seqs[i] ELSE g[i - 1] \o seqs[i]
    BY <1>1, <2>8
  \* The first i sequences, one after the other.
  <2> DEFINE Upto(i) == /\ g[i] \in Seq(S)
                        /\ Len(g[i]) = f[i + 1]
                        /\ \A j \in 1 .. i : \A x \in 1 .. Len(seqs[j]) :
                              g[i][f[j] + x] = seqs[j][x]
             T == {i \in 1 .. n : Upto(i)}
  <2>10. 1 \in T
    <3>1. 1 \in 1 .. n /\ 1 + 1 = 2
      BY <1>2, <1>5
    <3>2. g[1] = seqs[1] /\ seqs[1] \in Seq(S)
      BY <1>2, <2>9, <3>1
    <3>3. Len(seqs[1]) \in Nat /\ f[1 + 1] = f[1] + sizes[1] /\ Len(seqs[1]) = sizes[1]
      BY <1>2, <1>3, <3>1, <3>2
    <3>4. Len(g[1]) = f[1 + 1]
      BY <1>3, <3>2, <3>3
    <3>5. \A x \in 1 .. Len(seqs[1]) : f[1] + x = x
      BY <1>3, <3>3
    <3>6. \A x \in 1 .. Len(seqs[1]) : g[1][f[1] + x] = seqs[1][x]
      BY <3>2, <3>5
    <3>7. Upto(1)
      BY <3>2, <3>4, <3>6
    <3> QED
      BY <3>1, <3>7
  <2>11. ASSUME NEW k \in 1 .. n, k \in T, k < n
         PROVE  k + 1 \in T
    <3>1. PICK l : l = k + 1
      OBVIOUS
    <3>2. l \in 1 .. n /\ l # 1 /\ l - 1 = k /\ k \in 1 .. n + 1 /\ l \in 1 .. n + 1
      BY <1>2, <2>11, <3>1
    <3>3. g[l] = g[k] \o seqs[l] /\ seqs[l] \in Seq(S) /\ Len(seqs[l]) = sizes[l]
      BY <1>2, <2>9, <3>2
    <3>4. /\ g[k] \in Seq(S) /\ Len(g[k]) = f[l]
          /\ \A j \in 1 .. k : \A x \in 1 .. Len(seqs[j]) : g[k][f[j] + x] = seqs[j][x]
      BY <2>11, <3>1
    <3>5. Joins(S, g[k] \o seqs[l], g[k], seqs[l])
      <4>1. g[k] \in Seq(S) /\ seqs[l] \in Seq(S)
        BY <3>3, <3>4
      <4> QED
        BY <4>1, ConcatFacts
    <3>6. /\ g[l] \in Seq(S) /\ Len(g[l]) = f[l] + sizes[l]
          /\ \A x \in 1 .. f[l] : g[l][x] = g[k][x]
          /\ \A x \in 1 .. sizes[l] : g[l][f[l] + x] = seqs[l][x]
      BY <3>3, <3>4, <3>5 DEF Joins
    <3>7. f[l + 1] = f[l] + sizes[l]
      BY <1>3, <3>2
    <3>8. ASSUME NEW j \in 1 .. k, NEW x \in 1 .. Len(seqs[j])
          PROVE  g[l][f[j] + x] = seqs[j][x]
      <4>1. j \in 1 .. n /\ j \in 1 .. Len(sizes) /\ j \in 1 .. n + 1
        BY <1>1, <1>2
      <4>2. sizes[j] \in Nat /\ f[j] \in Nat /\ f[l] \in Nat /\ x \in 1 .. sizes[j]
        BY <1>2, <1>3, <3>2, <4>1
      <4>3. f[j] + sizes[j] <= f[l]
        <5>1. PICK part : part = SubSeq(sizes, 1, k)
          OBVIOUS
        <5>2. /\ part \in Seq(Nat) /\ Len(part) = k
              /\ \A i \in 1 .. k : part[i] = sizes[i]
          BY <1>1, <1>2, <3>2, <5>1
        <5>3. PICK start : start = [i \in 1 .. k + 1 |-> f[i]]
          OBVIOUS
        <5>4. Starts(start, part)
          <6>1. \A i \in 1 .. k + 1 : i \in 1 .. n + 1 /\ start[i] = f[i]
            BY <1>2, <2>11, <5>3
          <6>2. start \in [1 .. k + 1 -> Nat] /\ start[1] = 0
            BY <1>2, <1>3, <5>3, <6>1
          <6>3. ASSUME NEW i \in 1 .. k
                PROVE  start[i + 1] = start[i] + part[i]
            <7>1. i \in 1 .. n /\ i \in 1 .. k + 1 /\ i + 1 \in 1 .. k + 1
              BY <1>2
            <7> QED
              BY <7>1, <1>3, <5>2, <6>1
          <6> QED
            BY <5>2, <6>2, <6>3 DEF Starts
        <5>5. j \in 1 .. Len(part)
          BY <5>2
        <5>6. start[j] + part[j] <= start[Len(part) + 1]
          BY <5>2, <5>4, <5>5, StartsGrow
        <5>7. start[j] = f[j] /\ start[k + 1] = f[l] /\ part[j] = sizes[j]
          BY <3>1, <5>2, <5>3
        <5> QED
          BY <5>2, <5>6, <5>7
      <4>4. f[j] + x \in 1 .. f[l]
        <5>1. PICK a, b, w : a = f[j] /\ b = f[l] /\ w = sizes[j]
          OBVIOUS
        <5>2. a \in Nat /\ b \in Nat /\ w \in Nat /\ x \in 1 .. w /\ a + w <= b
          BY <4>2, <4>3, <5>1
        <5>3. a + x \in 1 .. b
          BY <5>2
        <5> QED
          BY <5>1, <5>3
      <4> QED
        BY <3>4, <3>6, <4>4
    <3>9. ASSUME NEW j \in 1 .. l, NEW x \in 1 .. Len(seqs[j])
          PROVE  g[l][f[j] + x] = seqs[j][x]
      <4>1. CASE j = l
        BY <4>1, <3>3, <3>6
      <4>2. CASE j # l
        <5>1. j \in 1 .. k
          BY <4>2, <3>1
        <5> QED
          BY <5>1, <3>8
      <4> QED
        BY <4>1, <4>2
    <3>10. Upto(l)
      BY <3>6, <3>7, <3>9
    <3> QED
      BY <3>1, <3>2, <3>10
  <2>12. n \in T
    <3> HIDE DEF T
    <3>1. 1 \in Nat /\ n \in Nat /\ n \in 1 .. n
      BY <1>2, <1>5
    <3>2. \A k \in 1 .. n : k \in T /\ k < n => k + 1 \in T
      BY <2>11
    <3>3. \A k \in 1 .. n : k \in T
      BY <2>10, <3>1, <3>2, Induction
    <3> QED
      BY <3>1, <3>3
  <2>13. Upto(n)
    BY <2>12
  <2> QED
    BY <1>1, <2>7, <2>13 DEF Lies
<1> QED
  BY <1>4, <1>5

-----------------------------------------------------------------------------
(* UTF-8 *)

\* The characters whose UTF-8 has one or two bytes.
Point == 0 .. 2047

LEMMA PointBounds ==
    \A c \in Point : c \in Nat /\ 0 <= c /\ c <= 2047
BY DEF Point

\* The two bytes of a character above 127.
Pair(a, b, c) == a = 192 + (c \div 64) /\ b = 128 + (c % 64)

LEMMA Utf8Parts ==
    ASSUME NEW c \in Point, ~(c < 128), NEW a, NEW b, Pair(a, b, c)
    PROVE  a \in 192 .. 255 /\ b \in 128 .. 191 /\ ((a - 192) * 64) + (b - 128) = c
<1>1. c \in Nat /\ c <= 2047
  BY DEF Point
<1>2. PICK q, r : q = c \div 64 /\ r = c % 64
  OBVIOUS
<1>3. q \in Int /\ r \in Int /\ 0 <= r /\ r <= 63 /\ (64 * q) + r = c
  BY <1>1, <1>2
<1>4. 0 <= q /\ q <= 31
  BY <1>1, <1>3
<1>5. a = 192 + q /\ b = 128 + r
  BY <1>2 DEF Pair
<1>6. a \in 192 .. 255 /\ b \in 128 .. 191
  BY <1>3, <1>4, <1>5
<1>7. ((a - 192) * 64) + (b - 128) = c
  BY <1>3, <1>5
<1> QED
  BY <1>6, <1>7

\* Character i of t is in u the byte, or the two bytes, behind the first f[i].
Single(u, t, f, i) ==
    t[i] < 128 /\ f[i + 1] = f[i] + 1 /\ u[f[i] + 1] = t[i]
Double(u, t, f, i) ==
    /\ f[i + 1] = f[i] + 2
    /\ u[f[i] + 1] \in 192 .. 255 /\ u[f[i] + 2] \in 128 .. 191
    /\ ((u[f[i] + 1] - 192) * 64) + (u[f[i] + 2] - 128) = t[i]
Spells(u, t, f) ==
    /\ u \in Seq(Octet)
    /\ f \in [1 .. Len(t) + 1 -> Nat]
    /\ f[1] = 0 /\ f[Len(t) + 1] = Len(u)
    /\ \A i \in 1 .. Len(t) :
          f[i + 1] <= Len(u) /\ (Single(u, t, f, i) \/ Double(u, t, f, i))

LEMMA Utf8Spells ==
    ASSUME NEW t \in Seq(Point)
    PROVE  \E f : Spells(Utf8(t), t, f)
<1>1. PICK n, parts : n = Len(t) /\ parts = [i \in 1 .. n |-> Utf8Bytes(t[i])]
  OBVIOUS
<1>2. n \in Nat /\ \A i \in 1 .. n : t[i] \in Point
  BY <1>1
<1>3. ASSUME NEW i \in 1 .. n
      PROVE  \/ /\ t[i] < 128 /\ parts[i] \in Seq(Octet) /\ Len(parts[i]) = 1
                /\ parts[i][1] = t[i]
             \/ /\ parts[i] \in Seq(Octet) /\ Len(parts[i]) = 2
                /\ parts[i][1] \in 192 .. 255 /\ parts[i][2] \in 128 .. 191
                /\ ((parts[i][1] - 192) * 64) + (parts[i][2] - 128) = t[i]
  <2>1. PICK c \in Point : c = t[i]
    BY <1>2
  <2>2. parts[i] = Utf8Bytes(c)
    BY <1>1, <2>1
  <2>3. CASE c < 128
    <3>1. parts[i] = <<c>>
      BY <2>2, <2>3 DEF Utf8Bytes
    <3>2. c \in Octet
      <4>1. c \in Nat /\ c < 128
        BY <2>3, PointBounds
      <4>2. c \in 0 .. 255
        BY <4>1
      <4> QED
        BY <4>2 DEF Octet
    <3>3. parts[i] \in Seq(Octet) /\ Len(parts[i]) = 1 /\ parts[i][1] = c
      BY <3>1, <3>2
    <3> QED
      BY <2>1, <2>3, <3>3
  <2>4. CASE ~(c < 128)
    <3>1. PICK a, b : a = 192 + (c \div 64) /\ b = 128 + (c % 64)
      OBVIOUS
    <3>2. a \in 192 .. 255 /\ b \in 128 .. 191 /\ ((a - 192) * 64) + (b - 128) = c
      <4>1. Pair(a, b, c)
        BY <3>1 DEF Pair
      <4> QED
        BY <2>4, <4>1, Utf8Parts
    <3>3. parts[i] = <<a, b>>
      BY <2>2, <2>4, <3>1 DEF Utf8Bytes
    <3>4. a \in Octet /\ b \in Octet
      BY <3>2 DEF Octet
    <3>5. parts[i] \in Seq(Octet) /\ Len(parts[i]) = 2 /\ parts[i][1] = a /\ parts[i][2] = b
      BY <3>3, <3>4
    <3> QED
      BY <2>1, <3>2, <3>5
  <2> QED
    BY <2>3, <2>4
<1>4. parts \in Seq(Seq(Octet)) /\ Len(parts) = n
  BY <1>1, <1>2, <1>3
<1>5. PICK sizes : sizes = [i \in 1 .. n |-> Len(parts[i])]
  OBVIOUS
<1>6. /\ sizes \in Seq(Nat) /\ Len(sizes) = Len(parts)
      /\ \A i \in 1 .. Len(parts) : Len(parts[i]) = sizes[i]
  <2>1. \A i \in 1 .. n : Len(parts[i]) \in Nat
    BY <1>3
  <2> QED
    BY <1>2, <1>4, <1>5, <2>1
<1>7. PICK f : Starts(f, sizes)
  BY <1>6, StartsExists
<1>8. PICK u : u = FlattenSeq(parts) /\ Lies(Octet, u, parts, f)
  BY <1>4, <1>6, <1>7, FlattenLies
<1>9. Len(sizes) = n
  BY <1>4, <1>6
<1>10. /\ f \in [1 .. n + 1 -> Nat] /\ f[1] = 0
       /\ \A i \in 1 .. n : f[i + 1] = f[i] + sizes[i]
  BY <1>7, <1>9 DEF Starts
<1>11. /\ u \in Seq(Octet) /\ Len(u) = f[n + 1]
       /\ \A i \in 1 .. n : \A x \in 1 .. Len(parts[i]) : u[f[i] + x] = parts[i][x]
  BY <1>4, <1>8 DEF Lies
<1>12. ASSUME NEW i \in 1 .. n
       PROVE  f[i + 1] <= Len(u) /\ (Single(u, t, f, i) \/ Double(u, t, f, i))
  <2>1. f[i] + sizes[i] <= f[n + 1]
    BY <1>6, <1>7, <1>9, StartsGrow
  <2>2. f[i + 1] = f[i] + sizes[i] /\ sizes[i] = Len(parts[i])
    BY <1>5, <1>10
  <2>3. f[i + 1] <= Len(u)
    BY <1>11, <2>1, <2>2
  <2>4. CASE /\ t[i] < 128 /\ parts[i] \in Seq(Octet) /\ Len(parts[i]) = 1
             /\ parts[i][1] = t[i]
    <3>1. u[f[i] + 1] = parts[i][1]
      BY <1>11, <2>4
    <3> QED
      BY <2>2, <2>3, <2>4, <3>1 DEF Single
  <2>5. CASE /\ parts[i] \in Seq(Octet) /\ Len(parts[i]) = 2
             /\ parts[i][1] \in 192 .. 255 /\ parts[i][2] \in 128 .. 191
             /\ ((parts[i][1] - 192) * 64) + (parts[i][2] - 128) = t[i]
    <3>1. u[f[i] + 1] = parts[i][1] /\ u[f[i] + 2] = parts[i][2]
      BY <1>11, <2>5
    <3> QED
      BY <2>2, <2>3, <2>5, <3>1 DEF Double
  <2> QED
    BY <1>3, <2>4, <2>5
<1>13. u = Utf8(t)
  BY <1>1, <1>8 DEF Utf8
<1> QED
  BY <1>1, <1>10, <1>11, <1>12, <1>13 DEF Spells

\* Every byte belongs to one character.
LEMMA EachByte ==
    ASSUME NEW n \in Nat, NEW f \in [1 .. n + 1 -> Nat], f[1] = 0, NEW y \in 1 .. f[n + 1]
    PROVE  \E i \in 1 .. n : f[i] < y /\ y <= f[i + 1]
<1> DEFINE T == {i \in 1 .. n + 1 : y <= f[i]}
<1>0. f[n + 1] \in Nat /\ n + 1 \in 1 .. n + 1
  OBVIOUS
<1>1. n + 1 \in T
  BY <1>0
<1>2. T \subseteq Nat /\ T # {}
  BY <1>1
<1>3. PICK k \in T : \A j \in T : k <= j
  <2> HIDE DEF T
  <2> QED
    BY <1>2, Least
<1>4. y \in Nat /\ ~(y <= 0) /\ y <= f[k]
  BY <1>0
<1>5. k # 1
  BY <1>4
<1>6. PICK i : i = k - 1
  OBVIOUS
<1>7. i \in 1 .. n /\ i \in 1 .. n + 1 /\ i + 1 = k /\ ~(k <= i)
  BY <1>5, <1>6
<1>8. ~(y <= f[i])
  BY <1>3, <1>7
<1>9. f[i] \in Nat
  BY <1>7
<1> QED
  BY <1>4, <1>7, <1>8, <1>9

LEMMA Places ==
    ASSUME NEW t \in Seq(Point), NEW u, NEW f, Spells(u, t, f), NEW j \in 1 .. Len(u)
    PROVE  \E i \in 1 .. Len(t) :
              \/ Single(u, t, f, i) /\ j = f[i] + 1
              \/ Double(u, t, f, i) /\ j = f[i] + 1
              \/ Double(u, t, f, i) /\ j = f[i] + 2
<1>1. PICK n : n = Len(t)
  OBVIOUS
<1>2. n \in Nat /\ f \in [1 .. n + 1 -> Nat] /\ f[1] = 0 /\ f[n + 1] = Len(u)
  BY <1>1 DEF Spells
<1>3. PICK i \in 1 .. n : f[i] < j /\ j <= f[i + 1]
  <2>1. j \in 1 .. f[n + 1]
    BY <1>2
  <2>2. f \in [1 .. n + 1 -> Nat] /\ f[1] = 0
    BY <1>2
  <2> QED
    BY <1>2, <2>1, <2>2, EachByte
<1>4. f[i] \in Nat /\ j \in Nat
  BY <1>2, <1>3
<1>5. CASE Single(u, t, f, i)
  <2>1. j = f[i] + 1
    BY <1>3, <1>4, <1>5 DEF Single
  <2> QED
    BY <1>1, <1>5, <2>1
<1>6. CASE Double(u, t, f, i)
  <2>1. j = f[i] + 1 \/ j = f[i] + 2
    <3>1. PICK a : a = f[i]
      OBVIOUS
    <3>2. j <= a + 2
      BY <1>3, <1>6, <3>1 DEF Double
    <3>3. a \in Nat /\ j \in Nat /\ a < j
      BY <1>3, <1>4, <3>1
    <3>4. j = a + 1 \/ j = a + 2
      BY <3>2, <3>3
    <3> QED
      BY <3>1, <3>4
  <2> QED
    BY <1>1, <1>6, <2>1
<1> QED
  BY <1>1, <1>5, <1>6 DEF Spells

\* A first byte is followed by a second, and only a first one is.
LEMMA WellFormed ==
    ASSUME NEW t \in Seq(Point), NEW u, NEW f, Spells(u, t, f)
    PROVE  ~ \E j \in 0 .. Len(u) : IsFirst(u, j) # IsSecond(u, j + 1)
<1>1. PICK n, m : n = Len(t) /\ m = Len(u)
  OBVIOUS
<1>2. /\ n \in Nat /\ m \in Nat /\ u \in Seq(Octet) /\ DOMAIN u = 1 .. m
      /\ f \in [1 .. n + 1 -> Nat]
      /\ \A i \in 1 .. n : f[i] \in Nat /\ f[i + 1] <= m /\ t[i] \in Point
  BY <1>1 DEF Spells
<1>3. \A j \in 1 .. m : u[j] \in Int
  <2>1. \A j \in 1 .. m : u[j] \in Octet
    BY <1>1, <1>2
  <2>2. \A c \in Octet : c \in Int
    BY DEF Octet
  <2> QED
    BY <2>1, <2>2
<1> SUFFICES ASSUME NEW j \in 0 .. m
             PROVE  IsFirst(u, j) <=> IsSecond(u, j + 1)
  BY <1>1 DEF IsFirst, IsSecond
<1>4. ASSUME IsFirst(u, j)
      PROVE  IsSecond(u, j + 1)
  <2>1. j \in 1 .. m /\ u[j] >= 192
    BY <1>2, <1>4 DEF IsFirst
  <2>2. PICK i \in 1 .. n : \/ Single(u, t, f, i) /\ j = f[i] + 1
                            \/ Double(u, t, f, i) /\ j = f[i] + 1
                            \/ Double(u, t, f, i) /\ j = f[i] + 2
    BY <1>1, <2>1, Places
  <2>3. CASE Single(u, t, f, i) /\ j = f[i] + 1
    <3>1. PICK x : x = u[j]
      OBVIOUS
    <3>2. x \in Int /\ x >= 192
      BY <1>3, <2>1, <3>1
    <3>3. x = t[i] /\ t[i] < 128
      BY <2>3, <3>1 DEF Single
    <3>4. x < 128
      BY <3>3
    <3>5. FALSE
      BY <3>2, <3>4
    <3> QED
      BY <3>5
  <2>4. CASE Double(u, t, f, i) /\ j = f[i] + 1
    <3>1. j + 1 = f[i] + 2 /\ f[i + 1] = f[i] + 2 /\ u[f[i] + 2] \in 128 .. 191
      BY <1>2, <2>4 DEF Double
    <3>2. PICK k : k = j + 1
      OBVIOUS
    <3>3. u[k] \in 128 .. 191 /\ f[i + 1] = k /\ k <= m
      <4>1. f[i + 1] = k /\ f[i + 1] <= m /\ u[f[i] + 2] \in 128 .. 191 /\ f[i] + 2 = k
        BY <1>2, <3>1, <3>2
      <4> QED
        BY <4>1
    <3>4. k \in 1 .. m
      BY <1>2, <2>1, <3>2, <3>3
    <3> QED
      BY <1>2, <3>2, <3>3, <3>4 DEF IsSecond
  <2>5. CASE Double(u, t, f, i) /\ j = f[i] + 2
    <3>1. PICK x : x = u[j]
      OBVIOUS
    <3>2. x \in 128 .. 191
      BY <2>5, <3>1 DEF Double
    <3>3. x >= 192
      BY <2>1, <3>1
    <3>4. FALSE
      BY <3>2, <3>3
    <3> QED
      BY <3>4
  <2> QED
    BY <2>2, <2>3, <2>4, <2>5
<1>5. ASSUME IsSecond(u, j + 1)
      PROVE  IsFirst(u, j)
  <2>1. PICK k : k = j + 1
    OBVIOUS
  <2>2. k \in 1 .. m /\ u[k] \in 128 .. 191
    BY <1>2, <1>5, <2>1 DEF IsSecond
  <2>3. PICK i \in 1 .. n : \/ Single(u, t, f, i) /\ k = f[i] + 1
                            \/ Double(u, t, f, i) /\ k = f[i] + 1
                            \/ Double(u, t, f, i) /\ k = f[i] + 2
    BY <1>1, <2>2, Places
  <2>4. CASE Single(u, t, f, i) /\ k = f[i] + 1
    <3>1. PICK x : x = u[k]
      OBVIOUS
    <3>2. x = t[i] /\ t[i] < 128
      BY <2>4, <3>1 DEF Single
    <3>3. x < 128 /\ x \in 128 .. 191
      BY <2>2, <3>1, <3>2
    <3>4. FALSE
      BY <3>3
    <3> QED
      BY <3>4
  <2>5. CASE Double(u, t, f, i) /\ k = f[i] + 1
    <3>1. PICK x : x = u[k]
      OBVIOUS
    <3>2. x \in 192 .. 255
      BY <2>5, <3>1 DEF Double
    <3>3. x \in 128 .. 191
      BY <2>2, <3>1
    <3>4. FALSE
      BY <3>2, <3>3
    <3> QED
      BY <3>4
  <2>6. CASE Double(u, t, f, i) /\ k = f[i] + 2
    <3>1. j = f[i] + 1 /\ j \in 1 .. m
      BY <1>2, <2>1, <2>2, <2>6
    <3>2. u[j] \in 192 .. 255
      BY <2>6, <3>1 DEF Double
    <3>3. u[j] >= 192
      <4>1. PICK x : x = u[j]
        OBVIOUS
      <4>2. x \in 192 .. 255
        BY <3>2, <4>1
      <4>3. x >= 192
        BY <4>2
      <4> QED
        BY <4>1, <4>3
    <3>4. j \in DOMAIN u
      BY <1>2, <3>1
    <3> QED
      BY <3>3, <3>4 DEF IsFirst
  <2> QED
    BY <2>3, <2>4, <2>5, <2>6
<1> QED
  BY <1>4, <1>5

\* What each byte begins: the first of a character that one, the second none.
LEMMA Begins ==
    ASSUME NEW t \in Seq(Point), NEW u, NEW f, Spells(u, t, f), NEW i \in 1 .. Len(t)
    PROVE  /\ CharAt(u, f[i] + 1) = <<t[i]>>
           /\ Double(u, t, f, i) => CharAt(u, f[i] + 2) = <<>>
<1>1. f[i] \in Nat /\ (Single(u, t, f, i) \/ Double(u, t, f, i))
  BY DEF Spells
<1>2. PICK x, y : x = f[i] + 1 /\ y = f[i] + 2
  OBVIOUS
<1>3. x + 1 = y
  BY <1>1, <1>2
<1>4. CASE Double(u, t, f, i)
  <2>1. PICK a, b : a = u[x] /\ b = u[y]
    OBVIOUS
  <2>2. a \in 192 .. 255 /\ b \in 128 .. 191 /\ ((a - 192) * 64) + (b - 128) = t[i]
    BY <1>2, <1>4, <2>1 DEF Double
  <2>3. ~(a < 128) /\ ~(a < 192) /\ ~(b < 128) /\ b < 192
    BY <2>2
  <2>4. CharAt(u, x) = <<((a - 192) * 64) + (b - 128)>>
    BY <1>3, <2>1, <2>3 DEF CharAt
  <2>5. CharAt(u, y) = <<>>
    BY <2>1, <2>3 DEF CharAt
  <2> QED
    BY <1>2, <2>2, <2>4, <2>5
<1>5. CASE ~ Double(u, t, f, i)
  <2>1. u[x] < 128 /\ u[x] = t[i]
    BY <1>1, <1>2, <1>5 DEF Single
  <2>2. CharAt(u, x) = <<t[i]>>
    BY <2>1 DEF CharAt
  <2> QED
    BY <1>2, <1>5, <2>2
<1> QED
  BY <1>4, <1>5

LEMMA Decode8Spelt ==
    ASSUME NEW t \in Seq(Point), NEW u, NEW f, Spells(u, t, f)
    PROVE  Decode8(u) = t
<1>1. PICK n, m, parts : /\ n = Len(t) /\ m = Len(u)
                         /\ parts = [j \in 1 .. m |-> CharAt(u, j)]
  OBVIOUS
<1>2. /\ n \in Nat /\ m \in Nat
      /\ f \in [1 .. n + 1 -> Nat] /\ f[1] = 0 /\ f[n + 1] = m
      /\ \A i \in 1 .. n : /\ f[i + 1] <= m /\ t[i] \in Point /\ f[i] \in Nat
                           /\ Single(u, t, f, i) \/ Double(u, t, f, i)
  <2>1. n \in Nat /\ m \in Nat
    <3>1. u \in Seq(Octet)
      BY DEF Spells
    <3> QED
      BY <1>1, <3>1
  <2>2. f \in [1 .. n + 1 -> Nat] /\ f[1] = 0 /\ f[n + 1] = m
    BY <1>1 DEF Spells
  <2>3. ASSUME NEW i \in 1 .. n
        PROVE  f[i + 1] <= m /\ (Single(u, t, f, i) \/ Double(u, t, f, i))
    BY <1>1 DEF Spells
  <2>4. \A i \in 1 .. n : t[i] \in Point
    BY <1>1
  <2>5. \A i \in 1 .. n : f[i] \in Nat
    BY <2>1, <2>2
  <2> QED
    BY <2>1, <2>2, <2>3, <2>4, <2>5
<1>3. Decode8(u) = FlattenSeq(parts)
  BY <1>1, WellFormed DEF Decode8
<1>4. ASSUME NEW i \in 1 .. n
      PROVE  /\ f[i] + 1 \in 1 .. m /\ parts[f[i] + 1] = <<t[i]>>
             /\ Double(u, t, f, i) => f[i] + 2 \in 1 .. m /\ parts[f[i] + 2] = <<>>
  <2>1. /\ CharAt(u, f[i] + 1) = <<t[i]>>
        /\ Double(u, t, f, i) => CharAt(u, f[i] + 2) = <<>>
    BY <1>1, Begins
  <2>2. PICK a, b : a = f[i] /\ b = f[i + 1]
    OBVIOUS
  <2>3. a \in Nat /\ b <= m /\ (b = a + 1 \/ b = a + 2)
    BY <1>2, <2>2 DEF Single, Double
  <2>4. Double(u, t, f, i) => b = a + 2
    BY <2>2 DEF Double
  <2>5. a + 1 \in 1 .. m
    BY <1>2, <2>3
  <2>6. b = a + 2 => a + 2 \in 1 .. m
    BY <1>2, <2>3
  <2> QED
    BY <1>1, <2>1, <2>2, <2>4, <2>5, <2>6
<1>5. ASSUME NEW j \in 1 .. m
      PROVE  parts[j] \in Seq(Point)
  <2>1. PICK i \in 1 .. n : \/ Single(u, t, f, i) /\ j = f[i] + 1
                            \/ Double(u, t, f, i) /\ j = f[i] + 1
                            \/ Double(u, t, f, i) /\ j = f[i] + 2
    BY <1>1, Places
  <2>2. <<t[i]>> \in Seq(Point) /\ <<>> \in Seq(Point)
    BY <1>2
  <2> QED
    BY <1>4, <2>1, <2>2
<1>6. parts \in Seq(Seq(Point)) /\ Len(parts) = m
  BY <1>1, <1>2, <1>5
<1>7. PICK sizes : sizes = [j \in 1 .. m |-> Len(parts[j])]
  OBVIOUS
<1>8. /\ sizes \in Seq(Nat) /\ Len(sizes) = Len(parts)
      /\ \A j \in 1 .. Len(parts) : Len(parts[j]) = sizes[j]
  <2>1. \A j \in 1 .. m : Len(parts[j]) \in Nat
    BY <1>5
  <2> QED
    BY <1>2, <1>6, <1>7, <2>1
<1>9. PICK g : Starts(g, sizes)
  BY <1>8, StartsExists
<1>10. PICK r : r = FlattenSeq(parts) /\ Lies(Point, r, parts, g)
  BY <1>6, <1>8, <1>9, FlattenLies
<1>11. Len(sizes) = m
  BY <1>6, <1>8
<1>12. /\ g \in [1 .. m + 1 -> Nat] /\ g[1] = 0
       /\ \A j \in 1 .. m : g[j + 1] = g[j] + sizes[j]
  BY <1>9, <1>11 DEF Starts
<1>13. /\ r \in Seq(Point) /\ Len(r) = g[m + 1]
       /\ \A j \in 1 .. m : \A x \in 1 .. Len(parts[j]) : r[g[j] + x] = parts[j][x]
  BY <1>6, <1>10 DEF Lies
\* Before character i there are as many characters decoded.
<1> DEFINE T == {i \in 1 .. n + 1 : g[f[i] + 1] = i - 1}
<1>14. 1 \in T
  <2>1. f[1] + 1 = 1 /\ 1 - 1 = 0 /\ 1 \in 1 .. n + 1
    BY <1>2
  <2> QED
    BY <1>12, <2>1
<1>15. ASSUME NEW i \in 1 .. n + 1, i \in T, i < n + 1
       PROVE  i + 1 \in T
  <2>1. i \in 1 .. n /\ i + 1 \in 1 .. n + 1 /\ i + 1 - 1 = i
    BY <1>2, <1>15
  <2>2. PICK a : a = f[i] /\ a \in Nat
    BY <1>2, <2>1
  <2>3. g[a + 1] = i - 1
    BY <1>15, <2>2
  <2>4. a + 1 \in 1 .. m /\ parts[a + 1] = <<t[i]>>
    BY <1>4, <2>1, <2>2
  <2>5. sizes[a + 1] = 1
    BY <1>7, <2>4
  <2>6. g[a + 1 + 1] = g[a + 1] + sizes[a + 1]
    BY <1>12, <2>4
  <2>7. g[a + 2] = i
    <3>1. a + 1 + 1 = a + 2 /\ (i - 1) + 1 = i
      BY <2>1, <2>2
    <3> QED
      BY <2>3, <2>5, <2>6, <3>1
  <2>8. CASE Double(u, t, f, i)
    <3>1. a + 2 \in 1 .. m /\ parts[a + 2] = <<>>
      BY <1>4, <2>1, <2>2, <2>8
    <3>2. sizes[a + 2] = 0
      BY <1>7, <3>1
    <3>3. g[a + 2 + 1] = g[a + 2] + sizes[a + 2]
      BY <1>12, <3>1
    <3>4. f[i + 1] + 1 = a + 2 + 1 /\ i + 0 = i
      BY <2>1, <2>2, <2>8 DEF Double
    <3>5. g[f[i + 1] + 1] = i
      BY <2>7, <3>2, <3>3, <3>4
    <3> QED
      BY <2>1, <3>5
  <2>9. CASE ~ Double(u, t, f, i)
    <3>1. f[i + 1] = a + 1
      BY <1>2, <2>1, <2>2, <2>9 DEF Single
    <3>2. f[i + 1] + 1 = a + 2
      BY <2>2, <3>1
    <3> QED
      BY <2>1, <2>7, <3>2
  <2> QED
    BY <2>8, <2>9
<1>16. \A i \in 1 .. n + 1 : g[f[i] + 1] = i - 1
  <2> HIDE DEF T
  <2>1. 1 \in Nat /\ n + 1 \in Nat
    BY <1>2
  <2>2. \A i \in 1 .. n + 1 : i \in T /\ i < n + 1 => i + 1 \in T
    BY <1>15
  <2>3. \A i \in 1 .. n + 1 : i \in T
    BY <1>14, <2>1, <2>2, Induction
  <2> USE DEF T
  <2> QED
    BY <2>3
<1>17. Len(r) = n
  <2>1. n + 1 \in 1 .. n + 1 /\ n + 1 - 1 = n
    BY <1>2
  <2> QED
    BY <1>2, <1>13, <1>16, <2>1
<1>18. ASSUME NEW i \in 1 .. n
       PROVE  r[i] = t[i]
  <2>1. PICK j : j = f[i] + 1
    OBVIOUS
  <2>2. j \in 1 .. m /\ parts[j] = <<t[i]>>
    BY <1>4, <2>1
  <2>3. g[j] = i - 1 /\ i - 1 + 1 = i
    <3>1. i \in 1 .. n + 1
      BY <1>2
    <3> QED
      BY <1>16, <2>1, <3>1
  <2>4. 1 \in 1 .. Len(parts[j]) /\ parts[j][1] = t[i]
    BY <2>2
  <2>5. r[g[j] + 1] = parts[j][1]
    BY <1>13, <2>2, <2>4
  <2> QED
    BY <2>3, <2>4, <2>5
<1>19. r = t
  <2>1. Len(r) = Len(t) /\ \A i \in 1 .. Len(r) : r[i] = t[i]
    BY <1>1, <1>17, <1>18
  <2> QED
    BY <1>13, <2>1, SameSeq
<1> QED
  BY <1>3, <1>10, <1>19

\* No byte of a text without the character 0 is 0.
LEMMA Utf8Unbroken ==
    ASSUME NEW t \in Seq(Point \ {0})
    PROVE  Utf8(t) \in Seq(Octet) /\ Unbroken(Utf8(t))
<1>1. t \in Seq(Point) /\ \A i \in 1 .. Len(t) : t[i] # 0
  OBVIOUS
<1>2. PICK u, f : u = Utf8(t) /\ Spells(u, t, f)
  BY <1>1, Utf8Spells
<1>3. ASSUME NEW j \in 1 .. Len(u)
      PROVE  u[j] # 0
  <2>1. PICK i \in 1 .. Len(t) : \/ Single(u, t, f, i) /\ j = f[i] + 1
                                 \/ Double(u, t, f, i) /\ j = f[i] + 1
                                 \/ Double(u, t, f, i) /\ j = f[i] + 2
    BY <1>1, <1>2, Places
  <2>2. CASE Single(u, t, f, i) /\ j = f[i] + 1
    BY <1>1, <2>2 DEF Single
  <2>3. CASE Double(u, t, f, i) /\ j = f[i] + 1
    <3>1. PICK x : x = u[j]
      OBVIOUS
    <3>2. x \in 192 .. 255
      BY <2>3, <3>1 DEF Double
    <3>3. x # 0
      BY <3>2
    <3> QED
      BY <3>1, <3>3
  <2>4. CASE Double(u, t, f, i) /\ j = f[i] + 2
    <3>1. PICK x : x = u[j]
      OBVIOUS
    <3>2. x \in 128 .. 191
      BY <2>4, <3>1 DEF Double
    <3>3. x # 0
      BY <3>2
    <3> QED
      BY <3>1, <3>3
  <2> QED
    BY <2>1, <2>2, <2>3, <2>4
<1> QED
  BY <1>2, <1>3 DEF Unbroken, Spells

\* The same at a place that does not exist: a text without a terminator is all
\* there is before it.
LEMMA AllBefore ==
    ASSUME NEW b \in Seq(Octet), Unbroken(b)
    PROVE  Before(b, Null8(b)) = b
<1>1. {i \in DOMAIN b : b[i] = 0} = {}
  BY DEF Unbroken
<1>2. Null8(b) = -1
  BY <1>1 DEF Null8
<1> QED
  BY <1>2 DEF Before

\* A STRING written by name, terminated, into a variable with room for its
\* bytes is what is read from it, whatever the variable held: for characters of
\* one and of two bytes, in any order.
THEOREM StringWriteLands ==
    ASSUME NEW t \in Seq(Point \ {0}), NEW old \in Seq(Octet),
           Len(Utf8(t)) < Len(old)
    PROVE  LET sent == Append(Before(Utf8(t), Null8(Utf8(t))), 0)
               new == Overwritten(old, sent)
           IN  Len(new) = Len(old) /\ Decode8(Before(new, Null8(new))) = t
<1>1. PICK u : u = Utf8(t)
  OBVIOUS
<1>2. u \in Seq(Octet) /\ Unbroken(u)
  BY <1>1, Utf8Unbroken
<1>3. Before(u, Null8(u)) = u
  BY <1>2, AllBefore
<1>4. PICK new : new = Overwritten(old, Append(u, 0))
  OBVIOUS
<1>5. Len(new) = Len(old) /\ Before(new, Null8(new)) = u
  <2>1. Len(Before(u, Null8(u))) < Len(old)
    BY <1>1, <1>3
  <2> QED
    BY <1>2, <1>3, <1>4, <2>1, TerminatedTextEnds
<1>6. t \in Seq(Point)
  OBVIOUS
<1>7. PICK f : Spells(u, t, f)
  BY <1>1, <1>6, Utf8Spells
<1>8. Decode8(u) = t
  BY <1>6, <1>7, Decode8Spelt
<1> QED
  BY <1>1, <1>3, <1>4, <1>5, <1>8
-----------------------------------------------------------------------------
(* Lists *)

\* The answer of a sum read, when each command was answered with as many bytes
\* as it asked for: it is as long as the sizes together, and the data of every
\* command are found where the sizes of those before it say, however many there
\* are.
THEOREM SumAnswersFound ==
    ASSUME NEW sizes \in Seq(Nat), NEW answers \in Seq(Seq(Octet)),
           Len(sizes) = Len(answers),
           \A i \in 1 .. Len(answers) : Len(answers[i]) = sizes[i]
    PROVE  LET data == SumData(sizes, answers)
           IN  /\ Len(data) = StartOf(sizes, Len(sizes) + 1)
               /\ \A i \in 1 .. Len(answers) : PartOf(data, sizes, i) = answers[i]
<1>1. PICK f : Starts(f, sizes)
  BY StartsExists
<1>2. \A i : StartOf(sizes, i) = f[i]
  BY <1>1, StartOfIs
<1>3. PICK n, stop : n = Len(answers) /\ stop = f[n + 1]
  OBVIOUS
<1>4. /\ n \in Nat /\ n + 1 \in 1 .. n + 1 /\ stop \in Nat /\ stop - stop = 0
      /\ f \in [1 .. n + 1 -> Nat]
      /\ \A i \in 1 .. n : answers[i] \in Seq(Octet) /\ sizes[i] \in Nat
  <2>1. n \in Nat /\ n = Len(sizes)
    BY <1>3
  <2>2. f \in [1 .. n + 1 -> Nat]
    BY <1>1, <2>1 DEF Starts
  <2>3. n + 1 \in 1 .. n + 1
    BY <2>1
  <2>4. stop \in Nat /\ stop - stop = 0
    BY <1>3, <2>2, <2>3
  <2>5. \A i \in 1 .. n : answers[i] \in Seq(Octet) /\ sizes[i] \in Nat
    BY <1>3, <2>1
  <2> QED
    BY <2>1, <2>2, <2>3, <2>4, <2>5
<1>5. PICK all : all = FlattenSeq(answers) /\ Lies(Octet, all, answers, f)
  BY <1>1, FlattenLies
<1>6. /\ all \in Seq(Octet) /\ Len(all) = stop
      /\ \A i \in 1 .. n : \A x \in 1 .. Len(answers[i]) : all[f[i] + x] = answers[i][x]
  BY <1>3, <1>5 DEF Lies
<1>7. SumData(sizes, answers) = all \o Zeros(0)
  BY <1>2, <1>3, <1>4, <1>5, <1>6 DEF SumData
<1>8. PICK z : z = Zeros(0) /\ z \in Seq(Octet) /\ Len(z) = 0
  BY ZeroOctets
<1>9. PICK data : data = all \o z /\ Joins(Octet, data, all, z)
  <2>1. all \in Seq(Octet) /\ z \in Seq(Octet)
    BY <1>6, <1>8
  <2> QED
    BY <2>1, ConcatFacts
<1>10. data \in Seq(Octet) /\ Len(data) = stop /\ \A i \in 1 .. stop : data[i] = all[i]
  BY <1>4, <1>6, <1>8, <1>9 DEF Joins
<1>11. ASSUME NEW i \in 1 .. n
       PROVE  PartOf(data, sizes, i) = answers[i]
  <2>1. PICK from, to : from = f[i] /\ to = f[i] + sizes[i]
    OBVIOUS
  <2>2. i \in 1 .. Len(sizes) /\ i \in 1 .. n + 1 /\ Len(answers[i]) = sizes[i]
    BY <1>3, <1>4
  <2>3. to <= stop
    BY <1>1, <1>3, <2>1, <2>2, StartsGrow
  <2>4. from \in Nat /\ to \in Nat /\ from <= to /\ to - from = sizes[i]
    <3>1. PICK w : w = sizes[i]
      OBVIOUS
    <3>2. from \in Nat /\ w \in Nat
      BY <1>4, <2>1, <2>2, <3>1
    <3>3. to = from + w
      BY <2>1, <3>1
    <3>4. to \in Nat /\ from <= to /\ to - from = w
      BY <3>2, <3>3
    <3> QED
      BY <3>1, <3>2, <3>4
  <2>5. PartOf(data, sizes, i) = Slice(data, from, to)
    BY <1>2, <2>1 DEF PartOf
  <2>6. PICK r : r = Slice(data, from, to) /\ Cuts(Octet, r, data, from, to - from)
    <3>1. to <= Len(data)
      BY <1>10, <2>3
    <3> QED
      BY <1>10, <2>4, <3>1, SliceFacts
  <2>7. r \in Seq(Octet) /\ Len(r) = sizes[i]
        /\ \A x \in 1 .. sizes[i] : r[x] = data[from + x]
    BY <2>4, <2>6 DEF Cuts
  <2>8. ASSUME NEW x \in 1 .. sizes[i]
        PROVE  r[x] = answers[i][x]
    <3>1. from + x \in 1 .. stop
      <4>1. x \in Nat /\ x > 0 /\ x <= to - from
        BY <1>4, <2>4
      <4> QED
        BY <1>4, <2>3, <2>4, <4>1
    <3>2. all[from + x] = answers[i][x]
      BY <1>6, <2>1, <2>2
    <3> QED
      BY <1>10, <2>7, <3>1, <3>2
  <2>9. r = answers[i]
    <3>1. answers[i] \in Seq(Octet)
      BY <1>4
    <3>2. Len(r) = Len(answers[i]) /\ \A x \in 1 .. Len(r) : r[x] = answers[i][x]
      BY <2>2, <2>7, <2>8
    <3> QED
      BY <2>7, <3>1, <3>2, SameSeq
  <2> QED
    BY <2>5, <2>6, <2>9
<1>12. Len(data) = StartOf(sizes, Len(sizes) + 1)
  BY <1>2, <1>3, <1>10
<1>13. data = SumData(sizes, answers)
  BY <1>7, <1>8, <1>9
<1> QED
  BY <1>3, <1>11, <1>12, <1>13

\* k at a time: the whole chunks there are, and a rest that is none.
LEMMA Rounded ==
    ASSUME NEW l \in Nat, NEW k \in Nat \ {0}
    PROVE  \E n \in Nat : /\ n = (l + k - 1) \div k
                          /\ k * n >= l
                          /\ n > 0 => k * (n - 1) < l
                          /\ n = 0 => l = 0
<1>1. PICK a : a = l + k - 1
  OBVIOUS
<1>2. a \in Nat /\ a + 1 - k = l /\ k \in Nat /\ k > 0
  BY <1>1
<1>3. PICK n, r : n = a \div k /\ r = a % k
  OBVIOUS
<1>4. n \in Nat /\ r \in Nat /\ r < k /\ k * n + r = a
  BY <1>2, <1>3
<1>5. k * n >= l
  BY <1>2, <1>4
<1>6. n > 0 => k * (n - 1) < l
  <2>1. k * (n - 1) = k * n - k
    BY <1>2, <1>4
  <2> QED
    BY <1>2, <1>4, <2>1
<1>7. n = 0 => l = 0
  <2>1. n = 0 => k * n = 0
    BY <1>2
  <2> QED
    BY <1>2, <1>5, <2>1
<1> QED
  BY <1>1, <1>3, <1>4, <1>5, <1>6, <1>7

LEMMA Monotone ==
    ASSUME NEW k \in Nat, NEW x \in Nat, NEW y \in Nat, x <= y
    PROVE  k * x <= k * y
<1>1. PICK d \in Nat : y = x + d
  <2>1. y - x \in Nat /\ y = x + (y - x)
    OBVIOUS
  <2> QED
    BY <2>1
<1>2. PICK a, b : a = k * x /\ b = k * d
  OBVIOUS
<1>3. a \in Nat /\ b \in Nat
  BY <1>1, <1>2
<1>4. k * y = (k * x) + (k * d)
  BY <1>1
<1>5. k * y = a + b /\ a <= a + b
  BY <1>2, <1>3, <1>4
<1> QED
  BY <1>2, <1>5

\* Chunks cuts a list into parts of at least one and at most k elements that,
\* one after the other, are the list again: no name is sent twice, none is left
\* out, and no sum command is empty, whatever ads_sub_commands is.
THEOREM ChunksCover ==
    ASSUME NEW S, NEW s \in Seq(S), NEW k \in Nat \ {0}
    PROVE  /\ Chunks(s, k) \in Seq(Seq(S))
           /\ \A i \in 1 .. Len(Chunks(s, k)) : Len(Chunks(s, k)[i]) \in 1 .. k
           /\ FlattenSeq(Chunks(s, k)) = s
<1>1. PICK l : l = Len(s)
  OBVIOUS
<1>2. l \in Nat
  BY <1>1
<1>3. PICK n \in Nat : /\ n = (l + k - 1) \div k
                       /\ k * n >= l
                       /\ n > 0 => k * (n - 1) < l
                       /\ n = 0 => l = 0
  BY <1>2, Rounded
\* Where the i-th chunk ends.
<1>4. PICK end : end = [i \in 0 .. n |-> IF k * i < l THEN k * i ELSE l]
  OBVIOUS
<1>5. ASSUME NEW i \in 1 .. n
      PROVE  /\ k * (i - 1) \in Nat /\ k * i \in Nat /\ k * i = k * (i - 1) + k
             /\ k * (i - 1) < l
             /\ end[i - 1] = k * (i - 1)
             /\ end[i] \in Nat /\ end[i] <= l /\ end[i] - end[i - 1] \in 1 .. k
  <2>1. i \in Nat /\ i - 1 \in Nat /\ i <= n /\ i - 1 \in 0 .. n /\ i \in 0 .. n
    BY <1>3
  <2>2. k * (i - 1) \in Nat /\ k * i \in Nat /\ k * i = k * (i - 1) + k
    BY <2>1
  <2>3. k * (i - 1) <= k * (n - 1)
    <3>1. PICK x, y : x = i - 1 /\ y = n - 1
      OBVIOUS
    <3>2. x \in Nat /\ y \in Nat /\ x <= y /\ k \in Nat
      BY <1>3, <2>1, <3>1
    <3>3. k * x <= k * y
      BY <3>2, Monotone
    <3> QED
      BY <3>1, <3>3
  <2>4. k * (n - 1) < l /\ k * (n - 1) \in Int
    BY <1>3, <2>1
  <2>5. k * (i - 1) < l
    BY <1>2, <2>2, <2>3, <2>4
  <2>6. end[i - 1] = k * (i - 1)
    BY <1>4, <2>1, <2>5
  <2>7. end[i] = IF k * i < l THEN k * i ELSE l
    BY <1>4, <2>1
  <2>8. end[i] \in Nat /\ end[i] <= l /\ end[i] - end[i - 1] \in 1 .. k
    <3>1. PICK a, b : a = k * (i - 1) /\ b = k * i
      OBVIOUS
    <3>2. /\ a \in Nat /\ b \in Nat /\ b = a + k /\ a < l /\ end[i - 1] = a
          /\ end[i] = IF b < l THEN b ELSE l
      BY <2>2, <2>5, <2>6, <2>7, <3>1
    <3> QED
      BY <1>2, <3>2
  <2> QED
    BY <2>2, <2>5, <2>6, <2>8
<1>6. end[0] = 0 /\ end[n] = l /\ end \in [0 .. n -> Nat]
  <2>1. 0 \in 0 .. n /\ n \in 0 .. n /\ k * 0 = 0
    OBVIOUS
  <2>2. end[0] = 0
    BY <1>2, <1>4, <2>1
  <2>3. end[n] = l
    BY <1>2, <1>3, <1>4, <2>1
  <2>4. \A i \in 0 .. n : k * i \in Nat
    OBVIOUS
  <2>5. end \in [0 .. n -> Nat]
    BY <1>2, <1>4, <2>4
  <2> QED
    BY <2>2, <2>3, <2>5
<1>7. PICK parts : parts = Chunks(s, k)
  OBVIOUS
<1>8. parts = [i \in 1 .. n |-> Slice(s, k * (i - 1), k * i)]
  BY <1>1, <1>3, <1>7 DEF Chunks
<1>9. ASSUME NEW i \in 1 .. n
      PROVE  Cuts(S, parts[i], s, end[i - 1], end[i] - end[i - 1])
  <2>1. PICK a, b, e : a = k * (i - 1) /\ b = k * i /\ e = end[i]
    OBVIOUS
  <2>2. /\ a \in Nat /\ b \in Nat /\ e \in Nat /\ a = end[i - 1] /\ e <= l /\ a <= e
        /\ (e = IF b < l THEN b ELSE l)
    <3>1. i \in 0 .. n
      OBVIOUS
    <3>2. e = IF b < l THEN b ELSE l
      BY <1>4, <2>1, <3>1
    <3>3. e - a \in 1 .. k
      BY <1>5, <2>1
    <3>4. a \in Nat /\ b \in Nat /\ e \in Nat /\ a = end[i - 1] /\ e <= l
      BY <1>5, <2>1
    <3> QED
      BY <3>2, <3>3, <3>4
  <2>3. parts[i] = Slice(s, a, b)
    BY <1>8, <2>1
  <2>4. Slice(s, a, b) = Slice(s, a, e)
    <3>1. CASE b < l
      BY <3>1, <2>2
    <3>2. CASE ~(b < l)
      <4>1. b >= Len(s) /\ e = Len(s)
        BY <3>2, <1>1, <1>2, <2>2
      <4>2. a \in Nat /\ b \in Nat
        BY <2>2
      <4>3. Slice(s, a, b) = Slice(s, a, Len(s))
        BY <4>1, <4>2, SliceCut
      <4> QED
        BY <4>1, <4>3
    <3> QED
      BY <3>1, <3>2
  <2>5. Cuts(S, Slice(s, a, e), s, a, e - a)
    <3>1. a \in Nat /\ e \in Nat /\ a <= e /\ e <= Len(s)
      BY <1>1, <2>2
    <3> QED
      BY <3>1, SliceFacts
  <2> QED
    BY <2>1, <2>2, <2>3, <2>4, <2>5
<1>10. parts \in Seq(Seq(S)) /\ Len(parts) = n
  <2>1. \A i \in 1 .. n : parts[i] \in Seq(S)
    BY <1>9 DEF Cuts
  <2> QED
    BY <1>8, <2>1
<1>11. \A i \in 1 .. n : Len(parts[i]) = end[i] - end[i - 1] /\ Len(parts[i]) \in 1 .. k
  BY <1>5, <1>9 DEF Cuts
<1>12. PICK sizes : sizes = [i \in 1 .. n |-> Len(parts[i])]
  OBVIOUS
<1>13. /\ sizes \in Seq(Nat) /\ Len(sizes) = Len(parts)
       /\ \A i \in 1 .. Len(parts) : Len(parts[i]) = sizes[i]
  <2>1. \A i \in 1 .. n : Len(parts[i]) \in Nat
    BY <1>11
  <2> QED
    BY <1>10, <1>12, <2>1
<1>14. PICK f : f = [i \in 1 .. n + 1 |-> end[i - 1]]
  OBVIOUS
<1>15. Starts(f, sizes)
  <2>1. f \in [1 .. n + 1 -> Nat] /\ f[1] = 0
    <3>1. \A i \in 1 .. n + 1 : i - 1 \in 0 .. n /\ end[i - 1] \in Nat
      BY <1>6
    <3>2. 1 \in 1 .. n + 1 /\ 1 - 1 = 0
      OBVIOUS
    <3> QED
      BY <1>6, <1>14, <3>1, <3>2
  <2>2. ASSUME NEW i \in 1 .. n
        PROVE  f[i + 1] = f[i] + sizes[i]
    <3>1. i \in 1 .. n + 1 /\ i + 1 \in 1 .. n + 1 /\ i + 1 - 1 = i /\ i - 1 \in 0 .. n /\ i \in 0 .. n
      OBVIOUS
    <3>2. f[i] = end[i - 1] /\ f[i + 1] = end[i] /\ sizes[i] = end[i] - end[i - 1]
      BY <1>11, <1>12, <1>14, <3>1
    <3>3. end[i - 1] \in Nat /\ end[i] \in Nat
      BY <1>6, <3>1
    <3> QED
      BY <3>2, <3>3
  <2>3. Len(sizes) = n
    BY <1>10, <1>13
  <2> QED
    BY <2>1, <2>2, <2>3 DEF Starts
<1>16. PICK r : r = FlattenSeq(parts) /\ Lies(S, r, parts, f)
  BY <1>10, <1>13, <1>15, FlattenLies
<1>17. /\ r \in Seq(S) /\ Len(r) = l
       /\ \A i \in 1 .. n : \A x \in 1 .. Len(parts[i]) : r[f[i] + x] = parts[i][x]
  <2>1. n + 1 \in 1 .. n + 1 /\ n + 1 - 1 = n
    OBVIOUS
  <2>2. f[n + 1] = l
    BY <1>6, <1>14, <2>1
  <2> QED
    BY <1>10, <1>16, <2>2 DEF Lies
\* Each element of the list lies in a chunk.
<1>18. ASSUME NEW y \in 1 .. l
       PROVE  \E i \in 1 .. n : end[i - 1] < y /\ y <= end[i]
  <2> DEFINE T == {i \in 0 .. n : y <= end[i]}
  <2>1. n \in T
    BY <1>3, <1>6
  <2>2. T \subseteq Nat /\ T # {}
    BY <2>1
  <2>3. PICK i \in T : \A j \in T : i <= j
    <3> HIDE DEF T
    <3> QED
      BY <2>2, Least
  <2>4. i # 0
    BY <1>2, <1>6
  <2>5. i \in 1 .. n /\ i - 1 \in 0 .. n /\ ~(i <= i - 1)
    BY <2>4
  <2>6. i - 1 \notin T
    BY <2>3, <2>5
  <2>7. ~(y <= end[i - 1]) /\ end[i - 1] \in Nat
    BY <1>6, <2>5, <2>6
  <2>8. end[i - 1] < y
    BY <1>2, <2>7
  <2> QED
    BY <2>5, <2>8
<1>19. ASSUME NEW y \in 1 .. l
       PROVE  r[y] = s[y]
  <2>1. PICK i \in 1 .. n : end[i - 1] < y /\ y <= end[i]
    BY <1>18
  <2>2. PICK from, to : from = end[i - 1] /\ to = end[i]
    OBVIOUS
  <2>3. from \in Nat /\ to \in Nat /\ from < y /\ y <= to
    <3>1. i - 1 \in 0 .. n /\ i \in 0 .. n
      OBVIOUS
    <3> QED
      BY <1>6, <2>1, <2>2, <3>1
  <2>4. PICK x : x = y - from
    OBVIOUS
  <2>5. x \in 1 .. to - from /\ from + x = y
    BY <1>2, <2>3, <2>4
  <2>6. Len(parts[i]) = to - from /\ parts[i][x] = s[from + x]
    BY <1>9, <2>2, <2>5 DEF Cuts
  <2>7. f[i] = from
    <3>1. i \in 1 .. n + 1
      OBVIOUS
    <3> QED
      BY <1>14, <2>2, <3>1
  <2>8. r[f[i] + x] = parts[i][x]
    BY <1>17, <2>5, <2>6
  <2> QED
    BY <2>5, <2>6, <2>7, <2>8
<1>20. r = s
  <2>1. r \in Seq(S) /\ Len(r) = Len(s) /\ \A y \in 1 .. Len(r) : r[y] = s[y]
    BY <1>1, <1>17, <1>19
  <2> QED
    BY <2>1, SameSeq
<1> QED
  BY <1>7, <1>10, <1>11, <1>16, <1>20
=============================================================================
