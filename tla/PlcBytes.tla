-------------------------------- MODULE PlcBytes --------------------------------
(***************************************************************************)
(* Bytes: how the library cuts, replaces and pads them, how it finds where *)
(* a text ends, and the texts of two bytes a character.  What PlcData does *)
(* with values and declarations rests on it.                               *)
(***************************************************************************)
EXTENDS Integers, SequencesExt

CONSTANTS
    DefaultChars,  \* PLC_DEFAULT_STRING_SIZE
    Raised         \* the outcome of a call that raised

ASSUME DefaultCharsAssumption == DefaultChars \in Nat

Zeros(n) == [i \in 1 .. n |-> 0]
\* Python's b[from:to]
Slice(b, from, to) == SubSeq(b, from + 1, IF to < Len(b) THEN to ELSE Len(b))
\* buf[from:from + n] = bytes
Splice(buf, from, n, bytes) ==
    Slice(buf, 0, from) \o bytes \o Slice(buf, from + n, Len(buf))

Chunks(s, k) == [i \in 1 .. (Len(s) + k - 1) \div k |->
                    Slice(s, k * (i - 1), k * i)]
\* External: a request that is shorter than the variable changes its first bytes.
Overwritten(old, bytes) == bytes \o Slice(old, Len(bytes), Len(old))

\* Where the i-th of parts of these sizes starts when they follow each other,
\* and, for i one more than their number, where they end.
StartOf(sizes, i) ==
    LET start[j \in 1 .. Len(sizes) + 1] ==
            IF j = 1 THEN 0 ELSE start[j - 1] + sizes[j - 1]
    IN  start[i]
\* The data of a sum response: a buffer of zeros as long as all sizes together,
\* with the answers at its front.
SumData(sizes, answers) ==
    LET all == FlattenSeq(answers)
    IN  all \o Zeros(StartOf(sizes, Len(sizes) + 1) - Len(all))
PartOf(data, sizes, i) ==
    Slice(data, StartOf(sizes, i), StartOf(sizes, i) + sizes[i])
-----------------------------------------------------------------------------
(* Texts, sequences of code points                                         *)

Utf16(text) ==
    [i \in 1 .. 2 * Len(text) |->
        IF i % 2 = 1 THEN text[(i + 1) \div 2] % 256 ELSE text[i \div 2] \div 256]
Decode16(bytes) ==
    IF Len(bytes) % 2 # 0 THEN Raised
    ELSE [i \in 1 .. Len(bytes) \div 2 |-> bytes[2 * i - 1] + 256 * bytes[2 * i]]

\* One or two bytes a character.
Utf8Bytes(c) ==
    IF c < 128 THEN <<c>> ELSE <<192 + (c \div 64), 128 + (c % 64)>>
Utf8(text) == FlattenSeq([i \in 1 .. Len(text) |-> Utf8Bytes(text[i])])

\* Whether byte i is the first or the second of a character of two.
IsFirst(bytes, i) == i \in DOMAIN bytes /\ bytes[i] >= 192
IsSecond(bytes, i) == i \in DOMAIN bytes /\ bytes[i] \in 128 .. 191
\* The character that byte i begins, or none.
CharAt(bytes, i) ==
    IF bytes[i] < 128 THEN <<bytes[i]>>
    ELSE IF bytes[i] < 192 THEN <<>>
    ELSE <<((bytes[i] - 192) * 64) + (bytes[i + 1] - 128)>>
Decode8(bytes) ==
    IF \E i \in 0 .. Len(bytes) : IsFirst(bytes, i) # IsSecond(bytes, i + 1)
    THEN Raised
    ELSE FlattenSeq([i \in 1 .. Len(bytes) |-> CharAt(bytes, i)])

\* The index of the first terminator, or -1.
Null8(b) == LET at == {i \in DOMAIN b : b[i] = 0}
            IN  IF at = {} THEN -1
                ELSE (CHOOSE i \in at : \A j \in at : i <= j) - 1
Null16(b) == LET at == {i \in 1 .. Len(b) - 1 : i % 2 = 1 /\ b[i] = 0 /\ b[i + 1] = 0}
             IN  IF at = {} THEN -1
                 ELSE (CHOOSE i \in at : \A j \in at : i <= j) - 1
Before(b, null) == IF null = -1 THEN b ELSE Slice(b, 0, null)

\* A WSTRING is read into a buffer of zeros that is longer than the answer.
WideValue(b) == LET c == b \o Zeros(2)
                IN  Decode16(Before(c, Null16(c)))
-----------------------------------------------------------------------------
(* Texts in a structure                                                    *)

Chars(d) == IF d.chars = 0 THEN DefaultChars ELSE d.chars
TextWidth(d) == IF d.kind = "STRING" THEN Chars(d) + 1 ELSE 2 * (Chars(d) + 1)

\* A mutant: a WSTRING is padded by its characters.
PaddingByChars(d, text) == Zeros(Chars(d) + 1 - Len(text))

\* Texts are padded by characters (STRING) or by bytes (WSTRING).
Padding(d, text) ==
    Zeros(IF d.kind = "STRING" THEN Chars(d) + 1 - Len(text)
          ELSE 2 * (Chars(d) + 1) - 2 * Len(text))
=============================================================================
