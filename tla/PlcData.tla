------------------------------- MODULE PlcData -------------------------------
(***************************************************************************)
(* How values become the bytes of PLC variables and back, in the three     *)
(* ways the library has: the single requests of pyads_ex, the sum commands *)
(* and the structures of ads.py.  All of it is pure.                       *)
(*                                                                         *)
(* A byte is a number, a text a sequence of code points below 16#0800 (one *)
(* or two bytes of UTF-8, two of UTF-16), a Python list [list |-> seq], a  *)
(* Python dict [dict |-> the values in the order of its definition].       *)
(***************************************************************************)
EXTENDS PlcBytes

CONSTANTS
    Failed  \* the error text a sum command puts in the place of a value

\* What a PLC variable or an item of a structure definition is declared as:
\* n elements, of chars characters (0: not given) or of the structure def.
Byte(n) == [kind |-> "BYTE", n |-> n]
String(n, chars) == [kind |-> "STRING", n |-> n, chars |-> chars]
WString(n, chars) == [kind |-> "WSTRING", n |-> n, chars |-> chars]
Struct(n, def) == [kind |-> "STRUCT", n |-> n, def |-> def]

List(s) == [list |-> s]
IsList(v) == "list" \in DOMAIN v
Concat(parts) == IF \E i \in DOMAIN parts : parts[i] = Raised
                 THEN Raised ELSE FlattenSeq(parts)
All(values) == IF \E i \in DOMAIN values : values[i] = Raised
               THEN Raised ELSE values
-----------------------------------------------------------------------------
(* Single requests                                                         *)

\* get_type_from_str finds no type for a structure, and for an array of
\* strings one that neither read nor write takes for a text.
Plain(d) == d.kind = "BYTE" \/ (d.kind \in {"STRING", "WSTRING"} /\ d.n = 1)

\* A mutant: no text is terminated.
BareTextBytes(d, text) ==
    IF d.kind = "STRING" THEN Utf8(text) ELSE Utf16(text)

\* A text of a single write: a C string, but a WSTRING without terminator.
TextBytes(d, text) ==
    IF d.kind = "STRING"
    THEN Append(Before(Utf8(text), Null8(Utf8(text))), 0)
    ELSE Utf16(text)

\* adsSyncWriteReqEx: the bytes of value v.
RequestBytes(d, v) ==
    CASE d.kind \in {"STRING", "WSTRING"} -> TextBytes(d, v)
      [] d.kind = "BYTE" /\ d.n = 1 -> <<v>>
      [] d.kind = "BYTE" /\ d.n > 1 ->
            IF Len(v.list) > d.n THEN Raised
            ELSE v.list \o Zeros(d.n - Len(v.list))

\* adsSyncReadReqEx2: texts are read into a buffer of zeros.
ResponseValue(d, b) ==
    CASE d.kind = "STRING" -> Decode8(Before(b, Null8(b)))
      [] d.kind = "WSTRING" -> WideValue(b)
      [] d.kind = "BYTE" /\ d.n = 1 -> IF Len(b) = 1 THEN b[1] ELSE Raised
      [] d.kind = "BYTE" /\ d.n > 1 -> IF Len(b) = d.n THEN List(b) ELSE Raised
-----------------------------------------------------------------------------
(* Structures                                                              *)

RECURSIVE SizeOfStructure(_)
Width(d) == CASE d.kind = "BYTE" -> 1
              [] d.kind \in {"STRING", "WSTRING"} -> TextWidth(d)
              [] d.kind = "STRUCT" -> SizeOfStructure(d.def)
SizeOfStructure(def) ==
    FoldLeft(LAMBDA size, d : size + Width(d) * d.n, 0, def)
Size(d) == Width(d) * d.n

Offset(def, i) == SizeOfStructure(SubSeq(def, 1, i - 1))

RECURSIVE DictFromBytes(_, _)
ElementFromBytes(d, b) ==
    CASE d.kind = "BYTE" -> IF b = <<>> THEN Raised ELSE b[1]
      [] d.kind = "STRING" -> Decode8(Before(b, Null8(b)))
      [] d.kind = "WSTRING" -> Decode16(Before(b, Null16(b)))
      [] d.kind = "STRUCT" -> DictFromBytes(b, d.def)
\* n elements from b, a list unless there is one.
FromBytes(d, b) ==
    LET w == Width(d)
        values == All([i \in 1 .. d.n |->
                          ElementFromBytes(d, Slice(b, w * (i - 1), w * i))])
    IN  IF values = Raised THEN Raised
        ELSE IF d.n = 1 THEN values[1] ELSE List(values)
DictFromBytes(b, def) ==
    LET values == All([i \in DOMAIN def |->
                         FromBytes(def[i], Slice(b, Offset(def, i),
                                                 Offset(def, i) + Size(def[i])))])
    IN  IF values = Raised THEN Raised ELSE [dict |-> values]

\* A nested structure is indexed even when there is one of it, which a dict
\* refuses.
RECURSIVE BytesFromDict(_, _)
ElementBytes(d, v) ==
    CASE d.kind = "BYTE" -> <<v>>
      [] d.kind = "STRING" -> Utf8(v) \o Padding(d, v)
      [] d.kind = "WSTRING" -> Utf16(v) \o Padding(d, v)
      [] d.kind = "STRUCT" -> BytesFromDict(v, d.def)
BytesOf(d, v) ==
    IF d.kind = "STRUCT" /\ ~IsList(v) THEN Raised
    ELSE Concat([i \in 1 .. d.n |->
            ElementBytes(d, IF d.n > 1 \/ d.kind = "STRUCT" THEN v.list[i] ELSE v)])
BytesFromDict(v, def) ==
    LET dicts == IF IsList(v) THEN v.list ELSE <<v>>
    IN  Concat([k \in DOMAIN dicts |->
            Concat([i \in DOMAIN def |-> BytesOf(def[i], dicts[k].dict[i])])])

\* A value as bytes_from_dict takes it: every nested structure in a list.
RECURSIVE Listed(_, _)
Listed(v, d) ==
    IF d.kind # "STRUCT" THEN v
    ELSE List([k \in 1 .. d.n |->
            LET e == IF d.n = 1 THEN v ELSE v.list[k]
            IN  [dict |-> [i \in DOMAIN d.def |-> Listed(e.dict[i], d.def[i])]]])
-----------------------------------------------------------------------------
(* Sum commands                                                            *)

\* A text of a sum read needs its terminator.
SumElement(kind, b) ==
    LET null == IF kind = "STRING" THEN Null8(b) ELSE Null16(b)
    IN  IF null = -1 THEN Raised
        ELSE IF kind = "STRING" THEN Decode8(Slice(b, 0, null))
        ELSE Decode16(Slice(b, 0, null))
\* One value of a sum read, b the bytes its symbol info speaks of; of an array
\* of structures it is the first.
SumValue(d, b) ==
    LET size == Len(b)
        w == Width(d)
        values == All([j \in 1 .. size \div w |->
                          SumElement(d.kind, Slice(b, w * (j - 1), size))])
    IN  CASE d.kind = "STRUCT" -> DictFromBytes(b, d.def)
          [] d.kind = "BYTE" -> IF size > 1 THEN List(b) ELSE b[1]
          [] OTHER -> IF size = w THEN SumElement(d.kind, b)
                      ELSE IF values = Raised THEN Raised ELSE List(values)

\* The value part of a sum write: each text replaces as many bytes of the
\* buffer as it has characters; a size that is not that of one text makes it
\* an array, of characters if it is none.
PackInto(buf, offset, d, size, v) ==
    LET perChar == IF d.kind = "STRING" THEN 1 ELSE 2
        elements == IF d.n > 1 THEN v.list ELSE [i \in DOMAIN v |-> <<v[i]>>]
        Text(b, at, text) ==
            Splice(b, at, perChar * Len(text),
                   IF d.kind = "STRING" THEN Utf8(text) ELSE Utf16(text))
    IN  CASE d.kind = "STRUCT" -> Splice(buf, offset, size, v)
          [] d.kind = "BYTE" ->
                Splice(buf, offset, size, IF size > 1 THEN v.list ELSE <<v>>)
          [] OTHER ->
                IF size = Width(d) THEN Text(buf, offset, v)
                ELSE FoldLeft(LAMBDA b, i : Text(b, offset + Width(d) * (i - 1),
                                                 elements[i]),
                              buf, [i \in DOMAIN elements |-> i])
=============================================================================
