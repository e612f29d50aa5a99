------------------------------ MODULE DataAccess ------------------------------
(***************************************************************************)
(* Connection's access by name, one variable or a list of them at a time,  *)
(* with the symbol infos it keeps for ever, against a target that is       *)
(* either a PLC or the repository's own test server (AdvancedHandler).     *)
(*                                                                         *)
(* External: a PLC's variables keep their size; it refuses a request that  *)
(* is longer, and a shorter one changes only the first bytes; a download   *)
(* may move variables and remove them.  The test server replaces what it   *)
(* has stored, so that a variable is as long as what was last written.     *)
(***************************************************************************)
EXTENDS PlcData, FiniteSets, Functions

CONSTANTS
    Var,       \* names of PLC variables
    Decl,      \* how each is declared
    Start,     \* the bytes each has at first
    Input,     \* the values that are written to each, in a sequence
    Batch,     \* the lists of names that are read and written together
    Chunk,     \* values of ads_sub_commands
    MaxCalls,  \* bound: writes and downloads
    NoInfo     \* no entry in _symbol_info_cache

ASSUME DataAccessAssumption ==
    /\ \A x \in Var : Len(Start[x]) = Size(Decl[x])
    /\ Batch \subseteq Seq(Var)
    /\ Chunk \subseteq Nat \ {0}
    /\ MaxCalls \in Nat

VARIABLES
    target,  \* "PLC" or "server"
    mem,     \* the bytes of each variable
    place,   \* its index offset, or 0 after a download without it
    cache,   \* _symbol_info_cache: place and size
    calls,   \* bound: how many there were
    lost     \* history: variables the last write left other than it promised

dataVars == <<target, mem, place, cache, calls, lost>>
-----------------------------------------------------------------------------
Place == 1 .. Cardinality(Var)
SymbolInfo == [place : Place, size : Nat]

DataTypeOK ==
    /\ target \in {"PLC", "server"}
    /\ mem \in [Var -> Seq(0 .. 255)]
    /\ target = "PLC" => \A x \in Var : Len(mem[x]) = Size(Decl[x])
    /\ place \in [Var -> Place \cup {0}]
    /\ IsInjective(Restrict(place, {x \in Var : place[x] # 0}))
    /\ cache \in [Var -> SymbolInfo \cup {NoInfo}]
    /\ calls \in 0 .. MaxCalls
    /\ lost \subseteq Var

DataInit ==
    /\ target \in {"PLC", "server"}
    /\ mem = Start
    /\ place = CHOOSE f \in [Var -> Place] : IsInjective(f)
    /\ cache = [x \in Var |-> NoInfo]
    /\ calls = 0
    /\ lost = {}
-----------------------------------------------------------------------------
(* The target                                                              *)

There(p) == {x \in Var : place[x] = p}
Info(x) == IF place[x] = 0 THEN Raised
           ELSE [place |-> place[x], size |-> Len(mem[x])]

\* A mutant: a shorter request to a PLC cuts the variable.
Replaced(x, old, bytes) == bytes
Stored(x, old, bytes) ==
    IF target = "server" THEN bytes
    ELSE Overwritten(old, bytes)

\* The answer to one request of a sum read: a PLC sends as much as was asked
\* for even with an error, the test server sends the value as it is.
Answer(info) ==
    IF There(info.place) = {} THEN Zeros(info.size)
    ELSE LET b == mem[CHOOSE x \in There(info.place) : TRUE]
         IN  IF target = "PLC" THEN Slice(b, 0, info.size) ELSE b
-----------------------------------------------------------------------------
(* Symbol infos                                                            *)

\* The infos a call on the variables of s works with: with cached TRUE those
\* it has, and those it has not are asked for and kept.
Infos(s, cached) ==
    [x \in s |-> IF cached /\ cache[x] # NoInfo THEN cache[x] ELSE Info(x)]
Known(s, cached) == \A x \in s : Infos(s, cached)[x] # Raised
Kept(s, cached) ==
    cache' = IF cached /\ Known(s, cached)
             THEN [x \in Var |-> IF x \in s THEN Infos(s, cached)[x] ELSE cache[x]]
             ELSE cache
-----------------------------------------------------------------------------
(* One variable                                                            *)

ReadByName(x) ==
    IF place[x] = 0 THEN Raised ELSE ResponseValue(Decl[x], mem[x])
ReadStructureByName(x) ==
    IF place[x] = 0 \/ Len(mem[x]) # Size(Decl[x]) THEN Raised
    ELSE FromBytes(Decl[x], mem[x])
Read(x) == IF Decl[x].kind = "STRUCT" THEN ReadStructureByName(x)
           ELSE ReadByName(x)

\* write_structure_by_name sends exactly the size of its definition.
StructureBytes(d, v) ==
    LET b == BytesFromDict(v, d.def)
    IN  IF b = Raised THEN Raised
        ELSE IF Len(b) > Size(d) THEN Raised
        ELSE b \o Zeros(Size(d) - Len(b))
SingleBytes(x, v) ==
    LET b == IF Decl[x].kind = "STRUCT" THEN StructureBytes(Decl[x], v)
             ELSE RequestBytes(Decl[x], v)
    IN  IF place[x] = 0 \/ b = Raised THEN Raised
        ELSE IF target = "PLC" /\ Len(b) > Len(mem[x]) THEN Raised ELSE b
-----------------------------------------------------------------------------
(* Lists                                                                   *)

\* A mutant: the data of a command that failed is not skipped.
SkipAnswered(info) == IF There(info.place) = {} THEN 0 ELSE info.size

\* How far a sum read moves on in the answer after one command.
Skip(info) == info.size

\* One sum read: the values in the order of names.  A structure that failed
\* makes dict_from_bytes raise.
SumRead(names, infos) ==
    LET answers == [i \in DOMAIN names |-> Answer(infos[names[i]])]
        sizes == [i \in DOMAIN names |-> infos[names[i]].size]
        skips == [i \in DOMAIN names |-> Skip(infos[names[i]])]
        data == SumData(sizes, answers)
        Value(i) ==
            IF There(infos[names[i]].place) # {}
            THEN SumValue(Decl[names[i]], PartOf(data, skips, i))
            ELSE IF Decl[names[i]].kind = "STRUCT" THEN Raised ELSE Failed
    IN  IF Len(data) > StartOf(sizes, Len(sizes) + 1) THEN Raised
        ELSE All([i \in DOMAIN names |-> Value(i)])

ReadListByName(names, cached, k) ==
    IF ~Known(ToSet(names), cached) THEN Raised
    ELSE Concat([c \in DOMAIN Chunks(names, k) |->
                    SumRead(Chunks(names, k)[c], Infos(ToSet(names), cached))])

\* One sum write: memory m after it.
SumWrite(m, names, values, infos) ==
    LET sizes == [i \in DOMAIN names |-> infos[names[i]].size]
        order == [i \in DOMAIN names |-> i]
        Pack(buf, i) == PackInto(buf, StartOf(sizes, i), Decl[names[i]], sizes[i],
                                 values[names[i]])
        buffer == FoldLeft(Pack, Zeros(StartOf(sizes, Len(sizes) + 1)), order)
        Write(n, i) ==
            [x \in Var |-> IF x \in There(infos[names[i]].place)
                           THEN Stored(x, n[x], PartOf(buffer, sizes, i)) ELSE n[x]]
    IN  FoldLeft(Write, m, order)

\* write_list_by_name: structures become bytes before anything is sent.
Prepared(x, v) == IF Decl[x].kind = "STRUCT" THEN BytesFromDict(v, Decl[x].def)
                  ELSE v
WriteListByName(names, values, cached, k) ==
    LET s == ToSet(names)
        packed == [x \in s |-> Prepared(x, values[x])]
    IN  IF ~Known(s, cached) \/ \E x \in s : packed[x] = Raised THEN mem
        ELSE FoldLeft(LAMBDA m, chunk : SumWrite(m, chunk, packed, Infos(s, cached)),
                      mem, Chunks(names, k))
-----------------------------------------------------------------------------
(* What a write promises                                                   *)

\* Texts that fit: in a list by their bytes, in a structure (inside) by their
\* characters, which must be ASCII.
RECURSIVE Fits(_, _, _)
Fits(d, v, inside) ==
    LET Element(e) ==
            CASE d.kind = "BYTE" -> TRUE
              [] d.kind = "STRING" -> /\ Len(Utf8(e)) <= Chars(d)
                                      /\ inside => Len(Utf8(e)) = Len(e)
              [] d.kind = "WSTRING" -> Len(e) <= Chars(d)
              [] d.kind = "STRUCT" ->
                    \A i \in DOMAIN d.def : Fits(d.def[i], e.dict[i], TRUE)
    IN  IF d.n = 1 THEN Element(v)
        ELSE \A i \in DOMAIN v.list : Element(v.list[i])

\* The value of declaration d that bytes b have: each element on its own.
RECURSIVE Meaning(_, _)
Meaning(d, b) ==
    LET w == Width(d)
        Element(e) ==
            CASE d.kind = "BYTE" -> e[1]
              [] d.kind = "STRING" ->
                    IF Null8(e) = -1 THEN Raised ELSE Decode8(Before(e, Null8(e)))
              [] d.kind = "WSTRING" ->
                    IF Null16(e) = -1 THEN Raised ELSE Decode16(Before(e, Null16(e)))
              [] d.kind = "STRUCT" -> DictFromBytes(e, d.def)
        values == All([i \in 1 .. d.n |-> Element(Slice(b, w * (i - 1), w * i))])
    IN  IF Len(b) # Size(d) \/ values = Raised THEN Raised
        ELSE IF d.n = 1 THEN values[1] ELSE List(values)

\* The info of x is that of x, as far as x is there.
Current(x, info) ==
    IF place[x] = 0 THEN There(info.place) = {} ELSE info = Info(x)
AllCurrent(s, cached) == \A x \in s : Current(x, Infos(s, cached)[x])
Sized(x) == Len(mem[x]) = Size(Decl[x])

\* What a write of values to names left undone or did to others.
Lost(names, values) ==
    {x \in Var :
        IF x \in names /\ place[x] # 0
        THEN Meaning(Decl[x], mem'[x]) # values[x]
        ELSE mem'[x] # mem[x]}
-----------------------------------------------------------------------------
Write(x, v) ==
    /\ calls < MaxCalls
    /\ calls' = calls + 1
    /\ Plain(Decl[x]) \/ Decl[x].kind = "STRUCT"
    /\ LET b == SingleBytes(x, IF Decl[x].kind = "STRUCT" THEN Listed(v, Decl[x])
                               ELSE v)
       IN  mem' = IF b = Raised THEN mem
                  ELSE [mem EXCEPT ![x] = Stored(x, mem[x], b)]
    /\ lost' = IF /\ target = "PLC"
                  /\ place[x] # 0
                  /\ Fits(Decl[x], v, FALSE)
                  /\ Decl[x].kind = "WSTRING" => Len(v) >= Len(Read(x))
               THEN Lost({x}, [y \in {x} |-> v]) ELSE {}
    /\ IF Plain(Decl[x]) THEN Kept({x}, TRUE) ELSE UNCHANGED cache
    /\ UNCHANGED <<target, place>>

WriteList(names, values, cached, k) ==
    /\ calls < MaxCalls
    /\ calls' = calls + 1
    /\ LET s == ToSet(names)
           form == [x \in s |-> IF Decl[x].kind = "STRUCT"
                                THEN Listed(values[x], Decl[x]) ELSE values[x]]
       IN  /\ mem' = WriteListByName(names, form, cached, k)
           /\ Kept(s, cached)
           /\ lost' = IF /\ Known(s, cached)
                         /\ AllCurrent(s, cached)
                         /\ \A x \in s : Sized(x) /\ Fits(Decl[x], values[x], FALSE)
                      THEN Lost(s, values) ELSE {}
    /\ UNCHANGED <<target, place>>

\* read_by_name and read_list_by_name change nothing but the symbol infos.
ReadList(names) ==
    /\ Kept(ToSet(names), TRUE)
    /\ UNCHANGED <<target, mem, place, calls, lost>>

\* External: variables of one size change places, or one of them is removed.
Download ==
    /\ target = "PLC"
    /\ calls < MaxCalls
    /\ calls' = calls + 1
    /\ \E x \in Var : \E y \in Var :
          /\ place[x] # 0 /\ place[y] # 0
          /\ IF x = y THEN place' = [place EXCEPT ![x] = 0]
             ELSE /\ Len(mem[x]) = Len(mem[y])
                  /\ place' = [place EXCEPT ![x] = place[y], ![y] = place[x]]
    /\ lost' = {}
    /\ UNCHANGED <<target, mem, cache>>

\* One value of Input for each variable of s, by its number.
Picks(s) ==
    LET most == CHOOSE m \in {Len(Input[x]) : x \in s} :
                    \A x \in s : Len(Input[x]) <= m
    IN  {f \in [s -> 1 .. most] : \A x \in s : f[x] <= Len(Input[x])}

DataNext ==
    \/ \E x \in Var : \E i \in DOMAIN Input[x] : Write(x, Input[x][i])
    \/ \E names \in Batch : \E cached \in BOOLEAN : \E k \in Chunk :
          \E pick \in Picks(ToSet(names)) :
             WriteList(names, [x \in ToSet(names) |-> Input[x][pick[x]]], cached, k)
    \/ \E names \in Batch : ReadList(names)
    \/ Download
-----------------------------------------------------------------------------
(* A list read is worth as much as its single reads: with symbol infos     *)
(* that are current, however it is cut into sum commands, it gives for     *)
(* each variable what a read of that variable alone gives, and the error   *)
(* text for one that is gone.  It raises, and gives no value at all, just  *)
(* when one text has lost its terminator or cannot be decoded, or when a   *)
(* structure is gone.                                                      *)
ReadsAgree ==
    \A names \in Batch : \A cached \in BOOLEAN : \A k \in Chunk :
        LET s == ToSet(names)
            Spoilt(x) == IF place[x] = 0 THEN Decl[x].kind = "STRUCT"
                         ELSE Meaning(Decl[x], mem[x]) = Raised
        IN  /\ Known(s, cached)
            /\ AllCurrent(s, cached)
            /\ \A x \in s : Sized(x)
            => ReadListByName(names, cached, k) =
                  IF \E x \in s : Spoilt(x) THEN Raised
                  ELSE [i \in DOMAIN names |->
                          IF place[names[i]] = 0 THEN Failed
                          ELSE IF Plain(Decl[names[i]])
                                  \/ Decl[names[i]].kind = "STRUCT"
                          THEN Read(names[i])
                          ELSE Meaning(Decl[names[i]], mem[names[i]])]

(* A write changes what it names and nothing else: what was written can be *)
(* read, and no other variable changes, for values that fit.  It does not  *)
(* hold of a list written with symbol infos from before a download, nor of *)
(* a single WSTRING shorter than the one it replaces (it goes without its  *)
(* terminator), nor of a single write to the test server (which keeps what *)
(* it was sent, whatever the declared size), which are left out by name in *)
(* Write and WriteList.                                                    *)
WritesLand == lost = {}

(* A structure survives a round trip: the bytes of a variable, decoded and *)
(* encoded again with every nested structure in a list, have the same      *)
(* meaning and the same length, provided its STRING fields are ASCII.      *)
StructRoundTrip ==
    \A x \in Var :
        LET d == Decl[x]
            v == IF d.kind = "STRUCT" THEN Read(x) ELSE Raised
        IN  v # Raised => LET w == StructureBytes(d, Listed(v, d))
                          IN  Fits(d, v, FALSE) => Meaning(d, w) = v
=============================================================================
