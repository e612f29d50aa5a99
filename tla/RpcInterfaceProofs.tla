------------------------- MODULE RpcInterfaceProofs -------------------------
(***************************************************************************)
(* Theorems about RpcInterface, for any classes, bases, decorations and    *)
(* threads.                                                                *)
(***************************************************************************)
EXTENDS RpcInterface, FiniteSetTheorems, WellFoundedInduction,
        NaturalsInduction, TLAPS

(* What carries the invariants *)

\* A class keeps its own definition only, and one with a stepchain is async.
ResolvedInv ==
    \A c \in Class :
        /\ defs[c] \in {c, NoClass}
        /\ defs[c] = c /\ c \in Stepchain => IsAsync(c)

\* The definition of an object is that of a class or an ancestor, which keeps
\* it, and what its class would be given now unless there was a race.
Made(o) ==
    /\ o.of \in Resolved
    /\ o.of \in Ancestors[o.class]
    /\ o.class \notin raced => o.of = CachedDefinition(o.class)
    /\ o.class \notin shadowed => o.of = o.class
    /\ o.via = "get_object" => ~IsAsync(o.of)

InterfaceInv ==
    /\ InterfaceTypeOK
    /\ ResolvedInv
    /\ \A o \in objects : Made(o)
-----------------------------------------------------------------------------
(* Classes and their bases *)

LEMMA AncestorsFacts ==
    ASSUME NEW c \in Class
    PROVE  /\ Ancestors[c] \subseteq Class
           /\ c \in Ancestors[c]
           /\ \A a \in Ancestors[c] : Parent[a] # NoClass => Parent[a] \in Ancestors[c]
<1>1. /\ Ancestors[c] \subseteq Class
      /\ c \in Ancestors[c]
  BY DEF Ancestors
<1>2. ASSUME NEW a \in Ancestors[c], Parent[a] # NoClass
      PROVE  Parent[a] \in Ancestors[c]
  <2>1. a \in Class /\ Parent[a] \in Class
    BY <1>1, <1>2, RpcInterfaceAssumption
  <2>2. ASSUME NEW S \in SUBSET Class, c \in S, WithBases(S)
        PROVE  Parent[a] \in S
    <3>1. a \in S
      BY <1>2, <2>2 DEF Ancestors
    <3> QED
      BY <1>2, <2>2, <3>1 DEF WithBases
  <2> QED
    BY <2>1, <2>2 DEF Ancestors
<1> QED
  BY <1>1, <1>2

\* Whatever has the class and every base of its members has its ancestors.
LEMMA AncestorsLeast ==
    ASSUME NEW c \in Class, NEW S \in SUBSET Class, c \in S,
           \A x \in S : Parent[x] # NoClass => Parent[x] \in S
    PROVE  Ancestors[c] \subseteq S
<1>1. WithBases(S)
  BY DEF WithBases
<1> QED
  BY <1>1 DEF Ancestors

\* A class and the ancestors of its base.
LEMMA AncestorsStep ==
    ASSUME NEW c \in Class, NEW a \in Ancestors[c], a # c
    PROVE  Parent[c] \in Class /\ a \in Ancestors[Parent[c]]
<1>1. CASE Parent[c] = NoClass
  <2> DEFINE S == {c}
  <2>1. /\ S \in SUBSET Class /\ c \in S
        /\ \A x \in S : Parent[x] # NoClass => Parent[x] \in S
    BY <1>1
  <2>2. Ancestors[c] \subseteq S
    <3> HIDE DEF S
    <3> QED
      BY <2>1, AncestorsLeast
  <2> QED
    BY <2>2
<1>2. CASE Parent[c] # NoClass
  <2>1. Parent[c] \in Class
    BY <1>2, RpcInterfaceAssumption
  <2> DEFINE S == {c} \cup Ancestors[Parent[c]]
  <2>2. S \subseteq Class /\ c \in S
    BY <2>1, AncestorsFacts
  <2>3. \A x \in S : Parent[x] # NoClass => Parent[x] \in S
    BY <2>1, AncestorsFacts
  <2>4. Ancestors[c] \subseteq S
    <3> HIDE DEF S
    <3> QED
      BY <2>2, <2>3, AncestorsLeast
  <2> QED
    BY <2>1, <2>4
<1> QED
  BY <1>1, <1>2

LEMMA AncestorsTransitive ==
    ASSUME NEW c \in Class, NEW b \in Ancestors[c]
    PROVE  Ancestors[b] \subseteq Ancestors[c]
  BY AncestorsFacts, AncestorsLeast

\* Two ancestors of a class: one of them is an ancestor of the other.
LEMMA AncestorsChain ==
    ASSUME NEW c \in Class, NEW a \in Ancestors[c], NEW b \in Ancestors[c]
    PROVE  a \in Ancestors[b] \/ b \in Ancestors[a]
<1> DEFINE S == {x \in Class : x \in Ancestors[a] \/ a \in Ancestors[x]}
<1>1. a \in Class /\ c \in S
  BY AncestorsFacts
<1>2. ASSUME NEW x \in S, Parent[x] # NoClass
      PROVE  Parent[x] \in S
  <2>1. x \in Class /\ Parent[x] \in Class
    BY <1>2, RpcInterfaceAssumption
  <2>2. CASE x \in Ancestors[a]
    BY <1>1, <1>2, <2>1, <2>2, AncestorsFacts
  <2>3. CASE a \in Ancestors[x] /\ a # x
    BY <2>1, <2>3, AncestorsStep
  <2>4. CASE a = x
    BY <1>1, <1>2, <2>1, <2>4, AncestorsFacts
  <2> QED
    BY <1>2, <2>2, <2>3, <2>4
<1>3. Ancestors[c] \subseteq S
  <2>1. S \in SUBSET Class
    OBVIOUS
  <2> HIDE DEF S
  <2> QED
    BY <1>1, <1>2, <2>1, AncestorsLeast
<1> QED
  BY <1>3

\* No class is an ancestor of an ancestor of its: bases are made first.
LEMMA AncestorsOrder ==
    /\ Cardinality(Class) \in Nat
    /\ \E made \in [Class -> 1 .. Cardinality(Class)] :
          \A c \in Class : \A a \in Ancestors[c] : a = c \/ made[a] < made[c]
<1>1. Cardinality(Class) \in Nat
  BY FS_CardinalityType, RpcInterfaceAssumption
<1>2. PICK made \in [Class -> 1 .. Cardinality(Class)] :
         \A c \in Class : Parent[c] # NoClass => made[Parent[c]] < made[c]
  BY RpcInterfaceAssumption
<1>3. ASSUME NEW c \in Class
      PROVE  \A a \in Ancestors[c] : a = c \/ made[a] < made[c]
  <2> DEFINE S == {x \in Class : x = c \/ made[x] < made[c]}
  <2>1. S \in SUBSET Class /\ c \in S
    OBVIOUS
  <2>2. ASSUME NEW x \in S, Parent[x] # NoClass
        PROVE  Parent[x] \in S
    <3>1. x \in Class /\ Parent[x] \in Class
      BY <2>2, RpcInterfaceAssumption
    <3>2. made[Parent[x]] < made[x]
      BY <1>2, <2>2, <3>1
    <3>3. made[x] \in Nat /\ made[Parent[x]] \in Nat /\ made[c] \in Nat
      BY <1>1, <3>1
    <3>4. x = c \/ made[x] < made[c]
      BY <2>2
    <3> QED
      BY <3>1, <3>2, <3>3, <3>4
  <2>3. Ancestors[c] \subseteq S
    <3> HIDE DEF S
    <3> QED
      BY <2>1, <2>2, AncestorsLeast
  <2> QED
    BY <2>3
<1> QED
  BY <1>1, <1>2, <1>3

LEMMA AncestorsOneWay ==
    ASSUME NEW a \in Class, NEW b \in Class, a \in Ancestors[b], b \in Ancestors[a]
    PROVE  a = b
<1>1. PICK made \in [Class -> 1 .. Cardinality(Class)] :
         \A c \in Class : \A x \in Ancestors[c] : x = c \/ made[x] < made[c]
  BY AncestorsOrder
<1>2. made[a] \in Nat /\ made[b] \in Nat
  BY <1>1, AncestorsOrder
<1>3. (a = b \/ made[a] < made[b]) /\ (a = b \/ made[b] < made[a])
  BY <1>1
<1> QED
  BY <1>2, <1>3

LEMMA LeastNumber ==
    ASSUME NEW T, T \subseteq Nat, T # {}
    PROVE  \E k \in T : \A j \in T : ~(j < k)
<1>1. PICK k \in T : \A j \in T : ~(<<j, k>> \in OpToRel(<, Nat))
  BY Zenon, NatLessThanWellFounded, WFMin
<1> QED
  BY <1>1 DEF OpToRel

\* getattr finds the attribute of the nearest class that has it.
LEMMA NearestFacts ==
    ASSUME NEW c \in Class, NEW holds \in SUBSET Class
    PROVE  \/ /\ Nearest(c, holds) = NoClass
              /\ Ancestors[c] \cap holds = {}
           \/ /\ Nearest(c, holds) \in Ancestors[c] \cap holds
              /\ Ancestors[c] \cap holds \subseteq Ancestors[Nearest(c, holds)]
<1> DEFINE at == Ancestors[c] \cap holds
<1>1. CASE at = {}
  BY <1>1 DEF Nearest
<1>2. CASE at # {}
  <2>1. PICK made \in [Class -> 1 .. Cardinality(Class)] :
           \A x \in Class : \A a \in Ancestors[x] : a = x \/ made[a] < made[x]
    BY AncestorsOrder
  <2>2. \A x \in Class : made[x] \in Nat /\ Cardinality(Class) - made[x] \in Nat
    BY AncestorsOrder
  <2> DEFINE T == {Cardinality(Class) - made[x] : x \in at}
  <2>3. T \subseteq Nat /\ T # {}
    BY <1>2, <2>2
  <2>4. PICK k \in T : \A j \in T : ~(j < k)
    <3> HIDE DEF T
    <3> QED
      BY <2>3, LeastNumber
  <2>5. PICK a \in at : k = Cardinality(Class) - made[a]
    OBVIOUS
  <2>6. ASSUME NEW b \in at
        PROVE  b \in Ancestors[a]
    <3>1. b \in Ancestors[a] \/ a \in Ancestors[b]
      BY AncestorsChain
    <3>2. ~(Cardinality(Class) - made[b] < Cardinality(Class) - made[a])
      BY <2>4, <2>5
    <3>3. ~(made[a] < made[b])
      BY <2>2, <3>2, AncestorsOrder
    <3>4. a \in Class /\ a \in Ancestors[a] /\ b \in Class
      BY AncestorsFacts
    <3> QED
      BY <2>1, <3>1, <3>3, <3>4
  <2>7. Nearest(c, holds) = CHOOSE x \in at : at \subseteq Ancestors[x]
    BY <1>2 DEF Nearest
  <2> QED
    BY <2>6, <2>7
<1> QED
  BY <1>1, <1>2

\* There is one nearest.
LEMMA NearestIs ==
    ASSUME NEW c \in Class, NEW holds \in SUBSET Class,
           NEW a \in Ancestors[c] \cap holds,
           Ancestors[c] \cap holds \subseteq Ancestors[a]
    PROVE  Nearest(c, holds) = a
<1>1. /\ Nearest(c, holds) \in Ancestors[c] \cap holds
      /\ Ancestors[c] \cap holds \subseteq Ancestors[Nearest(c, holds)]
  BY NearestFacts
<1>2. Nearest(c, holds) \in Class /\ a \in Class
  BY <1>1
<1> QED
  BY <1>1, <1>2, AncestorsOneWay

LEMMA NearestSelf ==
    ASSUME NEW holds \in SUBSET Class, NEW c \in holds
    PROVE  Nearest(c, holds) = c
  BY NearestIs, AncestorsFacts
-----------------------------------------------------------------------------
(* Definitions and who gets them *)

Kept(d) == {x \in Class : d[x] # NoClass}
Given(c, d) == LET a == Nearest(c, Kept(d)) IN IF a = NoClass THEN NoClass ELSE d[a]

\* Where classes keep their own definitions only.
Owned(d) == d \in [Class -> Class \cup {NoClass}] /\ \A c \in Class : d[c] \in {c, NoClass}

LEMMA GivenIsCached ==
    /\ Resolved = Kept(defs) /\ Resolved' = Kept(defs')
    /\ \A c \in Class : CachedDefinition(c) = Given(c, defs)
    /\ \A c \in Class : CachedDefinition(c)' = Given(c, defs')
  BY DEF Resolved, Kept, CachedDefinition, Given

LEMMA GivenIsNearest ==
    ASSUME NEW d, Owned(d), NEW c \in Class
    PROVE  /\ Given(c, d) = Nearest(c, Kept(d))
           /\ \/ Given(c, d) = NoClass /\ Ancestors[c] \cap Kept(d) = {}
              \/ /\ Given(c, d) \in Ancestors[c] \cap Kept(d)
                 /\ Ancestors[c] \cap Kept(d) \subseteq Ancestors[Given(c, d)]
<1>1. Kept(d) \in SUBSET Class
  BY DEF Kept
<1>2. \A a \in Kept(d) : d[a] = a
  BY DEF Kept, Owned
<1>3. Given(c, d) = Nearest(c, Kept(d))
  BY <1>1, <1>2, NearestFacts DEF Given
<1> QED
  BY <1>1, <1>3, NearestFacts

LEMMA GivenIs ==
    ASSUME NEW d, Owned(d), NEW c \in Class, NEW a \in Ancestors[c] \cap Kept(d),
           Ancestors[c] \cap Kept(d) \subseteq Ancestors[a]
    PROVE  Given(c, d) = a
<1>1. Kept(d) \in SUBSET Class
  BY DEF Kept
<1> QED
  BY <1>1, GivenIsNearest, NearestIs

\* What a class is given stays when a class is resolved that was given none or
\* its own, and whenever one is resolved that is no ancestor.
LEMMA GivenStays ==
    ASSUME NEW d, Owned(d), NEW c \in Class, NEW b \in Class, Given(b, d) # NoClass,
           c \in Ancestors[b] => Given(c, d) \in {NoClass, c}
    PROVE  LET e == [d EXCEPT ![c] = c]
           IN  Owned(e) /\ Given(b, e) = Given(b, d)
<1> DEFINE e == [d EXCEPT ![c] = c]
<1>1. Owned(e) /\ Kept(e) = Kept(d) \cup {c}
  BY RpcInterfaceAssumption DEF Owned, Kept
<1>2. PICK a : a = Given(b, d)
  OBVIOUS
<1>3. a \in Ancestors[b] \cap Kept(d) /\ Ancestors[b] \cap Kept(d) \subseteq Ancestors[a]
  BY <1>2, GivenIsNearest
<1>4. c \in Ancestors[b] => c \in Ancestors[a]
  <2>1. SUFFICES ASSUME c \in Ancestors[b], c \notin Ancestors[a]
                 PROVE  FALSE
    OBVIOUS
  <2>2. c \notin Kept(d)
    BY <1>3, <2>1
  <2>3. a \in Ancestors[c]
    BY <1>3, <2>1, AncestorsChain
  <2>4. Given(c, d) \in Ancestors[c] \cap Kept(d)
    <3>1. a \in Ancestors[c] \cap Kept(d)
      BY <1>3, <2>3
    <3> QED
      BY <3>1, GivenIsNearest
  <2>5. Given(c, d) # NoClass
    BY <2>4, RpcInterfaceAssumption DEF Kept
  <2>6. Given(c, d) \in {NoClass, c}
    BY <2>1
  <2> QED
    BY <2>2, <2>4, <2>5, <2>6
<1>5. a \in Ancestors[b] \cap Kept(e) /\ Ancestors[b] \cap Kept(e) \subseteq Ancestors[a]
  BY <1>1, <1>3, <1>4
<1>6. Given(b, e) = a
  <2> HIDE DEF e
  <2> QED
    BY <1>1, <1>5, GivenIs
<1> QED
  BY <1>1, <1>2, <1>6
-----------------------------------------------------------------------------
(* The steps *)

Via == {"get_object", "get_async_object"}

\* What one call makes of a class, from the definition of another.
New(c, via, of) == [class |-> c, via |-> via, of |-> of]

LEMMA GetObjectDoes ==
    ASSUME InterfaceTypeOK, ResolvedInv, NEW t \in Getter, NEW c \in Class, NEW via \in Via,
           GetObject(t, c, via)
    PROVE  /\ UNCHANGED <<defs, raced>>
           /\ shadowed \subseteq shadowed' /\ shadowed' \subseteq Class
           /\ getter' \in [Getter -> Getting \cup {NoCall}]
           /\ \/ objects' = objects
              \/ \E of \in Class :
                    /\ of = CachedDefinition(c)
                    /\ of # c => c \in shadowed'
                    /\ Serves(of, via)
                    /\ objects' = objects \cup {New(c, via, of)}
<1>1. getter' \in [Getter -> Getting \cup {NoCall}]
  <2>1. [class |-> c, via |-> via] \in Getting
    BY DEF Getting, Via
  <2> QED
    BY <2>1 DEF GetObject, Make, InterfaceTypeOK
<1>2. shadowed' = shadowed \/ shadowed' = shadowed \cup ({c} \ {CachedDefinition(c)})
  BY DEF GetObject
<1>3. UNCHANGED <<defs, raced>> /\ shadowed \subseteq shadowed' /\ shadowed' \subseteq Class
  BY <1>2 DEF GetObject, InterfaceTypeOK
<1>4. CASE CachedDefinition(c) = NoClass
  BY <1>1, <1>3, <1>4 DEF GetObject
<1>5. CASE CachedDefinition(c) # NoClass
  <2>1. CachedDefinition(c) \in Class
    <3>1. Owned(defs)
      BY DEF Owned, InterfaceTypeOK, ResolvedInv
    <3> QED
      BY <1>5, <3>1, GivenIsCached, GivenIsNearest DEF Kept
  <2>2. shadowed' = shadowed \cup ({c} \ {CachedDefinition(c)})
    BY <1>5 DEF GetObject
  <2>3. \/ objects' = objects
        \/ /\ Serves(CachedDefinition(c), via)
           /\ objects' = objects \cup {New(c, via, CachedDefinition(c))}
    BY <1>5 DEF GetObject, Make, New
  <2> QED
    BY <1>1, <1>3, <2>1, <2>2, <2>3
<1> QED
  BY <1>4, <1>5

LEMMA ResolveDoes ==
    ASSUME InterfaceTypeOK, NEW t \in Getter, ResolveDefinition(t)
    PROVE  /\ shadowed' = shadowed
           /\ getter' \in [Getter -> Getting \cup {NoCall}]
           /\ \/ UNCHANGED <<defs, objects, raced>>
              \/ \E c \in Class, via \in Via :
                    /\ c \in Stepchain => IsAsync(c)
                    /\ defs' = [defs EXCEPT ![c] = c]
                    /\ raced' = IF CachedDefinition(c) \in {NoClass, c} THEN raced
                                ELSE raced \cup {d \in Class : c \in Ancestors[d]}
                    /\ \/ objects' = objects
                       \/ Serves(c, via) /\ objects' = objects \cup {New(c, via, c)}
<1>1. getter' \in [Getter -> Getting \cup {NoCall}] /\ shadowed' = shadowed
  BY DEF ResolveDefinition, Make, InterfaceTypeOK
<1>2. getter[t].class \in Class /\ getter[t].via \in Via
  <2>1. getter[t] \in Getting \cup {NoCall} /\ getter[t].class # NoClass
    BY DEF ResolveDefinition, InterfaceTypeOK
  <2>2. getter[t] \in Getting
    BY <2>1 DEF NoCall
  <2> QED
    BY <2>2 DEF Getting, Via
<1>3. PICK c \in Class, via \in Via : c = getter[t].class /\ via = getter[t].via
  BY <1>2
<1>4. CASE UNCHANGED <<defs, objects, raced>>
  BY <1>1, <1>4
<1>5. CASE ~UNCHANGED <<defs, objects, raced>>
  <2>1. ~(Nearest(c, HasPath) = NoClass \/ (c \in Stepchain /\ ~IsAsync(c)))
    BY <1>3, <1>5 DEF ResolveDefinition
  <2>2. /\ defs' = [defs EXCEPT ![c] = c]
        /\ raced' = IF CachedDefinition(c) \in {NoClass, c} THEN raced
                    ELSE raced \cup {d \in Class : c \in Ancestors[d]}
        /\ Make(t, c, via, c)
    BY <1>3, <2>1 DEF ResolveDefinition, Keeper
  <2>3. \/ objects' = objects
        \/ Serves(c, via) /\ objects' = objects \cup {New(c, via, c)}
    BY <2>2 DEF Make, New
  <2> QED
    BY <1>1, <2>1, <2>2, <2>3
<1> QED
  BY <1>4, <1>5

LEMMA InterfaceStep ==
    ASSUME InterfaceInv, [InterfaceNext]_interfaceVars
    PROVE  InterfaceInv'
<1>0. InterfaceTypeOK /\ ResolvedInv /\ Owned(defs) /\ \A o \in objects : Made(o)
  BY DEF InterfaceInv, InterfaceTypeOK, ResolvedInv, Owned
<1>00. \A o \in Object : o.class \in Class /\ o.of \in Class
  BY DEF Object
<1>1. ASSUME NEW t \in Getter, NEW c \in Class, NEW via \in Via, GetObject(t, c, via)
      PROVE  InterfaceInv'
  <2>1. /\ defs' = defs /\ raced' = raced
        /\ shadowed \subseteq shadowed' /\ shadowed' \subseteq Class
        /\ getter' \in [Getter -> Getting \cup {NoCall}]
        /\ \/ objects' = objects
           \/ \E of \in Class : /\ of = CachedDefinition(c)
                                /\ of # c => c \in shadowed'
                                /\ Serves(of, via)
                                /\ objects' = objects \cup {New(c, via, of)}
    BY <1>0, <1>1, GetObjectDoes
  <2>2. ResolvedInv'
    BY <1>0, <2>1 DEF ResolvedInv, IsAsync
  <2>3. ASSUME NEW o \in objects
        PROVE  Made(o)'
    BY <1>0, <2>1 DEF Made, Resolved, CachedDefinition, IsAsync
  <2>4. CASE objects' = objects
    BY <1>0, <2>1, <2>2, <2>3, <2>4 DEF InterfaceInv, InterfaceTypeOK
  <2>5. ASSUME NEW of \in Class, of = CachedDefinition(c), of # c => c \in shadowed',
               Serves(of, via), objects' = objects \cup {New(c, via, of)}
        PROVE  InterfaceInv'
    <3>1. New(c, via, of) \in Object
      BY DEF New, Object, Via
    <3>2. of \in Resolved /\ of \in Ancestors[c]
      BY <1>0, <2>5, GivenIsCached, GivenIsNearest, RpcInterfaceAssumption
    <3>3. Resolved' = Resolved /\ CachedDefinition(c)' = CachedDefinition(c)
      BY <2>1 DEF Resolved, CachedDefinition
    <3>4. Made(New(c, via, of))'
      BY <2>5, <3>2, <3>3 DEF Made, New, Serves, IsAsync
    <3> QED
      BY <1>0, <2>1, <2>2, <2>3, <2>5, <3>1, <3>4 DEF InterfaceInv, InterfaceTypeOK
  <2> QED
    BY <2>1, <2>4, <2>5
<1>2. ASSUME NEW t \in Getter, ResolveDefinition(t)
      PROVE  InterfaceInv'
  <2>1. /\ shadowed' = shadowed
        /\ getter' \in [Getter -> Getting \cup {NoCall}]
    BY <1>0, <1>2, ResolveDoes
  <2>2. CASE UNCHANGED <<defs, objects, raced>>
    <3>1. ResolvedInv' /\ \A o \in objects : Made(o)'
      BY <1>0, <2>1, <2>2 DEF ResolvedInv, Made, Resolved, CachedDefinition, IsAsync
    <3> QED
      BY <1>0, <2>1, <2>2, <3>1 DEF InterfaceInv, InterfaceTypeOK
  <2>3. ASSUME NEW c \in Class, NEW via \in Via,
               c \in Stepchain => IsAsync(c),
               defs' = [defs EXCEPT ![c] = c],
               raced' = IF CachedDefinition(c) \in {NoClass, c} THEN raced
                        ELSE raced \cup {d \in Class : c \in Ancestors[d]},
               \/ objects' = objects
               \/ Serves(c, via) /\ objects' = objects \cup {New(c, via, c)}
        PROVE  InterfaceInv'
    <3>1. /\ Owned(defs') /\ defs'[c] = c
          /\ Resolved' = Resolved \cup {c}
          /\ raced \subseteq raced' /\ raced' \subseteq Class
      <4>1. Owned(defs') /\ defs'[c] = c
        BY <1>0, <2>3 DEF Owned
      <4>2. Resolved' = Resolved \cup {c}
        BY <1>0, <2>3, RpcInterfaceAssumption DEF Owned, Resolved
      <4>3. raced \subseteq raced' /\ raced' \subseteq Class
        BY <1>0, <2>3 DEF InterfaceTypeOK
      <4> QED
        BY <4>1, <4>2, <4>3
    <3>2. ResolvedInv'
      BY <1>0, <2>3, <3>1 DEF ResolvedInv, Owned, IsAsync
    <3>3. ASSUME NEW o \in objects
          PROVE  Made(o)'
      <4>1. o.class \in Class /\ o.of \in Class /\ Made(o)
        BY <1>0, <1>00, <3>3 DEF InterfaceTypeOK
      <4>2. o.class \notin raced' => o.of = CachedDefinition(o.class)'
        <5>1. SUFFICES ASSUME o.class \notin raced'
                       PROVE  o.of = Given(o.class, defs')
          BY <4>1, GivenIsCached
        <5>2. o.of = Given(o.class, defs) /\ Given(o.class, defs) # NoClass
          BY <3>1, <4>1, <5>1, GivenIsCached, RpcInterfaceAssumption DEF Made
        <5>3. c \in Ancestors[o.class] => Given(c, defs) \in {NoClass, c}
          BY <2>3, <4>1, <5>1, GivenIsCached
        <5>4. PICK d : d = defs
          OBVIOUS
        <5>5. Given(o.class, [d EXCEPT ![c] = c]) = Given(o.class, d)
          BY <1>0, <4>1, <5>2, <5>3, <5>4, GivenStays
        <5> QED
          BY <2>3, <5>2, <5>4, <5>5
      <4> QED
        BY <2>1, <3>1, <4>1, <4>2 DEF Made, IsAsync
    <3>4. CASE objects' = objects
      BY <1>0, <2>1, <3>1, <3>2, <3>3, <3>4 DEF InterfaceInv, InterfaceTypeOK, Owned
    <3>5. CASE Serves(c, via) /\ objects' = objects \cup {New(c, via, c)}
      <4>1. New(c, via, c) \in Object
        BY DEF New, Object, Via
      <4>2. CachedDefinition(c)' = c
        <5>1. Kept(defs') \in SUBSET Class /\ c \in Kept(defs')
          BY <3>1, RpcInterfaceAssumption DEF Kept
        <5>2. Nearest(c, Kept(defs')) = c
          BY <5>1, NearestSelf
        <5> QED
          BY <3>1, <5>2, GivenIsCached, GivenIsNearest
      <4>3. Made(New(c, via, c))'
        BY <3>1, <3>5, <4>2, AncestorsFacts DEF Made, New, Serves, IsAsync
      <4> QED
        BY <1>0, <2>1, <3>1, <3>2, <3>3, <3>5, <4>1, <4>3
           DEF InterfaceInv, InterfaceTypeOK, Owned
    <3> QED
      BY <2>3, <3>4, <3>5
  <2> QED
    BY <1>0, <1>2, <2>2, <2>3, ResolveDoes
<1>3. CASE UNCHANGED interfaceVars
  <2>1. ResolvedInv' /\ \A o \in objects : Made(o)'
    BY <1>0, <1>3 DEF ResolvedInv, Made, Resolved, CachedDefinition, IsAsync, interfaceVars
  <2> QED
    BY <1>0, <1>3, <2>1 DEF InterfaceInv, InterfaceTypeOK, interfaceVars
<1> QED
  BY <1>1, <1>2, <1>3 DEF InterfaceNext, Via

THEOREM InterfaceInvariant == InterfaceSpec => []InterfaceInv
<1>1. InterfaceInit => InterfaceInv
  <2> SUFFICES ASSUME InterfaceInit PROVE InterfaceInv
    OBVIOUS
  <2>1. /\ InterfaceTypeOK
        /\ \A c \in Class : defs[c] = NoClass /\ NoClass # c
        /\ objects = {}
    BY RpcInterfaceAssumption DEF InterfaceInit, InterfaceTypeOK
  <2> QED
    BY <2>1 DEF InterfaceInv, ResolvedInv
<1>2. InterfaceInv /\ [InterfaceNext]_interfaceVars => InterfaceInv'
  BY InterfaceStep
<1> QED
  BY <1>1, <1>2, PTL DEF InterfaceSpec

(* An interface class always means the same thing: whatever was asked for  *)
(* before, every object made from it has its own definition, and one that  *)
(* was first asked for after an ancestor was resolved has the ancestor's,  *)
(* unless two threads resolved the class and an ancestor at once.          *)
THEOREM StableDefinitionHolds == InterfaceSpec => []StableDefinition
<1>1. InterfaceInv => StableDefinition
  BY DEF InterfaceInv, Made, StableDefinition
<1> QED
  BY <1>1, InterfaceInvariant, PTL

(* Where no ancestor was in its way, an async interface, and so one with   *)
(* stepchain methods, is served by an AsyncConnection only.                *)
THEOREM RightConnectionHolds == InterfaceSpec => []RightConnection
<1>1. ASSUME InterfaceInv, NEW o \in objects, o.via = "get_object", o.class \notin shadowed
      PROVE  ~IsAsync(o.class) /\ o.class \notin Stepchain
  <2>1. o.of = o.class /\ ~IsAsync(o.of) /\ o.of \in Resolved
    BY <1>1 DEF InterfaceInv, Made
  <2>2. o.class \in Class /\ defs[o.class] = o.class
    BY <1>1, <2>1, RpcInterfaceAssumption DEF InterfaceInv, ResolvedInv, Resolved
  <2> QED
    BY <1>1, <2>1, <2>2 DEF InterfaceInv, ResolvedInv
<1>2. InterfaceInv => RightConnection
  BY <1>1 DEF RightConnection
<1> QED
  BY <1>2, InterfaceInvariant, PTL
=============================================================================
