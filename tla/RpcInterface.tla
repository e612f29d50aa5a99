----------------------------- MODULE RpcInterface -----------------------------
(***************************************************************************)
(* Typed RPC interfaces: get_object and get_async_object take a class that *)
(* carries an ADS path, and resolve_rpc_interface_definition works its     *)
(* methods out once and keeps the definition as an attribute of the class. *)
(* Attributes are inherited, so a class sees the definition of an ancestor *)
(* that was resolved before it.  Connections in several threads share the  *)
(* classes.                                                                *)
(*                                                                         *)
(* A definition is named by the class it was worked out from.              *)
(***************************************************************************)
EXTENDS FiniteSets, Naturals

CONSTANTS
    Class,       \* interface classes
    Parent,      \* the base of each, NoClass for a class of its own
    HasPath,     \* classes decorated with @ads_path or @ads_async_path
    AsyncPath,   \* those of them that have @ads_async_path
    Stepchain,   \* classes that declare a @stepchain_start method themselves
    Getter,      \* threads that call get_object or get_async_object
    NoClass

ASSUME RpcInterfaceAssumption ==
    /\ NoClass \notin Class
    /\ Parent \in [Class -> Class \cup {NoClass}]
    /\ IsFiniteSet(Class)
    \* The base of a class was made before it.
    /\ \E made \in [Class -> 1 .. Cardinality(Class)] :
          \A c \in Class : Parent[c] # NoClass => made[Parent[c]] < made[c]
    /\ AsyncPath \subseteq HasPath
    /\ HasPath \subseteq Class
    /\ Stepchain \subseteq Class

VARIABLES
    defs,      \* __pyads_rpc_definition__ in the __dict__ of each class
    getter,    \* the call each thread is in
    objects,   \* history: the objects that were made
    shadowed,  \* history: classes asked for after an ancestor was resolved
    raced      \* history: classes resolved, or below one that was, while
               \* another thread resolved an ancestor

interfaceVars == <<defs, getter, objects, shadowed, raced>>
-----------------------------------------------------------------------------
Getting == [class : Class, via : {"get_object", "get_async_object"}]
Object == [class : Class, via : {"get_object", "get_async_object"}, of : Class]
NoCall == [class |-> NoClass, via |-> "none"]

InterfaceTypeOK ==
    /\ defs \in [Class -> Class \cup {NoClass}]
    /\ getter \in [Getter -> Getting \cup {NoCall}]
    /\ objects \subseteq Object
    /\ shadowed \subseteq Class
    /\ raced \subseteq Class

InterfaceInit ==
    /\ defs = [c \in Class |-> NoClass]
    /\ getter = [t \in Getter |-> NoCall]
    /\ objects = {}
    /\ shadowed = {}
    /\ raced = {}
-----------------------------------------------------------------------------
\* A class, and its bases up to one that has none.
WithBases(S) == \A c \in S : Parent[c] \in S \cup {NoClass}
Ancestors == [c \in Class |->
    {a \in Class : \A S \in SUBSET Class : c \in S /\ WithBases(S) => a \in S}]

\* getattr(c, name) where holds are the classes with name in their __dict__.
Nearest(c, holds) ==
    LET at == Ancestors[c] \cap holds
    IN  IF at = {} THEN NoClass
        ELSE CHOOSE a \in at : at \subseteq Ancestors[a]

Resolved == {c \in Class : defs[c] # NoClass}
CachedDefinition(c) ==
    LET a == Nearest(c, Resolved)
    IN  IF a = NoClass THEN NoClass ELSE defs[a]

IsAsync(c) == Nearest(c, AsyncPath) # NoClass
-----------------------------------------------------------------------------
\* A mutant: any interface is served.
ServesAll(of, via) == TRUE
\* get_object refuses the definition of an async interface; so does
\* get_async_object when it hands one that is not async on to get_object.
Serves(of, via) == via = "get_async_object" \/ ~IsAsync(of)

Make(t, c, via, of) ==
    /\ getter' = [getter EXCEPT ![t] = NoCall]
    /\ objects' = IF Serves(of, via)
                  THEN objects \cup {[class |-> c, via |-> via, of |-> of]}
                  ELSE objects

\* The look at the cache.
GetObject(t, c, via) ==
    /\ getter[t] = NoCall
    /\ IF CachedDefinition(c) # NoClass
       THEN /\ Make(t, c, via, CachedDefinition(c))
            /\ shadowed' = shadowed \cup ({c} \ {CachedDefinition(c)})
       ELSE /\ getter' = [getter EXCEPT ![t] = [class |-> c, via |-> via]]
            /\ UNCHANGED <<objects, shadowed>>
    /\ UNCHANGED <<defs, raced>>

\* A mutant: the definition is kept with the path it has.
StoredAt(c) == Nearest(c, HasPath)
Keeper(c) == c

\* A class without a path, or with a stepchain but no async path, raises.
ResolveDefinition(t) ==
    LET c == getter[t].class
        via == getter[t].via
    IN  /\ c # NoClass
        /\ IF Nearest(c, HasPath) = NoClass \/ (c \in Stepchain /\ ~IsAsync(c))
           THEN /\ getter' = [getter EXCEPT ![t] = NoCall]
                /\ UNCHANGED <<defs, objects, raced>>
           ELSE /\ defs' = [defs EXCEPT ![Keeper(c)] = c]
                /\ raced' = IF CachedDefinition(c) \in {NoClass, c} THEN raced
                            ELSE raced \cup {d \in Class : c \in Ancestors[d]}
                /\ Make(t, c, via, c)
        /\ UNCHANGED shadowed

InterfaceNext ==
    \E t \in Getter :
        \/ \E c \in Class : \E via \in {"get_object", "get_async_object"} :
              GetObject(t, c, via)
        \/ ResolveDefinition(t)

InterfaceSpec == InterfaceInit /\ [][InterfaceNext]_interfaceVars
-----------------------------------------------------------------------------
(* An interface class always means the same thing: whatever was asked for  *)
(* before, every object made from it has its own definition, with its own  *)
(* methods and path.  It does not hold of a class first asked for after an *)
(* ancestor was resolved: that one gets the ancestor's, and keeps it, but  *)
(* for the race of two threads that resolve a class and its ancestor.      *)
StableDefinition ==
    \A o \in objects :
        /\ o.class \notin shadowed => o.of = o.class
        /\ o.of \in Ancestors[o.class]
        /\ \A p \in objects :
              p.class = o.class /\ o.class \notin raced => p.of = o.of

(* An async interface, and so one with stepchain methods, is served by an  *)
(* AsyncConnection only; but not one that was shadowed by a synchronous    *)
(* ancestor, which is served as if it were that.                           *)
RightConnection ==
    \A o \in objects :
        o.via = "get_object" /\ o.class \notin shadowed =>
            ~IsAsync(o.class) /\ o.class \notin Stepchain
=============================================================================
