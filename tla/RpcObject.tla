------------------------------- MODULE RpcObject -------------------------------
(***************************************************************************)
(* pyads.RpcObject: a method called by its short name is tried on the      *)
(* target under each prefix, and the type of its result is looked up once  *)
(* per full name, in what the caller configured and then in the symbol     *)
(* info, and kept for ever.  Calls run in threads (the worker of an        *)
(* AsyncConnection, or the callers of a Connection); set_return_type runs  *)
(* at once in whatever thread it is called, between any two of their steps.*)
(*                                                                         *)
(* External: the target executes the method of a handle it has given, and  *)
(* its answer may be lost; only a name it does not know is error 1808.     *)
(***************************************************************************)
EXTENDS Sequences, FiniteSets, Naturals

CONSTANTS
    Base,        \* method names without a prefix
    PlcType,     \* types a caller may configure
    SymbolType,  \* the type the symbol info of every method leads to
    NoType,      \* Python's None: the result is dropped
    Unknown,     \* no entry in _return_spec_cache
    Caller,      \* threads that call methods
    MaxSets      \* bound: calls of set_return_type

ASSUME RpcObjectAssumption ==
    /\ NoType \notin PlcType \cup {SymbolType}
    /\ Unknown \notin PlcType \cup {SymbolType, NoType}
    /\ MaxSets \in Nat

VARIABLES
    methods,   \* target: the names it knows
    first,     \* the form of a name a Python set of both gives first
    live,      \* is_open of the connection
    manual,    \* _method_return_types
    specs,     \* _return_spec_cache
    infos,     \* names in _symbol_info_cache
    rpc,       \* the call each thread is in
    executed,  \* history: what the target executed for the last call of each
    outdated,  \* history: names whose type was set too late for the cache
    unseen,    \* history: names whose symbol info could not be had
    sets       \* bound: calls of set_return_type so far

rpcVars == <<methods, first, live, manual, specs, infos, rpc, executed,
             outdated, unseen, sets>>
-----------------------------------------------------------------------------
Prefix == {"", "m_"}
MethodName == Prefix \X Base
Forms(n) == {<<p, n[2]>> : p \in Prefix}

\* Every name starts with the empty prefix.
Candidates(n) == IF n[1] = "" THEN <<n, <<"m_", n[2]>> >> ELSE <<n>>

ReturnSpec == PlcType \cup {SymbolType, NoType}
RpcStep == {"infer", "info", "store", "call"}
Resting == [step |-> "idle"]
RpcCall == [step : RpcStep, rest : {Candidates(n) : n \in MethodName}
                                 \cup {<<n>> : n \in MethodName},
            asked : MethodName, mode : {"inferred", "typed", "override"}, type : ReturnSpec]

RpcTypeOK ==
    /\ methods \subseteq MethodName
    /\ \A n \in MethodName : first[n] \in Forms(n)
    /\ live \in BOOLEAN
    /\ manual \in [MethodName -> PlcType \cup {NoType}]
    /\ specs \in [MethodName -> ReturnSpec \cup {Unknown}]
    /\ infos \subseteq methods
    /\ rpc \in [Caller -> RpcCall \cup {Resting}]
    /\ executed \in [Caller -> Seq(MethodName \X methods)]
    /\ outdated \subseteq MethodName
    /\ unseen \subseteq MethodName
    /\ sets \in 0 .. MaxSets

RpcInit ==
    /\ methods \in SUBSET MethodName
    /\ first \in {f \in [MethodName -> MethodName] :
                     \A n \in MethodName : f[n] \in Forms(n)}
    /\ live = TRUE
    /\ manual = [n \in MethodName |-> NoType]
    /\ specs = [n \in MethodName |-> Unknown]
    /\ infos = {}
    /\ rpc = [t \in Caller |-> Resting]
    /\ executed = [t \in Caller |-> <<>>]
    /\ outdated = {}
    /\ unseen = {}
    /\ sets = 0
-----------------------------------------------------------------------------
Trying(t) == Head(rpc[t].rest)
Inferring(n) == {t \in Caller : rpc[t].step \in {"info", "store"} /\ Trying(t) = n}

\* A mutant: the cached type stays.
SetReturnTypeOnly(n, type) ==
    /\ sets < MaxSets
    /\ sets' = sets + 1
    /\ manual' = [manual EXCEPT ![n] = type]
    /\ outdated' = outdated \cup {o \in Forms(n) : Inferring(o) # {}}
    /\ UNCHANGED <<methods, first, live, specs, infos, rpc, executed, unseen>>

\* set_return_type forgets the cached type of exactly the name it is given.
SetReturnType(n, type) ==
    /\ sets < MaxSets
    /\ sets' = sets + 1
    /\ manual' = [manual EXCEPT ![n] = type]
    /\ specs' = [specs EXCEPT ![n] = Unknown]
    /\ outdated' = (outdated \ {n}) \cup
                   {o \in Forms(n) : \/ o # n /\ specs[o] # Unknown
                                     \/ Inferring(o) # {}}
    /\ UNCHANGED <<methods, first, live, infos, rpc, executed, unseen>>

ManualReturnType(n) ==
    IF manual[first[n]] # NoType THEN manual[first[n]]
    ELSE LET other == CHOOSE o \in Forms(n) : o # first[n] IN manual[other]

Invoke(t, n, mode, type) ==
    /\ rpc[t] = Resting
    /\ rpc' = [rpc EXCEPT ![t] =
                 [step |-> IF mode = "inferred" THEN "infer" ELSE "call",
                  rest |-> IF mode = "override" THEN <<n>> ELSE Candidates(n),
                  asked |-> n, mode |-> mode, type |-> type]]
    /\ executed' = [executed EXCEPT ![t] = <<>>]
    /\ UNCHANGED <<methods, first, live, manual, specs, infos, outdated,
                   unseen, sets>>

InferReturnSpec(t) ==
    LET n == Trying(t)
        Go(step, type) == rpc' = [rpc EXCEPT ![t].step = step, ![t].type = type]
    IN  /\ rpc[t].step = "infer"
        /\ IF specs[n] # Unknown THEN Go("call", specs[n])
           ELSE IF ManualReturnType(n) # NoType
           THEN Go("store", ManualReturnType(n))
           ELSE Go("info", NoType)
        /\ UNCHANGED <<methods, first, live, manual, specs, infos, executed,
                       outdated, unseen, sets>>

\* Without an answer the type is None, which is kept like any other.
GetSymbolInfo(t) ==
    LET n == Trying(t)
    IN  /\ rpc[t].step = "info"
        /\ \/ /\ live
              /\ n \in methods
              /\ rpc' = [rpc EXCEPT ![t].step = "store", ![t].type = SymbolType]
              /\ infos' = infos \cup {n}
              /\ UNCHANGED unseen
           \/ /\ live => n \notin infos
              /\ rpc' = [rpc EXCEPT ![t].step = "store", ![t].type = NoType]
              /\ unseen' = unseen \cup {n}
              /\ UNCHANGED infos
        /\ UNCHANGED <<methods, first, live, manual, specs, executed, outdated,
                       sets>>

StoreSpec(t) ==
    /\ rpc[t].step = "store"
    /\ specs' = [specs EXCEPT ![Trying(t)] = rpc[t].type]
    /\ rpc' = [rpc EXCEPT ![t].step = "call"]
    /\ UNCHANGED <<methods, first, live, manual, infos, executed, outdated,
                   unseen, sets>>

\* A mutant: whatever went wrong, the next name is tried.
TriesNextAlways(mode, error) == mode # "override"
TriesNext(mode, error) == mode # "override" /\ error = "symbol not found"

EndCall(t) == rpc' = [rpc EXCEPT ![t] = Resting]
FailCall(t, error) ==
    IF TriesNext(rpc[t].mode, error) /\ Len(rpc[t].rest) > 1
    THEN rpc' = [rpc EXCEPT ![t].rest = Tail(@),
                            ![t].step = IF rpc[t].mode = "inferred"
                                        THEN "infer" ELSE "call"]
    ELSE EndCall(t)

\* call_rpc_method for the current name; None without a connection.
CallRpcMethod(t) ==
    LET n == Trying(t)
    IN  /\ rpc[t].step = "call"
        /\ \/ /\ ~live
              /\ EndCall(t)
              /\ UNCHANGED executed
           \/ /\ live
              /\ n \notin methods
              /\ FailCall(t, "symbol not found")
              /\ UNCHANGED executed
           \/ /\ live
              /\ FailCall(t, "refused")
              /\ UNCHANGED executed
           \/ /\ live
              /\ n \in methods
              /\ executed' = [executed EXCEPT ![t] = Append(@, <<rpc[t].asked, n>>)]
              /\ (EndCall(t) \/ FailCall(t, "answer lost"))
        /\ UNCHANGED <<methods, first, live, manual, specs, infos, outdated,
                       unseen, sets>>

\* The connection is opened or closed by another thread.
Reconnect ==
    /\ live' = ~live
    /\ UNCHANGED <<methods, first, manual, specs, infos, rpc, executed,
                   outdated, unseen, sets>>

RpcNext ==
    \/ \E n \in MethodName : \E type \in PlcType : SetReturnType(n, type)
    \/ \E t \in Caller :
          \/ \E n \in MethodName :
                \/ Invoke(t, n, "inferred", NoType)
                \/ \E type \in PlcType : Invoke(t, n, "typed", type)
                \/ Invoke(t, n, "override", NoType)
          \/ InferReturnSpec(t)
          \/ GetSymbolInfo(t)
          \/ StoreSpec(t)
          \/ CallRpcMethod(t)
    \/ Reconnect

RpcSpec == RpcInit /\ [][RpcNext]_rpcVars
-----------------------------------------------------------------------------
(* The type a result is decoded with, from its first call on, is one that  *)
(* was configured for the name in either form, or, when none was, that of  *)
(* its symbol info; None only if that could not be had.  It does not hold  *)
(* of a type that was configured after the name was called in its other    *)
(* form, or while a call was looking it up: those are in outdated.         *)
SpecsTrue ==
    \A n \in MethodName \ outdated :
        LET set == {manual[o] : o \in Forms(n)} \ {NoType}
        IN  specs[n] # Unknown =>
               IF set # {} THEN specs[n] \in set
               ELSE \/ specs[n] = SymbolType /\ n \in methods
                    \/ specs[n] = NoType /\ n \in unseen

(* A call executes at most one method on the target, whatever its names    *)
(* and whatever went wrong: of the names it may mean, the first that the   *)
(* target knows, and nothing after an error other than "symbol not found". *)
CallsOnce ==
    \A t \in Caller :
        /\ Len(executed[t]) <= 1
        /\ \A i \in DOMAIN executed[t] :
              LET asked == executed[t][i][1]
                  name == executed[t][i][2]
              IN  name = asked \/ (name \in Forms(asked) /\ asked \notin methods)
=============================================================================
