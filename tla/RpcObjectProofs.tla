---------------------------- MODULE RpcObjectProofs ----------------------------
(***************************************************************************)
(* Theorems about RpcObject, for any names, types, callers and number of   *)
(* calls of set_return_type.                                               *)
(***************************************************************************)
EXTENDS RpcObject, TLAPS

-----------------------------------------------------------------------------
(* Facts about names *)

Rest == {Candidates(n) : n \in MethodName} \cup {<<n>> : n \in MethodName}

LEMMA FormPair ==
    ASSUME NEW n \in MethodName
    PROVE  /\ n[1] \in Prefix /\ n[2] \in Base
           /\ Forms(n) = {<<"", n[2]>>, <<"m_", n[2]>>}
           /\ <<"", n[2]>> # <<"m_", n[2]>>
<1>1. n[1] \in Prefix /\ n[2] \in Base
  BY DEF MethodName
<1>2. Forms(n) = {<<"", n[2]>>, <<"m_", n[2]>>}
  BY DEF Forms, Prefix
<1>3. <<"", n[2]>>[1] # <<"m_", n[2]>>[1]
  OBVIOUS
<1> QED
  BY <1>1, <1>2, <1>3

LEMMA NameFacts ==
    ASSUME NEW n \in MethodName
    PROVE  /\ n \in Forms(n)
           /\ Forms(n) \subseteq MethodName
           /\ \A o \in Forms(n) : Forms(o) = Forms(n)
<1>1. n = <<n[1], n[2]>> /\ n[1] \in Prefix /\ n[2] \in Base
  BY DEF MethodName
<1>2. n \in Forms(n)
  BY <1>1 DEF Forms
<1>3. Forms(n) \subseteq MethodName
  BY <1>1 DEF Forms, MethodName
<1>4. ASSUME NEW o \in Forms(n) PROVE Forms(o) = Forms(n)
  <2>1. o[2] = n[2]
    BY DEF Forms
  <2> QED
    BY <2>1 DEF Forms
<1> QED
  BY <1>2, <1>3, <1>4

\* What a call may try: the name itself, and after it at most its other form.
LEMMA CandidateFacts ==
    ASSUME NEW n \in MethodName
    PROVE  \/ Candidates(n) = <<n>>
           \/ \E o \in Forms(n) : Candidates(n) = <<n, o>>
  BY NameFacts, FormPair DEF Candidates

LEMMA RestFacts ==
    ASSUME NEW r \in Rest
    PROVE  /\ r \in Seq(MethodName)
           /\ Len(r) = 1 \/ Len(r) = 2
           /\ Head(r) \in MethodName
           /\ Len(r) = 2 => Tail(r) = <<r[2]>> /\ r[2] \in MethodName /\ Tail(r) \in Rest
<1>1. PICK n \in MethodName : r = Candidates(n) \/ r = <<n>>
  BY DEF Rest
<1>2. r = <<n>> \/ \E o \in MethodName : r = <<n, o>>
  BY <1>1, CandidateFacts, NameFacts
<1>3. CASE r = <<n>>
  BY <1>3 DEF Rest
<1>4. CASE \E o \in MethodName : r = <<n, o>>
  <2>1. PICK o \in MethodName : r = <<n, o>>
    BY <1>4
  <2>2. Len(r) = 2 /\ Head(r) = n /\ Tail(r) = <<o>> /\ r[2] = o /\ r \in Seq(MethodName)
    BY <2>1
  <2> QED
    BY <2>2 DEF Rest
<1> QED
  BY <1>2, <1>3, <1>4
-----------------------------------------------------------------------------
(* Facts about the call a thread is in *)

LEMMA CallFacts ==
    ASSUME RpcTypeOK, NEW t \in Caller, rpc[t] # Resting
    PROVE  /\ rpc[t] \in RpcCall
           /\ rpc[t].rest \in Rest
           /\ rpc[t].asked \in MethodName
           /\ rpc[t].step \in RpcStep
           /\ rpc[t].type \in ReturnSpec
           /\ rpc[t].mode \in {"inferred", "typed", "override"}
           /\ Trying(t) \in MethodName
<1>1. rpc[t] \in RpcCall
  BY DEF RpcTypeOK
<1>2. rpc[t].rest \in Rest
  BY <1>1 DEF RpcCall, Rest
<1> QED
  BY <1>1, <1>2, RestFacts DEF RpcCall, Trying

LEMMA InCall ==
    ASSUME NEW t \in Caller, rpc[t].step \in RpcStep
    PROVE  rpc[t] # Resting
  BY DEF Resting, RpcStep

LEMMA MethodTypes ==
    ASSUME RpcTypeOK, NEW n \in MethodName
    PROVE  /\ first[n] \in Forms(n)
           /\ ManualReturnType(n) \in PlcType \cup {NoType}
           /\ ManualReturnType(n) = NoType => \A o \in Forms(n) : manual[o] = NoType
           /\ ManualReturnType(n) # NoType =>
                 \E o \in Forms(n) : ManualReturnType(n) = manual[o]
<1>1. first[n] \in Forms(n) /\ Forms(n) \subseteq MethodName
  BY NameFacts DEF RpcTypeOK
<1>2. \E o \in Forms(n) : o # first[n]
  <2>1. <<"", n[2]>> \in Forms(n) /\ <<"m_", n[2]>> \in Forms(n)
    BY FormPair
  <2> QED
    BY <2>1, FormPair
<1> DEFINE other == CHOOSE x \in Forms(n) : x # first[n]
<1>3. other \in Forms(n) /\ other # first[n]
  BY <1>2
<1>4. ASSUME NEW x \in Forms(n) PROVE x = first[n] \/ x = other
  <2> DEFINE a == <<"", n[2]>>
             b == <<"m_", n[2]>>
  <2>1. Forms(n) = {a, b} /\ a # b
    BY FormPair
  <2> HIDE DEF a, b, other
  <2> QED
    BY <1>1, <1>3, <2>1
<1>5. ManualReturnType(n) = IF manual[first[n]] # NoType THEN manual[first[n]] ELSE manual[other]
  BY DEF ManualReturnType
<1> HIDE DEF other
<1>6. \A x \in Forms(n) : manual[x] \in PlcType \cup {NoType}
  BY <1>1 DEF RpcTypeOK
<1> QED
  BY <1>1, <1>3, <1>4, <1>5, <1>6
-----------------------------------------------------------------------------
(* What an update of the call of one thread leaves *)

LEMMA SetStepType ==
    ASSUME RpcTypeOK, NEW t \in Caller, rpc[t] # Resting,
           NEW step \in RpcStep, NEW type \in ReturnSpec,
           rpc' = [rpc EXCEPT ![t].step = step, ![t].type = type]
    PROVE  /\ rpc' \in [Caller -> RpcCall \cup {Resting}]
           /\ rpc'[t].step = step /\ rpc'[t].type = type
           /\ rpc'[t].rest = rpc[t].rest /\ rpc'[t].asked = rpc[t].asked
           /\ \A u \in Caller : u # t => rpc'[u] = rpc[u]
<1> DEFINE r == [step |-> step, rest |-> rpc[t].rest, asked |-> rpc[t].asked,
                 mode |-> rpc[t].mode, type |-> type]
<1>1. rpc[t] \in RpcCall /\ rpc \in [Caller -> RpcCall \cup {Resting}]
  BY CallFacts DEF RpcTypeOK
<1>2. r \in RpcCall
  BY <1>1 DEF RpcCall
<1>3. rpc'[t] = r
  BY <1>1 DEF RpcCall
<1>4. \A u \in Caller : u # t => rpc'[u] = rpc[u]
  BY <1>1
<1> QED
  BY <1>1, <1>2, <1>3, <1>4

LEMMA ToStore ==
    ASSUME RpcTypeOK, NEW t \in Caller, rpc[t] # Resting, NEW type \in ReturnSpec,
           rpc' = [rpc EXCEPT ![t].step = "store", ![t].type = type]
    PROVE  /\ rpc'[t].step = "store" /\ rpc'[t].type = type
           /\ rpc'[t].rest = rpc[t].rest
           /\ \A u \in Caller : u # t => rpc'[u] = rpc[u]
<1> DEFINE r == [step |-> "store", rest |-> rpc[t].rest, asked |-> rpc[t].asked,
                 mode |-> rpc[t].mode, type |-> type]
<1>1. rpc[t] \in RpcCall /\ rpc \in [Caller -> RpcCall \cup {Resting}]
  BY CallFacts DEF RpcTypeOK
<1>2. rpc'[t] = r
  BY <1>1 DEF RpcCall
<1>3. \A u \in Caller : u # t => rpc'[u] = rpc[u]
  BY <1>1
<1> QED
  BY <1>1, <1>2, <1>3

LEMMA SetStep ==
    ASSUME RpcTypeOK, NEW t \in Caller, rpc[t] # Resting, NEW step \in RpcStep,
           rpc' = [rpc EXCEPT ![t].step = step]
    PROVE  /\ rpc' \in [Caller -> RpcCall \cup {Resting}]
           /\ rpc'[t].step = step
           /\ rpc'[t].rest = rpc[t].rest /\ rpc'[t].asked = rpc[t].asked
           /\ \A u \in Caller : u # t => rpc'[u] = rpc[u]
<1> DEFINE r == [step |-> step, rest |-> rpc[t].rest, asked |-> rpc[t].asked,
                 mode |-> rpc[t].mode, type |-> rpc[t].type]
<1>1. rpc[t] \in RpcCall /\ rpc \in [Caller -> RpcCall \cup {Resting}]
  BY CallFacts DEF RpcTypeOK
<1>2. r \in RpcCall
  BY <1>1 DEF RpcCall
<1>3. rpc'[t] = r
  BY <1>1 DEF RpcCall
<1>4. \A u \in Caller : u # t => rpc'[u] = rpc[u]
  BY <1>1
<1> QED
  BY <1>1, <1>2, <1>3, <1>4

\* A failed request ends the call, or is followed by the next name.
LEMMA LongRest ==
    ASSUME NEW r \in Rest, Len(r) > 1
    PROVE  Len(r) = 2 /\ Tail(r) = <<r[2]>> /\ Tail(r) \in Rest
<1>1. r \in Seq(MethodName) /\ (Len(r) = 1 \/ Len(r) = 2)
  BY RestFacts
<1>2. Len(r) \in Nat /\ (Len(r) = 1 \/ Len(r) = 2)
  BY <1>1
<1>3. \A k \in Nat : k > 1 /\ (k = 1 \/ k = 2) => k = 2
  OBVIOUS
<1>4. Len(r) = 2
  BY <1>2, <1>3
<1> QED
  BY <1>4, RestFacts

LEMMA AfterFailure ==
    ASSUME RpcTypeOK, NEW t \in Caller, rpc[t] # Resting, NEW error,
           FailCall(t, error)
    PROVE  /\ rpc' \in [Caller -> RpcCall \cup {Resting}]
           /\ \A u \in Caller : u # t => rpc'[u] = rpc[u]
           /\ \/ rpc'[t] = Resting
              \/ /\ error = "symbol not found"
                 /\ Len(rpc[t].rest) = 2
                 /\ rpc'[t].rest = <<rpc[t].rest[2]>>
                 /\ rpc'[t].asked = rpc[t].asked
                 /\ rpc'[t].step \in {"infer", "call"}
<1>1. rpc[t] \in RpcCall /\ rpc \in [Caller -> RpcCall \cup {Resting}]
  BY CallFacts DEF RpcTypeOK
<1>2. CASE EndCall(t)
  BY <1>1, <1>2 DEF EndCall
<1>3. CASE ~EndCall(t)
  <2> DEFINE step == IF rpc[t].mode = "inferred" THEN "infer" ELSE "call"
             r == [step |-> step, rest |-> Tail(rpc[t].rest),
                   asked |-> rpc[t].asked, mode |-> rpc[t].mode, type |-> rpc[t].type]
  <2>1. /\ error = "symbol not found"
        /\ Len(rpc[t].rest) > 1
        /\ rpc' = [rpc EXCEPT ![t].rest = Tail(@), ![t].step = step]
    BY <1>3 DEF FailCall, TriesNext
  <2>2. rpc[t].rest \in Rest
    BY CallFacts
  <2>3. Len(rpc[t].rest) = 2 /\ Tail(rpc[t].rest) = <<rpc[t].rest[2]>> /\ Tail(rpc[t].rest) \in Rest
    <3> HIDE DEF step, r
    <3> QED
      BY <2>1, <2>2, LongRest
  <2>4. r \in RpcCall
    BY <1>1, <2>3 DEF RpcCall, Rest, RpcStep
  <2>5. rpc'[t] = r
    BY <1>1, <2>1 DEF RpcCall
  <2>6. \A u \in Caller : u # t => rpc'[u] = rpc[u]
    BY <1>1, <2>1
  <2>7. rpc' \in [Caller -> RpcCall \cup {Resting}]
    BY <1>1, <2>1, <2>4, <2>5, <2>6
  <2>8. /\ rpc'[t].rest = Tail(rpc[t].rest)
        /\ rpc'[t].asked = rpc[t].asked
        /\ rpc'[t].step \in {"infer", "call"}
    BY <2>5
  <2> HIDE DEF step, r
  <2> QED
    BY <2>1, <2>3, <2>6, <2>7, <2>8
<1> QED
  BY <1>2, <1>3

LEMMA AfterEnd ==
    ASSUME RpcTypeOK, NEW t \in Caller, rpc[t] # Resting,
           NEW error \in {"refused", "answer lost"},
           EndCall(t) \/ FailCall(t, error)
    PROVE  /\ rpc' \in [Caller -> RpcCall \cup {Resting}]
           /\ rpc'[t] = Resting
           /\ \A u \in Caller : u # t => rpc'[u] = rpc[u]
<1>1. CASE EndCall(t)
  <2>1. rpc \in [Caller -> RpcCall \cup {Resting}] /\ rpc' = [rpc EXCEPT ![t] = Resting]
    BY <1>1 DEF EndCall, RpcTypeOK
  <2> QED
    BY <2>1
<1>2. CASE FailCall(t, error)
  <2>1. error # "symbol not found"
    OBVIOUS
  <2> QED
    BY <1>2, <2>1, AfterFailure
<1> QED
  BY <1>1, <1>2

LEMMA Started ==
    ASSUME RpcTypeOK, NEW t \in Caller, NEW n \in MethodName,
           NEW mode \in {"inferred", "typed", "override"}, NEW type \in ReturnSpec,
           Invoke(t, n, mode, type)
    PROVE  /\ rpc' \in [Caller -> RpcCall \cup {Resting}]
           /\ rpc'[t].asked = n
           /\ rpc'[t].rest \in {Candidates(n), <<n>>}
           /\ rpc'[t].step \in {"infer", "call"}
           /\ \A u \in Caller : u # t => rpc'[u] = rpc[u]
<1> DEFINE step == IF mode = "inferred" THEN "infer" ELSE "call"
           rest == IF mode = "override" THEN <<n>> ELSE Candidates(n)
           r == [step |-> step, rest |-> rest, asked |-> n, mode |-> mode, type |-> type]
<1>1. rpc' = [rpc EXCEPT ![t] = r] /\ rpc \in [Caller -> RpcCall \cup {Resting}]
  BY DEF Invoke, RpcTypeOK
<1>2. step \in RpcStep /\ rest \in Rest
  BY DEF RpcStep, Rest
<1>3. r \in RpcCall
  BY <1>2 DEF RpcCall, Rest
<1> QED
  BY <1>1, <1>3
-----------------------------------------------------------------------------
(* Types and what a call executes *)

\* The names a call has left: all of them, or the second because the first is
\* not on the target.
Remaining(t) ==
    \/ rpc[t].rest = <<rpc[t].asked>>
    \/ \E o \in Forms(rpc[t].asked) :
          \/ rpc[t].rest = <<rpc[t].asked, o>>
          \/ rpc[t].rest = <<o>> /\ rpc[t].asked \notin methods

Executes(t) ==
    /\ rpc[t] # Resting => Remaining(t) /\ executed[t] = <<>>
    /\ Len(executed[t]) <= 1
    /\ \A i \in DOMAIN executed[t] :
          LET asked == executed[t][i][1]
              name == executed[t][i][2]
          IN  name = asked \/ (name \in Forms(asked) /\ asked \notin methods)

CallInv ==
    /\ RpcTypeOK
    /\ \A t \in Caller : Executes(t)

LEMMA CallInit == RpcInit => CallInv
<1> SUFFICES ASSUME RpcInit PROVE CallInv
  OBVIOUS
<1>1. RpcTypeOK
  <2>1. \A n \in MethodName : first[n] \in Forms(n)
    BY DEF RpcInit
  <2>2. manual \in [MethodName -> PlcType \cup {NoType}]
    BY DEF RpcInit
  <2>3. specs \in [MethodName -> ReturnSpec \cup {Unknown}]
    BY DEF RpcInit
  <2>4. rpc \in [Caller -> RpcCall \cup {Resting}]
    BY DEF RpcInit
  <2>5. executed \in [Caller -> Seq(MethodName \X methods)]
    BY DEF RpcInit
  <2>6. sets \in 0 .. MaxSets
    BY RpcObjectAssumption DEF RpcInit
  <2> QED
    BY <2>1, <2>2, <2>3, <2>4, <2>5, <2>6 DEF RpcInit, RpcTypeOK
<1>2. ASSUME NEW t \in Caller PROVE Executes(t)
  <2>1. rpc[t] = Resting /\ executed[t] = <<>>
    BY DEF RpcInit
  <2> QED
    BY <2>1 DEF Executes
<1> QED
  BY <1>1, <1>2 DEF CallInv

\* A thread whose call and history are the same, or whose call has ended
\* or moved to another step on the same names.
LEMMA ExecutesKept ==
    ASSUME NEW t \in Caller, Executes(t), methods' = methods,
           executed'[t] = executed[t],
           \/ rpc'[t] = rpc[t]
           \/ rpc'[t] = Resting
           \/ /\ rpc[t] # Resting
              /\ rpc'[t].rest = rpc[t].rest
              /\ rpc'[t].asked = rpc[t].asked
    PROVE  Executes(t)'
<1>1. CASE rpc'[t] = Resting
  BY <1>1 DEF Executes
<1>2. CASE rpc'[t].rest = rpc[t].rest /\ rpc'[t].asked = rpc[t].asked /\ rpc[t] # Resting
  BY <1>2 DEF Executes, Remaining
<1>3. CASE rpc'[t] = rpc[t]
  BY <1>3 DEF Executes, Remaining
<1> QED
  BY <1>1, <1>2, <1>3

LEMMA CallStep == CallInv /\ [RpcNext]_rpcVars => CallInv'
<1> SUFFICES ASSUME CallInv, [RpcNext]_rpcVars PROVE CallInv'
  OBVIOUS
<1>0. RpcTypeOK /\ \A t \in Caller : Executes(t)
  BY DEF CallInv
<1>1. ASSUME NEW n \in MethodName, NEW type \in PlcType, SetReturnType(n, type)
      PROVE  CallInv'
  <2>1. RpcTypeOK'
    <3>1. specs' \in [MethodName -> ReturnSpec \cup {Unknown}]
      BY <1>0, <1>1 DEF SetReturnType, RpcTypeOK
    <3>2. manual' \in [MethodName -> PlcType \cup {NoType}]
      BY <1>0, <1>1 DEF SetReturnType, RpcTypeOK
    <3>3. outdated' \subseteq MethodName
      BY <1>0, <1>1, NameFacts DEF SetReturnType, RpcTypeOK
    <3>4. sets' \in 0 .. MaxSets
      BY <1>0, <1>1, RpcObjectAssumption DEF SetReturnType, RpcTypeOK
    <3> QED
      BY <1>0, <1>1, <3>1, <3>2, <3>3, <3>4 DEF SetReturnType, RpcTypeOK
  <2>2. \A t \in Caller : Executes(t)'
    BY <1>0, <1>1, ExecutesKept DEF SetReturnType
  <2> QED
    BY <2>1, <2>2 DEF CallInv
<1>2. ASSUME NEW t \in Caller, NEW n \in MethodName,
             NEW mode \in {"inferred", "typed", "override"},
             NEW type \in ReturnSpec, Invoke(t, n, mode, type)
      PROVE  CallInv'
  <2>1. /\ rpc' \in [Caller -> RpcCall \cup {Resting}]
        /\ rpc'[t].asked = n
        /\ rpc'[t].rest \in {Candidates(n), <<n>>}
        /\ \A u \in Caller : u # t => rpc'[u] = rpc[u]
    BY <1>0, <1>2, Started
  <2>2. /\ executed' = [executed EXCEPT ![t] = <<>>]
        /\ UNCHANGED <<methods, first, live, manual, specs, infos, outdated, unseen, sets>>
    BY <1>2 DEF Invoke
  <2>3. /\ executed' \in [Caller -> Seq(MethodName \X methods)]
        /\ executed'[t] = <<>>
        /\ \A u \in Caller : u # t => executed'[u] = executed[u]
    BY <1>0, <2>2 DEF RpcTypeOK
  <2>4. RpcTypeOK'
    BY <1>0, <2>1, <2>2, <2>3 DEF RpcTypeOK
  <2>5. Remaining(t)'
    BY <2>1, CandidateFacts DEF Remaining
  <2>6. Executes(t)'
    BY <2>3, <2>5 DEF Executes
  <2>7. \A u \in Caller : u # t => Executes(u)'
    BY <1>0, <2>1, <2>2, <2>3, ExecutesKept
  <2> QED
    BY <2>4, <2>6, <2>7 DEF CallInv
<1>3. ASSUME NEW t \in Caller, InferReturnSpec(t) PROVE CallInv'
  <2>1. rpc[t] # Resting
    BY <1>3 DEF InferReturnSpec, Resting
  <2>2. Trying(t) \in MethodName
    BY <1>0, <2>1, CallFacts
  <2>3. PICK step \in RpcStep, type \in ReturnSpec :
            rpc' = [rpc EXCEPT ![t].step = step, ![t].type = type]
    <3>1. ManualReturnType(Trying(t)) \in ReturnSpec /\ NoType \in ReturnSpec
      BY <1>0, <2>2, MethodTypes DEF ReturnSpec
    <3>2. specs[Trying(t)] # Unknown => specs[Trying(t)] \in ReturnSpec
      BY <1>0, <2>2 DEF RpcTypeOK
    <3>3. "call" \in RpcStep /\ "store" \in RpcStep /\ "info" \in RpcStep
      BY DEF RpcStep
    <3> QED
      BY <1>3, <3>1, <3>2, <3>3 DEF InferReturnSpec
  <2>4. /\ rpc' \in [Caller -> RpcCall \cup {Resting}]
        /\ rpc'[t].rest = rpc[t].rest /\ rpc'[t].asked = rpc[t].asked
        /\ \A u \in Caller : u # t => rpc'[u] = rpc[u]
    BY <1>0, <2>1, <2>3, SetStepType
  <2>5. UNCHANGED <<methods, first, live, manual, specs, infos, executed, outdated, unseen, sets>>
    BY <1>3 DEF InferReturnSpec
  <2>6. RpcTypeOK'
    BY <1>0, <2>4, <2>5 DEF RpcTypeOK
  <2>7. \A u \in Caller : Executes(u)'
    BY <1>0, <2>1, <2>4, <2>5, ExecutesKept
  <2> QED
    BY <2>6, <2>7 DEF CallInv
<1>4. ASSUME NEW t \in Caller, GetSymbolInfo(t) PROVE CallInv'
  <2>1. rpc[t] # Resting
    BY <1>4 DEF GetSymbolInfo, Resting
  <2>2. Trying(t) \in MethodName
    BY <1>0, <2>1, CallFacts
  <2>3. PICK type \in ReturnSpec :
            rpc' = [rpc EXCEPT ![t].step = "store", ![t].type = type]
    BY <1>4 DEF GetSymbolInfo, ReturnSpec
  <2>4. /\ rpc' \in [Caller -> RpcCall \cup {Resting}]
        /\ rpc'[t].rest = rpc[t].rest /\ rpc'[t].asked = rpc[t].asked
        /\ \A u \in Caller : u # t => rpc'[u] = rpc[u]
    <3>1. "store" \in RpcStep
      BY DEF RpcStep
    <3> QED
      BY <1>0, <2>1, <2>3, <3>1, SetStepType
  <2>5. UNCHANGED <<methods, first, live, manual, specs, executed, outdated, sets>>
    BY <1>4 DEF GetSymbolInfo
  <2>6. infos' \subseteq methods /\ unseen' \subseteq MethodName
    BY <1>0, <1>4, <2>2 DEF GetSymbolInfo, RpcTypeOK
  <2>7. RpcTypeOK'
    BY <1>0, <2>4, <2>5, <2>6 DEF RpcTypeOK
  <2>8. \A u \in Caller : Executes(u)'
    BY <1>0, <2>1, <2>4, <2>5, ExecutesKept
  <2> QED
    BY <2>7, <2>8 DEF CallInv
<1>5. ASSUME NEW t \in Caller, StoreSpec(t) PROVE CallInv'
  <2>1. rpc[t] # Resting
    BY <1>5 DEF StoreSpec, Resting
  <2>2. Trying(t) \in MethodName /\ rpc[t].type \in ReturnSpec
    BY <1>0, <2>1, CallFacts
  <2>3. /\ rpc' = [rpc EXCEPT ![t].step = "call"]
        /\ specs' = [specs EXCEPT ![Trying(t)] = rpc[t].type]
        /\ UNCHANGED <<methods, first, live, manual, infos, executed, outdated, unseen, sets>>
    BY <1>5 DEF StoreSpec
  <2>4. /\ rpc' \in [Caller -> RpcCall \cup {Resting}]
        /\ rpc'[t].rest = rpc[t].rest /\ rpc'[t].asked = rpc[t].asked
        /\ \A u \in Caller : u # t => rpc'[u] = rpc[u]
    <3>1. "call" \in RpcStep
      BY DEF RpcStep
    <3> QED
      BY <1>0, <2>1, <2>3, <3>1, SetStep
  <2>5. specs' \in [MethodName -> ReturnSpec \cup {Unknown}]
    BY <1>0, <2>2, <2>3 DEF RpcTypeOK
  <2>6. RpcTypeOK'
    BY <1>0, <2>3, <2>4, <2>5 DEF RpcTypeOK
  <2>7. \A u \in Caller : Executes(u)'
    BY <1>0, <2>1, <2>3, <2>4, ExecutesKept
  <2> QED
    BY <2>6, <2>7 DEF CallInv
<1>6. ASSUME NEW t \in Caller, CallRpcMethod(t) PROVE CallInv'
  <2> DEFINE n == Trying(t)
             asked == rpc[t].asked
  <2>1. rpc[t] # Resting
    <3>1. rpc[t].step = "call"
      BY <1>6 DEF CallRpcMethod
    <3> QED
      BY <3>1, InCall DEF RpcStep
  <2>2. /\ n \in MethodName
        /\ asked \in MethodName
        /\ Remaining(t)
        /\ executed[t] = <<>>
    BY <1>0, <2>1, CallFacts DEF Executes
  <2>3. UNCHANGED <<methods, first, live, manual, specs, infos, outdated, unseen, sets>>
    BY <1>6 DEF CallRpcMethod
  <2>4. n = asked \/ (n \in Forms(asked) /\ asked \notin methods)
    BY <2>2 DEF Remaining, Trying
  <2>6. ASSUME UNCHANGED executed,
               EndCall(t) \/ FailCall(t, "refused")
        PROVE  CallInv'
    <3>1. /\ rpc' \in [Caller -> RpcCall \cup {Resting}]
          /\ rpc'[t] = Resting
          /\ \A u \in Caller : u # t => rpc'[u] = rpc[u]
      BY <1>0, <2>1, <2>6, AfterEnd
    <3>2. RpcTypeOK'
      BY <1>0, <2>3, <2>6, <3>1 DEF RpcTypeOK
    <3>3. \A u \in Caller : Executes(u)'
      BY <1>0, <2>3, <2>6, <3>1, ExecutesKept
    <3> QED
      BY <3>2, <3>3 DEF CallInv
  <2>7. ASSUME n \notin methods, UNCHANGED executed,
               FailCall(t, "symbol not found")
        PROVE  CallInv'
    <3>1. /\ rpc' \in [Caller -> RpcCall \cup {Resting}]
          /\ \A u \in Caller : u # t => rpc'[u] = rpc[u]
          /\ \/ rpc'[t] = Resting
             \/ /\ Len(rpc[t].rest) = 2
                /\ rpc'[t].rest = <<rpc[t].rest[2]>>
                /\ rpc'[t].asked = asked
      BY <1>0, <2>1, <2>7, AfterFailure
    <3>2. RpcTypeOK'
      BY <1>0, <2>3, <2>7, <3>1 DEF RpcTypeOK
    <3>3. \A u \in Caller : u # t => Executes(u)'
      BY <1>0, <2>3, <2>7, <3>1, ExecutesKept
    <3>4. Executes(t)'
      <4>1. CASE rpc'[t] = Resting
        BY <1>0, <2>3, <2>7, <4>1, ExecutesKept
      <4>2. CASE /\ Len(rpc[t].rest) = 2
                 /\ rpc'[t].rest = <<rpc[t].rest[2]>>
                 /\ rpc'[t].asked = asked
        <5>1. PICK o \in Forms(asked) : rpc[t].rest = <<asked, o>>
          BY <2>2, <4>2 DEF Remaining
        <5>2. n = asked /\ rpc'[t].rest = <<o>>
          BY <4>2, <5>1 DEF Trying
        <5>3. Remaining(t)'
          BY <2>3, <2>7, <4>2, <5>2 DEF Remaining
        <5>4. executed'[t] = <<>>
          BY <2>2, <2>7
        <5> QED
          BY <5>3, <5>4 DEF Executes
      <4> QED
        BY <3>1, <4>1, <4>2
    <3> QED
      BY <3>2, <3>3, <3>4 DEF CallInv
  <2>8. ASSUME n \in methods,
               executed' = [executed EXCEPT ![t] = Append(@, <<asked, n>>)],
               EndCall(t) \/ FailCall(t, "answer lost")
        PROVE  CallInv'
    <3>1. /\ rpc' \in [Caller -> RpcCall \cup {Resting}]
          /\ rpc'[t] = Resting
          /\ \A u \in Caller : u # t => rpc'[u] = rpc[u]
      BY <1>0, <2>1, <2>8, AfterEnd
    <3>2. executed \in [Caller -> Seq(MethodName \X methods)]
      BY <1>0 DEF RpcTypeOK
    <3> DEFINE x == <<asked, n>>
    <3>0. x \in MethodName \X methods
      BY <2>2, <2>8
    <3>3. /\ executed'[t] = Append(<<>>, x)
          /\ \A u \in Caller : u # t => executed'[u] = executed[u]
      BY <2>2, <2>8, <3>2
    <3>4. <<x>> \in Seq(MethodName \X methods) /\ Append(<<>>, x) = <<x>>
      <4> HIDE DEF x
      <4> QED
        BY <3>0
    <3>5. executed' \in [Caller -> Seq(MethodName \X methods)]
      BY <2>8, <3>2, <3>3, <3>4
    <3>6. RpcTypeOK'
      BY <1>0, <2>3, <3>1, <3>5 DEF RpcTypeOK
    <3>7. \A u \in Caller : u # t => Executes(u)'
      BY <1>0, <2>3, <3>1, <3>3, ExecutesKept
    <3>8. Executes(t)'
      <4>1. /\ Len(executed'[t]) = 1
            /\ DOMAIN executed'[t] = {1}
            /\ executed'[t][1][1] = asked
            /\ executed'[t][1][2] = n
        BY <3>3, <3>4
      <4> HIDE DEF n, asked
      <4> QED
        BY <2>3, <2>4, <3>1, <4>1 DEF Executes
    <3> QED
      BY <3>6, <3>7, <3>8 DEF CallInv
  <2> QED
    BY <1>6, <2>6, <2>7, <2>8 DEF CallRpcMethod
<1>7. ASSUME Reconnect PROVE CallInv'
  <2>1. RpcTypeOK'
    BY <1>0, <1>7 DEF Reconnect, RpcTypeOK
  <2>2. \A t \in Caller : Executes(t)'
    BY <1>0, <1>7, ExecutesKept DEF Reconnect
  <2> QED
    BY <2>1, <2>2 DEF CallInv
<1>8. ASSUME UNCHANGED rpcVars PROVE CallInv'
  <2>1. RpcTypeOK'
    BY <1>0, <1>8 DEF rpcVars, RpcTypeOK
  <2>2. \A t \in Caller : Executes(t)'
    BY <1>0, <1>8, ExecutesKept DEF rpcVars
  <2> QED
    BY <2>1, <2>2 DEF CallInv
<1>9. NoType \in ReturnSpec /\ PlcType \subseteq ReturnSpec
  BY DEF ReturnSpec
<1> QED
  BY <1>1, <1>2, <1>3, <1>4, <1>5, <1>6, <1>7, <1>8, <1>9 DEF RpcNext

(* A call executes at most one method on the target, of the names it may   *)
(* mean the first that the target knows, for any names and any number of   *)
(* threads (RpcObject.__getattr__).                                        *)
THEOREM CallsOnceHolds == RpcSpec => []CallsOnce
<1>1. CallInv => CallsOnce
  BY DEF CallInv, Executes, CallsOnce
<1> QED
  BY CallInit, CallStep, <1>1, PTL DEF RpcSpec

(* The variables of an RpcObject and its callers have their types.         *)
THEOREM RpcTypes == RpcSpec => []RpcTypeOK
<1>1. CallInv => RpcTypeOK
  BY DEF CallInv
<1> QED
  BY CallInit, CallStep, <1>1, PTL DEF RpcSpec
-----------------------------------------------------------------------------
(* Return types *)

Configured(n) == {manual[o] : o \in Forms(n)} \ {NoType}

\* What SpecsTrue says of a type v that is kept for n.
Right(n, v) ==
    IF Configured(n) # {} THEN v \in Configured(n)
    ELSE \/ v = SymbolType /\ n \in methods
         \/ v = NoType /\ n \in unseen

\* The types kept, and those on their way to be kept, unless set too late.
SpecsInv ==
    /\ \A n \in MethodName \ outdated : specs[n] # Unknown => Right(n, specs[n])
    /\ \A t \in Caller :
          /\ rpc[t].step = "store" /\ Trying(t) \notin outdated =>
                Right(Trying(t), rpc[t].type)
          /\ rpc[t].step = "info" /\ Trying(t) \notin outdated =>
                Configured(Trying(t)) = {}

LEMMA SpecsInit == RpcInit => SpecsInv
<1> SUFFICES ASSUME RpcInit PROVE SpecsInv
  OBVIOUS
<1>1. \A n \in MethodName : specs[n] = Unknown
  BY DEF RpcInit
<1>2. \A t \in Caller : rpc[t].step = "idle"
  BY DEF RpcInit, Resting
<1> QED
  BY <1>1, <1>2 DEF SpecsInv

\* Nothing that the types depend on has changed, and a thread that has moved
\* holds what it should.
LEMMA SpecsKept ==
    ASSUME SpecsInv, UNCHANGED <<methods, manual, specs, outdated>>,
           unseen \subseteq unseen',
           \A t \in Caller :
              \/ rpc'[t] = rpc[t]
              \/ rpc'[t].step \notin {"store", "info"}
              \/ rpc'[t].step = "store" /\ (Trying(t)' \notin outdated => Right(Trying(t), rpc[t].type)')
              \/ rpc'[t].step = "info" /\ (Trying(t)' \notin outdated => (Configured(Trying(t)) = {})')
    PROVE  SpecsInv'
<1>1. \A n \in MethodName : Configured(n)' = Configured(n)
  BY DEF Configured
<1>2. \A n, v : Right(n, v) => Right(n, v)'
  BY DEF Right, Configured
<1>3. \A n \in MethodName \ outdated : specs[n] # Unknown => Right(n, specs[n])'
  BY <1>2 DEF SpecsInv
<1>4. ASSUME NEW t \in Caller
      PROVE  /\ rpc'[t].step = "store" /\ Trying(t)' \notin outdated =>
                   Right(Trying(t), rpc[t].type)'
             /\ rpc'[t].step = "info" /\ Trying(t)' \notin outdated =>
                   (Configured(Trying(t)) = {})'
  <2>1. CASE rpc'[t] = rpc[t]
    <3>1. Trying(t)' = Trying(t)
      BY <2>1 DEF Trying
    <3>2. rpc[t].step = "store" /\ Trying(t) \notin outdated => Right(Trying(t), rpc[t].type)'
      BY SMTT(30), <2>1, <3>1 DEF SpecsInv, Right, Configured
    <3>3. rpc[t].step = "info" /\ Trying(t) \notin outdated => (Configured(Trying(t)) = {})'
      BY <2>1, <3>1 DEF SpecsInv, Configured
    <3> QED
      BY <2>1, <3>1, <3>2, <3>3
  <2>2. CASE rpc'[t] # rpc[t]
    BY <2>2
  <2> QED
    BY <2>1, <2>2
<1> QED
  BY <1>3, <1>4 DEF SpecsInv

LEMMA SpecsStep == CallInv /\ SpecsInv /\ [RpcNext]_rpcVars => SpecsInv'
<1> SUFFICES ASSUME CallInv, SpecsInv, [RpcNext]_rpcVars PROVE SpecsInv'
  OBVIOUS
<1>0. RpcTypeOK
  BY DEF CallInv
<1>1. ASSUME NEW m \in MethodName, NEW type \in PlcType, SetReturnType(m, type)
      PROVE  SpecsInv'
  <2>1. /\ UNCHANGED <<methods, rpc, unseen>>
        /\ \A n \in MethodName : n # m => manual'[n] = manual[n] /\ specs'[n] = specs[n]
        /\ specs'[m] = Unknown
        /\ outdated' = (outdated \ {m}) \cup
                       {o \in Forms(m) : \/ o # m /\ specs[o] # Unknown
                                         \/ Inferring(o) # {}}
    BY <1>0, <1>1 DEF SetReturnType, RpcTypeOK
  <2>2. ASSUME NEW n \in MethodName, n \notin Forms(m)
        PROVE  /\ n # m
               /\ n \notin outdated' => n \notin outdated
               /\ Configured(n)' = Configured(n)
    <3>1. m \in Forms(m) /\ m \notin Forms(n)
      BY <2>2, NameFacts
    <3>2. \A o \in Forms(n) : manual'[o] = manual[o]
      BY <2>1, <3>1, NameFacts
    <3> QED
      BY <2>1, <2>2, <3>1, <3>2 DEF Configured
  <2>3. ASSUME NEW n \in Forms(m), n \notin outdated'
        PROVE  specs'[n] = Unknown /\ Inferring(n) = {}
    BY <2>1, <2>3, NameFacts
  <2>4. ASSUME NEW n \in MethodName \ outdated', specs'[n] # Unknown
        PROVE  Right(n, specs[n])'
    <3>1. n \notin Forms(m)
      BY <2>3, <2>4
    <3>2. n # m /\ n \notin outdated /\ Configured(n)' = Configured(n)
      BY <2>2, <2>4, <3>1
    <3>3. specs'[n] = specs[n] /\ Right(n, specs[n])
      BY <2>1, <2>4, <3>2 DEF SpecsInv
    <3> QED
      BY <2>1, <3>2, <3>3 DEF Right
  <2>5. ASSUME NEW t \in Caller, rpc[t].step \in {"store", "info"}, Trying(t) \notin outdated'
        PROVE  /\ Trying(t) \in MethodName
               /\ Trying(t) \notin Forms(m)
               /\ Trying(t) \notin outdated
               /\ Configured(Trying(t))' = Configured(Trying(t))
    <3>1. Trying(t) \in MethodName
      BY <1>0, <2>5, CallFacts DEF Resting
    <3>2. t \in Inferring(Trying(t))
      BY <2>5 DEF Inferring
    <3>3. Trying(t) \notin Forms(m)
      BY <2>3, <2>5, <3>2
    <3> DEFINE n == Trying(t)
    <3>4. n \in MethodName /\ n \notin Forms(m) /\ n \notin outdated'
      BY <2>5, <3>1, <3>3
    <3>5. (n \notin outdated) /\ {manual'[o] : o \in Forms(n)} \ {NoType} = Configured(n)
      <4> HIDE DEF n
      <4> QED
        BY <2>2, <3>4 DEF Configured
    <3>6. Configured(Trying(t))' = {manual'[o] : o \in Forms(n)} \ {NoType}
      BY <2>1 DEF Configured, Trying
    <3> QED
      BY <3>1, <3>3, <3>5, <3>6
  <2>6. ASSUME NEW t \in Caller
        PROVE  /\ rpc'[t].step = "store" /\ Trying(t)' \notin outdated' =>
                     Right(Trying(t), rpc[t].type)'
               /\ rpc'[t].step = "info" /\ Trying(t)' \notin outdated' =>
                     (Configured(Trying(t)) = {})'
    <3>1. Trying(t)' = Trying(t) /\ rpc'[t] = rpc[t]
      BY <2>1 DEF Trying
    <3>2. CASE rpc[t].step = "store" /\ Trying(t) \notin outdated'
      <4>1. Right(Trying(t), rpc[t].type) /\ Configured(Trying(t))' = Configured(Trying(t))
        BY <2>5, <3>2 DEF SpecsInv
      <4>2. Right(Trying(t), rpc[t].type)'
        BY <2>1, <3>1, <4>1 DEF Right
      <4> QED
        BY <3>1, <3>2, <4>2
    <3>3. CASE rpc[t].step = "info" /\ Trying(t) \notin outdated'
      <4>1. Configured(Trying(t)) = {} /\ Configured(Trying(t))' = Configured(Trying(t))
        BY <2>5, <3>3 DEF SpecsInv
      <4> QED
        BY <3>1, <3>3, <4>1
    <3> QED
      BY <3>1, <3>2, <3>3
  <2> QED
    BY <2>4, <2>6 DEF SpecsInv
<1>2. ASSUME NEW t \in Caller, NEW n \in MethodName,
             NEW mode \in {"inferred", "typed", "override"},
             NEW type \in ReturnSpec, Invoke(t, n, mode, type)
      PROVE  SpecsInv'
  <2>1. /\ rpc'[t].step \in {"infer", "call"}
        /\ \A u \in Caller : u # t => rpc'[u] = rpc[u]
    BY <1>0, <1>2, Started
  <2>2. UNCHANGED <<methods, manual, specs, outdated, unseen>>
    BY <1>2 DEF Invoke
  <2>3. rpc'[t].step \notin {"store", "info"}
    BY <2>1
  <2> QED
    BY <2>1, <2>2, <2>3, SpecsKept
<1>3. ASSUME NEW t \in Caller, InferReturnSpec(t) PROVE SpecsInv'
  <2> DEFINE n == Trying(t)
  <2>1. rpc[t] # Resting
    BY <1>3 DEF InferReturnSpec, Resting
  <2>2. n \in MethodName
    BY <1>0, <2>1, CallFacts
  <2>3. UNCHANGED <<methods, manual, specs, outdated, unseen>>
    BY <1>3 DEF InferReturnSpec
  <2>4. NoType \in ReturnSpec /\ ManualReturnType(n) \in ReturnSpec
    BY <1>0, <2>2, MethodTypes DEF ReturnSpec
  <2>5. /\ "call" \in RpcStep /\ "store" \in RpcStep /\ "info" \in RpcStep
        /\ "call" \notin {"store", "info"}
    BY DEF RpcStep
  <2>6. CASE specs[n] # Unknown /\ rpc' = [rpc EXCEPT ![t].step = "call", ![t].type = specs[n]]
    <3>1. specs[n] \in ReturnSpec
      BY <1>0, <2>2, <2>6 DEF RpcTypeOK
    <3>2. rpc'[t].step = "call" /\ \A u \in Caller : u # t => rpc'[u] = rpc[u]
      BY <1>0, <2>1, <2>5, <2>6, <3>1, SetStepType
    <3> QED
      BY <2>3, <2>5, <3>2, SpecsKept
  <2>7. CASE /\ ManualReturnType(n) # NoType
             /\ rpc' = [rpc EXCEPT ![t].step = "store", ![t].type = ManualReturnType(n)]
    <3>1. /\ rpc'[t].step = "store" /\ rpc'[t].type = ManualReturnType(n)
          /\ rpc'[t].rest = rpc[t].rest
          /\ \A u \in Caller : u # t => rpc'[u] = rpc[u]
      BY <1>0, <2>1, <2>4, <2>7, ToStore
    <3>2. ManualReturnType(n) \in Configured(n)
      BY <1>0, <2>2, <2>7, MethodTypes DEF Configured
    <3>3. Right(n, ManualReturnType(n))
      BY <3>2 DEF Right
    <3>4. Right(Trying(t), rpc[t].type)'
      BY <2>3, <3>1, <3>3 DEF Right, Configured, Trying
    <3> QED
      BY <2>3, <3>1, <3>4, SpecsKept
  <2>8. CASE /\ ManualReturnType(n) = NoType
             /\ rpc' = [rpc EXCEPT ![t].step = "info", ![t].type = NoType]
    <3>1. /\ rpc'[t].step = "info"
          /\ rpc'[t].rest = rpc[t].rest
          /\ \A u \in Caller : u # t => rpc'[u] = rpc[u]
      BY <1>0, <2>1, <2>4, <2>5, <2>8, SetStepType
    <3>2. Configured(n) = {}
      BY <1>0, <2>2, <2>8, MethodTypes DEF Configured
    <3>3. (Configured(Trying(t)) = {})'
      BY <2>3, <3>1, <3>2 DEF Configured, Trying
    <3> QED
      BY <2>3, <3>1, <3>3, SpecsKept
  <2> QED
    BY <1>3, <2>6, <2>7, <2>8 DEF InferReturnSpec
<1>4. ASSUME NEW t \in Caller, GetSymbolInfo(t) PROVE SpecsInv'
  <2> DEFINE n == Trying(t)
  <2>1. rpc[t] # Resting /\ rpc[t].step = "info"
    BY <1>4 DEF GetSymbolInfo, Resting
  <2>2. PICK type \in ReturnSpec :
            /\ rpc' = [rpc EXCEPT ![t].step = "store", ![t].type = type]
            /\ \/ type = SymbolType /\ n \in methods
               \/ type = NoType /\ n \in unseen'
    BY <1>4 DEF GetSymbolInfo, ReturnSpec
  <2>3. UNCHANGED <<methods, manual, specs, outdated>> /\ unseen \subseteq unseen'
    BY <1>4 DEF GetSymbolInfo
  <2>4. /\ rpc'[t].step = "store" /\ rpc'[t].type = type
        /\ rpc'[t].rest = rpc[t].rest
        /\ \A u \in Caller : u # t => rpc'[u] = rpc[u]
    <3>1. "store" \in RpcStep
      BY DEF RpcStep
    <3> QED
      BY <1>0, <2>1, <2>2, <3>1, SetStepType
  <2>5. n \notin outdated => Configured(n) = {}
    BY <2>1 DEF SpecsInv
  <2>6. /\ Trying(t)' = n
        /\ Configured(Trying(t))' = Configured(n)
    BY <2>3, <2>4 DEF Configured, Trying
  <2>7. Trying(t)' \notin outdated => Right(Trying(t), rpc[t].type)'
    BY <2>2, <2>3, <2>4, <2>5, <2>6 DEF Right
  <2> QED
    BY <2>3, <2>4, <2>7, SpecsKept
<1>5. ASSUME NEW t \in Caller, StoreSpec(t) PROVE SpecsInv'
  <2> DEFINE n == Trying(t)
  <2>1. rpc[t] # Resting /\ rpc[t].step = "store"
    BY <1>5 DEF StoreSpec, Resting
  <2>2. n \in MethodName
    BY <1>0, <2>1, CallFacts
  <2>3. /\ rpc' = [rpc EXCEPT ![t].step = "call"]
        /\ specs' = [specs EXCEPT ![n] = rpc[t].type]
        /\ UNCHANGED <<methods, manual, outdated, unseen>>
    BY <1>5 DEF StoreSpec
  <2>4. /\ rpc'[t].step = "call"
        /\ \A u \in Caller : u # t => rpc'[u] = rpc[u]
    <3>1. "call" \in RpcStep
      BY DEF RpcStep
    <3> QED
      BY <1>0, <2>1, <2>3, <3>1, SetStep
  <2>5. /\ specs'[n] = rpc[t].type
        /\ \A o \in MethodName : o # n => specs'[o] = specs[o]
    BY <1>0, <2>2, <2>3 DEF RpcTypeOK
  <2>6. \A o, v : Right(o, v) => Right(o, v)'
    BY <2>3 DEF Right, Configured
  <2>7. n \notin outdated => Right(n, rpc[t].type)
    BY <2>1 DEF SpecsInv
  <2>8. ASSUME NEW o \in MethodName \ outdated', specs'[o] # Unknown
        PROVE  Right(o, specs[o])'
    <3>1. Right(o, specs'[o])
      BY <2>3, <2>5, <2>7, <2>8 DEF SpecsInv
    <3> QED
      BY <2>3, <3>1 DEF Right, Configured
  <2>9. ASSUME NEW u \in Caller, u # t
        PROVE  /\ rpc'[u].step = "store" /\ Trying(u)' \notin outdated' =>
                     Right(Trying(u), rpc[u].type)'
               /\ rpc'[u].step = "info" /\ Trying(u)' \notin outdated' =>
                     (Configured(Trying(u)) = {})'
    <3>1. rpc'[u] = rpc[u] /\ Trying(u)' = Trying(u)
      BY <2>4, <2>9 DEF Trying
    <3> QED
      BY ZenonT(60), <2>3, <3>1 DEF SpecsInv, Right, Configured
  <2> QED
    BY <2>4, <2>8, <2>9 DEF SpecsInv
<1>6. ASSUME NEW t \in Caller, CallRpcMethod(t) PROVE SpecsInv'
  <2>1. rpc[t] # Resting
    <3>1. rpc[t].step = "call"
      BY <1>6 DEF CallRpcMethod
    <3> QED
      BY <3>1, InCall DEF RpcStep
  <2>2. UNCHANGED <<methods, manual, specs, outdated, unseen>>
    BY <1>6 DEF CallRpcMethod
  <2>3. EndCall(t) \/ \E error : FailCall(t, error)
    BY <1>6 DEF CallRpcMethod
  <2>4. /\ \/ rpc'[t] = Resting
           \/ rpc'[t].step \in {"infer", "call"}
        /\ \A u \in Caller : u # t => rpc'[u] = rpc[u]
    BY <1>0, <2>1, <2>3, AfterEnd, AfterFailure
  <2>5. rpc'[t].step \notin {"store", "info"}
    BY <2>4 DEF Resting
  <2> QED
    BY <2>2, <2>4, <2>5, SpecsKept
<1>7. ASSUME Reconnect \/ UNCHANGED rpcVars PROVE SpecsInv'
  <2>1. UNCHANGED <<methods, manual, specs, outdated, unseen, rpc>>
    BY <1>7 DEF Reconnect, rpcVars
  <2> QED
    BY <2>1, SpecsKept
<1>8. NoType \in ReturnSpec /\ PlcType \subseteq ReturnSpec
  BY DEF ReturnSpec
<1> QED
  BY <1>1, <1>2, <1>3, <1>4, <1>5, <1>6, <1>7, <1>8 DEF RpcNext

(* The type a result is decoded with is one that was configured for the    *)
(* method, or that of its symbol info, whatever the order of calls,        *)
(* lookups and set_return_type, except where the cache is known to be too  *)
(* old (RpcObject._infer_return_spec, RpcObject.set_return_type).          *)
THEOREM SpecsTrueHolds == RpcSpec => []SpecsTrue
<1>1. CallInv /\ SpecsInv => SpecsTrue
  BY DEF SpecsInv, SpecsTrue, Right, Configured
<1>2. RpcInit => CallInv /\ SpecsInv
  BY CallInit, SpecsInit
<1>3. CallInv /\ SpecsInv /\ [RpcNext]_rpcVars => (CallInv /\ SpecsInv)'
  BY CallStep, SpecsStep
<1> QED
  BY <1>1, <1>2, <1>3, PTL DEF RpcSpec
=============================================================================
