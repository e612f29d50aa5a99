------------------------------- MODULE MCLibrary -------------------------------
(***************************************************************************)
(* Four parts of the library that share no state, in one run: focus says   *)
(* which of them moves, and the others stay in one of their first states.  *)
(***************************************************************************)
EXTENDS DataAccess, RpcObject, RpcInterface, TestServer, TLC

CONSTANTS raw, text, wide, record, texts, \* variables of the PLC
          Root, Mid, Leaf, Alone,           \* interface classes
          fast, slow                        \* peers of the test server

VARIABLE focus
-----------------------------------------------------------------------------
\* The last item of record is a structure of its own.
Declared == [x \in {raw, text, wide, record, texts} |->
    CASE x = raw -> Byte(2)
      [] x = text -> String(1, 0)
      [] x = wide -> WString(1, 1)
      [] x = record -> Struct(1, <<WString(1, 1), Byte(1), Struct(1, <<String(1, 1)>>)>>)
      [] x = texts -> String(2, 1)]
StartBytes == [x \in {raw, text, wide, record, texts} |->
    CASE x = raw -> <<1, 2>>
      [] x = text -> <<97, 0, 0>>
      [] x = wide -> <<97, 0, 0, 0>>
      [] x = record -> <<97, 0, 0, 0, 7, 97, 0>>
      [] x = texts -> <<97, 0, 98, 0>>]

\* Empty, short, too long and not ASCII.
EAcute == 233
ShortTexts == << <<>>, <<EAcute>> >>
Inputs == [x \in {raw, text, wide, record, texts} |->
    CASE x = raw -> <<List(<<3, 4>>)>>
      [] x = text -> << <<>>, <<98, 97>>, <<EAcute, 97>> >>
      [] x = wide -> << <<>>, <<EAcute>>, <<97, 98>> >>
      [] x = record -> [i \in 1 .. 2 |->
            [dict |-> <<ShortTexts[i], 1, [dict |-> <<ShortTexts[i]>>]>>]]
      [] x = texts -> <<List(<< <<98>>, <<>> >>)>>]
Batches == {<<text, raw>>, <<wide, text>>, <<texts, wide>>, <<raw, record, text>>}

BaseOf == (Root :> NoClass) @@ (Mid :> Root) @@ (Leaf :> Mid) @@ (Alone :> NoClass)

\* A short packet with others behind it; and a request that ends its thread,
\* so that the next one, which waits for the answer, is never sent.
Requests == (fast :> <<"short", "plain", "plain">>) @@ (slow :> <<"unknown", "plain">>)
-----------------------------------------------------------------------------
LibraryInit ==
    /\ focus \in {"data", "rpc", "interface", "server"}
    /\ DataInit
    /\ focus # "data" => target = "PLC"
    /\ RpcInit
    /\ focus # "rpc" => methods = {} /\ \A n \in MethodName : first[n] = n
    /\ InterfaceInit
    /\ ServerInit

LibraryNext ==
    /\ UNCHANGED focus
    /\ \/ /\ focus = "data"
          /\ DataNext
          /\ UNCHANGED <<rpcVars, interfaceVars, serverVars>>
       \/ /\ focus = "rpc"
          /\ RpcNext
          /\ UNCHANGED <<dataVars, interfaceVars, serverVars>>
       \/ /\ focus = "interface"
          /\ InterfaceNext
          /\ UNCHANGED <<dataVars, rpcVars, serverVars>>
       \/ /\ focus = "server"
          /\ ServerNext
          /\ UNCHANGED <<dataVars, rpcVars, interfaceVars>>

LibrarySpec ==
    /\ LibraryInit
    /\ [][LibraryNext]_<<focus, dataVars, rpcVars, interfaceVars, serverVars>>
    /\ ServerFairness
-----------------------------------------------------------------------------
(* The variables of the part that moves have their types: those of a PLC   *)
(* keep their size whatever is written to them.                            *)
LibraryTypeOK ==
    CASE focus = "data" -> DataTypeOK
      [] focus = "rpc" -> RpcTypeOK
      [] focus = "interface" -> InterfaceTypeOK
      [] focus = "server" -> ServerTypeOK

(* ReadsAgree, where there is something to see: a list read gives what the *)
(* single reads give.                                                      *)
ListReadsAgree == focus = "data" => ReadsAgree

(* StructRoundTrip, likewise: a structure decoded and encoded is the same. *)
RecordRoundTrip == focus = "data" => StructRoundTrip
=============================================================================
