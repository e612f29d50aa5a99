----------------------------- MODULE MCConnection -----------------------------
EXTENDS Connection, TLC

CONSTANTS plc1, plc2, net1, net2, user, router, port1, port2

\* Both look their net id up, unless they are given one; one thread owns both.
OneOwner == (plc1 :> user) @@ (plc2 :> user)
Known == (plc1 :> None) @@ (plc2 :> None)
Found == (plc1 :> net1) @@ (plc2 :> net1)

\* Connections and ports are interchangeable; threads are not, one owns both.
Alike == Permutations({port1, port2}) \cup Permutations({plc1, plc2})
=============================================================================
