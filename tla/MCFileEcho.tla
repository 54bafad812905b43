----------------------------- MODULE MCFileEcho -----------------------------
(***************************************************************************)
(* FileEcho on small networks.  Nodes are numbers; node n has the address  *)
(* 10 * n and, where the network has several addresses, 10 * n + 1.        *)
(***************************************************************************)
EXTENDS FileEcho

CONSTANTS f1, f2

Main(n) == 10 * n
Second(n) == 10 * n + 1

OwnerOf == [a \in Addr |-> a \div 10]
UseMain == [n \in Nodes |-> Main(n)]
MainAddr == {Main(n) : n \in Nodes}

(* Three nodes that are all linked with each other, and one behind node 3. *)
Edges == {{1, 2}, {2, 3}, {3, 1}, {3, 4}}
Kite == [n \in Nodes |-> {Main(m) : m \in {k \in Nodes \ {n} : {n, k} \in Edges}}]

(* Node 4 knows node 3 by its second address, and node 3 uses that when it *)
(* talks to node 4.                                                        *)
CutAddr == MainAddr \cup {Second(3)}
CutOur == [n \in Nodes |-> [a \in Addr |->
            IF n = 3 /\ a = Main(4) THEN Second(3) ELSE Main(n)]]
CutDown == [n \in Nodes |-> IF n = 4 THEN {Second(3)} ELSE Kite[n]]

(* Node 3 knows node 1 by its second address, so that node 1 comes twice   *)
(* in seen-by lists, and does not accept files from it.                    *)
AkaAddr == MainAddr \cup {Second(1)}
AkaOur == [n \in Nodes |-> [a \in Addr |->
            IF n = 1 /\ a = Main(3) THEN Second(1) ELSE Main(n)]]
AkaDown == [n \in Nodes |-> IF n = 3 THEN {Second(1), Main(2), Main(4)} ELSE Kite[n]]
AkaImport == [n \in Nodes |-> IF n = 3 THEN {Main(2), Main(4)} ELSE Kite[n]]

(* The network in which nothing goes wrong but that runs may die is as     *)
(* NoDuplicate wants it.                                                   *)
ASSUME ClusteredAssumption == Faults \subseteq {"crash", "lose"} => Clustered
=============================================================================
