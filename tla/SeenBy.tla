------------------------------- MODULE SeenBy -------------------------------
(***************************************************************************)
(* The seen-by list of a ticket (seenby.c): an array of Fidonet addresses  *)
(* that is searched, appended to and sorted.  Tic lets tickers work with   *)
(* it; FileEcho takes it for a set of addresses, which TicProofs           *)
(* justifies.                                                              *)
(***************************************************************************)
EXTENDS Naturals, Sequences, Functions

CONSTANTS
  Addresses,  \* the addresses that occur
  MaxList     \* bound: the length of a list

(* hs_addr *)
HsAddr == [zone : Nat, net : Nat, node : Nat, point : Nat]

ASSUME SeenByAssumption == Addresses \subseteq HsAddr /\ MaxList \in Nat

(* Defect: the comparison stops at the node. *)
GreaterNode(a, b) ==
  \/ a.zone > b.zone
  \/ a.zone = b.zone /\ a.net > b.net
  \/ a.zone = b.zone /\ a.net = b.net /\ a.node > b.node

(* cmp_Addr(a, b) > 0 *)
Greater(a, b) ==
  \/ a.zone > b.zone
  \/ a.zone = b.zone /\ a.net > b.net
  \/ a.zone = b.zone /\ a.net = b.net /\ a.node > b.node
  \/ a.zone = b.zone /\ a.net = b.net /\ a.node = b.node /\ a.point > b.point

(* cmp_Addr(a, b) < 0 *)
Less(a, b) ==
  \/ a.zone < b.zone
  \/ a.zone = b.zone /\ a.net < b.net
  \/ a.zone = b.zone /\ a.net = b.net /\ a.node < b.node
  \/ a.zone = b.zone /\ a.net = b.net /\ a.node = b.node /\ a.point < b.point

Listed(s) == {s[i] : i \in DOMAIN s}

(* seenbyComp: 0 when the address is in the list. *)
SeenbyComp(s, a) == IF \E i \in DOMAIN s : s[i] = a THEN 0 ELSE 1

(* Defect: the number of entries is not counted up. *)
SeenbyAddUncounted(s, a) == s

(* seenbyAdd: appends an address that is not in the list yet. *)
SeenbyAdd(s, a) == IF SeenbyComp(s, a) = 0 THEN s ELSE Append(s, a)

Ordered(t) == \A i \in 1 .. Len(t) - 1 : ~Greater(t[i], t[i + 1])

(* The ways to rearrange a list of n entries. *)
Rearrangements == [n \in 0 .. MaxList |-> Bijection(1 .. n, 1 .. n)]

(* seenbySort: what qsort with cmp_Addr may leave in the array. *)
SeenbySort(s) ==
  {t \in {[i \in DOMAIN s |-> s[p[i]]] : p \in Rearrangements[Len(s)]} : Ordered(t)}

-----------------------------------------------------------------------------
(* A list as the ticker handles it: begun with a ticket, filled from its   *)
(* lines or with our own address, then added to and sorted, all by the     *)
(* operations above.                                                       *)
VARIABLES
  list,   \* the array and its length
  added   \* the addresses seenbyAdd has been called with

svars == <<list, added>>

ListTypeOK ==
  list \in Seq(HsAddr) /\ Len(list) <= MaxList /\ added \in SUBSET HsAddr

ListInit == list = <<>> /\ added = {}

NewList == list' = <<>> /\ added' = {}

AddStep(a) ==
  /\ Len(SeenbyAdd(list, a)) <= MaxList
  /\ list' = SeenbyAdd(list, a)
  /\ added' = added \cup {a}

SortStep ==
  /\ list' \in SeenbySort(list)
  /\ UNCHANGED added

ListNext == NewList \/ (\E a \in Addresses : AddStep(a)) \/ SortStep

ListSpec == ListInit /\ [][ListNext]_svars

-----------------------------------------------------------------------------
(* Properties. *)

(* No address is listed twice. *)
NoRepeats ==
  \A i, j \in DOMAIN list : list[i] = list[j] => i = j

(* Whatever has been added is found, and nothing else: adding and sorting  *)
(* lose no address and invent none.  And no address is listed twice, so    *)
(* that the length of the list is bounded by the number of systems,        *)
(* however often a ticket is forwarded and whatever repetitions it came    *)
(* with.                                                                   *)
ListIsSet ==
  /\ Listed(list) = added
  /\ \A a \in Addresses : SeenbyComp(list, a) = 0 <=> a \in added
  /\ NoRepeats

(* qsort is given a strict total order that agrees with addrComp; the      *)
(* result of sorting thus depends on the addresses only, not on the order  *)
(* in which they came.                                                     *)
SortCanonical ==
  \A t, u \in SeenbySort(list) : t = u
=============================================================================
