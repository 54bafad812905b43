------------------------------ MODULE FileEcho ------------------------------
(***************************************************************************)
(* A file echo in a network of tickers: which links a hatched or tossed    *)
(* file is forwarded to, and what its seen-by list says on the way         *)
(* (hatch, send, sendToLinks, the accepting part of processTic).           *)
(*                                                                         *)
(* A node runs one htick process at a time.  A copy is a file with its     *)
(* ticket, from the moment PutFileOnLink has queued it at the sender until *)
(* the receiver has tossed it; Outbound is about what happens in between.  *)
(***************************************************************************)
EXTENDS Naturals, FiniteSets

CONSTANTS
  Nodes,      \* the tickers
  Addr,       \* Fidonet addresses
  Files,      \* file names
  Owner,      \* [Addr -> Nodes] whose address it is
  UseAka,     \* [Nodes -> Addr] the area's useAka
  OurAka,     \* [Nodes -> [Addr -> Addr]] a link's ourAka
  Down,       \* [Nodes -> SUBSET Addr] the links subscribed to the area
  Export,     \* [Nodes -> SUBSET Addr] those e_readCheck lets receive files
  Import,     \* [Nodes -> SUBSET Addr] those e_writeCheck lets send files
  NoReplace,  \* the nodes whose area has noreplace
  Hatchers,   \* the nodes that hatch
  NoJob,      \* no run in progress
  MaxCopies,  \* bound: extra copies are made only while fewer are under way
  Faults      \* what may go wrong (FaultKinds)

FaultKinds == {"crash", "lose", "repeat", "send", "foreign"}

ASSUME FileEchoAssumption ==
  /\ Owner \in [Addr -> Nodes]
  /\ UseAka \in [Nodes -> Addr] /\ \A n \in Nodes : Owner[UseAka[n]] = n
  /\ OurAka \in [Nodes -> [Addr -> Addr]]
  /\ \A n \in Nodes, a \in Addr : Owner[OurAka[n][a]] = n
  /\ Down \in [Nodes -> SUBSET Addr]
  /\ \A n \in Nodes : \A a \in Down[n] : Owner[a] # n
  /\ Export \in [Nodes -> SUBSET Addr] /\ \A n \in Nodes : Export[n] \subseteq Down[n]
  /\ Import \in [Nodes -> SUBSET Addr] /\ \A n \in Nodes : Import[n] \subseteq Down[n]
  /\ NoReplace \subseteq Nodes /\ Hatchers \subseteq Nodes
  /\ MaxCopies \in Nat
  /\ Faults \subseteq FaultKinds

(* A ticket: the fields that routing depends on.  `via` is not in the      *)
(* ticket; it collects the addresses the copy has been handed to so far.   *)
Ticket == [file : Files, from : Addr, to : Addr, origin : Addr,
           seenby : SUBSET Addr, via : SUBSET Addr]

(* sendToLinks at work: the ticket as it came, the seen-by list that is    *)
(* written into the new tickets, and the downlinks not reached yet.        *)
Job == [tic : Ticket, seenby : SUBSET Addr, via : SUBSET Addr, todo : SUBSET Addr]

VARIABLES
  have,    \* [Nodes -> SUBSET Files] files in the node's area
  copies,  \* the copies under way
  job,     \* [Nodes -> Job \cup {NoJob}]
  came,    \* [Nodes -> SUBSET Files] files whose copy has been looked at here
  hatched  \* the files hatched so far

vars == <<have, copies, job, came, hatched>>

ASSUME NoJobAssumption == NoJob \notin Job

TypeOK ==
  /\ have \in [Nodes -> SUBSET Files]
  /\ copies \in SUBSET Ticket
  /\ job \in [Nodes -> Job \cup {NoJob}]
  /\ came \in [Nodes -> SUBSET Files]
  /\ hatched \in SUBSET Files

Init ==
  /\ have = [n \in Nodes |-> {}]
  /\ copies = {}
  /\ job = [n \in Nodes |-> NoJob]
  /\ came = [n \in Nodes |-> {}]
  /\ hatched = {}

-----------------------------------------------------------------------------
Room == Cardinality(copies) < MaxCopies

(* The seen-by list with the subscribers who may read; an empty list is    *)
(* left empty.                                                             *)
Listing(n, seenby) == IF seenby = {} THEN {} ELSE seenby \cup Export[n]

(* The list that goes out: the address the ticket came to is added, or,    *)
(* when that is listed already, the area's address.                        *)
NewSeenby(n, seenby, to) ==
  Listing(n, seenby)
  \cup {IF Owner[to] = n /\ to \notin Listing(n, seenby) THEN to ELSE UseAka[n]}

(* Hatched files have no sender and no addressee to be left out. *)
HatchLinks(n, origin) == Export[n] \ {origin}

(* Defect: the seen-by list is not looked at. *)
TossLinksUnseen(n, tic) == Export[n] \ {tic.from, tic.to, tic.origin}

(* sendToLinks leaves out the sender, the addressee, the origin and every  *)
(* link that the ticket said has seen the file.                            *)
TossLinks(n, tic) ==
  Export[n] \ ({tic.from, tic.to, tic.origin} \cup tic.seenby)

(* What hatch and send make up: the area's address is origin and sender.   *)
HatchTic(n, f) ==
  [file |-> f, from |-> UseAka[n], to |-> UseAka[n], origin |-> UseAka[n],
   seenby |-> {UseAka[n]}, via |-> {UseAka[n]}]

HatchJob(n, f) ==
  [tic |-> HatchTic(n, f), seenby |-> NewSeenby(n, {UseAka[n]}, UseAka[n]),
   via |-> {UseAka[n]}, todo |-> HatchLinks(n, UseAka[n])]

TossJob(n, tic) ==
  [tic |-> tic, seenby |-> NewSeenby(n, tic.seenby, tic.to),
   via |-> tic.via \cup {tic.to}, todo |-> TossLinks(n, tic)]

(* The ticket that PutFileOnLink writes for a downlink. *)
ForwardTic(n, j, a) ==
  [file |-> j.tic.file, from |-> OurAka[n][a], to |-> a, origin |-> j.tic.origin,
   seenby |-> j.seenby, via |-> j.via]

(* Defect: the loop ends after the first downlink. *)
ServedBreak(j, a) == [j EXCEPT !.todo = {}]

(* One downlink less to go. *)
Served(j, a) == [j EXCEPT !.todo = @ \ {a}]

(* A ticket of our own, with the seen-by list given. *)
OwnTic(n, f, a, seenby) ==
  [file |-> f, from |-> OurAka[n][a], to |-> a, origin |-> UseAka[n],
   seenby |-> seenby, via |-> {}]

Hatch(n, f) ==
  /\ n \in Hatchers /\ job[n] = NoJob /\ f \notin hatched
  /\ hatched' = hatched \cup {f}
  /\ have' = [have EXCEPT ![n] = @ \cup {f}]
  /\ came' = [came EXCEPT ![n] = @ \cup {f}]
  /\ job' = [job EXCEPT ![n] = HatchJob(n, f)]
  /\ UNCHANGED copies

(* Defect: the ticket is not removed. *)
TossKeepsTicket(n, tic) ==
  /\ job[n] = NoJob
  /\ Owner[tic.to] = n /\ tic.from \in Import[n]
  /\ ~(n \in NoReplace /\ tic.file \in have[n])
  /\ have' = [have EXCEPT ![n] = @ \cup {tic.file}]
  /\ came' = [came EXCEPT ![n] = @ \cup {tic.file}]
  /\ job' = [job EXCEPT ![n] = TossJob(n, tic)]
  /\ UNCHANGED <<copies, hatched>>

(* processTic accepts a copy: the ticket is to us, its sender may write to *)
(* the area.  With "repeat" the mailer has delivered it twice.             *)
Toss(n, tic) ==
  /\ job[n] = NoJob
  /\ Owner[tic.to] = n /\ tic.from \in Import[n]
  /\ ~(n \in NoReplace /\ tic.file \in have[n])
  /\ \/ copies' = copies \ {tic}
     \/ "repeat" \in Faults /\ Room /\ UNCHANGED copies
  /\ have' = [have EXCEPT ![n] = @ \cup {tic.file}]
  /\ came' = [came EXCEPT ![n] = @ \cup {tic.file}]
  /\ job' = [job EXCEPT ![n] = TossJob(n, tic)]
  /\ UNCHANGED hatched

(* It refuses one from a link without write access, or for a file that     *)
(* must not be replaced: the ticket is renamed and nothing is forwarded.   *)
Refuse(n, tic) ==
  /\ job[n] = NoJob
  /\ Owner[tic.to] = n
  /\ tic.from \notin Import[n] \/ (n \in NoReplace /\ tic.file \in have[n])
  /\ copies' = copies \ {tic}
  /\ came' = [came EXCEPT ![n] = @ \cup {tic.file}]
  /\ UNCHANGED <<have, job, hatched>>

(* PutFileOnLink for the next downlink. *)
Forward(n, a) ==
  /\ job[n] # NoJob /\ a \in job[n].todo
  /\ copies' = copies \cup {ForwardTic(n, job[n], a)}
  /\ job' = [job EXCEPT ![n] = Served(job[n], a)]
  /\ UNCHANGED <<have, came, hatched>>

Finish(n) ==
  /\ job[n] # NoJob /\ job[n].todo = {}
  /\ job' = [job EXCEPT ![n] = NoJob]
  /\ UNCHANGED <<have, copies, came, hatched>>

(* htick send, filefix %resend: the list has only the addressee.           *)
Send(n, f, a) ==
  /\ "send" \in Faults
  /\ Room /\ job[n] = NoJob /\ f \in have[n] /\ a \in Down[n]
  /\ copies' = copies \cup {OwnTic(n, f, a, {a})}
  /\ UNCHANGED <<have, job, came, hatched>>

-----------------------------------------------------------------------------
(* A run that dies in the middle of sendToLinks.  The file has left the    *)
(* inbound, so the ticket is never tossed again.                           *)
Crash(n) ==
  /\ "crash" \in Faults
  /\ job[n] # NoJob
  /\ job' = [job EXCEPT ![n] = NoJob]
  /\ UNCHANGED <<have, copies, came, hatched>>

Lose(tic) ==
  /\ "lose" \in Faults
  /\ copies' = copies \ {tic}
  /\ UNCHANGED <<have, job, came, hatched>>

(* A node that runs some other ticker, which writes no seen-by list, sends *)
(* a file of its own to a link.                                            *)
Foreign(n, f, a) ==
  /\ "foreign" \in Faults
  /\ f \notin hatched /\ a \in Down[n]
  /\ hatched' = hatched \cup {f}
  /\ have' = [have EXCEPT ![n] = @ \cup {f}]
  /\ came' = [came EXCEPT ![n] = @ \cup {f}]
  /\ copies' = copies \cup {OwnTic(n, f, a, {})}
  /\ UNCHANGED job

NodeStep(n) ==
  \/ \E f \in Files : Hatch(n, f)
  \/ \E tic \in copies : Toss(n, tic) \/ Refuse(n, tic)
  \/ \E a \in Addr : Forward(n, a)
  \/ Finish(n)

OutsideStep ==
  \/ \E n \in Nodes : Crash(n)
  \/ \E n \in Nodes, f \in Files, a \in Addr : Send(n, f, a) \/ Foreign(n, f, a)
  \/ \E tic \in copies : Lose(tic)

Next == (\E n \in Nodes : NodeStep(n)) \/ OutsideStep

Spec == Init /\ [][Next]_vars

(* A started run goes on, and every copy is tossed at some time. *)
Fairness ==
  \A n \in Nodes :
    /\ WF_vars(\E a \in Addr : Forward(n, a))
    /\ WF_vars(Finish(n))
    /\ WF_vars(\E tic \in copies : Toss(n, tic) \/ Refuse(n, tic))

FairSpec == Spec /\ Fairness

-----------------------------------------------------------------------------
(* Properties. *)

(* A copy of f is on its way to node m, or a run is about to put it there. *)
Coming(m, f) ==
  \/ \E tic \in copies : tic.file = f /\ Owner[tic.to] = m
  \/ \E n \in Nodes : /\ job[n] # NoJob /\ job[n].tic.file = f
                      /\ \E a \in job[n].todo : Owner[a] = m

Reached(a, f) == f \in came[Owner[a]] \/ Coming(Owner[a], f)

(* Seen-by lists tell the truth: a listed system has had the file, or a    *)
(* copy is on its way to it.  The list keeps other systems from sending    *)
(* the file there, so an untrue entry is a file that never comes.          *)
SeenByTruthful ==
  /\ \A tic \in copies : \A a \in tic.seenby : Reached(a, tic.file)
  /\ \A n \in Nodes : job[n] # NoJob =>
       \A a \in job[n].seenby : Reached(a, job[n].tic.file)

(* A copy is never handed to an address it has passed through: no file     *)
(* goes round in circles, whatever is lost, repeated or killed.            *)
NoReturn ==
  \A tic \in copies : tic.to \notin tic.via

(* `up` leads from every node towards node r: links go along it, or        *)
(* between nodes that hang on the same one, which has them as links, too.  *)
Towards(r, up) ==
  \A n \in Nodes : \A a \in Export[n] :
    \/ n # r /\ up[n] = Owner[a]
    \/ Owner[a] # r /\ up[Owner[a]] = n
    \/ n # r /\ Owner[a] # r /\ up[Owner[a]] = up[n] /\ a \in Export[up[n]]

(* Every cycle of links lies among nodes that are all linked with each     *)
(* other (as in trees and full meshes); and two nodes know each other by   *)
(* one address each, the one that the other uses for its tickets.          *)
Clustered ==
  /\ \A r \in Hatchers : \E up \in [Nodes -> Nodes] : Towards(r, up)
  /\ \A n \in Nodes : \A a, b \in Export[n] : Owner[a] = Owner[b] => a = b
  /\ \A n \in Nodes : \A b \in Export[n] : \A a \in Export[Owner[b]] :
       Owner[a] = n => a = OurAka[n][b]

(* In a network like that, no node is sent a file it has or is being sent, *)
(* unless a copy is repeated, a file resent or a seen-by list missing.     *)
NoDuplicate ==
  \A tic \in copies :
    /\ tic.file \notin came[Owner[tic.to]]
    /\ \A other \in copies :
         other.file = tic.file /\ Owner[other.to] = Owner[tic.to] => other = tic

(* With links that read and write, a hatched file comes to every node. *)
ReachesAll ==
  \A f \in Files : (f \in hatched) ~> (\A n \in Nodes : f \in have[n])

(* Flooding ends: no copy is under way for ever. *)
Quiet == <>[](copies = {})
=============================================================================
