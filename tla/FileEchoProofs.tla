--------------------------- MODULE FileEchoProofs ---------------------------
(***************************************************************************)
(* The file echo in any network: any nodes, addresses and links, whatever  *)
(* the access rights.                                                      *)
(*   TypeOK      every variable keeps its type                             *)
(*   ViaOK       what makes NoReturn inductive: a copy has been seen by    *)
(*               every address it has passed through                       *)
(*   KnownOK     sender and origin of a copy have had the file             *)
(*   Truthful    with KnownOK: SeenByTruthful                              *)
(*   Spread      what makes NoDuplicate inductive: files go away from the  *)
(*               node that hatched them, from each node to those below it  *)
(***************************************************************************)
EXTENDS FileEcho, TLAPS

(* The records that the actions build are tickets and jobs. *)
LEMMA TypesBuilt ==
  ASSUME NEW n \in Nodes
  PROVE  /\ \A f \in Files : HatchTic(n, f) \in Ticket /\ HatchJob(n, f) \in Job
         /\ \A tic \in Ticket : TossJob(n, tic) \in Job
         /\ \A j \in Job, a \in Addr : /\ ForwardTic(n, j, a) \in Ticket
                                     /\ Served(j, a) \in Job
         /\ \A f \in Files, a \in Addr :
              OwnTic(n, f, a, {a}) \in Ticket /\ OwnTic(n, f, a, {}) \in Ticket
<1>1. /\ UseAka[n] \in Addr /\ Export[n] \subseteq Addr
      /\ \A a \in Addr : OurAka[n][a] \in Addr
  BY FileEchoAssumption
<1>2. \A s \in SUBSET Addr, to \in Addr : NewSeenby(n, s, to) \in SUBSET Addr
  BY <1>1 DEF NewSeenby, Listing
<1>3. ASSUME NEW f \in Files PROVE HatchTic(n, f) \in Ticket
  BY <1>1 DEF HatchTic, Ticket
<1>4. ASSUME NEW f \in Files PROVE HatchJob(n, f) \in Job
  <2>1. HatchLinks(n, UseAka[n]) \in SUBSET Addr
    BY <1>1 DEF HatchLinks
  <2>2. NewSeenby(n, {UseAka[n]}, UseAka[n]) \in SUBSET Addr
    BY <1>1, <1>2
  <2> QED
    BY <1>1, <1>3, <2>1, <2>2 DEF HatchJob, Job
<1>5. ASSUME NEW tic \in Ticket PROVE TossJob(n, tic) \in Job
  <2>1. /\ tic.seenby \in SUBSET Addr /\ tic.to \in Addr
        /\ tic.via \cup {tic.to} \in SUBSET Addr
    BY DEF Ticket
  <2>2. TossLinks(n, tic) \in SUBSET Addr
    BY <1>1 DEF TossLinks
  <2>3. NewSeenby(n, tic.seenby, tic.to) \in SUBSET Addr
    BY <1>2, <2>1
  <2> QED
    BY <2>1, <2>2, <2>3 DEF TossJob, Job
<1>6. ASSUME NEW j \in Job, NEW a \in Addr
      PROVE  ForwardTic(n, j, a) \in Ticket /\ Served(j, a) \in Job
  BY <1>1 DEF ForwardTic, Served, Job, Ticket
<1>7. ASSUME NEW f \in Files, NEW a \in Addr
      PROVE  OwnTic(n, f, a, {a}) \in Ticket /\ OwnTic(n, f, a, {}) \in Ticket
  BY <1>1 DEF OwnTic, Ticket
<1> QED
  BY <1>3, <1>4, <1>5, <1>6, <1>7

LEMMA NextType == TypeOK /\ [Next]_vars => TypeOK'
<1> SUFFICES ASSUME TypeOK, [Next]_vars PROVE TypeOK'
  OBVIOUS
<1>1. ASSUME NEW n \in Nodes, NEW f \in Files, Hatch(n, f) PROVE TypeOK'
  BY <1>1, TypesBuilt DEF Hatch, TypeOK
<1>2. ASSUME NEW n \in Nodes, NEW tic \in copies, Toss(n, tic) PROVE TypeOK'
  <2>1. tic \in Ticket
    BY DEF TypeOK
  <2>2. tic.file \in Files /\ TossJob(n, tic) \in Job
    BY <2>1, TypesBuilt DEF Ticket
  <2> QED
    BY <1>2, <2>2 DEF Toss, TypeOK
<1>3. ASSUME NEW n \in Nodes, NEW tic \in copies, Refuse(n, tic) PROVE TypeOK'
  <2>1. tic.file \in Files
    BY DEF TypeOK, Ticket
  <2> QED
    BY <1>3, <2>1 DEF Refuse, TypeOK
<1>4. ASSUME NEW n \in Nodes, NEW a \in Addr, Forward(n, a) PROVE TypeOK'
  <2>1. job[n] \in Job
    BY <1>4 DEF Forward, TypeOK
  <2> QED
    BY <1>4, <2>1, TypesBuilt DEF Forward, TypeOK
<1>5. ASSUME NEW n \in Nodes, Finish(n) PROVE TypeOK'
  BY <1>5 DEF Finish, TypeOK
<1>6. ASSUME NEW n \in Nodes, Crash(n) PROVE TypeOK'
  BY <1>6 DEF Crash, TypeOK
<1>7. ASSUME NEW n \in Nodes, NEW f \in Files, NEW a \in Addr, Send(n, f, a) PROVE TypeOK'
  BY <1>7, TypesBuilt DEF Send, TypeOK
<1>8. ASSUME NEW n \in Nodes, NEW f \in Files, NEW a \in Addr, Foreign(n, f, a) PROVE TypeOK'
  BY <1>8, TypesBuilt DEF Foreign, TypeOK
<1>9. ASSUME NEW tic \in copies, Lose(tic) PROVE TypeOK'
  BY <1>9 DEF Lose, TypeOK
<1>10. CASE UNCHANGED vars
  BY <1>10 DEF vars, TypeOK
<1> QED
  BY <1>1, <1>2, <1>3, <1>4, <1>5, <1>6, <1>7, <1>8, <1>9, <1>10
  DEF Next, NodeStep, OutsideStep

(* Every variable keeps its type. *)
THEOREM TypeCorrect == Spec => []TypeOK
<1>1. Init => TypeOK
  BY DEF Init, TypeOK
<1> QED
  BY <1>1, NextType, PTL DEF Spec

ViaOK ==
  /\ \A tic \in copies : tic.via \subseteq tic.seenby /\ tic.to \notin tic.via
  /\ \A n \in Nodes : job[n] # NoJob =>
       job[n].via \subseteq job[n].seenby /\ job[n].todo \cap job[n].via = {}

LEMMA NextVia == TypeOK /\ ViaOK /\ [Next]_vars => ViaOK'
<1> SUFFICES ASSUME TypeOK, ViaOK, [Next]_vars PROVE ViaOK'
  OBVIOUS
<1>1. ASSUME NEW n \in Nodes, NEW f \in Files, Hatch(n, f) PROVE ViaOK'
  <2>1. /\ HatchJob(n, f).via \subseteq HatchJob(n, f).seenby
        /\ HatchJob(n, f).todo \cap HatchJob(n, f).via = {}
    BY FileEchoAssumption DEF HatchJob, NewSeenby, Listing, HatchLinks
  <2> QED
    BY <1>1, <2>1 DEF Hatch, TypeOK, ViaOK
<1>2. ASSUME NEW n \in Nodes, NEW tic \in copies, Toss(n, tic) PROVE ViaOK'
  <2>1. tic.via \subseteq tic.seenby
    BY DEF ViaOK
  <2>2. tic.via \cup {tic.to} \subseteq NewSeenby(n, tic.seenby, tic.to)
    <3>1. tic.seenby \subseteq Listing(n, tic.seenby)
      BY DEF Listing
    <3>2. tic.to \in NewSeenby(n, tic.seenby, tic.to)
      BY <1>2 DEF Toss, NewSeenby
    <3> QED
      BY <2>1, <3>1, <3>2 DEF NewSeenby
  <2>3. TossLinks(n, tic) \cap (tic.via \cup {tic.to}) = {}
    BY <2>1 DEF TossLinks
  <2>4. /\ TossJob(n, tic).via \subseteq TossJob(n, tic).seenby
        /\ TossJob(n, tic).todo \cap TossJob(n, tic).via = {}
    BY <2>2, <2>3 DEF TossJob
  <2> QED
    BY <1>2, <2>4 DEF Toss, TypeOK, ViaOK
<1>3. ASSUME NEW n \in Nodes, NEW tic \in copies, Refuse(n, tic) PROVE ViaOK'
  BY <1>3 DEF Refuse, TypeOK, ViaOK
<1>4. ASSUME NEW n \in Nodes, NEW a \in Addr, Forward(n, a) PROVE ViaOK'
  <2>1. job[n] \in Job /\ job[n] # NoJob /\ a \in job[n].todo
    BY <1>4 DEF Forward, TypeOK
  <2>2. job[n].via \subseteq job[n].seenby /\ job[n].todo \cap job[n].via = {}
    BY <2>1 DEF ViaOK
  <2>3. /\ ForwardTic(n, job[n], a).via \subseteq ForwardTic(n, job[n], a).seenby
        /\ ForwardTic(n, job[n], a).to \notin ForwardTic(n, job[n], a).via
    BY <2>1, <2>2 DEF ForwardTic
  <2>4. /\ Served(job[n], a).via \subseteq Served(job[n], a).seenby
        /\ Served(job[n], a).todo \cap Served(job[n], a).via = {}
    BY <2>1, <2>2 DEF Served, Job
  <2>6. job'[n] = Served(job[n], a)
    BY <1>4 DEF Forward, TypeOK
  <2>5. \A k \in Nodes \ {n} : job'[k] = job[k]
    BY <1>4 DEF Forward, TypeOK
  <2> QED
    BY <1>4, <2>3, <2>4, <2>5, <2>6 DEF Forward, ViaOK
<1>5. ASSUME NEW n \in Nodes, Finish(n) PROVE ViaOK'
  BY <1>5 DEF Finish, TypeOK, ViaOK
<1>6. ASSUME NEW n \in Nodes, Crash(n) PROVE ViaOK'
  BY <1>6 DEF Crash, TypeOK, ViaOK
<1>7. ASSUME NEW n \in Nodes, NEW f \in Files, NEW a \in Addr, Send(n, f, a) PROVE ViaOK'
  <2>1. OwnTic(n, f, a, {a}).via = {}
    BY DEF OwnTic
  <2> QED
    BY <1>7, <2>1 DEF Send, ViaOK
<1>8. ASSUME NEW n \in Nodes, NEW f \in Files, NEW a \in Addr, Foreign(n, f, a) PROVE ViaOK'
  <2>1. OwnTic(n, f, a, {}).via = {}
    BY DEF OwnTic
  <2> QED
    BY <1>8, <2>1 DEF Foreign, ViaOK
<1>9. ASSUME NEW tic \in copies, Lose(tic) PROVE ViaOK'
  BY <1>9 DEF Lose, TypeOK, ViaOK
<1>10. CASE UNCHANGED vars
  BY <1>10 DEF vars, ViaOK
<1> QED
  BY <1>1, <1>2, <1>3, <1>4, <1>5, <1>6, <1>7, <1>8, <1>9, <1>10
  DEF Next, NodeStep, OutsideStep

(* No copy is handed to an address it has passed through, in any network   *)
(* and under all faults: the length of a copy's way is bounded by the      *)
(* number of addresses, and flooding ends.                                 *)
THEOREM NeverReturns == Spec => []NoReturn
<1>1. Init => ViaOK
  BY DEF Init, ViaOK
<1>2. ViaOK => NoReturn
  BY DEF ViaOK, NoReturn
<1> QED
  BY <1>1, <1>2, NextVia, TypeCorrect, PTL DEF Spec

(* What has come to a node has come for good. *)
LEMMA CameGrows ==
  ASSUME TypeOK, [Next]_vars, NEW m \in Nodes PROVE came[m] \subseteq came'[m]
<1>1. ASSUME NEW n \in Nodes, NEW f \in Files, Hatch(n, f) PROVE came[m] \subseteq came'[m]
  BY <1>1 DEF Hatch, TypeOK
<1>2. ASSUME NEW n \in Nodes, NEW tic \in copies, Toss(n, tic) PROVE came[m] \subseteq came'[m]
  BY <1>2 DEF Toss, TypeOK
<1>3. ASSUME NEW n \in Nodes, NEW tic \in copies, Refuse(n, tic) PROVE came[m] \subseteq came'[m]
  BY <1>3 DEF Refuse, TypeOK
<1>4. ASSUME NEW n \in Nodes, NEW a \in Addr, Forward(n, a) PROVE came[m] \subseteq came'[m]
  BY <1>4 DEF Forward, TypeOK
<1>5. ASSUME NEW n \in Nodes, Finish(n) PROVE came[m] \subseteq came'[m]
  BY <1>5 DEF Finish, TypeOK
<1>6. ASSUME NEW n \in Nodes, Crash(n) PROVE came[m] \subseteq came'[m]
  BY <1>6 DEF Crash, TypeOK
<1>7. ASSUME NEW n \in Nodes, NEW f \in Files, NEW a \in Addr, Send(n, f, a) PROVE came[m] \subseteq came'[m]
  BY <1>7 DEF Send, TypeOK
<1>8. ASSUME NEW n \in Nodes, NEW f \in Files, NEW a \in Addr, Foreign(n, f, a) PROVE came[m] \subseteq came'[m]
  BY <1>8 DEF Foreign, TypeOK
<1>9. ASSUME NEW tic \in copies, Lose(tic) PROVE came[m] \subseteq came'[m]
  BY <1>9 DEF Lose, TypeOK
<1>10. CASE UNCHANGED vars
  BY <1>10 DEF vars
<1> QED
  BY <1>1, <1>2, <1>3, <1>4, <1>5, <1>6, <1>7, <1>8, <1>9, <1>10
  DEF Next, NodeStep, OutsideStep

(* A copy that nobody loses stays under way or is looked at. *)
LEMMA CopyStays ==
  ASSUME Faults \cap {"crash", "lose"} = {}, TypeOK, [Next]_vars, NEW c \in copies
  PROVE  c \in copies' \/ c.file \in came'[Owner[c.to]]
<1>1. ASSUME NEW n \in Nodes, NEW f \in Files, Hatch(n, f) PROVE c \in copies' \/ c.file \in came'[Owner[c.to]]
  BY <1>1 DEF Hatch
<1>2. ASSUME NEW n \in Nodes, NEW tic \in copies, Toss(n, tic) PROVE c \in copies' \/ c.file \in came'[Owner[c.to]]
  <2>1. CASE c = tic
    BY <1>2, <2>1 DEF Toss, TypeOK
  <2>2. CASE c # tic
    BY <1>2, <2>2 DEF Toss
  <2> QED
    BY <2>1, <2>2
<1>3. ASSUME NEW n \in Nodes, NEW tic \in copies, Refuse(n, tic) PROVE c \in copies' \/ c.file \in came'[Owner[c.to]]
  <2>1. CASE c = tic
    BY <1>3, <2>1 DEF Refuse, TypeOK
  <2>2. CASE c # tic
    BY <1>3, <2>2 DEF Refuse
  <2> QED
    BY <2>1, <2>2
<1>4. ASSUME NEW n \in Nodes, NEW a \in Addr, Forward(n, a) PROVE c \in copies' \/ c.file \in came'[Owner[c.to]]
  BY <1>4 DEF Forward
<1>5. ASSUME NEW n \in Nodes, Finish(n) PROVE c \in copies' \/ c.file \in came'[Owner[c.to]]
  BY <1>5 DEF Finish
<1>6. ASSUME NEW n \in Nodes, Crash(n) PROVE c \in copies' \/ c.file \in came'[Owner[c.to]]
  BY <1>6 DEF Crash
<1>7. ASSUME NEW n \in Nodes, NEW f \in Files, NEW a \in Addr, Send(n, f, a) PROVE c \in copies' \/ c.file \in came'[Owner[c.to]]
  BY <1>7 DEF Send
<1>8. ASSUME NEW n \in Nodes, NEW f \in Files, NEW a \in Addr, Foreign(n, f, a) PROVE c \in copies' \/ c.file \in came'[Owner[c.to]]
  BY <1>8 DEF Foreign
<1>9. ASSUME NEW tic \in copies, Lose(tic) PROVE c \in copies' \/ c.file \in came'[Owner[c.to]]
  BY <1>9 DEF Lose
<1>10. CASE UNCHANGED vars
  BY <1>10 DEF vars
<1> QED
  BY <1>1, <1>2, <1>3, <1>4, <1>5, <1>6, <1>7, <1>8, <1>9, <1>10
  DEF Next, NodeStep, OutsideStep

(* A downlink that a run still has to serve: it stays so until a copy for  *)
(* it is queued.                                                           *)
LEMMA TodoStays ==
  ASSUME Faults \cap {"crash", "lose"} = {}, TypeOK, [Next]_vars,
         NEW k \in Nodes, job[k] # NoJob, NEW b \in job[k].todo
  PROVE  \/ job'[k] # NoJob /\ job'[k].tic = job[k].tic /\ b \in job'[k].todo
         \/ \E t \in copies' : t.file = job[k].tic.file /\ t.to = b
<1> DEFINE Goal ==
      \/ job'[k] # NoJob /\ job'[k].tic = job[k].tic /\ b \in job'[k].todo
      \/ \E t \in copies' : t.file = job[k].tic.file /\ t.to = b
<1>1. ASSUME NEW n \in Nodes, NEW f \in Files, Hatch(n, f) PROVE Goal
  <2>1. k # n
    BY <1>1 DEF Hatch
  <2>2. job'[k] = job[k]
    BY <1>1, <2>1 DEF Hatch, TypeOK
  <2> QED
    BY <2>2
<1>2. ASSUME NEW n \in Nodes, NEW tic \in copies, Toss(n, tic) PROVE Goal
  <2>1. k # n
    BY <1>2 DEF Toss
  <2>2. job'[k] = job[k]
    BY <1>2, <2>1 DEF Toss, TypeOK
  <2> QED
    BY <2>2
<1>3. ASSUME NEW n \in Nodes, NEW tic \in copies, Refuse(n, tic) PROVE Goal
  BY <1>3 DEF Refuse
<1>4. ASSUME NEW n \in Nodes, NEW a \in Addr, Forward(n, a) PROVE Goal
  <2>1. CASE k # n
    <3>1. job'[k] = job[k]
      BY <1>4, <2>1 DEF Forward, TypeOK
    <3> QED
      BY <3>1
  <2>2. CASE k = n /\ b = a
    <3>1. ForwardTic(n, job[n], a) \in copies'
      BY <1>4 DEF Forward
    <3>2. /\ ForwardTic(n, job[n], a).file = job[k].tic.file
          /\ ForwardTic(n, job[n], a).to = b
      BY <2>2 DEF ForwardTic
    <3> QED
      BY <3>1, <3>2
  <2>3. CASE k = n /\ b # a
    <3>1. job[n] \in Job /\ job'[k] = Served(job[n], a)
      BY <1>4, <2>3 DEF Forward, TypeOK
    <3>2. Served(job[n], a) # NoJob
      BY <3>1, TypesBuilt, NoJobAssumption
    <3>3. Served(job[n], a).tic = job[n].tic /\ b \in Served(job[n], a).todo
      BY <2>3, <3>1 DEF Served, Job
    <3> QED
      BY <2>3, <3>1, <3>2, <3>3
  <2> QED
    BY <2>1, <2>2, <2>3
<1>5. ASSUME NEW n \in Nodes, Finish(n) PROVE Goal
  <2>1. k # n
    BY <1>5 DEF Finish
  <2>2. job'[k] = job[k]
    BY <1>5, <2>1 DEF Finish, TypeOK
  <2> QED
    BY <2>2
<1>6. ASSUME NEW n \in Nodes, Crash(n) PROVE Goal
  BY <1>6 DEF Crash
<1>7. ASSUME NEW n \in Nodes, NEW f \in Files, NEW a \in Addr, Send(n, f, a) PROVE Goal
  BY <1>7 DEF Send
<1>8. ASSUME NEW n \in Nodes, NEW f \in Files, NEW a \in Addr, Foreign(n, f, a) PROVE Goal
  BY <1>8 DEF Foreign
<1>9. ASSUME NEW tic \in copies, Lose(tic) PROVE Goal
  BY <1>9 DEF Lose
<1>10. CASE UNCHANGED vars
  BY <1>10 DEF vars
<1> QED
  BY <1>1, <1>2, <1>3, <1>4, <1>5, <1>6, <1>7, <1>8, <1>9, <1>10
  DEF Next, NodeStep, OutsideStep

(* Where no run is killed and no copy is lost, what has reached a system   *)
(* or is on its way to it remains so.                                      *)
LEMMA StaysReached ==
  ASSUME Faults \cap {"crash", "lose"} = {}, TypeOK, [Next]_vars,
         NEW b \in Addr, NEW g \in Files, Reached(b, g)
  PROVE  Reached(b, g)'
<1>0. Owner[b] \in Nodes
  BY FileEchoAssumption
<1>1. CASE g \in came[Owner[b]]
  BY <1>0, <1>1, CameGrows DEF Reached
<1>2. CASE \E tic \in copies : tic.file = g /\ Owner[tic.to] = Owner[b]
  BY <1>2, CopyStays DEF Reached, Coming
<1>3. CASE \E k \in Nodes : /\ job[k] # NoJob /\ job[k].tic.file = g
                           /\ \E c \in job[k].todo : Owner[c] = Owner[b]
  <2>1. PICK k \in Nodes : /\ job[k] # NoJob /\ job[k].tic.file = g
                          /\ \E c \in job[k].todo : Owner[c] = Owner[b]
    BY <1>3
  <2>2. PICK c \in job[k].todo : Owner[c] = Owner[b]
    BY <2>1
  <2>3. \/ job'[k] # NoJob /\ job'[k].tic = job[k].tic /\ c \in job'[k].todo
        \/ \E t \in copies' : t.file = job[k].tic.file /\ t.to = c
    BY <2>1, TodoStays
  <2> QED
    BY <2>1, <2>2, <2>3 DEF Reached, Coming
<1> QED
  BY <1>1, <1>2, <1>3 DEF Reached, Coming

(* Whoever sent or hatched a copy has had the file itself. *)
Known(tic) ==
  /\ tic.file \in came[Owner[tic.from]]
  /\ tic.file \in came[Owner[tic.origin]]
  /\ \A b \in tic.seenby : Reached(b, tic.file)

KnownJob(n, j) ==
  /\ j.tic.file \in came[n] /\ j.tic.file \in came[Owner[j.tic.origin]]
  /\ \A b \in j.seenby : Reached(b, j.tic.file)

KnownOK ==
  /\ \A n \in Nodes : have[n] \subseteq came[n]
  /\ \A tic \in copies : Known(tic)
  /\ \A n \in Nodes : job[n] # NoJob => KnownJob(n, job[n])

(* What was known stays known. *)
LEMMA KnownStays ==
  ASSUME Faults \cap {"crash", "lose"} = {}, TypeOK, [Next]_vars
  PROVE  /\ \A tic \in Ticket : Known(tic) => Known(tic)'
         /\ \A n \in Nodes, j \in Job : KnownJob(n, j) => KnownJob(n, j)'
<1>0. \A tic \in Ticket : /\ tic.file \in Files /\ tic.seenby \subseteq Addr
                        /\ Owner[tic.from] \in Nodes /\ Owner[tic.origin] \in Nodes
  BY FileEchoAssumption DEF Ticket
<1>1. ASSUME NEW tic \in Ticket, Known(tic) PROVE Known(tic)'
  <2>1. /\ tic.file \in Files /\ tic.seenby \subseteq Addr
        /\ Owner[tic.from] \in Nodes /\ Owner[tic.origin] \in Nodes
    BY <1>0
  <2> QED
    BY <1>1, <2>1, CameGrows, StaysReached DEF Known
<1>2. ASSUME NEW n \in Nodes, NEW j \in Job, KnownJob(n, j) PROVE KnownJob(n, j)'
  <2>0. j.tic \in Ticket /\ j.seenby \subseteq Addr
    BY DEF Job
  <2>1. /\ j.tic.file \in Files /\ j.seenby \subseteq Addr
        /\ Owner[j.tic.origin] \in Nodes
    BY <1>0, <2>0
  <2> QED
    BY <1>2, <2>1, CameGrows, StaysReached DEF KnownJob
<1> QED
  BY <1>1, <1>2

LEMMA NextKnown ==
  ASSUME Faults \cap {"crash", "lose"} = {}, TypeOK, KnownOK, [Next]_vars
  PROVE  KnownOK'
<1>0. /\ \A tic \in copies : Known(tic)'
      /\ \A n \in Nodes, j \in Job : job[n] = j /\ j # NoJob => KnownJob(n, j)'
  <2>1. \A tic \in copies : tic \in Ticket /\ Known(tic)
    BY DEF TypeOK, KnownOK
  <2>2. \A n \in Nodes, j \in Job : job[n] = j /\ j # NoJob => KnownJob(n, j)
    BY DEF KnownOK
  <2> QED
    BY <2>1, <2>2, KnownStays
<1>b. ASSUME NEW k \in Nodes, job'[k] = job[k], job[k] # NoJob
      PROVE  KnownJob(k, job[k])'
  <2>1. PICK j \in Job : j = job[k] /\ j # NoJob
    BY <1>b DEF TypeOK
  <2>2. KnownJob(k, j)'
    BY <1>0, <2>1
  <2> QED
    BY <1>b, <2>1, <2>2 DEF KnownJob
<1>a. \A m \in Nodes : came[m] \subseteq came'[m]
  BY CameGrows
<1>1. ASSUME NEW n \in Nodes, NEW f \in Files, Hatch(n, f) PROVE KnownOK'
  <2> DEFINE j == HatchJob(n, f)
  <2>1. /\ j.tic.file = f /\ Owner[j.tic.origin] = n
        /\ j.todo = Export[n] \ {UseAka[n]} /\ j.seenby = Export[n] \cup {UseAka[n]}
        /\ Owner[UseAka[n]] = n /\ Export[n] \subseteq Addr /\ UseAka[n] \in Addr
    BY FileEchoAssumption DEF HatchJob, HatchTic, HatchLinks, NewSeenby, Listing
  <2>2. f \in came'[n] /\ job'[n] = j /\ j # NoJob
    BY <1>1, TypesBuilt, NoJobAssumption DEF Hatch, TypeOK
  <2>3. ASSUME NEW b \in j.seenby PROVE Reached(b, f)'
    <3>1. CASE b = UseAka[n]
      BY <2>1, <2>2, <3>1 DEF Reached
    <3>2. CASE b # UseAka[n]
      BY <2>1, <2>2, <3>2 DEF Reached, Coming
    <3> QED
      BY <3>1, <3>2
  <2>4. KnownJob(n, j)'
    BY <2>1, <2>2, <2>3 DEF KnownJob
  <2>5. \A k \in Nodes \ {n} : job'[k] = job[k]
    BY <1>1 DEF Hatch, TypeOK
  <2>6. \A k \in Nodes : job'[k] # NoJob => KnownJob(k, job[k])'
    <3>1. ASSUME NEW k \in Nodes \ {n}, job'[k] # NoJob PROVE KnownJob(k, job[k])'
      BY <1>b, <3>1, <2>5
    <3>2. job'[n] # NoJob => KnownJob(n, job[n])'
      BY <2>2, <2>4 DEF KnownJob
    <3> QED
      BY <3>1, <3>2
  <2>7. \A k \in Nodes : have'[k] \subseteq came'[k]
    BY <1>1 DEF Hatch, TypeOK, KnownOK
  <2> QED
    BY <1>1, <1>0, <2>6, <2>7 DEF Hatch, KnownOK
<1>2. ASSUME NEW n \in Nodes, NEW tic \in copies, Toss(n, tic) PROVE KnownOK'
  <2> DEFINE j == TossJob(n, tic)
               g == tic.file
  <2>1. /\ tic \in Ticket /\ g \in Files /\ tic.seenby \subseteq Addr
        /\ Owner[tic.from] \in Nodes /\ Owner[tic.origin] \in Nodes /\ Owner[tic.to] = n
        /\ Export[n] \subseteq Addr /\ Owner[UseAka[n]] = n
    BY <1>2, FileEchoAssumption DEF Toss, TypeOK, Ticket
  <2>2. /\ j.tic = tic /\ j.todo = TossLinks(n, tic)
        /\ j.seenby = NewSeenby(n, tic.seenby, tic.to)
    BY DEF TossJob
  <2>3. g \in came'[n] /\ job'[n] = j /\ j # NoJob
    BY <1>2, <2>1, TypesBuilt, NoJobAssumption DEF Toss, TypeOK
  <2>4. Known(tic)'
    BY <1>0
  <2>5. /\ g \in came'[Owner[tic.from]] /\ g \in came'[Owner[tic.origin]]
        /\ \A b \in tic.seenby : Reached(b, g)'
    BY <2>4 DEF Known
  <2>6. ASSUME NEW b \in j.seenby PROVE Reached(b, g)'
    <3>1. CASE b \in {tic.from, tic.to, tic.origin, UseAka[n]}
      BY <2>1, <2>3, <2>5, <3>1 DEF Reached
    <3>2. CASE b \in tic.seenby
      BY <2>5, <3>2
    <3>3. CASE b \in TossLinks(n, tic)
      BY <2>2, <2>3, <3>3 DEF Reached, Coming
    <3>4. b \in {tic.from, tic.to, tic.origin, UseAka[n]}
               \cup tic.seenby \cup TossLinks(n, tic)
      BY <2>2 DEF NewSeenby, Listing, TossLinks
    <3> QED
      BY <3>1, <3>2, <3>3, <3>4
  <2>7. KnownJob(n, j)'
    BY <2>2, <2>3, <2>5, <2>6 DEF KnownJob
  <2>8. \A k \in Nodes \ {n} : job'[k] = job[k]
    BY <1>2 DEF Toss, TypeOK
  <2>9. \A k \in Nodes : job'[k] # NoJob => KnownJob(k, job[k])'
    <3>1. ASSUME NEW k \in Nodes \ {n}, job'[k] # NoJob PROVE KnownJob(k, job[k])'
      BY <1>b, <3>1, <2>8
    <3>2. job'[n] # NoJob => KnownJob(n, job[n])'
      BY <2>3, <2>7 DEF KnownJob
    <3> QED
      BY <3>1, <3>2
  <2>10. \A k \in Nodes : have'[k] \subseteq came'[k]
    BY <1>2 DEF Toss, TypeOK, KnownOK
  <2>11. copies' \subseteq copies
    BY <1>2 DEF Toss
  <2> QED
    BY <1>0, <2>9, <2>10, <2>11 DEF KnownOK
<1>3. ASSUME NEW n \in Nodes, NEW tic \in copies, Refuse(n, tic) PROVE KnownOK'
  <2>1. \A k \in Nodes : have'[k] \subseteq came'[k]
    BY <1>3, <1>a DEF Refuse, KnownOK
  <2> QED
    BY <1>3, <1>0, <1>b, <2>1 DEF Refuse, KnownOK
<1>4. ASSUME NEW n \in Nodes, NEW a \in Addr, Forward(n, a) PROVE KnownOK'
  <2>1. PICK j \in Job : j = job[n] /\ j # NoJob /\ a \in j.todo
    BY <1>4 DEF Forward, TypeOK
  <2> DEFINE t == ForwardTic(n, j, a)
  <2>2. KnownJob(n, j)'
    BY <1>0, <2>1
  <2>3. /\ t.file = j.tic.file /\ t.origin = j.tic.origin /\ t.seenby = j.seenby
        /\ Owner[t.from] = n
    BY FileEchoAssumption DEF ForwardTic
  <2>4. Known(t)'
    BY <2>2, <2>3 DEF Known, KnownJob
  <2>5. copies' = copies \cup {t}
    BY <1>4, <2>1 DEF Forward
  <2>6. /\ Served(j, a).tic = j.tic /\ Served(j, a).seenby = j.seenby
        /\ job'[n] = Served(j, a)
    BY <1>4, <2>1 DEF Forward, Served, Job, TypeOK
  <2>7. KnownJob(n, job[n])'
    BY <2>2, <2>6 DEF KnownJob
  <2>8. \A k \in Nodes \ {n} : job'[k] = job[k]
    BY <1>4 DEF Forward, TypeOK
  <2>9. \A k \in Nodes : job'[k] # NoJob => KnownJob(k, job[k])'
    <3>1. ASSUME NEW k \in Nodes \ {n}, job'[k] # NoJob PROVE KnownJob(k, job[k])'
      BY <1>b, <3>1, <2>8
    <3>2. job'[n] # NoJob => KnownJob(n, job[n])'
      BY <2>7 DEF KnownJob
    <3> QED
      BY <3>1, <3>2
  <2>10. \A k \in Nodes : have'[k] \subseteq came'[k]
    BY <1>4 DEF Forward, KnownOK
  <2> QED
    BY <1>0, <2>4, <2>5, <2>9, <2>10 DEF KnownOK
<1>5. ASSUME NEW n \in Nodes, Finish(n) PROVE KnownOK'
  <2>1. \A k \in Nodes : job'[k] # NoJob => job'[k] = job[k]
    BY <1>5 DEF Finish, TypeOK
  <2>2. ASSUME NEW k \in Nodes, job'[k] # NoJob PROVE KnownJob(k, job[k])'
    BY <1>b, <2>1, <2>2
  <2> QED
    BY <1>5, <1>0, <2>2 DEF Finish, KnownOK
<1>6. ASSUME NEW n \in Nodes, Crash(n) PROVE KnownOK'
  BY <1>6 DEF Crash
<1>7. ASSUME NEW n \in Nodes, NEW f \in Files, NEW a \in Addr, Send(n, f, a) PROVE KnownOK'
  <2> DEFINE t == OwnTic(n, f, a, {a})
  <2>1. f \in came'[n]
    BY <1>7 DEF Send, TypeOK, KnownOK
  <2>2. /\ t.file = f /\ t.to = a /\ t.seenby \subseteq {a}
        /\ Owner[t.from] = n /\ Owner[t.origin] = n
    BY FileEchoAssumption DEF OwnTic
  <2>3. copies' = copies \cup {t}
    BY <1>7 DEF Send
  <2>4. Known(t)'
    BY <2>1, <2>2, <2>3 DEF Known, Reached, Coming
  <2>5. \A k \in Nodes : have'[k] \subseteq came'[k]
    BY <1>7 DEF Send, TypeOK, KnownOK
  <2> QED
    BY <1>7, <1>0, <1>b, <2>3, <2>4, <2>5 DEF Send, KnownOK
<1>8. ASSUME NEW n \in Nodes, NEW f \in Files, NEW a \in Addr, Foreign(n, f, a) PROVE KnownOK'
  <2> DEFINE t == OwnTic(n, f, a, {})
  <2>1. f \in came'[n]
    BY <1>8 DEF Foreign, TypeOK, KnownOK
  <2>2. /\ t.file = f /\ t.to = a /\ t.seenby \subseteq {a}
        /\ Owner[t.from] = n /\ Owner[t.origin] = n
    BY FileEchoAssumption DEF OwnTic
  <2>3. copies' = copies \cup {t}
    BY <1>8 DEF Foreign
  <2>4. Known(t)'
    BY <2>1, <2>2, <2>3 DEF Known, Reached, Coming
  <2>5. \A k \in Nodes : have'[k] \subseteq came'[k]
    BY <1>8 DEF Foreign, TypeOK, KnownOK
  <2> QED
    BY <1>8, <1>0, <1>b, <2>3, <2>4, <2>5 DEF Foreign, KnownOK
<1>9. ASSUME NEW tic \in copies, Lose(tic) PROVE KnownOK'
  BY <1>9 DEF Lose
<1>10. CASE UNCHANGED vars
  BY <1>10 DEF vars, KnownOK, Known, KnownJob, Reached, Coming
<1> QED
  BY <1>1, <1>2, <1>3, <1>4, <1>5, <1>6, <1>7, <1>8, <1>9, <1>10
  DEF Next, NodeStep, OutsideStep

(* Seen-by lists tell the truth in every network of tickers whose runs are *)
(* not killed in the middle and whose mail is not lost, whatever addresses *)
(* a node uses, whatever links may read and write, and although copies are *)
(* repeated, sent by hand or come from tickers without seen-by lists.      *)
THEOREM SeenByTrue ==
  ASSUME Faults \cap {"crash", "lose"} = {}
  PROVE  Spec => []SeenByTruthful
<1>1. Init => KnownOK
  BY DEF Init, KnownOK
<1>2. TypeOK /\ KnownOK /\ [Next]_vars => KnownOK'
  BY NextKnown
<1>3. KnownOK => SeenByTruthful
  BY DEF KnownOK, Known, KnownJob, SeenByTruthful
<1> QED
  BY <1>1, <1>2, <1>3, TypeCorrect, PTL DEF Spec

-----------------------------------------------------------------------------
(* A network of trees and meshes.  A file spreads from the node that has   *)
(* hatched it, its root: a node is sent the file by the node above it      *)
(* only, which has had it before.                                          *)

UpOf(r) == CHOOSE up \in [Nodes -> Nodes] : Towards(r, up)

(* A copy has come down from the node above, whose links it lists. *)
CopyDown(tic, r) ==
  LET c == Owner[tic.to]
      p == UpOf(r)[c]
  IN  /\ c # r /\ tic.to \in Export[p] /\ tic.from = OurAka[p][tic.to]
      /\ Export[p] \subseteq tic.seenby /\ tic.seenby # {}
      /\ tic.file \in came[p] /\ tic.file \notin came[c]

(* A link that is still to be served is below, and has nothing yet. *)
LinkBelow(n, a, r, f) ==
  LET c == Owner[a]
  IN  /\ a \in Export[n] /\ c # r /\ UpOf(r)[c] = n /\ f \notin came[c]
      /\ \A tic \in copies : ~(tic.file = f /\ Owner[tic.to] = c)

JobDown(n, j, r) ==
  /\ j.tic.file \in came[n] /\ Export[n] \subseteq j.seenby /\ j.seenby # {}
  /\ \A a \in j.todo : LinkBelow(n, a, r, j.tic.file)

(* The inductive invariant, for the roots of the files hatched so far:     *)
FileDown(f, r) ==
  /\ f \in came[r]
  /\ \A c \in Nodes : f \in came[c] /\ c # r => f \in came[UpOf(r)[c]]

OneCopy(tic) ==
  \A other \in copies :
    other.file = tic.file /\ Owner[other.to] = Owner[tic.to] => other = tic

SpreadFrom(root) ==
  /\ root \in [hatched -> Hatchers]
  /\ \A n \in Nodes : came[n] \subseteq hatched
  /\ \A f \in hatched : FileDown(f, root[f])
  /\ \A tic \in copies :
       tic.file \in hatched /\ CopyDown(tic, root[tic.file]) /\ OneCopy(tic)
  /\ \A n \in Nodes : job[n] # NoJob =>
       job[n].tic.file \in hatched /\ JobDown(n, job[n], root[job[n].tic.file])

Spread == \E root : SpreadFrom(root)

LEMMA UpChosen ==
  ASSUME Clustered, NEW r \in Hatchers
  PROVE  UpOf(r) \in [Nodes -> Nodes] /\ Towards(r, UpOf(r))
BY DEF Clustered, UpOf

(* A link that neither sent the file nor has been listed with it is below. *)
LEMMA LinksBelow ==
  ASSUME Clustered, NEW r \in Hatchers, NEW n \in Nodes, NEW a \in Export[n],
         n = r \/ /\ Owner[a] # UpOf(r)[n]
                  /\ a \notin Export[UpOf(r)[n]]
  PROVE  Owner[a] \in Nodes /\ Owner[a] # r /\ UpOf(r)[Owner[a]] = n /\ Owner[a] # n
<1>1. Towards(r, UpOf(r))
  BY UpChosen
<1>2. Owner[a] \in Nodes /\ Owner[a] # n
  BY FileEchoAssumption
<1> QED
  BY <1>1, <1>2 DEF Towards

LEMMA SpreadHatch ==
  ASSUME Clustered, TypeOK, NEW root, SpreadFrom(root), NEW n \in Nodes, NEW f \in Files,
         Hatch(n, f)
  PROVE  Spread'
<1>0. PICK new : new = [g \in hatched \cup {f} |-> IF g = f THEN n ELSE root[g]]
  OBVIOUS
<1>1. /\ n \in Hatchers /\ f \notin hatched /\ copies' = copies
      /\ hatched' = hatched \cup {f}
      /\ came' = [came EXCEPT ![n] = @ \cup {f}]
      /\ job' = [job EXCEPT ![n] = HatchJob(n, f)]
  BY DEF Hatch
<1>2. \A m \in Nodes : came'[m] = IF m = n THEN came[m] \cup {f} ELSE came[m]
  BY <1>1 DEF TypeOK
<1>3. \A m \in Nodes : job'[m] = IF m = n THEN HatchJob(n, f) ELSE job[m]
  BY <1>1 DEF TypeOK
<1>4. /\ new \in [hatched' -> Hatchers] /\ new[f] = n
      /\ \A g \in hatched : new[g] = root[g] /\ g # f /\ g \in hatched'
  BY <1>0, <1>1 DEF SpreadFrom
<1>5. \A m \in Nodes, g \in hatched : g \in came'[m] <=> g \in came[m]
  BY <1>1, <1>2
<1>6. \A m \in Nodes : f \in came'[m] <=> m = n
  BY <1>1, <1>2 DEF SpreadFrom
<1>7. \A r \in Hatchers : UpOf(r) \in [Nodes -> Nodes]
  BY UpChosen
<1>8. \A m \in Nodes : came'[m] \subseteq hatched'
  BY <1>1, <1>2 DEF SpreadFrom
<1>9. \A g \in hatched' : FileDown(g, new[g])'
  <2>1. ASSUME NEW g \in hatched PROVE FileDown(g, new[g])'
    <3>1. FileDown(g, root[g]) /\ root[g] \in Hatchers /\ root[g] \in Nodes
      BY FileEchoAssumption DEF SpreadFrom
    <3>2. \A c \in Nodes : UpOf(root[g])[c] \in Nodes
      BY <1>7, <3>1
    <3> QED
      BY <1>4, <1>5, <3>1, <3>2 DEF FileDown
  <2>2. FileDown(f, new[f])'
    BY <1>4, <1>6 DEF FileDown
  <2> QED
    BY <1>1, <2>1, <2>2
<1>10. ASSUME NEW tic \in copies'
       PROVE  tic.file \in hatched' /\ CopyDown(tic, new[tic.file])' /\ OneCopy(tic)'
  <2>1. /\ tic \in copies /\ tic.file \in hatched /\ CopyDown(tic, root[tic.file])
        /\ OneCopy(tic) /\ root[tic.file] \in Hatchers
    BY <1>1, <1>10 DEF SpreadFrom
  <2>2. Owner[tic.to] \in Nodes /\ UpOf(root[tic.file])[Owner[tic.to]] \in Nodes
    <3>1. tic.to \in Addr
      BY <2>1 DEF TypeOK, Ticket
    <3>2. Owner[tic.to] \in Nodes
      BY <3>1, FileEchoAssumption
    <3> QED
      BY <1>7, <2>1, <3>2
  <2> QED
    BY <1>1, <1>4, <1>5, <2>1, <2>2 DEF CopyDown, OneCopy
<1>11. ASSUME NEW m \in Nodes, job'[m] # NoJob
       PROVE  job'[m].tic.file \in hatched' /\ JobDown(m, job[m], new[job[m].tic.file])'
  <2>1. CASE m = n
    <3> DEFINE j == HatchJob(n, f)
    <3>1. /\ job'[m] = j /\ j.tic.file = f /\ j.todo \subseteq Export[n]
          /\ Export[n] \subseteq j.seenby /\ j.seenby # {}
      BY <1>3, <2>1 DEF HatchJob, HatchTic, HatchLinks, NewSeenby, Listing
    <3> HIDE DEF j
    <3>2. ASSUME NEW a \in j.todo PROVE LinkBelow(n, a, n, f)'
      <4>1. a \in Export[n] /\ Owner[a] \in Nodes /\ Owner[a] # n /\ UpOf(n)[Owner[a]] = n
        BY <1>1, <3>1, LinksBelow
      <4>2. \A tic \in copies' : tic.file # f
        BY <1>1 DEF SpreadFrom
      <4> QED
        BY <1>6, <4>1, <4>2 DEF LinkBelow
    <3> QED
      BY <1>1, <1>4, <1>6, <2>1, <3>1, <3>2 DEF JobDown
  <2>2. CASE m # n
    <3>0. PICK g : g = job[m].tic.file
      OBVIOUS
    <3>1. /\ job'[m] = job[m] /\ job[m] # NoJob /\ g \in hatched
          /\ JobDown(m, job[m], root[g])
      BY <1>3, <1>11, <2>2, <3>0 DEF SpreadFrom
    <3>2. job[m] \in Job
      BY <3>1 DEF TypeOK
    <3>3. \A a \in job[m].todo : Owner[a] \in Nodes
      BY <3>2, FileEchoAssumption DEF Job
    <3>4. \A a \in job[m].todo : LinkBelow(m, a, root[g], g)'
      BY <1>1, <1>5, <3>0, <3>1, <3>3 DEF JobDown, LinkBelow
    <3> QED
      BY <1>4, <1>5, <3>0, <3>1, <3>4 DEF JobDown
  <2> QED
    BY <2>1, <2>2
<1>12. SpreadFrom(new)'
  BY <1>4, <1>8, <1>9, <1>10, <1>11 DEF SpreadFrom
<1> QED
  BY <1>12 DEF Spread

LEMMA SpreadLess ==
  ASSUME NEW root, SpreadFrom(root),
         UNCHANGED <<hatched, came>>, copies' \subseteq copies,
         \A m \in Nodes : job'[m] \in {job[m], NoJob}
  PROVE  Spread'
<1>1. \A n \in Nodes : (came[n] \subseteq hatched)'
  BY DEF SpreadFrom
<1>2. \A f \in hatched' : FileDown(f, root[f])'
  BY DEF SpreadFrom, FileDown
<1>3. ASSUME NEW tic \in copies'
      PROVE  tic.file \in hatched' /\ CopyDown(tic, root[tic.file])' /\ OneCopy(tic)'
  BY DEF SpreadFrom, CopyDown, OneCopy
<1>4. ASSUME NEW m \in Nodes, job'[m] # NoJob
      PROVE  job'[m].tic.file \in hatched' /\ JobDown(m, job[m], root[job[m].tic.file])'
  <2>0. PICK g : g = job[m].tic.file
    OBVIOUS
  <2>1. job'[m] = job[m] /\ job[m] # NoJob
    BY <1>4
  <2>2. g \in hatched /\ JobDown(m, job[m], root[g])
    BY <2>0, <2>1 DEF SpreadFrom
  <2>3. \A a \in job[m].todo : LinkBelow(m, a, root[g], g)'
    BY <2>0, <2>2 DEF JobDown, LinkBelow
  <2> QED
    BY <2>0, <2>1, <2>2, <2>3 DEF JobDown
<1>5. SpreadFrom(root)'
  BY <1>1, <1>2, <1>3, <1>4 DEF SpreadFrom
<1> QED
  BY <1>5 DEF Spread

(* A copy that has arrived is gone, whether it was refused or is handed on *)
(* to the links below.                                                     *)
LEMMA SpreadArrive ==
  ASSUME Clustered, TypeOK, NEW root, SpreadFrom(root), NEW n \in Nodes,
         NEW tic \in copies, Owner[tic.to] = n, copies' = copies \ {tic},
         came' = [came EXCEPT ![n] = @ \cup {tic.file}], hatched' = hatched,
         \A m \in Nodes : \/ job'[m] = job[m]
                          \/ m = n /\ job'[m] = TossJob(n, tic)
  PROVE  Spread'
<1>0. PICK f, r, p : f = tic.file /\ r = root[f] /\ p = UpOf(r)[n]
  OBVIOUS
<1>1. /\ f \in hatched /\ r \in Hatchers /\ CopyDown(tic, r) /\ OneCopy(tic)
      /\ FileDown(f, r) /\ tic \in Ticket
  BY <1>0 DEF SpreadFrom, TypeOK
<1>2. \A h \in Hatchers : UpOf(h) \in [Nodes -> Nodes] /\ h \in Nodes
  BY UpChosen, FileEchoAssumption
<1>3. /\ n # r /\ tic.to \in Export[p] /\ tic.from = OurAka[p][tic.to]
      /\ Export[p] \subseteq tic.seenby /\ tic.seenby # {}
      /\ f \in came[p] /\ f \notin came[n] /\ p \in Nodes
  BY <1>0, <1>1, <1>2 DEF CopyDown
<1>4. \A m \in Nodes : came'[m] = IF m = n THEN came[m] \cup {f} ELSE came[m]
  BY <1>0 DEF TypeOK
<1>5. \A m \in Nodes : came[m] \subseteq came'[m]
  BY <1>4
<1>6. \A m \in Nodes, g \in hatched : g # f \/ m # n => (g \in came'[m] <=> g \in came[m])
  <2> SUFFICES ASSUME NEW m \in Nodes, NEW g, g # f \/ m # n
               PROVE  g \in came'[m] <=> g \in came[m]
    OBVIOUS
  <2>1. CASE m = n
    <3>1. came'[m] = came[m] \cup {f}
      BY <1>4, <2>1
    <3>2. g # f
      BY <2>1
    <3> QED
      BY <3>1, <3>2
  <2>2. CASE m # n
    BY <1>4, <2>2
  <2> QED
    BY <2>1, <2>2
<1>7. \A m \in Nodes : (came[m] \subseteq hatched)'
  BY <1>1, <1>4 DEF SpreadFrom
<1>8. ASSUME NEW g \in hatched' PROVE FileDown(g, root[g])'
  <2>1. FileDown(g, root[g]) /\ root[g] \in Hatchers
    BY DEF SpreadFrom
  <2>2. \A c \in Nodes : UpOf(root[g])[c] \in Nodes
    BY <1>2, <2>1
  <2>3. ASSUME NEW c \in Nodes, g \in came'[c], c # root[g]
        PROVE  g \in came'[UpOf(root[g])[c]]
    <3>1. CASE g = f /\ c = n
      BY <1>0, <1>3, <1>5, <3>1
    <3>2. CASE g # f \/ c # n
      BY <1>5, <1>6, <2>1, <2>2, <2>3, <3>2 DEF FileDown
    <3> QED
      BY <3>1, <3>2
  <2> QED
    BY <1>2, <1>5, <2>1, <2>3 DEF FileDown
<1>9. ASSUME NEW t \in copies'
      PROVE  t.file \in hatched' /\ CopyDown(t, root[t.file])' /\ OneCopy(t)'
  <2>1. /\ t \in copies /\ t # tic /\ t.file \in hatched /\ CopyDown(t, root[t.file])
        /\ OneCopy(t) /\ root[t.file] \in Hatchers
    BY DEF SpreadFrom
  <2>2. t.file # f \/ Owner[t.to] # n
    BY <1>0, <1>1, <2>1 DEF OneCopy
  <2>3. Owner[t.to] \in Nodes /\ UpOf(root[t.file])[Owner[t.to]] \in Nodes
    <3>1. t.to \in Addr
      BY <2>1 DEF TypeOK, Ticket
    <3>2. Owner[t.to] \in Nodes
      BY <3>1, FileEchoAssumption
    <3> QED
      BY <1>2, <2>1, <3>2
  <2>4. CopyDown(t, root[t.file])'
    BY <1>5, <1>6, <2>1, <2>2, <2>3 DEF CopyDown
  <2> QED
    BY <2>1, <2>4 DEF OneCopy
<1>10. ASSUME NEW m \in Nodes, job'[m] # NoJob
       PROVE  job'[m].tic.file \in hatched' /\ JobDown(m, job[m], root[job[m].tic.file])'
  <2>1. CASE job'[m] = job[m]
    <3>0. PICK g : g = job[m].tic.file
      OBVIOUS
    <3>1. job[m] # NoJob /\ g \in hatched /\ JobDown(m, job[m], root[g])
      BY <1>10, <2>1, <3>0 DEF SpreadFrom
    <3>2. ASSUME NEW a \in job[m].todo PROVE LinkBelow(m, a, root[g], g)'
      <4>1. LinkBelow(m, a, root[g], g)
        BY <3>0, <3>1 DEF JobDown
      <4>2. Owner[a] \in Nodes
        BY <4>1, FileEchoAssumption DEF LinkBelow
      <4>3. g # f \/ Owner[a] # n
        BY <1>0, <4>1 DEF LinkBelow
      <4> QED
        BY <1>6, <3>1, <4>1, <4>2, <4>3 DEF LinkBelow
    <3> QED
      BY <1>5, <2>1, <3>0, <3>1, <3>2 DEF JobDown
  <2>2. CASE m = n /\ job'[m] = TossJob(n, tic)
    <3>0. PICK j : j = TossJob(n, tic)
      OBVIOUS
    <3>1. /\ job'[m] = j /\ j.tic.file = f /\ j.todo = TossLinks(n, tic)
          /\ j.seenby = NewSeenby(n, tic.seenby, tic.to)
      BY <1>0, <2>2, <3>0 DEF TossJob
    <3>2. Export[n] \subseteq j.seenby /\ j.seenby # {}
      BY <1>3, <3>1 DEF NewSeenby, Listing
    <3>3. ASSUME NEW a \in j.todo PROVE LinkBelow(n, a, r, f)'
      <4>1. a \in Export[n] /\ a # tic.from /\ a \notin Export[p]
        BY <1>3, <3>1 DEF TossLinks
      <4>2. Owner[a] # p
        BY <1>3, <4>1 DEF Clustered
      <4>3. Owner[a] \in Nodes /\ Owner[a] # r /\ UpOf(r)[Owner[a]] = n /\ Owner[a] # n
        BY <1>0, <1>1, <4>1, <4>2, LinksBelow
      <4>4. f \notin came[Owner[a]]
        BY <1>1, <1>3, <4>3 DEF FileDown
      <4>5. ASSUME NEW t \in copies, t.file = f, Owner[t.to] = Owner[a] PROVE FALSE
        <5>1. CopyDown(t, r)
          BY <1>0, <4>5 DEF SpreadFrom
        <5> QED
          BY <1>3, <4>3, <4>5, <5>1 DEF CopyDown
      <4> QED
        BY <1>1, <1>6, <4>1, <4>3, <4>4, <4>5 DEF LinkBelow
    <3> QED
      BY <1>0, <1>1, <1>4, <2>2, <3>1, <3>2, <3>3 DEF JobDown
  <2> QED
    BY <2>1, <2>2
<1>11. SpreadFrom(root)'
  BY <1>7, <1>8, <1>9, <1>10 DEF SpreadFrom
<1> QED
  BY <1>11 DEF Spread

(* A copy for the next link below. *)
LEMMA SpreadForward ==
  ASSUME Clustered, TypeOK, NEW root, SpreadFrom(root), NEW n \in Nodes, NEW a \in Addr,
         Forward(n, a)
  PROVE  Spread'
<1>0. PICK j, f, r, tic : /\ j = job[n] /\ f = j.tic.file /\ r = root[f]
                          /\ tic = ForwardTic(n, j, a)
  OBVIOUS
<1>1. /\ j # NoJob /\ a \in j.todo /\ copies' = copies \cup {tic}
      /\ job' = [job EXCEPT ![n] = Served(j, a)] /\ UNCHANGED <<came, hatched>>
  BY <1>0 DEF Forward
<1>2. /\ f \in hatched /\ r \in Hatchers /\ JobDown(n, j, r) /\ LinkBelow(n, a, r, f)
      /\ j \in Job
  BY <1>0, <1>1 DEF SpreadFrom, JobDown, TypeOK
<1>3. /\ tic.file = f /\ tic.to = a /\ tic.from = OurAka[n][a] /\ tic.seenby = j.seenby
  BY <1>0 DEF ForwardTic
<1>4. \A m \in Nodes : (came[m] \subseteq hatched)'
  BY <1>1 DEF SpreadFrom
<1>5. \A g \in hatched' : FileDown(g, root[g])'
  BY <1>1 DEF SpreadFrom, FileDown
<1>6. ASSUME NEW t \in copies'
      PROVE  t.file \in hatched' /\ CopyDown(t, root[t.file])' /\ OneCopy(t)'
  <2>1. CASE t \in copies
    <3>1. t.file \in hatched /\ CopyDown(t, root[t.file]) /\ OneCopy(t)
      BY <2>1 DEF SpreadFrom
    <3>2. ~(t.file = f /\ Owner[t.to] = Owner[a])
      BY <1>2, <2>1 DEF LinkBelow
    <3> QED
      BY <1>1, <1>3, <3>1, <3>2 DEF CopyDown, OneCopy
  <2>2. CASE t = tic
    <3>1. CopyDown(t, r)'
      BY <1>0, <1>1, <1>2, <1>3, <2>2 DEF CopyDown, LinkBelow, JobDown
    <3>2. OneCopy(t)'
      BY <1>1, <1>2, <1>3, <2>2 DEF OneCopy, LinkBelow
    <3> QED
      BY <1>0, <1>1, <1>2, <1>3, <2>2, <3>1, <3>2
  <2> QED
    BY <1>1, <2>1, <2>2
<1>7. ASSUME NEW m \in Nodes, job'[m] # NoJob
      PROVE  job'[m].tic.file \in hatched' /\ JobDown(m, job[m], root[job[m].tic.file])'
  <2>1. CASE m # n
    <3>0. PICK g : g = job[m].tic.file
      OBVIOUS
    <3>1. /\ job'[m] = job[m] /\ job[m] # NoJob /\ g \in hatched
          /\ JobDown(m, job[m], root[g])
      BY <1>1, <1>7, <2>1, <3>0 DEF SpreadFrom, TypeOK
    <3>2. ASSUME NEW b \in job[m].todo PROVE LinkBelow(m, b, root[g], g)'
      <4>1. LinkBelow(m, b, root[g], g)
        BY <3>0, <3>1 DEF JobDown
      <4>2. ~(g = f /\ Owner[b] = Owner[a])
        BY <1>0, <1>2, <2>1, <4>1 DEF LinkBelow
      <4> QED
        BY <1>1, <1>3, <4>1, <4>2 DEF LinkBelow
    <3> QED
      BY <1>1, <3>0, <3>1, <3>2 DEF JobDown
  <2>2. CASE m = n
    <3>0. PICK k : k = Served(j, a)
      OBVIOUS
    <3>1. /\ job'[m] = k /\ k.tic = j.tic /\ k.seenby = j.seenby /\ k.todo = j.todo \ {a}
      BY <1>1, <1>2, <2>2, <3>0 DEF Served, Job, TypeOK
    <3>2. ASSUME NEW b \in k.todo PROVE LinkBelow(n, b, r, f)'
      <4>1. LinkBelow(n, b, r, f) /\ b # a
        BY <1>0, <1>2, <3>1 DEF JobDown
      <4>2. Owner[b] # Owner[a]
        BY <1>2, <4>1 DEF Clustered, LinkBelow
      <4> QED
        BY <1>1, <1>3, <4>1, <4>2 DEF LinkBelow
    <3> QED
      BY <1>0, <1>1, <1>2, <2>2, <3>1, <3>2 DEF JobDown
  <2> QED
    BY <2>1, <2>2
<1>8. SpreadFrom(root)'
  BY <1>1, <1>4, <1>5, <1>6, <1>7 DEF SpreadFrom
<1> QED
  BY <1>8 DEF Spread

LEMMA NextSpread ==
  ASSUME Clustered, Faults \subseteq {"crash", "lose"}, TypeOK, Spread, [Next]_vars
  PROVE  Spread'
<1>0. PICK root : SpreadFrom(root)
  BY DEF Spread
<1>1. ASSUME NEW n \in Nodes, NEW f \in Files, Hatch(n, f) PROVE Spread'
  BY <1>0, <1>1, SpreadHatch
<1>2. ASSUME NEW n \in Nodes, NEW tic \in copies, Toss(n, tic) PROVE Spread'
  <2>1. /\ Owner[tic.to] = n /\ copies' = copies \ {tic} /\ hatched' = hatched
        /\ came' = [came EXCEPT ![n] = @ \cup {tic.file}]
        /\ job' = [job EXCEPT ![n] = TossJob(n, tic)]
    BY <1>2 DEF Toss
  <2>2. \A m \in Nodes : job'[m] = job[m] \/ (m = n /\ job'[m] = TossJob(n, tic))
    BY <2>1 DEF TypeOK
  <2> QED
    BY <1>0, <2>1, <2>2, SpreadArrive
<1>3. ASSUME NEW n \in Nodes, NEW tic \in copies, Refuse(n, tic) PROVE Spread'
  BY <1>0, <1>3, SpreadArrive DEF Refuse
<1>4. ASSUME NEW n \in Nodes, NEW a \in Addr, Forward(n, a) PROVE Spread'
  BY <1>0, <1>4, SpreadForward
<1>5. ASSUME NEW n \in Nodes, Finish(n) \/ Crash(n) PROVE Spread'
  <2>1. /\ UNCHANGED <<copies, came, hatched>> /\ job' = [job EXCEPT ![n] = NoJob]
    BY <1>5 DEF Finish, Crash
  <2>2. \A m \in Nodes : job'[m] \in {job[m], NoJob}
    BY <2>1 DEF TypeOK
  <2> QED
    BY <1>0, <2>1, <2>2, SpreadLess
<1>6. ASSUME NEW n \in Nodes, NEW f \in Files, NEW a \in Addr, Send(n, f, a) \/ Foreign(n, f, a)
      PROVE  FALSE
  BY <1>6 DEF Send, Foreign
<1>7. ASSUME NEW tic \in copies, Lose(tic) PROVE Spread'
  BY <1>0, <1>7, SpreadLess DEF Lose
<1>8. CASE UNCHANGED vars
  BY <1>0, <1>8, SpreadLess DEF vars
<1> QED
  BY <1>1, <1>2, <1>3, <1>4, <1>5, <1>6, <1>7, <1>8 DEF Next, NodeStep, OutsideStep

(* In a network of trees and meshes, whose nodes know each other by one    *)
(* address, seen-by lists keep every duplicate away: a node is sent a file *)
(* once, although runs are killed and copies lost.                         *)
THEOREM NoFileTwice ==
  ASSUME Clustered, Faults \subseteq {"crash", "lose"}
  PROVE  Spec => []NoDuplicate
<1>1. Init => Spread
  <2> SUFFICES ASSUME Init PROVE Spread
    OBVIOUS
  <2>1. PICK root : root = [f \in {} |-> f]
    OBVIOUS
  <2>2. SpreadFrom(root)
    BY <2>1 DEF Init, SpreadFrom
  <2> QED
    BY <2>2 DEF Spread
<1>2. TypeOK /\ Spread /\ [Next]_vars => Spread'
  BY NextSpread
<1>3. Spread => NoDuplicate
  BY DEF Spread, SpreadFrom, CopyDown, OneCopy, NoDuplicate
<1> QED
  BY <1>1, <1>2, <1>3, TypeCorrect, PTL DEF Spec
=============================================================================
