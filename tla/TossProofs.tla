----------------------------- MODULE TossProofs -----------------------------
(***************************************************************************)
(* The inbound in any situation: any tickets, files, suffixes, areas and   *)
(* links, and all the faults.                                              *)
(*   TypeOK      every variable keeps its type                             *)
(*   KnownOK     a ticket that has come is one that was sent               *)
(*   Apart       what makes InOnePlace inductive: no two places hold the   *)
(*               same file                                                 *)
(*   ExchangeOK  why the checksum need not be compared again: what an      *)
(*               exchange has put under the ticket's name is the right     *)
(*               file, or has been sent on meanwhile                       *)
(***************************************************************************)
EXTENDS Toss, InductionLemmas, FiniteSetTheorems, TLAPS

KnownOK ==
  /\ \A t \in Tics : where[t] # "away" => t \in DOMAIN setup.ticket
  /\ swap # None => /\ swap.tic \in DOMAIN setup.ticket
                    /\ swap.step = "in" => swap.tmp # None

LEMMA SetupFacts ==
  ASSUME situation \in DOMAIN Setups
  PROVE  /\ DOMAIN setup.ticket \subseteq Tics
         /\ \A t \in DOMAIN setup.ticket :
              setup.ticket[t] \in TicketData /\ File(t) \in FileName
         /\ None \notin Contents
<1>1. IsSetup(setup)
  BY TossAssumption DEF setup
<1>2. /\ DOMAIN setup.ticket \subseteq Tics
      /\ \A t \in DOMAIN setup.ticket : setup.ticket[t] \in TicketData
  BY <1>1 DEF IsSetup
<1> QED
  BY <1>2, TossAssumption DEF File, TicketData

(* The first check that fails, or AllPassed. *)
LEMMA FailedIs ==
  ASSUME NEW t
  PROVE  /\ Failed(t) \in FirstCheck .. AllPassed
         /\ Failed(t) = AllPassed \/ ~Passes(t, Failed(t))
         /\ \A k \in FirstCheck .. Failed(t) - 1 : Passes(t, k)
<1> DEFINE failing == {i \in FirstCheck .. AllPassed : i = AllPassed \/ ~Passes(t, i)}
<1>0. FirstCheck \in {1, 9} /\ AllPassed = 13
  BY DEF FirstCheck, FileCheck, AllPassed
<1>1. failing \in SUBSET Nat /\ AllPassed \in failing
  BY <1>0
<1>2. /\ Min(failing) \in failing
      /\ \A k \in failing : Min(failing) <= k
  BY <1>1, MinIn
<1>3. Min(failing) \in FirstCheck .. AllPassed
  BY <1>2
<1>4. \A k \in FirstCheck .. Min(failing) - 1 : Passes(t, k)
  <2> SUFFICES ASSUME NEW k \in FirstCheck .. Min(failing) - 1, ~Passes(t, k) PROVE FALSE
    OBVIOUS
  <2>1. k \in FirstCheck .. AllPassed /\ ~(Min(failing) <= k)
    BY <1>0, <1>3
  <2> QED
    BY <1>2, <2>1
<1> HIDE DEF failing
<1>5. Min(failing) = AllPassed \/ ~Passes(t, Min(failing))
  BY <1>2 DEF failing
<1> QED
  BY <1>3, <1>4, <1>5 DEF Failed

LEMMA FailedRange == ASSUME NEW t PROVE Failed(t) \in 1 .. 13
BY FailedIs DEF FirstCheck, FileCheck, AllPassed

(* A ticket that passes all checks has its file; it is the right one if    *)
(* its checksum was compared in this step.                                 *)
LEMMA AcceptedFile ==
  ASSUME NEW t, Failed(t) = AllPassed
  PROVE  Received(t) /\ (swap = None => RightFile(t))
<1>1. Passes(t, 10)
  BY FailedIs DEF FirstCheck, FileCheck, AllPassed
<1>2. swap = None => Passes(t, 8)
  BY FailedIs DEF FirstCheck, FileCheck, AllPassed
<1> QED
  BY <1>1, <1>2 DEF Passes

LEMMA SwappedFile ==
  ASSUME NEW t, Failed(t) = FileCheck
  PROVE  Received(t) /\ ~RightFile(t)
<1>1. FirstCheck = 1 /\ ~Passes(t, 8)
  BY FailedIs DEF FirstCheck, FileCheck, AllPassed
<1>2. Passes(t, 6)
  BY <1>1, FailedIs DEF FileCheck, AllPassed
<1> QED
  BY <1>1, <1>2 DEF Passes

(* A ticket in transit is not for us, and no exchange is in progress.      *)
LEMMA TransitTo ==
  ASSUME NEW t, InTransit(t)
  PROVE  setup.ticket[t].to # Us /\ swap = None
<1>1. ~Passes(t, 4) /\ FirstCheck = 1
  BY FailedIs DEF InTransit, AddressCheck, FirstCheck, FileCheck, AllPassed
<1> QED
  BY <1>1 DEF Passes, FirstCheck, FileCheck

LEMMA RenamedIs ==
  ASSUME NEW old \in Suffixes,
         NEW verdict \in {"OK", "NotOpen", "WrongTIC", "Security", "NotForUs",
                          "NotRecvd", "CantRename"}
  PROVE  Renamed(old, verdict) \in Suffixes \cup {"gone"}
BY DEF Renamed, Suffixes

LEMMA VerdictIs ==
  ASSUME NEW k \in 1 .. 12
  PROVE  Verdicts[k] \in {"NotOpen", "WrongTIC", "Security", "NotForUs", "NotRecvd"}
BY DEF Verdicts

LEMMA AfterIs == ASSUME NEW t PROVE After(t) \subseteq defects
BY DEF After

-----------------------------------------------------------------------------
(* Types. *)

Where == Suffixes \cup {"away", "out", "sent", "gone"}

LEMMA RefuseType ==
  ASSUME TypeOK, KnownOK, NEW t \in Tics, Refuse(t)
  PROVE  TypeOK' /\ KnownOK'
<1>1. where[t] \in Suffixes /\ Failed(t) \in 1 .. 12
  BY FailedRange DEF Refuse, Turn, AllPassed
<1> DEFINE v == IF Failed(t) = ReceivedCheck /\ From(t) \in setup.delNotReceived
                THEN "OK" ELSE Verdicts[Failed(t)]
<1>2. Renamed(where[t], v) \in Suffixes \cup {"gone"}
  BY <1>1, VerdictIs, RenamedIs
<1>3. where' = [where EXCEPT ![t] = Renamed(where[t], v)]
  BY DEF Refuse, Settle
<1> HIDE DEF v
<1>4. where' \in [Tics -> Where]
  BY <1>2, <1>3 DEF TypeOK, Where
<1>5. setup' = setup /\ swap' = None
  BY DEF Refuse, setup
<1>6. TypeOK'
  BY <1>4, <1>5, AfterIs DEF Refuse, TypeOK, Where
<1>7. \A u \in Tics : where'[u] # "away" => where[u] # "away"
  BY <1>1, <1>3 DEF Suffixes, TypeOK
<1> QED
  BY <1>5, <1>6, <1>7 DEF KnownOK

LEMMA AcceptType ==
  ASSUME TypeOK, KnownOK, NEW t \in Tics, Accept(t)
  PROVE  TypeOK' /\ KnownOK'
<1>1. where[t] \in Suffixes
  BY DEF Accept, Turn
<1>2. Renamed(where[t], "OK") = "gone"
  BY DEF Renamed
<1>3. where' = [where EXCEPT ![t] = "gone"]
  BY <1>2 DEF Accept, Settle
<1>4. setup' = setup /\ swap' = None
  BY DEF Accept, setup
<1>5. t \in DOMAIN setup.ticket /\ File(t) \in FileName
  BY <1>1, SetupFacts DEF KnownOK, Suffixes, TypeOK
<1>6. TypeOK'
  BY <1>3, <1>4, <1>5, AfterIs DEF Accept, TypeOK
<1> QED
  BY <1>3, <1>4, <1>5, <1>6 DEF KnownOK, TypeOK

LEMMA SwapOutType ==
  ASSUME TypeOK, KnownOK, NEW t \in Tics, NEW f \in FileName, SwapOut(t, f)
  PROVE  TypeOK' /\ KnownOK'
<1>1. where[t] \in Suffixes
  BY DEF SwapOut
<1>2. t \in DOMAIN setup.ticket /\ File(t) \in FileName
  BY <1>1, SetupFacts DEF KnownOK, Suffixes, TypeOK
<1>3. inbound[File(t)] # None
  BY SwappedFile DEF SwapOut, Received
<1>4. setup' = setup
  BY DEF SwapOut, setup
<1>5. swap' \in Swap /\ inbound' \in [FileName -> Contents \cup {None}]
  BY <1>2 DEF SwapOut, Swap, Steps, TypeOK
<1>6. swap'.tic = t /\ swap'.tmp # None
  BY <1>3 DEF SwapOut
<1>7. TypeOK'
  BY <1>4, <1>5, AfterIs DEF SwapOut, TypeOK
<1> QED
  BY <1>2, <1>4, <1>6, <1>7 DEF SwapOut, KnownOK

LEMMA SwapType ==
  ASSUME TypeOK, KnownOK, SwapStep \/ Crash
  PROVE  TypeOK' /\ KnownOK'
<1>1. swap # None /\ swap \in Swap
  BY DEF SwapStep, SwapIn, SwapBack, SwapInFails, SwapBackFails, Crash, TypeOK
<1>2. /\ swap.tic \in Tics /\ swap.other \in FileName /\ swap.step \in Steps
      /\ swap.tmp \in Contents \cup {None}
      /\ swap.tic \in DOMAIN setup.ticket /\ File(swap.tic) \in FileName
  BY <1>1, SetupFacts DEF Swap, KnownOK, TypeOK
<1>3. setup' = setup
  BY DEF SwapStep, SwapIn, SwapBack, SwapInFails, SwapBackFails, Crash, setup
<1>4. CASE SwapIn
  <2>1. swap' \in Swap /\ swap'.tic = swap.tic /\ swap'.step = "back"
    BY <1>1, <1>4 DEF SwapIn, Swap, Steps
  <2>2. inbound' \in [FileName -> Contents \cup {None}]
    BY <1>2, <1>4 DEF SwapIn, TypeOK
  <2> QED
    BY <1>2, <1>3, <1>4, <2>1, <2>2 DEF SwapIn, TypeOK, KnownOK
<1>5. CASE SwapBack
  <2>1. swap' \in Swap /\ swap'.tic = swap.tic /\ swap'.step = "judge"
    BY <1>1, <1>5 DEF SwapBack, Swap, Steps
  <2>2. inbound' \in [FileName -> Contents \cup {None}]
    BY <1>2, <1>5 DEF SwapBack, TypeOK
  <2> QED
    BY <1>2, <1>3, <1>5, <2>1, <2>2 DEF SwapBack, TypeOK, KnownOK
<1>6. CASE SwapBackFails
  <2>1. swap' \in Swap /\ swap'.tic = swap.tic /\ swap'.step = "judge"
    BY <1>1, <1>6 DEF SwapBackFails, Swap, Steps
  <2> QED
    BY <1>2, <1>3, <1>6, <2>1 DEF SwapBackFails, TypeOK, KnownOK
<1>7. CASE SwapInFails
  <2>1. swap.tmp \in Contents
    BY <1>1, <1>2, <1>7 DEF SwapInFails, KnownOK
  <2>2. inbound' \in [FileName -> Contents \cup {None}] /\ stray' \in SUBSET Contents
    BY <1>2, <1>7, <2>1 DEF SwapInFails, TypeOK
  <2>3. /\ where' = [where EXCEPT ![swap.tic] = Renamed(where[swap.tic], "CantRename")]
        /\ swap' = None
    BY <1>7 DEF SwapInFails, Settle
  <2>4. Renamed(where[swap.tic], "CantRename") \in {"acs", where[swap.tic]}
    BY DEF Renamed
  <2>5. where' \in [Tics -> Where]
    BY <1>2, <2>3, <2>4 DEF TypeOK, Where, Suffixes
  <2> QED
    BY <1>2, <1>3, <1>7, <2>2, <2>3, <2>5 DEF SwapInFails, TypeOK, KnownOK, Where
<1>8. CASE Crash
  BY <1>2, <1>3, <1>8 DEF Crash, TypeOK, KnownOK
<1> QED
  BY <1>4, <1>5, <1>6, <1>7, <1>8 DEF SwapStep

(* The steps that only change where one ticket is. *)
LEMMA TicketType ==
  ASSUME TypeOK, KnownOK, NEW t \in Tics,
         \/ SwapOutFails(t) \/ TransitQueue(t) \/ TransitBusy(t)
         \/ TransitMoveFails(t) \/ PutTicket(t) \/ SendTransit(t)
  PROVE  TypeOK' /\ KnownOK'
<1>1. setup' = setup /\ swap' = swap
  BY DEF SwapOutFails, TransitQueue, TransitBusy, TransitMoveFails, PutTicket,
         SendTransit, setup
<1>2. ASSUME NEW w \in Where, where' = [where EXCEPT ![t] = w],
             w = "away" \/ t \in DOMAIN setup.ticket
      PROVE  /\ where' \in [Tics -> Where]
             /\ \A u \in Tics : where'[u] # "away" => u \in DOMAIN setup.ticket
  BY <1>2 DEF TypeOK, Where, KnownOK
<1>3. CASE SwapOutFails(t)
  <2>1. Renamed(where[t], "NotRecvd") \in Where /\ where[t] \in Suffixes
    BY <1>3, RenamedIs DEF SwapOutFails, Where
  <2>2. where' = [where EXCEPT ![t] = Renamed(where[t], "NotRecvd")]
    BY <1>3 DEF SwapOutFails, Settle
  <2>3. t \in DOMAIN setup.ticket
    BY <2>1 DEF KnownOK, Suffixes
  <2> QED
    BY <1>1, <1>2, <1>3, <2>1, <2>2, <2>3, AfterIs
    DEF SwapOutFails, TypeOK, KnownOK, Where
<1>4. CASE TransitQueue(t)
  <2>1. t \in DOMAIN setup.ticket
    BY <1>4 DEF TransitQueue, Turn, KnownOK, Suffixes
  <2> QED
    BY <1>1, <1>2, <1>4, <2>1 DEF TransitQueue, TypeOK, KnownOK, Where
<1>5. CASE TransitBusy(t) \/ TransitMoveFails(t)
  <2>1. t \in DOMAIN setup.ticket
    BY <1>5 DEF TransitBusy, TransitMoveFails, Turn, KnownOK, Suffixes
  <2>2. where' = [where EXCEPT ![t] = "gone"]
    BY <1>5 DEF TransitBusy, TransitMoveFails, Settle, Renamed
  <2>3. bsy' \in SUBSET Links
    <3>1. CASE TransitBusy(t)
      BY <3>1 DEF TransitBusy, TypeOK
    <3>2. CASE TransitMoveFails(t)
      <4>1. setup.ticket[t].to # Us
        BY <3>2, TransitTo DEF TransitMoveFails
      <4>2. setup.ticket[t].to \in Links
        BY <2>1, <4>1, SetupFacts DEF TypeOK, TicketData
      <4> QED
        BY <3>2, <4>2 DEF TransitMoveFails, TypeOK
    <3> QED
      BY <1>5, <3>1, <3>2
  <2> QED
    BY <1>1, <1>2, <1>5, <2>1, <2>2, <2>3
    DEF TransitBusy, TransitMoveFails, TypeOK, KnownOK, Where
<1>6. CASE PutTicket(t)
  BY <1>1, <1>2, <1>6 DEF PutTicket, TypeOK, KnownOK, Where, Suffixes
<1>7. CASE SendTransit(t)
  <2>1. t \in DOMAIN setup.ticket /\ File(t) \in FileName
    BY <1>7, SetupFacts DEF SendTransit, KnownOK, TypeOK
  <2>2. inbound' \in [FileName -> Contents \cup {None}] /\ passed' \in SUBSET Contents
    BY <1>7, <2>1 DEF SendTransit, TypeOK
  <2> QED
    BY <1>1, <1>2, <1>7, <2>1, <2>2 DEF SendTransit, TypeOK, KnownOK, Where
<1> QED
  BY <1>3, <1>4, <1>5, <1>6, <1>7

LEMMA PutFileName ==
  ASSUME NEW c \in Contents, PutFile(c)
  PROVE  \E f \in FileName : inbound[f] = None /\ inbound' = [inbound EXCEPT ![f] = c]
<1> DEFINE free == {n \in 0 .. LastSuffix : inbound[<<BaseOf[c], n>>] = None}
<1>1. free \in SUBSET Nat /\ free # {}
  BY TossAssumption DEF PutFile
<1>2. Min(free) \in free
  BY <1>1, MinIn
<1>3. <<BaseOf[c], Min(free)>> \in FileName
  BY <1>2, TossAssumption DEF FileName
<1>4. inbound[<<BaseOf[c], Min(free)>>] = None
  BY <1>2
<1>5. inbound' = [inbound EXCEPT ![<<BaseOf[c], Min(free)>>] = c]
  BY DEF PutFile
<1> QED
  BY <1>3, <1>4, <1>5

LEMMA NextType == TypeOK /\ KnownOK /\ [Next]_vars => TypeOK' /\ KnownOK'
<1> SUFFICES ASSUME TypeOK, KnownOK, [Next]_vars PROVE TypeOK' /\ KnownOK'
  OBVIOUS
<1>1. ASSUME NEW c \in Contents, PutFile(c) PROVE TypeOK' /\ KnownOK'
  <2>1. inbound' \in [FileName -> Contents \cup {None}]
    BY <1>1, PutFileName DEF TypeOK
  <2>2. setup' = setup
    BY <1>1 DEF PutFile, setup
  <2> QED
    BY <1>1, <2>1, <2>2 DEF PutFile, TypeOK, KnownOK
<1>2. ASSUME NEW l \in Links, Busy(l) PROVE TypeOK' /\ KnownOK'
  <2>1. setup' = setup
    BY <1>2 DEF Busy, setup
  <2>2. bsy' \in SUBSET Links
    BY <1>2 DEF Busy, TypeOK
  <2> QED
    BY <1>2, <2>1, <2>2 DEF Busy, TypeOK, KnownOK
<1>3. ASSUME NEW d \in defects, Repair(d) PROVE TypeOK' /\ KnownOK'
  <2>1. setup' = setup
    BY <1>3 DEF Repair, setup
  <2> QED
    BY <1>3, <2>1 DEF Repair, TypeOK, KnownOK
<1>4. CASE UNCHANGED vars
  BY <1>4 DEF vars, TypeOK, KnownOK, setup
<1>5. CASE Next
  BY <1>5, <1>1, <1>2, <1>3, RefuseType, AcceptType, SwapOutType, SwapType, TicketType
  DEF Next, TicketStep
<1> QED
  BY <1>4, <1>5

-----------------------------------------------------------------------------
(* Where a file is: in the inbound, taken, stray, passed on or under a     *)
(* temporary name.                                                         *)
Named(c)  == \E f \in FileName : inbound[f] = c
Taken(c)  == \E t \in Tics : took[t] = c
Aside(c)  == swap # None /\ swap.tmp = c

ApartAt(c) ==
  /\ \A f, g \in FileName : inbound[f] = c /\ inbound[g] = c => f = g
  /\ \A t, u \in Tics : took[t] = c /\ took[u] = c => t = u
  /\ Named(c) => ~Taken(c) /\ ~Aside(c) /\ c \notin stray /\ c \notin passed
  /\ Taken(c) => ~Aside(c) /\ c \notin stray /\ c \notin passed
  /\ Aside(c) => c \notin stray /\ c \notin passed
  /\ c \in stray => c \notin passed

Apart == \A c \in Contents : ApartAt(c)

(* Places counts what ApartAt keeps apart. *)
LEMMA ApartCounts ==
  ASSUME NEW c \in Contents, ApartAt(c)
  PROVE  Places(c) <= 1 /\ (Places(c) = 1 <=> Arrived(c))
<1> DEFINE names == {f \in FileName : inbound[f] = c}
           tics == {t \in Tics : took[t] = c}
<1>1. Cardinality(names) = IF Named(c) THEN 1 ELSE 0
  <2>1. CASE Named(c)
    <3>1. PICK f \in FileName : inbound[f] = c
      BY <2>1 DEF Named
    <3>2. names = {f}
      BY <3>1 DEF ApartAt
    <3> QED
      BY <2>1, <3>2, FS_Singleton
  <2>2. CASE ~Named(c)
    <3>1. names = {}
      BY <2>2 DEF Named
    <3> QED
      BY <2>2, <3>1, FS_EmptySet
  <2> QED
    BY <2>1, <2>2
<1>2. Cardinality(tics) = IF Taken(c) THEN 1 ELSE 0
  <2>1. CASE Taken(c)
    <3>1. PICK t \in Tics : took[t] = c
      BY <2>1 DEF Taken
    <3>2. tics = {t}
      BY <3>1 DEF ApartAt
    <3> QED
      BY <2>1, <3>2, FS_Singleton
  <2>2. CASE ~Taken(c)
    <3>1. tics = {}
      BY <2>2 DEF Taken
    <3> QED
      BY <2>2, <3>1, FS_EmptySet
  <2> QED
    BY <2>1, <2>2
<1>3. Places(c) = Cardinality(names) + Cardinality(tics)
                  + (IF c \in stray THEN 1 ELSE 0) + (IF c \in passed THEN 1 ELSE 0)
                  + (IF Aside(c) THEN 1 ELSE 0)
  BY DEF Places, Aside
<1>4. Arrived(c) <=> c \in passed \/ c \in stray \/ Named(c) \/ Taken(c) \/ Aside(c)
  BY DEF Arrived, Named, Taken, Aside
<1> HIDE DEF names, tics
<1> QED
  BY <1>1, <1>2, <1>3, <1>4 DEF ApartAt

Counted == \A c \in Contents : Places(c) = 1 <=> Arrived(c)

LEMMA CountedIfApart == Apart => Counted
BY ApartCounts DEF Apart, Counted

(* One step at a time; the file of the step's ticket is under its name or  *)
(* set aside.                                                              *)
LEMMA AcceptApart ==
  ASSUME TypeOK, KnownOK, Apart, NEW t \in Tics, Accept(t), NEW c \in Contents
  PROVE  ApartAt(c)'
<1>1. t \in DOMAIN setup.ticket /\ File(t) \in FileName /\ c # None
  BY SetupFacts DEF Accept, Turn, KnownOK, Suffixes, TypeOK
<1>2. /\ \A f \in FileName : inbound'[f] = IF f = File(t) THEN None ELSE inbound[f]
      /\ \A u \in Tics : took'[u] = IF u = t THEN inbound[File(t)] ELSE took[u]
      /\ swap' = None /\ stray' = stray /\ passed' = passed
  BY <1>1 DEF Accept, TypeOK
<1>3. ApartAt(c)
  BY DEF Apart
<1>4. CASE inbound[File(t)] = c
  BY <1>1, <1>2, <1>3, <1>4 DEF ApartAt, Named, Taken, Aside
<1>5. CASE inbound[File(t)] # c
  BY <1>1, <1>2, <1>3, <1>5 DEF ApartAt, Named, Taken, Aside
<1> QED
  BY <1>4, <1>5

LEMMA SwapOutApart ==
  ASSUME TypeOK, KnownOK, Apart, NEW t \in Tics, NEW g \in FileName, SwapOut(t, g),
         NEW c \in Contents
  PROVE  ApartAt(c)'
<1>1. t \in DOMAIN setup.ticket /\ File(t) \in FileName /\ c # None
  BY SetupFacts DEF SwapOut, KnownOK, Suffixes, TypeOK
<1>2. /\ \A f \in FileName : inbound'[f] = IF f = File(t) THEN None ELSE inbound[f]
      /\ swap = None /\ swap'.tmp = inbound[File(t)]
      /\ took' = took /\ stray' = stray /\ passed' = passed
  BY <1>1 DEF SwapOut, TypeOK
<1>3. ApartAt(c)
  BY DEF Apart
<1>4. CASE inbound[File(t)] = c
  BY <1>1, <1>2, <1>3, <1>4 DEF ApartAt, Named, Taken, Aside
<1>5. CASE inbound[File(t)] # c
  BY <1>1, <1>2, <1>3, <1>5 DEF ApartAt, Named, Taken, Aside
<1> QED
  BY <1>4, <1>5

LEMMA SwapApart ==
  ASSUME TypeOK, KnownOK, Apart, SwapStep \/ Crash, NEW c \in Contents
  PROVE  ApartAt(c)'
<1>1. /\ swap # None /\ swap \in Swap
      /\ swap.other \in FileName /\ File(swap.tic) \in FileName /\ c # None
  <2>1. swap # None /\ swap \in Swap
    BY DEF SwapStep, SwapIn, SwapBack, SwapInFails, SwapBackFails, Crash, TypeOK
  <2> QED
    BY <2>1, SetupFacts DEF Swap, KnownOK, TypeOK
<1>2. ApartAt(c) /\ took' = took /\ passed' = passed
  BY DEF Apart, SwapStep, SwapIn, SwapBack, SwapInFails, SwapBackFails, Crash
<1>3. CASE SwapIn
  <2>1. /\ \A f \in FileName :
             inbound'[f] = IF f = swap.other THEN None
                           ELSE IF f = File(swap.tic) THEN inbound[swap.other]
                           ELSE inbound[f]
        /\ stray' = stray
    BY <1>1, <1>3 DEF SwapIn, TypeOK
  <2>2. swap'.tmp = swap.tmp
    BY <1>1, <1>3 DEF SwapIn, Swap
  <2>3. Aside(c)' => Aside(c)
    BY <1>1, <2>2 DEF Aside
  <2>4. Named(c)' => Named(c)
    BY <1>1, <2>1 DEF Named
  <2>5. \A f, g \in FileName : inbound'[f] = c /\ inbound'[g] = c => f = g
    BY <1>1, <1>2, <2>1 DEF ApartAt
  <2> QED
    BY <1>2, <2>1, <2>3, <2>4, <2>5 DEF ApartAt, Taken
<1>4. CASE SwapBack
  <2>1. /\ \A f \in FileName :
             inbound'[f] = IF f = swap.other THEN swap.tmp ELSE inbound[f]
        /\ stray' = stray
    BY <1>1, <1>4 DEF SwapBack, TypeOK
  <2>2. ~Aside(c)'
    BY <1>1, <1>4 DEF SwapBack, Swap, Aside
  <2>3. Named(c)' => Named(c) \/ Aside(c)
    BY <1>1, <2>1 DEF Named, Aside
  <2>4. \A f, g \in FileName : inbound'[f] = c /\ inbound'[g] = c => f = g
    BY <1>1, <1>2, <2>1 DEF ApartAt, Named, Aside
  <2> QED
    BY <1>2, <2>1, <2>2, <2>3, <2>4 DEF ApartAt, Taken
<1>5. CASE SwapBackFails
  <2>1. ~Aside(c)'
    BY <1>1, <1>5 DEF SwapBackFails, Swap, Aside
  <2> QED
    BY <1>2, <1>5, <2>1 DEF SwapBackFails, ApartAt, Named, Taken
<1>6. CASE SwapInFails
  <2>1. ~Aside(c)'
    BY <1>6 DEF SwapInFails, Aside
  <2>2. CASE stray' = stray
             /\ inbound' = [inbound EXCEPT ![File(swap.tic)] = swap.tmp]
    <3>1. \A f \in FileName :
             inbound'[f] = IF f = File(swap.tic) THEN swap.tmp ELSE inbound[f]
      BY <1>1, <2>2 DEF TypeOK
    <3>2. Named(c)' => Named(c) \/ Aside(c)
      BY <1>1, <3>1 DEF Named, Aside
    <3>3. \A f, g \in FileName : inbound'[f] = c /\ inbound'[g] = c => f = g
      BY <1>1, <1>2, <3>1 DEF ApartAt, Named, Aside
    <3> QED
      BY <1>2, <2>1, <2>2, <3>2, <3>3 DEF ApartAt, Taken
  <2>3. CASE inbound' = inbound /\ stray' = stray \cup {swap.tmp}
    <3>1. c \in stray' => c \in stray \/ Aside(c)
      BY <1>1, <2>3 DEF Aside
    <3> QED
      BY <1>2, <2>1, <2>3, <3>1 DEF ApartAt, Named, Taken
  <2> QED
    BY <1>6, <2>2, <2>3 DEF SwapInFails
<1>7. CASE Crash
  <2>1. ~Aside(c)' /\ inbound' = inbound
    BY <1>7 DEF Crash, Aside
  <2>2. c \in stray' => c \in stray \/ Aside(c)
    BY <1>1, <1>7 DEF Crash, Aside
  <2> QED
    BY <1>2, <2>1, <2>2 DEF ApartAt, Named, Taken
<1> QED
  BY <1>3, <1>4, <1>5, <1>6, <1>7 DEF SwapStep

LEMMA SendTransitApart ==
  ASSUME TypeOK, KnownOK, Apart, NEW t \in Tics, SendTransit(t), NEW c \in Contents
  PROVE  ApartAt(c)'
<1>1. t \in DOMAIN setup.ticket /\ File(t) \in FileName /\ c # None
  BY SetupFacts DEF SendTransit, KnownOK, TypeOK
<1>2. /\ \A f \in FileName : inbound'[f] = IF f = File(t) THEN None ELSE inbound[f]
      /\ took' = took /\ stray' = stray /\ swap' = swap
      /\ c \in passed' <=> c \in passed \/ inbound[File(t)] = c
  BY <1>1 DEF SendTransit, TypeOK
<1>3. ApartAt(c)
  BY DEF Apart
<1> QED
  BY <1>1, <1>2, <1>3 DEF ApartAt, Named, Taken, Aside

LEMMA PutFileApart ==
  ASSUME TypeOK, Apart, NEW d \in Contents, PutFile(d), NEW c \in Contents
  PROVE  ApartAt(c)'
<1>1. PICK g \in FileName : inbound[g] = None /\ inbound' = [inbound EXCEPT ![g] = d]
  BY PutFileName
<1>2. /\ \A f \in FileName : inbound'[f] = IF f = g THEN d ELSE inbound[f]
      /\ took' = took /\ stray' = stray /\ swap' = swap /\ passed' = passed
  BY <1>1 DEF PutFile, TypeOK
<1>3. ApartAt(c)
  BY DEF Apart
<1>4. CASE c = d
  <2>1. ~Named(c) /\ ~Taken(c) /\ ~Aside(c) /\ c \notin stray /\ c \notin passed
    BY <1>4 DEF PutFile, Arrived, Named, Taken, Aside
  <2> QED
    BY <1>2, <1>4, <2>1 DEF ApartAt, Named, Taken, Aside
<1>5. CASE c # d
  BY <1>1, <1>2, <1>3, <1>5, TossAssumption DEF ApartAt, Named, Taken, Aside
<1> QED
  BY <1>4, <1>5

LEMMA NextApart == TypeOK /\ KnownOK /\ Apart /\ [Next]_vars => Apart'
<1> SUFFICES ASSUME TypeOK, KnownOK, Apart, [Next]_vars, NEW c \in Contents
             PROVE  ApartAt(c)'
  BY DEF Apart
<1>1. ApartAt(c)
  BY DEF Apart
<1>2. ASSUME UNCHANGED <<inbound, took, passed, stray>>, swap' = swap \/ swap' = None
      PROVE  ApartAt(c)'
  BY <1>1, <1>2 DEF ApartAt, Named, Taken, Aside
<1>3. ASSUME NEW t \in Tics, TicketStep(t) \/ PutTicket(t) \/ SendTransit(t)
      PROVE  ApartAt(c)'
  <2>1. CASE Refuse(t)
    BY <1>2, <2>1 DEF Refuse
  <2>2. CASE SwapOutFails(t) \/ TransitQueue(t) \/ TransitBusy(t)
             \/ TransitMoveFails(t) \/ PutTicket(t)
    BY <1>2, <2>2
    DEF SwapOutFails, TransitQueue, TransitBusy, TransitMoveFails, PutTicket
  <2> QED
    BY <1>3, <2>1, <2>2, AcceptApart, SwapOutApart, SendTransitApart DEF TicketStep
<1>4. ASSUME NEW l \in Links, Busy(l) PROVE ApartAt(c)'
  BY <1>2, <1>4 DEF Busy
<1>5. ASSUME NEW d \in defects, Repair(d) PROVE ApartAt(c)'
  BY <1>2, <1>5 DEF Repair
<1>6. CASE UNCHANGED vars
  BY <1>2, <1>6 DEF vars
<1>7. CASE Next
  BY <1>7, <1>3, <1>4, <1>5, SwapApart, PutFileApart DEF Next
<1> QED
  BY <1>6, <1>7

-----------------------------------------------------------------------------
(* What is accepted under a ticket. *)

(* Nobody takes away and puts back what an exchange has put under a name.  *)
Undisturbed(t) == "race" \in setup.faults => ~AlsoInTransit(t)

ExchangeOK ==
  /\ \A t \in Tics : where[t] = "out" => setup.ticket[t].to # Us
  /\ swap # None =>
       /\ swap.other # File(swap.tic) /\ swap.other[1] = File(swap.tic)[1]
       /\ setup.ticket[swap.tic].crc # None
       /\ LET f == IF swap.step = "in" THEN swap.other ELSE File(swap.tic)
          IN  Undisturbed(swap.tic) =>
                \/ inbound[f] = setup.ticket[swap.tic].crc
                \/ inbound[f] = None /\ "race" \notin setup.faults

LEMMA NextExchange == TypeOK /\ KnownOK /\ ExchangeOK /\ [Next]_vars => ExchangeOK'
<1> SUFFICES ASSUME TypeOK, KnownOK, ExchangeOK, [Next]_vars PROVE ExchangeOK'
  OBVIOUS
<1>0. setup' = setup /\ situation' = situation
  <2>1. situation' = situation
    BY DEF Next, vars, TicketStep, SwapStep, Refuse, Accept, SwapOut, SwapIn, SwapBack,
           SwapOutFails, SwapInFails, SwapBackFails, TransitQueue, TransitBusy,
           TransitMoveFails, PutTicket, PutFile, SendTransit, Busy, Repair, Crash
  <2> QED
    BY <2>1 DEF setup
<1> DEFINE OutOK == \A t \in Tics : where[t] = "out" => setup.ticket[t].to # Us
<1>1. ASSUME NEW t \in Tics, NEW w, where' = [where EXCEPT ![t] = w],
             w = "out" => setup.ticket[t].to # Us
      PROVE  OutOK'
  <2>1. \A u \in Tics : where'[u] = IF u = t THEN w ELSE where[u]
    BY <1>1 DEF TypeOK
  <2> QED
    BY <1>0, <1>1, <2>1 DEF ExchangeOK
<1>2. ASSUME where' = where PROVE OutOK'
  BY <1>0, <1>2 DEF ExchangeOK
<1>3. ASSUME OutOK', swap' = None PROVE ExchangeOK'
  BY <1>3 DEF ExchangeOK
<1>4. ASSUME OutOK', UNCHANGED <<swap, inbound>> PROVE ExchangeOK'
  BY <1>0, <1>4 DEF ExchangeOK, Undisturbed, AlsoInTransit, File
<1>5. ASSUME NEW old \in Suffixes,
             NEW verdict \in {"OK", "NotOpen", "WrongTIC", "Security", "NotForUs",
                              "NotRecvd", "CantRename"}
      PROVE  Renamed(old, verdict) # "out"
  BY RenamedIs DEF Suffixes
<1>6. ASSUME NEW t \in Tics, Refuse(t) PROVE ExchangeOK'
  <2> DEFINE v == IF Failed(t) = ReceivedCheck /\ From(t) \in setup.delNotReceived
                  THEN "OK" ELSE Verdicts[Failed(t)]
  <2>0. where[t] \in Suffixes /\ Failed(t) \in 1 .. 12
    BY <1>6, FailedRange DEF Refuse, Turn, AllPassed
  <2>2. Renamed(where[t], v) # "out"
    BY <1>5, <2>0, VerdictIs
  <2>3. where' = [where EXCEPT ![t] = Renamed(where[t], v)]
    BY <1>6 DEF Refuse, Settle
  <2> HIDE DEF v
  <2>1. OutOK'
    BY <1>1, <2>2, <2>3
  <2> QED
    BY <1>3, <1>6, <2>1 DEF Refuse
<1>7. ASSUME NEW t \in Tics, Accept(t) PROVE ExchangeOK'
  <2>1. OutOK'
    BY <1>1, <1>5, <1>7 DEF Accept, Settle, Turn
  <2> QED
    BY <1>3, <1>7, <2>1 DEF Accept
<1>8. ASSUME NEW t \in Tics, NEW f \in FileName, SwapOut(t, f) PROVE ExchangeOK'
  <2>1. t \in DOMAIN setup.ticket /\ File(t) \in FileName
    BY <1>8, SetupFacts DEF SwapOut, KnownOK, Suffixes, TypeOK
  <2>2. /\ swap'.tic = t /\ swap'.other = f /\ swap'.step = "in"
        /\ inbound' = [inbound EXCEPT ![File(t)] = None]
    BY <1>8 DEF SwapOut
  <2>3. ~RightFile(t) /\ f \in Elsewhere(t)
    BY <1>8, SwappedFile DEF SwapOut
  <2>4. /\ f # File(t) /\ f[1] = File(t)[1] /\ inbound[f] = setup.ticket[t].crc
        /\ setup.ticket[t].crc # None
    BY <2>3 DEF RightFile, Elsewhere
  <2>5. inbound'[f] = setup.ticket[t].crc
    BY <2>1, <2>2, <2>4 DEF TypeOK
  <2>6. OutOK'
    BY <1>2, <1>8 DEF SwapOut
  <2> QED
    BY <1>0, <2>2, <2>4, <2>5, <2>6 DEF ExchangeOK, File
<1>9. ASSUME SwapIn \/ SwapBack \/ SwapBackFails PROVE ExchangeOK'
  <2>1. swap # None /\ swap \in Swap
    BY <1>9 DEF SwapIn, SwapBack, SwapBackFails, TypeOK
  <2>2. /\ swap.other \in FileName /\ swap.step \in Steps
        /\ File(swap.tic) \in FileName
    BY <2>1, SetupFacts DEF Swap, KnownOK, TypeOK
  <2>3. swap'.tic = swap.tic /\ swap'.other = swap.other
    BY <1>9, <2>1 DEF SwapIn, SwapBack, SwapBackFails, Swap
  <2>4. OutOK'
    BY <1>2, <1>9 DEF SwapIn, SwapBack, SwapBackFails
  <2>5. CASE SwapIn
    <3>1. swap'.step = "back" /\ swap.step = "in" /\ inbound[swap.other] # None
      BY <2>1, <2>5 DEF SwapIn, Swap
    <3>2. swap.other # File(swap.tic)
      BY <2>1 DEF ExchangeOK
    <3>3. inbound'[File(swap.tic)] = inbound[swap.other]
      BY <2>2, <2>5, <3>2 DEF SwapIn, TypeOK
    <3> QED
      BY <1>0, <2>1, <2>3, <2>4, <3>1, <3>2, <3>3
      DEF ExchangeOK, Undisturbed, AlsoInTransit, File
  <2>6. CASE SwapBack \/ SwapBackFails
    <3>1. swap'.step = "judge" /\ swap.step = "back"
      BY <2>1, <2>6 DEF SwapBack, SwapBackFails, Swap
    <3>2. swap.other # File(swap.tic)
      BY <2>1 DEF ExchangeOK
    <3>3. inbound'[File(swap.tic)] = inbound[File(swap.tic)]
      BY <2>2, <2>6, <3>2 DEF SwapBack, SwapBackFails, TypeOK
    <3> QED
      BY <1>0, <2>1, <2>3, <2>4, <3>1, <3>2, <3>3
      DEF ExchangeOK, Undisturbed, AlsoInTransit, File
  <2> QED
    BY <1>9, <2>5, <2>6
<1>10. ASSUME SwapInFails PROVE ExchangeOK'
  <2>1. swap # None /\ swap.tic \in Tics
    BY <1>10 DEF SwapInFails, TypeOK, Swap
  <2>2. where' = [where EXCEPT ![swap.tic] = Renamed(where[swap.tic], "CantRename")]
    BY <1>10 DEF SwapInFails, Settle
  <2>3. Renamed(where[swap.tic], "CantRename") \in {"acs", where[swap.tic]}
    BY DEF Renamed
  <2>4. OutOK'
    BY <1>1, <2>1, <2>2, <2>3 DEF ExchangeOK
  <2> QED
    BY <1>3, <1>10, <2>4 DEF SwapInFails
<1>11. ASSUME NEW t \in Tics, SwapOutFails(t) PROVE ExchangeOK'
  <2>1. OutOK'
    BY <1>1, <1>5, <1>11 DEF SwapOutFails, Settle
  <2> QED
    BY <1>4, <1>11, <2>1 DEF SwapOutFails
<1>12. ASSUME NEW t \in Tics, TransitQueue(t) PROVE ExchangeOK'
  <2>1. OutOK'
    BY <1>1, <1>12, TransitTo DEF TransitQueue
  <2> QED
    BY <1>4, <1>12, <2>1 DEF TransitQueue
<1>13. ASSUME NEW t \in Tics, TransitBusy(t) \/ TransitMoveFails(t) PROVE ExchangeOK'
  <2>1. OutOK'
    BY <1>1, <1>5, <1>13 DEF TransitBusy, TransitMoveFails, Settle, Turn
  <2> QED
    BY <1>4, <1>13, <2>1 DEF TransitBusy, TransitMoveFails
<1>14. ASSUME NEW t \in Tics, PutTicket(t) PROVE ExchangeOK'
  <2>1. OutOK'
    BY <1>1, <1>14 DEF PutTicket
  <2> QED
    BY <1>4, <1>14, <2>1 DEF PutTicket
<1>15. ASSUME NEW t \in Tics, SendTransit(t) PROVE ExchangeOK'
  <2>1. OutOK'
    BY <1>1, <1>15 DEF SendTransit
  <2>2. swap' = swap /\ inbound' = [inbound EXCEPT ![File(t)] = None]
    BY <1>15 DEF SendTransit
  <2>3. t \in DOMAIN setup.ticket /\ setup.ticket[t].to # Us
    BY <1>15 DEF SendTransit, KnownOK, ExchangeOK
  <2>4. CASE swap = None
    BY <1>3, <2>1, <2>2, <2>4
  <2>5. CASE swap # None
    <3> DEFINE f == IF swap.step = "in" THEN swap.other ELSE File(swap.tic)
    <3>1. f \in FileName /\ f[1] = File(swap.tic)[1]
      BY <2>5, SetupFacts DEF Swap, KnownOK, TypeOK, ExchangeOK
    <3>2. inbound'[f] = IF f = File(t) THEN None ELSE inbound[f]
      BY <2>2, <3>1 DEF TypeOK
    <3>3. f = File(t) => AlsoInTransit(swap.tic)
      BY <2>3, <3>1 DEF AlsoInTransit
    <3>4. Undisturbed(swap.tic) =>
             \/ inbound[f] = setup.ticket[swap.tic].crc
             \/ inbound[f] = None /\ "race" \notin setup.faults
      BY <2>5 DEF ExchangeOK
    <3> HIDE DEF f
    <3>5. Undisturbed(swap.tic) =>
             \/ inbound'[f] = setup.ticket[swap.tic].crc
             \/ inbound'[f] = None /\ "race" \notin setup.faults
      BY <3>2, <3>3, <3>4 DEF Undisturbed
    <3>6. Undisturbed(swap.tic)' <=> Undisturbed(swap.tic)
      BY <1>0, <2>2 DEF Undisturbed, AlsoInTransit, File
    <3> QED
      BY <1>0, <2>1, <2>2, <2>5, <3>5, <3>6 DEF ExchangeOK, File, f
  <2> QED
    BY <2>4, <2>5
<1>16. ASSUME NEW c \in Contents, PutFile(c) PROVE ExchangeOK'
  <2>1. PICK g \in FileName : inbound[g] = None /\ inbound' = [inbound EXCEPT ![g] = c]
    BY <1>16, PutFileName
  <2>2. OutOK'
    BY <1>2, <1>16 DEF PutFile
  <2>3. swap' = swap /\ (swap # None => "race" \in setup.faults)
    BY <1>16 DEF PutFile
  <2>4. CASE swap = None
    BY <1>3, <2>2, <2>3, <2>4
  <2>5. CASE swap # None
    <3> DEFINE f == IF swap.step = "in" THEN swap.other ELSE File(swap.tic)
    <3>1. f \in FileName /\ setup.ticket[swap.tic].crc # None
      BY <2>5, SetupFacts DEF Swap, KnownOK, TypeOK, ExchangeOK
    <3>2. inbound'[f] = IF f = g THEN c ELSE inbound[f]
      BY <2>1, <3>1 DEF TypeOK
    <3>3. Undisturbed(swap.tic) => inbound[f] = setup.ticket[swap.tic].crc
      BY <2>3, <2>5 DEF ExchangeOK
    <3> HIDE DEF f
    <3>4. Undisturbed(swap.tic) => inbound'[f] = setup.ticket[swap.tic].crc
      BY <2>1, <3>1, <3>2, <3>3
    <3>5. Undisturbed(swap.tic)' <=> Undisturbed(swap.tic)
      BY <1>0, <2>3 DEF Undisturbed, AlsoInTransit, File
    <3> QED
      BY <1>0, <2>2, <2>3, <2>5, <3>4, <3>5 DEF ExchangeOK, File, f
  <2> QED
    BY <2>4, <2>5
<1>17. ASSUME NEW l \in Links, Busy(l) PROVE ExchangeOK'
  BY <1>2, <1>4, <1>17 DEF Busy
<1>18. ASSUME NEW d \in defects, Repair(d) PROVE ExchangeOK'
  BY <1>2, <1>4, <1>18 DEF Repair
<1>19. ASSUME Crash PROVE ExchangeOK'
  BY <1>2, <1>3, <1>19 DEF Crash
<1>20. CASE UNCHANGED vars
  BY <1>2, <1>4, <1>20 DEF vars
<1>21. CASE Next
  BY <1>21, <1>6, <1>7, <1>8, <1>9, <1>10, <1>11, <1>12, <1>13, <1>14, <1>15, <1>16,
     <1>17, <1>18, <1>19 DEF Next, TicketStep, SwapStep
<1> QED
  BY <1>20, <1>21

(* What sendToLinks takes without another look at the checksum.            *)
LEMMA AcceptedIsRight ==
  ASSUME ExchangeOK, NEW t \in Tics, Accept(t), Area(t) \notin setup.noCrc, Undisturbed(t)
  PROVE  setup.ticket[t].crc \in {None, inbound[File(t)]}
<1>1. Received(t) /\ (swap = None => RightFile(t))
  BY AcceptedFile DEF Accept
<1>2. CASE swap = None
  BY <1>1, <1>2 DEF RightFile
<1>3. CASE swap # None
  <2>1. swap.tic = t /\ swap.step = "judge"
    BY <1>3 DEF Accept, Turn
  <2> QED
    BY <1>1, <1>3, <2>1 DEF ExchangeOK, Received
<1> QED
  BY <1>2, <1>3

LEMMA NextTaken ==
  TypeOK /\ KnownOK /\ ExchangeOK /\ TakenIsTicketed /\ [Next]_vars => TakenIsTicketed'
<1> SUFFICES ASSUME TypeOK, KnownOK, ExchangeOK, TakenIsTicketed, [Next]_vars
             PROVE  TakenIsTicketed'
  OBVIOUS
<1>1. ASSUME UNCHANGED <<situation, took>> PROVE TakenIsTicketed'
  BY <1>1 DEF TakenIsTicketed, AlsoInTransit, setup, Area, File
<1>2. ASSUME NEW t \in Tics, Accept(t) PROVE TakenIsTicketed'
  <2>1. took' = [took EXCEPT ![t] = inbound[File(t)]] /\ setup' = setup
    BY <1>2 DEF Accept, setup
  <2>2. \A u \in Tics : took'[u] = IF u = t THEN inbound[File(t)] ELSE took[u]
    BY <2>1 DEF TypeOK
  <2>3. Area(t) \notin setup.noCrc /\ Undisturbed(t)
          => setup.ticket[t].crc \in {None, inbound[File(t)]}
    BY <1>2, AcceptedIsRight
  <2> QED
    BY <2>1, <2>2, <2>3 DEF TakenIsTicketed, Undisturbed, AlsoInTransit, Area, File
<1>3. ASSUME NEW t \in Tics, TicketStep(t) \/ PutTicket(t) \/ SendTransit(t)
      PROVE  TakenIsTicketed'
  BY <1>1, <1>2, <1>3
  DEF TicketStep, Refuse, SwapOutFails, SwapOut, TransitQueue, TransitBusy,
      TransitMoveFails, PutTicket, SendTransit
<1>4. ASSUME SwapStep \/ Crash PROVE TakenIsTicketed'
  BY <1>1, <1>4 DEF SwapStep, SwapIn, SwapBack, SwapInFails, SwapBackFails, Crash
<1>5. ASSUME NEW c \in Contents, PutFile(c) PROVE TakenIsTicketed'
  BY <1>1, <1>5 DEF PutFile
<1>6. ASSUME NEW l \in Links, Busy(l) PROVE TakenIsTicketed'
  BY <1>1, <1>6 DEF Busy
<1>7. ASSUME NEW d \in defects, Repair(d) PROVE TakenIsTicketed'
  BY <1>1, <1>7 DEF Repair
<1>8. CASE UNCHANGED vars
  BY <1>1, <1>8 DEF vars
<1>9. CASE Next
  BY <1>9, <1>3, <1>4, <1>5, <1>6, <1>7 DEF Next
<1> QED
  BY <1>8, <1>9

-----------------------------------------------------------------------------
(* Tickets that are gone. *)

DroppedOK ==
  /\ NoTicketDropped
  /\ bsy # {} => setup.faults \cap {"busy", "move"} # {}
  /\ \A t \in Tics : where[t] \in Suffixes \cup {"away"} => took[t] = None
  /\ swap # None /\ swap.step # "judge" => where[swap.tic] \in Suffixes

(* A ticket that comes to an end in a step must have been dealt with.      *)
LEMMA WhereDropped ==
  ASSUME TypeOK, DroppedOK, NEW t \in Tics, NEW w,
         UNCHANGED <<situation, took>>,
         where' = [where EXCEPT ![t] = w],
         bsy' = bsy \/ setup.faults \cap {"busy", "move"} # {},
         w = "gone" => From(t) \in setup.delNotReceived
                       \/ (setup.ticket[t].to # Us
                           /\ setup.faults \cap {"busy", "move"} # {}),
         w \in Suffixes => took[t] = None, w # "away",
         swap' # None => swap' = swap /\ (swap.step = "judge" \/ swap.tic # t)
  PROVE  DroppedOK'
<1>1. setup' = setup
  BY DEF setup
<1>2. \A u \in Tics : where'[u] = IF u = t THEN w ELSE where[u]
  BY DEF TypeOK
<1>3. NoTicketDropped'
  BY <1>1, <1>2 DEF DroppedOK, NoTicketDropped, Dropped, From
<1> QED
  BY <1>1, <1>2, <1>3 DEF DroppedOK

LEMMA NextDropped == TypeOK /\ KnownOK /\ DroppedOK /\ [Next]_vars => DroppedOK'
<1> SUFFICES ASSUME TypeOK, KnownOK, DroppedOK, [Next]_vars PROVE DroppedOK'
  OBVIOUS
<1>1. ASSUME UNCHANGED <<situation, where, took>>,
             bsy' = bsy \/ setup.faults \cap {"busy", "move"} # {},
             \/ swap' = swap \/ swap' = None \/ swap'.step = "judge"
             \/ where[swap'.tic] \in Suffixes
      PROVE  DroppedOK'
  BY <1>1 DEF DroppedOK, NoTicketDropped, Dropped, From, setup
<1>2. ASSUME NEW t \in Tics, Refuse(t) PROVE DroppedOK'
  <2>1. where[t] \in Suffixes /\ Failed(t) \in 1 .. 12
    BY <1>2, FailedRange DEF Refuse, Turn, AllPassed
  <2> DEFINE v == IF Failed(t) = ReceivedCheck /\ From(t) \in setup.delNotReceived
                  THEN "OK" ELSE Verdicts[Failed(t)]
  <2>2. where' = [where EXCEPT ![t] = Renamed(where[t], v)]
    BY <1>2 DEF Refuse, Settle
  <2>3. v = "OK" => From(t) \in setup.delNotReceived
    BY <2>1, VerdictIs
  <2>4. v \in {"OK", "NotOpen", "WrongTIC", "Security", "NotForUs", "NotRecvd"}
    BY <2>1, VerdictIs
  <2> HIDE DEF v
  <2>5. Renamed(where[t], v) = "gone" => v = "OK"
    BY <2>1, <2>4 DEF Renamed, Suffixes
  <2> QED
    <3>1. Renamed(where[t], v) # "away"
      BY <2>1, <2>4, RenamedIs DEF Suffixes
    <3>2. took[t] = None
      BY <2>1 DEF DroppedOK
    <3> QED
      BY <1>2, <2>2, <2>3, <2>5, <3>1, <3>2, WhereDropped DEF Refuse
<1>3. ASSUME NEW t \in Tics, Accept(t) PROVE DroppedOK'
  <2>1. inbound[File(t)] # None
    BY <1>3, AcceptedFile DEF Accept, Received
  <2>2. where' = [where EXCEPT ![t] = "gone"]
    BY <1>3 DEF Accept, Settle, Renamed
  <2>3. /\ \A u \in Tics : where'[u] = IF u = t THEN "gone" ELSE where[u]
        /\ \A u \in Tics : took'[u] = IF u = t THEN inbound[File(t)] ELSE took[u]
        /\ setup' = setup /\ bsy' = bsy /\ swap' = None
    BY <1>3, <2>2 DEF Accept, TypeOK, setup
  <2> QED
    BY <2>1, <2>3 DEF DroppedOK, NoTicketDropped, Dropped, From, Suffixes
<1>4. ASSUME NEW t \in Tics, SwapOutFails(t) PROVE DroppedOK'
  <2>1. Renamed(where[t], "NotRecvd") \in Suffixes /\ where[t] \in Suffixes
    BY <1>4 DEF SwapOutFails, Renamed, Suffixes
  <2>2. Renamed(where[t], "NotRecvd") \notin {"gone", "away"}
    BY <2>1 DEF Suffixes
  <2> QED
    BY <1>4, <2>1, <2>2, WhereDropped DEF SwapOutFails, Settle, DroppedOK
<1>5. ASSUME NEW t \in Tics, TransitQueue(t) \/ PutTicket(t) \/ SendTransit(t)
      PROVE  DroppedOK'
  <2>1. swap # None => swap.step = "judge" \/ swap.tic # t
    BY <1>5 DEF TransitQueue, Turn, PutTicket, SendTransit, DroppedOK, Suffixes
  <2> QED
    BY <1>5, <2>1, WhereDropped
    DEF TransitQueue, PutTicket, SendTransit, Suffixes, DroppedOK
<1>6. ASSUME NEW t \in Tics, TransitBusy(t) \/ TransitMoveFails(t) PROVE DroppedOK'
  <2>1. where' = [where EXCEPT ![t] = "gone"] /\ InTransit(t)
    BY <1>6 DEF TransitBusy, TransitMoveFails, Settle, Renamed
  <2>2. setup.ticket[t].to # Us
    BY <2>1, TransitTo
  <2>3. setup.faults \cap {"busy", "move"} # {}
    BY <1>6 DEF TransitBusy, TransitMoveFails, DroppedOK
  <2> QED
    BY <1>6, <2>1, <2>2, <2>3, WhereDropped
    DEF TransitBusy, TransitMoveFails, Turn, Suffixes
<1>7. ASSUME SwapInFails PROVE DroppedOK'
  <2>1. swap.tic \in Tics /\ where[swap.tic] \in Suffixes
    BY <1>7 DEF SwapInFails, TypeOK, Swap, DroppedOK
  <2>2. Renamed(where[swap.tic], "CantRename") \in {"acs", where[swap.tic]}
    BY DEF Renamed
  <2> QED
    BY <1>7, <2>1, <2>2, WhereDropped DEF SwapInFails, Settle, DroppedOK, Suffixes
<1>8. ASSUME SwapIn \/ SwapBack \/ SwapBackFails \/ Crash PROVE DroppedOK'
  <2>1. \/ swap' = None \/ swap'.step = "judge"
        \/ where[swap'.tic] \in Suffixes
    BY <1>8 DEF SwapIn, SwapBack, SwapBackFails, Crash, TypeOK, Swap, DroppedOK
  <2> QED
    BY <1>1, <1>8, <2>1 DEF SwapIn, SwapBack, SwapBackFails, Crash
<1>9. ASSUME NEW c \in Contents, PutFile(c) PROVE DroppedOK'
  BY <1>1, <1>9 DEF PutFile
<1>10. ASSUME NEW l \in Links, Busy(l) PROVE DroppedOK'
  BY <1>1, <1>10 DEF Busy
<1>11. ASSUME NEW d \in defects, Repair(d) PROVE DroppedOK'
  BY <1>1, <1>11 DEF Repair
<1>12. ASSUME NEW t \in Tics, NEW f \in FileName, SwapOut(t, f) PROVE DroppedOK'
  BY <1>1, <1>12 DEF SwapOut
<1>13. CASE UNCHANGED vars
  BY <1>1, <1>13 DEF vars
<1>14. CASE Next
  BY <1>14, <1>2, <1>3, <1>4, <1>5, <1>6, <1>7, <1>8, <1>9, <1>10, <1>11, <1>12
  DEF Next, TicketStep, SwapStep
<1> QED
  BY <1>13, <1>14

-----------------------------------------------------------------------------
(* Files that stay.  While names are exchanged and no mailer interferes,   *)
(* the name that is to be filled next is free.                             *)

SwapOK ==
  swap # None =>
    /\ swap.step = "judge" => swap.tmp = None
    /\ "race" \notin setup.faults =>
         /\ swap.step = "in" => /\ inbound[File(swap.tic)] = None
                                /\ swap.other # File(swap.tic)
         /\ swap.step = "back" => inbound[swap.other] = None

LEMMA NextSwap == TypeOK /\ KnownOK /\ SwapOK /\ [Next]_vars => SwapOK'
<1> SUFFICES ASSUME TypeOK, KnownOK, SwapOK, [Next]_vars PROVE SwapOK'
  OBVIOUS
<1>1. ASSUME situation' = situation, swap' = swap,
             swap # None /\ "race" \notin setup.faults =>
               \A f \in FileName : inbound[f] = None => inbound'[f] = None
      PROVE  SwapOK'
  <2>1. setup' = setup
    BY <1>1 DEF setup
  <2>2. swap # None => swap.other \in FileName /\ File(swap.tic) \in FileName
    BY SetupFacts DEF TypeOK, KnownOK, Swap
  <2> QED
    BY <1>1, <2>1, <2>2 DEF SwapOK, File
<1>2. ASSUME swap' = None PROVE SwapOK'
  BY <1>2 DEF SwapOK
<1>3. ASSUME NEW t \in Tics, NEW f \in FileName, SwapOut(t, f) PROVE SwapOK'
  <2>1. t \in DOMAIN setup.ticket /\ File(t) \in FileName
    BY <1>3, SetupFacts DEF SwapOut, KnownOK, Suffixes, TypeOK
  <2>2. /\ swap'.tic = t /\ swap'.other = f /\ swap'.step = "in"
        /\ inbound' = [inbound EXCEPT ![File(t)] = None] /\ setup' = setup
    BY <1>3 DEF SwapOut, setup
  <2>3. f # File(t)
    BY <1>3, SwappedFile DEF SwapOut, Elsewhere, RightFile
  <2>4. inbound'[File(t)] = None
    BY <2>1, <2>2 DEF TypeOK
  <2> QED
    BY <2>2, <2>3, <2>4 DEF SwapOK, File
<1>4. ASSUME SwapStep PROVE SwapOK'
  <2>1. swap # None /\ swap \in Swap /\ swap.other \in FileName
    BY <1>4 DEF SwapStep, SwapIn, SwapBack, SwapInFails, SwapBackFails, TypeOK, Swap
  <2>2. CASE SwapIn
    <3>1. swap'.step = "back" /\ swap'.other = swap.other /\ inbound'[swap.other] = None
      BY <2>1, <2>2 DEF SwapIn, Swap, TypeOK
    <3> QED
      BY <3>1 DEF SwapOK
  <2>3. CASE SwapBack \/ SwapBackFails
    <3>1. swap'.step = "judge" /\ swap'.tmp = None
      BY <2>1, <2>3 DEF SwapBack, SwapBackFails, Swap
    <3> QED
      BY <3>1 DEF SwapOK
  <2> QED
    BY <1>2, <1>4, <2>2, <2>3 DEF SwapStep, SwapInFails
<1>5. ASSUME NEW t \in Tics, SendTransit(t) PROVE SwapOK'
  BY <1>1, <1>5 DEF SendTransit, TypeOK
<1>6. ASSUME NEW c \in Contents, PutFile(c) PROVE SwapOK'
  BY <1>1, <1>6 DEF PutFile
<1>7. CASE UNCHANGED <<situation, swap, inbound>>
  BY <1>1, <1>7
<1>8. CASE UNCHANGED vars
  BY <1>7, <1>8 DEF vars
<1>9. ASSUME NEW t \in Tics, TicketStep(t) \/ PutTicket(t) PROVE SwapOK'
  BY <1>2, <1>3, <1>7, <1>9
  DEF TicketStep, PutTicket, Refuse, Accept, SwapOutFails, TransitQueue,
      TransitBusy, TransitMoveFails
<1>10. ASSUME NEW l \in Links, Busy(l) PROVE SwapOK'
  BY <1>7, <1>10 DEF Busy
<1>11. ASSUME NEW d \in defects, Repair(d) PROVE SwapOK'
  BY <1>7, <1>11 DEF Repair
<1>12. ASSUME Crash PROVE SwapOK'
  BY <1>2, <1>12 DEF Crash
<1>13. CASE Next
  BY <1>13, <1>4, <1>5, <1>6, <1>9, <1>10, <1>11, <1>12 DEF Next
<1> QED
  BY <1>8, <1>13

(* Every step keeps every file, if renames can be undone and no mailer     *)
(* interferes.                                                             *)
LEMMA NextStays ==
  ASSUME TypeOK, KnownOK, DroppedOK, SwapOK, [Next]_vars,
         setup.faults \cap {"remove", "race"} = {},
         NEW c \in Contents, Arrived(c)
  PROVE  Arrived(c)'
<1>1. \/ c \in passed \/ c \in stray
      \/ \E f \in FileName : inbound[f] = c
      \/ \E t \in Tics : took[t] = c
      \/ swap # None /\ swap.tmp = c
  BY DEF Arrived
<1>2. c # None
  BY SetupFacts DEF TypeOK
<1>3. ASSUME UNCHANGED <<passed, stray, inbound, took>>,
             swap' = swap \/ (swap' = None /\ (swap # None => swap.tmp = None))
      PROVE  Arrived(c)'
  BY <1>1, <1>2, <1>3 DEF Arrived
<1>4. ASSUME NEW t \in Tics, Turn(t) PROVE swap # None => swap.tmp = None
  BY <1>4 DEF Turn, SwapOK
<1>5. ASSUME NEW t \in Tics, Accept(t) PROVE Arrived(c)'
  <2>1. took[t] = None /\ File(t) \in FileName
    BY <1>5, SetupFacts DEF Accept, Turn, DroppedOK, KnownOK, Suffixes, TypeOK
  <2>2. /\ \A f \in FileName : inbound'[f] = IF f = File(t) THEN None ELSE inbound[f]
        /\ \A u \in Tics : took'[u] = IF u = t THEN inbound[File(t)] ELSE took[u]
        /\ passed' = passed /\ stray' = stray
    BY <1>5, <2>1 DEF Accept, TypeOK
  <2>3. swap # None => swap.tmp = None
    BY <1>4, <1>5 DEF Accept
  <2> QED
    BY <1>1, <1>2, <2>1, <2>2, <2>3 DEF Arrived
<1>6. ASSUME NEW t \in Tics, NEW g \in FileName, SwapOut(t, g) PROVE Arrived(c)'
  <2>1. File(t) \in FileName
    BY <1>6, SetupFacts DEF SwapOut, KnownOK, Suffixes, TypeOK
  <2>2. /\ \A f \in FileName : inbound'[f] = IF f = File(t) THEN None ELSE inbound[f]
        /\ took' = took /\ passed' = passed /\ stray' = stray
        /\ swap = None /\ swap'.tmp = inbound[File(t)]
    BY <1>6, <2>1 DEF SwapOut, TypeOK
  <2>3. swap' # None
    <3>1. swap' \in Swap
      BY <1>6, <2>1 DEF SwapOut, Swap, Steps, TypeOK
    <3> QED
      BY <3>1, NoneAssumption
  <2> QED
    BY <1>1, <1>2, <2>1, <2>2, <2>3 DEF Arrived
<1>7. ASSUME SwapStep \/ Crash PROVE Arrived(c)'
  <2>1. /\ swap # None /\ swap \in Swap
        /\ swap.other \in FileName /\ File(swap.tic) \in FileName
    <3>1. swap # None /\ swap \in Swap
      BY <1>7 DEF SwapStep, SwapIn, SwapBack, SwapInFails, SwapBackFails, Crash, TypeOK
    <3> QED
      BY <3>1, SetupFacts DEF Swap, KnownOK, TypeOK
  <2>2. took' = took /\ passed' = passed
    BY <1>7 DEF SwapStep, SwapIn, SwapBack, SwapInFails, SwapBackFails, Crash
  <2>3. CASE SwapIn
    <3>1. inbound[File(swap.tic)] = None /\ swap.other # File(swap.tic)
      BY <2>3 DEF SwapIn, SwapOK
    <3>2. /\ inbound'[File(swap.tic)] = inbound[swap.other] /\ stray' = stray
          /\ \A f \in FileName : f # File(swap.tic) /\ f # swap.other =>
               inbound'[f] = inbound[f]
      BY <2>1, <2>3, <3>1 DEF SwapIn, TypeOK
    <3>3. swap'.tmp = swap.tmp /\ swap' # None
      <4>1. swap' \in Swap /\ swap'.tmp = swap.tmp
        BY <2>1, <2>3 DEF SwapIn, Swap, Steps
      <4> QED
        BY <4>1, NoneAssumption
    <3>4. (\E f \in FileName : inbound[f] = c) => \E f \in FileName : inbound'[f] = c
      BY <1>2, <2>1, <3>1, <3>2
    <3> QED
      BY <1>1, <2>2, <3>2, <3>3, <3>4 DEF Arrived
  <2>4. CASE SwapBack
    <3>1. inbound[swap.other] = None
      BY <2>4 DEF SwapBack, SwapOK
    <3>2. /\ \A f \in FileName :
               inbound'[f] = IF f = swap.other THEN swap.tmp ELSE inbound[f]
          /\ stray' = stray
      BY <2>1, <2>4 DEF SwapBack, TypeOK
    <3>3. (\E f \in FileName : inbound[f] = c) \/ swap.tmp = c
            => \E f \in FileName : inbound'[f] = c
      BY <1>2, <2>1, <3>1, <3>2
    <3> QED
      BY <1>1, <2>2, <3>2, <3>3 DEF Arrived
  <2>5. CASE SwapInFails
    <3>1. inbound[File(swap.tic)] = None
      BY <2>5 DEF SwapInFails, SwapOK
    <3>2. CASE stray' = stray
               /\ inbound' = [inbound EXCEPT ![File(swap.tic)] = swap.tmp]
      <4>1. \A f \in FileName :
              inbound'[f] = IF f = File(swap.tic) THEN swap.tmp ELSE inbound[f]
        BY <2>1, <3>2 DEF TypeOK
      <4>2. (\E f \in FileName : inbound[f] = c) \/ swap.tmp = c
              => \E f \in FileName : inbound'[f] = c
        BY <1>2, <2>1, <3>1, <4>1
      <4> QED
        BY <1>1, <2>2, <3>2, <4>2 DEF Arrived
    <3>3. CASE inbound' = inbound /\ stray' = stray \cup {swap.tmp}
      BY <1>1, <2>2, <3>3 DEF Arrived
    <3> QED
      BY <2>5, <3>2, <3>3 DEF SwapInFails
  <2>6. CASE Crash
    <3>1. inbound' = inbound /\ stray' = stray \cup ({swap.tmp} \ {None})
      BY <2>6 DEF Crash
    <3> QED
      BY <1>1, <1>2, <2>2, <3>1 DEF Arrived
  <2>7. ~SwapBackFails
    BY DEF SwapBackFails
  <2> QED
    BY <1>7, <2>3, <2>4, <2>5, <2>6, <2>7 DEF SwapStep
<1>8. ASSUME NEW t \in Tics, SendTransit(t) PROVE Arrived(c)'
  <2>1. File(t) \in FileName
    BY <1>8, SetupFacts DEF SendTransit, KnownOK, TypeOK
  <2>2. /\ \A f \in FileName : inbound'[f] = IF f = File(t) THEN None ELSE inbound[f]
        /\ took' = took /\ stray' = stray /\ swap' = swap
        /\ passed' = passed \cup ({inbound[File(t)]} \ {None})
    BY <1>8, <2>1 DEF SendTransit, TypeOK
  <2> QED
    BY <1>1, <1>2, <2>1, <2>2 DEF Arrived
<1>9. ASSUME NEW d \in Contents, PutFile(d) PROVE Arrived(c)'
  <2>1. PICK g \in FileName : inbound[g] = None /\ inbound' = [inbound EXCEPT ![g] = d]
    BY <1>9, PutFileName
  <2>2. /\ \A f \in FileName : inbound'[f] = IF f = g THEN d ELSE inbound[f]
        /\ took' = took /\ stray' = stray /\ swap' = swap /\ passed' = passed
    BY <1>9, <2>1 DEF PutFile, TypeOK
  <2> QED
    BY <1>1, <1>2, <2>1, <2>2 DEF Arrived
<1>10. ASSUME NEW t \in Tics, Refuse(t) PROVE Arrived(c)'
  BY <1>3, <1>4, <1>10 DEF Refuse
<1>11. ASSUME NEW t \in Tics, \/ SwapOutFails(t) \/ TransitQueue(t) \/ TransitBusy(t)
                              \/ TransitMoveFails(t) \/ PutTicket(t)
       PROVE  Arrived(c)'
  BY <1>3, <1>11 DEF SwapOutFails, TransitQueue, TransitBusy, TransitMoveFails, PutTicket
<1>12. ASSUME NEW l \in Links, Busy(l) PROVE Arrived(c)'
  BY <1>3, <1>12 DEF Busy
<1>13. ASSUME NEW d \in defects, Repair(d) PROVE Arrived(c)'
  BY <1>3, <1>13 DEF Repair
<1>14. CASE UNCHANGED vars
  BY <1>3, <1>14 DEF vars
<1>15. CASE Next
  BY <1>15, <1>5, <1>6, <1>7, <1>8, <1>9, <1>10, <1>11, <1>12, <1>13
  DEF Next, TicketStep
<1> QED
  BY <1>14, <1>15

-----------------------------------------------------------------------------
IInv == /\ TypeOK /\ KnownOK /\ Apart /\ ExchangeOK /\ TakenIsTicketed
        /\ DroppedOK /\ SwapOK

LEMMA Invariance == Spec => []IInv
<1>1. Init => IInv
  <2> SUFFICES ASSUME Init PROVE IInv
    OBVIOUS
  <2>1. TypeOK /\ KnownOK
    BY DEF Init, TypeOK, KnownOK
  <2>2. Apart
    BY SetupFacts DEF Init, Apart, ApartAt, Named, Taken, Aside
  <2>3. DroppedOK /\ SwapOK /\ ExchangeOK
    BY DEF Init, ExchangeOK, DroppedOK, NoTicketDropped, Dropped, SwapOK, Suffixes
  <2> QED
    BY <2>1, <2>2, <2>3 DEF IInv, Init, TakenIsTicketed
<1>2. IInv /\ [Next]_vars => IInv'
  BY NextType, NextApart, NextExchange, NextTaken, NextDropped, NextSwap DEF IInv
<1> QED
  BY <1>1, <1>2, PTL DEF Spec

(* In any situation every variable keeps its type. *)
THEOREM TypeCorrect == Spec => []TypeOK
<1>1. IInv => TypeOK
  BY DEF IInv
<1> QED
  BY <1>1, Invariance, PTL

(* However many tickets and files come, whatever their names, whichever    *)
(* renames fail and wherever the process is killed or raced by a mailer:   *)
(* no file is ever in two places.                                          *)
THEOREM NeverTwice == Spec => []InOnePlace
<1>1. IInv => InOnePlace
  BY ApartCounts DEF IInv, Apart, InOnePlace
<1> QED
  BY <1>1, Invariance, PTL

(* Whatever happens to the names in the inbound, the file accepted under a *)
(* ticket is the one that the ticket describes, although its checksum is   *)
(* not compared again after an exchange of names; excepted are areas with  *)
(* noCRC, and a mailer that sends a file of that base on in transit and    *)
(* puts another under the name while the exchange goes on.                 *)
THEOREM RightFileTaken == Spec => []TakenIsTicketed
<1>1. IInv => TakenIsTicketed
  BY DEF IInv
<1> QED
  BY <1>1, Invariance, PTL

(* A ticket is deleted only when its file has been accepted, sent on or    *)
(* given up, but for tickets in transit to a link that is busy or whose    *)
(* directory cannot be written.                                            *)
THEOREM TicketsKept == Spec => []NoTicketDropped
<1>1. IInv => NoTicketDropped
  BY DEF IInv, DroppedOK
<1> QED
  BY <1>1, Invariance, PTL

(* A file that has come in leaves the inbound only into its area or to     *)
(* another system, unless the last rename of an exchange fails or a mailer *)
(* takes the name that is free during it.                                  *)
THEOREM FilesKept == Spec => NothingDeleted
<1> DEFINE A == setup.faults \cap {"remove", "race"} = {} =>
                  \A c \in Contents : Places(c) = 1 => Places(c)' = 1
<1>1. IInv /\ IInv' /\ [Next]_vars => [A]_vars
  <2> SUFFICES ASSUME IInv, IInv', [Next]_vars,
                      setup.faults \cap {"remove", "race"} = {},
                      NEW c \in Contents, Places(c) = 1
               PROVE  Places(c)' = 1
    OBVIOUS
  <2>1. Arrived(c)
    BY ApartCounts DEF IInv, Apart
  <2>2. Arrived(c)'
    BY <2>1, NextStays DEF IInv
  <2>3. Counted'
    BY CountedIfApart, PTL DEF IInv
  <2> QED
    BY <2>2, <2>3 DEF Counted
<1> QED
  BY <1>1, Invariance, PTL DEF Spec, NothingDeleted
=============================================================================
