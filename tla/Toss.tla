-------------------------------- MODULE Toss --------------------------------
(***************************************************************************)
(* The inbound: what toss and toss -b do to each ticket they find there    *)
(* (processDir, processTic), while the mailer puts in files and tickets    *)
(* and the sysop repairs the configuration.                                *)
(*                                                                         *)
(* A file is known by its name, and names are not reliable: a mailer that  *)
(* receives a second file of the same name gives it another suffix.  The   *)
(* checksum in the ticket tells; processTic then looks for the right file  *)
(* under the other suffixes and exchanges the names, in three renames, and *)
(* takes what has the name then, without comparing the checksum again.     *)
(*                                                                         *)
(* The module ends where sendToLinks has put a file into its area: whether *)
(* the area keeps it (a later file of the same name, a Replaces line) and  *)
(* what the links get is the business of Store and Outbound.               *)
(***************************************************************************)
EXTENDS Naturals, FiniteSets, FiniteSetsExt

CONSTANTS
  Tics, Bases, Contents, Areas, Links,
  None, Us,
  LastSuffix,     \* bound: a base name has the suffixes 0 .. LastSuffix
  BaseOf,         \* [Contents -> Bases] the name a file is sent under
  Setups          \* situations: what is sent, how htick is configured (IsSetup)

FaultKinds == {"crash", "rename", "remove", "busy", "move", "race"}

FileName == Bases \X (0 .. LastSuffix)

TicketData == [file : FileName, from : Links, to : Links \cup {Us}, area : Areas,
               crc : Contents \cup {None}, form : {"good", "bad", "path"}]

(* A defect: a ticket that cannot be read; a link that is not known or has *)
(* another password; an area that does not exist, whose directory cannot   *)
(* be written, or that a link may not write to; a passFileAreaDir that     *)
(* cannot be written.                                                      *)
Defect == {"read"} \X Tics \cup {"link", "password"} \X Links
          \cup {"area", "directory"} \X Areas \cup {"write"} \X (Links \X Areas)
          \cup {<<"directory", "pass">>}

(* The tickets that come, and those of them whose file is copied to its    *)
(* area and then moved to passFileAreaDir (sendorig, an AltFile line); the *)
(* areas with noCRC, and with noreplace and without rename; the links with *)
(* delNotReceivedTIC, those that may create areas and those tickets in     *)
(* transit are routed to; whether htick is started in the inbound; what is *)
(* wrong at first; and what may go wrong.                                  *)
IsSetup(s) ==
  /\ DOMAIN s.ticket \subseteq Tics
  /\ \A t \in DOMAIN s.ticket : s.ticket[t] \in TicketData
  /\ s.viaPass \subseteq Tics
  /\ s.noCrc \subseteq Areas /\ s.noReplace \subseteq Areas
  /\ s.delNotReceived \subseteq Links /\ s.autoCreate \subseteq Links
  /\ s.forward \subseteq Links
  /\ s.cwdIsInbound \in BOOLEAN
  /\ s.broken \subseteq Defect /\ s.faults \subseteq FaultKinds

ASSUME TossAssumption ==
  /\ LastSuffix \in Nat
  /\ BaseOf \in [Contents -> Bases]
  /\ None \notin Contents /\ Us \notin Links
  /\ \A n \in DOMAIN Setups : IsSetup(Setups[n])

Suffixes == {"tic", "sec", "acs", "bad", "ntu"}
Steps == {"in", "back", "judge"}
Swap == [tic : Tics, other : FileName, tmp : Contents \cup {None}, step : Steps]

ASSUME NoneAssumption == None \notin Swap

VARIABLES
  situation, \* which of them it is; it does not change
  where,   \* [Tics -> ...] away, in the inbound with a suffix, or no more
  inbound, \* [FileName -> Contents \cup {None}]
  took,    \* [Tics -> Contents \cup {None}] what was accepted under a ticket
  copied,  \* tickets whose file was copied to the area and could not be moved
  passed,  \* contents that went on to another system, in transit
  stray,   \* contents left under a temporary name
  swap,    \* the exchange of names in progress, or None
  defects, \* what is wrong with the configuration
  bsy      \* links with a .bsy

vars == <<situation, where, inbound, took, copied, passed, stray, swap, defects, bsy>>

setup == Setups[situation]

TypeOK ==
  /\ situation \in DOMAIN Setups
  /\ where \in [Tics -> Suffixes \cup {"away", "out", "sent", "gone"}]
  /\ inbound \in [FileName -> Contents \cup {None}]
  /\ took \in [Tics -> Contents \cup {None}]
  /\ copied \in SUBSET Tics
  /\ passed \in SUBSET Contents
  /\ stray \in SUBSET Contents
  /\ swap \in Swap \cup {None}
  /\ defects \in SUBSET setup.broken
  /\ bsy \in SUBSET Links

Init ==
  /\ situation \in DOMAIN Setups
  /\ where = [t \in Tics |-> "away"]
  /\ inbound = [f \in FileName |-> None]
  /\ took = [t \in Tics |-> None]
  /\ copied = {} /\ passed = {} /\ stray = {}
  /\ swap = None
  /\ defects = setup.broken
  /\ bsy = {}

-----------------------------------------------------------------------------
(* processTic's checks. *)

File(t) == setup.ticket[t].file
From(t) == setup.ticket[t].from
Area(t) == setup.ticket[t].area

Received(t) == inbound[File(t)] # None

RightFile(t) ==
  \/ Area(t) \in setup.noCrc \/ setup.ticket[t].crc = None
  \/ inbound[File(t)] = setup.ticket[t].crc

(* The area has a file of that name: accepted, or copied and not moved on. *)
InArea(t) ==
  \E u \in Tics : /\ took[u] # None \/ u \in copied
                  /\ Area(u) = Area(t) /\ File(u) = File(t)

(* An area that is missing is created for a link that may have it created, *)
(* and that link may then write to it.                                     *)
Created(t) == <<"area", Area(t)>> \in defects /\ From(t) \in setup.autoCreate

Well(what, who) == <<what, who>> \notin defects

(* The checks in their order, and the verdict when one fails; the last     *)
(* three are sendToLinks'.                                                 *)
Passes(t, check) ==
  CASE check = 1  -> Well("read", t)
    [] check = 2  -> setup.ticket[t].form # "bad"
    [] check = 3  -> setup.ticket[t].form # "path"
    [] check = 4  -> setup.ticket[t].to = Us
    [] check = 5  -> Well("link", From(t)) /\ Well("password", From(t))
    [] check = 6  -> Received(t)
    [] check = 7  -> Well("area", Area(t)) \/ Created(t)
    [] check = 8  -> RightFile(t)
    [] check = 9  -> Well("write", <<From(t), Area(t)>>) \/ Created(t)
    [] check = 10 -> Received(t)
    [] check = 11 -> /\ Well("directory", Area(t))
                     /\ ~(InArea(t) /\ Area(t) \in setup.noReplace)
    [] check = 12 -> t \in setup.viaPass => Well("directory", "pass")

Verdicts == <<"NotOpen", "WrongTIC", "Security", "NotForUs", "Security",
              "NotRecvd", "NotOpen", "NotRecvd", "WrongTIC",
              "NotRecvd", "NotOpen", "NotOpen">>

AddressCheck  == 4
ReceivedCheck == 6
FileCheck     == 8
MoveCheck     == 12
AllPassed     == 13

(* A ticket whose file has just been given its name goes on behind the     *)
(* comparison of the checksum.                                             *)
FirstCheck == IF swap = None THEN 1 ELSE FileCheck + 1

(* The first check that fails. *)
Failed(t) ==
  CHOOSE i \in FirstCheck .. AllPassed :
    /\ i = AllPassed \/ ~Passes(t, i)
    /\ \A k \in FirstCheck .. i - 1 : Passes(t, k)

(* What the creation of the area mends, whatever the later checks say.     *)
After(t) ==
  IF Created(t) /\ Failed(t) >= FileCheck
  THEN defects \ {<<"area", Area(t)>>, <<"write", <<From(t), Area(t)>>>>}
  ELSE defects

(* The files of the same base whose checksum is the ticket's.  They are    *)
(* looked for by their bare names, so in the current directory.            *)
Elsewhere(t) ==
  {f \in FileName : /\ setup.cwdIsInbound /\ f[1] = File(t)[1]
                    /\ inbound[f] = setup.ticket[t].crc}

(* Defect: a ticket whose file has not come is removed. *)
RenamedNotWaiting(old, verdict) ==
  IF verdict \in {"OK", "NotRecvd"} THEN "gone"
  ELSE IF old # "tic" THEN old
  ELSE CASE verdict = "Security" -> "sec"
         [] verdict \in {"NotOpen", "CantRename"} -> "acs"
         [] verdict = "WrongTIC" -> "bad"
         [] verdict = "NotForUs" -> "ntu"

(* Defect: the verdict is the suffix. *)
RenamedVerdict(old, verdict) == IF old = "tic" THEN verdict ELSE old

(* processDir: the suffix by the verdict.  toss -b leaves the suffix as it *)
(* is unless the verdict is good.                                          *)
Renamed(old, verdict) ==
  IF verdict = "OK" THEN "gone"
  ELSE IF old # "tic" THEN old
  ELSE CASE verdict = "Security" -> "sec"
         [] verdict \in {"NotOpen", "CantRename"} -> "acs"
         [] verdict = "WrongTIC" -> "bad"
         [] verdict = "NotForUs" -> "ntu"
         [] verdict = "NotRecvd" -> "tic"

Settle(t, verdict) == where' = [where EXCEPT ![t] = Renamed(@, verdict)]

-----------------------------------------------------------------------------

(* Defect: tickets renamed to .acs are not taken up by toss -b. *)
TurnNotAcs(t) ==
  /\ where[t] \in Suffixes \ {"acs"}
  /\ swap = None \/ (swap # None /\ swap.tic = t /\ swap.step = "judge")

(* A ticket's turn has come; and goes on after an exchange of names.       *)
Turn(t) ==
  /\ where[t] \in Suffixes
  /\ swap = None \/ (swap # None /\ swap.tic = t /\ swap.step = "judge")

InTransit(t) == Failed(t) = AddressCheck /\ setup.ticket[t].to \in setup.forward

Refuse(t) ==
  /\ Turn(t) /\ Failed(t) < AllPassed /\ ~InTransit(t)
  /\ ~(Failed(t) = FileCheck /\ Elsewhere(t) # {})
  /\ Settle(t, IF Failed(t) = ReceivedCheck /\ From(t) \in setup.delNotReceived
               THEN "OK" ELSE Verdicts[Failed(t)])
  /\ copied' = IF Failed(t) = MoveCheck THEN copied \cup {t} ELSE copied
  /\ defects' = After(t) /\ swap' = None
  /\ UNCHANGED <<situation, inbound, took, passed, stray, bsy>>

(* sendToLinks has put the file into its area, over an older one that had  *)
(* the name there, and the original where the links are served from.       *)
Accept(t) ==
  /\ Turn(t) /\ Failed(t) = AllPassed
  /\ Settle(t, "OK")
  /\ took' = [took EXCEPT ![t] = inbound[File(t)]]
  /\ inbound' = [inbound EXCEPT ![File(t)] = None]
  /\ defects' = After(t) /\ swap' = None
  /\ UNCHANGED <<situation, copied, passed, stray, bsy>>

(* The wrong file has the name, and the right one is there. *)
SwapOut(t, f) ==
  /\ swap = None /\ where[t] \in Suffixes
  /\ Failed(t) = FileCheck /\ f \in Elsewhere(t)
  /\ swap' = [tic |-> t, other |-> f, tmp |-> inbound[File(t)], step |-> "in"]
  /\ inbound' = [inbound EXCEPT ![File(t)] = None]
  /\ defects' = After(t)
  /\ UNCHANGED <<situation, where, took, copied, passed, stray, bsy>>

(* Defect: the right file is copied. *)
SwapInCopied ==
  /\ swap # None /\ swap.step = "in" /\ inbound[swap.other] # None
  /\ inbound' = [inbound EXCEPT ![File(swap.tic)] = inbound[swap.other]]
  /\ swap' = [swap EXCEPT !.step = "back"]
  /\ UNCHANGED <<situation, where, took, copied, passed, stray, defects, bsy>>

SwapIn ==
  /\ swap # None /\ swap.step = "in" /\ inbound[swap.other] # None
  /\ inbound' = [inbound EXCEPT ![File(swap.tic)] = inbound[swap.other],
                                ![swap.other] = None]
  /\ swap' = [swap EXCEPT !.step = "back"]
  /\ UNCHANGED <<situation, where, took, copied, passed, stray, defects, bsy>>

(* Defect: the wrong file is removed. *)
SwapBackRemoved ==
  /\ swap # None /\ swap.step = "back"
  /\ swap' = [swap EXCEPT !.step = "judge", !.tmp = None]
  /\ UNCHANGED <<situation, where, inbound, took, copied, passed, stray, defects, bsy>>

SwapBack ==
  /\ swap # None /\ swap.step = "back"
  /\ inbound' = [inbound EXCEPT ![swap.other] = swap.tmp]
  /\ swap' = [swap EXCEPT !.step = "judge", !.tmp = None]
  /\ UNCHANGED <<situation, where, took, copied, passed, stray, defects, bsy>>

(* The first rename fails: the ticket waits. *)
SwapOutFails(t) ==
  /\ "rename" \in setup.faults
  /\ swap = None /\ where[t] \in Suffixes
  /\ Failed(t) = FileCheck /\ Elsewhere(t) # {}
  /\ Settle(t, "NotRecvd") /\ defects' = After(t)
  /\ UNCHANGED <<situation, inbound, took, copied, passed, stray, swap, bsy>>

(* Defect: the ticket is not given up when the second rename has failed. *)
SwapInFailsGoesOn ==
  /\ swap # None /\ swap.step = "in"
  /\ "rename" \in setup.faults \/ inbound[swap.other] = None
  /\ inbound' = [inbound EXCEPT ![File(swap.tic)] = swap.tmp]
  /\ swap' = [swap EXCEPT !.step = "judge", !.tmp = None]
  /\ UNCHANGED <<situation, where, took, copied, passed, stray, defects, bsy>>

(* The second fails, also when a mailer has sent the file on meanwhile:    *)
(* the first is undone, or that fails as well.                             *)
SwapInFails ==
  /\ swap # None /\ swap.step = "in"
  /\ "rename" \in setup.faults \/ inbound[swap.other] = None
  /\ \/ /\ inbound' = [inbound EXCEPT ![File(swap.tic)] = swap.tmp]
        /\ UNCHANGED stray
     \/ /\ "rename" \in setup.faults /\ stray' = stray \cup {swap.tmp}
        /\ UNCHANGED inbound
  /\ Settle(swap.tic, "CantRename") /\ swap' = None
  /\ UNCHANGED <<situation, took, copied, passed, defects, bsy>>

(* The third fails: the other file is removed.                             *)
SwapBackFails ==
  /\ "remove" \in setup.faults
  /\ swap # None /\ swap.step = "back"
  /\ swap' = [swap EXCEPT !.step = "judge", !.tmp = None]
  /\ UNCHANGED <<situation, where, inbound, took, copied, passed, stray, defects, bsy>>

(* A ticket to another system, for a link that such tickets are routed to: *)
(* it goes into the link's outbound directory, and the file is sent from   *)
(* the inbound.                                                            *)
TransitQueue(t) ==
  /\ Turn(t) /\ InTransit(t) /\ setup.ticket[t].to \notin bsy
  /\ where' = [where EXCEPT ![t] = "out"]
  /\ UNCHANGED <<situation, inbound, took, copied, passed, stray, swap, defects, bsy>>

(* The link is busy: nothing is done, and the verdict is good. *)
TransitBusy(t) ==
  /\ Turn(t) /\ InTransit(t) /\ setup.ticket[t].to \in bsy
  /\ Settle(t, "OK")
  /\ UNCHANGED <<situation, inbound, took, copied, passed, stray, swap, defects, bsy>>

(* The ticket cannot be moved: the same, and the .bsy stays. *)
TransitMoveFails(t) ==
  /\ "move" \in setup.faults
  /\ Turn(t) /\ InTransit(t) /\ setup.ticket[t].to \notin bsy
  /\ Settle(t, "OK") /\ bsy' = bsy \cup {setup.ticket[t].to}
  /\ UNCHANGED <<situation, inbound, took, copied, passed, stray, swap, defects>>

-----------------------------------------------------------------------------
(* Around htick: the mailer, the sysop, and the end of a process.          *)
PutTicket(t) ==
  /\ t \in DOMAIN setup.ticket /\ where[t] = "away"
  /\ where' = [where EXCEPT ![t] = "tic"]
  /\ UNCHANGED <<situation, inbound, took, copied, passed, stray, swap, defects, bsy>>

Arrived(c) ==
  \/ c \in passed \cup stray
  \/ \E f \in FileName : inbound[f] = c
  \/ \E t \in Tics : took[t] = c
  \/ swap # None /\ swap.tmp = c

(* The mailer overwrites nothing.  With "race" it may put in a file while  *)
(* names are being exchanged, and take the name that is free for a moment. *)
PutFile(c) ==
  LET free == {n \in 0 .. LastSuffix : inbound[<<BaseOf[c], n>>] = None}
  IN
  /\ ~Arrived(c) /\ free # {}
  /\ swap = None \/ "race" \in setup.faults
  /\ inbound' = [inbound EXCEPT ![<<BaseOf[c], Min(free)>>] = c]
  /\ UNCHANGED <<situation, where, took, copied, passed, stray, swap, defects, bsy>>

SendTransit(t) ==
  /\ where[t] = "out" /\ where' = [where EXCEPT ![t] = "sent"]
  /\ inbound' = [inbound EXCEPT ![File(t)] = None]
  /\ passed' = passed \cup ({inbound[File(t)]} \ {None})
  /\ UNCHANGED <<situation, took, copied, stray, swap, defects, bsy>>

Busy(l) ==
  /\ "busy" \in setup.faults
  /\ bsy' = (IF l \in bsy THEN bsy \ {l} ELSE bsy \cup {l})
  /\ UNCHANGED <<situation, where, inbound, took, copied, passed, stray, swap, defects>>

Repair(d) ==
  /\ d \in defects /\ defects' = defects \ {d}
  /\ UNCHANGED <<situation, where, inbound, took, copied, passed, stray, swap, bsy>>

Crash ==
  /\ "crash" \in setup.faults
  /\ swap # None /\ swap' = None
  /\ stray' = stray \cup ({swap.tmp} \ {None})
  /\ UNCHANGED <<situation, where, inbound, took, copied, passed, defects, bsy>>

TicketStep(t) ==
  \/ Refuse(t) \/ Accept(t) \/ SwapOutFails(t)
  \/ \E f \in FileName : SwapOut(t, f)
  \/ TransitQueue(t) \/ TransitBusy(t) \/ TransitMoveFails(t)

SwapStep == SwapIn \/ SwapBack \/ SwapInFails \/ SwapBackFails

Next ==
  \/ \E t \in Tics : TicketStep(t) \/ PutTicket(t) \/ SendTransit(t)
  \/ SwapStep
  \/ \E c \in Contents : PutFile(c)
  \/ \E l \in Links : Busy(l)
  \/ \E d \in defects : Repair(d)
  \/ Crash

Spec == Init /\ [][Next]_vars

(* The mailer delivers, the sysop repairs, and htick is run, with and      *)
(* without -b, as long as there are tickets.                               *)
Fairness ==
  /\ \A t \in Tics : WF_vars(Accept(t) \/ \E f \in FileName : SwapOut(t, f))
  /\ WF_vars(SwapStep)
  /\ WF_vars(\E t \in Tics : PutTicket(t))
  /\ WF_vars(\E c \in Contents : PutFile(c))
  /\ WF_vars(\E d \in defects : Repair(d))

FairSpec == Spec /\ Fairness

-----------------------------------------------------------------------------
(* Properties. *)

(* Every file that has come in is in one place, whatever names it has been *)
(* given meanwhile, whatever rename has failed and wherever the process    *)
(* was killed: under one name in the inbound, under a temporary name, in   *)
(* its area or sent on.  (The places of c are counted.)                    *)
Places(c) ==
  Cardinality({f \in FileName : inbound[f] = c})
  + Cardinality({t \in Tics : took[t] = c})
  + (IF c \in stray THEN 1 ELSE 0) + (IF c \in passed THEN 1 ELSE 0)
  + (IF swap # None /\ swap.tmp = c THEN 1 ELSE 0)

InOnePlace == \A c \in Contents : Places(c) <= 1

(* And nothing in the inbound disappears: it leaves it into its area or to *)
(* another system, unless the last rename of an exchange fails             *)
(* (SwapBackFails) or a mailer puts a file under the name that is free     *)
(* during the exchange ("race").                                           *)
NothingDeleted ==
  [][setup.faults \cap {"remove", "race"} = {} =>
       \A c \in Contents : Places(c) = 1 => Places(c)' = 1]_vars

(* A ticket in transit names a file of the same base, so that the mailer   *)
(* may take away what an exchange of names has put under a name.           *)
AlsoInTransit(t) ==
  \E u \in DOMAIN setup.ticket : setup.ticket[u].to # Us /\ File(u)[1] = File(t)[1]

(* What is accepted under a ticket is the file that the ticket describes,  *)
(* however the names in the inbound got mixed up: between the exchange of  *)
(* names and sendToLinks nothing else comes under the name, although the   *)
(* checksum is not compared again (excepted is a mailer that sends this    *)
(* very file on and puts another in its place meanwhile).                  *)
TakenIsTicketed ==
  \A t \in Tics :
    /\ took[t] # None /\ Area(t) \notin setup.noCrc
    /\ "race" \in setup.faults => ~AlsoInTransit(t)
    => setup.ticket[t].crc \in {None, took[t]}

(* A ticket is gone and its file has not been dealt with, although the     *)
(* link is configured so that tickets wait for their files.                *)
Dropped(t) ==
  where[t] = "gone" /\ took[t] = None /\ From(t) \notin setup.delNotReceived

(* A ticket is deleted only when its file has been accepted, sent on or    *)
(* given up; excepted are tickets in transit to a link that is busy or     *)
(* whose directory cannot be written.                                      *)
NoTicketDropped ==
  \A t \in Tics : Dropped(t) =>
    setup.ticket[t].to # Us /\ setup.faults \cap {"busy", "move"} # {}

(* "Send the ticket and a file to the address in line "To" of ticket": the *)
(* same without the exception, which the code does not meet.               *)
TransitSent == \A t \in Tics : ~Dropped(t)

(* When the configuration has been repaired and the files have come, every *)
(* ticket is tossed, whatever suffix it was given before.                  *)
Served ==
  \A t \in Tics :
    setup.faults = {} /\ t \in DOMAIN setup.ticket => <>(took[t] # None)
=============================================================================
