--------------------------- MODULE FilefixProofs ----------------------------
(***************************************************************************)
(* The access checks for any set of groups and any number of levels, and   *)
(* the filefix robot for any mails, any number of them and any number of   *)
(* crashes: types, what becomes of a request (HandledOnce), what becomes   *)
(* of the subscription and how many replies there are (Obeyed).            *)
(***************************************************************************)
EXTENDS Filefix, InductionLemmas, FiniteSetTheorems, TLAPS

(* The access settings: the sysop's edits and the commands of a request    *)
(* keep them in their types.                                               *)
LEMMA EditTypes == AccessTypeOK /\ EditStep => AccessTypeOK'
<1> SUFFICES ASSUME AccessTypeOK, EditStep PROVE AccessTypeOK'
  OBVIOUS
<1> USE DEF AccessTypeOK, AreaType, LinkType, SubType
<1>1. CASE EditArea
  BY <1>1 DEF EditArea
<1>2. CASE EditLink
  BY <1>2 DEF EditLink
<1>3. CASE PauseOrResume
  BY <1>3 DEF PauseOrResume
<1>4. CASE EditSub
  BY <1>4 DEF EditSub
<1> QED
  BY <1>1, <1>2, <1>3, <1>4 DEF EditStep

LEMMA EffectTypes ==
  ASSUME NEW s \in [linked : BOOLEAN, pause : BOOLEAN], NEW c
  PROVE  Effect(s, c) \in [linked : BOOLEAN, pause : BOOLEAN]
BY DEF Effect

LEMMA ExecTypes == AccessTypeOK /\ Exec => AccessTypeOK'
<1> SUFFICES ASSUME AccessTypeOK, Exec PROVE AccessTypeOK'
  OBVIOUS
<1> DEFINE new == Effect(Subscription, CommandOf(Head(todo)))
<1>1. Subscription \in [linked : BOOLEAN, pause : BOOLEAN]
  BY DEF Subscription, AccessTypeOK, SubType, LinkType
<1>2. new \in [linked : BOOLEAN, pause : BOOLEAN]
  BY <1>1, EffectTypes
<1>3. SetSubscription(new) /\ area' = area
  BY DEF Exec
<1> QED
  BY <1>2, <1>3 DEF SetSubscription, AccessTypeOK, AreaType, SubType, LinkType

LEMMA AccessTypeStep == AccessTypeOK /\ [Next]_vars => AccessTypeOK'
<1> SUFFICES ASSUME AccessTypeOK, [Next]_vars PROVE AccessTypeOK'
  OBVIOUS
<1>1. CASE Edit
  BY <1>1, EditTypes DEF Edit
<1>2. CASE Exec
  BY <1>2, ExecTypes
<1>3. ASSUME UNCHANGED avars PROVE AccessTypeOK'
  BY <1>3 DEF avars, AccessTypeOK
<1>4. CASE Arrive \/ Ffix \/ Crash
  BY <1>3, <1>4 DEF Arrive, Ffix, Crash
<1>5. CASE Scan /\ ~Exec
  BY <1>3, <1>5 DEF Scan, Start, Skip, Refuse, Request, EndExec, Mark, Kill, Finish
<1>6. CASE UNCHANGED vars
  BY <1>3, <1>6 DEF vars
<1> QED
  BY <1>1, <1>2, <1>4, <1>5, <1>6 DEF Next

LEMMA AccessTypeInit == Init => AccessTypeOK
BY FileAccessAssumption
DEF Init, AccessInit, AccessTypeOK, AreaType, LinkType, SubType, Level

THEOREM AccessTypes == Spec => []AccessTypeOK
BY AccessTypeInit, AccessTypeStep, PTL DEF Spec

(* The chain of early returns says yes exactly when every condition holds. *)
LEMMA ReadExact == AccessTypeOK => ReadIffAllowed
BY FileAccessAssumption
DEF AccessTypeOK, AreaType, LinkType, SubType, ReadIffAllowed, ReadCheck, GroupCheck, InGroup,
    PortOpen, Ok, NotGroup, NotLevel, NotPort, NotLinked, Level

LEMMA WriteExact == AccessTypeOK => WriteIffAllowed
BY FileAccessAssumption
DEF AccessTypeOK, AreaType, LinkType, SubType, WriteIffAllowed, WriteCheck, GroupCheck, InGroup,
    PortOpen, Ok, NotGroup, NotLevel, NotPort, NotLinked, Level

(* e_readCheck and e_writeCheck decide what they are meant to decide.      *)
THEOREM AccessIsExact == Spec => []AccessExact
BY AccessTypes, ReadExact, WriteExact, PTL DEF AccessExact

(* Granting more never takes away.                                         *)
LEMMA RelaxStep ==
  ASSUME AccessTypeOK, AccessTypeOK', Relaxed
  PROVE  /\ ReadCheck = Ok => ReadCheck' = Ok
         /\ WriteCheck = Ok => WriteCheck' = Ok
<1>1. ReadIffAllowed /\ WriteIffAllowed
  BY ReadExact, WriteExact
<1>2. ReadIffAllowed' /\ WriteIffAllowed'
  BY ReadExact, WriteExact, PTL
<1>3. InGroup => InGroup'
  BY DEF Relaxed, InGroup
<1>4. /\ PortOpen(link.export) => PortOpen(link.export)'
      /\ PortOpen(link.import) => PortOpen(link.import)'
  BY FileAccessAssumption DEF Relaxed, PortOpen, AccessTypeOK, AreaType, LinkType
<1>5. /\ area.levelread <= link.level => area'.levelread <= link'.level
      /\ area.levelwrite <= link.level => area'.levelwrite <= link'.level
  BY FileAccessAssumption DEF Relaxed, AccessTypeOK, AreaType, LinkType, Level
<1> QED
  BY <1>1, <1>2, <1>3, <1>4, <1>5 DEF Relaxed, ReadIffAllowed, WriteIffAllowed

THEOREM RelaxingIsSafe == Spec => RelaxingRevokesNothing
<1>1. AccessTypeOK /\ AccessTypeOK' =>
        [Relaxed => /\ ReadCheck = Ok => ReadCheck' = Ok
                    /\ WriteCheck = Ok => WriteCheck' = Ok]_avars
  BY RelaxStep
<1> QED
  BY <1>1, AccessTypes, PTL DEF RelaxingRevokesNothing

-----------------------------------------------------------------------------
(* The robot. *)

LEMMA RemovedSlot ==
  ASSUME NEW S, NEW s \in Seq(S), NEW k \in 1 .. Len(s)
  PROVE  /\ RemoveAt(s, k) \in Seq(S) /\ Len(RemoveAt(s, k)) = Len(s) - 1
         /\ \A j \in 1 .. k - 1 : RemoveAt(s, k)[j] = s[j]
         /\ \A j \in k .. Len(s) - 1 : RemoveAt(s, k)[j] = s[j + 1]
<1> DEFINE a == SubSeq(s, 1, k - 1)
           b == SubSeq(s, k + 1, Len(s))
<1>1. a \in Seq(S) /\ Len(a) = k - 1 /\ \A j \in 1 .. k - 1 : a[j] = s[j]
  BY SubSeqProperties
<1>2. b \in Seq(S) /\ Len(b) = Len(s) - k /\ \A j \in 1 .. Len(s) - k : b[j] = s[j + k]
  BY SubSeqProperties
<1>3. /\ a \o b \in Seq(S) /\ Len(a \o b) = Len(a) + Len(b)
      /\ \A j \in 1 .. Len(a) + Len(b) : (a \o b)[j] = IF j <= Len(a) THEN a[j] ELSE b[j - Len(a)]
  BY <1>1, <1>2, ConcatProperties
<1>4. RemoveAt(s, k) = a \o b
  BY DEF RemoveAt
<1> HIDE DEF a, b
<1>5. \A j \in 1 .. k - 1 : (a \o b)[j] = s[j]
  BY <1>1, <1>2, <1>3
<1>6. ASSUME NEW j \in k .. Len(s) - 1 PROVE (a \o b)[j] = s[j + 1]
  <2>1. (a \o b)[j] = b[j - (k - 1)]
    BY <1>1, <1>2, <1>3
  <2>2. b[j - (k - 1)] = s[(j - (k - 1)) + k]
    BY <1>2
  <2> QED
    BY <2>1, <2>2
<1>7. a \o b \in Seq(S) /\ Len(a \o b) = Len(s) - 1
  BY <1>1, <1>2, <1>3
<1> QED
  BY <1>4, <1>5, <1>6, <1>7

LEMMA SlotTypes ==
  ASSUME TypeOK, NEW k \in DOMAIN base, base[k].no > 0
  PROVE  /\ base[k].no \in 1 .. Len(sent) /\ Mail(k) \in MailType
         /\ done[base[k].no] \in DoneType
<1>1. base[k] \in SlotType
  BY DEF TypeOK
<1>2. base[k].no \in 1 .. Len(sent)
  BY <1>1 DEF SlotType, TypeOK
<1>3. sent \in Seq(Mails) /\ Mails \subseteq MailType
  BY FilefixAssumption DEF TypeOK
<1>4. Mail(k) \in MailType
  BY <1>2, <1>3 DEF Mail
<1>5. done[base[k].no] \in DoneType
  BY <1>2 DEF TypeOK
<1> QED
  BY <1>2, <1>4, <1>5

LEMMA EndedTypes ==
  ASSUME Ended
  PROVE  /\ i' \in Nat /\ high' \in Nat /\ pc' \in Steps /\ todo' \in Seq(LineType)
         /\ report' \in BOOLEAN /\ result' \in {0, 1} /\ pc' = "idle"
<1>1. report' \in BOOLEAN
  BY Zenon DEF Ended
<1>2. todo' \in Seq(LineType)
  BY DEF Ended
<1> QED
  BY <1>1, <1>2 DEF Ended, Steps

LEMMA NoteTypes ==
  ASSUME TypeOK, NEW k, k = 0 \/ (k \in DOMAIN base /\ base[k].no > 0),
         NEW s \in Nat, NEW e \in Nat, NEW r \in Nat, NEW q \in Nat,
         Note(k, s, e, r, q)
  PROVE  done' \in Seq(DoneType) /\ Len(done') = Len(done)
<1>1. CASE k = 0
  BY <1>1 DEF Note, TypeOK
<1>2. CASE k # 0
  <2> DEFINE d == done[base[k].no]
             new == [starts |-> d.starts + s, ends |-> d.ends + e,
                     replies |-> d.replies + r, resent |-> d.resent + q]
  <2>1. d \in DoneType
    BY <1>2, SlotTypes
  <2>2. new \in DoneType
    BY <2>1 DEF DoneType
  <2>3. done' = [done EXCEPT ![base[k].no] = new]
    BY <1>2 DEF Note
  <2>4. base[k].no \in DOMAIN done
    BY <1>2, SlotTypes DEF TypeOK
  <2> QED
    BY <2>2, <2>3, <2>4 DEF TypeOK
<1> QED
  BY <1>1, <1>2

LEMMA ForUsSlot ==
  ASSUME TypeOK, NEW k \in Nat, k > 0, ForUs(k)
  PROVE  k \in DOMAIN base /\ base[k].no > 0 /\ ~base[k].read
BY DEF ForUs, TypeOK

LEMMA ArriveTypes == TypeOK /\ Arrive => TypeOK'
<1> SUFFICES ASSUME TypeOK, Arrive PROVE TypeOK'
  OBVIOUS
<1> PICK m \in Mails :
      /\ sent' = Append(sent, m)
      /\ base' = Append(base, [no |-> Len(sent) + 1, read |-> FALSE])
      /\ done' = Append(done, [starts |-> 0, ends |-> 0, replies |-> 0, resent |-> 0])
  BY DEF Arrive
<1>0. [starts |-> 0, ends |-> 0, replies |-> 0, resent |-> 0] \in DoneType
  BY DEF DoneType
<1>1. /\ sent' \in Seq(Mails) /\ Len(sent') = Len(sent) + 1 /\ Len(sent') <= MaxMail
      /\ done' \in Seq(DoneType) /\ Len(done') = Len(sent')
  BY <1>0, FilefixAssumption DEF TypeOK, Arrive
<1>2. base \in Seq(SlotType') /\ [no |-> Len(sent) + 1, read |-> FALSE] \in SlotType'
  <2>1. SlotType \subseteq SlotType' /\ [no |-> Len(sent) + 1, read |-> FALSE] \in SlotType'
    BY <1>1 DEF TypeOK, SlotType
  <2> QED
    BY <2>1 DEF TypeOK
<1>3. /\ base' \in Seq(SlotType') /\ Len(base') = Len(base) + 1
      /\ \A k \in DOMAIN base : base'[k] = base[k]
  BY <1>1, <1>2 DEF TypeOK
<1> QED
  BY <1>1, <1>3 DEF Arrive, TypeOK, AccessTypeOK, avars, rvars

LEMMA ScanTypes == TypeOK /\ Scan => TypeOK'
<1> SUFFICES ASSUME TypeOK, Scan PROVE TypeOK'
  OBVIOUS
<1>0. AccessTypeOK' /\ (sent' = sent => SlotType' = SlotType)
  BY AccessTypeStep DEF TypeOK, Next, SlotType
<1>1. CASE Start
  BY <1>0, <1>1 DEF Start, TypeOK, Steps, mvars
<1>2. CASE Skip
  BY <1>0, <1>2 DEF Skip, TypeOK, mvars
<1>3. CASE Refuse
  <2>1. i \in DOMAIN base /\ base[i].no > 0
    BY <1>3, ForUsSlot DEF Refuse, TypeOK
  <2>2. done' \in Seq(DoneType) /\ Len(done') = Len(done)
    BY <1>3, <2>1, NoteTypes DEF Refuse
  <2> QED
    BY <1>0, <1>3, <2>1, <2>2 DEF Refuse, TypeOK, Steps
<1>4. CASE Request
  <2>1. i \in DOMAIN base /\ base[i].no > 0
    BY <1>4, ForUsSlot DEF Request, TypeOK
  <2>2. done' \in Seq(DoneType) /\ Len(done') = Len(done)
    BY <1>4, <2>1, NoteTypes DEF Request
  <2>3. Mail(i).lines \in Seq(LineType)
    BY <2>1, SlotTypes DEF MailType
  <2>5. report' \in BOOLEAN
    BY <1>4, Zenon DEF Request
  <2>4. /\ pc' = "exec" /\ todo' \in Seq(LineType)
        /\ UNCHANGED <<setup, sent, base, crashes, byHand, behind, i, high, result>>
    BY <1>4, <2>3 DEF Request
  <2> QED
    BY <1>0, <2>1, <2>2, <2>4, <2>5 DEF TypeOK, Steps
<1>5. CASE Exec
  <2>1. i = 0 \/ (i \in DOMAIN base /\ base[i].no > 0)
    BY <1>5 DEF Exec, TypeOK
  <2>2. PICK r \in Nat, q \in Nat : Note(i, 0, 0, r, q)
    BY <1>5 DEF Exec
  <2>3. done' \in Seq(DoneType) /\ Len(done') = Len(done)
    BY <2>1, <2>2, NoteTypes
  <2>4. Tail(todo) \in Seq(LineType)
    BY <1>5 DEF Exec, TypeOK
  <2>5. report' \in BOOLEAN
    BY <1>5 DEF Exec, TypeOK
  <2> QED
    BY <1>0, <1>5, <2>3, <2>4, <2>5 DEF Exec, TypeOK, Steps
<1>6. CASE EndExec
  <2>1. i = 0 \/ (i \in DOMAIN base /\ base[i].no > 0)
    BY <1>6 DEF EndExec, TypeOK
  <2>2. done' \in Seq(DoneType) /\ Len(done') = Len(done)
    BY <1>6, <2>1, NoteTypes DEF EndExec
  <2>3. CASE i = 0
    BY <1>0, <1>6, <2>2, <2>3, EndedTypes DEF EndExec, TypeOK
  <2>4. CASE i # 0
    <3>1. report' \in BOOLEAN
      BY <1>6, <2>4, Zenon DEF EndExec
    <3>2. /\ pc' = "mark" /\ result' = 1
          /\ UNCHANGED <<setup, sent, base, crashes, byHand, behind, i, high, todo>>
      BY <1>6, <2>4 DEF EndExec
    <3> QED
      BY <1>0, <2>1, <2>2, <2>4, <3>1, <3>2 DEF TypeOK, Steps
  <2> QED
    BY <2>3, <2>4
<1>7. CASE Mark
  <2>1. i \in DOMAIN base /\ base[i].no > 0
    BY <1>7 DEF Mark, TypeOK
  <2> DEFINE slot == [no |-> base[i].no, read |-> TRUE]
  <2>a. slot \in SlotType
    <3>1. base[i].no \in 0 .. Len(sent)
      BY <2>1, SlotTypes
    <3> QED
      BY <3>1, Zenon DEF SlotType
  <2>b. base' = [base EXCEPT ![i] = slot]
    BY <1>7 DEF Mark
  <2>2. /\ base' \in Seq(SlotType)
        /\ Len(base') = Len(base) /\ base'[i].no > 0
    BY <2>1, <2>a, <2>b DEF TypeOK
  <2> QED
    BY <1>0, <1>7, <2>1, <2>2 DEF Mark, TypeOK, Steps
<1>8. CASE Kill
  <2>1. i \in 1 .. Len(base)
    BY <1>8 DEF Kill, TypeOK
  <2>2. Hole \in SlotType
    BY DEF Hole, SlotType, TypeOK
  <2>3. Without(i) \in Seq(SlotType)
    BY <2>1, <2>2, RemovedSlot DEF Without, TypeOK
  <2> QED
    BY <1>0, <1>8, <2>1, <2>3 DEF Kill, TypeOK, Steps
<1>9. CASE Finish
  BY <1>0, <1>9, EndedTypes DEF Finish, TypeOK, mvars
<1> QED
  BY <1>1, <1>2, <1>3, <1>4, <1>5, <1>6, <1>7, <1>8, <1>9 DEF Scan

LEMMA TypeStep == TypeOK /\ [Next]_vars => TypeOK'
<1> SUFFICES ASSUME TypeOK, [Next]_vars PROVE TypeOK'
  OBVIOUS
<1>0. AccessTypeOK' /\ (sent' = sent => SlotType' = SlotType)
  BY AccessTypeStep DEF TypeOK, SlotType
<1>1. CASE Arrive
  BY <1>1, ArriveTypes
<1>2. CASE Scan
  BY <1>2, ScanTypes
<1>3. CASE Ffix
  <2>1. todo' \in Seq(LineType)
    <3> PICK m \in Mails : todo' = m.lines
      BY <1>3 DEF Ffix
    <3>1. m \in MailType
      BY FilefixAssumption
    <3> QED
      BY <3>1 DEF MailType
  <2>2. report' \in BOOLEAN /\ byHand' \in BOOLEAN
    BY <1>3, Zenon DEF Ffix
  <2>3. /\ i' = 0 /\ pc' = "exec"
        /\ UNCHANGED <<setup, sent, base, done, crashes, behind, high, result>>
    BY <1>3 DEF Ffix
  <2> QED
    BY <1>0, <2>1, <2>2, <2>3 DEF TypeOK, Steps
<1>4. CASE Crash
  BY <1>0, <1>4, EndedTypes, FilefixAssumption DEF Crash, TypeOK
<1>5. CASE Edit
  BY <1>0, <1>5 DEF Edit, TypeOK, mvars, rvars
<1>6. CASE UNCHANGED vars
  BY <1>0, <1>6 DEF vars, TypeOK, mvars, rvars
<1> QED
  BY <1>1, <1>2, <1>3, <1>4, <1>5, <1>6 DEF Next

LEMMA InitTypes == Init => TypeOK
<1> SUFFICES ASSUME Init PROVE TypeOK
  OBVIOUS
<1>1. AccessTypeOK
  BY AccessTypeInit
<1>2. sent \in Seq(Mails) /\ base \in Seq(SlotType) /\ done \in Seq(DoneType)
  BY DEF Init
<1>3. report \in BOOLEAN /\ byHand \in BOOLEAN /\ behind \in BOOLEAN
  BY Zenon DEF Init
<1>4. /\ setup \in Setups /\ Len(sent) = 0 /\ Len(done) = 0 /\ crashes = 0
      /\ i = 1 /\ high = 0 /\ pc = "idle" /\ todo = <<>> /\ result = 1
  BY DEF Init
<1> QED
  BY <1>1, <1>2, <1>3, <1>4, FilefixAssumption DEF TypeOK, Steps

THEOREM TypeCorrect == Spec => []TypeOK
BY InitTypes, TypeStep, PTL DEF Spec

-----------------------------------------------------------------------------
(* HandledOnce.  Its inductive form speaks of slots: a slot that is not    *)
(* the one in work and not read has cost no more runs than have died.      *)

Current(k) == pc \in {"exec", "mark"} /\ i = k

SlotOK(k) ==
  /\ base[k].read => ForRobot(Mail(k)) /\ done[base[k].no].ends > 0
  /\ ~base[k].read /\ ~Current(k) => done[base[k].no].starts <= crashes

MailOK(n) ==
  /\ \/ \E k \in DOMAIN base : base[k].no = n
     \/ ForRobot(sent[n]) /\ done[n].ends > 0 /\ setup.kill /\ Trusted(sent[n])
  /\ ForRobot(sent[n]) \/ done[n].starts = 0
  /\ done[n].starts <= 1 + crashes

RunOK ==
  pc \in {"exec", "mark", "kill"} /\ i > 0 =>
    /\ ForRobot(Mail(i))
    /\ pc = "exec" => ~base[i].read /\ Trusted(Mail(i))
    /\ pc = "mark" => done[base[i].no].ends > 0 /\ (result = 1 => Trusted(Mail(i)))
    /\ pc = "kill" => base[i].read /\ setup.kill /\ Trusted(Mail(i)) /\ done[base[i].no].ends > 0

IInv ==
  /\ TypeOK
  /\ \A j, k \in DOMAIN base : base[j].no = base[k].no /\ base[j].no > 0 => j = k
  /\ \A k \in DOMAIN base : base[k].no > 0 => SlotOK(k)
  /\ \A n \in DOMAIN sent : MailOK(n)
  /\ RunOK

LEMMA IInvHandled == IInv => HandledOnce
<1> SUFFICES ASSUME IInv PROVE HandledOnce
  OBVIOUS
<1>1. ASSUME NEW n \in DOMAIN sent PROVE n > 0 /\ MailOK(n)
  BY DEF IInv, TypeOK
<1>2. ASSUME NEW n \in DOMAIN sent, NEW k \in Slots(n)
      PROVE  k \in DOMAIN base /\ base[k].no = n /\ SlotOK(k) /\ Mail(k) = sent[n]
  BY <1>1 DEF IInv, Slots, Mail
<1>3. OthersUntouched
  <2> SUFFICES ASSUME NEW n \in DOMAIN sent, ~ForRobot(sent[n])
               PROVE  Present(n) /\ ~Read(n) /\ done[n].starts = 0
    BY DEF OthersUntouched
  <2> QED
    BY <1>1, <1>2 DEF MailOK, SlotOK, Present, Read, Slots
<1>4. AnsweredFirst
  BY <1>1, <1>2 DEF AnsweredFirst, MailOK, SlotOK, Present, Read, Slots
<1>5. NotAgain
  BY <1>1, <1>2 DEF NotAgain, MailOK, IInv
<1> QED
  BY <1>3, <1>4, <1>5 DEF HandledOnce

LEMMA IInvInit == Init => IInv
<1> SUFFICES ASSUME Init PROVE IInv
  OBVIOUS
<1>1. TypeOK
  BY InitTypes
<1>2. DOMAIN base = {} /\ DOMAIN sent = {} /\ pc = "idle"
  BY DEF Init
<1> QED
  BY <1>1, <1>2 DEF IInv, RunOK

(* Steps that leave mails and books alone: the run begins, ends, dies or   *)
(* goes on to another message.                                             *)
LEMMA QuietStep ==
  ASSUME IInv, TypeOK', UNCHANGED <<setup, sent, base, done>>,
         crashes' = crashes \/ crashes' = crashes + 1,
         pc' \in {"idle", "look"} \/ (pc' = "exec" /\ i' = 0),
         pc \in {"idle", "look"} \/ i = 0 \/ crashes' = crashes + 1
  PROVE  IInv'
<1>1. crashes \in Nat /\ crashes' >= crashes
  BY DEF IInv, TypeOK
<1>2. \A n : sent'[n] = sent[n] /\ done'[n] = done[n]
  OBVIOUS
<1>3. \A m : ForRobot(m)' = ForRobot(m) /\ Trusted(m)' = Trusted(m)
  BY DEF ForRobot, Trusted, NotForMe
<1>4. ASSUME NEW k \in DOMAIN base, base[k].no > 0 PROVE SlotOK(k)'
  <2>0. base[k].no \in DOMAIN sent /\ done[base[k].no] \in DoneType /\ k > 0
    BY <1>4, SlotTypes DEF IInv, TypeOK
  <2>1. /\ SlotOK(k) /\ done[base[k].no].starts \in Nat
        /\ done[base[k].no].starts <= 1 + crashes
    BY <1>4, <2>0 DEF IInv, MailOK, DoneType
  <2>2. i = 0 => ~Current(k)
    BY <2>0 DEF Current
  <2>3. ~base[k].read => done[base[k].no].starts <= crashes'
    BY <1>1, <2>1, <2>2 DEF SlotOK, Current
  <2> QED
    BY <2>1, <2>3 DEF SlotOK, Mail, ForRobot, NotForMe
<1>5. ASSUME NEW n \in DOMAIN sent PROVE MailOK(n)'
  <2>1. MailOK(n) /\ done[n] \in DoneType
    BY DEF IInv, TypeOK
  <2> QED
    BY <1>1, <2>1 DEF MailOK, DoneType, ForRobot, NotForMe, Trusted
<1>6. RunOK'
  BY DEF RunOK
<1> QED
  BY <1>4, <1>5, <1>6 DEF IInv

LEMMA ArriveInv == IInv /\ Arrive => IInv'
<1> SUFFICES ASSUME IInv, Arrive PROVE IInv'
  OBVIOUS
<1> DEFINE N == Len(sent) + 1
<1> PICK m \in Mails :
      /\ sent' = Append(sent, m)
      /\ base' = Append(base, [no |-> N, read |-> FALSE])
      /\ done' = Append(done, [starts |-> 0, ends |-> 0, replies |-> 0, resent |-> 0])
  BY DEF Arrive
<1>0. UNCHANGED <<setup, i, pc, result, crashes>>
  BY DEF Arrive, rvars
<1>1. TypeOK'
  BY ArriveTypes DEF IInv
<1>a. /\ base \in Seq(SlotType) /\ sent \in Seq(Mails) /\ done \in Seq(DoneType)
      /\ Len(done) = Len(sent) /\ Len(base) \in Nat /\ Len(sent) \in Nat /\ crashes \in Nat
  BY DEF IInv, TypeOK
<1>b. ASSUME NEW k \in DOMAIN base PROVE base[k].no < N
  <2>1. base[k] \in SlotType
    BY <1>a
  <2> QED
    BY <1>a, <2>1 DEF SlotType
<1>2. /\ DOMAIN base = 1 .. Len(base) /\ DOMAIN base' = 1 .. Len(base) + 1
      /\ \A k \in DOMAIN base : base'[k] = base[k] /\ base[k].no < N
      /\ base'[Len(base) + 1].no = N /\ base'[Len(base) + 1].read = FALSE
  BY <1>a, <1>b
<1>3. /\ DOMAIN sent = 1 .. Len(sent) /\ DOMAIN sent' = 1 .. N
      /\ \A n \in DOMAIN sent : sent'[n] = sent[n] /\ done'[n] = done[n]
      /\ done'[N].starts = 0 /\ N \in Nat
  BY <1>a
<1>4. ASSUME NEW n \in DOMAIN sent' PROVE MailOK(n)'
  <2>1. CASE n = N
    <3>1. Len(base) + 1 \in DOMAIN base' /\ base'[Len(base) + 1].no = n
      BY <1>2, <1>a, <2>1
    <3>2. done'[n].starts = 0 /\ 0 <= 1 + crashes'
      <4>1. crashes' = crashes
        BY <1>0
      <4> QED
        BY <4>1, <1>3, <1>a, <2>1
    <3> QED
      BY <3>1, <3>2 DEF MailOK
  <2>2. CASE n # N
    <3>1. n \in DOMAIN sent /\ MailOK(n)
      BY <1>3, <2>2 DEF IInv
    <3>2. sent'[n] = sent[n] /\ done'[n] = done[n]
      BY <1>3, <3>1
    <3>3. (\E k \in DOMAIN base : base[k].no = n) => \E k \in DOMAIN base' : base'[k].no = n
      BY <1>2, <1>a
    <3> QED
      BY <1>0, <3>1, <3>2, <3>3 DEF MailOK, ForRobot, NotForMe, Trusted
  <2> QED
    BY <2>1, <2>2
<1>5. ASSUME NEW k \in DOMAIN base', base'[k].no > 0 PROVE SlotOK(k)'
  <2>1. CASE k = Len(base) + 1
    BY <1>1, <1>2, <1>3, <2>1 DEF SlotOK, TypeOK
  <2>2. CASE k # Len(base) + 1
    <3>1. k \in DOMAIN base /\ SlotOK(k) /\ base[k].no \in DOMAIN sent
      BY <1>2, <1>5, <2>2, SlotTypes DEF IInv, TypeOK
    <3>2. /\ base'[k] = base[k] /\ sent'[base[k].no] = sent[base[k].no]
          /\ done'[base[k].no] = done[base[k].no]
      BY <1>2, <1>3, <3>1
    <3> QED
      BY <1>0, <3>1, <3>2 DEF SlotOK, Current, Mail, ForRobot, NotForMe
  <2> QED
    BY <2>1, <2>2
<1>6. RunOK'
  <2> SUFFICES ASSUME pc \in {"exec", "mark", "kill"}, i > 0
               PROVE  RunOK'
    BY <1>0 DEF RunOK
  <2>1. i \in DOMAIN base /\ base[i].no > 0 /\ RunOK
    BY DEF IInv, TypeOK
  <2>a. base[i].no \in DOMAIN sent
    BY <1>a, <2>1, SlotTypes DEF IInv
  <2>2. base'[i] = base[i] /\ Mail(i)' = Mail(i) /\ done'[base[i].no] = done[base[i].no]
    BY <1>0, <1>2, <1>3, <2>1, <2>a DEF Mail
  <2> QED
    BY <1>0, <2>1, <2>2 DEF RunOK, ForRobot, NotForMe, Trusted
<1>7. \A j, k \in DOMAIN base' : base'[j].no = base'[k].no /\ base'[j].no > 0 => j = k
  BY <1>2, <1>3 DEF IInv, TypeOK
<1> QED
  BY <1>1, <1>4, <1>5, <1>6, <1>7 DEF IInv

(* What a note changes: the book of the mail in work, by the amounts.      *)
LEMMA NoteChanges ==
  ASSUME TypeOK, NEW k \in DOMAIN base, base[k].no > 0, NEW s, NEW e, NEW r, NEW q,
         Note(k, s, e, r, q)
  PROVE  /\ done'[base[k].no].starts = done[base[k].no].starts + s
         /\ done'[base[k].no].ends = done[base[k].no].ends + e
         /\ done'[base[k].no].replies = done[base[k].no].replies + r
         /\ \A n \in DOMAIN sent \ {base[k].no} : done'[n] = done[n]
<1>1. base[k].no \in DOMAIN done /\ k # 0
  BY SlotTypes DEF TypeOK
<1> QED
  BY <1>1 DEF Note, TypeOK

(* Steps on the message in work: it is begun, executed or answered.        *)
LEMMA WorkStep ==
  ASSUME IInv, TypeOK', UNCHANGED <<setup, sent, base, crashes, i>>,
         i > 0, i \in DOMAIN base, base[i].no > 0, ~base[i].read,
         ForRobot(Mail(i)),
         NEW s \in {0, 1}, NEW e \in {0, 1}, NEW r, NEW q, Note(i, s, e, r, q),
         s = 0 \/ pc = "look",
         pc' \in {"exec", "mark"},
         pc' = "exec" => Trusted(Mail(i)),
         pc' = "mark" => e = 1 /\ (result' = 1 => Trusted(Mail(i)))
  PROVE  IInv'
<1> DEFINE b == base[i].no
<1>1. /\ b \in DOMAIN sent /\ done[b] \in DoneType /\ crashes \in Nat
      /\ SlotOK(i) /\ MailOK(b) /\ i \in Nat
  BY SlotTypes DEF IInv, TypeOK
<1>2. /\ done'[b].starts = done[b].starts + s
      /\ done'[b].ends = done[b].ends + e
      /\ \A n \in DOMAIN sent \ {b} : done'[n] = done[n]
  BY NoteChanges DEF IInv
<1>3. done'[b].starts <= 1 + crashes
  <2>1. CASE s = 0
    BY <1>1, <1>2, <2>1 DEF MailOK, DoneType
  <2>2. CASE s = 1
    BY <1>1, <1>2, <2>2 DEF SlotOK, Current, DoneType
  <2> QED
    BY <2>1, <2>2
<1>4. ASSUME NEW n \in DOMAIN sent PROVE MailOK(n)'
  <2>1. MailOK(n) /\ n > 0
    BY DEF IInv, TypeOK
  <2>2. CASE n = b
    BY <1>1, <1>2, <1>3, <2>1, <2>2 DEF MailOK, ForRobot, NotForMe, Trusted, Mail
  <2>3. CASE n # b
    BY <1>2, <2>1, <2>3 DEF MailOK, ForRobot, NotForMe, Trusted
  <2> QED
    BY <2>2, <2>3
<1>5. ASSUME NEW k \in DOMAIN base, base[k].no > 0 PROVE SlotOK(k)'
  <2>1. SlotOK(k) /\ base[k].no \in DOMAIN sent
    BY <1>5, SlotTypes DEF IInv, TypeOK
  <2>2. CASE k = i
    BY <2>2 DEF SlotOK, Current
  <2>3. CASE k # i
    <3>1. base[k].no # b
      BY <1>5, <2>3 DEF IInv
    <3> QED
      BY <1>2, <2>1, <2>3, <3>1 DEF SlotOK, Current, Mail, ForRobot, NotForMe
  <2> QED
    BY <2>2, <2>3
<1>6. RunOK'
  <2>1. pc' = "mark" => done'[b].ends > 0
    BY <1>1, <1>2 DEF DoneType
  <2> QED
    BY <2>1 DEF RunOK, Mail, ForRobot, NotForMe, Trusted
<1> QED
  BY <1>4, <1>5, <1>6 DEF IInv

LEMMA MarkInv == IInv /\ Mark => IInv'
<1> SUFFICES ASSUME IInv, Mark PROVE IInv'
  OBVIOUS
<1>0. /\ UNCHANGED <<setup, sent, done, crashes, result>> /\ pc = "mark"
      /\ \/ pc' = "kill" /\ i' = i /\ setup.kill /\ result = 1
         \/ pc' = "look"
  BY DEF Mark
<1>1. TypeOK'
  BY TypeStep DEF IInv, Next, Scan
<1>2. i \in DOMAIN base /\ base[i].no > 0 /\ RunOK /\ i > 0
  BY <1>0 DEF IInv, TypeOK
<1>3. ForRobot(Mail(i)) /\ done[base[i].no].ends > 0 /\ (result = 1 => Trusted(Mail(i)))
  BY <1>0, <1>2 DEF RunOK
<1>4. /\ DOMAIN base' = DOMAIN base
      /\ \A k \in DOMAIN base : base'[k].no = base[k].no /\ (k # i => base'[k] = base[k])
      /\ base'[i].read
  BY <1>2 DEF Mark, IInv, TypeOK
<1>5. ASSUME NEW n \in DOMAIN sent PROVE MailOK(n)'
  <2>1. MailOK(n)
    BY DEF IInv
  <2> QED
    BY <1>0, <1>4, <2>1 DEF MailOK, ForRobot, NotForMe, Trusted
<1>6. ASSUME NEW k \in DOMAIN base, base[k].no > 0 PROVE SlotOK(k)'
  <2>1. CASE k = i
    BY <1>0, <1>2, <1>3, <1>4, <2>1 DEF SlotOK, Mail, ForRobot, NotForMe
  <2>2. CASE k # i
    <3>1. SlotOK(k) /\ ~Current(k) /\ base'[k] = base[k]
      BY <1>4, <1>6, <2>2 DEF IInv, Current
    <3> QED
      BY <1>0, <3>1 DEF SlotOK, Mail, ForRobot, NotForMe
  <2> QED
    BY <2>1, <2>2
<1>7. RunOK'
  BY <1>0, <1>2, <1>3, <1>4 DEF RunOK, Mail, ForRobot, NotForMe, Trusted
<1> QED
  BY <1>0, <1>1, <1>4, <1>5, <1>6, <1>7 DEF IInv

(* A killed message leaves a hole, or the others move up: every slot of    *)
(* the new base but a hole is one of the old ones, other than the killed.  *)
From(k) == IF setup.base = "squish" /\ k >= i THEN k + 1 ELSE k

LEMMA KillSlots ==
  ASSUME IInv, Kill
  PROVE  /\ \A k \in DOMAIN base' : base'[k].no > 0 =>
              From(k) \in DOMAIN base /\ From(k) # i /\ base'[k] = base[From(k)]
         /\ \A k \in DOMAIN base : k # i => \E j \in DOMAIN base' : base'[j] = base[k]
<1> USE DEF From
<1>0. base' = Without(i)
  BY DEF Kill
<1>2. i \in DOMAIN base /\ i \in 1 .. Len(base) /\ base[i].no > 0
  BY DEF Kill, IInv, TypeOK
<1>4. base \in Seq(SlotType) /\ Len(base) \in Nat /\ DOMAIN base = 1 .. Len(base)
  BY DEF IInv, TypeOK
<1>a. /\ DOMAIN RemoveAt(base, i) = 1 .. Len(base) - 1
      /\ \A j \in 1 .. i - 1 : RemoveAt(base, i)[j] = base[j]
      /\ \A j \in i .. Len(base) - 1 : RemoveAt(base, i)[j] = base[j + 1]
  BY <1>2, <1>4, RemovedSlot
<1>5. ASSUME NEW k \in DOMAIN base', base'[k].no > 0
      PROVE  From(k) \in DOMAIN base /\ From(k) # i /\ base'[k] = base[From(k)]
  <2>1. CASE setup.base = "squish"
    <3>1. base' = RemoveAt(base, i)
      BY <1>0, <2>1 DEF Without
    <3>2. k \in 1 .. Len(base) - 1
      BY <1>a, <3>1
    <3>3. CASE k < i
      BY <1>a, <1>2, <1>4, <2>1, <3>1, <3>2, <3>3
    <3>4. CASE k >= i
      BY <1>a, <1>2, <1>4, <2>1, <3>1, <3>2, <3>4
    <3> QED
      BY <1>2, <3>2, <3>3, <3>4
  <2>2. CASE setup.base # "squish"
    BY <1>0, <1>2, <1>4, <1>5, <2>2 DEF Without, Hole
  <2> QED
    BY <2>1, <2>2
<1>6. ASSUME NEW k \in DOMAIN base, k # i
      PROVE  \E j \in DOMAIN base' : base'[j] = base[k]
  <2>1. CASE setup.base = "squish"
    <3>1. base' = RemoveAt(base, i)
      BY <1>0, <2>1 DEF Without
    <3>2. DOMAIN base' = 1 .. Len(base) - 1
      BY <1>a, <3>1
    <3>3. CASE k < i
      <4>1. k \in 1 .. i - 1 /\ k \in DOMAIN base'
        BY <1>2, <1>4, <3>2, <3>3
      <4> QED
        BY <1>a, <3>1, <4>1
    <3>4. CASE k > i
      <4>1. k - 1 \in i .. Len(base) - 1 /\ k - 1 \in DOMAIN base'
        BY <1>2, <1>4, <3>2, <3>4
      <4>2. base'[k - 1] = base[(k - 1) + 1]
        BY <1>a, <3>1, <4>1
      <4> QED
        BY <1>4, <4>1, <4>2
    <3> QED
      BY <1>2, <1>4, <1>6, <3>3, <3>4
  <2>2. CASE setup.base # "squish"
    BY <1>0, <1>4, <1>6, <2>2 DEF Without
  <2> QED
    BY <2>1, <2>2
<1> QED
  BY <1>5, <1>6

LEMMA KillInv == IInv /\ Kill => IInv'
<1> SUFFICES ASSUME IInv, Kill PROVE IInv'
  OBVIOUS
<1>0. UNCHANGED <<setup, sent, done, crashes>> /\ pc = "kill" /\ pc' = "look"
  BY DEF Kill
<1>1. TypeOK'
  BY TypeStep DEF IInv, Next, Scan
<1>2. i \in DOMAIN base /\ i \in 1 .. Len(base) /\ base[i].no > 0 /\ RunOK /\ i > 0
  BY <1>0 DEF IInv, TypeOK
<1>3. /\ ForRobot(Mail(i)) /\ done[base[i].no].ends > 0 /\ setup.kill
      /\ Trusted(Mail(i))
  BY <1>0, <1>2 DEF RunOK
<1>5. ASSUME NEW k \in DOMAIN base', base'[k].no > 0
      PROVE  From(k) \in DOMAIN base /\ From(k) # i /\ base'[k] = base[From(k)]
  BY <1>5, KillSlots
<1>6. ASSUME NEW k \in DOMAIN base, k # i
      PROVE  \E j \in DOMAIN base' : base'[j] = base[k]
  BY <1>6, KillSlots
<1>7. ASSUME NEW n \in DOMAIN sent PROVE MailOK(n)'
  <2>1. MailOK(n)
    BY DEF IInv
  <2>2. (\E k \in DOMAIN base : base[k].no = n) =>
          n = base[i].no \/ \E k \in DOMAIN base' : base'[k].no = n
    BY <1>6
  <2>3. n = base[i].no => sent[n] = Mail(i)
    BY DEF Mail
  <2> QED
    BY <1>0, <1>3, <2>1, <2>2, <2>3 DEF MailOK, ForRobot, NotForMe, Trusted
<1>8. ASSUME NEW k \in DOMAIN base', base'[k].no > 0 PROVE SlotOK(k)'
  <2>1. /\ From(k) \in DOMAIN base /\ From(k) # i /\ base'[k] = base[From(k)]
        /\ SlotOK(From(k)) /\ ~Current(From(k))
    BY <1>5, <1>8 DEF IInv, Current
  <2> QED
    BY <1>0, <2>1 DEF SlotOK, Mail, ForRobot, NotForMe
<1>9. ASSUME NEW j \in DOMAIN base', NEW k \in DOMAIN base',
             base'[j].no = base'[k].no, base'[j].no > 0
      PROVE  j = k
  <2>1. From(j) = From(k)
    BY <1>5, <1>9 DEF IInv
  <2>2. j \in Nat /\ k \in Nat
    BY <1>1 DEF TypeOK
  <2> QED
    BY <1>2, <2>1, <2>2 DEF From
<1>10. RunOK'
  BY <1>0 DEF RunOK
<1> QED
  BY <1>0, <1>1, <1>7, <1>8, <1>9, <1>10 DEF IInv

LEMMA IInvStep == IInv /\ [Next]_vars => IInv'
<1> SUFFICES ASSUME IInv, [Next]_vars PROVE IInv'
  OBVIOUS
<1>0. TypeOK /\ TypeOK' /\ RunOK
  BY TypeStep DEF IInv
<1>1. CASE Arrive
  BY <1>1, ArriveInv
<1>2. CASE Start \/ Skip \/ Finish \/ Crash \/ Ffix
  <2>1. /\ UNCHANGED <<setup, sent, base, done>>
        /\ crashes' = crashes \/ crashes' = crashes + 1
        /\ pc' \in {"idle", "look"} \/ (pc' = "exec" /\ i' = 0)
        /\ pc \in {"idle", "look"} \/ i = 0 \/ crashes' = crashes + 1
    BY <1>2 DEF Start, Skip, Finish, Crash, Ffix, Ended, mvars
  <2> QED
    BY <1>0, <2>1, QuietStep
<1>3. CASE Refuse
  <2>1. i \in DOMAIN base /\ base[i].no > 0 /\ ~base[i].read /\ i > 0
    BY <1>0, <1>3, ForUsSlot DEF Refuse, TypeOK
  <2>2. ForRobot(Mail(i))
    BY <1>3 DEF Refuse, ForRobot, ForUs
  <2>3. /\ UNCHANGED <<setup, sent, base, crashes, i>> /\ Note(i, 1, 1, 1, 0)
        /\ pc = "look" /\ pc' = "mark" /\ result' = 0
    BY <1>3 DEF Refuse
  <2> QED
    BY <1>0, <2>1, <2>2, <2>3, WorkStep
<1>4. CASE Request
  <2>1. i \in DOMAIN base /\ base[i].no > 0 /\ ~base[i].read /\ i > 0
    BY <1>0, <1>4, ForUsSlot DEF Request, TypeOK
  <2>2. ForRobot(Mail(i)) /\ Trusted(Mail(i))
    BY <1>4 DEF Request, ForRobot, ForUs
  <2>3. /\ UNCHANGED <<setup, sent, base, crashes, i>> /\ Note(i, 1, 0, 0, 0)
        /\ pc = "look" /\ pc' = "exec"
    BY <1>4 DEF Request
  <2> QED
    BY <1>0, <2>1, <2>2, <2>3, WorkStep
<1>5. CASE Exec \/ EndExec
  <2>1. PICK e \in {0, 1}, r \in {0, 1}, q \in {0, 1} : Note(i, 0, e, r, q) /\ (EndExec => e = 1)
    BY <1>5 DEF Exec, EndExec
  <2>2. /\ UNCHANGED <<setup, sent, base, crashes>> /\ pc = "exec"
        /\ Exec => i' = i /\ pc' = "exec"
        /\ EndExec => (i = 0 /\ pc' = "idle") \/ (i # 0 /\ i' = i /\ pc' = "mark")
    BY <1>5 DEF Exec, EndExec, Ended
  <2>3. CASE i = 0
    <3>1. UNCHANGED done
      BY <2>1, <2>3 DEF Note
    <3> QED
      BY <1>0, <1>5, <2>2, <2>3, <3>1, QuietStep
  <2>4. CASE i # 0
    <3>1. i \in DOMAIN base /\ base[i].no > 0 /\ i > 0
      BY <1>0, <2>2, <2>4 DEF TypeOK
    <3>2. ~base[i].read /\ ForRobot(Mail(i)) /\ Trusted(Mail(i))
      BY <1>0, <2>2, <3>1 DEF RunOK
    <3> QED
      BY <1>0, <1>5, <2>1, <2>2, <2>4, <3>1, <3>2, WorkStep
  <2> QED
    BY <2>3, <2>4
<1>6. CASE Mark
  BY <1>6, MarkInv
<1>7. CASE Kill
  BY <1>7, KillInv
<1>8. CASE Edit \/ UNCHANGED vars
  <2>1. UNCHANGED <<setup, sent, base, done, crashes, i, pc, result>>
    BY <1>8 DEF Edit, vars, mvars, rvars
  <2> QED
    BY <1>0, <2>1 DEF IInv, SlotOK, MailOK, RunOK, Current, Mail, ForRobot, NotForMe, Trusted
<1> QED
  BY <1>1, <1>2, <1>3, <1>4, <1>5, <1>6, <1>7, <1>8 DEF Next, Scan

(* A request is executed and answered before it is put away, again only    *)
(* after a crash; other mail is untouched.  For any mails, in any number.  *)
THEOREM RequestsHandled == Spec => []HandledOnce
BY IInvInit, IInvStep, IInvHandled, PTL DEF Spec

-----------------------------------------------------------------------------
(* Obeyed.  The subscription has two parts, "linked" and "pause", and each *)
(* is what the last command says that writes it.                           *)

Parts == {"linked", "pause"}
State == [linked : BOOLEAN, pause : BOOLEAN]

Writes(command, c) ==
  IF c = "linked" THEN (command = "ADD" /\ MaySubscribe) \/ command = "DEL"
  ELSE command \in {"PAUSE", "RESUME"}

Gives(command) == command \in {"ADD", "PAUSE"}

LineWrites(line, c) == Writes(CommandOf(line), c)

LEMMA EffectByPart ==
  ASSUME NEW s \in State, NEW command, NEW c \in Parts
  PROVE  Effect(s, command)[c] = IF Writes(command, c) THEN Gives(command) ELSE s[c]
<1>1. CASE command = "ADD" /\ MaySubscribe
  BY <1>1 DEF Effect, Writes, Gives, State, Parts
<1>2. CASE command = "DEL"
  <2>1. Effect(s, command) = [s EXCEPT !.linked = FALSE]
    BY <1>2 DEF Effect
  <2>2. Writes(command, c) <=> c = "linked"
    BY <1>2 DEF Writes, Parts
  <2>3. Gives(command) = FALSE
    BY <1>2 DEF Gives
  <2>4. [s EXCEPT !.linked = FALSE][c] = IF c = "linked" THEN FALSE ELSE s[c]
    <3> DOMAIN s = Parts
      BY DEF State, Parts
    <3> QED
      OBVIOUS
  <2> QED
    BY <2>1, <2>2, <2>3, <2>4
<1>3. CASE command = "PAUSE"
  BY <1>3 DEF Effect, Writes, Gives, State, Parts
<1>4. CASE command = "RESUME"
  <2>1. Effect(s, command) = [s EXCEPT !.pause = FALSE]
    BY <1>4 DEF Effect
  <2>2. Writes(command, c) <=> c = "pause"
    BY <1>4 DEF Writes, Parts
  <2>3. Gives(command) = FALSE
    BY <1>4 DEF Gives
  <2>4. [s EXCEPT !.pause = FALSE][c] = IF c = "pause" THEN FALSE ELSE s[c]
    <3> DOMAIN s = Parts
      BY DEF State, Parts
    <3> QED
      OBVIOUS
  <2> QED
    BY <2>1, <2>2, <2>3, <2>4
<1>5. CASE /\ ~(command = "ADD" /\ MaySubscribe)
           /\ command \notin {"DEL", "PAUSE", "RESUME"}
  BY <1>5 DEF Effect, Writes, Parts
<1> QED
  BY <1>1, <1>2, <1>3, <1>4, <1>5

(* What no step changes after the j-th is in the end what that step left.  *)
LEMMA KeptSince ==
  ASSUME NEW n \in Nat, NEW j \in 0 .. n, NEW f,
         \A k \in 1 .. n : k > j => f[k] = f[k - 1]
  PROVE  f[n] = f[j]
<1> DEFINE T == {k \in Nat : k >= j /\ k <= n => f[k] = f[j]}
<1>1. 0 \in T
  OBVIOUS
<1>2. ASSUME NEW k \in Nat, k \in T PROVE k + 1 \in T
  <2> SUFFICES ASSUME k + 1 >= j, k + 1 <= n PROVE f[k + 1] = f[j]
    OBVIOUS
  <2>1. CASE k + 1 = j
    BY <2>1
  <2>2. CASE k + 1 # j
    <3>1. k >= j /\ k <= n /\ k + 1 \in 1 .. n /\ k + 1 > j /\ (k + 1) - 1 = k
      BY <2>2
    <3>2. f[k + 1] = f[k] /\ f[k] = f[j]
      BY <1>2, <3>1
    <3> QED
      BY <3>2
  <2> QED
    BY <2>1, <2>2
<1>3. \A k \in Nat : k \in T
  <2> HIDE DEF T
  <2> QED
    BY <1>1, <1>2, NatInduct
<1> QED
  BY <1>3

(* The function that FoldLeft chooses for the commands of a request. *)
IsRunOf(it, s, lines) ==
  it = [S \in SUBSET DOMAIN lines |->
          IF S = {} THEN s
          ELSE Effect(it[S \ {Max(S)}], CommandOf(lines[Max(S)]))]

LEMMA EffectFold ==
  ASSUME NEW s \in State, NEW lines \in Seq(LineType)
  PROVE  \E f : /\ f[0] = s /\ \A k \in 0 .. Len(lines) : f[k] \in State
                /\ \A k \in 1 .. Len(lines) : f[k] = Effect(f[k - 1], CommandOf(lines[k]))
                /\ EffectOfAll(s, lines) = f[Len(lines)]
<1> DEFINE n == Len(lines)
           F == [p \in (1 .. n) \X State |-> Effect(p[2], CommandOf(lines[p[1]]))]
<1>1. n \in Nat /\ DOMAIN lines = 1 .. n
  OBVIOUS
<1>2. \A r \in State : \A command : Effect(r, command) \in State
  BY EffectTypes DEF State
<1> HIDE DEF n
<1>3. F \in [(1 .. n) \X State -> State]
  BY <1>2
<1>4. PICK it : IsFold(it, n, State, s, F)
  BY <1>1, <1>3, FoldExists
<1>5. ASSUME NEW S \in SUBSET (1 .. n), S # {}
      PROVE  it[S] = Effect(it[S \ {Max(S)}], CommandOf(lines[Max(S)]))
  <2>1. Max(S) \in 1 .. n
    BY <1>1, <1>5, MaxIn
  <2>2. it[S \ {Max(S)}] \in State
    BY <1>4 DEF IsFold
  <2>3. it[S] = F[<<Max(S), it[S \ {Max(S)}]>>]
    BY <1>4, <1>5 DEF IsFold
  <2> QED
    BY <2>1, <2>2, <2>3
<1>6. it[{}] = s /\ it = [S \in SUBSET (1 .. n) |-> it[S]]
  BY <1>4 DEF IsFold
<1>7. IsRunOf(it, s, lines)
  BY <1>1, <1>5, <1>6 DEF IsRunOf
<1> DEFINE run == CHOOSE r : IsRunOf(r, s, lines)
<1>8. IsRunOf(run, s, lines)
  BY <1>7
<1>9. EffectOfAll(s, lines) = run[DOMAIN lines]
  BY DEF EffectOfAll, FoldLeft, MapThenFoldSet, IsRunOf
<1> HIDE DEF run
<1> DEFINE f == [k \in 0 .. n |-> run[1 .. k]]
<1>10. f[0] = s
  <2>1. 1 .. 0 = {} /\ run[{}] = s
    BY <1>8 DEF IsRunOf
  <2> QED
    BY <1>1, <2>1
<1>11. ASSUME NEW k \in 1 .. n PROVE f[k] = Effect(f[k - 1], CommandOf(lines[k]))
  <2>1. /\ k \in Nat /\ k > 0 /\ 1 .. k \in SUBSET DOMAIN lines
        /\ k \in 0 .. n /\ k - 1 \in 0 .. n
    BY <1>1
  <2>2. Max(1 .. k) = k /\ (1 .. k) \ {k} = 1 .. k - 1 /\ 1 .. k # {}
    BY <2>1, MaxUpTo
  <2>3. run[1 .. k] = Effect(run[1 .. k - 1], CommandOf(lines[k]))
    BY <1>8, <2>1, <2>2 DEF IsRunOf
  <2> QED
    BY <2>1, <2>3
<1> HIDE DEF f
<1> DEFINE T == {k \in Nat : k <= n => f[k] \in State}
<1>12. 0 \in T
  BY <1>10
<1>13. ASSUME NEW k \in Nat, k \in T PROVE k + 1 \in T
  <2> SUFFICES ASSUME k + 1 <= n PROVE f[k + 1] \in State
    OBVIOUS
  <2>1. k + 1 \in 1 .. n /\ (k + 1) - 1 = k /\ f[k] \in State
    BY <1>1, <1>13
  <2> QED
    BY <1>2, <1>11, <2>1
<1>14. \A k \in Nat : k \in T
  <2> HIDE DEF T
  <2> QED
    BY <1>12, <1>13, NatInduct
<1>15. f[n] = run[DOMAIN lines]
  BY <1>1 DEF f
<1> QED
  BY <1>1, <1>9, <1>10, <1>11, <1>14, <1>15 DEF n

(* After a request, a part of the subscription is what the request's last  *)
(* command on this part says.                                              *)
LEMMA EffectLast ==
  ASSUME NEW s \in State, NEW lines \in Seq(LineType), NEW c \in Parts
  PROVE  /\ EffectOfAll(s, lines) \in State
         /\ (\A k \in DOMAIN lines : ~LineWrites(lines[k], c)) =>
              EffectOfAll(s, lines)[c] = s[c]
         /\ \A j \in DOMAIN lines :
              /\ LineWrites(lines[j], c)
              /\ \A k \in DOMAIN lines : k > j => ~LineWrites(lines[k], c)
              => EffectOfAll(s, lines)[c] = Gives(CommandOf(lines[j]))
<1> DEFINE n == Len(lines)
<1>1. n \in Nat /\ DOMAIN lines = 1 .. n
  OBVIOUS
<1>2. PICK f : /\ f[0] = s /\ \A k \in 0 .. n : f[k] \in State
               /\ \A k \in 1 .. n : f[k] = Effect(f[k - 1], CommandOf(lines[k]))
               /\ EffectOfAll(s, lines) = f[n]
  BY EffectFold
<1> HIDE DEF n
<1> DEFINE g == [k \in 0 .. n |-> f[k][c]]
<1>3. ASSUME NEW k \in 1 .. n
      PROVE  g[k] = IF LineWrites(lines[k], c) THEN Gives(CommandOf(lines[k])) ELSE g[k - 1]
  <2>1. k \in 0 .. n /\ k - 1 \in 0 .. n /\ f[k - 1] \in State
    BY <1>1, <1>2
  <2>2. f[k][c] = IF Writes(CommandOf(lines[k]), c) THEN Gives(CommandOf(lines[k]))
                  ELSE f[k - 1][c]
    BY <1>2, <2>1, EffectByPart
  <2> QED
    BY <2>1, <2>2 DEF LineWrites
<1>4. g[0] = s[c] /\ g[n] = EffectOfAll(s, lines)[c]
  BY <1>1, <1>2
<1> HIDE DEF g
<1>5. ASSUME NEW j \in 0 .. n, \A k \in 1 .. n : k > j => ~LineWrites(lines[k], c)
      PROVE  g[n] = g[j]
  BY <1>1, <1>3, <1>5, KeptSince
<1>6. EffectOfAll(s, lines) \in State
  BY <1>1, <1>2
<1>7. ASSUME \A k \in 1 .. n : ~LineWrites(lines[k], c) PROVE g[n] = s[c]
  <2>1. 0 \in 0 .. n
    BY <1>1
  <2> QED
    BY <1>4, <1>5, <1>7, <2>1
<1>8. ASSUME NEW j \in 1 .. n, LineWrites(lines[j], c),
             \A k \in 1 .. n : k > j => ~LineWrites(lines[k], c)
      PROVE  g[n] = Gives(CommandOf(lines[j]))
  <2>1. j \in 0 .. n
    BY <1>1
  <2> QED
    BY <1>3, <1>5, <1>8, <2>1
<1> QED
  BY <1>1, <1>4, <1>6, <1>7, <1>8

MailWrites(m, c) ==
  ForRobot(m) /\ Trusted(m) /\ \E k \in DOMAIN m.lines : LineWrites(m.lines[k], c)

(* The last line of a request that writes the part. *)
LEMMA LastLine ==
  ASSUME NEW m \in MailType, NEW c, \E k \in DOMAIN m.lines : LineWrites(m.lines[k], c)
  PROVE  \E j \in DOMAIN m.lines :
           /\ LineWrites(m.lines[j], c)
           /\ \A k \in DOMAIN m.lines : k > j => ~LineWrites(m.lines[k], c)
<1> DEFINE n == Len(m.lines)
           W == {k \in 1 .. n : LineWrites(m.lines[k], c)}
<1>1. n \in Nat /\ DOMAIN m.lines = 1 .. n
  BY DEF MailType
<1>2. W \in SUBSET (1 .. n) /\ W # {}
  BY <1>1
<1> HIDE DEF n
<1>3. PICK j \in W : \A k \in W : j >= k
  BY <1>1, <1>2, MaxIn
<1>4. j \in 1 .. n /\ LineWrites(m.lines[j], c)
  OBVIOUS
<1>5. ASSUME NEW k \in 1 .. n, k > j PROVE ~LineWrites(m.lines[k], c)
  <2>1. k \in W => j >= k
    BY <1>3
  <2> QED
    BY <1>1, <1>4, <1>5, <2>1
<1> QED
  BY <1>1, <1>4, <1>5

(* What a request makes of the subscription. *)
AfterMail(s, m) == IF ForRobot(m) /\ Trusted(m) THEN EffectOfAll(s, m.lines) ELSE s

NoneYet == [linked |-> FALSE, pause |-> FALSE]

LEMMA AfterMailLast ==
  ASSUME NEW s \in State, NEW m \in MailType, NEW c \in Parts
  PROVE  /\ AfterMail(s, m) \in State
         /\ AfterMail(s, m)[c] = IF MailWrites(m, c) THEN AfterMail(NoneYet, m)[c] ELSE s[c]
<1>1. m.lines \in Seq(LineType) /\ NoneYet \in State
  BY DEF MailType, NoneYet, State
<1>2. CASE ~(ForRobot(m) /\ Trusted(m))
  BY <1>2 DEF AfterMail, MailWrites
<1>3. CASE ForRobot(m) /\ Trusted(m) /\ ~MailWrites(m, c)
  BY <1>1, <1>3, EffectLast DEF AfterMail, MailWrites
<1>4. CASE MailWrites(m, c)
  <2>1. PICK j \in DOMAIN m.lines :
           /\ LineWrites(m.lines[j], c)
           /\ \A k \in DOMAIN m.lines : k > j => ~LineWrites(m.lines[k], c)
    BY <1>4, LastLine DEF MailWrites
  <2>2. \A r \in State : /\ EffectOfAll(r, m.lines) \in State
                         /\ EffectOfAll(r, m.lines)[c] = Gives(CommandOf(m.lines[j]))
    BY <1>1, <2>1, EffectLast
  <2> QED
    BY <1>1, <1>4, <2>2 DEF AfterMail, MailWrites
<1> QED
  BY <1>2, <1>3, <1>4

(* The function that FoldLeft chooses for the mails. *)
IsHistory(it) ==
  it = [S \in SUBSET DOMAIN sent |->
          IF S = {} THEN NoneYet ELSE AfterMail(it[S \ {Max(S)}], sent[Max(S)])]

LEMMA WantedFold ==
  ASSUME TypeOK
  PROVE  \E f : /\ f[0] = NoneYet /\ \A k \in 0 .. Len(sent) : f[k] \in State
                /\ \A k \in 1 .. Len(sent) : f[k] = AfterMail(f[k - 1], sent[k])
                /\ Wanted = f[Len(sent)]
<1> DEFINE n == Len(sent)
           F == [p \in (1 .. n) \X State |-> AfterMail(p[2], sent[p[1]])]
<1>1. /\ n \in Nat /\ DOMAIN sent = 1 .. n /\ NoneYet \in State
      /\ \A k \in 1 .. n : sent[k] \in MailType
  BY FilefixAssumption DEF TypeOK, NoneYet, State
<1>2. \A s \in State, k \in 1 .. n : AfterMail(s, sent[k]) \in State
  <2>1. "linked" \in Parts
    BY DEF Parts
  <2> QED
    BY <1>1, <2>1, AfterMailLast
<1> HIDE DEF n
<1>3. F \in [(1 .. n) \X State -> State]
  BY <1>2
<1>4. PICK it : IsFold(it, n, State, NoneYet, F)
  BY <1>1, <1>3, FoldExists
<1>5. ASSUME NEW S \in SUBSET (1 .. n), S # {}
      PROVE  it[S] = AfterMail(it[S \ {Max(S)}], sent[Max(S)])
  <2>1. Max(S) \in 1 .. n
    BY <1>1, <1>5, MaxIn
  <2>2. it[S \ {Max(S)}] \in State
    BY <1>4 DEF IsFold
  <2>3. it[S] = F[<<Max(S), it[S \ {Max(S)}]>>]
    BY <1>4, <1>5 DEF IsFold
  <2> QED
    BY <2>1, <2>2, <2>3
<1>6. it[{}] = NoneYet /\ it = [S \in SUBSET (1 .. n) |-> it[S]]
  BY <1>4 DEF IsFold
<1>7. IsHistory(it)
  BY <1>1, <1>5, <1>6 DEF IsHistory
<1> DEFINE history == CHOOSE r : IsHistory(r)
<1>8. IsHistory(history)
  BY <1>7
<1>9. Wanted = history[DOMAIN sent]
  BY DEF Wanted, FoldLeft, MapThenFoldSet, IsHistory, AfterMail, NoneYet
<1> HIDE DEF history
<1> DEFINE f == [k \in 0 .. n |-> history[1 .. k]]
<1>10. f[0] = NoneYet
  <2>1. 1 .. 0 = {} /\ history[{}] = NoneYet
    BY <1>8 DEF IsHistory
  <2> QED
    BY <1>1, <2>1
<1>11. ASSUME NEW k \in 1 .. n PROVE f[k] = AfterMail(f[k - 1], sent[k])
  <2>1. /\ k \in Nat /\ k > 0 /\ 1 .. k \in SUBSET DOMAIN sent
        /\ k \in 0 .. n /\ k - 1 \in 0 .. n
    BY <1>1
  <2>2. Max(1 .. k) = k /\ (1 .. k) \ {k} = 1 .. k - 1 /\ 1 .. k # {}
    BY <2>1, MaxUpTo
  <2>3. history[1 .. k] = AfterMail(history[1 .. k - 1], sent[k])
    BY <1>8, <2>1, <2>2 DEF IsHistory
  <2> QED
    BY <2>1, <2>3
<1> HIDE DEF f
<1> DEFINE T == {k \in Nat : k <= n => f[k] \in State}
<1>12. 0 \in T
  BY <1>1, <1>10
<1>13. ASSUME NEW k \in Nat, k \in T PROVE k + 1 \in T
  <2> SUFFICES ASSUME k + 1 <= n PROVE f[k + 1] \in State
    OBVIOUS
  <2>1. k + 1 \in 1 .. n /\ (k + 1) - 1 = k /\ f[k] \in State
    BY <1>1, <1>13
  <2> QED
    BY <1>2, <1>11, <2>1
<1>14. \A k \in Nat : k \in T
  <2> HIDE DEF T
  <2> QED
    BY <1>12, <1>13, NatInduct
<1>15. f[n] = history[DOMAIN sent]
  BY <1>1 DEF f
<1> QED
  BY <1>1, <1>9, <1>10, <1>11, <1>14, <1>15 DEF n

(* Line j of mail n has the last word on a part of the subscription. *)
LastSays(n, j, c) ==
  /\ ForRobot(sent[n]) /\ Trusted(sent[n])
  /\ LineWrites(sent[n].lines[j], c)
  /\ \A k \in DOMAIN sent[n].lines : k > j => ~LineWrites(sent[n].lines[k], c)
  /\ \A m \in DOMAIN sent : m > n => ~MailWrites(sent[m], c)

(* What all requests together ask for: the last word, or nothing yet. *)
WantedIs ==
  \A c \in Parts :
    /\ (\A n \in DOMAIN sent : ~MailWrites(sent[n], c)) => Wanted[c] = FALSE
    /\ \A n \in DOMAIN sent : \A j \in DOMAIN sent[n].lines :
         LastSays(n, j, c) => Wanted[c] = Gives(CommandOf(sent[n].lines[j]))

LEMMA WantedLast == TypeOK => WantedIs
<1> SUFFICES ASSUME TypeOK, NEW c \in Parts
             PROVE  /\ (\A n \in DOMAIN sent : ~MailWrites(sent[n], c)) => Wanted[c] = FALSE
                    /\ \A n \in DOMAIN sent : \A j \in DOMAIN sent[n].lines :
                         LastSays(n, j, c) => Wanted[c] = Gives(CommandOf(sent[n].lines[j]))
  BY DEF WantedIs
<1> DEFINE n == Len(sent)
<1>1. /\ n \in Nat /\ DOMAIN sent = 1 .. n /\ NoneYet \in State /\ NoneYet[c] = FALSE
      /\ \A k \in 1 .. n : sent[k] \in MailType
  BY FilefixAssumption DEF TypeOK, NoneYet, State, Parts
<1>2. PICK f : /\ f[0] = NoneYet /\ \A k \in 0 .. n : f[k] \in State
               /\ \A k \in 1 .. n : f[k] = AfterMail(f[k - 1], sent[k])
               /\ Wanted = f[n]
  BY WantedFold
<1> HIDE DEF n
<1> DEFINE g == [k \in 0 .. n |-> f[k][c]]
<1>3. ASSUME NEW k \in 1 .. n
      PROVE  g[k] = IF MailWrites(sent[k], c) THEN AfterMail(NoneYet, sent[k])[c] ELSE g[k - 1]
  <2>1. k \in 0 .. n /\ k - 1 \in 0 .. n /\ f[k - 1] \in State
    BY <1>1, <1>2
  <2>2. f[k][c] = IF MailWrites(sent[k], c) THEN AfterMail(NoneYet, sent[k])[c] ELSE f[k - 1][c]
    BY <1>1, <1>2, <2>1, AfterMailLast
  <2> QED
    BY <2>1, <2>2
<1>4. g[0] = FALSE /\ g[n] = Wanted[c]
  BY <1>1, <1>2
<1> HIDE DEF g
<1>5. ASSUME NEW j \in 0 .. n, \A k \in 1 .. n : k > j => ~MailWrites(sent[k], c)
      PROVE  g[n] = g[j]
  BY <1>1, <1>3, <1>5, KeptSince
<1>6. ASSUME \A m \in 1 .. n : ~MailWrites(sent[m], c) PROVE g[n] = FALSE
  <2>1. 0 \in 0 .. n
    BY <1>1
  <2> QED
    BY <1>4, <1>5, <1>6, <2>1
<1>7. ASSUME NEW m \in 1 .. n, NEW j \in DOMAIN sent[m].lines, LastSays(m, j, c)
      PROVE  g[n] = Gives(CommandOf(sent[m].lines[j]))
  <2>1. m \in 0 .. n /\ sent[m] \in MailType /\ MailWrites(sent[m], c)
    BY <1>1, <1>7 DEF LastSays, MailWrites
  <2>2. g[n] = AfterMail(NoneYet, sent[m])[c]
    BY <1>1, <1>3, <1>5, <1>7, <2>1 DEF LastSays
  <2>3. AfterMail(NoneYet, sent[m]) = EffectOfAll(NoneYet, sent[m].lines)
    BY <1>7 DEF AfterMail, LastSays
  <2>4. sent[m].lines \in Seq(LineType)
    BY <2>1 DEF MailType
  <2>5. EffectOfAll(NoneYet, sent[m].lines)[c] = Gives(CommandOf(sent[m].lines[j]))
    BY <1>1, <1>7, <2>4, EffectLast DEF LastSays
  <2> QED
    BY <2>2, <2>3, <2>5
<1> QED
  BY <1>1, <1>4, <1>6, <1>7

-----------------------------------------------------------------------------
(* The order of requests: slots are in the order of arrival and, unless a  *)
(* mail has come into a slot that the run had passed, no request waits in  *)
(* a slot the run has passed, and none is put away while an earlier one    *)
(* waits.                                                                  *)

Waits(k) == base[k].no > 0 /\ ~base[k].read

SlotsOrdered ==
  \A j, k \in DOMAIN base :
    j < k /\ base[j].no > 0 /\ base[k].no > 0 => base[j].no < base[k].no

PassedOK == \A k \in DOMAIN base : k < i /\ Waits(k) => ~ForRobot(Mail(k))

LaterWaits ==
  \A k \in DOMAIN base, n \in DOMAIN sent :
    Waits(k) /\ ForRobot(Mail(k)) /\ ForRobot(sent[n]) /\ n > base[k].no =>
      \E j \in DOMAIN base : base[j].no = n /\ ~base[j].read

Ordered == SlotsOrdered /\ (~behind => PassedOK /\ LaterWaits)

LEMMA SlotNumbers ==
  ASSUME TypeOK
  PROVE  /\ DOMAIN base = 1 .. Len(base) /\ Len(base) \in Nat
         /\ DOMAIN sent = 1 .. Len(sent) /\ Len(sent) \in Nat
         /\ \A k \in DOMAIN base : base[k].no \in 0 .. Len(sent) /\ base[k].read \in BOOLEAN
<1>1. base \in Seq(SlotType) /\ sent \in Seq(Mails)
  BY DEF TypeOK
<1>2. ASSUME NEW k \in DOMAIN base
      PROVE  base[k].no \in 0 .. Len(sent) /\ base[k].read \in BOOLEAN
  <2>1. base[k] \in SlotType
    BY <1>1
  <2> QED
    BY <2>1 DEF SlotType
<1> QED
  BY <1>1, <1>2

LEMMA OrderedStays ==
  ASSUME TypeOK, Ordered, UNCHANGED <<sent, base, behind>>, i' = i \/ i' \in {0, 1}
  PROVE  Ordered'
<1>1. \A k \in DOMAIN base : k \in Nat /\ k >= 1
  BY SlotNumbers
<1>2. \A k \in DOMAIN base : k < i' => k < i
  BY <1>1
<1>3. SlotsOrdered' /\ (LaterWaits => LaterWaits')
  BY DEF Ordered, SlotsOrdered, LaterWaits, Waits, Mail, ForRobot, NotForMe
<1>4. PassedOK => PassedOK'
  BY <1>2 DEF PassedOK, Waits, Mail, ForRobot, NotForMe
<1> QED
  BY <1>3, <1>4 DEF Ordered

LEMMA OrderedSkip ==
  ASSUME TypeOK, Ordered, Skip
  PROVE  Ordered'
<1>1. UNCHANGED <<sent, base, behind>> /\ i' = i + 1 /\ ~(ForUs(i) /\ ~NotForMe(Mail(i)))
  BY DEF Skip, mvars
<1>2. i \in DOMAIN base /\ Waits(i) => ~ForRobot(Mail(i))
  BY <1>1, SlotNumbers DEF ForUs, ForRobot, Waits
<1>3. \A k \in DOMAIN base : k < i + 1 => k < i \/ k = i
  BY SlotNumbers DEF TypeOK
<1>4. PassedOK => PassedOK'
  BY <1>1, <1>2, <1>3 DEF PassedOK, Waits, Mail, ForRobot, NotForMe
<1>5. SlotsOrdered' /\ (LaterWaits => LaterWaits')
  BY <1>1 DEF Ordered, SlotsOrdered, LaterWaits, Waits, Mail, ForRobot, NotForMe
<1> QED
  BY <1>1, <1>4, <1>5 DEF Ordered

LEMMA OrderedMark ==
  ASSUME IInv, Ordered, Mark
  PROVE  Ordered'
<1>1. UNCHANGED <<sent, behind>> /\ pc = "mark" /\ i' \in {i, i + 1} /\ TypeOK
  BY DEF Mark, IInv
<1>2. i \in DOMAIN base /\ base[i].no > 0 /\ i \in Nat
  BY <1>1 DEF TypeOK
<1>3. /\ DOMAIN base' = DOMAIN base
      /\ \A k \in DOMAIN base : base'[k].no = base[k].no /\ (k # i => base'[k] = base[k])
      /\ base'[i].read
  BY <1>2 DEF Mark, IInv, TypeOK
<1>4. \A k \in DOMAIN base : Waits(k)' => k # i /\ Waits(k) /\ Mail(k)' = Mail(k)
  BY <1>1, <1>3 DEF Waits, Mail
<1>5. SlotsOrdered'
  BY <1>3 DEF Ordered, SlotsOrdered
<1>6. PassedOK => PassedOK'
  <2>1. \A k \in DOMAIN base : k < i' /\ k # i => k < i
    BY <1>1, <1>2, SlotNumbers
  <2> QED
    BY <1>3, <1>4, <2>1 DEF PassedOK, ForRobot, NotForMe
<1>7. ASSUME PassedOK, LaterWaits PROVE LaterWaits'
  <2> SUFFICES ASSUME NEW k \in DOMAIN base, NEW n \in DOMAIN sent,
                      Waits(k)', ForRobot(Mail(k)), ForRobot(sent[n]), n > base[k].no
               PROVE  \E j \in DOMAIN base : base'[j].no = n /\ ~base'[j].read
    BY <1>1, <1>3, <1>4 DEF LaterWaits, ForRobot, NotForMe
  <2>1. k # i /\ Waits(k) /\ base[k].no > 0
    BY <1>4 DEF Waits
  <2>2. PICK j \in DOMAIN base : base[j].no = n /\ ~base[j].read
    BY <1>7, <2>1 DEF LaterWaits
  <2>3. j # i
    <3> SUFFICES ASSUME j = i PROVE FALSE
      OBVIOUS
    <3>1. base[k].no < base[i].no
      BY <2>2
    <3>2. ~(k < i)
      BY <1>7, <2>1 DEF PassedOK
    <3>3. i < k
      BY <2>1, <3>2, SlotNumbers, <1>1, <1>2
    <3>4. base[i].no < base[k].no
      BY <1>2, <2>1, <3>3 DEF Ordered, SlotsOrdered
    <3>5. base[i].no \in Nat /\ base[k].no \in Nat
      BY <1>1, <1>2, SlotNumbers
    <3> QED
      BY <3>1, <3>4, <3>5
  <2> QED
    BY <1>3, <2>2, <2>3
<1> QED
  BY <1>1, <1>5, <1>6, <1>7 DEF Ordered

LEMMA OrderedKill ==
  ASSUME IInv, Ordered, Kill
  PROVE  Ordered'
<1>1. UNCHANGED <<sent, behind, i, setup>> /\ pc = "kill" /\ TypeOK /\ TypeOK'
  BY TypeStep DEF Kill, IInv, Next, Scan
<1>2. i \in DOMAIN base /\ base[i].no > 0 /\ i \in Nat /\ i > 0 /\ base[i].read
  BY <1>1 DEF TypeOK, IInv, RunOK
<1>3. ASSUME NEW k \in DOMAIN base', base'[k].no > 0
      PROVE  From(k) \in DOMAIN base /\ From(k) # i /\ base'[k] = base[From(k)]
  BY <1>3, KillSlots
<1>4. ASSUME NEW k \in DOMAIN base, k # i
      PROVE  \E j \in DOMAIN base' : base'[j] = base[k]
  BY <1>4, KillSlots
<1>5. \A k \in DOMAIN base' : k \in Nat
  BY <1>1, SlotNumbers
<1>6. SlotsOrdered'
  <2> SUFFICES ASSUME NEW j \in DOMAIN base', NEW k \in DOMAIN base', j < k,
                      base'[j].no > 0, base'[k].no > 0
               PROVE  base'[j].no < base'[k].no
    BY DEF SlotsOrdered
  <2>1. From(j) < From(k)
    BY <1>2, <1>5 DEF From
  <2> QED
    BY <1>3, <2>1 DEF Ordered, SlotsOrdered
<1>7. ASSUME NEW k \in DOMAIN base', Waits(k)'
      PROVE  From(k) \in DOMAIN base /\ Waits(From(k)) /\ Mail(k)' = Mail(From(k))
             /\ base'[k] = base[From(k)]
  BY <1>1, <1>3, <1>7 DEF Waits, Mail
<1>8. PassedOK => PassedOK'
  <2>1. \A k \in DOMAIN base' : k < i => From(k) = k
    BY <1>2, <1>5 DEF From
  <2> QED
    BY <1>1, <1>7, <2>1 DEF PassedOK, ForRobot, NotForMe
<1>9. ASSUME LaterWaits PROVE LaterWaits'
  <2> SUFFICES ASSUME NEW k \in DOMAIN base', NEW n \in DOMAIN sent,
                      Waits(k)', ForRobot(Mail(From(k))), ForRobot(sent[n]), n > base'[k].no
               PROVE  \E j \in DOMAIN base' : base'[j].no = n /\ ~base'[j].read
    BY <1>1, <1>7 DEF LaterWaits, ForRobot, NotForMe
  <2>1. PICK j \in DOMAIN base : base[j].no = n /\ ~base[j].read
    BY <1>7, <1>9 DEF LaterWaits
  <2>2. j # i
    BY <1>2, <2>1
  <2> QED
    BY <1>4, <2>1, <2>2
<1> QED
  BY <1>1, <1>6, <1>8, <1>9 DEF Ordered

LEMMA OrderedArrive ==
  ASSUME TypeOK, Ordered, Arrive
  PROVE  Ordered'
<1> DEFINE N == Len(sent) + 1
           B == Len(base) + 1
<1> PICK m \in Mails :
      /\ sent' = Append(sent, m)
      /\ base' = Append(base, [no |-> N, read |-> FALSE])
  BY DEF Arrive
<1>1. i' = i /\ (~behind' => ~behind /\ i <= B) /\ i \in Nat
  <2>1. behind' = (behind \/ B < i) /\ i' = i
    BY DEF Arrive, rvars
  <2>2. i \in Nat /\ B \in Nat
    BY SlotNumbers DEF TypeOK
  <2>3. ~behind' => ~behind /\ ~(B < i)
    BY <2>1, Zenon
  <2> QED
    BY <2>1, <2>2, <2>3
<1>2. /\ DOMAIN base = 1 .. Len(base) /\ Len(base) \in Nat
      /\ DOMAIN sent = 1 .. Len(sent) /\ Len(sent) \in Nat
      /\ \A k \in DOMAIN base : base[k].no \in 0 .. Len(sent)
  BY SlotNumbers
<1>3. base \in Seq(SlotType) /\ sent \in Seq(Mails)
  BY DEF TypeOK
<1>4. /\ DOMAIN base' = 1 .. B /\ base'[B].no = N /\ base'[B].read = FALSE
      /\ \A k \in DOMAIN base : base'[k] = base[k]
      /\ DOMAIN sent' = 1 .. N /\ \A n \in DOMAIN sent : sent'[n] = sent[n]
  BY <1>2, <1>3
<1>5. SlotsOrdered'
  <2> SUFFICES ASSUME NEW j \in DOMAIN base', NEW k \in DOMAIN base', j < k,
                      base'[j].no > 0, base'[k].no > 0
               PROVE  base'[j].no < base'[k].no
    BY DEF SlotsOrdered
  <2>1. j \in DOMAIN base /\ (k \in DOMAIN base \/ k = B)
    BY <1>2, <1>4
  <2>2. CASE k \in DOMAIN base
    BY <1>4, <2>1, <2>2 DEF Ordered, SlotsOrdered
  <2>3. CASE k = B
    BY <1>2, <1>4, <2>1, <2>3
  <2> QED
    BY <2>1, <2>2, <2>3
<1>6. ASSUME NEW k \in DOMAIN base, Waits(k)'
      PROVE  Waits(k) /\ Mail(k)' = Mail(k)
  BY <1>2, <1>4, <1>6 DEF Waits, Mail
<1>7. ASSUME ~behind', PassedOK PROVE PassedOK'
  <2>1. \A k \in DOMAIN base' : k < i => k \in DOMAIN base
    BY <1>1, <1>2, <1>4, <1>7
  <2> QED
    BY <1>1, <1>6, <1>7, <2>1 DEF PassedOK, ForRobot, NotForMe
<1>8. ASSUME LaterWaits PROVE LaterWaits'
  <2> SUFFICES ASSUME NEW k \in DOMAIN base', NEW n \in DOMAIN sent',
                      Waits(k)', ForRobot(Mail(k)'), ForRobot(sent'[n]), n > base'[k].no
               PROVE  \E j \in DOMAIN base' : base'[j].no = n /\ ~base'[j].read
    BY DEF LaterWaits, ForRobot, NotForMe
  <2>1. B \in DOMAIN base'
    BY <1>2, <1>4
  <2>2. CASE n = N
    BY <1>4, <2>1, <2>2
  <2>3. CASE n # N
    <3>1. n \in DOMAIN sent /\ k # B
      BY <1>2, <1>4, <2>3
    <3>2. k \in DOMAIN base
      BY <1>2, <1>4, <3>1
    <3>3. PICK j \in DOMAIN base : base[j].no = n /\ ~base[j].read
      BY <1>4, <1>6, <1>8, <3>1, <3>2 DEF LaterWaits
    <3> QED
      BY <1>2, <1>4, <3>3
  <2> QED
    BY <2>2, <2>3
<1> QED
  BY <1>1, <1>5, <1>7, <1>8 DEF Ordered

LEMMA OrderedStep == IInv /\ Ordered /\ [Next]_vars => Ordered'
<1> SUFFICES ASSUME IInv, Ordered, [Next]_vars PROVE Ordered'
  OBVIOUS
<1>0. TypeOK
  BY DEF IInv
<1>1. CASE Start \/ Finish \/ Crash \/ Ffix
  <2>1. UNCHANGED <<sent, base, behind>> /\ i' \in {0, 1}
    BY <1>1 DEF Start, Finish, Crash, Ffix, Ended, mvars
  <2> QED
    BY <1>0, <2>1, OrderedStays
<1>2. CASE Refuse \/ Request \/ Exec \/ EndExec
  <2>1. UNCHANGED <<sent, base, behind>> /\ (i' = i \/ i' = 1)
    BY <1>2 DEF Refuse, Request, Exec, EndExec, Ended
  <2> QED
    BY <1>0, <2>1, OrderedStays
<1>3. CASE Edit \/ UNCHANGED vars
  <2>1. UNCHANGED <<sent, base, behind, i>>
    BY <1>3 DEF Edit, vars, mvars, rvars
  <2> QED
    BY <1>0, <2>1, OrderedStays
<1> QED
  BY <1>0, <1>1, <1>2, <1>3, OrderedSkip, OrderedMark, OrderedKill, OrderedArrive DEF Next, Scan

-----------------------------------------------------------------------------
(* The subscription: a part that no waiting request is going to write is   *)
(* what all the requests together ask for.                                 *)

LEMMA SameWrites ==
  ASSUME setup' = setup, MaySubscribe' = MaySubscribe
  PROVE  /\ \A line : CommandOf(line)' = CommandOf(line)
         /\ \A line, c : LineWrites(line, c)' <=> LineWrites(line, c)
         /\ \A m, c : MailWrites(m, c)' <=> MailWrites(m, c)
<1>1. \A line : CommandOf(line)' = CommandOf(line)
  BY DEF CommandOf
<1>2. \A line, c : LineWrites(line, c)' <=> LineWrites(line, c)
  BY <1>1 DEF LineWrites, Writes
<1>3. \A m, c : MailWrites(m, c)' <=> MailWrites(m, c)
  BY <1>2 DEF MailWrites, ForRobot, NotForMe, Trusted
<1> QED
  BY <1>1, <1>2, <1>3

LEMMA SomeoneSays ==
  ASSUME TypeOK, NEW c, \E n \in DOMAIN sent : MailWrites(sent[n], c)
  PROVE  \E n \in DOMAIN sent : \E j \in DOMAIN sent[n].lines : LastSays(n, j, c)
<1> DEFINE N == Len(sent)
           W == {n \in 1 .. N : MailWrites(sent[n], c)}
<1>1. N \in Nat /\ DOMAIN sent = 1 .. N /\ \A n \in 1 .. N : sent[n] \in MailType
  BY FilefixAssumption DEF TypeOK
<1>2. W \in SUBSET (1 .. N) /\ W # {}
  BY <1>1
<1> HIDE DEF N
<1>3. PICK n \in W : \A m \in W : n >= m
  BY <1>1, <1>2, MaxIn
<1>4. n \in 1 .. N /\ MailWrites(sent[n], c) /\ sent[n] \in MailType
  BY <1>1
<1>5. ASSUME NEW m \in 1 .. N, m > n PROVE ~MailWrites(sent[m], c)
  <2>1. m \in W => n >= m
    BY <1>3
  <2> QED
    BY <1>1, <1>4, <1>5, <2>1
<1>6. PICK j \in DOMAIN sent[n].lines :
         /\ LineWrites(sent[n].lines[j], c)
         /\ \A k \in DOMAIN sent[n].lines : k > j => ~LineWrites(sent[n].lines[k], c)
  BY <1>4, LastLine DEF MailWrites
<1>7. LastSays(n, j, c)
  BY <1>1, <1>4, <1>5, <1>6 DEF LastSays, MailWrites
<1> QED
  BY <1>1, <1>4, <1>6, <1>7

(* A new mail that does not write the part changes nothing about it. *)
LEMMA SameWanted ==
  ASSUME TypeOK, TypeOK', setup' = setup, MaySubscribe' = MaySubscribe, NEW c \in Parts,
         DOMAIN sent \subseteq DOMAIN sent', \A n \in DOMAIN sent : sent'[n] = sent[n],
         \A n \in DOMAIN sent' \ DOMAIN sent : ~MailWrites(sent'[n], c)
  PROVE  Wanted'[c] = Wanted[c]
<1>1. WantedIs /\ WantedIs'
  BY WantedLast, PTL
<1>2. /\ \A line : CommandOf(line)' = CommandOf(line)
      /\ \A line, p : LineWrites(line, p)' <=> LineWrites(line, p)
      /\ \A m, p : MailWrites(m, p)' <=> MailWrites(m, p)
  BY SameWrites
<1>3. \A n \in DOMAIN sent' : MailWrites(sent'[n], c) => n \in DOMAIN sent
  OBVIOUS
<1>4. CASE \A n \in DOMAIN sent : ~MailWrites(sent[n], c)
  <2>1. Wanted[c] = FALSE
    BY <1>1, <1>4 DEF WantedIs
  <2>2. \A n \in DOMAIN sent' : ~MailWrites(sent[n], c)'
    BY <1>2, <1>3, <1>4 DEF MailWrites, ForRobot, NotForMe, Trusted
  <2>3. Wanted'[c] = FALSE
    BY <1>1, <2>2 DEF WantedIs
  <2> QED
    BY <2>1, <2>3
<1>5. CASE \E n \in DOMAIN sent : MailWrites(sent[n], c)
  <2>0. PICK n \in DOMAIN sent : \E j \in DOMAIN sent[n].lines : LastSays(n, j, c)
    BY <1>5, SomeoneSays
  <2>1. PICK j \in DOMAIN sent[n].lines : LastSays(n, j, c)
    BY <2>0
  <2>2. n \in DOMAIN sent' /\ sent'[n] = sent[n] /\ j \in DOMAIN sent'[n].lines
    OBVIOUS
  <2>3. LastSays(n, j, c)'
    <3>1. \A m \in DOMAIN sent' : m > n => ~MailWrites(sent'[m], c)
      BY <1>3, <2>1 DEF LastSays
    <3> QED
      BY <1>2, <2>1, <2>2, <3>1 DEF LastSays, ForRobot, NotForMe, Trusted
  <2>4. Wanted[c] = Gives(CommandOf(sent[n].lines[j]))
    BY <1>1, <2>1 DEF WantedIs
  <2>5. Wanted'[c] = Gives(CommandOf(sent[n].lines[j]))'
    BY <1>1, <2>2, <2>3 DEF WantedIs
  <2>6. Gives(CommandOf(sent[n].lines[j]))' = Gives(CommandOf(sent[n].lines[j]))
    BY <2>2 DEF Gives, CommandOf
  <2> QED
    BY <2>4, <2>5, <2>6
<1> QED
  BY <1>4, <1>5

(* A step of the robot changes nothing that decides who may subscribe. *)
LEMMA MayStays ==
  ASSUME [Next]_vars
  PROVE  setup' = setup /\ (~setup.sysop => MaySubscribe' = MaySubscribe)
<1> USE DEF MaySubscribe, GroupCheck
<1>1. CASE Exec
  <2>1. setup' = setup /\ area' = area /\ \E p : link' = [link EXCEPT !.pause = p]
    BY <1>1 DEF Exec, SetSubscription
  <2>2. link'.groups = link.groups /\ link'.level = link.level
    BY <2>1
  <2> QED
    BY <2>1, <2>2
<1>2. CASE Edit
  BY <1>2 DEF Edit
<1>3. CASE UNCHANGED <<avars, setup>>
  BY <1>3 DEF avars
<1>4. CASE Arrive \/ Ffix \/ Crash \/ Start \/ Skip \/ Refuse \/ Request \/ EndExec \/ Mark
           \/ Kill \/ Finish
  BY <1>3, <1>4 DEF Arrive, Ffix, Crash, Start, Skip, Refuse, Request, EndExec, Mark, Kill, Finish
<1> QED
  BY <1>1, <1>2, <1>3, <1>4 DEF Next, Scan, vars

(* The lines of the request in work that have been executed. *)
Executed == Len(Mail(i).lines) - Len(todo)

TodoOK ==
  pc = "exec" /\ i > 0 =>
    /\ Executed \in Nat
    /\ \A k \in DOMAIN todo : todo[k] = Mail(i).lines[Executed + k]

(* A request that waits will write the part, or one that waits and is not  *)
(* in work; or nothing is left to do.                                      *)
Due(c) == \E k \in DOMAIN base : Waits(k) /\ MailWrites(Mail(k), c)
DueElse(c) == \E k \in DOMAIN base : k # i /\ Waits(k) /\ MailWrites(Mail(k), c)
Right(c) == Subscription[c] = Wanted[c]

SubOK(c) ==
  /\ Due(c) \/ Right(c)
  /\ pc = "exec" => DueElse(c) \/ (\E k \in DOMAIN todo : LineWrites(todo[k], c)) \/ Right(c)
  /\ pc = "mark" => DueElse(c) \/ Right(c)

SubInv == ~setup.sysop /\ ~byHand /\ ~behind => \A c \in Parts : SubOK(c)

OInv == IInv /\ Ordered /\ TodoOK /\ (i = 0 => byHand) /\ SubInv

(* The mail in work stays where it is when another one arrives. *)
LEMMA ArriveKeeps ==
  ASSUME TypeOK, Arrive, NEW k \in DOMAIN base
  PROVE  /\ k \in DOMAIN base' /\ base'[k] = base[k]
         /\ base[k].no > 0 => base[k].no \in DOMAIN sent /\ Mail(k)' = Mail(k)
<1>1. PICK m \in Mails :
        /\ sent' = Append(sent, m)
        /\ base' = Append(base, [no |-> Len(sent) + 1, read |-> FALSE])
  BY DEF Arrive
<1>2. base \in Seq(SlotType) /\ sent \in Seq(Mails)
  BY DEF TypeOK
<1>3. k \in DOMAIN base' /\ base'[k] = base[k]
  BY <1>1, <1>2
<1>4. base[k].no > 0 => base[k].no \in DOMAIN sent
  BY SlotNumbers
<1>5. \A n \in DOMAIN sent : sent'[n] = sent[n]
  BY <1>1, <1>2
<1> QED
  BY <1>3, <1>4, <1>5 DEF Mail

LEMMA TodoStep ==
  ASSUME IInv, TodoOK, [Next]_vars
  PROVE  TodoOK'
<1>0. TypeOK /\ TypeOK'
  BY TypeStep DEF IInv
<1>1. CASE Request
  <2>1. todo' = Mail(i).lines /\ Mail(i)' = Mail(i)
    BY <1>1 DEF Request, Mail
  <2>2. i \in DOMAIN base /\ base[i].no > 0
    BY <1>0, <1>1, ForUsSlot DEF Request, TypeOK
  <2>3. Mail(i).lines \in Seq(LineType)
    BY <1>0, <2>2, SlotTypes DEF MailType
  <2>4. Executed' = 0
    BY <2>1, <2>3 DEF Executed
  <2> QED
    BY <2>1, <2>3, <2>4 DEF TodoOK
<1>2. CASE Exec
  <2> SUFFICES ASSUME i > 0 PROVE TodoOK'
    BY <1>2 DEF Exec, TodoOK
  <2>1. /\ todo' = Tail(todo) /\ todo # <<>> /\ Mail(i)' = Mail(i) /\ pc = "exec"
        /\ todo \in Seq(LineType)
    BY <1>0, <1>2 DEF Exec, Mail, TypeOK
  <2>2. i \in DOMAIN base /\ base[i].no > 0
    BY <1>0, <2>1 DEF TypeOK
  <2>3. Mail(i).lines \in Seq(LineType)
    BY <1>0, <2>2, SlotTypes DEF MailType
  <2>4. /\ Len(todo') = Len(todo) - 1 /\ Len(todo) \in Nat
        /\ \A k \in DOMAIN todo' : k + 1 \in DOMAIN todo /\ todo'[k] = todo[k + 1]
    BY <2>1
  <2>5. Executed' = Executed + 1 /\ Executed \in Nat
    BY <2>1, <2>3, <2>4 DEF Executed, TodoOK
  <2>6. ASSUME NEW k \in DOMAIN todo' PROVE todo'[k] = Mail(i).lines[(Executed + 1) + k]
    <3>1. todo'[k] = Mail(i).lines[Executed + (k + 1)]
      BY <2>1, <2>4 DEF TodoOK
    <3>2. k \in Nat
      BY <2>1
    <3> QED
      BY <2>5, <3>1, <3>2
  <2> QED
    BY <2>1, <2>5, <2>6 DEF TodoOK
<1>3. CASE Arrive
  <2> SUFFICES ASSUME i > 0, pc = "exec" PROVE TodoOK'
    BY <1>3 DEF Arrive, TodoOK, rvars
  <2>1. i \in DOMAIN base /\ base[i].no > 0
    BY <1>0 DEF TypeOK
  <2>2. Mail(i)' = Mail(i) /\ todo' = todo
    BY <1>0, <1>3, <2>1, ArriveKeeps DEF Arrive, rvars, Mail
  <2> QED
    BY <2>2 DEF TodoOK, Executed
<1>4. CASE Ffix \/ Crash \/ Start \/ Skip \/ Refuse \/ EndExec \/ Mark \/ Kill \/ Finish
  <2>1. pc' # "exec" \/ i' = 0
    BY <1>4 DEF Ffix, Crash, Start, Skip, Refuse, EndExec, Mark, Kill, Finish, Ended
  <2> QED
    BY <2>1 DEF TodoOK
<1>5. CASE Edit \/ UNCHANGED vars
  BY <1>5 DEF Edit, vars, mvars, rvars, TodoOK, Executed, Mail
<1> QED
  BY <1>1, <1>2, <1>3, <1>4, <1>5 DEF Next, Scan

(* What all requests ask for stays the same while no mail arrives. *)
LEMMA WantedStays ==
  ASSUME TypeOK, TypeOK', setup' = setup, MaySubscribe' = MaySubscribe, sent' = sent,
         NEW c \in Parts
  PROVE  /\ Wanted'[c] = Wanted[c]
         /\ \A line : LineWrites(line, c)' <=> LineWrites(line, c)
         /\ \A m : MailWrites(m, c)' <=> MailWrites(m, c)
<1>1. DOMAIN sent \subseteq DOMAIN sent' /\ DOMAIN sent' \ DOMAIN sent = {}
  OBVIOUS
<1>2. Wanted'[c] = Wanted[c]
  BY <1>1, SameWanted
<1> QED
  BY <1>2, SameWrites

(* The slots stay as they are. *)
LEMMA DueStays ==
  ASSUME TypeOK, TypeOK', setup' = setup, MaySubscribe' = MaySubscribe,
         UNCHANGED <<sent, base>>, NEW c \in Parts
  PROVE  /\ Due(c)' <=> Due(c)
         /\ i' = i => (DueElse(c)' <=> DueElse(c))
         /\ UNCHANGED <<link, sub>> => (Right(c)' <=> Right(c))
<1>1. /\ Wanted'[c] = Wanted[c]
      /\ \A m : MailWrites(m, c)' <=> MailWrites(m, c)
  BY WantedStays
<1>2. \A k : /\ Waits(k)' <=> Waits(k)
             /\ MailWrites(Mail(k), c)' <=> MailWrites(Mail(k), c)
  <2>1. \A k : Mail(k)' = Mail(k)
    BY DEF Mail
  <2>2. \A k : MailWrites(Mail(k), c)' <=> MailWrites(Mail(k), c)
    BY <1>1, <2>1 DEF MailWrites, ForRobot, NotForMe, Trusted, LineWrites, Writes, CommandOf
  <2> QED
    BY <2>2 DEF Waits
<1>3. Due(c)' <=> Due(c)
  BY <1>2 DEF Due
<1>4. i' = i => (DueElse(c)' <=> DueElse(c))
  BY <1>2 DEF DueElse
<1>5. UNCHANGED <<link, sub>> => (Right(c)' <=> Right(c))
  BY <1>1 DEF Right, Subscription
<1> QED
  BY <1>3, <1>4, <1>5

LEMMA InWork ==
  ASSUME IInv, pc = "exec", i # 0
  PROVE  /\ i \in DOMAIN base /\ i > 0 /\ base[i].no \in DOMAIN sent /\ Waits(i)
         /\ ForRobot(Mail(i)) /\ Trusted(Mail(i)) /\ Mail(i) = sent[base[i].no]
         /\ Mail(i).lines \in Seq(LineType)
<1>1. i \in DOMAIN base /\ i > 0 /\ base[i].no > 0
  BY DEF IInv, TypeOK
<1>2. base[i].no \in DOMAIN sent /\ Mail(i) \in MailType
  BY <1>1, SlotTypes DEF IInv, TypeOK
<1>3. ~base[i].read /\ ForRobot(Mail(i)) /\ Trusted(Mail(i))
  BY <1>1 DEF IInv, RunOK
<1> QED
  BY <1>1, <1>2, <1>3 DEF Waits, Mail, MailType

(* The line in work is one of its request. *)
LEMMA LineInWork ==
  ASSUME IInv, TodoOK, pc = "exec", i # 0, NEW k \in DOMAIN todo
  PROVE  /\ Executed \in Nat /\ Executed + k \in DOMAIN Mail(i).lines
         /\ todo[k] = Mail(i).lines[Executed + k]
<1>1. Executed \in Nat /\ todo[k] = Mail(i).lines[Executed + k]
  BY InWork DEF TodoOK
<1>2. todo \in Seq(LineType) /\ Mail(i).lines \in Seq(LineType)
  BY InWork DEF IInv, TypeOK
<1>3. Executed + k \in 1 .. Len(Mail(i).lines)
  BY <1>1, <1>2 DEF Executed
<1> QED
  BY <1>1, <1>2, <1>3

(* The last command on a part, with nobody after it waiting to write the   *)
(* part, has the last word.                                                *)
LEMMA LastInWork ==
  ASSUME IInv, SlotsOrdered, LaterWaits, TodoOK, pc = "exec", i # 0, todo # <<>>,
         NEW c \in Parts, LineWrites(Head(todo), c), ~DueElse(c),
         \A k \in DOMAIN todo : k > 1 => ~LineWrites(todo[k], c)
  PROVE  Wanted[c] = Gives(CommandOf(Head(todo)))
<1> DEFINE n == base[i].no
           j == Executed + 1
<1>1. todo \in Seq(LineType) /\ 1 \in DOMAIN todo /\ Head(todo) = todo[1] /\ TypeOK
  BY DEF IInv, TypeOK
<1>2. j \in DOMAIN Mail(i).lines /\ Head(todo) = Mail(i).lines[j] /\ Executed \in Nat
  BY <1>1, LineInWork
<1>3. /\ i \in DOMAIN base /\ n \in DOMAIN sent /\ ForRobot(sent[n]) /\ Trusted(sent[n])
      /\ Mail(i) = sent[n] /\ Mail(i).lines \in Seq(LineType) /\ Waits(i)
  BY InWork
<1>4. ASSUME NEW k \in DOMAIN sent[n].lines, k > j PROVE ~LineWrites(sent[n].lines[k], c)
  <2>1. /\ k - Executed \in 1 .. Len(todo) /\ k - Executed > 1
        /\ Executed + (k - Executed) = k
    <3>1. k \in 1 .. Len(Mail(i).lines)
      BY <1>3
    <3>2. Len(todo) \in Nat /\ Len(Mail(i).lines) \in Nat /\ Executed = Len(Mail(i).lines) - Len(todo)
      BY <1>1, <1>3 DEF Executed
    <3> HIDE DEF n
    <3> QED
      BY <1>2, <1>4, <3>1, <3>2
  <2>2. k - Executed \in DOMAIN todo
    BY <1>1, <2>1
  <2>3. todo[k - Executed] = sent[n].lines[k]
    BY <1>3, <2>1, <2>2, LineInWork
  <2> QED
    BY <2>1, <2>2, <2>3
<1>5. ASSUME NEW m \in DOMAIN sent, m > n, MailWrites(sent[m], c) PROVE FALSE
  <2>1. ForRobot(sent[m])
    BY <1>5 DEF MailWrites
  <2>2. PICK k \in DOMAIN base : base[k].no = m /\ ~base[k].read
    BY <1>3, <1>5, <2>1 DEF LaterWaits
  <2>3. k # i /\ Waits(k) /\ Mail(k) = sent[m]
    BY <1>1, <1>5, <2>2, SlotNumbers DEF Waits, Mail
  <2> QED
    BY <1>5, <2>3 DEF DueElse
<1>6. LastSays(n, j, c)
  BY <1>2, <1>3, <1>4, <1>5 DEF LastSays
<1>7. WantedIs
  BY <1>1, WantedLast
<1> QED
  BY <1>2, <1>3, <1>6, <1>7 DEF WantedIs

(* A line is executed: the part is right then if nothing is to write it    *)
(* any more.                                                               *)
LEMMA ExecSub ==
  ASSUME IInv, TypeOK', SlotsOrdered, LaterWaits, TodoOK, Exec, i # 0,
         setup' = setup, MaySubscribe' = MaySubscribe, NEW c \in Parts, SubOK(c)
  PROVE  SubOK(c)'
<1> DEFINE line == Head(todo)
<1>0. TypeOK /\ pc = "exec" /\ pc' = "exec" /\ UNCHANGED <<sent, base, i>>
  BY DEF Exec, IInv
<1>1. /\ Due(c)' <=> Due(c)
      /\ DueElse(c)' <=> DueElse(c)
      /\ Wanted'[c] = Wanted[c]
      /\ \A l : LineWrites(l, c)' <=> LineWrites(l, c)
  BY <1>0, DueStays, WantedStays
<1>2. /\ todo \in Seq(LineType) /\ todo # <<>> /\ todo' = Tail(todo)
      /\ 1 \in DOMAIN todo /\ line = todo[1]
  BY <1>0 DEF Exec, TypeOK
<1>3. Subscription'[c] = IF LineWrites(line, c) THEN Gives(CommandOf(line)) ELSE Subscription[c]
  <2>1. Subscription \in State
    BY <1>0 DEF Subscription, State, TypeOK, AccessTypeOK, SubType, LinkType
  <2>2. SetSubscription(Effect(Subscription, CommandOf(line)))
    BY DEF Exec
  <2>3. Effect(Subscription, CommandOf(line)) \in State
    BY <2>1, EffectTypes DEF State
  <2>4. Subscription' = Effect(Subscription, CommandOf(line))
    <3>1. /\ sub'.linked = Effect(Subscription, CommandOf(line)).linked
          /\ link'.pause = Effect(Subscription, CommandOf(line)).pause
      BY <1>0, <2>2 DEF SetSubscription, TypeOK, AccessTypeOK, SubType, LinkType
    <3> QED
      BY <2>3, <3>1 DEF Subscription, State
  <2> QED
    BY <2>1, <2>4, EffectByPart DEF LineWrites
<1>4. LineWrites(line, c) => Due(c)
  <2>1. 1 \in DOMAIN todo /\ i \in DOMAIN base /\ Waits(i) /\ ForRobot(Mail(i)) /\ Trusted(Mail(i))
    BY <1>0, <1>2, InWork
  <2>2. Executed + 1 \in DOMAIN Mail(i).lines /\ line = Mail(i).lines[Executed + 1]
    BY <1>0, <1>2, <2>1, LineInWork
  <2> QED
    BY <2>1, <2>2 DEF Due, MailWrites
<1>5. CASE DueElse(c)
  <2>1. Due(c)
    BY <1>5 DEF Due, DueElse
  <2> QED
    BY <1>0, <1>1, <1>5, <2>1 DEF SubOK
<1>6. CASE \E k \in DOMAIN todo : k > 1 /\ LineWrites(todo[k], c)
  <2>1. PICK k \in DOMAIN todo : k > 1 /\ LineWrites(todo[k], c)
    BY <1>6
  <2>2. k - 1 \in DOMAIN todo' /\ todo'[k - 1] = todo[k]
    BY <1>2, <2>1
  <2>3. \E l \in DOMAIN todo' : LineWrites(todo'[l], c)
    BY <2>1, <2>2
  <2>4. \E l \in DOMAIN todo' : LineWrites(todo[l], c)'
    BY <1>1, <2>3 DEF LineWrites, Writes, CommandOf
  <2>5. Due(c)
    <3>1. i \in DOMAIN base /\ Waits(i) /\ ForRobot(Mail(i)) /\ Trusted(Mail(i))
      BY <1>0, InWork
    <3>2. Executed + k \in DOMAIN Mail(i).lines /\ todo[k] = Mail(i).lines[Executed + k]
      BY <1>0, LineInWork
    <3> QED
      BY <2>1, <3>1, <3>2 DEF Due, MailWrites
  <2> QED
    BY <1>0, <1>1, <2>4, <2>5 DEF SubOK
<1>7. CASE /\ ~DueElse(c) /\ ~LineWrites(line, c)
           /\ \A k \in DOMAIN todo : k > 1 => ~LineWrites(todo[k], c)
  <2>1. \A k \in DOMAIN todo : ~LineWrites(todo[k], c)
    <3>1. \A k \in DOMAIN todo : k = 1 \/ k > 1
      BY <1>2
    <3> QED
      BY <1>2, <1>7, <3>1
  <2>2. Right(c)
    BY <1>0, <1>7, <2>1 DEF SubOK
  <2>3. Right(c)'
    BY <1>1, <1>3, <1>7, <2>2 DEF Right
  <2> QED
    BY <1>0, <2>3 DEF SubOK
<1>8. CASE /\ ~DueElse(c) /\ LineWrites(line, c)
           /\ \A k \in DOMAIN todo : k > 1 => ~LineWrites(todo[k], c)
  <2>1. Wanted[c] = Gives(CommandOf(line))
    BY <1>0, <1>2, <1>8, LastInWork
  <2>2. Right(c)'
    BY <1>1, <1>3, <1>8, <2>1 DEF Right
  <2> QED
    BY <1>0, <2>2 DEF SubOK
<1> QED
  BY <1>5, <1>6, <1>7, <1>8

(* A mail arrives: it waits, and if it writes the part it is due. *)
LEMMA ArriveSub ==
  ASSUME IInv, TypeOK', Arrive, setup' = setup, MaySubscribe' = MaySubscribe,
         NEW c \in Parts, SubOK(c)
  PROVE  SubOK(c)'
<1> PICK N, B : N = Len(sent) + 1 /\ B = Len(base) + 1
  OBVIOUS
<1>0. TypeOK /\ UNCHANGED <<link, sub, i, pc, todo>>
  BY DEF Arrive, IInv, avars, rvars
<1>1. PICK m \in Mails :
        /\ sent' = Append(sent, m)
        /\ base' = Append(base, [no |-> N, read |-> FALSE])
  BY DEF Arrive
<1>2. /\ base \in Seq(SlotType) /\ sent \in Seq(Mails)
      /\ DOMAIN base = 1 .. Len(base) /\ Len(base) \in Nat
      /\ DOMAIN sent = 1 .. Len(sent) /\ Len(sent) \in Nat
  BY <1>0, SlotNumbers DEF TypeOK
<1>3. /\ DOMAIN sent' = 1 .. N /\ sent'[N] = m
      /\ \A n \in DOMAIN sent : sent'[n] = sent[n]
      /\ B \in DOMAIN base' /\ base'[B].no = N /\ base'[B].read = FALSE
  BY <1>1, <1>2
<1>4. pc \in {"exec", "mark"} => i # B
  BY <1>0, <1>2 DEF TypeOK
<1>5. /\ \A line : LineWrites(line, c)' <=> LineWrites(line, c)
      /\ \A r : MailWrites(r, c)' <=> MailWrites(r, c)
  BY SameWrites
<1>6. ASSUME NEW k \in DOMAIN base, Waits(k), MailWrites(Mail(k), c)
      PROVE  k \in DOMAIN base' /\ Waits(k)' /\ MailWrites(Mail(k), c)'
  <2>1. k \in DOMAIN base' /\ base'[k] = base[k] /\ Mail(k)' = Mail(k)
    BY <1>0, <1>6, ArriveKeeps DEF Waits
  <2>2. Waits(k)'
    BY <1>6, <2>1 DEF Waits
  <2>3. MailWrites(Mail(k), c)'
    BY <1>5, <1>6, <2>1 DEF MailWrites, ForRobot, NotForMe, Trusted
  <2> QED
    BY <2>1, <2>2, <2>3
<1>7. (Due(c) => Due(c)') /\ (DueElse(c) => DueElse(c)')
  BY <1>0, <1>6 DEF Due, DueElse
<1>8. CASE MailWrites(m, c)
  <2>1. Waits(B)' /\ Mail(B)' = m
    BY <1>2, <1>3 DEF Waits, Mail
  <2>2. MailWrites(Mail(B), c)'
    BY <1>5, <1>8, <2>1 DEF MailWrites, ForRobot, NotForMe, Trusted
  <2>3. Due(c)' /\ (i # B => DueElse(c)')
    BY <1>0, <1>3, <2>1, <2>2 DEF Due, DueElse
  <2> QED
    BY <1>0, <1>4, <2>3 DEF SubOK
<1>9. CASE ~MailWrites(m, c)
  <2>1. /\ DOMAIN sent \subseteq DOMAIN sent'
        /\ \A n \in DOMAIN sent' \ DOMAIN sent : sent'[n] = m
    BY <1>2, <1>3
  <2>2. Wanted'[c] = Wanted[c]
    BY <1>0, <1>3, <1>9, <2>1, SameWanted
  <2>3. Right(c)' <=> Right(c)
    BY <1>0, <2>2 DEF Right, Subscription
  <2>4. (\E k \in DOMAIN todo : LineWrites(todo[k], c)) =>
          (\E k \in DOMAIN todo : LineWrites(todo[k], c))'
    BY <1>0, <1>5 DEF LineWrites, Writes, CommandOf
  <2> QED
    BY <1>0, <1>7, <2>3, <2>4 DEF SubOK
<1> QED
  BY <1>8, <1>9

LEMMA SubStep == OInv /\ [Next]_vars => SubInv'
<1> SUFFICES ASSUME OInv, [Next]_vars, ~setup'.sysop, ~byHand', ~behind'
             PROVE  \A c \in Parts : SubOK(c)'
  BY DEF SubInv
<1>0. IInv /\ TypeOK /\ TypeOK' /\ RunOK
  BY TypeStep DEF OInv, IInv
<1>1. /\ setup' = setup /\ ~setup.sysop /\ MaySubscribe' = MaySubscribe
      /\ ~byHand /\ ~behind
  <2>1. byHand \in BOOLEAN /\ behind \in BOOLEAN
    BY <1>0 DEF TypeOK
  <2>2. byHand => byHand'
    BY DEF Next, Arrive, Scan, Start, Skip, Refuse, Request, Exec, EndExec, Mark, Kill, Finish,
           Ffix, Crash, Edit, vars, mvars
  <2>3. behind => behind'
    BY <2>1 DEF Next, Arrive, Scan, Start, Skip, Refuse, Request, Exec, EndExec, Mark, Kill,
           Finish, Ffix, Crash, Edit, vars, mvars
  <2> QED
    BY <2>2, <2>3, MayStays
<1>2. i # 0 /\ SlotsOrdered /\ LaterWaits /\ TodoOK /\ \A c \in Parts : SubOK(c)
  BY <1>1 DEF OInv, Ordered, SubInv
<1> TAKE c \in Parts
<1>3. SubOK(c)
  BY <1>2
<1>4. ASSUME UNCHANGED <<sent, base>>
      PROVE  /\ Due(c)' <=> Due(c)
             /\ i' = i => (DueElse(c)' <=> DueElse(c))
             /\ UNCHANGED <<link, sub>> => (Right(c)' <=> Right(c))
  BY <1>0, <1>1, <1>4, DueStays
<1>5. CASE Start \/ Skip \/ Finish \/ Crash
  <2>1. UNCHANGED <<sent, base, link, sub>> /\ pc' \in {"look", "idle"}
    BY <1>5 DEF Start, Skip, Finish, Crash, Ended, mvars, avars
  <2> QED
    BY <1>3, <1>4, <2>1 DEF SubOK
<1>6. CASE Refuse
  <2>1. UNCHANGED <<sent, base, link, sub, i>> /\ pc' = "mark" /\ ~Trusted(Mail(i))
    BY <1>6 DEF Refuse, avars
  <2>2. Due(c) => DueElse(c)
    BY <2>1 DEF Due, DueElse, MailWrites
  <2> QED
    BY <1>3, <1>4, <2>1, <2>2 DEF SubOK
<1>7. CASE Request
  <2>1. /\ UNCHANGED <<sent, base, link, sub, i>> /\ pc' = "exec"
        /\ todo' = Mail(i).lines
    BY <1>7 DEF Request, avars
  <2>2. Due(c) => DueElse(c) \/ \E k \in DOMAIN todo' : LineWrites(todo'[k], c)
    BY <2>1 DEF Due, DueElse, MailWrites
  <2>3. (\E k \in DOMAIN todo' : LineWrites(todo'[k], c)) =>
          (\E k \in DOMAIN todo : LineWrites(todo[k], c))'
    BY <1>1 DEF LineWrites, Writes, CommandOf
  <2> QED
    BY <1>3, <1>4, <2>1, <2>2, <2>3 DEF SubOK
<1>8. CASE Exec
  BY <1>0, <1>1, <1>2, <1>8, ExecSub
<1>9. CASE EndExec
  <2>1. /\ UNCHANGED <<sent, base, link, sub, i>> /\ pc = "exec" /\ pc' = "mark"
        /\ todo = <<>>
    BY <1>2, <1>9 DEF EndExec, avars
  <2>2. DueElse(c) \/ Right(c)
    BY <1>3, <2>1 DEF SubOK
  <2> QED
    BY <1>3, <1>4, <2>1, <2>2 DEF SubOK
<1>10. CASE Mark
  <2>1. /\ UNCHANGED <<sent, link, sub>> /\ pc = "mark" /\ pc' \in {"look", "kill"}
        /\ i \in DOMAIN base /\ \A k \in DOMAIN base : k # i => base'[k] = base[k]
        /\ DOMAIN base' = DOMAIN base
    BY <1>0, <1>10 DEF Mark, avars, TypeOK
  <2>2. Wanted'[c] = Wanted[c] /\ \A m : MailWrites(m, c)' <=> MailWrites(m, c)
    BY <1>0, <1>1, <2>1, WantedStays
  <2>3. ASSUME NEW k \in DOMAIN base, k # i, Waits(k), MailWrites(Mail(k), c)
        PROVE  Waits(k)' /\ MailWrites(Mail(k), c)'
    <3>1. Waits(k)' /\ Mail(k)' = Mail(k)
      BY <2>1, <2>3 DEF Waits, Mail
    <3> QED
      BY <2>2, <2>3, <3>1 DEF MailWrites, ForRobot, NotForMe, Trusted, LineWrites, Writes, CommandOf
  <2>4. DueElse(c) => Due(c)'
    BY <2>1, <2>3 DEF Due, DueElse
  <2>5. Right(c) => Right(c)'
    BY <2>1, <2>2 DEF Right, Subscription
  <2>6. DueElse(c) \/ Right(c)
    BY <1>3, <2>1 DEF SubOK
  <2> QED
    BY <2>1, <2>4, <2>5, <2>6 DEF SubOK
<1>11. CASE Kill
  <2>1. /\ UNCHANGED <<sent, link, sub>> /\ pc' = "look" /\ base[i].read
    <3>1. pc = "kill" /\ UNCHANGED <<sent, link, sub>> /\ pc' = "look"
      BY <1>11 DEF Kill, avars
    <3> QED
      BY <1>0, <3>1 DEF RunOK, TypeOK
  <2>2. Wanted'[c] = Wanted[c] /\ \A m : MailWrites(m, c)' <=> MailWrites(m, c)
    BY <1>0, <1>1, <2>1, WantedStays
  <2>3. ASSUME NEW k \in DOMAIN base, Waits(k), MailWrites(Mail(k), c)
        PROVE  \E j \in DOMAIN base' : Waits(j)' /\ MailWrites(Mail(j), c)'
    <3>1. PICK j \in DOMAIN base' : base'[j] = base[k]
      BY <1>0, <1>11, <2>1, <2>3, KillSlots DEF Waits
    <3>2. Waits(j)' /\ Mail(j)' = Mail(k)
      BY <2>1, <2>3, <3>1 DEF Waits, Mail
    <3> QED
      BY <2>2, <2>3, <3>2 DEF MailWrites, ForRobot, NotForMe, Trusted, LineWrites, Writes, CommandOf
  <2>4. Due(c) => Due(c)'
    BY <2>3 DEF Due
  <2>5. Right(c) => Right(c)'
    BY <2>1, <2>2 DEF Right, Subscription
  <2> QED
    BY <1>3, <2>1, <2>4, <2>5 DEF SubOK
<1>12. CASE Arrive
  BY <1>0, <1>1, <1>3, <1>12, ArriveSub
<1>13. CASE Ffix \/ Edit
  BY <1>1, <1>13 DEF Ffix, Edit
<1>14. CASE UNCHANGED vars
  <2>1. UNCHANGED <<sent, base, link, sub, i, pc, todo>>
    BY <1>14 DEF vars, avars, mvars, rvars
  <2>2. (\E k \in DOMAIN todo : LineWrites(todo[k], c)) =>
          (\E k \in DOMAIN todo : LineWrites(todo[k], c))'
    BY <1>1, <2>1 DEF LineWrites, Writes, CommandOf
  <2> QED
    BY <1>3, <1>4, <2>1, <2>2 DEF SubOK
<1> QED
  BY <1>5, <1>6, <1>7, <1>8, <1>9, <1>10, <1>11, <1>12, <1>13, <1>14 DEF Next, Scan

LEMMA OInvInit == Init => OInv
<1> SUFFICES ASSUME Init PROVE OInv
  OBVIOUS
<1>1. IInv /\ TypeOK
  BY IInvInit, InitTypes
<1>2. DOMAIN base = {} /\ DOMAIN sent = {} /\ pc = "idle" /\ i = 1
  BY DEF Init
<1>3. Ordered /\ TodoOK /\ (i = 0 => byHand)
  BY <1>2 DEF Ordered, SlotsOrdered, PassedOK, LaterWaits, TodoOK
<1>4. ASSUME ~setup.sysop, NEW c \in Parts PROVE SubOK(c)
  <2>1. Wanted[c] = FALSE
    BY <1>1, <1>2, WantedLast DEF WantedIs
  <2>2. Subscription[c] = FALSE
    BY <1>4 DEF Init, AccessInit, Subscription, Parts
  <2> QED
    BY <1>2, <2>1, <2>2 DEF SubOK, Right
<1> QED
  BY <1>1, <1>3, <1>4 DEF OInv, SubInv

LEMMA OInvStep == OInv /\ [Next]_vars => OInv'
<1> SUFFICES ASSUME OInv, [Next]_vars PROVE OInv'
  OBVIOUS
<1>1. IInv' /\ Ordered' /\ TodoOK'
  BY IInvStep, OrderedStep, TodoStep DEF OInv
<1>2. SubInv'
  BY SubStep
<1>3. (i = 0 => byHand)'
  <2>1. i \in Nat
    BY DEF OInv, IInv, TypeOK
  <2>2. i' = i \/ i' = i + 1 \/ i' = 1 \/ byHand'
    BY DEF Next, Arrive, Scan, Start, Skip, Refuse, Request, Exec, EndExec, Mark, Kill, Finish,
           Ffix, Crash, Edit, vars, rvars, Ended
  <2>3. byHand => byHand'
    BY DEF Next, Arrive, Scan, Start, Skip, Refuse, Request, Exec, EndExec, Mark, Kill, Finish,
           Ffix, Crash, Edit, vars, mvars
  <2> QED
    BY <2>1, <2>2, <2>3 DEF OInv
<1> QED
  BY <1>1, <1>2, <1>3 DEF OInv

(* With no request waiting, nothing is due.                                *)
LEMMA OInvLastWord == OInv => LastWordCounts
<1> SUFFICES ASSUME OInv, pc = "idle", Pending = {}, ~setup.sysop, ~byHand, ~behind
             PROVE  Subscription = Wanted
  BY DEF LastWordCounts
<1>0. IInv /\ TypeOK
  BY DEF OInv, IInv
<1>1. ASSUME NEW k \in DOMAIN base, Waits(k), ForRobot(Mail(k)) PROVE FALSE
  <2>1. base[k].no \in DOMAIN sent /\ base[k].no > 0 /\ ~base[k].read
    BY <1>0, <1>1, SlotTypes DEF Waits, TypeOK
  <2>2. Present(base[k].no) /\ ~Read(base[k].no)
    BY <1>0, <2>1 DEF Present, Read, Slots, IInv
  <2>3. base[k].no \in Pending
    BY <1>1, <2>1, <2>2 DEF Pending, Mail
  <2> QED
    BY <2>3
<1>2. ASSUME NEW c \in Parts PROVE Subscription[c] = Wanted[c]
  <2>1. ~Due(c)
    BY <1>1 DEF Due, MailWrites
  <2> QED
    BY <2>1 DEF OInv, SubInv, SubOK, Right
<1>3. Subscription \in State /\ Wanted \in State
  <2>1. Subscription \in State
    BY <1>0 DEF Subscription, State, TypeOK, AccessTypeOK, SubType, LinkType
  <2>2. Len(sent) \in 0 .. Len(sent)
    BY <1>0, SlotNumbers
  <2> QED
    BY <1>0, <2>1, <2>2, WantedFold
<1> QED
  BY <1>2, <1>3 DEF State, Parts

-----------------------------------------------------------------------------
(* The replies.  While a request that has begun only once is in work, it   *)
(* has got one for each command executed so far that is answered at once,  *)
(* and there is a report if any was of the other kind.                     *)

Found(m, p, set) == {k \in 1 .. p : CommandOf(m.lines[k]) \in set}

BookOK(n) ==
  /\ done[n].starts = 0 => done[n].replies = 0
  /\ done[n].ends <= done[n].starts
  /\ done[n].starts = 1 /\ done[n].ends = 1 => done[n].replies = RepliesTo(sent[n])

WorkOK ==
  pc = "exec" /\ i > 0 =>
    /\ done[base[i].no].ends < done[base[i].no].starts
    /\ done[base[i].no].starts = 1 =>
         done[base[i].no].replies = Cardinality(Found(Mail(i), Executed, AtOnce))
    /\ report <=> Found(Mail(i), Executed, Collected) # {}

RInv == IInv /\ TodoOK /\ (\A n \in DOMAIN sent : BookOK(n)) /\ WorkOK

(* One more line. *)
LEMMA FoundNext ==
  ASSUME NEW m, NEW p \in Nat, NEW set
  PROVE  /\ IsFiniteSet(Found(m, p, set)) /\ Cardinality(Found(m, p, set)) \in Nat
         /\ Cardinality(Found(m, p + 1, set)) =
              Cardinality(Found(m, p, set)) + IF CommandOf(m.lines[p + 1]) \in set THEN 1 ELSE 0
         /\ Found(m, p + 1, set) # {} <=>
              Found(m, p, set) # {} \/ CommandOf(m.lines[p + 1]) \in set
<1> DEFINE F == Found(m, p, set)
<1>1. IsFiniteSet(F) /\ Cardinality(F) \in Nat
  <2>1. IsFiniteSet(1 .. p) /\ F \subseteq 1 .. p
    BY FS_Interval DEF Found
  <2>2. IsFiniteSet(F)
    BY <2>1, FS_Subset
  <2> QED
    BY <2>2, FS_CardinalityType
<1>2. p + 1 \notin F /\ \A k : k \in 1 .. p + 1 <=> k \in 1 .. p \/ k = p + 1
  BY DEF Found
<1>3. CASE CommandOf(m.lines[p + 1]) \in set
  <2>1. Found(m, p + 1, set) = F \cup {p + 1}
    BY <1>2, <1>3 DEF Found
  <2> QED
    BY <1>1, <1>2, <1>3, <2>1, FS_AddElement
<1>4. CASE CommandOf(m.lines[p + 1]) \notin set
  <2>1. Found(m, p + 1, set) = F
    BY <1>2, <1>4 DEF Found
  <2> QED
    BY <1>1, <1>4, <2>1
<1> QED
  BY <1>1, <1>3, <1>4

(* No step makes a command another one. *)
LEMMA SameReplies ==
  ASSUME setup' = setup
  PROVE  /\ \A m : RepliesTo(m)' = RepliesTo(m)
         /\ \A m, p, set : Found(m, p, set)' = Found(m, p, set)
<1>1. \A line : CommandOf(line)' = CommandOf(line)
  BY DEF CommandOf
<1>2. \A m, p, set : Found(m, p, set)' = Found(m, p, set)
  BY <1>1 DEF Found
<1>3. ASSUME NEW m PROVE RepliesTo(m)' = RepliesTo(m)
  <2> DEFINE A == {k \in DOMAIN m.lines : CommandOf(m.lines[k]) \in AtOnce}
             C == {k \in DOMAIN m.lines : CommandOf(m.lines[k]) \in Collected}
  <2>1. A' = A /\ C' = C
    BY <1>1 DEF AtOnce, Collected
  <2>2. Cardinality(A)' = Cardinality(A)
    BY <2>1
  <2>3. RepliesTo(m) = IF ~Trusted(m) THEN 1
                       ELSE Cardinality(A) + (IF C = {} THEN 0 ELSE 1)
    BY DEF RepliesTo
  <2>4. RepliesTo(m)' = IF ~Trusted(m) THEN 1
                        ELSE Cardinality(A)' + (IF C' = {} THEN 0 ELSE 1)
    BY DEF RepliesTo, Trusted
  <2> QED
    BY <2>1, <2>2, <2>3, <2>4
<1> QED
  BY <1>2, <1>3

(* The books but the one of the mail in work stay as they are. *)
LEMMA OtherBooks ==
  ASSUME RInv, setup' = setup, sent' = sent, NEW b,
         \A n \in DOMAIN sent \ {b} : done'[n] = done[n],
         BookOK(b)'
  PROVE  \A n \in DOMAIN sent : BookOK(n)'
<1> SUFFICES ASSUME NEW n \in DOMAIN sent, n # b PROVE BookOK(n)'
  OBVIOUS
<1>1. done'[n] = done[n] /\ sent'[n] = sent[n] /\ BookOK(n)
  BY DEF RInv
<1>2. RepliesTo(sent[n])' = RepliesTo(sent[n])
  <2> PICK m : m = sent[n]
    OBVIOUS
  <2>1. RepliesTo(m)' = RepliesTo(m)
    BY SameReplies
  <2> QED
    BY <1>1, <2>1
<1> QED
  BY <1>1, <1>2 DEF BookOK

(* Everything about the request in work that a note leaves alone.          *)
LEMMA NoteInWork ==
  ASSUME RInv, TypeOK', i \in DOMAIN base, base[i].no > 0,
         UNCHANGED <<setup, sent, base, i>>,
         NEW s \in Nat, NEW e \in Nat, NEW r \in Nat, NEW q \in Nat, Note(i, s, e, r, q),
         NEW b, b = base[i].no, BookOK(b)', WorkOK', TodoOK', IInv'
  PROVE  RInv'
<1>1. \A n \in DOMAIN sent \ {b} : done'[n] = done[n]
  BY NoteChanges DEF RInv, IInv
<1>2. \A n \in DOMAIN sent : BookOK(n)'
  BY <1>1, OtherBooks
<1> QED
  BY <1>2 DEF RInv

LEMMA RefuseBooks ==
  ASSUME RInv, IInv', TodoOK', Refuse
  PROVE  RInv'
<1>0. TypeOK /\ TypeOK' /\ RunOK' /\ UNCHANGED <<setup, sent, base, i>>
  BY DEF RInv, IInv, Refuse
<1>1. /\ i \in DOMAIN base /\ base[i].no > 0 /\ ~Trusted(Mail(i)) /\ pc' = "mark"
      /\ Note(i, 1, 1, 1, 0)
  BY <1>0, ForUsSlot DEF Refuse, TypeOK
<1> PICK b : b = base[i].no
  OBVIOUS
<1>2. b \in DOMAIN sent /\ Mail(i) = sent[b] /\ done[b] \in DoneType /\ BookOK(b)
  BY <1>0, <1>1, SlotTypes DEF Mail, RInv, TypeOK
<1>3. /\ done'[b].starts = done[b].starts + 1 /\ done'[b].ends = done[b].ends + 1
      /\ done'[b].replies = done[b].replies + 1
  BY <1>0, <1>1, NoteChanges
<1>4. RepliesTo(sent[b])' = 1
  BY <1>0, <1>1, <1>2 DEF RepliesTo, Trusted
<1>5. BookOK(b)'
  BY <1>2, <1>3, <1>4 DEF BookOK, DoneType
<1>6. WorkOK'
  BY <1>1 DEF WorkOK
<1> QED
  BY <1>0, <1>1, <1>5, <1>6, NoteInWork

LEMMA RequestBooks ==
  ASSUME RInv, IInv', TodoOK', Request
  PROVE  RInv'
<1>0. TypeOK /\ TypeOK' /\ UNCHANGED <<setup, sent, base, i>>
  BY DEF RInv, IInv, Request
<1>1. /\ i \in DOMAIN base /\ base[i].no > 0 /\ todo' = Mail(i).lines /\ report' = FALSE
      /\ Note(i, 1, 0, 0, 0)
  <2>1. report' = FALSE
    BY DEF Request
  <2> QED
    BY <1>0, <2>1, ForUsSlot DEF Request, TypeOK
<1> PICK b : b = base[i].no
  OBVIOUS
<1>2. /\ b \in DOMAIN sent /\ Mail(i) = sent[b] /\ done[b] \in DoneType /\ BookOK(b)
      /\ Mail(i).lines \in Seq(LineType)
  BY <1>0, <1>1, SlotTypes DEF Mail, RInv, TypeOK, MailType
<1>3. /\ done'[b].starts = done[b].starts + 1 /\ done'[b].ends = done[b].ends
      /\ done'[b].replies = done[b].replies
  <2>1. /\ done'[b].ends = done[b].ends + 0 /\ done'[b].replies = done[b].replies + 0
        /\ done'[b].starts = done[b].starts + 1
    BY <1>0, <1>1, NoteChanges
  <2> QED
    BY <1>2, <2>1 DEF DoneType
<1>4. BookOK(b)'
  BY <1>2, <1>3 DEF BookOK, DoneType
<1>5. Executed' = 0 /\ Mail(i)' = Mail(i)
  BY <1>0, <1>1, <1>2 DEF Executed, Mail
<1>6. \A m, set : Found(m, 0, set) = {}
  BY DEF Found
<1>7. Cardinality({}) = 0
  BY FS_EmptySet
<1>8. WorkOK'
  <2>1. Found(Mail(i), Executed, AtOnce)' = {} /\ Found(Mail(i), Executed, Collected)' = {}
    BY <1>5 DEF Found
  <2>2. done'[b].starts = 1 => done'[b].replies = 0
    BY <1>2, <1>3 DEF BookOK, DoneType
  <2>3. done'[b].ends < done'[b].starts
    BY <1>2, <1>3 DEF BookOK, DoneType
  <2>4. base'[i'].no = b /\ (report' <=> FALSE)
    BY <1>0, <1>1
  <2>5. Cardinality(Found(Mail(i), Executed, AtOnce))' = 0
    BY <1>7, <2>1
  <2> QED
    BY <2>1, <2>2, <2>3, <2>4, <2>5 DEF WorkOK
<1> QED
  BY <1>0, <1>1, <1>4, <1>8, NoteInWork

LEMMA ExecBooks ==
  ASSUME RInv, IInv', TodoOK', Exec, i # 0
  PROVE  RInv'
<1> DEFINE line == Head(todo)
           r == IF CommandOf(line) \in AtOnce THEN 1 ELSE 0
           q == IF Resends(line) THEN 1 ELSE 0
<1>0. /\ IInv /\ TypeOK /\ TypeOK' /\ TodoOK /\ WorkOK /\ pc = "exec"
      /\ UNCHANGED <<setup, sent, base, i>>
  BY DEF RInv, IInv, Exec
<1>1. /\ i \in DOMAIN base /\ i > 0 /\ base[i].no \in DOMAIN sent /\ base[i].no > 0
      /\ Mail(i) = sent[base[i].no] /\ Mail(i).lines \in Seq(LineType)
  BY <1>0, InWork DEF Waits
<1> PICK b : b = base[i].no
  OBVIOUS
<1> PICK m : m = Mail(i)
  OBVIOUS
<1> PICK p : p = Executed
  OBVIOUS
<1>2. /\ todo \in Seq(LineType) /\ todo # <<>> /\ todo' = Tail(todo)
      /\ 1 \in DOMAIN todo /\ line = todo[1]
      /\ Len(todo') = Len(todo) - 1 /\ Len(todo) \in Nat
  BY <1>0 DEF Exec, TypeOK
<1>3. p \in Nat /\ line = m.lines[p + 1]
  BY <1>0, <1>2, LineInWork
<1>4. Mail(i)' = m /\ Executed' = p + 1
  <2>1. Mail(i)' = m
    BY <1>0 DEF Mail
  <2>2. Len(m.lines) \in Nat
    BY <1>1
  <2> QED
    BY <1>2, <2>1, <2>2 DEF Executed
<1>5. Note(i, 0, 0, r, q) /\ r \in Nat /\ q \in Nat
  BY DEF Exec
<1>6. /\ done'[b].starts = done[b].starts /\ done'[b].ends = done[b].ends
      /\ done'[b].replies = done[b].replies + r
  <2>1. /\ done'[b].starts = done[b].starts + 0 /\ done'[b].ends = done[b].ends + 0
        /\ done'[b].replies = done[b].replies + r
    <3> HIDE DEF r, q
    <3> QED
      BY <1>0, <1>1, <1>5, NoteChanges
  <2>2. done[b] \in DoneType
    BY <1>0, <1>1 DEF TypeOK
  <2> QED
    BY <2>1, <2>2 DEF DoneType
<1>7. /\ done[b].starts \in Nat /\ done[b].ends \in Nat /\ done[b].replies \in Nat
      /\ done[b].ends < done[b].starts
      /\ done[b].starts = 1 => done[b].replies = Cardinality(Found(m, p, AtOnce))
      /\ report <=> Found(m, p, Collected) # {}
  <2>1. done[b] \in DoneType
    BY <1>0, <1>1 DEF TypeOK
  <2> QED
    BY <1>0, <1>1, <2>1 DEF DoneType, WorkOK
<1>8. BookOK(b)'
  BY <1>6, <1>7 DEF BookOK
<1>9. WorkOK'
  <2>1. /\ Found(Mail(i), Executed, AtOnce)' = Found(m, p + 1, AtOnce)
        /\ Found(Mail(i), Executed, Collected)' = Found(m, p + 1, Collected)
    BY <1>0, <1>4 DEF Found, CommandOf, AtOnce, Collected
  <2>2. Cardinality(Found(m, p + 1, AtOnce)) = Cardinality(Found(m, p, AtOnce)) + r
    BY <1>3, FoundNext
  <2>3. Found(m, p + 1, Collected) # {} <=>
          Found(m, p, Collected) # {} \/ CommandOf(line) \in Collected
    <3>1. \A set : Found(m, p + 1, set) # {} <=>
                     Found(m, p, set) # {} \/ CommandOf(m.lines[p + 1]) \in set
      BY <1>3, FoundNext, Zenon
    <3>2. CommandOf(line) = CommandOf(m.lines[p + 1])
      BY <1>3, Zenon
    <3> QED
      BY <3>1, <3>2, Zenon
  <2>4. report' <=> report \/ CommandOf(line) \in Collected
    BY DEF Exec
  <2>5. Cardinality(Found(Mail(i), Executed, AtOnce))' = Cardinality(Found(m, p + 1, AtOnce))
    BY <2>1
  <2>6. base'[i'].no = b
    BY <1>0
  <2>7. report' <=> Found(Mail(i), Executed, Collected)' # {}
    BY <1>7, <2>1, <2>3, <2>4
  <2> HIDE DEF r
  <2>8. done'[b].starts = 1 =>
          done'[b].replies = Cardinality(Found(Mail(i), Executed, AtOnce))'
    BY <1>6, <1>7, <2>2, <2>5
  <2>9. done'[b].ends < done'[b].starts
    BY <1>6, <1>7
  <2> QED
    BY <2>6, <2>7, <2>8, <2>9 DEF WorkOK
<1> HIDE DEF r, q
<1> QED
  BY <1>0, <1>1, <1>5, <1>8, <1>9, NoteInWork

LEMMA EndExecBooks ==
  ASSUME RInv, IInv', TodoOK', EndExec, i # 0
  PROVE  RInv'
<1> DEFINE r == IF report THEN 1 ELSE 0
<1>0. /\ IInv /\ TypeOK /\ TypeOK' /\ TodoOK /\ WorkOK /\ pc = "exec" /\ pc' = "mark"
      /\ UNCHANGED <<setup, sent, base, i>> /\ todo = <<>>
  BY DEF RInv, IInv, EndExec
<1>1. /\ i \in DOMAIN base /\ i > 0 /\ base[i].no \in DOMAIN sent /\ base[i].no > 0
      /\ Mail(i) = sent[base[i].no] /\ Mail(i).lines \in Seq(LineType) /\ Trusted(Mail(i))
  BY <1>0, InWork DEF Waits
<1> PICK b : b = base[i].no
  OBVIOUS
<1> PICK m : m = Mail(i)
  OBVIOUS
<1>2. Executed = Len(m.lines) /\ DOMAIN m.lines = 1 .. Len(m.lines)
  BY <1>0, <1>1 DEF Executed
<1>3. Note(i, 0, 1, r, 0) /\ r \in Nat
  BY DEF EndExec
<1>4. done[b] \in DoneType
  BY <1>0, <1>1 DEF TypeOK
<1>5. /\ done'[b].starts = done[b].starts /\ done'[b].ends = done[b].ends + 1
      /\ done'[b].replies = done[b].replies + r
  <2>1. /\ done'[b].starts = done[b].starts + 0 /\ done'[b].ends = done[b].ends + 1
        /\ done'[b].replies = done[b].replies + r
    <3> HIDE DEF r
    <3> QED
      BY <1>0, <1>1, <1>3, NoteChanges
  <2> QED
    BY <1>4, <2>1 DEF DoneType
<1>6. /\ done[b].ends < done[b].starts
      /\ done[b].starts = 1 => done[b].replies = Cardinality(Found(m, Len(m.lines), AtOnce))
      /\ report <=> Found(m, Len(m.lines), Collected) # {}
  BY <1>0, <1>1, <1>2 DEF WorkOK
<1>7. RepliesTo(m) = Cardinality(Found(m, Len(m.lines), AtOnce)) + r
  BY <1>1, <1>2, <1>6 DEF RepliesTo, Found
<1>8. RepliesTo(sent[b])' = RepliesTo(m)
  <2>1. RepliesTo(m)' = RepliesTo(m)
    BY <1>0, SameReplies
  <2>2. sent'[b] = m
    BY <1>0, <1>1
  <2> QED
    BY <2>1, <2>2
<1>9. BookOK(b)'
  <2> HIDE DEF r
  <2>1. done'[b].starts # 0 /\ done'[b].ends <= done'[b].starts
    BY <1>4, <1>5, <1>6 DEF DoneType
  <2>2. done'[b].starts = 1 => done'[b].replies = RepliesTo(m)
    BY <1>5, <1>6, <1>7
  <2> QED
    BY <1>8, <2>1, <2>2 DEF BookOK
<1>10. WorkOK'
  BY <1>0 DEF WorkOK
<1> HIDE DEF r
<1> QED
  BY <1>0, <1>1, <1>3, <1>9, <1>10, NoteInWork

LEMMA ArriveBooks ==
  ASSUME RInv, IInv', TodoOK', Arrive
  PROVE  RInv'
<1> PICK N : N = Len(sent) + 1
  OBVIOUS
<1>0. IInv /\ TypeOK /\ UNCHANGED <<setup, i, pc, todo, report>>
  BY DEF RInv, IInv, Arrive, rvars
<1>1. PICK m \in Mails :
        /\ sent' = Append(sent, m)
        /\ done' = Append(done, [starts |-> 0, ends |-> 0, replies |-> 0, resent |-> 0])
  BY DEF Arrive
<1>2. sent \in Seq(Mails) /\ done \in Seq(DoneType) /\ Len(done) = Len(sent) /\ Len(sent) \in Nat
  BY <1>0 DEF TypeOK
<1>3. /\ DOMAIN sent' = 1 .. N /\ DOMAIN sent = 1 .. Len(sent)
      /\ \A n \in DOMAIN sent : sent'[n] = sent[n] /\ done'[n] = done[n]
      /\ done'[N] = [starts |-> 0, ends |-> 0, replies |-> 0, resent |-> 0]
  BY <1>1, <1>2
<1>4. ASSUME NEW n \in DOMAIN sent' PROVE BookOK(n)'
  <2>1. CASE n = N
    BY <1>3, <2>1 DEF BookOK
  <2>2. CASE n # N
    <3>1. n \in DOMAIN sent /\ BookOK(n)
      BY <1>2, <1>3, <2>2 DEF RInv
    <3> PICK r : r = sent[n]
      OBVIOUS
    <3>2. RepliesTo(r)' = RepliesTo(r)
      BY <1>0, SameReplies
    <3>3. RepliesTo(sent[n])' = RepliesTo(sent[n])
      BY <1>3, <3>1, <3>2
    <3> QED
      BY <1>3, <3>1, <3>3 DEF BookOK
  <2> QED
    BY <2>1, <2>2
<1>5. WorkOK'
  <2> SUFFICES ASSUME pc = "exec", i > 0 PROVE WorkOK'
    BY <1>0 DEF WorkOK
  <2>1. i \in DOMAIN base /\ base[i].no > 0
    BY <1>0 DEF TypeOK
  <2>2. /\ base'[i] = base[i] /\ Mail(i)' = Mail(i) /\ base[i].no \in DOMAIN sent
        /\ base'[i'] = base[i]
    BY <1>0, <2>1, ArriveKeeps DEF Mail
  <2> PICK b : b = base[i].no
    OBVIOUS
  <2>3. done'[b] = done[b] /\ base'[i'].no = b
    BY <1>3, <2>2
  <2>4. Executed' = Executed
    BY <1>0, <2>2 DEF Executed
  <2>5. /\ Found(Mail(i), Executed, AtOnce)' = Found(Mail(i), Executed, AtOnce)
        /\ Found(Mail(i), Executed, Collected)' = Found(Mail(i), Executed, Collected)
    BY <1>0, <2>2, <2>4 DEF Found, CommandOf, AtOnce, Collected
  <2>6. Cardinality(Found(Mail(i), Executed, AtOnce))' = Cardinality(Found(Mail(i), Executed, AtOnce))
    BY <2>5
  <2>7. /\ done[b].ends < done[b].starts
        /\ done[b].starts = 1 =>
             done[b].replies = Cardinality(Found(Mail(i), Executed, AtOnce))
        /\ report <=> Found(Mail(i), Executed, Collected) # {}
    BY DEF RInv, WorkOK
  <2> QED
    BY <1>0, <2>3, <2>5, <2>6, <2>7 DEF WorkOK
<1> QED
  BY <1>4, <1>5 DEF RInv

(* Books and mails stay as they are, and no request is in work. *)
LEMMA NoBooks ==
  ASSUME RInv, IInv', TodoOK', setup' = setup, UNCHANGED <<sent, done>>, WorkOK'
  PROVE  RInv'
<1>1. ASSUME NEW n \in DOMAIN sent PROVE BookOK(n)'
  <2>1. BookOK(n)
    BY DEF RInv
  <2> PICK r : r = sent[n]
    OBVIOUS
  <2>2. RepliesTo(r)' = RepliesTo(r)
    BY SameReplies
  <2>3. RepliesTo(sent[n])' = RepliesTo(sent[n])
    BY <2>2
  <2> QED
    BY <2>1, <2>3 DEF BookOK
<1> QED
  BY <1>1 DEF RInv

LEMMA RInvInit == Init => RInv
<1> SUFFICES ASSUME Init PROVE RInv
  OBVIOUS
<1>1. IInv
  BY IInvInit
<1>2. DOMAIN sent = {} /\ pc = "idle"
  BY DEF Init
<1> QED
  BY <1>1, <1>2 DEF RInv, TodoOK, WorkOK

LEMMA RInvStep == RInv /\ [Next]_vars => RInv'
<1> SUFFICES ASSUME RInv, [Next]_vars PROVE RInv'
  OBVIOUS
<1>0. IInv /\ IInv' /\ TodoOK /\ TodoOK' /\ setup' = setup
  BY IInvStep, TodoStep, MayStays DEF RInv
<1>1. CASE Start \/ Skip \/ Finish \/ Crash \/ Ffix \/ Mark \/ Kill
  <2>1. UNCHANGED <<sent, done>> /\ (pc' # "exec" \/ i' = 0)
    BY <1>1 DEF Start, Skip, Finish, Crash, Ffix, Mark, Kill, Ended, mvars
  <2>2. WorkOK'
    BY <2>1 DEF WorkOK
  <2> QED
    BY <1>0, <2>1, <2>2, NoBooks
<1>2. CASE (Exec \/ EndExec) /\ i = 0
  <2>1. UNCHANGED <<sent, done>> /\ (i' = 0 \/ pc' = "idle")
    BY <1>2 DEF Exec, EndExec, Note, Ended
  <2>2. WorkOK'
    BY <2>1 DEF WorkOK
  <2> QED
    BY <1>0, <2>1, <2>2, NoBooks
<1>3. CASE Edit \/ UNCHANGED vars
  <2>1. UNCHANGED <<sent, base, done, i, pc, todo, report>>
    BY <1>3 DEF Edit, vars, mvars, rvars
  <2>2. WorkOK'
    <3>1. Mail(i)' = Mail(i) /\ Executed' = Executed /\ WorkOK
      BY <2>1 DEF Mail, Executed, RInv
    <3>2. /\ Found(Mail(i), Executed, AtOnce)' = Found(Mail(i), Executed, AtOnce)
          /\ Found(Mail(i), Executed, Collected)' = Found(Mail(i), Executed, Collected)
      BY <1>0, <3>1 DEF Found, CommandOf, AtOnce, Collected
    <3>3. Cardinality(Found(Mail(i), Executed, AtOnce))' =
            Cardinality(Found(Mail(i), Executed, AtOnce))
      BY <3>2
    <3> QED
      BY <2>1, <3>1, <3>2, <3>3 DEF WorkOK
  <2> QED
    BY <1>0, <2>1, <2>2, NoBooks
<1> QED
  BY <1>0, <1>1, <1>2, <1>3, ArriveBooks, RefuseBooks, RequestBooks, ExecBooks, EndExecBooks
  DEF Next, Scan

LEMMA RInvReplies == RInv => RightReplies
BY DEF RInv, BookOK, RightReplies

(* When all requests are handled, the subscription is what they ask for in *)
(* the order in which they were sent, over crashes and with any mails,     *)
(* unless one came into a slot that the run had passed; and each request   *)
(* begun and ended once has got the replies it is due.                     *)
THEOREM RequestsObeyed == Spec => []Obeyed
<1>1. Spec => []OInv
  BY OInvInit, OInvStep, PTL DEF Spec
<1>2. Spec => []RInv
  BY RInvInit, RInvStep, PTL DEF Spec
<1>3. OInv /\ RInv => Obeyed
  BY OInvLastWord, RInvReplies DEF Obeyed
<1> QED
  BY <1>1, <1>2, <1>3, PTL
=============================================================================
