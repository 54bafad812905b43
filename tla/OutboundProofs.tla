--------------------------- MODULE OutboundProofs ---------------------------
(***************************************************************************)
(* What holds of Outbound for all files, links, file boxes, runs and       *)
(* faults.  The invariants are built up in layers, each inductive relative *)
(* to the ones before:                                                     *)
(*   TypeOK, CurOK       the shape of a run's local state                  *)
(*   BsyExclusive        the .bsy file as a mutual exclusion lock          *)
(*   TicketOK            where a ticket can be at each step of its job     *)
(*   OneRun, CopiesOK    under the lock file: how often a job is queued    *)
(* and the step-wise refinement of Delivery rests on all of them.  What    *)
(* holds as long as certain faults do not happen comes last (ListOK,       *)
(* TakenOK).                                                               *)
(***************************************************************************)
EXTENDS Outbound, TLAPS

(* A run works on a job exactly between picking it and leaving it. *)
CurOK ==
  \A r \in Runs :
    cur[r] = None <=> pc[r] \in {"idle", "tmp", "main", "put"}

(* Layer 1: the type invariant, with what it needs of cur. *)
LEMMA InitType == Init => TypeOK /\ CurOK
BY OutboundAssumption DEF Init, TypeOK, CurOK, PCs, TicPlaces, Job

LEMMA NextType == TypeOK /\ CurOK /\ [Next]_vars => TypeOK' /\ CurOK'
<1> SUFFICES ASSUME TypeOK, CurOK, [Next]_vars PROVE TypeOK' /\ CurOK'
  OBVIOUS
<1> USE OutboundAssumption
<1> USE DEF TypeOK, CurOK, PCs, TicPlaces, Job, Goto, queue, config, local
<1>1. ASSUME NEW r \in Runs, RunStep(r) PROVE TypeOK' /\ CurOK'
  <2>1. CASE Start(r)
    BY <2>1 DEF Start
  <2>2. CASE TmpBusy(r)
    BY <2>2 DEF TmpBusy
  <2>3. CASE TmpLock(r)
    BY <2>3 DEF TmpLock
  <2>4. CASE TmpMove(r)
    BY <2>4 DEF TmpMove
  <2>5. CASE TmpMoveFail(r)
    BY <2>5 DEF TmpMoveFail
  <2>6. CASE TmpFlo(r)
    BY <2>6 DEF TmpFlo
  <2>7. CASE TmpUnlock(r)
    BY <2>7 DEF TmpUnlock
  <2>8. CASE TmpEnd(r)
    BY <2>8 DEF TmpEnd
  <2>9. CASE PutNoTic(r)
    BY <2>9 DEF PutNoTic
  <2>10. CASE PutTic(r)
    BY <2>10 DEF PutTic, TicDir
  <2>11. CASE PutTicPostpone(r)
    BY <2>11 DEF PutTicPostpone
  <2>12. CASE PutTicFail(r)
    BY <2>12 DEF PutTicFail
  <2>13. CASE PutBox(r)
    BY <2>13 DEF PutBox
  <2>14. CASE PutBoxFail(r)
    BY <2>14 DEF PutBoxFail
  <2>15. CASE PutFlo(r)
    BY <2>15 DEF PutFlo
  <2>16. CASE PutUnlock(r)
    BY <2>16 DEF PutUnlock
  <2>17. CASE EndFile(r)
    BY <2>17 DEF EndFile
  <2>18. CASE End(r)
    BY <2>18 DEF End, Vanish
  <2>19. CASE ExitHtick(r)
    BY <2>19 DEF ExitHtick, Vanish
  <2>20. ASSUME NEW j \in Job, TmpParse(r, j) PROVE TypeOK' /\ CurOK'
    BY <2>20 DEF TmpParse
  <2>21. ASSUME NEW j \in Job, TmpSkip(r, j) PROVE TypeOK' /\ CurOK'
    BY <2>21 DEF TmpSkip
  <2>22. ASSUME NEW j \in Job, PutLock(r, j) PROVE TypeOK' /\ CurOK'
    BY <2>22 DEF PutLock
  <2>23. ASSUME NEW j \in Job, PutBusy(r, j) PROVE TypeOK' /\ CurOK'
    BY <2>23 DEF PutBusy
  <2>24. ASSUME NEW f \in Files, SendFile(r, f) PROVE TypeOK' /\ CurOK'
    BY <2>24 DEF SendFile
  <2> QED
    BY <1>1, <2>1, <2>2, <2>3, <2>4, <2>5, <2>6, <2>7, <2>8, <2>9, <2>10,
       <2>11, <2>12, <2>13, <2>14, <2>15, <2>16, <2>17, <2>18, <2>19, <2>20,
       <2>21, <2>22, <2>23, <2>24
    DEF RunStep
<1>2. ASSUME NEW l \in Links, MailerStep(l) PROVE TypeOK' /\ CurOK'
  <2>1. CASE MailerLock(l)
    BY <2>1 DEF MailerLock
  <2>2. CASE MailerUnlock(l)
    BY <2>2 DEF MailerUnlock
  <2> QED
    BY <1>2, <2>1, <2>2 DEF MailerStep
<1>3. ASSUME NEW j \in Job, SendStep(j) PROVE TypeOK' /\ CurOK'
  <2>1. CASE MailerSend(j)
    BY <2>1 DEF MailerSend
  <2>2. CASE MailerBoxTic(j)
    BY <2>2 DEF MailerBoxTic
  <2>3. CASE MailerBoxFile(j)
    BY <2>3 DEF MailerBoxFile
  <2> QED
    BY <1>3, <2>1, <2>2, <2>3 DEF SendStep
<1>4. CASE OutsideStep
  <2>1. ASSUME NEW r \in Runs, Crash(r) PROVE TypeOK' /\ CurOK'
    BY <2>1 DEF Crash, Vanish
  <2>2. ASSUME NEW l \in Links, RemoveStale(l) PROVE TypeOK' /\ CurOK'
    BY <2>2 DEF RemoveStale
  <2>3. ASSUME NEW l \in Links, EditNoTic(l) PROVE TypeOK' /\ CurOK'
    BY <2>3 DEF EditNoTic
  <2>4. ASSUME NEW f \in Files, EditArea(f) PROVE TypeOK' /\ CurOK'
    BY <2>4 DEF EditArea
  <2> QED
    BY <1>4, <2>1, <2>2, <2>3, <2>4 DEF OutsideStep
<1>5. CASE UNCHANGED vars
  BY <1>5 DEF vars
<1> QED
  BY <1>1, <1>2, <1>3, <1>4, <1>5 DEF Next

(* Every variable keeps its type. *)
THEOREM TypeCorrect == Spec => [](TypeOK /\ CurOK)
BY InitType, NextType, PTL DEF Spec

(* Layer 2: a run that has created a link's .bsy file and not removed it   *)
(* yet is the file's owner.  A .bsy file is removed by its owner, by a     *)
(* session that owns it, or as stale, when no run uses it.                 *)
LEMMA NextBsy ==
  TypeOK /\ CurOK /\ BsyExclusive /\ [Next]_vars => BsyExclusive'
<1> SUFFICES ASSUME TypeOK, CurOK, BsyExclusive, [Next]_vars PROVE BsyExclusive'
  OBVIOUS
<1> USE OutboundAssumption
<1> USE DEF TypeOK, CurOK, BsyExclusive, Uses, PCs, Job, Goto, queue, config, local
<1>1. ASSUME NEW r \in Runs, RunStep(r) PROVE BsyExclusive'
  <2>1. CASE Start(r)
    BY <2>1 DEF Start
  <2>2. CASE TmpBusy(r)
    BY <2>2 DEF TmpBusy
  <2>3. CASE TmpLock(r)
    BY <2>3 DEF TmpLock
  <2>4. CASE TmpMove(r)
    BY <2>4 DEF TmpMove
  <2>5. CASE TmpMoveFail(r)
    BY <2>5 DEF TmpMoveFail
  <2>6. CASE TmpFlo(r)
    BY <2>6 DEF TmpFlo
  <2>7. CASE TmpUnlock(r)
    BY <2>7 DEF TmpUnlock
  <2>8. CASE TmpEnd(r)
    BY <2>8 DEF TmpEnd
  <2>9. CASE PutNoTic(r)
    BY <2>9 DEF PutNoTic
  <2>10. CASE PutTic(r)
    BY <2>10 DEF PutTic, TicDir
  <2>11. CASE PutTicPostpone(r)
    BY <2>11 DEF PutTicPostpone
  <2>12. CASE PutTicFail(r)
    BY <2>12 DEF PutTicFail
  <2>13. CASE PutBox(r)
    BY <2>13 DEF PutBox
  <2>14. CASE PutBoxFail(r)
    BY <2>14 DEF PutBoxFail
  <2>15. CASE PutFlo(r)
    BY <2>15 DEF PutFlo
  <2>16. CASE PutUnlock(r)
    BY <2>16 DEF PutUnlock
  <2>17. CASE EndFile(r)
    BY <2>17 DEF EndFile
  <2>18. CASE End(r)
    BY <2>18 DEF End, Vanish
  <2>19. CASE ExitHtick(r)
    BY <2>19 DEF ExitHtick, Vanish
  <2>20. ASSUME NEW j \in Job, TmpParse(r, j) PROVE BsyExclusive'
    BY <2>20 DEF TmpParse
  <2>21. ASSUME NEW j \in Job, TmpSkip(r, j) PROVE BsyExclusive'
    BY <2>21 DEF TmpSkip
  <2>22. ASSUME NEW j \in Job, PutLock(r, j) PROVE BsyExclusive'
    BY <2>22 DEF PutLock
  <2>23. ASSUME NEW j \in Job, PutBusy(r, j) PROVE BsyExclusive'
    BY <2>23 DEF PutBusy
  <2>24. ASSUME NEW f \in Files, SendFile(r, f) PROVE BsyExclusive'
    BY <2>24 DEF SendFile
  <2> QED
    BY <1>1, <2>1, <2>2, <2>3, <2>4, <2>5, <2>6, <2>7, <2>8, <2>9, <2>10,
       <2>11, <2>12, <2>13, <2>14, <2>15, <2>16, <2>17, <2>18, <2>19, <2>20,
       <2>21, <2>22, <2>23, <2>24
    DEF RunStep
<1>2. ASSUME NEW l \in Links, MailerStep(l) PROVE BsyExclusive'
  <2>1. CASE MailerLock(l)
    BY <2>1 DEF MailerLock
  <2>2. CASE MailerUnlock(l)
    BY <2>2 DEF MailerUnlock
  <2> QED
    BY <1>2, <2>1, <2>2 DEF MailerStep
<1>3. ASSUME NEW j \in Job, SendStep(j) PROVE BsyExclusive'
  <2>1. CASE MailerSend(j)
    BY <2>1 DEF MailerSend
  <2>2. CASE MailerBoxTic(j)
    BY <2>2 DEF MailerBoxTic
  <2>3. CASE MailerBoxFile(j)
    BY <2>3 DEF MailerBoxFile
  <2> QED
    BY <1>3, <2>1, <2>2, <2>3 DEF SendStep
<1>4. CASE OutsideStep
  <2>1. ASSUME NEW r \in Runs, Crash(r) PROVE BsyExclusive'
    BY <2>1 DEF Crash, Vanish
  <2>2. ASSUME NEW l \in Links, RemoveStale(l) PROVE BsyExclusive'
    BY <2>2 DEF RemoveStale
  <2>3. ASSUME NEW l \in Links, EditNoTic(l) PROVE BsyExclusive'
    BY <2>3 DEF EditNoTic
  <2>4. ASSUME NEW f \in Files, EditArea(f) PROVE BsyExclusive'
    BY <2>4 DEF EditArea
  <2> QED
    BY <1>4, <2>1, <2>2, <2>3, <2>4 DEF OutsideStep
<1>5. CASE UNCHANGED vars
  BY <1>5 DEF vars
<1> QED
  BY <1>1, <1>2, <1>3, <1>4, <1>5 DEF Next

(* No two runs, and no run and a session, are ever both using one link's   *)
(* flow file, whatever faults and crashes happen.                          *)
THEOREM BsyMutex == Spec => []BsyExclusive
<1>1. Init => BsyExclusive
  BY DEF Init, BsyExclusive, Uses
<1> QED
  BY <1>1, TypeCorrect, NextBsy, PTL DEF Spec

(* Layer 3: tickets.  Once a ticket has left busyFileDir it does not come  *)
(* back, and a run that is about to put a job is the only one that is.     *)
Done == {"outDir", "sent", "off"}

ToPut(r, j) ==
  \/ pc[r] \in {"put", "putTic", "putFile", "putUnlock"} /\ j \in work[r]
  \/ pc[r] = "putTic" /\ cur[r] = j

PutOK ==
  /\ \A j \in Job : j[1] \in fresh => ticAt[j] = "none"
  /\ \A r \in Runs, j \in Job :
       /\ ToPut(r, j) => ticAt[j] = "none" /\ j[1] \notin fresh
       /\ \A s \in Runs : ToPut(r, j) /\ ToPut(s, j) => r = s
  /\ \A r \in Runs : pc[r] = "putTic" => cur[r] \notin work[r]

MoveOK ==
  \A r \in Runs :
    /\ pc[r] = "putFile" /\ ~busy[r] /\ cur[r][2] \notin FileBox
         => ticAt[cur[r]] \in Done
    /\ pc[r] = "putFile" => ticAt[cur[r]] # "none"
    /\ pc[r] \in {"tmpLock", "tmpMove"} => ticAt[cur[r]] \in Done \cup {"busyDir"}
    /\ pc[r] = "tmpFlo" /\ ~err[r] => ticAt[cur[r]] \in Done

TicketOK == PutOK /\ MoveOK /\ TicBeforeFlo

LEMMA NextPut == TypeOK /\ CurOK /\ PutOK /\ MoveOK /\ [Next]_vars => PutOK'
<1> SUFFICES ASSUME TypeOK, CurOK, PutOK, MoveOK, [Next]_vars PROVE PutOK'
  OBVIOUS
<1> USE OutboundAssumption
<1> USE DEF TypeOK, CurOK, PutOK, MoveOK, Done, ToPut, PCs, Job, Goto, queue, config, local
<1>1. ASSUME NEW r \in Runs, RunStep(r) PROVE PutOK'
  <2>1. CASE Start(r)
    BY <2>1 DEF Start
  <2>2. CASE TmpBusy(r)
    BY <2>2 DEF TmpBusy
  <2>3. CASE TmpLock(r)
    BY <2>3 DEF TmpLock
  <2>4. CASE TmpMove(r)
    BY <2>4 DEF TmpMove
  <2>5. CASE TmpMoveFail(r)
    BY <2>5 DEF TmpMoveFail
  <2>6. CASE TmpFlo(r)
    BY <2>6 DEF TmpFlo
  <2>7. CASE TmpUnlock(r)
    BY <2>7 DEF TmpUnlock
  <2>8. CASE TmpEnd(r)
    BY <2>8 DEF TmpEnd
  <2>9. CASE PutNoTic(r)
    BY <2>9 DEF PutNoTic
  <2>10. CASE PutTic(r)
    BY <2>10 DEF PutTic, TicDir
  <2>11. CASE PutTicPostpone(r)
    BY <2>11 DEF PutTicPostpone
  <2>12. CASE PutTicFail(r)
    BY <2>12 DEF PutTicFail
  <2>13. CASE PutBox(r)
    BY <2>13 DEF PutBox
  <2>14. CASE PutBoxFail(r)
    BY <2>14 DEF PutBoxFail
  <2>15. CASE PutFlo(r)
    BY <2>15 DEF PutFlo
  <2>16. CASE PutUnlock(r)
    BY <2>16 DEF PutUnlock
  <2>17. CASE EndFile(r)
    BY <2>17 DEF EndFile
  <2>18. CASE End(r)
    BY <2>18 DEF End, Vanish
  <2>19. CASE ExitHtick(r)
    BY <2>19 DEF ExitHtick, Vanish
  <2>20. ASSUME NEW j \in Job, TmpParse(r, j) PROVE PutOK'
    BY <2>20 DEF TmpParse
  <2>21. ASSUME NEW j \in Job, TmpSkip(r, j) PROVE PutOK'
    BY <2>21 DEF TmpSkip
  <2>22. ASSUME NEW j \in Job, PutLock(r, j) PROVE PutOK'
    BY <2>22 DEF PutLock
  <2>23. ASSUME NEW j \in Job, PutBusy(r, j) PROVE PutOK'
    BY <2>23 DEF PutBusy
  <2>24. ASSUME NEW f \in Files, SendFile(r, f) PROVE PutOK'
    BY <2>24 DEF SendFile
  <2> QED
    BY <1>1, <2>1, <2>2, <2>3, <2>4, <2>5, <2>6, <2>7, <2>8, <2>9, <2>10,
       <2>11, <2>12, <2>13, <2>14, <2>15, <2>16, <2>17, <2>18, <2>19, <2>20,
       <2>21, <2>22, <2>23, <2>24
    DEF RunStep
<1>2. ASSUME NEW l \in Links, MailerStep(l) PROVE PutOK'
  <2>1. CASE MailerLock(l)
    BY <2>1 DEF MailerLock
  <2>2. CASE MailerUnlock(l)
    BY <2>2 DEF MailerUnlock
  <2> QED
    BY <1>2, <2>1, <2>2 DEF MailerStep
<1>3. ASSUME NEW j \in Job, SendStep(j) PROVE PutOK'
  <2>1. CASE MailerSend(j)
    BY <2>1 DEF MailerSend
  <2>2. CASE MailerBoxTic(j)
    BY <2>2 DEF MailerBoxTic
  <2>3. CASE MailerBoxFile(j)
    BY <2>3 DEF MailerBoxFile
  <2> QED
    BY <1>3, <2>1, <2>2, <2>3 DEF SendStep
<1>4. CASE OutsideStep
  <2>1. ASSUME NEW r \in Runs, Crash(r) PROVE PutOK'
    BY <2>1 DEF Crash, Vanish
  <2>2. ASSUME NEW l \in Links, RemoveStale(l) PROVE PutOK'
    BY <2>2 DEF RemoveStale
  <2>3. ASSUME NEW l \in Links, EditNoTic(l) PROVE PutOK'
    BY <2>3 DEF EditNoTic
  <2>4. ASSUME NEW f \in Files, EditArea(f) PROVE PutOK'
    BY <2>4 DEF EditArea
  <2> QED
    BY <1>4, <2>1, <2>2, <2>3, <2>4 DEF OutsideStep
<1>5. CASE UNCHANGED vars
  BY <1>5 DEF vars
<1> QED
  BY <1>1, <1>2, <1>3, <1>4, <1>5 DEF Next

LEMMA NextMove ==
  TypeOK /\ CurOK /\ PutOK /\ MoveOK /\ [Next]_vars => MoveOK'
<1> SUFFICES ASSUME TypeOK, CurOK, PutOK, MoveOK, [Next]_vars PROVE MoveOK'
  OBVIOUS
<1> USE OutboundAssumption
<1> USE DEF TypeOK, CurOK, PutOK, MoveOK, ToPut, Done, PCs, Job, Goto, queue, config, local
<1>1. ASSUME NEW r \in Runs, RunStep(r) PROVE MoveOK'
  <2>1. CASE Start(r)
    BY <2>1 DEF Start
  <2>2. CASE TmpBusy(r)
    BY <2>2 DEF TmpBusy
  <2>3. CASE TmpLock(r)
    BY <2>3 DEF TmpLock
  <2>4. CASE TmpMove(r)
    BY <2>4 DEF TmpMove
  <2>5. CASE TmpMoveFail(r)
    BY <2>5 DEF TmpMoveFail
  <2>6. CASE TmpFlo(r)
    BY <2>6 DEF TmpFlo
  <2>7. CASE TmpUnlock(r)
    BY <2>7 DEF TmpUnlock
  <2>8. CASE TmpEnd(r)
    BY <2>8 DEF TmpEnd
  <2>9. CASE PutNoTic(r)
    BY <2>9 DEF PutNoTic
  <2>10. CASE PutTic(r)
    BY <2>10 DEF PutTic, TicDir
  <2>11. CASE PutTicPostpone(r)
    BY <2>11 DEF PutTicPostpone
  <2>12. CASE PutTicFail(r)
    BY <2>12 DEF PutTicFail
  <2>13. CASE PutBox(r)
    BY <2>13 DEF PutBox
  <2>14. CASE PutBoxFail(r)
    BY <2>14 DEF PutBoxFail
  <2>15. CASE PutFlo(r)
    BY <2>15 DEF PutFlo
  <2>16. CASE PutUnlock(r)
    BY <2>16 DEF PutUnlock
  <2>17. CASE EndFile(r)
    BY <2>17 DEF EndFile
  <2>18. CASE End(r)
    BY <2>18 DEF End, Vanish
  <2>19. CASE ExitHtick(r)
    BY <2>19 DEF ExitHtick, Vanish
  <2>20. ASSUME NEW j \in Job, TmpParse(r, j) PROVE MoveOK'
    BY <2>20 DEF TmpParse
  <2>21. ASSUME NEW j \in Job, TmpSkip(r, j) PROVE MoveOK'
    BY <2>21 DEF TmpSkip
  <2>22. ASSUME NEW j \in Job, PutLock(r, j) PROVE MoveOK'
    BY <2>22 DEF PutLock
  <2>23. ASSUME NEW j \in Job, PutBusy(r, j) PROVE MoveOK'
    BY <2>23 DEF PutBusy
  <2>24. ASSUME NEW f \in Files, SendFile(r, f) PROVE MoveOK'
    BY <2>24 DEF SendFile
  <2> QED
    BY <1>1, <2>1, <2>2, <2>3, <2>4, <2>5, <2>6, <2>7, <2>8, <2>9, <2>10,
       <2>11, <2>12, <2>13, <2>14, <2>15, <2>16, <2>17, <2>18, <2>19, <2>20,
       <2>21, <2>22, <2>23, <2>24
    DEF RunStep
<1>2. ASSUME NEW l \in Links, MailerStep(l) PROVE MoveOK'
  <2>1. CASE MailerLock(l)
    BY <2>1 DEF MailerLock
  <2>2. CASE MailerUnlock(l)
    BY <2>2 DEF MailerUnlock
  <2> QED
    BY <1>2, <2>1, <2>2 DEF MailerStep
<1>3. ASSUME NEW j \in Job, SendStep(j) PROVE MoveOK'
  <2>1. CASE MailerSend(j)
    BY <2>1 DEF MailerSend
  <2>2. CASE MailerBoxTic(j)
    BY <2>2 DEF MailerBoxTic
  <2>3. CASE MailerBoxFile(j)
    BY <2>3 DEF MailerBoxFile
  <2> QED
    BY <1>3, <2>1, <2>2, <2>3 DEF SendStep
<1>4. CASE OutsideStep
  <2>1. ASSUME NEW r \in Runs, Crash(r) PROVE MoveOK'
    BY <2>1 DEF Crash, Vanish
  <2>2. ASSUME NEW l \in Links, RemoveStale(l) PROVE MoveOK'
    BY <2>2 DEF RemoveStale
  <2>3. ASSUME NEW l \in Links, EditNoTic(l) PROVE MoveOK'
    BY <2>3 DEF EditNoTic
  <2>4. ASSUME NEW f \in Files, EditArea(f) PROVE MoveOK'
    BY <2>4 DEF EditArea
  <2> QED
    BY <1>4, <2>1, <2>2, <2>3, <2>4 DEF OutsideStep
<1>5. CASE UNCHANGED vars
  BY <1>5 DEF vars
<1> QED
  BY <1>1, <1>2, <1>3, <1>4, <1>5 DEF Next

LEMMA NextBefore ==
  TypeOK /\ CurOK /\ TicketOK /\ [Next]_vars => TicBeforeFlo'
<1> SUFFICES ASSUME TypeOK, CurOK, TicketOK, [Next]_vars PROVE TicBeforeFlo'
  OBVIOUS
<1> USE OutboundAssumption
<1> USE DEF TypeOK, CurOK, TicketOK, TicBeforeFlo, PutOK, MoveOK, ToPut, Done, PCs,
            Job, Goto, queue, config, local
<1>1. ASSUME NEW r \in Runs, RunStep(r) PROVE TicBeforeFlo'
  <2>1. CASE Start(r)
    BY <2>1 DEF Start
  <2>2. CASE TmpBusy(r)
    BY <2>2 DEF TmpBusy
  <2>3. CASE TmpLock(r)
    BY <2>3 DEF TmpLock
  <2>4. CASE TmpMove(r)
    BY <2>4 DEF TmpMove
  <2>5. CASE TmpMoveFail(r)
    BY <2>5 DEF TmpMoveFail
  <2>6. CASE TmpFlo(r)
    BY <2>6 DEF TmpFlo
  <2>7. CASE TmpUnlock(r)
    BY <2>7 DEF TmpUnlock
  <2>8. CASE TmpEnd(r)
    BY <2>8 DEF TmpEnd
  <2>9. CASE PutNoTic(r)
    BY <2>9 DEF PutNoTic
  <2>10. CASE PutTic(r)
    BY <2>10 DEF PutTic, TicDir
  <2>11. CASE PutTicPostpone(r)
    BY <2>11 DEF PutTicPostpone
  <2>12. CASE PutTicFail(r)
    BY <2>12 DEF PutTicFail
  <2>13. CASE PutBox(r)
    BY <2>13 DEF PutBox
  <2>14. CASE PutBoxFail(r)
    BY <2>14 DEF PutBoxFail
  <2>15. CASE PutFlo(r)
    BY <2>15 DEF PutFlo
  <2>16. CASE PutUnlock(r)
    BY <2>16 DEF PutUnlock
  <2>17. CASE EndFile(r)
    BY <2>17 DEF EndFile
  <2>18. CASE End(r)
    BY <2>18 DEF End, Vanish
  <2>19. CASE ExitHtick(r)
    BY <2>19 DEF ExitHtick, Vanish
  <2>20. ASSUME NEW j \in Job, TmpParse(r, j) PROVE TicBeforeFlo'
    BY <2>20 DEF TmpParse
  <2>21. ASSUME NEW j \in Job, TmpSkip(r, j) PROVE TicBeforeFlo'
    BY <2>21 DEF TmpSkip
  <2>22. ASSUME NEW j \in Job, PutLock(r, j) PROVE TicBeforeFlo'
    BY <2>22 DEF PutLock
  <2>23. ASSUME NEW j \in Job, PutBusy(r, j) PROVE TicBeforeFlo'
    BY <2>23 DEF PutBusy
  <2>24. ASSUME NEW f \in Files, SendFile(r, f) PROVE TicBeforeFlo'
    BY <2>24 DEF SendFile
  <2> QED
    BY <1>1, <2>1, <2>2, <2>3, <2>4, <2>5, <2>6, <2>7, <2>8, <2>9, <2>10,
       <2>11, <2>12, <2>13, <2>14, <2>15, <2>16, <2>17, <2>18, <2>19, <2>20,
       <2>21, <2>22, <2>23, <2>24
    DEF RunStep
<1>2. ASSUME NEW l \in Links, MailerStep(l) PROVE TicBeforeFlo'
  <2>1. CASE MailerLock(l)
    BY <2>1 DEF MailerLock
  <2>2. CASE MailerUnlock(l)
    BY <2>2 DEF MailerUnlock
  <2> QED
    BY <1>2, <2>1, <2>2 DEF MailerStep
<1>3. ASSUME NEW j \in Job, SendStep(j) PROVE TicBeforeFlo'
  <2>1. CASE MailerSend(j)
    BY <2>1 DEF MailerSend
  <2>2. CASE MailerBoxTic(j)
    BY <2>2 DEF MailerBoxTic
  <2>3. CASE MailerBoxFile(j)
    BY <2>3 DEF MailerBoxFile
  <2> QED
    BY <1>3, <2>1, <2>2, <2>3 DEF SendStep
<1>4. CASE OutsideStep
  <2>1. ASSUME NEW r \in Runs, Crash(r) PROVE TicBeforeFlo'
    BY <2>1 DEF Crash, Vanish
  <2>2. ASSUME NEW l \in Links, RemoveStale(l) PROVE TicBeforeFlo'
    BY <2>2 DEF RemoveStale
  <2>3. ASSUME NEW l \in Links, EditNoTic(l) PROVE TicBeforeFlo'
    BY <2>3 DEF EditNoTic
  <2>4. ASSUME NEW f \in Files, EditArea(f) PROVE TicBeforeFlo'
    BY <2>4 DEF EditArea
  <2> QED
    BY <1>4, <2>1, <2>2, <2>3, <2>4 DEF OutsideStep
<1>5. CASE UNCHANGED vars
  BY <1>5 DEF vars
<1> QED
  BY <1>1, <1>2, <1>3, <1>4, <1>5 DEF Next

LEMMA InitTicket == Init => TicketOK
BY DEF Init, TicketOK, PutOK, MoveOK, TicBeforeFlo, ToPut, Job

LEMMA TicketInv == Spec => []TicketOK
<1>1. TypeOK /\ CurOK /\ TicketOK /\ [Next]_vars => TicketOK'
  BY NextPut, NextMove, NextBefore DEF TicketOK
<1> QED
  BY <1>1, InitTicket, TypeCorrect, PTL DEF Spec

(* Whatever fails or crashes, with or without a lock file: a file is never *)
(* listed in a flow file ahead of its ticket.                              *)
THEOREM TicketFirst == Spec => []TicBeforeFlo
BY TicketInv, PTL DEF TicketOK

(* A ticket leaves busyFileDir only under the link's .bsy file. *)
LEMMA MoveUnderBsy ==
  TypeOK /\ CurOK /\ PutOK /\ BsyExclusive /\ [Next]_vars =>
    \A j \in Job : ticAt[j] = "busyDir" /\ ticAt'[j] # "busyDir"
      => \E r \in Runs : bsy[j[2]] = r /\ Uses(r, j[2])
<1> DEFINE Moved(i) == ticAt[i] = "busyDir" /\ ticAt'[i] # "busyDir"
<1> DEFINE Owned(i) == \E s \in Runs : bsy[i[2]] = s /\ Uses(s, i[2])
<1> SUFFICES ASSUME TypeOK, CurOK, PutOK, BsyExclusive, [Next]_vars,
                    NEW i \in Job, Moved(i)
             PROVE  Owned(i)
  OBVIOUS
<1> USE OutboundAssumption
<1> USE DEF TypeOK, CurOK, PutOK, ToPut, BsyExclusive, Uses, PCs, Job, Goto, queue, config,
            local
<1>1. ASSUME NEW r \in Runs, RunStep(r) PROVE Owned(i)
  <2>1. CASE Start(r)
    BY <2>1 DEF Start
  <2>2. CASE TmpBusy(r)
    BY <2>2 DEF TmpBusy
  <2>3. CASE TmpLock(r)
    BY <2>3 DEF TmpLock
  <2>4. CASE TmpMove(r)
    <3>1. i = cur[r]
      BY <2>4 DEF TmpMove
    <3>2. Uses(r, i[2]) /\ i[2] \in Links
      BY <2>4, <3>1 DEF TmpMove
    <3> QED
      BY <3>2
  <2>5. CASE TmpMoveFail(r)
    BY <2>5 DEF TmpMoveFail
  <2>6. CASE TmpFlo(r)
    BY <2>6 DEF TmpFlo
  <2>7. CASE TmpUnlock(r)
    BY <2>7 DEF TmpUnlock
  <2>8. CASE TmpEnd(r)
    BY <2>8 DEF TmpEnd
  <2>9. CASE PutNoTic(r)
    BY <2>9 DEF PutNoTic
  <2>10. CASE PutTic(r)
    BY <2>10 DEF PutTic, TicDir
  <2>11. CASE PutTicPostpone(r)
    BY <2>11 DEF PutTicPostpone
  <2>12. CASE PutTicFail(r)
    BY <2>12 DEF PutTicFail
  <2>13. CASE PutBox(r)
    BY <2>13 DEF PutBox
  <2>14. CASE PutBoxFail(r)
    BY <2>14 DEF PutBoxFail
  <2>15. CASE PutFlo(r)
    BY <2>15 DEF PutFlo
  <2>16. CASE PutUnlock(r)
    BY <2>16 DEF PutUnlock
  <2>17. CASE EndFile(r)
    BY <2>17 DEF EndFile
  <2>18. CASE End(r)
    BY <2>18 DEF End, Vanish
  <2>19. CASE ExitHtick(r)
    BY <2>19 DEF ExitHtick, Vanish
  <2>20. ASSUME NEW j \in Job, TmpParse(r, j) PROVE Owned(i)
    BY <2>20 DEF TmpParse
  <2>21. ASSUME NEW j \in Job, TmpSkip(r, j) PROVE Owned(i)
    BY <2>21 DEF TmpSkip
  <2>22. ASSUME NEW j \in Job, PutLock(r, j) PROVE Owned(i)
    BY <2>22 DEF PutLock
  <2>23. ASSUME NEW j \in Job, PutBusy(r, j) PROVE Owned(i)
    BY <2>23 DEF PutBusy
  <2>24. ASSUME NEW f \in Files, SendFile(r, f) PROVE Owned(i)
    BY <2>24 DEF SendFile
  <2> QED
    BY <1>1, <2>1, <2>2, <2>3, <2>4, <2>5, <2>6, <2>7, <2>8, <2>9, <2>10,
       <2>11, <2>12, <2>13, <2>14, <2>15, <2>16, <2>17, <2>18, <2>19, <2>20,
       <2>21, <2>22, <2>23, <2>24
    DEF RunStep
<1>2. ASSUME NEW l \in Links, MailerStep(l) PROVE Owned(i)
  <2>1. CASE MailerLock(l)
    BY <2>1 DEF MailerLock
  <2>2. CASE MailerUnlock(l)
    BY <2>2 DEF MailerUnlock
  <2> QED
    BY <1>2, <2>1, <2>2 DEF MailerStep
<1>3. ASSUME NEW j \in Job, SendStep(j) PROVE Owned(i)
  <2>1. CASE MailerSend(j)
    BY <2>1 DEF MailerSend
  <2>2. CASE MailerBoxTic(j)
    BY <2>2 DEF MailerBoxTic
  <2>3. CASE MailerBoxFile(j)
    BY <2>3 DEF MailerBoxFile
  <2> QED
    BY <1>3, <2>1, <2>2, <2>3 DEF SendStep
<1>4. CASE OutsideStep
  <2>1. ASSUME NEW r \in Runs, Crash(r) PROVE Owned(i)
    BY <2>1 DEF Crash, Vanish
  <2>2. ASSUME NEW l \in Links, RemoveStale(l) PROVE Owned(i)
    BY <2>2 DEF RemoveStale
  <2>3. ASSUME NEW l \in Links, EditNoTic(l) PROVE Owned(i)
    BY <2>3 DEF EditNoTic
  <2>4. ASSUME NEW f \in Files, EditArea(f) PROVE Owned(i)
    BY <2>4 DEF EditArea
  <2> QED
    BY <1>4, <2>1, <2>2, <2>3, <2>4 DEF OutsideStep
<1>5. CASE UNCHANGED vars
  BY <1>5 DEF vars
<1> QED
  BY <1>1, <1>2, <1>3, <1>4, <1>5 DEF Next

THEOREM PostponedUnderBsy == Spec => PostponedMovedUnderBsy
<1>1. TypeOK /\ CurOK /\ TicketOK /\ BsyExclusive /\ [Next]_vars =>
        [\A j \in Job : ticAt[j] = "busyDir" /\ ticAt'[j] # "busyDir"
           => \E r \in Runs : bsy[j[2]] = r /\ Uses(r, j[2])]_vars
  BY MoveUnderBsy DEF TicketOK
<1> QED
  BY <1>1, TypeCorrect, TicketInv, BsyMutex, PTL DEF Spec, PostponedMovedUnderBsy

(* Layer 4: under the lock file.  A job that has no ticket yet, or whose   *)
(* ticket is postponed, has no copy; a run that is about to queue a job is *)
(* the only one to do so.                                                  *)
LEMMA NextOneRun == TypeOK /\ OneRun /\ [Next]_vars => OneRun'
<1> SUFFICES ASSUME TypeOK, OneRun, [Next]_vars PROVE OneRun'
  OBVIOUS
<1> USE OutboundAssumption
<1> USE DEF TypeOK, OneRun, PCs, Job, Goto, queue, config, local
<1>1. ASSUME NEW r \in Runs, RunStep(r) PROVE OneRun'
  <2>1. CASE Start(r)
    BY <2>1 DEF Start
  <2>2. CASE TmpBusy(r)
    BY <2>2 DEF TmpBusy
  <2>3. CASE TmpLock(r)
    BY <2>3 DEF TmpLock
  <2>4. CASE TmpMove(r)
    BY <2>4 DEF TmpMove
  <2>5. CASE TmpMoveFail(r)
    BY <2>5 DEF TmpMoveFail
  <2>6. CASE TmpFlo(r)
    BY <2>6 DEF TmpFlo
  <2>7. CASE TmpUnlock(r)
    BY <2>7 DEF TmpUnlock
  <2>8. CASE TmpEnd(r)
    BY <2>8 DEF TmpEnd
  <2>9. CASE PutNoTic(r)
    BY <2>9 DEF PutNoTic
  <2>10. CASE PutTic(r)
    BY <2>10 DEF PutTic, TicDir
  <2>11. CASE PutTicPostpone(r)
    BY <2>11 DEF PutTicPostpone
  <2>12. CASE PutTicFail(r)
    BY <2>12 DEF PutTicFail
  <2>13. CASE PutBox(r)
    BY <2>13 DEF PutBox
  <2>14. CASE PutBoxFail(r)
    BY <2>14 DEF PutBoxFail
  <2>15. CASE PutFlo(r)
    BY <2>15 DEF PutFlo
  <2>16. CASE PutUnlock(r)
    BY <2>16 DEF PutUnlock
  <2>17. CASE EndFile(r)
    BY <2>17 DEF EndFile
  <2>18. CASE End(r)
    BY <2>18 DEF End, Vanish
  <2>19. CASE ExitHtick(r)
    BY <2>19 DEF ExitHtick, Vanish
  <2>20. ASSUME NEW j \in Job, TmpParse(r, j) PROVE OneRun'
    BY <2>20 DEF TmpParse
  <2>21. ASSUME NEW j \in Job, TmpSkip(r, j) PROVE OneRun'
    BY <2>21 DEF TmpSkip
  <2>22. ASSUME NEW j \in Job, PutLock(r, j) PROVE OneRun'
    BY <2>22 DEF PutLock
  <2>23. ASSUME NEW j \in Job, PutBusy(r, j) PROVE OneRun'
    BY <2>23 DEF PutBusy
  <2>24. ASSUME NEW f \in Files, SendFile(r, f) PROVE OneRun'
    BY <2>24 DEF SendFile
  <2> QED
    BY <1>1, <2>1, <2>2, <2>3, <2>4, <2>5, <2>6, <2>7, <2>8, <2>9, <2>10,
       <2>11, <2>12, <2>13, <2>14, <2>15, <2>16, <2>17, <2>18, <2>19, <2>20,
       <2>21, <2>22, <2>23, <2>24
    DEF RunStep
<1>2. ASSUME NEW l \in Links, MailerStep(l) PROVE OneRun'
  <2>1. CASE MailerLock(l)
    BY <2>1 DEF MailerLock
  <2>2. CASE MailerUnlock(l)
    BY <2>2 DEF MailerUnlock
  <2> QED
    BY <1>2, <2>1, <2>2 DEF MailerStep
<1>3. ASSUME NEW j \in Job, SendStep(j) PROVE OneRun'
  <2>1. CASE MailerSend(j)
    BY <2>1 DEF MailerSend
  <2>2. CASE MailerBoxTic(j)
    BY <2>2 DEF MailerBoxTic
  <2>3. CASE MailerBoxFile(j)
    BY <2>3 DEF MailerBoxFile
  <2> QED
    BY <1>3, <2>1, <2>2, <2>3 DEF SendStep
<1>4. CASE OutsideStep
  <2>1. ASSUME NEW r \in Runs, Crash(r) PROVE OneRun'
    BY <2>1 DEF Crash, Vanish
  <2>2. ASSUME NEW l \in Links, RemoveStale(l) PROVE OneRun'
    BY <2>2 DEF RemoveStale
  <2>3. ASSUME NEW l \in Links, EditNoTic(l) PROVE OneRun'
    BY <2>3 DEF EditNoTic
  <2>4. ASSUME NEW f \in Files, EditArea(f) PROVE OneRun'
    BY <2>4 DEF EditArea
  <2> QED
    BY <1>4, <2>1, <2>2, <2>3, <2>4 DEF OutsideStep
<1>5. CASE UNCHANGED vars
  BY <1>5 DEF vars
<1> QED
  BY <1>1, <1>2, <1>3, <1>4, <1>5 DEF Next

THEOREM RunsOneByOne == Spec => []OneRun
<1>1. Init => OneRun
  BY DEF Init, OneRun
<1> QED
  BY <1>1, TypeCorrect, NextOneRun, PTL DEF Spec

JobCopies ==
  \A j \in Job :
    /\ Copies(j) <= 1
    /\ ticAt[j] \in {"none", "busyDir"} => Copies(j) = 0

RunCopies ==
  \A r \in Runs :
    /\ pc[r] \in {"tmpLock", "tmpMove"} => ticAt[cur[r]] = "busyDir"
    /\ pc[r] = "tmpFlo" /\ ~err[r] => Copies(cur[r]) = 0
    /\ pc[r] = "putFile" => Copies(cur[r]) = 0

CopiesOK == JobCopies /\ RunCopies

LEMMA NextCopies ==
  UseLockFile /\ TypeOK /\ CurOK /\ TicketOK /\ OneRun /\ CopiesOK /\ [Next]_vars
    => CopiesOK'
<1> SUFFICES ASSUME UseLockFile, TypeOK, CurOK, TicketOK, OneRun, CopiesOK, [Next]_vars
             PROVE  CopiesOK'
  OBVIOUS
<1>c. \A r \in Runs : pc[r] \notin {"idle", "tmp", "main", "put"} => cur[r] \in Job
  BY DEF TypeOK, CurOK
<1> USE OutboundAssumption
<1> USE DEF TypeOK, CurOK, TicketOK, PutOK, MoveOK, ToPut, Done, TicBeforeFlo, OneRun, CopiesOK, JobCopies,
            RunCopies, Copies, PCs, Job, Goto, queue, config, local
<1>1. ASSUME NEW r \in Runs, RunStep(r) PROVE CopiesOK'
  <2>1. CASE Start(r)
    BY <2>1 DEF Start
  <2>2. CASE TmpBusy(r)
    BY <2>2 DEF TmpBusy
  <2>3. CASE TmpLock(r)
    BY <2>3 DEF TmpLock
  <2>4. CASE TmpMove(r)
    <3>1. \A s \in Runs : s # r => pc[s] = "idle"
      BY <2>4 DEF TmpMove
    <3>2. cur[r] \in Job
      BY <2>4, <1>c DEF TmpMove
    <3>3. ASSUME NEW k \in Job
          PROVE  Copies(k)' <= 1 /\ (ticAt[k]' \in {"none", "busyDir"} => Copies(k)' = 0)
      <4>1. CASE k = cur[r]
        BY <2>4, <3>2, <4>1 DEF TmpMove
      <4>2. CASE k # cur[r]
        BY <2>4, <3>2, <4>2 DEF TmpMove
      <4> QED
        BY <4>1, <4>2
    <3>4. RunCopies'
      BY <2>4, <3>1, <3>2 DEF TmpMove
    <3> QED
      BY <3>3, <3>4
  <2>5. CASE TmpMoveFail(r)
    BY <2>5 DEF TmpMoveFail
  <2>6. CASE TmpFlo(r)
    <3>1. \A s \in Runs : s # r => pc[s] = "idle"
      BY <2>6 DEF TmpFlo
    <3>2. cur[r] \in Job
      BY <2>6, <1>c DEF TmpFlo
    <3>3. ASSUME NEW k \in Job
          PROVE  Copies(k)' <= 1 /\ (ticAt[k]' \in {"none", "busyDir"} => Copies(k)' = 0)
      <4>1. CASE k = cur[r]
        BY <2>6, <3>2, <4>1 DEF TmpFlo
      <4>2. CASE k # cur[r]
        BY <2>6, <3>2, <4>2 DEF TmpFlo
      <4> QED
        BY <4>1, <4>2
    <3>4. RunCopies'
      BY <2>6, <3>1, <3>2 DEF TmpFlo
    <3> QED
      BY <3>3, <3>4
  <2>7. CASE TmpUnlock(r)
    BY <2>7 DEF TmpUnlock
  <2>8. CASE TmpEnd(r)
    BY <2>8 DEF TmpEnd
  <2>9. CASE PutNoTic(r)
    <3>1. \A s \in Runs : s # r => pc[s] = "idle"
      BY <2>9 DEF PutNoTic
    <3>2. cur[r] \in Job
      BY <2>9, <1>c DEF PutNoTic
    <3>3. ASSUME NEW k \in Job
          PROVE  Copies(k)' <= 1 /\ (ticAt[k]' \in {"none", "busyDir"} => Copies(k)' = 0)
      <4>1. CASE k = cur[r]
        BY <2>9, <3>2, <4>1 DEF PutNoTic
      <4>2. CASE k # cur[r]
        BY <2>9, <3>2, <4>2 DEF PutNoTic
      <4> QED
        BY <4>1, <4>2
    <3>4. RunCopies'
      BY <2>9, <3>1, <3>2 DEF PutNoTic
    <3> QED
      BY <3>3, <3>4
  <2>10. CASE PutTic(r)
    <3>1. \A s \in Runs : s # r => pc[s] = "idle"
      BY <2>10 DEF PutTic
    <3>2. cur[r] \in Job
      BY <2>10, <1>c DEF PutTic
    <3>3. ASSUME NEW k \in Job
          PROVE  Copies(k)' <= 1 /\ (ticAt[k]' \in {"none", "busyDir"} => Copies(k)' = 0)
      <4>1. CASE k = cur[r]
        BY <2>10, <3>2, <4>1 DEF PutTic, TicDir
      <4>2. CASE k # cur[r]
        BY <2>10, <3>2, <4>2 DEF PutTic, TicDir
      <4> QED
        BY <4>1, <4>2
    <3>4. RunCopies'
      BY <2>10, <3>1, <3>2 DEF PutTic, TicDir
    <3> QED
      BY <3>3, <3>4
  <2>11. CASE PutTicPostpone(r)
    <3>1. \A s \in Runs : s # r => pc[s] = "idle"
      BY <2>11 DEF PutTicPostpone
    <3>2. cur[r] \in Job
      BY <2>11, <1>c DEF PutTicPostpone
    <3>3. ASSUME NEW k \in Job
          PROVE  Copies(k)' <= 1 /\ (ticAt[k]' \in {"none", "busyDir"} => Copies(k)' = 0)
      <4>1. CASE k = cur[r]
        BY <2>11, <3>2, <4>1 DEF PutTicPostpone
      <4>2. CASE k # cur[r]
        BY <2>11, <3>2, <4>2 DEF PutTicPostpone
      <4> QED
        BY <4>1, <4>2
    <3>4. RunCopies'
      BY <2>11, <3>1, <3>2 DEF PutTicPostpone
    <3> QED
      BY <3>3, <3>4
  <2>12. CASE PutTicFail(r)
    BY <2>12 DEF PutTicFail
  <2>13. CASE PutBox(r)
    <3>1. \A s \in Runs : s # r => pc[s] = "idle"
      BY <2>13 DEF PutBox
    <3>2. cur[r] \in Job
      BY <2>13, <1>c DEF PutBox
    <3>3. ASSUME NEW k \in Job
          PROVE  Copies(k)' <= 1 /\ (ticAt[k]' \in {"none", "busyDir"} => Copies(k)' = 0)
      <4>1. CASE k = cur[r]
        BY <2>13, <3>2, <4>1 DEF PutBox
      <4>2. CASE k # cur[r]
        BY <2>13, <3>2, <4>2 DEF PutBox
      <4> QED
        BY <4>1, <4>2
    <3>4. RunCopies'
      BY <2>13, <3>1, <3>2 DEF PutBox
    <3> QED
      BY <3>3, <3>4
  <2>14. CASE PutBoxFail(r)
    BY <2>14 DEF PutBoxFail
  <2>15. CASE PutFlo(r)
    <3>1. \A s \in Runs : s # r => pc[s] = "idle"
      BY <2>15 DEF PutFlo
    <3>2. cur[r] \in Job
      BY <2>15, <1>c DEF PutFlo
    <3>3. ASSUME NEW k \in Job
          PROVE  Copies(k)' <= 1 /\ (ticAt[k]' \in {"none", "busyDir"} => Copies(k)' = 0)
      <4>1. CASE k = cur[r]
        <5>1. CASE busy[r]
          BY <2>15, <3>2, <4>1, <5>1 DEF PutFlo
        <5>2. CASE ~busy[r]
          <6>1. Copies(k) = 0 /\ ticAt[k] \in Done
            BY <2>15, <4>1, <5>2 DEF PutFlo
          <6> QED
            BY <2>15, <3>2, <4>1, <5>2, <6>1 DEF PutFlo
        <5> QED
          BY <5>1, <5>2
      <4>2. CASE k # cur[r]
        BY <2>15, <3>2, <4>2 DEF PutFlo
      <4> QED
        BY <4>1, <4>2
    <3>4. RunCopies'
      BY <2>15, <3>1, <3>2 DEF PutFlo
    <3> QED
      BY <3>3, <3>4
  <2>16. CASE PutUnlock(r)
    BY <2>16 DEF PutUnlock
  <2>17. CASE EndFile(r)
    BY <2>17 DEF EndFile
  <2>18. CASE End(r)
    BY <2>18 DEF End, Vanish
  <2>19. CASE ExitHtick(r)
    BY <2>19 DEF ExitHtick, Vanish
  <2>20. ASSUME NEW j \in Job, TmpParse(r, j) PROVE CopiesOK'
    BY <2>20 DEF TmpParse
  <2>21. ASSUME NEW j \in Job, TmpSkip(r, j) PROVE CopiesOK'
    BY <2>21 DEF TmpSkip
  <2>22. ASSUME NEW j \in Job, PutLock(r, j) PROVE CopiesOK'
    BY <2>22 DEF PutLock
  <2>23. ASSUME NEW j \in Job, PutBusy(r, j) PROVE CopiesOK'
    BY <2>23 DEF PutBusy
  <2>24. ASSUME NEW f \in Files, SendFile(r, f) PROVE CopiesOK'
    BY <2>24 DEF SendFile
  <2> QED
    BY <1>1, <2>1, <2>2, <2>3, <2>4, <2>5, <2>6, <2>7, <2>8, <2>9, <2>10,
       <2>11, <2>12, <2>13, <2>14, <2>15, <2>16, <2>17, <2>18, <2>19, <2>20,
       <2>21, <2>22, <2>23, <2>24
    DEF RunStep
<1>2. ASSUME NEW l \in Links, MailerStep(l) PROVE CopiesOK'
  <2>1. CASE MailerLock(l)
    BY <2>1 DEF MailerLock
  <2>2. CASE MailerUnlock(l)
    BY <2>2 DEF MailerUnlock
  <2> QED
    BY <1>2, <2>1, <2>2 DEF MailerStep
<1>3. ASSUME NEW j \in Job, SendStep(j) PROVE CopiesOK'
  <2>1. CASE MailerSend(j)
    BY <2>1 DEF MailerSend
  <2>2. CASE MailerBoxTic(j)
    BY <2>2 DEF MailerBoxTic
  <2>3. CASE MailerBoxFile(j)
    BY <2>3 DEF MailerBoxFile
  <2> QED
    BY <1>3, <2>1, <2>2, <2>3 DEF SendStep
<1>4. CASE OutsideStep
  <2>1. ASSUME NEW r \in Runs, Crash(r) PROVE CopiesOK'
    BY <2>1 DEF Crash, Vanish
  <2>2. ASSUME NEW l \in Links, RemoveStale(l) PROVE CopiesOK'
    BY <2>2 DEF RemoveStale
  <2>3. ASSUME NEW l \in Links, EditNoTic(l) PROVE CopiesOK'
    BY <2>3 DEF EditNoTic
  <2>4. ASSUME NEW f \in Files, EditArea(f) PROVE CopiesOK'
    BY <2>4 DEF EditArea
  <2> QED
    BY <1>4, <2>1, <2>2, <2>3, <2>4 DEF OutsideStep
<1>5. CASE UNCHANGED vars
  BY <1>5 DEF vars
<1> QED
  BY <1>1, <1>2, <1>3, <1>4, <1>5 DEF Next

LEMMA CopiesInv == ASSUME UseLockFile PROVE Spec => []CopiesOK
<1>1. Init => CopiesOK
  BY DEF Init, CopiesOK, JobCopies, RunCopies, Copies, Job
<1>2. TypeOK /\ CurOK /\ TicketOK /\ OneRun /\ CopiesOK /\ [Next]_vars => CopiesOK'
  BY NextCopies, UseLockFile
<1> QED
  BY <1>1, <1>2, TypeCorrect, TicketInv, RunsOneByOne, PTL DEF Spec

(* Under the lock file a job is queued or sent at most once, postponed or  *)
(* not, through whatever faults and crashes.                               *)
THEOREM SentOnce == ASSUME UseLockFile PROVE Spec => []AtMostOnce
<1>1. CopiesOK => AtMostOnce
  BY DEF CopiesOK, JobCopies, AtMostOnce
<1> QED
  BY <1>1, CopiesInv, PTL

LEMMA OneCopy ==
  ASSUME NEW j, flo[j] \in Nat, sent[j] \in Nat, Copies(j) <= 1, flo[j] > 0 \/ j \in box
  PROVE  sent[j] = 0 /\ Copies(j) # 0
<1>1. CASE j \in box
  BY <1>1 DEF Copies
<1>2. CASE j \notin box
  BY <1>2 DEF Copies
<1> QED
  BY <1>1, <1>2

(* Under the lock file every step of Outbound is an Accept, a Deliver or a *)
(* stutter of Delivery.                                                    *)
LEMMA DeliveryStep ==
  TypeOK /\ CurOK /\ TicketOK /\ CopiesOK /\ [Next]_vars
    => [Abstract!Next]_(Abstract!dvars)
<1> SUFFICES ASSUME TypeOK, CurOK, TicketOK, CopiesOK, [Next]_vars
             PROVE  [Abstract!Next]_(Abstract!dvars)
  OBVIOUS
<1> USE OutboundAssumption
<1> USE DEF TypeOK, TicketOK, PutOK, CopiesOK, JobCopies, Copies, TicBeforeFlo, PCs, Job,
            Goto, queue, config, local, Abstract!dvars
<1>1. ASSUME NEW r \in Runs, RunStep(r) PROVE [Abstract!Next]_(Abstract!dvars)
  <2>1. CASE Start(r)
    BY <2>1 DEF Start
  <2>2. CASE TmpBusy(r)
    BY <2>2 DEF TmpBusy
  <2>3. CASE TmpLock(r)
    BY <2>3 DEF TmpLock
  <2>4. CASE TmpMove(r)
    BY <2>4 DEF TmpMove
  <2>5. CASE TmpMoveFail(r)
    BY <2>5 DEF TmpMoveFail
  <2>6. CASE TmpFlo(r)
    BY <2>6 DEF TmpFlo
  <2>7. CASE TmpUnlock(r)
    BY <2>7 DEF TmpUnlock
  <2>8. CASE TmpEnd(r)
    BY <2>8 DEF TmpEnd
  <2>9. CASE PutNoTic(r)
    BY <2>9 DEF PutNoTic
  <2>10. CASE PutTic(r)
    BY <2>10 DEF PutTic, TicDir
  <2>11. CASE PutTicPostpone(r)
    BY <2>11 DEF PutTicPostpone
  <2>12. CASE PutTicFail(r)
    BY <2>12 DEF PutTicFail
  <2>13. CASE PutBox(r)
    BY <2>13 DEF PutBox
  <2>14. CASE PutBoxFail(r)
    BY <2>14 DEF PutBoxFail
  <2>15. CASE PutFlo(r)
    BY <2>15 DEF PutFlo
  <2>16. CASE PutUnlock(r)
    BY <2>16 DEF PutUnlock
  <2>17. CASE EndFile(r)
    BY <2>17 DEF EndFile
  <2>18. CASE End(r)
    BY <2>18 DEF End, Vanish
  <2>19. CASE ExitHtick(r)
    BY <2>19 DEF ExitHtick, Vanish
  <2>20. ASSUME NEW j \in Job, TmpParse(r, j) PROVE [Abstract!Next]_(Abstract!dvars)
    BY <2>20 DEF TmpParse
  <2>21. ASSUME NEW j \in Job, TmpSkip(r, j) PROVE [Abstract!Next]_(Abstract!dvars)
    BY <2>21 DEF TmpSkip
  <2>22. ASSUME NEW j \in Job, PutLock(r, j) PROVE [Abstract!Next]_(Abstract!dvars)
    BY <2>22 DEF PutLock
  <2>23. ASSUME NEW j \in Job, PutBusy(r, j) PROVE [Abstract!Next]_(Abstract!dvars)
    BY <2>23 DEF PutBusy
  <2>24. ASSUME NEW f \in Files, SendFile(r, f) PROVE [Abstract!Next]_(Abstract!dvars)
    <3>1. f \in fresh /\ fresh' = fresh \ {f} /\ sent' = sent
      BY <2>24 DEF SendFile
    <3>2. Abstract!Accept(f)
      BY <3>1 DEF Abstract!Accept
    <3> QED
      BY <3>2 DEF Abstract!Next
  <2> QED
    BY <1>1, <2>1, <2>2, <2>3, <2>4, <2>5, <2>6, <2>7, <2>8, <2>9, <2>10,
       <2>11, <2>12, <2>13, <2>14, <2>15, <2>16, <2>17, <2>18, <2>19, <2>20,
       <2>21, <2>22, <2>23, <2>24
    DEF RunStep
<1>2. ASSUME NEW l \in Links, MailerStep(l) PROVE [Abstract!Next]_(Abstract!dvars)
  <2>1. CASE MailerLock(l)
    BY <2>1 DEF MailerLock
  <2>2. CASE MailerUnlock(l)
    BY <2>2 DEF MailerUnlock
  <2> QED
    BY <1>2, <2>1, <2>2 DEF MailerStep
<1>3. ASSUME NEW j \in Job, SendStep(j) PROVE [Abstract!Next]_(Abstract!dvars)
  <2>1. CASE MailerSend(j)
    <3>c. flo[j] \in Nat /\ sent[j] \in Nat /\ Copies(j) <= 1 /\ (flo[j] > 0 \/ j \in box)
      BY <2>1 DEF MailerSend
    <3>a. sent[j] = 0 /\ Copies(j) # 0
      BY <3>c, OneCopy
    <3>b. j[1] \notin fresh
      BY <3>a
    <3>1. sent[j] = 0 /\ j[1] \notin fresh /\ j \in (Files \ fresh) \X Links
      BY <3>a, <3>b
    <3>2. fresh' = fresh /\ sent' = [sent EXCEPT ![j] = @ + 1]
      BY <2>1 DEF MailerSend
    <3>3. sent' = [sent EXCEPT ![j] = 1]
      BY <3>1, <3>2
    <3>4. Abstract!Deliver(j)
      BY <3>1, <3>2, <3>3 DEF Abstract!Deliver, Abstract!Owed
    <3> QED
      BY <3>4 DEF Abstract!Next
  <2>2. CASE MailerBoxTic(j)
    BY <2>2 DEF MailerBoxTic
  <2>3. CASE MailerBoxFile(j)
    <3>c. flo[j] \in Nat /\ sent[j] \in Nat /\ Copies(j) <= 1 /\ (flo[j] > 0 \/ j \in box)
      BY <2>3 DEF MailerBoxFile
    <3>a. sent[j] = 0 /\ Copies(j) # 0
      BY <3>c, OneCopy
    <3>b. j[1] \notin fresh
      BY <3>a
    <3>1. sent[j] = 0 /\ j[1] \notin fresh /\ j \in (Files \ fresh) \X Links
      BY <3>a, <3>b
    <3>2. fresh' = fresh /\ sent' = [sent EXCEPT ![j] = @ + 1]
      BY <2>3 DEF MailerBoxFile
    <3>3. sent' = [sent EXCEPT ![j] = 1]
      BY <3>1, <3>2
    <3>4. Abstract!Deliver(j)
      BY <3>1, <3>2, <3>3 DEF Abstract!Deliver, Abstract!Owed
    <3> QED
      BY <3>4 DEF Abstract!Next
  <2> QED
    BY <1>3, <2>1, <2>2, <2>3 DEF SendStep
<1>4. CASE OutsideStep
  <2>1. ASSUME NEW r \in Runs, Crash(r) PROVE [Abstract!Next]_(Abstract!dvars)
    BY <2>1 DEF Crash, Vanish
  <2>2. ASSUME NEW l \in Links, RemoveStale(l) PROVE [Abstract!Next]_(Abstract!dvars)
    BY <2>2 DEF RemoveStale
  <2>3. ASSUME NEW l \in Links, EditNoTic(l) PROVE [Abstract!Next]_(Abstract!dvars)
    BY <2>3 DEF EditNoTic
  <2>4. ASSUME NEW f \in Files, EditArea(f) PROVE [Abstract!Next]_(Abstract!dvars)
    BY <2>4 DEF EditArea
  <2> QED
    BY <1>4, <2>1, <2>2, <2>3, <2>4 DEF OutsideStep
<1>5. CASE UNCHANGED vars
  BY <1>5 DEF vars
<1> QED
  BY <1>1, <1>2, <1>3, <1>4, <1>5 DEF Next

THEOREM Refinement == ASSUME UseLockFile PROVE Spec => ImplementsDelivery
<1>1. Init => Abstract!Init
  BY DEF Init, Abstract!Init, Job
<1> QED
  BY <1>1, DeliveryStep, TypeCorrect, TicketInv, CopiesInv, PTL
  DEF Spec, Abstract!Spec, ImplementsDelivery
-----------------------------------------------------------------------------
(* What depends on the faults.                                             *)

(* A run that does not crash and can write its tickets gives up every .bsy *)
(* file it has created, whichever way the job ends.                        *)
LEMMA NextNoStale ==
  Faults \cap {"crash", "writeTic"} = {} /\ TypeOK /\ CurOK /\ NoStaleBsy /\ [Next]_vars
    => NoStaleBsy'
<1> SUFFICES ASSUME Faults \cap {"crash", "writeTic"} = {}, TypeOK, CurOK, NoStaleBsy, [Next]_vars
             PROVE  NoStaleBsy'
  OBVIOUS
<1> USE OutboundAssumption
<1> USE DEF TypeOK, CurOK, NoStaleBsy, Uses, PCs, Job, Goto, queue, config, local
<1>1. ASSUME NEW r \in Runs, RunStep(r) PROVE NoStaleBsy'
  <2>1. CASE Start(r)
    BY <2>1 DEF Start
  <2>2. CASE TmpBusy(r)
    BY <2>2 DEF TmpBusy
  <2>3. CASE TmpLock(r)
    BY <2>3 DEF TmpLock
  <2>4. CASE TmpMove(r)
    BY <2>4 DEF TmpMove
  <2>5. CASE TmpMoveFail(r)
    BY <2>5 DEF TmpMoveFail
  <2>6. CASE TmpFlo(r)
    BY <2>6 DEF TmpFlo
  <2>7. CASE TmpUnlock(r)
    BY <2>7 DEF TmpUnlock
  <2>8. CASE TmpEnd(r)
    BY <2>8 DEF TmpEnd
  <2>9. CASE PutNoTic(r)
    BY <2>9 DEF PutNoTic
  <2>10. CASE PutTic(r)
    BY <2>10 DEF PutTic, TicDir
  <2>11. CASE PutTicPostpone(r)
    BY <2>11 DEF PutTicPostpone
  <2>12. CASE PutTicFail(r)
    BY <2>12 DEF PutTicFail
  <2>13. CASE PutBox(r)
    BY <2>13 DEF PutBox
  <2>14. CASE PutBoxFail(r)
    BY <2>14 DEF PutBoxFail
  <2>15. CASE PutFlo(r)
    BY <2>15 DEF PutFlo
  <2>16. CASE PutUnlock(r)
    BY <2>16 DEF PutUnlock
  <2>17. CASE EndFile(r)
    BY <2>17 DEF EndFile
  <2>18. CASE End(r)
    BY <2>18 DEF End, Vanish
  <2>19. CASE ExitHtick(r)
    BY <2>19 DEF ExitHtick, Vanish
  <2>20. ASSUME NEW j \in Job, TmpParse(r, j) PROVE NoStaleBsy'
    BY <2>20 DEF TmpParse
  <2>21. ASSUME NEW j \in Job, TmpSkip(r, j) PROVE NoStaleBsy'
    BY <2>21 DEF TmpSkip
  <2>22. ASSUME NEW j \in Job, PutLock(r, j) PROVE NoStaleBsy'
    BY <2>22 DEF PutLock
  <2>23. ASSUME NEW j \in Job, PutBusy(r, j) PROVE NoStaleBsy'
    BY <2>23 DEF PutBusy
  <2>24. ASSUME NEW f \in Files, SendFile(r, f) PROVE NoStaleBsy'
    BY <2>24 DEF SendFile
  <2> QED
    BY <1>1, <2>1, <2>2, <2>3, <2>4, <2>5, <2>6, <2>7, <2>8, <2>9, <2>10,
       <2>11, <2>12, <2>13, <2>14, <2>15, <2>16, <2>17, <2>18, <2>19, <2>20,
       <2>21, <2>22, <2>23, <2>24
    DEF RunStep
<1>2. ASSUME NEW l \in Links, MailerStep(l) PROVE NoStaleBsy'
  <2>1. CASE MailerLock(l)
    BY <2>1 DEF MailerLock
  <2>2. CASE MailerUnlock(l)
    BY <2>2 DEF MailerUnlock
  <2> QED
    BY <1>2, <2>1, <2>2 DEF MailerStep
<1>3. ASSUME NEW j \in Job, SendStep(j) PROVE NoStaleBsy'
  <2>1. CASE MailerSend(j)
    BY <2>1 DEF MailerSend
  <2>2. CASE MailerBoxTic(j)
    BY <2>2 DEF MailerBoxTic
  <2>3. CASE MailerBoxFile(j)
    BY <2>3 DEF MailerBoxFile
  <2> QED
    BY <1>3, <2>1, <2>2, <2>3 DEF SendStep
<1>4. CASE OutsideStep
  <2>1. ASSUME NEW r \in Runs, Crash(r) PROVE NoStaleBsy'
    BY <2>1 DEF Crash, Vanish
  <2>2. ASSUME NEW l \in Links, RemoveStale(l) PROVE NoStaleBsy'
    BY <2>2 DEF RemoveStale
  <2>3. ASSUME NEW l \in Links, EditNoTic(l) PROVE NoStaleBsy'
    BY <2>3 DEF EditNoTic
  <2>4. ASSUME NEW f \in Files, EditArea(f) PROVE NoStaleBsy'
    BY <2>4 DEF EditArea
  <2> QED
    BY <1>4, <2>1, <2>2, <2>3, <2>4 DEF OutsideStep
<1>5. CASE UNCHANGED vars
  BY <1>5 DEF vars
<1> QED
  BY <1>1, <1>2, <1>3, <1>4, <1>5 DEF Next

(* Without crashes and failing ticket writes no .bsy file of a run stays   *)
(* behind, whatever else fails and with any number of runs.                *)
THEOREM NothingLeftLocked ==
  ASSUME Faults \cap {"crash", "writeTic"} = {} PROVE Spec => []NoStaleBsy
<1>1. Init => NoStaleBsy
  BY OutboundAssumption DEF Init, NoStaleBsy
<1>2. TypeOK /\ CurOK /\ NoStaleBsy /\ [Next]_vars => NoStaleBsy'
  BY NextNoStale
<1> QED
  BY <1>1, <1>2, TypeCorrect, PTL DEF Spec

(* Run r has moved or written the ticket of job j and will list it in the  *)
(* flow file; or will put its file in the file box.                        *)
Listing(r, j) ==
  /\ cur[r] = j
  /\ \/ pc[r] = "tmpFlo" /\ ~err[r]
     \/ pc[r] = "putFile" /\ ~busy[r] /\ j[2] \notin FileBox

Boxing(r, j) == cur[r] = j /\ pc[r] = "putFile" /\ j[2] \in FileBox

(* `error` stays 0 as long as no ticket fails to be moved. *)
ListOK ==
  /\ \A r \in Runs : ~err[r]
  /\ \A j \in Job : ticAt[j] = "outDir" =>
       flo[j] > 0 \/ \E r \in Runs : Listing(r, j)

LEMMA NextList ==
  Faults \cap {"crash", "moveTic"} = {} /\ TypeOK /\ CurOK /\ ListOK /\ [Next]_vars
    => ListOK'
<1> SUFFICES ASSUME Faults \cap {"crash", "moveTic"} = {}, TypeOK, CurOK, ListOK, [Next]_vars
             PROVE  ListOK'
  OBVIOUS
<1> USE OutboundAssumption
<1> USE DEF TypeOK, CurOK, ListOK, Listing, PCs, Job, Goto, queue, config, local
<1>1. ASSUME NEW r \in Runs, RunStep(r) PROVE ListOK'
  <2>1. CASE Start(r)
    BY <2>1 DEF Start
  <2>2. CASE TmpBusy(r)
    BY <2>2 DEF TmpBusy
  <2>3. CASE TmpLock(r)
    BY <2>3 DEF TmpLock
  <2>4. CASE TmpMove(r)
    BY <2>4 DEF TmpMove
  <2>5. CASE TmpMoveFail(r)
    BY <2>5 DEF TmpMoveFail
  <2>6. CASE TmpFlo(r)
    BY <2>6 DEF TmpFlo
  <2>7. CASE TmpUnlock(r)
    BY <2>7 DEF TmpUnlock
  <2>8. CASE TmpEnd(r)
    BY <2>8 DEF TmpEnd
  <2>9. CASE PutNoTic(r)
    BY <2>9 DEF PutNoTic
  <2>10. CASE PutTic(r)
    BY <2>10 DEF PutTic, TicDir
  <2>11. CASE PutTicPostpone(r)
    BY <2>11 DEF PutTicPostpone
  <2>12. CASE PutTicFail(r)
    BY <2>12 DEF PutTicFail
  <2>13. CASE PutBox(r)
    BY <2>13 DEF PutBox
  <2>14. CASE PutBoxFail(r)
    BY <2>14 DEF PutBoxFail
  <2>15. CASE PutFlo(r)
    BY <2>15 DEF PutFlo
  <2>16. CASE PutUnlock(r)
    BY <2>16 DEF PutUnlock
  <2>17. CASE EndFile(r)
    BY <2>17 DEF EndFile
  <2>18. CASE End(r)
    BY <2>18 DEF End, Vanish
  <2>19. CASE ExitHtick(r)
    BY <2>19 DEF ExitHtick, Vanish
  <2>20. ASSUME NEW j \in Job, TmpParse(r, j) PROVE ListOK'
    BY <2>20 DEF TmpParse
  <2>21. ASSUME NEW j \in Job, TmpSkip(r, j) PROVE ListOK'
    BY <2>21 DEF TmpSkip
  <2>22. ASSUME NEW j \in Job, PutLock(r, j) PROVE ListOK'
    BY <2>22 DEF PutLock
  <2>23. ASSUME NEW j \in Job, PutBusy(r, j) PROVE ListOK'
    <3>1. \A s \in Runs, k \in Job : Listing(s, k) => Listing(s, k)'
      BY <2>23 DEF PutBusy
    <3>2. ticAt' = ticAt /\ flo' = flo /\ err' = err
      BY <2>23 DEF PutBusy
    <3> HIDE DEF Listing
    <3> QED
      BY <3>1, <3>2
  <2>24. ASSUME NEW f \in Files, SendFile(r, f) PROVE ListOK'
    BY <2>24 DEF SendFile
  <2> QED
    BY <1>1, <2>1, <2>2, <2>3, <2>4, <2>5, <2>6, <2>7, <2>8, <2>9, <2>10,
       <2>11, <2>12, <2>13, <2>14, <2>15, <2>16, <2>17, <2>18, <2>19, <2>20,
       <2>21, <2>22, <2>23, <2>24
    DEF RunStep
<1>2. ASSUME NEW l \in Links, MailerStep(l) PROVE ListOK'
  <2>1. CASE MailerLock(l)
    BY <2>1 DEF MailerLock
  <2>2. CASE MailerUnlock(l)
    BY <2>2 DEF MailerUnlock
  <2> QED
    BY <1>2, <2>1, <2>2 DEF MailerStep
<1>3. ASSUME NEW j \in Job, SendStep(j) PROVE ListOK'
  <2>1. CASE MailerSend(j)
    BY <2>1 DEF MailerSend
  <2>2. CASE MailerBoxTic(j)
    BY <2>2 DEF MailerBoxTic
  <2>3. CASE MailerBoxFile(j)
    BY <2>3 DEF MailerBoxFile
  <2> QED
    BY <1>3, <2>1, <2>2, <2>3 DEF SendStep
<1>4. CASE OutsideStep
  <2>1. ASSUME NEW r \in Runs, Crash(r) PROVE ListOK'
    BY <2>1 DEF Crash, Vanish
  <2>2. ASSUME NEW l \in Links, RemoveStale(l) PROVE ListOK'
    BY <2>2 DEF RemoveStale
  <2>3. ASSUME NEW l \in Links, EditNoTic(l) PROVE ListOK'
    BY <2>3 DEF EditNoTic
  <2>4. ASSUME NEW f \in Files, EditArea(f) PROVE ListOK'
    BY <2>4 DEF EditArea
  <2> QED
    BY <1>4, <2>1, <2>2, <2>3, <2>4 DEF OutsideStep
<1>5. CASE UNCHANGED vars
  BY <1>5 DEF vars
<1> QED
  BY <1>1, <1>2, <1>3, <1>4, <1>5 DEF Next

(* Without crashes and failing moves a ticket in ticOutbound is always     *)
(* listed, or a run is about to list it: the mailer will find it.          *)
THEOREM OutListed ==
  ASSUME Faults \cap {"crash", "moveTic"} = {} PROVE Spec => []OutReferenced
<1>1. Init => ListOK
  BY DEF Init, ListOK
<1>2. TypeOK /\ CurOK /\ ListOK /\ [Next]_vars => ListOK'
  BY NextList
<1>3. ListOK => OutReferenced
  BY DEF ListOK, Listing, OutReferenced, InHand
<1> QED
  BY <1>1, <1>2, <1>3, TypeCorrect, PTL DEF Spec

(* A job of a file that was taken is somewhere, with or without ticket. *)
TakenOK ==
  /\ \A r \in Runs : ~err[r]
  /\ \A j \in Job : j[1] \notin fresh /\ ticAt[j] \notin {"off", "busyDir"} =>
       \/ flo[j] > 0 \/ sent[j] > 0 \/ j \in box
       \/ \E r \in Runs : ToPut(r, j) \/ Listing(r, j) \/ Boxing(r, j)

LEMMA NextTaken ==
  Faults \subseteq {"config"} /\ TypeOK /\ CurOK /\ PutOK /\ TakenOK /\ [Next]_vars
    => TakenOK'
<1> SUFFICES ASSUME Faults \subseteq {"config"}, TypeOK, CurOK, PutOK, TakenOK, [Next]_vars
             PROVE  TakenOK'
  OBVIOUS
<1> USE OutboundAssumption
<1> USE DEF TypeOK, CurOK, TakenOK, ToPut, Listing, Boxing, PCs, Job, Goto, queue, config, local
<1>1. ASSUME NEW r \in Runs, RunStep(r) PROVE TakenOK'
  <2>1. CASE Start(r)
    BY <2>1 DEF Start
  <2>2. CASE TmpBusy(r)
    BY <2>2 DEF TmpBusy
  <2>3. CASE TmpLock(r)
    BY <2>3 DEF TmpLock
  <2>4. CASE TmpMove(r)
    BY <2>4 DEF TmpMove
  <2>5. CASE TmpMoveFail(r)
    BY <2>5 DEF TmpMoveFail
  <2>6. CASE TmpFlo(r)
    BY <2>6 DEF TmpFlo
  <2>7. CASE TmpUnlock(r)
    BY <2>7 DEF TmpUnlock
  <2>8. CASE TmpEnd(r)
    BY <2>8 DEF TmpEnd
  <2>9. CASE PutNoTic(r)
    BY <2>9 DEF PutNoTic
  <2>10. CASE PutTic(r)
    BY <2>10 DEF PutTic, TicDir
  <2>11. CASE PutTicPostpone(r)
    BY <2>11 DEF PutTicPostpone
  <2>12. CASE PutTicFail(r)
    BY <2>12 DEF PutTicFail
  <2>13. CASE PutBox(r)
    BY <2>13 DEF PutBox
  <2>14. CASE PutBoxFail(r)
    BY <2>14 DEF PutBoxFail
  <2>15. CASE PutFlo(r)
    BY <2>15 DEF PutFlo
  <2>16. CASE PutUnlock(r)
    BY <2>16 DEF PutUnlock
  <2>17. CASE EndFile(r)
    BY <2>17 DEF EndFile
  <2>18. CASE End(r)
    BY <2>18 DEF End, Vanish
  <2>19. CASE ExitHtick(r)
    BY <2>19 DEF ExitHtick, Vanish
  <2>20. ASSUME NEW j \in Job, TmpParse(r, j) PROVE TakenOK'
    BY <2>20 DEF TmpParse
  <2>21. ASSUME NEW j \in Job, TmpSkip(r, j) PROVE TakenOK'
    BY <2>21 DEF TmpSkip
  <2>22. ASSUME NEW j \in Job, PutLock(r, j) PROVE TakenOK'
    BY <2>22 DEF PutLock
  <2>23. ASSUME NEW j \in Job, PutBusy(r, j) PROVE TakenOK'
    BY <2>23 DEF PutBusy
  <2>24. ASSUME NEW f \in Files, SendFile(r, f) PROVE TakenOK'
    BY <2>24 DEF SendFile
  <2> QED
    BY <1>1, <2>1, <2>2, <2>3, <2>4, <2>5, <2>6, <2>7, <2>8, <2>9, <2>10,
       <2>11, <2>12, <2>13, <2>14, <2>15, <2>16, <2>17, <2>18, <2>19, <2>20,
       <2>21, <2>22, <2>23, <2>24
    DEF RunStep
<1>2. ASSUME NEW l \in Links, MailerStep(l) PROVE TakenOK'
  <2>1. CASE MailerLock(l)
    BY <2>1 DEF MailerLock
  <2>2. CASE MailerUnlock(l)
    BY <2>2 DEF MailerUnlock
  <2> QED
    BY <1>2, <2>1, <2>2 DEF MailerStep
<1>3. ASSUME NEW j \in Job, SendStep(j) PROVE TakenOK'
  <2>1. CASE MailerSend(j)
    BY <2>1 DEF MailerSend
  <2>2. CASE MailerBoxTic(j)
    BY <2>2 DEF MailerBoxTic
  <2>3. CASE MailerBoxFile(j)
    BY <2>3 DEF MailerBoxFile
  <2> QED
    BY <1>3, <2>1, <2>2, <2>3 DEF SendStep
<1>4. CASE OutsideStep
  <2>1. ASSUME NEW r \in Runs, Crash(r) PROVE TakenOK'
    BY <2>1 DEF Crash, Vanish
  <2>2. ASSUME NEW l \in Links, RemoveStale(l) PROVE TakenOK'
    BY <2>2 DEF RemoveStale
  <2>3. ASSUME NEW l \in Links, EditNoTic(l) PROVE TakenOK'
    BY <2>3 DEF EditNoTic
  <2>4. ASSUME NEW f \in Files, EditArea(f) PROVE TakenOK'
    BY <2>4 DEF EditArea
  <2> QED
    BY <1>4, <2>1, <2>2, <2>3, <2>4 DEF OutsideStep
<1>5. CASE UNCHANGED vars
  BY <1>5 DEF vars
<1> QED
  BY <1>1, <1>2, <1>3, <1>4, <1>5 DEF Next

(* If nothing fails, a job that was taken is in hand, postponed, queued or *)
(* sent at all times, with any number of runs, with or without lock file,  *)
(* and however the configuration is edited.                                *)
THEOREM NothingLost ==
  ASSUME Faults \subseteq {"config"} PROVE Spec => []AcceptedNotLost
<1>1. Init => TakenOK
  BY DEF Init, TakenOK, Job
<1>2. TypeOK /\ CurOK /\ PutOK /\ TakenOK /\ [Next]_vars => TakenOK'
  BY NextTaken
<1>3. TypeOK /\ TakenOK => AcceptedNotLost
  <2> SUFFICES ASSUME TypeOK, TakenOK, NEW j \in Job, j[1] \notin fresh,
                      ticAt[j] \notin {"off", "busyDir"}, ~InHand(j)
               PROVE  Copies(j) > 0
    BY DEF AcceptedNotLost
  <2>1. flo[j] > 0 \/ sent[j] > 0 \/ j \in box
    BY DEF TakenOK, ToPut, Listing, Boxing, InHand
  <2>2. flo[j] \in Nat /\ sent[j] \in Nat
    BY DEF TypeOK
  <2>3. CASE j \in box
    BY <2>2, <2>3 DEF Copies
  <2>4. CASE j \notin box
    BY <2>1, <2>2, <2>4 DEF Copies
  <2> QED
    BY <2>3, <2>4
<1>4. TicketOK => PutOK
  BY DEF TicketOK
<1> QED
  BY <1>1, <1>2, <1>3, <1>4, TypeCorrect, TicketInv, PTL DEF Spec
=============================================================================
