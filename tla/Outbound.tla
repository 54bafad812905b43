------------------------------ MODULE Outbound ------------------------------
(***************************************************************************)
(* The outbound side of htick: how a file taken into a file area reaches   *)
(* the links that receive the area.                                        *)
(*                                                                         *)
(* htick is started again and again (cron, a mailer's event) and a run     *)
(*   - optionally takes config->lockfile (processConfig),                  *)
(*   - looks through config->busyFileDir for tickets postponed by an       *)
(*     earlier run and queues those whose link is free (checkTmpDir),      *)
(*   - tosses or hatches files and calls PutFileOnLink for every link the  *)
(*     file goes to (sendToLinks).                                         *)
(* Mailer sessions run at the same time.  What keeps the two apart is the  *)
(* link's .bsy file: whoever creates it may use the link's flow file.      *)
(*                                                                         *)
(* A job is a <<file, link>> pair; there is one ticket per job.  Which     *)
(* links a file goes to is FileEcho's subject; here it goes to all.        *)
(***************************************************************************)
EXTENDS Naturals

CONSTANTS
  Files,        \* the files tossed or hatched during the behaviour
  Links,        \* the links they are forwarded to
  FileBox,      \* the links that are served through a file box
  Runs,         \* the htick processes; an idle one may be started again
  Mailer,       \* owner of a .bsy file created by a mailer session
  None,         \* nobody, nothing
  UseLockFile,  \* config->lockfile is set
  Faults        \* the faults and outside events that may happen (FaultKinds)

FaultKinds == {"writeTic", "moveTic", "bsyCreate", "copyBox", "crash", "config"}

ASSUME OutboundAssumption ==
  /\ FileBox \subseteq Links
  /\ UseLockFile \in BOOLEAN
  /\ Faults \subseteq FaultKinds
  /\ Mailer \notin Runs
  /\ None \notin Runs \cup {Mailer}
  /\ None \notin Files \X Links

VARIABLES
  \* one htick process
  pc,     \* [Runs -> PCs] the next step of the run
  work,   \* [Runs -> SUBSET Job] entries the current loop has not reached
  cur,    \* [Runs -> Job \cup {None}] the ticket or link being worked on
  err,    \* [Runs -> BOOLEAN] checkTmpDir's local `error`
  busy,   \* [Runs -> BOOLEAN] PutFileOnLink's local `busy`
  \* the file system
  lock,   \* owner of config->lockfile
  bsy,    \* [Links -> who created the link's .bsy file]
  ticAt,  \* [Job -> where the job's ticket is]
  flo,    \* [Job -> Nat] how often the job is listed in its link's flow file
  box,    \* the jobs whose file is in the file box of their link
  sent,   \* [Job -> Nat] how often the mailer has sent the job's file
  \* the configuration and the supply of files
  noTic,  \* the links configured with noTIC
  noArea, \* the files whose file area is no longer configured
  fresh   \* the files not tossed or hatched yet

local  == <<pc, work, cur, err, busy>>
queue  == <<ticAt, flo, box, sent>>
config == <<noTic, noArea>>
vars   == <<local, lock, bsy, queue, config, fresh>>

Job == Files \X Links

PCs == {"idle", "tmp", "tmpLock", "tmpMove", "tmpFlo", "tmpUnlock",
        "main", "put", "putTic", "putFile", "putUnlock"}

(* "none": not written;  "off": the link has noTIC, so there is no ticket; *)
(* the others are the directories a ticket can be in, and "sent".          *)
TicPlaces == {"none", "off", "busyDir", "outDir", "box", "sent"}

TypeOK ==
  /\ pc \in [Runs -> PCs]
  /\ work \in [Runs -> SUBSET Job]
  /\ cur \in [Runs -> Job \cup {None}]
  /\ err \in [Runs -> BOOLEAN]
  /\ busy \in [Runs -> BOOLEAN]
  /\ lock \in Runs \cup {None}
  /\ bsy \in [Links -> Runs \cup {Mailer, None}]
  /\ ticAt \in [Job -> TicPlaces]
  /\ flo \in [Job -> Nat]
  /\ box \in SUBSET Job
  /\ sent \in [Job -> Nat]
  /\ noTic \in SUBSET Links
  /\ noArea \in SUBSET Files
  /\ fresh \in SUBSET Files

Init ==
  /\ pc = [r \in Runs |-> "idle"]
  /\ work = [r \in Runs |-> {}]
  /\ cur = [r \in Runs |-> None]
  /\ err = [r \in Runs |-> FALSE]
  /\ busy = [r \in Runs |-> FALSE]
  /\ lock = None
  /\ bsy = [l \in Links |-> None]
  /\ ticAt = [j \in Job |-> "none"]
  /\ flo = [j \in Job |-> 0]
  /\ box = {}
  /\ sent = [j \in Job |-> 0]
  /\ noTic \in SUBSET Links
  /\ noArea = {}
  /\ fresh = Files

-----------------------------------------------------------------------------
(* Steps of a run: control. *)

Goto(r, p) == pc' = [pc EXCEPT ![r] = p]

(* The process is gone: its variables with it, and the lock on the lock    *)
(* file; .bsy files it has created stay.                                   *)
Vanish(r) ==
  /\ Goto(r, "idle")
  /\ work' = [work EXCEPT ![r] = {}]
  /\ cur' = [cur EXCEPT ![r] = None]
  /\ err' = [err EXCEPT ![r] = FALSE]
  /\ busy' = [busy EXCEPT ![r] = FALSE]
  /\ lock' = IF lock = r THEN None ELSE lock

(* Defect: busyFileDir is not looked through. *)
StartWithoutTmp(r) ==
  /\ pc[r] = "idle"
  /\ IF UseLockFile THEN lock = None /\ lock' = r ELSE UNCHANGED lock
  /\ Goto(r, "tmp")
  /\ UNCHANGED <<work, cur, err, busy, bsy, queue, config, fresh>>

(* A run starts, takes the lock file if there is one (it exits when the    *)
(* lock is taken) and opens busyFileDir.                                   *)
Start(r) ==
  /\ pc[r] = "idle"
  /\ IF UseLockFile THEN lock = None /\ lock' = r ELSE UNCHANGED lock
  /\ Goto(r, "tmp")
  /\ work' = [work EXCEPT ![r] = {j \in Job : ticAt[j] = "busyDir"}]
  /\ err' = [err EXCEPT ![r] = FALSE]
  /\ UNCHANGED <<cur, busy, bsy, queue, config, fresh>>

(* createOutboundFileNameAka returned -1: exit_htick() *)
ExitHtick(r) ==
  /\ "bsyCreate" \in Faults
  /\ pc[r] \in {"tmpLock", "put"}
  /\ pc[r] = "put" => work[r] # {}
  /\ Vanish(r)
  /\ UNCHANGED <<bsy, queue, config, fresh>>

Crash(r) ==
  /\ "crash" \in Faults
  /\ pc[r] # "idle"
  /\ Vanish(r)
  /\ UNCHANGED <<bsy, queue, config, fresh>>

(* main() returns. *)
End(r) ==
  /\ pc[r] = "main"
  /\ Vanish(r)
  /\ UNCHANGED <<bsy, queue, config, fresh>>

-----------------------------------------------------------------------------
(* Steps of a run: checkTmpDir, the postponed tickets. *)

(* Defect: the ticket is moved without the link's .bsy file. *)
TmpParseUnlocked(r, j) ==
  /\ pc[r] = "tmp" /\ j \in work[r]
  /\ ticAt[j] = "busyDir"
  /\ work' = [work EXCEPT ![r] = @ \ {j}]
  /\ cur' = [cur EXCEPT ![r] = j]
  /\ Goto(r, "tmpMove")
  /\ UNCHANGED <<err, busy, lock, bsy, queue, config, fresh>>

(* readdir returns the next ticket and parseTic reads it. *)
TmpParse(r, j) ==
  /\ pc[r] = "tmp" /\ j \in work[r]
  /\ ticAt[j] = "busyDir"
  /\ work' = [work EXCEPT ![r] = @ \ {j}]
  /\ cur' = [cur EXCEPT ![r] = j]
  /\ Goto(r, "tmpLock")
  /\ UNCHANGED <<err, busy, lock, bsy, queue, config, fresh>>

(* A ticket that is not there any more cannot be opened and is skipped. *)
TmpSkip(r, j) ==
  /\ pc[r] = "tmp" /\ j \in work[r]
  /\ ticAt[j] # "busyDir"
  /\ work' = [work EXCEPT ![r] = @ \ {j}]
  /\ UNCHANGED <<pc, cur, err, busy, lock, bsy, queue, config, fresh>>

(* Defect: the .bsy file is removed although somebody else has created it. *)
TmpBusyRemoved(r) ==
  /\ pc[r] = "tmpLock"
  /\ bsy[cur[r][2]] # None
  /\ bsy' = [bsy EXCEPT ![cur[r][2]] = None]
  /\ Goto(r, "tmp")
  /\ cur' = [cur EXCEPT ![r] = None]
  /\ UNCHANGED <<work, err, busy, lock, queue, config, fresh>>

(* The link's .bsy file exists: the ticket stays for a later run. *)
TmpBusy(r) ==
  /\ pc[r] = "tmpLock"
  /\ bsy[cur[r][2]] # None
  /\ Goto(r, "tmp")
  /\ cur' = [cur EXCEPT ![r] = None]
  /\ UNCHANGED <<work, err, busy, lock, bsy, queue, config, fresh>>

(* Defect: when there is no file area the loop goes on at once. *)
TmpLockContinue(r) ==
  LET known == cur[r][1] \notin noArea IN
  /\ pc[r] = "tmpLock"
  /\ bsy[cur[r][2]] = None
  /\ bsy' = [bsy EXCEPT ![cur[r][2]] = r]
  /\ Goto(r, IF known THEN "tmpMove" ELSE "tmp")
  /\ cur' = IF known THEN cur ELSE [cur EXCEPT ![r] = None]
  /\ UNCHANGED <<work, err, busy, lock, queue, config, fresh>>

(* The .bsy file is created.  Without a file area of the ticket's name     *)
(* nothing is done under it.                                               *)
TmpLock(r) ==
  /\ pc[r] = "tmpLock"
  /\ bsy[cur[r][2]] = None
  /\ bsy' = [bsy EXCEPT ![cur[r][2]] = r]
  /\ Goto(r, IF cur[r][1] \in noArea THEN "tmpUnlock" ELSE "tmpMove")
  /\ UNCHANGED <<work, cur, err, busy, lock, queue, config, fresh>>

(* Defect: the ticket is copied. *)
TmpMoveCopied(r) ==
  /\ pc[r] = "tmpMove"
  /\ Goto(r, "tmpFlo")
  /\ UNCHANGED <<work, cur, err, busy, lock, bsy, queue, config, fresh>>

(* The ticket is moved to ticOutbound; for a noTIC link it is removed.  A  *)
(* ticket that is not there is only logged.                                *)
TmpMove(r) ==
  LET j == cur[r] IN
  /\ pc[r] = "tmpMove"
  /\ ticAt' = IF ticAt[j] = "busyDir"
                THEN [ticAt EXCEPT ![j] = IF j[2] \in noTic THEN "off" ELSE "outDir"]
                ELSE ticAt
  /\ Goto(r, "tmpFlo")
  /\ UNCHANGED <<work, cur, err, busy, lock, bsy, flo, box, sent, config, fresh>>

(* move_file fails: `error` is set, and never reset. *)
TmpMoveFail(r) ==
  LET j == cur[r] IN
  /\ pc[r] = "tmpMove" /\ "moveTic" \in Faults
  /\ j[2] \notin noTic /\ ticAt[j] = "busyDir"
  /\ err' = [err EXCEPT ![r] = TRUE]
  /\ Goto(r, "tmpFlo")
  /\ UNCHANGED <<work, cur, busy, lock, bsy, queue, config, fresh>>

(* Defect: a failed move is not looked at. *)
TmpFloAnyway(r) ==
  /\ pc[r] = "tmpFlo"
  /\ flo' = [flo EXCEPT ![cur[r]] = @ + 1]
  /\ Goto(r, "tmpUnlock")
  /\ UNCHANGED <<work, cur, err, busy, lock, bsy, ticAt, box, sent, config, fresh>>

(* The file and its ticket are appended to the flow file, unless `error`   *)
(* has been set, for this ticket or for an earlier one.                    *)
TmpFlo(r) ==
  /\ pc[r] = "tmpFlo"
  /\ flo' = IF err[r] THEN flo ELSE [flo EXCEPT ![cur[r]] = @ + 1]
  /\ Goto(r, "tmpUnlock")
  /\ UNCHANGED <<work, cur, err, busy, lock, bsy, ticAt, box, sent, config, fresh>>

TmpUnlock(r) ==
  /\ pc[r] = "tmpUnlock"
  /\ bsy' = [bsy EXCEPT ![cur[r][2]] = None]
  /\ Goto(r, "tmp")
  /\ cur' = [cur EXCEPT ![r] = None]
  /\ UNCHANGED <<work, err, busy, lock, queue, config, fresh>>

TmpEnd(r) ==
  /\ pc[r] = "tmp" /\ work[r] = {}
  /\ Goto(r, "main")
  /\ UNCHANGED <<work, cur, err, busy, lock, bsy, queue, config, fresh>>

-----------------------------------------------------------------------------
(* Steps of a run: sendToLinks calls PutFileOnLink for each downlink. *)

(* A file is tossed or hatched into its area and is to be forwarded. *)
SendFile(r, f) ==
  /\ pc[r] = "main" /\ f \in fresh \ noArea
  /\ fresh' = fresh \ {f}
  /\ work' = [work EXCEPT ![r] = {f} \X Links]
  /\ Goto(r, "put")
  /\ UNCHANGED <<cur, err, busy, lock, bsy, queue, config>>

(* createOutboundFileNameAka has created the .bsy file and returned 0. *)
PutLock(r, j) ==
  /\ pc[r] = "put" /\ j \in work[r]
  /\ bsy[j[2]] = None
  /\ bsy' = [bsy EXCEPT ![j[2]] = r]
  /\ busy' = [busy EXCEPT ![r] = FALSE]
  /\ work' = [work EXCEPT ![r] = @ \ {j}]
  /\ cur' = [cur EXCEPT ![r] = j]
  /\ Goto(r, "putTic")
  /\ UNCHANGED <<err, lock, queue, config, fresh>>

(* Defect: a busy link is passed over. *)
PutBusySkipped(r, j) ==
  /\ pc[r] = "put" /\ j \in work[r]
  /\ bsy[j[2]] # None
  /\ work' = [work EXCEPT ![r] = @ \ {j}]
  /\ UNCHANGED <<pc, cur, err, busy, lock, bsy, queue, config, fresh>>

(* There was a .bsy file: it returned 1 and `busy` is set. *)
PutBusy(r, j) ==
  /\ pc[r] = "put" /\ j \in work[r]
  /\ bsy[j[2]] # None
  /\ busy' = [busy EXCEPT ![r] = TRUE]
  /\ work' = [work EXCEPT ![r] = @ \ {j}]
  /\ cur' = [cur EXCEPT ![r] = j]
  /\ Goto(r, "putTic")
  /\ UNCHANGED <<err, lock, bsy, queue, config, fresh>>

(* Defect: the ticket does not depend on the link being busy. *)
TicDirIdle(r, l) == IF l \in FileBox THEN "box" ELSE "outDir"

(* Where PutFileOnLink writes the ticket. *)
TicDir(r, l) == CASE l \in FileBox -> "box"
                  [] l \notin FileBox /\ busy[r] -> "busyDir"
                  [] OTHER -> "outDir"

(* No ticket for a noTIC link. *)
PutNoTic(r) ==
  LET j == cur[r] IN
  /\ pc[r] = "putTic" /\ j[2] \in noTic
  /\ ticAt' = [ticAt EXCEPT ![j] = "off"]
  /\ Goto(r, "putFile")
  /\ UNCHANGED <<work, cur, err, busy, lock, bsy, flo, box, sent, config, fresh>>

PutTic(r) ==
  LET j == cur[r] IN
  /\ pc[r] = "putTic" /\ j[2] \notin noTic
  /\ ticAt' = [ticAt EXCEPT ![j] = TicDir(r, j[2])]
  /\ Goto(r, "putFile")
  /\ UNCHANGED <<work, cur, err, busy, lock, bsy, flo, box, sent, config, fresh>>

(* writeTic failed: the ticket is tossed into busyFileDir and the flow     *)
(* file is not to be touched.                                              *)
PutTicPostpone(r) ==
  LET j == cur[r] IN
  /\ pc[r] = "putTic" /\ j[2] \notin noTic /\ "writeTic" \in Faults
  /\ ticAt' = [ticAt EXCEPT ![j] = "busyDir"]
  /\ busy' = [busy EXCEPT ![r] = TRUE]
  /\ Goto(r, "putFile")
  /\ UNCHANGED <<work, cur, err, lock, bsy, flo, box, sent, config, fresh>>

(* It failed there as well: return 0. *)
PutTicFail(r) ==
  LET j == cur[r] IN
  /\ pc[r] = "putTic" /\ j[2] \notin noTic /\ "writeTic" \in Faults
  /\ cur' = [cur EXCEPT ![r] = None]
  /\ busy' = [busy EXCEPT ![r] = FALSE]
  /\ Goto(r, "put")
  /\ UNCHANGED <<work, err, lock, bsy, queue, config, fresh>>

(* The file is put in the file box, unless the ticket went to busyFileDir. *)
PutBox(r) ==
  LET j == cur[r] IN
  /\ pc[r] = "putFile" /\ j[2] \in FileBox
  /\ box' = IF ticAt[j] = "busyDir" THEN box ELSE box \cup {j}
  /\ Goto(r, "putUnlock")
  /\ UNCHANGED <<work, cur, err, busy, lock, bsy, ticAt, flo, sent, config, fresh>>

(* The copy into the file box failed. *)
PutBoxFail(r) ==
  LET j == cur[r] IN
  /\ pc[r] = "putFile" /\ j[2] \in FileBox
  /\ "copyBox" \in Faults /\ ticAt[j] # "busyDir"
  /\ Goto(r, "putUnlock")
  /\ UNCHANGED <<work, cur, err, busy, lock, bsy, queue, config, fresh>>

(* Defect: the flow file is written although the link is busy. *)
PutFloBusy(r) ==
  LET j == cur[r] IN
  /\ pc[r] = "putFile" /\ j[2] \notin FileBox
  /\ flo' = [flo EXCEPT ![j] = @ + 1]
  /\ Goto(r, "putUnlock")
  /\ UNCHANGED <<work, cur, err, busy, lock, bsy, ticAt, box, sent, config, fresh>>

(* The file and its ticket are appended to the flow file of a free link. *)
PutFlo(r) ==
  LET j == cur[r] IN
  /\ pc[r] = "putFile" /\ j[2] \notin FileBox
  /\ flo' = IF busy[r] THEN flo ELSE [flo EXCEPT ![j] = @ + 1]
  /\ Goto(r, "putUnlock")
  /\ UNCHANGED <<work, cur, err, busy, lock, bsy, ticAt, box, sent, config, fresh>>

(* The .bsy file is removed only when busy is still 0. *)
PutUnlock(r) ==
  LET l == cur[r][2] IN
  /\ pc[r] = "putUnlock"
  /\ bsy' = IF busy[r] THEN bsy ELSE [bsy EXCEPT ![l] = None]
  /\ cur' = [cur EXCEPT ![r] = None]
  /\ busy' = [busy EXCEPT ![r] = FALSE]
  /\ Goto(r, "put")
  /\ UNCHANGED <<work, err, lock, queue, config, fresh>>

EndFile(r) ==
  /\ pc[r] = "put" /\ work[r] = {}
  /\ Goto(r, "main")
  /\ UNCHANGED <<work, cur, err, busy, lock, bsy, queue, config, fresh>>

-----------------------------------------------------------------------------
(* The mailer and the operator. *)

MailerLock(l) ==
  /\ bsy[l] = None
  /\ bsy' = [bsy EXCEPT ![l] = Mailer]
  /\ UNCHANGED <<local, lock, queue, config, fresh>>

(* A session sends what the flow file lists: the file, then the ticket,    *)
(* which is killed after transmission if it is there.                      *)
MailerSend(j) ==
  /\ bsy[j[2]] = Mailer
  /\ flo[j] > 0
  /\ flo' = [flo EXCEPT ![j] = @ - 1]
  /\ sent' = [sent EXCEPT ![j] = @ + 1]
  /\ ticAt' = IF ticAt[j] = "outDir" THEN [ticAt EXCEPT ![j] = "sent"] ELSE ticAt
  /\ UNCHANGED <<local, lock, bsy, box, config, fresh>>

(* A session sends what it finds in the file box. *)
MailerBoxTic(j) ==
  /\ bsy[j[2]] = Mailer
  /\ ticAt[j] = "box"
  /\ ticAt' = [ticAt EXCEPT ![j] = "sent"]
  /\ UNCHANGED <<local, lock, bsy, flo, box, sent, config, fresh>>

MailerBoxFile(j) ==
  /\ bsy[j[2]] = Mailer
  /\ j \in box
  /\ box' = box \ {j}
  /\ sent' = [sent EXCEPT ![j] = @ + 1]
  /\ UNCHANGED <<local, lock, bsy, ticAt, flo, config, fresh>>

MailerUnlock(l) ==
  /\ bsy[l] = Mailer
  /\ bsy' = [bsy EXCEPT ![l] = None]
  /\ UNCHANGED <<local, lock, queue, config, fresh>>

(* Run r is between creating and removing the .bsy file of l. *)
Uses(r, l) ==
  /\ cur[r] # None /\ cur[r][2] = l
  /\ \/ pc[r] \in {"tmpMove", "tmpFlo", "tmpUnlock"}
     \/ pc[r] \in {"putTic", "putFile", "putUnlock"} /\ ~busy[r]

(* A .bsy file nobody uses is removed by hand or by the mailer. *)
RemoveStale(l) ==
  /\ Faults \cap {"crash", "writeTic"} # {}
  /\ \E r \in Runs : bsy[l] = r /\ ~Uses(r, l)
  /\ bsy' = [bsy EXCEPT ![l] = None]
  /\ UNCHANGED <<local, lock, queue, config, fresh>>

(* The configuration, which a run reads when it starts, is edited between  *)
(* runs.                                                                   *)
EditNoTic(l) ==
  /\ "config" \in Faults
  /\ \A r \in Runs : pc[r] = "idle"
  /\ noTic' = IF l \in noTic THEN noTic \ {l} ELSE noTic \cup {l}
  /\ UNCHANGED <<local, lock, bsy, queue, noArea, fresh>>

EditArea(f) ==
  /\ "config" \in Faults
  /\ \A r \in Runs : pc[r] = "idle"
  /\ noArea' = IF f \in noArea THEN noArea \ {f} ELSE noArea \cup {f}
  /\ UNCHANGED <<local, lock, bsy, queue, noTic, fresh>>

-----------------------------------------------------------------------------
(* One step of run r that htick itself takes. *)
RunStep(r) ==
  \/ Start(r) \/ TmpBusy(r) \/ TmpLock(r) \/ TmpMove(r) \/ TmpMoveFail(r)
  \/ TmpFlo(r) \/ TmpUnlock(r) \/ TmpEnd(r) \/ PutNoTic(r) \/ PutTic(r)
  \/ PutTicPostpone(r) \/ PutTicFail(r) \/ PutBox(r) \/ PutBoxFail(r)
  \/ PutFlo(r) \/ PutUnlock(r) \/ EndFile(r) \/ End(r) \/ ExitHtick(r)
  \/ \E j \in Job : TmpParse(r, j) \/ TmpSkip(r, j) \/ PutLock(r, j) \/ PutBusy(r, j)
  \/ \E f \in Files : SendFile(r, f)

MailerStep(l) == MailerLock(l) \/ MailerUnlock(l)

SendStep(j) == MailerSend(j) \/ MailerBoxTic(j) \/ MailerBoxFile(j)

OutsideStep ==
  \/ \E r \in Runs : Crash(r)
  \/ \E l \in Links : RemoveStale(l) \/ EditNoTic(l)
  \/ \E f \in Files : EditArea(f)

Next ==
  \/ \E r \in Runs : RunStep(r)
  \/ \E l \in Links : MailerStep(l)
  \/ \E j \in Job : SendStep(j)
  \/ OutsideStep

Spec == Init /\ [][Next]_vars

(* htick is started again and again and a started run goes on; sessions    *)
(* with every link come and end and get through what is queued; and a      *)
(* postponed ticket does not meet a busy link every single time.           *)
Fairness ==
  /\ WF_vars(\E r \in Runs : RunStep(r))
  /\ \A l \in Links : SF_vars(MailerLock(l)) /\ WF_vars(MailerUnlock(l))
  /\ \A j \in Job :
       /\ SF_vars(SendStep(j))
       /\ SF_vars(\E r \in Runs : cur[r] = j /\ TmpLock(r))
       /\ SF_vars(/\ \E r \in Runs : cur[r] = j /\ pc[r] = "tmpLock"
                  /\ MailerUnlock(j[2]))

FairSpec == Spec /\ Fairness

-----------------------------------------------------------------------------
(* Properties. *)

(* Two processes are never both between createOutboundFileNameAka and the  *)
(* removal of the .bsy file of one link, and the mailer is not in a        *)
(* session with that link: lines of a flow file are written by one         *)
(* process at a time, whatever crashes and whatever .bsy is left behind.   *)
BsyExclusive ==
  \A r \in Runs, l \in Links : Uses(r, l) => bsy[l] = r

(* A file listed in a flow file has its ticket in ticOutbound, or had it   *)
(* there when an earlier copy was sent, or the link takes no tickets.  The *)
(* mailer is thus never told to send a ticket that is still in             *)
(* busyFileDir or that was never written.                                  *)
TicBeforeFlo ==
  \A j \in Job : flo[j] > 0 => ticAt[j] \in {"outDir", "sent", "off"}

Copies(j) == flo[j] + sent[j] + (IF j \in box THEN 1 ELSE 0)

(* Postponed or not, through busyFileDir, the flow file or a file box: a   *)
(* job is queued or sent at most once.                                     *)
AtMostOnce ==
  \A j \in Job : Copies(j) <= 1 /\ (ticAt[j] = "busyDir" => Copies(j) = 0)

(* The .bsy file of a run that is not using the link any more would keep   *)
(* the mailer out of it.                                                   *)
NoStaleBsy ==
  \A r \in Runs, l \in Links : bsy[l] = r => Uses(r, l)

(* Some run has still to deal with job j in this run of the program. *)
InHand(j) ==
  \E r \in Runs :
    \/ cur[r] = j
    \/ pc[r] \in {"put", "putTic", "putFile", "putUnlock"} /\ j \in work[r]

(* Once a file has been taken, each of its jobs is in hand, postponed with *)
(* a ticket, queued or sent; excepted are the links with noTIC, for which  *)
(* a busy link leaves no trace of the job.                                 *)
AcceptedNotLost ==
  \A j \in Job : j[1] \notin fresh /\ ticAt[j] # "off" =>
    InHand(j) \/ ticAt[j] = "busyDir" \/ Copies(j) > 0

(* Every ticket in ticOutbound is about to be listed or is listed in the   *)
(* flow file that makes the mailer send and kill it.                       *)
OutReferenced ==
  \A j \in Job : ticAt[j] = "outDir" => flo[j] > 0 \/ InHand(j)

(* The lock file makes runs follow one another. *)
OneRun ==
  UseLockFile => \A r \in Runs : pc[r] # "idle" => lock = r

(* A ticket leaves busyFileDir only in the hands of a run that holds the   *)
(* link's .bsy file.                                                       *)
PostponedMovedUnderBsy ==
  [][\A j \in Job : ticAt[j] = "busyDir" /\ ticAt'[j] # "busyDir"
       => \E r \in Runs : bsy[j[2]] = r /\ Uses(r, j[2])]_vars

(* Once its ticket is written - into a file box, the outbound or, for a    *)
(* busy link, busyFileDir - a job is eventually sent, if its area and the  *)
(* link's tickets stay configured from some time on, however often they    *)
(* have been switched off and on before.                                   *)
Delivered ==
  \A j \in Job :
    <>[](j[1] \notin noArea /\ j[2] \notin noTic) =>
      (ticAt[j] \in {"busyDir", "outDir", "box"} ~> (sent[j] > 0))

Abstract == INSTANCE Delivery WITH
  accepted <- Files \ fresh,
  delivered <- sent

(* Outbound implements Delivery: nothing is sent that was not taken, and   *)
(* nothing is sent twice.                                                  *)
ImplementsDelivery == Abstract!Spec
=============================================================================
