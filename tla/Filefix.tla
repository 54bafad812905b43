------------------------------ MODULE Filefix -------------------------------
(***************************************************************************)
(* The filefix robot: htick ffix looks through the netmail area for        *)
(* requests, executes their commands on the link's subscription and marks  *)
(* or kills them (scanNMArea of scan.c; processFileFix, filefix_tellcmd,   *)
(* filefix_processcmd, resend and ffix of htickafix.c), while mail goes on *)
(* arriving and a run may die at any step.                                 *)
(*                                                                         *)
(* Mails are numbered as they arrive.  A message base is a sequence of     *)
(* slots: *.msg bases keep the number of a killed message free, Squish     *)
(* renumbers.  New mail is numbered upwards, which is left to the smapi    *)
(* library; subscribe, unsubscribe, pause and resume are the areafix       *)
(* library's and write fidoconfig at once.                                 *)
(***************************************************************************)
EXTENDS FileAccess, SequencesExt

CONSTANTS
  Setups,     \* [sysop, base, kill, stripFirst, manual]
  Mails,      \* the mails that may arrive: [from, dest, robot, password, lines]
  MaxMail,    \* bound: mails
  MaxCrashes  \* bound: runs that die

Lines == {"area", "plusArea", "plus", "minusArea", "query", "pause", "resume", "info",
          "resend", "resendNothing", "percent", "ignored"}

LineType == [text : Lines, indented : BOOLEAN]

MailType == [from : {"link", "unknown"}, dest : {"our", "aka", "away"},
             robot : BOOLEAN, password : BOOLEAN,
             lines : Seq(LineType)]

ASSUME FilefixAssumption ==
  /\ Setups \subseteq [sysop : BOOLEAN, base : {"msg", "squish"}, kill : BOOLEAN,
                       stripFirst : BOOLEAN, manual : BOOLEAN]
  /\ Mails \subseteq MailType
  /\ MaxMail \in Nat /\ MaxCrashes \in Nat

VARIABLES
  setup,    \* the configuration
  sent,     \* the mails in the order of their arrival
  base,     \* the netmail area: slots [no, read] or Hole
  i, high,  \* scanNMArea's loop variable (0: no mail, htick ffix) and highMsg
  pc,       \* where the run is; "idle" between runs
  todo,     \* lines of the request still to be executed
  report,   \* whether processFileFix has text for the reply at the end
  result,   \* what processFileFix returned
  done,     \* by mail: [starts, ends, replies, resent]
  crashes,  \* runs that have died
  byHand,   \* htick ffix <addr> <command> was used
  behind    \* a mail has come into a slot that the run in progress had passed

mvars == <<sent, base, done, crashes, byHand, behind>>
rvars == <<i, high, pc, todo, report, result>>
vars == <<avars, setup, mvars, rvars>>

(* A free slot; mails are numbered from 1. *)
Hole == [no |-> 0, read |-> TRUE]

Steps == {"idle", "look", "exec", "mark", "kill"}

-----------------------------------------------------------------------------
(* The commands. *)

(* filefix_tellcmd, by the form of a line; "query" stands for %list,       *)
(* %help, %unlinked, %linked, %query and %avail, "ignored" for an origin   *)
(* line, a kludge and an empty line.                                       *)
Tellcmd(text) ==
  CASE text \in {"area", "plusArea"} -> "ADD"
    [] text = "minusArea" -> "DEL"
    [] text = "query" -> "LIST"
    [] text = "pause" -> "PAUSE"
    [] text = "resume" -> "RESUME"
    [] text = "info" -> "INFO"
    [] text \in {"resend", "resendNothing"} -> "RESEND"
    [] text \in {"plus", "percent"} -> "FFERROR"
    [] text = "ignored" -> "NOTHING"

(* The arguments of filefix_processcmd are stripLeadingChars(token) and    *)
(* filefix_tellcmd(token), which both write to token; C leaves their order *)
(* open.  filefix_tellcmd cuts an indented line down to nothing, unless    *)
(* the blanks are stripped first.                                          *)
CommandOf(line) ==
  IF line.indented /\ ~setup.stripFirst THEN "NOTHING" ELSE Tellcmd(line.text)

(* Answered at once; the others are collected in one reply. *)
AtOnce == {"LIST", "PAUSE", "RESUME", "RESEND"}
Collected == {"ADD", "DEL", "FFERROR"}

MaySubscribe ==
  GroupCheck(TRUE) = Ok /\ area.levelread <= link.level /\ ~setup.manual

(* What a command leaves of [linked, pause]. *)
Effect(state, command) ==
  CASE command = "ADD" /\ MaySubscribe -> [state EXCEPT !.linked = TRUE]
    [] command = "DEL" -> [state EXCEPT !.linked = FALSE]
    [] command = "PAUSE" -> [state EXCEPT !.pause = TRUE]
    [] command = "RESUME" -> [state EXCEPT !.pause = FALSE]
    [] OTHER -> state

Subscription == [linked |-> sub.linked, pause |-> link.pause]

SetSubscription(state) ==
  /\ link' = [link EXCEPT !.pause = state.pause]
  /\ sub' = [sub EXCEPT !.linked = state.linked]

(* resend: a manual area's files only to its downlinks. *)
Resends(line) ==
  /\ CommandOf(line) = "RESEND" /\ line.text = "resend"
  /\ setup.manual => sub.linked

-----------------------------------------------------------------------------
(* Mail arrives. *)

Init ==
  /\ setup \in Setups
  /\ AccessInit /\ (~setup.sysop => area.group = NoGroup /\ ~area.others /\ ~area.noPause)
  /\ sent = <<>> /\ base = <<>> /\ done = <<>>
  /\ crashes = 0 /\ byHand = FALSE /\ behind = FALSE
  /\ i = 1 /\ high = 0 /\ pc = "idle" /\ todo = <<>> /\ report = FALSE /\ result = 1

(* The tosser writes to the netmail area while htick may be reading it.  A *)
(* Squish base can have become shorter than the run has come.              *)
Arrive ==
  /\ ~setup.sysop /\ Len(sent) < MaxMail
  /\ \E m \in Mails :
       /\ sent' = Append(sent, m)
       /\ base' = Append(base, [no |-> Len(sent) + 1, read |-> FALSE])
       /\ done' = Append(done, [starts |-> 0, ends |-> 0, replies |-> 0, resent |-> 0])
  /\ behind' = (behind \/ Len(base) + 1 < i)
  /\ UNCHANGED <<avars, setup, rvars, crashes, byHand>>

-----------------------------------------------------------------------------
(* A run: scanNMArea. *)

(* The run is over, and its variables with it. *)
Ended ==
  /\ i' = 1 /\ high' = 0 /\ pc' = "idle"
  /\ todo' = <<>> /\ report' = FALSE /\ result' = 1

Mail(k) == sent[base[k].no]

(* Defect: read messages are taken for new. *)
ForUsAgain(k) ==
  /\ k <= Len(base) /\ base[k].no > 0
  /\ Mail(k).robot /\ Mail(k).dest \in {"our", "aka"}

(* A message is there, for the robot's name and one of our addresses, and  *)
(* it has not been read.                                                   *)
ForUs(k) ==
  /\ k <= Len(base) /\ base[k].no > 0
  /\ Mail(k).robot /\ Mail(k).dest \in {"our", "aka"} /\ ~base[k].read

(* Mail of a known link to another address of ours than ourAka: left       *)
(* alone, processFileFix returns 2.                                        *)
NotForMe(m) == m.from = "link" /\ m.dest # "our"

Trusted(m) == m.from = "link" /\ m.password

(* Defect: the loop ends before the last message. *)
StartShort ==
  /\ pc = "idle" /\ ~setup.sysop /\ base # <<>>
  /\ pc' = "look" /\ i' = 1 /\ high' = Len(base) - 1
  /\ UNCHANGED <<avars, setup, mvars, todo, report, result>>

Start ==
  /\ pc = "idle" /\ ~setup.sysop
  /\ pc' = "look" /\ i' = 1 /\ high' = Len(base)
  /\ UNCHANGED <<avars, setup, mvars, todo, report, result>>

Skip ==
  /\ pc = "look" /\ i <= high
  /\ ~(ForUs(i) /\ ~NotForMe(Mail(i)))
  /\ i' = i + 1
  /\ UNCHANGED <<avars, setup, mvars, high, pc, todo, report, result>>

(* Added to the books of the mail at slot k; htick ffix has none, k = 0.   *)
Note(k, starts, ends, replies, resent) ==
  IF k = 0 THEN UNCHANGED done
  ELSE done' = [done EXCEPT ![base[k].no] =
                 [starts |-> @.starts + starts, ends |-> @.ends + ends,
                  replies |-> @.replies + replies, resent |-> @.resent + resent]]

(* The security check: the mail is answered and counts as handled. *)
Refuse ==
  /\ pc = "look" /\ i <= high
  /\ ForUs(i) /\ ~NotForMe(Mail(i)) /\ ~Trusted(Mail(i))
  /\ Note(i, 1, 1, 1, 0)
  /\ pc' = "mark" /\ result' = 0
  /\ UNCHANGED <<avars, setup, sent, base, crashes, byHand, behind, i, high, todo, report>>

Request ==
  /\ pc = "look" /\ i <= high
  /\ ForUs(i) /\ ~NotForMe(Mail(i)) /\ Trusted(Mail(i))
  /\ Note(i, 1, 0, 0, 0)
  /\ pc' = "exec" /\ todo' = Mail(i).lines /\ report' = FALSE
  /\ UNCHANGED <<avars, setup, sent, base, crashes, byHand, behind, i, high, result>>

(* One line: filefix_processcmd and the answer to it. *)
Exec ==
  /\ pc = "exec" /\ todo # <<>>
  /\ LET command == CommandOf(Head(todo))
     IN  /\ SetSubscription(Effect(Subscription, command))
         /\ Note(i, 0, 0, IF command \in AtOnce THEN 1 ELSE 0,
                    IF Resends(Head(todo)) THEN 1 ELSE 0)
         /\ report' = (report \/ command \in Collected)
  /\ todo' = Tail(todo)
  /\ UNCHANGED <<area, setup, sent, base, crashes, byHand, behind, i, high, pc, result>>

EndExec ==
  /\ pc = "exec" /\ todo = <<>>
  /\ Note(i, 0, 1, IF report THEN 1 ELSE 0, 0)
  /\ IF i = 0 THEN Ended
     ELSE /\ pc' = "mark" /\ result' = 1 /\ report' = FALSE
          /\ UNCHANGED <<i, high, todo>>
  /\ UNCHANGED <<avars, setup, sent, base, crashes, byHand, behind>>

(* Attribute MSGREAD, and on to the next message. *)
Mark ==
  /\ pc = "mark"
  /\ base' = [base EXCEPT ![i] = [no |-> @.no, read |-> TRUE]]
  /\ IF setup.kill /\ result = 1
       THEN pc' = "kill" /\ UNCHANGED i
       ELSE pc' = "look" /\ i' = i + 1
  /\ UNCHANGED <<avars, setup, sent, done, crashes, byHand, behind, high, todo, report, result>>

Without(k) ==
  IF setup.base = "squish" THEN RemoveAt(base, k) ELSE [base EXCEPT ![k] = Hole]

(* Defect: the message that follows is passed over. *)
KillSkipping ==
  /\ pc = "kill"
  /\ base' = Without(i) /\ pc' = "look" /\ i' = i + 1
  /\ UNCHANGED <<avars, setup, sent, done, crashes, byHand, behind, high, todo, report, result>>

(* --i, and the loop's ++i: the number is looked at again, for a Squish    *)
(* base has moved the messages up.  high stays what it was.                *)
Kill ==
  /\ pc = "kill"
  /\ base' = Without(i) /\ pc' = "look"
  /\ UNCHANGED <<avars, setup, sent, done, crashes, byHand, behind, i, high, todo, report, result>>

Finish ==
  /\ pc = "look" /\ i > high
  /\ Ended
  /\ UNCHANGED <<avars, setup, mvars>>

(* Between runs, the sysop gives a command in the link's name: ffix makes  *)
(* a message with the link's password and processes it.  Bound: once, when *)
(* the last mail has arrived.                                              *)
Ffix ==
  /\ pc = "idle" /\ ~setup.sysop /\ ~byHand /\ Len(sent) = MaxMail
  /\ \E m \in Mails :
       /\ Trusted(m)
       /\ todo' = m.lines /\ report' = FALSE /\ i' = 0 /\ pc' = "exec"
  /\ byHand' = TRUE
  /\ UNCHANGED <<avars, setup, sent, base, done, crashes, behind, high, result>>

Crash ==
  /\ pc # "idle" /\ crashes < MaxCrashes
  /\ crashes' = crashes + 1
  /\ Ended
  /\ UNCHANGED <<avars, setup, sent, base, done, byHand, behind>>

(* In a setup of its own the sysop tries every setting. *)
Edit == setup.sysop /\ EditStep /\ UNCHANGED <<setup, mvars, rvars>>

Scan == Start \/ Skip \/ Refuse \/ Request \/ Exec \/ EndExec \/ Mark \/ Kill \/ Finish

Next == Arrive \/ Scan \/ Ffix \/ Crash \/ Edit

Spec == Init /\ [][Next]_vars

(* htick ffix is started again and again and goes on while it runs.        *)
FairSpec == Spec /\ WF_vars(Scan)

-----------------------------------------------------------------------------
(* Properties. *)

SlotType == [no : 0 .. Len(sent), read : BOOLEAN]
DoneType == [starts : Nat, ends : Nat, replies : Nat, resent : Nat]

TypeOK ==
  /\ AccessTypeOK /\ setup \in Setups
  /\ sent \in Seq(Mails) /\ Len(sent) <= MaxMail
  /\ base \in Seq(SlotType)
  /\ done \in Seq(DoneType)
  /\ Len(done) = Len(sent)
  /\ i \in Nat /\ high \in Nat
  /\ pc \in Steps /\ todo \in Seq(LineType)
  /\ report \in BOOLEAN /\ result \in {0, 1}
  /\ crashes \in 0 .. MaxCrashes /\ byHand \in BOOLEAN /\ behind \in BOOLEAN
  /\ pc \in {"look", "mark", "kill"} => i > 0
  /\ pc \in {"exec", "mark", "kill"} /\ i > 0 => i <= Len(base) /\ base[i].no > 0

Slots(n) == {k \in DOMAIN base : base[k].no = n}
Present(n) == Slots(n) # {}
Read(n) == \E k \in Slots(n) : base[k].read

ForRobot(m) == m.robot /\ m.dest \in {"our", "aka"} /\ ~NotForMe(m)

(* Nobody else's mail is touched. *)
OthersUntouched ==
  \A n \in DOMAIN sent :
    ~ForRobot(sent[n]) => Present(n) /\ ~Read(n) /\ done[n].starts = 0

(* A request is marked or killed only after its commands have been         *)
(* executed and answered, and only what was not refused is killed.         *)
AnsweredFirst ==
  \A n \in DOMAIN sent :
    /\ Read(n) \/ ~Present(n) => done[n].ends > 0
    /\ ~Present(n) => setup.kill /\ Trusted(sent[n])

(* No message is there twice, or executed again unless a run died. *)
NotAgain ==
  \A n \in DOMAIN sent :
    /\ \A j, k \in Slots(n) : j = k
    /\ done[n].starts <= 1 + crashes

(* Every request is executed and answered before it is put away, and not   *)
(* again afterwards; other mail stays as it is.                            *)
HandledOnce == OthersUntouched /\ AnsweredFirst /\ NotAgain

Pending == {n \in DOMAIN sent : ForRobot(sent[n]) /\ Present(n) /\ ~Read(n)}

EffectOfAll(state, lines) ==
  FoldLeft(LAMBDA s, line : Effect(s, CommandOf(line)), state, lines)

(* How many replies a request gets. *)
RepliesTo(m) ==
  IF ~Trusted(m) THEN 1
  ELSE LET Those(set) == {k \in DOMAIN m.lines : CommandOf(m.lines[k]) \in set}
       IN  Cardinality(Those(AtOnce)) + (IF Those(Collected) = {} THEN 0 ELSE 1)

(* What the requests ask for, one after the other. *)
Wanted ==
  FoldLeft(LAMBDA s, m : IF ForRobot(m) /\ Trusted(m) THEN EffectOfAll(s, m.lines) ELSE s,
           [linked |-> FALSE, pause |-> FALSE], sent)

LastWordCounts ==
  pc = "idle" /\ Pending = {} /\ ~setup.sysop /\ ~byHand /\ ~behind =>
    Subscription = Wanted

RightReplies ==
  \A n \in DOMAIN sent :
    done[n].starts = 1 /\ done[n].ends = 1 => done[n].replies = RepliesTo(sent[n])

(* When all requests are handled, the subscription is what they ask for in *)
(* the order in which they were sent, crashes or not, unless a mail has    *)
(* come into a slot that the run had passed (the next mail overtakes it);  *)
(* and every request has got the replies it is due.                        *)
Obeyed == LastWordCounts /\ RightReplies

(* Every request is answered in the end and is not looked at again.        *)
Answered == (Pending # {}) ~> (Pending = {})
=============================================================================
