------------------------------ MODULE Catalog -------------------------------
(***************************************************************************)
(* What htick tells about the files it stores: their descriptions in       *)
(* files.bbs, the file list, and the announcements of new files.           *)
(*                                                                         *)
(* Runs of htick execute toss, hatch, filelist and announce, in the order  *)
(* of main (htick.c), with or without a lock file.  A file that is stored  *)
(* (sendToLinks of toss.c) leaves a cut-down ticket in the announce spool  *)
(* and gets a new entry in the files.bbs of its directory (add_desc.c);    *)
(* filelist.c lists the directory and tidies files.bbs; report.c posts the *)
(* tickets of the spool and removes them.  A run may die at any step.      *)
(*                                                                         *)
(* There is one area with a directory; the others are passthrough and only *)
(* matter to the announcements.  Which files are stored, replaced and sent *)
(* is the subject of Toss and Store.  Here storing succeeds; Home is not a *)
(* rename area and no ticket has an AltFile line, for which the entry in   *)
(* files.bbs would have that other name.                                   *)
(***************************************************************************)
EXTENDS Descriptions, BigSize, TLC

CONSTANTS
  Runs,        \* runs of htick that may be active at the same time: 1 .. n
  Areas,       \* file areas in the order of their names, Home among them
  Home,        \* the area that has a directory
  FileOrder,   \* the files in the order of their names
  Size,        \* their sizes; that of files.bbs.tmp does not matter
  Tmp,         \* the name of files.bbs.tmp
  Setups,      \* [lock, spool, mark, commands, tickets, hatches, defs, limit];
               \* limit is a bound: files stored
  Word,        \* sizes of one area are added modulo Word (2^32 in the build)
  MaxFaults    \* bound: runs that die and report files that cannot be written

Commands == {"toss", "hatch", "filelist", "announce"}

\* desc, ldesc: from the ticket; diz: file_id.diz of the archive; again:
\* hatched with the description it had.
TicketType == [file : Files \ {Tmp}, area : Range(Areas), again : BOOLEAN,
               desc : Seq(Texts), ldesc : Seq(Texts), diz : Seq(Texts)]
HatchType == [desc : HatchTexts, ldesc : HatchTexts]

(* incl, excl: the areas that the masks match; masks: there is an include  *)
(* mask; toFile: the report goes to a file ('@').                          *)
DefType == [masks : BOOLEAN, incl : SUBSET Range(Areas), excl : SUBSET Range(Areas),
            toFile : BOOLEAN]

ASSUME CatalogAssumption ==
  /\ Runs \subseteq Nat /\ Home \in Range(Areas)
  /\ Areas \in Seq(Range(Areas)) /\ FileOrder \in Seq(Files) /\ Range(FileOrder) = Files
  /\ Size \in [Files -> Nat] /\ Tmp \in Files
  /\ \A s \in Setups :
       /\ s.lock \in {"none", "file", "advisory"} /\ s.spool \in BOOLEAN /\ s.mark \in Marks
       /\ s.commands \subseteq SUBSET Commands \ {{}}
       /\ s.tickets \subseteq TicketType /\ (\A t \in s.tickets : ~t.again)
       /\ s.hatches \subseteq HatchType
       /\ s.defs \in Seq(DefType) /\ s.limit \in Nat
  /\ Word \in Nat \ {0} /\ MaxFaults \in Nat

VARIABLES
  setup,    \* the configuration
  known,    \* the areas in the configuration
  lock,     \* whether the lock file is there
  dir,      \* the files in Home's directory
  bbs,      \* its files.bbs
  tmp,      \* files.bbs.tmp, NoTmp if there is none
  told,     \* by file: the description last given, Unclear if none was
  tickets,  \* the files stored or to be stored, in the order of their arrival
  inbox,    \* those that wait in the inbound directory
  report,   \* by ticket: its cut-down copy in the announce spool
  posted,   \* by ticket: how often each definition has posted it
  unwritten,\* tickets whose report went to a file that could not be written
  faults,   \* runs that have died, report files that were not written
  pc, cmds, \* by run: where it is, and the commands it still has to execute
  now,      \* by run: the ticket being stored
  todo,     \* by run: tickets left to toss, or files left to list
  tree,     \* by run: the descriptions filelist read
  list,     \* by run: the file list
  gone,     \* by run: missing files whose entries filelist removes
  snap,     \* by run: the sorted tickets of the spool
  def,      \* by run: the next definition
  marked,   \* by run: tickets it has reported
  message   \* by run: the report just made

world == <<setup, known, dir, inbox, tickets>>
texts == <<bbs, tmp, told>>
spools == <<report, posted, unwritten>>
tossing == <<now, todo>>
listing == <<tree, list, gone>>
posting == <<snap, def, marked, message>>
vars == <<world, texts, spools, lock, faults, pc, cmds, tossing, listing, posting>>

NoTmp == [exists |-> FALSE, lines |-> <<>>]
Unclear == <<>>
NoList == [entries |-> {}, size |-> ZeroSize]
NoMessage == [parts |-> <<>>, size |-> ZeroSize, number |-> 0]

Pos(seq, e) == CHOOSE k \in DOMAIN seq : seq[k] = e

Goto(r, step) == pc' = [pc EXCEPT ![r] = step]
After(r) == IF cmds[r] = {} THEN "end" ELSE "main"

-----------------------------------------------------------------------------
(* Storing a file. *)

(* The description that sendToLinks passes on: the long one, that of the   *)
(* archive (only for a tossed file), or the short one.                     *)
Described(t) == IF t.ldesc # <<>> THEN t.ldesc ELSE IF t.diz # <<>> THEN t.diz ELSE t.desc

HasDir(n) == tickets[n].area = Home

(* The file is put into the area first. *)
Put(r, n) ==
  /\ now' = [now EXCEPT ![r] = n]
  /\ dir' = IF tickets'[n].area = Home THEN dir \cup {tickets'[n].file} ELSE dir
  /\ Goto(r, IF setup.spool THEN "save"
             ELSE IF tickets'[n].area = Home THEN "copy" ELSE "stored")

Toss(r) ==
  /\ pc[r] = "main" /\ "toss" \in cmds[r]
  /\ cmds' = [cmds EXCEPT ![r] = @ \ {"toss"}]
  /\ todo' = [todo EXCEPT ![r] = inbox]
  /\ Goto(r, "toss")
  /\ UNCHANGED <<world, texts, spools, lock, faults, now, listing, posting>>

TossOne(r, n) ==
  /\ pc[r] = "toss" /\ n \in todo[r]
  /\ todo' = [todo EXCEPT ![r] = @ \ {n}]
  /\ IF n \in inbox
     THEN inbox' = inbox \ {n} /\ UNCHANGED tickets /\ Put(r, n)
     ELSE UNCHANGED <<inbox, tickets, dir, now, pc>>
  /\ UNCHANGED <<setup, known, texts, spools, lock, faults, cmds, listing, posting>>

EndToss(r) ==
  /\ pc[r] = "toss" /\ todo[r] = {}
  /\ Goto(r, After(r))
  /\ UNCHANGED <<world, texts, spools, lock, faults, cmds, tossing, listing, posting>>

(* htick hatch in the directory of the area, of a file that is there: the  *)
(* macros are expanded from files.bbs, nothing is copied.                  *)
Hatch(r, f, h) ==
  /\ pc[r] = "main" /\ "hatch" \in cmds[r] /\ "toss" \notin cmds[r]
  /\ cmds' = [cmds EXCEPT ![r] = @ \ {"hatch"}]
  /\ IF f \in dir /\ Len(tickets) < setup.limit
     THEN LET found == GetDesc(bbs, f)
              ldesc == ExpandLDesc(h.ldesc, found)
              used == IF ldesc = <<>> THEN h.desc ELSE h.ldesc
          IN  /\ tickets' = Append(tickets, [file |-> f, area |-> Home, diz |-> <<>>,
                                             desc |-> ExpandDesc(h.desc, found), ldesc |-> ldesc,
                                             again |-> used # <<>> /\ used[1] = "@BBS"])
              /\ Put(r, Len(tickets'))
     ELSE /\ Goto(r, "stored")
          /\ UNCHANGED <<tickets, dir, now>>
  /\ UNCHANGED <<setup, known, inbox, texts, spools, lock, faults, todo, listing, posting>>

(* doSaveTic4Report: the copy is created, and has its text once closed; it *)
(* may not be possible to create it.                                       *)
Save(r) ==
  /\ pc[r] = "save"
  /\ \/ /\ report' = [report EXCEPT ![now[r]] = "empty"]
        /\ Goto(r, "fill")
        /\ UNCHANGED faults
     \/ /\ faults < MaxFaults
        /\ faults' = faults + 1
        /\ Goto(r, IF HasDir(now[r]) THEN "copy" ELSE "stored")
        /\ UNCHANGED report
  /\ UNCHANGED <<world, texts, posted, unwritten, lock, cmds, tossing, listing, posting>>

Fill(r) ==
  /\ pc[r] = "fill"
  /\ report' = [report EXCEPT ![now[r]] = "saved"]
  /\ Goto(r, IF HasDir(now[r]) THEN "copy" ELSE "stored")
  /\ UNCHANGED <<world, texts, posted, unwritten, lock, faults, cmds, tossing, listing, posting>>

(* removeDesc copies what stays to a file of its own, and moves that over. *)
CopyOf(file) == tmp' = [exists |-> TRUE, lines |-> RemoveDesc(bbs, file)]
MoveOver ==
  /\ bbs' = IF tmp.exists THEN tmp.lines ELSE bbs
  /\ tmp' = NoTmp

Copy(r) ==
  /\ pc[r] = "copy"
  /\ CopyOf(tickets[now[r]].file)
  /\ Goto(r, "move")
  /\ UNCHANGED <<world, bbs, told, spools, lock, faults, cmds, tossing, listing, posting>>

Move(r) ==
  /\ pc[r] = "move"
  /\ MoveOver
  /\ Goto(r, "add")
  /\ UNCHANGED <<world, told, spools, lock, faults, cmds, tossing, listing, posting>>

Add(r) ==
  LET t == tickets[now[r]] IN
  /\ pc[r] = "add"
  /\ bbs' = AddDescription(bbs, t.file, Described(t), setup.mark)
  /\ told' = [told EXCEPT ![t.file] =
                 IF t.again /\ @ # Unclear THEN @ ELSE Described(t)]
  /\ Goto(r, "stored")
  /\ UNCHANGED <<world, tmp, spools, lock, faults, cmds, tossing, listing, posting>>

(* processTic and hatch return; toss goes on with the next ticket. *)
Stored(r) ==
  /\ pc[r] = "stored"
  /\ now' = [now EXCEPT ![r] = 0]
  /\ Goto(r, IF todo[r] # {} THEN "toss" ELSE After(r))
  /\ UNCHANGED <<world, texts, spools, lock, faults, cmds, todo, listing, posting>>

-----------------------------------------------------------------------------
(* htick filelist *)

(* What readdir finds: the files, and a files.bbs.tmp that is left. *)
Present == dir \cup (IF tmp.exists THEN {Tmp} ELSE {})

FileList(r) ==
  /\ pc[r] = "main" /\ "filelist" \in cmds[r] /\ cmds[r] \cap {"toss", "hatch"} = {}
  /\ cmds' = [cmds EXCEPT ![r] = @ \ {"filelist"}]
  /\ tree' = [tree EXCEPT ![r] = ParseBBS(bbs)]
  /\ todo' = [todo EXCEPT ![r] = Present]
  /\ Goto(r, "list")
  /\ UNCHANGED <<world, texts, spools, lock, faults, now, list, gone, posting>>

(* A file that ParseBBSFile did not find is entered at once. *)
ListOne(r, f) ==
  LET found == f \in DOMAIN tree[r]
      desc == IF found THEN tree[r][f] ELSE <<DescNA>>
  IN  /\ pc[r] = "list" /\ f \in todo[r]
      /\ todo' = [todo EXCEPT ![r] = @ \ {f}]
      /\ bbs' = IF found THEN bbs ELSE AddDescription(bbs, f, desc, setup.mark)
      /\ told' = IF found THEN told ELSE [told EXCEPT ![f] = desc]
      /\ list' = [list EXCEPT ![r] =
           [entries |-> @.entries \cup {[file |-> f, desc |-> desc]},
            size |-> IncBigSize(@.size, Size[f])]]
      /\ UNCHANGED <<world, tmp, spools, lock, faults, pc, cmds, now, tree, gone, posting>>

(* The names without a file are collected first and then removed. *)
Collect(r) ==
  /\ pc[r] = "list" /\ todo[r] = {}
  /\ gone' = [gone EXCEPT ![r] = MissingNames(bbs, Present)]
  /\ Goto(r, "tidy")
  /\ UNCHANGED <<world, texts, spools, lock, faults, cmds, tossing, tree, list, posting>>

TidyCopy(r) ==
  /\ pc[r] = "tidy" /\ gone[r] # <<>>
  /\ CopyOf(Head(gone[r]))
  /\ Goto(r, "tidied")
  /\ UNCHANGED <<world, bbs, told, spools, lock, faults, cmds, tossing, listing, posting>>

TidyMove(r) ==
  /\ pc[r] = "tidied"
  /\ MoveOver
  /\ told' = [told EXCEPT ![Head(gone[r])] = Unclear]
  /\ gone' = [gone EXCEPT ![r] = Tail(@)]
  /\ Goto(r, "tidy")
  /\ UNCHANGED <<world, spools, lock, faults, cmds, tossing, tree, list, posting>>

(* The sizes of the areas are added up: here, of one. *)
Listed(r) ==
  /\ pc[r] = "tidy" /\ gone[r] = <<>>
  /\ list' = [list EXCEPT ![r].size = IncBigSize2(ZeroSize, @)]
  /\ Goto(r, "listed")
  /\ UNCHANGED <<world, texts, spools, lock, faults, cmds, tossing, tree, gone, posting>>

EndList(r) ==
  /\ pc[r] = "listed"
  /\ tree' = [tree EXCEPT ![r] = <<>>]
  /\ list' = [list EXCEPT ![r] = NoList]
  /\ Goto(r, After(r))
  /\ UNCHANGED <<world, texts, spools, lock, faults, cmds, tossing, gone, posting>>

-----------------------------------------------------------------------------
(* htick announce *)

(* cmp_reportEntry, by area and then by name. *)
Before(m, n) ==
  LET a(k) == Pos(Areas, tickets[k].area)
      f(k) == Pos(FileOrder, tickets[k].file)
  IN  a(m) < a(n) \/ (a(m) = a(n) /\ f(m) < f(n))

Saved == {n \in DOMAIN tickets : report[n] = "saved"}

(* getReportInfo that leaves the tickets in the order of the directory. *)
ReportInfoUnsorted == {e \in [1 .. Cardinality(Saved) -> Saved] : IsInjective(e)}

(* getReportInfo: an empty copy names neither file nor area and is passed  *)
(* over; qsort may leave equal entries in any order.                       *)
ReportInfo ==
  {e \in [1 .. Cardinality(Saved) -> Saved] :
     IsInjective(e) /\ \A j, k \in DOMAIN e : j < k => ~Before(e[k], e[j])}

(* The size that a ticket of the spool is read with: that of an empty file *)
(* is not written, and parseTic leaves -1, which is added as Word - 1.     *)
TicSize(n) == LET size == Size[tickets[n].file] IN IF size = 0 THEN Word - 1 ELSE size

(* buildAccessList: where the tickets of an area begin, and how many they  *)
(* are; those of areas that are not in the configuration are left out.     *)
AccessList(entries) ==
  LET Step(aList, k) ==
        LET t == tickets[entries[k]]
            new == aList = <<>> \/ Last(aList).area # t.area
            current == IF new THEN Append(aList, [area |-> t.area, begin |-> k,
                                                  count |-> 0, size |-> 0])
                       ELSE aList
        IN  IF new /\ t.area \notin known THEN aList
            ELSE [current EXCEPT ![Len(current)] =
                    [area |-> @.area, begin |-> @.begin, count |-> @.count + 1,
                     size |-> (@.size + TicSize(entries[k])) % Word]]
  IN  FoldLeftDomain(LAMBDA aList, k : Step(aList, k), <<>>, entries)

(* MakeDefaultRepDef; IsAreaMatched. *)
DefaultDef == [masks |-> FALSE, incl |-> {}, excl |-> {}, toFile |-> FALSE]
Defs == IF setup.defs = <<>> THEN <<DefaultDef>> ELSE setup.defs
IsAreaMatched(area, d) == (d.masks => area \in d.incl) /\ area \notin d.excl

(* Tickets marked when they are read instead of when they are reported. *)
AnnounceMarking(r) ==
  /\ pc[r] = "main" /\ cmds[r] = {"announce"}
  /\ cmds' = [cmds EXCEPT ![r] = {}]
  /\ \E entries \in IF setup.spool THEN ReportInfo ELSE {<<>>} :
       snap' = [snap EXCEPT ![r] = entries]
  /\ marked' = [marked EXCEPT ![r] = IF setup.spool THEN Saved ELSE {}]
  /\ def' = [def EXCEPT ![r] = 1]
  /\ Goto(r, IF setup.spool /\ Saved # {} THEN "post" ELSE "end")
  /\ UNCHANGED <<world, texts, spools, lock, faults, tossing, listing, message>>

Announce(r) ==
  /\ pc[r] = "main" /\ cmds[r] = {"announce"}
  /\ cmds' = [cmds EXCEPT ![r] = {}]
  /\ \E entries \in IF setup.spool THEN ReportInfo ELSE {<<>>} :
       snap' = [snap EXCEPT ![r] = entries]
  /\ def' = [def EXCEPT ![r] = 1]
  /\ Goto(r, IF setup.spool /\ Saved # {} THEN "post" ELSE "end")
  /\ UNCHANGED <<world, texts, spools, lock, faults, tossing, listing, marked, message>>

(* reportNewFiles: one message for each definition that an area matches;   *)
(* ReportOneFile marks its tickets, whether or not it can be written.      *)
Part(entries, a) ==
  [area |-> a.area, tickets |-> SubSeq(entries, a.begin, a.begin + a.count - 1),
   size |-> IncBigSize(ZeroSize, a.size)]

MessageOf(entries, d) ==
  LET Match(parts, a) == IF IsAreaMatched(a.area, d) THEN Append(parts, a) ELSE parts
      matched == FoldLeft(Match, <<>>, AccessList(entries))
  IN  [parts |-> [k \in DOMAIN matched |-> Part(entries, matched[k])],
       size |-> FoldLeft(LAMBDA bs, a : IncBigSize(bs, a.size), ZeroSize, matched),
       number |-> FoldLeft(LAMBDA n, a : n + a.count, 0, matched)]

InMessage(m) == UNION {Range(m.parts[k].tickets) : k \in DOMAIN m.parts}

Post(r) ==
  LET d == Defs[def[r]]
      made == MessageOf(snap[r], d)
  IN  /\ pc[r] = "post" /\ def[r] \in DOMAIN Defs
      /\ message' = [message EXCEPT ![r] = made]
      /\ \/ /\ posted' = [n \in DOMAIN posted |->
                 IF n \in InMessage(made)
                 THEN [posted[n] EXCEPT ![def[r]] = IF @ < 2 THEN @ + 1 ELSE @]
                 ELSE posted[n]]
            /\ UNCHANGED <<unwritten, faults>>
         \/ /\ d.toFile /\ made.number > 0 /\ faults < MaxFaults
            /\ faults' = faults + 1
            /\ unwritten' = unwritten \cup InMessage(made)
            /\ UNCHANGED posted
      /\ marked' = [marked EXCEPT ![r] = @ \cup InMessage(made)]
      /\ Goto(r, "posted")
      /\ UNCHANGED <<world, texts, report, lock, cmds, tossing, listing, snap, def>>

NextDef(r) ==
  /\ pc[r] = "posted"
  /\ def' = [def EXCEPT ![r] = @ + 1]
  /\ message' = [message EXCEPT ![r] = NoMessage]
  /\ Goto(r, "post")
  /\ UNCHANGED <<world, texts, spools, lock, faults, cmds, tossing, listing, snap, marked>>

(* freeReportInfo removes what is marked, one after the other. *)
Free(r) ==
  /\ pc[r] = "post" /\ def[r] \notin DOMAIN Defs
  /\ IF marked[r] = {}
     THEN /\ snap' = [snap EXCEPT ![r] = <<>>]
          /\ def' = [def EXCEPT ![r] = 0]
          /\ Goto(r, "end")
          /\ UNCHANGED <<report, marked>>
     ELSE LET n == CHOOSE m \in marked[r] : \A k \in marked[r] : Pos(snap[r], m) <= Pos(snap[r], k)
          IN  /\ report' = [report EXCEPT ![n] = "gone"]
              /\ marked' = [marked EXCEPT ![r] = @ \ {n}]
              /\ UNCHANGED <<snap, def, pc>>
  /\ UNCHANGED <<world, texts, posted, unwritten, lock, faults, cmds, tossing, listing, message>>

-----------------------------------------------------------------------------
(* Runs, their end, and what happens between them. *)

Idle == \A r \in Runs : pc[r] = "idle"

(* A run that finds the lock file ends at once.  Runs have no identity:    *)
(* the first idle one starts.                                              *)
Start(r, commands) ==
  /\ pc[r] = "idle" /\ \A k \in Runs : k < r => pc[k] # "idle"
  /\ commands \in setup.commands
  /\ ~lock
  /\ lock' = (setup.lock # "none")
  /\ cmds' = [cmds EXCEPT ![r] = commands]
  /\ Goto(r, "main")
  /\ UNCHANGED <<world, texts, spools, faults, tossing, listing, posting>>

End(r) ==
  /\ pc[r] = "end"
  /\ lock' = FALSE
  /\ Goto(r, "idle")
  /\ UNCHANGED <<world, texts, spools, faults, cmds, tossing, listing, posting>>

(* What a run that dies has done stays done; it leaves the lock file, but  *)
(* not an advisory lock.                                                   *)
Crash(r) ==
  /\ pc[r] # "idle" /\ faults < MaxFaults
  /\ faults' = faults + 1
  /\ lock' = (setup.lock = "file")
  /\ Goto(r, "idle")
  /\ told' = IF now[r] # 0 /\ HasDir(now[r])
             THEN [told EXCEPT ![tickets[now[r]].file] = Unclear] ELSE told
  /\ cmds' = [cmds EXCEPT ![r] = {}]
  /\ now' = [now EXCEPT ![r] = 0]     /\ todo' = [todo EXCEPT ![r] = {}]
  /\ tree' = [tree EXCEPT ![r] = <<>>] /\ list' = [list EXCEPT ![r] = NoList]
  /\ gone' = [gone EXCEPT ![r] = <<>>] /\ snap' = [snap EXCEPT ![r] = <<>>]
  /\ def' = [def EXCEPT ![r] = 0]     /\ marked' = [marked EXCEPT ![r] = {}]
  /\ message' = [message EXCEPT ![r] = NoMessage]
  /\ UNCHANGED <<world, bbs, tmp, spools>>

RemoveLock ==
  /\ lock /\ Idle
  /\ lock' = FALSE
  /\ UNCHANGED <<world, texts, spools, faults, pc, cmds, tossing, listing, posting>>

Arrive(t) ==
  /\ Len(tickets) < setup.limit /\ t \in setup.tickets /\ t.area \in known
  /\ tickets' = Append(tickets, t)
  /\ inbox' = inbox \cup {Len(tickets')}
  /\ UNCHANGED <<setup, known, dir, texts, spools, lock, faults, pc, cmds,
                 tossing, listing, posting>>

(* The sysop changes the directory and the configuration between runs. *)
Sysop(f) ==
  /\ Idle /\ "filelist" \in UNION setup.commands
  /\ dir' = IF f \in dir THEN dir \ {f} ELSE dir \cup {f}
  /\ UNCHANGED <<setup, known, inbox, tickets, texts, spools, lock, faults, pc, cmds,
                 tossing, listing, posting>>

DropArea(a) ==
  /\ Idle /\ a \in known \ {Home}
  /\ \A n \in inbox : tickets[n].area # a
  /\ known' = known \ {a}
  /\ UNCHANGED <<setup, dir, inbox, tickets, texts, spools, lock, faults, pc, cmds,
                 tossing, listing, posting>>

Init ==
  /\ setup \in Setups /\ known = Range(Areas) /\ lock = FALSE
  /\ dir = {} /\ bbs = <<>> /\ tmp = NoTmp /\ told = [f \in Files |-> Unclear]
  /\ tickets = <<>> /\ inbox = {}
  /\ report = [n \in 1 .. setup.limit |-> "none"]
  /\ posted = [n \in 1 .. setup.limit |-> [d \in DOMAIN Defs |-> 0]]
  /\ unwritten = {} /\ faults = 0
  /\ pc = [r \in Runs |-> "idle"] /\ cmds = [r \in Runs |-> {}]
  /\ now = [r \in Runs |-> 0] /\ todo = [r \in Runs |-> {}]
  /\ tree = [r \in Runs |-> <<>>] /\ list = [r \in Runs |-> NoList]
  /\ gone = [r \in Runs |-> <<>>]
  /\ snap = [r \in Runs |-> <<>>] /\ def = [r \in Runs |-> 0]
  /\ marked = [r \in Runs |-> {}] /\ message = [r \in Runs |-> NoMessage]

Step(r) ==
  \/ Toss(r) \/ EndToss(r) \/ (\E n \in todo[r] : TossOne(r, n))
  \/ (\E f \in Files, h \in setup.hatches : Hatch(r, f, h))
  \/ Save(r) \/ Fill(r) \/ Copy(r) \/ Move(r) \/ Add(r) \/ Stored(r)
  \/ FileList(r) \/ (\E f \in todo[r] : ListOne(r, f))
  \/ Collect(r) \/ TidyCopy(r) \/ TidyMove(r) \/ Listed(r) \/ EndList(r)
  \/ Announce(r) \/ Post(r) \/ NextDef(r) \/ Free(r)
  \/ End(r)

StartAny == \E r \in Runs, commands \in setup.commands : Start(r, commands)

Next ==
  \/ StartAny
  \/ \E r \in Runs : Step(r) \/ Crash(r)
  \/ RemoveLock
  \/ \E t \in setup.tickets : Arrive(t)
  \/ \E f \in Files \ {Tmp} : Sysop(f)
  \/ \E a \in Range(Areas) : DropArea(a)

Spec == Init /\ [][Next]_vars

-----------------------------------------------------------------------------
(* Properties. *)

LineType == [mark : Marks \cup {"word"}, word : Files \cup {NoName}, text : Texts]
DescType == Seq(Texts)

TypeOK ==
  /\ setup \in Setups /\ known \subseteq Range(Areas) /\ lock \in BOOLEAN
  /\ dir \subseteq Files \ {Tmp} /\ bbs \in Seq(LineType) /\ tmp.lines \in Seq(LineType)
  /\ told \in [Files -> DescType]
  /\ Len(tickets) <= setup.limit /\ tickets \in Seq(TicketType)
  /\ inbox \subseteq DOMAIN tickets
  /\ report \in [1 .. setup.limit -> {"none", "empty", "saved", "gone"}]
  /\ \A n \in 1 .. setup.limit : posted[n] \in [DOMAIN Defs -> 0 .. 2]
  /\ unwritten \subseteq DOMAIN tickets /\ faults \in 0 .. MaxFaults
  /\ \A r \in Runs :
       /\ cmds[r] \subseteq Commands /\ now[r] \in {0} \cup DOMAIN tickets
       /\ \A f \in DOMAIN tree[r] : f \in Files /\ tree[r][f] \in DescType
       /\ gone[r] \in Seq(Files) /\ list[r].size \in SizeType
       /\ snap[r] \in Seq(DOMAIN tickets) /\ marked[r] \subseteq Range(snap[r])
       /\ pc[r] = "idle" => now[r] = 0 /\ todo[r] = {} /\ snap[r] = <<>> /\ cmds[r] = {}

Storing(f) == \E r \in Runs : now[r] # 0 /\ HasDir(now[r]) /\ tickets[now[r]].file = f

(* removeDesc takes a line of another file that begins with the name for   *)
(* the entry of the file, unless '>' is before the name.                   *)
MayLoseLines(desc) == setup.mark = "blank" /\ \E k \in DOMAIN desc : FirstWord[desc[k]] # NoName

(* What readers find of a description.  An empty first line only says that *)
(* the text starts on the next one; and of lines that start with a blank,  *)
(* removeDesc keeps no empty one, whatever file it is called for.          *)
Written(mark, desc) ==
  IF mark # "blank" THEN desc
  ELSE FoldLeft(LAMBDA kept, text : IF text = NoText THEN kept ELSE Append(kept, text), <<>>, desc)

Shown(mark, desc) ==
  IF mark = "blank" THEN Written(mark, desc)
  ELSE IF Len(desc) > 1 /\ desc[1] = NoText THEN Tail(desc) ELSE desc

(* When runs exclude each other by a lock, a file in the directory has one *)
(* entry in files.bbs, with the description it was given last, whatever    *)
(* happened since to the entries of other files, and even if a run died    *)
(* while it rewrote files.bbs for another file; only empty lines may have  *)
(* gone, if lines start with a blank.  Hatching a file with the            *)
(* description it has does not change it.                                  *)
DescriptionsKept ==
  setup.lock # "none" =>
    \A f \in dir : (told[f] # Unclear /\ ~Storing(f)) =>
      /\ Cardinality(Entries(bbs, f)) = 1
      /\ ~MayLoseLines(told[f]) => Shown(setup.mark, GetDesc(bbs, f)) = Shown(setup.mark, told[f])

(* When filelist is done, its list has every file of the directory with    *)
(* the description in files.bbs, and files.bbs has an entry for each of    *)
(* these files; the total is the sum of the sizes listed.  The list and    *)
(* files.bbs name nothing else, but files.bbs.tmp if a run has died.       *)
ListedRight ==
  \A r \in Runs : (pc[r] = "listed" /\ setup.lock # "none") =>
    LET entered == {line.word : line \in {bbs[k] : k \in {j \in DOMAIN bbs : bbs[j].mark = "word"}}}
        listed == {e.file : e \in list[r].entries}
    IN  /\ entered \ {Tmp} = dir /\ listed \ {Tmp} = dir
        /\ Tmp \in entered \cup listed => faults > 0
        /\ \A e \in list[r].entries : e.file \in dir =>
             \/ MayLoseLines(e.desc)
             \/ Shown(setup.mark, e.desc) = Shown(setup.mark, ParseBBS(bbs)[e.file])
        /\ Bytes(list[r].size) = SumFunction([f \in listed |-> Size[f]])

(* A ticket leaves the announce spool only after every definition that its *)
(* area matches has posted it (there is one), or could not open the file   *)
(* its report goes to; a run that dies loses no announcement.              *)
NothingUnannounced ==
  \A n \in DOMAIN tickets : report[n] = "gone" =>
    LET matching == {d \in DOMAIN Defs : IsAreaMatched(tickets[n].area, Defs[d])}
    IN  /\ matching # {}
        /\ \A d \in matching : posted[n][d] > 0 \/ (Defs[d].toFile /\ n \in unwritten)

(* A message lists each ticket of the spool once, under its area, if the   *)
(* area is configured and matches, with the sums of the sizes, an empty    *)
(* file counting for Word - 1; and only a run that dies, or runs without a *)
(* lock, post a ticket again.                                              *)
PostedRight ==
  /\ \A r \in Runs : pc[r] = "posted" =>
       LET m == message[r]
           d == Defs[def[r]]
           InArea(a) == {n \in Range(snap[r]) : tickets[n].area = a}
           areas == {a \in known : IsAreaMatched(a, d) /\ InArea(a) # {}}
           size(n) == Size[tickets[n].file]
           Sum(a) == (SumFunction([n \in InArea(a) |-> size(n)])
                        + (Word - 1) * Cardinality({n \in InArea(a) : size(n) = 0})) % Word
       IN  /\ {m.parts[k].area : k \in DOMAIN m.parts} = areas
           /\ Len(m.parts) = Cardinality(areas)
           /\ \A k \in DOMAIN m.parts :
                LET part == m.parts[k] IN
                /\ Range(part.tickets) = InArea(part.area)
                /\ IsInjective(part.tickets)
                /\ Bytes(part.size) = Sum(part.area)
           /\ Bytes(m.size) = SumFunction([a \in areas |-> Sum(a)])
           /\ m.number = Cardinality(UNION {InArea(a) : a \in areas})
  /\ \A n \in DOMAIN tickets, d \in DOMAIN Defs :
       posted[n][d] > 1 => faults > 0 \/ setup.lock = "none"
=============================================================================
