------------------------------- MODULE Store --------------------------------
(***************************************************************************)
(* The files of one system and the outbound entries that refer to them by  *)
(* name: the directories of the file areas, the one directory that all     *)
(* passthrough areas share (passFileAreaDir), and what sendToLinks, hatch, *)
(* send, checkTmpDir, clean and the mailer do to both.                     *)
(*                                                                         *)
(* A file is queued by its path, not by its content: whatever changes the  *)
(* file between queueing and transmission changes what the link gets.      *)
(* Each tossed or hatched file is one step here; the inner steps of        *)
(* queueing it, with their failures, are the business of Outbound.         *)
(***************************************************************************)
EXTENDS Naturals, FiniteSets, FiniteSetsExt

CONSTANTS
  Areas, Bases, Contents, Links,
  None,         \* no file, no ticket
  AltLimit,     \* altFilename's 99
  Setups        \* the configurations that are looked at (SetupData), by name

(* A file name is a base with the number altFilename put in it, or 0. *)
FileName == Bases \X (0 .. AltLimit)
Places == Areas \cup {"pass"}

(* What fidoconfig says: the areas without a directory of their own, with  *)
(* sendorig, rename, noreplace and -p <days>; the links with noTIC and     *)
(* packAka; separateBundles.  Each of `links` reads each of `areas`.  And   *)
(* what will come: the files, the sets of names that a ticket's Replaces   *)
(* line may match, whether tickets have an AltFile line, and whether       *)
(* moving or copying a file may fail.                                      *)
SetupData == [passthrough : SUBSET Areas, sendOrig : SUBSET Areas,
              rename : SUBSET Areas, noReplace : SUBSET Areas, purged : SUBSET Areas,
              noTic : SUBSET Links, packAka : SUBSET Links, separate : BOOLEAN,
              failing : BOOLEAN,
              areas : SUBSET Areas, links : SUBSET Links,
              supply : SUBSET Contents, replaces : SUBSET SUBSET FileName,
              altFile : SUBSET BOOLEAN]

ASSUME StoreAssumption ==
  /\ AltLimit \in Nat \ {0}
  /\ "pass" \notin Areas /\ None \notin Contents
  /\ \A n \in DOMAIN Setups : Setups[n] \in SetupData

(* A postponed ticket in busyFileDir: the path is worked out only when it  *)
(* is taken up.                                                            *)
Postponed == [link : Links, area : Areas, name : FileName, crc : Contents]

(* A line of the link's flow file, and the checksum its ticket gives. *)
Entry == [link : Links, area : Areas, place : Places, name : FileName,
          crc : Contents, tic : BOOLEAN]

VARIABLES
  config, \* the name of the configuration; it does not change
  disk,   \* [Places -> [FileName -> Contents \cup {None}]]
  post,   \* tickets in busyFileDir
  flo,    \* entries of the flow files
  bsy,    \* [Links -> {"free", "mailer", "left"}] the link's .bsy
  sep,    \* links whose .sep directory exists
  fresh   \* contents that have not come in yet

vars == <<config, disk, post, flo, bsy, sep, fresh>>

setup == Setups[config]

TypeOK ==
  /\ config \in DOMAIN Setups
  /\ disk \in [Places -> [FileName -> Contents \cup {None}]]
  /\ post \in SUBSET Postponed
  /\ flo \in SUBSET Entry
  /\ bsy \in [Links -> {"free", "mailer", "left"}]
  /\ sep \in SUBSET Links
  /\ fresh \in SUBSET Contents

Init ==
  /\ config \in DOMAIN Setups
  /\ disk = [p \in Places |-> [f \in FileName |-> None]]
  /\ post = {} /\ flo = {}
  /\ bsy = [l \in Links |-> "free"]
  /\ sep = {}
  /\ fresh = setup.supply

-----------------------------------------------------------------------------
Home(a) == IF a \in setup.passthrough THEN "pass" ELSE a

Without(dir, names) == [f \in FileName |-> IF f \in names THEN None ELSE dir[f]]

(* Defect: noreplace is not looked at. *)
AfterReplacesAnyway(a, names) ==
  IF a \in setup.passthrough THEN disk["pass"] ELSE Without(disk[a], names)

(* Replaces: the old files go, before anything is known about the new one. *)
AfterReplaces(a, names) ==
  IF a \in setup.passthrough \cup setup.noReplace
  THEN disk[Home(a)] ELSE Without(disk[a], names)

(* Defect: the first number is taken. *)
AltNumberFirst(dir, base) == 1

(* altFilename counts while n < 99 and keeps the last name it has tried.   *)
AltNumber(dir, base) ==
  LET free == {n \in 1 .. AltLimit - 1 : dir[<<base, n>>] = None}
  IN  IF free # {} THEN Min(free) ELSE AltLimit - 1

Duplicate(a, dir, base) == a \notin setup.passthrough /\ dir[<<base, 0>>] # None

StoredName(a, dir, base) ==
  IF Duplicate(a, dir, base) /\ a \in setup.rename
  THEN <<base, AltNumber(dir, base)>> ELSE <<base, 0>>

(* A copy under the original name is put in passFileAreaDir for areas with *)
(* sendorig, for a file that was renamed in its own area, and for one      *)
(* whose ticket has come with an AltFile line.                             *)
ViaPass(a, dir, base, alt) ==
  alt \/ a \in setup.sendOrig \/ (Duplicate(a, dir, base) /\ a \in setup.rename)

(* PutFileOnLink: a link that is busy gets a ticket in busyFileDir, unless *)
(* it gets no tickets; the others get a line in their flow file.           *)
Queue(links, a, place, name, c) ==
  LET busy == {l \in links : bsy[l] # "free"}
      now  == links \ busy
  IN
  /\ post' = post \cup {[link |-> l, area |-> a, name |-> name, crc |-> c] :
                          l \in busy \ setup.noTic}
  /\ flo' = flo \cup {[link |-> l, area |-> a, place |-> place, name |-> name,
                       crc |-> c, tic |-> l \notin setup.noTic] : l \in now}
  /\ sep' = IF setup.separate THEN sep \cup now ELSE sep

Refused(a, dir, base) ==
  Duplicate(a, dir, base) /\ a \in setup.noReplace \ setup.rename

(* sendToLinks, once it has the directory after Replaces. *)
Accept(a, dir, base, c, alt) ==
  LET name == StoredName(a, dir, base)
      after == [disk EXCEPT ![Home(a)] = [dir EXCEPT ![name] = c]]
      via  == ViaPass(a, dir, base, alt)
  IN
  /\ c \in fresh /\ ~Refused(a, dir, base)
  /\ fresh' = fresh \ {c}
  /\ disk' = IF via THEN [after EXCEPT !["pass"][<<base, 0>>] = c] ELSE after
  /\ Queue(setup.links, a, IF via THEN "pass" ELSE Home(a), <<base, 0>>, c)
  /\ UNCHANGED <<config, bsy>>

(* Defect: the links are told of a file that could not be stored. *)
FailTelling(a, dir, base, c, alt) ==
  /\ setup.failing /\ c \in fresh /\ ~Refused(a, dir, base)
  /\ disk' = [disk EXCEPT ![Home(a)] = dir]
  /\ Queue(setup.links, a, IF ViaPass(a, dir, base, alt) THEN "pass" ELSE Home(a), <<base, 0>>, c)
  /\ UNCHANGED <<config, bsy, fresh>>

(* The file cannot be moved to its place, or, where it is also distributed *)
(* from passFileAreaDir, it is stored but cannot be put there.  What was   *)
(* in the place it should have come to stays.  The ticket is set aside,    *)
(* and the sysop may give it to a later run.                               *)
Fail(a, dir, base, c, alt) ==
  LET stored == [dir EXCEPT ![StoredName(a, dir, base)] = c]
  IN
  /\ setup.failing /\ c \in fresh /\ ~Refused(a, dir, base)
  /\ \/ disk' = [disk EXCEPT ![Home(a)] = dir]
     \/ ViaPass(a, dir, base, alt) /\ disk' = [disk EXCEPT ![Home(a)] = stored]
  /\ UNCHANGED <<config, post, flo, bsy, sep, fresh>>

Toss(a, base, c, names, alt) == Accept(a, AfterReplaces(a, names), base, c, alt)

(* What Replaces has removed does not come back when the move fails. *)
TossFails(a, base, c, names, alt) == Fail(a, AfterReplaces(a, names), base, c, alt)

(* hatch ignores its own Replaces line, and has no AltFile line. *)
Hatch(a, base, c) == Accept(a, disk[Home(a)], base, c, FALSE)

HatchFails(a, base, c) == Fail(a, disk[Home(a)], base, c, FALSE)

(* htick send, and filefix %resend, for a file of the area. *)
Send(a, f, l) ==
  LET c == disk[Home(a)][f]
  IN
  /\ c # None
  /\ disk' = IF a \in setup.sendOrig THEN [disk EXCEPT !["pass"][f] = c] ELSE disk
  /\ Queue({l}, a, IF a \in setup.sendOrig THEN "pass" ELSE Home(a), f, c)
  /\ UNCHANGED <<config, bsy, fresh>>

(* checkTmpDir takes up a postponed ticket whose link is no longer busy.   *)
TmpDir(p) ==
  /\ bsy[p.link] = "free"
  /\ post' = post \ {p}
  /\ flo' = flo \cup
       {[link |-> p.link, area |-> p.area,
         place |-> IF p.area \in setup.sendOrig THEN "pass" ELSE Home(p.area),
         name |-> p.name, crc |-> p.crc, tic |-> p.link \notin setup.noTic]}
  /\ sep' = IF setup.separate /\ p.link \notin setup.noTic THEN sep \cup {p.link} ELSE sep
  /\ UNCHANGED <<config, disk, bsy, fresh>>

-----------------------------------------------------------------------------
(* The mailer: it holds the link's .bsy while it transmits. *)
MailerLock(l) ==
  /\ bsy[l] = "free" /\ bsy' = [bsy EXCEPT ![l] = "mailer"]
  /\ UNCHANGED <<config, disk, post, flo, sep, fresh>>

MailerSend(e) ==
  /\ bsy[e.link] = "mailer" /\ flo' = flo \ {e}
  /\ UNCHANGED <<config, disk, post, bsy, sep, fresh>>

MailerUnlock(l) ==
  /\ bsy[l] = "mailer" /\ bsy' = [bsy EXCEPT ![l] = "free"]
  /\ UNCHANGED <<config, disk, post, flo, sep, fresh>>

(* The sysop removes a .bsy that a dead process has left. *)
RemoveStale(l) ==
  /\ bsy[l] = "left" /\ bsy' = [bsy EXCEPT ![l] = "free"]
  /\ UNCHANGED <<config, disk, post, flo, sep, fresh>>

-----------------------------------------------------------------------------
(* The .sep directories that clean reads: those that exist, of links that  *)
(* are not busy, under the link's main address.                            *)
SepSeen == {l \in sep \ setup.packAka : bsy[l] = "free"}

(* Defect: busyFileDir is not read. *)
CollectedQueued ==
  {e.name : e \in {x \in flo : x.tic /\ (setup.separate => x.link \in SepSeen)}}

(* The names in the tickets that clean finds. *)
Collected ==
  {p.name : p \in post} \cup
  {e.name : e \in {x \in flo : x.tic /\ (setup.separate => x.link \in SepSeen)}}

(* Defect: no .bsy that clean has created is given up. *)
CleanPassLocking ==
  /\ disk' = [disk EXCEPT !["pass"] = Without(@, FileName \ Collected)]
  /\ bsy' = [l \in Links |->
               IF /\ setup.separate /\ l \in setup.links \ setup.packAka
                  /\ bsy[l] = "free"
               THEN "left" ELSE bsy[l]]
  /\ UNCHANGED <<config, post, flo, sep, fresh>>

(* cleanPassthroughDir deletes every other file.  It gives up the .bsy it  *)
(* has created only where it has found a .sep directory.                   *)
CleanPass ==
  /\ disk' = [disk EXCEPT !["pass"] = Without(@, FileName \ Collected)]
  /\ bsy' = [l \in Links |->
               IF /\ setup.separate /\ l \in setup.links \ (sep \cup setup.packAka)
                  /\ bsy[l] = "free"
               THEN "left" ELSE bsy[l]]
  /\ UNCHANGED <<config, post, flo, sep, fresh>>

(* purgeFileEchos: any file of an area with a limit may have reached it.   *)
Purge(a, f) ==
  /\ a \in setup.purged \ setup.passthrough /\ disk[a][f] # None
  /\ disk' = [disk EXCEPT ![a] = Without(@, {f})]
  /\ UNCHANGED <<config, post, flo, bsy, sep, fresh>>

Next ==
  \/ \E a \in setup.areas, base \in Bases, c \in fresh :
       \/ Hatch(a, base, c) \/ HatchFails(a, base, c)
       \/ \E names \in setup.replaces, alt \in setup.altFile :
            Toss(a, base, c, names, alt) \/ TossFails(a, base, c, names, alt)
  \/ \E a \in setup.areas, f \in FileName, l \in setup.links : Send(a, f, l)
  \/ \E p \in post : TmpDir(p)
  \/ \E l \in setup.links : MailerLock(l) \/ MailerUnlock(l) \/ RemoveStale(l)
  \/ \E e \in flo : MailerSend(e)
  \/ CleanPass
  \/ \E a \in setup.areas, f \in FileName : Purge(a, f)

Spec == Init /\ [][Next]_vars

-----------------------------------------------------------------------------
(* Properties. *)

(* Areas with noreplace, a directory of their own and no other option. *)
Protected(a) ==
  /\ a \in setup.noReplace
  /\ a \notin setup.rename \cup setup.sendOrig \cup setup.passthrough \cup setup.purged

(* What is queued or postponed for a link from such an area is, until it   *)
(* has been transmitted, the very file whose checksum the ticket gives,    *)
(* whatever is tossed, hatched, sent or cleaned in the meantime.  Only a   *)
(* ticket with an AltFile line takes its file out of this protection.      *)
ProtectedMatch ==
  /\ \A e \in flo : Protected(e.area) =>
       \/ e.place = e.area /\ disk[e.area][e.name] = e.crc
       \/ e.place = "pass" /\ TRUE \in setup.altFile
  /\ \A p \in post : Protected(p.area) => disk[p.area][p.name] = p.crc

(* The same for areas with rename, which distribute a file under its       *)
(* original name although they keep it under another.                      *)
RenamedMatch ==
  \A e \in flo : e.area \in setup.rename => disk[e.place][e.name] = e.crc

(* Without separateBundles clean removes nothing from passFileAreaDir that *)
(* a link with tickets has still to get, by a flow file or by a postponed  *)
(* ticket.                                                                 *)
CleanKeepsUnsent == ~setup.separate =>
  /\ \A e \in flo : e.place = "pass" /\ e.tic => disk["pass"][e.name] # None
  /\ \A p \in post : Home(p.area) = "pass" => disk["pass"][p.name] # None

(* A .bsy that clean leaves behind stands only before links whose flow     *)
(* file is empty: what comes later is postponed until the sysop sees to    *)
(* the .bsy, but nothing already queued is held up by it.                  *)
LeftHoldsUpNothing == \A e \in flo : bsy[e.link] # "left"

Holds(dir, c) == \E f \in FileName : dir[f] = c

(* Only htick's renaming decides what becomes of the files of the area. *)
Keeping(a) ==
  /\ a \in setup.rename \ (setup.passthrough \cup setup.purged)
  /\ a \in setup.noReplace \/ setup.replaces \subseteq {{}}

(* altFilename finds a number. *)
Room(a) == \A base \in Bases : \E n \in 1 .. AltLimit - 1 : disk[a][<<base, n>>] = None

(* While altFilename finds a free number, an area with rename never loses  *)
(* a version of a file it has taken in, unless a Replaces line or a limit  *)
(* of days allows it.                                                      *)
RenameKeeps ==
  [][\A a \in Areas, c \in Contents :
       Keeping(a) /\ Room(a) => (Holds(disk[a], c) => Holds(disk'[a], c))]_vars
=============================================================================
