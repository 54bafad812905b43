---------------------------- MODULE StoreProofs -----------------------------
(***************************************************************************)
(* The store of any system: any areas, names, versions, links and          *)
(* configurations.                                                         *)
(*   TypeOK     every variable keeps its type                              *)
(*   KeptOK     what makes ProtectedMatch inductive: an entry of a         *)
(*              protected area refers to the area's own directory, unless  *)
(*              its ticket has come with an AltFile line                   *)
(*   SepOK      what makes LeftHoldsUpNothing inductive: with              *)
(*              separateBundles a link with entries has a .sep directory   *)
(*   PassOK     what makes CleanKeepsUnsent inductive: postponed tickets   *)
(*              of areas with sendorig count as well                       *)
(***************************************************************************)
EXTENDS Store, InductionLemmas, TLAPS

LEMMA SetupType ==
  ASSUME config \in DOMAIN Setups
  PROVE  setup \in SetupData
BY StoreAssumption DEF setup

LEMMA AltNumberIn ==
  ASSUME NEW dir, NEW base
  PROVE  AltNumber(dir, base) \in 0 .. AltLimit
<1> DEFINE free == {n \in 1 .. AltLimit - 1 : dir[<<base, n>>] = None}
<1>1. AltLimit \in Nat \ {0}
  BY StoreAssumption
<1>2. CASE free = {}
  <2>1. AltNumber(dir, base) = AltLimit - 1
    BY <1>2 DEF AltNumber
  <2> QED
    BY <1>1, <2>1
<1>3. CASE free # {}
  <2>1. free \in SUBSET Nat /\ free \subseteq 1 .. AltLimit - 1
    BY <1>1
  <2>2. Min(free) \in free
    BY <1>3, <2>1, MinIn
  <2>3. AltNumber(dir, base) = Min(free)
    BY <1>3 DEF AltNumber
  <2> QED
    BY <1>1, <2>1, <2>2, <2>3
<1> QED
  BY <1>2, <1>3

LEMMA NameIn ==
  ASSUME NEW a \in Areas, NEW dir, NEW base \in Bases
  PROVE  StoredName(a, dir, base) \in FileName /\ <<base, 0>> \in FileName
<1>1. AltNumber(dir, base) \in 0 .. AltLimit /\ 0 \in 0 .. AltLimit
  BY AltNumberIn, StoreAssumption
<1> QED
  BY <1>1 DEF StoredName, FileName

-----------------------------------------------------------------------------
(* What a protected area has queued and postponed is in its directory. *)
KeptOK ==
  /\ \A e \in flo : Protected(e.area) =>
       \/ e.place = e.area /\ disk[e.area][e.name] = e.crc
       \/ e.place = "pass" /\ TRUE \in setup.altFile
  /\ \A p \in post : Protected(p.area) => disk[p.area][p.name] = p.crc

SepOK ==
  /\ \A p \in post : p.link \notin setup.noTic
  /\ \A e \in flo : setup.separate => e.link \in sep
  /\ \A l \in Links : bsy[l] = "left" => setup.separate /\ \A e \in flo : e.link # l

IInv == TypeOK /\ KeptOK /\ SepOK

(* What is proved for every step: a file that was taken in or is sent      *)
(* again, and the rest.                                                    *)
LEMMA HomeOf ==
  ASSUME NEW a \in Areas
  PROVE  Home(a) \in Places /\ (Home(a) = a \/ Home(a) = "pass")
BY DEF Home, Places

LEMMA QueueType ==
  ASSUME TypeOK, NEW links \in SUBSET Links, NEW a \in Areas, NEW place \in Places,
         NEW name \in FileName, NEW c \in Contents, Queue(links, a, place, name, c)
  PROVE  post' \in SUBSET Postponed /\ flo' \in SUBSET Entry /\ sep' \in SUBSET Links
<1> DEFINE busy == {l \in links : bsy[l] # "free"}
           late == {[link |-> l, area |-> a, name |-> name, crc |-> c] :
                      l \in busy \ setup.noTic}
           soon == {[link |-> l, area |-> a, place |-> place, name |-> name,
                     crc |-> c, tic |-> l \notin setup.noTic] : l \in links \ busy}
<1>1. /\ post' = post \cup late /\ flo' = flo \cup soon
      /\ sep' = IF setup.separate THEN sep \cup (links \ busy) ELSE sep
  BY DEF Queue
<1>2. late \in SUBSET Postponed
  BY DEF Postponed
<1>3. soon \in SUBSET Entry
  <2>1. ASSUME NEW l \in Links
        PROVE  [link |-> l, area |-> a, place |-> place, name |-> name,
                crc |-> c, tic |-> l \notin setup.noTic] \in Entry
    <3>1. (l \notin setup.noTic) \in BOOLEAN
      OBVIOUS
    <3> QED
      BY <3>1 DEF Entry
  <2> QED
    BY <2>1
<1> QED
  BY <1>1, <1>2, <1>3 DEF TypeOK

(* A file is stored under some name, and possibly in passFileAreaDir too. *)
LEMMA DiskType ==
  ASSUME TypeOK, NEW p \in Places, NEW dir \in [FileName -> Contents \cup {None}],
         NEW name, NEW pass \in FileName, NEW c \in Contents
  PROVE  LET after == [disk EXCEPT ![p] = [dir EXCEPT ![name] = c]]
         IN  /\ after \in [Places -> [FileName -> Contents \cup {None}]]
             /\ [after EXCEPT !["pass"][pass] = c]
                  \in [Places -> [FileName -> Contents \cup {None}]]
BY DEF TypeOK

LEMMA AcceptType ==
  ASSUME TypeOK, NEW a \in Areas, NEW dir \in [FileName -> Contents \cup {None}],
         NEW base \in Bases, NEW c \in Contents, NEW alt, Accept(a, dir, base, c, alt)
  PROVE  TypeOK'
<1> DEFINE name == StoredName(a, dir, base)
           via == ViaPass(a, dir, base, alt)
<1>1. <<base, 0>> \in FileName
  BY NameIn
<1>2. disk' \in [Places -> [FileName -> Contents \cup {None}]]
  BY <1>1, HomeOf, DiskType DEF Accept
<1>3. (IF via THEN "pass" ELSE Home(a)) \in Places
  BY HomeOf DEF Places
<1>4. setup.links \in SUBSET Links
  BY SetupType DEF TypeOK, SetupData
<1>5. Queue(setup.links, a, IF via THEN "pass" ELSE Home(a), <<base, 0>>, c)
  BY DEF Accept
<1>6. post' \in SUBSET Postponed /\ flo' \in SUBSET Entry /\ sep' \in SUBSET Links
  BY <1>1, <1>3, <1>4, <1>5, QueueType
<1> QED
  BY <1>2, <1>6 DEF Accept, TypeOK

(* A failing step changes one directory at most, and nothing else. *)
LEMMA FailType ==
  ASSUME TypeOK, NEW a \in Areas, NEW dir \in [FileName -> Contents \cup {None}],
         NEW base \in Bases, NEW c \in Contents, NEW alt, Fail(a, dir, base, c, alt)
  PROVE  TypeOK'
<1> DEFINE stored == [dir EXCEPT ![StoredName(a, dir, base)] = c]
<1>1. stored \in [FileName -> Contents \cup {None}]
  OBVIOUS
<1>2. disk' \in [Places -> [FileName -> Contents \cup {None}]]
  BY <1>1, HomeOf DEF Fail, TypeOK
<1> QED
  BY <1>2 DEF Fail, TypeOK

LEMMA DirType ==
  ASSUME TypeOK, NEW a \in Areas, NEW names
  PROVE  /\ AfterReplaces(a, names) \in [FileName -> Contents \cup {None}]
         /\ disk[Home(a)] \in [FileName -> Contents \cup {None}]
<1>1. \A p \in Places : disk[p] \in [FileName -> Contents \cup {None}]
  BY DEF TypeOK
<1>2. Without(disk[a], names) \in [FileName -> Contents \cup {None}]
  BY <1>1 DEF Without, Places
<1> QED
  BY <1>1, <1>2, HomeOf DEF AfterReplaces

(* The steps, with their parameters in the constants' sets. *)
LEMMA StepCases ==
  ASSUME TypeOK, Next
  PROVE  \/ \E a \in Areas, base \in Bases, c \in Contents : Hatch(a, base, c)
         \/ \E a \in Areas, base \in Bases, c \in Contents, names \in SUBSET FileName,
               alt \in setup.altFile :
              Toss(a, base, c, names, alt)
         \/ \E a \in Areas, base \in Bases, c \in Contents : HatchFails(a, base, c)
         \/ \E a \in Areas, base \in Bases, c \in Contents, names \in SUBSET FileName,
               alt \in setup.altFile :
              TossFails(a, base, c, names, alt)
         \/ \E a \in Areas, f \in FileName, l \in Links : Send(a, f, l)
         \/ \E p \in post : TmpDir(p)
         \/ \E l \in Links : MailerLock(l) \/ MailerUnlock(l) \/ RemoveStale(l)
         \/ \E e \in flo : MailerSend(e)
         \/ CleanPass
         \/ \E a \in Areas, f \in FileName : Purge(a, f)
<1>1. /\ setup.areas \subseteq Areas /\ setup.links \subseteq Links
      /\ setup.replaces \subseteq SUBSET FileName
      /\ fresh \subseteq Contents
  BY SetupType DEF TypeOK, SetupData
<1> QED
  BY <1>1 DEF Next

LEMMA SendType ==
  ASSUME TypeOK, NEW a \in Areas, NEW f \in FileName, NEW l \in Links, Send(a, f, l)
  PROVE  TypeOK'
<1> DEFINE c == disk[Home(a)][f]
           place == IF a \in setup.sendOrig THEN "pass" ELSE Home(a)
<1>1. c \in Contents
  BY HomeOf DEF TypeOK, Send
<1>2. place \in Places /\ {l} \in SUBSET Links
  BY HomeOf DEF Places
<1>3. Queue({l}, a, place, f, c)
  BY DEF Send
<1> HIDE DEF c, place
<1>4. post' \in SUBSET Postponed /\ flo' \in SUBSET Entry /\ sep' \in SUBSET Links
  BY <1>1, <1>2, <1>3, QueueType
<1>5. disk' \in [Places -> [FileName -> Contents \cup {None}]]
  <2>1. disk' = disk \/ disk' = [disk EXCEPT !["pass"] = [disk["pass"] EXCEPT ![f] = c]]
    BY DEF Send, c
  <2>2. "pass" \in Places
    BY DEF Places
  <2> QED
    BY <1>1, <2>1, <2>2 DEF TypeOK
<1> QED
  BY <1>4, <1>5 DEF Send, TypeOK

LEMMA TmpType ==
  ASSUME TypeOK, NEW p \in post, TmpDir(p)
  PROVE  TypeOK'
<1> DEFINE e == [link |-> p.link, area |-> p.area,
                 place |-> IF p.area \in setup.sendOrig THEN "pass" ELSE Home(p.area),
                 name |-> p.name, crc |-> p.crc, tic |-> p.link \notin setup.noTic]
<1>1. /\ p.link \in Links /\ p.area \in Areas /\ p.name \in FileName
      /\ p.crc \in Contents
  BY DEF TypeOK, Postponed
<1>2. (p.link \notin setup.noTic) \in BOOLEAN
  OBVIOUS
<1>3. (IF p.area \in setup.sendOrig THEN "pass" ELSE Home(p.area)) \in Places
  BY <1>1, HomeOf DEF Places
<1>4. e \in Entry
  BY <1>1, <1>2, <1>3 DEF Entry
<1>5. flo' = flo \cup {e}
  BY DEF TmpDir
<1> HIDE DEF e
<1>6. sep' \in SUBSET Links
  BY <1>1 DEF TmpDir, TypeOK
<1> QED
  BY <1>4, <1>5, <1>6 DEF TmpDir, TypeOK

LEMMA NextType == TypeOK /\ [Next]_vars => TypeOK'
<1> SUFFICES ASSUME TypeOK, [Next]_vars PROVE TypeOK'
  OBVIOUS
<1>1. ASSUME NEW a \in Areas, NEW base \in Bases, NEW c \in Contents, Hatch(a, base, c)
      PROVE  TypeOK'
  BY <1>1, DirType, AcceptType DEF Hatch
<1>2. ASSUME NEW a \in Areas, NEW base \in Bases, NEW c \in Contents,
             NEW names \in SUBSET FileName, NEW alt \in setup.altFile,
             Toss(a, base, c, names, alt)
      PROVE  TypeOK'
  BY <1>2, DirType, AcceptType DEF Toss
<1>3. ASSUME NEW a \in Areas, NEW base \in Bases, NEW c \in Contents,
              HatchFails(a, base, c)
       PROVE  TypeOK'
  BY <1>3, DirType, FailType DEF HatchFails
<1>4. ASSUME NEW a \in Areas, NEW base \in Bases, NEW c \in Contents,
              NEW names \in SUBSET FileName, NEW alt \in setup.altFile,
              TossFails(a, base, c, names, alt)
       PROVE  TypeOK'
  BY <1>4, DirType, FailType DEF TossFails
<1>5. ASSUME NEW l \in Links, MailerLock(l) \/ MailerUnlock(l) \/ RemoveStale(l)
      PROVE  TypeOK'
  BY <1>5 DEF MailerLock, MailerUnlock, RemoveStale, TypeOK
<1>6. ASSUME NEW e \in flo, MailerSend(e) PROVE TypeOK'
  BY <1>6 DEF MailerSend, TypeOK
<1>7. ASSUME CleanPass PROVE TypeOK'
  <2>1. "pass" \in Places
    BY DEF Places
  <2>2. Without(disk["pass"], FileName \ Collected) \in [FileName -> Contents \cup {None}]
    BY <2>1 DEF Without, TypeOK
  <2>3. disk' \in [Places -> [FileName -> Contents \cup {None}]]
    BY <1>7, <2>2 DEF CleanPass, TypeOK
  <2>4. bsy' \in [Links -> {"free", "mailer", "left"}]
    BY <1>7 DEF CleanPass, TypeOK
  <2> QED
    BY <1>7, <2>3, <2>4 DEF CleanPass, TypeOK
<1>8. ASSUME NEW a \in Areas, NEW f \in FileName, Purge(a, f) PROVE TypeOK'
  <2>1. Without(disk[a], {f}) \in [FileName -> Contents \cup {None}]
    BY DEF Without, TypeOK, Places
  <2>2. disk' \in [Places -> [FileName -> Contents \cup {None}]]
    BY <1>8, <2>1 DEF Purge, TypeOK
  <2> QED
    BY <1>8, <2>2 DEF Purge, TypeOK
<1>9. CASE Next
  BY <1>9, <1>1, <1>2, <1>3, <1>4, <1>5, <1>6, <1>7, <1>8, SendType, TmpType, StepCases
<1>10. CASE UNCHANGED vars
  BY <1>10 DEF vars, TypeOK
<1> QED
  BY <1>9, <1>10

-----------------------------------------------------------------------------
(* Locks that clean leaves. *)

LEMMA QueueSep ==
  ASSUME TypeOK, SepOK, NEW links \in SUBSET Links, NEW a, NEW place, NEW name, NEW c,
         Queue(links, a, place, name, c), UNCHANGED <<config, bsy>>
  PROVE  SepOK'
<1>1. setup' = setup
  BY DEF setup
<1>2. \A p \in post' : p.link \notin setup.noTic
  BY DEF Queue, SepOK
<1>3. \A e \in flo' : e \in flo \/ (e.link \in links /\ bsy[e.link] = "free")
  BY DEF Queue
<1>4. \A e \in flo' : setup.separate => e.link \in sep'
  <2>1. setup.separate => sep' = sep \cup (links \ {l \in links : bsy[l] # "free"})
    BY DEF Queue
  <2> QED
    BY <1>3, <2>1 DEF SepOK
<1>5. \A l \in Links : bsy[l] = "left" => setup.separate /\ \A e \in flo' : e.link # l
  BY <1>3 DEF SepOK
<1> QED
  BY <1>1, <1>2, <1>4, <1>5 DEF SepOK

LEMMA NextSep == TypeOK /\ SepOK /\ [Next]_vars => SepOK'
<1> SUFFICES ASSUME TypeOK, SepOK, [Next]_vars PROVE SepOK'
  OBVIOUS
<1>1. setup' = setup
  <2>1. config' = config
    <3>1. CASE Next
      <4>1. \A a, dir, base, c, alt : Accept(a, dir, base, c, alt) => config' = config
        BY DEF Accept
      <4>2. \A a, f, l : Send(a, f, l) => config' = config
        BY DEF Send
      <4>3. \A p : TmpDir(p) => config' = config
        BY DEF TmpDir
      <4>4. \A l : MailerLock(l) \/ MailerUnlock(l) \/ RemoveStale(l) => config' = config
        BY DEF MailerLock, MailerUnlock, RemoveStale
      <4>5. \A a, f : MailerSend(a) \/ CleanPass \/ Purge(a, f) => config' = config
        BY DEF MailerSend, CleanPass, Purge
      <4>6. \A a, dir, base, c, alt : Fail(a, dir, base, c, alt) => config' = config
        BY DEF Fail
      <4> QED
        BY <3>1, <4>1, <4>2, <4>3, <4>4, <4>5, <4>6, StepCases
           DEF Hatch, Toss, HatchFails, TossFails
    <3>2. CASE UNCHANGED vars
      BY <3>2 DEF vars
    <3> QED
      BY <3>1, <3>2
  <2> QED
    BY <2>1 DEF setup
<1>2. ASSUME NEW a \in Areas, NEW dir, NEW base, NEW c, NEW alt,
             Accept(a, dir, base, c, alt)
      PROVE  SepOK'
  <2>1. setup.links \in SUBSET Links
    BY SetupType DEF TypeOK, SetupData
  <2> QED
    BY <1>2, <2>1, QueueSep DEF Accept
<1>3. ASSUME NEW a \in Areas, NEW f \in FileName, NEW l \in Links, Send(a, f, l)
      PROVE  SepOK'
  BY <1>3, QueueSep DEF Send
<1>4. ASSUME NEW p \in post, TmpDir(p) PROVE SepOK'
  <2>1. bsy[p.link] = "free" /\ p.link \notin setup.noTic
    BY <1>4 DEF TmpDir, SepOK
  <2>2. \A e \in flo' : e \in flo \/ e.link = p.link
    BY <1>4 DEF TmpDir
  <2>3. setup.separate => sep' = sep \cup {p.link}
    BY <1>4, <2>1 DEF TmpDir
  <2> QED
    BY <1>1, <1>4, <2>1, <2>2, <2>3 DEF TmpDir, SepOK
<1>5. ASSUME NEW l \in Links, MailerLock(l) \/ MailerUnlock(l) \/ RemoveStale(l)
      PROVE  SepOK'
  BY <1>1, <1>5 DEF MailerLock, MailerUnlock, RemoveStale, SepOK, TypeOK
<1>6. ASSUME NEW e \in flo, MailerSend(e) PROVE SepOK'
  BY <1>1, <1>6 DEF MailerSend, SepOK
<1>7. ASSUME CleanPass PROVE SepOK'
  BY <1>1, <1>7 DEF CleanPass, SepOK, TypeOK
<1>8. ASSUME NEW a \in Areas, NEW f \in FileName, Purge(a, f) PROVE SepOK'
  BY <1>1, <1>8 DEF Purge, SepOK
<1>9. ASSUME NEW a, NEW dir, NEW base, NEW c, NEW alt, Fail(a, dir, base, c, alt)
       PROVE  SepOK'
  BY <1>1, <1>9 DEF Fail, SepOK
<1>10. CASE Next
  BY <1>10, <1>2, <1>3, <1>4, <1>5, <1>6, <1>7, <1>8, <1>9, StepCases
     DEF Hatch, Toss, HatchFails, TossFails
<1>11. CASE UNCHANGED vars
  BY <1>1, <1>11 DEF vars, SepOK
<1> QED
  BY <1>10, <1>11

-----------------------------------------------------------------------------
(* Protected areas. *)

(* Such an area keeps its files in its own directory, and takes in no file *)
(* whose name exists.                                                      *)
LEMMA ProtectedHome ==
  ASSUME NEW a \in Areas, Protected(a)
  PROVE  /\ Home(a) = a /\ a \notin setup.sendOrig /\ a # "pass"
         /\ \A names : AfterReplaces(a, names) = disk[a]
         /\ \A dir, base : /\ StoredName(a, dir, base) = <<base, 0>>
                            /\ \A alt \in BOOLEAN : ViaPass(a, dir, base, alt) <=> alt
BY StoreAssumption DEF Protected, Home, AfterReplaces, ViaPass, StoredName

LEMMA AcceptKept ==
  ASSUME TypeOK, KeptOK, NEW a \in Areas, NEW dir \in [FileName -> Contents \cup {None}],
         Protected(a) => dir = disk[a],
         NEW base \in Bases, NEW c \in Contents,
         NEW alt \in BOOLEAN, alt => TRUE \in setup.altFile, Accept(a, dir, base, c, alt)
  PROVE  KeptOK'
<1> DEFINE name == StoredName(a, dir, base)
           via == ViaPass(a, dir, base, alt)
           after == [disk EXCEPT ![Home(a)] = [dir EXCEPT ![name] = c]]
<1>1. setup' = setup /\ \A x : Protected(x)' <=> Protected(x)
  BY DEF Accept, setup, Protected
<1>2. <<base, 0>> \in FileName
  BY NameIn
<1>3. /\ disk' = IF via THEN [after EXCEPT !["pass"][<<base, 0>>] = c] ELSE after
      /\ Queue(setup.links, a, IF via THEN "pass" ELSE Home(a), <<base, 0>>, c)
      /\ ~(Duplicate(a, dir, base) /\ a \in setup.noReplace \ setup.rename)
  BY DEF Accept, Refused
<1>4. ASSUME NEW x \in Areas, Protected(x), x # a PROVE disk'[x] = disk[x]
  <2>1. x # "pass" /\ x # Home(a) /\ x \in Places
    BY <1>4, StoreAssumption DEF Home, Places
  <2>2. after[x] = disk[x]
    BY <2>1 DEF TypeOK
  <2>3. DOMAIN after = Places
    BY DEF TypeOK
  <2> QED
    BY <1>3, <2>1, <2>2, <2>3
<1>5. ASSUME Protected(a)
      PROVE  /\ dir[<<base, 0>>] = None
             /\ disk'[a] = [disk[a] EXCEPT ![<<base, 0>>] = c]
  <2>1. Home(a) = a /\ a # "pass" /\ name = <<base, 0>> /\ dir = disk[a]
    BY <1>5, ProtectedHome
  <2>2. disk'[a] = [disk[a] EXCEPT ![<<base, 0>>] = c]
    BY <1>3, <2>1 DEF TypeOK, Places
  <2>3. ~Duplicate(a, dir, base) /\ a \notin setup.passthrough
    BY <1>3, <1>5 DEF Protected
  <2> QED
    BY <2>2, <2>3 DEF Duplicate
<1>6. ASSUME NEW x \in Areas, Protected(x), NEW n \in FileName, NEW d \in Contents,
             disk[x][n] = d
      PROVE  disk'[x][n] = d
  <2>1. CASE x # a
    BY <1>4, <1>6, <2>1
  <2>2. CASE x = a
    <3>1. n # <<base, 0>>
      BY <1>5, <1>6, <2>2, StoreAssumption
    <3>2. disk[a] \in [FileName -> Contents \cup {None}]
      BY DEF TypeOK, Places
    <3> QED
      BY <1>5, <1>6, <2>2, <3>1, <3>2
  <2> QED
    BY <2>1, <2>2
<1>7. Protected(a) => disk'[a][<<base, 0>>] = c /\ Home(a) = a /\ (via <=> alt)
  <2>1. disk[a] \in [FileName -> Contents \cup {None}]
    BY DEF TypeOK, Places
  <2>2. Protected(a) => Home(a) = a /\ (via <=> alt)
    BY ProtectedHome
  <2> QED
    BY <1>2, <1>5, <2>1, <2>2
<1>8. ASSUME NEW e \in flo', Protected(e.area)
      PROVE  \/ e.place = e.area /\ disk'[e.area][e.name] = e.crc
             \/ e.place = "pass" /\ TRUE \in setup.altFile
  <2>1. CASE e \in flo
    <3>1. e.area \in Areas /\ e.name \in FileName /\ e.crc \in Contents
      BY <2>1 DEF TypeOK, Entry
    <3>2. \/ e.place = e.area /\ disk[e.area][e.name] = e.crc
          \/ e.place = "pass" /\ TRUE \in setup.altFile
      BY <1>8, <2>1 DEF KeptOK
    <3>3. disk[e.area][e.name] = e.crc => disk'[e.area][e.name] = e.crc
      BY <1>6, <1>8, <3>1
    <3> QED
      BY <3>2, <3>3
  <2>2. CASE e \notin flo
    <3>1. /\ e.area = a /\ e.name = <<base, 0>> /\ e.crc = c
          /\ e.place = IF via THEN "pass" ELSE Home(a)
      BY <1>3, <2>2 DEF Queue
    <3> QED
      BY <1>7, <1>8, <3>1
  <2> QED
    BY <2>1, <2>2
<1>9. ASSUME NEW p \in post', Protected(p.area)
      PROVE  disk'[p.area][p.name] = p.crc
  <2>1. CASE p \in post
    <3>1. p.area \in Areas /\ p.name \in FileName /\ p.crc \in Contents
      BY <2>1 DEF TypeOK, Postponed
    <3> QED
      BY <1>6, <1>9, <2>1, <3>1 DEF KeptOK
  <2>2. CASE p \notin post
    <3>1. p.area = a /\ p.name = <<base, 0>> /\ p.crc = c
      BY <1>3, <2>2 DEF Queue
    <3> QED
      BY <1>7, <1>9, <3>1
  <2> QED
    BY <2>1, <2>2
<1> QED
  BY <1>1, <1>8, <1>9 DEF KeptOK

LEMMA SendKept ==
  ASSUME TypeOK, KeptOK, NEW a \in Areas, NEW f \in FileName, NEW l \in Links,
         Send(a, f, l)
  PROVE  KeptOK'
<1> DEFINE c == disk[Home(a)][f]
           place == IF a \in setup.sendOrig THEN "pass" ELSE Home(a)
<1>1. setup' = setup /\ \A x : Protected(x)' <=> Protected(x)
  BY DEF Send, setup, Protected
<1>2. \A x \in Areas : disk'[x] = disk[x]
  <2>1. "pass" \notin Areas
    BY StoreAssumption
  <2> QED
    BY <2>1 DEF Send, TypeOK, Places
<1>3. Queue({l}, a, place, f, c)
  BY DEF Send
<1>4. Protected(a) => place = a /\ c = disk[a][f]
  BY ProtectedHome
<1> HIDE DEF c, place
<1>5. ASSUME NEW e \in flo', Protected(e.area)
      PROVE  \/ e.place = e.area /\ disk'[e.area][e.name] = e.crc
             \/ e.place = "pass" /\ TRUE \in setup.altFile
  <2>1. CASE e \in flo
    <3>1. e.area \in Areas
      BY <2>1 DEF TypeOK, Entry
    <3> QED
      BY <1>2, <1>5, <2>1, <3>1 DEF KeptOK
  <2>2. CASE e \notin flo
    <3>1. e.area = a /\ e.name = f /\ e.crc = c /\ e.place = place
      BY <1>3, <2>2 DEF Queue
    <3> QED
      BY <1>2, <1>4, <1>5, <3>1
  <2> QED
    BY <2>1, <2>2
<1>6. ASSUME NEW p \in post', Protected(p.area)
      PROVE  disk'[p.area][p.name] = p.crc
  <2>1. CASE p \in post
    <3>1. p.area \in Areas
      BY <2>1 DEF TypeOK, Postponed
    <3> QED
      BY <1>2, <1>6, <2>1, <3>1 DEF KeptOK
  <2>2. CASE p \notin post
    <3>1. p.area = a /\ p.name = f /\ p.crc = c
      BY <1>3, <2>2 DEF Queue
    <3> QED
      BY <1>2, <1>4, <1>6, <3>1
  <2> QED
    BY <2>1, <2>2
<1> QED
  BY <1>1, <1>5, <1>6 DEF KeptOK

(* Steps that queue nothing and leave the files of protected areas alone.  *)
LEMMA OtherKept ==
  ASSUME TypeOK, KeptOK, config' = config, flo' \subseteq flo, post' \subseteq post,
         \A x \in Areas : Protected(x) =>
           \A n \in FileName : disk[x][n] # None => disk'[x][n] = disk[x][n]
  PROVE  KeptOK'
<1>1. setup' = setup /\ \A x : Protected(x)' <=> Protected(x)
  BY DEF setup, Protected
<1>2. /\ \A e \in flo : e.area \in Areas /\ e.name \in FileName /\ e.crc # None
      /\ \A p \in post : p.area \in Areas /\ p.name \in FileName /\ p.crc # None
  BY StoreAssumption DEF TypeOK, Entry, Postponed
<1> QED
  BY <1>1, <1>2 DEF KeptOK

LEMMA FailKept ==
  ASSUME TypeOK, KeptOK, NEW a \in Areas, NEW dir, Protected(a) => dir = disk[a],
         NEW base \in Bases, NEW c, NEW alt, Fail(a, dir, base, c, alt)
  PROVE  KeptOK'
<1>1. ASSUME NEW x \in Areas, Protected(x), NEW n \in FileName, disk[x][n] # None
      PROVE  disk'[x][n] = disk[x][n]
  <2>1. x # "pass" /\ x \in Places
    BY StoreAssumption DEF Places
  <2>2. disk[x] \in [FileName -> Contents \cup {None}] /\ DOMAIN disk = Places
    BY <2>1 DEF TypeOK
  <2>3. CASE x = a
    <3>1. /\ Home(a) = a /\ dir = disk[a] /\ StoredName(a, dir, base) = <<base, 0>>
      BY <1>1, <2>3, ProtectedHome
    <3>2. dir[<<base, 0>>] = None
      BY <1>1, <2>3 DEF Fail, Refused, Duplicate, Protected
    <3>3. \/ disk' = [disk EXCEPT ![a] = disk[a]]
          \/ disk' = [disk EXCEPT ![a] = [disk[a] EXCEPT ![<<base, 0>>] = c]]
      BY <3>1 DEF Fail
    <3> QED
      BY <1>1, <2>1, <2>2, <2>3, <3>1, <3>2, <3>3
  <2>4. CASE x # a
    <3>1. Home(a) # x
      BY <2>1, <2>4 DEF Home
    <3> QED
      BY <2>1, <2>2, <3>1 DEF Fail
  <2> QED
    BY <2>3, <2>4
<1> QED
  BY <1>1, OtherKept DEF Fail

LEMMA NextKept == TypeOK /\ KeptOK /\ [Next]_vars => KeptOK'
<1> SUFFICES ASSUME TypeOK, KeptOK, [Next]_vars PROVE KeptOK'
  OBVIOUS
<1>1. ASSUME NEW a \in Areas, NEW base \in Bases, NEW c \in Contents, Hatch(a, base, c)
      PROVE  KeptOK'
  BY <1>1, DirType, ProtectedHome, AcceptKept DEF Hatch
<1>2. ASSUME NEW a \in Areas, NEW base \in Bases, NEW c \in Contents,
             NEW names \in SUBSET FileName, NEW alt \in setup.altFile,
             Toss(a, base, c, names, alt)
      PROVE  KeptOK'
  <2>1. alt \in BOOLEAN
    BY SetupType DEF TypeOK, SetupData
  <2>2. alt => TRUE \in setup.altFile
    BY <2>1
  <2> DEFINE dir == AfterReplaces(a, names)
  <2>3. dir \in [FileName -> Contents \cup {None}] /\ (Protected(a) => dir = disk[a])
    BY DirType, ProtectedHome
  <2>4. Accept(a, dir, base, c, alt)
    BY <1>2 DEF Toss
  <2> HIDE DEF dir
  <2> QED
    BY <2>1, <2>2, <2>3, <2>4, AcceptKept
<1>3. ASSUME NEW a \in Areas, NEW base \in Bases, NEW c \in Contents,
             HatchFails(a, base, c)
      PROVE  KeptOK'
  BY <1>3, ProtectedHome, FailKept DEF HatchFails
<1>4. ASSUME NEW a \in Areas, NEW base \in Bases, NEW c \in Contents,
             NEW names \in SUBSET FileName, NEW alt \in setup.altFile,
             TossFails(a, base, c, names, alt)
      PROVE  KeptOK'
  BY <1>4, ProtectedHome, FailKept DEF TossFails
<1>5. ASSUME NEW p \in post, TmpDir(p) PROVE KeptOK'
  <2>1. p.area \in Areas
    BY DEF TypeOK, Postponed
  <2>2. setup' = setup /\ \A x : Protected(x)' <=> Protected(x)
    BY <1>5 DEF TmpDir, setup, Protected
  <2>3. ASSUME NEW e \in flo', e \notin flo, Protected(e.area)
        PROVE  e.place = e.area /\ disk'[e.area][e.name] = e.crc
    <3>1. /\ e.area = p.area /\ e.name = p.name /\ e.crc = p.crc
          /\ e.place = IF p.area \in setup.sendOrig THEN "pass" ELSE Home(p.area)
      BY <1>5, <2>3 DEF TmpDir
    <3> QED
      BY <1>5, <2>1, <2>3, <3>1, ProtectedHome DEF TmpDir, KeptOK
  <2> QED
    BY <1>5, <2>2, <2>3 DEF TmpDir, KeptOK
<1>6. ASSUME NEW l \in Links, MailerLock(l) \/ MailerUnlock(l) \/ RemoveStale(l)
      PROVE  KeptOK'
  BY <1>6, OtherKept DEF MailerLock, MailerUnlock, RemoveStale
<1>7. ASSUME NEW e \in flo, MailerSend(e) PROVE KeptOK'
  BY <1>7, OtherKept DEF MailerSend
<1>8. ASSUME CleanPass PROVE KeptOK'
  <2>1. \A x \in Areas : disk'[x] = disk[x]
    BY <1>8, StoreAssumption DEF CleanPass, TypeOK, Places
  <2> QED
    BY <1>8, <2>1, OtherKept DEF CleanPass
<1>9. ASSUME NEW a \in Areas, NEW f \in FileName, Purge(a, f) PROVE KeptOK'
  <2>1. \A x \in Areas : Protected(x) => disk'[x] = disk[x]
    BY <1>9 DEF Purge, TypeOK, Places, Protected
  <2> QED
    BY <1>9, <2>1, OtherKept DEF Purge
<1>10. CASE Next
  BY <1>10, <1>1, <1>2, <1>3, <1>4, <1>5, <1>6, <1>7, <1>8, <1>9, SendKept, StepCases
<1>11. CASE UNCHANGED vars
  BY <1>11, OtherKept DEF vars
<1> QED
  BY <1>10, <1>11

-----------------------------------------------------------------------------
LEMMA InitInv == Init => IInv
<1> SUFFICES ASSUME Init PROVE IInv
  OBVIOUS
<1>1. setup.supply \subseteq Contents
  BY SetupType DEF Init, SetupData
<1> QED
  BY <1>1 DEF Init, IInv, TypeOK, KeptOK, SepOK

LEMMA Invariance == Spec => []IInv
<1>1. IInv /\ [Next]_vars => IInv'
  BY NextType, NextSep, NextKept DEF IInv
<1> QED
  BY <1>1, InitInv, PTL DEF Spec

(* For any configurations every variable keeps its type. *)
THEOREM TypeCorrect == Spec => []TypeOK
<1>1. IInv => TypeOK
  BY DEF IInv
<1> QED
  BY <1>1, Invariance, PTL

(* Whatever is tossed, hatched, sent, cleaned and purged, and with any     *)
(* other areas beside it: what a noreplace area has queued or postponed is *)
(* the file that the ticket describes; only what has come with an AltFile  *)
(* line is queued from passFileAreaDir, where it is not protected.         *)
THEOREM ProtectedIsSent == Spec => []ProtectedMatch
<1>1. IInv => ProtectedMatch
  BY DEF IInv, KeptOK, ProtectedMatch
<1> QED
  BY <1>1, Invariance, PTL

(* A .bsy that clean leaves behind holds up nothing that is queued. *)
THEOREM LeftIsIdle == Spec => []LeftHoldsUpNothing
<1>1. IInv => LeftHoldsUpNothing
  BY DEF IInv, SepOK, TypeOK, Entry, LeftHoldsUpNothing
<1> QED
  BY <1>1, Invariance, PTL

-----------------------------------------------------------------------------
(* What clean keeps.  A postponed ticket counts if it will be queued from  *)
(* passFileAreaDir, be it of a passthrough area or of one with sendorig.   *)
InPass(name) == disk["pass"][name] # None
FromPass(a) == a \in setup.sendOrig \/ Home(a) = "pass"

PassOK == ~setup.separate =>
  /\ \A e \in flo : e.place = "pass" /\ e.tic => InPass(e.name)
  /\ \A p \in post : FromPass(p.area) => InPass(p.name)

Grows == \A name \in FileName : InPass(name) => InPass(name)'

LEMMA InitPass == Init => PassOK
BY DEF Init, PassOK

(* What is stored adds to passFileAreaDir or overwrites what is there.     *)
LEMMA AcceptPass ==
  ASSUME TypeOK, NEW a \in Areas, NEW base \in Bases, NEW c \in Contents,
         NEW dir \in [FileName -> Contents \cup {None}],
         Home(a) = "pass" => dir = disk["pass"], NEW alt, Accept(a, dir, base, c, alt)
  PROVE  /\ Grows
         /\ ViaPass(a, dir, base, alt) \/ FromPass(a) => InPass(<<base, 0>>)'
<1> DEFINE name == StoredName(a, dir, base)
           after == [disk EXCEPT ![Home(a)] = [dir EXCEPT ![name] = c]]
<1>1. c # None /\ "pass" \in Places /\ <<base, 0>> \in FileName
  BY NameIn, StoreAssumption DEF Places
<1>2. disk["pass"] \in [FileName -> Contents \cup {None}] /\ DOMAIN disk = Places
  BY <1>1 DEF TypeOK
<1>3. disk' = IF ViaPass(a, dir, base, alt) THEN [after EXCEPT !["pass"][<<base, 0>>] = c]
              ELSE after
  BY DEF Accept
<1>4. CASE Home(a) = "pass"
  <2>1. name = <<base, 0>>
    BY <1>4, StoreAssumption DEF StoredName, Duplicate, Home
  <2>2. after["pass"] = [disk["pass"] EXCEPT ![<<base, 0>>] = c]
    BY <1>1, <1>2, <1>4, <2>1
  <2>3. disk'["pass"] = [disk["pass"] EXCEPT ![<<base, 0>>] = c]
    BY <1>1, <1>2, <1>3, <2>2
  <2> QED
    BY <1>1, <1>2, <2>3 DEF Grows, InPass
<1>5. CASE Home(a) # "pass"
  <2>1. after["pass"] = disk["pass"]
    BY <1>1, <1>2, <1>5
  <2>2. disk'["pass"] = IF ViaPass(a, dir, base, alt)
                        THEN [disk["pass"] EXCEPT ![<<base, 0>>] = c]
                        ELSE disk["pass"]
    BY <1>1, <1>2, <1>3, <2>1
  <2>3. FromPass(a) => ViaPass(a, dir, base, alt)
    BY <1>5 DEF FromPass, ViaPass
  <2> QED
    BY <1>1, <1>2, <2>2, <2>3 DEF Grows, InPass
<1> QED
  BY <1>4, <1>5

LEMMA FailPass ==
  ASSUME TypeOK, NEW a \in Areas, NEW base \in Bases, NEW c \in Contents,
         NEW dir \in [FileName -> Contents \cup {None}],
         Home(a) = "pass" => dir = disk["pass"], NEW alt, Fail(a, dir, base, c, alt)
  PROVE  Grows
<1> DEFINE stored == [dir EXCEPT ![StoredName(a, dir, base)] = c]
<1>1. c # None /\ "pass" \in Places
  BY StoreAssumption DEF Places
<1>2. disk["pass"] \in [FileName -> Contents \cup {None}] /\ DOMAIN disk = Places
  BY <1>1 DEF TypeOK
<1>3. \/ disk' = [disk EXCEPT ![Home(a)] = dir]
      \/ disk' = [disk EXCEPT ![Home(a)] = stored]
  BY DEF Fail
<1>4. CASE Home(a) = "pass"
  <2>1. disk'["pass"] = disk["pass"] \/ disk'["pass"] = stored
    BY <1>1, <1>2, <1>3, <1>4
  <2>2. stored = [disk["pass"] EXCEPT ![StoredName(a, dir, base)] = c]
    BY <1>4
  <2> QED
    BY <1>1, <1>2, <2>1, <2>2 DEF Grows, InPass
<1>5. CASE Home(a) # "pass"
  BY <1>1, <1>2, <1>3, <1>5 DEF Grows, InPass
<1> QED
  BY <1>4, <1>5

(* What is queued from passFileAreaDir has just been put there.            *)
LEMMA QueuePass ==
  ASSUME TypeOK, PassOK, config' = config, Grows,
         NEW links, NEW a \in Areas, NEW place, NEW name, NEW c,
         Queue(links, a, place, name, c),
         place = "pass" \/ FromPass(a) => InPass(name)'
  PROVE  PassOK'
<1>1. setup' = setup /\ \A x : FromPass(x)' <=> FromPass(x)
  BY DEF setup, FromPass, Home
<1>2. ASSUME ~setup.separate, NEW e \in flo', e.place = "pass", e.tic PROVE InPass(e.name)'
  <2>1. CASE e \in flo
    BY <1>2, <2>1 DEF PassOK, Grows, TypeOK, Entry
  <2>2. CASE e \notin flo
    BY <1>2, <2>2 DEF Queue
  <2> QED
    BY <2>1, <2>2
<1>3. ASSUME ~setup.separate, NEW p \in post', FromPass(p.area) PROVE InPass(p.name)'
  <2>1. CASE p \in post
    BY <1>3, <2>1 DEF PassOK, Grows, TypeOK, Postponed
  <2>2. CASE p \notin post
    BY <1>3, <2>2 DEF Queue
  <2> QED
    BY <2>1, <2>2
<1> QED
  BY <1>1, <1>2, <1>3 DEF PassOK

LEMMA OtherPass ==
  ASSUME TypeOK, PassOK, config' = config, Grows, flo' \subseteq flo, post' \subseteq post
  PROVE  PassOK'
<1>1. setup' = setup /\ \A x : FromPass(x)' <=> FromPass(x)
  BY DEF setup, FromPass, Home
<1>2. /\ \A e \in flo : e.name \in FileName
      /\ \A p \in post : p.name \in FileName
  BY DEF TypeOK, Entry, Postponed
<1> QED
  BY <1>1, <1>2 DEF PassOK, Grows

LEMMA NextPass == TypeOK /\ PassOK /\ [Next]_vars => PassOK'
<1> SUFFICES ASSUME TypeOK, PassOK, [Next]_vars PROVE PassOK'
  OBVIOUS
<1>1. "pass" \in Places /\ \A a \in Areas : a # "pass"
  BY StoreAssumption DEF Places
<1>2. disk["pass"] \in [FileName -> Contents \cup {None}] /\ DOMAIN disk = Places
  BY <1>1 DEF TypeOK
<1>3. ASSUME NEW a \in Areas PROVE Home(a) = "pass" =>
        disk[Home(a)] = disk["pass"] /\ \A names : AfterReplaces(a, names) = disk["pass"]
  BY <1>1 DEF Home, AfterReplaces
<1>4. ASSUME NEW a \in Areas, NEW dir \in [FileName -> Contents \cup {None}],
             NEW base \in Bases, NEW c \in Contents,
             Home(a) = "pass" => dir = disk["pass"], NEW alt,
             Accept(a, dir, base, c, alt)
      PROVE  PassOK'
  <2>1. Grows /\ (ViaPass(a, dir, base, alt) \/ FromPass(a) => InPass(<<base, 0>>)')
    BY <1>4, AcceptPass
  <2>2. Queue(setup.links, a, IF ViaPass(a, dir, base, alt) THEN "pass" ELSE Home(a),
              <<base, 0>>, c)
    BY <1>4 DEF Accept
  <2>3. (IF ViaPass(a, dir, base, alt) THEN "pass" ELSE Home(a)) = "pass"
          => ViaPass(a, dir, base, alt) \/ FromPass(a)
    BY DEF FromPass
  <2>4. config' = config
    BY <1>4 DEF Accept
  <2> QED
    BY <2>1, <2>2, <2>3, <2>4, QueuePass
<1>5. ASSUME NEW a \in Areas, NEW dir \in [FileName -> Contents \cup {None}],
             NEW base \in Bases, NEW c \in Contents,
             Home(a) = "pass" => dir = disk["pass"], NEW alt,
             Fail(a, dir, base, c, alt)
      PROVE  PassOK'
  BY <1>5, FailPass, OtherPass DEF Fail
<1>6. ASSUME NEW a \in Areas, NEW f \in FileName, NEW l \in Links, Send(a, f, l)
      PROVE  PassOK'
  <2> DEFINE c == disk[Home(a)][f]
             place == IF a \in setup.sendOrig THEN "pass" ELSE Home(a)
  <2>1. c # None /\ Queue({l}, a, place, f, c) /\ config' = config
    BY <1>6 DEF Send
  <2>2. disk'["pass"] = IF a \in setup.sendOrig THEN [disk["pass"] EXCEPT ![f] = c]
                        ELSE disk["pass"]
    BY <1>1, <1>2, <1>6 DEF Send
  <2>3. Grows
    BY <1>2, <2>1, <2>2 DEF Grows, InPass
  <2>4. place = "pass" \/ FromPass(a) => InPass(f)'
    <3>1. CASE a \in setup.sendOrig
      BY <1>2, <2>1, <2>2, <3>1 DEF InPass
    <3>2. CASE a \notin setup.sendOrig
      BY <2>1, <2>2, <3>2 DEF InPass, FromPass
    <3> QED
      BY <3>1, <3>2
  <2> HIDE DEF c, place
  <2> QED
    BY <2>1, <2>3, <2>4, QueuePass
<1>7. ASSUME NEW p \in post, TmpDir(p) PROVE PassOK'
  <2>1. setup' = setup /\ (\A x : FromPass(x)' <=> FromPass(x)) /\ disk' = disk
    BY <1>7 DEF TmpDir, setup, FromPass, Home
  <2>2. ASSUME ~setup.separate, NEW e \in flo', e.place = "pass", e.tic
        PROVE  InPass(e.name)
    <3>1. CASE e \in flo
      BY <2>2, <3>1 DEF PassOK
    <3>2. CASE e \notin flo
      <4>1. e.name = p.name /\ FromPass(p.area)
        BY <1>7, <2>2, <3>2 DEF TmpDir, FromPass
      <4> QED
        BY <2>2, <4>1 DEF PassOK
    <3> QED
      BY <3>1, <3>2
  <2> QED
    BY <1>7, <2>1, <2>2 DEF TmpDir, PassOK, InPass
<1>8. ASSUME NEW l \in Links, MailerLock(l) \/ MailerUnlock(l) \/ RemoveStale(l)
      PROVE  PassOK'
  BY <1>8, OtherPass DEF MailerLock, MailerUnlock, RemoveStale, Grows, InPass
<1>9. ASSUME NEW e \in flo, MailerSend(e) PROVE PassOK'
  BY <1>9, OtherPass DEF MailerSend, Grows, InPass
<1>10. ASSUME CleanPass PROVE PassOK'
  <2>1. disk'["pass"] = Without(disk["pass"], FileName \ Collected)
    BY <1>1, <1>2, <1>10 DEF CleanPass
  <2>2. \A name \in FileName \cap Collected : disk'["pass"][name] = disk["pass"][name]
    BY <2>1 DEF Without
  <2>3. ~setup.separate => /\ \A e \in flo : e.tic => e.name \in Collected
                           /\ \A p \in post : p.name \in Collected
    BY DEF Collected
  <2>4. /\ \A e \in flo : e.name \in FileName
        /\ \A p \in post : p.name \in FileName
    BY DEF TypeOK, Entry, Postponed
  <2>5. setup' = setup /\ (\A x : FromPass(x)' <=> FromPass(x))
        /\ flo' = flo /\ post' = post
    BY <1>10 DEF CleanPass, setup, FromPass, Home
  <2> QED
    BY <2>2, <2>3, <2>4, <2>5 DEF PassOK, InPass
<1>11. ASSUME NEW a \in Areas, NEW f \in FileName, Purge(a, f) PROVE PassOK'
  <2>1. disk'["pass"] = disk["pass"]
    BY <1>1, <1>2, <1>11 DEF Purge
  <2> QED
    BY <1>11, <2>1, OtherPass DEF Purge, Grows, InPass
<1>12. CASE UNCHANGED vars
  BY <1>12, OtherPass DEF vars, Grows, InPass
<1>13. CASE Next
  <2>1. \A a \in Areas, base \in Bases, c \in Contents :
          Hatch(a, base, c) \/ HatchFails(a, base, c) => PassOK'
    BY <1>3, <1>4, <1>5, DirType DEF Hatch, HatchFails
  <2>2. \A a \in Areas, base \in Bases, c \in Contents, names \in SUBSET FileName,
           alt \in setup.altFile :
          Toss(a, base, c, names, alt) \/ TossFails(a, base, c, names, alt) => PassOK'
    BY <1>3, <1>4, <1>5, DirType DEF Toss, TossFails
  <2> QED
    BY <1>6, <1>7, <1>8, <1>9, <1>10, <1>11, <1>13, <2>1, <2>2, StepCases
<1> QED
  BY <1>12, <1>13

(* For any areas, links and options but separateBundles, and whatever else *)
(* comes in between, clean keeps every file that a ticket queued or        *)
(* postponed still needs from passFileAreaDir.                             *)
THEOREM CleanKeeps == Spec => []CleanKeepsUnsent
<1>1. PassOK => CleanKeepsUnsent
  BY DEF PassOK, InPass, FromPass, CleanKeepsUnsent
<1> QED
  BY <1>1, InitPass, NextPass, TypeCorrect, PTL DEF Spec

-----------------------------------------------------------------------------
(* Areas with rename, below the limit of altFilename. *)

LEMMA AltNumberFree ==
  ASSUME NEW dir, NEW base, NEW n \in 1 .. AltLimit - 1, dir[<<base, n>>] = None
  PROVE  dir[<<base, AltNumber(dir, base)>>] = None
<1> DEFINE free == {k \in 1 .. AltLimit - 1 : dir[<<base, k>>] = None}
<1>1. free \in SUBSET Nat /\ free # {}
  BY StoreAssumption
<1>2. Min(free) \in free
  BY <1>1, MinIn
<1>3. AltNumber(dir, base) = Min(free)
  BY <1>1 DEF AltNumber
<1> QED
  BY <1>2, <1>3

LEMMA FreeName ==
  ASSUME NEW a \in Areas, a \in setup.rename \ setup.passthrough, Room(a),
         NEW base \in Bases
  PROVE  disk[a][StoredName(a, disk[a], base)] = None
<1>1. CASE Duplicate(a, disk[a], base)
  <2>1. disk[a][<<base, AltNumber(disk[a], base)>>] = None
    BY AltNumberFree DEF Room
  <2> QED
    BY <1>1, <2>1 DEF StoredName
<1>2. CASE ~Duplicate(a, disk[a], base)
  BY <1>2 DEF StoredName, Duplicate
<1> QED
  BY <1>1, <1>2

LEMMA AcceptRenames ==
  ASSUME TypeOK, NEW a \in Areas, a \in setup.rename \ setup.passthrough, Room(a),
         NEW x \in Areas, NEW base \in Bases, NEW c \in Contents,
         NEW dir \in [FileName -> Contents \cup {None}], x = a => dir = disk[a],
         NEW alt, Accept(x, dir, base, c, alt),
         NEW d \in Contents, Holds(disk[a], d)
  PROVE  Holds(disk'[a], d)
<1> DEFINE name == StoredName(x, dir, base)
           after == [disk EXCEPT ![Home(x)] = [dir EXCEPT ![name] = c]]
<1>1. disk' = after \/ disk' = [after EXCEPT !["pass"][<<base, 0>>] = c]
  BY DEF Accept
<1>2. a # "pass" /\ a \in Places /\ "pass" \in Places
  BY StoreAssumption DEF Places
<1>3. disk'[a] = after[a]
  BY <1>1, <1>2 DEF TypeOK
<1>4. disk[a] \in [FileName -> Contents \cup {None}]
  BY <1>2 DEF TypeOK
<1>5. CASE x # a
  <2>1. Home(x) # a
    BY <1>2, <1>5 DEF Home
  <2> QED
    BY <1>2, <1>3, <2>1 DEF TypeOK
<1>6. CASE x = a
  <2>1. Home(a) = a /\ dir = disk[a]
    BY <1>6 DEF Home
  <2>2. disk'[a] = [disk[a] EXCEPT ![name] = c]
    BY <1>2, <1>3, <1>6, <2>1 DEF TypeOK
  <2>3. disk[a][name] = None
    BY <1>6, <2>1, FreeName
  <2>4. PICK f \in FileName : disk[a][f] = d
    BY DEF Holds
  <2>5. f # name
    BY <2>3, <2>4, StoreAssumption
  <2>6. disk'[a][f] = d
    BY <1>4, <2>2, <2>4, <2>5
  <2> QED
    BY <2>6 DEF Holds
<1> QED
  BY <1>5, <1>6

LEMMA FailRenames ==
  ASSUME TypeOK, NEW a \in Areas, a \in setup.rename \ setup.passthrough, Room(a),
         NEW x \in Areas, NEW base \in Bases, NEW c \in Contents,
         NEW dir \in [FileName -> Contents \cup {None}], x = a => dir = disk[a],
         NEW alt, Fail(x, dir, base, c, alt),
         NEW d \in Contents, Holds(disk[a], d)
  PROVE  Holds(disk'[a], d)
<1> DEFINE name == StoredName(x, dir, base)
           stored == [dir EXCEPT ![name] = c]
<1>1. \/ disk' = [disk EXCEPT ![Home(x)] = dir]
      \/ disk' = [disk EXCEPT ![Home(x)] = stored]
  BY DEF Fail
<1>2. a # "pass" /\ a \in Places
  BY StoreAssumption DEF Places
<1>3. CASE x # a
  <2>1. Home(x) # a
    BY <1>2, <1>3 DEF Home
  <2> QED
    BY <1>1, <1>2, <2>1 DEF TypeOK
<1>4. CASE x = a
  <2>1. Home(a) = a /\ dir = disk[a]
    BY <1>4 DEF Home
  <2>2. disk'[a] = disk[a] \/ disk'[a] = [disk[a] EXCEPT ![name] = c]
    BY <1>1, <1>2, <1>4, <2>1 DEF TypeOK
  <2>3. disk[a][name] = None
    BY <1>4, <2>1, FreeName
  <2>4. PICK f \in FileName : disk[a][f] = d
    BY DEF Holds
  <2>5. f # name
    BY <2>3, <2>4, StoreAssumption
  <2>6. disk'[a][f] = d
    BY <2>1, <2>2, <2>4, <2>5
  <2> QED
    BY <2>6 DEF Holds
<1> QED
  BY <1>3, <1>4

(* For any configurations: while altFilename (toss.c) finds a free number, *)
(* an area with rename loses no version of a file, unless a Replaces line  *)
(* or a limit of days allows it, whatever is tossed, hatched, sent,        *)
(* cleaned or purged, and whichever moves fail.                            *)
THEOREM RenamingKeepsAll == Spec => RenameKeeps
<1> DEFINE A == \A a \in Areas, c \in Contents :
                  Keeping(a) /\ Room(a) => (Holds(disk[a], c) => Holds(disk'[a], c))
<1>1. TypeOK /\ [Next]_vars => [A]_vars
  <2> SUFFICES ASSUME TypeOK, Next,
                      NEW a \in Areas, NEW c \in Contents, Keeping(a), Room(a),
                      Holds(disk[a], c)
               PROVE  Holds(disk'[a], c)
    OBVIOUS
  <2> a \in setup.rename \ (setup.passthrough \cup setup.purged)
    BY DEF Keeping
  <2>1. Home(a) = a /\ \A names \in setup.replaces : AfterReplaces(a, names) = disk[a]
    <3>1. disk[a] \in [FileName -> Contents \cup {None}]
      BY DirType DEF TypeOK, Places
    <3>2. Without(disk[a], {}) = disk[a]
      BY <3>1 DEF Without
    <3> QED
      BY <3>2 DEF AfterReplaces, Home, Keeping
  <2>2. ASSUME NEW x \in Areas, NEW base \in Bases, NEW d \in Contents, Hatch(x, base, d)
        PROVE  Holds(disk'[a], c)
    BY <2>1, <2>2, DirType, AcceptRenames DEF Hatch
  <2>3. ASSUME NEW x \in Areas, NEW base \in Bases, NEW d \in Contents,
               NEW names \in setup.replaces, NEW alt \in setup.altFile,
               Toss(x, base, d, names, alt)
        PROVE  Holds(disk'[a], c)
    BY <2>1, <2>3, DirType, AcceptRenames DEF Toss
  <2>4. ASSUME NEW x \in Areas, NEW base \in Bases, NEW d \in Contents,
               HatchFails(x, base, d)
        PROVE  Holds(disk'[a], c)
    BY <2>1, <2>4, DirType, FailRenames DEF HatchFails
  <2>5. ASSUME NEW x \in Areas, NEW base \in Bases, NEW d \in Contents,
               NEW names \in setup.replaces, NEW alt \in setup.altFile,
               TossFails(x, base, d, names, alt)
        PROVE  Holds(disk'[a], c)
    BY <2>1, <2>5, DirType, FailRenames DEF TossFails
  <2>6. a # "pass" /\ a \in Places
    BY StoreAssumption DEF Places
  <2>7. ASSUME NEW x \in Areas, NEW f \in FileName, NEW l \in Links, Send(x, f, l)
        PROVE  Holds(disk'[a], c)
    <3>1. disk'[a] = disk[a]
      BY <2>6, <2>7 DEF Send, TypeOK
    <3> QED
      BY <3>1
  <2>8. ASSUME NEW p \in post, TmpDir(p) PROVE Holds(disk'[a], c)
    BY <2>8 DEF TmpDir
  <2>9. ASSUME NEW l \in Links, MailerLock(l) \/ MailerUnlock(l) \/ RemoveStale(l)
        PROVE  Holds(disk'[a], c)
    BY <2>9 DEF MailerLock, MailerUnlock, RemoveStale
  <2>10. ASSUME NEW e \in flo, MailerSend(e) PROVE Holds(disk'[a], c)
    BY <2>10 DEF MailerSend
  <2>11. ASSUME CleanPass PROVE Holds(disk'[a], c)
    BY <2>6, <2>11 DEF CleanPass, TypeOK
  <2>12. ASSUME NEW x \in Areas, NEW f \in FileName, Purge(x, f)
         PROVE  Holds(disk'[a], c)
    BY <2>6, <2>12 DEF Purge, TypeOK
  <2>13. setup.areas \subseteq Areas /\ setup.links \subseteq Links /\ fresh \subseteq Contents
    BY SetupType DEF TypeOK, SetupData
  <2> QED
    BY <2>2, <2>3, <2>4, <2>5, <2>7, <2>8, <2>9, <2>10, <2>11, <2>12, <2>13 DEF Next
<1>2. Spec => []TypeOK
  BY TypeCorrect
<1> QED
  BY <1>1, <1>2, PTL DEF Spec, RenameKeeps
=============================================================================
