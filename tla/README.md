# A TLA+ model of htick

htick is a file ticker for FidoNet systems: it takes files that come with
tickets (.tic files) out of the inbound, stores them in file areas (file
echos) and forwards them to the links that subscribe to the area. This
directory models what htick does to files, tickets, flow files and lock files,
checks the model with TLC on small instances, and proves the most important
results with TLAPS for every instance.

References such as toss.c:2195 are to files under src/ of the repository.

## 1. The system

A run of htick is a short process, started by cron or by a mailer's event with
commands on its command line (`toss`, `hatch`, `filelist`, `announce`, ...). All its
state is in files that other processes see as well: further htick runs, the
mailer, the sysop with an editor.

| Component | State | Operations | Source |
|---|---|---|---|
| Outbound queueing | per link a flow file, a .bsy file, a file box; tickets in ticOutbound and busyFileDir; the lock file | PutFileOnLink, checkTmpDir, createOutboundFileNameAka, the mailer's sessions | hatch.c, toss.c, fcommon.c, htick.c |
| File echo distribution | tickets under way, their seen-by lists, the files of each system | hatch, processTic, sendToLinks, send, %resend | toss.c, hatch.c |
| Seen-by list | the array of addresses in a ticket | seenbyComp, seenbyAdd, cmp_Addr, seenbySort | seenby.c |
| File access | groups, levels, subscriptions | checkAccessAndOptGrps, e_readCheck, e_writeCheck | htickafix.c |
| Stored files | the directories of the areas, passFileAreaDir | sendToLinks, altFilename, removeFileMask, clean, purge | toss.c, hatch.c, clean.c, fcommon.c |
| Inbound tossing | tickets and files in the inbound, the suffixes of tickets | processDir, processTic | toss.c |
| Ticket text | the lines of a ticket | writeTic, parseTic, checkTic | toss.c |
| Filefix commands | subscriptions and pause in fidoconfig | processFileFix, filefix_processcmd, resend, ffix | htickafix.c |
| Netmail scan | the netmail area, attribute "read" of its messages | scanNMArea | scan.c |
| File descriptions | files.bbs of each directory | add_description, removeDesc, GetDescFormBbsFile, macros of hatch | add_desc.c, hatch.c |
| File lists | the list file, files.bbs | filelist, printFileArea, ParseBBSFile | filelist.c |
| Announcements | the announce spool | doSaveTic4Report, report | report.c |
| Startup | the lock file, the order of commands | processConfig, main | htick.c |
| Helpers | - | IncBigSize, IncBigSize2, PrintBigSize, removeFileMask | fcommon.c |

How they interact: toss takes a ticket from the inbound (*Inbound tossing*),
reads it (*Ticket text*), asks whether its sender may write to the area (*File
access*), stores the file (*Stored files*), chooses the links that may read and
have not seen it (*File echo distribution*, *Seen-by list*) and puts the file on
each of them (*Outbound queueing*), from where the mailer brings it to the next
system's inbound. On the way it enters the file in files.bbs (*File
descriptions*), which filelist and later hatches read, and leaves a cut-down
ticket in the spool (*Announcements*). Links change their subscriptions, which
*File access* reads, by netmail (*Netmail scan*, *Filefix commands*).

What is hard in it:

* Several processes use one link's flow file; the .bsy file is all that keeps
  them apart, and a process may die while it holds one.
* A ticket for a busy link is postponed: it goes to busyFileDir and a later run,
  with a possibly different configuration, sends it.
* A file is queued by its path. Until the mailer comes it can be replaced,
  renamed, cleaned away.
* File names are not unique; the checksum in the ticket tells files apart, and
  toss exchanges names in three renames, each of which may fail.
* A network of tickers has cycles. Only the seen-by list keeps files from going
  round for ever, and there are no acknowledgements.
* files.bbs is a text in which an entry is a line and what follows it; it is
  changed by copying it without an entry and moving the copy over it, and by
  appending to it, by every command, and read again hours later.
* An announcement is written first and its ticket removed afterwards; requests are
  executed first and marked afterwards. A run may die in between, and meanwhile
  files and mail go on arriving.
* A message base renumbers its messages when one is killed, in the middle of the
  loop over their numbers.
* Nearly every file operation can fail, and the error paths are rarely taken.

What makes each component correct:

* Outbound: a link is used by one process at a time; a flow file never names a
  ticket that is not there; what was taken is sent, once, to every link.
* Distribution: nothing comes back; nobody gets a file twice (where the network
  allows that to be promised); what a seen-by list says is true; every file
  comes to every system; the flooding ends.
* Seen-by list: it is a set, and its order does not depend on the order of
  insertion.
* Access: exactly what the settings say, and granting more never takes away.
* Stored files: what is sent is what the ticket describes; nothing is deleted
  that is still needed.
* Inbound: a file is never lost, never in two places, never taken for another; a
  ticket is not dropped and is tossed in the end.
* Ticket text: what one system writes the next one reads.
* Filefix: every request is executed, answered and then put away, in the order of
  sending, not again, and nobody else's mail is touched.
* Descriptions: a file keeps the description it was given, whatever happens to the
  entries of others. Lists: complete, true, with the right total.
* Announcements: none is lost, none is posted twice unless a run died, and a message
  lists what it should.
* Size counters: the total is the sum.

## 2. The modules

| Module | What it is |
|---|---|
| `Delivery` | abstract specification of the outbound: a file taken is owed to each link, and handed over once |
| `Outbound` | the outbound step by step; implements `Delivery` |
| `MCOutbound` | its small instances |
| `OutboundProofs` | its theorems |
| `FileEcho`, `MCFileEcho`, `FileEchoProofs` | distribution in a network |
| `SeenBy` | the seen-by list, as `Tic` uses it |
| `FileAccess` | reading and writing an area, and the settings |
| `Filefix`, `MCFilefix`, `FilefixProofs` | netmail scan and filefix commands, on top of `FileAccess` |
| `Store`, `MCStore`, `StoreProofs` | directories and the outbound entries that refer to them |
| `Toss`, `MCToss`, `TossProofs` | the inbound |
| `InductionLemmas` | least and greatest numbers, induction over numbers and over lists, and the existence of what the folds of the community modules choose; shared by `StoreProofs`, `TossProofs`, `TicProofs`, `FilefixProofs` and `CatalogProofs` |
| `Tic`, `MCTic`, `TicProofs` | the text of tickets, with the seen-by list of `SeenBy` |
| `Descriptions` | files.bbs: what is written to it and read from it |
| `BigSize` | the size counters |
| `Catalog`, `MCCatalog`, `CatalogProofs` | runs that store, describe, list and announce files, composed of `Descriptions` and `BigSize` |

Operators whose comment begins with "Defect:" are wrong variants of the
definition that follows them. Each property has been seen to fail when such a
variant takes the place of the definition, so none holds by the shape of the
model alone.

### Outbound

One action per step at which another process can come in between. `pc[r]` is the
place of run `r`: `tmp...` are the steps of checkTmpDir (toss.c:2096-2241),
`put...` those of PutFileOnLink (hatch.c:599-776) called by sendToLinks. A job is
a (file, link) pair and has one ticket, `ticAt`. `bsy[l]` says who created the
link's .bsy file, `flo[j]` how often a job is listed in the flow file, `box` what
is in a file box, `sent[j]` how often the mailer has sent it. `err` and `busy` are
the C variables of these names; `err` is set by a failed move and never reset, as
in the code. The mailer and the sysop are actions of the environment.

`Faults` selects what may go wrong: tickets that cannot be written or moved, a
.bsy file that cannot be created (htick exits), a file box that cannot be written,
crashes, changes of the configuration between runs.

### FileEcho

Each node runs one htick at a time. `copies` are files with tickets between two
systems, `job[n]` is sendToLinks at work: `tic` is the ticket as it came (the
code's old_seenby included), `seenby` the list that goes out, `todo` the downlinks
left. `via` is a history variable: the addresses a copy has been handed to.
Addresses and nodes are different things, so that systems with several addresses
can be modelled. Send may go to any link of the area.

### SeenBy, Tic

`SeenBy` has the operations on the array (`list`) and the set of addresses that were
added (`added`). `Tic` composes it with the text of a ticket: `WriteTic` gives the
lines, `ParsedTic` the fields, `CheckBad` and `ParseBad` the reasons to refuse a
ticket; a ticker begins a list (`Open`), adds the addresses of the Seenby lines and
then those sendToLinks adds (`AddNext`), one by one, sorts the list and writes the
ticket for the next (`Relay`). A ticket is passed on `MaxHops` times, and the file
may be damaged under way.

### FileAccess, Filefix

`FileAccess` computes the checks in the order of the code and compares them with a
declarative definition, while the settings are edited one at a time. `Filefix` extends
it with the robot. A mail has a number and a slot in the message base; `i` and `high`
are the loop variables of scanNMArea, `todo` the lines of the request left, `report`
whether processFileFix has collected text, `result` what it returned. One action is
one line of a request, the marking, the killing: between any two of them mail may
arrive or the run may die. `done` counts, for each mail, how often it was begun and
finished, the replies, and the files resent. A `*.msg` base leaves a hole where a
message was killed, a Squish base moves the later ones up. Subscribe, unsubscribe,
pause and resume are the areafix library's, modelled by what they do to fidoconfig.

### Store

The directories are functions from names to contents (a checksum); a name is a
base with the number that altFilename has put in. A toss or hatch is one step (its
inner steps are Outbound's subject). The configuration is one of `Setups`, chosen
at the start: every action reads it through `setup`. `ViaPass` says which files are
copied to the area, moved on to passFileAreaDir and queued from there: those of an area
with sendorig, those that rename has given another name, and those whose ticket has
come with an AltFile line (toss.c:1081; `altFile` of the configuration).

### Toss

Every ticket has a suffix (`where`), every file a name in `inbound`. The checks of
processTic are numbered in their order (`Passes`), with the verdict of each
(`Verdicts`); processDir turns the verdict into a suffix (`Renamed`). The exchange
of names is a sequence of steps, so that a crash or a failing rename can happen
between any two. After it, processTic goes on behind the comparison of the checksum
(`FirstCheck`): what is under the name then is taken without another look. The
configuration has defects that the sysop repairs one after
the other. As in `Store`, the situation is one of `Setups`.

`took[t]` is the file that sendToLinks has put into the area for ticket `t`; `copied` are
the tickets whose file could be copied to the area and not moved on to passFileAreaDir,
so that it is in the area and in the inbound. This is where the module ends: whether the
area keeps the file, or a later one of the same name or a Replaces line takes it away, is
the subject of `Store`.

### Descriptions, BigSize, Catalog

A line of files.bbs has a mark (a word, a blank or '>'), its first word and its text;
`Descriptions` has add_description, removeDesc, the two readers and the macros as
operators on sequences of lines. removeDesc drops every line in which strtok finds no
word (`IsBlank`), whatever file it is called for. `BigSize` has the counters of fcommon.c.

`Catalog` runs them. `pc[r]` is the place of run `r`; `cmds[r]` the commands it still
has to execute, in the order of main. removeDesc is two steps (`Copy` writes
files.bbs.tmp, `Move` moves it over files.bbs), as is doSaveTic4Report (`Save` creates
the copy, `Fill` closes it). A files.bbs.tmp that a run has left when it died is a file
of the directory for filelist (`Present`, `Tmp`), until the next removeDesc moves it away.
`tree`, `gone` and `snap` are what a run has read before
and uses later: the tree of descriptions, the names to remove, the sorted tickets.
`tickets[n]` is the cut-down ticket of a file, and `TicSize` the size it is read back with:
that of an empty file is not written, and parseTic leaves -1 (`Word` - 1). History variables: `told[f]`, the
description given to `f` last, and `posted`, how often a definition has posted a
ticket. The sysop adds and removes files and areas between runs. `Setups` are the
configurations: lock file, advisory lock or none; with or without spool; the mark
of continuation lines; the definitions of announcements.

## 3. The runs

| Run | Instance | States | What it shows |
|---|---|---|---|
| `OutboundSafe` | 2 files, 2 links (1 with file box), 2 runs, lock file, configuration changes | 922 368 | a job is queued or sent at most once; nothing that was taken is lost; every ticket in ticOutbound is listed; no .bsy file is left; the model implements `Delivery` |
| `OutboundCrash` | 1 file, 2 links, 2 runs without lock file, crashes and I/O faults | 141 542 | the .bsy file excludes; ticket before flow file; postponed tickets are moved under the .bsy file only |
| `OutboundLive` | 1 file, 2 links, configuration changes, fairness | 9 056 | what has a ticket is sent |
| `FileEcho` | 4 systems (a triangle and a fourth behind one with two addresses), 2 files, fairness | 13 012 | seen-by lists are true; no duplicates; every file comes everywhere; flooding ends |
| `FileEchoFaults` | the triangle and the fourth, a system listed under two addresses, all faults | 1 781 655 | no copy goes back to an address it has passed |
| `Store` | 5 configurations, one of them with failing moves, one with AltFile lines, 1 name, 3 versions, 1-2 links | 666 550 | queued files of a noreplace area match their tickets; clean keeps what is unsent; a .bsy file that clean leaves holds up nothing queued; rename keeps all versions |
| `Toss` | 4 situations, 3 tickets, 3 files, 4 names, fairness | 45 699 | no file in two places, lost from the inbound or taken for another; no ticket dropped; every ticket is tossed once all is repaired |
| `TicRelay` | up to 4 systems, all combinations of missing lines, damaged files | 40 033 | tickets stay readable, keep content and path; the list is a set in a canonical order; damage is noticed |
| `Filefix` | 3 mails of 7 kinds, both message bases, killing or not, 1 crash; apart from that 1 area and 1 link with all settings, 2 groups, 2 levels | 1 159 162 | every request is executed, answered, put away, once, in order (but see observation 18); access is what the settings say; more rights never take away any |
| `Catalog` | 4 configurations, 2 files, 3 areas, 2 runs, 2-3 files stored, an empty one among them, 1 fault | 2 468 686 | descriptions are kept; the file list is right; nothing goes unannounced; messages are right and not repeated |
| `StoreRenameBusy` | the configuration with rename | | finds the disagreement 1 of section 6 |
| `TossTransitBusy` | tickets in transit, a busy link | | finds the disagreement 2 |

Why these bounds are enough. In `Outbound` two processes are what is needed for a
race on a link, and two links what is needed for one ticket of a pass to influence
the next (`err`); the properties relate one job to one link. In `FileEcho` three
systems give a cycle and a fourth a path through it; the two files do not interact
except through noreplace. In `Store` three versions of one name give an old one, a
new one and one in between. In `Toss` two files of one name and a third file make
the exchange of names, and its disturbance by another ticket, possible. In `Filefix`
three mails make one that is killed, the one that moves into its place and one that
arrives meanwhile. In `Catalog` one file has a long name (its description begins on
the next line), one description has a line that begins with the name of the other
file, and the sizes carry from one counter to the next; two tickets of one area and
one of another, stored in every order, are what sorting and the list of areas need.
`Word` stands for 2^32 and is small enough for a total to wrap.
`MaxCopies` bounds the copies that may be under way when an extra one is made by a
repetition or a resend; without it the number of states is the same for the
protocol but not finite for the faults in practice. `AltLimit` stands for the 99
of altFilename, `LastSuffix` for the suffixes of one name, `MaxHops` for the length
of a ticket's way.

The type invariants of `Outbound`, `FileEcho`, `Filefix` and `Store` are not in the
runs: they are proved (section 4).

Runs with CHECK_DEADLOCK FALSE: in `FileEcho`, `FileEchoFaults`, `Toss` and
`TicRelay` the files of an instance are used up at some time, and then nothing
happens any more.

Fairness. `Outbound`: htick is started again and again and a run goes on (weak
fairness of the step of some run); mailer sessions with each link come and end and
get through their queue; and, strongly, a postponed ticket does not meet a busy
link every single time (TmpLock), which is what "try again later" relies on: with
a mailer that is in session whenever htick runs, a postponed ticket waits for ever.
`FileEcho`: a started run goes on, a copy is tossed at some time; there are no
losses in that run. `Toss`: htick runs, with and without -b; the mailer delivers
what was sent; the sysop repairs. `Served` speaks only of situations without faults.
`Filefix`: htick ffix is started again and again and goes on while it runs (weak
fairness of `Scan`); the number of mails and crashes is bounded. `Catalog` has no
liveness property: that tickets are announced in the end follows from the next run
of announce, and with its size the run would not finish in time.

## 4. The proofs

`OutboundProofs`, for all sets of files, links and runs and all faults:

* `TypeCorrect`. The type invariant is strengthened with `CurOK`: a run at a step
  that works on a job has one.
* `BsyMutex` (`BsyExclusive`): with `CurOK` inductive: a step that begins to use a
  link creates its .bsy file, and nobody removes one that is in use.
* `TicketFirst` (`TicBeforeFlo`) needs `TicketOK`: what is known of the job's ticket
  at each step between writing or moving it and the flow file (`PutOK`, `MoveOK`),
  which holds only because the .bsy file keeps every other run away.
* `PostponedUnderBsy`: an action property, from the same invariant.
* `RunsOneByOne`, `SentOnce` (`AtMostOnce`) and `Refinement` (`ImplementsDelivery`)
  assume `UseLockFile`. `CopiesOK` counts, for each place of a run, how many copies
  of its jobs exist; it needs that no second run is in between. Without the lock
  file two runs can toss one file twice, which is why these are not claimed for it.
* `NothingLeftLocked` (`NoStaleBsy`), `OutListed` (`OutReferenced`) and `NothingLost`
  (`AcceptedNotLost`) need no lock file. Each assumes away the faults that break it
  (observations 3 to 5): crashes and failing ticket writes; crashes and failing moves; all
  faults. `ListOK` and `TakenOK` say between which two steps a ticket may be in
  ticOutbound unlisted, or a job be nowhere but in the hands of a run.

`FileEchoProofs`, for all networks, address tables and access rights:

* `TypeCorrect`, `NeverReturns` (`NoReturn`) with all faults: `ViaOK` says that every
  address a copy has been handed to is in its seen-by list, is the sender, or is
  the origin - one of those sendToLinks leaves out. 
* `SeenByTrue` (`SeenByTruthful`) if nothing is lost and nothing crashes: `KnownOK`
  says what a run has still to do for the addresses that it has already listed.

* `NoFileTwice` (`NoDuplicate`), for networks in which it is true (`Clustered`): every
  cycle of links lies among systems that are all linked with each other, and two systems know
  each other by one address each. Trees and full meshes are of this kind, and the network of
  the run `FileEcho` (TLC evaluates it); in a square a file arrives twice in the code as well.
  `Clustered` gives for each system that hatches a function that leads towards
  it (`Towards`); the invariant `Spread` says that every copy, and everything a run has
  still to send, goes one step away from the system that hatched the file, to one that has
  neither had it nor is being sent it. Crashes and losses are allowed; repeated
  deliveries, resends and foreign tickers are what the property excludes.

`TicProofs`, for any addresses, names, sizes, missing lines and number of hops:

* `CmpTotal` and `CmpTransitive` make cmp_Addr the total order qsort needs;
  `SeenByIsSet` (`ListIsSet`) follows for any sequence of additions and sorting;
  `SortingIsCanonical` (`SortCanonical`): a sorted list of a set is unique, by induction
  over the place of the first difference.
* `RoundTrip`: parsing gives back what was written, for every ticket, by
  induction over the lines. On it rest `ContentIsKept` (`ContentKept`),
  `DamageIsStopped` (`DamageStops`), `TicketListIsSet` and `WrittenIsAccepted`
  (`WrittenIsRead`). The last one assumes that no file is empty and no foreign ticket
  lacks both Crc and Size (`Unsound`), for the code refuses what it writes then
  (observations 8 and 9). `TicInv` says what the ticket in memory and the text under way have
  of the ticket that was hatched.

`FilefixProofs`: `AccessIsExact` and `RelaxingIsSafe` for any groups and levels.
`RequestsHandled` (`HandledOnce`) for any mails, message bases and number of crashes.
It is inductive only with three more parts: `SlotOK`, no message is in two slots;
`MailOK`, what the books say of a mail according to whether it is there and read, with
one unfinished execution for each run that has died; `RunOK`, that the slot of the loop
variable still holds the mail being handled - which is where new mail at the end of
the base and the renumbering of a Squish base come in.
`RequestsObeyed` (`Obeyed`), for the same. Its argument has three layers. First, what a
list of commands leaves of a subscription: a fold, of which `EffectLast` and `WantedLast`
say by induction that each part (subscribed, paused) is what the last command says that writes
it. Second, the order (`Ordered`): slots are in the order of arrival, no
request waits in a slot that the run has passed, and while a request waits no later one has
been put away. Third, `SubOK`: a part of the subscription is what the last word says,
unless a waiting request, or a line of the one in work, is going to write it. This holds
over a crash, because a request that was executed and not marked waits still, and all
after it. Of the replies, `WorkOK` counts those of the lines executed so far. The proof found what
the run of TLC was too small for, that mail may arrive in a slot the run
has passed (observation 18); the property excludes it (`behind`), and so does the theorem.

`CatalogProofs`, for any files, texts, areas and sizes, any number of runs and any
configurations:

* The size counters. `TotalIsExact`: added to a normal total, any size gives a normal
  total that is larger by exactly this size, `SplitSize` and `AddCounters` being the two
  halves; one carry per counter suffices only because the counters are below their
  units. `PrintedBySum`: what is printed depends on the sum alone.
* files.bbs, by induction over its lines. `RemoveDescRight`: removeDesc takes the entries
  of one file and no other. Of the description of another file it keeps what is `Written`:
  all lines, but for the empty ones where lines start with a blank; and it may cut it only
  where a line begins with the name (`Safe`). `Corresponds` relates the lines read to the lines kept:
  the entries and descriptions of other files, and whether the last line belongs to
  them. `AddDescriptionRight`: the others are left alone, and what is read back is the
  description or, for a long name, the description after an empty line.
  `MissingNamesRight`: the names that filelist removes.
* Reports, by induction over the tickets and then over the areas (`MessageRight`).
  An empty file counts for `Word` - 1 in the sums, as in the code.
  That the tickets of an area follow each other in the sorted spool makes the offsets
  and counts of buildAccessList right (`OneBlock`); that no area comes twice makes the
  totals right.
* `TypeCorrect` (`TypeOK`) from `Core`: what a run holds at each step (`RunOK`); no two
  runs store one ticket, and what a run read from the spool is sorted, without
  repetition, saved or already gone (`SInv`); with a lock an active run is alone
  (`Alone`).
* `NoneUnannounced` (`NothingUnannounced`) and `ReportsAreRight` (`PostedRight`) from
  `AInv`, inductive together with `Core`. `NothingUnannounced` speaks of tickets that are
  gone, and of the runs it needs: which definitions a run is past (`Past`), that each of
  them has announced what the run read before (`AnnOK`), and that only such tickets are
  marked. Nothing of this needs a lock: a second run with the same tickets only posts
  them again. `Once`, for runs with a lock that do not die, says where a ticket is
  after it was posted: in the hand of the run, or gone.
* `DescriptionsAreKept` (`DescriptionsKept`) and `ListIsRight` (`ListedRight`) from `DInv`,
  inductive together with `Core`. It says what files.bbs.tmp holds between copying and moving, that
  one is there otherwise, or named in files.bbs, only if a run has died (`TmpOK`), and that a
  file has no entry between removal and addition (`BbsOK`); that a file hatched
  with the description it has is given what it had (`Again`); and, for a list in the
  making, that the tree read at its start still agrees with files.bbs, which entries the
  list has, and that whatever files.bbs names in excess is among the names to be removed
  (`TreeOK`, `ListOK`); the files listed and those left are the directory, but for
  files.bbs.tmp (`Covers`). Descriptions are compared as readers find them (`Shown`),
  without the empty lines that any removeDesc may have dropped. All of it holds only if no second run changes files.bbs: with
  setup.lock = "none" it does not.

`StoreProofs`, for any configurations of areas and links:

* `TypeCorrect`, `ProtectedIsSent` (`ProtectedMatch`) and `LeftIsIdle`
  (`LeftHoldsUpNothing`) from one inductive invariant. `KeptOK`: what an area with
  noreplace has queued or postponed is in its own directory, under the name and with
  the checksum of the ticket, unless it has come with an AltFile line, which the property
  leaves out (observation 33); the steps of all other areas have to leave that
  directory alone, failing moves included. `SepOK`: a link with something in its flow
  file has a .sep directory (with separateBundles), so that clean does not leave its
  .bsy file - and nobody is queued for while a .bsy file is there.
* `CleanKeeps` (`CleanKeepsUnsent`): `PassOK` adds what the property leaves out, that
  a postponed ticket of an area with sendorig has its file in passFileAreaDir, from
  where it will be queued; every step but clean only adds to that directory.
* `RenamingKeepsAll` (`RenameKeeps`), for areas with noreplace, and for others as long as
  there are no Replaces lines, while altFilename still finds a free number (`Room`, see
  observation 6): the name a file is stored under was free (`FreeName`).

`TossProofs`, for any tickets, files, suffixes and all faults:

* `KnownOK`: a ticket that is here is one that was sent. `Apart`: a file is in at most
  one of five places (under one name in the inbound, under the temporary name of an
  exchange, with the ticket that took it, passed on, stray), which is what `Places`
  counts. `DroppedOK`: a ticket that is gone took its file or was given up, or was in transit
  when a link was busy or a move failed. `SwapOK`:
  as long as no mailer interferes, the name that is free during an exchange stays free.
  `ExchangeOK`: during an exchange the file with the checksum of the ticket is under the
  name where it was found, and then under the ticket's, until the ticket is settled; on it
  rests that what is taken without another comparison is right.
* `NothingDeleted` speaks of the inbound: a file leaves it only into its area or to another
  system. What an area does with its files is the subject of `Store`.
* From these `NeverTwice` (`InOnePlace`), `RightFileTaken` (`TakenIsTicketed`),
  `TicketsKept` (`NoTicketDropped`) and `FilesKept` (`NothingDeleted`). They need
  `NoneAssumption`: the value for "no exchange" is not an exchange.

Only checked by TLC: all liveness (`Delivered`, `ReachesAll`, `Quiet`, `Served`,
`Answered`), which the prover does not treat with fairness. Every other property of the
runs is stated by a theorem. Induction over data is done where the definition is a fold
or a function: the library's induction theorems take an operator and cannot be used, but
those of `InductionLemmas` take a set. Nothing is assumed in the proofs but the named
assumptions on constants at the head of each module, which TLC evaluates in every run,
and the conditions on `UseLockFile` and `Faults` that the theorems state.

## 5. What is not modelled

* The conversion of the case of file names (filecase.c): the mapping of characters,
  and the search for a file in a directory whatever its case.
* In filefix: patterns of area names, forward requests, reports of autocreation, the
  texts of the answers; the areafix library itself; relink and resubscribe.
* In announcements: header and layout of messages. In descriptions: @DIZ and @file
  macros, unpacking of file_id.diz (its text is an input), download counters,
  recoding, fileLDescString other than blank and '>'. In file lists: BBS areas, layout.
* Ticket origin checks, how passwords of tickets are compared (`Toss` has whether they
  are right), and forward requests to uplinks, flavours
  of flow files, netmail attaches.
* In `Outbound` a crash in the middle of sendToLinks loses the links not reached:
  the ticket is gone and there are no acknowledgements. The model does the same;
  no property promises more.
* purgeOldTics (clean.c:317) deletes old copies of tickets that nothing reads again. A
  move that fails and damages the file it should have replaced (that is huskylib's).
* In `Catalog`, several areas with a directory: each has a files.bbs of its own. A
  files.bbs or files.bbs.tmp that cannot be opened or moved. Entries for the names that
  rename or an AltFile line give to a file.
* Size and date of files; the tokens of ticket lines.

## 6. Observations

Disagreements of code and documentation that a run shows:

1. `StoreRenameBusy`. In an area with -rename a file whose name exists is stored
   under another name, and sent under its own from passFileAreaDir. A ticket for a
   busy link is postponed, and checkTmpDir (toss.c:2164) later works out the path
   from the area and the ticket's name: the link gets the older file.
2. `TossTransitBusy`. In the branch for tickets in transit every outcome is TIC_OK
   (toss.c:1622), so the ticket is deleted also when the link was busy or a move
   failed.

Further ones that the model shows when its constants are changed:

3. `OutReferenced` with "moveTic" in `Faults`: `error` (toss.c:2204) is not reset
   for the next ticket, which is moved to ticOutbound and never listed.
4. `NoStaleBsy` with "writeTic": when a ticket cannot be written PutFileOnLink
   leaves its own .bsy file (hatch.c:679-687, busy = 1).
5. `AcceptedNotLost` leaves out noTIC links: for a busy one nothing remembers the
   file (hatch.c:666).
6. `RenameKeeps` without `Room`: with as many versions as `AltLimit` altFilename returns a
   name that is taken (toss.c:912).
7. `CleanKeepsUnsent` leaves out files queued without ticket, and separateBundles:
   clean removes such files unsent (clean.c:166, clean.c:236). With separateBundles
   it also leaves a .bsy file for each link without .sep directory (`CleanPass`).
8. `WrittenIsRead` with 0 in `Sizes`: parseTic refuses the ticket that writeTic
   writes for an empty file (toss.c:623).
9. A ticket without Crc line and without Size line is accepted (`Unsound`). It is
   forwarded with the size of the file, but still without Crc, and such a ticket the
   next system refuses.
10. When the third rename of an exchange fails, the other file is removed
    (`SwapBackFails`, toss.c:1899).
11. The search for a file of the right checksum opens bare names and works only
    when htick is started in the inbound (`cwdIsInbound`, toss.c:1785).
12. After an exchange of names the checksum is not compared again (toss.c:1899). A wrong
    file is taken only if a mailer takes the right one away and puts another in its
    place between the third rename and sendToLinks, as it may when a ticket in transit
    names it ("race"; `TakenIsTicketed`).
13. A system with several addresses in one area may get a file once for each.

Of filefix (`Filefix`):

14. Whether an indented command line is executed depends on the order in which C
    evaluates the arguments at htickafix.c:547: stripLeadingChars and filefix_tellcmd
    both write to the line (`stripFirst`).
15. Mail of a link to another address of ours than the one the link uses is left as it
    is, and looked at by every scan (`NotForMe`). %info is recognized and not answered
    (htickafix.c:452). "%avail" and its like with trailing blanks are errors.
16. %resend needs no read access to the area; only for a manual area the link has to
    be subscribed (htickafix.c:244).
17. A run that dies after it has executed a request and before it has marked it executes
    and answers it again. The subscription is the same afterwards (`Obeyed`).
18. A Squish base from which the last messages were killed is shorter than the run has come.
    Mail that arrives then gets a slot the run has passed, and waits for the next run,
    while mail that comes after it may be executed in this one: requests of one link
    out of order (`behind`).

Of descriptions, lists and announcements (`Catalog`):

19. removeDesc removes a continuation line of another file when its first word is the
    name to be removed and continuation lines begin with a blank (`MayLoseLines`).
20. Without a lock file two runs share files.bbs.tmp, and a description can be lost;
    `DescriptionsKept` is stated for runs that a lock keeps apart.
21. A run that dies between removeDesc and add_description leaves the file without
    description; filelist enters it with "Description not avaliable". One that dies
    between storing the file and doSaveTic4Report leaves it unannounced.
22. A report to a file ('@') that cannot be opened still removes its tickets
    (`unwritten`, report.c:630), and the file is overwritten by the next report.
23. The size of an area in a message is a 32 bit sum (`Word`); the total of the message
    is not, but is made of these sums.
24. A ticket in the spool whose area is no longer configured, or that no definition
    matches, stays there.
25. A file without Desc that was hatched with a macro for which nothing was found may
    get no entry at all (`AddDescription` with an empty description).
26. filelist looks up names in the case of the directory, add_description writes them
    in the configured one: a file in another case gets a new entry each time. A
    fileLDescString such as "+" is written but not recognized by the readers.
27. relink that fails returns from main without removing the lock file (htick.c:722).
28. A run that dies in removeDesc leaves files.bbs.tmp in the directory. The next filelist
    that finds it lists and counts it as a file of the area and enters it in files.bbs
    (filelist.c:396-418; `Present`). Its entry goes away with the first filelist after the
    next removeDesc.
29. The size of an empty file is not written to the announce spool (report.c:134), parseTic
    leaves -1 for it, and this is added: a message gives an area one byte less than it
    has for each empty file, and an area of one empty file 2^32 - 1 (`TicSize`).
30. removeDesc drops every line of nothing but blanks (add_desc.c:245-259, `IsBlank`). Where
    continuation lines start with a blank, the empty lines of all descriptions in
    files.bbs go when any file is stored (`Written`).

Of stored files (`Store`) and the inbound (`Toss`):

31. When a move fails after Replaces, the old files are gone and the new one is not
    there (`TossFails`, toss.c:1018-1041 before toss.c:1084). In an area with rename or
    sendorig a copy that fails second leaves the file stored but undistributed; when
    the ticket is tried again, rename stores it a second time.
32. In an area with sendorig and noreplace, or with an AltFile line, a file that could be
    copied to the area and not moved to passFileAreaDir is never distributed: at the
    next try the copy stands in the way of its own ticket (`copied`, toss.c:1069).
33. parseTic reads an AltFile line "just for reports" (toss.c:596). But sendToLinks takes
    any AltFile for a sign that rename has given the file another name (toss.c:1081): the
    file is copied to the area and queued from passFileAreaDir, where another file of its
    name may replace it, noreplace or not (`ProtectedMatch` excepts such a file). The
    entry in files.bbs is made for the name in the line, which no file has (toss.c:1179).

## 7. Plan

Done, in this order: Outbound with Delivery and its proofs; FileEcho and its proofs;
SeenBy; FileAccess; Store and its proofs; Toss and its proofs; Tic, with SeenBy;
Filefix and its proofs; Descriptions, BigSize, Catalog and their proofs.

Next:

1. Outbound with forward requests to uplinks, and flavours of flow files.
2. An abstract specification of the announce spool (a ticket is saved, announced by each
   definition, removed), implemented by Catalog: `AInv` has what the refinement needs.
   One of a file area (what links see of it), implemented by Store.
3. The safety half of the liveness properties: in each state in which nothing more can
   happen, what should have happened has.
