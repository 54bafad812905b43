-------------------------------- MODULE Tic ---------------------------------
(***************************************************************************)
(* The ticket as text, on its way from htick to htick: what writeTic       *)
(* writes, what parseTic and checkTic make of it, and what a ticker        *)
(* changes in a ticket that it forwards (hatch, processTic, sendToLinks,   *)
(* PutFileOnLink).                                                         *)
(*                                                                         *)
(* A text is a sequence of lines [key, value].  Number n of the chain has  *)
(* the number n for its address, and HsAddress[n] in seen-by lists; 0 is   *)
(* no address, no checksum and the size of an empty file.  A ticker reads  *)
(* and extends the ticket's seen-by list address by address (SeenBy).      *)
(***************************************************************************)
EXTENDS Integers, SequencesExt, SeenBy

CONSTANTS
  MaxHops,   \* bound: the length of the chain
  Sizes,     \* sizes of files
  NoValue,   \* a missing line
  Lacking,   \* sets of lines that foreign tickets may lack
  Strange,   \* texts with a keyword htick does not know, or none
  Fsc87,     \* nodes that take their links' tickets to be FSC-87 only
  NoCrcArea, \* nodes whose area has noCRC
  Damage,    \* whether files may be damaged under way
  HsAddress, \* [number -> Addresses]
  Sighted    \* seen-by lines of foreign tickets, as sequences of numbers

(* The names and texts that occur. *)
Words == {"f", "g", "a", "d", "l", "m", "x", "*", "no desc", "secret"}

(* The lines of a ticket; "Strange" is no keyword. *)
Keywords == {"File", "Area", "Desc", "LDesc", "Replaces", "From", "To", "Origin", "Size",
             "Date", "Crc", "Path", "Seenby", "Pw", "Strange"}

ASSUME TicAssumption ==
  /\ MaxHops \in Nat \ {0} /\ Sizes \subseteq Nat
  /\ NoValue \notin Words \cup Int \cup HsAddr
  /\ Fsc87 \subseteq Nat /\ NoCrcArea \subseteq Nat
  /\ Damage \in BOOLEAN
  /\ HsAddress \in [DOMAIN HsAddress -> Addresses]
  /\ (1 .. MaxHops + 1) \cup {9} \subseteq DOMAIN HsAddress
  /\ Sighted \subseteq Seq(DOMAIN HsAddress)
  /\ \A strange \in Strange :
       {strange.before, strange.after} \subseteq Seq([key : {"Strange"}, value : Words])

VARIABLES
  text,   \* the ticket under way
  file,   \* the file under way: [size, crc]
  first,  \* what the first ticket said
  hop,    \* tickers that have forwarded it
  fate,   \* "none" at first, "way", "reading" and "adding" at a node,
          \* "bad" (renamed) or "waiting"
  tic,    \* the ticket in the memory of the node, but for its seen-by list
  todo    \* addresses still to be added to the seen-by list

vars == <<text, file, first, hop, fate, tic, todo, list, added>>

Fates == {"none", "way", "reading", "adding", "bad", "waiting"}

(* CRC32 of an empty file is 0. *)
CrcOf(size) == IF size = 0 THEN 0 ELSE 100 + size

-----------------------------------------------------------------------------
(* Reading: parseTic. *)

Line(key, value) == [key |-> key, value |-> value]

(* The values that a keyword is given, line by line; no file is called "*". *)
ValuesOf(lines, key) ==
  FoldLeft(LAMBDA values, l :
             IF l.key = key /\ l # Line("Replaces", "*") THEN Append(values, l.value)
             ELSE values,
           <<>>, lines)

(* The last line with a keyword counts. *)
LastOf(lines, key, default) ==
  LET values == ValuesOf(lines, key)
  IN  IF values = <<>> THEN default ELSE Last(values)

ParsedTic(lines) ==
  [file     |-> LastOf(lines, "File", NoValue),
   area     |-> LastOf(lines, "Area", NoValue),
   desc     |-> IF ValuesOf(lines, "Desc") = <<>> THEN <<"no desc">>
                ELSE ValuesOf(lines, "Desc"),
   ldesc    |-> ValuesOf(lines, "LDesc"),
   replaces |-> LastOf(lines, "Replaces", NoValue),
   from     |-> LastOf(lines, "From", 0),
   to       |-> LastOf(lines, "To", 0),
   origin   |-> LastOf(lines, "Origin", 0),
   size     |-> LastOf(lines, "Size", -1),
   date     |-> LastOf(lines, "Date", 0),
   crc      |-> LastOf(lines, "Crc", 0),
   hasCrc   |-> ValuesOf(lines, "Crc") # <<>>,
   path     |-> ValuesOf(lines, "Path"),
   pw       |-> LastOf(lines, "Pw", NoValue)]

(* Node n refuses the size 0, a To without zone or net, and a keyword it   *)
(* does not know, when the From line above is one of its links (as it is   *)
(* here) and not taken to be FSC-87 only.                                  *)
ParseBad(n, lines) ==
  \E i \in DOMAIN lines :
    \/ lines[i] = Line("Size", 0) \/ lines[i] = Line("To", 0)
    \/ /\ lines[i].key = "Strange" /\ n \notin Fsc87
       /\ \E j \in 1 .. i - 1 : lines[j].key = "From"

(* checkTic. *)
CheckBad(t) ==
  \/ t.file = NoValue \/ t.area = NoValue
  \/ t.crc = 0 /\ t.size > 0
  \/ t.size = 0 /\ t.hasCrc
  \/ t.from = 0

Bad(n, lines) == ParseBad(n, lines) \/ CheckBad(ParsedTic(lines))

(* Defect: only the size is compared. *)
MatchesSize(n, t) ==
  n \in NoCrcArea \/ ~t.hasCrc \/ t.size = file.size \/ t.size < 0

(* processTic: the file is the one that the ticket describes. *)
Matches(n, t) ==
  n \in NoCrcArea \/ ~t.hasCrc
    \/ (t.crc = file.crc /\ (t.size >= 0 => t.size = file.size))

-----------------------------------------------------------------------------
(* Writing: writeTic. *)

(* Defect: a field that is not set is written all the same. *)
IfAlways(cond, key, value) == <<Line(key, value)>>

If(cond, key, value) == IF cond THEN <<Line(key, value)>> ELSE <<>>

(* Defect: only the first value is written. *)
EachFirst(key, values) ==
  IF values = <<>> THEN <<>> ELSE <<Line(key, Head(values))>>

Each(key, values) == [i \in DOMAIN values |-> Line(key, values[i])]

(* Defect: a checksum that was not read is not written. *)
CrcLineIfRead(t) == If(t.hasCrc, "Crc", t.crc)

CrcLine(t) == If(t.hasCrc \/ t.crc # 0, "Crc", t.crc)

WriteTic(t, seenby) ==
  <<Line("File", t.file), Line("Area", t.area)>>
  \o Each("Desc", t.desc) \o Each("LDesc", t.ldesc)
  \o If(t.replaces # NoValue, "Replaces", t.replaces)
  \o If(t.from # 0, "From", t.from)
  \o If(t.to # 0, "To", t.to)
  \o If(t.origin # 0, "Origin", t.origin)
  \o If(t.size >= 0, "Size", t.size)
  \o If(t.date # 0, "Date", t.date)
  \o CrcLine(t)
  \o Each("Path", t.path)
  \o Each("Seenby", seenby)
  \o If(t.pw # NoValue, "Pw", t.pw)

(* sendToLinks and PutFileOnLink at node n, for its link n + 1, which has  *)
(* a password if n is odd.                                                 *)
Addressed(n, t) ==
  [t EXCEPT
     !.path = Append(@, n),
     !.from = n, !.to = n + 1,
     !.pw = IF n % 2 = 1 THEN "secret" ELSE NoValue]

(* Links of node n, apart from n + 1, that may read the area. *)
Upstream(n) == IF n = 1 THEN 9 ELSE n - 1

(* What sendToLinks adds to a seen-by list: the downlinks, unless the list *)
(* is empty, and the address the ticket came to, or the area's.            *)
Additions(n, t, seenby) ==
  (IF seenby = <<>> THEN <<>> ELSE <<HsAddress[Upstream(n)], HsAddress[n + 1]>>)
  \o <<HsAddress[IF t.to = 0 THEN n ELSE t.to]>>

-----------------------------------------------------------------------------
(* The first ticket says what goes on unchanged. *)
Content(t) ==
  [file |-> t.file, area |-> t.area, desc |-> t.desc, ldesc |-> t.ldesc,
   replaces |-> t.replaces, origin |-> t.origin, date |-> t.date, path |-> t.path]

Init ==
  /\ text = <<>> /\ hop = 0 /\ fate = "none"
  /\ file = [size |-> 0, crc |-> 0]
  /\ first = <<>> /\ tic = NoValue /\ todo = <<>>
  /\ ListInit

(* hatch at node 1.  Description and Replaces are up to the command line.  *)
Hatched(size, ldesc, replaces) ==
  [file |-> "f", area |-> "a", desc |-> <<"d">>, ldesc |-> ldesc,
   replaces |-> replaces, from |-> 1, to |-> 0, origin |-> 1, size |-> size,
   date |-> 0, crc |-> CrcOf(size), hasCrc |-> FALSE, path |-> <<>>, pw |-> NoValue]

Hatch(size, ldesc, replaces) ==
  /\ fate = "none" /\ fate' = "adding"
  /\ file' = [size |-> size, crc |-> CrcOf(size)]
  /\ tic' = Hatched(size, ldesc, replaces)
  /\ first' = Content(tic')
  /\ AddStep(HsAddress[1])
  /\ todo' = Additions(1, tic', list')
  /\ UNCHANGED <<text, hop>>

(* A ticket for node 1 from another ticker, with the address 9. *)
ForeignLines(size, lack, strange, seen) ==
  LET Has(key, value) == If(key \notin lack, key, value)
  IN  strange.before
      \o Has("File", "f") \o Has("Area", "a") \o Has("Desc", "d")
      \o Has("LDesc", "l") \o Has("LDesc", "m")
      \o Has("Replaces", "*") \o Has("Replaces", "g")
      \o Has("From", 9) \o Has("To", 1) \o Has("Origin", 9)
      \o Has("Size", size) \o Has("Date", 5) \o Has("Crc", CrcOf(size))
      \o Has("Path", 9) \o Each("Seenby", [i \in DOMAIN seen |-> HsAddress[seen[i]]])
      \o strange.after

Foreign(size, lack, strange, seen) ==
  /\ fate = "none" /\ fate' = "way"
  /\ file' = [size |-> size, crc |-> CrcOf(size)]
  /\ text' = ForeignLines(size, lack, strange, seen)
  /\ first' = Content(ParsedTic(text'))
  /\ UNCHANGED <<hop, tic, todo, list, added>>

(* Node hop + 1 begins to read the ticket, *)
Open ==
  /\ fate = "way" /\ hop < MaxHops
  /\ fate' = "reading"
  /\ tic' = ParsedTic(text)
  /\ todo' = ValuesOf(text, "Seenby")
  /\ NewList
  /\ UNCHANGED <<text, file, first, hop>>

(* or adds the next address, of a Seenby line or as a sender. *)
AddNext ==
  /\ fate \in {"reading", "adding"} /\ todo # <<>>
  /\ AddStep(Head(todo))
  /\ todo' = Tail(todo)
  /\ UNCHANGED <<text, file, first, hop, fate, tic>>

Read == fate = "reading" /\ todo = <<>>

(* It finds fault with the ticket, *)
Refuse ==
  /\ Read /\ Bad(hop + 1, text)
  /\ fate' = "bad" /\ tic' = NoValue
  /\ UNCHANGED <<text, file, first, hop, todo, list, added>>

(* or with the file, *)
Wait ==
  /\ Read /\ ~Bad(hop + 1, text) /\ ~Matches(hop + 1, tic)
  /\ fate' = "waiting" /\ tic' = NoValue
  /\ UNCHANGED <<text, file, first, hop, todo, list, added>>

(* or accepts both, *)
Accept ==
  /\ Read /\ ~Bad(hop + 1, text) /\ Matches(hop + 1, tic)
  /\ fate' = "adding"
  /\ tic' = [tic EXCEPT !.size = file.size]
  /\ todo' = Additions(hop + 1, tic, list)
  /\ UNCHANGED <<text, file, first, hop, list, added>>

(* and in the end sorts the list and writes the ticket for the next. *)
Relay ==
  /\ fate = "adding" /\ todo = <<>>
  /\ SortStep
  /\ text' = WriteTic(Addressed(hop + 1, tic), list')
  /\ fate' = "way" /\ tic' = NoValue
  /\ hop' = hop + 1
  /\ UNCHANGED <<file, first, todo>>

(* The file is damaged, or its sender has put another one in its place. *)
Spoil ==
  /\ Damage /\ fate = "way" /\ file.crc # 99
  /\ file' = [file EXCEPT !.crc = 99]
  /\ UNCHANGED <<text, first, hop, fate, tic, todo, list, added>>

Next ==
  \/ \E size \in Sizes, ldesc \in {<<>>, <<"l", "m">>}, replaces \in {NoValue, "g"} :
       Hatch(size, ldesc, replaces)
  \/ \E size \in Sizes, lack \in Lacking, strange \in Strange, seen \in Sighted :
       Foreign(size, lack, strange, seen)
  \/ Open \/ AddNext \/ Refuse \/ Wait \/ Accept \/ Relay \/ Spoil

Spec == Init /\ [][Next]_vars

-----------------------------------------------------------------------------
(* Properties. *)

(* The variables have their types; a ticket has no line without a value.   *)
TypeOK ==
  /\ fate \in Fates /\ hop \in 0 .. MaxHops
  /\ file \in [size : Sizes \cup {0}, crc : {CrcOf(s) : s \in Sizes} \cup {0, 99}]
  /\ \A i \in DOMAIN text :
       DOMAIN text[i] = {"key", "value"} /\ text[i].value # NoValue
  /\ ToSet(todo) \subseteq Addresses
  /\ ListTypeOK

(* Lines that a ticket should not lack both. *)
Unsound(lack) == {"Crc", "Size"} \subseteq lack

(* No htick refuses a ticket that an htick has written, unless the file is *)
(* empty or the ticket came in with neither a size nor a checksum.         *)
WrittenIsRead == hop > 0 => fate # "bad"

(* What the first ticket says of the file - name, area, descriptions, the  *)
(* file it replaces, origin and date - is what every later one says; and   *)
(* its path names, after those that the first ticket named, every ticker   *)
(* that has forwarded the file, in order.                                  *)
ContentKept ==
  hop > 0 => Content(ParsedTic(text)) =
               [first EXCEPT !.path = @ \o [i \in 1 .. hop |-> i]]

(* A file that was damaged under way goes no further than the next node    *)
(* whose area looks at checksums: a node that does not look passes the     *)
(* ticket's checksum on.                                                   *)
DamageStops ==
  [][file.crc = 99 /\ hop' > hop /\ ParsedTic(text).hasCrc =>
       hop + 1 \in NoCrcArea]_vars
=============================================================================
