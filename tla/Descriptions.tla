---------------------------- MODULE Descriptions ----------------------------
(***************************************************************************)
(* files.bbs, the file of an area's directory that holds the descriptions  *)
(* of its files: what add_desc.c, filelist.c and hatch.c write to it and   *)
(* read from it.                                                           *)
(*                                                                         *)
(* A line that starts with a word is the entry of the file it names, the   *)
(* lines after it that start with a blank or '>' continue its description. *)
(* A description is a sequence of texts.  Case of names, recoding and      *)
(* download counters are left out, and so is fileLDescString other than    *)
(* blank or '>', which the readers in add_desc.c and filelist.c do not     *)
(* know.  files.bbs and files.bbs.tmp can be opened and moved.             *)
(***************************************************************************)
EXTENDS Naturals, Sequences, SequencesExt, FiniteSetsExt

CONSTANTS
  Files,      \* names of files
  LongNames,  \* those whose entry leaves no room for the description
  Texts,      \* lines of descriptions
  FirstWord   \* the first word of a text: a file's name or NoName

NoText == "nothing"
NoName == "no name"
DescNA == "Description not avaliable"
MissingDesc == "-- description missing --"

ASSUME DescriptionsAssumption ==
  /\ LongNames \subseteq Files
  /\ NoName \notin Files
  /\ FirstWord \in [Texts -> Files \cup {NoName}]
  /\ {NoText, DescNA, MissingDesc} \subseteq Texts /\ FirstWord[NoText] = NoName

(* The first character of a line, and its first word as strtok reads it:   *)
(* '>' sticks to the text after it, a blank does not.                      *)
Marks == {"blank", "gt"}
Entry(file, text) == [mark |-> "word", word |-> file, text |-> text]
Continuation(mark, text) ==
  [mark |-> mark, word |-> IF mark = "blank" THEN FirstWord[text] ELSE NoName, text |-> text]

(* add_description: a file without a description gets no entry. *)
AddDescription(bbs, file, desc, mark) ==
  LET onNewLine == file \in LongNames /\ desc[1] # NoText
      first == IF onNewLine THEN NoText ELSE desc[1]
      others == IF onNewLine THEN desc ELSE Tail(desc)
  IN  IF desc = <<>> THEN bbs
      ELSE Append(bbs, Entry(file, first))
             \o [k \in 1 .. Len(others) |-> Continuation(mark, others[k])]

(* A line of nothing but blanks, in which strtok finds no word. *)
IsBlank(line) == line.mark = "blank" /\ line.text = NoText

(* removeDesc that drops every continuation line once it found the name. *)
RemoveDescToEnd(bbs, file) ==
  LET Copy(kept, line) ==
        IF kept.flag /\ line.mark \in Marks THEN kept
        ELSE IF line.word = file THEN [kept EXCEPT !.flag = TRUE]
        ELSE IF IsBlank(line) THEN kept
        ELSE [kept EXCEPT !.lines = Append(kept.lines, line)]
  IN  FoldLeft(Copy, [lines |-> <<>>, flag |-> FALSE], bbs).lines

(* removeDesc: every line whose first word is the name goes, and the lines *)
(* that continue it; so does every blank line.                             *)
RemoveDesc(bbs, file) ==
  LET Copy(kept, line) ==
        IF kept.flag /\ line.mark \in Marks THEN kept
        ELSE IF line.word = file THEN [lines |-> kept.lines, flag |-> TRUE]
        ELSE IF IsBlank(line) THEN [lines |-> kept.lines, flag |-> FALSE]
        ELSE [lines |-> Append(kept.lines, line), flag |-> FALSE]
  IN  FoldLeft(Copy, [lines |-> <<>>, flag |-> FALSE], bbs).lines

Entries(bbs, file) == {k \in DOMAIN bbs : bbs[k].mark = "word" /\ bbs[k].word = file}

(* The description that starts at line k. *)
DescAt(bbs, k) ==
  LET next == {e \in k + 1 .. Len(bbs) : bbs[e].mark = "word"}
      last == IF next = {} THEN Len(bbs) ELSE Min(next) - 1
  IN  [j \in 1 .. last - k + 1 |-> bbs[k + j - 1].text]

(* GetDescFormBbsFile: the first entry of the file, <<>> if it has none. *)
GetDesc(bbs, file) ==
  IF Entries(bbs, file) = {} THEN <<>> ELSE DescAt(bbs, Min(Entries(bbs, file)))

(* ParseBBSFile: all entries; tree_add keeps the last one of a name. *)
ParseBBS(bbs) ==
  [file \in {f \in Files : Entries(bbs, f) # {}} |-> DescAt(bbs, Max(Entries(bbs, file)))]

(* A list of missing names that starts one too late. *)
MissingAfterFirst(bbs, dir) ==
  LET Note(names, k) ==
        IF k > 1 /\ bbs[k].mark = "word" /\ bbs[k].word \notin dir
        THEN Append(names, bbs[k].word) ELSE names
  IN  FoldLeftDomain(Note, <<>>, bbs)

(* printFileArea: the names in files.bbs that the directory does not hold. *)
MissingNames(bbs, dir) ==
  LET Note(names, line) ==
        IF line.mark = "word" /\ line.word \notin dir THEN Append(names, line.word) ELSE names
  IN  FoldLeft(Note, <<>>, bbs)

(* expandDescMacros: @@BBS stands for the first line of the description in *)
(* files.bbs, @BBS for all of it.                                          *)
Macros == {"@@BBS", "@BBS"}
HatchTexts == {desc \in Seq(Texts \cup Macros) : \A k \in DOMAIN desc : k > 1 => desc[k] \in Texts}
IsMacro(desc) == desc # <<>> /\ desc[1] \in Macros
Expand(macro, found) == IF macro = "@@BBS" THEN <<found[1]>> ELSE found

ExpandLDesc(ldesc, found) ==
  IF ~IsMacro(ldesc) THEN ldesc ELSE IF found = <<>> THEN <<>> ELSE Expand(ldesc[1], found)

ExpandDesc(desc, found) ==
  IF ~IsMacro(desc) THEN desc
  ELSE IF found = <<>> THEN [desc EXCEPT ![1] = MissingDesc]
  ELSE Expand(desc[1], found)

=============================================================================
