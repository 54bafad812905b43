----------------------------- MODULE MCCatalog ------------------------------
(* Catalog with two files, one of them with a long name and empty, and      *)
(* three areas; files.bbs.tmp has a long name, too.                         *)
EXTENDS Catalog

CONSTANTS fileA, fileB, tmpFile, x, y, seeB

MCFirstWord == [t \in Texts |-> IF t = seeB THEN fileB ELSE NoName]

MCSize == [f \in Files |-> IF f = fileA THEN 1048575 ELSE IF f = fileB THEN 0 ELSE 1]

Ticket(f, area, d, l) ==
  [file |-> f, area |-> area, desc |-> d, ldesc |-> l, diz |-> <<>>, again |-> FALSE]

(* Descriptions of one line and of more, from the ticket and an archive. *)
Described1 == {Ticket(fileB, "home", <<x>>, <<y, x>>)}
Described2 == {Ticket(fileB, "home", <<x>>, <<x, NoText, y>>),
               [Ticket(fileA, "home", <<x>>, <<>>) EXCEPT !.diz = <<x, seeB, y>>]}
New == {Ticket(fileA, "alpha", <<x>>, <<>>), Ticket(fileB, "alpha", <<x>>, <<>>),
        Ticket(fileA, "omega", <<x>>, <<>>)}

Whole == [desc |-> <<"@BBS">>, ldesc |-> <<>>]
OneLine == [desc |-> <<x>>, ldesc |-> <<"@@BBS">>]

Def(masks, in, ex, file) == [masks |-> masks, incl |-> in, excl |-> ex, toFile |-> file]

Describe(lck, m, commands, ts, hs) ==
  [lock |-> lck, spool |-> FALSE, mark |-> m, commands |-> commands,
   tickets |-> ts, hatches |-> hs, defs |-> <<>>, limit |-> 2]

Announcing(lck, commands, ts, ds, bound) ==
  [lock |-> lck, spool |-> TRUE, mark |-> "gt", commands |-> commands,
   tickets |-> ts, hatches |-> {}, defs |-> ds, limit |-> bound]

MCSetups ==
  {Describe("file", "gt", {{"toss"}, {"hatch", "filelist"}}, Described1, {Whole}),
   Describe("advisory", "blank", {{"toss", "filelist"}, {"hatch"}},
            Described2, {OneLine}),
   Announcing("none", {{"toss"}, {"announce"}}, New \ {Ticket(fileB, "alpha", <<x>>, <<>>)}, <<>>, 2),
   Announcing("file", {{"toss", "announce"}}, New \cup {Ticket(fileB, "home", <<x>>, <<>>)},
              <<Def(TRUE, {"alpha", "home"}, {"home"}, TRUE), Def(FALSE, {}, {"omega"}, FALSE)>>,
              3)}

MCAreas == <<"alpha", "home", "omega">>
MCFileOrder == <<fileA, fileB, tmpFile>>
MCTexts == {x, y, seeB, NoText, DescNA, MissingDesc}
=============================================================================
