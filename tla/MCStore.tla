------------------------------ MODULE MCStore -------------------------------
(***************************************************************************)
(* Store with one file name, so that every new file is a new version, and  *)
(* a configuration for each of the questions asked of it.                  *)
(***************************************************************************)
EXTENDS Store

CONSTANTS kept, renamed, through, plain, l1, l2, c1, c2, c3, f

Basic ==
  [passthrough |-> {}, sendOrig |-> {}, rename |-> {}, noReplace |-> {},
   purged |-> {}, noTic |-> {}, packAka |-> {}, separate |-> FALSE, failing |-> FALSE,
   areas |-> {}, links |-> Links, supply |-> {}, replaces |-> {{}, FileName},
   altFile |-> {FALSE}]

(* An area with noreplace, for which tickets with and without an AltFile   *)
(* line come, next to one whose files come and go.                         *)
Protecting ==
  [Basic EXCEPT !.areas = {kept, plain}, !.supply = {c1, c2, c3},
     !.noReplace = {kept}, !.sendOrig = {plain}, !.purged = {plain},
     !.noTic = {l2}, !.separate = TRUE, !.altFile = BOOLEAN]

(* A passthrough area and an area with sendorig, for one link; and the     *)
(* first alone for two links.                                         *)
Passing ==
  [Basic EXCEPT !.areas = {through, plain}, !.supply = {c1, c2, c3}, !.links = {l1},
     !.passthrough = {through}, !.sendOrig = {plain}]
Sharing ==
  [Basic EXCEPT !.areas = {through}, !.supply = {c1, c2, c3}, !.passthrough = {through}]

(* An area with rename, next to a passthrough area. *)
Renaming ==
  [Basic EXCEPT !.areas = {renamed, through}, !.supply = {c1, c2, c3}, !.links = {l1},
     !.passthrough = {through}, !.rename = {renamed}, !.replaces = {{}}]

(* Moves that fail, in an area with noreplace, in one with sendorig, whose *)
(* old files Replaces may remove, and in the directory they share.         *)
Failing ==
  [Basic EXCEPT !.areas = {kept, plain}, !.supply = {c1, c2, c3}, !.links = {l1},
     !.noReplace = {kept}, !.sendOrig = {plain}, !.failing = TRUE]

AllSetups ==
  [protecting |-> Protecting, passing |-> Passing, sharing |-> Sharing,
   renaming |-> Renaming, failing |-> Failing]
RenamingOnly == [renaming |-> Renaming]
=============================================================================
