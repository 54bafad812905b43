----------------------------- MODULE FileAccess -----------------------------
(***************************************************************************)
(* Who may receive files of an area and who may send files into it         *)
(* (checkAccessAndOptGrps, e_readCheck, e_writeCheck of htickafix.c).      *)
(*                                                                         *)
(* The state is one area, one link and their settings in fidoconfig, which *)
(* the sysop edits between runs; Filefix adds what a link can change.      *)
(***************************************************************************)
EXTENDS Naturals

CONSTANTS
  Groups,   \* the group letters used in the configuration
  PublicGroup,  \* the groups every link has access to
  NoGroup,  \* an area without group
  MaxLevel  \* levels are 0 .. MaxLevel

ASSUME FileAccessAssumption ==
  PublicGroup \subseteq Groups /\ NoGroup \notin Groups /\ MaxLevel \in Nat

Level == 0 .. MaxLevel

(* The verdicts: the AREA_ACCESS_ constants. *)
Ok == 0
NotGroup == 1
NotLevel == 2
NotPort == 3
NotLinked == 4

VARIABLES
  area,   \* the area's settings
  link,   \* the link's settings, by any area
  sub     \* the link's entry in the area's list of downlinks

avars == <<area, link, sub>>

AreaType == [group : Groups \cup {NoGroup}, noPause : BOOLEAN,
             levelread : Level, levelwrite : Level, others : BOOLEAN]

LinkType == [groups : SUBSET Groups, optGrp : SUBSET Groups, level : Level,
             pause : BOOLEAN, import : BOOLEAN, export : BOOLEAN, ourAka : BOOLEAN]

SubType == [linked : BOOLEAN, import : BOOLEAN, export : BOOLEAN]

AccessTypeOK == area \in AreaType /\ link \in LinkType /\ sub \in SubType

-----------------------------------------------------------------------------

(* Defect: optGrp is taken the other way round. *)
GroupCheckInverted(port) ==
  IF area.group # NoGroup /\ area.group \notin PublicGroup \cup link.groups
    THEN NotGroup
  ELSE IF ~port /\ area.group \notin link.optGrp
    THEN NotPort
  ELSE Ok

(* checkAccessAndOptGrps: the link's import or export switch restricts all *)
(* areas, or only those whose group is in a non-empty optGrp.              *)
GroupCheck(port) ==
  IF area.group # NoGroup /\ area.group \notin PublicGroup \cup link.groups
    THEN NotGroup
  ELSE IF ~port /\ (link.optGrp = {} \/ area.group \in link.optGrp)
    THEN NotPort
  ELSE Ok

(* Defect: the pause is not looked at. *)
ReadCheckPaused ==
  IF ~sub.linked THEN NotLinked
  ELSE IF GroupCheck(link.export) # Ok THEN GroupCheck(link.export)
  ELSE IF area.levelread > link.level THEN NotLevel
  ELSE IF ~sub.export THEN NotPort
  ELSE Ok

(* e_readCheck; the area's type is in link->Pause when the link is paused  *)
(* for file areas.                                                         *)
ReadCheck ==
  IF ~sub.linked THEN NotLinked
  ELSE IF link.pause /\ ~area.noPause THEN NotPort
  ELSE IF GroupCheck(link.export) # Ok THEN GroupCheck(link.export)
  ELSE IF area.levelread > link.level THEN NotLevel
  ELSE IF ~sub.export THEN NotPort
  ELSE Ok

(* e_writeCheck; only addresses of our own may write without being         *)
(* subscribed.  An area without downlinks is written by ourselves at will. *)
WriteCheck ==
  IF ~sub.linked /\ link.ourAka /\ ~area.others THEN Ok
  ELSE IF ~sub.linked /\ ~link.ourAka THEN NotLinked
  ELSE IF GroupCheck(link.import) # Ok THEN GroupCheck(link.import)
  ELSE IF area.levelwrite > link.level THEN NotLevel
  ELSE IF sub.linked /\ ~sub.import THEN NotPort
  ELSE Ok

-----------------------------------------------------------------------------
(* The sysop or filefix changes one setting. *)

AccessInit ==
  /\ area \in AreaType /\ area.levelread = 0 /\ area.levelwrite = 0
  /\ link = [groups |-> {}, optGrp |-> {}, level |-> 0, pause |-> FALSE,
             import |-> TRUE, export |-> TRUE, ourAka |-> FALSE]
  /\ sub = [linked |-> FALSE, import |-> TRUE, export |-> TRUE]

EditArea ==
  /\ \/ \E g \in Groups \cup {NoGroup} : area' = [area EXCEPT !.group = g]
     \/ area' = [area EXCEPT !.noPause = ~@]
     \/ \E n \in Level : area' = [area EXCEPT !.levelread = n]
     \/ \E n \in Level : area' = [area EXCEPT !.levelwrite = n]
     \/ area' = [area EXCEPT !.others = ~@]
  /\ UNCHANGED <<link, sub>>

EditLink ==
  /\ \/ \E S \in SUBSET Groups : link' = [link EXCEPT !.groups = S]
     \/ \E S \in SUBSET Groups : link' = [link EXCEPT !.optGrp = S]
     \/ \E n \in Level : link' = [link EXCEPT !.level = n]
     \/ link' = [link EXCEPT !.import = ~@]
     \/ link' = [link EXCEPT !.export = ~@]
     \/ link' = [link EXCEPT !.ourAka = ~@]
  /\ UNCHANGED <<area, sub>>

PauseOrResume ==
  /\ link' = [link EXCEPT !.pause = ~@]
  /\ UNCHANGED <<area, sub>>

EditSub ==
  /\ \/ sub' = [sub EXCEPT !.linked = ~@]
     \/ sub' = [sub EXCEPT !.import = ~@]
     \/ sub' = [sub EXCEPT !.export = ~@]
  /\ UNCHANGED <<area, link>>

EditStep == EditArea \/ EditLink \/ PauseOrResume \/ EditSub

-----------------------------------------------------------------------------
(* Properties. *)

InGroup == area.group = NoGroup \/ area.group \in PublicGroup \cup link.groups

(* The switch of one direction is on, or optGrp keeps it off the area. *)
PortOpen(port) == port \/ (link.optGrp # {} /\ area.group \notin link.optGrp)

ReadIffAllowed ==
  ReadCheck = Ok <=>
    /\ sub.linked /\ sub.export
    /\ link.pause => area.noPause
    /\ InGroup /\ PortOpen(link.export)
    /\ area.levelread <= link.level

WriteIffAllowed ==
  WriteCheck = Ok <=>
    \/ /\ sub.linked \/ link.ourAka
       /\ sub.linked => sub.import
       /\ InGroup /\ PortOpen(link.import)
       /\ area.levelwrite <= link.level
    \/ link.ourAka /\ ~sub.linked /\ ~area.others

(* A subscriber receives files exactly when nothing stands against it, and *)
(* sends them in the same way, with two exceptions for the system's own    *)
(* addresses: the order of the checks decides only which reason is named.  *)
AccessExact == ReadIffAllowed /\ WriteIffAllowed

(* No setting of the second state is stricter than in the first.           *)
(* Emptying optGrp is stricter: the switches then hold for every group.    *)
Relaxed ==
  /\ area'.group \in {area.group, NoGroup}
  /\ area.noPause => area'.noPause
  /\ area'.levelread <= area.levelread /\ area'.levelwrite <= area.levelwrite
  /\ area'.others = area.others
  /\ link.groups \subseteq link'.groups
  /\ link'.optGrp = link.optGrp
       \/ (link'.optGrp # {} /\ (link.optGrp = {} \/ link'.optGrp \subseteq link.optGrp))
  /\ link.level <= link'.level
  /\ link'.pause => link.pause
  /\ link.import => link'.import
  /\ link.export => link'.export
  /\ link'.ourAka = link.ourAka
  /\ sub'.linked = sub.linked
  /\ sub.import => sub'.import
  /\ sub.export => sub'.export

(* Granting more never takes away: with a higher level, more groups, fewer *)
(* optional groups or a switch turned on, who could receive or send still  *)
(* can.                                                                    *)
RelaxingRevokesNothing ==
  [][Relaxed => /\ ReadCheck = Ok => ReadCheck' = Ok
                /\ WriteCheck = Ok => WriteCheck' = Ok]_avars
=============================================================================
