------------------------------- MODULE MCToss -------------------------------
(* Toss with tickets from two links for two areas, in several situations. *)
EXTENDS Toss

CONSTANTS t1, t2, t3, f, g, c1, c2, c3, area, loose, up, down

Tic(base, suffix, from, to, a, crc, form) ==
  [file |-> <<base, suffix>>, from |-> from, to |-> to, area |-> a,
   crc |-> crc, form |-> form]

(* A file that nobody has announced comes under the name of t1's. *)
SameNameFiles == [c \in Contents |-> IF c = c3 THEN g ELSE f]

Own1 == Tic(f, 0, up, Us, area, c1, "good")

(* What has to be repaired: everything, something. *)
AllBroken == {<<"link", up>>, <<"area", area>>, <<"write", <<up, area>>>>,
              <<"read", t3>>, <<"directory", "pass">>}
SomeBroken == {<<"directory", area>>, <<"directory", "pass">>, <<"area", loose>>}
PassBroken == {<<"write", <<up, area>>>>, <<"directory", "pass">>}
LinkBroken == {<<"write", <<up, area>>>>, <<"password", up>>}

(* t1 and t2 describe two files sent under the same name. *)
Names ==
  [ticket |-> [t \in Tics |->
     CASE t = t1 -> Own1
       [] t = t2 -> Tic(f, 0, down, Us, area, c2, "good")
       [] t = t3 -> Tic(g, 0, down, Us, loose, c3, "good")],
   viaPass |-> {t1}, noCrc |-> {loose}, noReplace |-> {area}, delNotReceived |-> {},
   autoCreate |-> {down}, forward |-> {}, cwdIsInbound |-> TRUE,
   broken |-> SomeBroken, faults |-> {"crash", "rename"}]

(* t3 is on its way to down, and everything goes wrong. *)
AllFaults ==
  [Names EXCEPT !.ticket[t3] = Tic(g, 0, up, down, area, c3, "good"),
     !.forward = {down}, !.broken = PassBroken,
     !.faults = FaultKinds]

(* Nothing goes wrong once the configuration has been repaired. *)
Repaired ==
  [ticket |-> [t \in {t1, t3} |->
     IF t = t1 THEN Own1 ELSE Tic(g, 0, down, Us, loose, c3, "good")],
   viaPass |-> {t3}, noCrc |-> {}, noReplace |-> {}, delNotReceived |-> {},
   autoCreate |-> {up}, forward |-> {}, cwdIsInbound |-> TRUE,
   broken |-> AllBroken, faults |-> {}]

(* t1 is on its way from one link to the other; t3 is ill-formed. *)
Transit ==
  [ticket |-> [t \in Tics |->
     CASE t = t1 -> Tic(f, 0, up, down, area, c1, "good")
       [] t = t2 -> Tic(f, 1, up, Us, area, c2, "good")
       [] t = t3 -> Tic(g, 0, down, Us, area, c3, "bad")],
   viaPass |-> {t2}, noCrc |-> {}, noReplace |-> {}, delNotReceived |-> {down},
   autoCreate |-> {}, forward |-> {down}, cwdIsInbound |-> TRUE,
   broken |-> LinkBroken, faults |-> {"crash"}]

AllSetups ==
  [names |-> Names, allFaults |-> AllFaults, repaired |-> Repaired, transit |-> Transit]
BusySetups == [busy |-> [Transit EXCEPT !.broken = {}, !.faults = {"busy"}]]
=============================================================================
