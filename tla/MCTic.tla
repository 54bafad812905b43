------------------------------- MODULE MCTic --------------------------------
(***************************************************************************)
(* Tic for a chain of tickers.                                             *)
(***************************************************************************)
EXTENDS Tic

(* Addresses that differ in their points only, but for the foreign one.    *)
MCHsAddress ==
  [n \in (1 .. MaxHops + 1) \cup {9} |->
     [zone |-> IF n = 9 THEN 2 ELSE 1, net |-> 5030, node |-> 7, point |-> n]]

MCAddresses == {MCHsAddress[n] : n \in DOMAIN MCHsAddress}

(* Lines that other tickers may leave out, but for the checksum together   *)
(* with the size: a ticket with neither is accepted and forwarded with a   *)
(* size, and the next htick refuses a size without a checksum.             *)
MayLack ==
  {lack \in SUBSET {"Desc", "LDesc", "Replaces", "Origin", "Size", "Path", "To", "Crc"} :
     ~Unsound(lack)}

AnyStrange == [before : {<<>>, <<Line("Strange", "x")>>},
               after : {<<>>, <<Line("Strange", "x")>>}]

(* No seen-by line, or some with repetitions in no order. *)
AnySighted == {<<>>, <<9, 3, 9, 3>>}
=============================================================================
