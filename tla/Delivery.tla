------------------------------ MODULE Delivery ------------------------------
(***************************************************************************)
(* What the outbound side of htick promises its links: a file that a run   *)
(* has taken into a file area is owed to every link it is forwarded to,    *)
(* and each of those links is handed the file once.                        *)
(*                                                                         *)
(* How the file is queued (flow files, file boxes, postponed tickets), who *)
(* holds which .bsy file and which process does the work is left to        *)
(* Outbound, which implements this module.                                 *)
(***************************************************************************)
EXTENDS Naturals

CONSTANTS
  Files,  \* the files that are tossed or hatched
  Links   \* the links every one of them is forwarded to

VARIABLES
  accepted,  \* the files htick has taken responsibility for
  delivered  \* [Files \X Links -> Nat] how often it was handed over

dvars == <<accepted, delivered>>

Owed == {job \in accepted \X Links : delivered[job] = 0}

Init == accepted = {} /\ delivered = [job \in Files \X Links |-> 0]

Accept(f) ==
  /\ f \in Files \ accepted
  /\ accepted' = accepted \cup {f}
  /\ UNCHANGED delivered

Deliver(job) ==
  /\ job \in Owed
  /\ delivered' = [delivered EXCEPT ![job] = 1]
  /\ UNCHANGED accepted

Next ==
  \/ \E f \in Files : Accept(f)
  \/ \E job \in Files \X Links : Deliver(job)

Spec == Init /\ [][Next]_dvars

FairSpec == Spec /\ \A job \in Files \X Links : WF_dvars(Deliver(job))
=============================================================================
