----------------------------- MODULE MCOutbound -----------------------------
(***************************************************************************)
(* Outbound on small instances: one link is served through its flow file,  *)
(* the other through a file box.  How many files, whether runs take the    *)
(* lock file, and which faults happen is in the .cfg files.                *)
(***************************************************************************)
EXTENDS Outbound

CONSTANTS f1, f2, l1, l2, r1, r2
=============================================================================
