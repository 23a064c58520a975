----------------------------- MODULE ConfigCell -----------------------------
(***************************************************************************)
(* What a node expects of its persistent configuration: the flash is only  *)
(* touched while a save is under way, and when none is left it holds the   *)
(* configuration the node works with.  A node that starts works with what  *)
(* it finds.                                                               *)
(***************************************************************************)
CONSTANTS
  Config,               (* the configurations                             *)
  Loaded                (* a function: what a node makes of what it finds *)

VARIABLES
  ram,                  (* the configuration the node works with          *)
  disk,                 (* the flash                                      *)
  dirty                 (* a save is under way                            *)

vars == <<ram, disk, dirty>>

Init == disk \in Config /\ ram = Loaded[disk] /\ dirty = FALSE

Save == ram' \in Config /\ dirty' = TRUE /\ disk' = disk

Work == dirty /\ disk' \in Config /\ UNCHANGED <<ram, dirty>>

Done == dirty /\ disk = ram /\ dirty' = FALSE /\ UNCHANGED <<ram, disk>>

Restart ==
  /\ disk' \in Config /\ (~dirty => disk' = disk)
  /\ ram' = Loaded[disk']
  /\ dirty' = FALSE

Next == Save \/ Work \/ Done \/ Restart

Spec == Init /\ [][Next]_vars
=============================================================================
