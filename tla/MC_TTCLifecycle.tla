-------------------------- MODULE MC_TTCLifecycle --------------------------
(***************************************************************************)
(* One bucket of eio_ttc_list holding two caches, head -> c1 -> c2 -> head.*)
(* Editors work on c1 and deleters on c2, so that the walk of              *)
(* eio_reboot_handling meets an edit on the first cache and a delete on    *)
(* the one before the head.                                                *)
(***************************************************************************)
EXTENDS TTCLifecycle

CONSTANTS c1, c2, r1, r2, e1, d1

MCCaches == {c1, c2}
MCInitNext == [n \in MCCaches \cup {Head} |->
                  CASE n = Head -> c1 [] n = c1 -> c2 [] OTHER -> Head]
MCETarget == [e \in {e1} |-> c1]
MCDTarget == [d \in {d1} |-> c2]
NoThreads == {}
NoTarget == [x \in {} |-> c1]
=============================================================================
