---------------------------- MODULE MC_IoContext ----------------------------
(***************************************************************************)
(* The cache's own I/O: one call of eio_do_io (IoContext) beside the empty *)
(* barrier flushes of a zero-size bio and of an activation (FlushBarrier).  *)
(* They share no variable; their completions interleave in any order.      *)
(***************************************************************************)
EXTENDS IoContext, FlushBarrier

DispatchInit == Init /\ FInit

DispatchNext == (Next /\ UNCHANGED fvars) \/ (FNext /\ UNCHANGED vars)

DispatchSpec ==
    DispatchInit /\ [][DispatchNext]_<<vars, fvars>> /\ Fairness /\ FFairness

=============================================================================
