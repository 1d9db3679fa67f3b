---------------------------- MODULE IoCompletion ----------------------------
(***************************************************************************)
(* What the I/O dispatch engine promises its caller (spec section 4.2):    *)
(* a logical I/O is issued as a number of transfers; the completion is     *)
(* signalled once, in the step in which the last issued transfer has       *)
(* finished and the caller has closed the I/O, and it carries an error     *)
(* whenever some transfer failed.  A caller whose submission fails instead *)
(* abandons the I/O, which it may do only once no transfer is pending.     *)
(***************************************************************************)
EXTENDS Naturals

CONSTANTS
    MaxBios,     \* largest number of transfers of one I/O
    Errors       \* transfer errors; "ok" is success

VARIABLES
    issued,      \* transfers issued so far
    pending,     \* issued transfers that have not finished
    seen,        \* results of the finished transfers
    closed,      \* the caller has issued everything and let go
    signalled,   \* the completion has been signalled
    result,      \* the error the completion carried
    abandoned    \* the caller gave the I/O up after a failed submission

absVars == <<issued, pending, seen, closed, signalled, result, abandoned>>

(* An error the completion may report after the results S.                  *)
Reportable(S) == IF S \subseteq {"ok"} THEN {"ok"} ELSE S \ {"ok"}

Init ==
    /\ issued = 0
    /\ pending = {}
    /\ seen = {}
    /\ closed = FALSE
    /\ signalled = FALSE
    /\ result = "ok"
    /\ abandoned = FALSE

Signal(S) ==
    /\ signalled' = TRUE
    /\ result' \in Reportable(S)

Issue ==
    /\ ~closed /\ ~abandoned
    /\ issued < MaxBios
    /\ issued' = issued + 1
    /\ pending' = pending \cup {issued + 1}
    /\ UNCHANGED <<seen, closed, signalled, result, abandoned>>

Finish(i, e) ==
    /\ i \in pending
    /\ pending' = pending \ {i}
    /\ seen' = seen \cup {e}
    /\ IF closed /\ pending' = {} THEN Signal(seen')
                                 ELSE UNCHANGED <<signalled, result>>
    /\ UNCHANGED <<issued, closed, abandoned>>

Close ==
    /\ ~closed /\ ~abandoned
    /\ issued > 0
    /\ closed' = TRUE
    /\ IF pending = {} THEN Signal(seen) ELSE UNCHANGED <<signalled, result>>
    /\ UNCHANGED <<issued, pending, seen, abandoned>>

Abandon ==
    /\ ~closed /\ ~abandoned
    /\ pending = {}
    /\ abandoned' = TRUE
    /\ UNCHANGED <<issued, pending, seen, closed, signalled, result>>

Next ==
    \/ Issue
    \/ \E i \in 1..MaxBios, e \in Errors : Finish(i, e)
    \/ Close
    \/ Abandon

Spec == Init /\ [][Next]_absVars

=============================================================================
