---------------------------- MODULE UploadContract ----------------------------
(***************************************************************************)
(* What the server promises about one upload to those who hold its links:  *)
(* it becomes ready only by being packed, it then works until somebody or  *)
(* its date wants it gone, it is deleted only when it is stale, and once   *)
(* gone it stays gone, except that a packing under way may still publish   *)
(* it.                                                                     *)
(***************************************************************************)

VARIABLES
    phase,     \* "processing", "ready", "destroyed", or "absent"
    working,   \* it is ready, and a download finds its whole artifact
    packing,   \* a complete() is being handled
    unwanted,  \* somebody has asked for its destruction, or it has expired
    stale      \* it was created more than twelve hours ago

vars == <<phase, working, packing, unwanted, stale>>

Init ==
    /\ phase = "processing"
    /\ working = FALSE /\ packing = FALSE /\ unwanted = FALSE /\ stale = FALSE

StartPacking ==
    /\ phase = "processing" /\ ~packing /\ packing' = TRUE
    /\ UNCHANGED <<phase, working, unwanted, stale>>

GiveUp ==
    /\ packing /\ packing' = FALSE
    /\ UNCHANGED <<phase, working, unwanted, stale>>

\* What is published works, unless it is unwanted already.
Publish ==
    /\ packing /\ packing' = FALSE
    /\ phase \in {"processing", "destroyed"} /\ phase' = "ready"
    /\ working' \in BOOLEAN /\ (working' \/ unwanted)
    /\ UNCHANGED <<unwanted, stale>>

\* Destruction removes the files before it changes the row.
TakeFiles ==
    /\ unwanted /\ working /\ working' = FALSE
    /\ UNCHANGED <<phase, packing, unwanted, stale>>

Destroy ==
    /\ unwanted /\ phase \in {"processing", "ready"} /\ phase' = "destroyed"
    /\ working' = FALSE
    /\ UNCHANGED <<packing, unwanted, stale>>

Delete ==
    /\ stale /\ phase # "absent" /\ phase' = "absent"
    /\ working' = FALSE
    /\ UNCHANGED <<packing, unwanted, stale>>

BecomeUnwanted ==
    /\ ~unwanted /\ unwanted' = TRUE
    /\ UNCHANGED <<phase, working, packing, stale>>

Age ==
    /\ ~stale /\ stale' = TRUE
    /\ UNCHANGED <<phase, working, packing, unwanted>>

Next ==
    \/ StartPacking \/ GiveUp \/ Publish
    \/ TakeFiles \/ Destroy \/ Delete
    \/ BecomeUnwanted \/ Age

Spec == Init /\ [][Next]_vars
=============================================================================
