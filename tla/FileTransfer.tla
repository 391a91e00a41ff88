---------------------------- MODULE FileTransfer ----------------------------
(***************************************************************************)
(* What the upload protocol promises its client for one file: the server   *)
(* stores the file once and never loses it again, and a client that is     *)
(* told so has the file stored.  It promises neither once it is unclear to *)
(* the client what became of an attempt that may have stored the file.     *)
(***************************************************************************)
VARIABLES
    stored,  \* the whole file is there and the database knows it
    told,    \* what the client believes: "waiting", "done" or "failed"
    unclear  \* an attempt that may have stored the file was not seen to succeed

vars == <<stored, told, unclear>>

Init == stored = FALSE /\ told = "waiting" /\ unclear = FALSE

\* The server stores the file, which the client need not learn.
Store ==
    /\ ~stored /\ stored' = TRUE
    /\ UNCHANGED <<told, unclear>>

\* The client is told, once the file is stored.
Tell ==
    /\ told = "waiting" /\ (stored \/ unclear)
    /\ told' = "done"
    /\ UNCHANGED <<stored, unclear>>

\* The client gives up, or is told to.
GiveUp ==
    /\ told = "waiting" /\ told' = "failed"
    /\ UNCHANGED <<stored, unclear>>

\* The user tries again.
TryAgain ==
    /\ told \in {"failed", "done"} /\ told' = "waiting"
    /\ UNCHANGED <<stored, unclear>>

\* An attempt fails or is given up, though the file may have been stored by it, or
\* may yet be; the client may give up altogether.
LoseTrack ==
    /\ ~unclear /\ unclear' = TRUE
    /\ stored' \in {stored, TRUE}
    /\ \/ UNCHANGED told
       \/ told = "waiting" /\ told' = "failed"

\* The next attempt replaces what that one has stored.
Spoil ==
    /\ unclear /\ stored /\ stored' = FALSE
    /\ UNCHANGED <<told, unclear>>

Next == Store \/ Tell \/ GiveUp \/ TryAgain \/ LoseTrack \/ Spoil

Spec == Init /\ [][Next]_vars
=============================================================================
