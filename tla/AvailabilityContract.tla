------------------------ MODULE AvailabilityContract ------------------------
(***************************************************************************)
(* What the session supervisor promises to the entities of a config entry: *)
(* the docstrings of LoxoneConnection.run() and of                         *)
(* LoxoneCoordinator.set_connected_state().  A session is dialled from     *)
(* "offline" only, comes online at most once, always goes offline before   *)
(* the next dial, and nothing follows the end of supervision.              *)
(***************************************************************************)
VARIABLE status

Statuses == {"offline", "dialling", "online", "ended"}

Init == status = "offline"

Dial         == status = "offline" /\ status' = "dialling"
ComesOnline  == status = "dialling" /\ status' = "online"
GoesOffline  == status \in {"dialling", "online"} /\ status' = "offline"
Ends         == status # "ended" /\ status' = "ended"

Next == Dial \/ ComesOnline \/ GoesOffline \/ Ends

\* An offline supervisor is either dialling again or about to end.
Spec == Init /\ [][Next]_status /\ WF_status(Dial \/ (status = "offline" /\ Ends))

=============================================================================
