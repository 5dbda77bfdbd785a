------------------------------ MODULE MCEapol -------------------------------
(* TLC instances of Eapol. *)
EXTENDS Eapol, TLC

\* A station with the right key; the server asks for another method first.
Plain ==
    [methods |-> <<"psk">>, good |-> TRUE, reauth |-> 0, faults |-> 1, early |-> 1,
     ops |-> 0, mute |-> FALSE, fullState |-> TRUE]

Lossy == {[Plain EXCEPT !.methods = <<"other", "psk">>, !.faults = 2, !.early = 2]}

\* The user logs off and on, asks for a reauthentication or associates again.
Commands ==
    {[Plain EXCEPT !.ops = 1, !.early = 0],
     [Plain EXCEPT !.ops = 1, !.faults = 0, !.fullState = FALSE],
     [Plain EXCEPT !.ops = 2, !.faults = 0, !.early = 0]}

\* The AP reauthenticates the station periodically.
Periodic ==
    {[Plain EXCEPT !.reauth = 3],
     [Plain EXCEPT !.reauth = 3, !.ops = 1, !.faults = 0, !.early = 0]}

\* A wrong key, a user the server does not know, and no method in common.
Refused ==
    {[Plain EXCEPT !.good = FALSE], [Plain EXCEPT !.methods = <<>>],
     [Plain EXCEPT !.methods = <<"other">>]}

\* The station falls silent.
Silent ==
    {[Plain EXCEPT !.mute = TRUE], [Plain EXCEPT !.mute = TRUE, !.reauth = 3],
     [Plain EXCEPT !.mute = TRUE, !.ops = 2, !.faults = 0, !.early = 0]}

MCConfigs == Lossy \cup Commands \cup Periodic \cup Refused \cup Silent
=============================================================================
