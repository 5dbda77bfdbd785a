----------------------------- MODULE SaeStation -----------------------------
(***************************************************************************)
(* SAE of a station in an infrastructure BSS, wpa_supplicant/sme.c: node 2 *)
(* of SaePeer when the network is not a mesh.                              *)
(***************************************************************************)
EXTENDS SaePeer

VARIABLE sme    \* wpa_s->sme, with the wpa_s->wpa_state that matters here

SmeType ==
    [wpa_state : {"DISCONNECTED", "AUTHENTICATING", "ASSOCIATING"},
     sae : SaeType, sae_group_index : Nat \ {0}, sae_token : BOOLEAN,
     last : Seq(SaeFrames)]       \* the frame the driver may send again

SmeInit == sme = [wpa_state |-> "DISCONNECTED", sae |-> NewSae,
                  sae_group_index |-> 1, sae_token |-> FALSE, last |-> << >>]

Station == ~conf.mesh
SmeRx == chan[2][1]
Taken == [chan EXCEPT ![2] = Tail(@)]

\* sme_send_authentication() with a Commit for the i-th group: all of the data
\* are made anew, but a token that was received is kept.
SendCommit(m, i, ch) ==
    LET d == [SetGroup(m.sae, conf.groups[2][i]) EXCEPT
                !.own_commit_scalar = NextScalar(2), !.state = "COMMITTED"]
        f == CommitFrame(d, m.sae_token)
    IN /\ MoreCommits(2)
       /\ sme' = [m EXCEPT !.wpa_state = "AUTHENTICATING", !.sae = d,
                           !.sae_group_index = i, !.last = <<f>>]
       /\ chan' = [ch EXCEPT ![1] = Queue(@, <<f>>)]
       /\ fresh' = [fresh EXCEPT ![2] = @ + 1]
       /\ UNCHANGED <<conf, node, pmksa, pending, required, refused, faults>>

\* The frame is taken and nothing is sent.
SmeTakes(m) ==
    /\ sme' = m /\ chan' = Taken
    /\ UNCHANGED <<conf, node, pmksa, pending, required, fresh, refused, faults>>
ConnectionFailed(m) == [m EXCEPT !.wpa_state = "DISCONNECTED"]

\* sme_authenticate().
SmeAuthenticate ==
    /\ Station /\ sme.wpa_state # "AUTHENTICATING"
    /\ SendCommit(sme, 1, chan)

\* sme_event_auth() outside of an authentication.
SmeIgnores ==
    /\ Station /\ chan[2] # << >> /\ sme.wpa_state # "AUTHENTICATING"
    /\ SmeTakes(sme)

SmeHears(trans, status) ==
    /\ Station /\ chan[2] # << >> /\ sme.wpa_state = "AUTHENTICATING"
    /\ SmeRx.trans = trans /\ SmeRx.status = status

\* The refusals that are answered with another Commit.
Retried(status) ==
    /\ SmeRx.trans = 1 /\ SmeRx.status = status /\ sme.sae.state = "COMMITTED"
SmeTokenRequest ==
    /\ SmeHears(1, "TOKEN_REQ") /\ Retried("TOKEN_REQ")
    /\ \/ /\ GroupStatus(sme.sae, Groups(2), SmeRx.group) = "OK"
          /\ SendCommit([sme EXCEPT !.sae_token = TRUE], sme.sae_group_index, Taken)
       \/ /\ GroupStatus(sme.sae, Groups(2), SmeRx.group) # "OK"
          /\ SmeTakes(ConnectionFailed(sme))
SmeGroupRefused ==
    /\ SmeHears(1, "GROUP_NOT_SUPPORTED") /\ Retried("GROUP_NOT_SUPPORTED")
    /\ \/ /\ sme.sae_group_index < Len(conf.groups[2])
          /\ SendCommit(sme, sme.sae_group_index + 1, Taken)
       \/ /\ sme.sae_group_index = Len(conf.groups[2])
          /\ SmeTakes(ConnectionFailed([sme EXCEPT !.sae_group_index = @ + 1]))
SmeRefused ==
    \E trans \in {1, 2}, status \in Statuses \ {"OK"} :
      /\ SmeHears(trans, status)
      /\ status \in {"TOKEN_REQ", "GROUP_NOT_SUPPORTED"} => ~Retried(status)
      /\ SmeTakes(ConnectionFailed(sme))

\* Commit: a Confirm is sent.
SmeCommit ==
    LET status == ParseStatus(sme.sae, Groups(2), SmeRx)
        d == ProcessCommit(ParseData(sme.sae, Groups(2), SmeRx))
        f == ConfirmFrame(d)
    IN /\ SmeHears(1, "OK")
       /\ \/ /\ sme.sae.state # "COMMITTED"
             /\ SmeTakes(ConnectionFailed(sme))
          \/ /\ sme.sae.state = "COMMITTED" /\ status # "OK"
             /\ SmeTakes(ConnectionFailed([sme EXCEPT
                                            !.sae = ParseData(@, Groups(2), SmeRx)]))
          \/ /\ sme.sae.state = "COMMITTED" /\ status = "OK"
             /\ sme' = [sme EXCEPT !.sae = [Confirmed(d) EXCEPT !.state = "CONFIRMED"],
                                   !.sae_token = FALSE, !.last = <<f>>]
             /\ chan' = [Taken EXCEPT ![1] = Queue(@, <<f>>)]
             /\ UNCHANGED <<conf, node, pmksa, pending, required, fresh, refused, faults>>

\* Confirm: the PMK is set and association starts.
SmeConfirm ==
    /\ SmeHears(2, "OK")
    /\ \/ /\ sme.sae.state # "CONFIRMED" \/ ~CheckConfirm(sme.sae, SmeRx)
          /\ SmeTakes(ConnectionFailed(sme))
       \/ /\ sme.sae.state = "CONFIRMED" /\ CheckConfirm(sme.sae, SmeRx)
          /\ SmeTakes([sme EXCEPT !.wpa_state = "ASSOCIATING",
                         !.sae = ClearTempData([@ EXCEPT !.state = "ACCEPTED"])])

\* sme_auth_timer() keeps the data of the attempt, the driver's timeout event,
\* disconnection after association and mark_disassoc() clear them.
SmeGivesUp ==
    /\ Station /\ sme.wpa_state # "DISCONNECTED"
    /\ \/ sme.wpa_state = "AUTHENTICATING" /\ sme' = ConnectionFailed(sme)
       \/ sme' = ConnectionFailed([sme EXCEPT !.sae = NewSae, !.sae_token = FALSE])
    /\ UNCHANGED peerVars

\* The driver sends an Authentication frame again when no answer comes.
SmeRepeats ==
    /\ Station /\ sme.wpa_state = "AUTHENTICATING" /\ Disturbance
    /\ chan' = [chan EXCEPT ![1] = Queue(@, sme.last)]
    /\ UNCHANGED <<conf, node, pmksa, pending, required, fresh, refused, sme>>

SmeNext ==
    \/ SmeAuthenticate \/ SmeIgnores \/ SmeTokenRequest \/ SmeGroupRefused
    \/ SmeRefused \/ SmeCommit \/ SmeConfirm \/ SmeGivesUp \/ SmeRepeats
=============================================================================
