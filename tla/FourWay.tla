------------------------------ MODULE FourWay -------------------------------
(***************************************************************************)
(* One hostapd authenticator and one supplicant over an unreliable link:   *)
(* associations, 4-way handshakes, PTK and GTK rekeying.                   *)
(***************************************************************************)
EXTENDS Authenticator, Supplicant

vars == <<ap, sta, net>>

Init == ApInit /\ StaInit /\ net = {}

\* The AP completes an association the station has asked for.  The station
\* may never hear of it and ask again.
ApAssociates ==
    /\ ~sta.associated
    /\ ApNewSta \/ ApStaAssociatedAgain \/ ApReAuth
    /\ UNCHANGED sta

StaAssociates ==
    /\ sta.assoc < ap.assoc
    /\ StaNotifyAssoc(ap.assoc)
    /\ UNCHANGED ap

Next ==
    \/ ApAssociates
    \/ StaAssociates
    \/ ApNext /\ UNCHANGED sta
    \/ StaNext /\ UNCHANGED ap

Spec == Init /\ [][Next]_vars

\* A registered eloop timeout fires; nothing else is assumed of the AP, the
\* station or the link.
FairSpec == Spec /\ WF_vars(ApTimeout /\ UNCHANGED sta)

(***************************************************************************)
(* Properties.                                                             *)
(***************************************************************************)

\* Types of the authenticator's and the supplicant's machine and of the frames
\* on the link, the retry limits included.
TypeOK == ap \in ApType /\ sta \in StaType /\ net \subseteq Frames

SameAssociation == sta.associated /\ sta.assoc = ap.assoc

\* The authenticator has sent 1/4 after 3/4 of the handshake that runs or ran
\* last.  An SNonce update that fails does that; the 2/4 it takes, left over
\* from an earlier association, has a replay counter that is in use again.
WentBack ==
    \E f \in Received("1/4"), g \in Received("3/4") :
        f.nonce = ap.ANonce /\ g.nonce = ap.ANonce /\ g.rc < f.rc

\* When the authenticator has finished a 4-way handshake (PTKINITDONE), the
\* station of the same association has installed the same PTK, although it
\* sends 4/4 before it installs anything, may change its SNonce (which
\* wpa_try_alt_snonce() makes up for) and gets frames of earlier handshakes and
\* associations.  After WentBack the station may move from the alternative PTK
\* to the other one before its 4/4 with the former is taken.
KeyAgreement ==
    ap.state = "PTKINITDONE" /\ ap.PTK_valid /\ SameAssociation /\ ~WentBack =>
        sta.installed /\ sta.ptk = ap.drv_ptk

NoReinstall(history) == \A i, j \in DOMAIN history : history[i] = history[j] => i = j

\* Neither side gives the same PTK to its driver twice, whatever is repeated:
\* the comment in wpa_supplicant_verify_eapol_key_mic() says that renewing the
\* SNonce and the installed flag together "assures the same PTK is only
\* installed once".  A reinstalled key restarts its packet numbers.
PtkInstalledOnce == NoReinstall(ap.installs) /\ NoReinstall(sta.installs)

\* Within an association the station installs newer GTKs only: 3/4 and 1/2
\* share one replay counter, and wpa_supplicant_install_gtk() skips the GTK in
\* use but would take any other.
GtkNeverGoesBack ==
    \A i, j \in DOMAIN sta.gtk_installs :
        /\ i < j
        /\ sta.gtk_installs[i][1] = sta.gtk_installs[j][1]
        => sta.gtk_installs[i][2] < sta.gtk_installs[j][2]

\* The station never waits for a replay counter beyond what the authenticator
\* has sent in this association; if it did, it would drop every frame to come.
\* wpa_auth_sta_associated() restarts the counter, wpa_sm_notify_assoc() too.
StationNotAhead == SameAssociation => sta.rx_replay_counter <= Rc(ap)

InHandshake == ap.state \in {"PTKSTART", "PTKCALCNEGOTIATING", "PTKINITNEGOTIATING"}

\* While a 4-way handshake runs a timeout is registered; every path of
\* wpa_receive() that cancels it must end the handshake or send a frame.
HandshakeHasTimer == InHandshake => ap.timers > 0

\* With wpa_disable_eapol_key_retries, no 3/4 is sent twice for the same PTK
\* and no 1/2 twice for the same GTK ("disable retransmission of EAPOL-Key
\* frames that are used to install keys", hostapd.conf).
NoRetransmittedKeys ==
    ap.no_retries =>
        /\ \A f, g \in Received("3/4") : f.ptk = g.ptk => f = g
        /\ \A f, g \in Received("1/2") : f.gtk = g.gtk => f = g

\* Every 4-way handshake ends, in PTKINITDONE or with the station disconnected
\* after wpa_pairwise_update_count tries, even if the station is silent or its
\* SNonce updates reset the try counter.
HandshakeEnds == InHandshake ~> ~InHandshake

(***************************************************************************)
(* Refinement.                                                             *)
(***************************************************************************)

\* 4/4 confirms a key.
Keys == INSTANCE PairwiseKeys WITH
    NoKey <- NoPTK,
    confirmed <- {f.ptk : f \in Received("4/4")},
    staKey <- IF sta.installed THEN sta.ptk ELSE NoPTK,
    apKey <- ap.drv_ptk,
    staInstalls <- sta.installs,
    apInstalls <- ap.installs

\* Within an association the handshake keeps the promise of PairwiseKeys: through
\* lost, repeated and late frames, SNonces that change and rekeying, the AP gives
\* its driver only keys that the station has confirmed and uses, if any, and no
\* driver gets a key twice.
KeysArePairwise == Keys!Spec

\* Over several associations the same holds of every step, except while the
\* handshake has gone back to 1/4.
StepsArePairwise == [][Keys!Next \/ WentBack]_(Keys!vars)
=============================================================================
