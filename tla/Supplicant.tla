----------------------------- MODULE Supplicant -----------------------------
(***************************************************************************)
(* The supplicant's side of the 4-way and the group key handshake,         *)
(* src/rsn_supp/wpa.c, for one network: one action is the handling of one  *)
(* received EAPOL-Key frame, association event or timer.                   *)
(***************************************************************************)
EXTENDS EapolKey

CONSTANTS
    SNoncePolicies, \* what the supplicant may do to its SNonce when 1/4 is repeated.
                    \*   "keep": wpa_supplicant.  "latest" and "first": other
                    \*   supplicants, which wpa_auth.c works around
    GtkRequests,    \* TRUE: the supplicant may also ask for a new GTK
    MaxRequests,    \* bound: EAPOL-Key Requests sent
    MaxSNonce       \* bound: SNonces made

ASSUME PolicyAssumption ==
    SNoncePolicies \subseteq {"keep", "latest", "first"} /\ SNoncePolicies # {}
ASSUME StaBoundsAssumption ==
    GtkRequests \in BOOLEAN /\ MaxRequests \in Nat /\ MaxSNonce \in Nat

VARIABLE sta        \* struct wpa_sm

StaType ==
    [associated : BOOLEAN,  \* between the association event and its end
     assoc : Nat,           \* the association it is in, or was in
     snonce : Nat, renew_snonce : BOOLEAN, anonce : Nat,
     tptk : PTKs,           \* NoPTK while tptk_set is 0
     ptk : PTKs,            \* NoPTK while ptk_set is 0
     installed : BOOLEAN,   \* ptk.installed
     rx_replay_counter : Nat,  \* 0 until it is set
     request_counter : Nat,
     gtk : Nat,             \* 0 while gtk_len is 0
     msg_3_of_4_ok : BOOLEAN,
     policy : {"keep", "latest", "first"},  \* which of SNoncePolicies it follows
     installs : Seq(PTKs),  \* history: PTKs given to the driver,
     gtk_installs : Seq(Nat \X Nat)]  \* and GTKs, with the association

NewSta(policy) ==
    [associated |-> FALSE, assoc |-> 0,
     snonce |-> 0, renew_snonce |-> TRUE, anonce |-> 0,
     tptk |-> NoPTK, ptk |-> NoPTK, installed |-> FALSE,
     rx_replay_counter |-> 0, request_counter |-> 0,
     gtk |-> 0, msg_3_of_4_ok |-> FALSE, policy |-> policy,
     installs |-> << >>, gtk_installs |-> << >>]

StaInit == \E policy \in SNoncePolicies : sta = NewSta(policy)

\* wpa_sm_notify_disassoc().  Also where a handler gives up: it calls
\* wpa_sm_deauthenticate(), which ends in the same event.
Disassociated(r) ==
    [r EXCEPT !.associated = FALSE, !.tptk = NoPTK, !.ptk = NoPTK,
              !.installed = FALSE, !.gtk = 0, !.msg_3_of_4_ok = FALSE]

\* The replay counter is not cleared.
FaultStaNotifyAssoc(a) ==
    /\ ~sta.associated
    /\ sta' = [sta EXCEPT !.associated = TRUE, !.assoc = a,
                          !.renew_snonce = TRUE,
                          !.tptk = NoPTK, !.ptk = NoPTK, !.installed = FALSE,
                          !.gtk = 0]
    /\ UNCHANGED net

\* wpa_sm_notify_assoc() for association a.  Frames received earlier have been
\* put aside by wpa_supplicant_rx_eapol().
StaNotifyAssoc(a) ==
    /\ ~sta.associated
    /\ sta' = [sta EXCEPT !.associated = TRUE, !.assoc = a,
                          !.rx_replay_counter = 0, !.renew_snonce = TRUE,
                          !.tptk = NoPTK, !.ptk = NoPTK, !.installed = FALSE,
                          !.gtk = 0]
    /\ UNCHANGED net

\* A Deauthentication frame of the AP, loss of the AP or a local decision.
StaDisassoc ==
    /\ sta.associated
    /\ sta' = Disassociated(sta)
    /\ UNCHANGED net

(***************************************************************************)
(* wpa_sm_rx_eapol().                                                      *)
(***************************************************************************)

\* Only frames with a MIC are checked.
FaultNotReplayed(f) == f.rc > sta.rx_replay_counter \/ f.ptk # NoPTK

NotReplayed(f) == f.rc > sta.rx_replay_counter

\* wpa_supplicant_verify_eapol_key_mic(): a MIC made with the temporary PTK
\* makes that the PTK, not installed yet; only verified frames move the
\* replay counter.
MicVerifies(f) == f.ptk # NoPTK /\ f.ptk \in {sta.tptk, sta.ptk}
Verified(f) ==
    LET r == [sta EXCEPT !.rx_replay_counter = f.rc]
    IN IF f.ptk = sta.tptk
       THEN [r EXCEPT !.tptk = NoPTK, !.ptk = f.ptk, !.installed = FALSE,
                      !.renew_snonce = TRUE]
       ELSE r

\* The SNonce that answers 1/4, and the PTK expected in 3/4.  A "latest" or
\* "first" supplicant makes a new SNonce for every 2/4; "first" goes on with
\* the PTK of the first.
NewSNonce ==
    IF sta.renew_snonce \/ sta.policy # "keep" THEN sta.snonce + 1 ELSE sta.snonce
NewTptk(anonce) ==
    IF sta.policy = "first" /\ ~sta.renew_snonce /\ sta.tptk[1] = anonce
    THEN sta.tptk ELSE <<anonce, NewSNonce>>

\* The answers, with the replay counter of the frame f they answer.
Msg2of4(f, snonce) == {Frame("2/4", f.rc, snonce, <<f.nonce, snonce>>, 0)}
Msg4of4(f, ptk) == {Frame("4/4", f.rc, 0, ptk, 0)}
Msg2of2(f, ptk) == {Frame("2/2", f.rc, 0, ptk, 0)}

\* 1/4 carries no MIC: a temporary PTK is derived and 2/4 sent.
StaMsg1of4 ==
    \E f \in Received("1/4") :
      /\ sta.associated /\ NotReplayed(f)
      /\ NewSNonce <= MaxSNonce
      /\ sta' = [sta EXCEPT !.snonce = NewSNonce, !.renew_snonce = FALSE,
                            !.tptk = NewTptk(f.nonce), !.anonce = f.nonce]
      /\ net' = net \cup Msg2of4(f, NewSNonce)

\* The installed flag is not looked at.
FaultInstallPtk(r) ==
    [r EXCEPT !.installed = TRUE, !.installs = Append(@, r.ptk)]

\* wpa_supplicant_install_ptk() and wpa_supplicant_install_gtk(): a key that is
\* installed already is not given to the driver again.
InstallPtk(r) ==
    IF r.installed THEN r
    ELSE [r EXCEPT !.installed = TRUE, !.installs = Append(@, r.ptk)]
InstallGtk(r, gtk) ==
    IF r.gtk = gtk THEN r
    ELSE [r EXCEPT !.gtk = gtk, !.gtk_installs = Append(@, <<r.assoc, gtk>>)]

\* 3/4: 4/4 is sent first, then the keys are installed; if the driver refuses
\* one, or the ANonce is not that of 1/4, the supplicant gives up.
StaMsg3of4 ==
    \E f \in Received("3/4") :
      LET v == Verified(f)
          r == [v EXCEPT !.renew_snonce = TRUE]
      IN /\ sta.associated /\ NotReplayed(f) /\ MicVerifies(f)
         /\ \/ /\ f.nonce # sta.anonce
               /\ sta' = Disassociated(v) /\ UNCHANGED net
            \/ /\ f.nonce = sta.anonce
               /\ sta' = [InstallGtk(InstallPtk(r), f.gtk) EXCEPT
                            !.msg_3_of_4_ok = TRUE]
               /\ net' = net \cup Msg4of4(f, v.ptk)
            \/ /\ f.nonce = sta.anonce /\ ~v.installed
               /\ sta' = Disassociated(r)
               /\ net' = net \cup Msg4of4(f, v.ptk)
            \/ /\ f.nonce = sta.anonce /\ v.gtk # f.gtk
               /\ sta' = Disassociated(InstallPtk(r))
               /\ net' = net \cup Msg4of4(f, v.ptk)

\* 1/2 of the group key handshake, only after 3/4.
StaMsg1of2 ==
    \E f \in Received("1/2") :
      LET v == Verified(f)
      IN /\ sta.associated /\ NotReplayed(f) /\ MicVerifies(f)
         /\ \/ /\ v.msg_3_of_4_ok
               /\ sta' = InstallGtk(v, f.gtk)
               /\ net' = net \cup Msg2of2(f, v.ptk)
            \/ /\ ~v.msg_3_of_4_ok \/ v.gtk # f.gtk
               /\ sta' = Disassociated(v) /\ UNCHANGED net

\* wpa_sm_key_request(): for a new PTK from the wpa_sm_rekey_ptk timer that
\* installing the PTK registered.
StaRequest ==
    \E type \in {"request", "gtk request"} :
      /\ sta.associated /\ sta.installed
      /\ type = "gtk request" => GtkRequests
      /\ sta.request_counter < MaxRequests
      /\ sta' = [sta EXCEPT !.request_counter = @ + 1]
      /\ net' = net \cup {Frame(type, sta.request_counter, 0, sta.ptk, 0)}

StaNext ==
    \/ StaDisassoc \/ StaMsg1of4 \/ StaMsg3of4 \/ StaMsg1of2 \/ StaRequest
=============================================================================
