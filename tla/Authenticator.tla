--------------------------- MODULE Authenticator ----------------------------
(***************************************************************************)
(* The authenticator's machine for one station, src/ap/wpa_auth.c: the     *)
(* 4-way handshake (WPA_PTK) and the group key handshake (WPA_PTK_GROUP)   *)
(* with their EAPOL-Key frames, replay counters, retries and timeouts.     *)
(*                                                                         *)
(* One action is one eloop callback with the wpa_sm_step() loop it starts. *)
(* At rest WPA_PTK is in INITIALIZE, PTKSTART, PTKCALCNEGOTIATING (a 2/4   *)
(* whose MIC was wrong), PTKINITNEGOTIATING or PTKINITDONE, and            *)
(* WPA_PTK_GROUP is in IDLE or REKEYNEGOTIATING.                           *)
(***************************************************************************)
EXTENDS EapolKey

CONSTANTS
    PairwiseUpdateCount,   \* conf.wpa_pairwise_update_count
    GroupUpdateCount,      \* conf.wpa_group_update_count
    RetryConfigs,          \* the values wpa_disable_eapol_key_retries may have
    MaxANonce,             \* bound: 4-way handshakes started
    MaxAssoc,              \* bound: associations
    MaxGTK                 \* bound: GTK generations

ASSUME UpdateCountAssumption ==
    PairwiseUpdateCount \in Nat \ {0} /\ GroupUpdateCount \in Nat \ {0}
ASSUME RetriesAssumption == RetryConfigs \subseteq BOOLEAN
ASSUME ApBoundsAssumption ==
    MaxANonce \in Nat /\ MaxAssoc \in Nat /\ MaxGTK \in Nat \ {0}

VARIABLE ap                \* struct wpa_state_machine of the station

PtkStates == {"INITIALIZE", "PTKSTART", "PTKCALCNEGOTIATING",
              "PTKINITNEGOTIATING", "PTKINITDONE"}

ApType ==
    [state : PtkStates, group : {"IDLE", "REKEYNEGOTIATING"},
     assoc : Nat,              \* associations so far
     ANonce : Nat, SNonce : Nat, PTK : PTKs, PTK_valid : BOOLEAN,
     alt_SNonce : Nat, alt_snonce_valid : BOOLEAN, alt_replay_counter : Nat,
     key_replay : KeyReplays, prev_key_replay : KeyReplays,
     TimeoutCtr : 0 .. PairwiseUpdateCount,
     GTimeoutCtr : 0 .. GroupUpdateCount,
     GUpdateStationKeys : BOOLEAN,
     timers : Nat,             \* wpa_send_eapol_timeout registered, how often
     pending_1_of_4_timeout : BOOLEAN,
     rekey_timer : BOOLEAN,    \* wpa_rekey_ptk registered
     req_next : Nat,           \* req_replay_counter + 1; 0 until it is used
     drv_ptk : PTKs,           \* the pairwise key in the driver
     no_retries : BOOLEAN,     \* conf.wpa_disable_eapol_key_retries
     GTK : Nat,
     installs : Seq(PTKs)]     \* history: the PTKs given to the driver

\* A machine from wpa_auth_sta_init(), for association a.  Nonces are numbered
\* on from n, the last one used.
NewAp(a, n, gtk, conf, history) ==
    [state |-> "INITIALIZE", group |-> "IDLE", assoc |-> a,
     ANonce |-> n, SNonce |-> 0, PTK |-> NoPTK, PTK_valid |-> FALSE,
     alt_SNonce |-> 0, alt_snonce_valid |-> FALSE, alt_replay_counter |-> 0,
     key_replay |-> NoReplay, prev_key_replay |-> NoReplay,
     TimeoutCtr |-> 0, GTimeoutCtr |-> 0, GUpdateStationKeys |-> FALSE,
     timers |-> 0, pending_1_of_4_timeout |-> FALSE, rekey_timer |-> FALSE,
     req_next |-> 0, drv_ptk |-> NoPTK, no_retries |-> conf, GTK |-> gtk,
     installs |-> history]

ApInit == \E conf \in RetryConfigs : ap = NewAp(0, 0, 1, conf, << >>)

(***************************************************************************)
(* Frames and state entry functions.  A frame is made from the machine as  *)
(* it is after sending: its counter is the newest in key_replay.           *)
(***************************************************************************)
Rc(r) == r.key_replay[1].counter

Msg1of4(r) == {Frame("1/4", Rc(r), r.ANonce, NoPTK, 0)}
\* 3/4 and 1/2 need a MIC and are dropped without a valid PTK.
Msg3of4(r) == IF r.PTK_valid THEN {Frame("3/4", Rc(r), r.ANonce, r.PTK, r.GTK)} ELSE {}
Msg1of2(r) == IF r.PTK_valid THEN {Frame("1/2", Rc(r), 0, r.PTK, r.GTK)} ELSE {}

\* wpa_remove_ptk().
RemovePtk(r) == [r EXCEPT !.PTK = NoPTK, !.PTK_valid = FALSE,
                          !.drv_ptk = NoPTK, !.rekey_timer = FALSE]

\* DISCONNECT, DISCONNECTED and INITIALIZE.
Initialize(r) ==
    [RemovePtk(r) EXCEPT !.state = "INITIALIZE", !.TimeoutCtr = 0,
                         !.GUpdateStationKeys = FALSE]

\* wpa_send_eapol(): a frame with the next counter is sent and a timeout
\* registered, beside those registered before.
SendEapol(r) == [r EXCEPT !.timers = @ + 1, !.key_replay = NextReplay(@)]

\* PTKSTART below the retry limit: 1/4 is sent.
PtkStart(r) ==
    SendEapol([r EXCEPT !.state = "PTKSTART", !.alt_snonce_valid = FALSE,
                        !.TimeoutCtr = @ + 1,
                        !.pending_1_of_4_timeout = @ \/ r.TimeoutCtr = 0])

\* AUTHENTICATION2 or wpa_auth_sm_ptk_update(), then PTKSTART.
NewHandshake(r) ==
    PtkStart([r EXCEPT !.ANonce = @ + 1, !.TimeoutCtr = 0])

\* 3/4 sent without registering a timeout.
FaultPtkInitNegotiating(r) ==
    [r EXCEPT !.state = "PTKINITNEGOTIATING", !.TimeoutCtr = @ + 1,
              !.key_replay = NextReplay(@)]

\* PTKINITNEGOTIATING below the retry limit: 3/4 is sent.
PtkInitNegotiating(r) ==
    SendEapol([r EXCEPT !.state = "PTKINITNEGOTIATING", !.TimeoutCtr = @ + 1])

\* WPA_PTK_GROUP REKEYNEGOTIATING below the retry limit: 1/2 is sent.
RekeyNegotiating(r) ==
    SendEapol([r EXCEPT !.group = "REKEYNEGOTIATING", !.GTimeoutCtr = @ + 1])

\* WPA_PTK_GROUP IDLE.
GroupIdle(r) ==
    [r EXCEPT !.group = "IDLE", !.GTimeoutCtr = 0, !.GUpdateStationKeys = FALSE]

\* wpa_group_update_sta() for the only station, after a new GTK was made.
NewGtk(r) ==
    LET g == [r EXCEPT !.GTK = @ + 1]
    IN CASE r.state # "PTKINITDONE" -> [g EXCEPT !.GUpdateStationKeys = FALSE]
         [] r.state = "PTKINITDONE" /\ r.group = "IDLE" ->
              RekeyNegotiating([g EXCEPT !.GUpdateStationKeys = TRUE])
         [] OTHER -> [g EXCEPT !.GUpdateStationKeys = TRUE]
NewGtkFrames(r) ==
    IF r.state = "PTKINITDONE" /\ r.group = "IDLE" THEN Msg1of2(NewGtk(r)) ELSE {}

\* An answer was taken: no pending frame may be answered again, except that
\* 2/4 leaves the other 1/4 frames in prev_key_replay.
Answered(r, prev) ==
    [r EXCEPT !.key_replay = MarkAllInvalid(@), !.prev_key_replay = prev]

(***************************************************************************)
(* Association and deauthentication.                                       *)
(***************************************************************************)

\* WPA_AUTH for an Authentication frame: the PTK goes, the machines stay.
ApAuthEvent ==
    /\ ap.PTK_valid \/ ap.rekey_timer
    /\ ap' = RemovePtk(ap)
    /\ UNCHANGED net

\* hostapd_new_assoc_sta() on a machine that was freed and allocated again.
ApNewSta ==
    /\ ap.assoc < MaxAssoc /\ ap.ANonce < MaxANonce
    /\ LET r == NewHandshake(NewAp(ap.assoc + 1, ap.ANonce, ap.GTK, ap.no_retries,
                               ap.installs))
       IN ap' = r /\ net' = net \cup Msg1of4(r)

\* wpa_auth_sta_associated() on the machine of an earlier association.
ApStaAssociatedAgain ==
    /\ ap.assoc \in 1 .. MaxAssoc - 1 /\ ap.ANonce < MaxANonce
    /\ LET r == NewHandshake([RemovePtk(ap) EXCEPT !.assoc = @ + 1,
                                                   !.key_replay = NoReplay])
       IN ap' = r /\ net' = net \cup Msg1of4(r)

\* WPA_REAUTH, reassociation of a station that is associated: the replay
\* counter goes on, a pending group key update is cancelled.
ApReAuth ==
    /\ ap.assoc \in 1 .. MaxAssoc - 1 /\ ap.ANonce < MaxANonce
    /\ ap.state # "INITIALIZE"
    /\ LET c == IF ap.GUpdateStationKeys THEN GroupIdle(ap) ELSE ap
           r == NewHandshake([RemovePtk(c) EXCEPT !.assoc = @ + 1])
       IN ap' = r /\ net' = net \cup Msg1of4(r)

\* WPA_DEAUTH or WPA_DISASSOC.
ApDeauth ==
    /\ ap.state # "INITIALIZE"
    /\ ap' = Initialize(ap)
    /\ UNCHANGED net

(***************************************************************************)
(* wpa_receive().                                                          *)
(***************************************************************************)

\* PTKCALCNEGOTIATING for the 2/4 f: the PTK is derived from the nonces and
\* must explain the MIC; then PTKCALCNEGOTIATING2 and PTKINITNEGOTIATING.  With
\* a wrong MIC the machine stays, and no 1/4 sent so far can be answered.
CalcPtk(r, f) ==
    PtkInitNegotiating([r EXCEPT !.PTK = <<r.ANonce, f.nonce>>, !.PTK_valid = TRUE,
                                 !.timers = 0, !.TimeoutCtr = 0,
                                 !.pending_1_of_4_timeout = FALSE])
PtkCalcNegotiating(r, f) ==
    \/ /\ f.ptk = <<r.ANonce, f.nonce>>
       /\ ap' = CalcPtk(r, f)
       /\ net' = net \cup Msg3of4(CalcPtk(r, f))
    \/ /\ f.ptk # <<r.ANonce, f.nonce>>
       /\ ap' = [r EXCEPT !.state = "PTKCALCNEGOTIATING"]
       /\ UNCHANGED net

\* 2/4 answering a pending 1/4.  A PTK is still valid here after an SNonce
\* update that failed; the MIC is then checked against it first.
ApMsg2of4 ==
    \E f \in Received("2/4") :
      /\ ap.state \in {"PTKSTART", "PTKCALCNEGOTIATING"}
      /\ ReplayCounterValid(ap.key_replay, f.rc)
      /\ ap.PTK_valid => f.ptk = ap.PTK
      /\ PtkCalcNegotiating([Answered(ap, MarkInvalid(ap.key_replay, f.rc)) EXCEPT
                               !.SNonce = f.nonce], f)

\* 2/4 with another SNonce, answering a retransmitted 1/4 after 3/4 was sent:
\* the SNonce is updated and the old one kept as the alternative.
ApMsg2of4Update ==
    \E f \in Received("2/4") :
      /\ ap.state = "PTKINITNEGOTIATING"
      /\ ~ReplayCounterValid(ap.key_replay, f.rc)
      /\ ReplayCounterValid(ap.prev_key_replay, f.rc)
      /\ ap.SNonce # f.nonce
      /\ PtkCalcNegotiating([Answered(ap, MarkInvalid(ap.key_replay, f.rc)) EXCEPT
                               !.SNonce = f.nonce, !.alt_SNonce = ap.SNonce,
                               !.alt_snonce_valid = TRUE,
                               !.alt_replay_counter = Rc(ap)], f)

\* The MIC of 4/4 is not checked.
FaultMsg4Verifies(f) == TRUE

\* 4/4 must be made with the PTK or with the one that wpa_try_alt_snonce()
\* derives from the alternative SNonce.
Msg4Verifies(f) ==
    \/ f.ptk = ap.PTK
    \/ ap.alt_snonce_valid /\ f.ptk = <<ap.ANonce, ap.alt_SNonce>>

\* wpa_try_alt_snonce() does not keep the PTK it derived.
FaultMsg4Ptk(f) == ap.PTK

\* The PTK after a verified 4/4: wpa_try_alt_snonce() replaces it.
Msg4Ptk(f) == f.ptk

\* PTKINITDONE gives the PTK to the driver; if that fails the station is
\* disconnected.
ApMsg4of4 ==
    \E f \in Received("4/4") :
      LET a == [Answered(ap, NoReplay) EXCEPT
                  !.SNonce = 0, !.PTK = Msg4Ptk(f), !.timers = 0,
                  !.alt_snonce_valid = @ /\ f.ptk = ap.PTK,
                  !.pending_1_of_4_timeout = FALSE]
      IN /\ ap.state = "PTKINITNEGOTIATING" /\ ap.PTK_valid
         /\ \/ ReplayCounterValid(ap.key_replay, f.rc)
            \/ ap.alt_snonce_valid /\ f.rc = ap.alt_replay_counter
         /\ Msg4Verifies(f)
         /\ \/ ap' = [a EXCEPT !.state = "PTKINITDONE", !.drv_ptk = a.PTK,
                               !.rekey_timer = TRUE,
                               !.installs = Append(@, a.PTK)]
            \/ ap' = Initialize(a)
         /\ UNCHANGED net

\* 2/2: REKEYESTABLISHED, then IDLE.
ApMsg2of2 ==
    \E f \in Received("2/2") :
      /\ ap.group = "REKEYNEGOTIATING" /\ ap.PTK_valid
      /\ ReplayCounterValid(ap.key_replay, f.rc)
      /\ f.ptk = ap.PTK
      /\ ap' = [GroupIdle(Answered(ap, NoReplay)) EXCEPT
                  !.SNonce = 0, !.timers = 0, !.pending_1_of_4_timeout = FALSE]
      /\ UNCHANGED net

\* EAPOL-Key Request for a new PTK or, second, a new GTK.  Verifying its MIC
\* cancels the timeouts whatever handshake is running.
ApRequest ==
    \E f \in Received("request") \cup Received("gtk request") :
      LET a == [ap EXCEPT !.timers = 0, !.pending_1_of_4_timeout = FALSE,
                          !.req_next = f.rc + 1, !.SNonce = 0]
          r == NewHandshake([a EXCEPT !.PTK_valid = FALSE])
      IN /\ f.rc >= ap.req_next
         /\ ap.PTK_valid /\ f.ptk = ap.PTK
         /\ \/ /\ f.type = "request" /\ ap.ANonce < MaxANonce
               /\ ap' = r /\ net' = net \cup Msg1of4(r)
            \/ /\ f.type = "gtk request" /\ ap.GTK < MaxGTK
               /\ ap' = NewGtk(a) /\ net' = net \cup NewGtkFrames(a)

(***************************************************************************)
(* Timers.                                                                 *)
(***************************************************************************)

\* wpa_disable_eapol_key_retries is not looked at.
FaultMsg3Limit(r) == r.TimeoutCtr >= PairwiseUpdateCount

\* One 1/4 too many.
FaultMsg1Limit(r) == r.TimeoutCtr > PairwiseUpdateCount

\* The next try of 1/4, of 3/4 and of 1/2 would be above its limit.
Msg1Limit(r) == r.TimeoutCtr >= PairwiseUpdateCount
Msg3Limit(r) == r.TimeoutCtr >= PairwiseUpdateCount \/ r.no_retries
GroupLimit(r) == r.GTimeoutCtr >= GroupUpdateCount \/ r.no_retries

\* wpa_send_eapol_timeout().  The WPA_PTK machine is stepped first and takes
\* TimeoutEvt while a 4-way handshake runs.
ApTimeout ==
    LET r == [ap EXCEPT !.timers = @ - 1, !.pending_1_of_4_timeout = FALSE]
        starting == ap.state \in {"PTKSTART", "PTKCALCNEGOTIATING"}
        negotiating == ap.state = "PTKINITNEGOTIATING"
        resting == ap.state \in {"INITIALIZE", "PTKINITDONE"}
        rekeying == ap.group = "REKEYNEGOTIATING"
    IN /\ ap.timers > 0
       /\ \/ /\ starting /\ ~Msg1Limit(ap)
             /\ ap' = PtkStart(r) /\ net' = net \cup Msg1of4(PtkStart(r))
          \/ /\ negotiating /\ ~Msg3Limit(ap)
             /\ ap' = PtkInitNegotiating(r)
             /\ net' = net \cup Msg3of4(PtkInitNegotiating(r))
          \/ /\ (starting /\ Msg1Limit(ap)) \/ (negotiating /\ Msg3Limit(ap))
             /\ ap' = Initialize(r) /\ UNCHANGED net
          \/ /\ resting /\ rekeying /\ ~GroupLimit(ap)
             /\ ap' = RekeyNegotiating(r)
             /\ net' = net \cup Msg1of2(RekeyNegotiating(r))
          \/ /\ resting /\ rekeying /\ GroupLimit(ap)    \* KEYERROR
             /\ ap' = Initialize(GroupIdle(r)) /\ UNCHANGED net
          \/ /\ resting /\ ~rekeying
             /\ ap' = r /\ UNCHANGED net

\* The timeout is cancelled and not registered again.
FaultApTxStatus ==
    /\ ap.pending_1_of_4_timeout
    /\ ap' = [ap EXCEPT !.timers = 0]
    /\ UNCHANGED net

\* wpa_auth_eapol_key_tx_status() of an acknowledged frame: whatever is
\* registered is replaced by one longer timeout.
ApTxStatus ==
    /\ ap.pending_1_of_4_timeout
    /\ ap' = [ap EXCEPT !.timers = 1]
    /\ UNCHANGED net

\* wpa_rekey_ptk(), registered when the PTK was installed.  A handshake the
\* station asked for in the meantime does not cancel it.
ApRekeyPtk ==
    /\ ap.rekey_timer
    /\ ap.ANonce < MaxANonce
    /\ LET r == NewHandshake([ap EXCEPT !.PTK_valid = FALSE,
                                        !.rekey_timer = FALSE])
       IN ap' = r /\ net' = net \cup Msg1of4(r)

\* wpa_rekey_gtk().
ApRekeyGtk ==
    /\ ap.GTK < MaxGTK
    /\ ap' = NewGtk(ap)
    /\ net' = net \cup NewGtkFrames(ap)

ApNext ==
    \/ ApAuthEvent \/ ApDeauth
    \/ ApMsg2of4 \/ ApMsg2of4Update \/ ApMsg4of4 \/ ApMsg2of2 \/ ApRequest
    \/ ApTimeout \/ ApTxStatus \/ ApRekeyPtk \/ ApRekeyGtk
=============================================================================
