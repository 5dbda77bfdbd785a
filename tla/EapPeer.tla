------------------------------ MODULE EapPeer ------------------------------
(* The EAP peer state machine of wpa_supplicant (src/eap_peer/eap.c) with the  *)
(* EAP-PSK peer (src/eap_peer/eap_psk.c), as operators on the station's record *)
(* t, which also holds the EAPOL variables that the peer sets.  EAP            *)
(* workarounds are on, as they are by default; the only method allowed is PSK. *)
EXTENDS EapData

CONSTANTS ClientTimeout   \* EAP_CLIENT_TIMEOUT_DEFAULT

ASSUME EapPeerAssumption == ClientTimeout \in Nat \ {0}

PeerEnter(t, st) == [t EXCEPT !.eap = st, !.changed = TRUE]
PeerEnterGlobal(t, st) == [t EXCEPT !.eap = st, !.changed = @ \/ t.eap # st]

FaultPeerInitialize(t) ==
    [PeerEnterGlobal(t, "INITIALIZE") EXCEPT
        !.decision = "FAIL", !.idleWhile = ClientTimeout, !.eapSuccess = FALSE,
        !.eapFail = FALSE, !.eapRestart = FALSE, !.lastId = -1, !.eapResp = FALSE,
        !.eapNoResp = FALSE, !.num_rounds = 0]

PeerInitialize(t) ==
    [PeerEnterGlobal(t, "INITIALIZE") EXCEPT
        !.selectedMethod = "none", !.methodState = "NONE", !.decision = "FAIL",
        !.idleWhile = ClientTimeout, !.eapSuccess = FALSE, !.eapFail = FALSE,
        !.eapKeyData = NoKey, !.eapRestart = FALSE, !.lastId = -1, !.eapResp = FALSE,
        !.eapNoResp = FALSE, !.num_rounds = 0]

PeerDisabled(t) ==
    [PeerEnterGlobal(t, "DISABLED") EXCEPT !.num_rounds = 0, !.idleWhile = 0]

PeerReceived(t) == [PeerEnter(t, "RECEIVED") EXCEPT !.num_rounds = @ + 1]

\* GET_METHOD: the method proposed is selected, or refused with a Nak.
GetMethod(t) ==
    IF MethodOf(t.eapReqData) = "psk"
    THEN [PeerEnter(t, "GET_METHOD") EXCEPT
             !.selectedMethod = "psk", !.methodState = "INIT", !.psk_state = "PSK_INIT"]
    ELSE [PeerEnter(t, "GET_METHOD") EXCEPT
             !.eapRespData = Frame("nak", t.eapReqData.id, <<"psk">>)]

\* eap_psk_process_1: PSK-1 is answered with a new RAND_P.
process_1(t) ==
    LET rp == (t.rand_p + 1) % RandMod
    IN  [t EXCEPT !.rand_p = rp, !.psk_state = "PSK_MAC_SENT",
                  !.methodState = "MAY_CONT", !.decision = "FAIL",
                  !.eapRespData = Frame("psk2", t.eapReqData.id,
                                        <<t.eapReqData.data[1], rp, t.psk>>)]

\* eap_psk_process_3: PSK-3 with the right MAC is answered and gives the key.
process_3(t) ==
    [t EXCEPT !.psk_state = "PSK_DONE", !.methodState = "DONE",
              !.decision = "UNCOND_SUCC", !.eapKeyData = DeriveKeys(t.psk, t.rand_p),
              !.eapRespData = Frame("psk4", t.eapReqData.id,
                                    <<t.eapReqData.data[1], t.rand_p, t.psk>>)]

\* METHOD: any other message ends the method without a response.
Method(t) ==
    LET n == PeerEnter(t, "METHOD")
        d == t.eapReqData.data
    IN  CASE t.psk_state = "PSK_INIT" /\ t.eapReqData.kind = "psk1" -> process_1(n)
          [] t.psk_state = "PSK_MAC_SENT" /\ t.eapReqData.kind = "psk3"
             /\ d[2] = t.rand_p /\ d[3] = t.psk -> process_3(n)
          [] OTHER -> [n EXCEPT !.methodState = "DONE", !.decision = "FAIL",
                                !.eapRespData = NoFrame]

SendResponse(t) ==
    LET n == [PeerEnter(t, "SEND_RESPONSE") EXCEPT
                 !.lastRespData = t.eapRespData, !.eapReq = FALSE, !.idleWhile = ClientTimeout]
    IN  IF t.eapRespData = NoFrame THEN n
        ELSE [n EXCEPT !.lastId = t.eapReqData.id, !.lastReqData = t.eapReqData,
                       !.eapResp = TRUE]

PeerDiscard(t) == [PeerEnter(t, "DISCARD") EXCEPT !.eapReq = FALSE, !.eapNoResp = TRUE]

Identity(t) ==
    [PeerEnter(t, "IDENTITY") EXCEPT !.eapRespData = Frame("identity", t.eapReqData.id, <<>>)]

PeerRetransmit(t) == [PeerEnter(t, "RETRANSMIT") EXCEPT !.eapRespData = t.lastRespData]

PeerSuccess(t) ==
    [PeerEnter(t, "SUCCESS") EXCEPT !.eapSuccess = TRUE, !.eapReq = FALSE, !.eapNoResp = TRUE]

PeerFailure(t) ==
    [PeerEnter(t, "FAILURE") EXCEPT !.eapFail = TRUE, !.eapReq = FALSE, !.eapNoResp = TRUE]

StepPeerIdle(t) ==
    CASE t.eapReq -> PeerReceived(t)
      [] ~t.eapReq /\ t.idleWhile = 0 ->
             IF t.decision = "UNCOND_SUCC" THEN PeerSuccess(t) ELSE PeerFailure(t)
      [] OTHER -> t

\* EAP-Success and EAP-Failure may carry the Identifier of the last response or
\* one of the two after it (eap_success_workaround).  A request is a duplicate
\* if both the Identifier and the packet are those of the last one answered.
StepPeerReceived(t) ==
    LET f         == t.eapReqData
        rxReq     == f.kind \notin {"none", "success", "failure"}
        idOk      == f.id \in {t.lastId, (t.lastId + 1) % IdMod, (t.lastId + 2) % IdMod}
        duplicate == rxReq /\ f.id = t.lastId /\ f = t.lastReqData
    IN  CASE f.kind = "success" /\ t.decision # "FAIL" /\ idOk -> PeerSuccess(t)
          [] \/ f.kind = "failure" /\ t.decision # "UNCOND_SUCC" /\ idOk
             \/ f.kind = "success" /\ t.decision = "FAIL" /\ idOk -> PeerFailure(t)
          [] duplicate -> PeerRetransmit(t)
          [] rxReq /\ ~duplicate /\ t.selectedMethod = "none" /\ f.kind = "identity" ->
                 Identity(t)
          [] rxReq /\ ~duplicate /\ t.selectedMethod = "none" /\ f.kind # "identity" ->
                 GetMethod(t)
          [] rxReq /\ ~duplicate /\ MethodOf(f) = t.selectedMethod /\ t.methodState # "DONE" ->
                 Method(t)
          [] OTHER -> PeerDiscard(t)

\* SM_STEP(EAP): one transition.
PeerStep(s) ==
    LET t == [s EXCEPT !.changed = FALSE] IN
    IF t.eapRestart /\ t.portEnabled THEN PeerInitialize(t)
    ELSE IF ~t.portEnabled THEN PeerDisabled(t)
    ELSE IF t.num_rounds > MaxRounds
    THEN IF t.num_rounds = MaxRounds + 1
         THEN PeerFailure([t EXCEPT !.num_rounds = @ + 1]) ELSE t
    ELSE CASE t.eap = "DISABLED" -> PeerInitialize(t)
           [] t.eap \in {"INITIALIZE", "SEND_RESPONSE", "DISCARD"} -> PeerEnter(t, "IDLE")
           [] t.eap = "IDLE" -> StepPeerIdle(t)
           [] t.eap = "RECEIVED" -> StepPeerReceived(t)
           [] t.eap = "GET_METHOD" ->
                  IF t.selectedMethod = MethodOf(t.eapReqData) THEN Method(t)
                  ELSE SendResponse(t)
           [] t.eap = "METHOD" ->
                  IF t.methodState = "DONE" /\ t.decision = "FAIL" /\ t.eapRespData = NoFrame
                  THEN PeerFailure(t) ELSE SendResponse(t)
           [] t.eap \in {"IDENTITY", "RETRANSMIT"} -> SendResponse(t)
           [] OTHER -> t

\* eap_peer_sm_step: transitions as long as there are any, here up to MaxSteps;
\* the flag of the last shows that there were no more (StepsEnd).
PeerGoesOn(t) == IF t.changed THEN PeerStep(t) ELSE t
EapPeerStep(t) ==
    LET after[n \in 0 .. MaxSteps] == IF n = 0 THEN t ELSE PeerGoesOn(after[n - 1])
    IN  after[MaxSteps]
=============================================================================
