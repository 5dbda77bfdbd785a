----------------------------- MODULE EapolSupp -----------------------------
(* The 802.1X supplicant (src/eapol_supp/eapol_supp_sm.c): the machines        *)
(* SUPP_PAE and SUPP_BE, with what wpa_supplicant does around them: the        *)
(* notifications of an association and of its end, and the timeout of the      *)
(* authentication.  portControl is Auto and no EAPOL-Key frames are used       *)
(* (accept_802_1x_keys with required_keys = 0).                                *)
EXTENDS EapPeer

CONSTANTS StartDelay,     \* seconds before the first EAPOL-Start (2)
          StartPeriod, MaxStart, HeldPeriod, AuthPeriod,
          FirstTimeout,   \* seconds from association to the first EAPOL frame (10)
          EapolTimeout,   \* seconds from that frame to the end of EAP (70)
          FailTimeout     \* seconds from a failure to giving the AP up (2)

ASSUME EapolSuppAssumption ==
    \A c \in {StartDelay, StartPeriod, MaxStart, HeldPeriod, AuthPeriod,
              FirstTimeout, EapolTimeout, FailTimeout} : c \in Nat \ {0}

\* eapol_sm_init; a timeout of -1 is not running.
SuppInit(psk) ==
    [assoc |-> FALSE, timeout |-> -1, eapol_received |-> FALSE, busy |-> FALSE,
     out |-> <<>>, cb |-> "IN_PROGRESS",
     pae |-> "DISCONNECTED", be |-> "IDLE", portEnabled |-> FALSE, portValid |-> FALSE,
     portStatus |-> "Unauthorized", userLogoff |-> FALSE, logoffSent |-> FALSE,
     startCount |-> 0, startWhen |-> 0, heldWhile |-> 0, authWhile |-> 0, idleWhile |-> 0,
     suppAbort |-> FALSE, suppStart |-> FALSE, suppTimeout |-> FALSE,
     eapolEap |-> FALSE, eapReq |-> FALSE, eapResp |-> FALSE, eapNoResp |-> FALSE,
     eapRestart |-> FALSE, eapSuccess |-> FALSE, eapFail |-> FALSE,
     eapReqData |-> NoFrame, eapRespData |-> NoFrame, lastReqData |-> NoFrame,
     lastRespData |-> NoFrame, lastId |-> -1, num_rounds |-> 0, eapKeyData |-> NoKey,
     eap |-> "DISABLED", changed |-> FALSE, selectedMethod |-> "none",
     methodState |-> "NONE", decision |-> "FAIL", psk_state |-> "PSK_INIT",
     rand_p |-> 0, psk |-> psk]

Send(t, kind) == [t EXCEPT !.out = Append(@, Frame(kind, 0, <<>>))]
SuppEnter(t, st) == [t EXCEPT !.pae = st, !.changed = TRUE]
SuppEnterGlobal(t, st) == [t EXCEPT !.pae = st, !.changed = @ \/ t.pae # st]

-----------------------------------------------------------------------------
\* SM_STATE(SUPP_PAE, ...)
SuppLogoff(t) ==
    [Send(SuppEnterGlobal(t, "LOGOFF"), "logoff") EXCEPT
        !.logoffSent = TRUE, !.portStatus = "Unauthorized"]

SuppDisconnected(t) ==
    [SuppEnterGlobal(t, "DISCONNECTED") EXCEPT
        !.startCount = 0, !.logoffSent = FALSE, !.portStatus = "Unauthorized",
        !.suppAbort = TRUE, !.heldWhile = 0]

\* The first EAPOL-Start is delayed: the authenticator mostly starts by itself.
SuppConnecting(t) ==
    LET n == [SuppEnter(t, "CONNECTING") EXCEPT !.eapolEap = FALSE] IN
    IF t.pae \in {"CONNECTING", "HELD"}
    THEN Send([n EXCEPT !.startWhen = StartPeriod, !.startCount = @ + 1], "start")
    ELSE [n EXCEPT !.startWhen = StartDelay]

SuppAuthenticating(t) ==
    [SuppEnter(t, "AUTHENTICATING") EXCEPT
        !.startCount = 0, !.suppTimeout = FALSE, !.suppStart = TRUE]

SuppHeld(t) ==
    [SuppEnter(t, "HELD") EXCEPT
        !.heldWhile = HeldPeriod, !.portStatus = "Unauthorized", !.cb = "FAILURE"]

SuppAuthenticated(t) ==
    [SuppEnter(t, "AUTHENTICATED") EXCEPT !.portStatus = "Authorized", !.cb = "SUCCESS"]

SuppRestart(t) == [SuppEnter(t, "RESTART") EXCEPT !.eapRestart = TRUE]

\* With no keys to wait for, success makes the port valid and ends the
\* authentication timeout (wpa_supplicant_notify_eapol_done).
PortValid(t) ==
    IF t.eapSuccess /\ ~t.portValid
    THEN [t EXCEPT !.portValid = TRUE, !.timeout = -1] ELSE t

StepConnecting(t) ==
    LET expired == t.startWhen = 0
        starts  == t.startCount < MaxStart
    IN  CASE expired /\ starts -> SuppConnecting(t)
          [] expired /\ ~starts /\ t.portValid -> SuppAuthenticated(t)
          [] OTHER ->
                 IF t.eapSuccess \/ t.eapFail THEN SuppAuthenticating(t)
                 ELSE IF t.eapolEap THEN SuppRestart(t)
                 ELSE IF expired THEN SuppHeld(t) ELSE t

StepAuthenticating(s) ==
    LET t == PortValid(s) IN
    IF t.eapSuccess THEN SuppAuthenticated(t)
    ELSE IF t.eapFail THEN SuppHeld(t)
    ELSE IF t.suppTimeout THEN SuppConnecting(t) ELSE t

\* SM_STEP(SUPP_PAE)
SuppPae(t) ==
    IF t.userLogoff /\ ~t.logoffSent /\ t.portEnabled THEN SuppLogoff(t)
    ELSE IF ~t.portEnabled THEN SuppDisconnected(t)
    ELSE CASE t.pae = "LOGOFF" ->
                  IF ~t.userLogoff THEN SuppDisconnected(t) ELSE t
           [] t.pae = "DISCONNECTED" -> SuppConnecting(t)
           [] t.pae = "CONNECTING" -> StepConnecting(t)
           [] t.pae = "AUTHENTICATING" -> StepAuthenticating(t)
           [] t.pae = "HELD" ->
                  IF t.heldWhile = 0 THEN SuppConnecting(t)
                  ELSE IF t.eapolEap THEN SuppRestart(t) ELSE t
           [] t.pae = "AUTHENTICATED" ->
                  IF ~t.portValid THEN SuppDisconnected(t)
                  ELSE IF t.eapolEap THEN SuppRestart(t) ELSE t
           [] t.pae = "RESTART" ->
                  IF ~t.eapRestart THEN SuppAuthenticating(t) ELSE t

-----------------------------------------------------------------------------
\* SM_STATE(SUPP_BE, ...)
BeEnter(t, st) == [t EXCEPT !.be = st, !.changed = TRUE]

SuppBeRequest(t) == [BeEnter(t, "REQUEST") EXCEPT !.authWhile = 0, !.eapReq = TRUE]

\* eapol_sm_txSuppRsp takes the response of the EAP peer.
SuppBeResponse(t) ==
    [BeEnter(t, "RESPONSE") EXCEPT
        !.eapResp = FALSE, !.eapRespData = NoFrame,
        !.out = IF t.eapRespData = NoFrame THEN @ ELSE Append(@, t.eapRespData)]

FaultSuppBeTimeout(t) == BeEnter(t, "TIMEOUT")

SuppBeTimeout(t) == [BeEnter(t, "TIMEOUT") EXCEPT !.suppTimeout = TRUE]

SuppBeIdle(t) == [BeEnter(t, "IDLE") EXCEPT !.suppStart = FALSE]

\* eapol_sm_abortSupp and eap_sm_abort
SuppBeInitialize(t) ==
    [t EXCEPT !.be = "INITIALIZE", !.changed = @ \/ t.be # "INITIALIZE",
              !.eapReqData = NoFrame, !.lastRespData = NoFrame, !.eapRespData = NoFrame,
              !.eapKeyData = NoKey, !.eapSuccess = FALSE, !.suppAbort = FALSE,
              !.authWhile = 0]

SuppBeReceive(t) ==
    [BeEnter(t, "RECEIVE") EXCEPT !.authWhile = AuthPeriod, !.eapolEap = FALSE,
                                  !.eapNoResp = FALSE]

\* SM_STEP(SUPP_BE); SUCCESS and FAIL only set variables that nothing reads.
SuppBe(t) ==
    IF t.suppAbort THEN SuppBeInitialize(t)
    ELSE CASE t.be = "REQUEST" ->
                  IF t.eapResp THEN SuppBeResponse(t)
                  ELSE IF t.eapNoResp THEN SuppBeReceive(t)
                  ELSE IF t.eapFail THEN BeEnter(t, "FAIL")
                  ELSE IF t.eapSuccess THEN BeEnter(t, "SUCCESS") ELSE t
           [] t.be = "RESPONSE" -> SuppBeReceive(t)
           [] t.be \in {"SUCCESS", "FAIL", "TIMEOUT", "INITIALIZE"} -> SuppBeIdle(t)
           [] t.be = "IDLE" ->
                  IF ~t.suppStart THEN t
                  ELSE IF t.eapFail THEN BeEnter(t, "FAIL")
                  ELSE IF t.eapolEap THEN SuppBeRequest(t)
                  ELSE IF t.eapSuccess THEN BeEnter(t, "SUCCESS") ELSE t
           [] t.be = "RECEIVE" ->
                  IF t.eapolEap THEN SuppBeRequest(t)
                  ELSE IF t.eapFail THEN BeEnter(t, "FAIL")
                  ELSE IF t.authWhile = 0 THEN SuppBeTimeout(t)
                  ELSE IF t.eapSuccess THEN BeEnter(t, "SUCCESS") ELSE t

\* One pass of eapol_sm_step over the machines; r.left may still be made.
SuppPass(r) ==
    LET t     == SuppBe(SuppPae([r.sm EXCEPT !.changed = FALSE]))
        first == PeerStep(t)
        next  == EapPeerStep(first)
    IN  IF r.left = 0 THEN r
        ELSE IF ~t.changed /\ ~first.changed THEN [sm |-> next, left |-> 0]
        ELSE IF r.left > 1 THEN [sm |-> next, left |-> r.left - 1]
        ELSE [sm |-> [next EXCEPT !.busy = TRUE], left |-> 0]

SuppRun(s) ==
    LET after[n \in 0 .. MaxSteps] ==
            IF n = 0 THEN [sm |-> s, left |-> MaxSteps] ELSE SuppPass(after[n - 1])
    IN  after[MaxSteps].sm

\* Passes until nothing changes.  The result is then reported; a failure starts a
\* short timeout (wpa_supplicant_eapol_cb).
eapol_sm_step(s) ==
    LET t == SuppRun(s)
    IN  [t EXCEPT !.cb = "IN_PROGRESS",
                  !.timeout = IF t.cb = "FAILURE" THEN FailTimeout ELSE @]

-----------------------------------------------------------------------------
\* eapol_port_timers_tick: once a second; the authentication timeout is counted too.
supp_port_timers_tick(t) ==
    eapol_sm_step([t EXCEPT !.authWhile = Dec(@), !.heldWhile = Dec(@),
                            !.startWhen = Dec(@), !.idleWhile = Dec(@), !.timeout = Dec(@)])

\* wpa_supplicant_rx_eapol, eapol_sm_rx_eapol
eapol_sm_rx_eapol(t, f) ==
    eapol_sm_step([t EXCEPT !.eapReqData = f, !.eapolEap = TRUE, !.eapol_received = TRUE,
                            !.timeout = IF t.eapol_received THEN @ ELSE EapolTimeout])

notify_portEnabled(t, enabled) == eapol_sm_step([t EXCEPT !.portEnabled = enabled])
notify_portValid(t, valid) == eapol_sm_step([t EXCEPT !.portValid = valid])

\* wpa_supplicant_mark_disassoc
mark_disassoc(t) ==
    [notify_portValid(notify_portEnabled(t, FALSE), FALSE) EXCEPT
        !.assoc = FALSE, !.timeout = -1]

\* wpa_supplicant_event_assoc
event_assoc(t) ==
    [notify_portEnabled(notify_portValid(notify_portEnabled(t, FALSE), FALSE), TRUE) EXCEPT
        !.assoc = TRUE, !.eapol_received = FALSE, !.timeout = FirstTimeout]

notify_logoff(t, logoff) ==
    eapol_sm_step([t EXCEPT !.userLogoff = logoff, !.startWhen = IF logoff THEN @ ELSE 0])

request_reauth(t) == IF t.pae = "AUTHENTICATED" THEN Send(t, "start") ELSE t
=============================================================================
