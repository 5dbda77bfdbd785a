----------------------------- MODULE EapolAuth -----------------------------
(* The 802.1X authenticator of one station (src/eapol_auth/eapol_auth_sm.c)   *)
(* with its glue (src/ap/ieee802_1x.c, src/ap/sta_info.c): the machines       *)
(* AUTH_PAE, BE_AUTH and REAUTH_TIMER, as operators on the record s of the    *)
(* station's entry.  portControl is Auto and there are no WPA or WEP keys, so *)
(* portValid is always TRUE and keyDone is never used.                        *)
EXTENDS EapServer

CONSTANTS QuietPeriod, ReAuthMax, ServerTimeout

ASSUME EapolAuthAssumption ==
    /\ QuietPeriod \in Nat \ {0}
    /\ ReAuthMax \in Nat \ {0}
    /\ ServerTimeout \in Nat \ {0}

\* No state machine: the station's entry is new or has lost its session.
NoStation(db, rs) ==
    [sm |-> FALSE, assoc |-> FALSE, authorized |-> FALSE, step |-> FALSE,
     auth_fail |-> FALSE, busy |-> FALSE, out |-> <<>>,
     pae |-> "INITIALIZE", be |-> "IDLE", reauth |-> "INITIALIZE",
     eapolStart |-> FALSE, eapolLogoff |-> FALSE, eapolEap |-> FALSE,
     reAuthenticate |-> FALSE, authStart |-> FALSE, authSuccess |-> FALSE,
     authFail |-> FALSE, authTimeout |-> FALSE, authAbort |-> FALSE, keyRun |-> FALSE,
     portStatus |-> "None", reAuthCount |-> 0, aWhile |-> 0, quietWhile |-> 0,
     reAuthWhen |-> 0, eap |-> EapServerInit(db, rs)]

txReq(s) == [s EXCEPT !.out = Append(@, s.eap.eapReqData)]

\* ap_sta_disconnect
ap_sta_disconnect(s) ==
    [s EXCEPT !.out = Append(@, Frame("deauth", 0, <<>>)), !.authorized = FALSE,
              !.eap.portEnabled = FALSE, !.step = TRUE, !.assoc = FALSE]

SetPort(s, authorized) ==
    [s EXCEPT !.portStatus = IF authorized THEN "Authorized" ELSE "Unauthorized",
              !.authorized = authorized]

-----------------------------------------------------------------------------
\* SM_STATE(AUTH_PAE, ...).  A failed authentication (cb.finished with
\* success = 0) schedules the disconnection of the station in 10 ms.
PaeInitialize(s) == [s EXCEPT !.pae = "INITIALIZE", !.keyRun = FALSE]

FaultPaeDisconnected(s) ==
    [SetPort(s, FALSE) EXCEPT !.pae = "DISCONNECTED", !.reAuthCount = 0,
                              !.auth_fail = @ \/ s.pae # "INITIALIZE"]

PaeDisconnected(s) ==
    [SetPort(s, FALSE) EXCEPT !.pae = "DISCONNECTED", !.reAuthCount = 0,
                              !.eapolLogoff = FALSE,
                              !.auth_fail = @ \/ s.pae # "INITIALIZE"]

PaeRestart(s) == [s EXCEPT !.pae = "RESTART", !.eap.eapRestart = TRUE]

PaeConnecting(s) ==
    [s EXCEPT !.pae = "CONNECTING", !.reAuthenticate = FALSE, !.reAuthCount = @ + 1]

PaeHeld(s) ==
    [SetPort(s, FALSE) EXCEPT !.pae = "HELD", !.quietWhile = QuietPeriod,
                              !.eapolLogoff = FALSE, !.auth_fail = TRUE]

PaeAuthenticated(s) ==
    [SetPort(s, TRUE) EXCEPT !.pae = "AUTHENTICATED", !.reAuthCount = 0]

PaeAuthenticating(s) ==
    [s EXCEPT !.pae = "AUTHENTICATING", !.eapolStart = FALSE, !.authSuccess = FALSE,
              !.authFail = FALSE, !.authTimeout = FALSE, !.authStart = TRUE,
              !.keyRun = FALSE]

PaeAborting(s) == [s EXCEPT !.pae = "ABORTING", !.authAbort = TRUE, !.keyRun = FALSE]

\* SM_STEP(AUTH_PAE)
AuthPae(s) ==
    CASE ~s.eap.portEnabled -> PaeInitialize(s)
      [] s.eap.portEnabled /\ s.pae = "INITIALIZE" -> PaeDisconnected(s)
      [] s.eap.portEnabled /\ s.pae = "DISCONNECTED" -> PaeRestart(s)
      [] s.eap.portEnabled /\ s.pae = "RESTART" ->
             IF ~s.eap.eapRestart THEN PaeConnecting(s) ELSE s
      [] s.eap.portEnabled /\ s.pae = "HELD" ->
             IF s.quietWhile = 0 THEN PaeRestart(s) ELSE s
      [] s.eap.portEnabled /\ s.pae = "CONNECTING" ->
             IF s.eapolLogoff \/ s.reAuthCount > ReAuthMax THEN PaeDisconnected(s)
             ELSE IF s.eap.eapReq \/ s.eap.eapSuccess \/ s.eap.eapFail
             THEN PaeAuthenticating(s) ELSE s
      [] s.eap.portEnabled /\ s.pae = "AUTHENTICATED" ->
             IF s.eapolStart \/ s.reAuthenticate THEN PaeRestart(s)
             ELSE IF s.eapolLogoff THEN PaeDisconnected(s) ELSE s
      [] s.eap.portEnabled /\ s.pae = "AUTHENTICATING" ->
             IF s.authSuccess THEN PaeAuthenticated(s)
             ELSE IF s.authFail THEN PaeHeld(s)
             ELSE IF s.eapolStart \/ s.eapolLogoff \/ s.authTimeout
             THEN PaeAborting(s) ELSE s
      [] s.eap.portEnabled /\ s.pae = "ABORTING" ->
             IF s.authAbort THEN s
             ELSE IF s.eapolLogoff THEN PaeDisconnected(s) ELSE PaeRestart(s)

-----------------------------------------------------------------------------
\* SM_STATE(BE_AUTH, ...).  An aborted authentication whose EAP conversation
\* timed out disconnects the station (ieee802_1x_abort_auth).
BeInitialize(s) ==
    LET a == IF s.eap.eapTimeout THEN ap_sta_disconnect(s) ELSE s
    IN  [a EXCEPT !.be = "INITIALIZE", !.eap.eapNoReq = FALSE, !.authAbort = FALSE]

BeRequest(s) ==
    [txReq(s) EXCEPT !.be = "REQUEST", !.eap.eapReq = FALSE, !.eapolEap = FALSE]

BeResponse(s) ==
    [s EXCEPT !.be = "RESPONSE", !.authTimeout = FALSE, !.eapolEap = FALSE,
              !.eap.eapNoReq = FALSE, !.aWhile = ServerTimeout, !.eap.eapResp = TRUE]

BeSuccess(s) ==
    [txReq(s) EXCEPT !.be = "SUCCESS", !.authSuccess = TRUE, !.keyRun = TRUE]

FaultBeFail(s) == [txReq(s) EXCEPT !.be = "FAIL", !.authSuccess = TRUE]

BeFail(s) == [txReq(s) EXCEPT !.be = "FAIL", !.authFail = TRUE]

FaultBeTimeout(s) == [s EXCEPT !.be = "TIMEOUT"]

BeTimeout(s) == [s EXCEPT !.be = "TIMEOUT", !.authTimeout = TRUE]
BeIdle(s) == [s EXCEPT !.be = "IDLE", !.authStart = FALSE]
BeIgnore(s) == [s EXCEPT !.be = "IGNORE", !.eap.eapNoReq = FALSE]

\* The answer of the EAP server; entering IGNORE does not end the step.
StepResponse(s) ==
    LET r == IF s.eap.eapNoReq THEN BeIgnore(s) ELSE s IN
    IF r.eap.eapReq THEN BeRequest(r)
    ELSE IF r.aWhile = 0 THEN BeTimeout(r)
    ELSE IF r.eap.eapFail THEN BeFail(r)
    ELSE IF r.eap.eapSuccess THEN BeSuccess(r) ELSE r

\* SM_STEP(BE_AUTH)
BeAuth(s) ==
    CASE s.authAbort -> BeInitialize(s)
      [] ~s.authAbort /\ s.be \in {"INITIALIZE", "SUCCESS", "FAIL", "TIMEOUT"} -> BeIdle(s)
      [] ~s.authAbort /\ s.be \in {"REQUEST", "IGNORE"} ->
             IF s.eapolEap THEN BeResponse(s)
             ELSE IF s.eap.eapReq THEN BeRequest(s)
             ELSE IF s.eap.eapTimeout THEN BeTimeout(s) ELSE s
      [] ~s.authAbort /\ s.be = "RESPONSE" -> StepResponse(s)
      [] ~s.authAbort /\ s.be = "IDLE" ->
             IF s.eap.eapFail /\ s.authStart THEN BeFail(s)
             ELSE IF s.eap.eapReq /\ s.authStart THEN BeRequest(s)
             ELSE IF s.eap.eapSuccess /\ s.authStart THEN BeSuccess(s) ELSE s

\* SM_STEP(REAUTH_TIMER); a period of 0 disables reauthentication.
ReauthTimer(s, period) ==
    IF s.portStatus = "Unauthorized" \/ period = 0 \/ s.reauth = "REAUTHENTICATE"
    THEN [s EXCEPT !.reauth = "INITIALIZE", !.reAuthWhen = period]
    ELSE IF s.reAuthWhen = 0
    THEN [s EXCEPT !.reauth = "REAUTHENTICATE", !.reAuthenticate = TRUE]
    ELSE s

\* One pass of eapol_sm_step_run: the EAPOL machines and, if none of them has
\* changed its state, the EAP machine.  r.left passes may still be made; when there
\* are no more the rest is left to another event.
Pass(r, period) ==
    LET s     == r.sm
        t     == ReauthTimer(BeAuth(AuthPae(s)), period)
        first == EapStep(t.eap)
        moved == t.pae # s.pae \/ t.be # s.be \/ t.reauth # s.reauth
        next  == IF moved THEN t ELSE [t EXCEPT !.eap = EapServerStep(first)]
    IN  IF r.left = 0 THEN r
        ELSE IF ~moved /\ ~first.changed THEN [sm |-> next, left |-> 0]
        ELSE IF r.left > 1 THEN [sm |-> next, left |-> r.left - 1]
        ELSE [sm |-> [next EXCEPT !.step = TRUE, !.busy = TRUE], left |-> 0]

eapol_sm_step_run(s, period) ==
    LET after[n \in 0 .. MaxSteps] ==
            IF n = 0 THEN [sm |-> s, left |-> MaxSteps] ELSE Pass(after[n - 1], period)
    IN  after[MaxSteps].sm

-----------------------------------------------------------------------------
\* eapol_port_timers_tick: once a second.
eapol_port_timers_tick(s, period) ==
    eapol_sm_step_run([s EXCEPT !.aWhile = Dec(@), !.quietWhile = Dec(@),
                                !.reAuthWhen = Dec(@), !.eap.retransWhile = Dec(@)], period)

\* ieee802_1x_receive: the frame only sets variables, the machines run from a
\* timeout of zero.  EAPOL of a station that is not associated is not taken.
ieee802_1x_receive(s, f) ==
    CASE ~s.assoc \/ ~s.sm -> s
      [] s.assoc /\ s.sm /\ f.kind = "start" ->
             [s EXCEPT !.eapolStart = TRUE, !.eap.identity = FALSE, !.step = TRUE]
      [] s.assoc /\ s.sm /\ f.kind = "logoff" ->
             [s EXCEPT !.eapolLogoff = TRUE, !.eap.identity = FALSE, !.step = TRUE]
      [] OTHER -> [s EXCEPT !.eap.eapRespData = f, !.eapolEap = TRUE, !.step = TRUE]

\* handle_deauth, ap_free_sta: the session ends, its timeouts are cancelled.
free_station(s) == NoStation(s.eap.db, s.eap.rand_s)

\* handle_auth takes the authorization of an associated station back when the
\* driver keeps the full client state; hostapd_new_assoc_sta cancels a pending
\* disconnection; ieee802_1x_new_station starts or restarts the session.
new_station(s, period, fullState) ==
    [s EXCEPT !.sm = TRUE, !.assoc = TRUE, !.auth_fail = FALSE, !.step = TRUE,
              !.authorized = @ /\ ~fullState, !.eap.portEnabled = TRUE,
              !.reAuthenticate = @ \/ s.sm,
              !.reAuthWhen = IF s.sm THEN @ ELSE period]

\* ap_sta_delayed_1x_auth_fail_cb
delayed_1x_auth_fail(s) == ap_sta_disconnect([s EXCEPT !.auth_fail = FALSE])
=============================================================================
