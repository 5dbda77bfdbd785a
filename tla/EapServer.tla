----------------------------- MODULE EapServer -----------------------------
(* The EAP server state machine of hostapd's integrated server                *)
(* (src/eap_server/eap_server.c) with the methods Identity and EAP-PSK, as    *)
(* operators on the record e of one station's struct eap_sm and its eap_if.   *)
(* States that do nothing but choose the next one are folded into that choice.*)
EXTENDS EapData

CONSTANTS MaxRetrans, FirstRto, MaxRto

ASSUME EapServerAssumption ==
    /\ MaxRetrans \in Nat
    /\ FirstRto \in Nat \ {0}
    /\ MaxRto \in Nat /\ MaxRto >= FirstRto

\* db: the methods the user database lists for the station's identity, <<>> if
\* it does not know it.  rs: the last RAND_S drawn.
EapServerInit(db, rs) ==
    [state |-> "DISABLED", changed |-> FALSE, portEnabled |-> FALSE,
     eapRestart |-> FALSE, eapSuccess |-> FALSE, eapFail |-> FALSE, eapTimeout |-> FALSE,
     eapReq |-> FALSE, eapResp |-> FALSE, eapNoReq |-> FALSE, retransWhile |-> 0,
     eapReqData |-> NoFrame, eapRespData |-> NoFrame, lastReqData |-> NoFrame,
     eapKeyData |-> NoKey, currentId |-> -1, lastId |-> 0, retransCount |-> 0,
     num_rounds |-> 0, decision |-> "CONTINUE", currentMethod |-> "none",
     m |-> "NULL", methodState |-> "CONTINUE", identity |-> FALSE, user |-> <<>>,
     index |-> 1, update_user |-> FALSE, rand_s |-> rs, rand_p |-> 0,
     db |-> db, rnd |-> 0]

\* SM_ENTER always reports a change, SM_ENTER_GLOBAL only a change of state.
Enter(e, st) == [e EXCEPT !.state = st, !.changed = TRUE]
EnterGlobal(e, st) == [e EXCEPT !.state = st, !.changed = @ \/ e.state # st]

DISABLED(e) == [EnterGlobal(e, "DISABLED") EXCEPT !.num_rounds = 0]

INITIALIZE(e) ==
    [EnterGlobal(e, "INITIALIZE") EXCEPT
        !.currentId = -1, !.eapSuccess = FALSE, !.eapFail = FALSE, !.eapTimeout = FALSE,
        !.eapKeyData = NoKey, !.eapRestart = FALSE, !.m = "NULL", !.index = 1,
        !.num_rounds = 0]

\* The retransmission timeout doubles from the first value up to the last.
calculateTimeout(retransCount) ==
    LET rto == FirstRto * 2^retransCount IN IF rto >= MaxRto THEN MaxRto ELSE rto

IDLE(e) ==
    [Enter(e, "IDLE") EXCEPT !.retransWhile = calculateTimeout(e.retransCount)]

FaultUncounted(e) ==
    [Enter(e, "RETRANSMIT") EXCEPT !.eapReqData = e.lastReqData, !.eapReq = TRUE]

RETRANSMIT(e) ==
    LET n == [Enter(e, "RETRANSMIT") EXCEPT !.retransCount = @ + 1]
    IN  IF n.retransCount <= MaxRetrans /\ n.lastReqData # NoFrame
        THEN [n EXCEPT !.eapReqData = n.lastReqData, !.eapReq = TRUE]
        ELSE n

RECEIVED(e) == [Enter(e, "RECEIVED") EXCEPT !.num_rounds = @ + 1]

DISCARD(e) == [Enter(e, "DISCARD") EXCEPT !.eapResp = FALSE, !.eapNoReq = TRUE]

\* A conversation starts at a random Identifier that is not the last one used.
nextId(e) ==
    IF e.currentId < 0
    THEN IF e.rnd # e.lastId THEN e.rnd ELSE (e.rnd + 1) % IdMod
    ELSE (e.currentId + 1) % IdMod

\* m->buildReq: m is the state of the method's data.  Requests of methods that are
\* not modelled look alike.
buildReq(e, id) ==
    CASE e.m = "PSK_1" -> Frame("psk1", id, <<e.rand_s>>)
      [] e.m = "PSK_3" -> Frame("psk3", id, <<e.rand_s, e.rand_p, UserPsk>>)
      [] OTHER -> Frame(IF e.currentMethod = "identity" THEN "identity" ELSE "other", id, <<>>)

\* METHOD_REQUEST builds the request (eap_psk_build_1 draws RAND_S) and, as the
\* methods modelled never fail to build one, SEND_REQUEST hands it to EAPOL.
METHOD_REQUEST(e) ==
    LET id  == nextId(e)
        n   == [e EXCEPT !.currentId = id, !.lastId = id,
                         !.rand_s = IF e.m = "PSK_1" THEN (@ + 1) % RandMod ELSE @]
        req == buildReq(n, id)
    IN  [Enter(n, "SEND_REQUEST") EXCEPT
            !.eapReqData = req, !.lastReqData = req, !.retransCount = 0,
            !.eapResp = FALSE, !.eapReq = TRUE]

\* m->check: EAP-PSK ignores a message of the wrong type T.
ignored(e) ==
    \/ e.m = "PSK_1" /\ e.eapRespData.kind # "psk2"
    \/ e.m = "PSK_3" /\ e.eapRespData.kind # "psk4"

\* m->process for EAP-Response/Identity, PSK-2 and PSK-4; the station answers no
\* other method.
process(e) ==
    LET d == e.eapRespData.data IN
    CASE e.eapRespData.kind = "identity" ->
             [e EXCEPT !.update_user = @ \/ e.identity, !.identity = TRUE, !.m = "SUCCESS"]
      [] e.eapRespData.kind = "psk2" ->
             [e EXCEPT !.user = e.db, !.index = 1, !.rand_p = d[2],
                       !.m = IF d[1] = e.rand_s /\ d[3] = UserPsk THEN "PSK_3" ELSE "FAILURE"]
      [] e.eapRespData.kind = "psk4" ->
             [e EXCEPT !.m = IF d[2] = e.rand_p /\ d[3] = UserPsk THEN "SUCCESS" ELSE "FAILURE"]
      [] OTHER -> e

\* The key is taken from a method that has ended; Identity has none.
FaultKeyNonce(e) ==
    LET n    == process(Enter(e, "METHOD_RESPONSE"))
        done == n.m \in {"SUCCESS", "FAILURE"}
        key  == IF n.m = "SUCCESS" /\ n.currentMethod = "psk"
                THEN DeriveKeys(UserPsk, n.rand_s) ELSE NoKey
    IN  [n EXCEPT !.methodState = IF done THEN "END" ELSE "CONTINUE",
                  !.eapKeyData = IF done THEN key ELSE @]

METHOD_RESPONSE(e) ==
    LET n    == process(Enter(e, "METHOD_RESPONSE"))
        done == n.m \in {"SUCCESS", "FAILURE"}
        key  == IF n.m = "SUCCESS" /\ n.currentMethod = "psk"
                THEN DeriveKeys(UserPsk, n.rand_p) ELSE NoKey
    IN  [n EXCEPT !.methodState = IF done THEN "END" ELSE "CONTINUE",
                  !.eapKeyData = IF done THEN key ELSE @]

\* Policy_getNextMethod and the initialization of the method it names.
PROPOSE_METHOD(e) ==
    LET n == Enter(e, "PROPOSE_METHOD") IN
    IF ~e.identity \/ e.currentId = -1
    THEN [n EXCEPT !.currentMethod = "identity", !.m = "CONTINUE",
                   !.methodState = "CONTINUE", !.update_user = TRUE]
    ELSE IF e.index <= Len(e.user)
    THEN [n EXCEPT !.currentMethod = e.user[e.index], !.index = @ + 1,
                   !.m = IF e.user[e.index] = "psk" THEN "PSK_1" ELSE "CONTINUE",
                   !.methodState = "PROPOSED"]
    ELSE [n EXCEPT !.currentMethod = "none", !.m = "NULL", !.decision = "FAILURE"]

\* The methods from the index on that the Nak does not list are removed.
NAK(e) ==
    LET allowed(x) == \E i \in DOMAIN e.eapRespData.data : e.eapRespData.data[i] = x
    IN  [Enter(e, "NAK") EXCEPT
            !.m = "NULL",
            !.user = SubSeq(e.user, 1, e.index - 1)
                     \o SelectSeq(SubSeq(e.user, e.index, Len(e.user)), allowed)]

getDecision(e) ==
    LET lookup == (e.user = <<>> \/ e.update_user) /\ e.identity
        u == IF lookup THEN [e EXCEPT !.user = e.db, !.index = 1, !.update_user = FALSE] ELSE e
    IN  CASE e.m = "SUCCESS" /\ e.currentMethod # "identity" ->
                 [e EXCEPT !.decision = "SUCCESS", !.update_user = TRUE]
          [] e.m = "FAILURE" -> [e EXCEPT !.decision = "FAILURE", !.update_user = TRUE]
          [] lookup /\ e.db = <<>> -> [e EXCEPT !.user = <<>>, !.decision = "FAILURE"]
          [] OTHER ->
                 [u EXCEPT !.decision =
                     IF u.index <= Len(u.user) \/ ~u.identity \/ u.currentId = -1
                     THEN "CONTINUE" ELSE "FAILURE"]

SELECT_ACTION(e) == getDecision(Enter(e, "SELECT_ACTION"))

TIMEOUT_FAILURE(e) == [Enter(e, "TIMEOUT_FAILURE") EXCEPT !.eapTimeout = TRUE]

FAILURE(e) ==
    [Enter(e, "FAILURE") EXCEPT !.eapReqData = Frame("failure", e.currentId % IdMod, <<>>),
                                !.lastReqData = NoFrame, !.eapFail = TRUE]

SUCCESS(e) ==
    [Enter(e, "SUCCESS") EXCEPT !.eapReqData = Frame("success", e.currentId % IdMod, <<>>),
                                !.lastReqData = NoFrame, !.eapSuccess = TRUE]

\* What RECEIVED and INTEGRITY_CHECK do with the response.
StepReceived(e) ==
    LET r == e.eapRespData IN
    CASE r.id = e.currentId /\ r.kind = "nak" /\ e.methodState = "PROPOSED" -> NAK(e)
      [] r.id = e.currentId /\ MethodOf(r) = e.currentMethod /\ ~ignored(e) ->
             METHOD_RESPONSE(e)
      [] OTHER -> DISCARD(e)

\* The retransmission timer is looked at before a response.
StepIdle(e) ==
    CASE e.retransWhile = 0 -> RETRANSMIT(e)
      [] e.retransWhile # 0 /\ e.eapResp -> RECEIVED(e)
      [] OTHER -> e

\* SM_STEP(EAP): one transition.
EapStep(s) ==
    LET e == [s EXCEPT !.changed = FALSE] IN
    IF e.eapRestart /\ e.portEnabled THEN INITIALIZE(e)
    ELSE IF ~e.portEnabled THEN DISABLED(e)
    ELSE IF e.num_rounds > MaxRounds
    THEN IF e.num_rounds = MaxRounds + 1
         THEN FAILURE([e EXCEPT !.num_rounds = @ + 1]) ELSE e
    ELSE CASE e.state \in {"INITIALIZE", "NAK"} -> SELECT_ACTION(e)
           [] e.state = "DISABLED" -> INITIALIZE(e)
           [] e.state = "IDLE" -> StepIdle(e)
           [] e.state = "RETRANSMIT" ->
                  IF e.retransCount > MaxRetrans THEN TIMEOUT_FAILURE(e) ELSE IDLE(e)
           [] e.state = "RECEIVED" -> StepReceived(e)
           [] e.state \in {"DISCARD", "SEND_REQUEST"} -> IDLE(e)
           [] e.state = "METHOD_RESPONSE" ->
                  IF e.methodState = "END" THEN SELECT_ACTION(e) ELSE METHOD_REQUEST(e)
           [] e.state = "PROPOSE_METHOD" ->
                  IF e.m = "NULL" THEN FAILURE(e) ELSE METHOD_REQUEST(e)
           [] e.state = "SELECT_ACTION" ->
                  IF e.decision = "FAILURE" THEN FAILURE(e)
                  ELSE IF e.decision = "SUCCESS" THEN SUCCESS(e)
                  ELSE PROPOSE_METHOD(e)
           [] OTHER -> e

\* eap_server_sm_step: transitions as long as there are any, here up to MaxSteps;
\* the flag of the last shows that there were no more (StepsEnd).
EapGoesOn(e) == IF e.changed THEN EapStep(e) ELSE e
EapServerStep(e) ==
    LET after[n \in 0 .. MaxSteps] == IF n = 0 THEN e ELSE EapGoesOn(after[n - 1])
    IN  after[MaxSteps]
=============================================================================
