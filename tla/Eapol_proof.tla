---------------------------- MODULE Eapol_proof -----------------------------
(***************************************************************************)
(* Proof that 802.1X with EAP-PSK opens the port only for a station with   *)
(* the key of the user database.  Each end is taken by itself: what it     *)
(* does with the frames that the other may send if the keys differ.  The   *)
(* loops that step the machines are covered by induction on the number of  *)
(* their turns.                                                            *)
(***************************************************************************)
EXTENDS Eapol, WellFoundedInduction, TLAPS

\* Induction over the natural numbers, for a set.
LEMMA SetInduction ==
    ASSUME NEW S, 0 \in S, \A n \in Nat : n \in S => n + 1 \in S
    PROVE  \A n \in Nat : n \in S
<1> DEFINE Below == {ss \in Nat \X Nat : ss[1] < ss[2]}
<1>1. IsWellFoundedOn(Below, Nat)
  BY NatLessThanWellFounded DEF OpToRel
<1> SUFFICES ASSUME NEW m \in Nat \ S PROVE FALSE
  OBVIOUS
<1>2. PICK x \in Nat \ S : \A y \in Nat \ S : ~(<<y, x>> \in Below)
  <2> HIDE DEF Below
  <2> QED BY <1>1, WFMin
<1>3. x # 0 /\ x - 1 \in Nat /\ x = (x - 1) + 1
  OBVIOUS
<1>4. x - 1 \notin S
  BY <1>3
<1>5. <<x - 1, x>> \in Below
  BY <1>3
<1> QED BY <1>2, <1>3, <1>4, <1>5

(***************************************************************************)
(* Frames.  A station without the key of the user database computes its    *)
(* MACs with another one, the server its own with the key of the database. *)
(***************************************************************************)

\* The MAC of PSK-3 is the server's.
OfServer(f) == f.kind = "psk3" => f.data[3] = UserPsk

\* The MAC of PSK-2 and PSK-4 is not made with the key of the database.
WrongKey(f) == f.kind \in {"psk2", "psk4"} => f.data[3] # UserPsk

\* Sequences of such frames.
AllOfServer(q) == \E S : q \in Seq(S) /\ \A f \in S : OfServer(f)
AllWrongKey(q) == \E S : q \in Seq(S) /\ \A f \in S : WrongKey(f)

\* Frames of other kinds are both.
LEMMA OtherFrames ==
    ASSUME NEW kind, kind \notin {"psk2", "psk3", "psk4"}, NEW id, NEW data
    PROVE  OfServer(Frame(kind, id, data)) /\ WrongKey(Frame(kind, id, data))
<1>1. Frame(kind, id, data).kind = kind
  BY DEF Frame
<1> QED BY <1>1 DEF OfServer, WrongKey

\* So is the frame that stands for none.
LEMMA NoneIsBoth == OfServer(NoFrame) /\ WrongKey(NoFrame)
BY OtherFrames DEF NoFrame

\* The sequences grow, are joined and lose their first frame.
LEMMA ServerSequences ==
    /\ AllOfServer(<<>>)
    /\ \A q, f : AllOfServer(q) /\ OfServer(f) => AllOfServer(Append(q, f))
    /\ \A p, q : AllOfServer(p) /\ AllOfServer(q) => AllOfServer(p \o q)
    /\ \A q : AllOfServer(q) /\ q # <<>> => OfServer(Head(q)) /\ AllOfServer(Tail(q))
<1>1. AllOfServer(<<>>)
  <2> DEFINE S == {NoFrame}
  <2>1. <<>> \in Seq(S) /\ \A f \in S : OfServer(f)
    BY NoneIsBoth
  <2> HIDE DEF S
  <2> QED BY <2>1 DEF AllOfServer
<1>2. ASSUME NEW q, NEW f, AllOfServer(q), OfServer(f) PROVE AllOfServer(Append(q, f))
  <2>1. PICK S : q \in Seq(S) /\ \A g \in S : OfServer(g)
    BY <1>2 DEF AllOfServer
  <2>2. Append(q, f) \in Seq(S \cup {f})
    BY <2>1
  <2> QED BY <1>2, <2>1, <2>2 DEF AllOfServer
<1>3. ASSUME NEW p, NEW q, AllOfServer(p), AllOfServer(q) PROVE AllOfServer(p \o q)
  <2>1. PICK S : p \in Seq(S) /\ \A g \in S : OfServer(g)
    BY <1>3 DEF AllOfServer
  <2>2. PICK T : q \in Seq(T) /\ \A g \in T : OfServer(g)
    BY <1>3 DEF AllOfServer
  <2>3. p \o q \in Seq(S \cup T)
    BY <2>1, <2>2
  <2> QED BY <2>1, <2>2, <2>3 DEF AllOfServer
<1>4. ASSUME NEW q, AllOfServer(q), q # <<>>
      PROVE  OfServer(Head(q)) /\ AllOfServer(Tail(q))
  <2>1. PICK S : q \in Seq(S) /\ \A g \in S : OfServer(g)
    BY <1>4 DEF AllOfServer
  <2>2. Head(q) \in S /\ Tail(q) \in Seq(S)
    BY <1>4, <2>1
  <2> QED BY <2>1, <2>2 DEF AllOfServer
<1> QED BY <1>1, <1>2, <1>3, <1>4

\* The same for those of the station.
LEMMA StationSequences ==
    /\ AllWrongKey(<<>>)
    /\ \A q, f : AllWrongKey(q) /\ WrongKey(f) => AllWrongKey(Append(q, f))
    /\ \A p, q : AllWrongKey(p) /\ AllWrongKey(q) => AllWrongKey(p \o q)
    /\ \A q : AllWrongKey(q) /\ q # <<>> => WrongKey(Head(q)) /\ AllWrongKey(Tail(q))
<1>1. AllWrongKey(<<>>)
  <2> DEFINE S == {NoFrame}
  <2>1. <<>> \in Seq(S) /\ \A f \in S : WrongKey(f)
    BY NoneIsBoth
  <2> HIDE DEF S
  <2> QED BY <2>1 DEF AllWrongKey
<1>2. ASSUME NEW q, NEW f, AllWrongKey(q), WrongKey(f) PROVE AllWrongKey(Append(q, f))
  <2>1. PICK S : q \in Seq(S) /\ \A g \in S : WrongKey(g)
    BY <1>2 DEF AllWrongKey
  <2>2. Append(q, f) \in Seq(S \cup {f})
    BY <2>1
  <2> QED BY <1>2, <2>1, <2>2 DEF AllWrongKey
<1>3. ASSUME NEW p, NEW q, AllWrongKey(p), AllWrongKey(q) PROVE AllWrongKey(p \o q)
  <2>1. PICK S : p \in Seq(S) /\ \A g \in S : WrongKey(g)
    BY <1>3 DEF AllWrongKey
  <2>2. PICK T : q \in Seq(T) /\ \A g \in T : WrongKey(g)
    BY <1>3 DEF AllWrongKey
  <2>3. p \o q \in Seq(S \cup T)
    BY <2>1, <2>2
  <2> QED BY <2>1, <2>2, <2>3 DEF AllWrongKey
<1>4. ASSUME NEW q, AllWrongKey(q), q # <<>>
      PROVE  WrongKey(Head(q)) /\ AllWrongKey(Tail(q))
  <2>1. PICK S : q \in Seq(S) /\ \A g \in S : WrongKey(g)
    BY <1>4 DEF AllWrongKey
  <2>2. Head(q) \in S /\ Tail(q) \in Seq(S)
    BY <1>4, <2>1
  <2> QED BY <2>1, <2>2 DEF AllWrongKey
<1> QED BY <1>1, <1>2, <1>3, <1>4

(***************************************************************************)
(* The EAP server.                                                         *)
(***************************************************************************)

\* The variables of the EAP server.
EapFields ==
    {"state", "changed", "portEnabled", "eapRestart", "eapSuccess", "eapFail", "eapTimeout",
     "eapReq", "eapResp", "eapNoReq", "retransWhile", "eapReqData", "eapRespData",
     "lastReqData", "eapKeyData", "currentId", "lastId", "retransCount", "num_rounds",
     "decision", "currentMethod", "m", "methodState", "identity", "user", "index",
     "update_user", "rand_s", "rand_p", "db", "rnd"}

\* No method but Identity has succeeded, so EAP has not.
Unconvinced(e) ==
    /\ DOMAIN e = EapFields
    /\ e.eapSuccess = FALSE /\ e.decision # "SUCCESS"
    /\ e.m = "SUCCESS" => e.currentMethod = "identity"
    /\ OfServer(e.eapReqData) /\ OfServer(e.lastReqData) /\ WrongKey(e.eapRespData)

\* A new server.
LEMMA NewServer ==
    ASSUME NEW db, NEW rs
    PROVE  Unconvinced(EapServerInit(db, rs))
BY NoneIsBoth DEF EapServerInit, Unconvinced, EapFields

\* States that leave the method alone.
LEMMA SimpleStates ==
    ASSUME NEW e, Unconvinced(e)
    PROVE  /\ Unconvinced(DISABLED(e)) /\ Unconvinced(INITIALIZE(e)) /\ Unconvinced(IDLE(e))
           /\ Unconvinced(RETRANSMIT(e)) /\ Unconvinced(RECEIVED(e)) /\ Unconvinced(DISCARD(e))
           /\ Unconvinced(TIMEOUT_FAILURE(e)) /\ Unconvinced(NAK(e))
<1>1. Unconvinced(DISABLED(e)) /\ Unconvinced(INITIALIZE(e))
  BY DEF Unconvinced, EapFields, DISABLED, INITIALIZE, EnterGlobal
<1>2. Unconvinced(IDLE(e)) /\ Unconvinced(RECEIVED(e)) /\ Unconvinced(DISCARD(e))
  BY DEF Unconvinced, EapFields, IDLE, RECEIVED, DISCARD, Enter
<1>3. Unconvinced(RETRANSMIT(e))
  BY DEF Unconvinced, EapFields, RETRANSMIT, Enter
<1>4. Unconvinced(TIMEOUT_FAILURE(e)) /\ Unconvinced(NAK(e))
  BY DEF Unconvinced, EapFields, TIMEOUT_FAILURE, NAK, Enter
<1> QED BY <1>1, <1>2, <1>3, <1>4

\* A method is proposed.
LEMMA Proposed ==
    ASSUME NEW e, Unconvinced(e)
    PROVE  Unconvinced(PROPOSE_METHOD(e))
BY DEF Unconvinced, EapFields, PROPOSE_METHOD, Enter

\* EAP-Failure.
LEMMA Failed ==
    ASSUME NEW e, Unconvinced(e)
    PROVE  Unconvinced(FAILURE(e))
<1>1. OfServer(Frame("failure", e.currentId % IdMod, <<>>))
  BY OtherFrames
<1> QED BY <1>1, NoneIsBoth DEF Unconvinced, EapFields, FAILURE, Enter

\* The decision is not for success.
LEMMA Decided ==
    ASSUME NEW e, Unconvinced(e)
    PROVE  Unconvinced(SELECT_ACTION(e))
BY DEF Unconvinced, EapFields, SELECT_ACTION, getDecision, Enter

\* A request.
LEMMA Requested ==
    ASSUME NEW e, Unconvinced(e)
    PROVE  Unconvinced(METHOD_REQUEST(e))
<1> DEFINE id == nextId(e)
           n == [e EXCEPT !.currentId = id, !.lastId = id,
                          !.rand_s = IF e.m = "PSK_1" THEN (@ + 1) % RandMod ELSE @]
           req == buildReq(n, id)
<1>1. Unconvinced(n) /\ n.m = e.m /\ n.currentMethod = e.currentMethod
  <2> HIDE DEF id
  <2> QED BY DEF Unconvinced, EapFields
<1>2. OfServer(req)
  <2> HIDE DEF n, id
  <2> QED BY DEF buildReq, Frame, OfServer
<1>3. METHOD_REQUEST(e) = [Enter(n, "SEND_REQUEST") EXCEPT
            !.eapReqData = req, !.lastReqData = req, !.retransCount = 0,
            !.eapResp = FALSE, !.eapReq = TRUE]
  BY DEF METHOD_REQUEST
<1> HIDE DEF n, req
<1> QED BY <1>1, <1>2, <1>3 DEF Unconvinced, EapFields, Enter

\* A response of the method: PSK-2 and PSK-4 do not verify.
LEMMA Responded ==
    ASSUME NEW e, Unconvinced(e), MethodOf(e.eapRespData) = e.currentMethod
    PROVE  Unconvinced(METHOD_RESPONSE(e))
BY DEF Unconvinced, EapFields, METHOD_RESPONSE, process, Enter, MethodOf, WrongKey

\* One transition.
LEMMA ServerTransition ==
    ASSUME NEW s, Unconvinced(s)
    PROVE  Unconvinced(EapStep(s)) /\ Unconvinced(EapGoesOn(s))
<1> DEFINE e == [s EXCEPT !.changed = FALSE]
<1>1. Unconvinced(e)
  BY DEF Unconvinced, EapFields
<1>2. Unconvinced([e EXCEPT !.num_rounds = @ + 1])
  BY <1>1 DEF Unconvinced, EapFields
<1>3. Unconvinced(FAILURE([e EXCEPT !.num_rounds = @ + 1]))
  BY <1>2, Failed
<1> HIDE DEF e
<1>4. Unconvinced(StepIdle(e))
  BY <1>1, SimpleStates DEF StepIdle
<1>5. Unconvinced(StepReceived(e))
  BY <1>1, SimpleStates, Responded DEF StepReceived
<1>6. e.decision # "SUCCESS"
  BY <1>1 DEF Unconvinced
<1>7. Unconvinced(EapStep(s))
  BY <1>1, <1>3, <1>4, <1>5, <1>6, SimpleStates, Proposed, Failed, Decided, Requested
     DEF EapStep, e
<1> QED BY <1>7 DEF EapGoesOn

\* eap_server_sm_step() takes any number of them.
LEMMA ServerLoop ==
    ASSUME NEW e, Unconvinced(e)
    PROVE  Unconvinced(EapServerStep(e))
<1> DEFINE Run(f, k) ==
             f = [n \in 0 .. k |-> IF n = 0 THEN e ELSE EapGoesOn(f[n - 1])]
<1>1. \A k \in Nat : \E f : Run(f, k)
  <2> DEFINE S == {k \in Nat : \E f : Run(f, k)}
  <2>1. 0 \in S
    <3> DEFINE g == [n \in 0 .. 0 |-> e]
    <3>1. Run(g, 0)
      OBVIOUS
    <3> QED BY <3>1
  <2>2. ASSUME NEW k \in Nat, k \in S PROVE k + 1 \in S
    <3>1. PICK f : Run(f, k)
      BY <2>2
    <3> DEFINE g == [n \in 0 .. k + 1 |-> IF n <= k THEN f[n] ELSE EapGoesOn(f[k])]
    <3>2. ASSUME NEW n \in 0 .. k + 1
          PROVE  g[n] = IF n = 0 THEN e ELSE EapGoesOn(g[n - 1])
      <4>1. CASE n = 0
        BY <3>1, <4>1
      <4>2. CASE n # 0 /\ n <= k
        BY <3>1, <4>2
      <4>3. CASE n = k + 1
        BY <4>3
      <4> QED BY <4>1, <4>2, <4>3
    <3>3. Run(g, k + 1)
      <4>1. g = [n \in 0 .. k + 1 |-> g[n]]
        OBVIOUS
      <4> HIDE DEF g
      <4> QED BY <3>2, <4>1
    <3> HIDE DEF g, Run
    <3> QED BY <3>3
  <2> HIDE DEF S
  <2>3. \A k \in Nat : k \in S
    BY <2>1, <2>2, SetInduction
  <2> QED BY <2>3 DEF S
<1>2. MaxSteps \in Nat
  BY EapDataAssumption
<1> DEFINE f == CHOOSE f : Run(f, MaxSteps)
<1>3. Run(f, MaxSteps)
  <2> HIDE DEF Run
  <2> QED BY <1>1, <1>2
<1>4. EapServerStep(e) = f[MaxSteps]
  BY DEF EapServerStep
<1> HIDE DEF f
<1>5. \A k \in Nat : k <= MaxSteps => Unconvinced(f[k])
  <2> DEFINE S == {k \in Nat : k <= MaxSteps => Unconvinced(f[k])}
  <2>1. 0 \in S
    BY <1>2, <1>3
  <2>2. ASSUME NEW k \in Nat, k \in S PROVE k + 1 \in S
    <3>1. SUFFICES ASSUME k + 1 <= MaxSteps PROVE Unconvinced(f[k + 1])
      OBVIOUS
    <3>2. f[k + 1] = EapGoesOn(f[k])
      BY <1>2, <1>3, <3>1
    <3>3. Unconvinced(f[k])
      BY <1>2, <2>2, <3>1
    <3> QED BY <3>2, <3>3, ServerTransition
  <2> HIDE DEF S
  <2>3. \A k \in Nat : k \in S
    BY <2>1, <2>2, SetInduction
  <2> QED BY <2>3 DEF S
<1> QED BY <1>2, <1>4, <1>5

(***************************************************************************)
(* The authenticator.                                                      *)
(***************************************************************************)

\* The variables of the authenticator.
ApFields ==
    {"sm", "assoc", "authorized", "step", "auth_fail", "busy", "out", "pae", "be", "reauth",
     "eapolStart", "eapolLogoff", "eapolEap", "reAuthenticate", "authStart", "authSuccess",
     "authFail", "authTimeout", "authAbort", "keyRun", "portStatus", "reAuthCount",
     "aWhile", "quietWhile", "reAuthWhen", "eap"}

\* The port is closed, and nothing is there that would open it.
Closed(s) ==
    /\ DOMAIN s = ApFields
    /\ Unconvinced(s.eap)
    /\ s.authorized = FALSE /\ s.authSuccess = FALSE
    /\ s.pae \in {"INITIALIZE", "DISCONNECTED", "RESTART", "CONNECTING", "HELD",
                  "AUTHENTICATING", "ABORTING"}
    /\ s.be \in {"INITIALIZE", "REQUEST", "RESPONSE", "FAIL", "TIMEOUT", "IDLE", "IGNORE"}
    /\ AllOfServer(s.out)

\* Variables of the EAP interface that EAPOL sets.
LEMMA SetByEapol ==
    ASSUME NEW e, Unconvinced(e), NEW v
    PROVE  /\ Unconvinced([e EXCEPT !.portEnabled = v]) /\ Unconvinced([e EXCEPT !.eapRestart = v])
           /\ Unconvinced([e EXCEPT !.eapReq = v]) /\ Unconvinced([e EXCEPT !.eapNoReq = v])
           /\ Unconvinced([e EXCEPT !.eapResp = v]) /\ Unconvinced([e EXCEPT !.rnd = v])
           /\ Unconvinced([e EXCEPT !.retransWhile = v]) /\ Unconvinced([e EXCEPT !.identity = v])
           /\ WrongKey(v) => Unconvinced([e EXCEPT !.eapRespData = v])
BY DEF Unconvinced, EapFields

\* A new entry.
LEMMA NewEntry ==
    ASSUME NEW db, NEW rs
    PROVE  Closed(NoStation(db, rs))
<1>1. Unconvinced(EapServerInit(db, rs)) /\ AllOfServer(<<>>)
  BY NewServer, ServerSequences
<1> QED BY <1>1 DEF NoStation, Closed, ApFields

\* The states of AUTH_PAE other than AUTHENTICATED.
LEMMA PaeStates ==
    ASSUME NEW s, Closed(s)
    PROVE  /\ Closed(PaeInitialize(s)) /\ Closed(PaeDisconnected(s)) /\ Closed(PaeRestart(s))
           /\ Closed(PaeConnecting(s)) /\ Closed(PaeHeld(s))
           /\ Closed(PaeAuthenticating(s)) /\ Closed(PaeAborting(s))
<1>1. Closed(PaeInitialize(s)) /\ Closed(PaeAuthenticating(s)) /\ Closed(PaeAborting(s))
  BY DEF Closed, ApFields, PaeInitialize, PaeAuthenticating, PaeAborting
<1>2. Closed(PaeDisconnected(s)) /\ Closed(PaeHeld(s))
  BY DEF Closed, ApFields, PaeDisconnected, PaeHeld, SetPort
<1>3. Closed(PaeConnecting(s))
  BY DEF Closed, ApFields, PaeConnecting
<1>4. Closed(PaeRestart(s))
  <2>1. Unconvinced([s.eap EXCEPT !.eapRestart = TRUE])
    BY SetByEapol DEF Closed
  <2> QED BY <2>1 DEF Closed, ApFields, PaeRestart
<1> QED BY <1>1, <1>2, <1>3, <1>4

\* AUTH_PAE.
LEMMA PaeClosed ==
    ASSUME NEW s, Closed(s)
    PROVE  Closed(AuthPae(s))
<1>1. s.authSuccess = FALSE
      /\ s.pae \in {"INITIALIZE", "DISCONNECTED", "RESTART", "CONNECTING", "HELD",
                    "AUTHENTICATING", "ABORTING"}
  BY DEF Closed
<1> QED BY <1>1, PaeStates DEF AuthPae

\* The station is disconnected.
LEMMA DisconnectClosed ==
    ASSUME NEW s, Closed(s)
    PROVE  Closed(ap_sta_disconnect(s))
<1>1. AllOfServer(Append(s.out, Frame("deauth", 0, <<>>)))
  BY ServerSequences, OtherFrames DEF Closed
<1>2. Unconvinced([s.eap EXCEPT !.portEnabled = FALSE])
  BY SetByEapol DEF Closed
<1> QED BY <1>1, <1>2 DEF Closed, ApFields, ap_sta_disconnect

\* The frame of the EAP server is sent.
LEMMA TxClosed ==
    ASSUME NEW s, Closed(s)
    PROVE  Closed(txReq(s))
<1>1. AllOfServer(Append(s.out, s.eap.eapReqData))
  BY ServerSequences DEF Closed, Unconvinced
<1> QED BY <1>1 DEF Closed, ApFields, txReq

\* The states of BE_AUTH other than SUCCESS.
LEMMA BeStates ==
    ASSUME NEW s, Closed(s)
    PROVE  /\ Closed(BeInitialize(s)) /\ Closed(BeRequest(s)) /\ Closed(BeResponse(s))
           /\ Closed(BeFail(s)) /\ Closed(BeTimeout(s)) /\ Closed(BeIdle(s))
           /\ Closed(BeIgnore(s))
<1>1. Closed(BeInitialize(s))
  <2> DEFINE a == IF s.eap.eapTimeout THEN ap_sta_disconnect(s) ELSE s
  <2>1. Closed(a)
    BY DisconnectClosed
  <2>2. BeInitialize(s) = [a EXCEPT !.be = "INITIALIZE", !.eap.eapNoReq = FALSE,
                                    !.authAbort = FALSE]
    BY DEF BeInitialize
  <2> HIDE DEF a
  <2>3. Unconvinced([a.eap EXCEPT !.eapNoReq = FALSE])
    BY <2>1, SetByEapol DEF Closed
  <2> QED BY <2>1, <2>2, <2>3 DEF Closed, ApFields
<1>2. Closed(BeRequest(s)) /\ Closed(BeFail(s))
  <2> DEFINE a == txReq(s)
  <2>1. Closed(a)
    BY TxClosed
  <2>2. /\ BeRequest(s) = [a EXCEPT !.be = "REQUEST", !.eap.eapReq = FALSE, !.eapolEap = FALSE]
        /\ BeFail(s) = [a EXCEPT !.be = "FAIL", !.authFail = TRUE]
    BY DEF BeRequest, BeFail
  <2> HIDE DEF a
  <2>3. Unconvinced([a.eap EXCEPT !.eapReq = FALSE])
    BY <2>1, SetByEapol DEF Closed
  <2> QED BY <2>1, <2>2, <2>3 DEF Closed, ApFields
<1>3. Closed(BeResponse(s)) /\ Closed(BeIgnore(s))
  <2>1. Unconvinced([s.eap EXCEPT !.eapNoReq = FALSE])
    BY SetByEapol DEF Closed
  <2>2. Unconvinced([[s.eap EXCEPT !.eapNoReq = FALSE] EXCEPT !.eapResp = TRUE])
    BY <2>1, SetByEapol
  <2> QED BY <2>1, <2>2 DEF Closed, ApFields, BeResponse, BeIgnore
<1>4. Closed(BeTimeout(s)) /\ Closed(BeIdle(s))
  BY DEF Closed, ApFields, BeTimeout, BeIdle
<1> QED BY <1>1, <1>2, <1>3, <1>4

\* BE_AUTH.
LEMMA BeClosed ==
    ASSUME NEW s, Closed(s)
    PROVE  Closed(BeAuth(s))
<1>1. Closed(StepResponse(s))
  <2> DEFINE r == IF s.eap.eapNoReq THEN BeIgnore(s) ELSE s
  <2>1. Closed(r)
    BY BeStates
  <2> HIDE DEF r
  <2>2. r.eap.eapSuccess = FALSE
    BY <2>1 DEF Closed, Unconvinced
  <2> QED BY <2>1, <2>2, BeStates DEF StepResponse, r
<1>2. /\ s.eap.eapSuccess = FALSE
      /\ s.be \in {"INITIALIZE", "REQUEST", "RESPONSE", "FAIL", "TIMEOUT", "IDLE", "IGNORE"}
  BY DEF Closed, Unconvinced
<1> QED BY <1>1, <1>2, BeStates DEF BeAuth

\* One pass over the machines.
LEMMA PassClosed ==
    ASSUME NEW r, NEW period, Closed(r.sm)
    PROVE  Closed(Pass(r, period).sm)
<1> DEFINE s == r.sm
           t == ReauthTimer(BeAuth(AuthPae(s)), period)
           first == EapStep(t.eap)
           moved == t.pae # s.pae \/ t.be # s.be \/ t.reauth # s.reauth
           next == IF moved THEN t ELSE [t EXCEPT !.eap = EapServerStep(first)]
           last == [next EXCEPT !.step = TRUE, !.busy = TRUE]
<1>1. Closed(t)
  <2> DEFINE b == BeAuth(AuthPae(s))
  <2>1. Closed(b)
    BY PaeClosed, BeClosed
  <2> HIDE DEF b
  <2>2. Closed(ReauthTimer(b, period))
    BY <2>1 DEF Closed, ApFields, ReauthTimer
  <2> QED BY <2>2 DEF b
<1> HIDE DEF t
<1>2. Closed(next)
  <2>1. Unconvinced(EapServerStep(first))
    BY <1>1, ServerTransition, ServerLoop DEF Closed
  <2> HIDE DEF first
  <2>2. Closed([t EXCEPT !.eap = EapServerStep(first)])
    BY <1>1, <2>1 DEF Closed, ApFields
  <2> QED BY <1>1, <2>2
<1> HIDE DEF next
<1>3. Closed(last)
  BY <1>2 DEF Closed, ApFields
<1> HIDE DEF last, moved, first
<1>4. \/ Pass(r, period) = r
      \/ Pass(r, period) = [sm |-> next, left |-> 0]
      \/ Pass(r, period) = [sm |-> next, left |-> r.left - 1]
      \/ Pass(r, period) = [sm |-> last, left |-> 0]
  BY DEF Pass, t, next, last, moved, first
<1> QED BY <1>2, <1>3, <1>4

\* eapol_sm_step_run() makes any number of them.
LEMMA RunClosed ==
    ASSUME NEW s, NEW period, Closed(s)
    PROVE  Closed(eapol_sm_step_run(s, period))
<1> DEFINE start == [sm |-> s, left |-> MaxSteps]
<1> DEFINE Run(f, k) ==
             f = [n \in 0 .. k |-> IF n = 0 THEN start ELSE Pass(f[n - 1], period)]
<1>1. \A k \in Nat : \E f : Run(f, k)
  <2> DEFINE S == {k \in Nat : \E f : Run(f, k)}
  <2>1. 0 \in S
    <3> DEFINE g == [n \in 0 .. 0 |-> start]
    <3>1. Run(g, 0)
      OBVIOUS
    <3> QED BY <3>1
  <2>2. ASSUME NEW k \in Nat, k \in S PROVE k + 1 \in S
    <3>1. PICK f : Run(f, k)
      BY <2>2
    <3> DEFINE g == [n \in 0 .. k + 1 |-> IF n <= k THEN f[n] ELSE Pass(f[k], period)]
    <3>2. ASSUME NEW n \in 0 .. k + 1
          PROVE  g[n] = IF n = 0 THEN start ELSE Pass(g[n - 1], period)
      <4>1. CASE n = 0
        BY <3>1, <4>1
      <4>2. CASE n # 0 /\ n <= k
        BY <3>1, <4>2
      <4>3. CASE n = k + 1
        BY <4>3
      <4> QED BY <4>1, <4>2, <4>3
    <3>3. Run(g, k + 1)
      <4>1. g = [n \in 0 .. k + 1 |-> g[n]]
        OBVIOUS
      <4> HIDE DEF g
      <4> QED BY <3>2, <4>1
    <3> HIDE DEF g, Run
    <3> QED BY <3>3
  <2> HIDE DEF S
  <2>3. \A k \in Nat : k \in S
    BY <2>1, <2>2, SetInduction
  <2> QED BY <2>3 DEF S
<1>2. MaxSteps \in Nat
  BY EapDataAssumption
<1> DEFINE f == CHOOSE f : Run(f, MaxSteps)
<1>3. Run(f, MaxSteps)
  <2> HIDE DEF Run
  <2> QED BY <1>1, <1>2
<1>4. eapol_sm_step_run(s, period) = f[MaxSteps].sm
  BY DEF eapol_sm_step_run
<1> HIDE DEF f
<1>5. \A k \in Nat : k <= MaxSteps => Closed(f[k].sm)
  <2> DEFINE S == {k \in Nat : k <= MaxSteps => Closed(f[k].sm)}
  <2>1. 0 \in S
    BY <1>2, <1>3
  <2>2. ASSUME NEW k \in Nat, k \in S PROVE k + 1 \in S
    <3>1. SUFFICES ASSUME k + 1 <= MaxSteps PROVE Closed(f[k + 1].sm)
      OBVIOUS
    <3>2. f[k + 1] = Pass(f[k], period)
      BY <1>2, <1>3, <3>1
    <3>3. Closed(f[k].sm)
      BY <1>2, <2>2, <3>1
    <3> QED BY <3>2, <3>3, PassClosed
  <2> HIDE DEF S
  <2>3. \A k \in Nat : k \in S
    BY <2>1, <2>2, SetInduction
  <2> QED BY <2>3 DEF S
<1> QED BY <1>2, <1>4, <1>5

\* The events of the authenticator.
LEMMA ApEvents ==
    ASSUME NEW s, Closed(s), NEW period, NEW full
    PROVE  /\ Closed(eapol_port_timers_tick(s, period))
           /\ \A f : WrongKey(f) => Closed(ieee802_1x_receive(s, f))
           /\ Closed(free_station(s)) /\ Closed(new_station(s, period, full))
           /\ Closed(delayed_1x_auth_fail(s))
<1>1. Closed(eapol_port_timers_tick(s, period))
  <2> DEFINE a == [s EXCEPT !.aWhile = Dec(@), !.quietWhile = Dec(@),
                            !.reAuthWhen = Dec(@), !.eap.retransWhile = Dec(@)]
  <2>1. Unconvinced([s.eap EXCEPT !.retransWhile = Dec(@)])
    BY DEF Closed, Unconvinced, EapFields
  <2>2. Closed(a)
    BY <2>1 DEF Closed, ApFields
  <2> HIDE DEF a
  <2>3. Closed(eapol_sm_step_run(a, period))
    BY <2>2, RunClosed
  <2> QED BY <2>3 DEF eapol_port_timers_tick, a
<1>2. ASSUME NEW f, WrongKey(f) PROVE Closed(ieee802_1x_receive(s, f))
  <2>1. /\ Unconvinced([s.eap EXCEPT !.identity = FALSE])
        /\ Unconvinced([s.eap EXCEPT !.eapRespData = f])
    BY <1>2, SetByEapol DEF Closed
  <2> QED BY <2>1 DEF Closed, ApFields, ieee802_1x_receive
<1>3. Closed(free_station(s))
  BY NewEntry DEF free_station
<1>4. Closed(new_station(s, period, full))
  <2>1. Unconvinced([s.eap EXCEPT !.portEnabled = TRUE])
    BY SetByEapol DEF Closed
  <2> QED BY <2>1 DEF Closed, ApFields, new_station
<1>5. Closed(delayed_1x_auth_fail(s))
  <2> DEFINE a == [s EXCEPT !.auth_fail = FALSE]
  <2>1. Closed(a)
    BY DEF Closed, ApFields
  <2> HIDE DEF a
  <2>2. Closed(ap_sta_disconnect(a))
    BY <2>1, DisconnectClosed
  <2> QED BY <2>2 DEF delayed_1x_auth_fail, a
<1> QED BY <1>1, <1>2, <1>3, <1>4, <1>5

(***************************************************************************)
(* The station.                                                            *)
(***************************************************************************)

\* The variables of the station.
StaFields ==
    {"assoc", "timeout", "eapol_received", "busy", "out", "cb", "pae", "be", "portEnabled",
     "portValid", "portStatus", "userLogoff", "logoffSent", "startCount", "startWhen",
     "heldWhile", "authWhile", "idleWhile", "suppAbort", "suppStart", "suppTimeout",
     "eapolEap", "eapReq", "eapResp", "eapNoResp", "eapRestart", "eapSuccess", "eapFail",
     "eapReqData", "eapRespData", "lastReqData", "lastRespData", "lastId", "num_rounds",
     "eapKeyData", "eap", "changed", "selectedMethod", "methodState", "decision",
     "psk_state", "rand_p", "psk"}

\* A station with another key: its method has not ended in success, so EAP has not,
\* and its port was never valid.
Rejected(t) ==
    /\ DOMAIN t = StaFields
    /\ t.psk # UserPsk
    /\ t.decision = "FAIL" /\ t.eapSuccess = FALSE /\ t.portValid = FALSE
    /\ t.pae \in {"LOGOFF", "DISCONNECTED", "CONNECTING", "HELD", "AUTHENTICATING", "RESTART"}
    /\ t.be \in {"REQUEST", "RESPONSE", "FAIL", "TIMEOUT", "IDLE", "INITIALIZE", "RECEIVE"}
    /\ OfServer(t.eapReqData) /\ WrongKey(t.eapRespData) /\ WrongKey(t.lastRespData)
    /\ AllWrongKey(t.out)

\* A new station.
LEMMA NewStation ==
    ASSUME NEW psk, psk # UserPsk
    PROVE  Rejected(SuppInit(psk))
<1>1. AllWrongKey(<<>>)
  BY StationSequences
<1> QED BY <1>1, NoneIsBoth DEF SuppInit, Rejected, StaFields

\* States of the EAP peer.
LEMMA PeerStates ==
    ASSUME NEW t, Rejected(t)
    PROVE  /\ Rejected(PeerInitialize(t)) /\ Rejected(PeerDisabled(t))
           /\ Rejected(PeerReceived(t)) /\ Rejected(SendResponse(t)) /\ Rejected(PeerDiscard(t))
           /\ Rejected(PeerRetransmit(t)) /\ Rejected(PeerFailure(t))
           /\ Rejected(PeerEnter(t, "IDLE"))
<1>1. Rejected(PeerInitialize(t)) /\ Rejected(PeerDisabled(t))
  <2> DEFINE u(st) == PeerEnterGlobal(t, st)
  <2>1. \A st : Rejected(u(st))
    BY DEF Rejected, StaFields, PeerEnterGlobal
  <2>2. /\ PeerInitialize(t) = [u("INITIALIZE") EXCEPT
               !.selectedMethod = "none", !.methodState = "NONE", !.decision = "FAIL",
               !.idleWhile = ClientTimeout, !.eapSuccess = FALSE, !.eapFail = FALSE,
               !.eapKeyData = NoKey, !.eapRestart = FALSE, !.lastId = -1, !.eapResp = FALSE,
               !.eapNoResp = FALSE, !.num_rounds = 0]
        /\ PeerDisabled(t) = [u("DISABLED") EXCEPT !.num_rounds = 0, !.idleWhile = 0]
    BY Zenon DEF PeerInitialize, PeerDisabled
  <2> HIDE DEF u
  <2>3. Rejected(PeerInitialize(t))
    <3> DEFINE n == PeerInitialize(t)
               o == u("INITIALIZE")
    <3>1. DOMAIN o = StaFields
      BY <2>1 DEF Rejected
    <3>2. DOMAIN n = StaFields
      BY <2>2, <3>1
    <3>3. n.decision = "FAIL" /\ n.eapSuccess = FALSE /\ n.psk = o.psk
      BY <2>2, <3>1 DEF StaFields
    <3>4. n.portValid = o.portValid /\ n.pae = o.pae /\ n.be = o.be /\ n.out = o.out
      BY <2>2, <3>1 DEF StaFields
    <3>5. /\ n.eapReqData = o.eapReqData /\ n.eapRespData = o.eapRespData
          /\ n.lastRespData = o.lastRespData
      BY <2>2, <3>1 DEF StaFields
    <3> HIDE DEF n, o
    <3>6. Rejected(o)
      BY <2>1 DEF o
    <3>7. Rejected(n)
      BY <3>2, <3>3, <3>4, <3>5, <3>6 DEF Rejected
    <3> QED BY <3>7 DEF n
  <2>4. Rejected(PeerDisabled(t))
    BY <2>1, <2>2 DEF Rejected, StaFields
  <2> QED BY <2>3, <2>4
<1>2. Rejected(PeerReceived(t)) /\ Rejected(PeerDiscard(t))
  BY DEF Rejected, StaFields, PeerReceived, PeerDiscard, PeerEnter
<1>3. Rejected(SendResponse(t))
  BY DEF Rejected, StaFields, SendResponse, PeerEnter
<1>4. Rejected(PeerRetransmit(t)) /\ Rejected(PeerFailure(t)) /\ Rejected(PeerEnter(t, "IDLE"))
  BY DEF Rejected, StaFields, PeerRetransmit, PeerFailure, PeerEnter
<1> QED BY <1>1, <1>2, <1>3, <1>4

\* Identity, and the choice of the method.
LEMMA PeerChoice ==
    ASSUME NEW t, Rejected(t)
    PROVE  Rejected(Identity(t)) /\ Rejected(GetMethod(t))
<1>1. \A id, data : WrongKey(Frame("identity", id, data)) /\ WrongKey(Frame("nak", id, data))
  BY OtherFrames
<1>2. Rejected(Identity(t))
  BY <1>1 DEF Rejected, StaFields, Identity, PeerEnter
<1>3. Rejected(GetMethod(t))
  BY <1>1 DEF Rejected, StaFields, GetMethod, PeerEnter
<1> QED BY <1>2, <1>3

\* EAP-PSK: PSK-3 does not verify, so there is no success.
LEMMA PeerMethod ==
    ASSUME NEW t, Rejected(t)
    PROVE  Rejected(Method(t))
<1> DEFINE n == PeerEnter(t, "METHOD")
           d == t.eapReqData.data
<1>1. Rejected(n)
  BY DEF Rejected, StaFields, PeerEnter
<1>2. ~(t.eapReqData.kind = "psk3" /\ d[3] = t.psk)
  BY DEF Rejected, OfServer
<1> HIDE DEF n
<1>3. Rejected(process_1(n))
  <2> DEFINE rp == (n.rand_p + 1) % RandMod
             f == Frame("psk2", n.eapReqData.id, <<n.eapReqData.data[1], rp, n.psk>>)
  <2>1. WrongKey(f)
    <3>1. f.data[3] = n.psk
      BY DEF Frame
    <3> QED BY <1>1, <3>1 DEF WrongKey, Rejected
  <2>2. process_1(n) = [n EXCEPT !.rand_p = rp, !.psk_state = "PSK_MAC_SENT",
                  !.methodState = "MAY_CONT", !.decision = "FAIL", !.eapRespData = f]
    BY DEF process_1
  <2> HIDE DEF rp, f
  <2> QED BY <1>1, <2>1, <2>2 DEF Rejected, StaFields
<1>4. Rejected([n EXCEPT !.methodState = "DONE", !.decision = "FAIL", !.eapRespData = NoFrame])
  BY <1>1, NoneIsBoth DEF Rejected, StaFields
<1> QED BY <1>2, <1>3, <1>4 DEF Method, n

\* One transition.
LEMMA PeerTransition ==
    ASSUME NEW s, Rejected(s)
    PROVE  Rejected(PeerStep(s)) /\ Rejected(PeerGoesOn(s))
<1> DEFINE t == [s EXCEPT !.changed = FALSE]
<1>1. Rejected(t)
  BY DEF Rejected, StaFields
<1>2. Rejected([t EXCEPT !.num_rounds = @ + 1])
  BY <1>1 DEF Rejected, StaFields
<1>3. Rejected(PeerFailure([t EXCEPT !.num_rounds = @ + 1]))
  BY <1>2, PeerStates
<1> HIDE DEF t
<1>4. t.decision = "FAIL"
  BY <1>1 DEF Rejected
<1>5. Rejected(StepPeerIdle(t))
  BY <1>1, <1>4, PeerStates DEF StepPeerIdle
<1>6. Rejected(StepPeerReceived(t))
  BY <1>1, <1>4, PeerStates, PeerChoice, PeerMethod DEF StepPeerReceived
<1>7. Rejected(PeerStep(s))
  BY <1>1, <1>3, <1>5, <1>6, PeerStates, PeerMethod DEF PeerStep, t
<1> QED BY <1>7 DEF PeerGoesOn

\* eap_peer_sm_step() takes any number of them.
LEMMA PeerLoop ==
    ASSUME NEW t, Rejected(t)
    PROVE  Rejected(EapPeerStep(t))
<1> DEFINE Run(f, k) ==
             f = [n \in 0 .. k |-> IF n = 0 THEN t ELSE PeerGoesOn(f[n - 1])]
<1>1. \A k \in Nat : \E f : Run(f, k)
  <2> DEFINE S == {k \in Nat : \E f : Run(f, k)}
  <2>1. 0 \in S
    <3> DEFINE g == [n \in 0 .. 0 |-> t]
    <3>1. Run(g, 0)
      OBVIOUS
    <3> QED BY <3>1
  <2>2. ASSUME NEW k \in Nat, k \in S PROVE k + 1 \in S
    <3>1. PICK f : Run(f, k)
      BY <2>2
    <3> DEFINE g == [n \in 0 .. k + 1 |-> IF n <= k THEN f[n] ELSE PeerGoesOn(f[k])]
    <3>2. ASSUME NEW n \in 0 .. k + 1
          PROVE  g[n] = IF n = 0 THEN t ELSE PeerGoesOn(g[n - 1])
      <4>1. CASE n = 0
        BY <3>1, <4>1
      <4>2. CASE n # 0 /\ n <= k
        BY <3>1, <4>2
      <4>3. CASE n = k + 1
        BY <4>3
      <4> QED BY <4>1, <4>2, <4>3
    <3>3. Run(g, k + 1)
      <4>1. g = [n \in 0 .. k + 1 |-> g[n]]
        OBVIOUS
      <4> HIDE DEF g
      <4> QED BY <3>2, <4>1
    <3> HIDE DEF g, Run
    <3> QED BY <3>3
  <2> HIDE DEF S
  <2>3. \A k \in Nat : k \in S
    BY <2>1, <2>2, SetInduction
  <2> QED BY <2>3 DEF S
<1>2. MaxSteps \in Nat
  BY EapDataAssumption
<1> DEFINE f == CHOOSE f : Run(f, MaxSteps)
<1>3. Run(f, MaxSteps)
  <2> HIDE DEF Run
  <2> QED BY <1>1, <1>2
<1>4. EapPeerStep(t) = f[MaxSteps]
  BY DEF EapPeerStep
<1> HIDE DEF f
<1>5. \A k \in Nat : k <= MaxSteps => Rejected(f[k])
  <2> DEFINE S == {k \in Nat : k <= MaxSteps => Rejected(f[k])}
  <2>1. 0 \in S
    BY <1>2, <1>3
  <2>2. ASSUME NEW k \in Nat, k \in S PROVE k + 1 \in S
    <3>1. SUFFICES ASSUME k + 1 <= MaxSteps PROVE Rejected(f[k + 1])
      OBVIOUS
    <3>2. f[k + 1] = PeerGoesOn(f[k])
      BY <1>2, <1>3, <3>1
    <3>3. Rejected(f[k])
      BY <1>2, <2>2, <3>1
    <3> QED BY <3>2, <3>3, PeerTransition
  <2> HIDE DEF S
  <2>3. \A k \in Nat : k \in S
    BY <2>1, <2>2, SetInduction
  <2> QED BY <2>3 DEF S
<1> QED BY <1>2, <1>4, <1>5

\* What is sent outside EAP.
LEMMA SendRejected ==
    ASSUME NEW t, Rejected(t), NEW kind \in {"start", "logoff", "deauth"}
    PROVE  Rejected(Send(t, kind))
<1>1. AllWrongKey(Append(t.out, Frame(kind, 0, <<>>)))
  BY StationSequences, OtherFrames DEF Rejected
<1> QED BY <1>1 DEF Rejected, StaFields, Send

\* The states of SUPP_PAE other than AUTHENTICATED.
LEMMA SuppStates ==
    ASSUME NEW t, Rejected(t)
    PROVE  /\ Rejected(SuppLogoff(t)) /\ Rejected(SuppDisconnected(t))
           /\ Rejected(SuppConnecting(t)) /\ Rejected(SuppAuthenticating(t))
           /\ Rejected(SuppHeld(t)) /\ Rejected(SuppRestart(t))
<1>1. Rejected(SuppLogoff(t))
  <2> DEFINE a == SuppEnterGlobal(t, "LOGOFF")
             b == Send(a, "logoff")
  <2>1. Rejected(a)
    BY DEF Rejected, StaFields, SuppEnterGlobal
  <2> HIDE DEF a
  <2>2. Rejected(b)
    BY <2>1, SendRejected
  <2>3. SuppLogoff(t) = [b EXCEPT !.logoffSent = TRUE, !.portStatus = "Unauthorized"]
    BY DEF SuppLogoff, a
  <2> HIDE DEF b
  <2> QED BY <2>2, <2>3 DEF Rejected, StaFields
<1>2. Rejected(SuppConnecting(t))
  <2> DEFINE n == [SuppEnter(t, "CONNECTING") EXCEPT !.eapolEap = FALSE]
             a == [n EXCEPT !.startWhen = StartPeriod, !.startCount = @ + 1]
  <2>1. Rejected(n)
    BY DEF Rejected, StaFields, SuppEnter
  <2> HIDE DEF n
  <2>2. Rejected(a) /\ Rejected([n EXCEPT !.startWhen = StartDelay])
    BY <2>1 DEF Rejected, StaFields
  <2> HIDE DEF a
  <2>3. Rejected(Send(a, "start"))
    BY <2>2, SendRejected
  <2> QED BY <2>2, <2>3 DEF SuppConnecting, n, a
<1>3. Rejected(SuppDisconnected(t))
  BY DEF Rejected, StaFields, SuppDisconnected, SuppEnterGlobal
<1>4. Rejected(SuppAuthenticating(t)) /\ Rejected(SuppHeld(t)) /\ Rejected(SuppRestart(t))
  BY DEF Rejected, StaFields, SuppAuthenticating, SuppHeld, SuppRestart, SuppEnter
<1> QED BY <1>1, <1>2, <1>3, <1>4

\* SUPP_PAE.
LEMMA PaeRejected ==
    ASSUME NEW t, Rejected(t)
    PROVE  Rejected(SuppPae(t))
<1>1. /\ t.portValid = FALSE /\ t.eapSuccess = FALSE
      /\ t.pae \in {"LOGOFF", "DISCONNECTED", "CONNECTING", "HELD", "AUTHENTICATING", "RESTART"}
  BY DEF Rejected
<1>2. Rejected(StepConnecting(t))
  BY <1>1, SuppStates DEF StepConnecting
<1>3. Rejected(StepAuthenticating(t))
  BY <1>1, SuppStates DEF StepAuthenticating, PortValid
<1> QED BY <1>1, <1>2, <1>3, SuppStates DEF SuppPae

\* The states of SUPP_BE other than SUCCESS.
LEMMA SuppBeStates ==
    ASSUME NEW t, Rejected(t)
    PROVE  /\ Rejected(SuppBeRequest(t)) /\ Rejected(SuppBeResponse(t))
           /\ Rejected(SuppBeTimeout(t)) /\ Rejected(SuppBeIdle(t))
           /\ Rejected(SuppBeInitialize(t)) /\ Rejected(SuppBeReceive(t))
           /\ Rejected(BeEnter(t, "FAIL"))
<1>1. Rejected(SuppBeRequest(t)) /\ Rejected(SuppBeTimeout(t)) /\ Rejected(SuppBeIdle(t))
  BY DEF Rejected, StaFields, SuppBeRequest, SuppBeTimeout, SuppBeIdle, BeEnter
<1>2. Rejected(SuppBeReceive(t)) /\ Rejected(BeEnter(t, "FAIL"))
  BY DEF Rejected, StaFields, SuppBeReceive, BeEnter
<1>3. Rejected(SuppBeInitialize(t))
  <2> DEFINE n == SuppBeInitialize(t)
  <2>1. DOMAIN t = StaFields
    BY DEF Rejected
  <2>2. DOMAIN n = StaFields
    BY <2>1 DEF SuppBeInitialize
  <2>3. n.decision = t.decision /\ n.eapSuccess = FALSE /\ n.psk = t.psk /\ n.pae = t.pae
    BY <2>1 DEF StaFields, SuppBeInitialize
  <2>4. n.portValid = t.portValid /\ n.be = "INITIALIZE" /\ n.out = t.out
    BY <2>1 DEF StaFields, SuppBeInitialize
  <2>5. n.eapReqData = NoFrame /\ n.eapRespData = NoFrame /\ n.lastRespData = NoFrame
    BY <2>1 DEF StaFields, SuppBeInitialize
  <2> HIDE DEF n
  <2>6. Rejected(n)
    BY <2>2, <2>3, <2>4, <2>5, NoneIsBoth DEF Rejected
  <2> QED BY <2>6 DEF n
<1>4. Rejected(SuppBeResponse(t))
  <2> DEFINE q == IF t.eapRespData = NoFrame THEN t.out ELSE Append(t.out, t.eapRespData)
  <2>1. AllWrongKey(q)
    BY StationSequences DEF Rejected
  <2>2. SuppBeResponse(t) = [BeEnter(t, "RESPONSE") EXCEPT
            !.eapResp = FALSE, !.eapRespData = NoFrame, !.out = q]
    BY DEF SuppBeResponse, BeEnter, Rejected, StaFields
  <2> HIDE DEF q
  <2> QED BY <2>1, <2>2, NoneIsBoth DEF Rejected, StaFields, BeEnter
<1> QED BY <1>1, <1>2, <1>3, <1>4

\* SUPP_BE.
LEMMA BeRejected ==
    ASSUME NEW t, Rejected(t)
    PROVE  Rejected(SuppBe(t))
<1>1. /\ t.eapSuccess = FALSE
      /\ t.be \in {"REQUEST", "RESPONSE", "FAIL", "TIMEOUT", "IDLE", "INITIALIZE", "RECEIVE"}
  BY DEF Rejected
<1> QED BY <1>1, SuppBeStates DEF SuppBe

\* One pass over the machines.
LEMMA SuppPassRejected ==
    ASSUME NEW r, Rejected(r.sm)
    PROVE  Rejected(SuppPass(r).sm)
<1> DEFINE s == [r.sm EXCEPT !.changed = FALSE]
           t == SuppBe(SuppPae(s))
           first == PeerStep(t)
           next == EapPeerStep(first)
           last == [next EXCEPT !.busy = TRUE]
<1>1. Rejected(s)
  BY DEF Rejected, StaFields
<1> HIDE DEF s
<1>2. Rejected(next)
  BY <1>1, PaeRejected, BeRejected, PeerTransition, PeerLoop
<1> HIDE DEF next
<1>3. Rejected(last)
  BY <1>2 DEF Rejected, StaFields
<1> HIDE DEF last, first, t
<1>4. \/ SuppPass(r) = r
      \/ SuppPass(r) = [sm |-> next, left |-> 0]
      \/ SuppPass(r) = [sm |-> next, left |-> r.left - 1]
      \/ SuppPass(r) = [sm |-> last, left |-> 0]
  BY DEF SuppPass, s, t, first, next, last
<1> QED BY <1>2, <1>3, <1>4

\* eapol_sm_step() makes any number of them.
LEMMA SuppRunRejected ==
    ASSUME NEW t, Rejected(t)
    PROVE  Rejected(SuppRun(t))
<1> DEFINE start == [sm |-> t, left |-> MaxSteps]
<1> DEFINE Run(f, k) ==
             f = [n \in 0 .. k |-> IF n = 0 THEN start ELSE SuppPass(f[n - 1])]
<1>1. \A k \in Nat : \E f : Run(f, k)
  <2> DEFINE S == {k \in Nat : \E f : Run(f, k)}
  <2>1. 0 \in S
    <3> DEFINE g == [n \in 0 .. 0 |-> start]
    <3>1. Run(g, 0)
      OBVIOUS
    <3> QED BY <3>1
  <2>2. ASSUME NEW k \in Nat, k \in S PROVE k + 1 \in S
    <3>1. PICK f : Run(f, k)
      BY <2>2
    <3> DEFINE g == [n \in 0 .. k + 1 |-> IF n <= k THEN f[n] ELSE SuppPass(f[k])]
    <3>2. ASSUME NEW n \in 0 .. k + 1
          PROVE  g[n] = IF n = 0 THEN start ELSE SuppPass(g[n - 1])
      <4>1. CASE n = 0
        BY <3>1, <4>1
      <4>2. CASE n # 0 /\ n <= k
        BY <3>1, <4>2
      <4>3. CASE n = k + 1
        BY <4>3
      <4> QED BY <4>1, <4>2, <4>3
    <3>3. Run(g, k + 1)
      <4>1. g = [n \in 0 .. k + 1 |-> g[n]]
        OBVIOUS
      <4> HIDE DEF g
      <4> QED BY <3>2, <4>1
    <3> HIDE DEF g, Run
    <3> QED BY <3>3
  <2> HIDE DEF S
  <2>3. \A k \in Nat : k \in S
    BY <2>1, <2>2, SetInduction
  <2> QED BY <2>3 DEF S
<1>2. MaxSteps \in Nat
  BY EapDataAssumption
<1> DEFINE f == CHOOSE f : Run(f, MaxSteps)
<1>3. Run(f, MaxSteps)
  <2> HIDE DEF Run
  <2> QED BY <1>1, <1>2
<1>4. SuppRun(t) = f[MaxSteps].sm
  BY DEF SuppRun
<1> HIDE DEF f
<1>5. \A k \in Nat : k <= MaxSteps => Rejected(f[k].sm)
  <2> DEFINE S == {k \in Nat : k <= MaxSteps => Rejected(f[k].sm)}
  <2>1. 0 \in S
    BY <1>2, <1>3
  <2>2. ASSUME NEW k \in Nat, k \in S PROVE k + 1 \in S
    <3>1. SUFFICES ASSUME k + 1 <= MaxSteps PROVE Rejected(f[k + 1].sm)
      OBVIOUS
    <3>2. f[k + 1] = SuppPass(f[k])
      BY <1>2, <1>3, <3>1
    <3>3. Rejected(f[k].sm)
      BY <1>2, <2>2, <3>1
    <3> QED BY <3>2, <3>3, SuppPassRejected
  <2> HIDE DEF S
  <2>3. \A k \in Nat : k \in S
    BY <2>1, <2>2, SetInduction
  <2> QED BY <2>3 DEF S
<1> QED BY <1>2, <1>4, <1>5

\* eapol_sm_step() and the report of its result.
LEMMA StepRejected ==
    ASSUME NEW t, Rejected(t)
    PROVE  Rejected(eapol_sm_step(t))
<1> DEFINE u == SuppRun(t)
<1>1. Rejected(u)
  BY SuppRunRejected
<1> HIDE DEF u
<1>2. Rejected([u EXCEPT !.cb = "IN_PROGRESS",
                         !.timeout = IF u.cb = "FAILURE" THEN FailTimeout ELSE @])
  BY <1>1 DEF Rejected, StaFields
<1> QED BY <1>2 DEF eapol_sm_step, u

\* The notifications of the port.
LEMMA PortRejected ==
    ASSUME NEW t, Rejected(t), NEW on
    PROVE  Rejected(notify_portEnabled(t, on)) /\ Rejected(notify_portValid(t, FALSE))
<1> DEFINE a == [t EXCEPT !.portEnabled = on]
           b == [t EXCEPT !.portValid = FALSE]
<1>1. Rejected(a) /\ Rejected(b)
  BY DEF Rejected, StaFields
<1> HIDE DEF a, b
<1>2. Rejected(eapol_sm_step(a)) /\ Rejected(eapol_sm_step(b))
  BY <1>1, StepRejected
<1> QED BY <1>2 DEF notify_portEnabled, notify_portValid, a, b

\* The events of the station.
LEMMA StaEvents ==
    ASSUME NEW t, Rejected(t)
    PROVE  /\ Rejected(supp_port_timers_tick(t))
           /\ \A f : OfServer(f) => Rejected(eapol_sm_rx_eapol(t, f))
           /\ Rejected(mark_disassoc(t)) /\ Rejected(event_assoc(t))
           /\ \A logoff : Rejected(notify_logoff(t, logoff))
           /\ Rejected(request_reauth(t))
<1>1. Rejected(supp_port_timers_tick(t))
  <2> DEFINE a == [t EXCEPT !.authWhile = Dec(@), !.heldWhile = Dec(@),
                            !.startWhen = Dec(@), !.idleWhile = Dec(@), !.timeout = Dec(@)]
  <2>1. Rejected(a)
    BY DEF Rejected, StaFields
  <2> HIDE DEF a
  <2>2. Rejected(eapol_sm_step(a))
    BY <2>1, StepRejected
  <2> QED BY <2>2 DEF supp_port_timers_tick, a
<1>2. ASSUME NEW f, OfServer(f) PROVE Rejected(eapol_sm_rx_eapol(t, f))
  <2> DEFINE a == [t EXCEPT !.eapReqData = f, !.eapolEap = TRUE, !.eapol_received = TRUE,
                            !.timeout = IF t.eapol_received THEN @ ELSE EapolTimeout]
  <2>1. Rejected(a)
    BY <1>2 DEF Rejected, StaFields
  <2> HIDE DEF a
  <2>2. Rejected(eapol_sm_step(a))
    BY <2>1, StepRejected
  <2> QED BY <2>2 DEF eapol_sm_rx_eapol, a
<1>3. Rejected(mark_disassoc(t))
  <2> DEFINE a == notify_portValid(notify_portEnabled(t, FALSE), FALSE)
  <2>1. Rejected(a)
    BY PortRejected
  <2> HIDE DEF a
  <2>2. Rejected([a EXCEPT !.assoc = FALSE, !.timeout = -1])
    BY <2>1 DEF Rejected, StaFields
  <2> QED BY <2>2 DEF mark_disassoc, a
<1>4. Rejected(event_assoc(t))
  <2> DEFINE a == notify_portEnabled(notify_portValid(notify_portEnabled(t, FALSE), FALSE), TRUE)
  <2>1. Rejected(a)
    BY PortRejected
  <2> HIDE DEF a
  <2>2. Rejected([a EXCEPT !.assoc = TRUE, !.eapol_received = FALSE, !.timeout = FirstTimeout])
    BY <2>1 DEF Rejected, StaFields
  <2> QED BY <2>2 DEF event_assoc, a
<1>5. ASSUME NEW logoff PROVE Rejected(notify_logoff(t, logoff))
  <2> DEFINE a == [t EXCEPT !.userLogoff = logoff, !.startWhen = IF logoff THEN @ ELSE 0]
  <2>1. Rejected(a)
    BY DEF Rejected, StaFields
  <2> HIDE DEF a
  <2>2. Rejected(eapol_sm_step(a))
    BY <2>1, StepRejected
  <2> QED BY <2>2 DEF notify_logoff, a
<1>6. Rejected(request_reauth(t))
  BY DEF request_reauth, Rejected
<1> QED BY <1>1, <1>2, <1>3, <1>4, <1>5, <1>6

(***************************************************************************)
(* The two ends.                                                           *)
(***************************************************************************)

\* The inductive invariant: if the station has another key than the database, both
\* ends refuse each other, and so do the frames under way.
Refusal ==
    ~cfg.good =>
        /\ Closed(ap) /\ Rejected(sta)
        /\ AllOfServer(down) /\ AllWrongKey(up)

\* What the authenticator sends.
LEMMA ApSendsKeeps ==
    ASSUME NEW s, Closed(s), AllOfServer(down), ApSends(s)
    PROVE  Closed(ap') /\ AllOfServer(down')
<1>1. Unconvinced([s.eap EXCEPT !.rnd = 0]) /\ AllOfServer(<<>>)
  BY SetByEapol, ServerSequences DEF Closed
<1>2. Closed([s EXCEPT !.out = <<>>, !.eap.rnd = 0])
  BY <1>1 DEF Closed, ApFields
<1>3. AllOfServer(down \o s.out)
  BY ServerSequences DEF Closed
<1> QED BY <1>2, <1>3 DEF ApSends

\* What the station sends.
LEMMA StaSendsKeeps ==
    ASSUME NEW t, Rejected(t), AllWrongKey(up), StaSends(t)
    PROVE  Rejected(sta') /\ AllWrongKey(up')
<1>1. AllWrongKey(<<>>) /\ AllWrongKey(up \o t.out)
  BY StationSequences DEF Rejected
<1>2. Rejected([t EXCEPT !.out = <<>>])
  BY <1>1 DEF Rejected, StaFields
<1> QED BY <1>1, <1>2 DEF StaSends

\* A random Identifier is drawn.
LEMMA RandomClosed ==
    ASSUME NEW s, Closed(s), NEW id
    PROVE  Closed(Random(s, id)) /\ Closed([Random(s, id) EXCEPT !.step = FALSE])
<1>1. Unconvinced([s.eap EXCEPT !.rnd = id])
  BY SetByEapol DEF Closed
<1>2. Closed(Random(s, id))
  BY <1>1 DEF Closed, ApFields, Random
<1> DEFINE a == Random(s, id)
<1> HIDE DEF a
<1>3. Closed([a EXCEPT !.step = FALSE])
  BY <1>2 DEF Closed, ApFields, a
<1> QED BY <1>2, <1>3 DEF a

\* Every step keeps the invariant.
LEMMA NextRefusal == Refusal /\ [Next]_vars => Refusal'
<1> SUFFICES ASSUME Refusal, [Next]_vars, ~cfg'.good
             PROVE  Closed(ap)' /\ Rejected(sta)' /\ AllOfServer(down)' /\ AllWrongKey(up)'
  BY DEF Refusal
<1>1. cfg' = cfg
  BY Zenon DEF Next, vars, ApReceive, ApStep, ApTick, ApDelayedDisconnect, ApRemove, StaReceive,
     StaTick, StaTimeout, Associate, Logoff, Logon, RequestReauth, Command, LoseDown, LoseUp,
     GoMute, Second
<1>2. Closed(ap) /\ Rejected(sta) /\ AllOfServer(down) /\ AllWrongKey(up)
  BY <1>1 DEF Refusal
<1> SUFFICES Closed(ap') /\ Rejected(sta') /\ AllOfServer(down') /\ AllWrongKey(up')
  BY DEF Closed, Rejected, AllOfServer, AllWrongKey
<1>3. CASE ApReceive
  <2>1. WrongKey(Head(up)) /\ AllWrongKey(Tail(up))
    BY <1>2, <1>3, StationSequences DEF ApReceive
  <2> QED BY <1>2, <1>3, <2>1, ApEvents DEF ApReceive
<1>4. CASE ApStep
  <2>1. PICK id \in Ids :
           ApSends(eapol_sm_step_run([Random(ap, id) EXCEPT !.step = FALSE], cfg.reauth))
    BY <1>4 DEF ApStep
  <2>2. Closed(eapol_sm_step_run([Random(ap, id) EXCEPT !.step = FALSE], cfg.reauth))
    BY <1>2, RandomClosed, RunClosed
  <2> QED BY <1>2, <1>4, <2>1, <2>2, ApSendsKeeps DEF ApStep
<1>5. CASE ApTick
  <2>1. PICK id \in Ids : ApSends(eapol_port_timers_tick(Random(ap, id), cfg.reauth))
    BY <1>5 DEF ApTick
  <2>2. Closed(eapol_port_timers_tick(Random(ap, id), cfg.reauth))
    BY <1>2, RandomClosed, ApEvents
  <2> QED BY <1>2, <1>5, <2>1, <2>2, ApSendsKeeps DEF ApTick
<1>6. CASE ApDelayedDisconnect
  BY <1>2, <1>6, ApEvents, ApSendsKeeps DEF ApDelayedDisconnect
<1>7. CASE ApRemove
  BY <1>2, <1>7, ApEvents DEF ApRemove
<1>8. CASE StaReceive
  <2>1. OfServer(Head(down)) /\ AllOfServer(Tail(down))
    BY <1>2, <1>8, ServerSequences DEF StaReceive
  <2> QED BY <1>2, <1>8, <2>1, StaEvents, StaSendsKeeps DEF StaReceive
<1>9. CASE StaTick
  BY <1>2, <1>9, StaEvents, StaSendsKeeps DEF StaTick
<1>10. CASE StaTimeout
  <2>1. Rejected(mark_disassoc(Send(sta, "deauth")))
    BY <1>2, SendRejected, StaEvents
  <2> QED BY <1>2, <1>10, <2>1, StaSendsKeeps DEF StaTimeout
<1>11. CASE Associate
  BY <1>2, <1>11, ApEvents, StaEvents, StaSendsKeeps DEF Associate
<1>12. CASE Logoff \/ Logon \/ RequestReauth
  BY <1>2, <1>12, StaEvents, StaSendsKeeps DEF Logoff, Logon, RequestReauth, Command
<1>13. CASE LoseDown \/ LoseUp
  BY <1>2, <1>13, ServerSequences, StationSequences DEF LoseDown, LoseUp
<1>14. CASE GoMute
  BY <1>2, <1>14, StationSequences DEF GoMute
<1>15. CASE Second
  <2>1. Closed(ap') /\ AllOfServer(down')
    <3>1. CASE ap.sm
      <4>1. PICK id \in Ids : ApSends(eapol_port_timers_tick(Random(ap, id), cfg.reauth))
        BY <1>15, <3>1 DEF Second
      <4>2. Closed(eapol_port_timers_tick(Random(ap, id), cfg.reauth))
        BY <1>2, RandomClosed, ApEvents
      <4> QED BY <1>2, <4>1, <4>2, ApSendsKeeps
    <3>2. CASE ~ap.sm
      BY <1>2, <1>15, <3>2 DEF Second
    <3> QED BY <3>1, <3>2
  <2>2. Rejected(sta') /\ AllWrongKey(up')
    BY <1>2, <1>15, StaEvents, StaSendsKeeps DEF Second
  <2> QED BY <2>1, <2>2
<1>16. CASE UNCHANGED vars
  BY <1>2, <1>16 DEF vars
<1> QED BY <1>3, <1>4, <1>5, <1>6, <1>7, <1>8, <1>9, <1>10, <1>11, <1>12, <1>13, <1>14,
           <1>15, <1>16, Zenon DEF Next

\* EAP-PSK over 802.1X authenticates: whatever is lost, late or repeated, however
\* sessions overlap and the timers of the two ends run out, and whatever methods
\* the user database names, the AP opens the port only for a station with the key
\* of the database, and a station with another key never takes itself for
\* authenticated.
THEOREM PortOpensForKey == Spec => []OnlyGood
<1>1. Init => Refusal
  <2> SUFFICES ASSUME Init, ~cfg.good
               PROVE  Closed(ap) /\ Rejected(sta) /\ AllOfServer(down) /\ AllWrongKey(up)
    BY DEF Refusal
  <2>1. ap = NoStation(cfg.methods, 0) /\ sta = SuppInit(UserPsk + 1)
        /\ down = <<>> /\ up = <<>>
    BY DEF Init
  <2>2. UserPsk + 1 # UserPsk
    BY DEF UserPsk
  <2> QED BY <2>1, <2>2, NewEntry, NewStation, ServerSequences, StationSequences
<1>2. Refusal => OnlyGood
  BY DEF Refusal, OnlyGood, Closed, Rejected
<1> QED BY <1>1, <1>2, NextRefusal, PTL DEF Spec

=============================================================================
