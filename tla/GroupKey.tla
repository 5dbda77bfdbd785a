------------------------------ MODULE GroupKey ------------------------------
(***************************************************************************)
(* The group key (GTK) side of the RSN authenticator, src/ap/wpa_auth.c:   *)
(* one group state machine (struct wpa_group) and, per station, the        *)
(* WPA_PTK_GROUP machine together with as much of the WPA_PTK machine as   *)
(* decides when a station takes part in a GTK rekey.                       *)
(*                                                                         *)
(* hostapd is one thread driven by eloop, and wpa_sm_step() runs the       *)
(* machines until nothing changes, so one action here is one callback      *)
(* together with the whole step loop it starts.  At rest WPA_PTK is in     *)
(* INITIALIZE, PTKSTART (PTKCALCNEGOTIATING, where a 2/4 with a wrong MIC  *)
(* leaves it, behaves alike), PTKINITNEGOTIATING or PTKINITDONE, and       *)
(* WPA_PTK_GROUP is in IDLE or REKEYNEGOTIATING.                           *)
(*                                                                         *)
(* A GTK is the number of its generation.  Of the EAPOL-Key frames only    *)
(* the generation they carry is kept: the fields msg3 and msg1of2 below.   *)
(***************************************************************************)
EXTENDS Integers, FiniteSets

CONSTANTS
    STA,                  \* stations
    PairwiseUpdateCount,  \* conf.wpa_pairwise_update_count
    GroupUpdateCount,     \* conf.wpa_group_update_count
    MaxGTK,               \* bound: GTK generations created
    MaxTimers,            \* bound: EAPOL-Key timeouts registered at once
    FeatureSets           \* which of the optional events below may happen: one
                          \*   of these sets, in each behaviour

AllFeatures == {"leave",     \* stations are authenticated again, removed,
                             \*   deauthenticated
                "wnmsleep",  \* stations enter and leave WNM-Sleep Mode
                "ptkrekey",  \* PTK rekeying while a group handshake runs
                "rejoin",    \* association again on the old state machine
                             \*   while a group handshake is unfinished
                "gtkrequest",\* a station asks for a new GTK while one of its
                             \*   own handshakes is unfinished
                "overlap",   \* GTK rekey before the previous one finished,
                             \*   or between 3/4 and 4/4 of some station
                "keyfail",   \* the driver refuses a pairwise key or the GTK of a
                             \*   rekey, which disconnects
                "tkipfail"}  \* the driver refuses a GTK of wpa_gtk_rekey(), which
                             \*   nobody notices

ASSUME PairwiseCountAssumption == PairwiseUpdateCount \in Nat \ {0}
ASSUME GroupCountAssumption == GroupUpdateCount \in Nat \ {0}
ASSUME BoundsAssumption == MaxGTK \in Nat \ {0} /\ MaxTimers \in Nat \ {0}
ASSUME FeaturesAssumption == FeatureSets \subseteq SUBSET AllFeatures
ASSUME STAAssumption == IsFiniteSet(STA)

VARIABLES
    wpa_group_state,   \* group->wpa_group_state
    GKeyDoneStations,  \* group->GKeyDoneStations, a C int
    GTK,               \* generation of group->GTK[GN - 1]
    txGTK,             \* generation the driver transmits with; 0 if it is a
                       \*   key that no station is ever given
    sm,                \* struct wpa_state_machine of each station
    features           \* the events of this behaviour; never changes

vars == <<wpa_group_state, GKeyDoneStations, GTK, txGTK, sm, features>>

GroupStates == {"SETKEYS", "SETKEYSDONE", "FATAL_FAILURE"}
PtkStates == {"INITIALIZE", "PTKSTART", "PTKINITNEGOTIATING", "PTKINITDONE"}
PtkGroupStates == {"IDLE", "REKEYNEGOTIATING"}

SmType ==
    [started            : BOOLEAN,        \* the state machine exists
     wpa_ptk_state      : PtkStates,
     wpa_ptk_group_state: PtkGroupStates,
     PTK_valid          : BOOLEAN,
     Disconnect         : BOOLEAN,
     GUpdateStationKeys : BOOLEAN,
     TimeoutCtr         : 0 .. PairwiseUpdateCount,
     GTimeoutCtr        : 0 .. GroupUpdateCount,
     timers             : 0 .. MaxTimers, \* wpa_send_eapol_timeout registered
     rekey_timer        : BOOLEAN,        \* wpa_rekey_ptk registered
     is_wnmsleep        : BOOLEAN,
     msg3               : SUBSET (1 .. MaxGTK), \* GTKs in unanswered 3/4
     msg1of2            : SUBSET (1 .. MaxGTK), \* GTKs in unanswered 1/2
     has_GTK            : 0 .. MaxGTK]    \* GTK the station acknowledged

\* os_zalloc() in wpa_auth_sta_init().
NewSm == [started |-> FALSE, wpa_ptk_state |-> "INITIALIZE",
          wpa_ptk_group_state |-> "IDLE", PTK_valid |-> FALSE,
          Disconnect |-> FALSE, GUpdateStationKeys |-> FALSE,
          TimeoutCtr |-> 0, GTimeoutCtr |-> 0, timers |-> 0,
          rekey_timer |-> FALSE, is_wnmsleep |-> FALSE,
          msg3 |-> {}, msg1of2 |-> {}, has_GTK |-> 0]

\* After wpa_init(): GTK_INIT has been left for SETKEYSDONE and the first
\* GTK is in the driver.
Init ==
    /\ wpa_group_state = "SETKEYSDONE"
    /\ GKeyDoneStations = 0
    /\ GTK = 1 /\ txGTK = 1
    /\ sm = [s \in STA |-> NewSm]
    /\ features \in FeatureSets

(***************************************************************************)
(* State entry functions of one station's machines.                        *)
(***************************************************************************)

\* Definitions named Fault... are deliberate errors that the properties below
\* must catch when they replace the definition that follows them.
FaultPending(r) == 0

\* What "if (sm->GUpdateStationKeys) sm->group->GKeyDoneStations--" takes off.
Pending(r) == IF r.GUpdateStationKeys THEN 1 ELSE 0

\* WPA_PTK INITIALIZE, reached from DISCONNECT or DISCONNECTED.  Neither the
\* group machine nor the registered EAPOL-Key timeouts are touched.
Initialize(r) ==
    [r EXCEPT !.wpa_ptk_state = "INITIALIZE", !.PTK_valid = FALSE,
              !.GUpdateStationKeys = FALSE, !.TimeoutCtr = 0,
              !.Disconnect = FALSE, !.rekey_timer = FALSE, !.msg3 = {}]

\* A new 4-way handshake, from AUTHENTICATION2 or wpa_auth_sm_ptk_update():
\* PTKSTART sends 1/4 and registers a timeout.
PtkStart(r) ==
    [r EXCEPT !.wpa_ptk_state = "PTKSTART", !.PTK_valid = FALSE,
              !.TimeoutCtr = 1, !.timers = @ + 1, !.Disconnect = FALSE,
              !.msg3 = {}]

\* PTKINITNEGOTIATING sends 3/4 carrying GTK[GN]; the frame needs a MIC and
\* is not sent without a valid PTK.
PtkInitNegotiating(r) ==
    [r EXCEPT !.wpa_ptk_state = "PTKINITNEGOTIATING",
              !.TimeoutCtr = @ + 1, !.timers = @ + 1,
              !.msg3 = IF r.PTK_valid THEN @ \cup {GTK} ELSE @]

\* GM and GN not swapped: 1/2 carries the key that is in use already.
FaultRekeyOldKey(r, g) ==
    [r EXCEPT !.wpa_ptk_group_state = "REKEYNEGOTIATING",
              !.GTimeoutCtr = @ + 1, !.timers = @ + 1,
              !.msg1of2 = IF r.PTK_valid THEN @ \cup {txGTK} ELSE @]

\* 1/2 sent without registering a timeout.
FaultRekeyNoTimeout(r, g) ==
    [r EXCEPT !.wpa_ptk_group_state = "REKEYNEGOTIATING",
              !.GTimeoutCtr = @ + 1,
              !.msg1of2 = IF r.PTK_valid THEN @ \cup {g} ELSE @]

\* WPA_PTK_GROUP REKEYNEGOTIATING sends 1/2 carrying the GTK g.
RekeyNegotiating(r, g) ==
    [r EXCEPT !.wpa_ptk_group_state = "REKEYNEGOTIATING",
              !.GTimeoutCtr = @ + 1, !.timers = @ + 1,
              !.msg1of2 = IF r.PTK_valid THEN @ \cup {g} ELSE @]

\* The try counter is not reset.
FaultIdleKeepsTries(r) ==
    [r EXCEPT !.wpa_ptk_group_state = "IDLE", !.GUpdateStationKeys = FALSE]

\* The mark is not cleared.
FaultIdleKeepsMark(r) ==
    [r EXCEPT !.wpa_ptk_group_state = "IDLE", !.GTimeoutCtr = 0]

\* WPA_PTK_GROUP IDLE, from REKEYESTABLISHED, KEYERROR or PtkGroupInit.
GroupIdle(r) ==
    [r EXCEPT !.wpa_ptk_group_state = "IDLE", !.GUpdateStationKeys = FALSE,
              !.GTimeoutCtr = 0]

(***************************************************************************)
(* wpa_group_sm_step() at the end of wpa_sm_step(s): station s ends with   *)
(* record r and GKeyDoneStations is n.  Once nobody is left to answer, the *)
(* new GTK goes to the driver (wpa_group_setkeysdone); if the driver       *)
(* refuses it, every station is marked for disconnection and s, whose step *)
(* loop is still running, is disconnected at once.                         *)
(***************************************************************************)
StepDone(s, r, n) ==
    \/ /\ ~(wpa_group_state = "SETKEYS" /\ n = 0)
       /\ sm' = [sm EXCEPT ![s] = r]
       /\ GKeyDoneStations' = n
       /\ UNCHANGED <<wpa_group_state, GTK, txGTK>>
    \/ /\ wpa_group_state = "SETKEYS" /\ n = 0
       /\ wpa_group_state' = "SETKEYSDONE"
       /\ txGTK' = GTK
       /\ sm' = [sm EXCEPT ![s] = r]
       /\ GKeyDoneStations' = n
       /\ UNCHANGED GTK
    \/ /\ wpa_group_state = "SETKEYS" /\ n = 0
       /\ "keyfail" \in features
       /\ wpa_group_state' = "FATAL_FAILURE"
       /\ sm' = [t \in STA |-> IF t = s THEN Initialize(r)
                               ELSE [sm[t] EXCEPT !.Disconnect = sm[t].started]]
       /\ GKeyDoneStations' = n - Pending(r)
       /\ UNCHANGED <<GTK, txGTK>>

\* Disconnect left over from wpa_group_fatal_failure() is served first by the
\* next step loop of the station, whatever started it.
Settle(r) == IF r.Disconnect THEN Initialize(r) ELSE r
SettleDec(r) == IF r.Disconnect THEN Pending(r) ELSE 0

(***************************************************************************)
(* Callbacks.                                                              *)
(***************************************************************************)

\* wpa_auth_sta_init() and the first wpa_auth_sta_associated().
StaAssociated(s) ==
    /\ ~sm[s].started
    /\ wpa_group_state # "FATAL_FAILURE"
    /\ StepDone(s, PtkStart([NewSm EXCEPT !.started = TRUE]), GKeyDoneStations)

\* wpa_auth_sta_associated() when the machine of an earlier association is
\* still there, in any state: the Authentication or Association frame before it
\* has removed the PTK (AuthEvent).  key_replay is cleared, so no old frame is
\* answered any more.
StaAssociatedAgain(s) ==
    /\ sm[s].started
    /\ ~sm[s].PTK_valid /\ ~sm[s].rekey_timer
    /\ sm[s].timers < MaxTimers
    /\ sm[s].wpa_ptk_group_state = "IDLE" \/ "rejoin" \in features
    /\ StepDone(s, PtkStart([sm[s] EXCEPT !.msg1of2 = {}]), GKeyDoneStations)

\* Reassociation of an associated station, wpa_auth_sm_event(WPA_REAUTH):
\* a pending group key update is cancelled.
ReAuth(s) ==
    LET r == sm[s]
        cancelled == IF r.GUpdateStationKeys THEN GroupIdle(r) ELSE r
    IN /\ r.started
       /\ r.wpa_ptk_state # "INITIALIZE"
       /\ r.timers < MaxTimers
       /\ StepDone(s, PtkStart([cancelled EXCEPT !.rekey_timer = FALSE]),
                   GKeyDoneStations - Pending(r))

\* wpa_auth_sm_event(WPA_AUTH) or WPA_ASSOC: the PTK is removed, the machines
\* stay where they are.
AuthEvent(s) ==
    /\ "leave" \in features
    /\ sm[s].started
    /\ sm[s].PTK_valid \/ sm[s].rekey_timer
    /\ StepDone(s, Settle([sm[s] EXCEPT !.PTK_valid = FALSE, !.rekey_timer = FALSE]),
                GKeyDoneStations - SettleDec(sm[s]))

\* wpa_auth_sm_event(WPA_DEAUTH) or WPA_DISASSOC.
Deauthenticate(s) ==
    /\ "leave" \in features
    /\ sm[s].started
    /\ sm[s].wpa_ptk_state # "INITIALIZE"
    /\ StepDone(s, Initialize(sm[s]), GKeyDoneStations - Pending(sm[s]))

\* wpa_free_sta_sm() without "if (sm->GUpdateStationKeys)
\* sm->group->GKeyDoneStations--".
FaultStaDeinit(s) ==
    /\ "leave" \in features
    /\ sm[s].started
    /\ sm' = [sm EXCEPT ![s] = NewSm]
    /\ UNCHANGED <<wpa_group_state, GKeyDoneStations, GTK, txGTK>>

\* ap_free_sta(): wpa_auth_sta_deinit() and wpa_free_sta_sm(), without a step.
StaDeinit(s) ==
    /\ "leave" \in features
    /\ sm[s].started
    /\ sm' = [sm EXCEPT ![s] = NewSm]
    /\ GKeyDoneStations' = GKeyDoneStations - Pending(sm[s])
    /\ UNCHANGED <<wpa_group_state, GTK, txGTK>>

\* EAPOL-Key Request for a new PTK, or an error report, whose MIC was verified
\* (which cancels the timeouts): wpa_request_new_ptk().
RequestNewPtk(s) ==
    /\ sm[s].started
    /\ sm[s].PTK_valid
    /\ sm[s].wpa_ptk_group_state = "IDLE" \/ "ptkrekey" \in features
    /\ StepDone(s, PtkStart([sm[s] EXCEPT !.timers = 0]), GKeyDoneStations)

\* The wpa_rekey_ptk timer, registered in PTKINITDONE.
RekeyPtk(s) ==
    /\ sm[s].rekey_timer
    /\ sm[s].timers < MaxTimers
    /\ sm[s].wpa_ptk_group_state = "IDLE" \/ "ptkrekey" \in features
    /\ StepDone(s, PtkStart([sm[s] EXCEPT !.rekey_timer = FALSE]), GKeyDoneStations)

\* wpa_receive() of 2/4 with a good MIC: PTKCALCNEGOTIATING cancels the
\* timeouts and PTKINITNEGOTIATING sends 3/4.  Every pending replay counter
\* is invalidated, so an older 1/2 can no longer be answered.
ReceiveMsg2of4(s) ==
    LET r == [sm[s] EXCEPT !.PTK_valid = TRUE, !.timers = 0, !.TimeoutCtr = 0,
                           !.msg1of2 = {}]
    IN /\ sm[s].started
       /\ sm[s].wpa_ptk_state = "PTKSTART"
       /\ ~sm[s].Disconnect
       /\ StepDone(s, PtkInitNegotiating(r), GKeyDoneStations)

\* wpa_receive() of 4/4: PTKINITDONE, or disconnection if the driver refuses
\* the pairwise key.
ReceiveMsg4of4(s) ==
    /\ sm[s].started
    /\ sm[s].wpa_ptk_state = "PTKINITNEGOTIATING"
    /\ sm[s].PTK_valid
    /\ ~sm[s].Disconnect
    /\ \E g \in sm[s].msg3 :
         LET r == [sm[s] EXCEPT !.wpa_ptk_state = "PTKINITDONE", !.timers = 0,
                                !.rekey_timer = TRUE, !.msg3 = {},
                                !.has_GTK = g]
         IN \/ StepDone(s, r, GKeyDoneStations)
            \/ /\ "keyfail" \in features
               /\ StepDone(s, Initialize(r), GKeyDoneStations - Pending(r))

\* wpa_receive() of 2/2 for any of the 1/2 frames still pending:
\* REKEYESTABLISHED, then IDLE.
ReceiveMsg2of2(s) ==
    LET r == sm[s] IN
    /\ r.started
    /\ r.wpa_ptk_group_state = "REKEYNEGOTIATING"
    /\ r.PTK_valid
    /\ \E g \in r.msg1of2 :
         LET e == [GroupIdle(r) EXCEPT !.timers = 0, !.msg1of2 = {},
                                       !.has_GTK = g]
         IN StepDone(s, Settle(e), GKeyDoneStations - Pending(r))

\* wpa_send_eapol_timeout().  WPA_PTK is stepped first and takes TimeoutEvt
\* while a 4-way handshake is running; otherwise an unfinished group
\* handshake takes it.
EapolTimeout(s) ==
    LET r == Settle([sm[s] EXCEPT !.timers = @ - 1])
        n == GKeyDoneStations - SettleDec(sm[s])
        inHandshake == r.wpa_ptk_state \in {"PTKSTART", "PTKINITNEGOTIATING"}
        inRekey == r.wpa_ptk_group_state = "REKEYNEGOTIATING"
    IN /\ sm[s].timers > 0
       /\ \/ /\ r.wpa_ptk_state = "PTKSTART"
             /\ r.TimeoutCtr < PairwiseUpdateCount
             /\ StepDone(s, [r EXCEPT !.TimeoutCtr = @ + 1, !.timers = @ + 1], n)
          \/ /\ r.wpa_ptk_state = "PTKINITNEGOTIATING"
             /\ r.TimeoutCtr < PairwiseUpdateCount
             /\ StepDone(s, PtkInitNegotiating(r), n)
          \/ /\ inHandshake
             /\ r.TimeoutCtr = PairwiseUpdateCount
             /\ StepDone(s, Initialize(r), n - Pending(r))
          \/ /\ ~inHandshake /\ inRekey
             /\ r.GTimeoutCtr < GroupUpdateCount
             /\ StepDone(s, RekeyNegotiating(r, GTK), n)
          \/ /\ ~inHandshake /\ inRekey            \* KEYERROR
             /\ r.GTimeoutCtr = GroupUpdateCount
             /\ StepDone(s, Initialize(GroupIdle(r)), n - Pending(r))
          \/ /\ ~inHandshake /\ ~inRekey
             /\ StepDone(s, r, n)

\* wpa_group_update_sta() on one station's record, the step of its group
\* machine included: only IDLE sends a 1/2 straight away.
UpdateSta(r, g) ==
    CASE r.wpa_ptk_state # "PTKINITDONE" -> [r EXCEPT !.GUpdateStationKeys = FALSE]
      [] r.wpa_ptk_state = "PTKINITDONE" /\ r.is_wnmsleep -> r
      [] OTHER -> LET u == [r EXCEPT !.GUpdateStationKeys = TRUE]
                  IN IF r.wpa_ptk_group_state = "IDLE"
                     THEN RekeyNegotiating(u, g) ELSE u

\* The stations for which wpa_group_update_sta() increments GKeyDoneStations.
Counted(r) == r.started /\ r.wpa_ptk_state = "PTKINITDONE" /\ ~r.is_wnmsleep

\* The records after wpa_group_setkeys() with the new GTK g.
Marked(m, g) ==
    [s \in STA |-> IF m[s].started THEN UpdateSta(m[s], g) ELSE m[s]]

\* wpa_group_fatal_failure() after the driver refused a GTK, on the records q:
\* every station is marked for disconnection, and those in stepping serve it
\* straight away.
KeyRefused(q, stepping) ==
    /\ "keyfail" \in features
    /\ wpa_group_state' = "FATAL_FAILURE"
    /\ sm' = [s \in STA |-> IF s \in stepping THEN Initialize(q[s])
                            ELSE [q[s] EXCEPT !.Disconnect = q[s].started]]
    /\ GKeyDoneStations' =
         0 - Cardinality({s \in stepping : q[s].GUpdateStationKeys})

\* wpa_rekey_gtk() on the records m: the key of a drained rekey that no step has
\* installed yet goes to the driver first (late); then wpa_group_setkeys() makes
\* a new GTK, restarts the count and marks the stations; with nobody to wait for,
\* the key is installed at once.  The stations in stepping are stepped afterwards.
Rekey(m, stepping) ==
    LET counted == {s \in STA : Counted(m[s])}
        marked == Marked(m, GTK + 1)
        late == wpa_group_state = "SETKEYS" /\ GKeyDoneStations = 0
        installed == IF late THEN GTK ELSE txGTK
    IN /\ wpa_group_state # "FATAL_FAILURE"
       /\ GTK < MaxGTK
       /\ \A s \in counted : m[s].timers < MaxTimers
       /\ \/ "overlap" \in features
          \/ /\ wpa_group_state = "SETKEYSDONE"
             /\ \A s \in STA : m[s].wpa_ptk_state # "PTKINITNEGOTIATING"
       /\ \/ /\ late
             /\ KeyRefused(m, stepping)
             /\ UNCHANGED <<GTK, txGTK>>
          \/ /\ counted # {}
             /\ wpa_group_state' = "SETKEYS"
             /\ sm' = marked
             /\ GKeyDoneStations' = Cardinality(counted)
             /\ GTK' = GTK + 1 /\ txGTK' = installed
          \/ /\ counted = {}
             /\ wpa_group_state' = "SETKEYSDONE"
             /\ sm' = marked
             /\ GKeyDoneStations' = 0
             /\ GTK' = GTK + 1 /\ txGTK' = GTK + 1
          \/ /\ counted = {}
             /\ KeyRefused(marked, stepping)
             /\ GTK' = GTK + 1 /\ txGTK' = installed

\* wpa_rekey_gtk() from its timer or the control interface.
RekeyGtk == Rekey(sm, {})

\* EAPOL-Key Request of s for a new GTK: verifying its MIC cancels the timeouts
\* of s, whatever handshake they belong to.
RequestNewGtk(s) ==
    /\ sm[s].started
    /\ sm[s].PTK_valid
    /\ \/ "gtkrequest" \in features
       \/ /\ sm[s].wpa_ptk_state = "PTKINITDONE"
          /\ sm[s].wpa_ptk_group_state = "IDLE"
    /\ Rekey([sm EXCEPT ![s].timers = 0], {s})

\* ieee802_11_send_wnmsleep_resp() for an accepted enter request.
WnmSleepEnter(s) ==
    /\ "wnmsleep" \in features
    /\ sm[s].started /\ sm[s].wpa_ptk_state # "INITIALIZE"
    /\ ~sm[s].is_wnmsleep
    /\ sm' = [sm EXCEPT ![s].is_wnmsleep = TRUE]
    /\ UNCHANGED <<wpa_group_state, GKeyDoneStations, GTK, txGTK>>

\* The same for an exit request: wpa_set_wnmsleep(0), then, unless the response
\* itself carried the GTK (management frame protection), wpa_wnmsleep_rekey_gtk().
\* Nothing checks that the station was asleep, so exit requests can be counted
\* again and again: MaxDone bounds that.
MaxDone == Cardinality(STA) + 1
WnmSleepExit(s) ==
    LET r == [sm[s] EXCEPT !.is_wnmsleep = FALSE] IN
    /\ "wnmsleep" \in features
    /\ r.started /\ r.wpa_ptk_state # "INITIALIZE"
    /\ \/ /\ Counted(r) /\ GKeyDoneStations < MaxDone
          /\ r.timers < MaxTimers
          /\ StepDone(s, Settle(UpdateSta(r, GTK)),
                      GKeyDoneStations + 1 - IF r.Disconnect THEN 1 ELSE 0)
       \/ /\ ~Counted(r)
          /\ sm' = [sm EXCEPT ![s] = UpdateSta(r, GTK)]
          /\ UNCHANGED <<wpa_group_state, GKeyDoneStations, GTK, txGTK>>
       \/ /\ sm' = [sm EXCEPT ![s] = r]
          /\ UNCHANGED <<wpa_group_state, GKeyDoneStations, GTK, txGTK>>

\* ieee80211_tkip_countermeasures_start(): wpa_gtk_rekey() makes two new keys in
\* turn, the second of which stays GTK[GN], and every station is freed without a
\* step of its machines.  Whether the driver took the keys is not looked at: it
\* may go on with the old key, or with the first new one, which nobody is given.
TkipCountermeasures ==
    /\ "leave" \in features
    /\ GTK < MaxGTK
    /\ \E s \in STA : sm[s].started
    /\ GTK' = GTK + 1
    /\ \/ txGTK' = GTK + 1
       \/ "tkipfail" \in features /\ txGTK' \in {txGTK, 0}
    /\ sm' = [s \in STA |-> NewSm]
    /\ GKeyDoneStations' =
         GKeyDoneStations - Cardinality({s \in STA : sm[s].GUpdateStationKeys})
    /\ UNCHANGED wpa_group_state

Event ==
    \/ \E s \in STA :
         \/ StaAssociated(s) \/ StaAssociatedAgain(s) \/ ReAuth(s)
         \/ AuthEvent(s) \/ Deauthenticate(s) \/ StaDeinit(s)
         \/ RequestNewPtk(s) \/ RekeyPtk(s) \/ RequestNewGtk(s)
         \/ ReceiveMsg2of4(s) \/ ReceiveMsg4of4(s) \/ ReceiveMsg2of2(s)
         \/ EapolTimeout(s)
         \/ WnmSleepEnter(s) \/ WnmSleepExit(s)
    \/ RekeyGtk
    \/ TkipCountermeasures
Next == Event /\ UNCHANGED features

\* A registered eloop timeout fires: the only fairness assumed.  Stations may
\* stay silent for ever.
Fairness == \A s \in STA : WF_vars(EapolTimeout(s) /\ UNCHANGED features)

Spec == Init /\ [][Next]_vars
FairSpec == Spec /\ Fairness

(***************************************************************************)
(* Properties.                                                             *)
(***************************************************************************)

\* Types of the group and station state (struct wpa_group and struct
\* wpa_state_machine).
TypeOK ==
    /\ wpa_group_state \in GroupStates
    /\ GKeyDoneStations \in Int
    /\ GTK \in 1 .. MaxGTK /\ txGTK \in 0 .. MaxGTK
    /\ sm \in [STA -> SmType]
    /\ features \in FeatureSets

MarkedStations == {s \in STA : sm[s].GUpdateStationKeys}

\* GKeyDoneStations is the number of stations marked GUpdateStationKeys, as
\* the comment in wpa_group_setkeys() says: six places in wpa_auth.c change
\* one or the other, and wpa_group_sm_step() installs the GTK when it is 0.
CountMatchesMarks == GKeyDoneStations = Cardinality(MarkedStations)

\* So it is at least without WNM-Sleep Mode.
CountMatchesMarksAwake == "wnmsleep" \notin features => CountMatchesMarks

\* Whenever no GTK handshake is outstanding, every established, awake station
\* has acknowledged GTK[GN] (wpa_group_setkeysdone runs only after the last
\* REKEYESTABLISHED; joining stations get GTK[GN] in 3/4), and that is the GTK
\* the AP transmits with; as long as no rekey overlaps a 3/4 or another rekey and
\* nobody has slept through one.  The exception to the second part: the driver
\* refused a key of TKIP countermeasures, which wpa_gtk_rekey() does not notice,
\* so that stations joining afterwards hold a GTK the AP does not transmit with.
EstablishedStationsHaveTxGtk ==
    wpa_group_state = "SETKEYSDONE" /\ {"overlap", "wnmsleep"} \cap features = {} =>
        \A s \in STA : Counted(sm[s]) =>
            /\ sm[s].has_GTK = GTK
            /\ "tkipfail" \notin features => sm[s].has_GTK = txGTK

\* A station marked for the rekey is in the group handshake that will unmark
\* it: wpa_group_update_sta() sets the flag before wpa_sm_step(), and every way
\* out of REKEYNEGOTIATING (REKEYESTABLISHED, KEYERROR, a new 4-way handshake
\* after WPA_REAUTH) has to clear it.
MarkedStationIsInHandshake ==
    \A s \in MarkedStations : sm[s].wpa_ptk_group_state = "REKEYNEGOTIATING"

\* Nothing takes over the timeout of an unfinished group handshake: no 4-way
\* handshake starts and no EAPOL-Key Request arrives.
GroupHandshakeAlone == {"ptkrekey", "rejoin", "gtkrequest"} \cap features = {}

\* A marked station whose 4-way handshake is over always has a timeout
\* registered, so 1/2 is retried or the station is disconnected: nothing
\* else would make wpa_group_sm_step() go on.
MarkedStationIsRetried ==
    GroupHandshakeAlone => \A s \in MarkedStations :
        sm[s].wpa_ptk_state = "PTKINITDONE" => sm[s].timers > 0

\* A GTK rekey (SETKEYS) is always drained, by answers or by disconnection
\* after wpa_group_update_count tries.
RekeyAlwaysDrains == wpa_group_state = "SETKEYS" ~> GKeyDoneStations = 0

\* So it is as long as no other handshake takes over the timeout and the count
\* is right.
RekeyDrains ==
    /\ GroupHandshakeAlone /\ "wnmsleep" \notin features
    /\ wpa_group_state = "SETKEYS"
    ~> GKeyDoneStations = 0

=============================================================================
