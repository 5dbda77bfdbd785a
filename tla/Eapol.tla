------------------------------- MODULE Eapol -------------------------------
(* A station and an access point with an integrated EAP server run 802.1X      *)
(* over a link that keeps the order of the frames and may lose them.           *)
EXTENDS EapolAuth, EapolSupp

CONSTANTS Configs, Ids

VARIABLES cfg,      \* what this behaviour is about: see TypeOK
          ap, sta,  \* the two ends
          down, up, \* the frames on their way to the station and to the AP
          faults,   \* frames that may still be lost
          early,    \* seconds that may still pass at one end while events are due
          ops,      \* commands the user may still give
          mute      \* nothing of the station reaches the AP any more

vars == <<cfg, ap, sta, down, up, faults, early, ops, mute>>

Init ==
    /\ cfg \in Configs
    /\ ap = NoStation(cfg.methods, 0)
    /\ sta = SuppInit(IF cfg.good THEN UserPsk ELSE UserPsk + 1)
    /\ down = <<>> /\ up = <<>>
    /\ faults = cfg.faults
    /\ early = cfg.early
    /\ ops = cfg.ops
    /\ mute = FALSE

ApSends(s) ==
    /\ ap' = [s EXCEPT !.out = <<>>, !.eap.rnd = 0]
    /\ down' = down \o s.out

StaSends(t) ==
    /\ sta' = [t EXCEPT !.out = <<>>]
    /\ up' = IF mute THEN up ELSE up \o t.out

Random(s, id) == [s EXCEPT !.eap.rnd = id]

-----------------------------------------------------------------------------
ApReceive ==
    /\ up # <<>>
    /\ up' = Tail(up)
    /\ ap' = IF Head(up).kind = "deauth" THEN free_station(ap)
             ELSE ieee802_1x_receive(ap, Head(up))
    /\ UNCHANGED <<cfg, sta, down, faults, early, ops, mute>>

ApStep ==
    /\ ap.sm /\ ap.step
    /\ \E id \in Ids :
           ApSends(eapol_sm_step_run([Random(ap, id) EXCEPT !.step = FALSE], cfg.reauth))
    /\ UNCHANGED <<cfg, sta, up, faults, early, ops, mute>>

ApTick ==
    /\ early > 0 /\ early' = early - 1
    /\ ap.sm
    /\ \E id \in Ids : ApSends(eapol_port_timers_tick(Random(ap, id), cfg.reauth))
    /\ UNCHANGED <<cfg, sta, up, faults, ops, mute>>

ApDelayedDisconnect ==
    /\ ap.sm /\ ap.auth_fail
    /\ ApSends(delayed_1x_auth_fail(ap))
    /\ UNCHANGED <<cfg, sta, up, faults, early, ops, mute>>

\* ap_handle_timer with STA_REMOVE, some seconds after the disconnection.
ApRemove ==
    /\ ap.sm /\ ~ap.assoc
    /\ ap' = free_station(ap)
    /\ UNCHANGED <<cfg, sta, down, up, faults, early, ops, mute>>

-----------------------------------------------------------------------------
StaReceive ==
    /\ down # <<>>
    /\ down' = Tail(down)
    /\ IF ~sta.assoc THEN UNCHANGED <<sta, up>>
       ELSE IF Head(down).kind = "deauth" THEN StaSends(mark_disassoc(sta))
       ELSE StaSends(eapol_sm_rx_eapol(sta, Head(down)))
    /\ UNCHANGED <<cfg, ap, faults, early, ops, mute>>

StaTick ==
    /\ early > 0 /\ early' = early - 1
    /\ sta.timeout # 0
    /\ StaSends(supp_port_timers_tick(sta))
    /\ UNCHANGED <<cfg, ap, down, faults, ops, mute>>

\* wpa_supplicant_timeout
StaTimeout ==
    /\ sta.timeout = 0
    /\ StaSends(mark_disassoc(Send(sta, "deauth")))
    /\ UNCHANGED <<cfg, ap, down, faults, early, ops, mute>>

InFlight(kind) ==
    \/ \E i \in DOMAIN down : down[i].kind = kind
    \/ \E i \in DOMAIN up : up[i].kind = kind

\* The two ends of one association.  A station that is still associated does so
\* on a command, without leaving the AP first.
Associate ==
    /\ ~mute /\ ~InFlight("deauth")
    /\ sta.assoc => ops > 0
    /\ ops' = IF sta.assoc THEN ops - 1 ELSE ops
    /\ ap' = new_station(ap, cfg.reauth, cfg.fullState)
    /\ StaSends(event_assoc(sta))
    /\ UNCHANGED <<cfg, down, faults, early, mute>>

Command(t) ==
    /\ ops > 0 /\ ops' = ops - 1
    /\ StaSends(t)
    /\ UNCHANGED <<cfg, ap, down, faults, early, mute>>

Logoff == ~sta.userLogoff /\ Command(notify_logoff(sta, TRUE))
Logon == sta.userLogoff /\ Command(notify_logoff(sta, FALSE))
RequestReauth == sta.pae = "AUTHENTICATED" /\ Command(request_reauth(sta))

-----------------------------------------------------------------------------
LoseDown ==
    /\ faults > 0 /\ down # <<>> /\ Head(down).kind # "deauth"
    /\ faults' = faults - 1
    /\ down' = Tail(down)
    /\ UNCHANGED <<cfg, ap, sta, up, early, ops, mute>>

LoseUp ==
    /\ faults > 0 /\ up # <<>> /\ Head(up).kind # "deauth"
    /\ faults' = faults - 1
    /\ up' = Tail(up)
    /\ UNCHANGED <<cfg, ap, sta, down, early, ops, mute>>

GoMute ==
    /\ cfg.mute /\ ~mute
    /\ mute' = TRUE /\ up' = <<>>
    /\ UNCHANGED <<cfg, ap, sta, down, faults, early, ops>>

\* Some timer has not run out yet.
Running ==
    \/ \E n \in {ap.aWhile, ap.quietWhile, ap.reAuthWhen, ap.eap.retransWhile} : n > 0
    \/ \E n \in {sta.authWhile, sta.heldWhile, sta.startWhen, sta.idleWhile, sta.timeout} : n > 0

Due == up # <<>> \/ down # <<>> \/ ap.step \/ ap.auth_fail \/ sta.timeout = 0

\* Otherwise a second passes at both ends once every frame has arrived and
\* every event that is due has been handled.
Second ==
    /\ ~Due
    /\ IF ap.sm
       THEN \E id \in Ids : ApSends(eapol_port_timers_tick(Random(ap, id), cfg.reauth))
       ELSE UNCHANGED <<ap, down>>
    /\ StaSends(supp_port_timers_tick(sta))
    /\ UNCHANGED <<cfg, faults, early, ops, mute>>

Next ==
    \/ ApReceive \/ ApStep \/ ApTick \/ ApDelayedDisconnect \/ ApRemove
    \/ StaReceive \/ StaTick \/ StaTimeout \/ Associate
    \/ Logoff \/ Logon \/ RequestReauth
    \/ LoseDown \/ LoseUp \/ GoMute \/ Second

\* Nothing is left to happen.
AtRest == ~Due /\ ~Running /\ (sta.assoc \/ mute)

\* Weak fairness of Next with its enabling condition spelt out (Next can change
\* something unless the two ends are at rest): both programs return to their
\* event loops, timers expire, and the station looks for the AP again when it has
\* lost it.  Losses, early seconds and commands are bounded by the configuration.
Fairness == []<>AtRest \/ []<><<Next>>_vars

Spec == Init /\ [][Next]_vars /\ Fairness

-----------------------------------------------------------------------------
\* The states of the machines between two events, and the counters' limits: the
\* requests of the server, the starts of the station and the restarts of AUTH_PAE
\* are counted up to the limits of the configuration and no further.
TypeOK ==
    /\ cfg \in Configs
    /\ ap.pae \in {"INITIALIZE", "DISCONNECTED", "RESTART", "CONNECTING", "HELD",
                   "AUTHENTICATED", "AUTHENTICATING", "ABORTING"}
    /\ ap.be \in {"INITIALIZE", "REQUEST", "RESPONSE", "IGNORE", "IDLE"}
    /\ ap.eap.state \in {"DISABLED", "IDLE", "FAILURE", "SUCCESS", "TIMEOUT_FAILURE"}
    /\ ap.eap.retransCount \in 0 .. MaxRetrans + 1
    /\ ap.eap.num_rounds \in 0 .. MaxRounds + 2
    /\ ap.reAuthCount \in 0 .. ReAuthMax + 1
    /\ sta.pae \in {"LOGOFF", "DISCONNECTED", "CONNECTING", "HELD", "AUTHENTICATED",
                    "AUTHENTICATING", "RESTART"}
    /\ sta.eap \in {"DISABLED", "IDLE", "SUCCESS", "FAILURE"}
    /\ sta.startCount \in 0 .. MaxStart
    /\ faults \in 0 .. cfg.faults /\ early \in 0 .. cfg.early /\ ops \in 0 .. cfg.ops
    /\ mute \in BOOLEAN

\* The machines of both ends come to rest in every event: the limit of passes, "a
\* precaution against infinite loops inside eloop callback", is never needed, and
\* the loops of the EAP machines, which have no limit, end.
StepsEnd == ~ap.busy /\ ~sta.busy /\ ~ap.eap.changed /\ ~sta.changed

\* However frames are lost, sessions overlap and the two ends restart, the AP opens
\* the port only for a station with the key of the user database, and a station
\* with another key never takes itself for authenticated.
OnlyGood == ap.authorized \/ sta.pae = "AUTHENTICATED" => cfg.good

\* When EAP has ended in success at both ends and no frame is under way, they hold
\* the MSK of the same run of the method, also after the station has concluded
\* success on its own or one end has started over while the other had finished.
EapKeyAgreement ==
    /\ ap.pae = "AUTHENTICATED" /\ ~ap.step /\ ap.authorized
    /\ sta.pae = "AUTHENTICATED" /\ sta.eapSuccess
    /\ up = <<>> /\ down = <<>>
    => ap.eap.eapKeyData = sta.eapKeyData

\* A response that is waiting for its step is overtaken by the second in which the
\* retransmission falls due: the server both repeats its request and takes the
\* response, BE_AUTH sends the outcome as if it were the request, and in REQUEST it
\* never looks at eapSuccess or eapFail.
Overtaken == ap.be = "REQUEST" /\ ap.eap.state \in {"SUCCESS", "FAILURE"}

\* An authenticator that is not done waits for something that will come: the end of
\* the quiet period, a retransmission, the server's timeout or the disconnection
\* of the station.
ApWaitsWithTimer ==
    ap.sm /\ ap.eap.portEnabled /\ ~ap.step /\ ap.pae # "AUTHENTICATED" =>
        \/ ap.pae = "HELD" /\ ap.quietWhile > 0
        \/ ap.eap.state = "IDLE" /\ ap.eap.retransWhile > 0
        \/ ap.be = "RESPONSE" /\ ap.aWhile > 0
        \/ ap.auth_fail
        \/ Overtaken

\* An associated station that is neither authenticated nor logged off has a timer
\* that takes it on, whatever it has received and in whatever order.
StaWaitsWithTimer ==
    sta.assoc /\ sta.pae \notin {"AUTHENTICATED", "LOGOFF"} =>
        \/ sta.pae = "CONNECTING" /\ sta.startWhen > 0
        \/ sta.pae = "HELD" /\ sta.heldWhile > 0
        \/ sta.pae = "AUTHENTICATING" /\ sta.be = "RECEIVE" /\ sta.authWhile > 0

Done == ap.pae = "AUTHENTICATED" /\ ap.authorized /\ sta.pae = "AUTHENTICATED"

\* With the right key and a method in common, both ends authenticate again and
\* again, whatever was lost or late, unless the user stays logged off or the AP has
\* been overtaken.
Completes ==
    /\ cfg.good /\ ~cfg.mute
    /\ \E i \in DOMAIN cfg.methods : cfg.methods[i] = "psk"
    => []<>Done \/ <>[]sta.userLogoff \/ <>Overtaken

\* A station that can no longer be heard is disconnected: by the end of the
\* retransmissions if it is not authenticated, and by the next reauthentication
\* if it is.
SilentStationLeaves ==
    mute /\ ap.assoc ~> \/ ~ap.assoc
                        \/ ap.authorized /\ cfg.reauth = 0
                        \/ Overtaken
=============================================================================
