------------------------------ MODULE SaQuery -------------------------------
(***************************************************************************)
(* SA Query with management frame protection: how an AP finds out whether  *)
(* the station of an association request still holds the security          *)
(* association it has, and how a station does so when it is told, without  *)
(* protection, that the AP does not know it.                               *)
(*                                                                         *)
(* AP: ap_sa_query_timer() and friends in src/ap/sta_info.c, the           *)
(* association in src/ap/ieee802_11.c, action frames in                    *)
(* src/ap/ieee802_11_shared.c.  Station: wpa_supplicant/sme.c; its driver  *)
(* answers the queries of the AP and keeps the comeback time.              *)
(*                                                                         *)
(* A key names a PTK; a frame protected with a key is dropped by a         *)
(* receiver that has another one.  PMF is required, so every association   *)
(* negotiates it.  Time passes in ticks, and a timeout that is due fires   *)
(* before the next tick.                                                   *)
(***************************************************************************)
EXTENDS Integers

CONSTANTS
    MaxTimeout,      \* conf.assoc_sa_query_max_timeout, sa_query_max_timeout
    RetryTimeout,    \* conf.assoc_sa_query_retry_timeout, sa_query_retry_timeout
    UnprotLimit,     \* the 10 s between two SA Queries of the station
    Ids,             \* transaction identifiers
    Keys,            \* names of PTKs
    Budgets          \* how often what the environment may do, see EnvType

ASSUME TimeoutAssumption ==
    MaxTimeout \in Nat \ {0} /\ RetryTimeout \in Nat \ {0} /\ UnprotLimit \in Nat
ASSUME KeysAssumption == Keys \subseteq Nat \ {0} /\ Ids \subseteq Nat

VARIABLES
    ap,              \* struct sta_info of the station
    sta,             \* struct wpa_supplicant
    net,             \* SA Query frames under way
    env              \* what is left of the budget

vars == <<ap, sta, net, env>>

NoKey == 0
MaxRejects == 3                 \* bound: more refusals are not counted
NoTimer == -1
Ages == 0 .. MaxTimeout + 1     \* a query older than MaxTimeout only gets older
Timers == NoTimer .. RetryTimeout

\* A query at either end: the identifiers sent, the time since the first one,
\* the registered timeout, and (history) whether it was begun before the PTK
\* in use was there.
Queries == [ids : SUBSET Ids, age : Ages, timer : Timers, carried : BOOLEAN]
NoQuery == [ids |-> {}, age |-> 0, timer |-> NoTimer, carried |-> FALSE]

ApType ==
    [auth : BOOLEAN, assoc : BOOLEAN, mfp : BOOLEAN, authorized : BOOLEAN,
     resp : BOOLEAN,         \* TX status of a successful response outstanding
     key : Keys \cup {NoKey}, query : Queries, timed_out : BOOLEAN]

StaType ==
    [state : {"idle", "asking", "joined", "completed"},
     key : Keys \cup {NoKey}, query : Queries,
     quiet : 0 .. UnprotLimit,          \* until last_unprot_disconnect + 10 s
     wait : 0 .. MaxTimeout,            \* comeback time
     rejects : 0 .. MaxRejects]   \* history: own requests refused by this query

\* SA Query frames lost or late, management frames without protection that
\* neither the station nor the AP has sent, associations that break off at
\* either end, failed allocations.
EnvType == [faults : Nat, strays : Nat, drops : Nat, oom : Nat]

Frames == [to : {"ap", "sta"}, kind : {"request", "response"}, id : Ids, key : Keys]

ASSUME BudgetAssumption == Budgets \subseteq EnvType

NewSta == [auth |-> FALSE, assoc |-> FALSE, mfp |-> FALSE, authorized |-> FALSE,
           resp |-> FALSE, key |-> NoKey, query |-> NoQuery, timed_out |-> FALSE]

NewSupplicant == [state |-> "idle", key |-> NoKey, query |-> NoQuery,
                  quiet |-> 0, wait |-> 0, rejects |-> 0]

Init == ap = NewSta /\ sta = NewSupplicant /\ net = {} /\ env \in Budgets

\* A robust action frame without a key is dropped by its receiver.
Protected(to, kind, id, key) ==
    IF key = NoKey THEN {} ELSE {[to |-> to, kind |-> kind, id |-> id, key |-> key]}

Spend(what) == env[what] > 0 /\ env' = [env EXCEPT ![what] = @ - 1]

(***************************************************************************)
(* The query itself, the same at both ends.                                *)
(***************************************************************************)
Pending(q) == q.ids # {}
TimedOut(q) == MaxTimeout < q.age

\* Another request: identifier, timeout, and the time of the first one.
NextRequest(q, id) ==
    [ids |-> q.ids \cup {id}, timer |-> RetryTimeout,
     age |-> IF Pending(q) THEN q.age ELSE 0,
     carried |-> q.carried /\ Pending(q)]

\* A new PTK does not stop a query; carried records that.
Carried(q) == [q EXCEPT !.carried = Pending(q) \/ @]

\* Fault: the timer goes on although an answer has come.
FaultStopped(q) == q

Stopped(q) == NoQuery

(***************************************************************************)
(* AP.                                                                     *)
(***************************************************************************)

\* The query timed out: remembered until the next association completes.
ApTimedOut(r) ==
    [r EXCEPT !.timed_out = TRUE,
              !.query = [Stopped(@) EXCEPT !.carried = r.query.carried \/ r.key = NoKey]]

\* ap_sa_query_timer() when the query has not timed out, for the record r.
ApSendRequest(r) ==
    \E id \in Ids :
        /\ ap' = [r EXCEPT !.query = NextRequest(@, id)]
        /\ net' = net \cup Protected("sta", "request", id, r.key)

\* A failed allocation leaves its timeout unregistered.
ApNoMemory(r) ==
    Spend("oom") /\ ap' = [r EXCEPT !.query.timer = NoTimer] /\ UNCHANGED net

ApQueryTimer ==
    /\ ap.query.timer = 0
    /\ IF TimedOut(ap.query)
       THEN ap' = ApTimedOut(ap) /\ UNCHANGED <<net, env>>
       ELSE (ApSendRequest(ap) /\ UNCHANGED env) \/ ApNoMemory(ap)
    /\ UNCHANGED sta

\* handle_auth() with open system authentication.  An authorized station with
\* PMF keeps its association and its keys.
AuthReset(r) ==
    IF r.mfp /\ r.authorized THEN r
    ELSE [r EXCEPT !.assoc = FALSE, !.authorized = FALSE, !.key = NoKey]

\* The station sends it itself (own), or it is none of its frames.
Sent(own) == IF own THEN sta.state = "asking" /\ UNCHANGED env ELSE Spend("strays")

HandleAuth(own) ==
    /\ Sent(own)
    /\ ap' = [AuthReset(ap) EXCEPT !.auth = TRUE]
    /\ UNCHANGED <<sta, net>>

\* Fault: only the timer of the query finds out that it has timed out.
FaultCheckedTimeout(r) == r

\* A pending query is looked at before its own timer runs.
CheckedTimeout(r) ==
    IF r.assoc /\ r.mfp /\ ~r.timed_out /\ Pending(r.query) /\ TimedOut(r.query)
    THEN ApTimedOut(r) ELSE r

MustQuery(r) == r.assoc /\ r.mfp /\ ~r.timed_out

\* Faults: no extra time, and extra time for a query that has just begun too.
FaultNoExtraTime(age) == IF MaxTimeout > age THEN MaxTimeout - age ELSE 0

\* hostapd_eid_assoc_comeback_time(), as the one value it sends.  Without a
\* query it is made from the start of some earlier one.
ComebackTime(age) ==
    LET left == IF MaxTimeout > age THEN MaxTimeout - age ELSE 0
    IN IF left < MaxTimeout THEN left + 1 ELSE left

Comeback(q) == IF Pending(q) THEN {ComebackTime(q.age)} ELSE {ComebackTime(a) : a \in Ages}

\* The association is accepted: add_associated_sta() replaces the driver's
\* entry and with it the keys.
Accepted(r) == [r EXCEPT !.mfp = TRUE, !.resp = TRUE, !.key = NoKey]

\* History: counted while a query is pending.
Refused(n, q) == IF Pending(q) /\ n < MaxRejects THEN n + 1 ELSE n

\* handle_assoc().
HandleAssoc(own) ==
    LET r == CheckedTimeout(ap)
    IN /\ ap.auth
       /\ own => sta.wait = 0
       /\ \/ /\ ~MustQuery(r)
             /\ Sent(own)
             /\ ap' = Accepted(r)
             /\ UNCHANGED <<sta, net>>
          \/ /\ MustQuery(r)
             /\ \/ Sent(own) /\ Pending(r.query) /\ ap' = r /\ UNCHANGED net
                \/ Sent(own) /\ ~Pending(r.query) /\ ApSendRequest(r)
                \/ own /\ sta.state = "asking" /\ ~Pending(r.query) /\ ApNoMemory(r)
             /\ IF own
                THEN \E t \in Comeback(ap'.query) :
                       sta' = [sta EXCEPT !.wait = t, !.rejects = Refused(@, ap'.query)]
                ELSE UNCHANGED sta

\* Fault: the outcome of the last query is not cleared.
FaultHandleAssocCb(ok) ==
    /\ ap.resp /\ ok
    /\ ap' = [ap EXCEPT !.resp = FALSE, !.assoc = TRUE,
                        !.query.carried = @ /\ Pending(ap.query)]
    /\ sta' = IF sta.state = "asking"
              THEN [sta EXCEPT !.state = "joined", !.wait = 0, !.rejects = 0]
              ELSE sta
    /\ UNCHANGED <<net, env>>

\* handle_assoc_cb(): the response was acknowledged or not.  A station that
\* asks takes the response.
HandleAssocCb(ok) ==
    /\ ap.resp
    /\ IF ok
       THEN /\ ap' = [ap EXCEPT !.resp = FALSE, !.assoc = TRUE, !.timed_out = FALSE,
                                !.query.carried = @ /\ Pending(ap.query)]
            /\ sta' = IF sta.state = "asking"
                      THEN [sta EXCEPT !.state = "joined", !.wait = 0, !.rejects = 0]
                      ELSE sta
            /\ UNCHANGED env
       ELSE /\ Spend("drops")
            /\ ap' = [ap EXCEPT !.resp = FALSE, !.key = NoKey,
                                !.query.carried = @ \/ ap.timed_out]
            /\ UNCHANGED sta
    /\ UNCHANGED net

\* A name no PTK in use has; which of them a new PTK gets does not matter.
FreshKeys ==
    LET free == Keys \ ({sta.key} \cup {f.key : f \in net})
    IN {k \in free : \A l \in free : k <= l}

\* The 4-way handshake of a new association, with the station that asked or
\* with one that does not know of it, ends with a new PTK at both ends.
KeyHandshake ==
    /\ ap.assoc /\ ~ap.resp /\ ap.key = NoKey
    /\ sta.state \in {"joined", "completed"}
    /\ \E k \in FreshKeys :
         /\ ap' = [ap EXCEPT !.key = k, !.authorized = TRUE,
                             !.query = Carried(@)]
         /\ sta' = [sta EXCEPT !.key = k, !.state = "completed",
                               !.query = Carried(@)]
    /\ UNCHANGED <<net, env>>

\* The handshake fails and the station is removed.
HandshakeTimeout ==
    /\ ap.assoc /\ ~ap.resp /\ ap.key = NoKey
    /\ IF sta.state = "joined" THEN Spend("drops") ELSE UNCHANGED env
    /\ ap' = NewSta
    /\ UNCHANGED <<sta, net>>

\* ap_free_sta() for any other reason, or a restart; the station hears nothing.
ApDrops ==
    /\ Spend("drops")
    /\ ap' = NewSta
    /\ UNCHANGED <<sta, net>>

\* ieee802_11_sa_query_action().  Frames of stations that are not associated
\* and robust frames without protection are dropped before.
ApRx(f) ==
    /\ f.to = "ap"
    /\ LET heard == ap.assoc /\ f.key = ap.key
       IN \/ /\ heard /\ f.kind = "request"
             /\ net' = (net \ {f}) \cup Protected("sta", "response", f.id, ap.key)
             /\ UNCHANGED <<ap, sta>>
          \/ /\ heard /\ f.kind = "response" /\ f.id \in ap.query.ids
             /\ ap' = [ap EXCEPT !.query = Stopped(@)]
             /\ sta' = [sta EXCEPT !.rejects = 0]
             /\ net' = net \ {f}
          \/ /\ ~heard \/ (f.kind = "response" /\ f.id \notin ap.query.ids)
             /\ net' = net \ {f}
             /\ UNCHANGED <<ap, sta>>
    /\ UNCHANGED env

(***************************************************************************)
(* Station.                                                                *)
(***************************************************************************)

\* What a disassociation leaves: wpa_supplicant_mark_disassoc() does not stop
\* the query.
Gone(s) == [s EXCEPT !.state = "idle", !.key = NoKey, !.wait = 0, !.rejects = 0]

\* handle_disassoc() keeps the entry of the station, handle_deauth() frees it.
Disassociated(r) ==
    [r EXCEPT !.assoc = FALSE, !.authorized = FALSE, !.key = NoKey]

\* A protected Deauthentication or Disassociation frame of the station.
ApHearsDeauth ==
    \/ ap' = ap
    \/ sta.key # NoKey /\ sta.key = ap.key /\ ap' = NewSta

StaAsks ==
    /\ sta.state = "idle"
    /\ sta' = [sta EXCEPT !.state = "asking"]
    /\ UNCHANGED <<ap, net, env>>

\* Authentication or association timeout of a station the AP has forgotten.
StaGivesUp ==
    /\ sta.state = "joined" /\ ~ap.assoc
    /\ sta' = Gone(sta)
    /\ UNCHANGED <<ap, net, env>>

StaDisassociates ==
    /\ sta.state = "completed"
    /\ sta' = Gone(sta)
    /\ \/ ap' = ap
       \/ sta.key = ap.key /\ ap' = Disassociated(ap)
    /\ UNCHANGED <<net, env>>

StaDeauthenticates ==
    /\ sta.state = "completed"
    /\ sta' = Gone(sta)
    /\ ApHearsDeauth
    /\ UNCHANGED <<net, env>>

\* The interface is removed (sme_deinit()) or the device restarts.
StaRestarts ==
    /\ IF sta.state = "completed" THEN UNCHANGED env ELSE Spend("drops")
    /\ sta' = NewSupplicant
    /\ UNCHANGED <<ap, net>>

\* sme_sa_query_timer() up to the timeout of the whole query.  Without a key
\* the request does not count: there is no BSSID or no protection yet.
StaSendRequest(s) ==
    \/ \E id \in Ids :
         /\ sta' = [s EXCEPT !.query = NextRequest(@, id)]
         /\ net' = net \cup Protected("ap", "request", id, s.key)
         /\ UNCHANGED env
    \/ /\ Spend("oom")
       /\ sta' = [s EXCEPT !.query = Stopped(@)]
       /\ UNCHANGED net

\* Fault: the age of the query is never looked at.
FaultStaQueryTimer ==
    sta.query.timer = 0 /\ StaSendRequest(sta) /\ UNCHANGED ap

StaQueryTimer ==
    /\ sta.query.timer = 0
    /\ IF TimedOut(sta.query)
       THEN /\ sta' = [Gone(sta) EXCEPT !.query = Stopped(@)]
            /\ ApHearsDeauth
            /\ UNCHANGED <<net, env>>
       ELSE StaSendRequest(sta) /\ UNCHANGED ap

\* sme_event_unprot_disconnect(), with reason "class 2" or "class 3 frame".
StaUnprotDisconnect ==
    /\ sta.state = "completed"
    /\ ~Pending(sta.query)
    /\ sta.quiet = 0
    /\ LET s == [sta EXCEPT !.quiet = UnprotLimit]
       IN \/ /\ \E id \in Ids :
                  /\ sta' = [s EXCEPT !.query = NextRequest(@, id)]
                  /\ net' = net \cup Protected("ap", "request", id, s.key)
             /\ IF ap.assoc THEN Spend("strays") ELSE UNCHANGED env
          \/ Spend("oom") /\ sta' = s /\ UNCHANGED net
    /\ UNCHANGED ap

\* The driver answers a request that it can decrypt; sme_sa_query_rx() takes
\* responses.
StaRx(f) ==
    /\ f.to = "sta"
    /\ LET heard == sta.key = f.key
       IN \/ /\ heard /\ f.kind = "request"
             /\ net' = (net \ {f}) \cup Protected("ap", "response", f.id, sta.key)
             /\ UNCHANGED sta
          \/ /\ heard /\ f.kind = "response" /\ f.id \in sta.query.ids
             /\ sta' = [sta EXCEPT !.query = Stopped(@)]
             /\ net' = net \ {f}
          \/ /\ ~heard \/ (f.kind = "response" /\ f.id \notin sta.query.ids)
             /\ net' = net \ {f}
             /\ UNCHANGED sta
    /\ UNCHANGED <<ap, env>>

(***************************************************************************)
(* The link and time.                                                      *)
(***************************************************************************)
Lose(f) == Spend("faults") /\ net' = net \ {f} /\ UNCHANGED <<ap, sta>>

Older(q) ==
    [q EXCEPT !.age = IF Pending(q) /\ ~TimedOut(q) THEN @ + 1 ELSE @,
              !.timer = IF @ = NoTimer THEN @ ELSE @ - 1]

Less(n) == IF n = 0 THEN 0 ELSE n - 1

\* Frames are on time unless that is spent as a fault.
Tick ==
    /\ ap.query.timer # 0 /\ sta.query.timer # 0
    /\ IF net = {} THEN UNCHANGED env ELSE Spend("faults")
    /\ ap' = [ap EXCEPT !.query = Older(@)]
    /\ sta' = [sta EXCEPT !.query = Older(@), !.quiet = Less(@), !.wait = Less(@)]
    /\ UNCHANGED net

ApNext ==
    \/ ApQueryTimer
    \/ \E own \in BOOLEAN : HandleAuth(own) \/ HandleAssoc(own)
    \/ \E ok \in BOOLEAN : HandleAssocCb(ok)
    \/ KeyHandshake
    \/ HandshakeTimeout
    \/ ApDrops
    \/ \E f \in net : ApRx(f)

StaNext ==
    \/ StaAsks
    \/ StaGivesUp
    \/ StaDisassociates
    \/ StaDeauthenticates
    \/ StaRestarts
    \/ StaQueryTimer
    \/ StaUnprotDisconnect
    \/ \E f \in net : StaRx(f)

Next == ApNext \/ StaNext \/ Tick \/ \E f \in net : Lose(f)

Spec == Init /\ [][Next]_vars

\* Timeouts fire, time passes, frames under way arrive, responses are
\* acknowledged, and a station without association keeps asking.  A station
\* the AP does not know transmits, and hears so.
FairSpec ==
    /\ Spec
    /\ WF_vars(Tick)
    /\ WF_vars(ApQueryTimer) /\ WF_vars(StaQueryTimer)
    /\ WF_vars(\E f \in net : ApRx(f) \/ StaRx(f))
    /\ WF_vars(StaAsks) /\ WF_vars(StaGivesUp)
    /\ WF_vars(~ap.auth /\ HandleAuth(TRUE))
    /\ WF_vars(HandleAssoc(TRUE)) /\ WF_vars(HandleAssocCb(TRUE))
    /\ WF_vars(KeyHandshake) /\ WF_vars(sta.state # "joined" /\ HandshakeTimeout)
    /\ WF_vars(~ap.assoc /\ StaUnprotDisconnect)

(***************************************************************************)
(* Properties.                                                             *)
(***************************************************************************)

\* Types of sta_info, of the station and of the frames under way.
TypeOK ==
    ap \in ApType /\ sta \in StaType /\ net \subseteq Frames /\ env \in EnvType

SameKey == sta.key # NoKey /\ sta.key = ap.key

\* As long as fewer frames are lost or late than requests are sent, no
\* association request replaces the association of a station that still holds
\* its PTK: one of the answers stops the query and check_assoc_ies() goes on
\* refusing.  Only a query begun before the station had that PTK may still time
\* out.
LiveAssociationKept ==
    [][SameKey /\ ~ap.resp /\ ap'.resp => ap.query.carried]_vars

\* Likewise the station leaves an AP that shares its PTK only because of a
\* query from before it had that PTK: sme_check_sa_query_timeout()
\* deauthenticates, whatever AP it is with by then.
StationStays ==
    [][SameKey /\ StaQueryTimer /\ sta'.key = NoKey => sta.query.carried]_vars

\* The comeback time is long enough: a station that waits for it is refused by
\* one and the same query twice at most.
ComebackSuffices == sta.rejects <= 2

\* A station that has lost its association gets a new one, although the AP
\* refuses it until the query has timed out.
LostStationReturns == sta.state # "completed" ~> sta.state = "completed"

\* A station whose PTK the AP does not have (or no longer) does not stay so:
\* it notices by an unanswered SA Query, or a new handshake gives both a PTK.
MismatchResolved ==
    sta.state = "completed" /\ ~SameKey ~> sta.state # "completed" \/ SameKey
=============================================================================
