------------------------------ MODULE SaePeer -------------------------------
(***************************************************************************)
(* SAE of hostapd and of a mesh node, src/ap/ieee802_11.c with the mesh    *)
(* callers in wpa_supplicant/mesh_rsn.c: what node p keeps of its peer     *)
(* (struct sta_info) and how Authentication frames and timers change it.   *)
(*                                                                         *)
(* The nodes are 1 and 2.  In a mesh both run this code.  In an            *)
(* infrastructure BSS node 1 is the AP and node 2 a station (SaeStation).  *)
(* The link keeps frames in order and may lose them; a full queue also     *)
(* loses what is sent.                                                     *)
(***************************************************************************)
EXTENDS SaeData

CONSTANTS
    Configs,     \* configurations, one of which holds in a behaviour
    SaeSync,     \* conf->sae_sync
    AuthRetry,   \* MESH_AUTH_RETRY
    MaxQueue     \* bound: frames under way to a node

Nodes == {1, 2}
Other(p) == 3 - p

ASSUME SaeConfigAssumption ==
    \A c \in Configs :
        /\ c.mesh \in BOOLEAN
        /\ c.patient \in BOOLEAN            \* timers are longer than a round trip
        /\ c.faults \in Nat                 \* bound: faults, see the variable
        /\ c.commits \in Nat                \* bound: commit scalars made by a node
        /\ c.auto \in [Nodes -> BOOLEAN]    \* mesh: no no_auto_peer
        /\ c.stops \in SUBSET Nodes         \* nodes that may stop for good
        /\ c.clogging \in [Nodes -> BOOLEAN]  \* tokens may be asked for
        /\ \A p \in Nodes : c.groups[p] \in Seq(Nat \ {0}) /\ c.groups[p] # << >>
ASSUME SaeBoundsAssumption ==
    /\ SaeSync \in Nat /\ AuthRetry \in Nat /\ MaxQueue \in Nat

VARIABLES
    conf,     \* the configuration
    node,     \* node[p]: struct sta_info of the peer at p
    pmksa,    \* pmksa[p]: the PMKSA cache entry for the peer at p
    pending,  \* pending[p]: hapd->mesh_pending_auth, as a sequence
    required, \* required[p]: hapd->mesh_required_peer is the peer
    chan,     \* chan[p]: frames on the way to p
    fresh,    \* fresh[p]: commit scalars p has made
    refused,  \* refused[p]: the driver of p has refused a frame
    faults    \* faults so far: frames lost, refused by the driver or sent
              \*   twice, outdated tokens, early timers, peers removed

peerVars == <<conf, node, pmksa, pending, required, chan, fresh, refused, faults>>

NodeType ==
    [known : BOOLEAN,         \* the entry exists
     has_sae : BOOLEAN, sae : SaeType,
     timer : BOOLEAN,         \* auth_sae_retransmit_timer registered
     auth_timer : BOOLEAN,    \* mesh_auth_timer registered
     sae_auth_retry : Nat,
     caching : BOOLEAN,       \* mesh_sae_pmksa_caching
     blocked : BOOLEAN]       \* plink_state is PLINK_BLOCKED

NoNode == [known |-> FALSE, has_sae |-> FALSE, sae |-> NewSae, timer |-> FALSE,
           auth_timer |-> FALSE, sae_auth_retry |-> 0, caching |-> FALSE,
           blocked |-> FALSE]

PeerInit ==
    /\ conf \in Configs
    /\ node = [p \in Nodes |-> NoNode]
    /\ pmksa = [p \in Nodes |-> NoKey]
    /\ pending = [p \in Nodes |-> << >>] /\ chan = [p \in Nodes |-> << >>]
    /\ required = [p \in Nodes |-> FALSE]
    /\ fresh = [p \in Nodes |-> 0] /\ refused = [p \in Nodes |-> FALSE]
    /\ faults = 0

Groups(p) == {conf.groups[p][i] : i \in DOMAIN conf.groups[p]}
NextScalar(p) == <<p, fresh[p] + 1>>
MoreCommits(p) == fresh[p] < conf.commits
Queue(q, frames) ==
    LET s == q \o frames IN IF Len(s) > MaxQueue THEN SubSeq(s, 1, MaxQueue) ELSE s

(***************************************************************************)
(* sae_sm_step().  A step gives the new entry, the frames that went out    *)
(* and whether it succeeded: the driver takes the first k frames.          *)
(***************************************************************************)
Step(r, d, frames, ok) == [r |-> [r EXCEPT !.sae = d], out |-> frames, ok |-> ok]

Stopped(r) == [r EXCEPT !.timer = FALSE]
\* sae_set_retransmit_timer().
Armed(r) == [r EXCEPT !.timer = conf.mesh]

\* Without "sta->sae->sync++": sae_check_big_sync() never has anything to stop.
FaultSyncError(d) == d

\* What auth_sae_retransmit_timer() and sae_sm_step() count before they repeat a
\* frame.
SyncError(d) == [d EXCEPT !.sync = @ + 1]

\* sae_check_big_sync().
BigSync(d) == d.sync > SaeSync
Desynchronized(d) == [d EXCEPT !.state = "NOTHING", !.sync = 0]

\* sae_accept_sta(); in a mesh WPA_AUTH also cancels mesh_auth_timer.
Accept(r, d) ==
    [r EXCEPT !.sae = [d EXCEPT !.state = "ACCEPTED"], !.auth_timer = FALSE]

\* Commit received: d.peer_commit_scalar is its scalar, s a new one made by
\* sae_prepare_commit() when auth_sae_send_commit() is called with update.
SmCommit(r, s, k) ==
    LET d == r.sae
        u == [d EXCEPT !.own_commit_scalar = s]
        c == ProcessCommit([u EXCEPT !.state = "COMMITTED"])
        e == SyncError(u)
        f == ProcessCommit(e)
        g == ProcessCommit(d)
    IN CASE d.state \in {"NOTHING", "ACCEPTED"} /\ ~conf.mesh ->
              IF k = 0 THEN Step(r, u, << >>, FALSE)
              ELSE Step(r, [c EXCEPT !.sync = 0], <<CommitFrame(u, u.token)>>, TRUE)
         [] d.state = "NOTHING" /\ conf.mesh ->
              IF k = 0 THEN Step(r, u, << >>, FALSE)
              ELSE IF k = 1 THEN Step(r, Confirmed(c), <<CommitFrame(u, u.token)>>, FALSE)
              ELSE Step(Armed(r),
                        [Confirmed(c) EXCEPT !.state = "CONFIRMED", !.sync = 0],
                        <<CommitFrame(u, u.token), ConfirmFrame(c)>>, TRUE)
         [] d.state = "COMMITTED" ->
              IF k = 0 THEN Step(Stopped(r), Confirmed(g), << >>, FALSE)
              ELSE Step(Armed(r),
                        [Confirmed(g) EXCEPT !.state = "CONFIRMED", !.sync = 0],
                        <<ConfirmFrame(g)>>, TRUE)
         [] d.state = "CONFIRMED" ->
              IF BigSync(d) THEN Step(Stopped(r), Desynchronized(d), << >>, TRUE)
              ELSE IF k = 0 THEN Step(Stopped(r), e, << >>, FALSE)
              ELSE IF k = 1 THEN Step(Stopped(r), Confirmed(f),
                                      <<CommitFrame(e, e.token)>>, FALSE)
              ELSE Step(Armed(r), Confirmed(f),
                        <<CommitFrame(e, e.token), ConfirmFrame(f)>>, TRUE)
         [] d.state = "ACCEPTED" /\ conf.mesh ->       \* ap_free_sta()
              [r |-> NoNode, out |-> << >>, ok |-> TRUE]

NeedsScalar(d) ==
    d.state \in {"NOTHING", "CONFIRMED"} \/ (d.state = "ACCEPTED" /\ ~conf.mesh)

\* Confirm received, and verified where the caller verifies it.
SmConfirm(r, k) ==
    LET d == r.sae IN
    CASE d.state = "NOTHING" -> Step(r, d, << >>, TRUE)
      [] d.state = "COMMITTED" /\ conf.mesh ->
           IF BigSync(d) THEN Step(Stopped(r), Desynchronized(d), << >>, TRUE)
           ELSE IF k = 0 THEN Step(Stopped(r), SyncError(d), << >>, FALSE)
           ELSE Step(Armed(r), SyncError(d), <<CommitFrame(d, d.token)>>, TRUE)
      [] d.state = "COMMITTED" /\ ~conf.mesh ->
           IF k = 0 THEN Step(r, Confirmed(d), << >>, FALSE)
           ELSE [r |-> Accept(r, [d EXCEPT !.send_confirm = U16Max]),
                 out |-> <<ConfirmFrame(d)>>, ok |-> TRUE]
      [] d.state = "CONFIRMED" ->
           [r |-> Accept(Stopped(r), [d EXCEPT !.send_confirm = U16Max]),
            out |-> << >>, ok |-> TRUE]
      [] d.state = "ACCEPTED" ->
           IF BigSync(d) THEN Step(r, Desynchronized(d), << >>, TRUE)
           ELSE Step(r, ClearTempData(Confirmed(SyncError(d))),
                     IF k = 0 THEN << >> ELSE <<ConfirmFrame(d)>>, k > 0)

(***************************************************************************)
(* handle_auth() and handle_auth_sae().                                    *)
(***************************************************************************)
Runs(p) == conf.mesh \/ p = 1
Gets(p) == Runs(p) /\ chan[p] # << >>
Rx(p) == Head(chan[p])

\* The entry once the frame has got past the first checks: allocated, and use
\* of mesh PMKSA caching cancelled with its cache entry.
Entry(p) == [node[p] EXCEPT !.known = TRUE, !.has_sae = TRUE, !.caching = FALSE]
Cached(p) == IF node[p].caching THEN NoKey ELSE pmksa[p]

\* The frame has been handled: r is the entry, frames are sent.
Handled(p, r, frames) ==
    /\ node' = [node EXCEPT ![p] = r]
    /\ chan' = [chan EXCEPT ![p] = Tail(@), ![Other(p)] = Queue(@, frames)]
    /\ fresh' = [fresh EXCEPT ![p] =
                   IF r.sae.own_commit_scalar = NextScalar(p) THEN @ + 1 ELSE @]
    /\ UNCHANGED <<conf, pending, required>>
HandledQuietly(p, r, frames) ==
    /\ Handled(p, r, frames)
    /\ pmksa' = [pmksa EXCEPT ![p] = Cached(p)]
    /\ UNCHANGED <<refused, faults>>

Disturbance == faults < conf.faults /\ faults' = faults + 1
SendRefused(p) == Disturbance /\ refused' = [refused EXCEPT ![p] = TRUE]

\* The result of a step: a PMKSA is added for an accepted peer.  The address of
\* a freed peer is read after the free, so its PMKSA may or may not be found.
StepHandled(p, step) ==
    LET accepted == step.r.sae.state = "ACCEPTED" /\ node[p].sae.state # "ACCEPTED"
        failure == IF step.ok THEN << >>
                   ELSE <<Refusal(Rx(p).trans, "UNSPECIFIED_FAILURE", 0)>>
    IN /\ Handled(p, step.r, step.out \o failure)
       /\ \/ /\ step.r.known
             /\ pmksa' = [pmksa EXCEPT ![p] =
                            IF accepted THEN step.r.sae.pmk ELSE Cached(p)]
          \/ /\ ~step.r.known
             /\ \E key \in {NoKey, Cached(p)} : pmksa' = [pmksa EXCEPT ![p] = key]
       /\ \/ step.ok /\ UNCHANGED <<refused, faults>>
          \/ ~step.ok /\ SendRefused(p)

\* A mesh peer that is not known yet: the frame is put aside.  Of a blocked
\* one it is dropped.
RxNotPeer(p) ==
    /\ Gets(p) /\ conf.mesh
    /\ \/ ~node[p].known /\ pending' = [pending EXCEPT ![p] = <<Rx(p)>>]
       \/ node[p].known /\ node[p].blocked /\ UNCHANGED pending
    /\ chan' = [chan EXCEPT ![p] = Tail(@)]
    /\ UNCHANGED <<conf, node, pmksa, required, fresh, refused, faults>>

Hears(p) ==
    /\ Gets(p)
    /\ conf.mesh => node[p].known /\ ~node[p].blocked
    /\ node[p].has_sae \/ (Rx(p).trans = 1 /\ Rx(p).status = "OK")

\* Nothing but a Commit starts an exchange.
RxWithoutSae(p) ==
    /\ Gets(p) /\ (conf.mesh => node[p].known)
    /\ ~node[p].has_sae /\ ~(Rx(p).trans = 1 /\ Rx(p).status = "OK")
    /\ HandledQuietly(p, [node[p] EXCEPT !.known = TRUE], << >>)

Refused(p) == Hears(p) /\ Rx(p).status # "OK"

\* ANTI_CLOGGING_TOKEN_REQ in a mesh: the same commit is sent with the token.
RxTokenRequest(p) ==
    LET g == Rx(p).group
        d == GroupData(Entry(p).sae, Groups(p), g)
        status == GroupStatus(Entry(p).sae, Groups(p), g)
        t == [d EXCEPT !.token = TRUE]
    IN /\ Refused(p) /\ Rx(p).status = "TOKEN_REQ"
       /\ conf.mesh /\ node[p].sae.tmp
       /\ \/ /\ status = "OK"
             /\ HandledQuietly(p, [Armed(Entry(p)) EXCEPT
                                     !.sae = [t EXCEPT !.state = "COMMITTED", !.sync = 0]],
                               <<CommitFrame(t, TRUE)>>)
          \/ /\ status = "OK" /\ SendRefused(p)
             /\ Handled(p, [Entry(p) EXCEPT !.sae = t], << >>)
             /\ pmksa' = [pmksa EXCEPT ![p] = Cached(p)]
          \/ /\ status # "OK"
             /\ HandledQuietly(p, [Entry(p) EXCEPT !.sae = d], <<Refusal(1, status, 0)>>)

\* sae_pick_next_group(): the group after the present one, if there is one.
NextGroups(p, g) ==
    {conf.groups[p][i + 1] : i \in {j \in DOMAIN conf.groups[p] :
        conf.groups[p][j] = g /\ j < Len(conf.groups[p])}}

\* FINITE_CYCLIC_GROUP_NOT_SUPPORTED in a mesh; no Commit is sent for the new
\* group.
RxGroupRefused(p) ==
    /\ Refused(p) /\ Rx(p).status = "GROUP_NOT_SUPPORTED" /\ Rx(p).trans = 1
    /\ conf.mesh /\ node[p].sae.tmp
    /\ \/ /\ node[p].sae.state = "COMMITTED"
          /\ \E g \in NextGroups(p, node[p].sae.group) :
               HandledQuietly(p, [Entry(p) EXCEPT !.sae = SetGroup(@, g)], << >>)
       \/ /\ node[p].sae.state # "COMMITTED" \/ NextGroups(p, node[p].sae.group) = {}
          /\ HandledQuietly(p, Entry(p), << >>)

\* Every other refusal is ignored.
RxRefusal(p) ==
    /\ Refused(p)
    /\ \/ ~conf.mesh \/ ~node[p].sae.tmp \/ Rx(p).trans = 2
       \/ Rx(p).status \notin {"TOKEN_REQ", "GROUP_NOT_SUPPORTED"}
    /\ HandledQuietly(p, Entry(p), << >>)

\* An infrastructure AP forgets an unfinished exchange when a new Commit comes.
BeforeParse(d) == IF ~conf.mesh /\ d.state = "COMMITTED" THEN NewSae ELSE d

TokenAsked(d) == IF conf.mesh THEN [d EXCEPT !.state = "NOTHING"] ELSE d

RxCommit(p) ==
    LET f == Rx(p)
        d == BeforeParse(Entry(p).sae)
        status == ParseStatus(d, Groups(p), f)
        r == [Entry(p) EXCEPT !.sae = ParseData(d, Groups(p), f)]
        ask == ~f.token /\ conf.clogging[p]
    IN /\ Hears(p) /\ f.trans = 1 /\ f.status = "OK"
       /\ \/ /\ status # "OK"
             /\ HandledQuietly(p, r, <<Refusal(1, status, 0)>>)
          \/ /\ f.token /\ Disturbance /\ UNCHANGED refused
             /\ GroupStatus(d, Groups(p), f.group) = "OK"
             /\ Handled(p, r, << >>)                \* the token is out of date
             /\ pmksa' = [pmksa EXCEPT ![p] = Cached(p)]
          \/ /\ status = "OK" /\ ask
             /\ HandledQuietly(p, [r EXCEPT !.sae = TokenAsked(@)],
                               <<Refusal(1, "TOKEN_REQ", r.sae.group)>>)
          \/ /\ status = "OK"
             /\ NeedsScalar(r.sae) => MoreCommits(p)
             /\ \E step \in {SmCommit(r, NextScalar(p), k) : k \in 0 .. 2} : StepHandled(p, step)

\* An accepted peer ignores every Confirm.
FaultStaleConfirm(d, f) == d.state = "ACCEPTED"

\* A Confirm an accepted peer has sent before, or its answer to one.
StaleConfirm(d, f) ==
    d.state = "ACCEPTED" /\ (f.send_confirm <= d.rc \/ f.send_confirm = U16Max)

RxConfirm(p) ==
    LET f == Rx(p)
        r == Entry(p)
        d == r.sae
        checked == d.state \in {"CONFIRMED", "ACCEPTED"} \/ ~conf.mesh
        seen == IF checked THEN [r EXCEPT !.sae.rc = f.send_confirm] ELSE r
    IN /\ Hears(p) /\ f.trans = 2 /\ f.status = "OK"
       /\ \/ /\ checked /\ StaleConfirm(d, f)
             /\ HandledQuietly(p, r, << >>)
          \/ /\ checked /\ ~StaleConfirm(d, f) /\ ~CheckConfirm(d, f)
             /\ HandledQuietly(p, r, <<Refusal(2, "UNSPECIFIED_FAILURE", 0)>>)
          \/ /\ checked => ~StaleConfirm(d, f) /\ CheckConfirm(d, f)
             /\ \E step \in {SmConfirm(seen, k) : k \in 0 .. 2} : StepHandled(p, step)

PeerRx(p) ==
    \/ RxNotPeer(p) \/ RxWithoutSae(p) \/ RxTokenRequest(p) \/ RxGroupRefused(p)
    \/ RxRefusal(p) \/ RxCommit(p) \/ RxConfirm(p)

(***************************************************************************)
(* Timers, and the mesh code that starts and ends exchanges.               *)
(***************************************************************************)

\* A timer that fires while a frame is under way is early.  A patient node has
\* found its peer, and been found, before its timers fire, unless one may stop.
LinkIdle == \A p \in Nodes : chan[p] = << >>
BothKnown == conf.stops # {} \/ \A p \in Nodes : node[p].known
OnTime == LinkIdle /\ UNCHANGED faults /\ (conf.patient => BothKnown)
Early == ~LinkIdle /\ ~conf.patient /\ Disturbance

Sent(p, r, frames) ==
    /\ node' = [node EXCEPT ![p] = r]
    /\ chan' = [chan EXCEPT ![Other(p)] = Queue(@, frames)]
    /\ fresh' = [fresh EXCEPT ![p] =
                   IF r.sae.own_commit_scalar = NextScalar(p) THEN @ + 1 ELSE @]
    /\ UNCHANGED conf

\* auth_sae_retransmit_timer().
RetransmitTimer(p) ==
    LET r == node[p]
        d == r.sae
        e == SyncError(d)
    IN /\ r.timer /\ (OnTime \/ Early)
       /\ \/ /\ BigSync(d)
             /\ Sent(p, [Stopped(r) EXCEPT !.sae = Desynchronized(d)], << >>)
          \/ /\ ~BigSync(d) /\ d.state = "COMMITTED"
             /\ Sent(p, [r EXCEPT !.sae = e], <<CommitFrame(e, e.token)>>)
          \/ /\ ~BigSync(d) /\ d.state = "CONFIRMED"
             /\ Sent(p, [r EXCEPT !.sae = Confirmed(e)], <<ConfirmFrame(e)>>)
          \/ /\ ~BigSync(d) /\ d.state \in {"NOTHING", "ACCEPTED"}
             /\ Sent(p, [Stopped(r) EXCEPT !.sae = e], << >>)
       /\ UNCHANGED <<pmksa, pending, required, refused>>

\* mesh_rsn_auth_sae_sta(): with a PMKSA no exchange is started.
MeshAuth(p, r) ==
    LET d == [SetGroup(r.sae, conf.groups[p][1]) EXCEPT !.own_commit_scalar = NextScalar(p)]
        c == [d EXCEPT !.state = "COMMITTED"]
        new == [r EXCEPT !.has_sae = TRUE, !.caching = FALSE]
    IN \/ /\ pmksa[p] # NoKey
          /\ Sent(p, [Accept(new, [r.sae EXCEPT !.pmk = pmksa[p], !.cached = TRUE]) EXCEPT
                        !.caching = TRUE], << >>)
          /\ UNCHANGED <<refused, faults>>
       \/ /\ pmksa[p] = NoKey /\ MoreCommits(p)
          /\ Sent(p, [Armed(new) EXCEPT !.sae = c, !.auth_timer = TRUE],
                  <<CommitFrame(d, FALSE)>>)
          /\ UNCHANGED <<refused, faults>>
       \/ /\ pmksa[p] = NoKey /\ MoreCommits(p)
          /\ Sent(p, [new EXCEPT !.sae = d], << >>)
          /\ SendRefused(p)

\* wpa_mesh_new_mesh_peer(): with no_auto_peer, and not asked to connect, a frame
\* put aside is handled, unless it is too old.  Here it comes first in the queue
\* of p, so that p handles it before any other frame; that a step of the other
\* node or a timer may come in between is more than the code can do.
NewMeshPeer(p) ==
    LET r == [NoNode EXCEPT !.known = TRUE]
        starts == conf.auto[p] \/ required[p]
    IN /\ conf.mesh /\ ~node[p].known
       /\ \/ starts /\ MeshAuth(p, r) /\ UNCHANGED pending
          \/ /\ ~starts
             /\ \E late \in {<< >>, pending[p]} :
                  chan' = [chan EXCEPT ![p] = Queue(late, @)]
             /\ node' = [node EXCEPT ![p] = r]
             /\ pending' = [pending EXCEPT ![p] = << >>]
             /\ UNCHANGED <<conf, fresh, refused, faults>>
       /\ UNCHANGED <<pmksa, required>>

\* mesh_mpm_connect_peer(), and peer_add_timer().
ConnectPeer(p) ==
    /\ conf.mesh /\ node[p].known /\ ~conf.auto[p] /\ ~conf.patient
    /\ node[p].sae.state = "NOTHING"
    /\ MeshAuth(p, node[p])
    /\ required' = [required EXCEPT ![p] = TRUE]
    /\ UNCHANGED <<pmksa, pending>>
PeerAddTimer(p) ==
    /\ required[p] /\ required' = [required EXCEPT ![p] = FALSE]
    /\ UNCHANGED <<conf, node, pmksa, pending, chan, fresh, refused, faults>>

\* mesh_auth_timer(): another try, then the peer is blocked, then forgotten.
MeshAuthTimer(p) ==
    LET r == [node[p] EXCEPT !.auth_timer = FALSE, !.sae_auth_retry = @ + 1]
        tries == node[p].sae_auth_retry
    IN /\ node[p].auth_timer
       /\ LinkIdle /\ (conf.patient => ~node[p].timer /\ BothKnown)
       /\ node[p].sae.state # "ACCEPTED"
       /\ \/ tries < AuthRetry /\ MeshAuth(p, r)
          \/ /\ tries = AuthRetry
             /\ Sent(p, [r EXCEPT !.blocked = TRUE, !.sae.state = "NOTHING"], << >>)
             /\ UNCHANGED <<refused, faults>>
          \/ /\ tries > AuthRetry
             /\ Sent(p, NoNode, << >>) /\ UNCHANGED <<refused, faults>>
       /\ UNCHANGED <<pmksa, pending, required>>

\* mesh_mpm_plink_estab(): AMPE has shown that both use the same PMK.
PlinkEstab(p) ==
    /\ conf.mesh /\ node[p].caching
    /\ \A q \in Nodes : node[q].known /\ node[q].sae.state = "ACCEPTED"
    /\ node[1].sae.pmk = node[2].sae.pmk
    /\ node' = [node EXCEPT ![p].caching = FALSE]
    /\ UNCHANGED <<conf, pmksa, pending, required, chan, fresh, refused, faults>>

\* ap_free_sta() for inactivity or, in a mesh, when peering has failed or was
\* closed: the holding timer then removes a cached PMKSA that was of no use.
FreePeer(p) ==
    /\ Runs(p) /\ node[p].known /\ ~conf.patient /\ Disturbance
    /\ node' = [node EXCEPT ![p] = NoNode]
    /\ \E key \in {pmksa[p], Cached(p)} : pmksa' = [pmksa EXCEPT ![p] = key]
    /\ UNCHANGED <<conf, pending, required, chan, fresh, refused>>

PeerTimer(p) == RetransmitTimer(p) \/ MeshAuthTimer(p)
PeerNext(p) ==
    \/ PeerRx(p) \/ PeerTimer(p) \/ NewMeshPeer(p) \/ ConnectPeer(p)
    \/ PeerAddTimer(p) \/ PlinkEstab(p) \/ FreePeer(p)
=============================================================================
