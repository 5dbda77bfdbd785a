------------------------------ MODULE SaeAuth -------------------------------
(***************************************************************************)
(* SAE between two nodes over a link that loses frames: two mesh nodes, of *)
(* which one may stop for good, or an AP and a station.                    *)
(***************************************************************************)
EXTENDS SaeStation

VARIABLE silent    \* nodes that have stopped for good

vars == <<peerVars, sme, silent>>

Init == PeerInit /\ SmeInit /\ silent = {}

\* The link loses the frame that is next for p.
Lose(p) ==
    /\ chan[p] # << >> /\ Disturbance
    /\ chan' = [chan EXCEPT ![p] = Tail(@)]
    /\ UNCHANGED <<conf, node, pmksa, pending, required, fresh, refused, sme, silent>>

\* Node p crashes or goes out of range, between any two of its steps; from then
\* on nothing reaches it and it sends nothing.  Bound: the other node has a commit
\* scalar left for every frame it still has to read.
GoSilent(p) ==
    /\ p \in conf.stops \ silent
    /\ fresh[Other(p)] + Len(chan[Other(p)]) + Len(pending[Other(p)]) <= conf.commits
    /\ silent' = silent \cup {p}
    /\ UNCHANGED <<peerVars, sme>>
Unheard(p) ==
    /\ p \in silent /\ chan[p] # << >>
    /\ chan' = [chan EXCEPT ![p] = << >>]
    /\ UNCHANGED <<conf, node, pmksa, pending, required, fresh, refused, faults, sme, silent>>

Next ==
    \/ \E p \in Nodes \ silent : PeerNext(p) /\ UNCHANGED <<sme, silent>>
    \/ SmeNext /\ UNCHANGED silent
    \/ \E p \in Nodes : Lose(p) \/ GoSilent(p) \/ Unheard(p)

Spec == Init /\ [][Next]_vars

\* The event loop of a node runs on: a frame that is not lost is received, a
\* registered timeout fires, and the driver reports a mesh peer whose beacons it
\* hears.  That is asked of the nodes that have not stopped; a node may stop, and
\* need not.
Progress(p) ==
    /\ conf.patient \/ conf.stops # {}
    /\ p \notin silent
    /\ PeerRx(p) \/ PeerTimer(p) \/ NewMeshPeer(p)
Fairness ==
    \A p \in Nodes :
        WF_vars((Progress(p) /\ UNCHANGED <<sme, silent>>) \/ Unheard(p))
FairSpec == Spec /\ Fairness

(***************************************************************************)
(* Properties.                                                             *)
(***************************************************************************)

\* Types of struct sta_info, struct sae_data, the station's SME data and the
\* frames under way.
DataTypeOK ==
    /\ conf \in Configs /\ sme \in SmeType
    /\ node \in [Nodes -> NodeType]
    /\ pmksa \in [Nodes -> SUBSET Scalars]
    /\ pending \in [Nodes -> Seq(SaeFrames)] /\ chan \in [Nodes -> Seq(SaeFrames)]
    /\ required \in [Nodes -> BOOLEAN] /\ refused \in [Nodes -> BOOLEAN]
    /\ fresh \in [Nodes -> Nat] /\ faults \in Nat

\* Type invariant: those types, and the nodes that have stopped are nodes.
TypeOK == DataTypeOK /\ silent \in SUBSET Nodes

\* p has accepted with the PMK of an exchange, not one from its PMKSA cache: a
\* Confirm of an exchange that was forgotten ends the use of the cache and
\* leaves the peer accepted with the old PMK, which AMPE then refuses.
Accepted(p) ==
    IF p = 2 /\ Station THEN sme.sae.state = "ACCEPTED"
    ELSE node[p].sae.state = "ACCEPTED" /\ ~node[p].sae.cached
Pmk(p) == IF p = 2 /\ Station THEN sme.sae.pmk ELSE node[p].sae.pmk

\* When both ends have accepted (sae_accept_sta, sme_sae_auth), they have the
\* same PMK, although Commits and Confirms cross, are repeated with new scalars
\* and are parsed into the same data before it is known whether they count.
SaeKeyAgreement == Accepted(1) /\ Accepted(2) => Pmk(1) = Pmk(2)

SentFrames == UNION {{chan[p][i] : i \in DOMAIN chan[p]} : p \in Nodes}

\* A mesh with tokens is the subject of TokenCommitComplete: what follows the
\* first Commit without a scalar says nothing.
MeshTokens == conf.mesh /\ \E p \in Nodes : conf.clogging[p]

\* No Commit or Confirm is written from data that is not there: sae_write_commit
\* and sae_write_confirm use the scalar, the KCK and the peer's scalar without
\* checking more than sae->tmp.
FramesComplete ==
    ~MeshTokens =>
        \A f \in SentFrames : f.status = "OK" =>
            /\ f.scalar # NoScalar
            /\ f.trans = 2 => f.kck # NoKey /\ f.peer_scalar # NoScalar

\* The answer to a token request repeats "the commit-scalar and COMMIT-ELEMENT
\* previously sent" (comment in handle_auth_sae), so there is one.
TokenCommitComplete ==
    \A f \in SentFrames : f.status = "OK" /\ f.token => f.scalar # NoScalar

\* A repeated Commit of the exchange that was accepted does not take the peer out
\* of ACCEPTED, in a mesh by ap_free_sta() (IEEE 802.11, 11.3.8.6.1, quoted in
\* sae_parse_commit_scalar).
AcceptedStays ==
    [][ \A p \in Nodes :
            /\ Gets(p) /\ chan'[p] = Tail(chan[p]) /\ node[p].sae.state = "ACCEPTED"
            /\ Rx(p).trans = 1 /\ Rx(p).status = "OK"
            /\ Rx(p).scalar \in node[p].sae.pmk /\ ~node[p].sae.cached
            /\ Rx(p).group = node[p].sae.group
            => node'[p].sae.state = "ACCEPTED" ]_vars

Exchanging(p) == node[p].known /\ node[p].sae.state \in {"COMMITTED", "CONFIRMED"}

\* A mesh node whose peer has stopped, at whatever moment of the exchange, does
\* not stay in COMMITTED or CONFIRMED: auth_sae_retransmit_timer() counts its
\* retransmissions and sae_check_big_sync() gives up after dot11RSNASAESync of
\* them.  (The exception is MeshCompletes's: a driver that refused to send has
\* left the exchange without a timer.)
SilentPeerEnds ==
    \A p \in Nodes :
        conf.mesh /\ Other(p) \in silent /\ Exchanging(p)
            ~> ~Exchanging(p) \/ refused[p]

Agreed == /\ \A p \in Nodes : node[p].known /\ node[p].sae.state = "ACCEPTED"
          /\ node[1].sae.pmk = node[2].sae.pmk

\* With timers longer than a round trip and a frame lost, two mesh nodes that go
\* on, of which at least one starts by itself, both accept, whichever frames cross,
\* and stay so, unless a driver refuses to send: then no timer is left
\* (auth_sae_init_committed and sae_sm_step return before they set one).
MeshCompletes ==
    conf.mesh /\ conf.patient /\ conf.stops = {} /\ (\E p \in Nodes : conf.auto[p])
        ~> [](Agreed \/ \E p \in Nodes : refused[p])
=============================================================================
