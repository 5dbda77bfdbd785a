# A TLA+ model of hostapd and wpa_supplicant

This project models the security state machines of hostapd and wpa_supplicant
as they are in `src/hostap`: the ones that decide who has which key, and when.
Every definition is translated from the C code, and `PROJECT.json` maps it to
its lines. Paths below are relative to `src/hostap/src` unless they say
otherwise.

## 1. The system

### How it runs

Both programs are single-threaded. `eloop` (`utils/eloop.c`) calls one handler
at a time (a received frame, a registered timeout, a driver event, a command of
the control interface) and the handler runs to completion, including the
`wpa_sm_step()` loop that moves the state machines until nothing changes.
Concurrency is therefore

- between stations and access points, over a radio that loses, repeats, delays
  and reorders frames;
- between the handlers of one process, which run in any order and share state:
  the counter of a GTK rekey is changed by the handlers of all stations, and
  one timeout per station serves two state machines;
- between the sockets of one process: EAPOL frames and association events
  arrive on different sockets and overtake each other.

### Inventory

| Component | State it keeps | Operations | Hard behaviour | Correct when |
|---|---|---|---|---|
| Group key machine (`ap/wpa_auth.c`: `WPA_GROUP`, `WPA_PTK_GROUP`) | group state, `GKeyDoneStations`, two GTKs; per station group state, `GUpdateStationKeys`, try counter, timeouts | rekey, update of a station, 2/2, timeout, removal, WNM-Sleep exit, TKIP countermeasures | one counter changed in six places; overlapping rekeys; a shared timeout | the counter counts the marked stations; every rekey finishes; stations hold the GTK in use |
| Authenticator 4-way machine (`ap/wpa_auth.c`: `WPA_PTK`, `wpa_receive`) | state, nonces, PTK, replay counters of the last four frames, try counter, alternative SNonce | association events, 2/4, 4/4, EAPOL-Key Request, timeout, TX status, PTK rekey timer | late and repeated answers, SNonce updates, retries racing answers | both sides agree on the PTK, it is installed once, the handshake ends |
| Supplicant 4-way machine (`rsn_supp/wpa.c`) | SNonce and whether to renew it, temporary and current PTK, replay counter, GTK | 1/4, 3/4, 1/2, key request, association, disassociation | 1/4 has no MIC; 4/4 is sent before the keys are installed; reinstallation | as above; GTKs never go back |
| SAE (`common/sae.c`, `ap/ieee802_11.c`, `wpa_supplicant/sme.c`, `mesh_rsn.c`) | state NOTHING, COMMITTED, CONFIRMED, ACCEPTED; `sync`, `send_confirm`, `rc`; temporary data; token index | commit, confirm, token request, group refusal, retransmission timer, reauthentication | crossing commits and confirms, retransmissions, a Commit parsed into the data of a finished exchange, the anti-clogging threshold | both accept with the same PMK; no frame is written from missing data; retransmission ends |
| PMKSA caches (`ap/pmksa_cache_auth.c`, `rsn_supp/pmksa_cache.c`) | list ordered by expiry, count, expiry and reauthentication timeouts; pointers to the entry in use at both ends | add, replace, evict, expire, flush, remove, opportunistic copy, preauthentication | capacity limit, the current entry removed under its user, the entry named at association gone at message 1/4 | pointers point into the cache; both ends use the same PMK; entries expire in time |
| EAPOL state machines (`eapol_auth`, `eapol_supp`) and EAP (`eap_peer`, `eap_server`) | AUTH_PAE, BE_AUTH, REAUTH_TIMER; SUPP_PAE, SUPP_BE; the EAP machines; port timers | frames, per-second ticks, association, logoff, reauthentication, disconnection | machines that set each other's variables, stepped until stable; retransmissions and timeouts on both sides; one end starts over | the port is authorized only after success; both ends hold the same MSK; no authentication hangs |
| RADIUS client (`radius/radius_client.c`) | list of pending messages with retry times, current server | send, receive, timer, failover | answers to retransmitted or moved messages | every request is answered, retried or given up |
| SA Query (`ap/sta_info.c`, `ap/ieee802_11.c`, `ap/ieee802_11_shared.c`, `wpa_supplicant/sme.c`) | running query, its transaction ids, timeout, at either end | association request of a known station, start, retry, response, timeout, unprotected disconnection | late response against the timeout; a query that outlives its association | a live association is not torn down, a dead one is replaced |
| Station table, MLME (`ap/sta_info.c`, `ap/hostapd.c`) | stations, flags, inactivity timers | associate, poll, disassociate, deauthenticate, free | freeing a station that other machines refer to | association events reach `wpa_auth.c` in a legal order |
| Mesh peering (`wpa_supplicant/mesh_mpm.c`) | peer link machine, retry timer | open, confirm, close, timers | both peers act at once | links are established on both sides or closed |
| Fast transition, FILS, OWE, DPP, TDLS, IBSS RSN, WPS, P2P, FST, GAS, MACsec, RRM, VLANs | their own | their own | see `PROJECT.json` | not planned |
| eloop, drivers, cryptography, configuration, control interfaces | | | | environment of the models |

Interactions: the MLME (or the driver) reports Authentication, Association,
Reassociation and Deauthentication to `wpa_auth.c` (`wpa_auth_sm_event`,
`wpa_auth_sta_associated`) and to `wpa.c` (`wpa_sm_notify_assoc`,
`wpa_sm_notify_disassoc`). SAE, EAP or a PSK supply the PMK; the PMKSA caches
keep it, and an association names an entry by its PMKID. An association request
of a station that is associated with management frame protection starts an SA
Query instead. EAPOL and EAP exchange Boolean variables (`struct
eap_eapol_interface`, `struct eapol_sm`): the EAPOL machines run until stable,
then the EAP machine, and all of it again while anything changes. `WPA_PTK` and
`WPA_PTK_GROUP` of a station share the step function, the flags `TimeoutEvt`
and `EAPOLKeyReceived`, the replay counters and one kind of timeout.
`WPA_PTK_GROUP` of all stations and `WPA_GROUP` share `GKeyDoneStations`.

The hazards of the code, each at its line and with the properties that would
catch it going wrong, are listed in `PROJECT.json`.

## 2. Modules

| Module | Models |
|---|---|
| `GroupKey` | `struct wpa_group` and, for any set of stations, the group machine with as much of `WPA_PTK` as decides who takes part in a rekey |
| `GroupKey_proof` | its inductive invariants and theorems: the count, timeouts, GTKs |
| `EapolKey` | EAPOL-Key frames, the link and the replay counters, shared by both sides |
| `Authenticator` | `wpa_auth.c` for one station: `WPA_PTK`, `WPA_PTK_GROUP`, `wpa_receive()`, timers |
| `Supplicant` | `wpa.c`: `wpa_sm_rx_eapol()`, key installation, key requests, association |
| `FourWay` | one authenticator and one supplicant over the link, and the properties of the pair |
| `PairwiseKeys` | the abstract specification that `FourWay` implements |
| `FourWay_proof` | types and single installation, each end by itself |
| `FourWaySteps_proof` | what a step of `FourWay` does, in the few terms the other proofs are about |
| `FourWayKeys_proof` | the order of frames, agreement of the PTKs and the step simulation of `PairwiseKeys` |
| `SaeData` | `struct sae_data`, the frames, and what `common/sae.c` computes from them |
| `SaePeer` | SAE in `ap/ieee802_11.c` with its mesh callers: what a node keeps of its peer |
| `SaeStation` | SAE of a station, `wpa_supplicant/sme.c` |
| `SaeAuth` | two mesh nodes, or an AP and a station, and the properties of the pair |
| `SaeKeys_proof` | its inductive invariant and theorems |
| `SaQuery` | association requests and SA Query between an AP and a station |
| `SaQuery_proof` | its inductive invariants and theorems |
| `PmksaAuth`, `PmksaSupp` | the two caches with their pointers and timeouts, as operators on records |
| `Pmksa` | a station and the BSSs of APs from association to message 1/4 over both caches |
| `Pmksa_proof` | what each list operation does, its inductive invariant and theorems |
| `EapData` | EAP frames and what both ends share |
| `EapServer`, `EapPeer` | the two EAP machines with Identity and EAP-PSK, as operators on records |
| `EapolAuth`, `EapolSupp` | the 802.1X machines of either end around them, with their glue |
| `Eapol` | a station and an AP over a link that loses frames |
| `Eapol_proof` | what each machine does if the keys of the ends differ, and the theorem |
| `MC...` | instances of the specifications for TLC |

Definitions named `Fault...` are deliberate errors, each placed before the
definition it distorts. They are used to show that a property can fail: with
the distorted definition in place TLC reports a violation.

### GroupKey

Two stations suffice for the races of a rekey, and a station's 4-way handshake
matters only in so far as it moves the station in and out of the rekey, so this
module keeps little of it. `sm[s]` is the station's `struct wpa_state_machine`;
its fields have the names of the C code. Two sets stand for the frames: `msg3`
and `msg1of2` hold the generations of the GTKs carried by 3/4 and 1/2 frames
that may still be answered. `has_GTK` is a history of what the station
acknowledged, `txGTK` what the driver transmits with; 0 is a key that no station
is ever given.

An action is a callback with its step loop. `StepDone` is the end of that loop,
`wpa_group_sm_step()`: when the count has reached 0 the key is installed, or
the driver refuses it and every station is to be disconnected
(`wpa_group_fatal_failure`). That flag (`Disconnect`) is served by the next
step of each station, as in the code (`Settle`). A rekey that finds the key of the
last one drained and not yet installed installs it first, and may be refused then
(`KeyRefused`).

| Action | Code |
|---|---|
| `StaAssociated`, `StaAssociatedAgain` | `wpa_auth_sta_associated()` on a new or an old machine |
| `ReAuth`, `AuthEvent`, `Deauthenticate` | `wpa_auth_sm_event()` with `WPA_REAUTH`, `WPA_AUTH`/`WPA_ASSOC`, `WPA_DEAUTH`/`WPA_DISASSOC` |
| `StaDeinit` | `wpa_auth_sta_deinit()`, `wpa_free_sta_sm()` |
| `ReceiveMsg2of4`, `ReceiveMsg4of4`, `ReceiveMsg2of2` | `wpa_receive()` |
| `RequestNewPtk`, `RequestNewGtk` | EAPOL-Key Requests in `wpa_receive()` |
| `EapolTimeout`, `RekeyPtk`, `RekeyGtk` | the timers `wpa_send_eapol_timeout()`, `wpa_rekey_ptk()`, `wpa_rekey_gtk()` |
| `WnmSleepEnter`, `WnmSleepExit` | `wpa_set_wnmsleep()`, `wpa_wnmsleep_rekey_gtk()` |
| `TkipCountermeasures` | `ieee80211_tkip_countermeasures_start()`: `wpa_gtk_rekey()` and the removal of all stations |

`features` says which optional events may happen in a behaviour; it is chosen in
the initial state from `FeatureSets`. Without any of them stations join, answer,
fall silent and GTKs are rekeyed one at a time. `"leave"` adds removals,
deauthentications and TKIP countermeasures, the others overlapping rekeys, PTK
rekeys, reassociations, key requests, WNM-Sleep Mode and a driver that refuses
keys: `"keyfail"` where the code looks at the result, `"tkipfail"` in
`wpa_gtk_rekey()`, where it does not. A property names the features it is known not to survive; each such case
is a violated run or a note at a hazard.

### EapolKey, Authenticator, Supplicant, FourWay

A nonce is a number, a fresh one larger than all before it; a PTK is the pair of
nonces it is derived from; a MIC verifies if the frame was made with the same
PTK; a GTK is its generation. The PMK is the same on both sides.

The link (`net`) is the set of all frames ever sent. Receiving a frame does not
remove it, so loss, delay, repetition and reordering need no actions of their
own: a frame that is never received is lost, one received twice is repeated.
All frames come from the two programs.

`ap` and `sta` are the two `struct`s, with the C names. `ap.key_replay` and
`ap.prev_key_replay` are the four-entry arrays with the shift of
`__wpa_send_eapol()`, the search of `wpa_replay_counter_valid()` that stops at
the first invalid entry, and the two ways of invalidating. `ap.timers` counts
registered timeouts, because `wpa_send_eapol()` adds one to those pending.
`installs` and `gtk_installs` are histories of the keys given to the drivers.

| Action | Code |
|---|---|
| `ApNewSta`, `ApStaAssociatedAgain`, `ApReAuth`, `ApAuthEvent`, `ApDeauth` | `wpa_auth_sta_init()`, `wpa_auth_sta_associated()`, `wpa_auth_sm_event()` |
| `ApMsg2of4` | 2/4 for a pending 1/4; `PTKCALCNEGOTIATING` on to `PTKINITNEGOTIATING` |
| `ApMsg2of4Update` | 2/4 with a new SNonce after 3/4 was sent (the workaround for supplicants that change the SNonce) |
| `ApMsg4of4` | 4/4, with the alternative SNonce of `wpa_try_alt_snonce()`; `PTKINITDONE` or failure of the driver |
| `ApMsg2of2`, `ApRequest` | 2/2; EAPOL-Key Request for a PTK or a GTK |
| `ApTimeout`, `ApTxStatus`, `ApRekeyPtk`, `ApRekeyGtk` | the timers and the TX status of 1/4 |
| `StaNotifyAssoc`, `StaDisassoc` | `wpa_sm_notify_assoc()`, `wpa_sm_notify_disassoc()` |
| `StaMsg1of4`, `StaMsg3of4`, `StaMsg1of2`, `StaRequest` | `wpa_sm_rx_eapol()` and its handlers, `wpa_sm_key_request()` |

wpa_supplicant keeps its SNonce while 1/4 is repeated (policy `"keep"`).
`wpa_auth.c` also serves supplicants that do not; policies `"latest"` and
`"first"` are such supplicants, which derive the PTK from the last or the first
SNonce they sent. The policy is part of the station (`sta.policy`) and the initial
state picks one.

`RetryConfigs` is the set of values that `wpa_disable_eapol_key_retries` may
have; the initial state picks one.

`PairwiseKeys` says what all this is for, without frames, nonces or counters: the
station confirms a key that neither end ever used, the AP installs only a
confirmed key and only while the station has no other, each driver gets a key
once, either end may forget its key. `FourWay` instantiates it (`Keys`, with
the installed PTKs of both ends and the PTKs of the 4/4 frames sent as its
state). `KeysArePairwise` is the refinement, for behaviours of one association;
`StepsArePairwise` is its step simulation over any number of associations. There a
2/4 of an earlier association can send a handshake back from 3/4 to 1/4
(`WentBack`, finding 4), after which neither holds; see section 4.

### SaeData, SaePeer, SaeStation, SaeAuth

A commit scalar is the node and a number, an element is not told apart from its
scalar; the PMK and the KCK are the pair of scalars; a Confirm verifies if it was
made from the same KCK and scalars. `node[p]` is the `struct sta_info` that node
`p` has of its peer, `node[p].sae` its `struct sae_data`; `sme` is the station.
The link keeps the order of the frames to a node, may lose them and holds at
most `MaxQueue`. A behaviour has a configuration: mesh or infrastructure, which
nodes start by themselves, whether tokens may be asked for, the groups of both
nodes, how many frames are lost or timers early (`faults`), how many scalars are
made (`commits`), whether timers are longer than a round trip (`patient`), and
which nodes may stop for good (`stops`); `silent` are those that have.

| Action | Code |
|---|---|
| `RxCommit`, `RxConfirm`, `RxTokenRequest`, `RxGroupRefused`, `RxRefusal`, `RxNotPeer`, `RxWithoutSae` | `handle_auth_sae()` with `sae_sm_step()`, `sae_parse_commit()`, `sae_check_confirm()` |
| `RetransmitTimer` | `auth_sae_retransmit_timer()` |
| `NewMeshPeer`, `ConnectPeer`, `PeerAddTimer`, `MeshAuthTimer`, `PlinkEstab` | `wpa_mesh_new_mesh_peer()`, `mesh_mpm_connect_peer()`, `peer_add_timer()`, `mesh_auth_timer()`, `mesh_mpm_plink_estab()`, with `mesh_rsn_auth_sae_sta()` |
| `FreePeer` | `mesh_mpm_free_sta()` and `ap_free_sta()` |
| `GoSilent`, `Unheard` | a node crashes or goes out of range, at any moment; what is sent to it is lost |
| `SmeAuthenticate`, `SmeCommit`, `SmeConfirm`, `SmeTokenRequest`, `SmeGroupRefused`, `SmeRefused`, `SmeGivesUp`, `SmeRepeats` | `sme_authenticate()`, `sme_sae_auth()`, `sme_event_auth()`, `sme_event_auth_timed_out()`, `sme_auth_timer()`, and the driver's retransmission |

`cached`, beside the fields of the code, remembers that a node was accepted with
the PMK of a PMKSA entry and not of an exchange; the properties are about
exchanges. `MeshTokens` is a mesh that asks for tokens, where finding 5 lets a
Commit without a scalar out; `FramesComplete` leaves it to `TokenCommitComplete`.

A read of a station's address after `ap_free_sta()` (`ap/ieee802_11.c:756`) is
undefined; the model lets the PMKSA be removed or stay. A frame kept in
`mesh_pending_auth` is the next one that `NewMeshPeer` lets its node receive. In the
code it is received inside `wpa_mesh_new_mesh_peer()`, if it is less than 2 s old; in
the model a timer of the node or a step of the other one may come in between. The
model has every behaviour of the code there and some more, so that what is shown of
it holds of the code.

### SaQuery

A key names a PTK; a protected frame reaches only a receiver with the same one.
Time passes in ticks, a timeout that is due fires before the next tick. `env` is
a budget of lost or late frames (`faults`), unprotected requests and
disconnections that are not the other end's (`strays`), stations the AP drops
(`drops`) and failed allocations (`oom`). `carried` in a query remembers that
the query was begun before the present key.

| Action | Code |
|---|---|
| `HandleAuth`, `HandleAssoc`, `HandleAssocCb` | `handle_auth()`, `handle_assoc()` with `check_assoc_ies()`, `handle_assoc_cb()` |
| `ApQueryTimer`, `StaQueryTimer` | `ap_sa_query_timer()`, `sme_sa_query_timer()` with their timeout checks |
| `ApRx`, `StaRx` | `ieee802_11_sa_query_action()`, `sme_sa_query_rx()` and the driver's answer |
| `StaUnprotDisconnect` | `sme_event_unprot_disconnect()` |
| `KeyHandshake`, `HandshakeTimeout`, `ApDrops`, `StaAsks`, `StaGivesUp`, `StaDisassociates`, `StaDeauthenticates`, `StaRestarts` | what happens around it, as far as it changes the association |

### PmksaAuth, PmksaSupp, Pmksa

A PMK is a number and determines the PMKID of a pair of addresses. A cache is the
list with the remaining lifetime of its entries, the pending timeouts and, at the
AP, what `sm->pmksa` points to, at the station `cur_pmksa` and the PMK in use.
`conn` is the connection: the BSS, the stage, the entry named in the request and
the PMK with which the AP enters the handshake, and whether AUTH_PAE is in
AUTHENTICATED, since only entering that state caches the key
(`ieee802_1x_finished()`): a PTK rekey does not. A configuration says which BSSs
there are, which of them one AP serves (`local`), other stations, opportunistic
key caching, operator commands, lifetimes and the limits of both caches.

| Action | Code |
|---|---|
| `SmeAuthenticate`, `Associate` | `pmksa_cache_set_current()`, `wpa_find_assoc_pmkid()`, `wpa_validate_wpa_ie()` |
| `EapSuccess`, `Msg1`, `Complete` | `SM_STATE(WPA_PTK, INITPMK)` and `PTKSTART`, `wpa_supplicant_get_pmk()`, `wpa_supplicant_key_neg_complete()`, `ieee802_1x_finished()` |
| `Preauth`, `ScanResult` | `rsn_preauth_eapol_cb()`, `rsn_preauth_scan_result()` |
| `StaExpire`, `StaReauth`, `StaFlush`, `ApExpire`, `ApRemove`, `ApFlush`, `OtherAdds` | the cache operations of timers, commands and other stations |
| `ApReauth`, `ApPtkRekey`, `Disconnect` | a new EAP run, a new 4-way handshake, the end of the connection |

### EapData, EapServer, EapPeer, EapolAuth, EapolSupp, Eapol

`ap` and `sta` are the state of the two ends with the C names. A state entry
function is an operator of its name; `AuthPae`, `BeAuth`, `SuppPae`, `SuppBe`,
`EapStep` and `PeerStep` are the `SM_STEP` functions; `Pass` and `SuppPass` are
one turn of the loops in `eapol_sm_step_run()` and `eapol_sm_step()`, which step the
machines until nothing changes; `EapServerStep` and `EapPeerStep` are the loops of
the EAP machines. All are recursive functions of the number of turns, up to
`MaxSteps`; the code has the limit of 100 only for the first two, and `StepsEnd` says
that none of the four is ever stopped by it. An event is therefore one step of the specification, however many
transitions the machines take. States that only choose a successor
(INTEGRITY_CHECK, METHOD_REQUEST on to SEND_REQUEST) are folded into it. The
method is EAP-PSK: its MACs are the random values and the key they bind, the MSK
is the key and RAND_P. The server may first propose a method the station refuses
(Nak). Port control is Auto and no keys follow, so that the end of EAP is the
end of the authentication.

| Action | Code |
|---|---|
| `ApReceive`, `ApStep` | `ieee802_1x_receive()` sets variables; the machines run from a timeout of 0 (`eapol_auth_step()`), hence two actions |
| `ApTick`, `StaTick`, `Second` | `eapol_port_timers_tick()` of either end, or of both |
| `ApDelayedDisconnect`, `ApRemove` | `ap_sta_delayed_1x_auth_fail_cb()`, `ap_handle_timer()` |
| `StaReceive`, `StaTimeout` | `wpa_supplicant_rx_eapol()`, `wpa_supplicant_timeout()` |
| `Associate` | `hostapd_new_assoc_sta()` with `ieee802_1x_new_station()`, `wpa_supplicant_event_assoc()` |
| `Logoff`, `Logon`, `RequestReauth` | `eapol_sm_notify_logoff()`, `eapol_sm_request_reauth()` |
| `LoseDown`, `LoseUp`, `GoMute` | the link, and a station that is not heard any more |

Frames keep their order. A second passes at both ends when everything due has
been done; `early` is a budget of seconds that pass at one end before that, for
the races of a timer with a frame. Deauthentication frames are assumed to
arrive, and a new association comes after those of the old one.

## 3. Runs

All passing runs explore their state space completely. States are distinct
states.

| Run | Checks | States | Shows |
|---|---|---|---|
| `group_drain` | `TypeOK`, `MarkedStationIsInHandshake`, `EstablishedStationsHaveTxGtk`, `CountMatchesMarksAwake`, `MarkedStationIsRetried`, `RekeyDrains` | 353 593 | with silent stations, overlapping rekeys, removals, reassociations and refused keys the count is exact (but for WNM-Sleep Mode), a marked station is in its handshake, timeouts alone drain a rekey (if no other handshake takes them over), and the AP does not transmit with a GTK an established station has not acknowledged (if rekeys do not overlap and no key of TKIP countermeasures was refused) |
| `group_wnm_count` | `CountMatchesMarks` | violated | finding 1 |
| `group_ptk_rekey_drain` | `RekeyAlwaysDrains` | violated | finding 2 |
| `fourway_assoc` | `KeyAgreement`, `StationNotAhead`, `HandshakeHasTimer`, `StepsArePairwise` | 1 069 210 | two associations with all frames of the first still about: whoever finishes agrees, the station never waits for a counter that was not sent yet, a running handshake has a timeout, and every step is one of `PairwiseKeys` (unless the handshake went back to 1/4) |
| `fourway_rekey` | `TypeOK`, `PtkInstalledOnce`, `GtkNeverGoesBack`, `NoRetransmittedKeys`, `HandshakeEnds`, `KeysArePairwise` | 1 003 734 | PTK rekeys by timer and request and a GTK rekey, with and without disabled retries, with all three kinds of supplicant: no key is installed twice, every handshake ends although SNonce updates reset its try counter, and the whole implements `PairwiseKeys` |
| `fourway_stale_msg2` | `NoRetransmittedKeys` | violated | finding 4 |
| `fourway_gtk_request` | `HandshakeEnds` | violated | finding 3 |
| `sae` | `SaeKeyAgreement`, `FramesComplete`, `AcceptedStays`, `SilentPeerEnds`, `MeshCompletes` | 475 707 | whichever frames cross, are lost or repeated, nodes that have accepted agree on the PMK, frames are complete, a repeated Commit does not end an accepted exchange, a node whose peer has stopped gives up and two mesh nodes accept |
| `sae_token` | `TokenCommitComplete` | violated | finding 5 |
| `sa_query` | `ComebackSuffices`, `LiveAssociationKept`, `StationStays`, `LostStationReturns`, `MismatchResolved` | 289 857 | requests that are not the station's do not replace a live association, a station that lost its association gets a new one after the comeback time, and one that shares no key with its AP notices |
| `pmksa` | `NothingDangles`, `PmkAgreement`, `CurrentIsUsed`, `NoExpiredEntry`, `ExpiryScheduled`, `OneEntryPerStation`, `CurrentSpared` | 2 172 914 | caches that fill up, expire, are flushed and share PMKs while a station connects: no freed entry stays referenced, both ends use the same PMK, entries expire in time |
| `eapol` | `StepsEnd`, `OnlyGood`, `EapKeyAgreement`, `ApWaitsWithTimer`, `StaWaitsWithTimer`, `Completes`, `SilentStationLeaves` | 496 072 | losses, late timers, reauthentication, logoff, reassociation, refused users and a silent station: the port opens only for the right key, both ends hold the same MSK, no end waits without a timer, both complete or the AP lets the station go |

`TypeOK` of `SaeAuth`, `SaQuery`, `Pmksa` and `Eapol` documents the state. It holds
in the instances above and is left out of their runs, which then check only
properties of the code.

### Bounds

| Bound | Value | Why it is enough |
|---|---|---|
| stations (`STA`) | 2 | the stations interact only through `GKeyDoneStations` and the group state; two give one station that answers and one that does not. The count is proved for any number. |
| `MaxGTK` (group) | 3 | two rekeys, so that they can overlap |
| `MaxTimers` | 2 | a timeout left over from an earlier frame beside the current one |
| `PairwiseUpdateCount` | 1 or 2 | 2 gives one retry and then the limit |
| `GroupUpdateCount` | 1 or 2 | the same for 1/2 |
| `MaxANonce` | 2 | a second handshake over the frames of the first |
| `MaxAssoc` | 2 | a second association over the frames of the first |
| `MaxSNonce` | 3 or 2 (1 in `fourway_gtk_request`) | a new SNonce in each handshake and one change |
| `MaxGTK` (4-way) | 1 or 2 | 2 where GTK rekeys matter |
| `MaxRequests` | 0 or 1 | one key request |
| `SaeSync`, `AuthRetry` | 1 | one retry, then the limit |
| `faults` (SAE) | 2, in a mesh 1 | a loss in each direction; a mesh completes only with one, see below |
| `commits` | 3 or 4 | an exchange, a second one and what a lost frame costs |
| `GoSilent` | `fresh` + frames to read <= `commits` | a node stops only while the other has a scalar left for every frame it still has to read: without one the model, not the code, would keep it where it is |
| `MaxQueue` | 3 | a Commit and two Confirms under way |
| `MaxTimeout`, `RetryTimeout`, `UnprotLimit` (SA Query) | 1 | two requests in a query, then the timeout; fewer faults than requests |
| `Ids`, `Keys` (SA Query) | 1 and 3 | every late response matches; an old, a present and a new PTK |
| `Keys`, `Lifetime` (PMKSA) | up to 5, 2 | one more than fit into both caches; an expiry before and after the connection |
| `apMax`, `max` (PMKSA) | 1 or 2 | replacement, and eviction with and without another entry |
| `IdMod`, `RandMod` | 4, 3 | the identifier workaround covers three values; the values of three runs differ |
| `MaxSteps` | 12 | 100 in the code; no event needs as many turns in any of the loops, as `StepsEnd` shows |
| EAPOL times and limits | see `Eapol.cfg` | their order is that of the code: server and client timeouts longer than one retransmission, `EapolTimeout` and `HeldPeriod` the longest |
| `faults`, `early`, `ops` (EAPOL) | up to 2 | two losses or late timers in one authentication; two commands |
| `Ids` (EAPOL) | 1 value | every conversation starts at the same Identifier or the next one, the worst case for telling conversations apart |

`WnmSleepExit` can raise the count without limit; `MaxDone` stops it one above
the number of stations, which is enough to see the error.

`CHECK_DEADLOCK FALSE`: the bounds stop these models, and a station that is
disconnected and never comes back is a legal end. `Pmksa` and `Eapol` never stop
and are checked for deadlock.

### Fairness

`eloop_run()` calls every timeout whose time has come, and a handler does not
block: a registered timeout fires. `GroupKey` and `FourWay` assume nothing else
(`WF_vars(EapolTimeout(s) ...)`, `WF_vars(ApTimeout ...)`): stations may be silent
for ever, frames may all be lost. The timeouts registered for one station are
counted and not told apart, so fairness is for firing one of them; a timeout
cancelled over and over by frames is not assumed to fire, but each such frame
registers a new one or ends the handshake, and the properties check exactly
that.

- `SaeAuth`: for each node that has not stopped, the frames that have arrived, the
  timers and the driver's report of a peer (`Progress`), in configurations whose
  timers are longer than a round trip or in which a node may stop. A node that may
  stop need not; once it has, nothing is asked of it but that frames sent to it are
  gone (`Unheard`). Losses are bounded.
- `SaQuery`: time passes, timeouts fire, frames under way arrive or are lost (a
  bounded number), a station without association keeps asking (wpa_supplicant
  scans and tries again), the AP's responses are acknowledged in the end, and
  the handshake that follows an association ends one way or the other.
- `Eapol`: `[]<>AtRest \/ []<><<Next>>_vars`, the weak fairness of the whole
  next-state relation with its enabling condition spelt out. Both programs
  return to their event loops, timers run out and a station without an AP looks
  for one. Losses, early seconds and commands are bounded by the
  configuration, so that this cannot be spent on them.

## 4. Findings

1. **`group_wnm_count`** (`ap/wpa_auth.c:3497`). `wpa_group_update_sta()` counts
   a station that is already marked, relying on `wpa_group_setkeys()` having
   cleared the counter. `wpa_wnmsleep_rekey_gtk()` calls it without clearing:
   a station that leaves WNM-Sleep Mode during its group handshake is counted
   twice, against the comment at line 3605 that the counter is kept "by counting
   the STAs that are marked with GUpdateStationKeys".
2. **`group_ptk_rekey_drain`** (`ap/wpa_auth.c:3388`). A PTK rekey that starts
   while the group machine waits for 2/2 takes over its timeout, and 2/4 and
   4/4 cancel it. 1/2 is not retried `wpa_group_update_count` times, the station
   is neither rekeyed nor disconnected and the rekey stays in SETKEYS.
3. **`fourway_gtk_request`** (`ap/wpa_auth.c:1217`). Every verified frame cancels
   the timeout. An EAPOL-Key Request for a GTK, received in PTKINITNEGOTIATING,
   neither ends the handshake nor makes the AP send a frame to that station, so
   3/4 is not retried `wpa_pairwise_update_count` times and the handshake never
   ends. wpa_supplicant itself sends such a request only for the command
   KEY_REQUEST of its control interface, hence `GtkRequests` is a constant.
4. **`fourway_stale_msg2`** (`ap/wpa_auth.c:1041`). `prev_key_replay` survives a
   reassociation while the counters restart from 0. A 2/4 delayed from the
   earlier association is then taken for an SNonce update; its MIC fails, the
   machine returns to 1/4, and the station's next answer makes the AP send 3/4
   once more for the same PTK, although `wpa_disable_eapol_key_retries` is said
   to disable retransmission of frames that install keys.
5. **`sae_token`** (`ap/ieee802_11.c:930`). A token request is to be answered with
   "the commit-scalar and COMMIT-ELEMENT previously sent". If the peer had
   refused the group before, `sae_pick_next_group()` has cleared the scalar, and
   the mesh node answers with a Commit that has none. The same happens to a node
   that has `sae->tmp` and no Commit of its own for another reason.

### What the models show besides

Limits of the properties above, each seen in a counterexample of TLC when the
exception or the bound that mentions it is taken away.

Group keys:

- `wpa_gtk_rekey()` does not look at the result of `wpa_group_config_group_keys()`
  (`ap/wpa_auth.c:3791`). If the driver refuses a key of TKIP countermeasures, the AP
  goes on with the old GTK, or with the first of the two new ones, while every station
  that joins next is given the second. `EstablishedStationsHaveTxGtk` then asks only
  that they have `GTK[GN]`. The next rekey mends it.
- Rekeys that overlap a 3/4 leave its station with the old GTK
  (`ap/wpa_auth.c:3476`), and a station may sleep through one; the property excepts both.

4-way handshake:

- What finding 4 does to the 3/4 of a handshake it can do to its key, given one
  try more (`PairwiseUpdateCount` 3, two associations, a supplicant that keeps its
  SNonce while 1/4 is repeated). A first SNonce update moves the PTK p to the
  alternative; a 2/4 of the earlier association makes a second one fail, and the
  machine is back at 1/4. The station, which has confirmed p, answers with a new
  SNonce and takes 3/4 with q. Its earlier 4/4, delayed until then, verifies with
  the alternative SNonce, and the AP ends the handshake with p while the station
  has moved on to q. Two more 1/4 and a frame delayed across a reassociation are
  needed for it; the next handshake mends it. `WentBack` names the state,
  `KeyAgreement` and `StepsArePairwise` except it.

SAE:

- A node that does not start by itself puts a frame aside, and may take it up
  after the peer was removed and came back with its PMKSA. It then has an accepted
  peer with the old PMK while the peer runs a new exchange. Hence `cached`.
- A mesh completes for certain with one lost frame only. With two, the node that
  has not accepted may repeat a Confirm for which the accepted one no longer has
  temporary data (`ap/ieee802_11.c:780`). A lost token request in the middle of an
  exchange leaves it where it is, hence no losses where tokens are asked for.
- A send that the driver refuses leaves no timer; only `mesh_auth_timer` restarts.
- Two nodes in CONFIRMED that receive a Commit answer one another until `sync`
  runs out.
- A stale Confirm ends the use of a cached PMKSA and leaves the peer ACCEPTED
  with the old PMK; `SaeKeyAgreement` is about PMKs of an exchange.

SA Query:

- Neither end ends a query when the association ends or a new one begins. Its
  timeout then tears down an association it knows nothing of
  (`wpa_supplicant/sme.c:1823`); `carried` is that exception.
- A failed allocation leaves a query without a timer.
- `wpa_validate_wpa_ie()` changes the live `wpa_sm` before `check_assoc_ies()`
  refuses the request (`ap/ieee802_11.c:2580`); the model has nothing that differs.
- An association response that is not acknowledged removes the driver's entry
  while the station stays associated.

PMKSA caches:

- The copy for opportunistic key caching skips limit and replacement: a station
  may have several entries, and `wpa_auth_pmksa_remove()` removes only the first.
  `OneEntryPerStation`, `NoExpiredEntry` and `CurrentSpared` except it.
- An entry cloned by the station gets its expiration after it was placed, so it
  may stay past it, with the timeout of a full lifetime.
- Replacing a used entry flushes all entries with its PMK, also the current one
  of another BSS: preauthentication then ends the connection.
- The AP may cache a key left over from an earlier session with a new lifetime
  (`ieee802_1x_finished()`). After a reauthentication that the AP starts,
  `sm->pmksa` still supplies the old PMK while the new MSK is cached.

EAPOL:

- A response that waits for its step is overtaken by the second in which the
  retransmission falls due. The server repeats the request and takes the
  response in one step, BE_AUTH goes to REQUEST and sends the outcome as if it
  were the request, and in REQUEST it never looks at `eapSuccess` or `eapFail`.
  The AP stays in AUTHENTICATING without a timer. `Overtaken` names that state;
  `ApWaitsWithTimer`, `Completes` and `SilentStationLeaves` except it.
- The authentication timeout is ended only where `portValid` becomes true. A
  station whose reauthentication fails (the timeout of 2 s starts) and then
  succeeds while `portValid` is still set is deauthenticated by it although it
  is authenticated.
- A station that has sent `maxStart` EAPOL-Starts with `portValid` still set takes
  itself for authenticated without EAP; `EapKeyAgreement` asks for `eapSuccess`.
- A frame of the old association may open the port right after a reassociation:
  the AP takes PSK-4 before it restarts. It was made with the right key.

## 5. Proofs

The proofs hold for every value of the constants that satisfies the named
assumptions (try limits at least 1, finite `STA`, natural bounds), the bounds
included, since they only appear in guards. A hypothesis that a theorem has
besides is named with it. Every invariant was checked by TLC on a small
instance before it was proved.

| Module | Theorem | States |
|---|---|---|
| `GroupKey_proof` | `TypeCorrect` | `TypeOK` |
| | `MarkedInHandshake` | `MarkedStationIsInHandshake`, with every feature |
| | `CountCorrect` | `CountMatchesMarksAwake`; finding 1 shows that the exception is needed |
| | `MarkedRetried` | `MarkedStationIsRetried`; finding 2 shows that its exception is needed |
| | `EstablishedHaveTxGtk` | `EstablishedStationsHaveTxGtk`, with its exception for a refused key of TKIP countermeasures (section 4) |
| `FourWay_proof` | `TypeCorrect` | `TypeOK` |
| | `InstalledOnce` | `PtkInstalledOnce` |
| `FourWayKeys_proof` | `NotAhead` | `StationNotAhead` |
| | `GtksOnlyNewer` | `GtkNeverGoesBack` |
| | `HasTimer` | `HandshakeHasTimer`, if `~GtkRequests`; finding 3 shows why |
| | `SameKey` | `KeyAgreement` |
| | `PairwiseSteps` | `StepsArePairwise` |
| | `PairwiseWithin` | `KeysArePairwise`, if `MaxAssoc <= 1`; finding 4 shows why |
| | `NeverRetransmitted` | `NoRetransmittedKeys`, if `MaxAssoc <= 1` and `~GtkRequests` |
| `SaQuery_proof` | `TypeCorrect` | `TypeOK` |
| | `ComebackIsEnough` | `ComebackSuffices` |
| | `LiveKept` | `LiveAssociationKept`, if `RequestsOutnumberFaults` |
| | `StaysWithAp` | `StationStays`, if `RequestsOutnumberFaults` |
| `SaeKeys_proof` | `TypeCorrect` | `TypeOK` |
| | `AllFramesComplete` | `FramesComplete` |
| | `SameSaeKey` | `SaeKeyAgreement`, in configurations without `MeshTokens` |
| `Pmksa_proof` | `TypeCorrect` | `TypeOK` |
| | `NoDanglingPmksa` | `NothingDangles` |
| | `SamePmk` | `PmkAgreement` |
| | `UsesCurrent` | `CurrentIsUsed` |
| | `EntriesExpire` | `NoExpiredEntry` |
| | `AlwaysScheduled` | `ExpiryScheduled` |
| | `OnePerStation` | `OneEntryPerStation` |
| | `PreauthSparesConnection` | `CurrentSpared` |
| `Eapol_proof` | `PortOpensForKey` | `OnlyGood` |

**`GroupKey_proof`.** `RecordOK(r)` says of one station that its try counter is 0
in IDLE, and that a marked station exists and is in REKEYNEGOTIATING; without
the first part the try counter could not be bounded, without the second a
freed or idle station could be left marked. `StateOK` is `RecordOK` for all
stations and the types. Each state entry function has a lemma saying what it
does to a record; each callback has a lemma that brings it to the form
`Accounted(s)`: it ends in `StepDone(s, r, n)` with a good record `r` and a
count `n` that differs from the old one by exactly the change of the station's
own mark. One lemma about `StepDone` then shows, by cardinality of the set of
marked stations with one element changed, that the count stays exact. A rekey
recounts all stations and is proved apart.

The invariants of timeouts and GTKs are about one station's record between
callbacks. `Retried`: a marked station is established and has a timeout, and a
group handshake of a connected station waits for a marked one, so that marking
it again needs no new timeout. `GtkOK`: the present GTK is in the 3/4 of the
4-way handshake, in the 1/2 of a marked station, or with the station; a 1/2 that
a 4-way handshake overtook is answered by nobody. With the
exact count, the AP changes to a GTK only when no station is marked. `txGTK` = `GTK`
outside SETKEYS holds only without `"tkipfail"`; what the stations have does not
depend on it.

**`FourWay_proof`.** That a PTK is installed once is not inductive: it follows
from the order in which nonces are made.

- Authenticator (`ApOK`): the ANonces of the installed PTKs increase; none is
  above the current ANonce; while a handshake runs all are below it; a valid PTK
  was made from the current ANonce. Only `ApMsg4of4` installs, it ends the
  handshake, and a new handshake takes a new ANonce.
- Supplicant (`StaOK`): the SNonces of the installed PTKs increase; the SNonce
  is renewed unless it is above those of all PTKs used so far; the same holds
  for the SNonce of a temporary PTK, and for that of a PTK that is set but not
  installed. This is the argument of the comment in
  `wpa_supplicant_verify_eapol_key_mic()` about `renew_snonce` and `installed`.

The two sides do not depend on each other here: each proof allows any frames of
the right shape on the link.

**`FourWaySteps_proof`** describes every action by what the remaining proofs need
to know of it: `ApStep` (what is sent, where a PTK comes from, what is installed,
what becomes of the timeout), `ApJoin`, `StaStep` (answers 1/4, takes 3/4 or 1/2,
gives up, leaves, asks) and `StaJoin`. Lemma `Steps` says that there are no others.
`ApMove` says it again of the authenticator for what depends on the two arrays of
replay counters: it rests, sends a GTK, sends 1/4, repeats 3/4, or takes a 2/4.

**`FourWayKeys_proof`**, the order of the frames. A frame of an earlier association may carry any counter.
`Order(b, s0)` draws the line: b is the last ANonce before the present association,
s0 the last SNonce. The authenticator's frames above b are numbered in the order
of their ANonces and GTKs, no two alike, up to the present counter; those up to b
were made with SNonces up to s0; an associated station has only keys with SNonces
above s0. So a frame with a MIC that the station takes is one above b, and from
the order of the counters it carries no older GTK. 1/4 has no MIC and may be an
old one; it moves neither counter nor GTK. `HandshakeHasTimer` needs, of all frames,
only that a 2/2 made with the PTK of a running handshake does not exist.

**`FourWayKeys_proof`**, the keys. `Agree`: a handshake is finished only with a PTK that a 4/4
confirms; and unless it went back to 1/4, a station that has a PTK of the present
handshake has seen a 3/4 of it, whose counter is above those of all its 1/4 frames,
so it makes no other PTK from its ANonce, and every PTK it has confirmed is the one
it uses. The case that fails without `~WentBack` is the one of section 4. For the
simulation `RefOK` adds that a PTK to be confirmed has an SNonce above those of
all confirmed ones, hence was never confirmed before, and that what is installed at
either end was confirmed.

Within one association `~WentBack` is itself an invariant, `NeverBack`. The
authenticator goes back to 1/4 only if the 2/4 that updates the SNonce has a wrong
MIC, so it has to be shown that every 2/4 it still accepts after 3/4 answers a 1/4
of the present ANonce (`OnlyThisAnswered`). `wpa_replay_counter_mark_invalid()` drops
the counter of the first 2/4, and `wpa_replay_counter_valid()` stops at the first
entry that is not valid; as the array is in descending order (`Down`) what is left
are younger 1/4 frames, and 1/4 frames are numbered in the order of their ANonces
(`Msg1InOrder`). A second association restarts the counters and keeps
`prev_key_replay`, so that frames of the first match again: finding 4. From `NeverBack` and
`PairwiseSteps` follows the refinement, `PairwiseWithin`. For `NeverRetransmitted`,
`LastSNonce` adds that a second 2/4 is taken at most once more: after the first 2/4
all 3/4 frames have the present SNonce, and the one that updates it leaves no 1/4 to
be answered.

**`SaQuery_proof`.** `ComebackSuffices` is inductive with `WaitsLongEnough`: the age of
the query that refused the station plus what is left of the comeback time is at
least the timeout after the first refusal, and more than it after the second.
The two action properties hold only if fewer frames are lost or late than a query
sends requests. `RequestsOutnumberFaults` says so of the budgets: faults times
`RetryTimeout` are at most `MaxTimeout`, and a failed allocation does not come on
top. It cannot be weakened: with two faults and `MaxTimeout` = `RetryTimeout` = 1,
or with one fault and one failed allocation, TLC finds the counterexample. The
instance of the run satisfies it. The invariant (`Paid`): while both ends share the
key, the age of a query is paid for with the faults spent, now if a request or its
answer is under way, or when the next request is due.

**`SaeKeys_proof`.** The pair of ends is described by `Pair`, which is symmetric and
does not say which end is a station. `SideOK` is about the data of one end: an own
scalar is the last one made, and in the states where a Confirm may follow, the KCK
belongs to both scalars. `GoodFrame` is about every frame that may still arrive,
those put aside and the one the driver repeats included. `Said(s, t)` means that
an end has confirmed the exchange of s and t, by a Confirm under way or one that
was accepted. `LatestOK`: an end confirms one exchange per scalar and none later
than the one it has accepted. `CrossOK`: of two exchanges confirmed by either end,
one is the later for both. From the three it follows that two accepted exchanges are the
same: each was confirmed by the other end, so neither is later than the other.
The order of the link is not used. `Legal` says what a step of an end may do
(make a scalar, confirm, accept what the peer has confirmed, forget), lemma
`StepOK` that it keeps `Pair`; the rest of the module shows that each handler is
legal.

**`Pmksa_proof`** has any number of BSSs, stations and PMKs, any lifetimes and cache
sizes, and lists of any length. Its first part says by position what the list
operations do: removing positions keeps the others in their order (`WithoutOK`),
inserting at `Place` keeps the order of expiration (`SortedInsert`). These are facts
about cardinalities and least elements; the only induction is that of the library's
`WFMin`, which speaks of a set of positions and not of an operator. The second part
has one lemma per cache operation, the third one per action. The invariant has three
parts.

- Each AP by itself (`ApOK`): the list is in the order of expiration, the timeout
  comes no later than the first entry needs, `sm->pmksa` points into the list.
  `ExpiryScheduled` alone is not inductive: when the first entry is removed, that the
  timeout is in time for the second follows from the order.
- The station by itself (`StaOK`): one entry per AP, the current one among them, a
  timeout if there are any. One entry per AP is what makes `cur_pmksa`, known by
  address and PMK, the entry that a replacement frees. Without opportunistic key
  caching also: in the order of expiration, no PMK twice, expired entries due at
  once. No PMK twice is what spares the connection: replacing an entry flushes
  all those with its PMK, and none of them is the current one.
- The connection (`ConnOK`): what each stage means for `bss`, `msk` and `pmk`; the
  entry asked for or used is one for this AP; and the key of the EAP session is in
  the cache for this AP alone, and only if the AP uses it. The last is needed for
  `CurrentIsUsed` when message 1/4 names a PMKID that is not in the cache and the
  station falls back to the MSK.

With opportunistic key caching the order of the station's list, the one entry per
station and the promptness fail (section 4), so these parts carry `~cfg.okc`;
`NothingDangles`, `PmkAgreement` and `CurrentIsUsed` do not.

**`Eapol_proof`.** `OnlyGood` is not inductive: the port is opened by AUTH_PAE, which
believes BE_AUTH, which believes the EAP server, which believes the method. The
invariant `Refusal` says of a station whose key is not that of the user database
that nobody in this chain is convinced. `Unconvinced(e)`: no method but Identity
has succeeded and the decision is not for success. `Closed(s)`: in addition
`authSuccess` is not set and neither AUTH_PAE nor BE_AUTH is in a state that only
success leads to. `Rejected(t)` says the same of the station, of its decision,
`eapSuccess` and `portValid`. They rest on the frames: PSK-3 carries a MAC with
the key of the database, PSK-2 and PSK-4 never do, whether they are on the link, received
but not processed, or kept for a retransmission (`OfServer`, `WrongKey`). Nothing is
assumed of the order of frames, of Identifiers or of timers. Each state of each
machine, each `SM_STEP`, each loop and each event has a lemma. The loops are recursive
functions; that they are defined and keep the invariant for every number of turns
is an induction over a set of numbers (`SetInduction`), which follows from the
library's `WFMin` because that theorem has no operator as a parameter.

**Only model-checked.**

- Liveness (`RekeyDrains`, `HandshakeEnds`, `SilentPeerEnds`, `MeshCompletes`,
  `LostStationReturns`, `MismatchResolved`, `Completes`, `SilentStationLeaves`):
  fairness and ENABLED are beyond the prover.
- `StepsEnd`: that the loops end is a fact about the number of transitions from every
  reachable state, and needs a measure that the machines of an end decrease together.
  `StaWaitsWithTimer` depends on it. `ApWaitsWithTimer` needs to know which states the
  four machines of the AP can rest in together, and depends on the limit: with
  `MaxRetrans` = 0 (the code has 5) TLC finds that a BE_AUTH left in REQUEST by an
  earlier session sends the first request before AUTH_PAE has seen it, so that the
  timeout of EAP finds AUTH_PAE in CONNECTING, which does not look at it.
- `EapKeyAgreement`: it needs an invariant that relates the runs of the method at the
  two ends, with the frames of abandoned ones, where `OnlyGood` only needs each end
  by itself.
- `AcceptedStays`: for an AP that asks for tokens it rests on the order of the
  frames of the link, which no invariant here keeps.
- `SaeKeyAgreement` with `MeshTokens`.

## 6. Not modelled

- Within the handshakes: WPA version 1 and its pairwise/group split, FT, FILS,
  OWE and DPP shortcuts, several PSKs per station, IGTK (it travels and is
  replaced with the GTK), VLAN groups, EAPOL-Key error reports with their MIC
  failure accounting, rekey offload, TDLS keys.
- SAE: silent discarding of reflected frames, password identifiers, the
  arithmetic of the groups, external authentication, the peer link that follows.
- SA Query: FT reassociation, optional PMF, failures of the driver to add a
  station, stations whose driver has the SME, FILS.
- PMKSA: SAE, FILS, OWE and Suite B entries, `EVENT_PMKID_CANDIDATE`, external
  import and export.
- EAPOL and EAP: WEP keys and their machines, forced ports, WPA's own
  `portValid`, RADIUS pass-through, methods other than Identity and PSK, ERP,
  notifications, WPS, preauthentication over the DS, failed allocations. With
  the real values the timeouts of 10 s and 70 s come before most of what
  `maxStart` and `heldPeriod` would do; the instances let both happen.
- Frames that neither program sends. The models ask what an honest pair does on
  a bad link.
- Contents: key derivation, encryption, element parsing. They are replaced by
  "same nonces, same PTK" and "same PTK, MIC verifies".
- Groups of several VLANs (`ap/wpa_auth.c:4393`): the group models have one group.
- Everything listed as `not_modelled` in `PROJECT.json`, with its reason there.
  The repository has some 480 000 lines of implementation in 729 files, most of
  them drivers, message formats, cryptography, configuration, user interfaces
  and protocols that are independent of the ones modelled (P2P, DPP, WPS, FST,
  MACsec, GAS). The models cover the state machines that decide about keys,
  which are a small part of the lines.

## 7. Plan

1. `GroupKey` with its proof. *Done.*
2. `EapolKey`, `Authenticator`, `Supplicant`, `FourWay` with the proof of single
   installation. *Done.*
3. SAE between an AP and a station and between mesh nodes. *Done.*
4. `SaQuery`, the PMKSA caches, EAPOL and EAP. *Done.*
5. `PairwiseKeys`, an abstract specification of key agreement, and the refinement
   from `FourWay` to it. *Done, and proved within one association; over several the
   step simulation is proved up to `WentBack`.*
6. Proofs of the safety properties of `GroupKey`, `FourWay`, `SaQuery`, `SaeAuth`,
   `Pmksa` and `Eapol`.
   *Done but for the ones named at the end of section 5.*
7. Proofs to come: `AcceptedStays`, `EapKeyAgreement`.
8. If more is modelled: the mesh peer link, the RADIUS client's retransmission
   and failover, FT between two APs.
