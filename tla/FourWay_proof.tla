--------------------------- MODULE FourWay_proof ----------------------------
(***************************************************************************)
(* Proofs about FourWay, for any retry limits and any bounds on handshakes,*)
(* associations, nonces, rekeys and requests.                              *)
(***************************************************************************)
EXTENDS FourWay, TLAPS

(***************************************************************************)
(* The authenticator's part of the inductive invariant.                    *)
(***************************************************************************)

Running(r) == r.state \in {"PTKSTART", "PTKCALCNEGOTIATING", "PTKINITNEGOTIATING"}

\* The PTKs of a history were made from ever larger nonces; k is 1 for the
\* ANonce and 2 for the SNonce.
Increasing(history, k) ==
    \A i, j \in DOMAIN history : i < j => history[i][k] < history[j][k]
AllBelow(history, k, n) == \A i \in DOMAIN history : history[i][k] < n

\* Every installed PTK was made from an ANonce up to the current one, and a
\* running handshake has an ANonce of its own; a valid PTK is made from the
\* current ANonce.
ApOK(r) ==
    /\ r \in ApType
    /\ r.group = "IDLE" => r.GTimeoutCtr = 0
    /\ r.PTK_valid => r.PTK[1] = r.ANonce
    /\ AllBelow(r.installs, 1, r.ANonce + 1)
    /\ Running(r) => AllBelow(r.installs, 1, r.ANonce)
    /\ Increasing(r.installs, 1)

\* What most helpers leave alone.
SameKeys(q, r) ==
    /\ q.ANonce = r.ANonce /\ q.installs = r.installs
    /\ q.PTK = r.PTK /\ q.PTK_valid = r.PTK_valid

\* Replay counters stay replay counters.
LEMMA KeyReplayTypes ==
    /\ NoReplay \in KeyReplays
    /\ \A c \in KeyReplays :
         /\ NextReplay(c) \in KeyReplays
         /\ MarkAllInvalid(c) \in KeyReplays
         /\ \A n \in Nat : MarkInvalid(c, n) \in KeyReplays
<1>1. NoReplay \in KeyReplays
  BY DEF NoReplay, KeyReplays
<1>2. ASSUME NEW c \in KeyReplays
      PROVE  NextReplay(c) \in KeyReplays
  <2>1. \A i \in Slots : c[i] \in [counter : Nat, valid : BOOLEAN]
    BY DEF KeyReplays
  <2>2. \A i \in Slots : i # 1 => i - 1 \in Slots
    BY DEF Slots, RSNA_MAX_EAPOL_RETRIES
  <2>3. c[1].counter + 1 \in Nat
    BY <2>1 DEF Slots, RSNA_MAX_EAPOL_RETRIES
  <2>4. [counter |-> c[1].counter + 1, valid |-> TRUE] \in [counter : Nat, valid : BOOLEAN]
    BY <2>3
  <2> QED BY <2>1, <2>2, <2>4 DEF NextReplay, KeyReplays
<1>3. ASSUME NEW c \in KeyReplays
      PROVE  /\ MarkAllInvalid(c) \in KeyReplays
             /\ \A n \in Nat : MarkInvalid(c, n) \in KeyReplays
  <2>1. \A i \in Slots : c[i] \in [counter : Nat, valid : BOOLEAN]
    BY DEF KeyReplays
  <2>2. \A e \in [counter : Nat, valid : BOOLEAN] : \A b \in BOOLEAN :
          [e EXCEPT !.valid = b] \in [counter : Nat, valid : BOOLEAN]
    BY Zenon
  <2>3. MarkAllInvalid(c) \in KeyReplays
    BY <2>1, <2>2, Zenon DEF MarkAllInvalid, KeyReplays
  <2>4. ASSUME NEW n \in Nat
        PROVE  MarkInvalid(c, n) \in KeyReplays
    <3>1. \A i \in Slots : (c[i].valid /\ c[i].counter # n) \in BOOLEAN
      OBVIOUS
    <3> QED BY <2>1, <2>2, <3>1, Zenon DEF MarkInvalid, KeyReplays
  <2> QED BY <2>3, <2>4
<1> QED BY <1>1, <1>2, <1>3

\* wpa_send_eapol().
LEMMA SendEapolOK ==
    ASSUME NEW r \in ApType
    PROVE  /\ SendEapol(r) \in ApType
           /\ SameKeys(SendEapol(r), r)
           /\ SendEapol(r).state = r.state /\ SendEapol(r).group = r.group
           /\ SendEapol(r).GTimeoutCtr = r.GTimeoutCtr
<1>1. r.timers + 1 \in Nat /\ r.timers \in Nat /\ r.key_replay \in KeyReplays
  BY DEF ApType
<1>2. NextReplay(r.key_replay) \in KeyReplays
  BY <1>1, KeyReplayTypes
<1>3. SendEapol(r) \in ApType
  BY <1>1, <1>2, Zenon DEF SendEapol, ApType
<1> QED BY <1>3, Zenon DEF SendEapol, ApType, SameKeys

\* Giving the driver one more PTK, with a nonce above all before.
LEMMA OneMorePtk ==
    ASSUME NEW s \in Seq(PTKs), NEW p \in PTKs, NEW k \in {1, 2},
           Increasing(s, k), AllBelow(s, k, p[k])
    PROVE  /\ Append(s, p) \in Seq(PTKs)
           /\ Increasing(Append(s, p), k)
           /\ AllBelow(Append(s, p), k, p[k] + 1)
<1> DEFINE t == Append(s, p)
<1>1. t \in Seq(PTKs) /\ Len(t) = Len(s) + 1 /\ Len(s) \in Nat
      /\ t[Len(s) + 1] = p /\ \A i \in 1 .. Len(s) : t[i] = s[i]
  OBVIOUS
<1>2. DOMAIN s = 1 .. Len(s) /\ DOMAIN t = 1 .. Len(s) + 1
  BY <1>1
<1>3. \A i \in 1 .. Len(s) : s[i] \in PTKs
  OBVIOUS
<1>4. p[k] \in Nat /\ \A q \in PTKs : q[k] \in Nat
  BY DEF PTKs
<1> HIDE DEF t
<1>5. Increasing(t, k)
  BY <1>1, <1>2, <1>3, <1>4 DEF Increasing, AllBelow
<1>6. AllBelow(t, k, p[k] + 1)
  BY <1>1, <1>2, <1>3, <1>4 DEF AllBelow
<1> QED BY <1>1, <1>5, <1>6 DEF t

\* A bound on the nonces may be raised.
LEMMA BelowMore ==
    ASSUME NEW s \in Seq(PTKs), NEW k \in {1, 2}, NEW n \in Nat, NEW m \in Nat,
           n <= m, AllBelow(s, k, n)
    PROVE  AllBelow(s, k, m)
<1>1. \A i \in DOMAIN s : s[i][k] \in Nat
  BY DEF PTKs
<1> QED BY <1>1 DEF AllBelow

\* A history of ever larger nonces holds no PTK twice.
LEMMA IncreasingOnce ==
    ASSUME NEW s \in Seq(PTKs), NEW k \in {1, 2}, Increasing(s, k)
    PROVE  NoReinstall(s)
<1>1. \A i \in DOMAIN s : i \in Nat /\ s[i][k] \in Nat
  BY DEF PTKs
<1> QED BY <1>1 DEF Increasing, NoReinstall

(***************************************************************************)
(* The authenticator's helpers.                                            *)
(***************************************************************************)

Fresh(r) == ApOK(r) /\ AllBelow(r.installs, 1, r.ANonce)

\* A step that changes neither the keys nor the ANonce and starts no handshake.
LEMMA ApKept ==
    ASSUME NEW r, ApOK(r), NEW q \in ApType, SameKeys(q, r),
           Running(q) => Running(r),
           q.group = "IDLE" => q.GTimeoutCtr = 0
    PROVE  ApOK(q)
  BY DEF ApOK, SameKeys

\* wpa_remove_ptk().
LEMMA RemovePtkOK ==
    ASSUME NEW r, ApOK(r)
    PROVE  /\ ApOK(RemovePtk(r)) /\ ~RemovePtk(r).PTK_valid
<1>1. NoPTK \in PTKs /\ r \in ApType
  BY DEF NoPTK, PTKs, ApOK
<1> DEFINE q == RemovePtk(r)
<1>2. q \in ApType
  BY <1>1, Zenon DEF RemovePtk, ApType
<1>3. /\ q.PTK_valid = FALSE /\ q.ANonce = r.ANonce /\ q.installs = r.installs
      /\ q.state = r.state /\ q.group = r.group /\ q.GTimeoutCtr = r.GTimeoutCtr
  BY <1>1, Zenon DEF RemovePtk, ApType
<1> HIDE DEF q
<1>4. ApOK(q)
  BY <1>2, <1>3 DEF ApOK, Running
<1> QED BY <1>3, <1>4 DEF q

\* DISCONNECT and INITIALIZE end the handshake.
LEMMA InitializeOK ==
    ASSUME NEW r, ApOK(r)
    PROVE  ApOK(Initialize(r))
<1> DEFINE p == RemovePtk(r)
           q == Initialize(r)
<1>1. ApOK(p) /\ p \in ApType
  BY RemovePtkOK DEF ApOK
<1>2. 0 \in 0 .. PairwiseUpdateCount /\ "INITIALIZE" \in PtkStates
  BY UpdateCountAssumption DEF PtkStates
<1>3. q = [p EXCEPT !.state = "INITIALIZE", !.TimeoutCtr = 0, !.GUpdateStationKeys = FALSE]
  BY Zenon DEF Initialize
<1> HIDE DEF p, q
<1>4. q \in ApType
  BY <1>1, <1>2, <1>3, Zenon DEF ApType
<1>5. /\ SameKeys(q, p) /\ q.state = "INITIALIZE"
      /\ q.group = p.group /\ q.GTimeoutCtr = p.GTimeoutCtr
  BY <1>1, <1>3, Zenon DEF ApType, SameKeys
<1>6. ~Running(q)
  BY <1>5 DEF Running
<1> QED BY <1>1, <1>4, <1>5, <1>6, ApKept DEF ApOK, q

\* WPA_PTK_GROUP IDLE resets its try counter.
LEMMA GroupIdleOK ==
    ASSUME NEW r, ApOK(r)
    PROVE  ApOK(GroupIdle(r))
<1> DEFINE q == GroupIdle(r)
<1>1. r \in ApType /\ 0 \in 0 .. GroupUpdateCount
  BY UpdateCountAssumption DEF ApOK
<1>2. q \in ApType
  BY <1>1, Zenon DEF GroupIdle, ApType
<1>3. SameKeys(q, r) /\ q.state = r.state /\ q.GTimeoutCtr = 0
  BY <1>1, Zenon DEF GroupIdle, ApType, SameKeys
<1> HIDE DEF q
<1> QED BY <1>2, <1>3, ApKept DEF Running, q

\* 1/4, below the limit and with an ANonce no installed PTK was made from.
LEMMA PtkStartOK ==
    ASSUME NEW r, Fresh(r), r.TimeoutCtr < PairwiseUpdateCount
    PROVE  ApOK(PtkStart(r))
<1> DEFINE p == [r EXCEPT !.state = "PTKSTART", !.alt_snonce_valid = FALSE,
                          !.TimeoutCtr = @ + 1,
                          !.pending_1_of_4_timeout = @ \/ r.TimeoutCtr = 0]
           q == PtkStart(r)
<1>1. r \in ApType /\ r.TimeoutCtr \in 0 .. PairwiseUpdateCount
  BY DEF Fresh, ApOK, ApType
<1>2. /\ r.TimeoutCtr + 1 \in 0 .. PairwiseUpdateCount
      /\ "PTKSTART" \in PtkStates
      /\ (r.pending_1_of_4_timeout \/ r.TimeoutCtr = 0) \in BOOLEAN
  BY <1>1, UpdateCountAssumption DEF PtkStates
<1>3. p \in ApType
  BY <1>1, <1>2, Zenon DEF ApType
<1>4. SameKeys(p, r) /\ p.group = r.group /\ p.GTimeoutCtr = r.GTimeoutCtr
  BY <1>1, Zenon DEF ApType, SameKeys
<1>5. q = SendEapol(p)
  BY Zenon DEF PtkStart
<1> HIDE DEF p, q
<1>6. /\ q \in ApType /\ SameKeys(q, p)
      /\ q.group = p.group /\ q.GTimeoutCtr = p.GTimeoutCtr
  BY <1>3, <1>5, SendEapolOK
<1> QED BY <1>4, <1>6 DEF Fresh, ApOK, SameKeys, q

\* 3/4, likewise.
LEMMA PtkInitNegotiatingOK ==
    ASSUME NEW r, Fresh(r), r.TimeoutCtr < PairwiseUpdateCount
    PROVE  ApOK(PtkInitNegotiating(r))
<1> DEFINE p == [r EXCEPT !.state = "PTKINITNEGOTIATING", !.TimeoutCtr = @ + 1]
           q == PtkInitNegotiating(r)
<1>1. r \in ApType /\ r.TimeoutCtr \in 0 .. PairwiseUpdateCount
  BY DEF Fresh, ApOK, ApType
<1>2. /\ r.TimeoutCtr + 1 \in 0 .. PairwiseUpdateCount
      /\ "PTKINITNEGOTIATING" \in PtkStates
  BY <1>1, UpdateCountAssumption DEF PtkStates
<1>3. p \in ApType
  BY <1>1, <1>2, Zenon DEF ApType
<1>4. SameKeys(p, r) /\ p.group = r.group /\ p.GTimeoutCtr = r.GTimeoutCtr
  BY <1>1, Zenon DEF ApType, SameKeys
<1>5. q = SendEapol(p)
  BY Zenon DEF PtkInitNegotiating
<1> HIDE DEF p, q
<1>6. /\ q \in ApType /\ SameKeys(q, p)
      /\ q.group = p.group /\ q.GTimeoutCtr = p.GTimeoutCtr
  BY <1>3, <1>5, SendEapolOK
<1> QED BY <1>4, <1>6 DEF Fresh, ApOK, SameKeys, q

\* A new handshake takes a new ANonce.
LEMMA NewHandshakeOK ==
    ASSUME NEW r, ApOK(r), ~r.PTK_valid
    PROVE  ApOK(NewHandshake(r))
<1> DEFINE p == [r EXCEPT !.ANonce = @ + 1, !.TimeoutCtr = 0]
<1>1. r \in ApType /\ r.ANonce \in Nat /\ r.ANonce + 1 \in Nat
  BY DEF ApOK, ApType
<1>2. 0 \in 0 .. PairwiseUpdateCount /\ 0 < PairwiseUpdateCount
  BY UpdateCountAssumption
<1>3. p \in ApType
  BY <1>1, <1>2, Zenon DEF ApType
<1>4. /\ p.ANonce = r.ANonce + 1 /\ p.TimeoutCtr = 0 /\ p.installs = r.installs
      /\ p.PTK_valid = r.PTK_valid /\ p.group = r.group
      /\ p.GTimeoutCtr = r.GTimeoutCtr
  BY <1>1, Zenon DEF ApType
<1> HIDE DEF p
<1>5. p.installs \in Seq(PTKs)
  BY <1>3 DEF ApType
<1>6. AllBelow(p.installs, 1, p.ANonce + 1)
  BY <1>1, <1>4, <1>5, BelowMore DEF ApOK
<1>7. Fresh(p)
  BY <1>3, <1>4, <1>6 DEF ApOK, Fresh
<1>8. ApOK(PtkStart(p))
  BY <1>2, <1>4, <1>7, PtkStartOK
<1> QED BY <1>8, Zenon DEF NewHandshake, p

\* 1/2, below the limit.
LEMMA RekeyNegotiatingOK ==
    ASSUME NEW r, ApOK(r), r.GTimeoutCtr < GroupUpdateCount
    PROVE  ApOK(RekeyNegotiating(r))
<1> DEFINE p == [r EXCEPT !.group = "REKEYNEGOTIATING", !.GTimeoutCtr = @ + 1]
           q == RekeyNegotiating(r)
<1>1. r \in ApType /\ r.GTimeoutCtr \in 0 .. GroupUpdateCount
  BY DEF ApOK, ApType
<1>2. r.GTimeoutCtr + 1 \in 0 .. GroupUpdateCount
  BY <1>1, UpdateCountAssumption
<1>3. p \in ApType
  BY <1>1, <1>2, Zenon DEF ApType
<1>4. SameKeys(p, r) /\ p.group = "REKEYNEGOTIATING" /\ p.state = r.state
  BY <1>1, Zenon DEF ApType, SameKeys
<1>5. q = SendEapol(p)
  BY Zenon DEF RekeyNegotiating
<1> HIDE DEF p, q
<1>6. q \in ApType /\ SameKeys(q, p) /\ q.group = p.group /\ q.state = p.state
  BY <1>3, <1>5, SendEapolOK
<1>7. SameKeys(q, r)
  BY <1>4, <1>6 DEF SameKeys
<1> QED BY <1>4, <1>6, <1>7, ApKept DEF Running, q

\* wpa_group_update_sta() starts the group handshake only from IDLE.
LEMMA NewGtkOK ==
    ASSUME NEW r, ApOK(r)
    PROVE  ApOK(NewGtk(r))
<1> DEFINE G(b) == [[r EXCEPT !.GTK = @ + 1] EXCEPT !.GUpdateStationKeys = b]
<1>1. r \in ApType /\ r.GTK + 1 \in Nat
  BY DEF ApOK, ApType
<1>2. ASSUME NEW b \in BOOLEAN
      PROVE  ApOK(G(b)) /\ G(b).group = r.group
  <2>1. G(b) \in ApType
    BY <1>1, Zenon DEF ApType
  <2>2. /\ SameKeys(G(b), r) /\ G(b).group = r.group /\ G(b).state = r.state
        /\ G(b).GTimeoutCtr = r.GTimeoutCtr
    BY <1>1, Zenon DEF ApType, SameKeys
  <2> HIDE DEF G
  <2> QED BY <2>1, <2>2, ApKept DEF ApOK, Running
<1>3. CASE r.state # "PTKINITDONE"
  <2>1. NewGtk(r) = G(FALSE)
    BY <1>3, Zenon DEF NewGtk
  <2> HIDE DEF G
  <2> QED BY <2>1, <1>2
<1>4. CASE r.state = "PTKINITDONE" /\ r.group = "IDLE"
  <2>1. NewGtk(r) = RekeyNegotiating(G(TRUE))
    BY <1>4, Zenon DEF NewGtk
  <2> HIDE DEF G
  <2> DEFINE g == G(TRUE)
  <2>2. ApOK(g) /\ g.group = "IDLE"
    BY <1>2, <1>4
  <2> HIDE DEF g
  <2>3. g.GTimeoutCtr < GroupUpdateCount
    BY <2>2, UpdateCountAssumption DEF ApOK
  <2>4. ApOK(RekeyNegotiating(g))
    BY <2>2, <2>3, RekeyNegotiatingOK
  <2> QED BY <2>1, <2>4 DEF g
<1>5. CASE r.state = "PTKINITDONE" /\ r.group # "IDLE"
  <2>1. NewGtk(r) = G(TRUE)
    BY <1>5, Zenon DEF NewGtk
  <2> HIDE DEF G
  <2> QED BY <2>1, <1>2
<1> QED BY <1>3, <1>4, <1>5

\* wpa_auth_sta_init().
LEMMA NewApOK ==
    ASSUME NEW a \in Nat, NEW n \in Nat, NEW gtk \in Nat, NEW conf \in BOOLEAN,
           NEW history \in Seq(PTKs), AllBelow(history, 1, n + 1),
           Increasing(history, 1)
    PROVE  ApOK(NewAp(a, n, gtk, conf, history))
           /\ ~NewAp(a, n, gtk, conf, history).PTK_valid
<1> DEFINE q == NewAp(a, n, gtk, conf, history)
<1>1. /\ NoPTK \in PTKs /\ 0 \in 0 .. PairwiseUpdateCount
      /\ 0 \in 0 .. GroupUpdateCount /\ "INITIALIZE" \in PtkStates
      /\ NoReplay \in KeyReplays /\ 0 \in Nat
  BY UpdateCountAssumption, KeyReplayTypes DEF NoPTK, PTKs, PtkStates
<1>2. q \in ApType
  BY <1>1, Zenon DEF NewAp, ApType
<1>3. /\ q.state = "INITIALIZE" /\ q.PTK_valid = FALSE /\ q.GTimeoutCtr = 0
      /\ q.ANonce = n /\ q.installs = history
  BY DEF NewAp
<1> HIDE DEF q
<1> QED BY <1>2, <1>3 DEF ApOK, Running, q

\* What the authenticator sends are frames.
LEMMA ApFrames ==
    ASSUME NEW r \in ApType
    PROVE  /\ Msg1of4(r) \subseteq Frames
           /\ Msg3of4(r) \subseteq Frames
           /\ Msg1of2(r) \subseteq Frames
<1>1. /\ r.key_replay \in KeyReplays /\ r.ANonce \in Nat
      /\ r.PTK \in PTKs /\ r.GTK \in Nat
  BY DEF ApType
<1>2. Rc(r) \in Nat /\ 0 \in Nat /\ NoPTK \in PTKs
  BY <1>1 DEF Rc, KeyReplays, Slots, RSNA_MAX_EAPOL_RETRIES, NoPTK, PTKs
<1>3. {"1/4", "3/4", "1/2"} \subseteq FrameTypes
  BY DEF FrameTypes
<1>4. /\ Frame("1/4", Rc(r), r.ANonce, NoPTK, 0) \in Frames
      /\ Frame("3/4", Rc(r), r.ANonce, r.PTK, r.GTK) \in Frames
      /\ Frame("1/2", Rc(r), 0, r.PTK, r.GTK) \in Frames
  BY <1>1, <1>2, <1>3 DEF Frame, Frames
<1> QED BY <1>4 DEF Msg1of4, Msg3of4, Msg1of2

(***************************************************************************)
(* The authenticator's actions.                                            *)
(***************************************************************************)

ApSide == ApOK(ap) /\ net \subseteq Frames

\* What most actions end in: a good machine and, perhaps, one of its frames.
LEMMA ApSent ==
    ASSUME ApSide, NEW r, ApOK(r), ap' = r,
           \/ net' = net
           \/ net' = net \cup Msg1of4(r)
           \/ net' = net \cup Msg3of4(r)
           \/ net' = net \cup Msg1of2(r)
    PROVE  ApSide'
<1>1. r \in ApType
  BY DEF ApOK
<1>2. net' \subseteq Frames
  BY <1>1, ApFrames DEF ApSide
<1>3. ApOK(ap')
  OBVIOUS
<1> QED BY <1>2, <1>3 DEF ApSide

\* WPA_AUTH.
LEMMA ApAuthEventOK == ApSide /\ ApAuthEvent => ApSide'
<1> SUFFICES ASSUME ApSide, ApAuthEvent PROVE ApSide'
  OBVIOUS
<1>1. ApOK(RemovePtk(ap))
  BY RemovePtkOK DEF ApSide
<1> QED BY <1>1, ApSent DEF ApAuthEvent

\* WPA_DEAUTH and WPA_DISASSOC.
LEMMA ApDeauthOK == ApSide /\ ApDeauth => ApSide'
<1> SUFFICES ASSUME ApSide, ApDeauth PROVE ApSide'
  OBVIOUS
<1>1. ApOK(Initialize(ap))
  BY InitializeOK DEF ApSide
<1> QED BY <1>1, ApSent DEF ApDeauth

\* Association with a new machine.
LEMMA ApNewStaOK == ApSide /\ ApNewSta => ApSide'
<1> SUFFICES ASSUME ApSide, ApNewSta PROVE ApSide'
  OBVIOUS
<1> DEFINE q == NewAp(ap.assoc + 1, ap.ANonce, ap.GTK, ap.no_retries, ap.installs)
<1>1. /\ ap.assoc + 1 \in Nat /\ ap.ANonce \in Nat /\ ap.GTK \in Nat
      /\ ap.no_retries \in BOOLEAN /\ ap.installs \in Seq(PTKs)
      /\ AllBelow(ap.installs, 1, ap.ANonce + 1) /\ Increasing(ap.installs, 1)
  BY DEF ApSide, ApOK, ApType
<1>2. ApOK(q) /\ ~q.PTK_valid
  BY <1>1, NewApOK
<1>3. ap' = NewHandshake(q) /\ net' = net \cup Msg1of4(NewHandshake(q))
  BY DEF ApNewSta
<1> HIDE DEF q
<1>4. ApOK(NewHandshake(q))
  BY <1>2, NewHandshakeOK
<1> QED BY <1>3, <1>4, ApSent

\* Association with an old machine.
LEMMA ApStaAssociatedAgainOK == ApSide /\ ApStaAssociatedAgain => ApSide'
<1> SUFFICES ASSUME ApSide, ApStaAssociatedAgain PROVE ApSide'
  OBVIOUS
<1> DEFINE p == RemovePtk(ap)
           q == [p EXCEPT !.assoc = @ + 1, !.key_replay = NoReplay]
<1>1. ApOK(p) /\ ~p.PTK_valid
  BY RemovePtkOK DEF ApSide
<1>2. ap' = NewHandshake(q) /\ net' = net \cup Msg1of4(NewHandshake(q))
  BY Zenon DEF ApStaAssociatedAgain
<1> HIDE DEF p
<1>3. p \in ApType /\ p.assoc + 1 \in Nat /\ NoReplay \in KeyReplays
  BY <1>1, KeyReplayTypes DEF ApOK, ApType
<1>4. q \in ApType
  BY <1>3, Zenon DEF ApType
<1>5. /\ SameKeys(q, p) /\ q.state = p.state /\ q.group = p.group
      /\ q.GTimeoutCtr = p.GTimeoutCtr
  BY <1>3, Zenon DEF ApType, SameKeys
<1> HIDE DEF q
<1>6. ApOK(q) /\ ~q.PTK_valid
  BY <1>1, <1>4, <1>5, ApKept DEF ApOK, Running, SameKeys
<1>7. ApOK(NewHandshake(q))
  BY <1>6, NewHandshakeOK
<1> QED BY <1>2, <1>7, ApSent

\* WPA_REAUTH.
LEMMA ApReAuthOK == ApSide /\ ApReAuth => ApSide'
<1> SUFFICES ASSUME ApSide, ApReAuth PROVE ApSide'
  OBVIOUS
<1> DEFINE c == IF ap.GUpdateStationKeys THEN GroupIdle(ap) ELSE ap
           p == RemovePtk(c)
           q == [p EXCEPT !.assoc = @ + 1]
<1>1. ApOK(c)
  BY GroupIdleOK DEF ApSide
<1>2. ap' = NewHandshake(q) /\ net' = net \cup Msg1of4(NewHandshake(q))
  BY Zenon DEF ApReAuth
<1> HIDE DEF c
<1>3. ApOK(p) /\ ~p.PTK_valid
  BY <1>1, RemovePtkOK
<1> HIDE DEF p
<1>4. p \in ApType /\ p.assoc + 1 \in Nat
  BY <1>3 DEF ApOK, ApType
<1>5. q \in ApType
  BY <1>4, Zenon DEF ApType
<1>6. /\ SameKeys(q, p) /\ q.state = p.state /\ q.group = p.group
      /\ q.GTimeoutCtr = p.GTimeoutCtr
  BY <1>4, Zenon DEF ApType, SameKeys
<1> HIDE DEF q
<1>7. ApOK(q) /\ ~q.PTK_valid
  BY <1>3, <1>5, <1>6, ApKept DEF ApOK, Running, SameKeys
<1>8. ApOK(NewHandshake(q))
  BY <1>7, NewHandshakeOK
<1> QED BY <1>2, <1>8, ApSent

\* The PTK that 2/4 leads to is made from the ANonce of the running handshake.
LEMMA PtkCalcNegotiatingOK ==
    ASSUME ApSide, NEW r, ApOK(r), Running(r), NEW f \in Frames,
           PtkCalcNegotiating(r, f)
    PROVE  ApSide'
<1> DEFINE p == [r EXCEPT !.PTK = <<r.ANonce, f.nonce>>, !.PTK_valid = TRUE,
                          !.timers = 0, !.TimeoutCtr = 0,
                          !.pending_1_of_4_timeout = FALSE]
<1>1. r \in ApType /\ r.ANonce \in Nat /\ f.nonce \in Nat
  BY DEF ApOK, ApType, Frames
<1>2. CASE ap' = CalcPtk(r, f) /\ net' = net \cup Msg3of4(CalcPtk(r, f))
  <2>1. /\ <<r.ANonce, f.nonce>> \in PTKs /\ 0 \in Nat
        /\ 0 \in 0 .. PairwiseUpdateCount /\ 0 < PairwiseUpdateCount
    BY <1>1, UpdateCountAssumption DEF PTKs
  <2>2. p \in ApType
    BY <1>1, <2>1, Zenon DEF ApType
  <2>3. /\ p.ANonce = r.ANonce /\ p.installs = r.installs /\ p.TimeoutCtr = 0
        /\ p.PTK = <<r.ANonce, f.nonce>> /\ p.group = r.group
        /\ p.GTimeoutCtr = r.GTimeoutCtr /\ p.state = r.state
    BY <1>1, Zenon DEF ApType
  <2>4. CalcPtk(r, f) = PtkInitNegotiating(p)
    BY Zenon DEF CalcPtk
  <2> HIDE DEF p
  <2>5. Fresh(p)
    BY <2>2, <2>3 DEF Fresh, ApOK, Running
  <2>6. ApOK(CalcPtk(r, f))
    BY <2>1, <2>3, <2>4, <2>5, PtkInitNegotiatingOK
  <2> QED BY <1>2, <2>6, ApSent
<1>3. CASE ap' = [r EXCEPT !.state = "PTKCALCNEGOTIATING"] /\ UNCHANGED net
  <2> DEFINE q == [r EXCEPT !.state = "PTKCALCNEGOTIATING"]
  <2>1. "PTKCALCNEGOTIATING" \in PtkStates
    BY DEF PtkStates
  <2>2. q \in ApType
    BY <1>1, <2>1, Zenon DEF ApType
  <2>3. SameKeys(q, r) /\ q.group = r.group /\ q.GTimeoutCtr = r.GTimeoutCtr
    BY <1>1, Zenon DEF ApType, SameKeys
  <2> HIDE DEF q
  <2>4. ApOK(q)
    BY <2>2, <2>3, ApKept DEF ApOK
  <2> QED BY <1>3, <2>4, ApSent DEF q
<1> QED BY <1>2, <1>3 DEF PtkCalcNegotiating

\* The replay counters after an answer.
LEMMA AnsweredOK ==
    ASSUME NEW r, ApOK(r), NEW prev \in KeyReplays
    PROVE  /\ ApOK(Answered(r, prev)) /\ Answered(r, prev).state = r.state
           /\ SameKeys(Answered(r, prev), r)
<1> DEFINE q == Answered(r, prev)
<1>1. r \in ApType /\ r.key_replay \in KeyReplays
  BY DEF ApOK, ApType
<1>2. MarkAllInvalid(r.key_replay) \in KeyReplays
  BY <1>1, KeyReplayTypes
<1>3. q \in ApType
  BY <1>1, <1>2, Zenon DEF Answered, ApType
<1>4. /\ SameKeys(q, r) /\ q.state = r.state /\ q.group = r.group
      /\ q.GTimeoutCtr = r.GTimeoutCtr
  BY <1>1, Zenon DEF Answered, ApType, SameKeys
<1> HIDE DEF q
<1> QED BY <1>3, <1>4, ApKept DEF ApOK, Running, q

\* 2/4.
LEMMA ApMsg2of4OK == ApSide /\ ApMsg2of4 => ApSide'
<1> SUFFICES ASSUME ApSide, ApMsg2of4 PROVE ApSide'
  OBVIOUS
<1> DEFINE A(f) == Answered(ap, MarkInvalid(ap.key_replay, f.rc))
           B(f) == [A(f) EXCEPT !.SNonce = f.nonce]
<1>1. PICK f \in net : /\ ap.state \in {"PTKSTART", "PTKCALCNEGOTIATING"}
                       /\ PtkCalcNegotiating(B(f), f)
  BY Zenon DEF ApMsg2of4, Received
<1>2. f \in Frames /\ f.rc \in Nat /\ f.nonce \in Nat
  BY DEF ApSide, Frames
<1>3. MarkInvalid(ap.key_replay, f.rc) \in KeyReplays
  BY <1>2, KeyReplayTypes DEF ApSide, ApOK, ApType
<1> DEFINE a == A(f)
           b == [a EXCEPT !.SNonce = f.nonce]
<1>4. ApOK(a) /\ a.state = ap.state
  BY <1>3, AnsweredOK DEF ApSide
<1>5. PtkCalcNegotiating(b, f)
  BY <1>1, Zenon
<1> HIDE DEF a, A, B
<1>6. a \in ApType
  BY <1>4 DEF ApOK
<1>7. b \in ApType
  BY <1>2, <1>6, Zenon DEF ApType
<1>8. /\ SameKeys(b, a) /\ b.state = a.state /\ b.group = a.group
      /\ b.GTimeoutCtr = a.GTimeoutCtr
  BY <1>6, Zenon DEF ApType, SameKeys
<1> HIDE DEF b
<1>9. ApOK(b) /\ Running(b)
  BY <1>1, <1>4, <1>7, <1>8, ApKept DEF ApOK, Running
<1> QED BY <1>2, <1>5, <1>9, PtkCalcNegotiatingOK

\* 2/4 with another SNonce: the handshake goes on with the same ANonce.
LEMMA ApMsg2of4UpdateOK == ApSide /\ ApMsg2of4Update => ApSide'
<1> SUFFICES ASSUME ApSide, ApMsg2of4Update PROVE ApSide'
  OBVIOUS
<1> DEFINE A(f) == Answered(ap, MarkInvalid(ap.key_replay, f.rc))
           B(f) == [A(f) EXCEPT !.SNonce = f.nonce, !.alt_SNonce = ap.SNonce,
                                !.alt_snonce_valid = TRUE,
                                !.alt_replay_counter = Rc(ap)]
<1>1. PICK f \in net : /\ ap.state = "PTKINITNEGOTIATING"
                       /\ PtkCalcNegotiating(B(f), f)
  BY Zenon DEF ApMsg2of4Update, Received
<1>2. f \in Frames /\ f.rc \in Nat /\ f.nonce \in Nat
  BY DEF ApSide, Frames
<1>3. MarkInvalid(ap.key_replay, f.rc) \in KeyReplays
  BY <1>2, KeyReplayTypes DEF ApSide, ApOK, ApType
<1>4. ap.SNonce \in Nat /\ ap.key_replay \in KeyReplays
  BY DEF ApSide, ApOK, ApType
<1>5. Rc(ap) \in Nat
  BY <1>4 DEF Rc, KeyReplays, Slots, RSNA_MAX_EAPOL_RETRIES
<1> DEFINE a == A(f)
           b == [a EXCEPT !.SNonce = f.nonce, !.alt_SNonce = ap.SNonce,
                          !.alt_snonce_valid = TRUE,
                          !.alt_replay_counter = Rc(ap)]
<1>6. ApOK(a) /\ a.state = ap.state
  BY <1>3, AnsweredOK DEF ApSide
<1>7. PtkCalcNegotiating(b, f)
  BY <1>1, Zenon
<1> HIDE DEF a, A, B
<1>8. a \in ApType
  BY <1>6 DEF ApOK
<1>9. b \in ApType
  BY <1>2, <1>4, <1>5, <1>8, Zenon DEF ApType
<1>10. /\ SameKeys(b, a) /\ b.state = a.state /\ b.group = a.group
       /\ b.GTimeoutCtr = a.GTimeoutCtr
  BY <1>8, Zenon DEF ApType, SameKeys
<1> HIDE DEF b
<1>11. ApOK(b) /\ Running(b)
  BY <1>1, <1>6, <1>9, <1>10, ApKept DEF ApOK, Running
<1> QED BY <1>2, <1>7, <1>11, PtkCalcNegotiatingOK

\* 4/4: the only step that gives the driver a PTK.  The handshake was running,
\* so its ANonce is above those of all PTKs installed before.
LEMMA ApMsg4of4OK == ApSide /\ ApMsg4of4 => ApSide'
<1> SUFFICES ASSUME ApSide, ApMsg4of4 PROVE ApSide'
  OBVIOUS
<1> DEFINE A(f) == [Answered(ap, NoReplay) EXCEPT
                      !.SNonce = 0, !.PTK = Msg4Ptk(f), !.timers = 0,
                      !.alt_snonce_valid = @ /\ f.ptk = ap.PTK,
                      !.pending_1_of_4_timeout = FALSE]
           Done(r) == [r EXCEPT !.state = "PTKINITDONE", !.drv_ptk = r.PTK,
                                !.rekey_timer = TRUE,
                                !.installs = Append(@, r.PTK)]
<1>1. PICK f \in net : /\ ap.state = "PTKINITNEGOTIATING" /\ ap.PTK_valid
                       /\ Msg4Verifies(f)
                       /\ ap' = Done(A(f)) \/ ap' = Initialize(A(f))
                       /\ UNCHANGED net
  BY Zenon DEF ApMsg4of4, Received
<1> DEFINE b == Answered(ap, NoReplay)
           a == A(f)
<1>2. ApOK(ap) /\ ap.ANonce \in Nat /\ ap.alt_SNonce \in Nat /\ ap.PTK \in PTKs
  BY DEF ApSide, ApOK, ApType
<1>3. f.ptk \in PTKs /\ f.ptk[1] = ap.ANonce
  BY <1>1, <1>2 DEF ApSide, Frames, Msg4Verifies, ApOK
<1>4. ApOK(b) /\ b \in ApType /\ b.state = ap.state /\ SameKeys(b, ap)
  BY <1>2, AnsweredOK, KeyReplayTypes DEF ApOK
<1>5. a = [b EXCEPT !.SNonce = 0, !.PTK = f.ptk, !.timers = 0,
                    !.alt_snonce_valid = @ /\ f.ptk = ap.PTK,
                    !.pending_1_of_4_timeout = FALSE]
  BY Zenon DEF Msg4Ptk
<1> HIDE DEF a, b, A
<1>6. 0 \in Nat /\ (b.alt_snonce_valid /\ f.ptk = ap.PTK) \in BOOLEAN
  OBVIOUS
<1>7. a \in ApType
  BY <1>3, <1>4, <1>5, <1>6, ZenonT(60) DEF ApType
<1>8. /\ a.ANonce = b.ANonce /\ a.installs = b.installs /\ a.PTK = f.ptk
      /\ a.state = b.state /\ a.group = b.group /\ a.GTimeoutCtr = b.GTimeoutCtr
  BY <1>4, <1>5, Zenon DEF ApType
<1>9. ApOK(a) /\ Running(a)
  BY <1>1, <1>3, <1>4, <1>7, <1>8 DEF ApOK, Running, SameKeys
<1>10. CASE ap' = Initialize(a)
  <2>1. ApOK(Initialize(a))
    BY <1>9, InitializeOK
  <2> QED BY <1>1, <1>10, <2>1, ApSent
<1>11. CASE ap' = Done(a)
  <2> DEFINE d == Done(a)
  <2>0. a.installs \in Seq(PTKs) /\ a.PTK \in PTKs /\ a.ANonce \in Nat
    BY <1>7 DEF ApType
  <2>1. a.PTK[1] = a.ANonce
    BY <1>3, <1>4, <1>8 DEF SameKeys
  <2>2. /\ Append(a.installs, a.PTK) \in Seq(PTKs)
        /\ Increasing(Append(a.installs, a.PTK), 1)
        /\ AllBelow(Append(a.installs, a.PTK), 1, a.PTK[1] + 1)
    BY <1>9, <2>0, <2>1, OneMorePtk DEF ApOK
  <2>3. "PTKINITDONE" \in PtkStates
    BY DEF PtkStates
  <2>4. d \in ApType
    BY <1>7, <2>0, <2>2, <2>3, Zenon DEF ApType
  <2>5. /\ d.ANonce = a.ANonce /\ d.installs = Append(a.installs, a.PTK)
        /\ d.PTK = a.PTK /\ d.state = "PTKINITDONE" /\ d.group = a.group
        /\ d.GTimeoutCtr = a.GTimeoutCtr
    BY <1>7, Zenon DEF ApType
  <2> HIDE DEF d
  <2>6. ApOK(d)
    BY <1>9, <2>1, <2>2, <2>4, <2>5 DEF ApOK, Running
  <2>7. ap' = d
    BY <1>11 DEF d
  <2> QED BY <1>1, <2>6, <2>7, ApSent
<1> QED BY <1>1, <1>10, <1>11 DEF a

\* 2/2.
LEMMA ApMsg2of2OK == ApSide /\ ApMsg2of2 => ApSide'
<1> SUFFICES ASSUME ApSide, ApMsg2of2 PROVE ApSide'
  OBVIOUS
<1> DEFINE b == Answered(ap, NoReplay)
           g == GroupIdle(b)
           q == [g EXCEPT !.SNonce = 0, !.timers = 0, !.pending_1_of_4_timeout = FALSE]
<1>1. ap' = q /\ UNCHANGED net
  BY Zenon DEF ApMsg2of2
<1>2. ApOK(b)
  BY AnsweredOK, KeyReplayTypes DEF ApSide
<1> HIDE DEF b
<1>3. ApOK(g) /\ g \in ApType
  BY <1>2, GroupIdleOK DEF ApOK
<1> HIDE DEF g
<1>4. q \in ApType
  BY <1>3, Zenon, 0 \in Nat DEF ApType
<1>5. /\ SameKeys(q, g) /\ q.state = g.state /\ q.group = g.group
      /\ q.GTimeoutCtr = g.GTimeoutCtr
  BY <1>3, Zenon DEF ApType, SameKeys
<1> HIDE DEF q
<1>6. ApOK(q)
  BY <1>3, <1>4, <1>5, ApKept DEF ApOK, Running
<1> QED BY <1>1, <1>6, ApSent

\* A new GTK, with or without 1/2.
LEMMA NewGtkSent ==
    ASSUME ApSide, NEW r, ApOK(r), ap' = NewGtk(r), net' = net \cup NewGtkFrames(r)
    PROVE  ApSide'
<1>1. ApOK(NewGtk(r))
  BY NewGtkOK
<1>2. net' = net \/ net' = net \cup Msg1of2(NewGtk(r))
  BY DEF NewGtkFrames
<1> QED BY <1>1, <1>2, ApSent

\* An EAPOL-Key Request starts a handshake with a new ANonce, or a GTK rekey.
LEMMA ApRequestOK == ApSide /\ ApRequest => ApSide'
<1> SUFFICES ASSUME ApSide, ApRequest PROVE ApSide'
  OBVIOUS
<1> DEFINE A(f) == [ap EXCEPT !.timers = 0, !.pending_1_of_4_timeout = FALSE,
                              !.req_next = f.rc + 1, !.SNonce = 0]
           R(f) == NewHandshake([A(f) EXCEPT !.PTK_valid = FALSE])
<1>1. PICK f \in net : \/ ap' = R(f) /\ net' = net \cup Msg1of4(R(f))
                       \/ ap' = NewGtk(A(f)) /\ net' = net \cup NewGtkFrames(A(f))
  BY Zenon DEF ApRequest, Received
<1>2. f.rc + 1 \in Nat /\ 0 \in Nat
  BY DEF ApSide, Frames
<1>3. ApOK(ap) /\ ap \in ApType
  BY DEF ApSide, ApOK
<1> DEFINE a == A(f)
           b == [a EXCEPT !.PTK_valid = FALSE]
<1>4. a \in ApType
  BY <1>2, <1>3, Zenon DEF ApType
<1>5. /\ SameKeys(a, ap) /\ a.state = ap.state /\ a.group = ap.group
      /\ a.GTimeoutCtr = ap.GTimeoutCtr
  BY <1>3, Zenon DEF ApType, SameKeys
<1>6. R(f) = NewHandshake(b)
  BY Zenon
<1> HIDE DEF a, A, R
<1>7. ApOK(a)
  BY <1>3, <1>4, <1>5, ApKept DEF ApOK, Running
<1>8. b \in ApType
  BY <1>4, Zenon DEF ApType
<1>9. /\ b.PTK_valid = FALSE /\ b.ANonce = a.ANonce /\ b.installs = a.installs
      /\ b.state = a.state /\ b.group = a.group /\ b.GTimeoutCtr = a.GTimeoutCtr
  BY <1>4, Zenon DEF ApType
<1> HIDE DEF b
<1>10. ApOK(b) /\ ~b.PTK_valid
  BY <1>7, <1>8, <1>9 DEF ApOK, Running
<1>11. ApOK(NewHandshake(b))
  BY <1>10, NewHandshakeOK
<1>12. CASE ap' = R(f) /\ net' = net \cup Msg1of4(R(f))
  BY <1>6, <1>11, <1>12, ApSent
<1>13. CASE ap' = NewGtk(a) /\ net' = net \cup NewGtkFrames(a)
  BY <1>7, <1>13, NewGtkSent
<1> QED BY <1>1, <1>12, <1>13 DEF a

\* wpa_rekey_gtk().
LEMMA ApRekeyGtkOK == ApSide /\ ApRekeyGtk => ApSide'
  BY NewGtkSent DEF ApRekeyGtk, ApSide

\* wpa_rekey_ptk().
LEMMA ApRekeyPtkOK == ApSide /\ ApRekeyPtk => ApSide'
<1> SUFFICES ASSUME ApSide, ApRekeyPtk PROVE ApSide'
  OBVIOUS
<1> DEFINE q == [ap EXCEPT !.PTK_valid = FALSE, !.rekey_timer = FALSE]
<1>1. ap' = NewHandshake(q) /\ net' = net \cup Msg1of4(NewHandshake(q))
  BY Zenon DEF ApRekeyPtk
<1>2. ApOK(ap) /\ ap \in ApType
  BY DEF ApSide, ApOK
<1>3. q \in ApType
  BY <1>2, Zenon DEF ApType
<1>4. /\ q.PTK_valid = FALSE /\ q.ANonce = ap.ANonce /\ q.installs = ap.installs
      /\ q.state = ap.state /\ q.group = ap.group
      /\ q.GTimeoutCtr = ap.GTimeoutCtr
  BY <1>2, Zenon DEF ApType
<1> HIDE DEF q
<1>5. ApOK(q) /\ ~q.PTK_valid
  BY <1>2, <1>3, <1>4 DEF ApOK, Running
<1>6. ApOK(NewHandshake(q))
  BY <1>5, NewHandshakeOK
<1> QED BY <1>1, <1>6, ApSent

\* wpa_auth_eapol_key_tx_status().
LEMMA ApTxStatusOK == ApSide /\ ApTxStatus => ApSide'
<1> SUFFICES ASSUME ApSide, ApTxStatus PROVE ApSide'
  OBVIOUS
<1> DEFINE q == [ap EXCEPT !.timers = 1]
<1>1. ApOK(ap) /\ ap \in ApType /\ 1 \in Nat
  BY DEF ApSide, ApOK
<1>2. q \in ApType
  BY <1>1, Zenon DEF ApType
<1>3. /\ SameKeys(q, ap) /\ q.state = ap.state /\ q.group = ap.group
      /\ q.GTimeoutCtr = ap.GTimeoutCtr
  BY <1>1, Zenon DEF ApType, SameKeys
<1>4. ap' = q /\ UNCHANGED net
  BY DEF ApTxStatus
<1> HIDE DEF q
<1>5. ApOK(q)
  BY <1>1, <1>2, <1>3, ApKept DEF ApOK, Running
<1> QED BY <1>4, <1>5, ApSent

\* wpa_send_eapol_timeout(): the tries stay below their limits.
LEMMA ApTimeoutOK == ApSide /\ ApTimeout => ApSide'
<1> SUFFICES ASSUME ApSide, ApTimeout PROVE ApSide'
  OBVIOUS
<1> DEFINE r == [ap EXCEPT !.timers = @ - 1, !.pending_1_of_4_timeout = FALSE]
<1>1. ApOK(ap) /\ ap \in ApType /\ ap.timers - 1 \in Nat
  BY DEF ApSide, ApOK, ApTimeout, ApType
<1>2. /\ ap.TimeoutCtr \in 0 .. PairwiseUpdateCount
      /\ ap.GTimeoutCtr \in 0 .. GroupUpdateCount
  BY <1>1 DEF ApType
<1>3. r \in ApType
  BY <1>1, Zenon DEF ApType
<1>4. /\ SameKeys(r, ap) /\ r.state = ap.state /\ r.group = ap.group
      /\ r.GTimeoutCtr = ap.GTimeoutCtr /\ r.TimeoutCtr = ap.TimeoutCtr
  BY <1>1, Zenon DEF ApType, SameKeys
<1>5. \/ /\ ap.state \in {"PTKSTART", "PTKCALCNEGOTIATING"} /\ ~Msg1Limit(ap)
         /\ ap' = PtkStart(r) /\ net' = net \cup Msg1of4(PtkStart(r))
      \/ /\ ap.state = "PTKINITNEGOTIATING" /\ ~Msg3Limit(ap)
         /\ ap' = PtkInitNegotiating(r)
         /\ net' = net \cup Msg3of4(PtkInitNegotiating(r))
      \/ ap' = Initialize(r) /\ net' = net
      \/ /\ ~GroupLimit(ap) /\ ap' = RekeyNegotiating(r)
         /\ net' = net \cup Msg1of2(RekeyNegotiating(r))
      \/ ap' = Initialize(GroupIdle(r)) /\ net' = net
      \/ ap' = r /\ net' = net
  BY Zenon DEF ApTimeout
<1> HIDE DEF r
<1>6. ApOK(r)
  BY <1>1, <1>3, <1>4, ApKept DEF ApOK, Running
<1>7. CASE /\ ap.state \in {"PTKSTART", "PTKCALCNEGOTIATING"} /\ ~Msg1Limit(ap)
           /\ ap' = PtkStart(r) /\ net' = net \cup Msg1of4(PtkStart(r))
  <2>1. Fresh(r) /\ r.TimeoutCtr < PairwiseUpdateCount
    BY <1>2, <1>4, <1>6, <1>7, UpdateCountAssumption DEF Fresh, ApOK, Running, Msg1Limit
  <2>2. ApOK(PtkStart(r))
    BY <2>1, PtkStartOK
  <2> QED BY <1>7, <2>2, ApSent
<1>8. CASE /\ ap.state = "PTKINITNEGOTIATING" /\ ~Msg3Limit(ap)
           /\ ap' = PtkInitNegotiating(r)
           /\ net' = net \cup Msg3of4(PtkInitNegotiating(r))
  <2>1. Fresh(r) /\ r.TimeoutCtr < PairwiseUpdateCount
    BY <1>2, <1>4, <1>6, <1>8, UpdateCountAssumption DEF Fresh, ApOK, Running, Msg3Limit
  <2>2. ApOK(PtkInitNegotiating(r))
    BY <2>1, PtkInitNegotiatingOK
  <2> QED BY <1>8, <2>2, ApSent
<1>9. CASE /\ ~GroupLimit(ap) /\ ap' = RekeyNegotiating(r)
           /\ net' = net \cup Msg1of2(RekeyNegotiating(r))
  <2>1. r.GTimeoutCtr < GroupUpdateCount
    BY <1>2, <1>4, <1>9, UpdateCountAssumption DEF GroupLimit
  <2>2. ApOK(RekeyNegotiating(r))
    BY <1>6, <2>1, RekeyNegotiatingOK
  <2> QED BY <1>9, <2>2, ApSent
<1>10. CASE net' = net /\ \/ ap' = Initialize(r)
                          \/ ap' = Initialize(GroupIdle(r))
                          \/ ap' = r
  <2>1. ApOK(Initialize(r)) /\ ApOK(Initialize(GroupIdle(r)))
    BY <1>6, InitializeOK, GroupIdleOK
  <2>2. UNCHANGED net
    BY <1>10
  <2>3. CASE ap' = Initialize(r)
    BY <2>1, <2>2, <2>3, ApSent
  <2>4. CASE ap' = Initialize(GroupIdle(r))
    BY <2>1, <2>2, <2>4, ApSent
  <2>5. CASE ap' = r
    BY <1>6, <2>2, <2>5, ApSent
  <2> QED BY <1>10, <2>3, <2>4, <2>5
<1> QED BY <1>5, <1>7, <1>8, <1>9, <1>10

\* Every step of the authenticator.
LEMMA ApNextOK == ApSide /\ (ApNext \/ ApAssociates) => ApSide'
  BY ApAuthEventOK, ApDeauthOK, ApNewStaOK, ApStaAssociatedAgainOK, ApReAuthOK,
     ApMsg2of4OK, ApMsg2of4UpdateOK, ApMsg4of4OK, ApMsg2of2OK, ApRequestOK,
     ApTimeoutOK, ApTxStatusOK, ApRekeyPtkOK, ApRekeyGtkOK, Zenon
     DEF ApNext, ApAssociates

(***************************************************************************)
(* The supplicant's part of the inductive invariant.                       *)
(***************************************************************************)

\* No PTK that was installed or is in use was made from SNonce n or later.
Below(r, n) == AllBelow(r.installs, 2, n) /\ (r.ptk # NoPTK => r.ptk[2] < n)

\* The SNonce to be used next, and that of a temporary PTK, are above those of
\* all PTKs in use so far; so is that of a PTK that is not installed yet.
StaOK(r) ==
    /\ r \in StaType
    /\ Below(r, r.snonce + 1)
    /\ ~r.renew_snonce => Below(r, r.snonce)
    /\ r.tptk # NoPTK => Below(r, r.tptk[2]) /\ r.tptk[2] <= r.snonce
    /\ r.ptk # NoPTK /\ ~r.installed => AllBelow(r.installs, 2, r.ptk[2])
    /\ Increasing(r.installs, 2)

\* One more PTK below n.
LEMMA BelowOneMore ==
    ASSUME NEW s \in Seq(PTKs), NEW p \in PTKs, NEW n \in Nat,
           AllBelow(s, 2, n), p[2] < n
    PROVE  AllBelow(Append(s, p), 2, n)
<1>1. /\ DOMAIN Append(s, p) = 1 .. Len(s) + 1
      /\ \A i \in 1 .. Len(s) : Append(s, p)[i] = s[i]
      /\ Append(s, p)[Len(s) + 1] = p /\ Len(s) \in Nat
      /\ DOMAIN s = 1 .. Len(s)
  OBVIOUS
<1> QED BY <1>1 DEF AllBelow

SamePtks(q, r) ==
    /\ q.snonce = r.snonce /\ q.tptk = r.tptk /\ q.ptk = r.ptk
    /\ q.installed = r.installed /\ q.installs = r.installs

\* A step that changes neither the PTKs nor the SNonce.
LEMMA StaKept ==
    ASSUME NEW r, StaOK(r), NEW q \in StaType, SamePtks(q, r),
           ~q.renew_snonce => ~r.renew_snonce
    PROVE  StaOK(q)
  BY DEF StaOK, SamePtks, Below

\* wpa_sm_notify_disassoc().
LEMMA DisassociatedOK ==
    ASSUME NEW r, StaOK(r)
    PROVE  StaOK(Disassociated(r))
<1> DEFINE q == Disassociated(r)
<1>1. r \in StaType /\ NoPTK \in PTKs /\ 0 \in Nat
  BY DEF StaOK, NoPTK, PTKs
<1>2. q \in StaType
  BY <1>1, Zenon DEF Disassociated, StaType
<1>3. /\ q.snonce = r.snonce /\ q.tptk = NoPTK /\ q.ptk = NoPTK
      /\ q.installs = r.installs /\ q.renew_snonce = r.renew_snonce
  BY <1>1, Zenon DEF Disassociated, StaType
<1> HIDE DEF q
<1> QED BY <1>2, <1>3 DEF StaOK, Below, q

\* A PTK whose MIC has been seen is installed when it is new, and is above all
\* that were installed before.
LEMMA InstallPtkOK ==
    ASSUME NEW r, StaOK(r), r.ptk # NoPTK
    PROVE  StaOK(InstallPtk(r))
<1>1. CASE r.installed
  BY <1>1 DEF InstallPtk
<1>2. CASE ~r.installed
  <2> DEFINE q == InstallPtk(r)
             s == Append(r.installs, r.ptk)
  <2>1. r \in StaType
    BY DEF StaOK
  <2>2. /\ r.installs \in Seq(PTKs) /\ r.ptk \in PTKs /\ r.snonce \in Nat
        /\ r.tptk \in PTKs
    BY <2>1 DEF StaType
  <2>3. r.ptk[2] \in Nat /\ r.tptk[2] \in Nat
    BY <2>2 DEF PTKs
  <2>4. AllBelow(r.installs, 2, r.ptk[2]) /\ Increasing(r.installs, 2)
    BY <1>2 DEF StaOK
  <2>5. s \in Seq(PTKs) /\ Increasing(s, 2)
    BY <2>2, <2>4, OneMorePtk
  <2>6. \A n \in Nat : Below(r, n) => AllBelow(s, 2, n)
    BY <2>2, BelowOneMore DEF Below
  <2>7. q \in StaType
    BY <1>2, <2>1, <2>5, Zenon DEF InstallPtk, StaType
  <2>8. /\ q.installs = s /\ q.installed = TRUE /\ q.ptk = r.ptk
        /\ q.tptk = r.tptk /\ q.snonce = r.snonce
        /\ q.renew_snonce = r.renew_snonce
    BY <1>2, <2>1, Zenon DEF InstallPtk, StaType
  <2> HIDE DEF q, s
  <2>9. \A n \in Nat : Below(r, n) => Below(q, n)
    BY <2>6, <2>8 DEF Below
  <2>10. r.snonce + 1 \in Nat
    BY <2>2
  <2> QED BY <2>2, <2>3, <2>5, <2>7, <2>8, <2>9, <2>10 DEF StaOK, q
<1> QED BY <1>1, <1>2

\* wpa_supplicant_install_gtk().
LEMMA InstallGtkOK ==
    ASSUME NEW r, StaOK(r), NEW gtk \in Nat
    PROVE  StaOK(InstallGtk(r, gtk))
<1>1. CASE r.gtk = gtk
  BY <1>1 DEF InstallGtk
<1>2. CASE r.gtk # gtk
  <2> DEFINE q == InstallGtk(r, gtk)
  <2>1. r \in StaType
    BY DEF StaOK
  <2>2. r.gtk_installs \in Seq(Nat \X Nat) /\ r.assoc \in Nat
    BY <2>1 DEF StaType
  <2>3. Append(r.gtk_installs, <<r.assoc, gtk>>) \in Seq(Nat \X Nat)
    BY <2>2
  <2>4. q \in StaType
    BY <1>2, <2>1, <2>3, Zenon DEF InstallGtk, StaType
  <2>5. SamePtks(q, r) /\ q.renew_snonce = r.renew_snonce
    BY <1>2, <2>1, Zenon DEF InstallGtk, StaType, SamePtks
  <2> HIDE DEF q
  <2> QED BY <2>4, <2>5, StaKept DEF q
<1> QED BY <1>1, <1>2

StaSide == StaOK(sta) /\ net \subseteq Frames

\* wpa_supplicant_verify_eapol_key_mic(): a temporary PTK becomes the PTK.
LEMMA VerifiedOK ==
    ASSUME StaSide, NEW f \in Frames, MicVerifies(f)
    PROVE  StaOK(Verified(f)) /\ Verified(f).ptk = f.ptk
<1> DEFINE r == [sta EXCEPT !.rx_replay_counter = f.rc]
<1>1. StaOK(sta) /\ sta \in StaType /\ f.rc \in Nat /\ f.ptk \in PTKs /\ NoPTK \in PTKs
  BY DEF StaSide, StaOK, Frames, NoPTK, PTKs
<1>2. r \in StaType
  BY <1>1, Zenon DEF StaType
<1>3. SamePtks(r, sta) /\ r.renew_snonce = sta.renew_snonce
  BY <1>1, Zenon DEF StaType, SamePtks
<1>4. CASE f.ptk # sta.tptk
  <2>1. Verified(f) = r
    BY <1>4, Zenon DEF Verified
  <2> HIDE DEF r
  <2>2. StaOK(r)
    BY <1>1, <1>2, <1>3, StaKept
  <2> QED BY <1>3, <1>4, <2>1, <2>2 DEF MicVerifies, SamePtks
<1>5. CASE f.ptk = sta.tptk
  <2> DEFINE q == [r EXCEPT !.tptk = NoPTK, !.ptk = f.ptk, !.installed = FALSE,
                            !.renew_snonce = TRUE]
  <2>1. Verified(f) = q
    BY <1>5, Zenon DEF Verified
  <2> HIDE DEF r
  <2>2. q \in StaType
    BY <1>1, <1>2, Zenon DEF StaType
  <2>3. /\ q.tptk = NoPTK /\ q.ptk = f.ptk /\ q.installed = FALSE
        /\ q.renew_snonce = TRUE /\ q.snonce = r.snonce /\ q.installs = r.installs
    BY <1>2, Zenon DEF StaType
  <2> HIDE DEF q
  <2>4. /\ q.snonce = sta.snonce /\ q.installs = sta.installs
    BY <1>3, <2>3 DEF SamePtks
  <2>5. /\ AllBelow(sta.installs, 2, f.ptk[2]) /\ f.ptk[2] <= sta.snonce
        /\ AllBelow(sta.installs, 2, sta.snonce + 1) /\ Increasing(sta.installs, 2)
    BY <1>1, <1>5 DEF StaOK, Below, MicVerifies
  <2>6. f.ptk[2] \in Nat /\ sta.snonce \in Nat
    BY <1>1 DEF PTKs, StaType
  <2>7. f.ptk[2] < sta.snonce + 1
    BY <2>5, <2>6
  <2>8. StaOK(q)
    BY <2>2, <2>3, <2>4, <2>5, <2>7 DEF StaOK, Below
  <2> QED BY <2>1, <2>3, <2>8
<1> QED BY <1>4, <1>5

(***************************************************************************)
(* The supplicant's actions.                                               *)
(***************************************************************************)

\* What the supplicant sends are frames.
LEMMA StaFrames ==
    ASSUME NEW f \in Frames, NEW n \in Nat, NEW p \in PTKs
    PROVE  /\ Msg2of4(f, n) \subseteq Frames
           /\ Msg4of4(f, p) \subseteq Frames
           /\ Msg2of2(f, p) \subseteq Frames
<1>1. f.rc \in Nat /\ f.nonce \in Nat /\ 0 \in Nat
  BY DEF Frames
<1>2. <<f.nonce, n>> \in PTKs
  BY <1>1 DEF PTKs
<1>3. {"2/4", "4/4", "2/2"} \subseteq FrameTypes
  BY DEF FrameTypes
<1> QED BY <1>1, <1>2, <1>3 DEF Msg2of4, Msg4of4, Msg2of2, Frame, Frames

\* wpa_sm_notify_assoc().
LEMMA StaNotifyAssocOK ==
    ASSUME StaSide, NEW a \in Nat, StaNotifyAssoc(a)
    PROVE  StaSide'
<1> DEFINE q == [sta EXCEPT !.associated = TRUE, !.assoc = a,
                            !.rx_replay_counter = 0, !.renew_snonce = TRUE,
                            !.tptk = NoPTK, !.ptk = NoPTK, !.installed = FALSE,
                            !.gtk = 0]
<1>1. StaOK(sta) /\ sta \in StaType /\ NoPTK \in PTKs /\ 0 \in Nat
  BY DEF StaSide, StaOK, NoPTK, PTKs
<1>2. q \in StaType
  BY <1>1, Zenon DEF StaType
<1>3. /\ q.snonce = sta.snonce /\ q.tptk = NoPTK /\ q.ptk = NoPTK
      /\ q.installs = sta.installs /\ q.renew_snonce = TRUE
  BY <1>1, Zenon DEF StaType
<1>4. sta' = q /\ UNCHANGED net
  BY Zenon DEF StaNotifyAssoc
<1> HIDE DEF q
<1>5. StaOK(q)
  BY <1>1, <1>2, <1>3 DEF StaOK, Below
<1> QED BY <1>4, <1>5 DEF StaSide

\* Disassociation.
LEMMA StaDisassocOK == StaSide /\ StaDisassoc => StaSide'
  BY DisassociatedOK DEF StaSide, StaDisassoc

\* 1/4: the SNonce of the new temporary PTK is fresh, or was never used in a
\* PTK whose MIC was seen.
LEMMA StaMsg1of4OK == StaSide /\ StaMsg1of4 => StaSide'
<1> SUFFICES ASSUME StaSide, StaMsg1of4 PROVE StaSide'
  OBVIOUS
<1>1. PICK f \in net :
         /\ sta' = [sta EXCEPT !.snonce = NewSNonce, !.renew_snonce = FALSE,
                               !.tptk = NewTptk(f.nonce), !.anonce = f.nonce]
         /\ net' = net \cup Msg2of4(f, NewSNonce)
  BY Zenon DEF StaMsg1of4, Received
<1> DEFINE n == NewSNonce
           t == NewTptk(f.nonce)
           q == [sta EXCEPT !.snonce = n, !.renew_snonce = FALSE,
                            !.tptk = t, !.anonce = f.nonce]
<1>2. f \in Frames /\ f.nonce \in Nat
  BY DEF StaSide, Frames
<1>3. StaOK(sta) /\ sta \in StaType
  BY DEF StaSide, StaOK
<1>4. /\ sta.snonce \in Nat /\ sta.tptk \in PTKs /\ sta.installs \in Seq(PTKs)
      /\ sta.ptk \in PTKs
  BY <1>3 DEF StaType
<1>5. sta.tptk[2] \in Nat /\ sta.ptk[2] \in Nat
  BY <1>4 DEF PTKs
<1>6. n \in Nat /\ sta.snonce <= n
  BY <1>4 DEF NewSNonce
<1>7. Below(sta, n)
  BY <1>3 DEF NewSNonce, StaOK
<1>8. t = sta.tptk \/ t = <<f.nonce, n>>
  BY Zenon DEF NewTptk
<1> HIDE DEF n, t
<1>9. t \in PTKs
  BY <1>2, <1>4, <1>6, <1>8 DEF PTKs
<1>10. t # NoPTK => Below(sta, t[2]) /\ t[2] <= n
  <2>1. CASE t = sta.tptk
    BY <1>3, <1>4, <1>5, <1>6, <2>1 DEF StaOK
  <2>2. CASE t = <<f.nonce, n>>
    BY <1>6, <1>7, <2>2
  <2> QED BY <1>8, <2>1, <2>2
<1>11. Below(sta, n + 1)
  <2>1. AllBelow(sta.installs, 2, n + 1)
    BY <1>4, <1>6, <1>7, BelowMore DEF Below
  <2> QED BY <1>5, <1>6, <1>7, <2>1 DEF Below
<1>12. q \in StaType
  BY <1>2, <1>3, <1>6, <1>9, Zenon DEF StaType
<1>13. /\ q.snonce = n /\ q.tptk = t /\ q.ptk = sta.ptk
       /\ q.installed = sta.installed /\ q.installs = sta.installs
  BY <1>3, Zenon DEF StaType
<1>14. sta' = q /\ net' = net \cup Msg2of4(f, n)
  BY <1>1, Zenon DEF n, t
<1> HIDE DEF q
<1>15. StaOK(q)
  BY <1>3, <1>7, <1>10, <1>11, <1>12, <1>13 DEF StaOK, Below
<1>16. Msg2of4(f, n) \subseteq Frames
  BY <1>2, <1>4, <1>6, StaFrames
<1> QED BY <1>14, <1>15, <1>16 DEF StaSide

\* 3/4, with its failures.
LEMMA StaMsg3of4OK == StaSide /\ StaMsg3of4 => StaSide'
<1> SUFFICES ASSUME StaSide, StaMsg3of4 PROVE StaSide'
  OBVIOUS
<1> DEFINE R(f) == [Verified(f) EXCEPT !.renew_snonce = TRUE]
           Ok(f) == [InstallGtk(InstallPtk(R(f)), f.gtk) EXCEPT !.msg_3_of_4_ok = TRUE]
<1>1. PICK f \in net :
         /\ MicVerifies(f)
         /\ \/ sta' = Disassociated(Verified(f))
            \/ sta' = Ok(f)
            \/ sta' = Disassociated(R(f))
            \/ sta' = Disassociated(InstallPtk(R(f)))
         /\ net' = net \/ net' = net \cup Msg4of4(f, Verified(f).ptk)
  BY Zenon DEF StaMsg3of4, Received
<1>2. f \in Frames /\ f.gtk \in Nat /\ f.ptk \in PTKs
  BY DEF StaSide, Frames
<1> DEFINE v == Verified(f)
           r == R(f)
           i == InstallPtk(r)
           g == InstallGtk(i, f.gtk)
           q == [g EXCEPT !.msg_3_of_4_ok = TRUE]
<1>3. StaOK(v) /\ v \in StaType /\ v.ptk = f.ptk /\ f.ptk # NoPTK
  BY <1>1, <1>2, VerifiedOK DEF StaOK, MicVerifies
<1>4. q = Ok(f) /\ r = [v EXCEPT !.renew_snonce = TRUE]
  BY Zenon
<1> HIDE DEF v, R, r, Ok
<1>5. r \in StaType
  BY <1>3, <1>4, Zenon DEF StaType
<1>6. SamePtks(r, v) /\ r.renew_snonce = TRUE
  BY <1>3, <1>4, Zenon DEF StaType, SamePtks
<1>7. StaOK(r) /\ r.ptk # NoPTK
  BY <1>3, <1>5, <1>6, StaKept DEF SamePtks
<1>8. StaOK(i)
  BY <1>7, InstallPtkOK
<1> HIDE DEF i
<1>9. StaOK(g) /\ g \in StaType
  BY <1>2, <1>8, InstallGtkOK DEF StaOK
<1> HIDE DEF g
<1>10. q \in StaType
  BY <1>9, Zenon DEF StaType
<1>11. SamePtks(q, g) /\ q.renew_snonce = g.renew_snonce
  BY <1>9, Zenon DEF StaType, SamePtks
<1> HIDE DEF q
<1>12. StaOK(q)
  BY <1>9, <1>10, <1>11, StaKept
<1>13. /\ StaOK(Disassociated(v)) /\ StaOK(Disassociated(r))
       /\ StaOK(Disassociated(i))
  BY <1>3, <1>7, <1>8, DisassociatedOK
<1>14. StaOK(sta')
  <2>1. \/ sta' = Disassociated(v) \/ sta' = q
        \/ sta' = Disassociated(r) \/ sta' = Disassociated(i)
    BY <1>1, <1>4, Zenon DEF v, r, i
  <2> QED BY <1>12, <1>13, <2>1
<1>15. net' \subseteq Frames
  <2>1. Msg4of4(f, v.ptk) \subseteq Frames
    BY <1>2, <1>3, StaFrames, 0 \in Nat
  <2> QED BY <1>1, <2>1 DEF StaSide, v
<1> QED BY <1>14, <1>15 DEF StaSide

\* 1/2.
LEMMA StaMsg1of2OK == StaSide /\ StaMsg1of2 => StaSide'
<1> SUFFICES ASSUME StaSide, StaMsg1of2 PROVE StaSide'
  OBVIOUS
<1>1. PICK f \in net :
         /\ MicVerifies(f)
         /\ \/ sta' = InstallGtk(Verified(f), f.gtk)
            \/ sta' = Disassociated(Verified(f))
         /\ net' = net \/ net' = net \cup Msg2of2(f, Verified(f).ptk)
  BY Zenon DEF StaMsg1of2, Received
<1>2. f \in Frames /\ f.gtk \in Nat /\ f.ptk \in PTKs
  BY DEF StaSide, Frames
<1>3. StaOK(Verified(f)) /\ Verified(f).ptk = f.ptk
  BY <1>1, <1>2, VerifiedOK
<1>4. StaOK(InstallGtk(Verified(f), f.gtk)) /\ StaOK(Disassociated(Verified(f)))
  BY <1>2, <1>3, InstallGtkOK, DisassociatedOK
<1>5. Msg2of2(f, Verified(f).ptk) \subseteq Frames
  BY <1>2, <1>3, StaFrames, 0 \in Nat
<1> QED BY <1>1, <1>4, <1>5 DEF StaSide

\* wpa_sm_key_request().
LEMMA StaRequestOK == StaSide /\ StaRequest => StaSide'
<1> SUFFICES ASSUME StaSide, StaRequest PROVE StaSide'
  OBVIOUS
<1> DEFINE q == [sta EXCEPT !.request_counter = @ + 1]
<1>1. StaOK(sta) /\ sta \in StaType
  BY DEF StaSide, StaOK
<1>2. /\ sta.request_counter \in Nat /\ sta.request_counter + 1 \in Nat
      /\ sta.ptk \in PTKs /\ 0 \in Nat
  BY <1>1 DEF StaType
<1>3. q \in StaType
  BY <1>1, <1>2, Zenon DEF StaType
<1>4. SamePtks(q, sta) /\ q.renew_snonce = sta.renew_snonce
  BY <1>1, Zenon DEF StaType, SamePtks
<1>5. PICK t \in FrameTypes :
         /\ sta' = q
         /\ net' = net \cup {Frame(t, sta.request_counter, 0, sta.ptk, 0)}
  BY Zenon DEF StaRequest, FrameTypes
<1> HIDE DEF q
<1>6. StaOK(q)
  BY <1>1, <1>3, <1>4, StaKept
<1>7. Frame(t, sta.request_counter, 0, sta.ptk, 0) \in Frames
  BY <1>2, Zenon DEF Frame, Frames
<1> QED BY <1>5, <1>6, <1>7 DEF StaSide

(***************************************************************************)
(* Both sides together.                                                    *)
(***************************************************************************)

Inv == ApSide /\ StaSide

\* The initial state satisfies the invariant.
LEMMA InitInv == Init => Inv
<1> SUFFICES ASSUME Init PROVE Inv
  OBVIOUS
<1>1. PICK conf \in RetryConfigs : ap = NewAp(0, 0, 1, conf, << >>)
  BY DEF Init, ApInit
<1>2. /\ << >> \in Seq(PTKs) /\ conf \in BOOLEAN
      /\ \A k, n : AllBelow(<< >>, k, n) /\ Increasing(<< >>, k)
  BY <1>1, RetriesAssumption DEF AllBelow, Increasing
<1>3. ApOK(ap)
  BY <1>1, <1>2, NewApOK
<1>4. PICK policy \in SNoncePolicies : sta = NewSta(policy)
  BY DEF Init, StaInit
<1>5. sta \in StaType
  <2>1. /\ NoPTK \in PTKs /\ 0 \in Nat /\ policy \in {"keep", "latest", "first"}
        /\ << >> \in Seq(PTKs) /\ << >> \in Seq(Nat \X Nat)
    BY PolicyAssumption DEF NoPTK, PTKs
  <2> QED BY <1>4, <2>1, Zenon DEF NewSta, StaType
<1>6. /\ sta.installs = << >> /\ sta.ptk = NoPTK /\ sta.tptk = NoPTK
      /\ sta.renew_snonce = TRUE
  BY <1>4 DEF NewSta
<1>7. StaOK(sta)
  BY <1>2, <1>5, <1>6 DEF StaOK, Below
<1>8. net \subseteq Frames
  BY DEF Init
<1> QED BY <1>3, <1>7, <1>8 DEF Inv, ApSide, StaSide

\* Every step keeps the invariant: each side preserves its own part.
LEMMA NextInv == Inv /\ [Next]_vars => Inv'
<1> SUFFICES ASSUME Inv, [Next]_vars PROVE Inv'
  OBVIOUS
<1> USE DEF Inv
<1>1. CASE (ApNext \/ ApAssociates) /\ UNCHANGED sta
  <2>1. ApSide'
    BY <1>1, ApNextOK
  <2> QED BY <1>1, <2>1 DEF ApSide, StaSide
<1>2. CASE StaAssociates
  <2>1. ap.assoc \in Nat
    BY DEF ApSide, ApOK, ApType
  <2>2. StaSide'
    BY <1>2, <2>1, StaNotifyAssocOK DEF StaAssociates
  <2> QED BY <1>2, <2>2 DEF StaAssociates, ApSide, StaSide
<1>3. CASE StaNext /\ UNCHANGED ap
  <2>1. StaSide'
    BY <1>3, StaDisassocOK, StaMsg1of4OK, StaMsg3of4OK, StaMsg1of2OK, StaRequestOK,
       Zenon DEF StaNext
  <2> QED BY <1>3, <2>1 DEF ApSide, StaSide
<1>4. CASE UNCHANGED vars
  BY <1>4 DEF vars, ApSide, StaSide
<1>5. ApAssociates => UNCHANGED sta
  BY DEF ApAssociates
<1> QED BY <1>1, <1>2, <1>3, <1>4, <1>5, Zenon DEF Next

\* The machines and the frames keep their types and the retry counters their
\* limits, for every configuration of wpa_pairwise_update_count,
\* wpa_group_update_count and wpa_disable_eapol_key_retries.
THEOREM TypeCorrect == Spec => []TypeOK
<1>1. Inv => TypeOK
  BY DEF Inv, ApSide, StaSide, ApOK, StaOK, TypeOK
<1> QED BY <1>1, InitInv, NextInv, PTL DEF Spec

\* However many handshakes, associations, rekeys and repeated frames there
\* are, neither wpa_auth.c nor wpa.c gives a PTK to its driver twice, with any
\* of the three ways a supplicant may treat its SNonce.
THEOREM InstalledOnce == Spec => []PtkInstalledOnce
<1>1. Inv => PtkInstalledOnce
  <2> SUFFICES ASSUME Inv PROVE PtkInstalledOnce
    OBVIOUS
  <2>1. ap.installs \in Seq(PTKs) /\ Increasing(ap.installs, 1)
    BY DEF Inv, ApSide, ApOK, ApType
  <2>2. sta.installs \in Seq(PTKs) /\ Increasing(sta.installs, 2)
    BY DEF Inv, StaSide, StaOK, StaType
  <2> QED BY <2>1, <2>2, IncreasingOnce DEF PtkInstalledOnce
<1> QED BY <1>1, InitInv, NextInv, PTL DEF Spec
=============================================================================
