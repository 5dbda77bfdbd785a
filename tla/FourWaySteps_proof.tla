------------------------- MODULE FourWaySteps_proof -------------------------
(***************************************************************************)
(* What a step of FourWay does, in the terms that the invariants of the    *)
(* other proof modules are about: ApStep and ApJoin summarise the          *)
(* authenticator's actions, StaStep and StaJoin the supplicant's, and      *)
(* Steps says that there are no other steps.  For any retry limits and any *)
(* bounds.                                                                 *)
(***************************************************************************)
EXTENDS FourWay_proof

(***************************************************************************)
(* What the authenticator's helpers do to the fields that the invariants   *)
(* are about.                                                              *)
(***************************************************************************)

\* All fields but the state, the replay counters and the timers.
Kept(q, r) ==
    /\ SameKeys(q, r) /\ q.assoc = r.assoc /\ q.GTK = r.GTK
    /\ q.drv_ptk = r.drv_ptk

\* Nothing is sent, and the handshake does not move.
Still(q, r) ==
    /\ Kept(q, r) /\ q.state = r.state /\ q.timers = r.timers
    /\ q.key_replay = r.key_replay /\ q.prev_key_replay = r.prev_key_replay

\* The replay counter of a machine, and that of the next frame.
LEMMA Counters ==
    ASSUME NEW c \in KeyReplays
    PROVE  /\ c[1].counter \in Nat
           /\ NextReplay(c)[1].counter = c[1].counter + 1
           /\ MarkAllInvalid(c)[1].counter = c[1].counter
           /\ NoReplay[1].counter = 0
<1>1. 1 \in Slots
  BY DEF Slots, RSNA_MAX_EAPOL_RETRIES
<1>2. c[1] \in [counter : Nat, valid : BOOLEAN]
  BY <1>1 DEF KeyReplays
<1>3. NextReplay(c)[1] = [counter |-> c[1].counter + 1, valid |-> TRUE]
  BY <1>1 DEF NextReplay
<1>4. MarkAllInvalid(c)[1] = [c[1] EXCEPT !.valid = FALSE]
  BY <1>1 DEF MarkAllInvalid
<1>5. [c[1] EXCEPT !.valid = FALSE].counter = c[1].counter
  BY <1>2, Zenon
<1>6. NoReplay[1] = [counter |-> 0, valid |-> FALSE]
  BY <1>1 DEF NoReplay
<1> QED BY <1>2, <1>3, <1>4, <1>5, <1>6

\* wpa_send_eapol().
LEMMA SendEapolDoes ==
    ASSUME NEW r \in ApType
    PROVE  /\ SendEapol(r) \in ApType /\ Kept(SendEapol(r), r)
           /\ SendEapol(r).state = r.state
           /\ SendEapol(r).timers = r.timers + 1
           /\ SendEapol(r).key_replay = NextReplay(r.key_replay)
           /\ SendEapol(r).prev_key_replay = r.prev_key_replay
           /\ Rc(SendEapol(r)) = Rc(r) + 1 /\ Rc(r) \in Nat
<1> DEFINE q == SendEapol(r)
<1>1. q \in ApType /\ SameKeys(q, r)
  BY SendEapolOK
<1>2. /\ q.assoc = r.assoc /\ q.GTK = r.GTK /\ q.drv_ptk = r.drv_ptk
      /\ q.state = r.state /\ q.timers = r.timers + 1
      /\ q.key_replay = NextReplay(r.key_replay)
      /\ q.prev_key_replay = r.prev_key_replay
  BY Zenon DEF SendEapol, ApType
<1>3. r.key_replay \in KeyReplays
  BY DEF ApType
<1> HIDE DEF q
<1> QED BY <1>1, <1>2, <1>3, Counters DEF Kept, Rc, q

\* wpa_remove_ptk().
LEMMA RemovePtkDoes ==
    ASSUME NEW r \in ApType
    PROVE  LET q == RemovePtk(r) IN
           /\ q \in ApType
           /\ q.assoc = r.assoc /\ q.GTK = r.GTK /\ q.ANonce = r.ANonce
           /\ q.installs = r.installs /\ q.state = r.state /\ q.timers = r.timers
           /\ q.key_replay = r.key_replay /\ q.prev_key_replay = r.prev_key_replay
           /\ q.drv_ptk = NoPTK /\ q.PTK_valid = FALSE
<1>1. NoPTK \in PTKs
  BY DEF NoPTK, PTKs
<1>2. RemovePtk(r) \in ApType
  BY <1>1, Zenon DEF RemovePtk, ApType
<1> QED BY <1>2, Zenon DEF RemovePtk, ApType

\* DISCONNECT and INITIALIZE.
LEMMA InitializeDoes ==
    ASSUME NEW r \in ApType
    PROVE  LET q == Initialize(r) IN
           /\ q \in ApType
           /\ q.assoc = r.assoc /\ q.GTK = r.GTK /\ q.ANonce = r.ANonce
           /\ q.installs = r.installs /\ q.state = "INITIALIZE"
           /\ q.timers = r.timers
           /\ q.key_replay = r.key_replay /\ q.prev_key_replay = r.prev_key_replay
           /\ q.drv_ptk = NoPTK /\ q.PTK_valid = FALSE
<1> DEFINE p == RemovePtk(r)
           q == Initialize(r)
<1>1. /\ p \in ApType
      /\ p.assoc = r.assoc /\ p.GTK = r.GTK /\ p.ANonce = r.ANonce
      /\ p.installs = r.installs /\ p.timers = r.timers
      /\ p.key_replay = r.key_replay /\ p.prev_key_replay = r.prev_key_replay
      /\ p.drv_ptk = NoPTK /\ p.PTK_valid = FALSE
  BY RemovePtkDoes
<1>2. 0 \in 0 .. PairwiseUpdateCount /\ "INITIALIZE" \in PtkStates
  BY UpdateCountAssumption DEF PtkStates
<1>3. q = [p EXCEPT !.state = "INITIALIZE", !.TimeoutCtr = 0, !.GUpdateStationKeys = FALSE]
  BY Zenon DEF Initialize
<1> HIDE DEF p, q
<1>4. q \in ApType
  BY <1>1, <1>2, <1>3, Zenon DEF ApType
<1>5. /\ q.assoc = p.assoc /\ q.GTK = p.GTK /\ q.ANonce = p.ANonce
      /\ q.installs = p.installs /\ q.state = "INITIALIZE" /\ q.timers = p.timers
      /\ q.key_replay = p.key_replay /\ q.prev_key_replay = p.prev_key_replay
      /\ q.drv_ptk = p.drv_ptk /\ q.PTK_valid = p.PTK_valid
  BY <1>1, <1>3, Zenon DEF ApType
<1>6. q = Initialize(r)
  BY DEF q
<1> QED BY <1>1, <1>4, <1>5, <1>6, Zenon

\* WPA_PTK_GROUP IDLE.
LEMMA GroupIdleDoes ==
    ASSUME NEW r \in ApType
    PROVE  GroupIdle(r) \in ApType /\ Still(GroupIdle(r), r)
<1>1. 0 \in 0 .. GroupUpdateCount
  BY UpdateCountAssumption
<1>2. GroupIdle(r) \in ApType
  BY <1>1, Zenon DEF GroupIdle, ApType
<1> QED BY <1>2, Zenon DEF GroupIdle, ApType, Still, Kept, SameKeys

\* 1/4.
LEMMA PtkStartDoes ==
    ASSUME NEW r \in ApType, r.TimeoutCtr < PairwiseUpdateCount
    PROVE  LET q == PtkStart(r) IN
           /\ q \in ApType /\ Kept(q, r)
           /\ q.state = "PTKSTART" /\ q.timers = r.timers + 1
           /\ q.key_replay = NextReplay(r.key_replay)
           /\ q.prev_key_replay = r.prev_key_replay
           /\ Rc(q) = Rc(r) + 1
<1> DEFINE p == [r EXCEPT !.state = "PTKSTART", !.alt_snonce_valid = FALSE,
                          !.TimeoutCtr = @ + 1,
                          !.pending_1_of_4_timeout = @ \/ r.TimeoutCtr = 0]
           q == PtkStart(r)
<1>1. r.TimeoutCtr \in 0 .. PairwiseUpdateCount
  BY DEF ApType
<1>2. /\ r.TimeoutCtr + 1 \in 0 .. PairwiseUpdateCount
      /\ "PTKSTART" \in PtkStates
      /\ (r.pending_1_of_4_timeout \/ r.TimeoutCtr = 0) \in BOOLEAN
  BY <1>1, UpdateCountAssumption DEF PtkStates
<1>3. p \in ApType
  BY <1>2, Zenon DEF ApType
<1>4. /\ Kept(p, r) /\ p.state = "PTKSTART" /\ p.timers = r.timers
      /\ p.key_replay = r.key_replay /\ p.prev_key_replay = r.prev_key_replay
  BY Zenon DEF ApType, Kept, SameKeys
<1>5. q = SendEapol(p)
  BY Zenon DEF PtkStart
<1> HIDE DEF p, q
<1>6. /\ q \in ApType /\ Kept(q, p) /\ q.state = p.state /\ q.timers = p.timers + 1
      /\ q.key_replay = NextReplay(p.key_replay)
      /\ q.prev_key_replay = p.prev_key_replay /\ Rc(q) = Rc(p) + 1
  BY <1>3, <1>5, SendEapolDoes
<1>7. Kept(q, r) /\ Rc(p) = Rc(r)
  BY <1>4, <1>6 DEF Kept, SameKeys, Rc
<1>8. q = PtkStart(r)
  BY DEF q
<1> QED BY <1>4, <1>6, <1>7, <1>8, Zenon

\* 3/4.
LEMMA PtkInitNegotiatingDoes ==
    ASSUME NEW r \in ApType, r.TimeoutCtr < PairwiseUpdateCount
    PROVE  LET q == PtkInitNegotiating(r) IN
           /\ q \in ApType /\ Kept(q, r)
           /\ q.state = "PTKINITNEGOTIATING" /\ q.timers = r.timers + 1
           /\ q.key_replay = NextReplay(r.key_replay)
           /\ q.prev_key_replay = r.prev_key_replay
           /\ Rc(q) = Rc(r) + 1
<1> DEFINE p == [r EXCEPT !.state = "PTKINITNEGOTIATING", !.TimeoutCtr = @ + 1]
           q == PtkInitNegotiating(r)
<1>1. r.TimeoutCtr \in 0 .. PairwiseUpdateCount
  BY DEF ApType
<1>2. /\ r.TimeoutCtr + 1 \in 0 .. PairwiseUpdateCount
      /\ "PTKINITNEGOTIATING" \in PtkStates
  BY <1>1, UpdateCountAssumption DEF PtkStates
<1>3. p \in ApType
  BY <1>2, Zenon DEF ApType
<1>4. /\ Kept(p, r) /\ p.state = "PTKINITNEGOTIATING" /\ p.timers = r.timers
      /\ p.key_replay = r.key_replay /\ p.prev_key_replay = r.prev_key_replay
  BY Zenon DEF ApType, Kept, SameKeys
<1>5. q = SendEapol(p)
  BY Zenon DEF PtkInitNegotiating
<1> HIDE DEF p, q
<1>6. /\ q \in ApType /\ Kept(q, p) /\ q.state = p.state /\ q.timers = p.timers + 1
      /\ q.key_replay = NextReplay(p.key_replay)
      /\ q.prev_key_replay = p.prev_key_replay /\ Rc(q) = Rc(p) + 1
  BY <1>3, <1>5, SendEapolDoes
<1>7. Kept(q, r) /\ Rc(p) = Rc(r)
  BY <1>4, <1>6 DEF Kept, SameKeys, Rc
<1>8. q = PtkInitNegotiating(r)
  BY DEF q
<1> QED BY <1>4, <1>6, <1>7, <1>8, Zenon

\* A new handshake.
LEMMA NewHandshakeDoes ==
    ASSUME NEW r \in ApType
    PROVE  LET q == NewHandshake(r) IN
           /\ q \in ApType
           /\ q.assoc = r.assoc /\ q.GTK = r.GTK /\ q.ANonce = r.ANonce + 1
           /\ q.installs = r.installs /\ q.drv_ptk = r.drv_ptk
           /\ q.PTK_valid = r.PTK_valid
           /\ q.state = "PTKSTART" /\ q.timers = r.timers + 1
           /\ q.key_replay = NextReplay(r.key_replay)
           /\ q.prev_key_replay = r.prev_key_replay
           /\ Rc(q) = Rc(r) + 1
<1> DEFINE p == [r EXCEPT !.ANonce = @ + 1, !.TimeoutCtr = 0]
           q == NewHandshake(r)
<1>1. r.ANonce \in Nat /\ r.ANonce + 1 \in Nat
  BY DEF ApType
<1>2. 0 \in 0 .. PairwiseUpdateCount /\ 0 < PairwiseUpdateCount
  BY UpdateCountAssumption
<1>3. p \in ApType
  BY <1>1, <1>2, Zenon DEF ApType
<1>4. /\ p.assoc = r.assoc /\ p.GTK = r.GTK /\ p.ANonce = r.ANonce + 1
      /\ p.installs = r.installs /\ p.drv_ptk = r.drv_ptk
      /\ p.PTK_valid = r.PTK_valid /\ p.timers = r.timers /\ p.TimeoutCtr = 0
      /\ p.key_replay = r.key_replay /\ p.prev_key_replay = r.prev_key_replay
  BY Zenon DEF ApType
<1>5. q = PtkStart(p)
  BY Zenon DEF NewHandshake
<1> HIDE DEF p, q
<1>6. p.TimeoutCtr < PairwiseUpdateCount
  BY <1>2, <1>4
<1>7. /\ q \in ApType /\ Kept(q, p) /\ q.state = "PTKSTART"
      /\ q.timers = p.timers + 1 /\ q.key_replay = NextReplay(p.key_replay)
      /\ q.prev_key_replay = p.prev_key_replay /\ Rc(q) = Rc(p) + 1
  BY <1>3, <1>5, <1>6, PtkStartDoes
<1>8. Rc(p) = Rc(r)
  BY <1>4 DEF Rc
<1>9. q = NewHandshake(r)
  BY DEF q
<1> QED BY <1>4, <1>7, <1>8, <1>9, Zenon DEF Kept, SameKeys

\* 1/2.
LEMMA RekeyNegotiatingDoes ==
    ASSUME NEW r \in ApType, r.GTimeoutCtr < GroupUpdateCount
    PROVE  LET q == RekeyNegotiating(r) IN
           /\ q \in ApType /\ Kept(q, r)
           /\ q.state = r.state /\ q.timers = r.timers + 1
           /\ q.key_replay = NextReplay(r.key_replay)
           /\ q.prev_key_replay = r.prev_key_replay
           /\ Rc(q) = Rc(r) + 1
<1> DEFINE p == [r EXCEPT !.group = "REKEYNEGOTIATING", !.GTimeoutCtr = @ + 1]
           q == RekeyNegotiating(r)
<1>1. r.GTimeoutCtr \in 0 .. GroupUpdateCount
  BY DEF ApType
<1>2. r.GTimeoutCtr + 1 \in 0 .. GroupUpdateCount
  BY <1>1, UpdateCountAssumption
<1>3. p \in ApType
  BY <1>2, Zenon DEF ApType
<1>4. Still(p, r)
  BY Zenon DEF ApType, Still, Kept, SameKeys
<1>5. q = SendEapol(p)
  BY Zenon DEF RekeyNegotiating
<1> HIDE DEF p, q
<1>6. /\ q \in ApType /\ Kept(q, p) /\ q.state = p.state /\ q.timers = p.timers + 1
      /\ q.key_replay = NextReplay(p.key_replay)
      /\ q.prev_key_replay = p.prev_key_replay /\ Rc(q) = Rc(p) + 1
  BY <1>3, <1>5, SendEapolDoes
<1>7. Kept(q, r) /\ Rc(p) = Rc(r)
  BY <1>4, <1>6 DEF Still, Kept, SameKeys, Rc
<1>8. q = RekeyNegotiating(r)
  BY DEF q
<1> QED BY <1>4, <1>6, <1>7, <1>8, Zenon DEF Still

\* wpa_group_update_sta(): a new GTK, and 1/2 if the station is ready for it.
LEMMA NewGtkDoes ==
    ASSUME NEW r, ApOK(r)
    PROVE  LET q == NewGtk(r) IN
           /\ q \in ApType /\ SameKeys(q, r) /\ q.GTK = r.GTK + 1
           /\ q.assoc = r.assoc /\ q.drv_ptk = r.drv_ptk /\ q.state = r.state
           /\ q.prev_key_replay = r.prev_key_replay
           /\ \/ /\ NewGtkFrames(r) = {} /\ q.timers = r.timers
                 /\ q.key_replay = r.key_replay
              \/ /\ NewGtkFrames(r) = Msg1of2(q) /\ q.state = "PTKINITDONE"
                 /\ q.timers = r.timers + 1
                 /\ q.key_replay = NextReplay(r.key_replay)
                 /\ Rc(q) = Rc(r) + 1
<1> DEFINE G(b) == [[r EXCEPT !.GTK = @ + 1] EXCEPT !.GUpdateStationKeys = b]
           q == NewGtk(r)
<1>1. r \in ApType /\ r.GTK + 1 \in Nat
  BY DEF ApOK, ApType
<1>2. ASSUME NEW b \in BOOLEAN
      PROVE  /\ G(b) \in ApType /\ SameKeys(G(b), r) /\ G(b).GTK = r.GTK + 1
             /\ G(b).assoc = r.assoc /\ G(b).drv_ptk = r.drv_ptk
             /\ G(b).state = r.state /\ G(b).timers = r.timers
             /\ G(b).key_replay = r.key_replay
             /\ G(b).prev_key_replay = r.prev_key_replay
             /\ G(b).GTimeoutCtr = r.GTimeoutCtr
  <2>1. G(b) \in ApType
    BY <1>1, Zenon DEF ApType
  <2> QED BY <1>1, <2>1, Zenon DEF ApType, SameKeys
<1>3. CASE r.state = "PTKINITDONE" /\ r.group = "IDLE"
  <2> DEFINE g == G(TRUE)
  <2>1. q = RekeyNegotiating(g)
    BY <1>3, Zenon DEF NewGtk
  <2>2. NewGtkFrames(r) = Msg1of2(q)
    BY <1>3 DEF NewGtkFrames
  <2>3. /\ g \in ApType /\ SameKeys(g, r) /\ g.GTK = r.GTK + 1
        /\ g.assoc = r.assoc /\ g.drv_ptk = r.drv_ptk
        /\ g.state = r.state /\ g.timers = r.timers
        /\ g.key_replay = r.key_replay
        /\ g.prev_key_replay = r.prev_key_replay
        /\ g.GTimeoutCtr = r.GTimeoutCtr
    BY <1>2
  <2> HIDE DEF G, g, q
  <2>4. g.GTimeoutCtr < GroupUpdateCount
    BY <1>3, <2>3, UpdateCountAssumption DEF ApOK
  <2>5. /\ q \in ApType /\ Kept(q, g)
        /\ q.state = g.state /\ q.timers = g.timers + 1
        /\ q.key_replay = NextReplay(g.key_replay)
        /\ q.prev_key_replay = g.prev_key_replay
        /\ Rc(q) = Rc(g) + 1
    BY <2>1, <2>3, <2>4, RekeyNegotiatingDoes
  <2>6. Rc(g) = Rc(r) /\ SameKeys(q, r)
    BY <2>3, <2>5 DEF Rc, Kept, SameKeys
  <2>7. q = NewGtk(r)
    BY DEF q
  <2> QED BY <1>3, <2>2, <2>3, <2>5, <2>6, <2>7, Zenon DEF Kept
<1>4. CASE ~(r.state = "PTKINITDONE" /\ r.group = "IDLE")
  <2>1. PICK b \in BOOLEAN : q = G(b)
    BY <1>4, Zenon DEF NewGtk
  <2>2. NewGtkFrames(r) = {}
    BY <1>4 DEF NewGtkFrames
  <2> HIDE DEF G, q
  <2>3. q = NewGtk(r)
    BY DEF q
  <2> QED BY <1>2, <2>1, <2>2, <2>3, Zenon
<1> QED BY <1>3, <1>4

\* An answer was taken.
LEMMA AnsweredDoes ==
    ASSUME NEW r \in ApType, NEW prev \in KeyReplays
    PROVE  LET q == Answered(r, prev) IN
           /\ q \in ApType /\ Kept(q, r)
           /\ q.state = r.state /\ q.timers = r.timers
           /\ q.key_replay = MarkAllInvalid(r.key_replay)
           /\ q.prev_key_replay = prev
           /\ Rc(q) = Rc(r)
<1> DEFINE q == Answered(r, prev)
<1>1. r.key_replay \in KeyReplays
  BY DEF ApType
<1>2. MarkAllInvalid(r.key_replay) \in KeyReplays
  BY <1>1, KeyReplayTypes
<1>3. q \in ApType
  BY <1>2, Zenon DEF Answered, ApType
<1>4. /\ Kept(q, r) /\ q.state = r.state /\ q.timers = r.timers
      /\ q.key_replay = MarkAllInvalid(r.key_replay)
      /\ q.prev_key_replay = prev
  BY Zenon DEF Answered, ApType, Kept, SameKeys
<1> HIDE DEF q
<1>5. Rc(q) = Rc(r)
  BY <1>1, <1>4, Counters DEF Rc
<1>6. q = Answered(r, prev)
  BY DEF q
<1> QED BY <1>3, <1>4, <1>5, <1>6, Zenon

(***************************************************************************)
(* The steps of the authenticator, summarised.                             *)
(***************************************************************************)

\* At most one frame is sent, with a counter above those before.
Sends ==
    \/ net' = net /\ Rc(ap') = Rc(ap)
    \/ /\ Rc(ap') = Rc(ap) + 1
       /\ \/ net' = net \cup Msg1of4(ap') /\ ap'.state = "PTKSTART"
          \/ net' = net \cup Msg3of4(ap') /\ ap'.state = "PTKINITNEGOTIATING"
          \/ /\ net' = net \cup Msg1of2(ap')
             /\ ap'.state \in {"INITIALIZE", "PTKINITDONE"}

\* A PTK becomes valid with 2/4 only, and then 3/4 is sent; 4/4 may bring back
\* the one made from the alternative SNonce.
PtkComesFromStation ==
    ap'.PTK_valid =>
        \/ ap.PTK_valid /\ ap'.PTK = ap.PTK
        \/ ap.PTK_valid /\ \E f \in Received("4/4") : ap'.PTK = f.ptk
        \/ /\ net' = net \cup Msg3of4(ap')
           /\ \E f \in Received("2/4") : ap'.PTK = f.ptk

\* The driver gets the PTK of a 4/4, at the end of the handshake.
InstallsConfirmed ==
    \/ ap'.installs = ap.installs /\ ap'.drv_ptk \in {ap.drv_ptk, NoPTK}
    \/ /\ Running(ap)
       /\ \E f \in Received("4/4") :
            /\ f.ptk[1] = ap.ANonce
            /\ ap'.drv_ptk = f.ptk /\ ap'.installs = Append(ap.installs, f.ptk)

DoneWithKey ==
    ap'.state = "PTKINITDONE" /\ ap'.PTK_valid =>
        \/ /\ ap.state = "PTKINITDONE" /\ ap.PTK_valid
           /\ ap'.drv_ptk = ap.drv_ptk
        \/ \E f \in Received("4/4") : f.ptk[1] = ap.ANonce /\ ap'.drv_ptk = f.ptk

\* A handshake keeps or gets a timeout, unless 2/2 or a request for a GTK
\* cancels it.
KeepsTimer ==
    Running(ap') =>
        \/ ap'.timers > 0
        \/ Running(ap) /\ ap'.timers >= ap.timers
        \/ Received("gtk request") # {}
        \/ Running(ap) /\ \E f \in Received("2/2") : f.ptk[1] = ap.ANonce

\* A step within an association.
ApStep ==
    /\ ap'.assoc = ap.assoc /\ ap'.GTK \in {ap.GTK, ap.GTK + 1}
    /\ \/ ap'.ANonce = ap.ANonce /\ (Running(ap') => Running(ap))
       \/ /\ ap'.ANonce = ap.ANonce + 1 /\ ap'.state = "PTKSTART"
          /\ ~ap'.PTK_valid /\ net' = net \cup Msg1of4(ap')
    /\ Sends /\ PtkComesFromStation /\ InstallsConfirmed /\ DoneWithKey /\ KeepsTimer

\* A new association: a new ANonce, and a counter that may start again.
ApJoin ==
    /\ ap'.assoc = ap.assoc + 1 /\ ap'.GTK = ap.GTK
    /\ ap'.ANonce = ap.ANonce + 1 /\ ap'.state = "PTKSTART" /\ ~ap'.PTK_valid
    /\ net' = net \cup Msg1of4(ap')
    /\ ap'.installs = ap.installs /\ ap'.drv_ptk = NoPTK /\ ap'.timers > 0

\* A step that sends nothing, starts nothing and lets no PTK become valid.
LEMMA QuietStep ==
    ASSUME net' = net, ap'.assoc = ap.assoc, ap'.GTK = ap.GTK,
           ap'.ANonce = ap.ANonce, ap'.installs = ap.installs,
           ap'.drv_ptk \in {ap.drv_ptk, NoPTK}, Rc(ap') = Rc(ap),
           ap'.state \in {ap.state, "INITIALIZE"},
           \/ ap'.PTK_valid = FALSE
           \/ /\ ap'.PTK_valid = ap.PTK_valid /\ ap'.PTK = ap.PTK
              /\ ap'.drv_ptk = ap.drv_ptk,
           KeepsTimer
    PROVE  ApStep
<1>1. Running(ap') => Running(ap)
  BY DEF Running
<1>2. PtkComesFromStation
  BY DEF PtkComesFromStation
<1>3. DoneWithKey
  BY DEF DoneWithKey
<1> QED BY <1>1, <1>2, <1>3 DEF ApStep, Sends, InstallsConfirmed

\* The counters and timers of a machine are numbers.
LEMMA ApNumbers ==
    ASSUME NEW r \in ApType
    PROVE  /\ Rc(r) \in Nat /\ r.timers \in Nat /\ r.ANonce \in Nat
           /\ r.GTK \in Nat /\ r.assoc \in Nat /\ r.PTK \in PTKs
           /\ r.key_replay \in KeyReplays /\ r.prev_key_replay \in KeyReplays
           /\ r.PTK_valid \in BOOLEAN
<1>1. /\ r.timers \in Nat /\ r.ANonce \in Nat
      /\ r.GTK \in Nat /\ r.assoc \in Nat /\ r.PTK \in PTKs
      /\ r.key_replay \in KeyReplays /\ r.prev_key_replay \in KeyReplays
      /\ r.PTK_valid \in BOOLEAN
  BY DEF ApType
<1> QED BY <1>1, Counters DEF Rc

\* WPA_AUTH.
LEMMA ApAuthEventMoves == ApSide /\ ApAuthEvent => ApStep
<1> SUFFICES ASSUME ApSide, ApAuthEvent PROVE ApStep
  OBVIOUS
<1> DEFINE q == RemovePtk(ap)
<1>1. ap \in ApType
  BY DEF ApSide, ApOK
<1>2. ap' = q /\ net' = net
  BY DEF ApAuthEvent
<1>3. /\ q.assoc = ap.assoc /\ q.GTK = ap.GTK /\ q.ANonce = ap.ANonce
      /\ q.installs = ap.installs /\ q.state = ap.state /\ q.timers = ap.timers
      /\ q.key_replay = ap.key_replay
      /\ q.drv_ptk = NoPTK /\ q.PTK_valid = FALSE
  BY <1>1, RemovePtkDoes
<1> HIDE DEF q
<1>4. ap.timers \in Nat
  BY <1>1, ApNumbers
<1>5. ap'.timers >= ap.timers /\ ap'.state = ap.state
  BY <1>2, <1>3, <1>4
<1>6. KeepsTimer
  BY <1>5 DEF KeepsTimer, Running
<1> QED BY <1>2, <1>3, <1>6, QuietStep DEF Rc

\* WPA_DEAUTH and WPA_DISASSOC.
LEMMA ApDeauthMoves == ApSide /\ ApDeauth => ApStep
<1> SUFFICES ASSUME ApSide, ApDeauth PROVE ApStep
  OBVIOUS
<1> DEFINE q == Initialize(ap)
<1>1. ap \in ApType
  BY DEF ApSide, ApOK
<1>2. ap' = q /\ net' = net
  BY DEF ApDeauth
<1>3. /\ q.assoc = ap.assoc /\ q.GTK = ap.GTK /\ q.ANonce = ap.ANonce
      /\ q.installs = ap.installs /\ q.state = "INITIALIZE"
      /\ q.key_replay = ap.key_replay
      /\ q.drv_ptk = NoPTK /\ q.PTK_valid = FALSE
  BY <1>1, InitializeDoes
<1> HIDE DEF q
<1>4. KeepsTimer
  BY <1>2, <1>3 DEF KeepsTimer, Running
<1> QED BY <1>2, <1>3, <1>4, QuietStep DEF Rc

\* 2/4: the machine r has taken it and is otherwise the old one.
LEMMA PtkCalcNegotiatingMoves ==
    ASSUME ApSide, NEW r \in ApType, Kept(r, ap), r.state = ap.state,
           r.timers = ap.timers, Rc(r) = Rc(ap), Running(ap),
           NEW f \in Received("2/4"), PtkCalcNegotiating(r, f)
    PROVE  ApStep
<1> DEFINE p == [r EXCEPT !.PTK = <<r.ANonce, f.nonce>>, !.PTK_valid = TRUE,
                          !.timers = 0, !.TimeoutCtr = 0,
                          !.pending_1_of_4_timeout = FALSE]
           c == CalcPtk(r, f)
           q == [r EXCEPT !.state = "PTKCALCNEGOTIATING"]
<1>1. f \in Frames /\ f.nonce \in Nat /\ r.ANonce \in Nat
  BY DEF ApSide, Received, Frames, ApType
<1>2. CASE f.ptk = <<r.ANonce, f.nonce>> /\ ap' = c /\ net' = net \cup Msg3of4(c)
  <2>1. /\ <<r.ANonce, f.nonce>> \in PTKs /\ 0 \in Nat
        /\ 0 \in 0 .. PairwiseUpdateCount /\ 0 < PairwiseUpdateCount
    BY <1>1, UpdateCountAssumption DEF PTKs
  <2>2. p \in ApType
    BY <2>1, Zenon DEF ApType
  <2>3. /\ p.assoc = r.assoc /\ p.GTK = r.GTK /\ p.ANonce = r.ANonce
        /\ p.installs = r.installs /\ p.drv_ptk = r.drv_ptk
        /\ p.PTK = <<r.ANonce, f.nonce>> /\ p.PTK_valid = TRUE
        /\ p.timers = 0 /\ p.TimeoutCtr = 0 /\ p.key_replay = r.key_replay
    BY Zenon DEF ApType
  <2>4. c = PtkInitNegotiating(p)
    BY Zenon DEF CalcPtk
  <2> HIDE DEF p, c
  <2>5. /\ c \in ApType /\ Kept(c, p)
        /\ c.state = "PTKINITNEGOTIATING" /\ c.timers = p.timers + 1
        /\ Rc(c) = Rc(p) + 1
    BY <2>1, <2>2, <2>3, <2>4, PtkInitNegotiatingDoes
  <2>6. Rc(c) = Rc(ap) + 1 /\ c.timers > 0
    BY <2>3, <2>5 DEF Rc
  <2>7. /\ c.assoc = ap.assoc /\ c.GTK = ap.GTK /\ c.ANonce = ap.ANonce
        /\ c.installs = ap.installs /\ c.drv_ptk = ap.drv_ptk
        /\ c.PTK = f.ptk
    BY <1>2, <2>3, <2>5 DEF Kept, SameKeys
  <2> QED BY <1>2, <2>5, <2>6, <2>7
          DEF ApStep, Sends, PtkComesFromStation, InstallsConfirmed,
              DoneWithKey, KeepsTimer
<1>3. CASE ap' = q /\ net' = net
  <2>1. /\ Kept(q, r) /\ q.state = "PTKCALCNEGOTIATING"
        /\ q.timers = r.timers /\ q.key_replay = r.key_replay
    BY Zenon DEF ApType, Kept, SameKeys
  <2> HIDE DEF q
  <2>2. /\ Kept(q, ap) /\ Rc(q) = Rc(ap) /\ q.timers = ap.timers
    BY <2>1 DEF Kept, SameKeys, Rc
  <2>3. ap.timers \in Nat
    BY ApNumbers DEF ApSide, ApOK
  <2>4. ap'.timers >= ap.timers
    BY <1>3, <2>2, <2>3
  <2>6. KeepsTimer
    BY <2>4 DEF KeepsTimer
  <2>5. PtkComesFromStation /\ DoneWithKey
    BY <1>3, <2>1, <2>2 DEF PtkComesFromStation, DoneWithKey, Kept, SameKeys
  <2> QED BY <1>3, <2>2, <2>5, <2>6
          DEF ApStep, Sends, InstallsConfirmed, Kept, SameKeys
<1> QED BY <1>2, <1>3 DEF PtkCalcNegotiating

\* 2/4.
LEMMA ApMsg2of4Moves == ApSide /\ ApMsg2of4 => ApStep
<1> SUFFICES ASSUME ApSide, ApMsg2of4 PROVE ApStep
  OBVIOUS
<1> DEFINE A(f) == Answered(ap, MarkInvalid(ap.key_replay, f.rc))
           B(f) == [A(f) EXCEPT !.SNonce = f.nonce]
<1>1. PICK f \in Received("2/4") : /\ ap.state \in {"PTKSTART", "PTKCALCNEGOTIATING"}
                                   /\ PtkCalcNegotiating(B(f), f)
  BY Zenon DEF ApMsg2of4
<1>2. f.rc \in Nat /\ f.nonce \in Nat /\ ap \in ApType
  BY DEF ApSide, ApOK, Frames, Received
<1>3. MarkInvalid(ap.key_replay, f.rc) \in KeyReplays
  BY <1>2, KeyReplayTypes DEF ApType
<1> DEFINE a == A(f)
           b == [a EXCEPT !.SNonce = f.nonce]
<1>4. /\ a \in ApType /\ Kept(a, ap) /\ a.state = ap.state /\ a.timers = ap.timers
      /\ Rc(a) = Rc(ap)
  BY <1>2, <1>3, AnsweredDoes
<1>5. PtkCalcNegotiating(b, f)
  BY <1>1, Zenon
<1> HIDE DEF a, A, B
<1>6. b \in ApType
  BY <1>2, <1>4, Zenon DEF ApType
<1>7. Still(b, a)
  BY <1>4, Zenon DEF ApType, Still, Kept, SameKeys
<1> HIDE DEF b
<1>8. Kept(b, ap) /\ b.state = ap.state /\ b.timers = ap.timers /\ Rc(b) = Rc(ap)
  BY <1>4, <1>7 DEF Still, Kept, SameKeys, Rc
<1>9. Running(ap)
  BY <1>1 DEF Running
<1> QED BY <1>5, <1>6, <1>8, <1>9, PtkCalcNegotiatingMoves

\* 2/4 with another SNonce.
LEMMA ApMsg2of4UpdateMoves == ApSide /\ ApMsg2of4Update => ApStep
<1> SUFFICES ASSUME ApSide, ApMsg2of4Update PROVE ApStep
  OBVIOUS
<1> DEFINE A(f) == Answered(ap, MarkInvalid(ap.key_replay, f.rc))
           B(f) == [A(f) EXCEPT !.SNonce = f.nonce, !.alt_SNonce = ap.SNonce,
                                !.alt_snonce_valid = TRUE,
                                !.alt_replay_counter = Rc(ap)]
<1>1. PICK f \in Received("2/4") : /\ ap.state = "PTKINITNEGOTIATING"
                                   /\ PtkCalcNegotiating(B(f), f)
  BY Zenon DEF ApMsg2of4Update
<1>2. f.rc \in Nat /\ f.nonce \in Nat /\ ap \in ApType /\ ap.SNonce \in Nat
  BY DEF ApSide, ApOK, Frames, Received, ApType
<1>3. MarkInvalid(ap.key_replay, f.rc) \in KeyReplays /\ Rc(ap) \in Nat
  BY <1>2, KeyReplayTypes, ApNumbers
<1> DEFINE a == A(f)
           b == [a EXCEPT !.SNonce = f.nonce, !.alt_SNonce = ap.SNonce,
                          !.alt_snonce_valid = TRUE,
                          !.alt_replay_counter = Rc(ap)]
<1>4. /\ a \in ApType /\ Kept(a, ap) /\ a.state = ap.state /\ a.timers = ap.timers
      /\ Rc(a) = Rc(ap)
  BY <1>2, <1>3, AnsweredDoes
<1>5. PtkCalcNegotiating(b, f)
  BY <1>1, Zenon
<1> HIDE DEF a, A, B
<1>6. b \in ApType
  BY <1>2, <1>3, <1>4, Zenon DEF ApType
<1>7. Still(b, a)
  BY <1>4, Zenon DEF ApType, Still, Kept, SameKeys
<1> HIDE DEF b
<1>8. Kept(b, ap) /\ b.state = ap.state /\ b.timers = ap.timers /\ Rc(b) = Rc(ap)
  BY <1>4, <1>7 DEF Still, Kept, SameKeys, Rc
<1>9. Running(ap)
  BY <1>1 DEF Running
<1> QED BY <1>5, <1>6, <1>8, <1>9, PtkCalcNegotiatingMoves

\* 4/4: the PTK is that of the frame, made from the ANonce of the handshake.
LEMMA ApMsg4of4Moves == ApSide /\ ApMsg4of4 => ApStep
<1> SUFFICES ASSUME ApSide, ApMsg4of4 PROVE ApStep
  OBVIOUS
<1> DEFINE A(f) == [Answered(ap, NoReplay) EXCEPT
                      !.SNonce = 0, !.PTK = Msg4Ptk(f), !.timers = 0,
                      !.alt_snonce_valid = @ /\ f.ptk = ap.PTK,
                      !.pending_1_of_4_timeout = FALSE]
           Done(r) == [r EXCEPT !.state = "PTKINITDONE", !.drv_ptk = r.PTK,
                                !.rekey_timer = TRUE,
                                !.installs = Append(@, r.PTK)]
<1>1. PICK f \in Received("4/4") :
                       /\ ap.state = "PTKINITNEGOTIATING" /\ ap.PTK_valid
                       /\ Msg4Verifies(f)
                       /\ ap' = Done(A(f)) \/ ap' = Initialize(A(f))
                       /\ net' = net
  BY Zenon DEF ApMsg4of4
<1> DEFINE b == Answered(ap, NoReplay)
           a == A(f)
<1>2. ApOK(ap) /\ ap \in ApType /\ f \in Frames
  BY DEF ApSide, ApOK, Received
<1>3. f.ptk \in PTKs /\ f.ptk[1] = ap.ANonce
  BY <1>1, <1>2 DEF Frames, Msg4Verifies, ApOK, ApType
<1>4. b \in ApType /\ Kept(b, ap) /\ Rc(b) = Rc(ap)
  BY <1>2, AnsweredDoes, KeyReplayTypes
<1>5. a = [b EXCEPT !.SNonce = 0, !.PTK = f.ptk, !.timers = 0,
                    !.alt_snonce_valid = @ /\ f.ptk = ap.PTK,
                    !.pending_1_of_4_timeout = FALSE]
  BY Zenon DEF Msg4Ptk
<1> HIDE DEF a, b, A
<1>6. 0 \in Nat /\ (b.alt_snonce_valid /\ f.ptk = ap.PTK) \in BOOLEAN
  OBVIOUS
<1>7. a \in ApType
  BY <1>3, <1>4, <1>5, <1>6, ZenonT(60) DEF ApType
<1>8. /\ a.ANonce = b.ANonce /\ a.installs = b.installs /\ a.PTK = f.ptk
      /\ a.assoc = b.assoc /\ a.GTK = b.GTK /\ a.key_replay = b.key_replay
      /\ a.drv_ptk = b.drv_ptk
  BY <1>4, <1>5, Zenon DEF ApType
<1>9. /\ a.ANonce = ap.ANonce /\ a.installs = ap.installs /\ a.assoc = ap.assoc
      /\ a.GTK = ap.GTK /\ a.drv_ptk = ap.drv_ptk /\ Rc(a) = Rc(ap)
  BY <1>4, <1>8 DEF Kept, SameKeys, Rc
<1>10. Running(ap)
  BY <1>1 DEF Running
<1>11. CASE ap' = Initialize(a)
  <2> DEFINE q == Initialize(a)
  <2>1. /\ q.assoc = a.assoc /\ q.GTK = a.GTK /\ q.ANonce = a.ANonce
        /\ q.installs = a.installs /\ q.state = "INITIALIZE"
        /\ q.key_replay = a.key_replay
        /\ q.drv_ptk = NoPTK /\ q.PTK_valid = FALSE
    BY <1>7, InitializeDoes
  <2> HIDE DEF q
  <2>2. ap' = q
    BY <1>11 DEF q
  <2>3. KeepsTimer
    BY <2>1, <2>2 DEF KeepsTimer, Running
  <2>4. Rc(ap') = Rc(ap)
    BY <1>9, <2>1, <2>2 DEF Rc
  <2> QED BY <1>1, <1>9, <2>1, <2>2, <2>3, <2>4, QuietStep
<1>12. CASE ap' = Done(a)
  <2> DEFINE d == Done(a)
  <2>1. /\ d.ANonce = a.ANonce /\ d.installs = Append(a.installs, a.PTK)
        /\ d.PTK = a.PTK /\ d.state = "PTKINITDONE" /\ d.assoc = a.assoc
        /\ d.GTK = a.GTK /\ d.drv_ptk = a.PTK /\ d.key_replay = a.key_replay
    BY <1>7, Zenon DEF ApType
  <2> HIDE DEF d
  <2>2. ap' = d
    BY <1>12 DEF d
  <2>3. Rc(ap') = Rc(ap) /\ ~Running(ap')
    BY <1>9, <2>1, <2>2 DEF Rc, Running
  <2>4. PtkComesFromStation
    BY <1>1, <1>8, <2>1, <2>2 DEF PtkComesFromStation
  <2>5. InstallsConfirmed /\ DoneWithKey
    BY <1>1, <1>3, <1>8, <1>9, <1>10, <2>1, <2>2 DEF InstallsConfirmed, DoneWithKey
  <2> QED BY <1>1, <1>9, <2>1, <2>2, <2>3, <2>4, <2>5 DEF ApStep, Sends, KeepsTimer
<1> QED BY <1>1, <1>11, <1>12 DEF a

\* 2/2, which cancels the timeout whatever the 4-way handshake does.
LEMMA ApMsg2of2Moves == ApSide /\ ApMsg2of2 => ApStep
<1> SUFFICES ASSUME ApSide, ApMsg2of2 PROVE ApStep
  OBVIOUS
<1> DEFINE b == Answered(ap, NoReplay)
           g == GroupIdle(b)
           q == [g EXCEPT !.SNonce = 0, !.timers = 0, !.pending_1_of_4_timeout = FALSE]
<1>1. PICK f \in Received("2/2") : /\ ap.PTK_valid /\ f.ptk = ap.PTK
                                   /\ ap' = q /\ net' = net
  BY Zenon DEF ApMsg2of2
<1>2. ap \in ApType /\ ap.PTK[1] = ap.ANonce
  BY <1>1 DEF ApSide, ApOK
<1>3. b \in ApType /\ Kept(b, ap) /\ Rc(b) = Rc(ap) /\ b.state = ap.state
  BY <1>2, AnsweredDoes, KeyReplayTypes
<1> HIDE DEF b
<1>4. g \in ApType /\ Still(g, b)
  BY <1>3, GroupIdleDoes
<1> HIDE DEF g
<1>5. Kept(q, g) /\ q.state = g.state /\ q.key_replay = g.key_replay
  BY <1>4, Zenon DEF ApType, Kept, SameKeys
<1> HIDE DEF q
<1>6. Kept(q, ap) /\ q.state = ap.state /\ Rc(q) = Rc(ap)
  BY <1>3, <1>4, <1>5 DEF Still, Kept, SameKeys, Rc
<1>7. KeepsTimer
  BY <1>1, <1>2, <1>6 DEF KeepsTimer, Running
<1> QED BY <1>1, <1>6, <1>7, QuietStep DEF Kept, SameKeys

\* A new GTK.
LEMMA NewGtkMoves ==
    ASSUME ApSide, NEW r, ApOK(r), Kept(r, ap), r.state = ap.state, Rc(r) = Rc(ap),
           r.timers \in Nat,
           r.timers >= ap.timers \/ Received("gtk request") # {},
           ap' = NewGtk(r), net' = net \cup NewGtkFrames(r)
    PROVE  ApStep
<1> DEFINE q == NewGtk(r)
<1>1. /\ q \in ApType /\ SameKeys(q, r) /\ q.GTK = r.GTK + 1
      /\ q.assoc = r.assoc /\ q.drv_ptk = r.drv_ptk /\ q.state = r.state
      /\ \/ /\ NewGtkFrames(r) = {} /\ q.timers = r.timers
            /\ q.key_replay = r.key_replay
         \/ /\ NewGtkFrames(r) = Msg1of2(q) /\ q.state = "PTKINITDONE"
            /\ q.timers = r.timers + 1
            /\ Rc(q) = Rc(r) + 1
  BY NewGtkDoes
<1>2. ap' = q
  OBVIOUS
<1> HIDE DEF q
<1>3. /\ q.ANonce = ap.ANonce /\ q.installs = ap.installs /\ q.PTK = ap.PTK
      /\ q.PTK_valid = ap.PTK_valid /\ q.assoc = ap.assoc /\ q.GTK = ap.GTK + 1
      /\ q.drv_ptk = ap.drv_ptk /\ q.state = ap.state
  BY <1>1 DEF Kept, SameKeys
<1>4. PtkComesFromStation /\ DoneWithKey /\ InstallsConfirmed
  BY <1>2, <1>3 DEF PtkComesFromStation, DoneWithKey, InstallsConfirmed
<1>5. Running(ap') => Running(ap)
  BY <1>2, <1>3 DEF Running
<1>6. CASE /\ NewGtkFrames(r) = {} /\ q.timers = r.timers
           /\ q.key_replay = r.key_replay
  <2>1. Rc(ap') = Rc(ap) /\ net' = net
    BY <1>2, <1>6 DEF Rc
  <2>2. ap'.timers >= ap.timers \/ Received("gtk request") # {}
    BY <1>2, <1>6
  <2>3. KeepsTimer
    BY <1>5, <2>2 DEF KeepsTimer
  <2> QED BY <1>2, <1>3, <1>4, <1>5, <2>1, <2>3 DEF ApStep, Sends
<1>7. CASE /\ NewGtkFrames(r) = Msg1of2(q) /\ q.state = "PTKINITDONE"
           /\ Rc(q) = Rc(r) + 1
  <2>1. KeepsTimer
    BY <1>2, <1>7 DEF KeepsTimer, Running
  <2>2. Sends
    BY <1>2, <1>7 DEF Sends
  <2> QED BY <1>2, <1>3, <1>4, <1>5, <2>1, <2>2 DEF ApStep
<1> QED BY <1>1, <1>6, <1>7

\* wpa_rekey_gtk().
LEMMA ApRekeyGtkMoves == ApSide /\ ApRekeyGtk => ApStep
<1> SUFFICES ASSUME ApSide, ApRekeyGtk PROVE ApStep
  OBVIOUS
<1>1. ApOK(ap) /\ ap.timers \in Nat
  BY ApNumbers DEF ApSide, ApOK
<1>2. Kept(ap, ap)
  BY DEF Kept, SameKeys
<1>3. ap.timers >= ap.timers
  BY <1>1
<1> QED BY <1>1, <1>2, <1>3, NewGtkMoves DEF ApRekeyGtk

\* A new handshake in the same association.
LEMMA NewHandshakeMoves ==
    ASSUME ApSide, NEW r \in ApType, ~r.PTK_valid, r.ANonce = ap.ANonce,
           r.installs = ap.installs, r.drv_ptk = ap.drv_ptk, r.assoc = ap.assoc,
           r.GTK = ap.GTK, Rc(r) = Rc(ap),
           ap' = NewHandshake(r), net' = net \cup Msg1of4(NewHandshake(r))
    PROVE  ApStep
<1> DEFINE q == NewHandshake(r)
<1>1. /\ q.assoc = r.assoc /\ q.GTK = r.GTK /\ q.ANonce = r.ANonce + 1
      /\ q.installs = r.installs /\ q.drv_ptk = r.drv_ptk
      /\ q.PTK_valid = r.PTK_valid
      /\ q.state = "PTKSTART" /\ q.timers = r.timers + 1
      /\ Rc(q) = Rc(r) + 1
  BY NewHandshakeDoes
<1>2. ap' = q /\ net' = net \cup Msg1of4(q)
  OBVIOUS
<1> HIDE DEF q
<1>3. r.timers \in Nat
  BY ApNumbers
<1>4. ap'.timers > 0
  BY <1>1, <1>2, <1>3
<1>5. KeepsTimer
  BY <1>4 DEF KeepsTimer
<1>6. ~ap'.PTK_valid
  BY <1>1, <1>2
<1> QED BY <1>1, <1>2, <1>5, <1>6
        DEF ApStep, Sends, PtkComesFromStation, InstallsConfirmed, DoneWithKey

\* wpa_rekey_ptk().
LEMMA ApRekeyPtkMoves == ApSide /\ ApRekeyPtk => ApStep
<1> SUFFICES ASSUME ApSide, ApRekeyPtk PROVE ApStep
  OBVIOUS
<1> DEFINE q == [ap EXCEPT !.PTK_valid = FALSE, !.rekey_timer = FALSE]
<1>1. ap' = NewHandshake(q) /\ net' = net \cup Msg1of4(NewHandshake(q))
  BY Zenon DEF ApRekeyPtk
<1>2. ap \in ApType
  BY DEF ApSide, ApOK
<1>3. q \in ApType
  BY <1>2, Zenon DEF ApType
<1>4. /\ q.PTK_valid = FALSE /\ q.ANonce = ap.ANonce /\ q.installs = ap.installs
      /\ q.drv_ptk = ap.drv_ptk /\ q.assoc = ap.assoc /\ q.GTK = ap.GTK
      /\ q.key_replay = ap.key_replay
  BY <1>2, Zenon DEF ApType
<1> HIDE DEF q
<1> QED BY <1>1, <1>3, <1>4, NewHandshakeMoves DEF Rc

\* An EAPOL-Key Request.
LEMMA ApRequestMoves == ApSide /\ ApRequest => ApStep
<1> SUFFICES ASSUME ApSide, ApRequest PROVE ApStep
  OBVIOUS
<1> DEFINE A(f) == [ap EXCEPT !.timers = 0, !.pending_1_of_4_timeout = FALSE,
                              !.req_next = f.rc + 1, !.SNonce = 0]
           R(f) == NewHandshake([A(f) EXCEPT !.PTK_valid = FALSE])
<1>1. PICK f \in net : \/ ap' = R(f) /\ net' = net \cup Msg1of4(R(f))
                       \/ /\ f.type = "gtk request"
                          /\ ap' = NewGtk(A(f)) /\ net' = net \cup NewGtkFrames(A(f))
  BY Zenon DEF ApRequest, Received
<1>2. f.rc + 1 \in Nat /\ 0 \in Nat
  BY DEF ApSide, Frames
<1>3. ApOK(ap) /\ ap \in ApType
  BY DEF ApSide, ApOK
<1> DEFINE a == A(f)
           b == [a EXCEPT !.PTK_valid = FALSE]
<1>4. a \in ApType
  BY <1>2, <1>3, Zenon DEF ApType
<1>5. /\ Kept(a, ap) /\ a.state = ap.state /\ a.group = ap.group
      /\ a.GTimeoutCtr = ap.GTimeoutCtr /\ a.timers = 0
      /\ a.key_replay = ap.key_replay
  BY <1>3, Zenon DEF ApType, Kept, SameKeys
<1>6. R(f) = NewHandshake(b)
  BY Zenon
<1> HIDE DEF a, A, R
<1>7. ApOK(a)
  BY <1>3, <1>4, <1>5, ApKept DEF ApOK, Running, Kept
<1>8. b \in ApType
  BY <1>4, Zenon DEF ApType
<1>9. /\ b.PTK_valid = FALSE /\ b.ANonce = a.ANonce /\ b.installs = a.installs
      /\ b.drv_ptk = a.drv_ptk /\ b.assoc = a.assoc /\ b.GTK = a.GTK
      /\ b.key_replay = a.key_replay
  BY <1>4, Zenon DEF ApType
<1> HIDE DEF b
<1>10. CASE ap' = R(f) /\ net' = net \cup Msg1of4(R(f))
  <2>1. /\ b.ANonce = ap.ANonce /\ b.installs = ap.installs
        /\ b.drv_ptk = ap.drv_ptk /\ b.assoc = ap.assoc /\ b.GTK = ap.GTK
        /\ Rc(b) = Rc(ap)
    BY <1>5, <1>9 DEF Kept, SameKeys, Rc
  <2> QED BY <1>6, <1>8, <1>9, <1>10, <2>1, NewHandshakeMoves
<1>11. CASE f.type = "gtk request" /\ ap' = NewGtk(a) /\ net' = net \cup NewGtkFrames(a)
  <2>1. Received("gtk request") # {}
    BY <1>11 DEF Received
  <2>2. Rc(a) = Rc(ap) /\ a.timers \in Nat
    BY <1>5 DEF Rc
  <2> QED BY <1>5, <1>7, <1>11, <2>1, <2>2, NewGtkMoves
<1> QED BY <1>1, <1>10, <1>11 DEF a

\* wpa_auth_eapol_key_tx_status().
LEMMA ApTxStatusMoves == ApSide /\ ApTxStatus => ApStep
<1> SUFFICES ASSUME ApSide, ApTxStatus PROVE ApStep
  OBVIOUS
<1> DEFINE q == [ap EXCEPT !.timers = 1]
<1>1. ap \in ApType
  BY DEF ApSide, ApOK
<1>2. /\ Kept(q, ap) /\ q.state = ap.state /\ q.timers = 1
      /\ q.key_replay = ap.key_replay
  BY <1>1, Zenon DEF ApType, Kept, SameKeys
<1>3. ap' = q /\ net' = net
  BY DEF ApTxStatus
<1> HIDE DEF q
<1>4. ap'.timers > 0
  BY <1>2, <1>3
<1>5. KeepsTimer
  BY <1>4 DEF KeepsTimer
<1> QED BY <1>2, <1>3, <1>5, QuietStep DEF Kept, SameKeys, Rc

\* The handshake ends with a disconnection.
LEMMA TimeoutEnds ==
    ASSUME NEW r \in ApType, Kept(r, ap), Rc(r) = Rc(ap),
           ap' = Initialize(r), net' = net
    PROVE  ApStep
<1> DEFINE q == Initialize(r)
<1>1. /\ q.assoc = r.assoc /\ q.GTK = r.GTK /\ q.ANonce = r.ANonce
      /\ q.installs = r.installs /\ q.state = "INITIALIZE"
      /\ q.key_replay = r.key_replay
      /\ q.drv_ptk = NoPTK /\ q.PTK_valid = FALSE
  BY InitializeDoes
<1>2. ap' = q
  OBVIOUS
<1> HIDE DEF q
<1>3. KeepsTimer
  BY <1>1, <1>2 DEF KeepsTimer, Running
<1> QED BY <1>1, <1>2, <1>3, QuietStep DEF Kept, SameKeys, Rc

\* wpa_send_eapol_timeout(): the frame is sent again with a timeout of its own,
\* or the handshake ends.
LEMMA ApTimeoutMoves == ApSide /\ ApTimeout => ApStep
<1> SUFFICES ASSUME ApSide, ApTimeout PROVE ApStep
  OBVIOUS
<1> DEFINE r == [ap EXCEPT !.timers = @ - 1, !.pending_1_of_4_timeout = FALSE]
<1>1. ap \in ApType /\ ap.timers - 1 \in Nat
  BY DEF ApSide, ApOK, ApTimeout, ApType
<1>2. /\ ap.TimeoutCtr \in 0 .. PairwiseUpdateCount
      /\ ap.GTimeoutCtr \in 0 .. GroupUpdateCount
  BY <1>1 DEF ApType
<1>3. r \in ApType
  BY <1>1, Zenon DEF ApType
<1>4. /\ Kept(r, ap) /\ r.state = ap.state /\ r.key_replay = ap.key_replay
      /\ r.GTimeoutCtr = ap.GTimeoutCtr /\ r.TimeoutCtr = ap.TimeoutCtr
  BY <1>1, Zenon DEF ApType, Kept, SameKeys
<1>5. \/ /\ ap.state \in {"PTKSTART", "PTKCALCNEGOTIATING"} /\ ~Msg1Limit(ap)
         /\ ap' = PtkStart(r) /\ net' = net \cup Msg1of4(PtkStart(r))
      \/ /\ ap.state = "PTKINITNEGOTIATING" /\ ~Msg3Limit(ap)
         /\ ap' = PtkInitNegotiating(r)
         /\ net' = net \cup Msg3of4(PtkInitNegotiating(r))
      \/ ap' = Initialize(r) /\ net' = net
      \/ /\ ap.state \in {"INITIALIZE", "PTKINITDONE"}
         /\ ~GroupLimit(ap) /\ ap' = RekeyNegotiating(r)
         /\ net' = net \cup Msg1of2(RekeyNegotiating(r))
      \/ ap' = Initialize(GroupIdle(r)) /\ net' = net
      \/ /\ ap.state \in {"INITIALIZE", "PTKINITDONE"}
         /\ ap' = r /\ net' = net
  BY Zenon DEF ApTimeout
<1> HIDE DEF r
<1>6. Rc(r) = Rc(ap) /\ r.timers \in Nat
  BY <1>3, <1>4, ApNumbers DEF Rc
<1>7. ASSUME NEW q, ap' = q, Kept(q, r), q.timers = r.timers + 1, Rc(q) = Rc(r) + 1,
             Running(q) => Running(ap),
             DoneWithKey, Sends
      PROVE  ApStep
  <2>1. ap'.timers > 0
    BY <1>6, <1>7
  <2>2. KeepsTimer
    BY <2>1 DEF KeepsTimer
  <2>3. PtkComesFromStation
    BY <1>4, <1>7 DEF PtkComesFromStation, Kept, SameKeys
  <2> QED BY <1>4, <1>7, <2>2, <2>3 DEF ApStep, InstallsConfirmed, Kept, SameKeys
<1>8. CASE /\ ap.state \in {"PTKSTART", "PTKCALCNEGOTIATING"} /\ ~Msg1Limit(ap)
           /\ ap' = PtkStart(r) /\ net' = net \cup Msg1of4(PtkStart(r))
  <2> DEFINE q == PtkStart(r)
  <2>1. r.TimeoutCtr < PairwiseUpdateCount
    BY <1>2, <1>4, <1>8, UpdateCountAssumption DEF Msg1Limit
  <2>2. /\ Kept(q, r) /\ q.state = "PTKSTART" /\ q.timers = r.timers + 1
        /\ Rc(q) = Rc(r) + 1
    BY <1>3, <2>1, PtkStartDoes
  <2>3. ap' = q /\ net' = net \cup Msg1of4(q)
    BY <1>8
  <2> HIDE DEF q
  <2>4. DoneWithKey /\ Sends /\ Running(ap)
    BY <1>6, <1>8, <2>2, <2>3 DEF DoneWithKey, Sends, Running
  <2> QED BY <1>7, <2>2, <2>3, <2>4
<1>9. CASE /\ ap.state = "PTKINITNEGOTIATING" /\ ~Msg3Limit(ap)
           /\ ap' = PtkInitNegotiating(r)
           /\ net' = net \cup Msg3of4(PtkInitNegotiating(r))
  <2> DEFINE q == PtkInitNegotiating(r)
  <2>1. r.TimeoutCtr < PairwiseUpdateCount
    BY <1>2, <1>4, <1>9, UpdateCountAssumption DEF Msg3Limit
  <2>2. /\ Kept(q, r) /\ q.state = "PTKINITNEGOTIATING" /\ q.timers = r.timers + 1
        /\ Rc(q) = Rc(r) + 1
    BY <1>3, <2>1, PtkInitNegotiatingDoes
  <2>3. ap' = q /\ net' = net \cup Msg3of4(q)
    BY <1>9
  <2> HIDE DEF q
  <2>4. DoneWithKey /\ Sends /\ Running(ap)
    BY <1>6, <1>9, <2>2, <2>3 DEF DoneWithKey, Sends, Running
  <2> QED BY <1>7, <2>2, <2>3, <2>4
<1>10. CASE /\ ap.state \in {"INITIALIZE", "PTKINITDONE"}
            /\ ~GroupLimit(ap) /\ ap' = RekeyNegotiating(r)
            /\ net' = net \cup Msg1of2(RekeyNegotiating(r))
  <2> DEFINE q == RekeyNegotiating(r)
  <2>1. r.GTimeoutCtr < GroupUpdateCount
    BY <1>2, <1>4, <1>10, UpdateCountAssumption DEF GroupLimit
  <2>2. /\ Kept(q, r) /\ q.state = r.state /\ q.timers = r.timers + 1
        /\ Rc(q) = Rc(r) + 1
    BY <1>3, <2>1, RekeyNegotiatingDoes
  <2>3. ap' = q /\ net' = net \cup Msg1of2(q)
    BY <1>10
  <2> HIDE DEF q
  <2>4. /\ Sends /\ (Running(q) => Running(ap))
    BY <1>4, <1>6, <1>10, <2>2, <2>3 DEF Sends, Running
  <2>5. DoneWithKey
    BY <1>4, <2>2, <2>3 DEF DoneWithKey, Kept, SameKeys
  <2> QED BY <1>7, <2>2, <2>3, <2>4, <2>5
<1>11. CASE ap' = Initialize(r) /\ net' = net
  BY <1>3, <1>4, <1>6, <1>11, TimeoutEnds
<1>12. CASE ap' = Initialize(GroupIdle(r)) /\ net' = net
  <2> DEFINE g == GroupIdle(r)
  <2>1. g \in ApType /\ Still(g, r) /\ ap' = Initialize(g)
    BY <1>3, <1>12, GroupIdleDoes
  <2> HIDE DEF g
  <2>2. Kept(g, ap) /\ Rc(g) = Rc(ap)
    BY <1>4, <1>6, <2>1 DEF Still, Kept, SameKeys, Rc
  <2> QED BY <1>12, <2>1, <2>2, TimeoutEnds
<1>13. CASE ap.state \in {"INITIALIZE", "PTKINITDONE"} /\ ap' = r /\ net' = net
  <2>1. KeepsTimer
    BY <1>4, <1>13 DEF KeepsTimer, Running
  <2> QED BY <1>4, <1>6, <1>13, <2>1, QuietStep DEF Kept, SameKeys
<1> QED BY <1>5, <1>8, <1>9, <1>10, <1>11, <1>12, <1>13

\* Every step of the authenticator within an association.
LEMMA ApNextMoves == ApSide /\ ApNext => ApStep
  BY ApAuthEventMoves, ApDeauthMoves, ApMsg2of4Moves, ApMsg2of4UpdateMoves,
     ApMsg4of4Moves, ApMsg2of2Moves, ApRequestMoves, ApTimeoutMoves,
     ApTxStatusMoves, ApRekeyPtkMoves, ApRekeyGtkMoves, Zenon DEF ApNext

\* The three kinds of association end in a new handshake of the machine r.
LEMMA NewHandshakeJoins ==
    ASSUME ApSide, NEW r \in ApType, ~r.PTK_valid, r.ANonce = ap.ANonce,
           r.installs = ap.installs, r.drv_ptk = NoPTK, r.assoc = ap.assoc + 1,
           r.GTK = ap.GTK,
           ap' = NewHandshake(r), net' = net \cup Msg1of4(NewHandshake(r))
    PROVE  ApJoin
<1> DEFINE q == NewHandshake(r)
<1>1. /\ q.assoc = r.assoc /\ q.GTK = r.GTK /\ q.ANonce = r.ANonce + 1
      /\ q.installs = r.installs /\ q.drv_ptk = r.drv_ptk
      /\ q.PTK_valid = r.PTK_valid
      /\ q.state = "PTKSTART" /\ q.timers = r.timers + 1
  BY NewHandshakeDoes
<1>2. ap' = q /\ net' = net \cup Msg1of4(q)
  OBVIOUS
<1> HIDE DEF q
<1>3. r.timers \in Nat
  BY ApNumbers
<1>4. ap'.timers > 0
  BY <1>1, <1>2, <1>3
<1> QED BY <1>1, <1>2, <1>4 DEF ApJoin

\* Every association.
LEMMA ApAssociatesJoins == ApSide /\ ApAssociates => ApJoin
<1> SUFFICES ASSUME ApSide, ApAssociates PROVE ApJoin
  OBVIOUS
<1>1. ap \in ApType /\ ap.assoc + 1 \in Nat /\ NoReplay \in KeyReplays
  BY KeyReplayTypes DEF ApSide, ApOK, ApType
<1>2. CASE ApNewSta
  <2> DEFINE q == NewAp(ap.assoc + 1, ap.ANonce, ap.GTK, ap.no_retries, ap.installs)
  <2>1. /\ ap.ANonce \in Nat /\ ap.GTK \in Nat
        /\ ap.no_retries \in BOOLEAN /\ ap.installs \in Seq(PTKs)
        /\ AllBelow(ap.installs, 1, ap.ANonce + 1) /\ Increasing(ap.installs, 1)
    BY DEF ApSide, ApOK, ApType
  <2>2. ApOK(q)
    BY <1>1, <2>1, NewApOK
  <2>3. /\ q.PTK_valid = FALSE /\ q.ANonce = ap.ANonce /\ q.installs = ap.installs
        /\ q.drv_ptk = NoPTK /\ q.assoc = ap.assoc + 1 /\ q.GTK = ap.GTK
    BY DEF NewAp
  <2>4. ap' = NewHandshake(q) /\ net' = net \cup Msg1of4(NewHandshake(q))
    BY <1>2 DEF ApNewSta
  <2> HIDE DEF q
  <2> QED BY <2>2, <2>3, <2>4, NewHandshakeJoins DEF ApOK
<1>3. CASE ApStaAssociatedAgain
  <2> DEFINE p == RemovePtk(ap)
             q == [p EXCEPT !.assoc = @ + 1, !.key_replay = NoReplay]
  <2>1. /\ p \in ApType
        /\ p.assoc = ap.assoc /\ p.GTK = ap.GTK /\ p.ANonce = ap.ANonce
        /\ p.installs = ap.installs
        /\ p.drv_ptk = NoPTK /\ p.PTK_valid = FALSE
    BY <1>1, RemovePtkDoes
  <2>2. ap' = NewHandshake(q) /\ net' = net \cup Msg1of4(NewHandshake(q))
    BY <1>3, Zenon DEF ApStaAssociatedAgain
  <2> HIDE DEF p
  <2>3. q \in ApType
    BY <1>1, <2>1, Zenon DEF ApType
  <2>4. /\ q.PTK_valid = p.PTK_valid /\ q.ANonce = p.ANonce
        /\ q.installs = p.installs /\ q.drv_ptk = p.drv_ptk
        /\ q.assoc = p.assoc + 1 /\ q.GTK = p.GTK
    BY <2>1, Zenon DEF ApType
  <2> HIDE DEF q
  <2> QED BY <2>1, <2>2, <2>3, <2>4, NewHandshakeJoins
<1>4. CASE ApReAuth
  <2> DEFINE c == IF ap.GUpdateStationKeys THEN GroupIdle(ap) ELSE ap
             p == RemovePtk(c)
             q == [p EXCEPT !.assoc = @ + 1]
  <2>1. c \in ApType /\ Kept(c, ap)
    BY <1>1, GroupIdleDoes DEF Still, Kept, SameKeys
  <2>2. ap' = NewHandshake(q) /\ net' = net \cup Msg1of4(NewHandshake(q))
    BY <1>4, Zenon DEF ApReAuth
  <2> HIDE DEF c
  <2>3. /\ p \in ApType
        /\ p.assoc = c.assoc /\ p.GTK = c.GTK /\ p.ANonce = c.ANonce
        /\ p.installs = c.installs
        /\ p.drv_ptk = NoPTK /\ p.PTK_valid = FALSE
    BY <2>1, RemovePtkDoes
  <2> HIDE DEF p
  <2>4. p.assoc + 1 \in Nat
    BY <1>1, <2>1, <2>3 DEF Kept
  <2>5. q \in ApType
    BY <2>3, <2>4, Zenon DEF ApType
  <2>6. /\ q.PTK_valid = p.PTK_valid /\ q.ANonce = p.ANonce
        /\ q.installs = p.installs /\ q.drv_ptk = p.drv_ptk
        /\ q.assoc = p.assoc + 1 /\ q.GTK = p.GTK
    BY <2>3, Zenon DEF ApType
  <2> HIDE DEF q
  <2> QED BY <2>1, <2>2, <2>3, <2>5, <2>6, NewHandshakeJoins DEF Kept, SameKeys
<1> QED BY <1>2, <1>3, <1>4 DEF ApAssociates

(***************************************************************************)
(* The steps of the supplicant, summarised.                                *)
(***************************************************************************)

\* What taking a frame never changes.
Context(q, r) ==
    /\ q.assoc = r.assoc /\ q.snonce = r.snonce
    /\ q.policy = r.policy /\ q.anonce = r.anonce

\* The PTK of the frame f is the one in the driver.
InUse(f) == f.ptk # sta.tptk /\ sta.installed

PtkGiven(f) ==
    sta'.installs = IF InUse(f) THEN sta.installs ELSE Append(sta.installs, f.ptk)
GtkGiven(f) ==
    sta'.gtk_installs = IF sta.gtk = f.gtk THEN sta.gtk_installs
                        ELSE Append(sta.gtk_installs, <<sta.assoc, f.gtk>>)

\* 1/4 is answered, with the SNonce n.
Answers(f, n) ==
    /\ f \in Received("1/4") /\ sta.associated /\ f.rc > sta.rx_replay_counter
    /\ n = sta.snonce + 1 \/ (n = sta.snonce /\ ~sta.renew_snonce)
    /\ sta'.snonce = n /\ ~sta'.renew_snonce
    /\ \/ sta'.tptk = <<f.nonce, n>>
       \/ sta'.tptk = sta.tptk /\ sta.tptk[1] = f.nonce
    /\ sta'.associated = sta.associated /\ sta'.assoc = sta.assoc
    /\ sta'.rx_replay_counter = sta.rx_replay_counter
    /\ sta'.ptk = sta.ptk /\ sta'.installed = sta.installed
    /\ sta'.installs = sta.installs
    /\ sta'.gtk = sta.gtk /\ sta'.gtk_installs = sta.gtk_installs
    /\ net' = net \cup Msg2of4(f, n)

\* 3/4 or 1/2 is verified; a temporary PTK that explains its MIC is used up.
Takes(f) ==
    /\ f \in Received("3/4") \cup Received("1/2")
    /\ sta.associated /\ f.rc > sta.rx_replay_counter
    /\ f.ptk # NoPTK /\ f.ptk \in {sta.tptk, sta.ptk}
    /\ Context(sta', sta)
    /\ sta'.renew_snonce \/ (sta'.renew_snonce = sta.renew_snonce /\ f.ptk # sta.tptk)

\* The frame is answered and its keys are installed.
Stays(f) ==
    /\ sta'.associated = TRUE /\ sta'.rx_replay_counter = f.rc /\ sta'.ptk = f.ptk
    /\ sta'.tptk = IF f.ptk = sta.tptk THEN NoPTK ELSE sta.tptk
    /\ sta'.gtk = f.gtk /\ GtkGiven(f)
    /\ \/ /\ f.type = "3/4" /\ sta'.installed = TRUE /\ PtkGiven(f)
          /\ net' = net \cup Msg4of4(f, f.ptk)
       \/ /\ f.type = "1/2" /\ sta'.installed = InUse(f)
          /\ sta'.installs = sta.installs
          /\ net' = net \cup Msg2of2(f, f.ptk)

\* The station gives up, at the frame f or without any; 4/4 may be out already.
GivesUp ==
    /\ sta'.associated = FALSE /\ sta'.tptk = NoPTK /\ sta'.ptk = NoPTK
    /\ sta'.installed = FALSE /\ sta'.gtk_installs = sta.gtk_installs
GivesUpAt(f) ==
    /\ GivesUp
    /\ \/ net' = net /\ sta'.installs = sta.installs
       \/ /\ f.type = "3/4" /\ net' = net \cup Msg4of4(f, f.ptk)
          /\ PtkGiven(f) \/ (~InUse(f) /\ sta'.installs = sta.installs)

Leaves ==
    /\ GivesUp /\ Context(sta', sta) /\ sta'.renew_snonce = sta.renew_snonce
    /\ sta'.installs = sta.installs /\ net' = net

\* A request is sent.
Asks ==
    /\ SamePtks(sta', sta) /\ Context(sta', sta)
    /\ sta'.associated = sta.associated /\ sta'.renew_snonce = sta.renew_snonce
    /\ sta'.rx_replay_counter = sta.rx_replay_counter
    /\ sta'.gtk = sta.gtk /\ sta'.gtk_installs = sta.gtk_installs
    /\ \E type \in {"request", "gtk request"} :
         /\ type = "gtk request" => GtkRequests
         /\ net' = net \cup {Frame(type, sta.request_counter, 0, sta.ptk, 0)}

\* A step within an association.
StaStep ==
    \/ \E f \in net, n \in Nat : Answers(f, n)
    \/ \E f \in net : Takes(f) /\ (Stays(f) \/ GivesUpAt(f))
    \/ Leaves \/ Asks

\* A new association.
StaJoin ==
    /\ ~sta.associated /\ sta'.associated = TRUE
    /\ sta.assoc < ap.assoc /\ sta'.assoc = ap.assoc
    /\ sta'.rx_replay_counter = 0 /\ sta'.renew_snonce = TRUE
    /\ sta'.tptk = NoPTK /\ sta'.ptk = NoPTK /\ sta'.installed = FALSE
    /\ sta'.gtk = 0 /\ sta'.snonce = sta.snonce
    /\ sta'.installs = sta.installs /\ sta'.gtk_installs = sta.gtk_installs
    /\ net' = net

\* wpa_sm_notify_assoc().
LEMMA StaAssociatesJoins == StaSide /\ StaAssociates => StaJoin
<1> SUFFICES ASSUME StaSide, StaAssociates PROVE StaJoin
  OBVIOUS
<1> DEFINE q == [sta EXCEPT !.associated = TRUE, !.assoc = ap.assoc,
                            !.rx_replay_counter = 0, !.renew_snonce = TRUE,
                            !.tptk = NoPTK, !.ptk = NoPTK, !.installed = FALSE,
                            !.gtk = 0]
<1>1. sta \in StaType
  BY DEF StaSide, StaOK
<1>2. /\ ~sta.associated /\ sta.assoc < ap.assoc /\ sta' = q /\ net' = net
  BY Zenon DEF StaAssociates, StaNotifyAssoc
<1>3. /\ q.associated = TRUE /\ q.assoc = ap.assoc
      /\ q.rx_replay_counter = 0 /\ q.renew_snonce = TRUE
      /\ q.tptk = NoPTK /\ q.ptk = NoPTK /\ q.installed = FALSE
      /\ q.gtk = 0 /\ q.snonce = sta.snonce
      /\ q.installs = sta.installs /\ q.gtk_installs = sta.gtk_installs
  BY <1>1, Zenon DEF StaType
<1> HIDE DEF q
<1> QED BY <1>2, <1>3 DEF StaJoin

\* wpa_sm_notify_disassoc().
LEMMA DisassociatedDoes ==
    ASSUME NEW r \in StaType
    PROVE  LET q == Disassociated(r) IN
           /\ Context(q, r) /\ q.associated = FALSE /\ q.tptk = NoPTK
           /\ q.ptk = NoPTK /\ q.installed = FALSE
           /\ q.gtk_installs = r.gtk_installs /\ q.installs = r.installs
           /\ q.renew_snonce = r.renew_snonce
  BY Zenon DEF Disassociated, StaType, Context

\* wpa_supplicant_install_ptk().
LEMMA InstallPtkDoes ==
    ASSUME NEW r, StaOK(r), r.ptk # NoPTK
    PROVE  LET q == InstallPtk(r) IN
           /\ q \in StaType /\ Context(q, r) /\ q.associated = r.associated
           /\ q.rx_replay_counter = r.rx_replay_counter
           /\ q.ptk = r.ptk /\ q.tptk = r.tptk /\ q.installed = TRUE
           /\ q.installs = IF r.installed THEN r.installs ELSE Append(r.installs, r.ptk)
           /\ q.renew_snonce = r.renew_snonce
           /\ q.gtk = r.gtk /\ q.gtk_installs = r.gtk_installs
<1>1. InstallPtk(r) \in StaType /\ r \in StaType
  BY InstallPtkOK DEF StaOK
<1>2. r.installed \in BOOLEAN
  BY <1>1 DEF StaType
<1>3. CASE r.installed
  <2>1. InstallPtk(r) = r /\ r.installed = TRUE
    BY <1>2, <1>3 DEF InstallPtk
  <2> QED BY <1>1, <1>3, <2>1, Zenon DEF Context
<1>4. CASE ~r.installed
  <2>1. InstallPtk(r) = [r EXCEPT !.installed = TRUE, !.installs = Append(@, r.ptk)]
    BY <1>4 DEF InstallPtk
  <2> QED BY <1>1, <1>4, <2>1, Zenon DEF Context, StaType
<1> QED BY <1>3, <1>4

\* wpa_supplicant_install_gtk().
LEMMA InstallGtkDoes ==
    ASSUME NEW r, StaOK(r), NEW gtk \in Nat
    PROVE  LET q == InstallGtk(r, gtk) IN
           /\ q \in StaType /\ Context(q, r) /\ q.associated = r.associated
           /\ q.rx_replay_counter = r.rx_replay_counter
           /\ q.ptk = r.ptk /\ q.tptk = r.tptk /\ q.installed = r.installed
           /\ q.installs = r.installs
           /\ q.renew_snonce = r.renew_snonce /\ q.gtk = gtk
           /\ q.gtk_installs = IF r.gtk = gtk THEN r.gtk_installs
                               ELSE Append(r.gtk_installs, <<r.assoc, gtk>>)
<1>1. InstallGtk(r, gtk) \in StaType /\ r \in StaType
  BY InstallGtkOK DEF StaOK
<1>2. CASE r.gtk = gtk
  <2>1. InstallGtk(r, gtk) = r
    BY <1>2 DEF InstallGtk
  <2> QED BY <1>1, <1>2, <2>1, Zenon DEF Context
<1>3. CASE r.gtk # gtk
  <2>1. InstallGtk(r, gtk)
          = [r EXCEPT !.gtk = gtk, !.gtk_installs = Append(@, <<r.assoc, gtk>>)]
    BY <1>3 DEF InstallGtk
  <2> QED BY <1>1, <1>3, <2>1, Zenon DEF Context, StaType
<1> QED BY <1>2, <1>3

\* wpa_supplicant_verify_eapol_key_mic().
LEMMA VerifiedDoes ==
    ASSUME StaSide, NEW f \in Frames, MicVerifies(f)
    PROVE  LET v == Verified(f) IN
           /\ Context(v, sta) /\ v.associated = sta.associated
           /\ v.rx_replay_counter = f.rc /\ v.ptk = f.ptk
           /\ v.tptk = IF f.ptk = sta.tptk THEN NoPTK ELSE sta.tptk
           /\ v.installed = InUse(f) /\ v.installs = sta.installs
           /\ v.renew_snonce = TRUE
                \/ (v.renew_snonce = sta.renew_snonce /\ f.ptk # sta.tptk)
           /\ v.gtk = sta.gtk /\ v.gtk_installs = sta.gtk_installs
<1> DEFINE r == [sta EXCEPT !.rx_replay_counter = f.rc]
<1>1. sta \in StaType /\ f.rc \in Nat
  BY DEF StaSide, StaOK, Frames
<1>2. r \in StaType
  BY <1>1, Zenon DEF StaType
<1>3. /\ SamePtks(r, sta) /\ Context(r, sta) /\ r.associated = sta.associated
      /\ r.rx_replay_counter = f.rc /\ r.renew_snonce = sta.renew_snonce
      /\ r.gtk = sta.gtk /\ r.gtk_installs = sta.gtk_installs
  BY <1>1, Zenon DEF StaType, SamePtks, Context
<1>4. sta.installed \in BOOLEAN
  BY <1>1 DEF StaType
<1>5. CASE f.ptk # sta.tptk
  <2>1. Verified(f) = r
    BY <1>5, Zenon DEF Verified
  <2> HIDE DEF r
  <2>2. r.ptk = f.ptk /\ r.installed = InUse(f)
    BY <1>3, <1>4, <1>5 DEF MicVerifies, SamePtks, InUse
  <2> QED BY <1>3, <1>5, <2>1, <2>2, Zenon DEF SamePtks
<1>6. CASE f.ptk = sta.tptk
  <2> DEFINE q == [r EXCEPT !.tptk = NoPTK, !.ptk = f.ptk, !.installed = FALSE,
                            !.renew_snonce = TRUE]
  <2>1. Verified(f) = q
    BY <1>6, Zenon DEF Verified
  <2> HIDE DEF r
  <2>2. /\ Context(q, r) /\ q.associated = r.associated
        /\ q.rx_replay_counter = r.rx_replay_counter /\ q.ptk = f.ptk
        /\ q.tptk = NoPTK /\ q.installed = FALSE /\ q.renew_snonce = TRUE
        /\ q.installs = r.installs /\ q.gtk = r.gtk
        /\ q.gtk_installs = r.gtk_installs
    BY <1>2, Zenon DEF StaType, Context
  <2> HIDE DEF q
  <2>3. InUse(f) = FALSE
    BY <1>6 DEF InUse
  <2> QED BY <1>3, <1>6, <2>1, <2>2, <2>3, Zenon DEF SamePtks, Context
<1> QED BY <1>5, <1>6

\* 1/4.
LEMMA StaMsg1of4Moves == StaSide /\ StaMsg1of4 => StaStep
<1> SUFFICES ASSUME StaSide, StaMsg1of4 PROVE StaStep
  OBVIOUS
<1>1. PICK f \in Received("1/4") :
         /\ sta.associated /\ NotReplayed(f)
         /\ sta' = [sta EXCEPT !.snonce = NewSNonce, !.renew_snonce = FALSE,
                               !.tptk = NewTptk(f.nonce), !.anonce = f.nonce]
         /\ net' = net \cup Msg2of4(f, NewSNonce)
  BY Zenon DEF StaMsg1of4
<1> DEFINE n == NewSNonce
           t == NewTptk(f.nonce)
           q == [sta EXCEPT !.snonce = n, !.renew_snonce = FALSE,
                            !.tptk = t, !.anonce = f.nonce]
<1>2. sta \in StaType /\ sta.snonce \in Nat
  BY DEF StaSide, StaOK, StaType
<1>3. n \in Nat /\ (n = sta.snonce + 1 \/ (n = sta.snonce /\ ~sta.renew_snonce))
  BY <1>2 DEF NewSNonce
<1>4. t = <<f.nonce, n>> \/ (t = sta.tptk /\ sta.tptk[1] = f.nonce)
  BY Zenon DEF NewTptk
<1> HIDE DEF n, t
<1>5. /\ q.snonce = n /\ q.renew_snonce = FALSE /\ q.tptk = t
      /\ q.associated = sta.associated /\ q.assoc = sta.assoc
      /\ q.rx_replay_counter = sta.rx_replay_counter
      /\ q.ptk = sta.ptk /\ q.installed = sta.installed
      /\ q.installs = sta.installs
      /\ q.gtk = sta.gtk /\ q.gtk_installs = sta.gtk_installs
  BY <1>2, Zenon DEF StaType
<1>6. sta' = q /\ net' = net \cup Msg2of4(f, n)
  BY <1>1, Zenon DEF n, t
<1> HIDE DEF q
<1>7. f \in net
  BY DEF Received
<1>8. Answers(f, n)
  BY <1>1, <1>3, <1>4, <1>5, <1>6 DEF Answers, NotReplayed
<1> QED BY <1>3, <1>7, <1>8 DEF StaStep

\* 3/4, with its failures.
LEMMA StaMsg3of4Moves == StaSide /\ StaMsg3of4 => StaStep
<1> SUFFICES ASSUME StaSide, StaMsg3of4 PROVE StaStep
  OBVIOUS
<1> DEFINE R(f) == [Verified(f) EXCEPT !.renew_snonce = TRUE]
           Ok(f) == [InstallGtk(InstallPtk(R(f)), f.gtk) EXCEPT !.msg_3_of_4_ok = TRUE]
<1>1. PICK f \in Received("3/4") :
         /\ sta.associated /\ NotReplayed(f) /\ MicVerifies(f)
         /\ \/ sta' = Disassociated(Verified(f)) /\ net' = net
            \/ /\ \/ sta' = Ok(f)
                  \/ ~Verified(f).installed /\ sta' = Disassociated(R(f))
                  \/ sta' = Disassociated(InstallPtk(R(f)))
               /\ net' = net \cup Msg4of4(f, Verified(f).ptk)
  BY Zenon DEF StaMsg3of4
<1>2. f \in Frames /\ f \in net /\ f.gtk \in Nat /\ f.ptk # NoPTK /\ f.type = "3/4"
  BY <1>1 DEF StaSide, Frames, Received, MicVerifies
<1> DEFINE v == Verified(f)
           r == R(f)
           i == InstallPtk(r)
           g == InstallGtk(i, f.gtk)
           q == [g EXCEPT !.msg_3_of_4_ok = TRUE]
<1>3. StaOK(v) /\ v \in StaType
  BY <1>1, <1>2, VerifiedOK DEF StaOK
<1>4. /\ Context(v, sta) /\ v.associated = sta.associated
      /\ v.rx_replay_counter = f.rc /\ v.ptk = f.ptk
      /\ v.tptk = IF f.ptk = sta.tptk THEN NoPTK ELSE sta.tptk
      /\ v.installed = InUse(f) /\ v.installs = sta.installs
      /\ v.renew_snonce = TRUE
           \/ (v.renew_snonce = sta.renew_snonce /\ f.ptk # sta.tptk)
      /\ v.gtk = sta.gtk /\ v.gtk_installs = sta.gtk_installs
  BY <1>1, <1>2, VerifiedDoes
<1>5. /\ \/ sta' = Disassociated(v) /\ net' = net
         \/ /\ \/ sta' = q \/ (~v.installed /\ sta' = Disassociated(r))
               \/ sta' = Disassociated(i)
            /\ net' = net \cup Msg4of4(f, v.ptk)
      /\ r = [v EXCEPT !.renew_snonce = TRUE]
  BY <1>1, Zenon
<1> HIDE DEF v, R, r, Ok
<1>6. r \in StaType
  BY <1>3, <1>5, Zenon DEF StaType
<1>7. /\ SamePtks(r, v) /\ r.renew_snonce = TRUE /\ Context(r, v)
      /\ r.associated = v.associated /\ r.rx_replay_counter = v.rx_replay_counter
      /\ r.gtk = v.gtk /\ r.gtk_installs = v.gtk_installs
  BY <1>3, <1>5, Zenon DEF StaType, SamePtks, Context
<1>8. StaOK(r) /\ r.ptk # NoPTK
  BY <1>2, <1>3, <1>4, <1>6, <1>7, StaKept DEF SamePtks
<1>9. /\ StaOK(i) /\ i \in StaType /\ Context(i, r) /\ i.associated = r.associated
      /\ i.rx_replay_counter = r.rx_replay_counter
      /\ i.ptk = r.ptk /\ i.tptk = r.tptk /\ i.installed = TRUE
      /\ i.installs = IF r.installed THEN r.installs ELSE Append(r.installs, r.ptk)
      /\ i.renew_snonce = r.renew_snonce
      /\ i.gtk = r.gtk /\ i.gtk_installs = r.gtk_installs
  BY <1>8, InstallPtkOK, InstallPtkDoes
<1>10. i.installs = IF InUse(f) THEN sta.installs ELSE Append(sta.installs, f.ptk)
  BY <1>4, <1>7, <1>9 DEF SamePtks
<1> HIDE DEF i
<1>11. Takes(f)
  <2>1. Context(sta', sta)
    <3>1. /\ Context(Disassociated(v), v) /\ Context(Disassociated(r), r)
          /\ Context(Disassociated(i), i)
      BY <1>3, <1>6, <1>9, DisassociatedDoes
    <3>2. Context(g, i) /\ g \in StaType
      BY <1>2, <1>9, InstallGtkDoes
    <3> HIDE DEF g
    <3>3. Context(q, g)
      BY <3>2, Zenon DEF StaType, Context
    <3> HIDE DEF q
    <3> QED BY <1>4, <1>5, <1>7, <1>9, <3>1, <3>2, <3>3 DEF Context
  <2>2. \/ sta'.renew_snonce
        \/ (sta'.renew_snonce = sta.renew_snonce /\ f.ptk # sta.tptk)
    <3>1. /\ Disassociated(v).renew_snonce = v.renew_snonce
          /\ Disassociated(r).renew_snonce = r.renew_snonce
          /\ Disassociated(i).renew_snonce = i.renew_snonce
      BY <1>3, <1>6, <1>9, DisassociatedDoes
    <3>2. g.renew_snonce = i.renew_snonce /\ g \in StaType
      BY <1>2, <1>9, InstallGtkDoes
    <3> HIDE DEF g
    <3>3. q.renew_snonce = g.renew_snonce
      BY <3>2, Zenon DEF StaType
    <3> HIDE DEF q
    <3> QED BY <1>4, <1>5, <1>7, <1>9, <3>1, <3>2, <3>3
  <2> QED BY <1>1, <1>2, <2>1, <2>2 DEF Takes, NotReplayed, MicVerifies
<1>12. CASE sta' = q /\ net' = net \cup Msg4of4(f, v.ptk)
  <2>1. /\ g \in StaType /\ g.associated = i.associated
        /\ g.rx_replay_counter = i.rx_replay_counter
        /\ g.ptk = i.ptk /\ g.tptk = i.tptk /\ g.installed = i.installed
        /\ g.installs = i.installs /\ g.gtk = f.gtk
        /\ g.gtk_installs = IF i.gtk = f.gtk THEN i.gtk_installs
                            ELSE Append(i.gtk_installs, <<i.assoc, f.gtk>>)
    BY <1>2, <1>9, InstallGtkDoes
  <2> HIDE DEF g
  <2>2. /\ q.associated = g.associated /\ q.rx_replay_counter = g.rx_replay_counter
        /\ q.ptk = g.ptk /\ q.tptk = g.tptk /\ q.installed = g.installed
        /\ q.installs = g.installs /\ q.gtk = g.gtk
        /\ q.gtk_installs = g.gtk_installs
    BY <2>1, Zenon DEF StaType
  <2> HIDE DEF q
  <2>3. PtkGiven(f)
    BY <1>10, <1>12, <2>1, <2>2 DEF PtkGiven
  <2>4. /\ i.gtk = sta.gtk /\ i.gtk_installs = sta.gtk_installs
        /\ i.assoc = sta.assoc
    BY <1>4, <1>7, <1>9 DEF Context
  <2>5. GtkGiven(f)
    BY <1>12, <2>1, <2>2, <2>4 DEF GtkGiven
  <2>6. /\ q.associated = sta.associated /\ q.rx_replay_counter = f.rc
        /\ q.ptk = f.ptk /\ q.tptk = v.tptk /\ q.installed = TRUE
        /\ q.gtk = f.gtk
    BY <1>4, <1>7, <1>9, <2>1, <2>2 DEF SamePtks
  <2>7. sta.associated = TRUE
    BY <1>1 DEF StaSide, StaOK, StaType
  <2>8. Stays(f)
    BY <1>2, <1>4, <1>12, <2>3, <2>5, <2>6, <2>7 DEF Stays
  <2> QED BY <1>2, <1>11, <2>8 DEF StaStep
<1>13. ASSUME NEW p \in StaType, sta' = Disassociated(p),
              p.gtk_installs = sta.gtk_installs
       PROVE  GivesUp /\ sta'.installs = p.installs
  BY <1>13, DisassociatedDoes DEF GivesUp
<1>14. CASE sta' = Disassociated(v) /\ net' = net
  <2>1. GivesUpAt(f)
    BY <1>3, <1>4, <1>13, <1>14 DEF GivesUpAt
  <2> QED BY <1>2, <1>11, <2>1 DEF StaStep
<1>15. CASE /\ ~v.installed /\ sta' = Disassociated(r)
            /\ net' = net \cup Msg4of4(f, v.ptk)
  <2>1. GivesUp /\ sta'.installs = sta.installs /\ ~InUse(f)
    BY <1>4, <1>6, <1>7, <1>13, <1>15 DEF SamePtks
  <2>2. GivesUpAt(f)
    BY <1>2, <1>4, <1>15, <2>1 DEF GivesUpAt
  <2> QED BY <1>2, <1>11, <2>2 DEF StaStep
<1>16. CASE sta' = Disassociated(i) /\ net' = net \cup Msg4of4(f, v.ptk)
  <2>1. GivesUp /\ PtkGiven(f)
    BY <1>4, <1>7, <1>9, <1>10, <1>13, <1>16 DEF PtkGiven
  <2>2. GivesUpAt(f)
    BY <1>2, <1>4, <1>16, <2>1 DEF GivesUpAt
  <2> QED BY <1>2, <1>11, <2>2 DEF StaStep
<1> QED BY <1>5, <1>12, <1>14, <1>15, <1>16

\* 1/2.
LEMMA StaMsg1of2Moves == StaSide /\ StaMsg1of2 => StaStep
<1> SUFFICES ASSUME StaSide, StaMsg1of2 PROVE StaStep
  OBVIOUS
<1>1. PICK f \in Received("1/2") :
         /\ sta.associated /\ NotReplayed(f) /\ MicVerifies(f)
         /\ \/ /\ sta' = InstallGtk(Verified(f), f.gtk)
               /\ net' = net \cup Msg2of2(f, Verified(f).ptk)
            \/ sta' = Disassociated(Verified(f)) /\ net' = net
  BY Zenon DEF StaMsg1of2
<1>2. f \in Frames /\ f \in net /\ f.gtk \in Nat /\ f.ptk # NoPTK /\ f.type = "1/2"
  BY <1>1 DEF StaSide, Frames, Received, MicVerifies
<1> DEFINE v == Verified(f)
           g == InstallGtk(v, f.gtk)
<1>3. StaOK(v) /\ v \in StaType
  BY <1>1, <1>2, VerifiedOK DEF StaOK
<1>4. /\ Context(v, sta) /\ v.associated = sta.associated
      /\ v.rx_replay_counter = f.rc /\ v.ptk = f.ptk
      /\ v.tptk = IF f.ptk = sta.tptk THEN NoPTK ELSE sta.tptk
      /\ v.installed = InUse(f) /\ v.installs = sta.installs
      /\ v.renew_snonce = TRUE
           \/ (v.renew_snonce = sta.renew_snonce /\ f.ptk # sta.tptk)
      /\ v.gtk = sta.gtk /\ v.gtk_installs = sta.gtk_installs
  BY <1>1, <1>2, VerifiedDoes
<1> HIDE DEF v
<1>5. CASE sta' = g /\ net' = net \cup Msg2of2(f, v.ptk)
  <2>1. /\ Context(g, v) /\ g.associated = v.associated
        /\ g.rx_replay_counter = v.rx_replay_counter
        /\ g.ptk = v.ptk /\ g.tptk = v.tptk /\ g.installed = v.installed
        /\ g.installs = v.installs /\ g.renew_snonce = v.renew_snonce
        /\ g.gtk = f.gtk
        /\ g.gtk_installs = IF v.gtk = f.gtk THEN v.gtk_installs
                            ELSE Append(v.gtk_installs, <<v.assoc, f.gtk>>)
    BY <1>2, <1>3, InstallGtkDoes
  <2> HIDE DEF g
  <2>2. Takes(f)
    BY <1>1, <1>2, <1>4, <1>5, <2>1 DEF Takes, NotReplayed, MicVerifies, Context
  <2>3. GtkGiven(f)
    BY <1>4, <1>5, <2>1 DEF GtkGiven, Context
  <2>4. sta.associated = TRUE
    BY <1>1 DEF StaSide, StaOK, StaType
  <2>5. Stays(f)
    BY <1>2, <1>4, <1>5, <2>1, <2>3, <2>4 DEF Stays
  <2> QED BY <1>2, <2>2, <2>5 DEF StaStep
<1>6. CASE sta' = Disassociated(v) /\ net' = net
  <2> DEFINE d == Disassociated(v)
  <2>1. /\ Context(d, v) /\ d.associated = FALSE /\ d.tptk = NoPTK
        /\ d.ptk = NoPTK /\ d.installed = FALSE
        /\ d.gtk_installs = v.gtk_installs /\ d.installs = v.installs
        /\ d.renew_snonce = v.renew_snonce
    BY <1>3, DisassociatedDoes
  <2>2. sta' = d
    BY <1>6
  <2> HIDE DEF d
  <2>3. Takes(f)
    BY <1>1, <1>2, <1>4, <2>1, <2>2 DEF Takes, NotReplayed, MicVerifies, Context
  <2>4. GivesUpAt(f)
    BY <1>4, <1>6, <2>1, <2>2 DEF GivesUpAt, GivesUp
  <2> QED BY <1>2, <2>3, <2>4 DEF StaStep
<1> QED BY <1>1, <1>5, <1>6 DEF v

\* Disassociation.
LEMMA StaDisassocMoves == StaSide /\ StaDisassoc => StaStep
<1> SUFFICES ASSUME StaSide, StaDisassoc PROVE StaStep
  OBVIOUS
<1>1. sta \in StaType /\ sta' = Disassociated(sta) /\ net' = net
  BY DEF StaSide, StaOK, StaDisassoc
<1>2. Leaves
  BY <1>1, DisassociatedDoes DEF Leaves, GivesUp
<1> QED BY <1>2 DEF StaStep

\* wpa_sm_key_request().
LEMMA StaRequestMoves == StaSide /\ StaRequest => StaStep
<1> SUFFICES ASSUME StaSide, StaRequest PROVE StaStep
  OBVIOUS
<1> DEFINE q == [sta EXCEPT !.request_counter = @ + 1]
<1>1. sta \in StaType
  BY DEF StaSide, StaOK
<1>2. /\ SamePtks(q, sta) /\ Context(q, sta)
      /\ q.associated = sta.associated /\ q.renew_snonce = sta.renew_snonce
      /\ q.rx_replay_counter = sta.rx_replay_counter
      /\ q.gtk = sta.gtk /\ q.gtk_installs = sta.gtk_installs
  BY <1>1, Zenon DEF StaType, SamePtks, Context
<1>3. PICK type \in {"request", "gtk request"} :
         /\ type = "gtk request" => GtkRequests
         /\ sta' = q
         /\ net' = net \cup {Frame(type, sta.request_counter, 0, sta.ptk, 0)}
  BY Zenon DEF StaRequest
<1> HIDE DEF q
<1>4. Asks
  BY <1>2, <1>3, Zenon DEF Asks
<1> QED BY <1>4 DEF StaStep

\* Every step of the supplicant within an association.
LEMMA StaNextMoves == StaSide /\ StaNext => StaStep
  BY StaDisassocMoves, StaMsg1of4Moves, StaMsg3of4Moves, StaMsg1of2Moves,
     StaRequestMoves, Zenon DEF StaNext

\* The steps of the whole system.
LEMMA Steps ==
    ASSUME Inv, [Next]_vars
    PROVE  /\ Inv'
           /\ \/ ApStep /\ sta' = sta
              \/ ApJoin /\ ~sta.associated /\ sta' = sta
              \/ StaStep /\ ap' = ap
              \/ StaJoin /\ ap' = ap
              \/ ap' = ap /\ sta' = sta /\ net' = net
<1>1. Inv' /\ ApSide /\ StaSide
  BY NextInv DEF Inv
<1>2. CASE ApNext /\ UNCHANGED sta
  BY <1>1, <1>2, ApNextMoves
<1>3. CASE ApAssociates
  BY <1>1, <1>3, ApAssociatesJoins DEF ApAssociates
<1>4. CASE StaAssociates
  BY <1>1, <1>4, StaAssociatesJoins DEF StaAssociates
<1>5. CASE StaNext /\ UNCHANGED ap
  BY <1>1, <1>5, StaNextMoves
<1>6. CASE UNCHANGED vars
  BY <1>1, <1>6 DEF vars
<1> QED BY <1>2, <1>3, <1>4, <1>5, <1>6, Zenon DEF Next

(***************************************************************************)
(* The steps of the authenticator again, for the proofs that need to know  *)
(* which replay counters are valid.                                        *)
(***************************************************************************)

\* Fields that the summary below is about and ApStep is not.
Aside(q, r) ==
    /\ q.SNonce = r.SNonce /\ q.no_retries = r.no_retries
    /\ q.rekey_timer = r.rekey_timer

\* Sending leaves them alone.
LEMMA SendingAside ==
    ASSUME NEW r \in ApType
    PROVE  /\ Aside(SendEapol(r), r) /\ Aside(PtkStart(r), r)
           /\ Aside(NewHandshake(r), r) /\ Aside(PtkInitNegotiating(r), r)
           /\ Aside(RekeyNegotiating(r), r) /\ Aside(GroupIdle(r), r)
<1>1. Aside(SendEapol(r), r) /\ Aside(GroupIdle(r), r)
  BY Zenon DEF Aside, SendEapol, GroupIdle, ApType
<1>2. Aside(PtkStart(r), r)
  BY Zenon DEF Aside, PtkStart, SendEapol, ApType
<1>3. Aside(NewHandshake(r), r)
  BY Zenon DEF Aside, NewHandshake, PtkStart, SendEapol, ApType
<1>4. Aside(PtkInitNegotiating(r), r) /\ Aside(RekeyNegotiating(r), r)
  BY Zenon DEF Aside, PtkInitNegotiating, RekeyNegotiating, SendEapol, ApType
<1> QED BY <1>1, <1>2, <1>3, <1>4

\* So do a new GTK and an answer; a PTK that is removed takes its timer along.
LEMMA OthersAside ==
    ASSUME NEW r \in ApType
    PROVE  /\ Aside(NewGtk(r), r)
           /\ \A prev : Aside(Answered(r, prev), r)
           /\ \A q \in {RemovePtk(r), Initialize(r)} :
                /\ q.SNonce = r.SNonce /\ q.no_retries = r.no_retries
                /\ q.rekey_timer = FALSE
<1>1. Aside(NewGtk(r), r)
  <2>1. CASE r.state # "PTKINITDONE" 
    BY <2>1, Zenon DEF Aside, NewGtk, ApType
  <2>2. CASE r.state = "PTKINITDONE" /\ r.group = "IDLE"
    BY <2>2, Zenon DEF Aside, NewGtk, RekeyNegotiating, SendEapol, ApType
  <2>3. CASE r.state = "PTKINITDONE" /\ r.group # "IDLE"
    BY <2>3, Zenon DEF Aside, NewGtk, ApType
  <2> QED BY <2>1, <2>2, <2>3
<1>2. ASSUME NEW prev PROVE Aside(Answered(r, prev), r)
  BY Zenon DEF Aside, Answered, ApType
<1>3. ASSUME NEW q \in {RemovePtk(r), Initialize(r)}
      PROVE  /\ q.SNonce = r.SNonce /\ q.no_retries = r.no_retries
             /\ q.rekey_timer = FALSE
  BY Zenon DEF RemovePtk, Initialize, ApType
<1> QED BY <1>1, <1>2, <1>3

\* 1/4 is out, or 3/4 is.
Starting(r) == r.state \in {"PTKSTART", "PTKCALCNEGOTIATING"}
Negotiating(r) == r.state = "PTKINITNEGOTIATING"

\* Nothing is sent.  The SNonce of 3/4 stays, unless nothing may be answered
\* any more or a request for a GTK clears it.
Rests ==
    /\ net' = net /\ ap'.ANonce = ap.ANonce
    /\ \/ ap'.state = ap.state \/ ap'.state = "INITIALIZE"
       \/ Negotiating(ap) /\ ap'.state = "PTKINITDONE"
    /\ ap'.PTK_valid => ap.PTK_valid
    /\ ap'.rekey_timer => ap.rekey_timer \/ Negotiating(ap)
    /\ ap'.key_replay \in {ap.key_replay, MarkAllInvalid(ap.key_replay)}
    /\ \/ ap'.prev_key_replay = ap.prev_key_replay /\ ap'.SNonce = ap.SNonce
       \/ ap'.prev_key_replay = NoReplay
       \/ ap'.prev_key_replay = ap.prev_key_replay /\ Received("gtk request") # {}

\* 1/2 is sent, without retries only for a new GTK.
SendsGtk ==
    /\ net' = net \cup Msg1of2(ap') /\ ap'.ANonce = ap.ANonce
    /\ ap'.state = ap.state /\ ap.state \in {"INITIALIZE", "PTKINITDONE"}
    /\ ap'.PTK_valid = ap.PTK_valid /\ ap'.rekey_timer = ap.rekey_timer
    /\ ap'.key_replay = NextReplay(ap.key_replay)
    /\ ap.no_retries => ap'.GTK = ap.GTK + 1

\* 1/4 is sent, for the first time or again.
Starts ==
    /\ net' = net \cup Msg1of4(ap') /\ ap'.state = "PTKSTART"
    /\ ap'.key_replay = NextReplay(ap.key_replay)
    /\ \/ ap'.ANonce = ap.ANonce /\ Starting(ap)
       \/ ap'.ANonce = ap.ANonce + 1 /\ (ap.PTK_valid \/ ap.rekey_timer)

\* 3/4 is sent again.
Repeats ==
    /\ net' = net \cup Msg3of4(ap') /\ ap'.ANonce = ap.ANonce
    /\ Negotiating(ap) /\ Negotiating(ap') /\ ~ap.no_retries
    /\ ap'.key_replay = NextReplay(ap.key_replay)
    /\ ap'.prev_key_replay = ap.prev_key_replay

\* 2/4 is taken: 3/4 is sent, or the MIC is wrong.
Calculates(f) ==
    /\ ap'.ANonce = ap.ANonce
    /\ \/ Starting(ap) /\ ReplayCounterValid(ap.key_replay, f.rc)
       \/ /\ Negotiating(ap) /\ ReplayCounterValid(ap.prev_key_replay, f.rc)
          /\ ap.SNonce # f.nonce
    /\ \/ /\ f.ptk = <<ap.ANonce, f.nonce>> /\ Negotiating(ap')
          /\ net' = net \cup Msg3of4(ap')
          /\ ap'.PTK = f.ptk /\ ap'.PTK_valid /\ ap'.SNonce = f.nonce
          /\ ap'.key_replay = NextReplay(MarkAllInvalid(ap.key_replay))
          /\ ap'.prev_key_replay = MarkInvalid(ap.key_replay, f.rc)
       \/ /\ f.ptk # <<ap.ANonce, f.nonce>> /\ ap'.state = "PTKCALCNEGOTIATING"
          /\ net' = net
          /\ ap'.key_replay = MarkAllInvalid(ap.key_replay)

ApMove ==
    /\ ap'.no_retries = ap.no_retries
    /\ Rests \/ SendsGtk \/ Starts \/ Repeats \/ \E f \in Received("2/4") : Calculates(f)

\* WPA_AUTH, WPA_DEAUTH, WPA_DISASSOC and the acknowledgement of a frame.
LEMMA EventMove == ApSide /\ (ApAuthEvent \/ ApDeauth \/ ApTxStatus) => ApMove
<1> SUFFICES ASSUME ApSide, ApAuthEvent \/ ApDeauth \/ ApTxStatus PROVE ApMove
  OBVIOUS
<1>1. ap \in ApType
  BY DEF ApSide, ApOK
<1>2. CASE ApAuthEvent
  <2> DEFINE q == RemovePtk(ap)
  <2>1. ap' = q /\ net' = net
    BY <1>2 DEF ApAuthEvent
  <2>2. /\ q.ANonce = ap.ANonce /\ q.state = ap.state /\ q.key_replay = ap.key_replay
        /\ q.prev_key_replay = ap.prev_key_replay /\ q.PTK_valid = FALSE
    BY <1>1, RemovePtkDoes
  <2>3. q.SNonce = ap.SNonce /\ q.no_retries = ap.no_retries /\ q.rekey_timer = FALSE
    BY <1>1, OthersAside
  <2> HIDE DEF q
  <2> QED BY <2>1, <2>2, <2>3 DEF ApMove, Rests
<1>3. CASE ApDeauth
  <2> DEFINE q == Initialize(ap)
  <2>1. ap' = q /\ net' = net
    BY <1>3 DEF ApDeauth
  <2>2. /\ q.ANonce = ap.ANonce /\ q.state = "INITIALIZE" /\ q.key_replay = ap.key_replay
        /\ q.prev_key_replay = ap.prev_key_replay /\ q.PTK_valid = FALSE
    BY <1>1, InitializeDoes
  <2>3. q.SNonce = ap.SNonce /\ q.no_retries = ap.no_retries /\ q.rekey_timer = FALSE
    BY <1>1, OthersAside
  <2> HIDE DEF q
  <2> QED BY <2>1, <2>2, <2>3 DEF ApMove, Rests
<1>4. CASE ApTxStatus
  <2> DEFINE q == [ap EXCEPT !.timers = 1]
  <2>1. ap' = q /\ net' = net
    BY <1>4 DEF ApTxStatus
  <2>2. Aside(q, ap) /\ Kept(q, ap) /\ q.state = ap.state /\ q.key_replay = ap.key_replay
        /\ q.prev_key_replay = ap.prev_key_replay
    BY <1>1, Zenon DEF ApType, Kept, SameKeys, Aside
  <2> HIDE DEF q
  <2> QED BY <2>1, <2>2 DEF ApMove, Rests, Kept, SameKeys, Aside
<1> QED BY <1>2, <1>3, <1>4

\* 2/4: the machine r has taken it.
LEMMA CalculatesMove ==
    ASSUME ApSide, NEW r \in ApType, NEW f \in Received("2/4"), PtkCalcNegotiating(r, f),
           r.ANonce = ap.ANonce, r.no_retries = ap.no_retries, r.SNonce = f.nonce,
           r.key_replay = MarkAllInvalid(ap.key_replay),
           r.prev_key_replay = MarkInvalid(ap.key_replay, f.rc),
           \/ Starting(ap) /\ ReplayCounterValid(ap.key_replay, f.rc)
           \/ /\ Negotiating(ap) /\ ReplayCounterValid(ap.prev_key_replay, f.rc)
              /\ ap.SNonce # f.nonce
    PROVE  ApMove
<1> DEFINE p == [r EXCEPT !.PTK = <<r.ANonce, f.nonce>>, !.PTK_valid = TRUE,
                          !.timers = 0, !.TimeoutCtr = 0,
                          !.pending_1_of_4_timeout = FALSE]
           c == CalcPtk(r, f)
           q == [r EXCEPT !.state = "PTKCALCNEGOTIATING"]
<1>1. f \in Frames /\ f.nonce \in Nat /\ r.ANonce \in Nat
  BY DEF ApSide, Received, Frames, ApType
<1>2. CASE f.ptk = <<r.ANonce, f.nonce>> /\ ap' = c /\ net' = net \cup Msg3of4(c)
  <2>1. /\ <<r.ANonce, f.nonce>> \in PTKs /\ 0 \in Nat
        /\ 0 \in 0 .. PairwiseUpdateCount /\ 0 < PairwiseUpdateCount
    BY <1>1, UpdateCountAssumption DEF PTKs
  <2>2. p \in ApType
    BY <2>1, Zenon DEF ApType
  <2>3. /\ Aside(p, r) /\ p.ANonce = r.ANonce
        /\ p.PTK = <<r.ANonce, f.nonce>> /\ p.PTK_valid = TRUE
        /\ p.TimeoutCtr = 0 /\ p.key_replay = r.key_replay
        /\ p.prev_key_replay = r.prev_key_replay
    BY Zenon DEF ApType, Aside
  <2>4. c = PtkInitNegotiating(p)
    BY Zenon DEF CalcPtk
  <2> HIDE DEF p, c
  <2>5. /\ Kept(c, p) /\ c.state = "PTKINITNEGOTIATING"
        /\ c.key_replay = NextReplay(p.key_replay)
        /\ c.prev_key_replay = p.prev_key_replay
    BY <2>1, <2>2, <2>3, <2>4, PtkInitNegotiatingDoes
  <2>6. Aside(c, p)
    BY <2>2, <2>4, SendingAside
  <2>7. /\ c.ANonce = ap.ANonce /\ c.no_retries = ap.no_retries /\ c.SNonce = f.nonce
        /\ c.key_replay = NextReplay(MarkAllInvalid(ap.key_replay))
        /\ c.prev_key_replay = MarkInvalid(ap.key_replay, f.rc)
        /\ c.PTK = f.ptk /\ c.PTK_valid
    BY <1>2, <2>3, <2>5, <2>6 DEF Kept, SameKeys, Aside
  <2>8. Negotiating(c)
    BY <2>5 DEF Negotiating
  <2>9. Calculates(f)
    BY <1>2, <2>7, <2>8 DEF Calculates
  <2> QED BY <1>2, <2>7, <2>9 DEF ApMove
<1>3. CASE f.ptk # <<r.ANonce, f.nonce>> /\ ap' = q /\ net' = net
  <2>1. /\ Aside(q, r) /\ Kept(q, r) /\ q.state = "PTKCALCNEGOTIATING"
        /\ q.key_replay = r.key_replay
    BY Zenon DEF ApType, Kept, SameKeys, Aside
  <2> HIDE DEF q
  <2>2. Calculates(f)
    BY <1>3, <2>1 DEF Calculates, Kept, SameKeys
  <2> QED BY <1>3, <2>1, <2>2 DEF ApMove, Aside
<1> QED BY <1>2, <1>3 DEF PtkCalcNegotiating

\* 2/4.
LEMMA Msg2of4Move == ApSide /\ ApMsg2of4 => ApMove
<1> SUFFICES ASSUME ApSide, ApMsg2of4 PROVE ApMove
  OBVIOUS
<1> DEFINE A(f) == Answered(ap, MarkInvalid(ap.key_replay, f.rc))
           B(f) == [A(f) EXCEPT !.SNonce = f.nonce]
<1>1. PICK f \in Received("2/4") : /\ ap.state \in {"PTKSTART", "PTKCALCNEGOTIATING"}
                                   /\ ReplayCounterValid(ap.key_replay, f.rc)
                                   /\ PtkCalcNegotiating(B(f), f)
  BY Zenon DEF ApMsg2of4
<1>2. f.rc \in Nat /\ f.nonce \in Nat /\ ap \in ApType
  BY DEF ApSide, ApOK, Frames, Received
<1>3. MarkInvalid(ap.key_replay, f.rc) \in KeyReplays
  BY <1>2, KeyReplayTypes DEF ApType
<1> DEFINE a == A(f)
           b == [a EXCEPT !.SNonce = f.nonce]
<1>4. /\ a \in ApType /\ Kept(a, ap) /\ a.key_replay = MarkAllInvalid(ap.key_replay)
      /\ a.prev_key_replay = MarkInvalid(ap.key_replay, f.rc)
  BY <1>2, <1>3, AnsweredDoes
<1>5. Aside(a, ap)
  BY <1>2, OthersAside
<1>6. PtkCalcNegotiating(b, f)
  BY <1>1, Zenon
<1> HIDE DEF a, A, B
<1>7. b \in ApType
  BY <1>2, <1>4, Zenon DEF ApType
<1>8. /\ Still(b, a) /\ b.SNonce = f.nonce /\ b.no_retries = a.no_retries
  BY <1>4, Zenon DEF ApType, Still, Kept, SameKeys
<1> HIDE DEF b
<1>9. /\ b.ANonce = ap.ANonce /\ b.no_retries = ap.no_retries
      /\ b.key_replay = MarkAllInvalid(ap.key_replay)
      /\ b.prev_key_replay = MarkInvalid(ap.key_replay, f.rc)
  BY <1>4, <1>5, <1>8 DEF Still, Kept, SameKeys, Aside
<1>10. Starting(ap)
  BY <1>1 DEF Starting
<1> QED BY <1>1, <1>6, <1>7, <1>8, <1>9, <1>10, CalculatesMove

\* 2/4 with another SNonce.
LEMMA Msg2of4UpdateMove == ApSide /\ ApMsg2of4Update => ApMove
<1> SUFFICES ASSUME ApSide, ApMsg2of4Update PROVE ApMove
  OBVIOUS
<1> DEFINE A(f) == Answered(ap, MarkInvalid(ap.key_replay, f.rc))
           B(f) == [A(f) EXCEPT !.SNonce = f.nonce, !.alt_SNonce = ap.SNonce,
                                !.alt_snonce_valid = TRUE,
                                !.alt_replay_counter = Rc(ap)]
<1>1. PICK f \in Received("2/4") : /\ ap.state = "PTKINITNEGOTIATING"
                                   /\ ReplayCounterValid(ap.prev_key_replay, f.rc)
                                   /\ ap.SNonce # f.nonce
                                   /\ PtkCalcNegotiating(B(f), f)
  BY Zenon DEF ApMsg2of4Update
<1>2. f.rc \in Nat /\ f.nonce \in Nat /\ ap \in ApType /\ ap.SNonce \in Nat
  BY DEF ApSide, ApOK, Frames, Received, ApType
<1>3. MarkInvalid(ap.key_replay, f.rc) \in KeyReplays /\ Rc(ap) \in Nat
  BY <1>2, KeyReplayTypes, ApNumbers
<1> DEFINE a == A(f)
           b == [a EXCEPT !.SNonce = f.nonce, !.alt_SNonce = ap.SNonce,
                          !.alt_snonce_valid = TRUE,
                          !.alt_replay_counter = Rc(ap)]
<1>4. /\ a \in ApType /\ Kept(a, ap) /\ a.key_replay = MarkAllInvalid(ap.key_replay)
      /\ a.prev_key_replay = MarkInvalid(ap.key_replay, f.rc)
  BY <1>2, <1>3, AnsweredDoes
<1>5. Aside(a, ap)
  BY <1>2, OthersAside
<1>6. PtkCalcNegotiating(b, f)
  BY <1>1, Zenon
<1> HIDE DEF a, A, B
<1>7. b \in ApType
  BY <1>2, <1>3, <1>4, Zenon DEF ApType
<1>8. /\ Still(b, a) /\ b.SNonce = f.nonce /\ b.no_retries = a.no_retries
  BY <1>4, Zenon DEF ApType, Still, Kept, SameKeys
<1> HIDE DEF b
<1>9. /\ b.ANonce = ap.ANonce /\ b.no_retries = ap.no_retries
      /\ b.key_replay = MarkAllInvalid(ap.key_replay)
      /\ b.prev_key_replay = MarkInvalid(ap.key_replay, f.rc)
  BY <1>4, <1>5, <1>8 DEF Still, Kept, SameKeys, Aside
<1>10. Negotiating(ap)
  BY <1>1 DEF Negotiating
<1> QED BY <1>1, <1>6, <1>7, <1>8, <1>9, <1>10, CalculatesMove

\* 4/4.
LEMMA Msg4of4Move == ApSide /\ ApMsg4of4 => ApMove
<1> SUFFICES ASSUME ApSide, ApMsg4of4 PROVE ApMove
  OBVIOUS
<1> DEFINE A(f) == [Answered(ap, NoReplay) EXCEPT
                      !.SNonce = 0, !.PTK = Msg4Ptk(f), !.timers = 0,
                      !.alt_snonce_valid = @ /\ f.ptk = ap.PTK,
                      !.pending_1_of_4_timeout = FALSE]
           Done(r) == [r EXCEPT !.state = "PTKINITDONE", !.drv_ptk = r.PTK,
                                !.rekey_timer = TRUE,
                                !.installs = Append(@, r.PTK)]
<1>1. PICK f \in Received("4/4") :
                       /\ ap.state = "PTKINITNEGOTIATING" /\ ap.PTK_valid
                       /\ ap' = Done(A(f)) \/ ap' = Initialize(A(f))
                       /\ net' = net
  BY Zenon DEF ApMsg4of4
<1> DEFINE b == Answered(ap, NoReplay)
           a == A(f)
<1>2. ap \in ApType /\ f.ptk \in PTKs
  BY DEF ApSide, ApOK, Received, Frames
<1>3. /\ b \in ApType /\ Kept(b, ap) /\ b.key_replay = MarkAllInvalid(ap.key_replay)
      /\ b.prev_key_replay = NoReplay
  BY <1>2, AnsweredDoes, KeyReplayTypes
<1>4. Aside(b, ap)
  BY <1>2, OthersAside
<1>5. a = [b EXCEPT !.SNonce = 0, !.PTK = f.ptk, !.timers = 0,
                    !.alt_snonce_valid = @ /\ f.ptk = ap.PTK,
                    !.pending_1_of_4_timeout = FALSE]
  BY Zenon DEF Msg4Ptk
<1> HIDE DEF a, b, A
<1>6. 0 \in Nat /\ (b.alt_snonce_valid /\ f.ptk = ap.PTK) \in BOOLEAN
  OBVIOUS
<1>7. a \in ApType
  BY <1>2, <1>3, <1>5, <1>6, ZenonT(60) DEF ApType
<1>8. /\ a.ANonce = b.ANonce /\ a.no_retries = b.no_retries
      /\ a.key_replay = b.key_replay /\ a.prev_key_replay = b.prev_key_replay
  BY <1>3, <1>5, Zenon DEF ApType
<1>9. /\ a.ANonce = ap.ANonce /\ a.no_retries = ap.no_retries
      /\ a.key_replay = MarkAllInvalid(ap.key_replay) /\ a.prev_key_replay = NoReplay
  BY <1>3, <1>4, <1>8 DEF Kept, SameKeys, Aside
<1>10. Negotiating(ap)
  BY <1>1 DEF Negotiating
<1>11. CASE ap' = Initialize(a)
  <2> DEFINE q == Initialize(a)
  <2>1. /\ q.ANonce = a.ANonce /\ q.state = "INITIALIZE" /\ q.key_replay = a.key_replay
        /\ q.prev_key_replay = a.prev_key_replay /\ q.PTK_valid = FALSE
    BY <1>7, InitializeDoes
  <2>2. q.no_retries = a.no_retries /\ q.rekey_timer = FALSE
    BY <1>7, OthersAside
  <2>3. ap' = q
    BY <1>11
  <2> HIDE DEF q
  <2> QED BY <1>1, <1>9, <2>1, <2>2, <2>3 DEF ApMove, Rests
<1>12. CASE ap' = Done(a)
  <2> DEFINE d == Done(a)
  <2>1. /\ d.ANonce = a.ANonce /\ d.state = "PTKINITDONE" /\ d.key_replay = a.key_replay
        /\ d.prev_key_replay = a.prev_key_replay /\ d.no_retries = a.no_retries
    BY <1>7, Zenon DEF ApType
  <2>2. ap' = d
    BY <1>12
  <2> HIDE DEF d
  <2> QED BY <1>1, <1>9, <1>10, <2>1, <2>2 DEF ApMove, Rests
<1> QED BY <1>1, <1>11, <1>12 DEF a

\* 2/2.
LEMMA Msg2of2Move == ApSide /\ ApMsg2of2 => ApMove
<1> SUFFICES ASSUME ApSide, ApMsg2of2 PROVE ApMove
  OBVIOUS
<1> DEFINE b == Answered(ap, NoReplay)
           g == GroupIdle(b)
           q == [g EXCEPT !.SNonce = 0, !.timers = 0, !.pending_1_of_4_timeout = FALSE]
<1>1. ap' = q /\ net' = net
  BY Zenon DEF ApMsg2of2
<1>2. ap \in ApType
  BY DEF ApSide, ApOK
<1>3. /\ b \in ApType /\ Kept(b, ap) /\ b.state = ap.state
      /\ b.key_replay = MarkAllInvalid(ap.key_replay) /\ b.prev_key_replay = NoReplay
  BY <1>2, AnsweredDoes, KeyReplayTypes
<1>4. Aside(b, ap)
  BY <1>2, OthersAside
<1> HIDE DEF b
<1>5. g \in ApType /\ Still(g, b) /\ Aside(g, b)
  BY <1>3, GroupIdleDoes, SendingAside
<1> HIDE DEF g
<1>6. /\ Kept(q, g) /\ q.state = g.state /\ q.key_replay = g.key_replay
      /\ q.prev_key_replay = g.prev_key_replay /\ q.no_retries = g.no_retries
      /\ q.rekey_timer = g.rekey_timer
  BY <1>5, Zenon DEF ApType, Kept, SameKeys
<1> HIDE DEF q
<1>7. /\ Kept(q, ap) /\ q.state = ap.state /\ q.no_retries = ap.no_retries
      /\ q.key_replay = MarkAllInvalid(ap.key_replay) /\ q.prev_key_replay = NoReplay
      /\ q.rekey_timer = ap.rekey_timer
  BY <1>3, <1>4, <1>5, <1>6 DEF Still, Kept, SameKeys, Aside
<1> QED BY <1>1, <1>7 DEF ApMove, Rests, Kept, SameKeys

\* A new GTK.
LEMMA NewGtkMove ==
    ASSUME NEW r, ApOK(r), Kept(r, ap), r.state = ap.state, r.no_retries = ap.no_retries,
           r.rekey_timer = ap.rekey_timer,
           r.key_replay = ap.key_replay, r.prev_key_replay = ap.prev_key_replay,
           r.SNonce = ap.SNonce \/ Received("gtk request") # {},
           ap' = NewGtk(r), net' = net \cup NewGtkFrames(r)
    PROVE  ApMove
<1> DEFINE q == NewGtk(r)
<1>1. /\ SameKeys(q, r) /\ q.GTK = r.GTK + 1 /\ q.state = r.state
      /\ q.prev_key_replay = r.prev_key_replay
      /\ \/ NewGtkFrames(r) = {} /\ q.key_replay = r.key_replay
         \/ /\ NewGtkFrames(r) = Msg1of2(q) /\ q.state = "PTKINITDONE"
            /\ q.key_replay = NextReplay(r.key_replay)
  BY NewGtkDoes
<1>2. Aside(q, r)
  BY OthersAside DEF ApOK
<1>3. ap' = q
  OBVIOUS
<1> HIDE DEF q
<1>4. /\ q.ANonce = ap.ANonce /\ q.state = ap.state /\ q.PTK_valid = ap.PTK_valid
      /\ q.rekey_timer = ap.rekey_timer /\ q.no_retries = ap.no_retries
      /\ q.GTK = ap.GTK + 1 /\ q.prev_key_replay = ap.prev_key_replay
      /\ q.SNonce = ap.SNonce \/ Received("gtk request") # {}
  BY <1>1, <1>2 DEF Kept, SameKeys, Aside
<1>5. CASE NewGtkFrames(r) = {} /\ q.key_replay = r.key_replay
  BY <1>3, <1>4, <1>5 DEF ApMove, Rests
<1>6. CASE /\ NewGtkFrames(r) = Msg1of2(q) /\ q.state = "PTKINITDONE"
           /\ q.key_replay = NextReplay(r.key_replay)
  BY <1>3, <1>4, <1>6 DEF ApMove, SendsGtk
<1> QED BY <1>1, <1>5, <1>6

\* wpa_rekey_gtk().
LEMMA RekeyGtkMove == ApSide /\ ApRekeyGtk => ApMove
  BY NewGtkMove DEF ApSide, ApRekeyGtk, Kept, SameKeys

\* A new handshake in the same association.
LEMMA NewHandshakeMove ==
    ASSUME NEW r \in ApType, r.ANonce = ap.ANonce, r.no_retries = ap.no_retries,
           r.key_replay = ap.key_replay, ap.PTK_valid \/ ap.rekey_timer,
           ap' = NewHandshake(r), net' = net \cup Msg1of4(NewHandshake(r))
    PROVE  ApMove
<1> DEFINE q == NewHandshake(r)
<1>1. /\ q.ANonce = r.ANonce + 1 /\ q.state = "PTKSTART"
      /\ q.key_replay = NextReplay(r.key_replay)
  BY NewHandshakeDoes
<1>2. Aside(q, r)
  BY SendingAside
<1>3. ap' = q /\ net' = net \cup Msg1of4(q)
  OBVIOUS
<1> HIDE DEF q
<1> QED BY <1>1, <1>2, <1>3 DEF ApMove, Starts, Aside

\* wpa_rekey_ptk().
LEMMA RekeyPtkMove == ApSide /\ ApRekeyPtk => ApMove
<1> SUFFICES ASSUME ApSide, ApRekeyPtk PROVE ApMove
  OBVIOUS
<1> DEFINE q == [ap EXCEPT !.PTK_valid = FALSE, !.rekey_timer = FALSE]
<1>1. /\ ap.rekey_timer
      /\ ap' = NewHandshake(q) /\ net' = net \cup Msg1of4(NewHandshake(q))
  BY Zenon DEF ApRekeyPtk
<1>2. ap \in ApType
  BY DEF ApSide, ApOK
<1>3. /\ q \in ApType /\ q.ANonce = ap.ANonce /\ q.no_retries = ap.no_retries
      /\ q.key_replay = ap.key_replay
  BY <1>2, Zenon DEF ApType
<1> HIDE DEF q
<1> QED BY <1>1, <1>3, NewHandshakeMove

\* An EAPOL-Key Request.
LEMMA RequestMove == ApSide /\ ApRequest => ApMove
<1> SUFFICES ASSUME ApSide, ApRequest PROVE ApMove
  OBVIOUS
<1> DEFINE A(f) == [ap EXCEPT !.timers = 0, !.pending_1_of_4_timeout = FALSE,
                              !.req_next = f.rc + 1, !.SNonce = 0]
           R(f) == NewHandshake([A(f) EXCEPT !.PTK_valid = FALSE])
<1>1. PICK f \in net : /\ ap.PTK_valid
                       /\ \/ ap' = R(f) /\ net' = net \cup Msg1of4(R(f))
                          \/ /\ f.type = "gtk request"
                             /\ ap' = NewGtk(A(f)) /\ net' = net \cup NewGtkFrames(A(f))
  BY Zenon DEF ApRequest, Received
<1>2. f.rc + 1 \in Nat /\ 0 \in Nat
  BY DEF ApSide, Frames
<1>3. ApOK(ap) /\ ap \in ApType
  BY DEF ApSide, ApOK
<1> DEFINE a == A(f)
           b == [a EXCEPT !.PTK_valid = FALSE]
<1>4. a \in ApType
  BY <1>2, <1>3, Zenon DEF ApType
<1>5. /\ Kept(a, ap) /\ a.state = ap.state /\ a.group = ap.group
      /\ a.GTimeoutCtr = ap.GTimeoutCtr /\ a.no_retries = ap.no_retries
      /\ a.rekey_timer = ap.rekey_timer
      /\ a.key_replay = ap.key_replay /\ a.prev_key_replay = ap.prev_key_replay
  BY <1>3, Zenon DEF ApType, Kept, SameKeys
<1>6. R(f) = NewHandshake(b)
  BY Zenon
<1> HIDE DEF a, A, R
<1>7. ApOK(a)
  BY <1>3, <1>4, <1>5, ApKept DEF ApOK, Running, Kept
<1>8. /\ b \in ApType /\ b.ANonce = a.ANonce /\ b.no_retries = a.no_retries
      /\ b.key_replay = a.key_replay
  BY <1>4, Zenon DEF ApType
<1> HIDE DEF b
<1>9. CASE ap' = R(f) /\ net' = net \cup Msg1of4(R(f))
  <2>1. b.ANonce = ap.ANonce /\ b.no_retries = ap.no_retries /\ b.key_replay = ap.key_replay
    BY <1>5, <1>8 DEF Kept, SameKeys
  <2> QED BY <1>1, <1>6, <1>8, <1>9, <2>1, NewHandshakeMove
<1>10. CASE f.type = "gtk request" /\ ap' = NewGtk(a) /\ net' = net \cup NewGtkFrames(a)
  <2>1. Received("gtk request") # {}
    BY <1>10 DEF Received
  <2> QED BY <1>5, <1>7, <1>10, <2>1, NewGtkMove
<1> QED BY <1>1, <1>9, <1>10 DEF a

\* wpa_send_eapol_timeout().
LEMMA TimeoutMove == ApSide /\ ApTimeout => ApMove
<1> SUFFICES ASSUME ApSide, ApTimeout PROVE ApMove
  OBVIOUS
<1> DEFINE r == [ap EXCEPT !.timers = @ - 1, !.pending_1_of_4_timeout = FALSE]
<1>1. ap \in ApType /\ ap.timers - 1 \in Nat
  BY DEF ApSide, ApOK, ApTimeout, ApType
<1>2. /\ ap.TimeoutCtr \in 0 .. PairwiseUpdateCount
      /\ ap.GTimeoutCtr \in 0 .. GroupUpdateCount
  BY <1>1 DEF ApType
<1>3. r \in ApType
  BY <1>1, Zenon DEF ApType
<1>4. /\ Kept(r, ap) /\ r.state = ap.state /\ r.key_replay = ap.key_replay
      /\ r.prev_key_replay = ap.prev_key_replay /\ Aside(r, ap)
      /\ r.GTimeoutCtr = ap.GTimeoutCtr /\ r.TimeoutCtr = ap.TimeoutCtr
  BY <1>1, Zenon DEF ApType, Kept, SameKeys, Aside
<1>5. \/ /\ ap.state \in {"PTKSTART", "PTKCALCNEGOTIATING"} /\ ~Msg1Limit(ap)
         /\ ap' = PtkStart(r) /\ net' = net \cup Msg1of4(PtkStart(r))
      \/ /\ ap.state = "PTKINITNEGOTIATING" /\ ~Msg3Limit(ap)
         /\ ap' = PtkInitNegotiating(r)
         /\ net' = net \cup Msg3of4(PtkInitNegotiating(r))
      \/ ap' = Initialize(r) /\ net' = net
      \/ /\ ap.state \in {"INITIALIZE", "PTKINITDONE"}
         /\ ~GroupLimit(ap) /\ ap' = RekeyNegotiating(r)
         /\ net' = net \cup Msg1of2(RekeyNegotiating(r))
      \/ ap' = Initialize(GroupIdle(r)) /\ net' = net
      \/ ap' = r /\ net' = net
  BY Zenon DEF ApTimeout
<1> HIDE DEF r
<1>6. ASSUME NEW s \in ApType, Kept(s, ap), Aside(s, ap), s.key_replay = ap.key_replay,
             s.prev_key_replay = ap.prev_key_replay, ap' = Initialize(s), net' = net
      PROVE  ApMove
  <2> DEFINE q == Initialize(s)
  <2>1. /\ q.ANonce = s.ANonce /\ q.state = "INITIALIZE" /\ q.key_replay = s.key_replay
        /\ q.prev_key_replay = s.prev_key_replay /\ q.PTK_valid = FALSE
    BY InitializeDoes
  <2>2. q.no_retries = s.no_retries /\ q.rekey_timer = FALSE /\ q.SNonce = s.SNonce
    BY OthersAside
  <2>3. ap' = q
    BY <1>6
  <2> HIDE DEF q
  <2> QED BY <1>6, <2>1, <2>2, <2>3 DEF ApMove, Rests, Kept, SameKeys, Aside
<1>7. CASE /\ ap.state \in {"PTKSTART", "PTKCALCNEGOTIATING"} /\ ~Msg1Limit(ap)
           /\ ap' = PtkStart(r) /\ net' = net \cup Msg1of4(PtkStart(r))
  <2> DEFINE q == PtkStart(r)
  <2>1. r.TimeoutCtr < PairwiseUpdateCount
    BY <1>2, <1>4, <1>7, UpdateCountAssumption DEF Msg1Limit
  <2>2. Kept(q, r) /\ q.state = "PTKSTART" /\ q.key_replay = NextReplay(r.key_replay)
    BY <1>3, <2>1, PtkStartDoes
  <2>3. Aside(q, r)
    BY <1>3, SendingAside
  <2>4. ap' = q /\ net' = net \cup Msg1of4(q) /\ Starting(ap)
    BY <1>7 DEF Starting
  <2> HIDE DEF q
  <2> QED BY <1>4, <2>2, <2>3, <2>4 DEF ApMove, Starts, Kept, SameKeys, Aside
<1>8. CASE /\ ap.state = "PTKINITNEGOTIATING" /\ ~Msg3Limit(ap)
           /\ ap' = PtkInitNegotiating(r)
           /\ net' = net \cup Msg3of4(PtkInitNegotiating(r))
  <2> DEFINE q == PtkInitNegotiating(r)
  <2>1. r.TimeoutCtr < PairwiseUpdateCount
    BY <1>2, <1>4, <1>8, UpdateCountAssumption DEF Msg3Limit
  <2>2. /\ Kept(q, r) /\ q.state = "PTKINITNEGOTIATING"
        /\ q.key_replay = NextReplay(r.key_replay)
        /\ q.prev_key_replay = r.prev_key_replay
    BY <1>3, <2>1, PtkInitNegotiatingDoes
  <2>3. Aside(q, r)
    BY <1>3, SendingAside
  <2>4. ap' = q /\ net' = net \cup Msg3of4(q) /\ Negotiating(ap) /\ Negotiating(q)
    BY <1>8, <2>2 DEF Negotiating
  <2>5. ~ap.no_retries
    BY <1>8 DEF Msg3Limit
  <2> HIDE DEF q
  <2> QED BY <1>4, <2>2, <2>3, <2>4, <2>5 DEF ApMove, Repeats, Kept, SameKeys, Aside
<1>9. CASE /\ ap.state \in {"INITIALIZE", "PTKINITDONE"}
           /\ ~GroupLimit(ap) /\ ap' = RekeyNegotiating(r)
           /\ net' = net \cup Msg1of2(RekeyNegotiating(r))
  <2> DEFINE q == RekeyNegotiating(r)
  <2>1. r.GTimeoutCtr < GroupUpdateCount
    BY <1>2, <1>4, <1>9, UpdateCountAssumption DEF GroupLimit
  <2>2. Kept(q, r) /\ q.state = r.state /\ q.key_replay = NextReplay(r.key_replay)
    BY <1>3, <2>1, RekeyNegotiatingDoes
  <2>3. Aside(q, r)
    BY <1>3, SendingAside
  <2>4. ap' = q /\ net' = net \cup Msg1of2(q)
    BY <1>9
  <2>5. ~ap.no_retries
    BY <1>9 DEF GroupLimit
  <2> HIDE DEF q
  <2> QED BY <1>4, <1>9, <2>2, <2>3, <2>4, <2>5 DEF ApMove, SendsGtk, Kept, SameKeys, Aside
<1>10. CASE ap' = Initialize(r) /\ net' = net
  BY <1>3, <1>4, <1>6, <1>10
<1>11. CASE ap' = Initialize(GroupIdle(r)) /\ net' = net
  <2> DEFINE g == GroupIdle(r)
  <2>1. g \in ApType /\ Still(g, r) /\ Aside(g, r) /\ ap' = Initialize(g)
    BY <1>3, <1>11, GroupIdleDoes, SendingAside
  <2> HIDE DEF g
  <2>2. /\ Kept(g, ap) /\ Aside(g, ap) /\ g.key_replay = ap.key_replay
        /\ g.prev_key_replay = ap.prev_key_replay
    BY <1>4, <2>1 DEF Still, Kept, SameKeys, Aside
  <2> QED BY <1>6, <1>11, <2>1, <2>2
<1>12. CASE ap' = r /\ net' = net
  BY <1>4, <1>12 DEF ApMove, Rests, Kept, SameKeys, Aside
<1> QED BY <1>5, <1>7, <1>8, <1>9, <1>10, <1>11, <1>12

\* Every step of the authenticator within an association.
LEMMA ApNextMove == ApSide /\ ApNext => ApMove
  BY EventMove, Msg2of4Move, Msg2of4UpdateMove, Msg4of4Move, Msg2of2Move,
     RequestMove, TimeoutMove, RekeyPtkMove, RekeyGtkMove, Zenon DEF ApNext
=============================================================================
