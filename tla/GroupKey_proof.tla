--------------------------- MODULE GroupKey_proof ---------------------------
(***************************************************************************)
(* Proofs about GroupKey for any finite set of stations and any values of  *)
(* the retry limits and of the bounds.                                     *)
(***************************************************************************)
EXTENDS GroupKey, FiniteSetTheorems, TLAPS

(***************************************************************************)
(* The inductive invariant.                                                *)
(***************************************************************************)

\* Per station: GTimeoutCtr is 0 in IDLE, so REKEYNEGOTIATING starts counting
\* afresh; a machine that does not exist is not marked; a marked one is in its
\* group handshake.
RecordOK(r) ==
    /\ r \in SmType
    /\ r.wpa_ptk_group_state = "IDLE" => r.GTimeoutCtr = 0
    /\ r.GUpdateStationKeys =>
         r.started /\ r.wpa_ptk_group_state = "REKEYNEGOTIATING"

StateOK ==
    /\ wpa_group_state \in GroupStates
    /\ GKeyDoneStations \in Int
    /\ GTK \in 1 .. MaxGTK /\ txGTK \in 0 .. MaxGTK
    /\ sm \in [STA -> SmType]
    /\ \A s \in STA : RecordOK(sm[s])

\* Without WNM-Sleep Mode no station is left out of the count.
NoStationSleeps == \A s \in STA : ~sm[s].is_wnmsleep

\* The events of a behaviour are fixed.
FeaturesOK == features \in FeatureSets

CountInv == StateOK /\ NoStationSleeps /\ CountMatchesMarks

(***************************************************************************)
(* What the state entry functions do to one record.  The fields with       *)
(* arithmetic are typed by SMT, the record as a whole by Zenon.            *)
(***************************************************************************)

\* A fresh state machine satisfies the invariant and is not marked.
LEMMA NewSmOK ==
    /\ RecordOK(NewSm)
    /\ ~NewSm.GUpdateStationKeys /\ ~NewSm.is_wnmsleep
    /\ RecordOK([NewSm EXCEPT !.started = TRUE])
    /\ ~[NewSm EXCEPT !.started = TRUE].GUpdateStationKeys
    /\ ~[NewSm EXCEPT !.started = TRUE].is_wnmsleep
    /\ [NewSm EXCEPT !.started = TRUE].timers = 0
<1>1. NewSm \in SmType
  BY PairwiseCountAssumption, GroupCountAssumption, BoundsAssumption
     DEF NewSm, SmType, PtkStates, PtkGroupStates
<1> DEFINE r == [NewSm EXCEPT !.started = TRUE]
<1>2. r \in SmType
  BY <1>1, Zenon DEF SmType
<1>3. /\ r.wpa_ptk_group_state = "IDLE" /\ r.GTimeoutCtr = 0
      /\ r.GUpdateStationKeys = FALSE /\ r.is_wnmsleep = FALSE
      /\ r.timers = 0
  BY Zenon DEF NewSm
<1>4. /\ NewSm.wpa_ptk_group_state = "IDLE" /\ NewSm.GTimeoutCtr = 0
      /\ NewSm.GUpdateStationKeys = FALSE /\ NewSm.is_wnmsleep = FALSE
  BY Zenon DEF NewSm
<1> QED BY <1>1, <1>2, <1>3, <1>4, Zenon DEF RecordOK

\* INITIALIZE keeps the invariant and clears the mark.
LEMMA InitializeOK ==
    ASSUME NEW r, RecordOK(r)
    PROVE  /\ RecordOK(Initialize(r))
           /\ ~Initialize(r).GUpdateStationKeys
           /\ Initialize(r).is_wnmsleep = r.is_wnmsleep
           /\ Initialize(r).timers = r.timers
<1>1. 0 \in 0 .. PairwiseUpdateCount /\ {} \in SUBSET (1 .. MaxGTK)
  BY PairwiseCountAssumption
<1>2. r \in SmType
  BY DEF RecordOK
<1>3. Initialize(r) \in SmType
  BY <1>1, <1>2, Zenon DEF Initialize, SmType, PtkStates
<1>4. /\ Initialize(r).wpa_ptk_group_state = r.wpa_ptk_group_state
      /\ Initialize(r).GTimeoutCtr = r.GTimeoutCtr
      /\ Initialize(r).GUpdateStationKeys = FALSE
      /\ Initialize(r).is_wnmsleep = r.is_wnmsleep
      /\ Initialize(r).timers = r.timers
  BY <1>2, Zenon DEF Initialize, SmType
<1> QED BY <1>3, <1>4, Zenon DEF RecordOK

\* PTKSTART keeps the invariant and the mark, if a timeout can be registered.
LEMMA PtkStartOK ==
    ASSUME NEW r, RecordOK(r), r.timers < MaxTimers
    PROVE  /\ RecordOK(PtkStart(r))
           /\ PtkStart(r).GUpdateStationKeys = r.GUpdateStationKeys
           /\ PtkStart(r).is_wnmsleep = r.is_wnmsleep
<1>1. r \in SmType
  BY DEF RecordOK
<1>2. /\ 1 \in 0 .. PairwiseUpdateCount /\ {} \in SUBSET (1 .. MaxGTK)
      /\ r.timers + 1 \in 0 .. MaxTimers
  BY <1>1, PairwiseCountAssumption, BoundsAssumption DEF SmType
<1>3. PtkStart(r) \in SmType
  BY <1>1, <1>2, Zenon DEF PtkStart, SmType, PtkStates
<1>4. /\ PtkStart(r).wpa_ptk_group_state = r.wpa_ptk_group_state
      /\ PtkStart(r).GTimeoutCtr = r.GTimeoutCtr
      /\ PtkStart(r).GUpdateStationKeys = r.GUpdateStationKeys
      /\ PtkStart(r).started = r.started
      /\ PtkStart(r).is_wnmsleep = r.is_wnmsleep
  BY <1>1, Zenon DEF PtkStart, SmType
<1> QED BY <1>3, <1>4, Zenon DEF RecordOK

\* PTKINITNEGOTIATING, likewise, while tries are left.
LEMMA PtkInitNegotiatingOK ==
    ASSUME NEW r, RecordOK(r), r.timers < MaxTimers, GTK \in 1 .. MaxGTK,
           r.TimeoutCtr < PairwiseUpdateCount
    PROVE  /\ RecordOK(PtkInitNegotiating(r))
           /\ PtkInitNegotiating(r).GUpdateStationKeys = r.GUpdateStationKeys
           /\ PtkInitNegotiating(r).is_wnmsleep = r.is_wnmsleep
<1> DEFINE q == PtkInitNegotiating(r)
<1>1. r \in SmType
  BY DEF RecordOK
<1>2. /\ r.TimeoutCtr + 1 \in 0 .. PairwiseUpdateCount
      /\ r.timers + 1 \in 0 .. MaxTimers
      /\ (IF r.PTK_valid THEN r.msg3 \cup {GTK} ELSE r.msg3)
           \in SUBSET (1 .. MaxGTK)
  BY <1>1, PairwiseCountAssumption, BoundsAssumption DEF SmType
<1>3. q \in SmType
  BY <1>1, <1>2, Zenon DEF PtkInitNegotiating, SmType, PtkStates
<1>4. /\ q.wpa_ptk_group_state = r.wpa_ptk_group_state
      /\ q.GTimeoutCtr = r.GTimeoutCtr
      /\ q.GUpdateStationKeys = r.GUpdateStationKeys
      /\ q.started = r.started /\ q.is_wnmsleep = r.is_wnmsleep
  BY <1>1, Zenon DEF PtkInitNegotiating, SmType
<1> QED BY <1>3, <1>4, Zenon DEF RecordOK

\* REKEYNEGOTIATING, likewise; the mark may have been set just before.
LEMMA RekeyNegotiatingOK ==
    ASSUME NEW r \in SmType, r.timers < MaxTimers, NEW g \in 1 .. MaxGTK,
           r.GTimeoutCtr < GroupUpdateCount,
           r.GUpdateStationKeys => r.started
    PROVE  /\ RecordOK(RekeyNegotiating(r, g))
           /\ RekeyNegotiating(r, g).GUpdateStationKeys = r.GUpdateStationKeys
           /\ RekeyNegotiating(r, g).is_wnmsleep = r.is_wnmsleep
<1> DEFINE q == RekeyNegotiating(r, g)
<1>2. /\ r.GTimeoutCtr + 1 \in 0 .. GroupUpdateCount
      /\ r.timers + 1 \in 0 .. MaxTimers
      /\ (IF r.PTK_valid THEN r.msg1of2 \cup {g} ELSE r.msg1of2)
           \in SUBSET (1 .. MaxGTK)
  BY GroupCountAssumption, BoundsAssumption DEF SmType
<1>3. q \in SmType
  BY <1>2, Zenon DEF RekeyNegotiating, SmType, PtkGroupStates
<1>4. /\ q.wpa_ptk_group_state = "REKEYNEGOTIATING"
      /\ q.GUpdateStationKeys = r.GUpdateStationKeys
      /\ q.started = r.started /\ q.is_wnmsleep = r.is_wnmsleep
  BY Zenon DEF RekeyNegotiating, SmType
<1>5. "REKEYNEGOTIATING" # "IDLE"
  OBVIOUS
<1> QED BY <1>3, <1>4, <1>5, Zenon DEF RecordOK

\* IDLE of the group machine keeps the invariant and clears the mark.
LEMMA GroupIdleOK ==
    ASSUME NEW r, RecordOK(r)
    PROVE  /\ RecordOK(GroupIdle(r))
           /\ ~GroupIdle(r).GUpdateStationKeys
           /\ GroupIdle(r).is_wnmsleep = r.is_wnmsleep
           /\ GroupIdle(r).timers = r.timers
<1>1. r \in SmType
  BY DEF RecordOK
<1>2. 0 \in 0 .. GroupUpdateCount
  BY GroupCountAssumption
<1>3. GroupIdle(r) \in SmType
  BY <1>1, <1>2, Zenon DEF GroupIdle, SmType, PtkGroupStates
<1>4. /\ GroupIdle(r).GTimeoutCtr = 0
      /\ GroupIdle(r).GUpdateStationKeys = FALSE
      /\ GroupIdle(r).is_wnmsleep = r.is_wnmsleep
      /\ GroupIdle(r).timers = r.timers
  BY <1>1, Zenon DEF GroupIdle, SmType
<1> QED BY <1>3, <1>4, Zenon DEF RecordOK

\* Serving a pending Disconnect keeps the invariant, and takes off the count
\* exactly the mark it clears.
LEMMA SettleOK ==
    ASSUME NEW r, RecordOK(r)
    PROVE  /\ RecordOK(Settle(r))
           /\ Pending(Settle(r)) = Pending(r) - SettleDec(r)
           /\ Settle(r).is_wnmsleep = r.is_wnmsleep
           /\ Settle(r).timers = r.timers
<1>1. CASE r.Disconnect
  BY <1>1, InitializeOK DEF Settle, SettleDec, Pending
<1>2. CASE ~r.Disconnect
  BY <1>2 DEF Settle, SettleDec, Pending
<1> QED BY <1>1, <1>2

\* Marking a station for disconnection changes nothing else.
LEMMA MarkDisconnectOK ==
    ASSUME NEW r, RecordOK(r)
    PROVE  LET q == [r EXCEPT !.Disconnect = r.started]
           IN /\ RecordOK(q)
              /\ q.GUpdateStationKeys = r.GUpdateStationKeys
              /\ q.is_wnmsleep = r.is_wnmsleep
<1> DEFINE q == [r EXCEPT !.Disconnect = r.started]
<1>1. r \in SmType
  BY DEF RecordOK
<1>2. q \in SmType
  BY <1>1, Zenon DEF SmType
<1>3. /\ q.wpa_ptk_group_state = r.wpa_ptk_group_state
      /\ q.GTimeoutCtr = r.GTimeoutCtr
      /\ q.GUpdateStationKeys = r.GUpdateStationKeys
      /\ q.started = r.started /\ q.is_wnmsleep = r.is_wnmsleep
  BY <1>1, Zenon DEF SmType
<1> QED BY <1>2, <1>3, Zenon DEF RecordOK

\* Cancelling the wpa_rekey_ptk timer changes nothing else.
LEMMA CancelRekeyOK ==
    ASSUME NEW r, RecordOK(r)
    PROVE  LET q == [r EXCEPT !.rekey_timer = FALSE]
           IN /\ RecordOK(q)
              /\ q.GUpdateStationKeys = r.GUpdateStationKeys
              /\ q.is_wnmsleep = r.is_wnmsleep
              /\ q.timers = r.timers
<1> DEFINE q == [r EXCEPT !.rekey_timer = FALSE]
<1>1. r \in SmType
  BY DEF RecordOK
<1>2. q \in SmType
  BY <1>1, Zenon DEF SmType
<1>3. /\ q.wpa_ptk_group_state = r.wpa_ptk_group_state
      /\ q.GTimeoutCtr = r.GTimeoutCtr
      /\ q.GUpdateStationKeys = r.GUpdateStationKeys
      /\ q.started = r.started /\ q.is_wnmsleep = r.is_wnmsleep
      /\ q.timers = r.timers
  BY <1>1, Zenon DEF SmType
<1> QED BY <1>2, <1>3, Zenon DEF RecordOK

\* Cancelling the EAPOL-Key timeouts changes nothing else.
LEMMA CancelTimeoutsOK ==
    ASSUME NEW r, RecordOK(r)
    PROVE  LET q == [r EXCEPT !.timers = 0]
           IN /\ RecordOK(q)
              /\ q.GUpdateStationKeys = r.GUpdateStationKeys
              /\ q.is_wnmsleep = r.is_wnmsleep
              /\ q.timers = 0
<1> DEFINE q == [r EXCEPT !.timers = 0]
<1>1. r \in SmType
  BY DEF RecordOK
<1>2. 0 \in 0 .. MaxTimers
  BY BoundsAssumption
<1>3. q \in SmType
  BY <1>1, <1>2, Zenon DEF SmType
<1>4. /\ q.wpa_ptk_group_state = r.wpa_ptk_group_state
      /\ q.GTimeoutCtr = r.GTimeoutCtr
      /\ q.GUpdateStationKeys = r.GUpdateStationKeys
      /\ q.started = r.started /\ q.is_wnmsleep = r.is_wnmsleep
      /\ q.timers = 0
  BY <1>1, Zenon DEF SmType
<1> QED BY <1>3, <1>4, Zenon DEF RecordOK

\* wpa_group_update_sta() keeps the invariant; it leaves a station that is
\* awake marked exactly when it counts it.
LEMMA UpdateStaOK ==
    ASSUME NEW r, RecordOK(r), r.started, NEW g \in 1 .. MaxGTK,
           Counted(r) => r.timers < MaxTimers
    PROVE  /\ RecordOK(UpdateSta(r, g))
           /\ UpdateSta(r, g).is_wnmsleep = r.is_wnmsleep
           /\ ~r.is_wnmsleep =>
                (UpdateSta(r, g).GUpdateStationKeys <=> Counted(r))
<1>1. r \in SmType
  BY DEF RecordOK
<1>2. CASE r.wpa_ptk_state # "PTKINITDONE"
  <2> DEFINE q == [r EXCEPT !.GUpdateStationKeys = FALSE]
  <2>1. UpdateSta(r, g) = q /\ ~Counted(r)
    BY <1>2 DEF UpdateSta, Counted
  <2>2. q \in SmType
    BY <1>1, Zenon DEF SmType
  <2>3. /\ q.wpa_ptk_group_state = r.wpa_ptk_group_state
        /\ q.GTimeoutCtr = r.GTimeoutCtr
        /\ q.GUpdateStationKeys = FALSE /\ q.is_wnmsleep = r.is_wnmsleep
    BY <1>1, Zenon DEF SmType
  <2> QED BY <2>1, <2>2, <2>3, Zenon DEF RecordOK
<1>3. CASE r.wpa_ptk_state = "PTKINITDONE" /\ r.is_wnmsleep
  BY <1>3 DEF UpdateSta
<1>4. CASE r.wpa_ptk_state = "PTKINITDONE" /\ ~r.is_wnmsleep
  <2> DEFINE u == [r EXCEPT !.GUpdateStationKeys = TRUE]
  <2>1. Counted(r) /\ r.timers < MaxTimers
    BY <1>4 DEF Counted
  <2>2. u \in SmType
    BY <1>1, Zenon DEF SmType
  <2>3. /\ u.wpa_ptk_group_state = r.wpa_ptk_group_state
        /\ u.GTimeoutCtr = r.GTimeoutCtr /\ u.timers = r.timers
        /\ u.GUpdateStationKeys = TRUE /\ u.is_wnmsleep = r.is_wnmsleep
        /\ u.started = r.started
    BY <1>1, Zenon DEF SmType
  <2>4. CASE r.wpa_ptk_group_state = "IDLE"
    <3>1. UpdateSta(r, g) = RekeyNegotiating(u, g)
      BY <1>4, <2>4 DEF UpdateSta
    <3>2. u.GTimeoutCtr < GroupUpdateCount
      BY <2>3, <2>4, GroupCountAssumption DEF RecordOK
    <3>3. u.timers < MaxTimers
      BY <2>1, <2>3
    <3>4. u.GUpdateStationKeys => u.started
      BY <2>3
    <3>5. /\ RecordOK(RekeyNegotiating(u, g))
          /\ RekeyNegotiating(u, g).GUpdateStationKeys = u.GUpdateStationKeys
          /\ RekeyNegotiating(u, g).is_wnmsleep = u.is_wnmsleep
      BY <2>2, <3>2, <3>3, <3>4, RekeyNegotiatingOK
    <3> QED BY <2>1, <2>3, <3>1, <3>5, Zenon
  <2>5. CASE r.wpa_ptk_group_state # "IDLE"
    <3>1. UpdateSta(r, g) = u
      BY <1>4, <2>5 DEF UpdateSta
    <3>2. r.wpa_ptk_group_state = "REKEYNEGOTIATING"
      BY <1>1, <2>5 DEF SmType, PtkGroupStates
    <3> QED BY <2>1, <2>2, <2>3, <2>5, <3>1, <3>2, Zenon DEF RecordOK
  <2> QED BY <2>4, <2>5
<1> QED BY <1>2, <1>3, <1>4

(***************************************************************************)
(* Counting marked stations.                                               *)
(***************************************************************************)

\* Two sets of stations that differ at most in s.
LEMMA CardinalityUpdate ==
    ASSUME NEW s \in STA, NEW P \in SUBSET STA, NEW Q \in SUBSET STA,
           P \ {s} = Q \ {s}
    PROVE  /\ Cardinality(P) \in Nat /\ Cardinality(Q) \in Nat
           /\ Cardinality(Q) = Cardinality(P)
                - (IF s \in P THEN 1 ELSE 0) + (IF s \in Q THEN 1 ELSE 0)
<1>1. IsFiniteSet(P) /\ IsFiniteSet(Q)
  BY STAAssumption, FS_Subset
<1>2. Cardinality(P) \in Nat /\ Cardinality(Q) \in Nat
  BY <1>1, FS_CardinalityType
<1>3. Cardinality(P \ {s}) = Cardinality(P) - (IF s \in P THEN 1 ELSE 0)
  <2>1. CASE s \in P
    BY <1>1, <2>1, FS_RemoveElement
  <2>2. CASE s \notin P
    <3>1. P \ {s} = P
      BY <2>2
    <3> QED BY <1>2, <2>2, <3>1
  <2> QED BY <2>1, <2>2
<1>4. Cardinality(Q \ {s}) = Cardinality(Q) - (IF s \in Q THEN 1 ELSE 0)
  <2>1. CASE s \in Q
    BY <1>1, <2>1, FS_RemoveElement
  <2>2. CASE s \notin Q
    <3>1. Q \ {s} = Q
      BY <2>2
    <3> QED BY <1>2, <2>2, <3>1
  <2> QED BY <2>1, <2>2
<1> QED BY <1>2, <1>3, <1>4

(***************************************************************************)
(* The end of a step loop.                                                 *)
(***************************************************************************)

\* wpa_group_sm_step() keeps the types, whatever the station's step did.
LEMMA StepDoneState ==
    ASSUME StateOK, NEW s \in STA, NEW r, RecordOK(r), NEW n \in Int,
           StepDone(s, r, n)
    PROVE  StateOK'
<1>1. r \in SmType /\ Initialize(r) \in SmType /\ RecordOK(Initialize(r))
  BY InitializeOK DEF RecordOK
<1>2. Pending(r) \in Int
  BY DEF Pending
<1>3. ASSUME sm' = [sm EXCEPT ![s] = r]
      PROVE  sm' \in [STA -> SmType] /\ \A t \in STA : RecordOK(sm'[t])
  BY <1>1, <1>3 DEF StateOK
<1>4. ASSUME sm' = [t \in STA |-> IF t = s THEN Initialize(r)
                      ELSE [sm[t] EXCEPT !.Disconnect = sm[t].started]]
      PROVE  sm' \in [STA -> SmType] /\ \A t \in STA : RecordOK(sm'[t])
  <2>1. \A t \in STA : RecordOK(sm'[t])
    BY <1>1, <1>4, MarkDisconnectOK DEF StateOK
  <2>2. DOMAIN sm' = STA /\ sm' = [t \in STA |-> sm'[t]]
    BY <1>4
  <2> QED BY <2>1, <2>2 DEF RecordOK
<1> QED BY <1>2, <1>3, <1>4 DEF StepDone, StateOK, GroupStates, RecordOK

\* It keeps the count as well, if the step of station s accounted for it.
LEMMA StepDoneCount ==
    ASSUME CountInv, NEW s \in STA, NEW r, RecordOK(r), ~r.is_wnmsleep,
           NEW n \in Int, n = GKeyDoneStations - Pending(sm[s]) + Pending(r),
           StepDone(s, r, n)
    PROVE  CountInv'
<1>1. StateOK'
  BY StepDoneState DEF CountInv
<1> DEFINE P == MarkedStations
           Q == MarkedStations'
<1>2. P \in SUBSET STA /\ Q \in SUBSET STA /\ (s \in P <=> sm[s].GUpdateStationKeys)
  BY DEF MarkedStations
<1>3. ASSUME sm' = [sm EXCEPT ![s] = r], GKeyDoneStations' = n
      PROVE  CountMatchesMarks' /\ NoStationSleeps'
  <2>1. sm'[s] = r /\ \A t \in STA \ {s} : sm'[t] = sm[t]
    BY <1>3 DEF CountInv, StateOK
  <2>2. P \ {s} = Q \ {s} /\ (s \in Q <=> r.GUpdateStationKeys)
    BY <2>1 DEF MarkedStations
  <2>3. Cardinality(Q) = Cardinality(P) - Pending(sm[s]) + Pending(r)
    BY <1>2, <2>2, CardinalityUpdate DEF Pending
  <2>4. NoStationSleeps'
    BY <2>1 DEF NoStationSleeps, CountInv
  <2>5. GKeyDoneStations = Cardinality(P)
    BY DEF CountInv, CountMatchesMarks
  <2> QED BY <1>3, <2>3, <2>4, <2>5 DEF CountMatchesMarks
<1>4. ASSUME sm' = [t \in STA |-> IF t = s THEN Initialize(r)
                      ELSE [sm[t] EXCEPT !.Disconnect = sm[t].started]],
             GKeyDoneStations' = n - Pending(r)
      PROVE  CountMatchesMarks' /\ NoStationSleeps'
  <2>1. ~sm'[s].GUpdateStationKeys /\ ~sm'[s].is_wnmsleep
    BY <1>4, InitializeOK
  <2>2. \A t \in STA \ {s} :
          /\ sm'[t].GUpdateStationKeys = sm[t].GUpdateStationKeys
          /\ sm'[t].is_wnmsleep = sm[t].is_wnmsleep
    BY <1>4, MarkDisconnectOK DEF CountInv, StateOK
  <2>3. P \ {s} = Q \ {s} /\ s \notin Q
    BY <2>1, <2>2 DEF MarkedStations
  <2>4. Cardinality(Q) = Cardinality(P) - Pending(sm[s]) /\ Cardinality(P) \in Nat
    BY <1>2, <2>3, CardinalityUpdate DEF Pending
  <2>5. NoStationSleeps'
    BY <2>1, <2>2 DEF NoStationSleeps, CountInv
  <2>6. GKeyDoneStations = Cardinality(P) /\ Pending(r) \in Int /\ Pending(sm[s]) \in Int
    BY DEF CountInv, CountMatchesMarks, Pending
  <2> QED BY <1>4, <2>4, <2>5, <2>6 DEF CountMatchesMarks
<1> QED BY <1>1, <1>3, <1>4 DEF StepDone, CountInv

(***************************************************************************)
(* One lemma per callback of a station: it ends a step loop whose record   *)
(* satisfies the invariant and whose count is right.                       *)
(***************************************************************************)

Accounted(s) ==
    \E r \in SmType : \E n \in Int :
        /\ RecordOK(r)
        /\ r.is_wnmsleep => sm[s].is_wnmsleep
        /\ n = GKeyDoneStations - Pending(sm[s]) + Pending(r)
        /\ StepDone(s, r, n)

\* The form in which the callbacks below use Accounted.
LEMMA AccountedIntro ==
    ASSUME StateOK, NEW s \in STA, NEW r, RecordOK(r),
           r.is_wnmsleep => sm[s].is_wnmsleep, NEW n,
           n = GKeyDoneStations - Pending(sm[s]) + Pending(r),
           StepDone(s, r, n)
    PROVE  Accounted(s)
<1>1. n \in Int
  BY DEF StateOK, Pending
<1>2. r \in SmType
  BY DEF RecordOK
<1> QED BY <1>1, <1>2, Zenon DEF Accounted

\* Association of a new station.
LEMMA StaAssociatedOK ==
    ASSUME StateOK, NEW s \in STA, StaAssociated(s)
    PROVE  Accounted(s)
<1> DEFINE f == [NewSm EXCEPT !.started = TRUE]
<1>a. RecordOK(f) /\ ~f.GUpdateStationKeys /\ ~f.is_wnmsleep /\ f.timers = 0
  BY NewSmOK
<1>b. StepDone(s, PtkStart(f), GKeyDoneStations)
  BY DEF StaAssociated
<1> HIDE DEF f
<1>1. /\ RecordOK(PtkStart(f)) /\ ~PtkStart(f).GUpdateStationKeys
      /\ ~PtkStart(f).is_wnmsleep
  BY <1>a, PtkStartOK, BoundsAssumption
<1>2. ~sm[s].GUpdateStationKeys
  BY DEF StaAssociated, StateOK, RecordOK
<1>3. GKeyDoneStations = GKeyDoneStations - Pending(sm[s]) + Pending(PtkStart(f))
  BY <1>1, <1>2 DEF Pending, StateOK
<1> QED BY <1>b, <1>1, <1>3, AccountedIntro

\* Association on the machine of an earlier one.
LEMMA StaAssociatedAgainOK ==
    ASSUME StateOK, NEW s \in STA, StaAssociatedAgain(s)
    PROVE  Accounted(s)
<1> DEFINE f == [sm[s] EXCEPT !.msg1of2 = {}]
<1>1. sm[s] \in SmType /\ RecordOK(sm[s]) /\ {} \in SUBSET (1 .. MaxGTK)
  BY DEF StateOK
<1>2. f \in SmType
  BY <1>1, Zenon DEF SmType
<1>3. /\ f.wpa_ptk_group_state = sm[s].wpa_ptk_group_state
      /\ f.GTimeoutCtr = sm[s].GTimeoutCtr /\ f.started = sm[s].started
      /\ f.GUpdateStationKeys = sm[s].GUpdateStationKeys
      /\ f.is_wnmsleep = sm[s].is_wnmsleep /\ f.timers = sm[s].timers
  BY <1>1, Zenon DEF SmType
<1>4. RecordOK(f)
  BY <1>1, <1>2, <1>3, Zenon DEF RecordOK
<1>5. f.timers < MaxTimers
  BY <1>3 DEF StaAssociatedAgain
<1>6. /\ RecordOK(PtkStart(f))
      /\ PtkStart(f).GUpdateStationKeys = sm[s].GUpdateStationKeys
      /\ PtkStart(f).is_wnmsleep = sm[s].is_wnmsleep
  BY <1>3, <1>4, <1>5, PtkStartOK
<1>7. GKeyDoneStations = GKeyDoneStations - Pending(sm[s]) + Pending(PtkStart(f))
  BY <1>6 DEF Pending, StateOK
<1> QED BY <1>6, <1>7, AccountedIntro DEF StaAssociatedAgain

\* Reassociation.
LEMMA ReAuthOK ==
    ASSUME StateOK, NEW s \in STA, ReAuth(s)
    PROVE  Accounted(s)
<1> DEFINE r == sm[s]
           c == IF r.GUpdateStationKeys THEN GroupIdle(r) ELSE r
           d == [c EXCEPT !.rekey_timer = FALSE]
<1>1. RecordOK(r) /\ r.timers < MaxTimers
  BY DEF StateOK, ReAuth
<1>2. /\ RecordOK(c) /\ ~c.GUpdateStationKeys /\ c.timers < MaxTimers
      /\ c.is_wnmsleep = r.is_wnmsleep
  BY <1>1, GroupIdleOK
<1> HIDE DEF c
<1>a. /\ RecordOK(d) /\ ~d.GUpdateStationKeys /\ d.timers < MaxTimers
      /\ d.is_wnmsleep = r.is_wnmsleep
  BY <1>2, CancelRekeyOK
<1>5. StepDone(s, PtkStart(d), GKeyDoneStations - Pending(r))
  BY DEF ReAuth, c
<1> HIDE DEF d
<1>3. /\ RecordOK(PtkStart(d)) /\ ~PtkStart(d).GUpdateStationKeys
      /\ PtkStart(d).is_wnmsleep = r.is_wnmsleep
  BY <1>a, PtkStartOK
<1>4. GKeyDoneStations - Pending(r)
        = GKeyDoneStations - Pending(r) + Pending(PtkStart(d))
  BY <1>3 DEF Pending, StateOK
<1> QED BY <1>3, <1>4, <1>5, AccountedIntro

\* WPA_AUTH and WPA_ASSOC events.
LEMMA AuthEventOK ==
    ASSUME StateOK, NEW s \in STA, AuthEvent(s)
    PROVE  Accounted(s)
<1> DEFINE f == [sm[s] EXCEPT !.PTK_valid = FALSE, !.rekey_timer = FALSE]
<1>1. sm[s] \in SmType /\ RecordOK(sm[s])
  BY DEF StateOK
<1>2. f \in SmType
  BY <1>1, Zenon DEF SmType
<1>3. /\ f.wpa_ptk_group_state = sm[s].wpa_ptk_group_state
      /\ f.GTimeoutCtr = sm[s].GTimeoutCtr /\ f.started = sm[s].started
      /\ f.GUpdateStationKeys = sm[s].GUpdateStationKeys
      /\ f.Disconnect = sm[s].Disconnect
      /\ f.is_wnmsleep = sm[s].is_wnmsleep
  BY <1>1, Zenon DEF SmType
<1>4. RecordOK(f)
  BY <1>1, <1>2, <1>3, Zenon DEF RecordOK
<1>5. Pending(f) = Pending(sm[s]) /\ SettleDec(f) = SettleDec(sm[s])
  BY <1>3 DEF Pending, SettleDec
<1> HIDE DEF f
<1>6. /\ RecordOK(Settle(f)) /\ Settle(f).is_wnmsleep = f.is_wnmsleep
      /\ Pending(Settle(f)) = Pending(f) - SettleDec(f)
  BY <1>4, SettleOK
<1>7. GKeyDoneStations - SettleDec(sm[s])
        = GKeyDoneStations - Pending(sm[s]) + Pending(Settle(f))
  BY <1>5, <1>6 DEF Pending, SettleDec, StateOK
<1>8. StepDone(s, Settle(f), GKeyDoneStations - SettleDec(sm[s]))
  BY DEF AuthEvent, f
<1> QED BY <1>3, <1>6, <1>7, <1>8, AccountedIntro

\* Deauthentication and disassociation.
LEMMA DeauthenticateOK ==
    ASSUME StateOK, NEW s \in STA, Deauthenticate(s)
    PROVE  Accounted(s)
<1>1. /\ RecordOK(Initialize(sm[s])) /\ ~Initialize(sm[s]).GUpdateStationKeys
      /\ Initialize(sm[s]).is_wnmsleep = sm[s].is_wnmsleep
  BY InitializeOK DEF StateOK
<1>2. GKeyDoneStations - Pending(sm[s])
        = GKeyDoneStations - Pending(sm[s]) + Pending(Initialize(sm[s]))
  BY <1>1 DEF Pending, StateOK
<1> QED BY <1>1, <1>2, AccountedIntro DEF Deauthenticate

\* A new 4-way handshake from a record that differs from the station's in
\* its timers only.
LEMMA NewHandshakeOK ==
    ASSUME StateOK, NEW s \in STA, NEW f, RecordOK(f), f.timers < MaxTimers,
           f.GUpdateStationKeys = sm[s].GUpdateStationKeys,
           f.is_wnmsleep = sm[s].is_wnmsleep,
           StepDone(s, PtkStart(f), GKeyDoneStations)
    PROVE  Accounted(s)
<1>1. /\ RecordOK(PtkStart(f))
      /\ PtkStart(f).GUpdateStationKeys = sm[s].GUpdateStationKeys
      /\ PtkStart(f).is_wnmsleep = sm[s].is_wnmsleep
  BY PtkStartOK
<1>2. GKeyDoneStations = GKeyDoneStations - Pending(sm[s]) + Pending(PtkStart(f))
  BY <1>1 DEF Pending, StateOK
<1> QED BY <1>1, <1>2, AccountedIntro

\* PTK rekeying asked for by the station.
LEMMA RequestNewPtkOK ==
    ASSUME StateOK, NEW s \in STA, RequestNewPtk(s)
    PROVE  Accounted(s)
<1> DEFINE f == [sm[s] EXCEPT !.timers = 0]
<1>1. RecordOK(sm[s])
  BY DEF StateOK
<1>2. /\ RecordOK(f) /\ f.GUpdateStationKeys = sm[s].GUpdateStationKeys
      /\ f.is_wnmsleep = sm[s].is_wnmsleep /\ f.timers < MaxTimers
  BY <1>1, CancelTimeoutsOK, BoundsAssumption
<1>3. StepDone(s, PtkStart(f), GKeyDoneStations)
  BY DEF RequestNewPtk
<1> HIDE DEF f
<1> QED BY <1>2, <1>3, NewHandshakeOK

\* PTK rekeying on the timer.
LEMMA RekeyPtkOK ==
    ASSUME StateOK, NEW s \in STA, RekeyPtk(s)
    PROVE  Accounted(s)
<1> DEFINE f == [sm[s] EXCEPT !.rekey_timer = FALSE]
<1>1. RecordOK(sm[s]) /\ sm[s].timers < MaxTimers
  BY DEF StateOK, RekeyPtk
<1>2. /\ RecordOK(f) /\ f.GUpdateStationKeys = sm[s].GUpdateStationKeys
      /\ f.is_wnmsleep = sm[s].is_wnmsleep /\ f.timers < MaxTimers
  BY <1>1, CancelRekeyOK
<1>3. StepDone(s, PtkStart(f), GKeyDoneStations)
  BY DEF RekeyPtk
<1> HIDE DEF f
<1> QED BY <1>2, <1>3, NewHandshakeOK

\* 2/4 with a good MIC.
LEMMA ReceiveMsg2of4OK ==
    ASSUME StateOK, NEW s \in STA, ReceiveMsg2of4(s)
    PROVE  Accounted(s)
<1> DEFINE f == [sm[s] EXCEPT !.PTK_valid = TRUE, !.timers = 0,
                              !.TimeoutCtr = 0, !.msg1of2 = {}]
<1>1. sm[s] \in SmType /\ RecordOK(sm[s]) /\ {} \in SUBSET (1 .. MaxGTK)
  BY DEF StateOK
<1>2. /\ 0 \in 0 .. MaxTimers /\ 0 < MaxTimers
      /\ 0 \in 0 .. PairwiseUpdateCount /\ 0 < PairwiseUpdateCount
  BY BoundsAssumption, PairwiseCountAssumption
<1>3. f \in SmType
  BY <1>1, <1>2, Zenon DEF SmType
<1>4. /\ f.wpa_ptk_group_state = sm[s].wpa_ptk_group_state
      /\ f.GTimeoutCtr = sm[s].GTimeoutCtr /\ f.started = sm[s].started
      /\ f.GUpdateStationKeys = sm[s].GUpdateStationKeys
      /\ f.timers = 0 /\ f.TimeoutCtr = 0
      /\ f.is_wnmsleep = sm[s].is_wnmsleep
  BY <1>1, Zenon DEF SmType
<1>5. RecordOK(f)
  BY <1>1, <1>3, <1>4, Zenon DEF RecordOK
<1>6. StepDone(s, PtkInitNegotiating(f), GKeyDoneStations)
  BY DEF ReceiveMsg2of4
<1> HIDE DEF f
<1>7. /\ RecordOK(PtkInitNegotiating(f))
      /\ PtkInitNegotiating(f).GUpdateStationKeys = sm[s].GUpdateStationKeys
      /\ PtkInitNegotiating(f).is_wnmsleep = sm[s].is_wnmsleep
  BY <1>2, <1>4, <1>5, PtkInitNegotiatingOK DEF StateOK
<1>8. GKeyDoneStations
        = GKeyDoneStations - Pending(sm[s]) + Pending(PtkInitNegotiating(f))
  BY <1>7 DEF Pending, StateOK
<1> QED BY <1>6, <1>7, <1>8, AccountedIntro

\* 4/4.
LEMMA ReceiveMsg4of4OK ==
    ASSUME StateOK, NEW s \in STA, ReceiveMsg4of4(s)
    PROVE  Accounted(s)
<1>1. sm[s] \in SmType /\ RecordOK(sm[s])
  BY DEF StateOK
<1> DEFINE e(g) == [sm[s] EXCEPT !.wpa_ptk_state = "PTKINITDONE", !.timers = 0,
                                 !.rekey_timer = TRUE, !.msg3 = {},
                                 !.has_GTK = g]
<1>2. PICK g \in sm[s].msg3 :
        \/ StepDone(s, e(g), GKeyDoneStations)
        \/ StepDone(s, Initialize(e(g)), GKeyDoneStations - Pending(e(g)))
  BY DEF ReceiveMsg4of4
<1> DEFINE f == e(g)
<1>3. 0 \in 0 .. MaxTimers /\ {} \in SUBSET (1 .. MaxGTK) /\ g \in 0 .. MaxGTK
  BY <1>1, BoundsAssumption DEF SmType
<1>4. f \in SmType
  BY <1>1, <1>3, Zenon DEF SmType, PtkStates
<1>5. /\ f.wpa_ptk_group_state = sm[s].wpa_ptk_group_state
      /\ f.GTimeoutCtr = sm[s].GTimeoutCtr /\ f.started = sm[s].started
      /\ f.GUpdateStationKeys = sm[s].GUpdateStationKeys
      /\ f.is_wnmsleep = sm[s].is_wnmsleep
  BY <1>1, Zenon DEF SmType
<1>6. RecordOK(f)
  BY <1>1, <1>4, <1>5, Zenon DEF RecordOK
<1> HIDE DEF e, f
<1>7. CASE StepDone(s, e(g), GKeyDoneStations)
  <2>1. GKeyDoneStations = GKeyDoneStations - Pending(sm[s]) + Pending(f)
    BY <1>5 DEF Pending, StateOK
  <2> QED BY <1>5, <1>6, <1>7, <2>1, AccountedIntro DEF f
<1>8. CASE StepDone(s, Initialize(e(g)), GKeyDoneStations - Pending(e(g)))
  <2>1. /\ RecordOK(Initialize(f)) /\ ~Initialize(f).GUpdateStationKeys
        /\ Initialize(f).is_wnmsleep = sm[s].is_wnmsleep
    BY <1>5, <1>6, InitializeOK
  <2>2. GKeyDoneStations - Pending(f)
          = GKeyDoneStations - Pending(sm[s]) + Pending(Initialize(f))
    BY <1>5, <2>1 DEF Pending, StateOK
  <2> QED BY <1>8, <2>1, <2>2, AccountedIntro DEF f
<1> QED BY <1>2, <1>7, <1>8

\* 2/2.
LEMMA ReceiveMsg2of2OK ==
    ASSUME StateOK, NEW s \in STA, ReceiveMsg2of2(s)
    PROVE  Accounted(s)
<1>1. sm[s] \in SmType /\ RecordOK(sm[s])
  BY DEF StateOK
<1> DEFINE i == GroupIdle(sm[s])
           e(g) == [i EXCEPT !.timers = 0, !.msg1of2 = {}, !.has_GTK = g]
<1>2. PICK g \in sm[s].msg1of2 :
        StepDone(s, Settle(e(g)), GKeyDoneStations - Pending(sm[s]))
  BY DEF ReceiveMsg2of2
<1> DEFINE f == e(g)
<1>3. 0 \in 0 .. MaxTimers /\ {} \in SUBSET (1 .. MaxGTK) /\ g \in 0 .. MaxGTK
  BY <1>1, BoundsAssumption DEF SmType
<1>4. /\ RecordOK(i) /\ i \in SmType /\ ~i.GUpdateStationKeys
      /\ i.is_wnmsleep = sm[s].is_wnmsleep
  BY <1>1, GroupIdleOK DEF RecordOK
<1> HIDE DEF i
<1>5. f \in SmType
  BY <1>3, <1>4, Zenon DEF SmType
<1>6. /\ f.wpa_ptk_group_state = i.wpa_ptk_group_state
      /\ f.GTimeoutCtr = i.GTimeoutCtr /\ f.started = i.started
      /\ f.GUpdateStationKeys = i.GUpdateStationKeys
      /\ f.is_wnmsleep = i.is_wnmsleep
  BY <1>4, Zenon DEF SmType
<1>7. RecordOK(f)
  BY <1>4, <1>5, <1>6, Zenon DEF RecordOK
<1> HIDE DEF e, f
<1>8. /\ RecordOK(Settle(f)) /\ Settle(f).is_wnmsleep = sm[s].is_wnmsleep
      /\ Pending(Settle(f)) = Pending(f) - SettleDec(f)
  BY <1>4, <1>6, <1>7, SettleOK
<1>9. Pending(f) = 0 /\ SettleDec(f) = 0
  BY <1>4, <1>6 DEF Pending, SettleDec
<1>10. GKeyDoneStations - Pending(sm[s])
         = GKeyDoneStations - Pending(sm[s]) + Pending(Settle(f))
  BY <1>8, <1>9 DEF Pending, StateOK
<1> QED BY <1>2, <1>8, <1>10, AccountedIntro DEF f

\* The retransmission timeout.
LEMMA EapolTimeoutOK ==
    ASSUME StateOK, NEW s \in STA, EapolTimeout(s)
    PROVE  Accounted(s)
<1> DEFINE f == [sm[s] EXCEPT !.timers = @ - 1]
           r == Settle(f)
           n == GKeyDoneStations - SettleDec(sm[s])
           p == [r EXCEPT !.TimeoutCtr = @ + 1, !.timers = @ + 1]
<1>1. sm[s] \in SmType /\ RecordOK(sm[s])
  BY DEF StateOK
<1>2. sm[s].timers - 1 \in 0 .. MaxTimers /\ sm[s].timers - 1 < MaxTimers
  BY <1>1, BoundsAssumption DEF SmType, EapolTimeout
<1>3. f \in SmType
  BY <1>1, <1>2, Zenon DEF SmType
<1>4. /\ f.wpa_ptk_group_state = sm[s].wpa_ptk_group_state
      /\ f.GTimeoutCtr = sm[s].GTimeoutCtr /\ f.started = sm[s].started
      /\ f.GUpdateStationKeys = sm[s].GUpdateStationKeys
      /\ f.Disconnect = sm[s].Disconnect /\ f.timers = sm[s].timers - 1
      /\ f.is_wnmsleep = sm[s].is_wnmsleep
  BY <1>1, Zenon DEF SmType
<1>5. RecordOK(f)
  BY <1>1, <1>3, <1>4, Zenon DEF RecordOK
<1>6. Pending(f) = Pending(sm[s]) /\ SettleDec(f) = SettleDec(sm[s])
  BY <1>4 DEF Pending, SettleDec
<1>7. \/ /\ r.TimeoutCtr < PairwiseUpdateCount
         /\ StepDone(s, p, n)
      \/ /\ r.TimeoutCtr < PairwiseUpdateCount
         /\ StepDone(s, PtkInitNegotiating(r), n)
      \/ StepDone(s, Initialize(r), n - Pending(r))
      \/ /\ r.wpa_ptk_group_state = "REKEYNEGOTIATING"
         /\ r.GTimeoutCtr < GroupUpdateCount
         /\ StepDone(s, RekeyNegotiating(r, GTK), n)
      \/ StepDone(s, Initialize(GroupIdle(r)), n - Pending(r))
      \/ StepDone(s, r, n)
  BY DEF EapolTimeout
<1> HIDE DEF f
<1>8. /\ RecordOK(r) /\ r.timers < MaxTimers
      /\ r.is_wnmsleep = sm[s].is_wnmsleep
      /\ n = GKeyDoneStations - Pending(sm[s]) + Pending(r)
      /\ Pending(r) \in Int /\ Pending(sm[s]) \in Int
  <2>1. /\ RecordOK(r) /\ r.is_wnmsleep = f.is_wnmsleep
        /\ r.timers = f.timers
        /\ Pending(r) = Pending(f) - SettleDec(f)
    BY <1>5, SettleOK
  <2>2. SettleDec(f) \in Int /\ Pending(f) \in Int /\ Pending(sm[s]) \in Int
    BY DEF SettleDec, Pending
  <2> QED BY <1>2, <1>4, <1>6, <2>1, <2>2 DEF StateOK
<1> HIDE DEF r, n
<1>9. r \in SmType
  BY <1>8 DEF RecordOK
<1>10. CASE r.TimeoutCtr < PairwiseUpdateCount /\ StepDone(s, p, n)
  <2>1. /\ r.TimeoutCtr + 1 \in 0 .. PairwiseUpdateCount
        /\ r.timers + 1 \in 0 .. MaxTimers
    BY <1>8, <1>9, <1>10, PairwiseCountAssumption, BoundsAssumption DEF SmType
  <2>2. p \in SmType
    BY <1>9, <2>1, Zenon DEF SmType
  <2>3. /\ p.wpa_ptk_group_state = r.wpa_ptk_group_state
        /\ p.GTimeoutCtr = r.GTimeoutCtr /\ p.started = r.started
        /\ p.GUpdateStationKeys = r.GUpdateStationKeys
        /\ p.is_wnmsleep = r.is_wnmsleep
    BY <1>9, Zenon DEF SmType
  <2>4. RecordOK(p)
    BY <1>8, <2>2, <2>3, Zenon DEF RecordOK
  <2>5. Pending(p) = Pending(r)
    BY <2>3 DEF Pending
  <2> HIDE DEF p
  <2> QED BY <1>8, <1>10, <2>3, <2>4, <2>5, AccountedIntro
<1>11. CASE /\ r.TimeoutCtr < PairwiseUpdateCount
            /\ StepDone(s, PtkInitNegotiating(r), n)
  <2>1. /\ RecordOK(PtkInitNegotiating(r))
        /\ PtkInitNegotiating(r).GUpdateStationKeys = r.GUpdateStationKeys
        /\ PtkInitNegotiating(r).is_wnmsleep = r.is_wnmsleep
    BY <1>8, <1>11, PtkInitNegotiatingOK DEF StateOK
  <2>2. Pending(PtkInitNegotiating(r)) = Pending(r)
    BY <2>1 DEF Pending
  <2> QED BY <1>8, <1>11, <2>1, <2>2, AccountedIntro
<1>12. CASE StepDone(s, Initialize(r), n - Pending(r))
  <2>1. /\ RecordOK(Initialize(r)) /\ ~Initialize(r).GUpdateStationKeys
        /\ Initialize(r).is_wnmsleep = r.is_wnmsleep
    BY <1>8, InitializeOK
  <2>2. n - Pending(r) = GKeyDoneStations - Pending(sm[s]) + Pending(Initialize(r))
    BY <1>8, <2>1 DEF Pending, StateOK
  <2> QED BY <1>8, <1>12, <2>1, <2>2, AccountedIntro
<1>13. CASE /\ r.GTimeoutCtr < GroupUpdateCount
            /\ StepDone(s, RekeyNegotiating(r, GTK), n)
  <2>1. r.GUpdateStationKeys => r.started
    BY <1>8 DEF RecordOK
  <2>2. /\ RecordOK(RekeyNegotiating(r, GTK))
        /\ RekeyNegotiating(r, GTK).GUpdateStationKeys = r.GUpdateStationKeys
        /\ RekeyNegotiating(r, GTK).is_wnmsleep = r.is_wnmsleep
    BY <1>8, <1>9, <1>13, <2>1, RekeyNegotiatingOK DEF StateOK
  <2>3. Pending(RekeyNegotiating(r, GTK)) = Pending(r)
    BY <2>2 DEF Pending
  <2> QED BY <1>8, <1>13, <2>2, <2>3, AccountedIntro
<1>14. CASE StepDone(s, Initialize(GroupIdle(r)), n - Pending(r))
  <2> DEFINE q == Initialize(GroupIdle(r))
  <2>1. /\ RecordOK(q) /\ ~q.GUpdateStationKeys
        /\ q.is_wnmsleep = r.is_wnmsleep
    BY <1>8, GroupIdleOK, InitializeOK
  <2>2. n - Pending(r) = GKeyDoneStations - Pending(sm[s]) + Pending(q)
    BY <1>8, <2>1 DEF Pending, StateOK
  <2> HIDE DEF q
  <2> QED BY <1>8, <1>14, <2>1, <2>2, AccountedIntro DEF q
<1>15. CASE StepDone(s, r, n)
  BY <1>8, <1>15, AccountedIntro
<1> QED BY <1>7, <1>10, <1>11, <1>12, <1>13, <1>14, <1>15

\* The callbacks that end in a step loop of the station itself.
StationStep(s) ==
    \/ StaAssociated(s) \/ StaAssociatedAgain(s) \/ ReAuth(s)
    \/ AuthEvent(s) \/ Deauthenticate(s) \/ RequestNewPtk(s) \/ RekeyPtk(s)
    \/ ReceiveMsg2of4(s) \/ ReceiveMsg4of4(s) \/ ReceiveMsg2of2(s)
    \/ EapolTimeout(s)

\* All of them account for their mark.
LEMMA StationStepAccounted ==
    ASSUME StateOK, NEW s \in STA, StationStep(s)
    PROVE  Accounted(s)
BY StaAssociatedOK, StaAssociatedAgainOK, ReAuthOK, AuthEventOK,
   DeauthenticateOK, RequestNewPtkOK, RekeyPtkOK, ReceiveMsg2of4OK, ReceiveMsg4of4OK,
   ReceiveMsg2of2OK, EapolTimeoutOK DEF StationStep

(***************************************************************************)
(* The other actions, and the whole next-state relation.                   *)
(***************************************************************************)

\* The records a rekey starts from: those of the state, up to the timers of a
\* station that asked for it.
RekeyFrom(m) ==
    /\ m \in [STA -> SmType]
    /\ \A s \in STA : /\ RecordOK(m[s]) /\ m[s].is_wnmsleep = sm[s].is_wnmsleep
                       /\ m[s].GUpdateStationKeys = sm[s].GUpdateStationKeys

\* Marking keeps each record's invariant; if nobody sleeps the marked stations
\* are the counted ones.
LEMMA MarkedOK ==
    ASSUME StateOK, NEW m, RekeyFrom(m), NEW T, Rekey(m, T), NEW s \in STA
    PROVE  /\ RecordOK(Marked(m, GTK + 1)[s])
           /\ Marked(m, GTK + 1)[s].is_wnmsleep = sm[s].is_wnmsleep
           /\ ~sm[s].is_wnmsleep =>
                (Marked(m, GTK + 1)[s].GUpdateStationKeys <=> Counted(m[s]))
<1>1. RecordOK(m[s]) /\ m[s].is_wnmsleep = sm[s].is_wnmsleep
  BY DEF RekeyFrom
<1>2. CASE ~m[s].started
  BY <1>1, <1>2 DEF Marked, RecordOK, Counted
<1>3. CASE m[s].started
  <2>1. GTK + 1 \in 1 .. MaxGTK
    BY BoundsAssumption DEF Rekey, StateOK
  <2>2. Counted(m[s]) => m[s].timers < MaxTimers
    BY DEF Rekey
  <2>3. Marked(m, GTK + 1)[s] = UpdateSta(m[s], GTK + 1)
    BY <1>3 DEF Marked
  <2> QED BY <1>1, <1>3, <2>1, <2>2, <2>3, UpdateStaOK
<1> QED BY <1>2, <1>3

\* Where the driver refuses a key, nobody gets marked.
LEMMA KeyRefusedOK ==
    ASSUME NEW q, \A s \in STA : RecordOK(q[s]), NEW T \in SUBSET STA, KeyRefused(q, T)
    PROVE  /\ sm' \in [STA -> SmType]
           /\ \A s \in STA :
                /\ RecordOK(sm'[s])
                /\ sm'[s].is_wnmsleep = q[s].is_wnmsleep
                /\ sm'[s].GUpdateStationKeys => q[s].GUpdateStationKeys
           /\ GKeyDoneStations' \in Int
           /\ (\A s \in STA : ~q[s].GUpdateStationKeys) => GKeyDoneStations' = 0
<1>1. sm' = [s \in STA |-> IF s \in T THEN Initialize(q[s])
                           ELSE [q[s] EXCEPT !.Disconnect = q[s].started]]
  BY DEF KeyRefused
<1>2. ASSUME NEW s \in STA
      PROVE  /\ RecordOK(sm'[s]) /\ sm'[s].is_wnmsleep = q[s].is_wnmsleep
             /\ sm'[s].GUpdateStationKeys => q[s].GUpdateStationKeys
  <2>1. CASE s \in T
    <3>1. sm'[s] = Initialize(q[s])
      BY <1>1, <2>1
    <3> QED BY <3>1, InitializeOK
  <2>2. CASE s \notin T
    <3>1. sm'[s] = [q[s] EXCEPT !.Disconnect = q[s].started]
      BY <1>1, <2>2
    <3> QED BY <3>1, MarkDisconnectOK
  <2> QED BY <2>1, <2>2
<1>3. sm' \in [STA -> SmType]
  <2>1. DOMAIN sm' = STA /\ sm' = [s \in STA |-> sm'[s]]
    BY <1>1
  <2> QED BY <1>2, <2>1 DEF RecordOK
<1> DEFINE P == {s \in T : q[s].GUpdateStationKeys}
<1>4. GKeyDoneStations' = 0 - Cardinality(P)
  BY DEF KeyRefused
<1>5. Cardinality(P) \in Nat
  BY STAAssumption, FS_Subset, FS_CardinalityType
<1>6. (\A s \in STA : ~q[s].GUpdateStationKeys) => P = {}
  OBVIOUS
<1>7. P = {} => Cardinality(P) = 0
  BY FS_EmptySet, Zenon
<1> HIDE DEF P
<1>8. /\ GKeyDoneStations' \in Int
      /\ (\A s \in STA : ~q[s].GUpdateStationKeys) => GKeyDoneStations' = 0
  <2>1. 0 - Cardinality(P) \in Int /\ (Cardinality(P) = 0 => 0 - Cardinality(P) = 0)
    BY <1>5
  <2> QED BY <1>4, <1>6, <1>7, <2>1, Zenon
<1> QED BY <1>2, <1>3, <1>8, Zenon

\* A rekey that gets as far as marking keeps each record's invariant.
LEMMA MarkedRecords ==
    ASSUME StateOK, NEW m, RekeyFrom(m), NEW T, Rekey(m, T)
    PROVE  /\ Marked(m, GTK + 1) \in [STA -> SmType]
           /\ \A s \in STA : RecordOK(Marked(m, GTK + 1)[s])
<1>1. \A s \in STA : RecordOK(Marked(m, GTK + 1)[s])
  BY MarkedOK
<1>2. Marked(m, GTK + 1) = [s \in STA |-> Marked(m, GTK + 1)[s]]
  BY DEF Marked
<1> QED BY <1>1, <1>2 DEF RecordOK

\* A rekey keeps the types.
LEMMA RekeyState ==
    ASSUME StateOK, NEW m, RekeyFrom(m), NEW T \in SUBSET STA, Rekey(m, T)
    PROVE  StateOK'
<1> DEFINE k == Marked(m, GTK + 1)
           C == {s \in STA : Counted(m[s])}
<1>1. Cardinality(C) \in Int
  BY STAAssumption, FS_Subset, FS_CardinalityType
<1>2. k \in [STA -> SmType] /\ \A s \in STA : RecordOK(k[s]) /\ RecordOK(m[s])
  BY MarkedRecords DEF RekeyFrom
<1>3. /\ \/ KeyRefused(m, T) \/ KeyRefused(k, T)
         \/ sm' = k /\ GKeyDoneStations' \in {0, Cardinality(C)}
      /\ wpa_group_state' \in GroupStates
      /\ GTK' \in 1 .. MaxGTK /\ txGTK' \in 0 .. MaxGTK
  BY BoundsAssumption DEF Rekey, KeyRefused, StateOK, GroupStates
<1> HIDE DEF k, C
<1>4. /\ sm' \in [STA -> SmType] /\ \A s \in STA : RecordOK(sm'[s])
      /\ GKeyDoneStations' \in Int
  BY <1>1, <1>2, <1>3, KeyRefusedOK
<1> QED BY <1>3, <1>4 DEF StateOK

\* It makes the count right if nobody sleeps.
LEMMA RekeyCount ==
    ASSUME CountInv, NEW m, RekeyFrom(m), NEW T \in SUBSET STA, Rekey(m, T)
    PROVE  CountInv'
<1> DEFINE k == Marked(m, GTK + 1)
           C == {s \in STA : Counted(m[s])}
           late == wpa_group_state = "SETKEYS" /\ GKeyDoneStations = 0
<1>0. StateOK /\ StateOK' /\ \A s \in STA : ~sm[s].is_wnmsleep
  BY RekeyState DEF CountInv, NoStationSleeps
<1>1. \A s \in STA : /\ k[s].GUpdateStationKeys <=> Counted(m[s])
                     /\ RecordOK(k[s]) /\ ~k[s].is_wnmsleep
  BY <1>0, MarkedOK
<1>2. \A s \in STA : RecordOK(m[s]) /\ ~m[s].is_wnmsleep
  BY <1>0 DEF RekeyFrom
<1>3. \/ late /\ KeyRefused(m, T)
      \/ C = {} /\ KeyRefused(k, T)
      \/ sm' = k /\ GKeyDoneStations' = Cardinality(C)
      \/ sm' = k /\ C = {} /\ GKeyDoneStations' = 0
  BY DEF Rekey
<1> HIDE DEF k
<1>4. CASE /\ sm' = k
           /\ \/ C = {} /\ GKeyDoneStations' = 0
              \/ GKeyDoneStations' = Cardinality(C)
  <2>1. MarkedStations' = C /\ NoStationSleeps'
    BY <1>1, <1>4 DEF MarkedStations, NoStationSleeps
  <2>2. GKeyDoneStations' = Cardinality(C)
    BY <1>4, FS_EmptySet
  <2> QED BY <1>0, <2>1, <2>2 DEF CountInv, CountMatchesMarks
<1>5. ASSUME NEW q, KeyRefused(q, T),
             \A s \in STA : RecordOK(q[s]) /\ ~q[s].is_wnmsleep /\ ~q[s].GUpdateStationKeys
      PROVE  CountInv'
  <2>1. /\ \A s \in STA : ~sm'[s].is_wnmsleep /\ ~sm'[s].GUpdateStationKeys
        /\ GKeyDoneStations' = 0
    BY <1>5, KeyRefusedOK
  <2>2. MarkedStations' = {} /\ NoStationSleeps'
    BY <2>1 DEF MarkedStations, NoStationSleeps
  <2> QED BY <1>0, <2>1, <2>2, FS_EmptySet DEF CountInv, CountMatchesMarks
<1>6. CASE C = {} /\ KeyRefused(k, T)
  BY <1>1, <1>5, <1>6
<1>7. CASE late /\ KeyRefused(m, T)
  <2>1. MarkedStations \in SUBSET STA /\ Cardinality(MarkedStations) = 0
    BY <1>7 DEF CountInv, CountMatchesMarks, MarkedStations
  <2>2. IsFiniteSet(MarkedStations)
    BY <2>1, STAAssumption, FS_Subset
  <2>3. MarkedStations = {}
    BY <2>1, <2>2, FS_EmptySet
  <2>4. \A s \in STA : ~m[s].GUpdateStationKeys
    BY <2>3 DEF RekeyFrom, MarkedStations
  <2> QED BY <1>2, <1>5, <1>7, <2>4
<1> QED BY <1>3, <1>4, <1>6, <1>7

\* Both ways to start a rekey start it from such records.
LEMMA RekeyStarts ==
    ASSUME StateOK
    PROVE  /\ RekeyGtk => RekeyFrom(sm) /\ Rekey(sm, {})
           /\ \A s \in STA : RequestNewGtk(s) =>
                 \E m : RekeyFrom(m) /\ Rekey(m, {s})
<1>1. RekeyGtk => RekeyFrom(sm) /\ Rekey(sm, {})
  BY DEF RekeyGtk, RekeyFrom, StateOK
<1>2. ASSUME NEW s \in STA, RequestNewGtk(s)
      PROVE  \E m : RekeyFrom(m) /\ Rekey(m, {s})
  <2> DEFINE q == [sm[s] EXCEPT !.timers = 0]
             m == [sm EXCEPT ![s] = q]
  <2>1. RecordOK(sm[s]) /\ sm \in [STA -> SmType]
    BY DEF StateOK
  <2>2. /\ RecordOK(q) /\ q.is_wnmsleep = sm[s].is_wnmsleep /\ q \in SmType
        /\ q.GUpdateStationKeys = sm[s].GUpdateStationKeys
    BY <2>1, CancelTimeoutsOK DEF RecordOK
  <2>3. Rekey(m, {s})
    BY <1>2 DEF RequestNewGtk
  <2> HIDE DEF q
  <2>4. RekeyFrom(m)
    BY <2>1, <2>2 DEF RekeyFrom, StateOK
  <2> QED BY <2>3, <2>4
<1> QED BY <1>1, <1>2

\* Every step keeps the types and the per-station invariant.
LEMMA NextStateOK == StateOK /\ [Next]_vars => StateOK'
<1> SUFFICES ASSUME StateOK, [Next]_vars
             PROVE  StateOK'
  OBVIOUS
<1>1. ASSUME NEW s \in STA, StationStep(s)
      PROVE  StateOK'
  BY <1>1, StationStepAccounted, StepDoneState DEF Accounted
<1>2. ASSUME NEW s \in STA, StaDeinit(s)
      PROVE  StateOK'
  <2>1. RecordOK(NewSm) /\ NewSm \in SmType
    BY NewSmOK DEF RecordOK
  <2> QED BY <1>2, <2>1 DEF StateOK, StaDeinit, Pending
<1>3. ASSUME NEW s \in STA, WnmSleepEnter(s)
      PROVE  StateOK'
  <2> DEFINE q == [sm[s] EXCEPT !.is_wnmsleep = TRUE]
  <2>1. sm[s] \in SmType /\ RecordOK(sm[s])
    BY DEF StateOK
  <2>2. q \in SmType
    BY <2>1, Zenon DEF SmType
  <2>3. /\ q.wpa_ptk_group_state = sm[s].wpa_ptk_group_state
        /\ q.GTimeoutCtr = sm[s].GTimeoutCtr /\ q.started = sm[s].started
        /\ q.GUpdateStationKeys = sm[s].GUpdateStationKeys
    BY <2>1, Zenon DEF SmType
  <2>4. RecordOK(q)
    BY <2>1, <2>2, <2>3, Zenon DEF RecordOK
  <2>5. sm' = [sm EXCEPT ![s] = q]
    BY <1>3 DEF WnmSleepEnter
  <2> HIDE DEF q
  <2> QED BY <1>3, <2>2, <2>4, <2>5 DEF StateOK, WnmSleepEnter
<1>4. ASSUME NEW s \in STA, WnmSleepExit(s)
      PROVE  StateOK'
  <2> DEFINE r == [sm[s] EXCEPT !.is_wnmsleep = FALSE]
  <2>1. sm[s] \in SmType /\ RecordOK(sm[s])
    BY DEF StateOK
  <2>2. r \in SmType
    BY <2>1, Zenon DEF SmType
  <2>3. /\ r.wpa_ptk_group_state = sm[s].wpa_ptk_group_state
        /\ r.GTimeoutCtr = sm[s].GTimeoutCtr /\ r.started = sm[s].started
        /\ r.GUpdateStationKeys = sm[s].GUpdateStationKeys
    BY <2>1, Zenon DEF SmType
  <2>4. RecordOK(r)
    BY <2>1, <2>2, <2>3, Zenon DEF RecordOK
  <2>5. /\ r.started
        /\ \/ /\ r.timers < MaxTimers
              /\ StepDone(s, Settle(UpdateSta(r, GTK)),
                          GKeyDoneStations + 1 - IF r.Disconnect THEN 1 ELSE 0)
           \/ /\ ~Counted(r)
              /\ sm' = [sm EXCEPT ![s] = UpdateSta(r, GTK)]
              /\ UNCHANGED <<wpa_group_state, GKeyDoneStations, GTK, txGTK>>
           \/ /\ sm' = [sm EXCEPT ![s] = r]
              /\ UNCHANGED <<wpa_group_state, GKeyDoneStations, GTK, txGTK>>
    BY <1>4 DEF WnmSleepExit
  <2> HIDE DEF r
  <2>6. CASE /\ r.timers < MaxTimers
             /\ StepDone(s, Settle(UpdateSta(r, GTK)),
                         GKeyDoneStations + 1 - IF r.Disconnect THEN 1 ELSE 0)
    <3>1. RecordOK(UpdateSta(r, GTK))
      BY <2>4, <2>5, <2>6, UpdateStaOK DEF StateOK
    <3>2. RecordOK(Settle(UpdateSta(r, GTK)))
      BY <3>1, SettleOK
    <3>3. GKeyDoneStations + 1 - (IF r.Disconnect THEN 1 ELSE 0) \in Int
      BY DEF StateOK
    <3> QED BY <2>6, <3>2, <3>3, StepDoneState
  <2>7. CASE /\ ~Counted(r)
             /\ sm' = [sm EXCEPT ![s] = UpdateSta(r, GTK)]
             /\ UNCHANGED <<wpa_group_state, GKeyDoneStations, GTK, txGTK>>
    <3>1. RecordOK(UpdateSta(r, GTK)) /\ UpdateSta(r, GTK) \in SmType
      BY <2>4, <2>5, <2>7, UpdateStaOK DEF StateOK, RecordOK
    <3> QED BY <2>7, <3>1 DEF StateOK
  <2>8. CASE /\ sm' = [sm EXCEPT ![s] = r]
             /\ UNCHANGED <<wpa_group_state, GKeyDoneStations, GTK, txGTK>>
    BY <2>2, <2>4, <2>8 DEF StateOK
  <2> QED BY <2>5, <2>6, <2>7, <2>8
<1>5. ASSUME RekeyGtk \/ \E s \in STA : RequestNewGtk(s)
      PROVE  StateOK'
  BY <1>5, RekeyStarts, RekeyState
<1>6. CASE TkipCountermeasures
  <2>1. Cardinality({s \in STA : sm[s].GUpdateStationKeys}) \in Int
    <3>1. IsFiniteSet({s \in STA : sm[s].GUpdateStationKeys})
      BY STAAssumption, FS_Subset
    <3> QED BY <3>1, FS_CardinalityType
  <2>2. RecordOK(NewSm) /\ NewSm \in SmType
    BY NewSmOK DEF RecordOK
  <2> QED BY <1>6, <2>1, <2>2, BoundsAssumption DEF StateOK, TkipCountermeasures
<1>7. CASE UNCHANGED vars
  BY <1>7 DEF StateOK, vars
<1> QED BY <1>1, <1>2, <1>3, <1>4, <1>5, <1>6, <1>7 DEF Next, Event, StationStep

\* The initial state.
LEMMA InitOK == Init => StateOK /\ NoStationSleeps /\ CountMatchesMarks
<1> SUFFICES ASSUME Init
             PROVE  StateOK /\ NoStationSleeps /\ CountMatchesMarks
  OBVIOUS
<1>1. /\ RecordOK(NewSm) /\ NewSm \in SmType
      /\ ~NewSm.GUpdateStationKeys /\ ~NewSm.is_wnmsleep
  BY NewSmOK DEF RecordOK
<1>2. StateOK
  BY <1>1, BoundsAssumption DEF Init, StateOK, GroupStates
<1>3. MarkedStations = {} /\ NoStationSleeps
  BY <1>1 DEF Init, MarkedStations, NoStationSleeps
<1> QED BY <1>2, <1>3, FS_EmptySet DEF Init, CountMatchesMarks

\* Without WNM-Sleep Mode every step keeps the count.
LEMMA NextCountInv ==
    ASSUME "wnmsleep" \notin features
    PROVE  CountInv /\ [Next]_vars => CountInv'
<1> SUFFICES ASSUME CountInv, [Next]_vars
             PROVE  CountInv'
  OBVIOUS
<1>0. StateOK /\ StateOK'
  BY NextStateOK DEF CountInv
<1>1. ASSUME NEW s \in STA, StationStep(s)
      PROVE  CountInv'
  <2>1. PICK r \in SmType : \E n \in Int :
          /\ RecordOK(r)
          /\ r.is_wnmsleep => sm[s].is_wnmsleep
          /\ n = GKeyDoneStations - Pending(sm[s]) + Pending(r)
          /\ StepDone(s, r, n)
    BY <1>0, <1>1, StationStepAccounted DEF Accounted
  <2>2. ~r.is_wnmsleep
    BY <2>1 DEF CountInv, NoStationSleeps
  <2> QED BY <2>1, <2>2, StepDoneCount
<1>2. ASSUME NEW s \in STA, StaDeinit(s)
      PROVE  CountInv'
  <2> DEFINE P == MarkedStations
             Q == MarkedStations'
  <2>1. ~NewSm.GUpdateStationKeys /\ ~NewSm.is_wnmsleep
    BY NewSmOK
  <2>2. sm'[s] = NewSm /\ \A t \in STA \ {s} : sm'[t] = sm[t]
    BY <1>0, <1>2 DEF StaDeinit, StateOK
  <2>3. /\ P \in SUBSET STA /\ Q \in SUBSET STA /\ P \ {s} = Q \ {s}
        /\ s \notin Q /\ (s \in P <=> sm[s].GUpdateStationKeys)
    BY <2>1, <2>2 DEF MarkedStations
  <2>4. Cardinality(Q) = Cardinality(P) - Pending(sm[s]) /\ Cardinality(P) \in Nat
    BY <2>3, CardinalityUpdate DEF Pending
  <2>5. NoStationSleeps'
    BY <2>1, <2>2 DEF NoStationSleeps, CountInv
  <2> QED BY <1>0, <1>2, <2>4, <2>5
          DEF CountInv, CountMatchesMarks, StaDeinit
<1>3. ASSUME NEW s \in STA, WnmSleepEnter(s) \/ WnmSleepExit(s)
      PROVE  CountInv'
  BY <1>3 DEF WnmSleepEnter, WnmSleepExit
<1>5. ASSUME RekeyGtk \/ \E s \in STA : RequestNewGtk(s)
      PROVE  CountInv'
  BY <1>0, <1>5, RekeyStarts, RekeyCount
<1>6. CASE TkipCountermeasures
  <2>1. ~NewSm.GUpdateStationKeys /\ ~NewSm.is_wnmsleep
    BY NewSmOK
  <2>2. MarkedStations' = {} /\ NoStationSleeps'
    BY <1>6, <2>1 DEF TkipCountermeasures, MarkedStations, NoStationSleeps
  <2>3. GKeyDoneStations' = GKeyDoneStations - Cardinality(MarkedStations)
    BY <1>6 DEF TkipCountermeasures, MarkedStations
  <2>4. GKeyDoneStations = Cardinality(MarkedStations) /\ GKeyDoneStations \in Int
    BY DEF CountInv, CountMatchesMarks, StateOK
  <2> QED BY <1>0, <2>2, <2>3, <2>4, FS_EmptySet DEF CountInv, CountMatchesMarks
<1>7. CASE UNCHANGED vars
  BY <1>7, <1>0 DEF CountInv, StateOK, NoStationSleeps, CountMatchesMarks,
     MarkedStations, vars
<1> QED BY <1>1, <1>2, <1>3, <1>5, <1>6, <1>7 DEF Next, Event, StationStep

\* No step changes the events of a behaviour.
LEMMA FeaturesKept ==
    /\ Init => FeaturesOK
    /\ FeaturesOK /\ [Next]_vars => FeaturesOK'
    /\ [Next]_vars => features' = features
BY DEF Init, FeaturesOK, Next, vars

(***************************************************************************)
(* Theorems.                                                               *)
(***************************************************************************)

\* Type correctness, with the bounds: the try counters never exceed
\* wpa_pairwise_update_count and wpa_group_update_count.
THEOREM TypeCorrect == Spec => []TypeOK
<1>1. Init => StateOK /\ FeaturesOK
  BY InitOK, FeaturesKept
<1>2. StateOK /\ FeaturesOK /\ [Next]_vars => (StateOK /\ FeaturesOK)'
  BY NextStateOK, FeaturesKept
<1>3. StateOK /\ FeaturesOK => TypeOK
  BY DEF StateOK, FeaturesOK, TypeOK
<1> QED BY <1>1, <1>2, <1>3, PTL DEF Spec

\* A station marked GUpdateStationKeys is in its group handshake, whatever
\* events happen.
THEOREM MarkedInHandshake == Spec => []MarkedStationIsInHandshake
<1>1. Init => StateOK
  BY InitOK
<1>2. StateOK /\ [Next]_vars => StateOK'
  BY NextStateOK
<1>3. StateOK => MarkedStationIsInHandshake
  BY DEF StateOK, RecordOK, MarkedStationIsInHandshake, MarkedStations
<1> QED BY <1>1, <1>2, <1>3, PTL DEF Spec

\* In every behaviour without WNM-Sleep Mode GKeyDoneStations is the number of
\* stations marked GUpdateStationKeys, for any number of stations and any
\* order of joins, rekeys, answers, timeouts, removals and driver failures:
\* wpa_group_setkeysdone() runs when exactly the marked stations are done.
THEOREM CountCorrect == Spec => []CountMatchesMarksAwake
<1> DEFINE Awake == "wnmsleep" \notin features
           Inv == Awake => CountInv
<1>1. Init => Inv
  BY InitOK DEF CountInv
<1>2. Inv /\ [Next]_vars => Inv'
  <2> SUFFICES ASSUME Inv, [Next]_vars, Awake'
               PROVE  CountInv'
    OBVIOUS
  <2>1. Awake
    BY FeaturesKept
  <2> QED BY <2>1, NextCountInv
<1>3. Inv => CountMatchesMarksAwake
  BY DEF CountInv, CountMatchesMarksAwake
<1> QED BY <1>1, <1>2, <1>3, PTL DEF Spec

(***************************************************************************)
(* Timeouts and GTKs: the station that the AP waits for has a timeout, and *)
(* established stations have the GTK the AP transmits with.  Both follow   *)
(* from what each station's record satisfies between callbacks.            *)
(***************************************************************************)


\* A machine that does not exist waits for nothing.
Exists(r) ==
    r.started \/ (r.wpa_ptk_state = "INITIALIZE" /\ ~r.rekey_timer /\ r.timers = 0)

MachinesOK == StateOK /\ \A s \in STA : Exists(sm[s])

\* As long as no other handshake interferes: a marked station is established
\* and has a timeout; and a group handshake of a station that is connected
\* waits for a marked station, so marking it again needs no new timeout.
Retried(r) ==
    /\ r.GUpdateStationKeys => r.wpa_ptk_state = "PTKINITDONE" /\ r.timers > 0
    /\ r.wpa_ptk_group_state = "REKEYNEGOTIATING" /\ r.wpa_ptk_state # "INITIALIZE"
         => r.GUpdateStationKeys

\* Where the current GTK g can be: in the 3/4 of a 4-way handshake, in the 1/2
\* of a marked station, or with the station.  A group handshake that a new
\* 4-way handshake overtook is left in REKEYNEGOTIATING, but nothing answers
\* its 1/2 and it has no timeout.
GtkOK(r, g) ==
    /\ r.wpa_ptk_state = "PTKSTART" => r.msg3 = {}
    /\ r.wpa_ptk_state = "PTKINITNEGOTIATING" => r.msg3 \subseteq {g} /\ r.msg1of2 = {}
    /\ r.wpa_ptk_state = "PTKINITDONE" /\ r.GUpdateStationKeys => r.msg1of2 \subseteq {g}
    /\ r.wpa_ptk_state = "PTKINITDONE" /\ ~r.GUpdateStationKeys =>
         /\ r.has_GTK = g /\ r.msg1of2 = {}
         /\ r.wpa_ptk_group_state = "REKEYNEGOTIATING" => r.timers = 0

RetriedInv == MachinesOK /\ \A s \in STA : Retried(sm[s])

\* The current GTK is in the driver, unless the driver may have refused a key
\* of TKIP countermeasures.
Installed == "tkipfail" \notin features => txGTK = GTK

GtkInv ==
    /\ MachinesOK /\ CountInv
    /\ \A s \in STA : GtkOK(sm[s], GTK)
    /\ wpa_group_state = "SETKEYSDONE" => Installed /\ MarkedStations = {}

(***************************************************************************)
(* The fields the state entry functions set and the ones they keep.        *)
(***************************************************************************)

\* INITIALIZE.
LEMMA InitializeFields ==
    ASSUME NEW r \in SmType
    PROVE  LET q == Initialize(r) IN
           /\ q.wpa_ptk_state = "INITIALIZE" /\ q.GUpdateStationKeys = FALSE
           /\ q.wpa_ptk_group_state = r.wpa_ptk_group_state
           /\ q.started = r.started /\ q.timers = r.timers
BY Zenon DEF Initialize, SmType

\* PTKSTART.
LEMMA PtkStartFields ==
    ASSUME NEW r \in SmType
    PROVE  LET q == PtkStart(r) IN
           /\ q.wpa_ptk_state = "PTKSTART" /\ q.msg3 = {}
           /\ q.GUpdateStationKeys = r.GUpdateStationKeys
           /\ q.wpa_ptk_group_state = r.wpa_ptk_group_state
           /\ q.started = r.started
BY Zenon DEF PtkStart, SmType

\* PTKINITNEGOTIATING.
LEMMA PtkInitNegotiatingFields ==
    ASSUME NEW r \in SmType
    PROVE  LET q == PtkInitNegotiating(r) IN
           /\ q.wpa_ptk_state = "PTKINITNEGOTIATING"
           /\ q.msg3 = IF r.PTK_valid THEN r.msg3 \cup {GTK} ELSE r.msg3
           /\ q.GUpdateStationKeys = r.GUpdateStationKeys
           /\ q.wpa_ptk_group_state = r.wpa_ptk_group_state
           /\ q.started = r.started /\ q.msg1of2 = r.msg1of2
BY Zenon DEF PtkInitNegotiating, SmType

\* REKEYNEGOTIATING.
LEMMA RekeyNegotiatingFields ==
    ASSUME NEW r \in SmType, NEW g
    PROVE  LET q == RekeyNegotiating(r, g) IN
           /\ q.wpa_ptk_group_state = "REKEYNEGOTIATING"
           /\ q.timers = r.timers + 1
           /\ q.msg1of2 = IF r.PTK_valid THEN r.msg1of2 \cup {g} ELSE r.msg1of2
           /\ q.wpa_ptk_state = r.wpa_ptk_state /\ q.started = r.started
           /\ q.GUpdateStationKeys = r.GUpdateStationKeys
           /\ q.msg3 = r.msg3 /\ q.has_GTK = r.has_GTK
BY Zenon DEF RekeyNegotiating, SmType

\* IDLE of the group machine.
LEMMA GroupIdleFields ==
    ASSUME NEW r \in SmType
    PROVE  LET q == GroupIdle(r) IN
           /\ q.wpa_ptk_group_state = "IDLE" /\ q.GUpdateStationKeys = FALSE
           /\ q.wpa_ptk_state = r.wpa_ptk_state /\ q.started = r.started
           /\ q.timers = r.timers
           /\ q.msg3 = r.msg3 /\ q.msg1of2 = r.msg1of2 /\ q.has_GTK = r.has_GTK
BY Zenon DEF GroupIdle, SmType

(***************************************************************************)
(* A callback of one station takes its record from r to q.                 *)
(***************************************************************************)

Kept(r, q) ==
    /\ RecordOK(q) /\ q.started
    /\ q.GUpdateStationKeys => r.GUpdateStationKeys
    /\ GroupHandshakeAlone /\ Retried(r) => Retried(q)
    /\ GtkOK(r, GTK) => GtkOK(q, GTK)

\* The callback of s ends a step loop with such a record.
Stepped(s) == \E q, n : Kept(sm[s], q) /\ StepDone(s, q, n)

\* A disconnected station satisfies everything.
LEMMA InitializeKept ==
    ASSUME NEW r, NEW x, RecordOK(x), x.started
    PROVE  Kept(r, Initialize(x))
<1>1. x \in SmType
  BY DEF RecordOK
<1>2. RecordOK(Initialize(x))
  BY InitializeOK
<1> QED BY <1>1, <1>2, InitializeFields DEF Kept, Retried, GtkOK

\* A new 4-way handshake: what it needs of the record x it starts from.
LEMMA PtkStartKept ==
    ASSUME NEW r, NEW x, RecordOK(x), x.timers < MaxTimers, x.started,
           x.GUpdateStationKeys => r.GUpdateStationKeys,
           GroupHandshakeAlone /\ Retried(r) =>
             ~x.GUpdateStationKeys /\ x.wpa_ptk_group_state = "IDLE"
    PROVE  Kept(r, PtkStart(x))
<1>1. x \in SmType
  BY DEF RecordOK
<1>2. RecordOK(PtkStart(x))
  BY PtkStartOK
<1> QED BY <1>1, <1>2, PtkStartFields DEF Kept, Retried, GtkOK

\* Every record of a state is one.
LEMMA SmOK ==
    ASSUME MachinesOK, NEW s \in STA
    PROVE  sm[s] \in SmType /\ RecordOK(sm[s]) /\ Exists(sm[s])
BY DEF MachinesOK, StateOK

\* Association.
LEMMA StaAssociatedStepped ==
    ASSUME MachinesOK, NEW s \in STA, StaAssociated(s)
    PROVE  Stepped(s)
<1> DEFINE f == [NewSm EXCEPT !.started = TRUE]
<1>1. RecordOK(f) /\ ~f.GUpdateStationKeys /\ f.timers < MaxTimers
  BY NewSmOK, BoundsAssumption
<1>2. f.started /\ f.wpa_ptk_group_state = "IDLE"
  BY Zenon DEF NewSm
<1>3. StepDone(s, PtkStart(f), GKeyDoneStations)
  BY DEF StaAssociated
<1> HIDE DEF f
<1>4. Kept(sm[s], PtkStart(f))
  BY <1>1, <1>2, PtkStartKept
<1> QED BY <1>3, <1>4 DEF Stepped

\* Association on the machine of an earlier one: it waits for no group
\* handshake unless "rejoin" may happen.
LEMMA StaAssociatedAgainStepped ==
    ASSUME MachinesOK, NEW s \in STA, StaAssociatedAgain(s)
    PROVE  Stepped(s)
<1> DEFINE f == [sm[s] EXCEPT !.msg1of2 = {}]
<1>1. sm[s] \in SmType /\ RecordOK(sm[s]) /\ {} \in SUBSET (1 .. MaxGTK)
  BY SmOK
<1>2. f \in SmType
  BY <1>1, Zenon DEF SmType
<1>3. /\ f.wpa_ptk_group_state = sm[s].wpa_ptk_group_state
      /\ f.GTimeoutCtr = sm[s].GTimeoutCtr /\ f.started = sm[s].started
      /\ f.GUpdateStationKeys = sm[s].GUpdateStationKeys
      /\ f.timers = sm[s].timers
  BY <1>1, Zenon DEF SmType
<1>4. RecordOK(f)
  BY <1>1, <1>2, <1>3, Zenon DEF RecordOK
<1>5. StepDone(s, PtkStart(f), GKeyDoneStations)
  BY DEF StaAssociatedAgain
<1>6. /\ sm[s].started /\ sm[s].timers < MaxTimers
      /\ GroupHandshakeAlone => sm[s].wpa_ptk_group_state = "IDLE"
  BY DEF StaAssociatedAgain, GroupHandshakeAlone
<1> HIDE DEF f
<1>7. GroupHandshakeAlone => ~f.GUpdateStationKeys /\ f.wpa_ptk_group_state = "IDLE"
  BY <1>3, <1>4, <1>6 DEF RecordOK
<1>8. Kept(sm[s], PtkStart(f))
  BY <1>3, <1>4, <1>6, <1>7, PtkStartKept
<1> QED BY <1>5, <1>8 DEF Stepped

\* Reassociation clears the mark and the group handshake it belongs to.
LEMMA ReAuthStepped ==
    ASSUME MachinesOK, NEW s \in STA, ReAuth(s)
    PROVE  Stepped(s)
<1> DEFINE r == sm[s]
           c == IF r.GUpdateStationKeys THEN GroupIdle(r) ELSE r
           d == [c EXCEPT !.rekey_timer = FALSE]
<1>1. /\ r \in SmType /\ RecordOK(r) /\ r.timers < MaxTimers
      /\ r.started /\ r.wpa_ptk_state # "INITIALIZE"
  BY SmOK DEF ReAuth
<1>2. /\ RecordOK(c) /\ ~c.GUpdateStationKeys /\ c.timers < MaxTimers /\ c.started
      /\ Retried(r) => c.wpa_ptk_group_state = "IDLE"
  <2>1. CASE r.GUpdateStationKeys
    BY <1>1, <2>1, GroupIdleOK, GroupIdleFields
  <2>2. CASE ~r.GUpdateStationKeys
    BY <1>1, <2>2 DEF Retried, SmType, PtkGroupStates
  <2> QED BY <2>1, <2>2
<1> HIDE DEF c
<1>3. /\ RecordOK(d) /\ ~d.GUpdateStationKeys /\ d.timers < MaxTimers
  BY <1>2, CancelRekeyOK
<1>4. d.started = c.started /\ d.wpa_ptk_group_state = c.wpa_ptk_group_state
  <2>1. c \in SmType
    BY <1>2 DEF RecordOK
  <2> QED BY <2>1, Zenon DEF SmType
<1>5. StepDone(s, PtkStart(d), GKeyDoneStations - Pending(r))
  BY DEF ReAuth, c
<1> HIDE DEF d
<1>6. Kept(sm[s], PtkStart(d))
  BY <1>2, <1>3, <1>4, PtkStartKept
<1> QED BY <1>5, <1>6 DEF Stepped

\* WPA_AUTH and WPA_ASSOC leave the handshakes where they are, or serve a
\* pending Disconnect.
LEMMA AuthEventStepped ==
    ASSUME MachinesOK, NEW s \in STA, AuthEvent(s)
    PROVE  Stepped(s)
<1> DEFINE f == [sm[s] EXCEPT !.PTK_valid = FALSE, !.rekey_timer = FALSE]
<1>1. sm[s] \in SmType /\ RecordOK(sm[s])
  BY SmOK
<1>2. f \in SmType
  BY <1>1, Zenon DEF SmType
<1>3. /\ f.wpa_ptk_group_state = sm[s].wpa_ptk_group_state
      /\ f.wpa_ptk_state = sm[s].wpa_ptk_state
      /\ f.GTimeoutCtr = sm[s].GTimeoutCtr /\ f.started = sm[s].started
      /\ f.GUpdateStationKeys = sm[s].GUpdateStationKeys
      /\ f.timers = sm[s].timers
      /\ f.msg3 = sm[s].msg3 /\ f.msg1of2 = sm[s].msg1of2 /\ f.has_GTK = sm[s].has_GTK
  BY <1>1, Zenon DEF SmType
<1>4. RecordOK(f)
  BY <1>1, <1>2, <1>3, Zenon DEF RecordOK
<1>5. StepDone(s, Settle(f), GKeyDoneStations - SettleDec(sm[s]))
  BY DEF AuthEvent
<1> HIDE DEF f
<1>6. Kept(sm[s], f)
  <2>1. f.started
    BY <1>3 DEF AuthEvent
  <2> QED BY <1>3, <1>4, <2>1, Zenon DEF Kept, Retried, GtkOK
<1>7. Kept(sm[s], Settle(f))
  BY <1>4, <1>6, InitializeKept DEF Settle, Kept
<1> QED BY <1>5, <1>7 DEF Stepped

\* Deauthentication and disassociation.
LEMMA DeauthenticateStepped ==
    ASSUME MachinesOK, NEW s \in STA, Deauthenticate(s)
    PROVE  Stepped(s)
BY SmOK, InitializeKept DEF Deauthenticate, Stepped

\* PTK rekeying asked for by the station.
LEMMA RequestNewPtkStepped ==
    ASSUME MachinesOK, NEW s \in STA, RequestNewPtk(s)
    PROVE  Stepped(s)
<1> DEFINE f == [sm[s] EXCEPT !.timers = 0]
<1>1. sm[s] \in SmType /\ RecordOK(sm[s])
  BY SmOK
<1>2. /\ RecordOK(f) /\ f.GUpdateStationKeys = sm[s].GUpdateStationKeys
      /\ f.timers < MaxTimers
  BY <1>1, CancelTimeoutsOK, BoundsAssumption
<1>3. f.started = sm[s].started /\ f.wpa_ptk_group_state = sm[s].wpa_ptk_group_state
  BY <1>1, Zenon DEF SmType
<1>4. /\ sm[s].started
      /\ GroupHandshakeAlone => sm[s].wpa_ptk_group_state = "IDLE"
      /\ StepDone(s, PtkStart(f), GKeyDoneStations)
  BY DEF RequestNewPtk, GroupHandshakeAlone
<1> HIDE DEF f
<1>5. GroupHandshakeAlone => ~f.GUpdateStationKeys /\ f.wpa_ptk_group_state = "IDLE"
  BY <1>2, <1>3, <1>4 DEF RecordOK
<1>6. Kept(sm[s], PtkStart(f))
  BY <1>2, <1>3, <1>4, <1>5, PtkStartKept
<1> QED BY <1>4, <1>6 DEF Stepped

\* PTK rekeying on the timer.
LEMMA RekeyPtkStepped ==
    ASSUME MachinesOK, NEW s \in STA, RekeyPtk(s)
    PROVE  Stepped(s)
<1> DEFINE f == [sm[s] EXCEPT !.rekey_timer = FALSE]
<1>1. /\ sm[s] \in SmType /\ RecordOK(sm[s]) /\ sm[s].timers < MaxTimers
      /\ sm[s].started
  BY SmOK DEF RekeyPtk, Exists
<1>2. /\ RecordOK(f) /\ f.GUpdateStationKeys = sm[s].GUpdateStationKeys
      /\ f.timers < MaxTimers
  BY <1>1, CancelRekeyOK
<1>3. f.started = sm[s].started /\ f.wpa_ptk_group_state = sm[s].wpa_ptk_group_state
  BY <1>1, Zenon DEF SmType
<1>4. /\ GroupHandshakeAlone => sm[s].wpa_ptk_group_state = "IDLE"
      /\ StepDone(s, PtkStart(f), GKeyDoneStations)
  BY DEF RekeyPtk, GroupHandshakeAlone
<1> HIDE DEF f
<1>5. GroupHandshakeAlone => ~f.GUpdateStationKeys /\ f.wpa_ptk_group_state = "IDLE"
  BY <1>2, <1>3, <1>4 DEF RecordOK
<1>6. Kept(sm[s], PtkStart(f))
  BY <1>1, <1>2, <1>3, <1>5, PtkStartKept
<1> QED BY <1>4, <1>6 DEF Stepped

\* 2/4 with a good MIC: the new 4-way handshake goes on to send the current GTK.
LEMMA ReceiveMsg2of4Stepped ==
    ASSUME MachinesOK, NEW s \in STA, ReceiveMsg2of4(s)
    PROVE  Stepped(s)
<1> DEFINE f == [sm[s] EXCEPT !.PTK_valid = TRUE, !.timers = 0,
                              !.TimeoutCtr = 0, !.msg1of2 = {}]
           q == PtkInitNegotiating(f)
<1>1. sm[s] \in SmType /\ RecordOK(sm[s]) /\ {} \in SUBSET (1 .. MaxGTK)
  BY SmOK
<1>2. /\ 0 \in 0 .. MaxTimers /\ 0 < MaxTimers
      /\ 0 \in 0 .. PairwiseUpdateCount /\ 0 < PairwiseUpdateCount
  BY BoundsAssumption, PairwiseCountAssumption
<1>3. f \in SmType
  BY <1>1, <1>2, Zenon DEF SmType
<1>4. /\ f.wpa_ptk_group_state = sm[s].wpa_ptk_group_state
      /\ f.GTimeoutCtr = sm[s].GTimeoutCtr /\ f.started = sm[s].started
      /\ f.GUpdateStationKeys = sm[s].GUpdateStationKeys
      /\ f.timers = 0 /\ f.TimeoutCtr = 0
      /\ f.msg3 = sm[s].msg3 /\ f.msg1of2 = {}
  BY <1>1, Zenon DEF SmType
<1>5. RecordOK(f)
  BY <1>1, <1>3, <1>4, Zenon DEF RecordOK
<1>6. /\ StepDone(s, q, GKeyDoneStations)
      /\ sm[s].started /\ sm[s].wpa_ptk_state = "PTKSTART"
  BY DEF ReceiveMsg2of4
<1> HIDE DEF f
<1>7. RecordOK(q)
  BY <1>2, <1>4, <1>5, PtkInitNegotiatingOK DEF MachinesOK, StateOK
<1>8. /\ q.wpa_ptk_state = "PTKINITNEGOTIATING" /\ q.msg1of2 = {}
      /\ q.msg3 \subseteq sm[s].msg3 \cup {GTK}
      /\ q.GUpdateStationKeys = sm[s].GUpdateStationKeys
      /\ q.wpa_ptk_group_state = sm[s].wpa_ptk_group_state
      /\ q.started = sm[s].started
  BY <1>3, <1>4, PtkInitNegotiatingFields
<1> HIDE DEF q
<1>9. Retried(sm[s]) => Retried(q)
  BY <1>6, <1>8 DEF Retried
<1>10. GtkOK(sm[s], GTK) => GtkOK(q, GTK)
  BY <1>6, <1>8 DEF GtkOK
<1>11. Kept(sm[s], q)
  BY <1>6, <1>7, <1>8, <1>9, <1>10 DEF Kept
<1> QED BY <1>6, <1>11 DEF Stepped

\* 4/4: the station has acknowledged a GTK of a 3/4.
LEMMA ReceiveMsg4of4Stepped ==
    ASSUME MachinesOK, NEW s \in STA, ReceiveMsg4of4(s)
    PROVE  Stepped(s)
<1>1. sm[s] \in SmType /\ RecordOK(sm[s])
  BY SmOK
<1> DEFINE e(g) == [sm[s] EXCEPT !.wpa_ptk_state = "PTKINITDONE", !.timers = 0,
                                 !.rekey_timer = TRUE, !.msg3 = {},
                                 !.has_GTK = g]
<1>2. PICK g \in sm[s].msg3 :
        \/ StepDone(s, e(g), GKeyDoneStations)
        \/ StepDone(s, Initialize(e(g)), GKeyDoneStations - Pending(e(g)))
  BY DEF ReceiveMsg4of4
<1> DEFINE f == e(g)
<1>3. 0 \in 0 .. MaxTimers /\ {} \in SUBSET (1 .. MaxGTK) /\ g \in 0 .. MaxGTK
  BY <1>1, <1>2, BoundsAssumption DEF SmType
<1>4. f \in SmType
  BY <1>1, <1>3, Zenon DEF SmType, PtkStates
<1>5. /\ f.wpa_ptk_group_state = sm[s].wpa_ptk_group_state
      /\ f.GTimeoutCtr = sm[s].GTimeoutCtr /\ f.started = sm[s].started
      /\ f.GUpdateStationKeys = sm[s].GUpdateStationKeys
      /\ f.wpa_ptk_state = "PTKINITDONE" /\ f.timers = 0
      /\ f.msg1of2 = sm[s].msg1of2 /\ f.has_GTK = g
  BY <1>1, Zenon DEF SmType
<1>6. RecordOK(f)
  BY <1>1, <1>4, <1>5, Zenon DEF RecordOK
<1>7. sm[s].started /\ sm[s].wpa_ptk_state = "PTKINITNEGOTIATING"
  BY DEF ReceiveMsg4of4
<1> HIDE DEF e, f
<1>8. Retried(sm[s]) => Retried(f)
  BY <1>5, <1>7 DEF Retried
<1>9. GtkOK(sm[s], GTK) => GtkOK(f, GTK)
  BY <1>2, <1>5, <1>7 DEF GtkOK
<1>10. Kept(sm[s], f) /\ Kept(sm[s], Initialize(f))
  BY <1>5, <1>6, <1>7, <1>8, <1>9, InitializeKept DEF Kept
<1> QED BY <1>2, <1>10 DEF Stepped, f

\* 2/2: the station has acknowledged the GTK of a 1/2.
LEMMA ReceiveMsg2of2Stepped ==
    ASSUME MachinesOK, NEW s \in STA, ReceiveMsg2of2(s)
    PROVE  Stepped(s)
<1>1. sm[s] \in SmType /\ RecordOK(sm[s])
  BY SmOK
<1> DEFINE i == GroupIdle(sm[s])
           e(g) == [i EXCEPT !.timers = 0, !.msg1of2 = {}, !.has_GTK = g]
<1>2. PICK g \in sm[s].msg1of2 :
        StepDone(s, Settle(e(g)), GKeyDoneStations - Pending(sm[s]))
  BY DEF ReceiveMsg2of2
<1> DEFINE f == e(g)
<1>3. 0 \in 0 .. MaxTimers /\ {} \in SUBSET (1 .. MaxGTK) /\ g \in 0 .. MaxGTK
  BY <1>1, <1>2, BoundsAssumption DEF SmType
<1>4. /\ RecordOK(i) /\ i \in SmType /\ i.GUpdateStationKeys = FALSE
      /\ i.wpa_ptk_group_state = "IDLE" /\ i.started = sm[s].started
      /\ i.wpa_ptk_state = sm[s].wpa_ptk_state /\ i.msg3 = sm[s].msg3
  BY <1>1, GroupIdleOK, GroupIdleFields DEF RecordOK
<1> HIDE DEF i
<1>5. f \in SmType
  BY <1>3, <1>4, Zenon DEF SmType
<1>6. /\ f.wpa_ptk_group_state = i.wpa_ptk_group_state
      /\ f.wpa_ptk_state = i.wpa_ptk_state
      /\ f.GTimeoutCtr = i.GTimeoutCtr /\ f.started = i.started
      /\ f.GUpdateStationKeys = i.GUpdateStationKeys
      /\ f.msg3 = i.msg3 /\ f.msg1of2 = {} /\ f.has_GTK = g
  BY <1>4, Zenon DEF SmType
<1>7. RecordOK(f)
  BY <1>4, <1>5, <1>6, Zenon DEF RecordOK
<1>8. sm[s].started
  BY DEF ReceiveMsg2of2
<1> HIDE DEF e, f
<1>9. Retried(sm[s]) => Retried(f)
  BY <1>4, <1>6 DEF Retried
<1>10. GtkOK(sm[s], GTK) => GtkOK(f, GTK)
  BY <1>2, <1>4, <1>6 DEF GtkOK
<1>11. Kept(sm[s], f) /\ Kept(sm[s], Initialize(f))
  BY <1>4, <1>6, <1>7, <1>8, <1>9, <1>10, InitializeKept DEF Kept
<1>12. Kept(sm[s], Settle(f))
  BY <1>11 DEF Settle
<1> QED BY <1>2, <1>12 DEF Stepped, f

\* The retransmission timeout.  A group handshake that takes it is a marked
\* station's, or that of a station in INITIALIZE.
LEMMA EapolTimeoutStepped ==
    ASSUME MachinesOK, NEW s \in STA, EapolTimeout(s)
    PROVE  Stepped(s)
<1> DEFINE f == [sm[s] EXCEPT !.timers = @ - 1]
           r == Settle(f)
           n == GKeyDoneStations - SettleDec(sm[s])
           p == [r EXCEPT !.TimeoutCtr = @ + 1, !.timers = @ + 1]
           inHandshake == r.wpa_ptk_state \in {"PTKSTART", "PTKINITNEGOTIATING"}
<1>1. /\ sm[s] \in SmType /\ RecordOK(sm[s])
      /\ sm[s].timers > 0 /\ sm[s].started
  BY SmOK DEF EapolTimeout, SmType, Exists
<1>2. sm[s].timers - 1 \in 0 .. MaxTimers /\ sm[s].timers - 1 < MaxTimers
  BY <1>1, BoundsAssumption DEF SmType
<1>3. f \in SmType
  BY <1>1, <1>2, Zenon DEF SmType
<1>4. /\ f.wpa_ptk_group_state = sm[s].wpa_ptk_group_state
      /\ f.wpa_ptk_state = sm[s].wpa_ptk_state
      /\ f.GTimeoutCtr = sm[s].GTimeoutCtr /\ f.started = sm[s].started
      /\ f.GUpdateStationKeys = sm[s].GUpdateStationKeys
      /\ f.Disconnect = sm[s].Disconnect /\ f.timers = sm[s].timers - 1
      /\ f.msg3 = sm[s].msg3 /\ f.msg1of2 = sm[s].msg1of2 /\ f.has_GTK = sm[s].has_GTK
  BY <1>1, Zenon DEF SmType
<1>5. RecordOK(f)
  BY <1>1, <1>3, <1>4, Zenon DEF RecordOK
<1>6. \/ /\ r.wpa_ptk_state = "PTKSTART" /\ r.TimeoutCtr < PairwiseUpdateCount
         /\ StepDone(s, p, n)
      \/ /\ r.wpa_ptk_state = "PTKINITNEGOTIATING"
         /\ r.TimeoutCtr < PairwiseUpdateCount
         /\ StepDone(s, PtkInitNegotiating(r), n)
      \/ StepDone(s, Initialize(r), n - Pending(r))
      \/ /\ ~inHandshake /\ r.wpa_ptk_group_state = "REKEYNEGOTIATING"
         /\ r.GTimeoutCtr < GroupUpdateCount
         /\ StepDone(s, RekeyNegotiating(r, GTK), n)
      \/ StepDone(s, Initialize(GroupIdle(r)), n - Pending(r))
      \/ /\ ~inHandshake /\ r.wpa_ptk_group_state # "REKEYNEGOTIATING"
         /\ StepDone(s, r, n)
  BY DEF EapolTimeout
<1> HIDE DEF f
<1>7. RecordOK(r) /\ r.timers = sm[s].timers - 1
  BY <1>4, <1>5, SettleOK
<1>8. /\ r \in SmType /\ r.started /\ r.timers \in 0 .. MaxTimers
      /\ r.timers < MaxTimers
  BY <1>1, <1>2, <1>3, <1>4, <1>7, InitializeFields DEF RecordOK, Settle
<1>9. \/ /\ r.wpa_ptk_state = "INITIALIZE" /\ ~r.GUpdateStationKeys
      \/ /\ r.wpa_ptk_group_state = sm[s].wpa_ptk_group_state
         /\ r.wpa_ptk_state = sm[s].wpa_ptk_state
         /\ r.GUpdateStationKeys = sm[s].GUpdateStationKeys
         /\ r.msg3 = sm[s].msg3 /\ r.msg1of2 = sm[s].msg1of2
         /\ r.has_GTK = sm[s].has_GTK
  BY <1>3, <1>4, InitializeFields DEF Settle
<1> HIDE DEF r, n
<1>10. CASE /\ r.wpa_ptk_state = "PTKSTART" /\ r.TimeoutCtr < PairwiseUpdateCount
            /\ StepDone(s, p, n)
  <2>1. /\ r.TimeoutCtr + 1 \in 0 .. PairwiseUpdateCount
        /\ r.timers + 1 \in 0 .. MaxTimers
    BY <1>8, <1>10, PairwiseCountAssumption, BoundsAssumption DEF SmType
  <2>2. p \in SmType
    BY <1>8, <2>1, Zenon DEF SmType
  <2>3. /\ p.wpa_ptk_group_state = r.wpa_ptk_group_state
        /\ p.wpa_ptk_state = r.wpa_ptk_state
        /\ p.GTimeoutCtr = r.GTimeoutCtr /\ p.started = r.started
        /\ p.GUpdateStationKeys = r.GUpdateStationKeys
        /\ p.msg3 = r.msg3
    BY <1>8, Zenon DEF SmType
  <2>4. RecordOK(p)
    BY <1>7, <2>2, <2>3, Zenon DEF RecordOK
  <2> HIDE DEF p
  <2>5. Retried(sm[s]) => Retried(p)
    BY <1>9, <1>10, <2>3 DEF Retried
  <2>6. GtkOK(sm[s], GTK) => GtkOK(p, GTK)
    BY <1>9, <1>10, <2>3 DEF GtkOK
  <2>7. Kept(sm[s], p)
    BY <1>8, <1>9, <1>10, <2>3, <2>4, <2>5, <2>6 DEF Kept
  <2> QED BY <1>10, <2>7 DEF Stepped
<1>11. CASE /\ r.wpa_ptk_state = "PTKINITNEGOTIATING"
            /\ r.TimeoutCtr < PairwiseUpdateCount
            /\ StepDone(s, PtkInitNegotiating(r), n)
  <2> DEFINE q == PtkInitNegotiating(r)
  <2>1. RecordOK(q)
    BY <1>7, <1>8, <1>11, PtkInitNegotiatingOK DEF MachinesOK, StateOK
  <2>2. /\ q.wpa_ptk_state = "PTKINITNEGOTIATING" /\ q.msg1of2 = r.msg1of2
        /\ q.msg3 \subseteq r.msg3 \cup {GTK}
        /\ q.GUpdateStationKeys = r.GUpdateStationKeys
        /\ q.wpa_ptk_group_state = r.wpa_ptk_group_state
        /\ q.started = r.started
    BY <1>8, PtkInitNegotiatingFields
  <2> HIDE DEF q
  <2>3. Retried(sm[s]) => Retried(q)
    BY <1>9, <1>11, <2>2 DEF Retried
  <2>4. GtkOK(sm[s], GTK) => GtkOK(q, GTK)
    BY <1>9, <1>11, <2>2 DEF GtkOK
  <2>5. Kept(sm[s], q)
    BY <1>8, <1>9, <1>11, <2>1, <2>2, <2>3, <2>4 DEF Kept
  <2> QED BY <1>11, <2>5 DEF Stepped, q
<1>12. CASE StepDone(s, Initialize(r), n - Pending(r))
  BY <1>7, <1>8, <1>12, InitializeKept DEF Stepped
<1>13. CASE /\ ~inHandshake /\ r.wpa_ptk_group_state = "REKEYNEGOTIATING"
            /\ r.GTimeoutCtr < GroupUpdateCount
            /\ StepDone(s, RekeyNegotiating(r, GTK), n)
  <2> DEFINE q == RekeyNegotiating(r, GTK)
  <2>1. RecordOK(q)
    BY <1>7, <1>8, <1>13, RekeyNegotiatingOK DEF RecordOK, MachinesOK, StateOK
  <2>2. /\ q.wpa_ptk_group_state = "REKEYNEGOTIATING"
        /\ q.timers = r.timers + 1
        /\ q.msg1of2 = IF r.PTK_valid THEN r.msg1of2 \cup {GTK} ELSE r.msg1of2
        /\ q.wpa_ptk_state = r.wpa_ptk_state /\ q.started = r.started
        /\ q.GUpdateStationKeys = r.GUpdateStationKeys
        /\ q.msg3 = r.msg3 /\ q.has_GTK = r.has_GTK
    BY <1>8, RekeyNegotiatingFields, Zenon
  <2> HIDE DEF q
  <2>7. q.timers > 0
    BY <1>8, <2>2
  <2>3. r.wpa_ptk_state \in {"INITIALIZE", "PTKINITDONE"}
    BY <1>8, <1>13 DEF SmType, PtkStates
  <2>4. Retried(sm[s]) => Retried(q)
    BY <1>9, <1>13, <2>2, <2>7 DEF Retried
  <2>5. GtkOK(sm[s], GTK) => GtkOK(q, GTK)
    BY <1>1, <1>9, <1>13, <2>2, <2>3 DEF GtkOK
  <2>6. Kept(sm[s], q)
    BY <1>8, <1>9, <2>1, <2>2, <2>4, <2>5 DEF Kept
  <2> QED BY <1>13, <2>6 DEF Stepped, q
<1>14. CASE StepDone(s, Initialize(GroupIdle(r)), n - Pending(r))
  <2>1. RecordOK(GroupIdle(r)) /\ GroupIdle(r).started
    BY <1>7, <1>8, GroupIdleOK, GroupIdleFields
  <2> QED BY <1>14, <2>1, InitializeKept DEF Stepped
<1>15. CASE /\ ~inHandshake /\ r.wpa_ptk_group_state # "REKEYNEGOTIATING"
            /\ StepDone(s, r, n)
  <2>1. ~r.GUpdateStationKeys
    BY <1>7, <1>15 DEF RecordOK
  <2>2. Retried(r)
    BY <1>15, <2>1 DEF Retried
  <2>3. r.wpa_ptk_state \in {"INITIALIZE", "PTKINITDONE"}
    BY <1>8, <1>15 DEF SmType, PtkStates
  <2>4. GtkOK(sm[s], GTK) => GtkOK(r, GTK)
    BY <1>9, <1>15, <2>1, <2>3 DEF GtkOK
  <2>5. Kept(sm[s], r)
    BY <1>7, <1>8, <2>1, <2>2, <2>4 DEF Kept
  <2> QED BY <1>15, <2>5 DEF Stepped
<1> QED BY <1>6, <1>10, <1>11, <1>12, <1>13, <1>14, <1>15

\* All of them.
LEMMA StationStepStepped ==
    ASSUME MachinesOK, NEW s \in STA, StationStep(s)
    PROVE  Stepped(s)
BY StaAssociatedStepped, StaAssociatedAgainStepped, ReAuthStepped,
   AuthEventStepped, DeauthenticateStepped, RequestNewPtkStepped,
   RekeyPtkStepped, ReceiveMsg2of4Stepped, ReceiveMsg4of4Stepped,
   ReceiveMsg2of2Stepped, EapolTimeoutStepped DEF StationStep

(***************************************************************************)
(* The end of a step loop, again.                                          *)
(***************************************************************************)

\* q is r up to Disconnect and the fields the invariants do not speak of.
Like(r, q) ==
    /\ q.started = r.started /\ q.wpa_ptk_state = r.wpa_ptk_state
    /\ q.wpa_ptk_group_state = r.wpa_ptk_group_state
    /\ q.GUpdateStationKeys = r.GUpdateStationKeys
    /\ q.timers = r.timers /\ q.rekey_timer = r.rekey_timer
    /\ q.msg3 = r.msg3 /\ q.msg1of2 = r.msg1of2 /\ q.has_GTK = r.has_GTK

\* Records that are alike satisfy the same.
LEMMA LikeSame ==
    ASSUME NEW r, NEW q, Like(r, q)
    PROVE  /\ Exists(r) => Exists(q)
           /\ Retried(r) => Retried(q)
           /\ \A g : GtkOK(r, g) => GtkOK(q, g)
BY Zenon DEF Like, Exists, Retried, GtkOK

\* Marking for disconnection.
LEMMA MarkDisconnectLike ==
    ASSUME NEW r \in SmType
    PROVE  Like(r, [r EXCEPT !.Disconnect = r.started])
BY Zenon DEF Like, SmType

\* Station s ends with a record that it may have, the others keep theirs up to
\* Disconnect.
LEMMA SteppedRecords ==
    ASSUME MachinesOK, NEW s \in STA, Stepped(s)
    PROVE  /\ Kept(sm[s], sm'[s])
           /\ \A t \in STA \ {s} : Like(sm[t], sm'[t])
           /\ GTK' = GTK
           /\ \/ wpa_group_state' # "SETKEYSDONE"
              \/ wpa_group_state = "SETKEYSDONE" /\ txGTK' = txGTK
              \/ txGTK' = GTK /\ GKeyDoneStations' = 0
<1>1. PICK q, n : Kept(sm[s], q) /\ StepDone(s, q, n)
  BY DEF Stepped
<1>2. sm \in [STA -> SmType]
  BY DEF MachinesOK, StateOK
<1>3. \A t \in STA : Like(sm[t], sm[t])
  BY DEF Like
<1>4. CASE sm' = [sm EXCEPT ![s] = q]
  BY <1>1, <1>2, <1>3, <1>4 DEF StepDone
<1>5. CASE sm' = [t \in STA |-> IF t = s THEN Initialize(q)
                      ELSE [sm[t] EXCEPT !.Disconnect = sm[t].started]]
  <2>1. Kept(sm[s], Initialize(q))
    BY <1>1, InitializeKept DEF Kept
  <2>2. sm'[s] = Initialize(q)
    BY <1>5
  <2>3. ASSUME NEW t \in STA \ {s}
        PROVE  Like(sm[t], sm'[t])
    <3>1. sm'[t] = [sm[t] EXCEPT !.Disconnect = sm[t].started]
      BY <1>5
    <3>2. sm[t] \in SmType
      BY <1>2
    <3> QED BY <3>1, <3>2, MarkDisconnectLike
  <2>4. /\ GTK' = GTK
        /\ \/ wpa_group_state' # "SETKEYSDONE"
           \/ wpa_group_state = "SETKEYSDONE" /\ txGTK' = txGTK
           \/ txGTK' = GTK /\ GKeyDoneStations' = 0
    BY <1>1 DEF StepDone
  <2> QED BY <2>1, <2>2, <2>3, <2>4
<1> QED BY <1>1, <1>4, <1>5 DEF StepDone

(***************************************************************************)
(* Rekeying.                                                               *)
(***************************************************************************)

\* x is the record r from which a rekey starts: its timeouts are cancelled if
\* the station asked for the rekey.
Asked(r, x) ==
    /\ x \in SmType
    /\ x.started = r.started /\ x.wpa_ptk_state = r.wpa_ptk_state
    /\ x.wpa_ptk_group_state = r.wpa_ptk_group_state
    /\ x.GUpdateStationKeys = r.GUpdateStationKeys
    /\ x.rekey_timer = r.rekey_timer /\ x.is_wnmsleep = r.is_wnmsleep
    /\ x.msg3 = r.msg3 /\ x.msg1of2 = r.msg1of2 /\ x.has_GTK = r.has_GTK
    /\ \/ x.timers = r.timers
       \/ /\ x.timers = 0
          /\ GroupHandshakeAlone => r.wpa_ptk_group_state = "IDLE"

\* That keeps what the record satisfies.
LEMMA AskedSame ==
    ASSUME NEW r, RecordOK(r), NEW x, Asked(r, x)
    PROVE  /\ Exists(r) => Exists(x)
           /\ GroupHandshakeAlone /\ Retried(r) => Retried(x)
           /\ GtkOK(r, GTK) => GtkOK(x, GTK)
<1>1. Exists(r) => Exists(x)
  BY DEF Asked, Exists
<1>2. ASSUME GroupHandshakeAlone, Retried(r)
      PROVE  Retried(x)
  BY <1>2 DEF Asked, Retried, RecordOK
<1>3. GtkOK(r, GTK) => GtkOK(x, GTK)
  BY DEF Asked, GtkOK
<1> QED BY <1>1, <1>2, <1>3

\* wpa_group_update_sta(): a station that is marked has a timeout, and its 1/2
\* carries the new GTK only.
LEMMA UpdateStaKept ==
    ASSUME NEW x \in SmType, x.started, NEW g
    PROVE  /\ UpdateSta(x, g).started
           /\ Retried(x) => Retried(UpdateSta(x, g))
           /\ GtkOK(x, GTK) /\ ~x.GUpdateStationKeys /\ ~x.is_wnmsleep
                /\ x.wpa_ptk_state # "PTKINITNEGOTIATING" => GtkOK(UpdateSta(x, g), g)
<1>1. CASE x.wpa_ptk_state # "PTKINITDONE"
  <2> DEFINE q == [x EXCEPT !.GUpdateStationKeys = FALSE]
  <2>1. UpdateSta(x, g) = q
    BY <1>1 DEF UpdateSta
  <2>2. /\ q.started = x.started /\ q.wpa_ptk_state = x.wpa_ptk_state
        /\ q.wpa_ptk_group_state = x.wpa_ptk_group_state
        /\ q.GUpdateStationKeys = FALSE /\ q.msg3 = x.msg3
    BY Zenon DEF SmType
  <2> HIDE DEF q
  <2>3. Retried(x) => Retried(q)
    BY <1>1, <2>2 DEF Retried
  <2>4. GtkOK(x, GTK) /\ x.wpa_ptk_state # "PTKINITNEGOTIATING" => GtkOK(q, g)
    BY <1>1, <2>2 DEF GtkOK
  <2> QED BY <2>1, <2>2, <2>3, <2>4
<1>2. CASE x.wpa_ptk_state = "PTKINITDONE" /\ x.is_wnmsleep
  BY <1>2 DEF UpdateSta
<1>3. CASE x.wpa_ptk_state = "PTKINITDONE" /\ ~x.is_wnmsleep
  <2> DEFINE u == [x EXCEPT !.GUpdateStationKeys = TRUE]
  <2>1. u \in SmType
    BY Zenon DEF SmType
  <2>2. /\ u.started = x.started /\ u.wpa_ptk_state = x.wpa_ptk_state
        /\ u.wpa_ptk_group_state = x.wpa_ptk_group_state
        /\ u.GUpdateStationKeys = TRUE /\ u.timers = x.timers
        /\ u.msg1of2 = x.msg1of2
    BY Zenon DEF SmType
  <2>3. CASE x.wpa_ptk_group_state = "IDLE"
    <3> DEFINE q == RekeyNegotiating(u, g)
    <3>1. UpdateSta(x, g) = q
      BY <1>3, <2>3 DEF UpdateSta
    <3> HIDE DEF u
    <3>2. /\ q.timers = u.timers + 1
          /\ q.msg1of2 = IF u.PTK_valid THEN u.msg1of2 \cup {g} ELSE u.msg1of2
          /\ q.wpa_ptk_state = u.wpa_ptk_state /\ q.started = u.started
          /\ q.GUpdateStationKeys = u.GUpdateStationKeys
      BY <2>1, RekeyNegotiatingFields, Zenon
    <3> HIDE DEF q
    <3>3. q.timers > 0
      BY <2>1, <3>2 DEF SmType
    <3>4. Retried(q)
      BY <1>3, <2>2, <3>2, <3>3 DEF Retried
    <3>5. GtkOK(x, GTK) /\ ~x.GUpdateStationKeys => GtkOK(q, g)
      BY <1>3, <2>2, <3>2 DEF GtkOK
    <3> QED BY <2>2, <3>1, <3>2, <3>4, <3>5
  <2>4. CASE x.wpa_ptk_group_state # "IDLE"
    <3>1. UpdateSta(x, g) = u
      BY <1>3, <2>4 DEF UpdateSta
    <3>2. x.wpa_ptk_group_state = "REKEYNEGOTIATING"
      BY <2>4 DEF SmType, PtkGroupStates
    <3> HIDE DEF u
    <3>3. Retried(x) => Retried(u)
      BY <1>3, <2>2, <3>2 DEF Retried
    <3>4. GtkOK(x, GTK) /\ ~x.GUpdateStationKeys => GtkOK(u, g)
      BY <1>3, <2>2 DEF GtkOK
    <3> QED BY <2>2, <3>1, <3>3, <3>4
  <2> QED BY <2>3, <2>4
<1> QED BY <1>1, <1>2, <1>3

\* The two ways to start a rekey.
LEMMA RekeyAsked ==
    ASSUME MachinesOK, RekeyGtk \/ \E s \in STA : RequestNewGtk(s)
    PROVE  \E m, T : /\ Rekey(m, T) /\ RekeyFrom(m)
                     /\ \A s \in STA : Asked(sm[s], m[s])
                     /\ \A s \in T : sm[s].started
<1>1. sm \in [STA -> SmType] /\ \A s \in STA : RecordOK(sm[s])
  BY DEF MachinesOK, StateOK
<1>2. \A s \in STA : Asked(sm[s], sm[s])
  BY <1>1 DEF Asked
<1>3. CASE RekeyGtk
  <2>1. RekeyFrom(sm)
    BY <1>1 DEF RekeyFrom
  <2>2. Rekey(sm, {}) /\ \A s \in {} : sm[s].started
    BY <1>3 DEF RekeyGtk
  <2> QED BY <1>2, <2>1, <2>2
<1>4. ASSUME NEW s \in STA, RequestNewGtk(s)
      PROVE  \E m, T : /\ Rekey(m, T) /\ RekeyFrom(m)
                       /\ \A t \in STA : Asked(sm[t], m[t])
                       /\ \A t \in T : sm[t].started
  <2> DEFINE q == [sm[s] EXCEPT !.timers = 0]
             m == [sm EXCEPT ![s] = q]
  <2>1. sm[s] \in SmType /\ 0 \in 0 .. MaxTimers
    BY <1>1, BoundsAssumption
  <2>2. q \in SmType
    BY <2>1, Zenon DEF SmType
  <2>3. /\ q.started = sm[s].started /\ q.wpa_ptk_state = sm[s].wpa_ptk_state
        /\ q.wpa_ptk_group_state = sm[s].wpa_ptk_group_state
        /\ q.GUpdateStationKeys = sm[s].GUpdateStationKeys
        /\ q.rekey_timer = sm[s].rekey_timer /\ q.is_wnmsleep = sm[s].is_wnmsleep
        /\ q.msg3 = sm[s].msg3 /\ q.msg1of2 = sm[s].msg1of2
        /\ q.has_GTK = sm[s].has_GTK /\ q.timers = 0
    BY <2>1, Zenon DEF SmType
  <2>4. Rekey(m, {s}) /\ sm[s].started
    BY <1>4 DEF RequestNewGtk
  <2>5. GroupHandshakeAlone => sm[s].wpa_ptk_group_state = "IDLE"
    BY <1>4 DEF RequestNewGtk, GroupHandshakeAlone
  <2>6. RecordOK(q)
    BY <1>1, CancelTimeoutsOK
  <2> HIDE DEF q
  <2>7. Asked(sm[s], q)
    BY <2>2, <2>3, <2>5 DEF Asked
  <2>8. \A t \in STA : Asked(sm[t], m[t])
    BY <1>1, <1>2, <2>7
  <2>9. RekeyFrom(m)
    BY <1>1, <2>2, <2>3, <2>6 DEF RekeyFrom
  <2>10. \A t \in {s} : sm[t].started
    BY <2>4
  <2> HIDE DEF m
  <2> WITNESS m, {s}
  <2> QED BY <2>4, <2>8, <2>9, <2>10
<1> QED BY <1>3, <1>4

\* A rekey keeps both invariants' conditions on the records, and installs the
\* new GTK at once only if it marks nobody.
LEMMA RekeyKept ==
    ASSUME MachinesOK, RekeyGtk \/ \E s \in STA : RequestNewGtk(s), NEW t \in STA
    PROVE  /\ Exists(sm'[t])
           /\ GroupHandshakeAlone /\ Retried(sm[t]) => Retried(sm'[t])
           /\ GtkInv /\ {"overlap", "wnmsleep"} \cap features = {} =>
                /\ GtkOK(sm'[t], GTK')
                /\ wpa_group_state' = "SETKEYSDONE" =>
                     Installed' /\ GKeyDoneStations' = 0
<1>1. PICK m, T : /\ Rekey(m, T) /\ RekeyFrom(m)
                  /\ \A s \in STA : Asked(sm[s], m[s])
                  /\ \A s \in T : sm[s].started
  BY RekeyAsked
<1>a. Rekey(m, T)
  BY <1>1
<1> DEFINE r == sm[t]
           x == m[t]
           k == Marked(m, GTK + 1)
           Quiet == GtkInv /\ {"overlap", "wnmsleep"} \cap features = {}
<1>2. /\ RecordOK(r) /\ Exists(r) /\ Asked(r, x) /\ x \in SmType /\ RecordOK(x)
      /\ RecordOK(k[t]) /\ k[t] \in SmType
  BY <1>1, SmOK, MarkedOK DEF Asked, MachinesOK, RecordOK, RekeyFrom
<1>3. /\ Exists(x) /\ (GroupHandshakeAlone /\ Retried(r) => Retried(x))
      /\ GtkOK(r, GTK) => GtkOK(x, GTK)
  BY <1>2, AskedSame
<1>4. k[t] = IF x.started THEN UpdateSta(x, GTK + 1) ELSE x
  BY DEF Marked
<1>5. Quiet => GTK' = GTK + 1 /\ wpa_group_state = "SETKEYSDONE"
  BY <1>a DEF Rekey
<1>6. ASSUME Quiet
      PROVE  /\ GtkOK(x, GTK) /\ ~x.GUpdateStationKeys /\ ~x.is_wnmsleep
             /\ x.wpa_ptk_state # "PTKINITNEGOTIATING"
  <2>1. wpa_group_state = "SETKEYSDONE" /\ x.wpa_ptk_state # "PTKINITNEGOTIATING"
    BY <1>1, <1>6 DEF Rekey
  <2>2. ~r.GUpdateStationKeys
    BY <1>6, <2>1 DEF GtkInv, MarkedStations
  <2>3. ~r.is_wnmsleep /\ GtkOK(r, GTK)
    BY <1>6 DEF GtkInv, CountInv, NoStationSleeps
  <2> QED BY <1>2, <1>3, <2>1, <2>2, <2>3 DEF Asked
<1>7. wpa_group_state' = "SETKEYSDONE" => Installed' /\ GKeyDoneStations' = 0
  BY <1>a DEF Rekey, KeyRefused, Installed
<1>8. PICK y : /\ y = k[t] \/ (y = x /\ ~Quiet)
               /\ \/ sm'[t] = y
                  \/ r.started /\ sm'[t] = Initialize(y)
                  \/ sm'[t] = [y EXCEPT !.Disconnect = y.started]
  <2>1. CASE wpa_group_state = "SETKEYS" /\ KeyRefused(m, T)
    <3>1. ~Quiet
      BY <1>5, <2>1
    <3>2. \/ r.started /\ sm'[t] = Initialize(x)
          \/ sm'[t] = [x EXCEPT !.Disconnect = x.started]
      BY <1>1, <2>1 DEF KeyRefused
    <3> QED BY <3>1, <3>2
  <2>2. CASE sm' = k \/ KeyRefused(k, T)
    BY <1>1, <2>2 DEF KeyRefused
  <2> QED BY <1>a, <2>1, <2>2 DEF Rekey
<1>9. r.started = x.started
  BY <1>2 DEF Asked
<1> HIDE DEF k, x, r, Quiet
<1>10. /\ Exists(k[t]) /\ (x.started => k[t].started)
       /\ GroupHandshakeAlone /\ Retried(r) => Retried(k[t])
       /\ Quiet => GtkOK(k[t], GTK')
  <2>1. CASE x.started
    <3>1. /\ UpdateSta(x, GTK + 1).started
          /\ Retried(x) => Retried(UpdateSta(x, GTK + 1))
          /\ GtkOK(x, GTK) /\ ~x.GUpdateStationKeys /\ ~x.is_wnmsleep
               /\ x.wpa_ptk_state # "PTKINITNEGOTIATING"
               => GtkOK(UpdateSta(x, GTK + 1), GTK + 1)
      BY <1>2, <2>1, UpdateStaKept
    <3>2. k[t] = UpdateSta(x, GTK + 1)
      BY <1>4, <2>1
    <3> QED BY <1>3, <1>5, <1>6, <3>1, <3>2 DEF Exists
  <2>2. CASE ~x.started
    <3>1. x.wpa_ptk_state = "INITIALIZE" /\ k[t] = x
      BY <1>3, <1>4, <2>2 DEF Exists
    <3>2. GtkOK(x, GTK')
      BY <3>1 DEF GtkOK
    <3> QED BY <1>3, <2>2, <3>1, <3>2
  <2> QED BY <2>1, <2>2
<1>11. /\ Exists(sm'[t])
       /\ GroupHandshakeAlone /\ Retried(r) => Retried(sm'[t])
       /\ Quiet => GtkOK(sm'[t], GTK')
  <2>0. /\ Exists(y) /\ (x.started => y.started) /\ y \in SmType
        /\ GroupHandshakeAlone /\ Retried(r) => Retried(y)
        /\ Quiet => GtkOK(y, GTK')
    BY <1>2, <1>3, <1>8, <1>10
  <2>1. CASE sm'[t] = y
    BY <2>0, <2>1
  <2>2. CASE r.started /\ sm'[t] = Initialize(y)
    <3>1. y.started
      BY <1>9, <2>0, <2>2
    <3> QED BY <2>0, <2>2, <3>1, InitializeFields DEF Exists, Retried, GtkOK
  <2>3. CASE sm'[t] = [y EXCEPT !.Disconnect = y.started]
    <3>1. Like(y, sm'[t])
      BY <2>0, <2>3, MarkDisconnectLike
    <3> QED BY <2>0, <3>1, LikeSame
  <2> QED BY <1>8, <2>1, <2>2, <2>3
<1> QED BY <1>7, <1>11 DEF r, Quiet

(***************************************************************************)
(* WNM-Sleep Mode changes the sleep flag, and on leaving it may mark the   *)
(* station.                                                                *)
(***************************************************************************)

\* A change of the sleep flag alone.
LEMMA SleepFlagLike ==
    ASSUME NEW r \in SmType, NEW b \in BOOLEAN
    PROVE  LET q == [r EXCEPT !.is_wnmsleep = b]
           IN Like(r, q) /\ q \in SmType
BY Zenon DEF Like, SmType

\* Entering and leaving keep a marked station's timeout.
LEMMA WnmSleepKept ==
    ASSUME MachinesOK, NEW s \in STA, WnmSleepEnter(s) \/ WnmSleepExit(s),
           NEW t \in STA
    PROVE  Exists(sm'[t]) /\ (Retried(sm[t]) => Retried(sm'[t]))
<1>1. sm \in [STA -> SmType] /\ sm[t] \in SmType /\ Exists(sm[t]) /\ sm[s] \in SmType
  BY SmOK DEF MachinesOK, StateOK
<1>2. CASE WnmSleepEnter(s)
  <2>1. sm'[t] = sm[t] \/ sm'[t] = [sm[t] EXCEPT !.is_wnmsleep = TRUE]
    BY <1>1, <1>2 DEF WnmSleepEnter
  <2> QED BY <1>1, <2>1, SleepFlagLike, LikeSame
<1>3. CASE WnmSleepExit(s)
  <2> DEFINE r == [sm[s] EXCEPT !.is_wnmsleep = FALSE]
             u == UpdateSta(r, GTK)
  <2>1. /\ r.started
        /\ \/ r.timers < MaxTimers /\ \E n : StepDone(s, Settle(u), n)
           \/ ~Counted(r) /\ sm' = [sm EXCEPT ![s] = u]
           \/ sm' = [sm EXCEPT ![s] = r]
    BY <1>3 DEF WnmSleepExit
  <2>2. Like(sm[s], r) /\ r \in SmType /\ r.GTimeoutCtr = sm[s].GTimeoutCtr
    BY <1>1, SleepFlagLike, Zenon DEF SmType
  <2> HIDE DEF r
  <2>3. Exists(r) /\ (Retried(sm[s]) => Retried(r))
    BY <2>1, <2>2, LikeSame DEF Exists
  <2>4. Exists(u) /\ u.started /\ (Retried(sm[s]) => Retried(u))
    BY <2>1, <2>2, <2>3, UpdateStaKept DEF Exists
  <2>5. CASE r.timers < MaxTimers /\ \E n : StepDone(s, Settle(u), n)
    <3>1. RecordOK(sm[s]) /\ RecordOK(r)
      <4>1. RecordOK(sm[s])
        BY SmOK
      <4> QED BY <2>2, <4>1 DEF RecordOK, Like
    <3>2. RecordOK(u) /\ u \in SmType
      BY <2>1, <2>5, <3>1, UpdateStaOK DEF MachinesOK, StateOK, RecordOK
    <3> DEFINE q == Settle(u)
    <3> HIDE DEF u
    <3>3. RecordOK(q) /\ q \in SmType /\ q.started /\ (Retried(sm[s]) => Retried(q))
      BY <2>4, <3>2, SettleOK, InitializeFields DEF Settle, Retried, RecordOK
    <3> HIDE DEF q
    <3>4. \/ sm'[t] = sm[t]
          \/ t = s /\ sm'[t] = q
          \/ t = s /\ sm'[t] = Initialize(q)
          \/ sm'[t] = [sm[t] EXCEPT !.Disconnect = sm[t].started]
      BY <1>1, <2>5 DEF StepDone, q
    <3>5. Initialize(q).started /\ Retried(Initialize(q))
      BY <3>3, InitializeFields DEF Retried
    <3>6. Like(sm[t], [sm[t] EXCEPT !.Disconnect = sm[t].started])
      BY <1>1, MarkDisconnectLike
    <3> QED BY <1>1, <3>3, <3>4, <3>5, <3>6, LikeSame DEF Exists
  <2>6. CASE sm' = [sm EXCEPT ![s] = u] \/ sm' = [sm EXCEPT ![s] = r]
    BY <1>1, <2>3, <2>4, <2>6
  <2> QED BY <2>1, <2>5, <2>6
<1> QED BY <1>2, <1>3

(***************************************************************************)
(* Every step keeps the invariants.                                        *)
(***************************************************************************)

\* A fresh machine.
LEMMA NewSmKept ==
    Exists(NewSm) /\ Retried(NewSm) /\ \A g : GtkOK(NewSm, g)
BY DEF NewSm, Exists, Retried, GtkOK

\* What a step does to each record.
LEMMA NextKept ==
    ASSUME MachinesOK, [Next]_vars, NEW t \in STA
    PROVE  Exists(sm'[t]) /\ (GroupHandshakeAlone /\ Retried(sm[t]) => Retried(sm'[t]))
<1>0. sm \in [STA -> SmType] /\ Exists(sm[t])
  BY SmOK DEF MachinesOK, StateOK
<1>1. ASSUME NEW s \in STA, StationStep(s)
      PROVE  Exists(sm'[t]) /\ (GroupHandshakeAlone /\ Retried(sm[t]) => Retried(sm'[t]))
  <2>1. Kept(sm[s], sm'[s]) /\ \A u \in STA \ {s} : Like(sm[u], sm'[u])
    BY <1>1, StationStepStepped, SteppedRecords
  <2>2. CASE t = s
    BY <2>1, <2>2 DEF Kept, Exists
  <2>3. CASE t # s
    BY <1>0, <2>1, <2>3, LikeSame
  <2> QED BY <2>2, <2>3
<1>2. ASSUME NEW s \in STA, StaDeinit(s)
      PROVE  Exists(sm'[t]) /\ (GroupHandshakeAlone /\ Retried(sm[t]) => Retried(sm'[t]))
  <2>1. sm'[t] = NewSm \/ sm'[t] = sm[t]
    BY <1>0, <1>2 DEF StaDeinit
  <2> QED BY <1>0, <2>1, NewSmKept
<1>3. ASSUME NEW s \in STA, WnmSleepEnter(s) \/ WnmSleepExit(s)
      PROVE  Exists(sm'[t]) /\ (GroupHandshakeAlone /\ Retried(sm[t]) => Retried(sm'[t]))
  BY <1>3, WnmSleepKept
<1>4. CASE RekeyGtk \/ \E s \in STA : RequestNewGtk(s)
  BY <1>4, RekeyKept
<1>5. CASE TkipCountermeasures
  <2>1. sm'[t] = NewSm
    BY <1>5 DEF TkipCountermeasures
  <2> QED BY <2>1, NewSmKept
<1>6. CASE UNCHANGED vars
  BY <1>0, <1>6 DEF vars
<1> QED BY <1>1, <1>2, <1>3, <1>4, <1>5, <1>6 DEF Next, Event, StationStep

\* So machines exist before they wait, in every reachable state.
LEMMA MachinesStep == MachinesOK /\ [Next]_vars => MachinesOK'
BY NextStateOK, NextKept DEF MachinesOK

\* Without overlapping rekeys and WNM-Sleep Mode a step keeps GtkInv.
LEMMA NextGtkInv ==
    ASSUME {"overlap", "wnmsleep"} \cap features = {}
    PROVE  GtkInv /\ [Next]_vars => GtkInv'
<1> SUFFICES ASSUME GtkInv, [Next]_vars
             PROVE  GtkInv'
  OBVIOUS
<1>0. /\ MachinesOK /\ CountInv /\ MachinesOK' /\ CountInv'
      /\ sm \in [STA -> SmType] /\ \A t \in STA : GtkOK(sm[t], GTK)
      /\ wpa_group_state = "SETKEYSDONE" => Installed /\ MarkedStations = {}
      /\ features' = features
  BY FeaturesKept, MachinesStep, NextCountInv DEF GtkInv, MachinesOK, StateOK
<1>a. GKeyDoneStations' = 0 => MarkedStations' = {}
  <2>1. MarkedStations' \in SUBSET STA /\ GKeyDoneStations' = Cardinality(MarkedStations')
    BY <1>0 DEF CountInv, CountMatchesMarks, MarkedStations
  <2>2. IsFiniteSet(MarkedStations')
    BY <2>1, STAAssumption, FS_Subset
  <2> QED BY <2>1, <2>2, FS_EmptySet
<1> DEFINE Good == /\ \A t \in STA : GtkOK(sm'[t], GTK')
                   /\ wpa_group_state' = "SETKEYSDONE" =>
                        Installed' /\ MarkedStations' = {}
<1>1. ASSUME NEW s \in STA, StationStep(s)
      PROVE  Good
  <2>1. /\ Kept(sm[s], sm'[s]) /\ \A t \in STA \ {s} : Like(sm[t], sm'[t])
        /\ GTK' = GTK
        /\ \/ wpa_group_state' # "SETKEYSDONE"
           \/ wpa_group_state = "SETKEYSDONE" /\ txGTK' = txGTK
           \/ txGTK' = GTK /\ GKeyDoneStations' = 0
    BY <1>0, <1>1, StationStepStepped, SteppedRecords
  <2>2. \A t \in STA : GtkOK(sm'[t], GTK')
    BY <1>0, <2>1, LikeSame DEF Kept
  <2>3. MarkedStations = {} => MarkedStations' = {}
    BY <2>1 DEF Kept, Like, MarkedStations
  <2> QED BY <1>0, <1>a, <2>1, <2>2, <2>3 DEF Installed
<1>2. ASSUME NEW s \in STA, StaDeinit(s)
      PROVE  Good
  <2>1. \A t \in STA : sm'[t] = NewSm \/ sm'[t] = sm[t]
    BY <1>0, <1>2 DEF StaDeinit
  <2>2. GTK' = GTK /\ txGTK' = txGTK /\ wpa_group_state' = wpa_group_state
    BY <1>2 DEF StaDeinit
  <2>3. MarkedStations = {} => MarkedStations' = {}
    BY <2>1, NewSmOK DEF MarkedStations
  <2> QED BY <1>0, <2>1, <2>2, <2>3, NewSmKept DEF Installed
<1>3. ASSUME NEW s \in STA, WnmSleepEnter(s) \/ WnmSleepExit(s)
      PROVE  Good
  BY <1>3 DEF WnmSleepEnter, WnmSleepExit
<1>4. ASSUME RekeyGtk \/ \E s \in STA : RequestNewGtk(s)
      PROVE  Good
  <2>1. \A t \in STA :
          /\ GtkOK(sm'[t], GTK')
          /\ wpa_group_state' = "SETKEYSDONE" => Installed' /\ GKeyDoneStations' = 0
    BY <1>0, <1>4, RekeyKept
  <2>2. CASE STA = {}
    <3>1. MarkedStations' = {}
      BY <2>2 DEF MarkedStations
    <3>2. wpa_group_state' = "SETKEYSDONE" => Installed'
      BY <1>4, <2>2 DEF RekeyGtk, Rekey, KeyRefused, Installed
    <3> QED BY <2>2, <3>1, <3>2
  <2>3. CASE STA # {}
    BY <1>a, <2>1, <2>3
  <2> QED BY <2>2, <2>3
<1>5. CASE TkipCountermeasures
  <2>1. \A t \in STA : sm'[t] = NewSm
    BY <1>5 DEF TkipCountermeasures
  <2>2. MarkedStations' = {} /\ Installed'
    BY <1>0, <1>5, <2>1, NewSmOK DEF MarkedStations, TkipCountermeasures, Installed
  <2>3. Good
    BY <2>1, <2>2, NewSmKept
  <2> QED BY <1>0, <2>3 DEF GtkInv
<1>6. CASE UNCHANGED vars
  BY <1>0, <1>6 DEF GtkInv, vars, MarkedStations, Installed
<1> QED BY <1>0, <1>1, <1>2, <1>3, <1>4, <1>5, <1>6 DEF Next, Event, StationStep, GtkInv

(***************************************************************************)
(* Theorems.                                                               *)
(***************************************************************************)

\* The initial state.
LEMMA InitKept == Init => MachinesOK /\ RetriedInv /\ GtkInv
<1> SUFFICES ASSUME Init
             PROVE  MachinesOK /\ RetriedInv /\ GtkInv
  OBVIOUS
<1>1. \A s \in STA : sm[s] = NewSm
  BY DEF Init
<1>2. MarkedStations = {}
  BY <1>1, NewSmOK DEF MarkedStations
<1>3. txGTK = GTK
  BY DEF Init
<1> QED BY <1>1, <1>2, <1>3, InitOK, NewSmKept
        DEF MachinesOK, RetriedInv, GtkInv, CountInv, Installed

\* As long as no 4-way handshake and no EAPOL-Key Request takes over the
\* timeout of an unfinished group handshake, a marked station always has one:
\* wpa_group_sm_step() never waits for a station that nothing will retry or
\* disconnect, for any number of stations and any overlap of rekeys.
THEOREM MarkedRetried == Spec => []MarkedStationIsRetried
<1> DEFINE Inv == MachinesOK /\ (GroupHandshakeAlone => RetriedInv)
<1>1. Init => Inv
  BY InitKept
<1>2. Inv /\ [Next]_vars => Inv'
  <2> SUFFICES ASSUME Inv, [Next]_vars
               PROVE  Inv'
    OBVIOUS
  <2>1. features' = features /\ MachinesOK'
    BY FeaturesKept, MachinesStep
  <2>2. GroupHandshakeAlone' = GroupHandshakeAlone
    BY <2>1 DEF GroupHandshakeAlone
  <2>3. GroupHandshakeAlone => \A s \in STA : Retried(sm'[s])
    BY NextKept DEF RetriedInv
  <2> QED BY <2>1, <2>2, <2>3 DEF RetriedInv
<1>3. Inv => MarkedStationIsRetried
  BY DEF RetriedInv, Retried, MarkedStationIsRetried, MarkedStations
<1> QED BY <1>1, <1>2, <1>3, PTL DEF Spec

\* Whenever no GTK handshake is outstanding, every established, awake station
\* has acknowledged GTK[GN], and the AP transmits with that GTK unless the driver
\* may have refused a key of TKIP countermeasures: wpa_group_setkeysdone() never
\* leaves a station behind, whatever joins, timeouts, removals, PTK rekeys and
\* driver failures happen in between.
THEOREM EstablishedHaveTxGtk == Spec => []EstablishedStationsHaveTxGtk
<1> DEFINE Quiet == {"overlap", "wnmsleep"} \cap features = {}
           Inv == Quiet => GtkInv
<1>1. Init => Inv
  BY InitKept
<1>2. Inv /\ [Next]_vars => Inv'
  <2> SUFFICES ASSUME Inv, [Next]_vars, Quiet'
               PROVE  GtkInv'
    OBVIOUS
  <2>1. Quiet
    BY FeaturesKept
  <2> QED BY <2>1, NextGtkInv
<1>3. Inv => EstablishedStationsHaveTxGtk
  BY DEF GtkInv, GtkOK, Installed, EstablishedStationsHaveTxGtk, MarkedStations, Counted
<1> QED BY <1>1, <1>2, <1>3, PTL DEF Spec

=============================================================================
