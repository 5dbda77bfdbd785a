---------------------------- MODULE SaQuery_proof ----------------------------
(***************************************************************************)
(* Proofs about SaQuery for any timeouts, keys, identifiers and budgets.   *)
(***************************************************************************)
EXTENDS SaQuery, TLAPS

\* Only associations with management frame protection are accepted, so one that
\* is there must be queried until the query has timed out.
Negotiated == ap.resp \/ ap.assoc => ap.mfp

\* Refusals are counted while the station asks.
OnlyAsking == sta.state # "asking" => sta.rejects = 0

\* The query that refused the station is still pending unless it has timed out,
\* and when the comeback time is over it will have run for MaxTimeout after the
\* first refusal and for longer after the second.
WaitsLongEnough ==
    sta.rejects > 0 /\ MustQuery(ap) =>
        /\ Pending(ap.query)
        /\ ap.query.age + sta.wait >= MaxTimeout + sta.rejects - 1

ComeInv == TypeOK /\ Negotiated /\ OnlyAsking /\ WaitsLongEnough /\ ComebackSuffices

(***************************************************************************)
(* What the operators on a query return.                                   *)
(***************************************************************************)

\* No query.
LEMMA NoQueryType == NoQuery \in Queries /\ ~Pending(NoQuery)
BY TimeoutAssumption DEF NoQuery, Queries, Ages, Timers, NoTimer, Pending

\* Stopping one.
LEMMA StoppedType ==
    ASSUME NEW q
    PROVE  Stopped(q) \in Queries /\ ~Pending(Stopped(q))
BY NoQueryType DEF Stopped

\* Another request keeps the age of a query that is pending.
LEMMA NextRequestType ==
    ASSUME NEW q \in Queries, NEW id \in Ids
    PROVE  /\ NextRequest(q, id) \in Queries
           /\ Pending(NextRequest(q, id))
           /\ NextRequest(q, id).age = IF Pending(q) THEN q.age ELSE 0
<1>1. /\ q.ids \cup {id} \in SUBSET Ids /\ RetryTimeout \in Timers
      /\ (IF Pending(q) THEN q.age ELSE 0) \in Ages
      /\ (q.carried /\ Pending(q)) \in BOOLEAN
  BY TimeoutAssumption DEF Queries, Ages, Timers, NoTimer
<1> QED BY <1>1, Zenon DEF NextRequest, Queries, Pending

\* Only the history of a query changes.
LEMMA CarriedType ==
    ASSUME NEW q \in Queries
    PROVE  Carried(q) \in Queries /\ Carried(q).ids = q.ids /\ Carried(q).age = q.age
<1>1. (Pending(q) \/ q.carried) \in BOOLEAN
  BY DEF Queries
<1> QED BY <1>1, Zenon DEF Carried, Queries

\* A tick adds to the age of a pending query that has not timed out.
LEMMA OlderType ==
    ASSUME NEW q \in Queries, q.timer # 0
    PROVE  /\ Older(q) \in Queries /\ Older(q).ids = q.ids
           /\ Older(q).age = IF Pending(q) /\ ~TimedOut(q) THEN q.age + 1 ELSE q.age
<1>1. /\ (IF Pending(q) /\ ~TimedOut(q) THEN q.age + 1 ELSE q.age) \in Ages
      /\ (IF q.timer = NoTimer THEN q.timer ELSE q.timer - 1) \in Timers
  BY TimeoutAssumption DEF Queries, Ages, Timers, NoTimer, TimedOut
<1> QED BY <1>1, Zenon DEF Older, Queries

\* hostapd_eid_assoc_comeback_time(): the rest of the query, and another unit if
\* part of it is over.
LEMMA ComebackTimeOK ==
    ASSUME NEW age \in Ages
    PROVE  /\ ComebackTime(age) \in 0 .. MaxTimeout
           /\ age + ComebackTime(age) >= MaxTimeout
           /\ age = MaxTimeout => ComebackTime(age) = 1
BY TimeoutAssumption DEF ComebackTime, Ages

\* Frames that go out protected.
LEMMA ProtectedType ==
    ASSUME NEW to \in {"ap", "sta"}, NEW kind \in {"request", "response"},
           NEW id \in Ids, NEW key \in Keys \cup {NoKey}
    PROVE  Protected(to, kind, id, key) \subseteq Frames
BY DEF Protected, Frames

(***************************************************************************)
(* Records of the two ends.                                                *)
(***************************************************************************)

\* What ComeInv says of a pair of records.
Good(r, s) ==
    /\ r \in ApType /\ s \in StaType
    /\ r.resp \/ r.assoc => r.mfp
    /\ s.state # "asking" => s.rejects = 0
    /\ s.rejects > 0 /\ MustQuery(r) =>
         Pending(r.query) /\ r.query.age + s.wait >= MaxTimeout + s.rejects - 1
    /\ s.rejects <= 2

\* ComeInv in terms of the two records.
LEMMA ComeInvGood ==
    ComeInv <=> Good(ap, sta) /\ net \subseteq Frames /\ env \in EnvType
BY DEF ComeInv, Good, TypeOK, Negotiated, OnlyAsking, WaitsLongEnough, ComebackSuffices

\* The rest of the state is well typed after any step that adds frames and
\* spends some of the budget.
LEMMA SpendType ==
    ASSUME env \in EnvType, NEW what \in {"faults", "strays", "drops", "oom"}, Spend(what)
    PROVE  env' \in EnvType
BY DEF Spend, EnvType

\* The record of a station the AP does not know.
LEMMA NewStaGood ==
    ASSUME NEW r, NEW s, Good(r, s)
    PROVE  Good(NewSta, s)
<1>1. NewSta \in ApType /\ ~NewSta.assoc /\ ~NewSta.resp
  BY NoQueryType DEF NewSta, ApType
<1> QED BY <1>1 DEF Good, MustQuery

\* A station that asks for nothing.
LEMMA IdleGood ==
    ASSUME NEW r, NEW s, Good(r, s), NEW u \in StaType, u.rejects = 0
    PROVE  Good(r, u)
BY DEF Good

\* A record of the AP that must be queried only if it had to be before, by a
\* query that is as old.
LEMMA ApGood ==
    ASSUME NEW r, NEW s, Good(r, s), NEW q \in ApType,
           q.resp \/ q.assoc => q.mfp,
           MustQuery(q) => /\ MustQuery(r)
                           /\ Pending(r.query) => Pending(q.query)
                           /\ Pending(r.query) => q.query.age = r.query.age
    PROVE  Good(q, s)
BY DEF Good

\* What AP and station have after a step of the invariant.
Kept == Good(ap', sta') /\ net' \subseteq Frames /\ env' \in EnvType

\* That is the invariant again.
LEMMA KeptComeInv ==
    ASSUME Kept
    PROVE  ComeInv'
BY DEF Kept, Good, ComeInv, TypeOK, Negotiated, OnlyAsking, WaitsLongEnough,
   ComebackSuffices, MustQuery, Pending

\* The query has timed out: the station need not be queried any more.
LEMMA ApTimedOutGood ==
    ASSUME NEW r, NEW s, Good(r, s)
    PROVE  Good(ApTimedOut(r), s) /\ ~MustQuery(ApTimedOut(r))
<1> DEFINE st == Stopped(r.query)
           c == r.query.carried \/ r.key = NoKey
           qu == [st EXCEPT !.carried = c]
           q == ApTimedOut(r)
<1>1. r \in ApType /\ r.query \in Queries /\ st \in Queries /\ c \in BOOLEAN
  BY StoppedType DEF Good, ApType, Queries
<1> HIDE DEF st, c
<1>2. qu \in Queries
  BY <1>1, Zenon DEF Queries
<1>3. q = [r EXCEPT !.timed_out = TRUE, !.query = qu]
  BY <1>1 DEF ApTimedOut, st, c
<1> HIDE DEF qu, q
<1>4. q \in ApType
  BY <1>1, <1>2, <1>3, Zenon DEF ApType
<1>5. /\ q.timed_out = TRUE /\ q.resp = r.resp /\ q.assoc = r.assoc /\ q.mfp = r.mfp
  BY <1>1, <1>3, Zenon DEF ApType
<1>6. ~MustQuery(q)
  BY <1>5 DEF MustQuery
<1> QED BY <1>4, <1>5, <1>6, ApGood DEF Good, q

\* ap_sa_query_timer(), when the query goes on: of a record r for which the
\* invariant holds.
LEMMA ApSendRequestGood ==
    ASSUME net \subseteq Frames, NEW r, NEW s, Good(r, s), ApSendRequest(r)
    PROVE  /\ Good(ap', s) /\ net' \subseteq Frames
           /\ Pending(ap'.query)
           /\ ap'.query.age = IF Pending(r.query) THEN r.query.age ELSE 0
           /\ MustQuery(ap') = MustQuery(r)
<1>1. PICK id \in Ids : /\ ap' = [r EXCEPT !.query = NextRequest(@, id)]
                        /\ net' = net \cup Protected("sta", "request", id, r.key)
  BY DEF ApSendRequest
<1>2. r \in ApType /\ r.query \in Queries /\ r.key \in Keys \cup {NoKey}
  BY DEF Good, ApType
<1> DEFINE qu == NextRequest(r.query, id)
<1>3. /\ qu \in Queries /\ Pending(qu)
      /\ qu.age = IF Pending(r.query) THEN r.query.age ELSE 0
  BY <1>2, NextRequestType
<1>4. ap' = [r EXCEPT !.query = qu]
  BY <1>1
<1> HIDE DEF qu
<1>5. ap' \in ApType
  BY <1>2, <1>3, <1>4, Zenon DEF ApType
<1>6. /\ ap'.query = qu /\ ap'.resp = r.resp /\ ap'.assoc = r.assoc
      /\ ap'.mfp = r.mfp /\ ap'.timed_out = r.timed_out
  BY <1>2, <1>4, Zenon DEF ApType
<1>7. MustQuery(ap') = MustQuery(r)
  BY <1>6 DEF MustQuery
<1>8. Good(ap', s)
  <2> DEFINE q == ap'
  <2> HIDE DEF q
  <2>1. Good(q, s)
    BY <1>3, <1>5, <1>6, <1>7, ApGood DEF Good, q
  <2> QED BY <2>1 DEF q
<1>9. net' \subseteq Frames
  BY <1>1, <1>2, ProtectedType
<1> QED BY <1>3, <1>6, <1>7, <1>8, <1>9

\* Its allocation failure.
LEMMA ApNoMemoryGood ==
    ASSUME env \in EnvType, NEW r, NEW s, Good(r, s), ApNoMemory(r)
    PROVE  /\ Good(ap', s) /\ net' = net /\ env' \in EnvType
           /\ ap'.query.ids = r.query.ids /\ MustQuery(ap') = MustQuery(r)
<1>1. Spend("oom") /\ ap' = [r EXCEPT !.query.timer = NoTimer] /\ net' = net
  BY DEF ApNoMemory
<1> DEFINE qu == [r.query EXCEPT !.timer = NoTimer]
<1>2. r \in ApType /\ r.query \in Queries /\ NoTimer \in Timers
  BY TimeoutAssumption DEF Good, ApType, Timers, NoTimer
<1>3. qu \in Queries /\ qu.ids = r.query.ids /\ qu.age = r.query.age
  BY <1>2, Zenon DEF Queries
<1>4. ap' = [r EXCEPT !.query = qu]
  BY <1>1
<1> HIDE DEF qu
<1>5. ap' \in ApType
  BY <1>2, <1>3, <1>4, Zenon DEF ApType
<1>6. /\ ap'.query = qu /\ ap'.resp = r.resp /\ ap'.assoc = r.assoc
      /\ ap'.mfp = r.mfp /\ ap'.timed_out = r.timed_out
  BY <1>2, <1>4, Zenon DEF ApType
<1>7. MustQuery(ap') = MustQuery(r)
  BY <1>6 DEF MustQuery
<1>8. Good(ap', s)
  <2> DEFINE q == ap'
  <2> HIDE DEF q
  <2>1. Good(q, s)
    BY <1>3, <1>5, <1>6, <1>7, ApGood DEF Good, q, Pending
  <2> QED BY <2>1 DEF q
<1> QED BY <1>1, <1>3, <1>6, <1>7, <1>8, SpendType

\* The query timer of the AP.
LEMMA ApQueryTimerKept ==
    ASSUME ComeInv, ApQueryTimer
    PROVE  Kept
<1>1. Good(ap, sta) /\ net \subseteq Frames /\ env \in EnvType /\ sta' = sta
  BY ComeInvGood DEF ApQueryTimer
<1>2. CASE ap' = ApTimedOut(ap) /\ UNCHANGED <<net, env>>
  BY <1>1, <1>2, ApTimedOutGood DEF Kept
<1>3. CASE ApSendRequest(ap) /\ UNCHANGED env
  BY <1>1, <1>3, ApSendRequestGood DEF Kept
<1>4. CASE ApNoMemory(ap)
  BY <1>1, <1>4, ApNoMemoryGood DEF Kept
<1> QED BY <1>2, <1>3, <1>4 DEF ApQueryTimer

\* Who sends a frame.
LEMMA SentType ==
    ASSUME env \in EnvType, NEW own \in BOOLEAN, Sent(own)
    PROVE  env' \in EnvType /\ (own => sta.state = "asking")
BY SpendType DEF Sent

\* Authentication.
LEMMA HandleAuthKept ==
    ASSUME ComeInv, NEW own \in BOOLEAN, HandleAuth(own)
    PROVE  Kept
<1>1. /\ Good(ap, sta) /\ net \subseteq Frames /\ env \in EnvType /\ sta' = sta
      /\ net' = net /\ env' \in EnvType /\ ap' = [AuthReset(ap) EXCEPT !.auth = TRUE]
  BY ComeInvGood, SentType DEF HandleAuth
<1> DEFINE r == AuthReset(ap)
           q == [r EXCEPT !.auth = TRUE]
<1>2. ap \in ApType /\ NoKey \in Keys \cup {NoKey}
  BY <1>1 DEF Good
<1>3. /\ r \in ApType /\ r.resp = ap.resp /\ (r.assoc => ap.assoc) /\ r.mfp = ap.mfp
      /\ r.timed_out = ap.timed_out /\ r.query = ap.query
  <2> DEFINE x == [ap EXCEPT !.assoc = FALSE, !.authorized = FALSE, !.key = NoKey]
  <2>1. /\ x \in ApType /\ x.resp = ap.resp /\ x.assoc = FALSE /\ x.mfp = ap.mfp
        /\ x.timed_out = ap.timed_out /\ x.query = ap.query
    BY <1>2, Zenon DEF ApType
  <2>2. r = ap \/ r = x
    BY DEF AuthReset
  <2> QED BY <1>2, <2>1, <2>2
<1> HIDE DEF r
<1>4. /\ q \in ApType /\ q.resp = r.resp /\ q.assoc = r.assoc /\ q.mfp = r.mfp
      /\ q.timed_out = r.timed_out /\ q.query = r.query
  BY <1>3, Zenon DEF ApType
<1>5. ap' = q
  BY <1>1 DEF r
<1> HIDE DEF q
<1>6. Good(q, sta)
  BY <1>1, <1>3, <1>4, ApGood DEF Good, MustQuery
<1> QED BY <1>1, <1>5, <1>6 DEF Kept

\* The look at a pending query before its own timer runs.
LEMMA CheckedTimeoutGood ==
    ASSUME NEW r, NEW s, Good(r, s)
    PROVE  LET c == CheckedTimeout(r) IN
           /\ Good(c, s)
           /\ MustQuery(c) => c = r /\ ~(Pending(r.query) /\ TimedOut(r.query))
BY ApTimedOutGood DEF CheckedTimeout, MustQuery

\* What a refusal leaves the station with, by a query of the age a: two refusals
\* at most.
LEMMA RefusedGood ==
    ASSUME NEW r, NEW s, Good(r, s), MustQuery(r), s.state = "asking",
           Pending(r.query) => s.wait = 0 \/ s.rejects = 0,
           ~(Pending(r.query) /\ TimedOut(r.query)),
           NEW t \in Comeback(r.query)
    PROVE  Good(r, [s EXCEPT !.wait = t, !.rejects = Refused(@, r.query)])
<1> DEFINE u == [s EXCEPT !.wait = t, !.rejects = Refused(@, r.query)]
<1>1. /\ r \in ApType /\ s \in StaType /\ r.query \in Queries
      /\ s.rejects \in 0 .. 2 /\ s.wait \in 0 .. MaxTimeout
      /\ r.query.age \in Ages
  BY DEF Good, ApType, StaType, Queries, MaxRejects
<1>2. t \in 0 .. MaxTimeout
  BY <1>1, ComebackTimeOK DEF Comeback
<1>3. Refused(s.rejects, r.query) = IF Pending(r.query) THEN s.rejects + 1 ELSE s.rejects
  BY <1>1 DEF Refused, MaxRejects
<1>4. s.rejects > 0 =>
        Pending(r.query) /\ r.query.age + s.wait >= MaxTimeout + s.rejects - 1
  BY DEF Good
<1>5. s.rejects <= 1
  BY <1>1, <1>4, TimeoutAssumption DEF TimedOut, Ages
<1>6. Pending(r.query) => /\ t = ComebackTime(r.query.age)
                          /\ r.query.age + t >= MaxTimeout + s.rejects
  <2> SUFFICES ASSUME Pending(r.query)
               PROVE  /\ t = ComebackTime(r.query.age)
                      /\ r.query.age + t >= MaxTimeout + s.rejects
    OBVIOUS
  <2>1. t = ComebackTime(r.query.age)
    BY DEF Comeback
  <2>2. CASE s.rejects = 0
    BY <1>1, <2>1, <2>2, ComebackTimeOK, TimeoutAssumption
  <2>3. CASE s.rejects = 1
    <3>1. r.query.age = MaxTimeout
      BY <1>1, <1>4, <2>3, TimeoutAssumption DEF TimedOut, Ages
    <3>2. t = 1
      BY <1>1, <2>1, <3>1, ComebackTimeOK
    <3> QED BY <2>1, <2>3, <3>1, <3>2, TimeoutAssumption
  <2> QED BY <1>1, <1>5, <2>2, <2>3
<1>7. Refused(s.rejects, r.query) \in 0 .. MaxRejects
  BY <1>1, <1>3, <1>5 DEF MaxRejects
<1>8. u \in StaType
  BY <1>1, <1>2, <1>7, Zenon DEF StaType
<1>9. u.wait = t /\ u.rejects = Refused(s.rejects, r.query) /\ u.state = s.state
  BY <1>1, Zenon DEF StaType
<1> HIDE DEF u
<1>10. /\ u.rejects <= 2
       /\ u.rejects > 0 =>
            Pending(r.query) /\ r.query.age + u.wait >= MaxTimeout + u.rejects - 1
  <2>1. CASE Pending(r.query)
    <3>1. r.query.age \in Int /\ t \in Int /\ s.rejects \in Int /\ MaxTimeout \in Int
      BY <1>1, <1>2, TimeoutAssumption DEF Ages
    <3> QED BY <1>3, <1>5, <1>6, <1>9, <2>1, <3>1
  <2>2. CASE ~Pending(r.query)
    BY <1>1, <1>3, <1>4, <1>9, <2>2
  <2> QED BY <2>1, <2>2
<1>11. Good(r, u)
  BY <1>1, <1>8, <1>9, <1>10 DEF Good
<1> QED BY <1>11 DEF u

\* Association: the station is accepted, or refused once more.
LEMMA HandleAssocKept ==
    ASSUME ComeInv, NEW own \in BOOLEAN, HandleAssoc(own)
    PROVE  Kept
<1> DEFINE r == CheckedTimeout(ap)
<1>1. Good(ap, sta) /\ net \subseteq Frames /\ env \in EnvType
  BY ComeInvGood
<1>2. /\ Good(r, sta) /\ r \in ApType
      /\ MustQuery(r) => r = ap /\ ~(Pending(ap.query) /\ TimedOut(ap.query))
  BY <1>1, CheckedTimeoutGood DEF Good
<1>3. own => sta.wait = 0
  BY DEF HandleAssoc
<1>4. \/ ~MustQuery(r) /\ Sent(own) /\ ap' = Accepted(r) /\ UNCHANGED <<sta, net>>
      \/ /\ MustQuery(r)
         /\ \/ Sent(own) /\ Pending(r.query) /\ ap' = r /\ UNCHANGED net
            \/ Sent(own) /\ ~Pending(r.query) /\ ApSendRequest(r)
            \/ own /\ sta.state = "asking" /\ ~Pending(r.query) /\ ApNoMemory(r)
         /\ IF own
            THEN \E t \in Comeback(ap'.query) :
                   sta' = [sta EXCEPT !.wait = t, !.rejects = Refused(@, ap'.query)]
            ELSE UNCHANGED sta
  BY DEF HandleAssoc
<1> HIDE DEF r
<1>5. CASE ~MustQuery(r) /\ Sent(own) /\ ap' = Accepted(r) /\ UNCHANGED <<sta, net>>
  <2> DEFINE q == Accepted(r)
  <2>1. /\ q \in ApType /\ q.mfp = TRUE /\ q.assoc = r.assoc
        /\ q.timed_out = r.timed_out
    <3>1. NoKey \in Keys \cup {NoKey}
      OBVIOUS
    <3> QED BY <1>2, <3>1, Zenon DEF Accepted, ApType
  <2>2. ~MustQuery(q)
    BY <1>2, <1>5, <2>1 DEF MustQuery, Good
  <2> HIDE DEF q
  <2>3. Good(q, sta)
    BY <1>2, <2>1, <2>2, ApGood
  <2> QED BY <1>1, <1>5, <2>3, SentType DEF Kept, q
<1>6. CASE /\ MustQuery(r)
           /\ \/ Sent(own) /\ Pending(r.query) /\ ap' = r /\ UNCHANGED net
              \/ Sent(own) /\ ~Pending(r.query) /\ ApSendRequest(r)
              \/ own /\ sta.state = "asking" /\ ~Pending(r.query) /\ ApNoMemory(r)
           /\ IF own
              THEN \E t \in Comeback(ap'.query) :
                     sta' = [sta EXCEPT !.wait = t, !.rejects = Refused(@, ap'.query)]
              ELSE UNCHANGED sta
  <2> DEFINE q == ap'
  <2>1. /\ Good(q, sta) /\ net' \subseteq Frames /\ env' \in EnvType /\ MustQuery(q)
        /\ own => sta.state = "asking"
        /\ ~(Pending(q.query) /\ TimedOut(q.query))
        /\ Pending(q.query) => (own => sta.wait = 0) \/ sta.rejects = 0
    <3>1. CASE Sent(own) /\ Pending(r.query) /\ ap' = r /\ UNCHANGED net
      BY <1>1, <1>2, <1>3, <1>6, <3>1, SentType
    <3>2. CASE Sent(own) /\ ~Pending(r.query) /\ ApSendRequest(r)
      <4>1. /\ Good(ap', sta) /\ net' \subseteq Frames /\ ap'.query.age = 0
            /\ MustQuery(ap') = MustQuery(r)
        BY <1>1, <1>2, <3>2, ApSendRequestGood
      <4>2. ~TimedOut(ap'.query)
        BY <4>1, TimeoutAssumption DEF TimedOut
      <4> QED BY <1>1, <1>3, <1>6, <3>2, <4>1, <4>2, SentType
    <3>3. CASE own /\ sta.state = "asking" /\ ~Pending(r.query) /\ ApNoMemory(r)
      <4>1. /\ Good(ap', sta) /\ net' = net /\ env' \in EnvType
            /\ ap'.query.ids = r.query.ids /\ MustQuery(ap') = MustQuery(r)
        BY <1>1, <1>2, <3>3, ApNoMemoryGood
      <4>2. ~Pending(ap'.query)
        BY <3>3, <4>1 DEF Pending
      <4> QED BY <1>1, <1>6, <3>3, <4>1, <4>2
    <3> QED BY <1>6, <3>1, <3>2, <3>3
  <2>2. CASE own
    <3>1. PICK t \in Comeback(ap'.query) :
            sta' = [sta EXCEPT !.wait = t, !.rejects = Refused(@, ap'.query)]
      BY <1>6, <2>2
    <3>2. /\ t \in Comeback(q.query)
          /\ sta' = [sta EXCEPT !.wait = t, !.rejects = Refused(@, q.query)]
      BY <3>1
    <3> HIDE DEF q
    <3>3. Good(q, sta')
      BY <2>1, <2>2, <3>2, RefusedGood
    <3> QED BY <2>1, <3>3 DEF Kept, q
  <2>3. CASE ~own
    BY <1>6, <2>1, <2>3 DEF Kept
  <2> QED BY <2>2, <2>3
<1> QED BY <1>4, <1>5, <1>6

\* The TX status of the response: an association begins with no refusal.
LEMMA HandleAssocCbKept ==
    ASSUME ComeInv, NEW ok \in BOOLEAN, HandleAssocCb(ok)
    PROVE  Kept
<1>1. /\ Good(ap, sta) /\ net \subseteq Frames /\ env \in EnvType /\ net' = net
      /\ ap.resp /\ ap.mfp
      /\ ap \in ApType /\ sta \in StaType /\ ap.query \in Queries
      /\ NoKey \in Keys \cup {NoKey} /\ 0 \in 0 .. MaxTimeout /\ 0 \in 0 .. MaxRejects
  BY ComeInvGood, TimeoutAssumption DEF HandleAssocCb, Good, ApType, MaxRejects
<1> DEFINE qc(c) == [ap.query EXCEPT !.carried = c]
<1>2. \A c \in BOOLEAN : qc(c) \in Queries /\ qc(c).ids = ap.query.ids
                         /\ qc(c).age = ap.query.age
  BY <1>1, Zenon DEF Queries
<1>3. CASE ok
  <2> DEFINE c == ap.query.carried /\ Pending(ap.query)
             q == [ap EXCEPT !.resp = FALSE, !.assoc = TRUE, !.timed_out = FALSE,
                             !.query = qc(c)]
             j == [sta EXCEPT !.state = "joined", !.wait = 0, !.rejects = 0]
  <2>1. ap' = q
    BY <1>3 DEF HandleAssocCb
  <2>2. env' = env /\ sta' = IF sta.state = "asking" THEN j ELSE sta
    BY <1>3 DEF HandleAssocCb
  <2>3. qc(c) \in Queries
    BY <1>2
  <2> HIDE DEF qc
  <2>4. q \in ApType /\ q.mfp = ap.mfp
    BY <1>1, <2>3, Zenon DEF ApType
  <2>5. j \in StaType /\ j.rejects = 0
    BY <1>1, Zenon DEF StaType
  <2> HIDE DEF q, j
  <2>6. sta' \in StaType /\ sta'.rejects = 0
    BY <1>1, <2>2, <2>5 DEF Good
  <2>7. Good(q, sta')
    BY <1>1, <2>4, <2>6 DEF Good
  <2> QED BY <1>1, <2>1, <2>2, <2>7 DEF Kept
<1>4. CASE ~ok
  <2> DEFINE c == ap.query.carried \/ ap.timed_out
             q == [ap EXCEPT !.resp = FALSE, !.key = NoKey, !.query = qc(c)]
  <2>1. ap' = q
    BY <1>4 DEF HandleAssocCb
  <2>2. Spend("drops") /\ sta' = sta
    BY <1>4 DEF HandleAssocCb
  <2>3. qc(c) \in Queries /\ qc(c).ids = ap.query.ids /\ qc(c).age = ap.query.age
    <3>1. c \in BOOLEAN
      BY <1>1 DEF ApType, Queries
    <3> QED BY <1>2, <3>1
  <2> HIDE DEF qc
  <2>4. /\ q \in ApType /\ q.mfp = ap.mfp /\ q.assoc = ap.assoc
        /\ q.timed_out = ap.timed_out /\ q.query = qc(c)
    BY <1>1, <2>3, Zenon DEF ApType
  <2> HIDE DEF q
  <2>5. Good(q, sta)
    BY <1>1, <2>3, <2>4, ApGood DEF MustQuery, Pending
  <2> QED BY <1>1, <2>1, <2>2, <2>5, SpendType DEF Kept
<1> QED BY <1>3, <1>4

\* The 4-way handshake.
LEMMA KeyHandshakeKept ==
    ASSUME ComeInv, KeyHandshake
    PROVE  Kept
<1>1. /\ Good(ap, sta) /\ net \subseteq Frames /\ env \in EnvType
      /\ net' = net /\ env' = env
      /\ ap \in ApType /\ sta \in StaType /\ ap.query \in Queries /\ sta.query \in Queries
      /\ sta.rejects = 0
  BY ComeInvGood DEF KeyHandshake, Good, ApType, StaType
<1>2. PICK k \in FreshKeys :
        /\ ap' = [ap EXCEPT !.key = k, !.authorized = TRUE, !.query = Carried(@)]
        /\ sta' = [sta EXCEPT !.key = k, !.state = "completed", !.query = Carried(@)]
  BY DEF KeyHandshake
<1>3. k \in Keys \cup {NoKey}
  BY <1>2 DEF FreshKeys
<1> DEFINE qa == Carried(ap.query)
           qs == Carried(sta.query)
           q == [ap EXCEPT !.key = k, !.authorized = TRUE, !.query = qa]
           u == [sta EXCEPT !.key = k, !.state = "completed", !.query = qs]
<1>4. qa \in Queries /\ qs \in Queries
  BY <1>1, CarriedType
<1>5. ap' = q /\ sta' = u
  BY <1>2
<1> HIDE DEF qa, qs
<1>6. /\ q \in ApType /\ q.mfp = ap.mfp /\ q.assoc = ap.assoc /\ q.resp = ap.resp
  BY <1>1, <1>3, <1>4, Zenon DEF ApType
<1>7. u \in StaType /\ u.rejects = sta.rejects
  BY <1>1, <1>3, <1>4, Zenon DEF StaType
<1> HIDE DEF q, u
<1>8. Good(q, u)
  BY <1>1, <1>6, <1>7 DEF Good
<1> QED BY <1>1, <1>5, <1>8 DEF Kept

\* The AP forgets the station.
LEMMA ApForgetsKept ==
    ASSUME ComeInv, HandshakeTimeout \/ ApDrops
    PROVE  Kept
<1>1. Good(ap, sta) /\ net \subseteq Frames /\ env \in EnvType
  BY ComeInvGood
<1>2. ap' = NewSta /\ sta' = sta /\ net' = net /\ (env' = env \/ Spend("drops"))
  BY DEF HandshakeTimeout, ApDrops
<1> QED BY <1>1, <1>2, NewStaGood, SpendType DEF Kept

\* SA Query frames at the AP: an answer ends the query and the refusals.
LEMMA ApRxKept ==
    ASSUME ComeInv, NEW f \in net, ApRx(f)
    PROVE  Kept
<1>1. /\ Good(ap, sta) /\ net \subseteq Frames /\ env \in EnvType /\ env' = env
      /\ ap \in ApType /\ sta \in StaType /\ ap.key \in Keys \cup {NoKey} /\ f.id \in Ids
  BY ComeInvGood DEF ApRx, Good, ApType, Frames
<1>2. CASE /\ net' = (net \ {f}) \cup Protected("sta", "response", f.id, ap.key)
           /\ UNCHANGED <<ap, sta>>
  BY <1>1, <1>2, ProtectedType DEF Kept
<1>3. CASE /\ ap' = [ap EXCEPT !.query = Stopped(@)]
           /\ sta' = [sta EXCEPT !.rejects = 0]
           /\ net' = net \ {f}
  <2> DEFINE st == Stopped(ap.query)
             q == [ap EXCEPT !.query = st]
             u == [sta EXCEPT !.rejects = 0]
  <2>1. st \in Queries /\ 0 \in 0 .. MaxRejects
    BY StoppedType DEF MaxRejects
  <2>2. ap' = q /\ sta' = u
    BY <1>3
  <2> HIDE DEF st
  <2>3. q \in ApType /\ q.mfp = ap.mfp /\ q.assoc = ap.assoc /\ q.resp = ap.resp
    BY <1>1, <2>1, Zenon DEF ApType
  <2>4. u \in StaType /\ u.rejects = 0
    BY <1>1, <2>1, Zenon DEF StaType
  <2> HIDE DEF q, u
  <2>5. Good(q, u)
    BY <1>1, <2>3, <2>4 DEF Good
  <2> QED BY <1>1, <1>3, <2>2, <2>5 DEF Kept
<1>4. CASE net' = net \ {f} /\ UNCHANGED <<ap, sta>>
  BY <1>1, <1>4 DEF Kept
<1> QED BY <1>2, <1>3, <1>4 DEF ApRx

(***************************************************************************)
(* The station.                                                            *)
(***************************************************************************)

\* A station of which only the query and the quiet time have changed.
LEMMA SameAskingGood ==
    ASSUME NEW r, NEW s, Good(r, s), NEW u \in StaType,
           u.state = s.state, u.wait = s.wait, u.rejects = s.rejects
    PROVE  Good(r, u)
BY DEF Good

\* After a disassociation the station has been refused by nobody.
LEMMA GoneType ==
    ASSUME NEW s \in StaType
    PROVE  Gone(s) \in StaType /\ Gone(s).rejects = 0
<1>1. NoKey \in Keys \cup {NoKey} /\ 0 \in 0 .. MaxTimeout /\ 0 \in 0 .. MaxRejects
  BY TimeoutAssumption DEF MaxRejects
<1> QED BY <1>1, Zenon DEF Gone, StaType

\* The AP hears the Deauthentication frame or not.
LEMMA HearsDeauthGood ==
    ASSUME NEW s, Good(ap, s), ApHearsDeauth
    PROVE  Good(ap', s)
BY NewStaGood DEF ApHearsDeauth

\* A station that begins to ask, or gives up.
LEMMA StaAsksKept ==
    ASSUME ComeInv, StaAsks \/ StaGivesUp
    PROVE  Kept
<1>1. /\ Good(ap, sta) /\ net \subseteq Frames /\ env \in EnvType /\ sta \in StaType
      /\ ap' = ap /\ net' = net /\ env' = env
  BY ComeInvGood DEF Good, StaAsks, StaGivesUp
<1>2. CASE StaAsks
  <2> DEFINE u == [sta EXCEPT !.state = "asking"]
  <2>1. u \in StaType /\ u.rejects = sta.rejects
    BY <1>1, Zenon DEF StaType
  <2>2. sta' = u /\ sta.rejects = 0
    BY <1>1, <1>2 DEF StaAsks, Good
  <2> HIDE DEF u
  <2>3. Good(ap, u)
    BY <1>1, <2>1, <2>2, IdleGood
  <2> QED BY <1>1, <2>2, <2>3 DEF Kept
<1>3. CASE StaGivesUp
  <2>1. sta' = Gone(sta)
    BY <1>3 DEF StaGivesUp
  <2> QED BY <1>1, <2>1, GoneType, IdleGood DEF Kept
<1> QED BY <1>2, <1>3

\* A station that leaves.
LEMMA StaLeavesKept ==
    ASSUME ComeInv, StaDisassociates \/ StaDeauthenticates
    PROVE  Kept
<1>1. /\ Good(ap, sta) /\ net \subseteq Frames /\ env \in EnvType
      /\ sta \in StaType /\ ap \in ApType
      /\ sta' = Gone(sta) /\ net' = net /\ env' = env
  BY ComeInvGood DEF Good, StaDisassociates, StaDeauthenticates
<1>2. Good(ap, sta')
  BY <1>1, GoneType, IdleGood
<1>3. CASE StaDisassociates
  <2> DEFINE q == Disassociated(ap)
  <2>1. NoKey \in Keys \cup {NoKey}
    OBVIOUS
  <2>2. q \in ApType /\ q.assoc = FALSE /\ q.resp = ap.resp /\ q.mfp = ap.mfp
    BY <1>1, <2>1, Zenon DEF Disassociated, ApType
  <2> HIDE DEF q
  <2>3. Good(q, sta')
    BY <1>2, <2>2, ApGood DEF Good, MustQuery
  <2>4. ap' = ap \/ ap' = q
    BY <1>3 DEF StaDisassociates, q
  <2> QED BY <1>1, <1>2, <2>3, <2>4 DEF Kept
<1>4. CASE StaDeauthenticates
  BY <1>1, <1>2, <1>4, NewStaGood DEF StaDeauthenticates, ApHearsDeauth, Kept
<1> QED BY <1>3, <1>4

\* A station that restarts.
LEMMA StaRestartsKept ==
    ASSUME ComeInv, StaRestarts
    PROVE  Kept
<1>1. /\ Good(ap, sta) /\ net \subseteq Frames /\ env \in EnvType
      /\ sta' = NewSupplicant /\ net' = net /\ ap' = ap
      /\ (env' = env \/ Spend("drops"))
  BY ComeInvGood DEF StaRestarts
<1>2. NewSupplicant \in StaType /\ NewSupplicant.rejects = 0
  BY TimeoutAssumption, NoQueryType DEF NewSupplicant, StaType, MaxRejects
<1> QED BY <1>1, <1>2, IdleGood, SpendType DEF Kept

\* A query of the station, sent or given up.
LEMMA StaQueryGood ==
    ASSUME NEW r, NEW s, Good(r, s), NEW qu \in Queries
    PROVE  Good(r, [s EXCEPT !.query = qu])
<1> DEFINE u == [s EXCEPT !.query = qu]
<1>1. s \in StaType
  BY DEF Good
<1>2. u \in StaType /\ u.state = s.state /\ u.wait = s.wait /\ u.rejects = s.rejects
  BY <1>1, Zenon DEF StaType
<1> HIDE DEF u
<1>3. Good(r, u)
  BY <1>2, SameAskingGood
<1> QED BY <1>3 DEF u

\* The query timer of the station.
LEMMA StaQueryTimerKept ==
    ASSUME ComeInv, StaQueryTimer
    PROVE  Kept
<1>1. /\ Good(ap, sta) /\ net \subseteq Frames /\ env \in EnvType
      /\ sta \in StaType /\ sta.query \in Queries /\ sta.key \in Keys \cup {NoKey}
  BY ComeInvGood DEF Good, StaType
<1>2. CASE /\ sta' = [Gone(sta) EXCEPT !.query = Stopped(@)]
           /\ ApHearsDeauth /\ UNCHANGED <<net, env>>
  <2>1. Good(ap, Gone(sta))
    BY <1>1, GoneType, IdleGood
  <2>2. Good(ap, sta')
    BY <1>2, <2>1, StoppedType, StaQueryGood
  <2> QED BY <1>1, <1>2, <2>2, NewStaGood DEF Kept, ApHearsDeauth
<1>3. CASE StaSendRequest(sta) /\ UNCHANGED ap
  <2>1. CASE \E id \in Ids :
               /\ sta' = [sta EXCEPT !.query = NextRequest(@, id)]
               /\ net' = net \cup Protected("ap", "request", id, sta.key)
               /\ UNCHANGED env
    <3>1. PICK id \in Ids :
            /\ sta' = [sta EXCEPT !.query = NextRequest(@, id)]
            /\ net' = net \cup Protected("ap", "request", id, sta.key)
            /\ UNCHANGED env
      BY <2>1
    <3>2. Good(ap, sta')
      BY <1>1, <3>1, NextRequestType, StaQueryGood
    <3> QED BY <1>1, <1>3, <3>1, <3>2, ProtectedType DEF Kept
  <2>2. CASE Spend("oom") /\ sta' = [sta EXCEPT !.query = Stopped(@)] /\ UNCHANGED net
    BY <1>1, <1>3, <2>2, StoppedType, StaQueryGood, SpendType DEF Kept
  <2> QED BY <1>3, <2>1, <2>2 DEF StaSendRequest
<1> QED BY <1>2, <1>3 DEF StaQueryTimer

\* A Deauthentication frame without protection starts a query.
LEMMA StaUnprotDisconnectKept ==
    ASSUME ComeInv, StaUnprotDisconnect
    PROVE  Kept
<1>1. /\ Good(ap, sta) /\ net \subseteq Frames /\ env \in EnvType
      /\ sta \in StaType /\ ap' = ap
  BY ComeInvGood DEF Good, StaUnprotDisconnect
<1> DEFINE s == [sta EXCEPT !.quiet = UnprotLimit]
<1>2. UnprotLimit \in 0 .. UnprotLimit
  BY TimeoutAssumption
<1>3. s \in StaType /\ s.state = sta.state /\ s.wait = sta.wait /\ s.rejects = sta.rejects
  BY <1>1, <1>2, Zenon DEF StaType
<1>4. \/ /\ \E id \in Ids :
              /\ sta' = [s EXCEPT !.query = NextRequest(@, id)]
              /\ net' = net \cup Protected("ap", "request", id, s.key)
         /\ env' = env \/ Spend("strays")
      \/ Spend("oom") /\ sta' = s /\ net' = net
  BY DEF StaUnprotDisconnect
<1> HIDE DEF s
<1>5. Good(ap, s) /\ s.query \in Queries /\ s.key \in Keys \cup {NoKey}
  BY <1>1, <1>3, SameAskingGood DEF StaType
<1>6. CASE /\ \E id \in Ids :
                /\ sta' = [s EXCEPT !.query = NextRequest(@, id)]
                /\ net' = net \cup Protected("ap", "request", id, s.key)
           /\ env' = env \/ Spend("strays")
  <2>1. PICK id \in Ids :
          /\ sta' = [s EXCEPT !.query = NextRequest(@, id)]
          /\ net' = net \cup Protected("ap", "request", id, s.key)
    BY <1>6
  <2>2. Good(ap, sta')
    BY <1>5, <2>1, NextRequestType, StaQueryGood
  <2> QED BY <1>1, <1>5, <1>6, <2>1, <2>2, ProtectedType, SpendType DEF Kept
<1>7. CASE Spend("oom") /\ sta' = s /\ net' = net
  BY <1>1, <1>5, <1>7, SpendType DEF Kept
<1> QED BY <1>4, <1>6, <1>7

\* SA Query frames at the station.
LEMMA StaRxKept ==
    ASSUME ComeInv, NEW f \in net, StaRx(f)
    PROVE  Kept
<1>1. /\ Good(ap, sta) /\ net \subseteq Frames /\ env \in EnvType
      /\ ap' = ap /\ env' = env /\ sta \in StaType
      /\ sta.key \in Keys \cup {NoKey} /\ f.id \in Ids
  BY ComeInvGood DEF StaRx, Good, StaType, Frames
<1>2. CASE /\ net' = (net \ {f}) \cup Protected("ap", "response", f.id, sta.key)
           /\ UNCHANGED sta
  BY <1>1, <1>2, ProtectedType DEF Kept
<1>3. CASE sta' = [sta EXCEPT !.query = Stopped(@)] /\ net' = net \ {f}
  BY <1>1, <1>3, StoppedType, StaQueryGood DEF Kept
<1>4. CASE net' = net \ {f} /\ UNCHANGED sta
  BY <1>1, <1>4 DEF Kept
<1> QED BY <1>2, <1>3, <1>4 DEF StaRx

(***************************************************************************)
(* Time and the link.                                                      *)
(***************************************************************************)

\* A tick takes from the comeback time what it adds to the age of the query,
\* unless the query is older than MaxTimeout already.
LEMMA TickKept ==
    ASSUME ComeInv, Tick
    PROVE  Kept
<1>1. /\ Good(ap, sta) /\ net \subseteq Frames /\ env \in EnvType
      /\ ap \in ApType /\ sta \in StaType
      /\ ap.query \in Queries /\ sta.query \in Queries
      /\ net' = net /\ (env' = env \/ Spend("faults"))
      /\ ap.query.timer # 0 /\ sta.query.timer # 0
  BY ComeInvGood DEF Good, Tick, ApType, StaType
<1> DEFINE qa == Older(ap.query)
           qs == Older(sta.query)
           w == Less(sta.wait)
           l == Less(sta.quiet)
           r == [ap EXCEPT !.query = qa]
           u == [sta EXCEPT !.query = qs, !.quiet = l, !.wait = w]
<1>2. ap' = r /\ sta' = u
  BY DEF Tick
<1>3. /\ qa \in Queries /\ qs \in Queries /\ qa.ids = ap.query.ids
      /\ qa.age = IF Pending(ap.query) /\ ~TimedOut(ap.query)
                  THEN ap.query.age + 1 ELSE ap.query.age
  BY <1>1, OlderType
<1>4. /\ sta.wait \in 0 .. MaxTimeout /\ sta.quiet \in 0 .. UnprotLimit
      /\ sta.rejects \in 0 .. 3 /\ ap.query.age \in Ages
  BY <1>1 DEF StaType, Queries, MaxRejects
<1>5. w \in 0 .. MaxTimeout /\ w >= sta.wait - 1 /\ l \in 0 .. UnprotLimit
  BY <1>4, TimeoutAssumption DEF Less
<1> HIDE DEF qa, qs, w, l
<1>6. /\ r \in ApType /\ r.query = qa /\ r.resp = ap.resp /\ r.assoc = ap.assoc
      /\ r.mfp = ap.mfp /\ r.timed_out = ap.timed_out
  BY <1>1, <1>3, Zenon DEF ApType
<1>7. u \in StaType /\ u.state = sta.state /\ u.wait = w /\ u.rejects = sta.rejects
  BY <1>1, <1>3, <1>5, Zenon DEF StaType
<1> HIDE DEF r, u
<1>8. u.rejects > 0 /\ MustQuery(r) =>
        Pending(r.query) /\ r.query.age + u.wait >= MaxTimeout + u.rejects - 1
  <2> SUFFICES ASSUME u.rejects > 0, MustQuery(r)
               PROVE  Pending(r.query) /\ r.query.age + u.wait >= MaxTimeout + u.rejects - 1
    OBVIOUS
  <2>1. /\ Pending(ap.query) /\ sta.rejects <= 2
        /\ ap.query.age + sta.wait >= MaxTimeout + sta.rejects - 1
    BY <1>1, <1>6, <1>7 DEF Good, MustQuery
  <2>2. Pending(r.query)
    BY <1>3, <1>6, <2>1 DEF Pending
  <2>3. qa.age + w >= MaxTimeout + sta.rejects - 1
    <3>1. CASE TimedOut(ap.query)
      BY <1>3, <1>4, <1>5, <2>1, <3>1, TimeoutAssumption DEF TimedOut, Ages
    <3>2. CASE ~TimedOut(ap.query)
      <4>1. qa.age = ap.query.age + 1
        BY <1>3, <2>1, <3>2
      <4>2. /\ ap.query.age \in Int /\ sta.wait \in Int /\ w \in Int
            /\ MaxTimeout \in Int /\ sta.rejects \in Int
        BY <1>4, <1>5, TimeoutAssumption DEF Ages
      <4> QED BY <1>5, <2>1, <4>1, <4>2
    <3> QED BY <3>1, <3>2
  <2> QED BY <1>6, <1>7, <2>2, <2>3
<1>9. Good(r, u)
  BY <1>1, <1>6, <1>7, <1>8 DEF Good
<1> QED BY <1>1, <1>2, <1>9, SpendType DEF Kept

\* A lost frame.
LEMMA LoseKept ==
    ASSUME ComeInv, NEW f \in net, Lose(f)
    PROVE  Kept
BY ComeInvGood, SpendType DEF Lose, Kept

(***************************************************************************)
(* The theorems.                                                           *)
(***************************************************************************)

\* The invariant holds at first.
LEMMA ComeInit ==
    ASSUME Init
    PROVE  ComeInv
<1>1. ap = NewSta /\ sta = NewSupplicant /\ net = {} /\ env \in EnvType
  BY BudgetAssumption DEF Init
<1>2. NewSupplicant \in StaType /\ NewSupplicant.rejects = 0
  BY TimeoutAssumption, NoQueryType DEF NewSupplicant, StaType, MaxRejects
<1>3. NewSta \in ApType /\ ~NewSta.assoc /\ ~NewSta.resp
  BY NoQueryType DEF NewSta, ApType
<1>4. Good(ap, sta)
  BY <1>1, <1>2, <1>3 DEF Good
<1> QED BY <1>1, <1>4, ComeInvGood

\* Every step keeps it.
LEMMA ComeNext ==
    ASSUME ComeInv, [Next]_vars
    PROVE  ComeInv'
<1>1. CASE ApNext
  BY <1>1, ApQueryTimerKept, HandleAuthKept, HandleAssocKept, HandleAssocCbKept,
     KeyHandshakeKept, ApForgetsKept, ApRxKept, KeptComeInv DEF ApNext
<1>2. CASE StaNext
  BY <1>2, StaAsksKept, StaLeavesKept, StaRestartsKept, StaQueryTimerKept,
     StaUnprotDisconnectKept, StaRxKept, KeptComeInv DEF StaNext
<1>3. CASE Tick
  BY <1>3, TickKept, KeptComeInv
<1>4. CASE \E f \in net : Lose(f)
  BY <1>4, LoseKept, KeptComeInv
<1>5. CASE UNCHANGED vars
  BY <1>5 DEF vars, ComeInv, TypeOK, Negotiated, OnlyAsking, WaitsLongEnough,
     ComebackSuffices, MustQuery, Pending
<1> QED BY <1>1, <1>2, <1>3, <1>4, <1>5 DEF Next

\* The invariant of the SA Query of the AP.
LEMMA ComeAlways == Spec => []ComeInv
BY ComeInit, ComeNext, PTL DEF Spec

\* sta_info, the station, the frames and the budget keep their types.
THEOREM TypeCorrect == Spec => []TypeOK
<1>1. ComeInv => TypeOK
  BY DEF ComeInv
<1> QED BY <1>1, ComeAlways, PTL

\* hostapd_eid_assoc_comeback_time() is long enough for all timeouts: a station
\* that waits for it is refused by the same query twice at most.
THEOREM ComebackIsEnough == Spec => []ComebackSuffices
<1>1. ComeInv => ComebackSuffices
  BY DEF ComeInv
<1> QED BY <1>1, ComeAlways, PTL

(***************************************************************************)
(* Live associations.  A request that is not answered costs a fault: it or *)
(* its answer is lost, or late by a tick.  So while both ends share the    *)
(* PTK and the query began with it, its age is bounded by the faults spent *)
(* times RetryTimeout.                                                     *)
(***************************************************************************)

\* Fewer frames are lost or late than a query sends requests, the last of them
\* when MaxTimeout is over; a failed allocation, after which a query sends no
\* more, does not come on top.
RequestsOutnumberFaults ==
    \A b \in Budgets : /\ b.faults * RetryTimeout <= MaxTimeout
                       /\ b.faults = 0 \/ b.oom = 0

\* A request of the query or an answer to it is under way.
UnderWay(q, peer, own, key, n) ==
    \E id \in q.ids :
        \/ [to |-> peer, kind |-> "request", id |-> id, key |-> key] \in n
        \/ [to |-> own, kind |-> "response", id |-> id, key |-> key] \in n

\* The age of a query q is paid for with the faults spent of the budget b: it is
\* now, while a frame is under way, or it will be when the next request is due.
Paid(b, q, peer, own, key, n, e) ==
    LET spent == b.faults - e.faults
    IN \/ /\ UnderWay(q, peer, own, key, n)
          /\ q.age <= spent * RetryTimeout
          /\ q.timer >= 0 \/ b.faults = 0
       \/ /\ spent > 0 /\ q.timer >= 0
          /\ q.age + q.timer <= spent * RetryTimeout

\* SameKey of two records.
Shared(r, s) == s.key # NoKey /\ s.key = r.key

\* A PTK belongs to an association; an idle query has no age; and an outcome
\* that lets the next request in while the PTK is shared, or before a handshake
\* makes it so, comes from a query that is older than the PTK.
Outcome(r, s) ==
    /\ r.key # NoKey => r.assoc /\ r.mfp /\ r.authorized /\ ~r.resp
    /\ ~Pending(r.query) => r.query.age = 0
    /\ ~Pending(s.query) => s.query.age = 0
    /\ r.timed_out => ~Pending(r.query) /\ r.query.timer = NoTimer
    /\ r.timed_out /\ (Shared(r, s) \/ (r.key = NoKey /\ r.assoc /\ ~r.resp)) =>
         r.query.carried

ApPaid(b, r, s, n, e) ==
    Shared(r, s) /\ Pending(r.query) /\ ~r.query.carried =>
        Paid(b, r.query, "sta", "ap", r.key, n, e)

StaPaid(b, r, s, n, e) ==
    Shared(r, s) /\ Pending(s.query) /\ ~s.query.carried =>
        Paid(b, s.query, "ap", "sta", s.key, n, e)

Live(b, r, s, n, e) ==
    /\ e.faults <= b.faults /\ e.oom <= b.oom
    /\ Outcome(r, s)
    /\ ApPaid(b, r, s, n, e)
    /\ StaPaid(b, r, s, n, e)

LiveInv == ComeInv /\ \E b \in Budgets : Live(b, ap, sta, net, env)

\* Another fault pays for RetryTimeout more.
LEMMA SpentMore ==
    ASSUME NEW b \in EnvType, NEW e \in EnvType, NEW d \in EnvType, d.faults = e.faults - 1
    PROVE  (b.faults - d.faults) * RetryTimeout
             = (b.faults - e.faults) * RetryTimeout + RetryTimeout
<1>1. b.faults \in Int /\ e.faults \in Int /\ RetryTimeout \in Int
  BY TimeoutAssumption DEF EnvType
<1>2. b.faults - d.faults = (b.faults - e.faults) + 1
  BY <1>1
<1>3. \A x \in Int : (x + 1) * RetryTimeout = x * RetryTimeout + RetryTimeout
  BY <1>1
<1> QED BY <1>1, <1>2, <1>3

\* What has been paid for is not negative.
LEMMA SpentNat ==
    ASSUME NEW b \in EnvType, NEW e \in EnvType, e.faults <= b.faults
    PROVE  (b.faults - e.faults) * RetryTimeout \in Nat
<1>1. b.faults - e.faults \in Nat /\ RetryTimeout \in Nat
  BY TimeoutAssumption DEF EnvType
<1>2. \A x \in Nat, y \in Nat : x * y \in Nat
  OBVIOUS
<1> QED BY <1>1, <1>2

\* Frames that come to those under way, and frames of other queries that go,
\* change nothing.
LEMMA PaidNet ==
    ASSUME NEW b, NEW q, NEW peer, NEW own, NEW key, NEW n, NEW m, NEW e, NEW d,
           Paid(b, q, peer, own, key, n, e),
           UnderWay(q, peer, own, key, n) => UnderWay(q, peer, own, key, m),
           d.faults = e.faults
    PROVE  Paid(b, q, peer, own, key, m, d)
BY DEF Paid

\* A request sent pays for the query if it is the first, or if the time for it
\* has come.
LEMMA PaidSend ==
    ASSUME NEW b \in EnvType, NEW q \in Queries, NEW peer, NEW own,
           NEW key, key # NoKey, NEW n, NEW e \in EnvType, NEW id \in Ids,
           e.faults <= b.faults,
           Pending(q) => q.timer = 0 /\ Paid(b, q, peer, own, key, n, e)
    PROVE  Paid(b, NextRequest(q, id), peer, own, key,
                n \cup Protected(peer, "request", id, key), e)
<1> DEFINE p == NextRequest(q, id)
           m == n \cup Protected(peer, "request", id, key)
           t == (b.faults - e.faults) * RetryTimeout
<1>1. p.ids = q.ids \cup {id} /\ p.timer = RetryTimeout
  BY DEF NextRequest
<1>2. p.age = IF Pending(q) THEN q.age ELSE 0
  BY DEF NextRequest
<1>3. UnderWay(p, peer, own, key, m)
  BY <1>1 DEF UnderWay, Protected
<1>4. t \in Nat
  BY SpentNat
<1>5. p.age <= t
  <2>1. CASE Pending(q)
    <3>1. q.age <= t \/ q.age + q.timer <= t
      BY <2>1 DEF Paid
    <3>2. q.age \in Int /\ q.timer = 0
      BY <2>1, TimeoutAssumption DEF Queries, Ages
    <3> HIDE DEF t
    <3> QED BY <1>2, <1>4, <2>1, <3>1, <3>2
  <2>2. CASE ~Pending(q)
    BY <1>2, <1>4, <2>2
  <2> QED BY <2>1, <2>2
<1>6. p.timer >= 0
  BY <1>1, TimeoutAssumption
<1> HIDE DEF p, m
<1>7. Paid(b, p, peer, own, key, m, e)
  BY <1>3, <1>5, <1>6 DEF Paid
<1> QED BY <1>7 DEF p, m

\* A lost frame is a fault.
LEMMA PaidLose ==
    ASSUME NEW b \in EnvType, NEW q \in Queries, NEW peer, NEW own, NEW key, NEW n, NEW m,
           NEW e \in EnvType, NEW d \in EnvType, e.faults <= b.faults,
           e.faults > 0, d.faults = e.faults - 1,
           Paid(b, q, peer, own, key, n, e)
    PROVE  Paid(b, q, peer, own, key, m, d)
<1> DEFINE t == (b.faults - e.faults) * RetryTimeout
           u == (b.faults - d.faults) * RetryTimeout
<1>1. u = t + RetryTimeout /\ t \in Nat
  BY SpentMore, SpentNat
<1>2. /\ b.faults \in Nat /\ e.faults \in Nat /\ d.faults \in Nat
      /\ q.age \in Int /\ q.timer \in Int /\ q.timer <= RetryTimeout
      /\ RetryTimeout \in Nat
  BY TimeoutAssumption DEF EnvType, Queries, Ages, Timers, NoTimer
<1>3. b.faults - d.faults > 0 /\ b.faults # 0
  BY <1>2
<1>4. \/ q.age <= t /\ q.timer >= 0
      \/ q.timer >= 0 /\ q.age + q.timer <= t
  BY <1>3 DEF Paid
<1> HIDE DEF t, u
<1>5. q.timer >= 0 /\ q.age + q.timer <= u
  BY <1>1, <1>2, <1>4
<1> QED BY <1>3, <1>5 DEF Paid, u

\* A tick that passes while a frame is under way is a fault; without one the
\* next request comes nearer.
LEMMA PaidTick ==
    ASSUME NEW b \in EnvType, NEW q \in Queries, q.timer # 0,
           NEW peer, NEW own, NEW key, NEW n,
           NEW e \in EnvType, NEW d \in EnvType, e.faults <= b.faults,
           n = {} => d = e,
           n # {} => e.faults > 0 /\ d.faults = e.faults - 1,
           Paid(b, q, peer, own, key, n, e)
    PROVE  Paid(b, Older(q), peer, own, key, n, d)
<1> DEFINE p == Older(q)
           t == (b.faults - e.faults) * RetryTimeout
           u == (b.faults - d.faults) * RetryTimeout
<1>1. /\ q.age \in Int /\ q.timer \in Int /\ q.timer <= RetryTimeout /\ q.timer >= -1
      /\ RetryTimeout \in Int /\ RetryTimeout >= 1
      /\ b.faults \in Nat /\ e.faults \in Nat /\ d.faults \in Nat
  BY TimeoutAssumption DEF EnvType, Queries, Ages, Timers, NoTimer
<1>2. p.ids = q.ids /\ p.age \in Int /\ p.age <= q.age + 1
  BY <1>1, OlderType
<1>3. p.timer = IF q.timer = NoTimer THEN q.timer ELSE q.timer - 1
  BY DEF Older, Queries
<1>4. t \in Nat /\ (n # {} => u = t + RetryTimeout) /\ (n = {} => u = t)
  BY SpentMore, SpentNat
<1>5. q.timer >= 0 => p.timer >= 0 /\ p.timer = q.timer - 1
  BY <1>1, <1>3 DEF NoTimer
<1> HIDE DEF p, t, u
<1>6. CASE /\ UnderWay(q, peer, own, key, n) /\ q.age <= t
           /\ q.timer >= 0 \/ b.faults = 0
  <2>1. n # {}
    BY <1>6 DEF UnderWay
  <2>2. UnderWay(p, peer, own, key, n)
    BY <1>2, <1>6 DEF UnderWay
  <2>3. p.age <= u
    BY <1>1, <1>2, <1>4, <1>6, <2>1
  <2>4. p.timer >= 0 \/ b.faults = 0
    BY <1>5, <1>6
  <2> QED BY <2>2, <2>3, <2>4 DEF Paid, u, p
<1>7. CASE b.faults - e.faults > 0 /\ q.timer >= 0 /\ q.age + q.timer <= t
  <2>1. b.faults - d.faults > 0
    BY <1>1, <1>7
  <2>2. p.age + p.timer <= u
    BY <1>1, <1>2, <1>4, <1>5, <1>7
  <2> QED BY <1>5, <1>7, <2>1, <2>2 DEF Paid, u, p
<1> QED BY <1>6, <1>7 DEF Paid, t

\* An answer takes the place of the request it answers.
LEMMA PaidAnswer ==
    ASSUME NEW b, NEW q, NEW peer, NEW own, NEW key, key # NoKey,
           NEW n, NEW e, NEW f \in Frames,
           f.to = peer, f.kind = "request", f.key = key,
           Paid(b, q, peer, own, key, n, e)
    PROVE  Paid(b, q, peer, own, key, (n \ {f}) \cup Protected(own, "response", f.id, key), e)
<1>1. UnderWay(q, peer, own, key, n) =>
        UnderWay(q, peer, own, key, (n \ {f}) \cup Protected(own, "response", f.id, key))
  BY DEF UnderWay, Protected, Frames
<1> QED BY <1>1, PaidNet

\* A frame that the query does not wait for can go.
LEMMA PaidOther ==
    ASSUME NEW b, NEW q, NEW peer, NEW own, NEW key, NEW n, NEW e, NEW f, NEW x,
           \/ f.key # key
           \/ f.to = peer /\ f.kind # "request"
           \/ f.to = own /\ (f.kind # "response" \/ f.id \notin q.ids),
           peer # own,
           Paid(b, q, peer, own, key, n, e)
    PROVE  Paid(b, q, peer, own, key, (n \ {f}) \cup x, e)
<1>1. UnderWay(q, peer, own, key, n) => UnderWay(q, peer, own, key, (n \ {f}) \cup x)
  BY DEF UnderWay
<1> QED BY <1>1, PaidNet

\* A query that is paid for has not timed out.
LEMMA PaidInTime ==
    ASSUME RequestsOutnumberFaults, NEW b \in Budgets, NEW q \in Queries,
           NEW peer, NEW own, NEW key, NEW n, NEW e \in EnvType,
           Paid(b, q, peer, own, key, n, e)
    PROVE  ~TimedOut(q)
<1>1. b \in EnvType /\ b.faults * RetryTimeout <= MaxTimeout
  BY BudgetAssumption DEF RequestsOutnumberFaults
<1>2. /\ b.faults \in Nat /\ e.faults \in Nat /\ RetryTimeout \in Nat /\ MaxTimeout \in Nat
      /\ q.age \in Int /\ q.timer \in Int
  BY <1>1, TimeoutAssumption DEF EnvType, Queries, Ages, Timers, NoTimer
<1>3. q.age <= (b.faults - e.faults) * RetryTimeout
  BY <1>2 DEF Paid
<1>4. \A x \in Nat, y \in Nat, z \in Nat : (x - y) * z <= x * z
  <2> SUFFICES ASSUME NEW x \in Nat, NEW y \in Nat, NEW z \in Nat
               PROVE  (x - y) * z <= x * z
    OBVIOUS
  <2>1. (x - y) * z = x * z - y * z /\ y * z \in Nat /\ x * z \in Nat
    OBVIOUS
  <2> QED BY <2>1
<1> DEFINE t == (b.faults - e.faults) * RetryTimeout
           u == b.faults * RetryTimeout
<1>5. t <= u /\ t \in Int /\ u \in Int
  BY <1>2, <1>4
<1> HIDE DEF t, u
<1>6. q.age <= MaxTimeout
  BY <1>1, <1>2, <1>3, <1>5 DEF t, u
<1> QED BY <1>2, <1>6 DEF TimedOut

\* A PTK that the AP does not have or that the station does not have is not
\* shared: a record of the AP without one.
LEMMA LiveForget ==
    ASSUME NEW b, NEW r, NEW s, NEW n, NEW e, Live(b, r, s, n, e)
    PROVE  Live(b, NewSta, s, n, e)
<1>1. /\ NewSta.key = NoKey /\ NewSta.timed_out = FALSE /\ NewSta.query = NoQuery
  BY DEF NewSta
<1>2. ~Pending(NoQuery) /\ NoQuery.age = 0
  BY DEF NoQuery, Pending
<1>3. ~Shared(NewSta, s)
  BY <1>1 DEF Shared
<1>4. Outcome(NewSta, s)
  BY <1>1, <1>2, <1>3 DEF Live, Outcome
<1> QED BY <1>3, <1>4 DEF Live, ApPaid, StaPaid

\* A record of the station without one.
LEMMA LiveGone ==
    ASSUME NEW b, NEW r, NEW s, NEW n, NEW e, Live(b, r, s, n, e),
           NEW u, u.key = NoKey, ~Pending(u.query) => u.query.age = 0
    PROVE  Live(b, r, u, n, e)
<1>1. ~Shared(r, u)
  BY DEF Shared
<1>2. Outcome(r, u)
  BY <1>1 DEF Live, Outcome
<1> QED BY <1>1, <1>2 DEF Live, ApPaid, StaPaid

\* Only what the station asks for has changed.
LEMMA LiveAsking ==
    ASSUME NEW b, NEW r, NEW s, NEW n, NEW e, Live(b, r, s, n, e),
           NEW u, u.key = s.key, u.query = s.query
    PROVE  Live(b, r, u, n, e)
<1>1. Shared(r, u) = Shared(r, s)
  BY DEF Shared
<1>2. Outcome(r, u)
  BY <1>1 DEF Live, Outcome
<1> QED BY <1>1, <1>2 DEF Live, ApPaid, StaPaid

\* More frames, or less of the rest of the budget.
LEMMA LiveNet ==
    ASSUME NEW b, NEW r, NEW s, NEW n, NEW e, Live(b, r, s, n, e),
           NEW m, n \subseteq m,
           NEW d, d.faults = e.faults, d.oom <= b.oom
    PROVE  Live(b, r, s, m, d)
<1>1. \A q, peer, own, key :
        UnderWay(q, peer, own, key, n) => UnderWay(q, peer, own, key, m)
  BY DEF UnderWay
<1>2. \A q, peer, own, key :
        Paid(b, q, peer, own, key, n, e) => Paid(b, q, peer, own, key, m, d)
  BY <1>1, PaidNet
<1> QED BY <1>2 DEF Live, ApPaid, StaPaid

\* A budget spent on something else than faults.
LEMMA SpendOther ==
    ASSUME NEW b, env \in EnvType, b \in EnvType, env.oom <= b.oom,
           NEW what \in {"strays", "drops", "oom"}, Spend(what)
    PROVE  env' \in EnvType /\ env'.faults = env.faults /\ env'.oom <= b.oom
<1>1. env'.faults = env.faults /\ (env'.oom = env.oom \/ env'.oom = env.oom - 1)
  BY DEF Spend, EnvType
<1>2. env.oom \in Int /\ b.oom \in Int
  BY DEF EnvType
<1> QED BY <1>1, <1>2, SpendType

\* The AP's query times out: not one that began with the PTK in use.
LEMMA LiveTimedOut ==
    ASSUME RequestsOutnumberFaults, NEW b \in Budgets, NEW r, NEW s, Good(r, s),
           NEW n, NEW e \in EnvType, Live(b, r, s, n, e), TimedOut(r.query)
    PROVE  Live(b, ApTimedOut(r), s, n, e)
<1> DEFINE st == Stopped(r.query)
           c == r.query.carried \/ r.key = NoKey
           qu == [st EXCEPT !.carried = c]
           q == ApTimedOut(r)
<1>1. r \in ApType /\ r.query \in Queries /\ c \in BOOLEAN /\ r.query.age \in Int
  BY DEF Good, ApType, Queries, Ages
<1>2. q = [r EXCEPT !.timed_out = TRUE, !.query = qu]
  BY DEF ApTimedOut
<1>3. qu.ids = {} /\ qu.age = 0 /\ qu.timer = NoTimer /\ qu.carried = c
  BY DEF Stopped, NoQuery
<1> HIDE DEF qu, q, st
<1>4. q.query = qu /\ q.key = r.key /\ q.timed_out = TRUE /\ q.resp = r.resp
      /\ q.assoc = r.assoc /\ q.mfp = r.mfp /\ q.authorized = r.authorized
  BY <1>1, <1>2, Zenon DEF ApType
<1>5. Shared(q, s) = Shared(r, s) /\ ~Pending(q.query)
  BY <1>3, <1>4 DEF Shared, Pending
<1>6. Shared(r, s) => r.query.carried
  <2> SUFFICES ASSUME Shared(r, s), ~r.query.carried
               PROVE  FALSE
    OBVIOUS
  <2>1. CASE Pending(r.query)
    <3>1. Paid(b, r.query, "sta", "ap", r.key, n, e)
      BY <2>1 DEF Live, ApPaid
    <3> QED BY <1>1, <3>1, PaidInTime
  <2>2. CASE ~Pending(r.query)
    BY <1>1, <2>2, TimeoutAssumption DEF Live, Outcome, TimedOut
  <2> QED BY <2>1, <2>2
<1>7. Outcome(q, s)
  BY <1>3, <1>4, <1>5, <1>6 DEF Live, Outcome
<1>8. Live(b, q, s, n, e)
  BY <1>4, <1>5, <1>7 DEF Live, ApPaid, StaPaid
<1> QED BY <1>8 DEF q

\* Another request of the AP.
LEMMA LiveApSend ==
    ASSUME NEW b \in Budgets, NEW r, NEW s, Good(r, s), env \in EnvType,
           Live(b, r, s, net, env), ApSendRequest(r),
           ~r.timed_out, Pending(r.query) => r.query.timer = 0
    PROVE  Live(b, ap', s, net', env)
<1>1. PICK id \in Ids : /\ ap' = [r EXCEPT !.query = NextRequest(@, id)]
                        /\ net' = net \cup Protected("sta", "request", id, r.key)
  BY DEF ApSendRequest
<1>2. r \in ApType /\ r.query \in Queries /\ b \in EnvType
  BY BudgetAssumption DEF Good, ApType
<1> DEFINE qu == NextRequest(r.query, id)
           q == [r EXCEPT !.query = qu]
           m == net \cup Protected("sta", "request", id, r.key)
<1>3. Pending(qu) /\ (~qu.carried /\ Pending(r.query) => ~r.query.carried)
  BY <1>2, NextRequestType DEF NextRequest
<1>4. ap' = q /\ net' = m
  BY <1>1
<1>5. Shared(r, s) /\ ~qu.carried => Paid(b, qu, "sta", "ap", r.key, m, env)
  <2> SUFFICES ASSUME Shared(r, s), ~qu.carried
               PROVE  Paid(b, qu, "sta", "ap", r.key, m, env)
    OBVIOUS
  <2>1. r.key # NoKey /\ env.faults <= b.faults
    BY DEF Shared, Live
  <2>2. Pending(r.query) => Paid(b, r.query, "sta", "ap", r.key, net, env)
    BY <1>3 DEF Live, ApPaid
  <2> QED BY <1>2, <2>1, <2>2, PaidSend
<1> HIDE DEF qu
<1>6. q.query = qu /\ q.key = r.key /\ q.timed_out = r.timed_out /\ q.resp = r.resp
      /\ q.assoc = r.assoc /\ q.mfp = r.mfp /\ q.authorized = r.authorized
  BY <1>2, Zenon DEF ApType
<1> HIDE DEF q
<1>7. Live(b, r, s, m, env)
  BY LiveNet DEF Live
<1> HIDE DEF m
<1>8. Shared(q, s) = Shared(r, s)
  BY <1>6 DEF Shared
<1>9. Outcome(q, s)
  BY <1>3, <1>6, <1>8 DEF Live, Outcome
<1>10. Live(b, q, s, m, env)
  BY <1>5, <1>6, <1>7, <1>8, <1>9 DEF Live, ApPaid, StaPaid
<1> QED BY <1>4, <1>10

\* Its failed allocation: no frame of the query has been lost.
LEMMA LiveApNoMemory ==
    ASSUME RequestsOutnumberFaults, NEW b \in Budgets, NEW r, NEW s, Good(r, s),
           env \in EnvType, Live(b, r, s, net, env), ApNoMemory(r)
    PROVE  Live(b, ap', s, net', env')
<1>1. Spend("oom") /\ ap' = [r EXCEPT !.query.timer = NoTimer] /\ net' = net
  BY DEF ApNoMemory
<1>2. r \in ApType /\ r.query \in Queries /\ b \in EnvType /\ env.oom <= b.oom
  BY BudgetAssumption DEF Good, ApType, Live
<1>3. env'.faults = env.faults /\ env'.oom <= b.oom
  BY <1>1, <1>2, SpendOther
<1>4. b.faults = 0 /\ env.faults = 0
  <2>1. env.oom > 0
    BY <1>1 DEF Spend
  <2>2. b.oom # 0
    BY <1>2, <2>1 DEF EnvType
  <2>3. b.faults = 0
    BY <2>2 DEF RequestsOutnumberFaults
  <2> QED BY <2>3 DEF Live, EnvType
<1> DEFINE qu == [r.query EXCEPT !.timer = NoTimer]
           q == [r EXCEPT !.query = qu]
<1>5. ap' = q
  BY <1>1
<1>6. qu.ids = r.query.ids /\ qu.age = r.query.age /\ qu.carried = r.query.carried
      /\ qu.timer = NoTimer
  BY <1>2, Zenon DEF Queries
<1> HIDE DEF qu
<1>7. q.query = qu /\ q.key = r.key /\ q.timed_out = r.timed_out /\ q.resp = r.resp
      /\ q.assoc = r.assoc /\ q.mfp = r.mfp /\ q.authorized = r.authorized
  BY <1>2, Zenon DEF ApType
<1> HIDE DEF q
<1>8. Live(b, r, s, net, env')
  BY <1>3, LiveNet
<1>9. Shared(q, s) = Shared(r, s) /\ Pending(qu) = Pending(r.query)
  BY <1>6, <1>7 DEF Shared, Pending
<1>10. Outcome(q, s)
  BY <1>6, <1>7, <1>9 DEF Live, Outcome
<1>11. Paid(b, r.query, "sta", "ap", r.key, net, env) =>
         Paid(b, qu, "sta", "ap", r.key, net, env')
  BY <1>3, <1>4, <1>6 DEF Paid, UnderWay
<1>12. Live(b, q, s, net, env')
  BY <1>6, <1>7, <1>8, <1>9, <1>10, <1>11 DEF Live, ApPaid, StaPaid
<1> QED BY <1>1, <1>5, <1>12

\* The query timer of the AP.
LEMMA ApQueryTimerLive ==
    ASSUME RequestsOutnumberFaults, ComeInv, NEW b \in Budgets,
           Live(b, ap, sta, net, env), ApQueryTimer
    PROVE  Live(b, ap', sta', net', env')
<1>1. Good(ap, sta) /\ env \in EnvType /\ sta' = sta /\ ap.query.timer = 0
  BY ComeInvGood DEF ApQueryTimer
<1>2. ~ap.timed_out
  BY <1>1 DEF Live, Outcome, NoTimer
<1>3. CASE TimedOut(ap.query) /\ ap' = ApTimedOut(ap) /\ UNCHANGED <<net, env>>
  BY <1>1, <1>3, LiveTimedOut
<1>4. CASE ApSendRequest(ap) /\ UNCHANGED env
  BY <1>1, <1>2, <1>4, LiveApSend
<1>5. CASE ApNoMemory(ap)
  BY <1>1, <1>5, LiveApNoMemory
<1> QED BY <1>3, <1>4, <1>5 DEF ApQueryTimer

\* A frame without protection, of the station or not, is not a fault.
LEMMA SentLive ==
    ASSUME NEW b \in Budgets, env \in EnvType, env.oom <= b.oom,
           NEW own \in BOOLEAN, Sent(own)
    PROVE  env'.faults = env.faults /\ env'.oom <= b.oom
<1>1. b \in EnvType
  BY BudgetAssumption
<1>2. CASE own
  BY <1>2 DEF Sent
<1>3. CASE ~own
  BY <1>1, <1>3, SpendOther DEF Sent
<1> QED BY <1>2, <1>3

\* Authentication keeps the keys of an association that has some.
LEMMA HandleAuthLive ==
    ASSUME ComeInv, NEW b \in Budgets, Live(b, ap, sta, net, env),
           NEW own \in BOOLEAN, HandleAuth(own)
    PROVE  Live(b, ap', sta', net', env')
<1>1. /\ Good(ap, sta) /\ env \in EnvType /\ sta' = sta /\ net' = net
      /\ ap' = [AuthReset(ap) EXCEPT !.auth = TRUE] /\ ap \in ApType
  BY ComeInvGood DEF HandleAuth, Good
<1>2. Live(b, ap, sta, net, env')
  <2>1. Sent(own) /\ env.oom <= b.oom
    BY DEF HandleAuth, Live
  <2> QED BY <1>1, <2>1, SentLive, LiveNet
<1> DEFINE x == [ap EXCEPT !.assoc = FALSE, !.authorized = FALSE, !.key = NoKey]
           r == AuthReset(ap)
           q == [r EXCEPT !.auth = TRUE]
<1>3. (r = ap /\ ap.mfp /\ ap.authorized) \/ (r = x /\ ~(ap.mfp /\ ap.authorized))
  BY DEF AuthReset
<1>4. x.resp = ap.resp /\ x.timed_out = ap.timed_out /\ x.query = ap.query
      /\ x.assoc = FALSE /\ x.key = NoKey /\ x.mfp = ap.mfp /\ x.authorized = FALSE
      /\ x \in ApType
  <2>1. NoKey \in Keys \cup {NoKey}
    OBVIOUS
  <2> QED BY <1>1, <2>1, Zenon DEF ApType
<1> HIDE DEF x, r
<1>5. q.resp = r.resp /\ q.timed_out = r.timed_out /\ q.query = r.query
      /\ q.assoc = r.assoc /\ q.key = r.key /\ q.mfp = r.mfp /\ q.authorized = r.authorized
  BY <1>1, <1>3, <1>4, Zenon DEF ApType
<1>6. ap' = q
  BY <1>1 DEF r
<1> HIDE DEF q
<1>7. CASE r = ap
  <2>1. Shared(q, sta) = Shared(ap, sta)
    BY <1>5, <1>7 DEF Shared
  <2>2. Outcome(q, sta)
    BY <1>2, <1>5, <1>7, <2>1 DEF Live, Outcome
  <2>3. Live(b, q, sta, net, env')
    BY <1>2, <1>5, <1>7, <2>1, <2>2 DEF Live, ApPaid, StaPaid
  <2> QED BY <1>1, <1>6, <2>3
<1>8. CASE r = x
  <2>1. ~Shared(q, sta)
    BY <1>4, <1>5, <1>8 DEF Shared
  <2>2. Outcome(q, sta)
    BY <1>2, <1>4, <1>5, <1>8, <2>1 DEF Live, Outcome
  <2>3. Live(b, q, sta, net, env')
    BY <1>2, <2>1, <2>2 DEF Live, ApPaid, StaPaid
  <2> QED BY <1>1, <1>6, <2>3
<1> QED BY <1>3, <1>7, <1>8

\* A look at the query before its timer runs finds none that began with the PTK
\* in use too old.
LEMMA CheckedTimeoutLive ==
    ASSUME RequestsOutnumberFaults, NEW b \in Budgets, NEW r, NEW s, Good(r, s),
           NEW n, NEW e \in EnvType, Live(b, r, s, n, e)
    PROVE  Live(b, CheckedTimeout(r), s, n, e)
BY LiveTimedOut DEF CheckedTimeout

\* An association that shares the PTK must be queried, unless it is carried.
LEMMA SharedMustQuery ==
    ASSUME RequestsOutnumberFaults, NEW b \in Budgets, NEW r, NEW s, Good(r, s),
           NEW n, NEW e \in EnvType, Live(b, r, s, n, e), Shared(r, s), ~r.query.carried
    PROVE  MustQuery(CheckedTimeout(r))
<1>1. r.assoc /\ r.mfp /\ ~r.timed_out
  BY DEF Live, Outcome, Shared
<1>2. ~(Pending(r.query) /\ TimedOut(r.query))
  <2> SUFFICES ASSUME Pending(r.query)
               PROVE  ~TimedOut(r.query)
    OBVIOUS
  <2>1. Paid(b, r.query, "sta", "ap", r.key, n, e) /\ r.query \in Queries
    BY DEF Live, ApPaid, Good, ApType
  <2> QED BY <2>1, PaidInTime
<1> QED BY <1>1, <1>2 DEF CheckedTimeout, MustQuery

\* Association.
LEMMA HandleAssocLive ==
    ASSUME RequestsOutnumberFaults, ComeInv, NEW b \in Budgets,
           Live(b, ap, sta, net, env), NEW own \in BOOLEAN, HandleAssoc(own)
    PROVE  Live(b, ap', sta', net', env')
<1> DEFINE r == CheckedTimeout(ap)
<1>1. Good(ap, sta) /\ env \in EnvType /\ env.oom <= b.oom
  BY ComeInvGood DEF Live
<1>2. Good(r, sta) /\ r \in ApType /\ Live(b, r, sta, net, env)
  BY <1>1, CheckedTimeoutGood, CheckedTimeoutLive DEF Good
<1>3. \/ ~MustQuery(r) /\ Sent(own) /\ ap' = Accepted(r) /\ UNCHANGED <<sta, net>>
      \/ /\ MustQuery(r)
         /\ \/ Sent(own) /\ Pending(r.query) /\ ap' = r /\ UNCHANGED net
            \/ Sent(own) /\ ~Pending(r.query) /\ ApSendRequest(r)
            \/ own /\ sta.state = "asking" /\ ~Pending(r.query) /\ ApNoMemory(r)
         /\ IF own
            THEN \E t \in Comeback(ap'.query) :
                   sta' = [sta EXCEPT !.wait = t, !.rejects = Refused(@, ap'.query)]
            ELSE UNCHANGED sta
  BY DEF HandleAssoc
<1> HIDE DEF r
<1>4. CASE ~MustQuery(r) /\ Sent(own) /\ ap' = Accepted(r) /\ UNCHANGED <<sta, net>>
  <2> DEFINE q == Accepted(r)
  <2>1. q.key = NoKey /\ q.resp = TRUE /\ q.query = r.query /\ q.timed_out = r.timed_out
    BY <1>2, Zenon DEF Accepted, ApType
  <2> HIDE DEF q
  <2>2. ~Shared(q, sta)
    BY <2>1 DEF Shared
  <2>3. Live(b, r, sta, net, env')
    BY <1>1, <1>2, <1>4, SentLive, LiveNet
  <2>4. Outcome(q, sta)
    BY <1>2, <2>1, <2>2 DEF Live, Outcome
  <2>5. Live(b, q, sta, net, env')
    BY <2>2, <2>3, <2>4 DEF Live, ApPaid, StaPaid
  <2> QED BY <1>4, <2>5 DEF q
<1>5. CASE /\ MustQuery(r)
           /\ \/ Sent(own) /\ Pending(r.query) /\ ap' = r /\ UNCHANGED net
              \/ Sent(own) /\ ~Pending(r.query) /\ ApSendRequest(r)
              \/ own /\ sta.state = "asking" /\ ~Pending(r.query) /\ ApNoMemory(r)
           /\ IF own
              THEN \E t \in Comeback(ap'.query) :
                     sta' = [sta EXCEPT !.wait = t, !.rejects = Refused(@, ap'.query)]
              ELSE UNCHANGED sta
  <2>1. sta'.key = sta.key /\ sta'.query = sta.query
    <3>1. sta \in StaType
      BY <1>1 DEF Good
    <3>2. CASE own
      <4>1. PICK t \in Comeback(ap'.query) :
              sta' = [sta EXCEPT !.wait = t, !.rejects = Refused(@, ap'.query)]
        BY <1>5, <3>2
      <4> QED BY <3>1, <4>1 DEF StaType
    <3>3. CASE ~own
      BY <1>5, <3>3
    <3> QED BY <3>2, <3>3
  <2>2. Live(b, ap', sta, net', env')
    <3>1. CASE Sent(own) /\ Pending(r.query) /\ ap' = r /\ UNCHANGED net
      BY <1>1, <1>2, <3>1, SentLive, LiveNet
    <3>2. CASE Sent(own) /\ ~Pending(r.query) /\ ApSendRequest(r)
      <4>1. ~r.timed_out
        BY <1>5 DEF MustQuery
      <4>2. Live(b, ap', sta, net', env)
        BY <1>1, <1>2, <3>2, <4>1, LiveApSend
      <4> QED BY <1>1, <3>2, <4>2, SentLive, LiveNet
    <3>3. CASE ApNoMemory(r)
      BY <1>1, <1>2, <3>3, LiveApNoMemory
    <3> QED BY <1>5, <3>1, <3>2, <3>3
  <2> QED BY <2>1, <2>2, LiveAsking
<1> QED BY <1>3, <1>4, <1>5

\* The TX status of the response.
LEMMA HandleAssocCbLive ==
    ASSUME ComeInv, NEW b \in Budgets, Live(b, ap, sta, net, env),
           NEW ok \in BOOLEAN, HandleAssocCb(ok)
    PROVE  Live(b, ap', sta', net', env')
<1>1. /\ Good(ap, sta) /\ env \in EnvType /\ net' = net /\ ap.resp
      /\ ap \in ApType /\ sta \in StaType /\ ap.query \in Queries
      /\ b \in EnvType /\ env.oom <= b.oom
  BY ComeInvGood, BudgetAssumption DEF HandleAssocCb, Good, ApType, Live
<1>2. ap.key = NoKey
  BY <1>1 DEF Live, Outcome
<1> DEFINE qc(c) == [ap.query EXCEPT !.carried = c]
<1>3. \A c \in BOOLEAN : /\ qc(c).ids = ap.query.ids /\ qc(c).age = ap.query.age
                         /\ qc(c).timer = ap.query.timer /\ qc(c).carried = c
  BY <1>1, Zenon DEF Queries
<1>4. CASE ok
  <2> DEFINE c == ap.query.carried /\ Pending(ap.query)
             q == [ap EXCEPT !.resp = FALSE, !.assoc = TRUE, !.timed_out = FALSE,
                             !.query = qc(c)]
  <2>1. ap' = q
    BY <1>4 DEF HandleAssocCb
  <2>2. env' = env /\ sta'.key = sta.key /\ sta'.query = sta.query
    BY <1>1, <1>4 DEF HandleAssocCb, StaType
  <2>3. qc(c).ids = ap.query.ids /\ qc(c).age = ap.query.age
    BY <1>3
  <2> HIDE DEF qc, c
  <2>4. q.key = NoKey /\ q.timed_out = FALSE /\ q.query = qc(c)
    BY <1>1, <1>2, Zenon DEF ApType
  <2> HIDE DEF q
  <2>5. ~Shared(q, sta)
    BY <2>4 DEF Shared
  <2>6. Outcome(q, sta)
    BY <2>3, <2>4, <2>5 DEF Live, Outcome, Pending
  <2>7. Live(b, q, sta, net, env)
    BY <2>5, <2>6 DEF Live, ApPaid, StaPaid
  <2> QED BY <1>1, <2>1, <2>2, <2>7, LiveAsking
<1>5. CASE ~ok
  <2> DEFINE c == ap.query.carried \/ ap.timed_out
             q == [ap EXCEPT !.resp = FALSE, !.key = NoKey, !.query = qc(c)]
  <2>1. ap' = q
    BY <1>5 DEF HandleAssocCb
  <2>2. Spend("drops") /\ sta' = sta
    BY <1>5 DEF HandleAssocCb
  <2>3. qc(c).ids = ap.query.ids /\ qc(c).age = ap.query.age
        /\ qc(c).timer = ap.query.timer /\ (ap.timed_out => qc(c).carried)
    <3>1. c \in BOOLEAN
      BY <1>1 DEF ApType, Queries
    <3> QED BY <1>3, <3>1
  <2> HIDE DEF qc, c
  <2>4. q.key = NoKey /\ q.timed_out = ap.timed_out /\ q.query = qc(c)
    BY <1>1, Zenon DEF ApType
  <2> HIDE DEF q
  <2>5. ~Shared(q, sta)
    BY <2>4 DEF Shared
  <2>6. Outcome(q, sta)
    BY <2>3, <2>4, <2>5 DEF Live, Outcome, Pending
  <2>7. Live(b, q, sta, net, env)
    BY <2>5, <2>6 DEF Live, ApPaid, StaPaid
  <2>8. env'.faults = env.faults /\ env'.oom <= b.oom
    BY <1>1, <2>2, SpendOther
  <2>9. Live(b, q, sta, net, env')
    BY <2>7, <2>8, LiveNet
  <2> QED BY <1>1, <2>1, <2>2, <2>9
<1> QED BY <1>4, <1>5

\* The 4-way handshake: a query that goes on is carried.
LEMMA KeyHandshakeLive ==
    ASSUME ComeInv, NEW b \in Budgets, Live(b, ap, sta, net, env), KeyHandshake
    PROVE  Live(b, ap', sta', net', env')
<1>1. /\ Good(ap, sta) /\ net' = net /\ env' = env
      /\ ap \in ApType /\ sta \in StaType /\ ap.query \in Queries /\ sta.query \in Queries
      /\ ap.assoc /\ ~ap.resp /\ ap.key = NoKey /\ ap.mfp
  BY ComeInvGood DEF KeyHandshake, Good, ApType, StaType
<1>2. PICK k \in FreshKeys :
        /\ ap' = [ap EXCEPT !.key = k, !.authorized = TRUE, !.query = Carried(@)]
        /\ sta' = [sta EXCEPT !.key = k, !.state = "completed", !.query = Carried(@)]
  BY DEF KeyHandshake
<1> DEFINE qa == Carried(ap.query)
           qs == Carried(sta.query)
           q == [ap EXCEPT !.key = k, !.authorized = TRUE, !.query = qa]
           u == [sta EXCEPT !.key = k, !.state = "completed", !.query = qs]
<1>3. /\ qa.ids = ap.query.ids /\ qa.age = ap.query.age /\ qa.timer = ap.query.timer
      /\ qa.carried = (Pending(ap.query) \/ ap.query.carried)
      /\ qs.ids = sta.query.ids /\ qs.age = sta.query.age
      /\ qs.carried = (Pending(sta.query) \/ sta.query.carried)
  BY <1>1 DEF Carried, Queries
<1>4. ap' = q /\ sta' = u
  BY <1>2
<1> HIDE DEF qa, qs
<1>5. /\ q.mfp = ap.mfp /\ q.assoc = ap.assoc /\ q.resp = ap.resp /\ q.authorized = TRUE
      /\ q.timed_out = ap.timed_out /\ q.query = qa
  BY <1>1, Zenon DEF ApType
<1>6. u.query = qs
  BY <1>1, Zenon DEF StaType
<1> HIDE DEF q, u
<1>7. Outcome(q, u)
  BY <1>1, <1>3, <1>5, <1>6 DEF Live, Outcome, Pending
<1>8. Live(b, q, u, net, env)
  BY <1>3, <1>5, <1>6, <1>7 DEF Live, ApPaid, StaPaid, Pending
<1> QED BY <1>1, <1>4, <1>8

\* The AP forgets the station.
LEMMA ApForgetsLive ==
    ASSUME ComeInv, NEW b \in Budgets, Live(b, ap, sta, net, env),
           HandshakeTimeout \/ ApDrops
    PROVE  Live(b, ap', sta', net', env')
<1>1. env \in EnvType /\ b \in EnvType /\ env.oom <= b.oom
  BY ComeInvGood, BudgetAssumption DEF Live
<1>2. ap' = NewSta /\ sta' = sta /\ net' = net /\ (env' = env \/ Spend("drops"))
  BY DEF HandshakeTimeout, ApDrops
<1>3. env'.faults = env.faults /\ env'.oom <= b.oom
  BY <1>1, <1>2, SpendOther
<1>4. Live(b, NewSta, sta, net, env')
  BY <1>3, LiveForget, LiveNet
<1> QED BY <1>2, <1>4

\* Frames at the AP: while the PTK is shared it answers requests protected with
\* it, and an answer to its own query ends that.
LEMMA ApRxLive ==
    ASSUME ComeInv, NEW b \in Budgets, Live(b, ap, sta, net, env),
           NEW f \in net, ApRx(f)
    PROVE  Live(b, ap', sta', net', env')
<1>1. /\ Good(ap, sta) /\ net \subseteq Frames /\ f \in Frames /\ env' = env
      /\ ap \in ApType /\ sta \in StaType /\ f.to = "ap" /\ Outcome(ap, sta)
  BY ComeInvGood DEF ApRx, Good, Live
<1>2. CASE /\ ap.assoc /\ f.key = ap.key /\ f.kind = "request"
           /\ net' = (net \ {f}) \cup Protected("sta", "response", f.id, ap.key)
           /\ UNCHANGED <<ap, sta>>
  <2>1. Shared(ap, sta) /\ Pending(ap.query) /\ ~ap.query.carried =>
          Paid(b, ap.query, "sta", "ap", ap.key, net', env)
    BY <1>1, <1>2, PaidOther DEF Live, ApPaid
  <2>2. Shared(ap, sta) /\ Pending(sta.query) /\ ~sta.query.carried =>
          Paid(b, sta.query, "ap", "sta", sta.key, net', env)
    BY <1>1, <1>2, PaidAnswer DEF Live, StaPaid, Shared
  <2> QED BY <1>1, <1>2, <2>1, <2>2 DEF Live, ApPaid, StaPaid
<1>3. CASE /\ ap.assoc /\ f.key = ap.key /\ f.kind = "response" /\ f.id \in ap.query.ids
           /\ ap' = [ap EXCEPT !.query = Stopped(@)]
           /\ sta' = [sta EXCEPT !.rejects = 0]
           /\ net' = net \ {f}
  <2> DEFINE q == [ap EXCEPT !.query = NoQuery]
  <2>1. ap' = q /\ sta'.key = sta.key /\ sta'.query = sta.query
    BY <1>1, <1>3 DEF Stopped, StaType
  <2>2. /\ q.query = NoQuery /\ q.key = ap.key /\ q.timed_out = ap.timed_out
        /\ q.resp = ap.resp /\ q.assoc = ap.assoc /\ q.mfp = ap.mfp
        /\ q.authorized = ap.authorized
    BY <1>1, Zenon DEF ApType
  <2> HIDE DEF q
  <2>3. ~Pending(NoQuery) /\ NoQuery.age = 0 /\ ~ap.timed_out
    BY <1>1, <1>3 DEF NoQuery, Pending, Outcome
  <2>4. Shared(q, sta) = Shared(ap, sta)
    BY <2>2 DEF Shared
  <2>5. Outcome(q, sta)
    BY <1>1, <2>2, <2>3, <2>4 DEF Outcome
  <2>6. Shared(ap, sta) /\ Pending(sta.query) /\ ~sta.query.carried =>
          Paid(b, sta.query, "ap", "sta", sta.key, net', env)
    <3>1. net' = (net \ {f}) \cup {}
      BY <1>3
    <3> QED BY <1>1, <1>3, <3>1, PaidOther DEF Live, StaPaid
  <2>7. Live(b, q, sta, net', env)
    BY <2>2, <2>3, <2>4, <2>5, <2>6 DEF Live, ApPaid, StaPaid
  <2> QED BY <1>1, <2>1, <2>7, LiveAsking
<1>4. CASE /\ \/ ~(ap.assoc /\ f.key = ap.key)
              \/ f.kind = "response" /\ f.id \notin ap.query.ids
           /\ net' = net \ {f}
           /\ UNCHANGED <<ap, sta>>
  <2>1. net' = (net \ {f}) \cup {}
    BY <1>4
  <2>2. Shared(ap, sta) =>
          f.key # ap.key \/ (f.kind = "response" /\ f.id \notin ap.query.ids)
    BY <1>1, <1>4 DEF Outcome, Shared
  <2>3. Shared(ap, sta) /\ Pending(ap.query) /\ ~ap.query.carried =>
          Paid(b, ap.query, "sta", "ap", ap.key, net', env)
    BY <1>1, <2>1, <2>2, PaidOther DEF Live, ApPaid
  <2>4. Shared(ap, sta) /\ Pending(sta.query) /\ ~sta.query.carried =>
          Paid(b, sta.query, "ap", "sta", sta.key, net', env)
    BY <1>1, <2>1, <2>2, PaidOther DEF Live, StaPaid, Shared
  <2> QED BY <1>1, <1>4, <2>3, <2>4 DEF Live, ApPaid, StaPaid
<1> QED BY <1>2, <1>3, <1>4 DEF ApRx

\* Another request of the station.
LEMMA LiveStaSend ==
    ASSUME NEW b \in Budgets, NEW r, NEW s, Good(r, s), env \in EnvType, NEW id \in Ids,
           Live(b, r, s, net, env), Pending(s.query) => s.query.timer = 0
    PROVE  Live(b, r, [s EXCEPT !.query = NextRequest(@, id)],
                net \cup Protected("ap", "request", id, s.key), env)
<1>1. s \in StaType /\ s.query \in Queries /\ b \in EnvType
  BY BudgetAssumption DEF Good, StaType
<1> DEFINE qu == NextRequest(s.query, id)
           u == [s EXCEPT !.query = qu]
           m == net \cup Protected("ap", "request", id, s.key)
<1>2. Pending(qu) /\ (~qu.carried /\ Pending(s.query) => ~s.query.carried)
  BY <1>1, NextRequestType DEF NextRequest
<1>3. Shared(r, s) /\ ~qu.carried => Paid(b, qu, "ap", "sta", s.key, m, env)
  <2> SUFFICES ASSUME Shared(r, s), ~qu.carried
               PROVE  Paid(b, qu, "ap", "sta", s.key, m, env)
    OBVIOUS
  <2>1. s.key # NoKey /\ env.faults <= b.faults
    BY DEF Shared, Live
  <2>2. Pending(s.query) => Paid(b, s.query, "ap", "sta", s.key, net, env)
    BY <1>2 DEF Live, StaPaid
  <2> QED BY <1>1, <2>1, <2>2, PaidSend
<1> HIDE DEF qu
<1>4. u.query = qu /\ u.key = s.key
  BY <1>1, Zenon DEF StaType
<1> HIDE DEF u
<1>5. Live(b, r, s, m, env)
  BY LiveNet DEF Live
<1> HIDE DEF m
<1>6. Shared(r, u) = Shared(r, s)
  BY <1>4 DEF Shared
<1>7. Outcome(r, u)
  BY <1>2, <1>4, <1>6 DEF Live, Outcome
<1>8. Live(b, r, u, m, env)
  BY <1>3, <1>4, <1>5, <1>6, <1>7 DEF Live, ApPaid, StaPaid
<1> QED BY <1>8 DEF u, m, qu

\* The station has stopped its query.
LEMMA LiveStaStopped ==
    ASSUME NEW b, NEW r, NEW s \in StaType, NEW n, NEW e, Live(b, r, s, n, e)
    PROVE  Live(b, r, [s EXCEPT !.query = Stopped(@)], n, e)
<1> DEFINE u == [s EXCEPT !.query = Stopped(@)]
<1>1. u.query = NoQuery /\ u.key = s.key
  BY DEF Stopped, StaType
<1>2. ~Pending(NoQuery) /\ NoQuery.age = 0
  BY DEF NoQuery, Pending
<1> HIDE DEF u
<1>3. Shared(r, u) = Shared(r, s)
  BY <1>1 DEF Shared
<1>4. Outcome(r, u)
  BY <1>1, <1>2, <1>3 DEF Live, Outcome
<1>5. Live(b, r, u, n, e)
  BY <1>1, <1>2, <1>3, <1>4 DEF Live, ApPaid, StaPaid
<1> QED BY <1>5 DEF u

\* The station asks, gives up, leaves or restarts: with the PTK gone nothing is
\* shared.
LEMMA StaGoesLive ==
    ASSUME ComeInv, NEW b \in Budgets, Live(b, ap, sta, net, env),
           \/ StaAsks \/ StaGivesUp \/ StaDisassociates
           \/ StaDeauthenticates \/ StaRestarts
    PROVE  Live(b, ap', sta', net', env')
<1>1. /\ Good(ap, sta) /\ env \in EnvType /\ b \in EnvType /\ env.oom <= b.oom
      /\ ap \in ApType /\ sta \in StaType
  BY ComeInvGood, BudgetAssumption DEF Good, Live
<1>2. Gone(sta).key = NoKey /\ Gone(sta).query = sta.query
  BY <1>1 DEF Gone, StaType
<1>3. Live(b, ap, Gone(sta), net, env)
  BY <1>2, LiveGone DEF Live, Outcome
<1>4. CASE StaAsks
  <2>1. sta'.key = sta.key /\ sta'.query = sta.query
    BY <1>1, <1>4 DEF StaAsks, StaType
  <2>2. ap' = ap /\ net' = net /\ env' = env
    BY <1>4 DEF StaAsks
  <2> QED BY <2>1, <2>2, LiveAsking
<1>5. CASE StaGivesUp
  BY <1>3, <1>5 DEF StaGivesUp
<1>6. CASE StaDisassociates
  <2> DEFINE q == Disassociated(ap)
  <2>1. /\ q.assoc = FALSE /\ q.key = NoKey /\ q.query = ap.query
        /\ q.timed_out = ap.timed_out
    BY <1>1, Zenon DEF Disassociated, ApType
  <2> HIDE DEF q
  <2>2. ~Shared(q, Gone(sta))
    BY <2>1 DEF Shared
  <2>3. Outcome(q, Gone(sta))
    BY <1>3, <2>1, <2>2 DEF Live, Outcome
  <2>4. Live(b, q, Gone(sta), net, env)
    BY <1>3, <2>2, <2>3 DEF Live, ApPaid, StaPaid
  <2>5. /\ sta' = Gone(sta) /\ net' = net /\ env' = env
        /\ ap' = ap \/ ap' = q
    BY <1>6 DEF StaDisassociates, q
  <2> QED BY <1>3, <2>4, <2>5
<1>7. CASE StaDeauthenticates
  <2>1. /\ sta' = Gone(sta) /\ net' = net /\ env' = env
        /\ ap' = ap \/ ap' = NewSta
    BY <1>7 DEF StaDeauthenticates, ApHearsDeauth
  <2> QED BY <1>3, <2>1, LiveForget
<1>8. CASE StaRestarts
  <2>1. /\ sta' = NewSupplicant /\ ap' = ap /\ net' = net
        /\ env' = env \/ Spend("drops")
    BY <1>8 DEF StaRestarts
  <2>2. NewSupplicant.key = NoKey /\ NewSupplicant.query.age = 0
    BY DEF NewSupplicant, NoQuery
  <2>3. Live(b, ap, NewSupplicant, net, env)
    BY <2>2, LiveGone
  <2>4. env'.faults = env.faults /\ env'.oom <= b.oom
    BY <1>1, <2>1, SpendOther
  <2> QED BY <2>1, <2>3, <2>4, LiveNet
<1> QED BY <1>4, <1>5, <1>6, <1>7, <1>8

\* The query timer of the station.
LEMMA StaQueryTimerLive ==
    ASSUME ComeInv, NEW b \in Budgets, Live(b, ap, sta, net, env), StaQueryTimer
    PROVE  Live(b, ap', sta', net', env')
<1>1. /\ Good(ap, sta) /\ env \in EnvType /\ b \in EnvType /\ env.oom <= b.oom
      /\ sta \in StaType /\ sta.query.timer = 0
  BY ComeInvGood, BudgetAssumption DEF Good, Live, StaQueryTimer
<1>2. CASE /\ sta' = [Gone(sta) EXCEPT !.query = Stopped(@)]
           /\ ApHearsDeauth /\ UNCHANGED <<net, env>>
  <2>1. sta'.key = NoKey /\ sta'.query = NoQuery
    BY <1>1, <1>2 DEF Gone, Stopped, StaType
  <2>2. NoQuery.age = 0
    BY DEF NoQuery
  <2>3. Live(b, ap, sta', net, env)
    BY <2>1, <2>2, LiveGone
  <2> QED BY <1>2, <2>3, LiveForget DEF ApHearsDeauth
<1>3. CASE StaSendRequest(sta) /\ UNCHANGED ap
  <2>1. CASE \E id \in Ids :
               /\ sta' = [sta EXCEPT !.query = NextRequest(@, id)]
               /\ net' = net \cup Protected("ap", "request", id, sta.key)
               /\ UNCHANGED env
    BY <1>1, <1>3, <2>1, LiveStaSend
  <2>2. CASE Spend("oom") /\ sta' = [sta EXCEPT !.query = Stopped(@)] /\ UNCHANGED net
    <3>1. Live(b, ap, sta', net, env)
      BY <1>1, <2>2, LiveStaStopped
    <3>2. env'.faults = env.faults /\ env'.oom <= b.oom
      BY <1>1, <2>2, SpendOther
    <3> QED BY <1>3, <2>2, <3>1, <3>2, LiveNet
  <2> QED BY <1>3, <2>1, <2>2 DEF StaSendRequest
<1> QED BY <1>2, <1>3 DEF StaQueryTimer

\* A frame without protection starts a query.
LEMMA StaUnprotDisconnectLive ==
    ASSUME ComeInv, NEW b \in Budgets, Live(b, ap, sta, net, env), StaUnprotDisconnect
    PROVE  Live(b, ap', sta', net', env')
<1>1. /\ Good(ap, sta) /\ env \in EnvType /\ b \in EnvType /\ env.oom <= b.oom
      /\ sta \in StaType /\ ap' = ap /\ ~Pending(sta.query)
  BY ComeInvGood, BudgetAssumption DEF Good, Live, StaUnprotDisconnect
<1> DEFINE s == [sta EXCEPT !.quiet = UnprotLimit]
<1>2. UnprotLimit \in 0 .. UnprotLimit
  BY TimeoutAssumption
<1>3. /\ s \in StaType /\ s.state = sta.state /\ s.wait = sta.wait
      /\ s.rejects = sta.rejects /\ s.key = sta.key /\ s.query = sta.query
  BY <1>1, <1>2, Zenon DEF StaType
<1>4. \/ /\ \E id \in Ids :
              /\ sta' = [s EXCEPT !.query = NextRequest(@, id)]
              /\ net' = net \cup Protected("ap", "request", id, s.key)
         /\ env' = env \/ Spend("strays")
      \/ Spend("oom") /\ sta' = s /\ net' = net
  BY DEF StaUnprotDisconnect
<1> HIDE DEF s
<1>5. Good(ap, s) /\ Live(b, ap, s, net, env)
  BY <1>1, <1>3, SameAskingGood, LiveAsking
<1>6. env'.faults = env.faults /\ env'.oom <= b.oom
  BY <1>1, <1>4, SpendOther
<1>7. Live(b, ap, sta', net', env)
  <2>1. CASE \E id \in Ids :
               /\ sta' = [s EXCEPT !.query = NextRequest(@, id)]
               /\ net' = net \cup Protected("ap", "request", id, s.key)
    BY <1>1, <1>3, <1>5, <2>1, LiveStaSend
  <2>2. CASE sta' = s /\ net' = net
    BY <1>5, <2>2
  <2> QED BY <1>4, <2>1, <2>2
<1> QED BY <1>1, <1>6, <1>7, LiveNet

\* Frames at the station: it answers the AP while the PTK is shared.
LEMMA StaRxLive ==
    ASSUME ComeInv, NEW b \in Budgets, Live(b, ap, sta, net, env),
           NEW f \in net, StaRx(f)
    PROVE  Live(b, ap', sta', net', env')
<1>1. /\ Good(ap, sta) /\ net \subseteq Frames /\ f \in Frames /\ env' = env
      /\ ap' = ap /\ sta \in StaType /\ f.to = "sta" /\ Outcome(ap, sta)
  BY ComeInvGood DEF StaRx, Good, Live
<1>2. CASE /\ sta.key = f.key /\ f.kind = "request"
           /\ net' = (net \ {f}) \cup Protected("ap", "response", f.id, sta.key)
           /\ UNCHANGED sta
  <2>1. Shared(ap, sta) /\ Pending(ap.query) /\ ~ap.query.carried =>
          Paid(b, ap.query, "sta", "ap", ap.key, net', env)
    BY <1>1, <1>2, PaidAnswer DEF Live, ApPaid, Shared
  <2>2. Shared(ap, sta) /\ Pending(sta.query) /\ ~sta.query.carried =>
          Paid(b, sta.query, "ap", "sta", sta.key, net', env)
    BY <1>1, <1>2, PaidOther DEF Live, StaPaid
  <2> QED BY <1>1, <1>2, <2>1, <2>2 DEF Live, ApPaid, StaPaid
<1>3. CASE /\ sta.key = f.key /\ f.kind = "response" /\ f.id \in sta.query.ids
           /\ sta' = [sta EXCEPT !.query = Stopped(@)] /\ net' = net \ {f}
  <2>1. Shared(ap, sta) /\ Pending(ap.query) /\ ~ap.query.carried =>
          Paid(b, ap.query, "sta", "ap", ap.key, net', env)
    <3>1. net' = (net \ {f}) \cup {}
      BY <1>3
    <3> QED BY <1>1, <1>3, <3>1, PaidOther DEF Live, ApPaid
  <2>2. sta'.query = NoQuery /\ sta'.key = sta.key
    BY <1>1, <1>3 DEF Stopped, StaType
  <2>3. ~Pending(NoQuery) /\ NoQuery.age = 0
    BY DEF NoQuery, Pending
  <2>4. Shared(ap, sta') = Shared(ap, sta)
    BY <2>2 DEF Shared
  <2>5. Outcome(ap, sta')
    BY <1>1, <2>2, <2>3, <2>4 DEF Outcome
  <2> QED BY <1>1, <2>1, <2>2, <2>3, <2>4, <2>5 DEF Live, ApPaid, StaPaid
<1>4. CASE /\ sta.key # f.key \/ (f.kind = "response" /\ f.id \notin sta.query.ids)
           /\ net' = net \ {f} /\ UNCHANGED sta
  <2>1. net' = (net \ {f}) \cup {}
    BY <1>4
  <2>2. Shared(ap, sta) /\ Pending(ap.query) /\ ~ap.query.carried =>
          Paid(b, ap.query, "sta", "ap", ap.key, net', env)
    BY <1>1, <1>4, <2>1, PaidOther DEF Live, ApPaid, Shared
  <2>3. Shared(ap, sta) /\ Pending(sta.query) /\ ~sta.query.carried =>
          Paid(b, sta.query, "ap", "sta", sta.key, net', env)
    BY <1>1, <1>4, <2>1, PaidOther DEF Live, StaPaid
  <2> QED BY <1>1, <1>4, <2>2, <2>3 DEF Live, ApPaid, StaPaid
<1> QED BY <1>2, <1>3, <1>4 DEF StaRx

\* A fault.
LEMMA SpendFault ==
    ASSUME env \in EnvType, Spend("faults")
    PROVE  /\ env' \in EnvType /\ env.faults > 0 /\ env'.faults = env.faults - 1
           /\ env'.oom = env.oom
BY DEF Spend, EnvType

\* A lost frame.
LEMMA LoseLive ==
    ASSUME ComeInv, NEW b \in Budgets, Live(b, ap, sta, net, env), NEW f \in net, Lose(f)
    PROVE  Live(b, ap', sta', net', env')
<1>1. /\ Good(ap, sta) /\ env \in EnvType /\ b \in EnvType /\ ap' = ap /\ sta' = sta
      /\ env' \in EnvType /\ env.faults > 0 /\ env'.faults = env.faults - 1
      /\ env'.oom = env.oom /\ env.faults <= b.faults
      /\ ap.query \in Queries /\ sta.query \in Queries
  BY ComeInvGood, BudgetAssumption, SpendFault DEF Lose, Good, ApType, StaType, Live
<1>2. env'.faults <= b.faults
  BY <1>1 DEF EnvType
<1>3. Shared(ap, sta) /\ Pending(ap.query) /\ ~ap.query.carried =>
        Paid(b, ap.query, "sta", "ap", ap.key, net', env')
  BY <1>1, PaidLose DEF Live, ApPaid
<1>4. Shared(ap, sta) /\ Pending(sta.query) /\ ~sta.query.carried =>
        Paid(b, sta.query, "ap", "sta", sta.key, net', env')
  BY <1>1, PaidLose DEF Live, StaPaid
<1> QED BY <1>1, <1>2, <1>3, <1>4 DEF Live, ApPaid, StaPaid

\* Time passes.
LEMMA TickLive ==
    ASSUME ComeInv, NEW b \in Budgets, Live(b, ap, sta, net, env), Tick
    PROVE  Live(b, ap', sta', net', env')
<1>1. /\ Good(ap, sta) /\ env \in EnvType /\ b \in EnvType
      /\ ap \in ApType /\ sta \in StaType
      /\ ap.query \in Queries /\ sta.query \in Queries /\ net' = net
      /\ ap.query.timer # 0 /\ sta.query.timer # 0
      /\ env.faults <= b.faults /\ env.oom <= b.oom
  BY ComeInvGood, BudgetAssumption DEF Good, Tick, ApType, StaType, Live
<1>2. /\ net = {} => env' = env
      /\ net # {} => env.faults > 0 /\ env'.faults = env.faults - 1
      /\ env' \in EnvType /\ env'.oom = env.oom
  BY <1>1, SpendFault DEF Tick
<1>3. env'.faults <= b.faults
  BY <1>1, <1>2 DEF EnvType
<1> DEFINE qa == Older(ap.query)
           qs == Older(sta.query)
           r == [ap EXCEPT !.query = qa]
           u == [sta EXCEPT !.query = qs, !.quiet = Less(@), !.wait = Less(@)]
<1>4. ap' = r /\ sta' = u
  BY DEF Tick
<1>5. /\ qa.ids = ap.query.ids /\ (~Pending(ap.query) => qa.age = ap.query.age)
      /\ qs.ids = sta.query.ids /\ (~Pending(sta.query) => qs.age = sta.query.age)
  BY <1>1, OlderType
<1>6. /\ qa.carried = ap.query.carried /\ qs.carried = sta.query.carried
      /\ ap.query.timer = NoTimer => qa.timer = NoTimer
  BY <1>1 DEF Older, Queries
<1>7. Paid(b, ap.query, "sta", "ap", ap.key, net, env) =>
        Paid(b, qa, "sta", "ap", ap.key, net, env')
  BY <1>1, <1>2, PaidTick
<1>8. Paid(b, sta.query, "ap", "sta", sta.key, net, env) =>
        Paid(b, qs, "ap", "sta", sta.key, net, env')
  BY <1>1, <1>2, PaidTick
<1> HIDE DEF qa, qs
<1>9. /\ r.query = qa /\ r.resp = ap.resp /\ r.assoc = ap.assoc /\ r.key = ap.key
      /\ r.mfp = ap.mfp /\ r.timed_out = ap.timed_out /\ r.authorized = ap.authorized
  BY <1>1, Zenon DEF ApType
<1>10. u.query = qs /\ u.key = sta.key
  BY <1>1, Zenon DEF StaType
<1> HIDE DEF r, u
<1>11. /\ Shared(r, u) = Shared(ap, sta)
       /\ Pending(qa) = Pending(ap.query) /\ Pending(qs) = Pending(sta.query)
  BY <1>5, <1>9, <1>10 DEF Shared, Pending
<1>12. Outcome(r, u)
  BY <1>5, <1>6, <1>9, <1>10, <1>11 DEF Live, Outcome
<1>13. Live(b, r, u, net, env')
  BY <1>1, <1>2, <1>3, <1>6, <1>7, <1>8, <1>9, <1>10, <1>11, <1>12
     DEF Live, ApPaid, StaPaid
<1> QED BY <1>1, <1>4, <1>13

\* Nothing is shared at first.
LEMMA LiveInit ==
    ASSUME Init
    PROVE  LiveInv
<1>1. /\ ComeInv /\ ap = NewSta /\ sta = NewSupplicant /\ net = {} /\ env \in Budgets
      /\ env \in EnvType
  BY ComeInit, BudgetAssumption DEF Init
<1>2. env.faults <= env.faults /\ env.oom <= env.oom
  BY <1>1 DEF EnvType
<1>3. /\ NewSta.key = NoKey /\ NewSta.timed_out = FALSE /\ NewSta.query = NoQuery
      /\ NewSupplicant.key = NoKey /\ NewSupplicant.query = NoQuery
  BY DEF NewSta, NewSupplicant
<1>4. ~Pending(NoQuery) /\ NoQuery.age = 0
  BY DEF NoQuery, Pending
<1>5. Live(env, ap, sta, net, env)
  BY <1>1, <1>2, <1>3, <1>4 DEF Live, Outcome, ApPaid, StaPaid, Shared
<1> QED BY <1>1, <1>5 DEF LiveInv

\* Every step keeps it for the budget it holds for.
LEMMA LiveNext ==
    ASSUME RequestsOutnumberFaults, LiveInv, [Next]_vars
    PROVE  LiveInv'
<1>1. ComeInv /\ ComeInv'
  BY ComeNext DEF LiveInv
<1>2. PICK b \in Budgets : Live(b, ap, sta, net, env)
  BY DEF LiveInv
<1>3. Live(b, ap', sta', net', env')
  <2>1. CASE ApNext
    BY <1>1, <1>2, <2>1, ApQueryTimerLive, HandleAuthLive, HandleAssocLive,
       HandleAssocCbLive, KeyHandshakeLive, ApForgetsLive, ApRxLive DEF ApNext
  <2>2. CASE StaNext
    BY <1>1, <1>2, <2>2, StaGoesLive, StaQueryTimerLive, StaUnprotDisconnectLive,
       StaRxLive DEF StaNext
  <2>3. CASE Tick
    BY <1>1, <1>2, <2>3, TickLive
  <2>4. CASE \E f \in net : Lose(f)
    BY <1>1, <1>2, <2>4, LoseLive
  <2>5. CASE UNCHANGED vars
    BY <1>2, <2>5 DEF vars
  <2> QED BY <2>1, <2>2, <2>3, <2>4, <2>5 DEF Next
<1>4. \E c \in Budgets : Live(c, ap', sta', net', env')
  BY <1>3
<1>5. (\E c \in Budgets : Live(c, ap, sta, net, env))'
  BY <1>4 DEF Live, Outcome, ApPaid, StaPaid, Shared, Paid, UnderWay, Pending
<1> QED BY <1>1, <1>5 DEF LiveInv

\* No request replaces a live association, in one step.
LEMMA KeptStep ==
    ASSUME RequestsOutnumberFaults, LiveInv, [Next]_vars
    PROVE  SameKey /\ ~ap.resp /\ ap'.resp => ap.query.carried
<1> SUFFICES ASSUME SameKey, ~ap.resp, ap'.resp, ~ap.query.carried
             PROVE  FALSE
  OBVIOUS
<1>1. PICK b \in Budgets : Live(b, ap, sta, net, env)
  BY DEF LiveInv
<1>2. /\ Good(ap, sta) /\ env \in EnvType /\ Shared(ap, sta) /\ ap \in ApType
  BY ComeInvGood DEF LiveInv, SameKey, Shared, Good
<1>3. MustQuery(CheckedTimeout(ap)) /\ CheckedTimeout(ap) = ap
  BY <1>1, <1>2, SharedMustQuery, CheckedTimeoutGood
<1>4. ap'.resp = ap.resp
  <2>1. CASE ApQueryTimer
    <3>1. CASE ap' = ApTimedOut(ap)
      BY <1>2, <3>1 DEF ApTimedOut, ApType
    <3>2. CASE ApSendRequest(ap) \/ ApNoMemory(ap)
      BY <1>2, <3>2 DEF ApSendRequest, ApNoMemory, ApType
    <3> QED BY <2>1, <3>1, <3>2 DEF ApQueryTimer
  <2>2. CASE \E own \in BOOLEAN : HandleAuth(own)
    <3>1. ap' = [AuthReset(ap) EXCEPT !.auth = TRUE]
      BY <2>2 DEF HandleAuth
    <3>2. CASE AuthReset(ap) = ap
      BY <1>2, <3>1, <3>2 DEF ApType
    <3>3. CASE AuthReset(ap) =
                 [ap EXCEPT !.assoc = FALSE, !.authorized = FALSE, !.key = NoKey]
      BY <1>2, <3>1, <3>3 DEF ApType
    <3> QED BY <3>2, <3>3 DEF AuthReset
  <2>3. CASE \E own \in BOOLEAN : HandleAssoc(own)
    <3>1. ap' = ap \/ ApSendRequest(ap) \/ ApNoMemory(ap)
      BY <1>3, <2>3 DEF HandleAssoc
    <3> QED BY <1>2, <3>1 DEF ApSendRequest, ApNoMemory, ApType
  <2>4. CASE \E ok \in BOOLEAN : HandleAssocCb(ok)
    BY <2>4 DEF HandleAssocCb
  <2>5. CASE KeyHandshake
    BY <1>2, <2>5 DEF KeyHandshake, ApType
  <2>6. CASE HandshakeTimeout \/ ApDrops
    BY <2>6 DEF HandshakeTimeout, ApDrops, NewSta
  <2>7. CASE \E f \in net : ApRx(f)
    BY <1>2, <2>7 DEF ApRx, ApType
  <2>8. CASE StaNext
    <3>1. ap' = ap \/ ap' = NewSta \/ ap' = Disassociated(ap)
      BY <2>8, Zenon DEF StaNext, StaAsks, StaGivesUp, StaDisassociates,
         StaDeauthenticates, StaRestarts, StaQueryTimer, StaUnprotDisconnect, StaRx,
         ApHearsDeauth
    <3>2. Disassociated(ap).resp = ap.resp
      BY <1>2, Zenon DEF Disassociated, ApType
    <3>3. NewSta.resp = FALSE
      BY DEF NewSta
    <3> QED BY <3>1, <3>2, <3>3
  <2>9. CASE Tick \/ \E f \in net : Lose(f)
    BY <1>2, <2>9 DEF Tick, Lose, ApType
  <2>10. CASE UNCHANGED vars
    BY <2>10 DEF vars
  <2> QED BY <2>1, <2>2, <2>3, <2>4, <2>5, <2>6, <2>7, <2>8, <2>9, <2>10
          DEF Next, ApNext
<1> QED BY <1>4

\* No live query of the station times out, in one step.
LEMMA StaysStep ==
    ASSUME RequestsOutnumberFaults, LiveInv
    PROVE  SameKey /\ StaQueryTimer /\ sta'.key = NoKey => sta.query.carried
<1> SUFFICES ASSUME SameKey, StaQueryTimer, sta'.key = NoKey, ~sta.query.carried
             PROVE  FALSE
  OBVIOUS
<1>1. PICK b \in Budgets : Live(b, ap, sta, net, env)
  BY DEF LiveInv
<1>2. /\ env \in EnvType /\ Shared(ap, sta) /\ sta \in StaType /\ sta.query \in Queries
  BY ComeInvGood DEF LiveInv, SameKey, Shared, Good, StaType
<1>3. ~TimedOut(sta.query)
  <2>1. CASE Pending(sta.query)
    <3>1. Paid(b, sta.query, "ap", "sta", sta.key, net, env)
      BY <1>1, <1>2, <2>1 DEF Live, StaPaid
    <3> QED BY <1>2, <3>1, PaidInTime
  <2>2. CASE ~Pending(sta.query)
    BY <1>1, <2>2, TimeoutAssumption DEF Live, Outcome, TimedOut
  <2> QED BY <2>1, <2>2
<1>4. sta'.key = sta.key
  BY <1>2, <1>3 DEF StaQueryTimer, StaSendRequest, StaType
<1> QED BY <1>2, <1>4 DEF Shared

\* check_assoc_ies() and ap_sa_query_timer(): as long as fewer frames are lost
\* or late than a query sends requests, no association request replaces the
\* association of a station that still has its PTK, but for a query that is
\* older than that PTK.
THEOREM LiveKept ==
    ASSUME RequestsOutnumberFaults
    PROVE  Spec => LiveAssociationKept
<1>1. Init => LiveInv
  BY LiveInit
<1>2. LiveInv /\ [Next]_vars => LiveInv'
  BY LiveNext
<1>3. LiveInv /\ [Next]_vars =>
        [SameKey /\ ~ap.resp /\ ap'.resp => ap.query.carried]_vars
  BY KeptStep
<1> QED BY <1>1, <1>2, <1>3, PTL DEF Spec, LiveAssociationKept

\* sme_check_sa_query_timeout(): under the same condition the station leaves an
\* AP that shares its PTK only because of a query older than that PTK.
THEOREM StaysWithAp ==
    ASSUME RequestsOutnumberFaults
    PROVE  Spec => StationStays
<1>1. Init => LiveInv
  BY LiveInit
<1>2. LiveInv /\ [Next]_vars => LiveInv'
  BY LiveNext
<1>3. LiveInv /\ [Next]_vars =>
        [SameKey /\ StaQueryTimer /\ sta'.key = NoKey => sta.query.carried]_vars
  BY StaysStep
<1> QED BY <1>1, <1>2, <1>3, PTL DEF Spec, StationStays
=============================================================================
