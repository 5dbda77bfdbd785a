---------------------------- MODULE SaeKeys_proof ----------------------------
(***************************************************************************)
(* Proofs about SaeAuth for any configurations, bounds and queue length.   *)
(***************************************************************************)
EXTENDS SaeAuth, TLAPS

Elems(s) == {s[i] : i \in DOMAIN s}

(***************************************************************************)
(* Queues.                                                                 *)
(***************************************************************************)

\* Taking the first frame.
LEMMA TailOf ==
    ASSUME NEW S, NEW s \in Seq(S), s # << >>
    PROVE  /\ Tail(s) \in Seq(S) /\ Elems(Tail(s)) \subseteq Elems(s)
           /\ Head(s) \in Elems(s) /\ Head(s) \in S /\ s[1] = Head(s)
<1>1. Tail(s) \in Seq(S) /\ Head(s) \in S /\ Head(s) = s[1] /\ 1 \in DOMAIN s
  OBVIOUS
<1>2. \A i \in DOMAIN Tail(s) : i + 1 \in DOMAIN s /\ Tail(s)[i] = s[i + 1]
  OBVIOUS
<1>3. Elems(Tail(s)) \subseteq Elems(s)
  BY <1>2 DEF Elems
<1> QED BY <1>1, <1>3 DEF Elems

\* Short sequences.
LEMMA ElemsShort ==
    ASSUME NEW a, NEW b
    PROVE  /\ Elems(<< >>) = {} /\ Elems(<<a>>) = {a} /\ Elems(<<a, b>>) = {a, b}
BY DEF Elems

\* What is put together from two sequences.
LEMMA ElemsCat ==
    ASSUME NEW S, NEW s \in Seq(S), NEW t \in Seq(S)
    PROVE  s \o t \in Seq(S) /\ Elems(s \o t) \subseteq Elems(s) \cup Elems(t)
<1>1. s \o t \in Seq(S)
  OBVIOUS
<1>2. \A i \in DOMAIN (s \o t) :
        \/ i \in DOMAIN s /\ (s \o t)[i] = s[i]
        \/ i - Len(s) \in DOMAIN t /\ (s \o t)[i] = t[i - Len(s)]
  OBVIOUS
<1>3. Elems(s \o t) \subseteq Elems(s) \cup Elems(t)
  BY <1>2 DEF Elems
<1> QED BY <1>1, <1>3

\* A queue takes frames and may lose some.
LEMMA QueueOf ==
    ASSUME NEW S, NEW s \in Seq(S), NEW t \in Seq(S)
    PROVE  Queue(s, t) \in Seq(S) /\ Elems(Queue(s, t)) \subseteq Elems(s) \cup Elems(t)
<1> DEFINE u == s \o t
<1>1. u \in Seq(S) /\ Elems(u) \subseteq Elems(s) \cup Elems(t)
  BY ElemsCat
<1>2. CASE ~(Len(u) > MaxQueue)
  BY <1>1, <1>2 DEF Queue
<1>3. CASE Len(u) > MaxQueue
  <2> DEFINE v == SubSeq(u, 1, MaxQueue)
  <2>1. Queue(s, t) = v
    BY <1>3 DEF Queue
  <2> HIDE DEF u
  <2>2. MaxQueue \in Nat /\ Len(u) \in Nat
    BY <1>1, SaeBoundsAssumption
  <2>3. /\ v \in Seq(S)
        /\ \A i \in DOMAIN v : i \in DOMAIN u /\ v[i] = u[i]
    BY <1>1, <1>3, <2>2
  <2> HIDE DEF v
  <2>4. Elems(v) \subseteq Elems(u)
    BY <2>3 DEF Elems
  <2> QED BY <1>1, <2>1, <2>3, <2>4
<1> QED BY <1>2, <1>3

(***************************************************************************)
(* Records and frames.                                                     *)
(***************************************************************************)

\* The counters have 16 bits.
LEMMA Bits == U16Max \in Nat /\ 0 \in U16 /\ U16Max \in U16
<1>1. U16Max \in Nat
  BY SMT DEF U16Max
<1> QED BY <1>1, SMT DEF U16

\* The constants of the module have their types.
LEMMA NewSaeType == NewSae \in SaeType /\ NoScalar \in Scalars /\ NoKey \in SUBSET Scalars
BY Bits DEF NewSae, SaeType, NoScalar, Scalars, NoKey, SaeStates

\* A Refusal.
LEMMA RefusalType ==
    ASSUME NEW trans \in {1, 2}, NEW status \in Statuses, NEW g \in Nat
    PROVE  LET f == Refusal(trans, status, g)
           IN  f \in SaeFrames /\ f.status = status /\ f.trans = trans /\ f.token = FALSE
BY NewSaeType, Bits DEF Refusal, SaeFrames

\* The fields that the invariant is about.
Like(e, d) ==
    /\ e \in SaeType
    /\ e.state = d.state /\ e.own_commit_scalar = d.own_commit_scalar
    /\ e.peer_commit_scalar = d.peer_commit_scalar
    /\ e.kck = d.kck /\ e.pmk = d.pmk /\ e.cached = d.cached /\ e.token = d.token

\* The fields of the data.
LEMMA Fields ==
    ASSUME NEW d \in SaeType
    PROVE  /\ d.state \in SaeStates /\ d.send_confirm \in U16 /\ d.rc \in U16
           /\ d.sync \in Nat /\ d.group \in Nat /\ d.peer_commit_scalar \in Scalars
           /\ d.pmk \in SUBSET Scalars /\ d.cached \in BOOLEAN /\ d.tmp \in BOOLEAN
           /\ d.own_commit_scalar \in Scalars /\ d.kck \in SUBSET Scalars
           /\ d.token \in BOOLEAN
BY DEF SaeType

\* Counters.
LEMMA Counters ==
    ASSUME NEW d \in SaeType
    PROVE  /\ Like(Confirmed(d), d) /\ Like(SyncError(d), d)
           /\ Like([d EXCEPT !.sync = 0], d)
           /\ \A n \in U16 : /\ Like([d EXCEPT !.send_confirm = n], d)
                             /\ Like([d EXCEPT !.rc = n], d)
<1>1. d.send_confirm \in U16 /\ d.sync \in Nat
  BY Fields
<1>2. /\ (IF d.send_confirm < U16Max THEN d.send_confirm + 1 ELSE d.send_confirm) \in U16
      /\ d.sync + 1 \in Nat /\ 0 \in Nat
  BY <1>1, Bits, SMT DEF U16
<1>3. Like(Confirmed(d), d)
  BY <1>2, Zenon DEF Like, Confirmed, SaeType
<1>4. Like(SyncError(d), d)
  BY <1>2, Zenon DEF Like, SyncError, SaeType
<1>5. Like([d EXCEPT !.sync = 0], d)
  BY <1>2, Zenon DEF Like, SaeType
<1>6. \A n \in U16 : /\ Like([d EXCEPT !.send_confirm = n], d)
                     /\ Like([d EXCEPT !.rc = n], d)
  BY Zenon DEF Like, SaeType
<1> QED BY <1>3, <1>4, <1>5, <1>6

(***************************************************************************)
(* Scalars and keys.                                                       *)
(***************************************************************************)

\* The commit scalars of p.
ScalarsOf(p) == {p} \X (Nat \ {0})

\* A scalar is known by its number, and is not NoScalar.
LEMMA ScalarNumber ==
    ASSUME NEW p \in Nodes, NEW s \in ScalarsOf(p), NEW t \in ScalarsOf(p)
    PROVE  /\ s \in Scalars /\ s # NoScalar /\ s = <<p, s[2]>> /\ s[2] \in Nat
           /\ s[2] = t[2] => s = t
<1>1. p \in Nat /\ p # 0
  BY DEF Nodes
<1>2. s = <<p, s[2]>> /\ t = <<p, t[2]>> /\ s[2] \in Nat \ {0}
  BY DEF ScalarsOf
<1> QED BY <1>1, <1>2 DEF Scalars, NoScalar

\* The next one.
LEMMA NewScalar ==
    ASSUME NEW p \in Nodes, NEW n \in Nat, n # 0
    PROVE  <<p, n>> \in ScalarsOf(p) /\ <<p, n>>[2] = n
BY DEF ScalarsOf

\* A key belongs to one pair of scalars.
LEMMA KeyOfPair ==
    ASSUME NEW p \in Nodes, NEW q \in Nodes, p # q,
           NEW s \in ScalarsOf(p), NEW s1 \in ScalarsOf(p),
           NEW t \in ScalarsOf(q), NEW t1 \in ScalarsOf(q)
    PROVE  /\ Key(s, t) = Key(t, s) /\ Key(s, t) # NoKey /\ Key(s, t) \in SUBSET Scalars
           /\ Key(s, t) = Key(s1, t1) => s = s1 /\ t = t1
<1>1. s[1] = p /\ s1[1] = p /\ t[1] = q /\ t1[1] = q
  BY DEF ScalarsOf
<1>2. s # t /\ s # t1 /\ s1 # t /\ s1 # t1
  BY <1>1
<1>3. s \in Scalars /\ t \in Scalars
  BY ScalarNumber
<1> QED BY <1>2, <1>3 DEF Key, NoKey

(***************************************************************************)
(* What holds of the data of one end, of its frames, and of both ends.  p  *)
(* has made n scalars and its peer q nq; m says that it is a mesh.         *)
(***************************************************************************)
Acc(d) == d.state = "ACCEPTED" /\ ~d.cached
IsConfirm(f) == f.trans = 2 /\ f.status = "OK"

\* A frame p has sent.
GoodFrame(m, p, q, f, n, nq) ==
    /\ f \in SaeFrames
    /\ f.status = "OK" => f.scalar \in ScalarsOf(p) /\ f.scalar[2] <= n
    /\ IsConfirm(f) => /\ f.peer_scalar \in ScalarsOf(q) /\ f.peer_scalar[2] <= nq
                       /\ f.kck = Key(f.scalar, f.peer_scalar)
    /\ m => ~f.token /\ f.status # "TOKEN_REQ"

\* The data at p; tm is its retransmission timer.
SideOK(m, p, q, d, tm, n, nq) ==
    /\ d \in SaeType
    /\ d.own_commit_scalar # NoScalar => n # 0 /\ d.own_commit_scalar = <<p, n>>
    /\ d.peer_commit_scalar # NoScalar =>
         d.peer_commit_scalar \in ScalarsOf(q) /\ d.peer_commit_scalar[2] <= nq
    /\ d.state \in {"COMMITTED", "CONFIRMED"} =>
         d.own_commit_scalar # NoScalar /\ d.pmk = d.kck /\ ~d.cached
    /\ IF m THEN ~d.token ELSE ~d.cached
    /\ \/ d.state = "COMMITTED" /\ p = 1 /\ ~m
       \/ d.state = "CONFIRMED" /\ m /\ tm
       => /\ d.kck = Key(d.own_commit_scalar, d.peer_commit_scalar)
          /\ d.peer_commit_scalar # NoScalar
    /\ Acc(d) => /\ d.kck \in {d.pmk, NoKey}
                 /\ \E s \in ScalarsOf(p), t \in ScalarsOf(q) :
                      s[2] <= n /\ t[2] <= nq /\ d.pmk = Key(s, t)

\* p has confirmed the exchange of s and t: the Confirm is among its frames F, or
\* its peer, with the data dq, has accepted it.
Said(s, t, F, dq) ==
    \/ \E f \in F : IsConfirm(f) /\ f.scalar = s /\ f.peer_scalar = t
    \/ Acc(dq) /\ dq.pmk = Key(s, t)

\* p confirms one exchange for a scalar, and none later than the accepted one.
LatestOK(p, q, d, F, dq) ==
    \A s \in ScalarsOf(p), t \in ScalarsOf(q) : Said(s, t, F, dq) =>
        /\ s = d.own_commit_scalar => d.kck = Key(s, t) /\ d.state # "COMMITTED"
        /\ \A s0 \in ScalarsOf(p), t0 \in ScalarsOf(q) :
             Acc(d) /\ d.pmk = Key(s0, t0) => s[2] <= s0[2] /\ (s = s0 => t = t0)

\* Of two exchanges confirmed by either end, one is the later for both.
CrossOK(p, q, d, F, dq, Fq) ==
    \A s, s1 \in ScalarsOf(p), t, t1 \in ScalarsOf(q) :
        Said(s, t, F, dq) /\ Said(t1, s1, Fq, d) => ~(s[2] < s1[2] /\ t1[2] < t[2])

Pair(m, p, q, d, tm, n, F, dq, tmq, nq, Fq) ==
    /\ SideOK(m, p, q, d, tm, n, nq) /\ SideOK(m, q, p, dq, tmq, nq, n)
    /\ \A f \in F : GoodFrame(m, p, q, f, n, nq)
    /\ \A f \in Fq : GoodFrame(m, q, p, f, nq, n)
    /\ LatestOK(p, q, d, F, dq) /\ LatestOK(q, p, dq, Fq, d)
    /\ CrossOK(p, q, d, F, dq, Fq)

\* The ends are interchangeable.
LEMMA Swap ==
    ASSUME NEW m, NEW p, NEW q, NEW d, NEW tm, NEW n, NEW F, NEW dq, NEW tmq, NEW nq,
           NEW Fq, Pair(m, p, q, d, tm, n, F, dq, tmq, nq, Fq)
    PROVE  Pair(m, q, p, dq, tmq, nq, Fq, d, tm, n, F)
<1>1. CrossOK(q, p, dq, Fq, d, F)
  BY DEF Pair, CrossOK
<1> QED BY <1>1 DEF Pair

\* What is confirmed has been made.
LEMMA SaidMade ==
    ASSUME NEW p \in Nodes, NEW q \in Nodes, p # q, NEW n \in Nat, NEW nq \in Nat,
           NEW m, NEW d, NEW tm, NEW F, NEW dq, NEW tmq, NEW Fq,
           Pair(m, p, q, d, tm, n, F, dq, tmq, nq, Fq),
           NEW s \in ScalarsOf(p), NEW t \in ScalarsOf(q), Said(s, t, F, dq)
    PROVE  s[2] <= n /\ t[2] <= nq
<1>1. CASE \E f \in F : IsConfirm(f) /\ f.scalar = s /\ f.peer_scalar = t
  BY <1>1 DEF Pair, GoodFrame, IsConfirm
<1>2. CASE Acc(dq) /\ dq.pmk = Key(s, t)
  <2>1. PICK t1 \in ScalarsOf(q), s1 \in ScalarsOf(p) :
           t1[2] <= nq /\ s1[2] <= n /\ dq.pmk = Key(t1, s1)
    BY <1>2 DEF Pair, SideOK
  <2>2. Key(s, t) = Key(t, s)
    BY KeyOfPair
  <2>3. Key(t1, s1) = Key(t, s) => t1 = t /\ s1 = s
    BY KeyOfPair
  <2> QED BY <1>2, <2>1, <2>2, <2>3
<1> QED BY <1>1, <1>2 DEF Said

\* Two ends that have accepted have the same PMK.
LEMMA PairAgrees ==
    ASSUME NEW p \in Nodes, NEW q \in Nodes, p # q, NEW n \in Nat, NEW nq \in Nat,
           NEW m, NEW d, NEW tm, NEW F, NEW dq, NEW tmq, NEW Fq,
           Pair(m, p, q, d, tm, n, F, dq, tmq, nq, Fq), Acc(d), Acc(dq)
    PROVE  d.pmk = dq.pmk
<1>1. PICK s \in ScalarsOf(p), t \in ScalarsOf(q) : d.pmk = Key(s, t)
  BY DEF Pair, SideOK
<1>2. PICK t1 \in ScalarsOf(q), s1 \in ScalarsOf(p) : dq.pmk = Key(t1, s1)
  BY DEF Pair, SideOK
<1>3. Key(t1, s1) = Key(s1, t1) /\ Key(s, t) = Key(t, s)
  BY KeyOfPair
<1>4. Said(s1, t1, F, dq) /\ Said(t, s, Fq, d)
  BY <1>1, <1>2, <1>3 DEF Said
<1>5. s1[2] <= s[2] /\ (s1 = s => t1 = t)
  BY <1>1, <1>4 DEF Pair, LatestOK
<1>6. t[2] <= t1[2] /\ (t = t1 => s = s1)
  BY <1>2, <1>4 DEF Pair, LatestOK
<1>7. ~(s1[2] < s[2] /\ t[2] < t1[2])
  BY <1>4 DEF Pair, CrossOK
<1>8. s[2] \in Nat /\ t[2] \in Nat /\ s1[2] \in Nat /\ t1[2] \in Nat
      /\ (s[2] = s1[2] => s = s1) /\ (t[2] = t1[2] => t = t1)
  BY ScalarNumber
<1>9. s = s1 /\ t = t1
  BY <1>5, <1>6, <1>7, <1>8
<1> QED BY <1>1, <1>2, <1>3, <1>9

(***************************************************************************)
(* The steps of one end: d0 and n0 become d and n, the frames out are      *)
(* sent, and a frame of its peer may be gone.                              *)
(***************************************************************************)
NewFrame(m, p, q, d, n, nq, f) ==
    /\ GoodFrame(m, p, q, f, n, nq)
    /\ IsConfirm(f) =>
         /\ f.scalar = <<p, n>>
         /\ d.own_commit_scalar = f.scalar => d.kck = f.kck /\ d.state # "COMMITTED"
         /\ Acc(d) => d.pmk = f.kck

\* The exchange in hand is a new one, or the old one with its keys.
SameOwn(d0, d) ==
    /\ d.own_commit_scalar = d0.own_commit_scalar
    /\ d.state = "COMMITTED" => d0.state = "COMMITTED"
    /\ d.kck = d0.kck \/ d0.state = "COMMITTED"

\* The peer was accepted before, or has confirmed the exchange in hand.
Accepts(d0, n0, Fq, d, n) ==
    \/ Acc(d0) /\ d.pmk = d0.pmk
    \/ /\ n = n0 /\ d.pmk = d0.kck /\ d0.own_commit_scalar # NoScalar
       /\ \E f \in Fq : IsConfirm(f) /\ CheckConfirm(d0, f)

Legal(m, p, q, d0, n0, nq, Fq, d, tm, n, out) ==
    /\ n \in {n0, n0 + 1}
    /\ SideOK(m, p, q, d, tm, n, nq)
    /\ \A f \in out : NewFrame(m, p, q, d, n, nq, f)
    /\ d.own_commit_scalar = NoScalar \/ n = n0 + 1 \/ SameOwn(d0, d)
    /\ Acc(d) => Accepts(d0, n0, Fq, d, n)

\* A peer is accepted when the keys are those of a Confirm it has sent.
LEMMA Verified ==
    ASSUME NEW p \in Nodes, NEW q \in Nodes, p # q, NEW n \in Nat, NEW nq \in Nat,
           NEW m, NEW d, NEW tm, NEW f,
           SideOK(m, p, q, d, tm, n, nq), GoodFrame(m, q, p, f, nq, n),
           IsConfirm(f), CheckConfirm(d, f)
    PROVE  /\ d.own_commit_scalar \in ScalarsOf(p) /\ d.own_commit_scalar = <<p, n>>
           /\ d.own_commit_scalar[2] = n /\ n # 0
           /\ d.peer_commit_scalar \in ScalarsOf(q) /\ d.peer_commit_scalar[2] <= nq
           /\ f.scalar = d.peer_commit_scalar /\ f.peer_scalar = d.own_commit_scalar
           /\ d.kck = Key(d.own_commit_scalar, d.peer_commit_scalar) /\ d.kck # NoKey
<1>1. /\ f.scalar = d.peer_commit_scalar /\ f.peer_scalar = d.own_commit_scalar
      /\ f.kck = d.kck
  BY DEF CheckConfirm
<1>2. /\ f.scalar \in ScalarsOf(q) /\ f.scalar[2] <= nq /\ f.peer_scalar \in ScalarsOf(p)
      /\ f.kck = Key(f.scalar, f.peer_scalar)
  BY DEF GoodFrame, IsConfirm
<1>3. f.peer_scalar # NoScalar
  BY <1>2, ScalarNumber
<1>4. n # 0 /\ f.peer_scalar = <<p, n>>
  BY <1>1, <1>3 DEF SideOK
<1>5. <<p, n>>[2] = n
  OBVIOUS
<1>6. /\ Key(f.scalar, f.peer_scalar) = Key(f.peer_scalar, f.scalar)
      /\ Key(f.scalar, f.peer_scalar) # NoKey
  BY <1>2, KeyOfPair
<1> QED BY <1>1, <1>2, <1>4, <1>5, <1>6

\* A legal step keeps Pair.
LEMMA StepOK ==
    ASSUME NEW p \in Nodes, NEW q \in Nodes, p # q, NEW n0 \in Nat, NEW nq \in Nat,
           NEW m, NEW d0, NEW tm0, NEW F0, NEW dq, NEW tmq, NEW Fq0,
           Pair(m, p, q, d0, tm0, n0, F0, dq, tmq, nq, Fq0),
           NEW d, NEW tm, NEW n, NEW out,
           Legal(m, p, q, d0, n0, nq, Fq0, d, tm, n, out),
           NEW F, F \subseteq F0 \cup out, NEW Fq, Fq \subseteq Fq0
    PROVE  Pair(m, p, q, d, tm, n, F, dq, tmq, nq, Fq)
<1>1. n \in Nat /\ n0 <= n /\ (n = n0 \/ n = n0 + 1)
  BY DEF Legal
<1>2. /\ SideOK(m, p, q, d0, tm0, n0, nq) /\ SideOK(m, q, p, dq, tmq, nq, n0)
      /\ \A f \in F0 : GoodFrame(m, p, q, f, n0, nq)
      /\ \A f \in Fq0 : GoodFrame(m, q, p, f, nq, n0)
      /\ LatestOK(p, q, d0, F0, dq) /\ LatestOK(q, p, dq, Fq0, d0)
      /\ CrossOK(p, q, d0, F0, dq, Fq0)
  BY DEF Pair
<1>3. SideOK(m, p, q, d, tm, n, nq)
  BY DEF Legal
<1>4. SideOK(m, q, p, dq, tmq, nq, n)
  <2>1. \A s \in ScalarsOf(p) : s[2] \in Nat
    BY ScalarNumber
  <2>2. Acc(dq) => \E t \in ScalarsOf(q), s \in ScalarsOf(p) :
                      t[2] <= nq /\ s[2] <= n /\ dq.pmk = Key(t, s)
    BY <1>1, <1>2, <2>1 DEF SideOK
  <2>3. dq.peer_commit_scalar # NoScalar => dq.peer_commit_scalar[2] <= n
    BY <1>1, <1>2, <2>1 DEF SideOK
  <2> QED BY <1>2, <2>2, <2>3 DEF SideOK
<1>5. \A f \in F : GoodFrame(m, p, q, f, n, nq)
  <2>1. \A s \in ScalarsOf(p) : s[2] \in Nat
    BY ScalarNumber
  <2>2. \A f : GoodFrame(m, p, q, f, n0, nq) => GoodFrame(m, p, q, f, n, nq)
    BY <1>1, <2>1 DEF GoodFrame
  <2>3. \A f \in out : GoodFrame(m, p, q, f, n, nq)
    BY DEF Legal, NewFrame
  <2> QED BY <1>2, <2>2, <2>3
<1>6. \A f \in Fq : GoodFrame(m, q, p, f, nq, n)
  <2>1. \A s \in ScalarsOf(p) : s[2] \in Nat
    BY ScalarNumber
  <2>2. \A f : GoodFrame(m, q, p, f, nq, n0) => GoodFrame(m, q, p, f, nq, n)
    BY <1>1, <2>1 DEF GoodFrame
  <2> QED BY <1>2, <2>2
\* An exchange that p accepts now was confirmed by its peer.
<1>7. ASSUME Acc(d), ~(Acc(d0) /\ d.pmk = d0.pmk)
      PROVE  /\ n = n0 /\ d0.own_commit_scalar \in ScalarsOf(p)
             /\ d0.own_commit_scalar = <<p, n>> /\ d0.own_commit_scalar[2] = n
             /\ d0.peer_commit_scalar \in ScalarsOf(q)
             /\ d.pmk = Key(d0.own_commit_scalar, d0.peer_commit_scalar)
             /\ d.pmk = d0.kck
             /\ \E f \in Fq0 : /\ IsConfirm(f) /\ f.scalar = d0.peer_commit_scalar
                               /\ f.peer_scalar = d0.own_commit_scalar
  <2>1. PICK f \in Fq0 : IsConfirm(f) /\ CheckConfirm(d0, f)
    BY <1>7 DEF Legal, Accepts
  <2>2. n = n0 /\ d.pmk = d0.kck
    BY <1>7 DEF Legal, Accepts
  <2>3. GoodFrame(m, q, p, f, nq, n0)
    BY <1>2
  <2>4. /\ d0.own_commit_scalar \in ScalarsOf(p) /\ d0.own_commit_scalar = <<p, n0>>
        /\ d0.own_commit_scalar[2] = n0
        /\ d0.peer_commit_scalar \in ScalarsOf(q)
        /\ f.scalar = d0.peer_commit_scalar /\ f.peer_scalar = d0.own_commit_scalar
        /\ d0.kck = Key(d0.own_commit_scalar, d0.peer_commit_scalar)
    BY <1>2, <2>1, <2>3, Verified
  <2> QED BY <2>1, <2>2, <2>4
\* The peer has confirmed nothing more.
<1>8. ASSUME NEW t \in ScalarsOf(q), NEW s \in ScalarsOf(p), Said(t, s, Fq, d)
      PROVE  Said(t, s, Fq0, d0)
  <2>1. CASE \E f \in Fq : IsConfirm(f) /\ f.scalar = t /\ f.peer_scalar = s
    BY <2>1 DEF Said
  <2>2. CASE Acc(d) /\ d.pmk = Key(t, s) /\ Acc(d0) /\ d.pmk = d0.pmk
    BY <2>2 DEF Said
  <2>3. CASE Acc(d) /\ d.pmk = Key(t, s) /\ ~(Acc(d0) /\ d.pmk = d0.pmk)
    <3>1. /\ d0.own_commit_scalar \in ScalarsOf(p) /\ d0.peer_commit_scalar \in ScalarsOf(q)
          /\ d.pmk = Key(d0.own_commit_scalar, d0.peer_commit_scalar)
      BY <1>7, <2>3
    <3>2. Key(t, s) = Key(s, t)
      BY KeyOfPair
    <3>3. Key(d0.own_commit_scalar, d0.peer_commit_scalar) = Key(s, t) =>
             d0.own_commit_scalar = s /\ d0.peer_commit_scalar = t
      BY <3>1, KeyOfPair
    <3>4. s = d0.own_commit_scalar /\ t = d0.peer_commit_scalar
      BY <2>3, <3>1, <3>2, <3>3
    <3> QED BY <1>7, <2>3, <3>4 DEF Said
  <2> QED BY <1>8, <2>1, <2>2, <2>3 DEF Said
\* p has confirmed what it had, and the exchange in hand.
<1>9. ASSUME NEW s \in ScalarsOf(p), NEW t \in ScalarsOf(q), Said(s, t, F, dq)
      PROVE  \/ Said(s, t, F0, dq)
             \/ /\ s = <<p, n>> /\ s[2] = n
                /\ d.own_commit_scalar = s => d.kck = Key(s, t) /\ d.state # "COMMITTED"
                /\ Acc(d) => d.pmk = Key(s, t)
  <2>1. CASE Acc(dq) /\ dq.pmk = Key(s, t)
    BY <2>1 DEF Said
  <2>2. ASSUME NEW f \in F, IsConfirm(f), f.scalar = s, f.peer_scalar = t, f \in out
        PROVE  /\ s = <<p, n>> /\ s[2] = n
               /\ d.own_commit_scalar = s => d.kck = Key(s, t) /\ d.state # "COMMITTED"
               /\ Acc(d) => d.pmk = Key(s, t)
    <3>1. NewFrame(m, p, q, d, n, nq, f)
      BY <2>2 DEF Legal
    <3>2. f.kck = Key(s, t) /\ s = <<p, n>>
      BY <2>2, <3>1 DEF NewFrame, GoodFrame
    <3> QED BY <2>2, <3>1, <3>2 DEF NewFrame
  <2>3. ASSUME NEW f \in F, IsConfirm(f), f.scalar = s, f.peer_scalar = t, f \notin out
        PROVE  Said(s, t, F0, dq)
    BY <2>3 DEF Said
  <2> QED BY <1>9, <2>1, <2>2, <2>3 DEF Said
\* What was confirmed had been made.
<1>10. \A s \in ScalarsOf(p), t \in ScalarsOf(q) : Said(s, t, F0, dq) => s[2] <= n0
  BY SaidMade
<1>11. \A t \in ScalarsOf(q), s \in ScalarsOf(p) : Said(t, s, Fq0, d0) => s[2] <= n0
  <2>1. Pair(m, q, p, dq, tmq, nq, Fq0, d0, tm0, n0, F0)
    BY Swap
  <2> QED BY <2>1, SaidMade
<1>12. LatestOK(p, q, d, F, dq)
  <2> SUFFICES ASSUME NEW s \in ScalarsOf(p), NEW t \in ScalarsOf(q), Said(s, t, F, dq)
               PROVE  /\ s = d.own_commit_scalar => d.kck = Key(s, t) /\ d.state # "COMMITTED"
                      /\ \A s0 \in ScalarsOf(p), t0 \in ScalarsOf(q) :
                           Acc(d) /\ d.pmk = Key(s0, t0) =>
                             s[2] <= s0[2] /\ (s = s0 => t = t0)
    BY DEF LatestOK
  <2>1. ASSUME s = d.own_commit_scalar
        PROVE  d.kck = Key(s, t) /\ d.state # "COMMITTED"
    <3>1. CASE Said(s, t, F0, dq)
      <4>1. s[2] <= n0 /\ s[2] \in Nat /\ s # NoScalar
        BY <3>1, <1>10, ScalarNumber
      <4>2. s = <<p, n>> /\ s[2] = n
        BY <1>3, <2>1, <4>1 DEF SideOK
      <4>3. n # n0 + 1
        BY <1>1, <4>1, <4>2
      <4>4. SameOwn(d0, d)
        BY <2>1, <4>1, <4>3 DEF Legal
      <4>5. d0.kck = Key(s, t) /\ d0.state # "COMMITTED"
        BY <1>2, <2>1, <3>1, <4>4 DEF LatestOK, SameOwn
      <4> QED BY <4>4, <4>5 DEF SameOwn
    <3> QED BY <1>9, <2>1, <3>1
  <2>2. ASSUME NEW s0 \in ScalarsOf(p), NEW t0 \in ScalarsOf(q), Acc(d), d.pmk = Key(s0, t0)
        PROVE  s[2] <= s0[2] /\ (s = s0 => t = t0)
    <3>1. CASE ~Said(s, t, F0, dq)
      <4>1. Key(s, t) = Key(s0, t0)
        BY <1>9, <2>2, <3>1
      <4>2. s = s0 /\ t = t0
        BY <4>1, KeyOfPair
      <4>3. s[2] \in Nat
        BY ScalarNumber
      <4> QED BY <4>2, <4>3
    <3>2. CASE Said(s, t, F0, dq) /\ Acc(d0) /\ d.pmk = d0.pmk
      <4>1. LatestOK(p, q, d0, F0, dq) /\ Acc(d0) /\ d0.pmk = Key(s0, t0)
        BY <1>2, <2>2, <3>2
      <4> QED BY <3>2, <4>1, Zenon DEF LatestOK
    <3>3. CASE Said(s, t, F0, dq) /\ ~(Acc(d0) /\ d.pmk = d0.pmk)
      <4>1. /\ n = n0 /\ d0.own_commit_scalar \in ScalarsOf(p)
            /\ d0.own_commit_scalar[2] = n
            /\ d0.peer_commit_scalar \in ScalarsOf(q)
            /\ d.pmk = Key(d0.own_commit_scalar, d0.peer_commit_scalar)
            /\ d.pmk = d0.kck
        BY <1>7, <2>2, <3>3
      <4> DEFINE s1 == d0.own_commit_scalar
                 t1 == d0.peer_commit_scalar
      <4> HIDE DEF s1, t1
      <4>6. s1 \in ScalarsOf(p) /\ t1 \in ScalarsOf(q) /\ Key(s1, t1) = Key(s0, t0)
        BY <2>2, <4>1 DEF s1, t1
      <4>7. s1 = s0 /\ t1 = t0
        BY <4>6, KeyOfPair
      <4>2. s0 = d0.own_commit_scalar /\ t0 = d0.peer_commit_scalar
        BY <4>7 DEF s1, t1
      <4>3. s[2] <= n0
        BY <1>10, <3>3
      <4>4. ASSUME s = s0
            PROVE  t = t0
        <5>1. d0.kck = Key(s, t)
          BY <1>2, <3>3, <4>2, <4>4 DEF LatestOK
        <5>2. Key(s, t) = Key(s0, t0)
          BY <2>2, <4>1, <5>1
        <5> QED BY <5>2, KeyOfPair
      <4> QED BY <4>1, <4>2, <4>3, <4>4
    <3> QED BY <3>1, <3>2, <3>3
  <2> QED BY <2>1, <2>2
<1>13. LatestOK(q, p, dq, Fq, d)
  BY <1>2, <1>8 DEF LatestOK
<1>14. CrossOK(p, q, d, F, dq, Fq)
  <2> SUFFICES ASSUME NEW s \in ScalarsOf(p), NEW s1 \in ScalarsOf(p),
                      NEW t \in ScalarsOf(q), NEW t1 \in ScalarsOf(q),
                      Said(s, t, F, dq), Said(t1, s1, Fq, d)
               PROVE  ~(s[2] < s1[2] /\ t1[2] < t[2])
    BY DEF CrossOK
  <2>1. Said(t1, s1, Fq0, d0) /\ s1[2] <= n0
    BY <1>8, <1>11
  <2>2. CASE Said(s, t, F0, dq)
    BY <1>2, <2>1, <2>2 DEF CrossOK
  <2>3. CASE s[2] = n
    <3>1. s1[2] \in Nat
      BY ScalarNumber
    <3> QED BY <1>1, <2>1, <2>3, <3>1
  <2> QED BY <1>9, <2>2, <2>3
<1> QED BY <1>3, <1>4, <1>5, <1>6, <1>12, <1>13, <1>14 DEF Pair

\* A refusal.
LEMMA SendsRefusal ==
    ASSUME NEW m, NEW p, NEW q, NEW d, NEW n, NEW nq,
           NEW trans \in {1, 2}, NEW status \in Statuses \ {"OK"}, NEW g \in Nat,
           m => status # "TOKEN_REQ"
    PROVE  NewFrame(m, p, q, d, n, nq, Refusal(trans, status, g))
<1> DEFINE f == Refusal(trans, status, g)
<1>1. f \in SaeFrames /\ f.status = status /\ f.token = FALSE
  BY RefusalType, ZenonT(60)
<1> HIDE DEF f
<1>2. NewFrame(m, p, q, d, n, nq, f)
  BY <1>1 DEF NewFrame, GoodFrame, IsConfirm
<1> QED BY <1>2 DEF f

\* A Commit.
LEMMA SendsCommit ==
    ASSUME NEW m, NEW p \in Nodes, NEW q, NEW d, NEW n \in Nat, n # 0, NEW nq,
           NEW e \in SaeType, e.own_commit_scalar = <<p, n>>,
           NEW token \in BOOLEAN, m => ~token
    PROVE  /\ NewFrame(m, p, q, d, n, nq, CommitFrame(e, token))
           /\ CommitFrame(e, token) \in SaeFrames
<1> DEFINE f == CommitFrame(e, token)
<1>1. e.group \in Nat /\ e.own_commit_scalar \in Scalars
  BY Fields
<1>2. /\ f \in SaeFrames /\ f.status = "OK" /\ f.trans = 1
      /\ f.token = token /\ f.scalar = e.own_commit_scalar
  BY <1>1, NewSaeType, Bits DEF CommitFrame, Refusal, SaeFrames, Statuses
<1>3. e.own_commit_scalar \in ScalarsOf(p) /\ e.own_commit_scalar[2] = n
  BY NewScalar
<1> HIDE DEF f
<1>4. GoodFrame(m, p, q, f, n, nq)
  BY <1>2, <1>3 DEF GoodFrame, IsConfirm
<1>5. NewFrame(m, p, q, d, n, nq, f)
  BY <1>2, <1>4 DEF NewFrame, IsConfirm
<1> QED BY <1>2, <1>5 DEF f

\* A Confirm.
LEMMA SendsConfirm ==
    ASSUME NEW m, NEW p \in Nodes, NEW q \in Nodes, p # q, NEW d, NEW n \in Nat, n # 0,
           NEW nq \in Nat,
           NEW e \in SaeType, e.own_commit_scalar = <<p, n>>,
           e.peer_commit_scalar \in ScalarsOf(q), e.peer_commit_scalar[2] <= nq,
           e.kck = Key(e.own_commit_scalar, e.peer_commit_scalar),
           d.own_commit_scalar = <<p, n>> => d.kck = e.kck /\ d.state # "COMMITTED",
           Acc(d) => d.pmk = e.kck
    PROVE  /\ NewFrame(m, p, q, d, n, nq, ConfirmFrame(e))
           /\ ConfirmFrame(e) \in SaeFrames
<1> DEFINE f == ConfirmFrame(e)
<1>1. /\ e.send_confirm \in U16 /\ e.own_commit_scalar \in Scalars
      /\ e.peer_commit_scalar \in Scalars /\ e.kck \in SUBSET Scalars
  BY Fields
<1>2. /\ f \in SaeFrames /\ f.status = "OK" /\ f.trans = 2 /\ f.token = FALSE
      /\ f.scalar = e.own_commit_scalar /\ f.peer_scalar = e.peer_commit_scalar
      /\ f.kck = e.kck
  BY <1>1, NewSaeType, Bits DEF ConfirmFrame, Refusal, SaeFrames, Statuses
<1>3. e.own_commit_scalar \in ScalarsOf(p) /\ e.own_commit_scalar[2] = n
  BY NewScalar
<1> HIDE DEF f
<1>4. GoodFrame(m, p, q, f, n, nq)
  BY <1>2, <1>3 DEF GoodFrame, IsConfirm
<1>5. NewFrame(m, p, q, d, n, nq, f)
  BY <1>2, <1>4 DEF NewFrame, IsConfirm
<1> QED BY <1>2, <1>5 DEF f

(***************************************************************************)
(* Data.                                                                   *)
(***************************************************************************)

\* sae_set_group() forgets.
LEMMA SetGroupNew ==
    ASSUME NEW d, NEW g \in Nat
    PROVE  Like(SetGroup(d, g), NewSae) /\ SetGroup(d, g).tmp = TRUE
           /\ SetGroup(d, g).group = g
BY NewSaeType, Zenon DEF SetGroup, Like, NewSae, SaeType, SaeStates

\* The keys of an exchange.
LEMMA Processed ==
    ASSUME NEW d \in SaeType
    PROVE  LET e == ProcessCommit(d) IN
           /\ e \in SaeType /\ e.state = d.state /\ e.token = d.token
           /\ e.own_commit_scalar = d.own_commit_scalar
           /\ e.peer_commit_scalar = d.peer_commit_scalar
           /\ e.kck = Key(d.own_commit_scalar, d.peer_commit_scalar)
           /\ e.pmk = e.kck /\ e.cached = FALSE
<1>1. Key(d.own_commit_scalar, d.peer_commit_scalar) \in SUBSET Scalars
  BY Fields DEF Key
<1> QED BY <1>1, Zenon DEF ProcessCommit, SaeType

\* A new scalar of its own.
LEMMA UpdatesOwn ==
    ASSUME NEW d \in SaeType, NEW s \in Scalars
    PROVE  LET e == [d EXCEPT !.own_commit_scalar = s] IN
           /\ e \in SaeType /\ e.state = d.state /\ e.token = d.token
           /\ e.own_commit_scalar = s /\ e.kck = d.kck /\ e.pmk = d.pmk
           /\ e.peer_commit_scalar = d.peer_commit_scalar /\ e.cached = d.cached
BY Zenon DEF SaeType

\* A scalar of the peer.
LEMMA UpdatesPeer ==
    ASSUME NEW d \in SaeType, NEW s \in Scalars
    PROVE  LET e == [d EXCEPT !.peer_commit_scalar = s] IN
           /\ e \in SaeType /\ e.state = d.state /\ e.token = d.token
           /\ e.own_commit_scalar = d.own_commit_scalar /\ e.kck = d.kck
           /\ e.pmk = d.pmk /\ e.peer_commit_scalar = s /\ e.cached = d.cached
BY Zenon DEF SaeType

\* The same but for the state.
InState(e, d, st) ==
    /\ e \in SaeType /\ e.state = st /\ e.token = d.token
    /\ e.own_commit_scalar = d.own_commit_scalar /\ e.kck = d.kck
    /\ e.pmk = d.pmk /\ e.peer_commit_scalar = d.peer_commit_scalar
    /\ e.cached = d.cached

\* A state.
LEMMA UpdatesState ==
    ASSUME NEW d \in SaeType, NEW st \in SaeStates
    PROVE  InState([d EXCEPT !.state = st], d, st)
BY Zenon DEF SaeType, InState

\* sae_check_big_sync() and sae_clear_temp_data().
LEMMA Clears ==
    ASSUME NEW d \in SaeType
    PROVE  /\ LET e == Desynchronized(d) IN
              /\ e \in SaeType /\ e.state = "NOTHING" /\ e.token = d.token
              /\ e.own_commit_scalar = d.own_commit_scalar /\ e.kck = d.kck
              /\ e.pmk = d.pmk /\ e.peer_commit_scalar = d.peer_commit_scalar
              /\ e.cached = d.cached
           /\ LET e == ClearTempData(d) IN
              /\ e \in SaeType /\ e.state = d.state /\ e.token = FALSE
              /\ e.own_commit_scalar = NoScalar /\ e.kck = NoKey
              /\ e.pmk = d.pmk /\ e.peer_commit_scalar = d.peer_commit_scalar
              /\ e.cached = d.cached
<1>1. "NOTHING" \in SaeStates /\ 0 \in Nat
  BY DEF SaeStates
<1>2. LET e == Desynchronized(d) IN
      /\ e \in SaeType /\ e.state = "NOTHING" /\ e.token = d.token
      /\ e.own_commit_scalar = d.own_commit_scalar /\ e.kck = d.kck
      /\ e.pmk = d.pmk /\ e.peer_commit_scalar = d.peer_commit_scalar
      /\ e.cached = d.cached
  BY <1>1, Zenon DEF Desynchronized, SaeType
<1>3. LET e == ClearTempData(d) IN
      /\ e \in SaeType /\ e.state = d.state /\ e.token = FALSE
      /\ e.own_commit_scalar = NoScalar /\ e.kck = NoKey
      /\ e.pmk = d.pmk /\ e.peer_commit_scalar = d.peer_commit_scalar
      /\ e.cached = d.cached
  BY NewSaeType, Zenon DEF ClearTempData, SaeType
<1> QED BY <1>2, <1>3

\* sae_group_allowed().
LEMMA GroupCases ==
    ASSUME NEW d \in SaeType, NEW G, NEW g \in Nat
    PROVE  LET e == GroupData(d, G, g) IN
           /\ e = d \/ (d.state # "COMMITTED" /\ Like(e, NewSae))
           /\ GroupStatus(d, G, g) \in Statuses \ {"TOKEN_REQ"}
<1>1. GroupData(d, G, g) = d
      \/ (d.state # "COMMITTED" /\ GroupData(d, G, g) = SetGroup(d, g))
  BY DEF GroupData
<1>2. GroupStatus(d, G, g) \in {"GROUP_NOT_SUPPORTED", "OK", "UNSPECIFIED_FAILURE"}
  BY DEF GroupStatus
<1> QED BY <1>1, <1>2, SetGroupNew DEF Statuses

\* sae_parse_commit().
LEMMA ParseCases ==
    ASSUME NEW d \in SaeType, NEW G, NEW f \in SaeFrames
    PROVE  LET g == GroupData(d, G, f.group)
               e == ParseData(d, G, f) IN
           /\ ParseStatus(d, G, f) \in Statuses \ {"TOKEN_REQ"}
           /\ e = g \/ e = [g EXCEPT !.peer_commit_scalar = f.scalar]
           /\ ParseStatus(d, G, f) = "OK" => e = [g EXCEPT !.peer_commit_scalar = f.scalar]
           /\ ParseStatus(d, G, f) # "OK" => e = g
<1> DEFINE g == GroupData(d, G, f.group)
           e == ParseData(d, G, f)
           gs == GroupStatus(d, G, f.group)
           ps == ParseStatus(d, G, f)
<1>1. f.group \in Nat
  BY DEF SaeFrames
<1>2. gs \in Statuses \ {"TOKEN_REQ"} /\ (d.state = "COMMITTED" => g = d)
  BY <1>1, GroupCases
<1>3. ps = IF gs # "OK" THEN gs ELSE IF ScalarReused(g, f) THEN "UNSPECIFIED_FAILURE" ELSE "OK"
  BY DEF ParseStatus
<1>4. e = IF gs # "OK" \/ ScalarReused(g, f) THEN g
          ELSE [g EXCEPT !.peer_commit_scalar = f.scalar]
  BY DEF ParseData
<1> HIDE DEF g, e, gs, ps
<1>5. /\ ps \in Statuses \ {"TOKEN_REQ"}
      /\ e = g \/ e = [g EXCEPT !.peer_commit_scalar = f.scalar]
      /\ ps = "OK" => e = [g EXCEPT !.peer_commit_scalar = f.scalar]
      /\ ps # "OK" => e = g
  <2>1. CASE gs # "OK"
    BY <1>2, <1>3, <1>4, <2>1 DEF Statuses
  <2>2. CASE gs = "OK" /\ ScalarReused(g, f)
    BY <1>2, <1>3, <1>4, <2>2 DEF Statuses
  <2>3. CASE gs = "OK" /\ ~ScalarReused(g, f)
    BY <1>2, <1>3, <1>4, <2>3 DEF Statuses
  <2> QED BY <2>1, <2>2, <2>3
<1> QED BY <1>5 DEF g, e, gs, ps

(***************************************************************************)
(* Legal steps.                                                            *)
(***************************************************************************)

\* A step that makes no scalar, confirms nothing and accepts nobody.
LEMMA QuietLegal ==
    ASSUME NEW m, NEW p, NEW q, NEW d0, NEW n0 \in Nat, NEW nq, NEW Fq, NEW d, NEW tm,
           NEW out, \A f \in out : NewFrame(m, p, q, d, n0, nq, f),
           SideOK(m, p, q, d, tm, n0, nq),
           d.own_commit_scalar = NoScalar \/ SameOwn(d0, d),
           Acc(d) => Acc(d0) /\ d.pmk = d0.pmk
    PROVE  Legal(m, p, q, d0, n0, nq, Fq, d, tm, n0, out)
BY DEF Legal, Accepts

\* Everything is forgotten.
LEMMA Forgets ==
    ASSUME NEW m, NEW p, NEW q, NEW d0, NEW n0 \in Nat, NEW nq, NEW Fq, NEW d, NEW tm,
           NEW out, \A f \in out : NewFrame(m, p, q, d, n0, nq, f), Like(d, NewSae)
    PROVE  Legal(m, p, q, d0, n0, nq, Fq, d, tm, n0, out)
<1>1. /\ d \in SaeType /\ d.state = "NOTHING" /\ d.own_commit_scalar = NoScalar
      /\ d.peer_commit_scalar = NoScalar /\ d.cached = FALSE /\ d.token = FALSE
  BY DEF Like, NewSae
<1>2. SideOK(m, p, q, d, tm, n0, nq) /\ ~Acc(d)
  BY <1>1 DEF SideOK, Acc
<1> QED BY <1>1, <1>2, QuietLegal

\* Only counters change, and a timer may be stopped.
LEMMA Keeps ==
    ASSUME NEW m, NEW p, NEW q, NEW d0, NEW n0 \in Nat, NEW nq, NEW Fq, NEW d,
           NEW tm0, NEW tm, SideOK(m, p, q, d0, tm0, n0, nq),
           m /\ tm /\ d0.state = "CONFIRMED" => tm0,
           NEW out, \A f \in out : NewFrame(m, p, q, d, n0, nq, f), Like(d, d0)
    PROVE  Legal(m, p, q, d0, n0, nq, Fq, d, tm, n0, out)
<1>1. SideOK(m, p, q, d, tm, n0, nq)
  BY DEF SideOK, Like, Acc
<1>2. SameOwn(d0, d) /\ (Acc(d) => Acc(d0) /\ d.pmk = d0.pmk)
  BY DEF Like, SameOwn, Acc
<1> QED BY <1>1, <1>2, QuietLegal

\* No retransmission timer runs.
Off == FALSE

\* The data of an AP that has sent a Commit.
ApCommitted(m, p, d) == d.state = "COMMITTED" /\ p = 1 /\ ~m

\* A Commit is parsed, before it is known whether it counts.
LEMMA Parses ==
    ASSUME NEW m, NEW p \in Nodes, NEW q \in Nodes, p # q, NEW d0, NEW n0 \in Nat,
           NEW nq \in Nat, NEW Fq, NEW tm0, NEW G, NEW f,
           SideOK(m, p, q, d0, tm0, n0, nq), ~ApCommitted(m, p, d0),
           GoodFrame(m, q, p, f, nq, n0), f.status = "OK"
    PROVE  LET d == ParseData(d0, G, f) IN
           /\ Legal(m, p, q, d0, n0, nq, Fq, d, Off, n0, {})
           /\ ParseStatus(d0, G, f) = "OK" => d.peer_commit_scalar # NoScalar
           /\ d.state = "COMMITTED" => d0.state = "COMMITTED"
<1> DEFINE d == ParseData(d0, G, f)
           g == GroupData(d0, G, f.group)
<1>1. d0 \in SaeType /\ f \in SaeFrames /\ f.group \in Nat
  BY DEF SideOK, GoodFrame, SaeFrames
<1>2. f.scalar \in ScalarsOf(q) /\ f.scalar[2] <= nq /\ f.scalar # NoScalar /\ f.scalar \in Scalars
  BY ScalarNumber DEF GoodFrame
<1>3. g \in SaeType /\ (g = d0 \/ Like(g, NewSae))
  BY <1>1, GroupCases DEF Like
<1>4. /\ d = g \/ d = [g EXCEPT !.peer_commit_scalar = f.scalar]
      /\ ParseStatus(d0, G, f) = "OK" => d = [g EXCEPT !.peer_commit_scalar = f.scalar]
  BY <1>1, ParseCases
<1>5. LET e == [g EXCEPT !.peer_commit_scalar = f.scalar] IN
      /\ e \in SaeType /\ e.state = g.state /\ e.token = g.token
      /\ e.own_commit_scalar = g.own_commit_scalar /\ e.kck = g.kck
      /\ e.pmk = g.pmk /\ e.peer_commit_scalar = f.scalar /\ e.cached = g.cached
  BY <1>2, <1>3, UpdatesPeer
<1> HIDE DEF g, d
<1>6. /\ d \in SaeType /\ d.state = g.state /\ d.token = g.token
      /\ d.own_commit_scalar = g.own_commit_scalar /\ d.kck = g.kck
      /\ d.pmk = g.pmk /\ d.cached = g.cached
      /\ d.peer_commit_scalar \in {g.peer_commit_scalar, f.scalar}
      /\ ParseStatus(d0, G, f) = "OK" => d.peer_commit_scalar = f.scalar
  BY <1>3, <1>4, <1>5
<1>7. \/ g = d0
      \/ /\ g.state = "NOTHING" /\ g.own_commit_scalar = NoScalar
         /\ g.peer_commit_scalar = NoScalar /\ g.cached = FALSE /\ g.token = FALSE
  BY <1>3 DEF Like, NewSae
<1>8. SideOK(m, p, q, d, Off, n0, nq)
  <2>1. CASE g = d0
    BY <1>2, <1>6, <2>1 DEF SideOK, Acc, Off, ApCommitted
  <2>2. CASE g # d0
    BY <1>2, <1>6, <1>7, <2>2 DEF SideOK, Acc, Off
  <2> QED BY <2>1, <2>2
<1>9. /\ d.own_commit_scalar = NoScalar \/ SameOwn(d0, d)
      /\ Acc(d) => Acc(d0) /\ d.pmk = d0.pmk
  BY <1>6, <1>7 DEF SameOwn, Acc
<1>10. Legal(m, p, q, d0, n0, nq, Fq, d, Off, n0, {})
  BY <1>8, <1>9, QuietLegal
<1>11. /\ ParseStatus(d0, G, f) = "OK" => d.peer_commit_scalar # NoScalar
       /\ d.state = "COMMITTED" => d0.state = "COMMITTED"
  BY <1>2, <1>6, <1>7
<1> QED BY <1>10, <1>11 DEF d

\* The keys of an exchange have been derived.
LEMMA KeyedLegal ==
    ASSUME NEW m, NEW p \in Nodes, NEW q \in Nodes, p # q, NEW d0, NEW n0 \in Nat,
           NEW nq \in Nat, NEW Fq, NEW n \in Nat, NEW d \in SaeType, NEW tm, NEW out,
           n # 0, d.own_commit_scalar = <<p, n>>,
           d.peer_commit_scalar \in ScalarsOf(q), d.peer_commit_scalar[2] <= nq,
           d.kck = Key(d.own_commit_scalar, d.peer_commit_scalar), d.pmk = d.kck,
           ~d.cached, m => ~d.token, d.state \in {"COMMITTED", "CONFIRMED"},
           \/ n = n0 + 1
           \/ n = n0 /\ d0.state = "COMMITTED" /\ d0.own_commit_scalar = d.own_commit_scalar,
           \A f \in out : NewFrame(m, p, q, d, n, nq, f)
    PROVE  Legal(m, p, q, d0, n0, nq, Fq, d, tm, n, out)
<1>1. d.own_commit_scalar # NoScalar /\ d.peer_commit_scalar # NoScalar
  BY NewScalar, ScalarNumber
<1>2. SideOK(m, p, q, d, tm, n, nq) /\ ~Acc(d)
  BY <1>1 DEF SideOK, Acc
<1>3. n \in {n0, n0 + 1} /\ (n = n0 + 1 \/ SameOwn(d0, d))
  BY DEF SameOwn
<1> QED BY <1>2, <1>3 DEF Legal

\* A scalar has been made and the driver has taken no frame.
LEMMA NewOwnLegal ==
    ASSUME NEW m, NEW p \in Nodes, NEW q \in Nodes, p # q, NEW d0, NEW n0 \in Nat,
           NEW nq \in Nat, NEW Fq, NEW d \in SaeType, NEW tm,
           SideOK(m, p, q, d0, Off, n0, nq),
           d.own_commit_scalar = <<p, n0 + 1>>, d.state = d0.state, d.kck = d0.kck,
           d.pmk = d0.pmk, d.cached = d0.cached, d.token = d0.token,
           d.peer_commit_scalar = d0.peer_commit_scalar,
           d0.state # "COMMITTED", ~(d0.state = "CONFIRMED" /\ m /\ tm)
    PROVE  Legal(m, p, q, d0, n0, nq, Fq, d, tm, n0 + 1, {})
<1>1. n0 + 1 \in Nat /\ n0 + 1 # 0 /\ \A i \in Nat : i <= n0 => i <= n0 + 1
  OBVIOUS
<1>2. d.own_commit_scalar # NoScalar
  BY <1>1, NewScalar, ScalarNumber
<1>3. \A s \in ScalarsOf(p) : s[2] \in Nat
  BY ScalarNumber
<1>4. Acc(d) => /\ d.kck \in {d.pmk, NoKey}
                /\ \E s \in ScalarsOf(p), t \in ScalarsOf(q) :
                     s[2] <= n0 + 1 /\ t[2] <= nq /\ d.pmk = Key(s, t)
  BY <1>1, <1>3 DEF SideOK, Acc
<1>5. SideOK(m, p, q, d, tm, n0 + 1, nq)
  BY <1>1, <1>2, <1>4 DEF SideOK
<1>6. Acc(d) => Acc(d0) /\ d.pmk = d0.pmk
  BY DEF Acc
<1> QED BY <1>5, <1>6 DEF Legal, Accepts

\* A step's record.
LEMMA StepRecord ==
    ASSUME NEW r \in NodeType, NEW d \in SaeType, NEW frames, NEW ok, conf.mesh \in BOOLEAN
    PROVE  /\ LET st == Step(r, d, frames, ok) IN
              /\ st.r \in NodeType /\ st.r.sae = d /\ st.r.timer = r.timer
              /\ st.r.auth_timer = r.auth_timer /\ st.out = frames /\ st.ok = ok
              /\ st.r.known = r.known
           /\ Stopped(r) \in NodeType /\ Stopped(r).timer = FALSE
           /\ Stopped(r).auth_timer = r.auth_timer /\ Stopped(r).sae = r.sae
           /\ Armed(r) \in NodeType /\ Armed(r).timer = conf.mesh
           /\ Armed(r).auth_timer = r.auth_timer /\ Armed(r).sae = r.sae
           /\ LET a == Accept(r, d) IN
              /\ a \in NodeType /\ a.sae = [d EXCEPT !.state = "ACCEPTED"]
              /\ a.auth_timer = FALSE /\ a.timer = r.timer
           /\ r.sae \in SaeType /\ r.timer \in BOOLEAN
<1>1. "ACCEPTED" \in SaeStates
  BY DEF SaeStates
<1>2. [d EXCEPT !.state = "ACCEPTED"] \in SaeType
  BY <1>1, Zenon DEF SaeType
<1> QED BY <1>2, Zenon DEF Step, Stopped, Armed, Accept, NodeType

\* The scalars p has made when its data become d.
MadeWith(p, d, n) == IF d.own_commit_scalar = <<p, n + 1>> THEN n + 1 ELSE n

\* The entries and frames of a step have their types, and only a mesh has timers.
StepType(r, st) ==
    /\ st.r \in NodeType /\ st.out \in Seq(SaeFrames)
    /\ ~r.timer /\ ~conf.mesh => ~st.r.timer
    /\ ~r.auth_timer => ~st.r.auth_timer

\* A frame has its type.
LEMMA FrameTypes ==
    ASSUME NEW e \in SaeType, NEW token \in BOOLEAN
    PROVE  CommitFrame(e, token) \in SaeFrames /\ ConfirmFrame(e) \in SaeFrames
<1>1. /\ e.group \in Nat /\ e.own_commit_scalar \in Scalars /\ e.send_confirm \in U16
      /\ e.peer_commit_scalar \in Scalars /\ e.kck \in SUBSET Scalars
  BY Fields
<1> QED BY <1>1, NewSaeType, Bits DEF CommitFrame, ConfirmFrame, Refusal, SaeFrames, Statuses

\* One and two frames.
LEMMA ShortSeqs ==
    ASSUME NEW a \in SaeFrames, NEW b \in SaeFrames
    PROVE  << >> \in Seq(SaeFrames) /\ <<a>> \in Seq(SaeFrames) /\ <<a, b>> \in Seq(SaeFrames)
OBVIOUS

\* A step that gives data, frames and a timer.
LEMMA StepLegal ==
    ASSUME NEW m, NEW p, NEW q, NEW d0, NEW n0, NEW nq, NEW Fq,
           NEW r \in NodeType, NEW d \in SaeType, NEW frames, NEW ok, conf.mesh \in BOOLEAN,
           NEW n, MadeWith(p, d, n0) = n,
           Legal(m, p, q, d0, n0, nq, Fq, d, r.timer, n, Elems(frames))
    PROVE  LET st == Step(r, d, frames, ok) IN
           Legal(m, p, q, d0, n0, nq, Fq, st.r.sae, st.r.timer,
                 MadeWith(p, st.r.sae, n0), Elems(st.out))
<1> DEFINE st == Step(r, d, frames, ok)
<1>1. st.r.sae = d /\ st.r.timer = r.timer /\ st.out = frames
  BY Zenon DEF Step, NodeType
<1> HIDE DEF st
<1>2. Legal(m, p, q, d0, n0, nq, Fq, st.r.sae, st.r.timer,
            MadeWith(p, st.r.sae, n0), Elems(st.out))
  BY <1>1
<1> QED BY <1>2 DEF st

\* Commit received, sae_sm_step().
LEMMA SmCommitLegal ==
    ASSUME NEW m \in BOOLEAN, m = conf.mesh, NEW p \in Nodes, NEW q \in Nodes, p # q,
           NEW n0 \in Nat, NEW nq \in Nat, NEW Fq, NEW r \in NodeType, NEW k \in 0 .. 2,
           SideOK(m, p, q, r.sae, Off, n0, nq), r.sae.peer_commit_scalar # NoScalar,
           ~m => r.sae.state # "COMMITTED"
    PROVE  LET st == SmCommit(r, <<p, n0 + 1>>, k) IN
           Legal(m, p, q, r.sae, n0, nq, Fq, st.r.sae, st.r.timer,
                 MadeWith(p, st.r.sae, n0), Elems(st.out))
<1> DEFINE s == <<p, n0 + 1>>
           d == r.sae
           u == [d EXCEPT !.own_commit_scalar = s]
           c0 == [u EXCEPT !.state = "COMMITTED"]
           c == ProcessCommit(c0)
           e == SyncError(u)
           f == ProcessCommit(e)
           g == ProcessCommit(d)
           st == SmCommit(r, s, k)
           Goal(x) == Legal(m, p, q, d, n0, nq, Fq, x.r.sae, x.r.timer,
                            MadeWith(p, x.r.sae, n0), Elems(x.out))
<1>1. /\ n0 + 1 \in Nat /\ n0 + 1 # 0 /\ s \in ScalarsOf(p) /\ s \in Scalars /\ s # NoScalar
      /\ s[2] = n0 + 1
  BY NewScalar, ScalarNumber
<1>2. d \in SaeType /\ d.state \in SaeStates /\ d.token \in BOOLEAN /\ r.timer \in BOOLEAN
  BY Fields DEF NodeType
<1>3. /\ d.peer_commit_scalar \in ScalarsOf(q) /\ d.peer_commit_scalar[2] <= nq
      /\ d.own_commit_scalar # NoScalar => n0 # 0 /\ d.own_commit_scalar = <<p, n0>>
      /\ d.own_commit_scalar # s
      /\ m => ~d.token
  BY <1>1 DEF SideOK
<1>4. "COMMITTED" \in SaeStates /\ "CONFIRMED" \in SaeStates /\ "NOTHING" \in SaeStates
  BY DEF SaeStates
<1>5. /\ u \in SaeType /\ u.state = d.state /\ u.token = d.token
      /\ u.own_commit_scalar = s /\ u.kck = d.kck /\ u.pmk = d.pmk
      /\ u.peer_commit_scalar = d.peer_commit_scalar /\ u.cached = d.cached
  BY <1>1, <1>2, UpdatesOwn
<1> HIDE DEF u
<1>6. /\ c0 \in SaeType /\ c0.state = "COMMITTED" /\ c0.token = d.token
      /\ c0.own_commit_scalar = s /\ c0.peer_commit_scalar = d.peer_commit_scalar
  BY <1>4, <1>5, UpdatesState DEF InState
<1> HIDE DEF c0
<1>7. /\ c \in SaeType /\ c.state = "COMMITTED" /\ c.token = d.token
      /\ c.own_commit_scalar = s /\ c.peer_commit_scalar = d.peer_commit_scalar
      /\ c.kck = Key(s, d.peer_commit_scalar) /\ c.pmk = c.kck /\ c.cached = FALSE
  BY <1>6, Processed
<1> HIDE DEF c
<1>8. /\ Like(e, u) /\ e \in SaeType /\ e.state = d.state /\ e.token = d.token
      /\ e.own_commit_scalar = s /\ e.peer_commit_scalar = d.peer_commit_scalar
  BY <1>5, Counters DEF Like
<1> HIDE DEF e
<1>9. /\ f \in SaeType /\ f.state = d.state /\ f.token = d.token
      /\ f.own_commit_scalar = s /\ f.peer_commit_scalar = d.peer_commit_scalar
      /\ f.kck = Key(s, d.peer_commit_scalar) /\ f.pmk = f.kck /\ f.cached = FALSE
  BY <1>8, Processed
<1> HIDE DEF f
<1>10. /\ g \in SaeType /\ g.state = d.state /\ g.token = d.token
       /\ g.own_commit_scalar = d.own_commit_scalar
       /\ g.peer_commit_scalar = d.peer_commit_scalar
       /\ g.kck = Key(d.own_commit_scalar, d.peer_commit_scalar)
       /\ g.pmk = g.kck /\ g.cached = FALSE
  BY <1>2, Processed
<1> HIDE DEF g
\* The results: nothing but a new scalar; a new exchange in COMMITTED or CONFIRMED.
<1>20. ASSUME NEW x \in NodeType, NEW y \in SaeType, NEW ok, NEW frames,
              MadeWith(p, y, n0) = n0 + 1,
              Legal(m, p, q, d, n0, nq, Fq, y, x.timer, n0 + 1, Elems(frames))
       PROVE  Goal(Step(x, y, frames, ok))
  BY <1>20, StepLegal
<1>11. ASSUME NEW x \in NodeType, NEW y \in SaeType, NEW ok, NEW frames, Like(y, u),
              frames = << >>, d.state # "COMMITTED",
              ~(d.state = "CONFIRMED" /\ m /\ x.timer)
       PROVE  Goal(Step(x, y, frames, ok))
  <2>1. Legal(m, p, q, d, n0, nq, Fq, y, x.timer, n0 + 1, {})
    BY <1>5, <1>11, NewOwnLegal DEF Like
  <2>2. MadeWith(p, y, n0) = n0 + 1
    BY <1>5, <1>11 DEF MadeWith, Like
  <2>3. Elems(frames) = {}
    BY <1>11, ElemsShort
  <2>4. Legal(m, p, q, d, n0, nq, Fq, y, x.timer, n0 + 1, Elems(frames))
    BY <2>1, <2>3
  <2> QED BY <2>2, <2>4, StepLegal
<1>12. ASSUME NEW x \in NodeType, NEW y \in SaeType, NEW ok, NEW frames,
              y.own_commit_scalar = s, y.peer_commit_scalar = d.peer_commit_scalar,
              y.kck = Key(s, d.peer_commit_scalar), y.pmk = y.kck, y.cached = FALSE,
              y.token = d.token, y.state \in {"COMMITTED", "CONFIRMED"},
              NEW a \in SaeType, a.own_commit_scalar = s, a.token = d.token,
              NEW b \in SaeType, b.own_commit_scalar = s, b.kck = y.kck,
              b.peer_commit_scalar = d.peer_commit_scalar,
              \/ frames = <<CommitFrame(a, a.token)>>
              \/ /\ frames = <<CommitFrame(a, a.token), ConfirmFrame(b)>>
                 /\ y.state = "CONFIRMED"
       PROVE  Goal(Step(x, y, frames, ok))
  <2>1. NewFrame(m, p, q, y, n0 + 1, nq, CommitFrame(a, a.token))
    BY <1>1, <1>2, <1>3, <1>12, SendsCommit
  <2>2. ASSUME y.state = "CONFIRMED"
        PROVE  NewFrame(m, p, q, y, n0 + 1, nq, ConfirmFrame(b))
    <3>1. ~Acc(y)
      BY <2>2 DEF Acc
    <3> QED BY <1>1, <1>3, <1>12, <2>2, <3>1, SendsConfirm
  <2>6. /\ Elems(<<CommitFrame(a, a.token)>>) = {CommitFrame(a, a.token)}
        /\ Elems(<<CommitFrame(a, a.token), ConfirmFrame(b)>>)
             = {CommitFrame(a, a.token), ConfirmFrame(b)}
    BY ElemsShort
  <2>3. \A z \in Elems(frames) : NewFrame(m, p, q, y, n0 + 1, nq, z)
    BY <1>12, <2>1, <2>2, <2>6
  <2>4. MadeWith(p, y, n0) = n0 + 1
    BY <1>12 DEF MadeWith
  <2>5. Legal(m, p, q, d, n0, nq, Fq, y, x.timer, n0 + 1, Elems(frames))
    BY <1>1, <1>3, <1>12, <2>3, KeyedLegal
  <2> QED BY <1>20, <2>4, <2>5
<1>13. CASE d.state \in {"NOTHING", "ACCEPTED"} /\ ~m
  <2>1. CASE k = 0
    <3>1. st = Step(r, u, << >>, FALSE)
      BY <1>13, <2>1 DEF SmCommit, u
    <3> QED BY <1>5, <1>11, <1>13, <3>1 DEF Like
  <2>2. CASE k # 0
    <3> DEFINE y == [c EXCEPT !.sync = 0]
    <3>1. st = Step(r, y, <<CommitFrame(u, u.token)>>, TRUE)
      BY <1>13, <2>2 DEF SmCommit, c, c0, u
    <3>2. Like(y, c) /\ y \in SaeType
      BY <1>7, Counters DEF Like
    <3> HIDE DEF y
    <3>3. Goal(Step(r, y, <<CommitFrame(u, u.token)>>, TRUE))
      BY <1>5, <1>7, <1>12, <3>2 DEF Like
    <3> QED BY <3>1, <3>3
  <2> QED BY <2>1, <2>2
<1>14. CASE d.state = "NOTHING" /\ m
  <2>1. CASE k = 0
    <3>1. st = Step(r, u, << >>, FALSE)
      BY <1>14, <2>1 DEF SmCommit, u
    <3> QED BY <1>5, <1>11, <1>14, <3>1 DEF Like
  <2>2. CASE k = 1
    <3> DEFINE y == Confirmed(c)
    <3>1. st = Step(r, y, <<CommitFrame(u, u.token)>>, FALSE)
      BY <1>14, <2>2 DEF SmCommit, c, c0, u
    <3>2. Like(y, c) /\ y \in SaeType
      BY <1>7, Counters DEF Like
    <3> HIDE DEF y
    <3>3. Goal(Step(r, y, <<CommitFrame(u, u.token)>>, FALSE))
      BY <1>5, <1>7, <1>12, <3>2 DEF Like
    <3> QED BY <3>1, <3>3
  <2>3. CASE k = 2
    <3> DEFINE w == Confirmed(c)
               v == [w EXCEPT !.state = "CONFIRMED"]
               y == [v EXCEPT !.sync = 0]
    <3>1. st = Step(Armed(r), [Confirmed(c) EXCEPT !.state = "CONFIRMED", !.sync = 0],
                    <<CommitFrame(u, u.token), ConfirmFrame(c)>>, TRUE)
      BY <1>14, <2>3 DEF SmCommit, c, c0, u
    <3>2. [Confirmed(c) EXCEPT !.state = "CONFIRMED", !.sync = 0] = y
      OBVIOUS
    <3>3. Like(w, c) /\ w \in SaeType
      BY <1>7, Counters DEF Like
    <3> HIDE DEF w
    <3>4. InState(v, w, "CONFIRMED") /\ v \in SaeType
      BY <1>4, <3>3, UpdatesState DEF InState
    <3> HIDE DEF v
    <3>5. Like(y, v) /\ y \in SaeType
      BY <3>4, Counters DEF Like
    <3> HIDE DEF y
    <3>6. Armed(r) \in NodeType
      BY <1>2, StepRecord
    <3>8. /\ y.own_commit_scalar = s /\ y.peer_commit_scalar = d.peer_commit_scalar
          /\ y.kck = c.kck /\ y.pmk = y.kck /\ y.cached = FALSE
          /\ y.token = d.token /\ y.state = "CONFIRMED"
      BY <1>7, <3>3, <3>4, <3>5 DEF Like, InState
    <3>7. Goal(Step(Armed(r), y, <<CommitFrame(u, u.token), ConfirmFrame(c)>>, TRUE))
      BY <1>5, <1>7, <1>12, <3>5, <3>6, <3>8
    <3> QED BY <3>1, <3>2, <3>7
  <2> QED BY <2>1, <2>2, <2>3
<1>15. CASE d.state = "COMMITTED"
  <2>1. m /\ d.own_commit_scalar = <<p, n0>> /\ n0 # 0
    BY <1>3, <1>15 DEF SideOK
  <2>2. ASSUME NEW x \in NodeType, NEW y \in SaeType, NEW ok, NEW frames,
               y.own_commit_scalar = d.own_commit_scalar,
               y.peer_commit_scalar = d.peer_commit_scalar, y.kck = g.kck,
               y.pmk = y.kck, y.cached = FALSE, y.token = d.token,
               \/ y.state = "COMMITTED" /\ frames = << >>
               \/ y.state = "CONFIRMED" /\ frames = <<ConfirmFrame(g)>>
        PROVE  Goal(Step(x, y, frames, ok))
    <3>1. ASSUME y.state = "CONFIRMED"
          PROVE  NewFrame(m, p, q, y, n0, nq, ConfirmFrame(g))
      <4>1. ~Acc(y)
        BY <3>1 DEF Acc
      <4> QED BY <1>3, <1>10, <2>1, <2>2, <3>1, <4>1, SendsConfirm
    <3>5. Elems(<< >>) = {} /\ Elems(<<ConfirmFrame(g)>>) = {ConfirmFrame(g)}
      BY ElemsShort
    <3>2. \A z \in Elems(frames) : NewFrame(m, p, q, y, n0, nq, z)
      BY <2>2, <3>1, <3>5
    <3>3. MadeWith(p, y, n0) = n0
      BY <1>3, <2>2 DEF MadeWith
    <3>4. Legal(m, p, q, d, n0, nq, Fq, y, x.timer, n0, Elems(frames))
      BY <1>3, <1>10, <1>15, <2>1, <2>2, <3>2, KeyedLegal
    <3> QED BY <3>3, <3>4, StepLegal
  <2> DEFINE w == Confirmed(g)
             v == [w EXCEPT !.state = "CONFIRMED"]
             y == [v EXCEPT !.sync = 0]
  <2>3. Like(w, g) /\ w \in SaeType
    BY <1>10, Counters DEF Like
  <2>4. CASE k = 0
    <3>1. st = Step(Stopped(r), w, << >>, FALSE)
      BY <1>15, <2>4 DEF SmCommit, g
    <3>2. Stopped(r) \in NodeType
      BY <1>2, StepRecord
    <3> HIDE DEF w
    <3>3. Goal(Step(Stopped(r), w, << >>, FALSE))
      BY <1>10, <1>15, <2>2, <2>3, <3>2 DEF Like
    <3> QED BY <3>1, <3>3
  <2>5. CASE k # 0
    <3>1. st = Step(Armed(r), [Confirmed(g) EXCEPT !.state = "CONFIRMED", !.sync = 0],
                    <<ConfirmFrame(g)>>, TRUE)
      BY <1>15, <2>5 DEF SmCommit, g
    <3>2. [Confirmed(g) EXCEPT !.state = "CONFIRMED", !.sync = 0] = y
      OBVIOUS
    <3> HIDE DEF w
    <3>4. InState(v, w, "CONFIRMED") /\ v \in SaeType
      BY <1>4, <2>3, UpdatesState DEF InState
    <3> HIDE DEF v
    <3>5. Like(y, v) /\ y \in SaeType
      BY <3>4, Counters DEF Like
    <3> HIDE DEF y
    <3>6. Armed(r) \in NodeType
      BY <1>2, StepRecord
    <3>7. Goal(Step(Armed(r), y, <<ConfirmFrame(g)>>, TRUE))
      BY <1>10, <2>2, <2>3, <3>4, <3>5, <3>6, ZenonT(60) DEF Like, InState
    <3> QED BY <3>1, <3>2, <3>7
  <2> QED BY <2>4, <2>5
<1>16. CASE d.state = "CONFIRMED"
  <2>1. Stopped(r) \in NodeType /\ Stopped(r).timer = FALSE /\ Armed(r) \in NodeType
    BY <1>2, StepRecord
  <2>2. CASE BigSync(d)
    <3> DEFINE y == Desynchronized(d)
    <3>1. st = Step(Stopped(r), y, << >>, TRUE)
      BY <1>16, <2>2 DEF SmCommit
    <3>2. /\ y \in SaeType /\ y.state = "NOTHING" /\ y.token = d.token
          /\ y.own_commit_scalar = d.own_commit_scalar /\ y.kck = d.kck
          /\ y.pmk = d.pmk /\ y.peer_commit_scalar = d.peer_commit_scalar
          /\ y.cached = d.cached
      BY <1>2, Clears
    <3> HIDE DEF y
    <3>3. SideOK(m, p, q, y, FALSE, n0, nq) /\ SameOwn(d, y) /\ ~Acc(y)
      BY <3>2 DEF SideOK, SameOwn, Acc
    <3>4. Legal(m, p, q, d, n0, nq, Fq, y, FALSE, n0, {})
      BY <3>3, QuietLegal
    <3>5. MadeWith(p, y, n0) = n0
      BY <1>3, <3>2 DEF MadeWith
    <3>6. Goal(Step(Stopped(r), y, << >>, TRUE))
      BY <2>1, <3>2, <3>4, <3>5, StepLegal, ElemsShort
    <3> QED BY <3>1, <3>6
  <2>3. CASE ~BigSync(d) /\ k = 0
    <3>1. st = Step(Stopped(r), e, << >>, FALSE)
      BY <1>16, <2>3 DEF SmCommit, e, u
    <3> QED BY <1>8, <1>11, <1>16, <2>1, <3>1
  <2> DEFINE y == Confirmed(f)
  <2>4. Like(y, f) /\ y \in SaeType
    BY <1>9, Counters DEF Like
  <2>5. e.own_commit_scalar = s /\ e.token = d.token
    BY <1>5, <1>8 DEF Like
  <2>6. CASE ~BigSync(d) /\ k = 1
    <3>1. st = Step(Stopped(r), y, <<CommitFrame(e, e.token)>>, FALSE)
      BY <1>16, <2>6 DEF SmCommit, f, e, u
    <3> HIDE DEF y
    <3>2. Goal(Step(Stopped(r), y, <<CommitFrame(e, e.token)>>, FALSE))
      BY <1>8, <1>9, <1>12, <1>16, <2>1, <2>4, <2>5 DEF Like
    <3> QED BY <3>1, <3>2
  <2>7. CASE ~BigSync(d) /\ k = 2
    <3>1. st = Step(Armed(r), y, <<CommitFrame(e, e.token), ConfirmFrame(f)>>, TRUE)
      BY <1>16, <2>7 DEF SmCommit, f, e, u
    <3> HIDE DEF y
    <3>2. Goal(Step(Armed(r), y, <<CommitFrame(e, e.token), ConfirmFrame(f)>>, TRUE))
      BY <1>8, <1>9, <1>12, <1>16, <2>1, <2>4, <2>5 DEF Like
    <3> QED BY <3>1, <3>2
  <2> QED BY <2>2, <2>3, <2>6, <2>7
<1>17. CASE d.state = "ACCEPTED" /\ m
  <2>1. st.r.sae = NewSae /\ st.out = << >>
    BY <1>17 DEF SmCommit, NoNode
  <2>2. Like(NewSae, NewSae) /\ MadeWith(p, NewSae, n0) = n0
    BY <1>1, NewSaeType DEF Like, MadeWith, NewSae
  <2>3. Legal(m, p, q, d, n0, nq, Fq, NewSae, st.r.timer, n0, {})
    BY <2>2, Forgets
  <2> QED BY <2>1, <2>2, <2>3, ElemsShort
<1>18. Goal(st)
  BY <1>2, <1>13, <1>14, <1>15, <1>16, <1>17 DEF SaeStates
<1> QED BY <1>18

\* The peer is accepted with the keys of a Confirm that has been verified.
LEMMA AcceptLegal ==
    ASSUME NEW m \in BOOLEAN, NEW p \in Nodes, NEW q \in Nodes, p # q,
           NEW n0 \in Nat, NEW nq \in Nat, NEW Fq, NEW d0, NEW tm0, NEW d, NEW tm, NEW out,
           SideOK(m, p, q, d0, tm0, n0, nq), d0.state \in {"COMMITTED", "CONFIRMED"},
           NEW f \in Fq, IsConfirm(f), CheckConfirm(d0, f), GoodFrame(m, q, p, f, nq, n0),
           d \in SaeType, d.state = "ACCEPTED", d.pmk = d0.pmk, d.cached = d0.cached,
           d.token = d0.token \/ d.token = FALSE,
           d.peer_commit_scalar = d0.peer_commit_scalar,
           \/ d.own_commit_scalar = d0.own_commit_scalar /\ d.kck = d0.kck
           \/ d.own_commit_scalar = NoScalar /\ d.kck = NoKey,
           \A z \in out : NewFrame(m, p, q, d, n0, nq, z)
    PROVE  Legal(m, p, q, d0, n0, nq, Fq, d, tm, n0, out)
<1>1. /\ d0.own_commit_scalar \in ScalarsOf(p) /\ d0.own_commit_scalar[2] = n0
      /\ d0.peer_commit_scalar \in ScalarsOf(q) /\ d0.peer_commit_scalar[2] <= nq
      /\ d0.kck = Key(d0.own_commit_scalar, d0.peer_commit_scalar)
  BY Verified
<1>2. d0.pmk = d0.kck /\ d0.own_commit_scalar # NoScalar
  BY DEF SideOK
<1>3. /\ d.kck \in {d.pmk, NoKey}
      /\ \E s \in ScalarsOf(p), t \in ScalarsOf(q) :
           s[2] <= n0 /\ t[2] <= nq /\ d.pmk = Key(s, t)
  BY <1>1, <1>2
<1>4. SideOK(m, p, q, d, tm, n0, nq)
  BY <1>3 DEF SideOK
<1>5. Accepts(d0, n0, Fq, d, n0)
  BY <1>2 DEF Accepts
<1>6. d.own_commit_scalar = NoScalar \/ SameOwn(d0, d)
  BY DEF SameOwn
<1> QED BY <1>4, <1>5, <1>6 DEF Legal

\* Data that keep their own scalar make none.
LEMMA NotMade ==
    ASSUME NEW m, NEW p \in Nodes, NEW q, NEW d0, NEW tm, NEW n0 \in Nat, NEW nq, NEW d,
           SideOK(m, p, q, d0, tm, n0, nq),
           d.own_commit_scalar \in {d0.own_commit_scalar, NoScalar}
    PROVE  MadeWith(p, d, n0) = n0
<1>1. n0 + 1 \in Nat /\ n0 + 1 # 0
  OBVIOUS
<1>2. <<p, n0 + 1>> # NoScalar /\ <<p, n0 + 1>> # <<p, n0>>
  BY <1>1, NewScalar, ScalarNumber
<1>3. d.own_commit_scalar # <<p, n0 + 1>>
  BY <1>2 DEF SideOK
<1> QED BY <1>3 DEF MadeWith

\* A sequence of at most one frame.
LEMMA OneFrame ==
    ASSUME NEW a, NEW frames, frames \in {<< >>, <<a>>}
    PROVE  Elems(frames) \subseteq {a}
BY ElemsShort

\* Confirm received, sae_sm_step().
LEMMA SmConfirmLegal ==
    ASSUME NEW m \in BOOLEAN, m = conf.mesh, NEW p \in Nodes, NEW q \in Nodes, p # q,
           NEW n0 \in Nat, NEW nq \in Nat, NEW Fq, NEW r \in NodeType, NEW k \in 0 .. 2,
           SideOK(m, p, q, r.sae, r.timer, n0, nq),
           ~m \/ r.sae.state \in {"CONFIRMED", "ACCEPTED"} =>
             \E f \in Fq : /\ IsConfirm(f) /\ CheckConfirm(r.sae, f)
                           /\ GoodFrame(m, q, p, f, nq, n0)
    PROVE  LET st == SmConfirm(r, k) IN
           Legal(m, p, q, r.sae, n0, nq, Fq, st.r.sae, st.r.timer,
                 MadeWith(p, st.r.sae, n0), Elems(st.out))
<1> DEFINE d == r.sae
           st == SmConfirm(r, k)
           Goal(x) == Legal(m, p, q, d, n0, nq, Fq, x.r.sae, x.r.timer,
                            MadeWith(p, x.r.sae, n0), Elems(x.out))
<1>1. d \in SaeType /\ d.state \in SaeStates /\ d.token \in BOOLEAN /\ r.timer \in BOOLEAN
  BY Fields DEF NodeType
<1>2. /\ Stopped(r) \in NodeType /\ Stopped(r).timer = FALSE /\ Stopped(r).sae = d
      /\ Armed(r) \in NodeType /\ Armed(r).timer = m
  BY <1>1, StepRecord
<1>3. /\ d.own_commit_scalar # NoScalar => n0 # 0 /\ d.own_commit_scalar = <<p, n0>>
      /\ d.state \in {"COMMITTED", "CONFIRMED"} => d.own_commit_scalar # NoScalar
      /\ m => ~d.token
  BY DEF SideOK
\* The results: counters; no exchange any more.
<1>4. ASSUME NEW x \in NodeType, NEW y \in SaeType, NEW ok, NEW frames, Like(y, d),
             m /\ x.timer /\ d.state = "CONFIRMED" => r.timer,
             \A z \in Elems(frames) : NewFrame(m, p, q, y, n0, nq, z)
      PROVE  Goal(Step(x, y, frames, ok))
  <2>1. MadeWith(p, y, n0) = n0
    BY <1>4, NotMade DEF Like
  <2>2. Legal(m, p, q, d, n0, nq, Fq, y, x.timer, n0, Elems(frames))
    BY <1>4, Keeps
  <2> QED BY <2>1, <2>2, StepLegal
<1>5. ASSUME NEW x \in NodeType, NEW frames, frames = << >>
      PROVE  Goal(Step(x, Desynchronized(d), frames, TRUE))
  <2> DEFINE y == Desynchronized(d)
  <2>1. /\ y \in SaeType /\ y.state = "NOTHING" /\ y.token = d.token
        /\ y.own_commit_scalar = d.own_commit_scalar /\ y.kck = d.kck
        /\ y.pmk = d.pmk /\ y.peer_commit_scalar = d.peer_commit_scalar
        /\ y.cached = d.cached
    BY <1>1, Clears
  <2> HIDE DEF y
  <2>2. SideOK(m, p, q, y, x.timer, n0, nq) /\ SameOwn(d, y) /\ ~Acc(y)
    BY <2>1 DEF SideOK, SameOwn, Acc
  <2>3. Elems(frames) = {}
    BY <1>5, ElemsShort
  <2>4. Legal(m, p, q, d, n0, nq, Fq, y, x.timer, n0, Elems(frames))
    BY <2>2, <2>3, QuietLegal
  <2>5. MadeWith(p, y, n0) = n0
    BY <2>1, NotMade
  <2>6. Goal(Step(x, y, frames, TRUE))
    BY <2>1, <2>4, <2>5, StepLegal
  <2> QED BY <2>6 DEF y
<1>6. Like(d, d) /\ Elems(<< >>) = {}
  BY <1>1, ElemsShort DEF Like
<1>7. /\ Like(SyncError(d), d) /\ SyncError(d) \in SaeType
      /\ Like(Confirmed(d), d) /\ Confirmed(d) \in SaeType
  BY <1>1, Counters DEF Like
<1>8. CASE d.state = "NOTHING"
  <2>1. st = Step(r, d, << >>, TRUE)
    BY <1>8 DEF SmConfirm
  <2> QED BY <1>1, <1>4, <1>6, <2>1
<1>9. CASE d.state = "COMMITTED" /\ m
  <2>1. CASE BigSync(d)
    <3>1. st = Step(Stopped(r), Desynchronized(d), << >>, TRUE)
      BY <1>9, <2>1 DEF SmConfirm
    <3> QED BY <1>2, <1>5, <3>1
  <2>2. CASE ~BigSync(d) /\ k = 0
    <3>1. st = Step(Stopped(r), SyncError(d), << >>, FALSE)
      BY <1>9, <2>2 DEF SmConfirm
    <3> QED BY <1>2, <1>4, <1>6, <1>7, <3>1
  <2>3. CASE ~BigSync(d) /\ k # 0
    <3> DEFINE fr == <<CommitFrame(d, d.token)>>
    <3>1. st = Step(Armed(r), SyncError(d), fr, TRUE)
      BY <1>9, <2>3 DEF SmConfirm
    <3>2. NewFrame(m, p, q, SyncError(d), n0, nq, CommitFrame(d, d.token))
      BY <1>1, <1>3, <1>9, SendsCommit
    <3>3. \A z \in Elems(fr) : NewFrame(m, p, q, SyncError(d), n0, nq, z)
      BY <3>2, ElemsShort, ZenonT(60)
    <3> HIDE DEF fr
    <3> QED BY <1>2, <1>4, <1>7, <1>9, <3>1, <3>3
  <2> QED BY <2>1, <2>2, <2>3
\* From here on the Confirm has been verified.
<1>10. ASSUME ~m \/ d.state \in {"CONFIRMED", "ACCEPTED"}
       PROVE  /\ d.own_commit_scalar = <<p, n0>> /\ n0 # 0
              /\ d.peer_commit_scalar \in ScalarsOf(q) /\ d.peer_commit_scalar[2] <= nq
              /\ d.kck = Key(d.own_commit_scalar, d.peer_commit_scalar) /\ d.kck # NoKey
  BY <1>10, Verified
<1>11. ASSUME NEW x \in NodeType, NEW frames, NEW y,
              d.state \in {"COMMITTED", "CONFIRMED"}, ~m \/ d.state = "CONFIRMED",
              frames \in {<< >>, <<ConfirmFrame(d)>>},
              y = [r |-> Accept(x, [d EXCEPT !.send_confirm = U16Max]),
                   out |-> frames, ok |-> TRUE]
       PROVE  Goal(y)
  <2> DEFINE e == [d EXCEPT !.send_confirm = U16Max]
             a == [e EXCEPT !.state = "ACCEPTED"]
  <2>1. Like(e, d) /\ e \in SaeType
    BY <1>1, Bits, Counters DEF Like
  <2> HIDE DEF e
  <2>2. y.r.sae = a /\ y.out = frames
    BY <1>11, <2>1, StepRecord DEF e
  <2>3. InState(a, e, "ACCEPTED")
    BY <2>1, UpdatesState DEF SaeStates
  <2> HIDE DEF a
  <2>4. /\ a \in SaeType /\ a.state = "ACCEPTED" /\ a.pmk = d.pmk /\ a.cached = d.cached
        /\ a.token = d.token /\ a.peer_commit_scalar = d.peer_commit_scalar
        /\ a.own_commit_scalar = d.own_commit_scalar /\ a.kck = d.kck
    BY <2>1, <2>3 DEF InState, Like
  <2>5. d.pmk = d.kck
    BY <1>11 DEF SideOK
  <2>6. NewFrame(m, p, q, a, n0, nq, ConfirmFrame(d))
    BY <1>1, <1>10, <1>11, <2>4, <2>5, SendsConfirm
  <2>11. Elems(frames) \subseteq {ConfirmFrame(d)}
    BY <1>11, OneFrame
  <2>7. \A z \in Elems(frames) : NewFrame(m, p, q, a, n0, nq, z)
    BY <2>6, <2>11
  <2>8. PICK f \in Fq : /\ IsConfirm(f) /\ CheckConfirm(d, f)
                        /\ GoodFrame(m, q, p, f, nq, n0)
    BY <1>11
  <2>9. Legal(m, p, q, d, n0, nq, Fq, a, y.r.timer, n0, Elems(frames))
    BY <1>11, <2>4, <2>7, <2>8, AcceptLegal
  <2>10. MadeWith(p, a, n0) = n0
    BY <2>4, NotMade
  <2> QED BY <2>2, <2>9, <2>10
<1>12. CASE d.state = "COMMITTED" /\ ~m
  <2>1. CASE k = 0
    <3>1. st = Step(r, Confirmed(d), << >>, FALSE)
      BY <1>12, <2>1 DEF SmConfirm
    <3> QED BY <1>4, <1>6, <1>7, <3>1
  <2>2. CASE k # 0
    <3>1. st = [r |-> Accept(r, [d EXCEPT !.send_confirm = U16Max]),
                out |-> <<ConfirmFrame(d)>>, ok |-> TRUE]
      BY <1>12, <2>2 DEF SmConfirm
    <3> QED BY <1>11, <1>12, <3>1
  <2> QED BY <2>1, <2>2
<1>13. CASE d.state = "CONFIRMED"
  <2>1. st = [r |-> Accept(Stopped(r), [d EXCEPT !.send_confirm = U16Max]),
              out |-> << >>, ok |-> TRUE]
    BY <1>13 DEF SmConfirm
  <2> QED BY <1>2, <1>11, <1>13, <2>1
<1>14. CASE d.state = "ACCEPTED"
  <2>1. CASE BigSync(d)
    <3>1. st = Step(r, Desynchronized(d), << >>, TRUE)
      BY <1>14, <2>1 DEF SmConfirm
    <3> QED BY <1>5, <3>1
  <2>2. CASE ~BigSync(d)
    <3> DEFINE e == SyncError(d)
               c == Confirmed(e)
               y == ClearTempData(c)
               fr == IF k = 0 THEN << >> ELSE <<ConfirmFrame(d)>>
               ok == k > 0
    <3>1. st = Step(r, y, fr, ok)
      BY <1>14, <2>2 DEF SmConfirm
    <3> HIDE DEF e
    <3>2. Like(c, e) /\ c \in SaeType
      BY <1>7, Counters DEF Like, e
    <3> HIDE DEF c
    <3>3. /\ y \in SaeType /\ y.state = c.state /\ y.token = FALSE
          /\ y.own_commit_scalar = NoScalar /\ y.kck = NoKey
          /\ y.pmk = c.pmk /\ y.peer_commit_scalar = c.peer_commit_scalar
          /\ y.cached = c.cached
      BY <3>2, Clears
    <3>4. /\ c.state = d.state /\ c.pmk = d.pmk /\ c.cached = d.cached
          /\ c.peer_commit_scalar = d.peer_commit_scalar
      BY <1>7, <3>2 DEF Like, e
    <3> HIDE DEF y
    <3>5. SideOK(m, p, q, y, r.timer, n0, nq)
      BY <1>14, <3>3, <3>4 DEF SideOK, Acc
    <3>6. Acc(y) => Acc(d) /\ y.pmk = d.pmk
      BY <3>3, <3>4 DEF Acc
    <3>7. Acc(y) => y.pmk = d.kck
      BY <1>10, <1>14, <3>6 DEF SideOK
    <3>8. y.own_commit_scalar # <<p, n0>>
      BY <1>10, <1>14, <3>3, NewScalar, ScalarNumber
    <3>9. NewFrame(m, p, q, y, n0, nq, ConfirmFrame(d))
      BY <1>1, <1>10, <1>14, <3>7, <3>8, SendsConfirm
    <3>14. fr \in {<< >>, <<ConfirmFrame(d)>>}
      OBVIOUS
    <3> HIDE DEF fr, ok
    <3>15. Elems(fr) \subseteq {ConfirmFrame(d)}
      BY <3>14, OneFrame
    <3>10. \A z \in Elems(fr) : NewFrame(m, p, q, y, n0, nq, z)
      BY <3>9, <3>15
    <3>11. Legal(m, p, q, d, n0, nq, Fq, y, r.timer, n0, Elems(fr))
      BY <3>3, <3>5, <3>6, <3>10, QuietLegal
    <3>12. MadeWith(p, y, n0) = n0
      BY <3>3, NotMade
    <3>13. Goal(Step(r, y, fr, ok))
      BY <3>3, <3>11, <3>12, StepLegal
    <3> QED BY <3>1, <3>13
  <2> QED BY <2>1, <2>2
<1>15. Goal(st)
  BY <1>1, <1>8, <1>9, <1>12, <1>13, <1>14 DEF SaeStates
<1> QED BY <1>15

(***************************************************************************)
(* Types.                                                                  *)
(***************************************************************************)

\* Frames sent.
LEMMA Frames0 == << >> \in Seq(SaeFrames) /\ Elems(<< >>) = {}
<1>1. Elems(<< >>) = {}
  BY ElemsShort
<1>2. << >> \in Seq(SaeFrames)
  OBVIOUS
<1> QED BY <1>1, <1>2

\* One frame.
LEMMA Frames1 ==
    ASSUME NEW a \in SaeFrames
    PROVE  <<a>> \in Seq(SaeFrames) /\ Elems(<<a>>) = {a}
<1>1. Elems(<<a>>) = {a}
  BY ElemsShort
<1>2. <<a>> \in Seq(SaeFrames)
  OBVIOUS
<1> QED BY <1>1, <1>2

\* An entry that does not exist.
LEMMA NoNodeType == NoNode \in NodeType /\ NoNode.timer = FALSE /\ NoNode.auth_timer = FALSE
                    /\ NoNode.sae = NewSae
BY NewSaeType DEF NoNode, NodeType

\* A step of the state machine.
LEMMA StepTypes ==
    ASSUME NEW r \in NodeType, NEW d \in SaeType, NEW frames \in Seq(SaeFrames), NEW ok,
           conf.mesh \in BOOLEAN
    PROVE  /\ StepType(r, Step(r, d, frames, ok))
           /\ StepType(r, Step(Stopped(r), d, frames, ok))
           /\ StepType(r, Step(Armed(r), d, frames, ok))
<1>1. ASSUME NEW x \in NodeType, x.timer = r.timer \/ x.timer = FALSE \/ x.timer = conf.mesh,
             x.auth_timer = r.auth_timer
      PROVE  StepType(r, Step(x, d, frames, ok))
  <2> DEFINE st == Step(x, d, frames, ok)
  <2>1. /\ st.r \in NodeType /\ st.r.timer = x.timer /\ st.r.auth_timer = x.auth_timer
        /\ st.out = frames
    BY Zenon DEF Step, NodeType
  <2> HIDE DEF st
  <2>2. StepType(r, st)
    BY <1>1, <2>1 DEF StepType
  <2> QED BY <2>2 DEF st
<1>2. /\ Stopped(r) \in NodeType /\ Stopped(r).timer = FALSE
      /\ Stopped(r).auth_timer = r.auth_timer
  BY Zenon DEF Stopped, NodeType
<1>3. /\ Armed(r) \in NodeType /\ Armed(r).timer = conf.mesh
      /\ Armed(r).auth_timer = r.auth_timer
  BY Zenon DEF Armed, NodeType
<1> QED BY <1>1, <1>2, <1>3

\* A Commit.
LEMMA SmCommitType ==
    ASSUME NEW r \in NodeType, NEW s \in Scalars, NEW k \in 0 .. 2, conf.mesh \in BOOLEAN
    PROVE  StepType(r, SmCommit(r, s, k))
<1> DEFINE d == r.sae
           u == [d EXCEPT !.own_commit_scalar = s]
           c0 == [u EXCEPT !.state = "COMMITTED"]
           c == ProcessCommit(c0)
           e == SyncError(u)
           f == ProcessCommit(e)
           g == ProcessCommit(d)
           st == SmCommit(r, s, k)
<1>1. d \in SaeType /\ d.state \in SaeStates
  BY Fields DEF NodeType
<1>2. "COMMITTED" \in SaeStates /\ "CONFIRMED" \in SaeStates /\ "NOTHING" \in SaeStates
  BY DEF SaeStates
<1>3. u \in SaeType /\ u.token \in BOOLEAN
  BY <1>1, UpdatesOwn, Fields
<1> HIDE DEF u
<1>4. c0 \in SaeType
  BY <1>2, <1>3, UpdatesState DEF InState
<1> HIDE DEF c0
<1>5. c \in SaeType
  BY <1>4, Processed
<1> HIDE DEF c
<1>6. e \in SaeType /\ e.token \in BOOLEAN
  BY <1>3, Counters, Fields DEF Like
<1> HIDE DEF e
<1>7. f \in SaeType
  BY <1>6, Processed
<1> HIDE DEF f
<1>8. g \in SaeType
  BY <1>1, Processed
<1> HIDE DEF g
<1>9. /\ Confirmed(c) \in SaeType /\ Confirmed(f) \in SaeType /\ Confirmed(g) \in SaeType
      /\ [c EXCEPT !.sync = 0] \in SaeType /\ Desynchronized(d) \in SaeType
  BY <1>1, <1>5, <1>7, <1>8, Counters, Clears DEF Like
<1>10. ASSUME NEW x \in SaeType
       PROVE  [x EXCEPT !.state = "CONFIRMED", !.sync = 0] \in SaeType
  BY <1>2, Zenon DEF SaeType
<1>11. /\ << >> \in Seq(SaeFrames) /\ <<CommitFrame(u, u.token)>> \in Seq(SaeFrames)
       /\ <<CommitFrame(u, u.token), ConfirmFrame(c)>> \in Seq(SaeFrames)
       /\ <<ConfirmFrame(g)>> \in Seq(SaeFrames) /\ <<CommitFrame(e, e.token)>> \in Seq(SaeFrames)
       /\ <<CommitFrame(e, e.token), ConfirmFrame(f)>> \in Seq(SaeFrames)
  BY <1>3, <1>5, <1>6, <1>7, <1>8, FrameTypes, ShortSeqs
<1>12. CASE d.state \in {"NOTHING", "ACCEPTED"} /\ ~conf.mesh
  <2>1. \/ st = Step(r, u, << >>, FALSE)
        \/ st = Step(r, [c EXCEPT !.sync = 0], <<CommitFrame(u, u.token)>>, TRUE)
    BY <1>12 DEF SmCommit, c, c0, u
  <2> QED BY <1>3, <1>9, <1>11, <2>1, StepTypes
<1>13. CASE d.state = "NOTHING" /\ conf.mesh
  <2>1. \/ st = Step(r, u, << >>, FALSE)
        \/ st = Step(r, Confirmed(c), <<CommitFrame(u, u.token)>>, FALSE)
        \/ st = Step(Armed(r), [Confirmed(c) EXCEPT !.state = "CONFIRMED", !.sync = 0],
                     <<CommitFrame(u, u.token), ConfirmFrame(c)>>, TRUE)
    BY <1>13 DEF SmCommit, c, c0, u
  <2> QED BY <1>3, <1>9, <1>10, <1>11, <2>1, StepTypes
<1>14. CASE d.state = "COMMITTED"
  <2>1. \/ st = Step(Stopped(r), Confirmed(g), << >>, FALSE)
        \/ st = Step(Armed(r), [Confirmed(g) EXCEPT !.state = "CONFIRMED", !.sync = 0],
                     <<ConfirmFrame(g)>>, TRUE)
    BY <1>14 DEF SmCommit, g
  <2> QED BY <1>9, <1>10, <1>11, <2>1, StepTypes
<1>15. CASE d.state = "CONFIRMED"
  <2>1. \/ st = Step(Stopped(r), Desynchronized(d), << >>, TRUE)
        \/ st = Step(Stopped(r), e, << >>, FALSE)
        \/ st = Step(Stopped(r), Confirmed(f), <<CommitFrame(e, e.token)>>, FALSE)
        \/ st = Step(Armed(r), Confirmed(f),
                     <<CommitFrame(e, e.token), ConfirmFrame(f)>>, TRUE)
    BY <1>15 DEF SmCommit, f, e, u
  <2> QED BY <1>6, <1>9, <1>11, <2>1, StepTypes
<1>16. CASE d.state = "ACCEPTED" /\ conf.mesh
  <2>1. st.r = NoNode /\ st.out = << >>
    BY <1>16 DEF SmCommit
  <2> QED BY <1>11, <2>1, NoNodeType DEF StepType
<1>17. StepType(r, st)
  BY <1>1, <1>12, <1>13, <1>14, <1>15, <1>16 DEF SaeStates
<1> QED BY <1>17

\* sae_accept_sta().
LEMMA AcceptRecord ==
    ASSUME NEW r \in NodeType, NEW d \in SaeType
    PROVE  /\ Accept(r, d) \in NodeType /\ Accept(r, d).timer = r.timer
           /\ Accept(r, d).auth_timer = FALSE
           /\ InState(Accept(r, d).sae, d, "ACCEPTED")
<1>1. InState([d EXCEPT !.state = "ACCEPTED"], d, "ACCEPTED")
  BY UpdatesState DEF SaeStates
<1>2. [d EXCEPT !.state = "ACCEPTED"] \in SaeType
  BY <1>1 DEF InState
<1>3. /\ Accept(r, d) \in NodeType /\ Accept(r, d).timer = r.timer
      /\ Accept(r, d).auth_timer = FALSE
      /\ Accept(r, d).sae = [d EXCEPT !.state = "ACCEPTED"]
  BY <1>2, Zenon DEF Accept, NodeType
<1> QED BY <1>1, <1>3

\* A Confirm.
LEMMA SmConfirmType ==
    ASSUME NEW r \in NodeType, NEW k \in 0 .. 2, conf.mesh \in BOOLEAN
    PROVE  StepType(r, SmConfirm(r, k))
<1> DEFINE d == r.sae
           e == SyncError(d)
           m == [d EXCEPT !.send_confirm = U16Max]
           st == SmConfirm(r, k)
<1>1. d \in SaeType /\ d.state \in SaeStates /\ d.token \in BOOLEAN
  BY Fields DEF NodeType
<1>2. e \in SaeType /\ m \in SaeType /\ Confirmed(d) \in SaeType /\ Desynchronized(d) \in SaeType
  BY <1>1, Bits, Counters, Clears DEF Like
<1> HIDE DEF e
<1>3. Confirmed(e) \in SaeType
  BY <1>2, Counters DEF Like
<1>4. ClearTempData(Confirmed(e)) \in SaeType
  BY <1>3, Clears
<1>5. /\ << >> \in Seq(SaeFrames) /\ <<CommitFrame(d, d.token)>> \in Seq(SaeFrames)
      /\ <<ConfirmFrame(d)>> \in Seq(SaeFrames)
  BY <1>1, FrameTypes, ShortSeqs
<1>6. ASSUME NEW x \in NodeType, x.timer = r.timer \/ x.timer = FALSE, NEW y,
             NEW frames \in Seq(SaeFrames), y = [r |-> Accept(x, m), out |-> frames, ok |-> TRUE]
      PROVE  StepType(r, y)
  <2> HIDE DEF m
  <2>1. Accept(x, m) \in NodeType /\ Accept(x, m).timer = x.timer
        /\ Accept(x, m).auth_timer = FALSE
    BY <1>2, AcceptRecord
  <2>2. y.r = Accept(x, m) /\ y.out = frames
    BY <1>6
  <2> QED BY <1>6, <2>1, <2>2 DEF StepType
<1>7. CASE d.state = "NOTHING"
  <2>1. st = Step(r, d, << >>, TRUE)
    BY <1>7 DEF SmConfirm
  <2> QED BY <1>1, <1>5, <2>1, StepTypes
<1>8. CASE d.state = "COMMITTED" /\ conf.mesh
  <2>1. \/ st = Step(Stopped(r), Desynchronized(d), << >>, TRUE)
        \/ st = Step(Stopped(r), e, << >>, FALSE)
        \/ st = Step(Armed(r), e, <<CommitFrame(d, d.token)>>, TRUE)
    BY <1>8 DEF SmConfirm, e
  <2> QED BY <1>2, <1>5, <2>1, StepTypes
<1>9. CASE d.state = "COMMITTED" /\ ~conf.mesh
  <2>1. \/ st = Step(r, Confirmed(d), << >>, FALSE)
        \/ st = [r |-> Accept(r, m), out |-> <<ConfirmFrame(d)>>, ok |-> TRUE]
    BY <1>9 DEF SmConfirm
  <2>2. st = Step(r, Confirmed(d), << >>, FALSE) => StepType(r, st)
    BY <1>2, <1>5, StepTypes
  <2>3. st = [r |-> Accept(r, m), out |-> <<ConfirmFrame(d)>>, ok |-> TRUE] => StepType(r, st)
    BY <1>5, <1>6
  <2> QED BY <2>1, <2>2, <2>3
<1>10. CASE d.state = "CONFIRMED"
  <2>1. st = [r |-> Accept(Stopped(r), m), out |-> << >>, ok |-> TRUE]
    BY <1>10 DEF SmConfirm
  <2>2. Stopped(r) \in NodeType /\ Stopped(r).timer = FALSE
    BY <1>2, StepRecord
  <2> QED BY <1>5, <1>6, <2>1, <2>2
<1>11. CASE d.state = "ACCEPTED"
  <2> DEFINE c == ClearTempData(Confirmed(e))
             fr == IF k = 0 THEN << >> ELSE <<ConfirmFrame(d)>>
             ok == k > 0
  <2>1. st = Step(r, Desynchronized(d), << >>, TRUE) \/ st = Step(r, c, fr, ok)
    BY <1>11 DEF SmConfirm, e
  <2>2. fr \in Seq(SaeFrames)
    BY <1>5
  <2> HIDE DEF fr, ok
  <2>3. StepType(r, Step(r, Desynchronized(d), << >>, TRUE))
    BY <1>2, <1>5, StepTypes
  <2>4. StepType(r, Step(r, c, fr, ok))
    BY <1>4, <2>2, StepTypes
  <2> QED BY <2>1, <2>3, <2>4
<1>12. StepType(r, st)
  BY <1>1, <1>7, <1>8, <1>9, <1>10, <1>11 DEF SaeStates
<1> QED BY <1>12

(***************************************************************************)
(* The invariant.                                                          *)
(***************************************************************************)

\* The data at p, and the frames p has sent and that may still be received.
Rec(p) == IF p = 2 /\ Station THEN sme.sae ELSE node[p].sae
FramesOf(p) ==
    Elems(chan[Other(p)]) \cup Elems(pending[Other(p)])
    \cup (IF p = 2 THEN Elems(sme.last) ELSE {})

PairAt(p) ==
    Pair(conf.mesh, p, Other(p), Rec(p), node[p].timer, fresh[p], FramesOf(p),
         Rec(Other(p)), node[Other(p)].timer, fresh[Other(p)], FramesOf(Other(p)))

OnlyMeshTimers == ~conf.mesh => \A p \in Nodes : ~node[p].timer /\ ~node[p].auth_timer
GroupInHand ==
    sme.wpa_state = "AUTHENTICATING" => sme.sae_group_index <= Len(conf.groups[2])

SaeInv == /\ DataTypeOK /\ OnlyMeshTimers /\ GroupInHand
          /\ ~MeshTokens => PairAt(1)

\* The configuration.
LEMMA ConfType ==
    ASSUME DataTypeOK
    PROVE  /\ conf.mesh \in BOOLEAN /\ conf.clogging \in [Nodes -> BOOLEAN]
           /\ conf.auto \in [Nodes -> BOOLEAN]
           /\ \A p \in Nodes : conf.groups[p] \in Seq(Nat \ {0}) /\ conf.groups[p] # << >>
BY SaeConfigAssumption DEF DataTypeOK

\* The nodes.
LEMMA TwoNodes ==
    ASSUME NEW p \in Nodes
    PROVE  /\ Other(p) \in Nodes /\ Other(p) # p /\ Other(Other(p)) = p
           /\ Other(1) = 2 /\ Other(2) = 1 /\ 1 \in Nodes /\ 2 \in Nodes
           /\ p = 1 \/ p = 2
BY DEF Nodes, Other

\* Pair once p has the data d, the timer tm and n scalars, and has sent out.
PairWith(p, d, tm, n, out) ==
    Pair(conf.mesh, p, Other(p), d, tm, n, FramesOf(p) \cup out,
         Rec(Other(p)), node[Other(p)].timer, fresh[Other(p)], FramesOf(Other(p)))
Legally(p, d0, d, tm, n, out) ==
    Legal(conf.mesh, p, Other(p), d0, fresh[p], fresh[Other(p)], FramesOf(Other(p)),
          d, tm, n, out)

\* At the start of a step.
LEMMA AtStart ==
    ASSUME SaeInv, ~MeshTokens, NEW p \in Nodes
    PROVE  PairWith(p, Rec(p), node[p].timer, fresh[p], {})
<1>1. PairAt(1)
  BY DEF SaeInv
<1>2. FramesOf(p) \cup {} = FramesOf(p)
  OBVIOUS
<1>3. CASE p = 1
  BY <1>1, <1>2, <1>3 DEF PairAt, PairWith
<1>4. CASE p = 2
  <2>1. Other(1) = 2 /\ Other(2) = 1
    BY TwoNodes
  <2>2. PairAt(2)
    BY <1>1, <2>1, Swap DEF PairAt
  <2> QED BY <1>2, <1>4, <2>2 DEF PairAt, PairWith
<1> QED BY <1>3, <1>4, TwoNodes

\* A legal step of p.
LEMMA LegalStep ==
    ASSUME SaeInv, NEW p \in Nodes, NEW d0, NEW tm0, NEW d, NEW tm, NEW n, NEW out,
           PairWith(p, d0, tm0, fresh[p], {}), Legally(p, d0, d, tm, n, out)
    PROVE  PairWith(p, d, tm, n, out)
<1>1. fresh[p] \in Nat /\ fresh[Other(p)] \in Nat /\ Other(p) \in Nodes /\ p # Other(p)
  BY TwoNodes DEF SaeInv, DataTypeOK
<1>2. FramesOf(p) \cup {} = FramesOf(p)
  OBVIOUS
<1>3. Pair(conf.mesh, p, Other(p), d0, tm0, fresh[p], FramesOf(p),
           Rec(Other(p)), node[Other(p)].timer, fresh[Other(p)], FramesOf(Other(p)))
  BY <1>2 DEF PairWith
<1>4. Legal(conf.mesh, p, Other(p), d0, fresh[p], fresh[Other(p)], FramesOf(Other(p)),
            d, tm, n, out)
  BY DEF Legally
<1>5. FramesOf(p) \cup out \subseteq FramesOf(p) \cup out
      /\ FramesOf(Other(p)) \subseteq FramesOf(Other(p))
  OBVIOUS
<1>6. Pair(conf.mesh, p, Other(p), d, tm, n, FramesOf(p) \cup out,
           Rec(Other(p)), node[Other(p)].timer, fresh[Other(p)], FramesOf(Other(p)))
  BY <1>1, <1>3, <1>4, <1>5, StepOK
<1> QED BY <1>6 DEF PairWith

\* Fewer frames.
LEMMA FewerFrames ==
    ASSUME NEW m, NEW p, NEW q, NEW d, NEW tm, NEW n, NEW F, NEW dq, NEW tmq, NEW nq,
           NEW Fq, Pair(m, p, q, d, tm, n, F, dq, tmq, nq, Fq),
           NEW F1, F1 \subseteq F, NEW Fq1, Fq1 \subseteq Fq
    PROVE  Pair(m, p, q, d, tm, n, F1, dq, tmq, nq, Fq1)
<1>1. \A s, t : /\ Said(s, t, F1, dq) => Said(s, t, F, dq)
                /\ Said(s, t, Fq1, d) => Said(s, t, Fq, d)
  BY DEF Said
<1>2. LatestOK(p, q, d, F1, dq) /\ LatestOK(q, p, dq, Fq1, d)
  BY <1>1 DEF Pair, LatestOK
<1>3. CrossOK(p, q, d, F1, dq, Fq1)
  BY <1>1 DEF Pair, CrossOK
<1> QED BY <1>2, <1>3 DEF Pair

\* What a step of the peer code at p leaves: the entry r, the frames out sent.
LEMMA PeerStep ==
    ASSUME SaeInv, NEW p \in Nodes, Runs(p), NEW r \in NodeType, NEW out,
           conf' = conf, sme' = sme, node' = [node EXCEPT ![p] = r],
           fresh' = [fresh EXCEPT ![p] = MadeWith(p, r.sae, fresh[p])],
           chan' \in [Nodes -> Seq(SaeFrames)], pending' \in [Nodes -> Seq(SaeFrames)],
           pmksa' \in [Nodes -> SUBSET Scalars], required' \in [Nodes -> BOOLEAN],
           refused' \in [Nodes -> BOOLEAN], faults' \in Nat,
           Elems(chan'[Other(p)]) \subseteq Elems(chan[Other(p)]) \cup out,
           pending'[Other(p)] = pending[Other(p)],
           Elems(chan'[p]) \cup Elems(pending'[p]) \subseteq Elems(chan[p]) \cup Elems(pending[p]),
           ~conf.mesh => ~r.timer /\ ~r.auth_timer,
           ~MeshTokens => PairWith(p, r.sae, r.timer, MadeWith(p, r.sae, fresh[p]), out)
    PROVE  SaeInv'
<1> DEFINE q == Other(p)
           n == MadeWith(p, r.sae, fresh[p])
<1>1. q \in Nodes /\ q # p /\ Other(q) = p
  BY TwoNodes
<1>2. n \in Nat
  BY DEF SaeInv, DataTypeOK, MadeWith
<1>3. DataTypeOK'
  <2>1. node' \in [Nodes -> NodeType] /\ fresh' \in [Nodes -> Nat]
    BY <1>2 DEF SaeInv, DataTypeOK
  <2> QED BY <2>1 DEF SaeInv, DataTypeOK
<1>4. OnlyMeshTimers'
  <2>1. node'[p] = r /\ node'[q] = node[q] /\ \A x \in Nodes : x = p \/ x = q
    BY <1>1, TwoNodes DEF SaeInv, DataTypeOK
  <2> QED BY <2>1 DEF OnlyMeshTimers, SaeInv
<1>5. GroupInHand'
  BY DEF SaeInv, GroupInHand
<1>6. ASSUME ~MeshTokens
      PROVE  PairAt(1)'
  <2>1. Pair(conf.mesh, p, q, r.sae, r.timer, n, FramesOf(p) \cup out,
             Rec(q), node[q].timer, fresh[q], FramesOf(q))
    BY <1>6 DEF PairWith
  <2>2. /\ node'[p] = r /\ node'[q] = node[q] /\ fresh'[p] = n /\ fresh'[q] = fresh[q]
    BY <1>1, <1>2 DEF SaeInv, DataTypeOK
  <2>3. Rec(p)' = r.sae /\ Rec(q)' = Rec(q)
    <3>1. ~(p = 2 /\ Station)
      BY DEF Runs, Station, Nodes
    <3> QED BY <2>2, <3>1 DEF Rec, Station
  <2>4. FramesOf(p)' \subseteq FramesOf(p) \cup out /\ FramesOf(q)' \subseteq FramesOf(q)
    BY <1>1 DEF FramesOf
  <2>5. Pair(conf.mesh, p, q, Rec(p)', node'[p].timer, fresh'[p], FramesOf(p)',
             Rec(q)', node'[q].timer, fresh'[q], FramesOf(q)')
    BY <2>1, <2>2, <2>3, <2>4, FewerFrames
  <2>6. Pair(conf.mesh, q, p, Rec(q)', node'[q].timer, fresh'[q], FramesOf(q)',
             Rec(p)', node'[p].timer, fresh'[p], FramesOf(p)')
    BY <2>5, Swap
  <2>7. CASE p = 1
    <3>1. q = 2
      BY <2>7, TwoNodes
    <3> QED BY <2>5, <2>7, <3>1, TwoNodes DEF PairAt
  <2>8. CASE p = 2
    <3>1. q = 1
      BY <2>8, TwoNodes
    <3> QED BY <2>6, <2>8, <3>1, TwoNodes DEF PairAt
  <2> QED BY <2>7, <2>8, TwoNodes
<1>7. MeshTokens' <=> MeshTokens
  BY DEF MeshTokens
<1> QED BY <1>3, <1>4, <1>5, <1>6, <1>7 DEF SaeInv

\* A frame has been handled.
LEMMA HandledStep ==
    ASSUME SaeInv, NEW p \in Nodes, Gets(p), NEW r \in NodeType,
           NEW frames \in Seq(SaeFrames), Handled(p, r, frames), sme' = sme,
           pmksa' \in [Nodes -> SUBSET Scalars],
           refused' \in [Nodes -> BOOLEAN], faults' \in Nat,
           ~conf.mesh => ~r.timer /\ ~r.auth_timer,
           ~MeshTokens => PairWith(p, r.sae, r.timer, MadeWith(p, r.sae, fresh[p]),
                                   Elems(frames))
    PROVE  SaeInv'
<1> DEFINE q == Other(p)
<1>1. q \in Nodes /\ q # p
  BY TwoNodes
<1>2. /\ chan[p] \in Seq(SaeFrames) /\ chan[q] \in Seq(SaeFrames) /\ chan[p] # << >>
      /\ Runs(p) /\ DOMAIN chan = Nodes
  BY <1>1 DEF SaeInv, DataTypeOK, Gets
<1>3. /\ chan' = [chan EXCEPT ![p] = Tail(@), ![q] = Queue(@, frames)]
      /\ node' = [node EXCEPT ![p] = r] /\ conf' = conf /\ pending' = pending
      /\ required' = required
      /\ fresh' = [fresh EXCEPT ![p] = MadeWith(p, r.sae, fresh[p])]
  BY DEF Handled, MadeWith, NextScalar, SaeInv, DataTypeOK
<1>4. /\ Tail(chan[p]) \in Seq(SaeFrames) /\ Elems(Tail(chan[p])) \subseteq Elems(chan[p])
      /\ Queue(chan[q], frames) \in Seq(SaeFrames)
      /\ Elems(Queue(chan[q], frames)) \subseteq Elems(chan[q]) \cup Elems(frames)
  BY <1>2, TailOf, QueueOf
<1>5. chan'[p] = Tail(chan[p]) /\ chan'[q] = Queue(chan[q], frames)
  BY <1>1, <1>2, <1>3
<1>6. chan' \in [Nodes -> Seq(SaeFrames)]
  BY <1>1, <1>2, <1>3, <1>4 DEF SaeInv, DataTypeOK
<1>7. /\ Elems(chan'[q]) \subseteq Elems(chan[q]) \cup Elems(frames)
      /\ Elems(chan'[p]) \cup Elems(pending'[p]) \subseteq Elems(chan[p]) \cup Elems(pending[p])
      /\ pending'[q] = pending[q]
  BY <1>3, <1>4, <1>5
<1>8. pending' \in [Nodes -> Seq(SaeFrames)] /\ required' \in [Nodes -> BOOLEAN]
  BY <1>3 DEF SaeInv, DataTypeOK
<1> QED BY <1>2, <1>3, <1>6, <1>7, <1>8, PeerStep

\* Frames have been sent.
LEMMA SentStep ==
    ASSUME SaeInv, NEW p \in Nodes, Runs(p), NEW r \in NodeType,
           NEW frames \in Seq(SaeFrames), Sent(p, r, frames), sme' = sme,
           pmksa' = pmksa, pending' = pending, required' \in [Nodes -> BOOLEAN],
           refused' \in [Nodes -> BOOLEAN], faults' \in Nat,
           ~conf.mesh => ~r.timer /\ ~r.auth_timer,
           ~MeshTokens => PairWith(p, r.sae, r.timer, MadeWith(p, r.sae, fresh[p]),
                                   Elems(frames))
    PROVE  SaeInv'
<1> DEFINE q == Other(p)
<1>1. q \in Nodes /\ q # p
  BY TwoNodes
<1>2. chan[q] \in Seq(SaeFrames) /\ DOMAIN chan = Nodes
  BY <1>1 DEF SaeInv, DataTypeOK
<1>3. /\ chan' = [chan EXCEPT ![q] = Queue(@, frames)]
      /\ node' = [node EXCEPT ![p] = r] /\ conf' = conf
      /\ fresh' = [fresh EXCEPT ![p] = MadeWith(p, r.sae, fresh[p])]
  BY DEF Sent, MadeWith, NextScalar, SaeInv, DataTypeOK
<1>4. /\ Queue(chan[q], frames) \in Seq(SaeFrames)
      /\ Elems(Queue(chan[q], frames)) \subseteq Elems(chan[q]) \cup Elems(frames)
  BY <1>2, QueueOf
<1>5. chan'[p] = chan[p] /\ chan'[q] = Queue(chan[q], frames)
  BY <1>1, <1>2, <1>3
<1>6. chan' \in [Nodes -> Seq(SaeFrames)]
  BY <1>1, <1>2, <1>3, <1>4 DEF SaeInv, DataTypeOK
<1>7. /\ Elems(chan'[q]) \subseteq Elems(chan[q]) \cup Elems(frames)
      /\ Elems(chan'[p]) \cup Elems(pending'[p]) \subseteq Elems(chan[p]) \cup Elems(pending[p])
      /\ pending'[q] = pending[q]
  BY <1>4, <1>5
<1>8. pending' \in [Nodes -> Seq(SaeFrames)] /\ pmksa' \in [Nodes -> SUBSET Scalars]
  BY DEF SaeInv, DataTypeOK
<1> QED BY <1>3, <1>6, <1>7, <1>8, PeerStep

\* A step that changes no data of SAE; frames may be lost.
LEMMA NetStep ==
    ASSUME SaeInv, DataTypeOK', OnlyMeshTimers', GroupInHand', conf' = conf, fresh' = fresh,
           \A p \in Nodes : /\ Rec(p)' = Rec(p) /\ (node[p].timer)' = node[p].timer
                            /\ FramesOf(p)' \subseteq FramesOf(p)
    PROVE  SaeInv'
<1>1. MeshTokens' <=> MeshTokens
  BY DEF MeshTokens
<1>2. ASSUME ~MeshTokens
      PROVE  PairAt(1)'
  <2>1. Pair(conf.mesh, 1, Other(1), Rec(1), node[1].timer, fresh[1], FramesOf(1),
             Rec(Other(1)), node[Other(1)].timer, fresh[Other(1)], FramesOf(Other(1)))
    BY <1>2 DEF SaeInv, PairAt
  <2>2. Other(1) = 2 /\ 1 \in Nodes /\ 2 \in Nodes
    BY DEF Other, Nodes
  <2>3. /\ Rec(1)' = Rec(1) /\ Rec(2)' = Rec(2)
        /\ (node[1].timer)' = node[1].timer /\ (node[2].timer)' = node[2].timer
        /\ FramesOf(1)' \subseteq FramesOf(1) /\ FramesOf(2)' \subseteq FramesOf(2)
    BY <2>2
  <2>4. Pair(conf.mesh, 1, 2, Rec(1), node[1].timer, fresh[1], FramesOf(1),
             Rec(2), node[2].timer, fresh[2], FramesOf(2))
    BY <2>1, <2>2
  <2>5. Pair(conf.mesh, 1, 2, Rec(1), node[1].timer, fresh[1], FramesOf(1)',
             Rec(2), node[2].timer, fresh[2], FramesOf(2)')
    BY <2>3, <2>4, FewerFrames
  <2> QED BY <2>2, <2>3, <2>5 DEF PairAt
<1> QED BY <1>1, <1>2 DEF SaeInv

\* The state at p.
LEMMA PeerFacts ==
    ASSUME SaeInv, NEW p \in Nodes
    PROVE  /\ node[p] \in NodeType /\ node[p].sae \in SaeType /\ pmksa[p] \in SUBSET Scalars
           /\ node[p].timer \in BOOLEAN /\ node[p].auth_timer \in BOOLEAN
           /\ chan[p] \in Seq(SaeFrames) /\ pending[p] \in Seq(SaeFrames)
           /\ fresh[p] \in Nat /\ conf.mesh \in BOOLEAN
           /\ ~conf.mesh => ~node[p].timer /\ ~node[p].auth_timer
           /\ Cached(p) \in SUBSET Scalars
           /\ Runs(p) => Rec(p) = node[p].sae
           /\ conf.clogging[p] /\ conf.mesh => MeshTokens
<1>1. /\ node[p] \in NodeType /\ pmksa[p] \in SUBSET Scalars
      /\ chan[p] \in Seq(SaeFrames) /\ pending[p] \in Seq(SaeFrames) /\ fresh[p] \in Nat
  BY DEF SaeInv, DataTypeOK
<1>2. node[p].sae \in SaeType /\ node[p].timer \in BOOLEAN /\ node[p].auth_timer \in BOOLEAN
  BY <1>1 DEF NodeType
<1>3. conf.mesh \in BOOLEAN
  BY ConfType DEF SaeInv
<1>4. ~conf.mesh => ~node[p].timer /\ ~node[p].auth_timer
  BY DEF SaeInv, OnlyMeshTimers
<1>5. Cached(p) \in SUBSET Scalars
  BY <1>1, NewSaeType DEF Cached
<1>6. Runs(p) => Rec(p) = node[p].sae
  BY DEF Runs, Rec, Station, Nodes
<1>7. conf.clogging[p] /\ conf.mesh => MeshTokens
  BY DEF MeshTokens
<1> QED BY <1>1, <1>2, <1>3, <1>4, <1>5, <1>6, <1>7

\* The frame that is next for p.
LEMMA RxFacts ==
    ASSUME SaeInv, NEW p \in Nodes, chan[p] # << >>
    PROVE  /\ Rx(p) \in SaeFrames /\ Rx(p) \in FramesOf(Other(p))
           /\ Rx(p).group \in Nat /\ Rx(p).trans \in {1, 2} /\ Rx(p).status \in Statuses
           /\ Rx(p).send_confirm \in U16
           /\ chan[p][1] = Rx(p)
           /\ ~MeshTokens => GoodFrame(conf.mesh, Other(p), p, Rx(p), fresh[Other(p)], fresh[p])
<1>1. Rx(p) \in SaeFrames /\ Rx(p) \in Elems(chan[p]) /\ chan[p][1] = Rx(p)
  BY PeerFacts, TailOf DEF Rx
<1>2. Rx(p) \in FramesOf(Other(p))
  BY <1>1, TwoNodes DEF FramesOf
<1>3. ASSUME ~MeshTokens
      PROVE  GoodFrame(conf.mesh, Other(p), p, Rx(p), fresh[Other(p)], fresh[p])
  <2>1. PairWith(p, Rec(p), node[p].timer, fresh[p], {})
    BY <1>3, AtStart
  <2> QED BY <1>2, <2>1 DEF PairWith, Pair
<1>4. /\ Rx(p).group \in Nat /\ Rx(p).trans \in {1, 2} /\ Rx(p).status \in Statuses
      /\ Rx(p).send_confirm \in U16
  BY <1>1 DEF SaeFrames
<1> QED BY <1>1, <1>2, <1>3, <1>4

\* Both ends at the start of a step of the peer code.
LEMMA PeerStart ==
    ASSUME SaeInv, ~MeshTokens, NEW p \in Nodes, Runs(p)
    PROVE  /\ PairWith(p, node[p].sae, node[p].timer, fresh[p], {})
           /\ SideOK(conf.mesh, p, Other(p), node[p].sae, node[p].timer, fresh[p],
                     fresh[Other(p)])
<1>1. PairWith(p, node[p].sae, node[p].timer, fresh[p], {})
  BY AtStart, PeerFacts
<1> QED BY <1>1 DEF PairWith, Pair

\* Nothing but counters changes.
LEMMA KeepPair ==
    ASSUME SaeInv, ~MeshTokens, NEW p \in Nodes, Runs(p), NEW d, NEW tm, NEW out,
           Like(d, node[p].sae),
           conf.mesh /\ tm /\ node[p].sae.state = "CONFIRMED" => node[p].timer,
           \A f \in out : NewFrame(conf.mesh, p, Other(p), d, fresh[p], fresh[Other(p)], f)
    PROVE  PairWith(p, d, tm, MadeWith(p, d, fresh[p]), out)
<1>1. fresh[p] \in Nat
  BY PeerFacts
<1>2. /\ PairWith(p, node[p].sae, node[p].timer, fresh[p], {})
      /\ SideOK(conf.mesh, p, Other(p), node[p].sae, node[p].timer, fresh[p], fresh[Other(p)])
  BY PeerStart
<1>3. Legally(p, node[p].sae, d, tm, fresh[p], out)
  BY <1>1, <1>2, Keeps DEF Legally
<1>4. MadeWith(p, d, fresh[p]) = fresh[p]
  BY <1>1, <1>2, NotMade DEF Like
<1> QED BY <1>2, <1>3, <1>4, LegalStep

\* Everything is forgotten.
LEMMA ForgetPair ==
    ASSUME SaeInv, ~MeshTokens, NEW p \in Nodes, Runs(p), NEW d, NEW tm, NEW out,
           Like(d, NewSae),
           \A f \in out : NewFrame(conf.mesh, p, Other(p), d, fresh[p], fresh[Other(p)], f)
    PROVE  PairWith(p, d, tm, MadeWith(p, d, fresh[p]), out)
<1>1. fresh[p] \in Nat
  BY PeerFacts
<1>2. /\ PairWith(p, node[p].sae, node[p].timer, fresh[p], {})
      /\ SideOK(conf.mesh, p, Other(p), node[p].sae, node[p].timer, fresh[p], fresh[Other(p)])
  BY PeerStart
<1>3. Legally(p, node[p].sae, d, tm, fresh[p], out)
  BY <1>1, Forgets DEF Legally
<1>4. d.own_commit_scalar = NoScalar
  BY DEF Like, NewSae
<1>5. MadeWith(p, d, fresh[p]) = fresh[p]
  BY <1>1, <1>2, <1>4, NotMade
<1> QED BY <1>2, <1>3, <1>5, LegalStep

\* A frame is handled and no send is refused.
LEMMA QuietStep ==
    ASSUME SaeInv, NEW p \in Nodes, Gets(p), NEW r \in NodeType,
           NEW frames \in Seq(SaeFrames), HandledQuietly(p, r, frames), sme' = sme,
           ~conf.mesh => ~r.timer /\ ~r.auth_timer,
           ~MeshTokens => PairWith(p, r.sae, r.timer, MadeWith(p, r.sae, fresh[p]),
                                   Elems(frames))
    PROVE  SaeInv'
<1>1. Handled(p, r, frames)
  BY DEF HandledQuietly
<1>2. pmksa' = [pmksa EXCEPT ![p] = Cached(p)] /\ refused' = refused /\ faults' = faults
  BY DEF HandledQuietly
<1>3. pmksa' \in [Nodes -> SUBSET Scalars]
  BY <1>2, PeerFacts DEF SaeInv, DataTypeOK
<1>4. refused' \in [Nodes -> BOOLEAN] /\ faults' \in Nat
  BY <1>2 DEF SaeInv, DataTypeOK
<1> QED BY <1>1, <1>3, <1>4, HandledStep

(***************************************************************************)
(* handle_auth() and handle_auth_sae().                                    *)
(***************************************************************************)

\* The entry a frame finds.
LEMMA EntryFacts ==
    ASSUME SaeInv, NEW p \in Nodes
    PROVE  /\ Entry(p) \in NodeType /\ Entry(p).sae = node[p].sae
           /\ Entry(p).timer = node[p].timer /\ Entry(p).auth_timer = node[p].auth_timer
           /\ Entry(p).known = TRUE
<1>1. node[p] \in NodeType
  BY PeerFacts
<1> QED BY <1>1, Zenon DEF Entry, NodeType

\* An entry with other data.
LEMMA WithSae ==
    ASSUME NEW r \in NodeType, NEW d \in SaeType
    PROVE  LET e == [r EXCEPT !.sae = d] IN
           /\ e \in NodeType /\ e.sae = d /\ e.timer = r.timer
           /\ e.auth_timer = r.auth_timer /\ e.known = r.known
BY Zenon DEF NodeType

\* Not a peer, or a blocked one.
LEMMA RxNotPeerOK ==
    ASSUME SaeInv, NEW p \in Nodes, RxNotPeer(p), sme' = sme
    PROVE  SaeInv'
<1> DEFINE q == Other(p)
<1>1. q \in Nodes /\ q # p /\ Other(q) = p /\ \A x \in Nodes : x = p \/ x = q
  BY TwoNodes
<1>2. /\ chan' = [chan EXCEPT ![p] = Tail(@)] /\ chan[p] # << >>
      /\ pending' = pending \/ pending' = [pending EXCEPT ![p] = <<Rx(p)>>]
      /\ conf' = conf /\ node' = node /\ pmksa' = pmksa /\ required' = required
      /\ fresh' = fresh /\ refused' = refused /\ faults' = faults
  BY DEF RxNotPeer, Gets
<1>3. /\ chan[p] \in Seq(SaeFrames) /\ pending[p] \in Seq(SaeFrames)
      /\ DOMAIN chan = Nodes /\ DOMAIN pending = Nodes
  BY DEF SaeInv, DataTypeOK
<1>4. /\ Tail(chan[p]) \in Seq(SaeFrames) /\ Elems(Tail(chan[p])) \subseteq Elems(chan[p])
      /\ Rx(p) \in SaeFrames /\ Rx(p) \in Elems(chan[p])
  BY <1>2, <1>3, TailOf DEF Rx
<1>5. <<Rx(p)>> \in Seq(SaeFrames) /\ Elems(<<Rx(p)>>) = {Rx(p)}
  BY <1>4, Frames1
<1>6. /\ chan' \in [Nodes -> Seq(SaeFrames)] /\ pending' \in [Nodes -> Seq(SaeFrames)]
      /\ chan'[p] = Tail(chan[p]) /\ chan'[q] = chan[q]
      /\ pending'[p] = pending[p] \/ pending'[p] = <<Rx(p)>>
      /\ pending'[q] = pending[q]
  BY <1>1, <1>2, <1>3, <1>4, <1>5 DEF SaeInv, DataTypeOK
<1>7. DataTypeOK' /\ OnlyMeshTimers' /\ GroupInHand'
  BY <1>2, <1>6 DEF SaeInv, DataTypeOK, OnlyMeshTimers, GroupInHand
<1>8. Elems(chan'[p]) \cup Elems(pending'[p]) \subseteq Elems(chan[p]) \cup Elems(pending[p])
  BY <1>4, <1>5, <1>6
<1>9. FramesOf(p)' \subseteq FramesOf(p) /\ FramesOf(q)' \subseteq FramesOf(q)
  BY <1>1, <1>6, <1>8 DEF FramesOf
<1>10. \A x \in Nodes : Rec(x)' = Rec(x) /\ (node[x].timer)' = node[x].timer
  BY <1>2 DEF Rec, Station
<1> QED BY <1>1, <1>2, <1>7, <1>9, <1>10, NetStep

\* Nothing but a Commit starts an exchange.
LEMMA RxWithoutSaeOK ==
    ASSUME SaeInv, NEW p \in Nodes, RxWithoutSae(p), sme' = sme
    PROVE  SaeInv'
<1> DEFINE r == [node[p] EXCEPT !.known = TRUE]
<1>1. node[p] \in NodeType /\ node[p].sae \in SaeType
  BY PeerFacts
<1>2. /\ r \in NodeType /\ r.sae = node[p].sae /\ r.timer = node[p].timer
      /\ r.auth_timer = node[p].auth_timer
  BY <1>1, Zenon DEF NodeType
<1>3. Gets(p) /\ HandledQuietly(p, r, << >>) /\ Runs(p)
  BY DEF RxWithoutSae, Gets
<1> HIDE DEF r
<1>7. Like(r.sae, node[p].sae)
  BY <1>1, <1>2 DEF Like
<1>4. << >> \in Seq(SaeFrames) /\ Elems(<< >>) = {} /\ Like(r.sae, node[p].sae)
  BY <1>7, Frames0
<1>5. ~MeshTokens => PairWith(p, r.sae, r.timer, MadeWith(p, r.sae, fresh[p]), Elems(<< >>))
  BY <1>2, <1>3, <1>4, KeepPair
<1>6. ~conf.mesh => ~r.timer /\ ~r.auth_timer
  BY <1>2, PeerFacts
<1> QED BY <1>2, <1>3, <1>4, <1>5, <1>6, QuietStep

\* A refusal that is ignored.
LEMMA EntryOnly ==
    ASSUME SaeInv, NEW p \in Nodes, Gets(p), HandledQuietly(p, Entry(p), << >>), sme' = sme
    PROVE  SaeInv'
<1>1. /\ Entry(p) \in NodeType /\ Entry(p).sae = node[p].sae
      /\ Entry(p).timer = node[p].timer /\ Entry(p).auth_timer = node[p].auth_timer
      /\ node[p].sae \in SaeType
  BY EntryFacts, PeerFacts
<1>5. Like(Entry(p).sae, node[p].sae)
  BY <1>1 DEF Like
<1>2. << >> \in Seq(SaeFrames) /\ Elems(<< >>) = {} /\ Like(Entry(p).sae, node[p].sae)
  BY <1>5, Frames0
<1>3. ~MeshTokens => PairWith(p, Entry(p).sae, Entry(p).timer,
                              MadeWith(p, Entry(p).sae, fresh[p]), Elems(<< >>))
  BY <1>1, <1>2, KeepPair DEF Gets
<1>4. ~conf.mesh => ~Entry(p).timer /\ ~Entry(p).auth_timer
  BY <1>1, PeerFacts
<1> QED BY <1>1, <1>2, <1>3, <1>4, QuietStep

\* A group the node may be set to.
LEMMA GroupTypes ==
    ASSUME SaeInv, NEW p \in Nodes, NEW g
    PROVE  /\ g \in Groups(p) => g \in Nat
           /\ \A h : h \in NextGroups(p, g) => h \in Nat
<1>1. conf.groups[p] \in Seq(Nat \ {0})
  BY ConfType DEF SaeInv
<1>2. \A i \in DOMAIN conf.groups[p] : conf.groups[p][i] \in Nat
  BY <1>1
<1>3. \A j \in DOMAIN conf.groups[p] : j < Len(conf.groups[p]) => j + 1 \in DOMAIN conf.groups[p]
  BY <1>1
<1> QED BY <1>2, <1>3 DEF Groups, NextGroups

\* FINITE_CYCLIC_GROUP_NOT_SUPPORTED.
LEMMA RxGroupRefusedOK ==
    ASSUME SaeInv, NEW p \in Nodes, RxGroupRefused(p), sme' = sme
    PROVE  SaeInv'
<1>1. Gets(p) /\ Runs(p)
  BY DEF RxGroupRefused, Refused, Hears, Gets
<1>2. CASE HandledQuietly(p, Entry(p), << >>)
  BY <1>1, <1>2, EntryOnly
<1>3. ASSUME NEW g \in NextGroups(p, node[p].sae.group),
             HandledQuietly(p, [Entry(p) EXCEPT !.sae = SetGroup(@, g)], << >>)
      PROVE  SaeInv'
  <2> DEFINE d == SetGroup(Entry(p).sae, g)
             r == [Entry(p) EXCEPT !.sae = d]
  <2>7. g \in Nat
    BY GroupTypes
  <2>1. Like(d, NewSae) /\ d \in SaeType
    BY <2>7, SetGroupNew, ZenonT(60) DEF Like
  <2>2. HandledQuietly(p, r, << >>)
    <3>1. [Entry(p) EXCEPT !.sae = SetGroup(@, g)] = r
      OBVIOUS
    <3> QED BY <1>3, <3>1
  <2> HIDE DEF d
  <2>3. r \in NodeType /\ r.sae = d /\ r.timer = Entry(p).timer /\ r.auth_timer = Entry(p).auth_timer
    BY <2>1, EntryFacts, WithSae
  <2> HIDE DEF r
  <2>4. << >> \in Seq(SaeFrames) /\ Elems(<< >>) = {}
    BY Frames0
  <2>5. ~MeshTokens => PairWith(p, r.sae, r.timer, MadeWith(p, r.sae, fresh[p]), Elems(<< >>))
    BY <1>1, <2>1, <2>3, <2>4, ForgetPair
  <2>6. ~conf.mesh => ~r.timer /\ ~r.auth_timer
    BY <2>3, EntryFacts, PeerFacts
  <2> QED BY <1>1, <2>2, <2>3, <2>4, <2>5, <2>6, QuietStep
<1> QED BY <1>2, <1>3 DEF RxGroupRefused

\* Other refusals.
LEMMA RxRefusalOK ==
    ASSUME SaeInv, NEW p \in Nodes, RxRefusal(p), sme' = sme
    PROVE  SaeInv'
BY EntryOnly DEF RxRefusal, Refused, Hears

\* A refusal more among the frames.
LEMMA AddRefusal ==
    ASSUME SaeInv, NEW p, NEW d, NEW tm, NEW n, NEW out, PairWith(p, d, tm, n, out),
           NEW f, NewFrame(conf.mesh, p, Other(p), d, n, fresh[Other(p)], f), f.status # "OK",
           NEW frames, frames \subseteq out \cup {f}
    PROVE  PairWith(p, d, tm, n, frames)
<1> DEFINE F == FramesOf(p) \cup out
           G == FramesOf(p) \cup frames
           q == Other(p)
           dq == Rec(q)
<1>1. /\ SideOK(conf.mesh, p, q, d, tm, n, fresh[q])
      /\ SideOK(conf.mesh, q, p, dq, node[q].timer, fresh[q], n)
      /\ \A x \in F : GoodFrame(conf.mesh, p, q, x, n, fresh[q])
      /\ \A x \in FramesOf(q) : GoodFrame(conf.mesh, q, p, x, fresh[q], n)
      /\ LatestOK(p, q, d, F, dq) /\ LatestOK(q, p, dq, FramesOf(q), d)
      /\ CrossOK(p, q, d, F, dq, FramesOf(q))
  BY DEF PairWith, Pair
<1>2. \A x \in G : x \in F \/ x = f
  OBVIOUS
<1>3. \A x \in G : GoodFrame(conf.mesh, p, q, x, n, fresh[q])
  BY <1>1, <1>2 DEF NewFrame
<1>4. \A s, t : Said(s, t, G, dq) => Said(s, t, F, dq)
  BY <1>2 DEF Said, IsConfirm
<1>5. LatestOK(p, q, d, G, dq)
  BY <1>1, <1>4, SMTT(60) DEF LatestOK
<1>6. CrossOK(p, q, d, G, dq, FramesOf(q))
  BY <1>1, <1>4 DEF CrossOK
<1> QED BY <1>1, <1>3, <1>5, <1>6 DEF PairWith, Pair

\* A driver refuses a frame.
LEMMA RefusedType ==
    ASSUME SaeInv, NEW p \in Nodes, SendRefused(p)
    PROVE  refused' \in [Nodes -> BOOLEAN] /\ faults' \in Nat
BY DEF SendRefused, Disturbance, SaeInv, DataTypeOK

\* The result of sae_sm_step().
LEMMA StepHandledOK ==
    ASSUME SaeInv, NEW p \in Nodes, Gets(p), NEW st, st.r \in NodeType,
           st.out \in Seq(SaeFrames), ~conf.mesh => ~st.r.timer /\ ~st.r.auth_timer,
           StepHandled(p, st), sme' = sme,
           ~MeshTokens => PairWith(p, st.r.sae, st.r.timer, MadeWith(p, st.r.sae, fresh[p]),
                                   Elems(st.out))
    PROVE  SaeInv'
<1> DEFINE f == Refusal(Rx(p).trans, "UNSPECIFIED_FAILURE", 0)
           failure == IF st.ok THEN << >> ELSE <<f>>
           frames == st.out \o failure
           n == MadeWith(p, st.r.sae, fresh[p])
<1>1. Rx(p).trans \in {1, 2} /\ "UNSPECIFIED_FAILURE" \in Statuses \ {"OK"} /\ 0 \in Nat
  BY RxFacts DEF Gets, Statuses
<1>2. f \in SaeFrames /\ f.status = "UNSPECIFIED_FAILURE"
  BY <1>1, RefusalType
<1>3. NewFrame(conf.mesh, p, Other(p), st.r.sae, n, fresh[Other(p)], f)
  BY <1>1, SendsRefusal
<1>4. Handled(p, st.r, frames)
  BY DEF StepHandled
<1> HIDE DEF f
<1>5. failure \in Seq(SaeFrames) /\ Elems(failure) \subseteq {f}
  BY <1>2, Frames0, Frames1
<1> HIDE DEF failure
<1>6. frames \in Seq(SaeFrames) /\ Elems(frames) \subseteq Elems(st.out) \cup {f}
  BY <1>5, ElemsCat
<1> HIDE DEF frames, n
<1>7. ~MeshTokens => PairWith(p, st.r.sae, st.r.timer, n, Elems(frames))
  <2>1. f.status # "OK"
    BY <1>2
  <2>2. ASSUME ~MeshTokens PROVE PairWith(p, st.r.sae, st.r.timer, n, Elems(frames))
    <3>1. PairWith(p, st.r.sae, st.r.timer, n, Elems(st.out))
      BY <2>2 DEF n
    <3> QED BY <1>3, <1>6, <2>1, <3>1, AddRefusal
  <2> QED BY <2>2
<1>8. \E key \in SUBSET Scalars : pmksa' = [pmksa EXCEPT ![p] = key]
  <2>1. NoKey \in SUBSET Scalars /\ Cached(p) \in SUBSET Scalars /\ st.r.sae.pmk \in SUBSET Scalars
    <3>1. st.r.sae \in SaeType
      BY DEF NodeType
    <3> QED BY <3>1, NewSaeType, PeerFacts, Fields
  <2>2. \E key \in {NoKey, Cached(p), st.r.sae.pmk} : pmksa' = [pmksa EXCEPT ![p] = key]
    BY DEF StepHandled
  <2> QED BY <2>1, <2>2
<1>9. pmksa' \in [Nodes -> SUBSET Scalars]
  BY <1>8 DEF SaeInv, DataTypeOK
<1>10. refused' \in [Nodes -> BOOLEAN] /\ faults' \in Nat
  <2>1. (refused' = refused /\ faults' = faults) \/ SendRefused(p)
    BY DEF StepHandled
  <2> QED BY <2>1, RefusedType DEF SaeInv, DataTypeOK
<1> QED BY <1>4, <1>6, <1>7, <1>9, <1>10, HandledStep DEF n

\* A Commit.
LEMMA RxCommitOK ==
    ASSUME SaeInv, NEW p \in Nodes, RxCommit(p), sme' = sme
    PROVE  SaeInv'
<1> DEFINE f == Rx(p)
           q == Other(p)
           d0 == node[p].sae
           d == BeforeParse(Entry(p).sae)
           status == ParseStatus(d, Groups(p), f)
           e == ParseData(d, Groups(p), f)
           r == [Entry(p) EXCEPT !.sae = e]
<1>1. /\ Gets(p) /\ Runs(p) /\ f.trans = 1 /\ f.status = "OK" /\ chan[p] # << >>
  BY DEF RxCommit, Hears, Gets
<1>2. q \in Nodes /\ q # p
  BY TwoNodes
<1>3. /\ f \in SaeFrames /\ f.group \in Nat /\ f.scalar \in Scalars
  BY <1>1, RxFacts DEF SaeFrames
<1>4. /\ node[p] \in NodeType /\ d0 \in SaeType /\ conf.mesh \in BOOLEAN
      /\ fresh[p] \in Nat /\ fresh[q] \in Nat
      /\ ~conf.mesh => ~node[p].timer /\ ~node[p].auth_timer
  BY <1>2, PeerFacts
<1>5. /\ Entry(p) \in NodeType /\ Entry(p).sae = d0 /\ Entry(p).timer = node[p].timer
      /\ Entry(p).auth_timer = node[p].auth_timer
  BY EntryFacts
<1>6. /\ d \in SaeType
      /\ d = d0 \/ (d = NewSae /\ ~conf.mesh)
      /\ ~conf.mesh => d.state # "COMMITTED"
  BY <1>4, <1>5, NewSaeType DEF BeforeParse, NewSae
<1> HIDE DEF d
<1>7. /\ status \in Statuses \ {"TOKEN_REQ"} /\ e \in SaeType
      /\ status = "OK" => e = [GroupData(d, Groups(p), f.group) EXCEPT !.peer_commit_scalar = f.scalar]
  <2> DEFINE g == GroupData(d, Groups(p), f.group)
  <2>1. g \in SaeType
    BY <1>3, <1>6, GroupCases DEF Like
  <2>2. /\ status \in Statuses \ {"TOKEN_REQ"}
        /\ e = g \/ e = [g EXCEPT !.peer_commit_scalar = f.scalar]
        /\ status = "OK" => e = [g EXCEPT !.peer_commit_scalar = f.scalar]
    BY <1>3, <1>6, ParseCases
  <2> HIDE DEF g, e, status
  <2>3. [g EXCEPT !.peer_commit_scalar = f.scalar] \in SaeType
    BY <1>3, <2>1, UpdatesPeer
  <2>4. e \in SaeType
    BY <2>1, <2>2, <2>3
  <2> QED BY <2>2, <2>4 DEF g
\* The data once the Commit has been parsed.
<1>8. ASSUME ~MeshTokens
      PROVE  /\ PairWith(p, e, Off, fresh[p], {})
             /\ status = "OK" => e.peer_commit_scalar # NoScalar
             /\ ~conf.mesh => e.state # "COMMITTED"
  <2>1. PairWith(p, d0, node[p].timer, fresh[p], {})
    BY <1>1, <1>8, PeerStart
  <2>2. PairWith(p, d, node[p].timer, fresh[p], {})
    <3>1. CASE d = d0
      BY <2>1, <3>1
    <3>2. CASE d = NewSae
      <4>1. Like(d, NewSae)
        BY <3>2, NewSaeType DEF Like
      <4>2. Legally(p, d0, d, node[p].timer, fresh[p], {})
        BY <1>4, <4>1, Forgets DEF Legally
      <4> QED BY <2>1, <4>2, LegalStep
    <3> QED BY <1>6, <3>1, <3>2
  <2>3. SideOK(conf.mesh, p, q, d, node[p].timer, fresh[p], fresh[q])
    BY <2>2 DEF PairWith, Pair
  <2>4. GoodFrame(conf.mesh, q, p, f, fresh[q], fresh[p])
    BY <1>1, <1>8, RxFacts
  <2>5. ~ApCommitted(conf.mesh, p, d)
    BY <1>6 DEF ApCommitted
  <2>6. /\ Legal(conf.mesh, p, q, d, fresh[p], fresh[q], FramesOf(q), e, Off, fresh[p], {})
        /\ status = "OK" => e.peer_commit_scalar # NoScalar
        /\ e.state = "COMMITTED" => d.state = "COMMITTED"
    BY <1>1, <1>2, <1>4, <2>3, <2>4, <2>5, Parses
  <2>7. Legally(p, d, e, Off, fresh[p], {})
    BY <2>6 DEF Legally
  <2>8. PairWith(p, e, Off, fresh[p], {})
    BY <2>2, <2>7, LegalStep
  <2> QED BY <1>6, <2>6, <2>8
<1> HIDE DEF e, status
<1>9. /\ r \in NodeType /\ r.sae = e /\ r.timer = node[p].timer
      /\ r.auth_timer = node[p].auth_timer
  BY <1>5, <1>7, WithSae
<1>10. ~conf.mesh => ~r.timer /\ ~r.auth_timer
  BY <1>4, <1>9
<1> HIDE DEF r
\* The Commit does not count.
<1>11. ASSUME NEW out, \A z \in out : NewFrame(conf.mesh, p, q, e, fresh[p], fresh[q], z),
              ~MeshTokens, ~conf.mesh \/ status # "OK"
       PROVE  PairWith(p, e, r.timer, MadeWith(p, e, fresh[p]), out)
  <2>1. PairWith(p, e, Off, fresh[p], {})
    BY <1>8, <1>11
  <2>2. SideOK(conf.mesh, p, q, e, Off, fresh[p], fresh[q])
    BY <2>1 DEF PairWith, Pair
  <2>3. MadeWith(p, e, fresh[p]) = fresh[p]
    BY <1>4, <2>2, NotMade
  <2>4. CASE ~(conf.mesh /\ r.timer /\ e.state = "CONFIRMED")
    <3>1. Like(e, e)
      BY <1>7 DEF Like
    <3>2. Legally(p, e, e, r.timer, fresh[p], out)
      BY <1>4, <1>11, <2>2, <2>4, <3>1, Keeps DEF Legally
    <3> QED BY <2>1, <2>3, <3>2, LegalStep
  <2>5. CASE conf.mesh /\ r.timer /\ e.state = "CONFIRMED"
    \* Nothing was changed by a Commit that is refused.
    <3>1. d = d0 /\ status # "OK"
      BY <1>6, <1>11, <2>5
    <3>2. e = GroupData(d, Groups(p), f.group)
      BY <1>3, <1>6, <3>1, ParseCases DEF e, status
    <3>3. e = d \/ Like(e, NewSae)
      BY <1>3, <1>6, <3>2, GroupCases
    <3>4. e = d0
      BY <2>5, <3>1, <3>3 DEF Like, NewSae
    <3> QED BY <1>1, <1>7, <1>9, <1>11, <2>5, <3>4, KeepPair DEF Like
  <2> QED BY <2>4, <2>5
<1>12. ASSUME status # "OK", HandledQuietly(p, r, <<Refusal(1, status, 0)>>)
       PROVE  SaeInv'
  <2> DEFINE z == Refusal(1, status, 0)
  <2>1. status \in Statuses \ {"OK"} /\ status # "TOKEN_REQ" /\ 1 \in {1, 2} /\ 0 \in Nat
    BY <1>7, <1>12
  <2>2. z \in SaeFrames /\ NewFrame(conf.mesh, p, q, e, fresh[p], fresh[q], z)
    BY <2>1, RefusalType, SendsRefusal
  <2> HIDE DEF z
  <2>3. <<z>> \in Seq(SaeFrames) /\ Elems(<<z>>) = {z}
    BY <2>2, Frames1
  <2>4. ~MeshTokens => PairWith(p, r.sae, r.timer, MadeWith(p, r.sae, fresh[p]), Elems(<<z>>))
    BY <1>9, <1>11, <1>12, <2>2, <2>3
  <2>5. HandledQuietly(p, r, <<z>>)
    BY <1>12 DEF z
  <2> QED BY <1>1, <1>9, <1>10, <2>3, <2>4, <2>5, QuietStep
<1>13. ASSUME f.token, Disturbance, refused' = refused, Handled(p, r, << >>),
              pmksa' = [pmksa EXCEPT ![p] = Cached(p)]
       PROVE  SaeInv'
  <2>1. << >> \in Seq(SaeFrames) /\ Elems(<< >>) = {}
    BY Frames0
  <2>2. ~MeshTokens => ~conf.mesh
    BY <1>1, <1>13, RxFacts DEF GoodFrame
  <2>3. ~MeshTokens => PairWith(p, r.sae, r.timer, MadeWith(p, r.sae, fresh[p]), Elems(<< >>))
    BY <1>9, <1>11, <2>1, <2>2
  <2>4. pmksa' \in [Nodes -> SUBSET Scalars]
    BY <1>13, PeerFacts DEF SaeInv, DataTypeOK
  <2>5. refused' \in [Nodes -> BOOLEAN] /\ faults' \in Nat
    BY <1>13 DEF Disturbance, SaeInv, DataTypeOK
  <2> QED BY <1>1, <1>9, <1>10, <1>13, <2>1, <2>3, <2>4, <2>5, HandledStep
<1>14. ASSUME conf.clogging[p],
              HandledQuietly(p, [r EXCEPT !.sae = TokenAsked(@)],
                             <<Refusal(1, "TOKEN_REQ", r.sae.group)>>)
       PROVE  SaeInv'
  <2> DEFINE z == Refusal(1, "TOKEN_REQ", r.sae.group)
             a == TokenAsked(r.sae)
             x == [r EXCEPT !.sae = a]
  <2>1. a \in SaeType /\ (~conf.mesh => a = e)
    <3>1. [e EXCEPT !.state = "NOTHING"] \in SaeType
      BY <1>7, UpdatesState DEF InState, SaeStates
    <3> QED BY <1>7, <1>9, <3>1 DEF TokenAsked
  <2>2. [r EXCEPT !.sae = TokenAsked(@)] = x
    OBVIOUS
  <2>3. r.sae.group \in Nat /\ "TOKEN_REQ" \in Statuses \ {"OK"} /\ 1 \in {1, 2}
    BY <1>7, <1>9, Fields DEF Statuses
  <2>4. z \in SaeFrames
    BY <2>3, RefusalType
  <2>5. ~conf.mesh => NewFrame(conf.mesh, p, q, e, fresh[p], fresh[q], z)
    BY <2>3, SendsRefusal
  <2> HIDE DEF z
  <2>6. <<z>> \in Seq(SaeFrames) /\ Elems(<<z>>) = {z}
    BY <2>4, Frames1
  <2>7. HandledQuietly(p, x, <<z>>)
    BY <1>14, <2>2 DEF z
  <2> HIDE DEF a
  <2>8. x \in NodeType /\ x.sae = a /\ x.timer = r.timer /\ x.auth_timer = r.auth_timer
    BY <1>9, <2>1, WithSae
  <2> HIDE DEF x
  <2>9. ~MeshTokens => ~conf.mesh
    BY <1>14, PeerFacts
  <2>10. ~MeshTokens => PairWith(p, x.sae, x.timer, MadeWith(p, x.sae, fresh[p]), Elems(<<z>>))
    BY <1>11, <2>1, <2>5, <2>6, <2>8, <2>9
  <2>11. ~conf.mesh => ~x.timer /\ ~x.auth_timer
    BY <1>10, <2>8
  <2> QED BY <1>1, <2>6, <2>7, <2>8, <2>10, <2>11, QuietStep
\* It counts.
<1>15. ASSUME status = "OK", NEW k \in 0 .. 2,
              StepHandled(p, SmCommit(r, NextScalar(p), k))
       PROVE  SaeInv'
  <2> DEFINE st == SmCommit(r, NextScalar(p), k)
  <2>1. NextScalar(p) = <<p, fresh[p] + 1>>
    BY DEF NextScalar
  <2>2. NextScalar(p) \in Scalars
    BY <1>4, <2>1 DEF Nodes, Scalars
  <2>3. StepType(r, st)
    BY <1>4, <1>9, <2>2, SmCommitType
  <2>4. ASSUME ~MeshTokens
        PROVE  PairWith(p, st.r.sae, st.r.timer, MadeWith(p, st.r.sae, fresh[p]), Elems(st.out))
    <3>1. PairWith(p, e, Off, fresh[p], {})
      BY <1>8, <2>4
    <3>2. SideOK(conf.mesh, p, q, e, Off, fresh[p], fresh[q])
      BY <3>1 DEF PairWith, Pair
    <3>3. e.peer_commit_scalar # NoScalar /\ (~conf.mesh => e.state # "COMMITTED")
      BY <1>8, <1>15, <2>4
    <3>4. Legal(conf.mesh, p, q, r.sae, fresh[p], fresh[q], FramesOf(q), st.r.sae, st.r.timer,
                MadeWith(p, st.r.sae, fresh[p]), Elems(st.out))
      BY <1>2, <1>4, <1>9, <2>1, <3>2, <3>3, SmCommitLegal
    <3> HIDE DEF st
    <3>5. Legally(p, e, st.r.sae, st.r.timer, MadeWith(p, st.r.sae, fresh[p]), Elems(st.out))
      BY <1>9, <3>4 DEF Legally
    <3> QED BY <3>1, <3>5, LegalStep
  <2> HIDE DEF st
  <2>5. /\ st.r \in NodeType /\ st.out \in Seq(SaeFrames)
        /\ ~conf.mesh => ~st.r.timer /\ ~st.r.auth_timer
    BY <1>10, <2>3 DEF StepType
  <2>6. StepHandled(p, st)
    BY <1>15 DEF st
  <2> QED BY <1>1, <2>4, <2>5, <2>6, StepHandledOK
<1> QED
  <2>1. \/ status # "OK" /\ HandledQuietly(p, r, <<Refusal(1, status, 0)>>)
        \/ /\ f.token /\ Disturbance /\ refused' = refused /\ Handled(p, r, << >>)
           /\ pmksa' = [pmksa EXCEPT ![p] = Cached(p)]
        \/ /\ conf.clogging[p]
           /\ HandledQuietly(p, [r EXCEPT !.sae = TokenAsked(@)],
                             <<Refusal(1, "TOKEN_REQ", r.sae.group)>>)
        \/ status = "OK" /\ \E k \in 0 .. 2 : StepHandled(p, SmCommit(r, NextScalar(p), k))
    BY DEF RxCommit, r, e, status, d
  <2> QED BY <1>12, <1>13, <1>14, <1>15, <2>1

\* ANTI_CLOGGING_TOKEN_REQ, which a mesh without tokens does not see.
LEMMA RxTokenRequestOK ==
    ASSUME SaeInv, NEW p \in Nodes, RxTokenRequest(p), sme' = sme
    PROVE  SaeInv'
<1> DEFINE g == Rx(p).group
           d == GroupData(Entry(p).sae, Groups(p), g)
           status == GroupStatus(Entry(p).sae, Groups(p), g)
           t == [d EXCEPT !.token = TRUE]
           c == [t EXCEPT !.state = "COMMITTED", !.sync = 0]
<1>1. /\ Gets(p) /\ chan[p] # << >> /\ conf.mesh /\ Rx(p).status = "TOKEN_REQ"
  BY DEF RxTokenRequest, Refused, Hears, Gets
<1>2. MeshTokens
  BY <1>1, RxFacts DEF GoodFrame
<1>3. Entry(p) \in NodeType /\ Entry(p).sae \in SaeType /\ g \in Nat /\ conf.mesh \in BOOLEAN
  BY <1>1, EntryFacts, PeerFacts, RxFacts
<1>4. d \in SaeType /\ status \in Statuses \ {"TOKEN_REQ"}
  BY <1>3, GroupCases DEF Like
<1>5. \/ HandledQuietly(p, [Armed(Entry(p)) EXCEPT !.sae = c], <<CommitFrame(t, TRUE)>>)
      \/ /\ SendRefused(p) /\ Handled(p, [Entry(p) EXCEPT !.sae = t], << >>)
         /\ pmksa' = [pmksa EXCEPT ![p] = Cached(p)]
      \/ HandledQuietly(p, [Entry(p) EXCEPT !.sae = d], <<Refusal(1, status, 0)>>)
  BY DEF RxTokenRequest
<1> HIDE DEF d, status
<1>6. t \in SaeType
  BY <1>4, Zenon DEF SaeType
<1> HIDE DEF t
<1>7. c \in SaeType
  <2>1. "COMMITTED" \in SaeStates /\ 0 \in Nat
    BY DEF SaeStates
  <2> QED BY <1>6, <2>1, Zenon DEF SaeType
<1> HIDE DEF c
<1>8. /\ CommitFrame(t, TRUE) \in SaeFrames /\ Refusal(1, status, 0) \in SaeFrames
  <2>1. status \in Statuses /\ 1 \in {1, 2} /\ 0 \in Nat /\ TRUE \in BOOLEAN
    BY <1>4
  <2>2. CommitFrame(t, TRUE) \in SaeFrames
    BY <1>6, <2>1, FrameTypes
  <2>3. Refusal(1, status, 0) \in SaeFrames
    BY <2>1, RefusalType
  <2> QED BY <2>2, <2>3
<1>9. /\ << >> \in Seq(SaeFrames) /\ <<CommitFrame(t, TRUE)>> \in Seq(SaeFrames)
      /\ <<Refusal(1, status, 0)>> \in Seq(SaeFrames)
  BY <1>8, ShortSeqs
<1>10. Armed(Entry(p)) \in NodeType
  BY <1>3, <1>4, StepRecord
<1>11. /\ [Armed(Entry(p)) EXCEPT !.sae = c] \in NodeType
       /\ [Entry(p) EXCEPT !.sae = t] \in NodeType /\ [Entry(p) EXCEPT !.sae = d] \in NodeType
  BY <1>3, <1>4, <1>6, <1>7, <1>10, WithSae
<1>12. ASSUME NEW r \in NodeType, NEW frames \in Seq(SaeFrames), HandledQuietly(p, r, frames)
       PROVE  SaeInv'
  BY <1>1, <1>2, <1>12, QuietStep
<1>13. ASSUME NEW r \in NodeType, SendRefused(p), Handled(p, r, << >>),
              pmksa' = [pmksa EXCEPT ![p] = Cached(p)]
       PROVE  SaeInv'
  <2>1. pmksa' \in [Nodes -> SUBSET Scalars]
    BY <1>13, PeerFacts DEF SaeInv, DataTypeOK
  <2>2. refused' \in [Nodes -> BOOLEAN] /\ faults' \in Nat
    BY <1>13, RefusedType
  <2> QED BY <1>1, <1>2, <1>9, <1>13, <2>1, <2>2, HandledStep
<1> QED BY <1>5, <1>9, <1>11, <1>12, <1>13

\* A Confirm.
LEMMA RxConfirmOK ==
    ASSUME SaeInv, NEW p \in Nodes, RxConfirm(p), sme' = sme
    PROVE  SaeInv'
<1> DEFINE f == Rx(p)
           q == Other(p)
           r == Entry(p)
           d == r.sae
           checked == d.state \in {"CONFIRMED", "ACCEPTED"} \/ ~conf.mesh
           seen == IF checked THEN [r EXCEPT !.sae.rc = f.send_confirm] ELSE r
           z == Refusal(2, "UNSPECIFIED_FAILURE", 0)
<1>1. Gets(p) /\ Runs(p) /\ chan[p] # << >> /\ IsConfirm(f)
  BY DEF RxConfirm, Hears, Gets, IsConfirm
<1>2. q \in Nodes /\ q # p
  BY TwoNodes
<1>3. /\ f \in SaeFrames /\ f.send_confirm \in U16 /\ f \in FramesOf(q)
      /\ ~MeshTokens => GoodFrame(conf.mesh, q, p, f, fresh[q], fresh[p])
  BY <1>1, RxFacts
<1>4. /\ node[p].sae \in SaeType /\ conf.mesh \in BOOLEAN
      /\ fresh[p] \in Nat /\ fresh[q] \in Nat
      /\ ~conf.mesh => ~node[p].timer /\ ~node[p].auth_timer
  BY <1>2, PeerFacts
<1>5. /\ r \in NodeType /\ d = node[p].sae /\ r.timer = node[p].timer
      /\ r.auth_timer = node[p].auth_timer
  BY EntryFacts
<1>6. \/ HandledQuietly(p, r, << >>) \/ HandledQuietly(p, r, <<z>>)
      \/ /\ checked => CheckConfirm(d, f)
         /\ \E k \in 0 .. 2 : StepHandled(p, SmConfirm(seen, k))
  BY DEF RxConfirm
<1>7. CASE HandledQuietly(p, r, << >>)
  BY <1>1, <1>7, EntryOnly
<1>8. CASE HandledQuietly(p, r, <<z>>)
  <2>1. "UNSPECIFIED_FAILURE" \in Statuses \ {"OK"} /\ 2 \in {1, 2} /\ 0 \in Nat
    BY DEF Statuses
  <2>2. z \in SaeFrames /\ NewFrame(conf.mesh, p, q, d, fresh[p], fresh[q], z)
    BY <2>1, RefusalType, SendsRefusal
  <2> HIDE DEF z, r
  <2>3. <<z>> \in Seq(SaeFrames) /\ Elems(<<z>>) = {z}
    BY <2>2, Frames1
  <2>4. Like(d, node[p].sae)
    BY <1>4, <1>5 DEF Like
  <2>5. ~MeshTokens => PairWith(p, d, r.timer, MadeWith(p, d, fresh[p]), Elems(<<z>>))
    BY <1>1, <1>5, <2>2, <2>3, <2>4, KeepPair
  <2> QED BY <1>1, <1>4, <1>5, <1>8, <2>3, <2>5, QuietStep
<1>9. ASSUME checked => CheckConfirm(d, f),
             NEW k \in 0 .. 2, StepHandled(p, SmConfirm(seen, k))
      PROVE  SaeInv'
  <2> DEFINE st == SmConfirm(seen, k)
  <2> HIDE DEF r
  <2>1. /\ seen \in NodeType /\ Like(seen.sae, d) /\ seen.timer = r.timer
        /\ seen.auth_timer = r.auth_timer
        /\ checked => CheckConfirm(seen.sae, f)
    <3>1. CASE ~checked
      BY <1>4, <1>5, <3>1 DEF Like
    <3>2. CASE checked
      <4> DEFINE e == [d EXCEPT !.rc = f.send_confirm]
      <4>1. Like(e, d) /\ e \in SaeType
        BY <1>3, <1>4, <1>5, Counters, ZenonT(60) DEF Like
      <4>2. seen = [r EXCEPT !.sae = e]
        BY <3>2
      <4>3. e.tmp = d.tmp
        BY <1>4, <1>5, Zenon DEF SaeType
      <4>4. CheckConfirm(e, f)
        BY <1>9, <3>2, <4>1, <4>3 DEF CheckConfirm, Like
      <4> HIDE DEF e, seen
      <4>5. /\ seen \in NodeType /\ seen.sae = e /\ seen.timer = r.timer
            /\ seen.auth_timer = r.auth_timer
        BY <1>5, <4>1, <4>2, WithSae
      <4> QED BY <4>1, <4>4, <4>5
    <3> HIDE DEF seen
    <3> QED BY <3>1, <3>2
  <2> HIDE DEF seen
  <2>2. StepType(seen, st)
    BY <1>4, <2>1, SmConfirmType
  <2>3. ASSUME ~MeshTokens
        PROVE  PairWith(p, st.r.sae, st.r.timer, MadeWith(p, st.r.sae, fresh[p]), Elems(st.out))
    <3>1. Like(seen.sae, node[p].sae) /\ seen.timer = node[p].timer
      BY <1>5, <2>1
    <3>2. PairWith(p, node[p].sae, node[p].timer, fresh[p], {})
          /\ SideOK(conf.mesh, p, q, node[p].sae, node[p].timer, fresh[p], fresh[q])
      BY <1>1, <2>3, PeerStart
    <3>3. Legally(p, node[p].sae, seen.sae, seen.timer, fresh[p], {})
      BY <1>4, <3>1, <3>2, Keeps DEF Legally
    <3>4. PairWith(p, seen.sae, seen.timer, fresh[p], {})
      BY <3>2, <3>3, LegalStep
    <3>5. SideOK(conf.mesh, p, q, seen.sae, seen.timer, fresh[p], fresh[q])
      BY <3>4 DEF PairWith, Pair
    <3>6. ~conf.mesh \/ seen.sae.state \in {"CONFIRMED", "ACCEPTED"} =>
            \E x \in FramesOf(q) : /\ IsConfirm(x) /\ CheckConfirm(seen.sae, x)
                                   /\ GoodFrame(conf.mesh, q, p, x, fresh[q], fresh[p])
      BY <1>1, <1>3, <2>1, <2>3 DEF Like
    <3>7. Legal(conf.mesh, p, q, seen.sae, fresh[p], fresh[q], FramesOf(q), st.r.sae,
                st.r.timer, MadeWith(p, st.r.sae, fresh[p]), Elems(st.out))
      BY <1>2, <1>4, <2>1, <3>5, <3>6, SmConfirmLegal
    <3> HIDE DEF st
    <3>8. Legally(p, seen.sae, st.r.sae, st.r.timer, MadeWith(p, st.r.sae, fresh[p]),
                  Elems(st.out))
      BY <3>7 DEF Legally
    <3> QED BY <3>4, <3>8, LegalStep
  <2> HIDE DEF st
  <2>4. /\ st.r \in NodeType /\ st.out \in Seq(SaeFrames)
        /\ ~conf.mesh => ~st.r.timer /\ ~st.r.auth_timer
    BY <1>4, <1>5, <2>1, <2>2 DEF StepType
  <2>5. StepHandled(p, st)
    BY <1>9 DEF st
  <2> QED BY <1>1, <2>3, <2>4, <2>5, StepHandledOK
<1> QED BY <1>6, <1>7, <1>8, <1>9

\* A frame is received by the peer code.
LEMMA PeerRxOK ==
    ASSUME SaeInv, NEW p \in Nodes, PeerRx(p), sme' = sme
    PROVE  SaeInv'
BY RxNotPeerOK, RxWithoutSaeOK, RxTokenRequestOK, RxGroupRefusedOK, RxRefusalOK, RxCommitOK,
   RxConfirmOK DEF PeerRx

(***************************************************************************)
(* Timers and the mesh code.                                               *)
(***************************************************************************)

\* An exchange is given up.
LEMMA BackToNothing ==
    ASSUME NEW m, NEW p, NEW q, NEW d0, NEW n0 \in Nat, NEW nq, NEW Fq, NEW d,
           NEW tm0, NEW tm, SideOK(m, p, q, d0, tm0, n0, nq), InState(d, d0, "NOTHING"),
           NEW out, \A f \in out : NewFrame(m, p, q, d, n0, nq, f)
    PROVE  Legal(m, p, q, d0, n0, nq, Fq, d, tm, n0, out)
<1>1. SideOK(m, p, q, d, tm, n0, nq) /\ ~Acc(d)
  BY DEF SideOK, InState, Acc
<1>2. SameOwn(d0, d)
  BY DEF InState, SameOwn
<1> QED BY <1>1, <1>2, QuietLegal

\* An exchange is started with a new scalar.
LEMMA FreshLegal ==
    ASSUME NEW m, NEW p \in Nodes, NEW q, NEW d0, NEW n0 \in Nat, NEW nq, NEW Fq,
           NEW d \in SaeType, NEW tm, d.own_commit_scalar = <<p, n0 + 1>>,
           d.peer_commit_scalar = NoScalar, d.pmk = d.kck, ~d.cached, ~d.token,
           d.state \in {"NOTHING", "COMMITTED"}, ~ApCommitted(m, p, d),
           NEW out, \A f \in out : NewFrame(m, p, q, d, n0 + 1, nq, f)
    PROVE  Legal(m, p, q, d0, n0, nq, Fq, d, tm, n0 + 1, out)
<1>1. n0 + 1 \in Nat /\ n0 + 1 # 0
  OBVIOUS
<1>2. d.own_commit_scalar # NoScalar
  BY <1>1, NewScalar, ScalarNumber
<1>3. SideOK(m, p, q, d, tm, n0 + 1, nq) /\ ~Acc(d)
  BY <1>1, <1>2 DEF SideOK, Acc, ApCommitted
<1> QED BY <1>3 DEF Legal

\* auth_sae_retransmit_timer().
LEMMA RetransmitTimerOK ==
    ASSUME SaeInv, NEW p \in Nodes, RetransmitTimer(p), sme' = sme
    PROVE  SaeInv'
<1> DEFINE r == node[p]
           d == r.sae
           e == SyncError(d)
           q == Other(p)
<1>1. /\ r \in NodeType /\ d \in SaeType /\ fresh[p] \in Nat /\ fresh[q] \in Nat
      /\ conf.mesh /\ Runs(p) /\ conf.mesh \in BOOLEAN /\ r.timer
  <2>1. r.timer
    BY DEF RetransmitTimer
  <2>2. q \in Nodes
    BY TwoNodes
  <2> QED BY <2>1, <2>2, PeerFacts DEF Runs
<1>2. q \in Nodes /\ q # p
  BY TwoNodes
<1>3. /\ pmksa' = pmksa /\ pending' = pending /\ required' \in [Nodes -> BOOLEAN]
      /\ refused' \in [Nodes -> BOOLEAN] /\ faults' \in Nat
  BY DEF RetransmitTimer, OnTime, Early, Disturbance, SaeInv, DataTypeOK
<1>4. Like(e, d) /\ e \in SaeType
  BY <1>1, Counters DEF Like
<1>5. ASSUME ~MeshTokens
      PROVE  /\ PairWith(p, d, r.timer, fresh[p], {})
             /\ SideOK(conf.mesh, p, q, d, r.timer, fresh[p], fresh[q])
  BY <1>1, <1>5, PeerStart
<1>6. << >> \in Seq(SaeFrames) /\ Elems(<< >>) = {}
  BY Frames0
<1>7. ASSUME NEW x \in NodeType, NEW frames \in Seq(SaeFrames), Sent(p, x, frames),
             ~MeshTokens => PairWith(p, x.sae, x.timer, MadeWith(p, x.sae, fresh[p]),
                                     Elems(frames))
      PROVE  SaeInv'
  BY <1>1, <1>3, <1>7, SentStep
<1>8. Stopped(r) \in NodeType
  BY <1>1, StepRecord
<1>9. CASE Sent(p, [Stopped(r) EXCEPT !.sae = Desynchronized(d)], << >>)
  <2> DEFINE y == Desynchronized(d)
             x == [Stopped(r) EXCEPT !.sae = y]
  <2>1. InState(y, d, "NOTHING") /\ y \in SaeType
    BY <1>1, Clears DEF InState
  <2>2. Sent(p, x, << >>)
    BY <1>9
  <2> HIDE DEF y
  <2>3. x \in NodeType /\ x.sae = y
    BY <1>8, <2>1, WithSae
  <2> HIDE DEF x
  <2>4. ASSUME ~MeshTokens
        PROVE  PairWith(p, y, x.timer, MadeWith(p, y, fresh[p]), {})
    <3>1. MadeWith(p, y, fresh[p]) = fresh[p]
      BY <1>1, <1>5, <2>1, <2>4, NotMade, ZenonT(60) DEF InState
    <3>2. Legally(p, d, y, x.timer, fresh[p], {})
      BY <1>1, <1>5, <2>1, <2>4, BackToNothing DEF Legally
    <3> QED BY <1>5, <2>4, <3>1, <3>2, LegalStep
  <2> QED BY <1>6, <1>7, <2>2, <2>3, <2>4
<1>10. CASE d.state = "COMMITTED" /\ Sent(p, [r EXCEPT !.sae = e], <<CommitFrame(e, e.token)>>)
  <2> DEFINE x == [r EXCEPT !.sae = e]
             f == CommitFrame(e, e.token)
  <2>1. Sent(p, x, <<f>>)
    BY <1>10
  <2>2. e.token \in BOOLEAN
    BY <1>4, Fields
  <2> HIDE DEF e
  <2>3. x \in NodeType /\ x.sae = e /\ x.timer = r.timer
    BY <1>1, <1>4, WithSae
  <2> HIDE DEF x
  <2>4. f \in SaeFrames
    BY <1>4, <2>2, FrameTypes
  <2>5. ~MeshTokens => NewFrame(conf.mesh, p, q, e, fresh[p], fresh[q], f)
    <3>1. ASSUME ~MeshTokens
          PROVE  fresh[p] # 0 /\ e.own_commit_scalar = <<p, fresh[p]>> /\ ~e.token
      BY <1>1, <1>4, <1>5, <1>10, <3>1 DEF SideOK, Like
    <3> QED BY <1>1, <1>4, <2>2, <3>1, SendsCommit
  <2> HIDE DEF f
  <2>6. <<f>> \in Seq(SaeFrames) /\ Elems(<<f>>) = {f}
    BY <2>4, Frames1
  <2>7. ~MeshTokens => PairWith(p, x.sae, x.timer, MadeWith(p, x.sae, fresh[p]), Elems(<<f>>))
    BY <1>1, <1>4, <2>3, <2>5, <2>6, KeepPair
  <2> QED BY <1>7, <2>1, <2>3, <2>6, <2>7
<1>11. CASE d.state = "CONFIRMED" /\ Sent(p, [r EXCEPT !.sae = Confirmed(e)], <<ConfirmFrame(e)>>)
  <2> DEFINE y == Confirmed(e)
             x == [r EXCEPT !.sae = y]
             f == ConfirmFrame(e)
  <2>1. Sent(p, x, <<f>>)
    BY <1>11
  <2> HIDE DEF e
  <2>2. Like(y, e) /\ y \in SaeType /\ Like(y, d)
    BY <1>4, Counters DEF Like
  <2> HIDE DEF y
  <2>3. x \in NodeType /\ x.sae = y /\ x.timer = r.timer
    BY <1>1, <2>2, WithSae
  <2> HIDE DEF x
  <2>4. f \in SaeFrames
    <3>1. TRUE \in BOOLEAN
      OBVIOUS
    <3> QED BY <1>4, <3>1, FrameTypes
  <2>5. ~MeshTokens => NewFrame(conf.mesh, p, q, y, fresh[p], fresh[q], f)
    <3>1. ASSUME ~MeshTokens
          PROVE  /\ fresh[p] # 0 /\ e.own_commit_scalar = <<p, fresh[p]>>
                 /\ e.peer_commit_scalar \in ScalarsOf(q) /\ e.peer_commit_scalar[2] <= fresh[q]
                 /\ e.kck = Key(e.own_commit_scalar, e.peer_commit_scalar)
      BY <1>1, <1>4, <1>5, <1>11, <3>1 DEF SideOK, Like
    <3>2. y.kck = e.kck /\ y.state = "CONFIRMED" /\ ~Acc(y)
      BY <1>11, <2>2 DEF Like, Acc
    <3> QED BY <1>1, <1>2, <1>4, <3>1, <3>2, SendsConfirm
  <2> HIDE DEF f
  <2>6. <<f>> \in Seq(SaeFrames) /\ Elems(<<f>>) = {f}
    BY <2>4, Frames1
  <2>7. ~MeshTokens => PairWith(p, x.sae, x.timer, MadeWith(p, x.sae, fresh[p]), Elems(<<f>>))
    BY <1>1, <2>2, <2>3, <2>5, <2>6, KeepPair
  <2> QED BY <1>7, <2>1, <2>3, <2>6, <2>7
<1>12. CASE Sent(p, [Stopped(r) EXCEPT !.sae = e], << >>)
  <2> DEFINE x == [Stopped(r) EXCEPT !.sae = e]
  <2>1. Sent(p, x, << >>)
    BY <1>12
  <2> HIDE DEF e
  <2>2. x \in NodeType /\ x.sae = e
    BY <1>4, <1>8, WithSae
  <2> HIDE DEF x
  <2>3. ~MeshTokens => PairWith(p, x.sae, x.timer, MadeWith(p, x.sae, fresh[p]), Elems(<< >>))
    BY <1>1, <1>4, <1>6, <2>2, KeepPair
  <2> QED BY <1>6, <1>7, <2>1, <2>2, <2>3
<1> QED BY <1>9, <1>10, <1>11, <1>12 DEF RetransmitTimer

\* mesh_rsn_auth_sae_sta().
LEMMA MeshAuthOK ==
    ASSUME SaeInv, NEW p \in Nodes, conf.mesh, NEW r \in NodeType, MeshAuth(p, r), sme' = sme,
           pmksa' = pmksa, pending' = pending, required' \in [Nodes -> BOOLEAN],
           Like(r.sae, node[p].sae) \/ Like(r.sae, NewSae)
    PROVE  SaeInv'
<1> DEFINE q == Other(p)
           g == conf.groups[p][1]
           s == NextScalar(p)
           d0 == node[p].sae
           h == SetGroup(r.sae, g)
           d == [h EXCEPT !.own_commit_scalar = s]
           c == [d EXCEPT !.state = "COMMITTED"]
           new == [r EXCEPT !.has_sae = TRUE, !.caching = FALSE]
           a == [r.sae EXCEPT !.pmk = pmksa[p], !.cached = TRUE]
           x1 == [Accept(new, a) EXCEPT !.caching = TRUE]
           x2 == [Armed(new) EXCEPT !.sae = c, !.auth_timer = TRUE]
           x3 == [new EXCEPT !.sae = d]
<1>1. /\ fresh[p] \in Nat /\ fresh[q] \in Nat /\ r.sae \in SaeType /\ d0 \in SaeType
      /\ pmksa[p] \in SUBSET Scalars /\ conf.mesh \in BOOLEAN /\ Runs(p)
      /\ q \in Nodes /\ q # p
  BY TwoNodes, PeerFacts DEF Runs, NodeType
<1>2. g \in Nat
  BY ConfType DEF SaeInv
<1>3. s = <<p, fresh[p] + 1>> /\ s \in Scalars /\ fresh[p] + 1 \in Nat /\ fresh[p] + 1 # 0
  BY <1>1 DEF NextScalar, Nodes, Scalars
<1>4. \/ Sent(p, x1, << >>) /\ refused' = refused /\ faults' = faults
      \/ Sent(p, x2, <<CommitFrame(d, FALSE)>>) /\ refused' = refused /\ faults' = faults
      \/ Sent(p, x3, << >>) /\ SendRefused(p)
  BY DEF MeshAuth
<1>5. refused' \in [Nodes -> BOOLEAN] /\ faults' \in Nat
  BY <1>4, RefusedType DEF SaeInv, DataTypeOK
<1>6. ASSUME NEW x \in NodeType, NEW frames \in Seq(SaeFrames), Sent(p, x, frames),
             ~MeshTokens => PairWith(p, x.sae, x.timer, MadeWith(p, x.sae, fresh[p]),
                                     Elems(frames))
      PROVE  SaeInv'
  BY <1>1, <1>5, <1>6, SentStep
<1>7. << >> \in Seq(SaeFrames) /\ Elems(<< >>) = {}
  BY Frames0
<1>8. new \in NodeType /\ Armed(new) \in NodeType
  BY <1>1, Zenon DEF NodeType, Armed
<1>9. ~MeshTokens => /\ PairWith(p, d0, node[p].timer, fresh[p], {})
                     /\ SideOK(conf.mesh, p, q, d0, node[p].timer, fresh[p], fresh[q])
  BY <1>1, PeerStart
\* The PMKSA is used.
<1>10. CASE Sent(p, x1, << >>)
  <2>1. /\ a \in SaeType /\ a.cached = TRUE /\ a.state = r.sae.state /\ a.token = r.sae.token
        /\ a.own_commit_scalar = r.sae.own_commit_scalar /\ a.kck = r.sae.kck
        /\ a.peer_commit_scalar = r.sae.peer_commit_scalar
    BY <1>1, Zenon DEF SaeType
  <2> HIDE DEF a, new
  <2>2. Accept(new, a) \in NodeType /\ InState(Accept(new, a).sae, a, "ACCEPTED")
    BY <1>8, <2>1, AcceptRecord
  <2>3. x1 \in NodeType /\ x1.sae = Accept(new, a).sae
    BY <2>2, Zenon DEF NodeType
  <2> HIDE DEF x1
  <2> DEFINE y == x1.sae
  <2> HIDE DEF y
  <2>4. /\ y \in SaeType /\ y.state = "ACCEPTED" /\ y.cached = TRUE /\ y.token = r.sae.token
        /\ y.own_commit_scalar = r.sae.own_commit_scalar /\ y.kck = r.sae.kck
        /\ y.peer_commit_scalar = r.sae.peer_commit_scalar
    BY <2>1, <2>2, <2>3 DEF InState, y
  <2>5. ASSUME ~MeshTokens
        PROVE  PairWith(p, y, x1.timer, MadeWith(p, y, fresh[p]), {})
    <3>1. /\ y.own_commit_scalar = NoScalar \/ (y.own_commit_scalar = d0.own_commit_scalar
                                                 /\ y.kck = d0.kck)
          /\ y.peer_commit_scalar \in {NoScalar, d0.peer_commit_scalar}
          /\ ~y.token
      BY <1>9, <2>4, <2>5 DEF Like, NewSae, SideOK
    <3>2. SideOK(conf.mesh, p, q, y, x1.timer, fresh[p], fresh[q]) /\ ~Acc(y)
      BY <1>9, <2>4, <2>5, <3>1 DEF SideOK, Acc
    <3>3. y.own_commit_scalar = NoScalar \/ SameOwn(d0, y)
      BY <2>4, <3>1 DEF SameOwn
    <3>4. Legally(p, d0, y, x1.timer, fresh[p], {})
      BY <1>1, <3>2, <3>3, QuietLegal DEF Legally
    <3>5. MadeWith(p, y, fresh[p]) = fresh[p]
      <4>1. y.own_commit_scalar \in {d0.own_commit_scalar, NoScalar}
        BY <3>1
      <4>2. SideOK(conf.mesh, p, q, d0, node[p].timer, fresh[p], fresh[q])
        BY <1>9, <2>5
      <4> QED BY <1>1, <4>1, <4>2, NotMade
    <3> QED BY <1>9, <2>5, <3>4, <3>5, LegalStep
  <2> QED BY <1>6, <1>7, <1>10, <2>3, <2>5 DEF y
\* A Commit is made, and sent unless the driver refuses.
<1>11. /\ d \in SaeType /\ d.own_commit_scalar = s /\ d.peer_commit_scalar = NoScalar
       /\ d.pmk = d.kck /\ ~d.cached /\ ~d.token /\ d.state = "NOTHING"
  <2>1. h \in SaeType /\ Like(h, NewSae)
    BY <1>2, SetGroupNew DEF Like
  <2> HIDE DEF h, s
  <2>2. /\ d \in SaeType /\ d.state = h.state /\ d.token = h.token
        /\ d.own_commit_scalar = s /\ d.kck = h.kck /\ d.pmk = h.pmk
        /\ d.peer_commit_scalar = h.peer_commit_scalar /\ d.cached = h.cached
    BY <1>3, <2>1, UpdatesOwn
  <2> QED BY <2>1, <2>2, ZenonT(60) DEF Like, NewSae
<1> HIDE DEF d
<1>12. InState(c, d, "COMMITTED") /\ c \in SaeType
  BY <1>11, UpdatesState DEF InState, SaeStates
<1> HIDE DEF c, new
<1>13. ASSUME ~MeshTokens, NEW y \in SaeType, y = c \/ y = d, NEW tm, NEW out,
              \A f \in out : NewFrame(conf.mesh, p, q, y, fresh[p] + 1, fresh[q], f)
       PROVE  PairWith(p, y, tm, MadeWith(p, y, fresh[p]), out)
  <2>1. /\ y.own_commit_scalar = <<p, fresh[p] + 1>> /\ y.peer_commit_scalar = NoScalar
        /\ y.pmk = y.kck /\ ~y.cached /\ ~y.token /\ y.state \in {"NOTHING", "COMMITTED"}
    BY <1>3, <1>11, <1>12, <1>13 DEF InState
  <2>2. ~ApCommitted(conf.mesh, p, y)
    BY DEF ApCommitted
  <2>3. Legally(p, d0, y, tm, fresh[p] + 1, out)
    BY <1>1, <1>13, <2>1, <2>2, FreshLegal DEF Legally
  <2>4. MadeWith(p, y, fresh[p]) = fresh[p] + 1
    BY <2>1 DEF MadeWith
  <2> QED BY <1>9, <1>13, <2>3, <2>4, LegalStep
<1>14. CASE Sent(p, x2, <<CommitFrame(d, FALSE)>>)
  <2> DEFINE f == CommitFrame(d, FALSE)
  <2>1. x2 \in NodeType /\ x2.sae = c
    BY <1>8, <1>12, Zenon DEF NodeType
  <2>2. FALSE \in BOOLEAN
    OBVIOUS
  <2>3. f \in SaeFrames /\ NewFrame(conf.mesh, p, q, c, fresh[p] + 1, fresh[q], f)
    BY <1>1, <1>3, <1>11, <2>2, SendsCommit
  <2> HIDE DEF f, x2
  <2>4. <<f>> \in Seq(SaeFrames) /\ Elems(<<f>>) = {f}
    BY <2>3, Frames1
  <2>5. ~MeshTokens => PairWith(p, x2.sae, x2.timer, MadeWith(p, x2.sae, fresh[p]), Elems(<<f>>))
    BY <1>12, <1>13, <2>1, <2>3, <2>4
  <2>6. Sent(p, x2, <<f>>)
    BY <1>14 DEF f
  <2> QED BY <1>6, <2>1, <2>4, <2>5, <2>6
<1>15. CASE Sent(p, x3, << >>)
  <2>1. x3 \in NodeType /\ x3.sae = d
    BY <1>8, <1>11, WithSae
  <2> HIDE DEF x3
  <2>2. ~MeshTokens => PairWith(p, x3.sae, x3.timer, MadeWith(p, x3.sae, fresh[p]), Elems(<< >>))
    BY <1>7, <1>11, <1>13, <2>1
  <2> QED BY <1>6, <1>7, <1>15, <2>1, <2>2
<1> HIDE DEF x1, x2, x3
<1> QED BY <1>4, <1>10, <1>14, <1>15

\* A new entry has no data.
LEMMA NewEntry ==
    LET r == [NoNode EXCEPT !.known = TRUE] IN
    r \in NodeType /\ r.sae = NewSae /\ r.timer = FALSE /\ r.auth_timer = FALSE
BY NoNodeType, Zenon DEF NodeType

\* Nothing has been made.
LEMMA NothingMade ==
    ASSUME NEW p \in Nodes, NEW n \in Nat, NEW d, d.own_commit_scalar = NoScalar
    PROVE  MadeWith(p, d, n) = n
<1>1. n + 1 \in Nat /\ n + 1 # 0
  OBVIOUS
<1>2. <<p, n + 1>> # NoScalar
  BY <1>1, NewScalar, ScalarNumber
<1> QED BY <1>2 DEF MadeWith

\* A mesh peer has been found.
LEMMA NewMeshPeerOK ==
    ASSUME SaeInv, NEW p \in Nodes, NewMeshPeer(p), sme' = sme
    PROVE  SaeInv'
<1> DEFINE r == [NoNode EXCEPT !.known = TRUE]
           q == Other(p)
<1>1. r \in NodeType /\ r.sae = NewSae /\ r.timer = FALSE /\ r.auth_timer = FALSE
  BY NewEntry
<1>2. Like(r.sae, NewSae) /\ r.sae.own_commit_scalar = NoScalar
  <2> HIDE DEF r
  <2> QED BY <1>1, NewSaeType DEF Like, NewSae
<1>3. conf.mesh /\ pmksa' = pmksa /\ required' = required
  BY DEF NewMeshPeer
<1>4. required' \in [Nodes -> BOOLEAN] /\ pmksa' \in [Nodes -> SUBSET Scalars]
  BY <1>3 DEF SaeInv, DataTypeOK
<1>5. \/ MeshAuth(p, r) /\ pending' = pending
      \/ /\ \E late \in {<< >>, pending[p]} : chan' = [chan EXCEPT ![p] = Queue(late, @)]
         /\ node' = [node EXCEPT ![p] = r] /\ pending' = [pending EXCEPT ![p] = << >>]
         /\ conf' = conf /\ fresh' = fresh /\ refused' = refused /\ faults' = faults
  BY DEF NewMeshPeer
<1> HIDE DEF r
<1>6. CASE MeshAuth(p, r) /\ pending' = pending
  BY <1>1, <1>2, <1>3, <1>4, <1>6, MeshAuthOK
<1>7. ASSUME NEW late \in {<< >>, pending[p]}, chan' = [chan EXCEPT ![p] = Queue(late, @)],
             node' = [node EXCEPT ![p] = r], pending' = [pending EXCEPT ![p] = << >>],
             conf' = conf, fresh' = fresh, refused' = refused, faults' = faults
      PROVE  SaeInv'
  <2>1. /\ q \in Nodes /\ q # p
    BY TwoNodes
  <2>2. /\ chan[p] \in Seq(SaeFrames) /\ pending[p] \in Seq(SaeFrames)
        /\ DOMAIN chan = Nodes /\ DOMAIN pending = Nodes /\ DOMAIN fresh = Nodes
        /\ fresh[p] \in Nat
    BY DEF SaeInv, DataTypeOK
  <2>3. << >> \in Seq(SaeFrames) /\ Elems(<< >>) = {}
    BY Frames0
  <2>4. late \in Seq(SaeFrames) /\ Elems(late) \subseteq Elems(pending[p])
    BY <2>2, <2>3
  <2>5. /\ Queue(late, chan[p]) \in Seq(SaeFrames)
        /\ Elems(Queue(late, chan[p])) \subseteq Elems(late) \cup Elems(chan[p])
    BY <2>2, <2>4, QueueOf
  <2>6. /\ chan'[p] = Queue(late, chan[p]) /\ chan'[q] = chan[q]
        /\ pending'[p] = << >> /\ pending'[q] = pending[q]
    BY <1>7, <2>1, <2>2
  <2>7. chan' \in [Nodes -> Seq(SaeFrames)] /\ pending' \in [Nodes -> Seq(SaeFrames)]
    BY <1>7, <2>1, <2>3, <2>5 DEF SaeInv, DataTypeOK
  <2>8. /\ Elems(chan'[q]) \subseteq Elems(chan[q]) \cup {}
        /\ Elems(chan'[p]) \cup Elems(pending'[p]) \subseteq Elems(chan[p]) \cup Elems(pending[p])
    BY <2>3, <2>4, <2>5, <2>6
  <2>9. MadeWith(p, r.sae, fresh[p]) = fresh[p]
    BY <1>2, <2>2, NothingMade
  <2>10. fresh' = [fresh EXCEPT ![p] = MadeWith(p, r.sae, fresh[p])]
    BY <1>7, <2>2, <2>9 DEF SaeInv, DataTypeOK
  <2>11. refused' \in [Nodes -> BOOLEAN] /\ faults' \in Nat /\ Runs(p)
    BY <1>3, <1>7 DEF SaeInv, DataTypeOK, Runs
  <2>12. ~MeshTokens => PairWith(p, r.sae, r.timer, MadeWith(p, r.sae, fresh[p]), {})
    BY <1>2, <2>11, ForgetPair
  <2> QED BY <1>1, <1>3, <1>4, <1>7, <2>6, <2>7, <2>8, <2>10, <2>11, <2>12, PeerStep
<1> QED BY <1>5, <1>6, <1>7

\* mesh_mpm_connect_peer().
LEMMA ConnectPeerOK ==
    ASSUME SaeInv, NEW p \in Nodes, ConnectPeer(p), sme' = sme
    PROVE  SaeInv'
<1>1. /\ conf.mesh /\ MeshAuth(p, node[p]) /\ required' = [required EXCEPT ![p] = TRUE]
      /\ pmksa' = pmksa /\ pending' = pending
  BY DEF ConnectPeer
<1>2. node[p] \in NodeType /\ node[p].sae \in SaeType
  BY PeerFacts
<1>3. Like(node[p].sae, node[p].sae)
  BY <1>2 DEF Like
<1>4. required' \in [Nodes -> BOOLEAN]
  BY <1>1 DEF SaeInv, DataTypeOK
<1> QED BY <1>1, <1>2, <1>3, <1>4, MeshAuthOK

\* peer_add_timer().
LEMMA PeerAddTimerOK ==
    ASSUME SaeInv, NEW p \in Nodes, PeerAddTimer(p), sme' = sme
    PROVE  SaeInv'
<1>1. /\ conf' = conf /\ node' = node /\ pmksa' = pmksa /\ pending' = pending
      /\ chan' = chan /\ fresh' = fresh /\ refused' = refused /\ faults' = faults
      /\ required' = [required EXCEPT ![p] = FALSE]
  BY DEF PeerAddTimer
<1>2. DataTypeOK' /\ OnlyMeshTimers' /\ GroupInHand'
  BY <1>1 DEF SaeInv, DataTypeOK, OnlyMeshTimers, GroupInHand
<1>3. \A x \in Nodes : /\ Rec(x)' = Rec(x) /\ (node[x].timer)' = node[x].timer
                       /\ FramesOf(x)' \subseteq FramesOf(x)
  BY <1>1 DEF Rec, Station, FramesOf
<1> QED BY <1>1, <1>2, <1>3, NetStep

\* mesh_auth_timer().
LEMMA MeshAuthTimerOK ==
    ASSUME SaeInv, NEW p \in Nodes, MeshAuthTimer(p), sme' = sme
    PROVE  SaeInv'
<1> DEFINE r == [node[p] EXCEPT !.auth_timer = FALSE, !.sae_auth_retry = @ + 1]
           d == node[p].sae
           y == [d EXCEPT !.state = "NOTHING"]
           x == [r EXCEPT !.blocked = TRUE, !.sae = y]
           q == Other(p)
<1>1. /\ node[p] \in NodeType /\ d \in SaeType /\ conf.mesh /\ Runs(p)
      /\ fresh[p] \in Nat /\ fresh[q] \in Nat /\ node[p].sae_auth_retry \in Nat
  <2>1. node[p].auth_timer /\ q \in Nodes
    BY TwoNodes DEF MeshAuthTimer
  <2>2. node[p] \in NodeType
    BY PeerFacts
  <2>3. node[p].sae_auth_retry \in Nat
    BY <2>2 DEF NodeType
  <2> QED BY <2>1, <2>3, PeerFacts DEF Runs
<1>2. /\ pmksa' = pmksa /\ pending' = pending /\ required' = required
  BY DEF MeshAuthTimer
<1>3. required' \in [Nodes -> BOOLEAN]
  BY <1>2 DEF SaeInv, DataTypeOK
<1>4. r \in NodeType /\ r.sae = d /\ r.timer = node[p].timer
  <2>1. node[p].sae_auth_retry + 1 \in Nat
    BY <1>1
  <2> QED BY <1>1, <2>1, Zenon DEF NodeType
<1>5. Like(r.sae, d)
  BY <1>1, <1>4 DEF Like
<1>6. << >> \in Seq(SaeFrames) /\ Elems(<< >>) = {}
  BY Frames0
<1>7. \/ MeshAuth(p, r)
      \/ Sent(p, x, << >>) /\ refused' = refused /\ faults' = faults
      \/ Sent(p, NoNode, << >>) /\ refused' = refused /\ faults' = faults
  <2>1. [r EXCEPT !.blocked = TRUE, !.sae.state = "NOTHING"] = x
    BY <1>4
  <2> QED BY <2>1 DEF MeshAuthTimer
<1> HIDE DEF r
<1>8. CASE MeshAuth(p, r)
  BY <1>1, <1>2, <1>3, <1>4, <1>5, <1>8, MeshAuthOK
<1>9. ASSUME NEW z \in NodeType, Sent(p, z, << >>), refused' = refused, faults' = faults,
             ~MeshTokens => PairWith(p, z.sae, z.timer, MadeWith(p, z.sae, fresh[p]), {})
      PROVE  SaeInv'
  <2>1. refused' \in [Nodes -> BOOLEAN] /\ faults' \in Nat
    BY <1>9 DEF SaeInv, DataTypeOK
  <2> QED BY <1>1, <1>2, <1>3, <1>6, <1>9, <2>1, SentStep
<1>10. CASE Sent(p, x, << >>) /\ refused' = refused /\ faults' = faults
  <2>1. InState(y, d, "NOTHING") /\ y \in SaeType
    BY <1>1, UpdatesState DEF InState, SaeStates
  <2> HIDE DEF y
  <2>2. x \in NodeType /\ x.sae = y
    BY <1>4, <2>1, Zenon DEF NodeType
  <2> HIDE DEF x
  <2>3. ASSUME ~MeshTokens
        PROVE  PairWith(p, y, x.timer, MadeWith(p, y, fresh[p]), {})
    <3>1. /\ PairWith(p, d, node[p].timer, fresh[p], {})
          /\ SideOK(conf.mesh, p, q, d, node[p].timer, fresh[p], fresh[q])
      BY <1>1, <2>3, PeerStart
    <3>2. MadeWith(p, y, fresh[p]) = fresh[p]
      BY <1>1, <2>1, <3>1, NotMade, ZenonT(60) DEF InState
    <3>3. Legally(p, d, y, x.timer, fresh[p], {})
      BY <1>1, <2>1, <3>1, BackToNothing DEF Legally
    <3> QED BY <3>1, <3>2, <3>3, LegalStep
  <2> QED BY <1>9, <1>10, <2>2, <2>3
<1>11. CASE Sent(p, NoNode, << >>) /\ refused' = refused /\ faults' = faults
  <2>1. NoNode \in NodeType /\ Like(NoNode.sae, NewSae)
    BY NoNodeType, NewSaeType DEF Like
  <2>2. ~MeshTokens =>
          PairWith(p, NoNode.sae, NoNode.timer, MadeWith(p, NoNode.sae, fresh[p]), {})
    BY <1>1, <2>1, ForgetPair
  <2> QED BY <1>9, <1>11, <2>1, <2>2
<1> HIDE DEF x
<1> QED BY <1>7, <1>8, <1>10, <1>11

\* mesh_mpm_plink_estab().
LEMMA PlinkEstabOK ==
    ASSUME SaeInv, NEW p \in Nodes, PlinkEstab(p), sme' = sme
    PROVE  SaeInv'
<1> DEFINE r == [node[p] EXCEPT !.caching = FALSE]
<1>1. /\ conf' = conf /\ pmksa' = pmksa /\ pending' = pending /\ required' = required
      /\ chan' = chan /\ fresh' = fresh /\ refused' = refused /\ faults' = faults
      /\ node' = [node EXCEPT ![p] = r]
  BY DEF PlinkEstab
<1>2. node[p] \in NodeType /\ node \in [Nodes -> NodeType]
  BY DEF SaeInv, DataTypeOK
<1>3. /\ r \in NodeType /\ r.sae = node[p].sae /\ r.timer = node[p].timer
      /\ r.auth_timer = node[p].auth_timer
  BY <1>2, Zenon DEF NodeType
<1> HIDE DEF r
<1>4. \A x \in Nodes : /\ node'[x].sae = node[x].sae /\ node'[x].timer = node[x].timer
                       /\ node'[x].auth_timer = node[x].auth_timer
  BY <1>1, <1>2, <1>3
<1>5. node' \in [Nodes -> NodeType]
  BY <1>1, <1>2, <1>3
<1>6. DataTypeOK' /\ OnlyMeshTimers' /\ GroupInHand'
  BY <1>1, <1>4, <1>5 DEF SaeInv, DataTypeOK, OnlyMeshTimers, GroupInHand
<1>7. \A x \in Nodes : /\ Rec(x)' = Rec(x) /\ (node[x].timer)' = node[x].timer
                       /\ FramesOf(x)' \subseteq FramesOf(x)
  BY <1>1, <1>4 DEF Rec, Station, FramesOf
<1> QED BY <1>1, <1>6, <1>7, NetStep

\* ap_free_sta().
LEMMA FreePeerOK ==
    ASSUME SaeInv, NEW p \in Nodes, FreePeer(p), sme' = sme
    PROVE  SaeInv'
<1> DEFINE q == Other(p)
<1>1. /\ Runs(p) /\ node' = [node EXCEPT ![p] = NoNode] /\ conf' = conf
      /\ pending' = pending /\ required' = required /\ chan' = chan /\ fresh' = fresh
      /\ refused' = refused /\ faults' = faults + 1
  BY DEF FreePeer, Disturbance
<1>2. NoNode \in NodeType /\ NoNode.timer = FALSE /\ NoNode.auth_timer = FALSE
      /\ Like(NoNode.sae, NewSae) /\ NoNode.sae.own_commit_scalar = NoScalar
  BY NoNodeType, NewSaeType DEF Like, NewSae
<1>3. q \in Nodes /\ pmksa[p] \in SUBSET Scalars /\ Cached(p) \in SUBSET Scalars /\ fresh[p] \in Nat
  BY TwoNodes, PeerFacts
<1>4. pmksa' \in [Nodes -> SUBSET Scalars]
  <2>1. \E key \in {pmksa[p], Cached(p)} : pmksa' = [pmksa EXCEPT ![p] = key]
    BY DEF FreePeer
  <2> QED BY <1>3, <2>1 DEF SaeInv, DataTypeOK
<1>5. MadeWith(p, NoNode.sae, fresh[p]) = fresh[p]
  BY <1>2, <1>3, NothingMade
<1>6. fresh' = [fresh EXCEPT ![p] = MadeWith(p, NoNode.sae, fresh[p])]
  BY <1>1, <1>5 DEF SaeInv, DataTypeOK
<1>7. /\ chan' \in [Nodes -> Seq(SaeFrames)] /\ pending' \in [Nodes -> Seq(SaeFrames)]
      /\ required' \in [Nodes -> BOOLEAN] /\ refused' \in [Nodes -> BOOLEAN] /\ faults' \in Nat
  BY <1>1 DEF SaeInv, DataTypeOK
<1>8. /\ Elems(chan'[q]) \subseteq Elems(chan[q]) \cup {} /\ pending'[q] = pending[q]
      /\ Elems(chan'[p]) \cup Elems(pending'[p]) \subseteq Elems(chan[p]) \cup Elems(pending[p])
  BY <1>1
<1>9. ~MeshTokens => PairWith(p, NoNode.sae, NoNode.timer, MadeWith(p, NoNode.sae, fresh[p]), {})
  BY <1>1, <1>2, ForgetPair
<1> QED BY <1>1, <1>2, <1>4, <1>6, <1>7, <1>8, <1>9, PeerStep

\* The peer code.
LEMMA PeerNextOK ==
    ASSUME SaeInv, NEW p \in Nodes, PeerNext(p), sme' = sme
    PROVE  SaeInv'
BY PeerRxOK, RetransmitTimerOK, MeshAuthTimerOK, NewMeshPeerOK, ConnectPeerOK, PeerAddTimerOK,
   PlinkEstabOK, FreePeerOK DEF PeerNext, PeerTimer

\* The link loses a frame.
LEMMA LoseOK ==
    ASSUME SaeInv, NEW p \in Nodes, Lose(p)
    PROVE  SaeInv'
<1>1. /\ conf' = conf /\ node' = node /\ pmksa' = pmksa /\ pending' = pending
      /\ required' = required /\ fresh' = fresh /\ refused' = refused /\ sme' = sme
      /\ faults' = faults + 1 /\ chan' = [chan EXCEPT ![p] = Tail(@)] /\ chan[p] # << >>
  BY DEF Lose, Disturbance
<1>2. chan[p] \in Seq(SaeFrames) /\ chan \in [Nodes -> Seq(SaeFrames)]
  BY DEF SaeInv, DataTypeOK
<1>3. Tail(chan[p]) \in Seq(SaeFrames) /\ Elems(Tail(chan[p])) \subseteq Elems(chan[p])
  BY <1>1, <1>2, TailOf
<1>4. /\ chan' \in [Nodes -> Seq(SaeFrames)]
      /\ \A x \in Nodes : Elems(chan'[x]) \subseteq Elems(chan[x])
  BY <1>1, <1>2, <1>3
<1>5. DataTypeOK' /\ OnlyMeshTimers' /\ GroupInHand'
  BY <1>1, <1>4 DEF SaeInv, DataTypeOK, OnlyMeshTimers, GroupInHand
<1>6. \A x \in Nodes : /\ Rec(x)' = Rec(x) /\ (node[x].timer)' = node[x].timer
                       /\ FramesOf(x)' \subseteq FramesOf(x)
  <2>1. \A x \in Nodes : Other(x) \in Nodes
    BY TwoNodes
  <2> QED BY <1>1, <1>4, <2>1 DEF Rec, Station, FramesOf
<1> QED BY <1>1, <1>5, <1>6, NetStep

\* A node that has stopped hears nothing of what is sent to it.
LEMMA UnheardOK ==
    ASSUME SaeInv, NEW p \in Nodes, Unheard(p)
    PROVE  SaeInv'
<1>1. /\ conf' = conf /\ node' = node /\ pmksa' = pmksa /\ pending' = pending
      /\ required' = required /\ fresh' = fresh /\ refused' = refused /\ sme' = sme
      /\ faults' = faults /\ chan' = [chan EXCEPT ![p] = << >>]
  BY DEF Unheard
<1>2. chan \in [Nodes -> Seq(SaeFrames)]
  BY DEF SaeInv, DataTypeOK
<1>3. << >> \in Seq(SaeFrames) /\ Elems(<< >>) = {}
  BY Frames0
<1>4. /\ chan' \in [Nodes -> Seq(SaeFrames)]
      /\ \A x \in Nodes : Elems(chan'[x]) \subseteq Elems(chan[x])
  BY <1>1, <1>2, <1>3
<1>5. DataTypeOK' /\ OnlyMeshTimers' /\ GroupInHand'
  BY <1>1, <1>4 DEF SaeInv, DataTypeOK, OnlyMeshTimers, GroupInHand
<1>6. \A x \in Nodes : /\ Rec(x)' = Rec(x) /\ (node[x].timer)' = node[x].timer
                       /\ FramesOf(x)' \subseteq FramesOf(x)
  <2>1. \A x \in Nodes : Other(x) \in Nodes
    BY TwoNodes
  <2> QED BY <1>1, <1>4, <2>1 DEF Rec, Station, FramesOf
<1> QED BY <1>1, <1>5, <1>6, NetStep

(***************************************************************************)
(* The station.                                                            *)
(***************************************************************************)

\* The nodes of an infrastructure BSS.
Ap == 1
Sta == 2

\* They are the two nodes.
LEMMA BssNodes == Ap \in Nodes /\ Sta \in Nodes /\ Ap # Sta /\ Other(Sta) = Ap /\ Other(Ap) = Sta
BY DEF Ap, Sta, Nodes, Other

\* What a step of the station leaves.
LEMMA SmeStep ==
    ASSUME SaeInv, Station, NEW m \in SmeType, sme' = m, NEW n \in Nat, NEW out,
           conf' = conf, node' = node, pmksa' = pmksa, pending' = pending,
           required' = required, refused' = refused, faults' \in Nat,
           fresh' = [fresh EXCEPT ![Sta] = n], chan' \in [Nodes -> Seq(SaeFrames)],
           Elems(chan'[1]) \subseteq Elems(chan[1]) \cup out,
           Elems(chan'[2]) \subseteq Elems(chan[2]),
           Elems(m.last) \subseteq Elems(sme.last) \cup out,
           m.wpa_state = "AUTHENTICATING" => m.sae_group_index <= Len(conf.groups[2]),
           PairWith(Sta, m.sae, node[Sta].timer, n, out)
    PROVE  SaeInv'
<1> USE DEF Ap, Sta
<1>1. Other(Ap) = Sta /\ Other(Sta) = Ap /\ Ap \in Nodes /\ Sta \in Nodes
  BY DEF Other, Nodes
<1>2. DataTypeOK'
  <2>1. fresh' \in [Nodes -> Nat]
    BY DEF SaeInv, DataTypeOK
  <2> QED BY <2>1 DEF SaeInv, DataTypeOK
<1>3. OnlyMeshTimers' /\ GroupInHand'
  BY DEF SaeInv, OnlyMeshTimers, GroupInHand
<1>4. Pair(conf.mesh, Sta, Ap, m.sae, node[Sta].timer, n, FramesOf(Sta) \cup out,
           Rec(Ap), node[Ap].timer, fresh[Ap], FramesOf(Ap))
  BY <1>1 DEF PairWith
<1>5. /\ Rec(Sta)' = m.sae /\ Rec(Ap)' = Rec(Ap) /\ node'[Sta].timer = node[Sta].timer
      /\ node'[Ap].timer = node[Ap].timer /\ fresh'[Sta] = n /\ fresh'[Ap] = fresh[Ap]
  BY <1>1 DEF Rec, Station, SaeInv, DataTypeOK
<1>6. FramesOf(Sta)' \subseteq FramesOf(Sta) \cup out /\ FramesOf(Ap)' \subseteq FramesOf(Ap)
  BY <1>1 DEF FramesOf
<1>7. Pair(conf.mesh, Sta, Ap, Rec(Sta)', node'[Sta].timer, fresh'[Sta], FramesOf(Sta)',
           Rec(Ap)', node'[Ap].timer, fresh'[Ap], FramesOf(Ap)')
  BY <1>4, <1>5, <1>6, FewerFrames
<1>8. PairAt(1)'
  <2>1. Pair(conf.mesh, Ap, Sta, Rec(Ap)', node'[Ap].timer, fresh'[Ap], FramesOf(Ap)',
             Rec(Sta)', node'[Sta].timer, fresh'[Sta], FramesOf(Sta)')
    BY <1>7, Swap
  <2> QED BY <1>1, <2>1 DEF PairAt
<1> QED BY <1>2, <1>3, <1>8 DEF SaeInv

\* The station at the start of a step.
LEMMA SmeStart ==
    ASSUME SaeInv, Station
    PROVE  /\ sme \in SmeType /\ sme.sae \in SaeType /\ sme.last \in Seq(SaeFrames)
           /\ fresh[Sta] \in Nat /\ fresh[Ap] \in Nat /\ node[Sta].timer = Off
           /\ sme.wpa_state = "AUTHENTICATING" => sme.sae_group_index <= Len(conf.groups[2])
           /\ ~conf.mesh /\ conf.mesh \in BOOLEAN
           /\ Other(Sta) = Ap /\ Ap \in Nodes /\ Sta \in Nodes
           /\ PairWith(Sta, sme.sae, node[Sta].timer, fresh[Sta], {})
           /\ SideOK(conf.mesh, Sta, Ap, sme.sae, node[Sta].timer, fresh[Sta], fresh[Ap])
<1> USE DEF Ap, Sta
<1>1. Other(Sta) = Ap /\ Ap \in Nodes /\ Sta \in Nodes
  BY DEF Other, Nodes
<1>2. sme \in SmeType /\ fresh[Sta] \in Nat /\ fresh[Ap] \in Nat
  BY <1>1 DEF SaeInv, DataTypeOK
<1>3. sme.sae \in SaeType /\ sme.last \in Seq(SaeFrames)
  BY <1>2 DEF SmeType
<1>4. ~conf.mesh /\ ~MeshTokens /\ conf.mesh \in BOOLEAN
  BY <1>1, PeerFacts DEF Station, MeshTokens
<1>5. node[Sta].timer = Off
  BY <1>1, <1>4, PeerFacts DEF Off
<1>6. PairWith(Sta, sme.sae, node[Sta].timer, fresh[Sta], {})
  <2>1. PairWith(Sta, Rec(Sta), node[Sta].timer, fresh[Sta], {})
    BY <1>1, <1>4, AtStart
  <2>2. Rec(Sta) = sme.sae
    BY DEF Rec
  <2> QED BY <2>1, <2>2
<1>7. SideOK(conf.mesh, Sta, Ap, sme.sae, node[Sta].timer, fresh[Sta], fresh[Ap])
  BY <1>1, <1>6 DEF PairWith, Pair
<1>8. sme.wpa_state = "AUTHENTICATING" => sme.sae_group_index <= Len(conf.groups[2])
  BY DEF SaeInv, GroupInHand
<1> QED BY <1>1, <1>2, <1>3, <1>4, <1>5, <1>6, <1>7, <1>8

\* The frame the station takes.
LEMMA SmeTaken ==
    ASSUME SaeInv, Station, chan[2] # << >>
    PROVE  /\ Taken \in [Nodes -> Seq(SaeFrames)] /\ Taken[1] = chan[1]
           /\ Elems(Taken[2]) \subseteq Elems(chan[2])
           /\ SmeRx \in SaeFrames /\ SmeRx \in FramesOf(Ap)
           /\ SmeRx.group \in Nat /\ SmeRx.scalar \in Scalars
           /\ GoodFrame(conf.mesh, Ap, Sta, SmeRx, fresh[Ap], fresh[Sta])
<1> USE DEF Ap, Sta
<1>1. Other(Sta) = Ap /\ Ap \in Nodes /\ Sta \in Nodes /\ ~MeshTokens
  BY DEF Other, Nodes, Station, MeshTokens
<1>2. /\ chan[2] \in Seq(SaeFrames) /\ chan \in [Nodes -> Seq(SaeFrames)]
  BY <1>1 DEF SaeInv, DataTypeOK
<1>3. Tail(chan[2]) \in Seq(SaeFrames) /\ Elems(Tail(chan[2])) \subseteq Elems(chan[2])
  BY <1>2, TailOf
<1>4. /\ Taken \in [Nodes -> Seq(SaeFrames)] /\ Taken[1] = chan[1]
      /\ Elems(Taken[2]) \subseteq Elems(chan[2])
  BY <1>1, <1>2, <1>3 DEF Taken
<1>5. /\ Rx(Sta) \in SaeFrames /\ Rx(Sta) \in FramesOf(Ap) /\ chan[2][1] = Rx(Sta)
      /\ GoodFrame(conf.mesh, Ap, Sta, Rx(Sta), fresh[Ap], fresh[Sta])
  BY <1>1, RxFacts
<1>6. SmeRx = Rx(Sta)
  BY <1>5 DEF SmeRx
<1>7. SmeRx.group \in Nat /\ SmeRx.scalar \in Scalars
  BY <1>5, <1>6 DEF SaeFrames
<1> QED BY <1>4, <1>5, <1>6, <1>7

\* Nothing is sent.
LEMMA SmeTakesOK ==
    ASSUME SaeInv, Station, chan[2] # << >>, NEW m \in SmeType, SmeTakes(m),
           m.last = sme.last,
           m.wpa_state = "AUTHENTICATING" => m.sae_group_index <= Len(conf.groups[2]),
           PairWith(Sta, m.sae, node[Sta].timer, fresh[Sta], {})
    PROVE  SaeInv'
<1>1. /\ sme' = m /\ chan' = Taken /\ conf' = conf /\ node' = node /\ pmksa' = pmksa
      /\ pending' = pending /\ required' = required /\ fresh' = fresh
      /\ refused' = refused /\ faults' = faults
  BY DEF SmeTakes
<1>2. /\ chan' \in [Nodes -> Seq(SaeFrames)] /\ chan'[1] = chan[1]
      /\ Elems(chan'[2]) \subseteq Elems(chan[2])
  BY <1>1, SmeTaken
<1>3. fresh' = [fresh EXCEPT ![Sta] = fresh[Sta]] /\ fresh[Sta] \in Nat /\ faults' \in Nat
  BY <1>1, BssNodes DEF SaeInv, DataTypeOK
<1>4. Elems(chan'[1]) \subseteq Elems(chan[1]) \cup {} /\ Elems(m.last) \subseteq Elems(sme.last) \cup {}
  BY <1>2
<1> QED BY <1>1, <1>2, <1>3, <1>4, SmeStep

\* The connection has failed.
LEMMA FailedType ==
    ASSUME NEW m \in SmeType
    PROVE  /\ ConnectionFailed(m) \in SmeType /\ ConnectionFailed(m).sae = m.sae
           /\ ConnectionFailed(m).last = m.last
           /\ ConnectionFailed(m).wpa_state # "AUTHENTICATING"
<1>1. "DISCONNECTED" # "AUTHENTICATING"
  OBVIOUS
<1>2. /\ ConnectionFailed(m) \in SmeType /\ ConnectionFailed(m).sae = m.sae
      /\ ConnectionFailed(m).last = m.last
      /\ ConnectionFailed(m).wpa_state = "DISCONNECTED"
  BY Zenon DEF ConnectionFailed, SmeType
<1> QED BY <1>1, <1>2

\* It fails on a frame, and the data stay.
LEMMA SmeFailsOK ==
    ASSUME SaeInv, Station, chan[2] # << >>, NEW m \in SmeType, m.sae = sme.sae,
           m.last = sme.last, SmeTakes(ConnectionFailed(m))
    PROVE  SaeInv'
<1>1. PairWith(Sta, sme.sae, node[Sta].timer, fresh[Sta], {})
  BY SmeStart
<1> DEFINE c == ConnectionFailed(m)
<1>2. c \in SmeType /\ c.sae = m.sae /\ c.last = m.last /\ c.wpa_state # "AUTHENTICATING"
  BY FailedType
<1> HIDE DEF c
<1>3. SmeTakes(c)
  BY DEF c
<1> QED BY <1>1, <1>2, <1>3, SmeTakesOK

\* The data for a Commit.
LEMMA FreshData ==
    ASSUME NEW e, NEW g \in Nat, NEW s \in Scalars
    PROVE  LET u == [SetGroup(e, g) EXCEPT !.own_commit_scalar = s] IN
           /\ u \in SaeType /\ u.own_commit_scalar = s /\ u.peer_commit_scalar = NoScalar
           /\ u.pmk = u.kck /\ ~u.cached /\ ~u.token
<1> DEFINE h == SetGroup(e, g)
           u == [h EXCEPT !.own_commit_scalar = s]
<1>1. h \in SaeType /\ Like(h, NewSae)
  BY SetGroupNew, ZenonT(60) DEF Like
<1> HIDE DEF h
<1>2. /\ u \in SaeType /\ u.token = h.token /\ u.own_commit_scalar = s /\ u.kck = h.kck
      /\ u.pmk = h.pmk /\ u.peer_commit_scalar = h.peer_commit_scalar /\ u.cached = h.cached
  BY <1>1, UpdatesOwn
<1> HIDE DEF u
<1>3. /\ u \in SaeType /\ u.own_commit_scalar = s /\ u.peer_commit_scalar = NoScalar
      /\ u.pmk = u.kck /\ ~u.cached /\ ~u.token
  BY <1>1, <1>2 DEF Like, NewSae
<1> QED BY <1>3 DEF u, h

\* sme_send_authentication().
LEMMA SendCommitOK ==
    ASSUME SaeInv, Station, NEW m \in SmeType, NEW i \in Nat \ {0},
           i <= Len(conf.groups[2]), NEW ch \in [Nodes -> Seq(SaeFrames)],
           ch[1] = chan[1], Elems(ch[2]) \subseteq Elems(chan[2]), SendCommit(m, i, ch)
    PROVE  SaeInv'
<1> DEFINE g == conf.groups[2][i]
           s == NextScalar(2)
           h == SetGroup(m.sae, g)
           u == [h EXCEPT !.own_commit_scalar = s]
           d == [u EXCEPT !.state = "COMMITTED"]
           f == CommitFrame(d, m.sae_token)
           x == [m EXCEPT !.wpa_state = "AUTHENTICATING", !.sae = d,
                          !.sae_group_index = i, !.last = <<f>>]
           n == fresh[Sta] + 1
<1>1. /\ fresh[Sta] \in Nat /\ fresh[Ap] \in Nat /\ ~conf.mesh /\ Other(Sta) = Ap
      /\ Ap \in Nodes /\ Sta \in Nodes
      /\ PairWith(Sta, sme.sae, node[Sta].timer, fresh[Sta], {})
  BY SmeStart
<1>2. g \in Nat
  BY ConfType DEF SaeInv, Nodes
<1>3. s = <<Sta, n>> /\ s \in Scalars /\ n \in Nat /\ n # 0
  BY <1>1 DEF NextScalar, Scalars, Sta
<1>4. /\ d = [SetGroup(m.sae, g) EXCEPT !.own_commit_scalar = s, !.state = "COMMITTED"]
  OBVIOUS
<1>5. /\ sme' = x /\ chan' = [ch EXCEPT ![1] = Queue(@, <<f>>)]
      /\ fresh' = [fresh EXCEPT ![2] = @ + 1] /\ conf' = conf /\ node' = node
      /\ pmksa' = pmksa /\ pending' = pending /\ required' = required
      /\ refused' = refused /\ faults' = faults
  BY <1>4 DEF SendCommit
<1>6. /\ d \in SaeType /\ d.own_commit_scalar = s /\ d.peer_commit_scalar = NoScalar
      /\ d.pmk = d.kck /\ ~d.cached /\ ~d.token /\ d.state = "COMMITTED"
  <2>1. /\ u \in SaeType /\ u.own_commit_scalar = s /\ u.peer_commit_scalar = NoScalar
        /\ u.pmk = u.kck /\ ~u.cached /\ ~u.token
    BY <1>2, <1>3, FreshData
  <2> HIDE DEF u
  <2>3. InState(d, u, "COMMITTED")
    BY <2>1, UpdatesState DEF SaeStates
  <2> QED BY <2>1, <2>3 DEF InState
<1> HIDE DEF d
<1>7. m.sae_token \in BOOLEAN
  BY DEF SmeType
<1>8. f \in SaeFrames /\ NewFrame(conf.mesh, Sta, Ap, d, n, fresh[Ap], f)
  BY <1>1, <1>3, <1>6, <1>7, SendsCommit
<1> HIDE DEF f
<1>9. <<f>> \in Seq(SaeFrames) /\ Elems(<<f>>) = {f}
  BY <1>8, Frames1
<1>10. /\ x \in SmeType /\ x.sae = d /\ x.last = <<f>> /\ x.sae_group_index = i
  BY <1>6, <1>9, Zenon DEF SmeType
<1> HIDE DEF x
<1>11. /\ Queue(chan[1], <<f>>) \in Seq(SaeFrames)
       /\ Elems(Queue(chan[1], <<f>>)) \subseteq Elems(chan[1]) \cup {f}
  <2>1. chan[1] \in Seq(SaeFrames)
    BY DEF SaeInv, DataTypeOK, Nodes
  <2> QED BY <1>9, <2>1, QueueOf
<1>12. /\ chan' \in [Nodes -> Seq(SaeFrames)]
       /\ Elems(chan'[1]) \subseteq Elems(chan[1]) \cup {f}
       /\ Elems(chan'[2]) \subseteq Elems(chan[2])
  BY <1>5, <1>11 DEF Nodes
<1>13. PairWith(Sta, d, node[Sta].timer, n, {f})
  <2>1. ~ApCommitted(conf.mesh, Sta, d)
    BY DEF ApCommitted, Sta
  <2>2. d.own_commit_scalar = <<Sta, fresh[Sta] + 1>> /\ d.state \in {"NOTHING", "COMMITTED"}
    BY <1>3, <1>6
  <2>3. \A z \in {f} : NewFrame(conf.mesh, Sta, Ap, d, fresh[Sta] + 1, fresh[Ap], z)
    BY <1>8
  <2>4. Legally(Sta, sme.sae, d, node[Sta].timer, fresh[Sta] + 1, {f})
    BY <1>1, <1>6, <2>1, <2>2, <2>3, BssNodes, FreshLegal DEF Legally
  <2>5. Legally(Sta, sme.sae, d, node[Sta].timer, n, {f})
    BY <2>4
  <2> HIDE DEF n
  <2> QED BY <1>1, <2>5, LegalStep, ZenonT(60)
<1>14. fresh' = [fresh EXCEPT ![Sta] = n] /\ faults' \in Nat
  BY <1>5 DEF SaeInv, DataTypeOK, Sta
<1>15. Elems(x.last) \subseteq Elems(sme.last) \cup {f}
  BY <1>9, <1>10
<1> QED BY <1>3, <1>5, <1>10, <1>12, <1>13, <1>14, <1>15, SmeStep

\* sme_authenticate().
LEMMA SmeAuthenticateOK ==
    ASSUME SaeInv, SmeAuthenticate
    PROVE  SaeInv'
<1>1. Station /\ SendCommit(sme, 1, chan)
  BY DEF SmeAuthenticate
<1>2. sme \in SmeType /\ chan \in [Nodes -> Seq(SaeFrames)]
  BY DEF SaeInv, DataTypeOK
<1>3. 1 \in Nat \ {0} /\ 1 <= Len(conf.groups[2])
  <2>1. conf.groups[2] \in Seq(Nat \ {0}) /\ conf.groups[2] # << >>
    BY ConfType DEF SaeInv, Nodes
  <2> QED BY <2>1
<1>4. Elems(chan[2]) \subseteq Elems(chan[2])
  OBVIOUS
<1> QED BY <1>1, <1>2, <1>3, <1>4, SendCommitOK

\* A frame outside of an authentication.
LEMMA SmeIgnoresOK ==
    ASSUME SaeInv, SmeIgnores
    PROVE  SaeInv'
<1>1. Station /\ chan[2] # << >> /\ SmeTakes(sme)
  BY DEF SmeIgnores
<1> QED BY <1>1, SmeStart, SmeTakesOK

\* A token is asked for.
LEMMA SmeTokenRequestOK ==
    ASSUME SaeInv, SmeTokenRequest
    PROVE  SaeInv'
<1> DEFINE m == [sme EXCEPT !.sae_token = TRUE]
<1>1. /\ Station /\ chan[2] # << >> /\ sme.wpa_state = "AUTHENTICATING"
      /\ \/ SendCommit(m, sme.sae_group_index, Taken)
         \/ SmeTakes(ConnectionFailed(sme))
  BY DEF SmeTokenRequest, SmeHears
<1>2. sme \in SmeType /\ sme.sae_group_index <= Len(conf.groups[2])
  BY <1>1, SmeStart
<1>3. m \in SmeType /\ sme.sae_group_index \in Nat \ {0}
  BY <1>2, Zenon DEF SmeType
<1> HIDE DEF m
<1>4. CASE SendCommit(m, sme.sae_group_index, Taken)
  BY <1>1, <1>2, <1>3, <1>4, SmeTaken, SendCommitOK
<1>5. CASE SmeTakes(ConnectionFailed(sme))
  BY <1>1, <1>2, <1>5, SmeFailsOK
<1> QED BY <1>1, <1>4, <1>5

\* A group is refused.
LEMMA SmeGroupRefusedOK ==
    ASSUME SaeInv, SmeGroupRefused
    PROVE  SaeInv'
<1> DEFINE i == sme.sae_group_index
           m == [sme EXCEPT !.sae_group_index = i + 1]
<1>1. /\ Station /\ chan[2] # << >> /\ sme.wpa_state = "AUTHENTICATING"
      /\ \/ i < Len(conf.groups[2]) /\ SendCommit(sme, i + 1, Taken)
         \/ SmeTakes(ConnectionFailed(m))
  BY DEF SmeGroupRefused, SmeHears
<1>2. sme \in SmeType /\ i \in Nat \ {0}
  BY <1>1, SmeStart DEF SmeType
<1>3. Len(conf.groups[2]) \in Nat
  <2>1. conf.groups[2] \in Seq(Nat \ {0})
    BY ConfType DEF SaeInv, Nodes
  <2> QED BY <2>1
<1>4. i + 1 \in Nat \ {0} /\ (i < Len(conf.groups[2]) => i + 1 <= Len(conf.groups[2]))
  BY <1>2, <1>3
<1>5. m \in SmeType /\ m.sae = sme.sae /\ m.last = sme.last
  BY <1>2, <1>4, Zenon DEF SmeType
<1> HIDE DEF m, i
<1>6. CASE i < Len(conf.groups[2]) /\ SendCommit(sme, i + 1, Taken)
  BY <1>1, <1>2, <1>4, <1>6, SmeTaken, SendCommitOK
<1>7. CASE SmeTakes(ConnectionFailed(m))
  BY <1>1, <1>5, <1>7, SmeFailsOK
<1> QED BY <1>1, <1>6, <1>7

\* Another refusal.
LEMMA SmeRefusedOK ==
    ASSUME SaeInv, SmeRefused
    PROVE  SaeInv'
<1>1. Station /\ chan[2] # << >> /\ SmeTakes(ConnectionFailed(sme))
  BY DEF SmeRefused, SmeHears
<1> QED BY <1>1, SmeStart, SmeFailsOK

\* A Commit.
LEMMA SmeCommitOK ==
    ASSUME SaeInv, SmeCommit
    PROVE  SaeInv'
<1> DEFINE d0 == sme.sae
           z == SmeRx
           status == ParseStatus(d0, Groups(2), z)
           a == ParseData(d0, Groups(2), z)
           d == ProcessCommit(a)
           f == ConfirmFrame(d)
           y == [Confirmed(d) EXCEPT !.state = "CONFIRMED"]
           m == [sme EXCEPT !.sae = a]
           x == [sme EXCEPT !.sae = y, !.sae_token = FALSE, !.last = <<f>>]
<1>1. /\ Station /\ chan[2] # << >> /\ sme.wpa_state = "AUTHENTICATING"
      /\ z.trans = 1 /\ z.status = "OK"
  BY DEF SmeCommit, SmeHears
<1>2. \/ SmeTakes(ConnectionFailed(sme))
      \/ d0.state = "COMMITTED" /\ status # "OK" /\ SmeTakes(ConnectionFailed(m))
      \/ /\ d0.state = "COMMITTED" /\ status = "OK"
         /\ sme' = x /\ chan' = [Taken EXCEPT ![1] = Queue(@, <<f>>)]
         /\ conf' = conf /\ node' = node /\ pmksa' = pmksa /\ pending' = pending
         /\ required' = required /\ fresh' = fresh /\ refused' = refused /\ faults' = faults
  BY DEF SmeCommit
<1>3. /\ sme \in SmeType /\ d0 \in SaeType /\ fresh[Sta] \in Nat /\ fresh[Ap] \in Nat
      /\ Other(Sta) = Ap /\ Ap \in Nodes /\ Sta \in Nodes /\ ~conf.mesh
      /\ sme.sae_group_index <= Len(conf.groups[2])
      /\ PairWith(Sta, d0, node[Sta].timer, fresh[Sta], {})
      /\ SideOK(conf.mesh, Sta, Ap, d0, node[Sta].timer, fresh[Sta], fresh[Ap])
  BY <1>1, SmeStart
<1>4. /\ z \in SaeFrames /\ z.group \in Nat /\ z.scalar \in Scalars
      /\ GoodFrame(conf.mesh, Ap, Sta, z, fresh[Ap], fresh[Sta])
  BY <1>1, SmeTaken
<1>5. CASE SmeTakes(ConnectionFailed(sme))
  BY <1>1, <1>3, <1>5, SmeFailsOK
<1>6. d0.state = "COMMITTED" =>
        /\ status # "OK" => a = d0
        /\ status = "OK" => a = [d0 EXCEPT !.peer_commit_scalar = z.scalar]
  <2> HIDE DEF z, d0
  <2>1. d0.state = "COMMITTED" => GroupData(d0, Groups(2), z.group) = d0
    BY <1>3, <1>4, GroupCases
  <2>2. /\ status = "OK" =>
             a = [GroupData(d0, Groups(2), z.group) EXCEPT !.peer_commit_scalar = z.scalar]
        /\ status # "OK" => a = GroupData(d0, Groups(2), z.group)
    BY <1>3, <1>4, ParseCases
  <2> HIDE DEF status, a
  <2> QED BY <2>1, <2>2
<1> HIDE DEF status
<1>7. CASE d0.state = "COMMITTED" /\ status # "OK" /\ SmeTakes(ConnectionFailed(m))
  <2>1. a = d0
    BY <1>6, <1>7
  <2> HIDE DEF a
  <2>2. m \in SmeType /\ m.sae = d0 /\ m.last = sme.last
    BY <1>3, <2>1, Zenon DEF SmeType
  <2> HIDE DEF m
  <2> QED BY <1>1, <1>7, <2>2, SmeFailsOK
<1>8. ASSUME d0.state = "COMMITTED", status = "OK", sme' = x,
             chan' = [Taken EXCEPT ![1] = Queue(@, <<f>>)],
             conf' = conf, node' = node, pmksa' = pmksa, pending' = pending,
             required' = required, fresh' = fresh, refused' = refused, faults' = faults
      PROVE  SaeInv'
  <2>1. a = [d0 EXCEPT !.peer_commit_scalar = z.scalar]
    BY <1>6, <1>8
  <2> HIDE DEF a, z
  <2>2. /\ a \in SaeType /\ a.state = d0.state /\ a.token = d0.token
        /\ a.own_commit_scalar = d0.own_commit_scalar /\ a.peer_commit_scalar = z.scalar
    BY <1>3, <1>4, <2>1, UpdatesPeer
  <2>3. /\ d \in SaeType /\ d.own_commit_scalar = d0.own_commit_scalar
        /\ d.peer_commit_scalar = z.scalar /\ d.cached = FALSE
        /\ d.kck = Key(d0.own_commit_scalar, z.scalar) /\ d.pmk = d.kck
    BY <2>2, Processed
  <2> HIDE DEF d
  <2>4. /\ y \in SaeType /\ y.own_commit_scalar = d.own_commit_scalar
        /\ y.peer_commit_scalar = d.peer_commit_scalar /\ y.cached = d.cached
        /\ y.kck = d.kck /\ y.pmk = d.pmk /\ y.state = "CONFIRMED"
    <3> DEFINE v == Confirmed(d)
    <3>1. Like(v, d) /\ v \in SaeType
      BY <2>3, Counters DEF Like
    <3> HIDE DEF v
    <3>2. InState([v EXCEPT !.state = "CONFIRMED"], v, "CONFIRMED")
      BY <3>1, UpdatesState DEF SaeStates
    <3>3. y = [v EXCEPT !.state = "CONFIRMED"]
      BY DEF v
    <3> HIDE DEF y
    <3> QED BY <3>1, <3>2, <3>3 DEF InState, Like
  <2> HIDE DEF y
  <2>5. /\ fresh[Sta] # 0 /\ d0.own_commit_scalar = <<Sta, fresh[Sta]>>
        /\ z.scalar \in ScalarsOf(Ap) /\ z.scalar[2] <= fresh[Ap]
    BY <1>1, <1>3, <1>4, <1>8 DEF SideOK, GoodFrame
  <2>6. f \in SaeFrames /\ NewFrame(conf.mesh, Sta, Ap, y, fresh[Sta], fresh[Ap], f)
    <3>1. y.state # "COMMITTED" /\ ~Acc(y) /\ y.kck = d.kck
      BY <2>4 DEF Acc
    <3> QED BY <1>3, <2>3, <2>5, <3>1, BssNodes, SendsConfirm
  <2> HIDE DEF f
  <2>7. <<f>> \in Seq(SaeFrames) /\ Elems(<<f>>) = {f}
    BY <2>6, Frames1
  <2>8. /\ x \in SmeType /\ x.sae = y /\ x.last = <<f>>
        /\ x.sae_group_index = sme.sae_group_index
    BY <1>3, <2>4, <2>7, Zenon DEF SmeType
  <2> HIDE DEF x
  <2>9. /\ Taken \in [Nodes -> Seq(SaeFrames)] /\ Taken[1] = chan[1]
        /\ Elems(Taken[2]) \subseteq Elems(chan[2])
    BY <1>1, SmeTaken
  <2>10. /\ Queue(chan[1], <<f>>) \in Seq(SaeFrames)
         /\ Elems(Queue(chan[1], <<f>>)) \subseteq Elems(chan[1]) \cup {f}
    <3>1. chan[1] \in Seq(SaeFrames)
      BY DEF SaeInv, DataTypeOK, Nodes
    <3> QED BY <2>7, <3>1, QueueOf
  <2>11. /\ chan' \in [Nodes -> Seq(SaeFrames)]
         /\ Elems(chan'[1]) \subseteq Elems(chan[1]) \cup {f}
         /\ Elems(chan'[2]) \subseteq Elems(chan[2])
    BY <1>8, <2>9, <2>10, SMTT(60) DEF Nodes
  <2>12. PairWith(Sta, y, node[Sta].timer, fresh[Sta], {f})
    <3>1. /\ y.own_commit_scalar = <<Sta, fresh[Sta]>> /\ y.peer_commit_scalar \in ScalarsOf(Ap)
          /\ y.peer_commit_scalar[2] <= fresh[Ap] /\ ~y.cached
          /\ y.kck = Key(y.own_commit_scalar, y.peer_commit_scalar) /\ y.pmk = y.kck
          /\ y.state \in {"COMMITTED", "CONFIRMED"}
      BY <2>3, <2>4, <2>5
    <3>2. /\ d0.state = "COMMITTED" /\ d0.own_commit_scalar = y.own_commit_scalar
          /\ \A v \in {f} : NewFrame(conf.mesh, Sta, Ap, y, fresh[Sta], fresh[Ap], v)
      BY <1>8, <2>3, <2>4, <2>6
    <3> HIDE DEF d0
    <3>3. Legally(Sta, d0, y, node[Sta].timer, fresh[Sta], {f})
      BY <1>3, <2>4, <2>5, <3>1, <3>2, BssNodes, KeyedLegal, ZenonT(60) DEF Legally
    <3> QED BY <1>3, <3>3, LegalStep
  <2>13. fresh' = [fresh EXCEPT ![Sta] = fresh[Sta]] /\ faults' \in Nat
    BY <1>8, BssNodes DEF SaeInv, DataTypeOK
  <2>14. Elems(x.last) \subseteq Elems(sme.last) \cup {f}
    BY <2>7, <2>8
  <2> QED BY <1>1, <1>3, <1>8, <2>8, <2>11, <2>12, <2>13, <2>14, SmeStep
<1> HIDE DEF x, m, f
<1> QED BY <1>2, <1>5, <1>7, <1>8

\* A Confirm.
LEMMA SmeConfirmOK ==
    ASSUME SaeInv, SmeConfirm
    PROVE  SaeInv'
<1> DEFINE d0 == sme.sae
           c == [d0 EXCEPT !.state = "ACCEPTED"]
           d == ClearTempData(c)
           m == [sme EXCEPT !.wpa_state = "ASSOCIATING", !.sae = d]
<1>1. Station /\ chan[2] # << >> /\ IsConfirm(SmeRx)
  BY DEF SmeConfirm, SmeHears, IsConfirm
<1>2. \/ SmeTakes(ConnectionFailed(sme))
      \/ d0.state = "CONFIRMED" /\ CheckConfirm(d0, SmeRx) /\ SmeTakes(m)
  BY DEF SmeConfirm
<1>3. /\ sme \in SmeType /\ d0 \in SaeType /\ fresh[Sta] \in Nat /\ fresh[Ap] \in Nat
      /\ Other(Sta) = Ap /\ Ap \in Nodes /\ Sta \in Nodes /\ conf.mesh \in BOOLEAN
      /\ PairWith(Sta, d0, node[Sta].timer, fresh[Sta], {})
      /\ SideOK(conf.mesh, Sta, Ap, d0, node[Sta].timer, fresh[Sta], fresh[Ap])
  BY <1>1, SmeStart
<1>4. CASE SmeTakes(ConnectionFailed(sme))
  BY <1>1, <1>3, <1>4, SmeFailsOK
<1>5. InState(c, d0, "ACCEPTED") /\ c \in SaeType
  BY <1>3, UpdatesState DEF InState, SaeStates
<1> HIDE DEF c
<1>6. /\ d \in SaeType /\ d.state = "ACCEPTED" /\ d.token = FALSE
      /\ d.own_commit_scalar = NoScalar /\ d.kck = NoKey
      /\ d.pmk = d0.pmk /\ d.peer_commit_scalar = d0.peer_commit_scalar
      /\ d.cached = d0.cached
  BY <1>5, Clears DEF InState
<1> HIDE DEF d
<1>7. m \in SmeType /\ m.sae = d /\ m.last = sme.last /\ m.wpa_state = "ASSOCIATING"
  BY <1>3, <1>6, Zenon DEF SmeType
<1> HIDE DEF m
<1>8. CASE d0.state = "CONFIRMED" /\ CheckConfirm(d0, SmeRx) /\ SmeTakes(m)
  <2>1. SmeRx \in FramesOf(Ap) /\ GoodFrame(conf.mesh, Ap, Sta, SmeRx, fresh[Ap], fresh[Sta])
    BY <1>1, SmeTaken
  <2>2. \A v \in {} : NewFrame(conf.mesh, Sta, Ap, d, fresh[Sta], fresh[Ap], v)
    OBVIOUS
  <2>3. d0.state \in {"COMMITTED", "CONFIRMED"}
    BY <1>8
  <2> HIDE DEF d0
  <2>4. Legally(Sta, d0, d, node[Sta].timer, fresh[Sta], {})
    BY <1>1, <1>3, <1>6, <1>8, <2>1, <2>2, <2>3, BssNodes, AcceptLegal, ZenonT(60) DEF Legally
  <2>5. PairWith(Sta, d, node[Sta].timer, fresh[Sta], {})
    BY <1>3, <2>4, LegalStep
  <2>6. m.wpa_state # "AUTHENTICATING"
    BY <1>7
  <2> QED BY <1>1, <1>7, <1>8, <2>5, <2>6, SmeTakesOK
<1> QED BY <1>2, <1>4, <1>8

\* The attempt ends.
LEMMA SmeGivesUpOK ==
    ASSUME SaeInv, SmeGivesUp
    PROVE  SaeInv'
<1> DEFINE m == [sme EXCEPT !.sae = NewSae, !.sae_token = FALSE]
<1>1. /\ Station
      /\ sme' = ConnectionFailed(sme) \/ sme' = ConnectionFailed(m)
      /\ conf' = conf /\ node' = node /\ pmksa' = pmksa /\ pending' = pending
      /\ required' = required /\ chan' = chan /\ fresh' = fresh /\ refused' = refused
      /\ faults' = faults
  BY DEF SmeGivesUp, peerVars
<1>2. /\ sme \in SmeType /\ fresh[Sta] \in Nat /\ Sta \in Nodes
      /\ PairWith(Sta, sme.sae, node[Sta].timer, fresh[Sta], {})
  BY <1>1, SmeStart, BssNodes
<1>3. m \in SmeType /\ m.sae = NewSae /\ m.last = sme.last
  BY <1>2, NewSaeType, Zenon DEF SmeType
<1> HIDE DEF m
<1>4. PairWith(Sta, NewSae, node[Sta].timer, fresh[Sta], {})
  <2>1. Like(NewSae, NewSae)
    BY NewSaeType DEF Like
  <2>2. Legally(Sta, sme.sae, NewSae, node[Sta].timer, fresh[Sta], {})
    BY <1>2, <2>1, Forgets DEF Legally
  <2> QED BY <1>2, <2>2, LegalStep
<1>5. ASSUME NEW x \in SmeType, sme' = ConnectionFailed(x), x.last = sme.last,
             PairWith(Sta, x.sae, node[Sta].timer, fresh[Sta], {})
      PROVE  SaeInv'
  <2> DEFINE c == ConnectionFailed(x)
  <2>1. c \in SmeType /\ c.sae = x.sae /\ c.last = x.last /\ c.wpa_state # "AUTHENTICATING"
    BY FailedType
  <2>2. sme' = c
    BY <1>5
  <2> HIDE DEF c
  <2>3. fresh' = [fresh EXCEPT ![Sta] = fresh[Sta]] /\ faults' \in Nat
        /\ chan' \in [Nodes -> Seq(SaeFrames)]
    BY <1>1, <1>2 DEF SaeInv, DataTypeOK
  <2>4. /\ Elems(chan'[1]) \subseteq Elems(chan[1]) \cup {}
        /\ Elems(chan'[2]) \subseteq Elems(chan[2])
        /\ Elems(c.last) \subseteq Elems(sme.last) \cup {}
    BY <1>1, <1>5, <2>1
  <2> QED BY <1>1, <1>2, <1>5, <2>1, <2>2, <2>3, <2>4, SmeStep
<1> QED BY <1>1, <1>2, <1>3, <1>4, <1>5

\* The driver repeats the last frame.
LEMMA SmeRepeatsOK ==
    ASSUME SaeInv, SmeRepeats
    PROVE  SaeInv'
<1>1. /\ conf' = conf /\ node' = node /\ pmksa' = pmksa /\ pending' = pending
      /\ required' = required /\ fresh' = fresh /\ refused' = refused /\ sme' = sme
      /\ faults' = faults + 1 /\ chan' = [chan EXCEPT ![1] = Queue(@, sme.last)] /\ Station
  BY DEF SmeRepeats, Disturbance
<1>2. /\ chan[1] \in Seq(SaeFrames) /\ chan \in [Nodes -> Seq(SaeFrames)]
      /\ sme.last \in Seq(SaeFrames)
  BY <1>1, SmeStart DEF SaeInv, DataTypeOK, Nodes
<1>3. /\ Queue(chan[1], sme.last) \in Seq(SaeFrames)
      /\ Elems(Queue(chan[1], sme.last)) \subseteq Elems(chan[1]) \cup Elems(sme.last)
  BY <1>2, QueueOf
<1>4. /\ chan' \in [Nodes -> Seq(SaeFrames)] /\ chan'[2] = chan[2]
      /\ Elems(chan'[1]) \subseteq Elems(chan[1]) \cup Elems(sme.last)
  BY <1>1, <1>2, <1>3 DEF Nodes
<1>5. DataTypeOK' /\ OnlyMeshTimers' /\ GroupInHand'
  BY <1>1, <1>4 DEF SaeInv, DataTypeOK, OnlyMeshTimers, GroupInHand
<1>6. FramesOf(1)' \subseteq FramesOf(1) /\ FramesOf(2)' \subseteq FramesOf(2)
  BY <1>1, <1>4 DEF FramesOf, Other
<1>7. \A x \in Nodes : /\ Rec(x)' = Rec(x) /\ (node[x].timer)' = node[x].timer
                       /\ FramesOf(x)' \subseteq FramesOf(x)
  BY <1>1, <1>6 DEF Rec, Station, Nodes
<1> QED BY <1>1, <1>5, <1>7, NetStep

(***************************************************************************)
(* The specification.                                                      *)
(***************************************************************************)

\* Initially nothing is known of anybody.
LEMMA InitOK ==
    ASSUME Init
    PROVE  SaeInv
<1>1. /\ conf \in Configs /\ node = [p \in Nodes |-> NoNode]
      /\ pmksa = [p \in Nodes |-> NoKey] /\ pending = [p \in Nodes |-> << >>]
      /\ chan = [p \in Nodes |-> << >>] /\ required = [p \in Nodes |-> FALSE]
      /\ fresh = [p \in Nodes |-> 0] /\ refused = [p \in Nodes |-> FALSE] /\ faults = 0
      /\ sme = [wpa_state |-> "DISCONNECTED", sae |-> NewSae,
                sae_group_index |-> 1, sae_token |-> FALSE, last |-> << >>]
  BY DEF Init, PeerInit, SmeInit
<1>2. << >> \in Seq(SaeFrames) /\ Elems(<< >>) = {}
  BY Frames0
<1>3. sme \in SmeType /\ sme.sae = NewSae /\ sme.last = << >> /\ sme.wpa_state = "DISCONNECTED"
  BY <1>1, <1>2, NewSaeType DEF SmeType
<1>4. DataTypeOK
  BY <1>1, <1>2, <1>3, NoNodeType, NewSaeType DEF DataTypeOK
<1>5. OnlyMeshTimers /\ GroupInHand
  BY <1>1, <1>3, NoNodeType DEF OnlyMeshTimers, GroupInHand
<1>6. \A p \in Nodes : Rec(p) = NewSae /\ FramesOf(p) = {} /\ fresh[p] = 0
  <2>1. \A p \in Nodes : Other(p) \in Nodes
    BY TwoNodes
  <2> QED BY <1>1, <1>2, <1>3, <2>1, NoNodeType DEF Rec, FramesOf
<1>7. \A m, p, q, tm : SideOK(m, p, q, NewSae, tm, 0, 0) /\ ~Acc(NewSae)
  BY NewSaeType DEF SideOK, Acc, NewSae
<1>8. \A s, t : ~Said(s, t, {}, NewSae)
  BY <1>7 DEF Said
<1>9. \A m, p, q, tm, tmq : Pair(m, p, q, NewSae, tm, 0, {}, NewSae, tmq, 0, {})
  BY <1>7, <1>8 DEF Pair, LatestOK, CrossOK
<1>10. PairAt(1)
  BY <1>6, <1>9, TwoNodes DEF PairAt, Nodes
<1> QED BY <1>4, <1>5, <1>10 DEF SaeInv

\* Every step keeps the invariant.
LEMMA NextOK ==
    ASSUME SaeInv, [Next]_vars
    PROVE  SaeInv'
<1>1. ASSUME NEW p \in Nodes, PeerNext(p), sme' = sme
      PROVE  SaeInv'
  BY <1>1, PeerNextOK
<1>2. CASE SmeNext
  BY <1>2, SmeAuthenticateOK, SmeIgnoresOK, SmeTokenRequestOK, SmeGroupRefusedOK, SmeRefusedOK,
     SmeCommitOK, SmeConfirmOK, SmeGivesUpOK, SmeRepeatsOK DEF SmeNext
<1>3. ASSUME NEW p \in Nodes, Lose(p)
      PROVE  SaeInv'
  BY <1>3, LoseOK
<1>4. ASSUME NEW p \in Nodes, Unheard(p)
      PROVE  SaeInv'
  BY <1>4, UnheardOK
<1>5. CASE UNCHANGED <<peerVars, sme>>
  <2>1. /\ conf' = conf /\ node' = node /\ pmksa' = pmksa /\ pending' = pending
        /\ required' = required /\ chan' = chan /\ fresh' = fresh /\ refused' = refused
        /\ faults' = faults /\ sme' = sme
    BY <1>5 DEF peerVars
  <2>2. DataTypeOK' /\ OnlyMeshTimers' /\ GroupInHand'
    BY <2>1 DEF SaeInv, DataTypeOK, OnlyMeshTimers, GroupInHand
  <2>3. \A x \in Nodes : /\ Rec(x)' = Rec(x) /\ (node[x].timer)' = node[x].timer
                         /\ FramesOf(x)' \subseteq FramesOf(x)
    BY <2>1 DEF Rec, Station, FramesOf
  <2> QED BY <2>1, <2>2, <2>3, NetStep
<1>6. ASSUME NEW p \in Nodes, GoSilent(p)
      PROVE  SaeInv'
  BY <1>5, <1>6 DEF GoSilent
<1> QED BY <1>1, <1>2, <1>3, <1>4, <1>5, <1>6 DEF Next, vars

\* SaeInv is an invariant.
LEMMA Invariant == Spec => []SaeInv
<1>1. Init => SaeInv
  BY InitOK
<1>2. SaeInv /\ [Next]_vars => SaeInv'
  BY NextOK
<1> QED BY <1>1, <1>2, PTL DEF Spec

\* Type correctness: struct sta_info, struct sae_data, the SME data of the station
\* and every frame under way have their types, whatever the configurations are.
THEOREM TypeCorrect == Spec => []TypeOK
<1> DEFINE SilentOK == silent \in SUBSET Nodes
<1>1. SaeInv /\ SilentOK => TypeOK
  BY DEF SaeInv, TypeOK
<1>2. Init => SilentOK
  BY DEF Init
<1>3. SilentOK /\ [Next]_vars => SilentOK'
  BY DEF Next, Lose, GoSilent, Unheard, vars
<1>4. Spec => []SilentOK
  BY <1>2, <1>3, PTL DEF Spec
<1> HIDE DEF SilentOK
<1> QED BY <1>1, <1>4, Invariant, PTL

\* No Commit or Confirm is written without its scalar, KCK or the peer's scalar
\* (sae_write_commit, sae_write_confirm), for any number of frames, faults, scalars
\* and groups, outside a mesh that asks for tokens.
THEOREM AllFramesComplete == Spec => []FramesComplete
<1>1. ASSUME SaeInv
      PROVE  FramesComplete
  <2> SUFFICES ASSUME ~MeshTokens, NEW f \in SentFrames, f.status = "OK"
               PROVE  /\ f.scalar # NoScalar
                      /\ f.trans = 2 => f.kck # NoKey /\ f.peer_scalar # NoScalar
    BY DEF FramesComplete
  <2>1. PICK p \in Nodes : f \in Elems(chan[p])
    BY DEF SentFrames, Elems
  <2> DEFINE q == Other(p)
  <2>2. q \in Nodes /\ q # p /\ Other(q) = p
    BY TwoNodes
  <2>3. PairWith(p, Rec(p), node[p].timer, fresh[p], {})
    BY <1>1, AtStart
  <2>4. f \in FramesOf(q)
    BY <2>1, <2>2 DEF FramesOf
  <2>5. GoodFrame(conf.mesh, q, p, f, fresh[q], fresh[p])
    BY <2>3, <2>4 DEF PairWith, Pair
  <2>6. f.scalar \in ScalarsOf(q)
    BY <2>5 DEF GoodFrame
  <2>7. f.scalar # NoScalar
    BY <2>2, <2>6, ScalarNumber
  <2>8. ASSUME f.trans = 2
        PROVE  f.kck # NoKey /\ f.peer_scalar # NoScalar
    <3>1. f.peer_scalar \in ScalarsOf(p) /\ f.kck = Key(f.scalar, f.peer_scalar)
      BY <2>5, <2>8 DEF GoodFrame, IsConfirm
    <3>2. f.peer_scalar # NoScalar
      BY <3>1, ScalarNumber
    <3>3. Key(f.scalar, f.peer_scalar) # NoKey
      BY DEF Key, NoKey
    <3> QED BY <3>1, <3>2, <3>3
  <2> QED BY <2>7, <2>8
<1> QED BY <1>1, Invariant, PTL

\* Two ends that have accepted have the same PMK, for any number of Commits with
\* new scalars, repeated, lost or crossing frames, and any configuration other than
\* a mesh that asks for tokens (sae_accept_sta, sme_sae_auth).
THEOREM SameSaeKey == Spec => [](~MeshTokens => SaeKeyAgreement)
<1>1. ASSUME SaeInv
      PROVE  ~MeshTokens => SaeKeyAgreement
  <2> SUFFICES ASSUME ~MeshTokens, Accepted(1), Accepted(2)
               PROVE  Pmk(1) = Pmk(2)
    BY DEF SaeKeyAgreement
  <2>1. Other(1) = 2 /\ 1 \in Nodes /\ 2 \in Nodes
    BY DEF Other, Nodes
  <2>2. PairAt(1)
    BY <1>1 DEF SaeInv
  <2>3. Pair(conf.mesh, 1, 2, Rec(1), node[1].timer, fresh[1], FramesOf(1),
             Rec(2), node[2].timer, fresh[2], FramesOf(2))
    BY <2>1, <2>2 DEF PairAt
  <2>4. Acc(Rec(1)) /\ Acc(Rec(2))
    <3>1. ~conf.mesh => ~Rec(2).cached
      BY <2>3 DEF Pair, SideOK
    <3> QED BY <3>1 DEF Accepted, Acc, Rec, Station
  <2>5. fresh[1] \in Nat /\ fresh[2] \in Nat
    BY <1>1, <2>1 DEF SaeInv, DataTypeOK
  <2>6. Rec(1).pmk = Rec(2).pmk
    <3>1. ASSUME NEW p \in Nodes, NEW q \in Nodes, p = 1, q = 2
          PROVE  Rec(p).pmk = Rec(q).pmk
      <4>1. /\ p # q /\ fresh[p] \in Nat /\ fresh[q] \in Nat /\ Acc(Rec(p)) /\ Acc(Rec(q))
            /\ Pair(conf.mesh, p, q, Rec(p), node[p].timer, fresh[p], FramesOf(p),
                    Rec(q), node[q].timer, fresh[q], FramesOf(q))
        BY <2>3, <2>4, <2>5, <3>1
      <4> QED BY <4>1, PairAgrees
    <3> QED BY <2>1, <3>1
  <2> QED BY <2>6 DEF Pmk, Rec
<1> QED BY <1>1, Invariant, PTL
=============================================================================
