------------------------- MODULE FourWayKeys_proof --------------------------
(***************************************************************************)
(* Proofs about the frames and keys of the 4-way handshake.  The first     *)
(* part rests on the order of the frames: within an association the        *)
(* authenticator numbers them with one replay counter, and a station only  *)
(* takes frames with a MIC that were made in its association, because the  *)
(* SNonce behind the MIC is newer than it.  The second is about the keys   *)
(* that the handshake leaves at both ends: they are the same, and each     *)
(* step is one that PairwiseKeys allows, unless the authenticator went     *)
(* back to 1/4 after 3/4.  The last part shows that it never does so       *)
(* within one association.                                                 *)
(***************************************************************************)
EXTENDS FourWaySteps_proof

\* The frames of the authenticator, those with a GTK, and the ANonce that
\* belongs to a frame.
ApMade == {f \in net : f.type \in {"1/4", "3/4", "1/2"}}
WithGtk == {f \in net : f.type \in {"3/4", "1/2"}}
ANonceOf(f) == IF f.type = "1/4" THEN f.nonce ELSE f.ptk[1]

\* The frames of the current association, if b was the last ANonce before it.
Current(b) == {f \in ApMade : ANonceOf(f) > b}

\* No frame was made with an SNonce that the station has not used yet.
SNonces ==
    /\ \A f \in net : f.type \in {"2/4", "3/4", "4/4", "1/2"} => f.ptk[2] <= sta.snonce
    /\ ap.PTK_valid => ap.PTK[2] <= sta.snonce

\* Frames of earlier associations were made with an SNonce up to s0.  Those of
\* the current one are numbered in the order of their ANonces and GTKs.
FramesOK(b, s0) ==
    /\ \A f \in ApMade : ANonceOf(f) <= ap.ANonce /\ f.gtk <= ap.GTK
    /\ \A f \in WithGtk : ANonceOf(f) <= b => f.ptk[2] <= s0
    /\ \A f \in Current(b) : f.rc <= Rc(ap)
    /\ \A f, g \in Current(b) : ANonceOf(f) < ANonceOf(g) => f.rc < g.rc
    /\ \A f, g \in Current(b) : f.rc = g.rc => f = g
    /\ \A f, g \in Current(b) : f \in WithGtk /\ g \in WithGtk /\ f.rc < g.rc
                                   => f.gtk <= g.gtk

\* The keys of an associated station are made with SNonces above s0, and every
\* GTK it may still take is at least as new as the one it has.
StationOK(b, s0) ==
    /\ sta.assoc = ap.assoc /\ sta.rx_replay_counter <= Rc(ap)
    /\ sta.tptk = NoPTK \/ sta.tptk[2] > s0
    /\ sta.ptk = NoPTK \/ sta.ptk[2] > s0
    /\ sta.renew_snonce \/ sta.snonce > s0
    /\ sta.gtk <= ap.GTK
    /\ \A f \in Current(b) : f \in WithGtk /\ f.rc > sta.rx_replay_counter
                                => f.gtk >= sta.gtk

\* The history of GTKs: a is the association and g the GTK of the newest.
GtkHistory(h, a, g) ==
    /\ \A i \in DOMAIN h : h[i][1] <= a
    /\ \A i \in DOMAIN h : h[i][1] = a => h[i][2] <= g
    /\ \A i, j \in DOMAIN h : i < j /\ h[i][1] = h[j][1] => h[i][2] < h[j][2]

Order(b, s0) ==
    /\ b < ap.ANonce /\ s0 <= sta.snonce
    /\ SNonces /\ FramesOK(b, s0)
    /\ sta.associated => StationOK(b, s0)
    /\ sta.assoc <= ap.assoc
    /\ \E g \in Nat : /\ GtkHistory(sta.gtk_installs, sta.assoc, g)
                      /\ sta.associated => g = sta.gtk

\* The inductive invariant.
OrderInv == Inv /\ \E b \in Int, s0 \in Nat : Order(b, s0)

\* The numbers in a frame.
LEMMA FrameNumbers ==
    ASSUME NEW f \in Frames
    PROVE  /\ f.rc \in Nat /\ f.nonce \in Nat /\ f.gtk \in Nat
           /\ f.ptk \in PTKs /\ f.ptk[1] \in Nat /\ f.ptk[2] \in Nat
           /\ ANonceOf(f) \in Nat
<1>1. f.rc \in Nat /\ f.nonce \in Nat /\ f.gtk \in Nat /\ f.ptk \in PTKs
  BY DEF Frames
<1>2. f.ptk[1] \in Nat /\ f.ptk[2] \in Nat
  BY <1>1 DEF PTKs
<1> QED BY <1>1, <1>2 DEF ANonceOf

\* The numbers in both machines.
LEMMA Numbers ==
    ASSUME NEW a \in ApType, NEW s \in StaType, NEW n, n \subseteq Frames
    PROVE  /\ \A f \in n :
                /\ f.rc \in Nat /\ f.nonce \in Nat /\ f.gtk \in Nat
                /\ f.ptk[1] \in Nat /\ f.ptk[2] \in Nat /\ ANonceOf(f) \in Nat
           /\ Rc(a) \in Nat /\ a.ANonce \in Nat /\ a.GTK \in Nat
           /\ a.assoc \in Nat /\ a.PTK[1] \in Nat /\ a.PTK[2] \in Nat
           /\ s.snonce \in Nat /\ s.assoc \in Nat /\ s.gtk \in Nat
           /\ s.rx_replay_counter \in Nat
           /\ s.tptk[1] \in Nat /\ s.tptk[2] \in Nat
           /\ s.ptk[1] \in Nat /\ s.ptk[2] \in Nat
           /\ s.gtk_installs \in Seq(Nat \X Nat)
<1>1. \A p \in PTKs : p[1] \in Nat /\ p[2] \in Nat
  BY DEF PTKs
<1>2. /\ s.snonce \in Nat /\ s.assoc \in Nat /\ s.gtk \in Nat
      /\ s.rx_replay_counter \in Nat /\ s.tptk \in PTKs /\ s.ptk \in PTKs
      /\ s.gtk_installs \in Seq(Nat \X Nat)
  BY DEF StaType
<1>3. \A f \in n :
        /\ f.rc \in Nat /\ f.nonce \in Nat /\ f.gtk \in Nat
        /\ f.ptk[1] \in Nat /\ f.ptk[2] \in Nat /\ ANonceOf(f) \in Nat
  BY FrameNumbers
<1>4. /\ Rc(a) \in Nat /\ a.ANonce \in Nat /\ a.GTK \in Nat
      /\ a.assoc \in Nat /\ a.PTK \in PTKs
  BY ApNumbers
<1> QED BY <1>1, <1>2, <1>3, <1>4

\* The types of a state and of the next one.
LEMMA InvTypes ==
    /\ Inv => ap \in ApType /\ sta \in StaType /\ net \subseteq Frames
    /\ Inv' => ap' \in ApType /\ sta' \in StaType /\ net' \subseteq Frames
  BY DEF Inv, ApSide, StaSide, ApOK, StaOK

\* The frame g that the authenticator sends, if any.
NewFrame(g) ==
    /\ g.rc = Rc(ap') /\ ANonceOf(g) = ap'.ANonce
    /\ g.type \in {"1/4", "3/4", "1/2"}
    /\ g.type = "1/4" => ap'.state = "PTKSTART" /\ g.gtk = 0 /\ g.nonce = ap'.ANonce
    /\ g.type # "1/4" => g.gtk = ap'.GTK /\ ap'.PTK_valid /\ g.ptk = ap'.PTK
    /\ g.type = "3/4" => ap'.state = "PTKINITNEGOTIATING" /\ g.nonce = ap'.ANonce
    /\ g.type = "1/2" => ap'.state \in {"INITIALIZE", "PTKINITDONE"}

\* The frames of the authenticator carry its ANonce and newest counter.
LEMMA MadeFrames ==
    ASSUME Inv'
    PROVE  /\ ap'.state = "PTKSTART" => \A g \in Msg1of4(ap') : NewFrame(g)
           /\ ap'.state = "PTKINITNEGOTIATING" => \A g \in Msg3of4(ap') : NewFrame(g)
           /\ ap'.state \in {"INITIALIZE", "PTKINITDONE"} => \A g \in Msg1of2(ap') : NewFrame(g)
           /\ \A g, h \in Msg1of4(ap') : g = h
           /\ \A g, h \in Msg3of4(ap') : g = h
           /\ \A g, h \in Msg1of2(ap') : g = h
<1>1. ap'.PTK_valid => ap'.PTK[1] = ap'.ANonce
  BY DEF Inv, ApSide, ApOK
<1> QED BY <1>1 DEF Msg1of4, Msg3of4, Msg1of2, Frame, NewFrame, ANonceOf

\* At most one frame is sent, with the next counter.
LEMMA SendsOne ==
    ASSUME Inv', Sends
    PROVE  /\ net \subseteq net'
           /\ \A g \in net' \ net : NewFrame(g) /\ Rc(ap') = Rc(ap) + 1
           /\ \A g, h \in net' \ net : g = h
           /\ Rc(ap') \in {Rc(ap), Rc(ap) + 1}
  BY MadeFrames DEF Sends

\* One more GTK in the history.
LEMMA GtkHistoryMore ==
    ASSUME NEW h \in Seq(Nat \X Nat), NEW a \in Nat, NEW g \in Nat, NEW n \in Nat,
           GtkHistory(h, a, g), g < n
    PROVE  GtkHistory(Append(h, <<a, n>>), a, n)
<1> DEFINE t == Append(h, <<a, n>>)
<1>1. /\ DOMAIN t = 1 .. Len(h) + 1 /\ Len(h) \in Nat /\ DOMAIN h = 1 .. Len(h)
      /\ \A i \in 1 .. Len(h) : t[i] = h[i]
      /\ t[Len(h) + 1] = <<a, n>>
  OBVIOUS
<1>2. \A i \in DOMAIN h : h[i][1] \in Nat /\ h[i][2] \in Nat
  OBVIOUS
<1> HIDE DEF t
<1>3. \A i \in DOMAIN t : t[i][1] <= a
  BY <1>1, <1>2, SMTT(60) DEF GtkHistory
<1>4. \A i \in DOMAIN t : t[i][1] = a => t[i][2] <= n
  BY <1>1, <1>2, SMTT(60) DEF GtkHistory
<1>5. ASSUME NEW i \in DOMAIN t, NEW j \in DOMAIN t, i < j, t[i][1] = t[j][1]
      PROVE  t[i][2] < t[j][2]
  <2>1. i \in DOMAIN h /\ t[i] = h[i]
    BY <1>1, <1>5
  <2>2. CASE j \in DOMAIN h
    BY <1>1, <1>5, <2>1, <2>2 DEF GtkHistory
  <2>3. CASE j = Len(h) + 1
    <3>1. h[i][1] = a /\ t[j][2] = n
      BY <1>1, <1>5, <2>1, <2>3
    <3>2. h[i][2] <= g
      BY <2>1, <3>1 DEF GtkHistory
    <3> QED BY <1>2, <2>1, <3>1, <3>2
  <2> QED BY <1>1, <2>2, <2>3
<1> QED BY <1>3, <1>4, <1>5 DEF GtkHistory, t

\* The SNonces behind frames, whatever the authenticator does.
LEMMA ApSNonces ==
    ASSUME Inv, Inv', SNonces, PtkComesFromStation, sta' = sta, net \subseteq net',
           \A g \in net' \ net : NewFrame(g)
    PROVE  SNonces'
<1>1. ap'.PTK_valid => ap'.PTK[2] <= sta.snonce
  <2>1. \A f \in net : f.type \in {"2/4", "4/4"} => f.ptk[2] <= sta.snonce
    BY DEF SNonces
  <2> QED BY <2>1 DEF PtkComesFromStation, SNonces, Received
<1>2. \A f \in net' \ net : f.type \in {"2/4", "3/4", "4/4", "1/2"}
                              => f.ptk[2] <= sta.snonce
  BY <1>1 DEF NewFrame
<1> QED BY <1>1, <1>2 DEF SNonces

\* A step of the authenticator within an association: a new frame is above all
\* others in every respect.
LEMMA ApStepOrder ==
    ASSUME Inv, Inv', NEW b \in Int, NEW s0 \in Nat, Order(b, s0), ApStep, sta' = sta
    PROVE  Order(b, s0)'
<1>1. /\ net \subseteq net' /\ Rc(ap') \in {Rc(ap), Rc(ap) + 1}
      /\ \A g \in net' \ net : NewFrame(g) /\ Rc(ap') = Rc(ap) + 1
      /\ \A g, h \in net' \ net : g = h
  BY SendsOne DEF ApStep
<1>3. SNonces'
  BY <1>1, ApSNonces DEF ApStep, Order
<1>4. /\ \A f \in net : /\ f.rc \in Nat /\ f.gtk \in Nat /\ f.ptk[2] \in Nat
                        /\ ANonceOf(f) \in Nat
      /\ \A f \in net' : /\ f.rc \in Nat /\ f.gtk \in Nat /\ f.ptk[2] \in Nat
                         /\ ANonceOf(f) \in Nat
      /\ Rc(ap) \in Nat /\ ap.ANonce \in Nat /\ ap.GTK \in Nat
      /\ Rc(ap') \in Nat /\ ap'.ANonce \in Nat /\ ap'.GTK \in Nat
      /\ sta.gtk \in Nat /\ sta.rx_replay_counter \in Nat
  BY InvTypes, Numbers
<1>2. /\ ap.ANonce <= ap'.ANonce /\ ap.GTK <= ap'.GTK /\ ap'.assoc = ap.assoc
      /\ Rc(ap) <= Rc(ap')
  BY <1>1, <1>4 DEF ApStep
<1>5. b < ap.ANonce /\ FramesOK(b, s0)
  BY DEF Order
<1>6. ASSUME NEW f \in ApMade', f \in net' \ net
      PROVE  /\ ANonceOf(f) > b /\ ANonceOf(f) = ap'.ANonce /\ f.rc = Rc(ap')
             /\ f.gtk <= ap'.GTK /\ Rc(ap') = Rc(ap) + 1
             /\ f \in WithGtk' => f.gtk = ap'.GTK
    BY <1>1, <1>2, <1>4, <1>5, <1>6 DEF NewFrame, WithGtk
<1>7. ASSUME NEW f \in ApMade', f \in net
      PROVE  /\ f \in ApMade /\ ANonceOf(f) <= ap.ANonce /\ f.gtk <= ap.GTK
             /\ f \in WithGtk' <=> f \in WithGtk
             /\ f \in Current(b)' <=> f \in Current(b)
             /\ ANonceOf(f) > b => f.rc <= Rc(ap)
    BY <1>5, <1>7 DEF FramesOK, ApMade, WithGtk, Current
<1>8. FramesOK(b, s0)'
  <2>1. \A f \in ApMade' : ANonceOf(f) <= ap'.ANonce /\ f.gtk <= ap'.GTK
    <3> SUFFICES ASSUME NEW f \in ApMade'
                 PROVE  ANonceOf(f) <= ap'.ANonce /\ f.gtk <= ap'.GTK
      OBVIOUS
    <3>1. f \in net' /\ ANonceOf(f) \in Nat /\ f.gtk \in Nat
      BY <1>4 DEF ApMade
    <3> QED BY <1>2, <1>4, <1>6, <1>7, <3>1
  <2>2. \A f \in WithGtk' : ANonceOf(f) <= b => f.ptk[2] <= s0
    <3> SUFFICES ASSUME NEW f \in WithGtk', ANonceOf(f) <= b
                 PROVE  f.ptk[2] <= s0
      OBVIOUS
    <3>1. f \in net' /\ f \in ApMade' /\ ANonceOf(f) \in Nat
      BY <1>4 DEF ApMade, WithGtk
    <3>2. f \in net
      BY <1>6, <3>1
    <3> QED BY <1>5, <1>7, <3>1, <3>2 DEF FramesOK
  <2>3. \A f \in Current(b)' : /\ f \in ApMade' /\ f \in net'
                               /\ ANonceOf(f) \in Nat /\ f.rc \in Nat /\ f.gtk \in Nat
                               /\ ANonceOf(f) > b
    BY <1>4 DEF Current, ApMade
  <2>4. \A f \in Current(b)' : f.rc <= Rc(ap')
    <3> SUFFICES ASSUME NEW f \in Current(b)' PROVE f.rc <= Rc(ap')
      OBVIOUS
    <3> QED BY <1>2, <1>4, <1>6, <1>7, <2>3
  <2>5. ASSUME NEW f \in Current(b)', NEW g \in Current(b)'
        PROVE  /\ ANonceOf(f) < ANonceOf(g) => f.rc < g.rc
               /\ f.rc = g.rc => f = g
               /\ f \in WithGtk' /\ g \in WithGtk' /\ f.rc < g.rc => f.gtk <= g.gtk
    <3>1. CASE f \in net /\ g \in net
      <4>1. f \in Current(b) /\ g \in Current(b)
        BY <1>7, <2>3, <3>1
      <4> QED BY <1>5, <1>7, <2>3, <3>1, <4>1 DEF FramesOK
    <3>2. CASE f \in net /\ g \notin net
      <4>1. /\ f.rc <= Rc(ap) /\ g.rc = Rc(ap') /\ Rc(ap') = Rc(ap) + 1
            /\ f.gtk <= ap.GTK /\ (g \in WithGtk' => g.gtk = ap'.GTK)
        BY <1>6, <1>7, <2>3, <3>2
      <4> QED BY <1>2, <1>4, <2>3, <4>1
    <3>3. CASE f \notin net /\ g \in net
      <4>1. /\ g.rc <= Rc(ap) /\ f.rc = Rc(ap') /\ Rc(ap') = Rc(ap) + 1
            /\ ANonceOf(f) = ap'.ANonce /\ ANonceOf(g) <= ap.ANonce
        BY <1>6, <1>7, <2>3, <3>3
      <4> QED BY <1>2, <1>4, <2>3, <4>1
    <3>4. CASE f \notin net /\ g \notin net
      <4>1. f = g
        BY <1>1, <2>3, <3>4
      <4> QED BY <2>3, <4>1
    <3> QED BY <3>1, <3>2, <3>3, <3>4
  <2> QED BY <2>1, <2>2, <2>4, <2>5 DEF FramesOK
<1>9. sta.associated => StationOK(b, s0)'
  <2> SUFFICES ASSUME sta.associated PROVE StationOK(b, s0)'
    OBVIOUS
  <2>1. StationOK(b, s0)
    BY DEF Order
  <2>2. sta.rx_replay_counter <= Rc(ap') /\ sta.gtk <= ap'.GTK
    BY <1>2, <1>4, <2>1 DEF StationOK
  <2>3. ASSUME NEW f \in Current(b)', f \in WithGtk', f.rc > sta.rx_replay_counter
        PROVE  f.gtk >= sta.gtk
    <3>1. f \in ApMade' /\ f \in net'
      BY DEF Current, ApMade
    <3>2. CASE f \in net
      BY <1>7, <2>1, <2>3, <3>1, <3>2 DEF StationOK
    <3>3. CASE f \notin net
      BY <1>4, <1>6, <2>2, <2>3, <3>1, <3>3
    <3> QED BY <3>2, <3>3
  <2> QED BY <1>2, <2>1, <2>2, <2>3 DEF StationOK
<1>10. b < ap'.ANonce
  BY <1>2, <1>4, <1>5
<1> QED BY <1>2, <1>3, <1>8, <1>9, <1>10 DEF Order

\* A new association: all frames before it become old ones.
LEMMA ApJoinOrder ==
    ASSUME Inv, Inv', NEW b \in Int, NEW s0 \in Nat, Order(b, s0), ApJoin,
           ~sta.associated, sta' = sta,
           NEW c \in Int, c = ap.ANonce, NEW s1 \in Nat, s1 = sta.snonce
    PROVE  Order(c, s1)'
<1>1. /\ \A f \in net : /\ f.rc \in Nat /\ f.gtk \in Nat /\ f.ptk[2] \in Nat
                        /\ ANonceOf(f) \in Nat
      /\ ap.ANonce \in Nat /\ ap.GTK \in Nat /\ ap.assoc \in Nat
      /\ Rc(ap') \in Nat /\ ap'.ANonce \in Nat /\ ap'.GTK \in Nat
      /\ sta.snonce \in Nat /\ sta.assoc \in Nat
  BY InvTypes, Numbers
<1>2. /\ net \subseteq net' /\ \A g \in net' \ net : NewFrame(g) /\ g.type = "1/4"
      /\ \A g, h \in net' \ net : g = h
  BY MadeFrames DEF ApJoin, Msg1of4, Frame
<1>3. PtkComesFromStation
  BY DEF ApJoin, PtkComesFromStation
<1>4. SNonces'
  BY <1>2, <1>3, ApSNonces DEF Order
<1>5. ap'.ANonce = ap.ANonce + 1 /\ ap'.GTK = ap.GTK /\ ap'.assoc = ap.assoc + 1
  BY DEF ApJoin
<1>6. FramesOK(b, s0) /\ SNonces
  BY DEF Order
<1>7. \A f \in net : f.type \in {"1/4", "3/4", "1/2"}
                       => ANonceOf(f) <= ap.ANonce /\ f.gtk <= ap.GTK
  BY <1>6 DEF FramesOK, ApMade
<1>8. \A f \in net' \ net : /\ ANonceOf(f) = ap'.ANonce /\ f.gtk = 0 /\ f.rc = Rc(ap')
                            /\ f \notin WithGtk'
  BY <1>2 DEF NewFrame, WithGtk
<1>9. \A f \in ApMade' : ANonceOf(f) <= ap'.ANonce /\ f.gtk <= ap'.GTK
  BY <1>1, <1>5, <1>7, <1>8 DEF ApMade
<1>10. \A f \in WithGtk' : f.ptk[2] <= s1
  BY <1>4 DEF WithGtk, SNonces
<1>11. \A f \in Current(c)' : f \in net' \ net
  <2> SUFFICES ASSUME NEW f \in ApMade', ANonceOf(f) > c PROVE f \notin net
    BY DEF Current, ApMade
  <2> QED BY <1>1, <1>7 DEF ApMade
<1>12. FramesOK(c, s1)'
  <2>1. \A f \in Current(c)' : f.rc <= Rc(ap') /\ f \notin WithGtk'
    BY <1>1, <1>8, <1>11
  <2>2. \A f, g \in Current(c)' : f = g
    BY <1>2, <1>11
  <2>3. \A f, g \in Current(c)' : ANonceOf(f) = ANonceOf(g)
    BY <2>2
  <2>4. \A f \in Current(c)' : ANonceOf(f) = ap'.ANonce
    BY <1>8, <1>11
  <2>5. \A f, g \in Current(c)' : ~(ANonceOf(f) < ANonceOf(g))
    BY <1>1, <2>4
  <2> QED BY <1>9, <1>10, <2>1, <2>2, <2>5 DEF FramesOK
<1>13. c < ap'.ANonce /\ s1 <= sta'.snonce /\ sta.assoc <= ap'.assoc
  BY <1>1, <1>5 DEF Order
<1> QED BY <1>4, <1>12, <1>13 DEF Order

\* The frames of a station are not among those of the authenticator.
StaFrame(g) == g.type \notin {"1/4", "3/4", "1/2"}

\* The fields of the station's frames.
LEMMA StaMade ==
    /\ \A f, n : \A g \in Msg2of4(f, n) :
         /\ g.type = "2/4" /\ g.rc = f.rc /\ g.nonce = n
         /\ g.ptk = <<f.nonce, n>>
    /\ \A f, p : \A g \in Msg4of4(f, p) : g.type = "4/4" /\ g.rc = f.rc /\ g.ptk = p
    /\ \A f, p : \A g \in Msg2of2(f, p) : g.type = "2/2" /\ g.rc = f.rc /\ g.ptk = p
  BY DEF Msg2of4, Msg4of4, Msg2of2, Frame

\* What the station sends changes nothing about the authenticator's frames.
LEMMA StaSends ==
    ASSUME NEW b \in Int, NEW s0 \in Nat, FramesOK(b, s0), ap' = ap,
           net \subseteq net', \A g \in net' \ net : StaFrame(g)
    PROVE  /\ ApMade' = ApMade /\ WithGtk' = WithGtk /\ Current(b)' = Current(b)
           /\ FramesOK(b, s0)'
<1>1. ApMade' = ApMade
  BY DEF ApMade, StaFrame
<1>2. WithGtk' = WithGtk
  BY DEF WithGtk, StaFrame
<1>3. Current(b)' = Current(b)
  BY <1>1 DEF Current
<1> QED BY <1>1, <1>2, <1>3 DEF FramesOK

\* A frame with a MIC that the station verifies belongs to its association.
LEMMA TakesCurrent ==
    ASSUME Inv, NEW b \in Int, NEW s0 \in Nat, Order(b, s0), NEW f \in net, Takes(f)
    PROVE  /\ f \in Current(b) /\ f \in WithGtk /\ f.ptk[2] > s0 /\ f.rc <= Rc(ap)
           /\ f.ptk[2] <= sta.snonce
<1>1. /\ f.ptk[2] \in Nat /\ ANonceOf(f) \in Nat
  BY InvTypes, Numbers
<1>2. sta.associated /\ f.type \in {"3/4", "1/2"} /\ f.ptk # NoPTK
      /\ f.ptk \in {sta.tptk, sta.ptk}
  BY DEF Takes, Received
<1>3. FramesOK(b, s0) /\ StationOK(b, s0) /\ SNonces
  BY <1>2 DEF Order
<1>4. f.ptk[2] > s0
  BY <1>2, <1>3 DEF StationOK
<1>5. f \in ApMade /\ f \in WithGtk
  BY <1>2 DEF ApMade, WithGtk
<1>6. ANonceOf(f) > b
  BY <1>1, <1>3, <1>4, <1>5 DEF FramesOK
<1>7. f \in Current(b)
  BY <1>5, <1>6 DEF Current
<1> QED BY <1>2, <1>3, <1>4, <1>5, <1>7 DEF FramesOK, SNonces

\* 1/4: the SNonce of 2/4 is newer than the association.
LEMMA AnswersOrder ==
    ASSUME Inv, Inv', NEW b \in Int, NEW s0 \in Nat, Order(b, s0), ap' = ap,
           NEW f \in net, NEW n \in Nat, Answers(f, n)
    PROVE  Order(b, s0)'
<1>1. /\ sta.snonce \in Nat /\ ap.PTK[2] \in Nat
      /\ \A g \in net : g.ptk[2] \in Nat
  BY InvTypes, Numbers
<1>2. FramesOK(b, s0) /\ StationOK(b, s0) /\ SNonces /\ s0 <= sta.snonce
  BY DEF Order, Answers
<1>3. /\ net \subseteq net'
      /\ \A g \in net' \ net : StaFrame(g) /\ g.ptk = <<f.nonce, n>>
  <2>1. net' = net \cup Msg2of4(f, n)
    BY DEF Answers
  <2> QED BY <2>1, StaMade DEF StaFrame
<1>4. Current(b)' = Current(b) /\ WithGtk' = WithGtk /\ FramesOK(b, s0)'
  BY <1>2, <1>3, StaSends
<1>5. n > s0 /\ sta.snonce <= n /\ sta'.snonce = n
  BY <1>1, <1>2 DEF Answers, StationOK
<1>6. SNonces'
  <2>1. \A g \in net' : g.type \in {"2/4", "3/4", "4/4", "1/2"} => g.ptk[2] <= n
    <3> SUFFICES ASSUME NEW g \in net', g.type \in {"2/4", "3/4", "4/4", "1/2"}
                 PROVE  g.ptk[2] <= n
      OBVIOUS
    <3>1. CASE g \in net
      <4>1. g.ptk[2] <= sta.snonce
        BY <1>2, <3>1 DEF SNonces
      <4> QED BY <1>1, <1>5, <3>1, <4>1
    <3>2. CASE g \notin net
      <4>1. g.ptk[2] = n
        BY <1>3, <3>2
      <4> QED BY <4>1
    <3> QED BY <3>1, <3>2
  <2>2. ap.PTK_valid => ap.PTK[2] <= n
    BY <1>1, <1>2, <1>5 DEF SNonces
  <2> QED BY <1>5, <2>1, <2>2 DEF SNonces
<1>7. sta'.tptk = NoPTK \/ sta'.tptk[2] > s0
  BY <1>2, <1>5 DEF Answers, StationOK
<1>8. StationOK(b, s0)'
  BY <1>2, <1>4, <1>5, <1>7 DEF StationOK, Answers
<1>9. s0 <= sta'.snonce
  BY <1>1, <1>2, <1>5
<1> QED BY <1>4, <1>6, <1>8, <1>9 DEF Order, Answers

\* 3/4 or 1/2 is taken: its GTK is the newest that the station has seen.
LEMMA StaysOrder ==
    ASSUME Inv, Inv', NEW b \in Int, NEW s0 \in Nat, Order(b, s0), ap' = ap,
           NEW f \in net, Takes(f), Stays(f)
    PROVE  Order(b, s0)'
<1>1. /\ sta.snonce \in Nat /\ sta.gtk \in Nat /\ sta.assoc \in Nat
      /\ sta.rx_replay_counter \in Nat
      /\ \A g \in net : g.rc \in Nat /\ g.gtk \in Nat
      /\ sta.gtk_installs \in Seq(Nat \X Nat)
  BY InvTypes, Numbers
<1>2. /\ FramesOK(b, s0) /\ StationOK(b, s0) /\ SNonces /\ s0 <= sta.snonce
      /\ sta.associated
  BY DEF Order, Takes
<1>3. /\ net \subseteq net'
      /\ \A g \in net' \ net : StaFrame(g) /\ g.ptk = f.ptk
  <2>1. net' = net \cup Msg4of4(f, f.ptk) \/ net' = net \cup Msg2of2(f, f.ptk)
    BY DEF Stays
  <2> QED BY <2>1, StaMade DEF StaFrame
<1>4. /\ Current(b)' = Current(b) /\ WithGtk' = WithGtk /\ ApMade' = ApMade
      /\ FramesOK(b, s0)'
  BY <1>2, <1>3, StaSends
<1>5. /\ f \in Current(b) /\ f \in WithGtk /\ f.ptk[2] > s0 /\ f.rc <= Rc(ap)
      /\ f.ptk[2] <= sta.snonce
  BY TakesCurrent
<1>6. sta'.snonce = sta.snonce /\ sta'.assoc = sta.assoc
  BY DEF Takes, Context
<1>7. SNonces'
  BY <1>2, <1>3, <1>5, <1>6 DEF SNonces
<1>8. f.gtk >= sta.gtk /\ f.gtk <= ap.GTK
  BY <1>2, <1>5 DEF StationOK, FramesOK, Takes, Current
<1>9. StationOK(b, s0)'
  <2>1. \A g \in Current(b) : g \in WithGtk /\ g.rc > f.rc => g.gtk >= f.gtk
    <3> SUFFICES ASSUME NEW g \in Current(b), g \in WithGtk, g.rc > f.rc
                 PROVE  g.gtk >= f.gtk
      OBVIOUS
    <3>1. g \in net
      BY DEF WithGtk
    <3>2. f.gtk <= g.gtk
      BY <1>1, <1>2, <1>5, <3>1 DEF FramesOK
    <3> QED BY <1>1, <3>1, <3>2
  <2>2. sta'.tptk = NoPTK \/ sta'.tptk[2] > s0
    BY <1>2 DEF Stays, StationOK
  <2>3. sta'.renew_snonce \/ sta'.snonce > s0
    BY <1>2, <1>6 DEF Takes, StationOK
  <2> QED BY <1>2, <1>4, <1>5, <1>6, <1>8, <2>1, <2>2, <2>3 DEF StationOK, Stays
<1>10. GtkHistory(sta'.gtk_installs, sta'.assoc, f.gtk)
  <2>1. GtkHistory(sta.gtk_installs, sta.assoc, sta.gtk)
    BY <1>2 DEF Order
  <2>2. CASE sta.gtk = f.gtk
    BY <1>6, <2>1, <2>2 DEF Stays, GtkGiven
  <2>3. CASE sta.gtk # f.gtk
    <3>1. sta.gtk < f.gtk /\ f.gtk \in Nat
      BY <1>1, <1>8, <2>3
    <3>2. sta'.gtk_installs = Append(sta.gtk_installs, <<sta.assoc, f.gtk>>)
      BY <2>3 DEF Stays, GtkGiven
    <3> QED BY <1>1, <1>6, <2>1, <3>1, <3>2, GtkHistoryMore
  <2> QED BY <2>2, <2>3
<1>11. sta'.gtk = f.gtk /\ f.gtk \in Nat
  BY <1>1 DEF Stays
<1> QED BY <1>2, <1>4, <1>6, <1>7, <1>9, <1>10, <1>11 DEF Order

\* The station gives up: its association is over, the history stays.
LEMMA GivesUpOrder ==
    ASSUME Inv, Inv', NEW b \in Int, NEW s0 \in Nat, Order(b, s0), ap' = ap,
           GivesUp, Context(sta', sta), net \subseteq net',
           \A g \in net' \ net : StaFrame(g) /\ g.ptk[2] <= sta.snonce
    PROVE  Order(b, s0)'
<1>1. FramesOK(b, s0) /\ SNonces
  BY DEF Order
<1>2. FramesOK(b, s0)'
  BY <1>1, StaSends
<1>3. SNonces'
  BY <1>1 DEF SNonces, Context
<1> QED BY <1>2, <1>3 DEF Order, GivesUp, Context

\* Every step of the station within an association.
LEMMA StaStepOrder ==
    ASSUME Inv, Inv', NEW b \in Int, NEW s0 \in Nat, Order(b, s0), ap' = ap, StaStep
    PROVE  Order(b, s0)'
<1>1. ASSUME NEW f \in net, NEW n \in Nat, Answers(f, n)
      PROVE  Order(b, s0)'
  BY <1>1, AnswersOrder
<1>2. ASSUME NEW f \in net, Takes(f), Stays(f)
      PROVE  Order(b, s0)'
  BY <1>2, StaysOrder
<1>3. ASSUME NEW f \in net, Takes(f), GivesUpAt(f)
      PROVE  Order(b, s0)'
  <2>1. f.ptk[2] <= sta.snonce
    BY <1>3, TakesCurrent
  <2>2. net \subseteq net' /\ \A g \in net' \ net : StaFrame(g) /\ g.ptk = f.ptk
    <3>1. net' = net \/ net' = net \cup Msg4of4(f, f.ptk)
      BY <1>3 DEF GivesUpAt
    <3> QED BY <3>1, StaMade DEF StaFrame
  <2>3. GivesUp /\ Context(sta', sta)
    BY <1>3 DEF GivesUpAt, Takes
  <2> QED BY <2>1, <2>2, <2>3, GivesUpOrder
<1>4. CASE Leaves
  BY <1>4, GivesUpOrder DEF Leaves
<1>5. CASE Asks
  <2>1. FramesOK(b, s0) /\ SNonces
    BY DEF Order
  <2>2. /\ net \subseteq net'
        /\ \A g \in net' \ net : StaFrame(g) /\ g.type \in {"request", "gtk request"}
    <3>1. PICK t \in {"request", "gtk request"} :
             net' = net \cup {Frame(t, sta.request_counter, 0, sta.ptk, 0)}
      BY <1>5 DEF Asks
    <3> DEFINE r == Frame(t, sta.request_counter, 0, sta.ptk, 0)
    <3>2. r.type = t /\ net' = net \cup {r}
      BY <3>1 DEF Frame
    <3> HIDE DEF r
    <3> QED BY <3>2 DEF StaFrame
  <2>3. Current(b)' = Current(b) /\ WithGtk' = WithGtk /\ FramesOK(b, s0)'
    BY <2>1, <2>2, StaSends
  <2>4. SNonces'
    BY <1>5, <2>1, <2>2 DEF SNonces, Asks, Context
  <2>5. sta.associated => StationOK(b, s0)'
    BY <1>5, <2>3 DEF Order, StationOK, Asks, SamePtks, Context
  <2> QED BY <1>5, <2>3, <2>4, <2>5 DEF Order, Asks, Context
<1> QED BY <1>1, <1>2, <1>3, <1>4, <1>5 DEF StaStep

\* The station hears of a new association: it has no GTK of it yet.
LEMMA StaJoinOrder ==
    ASSUME Inv, Inv', NEW b \in Int, NEW s0 \in Nat, Order(b, s0), ap' = ap, StaJoin
    PROVE  Order(b, s0)'
<1>1. /\ Rc(ap) \in Nat /\ ap.GTK \in Nat /\ ap.assoc \in Nat /\ sta.assoc \in Nat
      /\ \A g \in net : g.rc \in Nat /\ g.gtk \in Nat
      /\ sta.gtk_installs \in Seq(Nat \X Nat)
  BY InvTypes, Numbers
<1>2. FramesOK(b, s0) /\ SNonces /\ net' = net
  BY DEF Order, StaJoin
<1>3. Current(b)' = Current(b) /\ WithGtk' = WithGtk /\ FramesOK(b, s0)'
  BY <1>2, StaSends
<1>4. SNonces'
  BY <1>2 DEF SNonces, StaJoin
<1>5. \A f \in Current(b) : f.gtk >= 0
  BY <1>1 DEF Current, ApMade
<1>6. 0 <= Rc(ap) /\ 0 <= ap.GTK
  BY <1>1
<1>7. StationOK(b, s0)'
  BY <1>3, <1>5, <1>6 DEF StationOK, StaJoin
<1>8. GtkHistory(sta'.gtk_installs, sta'.assoc, 0)
  <2> DEFINE h == sta.gtk_installs
  <2>1. PICK g \in Nat : GtkHistory(h, sta.assoc, g)
    BY DEF Order
  <2>2. \A i \in DOMAIN h : h[i][1] \in Nat
    BY <1>1
  <2>3. sta.assoc < ap.assoc /\ sta'.assoc = ap.assoc /\ sta'.gtk_installs = h
    BY DEF StaJoin
  <2> HIDE DEF h
  <2>4. \A i \in DOMAIN h : h[i][1] < ap.assoc
    BY <1>1, <2>1, <2>2, <2>3 DEF GtkHistory
  <2>5. \A i \in DOMAIN h : h[i][1] <= ap.assoc /\ h[i][1] # ap.assoc
    BY <1>1, <2>2, <2>4
  <2> QED BY <2>1, <2>3, <2>5 DEF GtkHistory
<1>9. sta'.assoc <= ap'.assoc
  BY <1>1 DEF StaJoin
<1> QED BY <1>2, <1>3, <1>4, <1>7, <1>8, <1>9 DEF Order, StaJoin

\* The initial state.
LEMMA InitOrder == Init => OrderInv
<1> SUFFICES ASSUME Init PROVE OrderInv
  OBVIOUS
<1>1. Inv
  BY InitInv
<1>2. PICK conf \in RetryConfigs : ap = NewAp(0, 0, 1, conf, << >>)
  BY DEF Init, ApInit
<1>3. PICK policy \in SNoncePolicies : sta = NewSta(policy)
  BY DEF Init, StaInit
<1>4. ap.ANonce = 0 /\ ap.PTK_valid = FALSE /\ ap.assoc = 0
  BY <1>2 DEF NewAp
<1>5. /\ sta.associated = FALSE /\ sta.assoc = 0 /\ sta.gtk_installs = << >>
      /\ sta.snonce = 0
  BY <1>3 DEF NewSta
<1>6. net = {}
  BY DEF Init
<1>7. SNonces /\ FramesOK(-1, 0)
  BY <1>4, <1>6 DEF SNonces, FramesOK, ApMade, WithGtk, Current
<1>8. GtkHistory(<< >>, 0, 0)
  BY DEF GtkHistory
<1>9. Order(-1, 0)
  BY <1>4, <1>5, <1>7, <1>8 DEF Order
<1> QED BY <1>1, <1>9 DEF OrderInv

\* Every step keeps the order.
LEMMA NextOrder == OrderInv /\ [Next]_vars => OrderInv'
<1> SUFFICES ASSUME OrderInv, [Next]_vars PROVE OrderInv'
  OBVIOUS
<1>1. PICK b \in Int, s0 \in Nat : Order(b, s0)
  BY DEF OrderInv
<1>2. Inv /\ Inv'
  BY Steps DEF OrderInv
<1>3. CASE ApStep /\ sta' = sta
  BY <1>1, <1>2, <1>3, ApStepOrder DEF OrderInv
<1>4. CASE ApJoin /\ ~sta.associated /\ sta' = sta
  <2>1. ap.ANonce \in Int /\ sta.snonce \in Nat
    BY <1>2, InvTypes, Numbers
  <2>2. PICK c \in Int, s1 \in Nat : c = ap.ANonce /\ s1 = sta.snonce
    BY <2>1
  <2>3. Order(c, s1)'
    BY <1>1, <1>2, <1>4, <2>2, ApJoinOrder
  <2> QED BY <1>2, <2>3 DEF OrderInv
<1>5. CASE StaStep /\ ap' = ap
  BY <1>1, <1>2, <1>5, StaStepOrder DEF OrderInv
<1>6. CASE StaJoin /\ ap' = ap
  BY <1>1, <1>2, <1>6, StaJoinOrder DEF OrderInv
<1>7. CASE ap' = ap /\ sta' = sta /\ net' = net
  <2>1. Order(b, s0)'
    BY <1>1, <1>7 DEF Order, SNonces, FramesOK, StationOK, ApMade, WithGtk, Current
  <2> QED BY <1>2, <2>1 DEF OrderInv
<1>8. Inv
  BY <1>2
<1> QED BY <1>3, <1>4, <1>5, <1>6, <1>7, <1>8, Steps

\* The supplicant of an association never expects a replay counter above what
\* the authenticator has sent in it, so it never drops all frames to come,
\* whatever frames of earlier associations reach it.
THEOREM NotAhead == Spec => []StationNotAhead
<1>1. OrderInv => StationNotAhead
  BY DEF OrderInv, Order, StationOK, StationNotAhead, SameAssociation
<1> QED BY <1>1, InitOrder, NextOrder, PTL DEF Spec

\* Within an association the supplicant installs newer GTKs only, over any
\* number of rekeyings, repeated and late frames of both handshakes.
THEOREM GtksOnlyNewer == Spec => []GtkNeverGoesBack
<1>1. OrderInv => GtkNeverGoesBack
  <2> SUFFICES ASSUME OrderInv PROVE GtkNeverGoesBack
    OBVIOUS
  <2>1. PICK b \in Int, s0 \in Nat : Order(b, s0)
    BY DEF OrderInv
  <2>2. PICK g \in Nat : GtkHistory(sta.gtk_installs, sta.assoc, g)
    BY <2>1 DEF Order
  <2> QED BY <2>2 DEF GtkHistory, GtkNeverGoesBack
<1> QED BY <1>1, InitOrder, NextOrder, PTL DEF Spec

(***************************************************************************)
(* Timeouts.                                                               *)
(***************************************************************************)

\* A handshake has a timeout.  What could cancel it is not there: no request
\* for a GTK, and no 2/2 made with a PTK of the handshake that runs.
TimerInv ==
    /\ Inv /\ HandshakeHasTimer
    /\ Received("gtk request") = {}
    /\ \A f \in net : f.type \in {"1/2", "2/2"} =>
         f.ptk[1] <= ap.ANonce /\ (Running(ap) => f.ptk[1] < ap.ANonce)

\* The initial state.
LEMMA InitTimer == Init => TimerInv
<1> SUFFICES ASSUME Init PROVE TimerInv
  OBVIOUS
<1>1. PICK conf \in RetryConfigs : ap = NewAp(0, 0, 1, conf, << >>)
  BY DEF Init, ApInit
<1>2. ~InHandshake
  BY <1>1 DEF NewAp, InHandshake
<1> QED BY <1>2, InitInv DEF TimerInv, HandshakeHasTimer, Received, Init

\* A step of the authenticator within an association.
LEMMA ApStepTimer ==
    ASSUME TimerInv, Inv', ApStep
    PROVE  TimerInv'
<1>1. /\ net \subseteq net' /\ \A g \in net' \ net : NewFrame(g)
  BY SendsOne DEF ApStep
<1>2. /\ \A f \in net : f.ptk[1] \in Nat
      /\ \A f \in net' : f.ptk[1] \in Nat
      /\ ap.ANonce \in Nat /\ ap.timers \in Nat
      /\ ap'.ANonce \in Nat /\ ap'.timers \in Nat
  <2>1. ap \in ApType /\ ap' \in ApType /\ net \subseteq Frames /\ net' \subseteq Frames
    BY InvTypes DEF TimerInv
  <2> QED BY <2>1, ApNumbers, FrameNumbers
<1>3. /\ ap'.ANonce = ap.ANonce /\ (Running(ap') => Running(ap))
      \/ ap'.ANonce = ap.ANonce + 1
  BY DEF ApStep
<1>4. Received("gtk request")' = {}
  BY <1>1 DEF TimerInv, NewFrame, Received
<1>5. ASSUME NEW f \in net', f.type \in {"1/2", "2/2"}
      PROVE  f.ptk[1] <= ap'.ANonce /\ (Running(ap') => f.ptk[1] < ap'.ANonce)
  <2>1. CASE f \in net
    <3>1. f.ptk[1] <= ap.ANonce /\ (Running(ap) => f.ptk[1] < ap.ANonce)
      BY <1>5, <2>1 DEF TimerInv
    <3> QED BY <1>2, <1>3, <2>1, <3>1
  <2>2. CASE f \notin net
    <3>1. NewFrame(f) /\ f.type = "1/2"
      BY <1>1, <1>5, <2>2 DEF NewFrame
    <3>2. ap'.state \in {"INITIALIZE", "PTKINITDONE"} /\ f.ptk[1] = ap'.ANonce
      BY <3>1 DEF NewFrame, ANonceOf
    <3> QED BY <1>2, <3>2 DEF Running
  <2> QED BY <2>1, <2>2
<1>6. Running(ap') => ap'.timers > 0
  <2> SUFFICES ASSUME Running(ap') PROVE ap'.timers > 0
    OBVIOUS
  <2>1. KeepsTimer /\ Received("gtk request") = {}
    BY DEF ApStep, TimerInv
  <2>2. Running(ap) => ap.timers > 0
    BY DEF TimerInv, HandshakeHasTimer, InHandshake, Running
  <2>3. ASSUME Running(ap), NEW f \in Received("2/2")
        PROVE  f.ptk[1] # ap.ANonce
    <3>1. f \in net /\ f.type = "2/2"
      BY DEF Received
    <3>2. f.ptk[1] < ap.ANonce
      BY <2>3, <3>1 DEF TimerInv
    <3> QED BY <1>2, <3>1, <3>2
  <2>4. \/ ap'.timers > 0
        \/ Running(ap) /\ ap'.timers >= ap.timers
    BY <2>1, <2>3 DEF KeepsTimer
  <2>5. CASE Running(ap) /\ ap'.timers >= ap.timers
    <3>1. ap.timers > 0
      BY <2>2, <2>5
    <3> QED BY <1>2, <2>5, <3>1
  <2> QED BY <2>4, <2>5
<1>7. HandshakeHasTimer'
  BY <1>6 DEF HandshakeHasTimer, InHandshake, Running
<1> QED BY <1>4, <1>5, <1>7 DEF TimerInv

\* A new association.
LEMMA ApJoinTimer ==
    ASSUME TimerInv, Inv', ApJoin
    PROVE  TimerInv'
<1>1. /\ net \subseteq net' /\ \A g \in net' \ net : NewFrame(g) /\ g.type = "1/4"
  BY MadeFrames DEF ApJoin, Msg1of4, Frame
<1>2. /\ \A f \in net : f.ptk[1] \in Nat
      /\ ap.ANonce \in Nat /\ ap'.ANonce = ap.ANonce + 1
  <2>1. ap \in ApType /\ net \subseteq Frames
    BY InvTypes DEF TimerInv
  <2> QED BY <2>1, ApNumbers, FrameNumbers DEF ApJoin
<1>3. Received("gtk request")' = {}
  BY <1>1 DEF TimerInv, Received
<1>4. ASSUME NEW f \in net', f.type \in {"1/2", "2/2"}
      PROVE  f.ptk[1] <= ap'.ANonce /\ f.ptk[1] < ap'.ANonce
  <2>1. f \in net
    BY <1>1, <1>4
  <2>2. f.ptk[1] <= ap.ANonce
    BY <1>4, <2>1 DEF TimerInv
  <2> QED BY <1>2, <2>1, <2>2
<1>5. HandshakeHasTimer'
  BY DEF HandshakeHasTimer, ApJoin
<1> QED BY <1>3, <1>4, <1>5 DEF TimerInv

\* A station that does not ask for GTKs: 2/2 is made with the PTK of 1/2.
LEMMA StaStepTimer ==
    ASSUME ~GtkRequests, TimerInv, Inv', StaStep, ap' = ap
    PROVE  TimerInv'
<1>1. ASSUME net \subseteq net',
             \A g \in net' \ net :
               /\ g.type \notin {"1/2", "gtk request"}
               /\ g.type = "2/2" =>
                    \E f \in net : f.type = "1/2" /\ g.ptk = f.ptk
      PROVE  TimerInv'
  <2>1. Received("gtk request")' = {}
    BY <1>1 DEF TimerInv, Received
  <2>2. ASSUME NEW g \in net', g.type \in {"1/2", "2/2"}
        PROVE  g.ptk[1] <= ap.ANonce /\ (Running(ap) => g.ptk[1] < ap.ANonce)
    BY <1>1, <2>2 DEF TimerInv
  <2>3. HandshakeHasTimer'
    BY DEF TimerInv, HandshakeHasTimer, InHandshake
  <2> QED BY <2>1, <2>2, <2>3 DEF TimerInv
<1>2. ASSUME NEW f \in net, NEW n \in Nat, Answers(f, n)
      PROVE  TimerInv'
  <2>1. net' = net \cup Msg2of4(f, n)
    BY <1>2 DEF Answers
  <2>2. \A g \in net' \ net : g.type = "2/4"
    BY <2>1, StaMade
  <2> QED BY <1>1, <2>1, <2>2
<1>3. ASSUME NEW f \in net, Stays(f) \/ GivesUpAt(f)
      PROVE  TimerInv'
  <2>1. \/ net' = net
        \/ net' = net \cup Msg4of4(f, f.ptk)
        \/ f.type = "1/2" /\ net' = net \cup Msg2of2(f, f.ptk)
    BY <1>3 DEF Stays, GivesUpAt
  <2>2. CASE net' = net
    BY <1>1, <2>2
  <2>3. CASE net' = net \cup Msg4of4(f, f.ptk)
    <3>1. \A g \in net' \ net : g.type = "4/4"
      BY <2>3, StaMade
    <3> QED BY <1>1, <2>3, <3>1
  <2>4. CASE f.type = "1/2" /\ net' = net \cup Msg2of2(f, f.ptk)
    <3>1. \A g \in net' \ net : g.type = "2/2" /\ g.ptk = f.ptk
      BY <2>4, StaMade
    <3> QED BY <1>1, <2>4, <3>1
  <2> QED BY <2>1, <2>2, <2>3, <2>4
<1>4. CASE Leaves
  BY <1>1, <1>4 DEF Leaves
<1>5. CASE Asks
  <2>1. PICK t \in {"request", "gtk request"} :
           /\ t = "gtk request" => GtkRequests
           /\ net' = net \cup {Frame(t, sta.request_counter, 0, sta.ptk, 0)}
    BY <1>5 DEF Asks
  <2> DEFINE r == Frame("request", sta.request_counter, 0, sta.ptk, 0)
  <2>2. r.type = "request" /\ net' = net \cup {r}
    BY <2>1 DEF Frame
  <2> HIDE DEF r
  <2>3. \A g \in net' \ net : g.type = "request"
    BY <2>2
  <2> QED BY <1>1, <2>2, <2>3
<1> QED BY <1>2, <1>3, <1>4, <1>5 DEF StaStep

\* Every step keeps the invariant.
LEMMA NextTimer ==
    ASSUME ~GtkRequests
    PROVE  TimerInv /\ [Next]_vars => TimerInv'
<1> SUFFICES ASSUME TimerInv, [Next]_vars PROVE TimerInv'
  OBVIOUS
<1>1. /\ Inv'
      /\ \/ ApStep \/ ApJoin
         \/ StaStep /\ ap' = ap
         \/ ap' = ap /\ net' = net
  BY Steps DEF TimerInv, StaJoin
<1>2. CASE ap' = ap /\ net' = net
  BY <1>1, <1>2 DEF TimerInv, HandshakeHasTimer, InHandshake, Received
<1> QED BY <1>1, <1>2, ApStepTimer, ApJoinTimer, StaStepTimer

\* With a supplicant that never asks for a GTK, a timeout is registered as long
\* as a 4-way handshake runs: neither 2/2 nor a request for a new PTK, both of
\* which cancel it, can arrive verified during the handshake without starting
\* another one.
THEOREM HasTimer ==
    ASSUME ~GtkRequests
    PROVE  Spec => []HandshakeHasTimer
<1>1. TimerInv => HandshakeHasTimer
  BY DEF TimerInv
<1> QED BY <1>1, InitTimer, NextTimer, PTL DEF Spec

(***************************************************************************)
(* The keys at both ends.                                                  *)
(***************************************************************************)

\* A 3/4 with ANonce n and a counter up to rc has been sent.
Negotiated(n, rc) == \E g \in Received("3/4") : g.nonce = n /\ g.rc <= rc

\* Of the frames: nothing was made with an ANonce to come, and a 1/2 follows a
\* 3/4 of the same handshake.
KeyFrames ==
    /\ \A f \in net : f.ptk[1] <= ap.ANonce
    /\ \A f \in Received("3/4") : f.nonce = f.ptk[1]
    /\ \A f \in Received("1/2") : Negotiated(f.ptk[1], f.rc)
    /\ \A f \in Received("4/4") : f.ptk # NoPTK

\* Of the authenticator: it sent 3/4 when it made the PTK, and ends a handshake
\* with a PTK that 4/4 confirms.
ApKeys ==
    /\ ap.PTK_valid => Negotiated(ap.ANonce, Rc(ap))
    /\ ap.state = "PTKINITDONE" /\ ap.PTK_valid =>
         \E f \in Received("4/4") : f.ptk[1] = ap.ANonce /\ f.ptk = ap.drv_ptk

\* A station with a PTK of the current handshake has seen its 3/4 and is not
\* about to make another PTK.
Settled ==
    sta.ptk # NoPTK /\ sta.ptk[1] = ap.ANonce =>
        /\ Negotiated(ap.ANonce, sta.rx_replay_counter)
        /\ sta.tptk = NoPTK \/ sta.tptk[1] # ap.ANonce

\* Every PTK of the current handshake that the station confirmed is the one it
\* uses.
UsesConfirmed ==
    \A f \in Received("4/4") :
        f.ptk[1] = ap.ANonce => sta.installed /\ sta.ptk = f.ptk

Agree ==
    /\ KeyFrames /\ ApKeys
    /\ sta.ptk[1] <= ap.ANonce /\ sta.tptk[1] <= ap.ANonce
    /\ sta.associated /\ ~WentBack => Settled /\ UsesConfirmed
    /\ sta.assoc < ap.assoc => \A f \in Received("4/4") : f.ptk[1] # ap.ANonce

\* The inductive invariant.
AgreeInv == OrderInv /\ Agree

\* The authenticator cannot take back that it went back.
LEMMA StillBack ==
    ASSUME net \subseteq net', ap'.ANonce = ap.ANonce, WentBack
    PROVE  WentBack'
  BY DEF WentBack, Received

\* 3/4 frames stay.
LEMMA StillNegotiated ==
    ASSUME net \subseteq net', NEW n, NEW rc, Negotiated(n, rc)
    PROVE  Negotiated(n, rc)'
  BY DEF Negotiated, Received

\* A step of the authenticator within an association.
LEMMA ApStepAgree ==
    ASSUME OrderInv, Agree, Inv', ApStep, sta' = sta
    PROVE  Agree'
<1>1. /\ net \subseteq net' /\ Rc(ap') \in {Rc(ap), Rc(ap) + 1}
      /\ \A g \in net' \ net : NewFrame(g) /\ Rc(ap') = Rc(ap) + 1
  BY SendsOne DEF ApStep
<1>2. Inv /\ net \subseteq Frames /\ net' \subseteq Frames
  BY InvTypes DEF OrderInv
<1>3. /\ \A f \in net : f.rc \in Nat /\ f.ptk[1] \in Nat
      /\ Rc(ap) \in Nat /\ ap.ANonce \in Nat /\ Rc(ap') \in Nat /\ ap'.ANonce \in Nat
      /\ sta.ptk[1] \in Nat /\ sta.tptk[1] \in Nat
  BY <1>2, InvTypes, Numbers
<1>4. \/ ap'.ANonce = ap.ANonce
      \/ /\ ap'.ANonce = ap.ANonce + 1 /\ ap'.state = "PTKSTART" /\ ~ap'.PTK_valid
         /\ net' = net \cup Msg1of4(ap')
  BY DEF ApStep
<1>5. KeyFrames /\ ApKeys /\ sta.ptk[1] <= ap.ANonce /\ sta.tptk[1] <= ap.ANonce
  BY DEF Agree
<1>6. ap'.PTK_valid => ap'.PTK[1] = ap'.ANonce
  BY DEF Inv, ApSide, ApOK
<1>7. \A f \in net' \ net : f.type # "4/4"
  BY <1>1 DEF NewFrame
<1>8. Received("4/4")' = Received("4/4")
  BY <1>1, <1>7 DEF Received
<1>9. \A g \in net' \ net : g.type = "1/4" => g.ptk = NoPTK
  <2>1. \A g \in Msg1of4(ap') : g.ptk = NoPTK
    BY DEF Msg1of4, Frame
  <2>2. /\ \A g \in Msg3of4(ap') : g.type = "3/4"
        /\ \A g \in Msg1of2(ap') : g.type = "1/2"
    BY DEF Msg3of4, Msg1of2, Frame
  <2> QED BY <2>1, <2>2 DEF ApStep, Sends
<1>10. ap'.PTK_valid => Negotiated(ap.ANonce, Rc(ap))' 
  <2> SUFFICES ASSUME ap'.PTK_valid
               PROVE  \E g \in net' : /\ g.type = "3/4" /\ g.nonce = ap'.ANonce
                                      /\ g.rc <= Rc(ap')
    BY DEF Negotiated, Received, Rc
  <2>1. CASE ap.PTK_valid
    <3>1. PICK g \in net : g.type = "3/4" /\ g.nonce = ap.ANonce /\ g.rc <= Rc(ap)
      BY <1>5, <2>1 DEF ApKeys, Negotiated, Received
    <3>2. ap'.ANonce = ap.ANonce
      BY <1>4
    <3> QED BY <1>1, <1>3, <3>1, <3>2
  <2>2. CASE ~ap.PTK_valid
    <3>1. net' = net \cup Msg3of4(ap')
      BY <2>2 DEF ApStep, PtkComesFromStation
    <3> DEFINE g == Frame("3/4", Rc(ap'), ap'.ANonce, ap'.PTK, ap'.GTK)
    <3>2. g.type = "3/4" /\ g.nonce = ap'.ANonce /\ g.rc = Rc(ap')
      BY DEF Frame
    <3>3. g \in net'
      BY <3>1 DEF Msg3of4
    <3> HIDE DEF g
    <3> QED BY <1>3, <3>2, <3>3
  <2> QED BY <2>1, <2>2
<1>11. KeyFrames'
  <2>1. ASSUME NEW f \in net'
        PROVE  f.ptk[1] <= ap'.ANonce
    <3>1. CASE f \in net
      <4>1. f.ptk[1] <= ap.ANonce
        BY <1>5, <3>1 DEF KeyFrames
      <4> QED BY <1>3, <1>4, <3>1, <4>1
    <3>2. CASE f \notin net
      <4>1. NewFrame(f)
        BY <1>1, <3>2
      <4>2. f.ptk = NoPTK \/ f.ptk[1] = ap'.ANonce
        BY <1>6, <1>9, <3>2, <4>1 DEF NewFrame
      <4> QED BY <1>3, <4>2 DEF NoPTK
    <3> QED BY <3>1, <3>2
  <2>2. \A f \in Received("3/4")' : f.nonce = f.ptk[1]
    BY <1>1, <1>5, <1>6 DEF KeyFrames, Received, NewFrame
  <2>3. ASSUME NEW f \in Received("1/2")'
        PROVE  Negotiated(f.ptk[1], f.rc)'
    <3>1. CASE f \in net
      BY <1>1, <1>5, <3>1, StillNegotiated DEF KeyFrames, Received
    <3>2. CASE f \notin net
      <4>1. NewFrame(f) /\ f.type = "1/2"
        BY <1>1, <3>2 DEF Received
      <4>2. f.ptk[1] = ap'.ANonce /\ f.rc = Rc(ap') /\ ap'.PTK_valid
        BY <1>6, <4>1 DEF NewFrame
      <4> QED BY <1>10, <4>2 DEF Negotiated, Received, Rc
    <3> QED BY <3>1, <3>2
  <2> QED BY <1>5, <1>8, <2>1, <2>2, <2>3 DEF KeyFrames
<1>12. ApKeys'
  <2>1. ASSUME ap'.state = "PTKINITDONE", ap'.PTK_valid
        PROVE  \E f \in Received("4/4") : f.ptk[1] = ap'.ANonce /\ f.ptk = ap'.drv_ptk
    <3>1. ap'.ANonce = ap.ANonce
      BY <1>4, <2>1
    <3>2. \/ /\ ap.state = "PTKINITDONE" /\ ap.PTK_valid
             /\ ap'.drv_ptk = ap.drv_ptk
          \/ \E f \in Received("4/4") : f.ptk[1] = ap.ANonce /\ ap'.drv_ptk = f.ptk
      BY <2>1 DEF ApStep, DoneWithKey
    <3> QED BY <1>5, <3>1, <3>2 DEF ApKeys
  <2> QED BY <1>8, <1>10, <2>1 DEF ApKeys
<1>13. sta.ptk[1] <= ap'.ANonce /\ sta.tptk[1] <= ap'.ANonce
  BY <1>3, <1>4, <1>5
<1>14. ASSUME sta.associated, ~WentBack'
       PROVE  Settled' /\ UsesConfirmed'
  <2>1. CASE ap'.ANonce = ap.ANonce
    <3>1. Settled /\ UsesConfirmed
      BY <1>1, <1>14, <2>1, StillBack DEF Agree
    <3>2. UsesConfirmed'
      BY <1>8, <2>1, <3>1 DEF UsesConfirmed
    <3>3. Settled'
      BY <1>1, <2>1, <3>1 DEF Settled, Negotiated, Received
    <3> QED BY <3>2, <3>3
  <2>2. CASE ap'.ANonce = ap.ANonce + 1
    <3>1. sta.ptk[1] # ap'.ANonce
      BY <1>3, <1>5, <2>2
    <3>2. \A f \in Received("4/4") : f.ptk[1] # ap'.ANonce
      BY <1>3, <1>5, <2>2 DEF KeyFrames, Received
    <3> QED BY <1>8, <3>1, <3>2 DEF Settled, UsesConfirmed
  <2> QED BY <1>4, <2>1, <2>2
<1>15. sta.assoc < ap'.assoc => \A f \in Received("4/4") : f.ptk[1] # ap'.ANonce
  <2>1. ap'.assoc = ap.assoc
    BY DEF ApStep
  <2>2. CASE ap'.ANonce = ap.ANonce
    BY <2>1, <2>2 DEF Agree
  <2>3. CASE ap'.ANonce = ap.ANonce + 1
    BY <1>3, <1>5, <2>3 DEF KeyFrames, Received
  <2> QED BY <1>4, <2>2, <2>3
<1> QED BY <1>8, <1>11, <1>12, <1>13, <1>14, <1>15 DEF Agree

\* A new association has an ANonce that nothing was made with.
LEMMA ApJoinAgree ==
    ASSUME OrderInv, Agree, Inv', ApJoin, ~sta.associated, sta' = sta
    PROVE  Agree'
<1>1. /\ net \subseteq net'
      /\ \A g \in net' \ net : g.type = "1/4" /\ g.ptk = NoPTK
  BY DEF ApJoin, Msg1of4, Frame
<1>2. /\ \A f \in net : f.ptk[1] \in Nat
      /\ ap.ANonce \in Nat /\ ap'.ANonce = ap.ANonce + 1
      /\ sta.ptk[1] \in Nat /\ sta.tptk[1] \in Nat
  BY InvTypes, Numbers DEF OrderInv, ApJoin
<1>3. /\ Received("4/4")' = Received("4/4") /\ Received("3/4")' = Received("3/4")
      /\ Received("1/2")' = Received("1/2")
  BY <1>1 DEF Received
<1>4. KeyFrames /\ sta.ptk[1] <= ap.ANonce /\ sta.tptk[1] <= ap.ANonce
  BY DEF Agree
<1>5. \A f \in net' : f.ptk[1] <= ap'.ANonce
  <2> SUFFICES ASSUME NEW f \in net' PROVE f.ptk[1] <= ap'.ANonce
    OBVIOUS
  <2>1. CASE f \in net
    BY <1>2, <1>4, <2>1 DEF KeyFrames
  <2>2. CASE f \notin net
    BY <1>1, <1>2, <2>2 DEF NoPTK
  <2> QED BY <2>1, <2>2
<1>6. KeyFrames'
  BY <1>3, <1>4, <1>5 DEF KeyFrames, Negotiated
<1>7. ApKeys'
  BY DEF ApKeys, ApJoin
<1>8. \A f \in Received("4/4") : f.ptk[1] # ap'.ANonce
  BY <1>2, <1>4 DEF KeyFrames, Received
<1>9. sta.ptk[1] <= ap'.ANonce /\ sta.tptk[1] <= ap'.ANonce
  BY <1>2, <1>4
<1> QED BY <1>3, <1>6, <1>7, <1>8, <1>9 DEF Agree

\* What a step of the station within an association has to keep.
LEMMA StaAgree ==
    ASSUME Inv, Agree, ap' = ap, net \subseteq net', sta'.assoc = sta.assoc,
           \A g \in net' \ net :
             /\ StaFrame(g) /\ g.ptk[1] <= ap.ANonce
             /\ g.type = "4/4" => g.ptk # NoPTK /\ sta.assoc = ap.assoc,
           sta'.ptk[1] <= ap.ANonce, sta'.tptk[1] <= ap.ANonce,
           sta'.associated /\ ~WentBack => Settled' /\ UsesConfirmed'
    PROVE  Agree'
<1>1. /\ Received("1/4")' = Received("1/4") /\ Received("3/4")' = Received("3/4")
      /\ Received("1/2")' = Received("1/2")
  BY DEF StaFrame, Received
<1>2. WentBack' = WentBack
  BY <1>1 DEF WentBack
<1>3. KeyFrames /\ ApKeys
  BY DEF Agree
<1>4. KeyFrames'
  <2>1. \A f \in Received("4/4")' : f.ptk # NoPTK
    BY <1>3 DEF KeyFrames, Received
  <2>2. \A f \in net' : f.ptk[1] <= ap.ANonce
    BY <1>3 DEF KeyFrames
  <2> QED BY <1>1, <1>3, <2>1, <2>2 DEF KeyFrames, Negotiated
<1>5. ApKeys'
  <2>1. Received("4/4") \subseteq Received("4/4")'
    BY DEF Received
  <2> QED BY <1>1, <1>3, <2>1 DEF ApKeys, Negotiated
<1>6. sta'.assoc < ap'.assoc => \A f \in Received("4/4")' : f.ptk[1] # ap'.ANonce
  <2> SUFFICES ASSUME sta.assoc < ap.assoc, NEW f \in Received("4/4")'
               PROVE  f.ptk[1] # ap.ANonce
    OBVIOUS
  <2>1. ap.assoc \in Nat /\ sta.assoc \in Nat
    BY InvTypes, Numbers
  <2>2. f \in Received("4/4")
    BY <2>1 DEF Received
  <2> QED BY <2>2 DEF Agree
<1> QED BY <1>2, <1>4, <1>5, <1>6 DEF Agree

\* 1/4: a station that has the PTK of the handshake is past every 1/4 of it.
LEMMA AnswersAgree ==
    ASSUME OrderInv, Agree, Inv', ap' = ap, NEW f \in net, NEW n \in Nat, Answers(f, n)
    PROVE  Agree'
<1>1. PICK b \in Int, s0 \in Nat : Order(b, s0)
  BY DEF OrderInv
<1>2. /\ \A g \in net : g.rc \in Nat /\ g.nonce \in Nat
      /\ sta.rx_replay_counter \in Nat /\ ap.ANonce \in Nat
  BY InvTypes, Numbers DEF OrderInv
<1>3. f.nonce <= ap.ANonce
  <2>1. f \in ApMade /\ ANonceOf(f) = f.nonce
    BY DEF Answers, Received, ApMade, ANonceOf
  <2> QED BY <1>1, <2>1 DEF Order, FramesOK
<1>4. /\ net \subseteq net'
      /\ \A g \in net' \ net : StaFrame(g) /\ g.type # "4/4" /\ g.ptk = <<f.nonce, n>>
  <2>1. net' = net \cup Msg2of4(f, n)
    BY DEF Answers
  <2> QED BY <2>1, StaMade DEF StaFrame
<1>5. sta'.ptk[1] <= ap.ANonce /\ sta'.tptk[1] <= ap.ANonce
  BY <1>3 DEF Answers, Agree
<1>6. ASSUME ~WentBack PROVE Settled' /\ UsesConfirmed'
  <2>1. Settled /\ UsesConfirmed
    BY <1>6 DEF Agree, Answers
  <2>2. UsesConfirmed'
    BY <1>4, <2>1 DEF UsesConfirmed, Received, Answers
  <2>3. ASSUME sta.ptk # NoPTK, sta.ptk[1] = ap.ANonce
        PROVE  /\ Negotiated(ap.ANonce, sta.rx_replay_counter)
               /\ sta'.tptk = NoPTK \/ sta'.tptk[1] # ap.ANonce
    <3>1. PICK g \in Received("3/4") :
             g.nonce = ap.ANonce /\ g.rc <= sta.rx_replay_counter
      BY <2>1, <2>3 DEF Settled, Negotiated
    <3>2. g.rc < f.rc
      BY <1>2, <3>1 DEF Answers, Received
    <3>3. f.nonce # ap.ANonce
      BY <1>6, <3>1, <3>2 DEF WentBack, Answers
    <3> QED BY <2>1, <2>3, <3>3 DEF Answers, Settled
  <2>4. Settled'
    BY <1>4, <2>3 DEF Settled, Answers, Negotiated, Received
  <2> QED BY <2>2, <2>4
<1>7. sta'.assoc = sta.assoc /\ Inv
  BY DEF Answers, OrderInv
<1>8. \A g \in net' \ net : g.ptk[1] <= ap.ANonce
  BY <1>3, <1>4
<1> QED BY <1>4, <1>5, <1>6, <1>7, <1>8, StaAgree

\* A frame made with the temporary PTK of an earlier handshake does not follow
\* 3/4 of the current one.
LEMMA NoOlderFrame ==
    ASSUME OrderInv, Agree, NEW f \in net, Takes(f), f.ptk[1] # ap.ANonce,
           Negotiated(ap.ANonce, sta.rx_replay_counter)
    PROVE  FALSE
<1>1. PICK b \in Int, s0 \in Nat : Order(b, s0)
  BY DEF OrderInv
<1>2. PICK g \in Received("3/4") :
         g.nonce = ap.ANonce /\ g.rc <= sta.rx_replay_counter
  BY DEF Negotiated
<1>3. /\ \A h \in net : h.rc \in Nat /\ h.ptk[1] \in Nat /\ ANonceOf(h) \in Nat
      /\ sta.rx_replay_counter \in Nat /\ ap.ANonce \in Nat
  BY InvTypes, Numbers DEF OrderInv
<1>4. g \in net /\ g.type = "3/4" /\ g.ptk[1] = ap.ANonce
  BY <1>2 DEF Received, Agree, KeyFrames
<1>5. b < ap.ANonce /\ FramesOK(b, s0)
  BY <1>1 DEF Order
<1>6. ANonceOf(g) = ap.ANonce /\ g \in Current(b)
  BY <1>4, <1>5 DEF ANonceOf, Current, ApMade
<1>7. f \in Current(b)
  BY <1>1, TakesCurrent DEF OrderInv
<1>8. ANonceOf(f) < ap.ANonce
  <2>1. ANonceOf(f) = f.ptk[1]
    BY DEF Takes, Received, ANonceOf
  <2>2. f.ptk[1] <= ap.ANonce
    BY DEF Agree, KeyFrames
  <2> QED BY <1>3, <2>1, <2>2
<1>9. f.rc < g.rc
  BY <1>5, <1>6, <1>7, <1>8 DEF FramesOK
<1>10. f.rc > sta.rx_replay_counter
  BY DEF Takes
<1> QED BY <1>2, <1>3, <1>4, <1>9, <1>10

\* 3/4 or 1/2 is taken.
LEMMA StaysAgree ==
    ASSUME OrderInv, Agree, Inv', ap' = ap, NEW f \in net, Takes(f), Stays(f)
    PROVE  Agree'
<1>1. sta.associated /\ sta.assoc = ap.assoc
  BY DEF OrderInv, Order, StationOK, Takes
<1>2. /\ net \subseteq net'
      /\ \A g \in net' \ net :
           /\ StaFrame(g) /\ g.ptk = f.ptk
           /\ g.type = "4/4" => sta'.installed = TRUE
  <2>1. \/ net' = net \cup Msg4of4(f, f.ptk) /\ sta'.installed = TRUE
        \/ net' = net \cup Msg2of2(f, f.ptk)
    BY DEF Stays
  <2> QED BY <2>1, StaMade DEF StaFrame
<1>3. f.ptk # NoPTK /\ f.ptk[1] <= ap.ANonce /\ f.ptk \in {sta.tptk, sta.ptk}
  BY DEF Takes, Agree, KeyFrames
<1>4. sta'.ptk = f.ptk /\ sta'.tptk[1] <= ap.ANonce
  <2>1. NoPTK[1] <= ap.ANonce /\ sta.tptk[1] <= ap.ANonce
    BY InvTypes, Numbers DEF NoPTK, Agree, OrderInv
  <2> QED BY <2>1 DEF Stays
<1>5. ASSUME ~WentBack PROVE Settled' /\ UsesConfirmed'
  <2>1. Settled /\ UsesConfirmed /\ KeyFrames
    BY <1>1, <1>5 DEF Agree
  <2>2. Settled'
    <3> SUFFICES ASSUME f.ptk[1] = ap.ANonce
                 PROVE  /\ Negotiated(ap.ANonce, f.rc)
                        /\ sta'.tptk = NoPTK \/ sta'.tptk[1] # ap.ANonce
      BY <1>2, <1>4 DEF Settled, Stays, Negotiated, Received
    <3>1. Negotiated(ap.ANonce, f.rc)
      <4>1. f.rc <= f.rc
        BY InvTypes, Numbers DEF OrderInv
      <4>2. f \in Received("3/4") \/ f \in Received("1/2")
        BY DEF Takes
      <4> QED BY <2>1, <4>1, <4>2 DEF KeyFrames, Negotiated
    <3>2. CASE f.ptk = sta.tptk
      BY <3>1, <3>2 DEF Stays
    <3>3. CASE f.ptk # sta.tptk
      BY <1>3, <2>1, <3>1, <3>3 DEF Settled, Stays
    <3> QED BY <3>1, <3>2, <3>3
  <2>3. UsesConfirmed'
    <3> SUFFICES ASSUME NEW g \in Received("4/4")', g.ptk[1] = ap.ANonce
                 PROVE  sta'.installed /\ f.ptk = g.ptk
      BY <1>4 DEF UsesConfirmed
    <3>1. CASE g \notin net
      BY <1>2, <3>1 DEF Received
    <3>2. CASE g \in net
      <4>1. g \in Received("4/4") /\ g.ptk # NoPTK
        BY <2>1, <3>2 DEF Received, KeyFrames
      <4>2. sta.installed /\ sta.ptk = g.ptk
        BY <2>1, <4>1 DEF UsesConfirmed
      <4>3. f.ptk # sta.tptk
        <5> SUFFICES ASSUME f.ptk = sta.tptk PROVE FALSE
          OBVIOUS
        <5>1. f.ptk[1] # ap.ANonce /\ Negotiated(ap.ANonce, sta.rx_replay_counter)
          BY <1>3, <2>1, <4>1, <4>2 DEF Settled
        <5> QED BY <5>1, NoOlderFrame
      <4> QED BY <1>3, <4>2, <4>3 DEF Stays, InUse
    <3> QED BY <3>1, <3>2
  <2> QED BY <2>2, <2>3
<1>6. sta'.assoc = sta.assoc /\ Inv
  BY DEF Takes, Context, OrderInv
<1>7. \A g \in net' \ net :
        /\ StaFrame(g) /\ g.ptk[1] <= ap.ANonce
        /\ g.type = "4/4" => g.ptk # NoPTK /\ sta.assoc = ap.assoc
  BY <1>1, <1>2, <1>3
<1> QED BY <1>2, <1>3, <1>4, <1>5, <1>6, <1>7, StaAgree

\* Every step of the station within an association.
LEMMA StaStepAgree ==
    ASSUME OrderInv, Agree, Inv', ap' = ap, StaStep
    PROVE  Agree'
<1>1. ASSUME NEW f \in net, NEW n \in Nat, Answers(f, n)
      PROVE  Agree'
  BY <1>1, AnswersAgree
<1>2. ASSUME NEW f \in net, Takes(f), Stays(f)
      PROVE  Agree'
  BY <1>2, StaysAgree
<1>3. Inv /\ NoPTK[1] <= ap.ANonce
  BY InvTypes, Numbers DEF NoPTK, OrderInv
<1>4. ASSUME NEW f \in net, Takes(f), GivesUpAt(f)
      PROVE  Agree'
  <2>1. f.ptk # NoPTK /\ f.ptk[1] <= ap.ANonce /\ sta.assoc = ap.assoc
    BY <1>4 DEF Takes, Agree, KeyFrames, OrderInv, Order, StationOK
  <2>2. net \subseteq net' /\ \A g \in net' \ net : StaFrame(g) /\ g.ptk = f.ptk
    <3>1. net' = net \/ net' = net \cup Msg4of4(f, f.ptk)
      BY <1>4 DEF GivesUpAt
    <3> QED BY <3>1, StaMade DEF StaFrame
  <2>3. GivesUp /\ sta'.assoc = sta.assoc
    BY <1>4 DEF GivesUpAt, Takes, Context
  <2>4. sta'.ptk[1] <= ap.ANonce /\ sta'.tptk[1] <= ap.ANonce /\ ~sta'.associated
    BY <1>3, <2>3 DEF GivesUp
  <2> QED BY <1>3, <2>1, <2>2, <2>3, <2>4, StaAgree
<1>5. CASE Leaves
  <2>1. /\ sta'.ptk[1] <= ap.ANonce /\ sta'.tptk[1] <= ap.ANonce /\ ~sta'.associated
        /\ net' = net /\ sta'.assoc = sta.assoc
    BY <1>3, <1>5 DEF Leaves, GivesUp, Context
  <2> QED BY <1>3, <2>1, StaAgree
<1>6. CASE Asks
  <2>1. /\ net \subseteq net'
        /\ \A g \in net' \ net : /\ g.type \in {"request", "gtk request"}
                                 /\ g.ptk = sta.ptk
    <3>1. PICK t \in {"request", "gtk request"} :
             net' = net \cup {Frame(t, sta.request_counter, 0, sta.ptk, 0)}
      BY <1>6 DEF Asks
    <3> DEFINE r == Frame(t, sta.request_counter, 0, sta.ptk, 0)
    <3>2. r.type = t /\ r.ptk = sta.ptk /\ net' = net \cup {r}
      BY <3>1 DEF Frame
    <3> HIDE DEF r
    <3> QED BY <3>2
  <2>2. sta.ptk[1] <= ap.ANonce /\ sta.tptk[1] <= ap.ANonce
    BY DEF Agree
  <2>3. /\ sta'.ptk = sta.ptk /\ sta'.tptk = sta.tptk /\ sta'.installed = sta.installed
        /\ sta'.associated = sta.associated /\ sta'.assoc = sta.assoc
        /\ sta'.rx_replay_counter = sta.rx_replay_counter
    BY <1>6 DEF Asks, SamePtks, Context
  <2>4. \A g \in net' \ net : StaFrame(g) /\ g.type # "4/4" /\ g.ptk[1] <= ap.ANonce
    BY <2>1, <2>2 DEF StaFrame
  <2>5. ASSUME sta.associated, ~WentBack PROVE Settled' /\ UsesConfirmed'
    <3>1. Settled /\ UsesConfirmed
      BY <2>5 DEF Agree
    <3> QED BY <2>1, <2>3, <3>1 DEF Settled, UsesConfirmed, Negotiated, Received
  <2> QED BY <1>3, <2>1, <2>2, <2>3, <2>4, <2>5, StaAgree
<1> QED BY <1>1, <1>2, <1>4, <1>5, <1>6 DEF StaStep

\* The station hears of a new association: it has confirmed nothing in it.
LEMMA StaJoinAgree ==
    ASSUME OrderInv, Agree, Inv', ap' = ap, StaJoin
    PROVE  Agree'
<1>1. NoPTK[1] <= ap.ANonce /\ ap.assoc \in Nat
  BY InvTypes, Numbers DEF NoPTK, OrderInv
<1>2. \A f \in Received("4/4") : f.ptk[1] # ap.ANonce
  BY DEF Agree, StaJoin
<1>3. /\ sta'.ptk = NoPTK /\ sta'.tptk = NoPTK /\ net' = net
      /\ sta'.assoc = ap.assoc
  BY DEF StaJoin
<1>4. Settled' /\ UsesConfirmed'
  BY <1>2, <1>3 DEF Settled, UsesConfirmed, Received
<1>5. KeyFrames' /\ ApKeys'
  BY <1>3 DEF Agree, KeyFrames, ApKeys, Negotiated, Received
<1>6. ~(ap.assoc < ap.assoc)
  BY <1>1
<1> QED BY <1>1, <1>3, <1>4, <1>5, <1>6 DEF Agree

\* The initial state.
LEMMA InitAgree == Init => AgreeInv
<1> SUFFICES ASSUME Init PROVE AgreeInv
  OBVIOUS
<1>1. OrderInv
  BY InitOrder
<1>2. PICK conf \in RetryConfigs : ap = NewAp(0, 0, 1, conf, << >>)
  BY DEF Init, ApInit
<1>3. PICK policy \in SNoncePolicies : sta = NewSta(policy)
  BY DEF Init, StaInit
<1>4. ap.ANonce = 0 /\ ap.PTK_valid = FALSE
  BY <1>2 DEF NewAp
<1>5. sta.associated = FALSE /\ sta.ptk = NoPTK /\ sta.tptk = NoPTK
  BY <1>3 DEF NewSta
<1>6. net = {}
  BY DEF Init
<1>7. KeyFrames /\ ApKeys
  BY <1>4, <1>6 DEF KeyFrames, ApKeys, Received
<1> QED BY <1>1, <1>4, <1>5, <1>6, <1>7 DEF AgreeInv, Agree, NoPTK, Received

\* Every step keeps the agreement.
LEMMA NextAgree == AgreeInv /\ [Next]_vars => AgreeInv'
<1> SUFFICES ASSUME AgreeInv, [Next]_vars PROVE AgreeInv'
  OBVIOUS
<1>1. OrderInv /\ Agree /\ Inv /\ OrderInv' /\ Inv'
  BY NextOrder, Steps DEF AgreeInv, OrderInv
<1>2. CASE ApStep /\ sta' = sta
  BY <1>1, <1>2, ApStepAgree DEF AgreeInv
<1>3. CASE ApJoin /\ ~sta.associated /\ sta' = sta
  BY <1>1, <1>3, ApJoinAgree DEF AgreeInv
<1>4. CASE StaStep /\ ap' = ap
  BY <1>1, <1>4, StaStepAgree DEF AgreeInv
<1>5. CASE StaJoin /\ ap' = ap
  BY <1>1, <1>5, StaJoinAgree DEF AgreeInv
<1>6. CASE ap' = ap /\ sta' = sta /\ net' = net
  <2>1. Agree'
    BY <1>1, <1>6 DEF Agree, KeyFrames, ApKeys, Settled, UsesConfirmed, Negotiated,
                      Received, WentBack, Rc
  <2> QED BY <1>1, <2>1 DEF AgreeInv
<1> QED BY <1>1, <1>2, <1>3, <1>4, <1>5, <1>6, Steps

\* When the authenticator has finished a handshake without going back to 1/4, the
\* supplicant of the same association has installed the PTK that the
\* authenticator gave to its driver.
THEOREM SameKey == Spec => []KeyAgreement
<1>1. AgreeInv => KeyAgreement
  <2> SUFFICES ASSUME AgreeInv, ap.state = "PTKINITDONE", ap.PTK_valid,
                      SameAssociation, ~WentBack
               PROVE  sta.installed /\ sta.ptk = ap.drv_ptk
    BY DEF KeyAgreement
  <2>1. PICK f \in Received("4/4") : f.ptk[1] = ap.ANonce /\ f.ptk = ap.drv_ptk
    BY DEF AgreeInv, Agree, ApKeys
  <2> QED BY <2>1 DEF AgreeInv, Agree, UsesConfirmed, SameAssociation
<1> QED BY <1>1, InitAgree, NextAgree, PTL DEF Spec

(***************************************************************************)
(* The refinement of PairwiseKeys.                                         *)
(***************************************************************************)

\* Every PTK confirmed so far was made from an SNonce below n.
ConfirmedBelow(n) == \A f \in Received("4/4") : f.ptk[2] < n

\* A PTK that the station may still confirm for the first time has an SNonce
\* above those of all PTKs it confirmed; what either driver has was confirmed.
RefOK ==
    /\ ~sta.renew_snonce => ConfirmedBelow(sta.snonce)
    /\ sta.tptk # NoPTK => ConfirmedBelow(sta.tptk[2])
    /\ sta.ptk # NoPTK /\ ~sta.installed => ConfirmedBelow(sta.ptk[2])
    /\ sta.installed => \E f \in Received("4/4") : f.ptk = sta.ptk
    /\ \A i \in DOMAIN ap.installs : \E f \in Received("4/4") : f.ptk = ap.installs[i]
    /\ ~sta.associated => ~sta.installed

\* The inductive invariant.
RefInv == AgreeInv /\ RefOK

\* The frame f with a MIC is made with the temporary PTK, or with the PTK.
LEMMA TakenPtk ==
    ASSUME Inv, RefOK, NEW f \in net, Takes(f)
    PROVE  /\ sta.tptk # NoPTK /\ f.ptk # sta.tptk => f.ptk[2] < sta.tptk[2]
           /\ ~sta.renew_snonce /\ f.ptk # sta.tptk => f.ptk[2] < sta.snonce
           /\ ~InUse(f) => /\ ConfirmedBelow(f.ptk[2])
                           /\ AllBelow(sta.installs, 2, f.ptk[2])
           /\ InUse(f) => f.ptk = sta.ptk
<1>1. f.ptk # NoPTK /\ f.ptk \in {sta.tptk, sta.ptk}
  BY DEF Takes
<1>2. StaOK(sta)
  BY DEF Inv, StaSide
<1>3. CASE f.ptk = sta.tptk
  BY <1>1, <1>2, <1>3 DEF StaOK, Below, RefOK, InUse
<1>4. CASE f.ptk # sta.tptk
  BY <1>1, <1>2, <1>4 DEF StaOK, Below, RefOK, InUse
<1> QED BY <1>3, <1>4

\* A step of the authenticator.
LEMMA ApRef ==
    ASSUME Inv, RefOK, sta' = sta, Received("4/4")' = Received("4/4"),
           \/ ap'.installs = ap.installs
           \/ \E f \in Received("4/4") : ap'.installs = Append(ap.installs, f.ptk)
    PROVE  RefOK'
<1>1. ap.installs \in Seq(PTKs)
  BY InvTypes DEF ApType
<1>2. \A i \in DOMAIN ap'.installs :
        \E f \in Received("4/4") : f.ptk = ap'.installs[i]
  <2>1. CASE ap'.installs = ap.installs
    BY <2>1 DEF RefOK
  <2>2. CASE \E f \in Received("4/4") : ap'.installs = Append(ap.installs, f.ptk)
    <3>1. PICK f \in Received("4/4") : ap'.installs = Append(ap.installs, f.ptk)
      BY <2>2
    <3>2. ASSUME NEW i \in DOMAIN ap'.installs
          PROVE  \/ i \in DOMAIN ap.installs /\ ap'.installs[i] = ap.installs[i]
                 \/ ap'.installs[i] = f.ptk
      BY <1>1, <3>1, <3>2
    <3> QED BY <3>2 DEF RefOK
  <2> QED BY <2>1, <2>2
<1> QED BY <1>2 DEF RefOK, ConfirmedBelow

\* 1/4: the SNonce of 2/4 is above those of all confirmed PTKs.
LEMMA AnswersRef ==
    ASSUME Inv, SNonces, RefOK, ap' = ap, NEW f \in net, NEW n \in Nat, Answers(f, n)
    PROVE  RefOK'
<1>1. Received("4/4")' = Received("4/4")
  <2>1. net' = net \cup Msg2of4(f, n)
    BY DEF Answers
  <2> QED BY <2>1, StaMade DEF Received
<1>2. ConfirmedBelow(n)
  <2> SUFFICES ASSUME NEW g \in Received("4/4") PROVE g.ptk[2] < n
    BY DEF ConfirmedBelow
  <2>1. g.ptk[2] \in Nat /\ sta.snonce \in Nat
    BY InvTypes, Numbers DEF Received
  <2>2. g.ptk[2] <= sta.snonce
    BY DEF SNonces, Received
  <2>3. ~sta.renew_snonce => g.ptk[2] < sta.snonce
    BY DEF RefOK, ConfirmedBelow
  <2>4. n = sta.snonce + 1 \/ (n = sta.snonce /\ ~sta.renew_snonce)
    BY DEF Answers
  <2> QED BY <2>1, <2>2, <2>3, <2>4
<1>3. sta'.tptk # NoPTK => ConfirmedBelow(sta'.tptk[2])
  BY <1>2 DEF Answers, RefOK
<1> QED BY <1>1, <1>2, <1>3 DEF RefOK, ConfirmedBelow, Answers

\* 3/4 or 1/2 is taken.
LEMMA TakesRef ==
    ASSUME Inv, RefOK, ap' = ap, NEW f \in net, Takes(f), Stays(f) \/ GivesUpAt(f)
    PROVE  RefOK'
<1> DEFINE C == Received("4/4")
<1>1. \/ /\ f.type = "1/2" \/ GivesUp
         /\ Received("4/4")' = C
      \/ /\ f.type = "3/4"
         /\ C \subseteq Received("4/4")'
         /\ \A g \in Received("4/4")' : g \in C \/ g.ptk = f.ptk
         /\ \E g \in Received("4/4")' : g.ptk = f.ptk
  <2>1. \/ net' = net \cup Msg4of4(f, f.ptk) /\ f.type = "3/4"
        \/ net' = net \cup Msg2of2(f, f.ptk) /\ f.type = "1/2"
        \/ net' = net /\ GivesUp
    BY DEF Stays, GivesUpAt
  <2>2. CASE net' = net \cup Msg4of4(f, f.ptk) /\ f.type = "3/4"
    <3>1. \A g \in Received("4/4")' : g \in C \/ g.ptk = f.ptk
      BY <2>2, StaMade DEF Received
    <3>2. \E g \in Msg4of4(f, f.ptk) : TRUE
      BY DEF Msg4of4
    <3>3. \E g \in Received("4/4")' : g.ptk = f.ptk
      BY <2>2, <3>2, StaMade DEF Received
    <3> QED BY <2>2, <3>1, <3>3 DEF Received
  <2>3. CASE net' = net \cup Msg2of2(f, f.ptk) /\ f.type = "1/2"
    BY <2>3, StaMade DEF Received
  <2>4. CASE net' = net /\ GivesUp
    BY <2>4 DEF Received
  <2> QED BY <2>1, <2>2, <2>3, <2>4
<1>2. \A g \in Received("4/4")' : g \in C \/ g.ptk = f.ptk
  BY <1>1
<1>3. C \subseteq Received("4/4")'
  BY <1>1
<1>4. ~sta'.renew_snonce => ConfirmedBelow(sta.snonce)'
  <2> SUFFICES ASSUME ~sta'.renew_snonce
               PROVE  \A g \in Received("4/4")' : g.ptk[2] < sta.snonce
    BY DEF ConfirmedBelow, Takes, Context
  <2>1. ~sta.renew_snonce /\ f.ptk # sta.tptk
    BY DEF Takes
  <2>2. f.ptk[2] < sta.snonce /\ \A g \in C : g.ptk[2] < sta.snonce
    BY <2>1, TakenPtk DEF RefOK, ConfirmedBelow
  <2> QED BY <1>2, <2>2
<1>5. sta'.snonce = sta.snonce
  BY DEF Takes, Context
<1>6. \A i \in DOMAIN ap.installs :
        \E g \in Received("4/4")' : g.ptk = ap.installs[i]
  BY <1>3 DEF RefOK
<1>7. CASE GivesUp
  BY <1>4, <1>6, <1>7 DEF RefOK, GivesUp
<1>8. CASE Stays(f)
  <2>1. sta'.associated /\ sta'.ptk = f.ptk /\ f.ptk \in {sta.tptk, sta.ptk}
    BY <1>8 DEF Stays, Takes
  <2>2. ASSUME sta'.tptk # NoPTK
        PROVE  \A g \in Received("4/4")' : g.ptk[2] < sta'.tptk[2]
    <3>1. f.ptk # sta.tptk /\ sta'.tptk = sta.tptk
      BY <1>8, <2>2 DEF Stays
    <3>2. f.ptk[2] < sta.tptk[2] /\ \A g \in C : g.ptk[2] < sta.tptk[2]
      BY <2>2, <3>1, TakenPtk DEF RefOK, ConfirmedBelow
    <3> QED BY <1>2, <3>1, <3>2
  <2>3. CASE f.type = "3/4"
    <3>1. sta'.installed
      BY <1>8, <2>3 DEF Stays
    <3>2. \E g \in Received("4/4")' : g.ptk = f.ptk
      <4>1. net' = net \cup Msg4of4(f, f.ptk)
        BY <1>8, <2>3 DEF Stays
      <4>2. \E g \in Msg4of4(f, f.ptk) : TRUE
        BY DEF Msg4of4
      <4> QED BY <4>1, <4>2, StaMade DEF Received
    <3> QED BY <1>4, <1>6, <2>1, <2>2, <3>1, <3>2 DEF RefOK, ConfirmedBelow
  <2>4. CASE f.type = "1/2"
    <3>1. Received("4/4")' = C
      <4>1. net' = net \cup Msg2of2(f, f.ptk)
        BY <1>8, <2>4 DEF Stays
      <4> QED BY <4>1, StaMade DEF Received
    <3>2. sta'.installed = InUse(f)
      BY <1>8, <2>4 DEF Stays
    <3>3. ~InUse(f) => ConfirmedBelow(f.ptk[2])
      BY TakenPtk
    <3>4. InUse(f) => \E g \in C : g.ptk = f.ptk
      BY TakenPtk DEF RefOK, InUse
    <3> QED BY <1>4, <1>6, <2>1, <2>2, <3>1, <3>2, <3>3, <3>4
            DEF RefOK, ConfirmedBelow
  <2> QED BY <1>8, <2>3, <2>4 DEF Stays
<1> QED BY <1>7, <1>8 DEF GivesUpAt

\* Every other step of the station.
LEMMA OtherRef ==
    ASSUME Inv, RefOK, ap' = ap, Leaves \/ Asks \/ StaJoin
    PROVE  RefOK'
<1>1. CASE Leaves
  BY <1>1 DEF RefOK, ConfirmedBelow, Received, Leaves, GivesUp, Context
<1>2. CASE Asks
  <2>1. Received("4/4")' = Received("4/4")
    <3>1. PICK t \in {"request", "gtk request"} :
             net' = net \cup {Frame(t, sta.request_counter, 0, sta.ptk, 0)}
      BY <1>2 DEF Asks
    <3> DEFINE r == Frame(t, sta.request_counter, 0, sta.ptk, 0)
    <3>2. r.type = t /\ net' = net \cup {r}
      BY <3>1 DEF Frame
    <3> HIDE DEF r
    <3> QED BY <3>2 DEF Received
  <2> QED BY <1>2, <2>1 DEF RefOK, ConfirmedBelow, Asks, SamePtks, Context
<1>3. CASE StaJoin
  BY <1>3 DEF RefOK, ConfirmedBelow, Received, StaJoin
<1> QED BY <1>1, <1>2, <1>3

\* Initially nothing is confirmed.
LEMMA InitRef == Init => RefInv
<1> SUFFICES ASSUME Init PROVE RefInv
  OBVIOUS
<1>1. AgreeInv
  BY InitAgree
<1>2. PICK conf \in RetryConfigs : ap = NewAp(0, 0, 1, conf, << >>)
  BY DEF Init, ApInit
<1>3. PICK policy \in SNoncePolicies : sta = NewSta(policy)
  BY DEF Init, StaInit
<1>4. ap.installs = << >> /\ net = {}
  BY <1>2 DEF NewAp, Init
<1>5. /\ sta.renew_snonce = TRUE /\ sta.tptk = NoPTK /\ sta.ptk = NoPTK
      /\ sta.installed = FALSE
  BY <1>3 DEF NewSta
<1> QED BY <1>1, <1>4, <1>5 DEF RefInv, RefOK

\* Authenticators send no 4/4.
LEMMA ApSends ==
    ASSUME Inv', ApStep \/ ApJoin
    PROVE  Received("4/4")' = Received("4/4")
<1>1. CASE ApStep
  <2>1. net \subseteq net' /\ \A g \in net' \ net : NewFrame(g)
    BY <1>1, SendsOne DEF ApStep
  <2> QED BY <2>1 DEF NewFrame, Received
<1>2. CASE ApJoin
  BY <1>2 DEF ApJoin, Msg1of4, Frame, Received
<1> QED BY <1>1, <1>2

\* Every step keeps the invariant.
LEMMA NextRef == RefInv /\ [Next]_vars => RefInv'
<1> SUFFICES ASSUME RefInv, [Next]_vars PROVE RefInv'
  OBVIOUS
<1>1. Inv /\ SNonces /\ RefOK
  BY DEF RefInv, AgreeInv, OrderInv, Order
<1>2. AgreeInv' /\ Inv'
  BY NextAgree, Steps, <1>1 DEF RefInv
<1>3. CASE ApStep /\ sta' = sta
  <2>1. Received("4/4")' = Received("4/4")
    BY <1>2, <1>3, ApSends
  <2>2. \/ ap'.installs = ap.installs
        \/ \E f \in Received("4/4") : ap'.installs = Append(ap.installs, f.ptk)
    BY <1>3 DEF ApStep, InstallsConfirmed
  <2> QED BY <1>1, <1>2, <1>3, <2>1, <2>2, ApRef DEF RefInv
<1>4. CASE ApJoin /\ sta' = sta
  <2>1. Received("4/4")' = Received("4/4") /\ ap'.installs = ap.installs
    BY <1>2, <1>4, ApSends DEF ApJoin
  <2> QED BY <1>1, <1>2, <1>4, <2>1, ApRef DEF RefInv
<1>5. CASE StaStep /\ ap' = ap
  BY <1>1, <1>2, <1>5, AnswersRef, TakesRef, OtherRef DEF RefInv, StaStep
<1>6. CASE StaJoin /\ ap' = ap
  BY <1>1, <1>2, <1>6, OtherRef DEF RefInv
<1>7. CASE ap' = ap /\ sta' = sta /\ net' = net
  BY <1>1, <1>2, <1>7 DEF RefInv, RefOK, ConfirmedBelow, Received
<1> QED BY <1>1, <1>3, <1>4, <1>5, <1>6, <1>7, Steps

\* The variables of PairwiseKeys.
Confirmed == {f.ptk : f \in Received("4/4")}
StaKey == IF sta.installed THEN sta.ptk ELSE NoPTK

\* PTKs from smaller nonces are other PTKs.
LEMMA NotIn ==
    ASSUME NEW p \in PTKs, NEW s \in Seq(PTKs), NEW k \in {1, 2}, AllBelow(s, k, p[k])
    PROVE  ~Keys!In(p, s)
<1>1. p[k] \in Nat
  BY DEF PTKs
<1> QED BY <1>1 DEF Keys!In, AllBelow

\* A step of the authenticator gives its driver a confirmed PTK, or removes one.
LEMMA ApStepPairwise ==
    ASSUME RefInv, Inv', ApStep, sta' = sta, ~WentBack
    PROVE  Keys!Next \/ UNCHANGED Keys!vars
<1>1. Confirmed' = Confirmed
  BY ApSends DEF Confirmed
<1>2. StaKey' = StaKey /\ sta'.installs = sta.installs
  BY DEF StaKey
<1>3. CASE ap'.installs = ap.installs /\ ap'.drv_ptk = ap.drv_ptk
  BY <1>1, <1>2, <1>3 DEF Keys!vars, Confirmed, StaKey
<1>4. CASE ap'.installs = ap.installs /\ ap'.drv_ptk = NoPTK
  BY <1>1, <1>2, <1>4 DEF Keys!Next, Keys!ApForgets, Confirmed, StaKey
<1>5. ASSUME Running(ap), NEW f \in Received("4/4"), f.ptk[1] = ap.ANonce,
             ap'.drv_ptk = f.ptk, ap'.installs = Append(ap.installs, f.ptk)
      PROVE  Keys!Next
  <2>1. f.ptk \in PTKs /\ ap.installs \in Seq(PTKs)
    BY InvTypes, FrameNumbers DEF RefInv, AgreeInv, OrderInv, ApType, Received
  <2>2. AllBelow(ap.installs, 1, f.ptk[1])
    BY <1>5 DEF RefInv, AgreeInv, OrderInv, Inv, ApSide, ApOK
  <2>3. ~Keys!In(f.ptk, ap.installs)
    BY <2>1, <2>2, NotIn
  <2>4. StaKey \in {f.ptk, NoPTK}
    <3>1. CASE sta.associated
      BY <1>5, <3>1 DEF RefInv, AgreeInv, Agree, UsesConfirmed, StaKey
    <3>2. CASE ~sta.associated
      BY <3>2 DEF RefInv, RefOK, StaKey
    <3> QED BY <3>1, <3>2
  <2>5. f.ptk \in Confirmed
    BY DEF Confirmed
  <2>6. Keys!Install(f.ptk)
    BY <1>1, <1>2, <1>5, <2>3, <2>4, <2>5 DEF Keys!Install, Confirmed, StaKey
  <2> QED BY <1>1, <2>5, <2>6 DEF Keys!Next, Confirmed
<1> QED BY <1>3, <1>4, <1>5 DEF ApStep, InstallsConfirmed

\* A 3/4 that is answered confirms a PTK for the first time, or changes nothing.
LEMMA Msg4Pairwise ==
    ASSUME RefInv, ap' = ap, NEW f \in net, Takes(f), net' = net \cup Msg4of4(f, f.ptk),
           \/ PtkGiven(f) /\ StaKey' = f.ptk
           \/ GivesUp /\ (PtkGiven(f) \/ (~InUse(f) /\ sta'.installs = sta.installs))
    PROVE  Keys!Next \/ UNCHANGED Keys!vars
<1>1. Inv /\ RefOK /\ f.ptk # NoPTK
  BY DEF RefInv, AgreeInv, OrderInv, Takes
<1>2. f.ptk \in PTKs /\ sta.installs \in Seq(PTKs) /\ ap.installs \in Seq(PTKs)
  BY <1>1, InvTypes, FrameNumbers DEF ApType, StaType
<1>3. Confirmed' = Confirmed \cup {f.ptk}
  <2>1. \A g \in Received("4/4")' : g \in Received("4/4") \/ g.ptk = f.ptk
    BY StaMade DEF Received
  <2>2. PICK g \in Msg4of4(f, f.ptk) : TRUE
    BY DEF Msg4of4
  <2>3. g \in Received("4/4")' /\ g.ptk = f.ptk
    BY StaMade DEF Received
  <2>4. Received("4/4") \subseteq Received("4/4")'
    BY DEF Received
  <2> QED BY <2>1, <2>3, <2>4 DEF Confirmed
<1>4. GivesUp => StaKey' = NoPTK
  BY DEF GivesUp, StaKey
<1>5. CASE InUse(f)
  <2>1. f.ptk = sta.ptk /\ StaKey = f.ptk
    BY <1>1, <1>5, TakenPtk DEF InUse, StaKey
  <2>2. Confirmed' = Confirmed
    <3>1. f.ptk \in Confirmed
      BY <1>1, <1>5, <2>1 DEF RefOK, InUse, Confirmed
    <3> QED BY <1>3, <3>1
  <2>3. sta'.installs = sta.installs
    BY <1>5 DEF PtkGiven
  <2>4. CASE StaKey' = f.ptk
    BY <2>1, <2>2, <2>3, <2>4 DEF Keys!vars, Confirmed, StaKey
  <2>5. CASE StaKey' = NoPTK
    BY <2>2, <2>3, <2>5 DEF Keys!Next, Keys!StaForgets, Confirmed, StaKey
  <2> QED BY <1>4, <2>4, <2>5
<1>6. CASE ~InUse(f)
  <2>1. ConfirmedBelow(f.ptk[2]) /\ AllBelow(sta.installs, 2, f.ptk[2])
    BY <1>1, <1>6, TakenPtk
  <2>2. f.ptk \notin Confirmed
    <3>1. f.ptk[2] \in Nat
      BY <1>2 DEF PTKs
    <3> QED BY <2>1, <3>1 DEF ConfirmedBelow, Confirmed
  <2>3. ~Keys!In(f.ptk, sta.installs)
    BY <1>2, <2>1, NotIn
  <2>4. ~Keys!In(f.ptk, ap.installs)
    BY <1>1, <2>2 DEF Keys!In, RefOK, Confirmed
  <2>5. \/ StaKey' \in {f.ptk, NoPTK} /\ sta'.installs = Append(sta.installs, f.ptk)
        \/ StaKey' = NoPTK /\ sta'.installs = sta.installs
    BY <1>4, <1>6 DEF PtkGiven
  <2>6. Keys!Confirm(f.ptk)
    BY <1>1, <1>3, <2>2, <2>3, <2>4, <2>5 DEF Keys!Confirm, Confirmed, StaKey
  <2>7. f.ptk \in Confirmed'
    BY <1>3
  <2> QED BY <2>6, <2>7 DEF Keys!Next, Confirmed
<1> QED BY <1>5, <1>6

\* A step that confirms and installs nothing may forget the station's key.
LEMMA QuietPairwise ==
    ASSUME ap' = ap, sta'.installs = sta.installs, Received("4/4")' = Received("4/4"),
           StaKey' \in {StaKey, NoPTK}
    PROVE  Keys!Next \/ UNCHANGED Keys!vars
<1>1. Confirmed' = Confirmed
  BY DEF Confirmed
<1>2. CASE StaKey' = StaKey
  BY <1>1, <1>2 DEF Keys!vars, Confirmed, StaKey
<1>3. CASE StaKey' = NoPTK
  BY <1>1, <1>3 DEF Keys!Next, Keys!StaForgets, Confirmed, StaKey
<1> QED BY <1>2, <1>3

\* A step of the station within an association.
LEMMA StaStepPairwise ==
    ASSUME RefInv, ap' = ap, StaStep
    PROVE  Keys!Next \/ UNCHANGED Keys!vars
<1>1. ASSUME NEW f \in net, NEW n \in Nat, Answers(f, n)
      PROVE  Keys!Next \/ UNCHANGED Keys!vars
  <2>1. net' = net \cup Msg2of4(f, n)
    BY <1>1 DEF Answers
  <2>2. Received("4/4")' = Received("4/4")
    BY <2>1, StaMade DEF Received
  <2> QED BY <1>1, <2>2, QuietPairwise DEF Answers, StaKey
<1>2. ASSUME NEW f \in net, Takes(f), Stays(f)
      PROVE  Keys!Next \/ UNCHANGED Keys!vars
  <2>1. CASE f.type = "3/4"
    <3>1. /\ net' = net \cup Msg4of4(f, f.ptk) /\ PtkGiven(f) /\ StaKey' = f.ptk
      BY <1>2, <2>1 DEF Stays, StaKey
    <3> QED BY <1>2, <3>1, Msg4Pairwise
  <2>2. CASE f.type = "1/2"
    <3>1. net' = net \cup Msg2of2(f, f.ptk) /\ sta'.installs = sta.installs
      BY <1>2, <2>2 DEF Stays
    <3>2. Received("4/4")' = Received("4/4")
      BY <3>1, StaMade DEF Received
    <3>3. StaKey' \in {StaKey, NoPTK}
      BY <1>2, <2>2 DEF Stays, Takes, InUse, StaKey
    <3> QED BY <3>1, <3>2, <3>3, QuietPairwise
  <2> QED BY <1>2, <2>1, <2>2 DEF Stays
<1>3. ASSUME NEW f \in net, Takes(f), GivesUpAt(f)
      PROVE  Keys!Next \/ UNCHANGED Keys!vars
  <2>1. CASE net' = net /\ sta'.installs = sta.installs
    BY <1>3, <2>1, QuietPairwise DEF GivesUpAt, GivesUp, StaKey, Received
  <2>2. CASE /\ net' = net \cup Msg4of4(f, f.ptk)
             /\ PtkGiven(f) \/ (~InUse(f) /\ sta'.installs = sta.installs)
    BY <1>3, <2>2, Msg4Pairwise DEF GivesUpAt
  <2> QED BY <1>3, <2>1, <2>2 DEF GivesUpAt
<1>4. CASE Leaves
  BY <1>4, QuietPairwise DEF Leaves, GivesUp, StaKey, Received
<1>5. CASE Asks
  <2>1. Received("4/4")' = Received("4/4")
    <3>1. PICK t \in {"request", "gtk request"} :
             net' = net \cup {Frame(t, sta.request_counter, 0, sta.ptk, 0)}
      BY <1>5 DEF Asks
    <3> DEFINE r == Frame(t, sta.request_counter, 0, sta.ptk, 0)
    <3>2. r.type = t /\ net' = net \cup {r}
      BY <3>1 DEF Frame
    <3> HIDE DEF r
    <3> QED BY <3>2 DEF Received
  <2> QED BY <1>5, <2>1, QuietPairwise DEF Asks, SamePtks, StaKey
<1> QED BY <1>1, <1>2, <1>3, <1>4, <1>5 DEF StaStep

\* A step of the system, unless the authenticator went back.
LEMMA PairwiseStep ==
    ASSUME RefInv, [Next]_vars, ~WentBack
    PROVE  Keys!Next \/ UNCHANGED Keys!vars
<1>1. Inv /\ Inv'
  BY Steps DEF RefInv, AgreeInv, OrderInv
<1>2. CASE ApStep /\ sta' = sta
  BY <1>1, <1>2, ApStepPairwise
<1>3. CASE ApJoin /\ sta' = sta
  <2>1. Confirmed' = Confirmed
    BY <1>1, <1>3, ApSends DEF Confirmed
  <2> QED BY <1>3, <2>1 DEF ApJoin, Keys!Next, Keys!ApForgets, Confirmed
<1>4. CASE StaStep /\ ap' = ap
  BY <1>4, StaStepPairwise
<1>5. CASE StaJoin /\ ap' = ap
  BY <1>5, QuietPairwise DEF StaJoin, StaKey, Received
<1>6. CASE ap' = ap /\ sta' = sta /\ net' = net
  BY <1>6 DEF Keys!vars, Received
<1> QED BY <1>1, <1>2, <1>3, <1>4, <1>5, <1>6, Steps

\* Every step of the handshake, over any number of associations, is a step that
\* PairwiseKeys allows, or does not change the keys, unless the authenticator
\* went back to 1/4: its driver gets only keys that the station has confirmed
\* and has not replaced, and no driver gets a key twice.
THEOREM PairwiseSteps == Spec => StepsArePairwise
<1>1. RefInv /\ [Next]_vars => [Keys!Next \/ WentBack]_(Keys!vars)
  BY PairwiseStep
<1> QED BY <1>1, InitRef, NextRef, PTL DEF Spec, StepsArePairwise

(***************************************************************************)
(* The lists of replay counters.                                           *)
(***************************************************************************)

\* The newest counter comes first.
Down(c) == \A i, j \in Slots : i <= j => c[j].counter <= c[i].counter

\* The entries of the lists.
LEMMA Entries ==
    ASSUME NEW c \in KeyReplays
    PROVE  /\ \A i \in Slots :
                /\ c[i].counter \in Nat
                /\ MarkAllInvalid(c)[i].counter = c[i].counter
                /\ MarkAllInvalid(c)[i].valid = FALSE
                /\ NoReplay[i].counter = 0 /\ NoReplay[i].valid = FALSE
           /\ \A m : \A i \in Slots :
                /\ MarkInvalid(c, m)[i].counter = c[i].counter
                /\ MarkInvalid(c, m)[i].valid = (c[i].valid /\ c[i].counter # m)
           /\ NextReplay(c)[1].counter = c[1].counter + 1
           /\ \A i \in Slots \ {1} : i - 1 \in Slots /\ NextReplay(c)[i] = c[i - 1]
<1>1. \A i \in Slots : c[i] \in [counter : Nat, valid : BOOLEAN]
  BY DEF KeyReplays
<1>2. 1 \in Slots /\ \A i \in Slots \ {1} : i - 1 \in Slots
  BY DEF Slots, RSNA_MAX_EAPOL_RETRIES
<1>3. ASSUME NEW i \in Slots
      PROVE  /\ MarkAllInvalid(c)[i].counter = c[i].counter
             /\ MarkAllInvalid(c)[i].valid = FALSE
  <2>1. MarkAllInvalid(c)[i] = [c[i] EXCEPT !.valid = FALSE]
    BY DEF MarkAllInvalid
  <2> QED BY <1>1, <2>1, Zenon
<1>4. ASSUME NEW i \in Slots, NEW m
      PROVE  /\ MarkInvalid(c, m)[i].counter = c[i].counter
             /\ MarkInvalid(c, m)[i].valid = (c[i].valid /\ c[i].counter # m)
  <2>1. MarkInvalid(c, m)[i] = [c[i] EXCEPT !.valid = @ /\ c[i].counter # m]
    BY DEF MarkInvalid
  <2> QED BY <1>1, <2>1, Zenon
<1>5. \A i \in Slots : NoReplay[i].counter = 0 /\ NoReplay[i].valid = FALSE
  BY DEF NoReplay
<1>6. NextReplay(c)[1] = [counter |-> c[1].counter + 1, valid |-> TRUE]
  BY <1>2 DEF NextReplay
<1>7. \A i \in Slots \ {1} : NextReplay(c)[i] = c[i - 1]
  BY DEF NextReplay
<1>8. \A i \in Slots : c[i].counter \in Nat
  BY <1>1
<1>9. NextReplay(c)[1].counter = c[1].counter + 1
  BY <1>6
<1> QED BY <1>2, <1>3, <1>4, <1>5, <1>7, <1>8, <1>9, Zenon

\* A list that was never used is in order.
LEMMA NoneDown == Down(NoReplay)
<1>1. \A i \in Slots : NoReplay[i].counter = 0
  BY DEF NoReplay
<1> QED BY <1>1 DEF Down

\* The order stays.
LEMMA StaysDown ==
    ASSUME NEW c \in KeyReplays, Down(c)
    PROVE  Down(MarkAllInvalid(c)) /\ Down(NextReplay(c))
<1>1. Down(MarkAllInvalid(c))
  <2>1. \A i \in Slots : MarkAllInvalid(c)[i].counter = c[i].counter
    BY Entries
  <2> QED BY <2>1 DEF Down
<1>2. Down(NextReplay(c))
  <2> SUFFICES ASSUME NEW i \in Slots, NEW j \in Slots, i <= j
               PROVE  NextReplay(c)[j].counter <= NextReplay(c)[i].counter
    BY DEF Down
  <2>1. i \in Int /\ j \in Int /\ i >= 1 /\ 1 \in Slots
    BY DEF Slots, RSNA_MAX_EAPOL_RETRIES
  <2>2. CASE j = 1
    <3>1. i = 1
      BY <2>1, <2>2
    <3>2. NextReplay(c)[1].counter = c[1].counter + 1 /\ c[1].counter \in Nat
      BY <2>1, Entries
    <3> QED BY <2>2, <3>1, <3>2
  <2>3. CASE j # 1 /\ i = 1
    <3>1. j - 1 \in Slots /\ NextReplay(c)[j] = c[j - 1]
      BY <2>3, Entries
    <3>2. c[j - 1].counter <= c[1].counter
      <4>1. 1 <= j - 1
        BY <3>1 DEF Slots, RSNA_MAX_EAPOL_RETRIES
      <4> QED BY <2>1, <3>1, <4>1 DEF Down
    <3>3. c[j - 1].counter \in Nat /\ c[1].counter \in Nat
      BY <2>1, <3>1, Entries
    <3>4. NextReplay(c)[1].counter = c[1].counter + 1
      BY Entries
    <3> QED BY <2>3, <3>1, <3>2, <3>3, <3>4
  <2>4. CASE j # 1 /\ i # 1
    <3>1. /\ j - 1 \in Slots /\ NextReplay(c)[j] = c[j - 1]
          /\ i - 1 \in Slots /\ NextReplay(c)[i] = c[i - 1]
      BY <2>4, Entries
    <3>2. i - 1 <= j - 1
      BY <2>1
    <3> QED BY <3>1, <3>2 DEF Down
  <2> QED BY <2>2, <2>3, <2>4
<1> QED BY <1>1, <1>2

\* What may be answered after a frame was sent.
LEMMA ValidNext ==
    ASSUME NEW c \in KeyReplays, NEW n, ReplayCounterValid(NextReplay(c), n)
    PROVE  n = c[1].counter + 1 \/ ReplayCounterValid(c, n)
<1>1. PICK i \in Slots : /\ NextReplay(c)[i].counter = n
                         /\ \A j \in 1 .. i : NextReplay(c)[j].valid
  BY DEF ReplayCounterValid
<1>2. CASE i = 1
  BY <1>1, <1>2, Entries
<1>3. CASE i # 1
  <2>1. i - 1 \in Slots /\ NextReplay(c)[i] = c[i - 1]
    BY <1>3, Entries
  <2>2. ASSUME NEW j \in 1 .. i - 1 PROVE c[j].valid
    <3>1. j + 1 \in Slots \ {1} /\ j + 1 \in 1 .. i
      BY <1>1 DEF Slots, RSNA_MAX_EAPOL_RETRIES
    <3>2. NextReplay(c)[j + 1] = c[(j + 1) - 1]
      BY <3>1, Entries
    <3>3. (j + 1) - 1 = j
      OBVIOUS
    <3> QED BY <1>1, <3>1, <3>2, <3>3
  <2> QED BY <1>1, <2>1, <2>2 DEF ReplayCounterValid
<1> QED BY <1>2, <1>3

\* Nothing in a list that was marked, or never used.
LEMMA ValidNone ==
    ASSUME NEW c \in KeyReplays
    PROVE  /\ \A n : ~ReplayCounterValid(MarkAllInvalid(c), n)
           /\ \A n : ~ReplayCounterValid(NoReplay, n)
           /\ \A n : ReplayCounterValid(NextReplay(MarkAllInvalid(c)), n)
                       => n = c[1].counter + 1
<1>1. \A i \in Slots : i \in 1 .. i /\ 1 \in Slots
  BY DEF Slots, RSNA_MAX_EAPOL_RETRIES
<1>2. \A n : ~ReplayCounterValid(MarkAllInvalid(c), n) /\ ~ReplayCounterValid(NoReplay, n)
  BY <1>1, Entries DEF ReplayCounterValid
<1>3. MarkAllInvalid(c) \in KeyReplays /\ MarkAllInvalid(c)[1].counter = c[1].counter
  BY KeyReplayTypes, Counters
<1> QED BY <1>2, <1>3, ValidNext

\* After 2/4 only answers to younger 1/4 frames are taken.
LEMMA ValidLeft ==
    ASSUME NEW c \in KeyReplays, Down(c), NEW m \in Nat, NEW n,
           ReplayCounterValid(MarkInvalid(c, m), n)
    PROVE  /\ ReplayCounterValid(c, n)
           /\ ReplayCounterValid(c, m) => n > m
<1>1. PICK i \in Slots : /\ MarkInvalid(c, m)[i].counter = n
                         /\ \A j \in 1 .. i : MarkInvalid(c, m)[j].valid
  BY DEF ReplayCounterValid
<1>2. \A j \in 1 .. i : j \in Slots
  BY DEF Slots, RSNA_MAX_EAPOL_RETRIES
<1>3. n = c[i].counter /\ \A j \in 1 .. i : c[j].valid /\ c[j].counter # m
  BY <1>1, <1>2, Entries
<1>4. ASSUME ReplayCounterValid(c, m) PROVE n > m
  <2>1. PICK k \in Slots : c[k].counter = m
    BY <1>4 DEF ReplayCounterValid
  <2>2. i \in 1 .. i /\ i \in Int /\ k \in Int /\ k >= 1
    BY DEF Slots, RSNA_MAX_EAPOL_RETRIES
  <2>3. i <= k
    BY <1>3, <2>1, <2>2
  <2>4. c[k].counter <= c[i].counter /\ c[i].counter \in Nat
    BY <2>3, Entries DEF Down
  <2> QED BY <1>3, <2>1, <2>2, <2>4
<1> QED BY <1>3, <1>4 DEF ReplayCounterValid

(***************************************************************************)
(* One association.                                                        *)
(***************************************************************************)

\* Before the association nothing has happened.
Idle == ap.state = "INITIALIZE" /\ ~ap.PTK_valid /\ ~ap.rekey_timer /\ net = {}

\* 1/4 frames are numbered in the order of their ANonces.
Msg1InOrder ==
    /\ \A f \in Received("1/4") : f.rc <= Rc(ap) /\ f.nonce <= ap.ANonce
    /\ \A f, g \in Received("1/4") : f.nonce < g.nonce => f.rc < g.rc

\* 2/4 frames answer them.
Msg2Answers ==
    \A f \in Received("2/4") :
        /\ f.ptk[2] = f.nonce
        /\ \E g \in Received("1/4") : g.rc = f.rc /\ g.nonce = f.ptk[1]

\* After 3/4 only 1/4 frames of the handshake that runs may still be answered.
OnlyThisAnswered ==
    Negotiating(ap) =>
        \A g \in Received("1/4") :
            /\ ~ReplayCounterValid(ap.key_replay, g.rc)
            /\ ReplayCounterValid(ap.prev_key_replay, g.rc) => g.nonce = ap.ANonce

\* While 1/4 is sent, the handshake has no 3/4.
NoMsg3Yet == Starting(ap) => \A g \in Received("3/4") : g.nonce # ap.ANonce

Forward ==
    /\ Down(ap.key_replay) /\ (ap.assoc = 0 => Idle)
    /\ Msg1InOrder /\ Msg2Answers /\ OnlyThisAnswered /\ NoMsg3Yet /\ ~WentBack

\* The 1/4 that the 2/4 f answers.
LEMMA AnswersWhat ==
    ASSUME Inv, Msg2Answers, NEW f \in Received("2/4")
    PROVE  /\ f.rc \in Nat /\ f.nonce \in Nat /\ f.ptk = <<f.ptk[1], f.nonce>>
           /\ \E g \in Received("1/4") : g.rc = f.rc /\ g.nonce = f.ptk[1]
<1>1. f \in Frames
  BY InvTypes DEF Received
<1>2. f.ptk = <<f.ptk[1], f.ptk[2]>>
  BY <1>1, FrameNumbers DEF PTKs
<1> QED BY <1>1, <1>2, FrameNumbers DEF Msg2Answers

\* A step of the authenticator within the association.
LEMMA ApForward ==
    ASSUME AgreeInv, Forward, Inv', ApStep, ApMove
    PROVE  Forward'
<1>1. /\ net \subseteq net' /\ Rc(ap') \in {Rc(ap), Rc(ap) + 1}
      /\ \A g \in net' \ net : NewFrame(g) /\ Rc(ap') = Rc(ap) + 1
  BY SendsOne DEF ApStep
<1>2. Inv /\ ap \in ApType /\ KeyFrames
  BY InvTypes DEF AgreeInv, OrderInv, Agree
<1>3. /\ \A f \in net : f.rc \in Nat /\ f.nonce \in Nat /\ f.ptk[1] \in Nat
      /\ Rc(ap) \in Nat /\ ap.ANonce \in Nat
  BY <1>2, InvTypes, Numbers
<1>4. ap'.ANonce \in {ap.ANonce, ap.ANonce + 1} /\ ap'.assoc = ap.assoc
  BY DEF ApStep
<1>5. /\ Down(ap.key_replay) /\ Msg1InOrder /\ Msg2Answers /\ OnlyThisAnswered
      /\ NoMsg3Yet /\ ~WentBack
  BY DEF Forward
<1>6. /\ ap.key_replay \in KeyReplays /\ MarkAllInvalid(ap.key_replay) \in KeyReplays
      /\ Rc(ap) = ap.key_replay[1].counter
  BY <1>2, KeyReplayTypes DEF ApType, Rc
<1>7. Down(ap.key_replay)'
  <2>1. /\ Down(MarkAllInvalid(ap.key_replay)) /\ Down(NextReplay(ap.key_replay))
        /\ Down(NextReplay(MarkAllInvalid(ap.key_replay)))
    BY <1>5, <1>6, StaysDown
  <2>2. ap'.key_replay \in {ap.key_replay, MarkAllInvalid(ap.key_replay),
                            NextReplay(ap.key_replay),
                            NextReplay(MarkAllInvalid(ap.key_replay))}
    BY DEF ApMove, Rests, SendsGtk, Starts, Repeats, Calculates
  <2>3. Down(ap'.key_replay)
    BY <1>5, <2>1, <2>2
  <2> QED BY <2>3 DEF Down
<1>8. Msg1InOrder'
  <2>1. ASSUME NEW f \in Received("1/4")'
        PROVE  /\ f.rc <= Rc(ap') /\ f.nonce <= ap'.ANonce
               /\ f.rc \in Nat /\ f.nonce \in Nat
               /\ \/ f \in Received("1/4")
                  \/ /\ f.rc = Rc(ap) + 1 /\ Rc(ap') = Rc(ap) + 1
                     /\ f.nonce = ap'.ANonce
    <3>1. CASE f \in net
      BY <1>1, <1>3, <1>4, <1>5, <3>1 DEF Msg1InOrder, Received
    <3>2. CASE f \notin net
      BY <1>1, <1>3, <1>4, <3>2 DEF NewFrame, Received
    <3> QED BY <3>1, <3>2
  <2>2. ASSUME NEW f \in Received("1/4")', NEW g \in Received("1/4")', f.nonce < g.nonce
        PROVE  f.rc < g.rc
    <3>1. CASE g \in Received("1/4")
      <4>1. f \in Received("1/4")
        BY <1>3, <1>4, <1>5, <2>1, <2>2, <3>1 DEF Msg1InOrder
      <4> QED BY <1>5, <2>2, <3>1, <4>1 DEF Msg1InOrder
    <3>2. CASE g \notin Received("1/4")
      <4>1. g.rc = Rc(ap) + 1 /\ g.nonce = ap'.ANonce
        BY <2>1, <3>2
      <4>2. f \in Received("1/4")
        BY <1>3, <1>4, <2>1, <2>2, <4>1
      <4> QED BY <1>3, <1>5, <2>1, <4>1, <4>2 DEF Msg1InOrder
    <3> QED BY <3>1, <3>2
  <2> QED BY <2>1, <2>2 DEF Msg1InOrder, Rc
<1>9. Msg2Answers'
  <2>1. Received("2/4")' = Received("2/4") /\ Received("1/4") \subseteq Received("1/4")'
    BY <1>1 DEF NewFrame, Received
  <2> QED BY <1>5, <2>1 DEF Msg2Answers
<1>10. ap'.assoc = 0 => Idle'
  <2> SUFFICES ASSUME ap.assoc = 0, Idle PROVE Idle'
    BY <1>4 DEF Forward
  <2>1. ~Negotiating(ap) /\ ~Starting(ap) /\ Received("2/4") = {}
    BY DEF Idle, Negotiating, Starting, Received
  <2>2. CASE Rests
    BY <2>1, <2>2 DEF Rests, Idle
  <2>3. CASE SendsGtk
    BY <2>3 DEF SendsGtk, Idle, Msg1of2
  <2> QED BY <2>1, <2>2, <2>3 DEF ApMove, Starts, Repeats, Idle
<1>11. OnlyThisAnswered'
  <2> SUFFICES ASSUME Negotiating(ap'), NEW g \in Received("1/4")'
               PROVE  /\ ~ReplayCounterValid(ap'.key_replay, g.rc)
                      /\ ReplayCounterValid(ap'.prev_key_replay, g.rc) => g.nonce = ap'.ANonce
    BY DEF OnlyThisAnswered, Negotiating
  <2>1. g \in Received("1/4") /\ g.rc <= Rc(ap) /\ g.rc \in Nat /\ g.nonce \in Nat
    <3>1. g \in net
      BY <1>1 DEF NewFrame, Received, Negotiating
    <3> QED BY <1>3, <1>5, <3>1 DEF Msg1InOrder, Received
  <2>2. g.rc # Rc(ap) + 1
    BY <1>3, <2>1
  <2>3. CASE Rests
    <3>1. Negotiating(ap) /\ ap'.ANonce = ap.ANonce
      BY <2>3 DEF Rests, Negotiating
    <3>2. /\ ~ReplayCounterValid(ap.key_replay, g.rc)
          /\ ReplayCounterValid(ap.prev_key_replay, g.rc) => g.nonce = ap.ANonce
      BY <1>5, <2>1, <3>1 DEF OnlyThisAnswered
    <3>3. ~ReplayCounterValid(ap'.key_replay, g.rc)
      BY <1>6, <2>3, <3>2, ValidNone DEF Rests
    <3>4. ReplayCounterValid(ap'.prev_key_replay, g.rc) => g.nonce = ap.ANonce
      BY <1>6, <2>3, <3>2, ValidNone DEF Rests
    <3> QED BY <3>1, <3>3, <3>4
  <2>4. CASE SendsGtk \/ Starts
    BY <2>4 DEF SendsGtk, Starts, Negotiating
  <2>5. CASE Repeats
    <3>1. Negotiating(ap) /\ ap'.ANonce = ap.ANonce
      BY <2>5 DEF Repeats
    <3>2. /\ ~ReplayCounterValid(ap.key_replay, g.rc)
          /\ ReplayCounterValid(ap.prev_key_replay, g.rc) => g.nonce = ap.ANonce
      BY <1>5, <2>1, <3>1 DEF OnlyThisAnswered
    <3>3. ~ReplayCounterValid(ap'.key_replay, g.rc)
      BY <1>6, <2>2, <2>5, <3>2, ValidNext DEF Repeats
    <3> QED BY <2>5, <3>1, <3>2, <3>3 DEF Repeats
  <2>6. ASSUME NEW f \in Received("2/4"), Calculates(f)
        PROVE  /\ ~ReplayCounterValid(ap'.key_replay, g.rc)
               /\ ReplayCounterValid(ap'.prev_key_replay, g.rc) => g.nonce = ap'.ANonce
    <3>1. /\ f.ptk = <<ap.ANonce, f.nonce>> /\ ap'.ANonce = ap.ANonce
          /\ ap'.key_replay = NextReplay(MarkAllInvalid(ap.key_replay))
          /\ ap'.prev_key_replay = MarkInvalid(ap.key_replay, f.rc)
      BY <2>6 DEF Calculates, Negotiating
    <3>2. ~ReplayCounterValid(ap'.key_replay, g.rc)
      BY <1>6, <2>2, <3>1, ValidNone
    <3>3. ASSUME ReplayCounterValid(ap'.prev_key_replay, g.rc)
          PROVE  g.nonce = ap.ANonce
      <4>1. /\ f.rc \in Nat
            /\ \E h \in Received("1/4") : h.rc = f.rc /\ h.nonce = f.ptk[1]
        BY <1>2, <1>5, AnswersWhat
      <4>2. /\ ReplayCounterValid(ap.key_replay, g.rc)
            /\ ReplayCounterValid(ap.key_replay, f.rc) => g.rc > f.rc
        BY <1>5, <1>6, <3>1, <3>3, <4>1, ValidLeft
      <4>3. ~Negotiating(ap)
        BY <1>5, <2>1, <4>2 DEF OnlyThisAnswered
      <4>4. g.rc > f.rc
        BY <2>6, <4>2, <4>3 DEF Calculates
      <4>5. PICK h \in Received("1/4") : h.rc = f.rc /\ h.nonce = ap.ANonce
        BY <3>1, <4>1
      <4>6. ~(g.nonce < ap.ANonce)
        BY <1>5, <2>1, <4>1, <4>4, <4>5 DEF Msg1InOrder
      <4> QED BY <1>3, <1>5, <2>1, <4>6 DEF Msg1InOrder
    <3> QED BY <3>1, <3>2, <3>3
  <2> QED BY <2>3, <2>4, <2>5, <2>6 DEF ApMove
<1>12. NoMsg3Yet'
  <2> SUFFICES ASSUME Starting(ap'), NEW g \in Received("3/4")'
               PROVE  g.nonce # ap'.ANonce
    BY DEF NoMsg3Yet, Starting
  <2>1. g \in Received("3/4")
    BY <1>1 DEF NewFrame, Received, Starting
  <2>2. g.nonce <= ap.ANonce /\ g.nonce \in Nat
    BY <1>2, <1>3, <2>1 DEF KeyFrames, Received
  <2>3. Starting(ap) => g.nonce # ap.ANonce
    BY <1>5, <2>1 DEF NoMsg3Yet
  <2>4. CASE Rests
    BY <2>3, <2>4 DEF Rests, Starting
  <2>5. CASE SendsGtk \/ Repeats
    BY <2>5 DEF SendsGtk, Repeats, Starting, Negotiating
  <2>6. CASE Starts
    BY <1>3, <2>2, <2>3, <2>6 DEF Starts
  <2>7. ASSUME NEW f \in Received("2/4"), Calculates(f)
        PROVE  g.nonce # ap'.ANonce
    <3>1. f.ptk # <<ap.ANonce, f.nonce>> /\ ap'.ANonce = ap.ANonce
      BY <2>7 DEF Calculates, Starting, Negotiating
    <3>2. f.ptk = <<f.ptk[1], f.nonce>>
      BY <1>2, <1>5, AnswersWhat
    <3>3. PICK h \in Received("1/4") : h.rc = f.rc /\ h.nonce = f.ptk[1]
      BY <1>2, <1>5, AnswersWhat
    <3>4. ~(Negotiating(ap) /\ ReplayCounterValid(ap.prev_key_replay, f.rc))
      BY <1>5, <3>1, <3>2, <3>3 DEF OnlyThisAnswered
    <3>5. Starting(ap)
      BY <2>7, <3>4 DEF Calculates
    <3> QED BY <2>3, <3>1, <3>5
  <2> QED BY <2>4, <2>5, <2>6, <2>7 DEF ApMove
<1>13. ~WentBack'
  <2> SUFFICES ASSUME NEW f \in Received("1/4")', NEW g \in Received("3/4")',
                      f.nonce = ap'.ANonce, g.nonce = ap'.ANonce, g.rc < f.rc
               PROVE  FALSE
    BY DEF WentBack
  <2>1. CASE f \notin net
    <3>1. Starting(ap')
      BY <1>1, <2>1 DEF NewFrame, Received, Starting
    <3> QED BY <1>12, <3>1 DEF NoMsg3Yet, Starting
  <2>2. CASE f \in net /\ g \in net
    <3>1. g.nonce <= ap.ANonce
      BY <1>2, <2>2 DEF KeyFrames, Received
    <3>2. ap'.ANonce = ap.ANonce
      BY <1>3, <1>4, <3>1
    <3> QED BY <1>5, <2>2, <3>2 DEF WentBack, Received
  <2>3. CASE f \in net /\ g \notin net
    <3>1. f.rc <= Rc(ap) /\ f.rc \in Nat
      BY <1>3, <1>5, <2>3 DEF Msg1InOrder, Received
    <3>2. g.rc = Rc(ap) + 1
      BY <1>1, <2>3 DEF NewFrame, Received
    <3> QED BY <1>3, <3>1, <3>2
  <2> QED BY <2>1, <2>2, <2>3
<1> QED BY <1>7, <1>8, <1>9, <1>10, <1>11, <1>12, <1>13 DEF Forward

\* The association: the first frame is 1/4.
LEMMA JoinForward ==
    ASSUME MaxAssoc <= 1, Inv, Forward, Inv', ApAssociates
    PROVE  Forward'
<1>1. ap \in ApType /\ ap.assoc \in Nat /\ MaxAssoc \in Nat
  BY InvTypes, ApBoundsAssumption DEF ApType
<1>2. ap.assoc = 0 /\ ApNewSta
  BY <1>1 DEF ApAssociates, ApNewSta, ApStaAssociatedAgain, ApReAuth
<1>3. Idle /\ ApJoin
  BY <1>2, ApAssociatesJoins DEF Forward, Inv
<1>4. net' = Msg1of4(ap') /\ ap'.state = "PTKSTART" /\ ap'.assoc = 1
  BY <1>2, <1>3 DEF Idle, ApJoin
<1>5. \A f \in net' : f.type = "1/4" /\ f.rc = Rc(ap') /\ f.nonce = ap'.ANonce
  BY <1>4 DEF Msg1of4, Frame
<1>6. Down(ap.key_replay)'
  <2> DEFINE q == NewAp(ap.assoc + 1, ap.ANonce, ap.GTK, ap.no_retries, ap.installs)
  <2>1. ap' = NewHandshake(q)
    BY <1>2 DEF ApNewSta
  <2>2. q \in ApType
    <3>1. ApOK(ap)
      BY DEF Inv, ApSide
    <3>2. /\ ap.ANonce \in Nat /\ ap.GTK \in Nat
          /\ ap.no_retries \in BOOLEAN /\ ap.installs \in Seq(PTKs)
          /\ AllBelow(ap.installs, 1, ap.ANonce + 1) /\ Increasing(ap.installs, 1)
      BY <3>1 DEF ApOK, ApType
    <3>3. ap.assoc + 1 \in Nat
      BY <1>1
    <3> QED BY <3>2, <3>3, NewApOK DEF ApOK
  <2>3. q.key_replay = NoReplay
    BY DEF NewAp
  <2> HIDE DEF q
  <2>4. ap'.key_replay = NextReplay(NoReplay)
    BY <2>1, <2>2, <2>3, NewHandshakeDoes
  <2>5. NoReplay \in KeyReplays /\ Down(NoReplay)
    BY KeyReplayTypes, NoneDown
  <2>6. Down(ap'.key_replay)
    BY <2>4, <2>5, StaysDown
  <2> QED BY <2>6 DEF Down
<1>7. Rc(ap') \in Nat /\ ap'.ANonce \in Nat
  BY InvTypes, Numbers
<1>8. Msg1InOrder'
  BY <1>5, <1>7 DEF Msg1InOrder, Received, Rc
<1>9. Msg2Answers' /\ NoMsg3Yet' /\ ~WentBack'
  BY <1>5 DEF Msg2Answers, NoMsg3Yet, WentBack, Received
<1>10. OnlyThisAnswered'
  BY <1>4 DEF OnlyThisAnswered, Negotiating
<1> QED BY <1>4, <1>6, <1>8, <1>9, <1>10 DEF Forward

\* What a step of the station sends.
LEMMA StaSent ==
    ASSUME StaStep
    PROVE  /\ net \subseteq net'
           /\ \A g \in net' \ net :
                /\ StaFrame(g)
                /\ g.type = "2/4" =>
                     /\ g.ptk[2] = g.nonce
                     /\ \E h \in Received("1/4") : h.rc = g.rc /\ h.nonce = g.ptk[1]
                /\ g.type = "gtk request" => GtkRequests
<1> DEFINE P(g) ==
             /\ StaFrame(g)
             /\ g.type = "2/4" =>
                  /\ g.ptk[2] = g.nonce
                  /\ \E h \in Received("1/4") : h.rc = g.rc /\ h.nonce = g.ptk[1]
             /\ g.type = "gtk request" => GtkRequests
<1> SUFFICES net \subseteq net' /\ \A g \in net' \ net : P(g)
  OBVIOUS
<1>1. ASSUME NEW f \in net, NEW n \in Nat, Answers(f, n)
      PROVE  net \subseteq net' /\ \A g \in net' \ net : P(g)
  <2>1. net' = net \cup Msg2of4(f, n) /\ f \in Received("1/4")
    BY <1>1 DEF Answers
  <2>2. ASSUME NEW g \in Msg2of4(f, n)
        PROVE  /\ g.type = "2/4" /\ g.rc = f.rc /\ g.nonce = n
               /\ g.ptk[1] = f.nonce /\ g.ptk[2] = n
    BY StaMade
  <2> QED BY <2>1, <2>2 DEF StaFrame
<1>2. ASSUME NEW f \in net, Stays(f) \/ GivesUpAt(f)
      PROVE  net \subseteq net' /\ \A g \in net' \ net : P(g)
  <2>1. \/ net' = net \cup Msg4of4(f, f.ptk) \/ net' = net \cup Msg2of2(f, f.ptk)
        \/ net' = net
    BY <1>2 DEF Stays, GivesUpAt
  <2> QED BY <2>1, StaMade DEF StaFrame
<1>3. CASE Leaves
  BY <1>3 DEF Leaves
<1>4. CASE Asks
  <2>1. PICK t \in {"request", "gtk request"} :
           /\ t = "gtk request" => GtkRequests
           /\ net' = net \cup {Frame(t, sta.request_counter, 0, sta.ptk, 0)}
    BY <1>4 DEF Asks
  <2> DEFINE r == Frame(t, sta.request_counter, 0, sta.ptk, 0)
  <2>2. r.type = t /\ net' = net \cup {r}
    BY <2>1 DEF Frame
  <2> HIDE DEF r
  <2> QED BY <2>1, <2>2 DEF StaFrame
<1> HIDE DEF P
<1> QED BY <1>1, <1>2, <1>3, <1>4, Zenon DEF StaStep

\* A step of the station.
LEMMA StaForward ==
    ASSUME Forward, ap' = ap, StaStep, net = {} => net' = net
    PROVE  Forward'
<1>1. /\ net \subseteq net'
      /\ \A g \in net' \ net :
           /\ StaFrame(g)
           /\ g.type = "2/4" =>
                /\ g.ptk[2] = g.nonce
                /\ \E h \in Received("1/4") : h.rc = g.rc /\ h.nonce = g.ptk[1]
  BY StaSent
<1>2. Received("1/4")' = Received("1/4") /\ Received("3/4")' = Received("3/4")
  BY <1>1 DEF StaFrame, Received
<1>3. Msg2Answers'
  <2> SUFFICES ASSUME NEW f \in Received("2/4")'
               PROVE  /\ f.ptk[2] = f.nonce
                      /\ \E g \in Received("1/4") : g.rc = f.rc /\ g.nonce = f.ptk[1]
    BY <1>2 DEF Msg2Answers
  <2>1. CASE f \in net
    BY <2>1 DEF Forward, Msg2Answers, Received
  <2>2. CASE f \notin net
    BY <1>1, <2>2 DEF Received
  <2> QED BY <2>1, <2>2
<1>4. Msg1InOrder' /\ OnlyThisAnswered' /\ NoMsg3Yet' /\ ~WentBack'
  BY <1>2 DEF Forward, Msg1InOrder, OnlyThisAnswered, NoMsg3Yet, WentBack
<1>5. ap.assoc = 0 => Idle'
  BY DEF Forward, Idle
<1> QED BY <1>3, <1>4, <1>5 DEF Forward

\* A station that got no frame sends none.
LEMMA SilentStation ==
    ASSUME RefOK, net = {}, StaNext
    PROVE  net' = net
<1>1. \A type : Received(type) = {}
  BY DEF Received
<1>2. ~sta.installed
  BY <1>1 DEF RefOK
<1>3. ~StaMsg1of4 /\ ~StaMsg3of4 /\ ~StaMsg1of2
  BY <1>1, Zenon DEF StaMsg1of4, StaMsg3of4, StaMsg1of2
<1>4. ~StaRequest
  BY <1>2, Zenon DEF StaRequest
<1> QED BY <1>3, <1>4 DEF StaNext, StaDisassoc

\* The inductive invariant.
ForwardInv == RefInv /\ Forward

\* The initial state.
LEMMA InitForward == Init => ForwardInv
<1> SUFFICES ASSUME Init PROVE ForwardInv
  OBVIOUS
<1>1. PICK conf \in RetryConfigs : ap = NewAp(0, 0, 1, conf, << >>)
  BY DEF Init, ApInit
<1>2. /\ ap.state = "INITIALIZE" /\ ap.PTK_valid = FALSE /\ ap.rekey_timer = FALSE
      /\ ap.key_replay = NoReplay /\ net = {}
  BY <1>1 DEF NewAp, Init
<1>3. Down(ap.key_replay)
  BY <1>2, NoneDown
<1>4. Msg1InOrder /\ Msg2Answers /\ OnlyThisAnswered /\ NoMsg3Yet /\ ~WentBack
  BY <1>2 DEF Msg1InOrder, Msg2Answers, OnlyThisAnswered, NoMsg3Yet, WentBack,
              Received, Negotiating, Starting
<1> QED BY <1>2, <1>3, <1>4, InitRef DEF ForwardInv, Forward, Idle

\* The steps when there is one association.
LEMMA OnceSteps ==
    ASSUME Inv, RefOK, [Next]_vars
    PROVE  \/ ApStep /\ ApMove
           \/ ApAssociates
           \/ StaStep /\ ap' = ap /\ (net = {} => net' = net)
           \/ ap' = ap /\ net' = net
<1>1. ApSide /\ StaSide
  BY DEF Inv
<1>2. CASE ApNext /\ UNCHANGED sta
  BY <1>1, <1>2, ApNextMoves, ApNextMove
<1>3. CASE StaAssociates
  BY <1>1, <1>3, StaAssociatesJoins DEF StaAssociates, StaJoin
<1>4. CASE StaNext /\ UNCHANGED ap
  BY <1>1, <1>4, StaNextMoves, SilentStation
<1>5. CASE UNCHANGED vars
  BY <1>5 DEF vars
<1> QED BY <1>2, <1>3, <1>4, <1>5, Zenon DEF Next

\* Every step keeps the invariant.
LEMMA NextForward ==
    ASSUME MaxAssoc <= 1
    PROVE  ForwardInv /\ [Next]_vars => ForwardInv'
<1> SUFFICES ASSUME ForwardInv, [Next]_vars PROVE ForwardInv'
  OBVIOUS
<1>1. RefInv /\ RefInv' /\ Forward
  BY NextRef DEF ForwardInv
<1>2. Inv /\ Inv' /\ AgreeInv /\ RefOK
  BY <1>1 DEF RefInv, AgreeInv, OrderInv
<1>3. CASE ApStep /\ ApMove
  BY <1>1, <1>2, <1>3, ApForward DEF ForwardInv
<1>4. CASE ApAssociates
  BY <1>1, <1>2, <1>4, JoinForward DEF ForwardInv
<1>5. CASE StaStep /\ ap' = ap /\ (net = {} => net' = net)
  BY <1>1, <1>2, <1>5, StaForward DEF ForwardInv
<1>6. CASE ap' = ap /\ net' = net
  <2>1. Forward'
    BY <1>1, <1>6 DEF Forward, Down, Idle, Msg1InOrder, Msg2Answers, OnlyThisAnswered,
                      NoMsg3Yet, WentBack, Received, Rc, Negotiating, Starting
  <2> QED BY <1>1, <2>1 DEF ForwardInv
<1> QED BY <1>2, <1>3, <1>4, <1>5, <1>6, OnceSteps

\* Within one association the authenticator never goes back to 1/4 after 3/4 of
\* the same handshake: every 2/4 whose replay counter it still accepts answers a
\* 1/4 with the current ANonce, so an SNonce update cannot fail.
THEOREM NeverBack ==
    ASSUME MaxAssoc <= 1
    PROVE  Spec => []~WentBack
<1>1. ForwardInv => ~WentBack
  BY DEF ForwardInv, Forward
<1> QED BY <1>1, InitForward, NextForward, PTL DEF Spec

\* Within one association the handshake implements PairwiseKeys.
THEOREM PairwiseWithin ==
    ASSUME MaxAssoc <= 1
    PROVE  Spec => KeysArePairwise
<1>1. Init => Keys!Init
  <2> SUFFICES ASSUME Init PROVE Keys!Init
    OBVIOUS
  <2>1. PICK conf \in RetryConfigs : ap = NewAp(0, 0, 1, conf, << >>)
    BY DEF Init, ApInit
  <2>2. PICK policy \in SNoncePolicies : sta = NewSta(policy)
    BY DEF Init, StaInit
  <2>3. ap.drv_ptk = NoPTK /\ ap.installs = << >> /\ Received("4/4") = {}
    BY <2>1 DEF NewAp, Init, Received
  <2>4. sta.installed = FALSE /\ sta.installs = << >>
    BY <2>2 DEF NewSta
  <2> QED BY <2>3, <2>4 DEF Keys!Init
<1>2. ForwardInv /\ [Next]_vars => [Keys!Next]_(Keys!vars)
  BY PairwiseStep DEF ForwardInv, Forward
<1> QED BY <1>1, <1>2, InitForward, NextForward, PTL DEF Spec, KeysArePairwise, Keys!Spec

(***************************************************************************)
(* One association: no key is sent twice when retries are disabled.        *)
(***************************************************************************)

\* Without retries, while 3/4 is sent: either no 1/4 may be answered any more,
\* or every 3/4 of the handshake was made with the last SNonce.
LastSNonce ==
    ap.no_retries /\ Negotiating(ap) =>
        \/ \A g \in Received("1/4") : ~ReplayCounterValid(ap.prev_key_replay, g.rc)
        \/ \A g \in Received("3/4") : g.nonce = ap.ANonce => g.ptk[2] = ap.SNonce

\* The station has not asked for a GTK.
NotAsked == Received("gtk request") = {}

\* A step that sends neither 1/4, 3/4 nor 1/2, and does not take 2/4.
LEMMA QuietUnrepeated ==
    ASSUME NEW c \in KeyReplays, ap.prev_key_replay = c,
           NoRetransmittedKeys, LastSNonce,
           ap'.no_retries = ap.no_retries, ap'.ANonce = ap.ANonce,
           Negotiating(ap') => Negotiating(ap),
           Received("1/4")' = Received("1/4"), Received("3/4")' = Received("3/4"),
           Received("1/2")' = Received("1/2"),
           \/ ap'.prev_key_replay = c /\ ap'.SNonce = ap.SNonce
           \/ ap'.prev_key_replay = NoReplay
    PROVE  NoRetransmittedKeys' /\ LastSNonce'
<1>1. NoRetransmittedKeys'
  BY DEF NoRetransmittedKeys
<1>2. CASE ap'.prev_key_replay = c /\ ap'.SNonce = ap.SNonce
  BY <1>1, <1>2 DEF LastSNonce, Negotiating
<1>3. CASE ap'.prev_key_replay = NoReplay
  BY <1>1, <1>3, ValidNone DEF LastSNonce
<1> QED BY <1>2, <1>3

\* A step of the authenticator within the association.
LEMMA ApUnrepeated ==
    ASSUME ForwardInv, Inv', ApStep, ApMove, NotAsked,
           NoRetransmittedKeys, LastSNonce
    PROVE  NoRetransmittedKeys' /\ LastSNonce'
<1>1. net \subseteq net' /\ \A g \in net' \ net : NewFrame(g)
  BY SendsOne DEF ApStep
<1>2. Inv /\ ap \in ApType /\ KeyFrames /\ Forward
  BY InvTypes DEF ForwardInv, RefInv, AgreeInv, OrderInv, Agree
<1>3. /\ ap.key_replay \in KeyReplays /\ ap.prev_key_replay \in KeyReplays
      /\ ap.GTK \in Nat /\ ap'.no_retries = ap.no_retries
  BY <1>2 DEF ApType, ApMove
<1>4. \A f \in Received("1/2") : f.gtk <= ap.GTK
  <2>1. PICK b \in Int, s0 \in Nat : Order(b, s0)
    BY DEF ForwardInv, RefInv, AgreeInv, OrderInv
  <2> QED BY <2>1 DEF Order, FramesOK, ApMade, Received
<1>5. CASE Rests
  <2>1. Negotiating(ap') => Negotiating(ap)
    BY <1>5 DEF Rests, Negotiating
  <2>2. /\ Received("1/4")' = Received("1/4") /\ Received("3/4")' = Received("3/4")
        /\ Received("1/2")' = Received("1/2") /\ ap'.ANonce = ap.ANonce
    BY <1>5 DEF Rests, Received
  <2>3. \/ ap'.prev_key_replay = ap.prev_key_replay /\ ap'.SNonce = ap.SNonce
        \/ ap'.prev_key_replay = NoReplay
    BY <1>5, Zenon DEF Rests, NotAsked
  <2> QED BY <1>3, <2>1, <2>2, <2>3, QuietUnrepeated
<1>6. CASE SendsGtk
  <2>1. ~Negotiating(ap') /\ net' = net \cup Msg1of2(ap')
    BY <1>6 DEF SendsGtk, Negotiating
  <2>2. LastSNonce'
    BY <2>1 DEF LastSNonce, Negotiating
  <2>3. /\ \A g \in Msg1of2(ap') : g.type = "1/2" /\ g.gtk = ap'.GTK
        /\ \A g, h \in Msg1of2(ap') : g = h
    BY DEF Msg1of2, Frame
  <2>4. Received("3/4")' = Received("3/4")
    BY <2>1, <2>3 DEF Received
  <2>5. ASSUME ap.no_retries, NEW f \in Received("1/2")', NEW g \in Received("1/2")',
               f.gtk = g.gtk
        PROVE  f = g
    <3>1. ap'.GTK = ap.GTK + 1 /\ ap'.GTK \in Nat
      BY <1>3, <1>6, <2>5 DEF SendsGtk
    <3>2. ASSUME NEW h \in Received("1/2")'
          PROVE  \/ h \in Received("1/2") /\ h.gtk <= ap.GTK
                 \/ h \in Msg1of2(ap') /\ h.gtk = ap'.GTK
      <4>1. h \in Received("1/2") \/ h \in Msg1of2(ap')
        BY <2>1, <3>2 DEF Received
      <4> QED BY <1>4, <2>3, <4>1
    <3>3. ~(ap'.GTK <= ap.GTK)
      BY <1>3, <3>1
    <3>4. \/ f \in Received("1/2") /\ g \in Received("1/2")
          \/ f \in Msg1of2(ap') /\ g \in Msg1of2(ap')
      BY <2>5, <3>2, <3>3
    <3> QED BY <2>3, <2>5, <3>4 DEF NoRetransmittedKeys
  <2> QED BY <1>3, <2>2, <2>4, <2>5 DEF NoRetransmittedKeys
<1>7. CASE Starts
  <2>1. ~Negotiating(ap') /\ net' = net \cup Msg1of4(ap')
    BY <1>7 DEF Starts, Negotiating
  <2>2. \A g \in Msg1of4(ap') : g.type = "1/4"
    BY DEF Msg1of4, Frame
  <2>3. Received("3/4")' = Received("3/4") /\ Received("1/2")' = Received("1/2")
    BY <2>1, <2>2 DEF Received
  <2> QED BY <1>3, <2>1, <2>3 DEF NoRetransmittedKeys, LastSNonce, Negotiating
<1>8. CASE Repeats
  BY <1>3, <1>8 DEF Repeats, NoRetransmittedKeys, LastSNonce
<1>9. ASSUME NEW f \in Received("2/4"), Calculates(f)
      PROVE  NoRetransmittedKeys' /\ LastSNonce'
  <2>1. CASE f.ptk # <<ap.ANonce, f.nonce>>
    <3>1. net' = net /\ ~Negotiating(ap')
      BY <1>9, <2>1 DEF Calculates, Negotiating
    <3> QED BY <1>3, <3>1 DEF NoRetransmittedKeys, LastSNonce, Negotiating, Received
  <2>2. CASE f.ptk = <<ap.ANonce, f.nonce>>
    <3>1. /\ Negotiating(ap') /\ net' = net \cup Msg3of4(ap') /\ ap'.ANonce = ap.ANonce
          /\ ap'.PTK = <<ap.ANonce, f.nonce>> /\ ap'.SNonce = f.nonce
          /\ ap'.prev_key_replay = MarkInvalid(ap.key_replay, f.rc)
      BY <1>9, <2>2 DEF Calculates, Negotiating
    <3>2. /\ \A g \in Msg3of4(ap') : g.type = "3/4" /\ g.ptk = ap'.PTK
          /\ \A g, h \in Msg3of4(ap') : g = h
      BY DEF Msg3of4, Frame
    <3>3. Received("1/4")' = Received("1/4") /\ Received("1/2")' = Received("1/2")
      BY <3>1, <3>2 DEF Received
    <3>4. \A g \in Received("3/4")' : g \in Received("3/4") \/ g \in Msg3of4(ap')
      BY <3>1 DEF Received
    <3>5. /\ f.rc \in Nat
          /\ \E h \in Received("1/4") : h.rc = f.rc /\ h.nonce = f.ptk[1]
      BY <1>2, AnswersWhat DEF Forward
    <3>6. ASSUME ap.no_retries, NEW g \in Received("3/4") PROVE g.ptk # ap'.PTK
      <4>1. g.nonce = g.ptk[1] /\ ap'.PTK[1] = ap.ANonce /\ ap'.PTK[2] = f.nonce
        BY <1>2, <3>1 DEF KeyFrames
      <4>2. CASE Starting(ap)
        BY <1>2, <4>1, <4>2 DEF Forward, NoMsg3Yet
      <4>3. CASE Negotiating(ap)
        <5>1. ReplayCounterValid(ap.prev_key_replay, f.rc) /\ ap.SNonce # f.nonce
          BY <1>9, <4>3 DEF Calculates, Starting, Negotiating
        <5>2. g.nonce = ap.ANonce => g.ptk[2] = ap.SNonce
          BY <3>5, <3>6, <4>3, <5>1 DEF LastSNonce
        <5> QED BY <4>1, <5>1, <5>2
      <4> QED BY <1>9, <4>2, <4>3 DEF Calculates
    <3>7. NoRetransmittedKeys'
      BY <1>3, <3>2, <3>3, <3>4, <3>6 DEF NoRetransmittedKeys
    <3>8. LastSNonce'
      <4>1. CASE Starting(ap)
        <5>1. ASSUME NEW g \in Received("3/4")', g.nonce = ap'.ANonce
              PROVE  g.ptk[2] = ap'.SNonce
          <6>1. g \in Msg3of4(ap')
            BY <1>2, <3>1, <3>4, <4>1, <5>1 DEF Forward, NoMsg3Yet
          <6> QED BY <3>1, <3>2, <6>1
        <5> QED BY <5>1 DEF LastSNonce
      <4>2. CASE Negotiating(ap)
        <5>1. ASSUME NEW g \in Received("1/4")'
              PROVE  ~ReplayCounterValid(ap'.prev_key_replay, g.rc)
          <6>1. ~ReplayCounterValid(ap.key_replay, g.rc)
            BY <1>2, <3>3, <4>2, <5>1 DEF Forward, OnlyThisAnswered
          <6> QED BY <1>2, <1>3, <3>1, <3>5, <6>1, ValidLeft DEF Forward
        <5> QED BY <5>1 DEF LastSNonce
      <4> QED BY <1>9, <4>1, <4>2 DEF Calculates
    <3> QED BY <3>7, <3>8
  <2> QED BY <2>1, <2>2
<1> QED BY <1>5, <1>6, <1>7, <1>8, <1>9 DEF ApMove

\* The inductive invariant.
UnrepeatedInv == ForwardInv /\ TimerInv /\ NoRetransmittedKeys /\ LastSNonce

\* Every step keeps it.
LEMMA NextUnrepeated ==
    ASSUME MaxAssoc <= 1, ~GtkRequests
    PROVE  UnrepeatedInv /\ [Next]_vars => UnrepeatedInv'
<1> SUFFICES ASSUME UnrepeatedInv, [Next]_vars
             PROVE  NoRetransmittedKeys' /\ LastSNonce'
  BY NextForward, NextTimer DEF UnrepeatedInv
<1>1. /\ ForwardInv /\ ForwardInv' /\ Forward /\ NoRetransmittedKeys /\ LastSNonce
      /\ NotAsked
  BY NextForward DEF UnrepeatedInv, ForwardInv, TimerInv, NotAsked
<1>2. Inv /\ Inv' /\ RefOK
  BY <1>1 DEF ForwardInv, RefInv, AgreeInv, OrderInv
<1>3. ap \in ApType /\ ap.prev_key_replay \in KeyReplays
  BY <1>2, InvTypes DEF ApType
<1>4. CASE ApStep /\ ApMove
  BY <1>1, <1>2, <1>4, ApUnrepeated
<1>5. CASE ApAssociates
  <2>1. ap \in ApType /\ ap.assoc \in Nat /\ MaxAssoc \in Nat
    BY <1>2, InvTypes, ApBoundsAssumption DEF ApType
  <2>2. ap.assoc = 0 /\ ApNewSta
    BY <1>5, <2>1 DEF ApAssociates, ApNewSta, ApStaAssociatedAgain, ApReAuth
  <2>3. Idle /\ ApJoin
    BY <1>1, <1>2, <1>5, <2>2, ApAssociatesJoins DEF Forward, Inv
  <2>4. net' = Msg1of4(ap') /\ ap'.state = "PTKSTART"
    BY <2>2, <2>3 DEF Idle, ApJoin
  <2>5. \A f \in net' : f.type = "1/4"
    BY <2>4 DEF Msg1of4, Frame
  <2> QED BY <2>4, <2>5 DEF NoRetransmittedKeys, LastSNonce, Negotiating, Received
<1>6. CASE StaStep /\ ap' = ap
  <2>1. /\ net \subseteq net' /\ \A g \in net' \ net : StaFrame(g)
    BY <1>6, StaSent
  <2>2. /\ Received("1/4")' = Received("1/4") /\ Received("3/4")' = Received("3/4")
        /\ Received("1/2")' = Received("1/2")
    BY <2>1 DEF StaFrame, Received
  <2> QED BY <1>1, <1>3, <1>6, <2>2, QuietUnrepeated DEF Negotiating
<1>7. CASE ap' = ap /\ net' = net
  <2>1. /\ Received("1/4")' = Received("1/4") /\ Received("3/4")' = Received("3/4")
        /\ Received("1/2")' = Received("1/2")
    BY <1>7 DEF Received
  <2> QED BY <1>1, <1>3, <1>7, <2>1, QuietUnrepeated DEF Negotiating
<1> QED BY <1>2, <1>4, <1>5, <1>6, <1>7, OnceSteps

\* Within one association, and with a supplicant that never asks for a GTK,
\* wpa_disable_eapol_key_retries keeps its promise: an SNonce update makes
\* another PTK, the 1/4 it answers is used up with it, and every 1/2 has a GTK
\* of its own.
THEOREM NeverRetransmitted ==
    ASSUME MaxAssoc <= 1, ~GtkRequests
    PROVE  Spec => []NoRetransmittedKeys
<1>1. Init => UnrepeatedInv
  <2> SUFFICES ASSUME Init PROVE NoRetransmittedKeys /\ LastSNonce
    BY InitForward, InitTimer DEF UnrepeatedInv
  <2> QED BY DEF Init, NoRetransmittedKeys, LastSNonce, Received
<1>2. UnrepeatedInv => NoRetransmittedKeys
  BY DEF UnrepeatedInv
<1> QED BY <1>1, <1>2, NextUnrepeated, PTL DEF Spec
=============================================================================
