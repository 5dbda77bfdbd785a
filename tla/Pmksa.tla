------------------------------- MODULE Pmksa --------------------------------
(***************************************************************************)
(* A station with its PMKSA cache and the BSSs of one hostapd process with *)
(* theirs, using WPA2-Enterprise: how PMKs get into the caches, are used   *)
(* for the next association, shared between BSSs (opportunistic key        *)
(* caching), replaced, evicted, removed and expire on both sides.          *)
(*                                                                         *)
(* EAP and the 4-way handshake are the steps after which they touch the    *)
(* caches.  BSSs that are not local belong to APs that cache nothing.      *)
(***************************************************************************)
EXTENDS PmksaSupp

CONSTANTS
    BSSs,            \* BSSIDs
    Others,          \* other stations
    Keys,            \* names of PMKs
    Lifetime,        \* bound of every lifetime
    Configs          \* see ConfigType

Me == "station"

\* The PMKs of other stations, which nothing tells apart.
OtherKey == -1

ConfigType ==
    [bss : SUBSET BSSs, local : SUBSET BSSs, others : SUBSET Others,
     okc : BOOLEAN,
     command : BOOLEAN,           \* PREAUTH commands, for any BSS
     admin : BOOLEAN,             \* operators flush, remove, rekey and reauthenticate
     keys : SUBSET Keys,
     life : 1 .. Lifetime,                   \* dot11RSNAConfigPMKLifetime
     reauth : 0 .. Lifetime,      \* part of it, dot11RSNAConfigPMKReauthThreshold
     sessions : SUBSET (1 .. Lifetime),      \* lifetimes a RADIUS server grants
     max : Nat \ {0}, apMax : Nat \ {0}]    \* pmksa_cache_max_entries of the two

ASSUME KeysAssumption == Keys \subseteq Nat \ {NoKey}
ASSUME LifetimeAssumption == Lifetime \in Nat \ {0}
ASSUME ConfigAssumption ==
    Configs \subseteq ConfigType /\ \A c \in Configs : c.local \subseteq c.bss

VARIABLES
    cfg,             \* the configuration, never changed
    ap,              \* cache and state machine of every BSS
    sta,             \* struct wpa_sm of the station
    conn             \* how far its connection is, the PMKSA it asked for, sm->PMK
                     \* of the AP, whether it has been complete before, and
                     \* whether AUTH_PAE of the AP is in AUTHENTICATED

vars == <<cfg, ap, sta, conn>>

Stages == {"off", "auth", "eap", "msg1", "ptk", "done"}
Off == [stage |-> "off", bss |-> NoBss, req |-> NoCur, pmk |-> NoKey, up |-> FALSE,
        authenticated |-> FALSE]

Init ==
    /\ cfg \in Configs
    /\ ap = [b \in cfg.local |-> NewAuth]
    /\ sta = NewSupp
    /\ conn = Off

\* PMKs that nobody has; which of them a new PMK is does not matter.
FreshKeys ==
    LET free ==
      cfg.keys \ ({e.pmk : e \in Range(sta.list)} \cup {sta.pmk, sta.msk, conn.req.pmk, conn.pmk}
              \cup UNION {{ap[b].pmksa, ap[b].msk} : b \in cfg.local}
              \cup UNION {{e.pmk : e \in Range(ap[b].list)} : b \in cfg.local})
    IN {k \in free : \A l \in free : k <= l}

\* wpa_sm_notify_disassoc() and what goes with it.
Disassociated(s) ==
    [s EXCEPT !.cur = NoCur, !.bss = NoBss, !.pmk = NoKey, !.msk = NoKey, !.deauth = FALSE]

\* ap_free_sta(), when the AP hears that the station leaves.
Forgotten(b) == [b EXCEPT !.pmksa = NoKey, !.msk = NoKey]

Leave(s, a) ==
    /\ sta' = Disassociated(s)
    /\ conn' = Off
    /\ \/ ap' = a
       \/ conn.bss \in cfg.local /\ ap' = [a EXCEPT ![conn.bss] = Forgotten(@)]

\* The rest of a step of the station: it may have been deauthenticated.
Go(s, c, a) ==
    IF s.deauth THEN Leave(s, a) ELSE sta' = s /\ conn' = c /\ ap' = a

At1(stage) == [conn EXCEPT !.stage = stage]
AtEap == [conn EXCEPT !.stage = "eap", !.authenticated = FALSE]
Msg1From(pmk) == [conn EXCEPT !.stage = "msg1", !.pmk = pmk]

\* The AP (re)starts EAP, without its PMKSA when the station has asked for it.
Restarted(b, asked) ==
    [b EXCEPT !.msk = NoKey, !.pmksa = IF asked THEN NoKey ELSE @]

Bss(b, New(_)) == IF b \in cfg.local THEN [ap EXCEPT ![b] = New(@)] ELSE ap

(***************************************************************************)
(* Connection.                                                             *)
(***************************************************************************)

\* sme_send_authentication(): choose the PMKSA for this BSS.
SmeAuthenticate(b) ==
    /\ conn.stage = "off"
    /\ b \in cfg.bss
    /\ LET s == SetCurrent(sta, cfg.max, b, cfg.okc, cfg.life, cfg.reauth)
       IN /\ sta' = s
          /\ conn' = [Off EXCEPT !.stage = "auth", !.bss = b, !.req = s.cur]
    /\ UNCHANGED <<cfg, ap>>

\* The association: wpa_validate_wpa_ie() at the AP, where a PMKSA leads
\* straight to message 1/4; wpa_find_assoc_pmkid() at the station.
Associate ==
    /\ conn.stage = "auth"
    /\ sta' = [sta EXCEPT !.bss = conn.bss, !.msk = NoKey,
                          !.cur = IF conn.req # NoCur /\ Known(sta, conn.req)
                                  THEN conn.req ELSE @]
    /\ IF conn.bss \in cfg.local
       THEN \E b \in AuthValidate(ap[conn.bss], Me, conn.req.pmk,
                        IF cfg.okc THEN UNION {Range(ap[x].list) : x \in cfg.local}
                        ELSE {}) :
              IF b.pmksa = NoKey
              THEN ap' = [ap EXCEPT ![conn.bss] = Restarted(b, FALSE)] /\ conn' = AtEap
              ELSE ap' = [ap EXCEPT ![conn.bss] = b] /\ conn' = Msg1From(AuthInitPmk(b))
       ELSE ap' = ap /\ conn' = AtEap
    /\ UNCHANGED cfg

\* EAP ends with a new key at both ends; INITPMK at the AP.
EapSuccess ==
    /\ conn.stage = "eap"
    /\ \E k \in FreshKeys :
         /\ sta' = [sta EXCEPT !.msk = k]
         /\ ap' = Bss(conn.bss, LAMBDA b : [b EXCEPT !.msk = k])
         /\ conn' = Msg1From(IF conn.bss \in cfg.local THEN AuthInitPmk(ap'[conn.bss]) ELSE k)
    /\ UNCHANGED cfg

\* wpa_supplicant_process_1_of_4().  The current entry, if any, is one for this
\* AP: to replace it does not deauthenticate.
Msg1 ==
    /\ conn.stage = "msg1"
    /\ LET r == GetPmk(sta, cfg.max, conn.bss, conn.pmk, cfg.life, cfg.reauth)
       IN \/ r.res = "ok" /\ sta' = r.sm /\ conn' = At1("ptk") /\ ap' = ap
          \/ /\ r.res = "start"
             /\ sta' = r.sm /\ conn' = AtEap
             /\ ap' = Bss(conn.bss, LAMBDA b : Restarted(b, TRUE))
          \/ r.res = "fail" /\ Leave(r.sm, ap)
    /\ UNCHANGED cfg

\* The handshake completes.  Unless it renewed the PTK alone, AUTH_PAE enters
\* AUTHENTICATED, where ieee802_1x_finished() caches the key of the EAP session,
\* if there is one.
Complete ==
    /\ conn.stage = "ptk"
    /\ sta.pmk = conn.pmk
    /\ sta' = Confirm(sta)
    /\ conn' = [At1("done") EXCEPT !.req = NoCur, !.up = TRUE, !.authenticated = TRUE]
    /\ IF conn.bss \in cfg.local /\ ap[conn.bss].msk # NoKey /\ ~conn.authenticated
       THEN \E life \in cfg.sessions :
              ap' = [ap EXCEPT ![conn.bss] =
                       AuthAdd(@, Me, cfg.apMax,
                               [spa |-> Me, pmk |-> ap[conn.bss].msk, ttl |-> life])]
       ELSE ap' = ap
    /\ UNCHANGED cfg

\* Any attempt may fail, any connection end.
Disconnect ==
    /\ conn.stage # "off"
    /\ Leave(sta, ap)
    /\ UNCHANGED cfg

\* EAPOL_AUTH_REAUTHENTICATE: the AP keeps its PMKSA.
ApReauth ==
    /\ cfg.admin /\ conn.stage = "done" /\ conn.bss \in cfg.local
    /\ ap' = [ap EXCEPT ![conn.bss] = Restarted(@, FALSE)]
    /\ sta' = [sta EXCEPT !.msk = NoKey]
    /\ conn' = AtEap
    /\ UNCHANGED cfg

\* The AP renews the PTK with the PMK it has.
ApPtkRekey ==
    /\ cfg.admin /\ conn.stage = "done"
    /\ conn' = At1("msg1")
    /\ UNCHANGED <<cfg, ap, sta>>

(***************************************************************************)
(* The cache of the station.                                               *)
(***************************************************************************)
StaExpire ==
    /\ sta.expire = 0
    /\ Go(Expire(sta), conn, ap)
    /\ UNCHANGED cfg

\* pmksa_cache_reauth(): an EAPOL-Start, if it arrives.
StaReauth ==
    /\ sta.reauth = 0
    /\ LET s == [sta EXCEPT !.cur = NoCur, !.reauth = NoTimer]
       IN \/ sta' = s /\ UNCHANGED <<ap, conn>>
          \/ /\ conn.stage = "done"
             /\ sta' = [s EXCEPT !.msk = NoKey]
             /\ ap' = Bss(conn.bss, LAMBDA b : Restarted(b, TRUE))
             /\ conn' = AtEap
    /\ UNCHANGED cfg

\* rsn_preauth_eapol_cb(), and the end of preauthentication at the other BSS: one
\* without a PMKSA that has been used, unless by command.
Preauth(b) ==
    /\ conn.up /\ b \in cfg.bss \ {conn.bss}
    /\ cfg.command \/ \A e \in At(sta, b) : e.opp
    /\ \E k \in FreshKeys, life \in cfg.sessions :
         Go(Add(sta, cfg.max, b, k, cfg.life, cfg.reauth), conn,
            Bss(b, LAMBDA x : AuthAdd(x, Me, cfg.apMax,
                                      [spa |-> Me, pmk |-> k, ttl |-> life])))
    /\ UNCHANGED cfg

\* rsn_preauth_scan_result() of another BSS: with opportunistic key caching an
\* entry for it is guessed, anew if there is one that has not been used.
ScanResult(b) ==
    /\ cfg.okc /\ sta.list # <<>>
    /\ b # sta.bss /\ \A e \in At(sta, b) : e.opp
    /\ sta' = Clone(sta, cfg.max, b, sta.list[1], cfg.life, cfg.reauth)
    /\ UNCHANGED <<cfg, ap, conn>>

\* wpa_sm_pmksa_cache_flush() of the network.
StaFlush ==
    /\ cfg.admin /\ sta.list # <<>>
    /\ Go(Flush(sta, Range(sta.list)), conn, ap)
    /\ UNCHANGED cfg

(***************************************************************************)
(* The caches of the AP.                                                   *)
(***************************************************************************)
ApExpire(b) ==
    /\ ap[b].timer = 0
    /\ ap' = [ap EXCEPT ![b] = AuthExpire(@, Me)]
    /\ UNCHANGED <<cfg, sta, conn>>

\* EAP of another station.
OtherAdds(b, o) ==
    /\ \E life \in cfg.sessions :
         ap' = [ap EXCEPT ![b] = AuthAdd(@, Me, cfg.apMax,
                                         [spa |-> o, pmk |-> OtherKey, ttl |-> life])]
    /\ UNCHANGED <<cfg, sta, conn>>

\* wpa_auth_pmksa_remove(): the station is to authenticate again.
ApRemove(b) ==
    /\ cfg.admin /\ AuthFirst(ap[b].list, Me) # {}
    /\ ap' = [ap EXCEPT ![b] = AuthRemove(@, Me, Me)]
    /\ UNCHANGED <<cfg, sta, conn>>

\* pmksa_cache_auth_flush(), or a RADIUS Disconnect-Request that matches all.
ApFlush(b) ==
    /\ cfg.admin /\ ap[b].list # <<>>
    /\ ap' = [ap EXCEPT ![b] = AuthFree(@, Me, DOMAIN @.list)]
    /\ UNCHANGED <<cfg, sta, conn>>

Tick ==
    /\ sta.expire # 0 /\ sta.reauth # 0
    /\ \A b \in cfg.local : ap[b].timer # 0
    /\ sta' = SuppTick(sta)
    /\ ap' = [b \in cfg.local |-> AuthTick(ap[b])]
    /\ UNCHANGED <<cfg, conn>>

Next ==
    \/ \E b \in cfg.bss : SmeAuthenticate(b) \/ Preauth(b) \/ ScanResult(b)
    \/ Associate \/ EapSuccess \/ Msg1 \/ Complete \/ Disconnect
    \/ ApReauth \/ ApPtkRekey
    \/ StaExpire \/ StaReauth \/ StaFlush
    \/ \E b \in cfg.local :
         \/ ApExpire(b) \/ ApRemove(b) \/ ApFlush(b)
         \/ \E o \in cfg.others : OtherAdds(b, o)
    \/ Tick

Spec == Init /\ [][Next]_vars

(***************************************************************************)
(* Properties.                                                             *)
(***************************************************************************)

\* Types of the caches and of the connection.
TypeOK ==
    /\ cfg \in Configs
    /\ ap \in [cfg.local -> AuthType({Me} \cup Others, Keys \cup {OtherKey}, Lifetime)]
    /\ sta \in SuppType(BSSs, Keys, Lifetime)
    /\ conn \in [stage : Stages, bss : BSSs \cup {NoBss},
                 req : [aa : BSSs \cup {NoBss}, pmk : Keys \cup {NoKey}],
                 pmk : Keys \cup {NoKey}, up : BOOLEAN, authenticated : BOOLEAN]

\* What sm->pmksa of the AP and cur_pmksa of the station point to is in the
\* cache: free_cb clears them in time, whoever removes the entry.
NothingDangles ==
    /\ sta.cur # NoCur => Known(sta, sta.cur)
    /\ \A b \in cfg.local : ap[b].pmksa # NoKey =>
          \E e \in Range(ap[b].list) : e.spa = Me /\ e.pmk = ap[b].pmksa

\* Whatever has happened to the caches since the association, the two ends
\* enter the handshake with the same PMK.
PmkAgreement == conn.stage = "ptk" => sta.pmk = conn.pmk

\* The entry the station takes for the current one, never evicts and waits for
\* to expire is the one whose PMK protects the connection.
CurrentIsUsed ==
    conn.stage = "done" /\ sta.cur # NoCur =>
        sta.cur = [aa |-> conn.bss, pmk |-> sta.pmk]

\* Without opportunistic key caching no entry is kept for longer than a second
\* after its expiration time, at either end.
NoExpiredEntry ==
    ~cfg.okc =>
        /\ \A e \in Range(sta.list) : e.ttl >= -1
        /\ \A b \in cfg.local : \A e \in Range(ap[b].list) : e.ttl >= -1

\* A cache that is not empty has a timeout, no later than its first entry
\* needs.  (At the station an opportunistic entry may be first with the
\* timeout of the lifetime it was added with.)
ExpiryScheduled ==
    /\ sta.list # <<>> =>
          /\ sta.expire # NoTimer
          /\ ~cfg.okc => sta.expire <= ExpireIn(sta.list[1].ttl)
    /\ \A b \in cfg.local : ap[b].list # <<>> =>
          ap[b].timer \in 0 .. ExpireIn(ap[b].list[1].ttl)

\* Without opportunistic key caching the station never loses its connection to
\* the arrival of another PMK, however full its cache is.
CurrentSpared ==
    [][~cfg.okc => \A b \in cfg.bss : Preauth(b) => conn' = conn]_vars

\* Without opportunistic key caching the AP has one entry per station, and as
\* many as allowed: then wpa_auth_pmksa_remove() makes a station authenticate.
OneEntryPerStation ==
    ~cfg.okc => \A b \in cfg.local :
        /\ Len(ap[b].list) <= cfg.apMax
        /\ \A i, j \in DOMAIN ap[b].list :
              ap[b].list[i].spa = ap[b].list[j].spa => i = j
=============================================================================
