----------------------------- MODULE PmksaSupp ------------------------------
(***************************************************************************)
(* The PMKSA cache of a station, src/rsn_supp/pmksa_cache.c, with the      *)
(* parts of struct wpa_sm that it touches: operators on a record           *)
(*   list    entries, in the order of the linked list                      *)
(*   expire, reauth   seconds until the two timeouts                       *)
(*   cur     cur_pmksa, by authenticator and PMK                           *)
(*   pmk     sm->pmk; NoKey when pmk_len is 0                              *)
(*   bss     sm->bssid                                                     *)
(*   msk     key of the EAPOL state machine                                *)
(*   deauth  wpa_sm_deauthenticate() has been called in this step          *)
(***************************************************************************)
EXTENDS PmksaAuth

NoBss == "none"
NoCur == [aa |-> NoBss, pmk |-> NoKey]

SuppType(bss, keys, life) ==
    [list : Seq([aa : bss, pmk : keys, ttl : Floor .. life, reauth : 0 .. life,
                 opp : BOOLEAN]),
     expire : NoTimer .. life + 1, reauth : NoTimer .. life,
     cur : [aa : bss \cup {NoBss}, pmk : keys \cup {NoKey}],
     pmk : keys \cup {NoKey}, bss : bss \cup {NoBss},
     msk : keys \cup {NoKey}, deauth : {FALSE}]

NewSupp == [list |-> <<>>, expire |-> NoTimer, reauth |-> NoTimer, cur |-> NoCur,
            pmk |-> NoKey, bss |-> NoBss, msk |-> NoKey, deauth |-> FALSE]

Ref(e) == [aa |-> e.aa, pmk |-> e.pmk]
At(s, aa) == {e \in Range(s.list) : e.aa = aa}
Known(s, ref) == \E e \in Range(s.list) : Ref(e) = ref

\* pmksa_cache_set_expiration(): both timeouts follow the first entry.
SetExpiration(s) ==
    IF s.list = <<>> THEN [s EXCEPT !.expire = NoTimer, !.reauth = NoTimer]
    ELSE [s EXCEPT !.expire = ExpireIn(s.list[1].ttl),
                   !.reauth = IF s.cur # NoCur \/ At(s, s.bss) # {}
                              THEN s.list[1].reauth ELSE NoTimer]

\* Fault: an entry that is replaced stays the current one.
FaultFreeCb(s, gone, reason) ==
    LET expired == reason = "EXPIRE" /\ \E e \in gone : e.pmk = s.pmk
    IN IF expired THEN [s EXCEPT !.cur = NoCur, !.pmk = NoKey, !.deauth = TRUE] ELSE s

\* wpa_sm_pmksa_free_cb() for the entries gone.
FreeCb(s, gone, reason) ==
    LET current == \E e \in gone : Ref(e) = s.cur
        expired == reason = "EXPIRE" /\ \E e \in gone : e.pmk = s.pmk
        end == expired \/ (current /\ reason # "REPLACE")
    IN [s EXCEPT !.cur = IF current \/ expired THEN NoCur ELSE @,
                 !.pmk = IF end THEN NoKey ELSE @,
                 !.deauth = @ \/ end]

Unlink(s, gone) ==
    [s EXCEPT !.list = Without(@, {i \in DOMAIN s.list : s.list[i] \in gone})]

Free(s, gone, reason) == FreeCb(Unlink(s, gone), gone, reason)

\* pmksa_cache_flush() for one network and the PMKs that match.
Flush(s, gone) == IF gone = {} THEN s ELSE SetExpiration(Free(s, gone, "FREE"))

\* The entry of this AP is replaced, and every other one with its PMK freed
\* unless it has only been guessed.
Replace(s, aa) ==
    LET old == At(s, aa)
        same == {e \in Range(s.list) : \E o \in old : ~o.opp /\ e.pmk = o.pmk}
    IN FreeCb(Flush(Unlink(s, old), same \ old), old, "REPLACE")

\* Fault: the first entry has to go, also when it is in use.
FaultVictim(s) == {s.list[1]}

\* The oldest entry that is not the current one.
Victim(s) ==
    IF Ref(s.list[1]) # s.cur THEN {s.list[1]}
    ELSE IF Len(s.list) > 1 THEN {s.list[2]} ELSE {}

\* pmksa_cache_add(); an entry with the same PMK stays as it is.
Add(s, max, aa, pmk, life, reauth) ==
    IF Known(s, [aa |-> aa, pmk |-> pmk]) THEN s
    ELSE LET old == Replace(s, aa)
             room == IF Len(old.list) >= max /\ old.list # <<>>
                     THEN Free(old, Victim(old), "FREE") ELSE old
             e == [aa |-> aa, pmk |-> pmk, ttl |-> life, reauth |-> reauth, opp |-> FALSE]
             n == Place(room.list, life)
             new == [room EXCEPT !.list = InsertAt(@, n, e)]
         IN IF n = 1 THEN SetExpiration(new) ELSE new

\* pmksa_cache_clone_entry(): the expiration time is changed after the entry
\* has got its place in the list.
Clone(s, max, aa, old, life, reauth) ==
    LET new == Add(s, max, aa, old.pmk, life, reauth)
    IN [new EXCEPT !.list = [i \in DOMAIN @ |->
            IF @[i].aa = aa THEN [@[i] EXCEPT !.ttl = old.ttl, !.opp = TRUE] ELSE @[i]]]

\* pmksa_cache_set_current() with a BSSID, then wpa_sm_set_pmk_from_pmksa().
SetCurrent(s, max, aa, okc, life, reauth) ==
    LET none == [s EXCEPT !.cur = NoCur]
        guess == At(none, aa) = {} /\ okc /\ none.list # <<>>
        new == IF guess THEN Clone(none, max, aa, none.list[1], life, reauth) ELSE none
        pmks == {e.pmk : e \in At(new, aa)}
        pmk == IF pmks = {} THEN NoKey ELSE CHOOSE p \in pmks : TRUE
    IN [new EXCEPT !.cur = IF pmk = NoKey THEN NoCur ELSE [aa |-> aa, pmk |-> pmk],
                   !.pmk = pmk]

\* pmksa_cache_expire().
Expire(s) ==
    LET late == {i \in DOMAIN s.list : s.list[i].ttl > 0}
        n == IF late = {} THEN Len(s.list) ELSE Min(late) - 1
    IN SetExpiration(Free(s, {s.list[i] : i \in 1 .. n}, "EXPIRE"))

\* The entry that message 1/4 from aa names is the current one, when there is
\* none yet.
LookUp(s, ref) == IF s.cur = NoCur /\ Known(s, ref) THEN [s EXCEPT !.cur = ref] ELSE s

\* The key of the EAPOL state machine becomes the PMK and an entry.
FromEapol(s, max, aa, pmk, life, reauth) ==
    LET added == Add([s EXCEPT !.pmk = s.msk], max, aa, s.msk, life, reauth)
    IN IF added.cur = NoCur /\ ~Known(added, [aa |-> aa, pmk |-> pmk])
       THEN [res |-> "fail", sm |-> added]
       ELSE [res |-> "ok",
             sm |-> [added EXCEPT !.cur = IF @ = NoCur THEN [aa |-> aa, pmk |-> s.msk] ELSE @]]

\* Fault: the current entry is used for whatever PMKID.
FaultGetPmk(s, max, aa, pmk, life, reauth) ==
    LET look == LookUp(s, [aa |-> aa, pmk |-> pmk])
    IN IF look.cur # NoCur THEN [res |-> "ok", sm |-> [look EXCEPT !.pmk = look.cur.pmk]]
       ELSE IF s.msk = NoKey THEN [res |-> "start", sm |-> look]
       ELSE FromEapol(look, max, aa, pmk, life, reauth)

\* wpa_supplicant_get_pmk() for the PMKID of message 1/4 from aa: the outcome,
\* and what is left of the state.
GetPmk(s, max, aa, pmk, life, reauth) ==
    LET look == LookUp(s, [aa |-> aa, pmk |-> pmk])
    IN IF look.cur = [aa |-> aa, pmk |-> pmk]
       THEN [res |-> "ok", sm |-> [look EXCEPT !.pmk = pmk]]
       ELSE IF s.msk = NoKey THEN [res |-> "start", sm |-> [look EXCEPT !.cur = NoCur]]
       ELSE FromEapol(look, max, aa, pmk, life, reauth)

\* wpa_supplicant_key_neg_complete().
Confirm(s) ==
    [s EXCEPT !.list = [i \in DOMAIN @ |->
        IF Ref(@[i]) = s.cur THEN [@[i] EXCEPT !.opp = FALSE] ELSE @[i]]]

SuppAged(e) == [e EXCEPT !.ttl = Older(@), !.reauth = IF @ = 0 THEN 0 ELSE @ - 1]

SuppTick(s) ==
    [s EXCEPT !.list = [i \in DOMAIN @ |-> SuppAged(@[i])],
              !.expire = Later(@), !.reauth = Later(@)]
=============================================================================
