----------------------------- MODULE PmksaAuth ------------------------------
(***************************************************************************)
(* The PMKSA cache of one authenticator (one BSS), src/ap/pmksa_cache_     *)
(* auth.c, and what wpa_auth.c keeps of the station: operators on a record *)
(*   list    entries, in the order of the linked list                      *)
(*   timer   seconds until pmksa_cache_expire()                            *)
(*   pmksa   sm->pmksa of the station, by its PMK                          *)
(*   msk     key of the last EAP session, eap_if->eapKeyData               *)
(* A PMK stands for its PMKID too: for one pair of addresses they          *)
(* determine each other.  Times are relative: ttl is expiration - now.     *)
(***************************************************************************)
EXTENDS Integers, Sequences, FiniteSets, SequencesExt, FiniteSetsExt

NoKey == 0
NoTimer == -1
Floor == -2                     \* bound: an entry that is older stays at it

AuthType(stas, keys, life) ==
    [list : Seq([spa : stas, pmk : keys, ttl : Floor .. life]),
     timer : NoTimer .. life + 1,
     pmksa : keys \cup {NoKey}, msk : keys \cup {NoKey}]

NewAuth == [list |-> <<>>, timer |-> NoTimer, pmksa |-> NoKey, msk |-> NoKey]

\* Fault: entries stay in the order in which they came.
FaultPlace(list, ttl) == Len(list) + 1

\* Where a list ordered by expiration time takes an entry.
Place(list, ttl) ==
    LET later == {i \in DOMAIN list : list[i].ttl > ttl}
    IN IF later = {} THEN Len(list) + 1 ELSE Min(later)

\* Seconds until the timeout of a list whose first entry has this ttl.
ExpireIn(ttl) == (IF ttl < 0 THEN 0 ELSE ttl) + 1

AuthSetExpiration(b) ==
    [b EXCEPT !.timer = IF b.list = <<>> THEN NoTimer ELSE ExpireIn(b.list[1].ttl)]

\* A list without the entries at some positions: the n-th of the others.
Nth(kept, n) == CHOOSE i \in kept : Cardinality({j \in kept : j <= i}) = n

Without(list, gone) ==
    [n \in 1 .. Cardinality(DOMAIN list \ gone) |-> list[Nth(DOMAIN list \ gone, n)]]

\* Fault: the state machine of the station is not told.
FaultAuthFree(b, spa, gone) == [b EXCEPT !.list = Without(@, gone)]

\* pmksa_cache_free_entry() for the entries at some positions, with
\* wpa_auth_pmksa_free_cb().
AuthFree(b, spa, gone) ==
    [b EXCEPT !.list = Without(@, gone),
              !.pmksa = IF \E i \in gone : b.list[i].spa = spa /\ b.list[i].pmk = @
                        THEN NoKey ELSE @]

\* Fault: a new first entry does not set the timeout.
FaultAuthLink(b, e) == [b EXCEPT !.list = InsertAt(@, Place(@, e.ttl), e)]

AuthLink(b, e) ==
    LET n == Place(b.list, e.ttl)
        new == [b EXCEPT !.list = InsertAt(@, n, e)]
    IN IF n = 1 THEN AuthSetExpiration(new) ELSE new

\* pmksa_cache_auth_get() without a PMKID: where the first entry of the station is.
AuthFirst(list, spa) ==
    LET found == {i \in DOMAIN list : list[i].spa = spa}
    IN IF found = {} THEN {} ELSE {Min(found)}

\* wpa_auth_pmksa_remove().
AuthRemove(b, me, spa) == AuthFree(b, me, AuthFirst(b.list, spa))

\* Fault: the old entry of the station is not removed.
FaultAuthAdd(b, me, max, e) ==
    AuthLink(IF Len(b.list) >= max THEN AuthFree(b, me, {1}) ELSE b, e)

\* pmksa_cache_auth_add(): replace the first entry of the station, make room.
AuthAdd(b, me, max, e) ==
    LET old == AuthRemove(b, me, e.spa)
        room == IF Len(old.list) >= max /\ old.list # <<>>
                THEN AuthFree(old, me, {1}) ELSE old
    IN AuthLink(room, e)

\* pmksa_cache_expire().
AuthExpire(b, me) ==
    LET late == {i \in DOMAIN b.list : b.list[i].ttl > 0}
        n == IF late = {} THEN Len(b.list) ELSE Min(late) - 1
    IN AuthSetExpiration(AuthFree(b, me, 1 .. n))

\* wpa_validate_wpa_ie() for a PMKID, with the entries okc of the BSSs that
\* may be asked for it.
AuthValidate(b, me, pmk, okc) ==
    LET clear == [b EXCEPT !.pmksa = NoKey]
        own == \E i \in DOMAIN b.list : b.list[i].spa = me /\ b.list[i].pmk = pmk
        other == {e \in okc : e.spa = me /\ e.pmk = pmk}
    IN IF own THEN {[clear EXCEPT !.pmksa = pmk]}
       ELSE IF other = {} THEN {clear}
       ELSE {AuthLink([clear EXCEPT !.pmksa = pmk], e) : e \in other}

\* WPA_PTK INITPMK: what becomes sm->PMK.
AuthInitPmk(b) == IF b.pmksa # NoKey THEN b.pmksa ELSE b.msk

Older(ttl) == IF ttl = Floor THEN ttl ELSE ttl - 1

Later(timer) == IF timer = NoTimer THEN timer ELSE timer - 1

AuthAged(e) == [e EXCEPT !.ttl = Older(@)]

AuthTick(b) ==
    [b EXCEPT !.list = [i \in DOMAIN @ |-> AuthAged(@[i])], !.timer = Later(@)]
=============================================================================
