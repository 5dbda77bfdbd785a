---------------------------- MODULE PairwiseKeys ----------------------------
(***************************************************************************)
(* What the 4-way handshake promises of pairwise keys, without frames,     *)
(* nonces, counters or timers: keys are confirmed by the station, given to *)
(* the two drivers once each, and given to that of the AP only when the    *)
(* station has confirmed them and has no other.                            *)
(***************************************************************************)
EXTENDS Sequences

CONSTANT NoKey

VARIABLES
    confirmed,       \* keys that the station has confirmed
    staKey, apKey,   \* the key in use at either end
    staInstalls, apInstalls   \* the keys given to either driver so far

vars == <<confirmed, staKey, apKey, staInstalls, apInstalls>>

In(k, seq) == \E i \in DOMAIN seq : seq[i] = k

Init ==
    /\ confirmed = {}
    /\ staKey = NoKey /\ apKey = NoKey
    /\ staInstalls = <<>> /\ apInstalls = <<>>

\* The station confirms a key that neither end has ever used and uses it, unless
\* it fails to install it, or loses it at once.
Confirm(k) ==
    /\ k # NoKey /\ k \notin confirmed /\ ~In(k, staInstalls) /\ ~In(k, apInstalls)
    /\ confirmed' = confirmed \cup {k}
    /\ \/ staKey' \in {k, NoKey} /\ staInstalls' = Append(staInstalls, k)
       \/ staKey' = NoKey /\ UNCHANGED staInstalls
    /\ UNCHANGED <<apKey, apInstalls>>

\* The AP uses a key that the station has confirmed.
Install(k) ==
    /\ k \in confirmed /\ ~In(k, apInstalls)
    /\ staKey \in {k, NoKey}
    /\ apKey' = k
    /\ apInstalls' = Append(apInstalls, k)
    /\ UNCHANGED <<confirmed, staKey, staInstalls>>

\* Either end forgets its key.
StaForgets ==
    /\ staKey' = NoKey
    /\ UNCHANGED <<confirmed, apKey, staInstalls, apInstalls>>

ApForgets ==
    /\ apKey' = NoKey
    /\ UNCHANGED <<confirmed, staKey, staInstalls, apInstalls>>

Next ==
    \/ \E k \in confirmed' : Confirm(k) \/ Install(k)
    \/ StaForgets \/ ApForgets

Spec == Init /\ [][Next]_vars
=============================================================================
