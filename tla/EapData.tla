------------------------------ MODULE EapData ------------------------------
(* The frames of an 802.1X exchange and the constants that both ends share.  A *)
(* frame has a kind, the EAP Identifier and what EAP-PSK puts into it: the     *)
(* random values RAND_S and RAND_P and the key its MAC was computed with.      *)
EXTENDS Integers, Sequences

CONSTANTS IdMod,      \* number of EAP Identifiers (256 in a frame)
          RandMod,    \* number of distinct random values of each side
          MaxRounds,  \* EAP_MAX_AUTH_ROUNDS
          MaxSteps    \* steps of a loop over the state machines in one event (100)

ASSUME EapDataAssumption ==
    /\ IdMod \in Nat /\ IdMod >= 4
    /\ RandMod \in Nat /\ RandMod >= 3
    /\ MaxRounds \in Nat \ {0}
    /\ MaxSteps \in Nat \ {0}

Frame(kind, id, data) == [kind |-> kind, id |-> id, data |-> data]
NoFrame == Frame("none", -1, <<>>)

\* The EAP Type of a request or a response.
MethodOf(f) == CASE f.kind \in {"psk1", "psk2", "psk3", "psk4"} -> "psk"
                 [] OTHER -> f.kind

\* The pre-shared key of the user database; a station may have another one.
UserPsk == 0

\* The MSK is derived from the key and RAND_P only (eap_psk_derive_keys).
NoKey == <<>>
DeriveKeys(psk, randP) == <<psk, randP>>

Dec(timer) == IF timer > 0 THEN timer - 1 ELSE timer
=============================================================================
