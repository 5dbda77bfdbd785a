------------------------------ MODULE EapolKey ------------------------------
(***************************************************************************)
(* EAPOL-Key frames between one authenticator (hostapd) and one supplicant *)
(* (wpa_supplicant) that share a PMK, and the link that carries them.      *)
(*                                                                         *)
(* A nonce is a number, fresh ones being larger than all before; 0 is the  *)
(* all-zero nonce.  A PTK is the pair of nonces it is derived from, and    *)
(* "the MIC verifies" means that the frame was made with the same PTK.  A  *)
(* GTK is the number of its generation.                                    *)
(*                                                                         *)
(* Frames are honest but the link is not: net holds every frame ever sent, *)
(* and a receiver may get any of them at any time, again, late, out of     *)
(* order or never.  EAPOL frames reach both daemons on a socket of their   *)
(* own, so they can also overtake, or be overtaken by, association events. *)
(***************************************************************************)
EXTENDS Integers, Sequences, FiniteSets

VARIABLE net

NoPTK == <<0, 0>>

\* type, Key Replay Counter, Key Nonce, the PTK behind the MIC (NoPTK: no MIC)
\* and the GTK in the key data (0: none).
Frame(type, rc, nonce, ptk, gtk) ==
    [type |-> type, rc |-> rc, nonce |-> nonce, ptk |-> ptk, gtk |-> gtk]

PTKs == Nat \X Nat
FrameTypes == {"1/4", "2/4", "3/4", "4/4", "1/2", "2/2", "request", "gtk request"}
Frames == [type : FrameTypes, rc : Nat, nonce : Nat, ptk : PTKs, gtk : Nat]

Received(type) == {f \in net : f.type = type}

(***************************************************************************)
(* sm->key_replay: the counters of the last RSNA_MAX_EAPOL_RETRIES frames  *)
(* sent, the newest first, and whether an answer to them is still awaited. *)
(***************************************************************************)
RSNA_MAX_EAPOL_RETRIES == 4
Slots == 1 .. RSNA_MAX_EAPOL_RETRIES

KeyReplays == [Slots -> [counter : Nat, valid : BOOLEAN]]
NoReplay == [i \in Slots |-> [counter |-> 0, valid |-> FALSE]]

\* wpa_replay_counter_valid(): the search stops at the first invalid entry.
ReplayCounterValid(ctr, rc) ==
    \E i \in Slots : ctr[i].counter = rc /\ \A j \in 1 .. i : ctr[j].valid

\* wpa_replay_counter_mark_invalid() of one counter, and with NULL of all.
MarkInvalid(ctr, rc) ==
    [i \in Slots |-> [ctr[i] EXCEPT !.valid = @ /\ ctr[i].counter # rc]]
MarkAllInvalid(ctr) == [i \in Slots |-> [ctr[i] EXCEPT !.valid = FALSE]]

\* The counter of the next frame, in __wpa_send_eapol().
NextReplay(ctr) ==
    [i \in Slots |-> IF i = 1 THEN [counter |-> ctr[1].counter + 1, valid |-> TRUE]
                     ELSE ctr[i - 1]]
=============================================================================
