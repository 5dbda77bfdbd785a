------------------------------ MODULE SaeData -------------------------------
(***************************************************************************)
(* SAE as src/common/sae.c keeps it for one peer (struct sae_data) and the *)
(* Authentication frames that carry it.                                    *)
(*                                                                         *)
(* A commit scalar, with its element, is a pair <<owner, number>>, a new   *)
(* one for every sae_prepare_commit().  Both ends know the password, so    *)
(* the keys of an exchange (KCK, PMK, PMKID) are the set of the two        *)
(* scalars they are derived from, and a Confirm verifies when it was made  *)
(* with the same KCK for the same pair of scalars.                         *)
(***************************************************************************)
EXTENDS Integers, Sequences, FiniteSets

NoScalar == <<0, 0>>
NoKey == {}
Scalars == Nat \X Nat
Key(s, t) == {s, t}

SaeStates == {"NOTHING", "COMMITTED", "CONFIRMED", "ACCEPTED"}
U16Max == 65535
U16 == 0 .. U16Max

SaeType ==
    [state : SaeStates, send_confirm : U16, rc : U16, sync : Nat,
     group : Nat, peer_commit_scalar : Scalars, pmk : SUBSET Scalars,
     cached : BOOLEAN,             \* history: pmk is from the PMKSA cache
     tmp : BOOLEAN,                \* sae->tmp is allocated, and in it:
     own_commit_scalar : Scalars, kck : SUBSET Scalars, token : BOOLEAN]

\* os_zalloc(), also what sae_clear_data() leaves.
NewSae ==
    [state |-> "NOTHING", send_confirm |-> 0, rc |-> 0, sync |-> 0, group |-> 0,
     peer_commit_scalar |-> NoScalar, pmk |-> NoKey, cached |-> FALSE,
     tmp |-> FALSE, own_commit_scalar |-> NoScalar, kck |-> NoKey, token |-> FALSE]

\* sae_clear_temp_data(): the PMK, the counters and the group stay.
ClearTempData(d) ==
    [d EXCEPT !.tmp = FALSE, !.own_commit_scalar = NoScalar, !.kck = NoKey,
              !.token = FALSE]

\* The state survives the change of group.
FaultSetGroup(d, g) == [NewSae EXCEPT !.tmp = TRUE, !.group = g, !.state = d.state]

\* sae_set_group(): everything known of the peer is forgotten, the state too.
SetGroup(d, g) == [NewSae EXCEPT !.tmp = TRUE, !.group = g]

(***************************************************************************)
(* Authentication frames: transaction 1 (Commit) or 2 (Confirm).  With a   *)
(* status other than OK the frame is a refusal.                            *)
(***************************************************************************)
Statuses == {"OK", "UNSPECIFIED_FAILURE", "GROUP_NOT_SUPPORTED", "TOKEN_REQ"}
SaeFrames ==
    [trans : {1, 2}, status : Statuses, group : Nat, scalar : Scalars,
     token : BOOLEAN, send_confirm : U16, kck : SUBSET Scalars,
     peer_scalar : Scalars]

Refusal(trans, status, g) ==
    [trans |-> trans, status |-> status, group |-> g, scalar |-> NoScalar,
     token |-> FALSE, send_confirm |-> 0, kck |-> NoKey, peer_scalar |-> NoScalar]

\* sae_write_commit().
CommitFrame(d, token) ==
    [Refusal(1, "OK", d.group) EXCEPT !.scalar = d.own_commit_scalar,
                                      !.token = token]

\* sae_write_confirm().
ConfirmFrame(d) ==
    [Refusal(2, "OK", 0) EXCEPT !.send_confirm = d.send_confirm, !.kck = d.kck,
                                !.scalar = d.own_commit_scalar,
                                !.peer_scalar = d.peer_commit_scalar]
\* The counter goes up with the frame.
Confirmed(d) ==
    [d EXCEPT !.send_confirm = IF @ < U16Max THEN @ + 1 ELSE @]

\* The commit scalars are not part of the check.
FaultCheckConfirm(d, f) == d.tmp

\* sae_check_confirm().
CheckConfirm(d, f) ==
    /\ d.tmp
    /\ f.kck = d.kck
    /\ f.scalar = d.peer_commit_scalar /\ f.peer_scalar = d.own_commit_scalar

\* sae_process_commit().
ProcessCommit(d) ==
    LET k == Key(d.own_commit_scalar, d.peer_commit_scalar)
    IN [d EXCEPT !.kck = k, !.pmk = k, !.cached = FALSE]

(***************************************************************************)
(* sae_group_allowed() and sae_parse_commit(): a status, and the data as   *)
(* they are left even when the frame is refused.  No frame of this link    *)
(* carries the receiver's own scalar (SAE_SILENTLY_DISCARD).               *)
(***************************************************************************)
GroupData(d, groups, g) ==
    IF g \in groups /\ g # d.group /\ d.state # "COMMITTED" THEN SetGroup(d, g) ELSE d
GroupStatus(d, groups, g) ==
    CASE g \notin groups -> "GROUP_NOT_SUPPORTED"
      [] g \in groups /\ GroupData(d, groups, g).group # g -> "GROUP_NOT_SUPPORTED"
      [] g \in groups /\ GroupData(d, groups, g).group = g ->
           IF GroupData(d, groups, g).tmp THEN "OK" ELSE "UNSPECIFIED_FAILURE"

\* "Do not accept re-use of previous peer-commit-scalar" left out.
FaultScalarReused(d, f) == FALSE

\* The scalar of the exchange that was accepted is refused.
ScalarReused(d, f) == d.state = "ACCEPTED" /\ d.peer_commit_scalar = f.scalar

ParseStatus(d, groups, f) ==
    LET g == GroupData(d, groups, f.group) IN
    CASE GroupStatus(d, groups, f.group) # "OK" -> GroupStatus(d, groups, f.group)
      [] GroupStatus(d, groups, f.group) = "OK" ->
           IF ScalarReused(g, f) THEN "UNSPECIFIED_FAILURE" ELSE "OK"
ParseData(d, groups, f) ==
    LET g == GroupData(d, groups, f.group)
    IN IF GroupStatus(d, groups, f.group) # "OK" \/ ScalarReused(g, f) THEN g
       ELSE [g EXCEPT !.peer_commit_scalar = f.scalar]
=============================================================================
