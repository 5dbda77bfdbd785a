------------------------------- MODULE MCSae --------------------------------
(* TLC instances of SaeAuth. *)
EXTENDS SaeAuth, TLC

Both(x) == [p \in Nodes |-> x]

\* An AP that supports group 19 only and a station that tries group 20 first.
Infrastructure ==
    [mesh : {FALSE}, patient : {FALSE}, auto : {Both(FALSE)},
     clogging : {Both(c) : c \in BOOLEAN}, groups : {<< <<19>>, <<20, 19>> >>},
     faults : {2}, commits : {3}, stops : {{}}]

\* Mesh nodes whose timers may fire early and that may be removed.
MeshGroups(clogging, commits) ==
    [mesh |-> TRUE, patient |-> FALSE, auto |-> <<TRUE, FALSE>>,
     clogging |-> clogging, groups |-> << <<20, 19>>, <<19>> >>,
     faults |-> 1, commits |-> commits, stops |-> {}]
Mesh ==
    {MeshGroups(Both(FALSE), 3), MeshGroups(<<FALSE, TRUE>>, 3)}
    \cup
    [mesh : {TRUE}, patient : {FALSE}, auto : {Both(TRUE)},
     clogging : {Both(c) : c \in BOOLEAN}, groups : {Both(<<19>>)},
     faults : {1}, commits : {3}, stops : {{}}]

\* Mesh nodes on time; where tokens may be asked for, no frame is lost.
PatientMesh ==
    {[mesh |-> TRUE, patient |-> TRUE, auto |-> <<TRUE, a>>, clogging |-> Both(c),
      groups |-> Both(<<19>>), faults |-> IF c THEN 0 ELSE 1, commits |-> 4,
      stops |-> {}] :
        a, c \in BOOLEAN}

\* Mesh nodes on time, one of which may stop.
StoppingMesh ==
    {[mesh |-> TRUE, patient |-> TRUE, auto |-> <<TRUE, a>>, clogging |-> Both(FALSE),
      groups |-> Both(<<19>>), faults |-> 1, commits |-> 4, stops |-> {p}] :
        a \in BOOLEAN, p \in Nodes}

MCTokenConfigs == {MeshGroups(<<FALSE, TRUE>>, 3)}

MCConfigs == Infrastructure \cup Mesh \cup PatientMesh \cup StoppingMesh
=============================================================================
