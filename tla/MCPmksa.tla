------------------------------ MODULE MCPmksa -------------------------------
EXTENDS Pmksa, TLC

Config(bss, local, others, okc, command, admin, keys, life, sessions, max, apMax) ==
    [bss |-> bss, local |-> local, others |-> others, okc |-> okc, command |-> command,
     admin |-> admin,
     keys |-> keys, life |-> life, reauth |-> 1,
     sessions |-> sessions, max |-> max, apMax |-> apMax]

\* A station that runs out of room; an AP that does; two BSSs of one AP, without
\* and with opportunistic key caching, with room for two entries and for one;
\* one of two APs, with everything that operators do.
MCConfigs ==
    {Config({"a", "b", "c"}, {}, {}, FALSE, TRUE, TRUE, 1 .. 5, 2, {2}, 2, 1),
     Config({"a"}, {"a"}, {"t", "u"}, FALSE, TRUE, TRUE, 1 .. 5, 2, {1, 2}, 2, 2),
     Config({"a", "b"}, {"a", "b"}, {}, FALSE, FALSE, FALSE, 1 .. 3, 1, {1}, 2, 1),
     Config({"a", "b"}, {"a", "b"}, {}, TRUE, TRUE, FALSE, 1 .. 2, 1, {1}, 2, 1),
     Config({"a", "b"}, {"a", "b"}, {}, TRUE, TRUE, FALSE, 1 .. 2, 1, {1}, 1, 1),
     Config({"a", "b"}, {"a"}, {"t"}, TRUE, TRUE, TRUE, 1 .. 3, 1, {1}, 2, 1)}
=============================================================================
