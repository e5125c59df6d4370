-------------------------- MODULE MCHopscotchTable --------------------------
\* Lists of up to three of four ids (the empty list of a vertex with no
\* neighbour in an induced subgraph included), hashed with 5-bit multiply-shift
\* hashing, a neighbourhood and vector of two slots (16 in the code).
EXTENDS HopscotchTable

MCKey == 0..3
MCInputs == {s \in UNION {[1..n -> MCKey] : n \in 0..3} : IsInjective(s)}
MCW == 5
=============================================================================
