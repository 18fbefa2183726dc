---------------------------- MODULE MC_P2PLinks -----------------------------
(* Two servers, a and b, and a host d on which no server runs.             *)
EXTENDS P2PLinks

CONSTANTS a, b, d

\* a reaches nobody; b links to a, and tries d for ever.
Known_one == [s \in {a, b} |-> IF s = a THEN <<d>> ELSE <<d, a>>]
Desired_one == [s \in {a, b} |-> IF s = a THEN 1 ELSE 2]
K_two == [s \in {a, b} |-> 2]

\* Each links to the other; b tries d first.
Known_both == [s \in {a, b} |-> IF s = a THEN <<b>> ELSE <<d, a>>]

Desired_pair == [s \in {a, b} |-> 1]
K_one == [s \in {a, b} |-> 1]
=============================================================================
