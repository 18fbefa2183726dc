--------------------------- MODULE MC_P2PTransfers ----------------------------
(* Two transfers of one process from another, or crosswise.                *)
EXTENDS P2PTransfers

CONSTANTS a, b, t, u

From(p, q, n) == [client |-> p, server |-> q, parts |-> n]
MCRoutes == {[x \in {t, u} |-> From(a, b, 1)],
             [x \in {t, u} |-> IF x = t THEN From(a, b, 2) ELSE From(b, a, 1)]}

\* Of a list of files found only transfers that have not begun still need their entries: for
\* those that use one, deleted says whether it is there, and nobody else looks at it.
Wanted(X, where) == {x \in X : pc(C(x)) \in where}
Relevant == <<route, up, [p \in Processes |-> Wanted(found[p], {"none"})], downloads, uploads,
              Wanted(deleted, Uses), cwd, blocks, th, stored, net, mishaps>>
=============================================================================
