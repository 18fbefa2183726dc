--------------------------- MODULE MC_HttpServer ----------------------------
EXTENDS HttpServer, TLC

\* No property tells one connection from another.
Symmetry == Permutations(Clients)

=============================================================================
