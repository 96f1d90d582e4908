----------------------------- MODULE MCHttpServer ---------------------------
\* Two acceptors and three connections in all: one object can be reused while
\* another is created, deleted by the timer, or closed by stop().
EXTENDS HttpServer, TLC

Symmetry ==
    Permutations(Conns) \cup Permutations(Endpoints) \cup Permutations(Acceptors)

=============================================================================
