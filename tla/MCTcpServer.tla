----------------------------- MODULE MCTcpServer -----------------------------
(* TLC instances of TcpServer: descriptors and connections are model        *)
(* values that no property tells apart, so safety runs permute them.        *)
EXTENDS TcpServer, TLC

Symmetry == Permutations(Fds) \cup Permutations(Conns)
=============================================================================
