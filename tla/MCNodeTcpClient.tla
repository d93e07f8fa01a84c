--------------------------- MODULE MCNodeTcpClient ---------------------------
(* Instances of NodeTcpClient for TLC.                                      *)
EXTENDS NodeTcpClient, TLC

\* Calls, keys and sockets are interchangeable.
Symmetry == Permutations(Calls) \cup Permutations(Keys) \cup Permutations(Socks)

=============================================================================
