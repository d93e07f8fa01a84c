------------------------ MODULE MCBlockingTcpClients -------------------------
(* Instances of BlockingTcpClients for TLC.                                 *)
EXTENDS BlockingTcpClients, TLC

\* Connections are interchangeable, and so are calls of the same kind.
Symmetry ==
    Permutations(ReadCalls \ InvalidCalls)
      \cup Permutations((Calls \ ReadCalls) \ InvalidCalls)
      \cup Permutations(Socks)

=============================================================================
