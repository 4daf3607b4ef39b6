------------------------------ MODULE MCTunnel ------------------------------
(* Small instances of Tunnel. *)
EXTENDS Tunnel

\* A tunnel over one server, whose target is slow, and one over two.
Chain(hops, window, tls, https, bytes) ==
    [hops |-> hops, window |-> window, tls |-> tls, https |-> https, bytes |-> bytes]
Chains ==
    {Chain(1, 3, {0}, TRUE, 3), Chain(1, 2, {}, TRUE, 3), Chain(2, 4, {1}, TRUE, 2), Chain(2, 4, {1}, FALSE, 2)}
=============================================================================
