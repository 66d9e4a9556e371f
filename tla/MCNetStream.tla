---------------------------- MODULE MCNetStream -----------------------------
(* Values for NetStream: the endpoint of the peer and one the program adds. *)
EXTENDS NetStream

TwoEndpoints == {0, 1}

=============================================================================
