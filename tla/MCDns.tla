------------------------------- MODULE MCDns -------------------------------
(* Instances of DnsShim for TLC.  The two ids differ in their high byte. *)
EXTENDS DnsShim

TwoTxids == {1, 257}

=============================================================================
