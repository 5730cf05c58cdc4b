--------------------------- MODULE MCDnssdContext ---------------------------
(* Model values for DnssdContext: enough handles for two to be open while a third is *)
(* dropped, and one clone of the Dnssd besides the first.                            *)
EXTENDS DnssdContext

=============================================================================
