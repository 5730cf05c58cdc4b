----------------------- MODULE MCDnssdServiceResolver -----------------------
(* Two hosts, one of them spelled in two ways and on two interfaces, and an   *)
(* address of each family.                                                    *)
EXTENDS DnssdServiceResolver, TLC

CONSTANTS a4, a6, b4

MCHostnames == {"Alpha", "alpha", "beta"}
MCNormalizedName == ("Alpha" :> "alpha") @@ ("alpha" :> "alpha") @@ ("beta" :> "beta")
Service(h, i, record) == [hostname |-> h, interface_index |-> i, record |-> record]

\* The service moves to another host and back, with a new TXT record or another
\* spelling of the name.
MovingServices == {Service("Alpha", 1, "v1"), Service("alpha", 1, "v2"), Service("beta", 1, "v1")}
MovingPool == (<<"alpha", 1>> :> {a4}) @@ (<<"beta", 1>> :> {b4})

\* The service moves between the interfaces of one host and another host, which may all
\* have one address in common and may have none.
RoamingServices == {Service("alpha", 1, "v1"), Service("Alpha", 2, "v1"), Service("beta", 1, "v1")}
RoamingPool == (<<"alpha", 1>> :> {a4}) @@ (<<"alpha", 2>> :> {a4}) @@ (<<"beta", 1>> :> {a4, a6})

MCIPv4 == {a4, b4}
MCIPv6 == {a6}

AnyStart  == SUBSET RecordTypes
BothStart == {RecordTypes}
=============================================================================
