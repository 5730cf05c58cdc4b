------------------------ MODULE DnssdServiceResolver ------------------------
(***************************************************************************)
(* DnssdServiceResolver::try_recv of src/src/dnssd.rs: the consumer's      *)
(* event loop drains two channels that libcups' own thread fills, one with *)
(* the announcements of a service (resolve_callback), one with the         *)
(* addresses the running A and AAAA queries report (query_callback), and   *)
(* keeps the latest service and its address set.                           *)
(*                                                                         *)
(* One step of the consumer is one receive, one start of queries or one    *)
(* return of try_recv, so callbacks interleave everywhere they can.        *)
(***************************************************************************)
EXTENDS Integers, Sequences, FiniteSets

CONSTANTS
    Hostnames,         \* spellings of host names, as announced and as answered
    NormalizedName,    \* what normalize_name makes of each spelling
    Services,          \* announcements (DnssdResolveEvent) the responder may send
    Pool,              \* addresses a host may ever have on an interface
    IPv4, IPv6,        \* addresses of A and of AAAA records
    StartOutcomes,     \* sets of record types whose queries cupsDNSSDQueryNew may start
    MaxAnnouncements,  \* bound: announcements the responder sends
    MaxChanges,        \* bound: addresses added to or withdrawn from a host
    None               \* Option::None

A    == 1              \* DNS record types, as query_addresses passes them
AAAA == 28
RecordTypes == {A, AAAA}

Addresses(type) == IF type = A THEN IPv4 ELSE IPv6

normalize_name(hostname) == NormalizedName[hostname]

\* What an announcement asks the queries about, and what an address event is about.
Target(event) == <<normalize_name(event.hostname), event.interface_index>>

Targets    == DOMAIN Pool
AllAddress == IPv4 \union IPv6
Interfaces == {t[2] : t \in Targets}

Hosts      == {t[1] : t \in Targets}

ServiceAssumption ==
    /\ DOMAIN NormalizedName = Hostnames
    /\ \A s \in Services : s.hostname \in Hostnames /\ Target(s) \in Targets
    /\ None \notin Services
AddressAssumption ==
    /\ Targets \subseteq Hosts \X Interfaces
    /\ Pool \in [Targets -> SUBSET AllAddress]
    /\ None \notin Targets
BoundAssumption ==
    /\ StartOutcomes \subseteq SUBSET RecordTypes
    /\ MaxAnnouncements \in Nat
    /\ MaxChanges \in Nat

ASSUME ServiceAssumption
ASSUME AddressAssumption
ASSUME BoundAssumption

Queries == [type : RecordTypes, target : Targets, reported : SUBSET AllAddress]

AddressEvents == [added : BOOLEAN, hostname : Hostnames,
                  interface_index : Interfaces, address : AllAddress]

Updates == [service : Services, addresses : SUBSET AllAddress]

UpdateAssumption == None \notin Updates
ASSUME UpdateAssumption

VARIABLES
    resolve_channel,   \* DnssdResolveEvents sent and not received
    address_channel,   \* DnssdAddressEvents sent and not received
    address_queries,   \* the running queries the resolver holds
    queried,           \* the target they ask about, or None
    resolved,          \* the latest announcement, or None
    addresses,         \* the addresses held: a Vec without repetition, sorted when emitted
    pc,                \* where the consumer is in try_recv
    changed,           \* try_recv's local of that name
    service,           \* the announcement whose queries are being started
    starting,          \* queries started and not yet stored in address_queries
    view,              \* the last Ok(Some(..)) returned: what the consumer knows
    network,           \* the addresses each host has
    announced,         \* the last announcement the responder sent
    announcementsLeft, changesLeft

resolver == <<address_queries, queried, resolved, addresses>>
call     == <<pc, changed, service, starting>>
budget   == <<announcementsLeft, changesLeft>>
vars     == <<resolve_channel, address_channel, resolver, call, view, network,
              announced, budget>>

-----------------------------------------------------------------------------
Init ==
    /\ resolve_channel = <<>> /\ address_channel = <<>>
    /\ address_queries = {} /\ queried = None /\ resolved = None /\ addresses = {}
    /\ pc = "idle" /\ changed = FALSE /\ service = None /\ starting = {}
    /\ view = None
    /\ network \in {n \in [Targets -> SUBSET AllAddress] : \A t \in Targets : n[t] \subseteq Pool[t]}
    /\ announced = None
    /\ announcementsLeft = MaxAnnouncements /\ changesLeft = MaxChanges

-----------------------------------------------------------------------------
\* libcups' thread and the network.

\* resolve_callback: a service is announced, or announced again with the same or new data.
Announce(s) ==
    /\ announcementsLeft > 0
    /\ announcementsLeft' = announcementsLeft - 1
    /\ announced' = s
    /\ resolve_channel' = Append(resolve_channel, s)
    /\ UNCHANGED <<address_channel, resolver, call, view, network, changesLeft>>

Running == address_queries \union starting

\* A query has told of every change so far to address a of its target.
InStep(q, a) == a \in q.reported <=> a \in network[q.target]

\* A host gains or loses an address. Queries report changes one by one: the next
\* change to an address waits until those running have told of the last.
ChangeAddress(t, a) ==
    /\ changesLeft > 0
    /\ \A q \in Running : q.target = t /\ a \in Addresses(q.type) => InStep(q, a)
    /\ changesLeft' = changesLeft - 1
    /\ network' = [network EXCEPT ![t] = IF a \in @ THEN @ \ {a} ELSE @ \union {a}]
    /\ UNCHANGED <<resolve_channel, address_channel, resolver, call, view, announced,
                   announcementsLeft>>

Told(q, a) == [q EXCEPT !.reported = IF a \in @ THEN @ \ {a} ELSE @ \union {a}]
AfterReport(queries, q, a) == (queries \ {q}) \union {Told(q, a)}

\* query_callback: a running query tells of an address its host gained or lost; the
\* answer spells the host's name as the responder does.
Report(q, a) ==
    /\ a \in Addresses(q.type)
    /\ ~ InStep(q, a)
    /\ \E h \in Hostnames :
          /\ normalize_name(h) = q.target[1]
          /\ address_channel' = Append(address_channel,
                [added |-> a \in network[q.target], hostname |-> h,
                 interface_index |-> q.target[2], address |-> a])
    /\ \/ /\ q \in address_queries
          /\ address_queries' = AfterReport(address_queries, q, a) /\ UNCHANGED starting
       \/ /\ q \in starting
          /\ starting' = AfterReport(starting, q, a) /\ UNCHANGED address_queries
    /\ UNCHANGED <<resolve_channel, queried, resolved, addresses, pc, changed, service,
                   view, network, announced, budget>>

-----------------------------------------------------------------------------
\* The consumer's thread: try_recv.

Poll ==
    /\ pc = "idle"
    /\ pc' = "announcements"
    /\ changed' = FALSE
    /\ UNCHANGED <<resolve_channel, address_channel, resolver, service, starting, view,
                   network, announced, budget>>

Answered(s) == queried = Target(s) /\ addresses # {}

\* An announcement of the host already queried and answered for.
KeepQueries_NoNews ==
    /\ pc = "announcements" /\ resolve_channel # <<>>
    /\ Answered(Head(resolve_channel))
    /\ resolved' = Head(resolve_channel)
    /\ resolve_channel' = Tail(resolve_channel)
    /\ UNCHANGED <<address_channel, address_queries, queried, addresses, call, view,
                   network, announced, budget>>

KeepQueries ==
    /\ pc = "announcements" /\ resolve_channel # <<>>
    /\ Answered(Head(resolve_channel))
    /\ changed' = (changed \/ resolved # Head(resolve_channel))
    /\ resolved' = Head(resolve_channel)
    /\ resolve_channel' = Tail(resolve_channel)
    /\ UNCHANGED <<address_channel, address_queries, queried, addresses, pc, service,
                   starting, view, network, announced, budget>>

\* query_addresses: both queries are asked for, and each may fail to start. Their
\* callbacks may run from here on, beside those of the queries not yet replaced.
StartQueries ==
    /\ pc = "announcements" /\ resolve_channel # <<>>
    /\ ~ Answered(Head(resolve_channel))
    /\ service' = Head(resolve_channel)
    /\ resolve_channel' = Tail(resolve_channel)
    /\ \E types \in StartOutcomes :
          starting' = [type : types, target : {Target(service')}, reported : {{}}]
    /\ pc' = "queries"
    /\ UNCHANGED <<address_channel, resolver, changed, view, network, announced, budget>>

\* At least one query started: the new queries replace the old, which are dropped.
ReplaceQueries_NoClear ==
    /\ pc = "queries" /\ starting # {}
    /\ address_queries' = starting
    /\ queried' = Target(service)
    /\ resolved' = service
    /\ starting' = {} /\ service' = None
    /\ pc' = "announcements"
    /\ UNCHANGED <<resolve_channel, address_channel, addresses, changed, view, network,
                   announced, budget>>
ReplaceQueries_KeepOld ==
    /\ pc = "queries" /\ starting # {}
    /\ addresses' = {}
    /\ address_queries' = address_queries \union starting
    /\ queried' = Target(service)
    /\ resolved' = service
    /\ starting' = {} /\ service' = None
    /\ pc' = "announcements"
    /\ UNCHANGED <<resolve_channel, address_channel, changed, view, network, announced,
                   budget>>

ReplaceQueries ==
    /\ pc = "queries" /\ starting # {}
    /\ addresses' = {}
    /\ address_queries' = starting
    /\ queried' = Target(service)
    /\ resolved' = service
    /\ starting' = {} /\ service' = None
    /\ pc' = "announcements"
    /\ UNCHANGED <<resolve_channel, address_channel, changed, view, network, announced,
                   budget>>

\* Neither query started: the service is recorded and try_recv returns the error, the
\* rest of both channels unread and `changed` lost.
StartFailed_Forget ==
    /\ pc = "queries" /\ starting = {}
    /\ service' = None
    /\ pc' = "idle"
    /\ UNCHANGED <<resolve_channel, address_channel, resolver, changed, starting, view,
                   network, announced, budget>>

StartFailed ==
    /\ pc = "queries" /\ starting = {}
    /\ resolved' = service
    /\ service' = None
    /\ pc' = "idle"
    /\ UNCHANGED <<resolve_channel, address_channel, address_queries, queried, addresses,
                   changed, starting, view, network, announced, budget>>

NoMoreAnnouncements ==
    /\ pc = "announcements" /\ resolve_channel = <<>>
    /\ pc' = "addresses"
    /\ UNCHANGED <<resolve_channel, address_channel, resolver, changed, service, starting,
                   view, network, announced, budget>>

\* The address event is about the service held.
Concerns_Spelled(event) ==
    /\ resolved # None
    /\ event.interface_index = resolved.interface_index
    /\ event.hostname = resolved.hostname
Concerns_AnyInterface(event) ==
    /\ resolved # None
    /\ normalize_name(event.hostname) = normalize_name(resolved.hostname)
Concerns(event) ==
    /\ resolved # None
    /\ event.interface_index = resolved.interface_index
    /\ normalize_name(event.hostname) = normalize_name(resolved.hostname)

AddressesAfter(event) ==
    IF event.added THEN addresses \union {event.address} ELSE addresses \ {event.address}

ReceiveAddress ==
    /\ pc = "addresses" /\ address_channel # <<>>
    /\ LET event == Head(address_channel) IN
          addresses' = IF Concerns(event) THEN AddressesAfter(event) ELSE addresses
    /\ changed' = (changed \/ addresses' # addresses)
    /\ address_channel' = Tail(address_channel)
    /\ UNCHANGED <<resolve_channel, address_queries, queried, resolved, pc, service,
                   starting, view, network, announced, budget>>

\* Both channels are empty: Ok(None), or the service with its addresses when they changed.
Return ==
    /\ pc = "addresses" /\ address_channel = <<>>
    /\ view' = IF changed /\ resolved # None
               THEN [service |-> resolved, addresses |-> addresses] ELSE view
    /\ pc' = "idle"
    /\ UNCHANGED <<resolve_channel, address_channel, resolver, changed, service, starting,
                   network, announced, budget>>

TryRecv == \/ Poll \/ KeepQueries \/ StartQueries \/ ReplaceQueries \/ StartFailed
           \/ NoMoreAnnouncements \/ ReceiveAddress \/ Return

Libcups == \E q \in Running : \E a \in AllAddress : Report(q, a)

Responder == \/ \E s \in Services : Announce(s)
             \/ \E t \in Targets : \E a \in Pool[t] : ChangeAddress(t, a)

Next == TryRecv \/ Libcups \/ Responder

Spec == Init /\ [][Next]_vars

\* The event loop keeps calling try_recv, which never waits, and libcups' thread
\* keeps running callbacks; the responder need not do anything.
FairSpec == Spec /\ WF_vars(TryRecv) /\ WF_vars(Libcups)

-----------------------------------------------------------------------------
\* Every variable has its type, and the resolver holds at most one query of each
\* record type: storing new queries drops those they replace (dnssd.rs:313-315).
TypeOK ==
    /\ resolve_channel \in Seq(Services)
    /\ address_channel \in Seq(AddressEvents)
    /\ address_queries \subseteq Queries
    /\ starting \subseteq Queries
    /\ \A q, r \in address_queries : q.type = r.type => q = r
    /\ queried \in Targets \union {None}
    /\ resolved \in Services \union {None}
    /\ service \in Services \union {None}
    /\ addresses \subseteq AllAddress
    /\ pc \in {"idle", "announcements", "queries", "addresses"}
    /\ changed \in BOOLEAN
    /\ view \in Updates \union {None}
    /\ network \in [Targets -> SUBSET AllAddress]
    /\ announced \in Services \union {None}
    /\ announcementsLeft \in 0..MaxAnnouncements
    /\ changesLeft \in 0..MaxChanges

\* Between calls, a resolver that holds addresses its own queries answered for the
\* service it holds has told the consumer exactly that service with exactly those
\* addresses: no announcement with a new port or TXT record and no address event is
\* swallowed, not even by a call that returned an error (dnssd.rs:301-325, 352-359).
ConsumerUpToDate ==
    pc = "idle" /\ addresses # {} /\ resolved # None /\ queried = Target(resolved)
        => view = [service |-> resolved, addresses |-> addresses]

\* The announcement that is the last word of the resolve channel's history.
Latest == IF resolve_channel # <<>> THEN resolve_channel[Len(resolve_channel)]
          ELSE IF pc = "queries" THEN service ELSE resolved

\* Once every announcement is read the resolver holds the last one the responder
\* sent, also when its queries failed to start: "Recorded even on failure, so the
\* service isn't lost" (dnssd.rs:321-324).
ServiceNotLost == Latest = announced

\* An update names only addresses its host has had on its interface, never those of
\* the host the service was on before (dnssd.rs:313, 331-335). Holds when
\* query_addresses always starts at least one query.
OwnAddressesOnly == view # None => view.addresses \subseteq Pool[Target(view.service)]

\* Nothing is on its way: the channels are read, and no running query has more to tell.
Settled ==
    /\ pc = "idle" /\ resolve_channel = <<>> /\ address_channel = <<>>
    /\ \A q \in address_queries : \A a \in Addresses(q.type) : InStep(q, a)

\* Whenever nothing is on its way, the consumer knows the last announcement and every
\* address its host has of the types asked for: none is lost in a restart of the queries,
\* which clears the addresses while both old and new events wait in the channel, or to
\* another spelling of the name (dnssd.rs:295-362). Holds when query_addresses always
\* starts at least one query.
SettledKnows ==
    Settled /\ announced # None =>
        \E types \in StartOutcomes :
           \A a \in network[Target(announced)] :
              (\E type \in types : a \in Addresses(type))
                 => view # None /\ view.service = announced /\ a \in view.addresses

\* Until a host changes its addresses, an update names only addresses its host has on that
\* interface, also where another interface or host has the same address or had it told of
\* last: what is told wrongly is always an address lost meanwhile (dnssd.rs:313, 331-335).
\* Holds when query_addresses always starts at least one query.
TrueUntilChanged ==
    changesLeft = MaxChanges /\ view # None
        => view.addresses \subseteq network[Target(view.service)]

\* An address the announced host keeps reaches the consumer, with the latest
\* announcement, and stays known: the first half of dnssd.rs:161-162, through every
\* restart of the queries (dnssd.rs:307-315) and every spelling of the name.
EveryAddressReported ==
    \A a \in AllAddress :
        <>[](announced # None /\ a \in network[Target(announced)])
            => <>[](view # None /\ view.service = announced /\ a \in view.addresses)

\* An address the announced host has lost for good is eventually no longer reported:
\* "again whenever the address set changes" (dnssd.rs:161-162).
EveryLossReported ==
    \A a \in AllAddress :
        <>[](announced # None /\ a \notin network[Target(announced)])
            => <>[](view # None /\ view.service = announced => a \notin view.addresses)

-----------------------------------------------------------------------------
\* Announcements sent and not yet recorded: the one whose queries are being started is
\* taken from the channel, and not yet the resolver's.
Pending == IF pc = "queries" THEN <<service>> \o resolve_channel ELSE resolve_channel

Consumer == INSTANCE ServiceUpdates WITH
    MayHave <- [s \in Services |-> Pool[Target(s)]],
    pending <- Pending,
    current <- resolved,
    held    <- addresses,
    told    <- view

\* try_recv implements the updates: through restarts of the queries and events of hosts
\* left behind, announcements are taken in order and none is skipped, and what is told is
\* the one taken last with addresses of its own host (dnssd.rs:295-362). Holds when
\* query_addresses always starts at least one query.
ImplementsUpdates == Consumer!Spec
=============================================================================
