--------------------- MODULE DnssdServiceResolver_proof ---------------------
(***************************************************************************)
(* What DnssdServiceResolver::try_recv guarantees for all hosts, services, *)
(* addresses, outcomes of starting queries and bounds.                     *)
(***************************************************************************)
EXTENDS DnssdServiceResolver, SequenceTheorems, TLAPS

OneOfEachType(queries) == \A q, r \in queries : q.type = r.type => q = r

\* What query_addresses starts: queries of the record types that could be started,
\* one of each.
LEMMA StartedQueries ==
    ASSUME NEW types \in SUBSET RecordTypes, NEW t \in Targets
    PROVE  LET new == [type : types, target : {t}, reported : {{}}] IN
           /\ new \subseteq Queries
           /\ OneOfEachType(new)
           /\ types # {} => new # {}
<1> DEFINE new == [type : types, target : {t}, reported : {{}}]
<1>1. \A q, r \in new : q.type = r.type => q = r
  OBVIOUS
<1>2. ASSUME types # {}  PROVE new # {}
  <2>1. PICK type \in types : TRUE
    BY <1>2
  <2>2. [type |-> type, target |-> t, reported |-> {}] \in new
    OBVIOUS
  <2> QED  BY <2>2
<1>3. new \subseteq Queries
  BY DEF Queries
<1> QED  BY <1>1, <1>2, <1>3 DEF OneOfEachType

\* A callback of a running query changes only what that query has reported.
LEMMA ReportedQueries ==
    ASSUME NEW queries \in SUBSET Queries, NEW q \in queries, NEW a \in AllAddress,
           OneOfEachType(queries)
    PROVE  /\ AfterReport(queries, q, a) \in SUBSET Queries
           /\ OneOfEachType(AfterReport(queries, q, a))
           /\ AfterReport(queries, q, a) # {}
<1>1. Told(q, a) \in Queries /\ Told(q, a).type = q.type
  BY DEF Told, Queries
<1>2. \A r \in queries \ {q} : r.type # q.type
  BY DEF OneOfEachType
<1> QED  BY <1>1, <1>2 DEF OneOfEachType, AfterReport

\* The address event a callback sends is about the query's target.
LEMMA ReportedEvent ==
    ASSUME NEW q \in Queries, NEW a \in AllAddress, NEW h \in Hostnames, NEW b \in BOOLEAN,
           normalize_name(h) = q.target[1]
    PROVE  LET event == [added |-> b, hostname |-> h,
                         interface_index |-> q.target[2], address |-> a] IN
           event \in AddressEvents /\ Target(event) = q.target
<1>1. q.target \in Targets /\ q.target \in Hosts \X Interfaces
  BY AddressAssumption DEF Queries, AddressAssumption
<1>2. q.target = <<q.target[1], q.target[2]>> /\ q.target[2] \in Interfaces
  BY <1>1
<1> QED  BY <1>2 DEF AddressEvents, Target

-----------------------------------------------------------------------------
\* TypeOK with what its preservation needs: the queries being started are one of each
\* type, and belong to the announcement being handled.
TypeInv == /\ TypeOK
           /\ OneOfEachType(starting)
           /\ pc = "queries" => service \in Services

LEMMA TypeInit == Init => TypeInv
<1> SUFFICES ASSUME Init  PROVE TypeInv
  OBVIOUS
<1>1. network \in [Targets -> SUBSET AllAddress]
  BY DEF Init
<1>2. announcementsLeft \in 0..MaxAnnouncements /\ changesLeft \in 0..MaxChanges
  BY BoundAssumption DEF Init, BoundAssumption
<1>3. resolve_channel \in Seq(Services) /\ address_channel \in Seq(AddressEvents)
  BY DEF Init
<1> QED  BY <1>1, <1>2, <1>3 DEF Init, TypeInv, TypeOK, OneOfEachType

LEMMA TypeStep == TypeInv /\ [Next]_vars => TypeInv'
<1> SUFFICES ASSUME TypeInv, [Next]_vars  PROVE TypeInv'
  OBVIOUS
<1> USE DEF TypeInv
<1>1. ASSUME NEW s \in Services, Announce(s)  PROVE TypeInv'
  <2>1. announcementsLeft' \in 0..MaxAnnouncements
    BY <1>1, BoundAssumption DEF Announce, TypeOK, BoundAssumption
  <2>2. resolve_channel' \in Seq(Services)
    BY <1>1, AppendProperties DEF Announce, TypeOK
  <2> QED  BY <1>1, <2>1, <2>2 DEF Announce, TypeOK, OneOfEachType, resolver, call
<1>2. ASSUME NEW t \in Targets, NEW a \in Pool[t], ChangeAddress(t, a)  PROVE TypeInv'
  <2>1. a \in AllAddress
    BY AddressAssumption DEF AddressAssumption
  <2>2. network' \in [Targets -> SUBSET AllAddress]
    BY <1>2, <2>1 DEF ChangeAddress, TypeOK
  <2>3. changesLeft' \in 0..MaxChanges
    BY <1>2, BoundAssumption DEF ChangeAddress, TypeOK, BoundAssumption
  <2> QED  BY <1>2, <2>2, <2>3 DEF ChangeAddress, TypeOK, OneOfEachType, resolver, call
<1>3. ASSUME NEW q \in Running, NEW a \in AllAddress, Report(q, a)  PROVE TypeInv'
  <2>1. q \in Queries /\ OneOfEachType(address_queries)
    BY DEF Running, TypeOK, OneOfEachType
  <2>2. /\ address_queries' \in SUBSET Queries /\ OneOfEachType(address_queries')
        /\ starting' \in SUBSET Queries /\ OneOfEachType(starting')
    BY <1>3, <2>1, ReportedQueries DEF Report, TypeOK
  <2>3. address_channel' \in Seq(AddressEvents)
    <3>1. PICK h \in Hostnames :
            /\ normalize_name(h) = q.target[1]
            /\ address_channel' = Append(address_channel,
                 [added |-> a \in network[q.target], hostname |-> h,
                  interface_index |-> q.target[2], address |-> a])
      BY <1>3 DEF Report
    <3>2. [added |-> a \in network[q.target], hostname |-> h,
           interface_index |-> q.target[2], address |-> a] \in AddressEvents
      <4>1. (a \in network[q.target]) \in BOOLEAN
        OBVIOUS
      <4> HIDE DEF TypeInv
      <4> QED  BY <2>1, <3>1, <4>1, ReportedEvent
    <3> QED  BY <3>1, <3>2, AppendProperties DEF TypeOK
  <2> QED  BY <1>3, <2>2, <2>3 DEF Report, TypeOK, OneOfEachType, budget
<1>4. CASE Poll
  BY <1>4 DEF Poll, TypeOK, OneOfEachType, resolver, budget
<1>5. CASE KeepQueries
  BY <1>5, HeadTailProperties
     DEF KeepQueries, TypeOK, OneOfEachType, budget
<1>6. CASE StartQueries
  <2>1. service' \in Services /\ resolve_channel' \in Seq(Services)
    BY <1>6, HeadTailProperties DEF StartQueries, TypeOK
  <2>2. starting' \in SUBSET Queries /\ OneOfEachType(starting')
    BY <1>6, <2>1, StartedQueries, ServiceAssumption, BoundAssumption
       DEF StartQueries, ServiceAssumption, BoundAssumption
  <2> QED  BY <1>6, <2>1, <2>2 DEF StartQueries, TypeOK, OneOfEachType, resolver, budget
<1>7. CASE ReplaceQueries
  BY <1>7, ServiceAssumption
     DEF ReplaceQueries, TypeOK, OneOfEachType, ServiceAssumption, budget
<1>8. CASE StartFailed
  BY <1>8 DEF StartFailed, TypeOK, OneOfEachType, budget
<1>9. CASE NoMoreAnnouncements
  BY <1>9 DEF NoMoreAnnouncements, TypeOK, OneOfEachType, resolver, budget
<1>10. CASE ReceiveAddress
  <2>1. Head(address_channel) \in AddressEvents /\ address_channel' \in Seq(AddressEvents)
    BY <1>10, HeadTailProperties DEF ReceiveAddress, TypeOK
  <2>2. addresses' \subseteq AllAddress
    BY <1>10, <2>1 DEF ReceiveAddress, AddressesAfter, AddressEvents, TypeOK
  <2> QED  BY <1>10, <2>1, <2>2 DEF ReceiveAddress, TypeOK, OneOfEachType, budget
<1>11. CASE Return
  BY <1>11 DEF Return, TypeOK, OneOfEachType, Updates, resolver, budget
<1>12. CASE UNCHANGED vars
  BY <1>12 DEF vars, TypeOK, OneOfEachType, resolver, call, budget
<1> QED
  BY <1>1, <1>2, <1>3, <1>4, <1>5, <1>6, <1>7, <1>8, <1>9, <1>10, <1>11, <1>12
     DEF Next, TryRecv, Libcups, Responder

\* Type correctness of the resolver, its channels and its queries (dnssd.rs:264-282).
THEOREM TypeCorrect == Spec => []TypeOK
<1>1. TypeInv => TypeOK
  BY DEF TypeInv
<1> QED  BY TypeInit, TypeStep, <1>1, PTL DEF Spec

-----------------------------------------------------------------------------
\* ConsumerUpToDate through a call: until `changed` is set, the consumer knows what
\* the resolver holds; and queries are started only for a host not answered for.
UpToDate ==
    /\ \/ pc # "idle" /\ changed
       \/ addresses # {} /\ resolved # None /\ queried = Target(resolved)
             => view = [service |-> resolved, addresses |-> addresses]
    /\ pc = "queries" => ~ Answered(service)

LEMMA UpToDateStep == TypeInv /\ UpToDate /\ [Next]_vars => UpToDate'
<1> SUFFICES ASSUME TypeInv, UpToDate, [Next]_vars  PROVE UpToDate'
  OBVIOUS
<1>1. changed \in BOOLEAN
  BY DEF TypeInv, TypeOK
<1>2. ASSUME NEW s \in Services, Announce(s)  PROVE UpToDate'
  BY <1>2 DEF Announce, UpToDate, Answered, resolver, call
<1>3. ASSUME NEW t \in Targets, NEW a \in Pool[t], ChangeAddress(t, a)  PROVE UpToDate'
  BY <1>3 DEF ChangeAddress, UpToDate, Answered, resolver, call
<1>4. ASSUME NEW q \in Running, NEW a \in AllAddress, Report(q, a)  PROVE UpToDate'
  BY <1>4 DEF Report, UpToDate, Answered
<1>5. CASE Poll
  BY <1>5 DEF Poll, UpToDate, Answered, resolver
<1>6. CASE KeepQueries
  BY <1>1, <1>6 DEF KeepQueries, UpToDate, Answered
<1>7. CASE StartQueries
  BY <1>7 DEF StartQueries, UpToDate, Answered, resolver
<1>8. CASE ReplaceQueries
  BY <1>8 DEF ReplaceQueries, UpToDate
<1>9. CASE StartFailed
  \* The failed announcement asks about another target, or there are no addresses.
  BY <1>9 DEF StartFailed, UpToDate, Answered
<1>10. CASE NoMoreAnnouncements
  BY <1>10 DEF NoMoreAnnouncements, UpToDate, resolver
<1>11. CASE ReceiveAddress
  BY <1>1, <1>11 DEF ReceiveAddress, UpToDate
<1>12. CASE Return
  BY <1>1, <1>12 DEF Return, UpToDate, resolver
<1>13. CASE UNCHANGED vars
  BY <1>13 DEF vars, UpToDate, Answered, resolver, call
<1> QED
  BY <1>2, <1>3, <1>4, <1>5, <1>6, <1>7, <1>8, <1>9, <1>10, <1>11, <1>12, <1>13
     DEF Next, TryRecv, Libcups, Responder

\* No call swallows news: between calls the consumer knows the service and the
\* addresses the resolver's queries answered (dnssd.rs:301-325, 352-359), whatever
\* queries failed to start and however callbacks interleave with the calls.
THEOREM ConsumerKnows == Spec => []ConsumerUpToDate
<1>1. Init => UpToDate
  BY DEF Init, UpToDate
<1>2. UpToDate => ConsumerUpToDate
  BY DEF UpToDate, ConsumerUpToDate
<1> QED  BY <1>1, <1>2, TypeInit, TypeStep, UpToDateStep, PTL DEF Spec

-----------------------------------------------------------------------------
\* What Latest is, case by case, after each change of the resolve channel.
LEMMA ReadAnnouncement ==
    ASSUME TypeOK, pc = "announcements", resolve_channel # <<>>,
           resolve_channel' = Tail(resolve_channel),
           pc' = "queries" => service' = Head(resolve_channel),
           pc' # "queries" => resolved' = Head(resolve_channel)
    PROVE  Latest' = Latest
<1> DEFINE n == Len(resolve_channel)
<1>1. resolve_channel \in Seq(Services) /\ Head(resolve_channel) = resolve_channel[1]
  BY DEF TypeOK
<1>len. n \in Nat /\ n # 0
  BY <1>1, EmptySeq
<1>2. Len(Tail(resolve_channel)) = n - 1
  BY <1>1, HeadTailProperties
<1>3. CASE n = 1
  <2>1. Tail(resolve_channel) = <<>>
    BY <1>1, <1>2, <1>3, EmptySeq, HeadTailProperties
  <2> QED  BY <1>1, <1>3, <2>1 DEF Latest
<1>4. CASE n > 1
  <2>1. Tail(resolve_channel) # <<>>
    <3>1. Len(Tail(resolve_channel)) # 0
      BY <1>len, <1>2, <1>4
    <3> QED  BY <3>1, EmptySeq
  <2>2. Tail(resolve_channel)[n - 1] = resolve_channel[n]
    BY <1>len, <1>1, <1>2, <1>4, HeadTailProperties
  <2> QED  BY <1>1, <1>2, <2>1, <2>2 DEF Latest
<1>5. n = 1 \/ n > 1
  BY <1>len
<1> QED  BY <1>3, <1>4, <1>5

LEMMA NotLostStep == TypeInv /\ ServiceNotLost /\ [Next]_vars => ServiceNotLost'
<1> SUFFICES ASSUME TypeInv, ServiceNotLost, [Next]_vars  PROVE ServiceNotLost'
  OBVIOUS
<1>1. TypeOK
  BY DEF TypeInv
<1>2. ASSUME NEW s \in Services, Announce(s)  PROVE ServiceNotLost'
  <2>1. /\ resolve_channel' # <<>>
        /\ resolve_channel'[Len(resolve_channel')] = s
    BY <1>1, <1>2, AppendProperties DEF Announce, TypeOK
  <2> QED  BY <1>2, <2>1 DEF Announce, ServiceNotLost, Latest
<1>3. ASSUME NEW t \in Targets, NEW a \in Pool[t], ChangeAddress(t, a)
      PROVE  ServiceNotLost'
  BY <1>3 DEF ChangeAddress, ServiceNotLost, Latest, resolver, call
<1>4. ASSUME NEW q \in Running, NEW a \in AllAddress, Report(q, a)  PROVE ServiceNotLost'
  BY <1>4 DEF Report, ServiceNotLost, Latest
<1>5. CASE Poll
  BY <1>5 DEF Poll, ServiceNotLost, Latest, resolver
<1>6. CASE KeepQueries
  BY <1>1, <1>6, ReadAnnouncement DEF KeepQueries, ServiceNotLost
<1>7. CASE StartQueries
  BY <1>1, <1>7, ReadAnnouncement DEF StartQueries, ServiceNotLost
<1>8. CASE ReplaceQueries
  BY <1>8 DEF ReplaceQueries, ServiceNotLost, Latest
<1>9. CASE StartFailed
  BY <1>9 DEF StartFailed, ServiceNotLost, Latest
<1>10. CASE NoMoreAnnouncements
  BY <1>10 DEF NoMoreAnnouncements, ServiceNotLost, Latest, resolver
<1>11. CASE ReceiveAddress
  BY <1>11 DEF ReceiveAddress, ServiceNotLost, Latest
<1>12. CASE Return
  BY <1>12 DEF Return, ServiceNotLost, Latest, resolver
<1>13. CASE UNCHANGED vars
  BY <1>13 DEF vars, ServiceNotLost, Latest, resolver, call
<1> QED
  BY <1>2, <1>3, <1>4, <1>5, <1>6, <1>7, <1>8, <1>9, <1>10, <1>11, <1>12, <1>13
     DEF Next, TryRecv, Libcups, Responder

\* The last announcement sent is the one held once all are read, even when its queries
\* failed to start (dnssd.rs:321-324).
THEOREM LastAnnouncementHeld == Spec => []ServiceNotLost
<1>1. Init => ServiceNotLost
  BY DEF Init, ServiceNotLost, Latest
<1> QED  BY <1>1, TypeInit, TypeStep, NotLostStep, PTL DEF Spec

-----------------------------------------------------------------------------
\* Addresses stay with their host as long as no start of queries fails altogether:
\* then the queries always ask about the service held.
Own ==
    /\ \A t \in Targets : network[t] \subseteq Pool[t]
    /\ \A i \in 1..Len(address_channel) :
          address_channel[i].added
              => address_channel[i].address \in Pool[Target(address_channel[i])]
    /\ pc = "queries" => starting # {}
    /\ resolved # None => queried = Target(resolved)
    /\ addresses # {} => resolved # None /\ addresses \subseteq Pool[Target(resolved)]
    /\ OwnAddressesOnly

LEMMA OwnStep == {} \notin StartOutcomes /\ TypeInv /\ Own /\ [Next]_vars => Own'
<1> SUFFICES ASSUME {} \notin StartOutcomes, TypeInv, Own, [Next]_vars  PROVE Own'
  OBVIOUS
<1>1. TypeOK
  BY DEF TypeInv
<1>2. ASSUME NEW s \in Services, Announce(s)  PROVE Own'
  BY <1>2 DEF Announce, Own, OwnAddressesOnly, resolver, call
<1>3. ASSUME NEW t \in Targets, NEW a \in Pool[t], ChangeAddress(t, a)  PROVE Own'
  <2>1. \A u \in Targets : network'[u] \subseteq Pool[u]
    BY <1>1, <1>3 DEF ChangeAddress, Own, TypeOK
  <2> QED  BY <1>3, <2>1 DEF ChangeAddress, Own, OwnAddressesOnly, resolver, call
<1>4. ASSUME NEW q \in Running, NEW a \in AllAddress, Report(q, a)  PROVE Own'
  <2>1. q \in Queries /\ q.target \in Targets
    BY <1>1 DEF Running, TypeOK, Queries
  <2>2. PICK h \in Hostnames :
          /\ normalize_name(h) = q.target[1]
          /\ address_channel' = Append(address_channel,
               [added |-> a \in network[q.target], hostname |-> h,
                interface_index |-> q.target[2], address |-> a])
    BY <1>4 DEF Report
  <2> DEFINE event == [added |-> a \in network[q.target], hostname |-> h,
                       interface_index |-> q.target[2], address |-> a]
  <2>3. Target(event) = q.target
    <3>1. (a \in network[q.target]) \in BOOLEAN
      OBVIOUS
    <3> QED  BY <2>1, <2>2, <3>1, ReportedEvent
  <2>4. event.added => event.address \in Pool[Target(event)]
    BY <2>1, <2>3 DEF Own
  <2>5. \A i \in 1..Len(address_channel') :
           address_channel'[i].added
               => address_channel'[i].address \in Pool[Target(address_channel'[i])]
    <3>1. address_channel \in Seq(AddressEvents) /\ Len(address_channel) \in Nat
      BY <1>1, LenProperties DEF TypeOK
    <3>2. /\ Len(address_channel') = Len(address_channel) + 1
          /\ address_channel'[Len(address_channel) + 1] = event
          /\ \A i \in 1..Len(address_channel) : address_channel'[i] = address_channel[i]
      BY <2>2, <3>1
    <3> QED  BY <2>4, <3>1, <3>2 DEF Own
  <2>6. starting # {} => starting' # {}
    BY <1>4 DEF Report, AfterReport
  <2> QED  BY <1>4, <2>5, <2>6 DEF Report, Own, OwnAddressesOnly
<1>5. CASE Poll
  BY <1>5 DEF Poll, Own, OwnAddressesOnly, resolver
<1>6. CASE KeepQueries
  <2>1. resolved' # None /\ queried' = Target(resolved')
    BY <1>1, <1>6, HeadTailProperties, ServiceAssumption
       DEF KeepQueries, Answered, TypeOK, ServiceAssumption
  <2>2. resolved # None /\ Target(resolved') = Target(resolved)
    BY <1>6, <2>1 DEF KeepQueries, Answered, Own
  <2> QED  BY <1>6, <2>1, <2>2 DEF KeepQueries, Own, OwnAddressesOnly
<1>7. CASE StartQueries
  <2>1. resolve_channel \in Seq(Services) /\ Head(resolve_channel) \in Services
    BY <1>1, <1>7, HeadTailProperties DEF StartQueries, TypeOK
  <2>2. starting' # {}
    <3>1. PICK types \in StartOutcomes :
             starting' = [type : types, target : {Target(service')}, reported : {{}}]
      BY <1>7 DEF StartQueries
    <3>2. types \in SUBSET RecordTypes /\ types # {} /\ Target(service') \in Targets
      BY <1>7, <2>1, BoundAssumption, ServiceAssumption
         DEF StartQueries, BoundAssumption, ServiceAssumption
    <3> QED  BY <3>1, <3>2, StartedQueries
  <2> QED  BY <1>7, <2>2 DEF StartQueries, Own, OwnAddressesOnly, resolver
<1>8. CASE ReplaceQueries
  BY <1>8 DEF ReplaceQueries, Own, OwnAddressesOnly
<1>9. CASE StartFailed
  BY <1>9 DEF StartFailed, Own
<1>10. CASE NoMoreAnnouncements
  BY <1>10 DEF NoMoreAnnouncements, Own, OwnAddressesOnly, resolver
<1>11. CASE ReceiveAddress
  <2> DEFINE event == Head(address_channel)
  <2>1. /\ address_channel \in Seq(AddressEvents) /\ address_channel # <<>>
        /\ event = address_channel[1] /\ Len(address_channel) \in Nat \ {0}
    BY <1>1, <1>11, EmptySeq, LenProperties DEF ReceiveAddress, TypeOK
  <2>2. event.added => event.address \in Pool[Target(event)]
    BY <2>1 DEF Own
  <2>3. addresses' # {} => resolved # None /\ addresses' \subseteq Pool[Target(resolved)]
    BY <1>11, <2>2
       DEF ReceiveAddress, Concerns, AddressesAfter, Target, Own
  <2>4. \A i \in 1..Len(address_channel') :
           address_channel'[i].added
               => address_channel'[i].address \in Pool[Target(address_channel'[i])]
    <3>1. /\ Len(address_channel') = Len(address_channel) - 1
          /\ \A i \in 1..Len(address_channel') : address_channel'[i] = address_channel[i + 1]
      BY <1>11, <2>1, HeadTailProperties DEF ReceiveAddress
    <3> QED  BY <2>1, <3>1 DEF Own
  <2> QED  BY <1>11, <2>3, <2>4 DEF ReceiveAddress, Own, OwnAddressesOnly
<1>12. CASE Return
  BY <1>12 DEF Return, Own, OwnAddressesOnly, resolver
<1>13. CASE UNCHANGED vars
  BY <1>13 DEF vars, Own, OwnAddressesOnly, resolver, call
<1> QED
  BY <1>2, <1>3, <1>4, <1>5, <1>6, <1>7, <1>8, <1>9, <1>10, <1>11, <1>12, <1>13
     DEF Next, TryRecv, Libcups, Responder

\* An update never names an address its host did not have on its interface, provided
\* query_addresses never fails altogether (dnssd.rs:196-203, 313-315, 331-335).
THEOREM AddressesStayWithTheirHost ==
    ASSUME {} \notin StartOutcomes
    PROVE  Spec => []OwnAddressesOnly
<1>1. Init => Own
  BY DEF Init, Own, OwnAddressesOnly
<1>2. TypeInv /\ Own /\ [Next]_vars => Own'
  BY OwnStep
<1>3. Own => OwnAddressesOnly
  BY DEF Own
<1> QED  BY <1>1, <1>2, <1>3, TypeInit, TypeStep, PTL DEF Spec

-----------------------------------------------------------------------------
\* What a query has told of an address its host still has is never undone: the last word on
\* it in the channel is that it was added, or it is held and nothing in the channel takes it
\* away.
About(event, t, a) == Target(event) = t /\ event.address = a

OnlyAdded(channel, t, a) ==
    \A i \in 1..Len(channel) : About(channel[i], t, a) => channel[i].added

Coming(channel, t, a) ==
    \E i \in 1..Len(channel) :
       /\ About(channel[i], t, a)
       /\ \A j \in i..Len(channel) : About(channel[j], t, a) => channel[j].added

LEMMA EventSent ==
    ASSUME NEW channel \in Seq(AddressEvents), NEW event \in AddressEvents, NEW t, NEW a,
           About(event, t, a) => event.added
    PROVE  LET sent == Append(channel, event) IN
           /\ Coming(channel, t, a) => Coming(sent, t, a)
           /\ OnlyAdded(channel, t, a) => OnlyAdded(sent, t, a)
           /\ About(event, t, a) => Coming(sent, t, a)
<1> DEFINE sent == Append(channel, event)
           n == Len(channel)
<1>1. /\ n \in Nat /\ Len(sent) = n + 1 /\ sent[n + 1] = event
      /\ \A i \in 1..n : sent[i] = channel[i]
  OBVIOUS
<1> HIDE DEF sent, n
<1>2. ASSUME Coming(channel, t, a)  PROVE Coming(sent, t, a)
  <2>1. PICK i \in 1..n : /\ About(channel[i], t, a)
                          /\ \A j \in i..n : About(channel[j], t, a) => channel[j].added
    BY <1>2 DEF Coming, n
  <2>2. i \in 1..n + 1 /\ About(sent[i], t, a)
    BY <1>1, <2>1
  <2>3. ASSUME NEW j \in i..n + 1, About(sent[j], t, a)  PROVE sent[j].added
    <3>1. j \in i..n \/ j = n + 1
      BY <1>1
    <3>2. CASE j \in i..n
      <4>1. j \in 1..n
        BY <1>1, <3>2
      <4> QED  BY <1>1, <2>1, <2>3, <3>2, <4>1
    <3>3. CASE j = n + 1
      BY <1>1, <2>3, <3>3
    <3> QED  BY <3>1, <3>2, <3>3
  <2> QED  BY <1>1, <2>2, <2>3 DEF Coming
<1>3. ASSUME OnlyAdded(channel, t, a)  PROVE OnlyAdded(sent, t, a)
  <2>1. ASSUME NEW j \in 1..n + 1, About(sent[j], t, a)  PROVE sent[j].added
    <3>1. j \in 1..n \/ j = n + 1
      BY <1>1
    <3> QED  BY <1>1, <1>3, <2>1, <3>1 DEF OnlyAdded, n
  <2> QED  BY <1>1, <2>1 DEF OnlyAdded
<1>4. ASSUME About(event, t, a)  PROVE Coming(sent, t, a)
  <2>1. n + 1 \in 1..Len(sent) /\ \A j \in n + 1..Len(sent) : j = n + 1
    BY <1>1
  <2> QED  BY <1>1, <1>4, <2>1 DEF Coming
<1> QED  BY <1>2, <1>3, <1>4 DEF sent

LEMMA EventReceived ==
    ASSUME NEW channel \in Seq(AddressEvents), channel # <<>>, NEW t, NEW a
    PROVE  LET event == Head(channel) IN
           /\ Coming(channel, t, a) => \/ Coming(Tail(channel), t, a)
                                       \/ /\ About(event, t, a) /\ event.added
                                          /\ OnlyAdded(Tail(channel), t, a)
           /\ OnlyAdded(channel, t, a) => /\ About(event, t, a) => event.added
                                          /\ OnlyAdded(Tail(channel), t, a)
<1> DEFINE n == Len(channel)
           left == Tail(channel)
<1>1. /\ n \in Nat /\ n # 0 /\ Head(channel) = channel[1]
      /\ Len(left) = n - 1 /\ \A i \in 1..n - 1 : left[i] = channel[i + 1]
  BY EmptySeq, LenProperties, HeadTailProperties
<1> HIDE DEF n, left
<1>2. ASSUME NEW i \in 1..n, i # 1, About(channel[i], t, a),
             \A j \in i..n : About(channel[j], t, a) => channel[j].added
      PROVE  Coming(left, t, a)
  <2>1. i - 1 \in 1..n - 1 /\ left[i - 1] = channel[i]
    <3>1. i - 1 \in 1..n - 1 /\ (i - 1) + 1 = i
      BY <1>1, <1>2
    <3> QED  BY <1>1, <3>1
  <2>2. ASSUME NEW j \in i - 1..n - 1, About(left[j], t, a)  PROVE left[j].added
    <3>1. j \in 1..n - 1 /\ j + 1 \in i..n
      BY <1>1, <1>2
    <3> QED  BY <1>1, <1>2, <2>2, <3>1
  <2> QED  BY <1>1, <1>2, <2>1, <2>2 DEF Coming
<1>3. ASSUME \A j \in 1..n : About(channel[j], t, a) => channel[j].added
      PROVE  OnlyAdded(left, t, a)
  <2>1. ASSUME NEW j \in 1..n - 1, About(left[j], t, a)  PROVE left[j].added
    <3>1. j + 1 \in 1..n
      BY <1>1
    <3> QED  BY <1>1, <1>3, <2>1, <3>1
  <2> QED  BY <1>1, <2>1 DEF OnlyAdded
<1>4. 1 \in 1..n
  BY <1>1
<1>5. ASSUME Coming(channel, t, a)
      PROVE  \/ Coming(left, t, a)
             \/ About(channel[1], t, a) /\ channel[1].added /\ OnlyAdded(left, t, a)
  <2>1. PICK i \in 1..n : /\ About(channel[i], t, a)
                          /\ \A j \in i..n : About(channel[j], t, a) => channel[j].added
    BY <1>5 DEF Coming, n
  <2>2. CASE i = 1
    BY <1>3, <1>4, <2>1, <2>2
  <2>3. CASE i # 1
    BY <1>2, <2>1, <2>3
  <2> QED  BY <2>2, <2>3
<1>6. OnlyAdded(channel, t, a)
         => (About(channel[1], t, a) => channel[1].added) /\ OnlyAdded(left, t, a)
  BY <1>3, <1>4 DEF OnlyAdded, n
<1> QED  BY <1>1, <1>5, <1>6 DEF left

-----------------------------------------------------------------------------
TypesOf(queries) == {q.type : q \in queries}

LEMMA StartedTypes ==
    ASSUME NEW types \in SUBSET RecordTypes, NEW t
    PROVE  LET new == [type : types, target : {t}, reported : {{}}] IN
           TypesOf(new) = types /\ \A q \in new : q.target = t /\ q.reported = {}
<1> DEFINE new == [type : types, target : {t}, reported : {{}}]
<1>1. ASSUME NEW type \in types  PROVE type \in TypesOf(new)
  <2>1. \E q \in new : q.type = type
    <3>1. [type |-> type, target |-> t, reported |-> {}] \in new
      OBVIOUS
    <3> QED  BY <3>1
  <2> HIDE DEF new
  <2> QED  BY <2>1 DEF TypesOf
<1>2. \A q \in new : q.type \in types /\ q.target = t /\ q.reported = {}
  OBVIOUS
<1> QED  BY <1>1, <1>2 DEF TypesOf

LEMMA ReportedTypes ==
    ASSUME NEW queries \in SUBSET Queries, NEW q \in queries, NEW a \in AllAddress
    PROVE  /\ TypesOf(AfterReport(queries, q, a)) = TypesOf(queries)
           /\ \A r \in AfterReport(queries, q, a) : r \in queries \/ r = Told(q, a)
           /\ /\ Told(q, a).type = q.type /\ Told(q, a).target = q.target
              /\ \A b : b # a => (b \in Told(q, a).reported <=> b \in q.reported)
<1>1. /\ Told(q, a).type = q.type /\ Told(q, a).target = q.target
      /\ \A b : b # a => (b \in Told(q, a).reported <=> b \in q.reported)
  BY DEF Told, Queries
<1>2. AfterReport(queries, q, a) = (queries \ {q}) \union {Told(q, a)}
  BY DEF AfterReport
<1>3. \A type : (\E r \in AfterReport(queries, q, a) : r.type = type)
                   <=> (\E r \in queries : r.type = type)
  BY <1>1, <1>2
<1>4. TypesOf(AfterReport(queries, q, a)) = TypesOf(queries)
  BY <1>3 DEF TypesOf
<1> QED  BY <1>1, <1>2, <1>4

Heard ==
    /\ \A q \in address_queries : resolved # None /\ q.target = queried
    /\ \A q \in starting : pc = "queries" /\ q.target = Target(service)
    /\ resolved # None => TypesOf(address_queries) \in StartOutcomes
    /\ pc = "queries" => TypesOf(starting) \in StartOutcomes
    /\ \A q \in address_queries : \A a \in q.reported \intersect network[q.target] :
          \/ Coming(address_channel, q.target, a)
          \/ a \in addresses /\ OnlyAdded(address_channel, q.target, a)
    /\ \A q \in starting : \A a \in q.reported \intersect network[q.target] :
          Coming(address_channel, q.target, a)
    /\ \A q \in Running : q.reported \subseteq Addresses(q.type)

LEMMA HeardStep ==
    {} \notin StartOutcomes /\ TypeInv /\ Own /\ Heard /\ [Next]_vars => Heard'
<1> SUFFICES ASSUME {} \notin StartOutcomes, TypeInv, Own, Heard, [Next]_vars  PROVE Heard'
  OBVIOUS
<1>1. TypeOK
  BY DEF TypeInv
<1>channel. address_channel \in Seq(AddressEvents)
  BY <1>1 DEF TypeOK
<1>2. ASSUME NEW s \in Services, Announce(s)  PROVE Heard'
  BY <1>2 DEF Announce, Heard, Running, resolver, call
<1>3. ASSUME NEW t \in Targets, NEW b \in Pool[t], ChangeAddress(t, b)  PROVE Heard'
  \* An address is gained only when no running query has told of it.
  <2>1. ASSUME NEW q \in Running, NEW a \in q.reported \intersect network'[q.target]
        PROVE  a \in network[q.target]
    <3>1. q.target \in Targets /\ a \in Addresses(q.type)
      BY <1>1 DEF Running, TypeOK, Queries, Heard
    <3>2. CASE q.target = t /\ a = b
      BY <1>3, <3>1, <3>2 DEF ChangeAddress, InStep
    <3>3. CASE ~ (q.target = t /\ a = b)
      BY <1>1, <1>3, <3>1, <3>3 DEF ChangeAddress, TypeOK
    <3> QED  BY <3>2, <3>3
  <2>2. UNCHANGED <<address_channel, address_queries, queried, resolved, addresses, pc,
                    service, starting>>
    BY <1>3 DEF ChangeAddress, resolver, call
  <2> QED  BY <2>1, <2>2 DEF Heard, Running
<1>4. ASSUME NEW q \in Running, NEW b \in AllAddress, Report(q, b)  PROVE Heard'
  <2>1. q \in Queries /\ address_queries \in SUBSET Queries /\ starting \in SUBSET Queries
    BY <1>1 DEF Running, TypeOK
  <2>2. PICK h \in Hostnames :
          /\ normalize_name(h) = q.target[1]
          /\ address_channel' = Append(address_channel,
               [added |-> b \in network[q.target], hostname |-> h,
                interface_index |-> q.target[2], address |-> b])
    BY <1>4 DEF Report
  <2> DEFINE event == [added |-> b \in network[q.target], hostname |-> h,
                       interface_index |-> q.target[2], address |-> b]
  <2>3. event \in AddressEvents /\ Target(event) = q.target
        /\ event.address = b /\ event.added = (b \in network[q.target])
    <3>1. (b \in network[q.target]) \in BOOLEAN
      OBVIOUS
    <3> HIDE DEF TypeInv
    <3>2. event \in AddressEvents /\ Target(event) = q.target
      BY <2>1, <2>2, <3>1, ReportedEvent
    <3> QED  BY <3>2
  <2>4. address_channel' = Append(address_channel, event)
    BY <2>2
  <2> HIDE DEF event
  <2>5. /\ \/ /\ q \in address_queries
              /\ address_queries' = AfterReport(address_queries, q, b) /\ starting' = starting
           \/ /\ q \in starting
              /\ starting' = AfterReport(starting, q, b) /\ address_queries' = address_queries
        /\ b \in Addresses(q.type)
        /\ UNCHANGED <<queried, resolved, addresses, pc, service, network>>
    BY <1>4 DEF Report
  <2>6. /\ TypesOf(address_queries') = TypesOf(address_queries)
        /\ TypesOf(starting') = TypesOf(starting)
        /\ \A r \in address_queries' :
              r \in address_queries \/ (q \in address_queries /\ r = Told(q, b))
        /\ \A r \in starting' : r \in starting \/ (q \in starting /\ r = Told(q, b))
        /\ /\ Told(q, b).type = q.type /\ Told(q, b).target = q.target
           /\ \A a : a # b => (a \in Told(q, b).reported <=> a \in q.reported)
    <3> HIDE DEF TypeInv, Heard
    <3>1. ASSUME NEW queries \in SUBSET Queries, q \in queries
          PROVE  /\ TypesOf(AfterReport(queries, q, b)) = TypesOf(queries)
                 /\ \A r \in AfterReport(queries, q, b) : r \in queries \/ r = Told(q, b)
                 /\ /\ Told(q, b).type = q.type /\ Told(q, b).target = q.target
                    /\ \A a : a # b => (a \in Told(q, b).reported <=> a \in q.reported)
      BY <3>1, ReportedTypes
    <3>2. CASE /\ q \in address_queries
               /\ address_queries' = AfterReport(address_queries, q, b) /\ starting' = starting
      BY <2>1, <3>1, <3>2
    <3>3. CASE /\ q \in starting
               /\ starting' = AfterReport(starting, q, b) /\ address_queries' = address_queries
      BY <2>1, <3>1, <3>3
    <3> QED  BY <2>5, <3>2, <3>3
  <2>7. ASSUME NEW t, NEW a \in network[t]
        PROVE  /\ Coming(address_channel, t, a) => Coming(address_channel', t, a)
               /\ OnlyAdded(address_channel, t, a) => OnlyAdded(address_channel', t, a)
               /\ t = q.target /\ a = b => Coming(address_channel', t, a)
    <3>1. About(event, t, a) => event.added
      BY <2>3 DEF About
    <3>2. t = q.target /\ a = b => About(event, t, a)
      BY <2>3 DEF About
    <3> QED  BY <1>channel, <2>3, <2>4, <3>1, <3>2, EventSent
  <2>8. ASSUME NEW r \in address_queries', NEW a \in r.reported \intersect network[r.target]
        PROVE  \/ Coming(address_channel', r.target, a)
               \/ a \in addresses /\ OnlyAdded(address_channel', r.target, a)
    <3>1. CASE r \in address_queries
      BY <2>7, <3>1 DEF Heard
    <3>2. CASE q \in address_queries /\ r = Told(q, b) /\ a # b
      BY <2>6, <2>7, <3>2 DEF Heard
    <3>3. CASE r = Told(q, b) /\ a = b
      BY <2>6, <2>7, <3>3
    <3> QED  BY <2>6, <3>1, <3>2, <3>3
  <2>9. ASSUME NEW r \in starting', NEW a \in r.reported \intersect network[r.target]
        PROVE  Coming(address_channel', r.target, a)
    <3>1. CASE r \in starting
      BY <2>7, <3>1 DEF Heard
    <3>2. CASE q \in starting /\ r = Told(q, b) /\ a # b
      BY <2>6, <2>7, <3>2 DEF Heard
    <3>3. CASE r = Told(q, b) /\ a = b
      BY <2>6, <2>7, <3>3
    <3> QED  BY <2>6, <3>1, <3>2, <3>3
  <2>10. \A r \in Running' : r.reported \subseteq Addresses(r.type)
    <3>1. ASSUME NEW r \in Running'  PROVE r \in Running \/ r = Told(q, b)
      BY <2>6 DEF Running
    <3>2. Told(q, b).reported \subseteq Addresses(q.type)
      <4>1. q.reported \subseteq Addresses(q.type)
        BY DEF Heard
      <4> QED  BY <2>5, <2>6, <4>1
    <3> QED  BY <2>6, <3>1, <3>2 DEF Heard
  <2>11. /\ \A r \in address_queries' : resolved' # None /\ r.target = queried'
         /\ \A r \in starting' : pc' = "queries" /\ r.target = Target(service')
    BY <2>5, <2>6 DEF Heard
  <2> QED  BY <2>5, <2>6, <2>8, <2>9, <2>10, <2>11 DEF Heard
<1>5. CASE Poll
  BY <1>5 DEF Poll, Heard, Running, resolver
<1>6. CASE KeepQueries
  <2>1. resolved' # None
    BY <1>1, <1>6, HeadTailProperties, ServiceAssumption
       DEF KeepQueries, TypeOK, ServiceAssumption
  <2>2. resolved # None
    BY <1>6 DEF KeepQueries, Answered, Own
  <2> QED  BY <1>6, <2>1, <2>2 DEF KeepQueries, Heard, Running
<1>7. CASE StartQueries
  <2>1. PICK types \in StartOutcomes :
           starting' = [type : types, target : {Target(service')}, reported : {{}}]
    BY <1>7 DEF StartQueries
  <2>2. /\ TypesOf(starting') = types
        /\ \A q \in starting' : q.target = Target(service') /\ q.reported = {}
    BY <2>1, StartedTypes, BoundAssumption DEF BoundAssumption
  <2>3. pc' = "queries"
        /\ UNCHANGED <<address_channel, address_queries, queried, resolved, addresses, network>>
    BY <1>7 DEF StartQueries, resolver
  <2> QED  BY <2>1, <2>2, <2>3 DEF Heard, Running
<1>8. CASE ReplaceQueries
  \* What the old queries told is forgotten; what the new ones have told is in the channel.
  <2>1. resolved' # None
    BY <1>8, ServiceAssumption DEF ReplaceQueries, TypeInv, ServiceAssumption
  <2> QED  BY <1>8, <2>1 DEF ReplaceQueries, Heard, Running
<1>9. ~ StartFailed
  BY DEF StartFailed, Own
<1>10. CASE NoMoreAnnouncements
  BY <1>10 DEF NoMoreAnnouncements, Heard, Running, resolver
<1>11. CASE ReceiveAddress
  <2> DEFINE event == Head(address_channel)
  <2>1. address_channel # <<>> /\ event \in AddressEvents
    BY <1>11, <1>channel, HeadTailProperties DEF ReceiveAddress
  <2>2. ASSUME NEW q \in address_queries, NEW a \in q.reported \intersect network[q.target]
        PROVE  \/ Coming(address_channel', q.target, a)
               \/ a \in addresses' /\ OnlyAdded(address_channel', q.target, a)
    <3>1. resolved # None /\ q.target = Target(resolved)
      BY DEF Heard, Own
    <3>2. Concerns(event) <=> Target(event) = q.target
      BY <3>1 DEF Concerns, Target
    <3>3. /\ About(event, q.target, a) /\ event.added => a \in addresses'
          /\ (About(event, q.target, a) => event.added) => (a \in addresses => a \in addresses')
      BY <1>11, <3>2 DEF ReceiveAddress, About, AddressesAfter
    <3>4. address_channel' = Tail(address_channel)
      BY <1>11 DEF ReceiveAddress
    <3>5. CASE Coming(address_channel, q.target, a)
      BY <1>channel, <2>1, <3>3, <3>4, <3>5, EventReceived
    <3>6. CASE a \in addresses /\ OnlyAdded(address_channel, q.target, a)
      BY <1>channel, <2>1, <3>3, <3>4, <3>6, EventReceived
    <3> QED  BY <3>5, <3>6 DEF Heard
  <2>3. starting = {}
    BY <1>11 DEF ReceiveAddress, Heard
  <2> QED  BY <1>11, <2>2, <2>3 DEF ReceiveAddress, Heard, Running
<1>12. CASE Return
  BY <1>12 DEF Return, Heard, Running, resolver
<1>13. CASE UNCHANGED vars
  BY <1>13 DEF vars, Heard, Running, resolver, call
<1> QED
  BY <1>2, <1>3, <1>4, <1>5, <1>6, <1>7, <1>8, <1>9, <1>10, <1>11, <1>12, <1>13
     DEF Next, TryRecv, Libcups, Responder

\* Whenever nothing is on its way, the consumer knows the last announcement with all its
\* host's addresses of the types asked for, through every restart of the queries and every
\* interleaving of their callbacks with try_recv (dnssd.rs:295-362).
THEOREM NoAddressLost ==
    ASSUME {} \notin StartOutcomes
    PROVE  Spec => []SettledKnows
<1>1. Init => Own
  BY DEF Init, Own, OwnAddressesOnly
<1>2. TypeInv /\ Own /\ [Next]_vars => Own'
  BY OwnStep
<1>3. Init => Heard
  BY DEF Init, Heard, Running
<1>4. TypeInv /\ Own /\ Heard /\ [Next]_vars => Heard'
  BY HeardStep
<1>5. ASSUME TypeInv, ConsumerUpToDate, ServiceNotLost, Own, Heard  PROVE SettledKnows
  <2> SUFFICES ASSUME Settled, announced # None  PROVE SettledKnows
    BY DEF SettledKnows
  <2>1. resolved = announced /\ queried = Target(announced)
    BY <1>5 DEF Settled, ServiceNotLost, Latest, Own
  <2>2. TypesOf(address_queries) \in StartOutcomes
    BY <1>5, <2>1 DEF Heard
  <2>3. ASSUME NEW type \in TypesOf(address_queries), NEW a \in network[Target(announced)],
               a \in Addresses(type)
        PROVE  view # None /\ view.service = announced /\ a \in view.addresses
    <3>1. PICK q \in address_queries : q.type = type
      BY DEF TypesOf
    <3>2. q.target = Target(announced)
      BY <1>5, <2>1, <3>1 DEF Heard
    <3>3. a \in q.reported
      BY <2>3, <3>1, <3>2 DEF Settled, InStep
    <3>4. ~ Coming(address_channel, q.target, a)
      BY DEF Settled, Coming
    <3>5. a \in addresses
      BY <1>5, <3>1, <3>2, <3>3, <3>4 DEF Heard
    <3>6. view = [service |-> resolved, addresses |-> addresses]
      BY <1>5, <2>1, <3>5 DEF ConsumerUpToDate, Settled
    <3>7. view # None
      <4>1. view \in Updates
        BY <1>5, <2>1, <3>6 DEF TypeInv, TypeOK, Updates, Settled, Own
      <4> QED  BY <4>1, UpdateAssumption DEF UpdateAssumption
    <3> QED  BY <2>1, <3>5, <3>6, <3>7
  <2> QED  BY <2>2, <2>3 DEF SettledKnows
<1> QED
  BY <1>1, <1>2, <1>3, <1>4, <1>5, ConsumerKnows, LastAnnouncementHeld, TypeInit, TypeStep,
     PTL DEF Spec

-----------------------------------------------------------------------------
\* As long as no host has changed its addresses, what is said of them is true.
Unchanged ==
    changesLeft = MaxChanges =>
       /\ \A i \in 1..Len(address_channel) :
             address_channel[i].added
                 => address_channel[i].address \in network[Target(address_channel[i])]
       /\ addresses # {} => addresses \subseteq network[Target(resolved)]
       /\ TrueUntilChanged

LEMMA UnchangedStep ==
    {} \notin StartOutcomes /\ TypeInv /\ Own /\ Unchanged /\ [Next]_vars => Unchanged'
<1> SUFFICES ASSUME {} \notin StartOutcomes, TypeInv, Own, Unchanged, [Next]_vars,
                    changesLeft' = MaxChanges
             PROVE  Unchanged'
  BY DEF Unchanged
<1>1. TypeOK
  BY DEF TypeInv
<1>2. ASSUME NEW s \in Services, Announce(s)  PROVE Unchanged'
  BY <1>2 DEF Announce, Unchanged, TrueUntilChanged, resolver, call
<1>3. ASSUME NEW t \in Targets, NEW a \in Pool[t], ChangeAddress(t, a)  PROVE FALSE
  BY <1>1, <1>3, BoundAssumption DEF ChangeAddress, TypeOK, BoundAssumption
<1>4. ASSUME NEW q \in Running, NEW a \in AllAddress, Report(q, a)  PROVE Unchanged'
  <2>1. q \in Queries
    BY <1>1 DEF Running, TypeOK
  <2>2. PICK h \in Hostnames :
          /\ normalize_name(h) = q.target[1]
          /\ address_channel' = Append(address_channel,
               [added |-> a \in network[q.target], hostname |-> h,
                interface_index |-> q.target[2], address |-> a])
    BY <1>4 DEF Report
  <2> DEFINE event == [added |-> a \in network[q.target], hostname |-> h,
                       interface_index |-> q.target[2], address |-> a]
  <2>3. Target(event) = q.target
    <3>1. (a \in network[q.target]) \in BOOLEAN
      OBVIOUS
    <3> QED  BY <2>1, <2>2, <3>1, ReportedEvent
  <2>4. event.added => event.address \in network[Target(event)]
    BY <2>3
  <2>5. \A i \in 1..Len(address_channel') :
           address_channel'[i].added
               => address_channel'[i].address \in network[Target(address_channel'[i])]
    <3>1. address_channel \in Seq(AddressEvents) /\ Len(address_channel) \in Nat
      BY <1>1, LenProperties DEF TypeOK
    <3>2. /\ Len(address_channel') = Len(address_channel) + 1
          /\ address_channel'[Len(address_channel) + 1] = event
          /\ \A i \in 1..Len(address_channel) : address_channel'[i] = address_channel[i]
      BY <2>2, <3>1
    <3>3. changesLeft = MaxChanges
      BY <1>4 DEF Report, budget
    <3> QED  BY <2>4, <3>1, <3>2, <3>3 DEF Unchanged
  <2> QED  BY <1>4, <2>5 DEF Report, Unchanged, TrueUntilChanged, budget
<1>5. CASE Poll
  BY <1>5 DEF Poll, Unchanged, TrueUntilChanged, resolver, budget
<1>6. CASE KeepQueries
  <2>1. resolved # None /\ Target(resolved') = Target(resolved)
    BY <1>6 DEF KeepQueries, Answered, Own
  <2> QED  BY <1>6, <2>1 DEF KeepQueries, Unchanged, TrueUntilChanged, budget
<1>7. CASE StartQueries
  BY <1>7 DEF StartQueries, Unchanged, TrueUntilChanged, resolver, budget
<1>8. CASE ReplaceQueries
  BY <1>8 DEF ReplaceQueries, Unchanged, TrueUntilChanged, budget
<1>9. ~ StartFailed
  BY DEF StartFailed, Own
<1>10. CASE NoMoreAnnouncements
  BY <1>10 DEF NoMoreAnnouncements, Unchanged, TrueUntilChanged, resolver, budget
<1>11. CASE ReceiveAddress
  <2> DEFINE event == Head(address_channel)
  <2>1. /\ address_channel \in Seq(AddressEvents) /\ address_channel # <<>>
        /\ event = address_channel[1] /\ Len(address_channel) \in Nat \ {0}
    BY <1>1, <1>11, EmptySeq, LenProperties DEF ReceiveAddress, TypeOK
  <2>2. UNCHANGED <<resolved, view, network, changesLeft>>
    BY <1>11 DEF ReceiveAddress, budget
  <2>3. event.added => event.address \in network[Target(event)]
    BY <2>1, <2>2 DEF Unchanged
  <2>4. addresses' # {} => addresses' \subseteq network[Target(resolved)]
    BY <1>11, <2>2, <2>3
       DEF ReceiveAddress, Concerns, AddressesAfter, Target, Unchanged
  <2>5. \A i \in 1..Len(address_channel') :
           address_channel'[i].added
               => address_channel'[i].address \in network[Target(address_channel'[i])]
    <3>1. /\ Len(address_channel') = Len(address_channel) - 1
          /\ \A i \in 1..Len(address_channel') : address_channel'[i] = address_channel[i + 1]
      BY <1>11, <2>1, HeadTailProperties DEF ReceiveAddress
    <3> QED  BY <2>1, <2>2, <3>1 DEF Unchanged
  <2> QED  BY <2>2, <2>4, <2>5 DEF Unchanged, TrueUntilChanged
<1>12. CASE Return
  BY <1>12 DEF Return, Unchanged, TrueUntilChanged, resolver, budget
<1>13. CASE UNCHANGED vars
  BY <1>13 DEF vars, Unchanged, TrueUntilChanged, resolver, call, budget
<1> QED
  BY <1>2, <1>3, <1>4, <1>5, <1>6, <1>7, <1>8, <1>9, <1>10, <1>11, <1>12, <1>13
     DEF Next, TryRecv, Libcups, Responder

\* An update that names an address its host does not have names one that was lost: until a
\* host changes its addresses, every update is true (dnssd.rs:313, 331-335).
THEOREM UpdatesTrueUntilChanged ==
    ASSUME {} \notin StartOutcomes
    PROVE  Spec => []TrueUntilChanged
<1>1. Init => Own
  BY DEF Init, Own, OwnAddressesOnly
<1>2. TypeInv /\ Own /\ [Next]_vars => Own'
  BY OwnStep
<1>3. Init => Unchanged
  BY DEF Init, Unchanged, TrueUntilChanged
<1>4. TypeInv /\ Own /\ Unchanged /\ [Next]_vars => Unchanged'
  BY UnchangedStep
<1>5. Unchanged => TrueUntilChanged
  BY DEF Unchanged, TrueUntilChanged
<1> QED  BY <1>1, <1>2, <1>3, <1>4, <1>5, TypeInit, TypeStep, PTL DEF Spec

\* Where both queries always start and no host has changed its addresses yet, the consumer
\* ends up with exactly the addresses of the host announced last, unless it has none: then
\* it may know another service still (dnssd.rs:295-362).
THEOREM SettledExactly ==
    ASSUME StartOutcomes = {RecordTypes}
    PROVE  Spec => [](Settled /\ announced # None /\ changesLeft = MaxChanges
                      /\ network[Target(announced)] # {}
                         => view = [service   |-> announced,
                                    addresses |-> network[Target(announced)]])
<1>1. {} \notin StartOutcomes
  BY DEF RecordTypes
<1>2. Spec => []SettledKnows
  BY <1>1, NoAddressLost
<1>3. Spec => []TrueUntilChanged
  BY <1>1, UpdatesTrueUntilChanged
<1>4. ASSUME TypeOK, SettledKnows, TrueUntilChanged, Settled, announced # None,
             changesLeft = MaxChanges, network[Target(announced)] # {}
      PROVE  view = [service |-> announced, addresses |-> network[Target(announced)]]
  <2> DEFINE has == network[Target(announced)]
  <2>1. announced \in Services /\ Target(announced) \in Targets /\ has \subseteq AllAddress
    BY <1>4, ServiceAssumption DEF TypeOK, ServiceAssumption
  <2>2. \A a \in has : \E type \in RecordTypes : a \in Addresses(type)
    BY <2>1 DEF AllAddress, Addresses, RecordTypes, A, AAAA
  <2>3. \A a \in has : view # None /\ view.service = announced /\ a \in view.addresses
    <3>1. \A a \in has : (\E type \in RecordTypes : a \in Addresses(type))
             => view # None /\ view.service = announced /\ a \in view.addresses
      BY <1>4 DEF SettledKnows
    <3> QED  BY <2>2, <3>1
  <2>4. view # None /\ view.service = announced /\ has \subseteq view.addresses
    BY <1>4, <2>3
  <2>5. view.addresses \subseteq has
    BY <1>4, <2>4 DEF TrueUntilChanged
  <2>6. view \in Updates
    BY <1>4, <2>4 DEF TypeOK
  <2> QED  BY <2>4, <2>5, <2>6 DEF Updates
<1> QED  BY <1>2, <1>3, <1>4, TypeCorrect, PTL

-----------------------------------------------------------------------------
\* The announcement taken is the head of what is pending, one sent its end.
LEMMA TakenFirst ==
    ASSUME NEW S, NEW s \in S, NEW c \in Seq(S)
    PROVE  <<s>> \o c # <<>> /\ Head(<<s>> \o c) = s /\ Tail(<<s>> \o c) = c
<1> DEFINE p == <<s>> \o c
<1>1. p \in Seq(S) /\ Len(p) = 1 + Len(c) /\ Len(c) \in Nat
  BY ConcatProperties
<1>2. p[1] = s /\ \A i \in 1..Len(c) : p[i + 1] = c[i]
  BY ConcatProperties
<1>3. Len(p) # 0 /\ p # <<>>
  BY <1>1, EmptySeq
<1>4. Tail(p) \in Seq(S) /\ Len(Tail(p)) = Len(c) /\ \A i \in 1..Len(c) : Tail(p)[i] = c[i]
  BY <1>1, <1>2, <1>3, HeadTailProperties
<1>5. Tail(p) = c
  BY <1>4, SeqEqual
<1> QED  BY <1>2, <1>3, <1>5

LEMMA TakenBack ==
    ASSUME NEW S, NEW c \in Seq(S), c # <<>>
    PROVE  <<Head(c)>> \o Tail(c) = c
<1> DEFINE p == <<Head(c)>> \o Tail(c)
<1>1. Head(c) \in S /\ Tail(c) \in Seq(S) /\ Len(Tail(c)) = Len(c) - 1
  BY HeadTailProperties
<1>2. /\ Len(c) \in Nat /\ Len(c) # 0 /\ Head(c) = c[1]
      /\ \A i \in 1..Len(c) - 1 : Tail(c)[i] = c[i + 1]
  BY <1>1, EmptySeq, HeadTailProperties
<1>3. p \in Seq(S) /\ Len(p) = Len(c)
  BY <1>1, <1>2, ConcatProperties
<1>4. \A i \in 1..Len(c) : p[i] = IF i <= 1 THEN Head(c) ELSE Tail(c)[i - 1]
  BY <1>1, <1>2, ConcatProperties
<1>5. \A i \in 1..Len(c) : p[i] = c[i]
  BY <1>2, <1>4
<1> QED  BY <1>3, <1>5, SeqEqual

LEMMA SentLast ==
    ASSUME NEW S, NEW s \in S, NEW c \in Seq(S), NEW e \in S
    PROVE  Append(<<s>> \o c, e) = <<s>> \o Append(c, e)
<1>1. <<s>> \in Seq(S) /\ <<e>> \in Seq(S)
  OBVIOUS
<1>2. Append(<<s>> \o c, e) = (<<s>> \o c) \o <<e>>
  BY <1>1, AppendIsConcat, ConcatProperties
<1>3. Append(c, e) = c \o <<e>>
  BY AppendIsConcat
<1> QED  BY <1>1, <1>2, <1>3, ConcatAssociative

LEMMA UpdatesStep ==
    {} \notin StartOutcomes /\ TypeInv /\ Own /\ [Next]_vars
        => [Consumer!Next]_(Consumer!vars)
<1> SUFFICES ASSUME {} \notin StartOutcomes, TypeInv, Own, [Next]_vars
             PROVE  [Consumer!Next]_(Consumer!vars)
  OBVIOUS
<1>1. TypeOK /\ (pc = "queries" => service \in Services)
  BY DEF TypeInv
<1>channel. resolve_channel \in Seq(Services)
  BY <1>1 DEF TypeOK
<1>held. resolved # None => resolved \in Services /\ addresses \subseteq Pool[Target(resolved)]
  BY <1>1 DEF TypeOK, Own
<1>2. ASSUME NEW s \in Services, Announce(s)  PROVE Consumer!Announce(s)
  <2>1. Pending' = Append(Pending, s)
    <3>1. CASE pc = "queries"
      BY <1>1, <1>2, <1>channel, <3>1, SentLast DEF Announce, Pending, call
    <3>2. CASE pc # "queries"
      BY <1>2, <3>2 DEF Announce, Pending, call
    <3> QED  BY <3>1, <3>2
  <2> QED  BY <1>2, <2>1 DEF Announce, Consumer!Announce, resolver
<1>3. ASSUME NEW t \in Targets, NEW a \in Pool[t], ChangeAddress(t, a)
      PROVE  UNCHANGED Consumer!vars
  BY <1>3 DEF ChangeAddress, Pending, Consumer!vars, resolver, call
<1>4. ASSUME NEW q \in Running, NEW a \in AllAddress, Report(q, a)
      PROVE  UNCHANGED Consumer!vars
  BY <1>4 DEF Report, Pending, Consumer!vars
<1>5. CASE Poll
  BY <1>5 DEF Poll, Pending, Consumer!vars, resolver
<1>6. ASSUME KeepQueries  PROVE Consumer!Take
  \* The host is the one held: its addresses are the new announcement's too.
  <2>1. Head(resolve_channel) \in Services /\ Target(Head(resolve_channel)) = queried
    BY <1>6, <1>channel, HeadTailProperties DEF KeepQueries, Answered
  <2>2. resolved # None /\ Target(resolved) = queried
    BY <1>6 DEF KeepQueries, Answered, Own
  <2>3. addresses \subseteq [s \in Services |-> Pool[Target(s)]][resolved']
    BY <1>6, <1>held, <2>1, <2>2 DEF KeepQueries
  <2>4. Pending = resolve_channel /\ Pending' = resolve_channel'
    BY <1>6 DEF KeepQueries, Pending
  <2> QED  BY <1>6, <2>3, <2>4 DEF KeepQueries, Consumer!Take
<1>7. ASSUME StartQueries  PROVE UNCHANGED Consumer!vars
  <2>1. Pending' = Pending
    BY <1>7, <1>channel, TakenBack DEF StartQueries, Pending
  <2> QED  BY <1>7, <2>1 DEF StartQueries, Consumer!vars, resolver
<1>8. ASSUME ReplaceQueries  PROVE Consumer!Take
  <2>1. Pending # <<>> /\ Head(Pending) = service /\ Tail(Pending) = resolve_channel
    BY <1>1, <1>8, <1>channel, TakenFirst DEF ReplaceQueries, Pending
  <2>2. Pending' = resolve_channel
    BY <1>8 DEF ReplaceQueries, Pending
  <2> QED  BY <1>8, <2>1, <2>2 DEF ReplaceQueries, Consumer!Take
<1>9. ~ StartFailed
  BY DEF StartFailed, Own
<1>10. CASE NoMoreAnnouncements
  BY <1>10 DEF NoMoreAnnouncements, Pending, Consumer!vars, resolver
<1>11. ASSUME ReceiveAddress  PROVE [Consumer!Next]_(Consumer!vars)
  <2> DEFINE event == Head(address_channel)
             May == [s \in Services |-> Pool[Target(s)]]
             Known == UNION {May[s] : s \in Services}
  <2>1. event \in AddressEvents /\ event = address_channel[1] /\ 1 \in 1..Len(address_channel)
    <3>1. address_channel \in Seq(AddressEvents) /\ address_channel # <<>>
      BY <1>1, <1>11 DEF ReceiveAddress, TypeOK
    <3>2. Len(address_channel) \in Nat /\ Len(address_channel) # 0
      BY <3>1, EmptySeq, LenProperties
    <3> QED  BY <3>1, <3>2, HeadTailProperties
  <2>2. event.added => event.address \in Pool[Target(event)]
    BY <2>1 DEF Own
  <2>3. Pending' = Pending
    BY <1>11 DEF ReceiveAddress, Pending
  <2>4. CASE ~ Concerns(event)
    BY <1>11, <2>3, <2>4 DEF ReceiveAddress, Consumer!vars
  <2>5. CASE Concerns(event)
    <3>1. resolved \in Services /\ Target(event) = Target(resolved)
      BY <1>held, <2>5 DEF Concerns, Target
    <3>2. addresses \subseteq May[resolved] /\ May[resolved] \subseteq Known
      <4>1. May[resolved] = Pool[Target(resolved)]
        BY <3>1
      <4>2. \A x \in May[resolved] : x \in Known
        <5> SUFFICES ASSUME NEW x \in May[resolved]  PROVE x \in Known
          OBVIOUS
        <5>1. May[resolved] \in {May[s] : s \in Services}
          BY <3>1
        <5> HIDE DEF May
        <5> QED  BY <5>1
      <4> QED  BY <1>held, <2>5, <4>1, <4>2 DEF Concerns
    <3>3. addresses' = AddressesAfter(event)
      BY <1>11, <2>5 DEF ReceiveAddress
    <3>4. CASE event.address \in Known
      <4>1. event.added => event.address \in May[resolved]
        BY <2>2, <3>1
      <4>2. resolved # None /\ UNCHANGED <<Pending, resolved, view>>
        BY <1>11, <2>3, <2>5 DEF ReceiveAddress, Concerns
      <4>3. \/ addresses' = addresses \ {event.address}
            \/ addresses' = addresses \union {event.address} /\ event.address \in May[resolved]
        BY <3>3, <4>1 DEF AddressesAfter
      <4>4. Consumer!Learn(event.address)
        BY <4>2, <4>3 DEF Consumer!Learn
      <4> QED  BY <3>4, <4>4 DEF Consumer!Next
    <3>5. CASE event.address \notin Known
      \* Lost by a host left behind, and not held.
      <4>1. ~ event.added
        BY <2>2, <3>1, <3>2, <3>5
      <4>2. addresses' = addresses
        BY <3>2, <3>3, <3>5, <4>1 DEF AddressesAfter
      <4> QED  BY <1>11, <2>3, <4>2 DEF ReceiveAddress, Consumer!vars
    <3> QED  BY <3>4, <3>5
  <2> QED  BY <2>4, <2>5
<1>12. ASSUME Return  PROVE Consumer!Tell \/ UNCHANGED Consumer!vars
  <2>1. Pending' = Pending
    BY <1>12 DEF Return, Pending
  <2> QED  BY <1>12, <2>1 DEF Return, Consumer!Tell, Consumer!vars, resolver
<1>13. CASE UNCHANGED vars
  BY <1>13 DEF vars, Pending, Consumer!vars, resolver, call
<1> QED
  BY <1>2, <1>3, <1>4, <1>5, <1>6, <1>7, <1>8, <1>9, <1>10, <1>11, <1>12, <1>13
     DEF Next, TryRecv, Libcups, Responder, Consumer!Next

\* try_recv implements the updates a consumer relies on, for all hosts, services and
\* addresses, provided query_addresses never fails altogether (dnssd.rs:295-362).
THEOREM UpdatesImplemented ==
    ASSUME {} \notin StartOutcomes
    PROVE  Spec => ImplementsUpdates
<1>1. Init => Own
  BY DEF Init, Own, OwnAddressesOnly
<1>2. TypeInv /\ Own /\ [Next]_vars => Own'
  BY OwnStep
<1>3. Init => Consumer!Init
  BY DEF Init, Pending, Consumer!Init
<1>4. TypeInv /\ Own /\ [Next]_vars => [Consumer!Next]_(Consumer!vars)
  BY UpdatesStep
<1> QED
  BY <1>1, <1>2, <1>3, <1>4, TypeInit, TypeStep, PTL
     DEF Spec, ImplementsUpdates, Consumer!Spec
=============================================================================
