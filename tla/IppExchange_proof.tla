------------------------- MODULE IppExchange_proof --------------------------
(***************************************************************************)
(* For any number of connections, messages and attributes: libcups holds   *)
(* exactly the connections and messages that values of the library own,    *)
(* what a destination knows is kept, and an application sees IppCalls.     *)
(***************************************************************************)
EXTENDS IppExchange, TLAPS

\* What a running send holds on to: its request, which nothing else may drop meanwhile,
\* a live connection or none, and, in get_attrs, a request for attributes the destination
\* does not know.
Exchange ==
    /\ sending.request = NULL => sending = NotSending
    /\ sending.request # NULL => sending.request \in requests
    /\ sending.via # NULL => sending.via \in DOMAIN https
    /\ sending.missing \intersect DOMAIN options = {}
    /\ sending.missing # {} =>
          heap[sending.request] =
             [header |-> GetPrinterAttributes, attributes |-> sending.missing]

IInv == TypeOK /\ ConnectionsOwned /\ MessagesOwned /\ Exchange

-----------------------------------------------------------------------------
\* Partial functions, and what Put and Free make of them.
LEMMA PartialType ==
    ASSUME NEW S, NEW T, NEW f
    PROVE  f \in Partial(S, T) <=> DOMAIN f \subseteq S /\ f \in [DOMAIN f -> T]
  BY DEF Partial

LEMMA PutType ==
    ASSUME NEW S, NEW T, NEW f \in Partial(S, T), NEW points \in SUBSET S, NEW value \in T
    PROVE  Put(f, points, value) \in Partial(S, T)
<1> DEFINE g == Put(f, points, value)
<1>1. DOMAIN f \subseteq S /\ f \in [DOMAIN f -> T]
  BY PartialType
<1>2. g \in [DOMAIN f \union points -> T] /\ DOMAIN g = DOMAIN f \union points
  BY <1>1 DEF Put
<1> QED
  BY <1>1, <1>2, PartialType

LEMMA FreeType ==
    ASSUME NEW S, NEW T, NEW f \in Partial(S, T), NEW points
    PROVE  Free(f, points) \in Partial(S, T)
<1> DEFINE g == Free(f, points)
<1>1. DOMAIN f \subseteq S /\ f \in [DOMAIN f -> T]
  BY PartialType
<1>2. g \in [DOMAIN f \ points -> T] /\ DOMAIN g = DOMAIN f \ points
  BY <1>1 DEF Free
<1> QED
  BY <1>1, <1>2, PartialType

LEMMA PutPoints ==
    ASSUME NEW f, NEW points, NEW value
    PROVE  /\ DOMAIN Put(f, points, value) = DOMAIN f \union points
           /\ \A p \in points : Put(f, points, value)[p] = value
           /\ \A p \in DOMAIN f \ points : Put(f, points, value)[p] = f[p]
  BY DEF Put

LEMMA FreePoints ==
    ASSUME NEW f, NEW points
    PROVE  DOMAIN Free(f, points) = DOMAIN f \ points
  BY DEF Free

\* The record of a send.
Sendings == [request : Messages \union {NULL}, copy : Messages \union {NULL},
             via : Https \union {NULL}, missing : SUBSET Attributes]

LEMMA NotSendingType == NotSending \in Sendings
  BY DEF NotSending, Sendings

-----------------------------------------------------------------------------
LEMMA InitInv == Init => IInv
<1> SUFFICES ASSUME Init  PROVE IInv
  OBVIOUS
<1>1. https \in Partial(Https, Servers) /\ heap \in Partial(Messages, Bodies)
  <2>1. \A T : <<>> \in [{} -> T] /\ DOMAIN <<>> = {}
    OBVIOUS
  <2> QED
    BY <2>1, PartialType DEF Init
<1>2. options \in Partial(Attributes, Servers \union {"scheduler", "lpoptions"})
  <2>1. PICK known \in SUBSET Attributes : options \in [known -> {"lpoptions"}]
    BY DEF Init
  <2>2. DOMAIN options = known /\ \A a \in known : options[a] = "lpoptions"
    BY <2>1
  <2> QED
    BY <2>1, <2>2, PartialType
<1>3. TypeOK
  BY <1>1, <1>2, NotSendingType DEF Init, TypeOK, Sendings
<1> QED
  BY <1>3 DEF Init, IInv, ConnectionsOwned, MessagesOwned, Exchange, NotSending

-----------------------------------------------------------------------------
\* One step of the next-state relation at a time, after what all of them need: the types
\* of https and heap, and of what Put and Free make of them.
LEMMA StepInv == IInv /\ [Next]_vars => IInv'
<1> SUFFICES ASSUME IInv, [Next]_vars  PROVE IInv'
  OBVIOUS
<1> USE PointersAssumption DEF PointersAssumption
<1>t. /\ https \in Partial(Https, Servers) /\ heap \in Partial(Messages, Bodies)
      /\ DOMAIN heap \subseteq Messages /\ DOMAIN https \subseteq Https
      /\ \A ipp \in DOMAIN heap : heap[ipp] \in Bodies
      /\ \A http \in DOMAIN https : https[http] \in Servers
      /\ requests \subseteq Messages /\ responses \subseteq Messages
      /\ sending \in Sendings
  <2>1. https \in Partial(Https, Servers) /\ heap \in Partial(Messages, Bodies)
    BY DEF IInv, TypeOK
  <2>2. DOMAIN heap \subseteq Messages /\ heap \in [DOMAIN heap -> Bodies]
    BY <2>1, PartialType
  <2>3. DOMAIN https \subseteq Https /\ https \in [DOMAIN https -> Servers]
    BY <2>1, PartialType
  <2> QED
    BY <2>1, <2>2, <2>3 DEF IInv, TypeOK, Sendings
<1>h. /\ \A http \in Https, server \in Servers :
            Put(https, {http}, server) \in Partial(Https, Servers)
      /\ \A points : Free(https, points) \in Partial(Https, Servers)
  <2>1. https \in Partial(Https, Servers)
    BY <1>t
  <2>2. ASSUME NEW http \in Https, NEW server \in Servers
        PROVE  Put(https, {http}, server) \in Partial(Https, Servers)
    <3>1. {http} \in SUBSET Https
      OBVIOUS
    <3> QED
      BY <2>1, <3>1, PutType
  <2>3. ASSUME NEW points
        PROVE  Free(https, points) \in Partial(Https, Servers)
    BY <2>1, FreeType
  <2> QED
    BY <2>2, <2>3
<1>p. ASSUME NEW ipp \in Messages, NEW said \in Bodies
      PROVE  Put(heap, {ipp}, said) \in Partial(Messages, Bodies)
  <2>1. {ipp} \in SUBSET Messages
    OBVIOUS
  <2> QED
    BY <1>t, <2>1, PutType
<1>f. ASSUME NEW points
      PROVE  Free(heap, points) \in Partial(Messages, Bodies)
  BY <1>t, FreeType
<1>n. /\ NotSending.request = NULL /\ NotSending.copy = NULL
      /\ NotSending.via = NULL /\ NotSending.missing = {}
  BY DEF NotSending
<1> USE DEF IInv
<1>1. CASE UNCHANGED vars
  BY <1>1 DEF vars, TypeOK, ConnectionsOwned, MessagesOwned, Exchange
<1>2. ASSUME NEW http \in Https, NEW server \in Servers, Connected(http, server)
      PROVE  IInv'
  <2>1. /\ https' \in Partial(Https, Servers)
        /\ DOMAIN https' = DOMAIN https \union {http}
    BY <1>2, <1>h, PutPoints DEF Connected
  <2>2. TypeOK'
    BY <1>2, <2>1 DEF Connected, TypeOK
  <2> QED
    BY <1>2, <2>1, <2>2 DEF Connected, Idle, NotSending, ConnectionsOwned, MessagesOwned, Exchange
<1>3. ASSUME NEW http \in Https \union {NULL}, Close(http) \/ DropConnection(http)
      PROVE  IInv'
  <2>1. /\ https' \in Partial(Https, Servers)
        /\ DOMAIN https' = DOMAIN https \ {http}
    BY <1>3, <1>h, FreePoints DEF Close, DropConnection
  <2>2. TypeOK'
    BY <1>3, <2>1 DEF Close, DropConnection, TypeOK
  <2> QED
    BY <1>3, <2>1, <2>2 DEF Close, DropConnection, Idle, NotSending, ConnectionsOwned,
       MessagesOwned, Exchange
<1>4. ASSUME NEW ipp \in Messages, NEW operation \in Headers, NewRequest(ipp, operation)
      PROVE  IInv'
  <2> DEFINE body == [header |-> operation, attributes |-> {}]
  <2>0. body \in Bodies /\ heap' = Put(heap, {ipp}, body)
    BY <1>4 DEF Bodies, NewRequest
  <2> HIDE DEF body
  <2>1. /\ heap' \in Partial(Messages, Bodies)
        /\ DOMAIN heap' = DOMAIN heap \union {ipp}
    BY <2>0, <1>p, PutPoints
  <2>2. TypeOK'
    BY <1>4, <2>1 DEF NewRequest, TypeOK
  <2>3. MessagesOwned'
    <3>1. /\ DOMAIN heap = requests \union responses /\ ipp \notin DOMAIN heap
          /\ requests' = requests \union {ipp} /\ responses' = responses /\ sending' = sending
          /\ sending.copy = NULL
      BY <1>4, <1>n DEF NewRequest, Idle, MessagesOwned
    <3> QED
      BY <1>t, <2>1, <3>1 DEF MessagesOwned
  <2>4. ConnectionsOwned'
    BY <1>4, <2>1, <1>n DEF NewRequest, Idle, ConnectionsOwned
  <2>5. Exchange'
    BY <1>4, <2>1, <1>n DEF NewRequest, Idle, Exchange
  <2> QED
    BY <2>2, <2>3, <2>4, <2>5
<1>5. ASSUME NEW ipp \in Messages, NEW attribute \in Attributes, AddAttribute(ipp, attribute)
      PROVE  IInv'
  <2> DEFINE body == [heap[ipp] EXCEPT !.attributes = @ \union {attribute}]
  <2>1. /\ heap' = [heap EXCEPT ![ipp] = body]
        /\ ipp \in DOMAIN heap
    BY <1>5 DEF AddAttribute, MessagesOwned
  <2>2. heap' \in Partial(Messages, Bodies) /\ DOMAIN heap' = DOMAIN heap
    <3>1. /\ DOMAIN heap' = DOMAIN heap /\ DOMAIN heap' \subseteq Messages
          /\ heap' \in [DOMAIN heap' -> Bodies]
      <4>1. body \in Bodies
        BY <1>t, <2>1 DEF Bodies
      <4> HIDE DEF body
      <4>2. \A m \in DOMAIN heap : heap[m] \in Bodies /\ ipp \in DOMAIN heap
        BY <1>t, <2>1
      <4> QED
        BY <1>t, <2>1, <4>1, <4>2
    <3> QED
      BY <3>1, PartialType
  <2>3. TypeOK'
    BY <1>5, <2>2 DEF AddAttribute, TypeOK
  <2> QED
    BY <1>5, <2>2, <2>3 DEF AddAttribute, Idle, NotSending, ConnectionsOwned, MessagesOwned,
       Exchange
<1>6. ASSUME NEW ipp \in Messages, NEW http \in connections \union {NULL}, Start(ipp, http)
      PROVE  IInv'
  <2>1. /\ sending' = [request |-> ipp, copy |-> NULL, via |-> http, missing |-> {}]
        /\ ipp \in requests /\ http \in Https \union {NULL}
    BY <1>6 DEF Start, NotSending, TypeOK
  <2>2. TypeOK'
    BY <1>6, <2>1 DEF Start, TypeOK
  <2> QED
    BY <1>6, <2>1, <2>2 DEF Start, Idle, NotSending, ConnectionsOwned, MessagesOwned, Exchange
<1>7. ASSUME NEW ipp \in Messages, NEW http \in Https \union {NULL},
             NEW wanted \in SUBSET Attributes, GetAttrs(ipp, http, wanted)
      PROVE  IInv'
  <2> DEFINE body == [header |-> GetPrinterAttributes, attributes |-> Missing(wanted)]
  <2>1. /\ heap' \in Partial(Messages, Bodies)
        /\ DOMAIN heap' = DOMAIN heap \union {ipp} /\ heap'[ipp] = body
    <3>1. heap' = Put(heap, {ipp}, body) /\ body \in Bodies
      BY <1>7, HeaderAssumption DEF GetAttrs, Missing, Bodies, HeaderAssumption
    <3> HIDE DEF body
    <3>2. ipp \in {ipp} /\ Put(heap, {ipp}, body) \in Partial(Messages, Bodies)
      BY <3>1, <1>p
    <3>3. heap'[ipp] = body
      BY <3>1 DEF Put
    <3> QED
      BY <3>1, <3>2, <3>3, PutPoints
  <2>2. /\ sending' = [request |-> ipp, copy |-> NULL, via |-> http, missing |-> Missing(wanted)]
        /\ Missing(wanted) \subseteq Attributes
        /\ Missing(wanted) \intersect DOMAIN options = {}
    BY <1>7 DEF GetAttrs, NotSending, Missing
  <2>3. TypeOK'
    BY <1>7, <2>1, <2>2 DEF GetAttrs, TypeOK
  <2>4. MessagesOwned'
    <3>1. /\ DOMAIN heap = requests \union responses /\ ipp \notin DOMAIN heap
          /\ requests' = requests \union {ipp} /\ responses' = responses
      BY <1>7, <1>n DEF GetAttrs, Idle, MessagesOwned
    <3>2. sending'.copy = NULL
      BY <2>2
    <3> QED
      BY <1>t, <2>1, <3>1, <3>2 DEF MessagesOwned
  <2>5. ConnectionsOwned'
    BY <1>7, <2>1, <2>2, <1>n DEF GetAttrs, Idle, ConnectionsOwned
  <2>6. Exchange'
    <3>1. /\ ipp # NULL /\ requests' = requests \union {ipp}
          /\ UNCHANGED <<https, options>> /\ http \in connections
      BY <1>7 DEF GetAttrs
    <3>2. http # NULL => http \in DOMAIN https
      BY <3>1 DEF ConnectionsOwned
    <3> QED
      BY <2>1, <2>2, <3>1, <3>2 DEF Exchange
  <2> QED
    BY <2>3, <2>4, <2>5, <2>6
<1>8. ASSUME NEW copy \in Messages, NEW copied \in SUBSET Attributes, Copy(copy, copied)
      PROVE  IInv'
  <2> DEFINE body == [heap[sending.request] EXCEPT !.attributes = copied]
  <2>1. sending.request \in requests /\ sending.request \in DOMAIN heap
    BY <1>8 DEF Copy, Exchange, MessagesOwned
  <2>2. /\ heap' \in Partial(Messages, Bodies)
        /\ DOMAIN heap' = DOMAIN heap \union {copy}
        /\ heap'[sending.request] = heap[sending.request]
    <3>1. heap' = Put(heap, {copy}, body) /\ copy \notin DOMAIN heap /\ body \in Bodies
      BY <1>t, <1>8, <2>1 DEF Copy, Bodies
    <3> HIDE DEF body
    <3>2. heap' \in Partial(Messages, Bodies)
      BY <1>p, <3>1
    <3>3. sending.request # copy
      BY <2>1, <3>1
    <3> QED
      BY <2>1, <3>1, <3>2, <3>3 DEF Put
  <2>3. /\ sending' \in Sendings /\ sending'.copy = copy
        /\ sending'.request = sending.request /\ sending'.via = sending.via
        /\ sending'.missing = sending.missing
    BY <1>t, <1>8 DEF Copy, Sendings
  <2>4. TypeOK'
    BY <1>8, <2>2, <2>3 DEF Copy, TypeOK, Sendings
  <2>5. MessagesOwned'
    BY <1>t, <1>8, <2>2, <2>3 DEF Copy, MessagesOwned
  <2>6. ConnectionsOwned'
    BY <1>8, <2>2, <2>3 DEF Copy, ConnectionsOwned
  <2>7. Exchange'
    BY <1>8, <2>1, <2>2, <2>3 DEF Copy, Exchange
  <2> QED
    BY <2>4, <2>5, <2>6, <2>7
\* The three ways a send ends: with nothing, a response or attributes.
<1>9. ASSUME NEW h \in Partial(Messages, Bodies), sending.request # NULL, h = Sent
      PROVE  /\ Own \subseteq requests /\ Own \subseteq Messages
             /\ DOMAIN h = (requests \ Own) \union responses
  <2>1. Own \subseteq requests
    BY <1>9 DEF Own, Exchange
  <2>2. DOMAIN h = DOMAIN heap \ ({sending.copy} \union Own)
    BY <1>9, FreePoints DEF Sent
  <2> QED
    BY <1>t, <2>1, <2>2 DEF MessagesOwned
<1>10. Sent \in Partial(Messages, Bodies)
  BY <1>f DEF Sent
<1>11. CASE SendFails
  <2>1. /\ heap' = Sent /\ requests' = requests \ Own /\ sending' = NotSending
        /\ UNCHANGED <<https, connections, responses, options>>
    BY <1>11 DEF SendFails, Return
  <2>2. Own \subseteq requests /\ DOMAIN heap' = (requests \ Own) \union responses
    BY <1>9, <1>10, <1>11, <2>1 DEF SendFails
  <2>3. TypeOK'
    BY <1>10, <2>1, NotSendingType DEF TypeOK, Sendings
  <2>4. MessagesOwned'
    BY <1>t, <2>1, <2>2, <1>n DEF MessagesOwned
  <2>5. ConnectionsOwned'
    BY <2>1, <2>2, <1>n DEF ConnectionsOwned
  <2>6. Exchange'
    BY <2>1, <2>2, <1>n DEF Exchange
  <2> QED
    BY <2>3, <2>4, <2>5, <2>6
<1>12. ASSUME NEW ipp \in Messages, NEW said \in Bodies, SendReturns(ipp, said)
       PROVE  IInv'
  <2>1. /\ heap' = Put(Sent, {ipp}, said) /\ responses' = responses \union {ipp}
        /\ requests' = requests \ Own /\ sending' = NotSending
        /\ Own = {} /\ ipp \notin DOMAIN heap
        /\ UNCHANGED <<https, connections, options>>
    BY <1>12 DEF SendReturns, Return, Own
  <2>2. sending.request # NULL
    BY <1>12 DEF SendReturns, Exchange, NotSending
  <2>3. DOMAIN Sent = requests \union responses
    BY <1>9, <1>10, <2>1, <2>2
  <2>4. /\ heap' \in Partial(Messages, Bodies)
        /\ DOMAIN heap' = requests \union responses \union {ipp}
    <3>1. {ipp} \in SUBSET Messages
      OBVIOUS
    <3>2. heap' \in Partial(Messages, Bodies)
      BY <1>10, <2>1, <3>1, PutType
    <3>3. DOMAIN heap' = DOMAIN Sent \union {ipp}
      BY <2>1 DEF Put
    <3>4. DOMAIN heap' = requests \union responses \union {ipp}
      BY <2>3, <3>3
    <3> QED
      BY <3>2, <3>4
  <2>5. TypeOK'
    BY <1>t, <2>1, <2>4, NotSendingType DEF TypeOK, Sendings
  <2>6. MessagesOwned'
    <3>1. /\ ipp \notin requests /\ ipp \notin responses /\ requests' = requests
          /\ requests \intersect responses = {}
      BY <2>1 DEF MessagesOwned
    <3> QED
      <4>1. sending'.copy = NULL /\ responses' = responses \union {ipp}
        BY <1>n, <2>1
      <4>2. DOMAIN heap' = requests' \union responses' \union ({sending'.copy} \ {NULL})
        BY <2>4, <3>1, <4>1
      <4>3. requests' \intersect responses' = {}
        BY <3>1, <4>1
      <4>4. NULL \notin requests' \union responses'
        BY <1>t, <3>1, <4>1
      <4> QED
        BY <4>1, <4>2, <4>3, <4>4 DEF MessagesOwned
  <2>7. ConnectionsOwned'
    BY <2>1, <2>4, <1>n DEF ConnectionsOwned
  <2>8. Exchange'
    BY <2>1, <2>4, <1>n DEF Exchange
  <2> QED
    BY <2>5, <2>6, <2>7, <2>8
<1>13. ASSUME NEW said \in SUBSET Attributes, GetAttrsReturns(said)  PROVE IInv'
  <2>1. /\ heap' = Sent /\ requests' = requests \ Own /\ sending' = NotSending
        /\ options' = Put(options, said \intersect sending.missing, Peer)
        /\ UNCHANGED <<https, connections, responses>>
    BY <1>13 DEF GetAttrsReturns, Return
  <2>2. sending.request # NULL
    BY <1>13 DEF GetAttrsReturns, Exchange, NotSending
  <2>3. Own \subseteq requests /\ DOMAIN heap' = (requests \ Own) \union responses
    BY <1>9, <1>10, <2>1, <2>2
  <2>4. Peer \in Servers \union {"scheduler", "lpoptions"}
    BY <1>t DEF Peer, Exchange
  <2>5. options' \in Partial(Attributes, Servers \union {"scheduler", "lpoptions"})
    <3>1. options \in Partial(Attributes, Servers \union {"scheduler", "lpoptions"})
      BY DEF TypeOK
    <3>2. said \intersect sending.missing \in SUBSET Attributes
      OBVIOUS
    <3> DEFINE T == Servers \union {"scheduler", "lpoptions"}
               n == said \intersect sending.missing
    <3> HIDE DEF T, n
    <3>3. options \in Partial(Attributes, T) /\ n \in SUBSET Attributes /\ Peer \in T
      BY <2>4, <3>1, <3>2 DEF T, n
    <3>4. Put(options, n, Peer) \in Partial(Attributes, T)
      BY <3>3, PutType
    <3> QED
      BY <2>1, <3>4 DEF T, n
  <2>6. TypeOK'
    BY <1>10, <2>1, <2>5, NotSendingType DEF TypeOK, Sendings
  <2>7. MessagesOwned'
    BY <1>t, <2>1, <2>3, <1>n DEF MessagesOwned
  <2>8. ConnectionsOwned'
    BY <2>1, <2>3, <1>n DEF ConnectionsOwned
  <2>9. Exchange'
    BY <2>1, <2>3, <1>n DEF Exchange
  <2> QED
    BY <2>6, <2>7, <2>8, <2>9
<1>14. ASSUME NEW ipp \in Messages, DropRequest(ipp) \/ DropResponse(ipp)  PROVE IInv'
  <2>1. /\ heap' \in Partial(Messages, Bodies)
        /\ DOMAIN heap' = DOMAIN heap \ {ipp}
    BY <1>14, <1>f, FreePoints DEF DropRequest, DropResponse
  <2>2. TypeOK'
    BY <1>14, <2>1 DEF DropRequest, DropResponse, TypeOK
  <2>3. MessagesOwned'
    BY <1>t, <1>14, <2>1, <1>n DEF DropRequest, DropResponse, Idle, MessagesOwned
  <2>4. ConnectionsOwned'
    BY <1>14, <2>1, <1>n DEF DropRequest, DropResponse, Idle, ConnectionsOwned
  <2>5. Exchange'
    BY <1>14, <2>1, <1>n DEF DropRequest, DropResponse, Idle, Exchange
  <2> QED
    BY <2>2, <2>3, <2>4, <2>5
<1> QED
  BY <1>1, <1>2, <1>3, <1>4, <1>5, <1>6, <1>7, <1>8, <1>11, <1>12, <1>13, <1>14
     DEF Next, ConnectHost, ConnectDest, Send, SendDefault

LEMMA Invariant == Spec => []IInv
  BY InitInv, StepInv, PTL DEF Spec

\* Every variable has its type, and no pointer is one of two kinds of value.
THEOREM TypeCorrect == Spec => []TypeOK
<1>1. IInv => TypeOK
  BY DEF IInv
<1> QED
  BY <1>1, Invariant, PTL

\* Any number of connections, closed, closed again, used and dropped in any order: libcups
\* holds those of the values and no other (connection.rs:207-226).
THEOREM NoConnectionLost == Spec => []ConnectionsOwned
<1>1. IInv => ConnectionsOwned
  BY DEF IInv
<1> QED
  BY <1>1, Invariant, PTL

\* Whatever fails, every message libcups holds is one value's to free, or the copy's
\* cupsDoRequest frees (ipp.rs:470-558, 679-688).
THEOREM NoMessageLost == Spec => []MessagesOwned
<1>1. IInv => MessagesOwned
  BY DEF IInv
<1> QED
  BY <1>1, Invariant, PTL

\* What a destination knows is kept, whatever a server says (destination/mod.rs:397-471).
THEOREM FillUpOnly == Spec => KnownOptionsKept
<1> DEFINE Kept == \A attribute \in DOMAIN options :
               attribute \in DOMAIN options' /\ options'[attribute] = options[attribute]
<1>1. ASSUME IInv, [Next]_vars  PROVE [Kept]_vars
  <2>1. ASSUME NEW said \in SUBSET Attributes, GetAttrsReturns(said)  PROVE Kept
    <3>1. /\ options \in Partial(Attributes, Servers \union {"scheduler", "lpoptions"})
          /\ options' = Put(options, said \intersect sending.missing, Peer)
          /\ sending.missing \intersect DOMAIN options = {}
      BY <1>1, <2>1 DEF GetAttrsReturns, IInv, TypeOK, Exchange
    <3> QED
      BY <3>1 DEF Put
  <2>2. CASE UNCHANGED options
    BY <2>2
  <2>3. /\ \A http, server : Connected(http, server) => UNCHANGED options
        /\ \A http : Close(http) \/ DropConnection(http) => UNCHANGED options
    BY DEF Connected, Close, DropConnection
  <2>4. /\ \A ipp, operation : NewRequest(ipp, operation) => UNCHANGED options
        /\ \A ipp, attribute : AddAttribute(ipp, attribute) => UNCHANGED options
        /\ \A ipp : DropRequest(ipp) \/ DropResponse(ipp) => UNCHANGED options
    BY DEF NewRequest, AddAttribute, DropRequest, DropResponse
  <2>5. /\ \A ipp, http : Start(ipp, http) => UNCHANGED options
        /\ \A ipp, http, wanted : GetAttrs(ipp, http, wanted) => UNCHANGED options
        /\ \A copy, copied : Copy(copy, copied) => UNCHANGED options
        /\ \A ipp, said : SendReturns(ipp, said) => UNCHANGED options
        /\ SendFails => UNCHANGED options
    BY Zenon DEF Start, GetAttrs, Copy, SendReturns, SendFails
  <2> QED
    BY <1>1, <2>1, <2>2, <2>3, <2>4, <2>5 DEF Next, vars, ConnectHost, ConnectDest, Send,
       SendDefault
<1> QED
  BY <1>1, Invariant, PTL DEF Spec, KnownOptionsKept
-----------------------------------------------------------------------------
(***************************************************************************)
(* The application sees IppCalls. What it has are the messages of its      *)
(* values; the copy of a send, and the request get_attrs builds, are none  *)
(* of them.                                                                *)
(***************************************************************************)
Mine     == Contents(requests \ Own)
Given    == Contents(responses)
InFlight == IF sending.missing = {} THEN sending.request ELSE NULL

LEMMA Memory ==
    ASSUME IInv
    PROVE  /\ requests \subseteq DOMAIN heap /\ responses \subseteq DOMAIN heap
           /\ requests \intersect responses = {}
           /\ requests \subseteq Messages /\ NULL \notin requests
           /\ Idle => /\ DOMAIN heap = requests \union responses /\ Own = {}
                      /\ InFlight = NULL /\ sending.missing = {} /\ Delivered = NULL
           /\ Mine \in [requests \ Own -> Bodies]
           /\ Given \in [responses -> Bodies]
<1>1. heap \in Partial(Messages, Bodies)
  BY DEF IInv, TypeOK
<1>2. DOMAIN heap \subseteq Messages /\ heap \in [DOMAIN heap -> Bodies]
  BY <1>1, PartialType
<1>3. /\ requests \subseteq DOMAIN heap /\ responses \subseteq DOMAIN heap
      /\ requests \intersect responses = {}
  BY DEF IInv, MessagesOwned
<1>4. Idle => /\ DOMAIN heap = requests \union responses /\ Own = {}
              /\ InFlight = NULL /\ sending.missing = {} /\ Delivered = NULL
  BY DEF IInv, MessagesOwned, Idle, NotSending, Own, InFlight, Delivered
<1>5. requests \subseteq Messages /\ NULL \notin requests
  BY PointersAssumption DEF PointersAssumption, IInv, TypeOK
<1>6. Mine \in [requests \ Own -> Bodies] /\ Given \in [responses -> Bodies]
  BY <1>2, <1>3 DEF Mine, Given, Contents
<1> QED
  BY <1>3, <1>4, <1>5, <1>6

\* Contents change with what the application has, and what its messages say.
LEMMA MineSame ==
    ASSUME (requests \ Own)' = requests \ Own, \A ipp \in requests \ Own : heap'[ipp] = heap[ipp]
    PROVE  Mine' = Mine
  BY DEF Mine, Contents

LEMMA GivenSame ==
    ASSUME responses' = responses, \A ipp \in responses : heap'[ipp] = heap[ipp]
    PROVE  Given' = Given
  BY DEF Given, Contents

LEMMA FreeNothing ==
    ASSUME NEW S, NEW T, NEW f \in Partial(S, T), NEW p, p \notin DOMAIN f
    PROVE  Free(f, {p}) = f
<1>1. f \in [DOMAIN f -> T] /\ DOMAIN f \ {p} = DOMAIN f
  BY PartialType
<1> QED
  BY <1>1 DEF Free

\* A step the application does not see.
Unseen == UNCHANGED <<https, Mine, Given, options, InFlight, sending.missing, Delivered>>

LEMMA UnseenStep == Unseen => UNCHANGED Calls!vars
  BY DEF Unseen, Calls!vars, Mine, Given, InFlight

-----------------------------------------------------------------------------
LEMMA ConnectionSteps ==
    ASSUME IInv,
           \/ \E http \in Https, server \in Servers : Connected(http, server)
           \/ \E http \in Https \union {NULL} : Close(http) \/ DropConnection(http)
    PROVE  [Calls!Next]_(Calls!vars)
<1>1. /\ Idle /\ UNCHANGED <<requests, responses, heap, sending, options>>
  BY DEF Connected, Close, DropConnection
<1>2. UNCHANGED <<Mine, Given, InFlight, sending.missing, Delivered>>
  BY <1>1 DEF Mine, Given, Contents, InFlight, Own, Delivered, Idle, NotSending
<1>3. InFlight = NULL /\ sending.missing = {} /\ Delivered = NULL
  BY <1>1, Memory
<1>4. ASSUME NEW http \in Https, NEW server \in Servers, Connected(http, server)
      PROVE  Calls!Connect(http, server)
  BY <1>1, <1>2, <1>3, <1>4
     DEF Calls!Connect, Calls!NoCall, Calls!Idle, Calls!With, Connected, Put, Mine, Given, InFlight
<1>5. ASSUME NEW http \in Https, Close(http) \/ DropConnection(http)
      PROVE  Calls!Disconnect(http)
  BY <1>1, <1>2, <1>3, <1>5
     DEF Calls!Disconnect, Calls!NoCall, Calls!Idle, Calls!Without, Close, DropConnection, Free,
         Mine, Given, InFlight
<1>6. ASSUME Close(NULL) \/ DropConnection(NULL)  PROVE Unseen
  <2>1. https \in Partial(Https, Servers) /\ NULL \notin DOMAIN https
    BY DEF IInv, TypeOK, ConnectionsOwned
  <2>2. https' = https
    BY <1>6, <2>1, FreeNothing DEF Close, DropConnection
  <2> QED
    BY <1>1, <1>2, <2>2 DEF Unseen
<1> QED
  BY <1>4, <1>5, <1>6, UnseenStep DEF Calls!Next

LEMMA RequestSteps ==
    ASSUME IInv, NEW ipp \in Messages
    PROVE  /\ \A operation \in Headers : NewRequest(ipp, operation) => Calls!New(ipp, operation)
           /\ \A attribute \in Attributes :
                 AddAttribute(ipp, attribute) => Calls!Ask(ipp, attribute)
<1>1. ASSUME NEW operation \in Headers, NewRequest(ipp, operation)
      PROVE  Calls!New(ipp, operation)
  <2> DEFINE body == [header |-> operation, attributes |-> {}]
  <2>1. /\ Idle /\ UNCHANGED <<https, responses, sending, options>>
        /\ ipp \notin DOMAIN heap /\ heap' = Put(heap, {ipp}, body)
        /\ requests' = requests \union {ipp}
    BY <1>1 DEF NewRequest
  <2> HIDE DEF body
  <2>2. /\ InFlight = NULL /\ sending.missing = {} /\ Delivered = NULL /\ Own = {}
        /\ UNCHANGED <<InFlight, sending.missing, Delivered>> /\ Own' = {}
    BY <2>1, Memory DEF InFlight, Delivered, Idle, NotSending, Own
  <2>3. ipp \notin requests \union responses /\ DOMAIN Mine = requests /\ DOMAIN Given = responses
    BY <2>1, <2>2, Memory
  <2>4. Mine' = [r \in requests \union {ipp} |-> IF r \in {ipp} THEN body ELSE Mine[r]]
    BY <2>1, <2>2, <2>3, Memory DEF Put, Mine, Contents
  <2>5. Given' = Given
    BY <2>1, Memory, GivenSame DEF Put
  <2> QED
    BY <2>1, <2>2, <2>3, <2>4, <2>5
       DEF Calls!New, Calls!NoCall, Calls!Idle, Calls!Unused, Calls!With, Mine, Given, InFlight,
           body
<1>2. ASSUME NEW attribute \in Attributes, AddAttribute(ipp, attribute)
      PROVE  Calls!Ask(ipp, attribute)
  <2>1. /\ Idle /\ UNCHANGED <<https, requests, responses, sending, options>> /\ ipp \in requests
        /\ heap' = [heap EXCEPT ![ipp].attributes = @ \union {attribute}]
    BY <1>2 DEF AddAttribute
  <2>2. /\ InFlight = NULL /\ sending.missing = {} /\ Delivered = NULL /\ Own = {}
        /\ UNCHANGED <<InFlight, sending.missing, Delivered>> /\ Own' = {}
    BY <2>1, Memory DEF InFlight, Delivered, Idle, NotSending, Own
  <2>3. DOMAIN Mine = requests /\ \A r \in requests : Mine[r] = heap[r]
    BY <2>2, Memory DEF Mine, Contents
  <2>4. Mine' = [Mine EXCEPT ![ipp].attributes = @ \union {attribute}]
    <3> DEFINE body == [heap[ipp] EXCEPT !.attributes = @ \union {attribute}]
    <3>1. heap' = [heap EXCEPT ![ipp] = body] /\ ipp \in DOMAIN heap
      BY <2>1, Memory
    <3>2. /\ Mine[ipp] = heap[ipp]
          /\ [Mine EXCEPT ![ipp] = body] =
                [Mine EXCEPT ![ipp].attributes = @ \union {attribute}]
      BY <2>1, <2>3
    <3> HIDE DEF body
    <3>3. Mine' = [r \in requests |-> heap'[r]] /\ Mine = [r \in requests |-> heap[r]]
      BY <2>1, <2>2 DEF Mine, Contents
    <3>4. Mine' = [Mine EXCEPT ![ipp] = body]
      BY <2>1, <3>1, <3>3, Memory
    <3> QED
      BY <3>2, <3>4
  <2>5. Given' = Given
    BY <2>1, Memory, GivenSame
  <2> QED
    BY <2>1, <2>2, <2>3, <2>4, <2>5
       DEF Calls!Ask, Calls!NoCall, Calls!Idle, Mine, Given, InFlight
<1> QED
  BY <1>1, <1>2

LEMMA DropSteps ==
    ASSUME IInv, NEW ipp \in Messages, DropRequest(ipp) \/ DropResponse(ipp)
    PROVE  Calls!Forget(ipp)
<1>1. /\ Idle /\ UNCHANGED <<https, sending, options>> /\ heap' = Free(heap, {ipp})
  BY DEF DropRequest, DropResponse
<1>2. /\ InFlight = NULL /\ sending.missing = {} /\ Delivered = NULL /\ Own = {}
      /\ UNCHANGED <<InFlight, sending.missing, Delivered>>
  BY <1>1, Memory DEF InFlight, Delivered, Idle, NotSending
<1>3. Own' = {}
  BY <1>1, <1>2 DEF Own
<1>4. \A m \in DOMAIN heap \ {ipp} : heap'[m] = heap[m]
  BY <1>1 DEF Free
<1>5. CASE DropRequest(ipp)
  <2>1. Mine' = [m \in DOMAIN Mine \ {ipp} |-> Mine[m]]
    BY <1>2, <1>3, <1>4, <1>5, Memory DEF DropRequest, Mine, Contents
  <2>2. Given' = Given
    BY <1>4, <1>5, Memory, GivenSame DEF DropRequest
  <2> QED
    BY <1>1, <1>2, <2>1, <2>2
       DEF Calls!Forget, Calls!NoCall, Calls!Idle, Calls!Without, Mine, Given, InFlight
<1>6. CASE DropResponse(ipp)
  <2>1. Given' = [m \in DOMAIN Given \ {ipp} |-> Given[m]]
    BY <1>4, <1>6, Memory DEF DropResponse, Given, Contents
  <2>2. Mine' = Mine
    BY <1>2, <1>3, <1>4, <1>6, Memory, MineSame DEF DropResponse
  <2> QED
    BY <1>1, <1>2, <2>1, <2>2
       DEF Calls!Forget, Calls!NoCall, Calls!Idle, Calls!Without, Mine, Given, InFlight
<1> QED
  BY <1>5, <1>6

-----------------------------------------------------------------------------
\* A call: it starts, copies, which shows nowhere, and returns.
LEMMA SendStarts ==
    ASSUME IInv, NEW ipp \in Messages, NEW http, Start(ipp, http)
    PROVE  Calls!Send(ipp)
<1>1. /\ Idle /\ ipp \in requests /\ UNCHANGED <<https, heap, requests, responses, options>>
      /\ sending'.request = ipp /\ sending'.missing = {} /\ sending'.copy = NULL
  BY DEF Start, NotSending
<1>2. InFlight = NULL /\ sending.missing = {} /\ Own = {} /\ Delivered = NULL
  BY <1>1, Memory
<1>3. InFlight' = ipp /\ Own' = {} /\ UNCHANGED <<sending.missing, Delivered>>
  BY <1>1, <1>2 DEF InFlight, Own, Delivered
<1>4. Mine' = Mine /\ Given' = Given /\ ipp \in DOMAIN Mine
  BY <1>1, <1>2, <1>3, MineSame, GivenSame DEF Mine, Contents
<1> QED
  BY <1>1, <1>2, <1>3, <1>4 DEF Calls!Send, Calls!Idle, Mine, Given, InFlight

LEMMA FillStarts ==
    ASSUME IInv, NEW ipp \in Messages, NEW http, NEW wanted \in SUBSET Attributes,
           GetAttrs(ipp, http, wanted)
    PROVE  \E attributes \in SUBSET Attributes : Calls!GetAttrs(attributes)
<1> DEFINE attributes == Missing(wanted)
           body == [header |-> GetPrinterAttributes, attributes |-> attributes]
<1>1. /\ Idle /\ ipp \notin DOMAIN heap /\ UNCHANGED <<https, responses, options>>
      /\ heap' = Put(heap, {ipp}, body) /\ requests' = requests \union {ipp}
      /\ sending'.request = ipp /\ sending'.missing = attributes /\ attributes # {}
      /\ sending'.copy = NULL /\ Uri \in DOMAIN options
  BY DEF GetAttrs, NotSending
<1>2. attributes \in SUBSET Attributes /\ attributes \intersect DOMAIN options = {}
  BY DEF Missing
<1> HIDE DEF attributes, body
<1>3. InFlight = NULL /\ sending.missing = {} /\ Own = {} /\ ipp \notin requests /\ Delivered = NULL
  BY <1>1, Memory
<1>4. InFlight' = NULL /\ Own' = {ipp} /\ requests' \ Own' = requests \ Own /\ Delivered' = NULL
  BY <1>1, <1>3 DEF InFlight, Own, Delivered
<1>5. \A m \in DOMAIN heap : heap'[m] = heap[m]
  BY <1>1 DEF Put
<1>6. Mine' = Mine /\ Given' = Given
  BY <1>1, <1>4, <1>5, Memory, MineSame, GivenSame
<1>7. Calls!GetAttrs(attributes)
  BY <1>1, <1>2, <1>3, <1>4, <1>6 DEF Calls!GetAttrs, Calls!Idle, Mine, Given, InFlight
<1> QED
  BY <1>2, <1>7

\* The copy is what the server is given: the request's header, and attributes of it.
LEMMA CopyDelivers ==
    ASSUME IInv, NEW copy \in Messages, NEW copied \in SUBSET Attributes, Copy(copy, copied)
    PROVE  \E body \in Bodies : Calls!Deliver(body)
<1> DEFINE body == [heap[sending.request] EXCEPT !.attributes = copied]
<1>1. /\ sending.request # NULL /\ sending.copy = NULL /\ copy \notin DOMAIN heap
      /\ copied \subseteq heap[sending.request].attributes
      /\ heap' = Put(heap, {copy}, body)
      /\ UNCHANGED <<https, requests, responses, options>>
      /\ sending'.request = sending.request /\ sending'.missing = sending.missing
      /\ sending'.copy = copy
  <2>1. sending \in Sendings
    BY DEF IInv, TypeOK, Sendings
  <2> QED
    BY <2>1 DEF Copy, Sendings
<1>2. Own' = Own /\ InFlight' = InFlight
  BY <1>1 DEF Own, InFlight
<1>3. sending.request \in requests /\ heap[sending.request] \in Bodies
  <2>1. sending.request \in requests
    BY <1>1 DEF IInv, Exchange
  <2>2. heap \in [DOMAIN heap -> Bodies]
    BY PartialType DEF IInv, TypeOK
  <2> QED
    BY <2>1, <2>2, Memory
<1>4. /\ body \in Bodies /\ body.header = heap[sending.request].header
      /\ body.attributes = copied
  BY <1>3 DEF Bodies
\* What the call is to send is what its request says.
<1>5. Calls!ToSend = heap[sending.request]
  <2>1. CASE sending.missing = {}
    <3>1. InFlight = sending.request /\ Own = {} /\ Mine[sending.request] = heap[sending.request]
      BY <1>3, <2>1 DEF InFlight, Own, Mine, Contents
    <3> QED
      BY <1>1, <3>1 DEF Calls!ToSend, Mine, InFlight
  <2>2. CASE sending.missing # {}
    BY <1>1, <2>2 DEF Calls!ToSend, IInv, Exchange
  <2> QED
    BY <2>1, <2>2
<1> HIDE DEF body
<1>6. \A m \in DOMAIN heap : heap'[m] = heap[m]
  BY <1>1 DEF Put
<1>7. Mine' = Mine /\ Given' = Given
  BY <1>1, <1>2, <1>6, Memory, MineSame, GivenSame
<1>8. Delivered = NULL /\ Delivered' = body
  <2>1. copy # NULL /\ heap'[copy] = body
    BY <1>1, PointersAssumption DEF PointersAssumption, Put
  <2> QED
    BY <1>1, <2>1 DEF Delivered
<1>9. ~ (InFlight = NULL /\ sending.missing = {})
  BY <1>1 DEF InFlight
<1>10. Calls!Deliver(body)
  BY <1>1, <1>2, <1>4, <1>5, <1>7, <1>8, <1>9
     DEF Calls!Deliver, Calls!Idle, Mine, Given, InFlight
<1> QED
  BY <1>4, <1>10

\* What is freed when a call returns is nothing the application has.
LEMMA ReturnKeeps ==
    ASSUME IInv, sending.request # NULL
    PROVE  /\ \A m \in (requests \ Own) \union responses :
                 m \in DOMAIN Sent /\ Sent[m] = heap[m]
           /\ DOMAIN Sent = (requests \ Own) \union responses
<1>1. Own \subseteq requests
  BY DEF Own, IInv, Exchange
<1>2. DOMAIN Sent = DOMAIN heap \ ({sending.copy} \union Own)
  BY FreePoints DEF Sent
<1>3. DOMAIN Sent = (requests \ Own) \union responses
  BY <1>1, <1>2, PointersAssumption DEF IInv, MessagesOwned, TypeOK, PointersAssumption
<1>4. \A m \in DOMAIN Sent : Sent[m] = heap[m]
  BY DEF Sent, Free
<1> QED
  BY <1>3, <1>4

LEMMA Returned ==
    ASSUME Return
    PROVE  /\ requests' = requests \ Own /\ Own' = {} /\ requests' \ Own' = requests \ Own
           /\ InFlight' = NULL /\ sending'.missing = {} /\ Delivered' = NULL /\ https' = https
  BY DEF Return, NotSending, Own, InFlight, Delivered

LEMMA FailEnds ==
    ASSUME IInv, SendFails
    PROVE  Calls!Fail
<1>1. /\ sending.request # NULL /\ heap' = Sent /\ Return /\ UNCHANGED <<responses, options>>
  BY DEF SendFails
<1>2. Mine' = Mine /\ Given' = Given
  BY <1>1, Returned, ReturnKeeps, MineSame, GivenSame
<1> QED
  BY <1>1, <1>2, Returned DEF Calls!Fail, Mine, Given, InFlight

\* A call that has its copy has given the server something.
LEMMA GivenSomething ==
    ASSUME IInv, sending.copy # NULL
    PROVE  Delivered # NULL
<1>1. sending.copy \in DOMAIN heap
  BY DEF IInv, MessagesOwned
<1>2. heap \in [DOMAIN heap -> Bodies]
  BY PartialType DEF IInv, TypeOK
<1>3. heap[sending.copy] \in Bodies
  BY <1>1, <1>2
<1> QED
  BY <1>3, PointersAssumption DEF PointersAssumption, Delivered

\* The response is a message of its own, and the application's.
LEMMA AnswerEnds ==
    ASSUME IInv, NEW ipp \in Messages, NEW said \in Bodies, SendReturns(ipp, said)
    PROVE  Calls!Answer(ipp, said)
<1>1. /\ sending.copy # NULL /\ sending.missing = {} /\ ipp \notin DOMAIN heap
      /\ heap' = Put(Sent, {ipp}, said)
      /\ responses' = responses \union {ipp} /\ Return /\ options' = options
  BY DEF SendReturns
<1>2. sending.request # NULL /\ sending.request \in requests /\ Delivered # NULL
  BY <1>1, GivenSomething DEF IInv, Exchange, NotSending
<1>3. Own = {} /\ InFlight = sending.request
  BY <1>1 DEF Own, InFlight
<1>4. DOMAIN Mine = requests /\ DOMAIN Given = responses
  BY <1>2, <1>3 DEF Mine, Given, Contents
<1>5. ipp \notin requests \union responses
  BY <1>1, Memory
<1>6. /\ heap'[ipp] = said
      /\ \A m \in requests \union responses : heap'[m] = heap[m]
  <2>1. \A m \in requests \union responses : m \in DOMAIN Sent /\ Sent[m] = heap[m]
    BY <1>2, <1>3, ReturnKeeps
  <2> QED
    BY <1>1, <1>5, <2>1 DEF Put
<1>7. Mine' = Mine
  BY <1>1, <1>3, <1>6, Returned, MineSame
<1>8. Given' = [m \in responses \union {ipp} |-> IF m \in {ipp} THEN said ELSE Given[m]]
  BY <1>1, <1>5, <1>6 DEF Given, Contents
<1> QED
  BY <1>1, <1>2, <1>3, <1>4, <1>5, <1>7, <1>8, Returned
     DEF Calls!Answer, Calls!Unused, Calls!With, Mine, Given, InFlight

LEMMA FillEnds ==
    ASSUME IInv, NEW said \in SUBSET Attributes, GetAttrsReturns(said)
    PROVE  \E attributes \in SUBSET Attributes, from \in Servers \union {"scheduler"} :
              Calls!FillUp(attributes, from)
<1> DEFINE attributes == said \intersect sending.missing
<1>1. /\ sending.copy # NULL /\ sending.missing # {}
      /\ options' = Put(options, attributes, Peer)
      /\ heap' = Sent /\ Return /\ responses' = responses
      /\ attributes \subseteq sending.missing
  BY DEF GetAttrsReturns
<1> HIDE DEF attributes
<1>2. sending.request # NULL /\ attributes \in SUBSET Attributes
  BY <1>1 DEF IInv, Exchange, NotSending, attributes
<1>3. InFlight = NULL /\ Delivered # NULL
  BY <1>1, GivenSomething DEF InFlight
<1>4. Mine' = Mine /\ Given' = Given
  BY <1>1, <1>2, Returned, ReturnKeeps, MineSame, GivenSame
<1>5. /\ Peer \in {https[http] : http \in DOMAIN https} \union {"scheduler"}
      /\ Peer \in Servers \union {"scheduler"}
  <2>1. sending.via # NULL => sending.via \in DOMAIN https
    BY DEF IInv, Exchange
  <2>2. \A http \in DOMAIN https : https[http] \in Servers
    <3>1. https \in [DOMAIN https -> Servers]
      BY PartialType DEF IInv, TypeOK
    <3> QED
      BY <3>1
  <2> QED
    BY <2>1, <2>2 DEF Peer
<1>6. Calls!FillUp(attributes, Peer)
  BY <1>1, <1>3, <1>4, <1>5, Returned
     DEF Calls!FillUp, Calls!With, Put, Mine, Given, InFlight
<1> QED
  BY <1>2, <1>5, <1>6

LEMMA CallsStep == IInv /\ [Next]_vars => [Calls!Next]_(Calls!vars)
<1> SUFFICES ASSUME IInv, [Next]_vars  PROVE [Calls!Next]_(Calls!vars)
  OBVIOUS
<1>1. CASE UNCHANGED vars
  <2>1. Unseen
    BY <1>1 DEF vars, Unseen, Mine, Given, Contents, InFlight, Own, Delivered
  <2> QED
    BY <2>1, UnseenStep
<1>2. ASSUME NEW ipp \in Messages,
             \/ \E operation \in Headers : NewRequest(ipp, operation)
             \/ \E attribute \in Attributes : AddAttribute(ipp, attribute)
      PROVE  Calls!Next
  BY <1>2, RequestSteps DEF Calls!Next
<1>3. ASSUME NEW ipp \in Messages, DropRequest(ipp) \/ DropResponse(ipp)  PROVE Calls!Next
  BY <1>3, DropSteps DEF Calls!Next
<1>4. ASSUME NEW ipp \in Messages, NEW http, Start(ipp, http)  PROVE Calls!Next
  BY <1>4, SendStarts DEF Calls!Next
<1>5. ASSUME NEW ipp \in Messages, NEW http, NEW wanted \in SUBSET Attributes,
             GetAttrs(ipp, http, wanted)
      PROVE  Calls!Next
  BY <1>5, FillStarts DEF Calls!Next
<1>6. ASSUME NEW ipp \in Messages, NEW copied \in SUBSET Attributes, Copy(ipp, copied)
      PROVE  Calls!Next
  BY <1>6, CopyDelivers DEF Calls!Next, Calls!Bodies, Bodies
<1>7. ASSUME SendFails  PROVE Calls!Next
  BY <1>7, FailEnds DEF Calls!Next
<1>8. ASSUME NEW ipp \in Messages, NEW said \in Bodies, SendReturns(ipp, said)
      PROVE  Calls!Next
  BY <1>8, AnswerEnds DEF Calls!Next, Calls!Bodies, Bodies
<1>9. ASSUME NEW said \in SUBSET Attributes, GetAttrsReturns(said)  PROVE Calls!Next
  BY <1>9, FillEnds DEF Calls!Next
<1> QED
  BY <1>1, <1>2, <1>3, <1>4, <1>5, <1>6, <1>7, <1>8, <1>9, ConnectionSteps
     DEF Next, ConnectHost, ConnectDest, Send, SendDefault

\* Whatever fails and in any order: messages are values to the application, the server is
\* given the operation asked for, once, and no attribute of another request, and attributes
\* are added from the server of an open connection or the scheduler
\* (connection.rs:207-226, ipp.rs:470-558, 679-688, destination/mod.rs:397-471).
THEOREM CallsImplemented == Spec => ImplementsCalls
<1>1. Init => Calls!Init
  <2> SUFFICES ASSUME Init  PROVE Calls!Init
    OBVIOUS
  <2>1. Own = {} /\ InFlight = NULL /\ sending.missing = {} /\ Delivered = NULL
    BY DEF Init, NotSending, Own, InFlight, Delivered
  <2>2. Mine = <<>> /\ Given = <<>>
    <3>1. requests \ Own = {} /\ responses = {}
      BY DEF Init
    <3> QED
      BY <3>1 DEF Mine, Given, Contents
  <2> QED
    BY <2>1, <2>2 DEF Init, Calls!Init, Mine, Given, InFlight
<1> QED
  BY <1>1, CallsStep, Invariant, PTL DEF Spec, ImplementsCalls, Calls!Spec
=============================================================================
