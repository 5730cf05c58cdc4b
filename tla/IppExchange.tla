---------------------------- MODULE IppExchange -----------------------------
(***************************************************************************)
(* src/src/connection.rs, ipp.rs and Destination::get_attrs: connections,  *)
(* requests, responses, and the printer attributes a Destination is filled *)
(* up with. One thread, as none of these values may leave it.              *)
(*                                                                         *)
(* The wrappers hold libcups' pointers: `https` and `heap` are what libcups*)
(* has allocated, `connections`, `requests` and `responses` what values    *)
(* point to. A pointer freed is used again by a later allocation.          *)
(***************************************************************************)
EXTENDS Integers

CONSTANTS
    Https,      \* http_t pointers
    Messages,   \* ipp_t pointers
    NULL,
    Attributes, \* attributes of a printer
    Uri,        \* among them, the one get_attrs needs to ask: printer-uri-supported
    Servers,    \* servers to connect to
    Headers,    \* operations, or statuses, with their request id
    GetPrinterAttributes  \* among them, what get_attrs asks for

\* What a message says. A request names attributes, a response has them.
Bodies == [header : Headers, attributes : SUBSET Attributes]

UriAssumption == Uri \in Attributes
HeaderAssumption == GetPrinterAttributes \in Headers
PointersAssumption == NULL \notin Https \union Messages \union Bodies
ASSUME UriAssumption
ASSUME HeaderAssumption
ASSUME PointersAssumption

VARIABLES
    https,       \* http_t -> the server it is connected to
    heap,        \* ipp_t -> what it says
    connections, \* the http_t of each HttpConnection value (NULL once closed)
    requests, responses, \* the ipp_t of each IppRequest, IppResponse
    sending,     \* the running send
    options      \* the Destination's options: attribute -> who said so

vars == <<https, heap, connections, requests, responses, sending, options>>

\* The request, its copy, the connection, and the attributes get_attrs is to fill in.
NotSending == [request |-> NULL, copy |-> NULL, via |-> NULL, missing |-> {}]

Init ==
    /\ https = <<>> /\ heap = <<>>
    /\ connections = {} /\ requests = {} /\ responses = {}
    /\ sending = NotSending
    /\ options \in UNION {[known -> {"lpoptions"}] : known \in SUBSET Attributes}

Idle == sending = NotSending

\* A function with a new value at some points, or without some.
Put(f, points, value) ==
    [p \in DOMAIN f \union points |-> IF p \in points THEN value ELSE f[p]]
Free(f, points) == [p \in DOMAIN f \ points |-> f[p]]

-----------------------------------------------------------------------------
\* HttpConnection. A connection that fails leaves everything as it was.

Connected(http, server) ==
    /\ Idle /\ http \notin DOMAIN https
    /\ https' = Put(https, {http}, server)
    /\ connections' = connections \union {http}
    /\ UNCHANGED <<heap, requests, responses, sending, options>>

ConnectHost(http, server) == Connected(http, server)
ConnectDest(http, server) == Connected(http, server)

Close_KeepPointer(http) ==
    /\ Idle /\ http \in connections
    /\ https' = Free(https, {http})
    /\ UNCHANGED <<connections, heap, requests, responses, sending, options>>

\* close; the value stays, and may be closed again, which does nothing, or used.
Close(http) ==
    /\ Idle /\ http \in connections
    /\ https' = Free(https, {http})
    /\ connections' = (connections \ {http}) \union {NULL}
    /\ UNCHANGED <<heap, requests, responses, sending, options>>

DropConnection(http) ==
    /\ Idle /\ http \in connections
    /\ https' = Free(https, {http})
    /\ connections' = connections \ {http}
    /\ UNCHANGED <<heap, requests, responses, sending, options>>

-----------------------------------------------------------------------------
\* IppRequest.

NewRequest(ipp, operation) ==
    /\ Idle /\ ipp \notin DOMAIN heap
    /\ heap' = Put(heap, {ipp}, [header |-> operation, attributes |-> {}])
    /\ requests' = requests \union {ipp}
    /\ UNCHANGED <<https, connections, responses, sending, options>>

\* add_string, add_strings, add_integer, add_boolean.
AddAttribute(ipp, attribute) ==
    /\ Idle /\ ipp \in requests
    /\ heap' = [heap EXCEPT ![ipp].attributes = @ \union {attribute}]
    /\ UNCHANGED <<https, connections, requests, responses, sending, options>>

\* A send starts, on a connection, or on none: libcups then uses its own.
Start(ipp, http) ==
    /\ Idle /\ ipp \in requests
    /\ sending' = [NotSending EXCEPT !.request = ipp, !.via = http]
    /\ UNCHANGED <<https, heap, connections, requests, responses, options>>

\* A closed connection's pointer is NULL, too.
Send(ipp, http)  == http \in connections /\ Start(ipp, http)
SendDefault(ipp) == Start(ipp, NULL)

\* get_attrs asks for what the destination does not know.
Missing_All(wanted) == wanted
Missing(wanted) == wanted \ DOMAIN options

GetAttrs(ipp, http, wanted) ==
    /\ Idle /\ ipp \notin DOMAIN heap /\ http \in connections
    /\ Missing(wanted) # {} /\ Uri \in DOMAIN options
    /\ heap' = Put(heap, {ipp},
                    [header |-> GetPrinterAttributes, attributes |-> Missing(wanted)])
    /\ requests' = requests \union {ipp}
    /\ sending' = [NotSending EXCEPT !.request = ipp, !.via = http, !.missing = Missing(wanted)]
    /\ UNCHANGED <<https, connections, responses, options>>

Copy_Original(copy, copied) ==
    /\ sending.request # NULL /\ sending.copy = NULL
    /\ copy = sending.request
    /\ sending' = [sending EXCEPT !.copy = copy]
    /\ UNCHANGED <<https, heap, connections, requests, responses, options>>

Copy_NoHeader(copy, copied) ==
    /\ sending.request # NULL /\ sending.copy = NULL
    /\ copy \notin DOMAIN heap /\ copied \subseteq heap[sending.request].attributes
    /\ heap' = Put(heap, {copy}, [header |-> NULL, attributes |-> copied])
    /\ sending' = [sending EXCEPT !.copy = copy]
    /\ UNCHANGED <<https, connections, requests, responses, options>>

\* cupsDoRequest frees the message it sends, so it is given a copy: the header, and what
\* ippCopyAttributes copied before it failed, which nobody asks.
Copy(copy, copied) ==
    /\ sending.request # NULL /\ sending.copy = NULL
    /\ copy \notin DOMAIN heap /\ copied \subseteq heap[sending.request].attributes
    /\ heap' = Put(heap, {copy}, [heap[sending.request] EXCEPT !.attributes = copied])
    /\ sending' = [sending EXCEPT !.copy = copy]
    /\ UNCHANGED <<https, connections, requests, responses, options>>

\* The call returns: cupsDoRequest has freed the copy, get_attrs drops its own request.
Own == IF sending.missing = {} THEN {} ELSE {sending.request}
Sent == Free(heap, {sending.copy} \union Own)
Return ==
    /\ requests' = requests \ Own
    /\ sending' = NotSending
    /\ UNCHANGED <<https, connections>>

\* No message for the copy, or no response.
SendFails ==
    /\ sending.request # NULL
    /\ heap' = Sent
    /\ Return
    /\ UNCHANGED <<responses, options>>

\* libcups' own connection is to the scheduler.
Peer == IF sending.via = NULL THEN "scheduler" ELSE https[sending.via]

\* The application is given the response, whatever it says.
SendReturns(ipp, said) ==
    /\ sending.copy # NULL /\ sending.missing = {}
    /\ ipp \notin DOMAIN heap
    /\ heap' = Put(Sent, {ipp}, said)
    /\ responses' = responses \union {ipp}
    /\ Return
    /\ UNCHANGED options

GetAttrsReturns_EmptyToo(said) ==
    /\ sending.copy # NULL /\ sending.missing # {}
    /\ options' = Put(Put(options, sending.missing, ""), said \intersect sending.missing, Peer)
    /\ heap' = Sent
    /\ Return
    /\ UNCHANGED responses

\* Of what the peer says, asked or not, the missing attributes are inserted; the response
\* is dropped.
GetAttrsReturns(said) ==
    /\ sending.copy # NULL /\ sending.missing # {}
    /\ options' = Put(options, said \intersect sending.missing, Peer)
    /\ heap' = Sent
    /\ Return
    /\ UNCHANGED responses

-----------------------------------------------------------------------------
DropRequest(ipp) ==
    /\ Idle /\ ipp \in requests
    /\ heap' = Free(heap, {ipp})
    /\ requests' = requests \ {ipp}
    /\ UNCHANGED <<https, connections, responses, sending, options>>

DropResponse(ipp) ==
    /\ Idle /\ ipp \in responses
    /\ heap' = Free(heap, {ipp})
    /\ responses' = responses \ {ipp}
    /\ UNCHANGED <<https, connections, requests, sending, options>>

Next ==
    \/ \E http \in Https, server \in Servers :
          ConnectHost(http, server) \/ ConnectDest(http, server)
    \/ \E http \in Https \union {NULL} : Close(http) \/ DropConnection(http)
    \/ \E ipp \in Messages :
          \/ \E operation \in Headers : NewRequest(ipp, operation)
          \/ \E attribute \in Attributes : AddAttribute(ipp, attribute)
          \/ \E http \in Https \union {NULL} :
                Send(ipp, http) \/ \E wanted \in SUBSET Attributes : GetAttrs(ipp, http, wanted)
          \/ SendDefault(ipp)
          \/ \E copied \in SUBSET Attributes : Copy(ipp, copied)
          \/ \E said \in Bodies : SendReturns(ipp, said)
          \/ DropRequest(ipp) \/ DropResponse(ipp)
    \/ SendFails
    \/ \E said \in SUBSET Attributes : GetAttrsReturns(said)

Spec == Init /\ [][Next]_vars

-----------------------------------------------------------------------------
Partial(S, T) == UNION {[D -> T] : D \in SUBSET S}

\* Every variable has its type.
TypeOK ==
    /\ https \in Partial(Https, Servers)
    /\ heap \in Partial(Messages, Bodies)
    /\ connections \subseteq Https \union {NULL}
    /\ requests \subseteq Messages /\ responses \subseteq Messages
    /\ sending \in [request : Messages \union {NULL}, copy : Messages \union {NULL},
                    via : Https \union {NULL}, missing : SUBSET Attributes]
    /\ options \in Partial(Attributes, Servers \union {"scheduler", "lpoptions"})

\* Every http_t libcups holds is the one of a connection, and none of a connection has
\* been closed under it: a connection closed and then dropped is closed once
\* (connection.rs:207-226).
ConnectionsOwned == DOMAIN https = connections \ {NULL}

\* The messages libcups holds are those of the requests and responses and the copy on its
\* way: a request may be sent again after cupsDoRequest freed what it was given, and no
\* way out of send or get_attrs leaves a message behind (ipp.rs:470-558, 679-688).
MessagesOwned ==
    /\ DOMAIN heap = requests \union responses \union ({sending.copy} \ {NULL})
    /\ requests \intersect responses = {} /\ sending.copy \notin requests \union responses

\* get_attrs fills up: what the destination knows, edits of the application and saved
\* options included, is never replaced by what a server says (destination/mod.rs:397-471).
KnownOptionsKept ==
    [][\A attribute \in DOMAIN options :
          attribute \in DOMAIN options' /\ options'[attribute] = options[attribute]]_vars

-----------------------------------------------------------------------------
\* The application's messages: those of values it has.
Contents(values) == [ipp \in values |-> heap[ipp]]
Delivered == IF sending.copy = NULL THEN NULL ELSE heap[sending.copy]
Calls == INSTANCE IppCalls WITH
    servers <- https,
    requests <- Contents(requests \ Own), responses <- Contents(responses),
    sent <- IF sending.missing = {} THEN sending.request ELSE NULL, wanted <- sending.missing,
    delivered <- Delivered

\* A send copies, and get_attrs builds and drops messages of its own, and neither shows:
\* the server is given the operation asked for, once, and no attribute it was not to be
\* given; whatever fails, every request and response of the application stays as it was;
\* an answer comes only to what was given; and attributes come from the server of an open
\* connection or the scheduler (connection.rs:207-226, ipp.rs:470-558, 679-688,
\* destination/mod.rs:397-471).
ImplementsCalls == Calls!Spec
=============================================================================
