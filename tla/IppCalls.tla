------------------------------ MODULE IppCalls ------------------------------
(***************************************************************************)
(* What an application may rely on when it uses src/src/connection.rs,     *)
(* ipp.rs and Destination::get_attrs, without pointers, copies and frees:  *)
(* messages are values, which stay as they are while a call runs; a send   *)
(* gives the server the operation it was asked for, once, and nothing the  *)
(* request does not hold; and get_attrs only ever adds what one server said*)
(* to what is known.                                                       *)
(***************************************************************************)
CONSTANTS Https, Messages, NULL, Attributes, Uri, Servers, Headers, GetPrinterAttributes

Bodies == [header : Headers, attributes : SUBSET Attributes]

VARIABLES
    servers,    \* connection -> the server it is connected to
    requests,   \* request -> what it says
    responses,  \* response -> what it says
    options,    \* the Destination's options: attribute -> who said so
    sent,       \* the request being sent, or NULL
    wanted,     \* what the running get_attrs asks for
    delivered   \* what the server was given of the running call, or NULL

vars == <<servers, requests, responses, options, sent, wanted, delivered>>

Init ==
    /\ servers = <<>> /\ requests = <<>> /\ responses = <<>>
    /\ options \in UNION {[known -> {"lpoptions"}] : known \in SUBSET Attributes}
    /\ sent = NULL /\ wanted = {} /\ delivered = NULL

With(f, points, value) ==
    [p \in DOMAIN f \union points |-> IF p \in points THEN value ELSE f[p]]
Without(f, point) == [p \in DOMAIN f \ {point} |-> f[p]]

Idle   == sent = NULL /\ wanted = {} /\ delivered = NULL
NoCall == Idle /\ UNCHANGED <<sent, wanted, delivered>>
Unused(ipp) == ipp \notin DOMAIN requests \union DOMAIN responses

Connect(http, server) ==
    /\ NoCall /\ http \notin DOMAIN servers
    /\ servers' = With(servers, {http}, server)
    /\ UNCHANGED <<requests, responses, options>>

Disconnect(http) ==
    /\ NoCall
    /\ servers' = Without(servers, http)
    /\ UNCHANGED <<requests, responses, options>>

New(ipp, operation) ==
    /\ NoCall /\ Unused(ipp)
    /\ requests' = With(requests, {ipp}, [header |-> operation, attributes |-> {}])
    /\ UNCHANGED <<servers, responses, options>>

Ask(ipp, attribute) ==
    /\ NoCall /\ ipp \in DOMAIN requests
    /\ requests' = [requests EXCEPT ![ipp].attributes = @ \union {attribute}]
    /\ UNCHANGED <<servers, responses, options>>

Forget(ipp) ==
    /\ NoCall
    /\ \/ requests' = Without(requests, ipp) /\ UNCHANGED responses
       \/ responses' = Without(responses, ipp) /\ UNCHANGED requests
    /\ UNCHANGED <<servers, options>>

Send(ipp) ==
    /\ Idle /\ ipp \in DOMAIN requests
    /\ sent' = ipp
    /\ UNCHANGED <<servers, requests, responses, options, wanted, delivered>>

GetAttrs(attributes) ==
    /\ Idle /\ Uri \in DOMAIN options
    /\ wanted' = attributes /\ attributes \intersect DOMAIN options = {}
    /\ UNCHANGED <<servers, requests, responses, options, sent, delivered>>

\* The server is given what the call is to send; attributes may be left out.
ToSend == IF sent # NULL THEN requests[sent]
          ELSE [header |-> GetPrinterAttributes, attributes |-> wanted]

Deliver(body) ==
    /\ ~ Idle /\ delivered = NULL
    /\ body.header = ToSend.header /\ body.attributes \subseteq ToSend.attributes
    /\ delivered' = body
    /\ UNCHANGED <<servers, requests, responses, options, sent, wanted>>

\* A call ends without an answer, with one that the application is given, or with one it
\* is told of by its options; this comes from a server connected to, or the scheduler.
Fail ==
    /\ sent' = NULL /\ wanted' = {} /\ delivered' = NULL
    /\ UNCHANGED <<servers, requests, responses, options>>

Answer(ipp, said) ==
    /\ sent # NULL /\ delivered # NULL /\ Unused(ipp)
    /\ responses' = With(responses, {ipp}, said)
    /\ sent' = NULL /\ delivered' = NULL
    /\ UNCHANGED <<servers, requests, options, wanted>>

FillUp(said, from) ==
    /\ wanted # {} /\ delivered # NULL /\ said \subseteq wanted
    /\ from \in {servers[http] : http \in DOMAIN servers} \union {"scheduler"}
    /\ options' = With(options, said, from)
    /\ wanted' = {} /\ delivered' = NULL
    /\ UNCHANGED <<servers, requests, responses, sent>>

Next ==
    \/ \E http \in Https : Disconnect(http) \/ \E server \in Servers : Connect(http, server)
    \/ \E ipp \in Messages :
          \/ Forget(ipp) \/ Send(ipp)
          \/ \E operation \in Headers : New(ipp, operation)
          \/ \E attribute \in Attributes : Ask(ipp, attribute)
          \/ \E said \in Bodies : Answer(ipp, said)
    \/ \E body \in Bodies : Deliver(body)
    \/ Fail
    \/ \E attributes \in SUBSET Attributes :
          \/ GetAttrs(attributes)
          \/ \E from \in Servers \union {"scheduler"} : FillUp(attributes, from)

Spec == Init /\ [][Next]_vars
=============================================================================
