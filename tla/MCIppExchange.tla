--------------------------- MODULE MCIppExchange ---------------------------
(* Pointers enough for two connections and, during a send, one other message. *)
EXTENDS IppExchange, TLC

CONSTANTS h1, h2, m1, m2, m3, state, laser, inkjet, PrintJob

TwoHttps      == {h1, h2}
ThreeMessages == {m1, m2, m3}
TwoAttributes == {state, Uri}
TwoServers    == {laser, inkjet}
TwoOperations == {GetPrinterAttributes, PrintJob}
Pointers      == Permutations(TwoHttps) \union Permutations(ThreeMessages)
=============================================================================
