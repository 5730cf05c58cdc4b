--------------------------- MODULE ServiceUpdates ---------------------------
(***************************************************************************)
(* What a consumer of DnssdServiceResolver::try_recv may rely on, without  *)
(* channels, queries and record types: announcements are taken one by one  *)
(* and in order, none is skipped, and an update names the announcement     *)
(* taken last with a set of addresses of that announcement's own host.     *)
(***************************************************************************)
EXTENDS Sequences

CONSTANTS
    Services,   \* announcements
    MayHave,    \* the addresses the host of an announcement may have
    None

VARIABLES
    pending,    \* announcements not taken yet
    current,    \* the announcement taken last, or None
    held,       \* its addresses, as far as they are known
    told        \* the last update

vars == <<pending, current, held, told>>

Init == pending = <<>> /\ current = None /\ held = {} /\ told = None

Announce(s) ==
    /\ pending' = Append(pending, s)
    /\ UNCHANGED <<current, held, told>>

\* The next announcement: of the same host with the addresses kept, or of any host with
\* none known yet.
Take ==
    /\ pending # <<>>
    /\ current' = Head(pending)
    /\ pending' = Tail(pending)
    /\ \/ held' = {}
       \/ held' = held /\ held \subseteq MayHave[current']
    /\ UNCHANGED told

\* An address is found or lost. What is lost may belong to any host.
Learn(a) ==
    /\ current # None
    /\ \/ held' = held \ {a}
       \/ held' = held \union {a} /\ a \in MayHave[current]
    /\ UNCHANGED <<pending, current, told>>

Tell ==
    /\ current # None
    /\ told' = [service |-> current, addresses |-> held]
    /\ UNCHANGED <<pending, current, held>>

Next == \/ \E s \in Services : Announce(s)
        \/ Take
        \/ \E a \in UNION {MayHave[s] : s \in Services} : Learn(a)
        \/ Tell

Spec == Init /\ [][Next]_vars
=============================================================================
