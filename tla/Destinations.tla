---------------------------- MODULE Destinations ----------------------------
(***************************************************************************)
(* src/src/destination/mod.rs: lists of destinations (Destinations), each  *)
(* with one owner, edited and written to the user's lpoptions file, which  *)
(* the owners share; and one search with enum_destinations, which is told  *)
(* of printers as they come and go.                                        *)
(*                                                                         *)
(* A list is an array of libcups' (`dests`, sorted by Rank) and the        *)
(* library's own count of it (num_dests): libcups looks at and writes as   *)
(* many entries as the count it is given.                                  *)
(***************************************************************************)
EXTENDS Integers, FiniteSets

CONSTANTS
    Owners,     \* threads or programs of one user
    Names,      \* the scheduler's queues
    Instances,  \* instances an application may name, None among them
    None,       \* no instance
    Rank,       \* libcups' order of the keys
    Values,     \* values of an option
    NoValue,    \* the option is not set
    MaxCalls    \* bound: calls on lists and changes of the network

Keys == Names \X Instances
Primary(key) == <<key[1], None>>

KeysAssumption ==
    /\ IsFiniteSet(Keys) /\ None \in Instances
    /\ Rank \in [Keys -> Nat] /\ \A k, l \in Keys : Rank[k] = Rank[l] => k = l
ValuesAssumption == NoValue \notin Values
CallsAssumption == MaxCalls \in Nat
ASSUME KeysAssumption
ASSUME ValuesAssumption
ASSUME CallsAssumption

VARIABLES
    file,       \* the lpoptions file
    lists,      \* each owner's Destinations, or NoList
    available,  \* the printers that answer
    search,     \* the running search, or NoSearch
    calls       \* calls made and changes

vars == <<file, lists, available, search, calls>>

Empty == [key \in {} |-> NoValue]
Blank == [default |-> FALSE, value |-> NoValue]
Entries == [default : BOOLEAN, value : Values \union {NoValue}]

\* base and touched remember what the list was loaded from and the keys edited since.
New == [live |-> TRUE, dests |-> Empty, num |-> 0, base |-> Empty, touched |-> Keys]
NoList == [New EXCEPT !.live = FALSE]

\* The printers libcups has told of and not withdrawn; how many times each is in the
\* result, a Vec; and, for the properties, how many times each has been on the network
\* since the search began.
NoneYet  == [name \in Names |-> 0]
NoSearch == [running |-> FALSE, told |-> {}, destinations |-> NoneYet, visits |-> NoneYet]

Init ==
    /\ file = Empty
    /\ lists = [o \in Owners |-> NoList]
    /\ available \in SUBSET Names
    /\ search = NoSearch
    /\ calls = 0

-----------------------------------------------------------------------------
\* libcups. A list of n entries: the keys of its first n.
Seen(list) ==
    {key \in DOMAIN list.dests :
        Cardinality({k \in DOMAIN list.dests : Rank[k] <= Rank[key]}) <= list.num}

Get(saved, key) == IF key \in DOMAIN saved THEN saved[key] ELSE Blank

Defaults(dests) == {key \in DOMAIN dests : dests[key].default}

\* cupsGetDests: every queue, and the instances saved of it. The scheduler's default, if it
\* has one, is the default unless the file says another.
Listing(default) ==
    [key \in {k \in Keys : k[2] = None} \union DOMAIN file |->
        [Get(file, key) EXCEPT !.default =
            @ \/ (Defaults(file) = {} /\ key = <<default, None>>)]]

\* cupsAddDest: an instance starts with its destination's options, and needs one.
WithDest(list, key) ==
    IF key \in Seen(list) \/ (key # Primary(key) /\ Primary(key) \notin Seen(list))
    THEN list.dests
    ELSE [k \in DOMAIN list.dests \union {key} |->
             IF k # key THEN list.dests[k]
             ELSE [default |-> FALSE, value |-> Get(list.dests, Primary(key)).value]]

\* cupsSetDests writes the entries that say something.
Saved(list) ==
    [key \in {k \in Seen(list) : k # Primary(k) \/ list.dests[k] # Blank} |-> list.dests[key]]

-----------------------------------------------------------------------------
\* An owner's call on its list.
Call(o, list) ==
    /\ calls < MaxCalls /\ calls' = calls + 1
    /\ lists' = [lists EXCEPT ![o] = list]
    /\ UNCHANGED <<available, search>>

Edit(o, list) == lists[o].live /\ Call(o, list) /\ UNCHANGED file

\* new, or get_all; a list the owner had is dropped.
NewList(o) == Call(o, New) /\ UNCHANGED file
GetAll(o) ==
    /\ \E default \in Names \union {None} :
          LET dests == Listing(default)
          IN  Call(o, [live |-> TRUE, dests |-> dests, num |-> Cardinality(DOMAIN dests),
                       base |-> file, touched |-> {}])
    /\ UNCHANGED file

Added(list, key) ==
    LET dests == WithDest(list, key)
        new_num_dests == list.num + Cardinality(DOMAIN dests \ DOMAIN list.dests)
    IN  [list EXCEPT !.dests = dests,
                     !.num = IF new_num_dests > list.num THEN new_num_dests ELSE @,
                     !.touched = @ \union {key}]

AddDestination(o, key) == Edit(o, Added(lists[o], key))

RemoveDestination_KeepCount(o, key) ==
    /\ key \in Seen(lists[o])
    /\ Edit(o, [lists[o] EXCEPT !.dests = [k \in DOMAIN @ \ {key} |-> @[k]],
                                !.touched = @ \union {key}])

RemoveDestination_Always(o, key) ==
    Edit(o, [lists[o] EXCEPT !.dests = [k \in DOMAIN @ \ {key} |-> @[k]],
                             !.num = @ - 1,
                             !.touched = @ \union {key}])

RemoveDestination_AnyInstance(o, key) ==
    LET gone == {k \in Seen(lists[o]) : k[1] = key[1]}
    IN  /\ key \in Seen(lists[o])
        /\ Edit(o, [lists[o] EXCEPT !.dests = [k \in DOMAIN @ \ gone |-> @[k]],
                                    !.num = @ - Cardinality(gone),
                                    !.touched = @ \union {key}])

\* Ok(true); where there is nothing to remove the list stays as it is, Ok(false).
RemoveDestination(o, key) ==
    /\ key \in Seen(lists[o])
    /\ Edit(o, [lists[o] EXCEPT !.dests = [k \in DOMAIN @ \ {key} |-> @[k]],
                                !.num = @ - 1,
                                !.touched = @ \union {key}])

\* Ok in any case; a key that is not in the list leaves it without a default.
SetDefaultDestination(o, key) ==
    Edit(o, [lists[o] EXCEPT !.dests =
                [k \in DOMAIN @ |->
                    IF k \in Seen(lists[o]) THEN [@[k] EXCEPT !.default = (k = key)] ELSE @[k]]])

ClearDefaultDestination(o) ==
    Edit(o, [lists[o] EXCEPT !.dests =
                [k \in DOMAIN @ |->
                    IF k \in Seen(lists[o]) THEN [@[k] EXCEPT !.default = FALSE] ELSE @[k]]])

\* Adds the destination, then edits the entry if it is there now (Ok), or not (Err).
SetDestinationOption(o, key, value) ==
    LET added == Added(lists[o], key)
    IN  Edit(o, IF key \in Seen(added) THEN [added EXCEPT !.dests[key].value = value] ELSE added)

\* Ok; an error writes nothing.
SaveToLpoptions(o) ==
    /\ lists[o].live
    /\ file' = Saved(lists[o])
    /\ Call(o, [lists[o] EXCEPT !.base = Saved(lists[o]), !.touched = {}])

Drop(o) == Edit(o, NoList)

-----------------------------------------------------------------------------
\* find_destinations.

FindDestinations ==
    /\ ~search.running
    /\ search' = [NoSearch EXCEPT
          !.running = TRUE,
          !.visits = [name \in Names |-> IF name \in available THEN 1 ELSE 0]]
    /\ UNCHANGED <<file, lists, available, calls>>

\* Its callback is told of a printer, or of one that has gone (CUPS_DEST_FLAGS_REMOVED),
\* which stays in the result; it goes on either way.
Push_RemovedToo(destinations, name, removed) == [destinations EXCEPT ![name] = @ + 1]
Push(destinations, name, removed) ==
    IF removed THEN destinations ELSE [destinations EXCEPT ![name] = @ + 1]

\* enum_dest_callback, as libcups calls it; what from_raw cannot read is passed over.
EnumDestCallback(name, removed, readable) ==
    /\ search.running
    /\ IF removed THEN name \in search.told \ available ELSE name \in available \ search.told
    /\ search' = [search EXCEPT
          !.told = IF removed THEN @ \ {name} ELSE @ \union {name},
          !.destinations = IF readable THEN Push(@, name, removed) ELSE @]
    /\ UNCHANGED <<file, lists, available, calls>>

\* The time is up, or the enumeration failed.
EndSearch ==
    /\ search.running
    /\ search' = NoSearch
    /\ UNCHANGED <<file, lists, available, calls>>

\* A printer appears on the network, or goes.
NetworkChange(name) ==
    /\ calls < MaxCalls /\ calls' = calls + 1
    /\ available' = IF name \in available THEN available \ {name} ELSE available \union {name}
    /\ search' = IF search.running /\ name \notin available
                 THEN [search EXCEPT !.visits[name] = @ + 1] ELSE search
    /\ UNCHANGED <<file, lists>>

ListCalls ==
    \E o \in Owners :
       \/ NewList(o) \/ GetAll(o) \/ ClearDefaultDestination(o) \/ SaveToLpoptions(o) \/ Drop(o)
       \/ \E key \in Keys :
             \/ AddDestination(o, key) \/ RemoveDestination(o, key)
             \/ SetDefaultDestination(o, key)
             \/ \E value \in Values : SetDestinationOption(o, key, value)

Search ==
    \/ FindDestinations \/ EndSearch
    \/ \E name \in Names, removed, readable \in BOOLEAN : EnumDestCallback(name, removed, readable)
    \/ \E name \in Names : NetworkChange(name)

Next == ListCalls \/ Search

Spec == Init /\ [][Next]_vars

-----------------------------------------------------------------------------
Searches == [running : BOOLEAN, told : SUBSET Names,
             destinations : [Names -> Nat], visits : [Names -> Nat]]

Saves == UNION {[D -> Entries] : D \in SUBSET Keys}

Lists(counts) ==
    [live : BOOLEAN, dests : Saves, num : counts, base : Saves, touched : SUBSET Keys]

\* Every variable has its type; the count given to libcups is never negative.
TypeOK ==
    /\ file \in Saves
    /\ lists \in [Owners -> Lists(0..Cardinality(Keys))]
    /\ available \subseteq Names
    /\ search \in Searches
    /\ calls \in 0..MaxCalls

\* The library's count is the length of libcups' array, whatever was added twice, could
\* not be added, or was not there to remove: no entry is out of reach of a save or a
\* drop, and none is read past the end (destination/mod.rs:603-662).
CountIsExact == \A o \in Owners : lists[o].num = Cardinality(DOMAIN lists[o].dests)

\* At most one destination is the default, in every list and in the file, however the
\* default was set, added to and removed before: no default is out of the reach of the
\* call that sets another, and an instance does not inherit it (destination/mod.rs:603-662,
\* 675-688, 798-805).
OneDefault ==
    \A dests \in {file} \union {lists[o].dests : o \in Owners} :
       \A k, l \in Defaults(dests) : k = l

\* Unless another owner has written the file since it was read, a save leaves the options
\* of every destination that was not edited as they were, the other instances of an
\* edited one included (destination/mod.rs:642-714, 769-833).
SavesKeepOthers ==
    [][\A o \in Owners :
          SaveToLpoptions(o) /\ lists[o].base = file =>
             \A key \in Keys \ lists[o].touched :
                Get(file', key).value = Get(file, key).value]_vars

\* A printer is in the result at most as often as it has been on the network while the
\* search ran, and not at all if it never was: one that goes is not found again by going,
\* one that comes back before libcups told of its going is not found twice, and one that
\* could not be read leaves the others alone (destination/mod.rs:1129-1182, 1265-1284).
FoundOncePerVisit == \A name \in Names : search.destinations[name] <= search.visits[name]
=============================================================================
