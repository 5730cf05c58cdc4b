------------------------- MODULE Destinations_proof -------------------------
(***************************************************************************)
(* For any number of owners, destinations and instances: the library's     *)
(* count and libcups' array agree, a save keeps what was not edited, and   *)
(* the search finds a printer once for each time it was there.             *)
(***************************************************************************)
EXTENDS Destinations, FiniteSetTheorems, TLAPS

-----------------------------------------------------------------------------
LEMMA SavesFunctions ==
    ASSUME NEW f
    PROVE  f \in Saves <=> DOMAIN f \subseteq Keys /\ f \in [DOMAIN f -> Entries]
<1>1. ASSUME f \in Saves  PROVE DOMAIN f \subseteq Keys /\ f \in [DOMAIN f -> Entries]
  <2>1. PICK D \in SUBSET Keys : f \in [D -> Entries]
    BY <1>1 DEF Saves
  <2> QED  BY <2>1
<1>2. ASSUME DOMAIN f \subseteq Keys, f \in [DOMAIN f -> Entries]  PROVE f \in Saves
  BY <1>2 DEF Saves
<1> QED  BY <1>1, <1>2

LEMMA EmptyAndBlank == Empty \in Saves /\ Blank \in Entries /\ DOMAIN Empty = {}
<1>1. DOMAIN Empty = {} /\ Empty \in [{} -> Entries]
  BY DEF Empty
<1>2. Empty \in Saves
  BY <1>1, SavesFunctions
<1> QED  BY <1>1, <1>2 DEF Blank, Entries

\* Keys are finitely many, and so are those of a list.
LEMMA Counted ==
    ASSUME NEW D, D \subseteq Keys
    PROVE  IsFiniteSet(D) /\ Cardinality(D) \in Nat /\ Cardinality(D) <= Cardinality(Keys)
           /\ Cardinality(Keys) \in Nat
  BY KeysAssumption, FS_Subset, FS_CardinalityType DEF KeysAssumption

LEMMA GetValue ==
    ASSUME NEW f \in Saves, NEW key
    PROVE  Get(f, key) \in Entries
  BY SavesFunctions, EmptyAndBlank DEF Get

-----------------------------------------------------------------------------
\* What holds of a list; of the keys not edited, that they have the value they were read with.
Untouched(list) ==
    \A key \in Keys \ list.touched : Get(list.dests, key).value = Get(list.base, key).value
ListInv(list) ==
    /\ list \in Lists(Nat)
    /\ list.num = Cardinality(DOMAIN list.dests)
    /\ Untouched(list)

\* libcups sees the whole of it.
LEMMA SeesAll ==
    ASSUME NEW list, ListInv(list)
    PROVE  Seen(list) = DOMAIN list.dests /\ DOMAIN list.dests \subseteq Keys
           /\ list.dests \in [DOMAIN list.dests -> Entries]
<1>1. DOMAIN list.dests \subseteq Keys /\ list.dests \in [DOMAIN list.dests -> Entries]
  BY SavesFunctions DEF ListInv, Lists
<1>2. ASSUME NEW key \in DOMAIN list.dests
      PROVE  Cardinality({k \in DOMAIN list.dests : Rank[k] <= Rank[key]}) <= list.num
  <2> DEFINE D == DOMAIN list.dests
             E == {k \in D : Rank[k] <= Rank[key]}
  <2>1. IsFiniteSet(D) /\ E \subseteq D
    BY <1>1, Counted
  <2> HIDE DEF D, E
  <2>2. Cardinality(E) <= Cardinality(D)
    BY <2>1, FS_Subset
  <2> QED  BY <2>2 DEF D, E, ListInv
<1> QED  BY <1>1, <1>2 DEF Seen

LEMMA NewInv == ListInv(New) /\ ListInv(NoList)
<1>1. /\ New \in Lists(Nat) /\ New.dests = Empty /\ New.num = 0 /\ New.touched = Keys
      /\ NoList \in Lists(Nat) /\ NoList.dests = Empty /\ NoList.num = 0 /\ NoList.touched = Keys
  BY EmptyAndBlank DEF New, NoList, Lists
<1>2. Cardinality({}) = 0
  BY FS_EmptySet
<1> QED  BY <1>1, <1>2, EmptyAndBlank DEF ListInv, Untouched

\* The entry of one key is taken out.
LEMMA RemoveInv ==
    ASSUME NEW list, ListInv(list), NEW key \in DOMAIN list.dests
    PROVE  ListInv([list EXCEPT !.dests = [k \in DOMAIN @ \ {key} |-> @[k]],
                                !.num = @ - 1,
                                !.touched = @ \union {key}])
<1> DEFINE D == DOMAIN list.dests
           dests == [k \in D \ {key} |-> list.dests[k]]
           new == [list EXCEPT !.dests = [k \in DOMAIN @ \ {key} |-> @[k]],
                               !.num = @ - 1,
                               !.touched = @ \union {key}]
<1>1. D \subseteq Keys /\ list.dests \in [D -> Entries] /\ list \in Lists(Nat) /\ key \in Keys
  BY SeesAll DEF ListInv
<1>2. DOMAIN dests = D \ {key} /\ dests \in Saves
  BY <1>1, SavesFunctions
<1>3. Cardinality(D \ {key}) = Cardinality(D) - 1 /\ Cardinality(D \ {key}) \in Nat
  BY <1>1, Counted, FS_RemoveElement
<1>4. list.num = Cardinality(D)
  BY DEF ListInv
<1>5. /\ new.dests = dests /\ new.num = list.num - 1
      /\ new.touched = list.touched \union {key} /\ new.base = list.base /\ new.live = list.live
  BY <1>1 DEF Lists
<1>6. new \in Lists(Nat)
  BY <1>1, <1>2, <1>3, <1>4 DEF Lists
<1>7. new.num = Cardinality(DOMAIN new.dests)
  BY <1>2, <1>3, <1>4, <1>5
<1>8. ASSUME NEW k \in Keys \ new.touched
      PROVE  Get(new.dests, k).value = Get(new.base, k).value
  <2>1. k \in Keys \ list.touched /\ k # key
    BY <1>5, <1>8
  <2>2. Get(dests, k) = Get(list.dests, k)
    BY <1>2, <2>1 DEF Get
  <2> HIDE DEF new, dests
  <2> QED  BY <1>5, <2>1, <2>2 DEF ListInv, Untouched
<1> HIDE DEF dests, D
<1> QED  BY <1>6, <1>7, <1>8 DEF ListInv, Untouched

\* An entry is put in, or none.
LEMMA AddInv ==
    ASSUME NEW list, ListInv(list), NEW key \in Keys
    PROVE  ListInv(Added(list, key)) /\ key \in Added(list, key).touched
<1> DEFINE D == DOMAIN list.dests
           dests == WithDest(list, key)
           new_num_dests == list.num + Cardinality(DOMAIN dests \ DOMAIN list.dests)
           new == [list EXCEPT !.dests = dests,
                               !.num = IF new_num_dests > list.num THEN new_num_dests ELSE @,
                               !.touched = @ \union {key}]
<1>1. /\ D \subseteq Keys /\ list.dests \in [D -> Entries] /\ list \in Lists(Nat)
      /\ Seen(list) = D /\ list.dests \in Saves /\ list.num = Cardinality(D)
  BY SeesAll DEF ListInv, Lists
<1>2. Cardinality(D) \in Nat /\ IsFiniteSet(D)
  BY <1>1, Counted
<1>3. /\ dests \in Saves /\ new_num_dests \in Nat /\ new_num_dests >= list.num
      /\ new_num_dests = Cardinality(DOMAIN dests)
      /\ \A k \in Keys : k # key => Get(dests, k) = Get(list.dests, k)
  <2>1. CASE key \in D \/ (key # Primary(key) /\ Primary(key) \notin D)
    <3>1. dests = list.dests
      BY <1>1, <2>1 DEF WithDest
    <3> HIDE DEF dests
    <3>2. DOMAIN dests \ D = {} /\ Cardinality({}) = 0
      BY <3>1, FS_EmptySet
    <3> QED  BY <1>1, <1>2, <3>1, <3>2
  <2>2. CASE ~(key \in D \/ (key # Primary(key) /\ Primary(key) \notin D))
    <3> DEFINE start == [default |-> FALSE, value |-> Get(list.dests, Primary(key)).value]
    <3>1. dests = [k \in D \union {key} |-> IF k # key THEN list.dests[k] ELSE start] /\ key \notin D
      BY <1>1, <2>2 DEF WithDest
    <3>2. start \in Entries
      <4>1. Get(list.dests, Primary(key)) \in Entries
        BY <1>1, GetValue
      <4> QED  BY <4>1 DEF Entries
    <3> HIDE DEF dests, start
    <3>3. DOMAIN dests = D \union {key} /\ dests \in [D \union {key} -> Entries]
      BY <1>1, <3>1, <3>2
    <3>4. dests \in Saves
      BY <1>1, <3>3, SavesFunctions
    <3>5. DOMAIN dests \ D = {key}
      BY <3>1, <3>3
    <3>6. Cardinality({key}) = 1 /\ Cardinality(D \union {key}) = Cardinality(D) + 1
      BY <1>2, <3>1, FS_Singleton, FS_AddElement
    <3>7. new_num_dests = Cardinality(D) + 1 /\ new_num_dests = Cardinality(DOMAIN dests)
      BY <1>1, <3>3, <3>5, <3>6
    <3>8. \A k \in Keys : k # key => Get(dests, k) = Get(list.dests, k)
      BY <3>1, <3>3 DEF Get
    <3> QED  BY <1>1, <1>2, <3>4, <3>7, <3>8
  <2> QED  BY <2>1, <2>2
<1> HIDE DEF dests, new_num_dests
<1>4. /\ new.dests = dests /\ new.num = new_num_dests
      /\ new.touched = list.touched \union {key} /\ new.base = list.base /\ new.live = list.live
      /\ new \in Lists(Nat)
  <2>1. (IF new_num_dests > list.num THEN new_num_dests ELSE list.num) = new_num_dests
    BY <1>1, <1>2, <1>3
  <2> QED  BY <1>1, <1>3, <2>1 DEF Lists
<1>5. new = Added(list, key)
  BY DEF Added, dests, new_num_dests
<1> HIDE DEF new
<1>6. ASSUME NEW k \in Keys \ new.touched
      PROVE  Get(new.dests, k).value = Get(new.base, k).value
  <2>1. k \in Keys \ list.touched /\ k # key /\ k \in Keys
    BY <1>4, <1>6
  <2>2. Get(dests, k) = Get(list.dests, k)
    BY <1>3, <2>1
  <2> QED  BY <1>4, <2>1, <2>2 DEF ListInv, Untouched
<1>7. ListInv(new)
  BY <1>3, <1>4, <1>6 DEF ListInv, Untouched
<1> QED  BY <1>4, <1>5, <1>7

\* Entries change that are there; if their value does, they count as edited.
LEMMA ChangeInv ==
    ASSUME NEW list, ListInv(list), NEW dests \in [DOMAIN list.dests -> Entries],
           \A k \in DOMAIN list.dests : k \notin list.touched => dests[k].value = list.dests[k].value
    PROVE  ListInv([list EXCEPT !.dests = dests])
<1> DEFINE new == [list EXCEPT !.dests = dests]
<1>1. /\ DOMAIN list.dests \subseteq Keys /\ list \in Lists(Nat)
      /\ DOMAIN dests = DOMAIN list.dests
  BY SeesAll DEF ListInv
<1>2. dests \in Saves
  BY <1>1, SavesFunctions
<1>3. /\ new \in Lists(Nat) /\ new.dests = dests /\ new.num = list.num
      /\ new.touched = list.touched /\ new.base = list.base
  BY <1>1, <1>2 DEF Lists
<1> HIDE DEF new
<1>4. ASSUME NEW k \in Keys \ new.touched
      PROVE  Get(new.dests, k).value = Get(new.base, k).value
  <2>1. k \in Keys \ list.touched
    BY <1>3, <1>4
  <2>2. Get(dests, k).value = Get(list.dests, k).value
    BY <1>1, <2>1 DEF Get
  <2> QED  BY <1>3, <2>1, <2>2 DEF ListInv, Untouched
<1>5. ListInv(new)
  BY <1>1, <1>3, <1>4 DEF ListInv, Untouched
<1> QED  BY <1>5 DEF new

\* What a save writes says the same of every key.
LEMMA SavedSame ==
    ASSUME NEW list, ListInv(list)
    PROVE  Saved(list) \in Saves /\ \A key \in Keys :
              Get(Saved(list), key).value = Get(list.dests, key).value
<1> DEFINE D == DOMAIN list.dests
           E == {k \in D : k # Primary(k) \/ list.dests[k] # Blank}
<1>1. D \subseteq Keys /\ list.dests \in [D -> Entries] /\ Seen(list) = D
  BY SeesAll
<1>2. Saved(list) = [key \in E |-> list.dests[key]]
  BY <1>1 DEF Saved
<1>3. E \subseteq D /\ \A k \in D \ E : list.dests[k] = Blank
  OBVIOUS
<1> HIDE DEF D, E
<1>4. DOMAIN Saved(list) = E /\ Saved(list) \in [E -> Entries]
  BY <1>1, <1>2, <1>3
<1>5. Saved(list) \in Saves
  BY <1>1, <1>3, <1>4, SavesFunctions
<1>6. ASSUME NEW key \in Keys  PROVE Get(Saved(list), key) = Get(list.dests, key)
  <2>1. CASE key \in E
    BY <1>2, <1>3, <1>4, <2>1 DEF Get, D
  <2>2. CASE key \notin E
    BY <1>3, <1>4, <2>2 DEF Get, D
  <2> QED  BY <2>1, <2>2
<1> QED  BY <1>5, <1>6

LEMMA ListingSame ==
    ASSUME file \in Saves, NEW default
    PROVE  Listing(default) \in Saves /\ \A key \in Keys :
              Get(Listing(default), key).value = Get(file, key).value
<1> DEFINE D == {k \in Keys : k[2] = None} \union DOMAIN file
           entry(key) == [Get(file, key) EXCEPT !.default =
                             @ \/ (Defaults(file) = {} /\ key = <<default, None>>)]
<1>1. D \subseteq Keys /\ DOMAIN file \subseteq D
  BY SavesFunctions
<1>2. Listing(default) = [key \in D |-> entry(key)]
  BY DEF Listing
<1>3. ASSUME NEW key  PROVE entry(key) \in Entries /\ entry(key).value = Get(file, key).value
  <2>1. Get(file, key) \in Entries
    BY GetValue
  <2> QED  BY <2>1 DEF Entries
<1> HIDE DEF D, entry
<1>4. DOMAIN Listing(default) = D /\ Listing(default) \in [D -> Entries]
  BY <1>2, <1>3
<1>5. Listing(default) \in Saves
  BY <1>1, <1>4, SavesFunctions
<1>6. ASSUME NEW key \in Keys
      PROVE  Get(Listing(default), key).value = Get(file, key).value
  <2>1. CASE key \in D
    BY <1>2, <1>3, <1>4, <2>1 DEF Get
  <2>2. CASE key \notin D
    BY <1>1, <1>4, <2>2 DEF Get
  <2> QED  BY <2>1, <2>2
<1> QED  BY <1>5, <1>6

-----------------------------------------------------------------------------
\* A printer libcups has yet to tell of has been there once more than it was found.
Found ==
    /\ ~search.running => search = NoSearch
    /\ search.running => \A name \in Names :
          /\ search.destinations[name] <= search.visits[name]
          /\ name \in available \ search.told => search.destinations[name] < search.visits[name]

Inv ==
    /\ file \in Saves
    /\ lists \in [Owners -> Lists(Nat)] /\ \A o \in Owners : ListInv(lists[o])
    /\ available \subseteq Names
    /\ search \in Searches
    /\ calls \in 0..MaxCalls
    /\ Found

LEMMA InitInv == Init => Inv
<1> SUFFICES ASSUME Init  PROVE Inv
  OBVIOUS
<1>1. \A o \in Owners : lists[o] = NoList
  BY DEF Init
<1>2. NoList \in Lists(Nat)
  BY NewInv DEF ListInv
<1>3. lists \in [Owners -> Lists(Nat)] /\ \A o \in Owners : ListInv(lists[o])
  BY <1>1, <1>2, NewInv DEF Init
<1>4. search \in Searches /\ Found
  BY DEF Init, NoSearch, NoneYet, Searches, Found
<1>5. calls \in 0..MaxCalls
  BY CallsAssumption DEF Init, CallsAssumption
<1>6. file \in Saves /\ available \subseteq Names
  BY EmptyAndBlank DEF Init
<1> QED  BY <1>3, <1>4, <1>5, <1>6 DEF Inv

\* A call of one owner.
LEMMA CallInv ==
    ASSUME Inv, NEW o \in Owners, NEW list, ListInv(list), Call(o, list), file' \in Saves
    PROVE  Inv'
<1>1. lists' = [lists EXCEPT ![o] = list] /\ list \in Lists(Nat)
  BY DEF Call, ListInv
<1>2. lists \in [Owners -> Lists(Nat)] /\ \A u \in Owners : ListInv(lists[u])
  BY DEF Inv
<1>3. lists' \in [Owners -> Lists(Nat)]
  BY <1>1, <1>2
<1>4. ASSUME NEW u \in Owners  PROVE ListInv(lists'[u])
  BY <1>1, <1>2
<1>5. calls' \in 0..MaxCalls
  BY CallsAssumption DEF Inv, Call, CallsAssumption
<1>6. UNCHANGED <<available, search>>
  BY DEF Call
<1> QED  BY <1>3, <1>4, <1>5, <1>6 DEF Inv, Found

LEMMA EditInv ==
    ASSUME Inv, NEW o \in Owners, NEW list, ListInv(list), Edit(o, list)
    PROVE  Inv'
  BY CallInv DEF Edit, Inv

LEMMA ListCallsInv == Inv /\ ListCalls => Inv'
<1> SUFFICES ASSUME Inv, NEW o \in Owners,
        \/ NewList(o) \/ GetAll(o) \/ ClearDefaultDestination(o) \/ SaveToLpoptions(o) \/ Drop(o)
        \/ \E key \in Keys :
              \/ AddDestination(o, key) \/ RemoveDestination(o, key)
              \/ SetDefaultDestination(o, key)
              \/ \E value \in Values : SetDestinationOption(o, key, value)
     PROVE Inv'
  BY DEF ListCalls
<1> DEFINE list == lists[o]
           D == DOMAIN list.dests
<1>0. ListInv(list) /\ list \in Lists(Nat) /\ file \in Saves
  BY DEF Inv
<1>1. D \subseteq Keys /\ list.dests \in [D -> Entries] /\ Seen(list) = D
  BY <1>0, SeesAll
<1>2. CASE NewList(o)
  BY <1>0, <1>2, NewInv, CallInv DEF NewList
<1>3. CASE Drop(o)
  BY <1>3, NewInv, EditInv DEF Drop
<1>4. CASE GetAll(o)
  <2>0. PICK default \in Names \union {None} :
          Call(o, [live |-> TRUE, dests |-> Listing(default),
                   num |-> Cardinality(DOMAIN Listing(default)), base |-> file, touched |-> {}])
    BY <1>4 DEF GetAll
  <2> DEFINE dests == Listing(default)
             new == [live |-> TRUE, dests |-> dests, num |-> Cardinality(DOMAIN dests),
                     base |-> file, touched |-> {}]
  <2>1. dests \in Saves /\ \A key \in Keys : Get(dests, key).value = Get(file, key).value
    BY <1>0, ListingSame
  <2> HIDE DEF dests
  <2>2. Cardinality(DOMAIN dests) \in Nat
    BY <2>1, SavesFunctions, Counted
  <2>3. new \in Lists(Nat)
    BY <1>0, <2>1, <2>2 DEF Lists
  <2>4. ListInv(new)
    BY <2>1, <2>3 DEF ListInv, Untouched
  <2>5. Call(o, new) /\ file' \in Saves
    BY <1>0, <1>4, <2>0 DEF GetAll, dests
  <2> HIDE DEF new
  <2> QED  BY <2>4, <2>5, CallInv
<1>5. CASE SaveToLpoptions(o)
  <2> DEFINE saved == Saved(list)
             new == [list EXCEPT !.base = saved, !.touched = {}]
  <2>1. saved \in Saves /\ \A key \in Keys : Get(saved, key).value = Get(list.dests, key).value
    BY <1>0, SavedSame
  <2>2. file' = saved /\ Call(o, new)
    BY <1>5 DEF SaveToLpoptions
  <2> HIDE DEF saved
  <2>3. /\ new \in Lists(Nat) /\ new.dests = list.dests /\ new.num = list.num
        /\ new.base = saved /\ new.touched = {}
    BY <1>0, <2>1 DEF Lists
  <2> HIDE DEF new
  <2>4. ListInv(new)
    BY <1>0, <2>1, <2>3 DEF ListInv, Untouched
  <2> QED  BY <2>1, <2>2, <2>4, CallInv
<1>6. CASE ClearDefaultDestination(o)
  <2> DEFINE dests == [k \in D |-> IF k \in Seen(list) THEN [list.dests[k] EXCEPT !.default = FALSE]
                                   ELSE list.dests[k]]
  <2>1. dests \in [D -> Entries] /\ \A k \in D : dests[k].value = list.dests[k].value
    BY <1>1 DEF Entries
  <2>2. Edit(o, [list EXCEPT !.dests = dests])
    BY <1>6 DEF ClearDefaultDestination
  <2> HIDE DEF dests
  <2>3. ListInv([list EXCEPT !.dests = dests])
    BY <1>0, <2>1, ChangeInv
  <2> QED  BY <2>2, <2>3, EditInv
<1>7. ASSUME NEW key \in Keys, AddDestination(o, key)  PROVE Inv'
  BY <1>0, <1>7, AddInv, EditInv DEF AddDestination
<1>8. ASSUME NEW key \in Keys, RemoveDestination(o, key)  PROVE Inv'
  <2> DEFINE new == [list EXCEPT !.dests = [k \in DOMAIN @ \ {key} |-> @[k]],
                                 !.num = @ - 1,
                                 !.touched = @ \union {key}]
  <2>1. key \in D /\ Edit(o, new)
    BY <1>1, <1>8 DEF RemoveDestination
  <2>2. ListInv(new)
    BY <1>0, <2>1, RemoveInv
  <2> HIDE DEF new
  <2> QED  BY <2>1, <2>2, EditInv
<1>9. ASSUME NEW key \in Keys, SetDefaultDestination(o, key)  PROVE Inv'
  <2> DEFINE dests == [k \in D |-> IF k \in Seen(list)
                                   THEN [list.dests[k] EXCEPT !.default = (k = key)]
                                   ELSE list.dests[k]]
  <2>1. dests \in [D -> Entries] /\ \A k \in D : dests[k].value = list.dests[k].value
    BY <1>1 DEF Entries
  <2>2. Edit(o, [list EXCEPT !.dests = dests])
    BY <1>9 DEF SetDefaultDestination
  <2> HIDE DEF dests
  <2>3. ListInv([list EXCEPT !.dests = dests])
    BY <1>0, <2>1, ChangeInv
  <2> QED  BY <2>2, <2>3, EditInv
<1>10. ASSUME NEW key \in Keys, NEW value \in Values, SetDestinationOption(o, key, value)
       PROVE  Inv'
  <2> DEFINE added == Added(list, key)
             dests == [added.dests EXCEPT ![key].value = value]
  <2>1. ListInv(added) /\ key \in added.touched
    BY <1>0, AddInv
  <2>2. Edit(o, IF key \in Seen(added) THEN [added EXCEPT !.dests[key].value = value] ELSE added)
    BY <1>10 DEF SetDestinationOption
  <2> HIDE DEF added
  <2>3. CASE key \notin Seen(added)
    BY <2>1, <2>2, <2>3, EditInv
  <2>4. CASE key \in Seen(added)
    <3>1. key \in DOMAIN added.dests /\ added.dests \in [DOMAIN added.dests -> Entries]
      BY <2>1, <2>4, SeesAll
    <3>2. dests \in [DOMAIN added.dests -> Entries]
      BY <3>1 DEF Entries
    <3>3. \A k \in DOMAIN added.dests : k \notin added.touched => dests[k].value = added.dests[k].value
      BY <2>1, <3>1
    <3>4. Edit(o, [added EXCEPT !.dests = dests])
      BY <2>2, <2>4
    <3> HIDE DEF dests
    <3>5. ListInv([added EXCEPT !.dests = dests])
      BY <2>1, <3>2, <3>3, ChangeInv
    <3> QED  BY <3>4, <3>5, EditInv
  <2> QED  BY <2>3, <2>4
<1> QED  BY <1>2, <1>3, <1>4, <1>5, <1>6, <1>7, <1>8, <1>9, <1>10

\* The search, and the network: lists stay as they are.
LEMMA SearchInv == Inv /\ Search => Inv'
<1> SUFFICES ASSUME Inv, Search  PROVE Inv'
  OBVIOUS
<1>1. UNCHANGED <<file, lists>> /\ calls' \in 0..MaxCalls
  <2>1. /\ UNCHANGED <<file, lists>>
        /\ \/ UNCHANGED calls
           \/ calls < MaxCalls /\ calls' = calls + 1
    BY DEF Search, FindDestinations, EndSearch, EnumDestCallback, NetworkChange
  <2>2. MaxCalls \in Nat /\ calls \in 0..MaxCalls
    BY CallsAssumption DEF Inv, CallsAssumption
  <2> QED  BY <2>1, <2>2
<1>2. available' \subseteq Names
  BY DEF Search, FindDestinations, EndSearch, EnumDestCallback, NetworkChange, Inv
<1>3. search \in Searches /\ Found
  BY DEF Inv
<1>4. CASE EndSearch
  BY <1>1, <1>2, <1>4 DEF EndSearch, NoSearch, NoneYet, Searches, Found, Inv
<1>5. CASE FindDestinations
  <2> DEFINE start == [name \in Names |-> IF name \in available THEN 1 ELSE 0]
  <2>1. search' = [running |-> TRUE, told |-> {}, destinations |-> NoneYet, visits |-> start]
    BY <1>5 DEF FindDestinations, NoSearch
  <2>2. start \in [Names -> Nat] /\ NoneYet \in [Names -> Nat]
    BY DEF NoneYet
  <2>3. search' \in Searches
    BY <2>1, <2>2 DEF Searches
  <2>4. /\ search'.running /\ search'.destinations = NoneYet /\ search'.visits = start
        /\ search'.told = {}
    BY <2>1
  <2>avail. available' = available
    BY <1>5 DEF FindDestinations
  <2>5. ASSUME NEW name \in Names
        PROVE  NoneYet[name] <= start[name] /\ (name \in available => NoneYet[name] < start[name])
    BY DEF NoneYet
  <2> HIDE DEF start
  <2>6. Found'
    BY <2>4, <2>5, <2>avail DEF Found
  <2> QED  BY <1>1, <1>2, <2>3, <2>6 DEF Inv
<1>6. ASSUME NEW name \in Names, NEW removed \in BOOLEAN, NEW readable \in BOOLEAN,
             EnumDestCallback(name, removed, readable)
      PROVE  search' \in Searches /\ Found'
  <2> DEFINE told == IF removed THEN search.told \ {name} ELSE search.told \union {name}
             destinations == IF readable THEN Push(search.destinations, name, removed)
                             ELSE search.destinations
  <2>1. /\ search.running /\ available' = available
        /\ IF removed THEN name \in search.told \ available ELSE name \in available \ search.told
        /\ search' = [search EXCEPT !.told = told, !.destinations = destinations]
    BY <1>6 DEF EnumDestCallback
  <2>2. /\ search.destinations \in [Names -> Nat] /\ search.visits \in [Names -> Nat]
        /\ told \subseteq Names
    BY <1>3 DEF Searches
  <2>3. /\ destinations \in [Names -> Nat]
        /\ \A n \in Names \ {name} : destinations[n] = search.destinations[n]
        /\ \/ destinations[name] = search.destinations[name]
           \/ ~ removed /\ destinations[name] = search.destinations[name] + 1
    BY <2>2 DEF Push
  <2> HIDE DEF told, destinations
  <2>4. /\ search'.running = search.running /\ search'.told = told
        /\ search'.destinations = destinations /\ search'.visits = search.visits
        /\ search' \in Searches
    BY <1>3, <2>1, <2>2, <2>3 DEF Searches
  <2>5. ASSUME NEW n \in Names
        PROVE  /\ destinations[n] <= search.visits[n]
               /\ n \in available \ told => destinations[n] < search.visits[n]
    <3>1. /\ search.destinations[n] \in Nat /\ search.visits[n] \in Nat
          /\ search.destinations[n] <= search.visits[n]
          /\ n \in available \ search.told => search.destinations[n] < search.visits[n]
      BY <1>3, <2>1, <2>2 DEF Found
    <3>2. n \in available \ told => n \in available \ search.told /\ n # name
      BY <2>1 DEF told
    <3> QED  BY <2>1, <2>3, <3>1, <3>2
  <2> QED  BY <2>1, <2>4, <2>5 DEF Found
<1>7. ASSUME NEW name \in Names, NetworkChange(name)
      PROVE  search' \in Searches /\ Found'
  <2>1. search.destinations \in [Names -> Nat] /\ search.visits \in [Names -> Nat]
    BY <1>3 DEF Searches
  <2>2. CASE search.running /\ name \notin available
    <3>1. /\ search' = [search EXCEPT !.visits = [search.visits EXCEPT ![name] = @ + 1]]
          /\ available' = available \union {name}
      BY <1>7, <2>2 DEF NetworkChange
    <3> DEFINE visits == [search.visits EXCEPT ![name] = @ + 1]
    <3>2. /\ visits \in [Names -> Nat] /\ visits[name] = search.visits[name] + 1
          /\ \A n \in Names \ {name} : visits[n] = search.visits[n]
      BY <2>1
    <3> HIDE DEF visits
    <3>3. /\ search'.running = search.running /\ search'.told = search.told
          /\ search'.destinations = search.destinations /\ search'.visits = visits
          /\ search' \in Searches
      BY <1>3, <3>1, <3>2 DEF Searches, visits
    <3>4. ASSUME NEW n \in Names
          PROVE  /\ search.destinations[n] <= visits[n]
                 /\ n \in available' \ search.told => search.destinations[n] < visits[n]
      <4>1. /\ search.destinations[n] \in Nat /\ search.visits[n] \in Nat
            /\ search.destinations[n] <= search.visits[n]
            /\ n \in available \ search.told => search.destinations[n] < search.visits[n]
        BY <1>3, <2>1, <2>2 DEF Found
      <4> QED  BY <3>1, <3>2, <4>1
    <3> QED  BY <2>2, <3>3, <3>4 DEF Found
  <2>3. CASE ~ (search.running /\ name \notin available)
    <3>1. search' = search /\ (search.running => available' \subseteq available)
      BY <1>7, <2>3 DEF NetworkChange
    <3> QED  BY <1>3, <3>1 DEF Found
  <2> QED  BY <2>2, <2>3
<1> QED  BY <1>1, <1>2, <1>4, <1>5, <1>6, <1>7 DEF Search, Inv

LEMMA StepInv == Inv /\ [Next]_vars => Inv'
<1>1. ASSUME Inv, UNCHANGED vars  PROVE Inv'
  BY <1>1 DEF vars, Inv, Found
<1> QED  BY <1>1, ListCallsInv, SearchInv DEF Next

LEMMA Invariant == Spec => []Inv
  BY InitInv, StepInv, PTL DEF Spec

-----------------------------------------------------------------------------
(***************************************************************************)
(* One default. That libcups sees the whole of a list (SeesAll) is what    *)
(* lets the call that sets a default reach the one there was.              *)
(***************************************************************************)
Single(dests) == \A k, l \in Defaults(dests) : k = l

\* Parts of a list, and entries that are no default, bring no second one.
LEMMA SingleFewer ==
    ASSUME NEW old, NEW new, Single(old), Defaults(new) \subseteq Defaults(old)
    PROVE  Single(new)
  BY DEF Single

LEMMA AddSingle ==
    ASSUME NEW list, ListInv(list), NEW key \in Keys, Single(list.dests)
    PROVE  Single(Added(list, key).dests)
<1>1. Seen(list) = DOMAIN list.dests /\ list \in Lists(Nat)
  BY SeesAll DEF ListInv
<1>2. Added(list, key).dests = WithDest(list, key)
  BY <1>1 DEF Added, Lists
<1>3. Defaults(WithDest(list, key)) \subseteq Defaults(list.dests)
  <2>1. CASE WithDest(list, key) = list.dests
    BY <2>1
  <2> DEFINE start == [default |-> FALSE, value |-> Get(list.dests, Primary(key)).value]
  <2>2. CASE /\ key \notin DOMAIN list.dests
             /\ WithDest(list, key) = [k \in DOMAIN list.dests \union {key} |->
                                          IF k # key THEN list.dests[k] ELSE start]
    <3>1. start.default = FALSE
      OBVIOUS
    <3> HIDE DEF start
    <3> QED  BY <2>2, <3>1 DEF Defaults
  <2> QED  BY <1>1, <2>1, <2>2 DEF WithDest
<1> QED  BY <1>2, <1>3, SingleFewer

LEMMA ListingSingle ==
    ASSUME file \in Saves, NEW default, Single(file)
    PROVE  Single(Listing(default))
<1> DEFINE D == {k \in Keys : k[2] = None} \union DOMAIN file
           entry(key) == [Get(file, key) EXCEPT !.default =
                             @ \/ (Defaults(file) = {} /\ key = <<default, None>>)]
<1>1. Listing(default) = [key \in D |-> entry(key)]
  BY DEF Listing
<1>2. ASSUME NEW key
      PROVE  entry(key).default = (Get(file, key).default
                                      \/ (Defaults(file) = {} /\ key = <<default, None>>))
  BY GetValue DEF Entries
<1>3. ASSUME NEW key, Get(file, key).default  PROVE key \in Defaults(file)
  BY <1>3 DEF Get, Blank, Defaults
<1> HIDE DEF D, entry
<1>4. ASSUME NEW key \in Defaults(Listing(default))
      PROVE  key \in Defaults(file) \/ (Defaults(file) = {} /\ key = <<default, None>>)
  BY <1>1, <1>2, <1>3 DEF Defaults
<1> QED  BY <1>4 DEF Single

LEMMA SavedSingle ==
    ASSUME NEW list, ListInv(list), Single(list.dests)
    PROVE  Single(Saved(list))
<1>1. Seen(list) = DOMAIN list.dests
  BY SeesAll
<1>2. Defaults(Saved(list)) \subseteq Defaults(list.dests)
  BY <1>1 DEF Saved, Defaults
<1> QED  BY <1>2, SingleFewer

Singles == Single(file) /\ \A o \in Owners : Single(lists[o].dests)

LEMMA CallSingle ==
    ASSUME Inv, Singles, NEW o \in Owners, NEW list, Single(list.dests), Call(o, list),
           Single(file)'
    PROVE  Singles'
<1>1. lists' = [lists EXCEPT ![o] = list]
  BY DEF Call
<1> QED  BY <1>1 DEF Singles, Inv

LEMMA EditSingle ==
    ASSUME Inv, Singles, NEW o \in Owners, NEW list, Single(list.dests), Edit(o, list)
    PROVE  Singles'
<1>1. Single(file)'
  BY DEF Singles, Single, Edit
<1> QED  BY <1>1, CallSingle DEF Edit

\* Every call leaves at most one default, whatever was the default before.
LEMMA ListCallsSingle == Inv /\ Singles /\ ListCalls => Singles'
<1> SUFFICES ASSUME Inv, Singles, NEW o \in Owners,
        \/ NewList(o) \/ GetAll(o) \/ ClearDefaultDestination(o) \/ SaveToLpoptions(o) \/ Drop(o)
        \/ \E key \in Keys :
              \/ AddDestination(o, key) \/ RemoveDestination(o, key)
              \/ SetDefaultDestination(o, key)
              \/ \E value \in Values : SetDestinationOption(o, key, value)
     PROVE Singles'
  BY DEF ListCalls
<1> DEFINE list == lists[o]
           D == DOMAIN list.dests
<1>0. ListInv(list) /\ list \in Lists(Nat) /\ file \in Saves /\ Single(list.dests) /\ Single(file)
  BY DEF Inv, Singles
<1>1. D \subseteq Keys /\ list.dests \in [D -> Entries] /\ Seen(list) = D
  BY <1>0, SeesAll
<1>2. file' = file => Single(file)'
  BY <1>0 DEF Single
<1>3. Single(New.dests) /\ Single(NoList.dests)
  <2>1. New.dests = Empty /\ NoList.dests = Empty
    BY DEF New, NoList
  <2> QED  BY <2>1, EmptyAndBlank DEF Single, Defaults
<1>4. CASE NewList(o) \/ Drop(o)
  BY <1>2, <1>3, <1>4, CallSingle DEF NewList, Drop, Edit
<1>5. CASE GetAll(o)
  <2>1. PICK default \in Names \union {None} :
          Call(o, [live |-> TRUE, dests |-> Listing(default),
                   num |-> Cardinality(DOMAIN Listing(default)), base |-> file, touched |-> {}])
    BY <1>5 DEF GetAll
  <2>2. Single(Listing(default)) /\ file' = file
    BY <1>0, <1>5, ListingSingle DEF GetAll
  <2> QED  BY <1>2, <2>1, <2>2, CallSingle
<1>6. CASE SaveToLpoptions(o)
  <2> DEFINE new == [list EXCEPT !.base = Saved(list), !.touched = {}]
  <2>1. file' = Saved(list) /\ Call(o, new) /\ new.dests = list.dests
    BY <1>0, <1>6 DEF SaveToLpoptions, Lists
  <2>2. Single(Saved(list))
    BY <1>0, SavedSingle
  <2>3. Single(file)'
    BY <2>1, <2>2 DEF Single
  <2> HIDE DEF new
  <2> QED  BY <1>0, <2>1, <2>3, CallSingle
<1>7. CASE ClearDefaultDestination(o)
  <2> DEFINE dests == [k \in D |-> IF k \in Seen(list) THEN [list.dests[k] EXCEPT !.default = FALSE]
                                   ELSE list.dests[k]]
             new == [list EXCEPT !.dests = dests]
  <2>1. Edit(o, new) /\ new.dests = dests
    BY <1>0, <1>7 DEF ClearDefaultDestination, Lists
  <2>2. Defaults(dests) = {}
    BY <1>1 DEF Defaults, Entries
  <2> HIDE DEF dests, new
  <2>3. Single(dests)
    BY <2>2 DEF Single
  <2> QED  BY <2>1, <2>3, EditSingle
<1>8. ASSUME NEW key \in Keys, AddDestination(o, key)  PROVE Singles'
  <2>1. Single(Added(list, key).dests)
    BY <1>0, AddSingle
  <2> QED  BY <1>8, <2>1, EditSingle DEF AddDestination
<1>9. ASSUME NEW key \in Keys, RemoveDestination(o, key)  PROVE Singles'
  <2> DEFINE dests == [k \in D \ {key} |-> list.dests[k]]
             new == [list EXCEPT !.dests = [k \in DOMAIN @ \ {key} |-> @[k]],
                                 !.num = @ - 1,
                                 !.touched = @ \union {key}]
  <2>1. Edit(o, new) /\ new.dests = dests
    BY <1>0, <1>9 DEF RemoveDestination, Lists
  <2>2. Defaults(dests) \subseteq Defaults(list.dests)
    BY DEF Defaults
  <2> HIDE DEF dests, new
  <2>3. Single(dests)
    BY <1>0, <2>2, SingleFewer
  <2> QED  BY <2>1, <2>3, EditSingle
<1>10. ASSUME NEW key \in Keys, SetDefaultDestination(o, key)  PROVE Singles'
  <2> DEFINE dests == [k \in D |-> IF k \in Seen(list)
                                   THEN [list.dests[k] EXCEPT !.default = (k = key)]
                                   ELSE list.dests[k]]
             new == [list EXCEPT !.dests = dests]
  <2>1. Edit(o, new) /\ new.dests = dests
    BY <1>0, <1>10 DEF SetDefaultDestination, Lists
  <2>2. Defaults(dests) \subseteq {key}
    BY <1>1 DEF Defaults, Entries
  <2> HIDE DEF dests, new
  <2>3. Single(dests)
    BY <2>2 DEF Single
  <2> QED  BY <2>1, <2>3, EditSingle
<1>11. ASSUME NEW key \in Keys, NEW value \in Values, SetDestinationOption(o, key, value)
       PROVE  Singles'
  <2> DEFINE added == Added(list, key)
             dests == [added.dests EXCEPT ![key].value = value]
  <2>1. ListInv(added) /\ Single(added.dests)
    BY <1>0, AddInv, AddSingle
  <2>2. Edit(o, IF key \in Seen(added) THEN [added EXCEPT !.dests[key].value = value] ELSE added)
    BY <1>11 DEF SetDestinationOption
  <2> HIDE DEF added
  <2>3. CASE key \notin Seen(added)
    BY <2>1, <2>2, <2>3, EditSingle
  <2>4. CASE key \in Seen(added)
    <3>1. /\ key \in DOMAIN added.dests /\ added.dests \in [DOMAIN added.dests -> Entries]
          /\ added \in Lists(Nat)
      BY <2>1, <2>4, SeesAll DEF ListInv
    <3>2. Defaults(dests) \subseteq Defaults(added.dests)
      BY <3>1 DEF Defaults, Entries
    <3>3. Edit(o, [added EXCEPT !.dests = dests]) /\ [added EXCEPT !.dests = dests].dests = dests
      BY <2>2, <2>4, <3>1 DEF Lists
    <3> HIDE DEF dests
    <3>4. Single(dests)
      BY <2>1, <3>2, SingleFewer
    <3> QED  BY <3>3, <3>4, EditSingle
  <2> QED  BY <2>3, <2>4
<1> QED  BY <1>4, <1>5, <1>6, <1>7, <1>8, <1>9, <1>10, <1>11

LEMMA SinglesStep == Inv /\ Singles /\ [Next]_vars => Singles'
<1>1. ASSUME Singles, UNCHANGED <<file, lists>>  PROVE Singles'
  BY <1>1 DEF Singles, Single
<1>2. Search => UNCHANGED <<file, lists>>
  BY DEF Search, FindDestinations, EndSearch, EnumDestCallback, NetworkChange
<1> QED  BY <1>1, <1>2, ListCallsSingle DEF Next, vars

-----------------------------------------------------------------------------
\* Every variable has its type, and the count is at most the number of keys.
THEOREM TypeCorrect == Spec => []TypeOK
<1>1. ASSUME Inv  PROVE TypeOK
  <2>1. ASSUME NEW o \in Owners  PROVE lists[o] \in Lists(0..Cardinality(Keys))
    <3>1. ListInv(lists[o])
      BY <1>1 DEF Inv
    <3>2. DOMAIN lists[o].dests \subseteq Keys
      BY <3>1, SeesAll
    <3>3. lists[o].num \in 0..Cardinality(Keys)
      BY <3>1, <3>2, Counted DEF ListInv
    <3> QED  BY <3>1, <3>3 DEF ListInv, Lists
  <2>2. lists \in [Owners -> Lists(0..Cardinality(Keys))]
    BY <1>1, <2>1 DEF Inv
  <2> QED  BY <1>1, <2>2 DEF Inv, TypeOK, Searches
<1> QED  BY <1>1, Invariant, PTL

\* The library's count is the length of libcups' array (destination/mod.rs:603-662).
THEOREM CountsExact == Spec => []CountIsExact
<1>1. Inv => CountIsExact
  BY DEF Inv, ListInv, CountIsExact
<1> QED  BY <1>1, Invariant, PTL

\* The search finds a printer at most once for each time it was there
\* (destination/mod.rs:1129-1182, 1265-1284).
THEOREM SearchFindsOnce == Spec => []FoundOncePerVisit
<1>1. Inv => FoundOncePerVisit
  BY DEF Inv, Found, FoundOncePerVisit, NoSearch, NoneYet
<1> QED  BY <1>1, Invariant, PTL

\* A save of a list that is not stale keeps what was not edited
\* (destination/mod.rs:642-714, 769-833).
THEOREM SavesKeep == Spec => SavesKeepOthers
<1>1. ASSUME Inv, NEW o \in Owners, SaveToLpoptions(o), lists[o].base = file,
             NEW key \in Keys \ lists[o].touched
      PROVE  Get(file', key).value = Get(file, key).value
  <2>1. ListInv(lists[o]) /\ file' = Saved(lists[o])
    BY <1>1 DEF Inv, SaveToLpoptions
  <2>2. Get(Saved(lists[o]), key).value = Get(lists[o].dests, key).value
    BY <2>1, SavedSame
  <2>3. Get(lists[o].dests, key).value = Get(file, key).value
    BY <1>1, <2>1 DEF ListInv, Untouched
  <2> QED  BY <2>1, <2>2, <2>3
<1>2. Inv /\ [Next]_vars =>
         [\A o \in Owners :
             SaveToLpoptions(o) /\ lists[o].base = file =>
                \A key \in Keys \ lists[o].touched :
                   Get(file', key).value = Get(file, key).value]_vars
  BY <1>1
<1> QED  BY <1>2, Invariant, PTL DEF Spec, SavesKeepOthers

\* At most one destination is the default, in every list and in the file
\* (destination/mod.rs:603-662, 675-688, 798-805).
THEOREM DefaultIsUnique == Spec => []OneDefault
<1>1. Init => Singles
  <2>1. NoList.dests = Empty
    BY DEF NoList, New
  <2>2. Single(Empty)
    BY EmptyAndBlank DEF Single, Defaults
  <2> QED  BY <2>1, <2>2 DEF Init, Singles
<1>2. Singles => OneDefault
  BY DEF Singles, Single, OneDefault
<1> QED  BY <1>1, <1>2, SinglesStep, Invariant, PTL DEF Spec
=============================================================================
