-------------------------- MODULE DestinationCalls --------------------------
(***************************************************************************)
(* What Destination hands to libcups for the time of a call, and gets      *)
(* back: get_detailed_info, is_option_supported, check_option_conflicts of *)
(* src/src/destination/mod.rs, connect and connect_with_callback of        *)
(* src/src/connection.rs, and the DestinationInfo values of dest_info.rs.  *)
(* Each builds a cups_dest_t of raw C strings and an options array that    *)
(* libcups may replace, and frees it by hand after a call in which         *)
(* closures of AuthCallbacks run, make such calls themselves, or panic.    *)
(***************************************************************************)
EXTENDS AuthCallbacks

CONSTANTS
    Pointers,   \* memory
    NULL

ASSUME NullAssumption == NULL \notin Pointers

VARIABLES
    heap,       \* the memory in use: strings, options arrays and cups_dinfo_ts
    temps,      \* what each call of `stack` has to free
    infos,      \* the cups_dinfo_t of each DestinationInfo value of a thread
    lost        \* memory nothing will free

calls_vars == <<heap, temps, infos, lost>>
vars       == <<auth_vars, calls_vars>>

\* The locals of a call: dest's strings and options, the array passed in, and the
\* DestinationInfo is_option_supported asks.
Temps(of, name, options, info) ==
    [of |-> of, name |-> name, options |-> options, passed |-> options, info |-> info]
NoTemps == Temps("other", NULL, NULL, NULL)

Init ==
    /\ AuthInit
    /\ heap = {} /\ lost = {}
    /\ temps = [t \in Threads |-> <<>>]
    /\ infos = [t \in Threads |-> {}]

Fresh(p) == p \notin heap
Last(t)  == temps[t][Len(temps[t])]

Enter(t, locals) == temps' = [temps EXCEPT ![t] = Append(@, locals)]
Leave(t) == temps' = [temps EXCEPT ![t] = Pop(@)]
Change(t, locals) == temps' = [temps EXCEPT ![t][Len(temps[t])] = locals]

-----------------------------------------------------------------------------
\* Calls that hand over nothing: as in AuthCallbacks.

Enters(t) ==
    /\ \/ \E k \in Kinds : Get(t, k)
       \/ Request(t) \/ Prompt(t)
       \/ Monitor(t) /\ Last(t).of = "connect"
    /\ Enter(t, NoTemps)
    /\ UNCHANGED <<heap, infos, lost>>

Leaves(t) ==
    /\ \/ GetReturns(t) \/ MonitorReturns(t)
       \/ \E s \in Strings \union {None} : Answer(t, s)
       \/ RequestReturns(t) /\ Last(t).of = "other"
    /\ Leave(t)
    /\ UNCHANGED <<heap, infos, lost>>

Panics(t) ==
    \/ /\ \E n \in 0..MaxCalls : /\ Unwind(t, n)
                                 /\ temps' = [temps EXCEPT ![t] = SubSeq(@, 1, n)]
       /\ UNCHANGED <<heap, infos, lost>>
    \/ Abort(t) /\ UNCHANGED calls_vars

Sets(t) ==
    /\ \E k \in Kinds, callback \in Callbacks \union {None} : SetCallback(t, k, callback)
    /\ UNCHANGED calls_vars

-----------------------------------------------------------------------------
\* get_detailed_info, for the application or is_option_supported: the destination's name
\* and options (none: a null array) are passed to cupsCopyDestInfo.
AskInfo(t, of, name, options) ==
    /\ Request(t)
    /\ Fresh(name) /\ Fresh(options) /\ name # options /\ name # NULL
    /\ heap' = heap \union ({name, options} \ {NULL})
    /\ Enter(t, Temps(of, name, options, NULL))
    /\ UNCHANGED <<infos, lost>>

\* A name or value with an interior NUL, met by the loop after other options: `?` leaves the
\* array built so far behind.
AskInfoFails(t, options) ==
    /\ Application(t)
    /\ options # NULL /\ Fresh(options)
    /\ heap' = heap \union {options} /\ lost' = lost \union {options}
    /\ UNCHANGED <<auth_vars, temps, infos>>

\* libcups replaces the array of the cups_dest_t it was given, with another or none.
Reallocate(t, options) ==
    /\ Libcups(t) /\ Last(t).of \in {"info", "supported", "check"}
    /\ Fresh(options)
    /\ heap' = (heap \ {Last(t).options}) \union ({options} \ {NULL})
    /\ Change(t, [Last(t) EXCEPT !.options = options])
    /\ UNCHANGED <<auth_vars, infos, lost>>

\* What a call frees: the strings, and the array dest points to by now.
Freed_Passed(locals) == {locals.name, locals.passed, locals.info}
Freed(locals) == {locals.name, locals.options, locals.info}

InfoReturns_NullToo(t, info) ==
    /\ RequestReturns(t) /\ Last(t).of = "info"
    /\ Fresh(info)
    /\ heap' = (heap \ Freed(Last(t))) \union ({info} \ {NULL})
    /\ infos' = [infos EXCEPT ![t] = @ \union {info}]
    /\ Leave(t)
    /\ UNCHANGED lost

\* cupsCopyDestInfo returned info, or NULL: all is freed, and get_detailed_info returns.
InfoReturns(t, info) ==
    /\ RequestReturns(t) /\ Last(t).of = "info"
    /\ Fresh(info)
    /\ heap' = (heap \ Freed(Last(t))) \union ({info} \ {NULL})
    /\ infos' = [infos EXCEPT ![t] = @ \union ({info} \ {NULL})]
    /\ Leave(t)
    /\ UNCHANGED lost

\* is_option_supported gets a DestinationInfo, builds the destination again and asks
\* cupsCheckDestSupported; its request goes on.
CheckSupported(t, info, name, options) ==
    LET left == heap \ Freed(Last(t)) IN
    /\ Libcups(t) /\ Last(t).of = "supported"
    /\ {info, name, options} \intersect left = {}
    /\ info # NULL /\ name \notin {NULL, info} /\ options \notin {name, info}
    /\ heap' = left \union ({info, name, options} \ {NULL})
    /\ Change(t, Temps("check", name, options, info))
    /\ UNCHANGED <<auth_vars, infos, lost>>

\* It returns, with an answer or without an info: the info is dropped last.
SupportedReturns(t) ==
    /\ RequestReturns(t) /\ Last(t).of \in {"supported", "check"}
    /\ heap' = heap \ Freed(Last(t))
    /\ Leave(t)
    /\ UNCHANGED <<infos, lost>>

\* DestinationInfo::drop.
DropInfo(t, info) ==
    /\ Application(t) /\ info \in infos[t]
    /\ infos' = [infos EXCEPT ![t] = @ \ {info}]
    /\ heap' = heap \ {info}
    /\ UNCHANGED <<auth_vars, temps, lost>>

-----------------------------------------------------------------------------
\* connect, connect_with_callback: as_ptr's destination is passed, and nothing frees it.
Connect(t, name, options) ==
    /\ Request(t)
    /\ Fresh(name) /\ Fresh(options) /\ name # options /\ name # NULL
    /\ heap' = heap \union ({name, options} \ {NULL})
    /\ lost' = lost \union ({name, options} \ {NULL})
    /\ Enter(t, Temps("connect", NULL, NULL, NULL))
    /\ UNCHANGED infos

ConnectReturns(t) ==
    /\ RequestReturns(t) /\ Last(t).of = "connect"
    /\ Leave(t)
    /\ UNCHANGED <<heap, infos, lost>>

\* check_option_conflicts: cupsGetDest finds nothing in the null array it is given, so the
\* options are freed and it fails, unless `?` on a later NUL has left them behind.
CheckConflicts(t, options) ==
    /\ Application(t)
    /\ options # NULL /\ Fresh(options)
    /\ \/ heap' = heap \union {options} /\ lost' = lost \union {options}
       \/ UNCHANGED <<heap, lost>>
    /\ UNCHANGED <<auth_vars, temps, infos>>

Next ==
    \E t \in Threads :
       \/ Enters(t) \/ Leaves(t) \/ Panics(t) \/ Sets(t)
       \/ \E p \in Pointers \union {NULL} :
             \/ AskInfoFails(t, p) \/ Reallocate(t, p) \/ InfoReturns(t, p)
             \/ DropInfo(t, p) \/ CheckConflicts(t, p)
             \/ \E q \in Pointers \union {NULL} :
                   \/ \E of \in {"info", "supported"} : AskInfo(t, of, p, q)
                   \/ \E info \in Pointers : CheckSupported(t, info, p, q)
                   \/ Connect(t, p, q)
       \/ SupportedReturns(t) \/ ConnectReturns(t)

Spec == Init /\ [][Next]_vars

-----------------------------------------------------------------------------
Locals == [of : {"info", "supported", "check", "connect", "other"},
           name : Pointers \union {NULL}, options : Pointers \union {NULL},
           passed : Pointers \union {NULL}, info : Pointers \union {NULL}]

\* Every variable has its type.
TypeOK ==
    /\ AuthTypeOK
    /\ heap \subseteq Pointers /\ lost \subseteq Pointers
    /\ temps \in [Threads -> Seq(Locals)]
    /\ infos \in [Threads -> SUBSET Pointers]

\* What the i-th call of thread t has to free; with i = 0, its DestinationInfo values.
Holds(t, i) ==
    IF i = 0 THEN infos[t]
    ELSE {temps[t][i].name, temps[t][i].options, temps[t][i].info} \ {NULL}
Levels(t) == 0..Len(temps[t])

\* The memory in use is what exactly one running call or DestinationInfo will free, but for
\* what is lost: nothing is freed twice, used after, or left behind by another way out, also
\* when libcups has replaced an options array (destination/mod.rs:221-235) and when calls run
\* within the closures of others, or these panic (connection.rs:390-438).
HeapOwned ==
    /\ heap = lost \union UNION {UNION {Holds(t, i) : i \in Levels(t)} : t \in Threads}
    /\ \A t, u \in Threads : \A i \in Levels(t), j \in Levels(u) :
          /\ Holds(t, i) \intersect lost = {}
          /\ Holds(t, i) \intersect Holds(u, j) # {} => t = u /\ i = j
=============================================================================
