---------------------------- MODULE DnssdContext ----------------------------
(***************************************************************************)
(* The lifetime of a libcups DNS-SD context, its browsers, resolvers and   *)
(* queries (src/src/dnssd.rs): what Rust frees and deletes, in which order *)
(* and on whose behalf, while libcups' own thread calls back with pointers *)
(* to the state boxes.                                                     *)
(*                                                                         *)
(* Handles hold raw pointers, so all of them live on one thread, `owner`;  *)
(* the Arc that Dnssd clones and handles share is the set of its holders.  *)
(* A libcups delete waits for a callback that is running: an assumption    *)
(* about libcups, which the code needs as it frees the box right after.    *)
(***************************************************************************)
EXTENDS FiniteSets

CONSTANTS
    Handles,   \* DnssdBrowser, DnssdResolver and DnssdQuery values
    Clones,    \* Dnssd values, those inside DnssdServiceResolvers included
    None

NamesAssumption == /\ Handles \intersect Clones = {}
                   /\ {None, "error"} \intersect (Handles \union Clones) = {}
                   /\ None # "error"
ASSUME NamesAssumption

VARIABLES
    context,      \* the raw context: "none", "live", "deleted", or "deleted twice"
    error_state,  \* the error callback's box is allocated
    holders,      \* who holds the Arc
    raw,          \* handles libcups knows and may call back for
    state,        \* handles whose state box is allocated
    owner,        \* what the owner's thread is in the middle of: [step, of]
    callback      \* what libcups' thread runs a callback for: a handle, "error" or None

vars == <<context, error_state, holders, raw, state, owner, callback>>

Idle == [step |-> "idle", of |-> None]
At(step) == owner.step = step
Go(step, x) == owner' = [step |-> step, of |-> x]

Init ==
    /\ context = "none" /\ error_state = FALSE
    /\ holders = {} /\ raw = {} /\ state = {}
    /\ owner = Idle /\ callback = None

Held == holders \intersect Clones
Open == holders \intersect Handles

-----------------------------------------------------------------------------
\* Dnssd::new: the box is there before libcups gets its address, and goes with an error.
NewState ==
    /\ At("idle") /\ context = "none"
    /\ error_state' = TRUE
    /\ Go("new", None)
    /\ UNCHANGED <<context, holders, raw, state, callback>>

NewContext(clone) ==
    /\ At("new")
    /\ \/ context' = "live" /\ holders' = {clone} /\ UNCHANGED error_state
       \/ error_state' = FALSE /\ UNCHANGED <<context, holders>>
    /\ owner' = Idle
    /\ UNCHANGED <<raw, state, callback>>

\* Dnssd::clone, as resolve_service does.
Clone(clone) ==
    /\ At("idle") /\ Held # {} /\ clone \in Clones \ holders
    /\ holders' = holders \union {clone}
    /\ UNCHANGED <<context, error_state, raw, state, owner, callback>>

\* browse, resolve and query_address: the box, the libcups object, and the Arc on return.
OpenState(h) ==
    /\ At("idle") /\ Held # {} /\ h \notin holders
    /\ state' = state \union {h}
    /\ Go("open", h)
    /\ UNCHANGED <<context, error_state, holders, raw, callback>>

OpenRaw_LeakState ==
    /\ At("open")
    /\ \/ raw' = raw \union {owner.of} /\ Go("return", owner.of)
       \/ owner' = Idle /\ UNCHANGED raw
    /\ UNCHANGED <<context, error_state, holders, state, callback>>
OpenRaw ==
    /\ At("open")
    /\ \/ raw' = raw \union {owner.of} /\ Go("return", owner.of) /\ UNCHANGED state
       \/ state' = state \ {owner.of} /\ owner' = Idle /\ UNCHANGED raw
    /\ UNCHANGED <<context, error_state, holders, callback>>

OpenReturn_NoArc ==
    /\ At("return")
    /\ owner' = Idle
    /\ UNCHANGED <<context, error_state, holders, raw, state, callback>>
OpenReturn ==
    /\ At("return")
    /\ holders' = holders \union {owner.of}
    /\ owner' = Idle
    /\ UNCHANGED <<context, error_state, raw, state, callback>>

-----------------------------------------------------------------------------
\* Dropping a handle: Drop::drop deletes the libcups object, then the fields go in the
\* order declared, the state box and then the Arc. Delete waits for a running callback.
Drop(h) ==
    /\ At("idle") /\ h \in Open
    /\ Go("drop raw", h)
    /\ UNCHANGED <<context, error_state, holders, raw, state, callback>>

DropRaw_Forgotten ==
    /\ At("drop raw")
    /\ Go("drop state", owner.of)
    /\ UNCHANGED <<context, error_state, holders, raw, state, callback>>
DropRaw ==
    /\ At("drop raw")
    /\ callback # owner.of
    /\ raw' = raw \ {owner.of}
    /\ Go("drop state", owner.of)
    /\ UNCHANGED <<context, error_state, holders, state, callback>>

DropState ==
    /\ At("drop state")
    /\ state' = state \ {owner.of}
    /\ Go("drop arc", owner.of)
    /\ UNCHANGED <<context, error_state, holders, raw, callback>>

\* The Arc of a handle or of a Dnssd value; the last one drops the DnssdInner.
DropArc_EveryOne(x) ==
    /\ \/ At("drop arc") /\ x = owner.of
       \/ At("idle") /\ x \in Held
    /\ holders' = holders \ {x}
    /\ Go("drop inner", None)
    /\ UNCHANGED <<context, error_state, raw, state, callback>>
DropArc(x) ==
    /\ \/ At("drop arc") /\ x = owner.of
       \/ At("idle") /\ x \in Held
    /\ holders' = holders \ {x}
    /\ IF holders' = {} THEN Go("drop inner", None) ELSE owner' = Idle
    /\ UNCHANGED <<context, error_state, raw, state, callback>>

\* DnssdInner::drop: the context first, which ends libcups' thread, then the error box.
DropInner ==
    /\ At("drop inner")
    /\ callback = None
    /\ context' = IF context = "live" THEN "deleted" ELSE "deleted twice"
    /\ Go("drop error state", None)
    /\ UNCHANGED <<error_state, holders, raw, state, callback>>

DropErrorState ==
    /\ At("drop error state")
    /\ error_state' = FALSE
    /\ owner' = Idle
    /\ UNCHANGED <<context, holders, raw, state, callback>>

-----------------------------------------------------------------------------
\* libcups' thread: browse_callback, resolve_callback, query_callback, error_callback.
Callback ==
    /\ context = "live" /\ callback = None
    /\ callback' \in raw \union {"error"}
    /\ UNCHANGED <<context, error_state, holders, raw, state, owner>>

CallbackReturns_WantsOwner ==
    /\ callback # None /\ At("idle")
    /\ callback' = None
    /\ UNCHANGED <<context, error_state, holders, raw, state, owner>>
CallbackReturns ==
    /\ callback # None
    /\ callback' = None
    /\ UNCHANGED <<context, error_state, holders, raw, state, owner>>

Dropping == \/ DropRaw \/ DropState \/ DropInner \/ DropErrorState
            \/ At("drop arc") /\ DropArc(owner.of)

Next ==
    \/ NewState \/ OpenRaw \/ OpenReturn
    \/ \E clone \in Clones : NewContext(clone) \/ Clone(clone)
    \/ \E h \in Handles : OpenState(h) \/ Drop(h)
    \/ \E clone \in Clones : At("idle") /\ DropArc(clone)
    \/ Dropping
    \/ Callback \/ CallbackReturns

Spec == Init /\ [][Next]_vars

\* A drop once begun goes on, callbacks, which only send, return, and a delete that
\* waits for them gets its turn between two.
FairSpec == /\ Spec
            /\ SF_vars(Dropping) /\ WF_vars(CallbackReturns)

-----------------------------------------------------------------------------
Steps == {"idle", "new", "open", "return", "drop raw", "drop state", "drop arc",
          "drop inner", "drop error state"}

\* The values of the variables; among them, the context is never "deleted twice", which
\* is what the count of the Arc is for (dnssd.rs:45-47, 238-242).
TypeOK ==
    /\ context \in {"none", "live", "deleted"}
    /\ error_state \in BOOLEAN
    /\ holders \subseteq Handles \union Clones
    /\ raw \subseteq Handles /\ state \subseteq Handles
    /\ owner \in [step : Steps, of : Handles \union {None}]
    /\ callback \in Handles \union {"error", None}

\* No callback runs with a pointer to a box that has been freed: neither the first one,
\* which may come before the call that opens the handle returns, nor the last, with the
\* handle being dropped (dnssd.rs:50-54, 99-112, 250-255, 367-379).
CallbackStateAlive ==
    /\ callback \in Handles => callback \in state
    /\ callback = "error" => error_state

\* "A context outlives everything created on it whatever order these fields are dropped
\* in" (dnssd.rs:389-391): libcups has no browser, resolver or query of a deleted
\* context, and whoever still holds the Arc finds the context there.
ContextOutlivesHandles == raw # {} \/ holders # {} => context = "live"

\* When the last value that needs the context has gone, so have the context and every
\* box: none is left to use up "what Avahi will hand out" (dnssd.rs:164-166).
ContextReleased ==
    At("idle") /\ holders = {} => context # "live" /\ state = {} /\ ~ error_state

\* A drop that has begun ends: the owner, which waits for libcups' callbacks, is not
\* waited for by them (dnssd.rs:238-242, 367-379, 396-528).
DropsFinish ==
    owner.step \in {"drop raw", "drop state", "drop arc", "drop inner", "drop error state"}
        ~> At("idle")
=============================================================================
