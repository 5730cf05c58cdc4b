----------------------------- MODULE CupsConfig -----------------------------
(***************************************************************************)
(* CupsConfig of src/src/config.rs: guards that capture the four settings  *)
(* libcups keeps for each thread, let the builder change them, and put the *)
(* captured ones back when they are dropped. The compiler lets guards be   *)
(* dropped in any order, and be sent to another thread.                    *)
(*                                                                         *)
(* A server may be given with a port, which libcups keeps apart: get_server*)
(* returns the name alone, and no getter returns the port.                 *)
(***************************************************************************)
EXTENDS Integers, Sequences

CONSTANTS
    Threads,
    Values,     \* what settings, and the port, are set to
    Default,    \* what libcups uses where nothing is set
    Unset,      \* nothing is set
    MaxSets,    \* bound: settings made
    MaxGuards   \* bound: guards made

Settings == {"server", "user", "encryption", "user agent"}
Kept == Settings \union {"port"}

DefaultAssumption == Default \in Values /\ Unset \notin Values
BoundAssumption == MaxSets \in Nat /\ MaxGuards \in Nat
ASSUME DefaultAssumption
ASSUME BoundAssumption

VARIABLES
    settings,   \* libcups' settings of each thread, and the port
    guards,     \* the live CupsConfig values each thread holds, oldest first
    before,     \* what each thread last had with no guard live on it
    orderly,    \* the thread dropped its guards newest first, and sent and got none
    ported,     \* libcups was given a port, or told to forget one, with a guard live
    sets, made

vars == <<settings, guards, before, orderly, ported, sets, made>>

\* What libcups uses.
InUse(mine) == [s \in Kept |-> IF mine[s] = Unset THEN Default ELSE mine[s]]

\* get_server, get_user, get_encryption, get_user_agent: what is set, or the default.
Get(mine) == [s \in Settings |-> InUse(mine)[s]]

Init ==
    /\ settings = [t \in Threads |-> [s \in Kept |-> Unset]]
    /\ guards = [t \in Threads |-> <<>>]
    /\ before = [t \in Threads |-> [s \in Kept |-> Default]]
    /\ orderly = [t \in Threads |-> TRUE]
    /\ ported = [t \in Threads |-> FALSE]
    /\ sets = 0 /\ made = 0

WithoutGuard(stack, i) == SubSeq(stack, 1, i - 1) \o SubSeq(stack, i + 1, Len(stack))

-----------------------------------------------------------------------------
\* What a call gives libcups: a value for a setting, or a server and its port.
Named  == (UNION {[{s} -> Values] : s \in Settings}) \union [{"server", "port"} -> Values]

\* None, which the encryption has not: back to the default, the port too.
Resets == UNION {[S -> {Unset}] : S \in {{"server", "port"}, {"user"}, {"user agent"}}}

\* libcups keeps what it is not given: a port, until another server names one.
Over(given, mine) == [s \in Kept |-> IF s \in DOMAIN given THEN given[s] ELSE mine[s]]

\* With no guard live a thread may set what it likes; what it has then is to be restored.
Noted(t, names) ==
    /\ before' = IF guards[t] = <<>> THEN [before EXCEPT ![t] = InUse(settings'[t])] ELSE before
    /\ orderly' = [orderly EXCEPT ![t] = @ \/ guards[t] = <<>>]
    /\ ported' = [ported EXCEPT ![t] = guards[t] # <<>> /\ (@ \/ "port" \in names)]

\* set_server and the like, outside of any guard or while one is alive; with_server,
\* with_user, with_encryption and with_user_agent, which have a guard and no None.
Set(t, given) ==
    /\ sets < MaxSets
    /\ sets' = sets + 1
    /\ settings' = [settings EXCEPT ![t] = Over(given, @)]
    /\ Noted(t, DOMAIN given)
    /\ UNCHANGED <<guards, made>>

\* CupsConfig::new captures what the getters say; Default::default is the same.
New_OnlyWhatIsSet(t) ==
    /\ made < MaxGuards
    /\ made' = made + 1
    /\ guards' = [guards EXCEPT ![t] = Append(@, [s \in Settings |-> settings[t][s]])]
    /\ UNCHANGED <<settings, sets>>
    /\ Noted(t, {})

New(t) ==
    /\ made < MaxGuards
    /\ made' = made + 1
    /\ guards' = [guards EXCEPT ![t] = Append(@, Get(settings[t]))]
    /\ UNCHANGED <<settings, sets>>
    /\ Noted(t, {})

\* Drop puts back every captured setting, on the thread the guard is dropped on, by the
\* setters: the port stays.
Restore_NotUserAgent(t, i) ==
    settings' = [settings EXCEPT ![t] =
                   Over([s \in Settings \ {"user agent"} |-> guards[t][i][s]], @)]
Restore(t, i) == settings' = [settings EXCEPT ![t] = Over(guards[t][i], @)]

Drop(t, i) ==
    /\ Restore(t, i)
    /\ guards' = [guards EXCEPT ![t] = WithoutGuard(@, i)]
    /\ orderly' = [orderly EXCEPT ![t] = @ /\ i = Len(guards[t])]
    /\ UNCHANGED <<before, ported, made>>

\* A value with a NUL byte: the setter fails, and the builder drops the guard it took.
WithFails(t, i) ==
    /\ sets < MaxSets
    /\ sets' = sets + 1
    /\ Drop(t, i)

DropGuard(t, i) == Drop(t, i) /\ UNCHANGED sets

\* A guard is moved to another thread: a CupsConfig is four owned values.
Send(t, i, u) ==
    /\ t # u
    /\ guards' = [guards EXCEPT ![t] = WithoutGuard(@, i), ![u] = Append(@, guards[t][i])]
    /\ orderly' = [orderly EXCEPT ![t] = FALSE, ![u] = FALSE]
    /\ UNCHANGED <<settings, before, ported, sets, made>>

Next == \E t \in Threads :
    \/ \E given \in Named \union Resets : Set(t, given)
    \/ New(t)
    \/ \E i \in DOMAIN guards[t] : DropGuard(t, i) \/ WithFails(t, i)
    \/ \E i \in DOMAIN guards[t], u \in Threads : Send(t, i, u)

Spec == Init /\ [][Next]_vars

-----------------------------------------------------------------------------
Captured == [Settings -> Values]

\* Every variable has its type: above all, a guard has a value for each setting, so
\* that dropping it leaves nothing to the default (config.rs:300-307, 352-366).
TypeOK ==
    /\ settings \in [Threads -> [Kept -> Values \union {Unset}]]
    /\ guards \in [Threads -> Seq(Captured)]
    /\ before \in [Threads -> [Kept -> Values]]
    /\ orderly \in [Threads -> BOOLEAN]
    /\ ported \in [Threads -> BOOLEAN]
    /\ sets \in 0..MaxSets /\ made \in 0..MaxGuards

\* A thread that keeps its guards and drops them newest first has, once it holds none,
\* what it had before its first one: however deep they were nested, whatever was set under
\* them, wherever a builder failed and whatever other threads do with theirs: "so it can be
\* restored when the CupsConfig is dropped" (config.rs:298-299). That is what the getters
\* say; the port comes back only if none was named and no server reset meanwhile
\* (config.rs:69-110, 353-355).
RestoredInOrder ==
    \A t \in Threads : guards[t] = <<>> /\ orderly[t] =>
        \A s \in (IF ported[t] THEN Settings ELSE Kept) : InUse(settings[t])[s] = before[t][s]

\* What the getters say, of guards dropped in any order and on any thread, once all are
\* gone: "Settings should be restored after config is dropped" (config.rs:445).
Restored ==
    (\A t \in Threads : guards[t] = <<>>) =>
        \A t \in Threads, s \in Settings : Get(settings[t])[s] = before[t][s]
=============================================================================
