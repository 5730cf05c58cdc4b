--------------------------- MODULE AuthCallbacks ---------------------------
(***************************************************************************)
(* src/src/auth.rs: the closures an application sets to answer for         *)
(* passwords and certificates, one of each kind per thread, and the calls  *)
(* that run them: libcups in the middle of a request, through an           *)
(* extern "C" wrapper, or the application itself. A closure may do all     *)
(* that the application may: send another request, set another closure.    *)
(*                                                                         *)
(* A thread's stack holds what matters of its calls, the innermost last.   *)
(***************************************************************************)
EXTENDS Integers, Sequences, FiniteSets

CONSTANTS
    Threads,
    Kinds,      \* of closures: PASSWORD_CALLBACK, CLIENT_CERT_CALLBACK, SERVER_CERT_CALLBACK
    Callbacks,  \* closures an application may set
    Strings,    \* passwords, as the C strings they are given to libcups in
    None,
    MaxCalls,   \* bound: calls running at once
    MaxSets     \* bound: closures set or removed

ASSUME KindsAssumption == "password" \in Kinds /\ None \notin Kinds
ASSUME NoneAssumption == None \notin Callbacks \union Strings
ASSUME BoundAssumption == MaxCalls \in Nat /\ MaxSets \in Nat

VARIABLES
    slot,       \* the closures stored: thread -> kind -> callback or None
    registered, \* the threads for which libcups calls password_callback_wrapper
    stack,      \* the calls of each thread
    given,      \* the C strings given to libcups and not freed
    aborted,    \* the process is gone
    setsLeft

auth_vars == <<slot, registered, stack, given, aborted, setsLeft>>

\* "request": libcups, talking to a server. "prompt", "getter": a closure of a kind, called
\* by the wrapper or by the application. "monitor": a closure passed to the request itself.
Call(call, kind, callback) ==
    [call |-> call, kind |-> kind, callback |-> callback, password |-> None]

Top(calls) == calls[Len(calls)]
Pop(calls) == SubSeq(calls, 1, Len(calls) - 1)

Waiting(t) == stack[t] # <<>> /\ Top(stack[t]).call = "request"

\* The application's own code runs on t.
Application(t) == ~ aborted /\ ~ Waiting(t)

\* libcups' code runs on t.
Libcups(t) == ~ aborted /\ Waiting(t)

Running == UNION {{t} \X (1..Len(stack[t])) : t \in Threads}

Push(t, call) ==
    /\ Cardinality(Running) < MaxCalls
    /\ stack' = [stack EXCEPT ![t] = Append(@, call)]

AuthInit ==
    /\ slot = [t \in Threads |-> [k \in Kinds |-> None]]
    /\ registered = {}
    /\ stack = [t \in Threads |-> <<>>]
    /\ given = {}
    /\ aborted = FALSE
    /\ setsLeft = MaxSets

-----------------------------------------------------------------------------
\* A call of a closure borrows its slot until it returns.
Borrowed(t, k) == \E i \in 1..Len(stack[t]) : stack[t][i].kind = k

\* set_password_callback, set_client_cert_callback, set_server_cert_callback. Only the
\* first tells libcups. With the slot borrowed the call panics: see Unwind and Abort.
SetCallback_WhileBorrowed(t, k, callback) ==
    /\ Application(t) /\ setsLeft > 0
    /\ slot' = [slot EXCEPT ![t][k] = callback]
    /\ registered' = IF k # "password" THEN registered
                     ELSE IF callback = None THEN registered \ {t} ELSE registered \union {t}
    /\ setsLeft' = setsLeft - 1
    /\ UNCHANGED <<stack, given, aborted>>
SetCallback_StayRegistered(t, k, callback) ==
    /\ Application(t) /\ setsLeft > 0 /\ ~ Borrowed(t, k)
    /\ slot' = [slot EXCEPT ![t][k] = callback]
    /\ registered' = IF k = "password" THEN registered \union {t} ELSE registered
    /\ setsLeft' = setsLeft - 1
    /\ UNCHANGED <<stack, given, aborted>>

SetCallback(t, k, callback) ==
    /\ Application(t) /\ setsLeft > 0 /\ ~ Borrowed(t, k)
    /\ slot' = [slot EXCEPT ![t][k] = callback]
    /\ registered' = IF k # "password" THEN registered
                     ELSE IF callback = None THEN registered \ {t} ELSE registered \union {t}
    /\ setsLeft' = setsLeft - 1
    /\ UNCHANGED <<stack, given, aborted>>

\* get_password, get_client_certificate, validate_server_certificate: with a closure set.
Get(t, k) ==
    /\ Application(t) /\ slot[t][k] # None
    /\ Push(t, Call("getter", k, slot[t][k]))
    /\ UNCHANGED <<slot, registered, given, aborted, setsLeft>>

GetReturns(t) ==
    /\ ~ aborted /\ stack[t] # <<>> /\ Top(stack[t]).call = "getter"
    /\ stack' = [stack EXCEPT ![t] = Pop(@)]
    /\ UNCHANGED <<slot, registered, given, aborted, setsLeft>>

-----------------------------------------------------------------------------
\* do_authentication, and whatever else sends a request.
Request(t) ==
    /\ Application(t)
    /\ Push(t, Call("request", None, None))
    /\ UNCHANGED <<slot, registered, given, aborted, setsLeft>>

\* The request is done, or given up; a password is not used after it.
RequestReturns(t) ==
    /\ Libcups(t)
    /\ stack' = [stack EXCEPT ![t] = Pop(@)]
    /\ UNCHANGED <<slot, registered, given, aborted, setsLeft>>

\* password_callback_wrapper, called by libcups for a server that wants a password. With no
\* closure stored it would return NULL at once.
Prompt(t) ==
    /\ Libcups(t) /\ t \in registered /\ slot[t]["password"] # None
    /\ Push(t, Call("prompt", "password", slot[t]["password"]))
    /\ UNCHANGED <<slot, registered, given, aborted, setsLeft>>

\* Its closure returned no password, or one that libcups, in the request below, holds on to:
\* the C string is never freed.
Answered(calls, s) == [Pop(calls) EXCEPT ![Len(calls) - 1].password = s]

Answer_KeepLast(t, s) ==
    /\ ~ aborted /\ stack[t] # <<>> /\ Top(stack[t]).call = "prompt"
    /\ s \notin given
    /\ stack' = [stack EXCEPT ![t] = Answered(@, s)]
    /\ given' = {s} \ {None}
    /\ UNCHANGED <<slot, registered, aborted, setsLeft>>

Answer(t, s) ==
    /\ ~ aborted /\ stack[t] # <<>> /\ Top(stack[t]).call = "prompt"
    /\ s \notin given
    /\ stack' = [stack EXCEPT ![t] = Answered(@, s)]
    /\ given' = given \union ({s} \ {None})
    /\ UNCHANGED <<slot, registered, aborted, setsLeft>>

\* Another closure libcups calls back: connect_dest_callback's.
Monitor(t) ==
    /\ Libcups(t)
    /\ Push(t, Call("monitor", None, None))
    /\ UNCHANGED <<slot, registered, given, aborted, setsLeft>>

MonitorReturns(t) ==
    /\ ~ aborted /\ stack[t] # <<>> /\ Top(stack[t]).call = "monitor"
    /\ stack' = [stack EXCEPT ![t] = Pop(@)]
    /\ UNCHANGED <<slot, registered, given, aborted, setsLeft>>

-----------------------------------------------------------------------------
\* A closure panics and the application catches it: only from within calls of its own, for
\* the calls of libcups are not unwound.
Unwind_Through(t, n) ==
    /\ Application(t) /\ n < Len(stack[t])
    /\ stack' = [stack EXCEPT ![t] = SubSeq(@, 1, n)]
    /\ UNCHANGED <<slot, registered, given, aborted, setsLeft>>

Unwind(t, n) ==
    /\ Application(t) /\ n < Len(stack[t])
    /\ \A i \in n + 1 .. Len(stack[t]) : stack[t][i].call = "getter"
    /\ stack' = [stack EXCEPT ![t] = SubSeq(@, 1, n)]
    /\ UNCHANGED <<slot, registered, given, aborted, setsLeft>>

\* Not caught before the extern "C" function that libcups called.
Abort(t) ==
    /\ Application(t)
    /\ \E i \in 1..Len(stack[t]) : stack[t][i].call \in {"prompt", "monitor"}
    /\ aborted' = TRUE
    /\ UNCHANGED <<slot, registered, stack, given, setsLeft>>

AuthNext ==
    \E t \in Threads :
       \/ \E k \in Kinds : \/ \E callback \in Callbacks \union {None} : SetCallback(t, k, callback)
                           \/ Get(t, k)
       \/ GetReturns(t)
       \/ Request(t) \/ RequestReturns(t)
       \/ Prompt(t) \/ \E s \in Strings \union {None} : Answer(t, s)
       \/ Monitor(t) \/ MonitorReturns(t)
       \/ \E n \in 0..MaxCalls : Unwind(t, n)
       \/ Abort(t)

AuthSpec == AuthInit /\ [][AuthNext]_auth_vars

-----------------------------------------------------------------------------
Calls == [call : {"request", "prompt", "getter", "monitor"}, kind : Kinds \union {None},
          callback : Callbacks \union {None}, password : Strings \union {None}]

AuthTypeOK ==
    /\ slot \in [Threads -> [Kinds -> Callbacks \union {None}]]
    /\ registered \subseteq Threads
    /\ stack \in [Threads -> Seq(Calls)]
    /\ given \subseteq Strings
    /\ aborted \in BOOLEAN
    /\ setsLeft \in 0..MaxSets

\* libcups asks the closure exactly as long as one is set: a prompt is neither answered by
\* nobody, which would cancel it, nor left to libcups' own when the application has a closure
\* (auth.rs:80-103).
RegisteredIffStored == \A t \in Threads : t \in registered <=> slot[t]["password"] # None

\* A closure that runs, however deep below other calls, is the one stored: it is not dropped
\* or replaced by what it or the calls it makes do (auth.rs:83-85, 190-197, 319-326).
RunningIsStored ==
    \A t \in Threads : \A i \in 1..Len(stack[t]) :
       stack[t][i].kind # None =>
          /\ stack[t][i].callback # None
          /\ stack[t][i].callback = slot[t][stack[t][i].kind]

\* A password libcups may hold on to is not freed before the request is done, not even when a
\* closure called meanwhile sends requests with prompts of their own, "the next
\* authentication call" (auth.rs:331-334).
PasswordsKept ==
    \A t \in Threads : \A i \in 1..Len(stack[t]) :
       stack[t][i].password # None => stack[t][i].password \in given
=============================================================================
