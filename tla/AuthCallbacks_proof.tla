------------------------ MODULE AuthCallbacks_proof ------------------------
(***************************************************************************)
(* For any number of threads, closures and calls within each other: libcups*)
(* asks the closure that is stored, a running closure stays stored, and a  *)
(* password given to libcups is not freed under it.                        *)
(***************************************************************************)
EXTENDS AuthCallbacks, SequenceTheorems, TLAPS

\* What holds of each thread's calls, given its slots and the passwords in use.
CallStored(call, slots) ==
    call.kind # None => call.callback # None /\ call.callback = slots[call.kind]
CallKept(call, strings) == call.password # None => call.password \in strings
Good(calls, slots, strings) ==
    \A i \in 1..Len(calls) : CallStored(calls[i], slots) /\ CallKept(calls[i], strings)

AllGood == \A t \in Threads : Good(stack[t], slot[t], given)

IInv == AuthTypeOK /\ RegisteredIffStored /\ AllGood

-----------------------------------------------------------------------------
\* Stacks only grow and shrink at their end.
LEMMA CutCalls ==
    ASSUME NEW S, NEW calls \in Seq(S), NEW n \in Nat, n <= Len(calls)
    PROVE  /\ SubSeq(calls, 1, n) \in Seq(S)
           /\ Len(SubSeq(calls, 1, n)) = n
           /\ \A i \in 1..n : SubSeq(calls, 1, n)[i] = calls[i]
<1>1. Len(calls) \in Nat /\ \A i \in 1..n : calls[i] \in S
  BY LenProperties, ElementOfSeq
<1> QED  BY <1>1, SubSeqProperties

LEMMA PopCalls ==
    ASSUME NEW S, NEW calls \in Seq(S), calls # <<>>
    PROVE  /\ Pop(calls) \in Seq(S)
           /\ Len(calls) \in Nat /\ Len(calls) >= 1
           /\ Len(Pop(calls)) = Len(calls) - 1
           /\ \A i \in 1..Len(calls) - 1 : Pop(calls)[i] = calls[i]
<1>1. Len(calls) \in Nat /\ Len(calls) # 0
  BY EmptySeq, LenProperties
<1> DEFINE n == Len(calls) - 1
<1>2. n \in Nat /\ n <= Len(calls) /\ Len(calls) >= 1
  BY <1>1
<1>3. Pop(calls) = SubSeq(calls, 1, n)
  BY DEF Pop
<1> HIDE DEF n
<1>4. Pop(calls) \in Seq(S) /\ Len(Pop(calls)) = n /\ \A i \in 1..n : Pop(calls)[i] = calls[i]
  BY <1>2, <1>3, CutCalls
<1> QED  BY <1>1, <1>2, <1>4 DEF n

LEMMA GoodCut ==
    ASSUME NEW slots, NEW strings, NEW calls \in Seq(Calls), NEW n \in Nat, n <= Len(calls),
           Good(calls, slots, strings)
    PROVE  Good(SubSeq(calls, 1, n), slots, strings)
<1>1. Len(calls) \in Nat /\ \A i \in 1..n : i \in 1..Len(calls)
  OBVIOUS
<1> QED  BY <1>1, CutCalls DEF Good

LEMMA GoodPop ==
    ASSUME NEW slots, NEW strings, NEW calls \in Seq(Calls), calls # <<>>,
           Good(calls, slots, strings)
    PROVE  Good(Pop(calls), slots, strings)
<1>1. Len(calls) \in Nat /\ Len(calls) # 0
  BY EmptySeq, LenProperties
<1>2. Len(calls) - 1 \in Nat /\ Len(calls) - 1 <= Len(calls)
  BY <1>1
<1> QED  BY <1>2, GoodCut DEF Pop

LEMMA GoodPush ==
    ASSUME NEW slots, NEW strings, NEW calls \in Seq(Calls), NEW call \in Calls,
           Good(calls, slots, strings), CallStored(call, slots), call.password = None
    PROVE  Append(calls, call) \in Seq(Calls) /\ Good(Append(calls, call), slots, strings)
<1> DEFINE more == Append(calls, call)
<1>1. /\ more \in Seq(Calls) /\ Len(more) = Len(calls) + 1 /\ Len(calls) \in Nat
      /\ more[Len(calls) + 1] = call /\ \A i \in 1..Len(calls) : more[i] = calls[i]
  BY AppendProperties, LenProperties
<1>2. ASSUME NEW i \in 1..Len(more)
      PROVE  CallStored(more[i], slots) /\ CallKept(more[i], strings)
  <2>1. CASE i = Len(calls) + 1
    BY <1>1, <2>1 DEF CallKept
  <2>2. CASE i \in 1..Len(calls)
    BY <1>1, <2>2 DEF Good
  <2> QED  BY <1>1, <2>1, <2>2
<1> QED  BY <1>1, <1>2 DEF Good

\* The call below the one that returns has a password now.
LEMMA GoodAnswered ==
    ASSUME NEW slots, NEW strings, NEW calls \in Seq(Calls), calls # <<>>,
           NEW s \in Strings \union {None},
           Good(calls, slots, strings)
    PROVE  /\ Answered(calls, s) \in Seq(Calls)
           /\ Good(Answered(calls, s), slots, strings \union ({s} \ {None}))
<1> DEFINE p == Pop(calls)
           j == Len(calls) - 1
           after == Answered(calls, s)
           more == strings \union ({s} \ {None})
<1>1. p \in Seq(Calls) /\ Len(p) \in Nat /\ Good(p, slots, strings)
  BY PopCalls, GoodPop
<1>2. after = [p EXCEPT ![j] = [@ EXCEPT !.password = s]]
  BY DEF Answered
<1> HIDE DEF p, j, after
<1>3. \A i \in 1..Len(p) : p[i] \in Calls
  BY <1>1
<1>4. ASSUME NEW i \in 1..Len(p)
      PROVE  [p[i] EXCEPT !.password = s] \in Calls
  BY <1>3 DEF Calls
<1>5. /\ after \in Seq(Calls) /\ Len(after) = Len(p)
      /\ \A i \in 1..Len(p) : after[i] = IF i = j THEN [p[i] EXCEPT !.password = s] ELSE p[i]
  <2>1. p \in [1..Len(p) -> Calls] /\ DOMAIN p = 1..Len(p)
    BY <1>1, LenProperties
  <2> DEFINE g == [i \in 1..Len(p) |-> IF i = j THEN [p[i] EXCEPT !.password = s] ELSE p[i]]
  <2>2. after = g
    BY <1>2, <2>1
  <2>3. g \in [1..Len(p) -> Calls]
    BY <1>3, <1>4
  <2>4. g \in Seq(Calls) /\ Len(g) = Len(p)
    BY <1>1, <2>3
  <2> QED  BY <2>2, <2>4
<1>6. ASSUME NEW i \in 1..Len(p)
      PROVE  CallStored(after[i], slots) /\ CallKept(after[i], more)
  <2>1. CallStored(p[i], slots) /\ CallKept(p[i], strings) /\ p[i] \in Calls
    BY <1>1, <1>3 DEF Good
  <2>2. CASE i = j
    <3>1. /\ after[i].kind = p[i].kind /\ after[i].callback = p[i].callback
          /\ after[i].password = s
      BY <1>5, <2>1, <2>2 DEF Calls
    <3> QED  BY <2>1, <3>1 DEF CallStored, CallKept
  <2>3. CASE i # j
    BY <1>5, <2>1, <2>3 DEF CallKept
  <2> QED  BY <2>2, <2>3
<1> QED  BY <1>5, <1>6 DEF Good, after

-----------------------------------------------------------------------------
LEMMA InitInv == AuthInit => IInv
<1> SUFFICES ASSUME AuthInit  PROVE IInv
  OBVIOUS
<1>1. stack \in [Threads -> Seq(Calls)] /\ \A t \in Threads : Len(stack[t]) = 0
  BY DEF AuthInit
<1>2. slot \in [Threads -> [Kinds -> Callbacks \union {None}]]
  BY DEF AuthInit
<1>3. RegisteredIffStored
  BY KindsAssumption DEF AuthInit, RegisteredIffStored, KindsAssumption
<1>4. AllGood
  BY <1>1 DEF AllGood, Good
<1>5. setsLeft \in 0..MaxSets
  BY BoundAssumption DEF AuthInit, BoundAssumption
<1> QED  BY <1>1, <1>2, <1>3, <1>4, <1>5 DEF AuthInit, IInv, AuthTypeOK

\* A step that changes the stack of one thread, and perhaps the passwords in use.
LEMMA StackStep ==
    ASSUME IInv, NEW t \in Threads, NEW calls \in Seq(Calls),
           stack' = [stack EXCEPT ![t] = calls],
           given' \subseteq Strings, given \subseteq given',
           Good(calls, slot[t], given'),
           UNCHANGED <<slot, registered, aborted, setsLeft>>
    PROVE  IInv'
<1>1. AuthTypeOK'
  BY DEF IInv, AuthTypeOK
<1>2. RegisteredIffStored'
  BY DEF IInv, RegisteredIffStored
<1>3. ASSUME NEW u \in Threads  PROVE Good(stack'[u], slot'[u], given')
  <2>1. CASE u = t
    BY <2>1 DEF IInv, AuthTypeOK
  <2>2. CASE u # t
    <3>1. stack'[u] = stack[u] /\ Good(stack[u], slot[u], given)
      BY <2>2 DEF IInv, AuthTypeOK, AllGood
    <3> QED  BY <3>1 DEF Good, CallKept
  <2> QED  BY <2>1, <2>2
<1> QED  BY <1>1, <1>2, <1>3 DEF IInv, AllGood

LEMMA PushStep ==
    ASSUME IInv, NEW t \in Threads, NEW call \in Calls, Push(t, call),
           CallStored(call, slot[t]), call.password = None,
           UNCHANGED <<slot, registered, given, aborted, setsLeft>>
    PROVE  IInv'
<1>1. stack[t] \in Seq(Calls) /\ Good(stack[t], slot[t], given)
  BY DEF IInv, AuthTypeOK, AllGood
<1>2. Append(stack[t], call) \in Seq(Calls) /\ Good(Append(stack[t], call), slot[t], given)
  BY <1>1, GoodPush
<1>3. stack' = [stack EXCEPT ![t] = Append(stack[t], call)] /\ given' = given
  BY DEF Push
<1>4. given' \subseteq Strings
  BY <1>3 DEF IInv, AuthTypeOK
<1> QED  BY <1>2, <1>3, <1>4, StackStep

LEMMA PopStep ==
    ASSUME IInv, NEW t \in Threads, stack[t] # <<>>,
           stack' = [stack EXCEPT ![t] = Pop(@)],
           UNCHANGED <<slot, registered, given, aborted, setsLeft>>
    PROVE  IInv'
<1>1. stack[t] \in Seq(Calls) /\ Good(stack[t], slot[t], given)
  BY DEF IInv, AuthTypeOK, AllGood
<1>2. Pop(stack[t]) \in Seq(Calls) /\ Good(Pop(stack[t]), slot[t], given)
  BY <1>1, PopCalls, GoodPop
<1>3. given' \subseteq Strings
  BY DEF IInv, AuthTypeOK
<1> QED  BY <1>2, <1>3, StackStep

LEMMA StepInv == IInv /\ [AuthNext]_auth_vars => IInv'
<1> SUFFICES ASSUME IInv, [AuthNext]_auth_vars  PROVE IInv'
  OBVIOUS
<1>1. CASE UNCHANGED auth_vars
  BY <1>1 DEF auth_vars, IInv, AuthTypeOK, RegisteredIffStored, AllGood, Good
<1> SUFFICES ASSUME NEW t \in Threads,
        \/ \E k \in Kinds : \/ \E callback \in Callbacks \union {None} :
                                  SetCallback(t, k, callback)
                            \/ Get(t, k)
        \/ GetReturns(t) \/ Request(t) \/ RequestReturns(t) \/ Prompt(t)
        \/ \E s \in Strings \union {None} : Answer(t, s)
        \/ Monitor(t) \/ MonitorReturns(t)
        \/ \E n \in 0..MaxCalls : Unwind(t, n)
        \/ Abort(t)
             PROVE  IInv'
  BY <1>1 DEF AuthNext
<1>t. /\ stack[t] \in Seq(Calls) /\ Good(stack[t], slot[t], given)
      /\ \A k \in Kinds : slot[t][k] \in Callbacks \union {None}
  BY DEF IInv, AuthTypeOK, AllGood
<1>c. ASSUME NEW call \in {"request", "prompt", "getter", "monitor"},
             NEW k \in Kinds \union {None}, NEW callback \in Callbacks \union {None}
      PROVE  Call(call, k, callback) \in Calls
  BY DEF Call, Calls
<1>2. ASSUME NEW k \in Kinds, NEW callback \in Callbacks \union {None}, SetCallback(t, k, callback)
      PROVE  IInv'
  <2>1. AuthTypeOK'
    BY <1>2, BoundAssumption DEF SetCallback, IInv, AuthTypeOK, BoundAssumption
  <2>2. RegisteredIffStored'
    BY <1>2, NoneAssumption
       DEF SetCallback, IInv, AuthTypeOK, RegisteredIffStored, NoneAssumption
  \* No call of this kind runs: those that do keep their closures.
  <2>3. ASSUME NEW u \in Threads  PROVE Good(stack'[u], slot'[u], given')
    <3>1. stack' = stack /\ given' = given /\ Good(stack[u], slot[u], given)
      BY <1>2 DEF SetCallback, IInv, AllGood
    <3>2. CASE u # t
      <4>1. slot'[u] = slot[u]
        BY <1>2, <3>2 DEF SetCallback, IInv, AuthTypeOK
      <4> QED  BY <3>1, <4>1
    <3>3. CASE u = t
      <4>1. \A l \in Kinds : l # k => slot'[t][l] = slot[t][l]
        BY <1>2 DEF SetCallback, IInv, AuthTypeOK
      <4>2. \A i \in 1..Len(stack[t]) :
               stack[t][i].kind # k /\ stack[t][i].kind \in Kinds \union {None}
        <5>1. ~ Borrowed(t, k)
          BY <1>2 DEF SetCallback
        <5>2. \A i \in 1..Len(stack[t]) : stack[t][i] \in Calls
          BY <1>t
        <5> QED  BY <5>1, <5>2 DEF Borrowed, Calls
      <4> QED  BY <3>1, <3>3, <4>1, <4>2 DEF Good, CallStored
    <3> QED  BY <3>2, <3>3
  <2> QED  BY <2>1, <2>2, <2>3 DEF IInv, AllGood
<1>3. ASSUME NEW k \in Kinds, Get(t, k)  PROVE IInv'
  <2> DEFINE call == Call("getter", k, slot[t][k])
  <2>1. call \in Calls
    BY <1>t, <1>c
  <2>2. CallStored(call, slot[t]) /\ call.password = None
    BY <1>3 DEF Get, Call, CallStored
  <2> QED  BY <1>3, <2>1, <2>2, PushStep DEF Get
<1>4. ASSUME GetReturns(t) \/ MonitorReturns(t) \/ RequestReturns(t)  PROVE IInv'
  BY <1>4, PopStep DEF GetReturns, MonitorReturns, RequestReturns, Libcups, Waiting
<1>5. ASSUME Request(t) \/ Monitor(t)  PROVE IInv'
  <2>1. PICK c \in {"request", "monitor"} : Push(t, Call(c, None, None))
    BY <1>5 DEF Request, Monitor
  <2>2. Call(c, None, None) \in Calls
    BY <1>c
  <2>3. CallStored(Call(c, None, None), slot[t]) /\ Call(c, None, None).password = None
    BY DEF Call, CallStored
  <2> QED  BY <1>5, <2>1, <2>2, <2>3, PushStep DEF Request, Monitor
<1>6. ASSUME Prompt(t)  PROVE IInv'
  <2> DEFINE call == Call("prompt", "password", slot[t]["password"])
  <2>1. call \in Calls
    BY <1>t, <1>c, KindsAssumption DEF KindsAssumption
  <2>2. CallStored(call, slot[t]) /\ call.password = None
    BY <1>6 DEF Prompt, Call, CallStored
  <2> QED  BY <1>6, <2>1, <2>2, PushStep DEF Prompt
<1>7. ASSUME NEW s \in Strings \union {None}, Answer(t, s)  PROVE IInv'
  <2>1. given' = given \union ({s} \ {None}) /\ stack[t] # <<>>
    BY <1>7 DEF Answer
  <2>2. Answered(stack[t], s) \in Seq(Calls) /\ Good(Answered(stack[t], s), slot[t], given')
    BY <1>t, <2>1, GoodAnswered
  <2>3. given' \subseteq Strings /\ given \subseteq given'
    BY <2>1 DEF IInv, AuthTypeOK
  <2> QED  BY <1>7, <2>2, <2>3, StackStep DEF Answer
<1>8. ASSUME NEW n \in 0..MaxCalls, Unwind(t, n)  PROVE IInv'
  <2>1. n \in Nat /\ n <= Len(stack[t])
    BY <1>8, <1>t, LenProperties, BoundAssumption DEF Unwind, BoundAssumption
  <2>2. SubSeq(stack[t], 1, n) \in Seq(Calls) /\ Good(SubSeq(stack[t], 1, n), slot[t], given)
    BY <1>t, <2>1, CutCalls, GoodCut
  <2>3. given' \subseteq Strings /\ given' = given
    BY <1>8 DEF Unwind, IInv, AuthTypeOK
  <2> QED  BY <1>8, <2>2, <2>3, StackStep DEF Unwind
<1>9. ASSUME Abort(t)  PROVE IInv'
  BY <1>9 DEF Abort, IInv, AuthTypeOK, RegisteredIffStored, AllGood, Good
<1> QED  BY <1>2, <1>3, <1>4, <1>5, <1>6, <1>7, <1>8, <1>9

LEMMA Invariant == AuthSpec => []IInv
  BY InitInv, StepInv, PTL DEF AuthSpec

\* Every variable has its type.
THEOREM AuthTypeCorrect == AuthSpec => []AuthTypeOK
<1>1. IInv => AuthTypeOK
  BY DEF IInv
<1> QED  BY <1>1, Invariant, PTL

\* A prompt of libcups reaches a closure exactly when one is set, after any order of setting,
\* removing and asking (auth.rs:80-103).
THEOREM RegisteredWithLibcups == AuthSpec => []RegisteredIffStored
<1>1. IInv => RegisteredIffStored
  BY DEF IInv
<1> QED  BY <1>1, Invariant, PTL

\* No running closure is dropped or replaced, however calls of closures and of libcups are
\* within each other, and whatever panics (auth.rs:83-85, 190-197, 319-326).
THEOREM ClosureStaysStored == AuthSpec => []RunningIsStored
<1>1. IInv => RunningIsStored
  BY DEF IInv, AllGood, Good, CallStored, RunningIsStored
<1> QED  BY <1>1, Invariant, PTL

\* No password is freed under a request (auth.rs:331-334).
THEOREM NoPasswordFreed == AuthSpec => []PasswordsKept
<1>1. IInv => PasswordsKept
  BY DEF IInv, AllGood, Good, CallKept, PasswordsKept
<1> QED  BY <1>1, Invariant, PTL
=============================================================================
