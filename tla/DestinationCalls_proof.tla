----------------------- MODULE DestinationCalls_proof -----------------------
(***************************************************************************)
(* For any number of threads, pointers and calls within each other: the    *)
(* calls of a Destination are calls of AuthCallbacks, and the memory in    *)
(* use is what exactly one call or value will free.                        *)
(***************************************************************************)
EXTENDS DestinationCalls, AuthCallbacks_proof

-----------------------------------------------------------------------------
\* What this module adds to a call leaves the closures to AuthCallbacks.
LEMMA CallsStep == [Next]_vars => [AuthNext]_auth_vars
<1> SUFFICES ASSUME [Next]_vars  PROVE [AuthNext]_auth_vars
  OBVIOUS
<1>1. CASE UNCHANGED vars
  BY <1>1 DEF vars
<1>2. ASSUME NEW t \in Threads, Enters(t) \/ Leaves(t) \/ Panics(t) \/ Sets(t)
      PROVE  AuthNext
  <2>1. CASE Enters(t)
    BY <2>1 DEF Enters, AuthNext
  <2>2. CASE Leaves(t)
    BY <2>2 DEF Leaves, AuthNext
  <2>3. CASE Panics(t)
    BY <2>3 DEF Panics, AuthNext
  <2>4. CASE Sets(t)
    BY <2>4 DEF Sets, AuthNext
  <2> QED  BY <1>2, <2>1, <2>2, <2>3, <2>4
<1>3. ASSUME NEW t \in Threads, NEW p, NEW q, NEW of, NEW info,
             \/ AskInfo(t, of, p, q) \/ Connect(t, p, q)
             \/ InfoReturns(t, p) \/ SupportedReturns(t) \/ ConnectReturns(t)
      PROVE  AuthNext
  BY <1>3 DEF AskInfo, Connect, InfoReturns, SupportedReturns, ConnectReturns, AuthNext
<1>4. ASSUME NEW t \in Threads, NEW p, NEW q, NEW info,
             \/ AskInfoFails(t, p) \/ Reallocate(t, p) \/ DropInfo(t, p)
             \/ CheckConflicts(t, p) \/ CheckSupported(t, info, p, q)
      PROVE  UNCHANGED auth_vars
  BY <1>4 DEF AskInfoFails, Reallocate, DropInfo, CheckConflicts, CheckSupported
<1> QED  BY <1>1, <1>2, <1>3, <1>4 DEF Next

\* All a Destination's calls do, closures may meet in AuthCallbacks (auth.rs,
\* destination/mod.rs:173-329, connection.rs:242-438).
THEOREM CallsImplementCallbacks == Spec => AuthSpec
<1>1. Init => AuthInit
  BY DEF Init
<1> QED  BY <1>1, CallsStep, PTL DEF Spec, AuthSpec

\* So a closure that runs within such a call, and those within it, stays stored.
THEOREM ClosureStaysStoredInCalls == Spec => []RunningIsStored
  BY CallsImplementCallbacks, ClosureStaysStored, PTL

\* And libcups asks the closure that is set.
THEOREM RegisteredInCalls == Spec => []RegisteredIffStored
  BY CallsImplementCallbacks, RegisteredWithLibcups, PTL

\* And no password of theirs is freed.
THEOREM PasswordsKeptInCalls == Spec => []PasswordsKept
  BY CallsImplementCallbacks, NoPasswordFreed, PTL

-----------------------------------------------------------------------------
\* Who has to free what: a function of a thread and 0, for its DestinationInfo values, or
\* the number of one of its calls.
Places == Threads \X Nat
Contents(locals) == {locals.name, locals.options, locals.info} \ {NULL}
OwnerOf(ts, is) ==
    [x \in Places |-> IF x[2] = 0 THEN is[x[1]]
                      ELSE IF x[2] <= Len(ts[x[1]]) THEN Contents(ts[x[1]][x[2]])
                      ELSE {}]

\* HeapOwned, pointer by pointer.
Owns(h, l, f) ==
    /\ \A p : p \in h <=> p \in l \/ \E x \in Places : p \in f[x]
    /\ \A x \in Places : \A p : p \in f[x] => p \notin l
    /\ \A x, y \in Places : \A p : p \in f[x] /\ p \in f[y] => x = y

\* One owner gives back what it has and takes what nobody else has.
LEMMA OwnsChanged ==
    ASSUME NEW h, NEW l, NEW f, NEW x \in Places, NEW N, DOMAIN f = Places,
           Owns(h, l, f), \A p \in N : p \in h => p \in f[x]
    PROVE  Owns((h \ f[x]) \union N, l, [f EXCEPT ![x] = N])
<1> DEFINE g == [f EXCEPT ![x] = N]
<1>1. g[x] = N /\ \A y \in Places : y # x => g[y] = f[y]
  OBVIOUS
<1> HIDE DEF g
<1>2. ASSUME NEW p
      PROVE  p \in (h \ f[x]) \union N <=> p \in l \/ \E y \in Places : p \in g[y]
  BY <1>1 DEF Owns
<1>3. ASSUME NEW y \in Places, NEW p, p \in g[y]  PROVE p \notin l
  BY <1>1, <1>3 DEF Owns
<1>4. ASSUME NEW y \in Places, NEW z \in Places, NEW p, p \in g[y], p \in g[z]
      PROVE  y = z
  BY <1>1, <1>4 DEF Owns
<1> QED  BY <1>2, <1>3, <1>4 DEF Owns, g

LEMMA OwnsLost ==
    ASSUME NEW h, NEW l, NEW f, NEW N, Owns(h, l, f), \A p \in N : p \notin h
    PROVE  Owns(h \union N, l \union N, f)
  BY DEF Owns

-----------------------------------------------------------------------------
\* What entering, leaving and changing a call does to it.
LEMMA OwnerNext ==
    ASSUME NEW S, NEW ts \in [Threads -> Seq(S)], NEW is, NEW t \in Threads
    PROVE  /\ <<t, Len(ts[t]) + 1>> \in Places
           /\ OwnerOf(ts, is)[<<t, Len(ts[t]) + 1>>] = {}
<1>1. Len(ts[t]) \in Nat /\ Len(ts[t]) + 1 \in Nat /\ Len(ts[t]) + 1 # 0
      /\ ~ Len(ts[t]) + 1 <= Len(ts[t])
  BY LenProperties
<1>2. <<t, Len(ts[t]) + 1>> \in Places
  BY <1>1 DEF Places
<1> QED  BY <1>1, <1>2 DEF OwnerOf

LEMMA OwnerEnter ==
    ASSUME temps \in [Threads -> Seq(Locals)], NEW t \in Threads, NEW c \in Locals
    PROVE  OwnerOf([temps EXCEPT ![t] = Append(temps[t], c)], infos) =
              [OwnerOf(temps, infos) EXCEPT ![<<t, Len(temps[t]) + 1>>] = Contents(c)]
<1> DEFINE n == Len(temps[t])
           more == [temps EXCEPT ![t] = Append(temps[t], c)]
<1>1. n \in Nat /\ <<t, n + 1>> \in Places
  BY LenProperties DEF Places
<1>2. /\ Len(more[t]) = n + 1 /\ more[t][n + 1] = c
      /\ \A i \in 1..n : more[t][i] = temps[t][i]
      /\ \A u \in Threads : u # t => more[u] = temps[u]
  BY AppendProperties
<1> HIDE DEF n, more
<1>3. ASSUME NEW x \in Places
      PROVE  OwnerOf(more, infos)[x] = IF x = <<t, n + 1>> THEN Contents(c) ELSE OwnerOf(temps, infos)[x]
  <2>1. PICK u \in Threads, i \in Nat : x = <<u, i>>
    BY DEF Places
  <2>2. CASE u # t
    BY <1>2, <2>1, <2>2 DEF OwnerOf
  <2>3. CASE u = t /\ i = n + 1
    BY <1>1, <1>2, <2>1, <2>3 DEF OwnerOf
  <2>4. CASE u = t /\ i # n + 1
    <3>1. CASE i = 0
      BY <1>1, <2>1, <2>4, <3>1 DEF OwnerOf
    <3>2. CASE i \in 1..n
      BY <1>1, <1>2, <2>1, <2>4, <3>2 DEF OwnerOf, n
    <3>3. CASE i > n + 1
      BY <1>1, <1>2, <2>1, <2>4, <3>3 DEF OwnerOf, n
    <3> QED  BY <1>1, <2>4, <3>1, <3>2, <3>3
  <2> QED  BY <2>2, <2>3, <2>4
<1>5. OwnerOf(more, infos) = [OwnerOf(temps, infos) EXCEPT ![<<t, n + 1>>] = Contents(c)]
  BY <1>1, <1>3 DEF OwnerOf
<1> QED  BY <1>5 DEF n, more

LEMMA OwnerLeave ==
    ASSUME NEW S, NEW ts \in [Threads -> Seq(S)], NEW is, NEW t \in Threads, ts[t] # <<>>
    PROVE  /\ <<t, Len(ts[t])>> \in Places
           /\ OwnerOf(ts, is)[<<t, Len(ts[t])>>] = Contents(Top(ts[t]))
           /\ OwnerOf([ts EXCEPT ![t] = Pop(@)], is) =
                 [OwnerOf(ts, is) EXCEPT ![<<t, Len(ts[t])>>] = {}]
<1> DEFINE n == Len(ts[t])
           less == [ts EXCEPT ![t] = Pop(@)]
<1>1. n \in Nat /\ n >= 1 /\ <<t, n>> \in Places
  BY PopCalls DEF Places
<1>2. /\ Len(less[t]) = n - 1
      /\ \A i \in 1..n - 1 : less[t][i] = ts[t][i]
      /\ \A u \in Threads : u # t => less[u] = ts[u]
  BY PopCalls
<1>3. OwnerOf(ts, is)[<<t, n>>] = Contents(Top(ts[t]))
  BY <1>1 DEF OwnerOf, Top
<1> HIDE DEF n, less
<1>4. ASSUME NEW x \in Places
      PROVE  OwnerOf(less, is)[x] = IF x = <<t, n>> THEN {} ELSE OwnerOf(ts, is)[x]
  <2>1. PICK u \in Threads, i \in Nat : x = <<u, i>>
    BY DEF Places
  <2>2. CASE u # t
    BY <1>2, <2>1, <2>2 DEF OwnerOf
  <2>3. CASE u = t /\ i = n
    BY <1>1, <1>2, <2>1, <2>3 DEF OwnerOf
  <2>4. CASE u = t /\ i # n
    <3>1. CASE i = 0
      BY <1>1, <2>1, <2>4, <3>1 DEF OwnerOf
    <3>2. CASE i \in 1..n - 1
      BY <1>1, <1>2, <2>1, <2>4, <3>2 DEF OwnerOf, n
    <3>3. CASE i > n
      BY <1>1, <1>2, <2>1, <2>4, <3>3 DEF OwnerOf, n
    <3> QED  BY <1>1, <2>4, <3>1, <3>2, <3>3
  <2> QED  BY <2>2, <2>3, <2>4
<1>5. OwnerOf(less, is) = [OwnerOf(ts, is) EXCEPT ![<<t, n>>] = {}]
  BY <1>1, <1>4 DEF OwnerOf
<1> QED  BY <1>1, <1>3, <1>5 DEF n, less

LEMMA OwnerChange ==
    ASSUME temps \in [Threads -> Seq(Locals)], NEW t \in Threads, temps[t] # <<>>,
           NEW c \in Locals
    PROVE  OwnerOf([temps EXCEPT ![t][Len(temps[t])] = c], infos) =
              [OwnerOf(temps, infos) EXCEPT ![<<t, Len(temps[t])>>] = Contents(c)]
<1> DEFINE n == Len(temps[t])
           new == [temps EXCEPT ![t][n] = c]
<1>1. n \in Nat /\ n >= 1 /\ <<t, n>> \in Places /\ n \in 1..Len(temps[t])
  BY PopCalls DEF Places
<1>2. /\ Len(new[t]) = n /\ new[t][n] = c
      /\ \A i \in 1..n : i # n => new[t][i] = temps[t][i]
      /\ \A u \in Threads : u # t => new[u] = temps[u]
  BY <1>1, ExceptSeq
<1> HIDE DEF n, new
<1>4. ASSUME NEW x \in Places
      PROVE  OwnerOf(new, infos)[x] = IF x = <<t, n>> THEN Contents(c) ELSE OwnerOf(temps, infos)[x]
  <2>1. PICK u \in Threads, i \in Nat : x = <<u, i>>
    BY DEF Places
  <2>2. CASE u # t
    BY <1>2, <2>1, <2>2 DEF OwnerOf
  <2>3. CASE u = t /\ i = n
    BY <1>1, <1>2, <2>1, <2>3 DEF OwnerOf
  <2>4. CASE u = t /\ i # n
    BY <1>1, <1>2, <2>1, <2>4 DEF OwnerOf, n
  <2> QED  BY <2>2, <2>3, <2>4
<1>5. OwnerOf(new, infos) = [OwnerOf(temps, infos) EXCEPT ![<<t, n>>] = Contents(c)]
  BY <1>1, <1>4 DEF OwnerOf
<1> QED  BY <1>5 DEF n, new

LEMMA OwnerInfos ==
    ASSUME infos \in [Threads -> SUBSET Pointers], NEW t \in Threads, NEW I, NEW ts
    PROVE  /\ <<t, 0>> \in Places /\ OwnerOf(ts, infos)[<<t, 0>>] = infos[t]
           /\ OwnerOf(ts, [infos EXCEPT ![t] = I]) = [OwnerOf(ts, infos) EXCEPT ![<<t, 0>>] = I]
<1>1. <<t, 0>> \in Places
  BY DEF Places
<1> DEFINE new == [infos EXCEPT ![t] = I]
<1>2. new[t] = I /\ \A u \in Threads : u # t => new[u] = infos[u]
  OBVIOUS
<1> HIDE DEF new
<1>3. ASSUME NEW x \in Places
      PROVE  OwnerOf(ts, new)[x] = IF x = <<t, 0>> THEN I ELSE OwnerOf(ts, infos)[x]
  <2>1. PICK u \in Threads, i \in Nat : x = <<u, i>>
    BY DEF Places
  <2> QED  BY <1>2, <2>1 DEF OwnerOf
<1>4. OwnerOf(ts, new) = [OwnerOf(ts, infos) EXCEPT ![<<t, 0>>] = I]
  BY <1>1, <1>3 DEF OwnerOf
<1> QED  BY <1>1, <1>4 DEF OwnerOf, new

-----------------------------------------------------------------------------
\* A call's pointers differ, and only calls of libcups that get them have any.
Separate(c) ==
    /\ c.options # NULL => c.options # c.name /\ c.options # c.info
    /\ c.name # NULL => c.name # c.info
Fits(c, call) ==
    /\ Separate(c)
    /\ call.call # "request" \/ c.of \in {"connect", "other"} => Contents(c) = {}
Aligned(locals, calls) ==
    /\ Len(locals) = Len(calls)
    /\ \A i \in 1..Len(calls) : Fits(locals[i], calls[i])

LEMMA AlignedPush ==
    ASSUME NEW S, NEW R, NEW locals \in Seq(S), NEW calls \in Seq(R),
           NEW c \in S, NEW call \in R, Aligned(locals, calls), Fits(c, call)
    PROVE  Aligned(Append(locals, c), Append(calls, call))
<1>1. Len(locals) = Len(calls) /\ Len(calls) \in Nat
  BY LenProperties DEF Aligned
<1>2. /\ Len(Append(locals, c)) = Len(calls) + 1 /\ Append(locals, c)[Len(calls) + 1] = c
      /\ \A i \in 1..Len(calls) : Append(locals, c)[i] = locals[i]
  BY <1>1, AppendProperties
<1>3. /\ Len(Append(calls, call)) = Len(calls) + 1
      /\ Append(calls, call)[Len(calls) + 1] = call
      /\ \A i \in 1..Len(calls) : Append(calls, call)[i] = calls[i]
  BY <1>1, AppendProperties
<1>4. ASSUME NEW i \in 1..Len(calls) + 1
      PROVE  Fits(Append(locals, c)[i], Append(calls, call)[i])
  <2>1. CASE i = Len(calls) + 1
    BY <1>2, <1>3, <2>1
  <2>2. CASE i \in 1..Len(calls)
    BY <1>2, <1>3, <2>2 DEF Aligned
  <2> QED  BY <1>1, <2>1, <2>2
<1> QED  BY <1>2, <1>3, <1>4 DEF Aligned

LEMMA AlignedCut ==
    ASSUME NEW S, NEW R, NEW locals \in Seq(S), NEW calls \in Seq(R),
           NEW n \in Nat, n <= Len(calls), Aligned(locals, calls)
    PROVE  Aligned(SubSeq(locals, 1, n), SubSeq(calls, 1, n))
<1>1. Len(locals) = Len(calls) /\ Len(calls) \in Nat
  BY LenProperties DEF Aligned
<1>2. /\ Len(SubSeq(locals, 1, n)) = n /\ Len(SubSeq(calls, 1, n)) = n
      /\ \A i \in 1..n : SubSeq(locals, 1, n)[i] = locals[i] /\ SubSeq(calls, 1, n)[i] = calls[i]
  BY <1>1, CutCalls
<1> QED  BY <1>1, <1>2 DEF Aligned

\* A call returns; the one below it may have a password now.
LEMMA AlignedPop ==
    ASSUME NEW S, NEW R, NEW locals \in Seq(S), NEW calls \in Seq(R), calls # <<>>,
           Aligned(locals, calls)
    PROVE  Aligned(Pop(locals), Pop(calls))
<1> DEFINE n == Len(calls) - 1
<1>1. Len(locals) = Len(calls) /\ Len(calls) \in Nat /\ n \in Nat /\ n <= Len(calls)
  BY PopCalls DEF Aligned
<1>2. Pop(locals) = SubSeq(locals, 1, n) /\ Pop(calls) = SubSeq(calls, 1, n)
  BY <1>1 DEF Pop
<1> HIDE DEF n
<1> QED  BY <1>1, <1>2, AlignedCut

LEMMA AlignedAnswered ==
    ASSUME NEW S, NEW locals \in Seq(S), NEW calls \in Seq(Calls), calls # <<>>, NEW s,
           Aligned(locals, calls)
    PROVE  Aligned(Pop(locals), Answered(calls, s))
<1> DEFINE p == Pop(calls)
           j == Len(calls) - 1
           after == Answered(calls, s)
<1>1. p \in Seq(Calls) /\ Len(p) \in Nat /\ Aligned(Pop(locals), p)
  BY PopCalls, LenProperties, AlignedPop
<1>2. after = [p EXCEPT ![j] = [@ EXCEPT !.password = s]]
  BY DEF Answered
<1> HIDE DEF p, j, after
<1>3. p \in [1..Len(p) -> Calls] /\ DOMAIN p = 1..Len(p)
  BY <1>1, LenProperties
<1> DEFINE g == [i \in 1..Len(p) |-> IF i = j THEN [p[i] EXCEPT !.password = s] ELSE p[i]]
<1>4. after = g /\ Len(g) = Len(p)
  <2>1. after = g
    BY <1>2, <1>3
  <2>2. \A i \in 1..Len(p) : p[i] \in Calls /\ g[i] = g[i]
    BY <1>3
  <2>3. Len(g) = Len(p)
    BY <1>1
  <2> QED  BY <2>1, <2>3
<1>5. ASSUME NEW i \in 1..Len(p)  PROVE after[i].call = p[i].call
  BY <1>3, <1>4 DEF Calls
<1> QED  BY <1>1, <1>4, <1>5 DEF Aligned, Fits, after

LEMMA AlignedChange ==
    ASSUME NEW S, NEW R, NEW locals \in Seq(S), NEW calls \in Seq(R), calls # <<>>, NEW c \in S,
           Aligned(locals, calls), Fits(c, Top(calls))
    PROVE  Aligned([locals EXCEPT ![Len(locals)] = c], calls)
<1>1. Len(locals) = Len(calls) /\ Len(calls) \in Nat /\ Len(calls) >= 1
  BY PopCalls DEF Aligned
<1>2. /\ Len([locals EXCEPT ![Len(locals)] = c]) = Len(calls)
      /\ \A i \in 1..Len(calls) : [locals EXCEPT ![Len(locals)] = c][i] =
            IF i = Len(calls) THEN c ELSE locals[i]
  BY <1>1, ExceptSeq
<1> QED  BY <1>1, <1>2 DEF Aligned, Top

-----------------------------------------------------------------------------
CallsInv ==
    /\ IInv
    /\ TypeOK
    /\ \A t \in Threads : Aligned(temps[t], stack[t])
    /\ Owns(heap, lost, OwnerOf(temps, infos))

LEMMA LocalsType ==
    ASSUME NEW of \in {"info", "supported", "check", "connect", "other"},
           NEW name \in Pointers \union {NULL}, NEW options \in Pointers \union {NULL},
           NEW info \in Pointers \union {NULL}
    PROVE  /\ Temps(of, name, options, info) \in Locals
           /\ Contents(Temps(of, name, options, info)) = {name, options, info} \ {NULL}
  BY DEF Temps, Locals, Contents

LEMMA NoTempsType ==
    /\ NoTemps \in Locals /\ Contents(NoTemps) = {} /\ \A call : Fits(NoTemps, call)
<1>1. NoTemps \in Locals /\ Contents(NoTemps) = {}
  BY LocalsType DEF NoTemps
<1> QED  BY <1>1 DEF NoTemps, Temps, Fits, Separate

LEMMA CallsInit == Init => CallsInv
<1> SUFFICES ASSUME Init  PROVE CallsInv
  OBVIOUS
<1>1. IInv
  BY InitInv DEF Init
<1>2. temps \in [Threads -> Seq(Locals)] /\ \A t \in Threads : Len(temps[t]) = 0
  BY DEF Init
<1>3. TypeOK
  BY <1>1, <1>2 DEF Init, TypeOK, IInv
<1>4. ASSUME NEW t \in Threads  PROVE Aligned(temps[t], stack[t])
  BY <1>2 DEF Init, AuthInit, Aligned
<1>5. \A x \in Places : OwnerOf(temps, infos)[x] = {}
  <2> SUFFICES ASSUME NEW x \in Places  PROVE OwnerOf(temps, infos)[x] = {}
    OBVIOUS
  <2>1. PICK u \in Threads, i \in Nat : x = <<u, i>>
    BY DEF Places
  <2> QED  BY <1>2, <2>1 DEF OwnerOf, Init
<1>6. Owns(heap, lost, OwnerOf(temps, infos))
  BY <1>5 DEF Init, Owns
<1> QED  BY <1>1, <1>3, <1>4, <1>6 DEF CallsInv

\* A step of thread t.
LEMMA ThreadStep ==
    ASSUME CallsInv, IInv', NEW t \in Threads, NEW locals \in Seq(Locals), NEW calls,
           temps' = [temps EXCEPT ![t] = locals], stack' = [stack EXCEPT ![t] = calls],
           Aligned(locals, calls),
           heap' \subseteq Pointers, lost' \subseteq Pointers,
           infos' \in [Threads -> SUBSET Pointers],
           Owns(heap', lost', OwnerOf(temps', infos'))
    PROVE  CallsInv'
<1>1. temps \in [Threads -> Seq(Locals)] /\ stack \in [Threads -> Seq(Calls)]
  BY DEF CallsInv, TypeOK, AuthTypeOK
<1>2. TypeOK'
  BY <1>1 DEF TypeOK, IInv
<1>3. ASSUME NEW u \in Threads  PROVE Aligned(temps'[u], stack'[u])
  BY <1>1 DEF CallsInv
<1> QED  BY <1>2, <1>3 DEF CallsInv

\* A call is entered that has fresh pointers of its own, if any.
LEMMA EnterStep ==
    ASSUME CallsInv, IInv', NEW t \in Threads, NEW call \in Calls, Push(t, call),
           NEW c \in Locals, Enter(t, c), Fits(c, call),
           \A p \in Contents(c) : p \notin heap /\ p \in Pointers,
           heap' = heap \union Contents(c),
           UNCHANGED <<infos, lost>>
    PROVE  CallsInv'
<1>1. /\ temps \in [Threads -> Seq(Locals)] /\ stack[t] \in Seq(Calls)
      /\ Aligned(temps[t], stack[t]) /\ heap \subseteq Pointers /\ lost \subseteq Pointers
      /\ infos \in [Threads -> SUBSET Pointers] /\ Owns(heap, lost, OwnerOf(temps, infos))
  BY DEF CallsInv, TypeOK, AuthTypeOK
<1>2. Append(temps[t], c) \in Seq(Locals)
  BY <1>1, AppendProperties
<1>3. Aligned(Append(temps[t], c), Append(stack[t], call))
  BY <1>1, AlignedPush
<1>4. temps' = [temps EXCEPT ![t] = Append(@, c)]
  BY DEF Enter
<1> DEFINE f == OwnerOf(temps, infos)
           x == <<t, Len(temps[t]) + 1>>
<1>5. x \in Places /\ f[x] = {} /\ OwnerOf(temps', infos') = [f EXCEPT ![x] = Contents(c)]
  <2>1. OwnerOf(temps', infos') = OwnerOf([temps EXCEPT ![t] = Append(temps[t], c)], infos)
    BY <1>4
  <2>2. x \in Places /\ f[x] = {}
    BY <1>1, OwnerNext
  <2>3. OwnerOf([temps EXCEPT ![t] = Append(temps[t], c)], infos) = [f EXCEPT ![x] = Contents(c)]
    BY <1>1, OwnerEnter
  <2> QED  BY <2>1, <2>2, <2>3
<1>6. DOMAIN f = Places
  BY DEF OwnerOf
<1> HIDE DEF f, x
<1>7. Owns((heap \ f[x]) \union Contents(c), lost, [f EXCEPT ![x] = Contents(c)])
  BY <1>1, <1>5, <1>6, OwnsChanged DEF f
<1>8. (heap \ f[x]) \union Contents(c) = heap'
  BY <1>5
<1>9. Owns(heap', lost', OwnerOf(temps', infos'))
  BY <1>5, <1>7, <1>8
<1> QED  BY <1>1, <1>2, <1>3, <1>4, <1>9, ThreadStep DEF Push

\* A call is left, and what it has is freed.
LEMMA LeaveStep ==
    ASSUME CallsInv, IInv', NEW t \in Threads, stack[t] # <<>>, NEW calls,
           stack' = [stack EXCEPT ![t] = calls], Aligned(Pop(temps[t]), calls),
           Leave(t), heap' = heap \ Contents(Last(t)),
           UNCHANGED <<infos, lost>>
    PROVE  CallsInv'
<1>1. /\ temps \in [Threads -> Seq(Locals)] /\ stack[t] \in Seq(Calls)
      /\ Aligned(temps[t], stack[t]) /\ heap \subseteq Pointers /\ lost \subseteq Pointers
      /\ infos \in [Threads -> SUBSET Pointers] /\ Owns(heap, lost, OwnerOf(temps, infos))
  BY DEF CallsInv, TypeOK, AuthTypeOK
<1>2. temps[t] # <<>>
  BY <1>1, EmptySeq DEF Aligned
<1>3. Pop(temps[t]) \in Seq(Locals) /\ temps' = [temps EXCEPT ![t] = Pop(@)]
  BY <1>1, <1>2, PopCalls DEF Leave
<1> DEFINE f == OwnerOf(temps, infos)
           x == <<t, Len(temps[t])>>
<1>5. x \in Places /\ f[x] = Contents(Last(t)) /\ OwnerOf(temps', infos') = [f EXCEPT ![x] = {}]
  <2>1. OwnerOf(temps', infos') = OwnerOf([temps EXCEPT ![t] = Pop(@)], infos)
    BY <1>3
  <2>2. Last(t) = Top(temps[t])
    BY DEF Last, Top
  <2>3. /\ <<t, Len(temps[t])>> \in Places
        /\ OwnerOf(temps, infos)[<<t, Len(temps[t])>>] = Contents(Top(temps[t]))
        /\ OwnerOf([temps EXCEPT ![t] = Pop(@)], infos) =
              [OwnerOf(temps, infos) EXCEPT ![<<t, Len(temps[t])>>] = {}]
    BY <1>1, <1>2, OwnerLeave
  <2> QED  BY <2>1, <2>2, <2>3
<1>6. DOMAIN f = Places
  BY DEF OwnerOf
<1> HIDE DEF f, x
<1>7. Owns((heap \ f[x]) \union {}, lost, [f EXCEPT ![x] = {}])
  BY <1>1, <1>5, <1>6, OwnsChanged DEF f
<1>8. (heap \ f[x]) \union {} = heap'
  BY <1>5
<1>9. Owns(heap', lost', OwnerOf(temps', infos'))
  BY <1>5, <1>7, <1>8
<1> QED  BY <1>1, <1>3, <1>9, ThreadStep

-----------------------------------------------------------------------------
\* What the invariant says of the innermost call.
LEMMA TopFits ==
    ASSUME CallsInv, NEW t \in Threads, stack[t] # <<>>
    PROVE  /\ temps[t] # <<>> /\ Last(t) \in Locals /\ Fits(Last(t), Top(stack[t]))
           /\ Top(stack[t]) \in Calls
<1>1. /\ temps[t] \in Seq(Locals) /\ stack[t] \in Seq(Calls) /\ Aligned(temps[t], stack[t])
  BY DEF CallsInv, TypeOK, AuthTypeOK
<1>2. Len(stack[t]) \in Nat /\ Len(stack[t]) >= 1
  BY <1>1, PopCalls
<1>3. Len(temps[t]) = Len(stack[t]) /\ Len(stack[t]) \in 1..Len(stack[t])
  BY <1>1, <1>2 DEF Aligned
<1>4. temps[t] # <<>>
  BY <1>2, <1>3
<1>5. Last(t) \in Locals /\ Top(stack[t]) \in Calls
  BY <1>1, <1>3, ElementOfSeq DEF Last, Top
<1>6. Fits(Last(t), Top(stack[t]))
  BY <1>1, <1>3 DEF Aligned, Last, Top
<1> QED  BY <1>4, <1>5, <1>6

LEMMA TopOwner ==
    ASSUME CallsInv, NEW t \in Threads, stack[t] # <<>>
    PROVE  /\ <<t, Len(temps[t])>> \in Places
           /\ OwnerOf(temps, infos)[<<t, Len(temps[t])>>] = Contents(Last(t))
<1>1. temps[t] \in Seq(Locals) /\ temps[t] # <<>>
  BY TopFits DEF CallsInv, TypeOK
<1>2. Len(temps[t]) \in Nat /\ Len(temps[t]) # 0 /\ Len(temps[t]) <= Len(temps[t])
  BY <1>1, EmptySeq, LenProperties
<1>3. <<t, Len(temps[t])>> \in Places
  BY <1>2 DEF Places
<1> QED  BY <1>2, <1>3 DEF OwnerOf, Last

\* A call that has nothing is left.
LEMMA LeaveEmpty ==
    ASSUME CallsInv, IInv', NEW t \in Threads, stack[t] # <<>>, NEW calls,
           stack' = [stack EXCEPT ![t] = calls], Aligned(Pop(temps[t]), calls),
           Leave(t), Contents(Last(t)) = {}, UNCHANGED <<heap, infos, lost>>
    PROVE  CallsInv'
<1>1. heap' = heap \ Contents(Last(t))
  OBVIOUS
<1> QED  BY <1>1, LeaveStep

LEMMA PoppedAligned ==
    ASSUME CallsInv, NEW t \in Threads, stack[t] # <<>>
    PROVE  /\ Aligned(Pop(temps[t]), Pop(stack[t]))
           /\ \A s : Aligned(Pop(temps[t]), Answered(stack[t], s))
<1>1. /\ temps[t] \in Seq(Locals) /\ stack[t] \in Seq(Calls) /\ Aligned(temps[t], stack[t])
  BY DEF CallsInv, TypeOK, AuthTypeOK
<1> QED  BY <1>1, AlignedPop, AlignedAnswered

LEMMA EntersInv ==
    ASSUME CallsInv, IInv', NEW t \in Threads, Enters(t)
    PROVE  CallsInv'
<1>1. PICK call \in Calls : Push(t, call)
  <2>1. ASSUME NEW k \in Kinds, Get(t, k)
        PROVE  \E call \in Calls : Push(t, call)
    <3>1. slot[t][k] \in Callbacks
      BY <2>1 DEF CallsInv, IInv, AuthTypeOK, Get
    <3>2. Call("getter", k, slot[t][k]) \in Calls
      BY <3>1 DEF Call, Calls
    <3> QED  BY <2>1, <3>2 DEF Get
  <2>2. CASE Request(t)
    BY <2>2 DEF Request, Call, Calls
  <2>3. ASSUME Prompt(t)
        PROVE  \E call \in Calls : Push(t, call)
    <3>1. slot[t]["password"] \in Callbacks /\ "password" \in Kinds
      BY <2>3, KindsAssumption DEF CallsInv, IInv, AuthTypeOK, Prompt, KindsAssumption
    <3>2. Call("prompt", "password", slot[t]["password"]) \in Calls
      BY <3>1 DEF Call, Calls
    <3> QED  BY <2>3, <3>2 DEF Prompt
  <2>4. CASE Monitor(t)
    BY <2>4 DEF Monitor, Call, Calls
  <2> QED  BY <2>1, <2>2, <2>3, <2>4 DEF Enters
<1>2. NoTemps \in Locals /\ Contents(NoTemps) = {} /\ Fits(NoTemps, call)
  BY NoTempsType
<1>3. Enter(t, NoTemps) /\ heap' = heap \union Contents(NoTemps) /\ UNCHANGED <<infos, lost>>
  BY <1>2 DEF Enters
<1> QED  BY <1>1, <1>2, <1>3, EnterStep

LEMMA LeavesInv ==
    ASSUME CallsInv, IInv', NEW t \in Threads, Leaves(t)
    PROVE  CallsInv'
<1>1. Leave(t) /\ UNCHANGED <<heap, infos, lost>>
  BY DEF Leaves
<1>2. CASE GetReturns(t) \/ MonitorReturns(t)
  <2>1. /\ stack[t] # <<>> /\ Top(stack[t]).call # "request"
        /\ stack' = [stack EXCEPT ![t] = Pop(stack[t])]
    BY <1>2 DEF GetReturns, MonitorReturns
  <2>2. Contents(Last(t)) = {}
    BY <2>1, TopFits DEF Fits
  <2> QED  BY <1>1, <2>1, <2>2, PoppedAligned, LeaveEmpty
<1>3. ASSUME NEW s, Answer(t, s)
      PROVE  CallsInv'
  <2>1. /\ stack[t] # <<>> /\ Top(stack[t]).call # "request"
        /\ stack' = [stack EXCEPT ![t] = Answered(stack[t], s)]
    BY <1>3 DEF Answer
  <2>2. Contents(Last(t)) = {}
    BY <2>1, TopFits DEF Fits
  <2> QED  BY <1>1, <2>1, <2>2, PoppedAligned, LeaveEmpty
<1>4. CASE RequestReturns(t) /\ Last(t).of = "other"
  <2>1. stack[t] # <<>> /\ stack' = [stack EXCEPT ![t] = Pop(stack[t])]
    BY <1>4 DEF RequestReturns, Libcups, Waiting
  <2>2. Contents(Last(t)) = {}
    BY <1>4, <2>1, TopFits DEF Fits
  <2> QED  BY <1>1, <2>1, <2>2, PoppedAligned, LeaveEmpty
<1> QED  BY <1>2, <1>3, <1>4 DEF Leaves

\* Panics: what is unwound has nothing.
LEMMA PanicsInv ==
    ASSUME CallsInv, IInv', NEW t \in Threads, Panics(t)
    PROVE  CallsInv'
<1>1. /\ temps \in [Threads -> Seq(Locals)] /\ stack[t] \in Seq(Calls)
      /\ Aligned(temps[t], stack[t]) /\ heap \subseteq Pointers /\ lost \subseteq Pointers
      /\ infos \in [Threads -> SUBSET Pointers] /\ Owns(heap, lost, OwnerOf(temps, infos))
      /\ Len(stack[t]) \in Nat /\ Len(temps[t]) = Len(stack[t])
  BY LenProperties DEF CallsInv, TypeOK, AuthTypeOK, Aligned
<1>2. CASE Abort(t) /\ UNCHANGED calls_vars
  BY <1>2 DEF CallsInv, TypeOK, IInv, Abort, calls_vars
<1>3. ASSUME NEW n \in 0..MaxCalls, Unwind(t, n),
             temps' = [temps EXCEPT ![t] = SubSeq(@, 1, n)], UNCHANGED <<heap, infos, lost>>
      PROVE  CallsInv'
  <2>1. n \in Nat /\ n < Len(stack[t])
    BY <1>3, BoundAssumption DEF Unwind, BoundAssumption
  <2>2. Aligned(SubSeq(temps[t], 1, n), SubSeq(stack[t], 1, n))
    BY <1>1, <2>1, AlignedCut
  <2>3. /\ SubSeq(temps[t], 1, n) \in Seq(Locals) /\ Len(SubSeq(temps[t], 1, n)) = n
        /\ \A i \in 1..n : SubSeq(temps[t], 1, n)[i] = temps[t][i]
    BY <1>1, <2>1, CutCalls
  <2>4. ASSUME NEW i \in n + 1 .. Len(stack[t])
        PROVE  Contents(temps[t][i]) = {}
    <3>1. i \in 1..Len(stack[t])
      BY <2>1
    <3>2. stack[t][i].call = "getter" /\ Fits(temps[t][i], stack[t][i])
      BY <1>1, <1>3, <3>1 DEF Unwind, Aligned
    <3> QED  BY <3>2 DEF Fits
  <2> DEFINE cut == SubSeq(temps[t], 1, n)
             ts == [temps EXCEPT ![t] = cut]
  <2>5. ts[t] = cut /\ \A u \in Threads : u # t => ts[u] = temps[u]
    BY <1>1
  <2> HIDE DEF ts, cut
  <2>6. ASSUME NEW y \in Places
        PROVE  OwnerOf(ts, infos)[y] = OwnerOf(temps, infos)[y]
    <3>1. PICK u \in Threads, i \in Nat : y = <<u, i>>
      BY DEF Places
    <3>2. CASE u # t \/ i = 0
      BY <2>5, <3>1, <3>2 DEF OwnerOf
    <3>3. CASE u = t /\ i \in 1..n
      <4>1. ts[t][i] = temps[t][i] /\ i <= Len(ts[t]) /\ i <= Len(temps[t])
        BY <1>1, <2>1, <2>3, <2>5, <3>3 DEF cut
      <4> QED  BY <3>1, <3>3, <4>1 DEF OwnerOf
    <3>4. CASE u = t /\ i \in n + 1 .. Len(stack[t])
      <4>1. ~ i <= Len(ts[t]) /\ i # 0 /\ i <= Len(temps[t])
        BY <1>1, <2>1, <2>3, <2>5, <3>4 DEF cut
      <4> QED  BY <2>4, <3>1, <3>4, <4>1 DEF OwnerOf
    <3>5. CASE u = t /\ i > Len(stack[t])
      <4>1. ~ i <= Len(ts[t]) /\ i # 0 /\ ~ i <= Len(temps[t])
        BY <1>1, <2>1, <2>3, <2>5, <3>5 DEF cut
      <4> QED  BY <3>1, <3>5, <4>1 DEF OwnerOf
    <3>6. i = 0 \/ i \in 1..n \/ i \in n + 1 .. Len(stack[t]) \/ i > Len(stack[t])
      BY <1>1, <2>1
    <3> QED  BY <3>2, <3>3, <3>4, <3>5, <3>6
  <2>7. OwnerOf(ts, infos) = OwnerOf(temps, infos)
    BY <2>6 DEF OwnerOf
  <2>8. temps' = ts /\ stack' = [stack EXCEPT ![t] = SubSeq(stack[t], 1, n)]
    BY <1>3 DEF ts, cut, Unwind
  <2>9. Owns(heap', lost', OwnerOf(temps', infos'))
    BY <1>1, <1>3, <2>7, <2>8
  <2>10. temps' = [temps EXCEPT ![t] = cut] /\ cut \in Seq(Locals)
         /\ Aligned(cut, SubSeq(stack[t], 1, n))
    BY <1>3, <2>2, <2>3 DEF cut
  <2> QED  BY <1>1, <1>3, <2>8, <2>9, <2>10, ThreadStep
<1> QED  BY <1>2, <1>3 DEF Panics

LEMMA AskInfoInv ==
    ASSUME CallsInv, IInv', NEW t \in Threads, NEW of \in {"info", "supported"},
           NEW p \in Pointers \union {NULL}, NEW q \in Pointers \union {NULL},
           AskInfo(t, of, p, q)
    PROVE  CallsInv'
<1> DEFINE c == Temps(of, p, q, NULL)
           call == Call("request", None, None)
<1>1. call \in Calls /\ Push(t, call)
  BY DEF AskInfo, Request, Call, Calls
<1>2. c \in Locals /\ Contents(c) = {p, q, NULL} \ {NULL}
  BY LocalsType
<1>3. Contents(c) = {p, q} \ {NULL}
  BY <1>2
<1>4. Fits(c, call)
  BY NullAssumption DEF AskInfo, Fits, Separate, Temps, Call, NullAssumption
<1>5. Enter(t, c) /\ heap' = heap \union Contents(c) /\ UNCHANGED <<infos, lost>>
  BY <1>3 DEF AskInfo
<1>6. \A r \in Contents(c) : r \notin heap /\ r \in Pointers
  BY <1>3 DEF AskInfo, Fresh
<1> HIDE DEF c, call
<1> QED  BY <1>1, <1>2, <1>4, <1>5, <1>6, EnterStep

\* An array left behind, or an options array freed at once.
LEMMA LostInv ==
    ASSUME CallsInv, IInv', NEW N, N \subseteq Pointers, \A p \in N : p \notin heap,
           heap' = heap \union N, lost' = lost \union N,
           UNCHANGED <<auth_vars, temps, infos>>
    PROVE  CallsInv'
<1>1. TypeOK'
  BY DEF CallsInv, TypeOK, IInv
<1>2. \A t \in Threads : Aligned(temps'[t], stack'[t])
  BY DEF CallsInv, auth_vars
<1>3. Owns(heap, lost, OwnerOf(temps, infos))
  BY DEF CallsInv
<1>4. Owns(heap \union N, lost \union N, OwnerOf(temps, infos))
  BY <1>3, OwnsLost
<1>5. Owns(heap', lost', OwnerOf(temps', infos'))
  BY <1>4
<1> QED  BY <1>1, <1>2, <1>5 DEF CallsInv

LEMMA FailsInv ==
    ASSUME CallsInv, IInv', NEW t \in Threads, NEW p \in Pointers \union {NULL},
           AskInfoFails(t, p) \/ CheckConflicts(t, p)
    PROVE  CallsInv'
<1> DEFINE N == {p}
<1>1. N \subseteq Pointers /\ \A q \in N : q \notin heap
  BY DEF AskInfoFails, CheckConflicts, Fresh
<1>2. CASE heap' = heap \union N /\ lost' = lost \union N
  <2>1. UNCHANGED <<auth_vars, temps, infos>>
    BY DEF AskInfoFails, CheckConflicts
  <2> HIDE DEF N
  <2> QED  BY <1>1, <1>2, <2>1, LostInv
<1>3. CASE UNCHANGED <<heap, lost>>
  <2>1. UNCHANGED <<auth_vars, temps, infos, heap, lost>>
    BY <1>3 DEF AskInfoFails, CheckConflicts
  <2> QED  BY <2>1 DEF CallsInv, TypeOK, IInv, auth_vars
<1> QED  BY <1>2, <1>3 DEF AskInfoFails, CheckConflicts

\* The innermost call frees what it has and gets other memory.
LEMMA ChangeStep ==
    ASSUME CallsInv, IInv', NEW t \in Threads, stack[t] # <<>>, UNCHANGED stack,
           NEW c \in Locals, Change(t, c), Fits(c, Top(stack[t])),
           \A p \in Contents(c) : p \in heap => p \in Contents(Last(t)),
           Contents(c) \subseteq Pointers,
           heap' = (heap \ Contents(Last(t))) \union Contents(c),
           UNCHANGED <<infos, lost>>
    PROVE  CallsInv'
<1>1. /\ temps \in [Threads -> Seq(Locals)] /\ stack[t] \in Seq(Calls)
      /\ Aligned(temps[t], stack[t]) /\ heap \subseteq Pointers /\ lost \subseteq Pointers
      /\ infos \in [Threads -> SUBSET Pointers] /\ Owns(heap, lost, OwnerOf(temps, infos))
      /\ stack \in [Threads -> Seq(Calls)]
  BY DEF CallsInv, TypeOK, AuthTypeOK
<1>2. temps[t] # <<>>
  BY TopFits
<1>3. temps' = [temps EXCEPT ![t][Len(temps[t])] = c]
  BY DEF Change
<1> DEFINE new == [temps[t] EXCEPT ![Len(temps[t])] = c]
<1>4. new \in Seq(Locals) /\ Aligned(new, stack[t]) /\ temps' = [temps EXCEPT ![t] = new]
  <2>1. Aligned(new, stack[t])
    BY <1>1, AlignedChange, EmptySeq
  <2>2. new \in Seq(Locals)
    BY <1>1, <1>2, PopCalls, ExceptSeq
  <2> QED  BY <1>1, <1>3, <2>1, <2>2
<1> HIDE DEF new
<1> DEFINE f == OwnerOf(temps, infos)
           x == <<t, Len(temps[t])>>
<1>5. x \in Places /\ f[x] = Contents(Last(t))
  BY TopOwner
<1>6. OwnerOf(temps', infos') = [f EXCEPT ![x] = Contents(c)]
  <2>1. OwnerOf(temps', infos') = OwnerOf([temps EXCEPT ![t][Len(temps[t])] = c], infos)
    BY <1>3
  <2>2. OwnerOf([temps EXCEPT ![t][Len(temps[t])] = c], infos) = [f EXCEPT ![x] = Contents(c)]
    BY <1>1, <1>2, OwnerChange
  <2> QED  BY <2>1, <2>2
<1>7. DOMAIN f = Places
  BY DEF OwnerOf
<1> HIDE DEF f, x
<1>8. \A p \in Contents(c) : p \in heap => p \in f[x]
  BY <1>5
<1>9. Owns((heap \ f[x]) \union Contents(c), lost, [f EXCEPT ![x] = Contents(c)])
  <2>1. Owns(heap, lost, f)
    BY <1>1 DEF f
  <2> DEFINE N == Contents(c)
  <2>2. \A p \in N : p \in heap => p \in f[x]
    BY <1>8
  <2> HIDE DEF N
  <2>3. Owns((heap \ f[x]) \union N, lost, [f EXCEPT ![x] = N])
    BY <1>5, <1>7, <2>1, <2>2, OwnsChanged
  <2> QED  BY <2>3 DEF N
<1>10. Owns(heap', lost', OwnerOf(temps', infos'))
  BY <1>5, <1>6, <1>9
<1>11. stack' = [stack EXCEPT ![t] = stack[t]] /\ heap' \subseteq Pointers
  BY <1>1
<1> QED  BY <1>1, <1>4, <1>10, <1>11, ThreadStep

LEMMA ReallocateInv ==
    ASSUME CallsInv, IInv', NEW t \in Threads, NEW p \in Pointers \union {NULL}, Reallocate(t, p)
    PROVE  CallsInv'
<1> DEFINE old == Last(t)
           c == [old EXCEPT !.options = p]
<1>1. stack[t] # <<>> /\ UNCHANGED stack /\ UNCHANGED <<infos, lost>> /\ Change(t, c)
  BY DEF Reallocate, Libcups, Waiting, auth_vars
<1>2. old \in Locals /\ Fits(old, Top(stack[t]))
  BY <1>1, TopFits
<1>3. c \in Locals /\ c.name = old.name /\ c.info = old.info /\ c.options = p /\ c.of = old.of
  BY <1>2 DEF Locals
<1>4. /\ Contents(old) \subseteq heap /\ p \notin heap /\ NULL \notin heap
      /\ Top(stack[t]).call = "request" /\ old.of \notin {"connect", "other"}
  <2>1. /\ temps \in [Threads -> Seq(Locals)] /\ temps[t] # <<>> /\ heap \subseteq Pointers
        /\ Owns(heap, lost, OwnerOf(temps, infos))
    BY <1>1, TopFits DEF CallsInv, TypeOK
  <2>3. <<t, Len(temps[t])>> \in Places
        /\ OwnerOf(temps, infos)[<<t, Len(temps[t])>>] = Contents(old)
    BY <1>1, TopOwner
  <2>4. Contents(old) \subseteq heap
    BY <2>1, <2>3 DEF Owns
  <2> QED  BY <2>1, <2>4, NullAssumption DEF NullAssumption, Reallocate, Fresh, Libcups, Waiting
<1>5. heap' = (heap \ {old.options}) \union ({p} \ {NULL})
  BY DEF Reallocate
<1> HIDE DEF old, c
<1>6. heap' = (heap \ Contents(old)) \union Contents(c)
  <2>1. old.options # NULL => old.options # old.name /\ old.options # old.info
    BY <1>2 DEF Fits, Separate
  <2> QED  BY <1>3, <1>4, <1>5, <2>1 DEF Contents
<1>7. Fits(c, Top(stack[t]))
  <2>1. {old.name, old.info} \ {NULL} \subseteq heap
    BY <1>4 DEF Contents
  <2> QED  BY <1>2, <1>3, <1>4, <2>1 DEF Fits, Separate
<1>8. Contents(c) \subseteq Pointers /\ \A q \in Contents(c) : q \in heap => q \in Contents(old)
  BY <1>2, <1>3, <1>4 DEF Contents, Locals
<1> QED  BY <1>1, <1>3, <1>6, <1>7, <1>8, ChangeStep DEF old

LEMMA CheckSupportedInv ==
    ASSUME CallsInv, IInv', NEW t \in Threads, NEW info \in Pointers,
           NEW p \in Pointers \union {NULL}, NEW q \in Pointers \union {NULL},
           CheckSupported(t, info, p, q)
    PROVE  CallsInv'
<1> DEFINE c == Temps("check", p, q, info)
           old == Last(t)
<1>1. /\ stack[t] # <<>> /\ UNCHANGED stack /\ UNCHANGED <<infos, lost>> /\ Change(t, c)
      /\ Top(stack[t]).call = "request"
  BY DEF CheckSupported, Libcups, Waiting, auth_vars
<1>2. c \in Locals /\ Contents(c) = {p, q, info} \ {NULL}
  <2>1. info \in Pointers \union {NULL} /\ "check" \in {"info", "supported", "check", "connect", "other"}
    OBVIOUS
  <2> QED  BY <2>1, LocalsType
<1>3. Fits(c, Top(stack[t]))
  BY <1>1, NullAssumption DEF CheckSupported, Fits, Separate, Temps, NullAssumption
<1>4. heap \subseteq Pointers /\ NULL \notin heap
  BY NullAssumption DEF CallsInv, TypeOK, NullAssumption
<1>5. heap \ Freed(old) = heap \ Contents(old)
  BY <1>4 DEF Freed, Contents
<1>6. heap' = (heap \ Contents(old)) \union Contents(c)
  BY <1>2, <1>5 DEF CheckSupported
<1>7. Contents(c) \subseteq Pointers
  BY <1>2
<1>8. {info, p, q} \intersect (heap \ Contents(old)) = {}
  BY <1>5 DEF CheckSupported
<1>9. \A r \in Contents(c) : r \in heap => r \in Contents(old)
  BY <1>2, <1>8
<1> HIDE DEF c, old
<1> QED  BY <1>1, <1>2, <1>3, <1>6, <1>7, <1>9, ChangeStep DEF old

\* The calls that return: what is freed is what they have.
LEMMA FreedContents ==
    ASSUME CallsInv, NEW t \in Threads
    PROVE  heap \ Freed(Last(t)) = heap \ Contents(Last(t))
<1>1. NULL \notin heap
  BY NullAssumption DEF CallsInv, TypeOK, NullAssumption
<1> QED  BY <1>1 DEF Freed, Contents

LEMMA ReturnsInv ==
    ASSUME CallsInv, IInv', NEW t \in Threads, SupportedReturns(t) \/ ConnectReturns(t)
    PROVE  CallsInv'
<1>1. /\ stack[t] # <<>> /\ stack' = [stack EXCEPT ![t] = Pop(stack[t])]
      /\ Leave(t) /\ UNCHANGED <<infos, lost>>
  BY DEF SupportedReturns, ConnectReturns, RequestReturns, Libcups, Waiting
<1>2. heap' = heap \ Contents(Last(t))
  <2>1. CASE SupportedReturns(t)
    BY <2>1, FreedContents DEF SupportedReturns
  <2>2. CASE ConnectReturns(t)
    <3>1. Contents(Last(t)) = {}
      BY <1>1, <2>2, TopFits DEF ConnectReturns, Fits
    <3> QED  BY <2>2, <3>1 DEF ConnectReturns
  <2> QED  BY <2>1, <2>2
<1> QED  BY <1>1, <1>2, PoppedAligned, LeaveStep

\* The application's values: a cups_dinfo_t comes or goes.
LEMMA InfoReturnsInv ==
    ASSUME CallsInv, IInv', NEW t \in Threads, NEW p \in Pointers \union {NULL},
           InfoReturns(t, p)
    PROVE  CallsInv'
<1>1. /\ temps \in [Threads -> Seq(Locals)] /\ heap \subseteq Pointers /\ lost \subseteq Pointers
      /\ infos \in [Threads -> SUBSET Pointers] /\ Owns(heap, lost, OwnerOf(temps, infos))
  BY DEF CallsInv, TypeOK
<1>2. /\ stack[t] # <<>> /\ stack' = [stack EXCEPT ![t] = Pop(stack[t])]
      /\ Leave(t) /\ p \notin heap /\ UNCHANGED lost
  BY DEF InfoReturns, RequestReturns, Libcups, Waiting, Fresh
<1>3. temps[t] # <<>> /\ Aligned(Pop(temps[t]), Pop(stack[t]))
  BY <1>2, TopFits, PoppedAligned
<1>4. Pop(temps[t]) \in Seq(Locals) /\ temps' = [temps EXCEPT ![t] = Pop(@)]
  BY <1>1, <1>2, <1>3, PopCalls DEF Leave
<1> DEFINE f == OwnerOf(temps, infos)
           x == <<t, Len(temps[t])>>
           g == OwnerOf(temps', infos)
           h == heap \ Contents(Last(t))
           N == {p} \ {NULL}
           I == infos[t] \union N
<1>5. x \in Places /\ f[x] = Contents(Last(t)) /\ g = [f EXCEPT ![x] = {}]
  <2>1. g = OwnerOf([temps EXCEPT ![t] = Pop(@)], infos)
    BY <1>4
  <2>2. Last(t) = Top(temps[t])
    BY DEF Last, Top
  <2>3. /\ <<t, Len(temps[t])>> \in Places
        /\ OwnerOf(temps, infos)[<<t, Len(temps[t])>>] = Contents(Top(temps[t]))
        /\ OwnerOf([temps EXCEPT ![t] = Pop(@)], infos) =
              [OwnerOf(temps, infos) EXCEPT ![<<t, Len(temps[t])>>] = {}]
    BY <1>1, <1>3, OwnerLeave
  <2> QED  BY <2>1, <2>2, <2>3
<1>6. DOMAIN f = Places /\ DOMAIN g = Places
  BY DEF OwnerOf
<1>7. /\ <<t, 0>> \in Places /\ g[<<t, 0>>] = infos[t]
      /\ OwnerOf(temps', [infos EXCEPT ![t] = I]) = [g EXCEPT ![<<t, 0>>] = I]
  <2> HIDE DEF I
  <2> QED  BY <1>1, OwnerInfos
<1>8. infos' = [infos EXCEPT ![t] = I] /\ heap' = h \union N
  BY <1>1, FreedContents DEF InfoReturns
<1>9. N \subseteq Pointers /\ \A r \in N : r \notin heap
  BY <1>2
<1>10. Owns(heap, lost, f)
  BY <1>1
<1> HIDE DEF f, x, g, N
<1>11. Owns((heap \ f[x]) \union {}, lost, [f EXCEPT ![x] = {}])
  BY <1>5, <1>6, <1>10, OwnsChanged
<1>12. Owns(h, lost, g)
  <2>1. (heap \ f[x]) \union {} = h
    BY <1>5
  <2> HIDE DEF h
  <2> QED  BY <1>5, <1>11, <2>1
<1> HIDE DEF h
<1>13. Owns((h \ g[<<t, 0>>]) \union I, lost, [g EXCEPT ![<<t, 0>>] = I])
  <2>1. \A r \in I : r \in h => r \in g[<<t, 0>>]
    BY <1>7, <1>9 DEF h
  <2> DEFINE y == <<t, 0>>
  <2>2. y \in Places /\ \A r \in I : r \in h => r \in g[y]
    BY <1>7, <2>1
  <2> HIDE DEF y, I
  <2>3. Owns((h \ g[y]) \union I, lost, [g EXCEPT ![y] = I])
    BY <1>6, <1>12, <2>2, OwnsChanged
  <2> QED  BY <2>3 DEF y
<1>14. (h \ g[<<t, 0>>]) \union I = h \union N
  <2>1. infos[t] \subseteq h
    BY <1>7, <1>12 DEF Owns
  <2> QED  BY <1>7, <2>1
<1>15. Owns(heap', lost', OwnerOf(temps', infos'))
  BY <1>2, <1>7, <1>8, <1>13, <1>14
<1>16. infos' \in [Threads -> SUBSET Pointers] /\ heap' \subseteq Pointers /\ lost' \subseteq Pointers
  BY <1>1, <1>2, <1>8, <1>9 DEF h
<1> QED  BY <1>2, <1>3, <1>4, <1>15, <1>16, ThreadStep

LEMMA DropInfoInv ==
    ASSUME CallsInv, IInv', NEW t \in Threads, NEW p, DropInfo(t, p)
    PROVE  CallsInv'
<1>1. /\ heap \subseteq Pointers /\ lost \subseteq Pointers
      /\ infos \in [Threads -> SUBSET Pointers] /\ Owns(heap, lost, OwnerOf(temps, infos))
  BY DEF CallsInv, TypeOK
<1> DEFINE f == OwnerOf(temps, infos)
           y == <<t, 0>>
           I == infos[t] \ {p}
<1>2. /\ y \in Places /\ f[y] = infos[t]
      /\ OwnerOf(temps, [infos EXCEPT ![t] = I]) = [f EXCEPT ![y] = I]
  <2> HIDE DEF I
  <2> QED  BY <1>1, OwnerInfos
<1>3. infos' = [infos EXCEPT ![t] = I] /\ heap' = heap \ {p} /\ p \in infos[t]
      /\ UNCHANGED <<auth_vars, temps, lost>>
  BY DEF DropInfo
<1>4. DOMAIN f = Places
  BY DEF OwnerOf
<1> HIDE DEF f, y
<1>5. \A r \in I : r \in heap => r \in f[y]
  BY <1>2
<1>6. (heap \ f[y]) \union I = heap'
  <2>1. infos[t] \subseteq heap
    BY <1>1, <1>2 DEF Owns, f
  <2> QED  BY <1>2, <1>3, <2>1
<1> HIDE DEF I
<1>7. Owns((heap \ f[y]) \union I, lost, [f EXCEPT ![y] = I])
  BY <1>1, <1>2, <1>4, <1>5, OwnsChanged DEF f
<1>8. Owns(heap', lost', OwnerOf(temps', infos'))
  BY <1>2, <1>3, <1>6, <1>7
<1>9. infos' \in [Threads -> SUBSET Pointers]
  BY <1>1, <1>3 DEF I
<1>10. TypeOK'
  BY <1>1, <1>3, <1>9 DEF CallsInv, TypeOK, IInv
<1>11. \A u \in Threads : Aligned(temps'[u], stack'[u])
  BY <1>3 DEF CallsInv, auth_vars
<1> QED  BY <1>8, <1>10, <1>11 DEF CallsInv

LEMMA ConnectInv ==
    ASSUME CallsInv, IInv', NEW t \in Threads, NEW p \in Pointers \union {NULL},
           NEW q \in Pointers \union {NULL}, Connect(t, p, q)
    PROVE  CallsInv'
<1>1. /\ temps \in [Threads -> Seq(Locals)] /\ stack[t] \in Seq(Calls)
      /\ Aligned(temps[t], stack[t]) /\ heap \subseteq Pointers /\ lost \subseteq Pointers
      /\ infos \in [Threads -> SUBSET Pointers] /\ Owns(heap, lost, OwnerOf(temps, infos))
  BY DEF CallsInv, TypeOK, AuthTypeOK
<1> DEFINE c == Temps("connect", NULL, NULL, NULL)
           call == Call("request", None, None)
           N == {p, q} \ {NULL}
<1>2. c \in Locals /\ Contents(c) = {}
  BY DEF Temps, Locals, Contents
<1>3. Fits(c, call)
  BY <1>2 DEF Fits, Separate, Temps
<1>4. /\ call \in Calls /\ stack' = [stack EXCEPT ![t] = Append(stack[t], call)]
      /\ temps' = [temps EXCEPT ![t] = Append(temps[t], c)] /\ UNCHANGED infos
      /\ heap' = heap \union N /\ lost' = lost \union N
  BY DEF Connect, Request, Push, Enter, Call, Calls
<1>5. N \subseteq Pointers /\ \A r \in N : r \notin heap
  BY DEF Connect, Fresh
<1> HIDE DEF c, call, N
<1>6. Append(temps[t], c) \in Seq(Locals)
  BY <1>1, <1>2, AppendProperties
<1>7. Aligned(Append(temps[t], c), Append(stack[t], call))
  BY <1>1, <1>2, <1>3, <1>4, AlignedPush
<1>8. OwnerOf(temps', infos') = OwnerOf(temps, infos)
  <2> DEFINE f == OwnerOf(temps, infos)
             x == <<t, Len(temps[t]) + 1>>
  <2>1. OwnerOf(temps', infos') = OwnerOf([temps EXCEPT ![t] = Append(temps[t], c)], infos)
    BY <1>4
  <2>2. x \in Places /\ f[x] = {}
    BY <1>1, OwnerNext
  <2>3. OwnerOf([temps EXCEPT ![t] = Append(temps[t], c)], infos) = [f EXCEPT ![x] = Contents(c)]
    BY <1>1, <1>2, OwnerEnter
  <2>4. f = [y \in Places |-> f[y]]
    BY DEF OwnerOf
  <2> HIDE DEF f, x
  <2>5. [f EXCEPT ![x] = {}] = f
    BY <2>2, <2>4
  <2> QED  BY <1>2, <2>1, <2>3, <2>5 DEF f
<1>9. Owns(heap \union N, lost \union N, OwnerOf(temps, infos))
  BY <1>1, <1>5, OwnsLost
<1>10. Owns(heap', lost', OwnerOf(temps', infos'))
  BY <1>4, <1>8, <1>9
<1> QED  BY <1>1, <1>4, <1>5, <1>6, <1>7, <1>10, ThreadStep

LEMMA SameInv ==
    ASSUME CallsInv, IInv', UNCHANGED <<stack, calls_vars>>
    PROVE  CallsInv'
  BY DEF CallsInv, TypeOK, IInv, calls_vars

LEMMA CallsInvStep == CallsInv /\ [Next]_vars => CallsInv'
<1> SUFFICES ASSUME CallsInv, [Next]_vars  PROVE CallsInv'
  OBVIOUS
<1>1. IInv'
  BY CallsStep, StepInv DEF CallsInv
<1>2. CASE UNCHANGED vars
  BY <1>1, <1>2, SameInv DEF vars, auth_vars
<1>3. ASSUME NEW t \in Threads, Enters(t) \/ Leaves(t) \/ Panics(t)  PROVE CallsInv'
  BY <1>1, <1>3, EntersInv, LeavesInv, PanicsInv
<1>4. ASSUME NEW t \in Threads, Sets(t)  PROVE CallsInv'
  BY <1>1, <1>4, SameInv DEF Sets, SetCallback
<1>5. ASSUME NEW t \in Threads, NEW p \in Pointers \union {NULL},
             AskInfoFails(t, p) \/ Reallocate(t, p) \/ CheckConflicts(t, p)
      PROVE  CallsInv'
  BY <1>1, <1>5, FailsInv, ReallocateInv
<1>6. ASSUME NEW t \in Threads, NEW p \in Pointers \union {NULL},
             InfoReturns(t, p) \/ DropInfo(t, p)
      PROVE  CallsInv'
  BY <1>1, <1>6, InfoReturnsInv, DropInfoInv
<1>7. ASSUME NEW t \in Threads, NEW p \in Pointers \union {NULL},
             NEW q \in Pointers \union {NULL}, NEW of \in {"info", "supported"},
             AskInfo(t, of, p, q)
      PROVE  CallsInv'
  BY <1>1, <1>7, AskInfoInv
<1>8. ASSUME NEW t \in Threads, NEW p \in Pointers \union {NULL},
             NEW q \in Pointers \union {NULL}, NEW info \in Pointers,
             CheckSupported(t, info, p, q)
      PROVE  CallsInv'
  BY <1>1, <1>8, CheckSupportedInv
<1>9. ASSUME NEW t \in Threads, NEW p \in Pointers \union {NULL},
             NEW q \in Pointers \union {NULL}, Connect(t, p, q)
      PROVE  CallsInv'
  BY <1>1, <1>9, ConnectInv
<1>10. ASSUME NEW t \in Threads, SupportedReturns(t) \/ ConnectReturns(t)
       PROVE  CallsInv'
  BY <1>1, <1>10, ReturnsInv
<1> QED  BY <1>2, <1>3, <1>4, <1>5, <1>6, <1>7, <1>8, <1>9, <1>10 DEF Next

LEMMA CallsInvariant == Spec => []CallsInv
  BY CallsInit, CallsInvStep, PTL DEF Spec

\* Every variable has its type.
THEOREM CallsTypeCorrect == Spec => []TypeOK
<1>1. CallsInv => TypeOK
  BY DEF CallsInv
<1> QED  BY <1>1, CallsInvariant, PTL

\* Memory passed to libcups is freed by one owner, or lost where the code loses it
\* (destination/mod.rs:173-329, dest_info.rs:540-549).
THEOREM HeapOwnedInCalls == Spec => []HeapOwned
<1>1. CallsInv => HeapOwned
  <2> SUFFICES ASSUME CallsInv  PROVE HeapOwned
    OBVIOUS
  <2> DEFINE f == OwnerOf(temps, infos)
  <2>1. Owns(heap, lost, f)
    BY DEF CallsInv
  <2>2. temps \in [Threads -> Seq(Locals)] /\ \A t \in Threads : Len(temps[t]) \in Nat
    BY LenProperties DEF CallsInv, TypeOK
  <2>3. ASSUME NEW t \in Threads, NEW i \in Levels(t)
        PROVE  <<t, i>> \in Places /\ f[<<t, i>>] = Holds(t, i)
    <3>1. i \in Nat /\ (i = 0 \/ i <= Len(temps[t])) /\ <<t, i>> \in Places
      BY <2>2, <2>3 DEF Levels, Places
    <3>2. f[<<t, i>>] = IF i = 0 THEN infos[t]
                        ELSE IF i <= Len(temps[t]) THEN Contents(temps[t][i]) ELSE {}
      BY <3>1 DEF OwnerOf
    <3> HIDE DEF f
    <3> QED  BY <3>1, <3>2 DEF Holds, Contents
  <2>4. ASSUME NEW y \in Places, NEW p \in f[y]
        PROVE  \E t \in Threads : \E i \in Levels(t) : y = <<t, i>> /\ p \in Holds(t, i)
    <3>1. PICK t \in Threads, i \in Nat : y = <<t, i>>
      BY DEF Places
    <3>2. i \in Levels(t)
      BY <2>2, <2>4, <3>1 DEF OwnerOf, Levels
    <3> QED  BY <2>3, <2>4, <3>1, <3>2
  <2> HIDE DEF f
  <2> DEFINE all == lost \union UNION {UNION {Holds(t, i) : i \in Levels(t)} : t \in Threads}
  <2>5. ASSUME NEW p  PROVE p \in heap <=> p \in all
    <3>1. p \in all <=> p \in lost \/ \E t \in Threads : \E i \in Levels(t) : p \in Holds(t, i)
      OBVIOUS
    <3>2. p \in heap <=> p \in lost \/ \E y \in Places : p \in f[y]
      BY <2>1 DEF Owns
    <3>3. (\E y \in Places : p \in f[y]) <=>
             \E t \in Threads : \E i \in Levels(t) : p \in Holds(t, i)
      BY <2>3, <2>4
    <3> HIDE DEF all
    <3> QED  BY <3>1, <3>2, <3>3
  <2>6. heap = all
    <3> HIDE DEF all
    <3> QED  BY <2>5
  <2>7. ASSUME NEW t \in Threads, NEW u \in Threads, NEW i \in Levels(t), NEW j \in Levels(u)
        PROVE  /\ Holds(t, i) \intersect lost = {}
               /\ Holds(t, i) \intersect Holds(u, j) # {} => t = u /\ i = j
    <3>1. \A p : p \in Holds(t, i) => p \notin lost
      <4>1. <<t, i>> \in Places /\ f[<<t, i>>] = Holds(t, i)
        BY <2>3
      <4> QED  BY <2>1, <4>1 DEF Owns
    <3>2. \A p : p \in Holds(t, i) /\ p \in Holds(u, j) => <<t, i>> = <<u, j>>
      <4>1. /\ <<t, i>> \in Places /\ <<u, j>> \in Places
            /\ f[<<t, i>>] = Holds(t, i) /\ f[<<u, j>>] = Holds(u, j)
        BY <2>3
      <4> QED  BY <2>1, <4>1 DEF Owns
    <3> QED  BY <3>1, <3>2
  <2> QED  BY <2>6, <2>7 DEF HeapOwned
<1> QED  BY <1>1, CallsInvariant, PTL
=============================================================================
