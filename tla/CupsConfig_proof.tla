-------------------------- MODULE CupsConfig_proof --------------------------
(***************************************************************************)
(* For any number of threads, values, settings made and guards: a thread   *)
(* that keeps its guards and drops them newest first gets its settings     *)
(* back, as the getters tell them, and the port if none was named.         *)
(***************************************************************************)
EXTENDS CupsConfig, SequenceTheorems, TLAPS

\* The oldest guard holds what the thread had before it, which the guards above it, in
\* whatever state they captured and restored the settings, cannot change. No guard has the
\* port, which only a call that names it changes.
OldestKnows ==
    \A t \in Threads : guards[t] # <<>> /\ orderly[t] =>
        /\ \A s \in Settings : guards[t][1][s] = before[t][s]
        /\ ~ ported[t] => InUse(settings[t])["port"] = before[t]["port"]

IInv == TypeOK /\ OldestKnows /\ RestoredInOrder

-----------------------------------------------------------------------------
Given == Named \union Resets \union Captured

LEMMA PortApart == "port" \notin Settings /\ "port" \in Kept /\ Settings \subseteq Kept
  BY DEF Settings, Kept

\* What is in use is values, and what a getter says is what is in use.
LEMMA InUseType ==
    ASSUME NEW mine \in [Kept -> Values \union {Unset}]
    PROVE  /\ InUse(mine) \in [Kept -> Values]
           /\ Get(mine) \in Captured
           /\ \A s \in Settings : Get(mine)[s] = InUse(mine)[s]
  BY DefaultAssumption, PortApart DEF DefaultAssumption, InUse, Get, Captured

\* Settings stay settings, and what is not given stays as it was.
LEMMA OverType ==
    ASSUME NEW mine \in [Kept -> Values \union {Unset}], NEW given \in Given
    PROVE  /\ Over(given, mine) \in [Kept -> Values \union {Unset}]
           /\ "port" \notin DOMAIN given =>
                 InUse(Over(given, mine))["port"] = InUse(mine)["port"]
<1>1. \A s \in DOMAIN given : given[s] \in Values \union {Unset}
  <2>1. CASE given \in Captured
    BY <2>1 DEF Captured
  <2>2. CASE given \in [{"server", "port"} -> Values]
    BY <2>2
  <2>3. ASSUME NEW s \in Settings, given \in [{s} -> Values]
        PROVE  \A r \in DOMAIN given : given[r] \in Values
    BY <2>3
  <2>4. CASE given \in Resets
    BY <2>4 DEF Resets
  <2>5. CASE given \in UNION {[{s} -> Values] : s \in Settings}
    <3>1. PICK s \in Settings : given \in [{s} -> Values]
      BY <2>5
    <3> QED
      BY <2>3, <3>1
  <2>6. \/ given \in UNION {[{s} -> Values] : s \in Settings}
        \/ given \in [{"server", "port"} -> Values]
        \/ given \in Resets \/ given \in Captured
    BY Zenon DEF Given, Named
  <2> QED
    BY <2>1, <2>2, <2>4, <2>5, <2>6, Zenon
<1> QED
  BY <1>1 DEF Over, InUse, Kept

\* A guard's settings are in use once it is dropped.
LEMMA OverCaptured ==
    ASSUME NEW mine \in [Kept -> Values \union {Unset}], NEW guard \in Captured
    PROVE  /\ \A s \in Settings : InUse(Over(guard, mine))[s] = guard[s]
           /\ InUse(Over(guard, mine))["port"] = InUse(mine)["port"]
  BY DefaultAssumption, PortApart DEF DefaultAssumption, Over, InUse, Captured

\* A stack without one of its guards; without the newest, its oldest stays or it is empty.
LEMMA WithoutGuardType ==
    ASSUME NEW S, NEW stack \in Seq(S), NEW i \in 1..Len(stack)
    PROVE  /\ WithoutGuard(stack, i) \in Seq(S)
           /\ Len(WithoutGuard(stack, i)) = Len(stack) - 1
           /\ i > 1 => WithoutGuard(stack, i)[1] = stack[1]
<1> DEFINE below == SubSeq(stack, 1, i - 1)
           above == SubSeq(stack, i + 1, Len(stack))
<1>1. below \in Seq(S) /\ Len(below) = i - 1 /\ (i > 1 => below[1] = stack[1])
  BY SubSeqProperties
<1>2. above \in Seq(S) /\ Len(above) = Len(stack) - i
  BY SubSeqProperties
<1>3. WithoutGuard(stack, i) = below \o above
  BY DEF WithoutGuard
<1> HIDE DEF below, above
<1> QED
  BY <1>1, <1>2, <1>3, ConcatProperties

LEMMA EmptyStack ==
    ASSUME NEW S, NEW stack \in Seq(S)
    PROVE  stack = <<>> <=> Len(stack) = 0
  BY EmptySeq

-----------------------------------------------------------------------------
LEMMA InitInv == Init => IInv
<1> SUFFICES ASSUME Init  PROVE IInv
  OBVIOUS
<1> USE DefaultAssumption, BoundAssumption DEF DefaultAssumption, BoundAssumption
<1>1. TypeOK
  <2>1. guards \in [Threads -> Seq(Captured)]
    BY EmptySeq DEF Init
  <2> QED
    BY <2>1 DEF Init, TypeOK
<1>2. OldestKnows
  BY DEF Init, OldestKnows
<1>3. RestoredInOrder
  BY PortApart DEF Init, RestoredInOrder, InUse
<1> QED
  BY <1>1, <1>2, <1>3 DEF IInv

\* A guard leaves its stack and restores what it captured; the only way, with WithFails,
\* back to no guard.
LEMMA DropInv ==
    ASSUME IInv, NEW t \in Threads, NEW i \in DOMAIN guards[t], Drop(t, i), sets' \in 0..MaxSets
    PROVE  IInv'
<1> DEFINE rest == WithoutGuard(guards[t], i)
           restored == Over(guards[t][i], settings[t])
<1>1. /\ guards[t] \in Seq(Captured) /\ i \in 1..Len(guards[t]) /\ guards[t][i] \in Captured
      /\ settings[t] \in [Kept -> Values \union {Unset}]
  BY LenProperties DEF IInv, TypeOK
<1>2. /\ rest \in Seq(Captured) /\ Len(rest) = Len(guards[t]) - 1
      /\ i > 1 => rest[1] = guards[t][1]
  BY <1>1, WithoutGuardType
<1>3. /\ restored \in [Kept -> Values \union {Unset}]
      /\ \A s \in Settings : InUse(restored)[s] = guards[t][i][s]
      /\ InUse(restored)["port"] = InUse(settings[t])["port"]
  BY <1>1, OverType, OverCaptured DEF Given
<1>4. /\ settings' = [settings EXCEPT ![t] = restored]
      /\ guards' = [guards EXCEPT ![t] = rest]
      /\ orderly' = [orderly EXCEPT ![t] = orderly[t] /\ i = Len(guards[t])]
      /\ UNCHANGED <<before, ported, made>>
  BY DEF Drop, Restore
<1> HIDE DEF rest, restored
<1>5. TypeOK'
  BY <1>2, <1>3, <1>4 DEF IInv, TypeOK
\* Without the newest guard, the oldest is the same, or was the newest.
<1>6. ASSUME orderly'[t]
      PROVE  /\ rest = <<>> => \A s \in Settings : guards[t][i][s] = before[t][s]
             /\ rest # <<>> => \A s \in Settings : rest[1][s] = before[t][s]
             /\ ~ ported[t] => InUse(restored)["port"] = before[t]["port"]
  <2>1. orderly[t] /\ i = Len(guards[t])
    BY <1>4, <1>6 DEF IInv, TypeOK
  <2>2. /\ \A s \in Settings : guards[t][1][s] = before[t][s]
        /\ ~ ported[t] => InUse(settings[t])["port"] = before[t]["port"]
    BY <1>1, <2>1, EmptyStack DEF IInv, OldestKnows
  <2>3. rest = <<>> <=> i = 1
    <3>1. rest = <<>> <=> Len(rest) = 0
      BY <1>2, EmptyStack
    <3>2. Len(rest) = i - 1 /\ i \in Int
      BY <1>1, <1>2, <2>1, LenProperties
    <3> QED
      BY <3>1, <3>2
  <2>4. i = 1 \/ i > 1
    BY <1>1, LenProperties
  <2> QED
    BY <1>2, <1>3, <2>2, <2>3, <2>4
<1>7. OldestKnows'
  <2> SUFFICES ASSUME NEW u \in Threads, guards'[u] # <<>>, orderly'[u]
               PROVE  /\ \A s \in Settings : guards'[u][1][s] = before'[u][s]
                      /\ ~ ported'[u] => InUse(settings'[u])["port"] = before'[u]["port"]
    BY DEF OldestKnows
  <2>1. CASE u = t
    BY <1>4, <1>6, <2>1 DEF IInv, TypeOK
  <2>2. CASE u # t
    BY <1>4, <2>2 DEF IInv, TypeOK, OldestKnows
  <2> QED
    BY <2>1, <2>2
<1>8. RestoredInOrder'
  <2> SUFFICES ASSUME NEW u \in Threads, guards'[u] = <<>>, orderly'[u]
               PROVE  \A s \in (IF ported'[u] THEN Settings ELSE Kept) :
                         InUse(settings'[u])[s] = before'[u][s]
    BY DEF RestoredInOrder
  <2>1. CASE u = t
    <3>1. settings'[t] = restored /\ guards'[t] = rest /\ before' = before /\ ported' = ported
      BY <1>4 DEF IInv, TypeOK
    <3>2. /\ \A s \in Settings : InUse(restored)[s] = before[t][s]
          /\ ~ ported[t] => InUse(restored)["port"] = before[t]["port"]
      BY <1>3, <1>6, <2>1, <3>1
    <3> QED
      BY <2>1, <3>1, <3>2 DEF Kept
  <2>2. CASE u # t
    BY <1>4, <2>2 DEF IInv, TypeOK, RestoredInOrder
  <2> QED
    BY <2>1, <2>2
<1> QED
  BY <1>5, <1>7, <1>8 DEF IInv

\* Calls under a guard leave what is to be restored; with none live they settle it anew.
LEMMA NotedType ==
    ASSUME IInv, NEW t \in Threads, NEW names, Noted(t, names),
           settings' \in [Threads -> [Kept -> Values \union {Unset}]]
    PROVE  /\ before' \in [Threads -> [Kept -> Values]]
           /\ orderly' \in [Threads -> BOOLEAN] /\ ported' \in [Threads -> BOOLEAN]
           /\ \A u \in Threads \ {t} :
                 before'[u] = before[u] /\ orderly'[u] = orderly[u] /\ ported'[u] = ported[u]
           /\ guards[t] = <<>> => before'[t] = InUse(settings'[t])
           /\ guards[t] # <<>> =>
                 /\ before'[t] = before[t] /\ orderly'[t] = orderly[t]
                 /\ ported'[t] = (ported[t] \/ "port" \in names)
<1>1. InUse(settings'[t]) \in [Kept -> Values]
  BY InUseType
<1>2. /\ orderly' = [orderly EXCEPT ![t] = orderly[t] \/ guards[t] = <<>>]
      /\ ported' = [ported EXCEPT ![t] = guards[t] # <<>> /\ (ported[t] \/ "port" \in names)]
  BY DEF Noted
<1>3. /\ orderly' \in [Threads -> BOOLEAN] /\ ported' \in [Threads -> BOOLEAN]
      /\ \A u \in Threads \ {t} : orderly'[u] = orderly[u] /\ ported'[u] = ported[u]
  BY <1>2 DEF IInv, TypeOK
<1>4. guards[t] # <<>> =>
         orderly'[t] = orderly[t] /\ ported'[t] = (ported[t] \/ "port" \in names)
  BY <1>2 DEF IInv, TypeOK
<1>5. /\ before' \in [Threads -> [Kept -> Values]]
      /\ \A u \in Threads \ {t} : before'[u] = before[u]
      /\ guards[t] = <<>> => before'[t] = InUse(settings'[t])
      /\ guards[t] # <<>> => before'[t] = before[t]
  BY <1>1 DEF Noted, IInv, TypeOK
<1> QED
  BY <1>3, <1>4, <1>5

LEMMA SetInv ==
    ASSUME IInv, NEW t \in Threads, NEW given \in Named \union Resets, Set(t, given)
    PROVE  IInv'
<1> USE BoundAssumption DEF BoundAssumption
<1> DEFINE mine == Over(given, settings[t])
<1>1. /\ mine \in [Kept -> Values \union {Unset}]
      /\ "port" \notin DOMAIN given => InUse(mine)["port"] = InUse(settings[t])["port"]
  BY OverType DEF IInv, TypeOK, Given
<1>2. settings' = [settings EXCEPT ![t] = mine]
  BY DEF Set
<1> HIDE DEF mine
<1>3. /\ settings' \in [Threads -> [Kept -> Values \union {Unset}]]
      /\ settings'[t] = mine /\ \A u \in Threads \ {t} : settings'[u] = settings[u]
  BY <1>1, <1>2 DEF IInv, TypeOK
<1>4. Noted(t, DOMAIN given) /\ guards' = guards /\ made' = made /\ sets' \in 0..MaxSets
  BY DEF Set, IInv, TypeOK
<1>5. TypeOK'
  BY <1>3, <1>4, NotedType DEF IInv, TypeOK
<1>6. OldestKnows'
  <2> SUFFICES ASSUME NEW u \in Threads, guards'[u] # <<>>, orderly'[u]
               PROVE  /\ \A s \in Settings : guards'[u][1][s] = before'[u][s]
                      /\ ~ ported'[u] => InUse(settings'[u])["port"] = before'[u]["port"]
    BY DEF OldestKnows
  <2>1. CASE u = t
    BY <1>1, <1>3, <1>4, <2>1, NotedType DEF IInv, OldestKnows
  <2>2. CASE u # t
    BY <1>3, <1>4, <2>2, NotedType DEF IInv, OldestKnows
  <2> QED
    BY <2>1, <2>2
<1>7. RestoredInOrder'
  <2> SUFFICES ASSUME NEW u \in Threads, guards'[u] = <<>>, orderly'[u]
               PROVE  \A s \in (IF ported'[u] THEN Settings ELSE Kept) :
                         InUse(settings'[u])[s] = before'[u][s]
    BY DEF RestoredInOrder
  <2>1. CASE u = t
    BY <1>3, <1>4, <2>1, NotedType, PortApart
  <2>2. CASE u # t
    BY <1>3, <1>4, <2>2, NotedType DEF IInv, RestoredInOrder
  <2> QED
    BY <2>1, <2>2
<1> QED
  BY <1>5, <1>6, <1>7 DEF IInv

LEMMA NewInv ==
    ASSUME IInv, NEW t \in Threads, New(t)
    PROVE  IInv'
<1> USE BoundAssumption DEF BoundAssumption
<1> DEFINE stack == Append(guards[t], Get(settings[t]))
<1>1. /\ guards[t] \in Seq(Captured) /\ settings[t] \in [Kept -> Values \union {Unset}]
      /\ Get(settings[t]) \in Captured
      /\ \A s \in Settings : Get(settings[t])[s] = InUse(settings[t])[s]
  BY InUseType DEF IInv, TypeOK
<1>2. /\ stack \in Seq(Captured) /\ stack # <<>>
      /\ guards[t] = <<>> => stack[1] = Get(settings[t])
      /\ guards[t] # <<>> => stack[1] = guards[t][1]
  BY <1>1, EmptyStack, AppendProperties, EmptySeq
<1>3. /\ guards' = [guards EXCEPT ![t] = stack] /\ settings' = settings
      /\ Noted(t, {}) /\ sets' = sets /\ made' \in 0..MaxGuards
  BY DEF New, IInv, TypeOK
<1> HIDE DEF stack
<1>4. /\ guards' \in [Threads -> Seq(Captured)]
      /\ guards'[t] = stack /\ \A u \in Threads \ {t} : guards'[u] = guards[u]
      /\ settings' \in [Threads -> [Kept -> Values \union {Unset}]]
  BY <1>2, <1>3 DEF IInv, TypeOK
<1>5. TypeOK'
  BY <1>3, <1>4, NotedType DEF IInv, TypeOK
<1>6. OldestKnows'
  <2> SUFFICES ASSUME NEW u \in Threads, guards'[u] # <<>>, orderly'[u]
               PROVE  /\ \A s \in Settings : guards'[u][1][s] = before'[u][s]
                      /\ ~ ported'[u] => InUse(settings'[u])["port"] = before'[u]["port"]
    BY DEF OldestKnows
  <2>1. CASE u = t /\ guards[t] = <<>>
    BY <1>1, <1>2, <1>3, <1>4, <2>1, NotedType
  <2>2. CASE u = t /\ guards[t] # <<>>
    BY <1>2, <1>3, <1>4, <2>2, NotedType DEF IInv, OldestKnows
  <2>3. CASE u # t
    BY <1>3, <1>4, <2>3, NotedType DEF IInv, OldestKnows
  <2> QED
    BY <2>1, <2>2, <2>3
<1>7. RestoredInOrder'
  <2> SUFFICES ASSUME NEW u \in Threads, guards'[u] = <<>>, orderly'[u]
               PROVE  \A s \in (IF ported'[u] THEN Settings ELSE Kept) :
                         InUse(settings'[u])[s] = before'[u][s]
    BY DEF RestoredInOrder
  <2>1. u \in Threads \ {t}
    BY <1>2, <1>4
  <2>2. /\ guards[u] = <<>> /\ orderly[u]
        /\ before'[u] = before[u] /\ ported'[u] = ported[u]
    BY <1>3, <1>4, <2>1, NotedType
  <2> QED
    BY <1>3, <2>2 DEF IInv, RestoredInOrder
<1> QED
  BY <1>5, <1>6, <1>7 DEF IInv

LEMMA StepInv == IInv /\ [Next]_vars => IInv'
<1> SUFFICES ASSUME IInv, [Next]_vars  PROVE IInv'
  OBVIOUS
<1>1. CASE UNCHANGED vars
  BY <1>1 DEF vars, IInv, TypeOK, OldestKnows, RestoredInOrder
<1>2. ASSUME NEW t \in Threads, NEW given \in Named \union Resets, Set(t, given)  PROVE IInv'
  BY <1>2, SetInv
<1>3. ASSUME NEW t \in Threads, New(t)  PROVE IInv'
  BY <1>3, NewInv
<1>4. ASSUME NEW t \in Threads, NEW i \in DOMAIN guards[t], DropGuard(t, i) \/ WithFails(t, i)
      PROVE  IInv'
  <2>1. Drop(t, i) /\ sets' \in 0..MaxSets
    BY <1>4, BoundAssumption DEF BoundAssumption, DropGuard, WithFails, IInv, TypeOK
  <2> QED
    BY <2>1, DropInv
<1>5. ASSUME NEW t \in Threads, NEW i \in DOMAIN guards[t], NEW u \in Threads, Send(t, i, u)
      PROVE  IInv'
  <2>1. /\ guards[t] \in Seq(Captured) /\ guards[u] \in Seq(Captured)
        /\ i \in 1..Len(guards[t]) /\ guards[t][i] \in Captured
    BY LenProperties DEF IInv, TypeOK
  <2> DEFINE left == WithoutGuard(guards[t], i)
             grown == Append(guards[u], guards[t][i])
  <2>2. left \in Seq(Captured) /\ grown \in Seq(Captured)
    BY <2>1, WithoutGuardType, AppendProperties
  <2>3. /\ guards' = [guards EXCEPT ![t] = left, ![u] = grown]
        /\ orderly' = [orderly EXCEPT ![t] = FALSE, ![u] = FALSE]
        /\ UNCHANGED <<settings, before, ported, sets, made>>
    BY <1>5 DEF Send
  <2> HIDE DEF left, grown
  <2>4. TypeOK'
    BY <2>2, <2>3 DEF IInv, TypeOK
  <2>5. OldestKnows' /\ RestoredInOrder'
    BY <2>3 DEF IInv, TypeOK, OldestKnows, RestoredInOrder
  <2> QED
    BY <2>4, <2>5 DEF IInv
<1> QED
  BY <1>1, <1>2, <1>3, <1>4, <1>5 DEF Next

LEMMA Invariant == Spec => []IInv
  BY InitInv, StepInv, PTL DEF Spec

\* Every variable has its type: a guard has a value for each setting (config.rs:300-307).
THEOREM TypeCorrect == Spec => []TypeOK
<1>1. IInv => TypeOK
  BY DEF IInv
<1> QED
  BY <1>1, Invariant, PTL

\* Guards nested to any depth on any number of threads, the builders that fail among them:
\* dropped newest first they give their thread back what the getters said before, and the
\* port unless a server was named with one or reset under them (config.rs:69-110, 298-299,
\* 350-366).
THEOREM OrderRestores == Spec => []RestoredInOrder
<1>1. IInv => RestoredInOrder
  BY DEF IInv
<1> QED
  BY <1>1, Invariant, PTL
=============================================================================
