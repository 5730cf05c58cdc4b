------------------------- MODULE DnssdContext_proof -------------------------
(***************************************************************************)
(* For any number of handles and clones: the types, no callback into freed *)
(* memory, a context that outlives its handles and goes with the last.     *)
(***************************************************************************)
EXTENDS DnssdContext, TLAPS

Opening  == At("open") \/ At("return")
Closing  == At("drop raw") \/ At("drop state") \/ At("drop arc")
Mid(set, there, gone) == IF there THEN set \union {owner.of} ELSE IF gone THEN set \ {owner.of} ELSE set

\* What libcups knows and what is allocated follow the holders, up to the handle the
\* owner is opening or dropping.
Tracked ==
    /\ state = Mid(Open, Opening, At("drop arc"))
    /\ raw = Mid(Open, At("return"), At("drop state") \/ At("drop arc"))
    /\ Opening => owner.of \in Handles \ holders /\ Held # {}
    /\ Closing => owner.of \in Handles \intersect holders

\* The context is there for its holders, and for the step that deletes it.
Counted ==
    /\ holders # {} => context = "live" /\ (At("idle") \/ Opening \/ Closing)
    /\ context = "live" => holders # {} \/ At("drop inner")
    /\ At("new") => context = "none"
    /\ At("drop inner") => context = "live"
    /\ At("drop error state") => context = "deleted"
    /\ error_state <=> context = "live" \/ At("new") \/ At("drop error state")

\* libcups calls back for what it knows.
Called ==
    /\ callback \in Handles => callback \in raw
    /\ callback = "error" => context = "live"

IInv == TypeOK /\ Tracked /\ Counted /\ Called

LEMMA InitInv == Init => IInv
<1> SUFFICES ASSUME Init  PROVE IInv
  OBVIOUS
<1>1. TypeOK
  BY NamesAssumption DEF NamesAssumption, Init, TypeOK, Idle, Steps
<1>2. Tracked
  BY DEF Init, Tracked, Mid, Open, Opening, Closing, At, Idle
<1>3. Counted /\ Called
  BY NamesAssumption DEF NamesAssumption, Init, Counted, Called, Opening, Closing, At, Idle
<1> QED
  BY <1>1, <1>2, <1>3 DEF IInv

\* One step of the next-state relation at a time.
LEMMA StepInv == IInv /\ [Next]_vars => IInv'
<1> SUFFICES ASSUME IInv, [Next]_vars  PROVE IInv'
  OBVIOUS
<1> USE NamesAssumption DEF NamesAssumption
<1> USE DEF IInv, TypeOK, Tracked, Counted, Called, Mid, Open, Held, Opening, Closing, At, Go, Idle, Steps
<1>1. CASE UNCHANGED vars
  BY <1>1 DEF vars
<1>2. CASE NewState
  BY <1>2 DEF NewState
<1>3. ASSUME NEW clone \in Clones, NewContext(clone)  PROVE IInv'
  <2>1. holders = {} /\ Open = {} /\ state = {} /\ raw = {} /\ owner' = Idle
    BY <1>3 DEF NewContext
  <2>2. Open' = {}
    BY <2>1, <1>3 DEF NewContext
  <2>3. state' = {} /\ raw' = {} /\ UNCHANGED callback
    BY <2>1, <1>3 DEF NewContext
  <2>4. Tracked'
    BY <2>1, <2>2, <2>3
  <2>5. TypeOK' /\ Counted' /\ Called'
    BY <1>3 DEF NewContext
  <2> QED
    BY <2>4, <2>5
<1>4. ASSUME NEW clone \in Clones, Clone(clone)  PROVE IInv'
  <2>1. Open' = Open /\ Held' # {} /\ clone \notin Handles
    BY <1>4 DEF Clone
  <2>2. Tracked'
    BY <2>1, <1>4 DEF Clone
  <2>3. TypeOK' /\ Counted' /\ Called'
    BY <1>4 DEF Clone
  <2> QED
    BY <2>2, <2>3
<1>5. ASSUME NEW h \in Handles, OpenState(h)  PROVE IInv'
  <2>1. TypeOK'
    BY <1>5 DEF OpenState
  <2>2. Tracked'
    BY <1>5 DEF OpenState
  <2>3. Counted'
    BY <1>5 DEF OpenState
  <2>4. Called'
    BY <1>5 DEF OpenState
  <2> QED
    BY <2>1, <2>2, <2>3, <2>4
<1>6. CASE OpenRaw
  <2> DEFINE h == owner.of
  <2>0. /\ h \in Handles \ holders /\ Held # {} /\ state = Open \union {h} /\ raw = Open
        /\ UNCHANGED <<context, error_state, holders, callback>>
    BY <1>6 DEF OpenRaw
  <2>1. CASE raw' = raw \union {h} /\ Go("return", h) /\ UNCHANGED state
    <3>1. owner' = [step |-> "return", of |-> h]
      BY <2>1
    <3>2. Open' = Open /\ state' = Open \union {h} /\ raw' = Open \union {h}
      BY <2>0, <2>1
    <3>3. Tracked'
      BY <2>0, <3>1, <3>2
    <3>4. owner' \in [step : Steps, of : Handles \union {None}]
      BY <2>0, <3>1
    <3>5. TypeOK'
      BY <2>0, <2>1, <3>4
    <3>6. Counted'
      <4>1. holders # {} /\ At("open") /\ context = "live"
        BY <2>0, <1>6 DEF OpenRaw
      <4>2. owner'.step = "return"
        BY <3>1
      <4> QED
        BY <2>0, <4>1, <4>2
    <3>7. Called'
      BY <2>0, <2>1
    <3> QED
      BY <3>3, <3>5, <3>6, <3>7
  <2>2. CASE state' = state \ {h} /\ owner' = Idle /\ UNCHANGED raw
    <3>1. state' = Open /\ raw' = Open /\ Open' = Open
      BY <2>0, <2>2
    <3>2. Tracked'
      BY <2>2, <3>1
    <3>3. TypeOK' /\ Counted' /\ Called'
      BY <2>0, <2>2, <3>1, <1>6
    <3> QED
      BY <3>2, <3>3
  <2> QED
    BY <1>6, <2>1, <2>2 DEF OpenRaw
<1>7. CASE OpenReturn
  <2>1. TypeOK'
    BY <1>7 DEF OpenReturn
  <2>2. Tracked'
    BY <1>7 DEF OpenReturn
  <2>3. Counted'
    BY <1>7 DEF OpenReturn
  <2>4. Called'
    BY <1>7 DEF OpenReturn
  <2> QED
    BY <2>1, <2>2, <2>3, <2>4
<1>8. ASSUME NEW h \in Handles, Drop(h)  PROVE IInv'
  <2>1. TypeOK'
    BY <1>8 DEF Drop
  <2>2. Tracked'
    BY <1>8 DEF Drop
  <2>3. Counted'
    BY <1>8 DEF Drop
  <2>4. Called'
    BY <1>8 DEF Drop
  <2> QED
    BY <2>1, <2>2, <2>3, <2>4
<1>9. CASE DropRaw
  <2>1. TypeOK'
    BY <1>9 DEF DropRaw
  <2>2. Tracked'
    BY <1>9 DEF DropRaw
  <2>3. Counted'
    BY <1>9 DEF DropRaw
  <2>4. Called'
    BY <1>9 DEF DropRaw
  <2> QED
    BY <2>1, <2>2, <2>3, <2>4
<1>10. CASE DropState
  <2>1. TypeOK'
    BY <1>10 DEF DropState
  <2>2. Tracked'
    BY <1>10 DEF DropState
  <2>3. Counted'
    BY <1>10 DEF DropState
  <2>4. Called'
    BY <1>10 DEF DropState
  <2> QED
    BY <2>1, <2>2, <2>3, <2>4
<1>11. ASSUME NEW x \in Handles \union Clones, DropArc(x), At("drop arc") \/ x \in Clones  PROVE IInv'
  <2>1. /\ holders' = holders \ {x} /\ x \in holders /\ context = "live" /\ error_state
        /\ UNCHANGED <<context, error_state, raw, state, callback>>
    BY <1>11 DEF DropArc
  <2>2. state = Open \ {x} /\ raw = Open \ {x}
    <3>1. CASE At("drop arc") /\ x = owner.of
      BY <3>1
    <3>2. CASE At("idle") /\ x \in Held
      BY <3>2
    <3> QED
      BY <1>11, <3>1, <3>2 DEF DropArc
  <2>3. Open' = Open \ {x}
    BY <2>1
  <2>4. CASE holders' = {}
    <3>1. owner' = [step |-> "drop inner", of |-> None]
      BY <1>11, <2>4 DEF DropArc
    <3> QED
      BY <2>1, <2>2, <2>3, <2>4, <3>1
  <2>5. CASE holders' # {}
    <3>1. owner' = [step |-> "idle", of |-> None]
      BY <1>11, <2>5 DEF DropArc
    <3> QED
      BY <2>1, <2>2, <2>3, <2>5, <3>1
  <2> QED
    BY <2>4, <2>5
<1>12. CASE DropInner
  BY <1>12 DEF DropInner
<1>13. CASE DropErrorState
  BY <1>13 DEF DropErrorState
<1>14. CASE Callback
  BY <1>14 DEF Callback
<1>15. CASE CallbackReturns
  BY <1>15 DEF CallbackReturns
<1> QED
  BY <1>1, <1>2, <1>3, <1>4, <1>5, <1>6, <1>7, <1>8, <1>9, <1>10, <1>11, <1>12, <1>13, <1>14,
     <1>15 DEF Next, Dropping

LEMMA Invariant == Spec => []IInv
<1>1. Init => IInv
  BY InitInv
<1>2. IInv /\ [Next]_vars => IInv'
  BY StepInv
<1> QED
  BY <1>1, <1>2, PTL DEF Spec

\* The variables keep their types, and the context is deleted at most once.
THEOREM TypeCorrect == Spec => []TypeOK
<1>1. IInv => TypeOK
  BY DEF IInv
<1> QED
  BY <1>1, Invariant, PTL

\* Whatever is opened, cloned and dropped in whatever order, libcups never calls back
\* with a pointer to a freed box (dnssd.rs:50-54, 367-379).
THEOREM CallbacksFindTheirState == Spec => []CallbackStateAlive
<1>1. IInv => CallbackStateAlive
  BY DEF IInv, TypeOK, Tracked, Counted, Called, Mid, Open, Opening, Closing, At,
         CallbackStateAlive
<1> QED
  BY <1>1, Invariant, PTL

\* The context is there as long as anything created on it (dnssd.rs:389-391).
THEOREM ContextLastsLongest == Spec => []ContextOutlivesHandles
<1>1. ASSUME IInv  PROVE ContextOutlivesHandles
  <2>1. raw # {} => holders # {}
    BY <1>1 DEF IInv, Tracked, Mid, Open, Held, Opening, At
  <2> QED
    BY <1>1, <2>1 DEF IInv, Counted, ContextOutlivesHandles
<1> QED
  BY <1>1, Invariant, PTL

\* Nothing is left when the last holder has gone (dnssd.rs:164-166, 238-242).
THEOREM NothingLeft == Spec => []ContextReleased
<1>1. IInv => ContextReleased
  BY DEF IInv, TypeOK, Tracked, Counted, Called, Mid, Open, Opening, Closing, At,
         ContextReleased
<1> QED
  BY <1>1, Invariant, PTL
=============================================================================
