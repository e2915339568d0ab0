---------------------------- MODULE GatewayProofs ----------------------------
(***************************************************************************)
(* Proofs about Gateway, for every finite set of connections and every     *)
(* connection limit.                                                       *)
(***************************************************************************)
EXTENDS Gateway, FiniteSetTheorems, TLAPS

Holders == {c \in Conns : Holds(c)}
Refusals == {c \in Conns : pc[c] = "rejecting"}

\* A slot is given back early only by a refused handshake, which has no session;
\* an open session has not given its slot back.
SlotState ==
    \A c \in Conns :
        /\ released[c] /\ pc[c] # "idle" => pc[c] \in {"closing", "finally"}
        /\ session[c] /\ pc[c] # "idle" =>
              pc[c] \in {"streaming", "error", "closing", "finally"} /\ ~released[c]
        /\ pc[c] = "streaming" => session[c]

\* The variables have the shape the other parts rely on.
Shape ==
    /\ pc \in [Conns -> Pcs]
    /\ session \in [Conns -> BOOLEAN]
    /\ released \in [Conns -> BOOLEAN]
    /\ gone \in [Conns -> BOOLEAN]
    /\ active \in SUBSET Conns

Inv == Shape /\ SlotState /\ SlotsExact /\ RegistryExact

-----------------------------------------------------------------------------
(* Counting *)

\* A subset of the connections can be counted, and how one connection changes the count.
LEMMA CountConns ==
    ASSUME NEW S \in SUBSET Conns
    PROVE  /\ Cardinality(S) \in Nat
           /\ \A c \in Conns : c \notin S => Cardinality(S \cup {c}) = Cardinality(S) + 1
           /\ \A c \in Conns : c \in S => Cardinality(S \ {c}) = Cardinality(S) - 1
<1>1. IsFiniteSet(S) BY ConnsAssumption, FS_Subset
<1> QED BY <1>1, FS_CardinalityType, FS_AddElement, FS_RemoveElement

\* The initial state satisfies Inv.
LEMMA InitInv == Init => Inv
<1> SUFFICES ASSUME Init PROVE Inv
    OBVIOUS
<1>1. Shape /\ SlotState BY DEF Init, Shape, SlotState, Pcs
<1>2. {c \in Conns : Holds(c)} = {} /\ {c \in Conns : Registered(c)} = {}
    BY DEF Init, Holds, Registered
<1>3. Cardinality({}) = 0 BY FS_EmptySet
<1>4. SlotsExact BY <1>2, <1>3, MaxAssumption DEF Init, SlotsExact
<1>5. RegistryExact BY <1>2, <1>3 DEF Init, RegistryExact
<1> QED BY <1>1, <1>4, <1>5 DEF Inv

\* A step that leaves the holders, the registered sessions and the counters alone.
LEMMA KeepCounts ==
    ASSUME Inv, UNCHANGED counters, Holders' = Holders,
           {d \in Conns : Registered(d)}' = {d \in Conns : Registered(d)}
    PROVE  SlotsExact' /\ RegistryExact'
<1>1. \A d \in Conns : Holds(d)' <=> Holds(d) BY DEF Holders
<1> QED BY <1>1 DEF Inv, SlotsExact, RegistryExact, counters, Holders

\* Connection c, which held a slot, has given it back.
LEMMA SlotGivenBack ==
    ASSUME Inv, NEW c \in Conns, Holds(c), ReleaseSlot, Holders' = Holders \ {c}
    PROVE  SlotsExact'
<1>1. c \in Holders /\ Holders \in SUBSET Conns BY DEF Holders
<1>2. Cardinality(Holders') = Cardinality(Holders) - 1 /\ Cardinality(Holders) \in Nat
    BY <1>1, CountConns
<1> QED BY <1>2, MaxAssumption DEF Inv, SlotsExact, ReleaseSlot, Holders

\* Every step keeps Inv.
LEMMA StepInv == Inv /\ [Next]_vars => Inv'
<1> SUFFICES ASSUME Inv, [Next]_vars PROVE Inv'
    OBVIOUS
<1> USE DEF Inv, Shape, Goto
<1>1. ASSUME NEW c \in Conns, Connect(c) PROVE Inv'
  <2>1. Shape' /\ SlotState' BY <1>1 DEF Connect, SlotState, Pcs
  <2>2. {d \in Conns : Registered(d)}' = {d \in Conns : Registered(d)}
      BY <1>1 DEF Connect, Registered
  <2>3. CASE Full
    <3>1. Holders' = Holders BY <1>1, <2>3 DEF Connect, Holders, Holds
    <3> QED BY <1>1, <2>1, <2>2, <2>3, <3>1, KeepCounts DEF Connect, counters
  <2>4. CASE ~Full
    <3>1. Holders' = Holders \cup {c} /\ c \notin Holders
        BY <1>1, <2>4 DEF Connect, Holders, Holds
    <3>2. Cardinality(Holders') = Cardinality(Holders) + 1 /\ Cardinality(Holders) \in Nat
        BY <3>1, CountConns DEF Holders
    <3>3. SlotsExact' BY <1>1, <2>4, <3>2, MaxAssumption DEF Connect, Full, SlotsExact, Holders
    <3>4. \A d \in Conns : Holds(d) => Holds(d)' BY <3>1 DEF Holders
    <3>5. RegistryExact' BY <1>1, <2>2, <3>4 DEF Connect, RegistryExact
    <3> QED BY <2>1, <3>3, <3>5
  <2> QED BY <2>3, <2>4
<1>2. ASSUME NEW c \in Conns,
             Rejected(c) \/ Accepted(c) \/ HandshakeTimeout(c) \/ Raises(c) \/ ErrorSent(c)
               \/ Ended(c) \/ Disconnected(c) \/ Closed(c) \/ ClientGone(c)
      PROVE  Inv'
  <2> USE DEF Rejected, Accepted, HandshakeTimeout, Raises, ErrorSent, Ended, Disconnected,
              Closed, ClientGone
  <2>1. Shape' /\ SlotState' BY <1>2 DEF SlotState, Pcs, counters
  <2>2. Holders' = Holders BY <1>2 DEF Holders, Holds
  <2>3. {d \in Conns : Registered(d)}' = {d \in Conns : Registered(d)}
      BY <1>2 DEF Registered, SlotState
  <2>4. UNCHANGED counters BY <1>2
  <2> QED BY <2>1, <2>2, <2>3, <2>4, KeepCounts
<1>3. ASSUME NEW c \in Conns, HandshakeOk(c) PROVE Inv'
  <2>1. Shape' /\ SlotState' BY <1>3 DEF HandshakeOk, Register, SlotState, Pcs
  <2>2. \A d \in Conns : Holds(d)' <=> Holds(d) BY <1>3 DEF HandshakeOk, Holds
  <2>3. SlotsExact' BY <1>3, <2>2 DEF HandshakeOk, SlotsExact
  <2>4. c \notin active /\ Holds(c)
      BY <1>3 DEF HandshakeOk, Register, RegistryExact, Registered, Holds, SlotState
  <2>5. {d \in Conns : Registered(d)}' = {d \in Conns : Registered(d)} \cup {c}
      BY <1>3 DEF HandshakeOk, Registered
  <2>6. Cardinality(active') = Cardinality(active) + 1 BY <1>3, <2>4, CountConns DEF HandshakeOk, Register
  <2>7. RegistryExact' BY <1>3, <2>2, <2>4, <2>5, <2>6 DEF HandshakeOk, Register, RegistryExact
  <2> QED BY <2>1, <2>3, <2>7
<1>4. ASSUME NEW c \in Conns, HandshakeRefused(c) PROVE Inv'
  <2>1. ~released[c] /\ ~session[c] BY <1>4 DEF HandshakeRefused, SlotState
  <2>2. Shape' /\ SlotState' BY <1>4, <2>1 DEF HandshakeRefused, SlotState, Pcs
  <2>3. Holds(c) /\ Holders' = Holders \ {c} BY <1>4, <2>1 DEF HandshakeRefused, Holders, Holds
  <2>4. SlotsExact' BY <1>4, <2>3, SlotGivenBack DEF HandshakeRefused
  <2>5. \A d \in Conns : Registered(d)' <=> Registered(d)
      BY <1>4, <2>1 DEF HandshakeRefused, Registered
  <2>6. c \notin active BY <2>1 DEF RegistryExact, Registered
  <2>7. \A d \in active : Holds(d)' BY <2>3, <2>6 DEF RegistryExact, Holders
  <2>8. RegistryExact' BY <1>4, <2>5, <2>7 DEF HandshakeRefused, RegistryExact
  <2> QED BY <2>2, <2>4, <2>8
<1>5. ASSUME NEW c \in Conns, Finally(c) PROVE Inv'
  <2>1. Shape' /\ SlotState' BY <1>5 DEF Finally, SlotState, Pcs, Unregister, counters
  <2>2. Holders' = Holders \ {c} BY <1>5 DEF Finally, Holders, Holds
  <2>3. {d \in Conns : Registered(d)}' = {d \in Conns : Registered(d)} \ {c}
      BY <1>5 DEF Finally, Registered
  <2>4. \A d \in Conns : d # c /\ Holds(d) => Holds(d)' BY <2>2 DEF Holders
  <2>5. CASE session[c]
    <3>1. ~released[c] /\ Holds(c) /\ c \in active
        BY <1>5, <2>5 DEF Finally, SlotState, Holds, RegistryExact, Registered
    <3>2. SlotsExact' BY <1>5, <2>2, <2>5, <3>1, SlotGivenBack DEF Finally, Unregister
    <3>3. Cardinality(active') = Cardinality(active) - 1 /\ Cardinality(active) \in Nat
        BY <1>5, <2>5, <3>1, CountConns DEF Finally, Unregister
    <3>4. RegistryExact' BY <1>5, <2>3, <2>4, <2>5, <3>3 DEF Finally, Unregister, RegistryExact
    <3> QED BY <2>1, <3>2, <3>4
  <2>6. CASE ~session[c]
    <3>1. c \notin active /\ c \notin {d \in Conns : Registered(d)}
        BY <2>6 DEF RegistryExact, Registered
    <3>2. RegistryExact' BY <1>5, <2>3, <2>4, <2>6, <3>1 DEF Finally, RegistryExact, counters
    <3>3. CASE released[c]
      <4>1. Holders' = Holders BY <2>2, <3>3 DEF Holders, Holds
      <4>2. \A d \in Conns : Holds(d)' <=> Holds(d) BY <4>1 DEF Holders
      <4>3. SlotsExact' BY <1>5, <2>6, <3>3, <4>2 DEF Finally, SlotsExact, counters
      <4> QED BY <2>1, <3>2, <4>3
    <3>4. CASE ~released[c]
      <4>1. Holds(c) BY <1>5, <3>4 DEF Finally, Holds
      <4>2. SlotsExact' BY <1>5, <2>2, <2>6, <3>4, <4>1, SlotGivenBack DEF Finally
      <4> QED BY <2>1, <3>2, <4>2
    <3> QED BY <3>3, <3>4
  <2> QED BY <2>5, <2>6
<1>6. ASSUME UNCHANGED vars PROVE Inv'
  BY <1>6 DEF vars, counters, SlotState, SlotsExact, RegistryExact, Holds, Registered
<1> QED BY <1>1, <1>2, <1>3, <1>4, <1>5, <1>6 DEF Next, ConnStep, ServerStep

-----------------------------------------------------------------------------
(* The theorems *)

\* The slot counter is the number of connections that hold a slot.
THEOREM SlotsNeverLost == Spec => []SlotsExact
<1>1. Inv => SlotsExact BY DEF Inv
<1> QED BY InitInv, StepInv, <1>1, PTL DEF Spec

\* The registry and the metric agree with the open sessions, each with a slot.
THEOREM RegistryAgrees == Spec => []RegistryExact
<1>1. Inv => RegistryExact BY DEF Inv
<1> QED BY InitInv, StepInv, <1>1, PTL DEF Spec

\* The variables keep their types; the counter never leaves 0 .. MaxConnections.
THEOREM GatewayTypes == Spec => []TypeOK
<1>1. Inv => TypeOK
  <2> SUFFICES ASSUME Inv PROVE TypeOK
      OBVIOUS
  <2>1. Cardinality(Holders) \in Nat /\ Cardinality(active) \in Nat
      BY CountConns DEF Inv, Shape, Holders
  <2> QED BY <2>1, MaxAssumption DEF Inv, Shape, SlotsExact, RegistryExact, TypeOK, Holders
<1> QED BY InitInv, StepInv, <1>1, PTL DEF Spec

\* The cardinality that Admission speaks of is the one this module speaks of.
LEMMA SameCardinality == ASSUME NEW S PROVE Adm!Cardinality(S) = Cardinality(S)
BY Zenon DEF Adm!Cardinality, Cardinality

\* Gateway implements Admission.
THEOREM AdmissionImplemented == Spec => AdmitsAsPromised
<1>1. Init => Adm!AbsInit BY DEF Init, Adm!AbsInit, Holds
<1>2. Inv /\ [Next]_vars => [Adm!AbsNext]_<<Holders, Refusals>>
  <2> SUFFICES ASSUME Inv, [Next]_vars
               PROVE  \/ \E c \in Conns : Adm!Acquire(c) \/ Adm!Refuse(c) \/ Adm!Release(c) \/ Adm!Leave(c)
                      \/ Holders' = Holders /\ Refusals' = Refusals
      BY DEF Adm!AbsNext
  <2> USE DEF Inv, Shape, Goto
  <2>1. ASSUME NEW c \in Conns, Connect(c) PROVE Adm!Acquire(c) \/ Adm!Refuse(c)
    <3>1. active_count = Cardinality(Holders) BY DEF SlotsExact, Holders
    <3>2. c \notin Holders \cup Refusals BY <2>1 DEF Connect, Holders, Refusals, Holds
    <3>3. Cardinality(Holders) \in Nat BY CountConns DEF Holders
    <3>4. CASE Full
      <4>1. Holders' = Holders /\ Refusals' = Refusals \cup {c}
          BY <2>1, <3>4 DEF Connect, Holders, Refusals, Holds
      <4>2. Adm!Cardinality(Holders) >= MaxConnections BY <3>1, <3>4, SameCardinality DEF Full
      <4> QED BY <3>2, <4>1, <4>2, Zenon DEF Adm!Refuse, Holders, Refusals
    <3>5. CASE ~Full
      <4>1. Holders' = Holders \cup {c} /\ Refusals' = Refusals
          BY <2>1, <3>5 DEF Connect, Holders, Refusals, Holds
      <4>2. Adm!Cardinality(Holders) < MaxConnections
          BY <3>1, <3>3, <3>5, MaxAssumption, SameCardinality DEF Full
      <4> QED BY <3>2, <4>1, <4>2, Zenon DEF Adm!Acquire, Holders, Refusals
    <3> QED BY <3>4, <3>5
  <2>2. ASSUME NEW c \in Conns, Rejected(c) PROVE Adm!Leave(c)
    <3>1. /\ c \in Refusals /\ Refusals' = Refusals \ {c} /\ Holders' = Holders
        BY <2>2 DEF Rejected, Refusals, Holders, Holds
    <3> QED BY <3>1 DEF Adm!Leave, Holders, Refusals
  <2>3. ASSUME NEW c \in Conns, HandshakeRefused(c) \/ Finally(c)
        PROVE  Adm!Release(c) \/ (Holders' = Holders /\ Refusals' = Refusals)
    <3>1. Holders' = Holders \ {c} /\ Refusals' = Refusals
        BY <2>3 DEF HandshakeRefused, Finally, Refusals, Holders, Holds
    <3> QED BY <3>1 DEF Adm!Release, Holders, Refusals
  <2>4. ASSUME NEW c \in Conns,
               Accepted(c) \/ HandshakeOk(c) \/ HandshakeTimeout(c) \/ Raises(c) \/ ErrorSent(c)
                 \/ Ended(c) \/ Disconnected(c) \/ Closed(c) \/ ClientGone(c)
        PROVE  Holders' = Holders /\ Refusals' = Refusals
    BY <2>4 DEF Accepted, HandshakeOk, HandshakeTimeout, Raises, ErrorSent, Ended, Disconnected,
                Closed, ClientGone, Refusals, Holders, Holds
  <2>5. UNCHANGED vars => Holders' = Holders /\ Refusals' = Refusals
      BY DEF vars, Holders, Refusals, Holds
  <2> QED BY <2>1, <2>2, <2>3, <2>4, <2>5 DEF Next, ConnStep, ServerStep
<1> QED BY InitInv, StepInv, <1>1, <1>2, PTL DEF Spec, AdmitsAsPromised, Adm!AbsSpec, Holders, Refusals
==============================================================================
