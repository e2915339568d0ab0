------------------------------- MODULE Gateway -------------------------------
(***************************************************************************)
(* The connections of the service as the connection manager sees them      *)
(* (src/src/api/connection_manager.py and the skeleton of                  *)
(* websocket_endpoint in src/src/api/websocket.py): a slot is taken before *)
(* the WebSocket is accepted and given back on every way out, the session  *)
(* is registered between the handshake and the cleanup.  What happens      *)
(* inside an open session is module Session.                               *)
(***************************************************************************)
EXTENDS Integers, FiniteSets

CONSTANTS
    Conns,              \* connections that may exist at the same time
    MaxConnections      \* settings.MAX_CONNECTIONS

ASSUME ConnsAssumption == IsFiniteSet(Conns)
ASSUME MaxAssumption == MaxConnections \in Nat

VARIABLES
    active_count,   \* ConnectionManager._active_count
    active,         \* keys of ConnectionManager._active: a sid is its connection
    gauge,          \* the asr_connections_current metric
    pc,             \* what each endpoint coroutine awaits
    session,        \* the coroutine's local variable session is not None
    released,       \* its connection_slot_released
    gone            \* the peer or the network has closed the connection

counters == <<active_count, active, gauge>>
vars == <<counters, pc, session, released, gone>>

Pcs == {"idle", "rejecting", "accept", "handshake", "streaming", "error", "closing", "finally"}

TypeOK ==
    /\ active_count \in 0 .. MaxConnections
    /\ active \in SUBSET Conns
    /\ gauge \in Nat
    /\ pc \in [Conns -> Pcs]
    /\ session \in [Conns -> BOOLEAN]
    /\ released \in [Conns -> BOOLEAN]
    /\ gone \in [Conns -> BOOLEAN]

Init ==
    /\ active_count = 0 /\ active = {} /\ gauge = 0
    /\ pc = [c \in Conns |-> "idle"]
    /\ session = [c \in Conns |-> FALSE]
    /\ released = [c \in Conns |-> FALSE]
    /\ gone = [c \in Conns |-> FALSE]

Goto(c, p) == pc' = [pc EXCEPT ![c] = p]

-----------------------------------------------------------------------------
(* ConnectionManager *)

\* try_acquire: FALSE when it refuses.
Full == active_count >= MaxConnections

ReleaseSlot == active_count' = active_count - 1

Register(c) == active' = active \cup {c}

Unregister(c) == active' = active \ {c} /\ ReleaseSlot

-----------------------------------------------------------------------------
(* websocket_endpoint *)

\* A client connects: it gets a slot or is turned away with close code 1013.
Connect(c) ==
    /\ pc[c] = "idle"
    /\ IF Full
         THEN Goto(c, "rejecting") /\ UNCHANGED active_count
         ELSE Goto(c, "accept") /\ active_count' = active_count + 1
    /\ session' = [session EXCEPT ![c] = FALSE]
    /\ released' = [released EXCEPT ![c] = FALSE]
    /\ gone' = [gone EXCEPT ![c] = FALSE]
    /\ UNCHANGED <<active, gauge>>

Rejected(c) ==
    /\ pc[c] = "rejecting"
    /\ Goto(c, "idle")
    /\ UNCHANGED <<counters, session, released, gone>>

Accepted(c) ==
    /\ pc[c] = "accept"
    /\ Goto(c, "handshake")
    /\ UNCHANGED <<counters, session, released, gone>>

\* The first message is a handshake (status=0): the session is created and
\* registered before the first await.
HandshakeOk(c) ==
    /\ pc[c] = "handshake"
    /\ session' = [session EXCEPT ![c] = TRUE]
    /\ Register(c)
    /\ gauge' = gauge + 1
    /\ Goto(c, "streaming")
    /\ UNCHANGED <<active_count, released, gone>>

\* Mutant of HandshakeRefused: the flag that says the slot is free is forgotten.
HandshakeRefusedUnflagged(c) ==
    /\ pc[c] = "handshake"
    /\ ReleaseSlot
    /\ Goto(c, "closing")
    /\ UNCHANGED <<active, gauge, session, released, gone>>

\* Another status: the slot is given back at once, then the socket is closed.
HandshakeRefused(c) ==
    /\ pc[c] = "handshake"
    /\ ReleaseSlot
    /\ released' = [released EXCEPT ![c] = TRUE]
    /\ Goto(c, "closing")
    /\ UNCHANGED <<active, gauge, session, gone>>

HandshakeTimeout(c) ==
    /\ pc[c] = "handshake"
    /\ Goto(c, "closing")
    /\ UNCHANGED <<counters, session, released, gone>>

\* A message that cannot be parsed, a session that cannot be created, or any
\* error of the open session: the error frame is sent, then the socket closed.
Raises(c) ==
    /\ pc[c] \in {"handshake", "streaming"}
    /\ Goto(c, "error")
    /\ UNCHANGED <<counters, session, released, gone>>

ErrorSent(c) ==
    /\ pc[c] = "error"
    /\ Goto(c, "closing")
    /\ UNCHANGED <<counters, session, released, gone>>

\* The end frame has been answered.
Ended(c) ==
    /\ pc[c] = "streaming"
    /\ Goto(c, "closing")
    /\ UNCHANGED <<counters, session, released, gone>>

\* Mutant of Disconnected: an open session does not notice that the wire is closed.
DisconnectedUnseen(c) ==
    /\ pc[c] = "handshake"
    /\ gone[c]
    /\ Goto(c, "finally")
    /\ UNCHANGED <<counters, session, released, gone>>

\* WebSocketDisconnect
Disconnected(c) ==
    /\ pc[c] \in {"handshake", "streaming"}
    /\ gone[c]
    /\ Goto(c, "finally")
    /\ UNCHANGED <<counters, session, released, gone>>

\* _close_connection returns, after three seconds at the latest.
Closed(c) ==
    /\ pc[c] = "closing"
    /\ Goto(c, "finally")
    /\ UNCHANGED <<counters, session, released, gone>>

\* Mutant of Finally: only a connection with a session gives its slot back.
FinallySessionOnly(c) ==
    /\ pc[c] = "finally"
    /\ IF session[c]
         THEN Unregister(c) /\ gauge' = gauge - 1
         ELSE UNCHANGED counters
    /\ released' = [released EXCEPT ![c] = TRUE]
    /\ Goto(c, "idle")
    /\ UNCHANGED <<session, gone>>

\* Mutant of Finally: the slot of a registered session is released, its entry kept.
FinallyKeepsEntry(c) ==
    /\ pc[c] = "finally"
    /\ IF session[c] \/ ~released[c]
         THEN ReleaseSlot /\ gauge' = (IF session[c] THEN gauge - 1 ELSE gauge)
         ELSE UNCHANGED <<active_count, gauge>>
    /\ released' = [released EXCEPT ![c] = TRUE]
    /\ Goto(c, "idle")
    /\ UNCHANGED <<active, session, gone>>

Finally(c) ==
    /\ pc[c] = "finally"
    /\ IF session[c]
         THEN Unregister(c) /\ gauge' = gauge - 1
         ELSE IF released[c] THEN UNCHANGED counters
                             ELSE ReleaseSlot /\ UNCHANGED <<active, gauge>>
    /\ released' = [released EXCEPT ![c] = TRUE]
    /\ Goto(c, "idle")
    /\ UNCHANGED <<session, gone>>

ClientGone(c) ==
    /\ pc[c] # "idle" /\ ~gone[c]
    /\ gone' = [gone EXCEPT ![c] = TRUE]
    /\ UNCHANGED <<counters, pc, session, released>>

\* Steps the server takes without a message from the client.
ServerStep(c) ==
    \/ Rejected(c) \/ Accepted(c) \/ HandshakeTimeout(c) \/ ErrorSent(c)
    \/ Disconnected(c) \/ Closed(c) \/ Finally(c)

ConnStep(c) ==
    \/ Connect(c) \/ HandshakeOk(c) \/ HandshakeRefused(c) \/ Raises(c) \/ Ended(c)
    \/ ServerStep(c) \/ ClientGone(c)

Next == \E c \in Conns : ConnStep(c)

Spec == Init /\ [][Next]_vars

\* Timers expire, closes end, and a lost peer is noticed by the ping timeout.
LiveSpec == Spec /\ \A c \in Conns : WF_vars(ServerStep(c))

-----------------------------------------------------------------------------
(* Properties *)

Holds(c) == pc[c] \notin {"idle", "rejecting"} /\ ~released[c]
Registered(c) == pc[c] \in {"streaming", "error", "closing", "finally"} /\ session[c]

\* The slot counter is exactly the number of connections that hold a slot: no
\* way out of the endpoint forgets a slot or gives one back twice.
SlotsExact ==
    /\ active_count = Cardinality({c \in Conns : Holds(c)})
    /\ active_count <= MaxConnections

\* The registry and the metric agree with the sessions that are open, and no
\* session is open without a slot.
RegistryExact ==
    /\ active = {c \in Conns : Registered(c)}
    /\ gauge = Cardinality(active)
    /\ \A c \in active : Holds(c)

\* The connection limit does what Admission promises: in particular a client is
\* turned away only when every slot is really in use.
Adm == INSTANCE Admission
    WITH holders <- {c \in Conns : Holds(c)}, refused <- {c \in Conns : pc[c] = "rejecting"}
AdmitsAsPromised == Adm!AbsSpec

\* A connection whose client has gone, or whose end has begun, gives its slot
\* back: no slot is lost to a client that has disappeared.
SlotsComeBack ==
    \A c \in Conns :
        (gone[c] \/ pc[c] \in {"error", "closing"}) /\ Holds(c) ~> ~Holds(c)
==============================================================================
