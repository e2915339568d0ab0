------------------------------ MODULE Admission ------------------------------
(***************************************************************************)
(* What the connection limit promises: at most MaxConnections connections  *)
(* hold a slot, a connection that comes while fewer hold one gets one, and *)
(* a slot given back can be given out again.                               *)
(***************************************************************************)
EXTENDS Integers, FiniteSets

CONSTANTS Conns, MaxConnections

VARIABLES holders,      \* connections that hold a slot
          refused       \* connections turned away and not yet gone

AbsInit == holders = {} /\ refused = {}

Acquire(c) ==
    /\ c \notin holders \cup refused
    /\ Cardinality(holders) < MaxConnections
    /\ holders' = holders \cup {c} /\ UNCHANGED refused

Refuse(c) ==
    /\ c \notin holders \cup refused
    /\ Cardinality(holders) >= MaxConnections
    /\ refused' = refused \cup {c} /\ UNCHANGED holders

Release(c) == c \in holders /\ holders' = holders \ {c} /\ UNCHANGED refused

Leave(c) == c \in refused /\ refused' = refused \ {c} /\ UNCHANGED holders

AbsNext == \E c \in Conns : Acquire(c) \/ Refuse(c) \/ Release(c) \/ Leave(c)

AbsSpec == AbsInit /\ [][AbsNext]_<<holders, refused>>
==============================================================================
