--------------------------- MODULE OrderedDelivery ---------------------------
(***************************************************************************)
(* What a client of one connection may rely on, whatever the server does   *)
(* inside: segments are cut one after the other, each is recognised or     *)
(* fails, and the texts are delivered in the order of the segments; a text *)
(* is delivered once, and never before an earlier one that was recognised. *)
(***************************************************************************)
EXTENDS Integers, Sequences

CONSTANT MaxSegs    \* bound: segments of one connection

VARIABLES
    cut,        \* segments cut so far
    outcome,    \* how the recognition of each segment ended
    delivered   \* for each frame the client was sent, in order: the segment
                \* whose text it carries, or NoText

absVars == <<cut, outcome, delivered>>

Segments == 0 .. MaxSegs - 1
NoText == -1

Delivered(s) == \E i \in 1 .. Len(delivered) : delivered[i] = s

AbsInit ==
    /\ cut = 0
    /\ outcome = [s \in Segments |-> "pending"]
    /\ delivered = <<>>

\* One audio frame may end several segments.
Cut ==
    /\ cut' \in cut + 1 .. MaxSegs
    /\ UNCHANGED <<outcome, delivered>>

Recognise(s) ==
    /\ s < cut
    /\ outcome[s] = "pending"
    /\ \E o \in {"ok", "failed"} : outcome' = [outcome EXCEPT ![s] = o]
    /\ UNCHANGED <<cut, delivered>>

Deliver(s) ==
    /\ outcome[s] = "ok"
    /\ \A i \in 1 .. Len(delivered) : delivered[i] < s
    /\ \A u \in Segments : u < s => outcome[u] = "failed" \/ Delivered(u)
    /\ delivered' = Append(delivered, s)
    /\ UNCHANGED <<cut, outcome>>

\* A frame without a text: the opening of the stream, an error.
Notice ==
    /\ delivered' = Append(delivered, NoText)
    /\ UNCHANGED <<cut, outcome>>

AbsNext == Cut \/ Notice \/ \E s \in Segments : Recognise(s) \/ Deliver(s)

AbsSpec == AbsInit /\ [][AbsNext]_absVars
==============================================================================
