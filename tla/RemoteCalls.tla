----------------------------- MODULE RemoteCalls -----------------------------
(***************************************************************************)
(* What callers are promised of work that is done for them elsewhere: a    *)
(* call is worked on at most once, and what it returns is what was made of *)
(* it there.  Tasks and answers may be lost at any time, and a caller may  *)
(* give up at any time; an answer that comes then reaches nobody.          *)
(***************************************************************************)

CONSTANT Calls

VARIABLES
    status,     \* of each call: "idle", "waiting", "over", or what it returned
    todo,       \* calls whose work is still to be done
    answers     \* what has been made of calls and not been returned

promised == <<status, todo, answers>>

Outcomes == {"ok", "error"}

Init == status = [c \in Calls |-> "idle"] /\ todo = {} /\ answers = {}

Becomes(c, s) == status' = [status EXCEPT ![c] = s]

\* The call is not even accepted.
Refuse(c) == status[c] = "idle" /\ Becomes(c, "over") /\ UNCHANGED <<todo, answers>>

Ask(c) ==
    /\ status[c] = "idle" /\ Becomes(c, "waiting")
    /\ todo' = todo \cup {c} /\ UNCHANGED answers

Work(c, o) ==
    /\ c \in todo /\ todo' = todo \ {c}
    /\ answers' = answers \cup {<<c, o>>} /\ UNCHANGED status

\* Some tasks and answers are gone.
Lose == todo' \subseteq todo /\ answers' \subseteq answers /\ UNCHANGED status

Return(c, o) ==
    /\ status[c] = "waiting" /\ <<c, o>> \in answers
    /\ Becomes(c, o)
    /\ answers' = answers \ {<<c, o>>} /\ UNCHANGED todo

GiveUp(c) == status[c] = "waiting" /\ Becomes(c, "over") /\ UNCHANGED <<todo, answers>>

Next ==
    \/ \E c \in Calls :
        \/ Refuse(c) \/ Ask(c) \/ GiveUp(c)
        \/ \E o \in Outcomes : Work(c, o) \/ Return(c, o)
    \/ Lose

Spec == Init /\ [][Next]_promised
==============================================================================
