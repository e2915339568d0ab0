------------------------------ MODULE ItnProofs ------------------------------
(***************************************************************************)
(* Theorems about ItnPool, for any calls, any workers and any number of    *)
(* threads: a call gets at most one answer, nobody blocks on a full        *)
(* waiter, the table of waiters holds calls that wait, and the pool        *)
(* implements RemoteCalls.                                                 *)
(***************************************************************************)
EXTENDS ItnPool, FiniteSetTheorems, TLAPS

\* The places where the task of a call, or its answer, can be.
Tasked(c) == \E i \in 1 .. Len(taskQueue) : taskQueue[i] = c
Worked(c) == \E w \in Workers : worker[w] = c
Answered(c) == \E i \in 1 .. Len(results) : results[i][1] = c
Handed(c) == handing[1] = c
Kept(c) == waiter[c] # "none"
Nowhere(c) == ~Tasked(c) /\ ~Worked(c) /\ ~Answered(c) /\ ~Handed(c) /\ ~Kept(c)

\* No place holds a call twice.
Single ==
    /\ \A i, j \in 1 .. Len(taskQueue) : taskQueue[i] = taskQueue[j] => i = j
    /\ \A v, w \in Workers : worker[v] = worker[w] /\ worker[v] # NoCall => v = w
    /\ \A i, j \in 1 .. Len(results) : results[i][1] = results[j][1] => i = j

\* No two places hold the same call.
Apart ==
    \A c \in Calls :
        /\ Tasked(c) => ~Worked(c) /\ ~Answered(c) /\ ~Handed(c) /\ ~Kept(c)
        /\ Worked(c) => ~Answered(c) /\ ~Handed(c) /\ ~Kept(c)
        /\ Answered(c) => ~Handed(c) /\ ~Kept(c)
        /\ Handed(c) => ~Kept(c)

\* A call that has not asked, or has been answered, is in none of them.
Asked ==
    \A c \in Calls :
        pc[c] \in {"idle", "register", "apply", "answered", "failed"} => Nowhere(c)

\* A waiter that is still in the table has been given nothing.
Waits == \A c \in pending : ~Handed(c) /\ ~Kept(c)

\* The dispatcher holds an answer exactly while it is to hand it over.
Handing == dispatcher = "put" <=> handing # NoAnswer

\* shutdown() drops the runtime last.
StopOrder ==
    /\ pool = "run" <=> stop \in {"no", "close"}
    /\ runtime <=> stop # "done"

ItnInv ==
    /\ TypeOK /\ Single /\ Apart /\ Asked /\ Waits /\ Handing /\ StopOrder
    /\ NothingLeftPending

-----------------------------------------------------------------------------
(* Sequences *)

\* What a sequence of calls holds after Append and Tail.
LEMMA CallsInQueue ==
    ASSUME NEW s \in Seq(Calls), NEW x \in Calls
    PROVE  /\ Append(s, x) \in Seq(Calls)
           /\ \A c : (\E i \in 1 .. Len(Append(s, x)) : Append(s, x)[i] = c) <=>
                     ((\E i \in 1 .. Len(s) : s[i] = c) \/ c = x)
           /\ (\A i, j \in 1 .. Len(s) : s[i] = s[j] => i = j)
                /\ ~(\E i \in 1 .. Len(s) : s[i] = x) =>
                \A i, j \in 1 .. Len(Append(s, x)) :
                    Append(s, x)[i] = Append(s, x)[j] => i = j
  <1> DEFINE t == Append(s, x)
  <1>1. /\ t \in Seq(Calls) /\ Len(t) = Len(s) + 1 /\ Len(s) \in Nat
        /\ t[Len(s) + 1] = x /\ \A i \in 1 .. Len(s) : t[i] = s[i]
    OBVIOUS
  <1> HIDE DEF t
  <1>2. \A i \in 1 .. Len(t) : i \in 1 .. Len(s) \/ i = Len(s) + 1
    BY <1>1
  <1>3. \A i \in 1 .. Len(s) : i \in 1 .. Len(t)
    BY <1>1
  <1>4. Len(s) + 1 \in 1 .. Len(t)
    BY <1>1
  <1>5. \A c : (\E i \in 1 .. Len(t) : t[i] = c) <=> ((\E i \in 1 .. Len(s) : s[i] = c) \/ c = x)
    BY <1>1, <1>2, <1>3, <1>4
  <1>6. (\A i, j \in 1 .. Len(s) : s[i] = s[j] => i = j) /\ ~(\E i \in 1 .. Len(s) : s[i] = x)
          => \A i, j \in 1 .. Len(t) : t[i] = t[j] => i = j
    BY <1>1, <1>2
  <1> QED
    BY <1>1, <1>5, <1>6 DEF t

\* Taking the head of a queue of calls without repetition leaves the others.
LEMMA CallsInTail ==
    ASSUME NEW s \in Seq(Calls), s # <<>>, \A i, j \in 1 .. Len(s) : s[i] = s[j] => i = j
    PROVE  /\ Head(s) \in Calls /\ Tail(s) \in Seq(Calls)
           /\ \E i \in 1 .. Len(s) : s[i] = Head(s)
           /\ \A c : (\E i \in 1 .. Len(Tail(s)) : Tail(s)[i] = c) <=>
                     ((\E i \in 1 .. Len(s) : s[i] = c) /\ c # Head(s))
           /\ \A i, j \in 1 .. Len(Tail(s)) : Tail(s)[i] = Tail(s)[j] => i = j
  <1> DEFINE t == Tail(s)
             h == Head(s)
  <1>1. /\ t \in Seq(Calls) /\ Len(t) = Len(s) - 1 /\ Len(s) \in Nat /\ Len(s) > 0
        /\ h \in Calls /\ h = s[1] /\ \A i \in 1 .. Len(t) : t[i] = s[i + 1]
    OBVIOUS
  <1> HIDE DEF t, h
  <1>2. \A i \in 1 .. Len(t) : i + 1 \in 1 .. Len(s) /\ i + 1 # 1 /\ i \in Int
    BY <1>1
  <1>3. ASSUME NEW i \in 1 .. Len(s), i # 1
        PROVE  i - 1 \in 1 .. Len(t) /\ t[i - 1] = s[i]
    <2>1. i - 1 \in 1 .. Len(t) /\ (i - 1) + 1 = i
      BY <1>1, <1>3
    <2> QED
      BY <1>1, <2>1
  <1>4. 1 \in 1 .. Len(s)
    BY <1>1
  <1>5. \A i, j \in 1 .. Len(t) : t[i] = t[j] => i = j
    BY <1>1, <1>2
  <1>6. ASSUME NEW c
        PROVE  (\E i \in 1 .. Len(t) : t[i] = c) <=> ((\E i \in 1 .. Len(s) : s[i] = c) /\ c # h)
    BY <1>1, <1>2, <1>3, <1>4
  <1> QED
    BY <1>1, <1>4, <1>5, <1>6 DEF t, h
\* The same of a queue of answers, each named after its call.
LEMMA AnswersInQueue ==
    ASSUME NEW s \in Seq(Answers), NEW x \in Answers
    PROVE  /\ Append(s, x) \in Seq(Answers)
           /\ \A c : (\E i \in 1 .. Len(Append(s, x)) : Append(s, x)[i][1] = c) <=>
                     ((\E i \in 1 .. Len(s) : s[i][1] = c) \/ c = x[1])
           /\ (\A i, j \in 1 .. Len(s) : s[i][1] = s[j][1] => i = j)
                /\ ~(\E i \in 1 .. Len(s) : s[i][1] = x[1]) =>
                \A i, j \in 1 .. Len(Append(s, x)) :
                    Append(s, x)[i][1] = Append(s, x)[j][1] => i = j
  <1> DEFINE t == Append(s, x)
  <1>1. /\ t \in Seq(Answers) /\ Len(t) = Len(s) + 1 /\ Len(s) \in Nat
        /\ t[Len(s) + 1] = x /\ \A i \in 1 .. Len(s) : t[i] = s[i]
    OBVIOUS
  <1> HIDE DEF t
  <1>2. \A i \in 1 .. Len(t) : i \in 1 .. Len(s) \/ i = Len(s) + 1
    BY <1>1
  <1>3. \A i \in 1 .. Len(s) : i \in 1 .. Len(t)
    BY <1>1
  <1>4. Len(s) + 1 \in 1 .. Len(t)
    BY <1>1
  <1>5. \A c : (\E i \in 1 .. Len(t) : t[i][1] = c) <=> ((\E i \in 1 .. Len(s) : s[i][1] = c) \/ c = x[1])
    BY <1>1, <1>2, <1>3, <1>4
  <1>6. (\A i, j \in 1 .. Len(s) : s[i][1] = s[j][1] => i = j) /\ ~(\E i \in 1 .. Len(s) : s[i][1] = x[1])
          => \A i, j \in 1 .. Len(t) : t[i][1] = t[j][1] => i = j
    BY <1>1, <1>2
  <1> QED
    BY <1>1, <1>5, <1>6 DEF t

\* Taking the head of a queue of answers, one for each call, leaves the others.
LEMMA AnswersInTail ==
    ASSUME NEW s \in Seq(Answers), s # <<>>, \A i, j \in 1 .. Len(s) : s[i][1] = s[j][1] => i = j
    PROVE  /\ Head(s) \in Answers /\ Tail(s) \in Seq(Answers)
           /\ \E i \in 1 .. Len(s) : s[i][1] = Head(s)[1]
           /\ \A c : (\E i \in 1 .. Len(Tail(s)) : Tail(s)[i][1] = c) <=>
                     ((\E i \in 1 .. Len(s) : s[i][1] = c) /\ c # Head(s)[1])
           /\ \A i, j \in 1 .. Len(Tail(s)) : Tail(s)[i][1] = Tail(s)[j][1] => i = j
  <1> DEFINE t == Tail(s)
             h == Head(s)
  <1>1. /\ t \in Seq(Answers) /\ Len(t) = Len(s) - 1 /\ Len(s) \in Nat /\ Len(s) > 0
        /\ h \in Answers /\ h = s[1] /\ \A i \in 1 .. Len(t) : t[i] = s[i + 1]
    OBVIOUS
  <1> HIDE DEF t, h
  <1>2. \A i \in 1 .. Len(t) : i + 1 \in 1 .. Len(s) /\ i + 1 # 1 /\ i \in Int
    BY <1>1
  <1>3. ASSUME NEW i \in 1 .. Len(s), i # 1
        PROVE  i - 1 \in 1 .. Len(t) /\ t[i - 1] = s[i]
    <2>1. i - 1 \in 1 .. Len(t) /\ (i - 1) + 1 = i
      BY <1>1, <1>3
    <2> QED
      BY <1>1, <2>1
  <1>4. 1 \in 1 .. Len(s)
    BY <1>1
  <1>5. \A i, j \in 1 .. Len(t) : t[i][1] = t[j][1] => i = j
    BY <1>1, <1>2, SMTT(30)
  <1>6. ASSUME NEW c
        PROVE  (\E i \in 1 .. Len(t) : t[i][1] = c) <=> ((\E i \in 1 .. Len(s) : s[i][1] = c) /\ c # h[1])
    BY <1>1, <1>2, <1>3, <1>4, SMTT(30)
  <1> QED
    BY <1>1, <1>4, <1>5, <1>6 DEF t, h

-----------------------------------------------------------------------------
(* The invariant *)

Places == <<taskQueue, worker, results, handing, waiter>>

\* The invariant holds of a pool that has just started.
LEMMA ItnInitially == Init => ItnInv
  <1> SUFFICES ASSUME Init PROVE ItnInv
    OBVIOUS
  <1>1. TypeOK
    <2>1. <<>> \in Seq(Calls) /\ <<>> \in Seq(Answers)
      OBVIOUS
    <2> QED
      BY <2>1 DEF Init, TypeOK, Pcs
  <1>2. \A c \in Calls : Nowhere(c) /\ pc[c] = "idle"
    BY NoCallAssumption DEF Init, Nowhere, Tasked, Worked, Answered, Handed, Kept, NoAnswer
  <1>3. Single
    BY DEF Init, Single
  <1>4. Apart /\ Asked
    BY <1>2 DEF Apart, Asked, Nowhere
  <1>5. Waits /\ Handing /\ StopOrder /\ NothingLeftPending
    BY DEF Init, Waits, Handing, StopOrder, NothingLeftPending
  <1> QED
    BY <1>1, <1>3, <1>4, <1>5 DEF ItnInv

\* A step that moves one call only, and leaves the places alone, keeps what is
\* said of them when the call's new place in the code fits.
LEMMA CallMoves ==
    ASSUME ItnInv, NEW c \in Calls, NEW p \in Pcs, Goto(c, p), UNCHANGED Places,
           p \in {"idle", "register", "apply", "answered", "failed"} => Nowhere(c)
    PROVE  Single' /\ Apart' /\ Asked' /\ pc' \in [Calls -> Pcs]
           /\ pc'[c] = p /\ \A d \in Calls : d # c => pc'[d] = pc[d]
  <1>1. TypeOK /\ Single /\ Apart /\ Asked
    BY DEF ItnInv
  <1>2. /\ pc' \in [Calls -> Pcs] /\ pc'[c] = p
        /\ \A d \in Calls : d # c => pc'[d] = pc[d]
    BY <1>1 DEF Goto, TypeOK
  <1>3. Single'
    BY <1>1 DEF Single, Places
  <1>4. \A d : /\ Tasked(d)' <=> Tasked(d)
               /\ Worked(d)' <=> Worked(d)
               /\ Answered(d)' <=> Answered(d)
               /\ Handed(d)' <=> Handed(d)
               /\ Kept(d)' <=> Kept(d)
    BY DEF Places, Tasked, Worked, Answered, Handed, Kept
  <1>5. Apart'
    BY <1>1, <1>4 DEF Apart
  <1>6. Asked'
    <2>1. \A d : Nowhere(d)' <=> Nowhere(d)
      BY <1>4 DEF Nowhere
    <2> QED
      BY <1>1, <1>2, <2>1 DEF Asked
  <1> QED
    BY <1>2, <1>3, <1>5, <1>6

\* Likewise a step that leaves the places and the calls alone.
LEMMA OthersMove ==
    ASSUME ItnInv, UNCHANGED Places, UNCHANGED pc
    PROVE  Single' /\ Apart' /\ Asked'
  <1>1. Single /\ Apart /\ Asked
    BY DEF ItnInv
  <1> QED
    BY <1>1 DEF Single, Apart, Asked, Nowhere, Places, Tasked, Worked, Answered, Handed, Kept

-----------------------------------------------------------------------------
(* Calls *)

\* A step of a call outside the places: only pc and the table change.
LEMMA QuietCallKeeps ==
    ASSUME ItnInv, NEW c \in Calls, NEW p \in Pcs, Goto(c, p),
           UNCHANGED <<shared, queues, dispatch, waiter>>,
           p \in {"idle", "register", "apply", "answered", "failed"} => Nowhere(c),
           \/ pending' = pending
           \/ pending' = pending \cup {c} /\ Nowhere(c)
           \/ pending' = pending \ {c},
           pool = "run" /\ c \in pending' => p \in {"apply", "wait", "expired"}
    PROVE  ItnInv'
  <1>1. UNCHANGED Places
    BY DEF Places, queues, dispatch
  <1>2. /\ Single' /\ Apart' /\ Asked' /\ pc' \in [Calls -> Pcs]
        /\ pc'[c] = p /\ \A d \in Calls : d # c => pc'[d] = pc[d]
    BY <1>1, CallMoves
  <1>3. TypeOK /\ Waits /\ Handing /\ StopOrder /\ NothingLeftPending
    BY DEF ItnInv
  <1>4. pending' \in SUBSET Calls
    BY <1>3 DEF TypeOK
  <1>5. TypeOK'
    BY <1>2, <1>3, <1>4 DEF TypeOK, shared, queues, dispatch
  <1>6. Waits'
    BY <1>3, <1>4 DEF Waits, Nowhere, Handed, Kept, dispatch
  <1>7. Handing' /\ StopOrder'
    BY <1>3 DEF Handing, StopOrder, shared, dispatch
  <1>8. NothingLeftPending'
    BY <1>2, <1>3, <1>4 DEF NothingLeftPending, TypeOK, shared
  <1> QED
    BY <1>2, <1>5, <1>6, <1>7, <1>8 DEF ItnInv

\* Submitting a task, or failing to because the pool is closed, keeps the invariant.
LEMMA ApplyKeeps == ASSUME ItnInv, NEW c \in Calls, Apply(c) PROVE ItnInv'
  <1>1. /\ TypeOK /\ Single /\ Apart /\ Asked /\ Waits /\ Handing /\ StopOrder
        /\ NothingLeftPending
    BY DEF ItnInv
  <1>2. Nowhere(c) /\ pc[c] = "apply"
    BY <1>1 DEF Asked, Apply
  <1>3. CASE ~(runtime /\ pool = "run")
    <2>1. /\ Goto(c, "raised") /\ pending' = pending
          /\ UNCHANGED <<shared, queues, dispatch, waiter>>
      BY <1>3 DEF Apply, queues
    <2>2. pool # "run"
      BY <1>1, <1>3 DEF StopOrder
    <2> QED
      BY <1>2, <2>1, <2>2, QuietCallKeeps DEF Pcs
  <1>4. CASE runtime /\ pool = "run"
    <2>1. /\ taskQueue' = Append(taskQueue, c) /\ pc' = [pc EXCEPT ![c] = "wait"]
          /\ UNCHANGED <<shared, pending, worker, results, dispatch, waiter>>
      BY <1>4 DEF Apply, Goto
    <2>2. /\ taskQueue \in Seq(Calls) /\ \A i, j \in 1 .. Len(taskQueue) :
                taskQueue[i] = taskQueue[j] => i = j
      BY <1>1 DEF TypeOK, Single
    <2>3. /\ taskQueue' \in Seq(Calls)
          /\ \A d : Tasked(d)' <=> (Tasked(d) \/ d = c)
          /\ \A i, j \in 1 .. Len(taskQueue') : taskQueue'[i] = taskQueue'[j] => i = j
      BY <1>2, <2>1, <2>2, CallsInQueue, SMTT(30) DEF Tasked, Nowhere
    <2>4. \A d : /\ (Worked(d)' <=> Worked(d)) /\ (Answered(d)' <=> Answered(d))
                 /\ (Handed(d)' <=> Handed(d)) /\ (Kept(d)' <=> Kept(d))
      BY <2>1 DEF Worked, Answered, Handed, Kept, dispatch
    <2>5. pc' \in [Calls -> Pcs] /\ pc'[c] = "wait" /\ \A d \in Calls : d # c => pc'[d] = pc[d]
      BY <1>1, <2>1 DEF TypeOK, Pcs
    <2>6. TypeOK'
      BY <1>1, <2>1, <2>3, <2>5 DEF TypeOK, shared, dispatch
    <2>7. Single'
      BY <1>1, <2>1, <2>3 DEF Single
    <2>8. Apart'
      BY <1>1, <1>2, <2>3, <2>4 DEF Apart, Nowhere
    <2>9. Asked'
      BY <1>1, <2>3, <2>4, <2>5 DEF Asked, Nowhere
    <2>10. Waits' /\ Handing' /\ StopOrder'
      BY <1>1, <2>1, <2>4 DEF Waits, Handing, StopOrder, shared, dispatch
    <2>11. NothingLeftPending'
      BY <1>1, <2>1, <2>5 DEF NothingLeftPending, TypeOK, shared
    <2> QED
      BY <2>6, <2>7, <2>8, <2>9, <2>10, <2>11 DEF ItnInv
  <1> QED
    BY <1>3, <1>4

\* A thread that reads its answer keeps the invariant.
LEMMA ReceiveKeeps == ASSUME ItnInv, NEW c \in Calls, Receive(c) PROVE ItnInv'
  <1>1. /\ TypeOK /\ Single /\ Apart /\ Asked /\ Waits /\ Handing /\ StopOrder
        /\ NothingLeftPending
    BY DEF ItnInv
  <1>2. \E p \in {"answered", "failed"} : pc' = [pc EXCEPT ![c] = p]
    BY DEF Receive, Goto
  <1>3. /\ waiter' = [waiter EXCEPT ![c] = "none"]
        /\ UNCHANGED <<shared, pending, queues, dispatch>>
        /\ Kept(c)
    BY DEF Receive, Kept
  <1>4. waiter' \in [Calls -> {"none", "ok", "error"}] /\ waiter'[c] = "none"
        /\ \A d \in Calls : d # c => waiter'[d] = waiter[d]
    BY <1>1, <1>3 DEF TypeOK
  <1>5. pc' \in [Calls -> Pcs] /\ pc'[c] \in {"answered", "failed"}
        /\ \A d \in Calls : d # c => pc'[d] = pc[d]
    BY <1>1, <1>2 DEF TypeOK, Pcs
  <1>6. ~Tasked(c) /\ ~Worked(c) /\ ~Answered(c) /\ ~Handed(c) /\ c \notin pending
    BY <1>1, <1>3 DEF Apart, Waits
  <1>7. /\ \A d : /\ (Tasked(d)' <=> Tasked(d)) /\ (Worked(d)' <=> Worked(d))
                  /\ (Answered(d)' <=> Answered(d)) /\ (Handed(d)' <=> Handed(d))
        /\ ~Kept(c)' /\ \A d \in Calls : d # c => (Kept(d)' <=> Kept(d))
    BY <1>3, <1>4 DEF Tasked, Worked, Answered, Handed, Kept, queues, dispatch
  <1>8. TypeOK'
    BY <1>1, <1>3, <1>4, <1>5 DEF TypeOK, shared, queues, dispatch
  <1>9. Single' /\ Handing' /\ StopOrder'
    BY <1>1, <1>3 DEF Single, Handing, StopOrder, shared, queues, dispatch
  <1>10. Apart'
    BY <1>1, <1>6, <1>7 DEF Apart
  <1>11. Asked'
    BY <1>1, <1>5, <1>6, <1>7 DEF Asked, Nowhere
  <1>12. Waits'
    BY <1>1, <1>3, <1>6, <1>7 DEF Waits, TypeOK
  <1>13. NothingLeftPending'
    BY <1>1, <1>3, <1>5, <1>6 DEF NothingLeftPending, TypeOK, shared
  <1> QED
    BY <1>8, <1>9, <1>10, <1>11, <1>12, <1>13 DEF ItnInv

\* Every step of a calling thread keeps the invariant.
LEMMA CallKeeps == ASSUME ItnInv, NEW c \in Calls, CallStep(c) PROVE ItnInv'
  <1>1. TypeOK /\ Asked /\ StopOrder /\ NothingLeftPending
    BY DEF ItnInv
  <1>2. CASE Begin(c)
    <2>1. \E p \in {"register", "raised"} : Goto(c, p)
      BY <1>2 DEF Begin
    <2>2. Nowhere(c) /\ pending' = pending /\ UNCHANGED <<shared, queues, dispatch, waiter>>
      BY <1>1, <1>2 DEF Begin, Asked
    <2>3. ~(pool = "run" /\ c \in pending')
      BY <1>1, <1>2, <2>2 DEF Begin, NothingLeftPending
    <2> QED
      BY <2>1, <2>2, <2>3, QuietCallKeeps DEF Pcs
  <1>3. CASE Register(c)
    <2>1. Nowhere(c) /\ UNCHANGED <<shared, queues, dispatch, waiter>>
      BY <1>1, <1>3 DEF Register, Asked
    <2>2. CASE runtime
      <3>1. pending' = pending \cup {c} /\ Goto(c, "apply")
        BY <1>3, <2>2 DEF Register
      <3> QED
        BY <2>1, <3>1, QuietCallKeeps DEF Pcs
    <2>3. CASE ~runtime
      <3>1. pending' = pending /\ Goto(c, "raised") /\ pool # "run"
        BY <1>1, <1>3, <2>3 DEF Register, StopOrder
      <3> QED
        BY <2>1, <3>1, QuietCallKeeps DEF Pcs
    <2> QED
      BY <2>2, <2>3
  <1>4. CASE Expire(c)
    <2>1. Goto(c, "expired") /\ pending' = pending /\ UNCHANGED <<shared, queues, dispatch, waiter>>
      BY <1>4 DEF Expire
    <2> QED
      BY <2>1, QuietCallKeeps DEF Pcs
  <1>5. CASE Forget(c)
    <2>1. UNCHANGED <<shared, queues, dispatch, waiter>>
      BY <1>5 DEF Forget
    <2>2. CASE runtime
      <3>1. pending' = pending \ {c} /\ Goto(c, "timeout")
        BY <1>5, <2>2 DEF Forget
      <3> QED
        BY <2>1, <3>1, QuietCallKeeps DEF Pcs
    <2>3. CASE ~runtime
      <3>1. pending' = pending /\ Goto(c, "raised") /\ pool # "run"
        BY <1>1, <1>5, <2>3 DEF Forget, StopOrder
      <3> QED
        BY <2>1, <3>1, QuietCallKeeps DEF Pcs
    <2> QED
      BY <2>2, <2>3
  <1> QED
    BY <1>2, <1>3, <1>4, <1>5, ApplyKeeps, ReceiveKeeps DEF CallStep

-----------------------------------------------------------------------------
(* Workers *)

\* A worker that takes a task keeps the invariant.
LEMMA TakeKeeps == ASSUME ItnInv, NEW w \in Workers, Take(w) PROVE ItnInv'
  <1>1. /\ TypeOK /\ Single /\ Apart /\ Asked /\ Waits /\ Handing /\ StopOrder
        /\ NothingLeftPending
    BY DEF ItnInv
  <1> DEFINE c == Head(taskQueue)
  <1>2. /\ taskQueue' = Tail(taskQueue) /\ worker' = [worker EXCEPT ![w] = c]
        /\ worker[w] = NoCall /\ taskQueue # <<>>
        /\ UNCHANGED <<shared, pending, results, dispatch, waiter, pc>>
    BY DEF Take
  <1>3. /\ taskQueue \in Seq(Calls) /\ \A i, j \in 1 .. Len(taskQueue) :
              taskQueue[i] = taskQueue[j] => i = j
    BY <1>1 DEF TypeOK, Single
  <1>4. /\ c \in Calls /\ taskQueue' \in Seq(Calls) /\ Tasked(c)
        /\ \A d : Tasked(d)' <=> (Tasked(d) /\ d # c)
        /\ \A i, j \in 1 .. Len(taskQueue') : taskQueue'[i] = taskQueue'[j] => i = j
    <2> DEFINE t == Tail(taskQueue)
    <2>1. /\ c \in Calls /\ t \in Seq(Calls)
          /\ \E i \in 1 .. Len(taskQueue) : taskQueue[i] = c
          /\ \A d : (\E i \in 1 .. Len(t) : t[i] = d) <=>
                    ((\E i \in 1 .. Len(taskQueue) : taskQueue[i] = d) /\ d # c)
          /\ \A i, j \in 1 .. Len(t) : t[i] = t[j] => i = j
      BY <1>2, <1>3, CallsInTail
    <2>2. taskQueue' = t
      BY <1>2
    <2> HIDE DEF t, c
    <2> QED
      BY <2>1, <2>2 DEF Tasked
  <1> HIDE DEF c
  <1>5. /\ worker' \in [Workers -> Calls \cup {NoCall}] /\ worker'[w] = c
        /\ \A v \in Workers : v # w => worker'[v] = worker[v]
    BY <1>1, <1>2, <1>4 DEF TypeOK
  <1>6. \A d \in Calls : Worked(d)' <=> (Worked(d) \/ d = c)
    <2>1. c # NoCall /\ \A d \in Calls : d # NoCall
      BY <1>4, NoCallAssumption
    <2> QED
      BY <1>2, <1>5, <2>1 DEF Worked
  <1>7. \A d : (Answered(d)' <=> Answered(d)) /\ (Handed(d)' <=> Handed(d))
               /\ (Kept(d)' <=> Kept(d))
    BY <1>2 DEF Answered, Handed, Kept, dispatch
  <1>8. ~Worked(c) /\ ~Answered(c) /\ ~Handed(c) /\ ~Kept(c)
    BY <1>1, <1>4 DEF Apart
  <1>9. TypeOK'
    BY <1>1, <1>2, <1>4, <1>5 DEF TypeOK, shared, dispatch
  <1>10. Single'
    <2>1. ASSUME NEW v \in Workers, NEW x \in Workers, worker'[v] = worker'[x],
                 worker'[v] # NoCall
          PROVE  v = x
      BY <1>1, <1>5, <1>8, <2>1 DEF Single, Worked
    <2> QED
      BY <1>1, <1>2, <1>4, <2>1 DEF Single
  <1>11. Apart'
    BY <1>1, <1>4, <1>6, <1>7, <1>8 DEF Apart
  <1>12. Asked'
    <2>1. \A d \in Calls : Nowhere(d) => Nowhere(d)'
      BY <1>4, <1>6, <1>7 DEF Nowhere
    <2> QED
      BY <1>1, <1>2, <2>1 DEF Asked
  <1>13. Waits' /\ Handing' /\ StopOrder' /\ NothingLeftPending'
    BY <1>1, <1>2, <1>7 DEF Waits, Handing, StopOrder, NothingLeftPending, shared, dispatch
  <1> QED
    BY <1>9, <1>10, <1>11, <1>12, <1>13 DEF ItnInv

\* A worker is free again: its task is lost, or answered.
LEMMA FreeWorker ==
    ASSUME ItnInv, NEW w \in Workers, worker[w] # NoCall,
           worker' = [worker EXCEPT ![w] = NoCall]
    PROVE  /\ worker[w] \in Calls /\ Worked(worker[w])
           /\ worker' \in [Workers -> Calls \cup {NoCall}]
           /\ \A d \in Calls : Worked(d)' <=> (Worked(d) /\ d # worker[w])
           /\ \A u, v \in Workers : worker'[u] = worker'[v] /\ worker'[u] # NoCall => u = v
  <1>1. TypeOK /\ Single
    BY DEF ItnInv
  <1>2. worker[w] \in Calls
    BY <1>1 DEF TypeOK
  <1>3. /\ worker' \in [Workers -> Calls \cup {NoCall}] /\ worker'[w] = NoCall
        /\ \A v \in Workers : v # w => worker'[v] = worker[v]
    BY <1>1 DEF TypeOK
  <1>4. \A d \in Calls : d # NoCall
    BY NoCallAssumption
  <1>5. \A u, v \in Workers : worker'[u] = worker'[v] /\ worker'[u] # NoCall => u = v
    BY <1>1, <1>3 DEF Single
  <1>6. \A d \in Calls : Worked(d)' <=> (Worked(d) /\ d # worker[w])
    BY <1>1, <1>2, <1>3, <1>4 DEF Single, Worked
  <1> QED
    BY <1>2, <1>3, <1>5, <1>6 DEF Worked

\* A worker that dies keeps the invariant: its task is in no place any more.
LEMMA CrashKeeps == ASSUME ItnInv, NEW w \in Workers, Crash(w) PROVE ItnInv'
  <1>1. /\ TypeOK /\ Single /\ Apart /\ Asked /\ Waits /\ Handing /\ StopOrder
        /\ NothingLeftPending
    BY DEF ItnInv
  <1>2. /\ worker[w] # NoCall /\ worker' = [worker EXCEPT ![w] = NoCall]
        /\ UNCHANGED <<shared, pending, taskQueue, results, dispatch, waiter, pc>>
    BY DEF Crash
  <1>3. /\ worker' \in [Workers -> Calls \cup {NoCall}]
        /\ \A d \in Calls : Worked(d)' => Worked(d)
        /\ \A u, v \in Workers : worker'[u] = worker'[v] /\ worker'[u] # NoCall => u = v
    BY <1>2, FreeWorker
  <1>4. \A d : /\ Tasked(d)' <=> Tasked(d)
               /\ Answered(d)' <=> Answered(d)
               /\ Handed(d)' <=> Handed(d)
               /\ Kept(d)' <=> Kept(d)
    BY <1>2 DEF Tasked, Answered, Handed, Kept, dispatch
  <1>5. TypeOK'
    BY <1>1, <1>2, <1>3 DEF TypeOK, shared, dispatch
  <1>6. Single'
    BY <1>1, <1>2, <1>3 DEF Single
  <1>7. Apart'
    BY <1>1, <1>3, <1>4 DEF Apart
  <1>8. Asked'
    BY <1>1, <1>2, <1>3, <1>4 DEF Asked, Nowhere
  <1>9. Waits' /\ Handing' /\ StopOrder' /\ NothingLeftPending'
    BY <1>1, <1>2, <1>4 DEF Waits, Handing, StopOrder, NothingLeftPending, shared, dispatch
  <1> QED
    BY <1>5, <1>6, <1>7, <1>8, <1>9 DEF ItnInv

\* A worker that answers keeps the invariant.
LEMMA AnswerKeeps == ASSUME ItnInv, NEW w \in Workers, Answer(w) PROVE ItnInv'
  <1>1. /\ TypeOK /\ Single /\ Apart /\ Asked /\ Waits /\ Handing /\ StopOrder
        /\ NothingLeftPending
    BY DEF ItnInv
  <1> DEFINE c == worker[w]
  <1>2. /\ worker[w] # NoCall /\ worker' = [worker EXCEPT ![w] = NoCall]
        /\ UNCHANGED <<shared, pending, taskQueue, dispatch, waiter, pc>>
    BY DEF Answer
  <1>3. /\ c \in Calls /\ Worked(c)
        /\ worker' \in [Workers -> Calls \cup {NoCall}]
        /\ \A d \in Calls : Worked(d)' <=> (Worked(d) /\ d # c)
        /\ \A u, v \in Workers : worker'[u] = worker'[v] /\ worker'[u] # NoCall => u = v
    BY <1>2, FreeWorker
  <1>4. PICK o \in {"ok", "error"} : results' = Append(results, <<c, o>>)
    BY DEF Answer
  <1>5. ~Tasked(c) /\ ~Answered(c) /\ ~Handed(c) /\ ~Kept(c)
    BY <1>1, <1>3 DEF Apart
  <1> HIDE DEF c
  <1> DEFINE a == <<c, o>>
  <1>6. a \in Answers /\ a[1] = c
    BY <1>3 DEF Answers
  <1>7. results' = Append(results, a)
    BY <1>4
  <1> HIDE DEF a
  <1>8. /\ results \in Seq(Answers)
        /\ \A i, j \in 1 .. Len(results) : results[i][1] = results[j][1] => i = j
    BY <1>1 DEF TypeOK, Single
  <1>9. /\ results' \in Seq(Answers)
        /\ \A d : Answered(d)' <=> (Answered(d) \/ d = c)
        /\ \A i, j \in 1 .. Len(results') : results'[i][1] = results'[j][1] => i = j
    BY <1>5, <1>6, <1>7, <1>8, AnswersInQueue DEF Answered
  <1>10. \A d : (Tasked(d)' <=> Tasked(d)) /\ (Handed(d)' <=> Handed(d)) /\ (Kept(d)' <=> Kept(d))
    BY <1>2 DEF Tasked, Handed, Kept, dispatch
  <1>11. TypeOK'
    BY <1>1, <1>2, <1>3, <1>9 DEF TypeOK, shared, dispatch
  <1>12. Single'
    BY <1>1, <1>2, <1>3, <1>9 DEF Single
  <1>13. Apart'
    BY <1>1, <1>3, <1>5, <1>9, <1>10 DEF Apart
  <1>14. Asked'
    <2>1. \A d \in Calls : Nowhere(d) => Nowhere(d)'
      BY <1>3, <1>9, <1>10 DEF Nowhere
    <2> QED
      BY <1>1, <1>2, <2>1 DEF Asked
  <1>15. Waits' /\ Handing' /\ StopOrder' /\ NothingLeftPending'
    BY <1>1, <1>2, <1>10 DEF Waits, Handing, StopOrder, NothingLeftPending, shared, dispatch
  <1> QED
    BY <1>11, <1>12, <1>13, <1>14, <1>15 DEF ItnInv

-----------------------------------------------------------------------------
(* The dispatcher *)

\* The dispatcher that takes an answer off the results keeps the invariant.
LEMMA DispatchKeeps == ASSUME ItnInv, Dispatch PROVE ItnInv'
  <1>1. /\ TypeOK /\ Single /\ Apart /\ Asked /\ Waits /\ Handing /\ StopOrder
        /\ NothingLeftPending
    BY DEF ItnInv
  <1> DEFINE a == Head(results)
             t == Tail(results)
  <1>2. /\ results # <<>> /\ results' = t /\ pending' = pending \ {a[1]} /\ dispatcher = "get"
        /\ IF a[1] \in pending
             THEN dispatcher' = "put" /\ handing' = a
             ELSE dispatcher' = "look" /\ UNCHANGED handing
        /\ UNCHANGED <<shared, taskQueue, worker, waiter, pc>>
    BY DEF Dispatch
  <1>3. /\ results \in Seq(Answers)
        /\ \A i, j \in 1 .. Len(results) : results[i][1] = results[j][1] => i = j
    BY <1>1 DEF TypeOK, Single
  <1>4. /\ a \in Answers /\ t \in Seq(Answers)
        /\ \E i \in 1 .. Len(results) : results[i][1] = a[1]
        /\ \A d : (\E i \in 1 .. Len(t) : t[i][1] = d) <=>
                  ((\E i \in 1 .. Len(results) : results[i][1] = d) /\ d # a[1])
        /\ \A i, j \in 1 .. Len(t) : t[i][1] = t[j][1] => i = j
    BY <1>2, <1>3, AnswersInTail
  <1> HIDE DEF a, t
  <1>5. /\ a[1] \in Calls /\ Answered(a[1])
        /\ \A d : Answered(d)' <=> (Answered(d) /\ d # a[1])
    BY <1>2, <1>4 DEF Answers, Answered
  <1>6. handing = NoAnswer /\ \A d \in Calls : ~Handed(d)
    BY <1>1, <1>2, NoCallAssumption DEF Handing, Handed, NoAnswer
  <1>7. \A d : (Tasked(d)' <=> Tasked(d)) /\ (Worked(d)' <=> Worked(d)) /\ (Kept(d)' <=> Kept(d))
    BY <1>2 DEF Tasked, Worked, Kept
  <1>8. ~Tasked(a[1]) /\ ~Worked(a[1]) /\ ~Kept(a[1])
    BY <1>1, <1>5 DEF Apart
  <1>9. \A d \in Calls : Handed(d)' => d = a[1]
    BY <1>2, <1>6 DEF Handed
  <1>10. a # NoAnswer
    BY <1>5, NoCallAssumption DEF NoAnswer
  <1>11. TypeOK'
    <2>1. handing' \in Answers \cup {NoAnswer} /\ dispatcher' \in {"look", "get", "put", "over"}
      BY <1>1, <1>2, <1>4 DEF TypeOK
    <2>2. pending' \in SUBSET Calls
      BY <1>1, <1>2 DEF TypeOK
    <2> QED
      BY <1>1, <1>2, <1>4, <2>1, <2>2 DEF TypeOK, shared
  <1>12. Single'
    BY <1>1, <1>2, <1>4 DEF Single
  <1>13. Apart'
    BY <1>1, <1>5, <1>7, <1>8, <1>9 DEF Apart
  <1>14. Asked'
    <2>1. \A d \in Calls : Nowhere(d) => Nowhere(d)'
      BY <1>5, <1>7, <1>9 DEF Nowhere
    <2> QED
      BY <1>1, <1>2, <2>1 DEF Asked
  <1>15. Waits'
    BY <1>1, <1>2, <1>7, <1>9 DEF Waits, TypeOK
  <1>16. Handing'
    BY <1>2, <1>6, <1>10 DEF Handing
  <1>17. StopOrder' /\ NothingLeftPending'
    BY <1>1, <1>2 DEF StopOrder, NothingLeftPending, shared
  <1> QED
    BY <1>11, <1>12, <1>13, <1>14, <1>15, <1>16, <1>17 DEF ItnInv

\* The dispatcher that hands an answer to the thread waiting for it, or finds
\* that nobody is, keeps the invariant.
LEMMA HandKeeps == ASSUME ItnInv, Hand PROVE ItnInv'
  <1>1. /\ TypeOK /\ Single /\ Apart /\ Asked /\ Waits /\ Handing /\ StopOrder
        /\ NothingLeftPending
    BY DEF ItnInv
  <1> DEFINE c == handing[1]
  <1>2. /\ dispatcher = "put" /\ dispatcher' = "look" /\ handing' = NoAnswer
        /\ waiter' = [waiter EXCEPT ![c] = handing[2]]
        /\ UNCHANGED <<shared, pending, queues, pc>>
    BY DEF Hand
  <1>3. handing \in Answers
    BY <1>1, <1>2 DEF TypeOK, Handing
  <1>4. c \in Calls /\ handing[2] \in {"ok", "error"} /\ Handed(c)
    BY <1>3 DEF Answers, Handed
  <1>5. ~Tasked(c) /\ ~Worked(c) /\ ~Answered(c) /\ ~Kept(c) /\ c \notin pending
    BY <1>1, <1>4 DEF Apart, Waits
  <1> HIDE DEF c
  <1>6. /\ waiter' \in [Calls -> {"none", "ok", "error"}]
        /\ \A d \in Calls : d # c => waiter'[d] = waiter[d]
    BY <1>1, <1>2, <1>4 DEF TypeOK
  <1>7. /\ \A d : /\ Tasked(d)' <=> Tasked(d)
                  /\ Worked(d)' <=> Worked(d)
                  /\ Answered(d)' <=> Answered(d)
        /\ \A d \in Calls : ~Handed(d)'
        /\ \A d \in Calls : d # c => (Kept(d)' <=> Kept(d))
    BY <1>2, <1>6, NoCallAssumption DEF Tasked, Worked, Answered, Handed, Kept, NoAnswer, queues
  <1>8. TypeOK'
    BY <1>1, <1>2, <1>6 DEF TypeOK, shared, queues
  <1>9. Single' /\ Handing' /\ StopOrder' /\ NothingLeftPending'
    BY <1>1, <1>2 DEF Single, Handing, StopOrder, NothingLeftPending, shared, queues
  <1>10. Apart'
    BY <1>1, <1>5, <1>7 DEF Apart
  <1>11. Asked'
    <2>1. ASSUME NEW d \in Calls, Nowhere(d)
          PROVE  Nowhere(d)'
      BY <1>4, <1>7, <2>1 DEF Nowhere
    <2> QED
      BY <1>1, <1>2, <2>1 DEF Asked
  <1>12. Waits'
    BY <1>1, <1>2, <1>5, <1>7 DEF Waits, TypeOK
  <1> QED
    BY <1>8, <1>9, <1>10, <1>11, <1>12 DEF ItnInv

\* The dispatcher looks at the flag or finds nothing, or shutdown() takes a step
\* that empties no place.
LEMMA QuietKeeps ==
    ASSUME ItnInv,
           Look \/ NothingToGet \/ StopRunning \/ ClosePool \/ DropRuntime \/ UNCHANGED vars
    PROVE  ItnInv'
  <1> USE DEF Look, NothingToGet, StopRunning, ClosePool, DropRuntime, vars, shared, queues,
              dispatch
  <1>1. TypeOK /\ Waits /\ Handing /\ StopOrder /\ NothingLeftPending
    BY DEF ItnInv
  <1>2. UNCHANGED <<pending, queues, handing, waiter, pc>>
    OBVIOUS
  <1>3. Single' /\ Apart' /\ Asked'
    BY <1>2, OthersMove DEF Places
  <1>4. /\ runtime' \in BOOLEAN /\ running' \in BOOLEAN /\ pool' \in {"run", "closed", "terminated"}
        /\ stop' \in {"no", "close", "terminate", "manager", "drop", "done"}
        /\ dispatcher' \in {"look", "get", "put", "over"}
    BY <1>1 DEF TypeOK
  <1>5. TypeOK'
    BY <1>1, <1>2, <1>4 DEF TypeOK
  <1>6. StopOrder'
    BY <1>1 DEF StopOrder
  <1>7. Handing'
    BY <1>1 DEF Handing
  <1>8. Waits' /\ NothingLeftPending'
    BY <1>1, <1>2, <1>6 DEF Waits, NothingLeftPending, StopOrder, Handed, Kept
  <1> QED
    BY <1>3, <1>5, <1>6, <1>7, <1>8 DEF ItnInv

\* shutdown() empties the queue and the workers' hands, or the result queue.
LEMMA EmptiesKeeps == ASSUME ItnInv, TerminatePool \/ ShutManager PROVE ItnInv'
  <1> USE DEF TerminatePool, ShutManager, shared, dispatch
  <1>1. /\ TypeOK /\ Single /\ Apart /\ Asked /\ Waits /\ Handing /\ StopOrder
        /\ NothingLeftPending
    BY DEF ItnInv
  <1>2. UNCHANGED <<runtime, running, pending, dispatch, waiter, pc>>
    OBVIOUS
  <1>3. /\ taskQueue' \in {taskQueue, <<>>} /\ results' \in {results, <<>>}
        /\ worker' \in {worker, [w \in Workers |-> NoCall]}
    OBVIOUS
  <1>4. \A d \in Calls : d # NoCall
    BY NoCallAssumption
  <1>5. /\ \A d : (Tasked(d)' => Tasked(d)) /\ (Answered(d)' => Answered(d))
        /\ \A d \in Calls : Worked(d)' => Worked(d)
        /\ \A d : (Handed(d)' <=> Handed(d)) /\ (Kept(d)' <=> Kept(d))
    <2>1. \A d : (Tasked(d)' => Tasked(d)) /\ (Answered(d)' => Answered(d))
      BY <1>3 DEF Tasked, Answered
    <2>2. \A d \in Calls : Worked(d)' => Worked(d)
      BY <1>3, <1>4 DEF Worked
    <2>3. \A d : (Handed(d)' <=> Handed(d)) /\ (Kept(d)' <=> Kept(d))
      BY <1>2 DEF Handed, Kept
    <2> QED
      BY <2>1, <2>2, <2>3
  <1>6. TypeOK'
    <2>1. taskQueue' \in Seq(Calls) /\ results' \in Seq(Answers)
      <3>1. <<>> \in Seq(Calls) /\ <<>> \in Seq(Answers)
        OBVIOUS
      <3> QED
        BY <1>1, <1>3, <3>1 DEF TypeOK
    <2>2. worker' \in [Workers -> Calls \cup {NoCall}]
      BY <1>1, <1>3 DEF TypeOK
    <2>3. pool' \in {"run", "closed", "terminated"}
          /\ stop' \in {"no", "close", "terminate", "manager", "drop", "done"}
      BY <1>1 DEF TypeOK
    <2> QED
      BY <1>1, <1>2, <2>1, <2>2, <2>3 DEF TypeOK
  <1>7. Single'
    <2>1. \A i, j \in 1 .. Len(taskQueue') : taskQueue'[i] = taskQueue'[j] => i = j
      BY <1>1, <1>3 DEF Single
    <2>2. \A i, j \in 1 .. Len(results') : results'[i][1] = results'[j][1] => i = j
      BY <1>1, <1>3 DEF Single
    <2>3. \A v, w \in Workers : worker'[v] = worker'[w] /\ worker'[v] # NoCall => v = w
      BY <1>1, <1>3 DEF Single
    <2> QED
      BY <2>1, <2>2, <2>3 DEF Single
  <1>8. Apart'
    BY <1>1, <1>5 DEF Apart
  <1>9. Asked'
    BY <1>1, <1>2, <1>5 DEF Asked, Nowhere
  <1>10. Waits' /\ Handing'
    BY <1>1, <1>2, <1>5 DEF Waits, Handing
  <1>11. StopOrder'
    BY <1>1 DEF StopOrder
  <1>12. NothingLeftPending'
    BY <1>1, <1>2 DEF NothingLeftPending, StopOrder
  <1> QED
    BY <1>6, <1>7, <1>8, <1>9, <1>10, <1>11, <1>12 DEF ItnInv

\* Every step of the pool keeps the invariant.
LEMMA ItnStepKeeps == ItnInv /\ [Next]_vars => ItnInv'
  <1> SUFFICES ASSUME ItnInv, [Next]_vars PROVE ItnInv'
    OBVIOUS
  <1>1. CASE UNCHANGED vars \/ Finished
    BY <1>1, QuietKeeps DEF Finished
  <1>2. CASE Next
    BY <1>1, <1>2, CallKeeps, TakeKeeps, AnswerKeeps, CrashKeeps, QuietKeeps, DispatchKeeps,
       HandKeeps, EmptiesKeeps DEF Next, Shutdown
  <1> QED
    BY <1>1, <1>2

\* The invariant holds throughout, for any calls and workers.
THEOREM ItnInvariant == Spec => []ItnInv
  BY ItnInitially, ItnStepKeeps, PTL DEF Spec

-----------------------------------------------------------------------------
(* What follows *)

\* A set without two different elements has at most one.
LEMMA AtMostOne ==
    ASSUME NEW S, \A x, y \in S : x = y
    PROVE  /\ S = {} => Cardinality(S) = 0
           /\ S # {} => Cardinality(S) = 1
  <1>1. S = {} => Cardinality(S) = 0
    BY FS_EmptySet
  <1>2. ASSUME S # {} PROVE Cardinality(S) = 1
    <2>1. PICK x : S = {x}
      BY <1>2
    <2> QED
      BY <2>1, FS_Singleton
  <1> QED
    BY <1>1, <1>2

\* A call that is in one place at most, and once there, has one answer at most.
LEMMA SinglesApart == ItnInv => OneAnswerEach
  <1> SUFFICES ASSUME ItnInv, NEW c \in Calls
      PROVE  /\ Cardinality({i \in 1 .. Len(taskQueue) : taskQueue[i] = c})
                  + Cardinality({w \in Workers : worker[w] = c})
                  + Cardinality({i \in 1 .. Len(results) : results[i][1] = c})
                  + (IF handing[1] = c THEN 1 ELSE 0)
                  + (IF waiter[c] # "none" THEN 1 ELSE 0) <= 1
             /\ pc[c] \in {"idle", "register", "apply", "answered", "failed"} =>
                  ~OnItsWay(c) /\ waiter[c] = "none"
    BY DEF OneAnswerEach
  <1>1. Single /\ Apart /\ Asked
    BY DEF ItnInv
  <1> DEFINE T == {i \in 1 .. Len(taskQueue) : taskQueue[i] = c}
             W == {w \in Workers : worker[w] = c}
             R == {i \in 1 .. Len(results) : results[i][1] = c}
  <1>2. Cardinality(T) = IF Tasked(c) THEN 1 ELSE 0
    <2>1. (\A x, y \in T : x = y) /\ (Tasked(c) <=> T # {})
      BY <1>1 DEF Single, Tasked
    <2> HIDE DEF T
    <2> QED
      BY <2>1, AtMostOne
  <1>3. Cardinality(W) = IF Worked(c) THEN 1 ELSE 0
    <2>1. (\A x, y \in W : x = y) /\ (Worked(c) <=> W # {})
      BY <1>1, NoCallAssumption DEF Single, Worked
    <2> HIDE DEF W
    <2> QED
      BY <2>1, AtMostOne
  <1>4. Cardinality(R) = IF Answered(c) THEN 1 ELSE 0
    <2>1. (\A x, y \in R : x = y) /\ (Answered(c) <=> R # {})
      BY <1>1 DEF Single, Answered
    <2> HIDE DEF R
    <2> QED
      BY <2>1, AtMostOne
  <1>5. /\ (handing[1] = c) <=> Handed(c)
        /\ (waiter[c] # "none") <=> Kept(c)
    BY DEF Handed, Kept
  <1>6. pc[c] \in {"idle", "register", "apply", "answered", "failed"} =>
          ~OnItsWay(c) /\ waiter[c] = "none"
    BY <1>1 DEF Asked, Nowhere, OnItsWay, Tasked, Worked, Answered, Handed, Kept
  <1> HIDE DEF T, W, R
  <1>7. Cardinality(T) + Cardinality(W) + Cardinality(R) + (IF handing[1] = c THEN 1 ELSE 0)
          + (IF waiter[c] # "none" THEN 1 ELSE 0) <= 1
    BY <1>1, <1>2, <1>3, <1>4, <1>5 DEF Apart
  <1> QED
    BY <1>6, <1>7 DEF T, W, R

\* Every variable of the pool keeps its type, for any calls and workers.
THEOREM ItnTypes == Spec => []TypeOK
  BY ItnInvariant, PTL DEF ItnInv

\* With any calls, workers and threads, a call has at most one task, answer or
\* filled waiter: whatever times out, crashes or is shut down, no waiter is put
\* to twice and the dispatcher does not block.
THEOREM ItnOneAnswer == Spec => []OneAnswerEach
  BY ItnInvariant, SinglesApart, PTL

\* While the pool is open only calls that wait are in the table.
THEOREM ItnTableClean == Spec => []NothingLeftPending
  BY ItnInvariant, PTL DEF ItnInv

-----------------------------------------------------------------------------
(* The promise of RemoteCalls *)

\* Where an answer can be, as RemoteCalls counts it.
Listed(a) == \E i \in 1 .. Len(results) : results[i] = a

\* A sequence of answers after Append holds one answer more.
LEMMA ListedInQueue ==
    ASSUME NEW s \in Seq(Answers), NEW x \in Answers
    PROVE  \A a : (\E i \in 1 .. Len(Append(s, x)) : Append(s, x)[i] = a) <=>
                  ((\E i \in 1 .. Len(s) : s[i] = a) \/ a = x)
  <1> DEFINE t == Append(s, x)
  <1>1. /\ Len(t) = Len(s) + 1 /\ Len(s) \in Nat
        /\ t[Len(s) + 1] = x /\ \A i \in 1 .. Len(s) : t[i] = s[i]
    OBVIOUS
  <1> HIDE DEF t
  <1>2. \A i \in 1 .. Len(t) : i \in 1 .. Len(s) \/ i = Len(s) + 1
    BY <1>1
  <1>3. \A i \in 1 .. Len(s) : i \in 1 .. Len(t)
    BY <1>1
  <1>4. Len(s) + 1 \in 1 .. Len(t)
    BY <1>1
  <1>5. \A a : (\E i \in 1 .. Len(t) : t[i] = a) <=> ((\E i \in 1 .. Len(s) : s[i] = a) \/ a = x)
    BY <1>1, <1>2, <1>3, <1>4
  <1> QED
    BY <1>5 DEF t

\* Its tail lacks the head and nothing else, when each answer is to another call.
LEMMA ListedInTail ==
    ASSUME NEW s \in Seq(Answers), s # <<>>, \A i, j \in 1 .. Len(s) : s[i][1] = s[j][1] => i = j
    PROVE  /\ \E i \in 1 .. Len(s) : s[i] = Head(s)
           /\ \A a : (\E i \in 1 .. Len(Tail(s)) : Tail(s)[i] = a) <=>
                     ((\E i \in 1 .. Len(s) : s[i] = a) /\ a # Head(s))
  <1> DEFINE t == Tail(s)
             h == Head(s)
  <1>1. /\ Len(t) = Len(s) - 1 /\ Len(s) \in Nat /\ Len(s) > 0
        /\ h = s[1] /\ \A i \in 1 .. Len(t) : t[i] = s[i + 1]
    OBVIOUS
  <1> HIDE DEF t, h
  <1>2. \A i \in 1 .. Len(t) : i + 1 \in 1 .. Len(s) /\ i + 1 # 1 /\ i \in Int
    BY <1>1
  <1>3. ASSUME NEW i \in 1 .. Len(s), i # 1
        PROVE  i - 1 \in 1 .. Len(t) /\ t[i - 1] = s[i]
    <2>1. i - 1 \in 1 .. Len(t) /\ (i - 1) + 1 = i
      BY <1>1, <1>3
    <2> QED
      BY <1>1, <2>1
  <1>4. 1 \in 1 .. Len(s)
    BY <1>1
  <1>5. \A i, j \in 1 .. Len(s) : s[i] = s[j] => i = j
    OBVIOUS
  <1>6. ASSUME NEW a
        PROVE  (\E i \in 1 .. Len(t) : t[i] = a) <=> ((\E i \in 1 .. Len(s) : s[i] = a) /\ a # h)
    BY <1>1, <1>2, <1>3, <1>4, <1>5, SMTT(30)
  <1> QED
    BY <1>1, <1>4, <1>6 DEF t, h

\* What the mapping takes for tasks and for answers, in the words of the invariant.
LEMMA Mapped ==
    /\ Todo = {c \in Calls : Tasked(c) \/ Worked(c)}
    /\ OnTheWay = {a \in Answers : Listed(a) \/ handing = a \/ waiter[a[1]] = a[2]}
    /\ \A a \in Answers : a \in Calls \X {"ok", "error"}
    /\ \A a \in Answers : Listed(a) => Answered(a[1])
  BY DEF Todo, OnTheWay, Tasked, Worked, Listed, Answered, Answers

\* A step of one call changes what is promised of it only.
LEMMA StatusMoves ==
    ASSUME TypeOK, NEW c \in Calls, NEW p \in Pcs, Goto(c, p)
    PROVE  /\ Status' = [Status EXCEPT ![c] = StatusOf(c)']
           /\ Status[c] = StatusOf(c) /\ pc'[c] = p
           /\ StatusOf(c)' = StatusOf(c) => Status' = Status
  <1>1. pc'[c] = p /\ \A d \in Calls : d # c => pc'[d] = pc[d]
    BY DEF Goto, TypeOK
  <1>2. \A d \in Calls : d # c => StatusOf(d)' = StatusOf(d)
    BY <1>1 DEF StatusOf
  <1>3. \A d \in Calls : Status[d] = StatusOf(d)
    BY DEF Status
  <1>4. Status' = [Status EXCEPT ![c] = StatusOf(c)']
    BY <1>2 DEF Status
  <1>5. StatusOf(c)' = StatusOf(c) => Status' = Status
    BY <1>2 DEF Status
  <1> QED
    BY <1>1, <1>3, <1>4, <1>5

\* Without a step of a call nothing is promised anew.
LEMMA SameStatus == ASSUME UNCHANGED pc PROVE Status' = Status
  <1>1. \A d \in Calls : StatusOf(d)' = StatusOf(d)
    BY DEF StatusOf
  <1> QED
    BY <1>1 DEF Status

\* Tasks and answers that stay where they are stay what they are.
LEMMA SamePlaces ==
    /\ UNCHANGED <<taskQueue, worker>> => Todo' = Todo
    /\ UNCHANGED <<results, handing, waiter>> => OnTheWay' = OnTheWay
  BY DEF Todo, OnTheWay

\* A call that is not submitted, or not yet, or gives up, is refused, stays as it
\* is, or gives up.
LEMMA QuietCallPromised ==
    ASSUME ItnInv, NEW c \in Calls, Begin(c) \/ Register(c) \/ Expire(c) \/ Forget(c)
    PROVE  [Remote!Next]_(Remote!promised)
  <1>1. TypeOK
    BY DEF ItnInv
  <1>2. Todo' = Todo /\ OnTheWay' = OnTheWay
    BY SamePlaces DEF Begin, Register, Expire, Forget, queues, dispatch
  <1>3. CASE Begin(c) \/ Register(c)
    <2>1. PICK p \in {"register", "apply", "raised"} :
            Goto(c, p) /\ StatusOf(c) = "idle"
      BY <1>3 DEF Begin, Register, StatusOf
    <2>2. /\ Status' = [Status EXCEPT ![c] = StatusOf(c)']
          /\ Status[c] = StatusOf(c) /\ pc'[c] = p
          /\ StatusOf(c)' = StatusOf(c) => Status' = Status
      BY <1>1, <2>1, StatusMoves DEF Pcs
    <2>3. StatusOf(c)' = IF p = "raised" THEN "over" ELSE "idle"
      BY <2>1, <2>2 DEF StatusOf
    <2>4. CASE p = "raised"
      <3>1. Remote!Refuse(c)
        BY <1>2, <2>1, <2>2, <2>3, <2>4 DEF Remote!Refuse, Remote!Becomes
      <3> QED
        BY <3>1 DEF Remote!Next
    <2>5. CASE p # "raised"
      BY <1>2, <2>1, <2>2, <2>3, <2>5 DEF Remote!promised
    <2> QED
      BY <2>4, <2>5
  <1>4. CASE Expire(c)
    <2>1. Goto(c, "expired") /\ StatusOf(c) = "waiting"
      BY <1>4 DEF Expire, StatusOf
    <2>2. /\ Status' = [Status EXCEPT ![c] = StatusOf(c)']
          /\ Status[c] = StatusOf(c) /\ pc'[c] = "expired"
      BY <1>1, <2>1, StatusMoves DEF Pcs
    <2>3. StatusOf(c)' = "over"
      BY <2>2 DEF StatusOf
    <2>4. Remote!GiveUp(c)
      BY <1>2, <2>1, <2>2, <2>3 DEF Remote!GiveUp, Remote!Becomes
    <2> QED
      BY <2>4 DEF Remote!Next
  <1>5. CASE Forget(c)
    <2>1. PICK p \in {"timeout", "raised"} : Goto(c, p) /\ StatusOf(c) = "over"
      BY <1>5 DEF Forget, StatusOf
    <2>2. pc'[c] = p /\ (StatusOf(c)' = StatusOf(c) => Status' = Status)
      BY <1>1, <2>1, StatusMoves DEF Pcs
    <2>3. StatusOf(c)' = "over"
      BY <2>1, <2>2 DEF StatusOf
    <2> QED
      BY <1>2, <2>1, <2>2, <2>3 DEF Remote!promised
  <1> QED
    BY <1>3, <1>4, <1>5

\* Submitting a task asks for it; a closed pool refuses.
LEMMA ApplyPromised ==
    ASSUME ItnInv, NEW c \in Calls, Apply(c) PROVE [Remote!Next]_(Remote!promised)
  <1>1. TypeOK
    BY DEF ItnInv
  <1>2. OnTheWay' = OnTheWay
    BY SamePlaces DEF Apply, dispatch
  <1>3. PICK p \in {"wait", "raised"} :
          /\ Goto(c, p) /\ StatusOf(c) = "idle" /\ UNCHANGED worker
          /\ p = "wait" => taskQueue' = Append(taskQueue, c)
          /\ p = "raised" => taskQueue' = taskQueue
    BY DEF Apply, StatusOf
  <1>4. /\ Status' = [Status EXCEPT ![c] = StatusOf(c)']
        /\ Status[c] = StatusOf(c) /\ pc'[c] = p
    BY <1>1, <1>3, StatusMoves DEF Pcs
  <1>5. StatusOf(c)' = IF p = "wait" THEN "waiting" ELSE "over"
    BY <1>3, <1>4 DEF StatusOf
  <1>6. CASE p = "wait"
    <2>1. taskQueue \in Seq(Calls) /\ taskQueue' = Append(taskQueue, c)
      BY <1>1, <1>3, <1>6 DEF TypeOK
    <2>2. \A d : Tasked(d)' <=> (Tasked(d) \/ d = c)
      BY <2>1, CallsInQueue, SMTT(30) DEF Tasked
    <2>3. \A d : Worked(d)' <=> Worked(d)
      BY <1>3 DEF Worked
    <2>4. Todo' = {d \in Calls : Tasked(d)' \/ Worked(d)'}
      BY DEF Todo, Tasked, Worked
    <2>5. Todo' = Todo \cup {c}
      BY <2>2, <2>3, <2>4, Mapped
    <2>6. Remote!Ask(c)
      BY <1>2, <1>3, <1>4, <1>5, <1>6, <2>5 DEF Remote!Ask, Remote!Becomes
    <2> QED
      BY <2>6 DEF Remote!Next
  <1>7. CASE p = "raised"
    <2>1. Todo' = Todo
      BY <1>3, <1>7, SamePlaces
    <2>2. Remote!Refuse(c)
      BY <1>2, <1>3, <1>4, <1>5, <1>7, <2>1 DEF Remote!Refuse, Remote!Becomes
    <2> QED
      BY <2>2 DEF Remote!Next
  <1> QED
    BY <1>6, <1>7

\* What a call returns is the answer on its way, and no other is.
LEMMA ReceivePromised ==
    ASSUME ItnInv, NEW c \in Calls, Receive(c) PROVE [Remote!Next]_(Remote!promised)
  <1>1. TypeOK /\ Apart
    BY DEF ItnInv
  <1> DEFINE o == waiter[c]
  <1>2. /\ pc[c] = "wait" /\ o # "none" /\ waiter' = [waiter EXCEPT ![c] = "none"]
        /\ Goto(c, IF o = "ok" THEN "answered" ELSE "failed")
        /\ UNCHANGED <<taskQueue, worker, results, handing>>
    BY DEF Receive, queues, dispatch
  <1>3. o \in {"ok", "error"} /\ <<c, o>> \in Answers
    BY <1>1, <1>2 DEF TypeOK, Answers
  <1>4. ~Answered(c) /\ ~Handed(c)
    BY <1>1, <1>2 DEF Apart, Kept
  <1>5. waiter'[c] = "none" /\ \A d \in Calls : d # c => waiter'[d] = waiter[d]
    BY <1>1, <1>2 DEF TypeOK
  <1> HIDE DEF o
  <1>6. /\ Status' = [Status EXCEPT ![c] = StatusOf(c)'] /\ Status[c] = StatusOf(c)
        /\ pc'[c] = IF o = "ok" THEN "answered" ELSE "failed"
    BY <1>1, <1>2, StatusMoves DEF Pcs
  <1>7. StatusOf(c) = "waiting" /\ StatusOf(c)' = o
    BY <1>2, <1>3, <1>6 DEF StatusOf
  <1>8. Todo' = Todo
    BY <1>2, SamePlaces
  <1>9. \A a \in Answers : a[1] = c => ~Listed(a) /\ handing # a
    BY <1>4, Mapped DEF Handed
  <1>10. OnTheWay' = {a \in Answers : Listed(a) \/ handing = a \/ waiter'[a[1]] = a[2]}
    BY <1>2 DEF OnTheWay, Listed
  <1>11. \A a \in Answers : a[1] \in Calls /\ a[2] \in {"ok", "error"} /\ a = <<a[1], a[2]>>
    BY DEF Answers
  <1>12. waiter[c] = o
    BY DEF o
  <1>13. ASSUME NEW a \in Answers
         PROVE  (Listed(a) \/ handing = a \/ waiter'[a[1]] = a[2]) <=>
                ((Listed(a) \/ handing = a \/ waiter[a[1]] = a[2]) /\ a # <<c, o>>)
    <2>1. CASE a[1] = c
      BY <1>3, <1>5, <1>9, <1>11, <1>12, <2>1
    <2>2. CASE a[1] # c
      BY <1>5, <1>11, <2>2
    <2> QED
      BY <2>1, <2>2
  <1>14. OnTheWay' = OnTheWay \ {<<c, o>>} /\ <<c, o>> \in OnTheWay
    BY <1>3, <1>10, <1>12, <1>13, Mapped
  <1>15. Remote!Return(c, o)
    BY <1>6, <1>7, <1>8, <1>14 DEF Remote!Return, Remote!Becomes
  <1> QED
    BY <1>3, <1>15 DEF Remote!Next, Remote!Outcomes

\* A worker that takes a task has it still to do.
LEMMA TakePromised ==
    ASSUME ItnInv, NEW w \in Workers, Take(w) PROVE UNCHANGED Remote!promised
  <1>1. TypeOK /\ Single
    BY DEF ItnInv
  <1> DEFINE c == Head(taskQueue)
             t == Tail(taskQueue)
  <1>2. /\ taskQueue' = t /\ worker' = [worker EXCEPT ![w] = c]
        /\ worker[w] = NoCall /\ taskQueue # <<>>
        /\ UNCHANGED <<results, handing, waiter, pc>>
    BY DEF Take, dispatch
  <1>3. /\ taskQueue \in Seq(Calls) /\ \A i, j \in 1 .. Len(taskQueue) :
              taskQueue[i] = taskQueue[j] => i = j
    BY <1>1 DEF TypeOK, Single
  <1>4. /\ c \in Calls
        /\ \E i \in 1 .. Len(taskQueue) : taskQueue[i] = c
        /\ \A d : (\E i \in 1 .. Len(t) : t[i] = d) <=>
                  ((\E i \in 1 .. Len(taskQueue) : taskQueue[i] = d) /\ d # c)
    BY <1>2, <1>3, CallsInTail
  <1> HIDE DEF c, t
  <1>5. Tasked(c) /\ \A d : Tasked(d)' <=> (Tasked(d) /\ d # c)
    BY <1>2, <1>4 DEF Tasked
  <1>6. worker'[w] = c /\ \A v \in Workers : v # w => worker'[v] = worker[v]
    BY <1>1, <1>2 DEF TypeOK
  <1>7. \A d \in Calls : Worked(d)' <=> (Worked(d) \/ d = c)
    <2>1. \A d \in Calls : d # NoCall
      BY NoCallAssumption
    <2> QED
      BY <1>2, <1>6, <2>1 DEF Worked
  <1>8. Todo' = {d \in Calls : Tasked(d)' \/ Worked(d)'}
    BY DEF Todo, Tasked, Worked
  <1>9. Todo' = Todo
    BY <1>5, <1>7, <1>8, Mapped
  <1>10. OnTheWay' = OnTheWay /\ Status' = Status
    BY <1>2, SamePlaces, SameStatus
  <1> QED
    BY <1>9, <1>10 DEF Remote!promised

\* A worker that answers has done its task.
LEMMA AnswerPromised ==
    ASSUME ItnInv, NEW w \in Workers, Answer(w) PROVE [Remote!Next]_(Remote!promised)
  <1>1. TypeOK /\ Apart
    BY DEF ItnInv
  <1> DEFINE c == worker[w]
  <1>2. /\ worker[w] # NoCall /\ worker' = [worker EXCEPT ![w] = NoCall]
        /\ UNCHANGED <<taskQueue, handing, waiter, pc>>
    BY DEF Answer, dispatch
  <1>3. /\ c \in Calls /\ Worked(c)
        /\ \A d \in Calls : Worked(d)' <=> (Worked(d) /\ d # c)
    BY <1>2, FreeWorker
  <1>4. PICK o \in {"ok", "error"} : results' = Append(results, <<c, o>>)
    BY DEF Answer
  <1>5. ~Tasked(c) /\ \A d : Tasked(d)' <=> Tasked(d)
    BY <1>1, <1>2, <1>3 DEF Apart, Tasked
  <1> HIDE DEF c
  <1> DEFINE a == <<c, o>>
  <1>6. a \in Answers /\ results' = Append(results, a) /\ results \in Seq(Answers)
    BY <1>1, <1>3, <1>4 DEF TypeOK, Answers
  <1> HIDE DEF a
  <1>7. \A b : Listed(b)' <=> (Listed(b) \/ b = a)
    BY <1>6, ListedInQueue DEF Listed
  <1>8. OnTheWay' = {b \in Answers : Listed(b)' \/ handing = b \/ waiter[b[1]] = b[2]}
    BY <1>2 DEF OnTheWay, Listed
  <1>9. OnTheWay' = OnTheWay \cup {a}
    BY <1>6, <1>7, <1>8, Mapped
  <1>10. Todo' = {d \in Calls : Tasked(d)' \/ Worked(d)'}
    BY DEF Todo, Tasked, Worked
  <1>11. Todo' = Todo \ {c} /\ c \in Todo
    BY <1>3, <1>5, <1>10, Mapped
  <1>12. Status' = Status
    BY <1>2, SameStatus
  <1>13. Remote!Work(c, o)
    BY <1>9, <1>11, <1>12 DEF Remote!Work, a
  <1> QED
    BY <1>3, <1>13 DEF Remote!Next, Remote!Outcomes

\* A step that moves no call and brings no task and no answer only loses some.
LEMMA Lost ==
    ASSUME UNCHANGED pc, Todo' \subseteq Todo, OnTheWay' \subseteq OnTheWay
    PROVE  Remote!Next
  BY SameStatus DEF Remote!Next, Remote!Lose

\* Nobody does the task of a worker that has died.
LEMMA CrashPromised == ASSUME ItnInv, NEW w \in Workers, Crash(w) PROVE Remote!Next
  <1>1. worker[w] # NoCall /\ worker' = [worker EXCEPT ![w] = NoCall]
        /\ UNCHANGED <<taskQueue, results, handing, waiter, pc>>
    BY DEF Crash, dispatch
  <1>2. \A d \in Calls : Worked(d)' => Worked(d)
    BY <1>1, FreeWorker
  <1>3. Todo' = {d \in Calls : Tasked(d)' \/ Worked(d)'} /\ \A d : Tasked(d)' <=> Tasked(d)
    BY <1>1 DEF Todo, Tasked, Worked
  <1>4. Todo' \subseteq Todo
    BY <1>2, <1>3, Mapped
  <1> QED
    BY <1>1, <1>4, Lost, SamePlaces

\* shutdown() drops tasks, or answers.
LEMMA EmptiesPromised == ASSUME TerminatePool \/ ShutManager PROVE Remote!Next
  <1>1. /\ taskQueue' \in {taskQueue, <<>>} /\ results' \in {results, <<>>}
        /\ worker' \in {worker, [w \in Workers |-> NoCall]}
        /\ UNCHANGED <<handing, waiter, pc>>
    BY DEF TerminatePool, ShutManager, dispatch
  <1>2. \A d \in Calls : d # NoCall
    BY NoCallAssumption
  <1>3. \A d \in Calls : (Tasked(d)' => Tasked(d)) /\ (Worked(d)' => Worked(d))
    BY <1>1, <1>2 DEF Tasked, Worked
  <1>4. \A a : Listed(a)' => Listed(a)
    BY <1>1 DEF Listed
  <1>5. Todo' = {d \in Calls : Tasked(d)' \/ Worked(d)'}
    BY DEF Todo, Tasked, Worked
  <1>6. OnTheWay' = {a \in Answers : Listed(a)' \/ handing = a \/ waiter[a[1]] = a[2]}
    BY <1>1 DEF OnTheWay, Listed
  <1>7. Todo' \subseteq Todo /\ OnTheWay' \subseteq OnTheWay
    BY <1>3, <1>4, <1>5, <1>6, Mapped
  <1> QED
    BY <1>1, <1>7, Lost

\* The dispatcher moves an answer or drops it.
LEMMA DispatchPromised == ASSUME ItnInv, Dispatch PROVE Remote!Next
  <1>1. TypeOK /\ Single /\ Handing
    BY DEF ItnInv
  <1> DEFINE a == Head(results)
             t == Tail(results)
  <1>2. /\ results # <<>> /\ results' = t /\ dispatcher = "get"
        /\ handing' \in {a, handing}
        /\ UNCHANGED <<taskQueue, worker, waiter, pc>>
    BY DEF Dispatch
  <1>3. /\ results \in Seq(Answers)
        /\ \A i, j \in 1 .. Len(results) : results[i][1] = results[j][1] => i = j
    BY <1>1 DEF TypeOK, Single
  <1>4. /\ \E i \in 1 .. Len(results) : results[i] = a
        /\ \A b : (\E i \in 1 .. Len(t) : t[i] = b) <=>
                  ((\E i \in 1 .. Len(results) : results[i] = b) /\ b # a)
    BY <1>2, <1>3, ListedInTail
  <1> HIDE DEF a, t
  <1>5. Listed(a) /\ \A b : Listed(b)' => Listed(b)
    BY <1>2, <1>4 DEF Listed
  <1>6. OnTheWay' = {b \in Answers : Listed(b)' \/ handing' = b \/ waiter[b[1]] = b[2]}
    BY <1>2 DEF OnTheWay, Listed
  <1>7. OnTheWay' \subseteq OnTheWay
    BY <1>2, <1>5, <1>6, Mapped
  <1>8. Todo' = Todo
    BY <1>2, SamePlaces
  <1> QED
    BY <1>2, <1>7, <1>8, Lost

\* The answer handed over is the one that was taken.
LEMMA HandPromised == ASSUME ItnInv, Hand PROVE Remote!Next
  <1>1. TypeOK /\ Handing
    BY DEF ItnInv
  <1> DEFINE c == handing[1]
             o == handing[2]
  <1>2. /\ handing' = NoAnswer /\ waiter[c] = "none" /\ waiter' = [waiter EXCEPT ![c] = o]
        /\ UNCHANGED <<taskQueue, worker, results, pc>>
    BY DEF Hand, queues
  <1>3. handing \in Answers
    BY <1>1 DEF TypeOK, Handing, Hand
  <1>4. c \in Calls /\ handing = <<c, o>>
    BY <1>3 DEF Answers
  <1> HIDE DEF c, o
  <1>5. waiter'[c] = o /\ \A d \in Calls : d # c => waiter'[d] = waiter[d]
    BY <1>1, <1>2, <1>4 DEF TypeOK
  <1>6. \A b \in Answers : b[1] \in Calls /\ b = <<b[1], b[2]>> /\ b # NoAnswer
    BY NoCallAssumption DEF Answers, NoAnswer
  <1>7. OnTheWay' = {b \in Answers : Listed(b) \/ handing' = b \/ waiter'[b[1]] = b[2]}
    BY <1>2 DEF OnTheWay, Listed
  <1>8. ASSUME NEW b \in Answers, waiter'[b[1]] = b[2]
        PROVE  handing = b \/ waiter[b[1]] = b[2]
    BY <1>4, <1>5, <1>6, <1>8
  <1>9. OnTheWay' \subseteq OnTheWay
    BY <1>2, <1>6, <1>7, <1>8, Mapped
  <1>10. Todo' = Todo
    BY <1>2, SamePlaces
  <1> QED
    BY <1>2, <1>9, <1>10, Lost

\* Every step of the pool is a step of RemoteCalls or none.
LEMMA StepPromised == ItnInv /\ [Next]_vars => [Remote!Next]_(Remote!promised)
  <1> SUFFICES ASSUME ItnInv, [Next]_vars PROVE [Remote!Next]_(Remote!promised)
    OBVIOUS
  <1>1. ASSUME UNCHANGED <<taskQueue, worker, results, handing, waiter, pc>>
        PROVE  UNCHANGED Remote!promised
    BY <1>1, SamePlaces, SameStatus DEF Remote!promised
  <1>2. CASE Look \/ NothingToGet \/ StopRunning \/ ClosePool \/ DropRuntime \/ UNCHANGED vars
    <2>1. UNCHANGED <<taskQueue, worker, results, handing, waiter, pc>>
      BY <1>2 DEF Look, NothingToGet, StopRunning, ClosePool, DropRuntime, vars, queues, dispatch
    <2> QED
      BY <1>1, <2>1
  <1>3. ASSUME NEW c \in Calls, CallStep(c) PROVE [Remote!Next]_(Remote!promised)
    BY <1>3, QuietCallPromised, ApplyPromised, ReceivePromised DEF CallStep
  <1>4. ASSUME NEW w \in Workers, Take(w) \/ Answer(w) \/ Crash(w)
        PROVE  [Remote!Next]_(Remote!promised)
    BY <1>4, TakePromised, AnswerPromised, CrashPromised
  <1>5. CASE Dispatch \/ Hand \/ TerminatePool \/ ShutManager
    BY <1>5, DispatchPromised, HandPromised, EmptiesPromised
  <1> QED
    BY <1>2, <1>3, <1>4, <1>5 DEF Next, Shutdown, Finished

\* A pool that has just started has been asked for nothing.
LEMMA NothingPromised == Init => Remote!Init
  <1> SUFFICES ASSUME Init PROVE Remote!Init
    OBVIOUS
  <1>1. Status = [c \in Calls |-> "idle"]
    BY DEF Init, Status, StatusOf
  <1>2. Todo = {}
    BY NoCallAssumption DEF Init, Todo
  <1>3. \A a \in Answers : a[1] \in Calls /\ a[2] \in {"ok", "error"} /\ a # NoAnswer
    BY NoCallAssumption DEF Answers, NoAnswer
  <1>4. OnTheWay = {}
    BY <1>3 DEF Init, OnTheWay
  <1> QED
    BY <1>1, <1>2, <1>4 DEF Remote!Init

\* The pool implements RemoteCalls: with any calls, workers and threads, whatever
\* times out, dies or is shut down, a call is worked on at most once and returns
\* what a worker made of it, or nothing.
THEOREM PoolKeepsPromise == Spec => CallsAsPromised
  BY ItnInvariant, NothingPromised, StepPromised, PTL DEF Spec, CallsAsPromised, Remote!Spec
==============================================================================
