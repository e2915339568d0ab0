------------------------------ MODULE LogProofs ------------------------------
(***************************************************************************)
(* Theorems about LogStream, for any readers, capacities and numbers of    *)
(* lines: a client reads the lines in order, and misses none but those its *)
(* full queue has refused.                                                 *)
(***************************************************************************)
EXTENDS LogStream, SequenceTheorems, TLAPS

\* emit holds a line from its append to its last put.
EmitShape ==
    /\ emitting # "put" => todo = {}
    /\ emitting # "append" => count \in Lines

\* The ring buffer holds the last lines of the log.
BufferRecent == \A i \in 1 .. Len(buffer) : buffer[i] = count - Len(buffer) + i

\* Line count may still be put to r's queue.
Coming(r) == emitting = "copy" \/ r \in todo

Streaming(r) == pc[r] \in {"get", "empty", "wait", "send"}

\* A stream is subscribed while it runs, and nothing was put to it before.
Subscribed(r) ==
    /\ Streaming(r) => r \in subs
    /\ pc[r] \in {"away", "replay"} => r \notin subs /\ r \notin todo /\ queue[r] = <<>>
    /\ pc[r] = "away" => got[r] = <<>> /\ replayed[r] = 0

Increases(s) == \A i, j \in 1 .. Len(s) : i < j => s[i] < s[j]

\* The queue is in order and older than what is still to come.
QueueInOrder(r) ==
    /\ Increases(queue[r])
    /\ \A i \in 1 .. Len(queue[r]) :
          queue[r][i] <= count /\ (Coming(r) => queue[r][i] < count)

\* So is what get_recent returned.
RestInOrder(r) ==
    pc[r] = "replay" =>
        /\ Increases(rest[r]) /\ \A i \in 1 .. Len(rest[r]) : rest[r][i] <= count
        /\ replayed[r] = Len(got[r])

\* What was sent last comes before what will be sent next, or is the last
\* replayed line and may be the same.
SentBefore(r) ==
    LET n == Len(got[r]) IN
        /\ replayed[r] <= n
        /\ n > 0 =>
             /\ got[r][n] <= count
             /\ \A i \in 1 .. Len(queue[r]) : got[r][n] <= queue[r][i]
             /\ pc[r] = "replay" => \A i \in 1 .. Len(rest[r]) : got[r][n] < rest[r][i]
        /\ n > replayed[r] =>
             /\ \A i \in 1 .. Len(queue[r]) : got[r][n] < queue[r][i]
             /\ Coming(r) => got[r][n] < count

\* InOrder and NoLineLost of one reader.
Ordered(r) ==
    \A i \in 1 .. Len(got[r]) - 1 :
        \/ got[r][i] < got[r][i + 1]
        \/ got[r][i] = got[r][i + 1] /\ i = replayed[r]

Missed(r, l) == ~Holds(got[r], l) /\ ~Holds(queue[r], l) /\ l \notin dropped[r]

NoGap(r) ==
    Streaming(r) =>
        \A l \in since[r] .. count : Missed(r, l) => l = count /\ Coming(r)

ReaderInv(r) ==
    /\ Subscribed(r) /\ QueueInOrder(r) /\ RestInOrder(r) /\ SentBefore(r)
    /\ Ordered(r) /\ NoGap(r)

LogInv == TypeOK /\ EmitShape /\ BufferRecent /\ \A r \in Readers : ReaderInv(r)

-----------------------------------------------------------------------------
(* Sequences of lines *)

\* What appending a line to a sequence of lines does.
LEMMA AppendLine ==
    ASSUME NEW s \in Seq(Lines), NEW x \in Lines
    PROVE  /\ Append(s, x) \in Seq(Lines) /\ Len(Append(s, x)) = Len(s) + 1 /\ Len(s) \in Nat
           /\ Append(s, x)[Len(s) + 1] = x
           /\ \A i \in 1 .. Len(s) : Append(s, x)[i] = s[i]
           /\ \A i \in 1 .. Len(Append(s, x)) : i \in 1 .. Len(s) \/ i = Len(s) + 1
           /\ \A l : Holds(s, l) \/ l = x => Holds(Append(s, x), l)
  <1> DEFINE t == Append(s, x)
  <1>1. /\ t \in Seq(Lines) /\ Len(t) = Len(s) + 1 /\ Len(s) \in Nat
        /\ t[Len(s) + 1] = x /\ \A i \in 1 .. Len(s) : t[i] = s[i]
    OBVIOUS
  <1> HIDE DEF t
  <1>2. \A i \in 1 .. Len(t) : i \in 1 .. Len(s) \/ i = Len(s) + 1
    BY <1>1
  <1>3. Len(s) + 1 \in 1 .. Len(t) /\ \A i \in 1 .. Len(s) : i \in 1 .. Len(t)
    BY <1>1
  <1>4. \A l : Holds(s, l) \/ l = x => Holds(t, l)
    BY <1>1, <1>3 DEF Holds
  <1> QED
    BY <1>1, <1>2, <1>4 DEF t

\* What taking the first line of a sequence of lines leaves.
LEMMA TailOfLines ==
    ASSUME NEW s \in Seq(Lines), s # <<>>
    PROVE  /\ Tail(s) \in Seq(Lines) /\ Head(s) \in Lines
           /\ Len(Tail(s)) = Len(s) - 1 /\ Len(s) \in Nat \ {0} /\ Head(s) = s[1]
           /\ \A i \in 1 .. Len(Tail(s)) : Tail(s)[i] = s[i + 1] /\ i + 1 \in 1 .. Len(s)
           /\ \A l : Holds(s, l) => l = Head(s) \/ Holds(Tail(s), l)
  <1> DEFINE t == Tail(s)
             h == Head(s)
  <1>1. /\ t \in Seq(Lines) /\ h \in Lines
        /\ Len(t) = Len(s) - 1 /\ Len(s) \in Nat \ {0} /\ h = s[1]
        /\ \A i \in 1 .. Len(t) : t[i] = s[i + 1] /\ i + 1 \in 1 .. Len(s)
    OBVIOUS
  <1> HIDE DEF t, h
  <1>2. ASSUME NEW i \in 1 .. Len(s), i # 1
        PROVE  i - 1 \in 1 .. Len(t) /\ t[i - 1] = s[i]
    <2>1. i - 1 \in 1 .. Len(t) /\ (i - 1) + 1 = i
      BY <1>1, <1>2
    <2> QED
      BY <1>1, <2>1
  <1>3. \A l : Holds(s, l) => l = h \/ Holds(t, l)
    BY <1>1, <1>2 DEF Holds
  <1> QED
    BY <1>1, <1>3 DEF t, h

\* In the tail of an increasing sequence every line is greater than its head.
LEMMA TailIncreases ==
    ASSUME NEW s \in Seq(Lines), s # <<>>, Increases(s)
    PROVE  /\ Increases(Tail(s))
           /\ \A i \in 1 .. Len(Tail(s)) : Head(s) < Tail(s)[i]
  <1>1. \A i \in 1 .. Len(Tail(s)) : /\ Tail(s)[i] = s[i + 1] /\ i + 1 \in 1 .. Len(s)
                                     /\ i \in Int
    BY TailOfLines
  <1>2. 1 \in 1 .. Len(s) /\ Head(s) = s[1]
    BY TailOfLines
  <1>3. \A i \in 1 .. Len(Tail(s)) : 1 < i + 1
    OBVIOUS
  <1>4. \A i, j \in 1 .. Len(Tail(s)) : i < j => i + 1 < j + 1
    OBVIOUS
  <1> HIDE DEF Increases
  <1>5. Increases(Tail(s))
    BY <1>1, <1>4 DEF Increases
  <1>6. \A i \in 1 .. Len(Tail(s)) : Head(s) < Tail(s)[i]
    BY <1>1, <1>2, <1>3 DEF Increases
  <1> QED
    BY <1>5, <1>6

\* What get_recent returns of the buffer is in order.
LEMMA RecentInOrder ==
    ASSUME TypeOK, BufferRecent, NEW n \in 0 .. Capacity
    PROVE  /\ LastOf(buffer, n) \in Seq(Lines) /\ Increases(LastOf(buffer, n))
           /\ \A i \in 1 .. Len(LastOf(buffer, n)) : LastOf(buffer, n)[i] <= count
  <1>1. buffer \in Seq(Lines) /\ Len(buffer) \in Nat /\ count \in Nat /\ n \in Nat
    BY CapacityAssumption, LinesAssumption DEF TypeOK
  <1>2. Increases(buffer) /\ \A i \in 1 .. Len(buffer) : buffer[i] <= count
    BY <1>1 DEF BufferRecent, Increases
  <1>3. CASE n = 0 \/ n > Len(buffer)
    BY <1>1, <1>2, <1>3 DEF LastOf
  <1>4. CASE ~(n = 0 \/ n > Len(buffer))
    <2> DEFINE s == SubSeq(buffer, Len(buffer) - n + 1, Len(buffer))
    <2>1. /\ s \in Seq(Lines) /\ Len(s) = n
          /\ \A i \in 1 .. n : s[i] = buffer[Len(buffer) - n + i]
      BY <1>1, <1>4
    <2>2. \A i \in 1 .. n : Len(buffer) - n + i \in 1 .. Len(buffer)
      BY <1>1, <1>4
    <2>3. LastOf(buffer, n) = s
      BY <1>4 DEF LastOf
    <2> HIDE DEF s
    <2>4. \A i \in 1 .. n : s[i] <= count
      BY <1>2, <2>1, <2>2
    <2>5. ASSUME NEW i \in 1 .. n
          PROVE  s[i] = count - n + i
      <3> DEFINE j == Len(buffer) - n + i
      <3>1. buffer[j] = count - Len(buffer) + j
        BY <2>2 DEF BufferRecent
      <3> QED
        BY <1>1, <2>1, <3>1
    <2>6. Increases(s)
      BY <1>1, <2>1, <2>5 DEF Increases
    <2> QED
      BY <2>1, <2>3, <2>4, <2>6
  <1> QED
    BY <1>3, <1>4

-----------------------------------------------------------------------------
(* Frames *)

\* What the types say of one reader.
LEMMA ReaderTypes ==
    ASSUME TypeOK, NEW r \in Readers
    PROVE  /\ queue[r] \in Seq(Lines) /\ rest[r] \in Seq(Lines) /\ got[r] \in Seq(Lines)
           /\ replayed[r] \in Nat /\ since[r] \in Nat /\ count \in Nat
           /\ \A i \in 1 .. Len(queue[r]) : queue[r][i] \in Nat
           /\ \A i \in 1 .. Len(rest[r]) : rest[r][i] \in Nat
           /\ \A i \in 1 .. Len(got[r]) : got[r][i] \in Nat
  <1>1. /\ queue[r] \in Seq(Lines) /\ rest[r] \in Seq(Lines) /\ got[r] \in Seq(Lines)
        /\ replayed[r] \in Nat /\ since[r] \in Nat /\ count \in Nat
    BY LinesAssumption DEF TypeOK
  <1>2. \A l \in Lines : l \in Nat
    BY LinesAssumption DEF Lines
  <1>3. \A s \in Seq(Lines) : \A i \in 1 .. Len(s) : s[i] \in Lines
    OBVIOUS
  <1> QED
    BY <1>1, <1>2, <1>3

\* What is said of a reader holds on as long as neither emit nor its own stream
\* does anything.
LEMMA OthersKeep ==
    ASSUME NEW r \in Readers, ReaderInv(r), UNCHANGED emitVars,
           (r \in subs') <=> (r \in subs), pc'[r] = pc[r], rest'[r] = rest[r],
           queue'[r] = queue[r], got'[r] = got[r], replayed'[r] = replayed[r],
           since'[r] = since[r], dropped'[r] = dropped[r]
    PROVE  ReaderInv(r)'
  <1> USE DEF Coming, Streaming, emitVars
  <1>1. Subscribed(r)'
    BY DEF ReaderInv, Subscribed
  <1>2. QueueInOrder(r)' /\ RestInOrder(r)'
    BY DEF ReaderInv, QueueInOrder, RestInOrder, Increases
  <1>3. SentBefore(r)' /\ Ordered(r)'
    BY DEF ReaderInv, SentBefore, Ordered
  <1>4. NoGap(r)'
    BY DEF ReaderInv, NoGap, Missed
  <1> QED
    BY <1>1, <1>2, <1>3, <1>4 DEF ReaderInv

\* A step of the stream r keeps the invariant when it keeps what is said of r.
LEMMA StreamKeeps ==
    ASSUME LogInv, NEW r \in Readers, UNCHANGED emitVars, TypeOK', ReaderInv(r)',
           \A d \in Readers : d # r =>
               /\ (d \in subs') <=> (d \in subs)
               /\ pc'[d] = pc[d] /\ rest'[d] = rest[d] /\ queue'[d] = queue[d]
               /\ got'[d] = got[d] /\ replayed'[d] = replayed[d]
               /\ since'[d] = since[d] /\ dropped'[d] = dropped[d]
    PROVE  LogInv'
  <1>1. EmitShape' /\ BufferRecent'
    BY DEF LogInv, EmitShape, BufferRecent, emitVars
  <1>2. ASSUME NEW d \in Readers
        PROVE  ReaderInv(d)'
    <2>1. CASE d = r
      BY <2>1
    <2>2. CASE d # r
      BY <2>2, OthersKeep DEF LogInv
    <2> QED
      BY <2>1, <2>2
  <1> QED
    BY <1>1, <1>2 DEF LogInv

\* The invariant holds of an empty log without readers.
LEMMA LogInitially == Init => LogInv
  <1> SUFFICES ASSUME Init PROVE LogInv
    OBVIOUS
  <1>1. TypeOK
    <2>1. <<>> \in Seq(Lines) /\ 0 \in 0 .. MaxLines /\ 0 \in 0 .. MaxLines + 1
          /\ 0 <= QueueSize /\ 0 <= Capacity /\ Len(<<>>) = 0
      BY CapacityAssumption, QueueAssumption, LinesAssumption
    <2> QED
      BY <2>1 DEF Init, TypeOK
  <1>2. EmitShape /\ BufferRecent
    BY DEF Init, EmitShape, BufferRecent
  <1>3. ASSUME NEW r \in Readers
        PROVE  ReaderInv(r)
    BY DEF Init, ReaderInv, Subscribed, QueueInOrder, RestInOrder, SentBefore, Ordered, NoGap,
           Coming, Streaming, Increases
  <1> QED
    BY <1>1, <1>2, <1>3 DEF LogInv

-----------------------------------------------------------------------------
(* emit *)

\* The buffer after one more line.
LEMMA BufferKeeps ==
    ASSUME TypeOK, BufferRecent, EmitAppend
    PROVE  buffer' \in Seq(Lines) /\ Len(buffer') <= Capacity /\ BufferRecent'
  <1> DEFINE all == Append(buffer, count + 1)
  <1>1. /\ buffer \in Seq(Lines) /\ Len(buffer) \in Nat /\ count \in Nat /\ Capacity \in Nat \ {0}
        /\ Len(buffer) <= Capacity /\ count + 1 \in Lines /\ count' = count + 1
    BY CapacityAssumption, LinesAssumption DEF TypeOK, EmitAppend, Lines
  <1>2. /\ all \in Seq(Lines) /\ Len(all) = Len(buffer) + 1 /\ all[Len(buffer) + 1] = count + 1
        /\ \A i \in 1 .. Len(buffer) : all[i] = buffer[i]
        /\ \A i \in 1 .. Len(all) : i \in 1 .. Len(buffer) \/ i = Len(buffer) + 1
    BY <1>1, AppendLine
  <1>3. buffer' = IF Len(all) > Capacity THEN Tail(all) ELSE all
    BY <1>1 DEF EmitAppend
  <1> HIDE DEF all
  <1>4. \A i \in 1 .. Len(all) : all[i] = count' - Len(all) + i
    BY <1>1, <1>2 DEF BufferRecent
  <1>5. CASE Len(all) > Capacity
    <2>1. all # <<>>
      BY <1>1, <1>2, <1>5
    <2>2. /\ Tail(all) \in Seq(Lines) /\ Len(Tail(all)) = Len(all) - 1
          /\ \A i \in 1 .. Len(Tail(all)) : Tail(all)[i] = all[i + 1] /\ i + 1 \in 1 .. Len(all)
      BY <1>2, <2>1, TailOfLines
    <2>3. \A i \in 1 .. Len(Tail(all)) : Tail(all)[i] = count' - Len(Tail(all)) + i
      BY <1>1, <1>2, <1>4, <2>2
    <2> QED
      BY <1>1, <1>2, <1>3, <1>5, <2>2, <2>3 DEF BufferRecent
  <1>6. CASE ~(Len(all) > Capacity)
    BY <1>1, <1>2, <1>3, <1>4, <1>6, SMTT(30) DEF BufferRecent
  <1> QED
    BY <1>5, <1>6

\* The append of a new line to the ring buffer keeps the invariant.
LEMMA EmitAppendKeeps == ASSUME LogInv, EmitAppend PROVE LogInv'
  <1>1. TypeOK /\ EmitShape /\ BufferRecent
    BY DEF LogInv
  <1>2. buffer' \in Seq(Lines) /\ Len(buffer') <= Capacity /\ BufferRecent'
    BY <1>1, BufferKeeps
  <1>3. /\ count \in Nat /\ count' = count + 1 /\ count' \in Lines /\ count' \in 0 .. MaxLines
        /\ emitting = "append" /\ emitting' = "copy" /\ todo = {} /\ todo' = {}
        /\ UNCHANGED <<subs, pc, rest, queue, got, replayed, since, dropped>>
    BY <1>1, LinesAssumption DEF EmitAppend, TypeOK, EmitShape, Lines, histories
  <1>4. TypeOK'
    BY <1>1, <1>2, <1>3 DEF TypeOK
  <1>5. EmitShape'
    BY <1>3 DEF EmitShape
  <1>6. ASSUME NEW r \in Readers
        PROVE  ReaderInv(r)'
    <2>1. ReaderInv(r)
      BY DEF LogInv
    <2>2. /\ queue[r] \in Seq(Lines) /\ rest[r] \in Seq(Lines) /\ got[r] \in Seq(Lines)
          /\ replayed[r] \in Nat /\ since[r] \in Nat
      BY <1>1, ReaderTypes
    <2>3. /\ \A i \in 1 .. Len(queue[r]) : queue[r][i] \in Nat
          /\ \A i \in 1 .. Len(rest[r]) : rest[r][i] \in Nat
          /\ \A i \in 1 .. Len(got[r]) : got[r][i] \in Nat
      BY <1>1, ReaderTypes
    <2>4. Subscribed(r)' /\ Ordered(r)'
      BY <1>3, <2>1 DEF ReaderInv, Subscribed, Ordered, Streaming
    <2>5. QueueInOrder(r)'
      BY <1>3, <2>1, <2>3 DEF ReaderInv, QueueInOrder, Increases
    <2>6. RestInOrder(r)'
      BY <1>3, <2>1, <2>3 DEF ReaderInv, RestInOrder, Increases
    <2>7. SentBefore(r)'
      <3>1. Len(got[r]) \in Nat /\ (Len(got[r]) > 0 => got[r][Len(got[r])] \in Nat)
        BY <2>2, <2>3
      <3>2. Len(got[r]) > replayed[r] => Len(got[r]) > 0
        BY <2>2, <3>1
      <3> QED
        BY <1>3, <2>1, <3>1, <3>2 DEF ReaderInv, SentBefore
    <2>8. NoGap(r)'
      <3>1. ASSUME NEW l \in since[r] .. count', Streaming(r), Missed(r, l), l # count'
            PROVE  FALSE
        <4>1. l \in since[r] .. count
          BY <1>3, <2>2, <3>1
        <4> QED
          BY <1>3, <2>1, <3>1, <4>1 DEF ReaderInv, NoGap, Coming
      <3> QED
        BY <1>3, <3>1 DEF NoGap, Streaming, Missed, Coming
    <2> QED
      BY <2>4, <2>5, <2>6, <2>7, <2>8 DEF ReaderInv
  <1> QED
    BY <1>2, <1>4, <1>5, <1>6 DEF LogInv

\* The copy of the set of subscribers keeps the invariant.
LEMMA EmitCopyKeeps == ASSUME LogInv, EmitCopy PROVE LogInv'
  <1>1. TypeOK /\ EmitShape /\ BufferRecent
    BY DEF LogInv
  <1>2. /\ emitting = "copy" /\ todo' = subs
        /\ emitting' = IF subs = {} THEN "append" ELSE "put"
        /\ UNCHANGED <<buffer, count, subs, pc, rest, queue, got, replayed, since, dropped>>
    BY DEF EmitCopy, PutTo, histories
  <1>3. TypeOK'
    BY <1>1, <1>2 DEF TypeOK
  <1>4. EmitShape' /\ BufferRecent'
    BY <1>1, <1>2 DEF EmitShape, BufferRecent
  <1>5. ASSUME NEW r \in Readers
        PROVE  ReaderInv(r)'
    <2>1. ReaderInv(r) /\ Coming(r) /\ (Coming(r)' <=> r \in subs)
      BY <1>2 DEF LogInv, Coming
    <2>2. Subscribed(r)' /\ Ordered(r)' /\ RestInOrder(r)'
      BY <1>2, <2>1 DEF ReaderInv, Subscribed, Ordered, RestInOrder, Streaming, Increases
    <2>3. QueueInOrder(r)' /\ SentBefore(r)'
      BY <1>2, <2>1 DEF ReaderInv, QueueInOrder, SentBefore, Increases
    <2>4. NoGap(r)'
      BY <1>2, <2>1 DEF ReaderInv, NoGap, Subscribed, Streaming, Missed
    <2> QED
      BY <2>2, <2>3, <2>4 DEF ReaderInv
  <1> QED
    BY <1>3, <1>4, <1>5 DEF LogInv

\* The put of a line in the queue of one subscriber, which drops the line when
\* the queue is full, keeps the invariant.
LEMMA EmitPutKeeps == ASSUME LogInv, NEW r \in Readers, EmitPut(r) PROVE LogInv'
  <1>1. TypeOK /\ EmitShape /\ BufferRecent /\ ReaderInv(r)
    BY DEF LogInv
  <1>2. /\ emitting = "put" /\ r \in todo /\ todo' = todo \ {r}
        /\ emitting' = IF todo' = {} THEN "append" ELSE "put"
        /\ UNCHANGED <<buffer, count, subs, rest, got, replayed, since>>
    BY DEF EmitPut, PutTo
  <1>3. count \in Lines
    BY <1>1, <1>2 DEF EmitShape
  <1>4. /\ queue[r] \in Seq(Lines) /\ got[r] \in Seq(Lines)
        /\ replayed[r] \in Nat /\ since[r] \in Nat /\ count \in Nat
        /\ \A i \in 1 .. Len(queue[r]) : queue[r][i] \in Nat
        /\ \A i \in 1 .. Len(got[r]) : got[r][i] \in Nat
    BY <1>1, ReaderTypes
  <1>5. \/ /\ Len(queue[r]) < QueueSize
           /\ queue' = [queue EXCEPT ![r] = Append(queue[r], count)]
           /\ pc' = IF pc[r] = "wait" THEN [pc EXCEPT ![r] = "get"] ELSE pc
           /\ dropped' = dropped
        \/ /\ dropped' = [dropped EXCEPT ![r] = dropped[r] \cup {count}]
           /\ UNCHANGED <<queue, pc>>
    BY DEF EmitPut, Woken
  <1>6. /\ Append(queue[r], count) \in Seq(Lines)
        /\ Len(Append(queue[r], count)) = Len(queue[r]) + 1 /\ Len(queue[r]) \in Nat
    BY <1>3, <1>4, AppendLine
  <1>7. /\ queue' \in [Readers -> Seq(Lines)] /\ dropped' \in [Readers -> SUBSET Lines]
        /\ pc' \in [Readers -> {"away", "replay", "get", "empty", "wait", "send", "left", "over"}]
        /\ \A d \in Readers : Len(queue'[d]) <= QueueSize
        /\ \A d \in Readers : d # r => /\ queue'[d] = queue[d] /\ pc'[d] = pc[d]
                                       /\ dropped'[d] = dropped[d]
    <2>1. queue' \in [Readers -> Seq(Lines)]
      BY <1>1, <1>5, <1>6 DEF TypeOK
    <2>5. dropped' \in [Readers -> SUBSET Lines]
      <3>1. dropped \in [Readers -> SUBSET Lines] /\ dropped[r] \cup {count} \in SUBSET Lines
        BY <1>1, <1>3 DEF TypeOK
      <3> QED
        BY <1>5, <3>1
    <2>2. pc' \in [Readers -> {"away", "replay", "get", "empty", "wait", "send", "left", "over"}]
      BY <1>1, <1>5 DEF TypeOK
    <2>3. \A d \in Readers : d # r => /\ queue'[d] = queue[d] /\ pc'[d] = pc[d]
                                      /\ dropped'[d] = dropped[d]
      BY <1>1, <1>5 DEF TypeOK
    <2>4. Len(queue'[r]) <= QueueSize
      BY <1>1, <1>5, <1>6, QueueAssumption DEF TypeOK
    <2> QED
      BY <1>1, <2>1, <2>2, <2>3, <2>4, <2>5 DEF TypeOK
  <1>8. TypeOK'
    BY <1>1, <1>2, <1>7 DEF TypeOK
  <1>9. EmitShape' /\ BufferRecent'
    BY <1>1, <1>2 DEF EmitShape, BufferRecent
  <1>10. ReaderInv(r)'
    <2>1. /\ pc[r] \notin {"away", "replay"} /\ Coming(r) /\ ~Coming(r)'
          /\ pc'[r] \notin {"away", "replay"} /\ (Streaming(r)' <=> Streaming(r))
      BY <1>1, <1>2, <1>5, <1>7 DEF ReaderInv, Subscribed, Coming, Streaming, TypeOK
    <2>2. Subscribed(r)' /\ Ordered(r)' /\ RestInOrder(r)'
      BY <1>1, <1>2, <2>1 DEF ReaderInv, Subscribed, Ordered, RestInOrder, Streaming
    <2>3. CASE queue'[r] = queue[r] /\ count \in dropped'[r] /\ dropped[r] \subseteq dropped'[r]
      <3>1. QueueInOrder(r)' /\ SentBefore(r)'
        BY <1>1, <1>2, <2>1, <2>3 DEF ReaderInv, QueueInOrder, SentBefore, Increases
      <3>2. NoGap(r)'
        BY <1>1, <1>2, <2>1, <2>3 DEF ReaderInv, NoGap, Missed, Streaming
      <3> QED
        BY <2>2, <3>1, <3>2 DEF ReaderInv
    <2>4. CASE queue'[r] = Append(queue[r], count) /\ dropped'[r] = dropped[r]
      <3> DEFINE q == Append(queue[r], count)
                 n == Len(got[r])
      <3>1. /\ Len(q) = Len(queue[r]) + 1 /\ q[Len(queue[r]) + 1] = count
            /\ \A i \in 1 .. Len(queue[r]) : q[i] = queue[r][i]
            /\ \A i \in 1 .. Len(q) : i \in 1 .. Len(queue[r]) \/ i = Len(queue[r]) + 1
            /\ \A l : Holds(queue[r], l) \/ l = count => Holds(q, l)
        BY <1>3, <1>4, AppendLine
      <3>2. queue'[r] = q
        BY <2>4
      <3> HIDE DEF q
      <3>3. /\ Increases(queue[r])
            /\ \A i \in 1 .. Len(queue[r]) : queue[r][i] <= count /\ queue[r][i] < count
        BY <1>1, <2>1 DEF ReaderInv, QueueInOrder
      <3>4. \A i \in 1 .. Len(q) : q[i] <= count
        BY <1>4, <3>1, <3>3
      <3>5. Increases(q)
        BY <1>4, <1>6, <3>1, <3>3 DEF Increases
      <3>6. QueueInOrder(r)'
        BY <1>2, <2>1, <3>2, <3>4, <3>5 DEF QueueInOrder, Increases
      <3>7. SentBefore(r)'
        <4>1. n > 0 => \A i \in 1 .. Len(q) : got[r][n] <= q[i]
          BY <1>1, <3>1 DEF ReaderInv, SentBefore
        <4>2. n > replayed[r] => \A i \in 1 .. Len(q) : got[r][n] < q[i]
          BY <1>1, <2>1, <3>1 DEF ReaderInv, SentBefore
        <4> QED
          BY <1>1, <1>2, <2>1, <3>2, <4>1, <4>2 DEF ReaderInv, SentBefore
      <3>8. NoGap(r)'
        BY <1>1, <1>2, <2>1, <2>4, <3>1, <3>2 DEF ReaderInv, NoGap, Missed
      <3> QED
        BY <2>2, <3>6, <3>7, <3>8 DEF ReaderInv
    <2> QED
      BY <1>1, <1>5, <2>3, <2>4 DEF TypeOK
  <1>11. ASSUME NEW d \in Readers, d # r
         PROVE  ReaderInv(d)'
    <2>1. ReaderInv(d)
      BY DEF LogInv
    <2>2. /\ Coming(d)' <=> Coming(d)
          /\ (d \in todo') <=> (d \in todo)
          /\ queue'[d] = queue[d] /\ pc'[d] = pc[d] /\ dropped'[d] = dropped[d]
      BY <1>2, <1>7, <1>11 DEF Coming
    <2>3. Subscribed(d)' /\ Ordered(d)' /\ RestInOrder(d)'
      BY <1>2, <2>1, <2>2 DEF ReaderInv, Subscribed, Ordered, RestInOrder, Streaming, Increases
    <2>4. QueueInOrder(d)' /\ SentBefore(d)'
      BY <1>2, <2>1, <2>2 DEF ReaderInv, QueueInOrder, SentBefore, Increases
    <2>5. NoGap(d)'
      BY <1>2, <2>1, <2>2 DEF ReaderInv, NoGap, Streaming, Missed
    <2> QED
      BY <2>3, <2>4, <2>5 DEF ReaderInv
  <1> QED
    BY <1>8, <1>9, <1>10, <1>11 DEF LogInv

-----------------------------------------------------------------------------
(* Streams *)

\* A reader that copies the backlog keeps the invariant.
LEMMA OpenKeeps == ASSUME LogInv, NEW r \in Readers, Open(r) PROVE LogInv'
  <1>1. TypeOK /\ BufferRecent /\ ReaderInv(r)
    BY DEF LogInv
  <1>2. PICK n \in 0 .. Capacity : rest' = [rest EXCEPT ![r] = LastOf(buffer, n)]
    BY DEF Open
  <1> DEFINE s == LastOf(buffer, n)
  <1>3. s \in Seq(Lines) /\ Increases(s) /\ \A i \in 1 .. Len(s) : s[i] <= count
    BY <1>1, RecentInOrder
  <1>4. rest' = [rest EXCEPT ![r] = s]
    BY <1>2
  <1> HIDE DEF s
  <1>5. /\ pc[r] = "away" /\ pc' = [pc EXCEPT ![r] = "replay"]
        /\ UNCHANGED <<emitVars, subs, queue, got, replayed, since, dropped>>
    BY DEF Open, Goto, histories
  <1>6. TypeOK'
    BY <1>1, <1>3, <1>4, <1>5 DEF TypeOK, emitVars
  <1>7. /\ pc'[r] = "replay" /\ rest'[r] = s
        /\ \A d \in Readers : d # r => pc'[d] = pc[d] /\ rest'[d] = rest[d]
    BY <1>1, <1>4, <1>5 DEF TypeOK
  <1>8. got[r] = <<>> /\ replayed[r] = 0 /\ queue[r] = <<>> /\ r \notin subs /\ r \notin todo
    BY <1>1, <1>5 DEF ReaderInv, Subscribed
  <1>9. ReaderInv(r)'
    <2>1. Subscribed(r)' /\ Ordered(r)' /\ NoGap(r)'
      BY <1>5, <1>7, <1>8 DEF Subscribed, Ordered, NoGap, Streaming, emitVars
    <2>2. RestInOrder(r)'
      BY <1>3, <1>5, <1>7, <1>8 DEF RestInOrder, Increases, emitVars
    <2>3. QueueInOrder(r)' /\ SentBefore(r)'
      BY <1>5, <1>8 DEF QueueInOrder, SentBefore, Increases
    <2> QED
      BY <2>1, <2>2, <2>3 DEF ReaderInv
  <1> QED
    BY <1>5, <1>6, <1>7, <1>9, StreamKeeps

\* A line of the backlog sent to a reader keeps the invariant.
LEMMA ReplayKeeps == ASSUME LogInv, NEW r \in Readers, Replay(r) PROVE LogInv'
  <1>1. TypeOK /\ ReaderInv(r)
    BY DEF LogInv
  <1> DEFINE n == Len(got[r])
             s == rest[r]
             t == Tail(s)
             h == Head(s)
             g == Append(got[r], h)
  <1>2. /\ pc[r] = "replay" /\ s # <<>>
        /\ got' = [got EXCEPT ![r] = g] /\ rest' = [rest EXCEPT ![r] = t]
        /\ replayed' = [replayed EXCEPT ![r] = replayed[r] + 1]
        /\ UNCHANGED <<emitVars, subs, pc, queue, since, dropped>>
    BY DEF Replay
  <1>3. /\ s \in Seq(Lines) /\ got[r] \in Seq(Lines) /\ replayed[r] \in Nat /\ count \in Nat
        /\ \A i \in 1 .. Len(s) : s[i] \in Nat
    BY <1>1, ReaderTypes
  <1>4. /\ t \in Seq(Lines) /\ h \in Lines /\ Len(t) = Len(s) - 1 /\ Len(s) \in Nat \ {0}
        /\ h = s[1] /\ \A i \in 1 .. Len(t) : t[i] = s[i + 1] /\ i + 1 \in 1 .. Len(s)
    BY <1>2, <1>3, TailOfLines
  <1>5. /\ Increases(s) /\ \A i \in 1 .. Len(s) : s[i] <= count
        /\ replayed[r] = n
        /\ n > 0 => \A i \in 1 .. Len(s) : got[r][n] < s[i]
        /\ queue[r] = <<>> /\ r \notin todo
    BY <1>1, <1>2 DEF ReaderInv, RestInOrder, SentBefore, Subscribed
  <1>6. Increases(t) /\ \A i \in 1 .. Len(t) : h < t[i]
    BY <1>2, <1>3, <1>5, TailIncreases
  <1>7. /\ g \in Seq(Lines) /\ Len(g) = n + 1 /\ n \in Nat /\ g[n + 1] = h
        /\ \A i \in 1 .. n : g[i] = got[r][i]
        /\ \A i \in 1 .. Len(g) : i \in 1 .. n \/ i = n + 1
    BY <1>3, <1>4, AppendLine
  <1> HIDE DEF s, t, h, g
  <1>8. TypeOK'
    <2>1. got' \in [Readers -> Seq(Lines)] /\ rest' \in [Readers -> Seq(Lines)]
      BY <1>1, <1>2, <1>4, <1>7 DEF TypeOK
    <2>2. replayed' \in [Readers -> Nat]
      BY <1>1, <1>2, <1>3 DEF TypeOK
    <2> QED
      BY <1>1, <1>2, <2>1, <2>2 DEF TypeOK, emitVars
  <1>9. /\ rest'[r] = t /\ got'[r] = g /\ replayed'[r] = n + 1
        /\ \A d \in Readers : d # r => /\ rest'[d] = rest[d] /\ got'[d] = got[d]
                                       /\ replayed'[d] = replayed[d]
    BY <1>1, <1>2, <1>5 DEF TypeOK
  <1>10. h <= count /\ \A i \in 1 .. Len(t) : t[i] <= count
    BY <1>4, <1>5
  <1>11. ReaderInv(r)'
    <2>1. Subscribed(r)' /\ QueueInOrder(r)' /\ NoGap(r)'
      BY <1>1, <1>2, <1>5 DEF ReaderInv, Subscribed, QueueInOrder, NoGap, Streaming, Coming,
                              Increases, emitVars
    <2>2. RestInOrder(r)'
      BY <1>2, <1>6, <1>7, <1>9, <1>10 DEF RestInOrder, Increases, emitVars
    <2>3. SentBefore(r)'
      BY <1>2, <1>5, <1>6, <1>7, <1>9, <1>10 DEF SentBefore, emitVars
    <2>4. Ordered(r)'
      <3>1. ASSUME NEW i \in 1 .. Len(g) - 1
            PROVE  g[i] < g[i + 1] \/ (g[i] = g[i + 1] /\ i = n + 1)
        <4>1. CASE i = n
          <5>1. n \in 1 .. n /\ n > 0 /\ 1 \in 1 .. Len(s)
            BY <1>4, <1>7, <3>1, <4>1
          <5> QED
            BY <1>4, <1>5, <1>7, <4>1, <5>1
        <4>2. CASE i # n
          <5>1. i \in 1 .. n - 1 /\ i \in 1 .. n /\ i + 1 \in 1 .. n
            BY <1>7, <3>1, <4>2
          <5>2. got[r][i] < got[r][i + 1]
            BY <1>1, <1>5, <5>1 DEF ReaderInv, Ordered
          <5> QED
            BY <1>7, <5>1, <5>2
        <4> QED
          BY <4>1, <4>2
      <3> QED
        BY <1>9, <3>1 DEF Ordered
    <2> QED
      BY <2>1, <2>2, <2>3, <2>4 DEF ReaderInv
  <1> QED
    BY <1>2, <1>8, <1>9, <1>11, StreamKeeps

\* A reader that subscribes keeps the invariant.
LEMMA SubscribeKeeps == ASSUME LogInv, NEW r \in Readers, Subscribe(r) PROVE LogInv'
  <1>1. TypeOK /\ EmitShape /\ ReaderInv(r)
    BY DEF LogInv
  <1>2. /\ pc[r] = "replay" /\ pc' = [pc EXCEPT ![r] = "get"] /\ subs' = subs \cup {r}
        /\ since' = [since EXCEPT ![r] = IF emitting = "copy" THEN count ELSE count + 1]
        /\ UNCHANGED <<emitVars, rest, queue, got, replayed, dropped>>
    BY DEF Subscribe, Subscribes, Goto
  <1>3. count \in Nat /\ count \in 0 .. MaxLines + 1 /\ count + 1 \in 0 .. MaxLines + 1
    BY <1>1, LinesAssumption DEF TypeOK
  <1>4. TypeOK'
    <2>1. \E m \in 0 .. MaxLines + 1 : since' = [since EXCEPT ![r] = m]
      <3>1. CASE emitting = "copy"
        BY <1>2, <1>3, <3>1
      <3>2. CASE emitting # "copy"
        BY <1>2, <1>3, <3>2
      <3> QED
        BY <3>1, <3>2
    <2>2. since' \in [Readers -> 0 .. MaxLines + 1]
      BY <1>1, <2>1 DEF TypeOK
    <2> QED
      BY <1>1, <1>2, <2>2 DEF TypeOK, emitVars
  <1>5. /\ pc'[r] = "get" /\ since'[r] = IF emitting = "copy" THEN count ELSE count + 1
        /\ \A d \in Readers : d # r => pc'[d] = pc[d] /\ since'[d] = since[d]
        /\ \A d \in Readers : d # r => (d \in subs' <=> d \in subs)
    BY <1>1, <1>2 DEF TypeOK
  <1>6. /\ queue[r] = <<>> /\ r \notin todo /\ replayed[r] = Len(got[r])
    BY <1>1, <1>2 DEF ReaderInv, Subscribed, RestInOrder
  <1>7. ReaderInv(r)'
    <2>1. Subscribed(r)' /\ QueueInOrder(r)' /\ RestInOrder(r)' /\ Ordered(r)'
      BY <1>1, <1>2, <1>5, <1>6 DEF ReaderInv, Subscribed, QueueInOrder, RestInOrder, Ordered,
                                    Streaming, Increases, emitVars
    <2>2. SentBefore(r)'
      BY <1>1, <1>2, <1>5, <1>6 DEF ReaderInv, SentBefore, emitVars
    <2>3. NoGap(r)'
      <3>1. ASSUME NEW l \in since'[r] .. count
            PROVE  l = count /\ emitting = "copy"
        BY <1>3, <1>5, <3>1
      <3> QED
        BY <1>2, <3>1 DEF NoGap, Coming, emitVars
    <2> QED
      BY <2>1, <2>2, <2>3 DEF ReaderInv
  <1> QED
    BY <1>2, <1>4, <1>5, <1>7, StreamKeeps

\* A reader that takes a line of its queue keeps the invariant.
LEMMA TakeKeeps == ASSUME LogInv, NEW r \in Readers, Take(r) PROVE LogInv'
  <1>1. TypeOK /\ ReaderInv(r)
    BY DEF LogInv
  <1> DEFINE n == Len(got[r])
             s == queue[r]
             t == Tail(s)
             h == Head(s)
             g == Append(got[r], h)
  <1>2. /\ pc[r] = "get" /\ s # <<>> /\ pc' = [pc EXCEPT ![r] = "send"]
        /\ got' = [got EXCEPT ![r] = g] /\ queue' = [queue EXCEPT ![r] = t]
        /\ UNCHANGED <<emitVars, subs, rest, replayed, since, dropped>>
    BY DEF Take, Goto
  <1>3. /\ s \in Seq(Lines) /\ got[r] \in Seq(Lines) /\ replayed[r] \in Nat /\ count \in Nat
        /\ \A i \in 1 .. Len(s) : s[i] \in Nat
        /\ \A i \in 1 .. Len(got[r]) : got[r][i] \in Nat
    BY <1>1, ReaderTypes
  <1>4. /\ t \in Seq(Lines) /\ h \in Lines /\ Len(t) = Len(s) - 1 /\ Len(s) \in Nat \ {0}
        /\ h = s[1] /\ \A i \in 1 .. Len(t) : t[i] = s[i + 1] /\ i + 1 \in 1 .. Len(s)
        /\ \A l : Holds(s, l) => l = h \/ Holds(t, l)
    BY <1>2, <1>3, TailOfLines
  <1>5. /\ Increases(s)
        /\ \A i \in 1 .. Len(s) : s[i] <= count /\ (Coming(r) => s[i] < count)
        /\ replayed[r] <= n
        /\ n > 0 => \A i \in 1 .. Len(s) : got[r][n] <= s[i]
        /\ n > replayed[r] => \A i \in 1 .. Len(s) : got[r][n] < s[i]
    BY <1>1 DEF ReaderInv, QueueInOrder, SentBefore
  <1>6. Increases(t) /\ \A i \in 1 .. Len(t) : h < t[i]
    BY <1>2, <1>3, <1>5, TailIncreases
  <1>7. /\ g \in Seq(Lines) /\ Len(g) = n + 1 /\ n \in Nat /\ g[n + 1] = h
        /\ \A i \in 1 .. n : g[i] = got[r][i]
        /\ \A i \in 1 .. Len(g) : i \in 1 .. n \/ i = n + 1
        /\ \A l : Holds(got[r], l) \/ l = h => Holds(g, l)
    BY <1>3, <1>4, AppendLine
  <1>8. 1 \in 1 .. Len(s) /\ h \in Nat
    BY <1>3, <1>4
  <1>9. \A i \in 1 .. Len(t) : t[i] \in Nat
    BY <1>3, <1>4
  <1> HIDE DEF s, t, h, g
  <1>10. TypeOK'
    <2>1. Len(t) <= QueueSize
      BY <1>1, <1>4, QueueAssumption DEF TypeOK, s
    <2>2. queue' \in [Readers -> Seq(Lines)] /\ \A d \in Readers : Len(queue'[d]) <= QueueSize
      BY <1>1, <1>2, <1>4, <2>1 DEF TypeOK
    <2>3. got' \in [Readers -> Seq(Lines)]
      BY <1>1, <1>2, <1>7 DEF TypeOK
    <2> QED
      BY <1>1, <1>2, <2>2, <2>3 DEF TypeOK, emitVars
  <1>11. /\ pc'[r] = "send" /\ got'[r] = g /\ queue'[r] = t
         /\ \A d \in Readers : d # r => /\ pc'[d] = pc[d] /\ got'[d] = got[d]
                                        /\ queue'[d] = queue[d]
    BY <1>1, <1>2 DEF TypeOK
  <1>12. \A i \in 1 .. Len(t) : t[i] <= count /\ (Coming(r) => t[i] < count)
    BY <1>4, <1>5
  <1>13. h <= count /\ (Coming(r) => h < count)
    BY <1>4, <1>5, <1>8
  <1>14. ReaderInv(r)'
    <2>1. Subscribed(r)' /\ RestInOrder(r)'
      BY <1>1, <1>2, <1>11 DEF ReaderInv, Subscribed, RestInOrder, Streaming
    <2>2. QueueInOrder(r)'
      BY <1>2, <1>6, <1>11, <1>12 DEF QueueInOrder, Coming, Increases, emitVars
    <2>3. SentBefore(r)'
      <3>1. \A i \in 1 .. Len(t) : h <= t[i]
        BY <1>6, <1>8, <1>9
      <3> QED
        BY <1>2, <1>3, <1>5, <1>6, <1>7, <1>11, <1>13, <3>1 DEF SentBefore, Coming, emitVars
    <2>4. Ordered(r)'
      <3>1. ASSUME NEW i \in 1 .. Len(g) - 1
            PROVE  g[i] < g[i + 1] \/ (g[i] = g[i + 1] /\ i = replayed[r])
        <4>1. CASE i = n
          <5>1. n \in 1 .. n /\ n > 0 /\ got[r][n] \in Nat
            BY <1>3, <1>7, <3>1, <4>1
          <5>2. g[i] = got[r][n] /\ g[i + 1] = h
            BY <1>7, <4>1, <5>1
          <5>3. got[r][n] <= h /\ (n > replayed[r] => got[r][n] < h)
            BY <1>4, <1>5, <1>8, <5>1
          <5>4. n > replayed[r] \/ n = replayed[r]
            BY <1>3, <1>5, <1>7
          <5> QED
            BY <1>8, <4>1, <5>1, <5>2, <5>3, <5>4
        <4>2. CASE i # n
          <5>1. i \in 1 .. n - 1 /\ i \in 1 .. n /\ i + 1 \in 1 .. n
            BY <1>7, <3>1, <4>2
          <5>2. got[r][i] < got[r][i + 1] \/ (got[r][i] = got[r][i + 1] /\ i = replayed[r])
            BY <1>1, <5>1 DEF ReaderInv, Ordered
          <5>3. g[i] = got[r][i] /\ g[i + 1] = got[r][i + 1]
            BY <1>7, <5>1
          <5> QED
            BY <5>2, <5>3
        <4> QED
          BY <4>1, <4>2
      <3> QED
        BY <1>2, <1>11, <3>1 DEF Ordered
    <2>5. NoGap(r)'
      BY <1>1, <1>2, <1>4, <1>7, <1>11 DEF ReaderInv, NoGap, Missed, Streaming, Coming, emitVars, s
    <2> QED
      BY <2>1, <2>2, <2>3, <2>4, <2>5 DEF ReaderInv
  <1> QED
    BY <1>2, <1>10, <1>11, <1>14, StreamKeeps

\* The steps that move no line.
LEMMA QuietKeeps ==
    ASSUME LogInv, NEW r \in Readers,
           FindEmpty(r) \/ Wait(r) \/ Timeout(r) \/ Sent(r) \/ Leave(r) \/ Collected(r)
    PROVE  LogInv'
  <1>1. TypeOK /\ ReaderInv(r)
    BY DEF LogInv
  <1>2. UNCHANGED <<emitVars, rest, queue, got, replayed, since, dropped>>
    BY DEF FindEmpty, Wait, Timeout, Sent, Leave, Collected, histories
  <1>3. \E p \in {"get", "empty", "wait", "send", "left", "over"} :
           /\ pc' = [pc EXCEPT ![r] = p]
           /\ p \in {"get", "empty", "wait", "send"} => Streaming(r) /\ subs' = subs
    BY DEF FindEmpty, Wait, Timeout, Sent, Leave, Collected, Goto, Streaming
  <1>4. subs' \in {subs, subs \ {r}}
    BY DEF FindEmpty, Wait, Timeout, Sent, Leave, Collected
  <1>5. TypeOK'
    BY <1>1, <1>2, <1>3, <1>4 DEF TypeOK, emitVars
  <1>6. /\ pc'[r] \notin {"away", "replay"}
        /\ Streaming(r)' => Streaming(r) /\ subs' = subs
        /\ \A d \in Readers : d # r => pc'[d] = pc[d]
    BY <1>1, <1>3 DEF TypeOK, Streaming
  <1>7. ReaderInv(r)'
    <2>1. Subscribed(r)' /\ Ordered(r)' /\ RestInOrder(r)'
      BY <1>1, <1>2, <1>6 DEF ReaderInv, Subscribed, Ordered, RestInOrder
    <2>2. QueueInOrder(r)'
      BY <1>1, <1>2 DEF ReaderInv, QueueInOrder, Increases, Coming, emitVars
    <2>3. SentBefore(r)'
      BY <1>1, <1>2, <1>6 DEF ReaderInv, SentBefore, Coming, emitVars
    <2>4. NoGap(r)'
      BY <1>1, <1>2, <1>6 DEF ReaderInv, NoGap, Missed, Coming, emitVars
    <2> QED
      BY <2>1, <2>2, <2>3, <2>4 DEF ReaderInv
  <1>8. \A d \in Readers : d # r => ((d \in subs') <=> (d \in subs))
    BY <1>4
  <1> QED
    BY <1>2, <1>5, <1>6, <1>7, <1>8, StreamKeeps

\* Every step of the log and of its readers keeps the invariant.
LEMMA LogStepKeeps == LogInv /\ [Next]_vars => LogInv'
  <1> SUFFICES ASSUME LogInv, [Next]_vars PROVE LogInv'
    OBVIOUS
  <1>1. CASE UNCHANGED vars \/ Finished
    <2>1. UNCHANGED <<emitVars, subs, pc, rest, queue, got, replayed, since, dropped>>
      BY <1>1 DEF Finished, vars, histories
    <2>2. TypeOK' /\ EmitShape' /\ BufferRecent'
      BY <2>1 DEF LogInv, TypeOK, EmitShape, BufferRecent, emitVars
    <2>3. ASSUME NEW r \in Readers
          PROVE  ReaderInv(r)'
      BY <2>1, OthersKeep DEF LogInv
    <2> QED
      BY <2>2, <2>3 DEF LogInv
  <1>2. CASE Emit
    BY <1>2, EmitAppendKeeps, EmitCopyKeeps, EmitPutKeeps DEF Emit
  <1>3. ASSUME NEW r \in Readers, Open(r) \/ StreamStep(r) \/ Leave(r)
        PROVE  LogInv'
    BY <1>3, OpenKeeps, ReplayKeeps, SubscribeKeeps, TakeKeeps, QuietKeeps DEF StreamStep
  <1> QED
    BY <1>1, <1>2, <1>3 DEF Next

\* The invariant holds throughout, for any readers and any sizes.
THEOREM LogInvariant == Spec => []LogInv
  BY LogInitially, LogStepKeeps, PTL DEF Spec

\* Every variable of the log keeps its type, for any readers and any sizes.
THEOREM LogTypes == Spec => []TypeOK
  BY LogInvariant, PTL DEF LogInv

\* For any readers, buffer, queues and number of lines, a client reads the log in
\* its order.
THEOREM LogInOrder == Spec => []InOrder
  <1>1. LogInv => InOrder
    BY DEF LogInv, ReaderInv, Ordered, InOrder
  <1> QED
    BY <1>1, LogInvariant, PTL

\* And from its subscription on it misses only what its full queue has refused.
THEOREM LogNoLineLost == Spec => []NoLineLost
  <1>1. LogInv => NoLineLost
    BY DEF LogInv, ReaderInv, NoGap, Missed, Streaming, Coming, NoLineLost
  <1> QED
    BY <1>1, LogInvariant, PTL
==============================================================================
