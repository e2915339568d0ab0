--------------------------- MODULE TranslationProxy ---------------------------
(***************************************************************************)
(* The translation proxy (src/src/translation_proxy.py), a service of its  *)
(* own: it starts vLLM, translates the sentences of a request in parallel, *)
(* puts the texts together again, and stops vLLM when it ends.             *)
(*                                                                         *)
(* A request is a sequence of texts, each given by the number of sentences *)
(* split_sentences finds in it.  A sentence is named after its text and    *)
(* its place in it, a translation after the sentence it was made from, and *)
(* a text of the answer is the sequence of the pieces joined to make it.   *)
(* A failure is its HTTP status.                                           *)
(***************************************************************************)
EXTENDS Integers, Sequences

CONSTANTS
    Requests,   \* requests clients make
    MaxTexts,   \* bound: texts of a request
    MaxSegs,    \* bound: sentences of a request
    Statuses    \* what a failure other than a timeout is reported as

ASSUME TextsAssumption == MaxTexts \in Nat
ASSUME SegsAssumption == MaxSegs \in Nat
ASSUME StatusAssumption == Statuses \subseteq 400 .. 599

VARIABLES
    life,       \* where lifespan is
    process,    \* vllm_process is not None
    leader,     \* the vLLM process: "none", "up", "dead" or "reaped"
    workers,    \* other processes of its group run
    clients,    \* the HTTP clients exist
    sigterm,    \* the proxy has been told to end
    termed,     \* history: the group has been sent SIGTERM
    pc,         \* where each request is
    counts,     \* seg_counts of each request
    results,    \* for each sentence: Pending, Ok, or the status it failed with
    response    \* code and texts of each answer

vllm == <<leader, workers>>
proxyVars == <<life, process, vllm, clients, sigterm, termed>>
requestVars == <<pc, counts, results, response>>
vars == <<proxyVars, requestVars>>

Pending == 0
Ok == 200
NoResponse == [code |-> -1, texts |-> <<>>]
NoPiece == <<>>

Sentences(ns) == UNION {{j} \X (1 .. ns[j]) : j \in 1 .. Len(ns)}

\* all_segs after the first j texts.
AllSegs(ns) ==
    LET all[j \in 0 .. Len(ns)] ==
            IF j = 0 THEN <<>> ELSE all[j - 1] \o [k \in 1 .. ns[j] |-> <<j, k>>]
    IN  all

\* idx after the first j texts.
Idx(ns) ==
    LET idx[j \in 0 .. Len(ns)] == IF j = 0 THEN 0 ELSE idx[j - 1] + ns[j]
    IN  idx

Shapes ==
    {ns \in UNION {[1 .. n -> 0 .. MaxSegs] : n \in 0 .. MaxTexts} : Idx(ns)[Len(ns)] <= MaxSegs}

Ended == {"down", "exited"}

Init ==
    /\ life = "start" /\ process = FALSE /\ leader = "none" /\ workers = FALSE
    /\ clients = FALSE /\ sigterm = FALSE /\ termed = FALSE
    /\ pc = [q \in Requests |-> "idle"]
    /\ counts = [q \in Requests |-> <<>>]
    /\ results = [q \in Requests |-> <<>>]
    /\ response = [q \in Requests |-> NoResponse]

-----------------------------------------------------------------------------
(* vLLM *)

LeaderForks ==
    /\ leader = "up" /\ ~workers /\ workers' = TRUE
    /\ UNCHANGED <<life, process, leader, clients, sigterm, termed, requestVars>>

\* The workers do not end with their leader.
LeaderExits ==
    /\ leader = "up" /\ leader' = "dead"
    /\ UNCHANGED <<life, process, workers, clients, sigterm, termed, requestVars>>

WorkersExit ==
    /\ workers /\ workers' = FALSE
    /\ UNCHANGED <<life, process, leader, clients, sigterm, termed, requestVars>>

Vllm == LeaderForks \/ LeaderExits \/ WorkersExit

\* Popen.poll and Popen.wait collect a process that has exited.
Reaped == IF leader = "dead" THEN "reaped" ELSE leader

-----------------------------------------------------------------------------
(* lifespan *)

StartVllm ==
    /\ life = "start"
    /\ \/ leader' = "up" /\ process' = TRUE /\ life' = "wait"
       \/ life' = "exited" /\ UNCHANGED <<leader, process>>
    /\ UNCHANGED <<workers, clients, sigterm, termed, requestVars>>

\* wait_vllm: a process that has exited, or the timeout, ends the start.
WaitVllm ==
    /\ life = "wait"
    /\ leader' = Reaped
    /\ IF leader = "up" THEN life' \in {"wait", "ready", "giveup"} ELSE life' = "giveup"
    /\ UNCHANGED <<process, workers, clients, sigterm, termed, requestVars>>

InitClients ==
    /\ life = "ready"
    /\ clients' = TRUE /\ life' = "serving"
    /\ UNCHANGED <<process, vllm, sigterm, termed, requestVars>>

\* The operator, or the container runtime after a 503 of /health.
Sigterm ==
    /\ life = "serving" /\ ~sigterm /\ sigterm' = TRUE
    /\ UNCHANGED <<life, process, vllm, clients, termed, requestVars>>

\* /health, / : is_vllm_running polls.
Health ==
    /\ life = "serving"
    /\ leader' = Reaped
    /\ UNCHANGED <<life, process, workers, clients, sigterm, termed, requestVars>>

\* TranslationState.close, once uvicorn has answered the requests it has.
Close ==
    /\ life = "serving" /\ sigterm /\ \A q \in Requests : pc[q] # "gather"
    /\ clients' = FALSE /\ life' = "close"
    /\ UNCHANGED <<process, vllm, sigterm, termed, requestVars>>

-----------------------------------------------------------------------------
(* stop_vllm *)

Stopped ==
    /\ process' = FALSE
    /\ life' = IF sigterm THEN "down" ELSE "exited"

\* os.getpgid raises for a leader that has been collected: then nobody in its group
\* is sent a signal.
StopTerminates ==
    /\ life \in {"giveup", "close"}
    /\ IF ~process \/ leader = "reaped"
         THEN Stopped /\ UNCHANGED termed
         ELSE life' = "term" /\ termed' = TRUE /\ UNCHANGED process
    /\ UNCHANGED <<vllm, clients, sigterm, requestVars>>

\* The leader has exited within ten seconds; the workers are not looked at.
StopWaits ==
    /\ life = "term" /\ leader # "up"
    /\ leader' = Reaped
    /\ Stopped
    /\ UNCHANGED <<workers, clients, sigterm, termed, requestVars>>

\* Mutant of StopKills: SIGKILL is not sent.
StopKillsNot ==
    /\ life = "term" /\ leader = "up"
    /\ Stopped
    /\ UNCHANGED <<vllm, clients, sigterm, termed, requestVars>>

\* It has not: SIGKILL to the group, and nobody waits for it.
StopKills ==
    /\ life = "term" /\ leader = "up"
    /\ leader' = "dead" /\ workers' = FALSE
    /\ Stopped
    /\ UNCHANGED <<clients, sigterm, termed, requestVars>>

Lifespan ==
    StartVllm \/ WaitVllm \/ InitClients \/ Close \/ StopTerminates \/ StopWaits \/ StopKills

-----------------------------------------------------------------------------
(* translate, translate_batch, translate_single *)

Goto(q, p) == pc' = [pc EXCEPT ![q] = p]

Answers(q, code, texts) ==
    response' = [response EXCEPT ![q] = [code |-> code, texts |-> texts]]

\* A request that lacks a field (400) or cannot be read (500).
Refuse(q) ==
    /\ life = "serving" /\ ~sigterm /\ pc[q] = "idle"
    /\ Goto(q, "refused")
    /\ \E code \in {400, 500} : Answers(q, code, <<>>)
    /\ UNCHANGED <<proxyVars, counts, results>>

\* The texts are split and one translation per sentence is started.
Translate(q) ==
    /\ life = "serving" /\ ~sigterm /\ pc[q] = "idle"
    /\ Goto(q, "gather")
    /\ \E ns \in Shapes :
        /\ counts' = [counts EXCEPT ![q] = ns]
        /\ results' = [results EXCEPT ![q] = [s \in Sentences(ns) |-> Pending]]
    /\ UNCHANGED <<proxyVars, response>>

SentenceEnds(q, s, result) ==
    /\ pc[q] = "gather" /\ results[q][s] = Pending
    /\ results' = [results EXCEPT ![q][s] = result]
    /\ UNCHANGED <<proxyVars, pc, counts, response>>

Translated(q, s) == leader = "up" /\ SentenceEnds(q, s, Ok)

\* The connection fails (502), vLLM refuses (its status), or something else (500).
SentenceFails(q, s) == \E status \in Statuses : SentenceEnds(q, s, status)

\* Mutant of SentenceTimesOut: the client has no timeout.
SentenceTimesOutNever(q, s) == FALSE

SentenceTimesOut(q, s) == SentenceEnds(q, s, 504)

\* translations: in the order of the sentences, that of one that failed is the
\* empty string.
Translations(q) ==
    LET all == AllSegs(counts[q])[Len(counts[q])]
    IN  [i \in 1 .. Len(all) |-> IF results[q][all[i]] = Ok THEN all[i] ELSE NoPiece]

\* first_error: 0, or the status of the first sentence in the list that failed.
FirstError(q) ==
    LET all == AllSegs(counts[q])[Len(counts[q])]
        failed == {i \in 1 .. Len(all) : results[q][all[i]] # Ok}
    IN  IF failed = {} THEN 0
        ELSE results[q][all[CHOOSE i \in failed : \A k \in failed : i <= k]]

\* Mutant of Joined: idx stays where it is after a text.
JoinedFromStart(q) ==
    LET piece == Translations(q)
    IN  [j \in 1 .. Len(counts[q]) |-> SubSeq(piece, 1, counts[q][j])]

\* The pieces are put together text by text, by the number of sentences of each.
Joined(q) ==
    LET idx == Idx(counts[q])
        piece == Translations(q)
    IN  [j \in 1 .. Len(counts[q]) |-> SubSeq(piece, idx[j - 1] + 1, idx[j - 1] + counts[q][j])]

\* gather returns when every translation has ended, however it did.
Respond(q) ==
    /\ pc[q] = "gather" /\ \A s \in Sentences(counts[q]) : results[q][s] # Pending
    /\ Goto(q, "answered")
    /\ Answers(q, FirstError(q), Joined(q))
    /\ UNCHANGED <<proxyVars, counts, results>>

RequestStep(q) ==
    Respond(q) \/ \E s \in Sentences(counts[q]) : SentenceTimesOut(q, s)

Finished == life \in Ended /\ UNCHANGED vars

Next ==
    \/ Vllm \/ Lifespan \/ Sigterm \/ Health
    \/ \E q \in Requests :
        \/ Refuse(q) \/ Translate(q) \/ RequestStep(q)
        \/ \E s \in Sentences(counts[q]) : Translated(q, s) \/ SentenceFails(q, s)
    \/ Finished

Spec == Init /\ [][Next]_vars

\* Translations have a timeout, and lifespan runs.
LiveSpec == Spec /\ WF_vars(Lifespan) /\ \A q \in Requests : WF_vars(RequestStep(q))
-----------------------------------------------------------------------------
(* Properties *)

\* s comes before t in the request.
Before(s, t) == s[1] < t[1] \/ (s[1] = t[1] /\ s[2] < t[2])

\* Every text of an answer is made of the translations of its own sentences, in
\* their order, whichever of them failed and however they overtook each other;
\* the code is 0 only if all succeeded, and else that of the first failure.
OwnSentences ==
    \A q \in Requests : pc[q] = "answered" =>
        LET ns == counts[q]
            code == response[q].code
        IN  /\ response[q].texts =
                 [j \in 1 .. Len(ns) |-> [k \in 1 .. ns[j] |->
                     IF results[q][<<j, k>>] = Ok THEN <<j, k>> ELSE NoPiece]]
            /\ IF \A s \in Sentences(ns) : results[q][s] = Ok
                 THEN code = 0
                 ELSE \E s \in Sentences(ns) :
                        /\ code = results[q][s] /\ code \notin {Pending, Ok}
                        /\ \A t \in Sentences(ns) : Before(t, s) => results[q][t] = Ok

\* When the proxy is over, by its own fault or in order, its vLLM process does not
\* run, no request is left without an answer, and the rest of vLLM's group has
\* been told to end.  The exception is the code's: a group whose leader had died
\* and had been collected before it was stopped is left alone.
VllmStopped ==
    life \in Ended =>
        /\ leader # "up" /\ \A q \in Requests : pc[q] # "gather"
        /\ workers => termed \/ leader = "reaped"

\* Every request is answered and the proxy, once told to end, ends: no hanging
\* translation and no dying vLLM keeps either from it.
AllAnswered ==
    /\ \A q \in Requests : pc[q] = "gather" ~> pc[q] = "answered"
    /\ sigterm ~> life = "down"
==============================================================================
