----------------------------- MODULE StreamUsage -----------------------------
(***************************************************************************)
(* How the tokens of streamed answers reach the key and the metrics: the   *)
(* body (upstream_stream_body) reads usage objects from the chunks that    *)
(* pass through it into an accumulator, and a watcher task                 *)
(* (spawn_stream_usage_watcher) takes the accumulator's value and charges. *)
(*                                                                         *)
(* A stream is the sequence of its SSE events; an event is what its usage  *)
(* object says of the fields "in" and "out", nothing for a content event.  *)
(* An event is legible when the chunk that carries it holds it whole and   *)
(* is valid UTF-8.  A chunk that ends inside a character is illegible, but *)
(* the body is none the worse for it; bytes that are no character at all   *)
(* leave the body garbled.                                                 *)
(***************************************************************************)
EXTENDS Integers, FiniteSets, Sequences, SequencesExt

CONSTANTS
  Streams,     \* streamed requests with one key
  Scripts,     \* what an upstream may send: sequences of events
  MaxTokens    \* bound: the largest number in an event

Fields == {"in", "out"}
Amounts == [Fields -> 0 .. MaxTokens]
Events == UNION {[F -> 0 .. MaxTokens] : F \in SUBSET Fields}

ASSUME StreamAssumption ==
  /\ IsFiniteSet(Streams)
  /\ MaxTokens \in Nat
  /\ Scripts \subseteq Seq(Events)

VARIABLES
  script,    \* what the upstream of each stream will send
  sent,      \* how many events have reached the body
  body,      \* none, open, drained (read to its end) or cut
  garbled,   \* the bytes so far are not valid UTF-8
  accum,     \* Arc<Mutex<Option<(u64, u64)>>>; {} for None
  watch,     \* where the watcher task is
  taken,     \* the value it took
  late,      \* its 600 seconds are over
  charged,   \* total_input_tokens and total_output_tokens of the key
  mirrored   \* input_tokens_total and output_tokens_total

stream == <<script, sent, body, garbled>>
task == <<watch, taken>>
totals == <<charged, mirrored>>
vars == <<stream, accum, task, late, totals>>

Zero == [f \in Fields |-> 0]
Plus(x, y) == [f \in Fields |-> x[f] + y[f]]

Init ==
  /\ script \in [Streams -> Scripts]
  /\ sent = [s \in Streams |-> 0]
  /\ body = [s \in Streams |-> "none"]
  /\ garbled = [s \in Streams |-> FALSE]
  /\ accum = [s \in Streams |-> {}]
  /\ watch = [s \in Streams |-> "none"]
  /\ taken = [s \in Streams |-> Zero]
  /\ late = [s \in Streams |-> FALSE]
  /\ charged = Zero /\ mirrored = Zero

-----------------------------------------------------------------------------
\* forward_openai has opened the body and dispatch_openai starts the watcher.
\* The handler itself charges (0, 0, 0.0).
Answer(s) ==
  /\ body[s] = "none"
  /\ body' = [body EXCEPT ![s] = "open"]
  /\ watch' = [watch EXCEPT ![s] = "polling"]
  /\ UNCHANGED <<script, sent, garbled, accum, taken, late, totals>>

-----------------------------------------------------------------------------
\* Slip: the counts of an event are added to those before it.
MergeAdds(x, e) == [f \in Fields |-> x[f] + (IF f \in DOMAIN e THEN e[f] ELSE 0)]

\* extract_usage_from_sse keeps the largest value of each field,
Merge(x, e) == [f \in Fields |-> IF f \in DOMAIN e /\ e[f] > x[f] THEN e[f] ELSE x[f]]

\* starting from what the accumulator holds, and leaves it empty only if no event
\* had a count.
HasCount(events) == \E i \in DOMAIN events : DOMAIN events[i] # {}

Extract(acc, events) ==
  LET start == IF acc = {} THEN Zero ELSE CHOOSE x \in acc : TRUE
      found == acc # {} \/ HasCount(events)
  IN IF found THEN {FoldLeft(Merge, start, events)} ELSE {}

Seen(s) == SubSeq(script[s], 1, sent[s])

\* A chunk passes to the client.  What is legible in it is extracted at once.
Chunk(s) ==
  /\ body[s] = "open" /\ sent[s] < Len(script[s])
  /\ sent' = [sent EXCEPT ![s] = @ + 1]
  /\ \E legible, valid \in BOOLEAN :
       /\ legible => valid
       /\ garbled' = [garbled EXCEPT ![s] = @ \/ ~valid]
       /\ accum' = [accum EXCEPT ![s] =
                     IF legible THEN Extract(@, <<script[s][sent[s] + 1]>>) ELSE @]
  /\ UNCHANGED <<script, body, task, late, totals>>

\* Slip: the buffer is not read at the end.
Unread(acc, events, valid) == acc

\* At the end of the stream the whole buffer is extracted again, all of it or, when
\* it is not valid UTF-8, nothing.
ReadBuffer(acc, events, valid) == IF valid THEN Extract(acc, events) ELSE acc

End(s) ==
  /\ body[s] = "open" /\ sent[s] = Len(script[s])
  /\ accum' = [accum EXCEPT ![s] = ReadBuffer(@, Seen(s), ~garbled[s])]
  /\ body' = [body EXCEPT ![s] = "drained"]
  /\ UNCHANGED <<script, sent, garbled, task, late, totals>>

\* The upstream fails, its timeout passes or the client goes away: the body
\* ends at a yield, the buffer unread.
Cut(s) ==
  /\ body[s] = "open"
  /\ body' = [body EXCEPT ![s] = "cut"]
  /\ UNCHANGED <<script, sent, garbled, accum, task, late, totals>>

-----------------------------------------------------------------------------
\* The watcher looks every 150 ms whether there is a value;
Look(s) ==
  /\ watch[s] = "polling" /\ accum[s] # {}
  /\ watch' = [watch EXCEPT ![s] = "take"]
  /\ UNCHANGED <<stream, accum, taken, late, totals>>

Expire(s) ==
  /\ watch[s] = "polling" /\ ~late[s]
  /\ late' = [late EXCEPT ![s] = TRUE]
  /\ UNCHANGED <<stream, accum, task, totals>>

\* Slip: the deadline is looked at before the accumulator.
MayGiveUpFirst(s) == late[s]

MayGiveUp(s) == late[s] /\ accum[s] = {}

GiveUp(s) ==
  /\ watch[s] = "polling" /\ MayGiveUp(s)
  /\ watch' = [watch EXCEPT ![s] = "over"]
  /\ UNCHANGED <<stream, accum, taken, late, totals>>

\* it locks again to take it, and has nothing to do for (0, 0).
Take(s) ==
  /\ watch[s] = "take"
  /\ \E x \in accum[s] :
       /\ taken' = [taken EXCEPT ![s] = x]
       /\ watch' = [watch EXCEPT ![s] = IF x = Zero THEN "over" ELSE "charge"]
  /\ UNCHANGED <<stream, accum, late, totals>>

\* record_key_usage,
Charge(s) ==
  /\ watch[s] = "charge"
  /\ charged' = Plus(charged, taken[s])
  /\ watch' = [watch EXCEPT ![s] = "mirror"]
  /\ UNCHANGED <<stream, accum, taken, late, mirrored>>

\* Slip: the watcher goes on polling.
PollsOn == "polling"

\* then the counters that finalize raises for an answer that is not streamed, and
\* returns.
AfterMirror == "over"

Mirror(s) ==
  /\ watch[s] = "mirror"
  /\ mirrored' = Plus(mirrored, taken[s])
  /\ watch' = [watch EXCEPT ![s] = AfterMirror]
  /\ UNCHANGED <<stream, accum, taken, late, charged>>

-----------------------------------------------------------------------------
Watcher(s) == Look(s) \/ GiveUp(s) \/ Take(s) \/ Charge(s) \/ Mirror(s)
Body(s) == Chunk(s) \/ End(s) \/ Cut(s)

Next == \E s \in Streams : Answer(s) \/ Body(s) \/ Expire(s) \/ Watcher(s)

Spec == Init /\ [][Next]_vars

\* The watcher is a task of the runtime and runs; upstreams and clients owe nothing.
LiveSpec == Spec /\ \A s \in Streams : WF_vars(Watcher(s))

-----------------------------------------------------------------------------
TypeOK ==
  /\ script \in [Streams -> Scripts]
  /\ sent \in [Streams -> Nat]
  /\ body \in [Streams -> {"none", "open", "drained", "cut"}]
  /\ garbled \in [Streams -> BOOLEAN]
  /\ accum \in [Streams -> {{}} \cup {{x} : x \in Amounts}]
  /\ watch \in [Streams -> {"none", "polling", "take", "charge", "mirror", "over"}]
  /\ taken \in [Streams -> Amounts]
  /\ late \in [Streams -> BOOLEAN]
  /\ charged \in [Fields -> Nat] /\ mirrored \in [Fields -> Nat]

\* What the events that reached the body say together.
Reported(s) == FoldLeft(Merge, Zero, Seen(s))

\* However the chunks split the events, although every event is read twice, by
\* the chunk and in the buffer, and whatever the watcher sees between two locks:
\* the key and the counters never have more tokens than the upstreams reported.
NeverOvercharged ==
  \A f \in Fields :
    /\ mirrored[f] <= charged[f]
    /\ charged[f] <= SumFunction([s \in Streams |-> Reported(s)[f]])

\* A stream that was read to its end has its exact counts in the accumulator,
\* whichever chunks were illegible because an event or a character goes on in the
\* next one.  (One byte that is no UTF-8 makes the end of the stream useless: then
\* only what the legible chunks said is there.)
DrainedIsComplete ==
  \A s \in Streams :
    body[s] = "drained" /\ ~garbled[s] =>
      accum[s] = IF HasCount(Seen(s)) THEN {Reported(s)} ELSE {}

\* Tokens that were seen while the watcher polls are charged, also if the body is
\* cut, the client gone or the 600 seconds over.
UsageCharged ==
  \A s \in Streams :
    (watch[s] = "polling" /\ accum[s] \notin {{}, {Zero}}) ~> watch[s] = "mirror"

=============================================================================
