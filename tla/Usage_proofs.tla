----------------------------- MODULE Usage_proofs -----------------------------
(***************************************************************************)
(* Proofs about what a key has used: its tokens (StreamUsage), for any     *)
(* streams and any scripts of events, and its calls per minute             *)
(* (RpmWindow), for any limit and any length of the window.                *)
(*                                                                         *)
(* Tokens: extract_usage_from_sse keeps the largest value of each field.   *)
(* So what it makes of a sequence of events is its peak: at least every    *)
(* count in it and one of them in each field, in whatever order and        *)
(* however often the events are read.                                      *)
(*                                                                         *)
(* Calls: a window covers a minute and the one before it another; the call *)
(* that opens a window is a minute old when the next one can open.  After  *)
(* a restart the row's window goes on in its place: it begins on a whole   *)
(* second and counts, or has lost, every call since.                       *)
(***************************************************************************)
EXTENDS StreamUsage, RpmWindow, Counting

\* x is the peak of what the accumulator held and of the events at places I.
IsPeak(x, base, events, I) ==
  /\ x \in Amounts
  /\ \A f \in Fields :
       /\ base[f] <= x[f]
       /\ \A i \in I : f \in DOMAIN events[i] => events[i][f] <= x[f]
       /\ \/ x[f] = base[f]
          \/ \E i \in I : f \in DOMAIN events[i] /\ x[f] = events[i][f]

-----------------------------------------------------------------------------
\* A finite set of natural numbers has a greatest member.
LEMMA MaxIsGreatest ==
  ASSUME NEW S \in SUBSET Nat, IsFiniteSet(S), S # {}
  PROVE  Max(S) \in S /\ \A y \in S : y <= Max(S)
<1> DEFINE Up(x) == {y \in S : x <= y}
           Ups == {Up(x) : x \in S}
<1>1. PICK x \in S : \A U \in SUBSET Up(x) : U # Up(x) => U \notin Ups
  <2>1. Ups \in SUBSET SUBSET S /\ Ups # {}
    OBVIOUS
  <2>2. \E T \in Ups : \A U \in SUBSET T : U # T => U \notin Ups
    <3> HIDE DEF Ups
    <3>1. QED
      BY <2>1, SmallestSubset
  <2>3. QED
    BY <2>2
<1>2. \A y \in S : y <= x
  <2> SUFFICES ASSUME NEW y \in S, ~(y <= x) PROVE FALSE
    OBVIOUS
  <2>1. Up(y) \in SUBSET Up(x) /\ x \in Up(x) /\ x \notin Up(y)
    <3>1. x \in Nat /\ y \in Nat /\ S \subseteq Nat
      OBVIOUS
    <3>2. \A z \in S : y <= z => x <= z
      BY <3>1
    <3>3. Up(y) \subseteq Up(x)
      BY <3>2
    <3>4. x <= x /\ x \in S
      BY <3>1
    <3>5. x \in Up(x) /\ x \notin Up(y)
      BY <3>4
    <3>6. QED
      BY <3>3, <3>5
  <2>2. Up(y) \in Ups /\ Up(y) # Up(x)
    BY <2>1
  <2>3. QED
    BY <1>1, <2>1, <2>2
<1>3. QED
  BY <1>2 DEF Max

\* What an event says of a field is a number.
LEMMA EventValues ==
  ASSUME NEW e \in Events
  PROVE  \A f \in DOMAIN e : f \in Fields /\ e[f] \in 0 .. MaxTokens
BY DEF Events

\* Merging keeps amounts.
LEMMA MergeType ==
  ASSUME NEW x \in Amounts, NEW e \in Events
  PROVE  Merge(x, e) \in Amounts
BY EventValues DEF Merge, Amounts

-----------------------------------------------------------------------------
\* The fold of module SequencesExt, with its definitions expanded.
LEMMA FoldUnfolded ==
  ASSUME NEW base, NEW events
  PROVE  FoldLeft(Merge, base, events) =
           (CHOOSE iter : iter = [T \in SUBSET DOMAIN events |->
              IF T = {} THEN base
              ELSE Merge(iter[T \ {Max(T)}], events[Max(T)])])[DOMAIN events]
BY DEF FoldLeft, MapThenFoldSet

\* There is one peak.
LEMMA PeakUnique ==
  ASSUME NEW base \in Amounts, NEW events, NEW I, \A i \in I : events[i] \in Events,
         NEW x, IsPeak(x, base, events, I), NEW y, IsPeak(y, base, events, I)
  PROVE  x = y
<1>1. ASSUME NEW f \in Fields PROVE x[f] = y[f]
  <2>1. x[f] \in Nat /\ y[f] \in Nat
    BY StreamAssumption DEF IsPeak, Amounts
  <2>2. x[f] <= y[f] /\ y[f] <= x[f]
    BY <2>1 DEF IsPeak
  <2>3. QED
    BY <2>1, <2>2
<1>2. QED
  BY <1>1 DEF IsPeak, Amounts

\* The peak of nothing is the start, and one more event is merged into it.
LEMMA PeakOfNone ==
  ASSUME NEW base \in Amounts, NEW events
  PROVE  IsPeak(base, base, events, {})
BY StreamAssumption DEF IsPeak, Amounts

LEMMA PeakOfOneMore ==
  ASSUME NEW base \in Amounts, NEW events, NEW I, \A i \in I : events[i] \in Events,
         NEW j \in I, NEW x, IsPeak(x, base, events, I \ {j})
  PROVE  IsPeak(Merge(x, events[j]), base, events, I)
<1> DEFINE e == events[j]
           y == Merge(x, e)
<1>1. y \in Amounts
  BY MergeType DEF IsPeak
<1>2. ASSUME NEW f \in Fields
      PROVE  /\ base[f] <= y[f]
             /\ \A i \in I : f \in DOMAIN events[i] => events[i][f] <= y[f]
             /\ \/ y[f] = base[f]
                \/ \E i \in I : f \in DOMAIN events[i] /\ y[f] = events[i][f]
  <2>1. y[f] = IF f \in DOMAIN e /\ e[f] > x[f] THEN e[f] ELSE x[f]
    BY DEF Merge
  <2>2. x[f] \in Nat /\ base[f] \in Nat /\ base[f] <= x[f]
    BY StreamAssumption DEF IsPeak, Amounts
  <2>3. \A i \in I : f \in DOMAIN events[i] => events[i][f] \in Nat
    BY EventValues, StreamAssumption
  <2>4. x[f] <= y[f] /\ (f \in DOMAIN e => e[f] <= y[f]) /\ y[f] \in Nat
    BY <2>1, <2>2, <2>3
  <2>5. \A i \in I \ {j} : f \in DOMAIN events[i] => events[i][f] <= x[f]
    BY DEF IsPeak
  <2>6. \A i \in I : f \in DOMAIN events[i] => events[i][f] <= y[f]
    BY <2>2, <2>3, <2>4, <2>5
  <2>7. \/ x[f] = base[f]
        \/ \E i \in I \ {j} : f \in DOMAIN events[i] /\ x[f] = events[i][f]
    BY DEF IsPeak
  <2>8. y[f] = x[f] \/ (f \in DOMAIN events[j] /\ y[f] = events[j][f])
    BY <2>1
  <2>9. \/ y[f] = base[f]
        \/ \E i \in I : f \in DOMAIN events[i] /\ y[f] = events[i][f]
    BY <2>7, <2>8
  <2>10. QED
    BY <2>2, <2>4, <2>6, <2>9
<1>3. QED
  BY <1>1, <1>2 DEF IsPeak

\* Any finite set of places has a peak.
LEMMA PeakExists ==
  ASSUME NEW base \in Amounts, NEW events, NEW D, IsFiniteSet(D),
         \A i \in D : events[i] \in Events
  PROVE  \A T \in SUBSET D : \E x : IsPeak(x, base, events, T)
<1> DEFINE Bad == {T \in SUBSET D : ~ \E x : IsPeak(x, base, events, T)}
<1> SUFFICES ASSUME Bad # {} PROVE FALSE
  OBVIOUS
<1>1. PICK T \in Bad : \A U \in SUBSET T : U # T => U \notin Bad
  <2>1. Bad \in SUBSET SUBSET D
    OBVIOUS
  <2> HIDE DEF Bad
  <2>2. QED
    BY <2>1, SmallestSubset
<1>2. T # {}
  BY PeakOfNone
<1>3. PICK j \in T : TRUE
  BY <1>2
<1>4. PICK x : IsPeak(x, base, events, T \ {j})
  BY <1>1
<1>5. IsPeak(Merge(x, events[j]), base, events, T)
  BY <1>4, PeakOfOneMore
<1>6. QED
  BY <1>5

\* What extract_usage_from_sse makes of a sequence of events is their peak.
LEMMA FoldIsPeak ==
  ASSUME NEW base \in Amounts, NEW events, IsFiniteSet(DOMAIN events),
         DOMAIN events \subseteq Nat, \A i \in DOMAIN events : events[i] \in Events
  PROVE  IsPeak(FoldLeft(Merge, base, events), base, events, DOMAIN events)
<1> DEFINE D == DOMAIN events
           Eqn(g) == g = [T \in SUBSET D |->
                            IF T = {} THEN base ELSE Merge(g[T \ {Max(T)}], events[Max(T)])]
           peak == [T \in SUBSET D |-> CHOOSE x : IsPeak(x, base, events, T)]
           iter == CHOOSE g : Eqn(g)
<1>1. FoldLeft(Merge, base, events) = iter[D]
  BY FoldUnfolded
<1>2. \A T \in SUBSET D : IsPeak(peak[T], base, events, T)
  BY PeakExists
<1>3. \A T \in SUBSET D : T # {} => Max(T) \in T
  <2> SUFFICES ASSUME NEW T \in SUBSET D, T # {} PROVE Max(T) \in T
    OBVIOUS
  <2>1. T \in SUBSET Nat /\ IsFiniteSet(T)
    BY FS_Subset
  <2>2. QED
    BY <2>1, MaxIsGreatest
<1>4. Eqn(peak)
  <2>1. ASSUME NEW T \in SUBSET D
        PROVE  peak[T] = IF T = {} THEN base ELSE Merge(peak[T \ {Max(T)}], events[Max(T)])
    <3>1. IsPeak(peak[T], base, events, T)
      BY <1>2
    <3>2. \A i \in T : events[i] \in Events
      OBVIOUS
    <3> HIDE DEF peak
    <3>3. CASE T = {}
      <4>1. IsPeak(base, base, events, T)
        BY <3>3, PeakOfNone
      <4>2. QED
        BY <3>1, <3>2, <3>3, <4>1, PeakUnique
    <3>4. CASE T # {}
      <4>1. PICK j \in T : j = Max(T)
        BY <1>3, <3>4
      <4>2. IsPeak(peak[T \ {j}], base, events, T \ {j})
        BY <1>2
      <4>3. IsPeak(Merge(peak[T \ {j}], events[j]), base, events, T)
        BY <3>2, <4>2, PeakOfOneMore
      <4>4. peak[T] = Merge(peak[T \ {j}], events[j])
        BY <3>1, <3>2, <4>3, PeakUnique
      <4>5. QED
        BY <3>4, <4>1, <4>4
    <3>5. QED
      BY <3>3, <3>4
  <2>2. peak = [T \in SUBSET D |-> peak[T]]
    OBVIOUS
  <2> HIDE DEF peak
  <2>3. QED
    BY <2>1, <2>2
<1>5. Eqn(iter)
  <2> HIDE DEF Eqn
  <2>1. QED
    BY <1>4
<1>6. \A T \in SUBSET D :
        iter[T] = IF T = {} THEN base ELSE Merge(iter[T \ {Max(T)}], events[Max(T)])
  <2> HIDE DEF iter
  <2>1. QED
    BY <1>5
<1>7. \A T \in SUBSET D : IsPeak(iter[T], base, events, T)
  <2> DEFINE Bad == {T \in SUBSET D : ~IsPeak(iter[T], base, events, T)}
  <2> HIDE DEF iter
  <2> SUFFICES ASSUME Bad # {} PROVE FALSE
    OBVIOUS
  <2>1. PICK T \in Bad : \A U \in SUBSET T : U # T => U \notin Bad
    <3>1. Bad \in SUBSET SUBSET D
      OBVIOUS
    <3> HIDE DEF Bad
    <3>2. QED
      BY <3>1, SmallestSubset
  <2>2. T # {}
    BY <1>6, PeakOfNone
  <2>3. PICK j \in T : j = Max(T)
    BY <1>3, <2>2
  <2>4. IsPeak(iter[T \ {j}], base, events, T \ {j})
    BY <2>1
  <2>5. IsPeak(Merge(iter[T \ {j}], events[j]), base, events, T)
    BY <2>4, PeakOfOneMore
  <2>6. iter[T] = Merge(iter[T \ {j}], events[j])
    BY <1>6, <2>2, <2>3
  <2>7. QED
    BY <2>5, <2>6
<1>8. QED
  BY <1>1, <1>7

-----------------------------------------------------------------------------
Within(x, y) == \A f \in Fields : x[f] <= y[f]

\* What is within x is within y.
Transitive(x, y) == \A z \in Amounts : Within(z, x) => Within(z, y)

\* Nothing in the accumulator or in the hands of the watcher is more than what
\* the upstream has reported so far.
Bounded(s) ==
  /\ sent[s] <= Len(script[s])
  /\ \A x \in accum[s] : Within(x, Reported(s))
  /\ accum[s] # {} => HasCount(Seen(s))
  /\ Within(taken[s], Reported(s))

\* A watcher starts with the answer, and has no value before it has seen one.
TakenLate ==
  \A s \in Streams :
    /\ body[s] = "none" => watch[s] = "none"
    /\ watch[s] \in {"none", "polling", "take"} => taken[s] = Zero

\* What the watchers in the states W have taken.
Share(W, f) == [s \in Streams |-> IF watch[s] \in W THEN taken[s][f] ELSE 0]

\* Every value that was taken is in each total once.
TotalsExact ==
  \A f \in Fields :
    /\ charged[f] = SumFunctionOnSet(Share({"mirror", "over"}, f), Streams)
    /\ mirrored[f] = SumFunctionOnSet(Share({"over"}, f), Streams)

IInv ==
  /\ TypeOK
  /\ \A s \in Streams : Bounded(s)
  /\ TakenLate
  /\ TotalsExact
  /\ DrainedIsComplete

-----------------------------------------------------------------------------
\* The events that have reached the body are the first ones of the script.
LEMMA SeenEvents ==
  ASSUME TypeOK, NEW s \in Streams, sent[s] <= Len(script[s])
  PROVE  /\ Seen(s) \in Seq(Events)
         /\ DOMAIN Seen(s) = 1 .. sent[s]
         /\ \A i \in 1 .. sent[s] : Seen(s)[i] = script[s][i] /\ script[s][i] \in Events
<1>1. script[s] \in Seq(Events) /\ sent[s] \in Nat
  BY StreamAssumption DEF TypeOK
<1>2. \A i \in 1 .. sent[s] : script[s][i] \in Events
  BY <1>1
<1>3. /\ Seen(s) \in Seq(Events) /\ Len(Seen(s)) = sent[s]
      /\ \A i \in 1 .. sent[s] : Seen(s)[i] = script[s][i]
  BY <1>1 DEF Seen
<1>4. QED
  BY <1>2, <1>3

\* What is reported is the peak of those events.
LEMMA ReportedIsPeak ==
  ASSUME TypeOK, NEW s \in Streams, sent[s] <= Len(script[s])
  PROVE  IsPeak(Reported(s), Zero, script[s], 1 .. sent[s])
<1>1. Zero \in Amounts
  BY StreamAssumption DEF Zero, Amounts
<1>2. sent[s] \in Nat
  BY DEF TypeOK
<1>3. IsFiniteSet(1 .. sent[s]) /\ 1 .. sent[s] \subseteq Nat
  BY <1>2, FS_Interval
<1>4. IsPeak(Reported(s), Zero, Seen(s), 1 .. sent[s])
  BY <1>1, <1>3, SeenEvents, FoldIsPeak DEF Reported
<1>5. QED
  BY <1>4, SeenEvents DEF IsPeak

\* One extraction: the peak of the accumulator and the events, if there is any.
LEMMA Extracted ==
  ASSUME NEW acc \in {{}} \cup {{x} : x \in Amounts}, NEW events \in Seq(Events)
  PROVE  \E start \in Amounts :
           /\ (acc = {} /\ start = Zero) \/ acc = {start}
           /\ \/ acc = {} /\ ~HasCount(events) /\ Extract(acc, events) = {}
              \/ /\ acc # {} \/ HasCount(events)
                 /\ \E y : /\ Extract(acc, events) = {y}
                           /\ IsPeak(y, start, events, DOMAIN events)
<1> DEFINE start == IF acc = {} THEN Zero ELSE CHOOSE x \in acc : TRUE
<1>1. start \in Amounts /\ ((acc = {} /\ start = Zero) \/ acc = {start})
  BY StreamAssumption DEF Zero, Amounts
<1>2. IsPeak(FoldLeft(Merge, start, events), start, events, DOMAIN events)
  <2>1. DOMAIN events = 1 .. Len(events) /\ Len(events) \in Nat
    OBVIOUS
  <2>2. IsFiniteSet(DOMAIN events) /\ DOMAIN events \subseteq Nat
    BY <2>1, FS_Interval
  <2>3. \A i \in DOMAIN events : events[i] \in Events
    BY <2>1
  <2> HIDE DEF start
  <2>4. QED
    BY <1>1, <2>2, <2>3, FoldIsPeak
<1>3. Extract(acc, events) =
        IF acc # {} \/ HasCount(events) THEN {FoldLeft(Merge, start, events)} ELSE {}
  BY DEF Extract
<1> HIDE DEF start
<1>4. QED
  BY <1>1, <1>2, <1>3

\* An extraction of reported events gives nothing above what is reported.
LEMMA ExtractedWithin ==
  ASSUME NEW acc \in {{}} \cup {{x} : x \in Amounts}, NEW events \in Seq(Events),
         NEW R \in Amounts, \A x \in acc : Within(x, R),
         \A i \in DOMAIN events : \A f \in DOMAIN events[i] : events[i][f] <= R[f]
  PROVE  /\ Extract(acc, events) \in {{}} \cup {{x} : x \in Amounts}
         /\ \A y \in Extract(acc, events) : Within(y, R)
<1>1. PICK start \in Amounts :
        /\ (acc = {} /\ start = Zero) \/ acc = {start}
        /\ \/ acc = {} /\ ~HasCount(events) /\ Extract(acc, events) = {}
           \/ /\ acc # {} \/ HasCount(events)
              /\ \E y : /\ Extract(acc, events) = {y}
                        /\ IsPeak(y, start, events, DOMAIN events)
  BY Extracted
<1>2. Within(start, R)
  <2>1. \A f \in Fields : R[f] \in Nat
    BY StreamAssumption DEF Amounts
  <2>2. CASE acc = {} /\ start = Zero
    BY <2>1, <2>2 DEF Within, Zero
  <2>3. CASE acc = {start}
    BY <2>3
  <2>4. QED
    BY <1>1, <2>2, <2>3
<1>3. ASSUME NEW y, IsPeak(y, start, events, DOMAIN events)
      PROVE  y \in Amounts /\ Within(y, R)
  BY <1>2, <1>3 DEF IsPeak, Within
<1>4. QED
  BY <1>1, <1>3

\* With more events, more is reported.
LEMMA ReportedGrows ==
  ASSUME TypeOK, TypeOK', NEW s \in Streams, script' = script,
         sent[s] <= sent'[s], sent'[s] <= Len(script[s])
  PROVE  /\ Within(Reported(s), Reported(s)')
         /\ HasCount(Seen(s)) => HasCount(Seen(s))'
         /\ Reported(s) \in Amounts /\ Reported(s)' \in Amounts
         /\ \A i \in 1 .. sent'[s] : \A f \in DOMAIN script[s][i] : script[s][i][f] <= Reported(s)'[f]
<1> DEFINE seen == SubSeq(script[s], 1, sent'[s])
<1>1. script[s] \in Seq(Events) /\ sent[s] \in Nat /\ sent'[s] \in Nat /\ Len(script[s]) \in Nat
  BY StreamAssumption DEF TypeOK
<1>2. sent[s] <= Len(script[s])
  BY <1>1
<1>3. IsPeak(Reported(s), Zero, script[s], 1 .. sent[s])
  BY <1>2, ReportedIsPeak
<1>4. /\ seen \in Seq(Events) /\ DOMAIN seen = 1 .. sent'[s]
      /\ \A i \in 1 .. sent'[s] : seen[i] = script[s][i] /\ script[s][i] \in Events
  BY <1>1
<1>5. IsPeak(Reported(s)', Zero, script[s], 1 .. sent'[s])
  <2>1. Zero \in Amounts
    BY StreamAssumption DEF Zero, Amounts
  <2>2. IsFiniteSet(1 .. sent'[s]) /\ 1 .. sent'[s] \subseteq Nat
    <3>1. ASSUME NEW n \in Nat PROVE IsFiniteSet(1 .. n) /\ 1 .. n \subseteq Nat
      <4>1. 1 \in Int /\ n \in Int /\ 1 .. n \subseteq Nat
        OBVIOUS
      <4>2. QED
        BY <4>1, FS_Interval
    <3>2. QED
      BY <1>1, <3>1
  <2>3. IsPeak(FoldLeft(Merge, Zero, seen), Zero, seen, 1 .. sent'[s])
    BY <1>4, <2>1, <2>2, FoldIsPeak
  <2>4. Reported(s)' = FoldLeft(Merge, Zero, seen)
    BY DEF Reported, Seen
  <2>5. QED
    BY <1>4, <2>3, <2>4 DEF IsPeak
<1>6. \A i \in 1 .. sent'[s] : \A f \in DOMAIN script[s][i] : script[s][i][f] <= Reported(s)'[f]
  BY <1>4, <1>5, EventValues DEF IsPeak
<1>7. 1 .. sent[s] \subseteq 1 .. sent'[s]
  BY <1>1
<1>8. Within(Reported(s), Reported(s)')
  <2>1. ASSUME NEW f \in Fields PROVE Reported(s)[f] <= Reported(s)'[f]
    <3>1. \/ Reported(s)[f] = Zero[f]
          \/ \E i \in 1 .. sent[s] : f \in DOMAIN script[s][i] /\ Reported(s)[f] = script[s][i][f]
      BY <1>3 DEF IsPeak
    <3>2. Zero[f] <= Reported(s)'[f]
      BY <1>5 DEF IsPeak
    <3>3. QED
      BY <1>6, <1>7, <3>1, <3>2
  <2>2. QED
    BY <2>1 DEF Within
<1>9. HasCount(Seen(s)) => HasCount(Seen(s))'
  <2>1. /\ DOMAIN Seen(s) = 1 .. sent[s]
        /\ \A i \in 1 .. sent[s] : Seen(s)[i] = script[s][i]
    BY <1>2, SeenEvents
  <2>2. Seen(s)' = seen
    BY DEF Seen
  <2>3. HasCount(Seen(s)) => \E i \in 1 .. sent[s] : DOMAIN script[s][i] # {}
    BY <2>1 DEF HasCount
  <2>4. (\E i \in 1 .. sent'[s] : DOMAIN script[s][i] # {}) => HasCount(seen)
    BY <1>4 DEF HasCount
  <2>5. QED
    BY <1>7, <2>2, <2>3, <2>4
<1>10. QED
  BY <1>3, <1>5, <1>6, <1>8, <1>9 DEF IsPeak

-----------------------------------------------------------------------------
\* A step that reads no event, where a watcher takes no more than it finds.
LEMMA QuietStep ==
  ASSUME IInv, UNCHANGED <<script, sent, garbled, accum>>,
         \A s \in Streams : body'[s] = "drained" => body[s] = "drained",
         \A s \in Streams : taken'[s] = taken[s] \/ taken'[s] \in accum[s],
         TypeOK', TakenLate', TotalsExact'
  PROVE  IInv'
<1>1. \A s \in Streams : Seen(s)' = Seen(s) /\ Reported(s)' = Reported(s)
  BY DEF Seen, Reported
<1>2. \A s \in Streams : HasCount(Seen(s))' <=> HasCount(Seen(s))
  BY <1>1 DEF HasCount
<1>3. \A s \in Streams : Bounded(s)'
  BY <1>1, <1>2 DEF IInv, Bounded, Within
<1>4. DrainedIsComplete'
  BY <1>1, <1>2 DEF IInv, DrainedIsComplete
<1>5. QED
  BY <1>3, <1>4 DEF IInv

\* A step moves no stream but its own.
Alone(s) ==
  \A t \in Streams : t # s =>
    /\ script'[t] = script[t] /\ sent'[t] = sent[t] /\ body'[t] = body[t]
    /\ garbled'[t] = garbled[t]
    /\ accum'[t] = accum[t] /\ taken'[t] = taken[t]

\* For the other streams nothing changes.
LEMMA OthersStay ==
  ASSUME IInv, NEW s \in Streams, Alone(s), NEW t \in Streams, t # s
  PROVE  /\ Bounded(t)'
         /\ body'[t] = "drained" /\ ~garbled'[t] =>
              accum'[t] = IF HasCount(Seen(t))' THEN {Reported(t)'} ELSE {}
<1>1. Seen(t)' = Seen(t)
  BY DEF Alone, Seen
<1>2. Reported(t)' = Reported(t)
  BY <1>1 DEF Reported
<1>3. Bounded(t) /\ DrainedIsComplete
  BY DEF IInv
<1>4. HasCount(Seen(t))' <=> HasCount(Seen(t))
  BY <1>1 DEF HasCount
<1>5. QED
  BY <1>2, <1>3, <1>4 DEF Alone, Bounded, DrainedIsComplete, Within

\* The body steps do not touch the totals.
LEMMA TotalsStay ==
  ASSUME IInv, UNCHANGED totals,
         \A s \in Streams :
           \A W \in {{"mirror", "over"}, {"over"}} :
             \A f \in Fields : Share(W, f)'[s] = Share(W, f)[s]
  PROVE  TotalsExact'
<1>1. \A W \in {{"mirror", "over"}, {"over"}} : \A f \in Fields : Share(W, f)' = Share(W, f)
  BY DEF Share
<1>2. QED
  BY <1>1 DEF IInv, TotalsExact, totals

\* What is left to show of a step of stream s.
LEMMA StepOf ==
  ASSUME IInv, NEW s \in Streams, Alone(s), TypeOK', Bounded(s)', TakenLate', TotalsExact',
         body'[s] = "drained" /\ ~garbled'[s] =>
           accum'[s] = IF HasCount(Seen(s))' THEN {Reported(s)'} ELSE {}
  PROVE  IInv'
<1>1. \A t \in Streams : Bounded(t)'
  BY OthersStay
<1>2. \A t \in Streams :
        body'[t] = "drained" /\ ~garbled'[t] =>
          accum'[t] = IF HasCount(Seen(t))' THEN {Reported(t)'} ELSE {}
  BY OthersStay
<1>3. DrainedIsComplete'
  BY <1>2 DEF DrainedIsComplete
<1>4. QED
  BY <1>1, <1>3 DEF IInv

\* A chunk brings one more event, which the accumulator may or may not get.
LEMMA ChunkStep ==
  ASSUME IInv, NEW s \in Streams, Chunk(s)
  PROVE  IInv'
<1> DEFINE e == script[s][sent[s] + 1]
           one == <<e>>
<1>1. /\ body[s] = "open" /\ sent[s] < Len(script[s])
      /\ sent' = [sent EXCEPT ![s] = @ + 1]
      /\ UNCHANGED <<script, body, watch, taken, late, charged, mirrored>>
  BY DEF Chunk, task, totals
<1>2. PICK legible \in BOOLEAN, valid \in BOOLEAN :
        /\ garbled' = [garbled EXCEPT ![s] = @ \/ ~valid]
        /\ accum' = [accum EXCEPT ![s] = IF legible THEN Extract(@, one) ELSE @]
  BY DEF Chunk
<1>3. TypeOK /\ Bounded(s)
  BY DEF IInv
<1>4. /\ script[s] \in Seq(Events) /\ Len(script[s]) \in Nat /\ sent[s] \in Nat
      /\ accum[s] \in {{}} \cup {{x} : x \in Amounts}
  <2>1. script[s] \in Scripts /\ sent[s] \in Nat
    BY <1>3 DEF TypeOK
  <2>2. accum[s] \in {{}} \cup {{x} : x \in Amounts}
    BY <1>3 DEF TypeOK
  <2>3. script[s] \in Seq(Events)
    BY <2>1, StreamAssumption
  <2>4. QED
    BY <2>1, <2>2, <2>3
<1>5. sent'[s] = sent[s] + 1 /\ sent[s] <= sent'[s] /\ sent'[s] <= Len(script[s])
  BY <1>1, <1>3, <1>4 DEF TypeOK
<1>6. e \in Events
  BY <1>1, <1>4
<1>7. one \in Seq(Events) /\ DOMAIN one = {1} /\ one[1] = e
  BY <1>6
<1>8. Extract(accum[s], one) \in {{}} \cup {{x} : x \in Amounts}
  <2> HIDE DEF one
  <2>1. PICK start \in Amounts :
          \/ Extract(accum[s], one) = {}
          \/ \E y : Extract(accum[s], one) = {y} /\ IsPeak(y, start, one, DOMAIN one)
    BY <1>4, <1>7, Extracted
  <2>2. \A y : IsPeak(y, start, one, DOMAIN one) => y \in Amounts
    BY DEF IsPeak
  <2>3. QED
    BY <2>1, <2>2
<1>9. accum'[s] = IF legible THEN Extract(accum[s], one) ELSE accum[s]
  BY <1>2, <1>3 DEF TypeOK
<1>10. TypeOK'
  <2>1. sent' \in [Streams -> Nat]
    BY <1>1, <1>3, <1>4 DEF TypeOK
  <2>2. accum' \in [Streams -> {{}} \cup {{x} : x \in Amounts}]
    <3> HIDE DEF one
    <3>1. QED
      BY <1>2, <1>3, <1>8 DEF TypeOK
  <2>3. garbled' \in [Streams -> BOOLEAN]
    BY <1>2, <1>3 DEF TypeOK
  <2>4. QED
    BY <1>1, <1>3, <2>1, <2>2, <2>3 DEF TypeOK
<1>11. /\ Within(Reported(s), Reported(s)')
       /\ HasCount(Seen(s)) => HasCount(Seen(s))'
       /\ Reported(s) \in Amounts /\ Reported(s)' \in Amounts
       /\ \A i \in 1 .. sent'[s] : \A f \in DOMAIN script[s][i] : script[s][i][f] <= Reported(s)'[f]
  BY <1>1, <1>3, <1>5, <1>10, ReportedGrows
<1>12. \A f \in DOMAIN e : e[f] <= Reported(s)'[f]
  <2>1. sent[s] + 1 \in 1 .. sent'[s]
    BY <1>4, <1>5
  <2>2. QED
    BY <1>11, <2>1
<1>13. Transitive(Reported(s), Reported(s)')
  BY <1>11, StreamAssumption DEF Transitive, Within, Amounts
<1>14. \A x \in accum[s] : Within(x, Reported(s)')
  BY <1>3, <1>4, <1>13 DEF Bounded, Transitive
<1>15. \A y \in accum'[s] : Within(y, Reported(s)')
  <2> DEFINE R == Reported(s)'
  <2>1. R \in Amounts /\ \A x \in accum[s] : Within(x, R)
    BY <1>11, <1>14
  <2>2. \A i \in DOMAIN one : \A f \in DOMAIN one[i] : one[i][f] <= R[f]
    BY <1>7, <1>12
  <2> HIDE DEF R, one
  <2>3. \A y \in Extract(accum[s], one) : Within(y, R)
    BY <1>4, <1>7, <2>1, <2>2, ExtractedWithin
  <2>4. QED
    BY <1>9, <2>1, <2>3 DEF R
<1>16. accum'[s] # {} => HasCount(Seen(s))'
  <2>1. CASE accum[s] # {}
    BY <1>3, <1>11, <2>1 DEF Bounded
  <2>2. CASE accum[s] = {} /\ accum'[s] # {}
    <3>1. HasCount(one)
      BY <1>9, <2>2 DEF Extract
    <3>2. DOMAIN e # {}
      BY <1>7, <3>1 DEF HasCount
    <3>3. SubSeq(script[s], 1, sent[s] + 1)[sent[s] + 1] = e
          /\ sent[s] + 1 \in DOMAIN SubSeq(script[s], 1, sent[s] + 1)
      <4>1. sent[s] + 1 \in Nat /\ 1 <= sent[s] + 1 /\ sent[s] + 1 <= Len(script[s])
        BY <1>4, <1>5
      <4>2. \A n \in Nat : 1 <= n /\ n <= Len(script[s]) =>
              SubSeq(script[s], 1, n)[n] = script[s][n] /\ n \in DOMAIN SubSeq(script[s], 1, n)
        <5>1. ASSUME NEW n \in Nat, 1 <= n, n <= Len(script[s])
              PROVE  SubSeq(script[s], 1, n)[n] = script[s][n] /\ n \in DOMAIN SubSeq(script[s], 1, n)
          <6>1. Len(SubSeq(script[s], 1, n)) = n /\ SubSeq(script[s], 1, n) \in Seq(Events)
            BY <1>4, <5>1
          <6>2. \A i \in 1 .. n : SubSeq(script[s], 1, n)[i] = script[s][i]
            BY <1>4, <5>1
          <6>3. n \in 1 .. n
            BY <5>1
          <6>4. QED
            BY <6>1, <6>2, <6>3
        <5>2. QED
          BY <5>1
      <4>3. QED
        BY <4>1, <4>2
    <3>4. Seen(s)' = SubSeq(script[s], 1, sent[s] + 1)
      BY <1>1, <1>5 DEF Seen
    <3> HIDE DEF e
    <3>5. QED
      BY <3>2, <3>3, <3>4 DEF HasCount
  <2>3. QED
    BY <2>1, <2>2
<1>17. Within(taken'[s], Reported(s)')
  BY <1>1, <1>3, <1>13 DEF Bounded, Transitive, TypeOK
<1>18. Bounded(s)'
  BY <1>1, <1>5, <1>15, <1>16, <1>17 DEF Bounded
<1>19. Alone(s)
  BY <1>1, <1>2, <1>3 DEF Alone, TypeOK
<1>20. TakenLate' /\ TotalsExact'
  <2>1. TakenLate'
    BY <1>1 DEF IInv, TakenLate
  <2>2. TotalsExact'
    BY <1>1, TotalsStay DEF Share, totals
  <2>3. QED
    BY <2>1, <2>2
<1>21. body'[s] # "drained"
  BY <1>1
<1>22. QED
  BY <1>10, <1>18, <1>19, <1>20, <1>21, StepOf

\* A garbled body ends with what its chunks said.
LEMMA GarbledEndStep ==
  ASSUME IInv, NEW s \in Streams, End(s), garbled[s]
  PROVE  IInv'
<1>1. TypeOK /\ Bounded(s)
  BY DEF IInv
<1>2. /\ accum' = accum /\ body' = [body EXCEPT ![s] = "drained"]
      /\ UNCHANGED <<script, sent, garbled, watch, taken, late, charged, mirrored>>
  BY <1>1 DEF End, ReadBuffer, task, totals, TypeOK
<1>3. TypeOK'
  BY <1>1, <1>2 DEF TypeOK
<1>4. Bounded(s)'
  BY <1>1, <1>2 DEF Bounded, Reported, Seen, HasCount, Within
<1>5. Alone(s) /\ garbled'[s]
  BY <1>1, <1>2 DEF Alone, TypeOK
<1>6. TakenLate'
  BY <1>2 DEF IInv, TakenLate
<1>7. TotalsExact'
  BY <1>2, TotalsStay DEF Share, totals
<1>8. QED
  BY <1>3, <1>4, <1>5, <1>6, <1>7, StepOf

\* Once read to its end a body in valid UTF-8 has the peak of all its events, or
\* nothing.
LEMMA EndStep ==
  ASSUME IInv, NEW s \in Streams, End(s), ~garbled[s]
  PROVE  IInv'
<1>1. /\ accum' = [accum EXCEPT ![s] = Extract(@, Seen(s))]
      /\ body' = [body EXCEPT ![s] = "drained"]
      /\ UNCHANGED <<script, sent, garbled, watch, taken, late, charged, mirrored>>
  BY DEF End, ReadBuffer, task, totals
<1>2. TypeOK /\ Bounded(s) /\ sent[s] <= Len(script[s])
  BY DEF IInv, Bounded
<1>3. accum[s] \in {{}} \cup {{x} : x \in Amounts}
  BY <1>2 DEF TypeOK
<1>4. /\ Seen(s) \in Seq(Events) /\ DOMAIN Seen(s) = 1 .. sent[s]
      /\ \A i \in 1 .. sent[s] : Seen(s)[i] = script[s][i] /\ script[s][i] \in Events
  BY <1>2, SeenEvents
<1>5. IsPeak(Reported(s), Zero, script[s], 1 .. sent[s])
  BY <1>2, ReportedIsPeak
<1>6. Reported(s) \in Amounts /\ \A x \in accum[s] : Within(x, Reported(s))
  BY <1>2, <1>5 DEF IsPeak, Bounded
<1>7. \A i \in DOMAIN Seen(s) : \A f \in DOMAIN Seen(s)[i] : Seen(s)[i][f] <= Reported(s)[f]
  BY <1>4, <1>5, EventValues DEF IsPeak
<1>8. /\ Extract(accum[s], Seen(s)) \in {{}} \cup {{x} : x \in Amounts}
      /\ \A y \in Extract(accum[s], Seen(s)) : Within(y, Reported(s))
  BY <1>3, <1>4, <1>6, <1>7, ExtractedWithin
<1>9. accum'[s] = Extract(accum[s], Seen(s))
  BY <1>1, <1>2 DEF TypeOK
<1>10. Extract(accum[s], Seen(s)) = IF HasCount(Seen(s)) THEN {Reported(s)} ELSE {}
  <2>1. CASE ~HasCount(Seen(s))
    BY <1>2, <2>1 DEF Extract, Bounded
  <2>2. CASE HasCount(Seen(s))
    <3>1. PICK start \in Amounts : \E y :
            /\ Extract(accum[s], Seen(s)) = {y}
            /\ IsPeak(y, start, Seen(s), DOMAIN Seen(s))
      BY <1>3, <1>4, <2>2, Extracted
    <3>2. PICK y : /\ Extract(accum[s], Seen(s)) = {y}
                   /\ IsPeak(y, start, Seen(s), DOMAIN Seen(s))
      BY <3>1
    <3>3. ASSUME NEW f \in Fields PROVE y[f] = Reported(s)[f]
      <4>1. y[f] <= Reported(s)[f]
        BY <1>8, <3>2 DEF Within
      <4>2. y[f] \in Nat /\ start[f] \in Nat /\ Reported(s)[f] \in Nat
        BY <1>6, <3>2, StreamAssumption DEF IsPeak, Amounts
      <4>3. \/ Reported(s)[f] = Zero[f]
            \/ \E i \in 1 .. sent[s] : f \in DOMAIN script[s][i] /\ Reported(s)[f] = script[s][i][f]
        BY <1>5 DEF IsPeak
      <4>4. \A i \in 1 .. sent[s] : f \in DOMAIN script[s][i] => script[s][i][f] <= y[f]
        BY <1>4, <3>2 DEF IsPeak
      <4>5. Zero[f] <= y[f]
        BY <4>2 DEF Zero
      <4>6. QED
        BY <4>1, <4>2, <4>3, <4>4, <4>5
    <3>4. y = Reported(s)
      BY <1>6, <3>2, <3>3 DEF IsPeak, Amounts
    <3>5. QED
      BY <2>2, <3>2, <3>4
  <2>3. QED
    BY <2>1, <2>2
<1>11. Seen(s)' = Seen(s)
  BY <1>1 DEF Seen
<1>12. Reported(s)' = Reported(s)
  BY <1>11 DEF Reported
<1>13. HasCount(Seen(s))' <=> HasCount(Seen(s))
  BY <1>11 DEF HasCount
<1>14. TypeOK'
  <2>1. body' \in [Streams -> {"none", "open", "drained", "cut"}]
    BY <1>1, <1>2 DEF TypeOK
  <2>2. accum' \in [Streams -> {{}} \cup {{x} : x \in Amounts}]
    BY <1>1, <1>2, <1>8 DEF TypeOK
  <2>3. QED
    BY <1>1, <1>2, <2>1, <2>2 DEF TypeOK
<1>15. Bounded(s)'
  <2>1. \A y \in accum'[s] : Within(y, Reported(s)')
    BY <1>8, <1>9, <1>12
  <2>2. accum'[s] # {} => HasCount(Seen(s))'
    BY <1>9, <1>10, <1>13
  <2>3. sent'[s] <= Len(script'[s]) /\ Within(taken'[s], Reported(s)')
    BY <1>1, <1>2, <1>12 DEF Bounded
  <2>4. QED
    BY <2>1, <2>2, <2>3 DEF Bounded
<1>16. accum'[s] = IF HasCount(Seen(s))' THEN {Reported(s)'} ELSE {}
  BY <1>9, <1>10, <1>12, <1>13
<1>17. Alone(s)
  BY <1>1, <1>2 DEF Alone, TypeOK
<1>18. TakenLate'
  BY <1>1 DEF IInv, TakenLate
<1>19. TotalsExact'
  BY <1>1, TotalsStay DEF Share, totals
<1>20. QED
  BY <1>14, <1>15, <1>16, <1>17, <1>18, <1>19, StepOf

-----------------------------------------------------------------------------
\* A share is a natural number for each stream.
LEMMA ShareType ==
  ASSUME TypeOK
  PROVE  \A W, f, s : f \in Fields /\ s \in Streams => Share(W, f)[s] \in Nat
<1>1. \A s \in Streams : \A f \in Fields : taken[s][f] \in Nat
  BY StreamAssumption DEF TypeOK, Amounts
<1>2. QED
  BY <1>1 DEF Share

\* The first answer, the end of a client, and a watcher that only looks.
LEMMA IdleStep ==
  ASSUME IInv, NEW s \in Streams, Answer(s) \/ Cut(s) \/ Look(s) \/ Expire(s) \/ GiveUp(s)
  PROVE  IInv'
<1>1. UNCHANGED <<script, sent, garbled, accum, taken, charged, mirrored>>
  BY DEF Answer, Cut, Look, Expire, GiveUp, stream, task, totals
<1>2. TypeOK /\ TakenLate
  BY DEF IInv
<1>3. body' \in [Streams -> {"none", "open", "drained", "cut"}]
      /\ \A t \in Streams : body'[t] = "drained" => body[t] = "drained"
  BY <1>2 DEF Answer, Cut, Look, Expire, GiveUp, stream, TypeOK
<1>4. watch' \in [Streams -> {"none", "polling", "take", "charge", "mirror", "over"}]
      /\ late' \in [Streams -> BOOLEAN]
  BY <1>2 DEF Answer, Cut, Look, Expire, GiveUp, task, TypeOK
<1>5. TypeOK'
  BY <1>1, <1>2, <1>3, <1>4 DEF TypeOK
<1>6. \A t \in Streams :
        \/ watch'[t] = watch[t]
        \/ watch[t] \in {"none", "polling"} /\ watch'[t] \in {"polling", "take", "over"}
  <2>1. \/ watch' = watch
        \/ /\ watch[s] \in {"none", "polling"}
           /\ \E w \in {"polling", "take", "over"} : watch' = [watch EXCEPT ![s] = w]
    <3>1. CASE Answer(s)
      <4>1. watch[s] = "none" /\ watch' = [watch EXCEPT ![s] = "polling"]
        BY <1>2, <3>1 DEF Answer, TakenLate
      <4>2. QED
        BY <4>1
    <3>2. CASE Look(s)
      <4>1. watch[s] = "polling" /\ watch' = [watch EXCEPT ![s] = "take"]
        BY <3>2 DEF Look
      <4>2. QED
        BY <4>1
    <3>3. CASE GiveUp(s)
      <4>1. watch[s] = "polling" /\ watch' = [watch EXCEPT ![s] = "over"]
        BY <3>3 DEF GiveUp
      <4>2. QED
        BY <4>1
    <3>4. CASE Cut(s) \/ Expire(s)
      BY <3>4 DEF Cut, Expire, task
    <3>5. QED
      BY <3>1, <3>2, <3>3, <3>4
  <2>2. watch \in [Streams -> {"none", "polling", "take", "charge", "mirror", "over"}]
    BY <1>2 DEF TypeOK
  <2>3. QED
    BY <2>1, <2>2
<1>7. TakenLate'
  <2>1. \A t \in Streams : body'[t] = "none" => watch'[t] = "none"
    <3>1. CASE Answer(s)
      <4>1. body'[s] # "none" /\ \A t \in Streams : t # s => body'[t] = body[t] /\ watch'[t] = watch[t]
        BY <1>2, <3>1 DEF Answer, TypeOK
      <4>2. QED
        BY <1>2, <4>1 DEF TakenLate
    <3>2. CASE ~Answer(s)
      <4>1. body[s] # "none"
        BY <1>2, <3>2 DEF Cut, Look, Expire, GiveUp, TakenLate
      <4>2. \A t \in Streams : /\ body'[t] = "none" => body[t] = "none"
                               /\ t # s => watch'[t] = watch[t]
        BY <1>2, <3>2 DEF Cut, Look, Expire, GiveUp, stream, task, TypeOK
      <4>3. QED
        BY <1>2, <4>1, <4>2 DEF TakenLate
    <3>3. QED
      BY <3>1, <3>2
  <2>2. QED
    BY <1>1, <1>2, <1>6, <2>1 DEF TakenLate
<1>8. \A t \in Streams : \A W \in {{"mirror", "over"}, {"over"}} : \A f \in Fields :
        Share(W, f)'[t] = Share(W, f)[t]
  <2>1. ASSUME NEW t \in Streams, NEW W \in {{"mirror", "over"}, {"over"}}, NEW f \in Fields
        PROVE  Share(W, f)'[t] = Share(W, f)[t]
    <3>1. CASE watch'[t] = watch[t]
      BY <1>1, <3>1 DEF Share
    <3>2. CASE watch[t] \in {"none", "polling"}
      <4>1. taken[t] = Zero /\ Zero[f] = 0 /\ watch[t] \notin W
        BY <1>2, <3>2 DEF TakenLate, Zero
      <4>2. QED
        BY <1>1, <4>1 DEF Share
    <3>3. QED
      BY <1>6, <3>1, <3>2
  <2>2. QED
    BY <2>1
<1>9. TotalsExact'
  BY <1>1, <1>8, TotalsStay DEF totals
<1>10. QED
  BY <1>1, <1>3, <1>5, <1>7, <1>9, QuietStep

\* The watcher takes what the accumulator has at that instant.
LEMMA TakeStep ==
  ASSUME IInv, NEW s \in Streams, Take(s)
  PROVE  IInv'
<1>1. PICK x \in accum[s] :
        /\ taken' = [taken EXCEPT ![s] = x]
        /\ watch' = [watch EXCEPT ![s] = IF x = Zero THEN "over" ELSE "charge"]
  BY DEF Take
<1>2. watch[s] = "take" /\ UNCHANGED <<script, sent, body, garbled, accum, late, charged, mirrored>>
  BY DEF Take, stream, totals
<1>3. TypeOK /\ TakenLate
  BY DEF IInv
<1>4. x \in Amounts
  <2>1. accum[s] \in {{}} \cup {{z} : z \in Amounts}
    BY <1>3 DEF TypeOK
  <2>2. QED
    BY <2>1
<1>5. TypeOK'
  <2>1. taken' \in [Streams -> Amounts]
    BY <1>1, <1>3, <1>4 DEF TypeOK
  <2>2. watch' \in [Streams -> {"none", "polling", "take", "charge", "mirror", "over"}]
    BY <1>1, <1>3 DEF TypeOK
  <2>3. QED
    BY <1>2, <1>3, <2>1, <2>2 DEF TypeOK
<1>6. /\ taken'[s] = x /\ watch'[s] = IF x = Zero THEN "over" ELSE "charge"
      /\ \A t \in Streams : t # s => taken'[t] = taken[t] /\ watch'[t] = watch[t]
  BY <1>1, <1>3 DEF TypeOK
<1>7. TakenLate'
  <2>1. body[s] # "none" /\ watch'[s] \notin {"none", "polling", "take"}
    BY <1>2, <1>3, <1>6 DEF TakenLate
  <2>2. QED
    BY <1>2, <1>3, <1>6, <2>1 DEF TakenLate
<1>8. \A t \in Streams : \A W \in {{"mirror", "over"}, {"over"}} : \A f \in Fields :
        Share(W, f)'[t] = Share(W, f)[t]
  <2>1. ASSUME NEW t \in Streams, NEW W \in {{"mirror", "over"}, {"over"}}, NEW f \in Fields
        PROVE  Share(W, f)'[t] = Share(W, f)[t]
    <3>1. CASE t # s
      BY <1>6, <3>1 DEF Share
    <3>2. CASE t = s
      <4>1. Zero[f] = 0 /\ watch[s] \notin W /\ "charge" \notin W
        BY <1>2 DEF Zero
      <4>2. QED
        BY <1>6, <3>2, <4>1 DEF Share
    <3>3. QED
      BY <3>1, <3>2
  <2>2. QED
    BY <2>1
<1>9. TotalsExact'
  BY <1>2, <1>8, TotalsStay DEF totals
<1>10. QED
  BY <1>1, <1>2, <1>5, <1>6, <1>7, <1>9, QuietStep

\* Each charge adds one share to the key's total and each mirror one to the metrics'.
LEMMA PayStep ==
  ASSUME IInv, NEW s \in Streams, Charge(s) \/ Mirror(s)
  PROVE  IInv'
<1>1. UNCHANGED <<script, sent, body, garbled, accum, taken, late>>
  BY DEF Charge, Mirror, stream
<1>2. TypeOK /\ TakenLate /\ TotalsExact
  BY DEF IInv
<1>3. \/ /\ watch[s] = "charge" /\ watch' = [watch EXCEPT ![s] = "mirror"]
         /\ charged' = Plus(charged, taken[s]) /\ mirrored' = mirrored
      \/ /\ watch[s] = "mirror" /\ watch' = [watch EXCEPT ![s] = "over"]
         /\ mirrored' = Plus(mirrored, taken[s]) /\ charged' = charged
  BY DEF Charge, Mirror, AfterMirror
<1>4. \A f \in Fields : taken[s][f] \in Nat /\ charged[f] \in Nat /\ mirrored[f] \in Nat
  BY <1>2, StreamAssumption DEF TypeOK, Amounts
<1>5. Plus(charged, taken[s]) \in [Fields -> Nat] /\ Plus(mirrored, taken[s]) \in [Fields -> Nat]
  BY <1>4 DEF Plus
<1>6. TypeOK'
  <2>1. watch' \in [Streams -> {"none", "polling", "take", "charge", "mirror", "over"}]
    BY <1>2, <1>3 DEF TypeOK
  <2>2. charged' \in [Fields -> Nat] /\ mirrored' \in [Fields -> Nat]
    BY <1>2, <1>3, <1>5 DEF TypeOK
  <2>3. QED
    BY <1>1, <1>2, <2>1, <2>2 DEF TypeOK
<1>7. \A t \in Streams : t # s => watch'[t] = watch[t]
  BY <1>2, <1>3 DEF TypeOK
<1>8. TakenLate'
  <2>1. watch'[s] \in {"mirror", "over"} /\ body[s] # "none"
    BY <1>2, <1>3 DEF TypeOK, TakenLate
  <2>2. QED
    BY <1>1, <1>2, <1>7, <2>1 DEF TakenLate
<1>9. ASSUME NEW W \in {{"mirror", "over"}, {"over"}}, NEW f \in Fields
      PROVE  SumFunctionOnSet(Share(W, f)', Streams)
               = SumFunctionOnSet(Share(W, f), Streams) - Share(W, f)[s] + Share(W, f)'[s]
  <2>1. \A t \in Streams : t # s => Share(W, f)'[t] = Share(W, f)[t]
    BY <1>1, <1>7 DEF Share
  <2>2. \A t \in Streams : Share(W, f)[t] \in Nat
    BY <1>2, ShareType
  <2>3. \A t \in Streams : Share(W, f)'[t] \in Nat
    <3>1. \A t \in Streams : taken'[t][f] \in Nat
      BY <1>6, StreamAssumption DEF TypeOK, Amounts
    <3>2. QED
      BY <3>1 DEF Share
  <2>4. QED
    BY <2>1, <2>2, <2>3, SumChanged, StreamAssumption
<1>10. ASSUME NEW f \in Fields
       PROVE  /\ charged'[f] = SumFunctionOnSet(Share({"mirror", "over"}, f)', Streams)
              /\ mirrored'[f] = SumFunctionOnSet(Share({"over"}, f)', Streams)
  <2>1. /\ charged[f] = SumFunctionOnSet(Share({"mirror", "over"}, f), Streams)
        /\ mirrored[f] = SumFunctionOnSet(Share({"over"}, f), Streams)
    BY <1>2 DEF TotalsExact
  <2>2. /\ SumFunctionOnSet(Share({"mirror", "over"}, f)', Streams)
             = charged[f] - Share({"mirror", "over"}, f)[s] + Share({"mirror", "over"}, f)'[s]
        /\ SumFunctionOnSet(Share({"over"}, f)', Streams)
             = mirrored[f] - Share({"over"}, f)[s] + Share({"over"}, f)'[s]
    BY <1>9, <2>1
  <2>3. CASE /\ watch[s] = "charge" /\ watch' = [watch EXCEPT ![s] = "mirror"]
             /\ charged' = Plus(charged, taken[s]) /\ mirrored' = mirrored
    <3>1. watch'[s] = "mirror"
      BY <1>2, <2>3 DEF TypeOK
    <3>2. /\ Share({"mirror", "over"}, f)[s] = 0
          /\ Share({"mirror", "over"}, f)'[s] = taken[s][f]
          /\ Share({"over"}, f)[s] = 0 /\ Share({"over"}, f)'[s] = 0
      BY <1>1, <2>3, <3>1 DEF Share
    <3>3. charged'[f] = charged[f] + taken[s][f]
      BY <2>3 DEF Plus
    <3>4. QED
      BY <1>4, <2>2, <2>3, <3>2, <3>3
  <2>4. CASE /\ watch[s] = "mirror" /\ watch' = [watch EXCEPT ![s] = "over"]
             /\ mirrored' = Plus(mirrored, taken[s]) /\ charged' = charged
    <3>1. watch'[s] = "over"
      BY <1>2, <2>4 DEF TypeOK
    <3>2. /\ Share({"mirror", "over"}, f)[s] = taken[s][f]
          /\ Share({"mirror", "over"}, f)'[s] = taken[s][f]
          /\ Share({"over"}, f)[s] = 0 /\ Share({"over"}, f)'[s] = taken[s][f]
      BY <1>1, <2>4, <3>1 DEF Share
    <3>3. mirrored'[f] = mirrored[f] + taken[s][f]
      BY <2>4 DEF Plus
    <3>4. QED
      BY <1>4, <2>2, <2>4, <3>2, <3>3
  <2>5. QED
    BY <1>3, <2>3, <2>4
<1>11. TotalsExact'
  BY <1>10 DEF TotalsExact
<1>12. QED
  BY <1>1, <1>6, <1>8, <1>11, QuietStep

-----------------------------------------------------------------------------
\* IInv is inductive.
LEMMA NextKeepsIInv == IInv /\ [Next]_vars => IInv'
<1> SUFFICES ASSUME IInv, [Next]_vars PROVE IInv'
  OBVIOUS
<1>1. CASE UNCHANGED vars
  <2>1. UNCHANGED <<script, sent, body, garbled, accum, watch, taken, late, charged, mirrored>>
    BY <1>1 DEF vars, stream, task, totals
  <2>2. TypeOK' /\ TakenLate'
    BY <2>1 DEF IInv, TypeOK, TakenLate
  <2>3. TotalsExact'
    BY <2>1, TotalsStay DEF Share, totals
  <2>4. QED
    BY <2>1, <2>2, <2>3, QuietStep
<1>2. CASE Next
  <2>1. PICK s \in Streams : Answer(s) \/ Body(s) \/ Expire(s) \/ Watcher(s)
    BY <1>2 DEF Next
  <2>2. CASE Chunk(s)
    BY <2>2, ChunkStep
  <2>3. CASE End(s)
    BY <2>3, EndStep, GarbledEndStep
  <2>4. CASE Answer(s) \/ Cut(s) \/ Look(s) \/ Expire(s) \/ GiveUp(s)
    BY <2>4, IdleStep
  <2>5. CASE Take(s)
    BY <2>5, TakeStep
  <2>6. CASE Charge(s) \/ Mirror(s)
    BY <2>6, PayStep
  <2>7. QED
    BY <2>1, <2>2, <2>3, <2>4, <2>5, <2>6 DEF Body, Watcher
<1>3. QED
  BY <1>1, <1>2

\* At the start nothing has been read, taken or added.
LEMMA InitIInv == Init => IInv
<1> SUFFICES ASSUME Init PROVE IInv
  OBVIOUS
<1>1. Zero \in Amounts /\ Zero \in [Fields -> Nat] /\ \A f \in Fields : Zero[f] = 0
  BY StreamAssumption DEF Zero, Amounts
<1>2. TypeOK
  BY <1>1 DEF Init, TypeOK
<1>3. ASSUME NEW s \in Streams PROVE Bounded(s)
  <2>1. script[s] \in Scripts /\ sent[s] = 0
    BY DEF Init
  <2>2. Len(script[s]) \in Nat
    BY <2>1, StreamAssumption
  <2>3. sent[s] <= Len(script[s])
    BY <2>1, <2>2
  <2>4. IsPeak(Reported(s), Zero, script[s], 1 .. sent[s])
    BY <1>2, <2>3, ReportedIsPeak
  <2>5. Within(Zero, Reported(s))
    BY <2>4 DEF IsPeak, Within
  <2>6. accum[s] = {} /\ taken[s] = Zero
    BY DEF Init
  <2>7. QED
    BY <2>3, <2>5, <2>6 DEF Bounded
<1>4. TakenLate /\ DrainedIsComplete
  BY DEF Init, TakenLate, DrainedIsComplete
<1>5. ASSUME NEW f \in Fields, NEW W \in {{"mirror", "over"}, {"over"}}
      PROVE  SumFunctionOnSet(Share(W, f), Streams) = 0
  <2>1. \A s \in Streams : Share(W, f)[s] = 0
    BY DEF Init, Share
  <2>2. QED
    BY <2>1, SumOfZeros, StreamAssumption
<1>6. TotalsExact
  BY <1>1, <1>5 DEF Init, TotalsExact
<1>7. QED
  BY <1>2, <1>3, <1>4, <1>6 DEF IInv

LEMMA Invariance == Spec => []IInv
BY InitIInv, NextKeepsIInv, PTL DEF Spec

\* The variables keep their types.
THEOREM TypeCorrect == Spec => []TypeOK
<1>1. IInv => TypeOK
  BY DEF IInv
<1>2. QED
  BY <1>1, Invariance, PTL

\* A stream that was read to its end, in valid UTF-8 as a whole, has everything the
\* upstream reported, and has nothing when it reported nothing: the extraction over
\* the whole buffer at the end makes up for chunks that could not be read on their
\* own.
THEOREM CompleteWhenDrained == Spec => []DrainedIsComplete
<1>1. IInv => DrainedIsComplete
  BY DEF IInv
<1>2. QED
  BY <1>1, Invariance, PTL

\* The metrics hold no more tokens than were charged, and no more tokens are
\* charged than the upstreams have reported: reading events again, when a body
\* ends, does not count them again.
THEOREM NothingOvercharged == Spec => []NeverOvercharged
<1>1. IInv => NeverOvercharged
  <2> SUFFICES ASSUME IInv, NEW f \in Fields
               PROVE  /\ mirrored[f] <= charged[f]
                      /\ charged[f] <= SumFunction([s \in Streams |-> Reported(s)[f]])
    BY DEF NeverOvercharged
  <2> DEFINE reported == [s \in Streams |-> Reported(s)[f]]
  <2>1. TypeOK
    BY DEF IInv
  <2>2. /\ charged[f] = SumFunctionOnSet(Share({"mirror", "over"}, f), Streams)
        /\ mirrored[f] = SumFunctionOnSet(Share({"over"}, f), Streams)
    BY DEF IInv, TotalsExact
  <2>3. \A s \in Streams : taken[s][f] \in Nat
    BY <2>1, StreamAssumption DEF TypeOK, Amounts
  <2>4. \A W : \A s \in Streams : Share(W, f)[s] = IF watch[s] \in W THEN taken[s][f] ELSE 0
    BY DEF Share
  <2>5. ASSUME NEW s \in Streams
        PROVE  reported[s] \in Nat /\ taken[s][f] <= reported[s]
    <3>1. Bounded(s)
      BY DEF IInv
    <3>2. IsPeak(Reported(s), Zero, script[s], 1 .. sent[s])
      BY <2>1, <3>1, ReportedIsPeak DEF Bounded
    <3>3. Reported(s)[f] \in Nat
      BY <3>2, StreamAssumption DEF IsPeak, Amounts
    <3>4. QED
      BY <3>1, <3>3 DEF Bounded, Within
  <2>6. mirrored[f] <= charged[f]
    <3>1. \A s \in Streams :
            /\ Share({"over"}, f)[s] \in Nat /\ Share({"mirror", "over"}, f)[s] \in Nat
            /\ Share({"over"}, f)[s] <= Share({"mirror", "over"}, f)[s]
      BY <2>3, <2>4
    <3>2. QED
      BY <2>2, <3>1, SumMonotone, StreamAssumption
  <2>7. charged[f] <= SumFunctionOnSet(reported, Streams)
    <3>1. \A s \in Streams :
            /\ Share({"mirror", "over"}, f)[s] \in Nat
            /\ Share({"mirror", "over"}, f)[s] <= reported[s]
      BY <2>3, <2>4, <2>5
    <3> HIDE DEF reported
    <3>2. QED
      BY <2>2, <2>5, <3>1, SumMonotone, StreamAssumption
  <2>8. SumFunction(reported) = SumFunctionOnSet(reported, Streams)
    <3>1. DOMAIN reported = Streams
      OBVIOUS
    <3> HIDE DEF reported
    <3>2. QED
      BY <3>1 DEF SumFunction
  <2>9. QED
    BY <2>6, <2>7, <2>8
<1>2. QED
  BY <1>1, Invariance, PTL

-----------------------------------------------------------------------------
\* The instants of the last minute, by how long ago they are.
Ages == 0 .. Minute - 1
Histories == [Ages -> Nat]

\* Time moves a history by one.
Older(h, g) == \A a \in Ages : g[a] = IF a = 0 THEN 0 ELSE h[a - 1]

\* Calls let through at most n, less than n, and more than n instants ago.
Upto(n) == SumFunctionOnSet(recent, {a \in Ages : a <= n})
Before(n) == SumFunctionOnSet(recent, {a \in Ages : a < n})
After(n) == SumFunctionOnSet(recent, {a \in Ages : a > n})

\* How many records there have been, and which ones requests and the loader have.
Numbered ==
  /\ live - reloads <= MaxRestarts + 1
  /\ \A r \in Requests : rec[r] <= live /\ (at[r] = "check" => rec[r] # None)
  /\ loader # "idle" => live > 1

\* The first record: its count covers what its window has let through.  The call
\* that opened a window is counted, and by the time the window has ended that
\* call is more than a minute old; so less than a quota is left of a window when
\* the next one begins.
Steady ==
  LET w == usage[1] IN
  live = 1 =>
    /\ Upto(w.age) <= w.count
    /\ Before(w.age) < w.count \/ (w.count = 0 /\ w.age > Minute)
    /\ After(w.age) < Limit
    /\ w.age > Minute => recent[0] = 0

RpmInv == RpmTypeOK /\ Numbered /\ Steady

-----------------------------------------------------------------------------
\* The bounds are numbers, and a minute is not empty.
LEMMA Numbers ==
  /\ Limit \in Nat /\ Limit > 0 /\ Seconds \in Nat /\ Seconds > 0 /\ Ticks \in Nat /\ Ticks > 0
  /\ Minute \in Nat /\ Minute > 0
  /\ MaxReloads \in Nat /\ MaxRestarts \in Nat /\ MaxLost \in Nat
<1>1. Limit \in Nat /\ Limit > 0 /\ Seconds \in Nat /\ Seconds > 0 /\ Ticks \in Nat /\ Ticks > 0
  BY RpmAssumption
<1>2. Seconds * Ticks \in Nat /\ Seconds * Ticks > 0
  BY <1>1
<1>3. QED
  BY <1>1, <1>2, RpmAssumption DEF Minute

LEMMA AgesFinite == IsFiniteSet(Ages) /\ 0 \in Ages /\ Ages \subseteq Nat
<1>1. 0 \in Int /\ Minute - 1 \in Int /\ 0 <= Minute - 1
  BY Numbers
<1>2. IsFiniteSet(0 .. Minute - 1)
  BY <1>1, FS_Interval
<1>3. QED
  BY <1>1, <1>2 DEF Ages

\* What the code does to a window leaves a window.
LEMMA MemoryWindows ==
  ASSUME NEW w \in Windows(0 .. Minute + 1)
  PROVE  /\ Counted(w) \in Windows(0 .. Minute + 1)
         /\ [w EXCEPT !.age = AtMost(@ + 1, Minute + 1)] \in Windows(0 .. Minute + 1)
<1>1. w.age \in 0 .. Minute + 1 /\ w.count \in 0 .. Limit
  BY DEF Windows
<1>2. Current(w) \in Windows(0 .. Minute + 1)
  BY Numbers DEF Current, Windows, Window
<1>3. AtMost(Current(w).count + 1, Limit) \in 0 .. Limit
  <2>1. Current(w).count \in 0 .. Limit
    BY <1>2 DEF Windows
  <2>2. QED
    BY <2>1, Numbers DEF AtMost
<1>4. AtMost(w.age + 1, Minute + 1) \in 0 .. Minute + 1
  BY <1>1, Numbers DEF AtMost
<1>5. QED
  BY <1>2, <1>3, <1>4 DEF Counted, Windows

LEMMA RowWindows ==
  ASSUME NEW w \in Windows(0 .. Seconds + 1), NEW p \in 0 .. Ticks - 1
  PROVE  /\ Saved(w) \in Windows(0 .. Seconds + 1)
         /\ \A second \in {0, 1} : Aged(w, second) \in Windows(0 .. Seconds + 1)
         /\ AtMost(w.age * Ticks + p, Minute + 1) \in 0 .. Minute + 1
         /\ w.count \in 0 .. Limit
<1>1. w.age \in 0 .. Seconds + 1 /\ w.count \in 0 .. Limit
  BY DEF Windows
<1>2. Saved(w) \in Windows(0 .. Seconds + 1)
  <2>1. AtMost(w.count + 1, Limit) \in 0 .. Limit
    BY <1>1, Numbers DEF AtMost
  <2>2. 0 \in 0 .. Seconds + 1 /\ 1 \in 0 .. Limit
    BY Numbers
  <2>3. QED
    BY <2>1, <2>2 DEF Saved, Window, Windows
<1>3. ASSUME NEW second \in {0, 1} PROVE Aged(w, second) \in Windows(0 .. Seconds + 1)
  <2>1. AtMost(w.age + second, Seconds + 1) \in 0 .. Seconds + 1
    BY <1>1, Numbers DEF AtMost
  <2>2. QED
    BY <2>1 DEF Aged, Windows
<1>4. AtMost(w.age * Ticks + p, Minute + 1) \in 0 .. Minute + 1
  <2>1. w.age * Ticks \in Nat
    BY <1>1, Numbers
  <2>2. QED
    BY <2>1, Numbers DEF AtMost
<1>5. QED
  BY <1>1, <1>2, <1>3, <1>4

LEMMA FirstWindows ==
  /\ Unused \in Windows(0 .. Minute + 1) /\ Window(0, 0) \in Windows(0 .. Minute + 1)
  /\ NoRow \in Windows(0 .. Seconds + 1)
BY Numbers DEF Unused, NoRow, Window, Windows

\* What the model does to a history leaves a history.
LEMMA HistoryTypes ==
  ASSUME NEW h \in Histories
  PROVE  /\ Later(h) \in Histories /\ Older(h, Later(h))
         /\ OneMore(h) \in Histories /\ OneMore(h) = [h EXCEPT ![0] = @ + 1]
<1>1. Later(h) = [a \in Ages |-> IF a = 0 THEN 0 ELSE h[a - 1]]
  BY DEF Later, Histories
<1>2. \A a \in Ages : a # 0 => a - 1 \in Ages
  BY Numbers DEF Ages
<1>3. Later(h) \in Histories /\ Older(h, Later(h))
  BY <1>1, <1>2 DEF Histories, Older
<1>4. OneMore(h) \in Histories /\ OneMore(h) = [h EXCEPT ![0] = @ + 1]
  BY AgesFinite DEF OneMore, Histories
<1>5. QED
  BY <1>3, <1>4

LEMMA RpmHistories ==
  ASSUME RpmTypeOK
  PROVE  recent \in Histories /\ anew \in [1 .. MaxReloads -> Histories]
BY DEF RpmTypeOK, Histories, Ages

-----------------------------------------------------------------------------
\* Time, and the calls: no record is made.
LEMMA TickTypes ==
  ASSUME RpmTypeOK, Numbered, Tick
  PROVE  RpmTypeOK' /\ Numbered'
<1> DEFINE second == IF phase + 1 = Ticks THEN 1 ELSE 0
<1>1. usage' \in [Records -> Windows(0 .. Minute + 1)]
  BY MemoryWindows, FirstWindows DEF RpmTypeOK, Tick
<1>2. row' \in Windows(0 .. Seconds + 1) /\ copy' \in Windows(0 .. Seconds + 1)
  <2>1. second \in {0, 1} /\ row' = Aged(row, second) /\ copy' = Aged(copy, second)
    BY DEF Tick
  <2>2. row \in Windows(0 .. Seconds + 1) /\ copy \in Windows(0 .. Seconds + 1)
        /\ phase \in 0 .. Ticks - 1
    BY DEF RpmTypeOK
  <2> HIDE DEF second
  <2>3. QED
    BY <2>1, <2>2, RowWindows
<1>3. phase' \in 0 .. Ticks - 1
  <2>1. phase \in 0 .. Ticks - 1 /\ phase' = (phase + 1) % Ticks
    BY DEF RpmTypeOK, Tick
  <2>2. QED
    BY <2>1, Numbers
<1>4. recent' \in Histories /\ anew' \in [1 .. MaxReloads -> Histories]
  <2>1. recent \in Histories /\ anew \in [1 .. MaxReloads -> Histories]
    BY RpmHistories
  <2>2. recent' = Later(recent) /\ anew' = [n \in 1 .. MaxReloads |-> Later(anew[n])]
    BY DEF Tick
  <2>3. QED
    BY <2>1, <2>2, HistoryTypes
<1>5. UNCHANGED <<live, at, rec, loader, first, reloads, lost>>
  BY DEF Tick, clients
<1>6. QED
  BY <1>1, <1>2, <1>3, <1>4, <1>5 DEF RpmTypeOK, Numbered, Histories, Ages

\* A call keeps the types and its record.
LEMMA CallTypes ==
  ASSUME RpmTypeOK, Numbered, NEW r \in Requests, Request(r)
  PROVE  RpmTypeOK' /\ Numbered'
<1>1. live \in 1 .. MaxReloads + MaxRestarts + 1 /\ live \in Nat
  BY Numbers DEF RpmTypeOK, Records
<1>2. CASE Lookup(r)
  <2>1. rec' = [rec EXCEPT ![r] = live] /\ at' = [at EXCEPT ![r] = "check"]
        /\ UNCHANGED <<usage, live, row, phase, loader, copy, recent, anew, first, reloads, lost>>
    BY <1>2 DEF Lookup, Go, reload, history, counted
  <2>2. rec' \in [Requests -> Records \cup {None}]
        /\ at' \in [Requests -> {"new", "check", "save"}]
    BY <2>1 DEF RpmTypeOK
  <2>3. RpmTypeOK'
    BY <2>1, <2>2 DEF RpmTypeOK
  <2>4. \A q \in Requests : rec'[q] <= live /\ (at'[q] = "check" => rec'[q] # None)
    BY <1>1, <2>1 DEF RpmTypeOK, Numbered, None
  <2>5. QED
    BY <2>1, <2>3, <2>4 DEF Numbered
<1>3. CASE RefuseRpm(r) \/ RefuseOtherwise(r) \/ Admit(r)
  <2>1. /\ usage' = [usage EXCEPT ![rec[r]] = Counted(@)] /\ rec' = [rec EXCEPT ![r] = None]
        /\ UNCHANGED <<live, row, phase, loader, copy, first, reloads, lost>>
    BY <1>3 DEF RefuseRpm, RefuseOtherwise, Admit, Check, reload, history
  <2>2. PICK p \in {"new", "save"} : at' = [at EXCEPT ![r] = p]
    BY <1>3 DEF RefuseRpm, RefuseOtherwise, Admit, Go
  <2>3. recent' \in Histories /\ anew' \in [1 .. MaxReloads -> Histories]
    <3>1. /\ recent' = recent \/ recent' = OneMore(recent)
          /\ anew' = anew \/ anew' = [anew EXCEPT ![Reloaded(rec[r])] = OneMore(@)]
      BY <1>3 DEF RefuseRpm, RefuseOtherwise, Admit, Count, history, counted
    <3>2. recent \in Histories /\ anew \in [1 .. MaxReloads -> Histories]
      BY RpmHistories
    <3>3. QED
      BY <3>1, <3>2, HistoryTypes
  <2>4. usage' \in [Records -> Windows(0 .. Minute + 1)]
    <3>1. \A k \in Records : Counted(usage[k]) \in Windows(0 .. Minute + 1)
      BY MemoryWindows DEF RpmTypeOK
    <3>2. QED
      BY <2>1, <3>1 DEF RpmTypeOK
  <2>5. recent' \in [0 .. Minute - 1 -> Nat]
        /\ anew' \in [1 .. MaxReloads -> [0 .. Minute - 1 -> Nat]]
    BY <2>3 DEF Histories, Ages
  <2>6. rec' \in [Requests -> Records \cup {None}]
        /\ at' \in [Requests -> {"new", "check", "save"}]
    BY <2>1, <2>2 DEF RpmTypeOK
  <2>7. RpmTypeOK'
    BY <2>1, <2>4, <2>5, <2>6 DEF RpmTypeOK
  <2>8. \A q \in Requests : rec'[q] <= live /\ (at'[q] = "check" => rec'[q] # None)
    BY <1>1, <2>1, <2>2 DEF RpmTypeOK, Numbered, None
  <2>9. QED
    BY <2>1, <2>7, <2>8 DEF Numbered
<1>4. CASE Save(r) \/ SaveFails(r)
  <2>1. at' = [at EXCEPT ![r] = "new"]
        /\ UNCHANGED <<usage, live, phase, rec, loader, copy, recent, anew, first, reloads>>
    BY <1>4 DEF Save, SaveFails, Go, reload, history, counted
  <2>2. row' \in Windows(0 .. Seconds + 1)
    BY <1>4, RowWindows DEF Save, SaveFails, RpmTypeOK
  <2>3. lost' \in 0 .. MaxLost
    BY <1>4, Numbers DEF Save, SaveFails, RpmTypeOK, history
  <2>4. at' \in [Requests -> {"new", "check", "save"}]
    BY <2>1 DEF RpmTypeOK
  <2>5. RpmTypeOK'
    BY <2>1, <2>2, <2>3, <2>4 DEF RpmTypeOK
  <2>6. \A q \in Requests : at'[q] = "check" => at[q] = "check"
    BY <2>1 DEF RpmTypeOK
  <2>7. QED
    BY <2>1, <2>5, <2>6 DEF Numbered
<1>5. QED
  BY <1>2, <1>3, <1>4 DEF Request

\* Reloads and restarts.
LEMMA ReloadTypes ==
  ASSUME RpmTypeOK, Numbered, Reload
  PROVE  RpmTypeOK' /\ Numbered'
<1>1. live \in 1 .. MaxReloads + MaxRestarts + 1 /\ live \in Nat /\ reloads \in Nat
  BY Numbers DEF RpmTypeOK, Records
<1>2. UNCHANGED <<row, phase, at, rec, recent, anew, first, lost>>
  BY DEF Reload, ReplaceRecords, ReadRow, RestoreCount, RestoreStart, clients, history, counted
<1>3. usage' \in [Records -> Windows(0 .. Minute + 1)]
  <2>1. CASE ReplaceRecords
    BY <2>1, FirstWindows DEF ReplaceRecords, RpmTypeOK
  <2>2. CASE ReadRow
    BY <2>2 DEF ReadRow, RpmTypeOK
  <2>3. CASE RestoreCount
    <3>1. copy.count \in 0 .. Limit
      BY DEF RpmTypeOK, Windows
    <3>2. \A w \in Windows(0 .. Minute + 1) :
            [w EXCEPT !.count = copy.count] \in Windows(0 .. Minute + 1)
      BY <3>1 DEF Windows
    <3>3. usage' = [usage EXCEPT ![live] = [usage[live] EXCEPT !.count = copy.count]]
      BY <2>3 DEF RestoreCount
    <3>4. QED
      BY <3>2, <3>3 DEF RpmTypeOK
  <2>4. CASE RestoreStart
    <3>1. Restored(copy).age \in 0 .. Minute + 1
      BY RowWindows DEF Restored, Window, RpmTypeOK
    <3>2. \A w \in Windows(0 .. Minute + 1) :
            [w EXCEPT !.age = Restored(copy).age] \in Windows(0 .. Minute + 1)
      BY <3>1 DEF Windows
    <3>3. usage' = [usage EXCEPT ![live] = [usage[live] EXCEPT !.age = Restored(copy).age]]
      BY <2>4 DEF RestoreStart
    <3>4. QED
      BY <3>2, <3>3 DEF RpmTypeOK
  <2>5. QED
    BY <2>1, <2>2, <2>3, <2>4 DEF Reload
<1>4. copy' \in Windows(0 .. Seconds + 1) /\ loader' \in {"idle", "row", "count", "start"}
  BY FirstWindows DEF Reload, ReplaceRecords, ReadRow, RestoreCount, RestoreStart, RpmTypeOK
<1>5. CASE live' = live /\ reloads' = reloads /\ loader # "idle"
  BY <1>2, <1>3, <1>4, <1>5 DEF RpmTypeOK, Numbered
<1>6. CASE live' = live + 1 /\ reloads' = reloads + 1 /\ reloads < MaxReloads
  <2>1. live' \in Records /\ reloads' \in 0 .. MaxReloads
    BY <1>1, <1>6, Numbers DEF Records, Numbered
  <2>2. RpmTypeOK'
    BY <1>2, <1>3, <1>4, <2>1 DEF RpmTypeOK
  <2>3. live' - reloads' <= MaxRestarts + 1 /\ live' > 1
    BY <1>1, <1>6, Numbers DEF Numbered
  <2>4. \A r \in Requests : rec[r] <= live'
    <3>1. \A r \in Requests : rec[r] \in Nat /\ rec[r] <= live
      BY DEF RpmTypeOK, Numbered, Records, None
    <3>2. QED
      BY <1>1, <1>6, <3>1
  <2>5. QED
    BY <1>2, <2>2, <2>3, <2>4 DEF Numbered
<1>7. QED
  BY <1>5, <1>6 DEF Reload, ReplaceRecords, ReadRow, RestoreCount, RestoreStart, history

\* A restart makes one more record.
LEMMA RestartTypes ==
  ASSUME RpmTypeOK, Numbered, Restart
  PROVE  RpmTypeOK' /\ Numbered'
<1>1. live \in 1 .. MaxReloads + MaxRestarts + 1 /\ live \in Nat /\ reloads \in Nat
      /\ reloads \in 0 .. MaxReloads
  BY Numbers DEF RpmTypeOK, Records
<1>2. /\ live - reloads <= MaxRestarts /\ lost + Cardinality(Unsaved) <= MaxLost
      /\ live' = live + 1 /\ first' = live + 1 /\ usage' = [usage EXCEPT ![live + 1] = AtStart]
      /\ at' = [r \in Requests |-> "new"] /\ rec' = [r \in Requests |-> None]
      /\ loader' = "idle" /\ copy' = NoRow /\ lost' = lost + Cardinality(Unsaved)
      /\ UNCHANGED <<row, phase, recent, anew, reloads>>
  BY DEF Restart, counted
<1>3. AtStart \in Windows(0 .. Minute + 1)
  BY RowWindows DEF AtStart, Restored, Window, Windows, RpmTypeOK
<1>4. usage' \in [Records -> Windows(0 .. Minute + 1)]
  BY <1>2, <1>3 DEF RpmTypeOK
<1>5. lost' \in 0 .. MaxLost
  <2>1. Cardinality(Unsaved) \in Nat
    <3>1. Unsaved \subseteq Requests /\ IsFiniteSet(Requests)
      BY RpmAssumption DEF Unsaved
    <3>2. QED
      BY <3>1, FS_Subset, FS_CardinalityType
  <2>2. lost \in Nat /\ MaxLost \in Nat
    BY RpmAssumption DEF RpmTypeOK, RpmAssumption
  <2>3. lost + Cardinality(Unsaved) <= MaxLost
    BY DEF Restart
  <2>4. QED
    BY <1>2, <2>1, <2>2, <2>3
<1>6. live' \in Records /\ first' \in Records
  BY <1>1, <1>2, Numbers DEF Records
<1>7. copy' \in Windows(0 .. Seconds + 1)
  BY <1>2, FirstWindows
<1>8. RpmTypeOK'
  BY <1>2, <1>4, <1>5, <1>6, <1>7 DEF RpmTypeOK
<1>9. live' - reloads' <= MaxRestarts + 1 /\ \A r \in Requests : rec'[r] <= live'
  BY <1>1, <1>2, Numbers DEF None
<1>10. QED
  BY <1>2, <1>8, <1>9 DEF Numbered

-----------------------------------------------------------------------------
\* Sums of the history.
LEMMA HistorySums ==
  ASSUME RpmTypeOK, NEW S \in SUBSET Ages
  PROVE  /\ SumFunctionOnSet(recent, S) \in Nat
         /\ SumFunctionOnSet(recent, S) <= SumFunction(recent)
         /\ IsFiniteSet(S) /\ \A a \in Ages : recent[a] \in Nat
<1>1. recent \in [Ages -> Nat] /\ DOMAIN recent = Ages /\ IsFiniteSet(Ages)
  BY AgesFinite DEF RpmTypeOK, Ages
<1>2. IsFiniteSet(S)
  BY <1>1, FS_Subset
<1>3. SumFunctionOnSet(recent, S) \in Nat
  BY <1>1, <1>2, SumType
<1>4. SumFunctionOnSet(recent, S) <= SumFunctionOnSet(recent, Ages)
  <2>1. \A a \in Ages : recent[a] \in Nat /\ recent[a] <= recent[a]
    BY <1>1
  <2>2. QED
    BY <1>1, <2>1, SumMonotone
<1>5. SumFunction(recent) = SumFunctionOnSet(recent, Ages)
  BY <1>1 DEF SumFunction
<1>6. QED
  BY <1>1, <1>2, <1>3, <1>4, <1>5

\* When time passes the history moves by one.
LEMMA Shifted ==
  ASSUME NEW f \in [Ages -> Nat], NEW g \in [Ages -> Nat],
         \A a \in Ages : g[a] = IF a = 0 THEN 0 ELSE f[a - 1],
         NEW S \in SUBSET Ages, NEW T \in SUBSET Ages, \A a \in T : a # 0 => a - 1 \in S
  PROVE  SumFunctionOnSet(g, T) <= SumFunctionOnSet(f, S)
<1> DEFINE U == T \ {0}
           to == [a \in U |-> a - 1]
<1>1. IsFiniteSet(T) /\ IsFiniteSet(U) /\ IsFiniteSet(S)
  BY AgesFinite, FS_Subset
<1>2. SumFunctionOnSet(g, T) = SumFunctionOnSet(g, U)
  <2>1. CASE 0 \in T
    <3>1. SumFunctionOnSet(g, T) = g[0] + SumFunctionOnSet(g, U)
      BY <1>1, <2>1, SumOneMore
    <3>2. g[0] = 0 /\ SumFunctionOnSet(g, U) \in Nat
      BY <1>1, <2>1, SumType
    <3>3. QED
      BY <3>1, <3>2
  <2>2. CASE 0 \notin T
    <3>1. U = T
      BY <2>2
    <3>2. QED
      BY <3>1
  <2>3. QED
    BY <2>1, <2>2
<1>3. to \in [U -> S] /\ \A a \in U : g[a] \in Nat /\ g[a] <= f[to[a]]
  <2>1. \A a \in U : a - 1 \in S /\ a \in Ages
    OBVIOUS
  <2>2. \A a \in U : g[a] = f[a - 1] /\ g[a] \in Nat
    BY <2>1
  <2>3. QED
    BY <2>1, <2>2
<1>4. \A a, b \in U : to[a] = to[b] => a = b
  BY AgesFinite
<1>5. \A a \in S : f[a] \in Nat
  OBVIOUS
<1>6. SumFunctionOnSet(g, U) <= SumFunctionOnSet(f, S)
  <2> HIDE DEF to, U
  <2>1. QED
    BY <1>1, <1>3, <1>4, <1>5, SumMapped
<1>7. QED
  BY <1>2, <1>6

\* A call let through now adds one to the sums that reach to now.
LEMMA AddedNow ==
  ASSUME NEW f \in [Ages -> Nat], NEW S \in SUBSET Ages
  PROVE  SumFunctionOnSet([f EXCEPT ![0] = @ + 1], S)
           = SumFunctionOnSet(f, S) + IF 0 \in S THEN 1 ELSE 0
<1> DEFINE g == [f EXCEPT ![0] = @ + 1]
<1>1. g \in [Ages -> Nat] /\ g[0] = f[0] + 1 /\ \A a \in Ages : a # 0 => g[a] = f[a]
  BY AgesFinite
<1>2. IsFiniteSet(S) /\ SumFunctionOnSet(f, S) \in Nat
  BY AgesFinite, FS_Subset, SumType
<1> HIDE DEF g
<1>3. CASE 0 \in S
  <2>1. SumFunctionOnSet(g, S) = SumFunctionOnSet(f, S) - f[0] + g[0]
    BY <1>1, <1>2, <1>3, SumChanged
  <2>2. f[0] \in Nat
    BY <1>3
  <2>3. QED
    BY <1>1, <1>2, <1>3, <2>1, <2>2 DEF g
<1>4. CASE 0 \notin S
  <2>1. \A a \in S : f[a] \in Nat /\ g[a] = f[a]
    BY <1>1, <1>4
  <2>2. SumFunctionOnSet(g, S) = SumFunctionOnSet(f, S)
    BY <1>2, <2>1, SumSame
  <2>3. QED
    BY <1>2, <1>4, <2>2 DEF g
<1>5. QED
  BY <1>3, <1>4

-----------------------------------------------------------------------------
\* Time takes nothing into the window that runs, and moves nothing out of the past.
LEMMA TickSteady ==
  ASSUME RpmInv, RpmTypeOK', Tick
  PROVE  Steady'
<1> SUFFICES ASSUME live' = 1 PROVE Steady'
  BY DEF Steady
<1> DEFINE A == usage[1].age
<1>1. live = 1 /\ live \in Records /\ Held(1)
  BY DEF Tick, RpmInv, RpmTypeOK, Held
<1>2. A \in 0 .. Minute + 1
  BY <1>1 DEF RpmInv, RpmTypeOK, Windows
<1>3. usage'[1].age = AtMost(A + 1, Minute + 1) /\ usage'[1].count = usage[1].count
  BY <1>1 DEF RpmInv, RpmTypeOK, Tick, Windows
<1>4. recent \in [Ages -> Nat] /\ recent' \in [Ages -> Nat]
  BY DEF RpmInv, RpmTypeOK, Ages
<1>5. \A a \in Ages : recent'[a] = IF a = 0 THEN 0 ELSE recent[a - 1]
  BY <1>4 DEF Tick, Later
<1> DEFINE B == usage'[1].age
<1>6. B \in 0 .. Minute + 1 /\ B <= A + 1 /\ (B = A + 1 \/ (A = Minute + 1 /\ B = Minute + 1))
  BY <1>2, <1>3, Numbers DEF AtMost
<1> HIDE DEF A, B
<1>7. \A a \in Ages : a # 0 => a - 1 \in Ages
  BY Numbers DEF Ages
<1>8. SumFunctionOnSet(recent', {a \in Ages : a <= B}) <= Upto(A)
  <2>1. \A a \in {b \in Ages : b <= B} : a # 0 => a - 1 \in {b \in Ages : b <= A}
    BY <1>2, <1>6, <1>7, AgesFinite
  <2>2. QED
    BY <1>4, <1>5, <2>1, Shifted DEF Upto
<1>9. SumFunctionOnSet(recent', {a \in Ages : a < B}) <= Before(A)
  <2>1. \A a \in {b \in Ages : b < B} : a # 0 => a - 1 \in {b \in Ages : b < A}
    BY <1>2, <1>6, <1>7, AgesFinite
  <2>2. QED
    BY <1>4, <1>5, <2>1, Shifted DEF Before
<1>10. SumFunctionOnSet(recent', {a \in Ages : a > B}) <= After(A)
  <2>1. \A a \in {b \in Ages : b > B} : a # 0 => a - 1 \in {b \in Ages : b > A}
    BY <1>2, <1>6, <1>7, Numbers DEF Ages
  <2>2. QED
    BY <1>4, <1>5, <2>1, Shifted DEF After
<1>11. /\ Upto(A) \in Nat /\ Before(A) \in Nat /\ After(A) \in Nat
  BY HistorySums DEF Upto, Before, After, RpmInv
<1>12. /\ SumFunctionOnSet(recent', {a \in Ages : a <= B}) \in Nat
       /\ SumFunctionOnSet(recent', {a \in Ages : a < B}) \in Nat
       /\ SumFunctionOnSet(recent', {a \in Ages : a > B}) \in Nat
  <2>1. \A S \in SUBSET Ages : IsFiniteSet(S)
    BY AgesFinite, FS_Subset
  <2>2. \A S \in SUBSET Ages : SumFunctionOnSet(recent', S) \in Nat
    BY <1>4, <2>1, SumType
  <2>3. QED
    BY <2>2
<1>13. /\ Upto(A) <= usage[1].count
       /\ Before(A) < usage[1].count \/ (usage[1].count = 0 /\ A > Minute)
       /\ After(A) < Limit
  BY <1>1 DEF RpmInv, Steady, A
<1>14. usage[1].count \in Nat
  BY <1>1, Numbers DEF RpmInv, RpmTypeOK, Windows
<1>15. recent'[0] = 0
  BY <1>5, AgesFinite
<1>16. /\ SumFunctionOnSet(recent', {a \in Ages : a <= B}) <= usage'[1].count
       /\ SumFunctionOnSet(recent', {a \in Ages : a < B}) < usage'[1].count
          \/ (usage'[1].count = 0 /\ B > Minute)
       /\ SumFunctionOnSet(recent', {a \in Ages : a > B}) < Limit
  BY <1>2, <1>3, <1>6, <1>8, <1>9, <1>10, <1>11, <1>12, <1>13, <1>14, Numbers
<1>17. QED
  BY <1>15, <1>16 DEF Steady, Upto, Before, After, B

\* A call that is counted while the window lasts.
LEMMA CountSteady ==
  ASSUME RpmInv, RpmTypeOK', live = 1, live' = 1, usage[1].age <= Minute,
         usage' = [usage EXCEPT ![1] = Counted(@)],
         recent' = recent \/ (recent' = [recent EXCEPT ![0] = @ + 1] /\ usage[1].count < Limit)
  PROVE  Steady'
<1> DEFINE A == usage[1].age
           C == usage[1].count
<1>1. A \in 0 .. Minute /\ C \in 0 .. Limit /\ 1 \in Records
  <2>1. usage[1] \in Windows(0 .. Minute + 1) /\ 1 \in Records
    BY DEF RpmInv, RpmTypeOK
  <2>2. A \in 0 .. Minute + 1 /\ C \in 0 .. Limit
    BY <2>1 DEF Windows
  <2>3. QED
    BY <2>1, <2>2, Numbers
<1>2. usage'[1].age = A /\ usage'[1].count = AtMost(C + 1, Limit)
  <2>1. ~Expired(usage[1])
    BY <1>1, Numbers DEF Expired
  <2>2. usage'[1] = [usage[1] EXCEPT !.count = AtMost(@ + 1, Limit)]
    BY <1>1, <2>1 DEF Counted, Current, RpmInv, RpmTypeOK
  <2>3. usage[1] \in Windows(0 .. Minute + 1)
    BY <1>1 DEF RpmInv, RpmTypeOK
  <2>4. QED
    BY <2>2, <2>3 DEF Windows
<1>3. Upto(A) <= C /\ Before(A) < C /\ After(A) < Limit
  BY <1>1, Numbers DEF RpmInv, Steady
<1>4. Upto(A) \in Nat /\ Before(A) \in Nat /\ After(A) \in Nat
  BY HistorySums DEF Upto, Before, After, RpmInv
<1> DEFINE D == usage'[1].count
           upto == SumFunctionOnSet(recent', {a \in Ages : a <= A})
           before == SumFunctionOnSet(recent', {a \in Ages : a < A})
           after == SumFunctionOnSet(recent', {a \in Ages : a > A})
<1>5. upto <= D /\ before < D /\ after < Limit
  <2>1. CASE recent' = recent
    <3>1. upto = Upto(A) /\ before = Before(A) /\ after = After(A)
      BY <2>1 DEF Upto, Before, After
    <3> HIDE DEF A, C, upto, before, after
    <3>2. QED
      BY <1>1, <1>2, <1>3, <1>4, <3>1, Numbers DEF AtMost
  <2>2. CASE recent' = [recent EXCEPT ![0] = @ + 1] /\ C < Limit
    <3>1. recent \in [Ages -> Nat]
      BY DEF RpmInv, RpmTypeOK, Ages
    <3>2. 0 \in {a \in Ages : a <= A} /\ 0 \notin {a \in Ages : a > A}
      BY <1>1, Numbers, AgesFinite
    <3>3. upto = Upto(A) + 1
      BY <2>2, <3>1, <3>2, AddedNow DEF Upto
    <3>4. before = Before(A) + IF 0 \in {a \in Ages : a < A} THEN 1 ELSE 0
      BY <2>2, <3>1, AddedNow DEF Before
    <3>5. after = After(A) + 0
      BY <2>2, <3>1, <3>2, AddedNow DEF After
    <3>6. D = C + 1
      BY <1>1, <1>2, <2>2, Numbers DEF AtMost
    <3> HIDE DEF A, C, D, upto, before, after
    <3>7. QED
      BY <1>1, <1>3, <1>4, <3>3, <3>4, <3>5, <3>6, Numbers
  <2>3. QED
    BY <2>1, <2>2
<1>6. ~(usage'[1].age > Minute)
  BY <1>1, <1>2, Numbers
<1>7. QED
  BY <1>2, <1>5, <1>6 DEF Steady, Upto, Before, After

\* A call that opens the next window.
LEMMA OpenSteady ==
  ASSUME RpmInv, RpmTypeOK', live = 1, live' = 1, usage[1].age > Minute,
         usage' = [usage EXCEPT ![1] = Counted(@)],
         recent' = recent \/ recent' = [recent EXCEPT ![0] = @ + 1]
  PROVE  Steady'
<1>1. usage[1] \in Windows(0 .. Minute + 1) /\ 1 \in Records /\ recent \in [Ages -> Nat]
  BY DEF RpmInv, RpmTypeOK, Ages
<1>2. usage[1].age \in Nat /\ usage[1].count \in 0 .. Limit
  BY <1>1, Numbers DEF Windows
<1>3. usage'[1].age = 0 /\ usage'[1].count = 1
  <2>1. Current(usage[1]) = Window(0, 0)
    BY DEF Current, Expired
  <2>2. usage'[1] = [Window(0, 0) EXCEPT !.count = AtMost(@ + 1, Limit)]
    BY <1>1, <2>1 DEF Counted, RpmInv, RpmTypeOK
  <2>3. usage'[1].age = 0 /\ usage'[1].count = AtMost(1, Limit)
    BY <2>2 DEF Window
  <2>4. QED
    BY <2>3, Numbers DEF AtMost
<1> DEFINE passed == SumFunction(recent)
<1>4. passed < Limit /\ recent[0] = 0
  <2>1. /\ Upto(usage[1].age) <= usage[1].count
        /\ Before(usage[1].age) < usage[1].count \/ usage[1].count = 0
        /\ recent[0] = 0
    BY DEF RpmInv, Steady
  <2>2. {a \in Ages : a <= usage[1].age} = Ages /\ {a \in Ages : a < usage[1].age} = Ages
    BY <1>2, Numbers DEF Ages
  <2>3. Upto(usage[1].age) = passed /\ Before(usage[1].age) = passed
    BY <1>1, <2>2 DEF Upto, Before, SumFunction
  <2>4. passed \in Nat
    <3>1. SumFunctionOnSet(recent, Ages) \in Nat
      BY HistorySums DEF RpmInv
    <3>2. QED
      BY <1>1, <3>1 DEF SumFunction
  <2>5. QED
    BY <1>2, <2>1, <2>3, <2>4, Numbers
<1> DEFINE now == {a \in Ages : a <= 0}
           none == {a \in Ages : a < 0}
           past == {a \in Ages : a > 0}
<1>5. now = {0} /\ none = {} /\ 0 \notin past /\ past \in SUBSET Ages
  <2>1. \A a \in Ages : ~(a < 0) /\ (a <= 0 <=> a = 0) /\ ~(0 > 0)
    BY AgesFinite
  <2>2. now = {0}
    BY <2>1, AgesFinite
  <2>3. none = {} /\ 0 \notin past
    BY <2>1
  <2>4. QED
    BY <2>2, <2>3
<1>6. recent'[0] \in {0, 1} /\ recent' \in [Ages -> Nat]
  BY <1>1, <1>4, AgesFinite
<1>7. SumFunctionOnSet(recent', now) <= 1
  <2>1. SumFunctionOnSet(recent', {0}) = recent'[0] + SumFunctionOnSet(recent', {0} \ {0})
    <3>1. IsFiniteSet({0}) /\ \A a \in {0} : recent'[a] \in Nat
      <4>1. IsFiniteSet({0})
        BY FS_Singleton
      <4>2. recent'[0] \in Nat
        BY <1>6
      <4>3. QED
        BY <4>1, <4>2
    <3>2. QED
      BY <3>1, SumOneMore
  <2>2. {0} \ {0} = {}
    OBVIOUS
  <2>3. SumFunctionOnSet(recent', {0} \ {0}) = 0
    BY <2>2, SumOfNone
  <2>4. SumFunctionOnSet(recent', {0}) <= 1
    BY <1>6, <2>1, <2>3
  <2>5. QED
    BY <1>5, <2>4
<1>8. SumFunctionOnSet(recent', none) < 1
  BY <1>5, SumOfNone
<1>9. SumFunctionOnSet(recent', past) < Limit
  <2>1. SumFunctionOnSet(recent, past) \in Nat /\ SumFunctionOnSet(recent, past) <= passed
    BY <1>5, HistorySums DEF RpmInv
  <2>2. SumFunctionOnSet(recent', past) = SumFunctionOnSet(recent, past)
    <3>1. IsFiniteSet(past)
      BY <1>5, AgesFinite, FS_Subset
    <3>2. \A a \in past : recent[a] \in Nat /\ recent'[a] = recent[a]
      BY <1>1, <1>5
    <3> HIDE DEF past
    <3>3. QED
      BY <3>1, <3>2, SumSame
  <2>3. passed \in Int
    <3>1. SumFunctionOnSet(recent, Ages) \in Nat
      BY HistorySums DEF RpmInv
    <3>2. QED
      BY <1>1, <3>1 DEF SumFunction
  <2>4. QED
    BY <1>4, <2>1, <2>2, <2>3, Numbers
<1>10. ~(usage'[1].age > Minute)
  BY <1>3, Numbers
<1>11. QED
  BY <1>3, <1>7, <1>8, <1>9, <1>10 DEF Steady, Upto, Before, After

\* RpmInv is inductive.
LEMMA NextKeepsRpmInv == RpmInv /\ [RpmNext]_rpmVars => RpmInv'
<1> SUFFICES ASSUME RpmInv, [RpmNext]_rpmVars PROVE RpmInv'
  OBVIOUS
<1>1. RpmTypeOK /\ Numbered /\ Steady
  BY DEF RpmInv
<1>2. CASE Tick
  BY <1>1, <1>2, TickTypes, TickSteady DEF RpmInv
<1>3. ASSUME NEW r \in Requests, Request(r) PROVE RpmInv'
  <2>1. RpmTypeOK' /\ Numbered'
    BY <1>1, <1>3, CallTypes
  <2>2. live' = live
    BY <1>3 DEF Request, Lookup, Check, RefuseRpm, RefuseOtherwise, Admit, Save, SaveFails, history, reload
  <2>3. CASE Lookup(r) \/ Save(r) \/ SaveFails(r)
    <3>1. usage' = usage /\ recent' = recent
      BY <2>3 DEF Lookup, Save, SaveFails, history, counted
    <3>2. Steady'
      BY <1>1, <2>2, <3>1 DEF Steady, Upto, Before, After
    <3>3. QED
      BY <2>1, <3>2 DEF RpmInv
  <2>4. CASE RefuseRpm(r) \/ RefuseOtherwise(r) \/ Admit(r)
    <3> SUFFICES ASSUME live = 1 PROVE Steady'
      BY <2>1, <2>2 DEF RpmInv, Steady
    <3>1. rec[r] = 1
      <4>1. at[r] = "check"
        BY <2>4 DEF RefuseRpm, RefuseOtherwise, Admit, Check
      <4>2. rec[r] \in Nat /\ rec[r] <= 1 /\ rec[r] # 0
        BY <1>1, <4>1 DEF Numbered, RpmTypeOK, Records, None
      <4>3. QED
        BY <4>2
    <3>2. usage' = [usage EXCEPT ![1] = Counted(@)]
      BY <2>4, <3>1 DEF RefuseRpm, RefuseOtherwise, Admit, Check
    <3>3. recent' = recent \/ (recent' = [recent EXCEPT ![0] = @ + 1] /\ HasQuota(r))
      BY <2>4 DEF RefuseRpm, RefuseOtherwise, Admit, Count, OneMore, history, counted
    <3>4. usage[1].age \in Nat
      BY <1>1, Numbers DEF RpmTypeOK, Windows
    <3>5. CASE usage[1].age > Minute
      BY <2>1, <2>2, <3>2, <3>3, <3>5, OpenSteady
    <3>6. CASE usage[1].age <= Minute
      <4>1. HasQuota(r) => usage[1].count < Limit
        BY <3>1, <3>4, <3>6, Numbers DEF HasQuota, Current, Expired
      <4>2. QED
        BY <2>1, <2>2, <3>2, <3>3, <3>6, <4>1, CountSteady
    <3>7. QED
      BY <3>4, <3>5, <3>6, Numbers
  <2>5. QED
    BY <1>3, <2>3, <2>4 DEF Request
<1>4. CASE Reload
  <2>1. RpmTypeOK' /\ Numbered'
    BY <1>1, <1>4, ReloadTypes
  <2>2. live' # 1
    <3>1. live \in Nat /\ live >= 1
      BY <1>1, Numbers DEF RpmTypeOK, Records
    <3>2. CASE ReplaceRecords
      BY <3>1, <3>2 DEF ReplaceRecords
    <3>3. CASE ReadRow \/ RestoreCount \/ RestoreStart
      BY <1>1, <3>1, <3>3 DEF ReadRow, RestoreCount, RestoreStart, Numbered
    <3>4. QED
      BY <1>4, <3>2, <3>3 DEF Reload
  <2>3. QED
    BY <2>1, <2>2 DEF RpmInv, Steady
<1>5. CASE Restart
  <2>1. live' # 1
    BY <1>1, <1>5, Numbers DEF Restart, RpmTypeOK, Records
  <2>2. QED
    BY <1>1, <1>5, <2>1, RestartTypes DEF RpmInv, Steady
<1>6. CASE UNCHANGED rpmVars
  <2>1. UNCHANGED <<usage, live, row, phase, at, rec, loader, copy, recent, anew, first, reloads, lost>>
    BY <1>6 DEF rpmVars, clients, reload, history, counted
  <2>2. RpmTypeOK' /\ Numbered'
    BY <1>1, <2>1 DEF RpmTypeOK, Numbered
  <2>3. Steady'
    BY <1>1, <2>1 DEF Steady, Upto, Before, After
  <2>4. QED
    BY <2>2, <2>3 DEF RpmInv
<1>7. QED
  BY <1>2, <1>3, <1>4, <1>5, <1>6 DEF RpmNext

\* At the start nothing has passed and no window is open.
LEMMA InitRpmInv == RpmInit => RpmInv
<1> SUFFICES ASSUME RpmInit PROVE RpmInv
  OBVIOUS
<1>1. RpmTypeOK
  <2>1. live \in Records /\ first \in Records /\ phase \in 0 .. Ticks - 1
        /\ reloads \in 0 .. MaxReloads /\ lost \in 0 .. MaxLost
    BY Numbers DEF RpmInit, Records
  <2>2. QED
    BY <2>1, FirstWindows DEF RpmInit, RpmTypeOK
<1>2. Numbered
  BY Numbers DEF RpmInit, Numbered, None
<1>3. Steady
  <2>1. usage[1] = Unused /\ Unused.age = Minute + 1 /\ Unused.count = 0
    BY <1>1 DEF RpmInit, RpmTypeOK, Unused, Window
  <2>2. \A a \in Ages : recent[a] = 0
    BY DEF RpmInit, Ages
  <2>3. \A S \in SUBSET Ages : SumFunctionOnSet(recent, S) = 0
    <3>1. ASSUME NEW S \in SUBSET Ages PROVE SumFunctionOnSet(recent, S) = 0
      <4>1. IsFiniteSet(S)
        BY AgesFinite, FS_Subset
      <4>2. QED
        BY <2>2, <4>1, SumOfZeros
    <3>2. QED
      BY <3>1
  <2>4. Upto(Minute + 1) = 0 /\ After(Minute + 1) = 0
    BY <2>3 DEF Upto, After
  <2>5. recent[0] = 0 /\ Minute + 1 > Minute
    BY <2>2, AgesFinite, Numbers
  <2>6. QED
    BY <2>1, <2>4, <2>5, Numbers DEF Steady
<1>4. QED
  BY <1>1, <1>2, <1>3 DEF RpmInv

LEMMA RpmInvariance == RpmSpec => []RpmInv
BY InitRpmInv, NextKeepsRpmInv, PTL DEF RpmSpec

\* The variables of RpmWindow keep their types; a record is never made beyond
\* those that reloads and restarts may make.
THEOREM RpmTypeCorrect == RpmSpec => []RpmTypeOK
<1>1. RpmInv => RpmTypeOK
  BY DEF RpmInv
<1>2. QED
  BY <1>1, RpmInvariance, PTL

-----------------------------------------------------------------------------
\* Restarts.  h is a history, w the window in memory, v the one in the row, p the
\* instant within the second.  Of the calls in h, the row misses out: those whose
\* save was lost; and gone: those and the ones whose save is still to come.
\* Calls let through at most n instants ago.
LastIn(h, n) == SumFunctionOnSet(h, {a \in Ages : a <= n})

\* The row's window begins with its first second.  Once it is over, the next one
\* will begin with the second that runs.
RowAge(v, p) == v.age * Ticks + p
Since(v, p) == IF v.age < Seconds THEN RowAge(v, p) ELSE p

\* The window in memory counts what it has let through, unless it was full when it
\* was restored; what it can still let through stays below three quotas.
MemoryBound(h, w, out) ==
  /\ w.age <= Minute =>
       /\ w.count > 0
       /\ w.count < Limit => LastIn(h, w.age) <= w.count + out
       /\ LastIn(h, w.age) < 2 * Limit + out
       /\ LastIn(h, Minute) < 2 * Limit + w.count + out
  /\ w.age > Minute => LastIn(h, 0) <= out /\ LastIn(h, Minute) < 2 * Limit + out

\* So does the window in the row, should the process end now.
RowBound(h, v, p, gone) ==
  /\ RowAge(v, p) <= Minute =>
       /\ v.count > 0
       /\ v.count < Limit => LastIn(h, RowAge(v, p)) <= v.count + gone
       /\ LastIn(h, Minute) < 2 * Limit + v.count + gone
  /\ v.age >= Seconds => LastIn(h, p) <= gone /\ LastIn(h, Minute) < 2 * Limit + gone

\* Since the row's window began, a window of memory that is older has let through
\* less than it counts, and one that is younger has a single predecessor.
JointBound(h, w, v, p, out) ==
  LET since == Since(v, p) IN
  /\ w.age > since => LastIn(h, since) < Limit + out
  /\ w.age > since /\ w.age <= Minute => LastIn(h, since) < w.count + out
  /\ w.age < since => LastIn(h, since) < Limit + w.count + out

QuotasKept(h, w, v, p, out, gone) ==
  MemoryBound(h, w, out) /\ RowBound(h, v, p, gone) /\ JointBound(h, w, v, p, out)

\* Sums over the last instants.
LEMMA LastType ==
  ASSUME NEW h \in Histories
  PROVE  /\ \A n \in Int : LastIn(h, n) \in Nat
         /\ \A n, k \in Int : n <= k => LastIn(h, n) <= LastIn(h, k)
         /\ \A n \in Int : n >= Minute - 1 => LastIn(h, n) = LastIn(h, Minute)
<1>1. \A S \in SUBSET Ages : IsFiniteSet(S) /\ \A a \in S : h[a] \in Nat /\ h[a] <= h[a]
  <2>1. \A S \in SUBSET Ages : IsFiniteSet(S)
    BY AgesFinite, FS_Subset
  <2>2. \A a \in Ages : h[a] \in Nat /\ h[a] <= h[a]
    BY DEF Histories
  <2>3. QED
    BY <2>1, <2>2
<1>2. ASSUME NEW n \in Int PROVE LastIn(h, n) \in Nat
  <2> DEFINE S == {a \in Ages : a <= n}
  <2>1. IsFiniteSet(S) /\ \A a \in S : h[a] \in Nat
    BY <1>1
  <2> HIDE DEF S
  <2>2. SumFunctionOnSet(h, S) \in Nat
    BY <2>1, SumType
  <2>3. QED
    BY <2>2 DEF LastIn, S
<1>3. ASSUME NEW n \in Int, NEW k \in Int, n <= k PROVE LastIn(h, n) <= LastIn(h, k)
  <2> DEFINE S == {a \in Ages : a <= k}
             T == {a \in Ages : a <= n}
  <2>1. T \in SUBSET S
    <3>1. \A a \in Ages : a <= n => a <= k
      BY <1>3, Numbers DEF Ages
    <3>2. QED
      BY <3>1
  <2>2. /\ IsFiniteSet(S) /\ \A a \in S : h[a] \in Nat
        /\ \A a \in T : h[a] \in Nat /\ h[a] <= h[a]
    BY <1>1
  <2> HIDE DEF S, T
  <2>3. SumFunctionOnSet(h, T) <= SumFunctionOnSet(h, S)
    BY <2>1, <2>2, SumMonotone
  <2>4. QED
    BY <2>3 DEF LastIn, S, T
<1>4. ASSUME NEW n \in Int, n >= Minute - 1 PROVE LastIn(h, n) = LastIn(h, Minute)
  <2>1. {a \in Ages : a <= n} = Ages /\ {a \in Ages : a <= Minute} = Ages
    BY <1>4, Numbers DEF Ages
  <2>2. QED
    BY <2>1 DEF LastIn
<1>5. QED
  BY <1>2, <1>3, <1>4

\* Time moves them by one.
LEMMA LastShifted ==
  ASSUME NEW h \in Histories, NEW g \in Histories, Older(h, g)
  PROVE  /\ \A n, k \in Nat : k = n + 1 => LastIn(g, k) <= LastIn(h, n)
         /\ LastIn(g, 0) = 0
         /\ LastIn(g, Minute) <= LastIn(h, Minute)
         /\ \A n \in Nat : n >= Minute - 1 => LastIn(g, Minute) <= LastIn(h, n)
<1>1. ASSUME NEW n \in Nat PROVE LastIn(g, n + 1) <= LastIn(h, n)
  <2>1. \A a \in {b \in Ages : b <= n + 1} : a # 0 => a - 1 \in {b \in Ages : b <= n}
    BY Numbers DEF Ages
  <2>2. QED
    BY <2>1, Shifted DEF LastIn, Histories, Older
<1>2. LastIn(g, 0) = 0
  <2> DEFINE S == {a \in Ages : a <= 0}
  <2>1. IsFiniteSet(S)
    BY AgesFinite, FS_Subset
  <2>2. \A a \in S : g[a] = 0
    BY AgesFinite DEF Older
  <2> HIDE DEF S
  <2>3. SumFunctionOnSet(g, S) = 0
    BY <2>1, <2>2, SumOfZeros
  <2>4. QED
    BY <2>3 DEF LastIn, S
<1>3. ASSUME NEW n \in Nat, n >= Minute - 1 PROVE LastIn(g, Minute) <= LastIn(h, n)
  <2>1. LastIn(g, n + 1) = LastIn(g, Minute)
    BY <1>3, Numbers, LastType
  <2>2. QED
    BY <1>1, <2>1
<1>4. QED
  BY <1>1, <1>2, <1>3, Numbers

\* A call let through now is in all of them.
LEMMA LastAdded ==
  ASSUME NEW h \in Histories
  PROVE  /\ [h EXCEPT ![0] = @ + 1] \in Histories
         /\ \A n \in Nat : LastIn([h EXCEPT ![0] = @ + 1], n) = LastIn(h, n) + 1
<1>1. [h EXCEPT ![0] = @ + 1] \in Histories
  BY AgesFinite DEF Histories
<1>2. ASSUME NEW n \in Nat PROVE LastIn([h EXCEPT ![0] = @ + 1], n) = LastIn(h, n) + 1
  <2>1. 0 \in {a \in Ages : a <= n}
    BY AgesFinite
  <2>2. QED
    BY <2>1, AddedNow DEF LastIn, Histories
<1>3. QED
  BY <1>1, <1>2

\* Where the row's window is within its seconds.
LEMMA RowAges ==
  ASSUME NEW v \in Windows(0 .. Seconds + 1), NEW p \in 0 .. Ticks - 1
  PROVE  /\ v.age \in Nat /\ v.count \in 0 .. Limit /\ p \in Nat /\ p < Minute
         /\ RowAge(v, p) \in Nat /\ Since(v, p) \in Nat /\ Since(v, p) < Minute
         /\ v.age < Seconds => RowAge(v, p) < Minute
         /\ v.age >= Seconds => RowAge(v, p) >= Minute
         /\ RowAge(v, p) = Minute => v.age = Seconds /\ p = 0
<1>1. v.age \in 0 .. Seconds + 1 /\ v.count \in 0 .. Limit
  BY DEF Windows
<1>2. v.age * Ticks \in Nat
  BY <1>1, Numbers
<1>3. Ticks <= Minute /\ p \in Nat /\ p < Ticks
  <2>1. Seconds = 1 \/ Seconds - 1 \in Nat
    BY Numbers
  <2>2. Seconds * Ticks = (Seconds - 1) * Ticks + Ticks
    BY Numbers
  <2>3. (Seconds - 1) * Ticks \in Nat
    BY Numbers
  <2>4. QED
    BY <2>2, <2>3, Numbers DEF Minute
<1>4. v.age < Seconds => v.age * Ticks + Ticks <= Minute
  <2> SUFFICES ASSUME v.age < Seconds PROVE v.age * Ticks + Ticks <= Minute
    OBVIOUS
  <2>1. Seconds * Ticks = (Seconds - 1 - v.age) * Ticks + (v.age * Ticks + Ticks)
    BY <1>1, Numbers
  <2>2. (Seconds - 1 - v.age) * Ticks \in Nat
    BY <1>1, Numbers
  <2>3. QED
    BY <1>2, <2>1, <2>2, Numbers DEF Minute
<1>5. v.age >= Seconds => v.age * Ticks >= Minute
  <2> SUFFICES ASSUME v.age >= Seconds PROVE v.age * Ticks >= Minute
    OBVIOUS
  <2>1. v.age = Seconds \/ v.age = Seconds + 1
    BY <1>1, Numbers
  <2>2. (Seconds + 1) * Ticks = Seconds * Ticks + Ticks
    BY Numbers
  <2>3. QED
    BY <2>1, <2>2, Numbers DEF Minute
<1>6. v.age > Seconds => v.age * Ticks > Minute
  <2> SUFFICES ASSUME v.age > Seconds PROVE v.age * Ticks > Minute
    OBVIOUS
  <2>1. v.age = Seconds + 1
    BY <1>1, Numbers
  <2>2. (Seconds + 1) * Ticks = Seconds * Ticks + Ticks
    BY Numbers
  <2>3. QED
    BY <2>1, <2>2, Numbers DEF Minute
<1> DEFINE base == v.age * Ticks
<1>7. RowAge(v, p) = base + p
  BY DEF RowAge
<1> HIDE DEF base
<1>8. /\ base \in Nat /\ v.age \in Nat /\ v.age <= Seconds + 1
      /\ v.age < Seconds => base + Ticks <= Minute
      /\ v.age >= Seconds => base >= Minute
      /\ v.age > Seconds => base > Minute
  BY <1>1, <1>2, <1>4, <1>5, <1>6, Numbers DEF base
<1>9. QED
  BY <1>1, <1>3, <1>7, <1>8, Numbers DEF Since


\* A second that ends moves both ages of the row's window together.
LEMMA RowTick ==
  ASSUME NEW v \in Windows(0 .. Seconds + 1), NEW p \in 0 .. Ticks - 1
  PROVE  LET u == Aged(v, IF p + 1 = Ticks THEN 1 ELSE 0)
             q == (p + 1) % Ticks
         IN /\ u \in Windows(0 .. Seconds + 1) /\ q \in 0 .. Ticks - 1 /\ u.count = v.count
            /\ \/ u.age = v.age /\ q = p + 1 /\ RowAge(u, q) = RowAge(v, p) + 1
               \/ u.age = v.age + 1 /\ q = 0 /\ RowAge(u, q) = RowAge(v, p) + 1
               \/ u.age = v.age /\ q = 0 /\ v.age = Seconds + 1
<1> DEFINE u == Aged(v, IF p + 1 = Ticks THEN 1 ELSE 0)
           q == (p + 1) % Ticks
<1> DEFINE base == v.age * Ticks
<1>1. v.age \in 0 .. Seconds + 1 /\ base \in Nat /\ (v.age + 1) * Ticks = base + Ticks
  <2>1. v.age \in 0 .. Seconds + 1
    BY DEF Windows
  <2>2. QED
    BY <2>1, Numbers
<1>2. u.count = v.count /\ u.age = AtMost(v.age + IF p + 1 = Ticks THEN 1 ELSE 0, Seconds + 1)
  BY DEF Aged, Windows
<1>3. u \in Windows(0 .. Seconds + 1)
  BY RowWindows
<1>4. /\ RowAge(v, p) = base + p
      /\ u.age = v.age => RowAge(u, q) = base + q
      /\ u.age = v.age + 1 => RowAge(u, q) = (v.age + 1) * Ticks + q
  BY DEF RowAge
<1>5. IF p + 1 = Ticks THEN q = 0 ELSE q = p + 1
  BY Numbers
<1> HIDE DEF base, u, q
<1>6. CASE p + 1 = Ticks
  <2>1. q = 0 /\ 0 \in 0 .. Ticks - 1
    BY <1>5, <1>6, Numbers
  <2>2. u.age = IF v.age = Seconds + 1 THEN v.age ELSE v.age + 1
    BY <1>1, <1>2, <1>6, Numbers DEF AtMost
  <2>3. u.age = v.age + 1 => RowAge(u, q) = RowAge(v, p) + 1
    BY <1>1, <1>4, <1>6, <2>1, Numbers
  <2>4. QED
    BY <1>2, <1>3, <2>1, <2>2, <2>3 DEF u, q
<1>7. CASE p + 1 # Ticks
  <2>1. q = p + 1 /\ q \in 0 .. Ticks - 1
    BY <1>5, <1>7, Numbers
  <2>2. u.age = v.age
    BY <1>1, <1>2, <1>7, Numbers DEF AtMost
  <2>3. RowAge(u, q) = RowAge(v, p) + 1
    BY <1>1, <1>4, <2>1, <2>2, Numbers
  <2>4. QED
    BY <1>2, <1>3, <2>1, <2>2, <2>3 DEF u, q
<1>8. QED
  BY <1>6, <1>7

-----------------------------------------------------------------------------
\* What follows for the calls of a minute, and of the row's window.
LEMMA KeptFacts ==
  ASSUME NEW h \in Histories,
         NEW w \in Windows(0 .. Minute + 1), NEW v \in Windows(0 .. Seconds + 1),
         NEW p \in 0 .. Ticks - 1, NEW out \in Nat, NEW gone \in Nat,
         QuotasKept(h, w, v, p, out, gone)
  PROVE  /\ w.age \in 0 .. Minute + 1 /\ w.count \in 0 .. Limit
         /\ LastIn(h, Minute) \in Nat /\ LastIn(h, Minute) < 3 * Limit + out
         /\ LastIn(h, Since(v, p)) \in Nat /\ LastIn(h, Since(v, p)) < 2 * Limit + out
<1>1. w.age \in 0 .. Minute + 1 /\ w.count \in 0 .. Limit
  BY DEF Windows
<1>2. Since(v, p) \in Nat /\ Since(v, p) < Minute /\ w.age \in Nat /\ w.count \in Nat
  BY <1>1, RowAges, Numbers
<1>3. LastIn(h, Minute) \in Nat /\ LastIn(h, Since(v, p)) \in Nat
  BY <1>2, LastType, Numbers
<1>4. LastIn(h, Minute) < 3 * Limit + out
  <2>1. \/ LastIn(h, Minute) < 2 * Limit + w.count + out
        \/ LastIn(h, Minute) < 2 * Limit + out
    BY <1>2, Numbers DEF QuotasKept, MemoryBound
  <2>2. w.count <= Limit /\ w.count \in Nat /\ Limit \in Nat /\ Limit > 0
    BY <1>1, <1>2, Numbers
  <2> DEFINE total == LastIn(h, Minute)
             count == w.count
  <2>3. /\ total \in Nat /\ count \in Nat /\ Limit \in Nat /\ Limit > 0 /\ count <= Limit
        /\ total < 2 * Limit + count + out \/ total < 2 * Limit + out
    BY <1>3, <2>1, <2>2
  <2> HIDE DEF total, count
  <2>4. total < 3 * Limit + out
    BY <2>3
  <2>5. QED
    BY <2>4 DEF total
<1> DEFINE since == Since(v, p)
<1>5. /\ w.age = since => LastIn(h, since) < 2 * Limit + out
      /\ w.age > since => LastIn(h, since) < Limit + out
      /\ w.age < since => LastIn(h, since) < Limit + w.count + out
  BY <1>1, <1>2, Numbers DEF QuotasKept, MemoryBound, JointBound
<1> HIDE DEF since
<1>6. since \in Nat /\ LastIn(h, since) \in Nat
  BY <1>2, <1>3 DEF since
<1>7. LastIn(h, since) < 2 * Limit + out
  <2> DEFINE sum == LastIn(h, since)
  <2>1. w.count \in Nat /\ w.count <= Limit /\ Limit \in Nat /\ w.age \in Nat /\ sum \in Nat
    BY <1>1, <1>2, <1>6, Numbers
  <2>2. \/ sum < 2 * Limit + out
        \/ sum < Limit + out
        \/ sum < Limit + w.count + out
    BY <1>5, <1>6, <2>1
  <2> HIDE DEF sum
  <2>3. sum < 2 * Limit + out
    BY <2>1, <2>2
  <2>4. QED
    BY <2>3 DEF sum
<1>8. QED
  BY <1>1, <1>3, <1>4, <1>7 DEF since

\* Time.
LEMMA TickKeeps ==
  ASSUME NEW h \in Histories, NEW g \in Histories,
         Older(h, g),
         NEW w \in Windows(0 .. Minute + 1), NEW x \in Windows(0 .. Minute + 1),
         x.count = w.count, x.age = AtMost(w.age + 1, Minute + 1),
         NEW v \in Windows(0 .. Seconds + 1), NEW p \in 0 .. Ticks - 1,
         NEW out \in Nat, NEW gone \in Nat, out <= gone,
         QuotasKept(h, w, v, p, out, gone)
  PROVE  QuotasKept(g, x, Aged(v, IF p + 1 = Ticks THEN 1 ELSE 0), (p + 1) % Ticks, out, gone)
<1> DEFINE u == Aged(v, IF p + 1 = Ticks THEN 1 ELSE 0)
           q == (p + 1) % Ticks
           R == RowAge(v, p)
<1>1. /\ u \in Windows(0 .. Seconds + 1) /\ q \in 0 .. Ticks - 1 /\ u.count = v.count
      /\ \/ u.age = v.age /\ q = p + 1 /\ RowAge(u, q) = R + 1
         \/ u.age = v.age + 1 /\ q = 0 /\ RowAge(u, q) = R + 1
         \/ u.age = v.age /\ q = 0 /\ v.age = Seconds + 1
  BY RowTick
<1>2. /\ v.age \in Nat /\ v.count \in Nat /\ p \in Nat /\ R \in Nat
      /\ Since(v, p) \in Nat /\ Since(v, p) < Minute
      /\ v.age < Seconds => R < Minute
      /\ v.age >= Seconds => R >= Minute
  BY RowAges, Numbers
<1> HIDE DEF u, q
<1>3. /\ u.age \in Nat /\ q \in Nat /\ RowAge(u, q) \in Nat
      /\ Since(u, q) \in Nat /\ Since(u, q) < Minute
      /\ u.age >= Seconds => RowAge(u, q) >= Minute
      /\ RowAge(u, q) = Minute => u.age = Seconds
  BY <1>1, RowAges
<1>4. /\ w.age \in 0 .. Minute + 1 /\ w.count \in 0 .. Limit
      /\ LastIn(h, Minute) \in Nat
      /\ LastIn(h, Since(v, p)) < 2 * Limit + out
  BY KeptFacts
<1>5. /\ \A n, k \in Nat : k = n + 1 => LastIn(g, k) <= LastIn(h, n)
      /\ \A n \in Nat : LastIn(h, n) \in Nat /\ LastIn(g, n) \in Nat
  <2>1. \A n, k \in Nat : k = n + 1 => LastIn(g, k) <= LastIn(h, n)
    BY LastShifted
  <2>2. \A n \in Int : LastIn(h, n) \in Nat /\ LastIn(g, n) \in Nat
    BY LastType
  <2>3. \A n \in Nat : n \in Int
    OBVIOUS
  <2>4. \A n \in Nat : LastIn(h, n) \in Nat /\ LastIn(g, n) \in Nat
    BY <2>2, <2>3
  <2>5. QED
    BY <2>1, <2>4
<1>6. /\ LastIn(g, 0) = 0
      /\ LastIn(g, Minute) \in Nat /\ LastIn(g, Minute) <= LastIn(h, Minute)
  BY LastShifted, LastType, Numbers
<1> HIDE DEF R
<1>7. MemoryBound(g, x, out)
  <2> DEFINE A == w.age
             B == A + 1
  <2>1. A \in Nat /\ B \in Nat
    BY <1>4, Numbers
  <2>2. /\ LastIn(h, A) \in Nat /\ LastIn(g, B) \in Nat
        /\ LastIn(g, B) <= LastIn(h, A)
    <3> HIDE DEF A
    <3>1. QED
      BY <1>5, <2>1
  <2>3. CASE A < Minute
    <3>1. x.age = B /\ x.age <= Minute /\ ~(x.age > Minute)
      BY <2>1, <2>3, Numbers DEF AtMost
    <3>2. /\ w.count > 0
          /\ w.count < Limit => LastIn(h, A) <= w.count + out
          /\ LastIn(h, A) < 2 * Limit + out
          /\ LastIn(h, Minute) < 2 * Limit + w.count + out
      BY <2>1, <2>3, Numbers DEF QuotasKept, MemoryBound
    <3> HIDE DEF A, B
    <3>3. /\ w.count < Limit => LastIn(g, B) <= w.count + out
          /\ LastIn(g, B) < 2 * Limit + out
          /\ LastIn(g, Minute) < 2 * Limit + w.count + out
      <4>1. LastIn(g, Minute) < 2 * Limit + w.count + out
        BY <1>4, <1>6, <3>2, Numbers
      <4>2. LastIn(g, B) < 2 * Limit + out
        BY <2>2, <3>2, Numbers
      <4>3. w.count < Limit => LastIn(g, B) <= w.count + out
        BY <1>4, <2>2, <3>2, Numbers
      <4>4. QED
        BY <4>1, <4>2, <4>3
    <3>4. QED
      BY <3>1, <3>2, <3>3 DEF MemoryBound
  <2>4. CASE A >= Minute
    <3>1. x.age = Minute + 1 /\ ~(x.age <= Minute)
      BY <1>4, <2>4, Numbers DEF AtMost
    <3>2. LastIn(h, Minute) < 2 * Limit + out
      <4>1. A = Minute \/ A > Minute
        BY <2>1, <2>4, Numbers
      <4>2. QED
        BY <4>1, Numbers DEF QuotasKept, MemoryBound
    <3>3. LastIn(g, 0) <= out
      BY <1>6
    <3>4. LastIn(g, Minute) < 2 * Limit + out
      <4> DEFINE before == LastIn(h, Minute)
                 total == LastIn(g, Minute)
      <4>1. /\ before \in Nat /\ total \in Nat /\ Limit \in Nat
            /\ total <= before /\ before < 2 * Limit + out
        BY <1>4, <1>6, <3>2, Numbers
      <4> HIDE DEF before, total
      <4>2. total < 2 * Limit + out
        BY <4>1
      <4>3. QED
        BY <4>2 DEF total
    <3>5. QED
      BY <3>1, <3>3, <3>4 DEF MemoryBound
  <2>5. QED
    BY <2>1, <2>3, <2>4, Numbers
<1>8. RowBound(g, u, q, gone)
  <2>1. ASSUME RowAge(u, q) <= Minute
        PROVE  /\ u.count > 0
               /\ u.count < Limit => LastIn(g, RowAge(u, q)) <= u.count + gone
               /\ LastIn(g, Minute) < 2 * Limit + u.count + gone
    <3>1. RowAge(u, q) = R + 1 /\ R <= Minute
      <4>1. v.age # Seconds + 1 \/ u.age # v.age
        <5>1. u.age < Seconds \/ u.age = Seconds
          BY <1>3, <2>1, Numbers
        <5>2. QED
          BY <1>2, <5>1, Numbers
      <4>2. RowAge(u, q) = R + 1
        BY <1>1, <4>1
      <4>3. QED
        BY <1>2, <2>1, <4>2, Numbers
    <3>2. /\ v.count > 0
          /\ v.count < Limit => LastIn(h, R) <= v.count + gone
          /\ LastIn(h, Minute) < 2 * Limit + v.count + gone
      BY <3>1 DEF QuotasKept, RowBound, R
    <3> DEFINE Q == RowAge(u, q)
    <3>3. LastIn(g, Q) <= LastIn(h, R) /\ LastIn(h, R) \in Nat /\ LastIn(g, Q) \in Nat
      BY <1>2, <1>3, <1>5, <3>1
    <3> HIDE DEF Q
    <3>4. v.count < Limit => LastIn(g, Q) <= v.count + gone
      BY <1>2, <3>2, <3>3, Numbers
    <3>5. LastIn(g, Minute) < 2 * Limit + v.count + gone
      BY <1>2, <1>4, <1>6, <3>2, Numbers
    <3>6. QED
      BY <1>1, <3>2, <3>4, <3>5 DEF Q
  <2>2. ASSUME u.age >= Seconds
        PROVE  LastIn(g, q) <= gone /\ LastIn(g, Minute) < 2 * Limit + gone
    <3>1. CASE v.age >= Seconds
      <4>1. LastIn(h, p) <= gone /\ LastIn(h, Minute) < 2 * Limit + gone
        BY <3>1 DEF QuotasKept, RowBound
      <4>2. q = p + 1 \/ q = 0
        BY <1>1
      <4>3. LastIn(h, p) \in Nat /\ LastIn(g, q) \in Nat
            /\ (q = p + 1 => LastIn(g, q) <= LastIn(h, p))
        BY <1>2, <1>3, <1>5
      <4>4. LastIn(g, q) <= gone
        BY <1>6, <4>1, <4>2, <4>3
      <4>5. QED
        BY <1>4, <1>6, <4>1, <4>4, Numbers
    <3>2. CASE v.age < Seconds
      <4>1. q = 0 /\ RowAge(u, q) = R + 1 /\ Since(v, p) = R
        BY <1>1, <1>2, <2>2, <3>2, Numbers DEF Since, R
      <4>2. R >= Minute - 1
        BY <1>2, <1>3, <2>2, <4>1, Numbers
      <4>3. LastIn(g, Minute) <= LastIn(h, R) /\ LastIn(h, R) \in Nat
        BY <1>2, <1>5, <4>2, LastShifted
      <4>4. LastIn(h, R) < 2 * Limit + out
        BY <1>4, <4>1
      <4>5. QED
        BY <1>6, <4>1, <4>3, <4>4, Numbers
    <3>3. QED
      BY <1>2, <3>1, <3>2, Numbers
  <2>3. QED
    BY <2>1, <2>2 DEF RowBound
<1>9. JointBound(g, x, u, q, out)
  <2> DEFINE s == Since(v, p)
             t == Since(u, q)
  <2>1. t = 0 \/ t = s + 1
    <3>1. CASE u.age < Seconds
      <4>1. v.age < Seconds
        BY <1>1, <1>2, <3>1, Numbers
      <4>2. RowAge(u, q) = R + 1
        BY <1>1, <3>1, Numbers
      <4>3. QED
        BY <3>1, <4>1, <4>2 DEF Since, R
    <3>2. CASE u.age >= Seconds
      <4>1. t = q
        BY <1>3, <3>2, Numbers DEF Since
      <4>2. CASE q = p + 1 /\ u.age = v.age
        BY <1>2, <3>2, <4>1, <4>2, Numbers DEF Since
      <4>3. QED
        BY <1>1, <4>1, <4>2
    <3>3. QED
      BY <1>3, <3>1, <3>2, Numbers
  <2>2. s \in Nat /\ s < Minute /\ t \in Nat /\ t < Minute
    BY <1>2, <1>3
  <2>3. /\ w.age > s => LastIn(h, s) < Limit + out
        /\ w.age > s /\ w.age <= Minute => LastIn(h, s) < w.count + out
        /\ w.age < s => LastIn(h, s) < Limit + w.count + out
    BY DEF QuotasKept, JointBound
  <2>4. w.age <= Minute => w.count > 0
    BY DEF QuotasKept, MemoryBound
  <2>5. x.age = IF w.age <= Minute THEN w.age + 1 ELSE w.age
    BY <1>4, Numbers DEF AtMost
  <2> HIDE DEF s, t
  <2>6. /\ LastIn(h, s) \in Nat /\ LastIn(g, t) \in Nat
        /\ t = s + 1 => LastIn(g, t) <= LastIn(h, s)
    BY <1>5, <2>2
  <2>7. /\ x.age > t => LastIn(g, t) < Limit + out
        /\ x.age > t /\ x.age <= Minute => LastIn(g, t) < w.count + out
        /\ x.age < t => LastIn(g, t) < Limit + w.count + out
    <3>1. CASE t = 0
      <4>1. LastIn(g, t) = 0 /\ w.count \in Nat /\ w.age \in Nat
        BY <1>4, <1>6, <3>1, Numbers
      <4>2. x.age > t /\ x.age <= Minute => w.count > 0
        BY <2>4, <2>5, <4>1, Numbers
      <4>3. ~(x.age < t)
        BY <2>5, <3>1, <4>1
      <4>4. 0 < Limit + out /\ (w.count > 0 => 0 < w.count + out)
        BY <4>1, Numbers
      <4>5. QED
        BY <4>1, <4>2, <4>3, <4>4
    <3>2. CASE t = s + 1
      <4>1. /\ x.age > t => w.age > s
            /\ x.age > t /\ x.age <= Minute => w.age <= Minute
            /\ x.age < t => w.age < s
        <5>1. w.age \in Nat
          BY <1>4, Numbers
        <5>2. CASE w.age <= Minute
          <6>1. x.age = w.age + 1
            BY <2>5, <5>2
          <6>2. QED
            BY <2>2, <3>2, <5>1, <5>2, <6>1
        <5>3. CASE w.age > Minute
          <6>1. x.age = w.age
            BY <2>5, <5>1, <5>3, Numbers
          <6>2. s < w.age /\ t < x.age
            BY <2>2, <5>1, <5>3, <6>1, Numbers
          <6>3. QED
            BY <2>2, <5>1, <5>3, <6>1, <6>2, Numbers
        <5>4. QED
          BY <5>1, <5>2, <5>3, Numbers
      <4>2. w.count \in Nat /\ LastIn(g, t) <= LastIn(h, s)
        BY <1>4, <2>6, <3>2
      <4>3. x.age > t => LastIn(g, t) < Limit + out
        BY <2>3, <2>6, <4>1, <4>2, Numbers
      <4>4. x.age > t /\ x.age <= Minute => LastIn(g, t) < w.count + out
        BY <2>3, <2>6, <4>1, <4>2, Numbers
      <4>5. x.age < t => LastIn(g, t) < Limit + w.count + out
        BY <2>3, <2>6, <4>1, <4>2, Numbers
      <4>6. QED
        BY <4>3, <4>4, <4>5
    <3>3. QED
      BY <2>1, <3>1, <3>2
  <2>8. QED
    BY <2>7 DEF JointBound, t
<1>10. QED
  BY <1>7, <1>8, <1>9 DEF QuotasKept, u, q

\* What counting a call makes of the window in memory.
LEMMA CountedWindow ==
  ASSUME NEW w \in Windows(0 .. Minute + 1)
  PROVE  /\ w.age <= Minute =>
              /\ Current(w).count = w.count /\ Counted(w).age = w.age
              /\ Counted(w).count = IF w.count < Limit THEN w.count + 1 ELSE Limit
         /\ w.age > Minute => Counted(w).age = 0 /\ Counted(w).count = 1
<1>1. w.age \in 0 .. Minute + 1 /\ w.count \in 0 .. Limit
  BY DEF Windows
<1>2. CASE w.age <= Minute
  <2>1. Current(w) = w
    BY <1>1, <1>2, Numbers DEF Current, Expired
  <2>2. Counted(w) = [w EXCEPT !.count = AtMost(@ + 1, Limit)]
    BY <2>1 DEF Counted
  <2>3. Counted(w).age = w.age /\ Counted(w).count = AtMost(w.count + 1, Limit)
    BY <2>2 DEF Windows
  <2>4. AtMost(w.count + 1, Limit) = IF w.count < Limit THEN w.count + 1 ELSE Limit
    BY <1>1, Numbers DEF AtMost
  <2>5. ~(w.age > Minute)
    BY <1>1, <1>2, Numbers
  <2>6. QED
    BY <2>1, <2>3, <2>4, <2>5
<1>3. CASE w.age > Minute
  <2>1. Current(w) = Window(0, 0)
    BY <1>3 DEF Current, Expired
  <2>2. Counted(w) = [Window(0, 0) EXCEPT !.count = AtMost(@ + 1, Limit)]
    BY <2>1 DEF Counted
  <2>3. Counted(w).age = 0 /\ Counted(w).count = AtMost(1, Limit)
    BY <2>2 DEF Window
  <2>4. QED
    BY <1>1, <1>3, <2>3, Numbers DEF AtMost
<1>4. QED
  BY <1>1, <1>2, <1>3, Numbers

\* A call that is let through, and one that is only counted.
LEMMA AdmitKeeps ==
  ASSUME NEW h \in Histories,
         NEW w \in Windows(0 .. Minute + 1), NEW v \in Windows(0 .. Seconds + 1),
         NEW p \in 0 .. Ticks - 1, NEW out \in Nat, NEW gone \in Nat,
         QuotasKept(h, w, v, p, out, gone), Current(w).count < Limit
  PROVE  QuotasKept([h EXCEPT ![0] = @ + 1], Counted(w), v, p, out, gone + 1)
<1> DEFINE g == [h EXCEPT ![0] = @ + 1]
           x == Counted(w)
           R == RowAge(v, p)
           s == Since(v, p)
<1>1. /\ v.count \in Nat /\ p \in Nat /\ R \in Nat /\ s \in Nat /\ s < Minute
  BY RowAges, Numbers
<1>2. w.age \in 0 .. Minute + 1 /\ w.count \in 0 .. Limit
  BY KeptFacts
<1>3. \A n \in Nat : LastIn(g, n) = LastIn(h, n) + 1
  BY LastAdded
<1>4. \A n \in Nat : LastIn(h, n) \in Nat
  <2>1. \A n \in Int : LastIn(h, n) \in Nat
    BY LastType
  <2>2. \A n \in Nat : n \in Int
    OBVIOUS
  <2>3. QED
    BY <2>1, <2>2
<1> HIDE DEF g
<1>5. w.age \in Nat /\ w.count \in Nat /\ Minute \in Nat /\ 0 \in Nat
  BY <1>2, Numbers
<1>6. LastIn(g, Minute) = LastIn(h, Minute) + 1 /\ LastIn(h, Minute) \in Nat
  BY <1>1, <1>3, <1>4, <1>5
<1>7. LastIn(g, w.age) = LastIn(h, w.age) + 1 /\ LastIn(h, w.age) \in Nat
  BY <1>1, <1>3, <1>4, <1>5
<1>8. LastIn(g, 0) = LastIn(h, 0) + 1 /\ LastIn(h, 0) \in Nat
  BY <1>1, <1>3, <1>4, <1>5
<1>9. LastIn(g, p) = LastIn(h, p) + 1 /\ LastIn(h, p) \in Nat
  BY <1>1, <1>3, <1>4, <1>5
<1>10. LastIn(g, R) = LastIn(h, R) + 1 /\ LastIn(h, R) \in Nat
  BY <1>1, <1>3, <1>4, <1>5
<1>11. LastIn(g, s) = LastIn(h, s) + 1 /\ LastIn(h, s) \in Nat
  BY <1>1, <1>3, <1>4, <1>5
<1>12. RowBound(g, v, p, gone + 1)
  <2>1. ASSUME R <= Minute
        PROVE  /\ v.count > 0
               /\ v.count < Limit => LastIn(g, R) <= v.count + (gone + 1)
               /\ LastIn(g, Minute) < 2 * Limit + v.count + (gone + 1)
    <3>1. /\ v.count > 0
          /\ v.count < Limit => LastIn(h, R) <= v.count + gone
          /\ LastIn(h, Minute) < 2 * Limit + v.count + gone
      BY <2>1 DEF QuotasKept, RowBound
    <3> HIDE DEF R
    <3>2. ASSUME v.count < Limit PROVE LastIn(g, R) <= v.count + (gone + 1)
      <4>1. v.count \in Nat /\ LastIn(h, R) <= v.count + gone
        BY <1>1, <3>1, <3>2
      <4>2. QED
        BY <1>10, <4>1
    <3>3. LastIn(g, Minute) < 2 * Limit + v.count + (gone + 1)
      <4>1. v.count \in Nat /\ Limit \in Nat /\ LastIn(h, Minute) < 2 * Limit + v.count + gone
        BY <1>1, <3>1, Numbers
      <4>2. QED
        BY <1>6, <4>1
    <3>4. QED
      BY <3>1, <3>2, <3>3
  <2>2. ASSUME v.age >= Seconds
        PROVE  LastIn(g, p) <= gone + 1 /\ LastIn(g, Minute) < 2 * Limit + (gone + 1)
    <3>1. LastIn(h, p) <= gone /\ LastIn(h, Minute) < 2 * Limit + gone
      BY <2>2 DEF QuotasKept, RowBound
    <3>2. QED
      BY <1>6, <1>9, <3>1, Numbers
  <2>3. QED
    BY <2>1, <2>2 DEF RowBound
<1>13. CASE w.age <= Minute
  <2>1. w.count < Limit /\ x.age = w.age /\ x.count = w.count + 1 /\ ~(x.age > Minute)
    BY <1>2, <1>13, CountedWindow, Numbers
  <2> HIDE DEF x
  <2>2. /\ LastIn(h, w.age) <= w.count + out
        /\ LastIn(h, Minute) < 2 * Limit + w.count + out
    BY <1>13, <2>1 DEF QuotasKept, MemoryBound
  <2>3. MemoryBound(g, x, out)
    <3>1. x.count > 0 /\ LastIn(g, x.age) <= x.count + out
      <4>1. LastIn(g, w.age) <= (w.count + 1) + out
        BY <1>5, <1>7, <2>2
      <4>2. w.count + 1 > 0
        BY <1>5
      <4>3. QED
        BY <2>1, <4>1, <4>2
    <3>2. LastIn(g, x.age) < 2 * Limit + out
      <4>1. LastIn(g, w.age) <= (w.count + 1) + out /\ w.count + 1 <= Limit
        <5>1. LastIn(g, w.age) <= (w.count + 1) + out
          BY <1>5, <1>7, <2>2
        <5>2. w.count + 1 <= Limit
          BY <1>5, <2>1, Numbers
        <5>3. QED
          BY <5>1, <5>2
      <4> DEFINE sum == LastIn(g, w.age)
      <4>2. sum \in Nat /\ Limit \in Nat /\ Limit > 0 /\ w.count \in Nat
            /\ sum <= (w.count + 1) + out /\ w.count + 1 <= Limit
        BY <1>5, <1>7, <4>1, Numbers
      <4> HIDE DEF sum
      <4>3. sum < 2 * Limit + out
        BY <4>2
      <4>4. QED
        BY <2>1, <4>3 DEF sum
    <3>3. LastIn(g, Minute) < 2 * Limit + x.count + out
      <4> DEFINE total == LastIn(h, Minute)
      <4>1. total \in Nat /\ Limit \in Nat /\ w.count \in Nat
            /\ total < 2 * Limit + w.count + out
        BY <1>5, <1>6, <2>2, Numbers
      <4> HIDE DEF total
      <4>2. total + 1 < 2 * Limit + (w.count + 1) + out
        BY <4>1
      <4>3. QED
        BY <1>6, <2>1, <4>2 DEF total
    <3>4. QED
      BY <2>1, <3>1, <3>2, <3>3 DEF MemoryBound
  <2>4. JointBound(g, x, v, p, out)
    <3>1. /\ w.age > s => LastIn(h, s) < w.count + out
          /\ w.age < s => LastIn(h, s) < Limit + w.count + out
      BY <1>13 DEF QuotasKept, JointBound
    <3> HIDE DEF s
    <3> DEFINE sum == LastIn(h, s)
    <3>2. /\ LastIn(g, s) = sum + 1 /\ sum \in Nat /\ w.count \in Nat /\ Limit \in Nat
          /\ w.count < Limit /\ x.count = w.count + 1 /\ x.age = w.age
          /\ w.age > s => sum < w.count + out
          /\ w.age < s => sum < Limit + w.count + out
      BY <1>5, <1>11, <2>1, <3>1, Numbers
    <3> HIDE DEF sum
    <3>3. ASSUME w.age > s PROVE sum + 1 < Limit + out /\ sum + 1 < w.count + 1 + out
      <4>1. sum < w.count + out
        BY <3>2, <3>3
      <4>2. QED
        BY <3>2, <4>1
    <3>4. ASSUME w.age < s PROVE sum + 1 < Limit + (w.count + 1) + out
      <4>1. sum < Limit + w.count + out
        BY <3>2, <3>4
      <4>2. QED
        BY <3>2, <4>1
    <3>5. QED
      BY <3>2, <3>3, <3>4 DEF JointBound, s
  <2>5. QED
    BY <1>12, <2>3, <2>4 DEF QuotasKept, g, x
<1>14. CASE w.age > Minute
  <2>1. x.age = 0 /\ x.count = 1 /\ ~(x.age > Minute) /\ w.age > s
    BY <1>1, <1>2, <1>14, CountedWindow, Numbers
  <2> HIDE DEF x
  <2>2. LastIn(h, 0) <= out /\ LastIn(h, Minute) < 2 * Limit + out
    BY <1>14 DEF QuotasKept, MemoryBound
  <2>3. MemoryBound(g, x, out)
    <3>1. x.count > 0 /\ LastIn(g, 0) <= 1 + out
      BY <1>8, <2>1, <2>2, Numbers
    <3>2. LastIn(g, 0) < 2 * Limit + out
      BY <1>8, <2>2, Numbers
    <3>3. LastIn(g, Minute) < 2 * Limit + 1 + out
      BY <1>6, <2>2, Numbers
    <3>4. QED
      BY <2>1, <3>1, <3>2, <3>3 DEF MemoryBound
  <2>4. JointBound(g, x, v, p, out)
    <3>1. LastIn(h, s) < Limit + out
      BY <2>1 DEF QuotasKept, JointBound
    <3> HIDE DEF s
    <3>2. ~(x.age > s)
      BY <1>1, <2>1
    <3>3. LastIn(g, s) < Limit + x.count + out
      BY <1>11, <2>1, <3>1, Numbers
    <3>4. QED
      BY <3>2, <3>3 DEF JointBound, s
  <2>5. QED
    BY <1>12, <2>3, <2>4 DEF QuotasKept, g, x
<1>15. QED
  BY <1>5, <1>13, <1>14, Numbers

LEMMA RefuseKeeps ==
  ASSUME NEW h \in Histories,
         NEW w \in Windows(0 .. Minute + 1), NEW v \in Windows(0 .. Seconds + 1),
         NEW p \in 0 .. Ticks - 1, NEW out \in Nat, NEW gone \in Nat,
         QuotasKept(h, w, v, p, out, gone)
  PROVE  QuotasKept(h, Counted(w), v, p, out, gone)
<1> DEFINE x == Counted(w)
           s == Since(v, p)
<1>1. s \in Nat /\ s < Minute
  BY RowAges
<1>2. /\ w.age \in 0 .. Minute + 1 /\ w.count \in 0 .. Limit
      /\ LastIn(h, Minute) \in Nat /\ LastIn(h, s) \in Nat
  BY KeptFacts
<1>3. w.age \in Nat /\ w.count \in Nat /\ LastIn(h, w.age) \in Nat /\ LastIn(h, 0) \in Nat
  <2>1. w.age \in Nat /\ w.count \in Nat
    BY <1>2, Numbers
  <2>2. w.age \in Int /\ 0 \in Int
    BY <2>1
  <2>3. LastIn(h, w.age) \in Nat /\ LastIn(h, 0) \in Nat
    BY <2>2, LastType
  <2>4. QED
    BY <2>1, <2>3
<1>4. RowBound(h, v, p, gone)
  BY DEF QuotasKept
<1>5. CASE w.age <= Minute
  <2>1. /\ x.age = w.age /\ ~(x.age > Minute)
        /\ x.count = IF w.count < Limit THEN w.count + 1 ELSE Limit
    BY <1>2, <1>5, CountedWindow, Numbers
  <2> HIDE DEF x
  <2>2. /\ w.count > 0
        /\ w.count < Limit => LastIn(h, w.age) <= w.count + out
        /\ LastIn(h, w.age) < 2 * Limit + out
        /\ LastIn(h, Minute) < 2 * Limit + w.count + out
    BY <1>5 DEF QuotasKept, MemoryBound
  <2>3. x.count \in Nat /\ w.count <= x.count /\ (x.count < Limit => w.count < Limit)
    <3>1. Limit \in Nat /\ w.count \in Nat /\ w.count <= Limit
      BY <1>2, <1>3, Numbers
    <3>2. CASE w.count < Limit
      BY <2>1, <3>1, <3>2
    <3>3. CASE ~(w.count < Limit)
      BY <2>1, <3>1, <3>3
    <3>4. QED
      BY <3>2, <3>3
  <2> DEFINE less == w.count
             more == x.count
  <2> HIDE DEF less, more
  <2>4. less \in Nat /\ more \in Nat /\ less <= more
    BY <1>3, <2>3 DEF less, more
  <2>5. less + out <= more + out /\ 2 * Limit + less + out <= 2 * Limit + more + out
        /\ Limit + less + out <= Limit + more + out
    <3>1. Limit \in Nat
      BY Numbers
    <3>2. \A k \in Nat : k + less + out <= k + more + out
      BY <2>4
    <3>3. 2 * Limit \in Nat
      BY <3>1
    <3>4. less + out <= more + out
      BY <2>4
    <3>5. QED
      BY <3>1, <3>2, <3>3, <3>4
  <2>6. MemoryBound(h, x, out)
    <3>1. x.count > 0
      BY <1>3, <2>2, <2>3
    <3>2. x.count < Limit => LastIn(h, x.age) <= x.count + out
      <4>1. x.count < Limit => LastIn(h, w.age) <= less + out
        BY <2>2, <2>3 DEF less
      <4>2. x.count < Limit => LastIn(h, w.age) <= more + out
        BY <1>3, <2>4, <2>5, <4>1
      <4>3. QED
        BY <2>1, <4>2 DEF more
    <3>3. LastIn(h, Minute) < 2 * Limit + x.count + out
      <4>1. LastIn(h, Minute) < 2 * Limit + less + out
        BY <2>2 DEF less
      <4>2. LastIn(h, Minute) < 2 * Limit + more + out
        BY <1>2, <2>4, <2>5, <4>1, Numbers
      <4>3. QED
        BY <4>2 DEF more
    <3>4. QED
      BY <2>1, <2>2, <3>1, <3>2, <3>3 DEF MemoryBound
  <2>7. JointBound(h, x, v, p, out)
    <3>1. /\ w.age > s => LastIn(h, s) < Limit + out
          /\ w.age > s => LastIn(h, s) < w.count + out
          /\ w.age < s => LastIn(h, s) < Limit + w.count + out
      BY <1>5 DEF QuotasKept, JointBound
    <3> HIDE DEF s
    <3>2. w.age > s => LastIn(h, s) < x.count + out
      BY <1>2, <1>3, <2>3, <3>1
    <3>3. w.age < s => LastIn(h, s) < Limit + x.count + out
      <4>1. w.age < s => LastIn(h, s) < Limit + less + out
        BY <3>1 DEF less
      <4>2. w.age < s => LastIn(h, s) < Limit + more + out
        BY <1>2, <2>4, <2>5, <4>1, Numbers DEF s
      <4>3. QED
        BY <4>2 DEF more
    <3>4. QED
      BY <2>1, <3>1, <3>2, <3>3 DEF JointBound, s
  <2>8. QED
    BY <1>4, <2>6, <2>7 DEF QuotasKept, x
<1>6. CASE w.age > Minute
  <2>1. x.age = 0 /\ x.count = 1 /\ ~(x.age > Minute) /\ w.age > s
    BY <1>1, <1>2, <1>6, CountedWindow, Numbers
  <2> HIDE DEF x
  <2>2. LastIn(h, 0) <= out /\ LastIn(h, Minute) < 2 * Limit + out
    BY <1>6 DEF QuotasKept, MemoryBound
  <2>3. MemoryBound(h, x, out)
    <3>1. x.count > 0 /\ LastIn(h, 0) <= 1 + out
      BY <1>3, <2>1, <2>2
    <3>2. LastIn(h, 0) < 2 * Limit + out
      BY <1>3, <2>2, Numbers
    <3>3. LastIn(h, Minute) < 2 * Limit + 1 + out
      BY <1>2, <2>2, Numbers
    <3>4. QED
      BY <2>1, <3>1, <3>2, <3>3 DEF MemoryBound
  <2>4. JointBound(h, x, v, p, out)
    <3>1. LastIn(h, s) < Limit + out
      BY <2>1 DEF QuotasKept, JointBound
    <3> HIDE DEF s
    <3>2. ~(x.age > s)
      BY <1>1, <2>1
    <3>3. LastIn(h, s) < Limit + x.count + out
      BY <1>2, <2>1, <3>1, Numbers
    <3>4. QED
      BY <3>2, <3>3 DEF JointBound, s
  <2>5. QED
    BY <1>4, <2>3, <2>4 DEF QuotasKept, x
<1>7. QED
  BY <1>3, <1>5, <1>6, Numbers

\* A save that succeeds, and one that fails.
LEMMA SaveKeeps ==
  ASSUME NEW h \in Histories,
         NEW w \in Windows(0 .. Minute + 1), NEW v \in Windows(0 .. Seconds + 1),
         NEW p \in 0 .. Ticks - 1, NEW out \in Nat, NEW gone \in Nat, out <= gone,
         QuotasKept(h, w, v, p, out, gone + 1)
  PROVE  QuotasKept(h, w, Saved(v), p, out, gone)
<1> DEFINE u == Saved(v)
           R == RowAge(v, p)
<1>1. /\ v.age \in Nat /\ v.count \in 0 .. Limit /\ v.count \in Nat /\ p \in Nat /\ p < Minute
      /\ R \in Nat
  BY RowAges, Numbers
<1>2. LastIn(h, Minute) \in Nat /\ LastIn(h, Minute) < 3 * Limit + out
  BY KeptFacts
<1>3. MemoryBound(h, w, out)
  BY DEF QuotasKept
<1>4. CASE v.age >= Seconds
  <2>1. u = Window(0, 1) /\ u.age = 0 /\ u.count = 1
    BY <1>4 DEF Saved, Window
  <2>2. RowAge(u, p) = p /\ Since(u, p) = p /\ Since(v, p) = p
    <3>1. 0 * Ticks = 0 /\ 0 < Seconds /\ ~(v.age < Seconds)
      BY <1>1, <1>4, Numbers
    <3>2. RowAge(u, p) = 0 * Ticks + p
      BY <2>1 DEF RowAge
    <3>3. RowAge(u, p) = p
      BY <1>1, <3>1, <3>2
    <3>4. QED
      BY <2>1, <3>1, <3>3 DEF Since
  <2>3. LastIn(h, p) <= gone + 1 /\ LastIn(h, Minute) < 2 * Limit + (gone + 1)
    BY <1>4 DEF QuotasKept, RowBound
  <2>4. RowBound(h, u, p, gone)
    <3>1. LastIn(h, p) <= 1 + gone /\ LastIn(h, Minute) < 2 * Limit + 1 + gone
      BY <2>3, Numbers
    <3>2. ~(u.age >= Seconds) /\ u.count > 0
      BY <2>1, Numbers
    <3>3. QED
      BY <2>1, <2>2, <3>1, <3>2 DEF RowBound
  <2>5. JointBound(h, w, u, p, out)
    BY <2>2 DEF QuotasKept, JointBound
  <2>6. QED
    BY <1>3, <2>4, <2>5 DEF QuotasKept
<1>5. CASE v.age < Seconds
  <2>1. u.age = v.age /\ u.count = IF v.count < Limit THEN v.count + 1 ELSE Limit
    <3>1. ~(v.age >= Seconds)
      BY <1>1, <1>5, Numbers
    <3>2. u = [v EXCEPT !.count = AtMost(@ + 1, Limit)]
      BY <3>1 DEF Saved
    <3>3. u.age = v.age /\ u.count = AtMost(v.count + 1, Limit)
      BY <3>2 DEF Windows
    <3>4. QED
      BY <1>1, <3>3, Numbers DEF AtMost
  <2>2. RowAge(u, p) = R /\ Since(u, p) = Since(v, p) /\ R <= Minute /\ ~(u.age >= Seconds)
    <3>1. ~(v.age >= Seconds)
      BY <1>1, <1>5, Numbers
    <3>2. R < Minute
      BY <1>5, RowAges
    <3>3. R <= Minute
      BY <1>1, <3>2, Numbers
    <3>4. QED
      BY <2>1, <3>1, <3>3 DEF RowAge, Since
  <2> HIDE DEF u
  <2>3. /\ v.count > 0
        /\ v.count < Limit => LastIn(h, R) <= v.count + (gone + 1)
        /\ LastIn(h, Minute) < 2 * Limit + v.count + (gone + 1)
    BY <2>2 DEF QuotasKept, RowBound
  <2>4. RowBound(h, u, p, gone)
    <3>1. CASE v.count < Limit
      <4>1. u.count = v.count + 1 /\ u.count > 0
        BY <1>1, <2>1, <3>1
      <4>2. LastIn(h, R) <= (v.count + 1) + gone
        BY <1>1, <2>3, <3>1
      <4>3. LastIn(h, Minute) < 2 * Limit + (v.count + 1) + gone
        <5>1. v.count \in Nat /\ Limit \in Nat
              /\ LastIn(h, Minute) < 2 * Limit + v.count + (gone + 1)
          BY <1>1, <2>3, Numbers
        <5>2. \A a, b, c \in Nat : a + b + (c + 1) = a + (b + 1) + c
          OBVIOUS
        <5>3. 2 * Limit \in Nat
          BY <5>1
        <5>4. 2 * Limit + v.count + (gone + 1) = 2 * Limit + (v.count + 1) + gone
          BY <5>1, <5>2, <5>3
        <5>5. QED
          BY <5>1, <5>4
      <4>4. QED
        BY <2>2, <4>1, <4>2, <4>3 DEF RowBound
    <3>2. CASE ~(v.count < Limit)
      <4>1. u.count = Limit /\ u.count > 0 /\ ~(u.count < Limit)
        BY <1>1, <2>1, <3>2, Numbers
      <4>2. LastIn(h, Minute) < 2 * Limit + Limit + gone
        BY <1>2, Numbers
      <4>3. QED
        BY <2>2, <4>1, <4>2 DEF RowBound
    <3>3. QED
      BY <3>1, <3>2
  <2>5. JointBound(h, w, u, p, out)
    BY <2>2 DEF QuotasKept, JointBound
  <2>6. QED
    BY <1>3, <2>4, <2>5 DEF QuotasKept, u
<1>6. QED
  BY <1>1, <1>4, <1>5, Numbers

LEMMA LossKeeps ==
  ASSUME NEW h \in Histories,
         NEW w \in Windows(0 .. Minute + 1), NEW v \in Windows(0 .. Seconds + 1),
         NEW p \in 0 .. Ticks - 1, NEW out \in Nat, NEW gone \in Nat,
         QuotasKept(h, w, v, p, out, gone)
  PROVE  QuotasKept(h, w, v, p, out + 1, gone)
<1>1. /\ w.age \in Nat /\ w.count \in Nat /\ Since(v, p) \in Nat
      /\ LastIn(h, Minute) \in Nat /\ LastIn(h, Since(v, p)) \in Nat
  BY KeptFacts, RowAges, Numbers
<1>2. LastIn(h, w.age) \in Nat /\ LastIn(h, 0) \in Nat
  <2>1. w.age \in Int /\ 0 \in Int
    BY <1>1
  <2>2. QED
    BY <2>1, LastType
<1>3. RowBound(h, v, p, gone)
  BY DEF QuotasKept
<1>4. MemoryBound(h, w, out + 1)
  <2>1. ASSUME w.age <= Minute
        PROVE  /\ w.count > 0
               /\ w.count < Limit => LastIn(h, w.age) <= w.count + (out + 1)
               /\ LastIn(h, w.age) < 2 * Limit + (out + 1)
               /\ LastIn(h, Minute) < 2 * Limit + w.count + (out + 1)
    <3>1. /\ w.count > 0
          /\ w.count < Limit => LastIn(h, w.age) <= w.count + out
          /\ LastIn(h, w.age) < 2 * Limit + out
          /\ LastIn(h, Minute) < 2 * Limit + w.count + out
      BY <2>1 DEF QuotasKept, MemoryBound
    <3>2. w.count < Limit => LastIn(h, w.age) <= w.count + (out + 1)
      BY <1>1, <1>2, <3>1
    <3>3. LastIn(h, w.age) < 2 * Limit + (out + 1)
      BY <1>2, <3>1, Numbers
    <3>4. LastIn(h, Minute) < 2 * Limit + w.count + (out + 1)
      <4> DEFINE bound == 2 * Limit + w.count
      <4>1. bound \in Nat /\ LastIn(h, Minute) < bound + out
        <5>1. 2 * Limit \in Nat
          BY Numbers
        <5>2. 2 * Limit + w.count \in Nat
          BY <1>1, <5>1
        <5>3. QED
          BY <3>1, <5>2
      <4> HIDE DEF bound
      <4>2. LastIn(h, Minute) < bound + (out + 1)
        BY <1>1, <4>1
      <4>3. QED
        BY <4>2 DEF bound
    <3>5. QED
      BY <3>1, <3>2, <3>3, <3>4
  <2>2. ASSUME w.age > Minute
        PROVE  LastIn(h, 0) <= out + 1 /\ LastIn(h, Minute) < 2 * Limit + (out + 1)
    <3>1. LastIn(h, 0) <= out /\ LastIn(h, Minute) < 2 * Limit + out
      BY <2>2 DEF QuotasKept, MemoryBound
    <3>2. LastIn(h, 0) <= out + 1
      BY <1>2, <3>1
    <3>3. LastIn(h, Minute) < 2 * Limit + (out + 1)
      BY <1>1, <3>1, Numbers
    <3>4. QED
      BY <3>2, <3>3
  <2>3. QED
    BY <2>1, <2>2 DEF MemoryBound
<1>5. JointBound(h, w, v, p, out + 1)
  <2> DEFINE s == Since(v, p)
  <2>1. /\ w.age > s => LastIn(h, s) < Limit + out
        /\ w.age > s /\ w.age <= Minute => LastIn(h, s) < w.count + out
        /\ w.age < s => LastIn(h, s) < Limit + w.count + out
    BY DEF QuotasKept, JointBound
  <2>2. LastIn(h, s) \in Nat /\ w.count \in Nat
    BY <1>1
  <2> HIDE DEF s
  <2>3. w.age > s => LastIn(h, s) < Limit + (out + 1)
    BY <2>1, <2>2, Numbers
  <2>4. w.age > s /\ w.age <= Minute => LastIn(h, s) < w.count + (out + 1)
    BY <2>1, <2>2
  <2>5. w.age < s => LastIn(h, s) < Limit + w.count + (out + 1)
    BY <2>1, <2>2, Numbers
  <2>6. QED
    BY <2>3, <2>4, <2>5 DEF JointBound, s
<1>6. QED
  BY <1>3, <1>4, <1>5 DEF QuotasKept

\* The process ends, and the row becomes the window in memory.
LEMMA RestoreKeeps ==
  ASSUME NEW h \in Histories,
         NEW w \in Windows(0 .. Minute + 1), NEW v \in Windows(0 .. Seconds + 1),
         NEW p \in 0 .. Ticks - 1, NEW out \in Nat, NEW gone \in Nat, out <= gone,
         QuotasKept(h, w, v, p, out, gone)
  PROVE  QuotasKept(h, Window(AtMost(RowAge(v, p), Minute + 1), v.count), v, p, gone, gone)
<1> DEFINE R == RowAge(v, p)
           x == Window(AtMost(R, Minute + 1), v.count)
           s == Since(v, p)
<1>1. /\ v.age \in Nat /\ v.count \in 0 .. Limit /\ v.count \in Nat /\ p \in Nat /\ p < Minute
      /\ R \in Nat /\ s \in Nat /\ s < Minute
      /\ v.age >= Seconds => R >= Minute
  BY RowAges, Numbers
<1>2. /\ LastIn(h, Minute) \in Nat
      /\ LastIn(h, s) \in Nat /\ LastIn(h, s) < 2 * Limit + out
  BY KeptFacts
<1>3. /\ \A n \in Int : LastIn(h, n) \in Nat
      /\ \A n, k \in Int : n <= k => LastIn(h, n) <= LastIn(h, k)
      /\ \A n \in Int : n >= Minute - 1 => LastIn(h, n) = LastIn(h, Minute)
  BY LastType
<1>4. x.age = AtMost(R, Minute + 1) /\ x.count = v.count
  BY DEF Window
<1>5. RowBound(h, v, p, gone)
  BY DEF QuotasKept
<1>6. CASE v.age < Seconds
  <2>1. R = s /\ R <= Minute
    <3>1. R = s
      BY <1>6 DEF Since
    <3>2. QED
      BY <1>1, <3>1, Numbers
  <2>2. x.age = R /\ ~(x.age > Minute)
    BY <1>1, <1>4, <2>1, Numbers DEF AtMost
  <2> HIDE DEF x
  <2>3. /\ v.count > 0
        /\ v.count < Limit => LastIn(h, R) <= v.count + gone
        /\ LastIn(h, Minute) < 2 * Limit + v.count + gone
    BY <2>1 DEF QuotasKept, RowBound
  <2>4. LastIn(h, R) < 2 * Limit + gone
    <3>1. 2 * Limit + out <= 2 * Limit + gone
      BY Numbers
    <3>2. 2 * Limit + out \in Nat /\ 2 * Limit + gone \in Nat
      BY Numbers
    <3> HIDE DEF s, R
    <3>3. QED
      BY <1>2, <2>1, <3>1, <3>2
  <2>5. MemoryBound(h, x, gone)
    BY <1>4, <2>2, <2>3, <2>4 DEF MemoryBound
  <2>6. JointBound(h, x, v, p, gone)
    <3>1. ~(x.age > s) /\ ~(x.age < s)
      BY <1>1, <2>1, <2>2
    <3>2. QED
      BY <3>1 DEF JointBound
  <2>7. QED
    BY <1>5, <2>5, <2>6 DEF QuotasKept, x
<1>7. CASE v.age >= Seconds
  <2>1. s = p /\ R >= Minute
    <3>1. ~(v.age < Seconds)
      BY <1>1, <1>7, Numbers
    <3>2. QED
      BY <1>1, <1>7, <3>1 DEF Since
  <2>2. LastIn(h, p) <= gone /\ LastIn(h, Minute) < 2 * Limit + gone
    BY <1>7 DEF QuotasKept, RowBound
  <2>3. LastIn(h, 0) \in Nat /\ LastIn(h, 0) <= gone
    <3>1. 0 \in Int /\ p \in Int /\ 0 <= p
      BY <1>1
    <3>2. LastIn(h, 0) \in Nat /\ LastIn(h, 0) <= LastIn(h, p) /\ LastIn(h, p) \in Nat
      BY <1>3, <3>1
    <3>3. QED
      BY <2>2, <3>2
  <2>4. LastIn(h, s) < Limit + gone
    BY <1>2, <2>1, <2>2, Numbers
  <2>5. CASE R = Minute
    <3>1. x.age = Minute /\ x.age <= Minute /\ ~(x.age > Minute) /\ ~(x.age < s)
      BY <1>1, <1>4, <2>5, Numbers DEF AtMost
    <3> HIDE DEF x
    <3>2. /\ v.count > 0
          /\ v.count < Limit => LastIn(h, Minute) <= v.count + gone
          /\ LastIn(h, Minute) < 2 * Limit + v.count + gone
      <4>1. R <= Minute
        BY <1>1, <2>5
      <4>2. QED
        BY <2>5, <4>1 DEF QuotasKept, RowBound
    <3>3. MemoryBound(h, x, gone)
      BY <1>4, <2>2, <3>1, <3>2 DEF MemoryBound
    <3>4. LastIn(h, s) < v.count + gone
      BY <1>1, <1>2, <2>1, <2>2, <3>2
    <3>5. JointBound(h, x, v, p, gone)
      BY <1>4, <2>4, <3>1, <3>4 DEF JointBound
    <3>6. QED
      BY <1>5, <3>3, <3>5 DEF QuotasKept, x
  <2>6. CASE R # Minute
    <3>1. x.age = Minute + 1 /\ ~(x.age <= Minute) /\ ~(x.age < s)
      BY <1>1, <1>4, <2>1, <2>6, Numbers DEF AtMost
    <3> HIDE DEF x
    <3>2. MemoryBound(h, x, gone)
      BY <2>2, <2>3, <3>1 DEF MemoryBound
    <3>3. JointBound(h, x, v, p, gone)
      BY <2>4, <3>1 DEF JointBound
    <3>4. QED
      BY <1>5, <3>2, <3>3 DEF QuotasKept, x
  <2>7. QED
    BY <2>5, <2>6
<1>8. QED
  BY <1>1, <1>6, <1>7, Numbers

\* A call let through by a record that a reload published is not in this history, and
\* yet its save moves the row.
LEMMA OtherKeeps ==
  ASSUME NEW h \in Histories,
         NEW w \in Windows(0 .. Minute + 1), NEW v \in Windows(0 .. Seconds + 1),
         NEW p \in 0 .. Ticks - 1, NEW out \in Nat, NEW gone \in Nat,
         QuotasKept(h, w, v, p, out, gone)
  PROVE  QuotasKept(h, w, v, p, out, gone + 1)
<1> DEFINE R == RowAge(v, p)
<1>1. v.age \in Nat /\ v.count \in Nat /\ R \in Nat /\ p \in Nat
  BY RowAges, Numbers
<1>2. LastIn(h, R) \in Nat /\ LastIn(h, p) \in Nat /\ LastIn(h, Minute) \in Nat
  <2>1. R \in Int /\ p \in Int /\ Minute \in Int
    BY <1>1, Numbers
  <2> HIDE DEF R
  <2>2. QED
    BY <2>1, LastType
<1>3. RowBound(h, v, p, gone + 1)
  <2>1. ASSUME R <= Minute
        PROVE  /\ v.count > 0
               /\ v.count < Limit => LastIn(h, R) <= v.count + (gone + 1)
               /\ LastIn(h, Minute) < 2 * Limit + v.count + (gone + 1)
    <3>1. /\ v.count > 0
          /\ v.count < Limit => LastIn(h, R) <= v.count + gone
          /\ LastIn(h, Minute) < 2 * Limit + v.count + gone
      BY <2>1 DEF QuotasKept, RowBound
    <3>2. v.count < Limit => LastIn(h, R) <= v.count + (gone + 1)
      BY <1>1, <1>2, <3>1
    <3>3. LastIn(h, Minute) < 2 * Limit + v.count + (gone + 1)
      <4> DEFINE bound == 2 * Limit + v.count
      <4>1. bound \in Nat /\ LastIn(h, Minute) < bound + gone
        BY <1>1, <3>1, Numbers
      <4> HIDE DEF bound
      <4>2. LastIn(h, Minute) < bound + (gone + 1)
        BY <1>2, <4>1
      <4>3. QED
        BY <4>2 DEF bound
    <3>4. QED
      BY <3>1, <3>2, <3>3
  <2>2. ASSUME v.age >= Seconds
        PROVE  LastIn(h, p) <= gone + 1 /\ LastIn(h, Minute) < 2 * Limit + (gone + 1)
    <3>1. LastIn(h, p) <= gone /\ LastIn(h, Minute) < 2 * Limit + gone
      BY <2>2 DEF QuotasKept, RowBound
    <3>2. QED
      BY <1>2, <3>1, Numbers
  <2>3. QED
    BY <2>1, <2>2 DEF RowBound
<1>4. QED
  BY <1>3 DEF QuotasKept

-----------------------------------------------------------------------------
\* Records that a reload has published.  h is the history of one and w its window:
\* but for some calls, the count covers what was let through since the window began,
\* and but for more, what was let through in a minute.
Filled(h, w, before, total) ==
  /\ LastIn(h, w.age - 1) <= before + w.count
  /\ LastIn(h, Minute) <= total + w.count

\* What may be missing from the count depends on where the loader is: the window of
\* the new record fills up, again when the count has been set back, and once more
\* when the start has; the window that begins after those is the fourth.
Stage(stage, h, w) ==
  /\ stage \in {"row", "count"} => Filled(h, w, 0, Limit)
  /\ stage = "start" => Filled(h, w, Limit, 2 * Limit)
  /\ stage = "idle" => Filled(h, w, 0, 3 * Limit) \/ LastIn(h, Minute) <= 2 * Limit + w.count

LEMMA LastNumbers ==
  ASSUME NEW h \in Histories, NEW w \in Windows(0 .. Minute + 1)
  PROVE  /\ w.age \in Nat /\ w.age <= Minute + 1 /\ w.count \in Nat /\ w.count <= Limit
         /\ LastIn(h, Minute) \in Nat /\ LastIn(h, w.age - 1) \in Nat
         /\ w.age > Minute => LastIn(h, w.age - 1) = LastIn(h, Minute)
         /\ LastIn(h, 0 - 1) = 0
<1>1. w.age \in Nat /\ w.age <= Minute + 1 /\ w.count \in Nat /\ w.count <= Limit
  BY Numbers DEF Windows
<1>2. Minute \in Int /\ w.age - 1 \in Int /\ (w.age > Minute => w.age - 1 >= Minute - 1)
  BY <1>1, Numbers
<1>3. /\ \A n \in Int : LastIn(h, n) \in Nat
      /\ \A n \in Int : n >= Minute - 1 => LastIn(h, n) = LastIn(h, Minute)
  BY LastType
<1>4. LastIn(h, 0 - 1) = 0
  <2>1. \A a \in Ages : ~(a <= 0 - 1)
    BY AgesFinite
  <2>2. {a \in Ages : a <= 0 - 1} = {}
    BY <2>1
  <2>3. QED
    BY <2>2, SumOfNone DEF LastIn
<1>5. QED
  BY <1>1, <1>2, <1>3, <1>4

\* At no stage does a record let more than four quotas through in a minute.
LEMMA StageCap ==
  ASSUME NEW h \in Histories, NEW w \in Windows(0 .. Minute + 1),
         NEW stage \in {"idle", "row", "count", "start"}, Stage(stage, h, w)
  PROVE  LastIn(h, Minute) <= 4 * Limit
<1> DEFINE total == LastIn(h, Minute)
<1>1. w.count \in Nat /\ w.count <= Limit /\ total \in Nat /\ Limit \in Nat
  BY LastNumbers, Numbers
<1>2. \/ total <= Limit + w.count
      \/ total <= 2 * Limit + w.count
      \/ total <= 3 * Limit + w.count
  BY DEF Stage, Filled
<1> HIDE DEF total
<1>3. total <= 4 * Limit
  BY <1>1, <1>2
<1>4. QED
  BY <1>3 DEF total

\* Time.
LEMMA StageTick ==
  ASSUME NEW h \in Histories, NEW g \in Histories, Older(h, g),
         NEW w \in Windows(0 .. Minute + 1), NEW x \in Windows(0 .. Minute + 1),
         x.count = w.count, x.age = AtMost(w.age + 1, Minute + 1),
         NEW stage, Stage(stage, h, w)
  PROVE  Stage(stage, g, x)
<1>1. /\ w.age \in Nat /\ w.age <= Minute + 1 /\ w.count \in Nat
      /\ LastIn(h, Minute) \in Nat /\ LastIn(h, w.age - 1) \in Nat
      /\ w.age > Minute => LastIn(h, w.age - 1) = LastIn(h, Minute)
  BY LastNumbers
<1>2. LastIn(g, Minute) \in Nat /\ LastIn(g, Minute) <= LastIn(h, Minute)
  BY LastNumbers, LastShifted
<1>3. LastIn(g, x.age - 1) \in Nat /\ LastIn(g, x.age - 1) <= LastIn(h, w.age - 1)
  <2>1. LastIn(g, x.age - 1) \in Nat
    BY LastNumbers
  <2>2. CASE w.age <= Minute
    <3>1. x.age - 1 = w.age
      BY <1>1, <2>2, Numbers DEF AtMost
    <3>2. CASE w.age = 0
      <4>1. LastIn(g, 0) = 0
        BY LastShifted
      <4>2. QED
        BY <1>1, <3>1, <3>2, <4>1
    <3>3. CASE w.age # 0
      <4>1. w.age - 1 \in Nat /\ w.age = (w.age - 1) + 1
        BY <1>1, <3>3
      <4>2. LastIn(g, w.age) <= LastIn(h, w.age - 1)
        BY <1>1, <4>1, LastShifted
      <4>3. QED
        BY <2>1, <3>1, <4>2
    <3>4. QED
      BY <3>2, <3>3
  <2>3. CASE w.age > Minute
    <3>1. x.age > Minute
      BY <1>1, <2>3, Numbers DEF AtMost
    <3>2. LastIn(g, x.age - 1) = LastIn(g, Minute)
      BY <3>1, LastNumbers
    <3>3. QED
      BY <1>1, <1>2, <2>1, <2>3, <3>2
  <2>4. QED
    BY <1>1, <2>2, <2>3, Numbers
<1>4. ASSUME NEW before \in Nat, NEW total \in Nat, Filled(h, w, before, total)
      PROVE  Filled(g, x, before, total)
  <2>1. LastIn(h, w.age - 1) <= before + w.count /\ LastIn(h, Minute) <= total + w.count
    BY <1>4 DEF Filled
  <2>2. LastIn(g, x.age - 1) <= before + x.count
    BY <1>1, <1>3, <2>1
  <2>3. LastIn(g, Minute) <= total + x.count
    BY <1>1, <1>2, <2>1
  <2>4. QED
    BY <2>2, <2>3 DEF Filled
<1>5. LastIn(h, Minute) <= 2 * Limit + w.count => LastIn(g, Minute) <= 2 * Limit + x.count
  BY <1>1, <1>2, Numbers
<1>6. 0 \in Nat /\ Limit \in Nat /\ 2 * Limit \in Nat /\ 3 * Limit \in Nat
  BY Numbers
<1>7. QED
  BY <1>4, <1>5, <1>6 DEF Stage

\* A call that is counted, and one that is also let through.
LEMMA FilledCounted ==
  ASSUME NEW h \in Histories, NEW w \in Windows(0 .. Minute + 1),
         NEW before \in Nat, NEW total \in Nat, before + Limit <= total,
         Filled(h, w, before, total)
  PROVE  /\ Filled(h, Counted(w), before, total)
         /\ Current(w).count < Limit => Filled(OneMore(h), Counted(w), before, total)
<1> DEFINE g == OneMore(h)
           x == Counted(w)
           then == LastIn(h, w.age - 1)
           now == LastIn(g, w.age - 1)
           all == LastIn(h, Minute)
<1>1. /\ w.age \in Nat /\ w.age <= Minute + 1 /\ w.count \in Nat /\ w.count <= Limit
      /\ all \in Nat /\ then \in Nat /\ (w.age > Minute => then = all)
      /\ LastIn(h, 0 - 1) = 0 /\ Limit \in Nat /\ Minute \in Nat
  BY LastNumbers, Numbers
<1>2. g \in Histories /\ \A n \in Nat : LastIn(g, n) = LastIn(h, n) + 1
  BY HistoryTypes, LastAdded
<1>3. LastIn(g, 0 - 1) = 0 /\ LastIn(g, Minute) = all + 1
  BY <1>1, <1>2, LastNumbers
<1>4. now <= then + 1
  <2>1. CASE w.age = 0
    BY <1>1, <1>3, <2>1
  <2>2. CASE w.age # 0
    <3>1. w.age - 1 \in Nat
      BY <1>1, <2>2
    <3>2. now = then + 1
      BY <1>2, <3>1
    <3> HIDE DEF then, now
    <3>3. QED
      BY <1>1, <3>2
  <2>3. QED
    BY <2>1, <2>2
<1>5. now \in Nat
  BY <1>2, LastNumbers
<1>6. then <= before + w.count /\ all <= total + w.count
  BY DEF Filled
<1>7. CASE w.age <= Minute
  <2>1. /\ Current(w).count = w.count /\ x.age = w.age
        /\ x.count = IF w.count < Limit THEN w.count + 1 ELSE Limit
    BY <1>7, CountedWindow
  <2> HIDE DEF x, then, all, now
  <2> DEFINE c == w.count
             d == x.count
  <2>2. /\ c \in Nat /\ d \in Nat /\ c <= d /\ (c < Limit => d = c + 1)
        /\ then <= before + c /\ all <= total + c
    <3> DEFINE limit == Limit
    <3>1. d = IF c < limit THEN c + 1 ELSE limit
      BY <2>1
    <3>2. c \in Nat /\ limit \in Nat /\ c <= limit
      BY <1>1
    <3>3. then <= before + c /\ all <= total + c
      BY <1>6
    <3> HIDE DEF c, d, limit
    <3>4. d \in Nat /\ c <= d /\ (c < limit => d = c + 1)
      BY <3>1, <3>2
    <3>5. QED
      BY <3>2, <3>3, <3>4 DEF limit
  <2>3. all \in Nat /\ then \in Nat /\ now \in Nat /\ now <= then + 1
    BY <1>1, <1>4, <1>5
  <2>4. then <= before + x.count /\ all <= total + x.count
    <3> HIDE DEF c, d
    <3>1. then <= before + d /\ all <= total + d
      BY <2>2, <2>3
    <3>2. QED
      BY <3>1 DEF d
  <2>5. w.count < Limit => now <= before + x.count /\ all + 1 <= total + x.count
    <3> HIDE DEF c, d
    <3>1. c < Limit => now <= before + d /\ all + 1 <= total + d
      BY <2>2, <2>3
    <3>2. QED
      BY <3>1 DEF c, d
  <2>6. Filled(h, x, before, total)
    BY <2>1, <2>4 DEF Filled, then, all
  <2>7. w.count < Limit => Filled(g, x, before, total)
    BY <1>3, <2>1, <2>5 DEF Filled, now
  <2>8. QED
    BY <2>1, <2>6, <2>7 DEF x
<1>8. CASE w.age > Minute
  <2>1. x.age = 0 /\ x.count = 1
    BY <1>8, CountedWindow
  <2> HIDE DEF x, then, all
  <2>2. 0 <= before + 1 /\ all + 1 <= total + 1 /\ all <= total + 1
    BY <1>1, <1>6, <1>8
  <2>3. Filled(h, x, before, total) /\ Filled(g, x, before, total)
    BY <1>1, <1>3, <2>1, <2>2 DEF Filled, all
  <2>4. QED
    BY <2>3 DEF x
<1>9. QED
  BY <1>1, <1>7, <1>8

LEMMA StageCounted ==
  ASSUME NEW h \in Histories, NEW w \in Windows(0 .. Minute + 1), NEW stage, Stage(stage, h, w)
  PROVE  /\ Stage(stage, h, Counted(w))
         /\ Current(w).count < Limit => Stage(stage, OneMore(h), Counted(w))
<1> DEFINE g == OneMore(h)
           x == Counted(w)
           all == LastIn(h, Minute)
<1>1. 0 \in Nat /\ Limit \in Nat /\ 2 * Limit \in Nat /\ 3 * Limit \in Nat
      /\ 0 + Limit <= Limit /\ Limit + Limit <= 2 * Limit /\ 0 + Limit <= 3 * Limit
  BY Numbers
<1>2. ASSUME NEW before \in Nat, NEW total \in Nat, before + Limit <= total,
             Filled(h, w, before, total)
      PROVE  /\ Filled(h, x, before, total)
             /\ Current(w).count < Limit => Filled(g, x, before, total)
  BY <1>2, FilledCounted
<1>3. ASSUME all <= 2 * Limit + w.count
      PROVE  /\ Filled(h, x, 0, 3 * Limit) \/ all <= 2 * Limit + x.count
             /\ Current(w).count < Limit =>
                  Filled(g, x, 0, 3 * Limit) \/ LastIn(g, Minute) <= 2 * Limit + x.count
  <2>1. /\ w.age \in Nat /\ w.count \in Nat /\ w.count <= Limit /\ all \in Nat
        /\ LastIn(h, 0 - 1) = 0
    BY LastNumbers
  <2>2. LastIn(g, 0 - 1) = 0 /\ LastIn(g, Minute) = all + 1
    <3>1. g \in Histories /\ LastIn(g, Minute) = all + 1
      BY HistoryTypes, LastAdded, Numbers
    <3>2. QED
      BY <3>1, LastNumbers
  <2>3. CASE w.age <= Minute
    <3>1. /\ Current(w).count = w.count
          /\ x.count = IF w.count < Limit THEN w.count + 1 ELSE Limit
      BY <2>3, CountedWindow
    <3> HIDE DEF x, all, g
    <3>2. all <= 2 * Limit + x.count
      BY <1>1, <1>3, <2>1, <3>1
    <3>3. w.count < Limit => all + 1 <= 2 * Limit + x.count
      BY <1>1, <1>3, <2>1, <3>1
    <3>4. QED
      BY <2>2, <3>1, <3>2, <3>3
  <2>4. CASE w.age > Minute
    <3>1. x.age = 0 /\ x.count = 1
      BY <2>4, CountedWindow
    <3> HIDE DEF x, all, g
    <3>2. all + 1 <= 3 * Limit + 1 /\ all <= 3 * Limit + 1 /\ 0 <= 0 + 1
      BY <1>1, <1>3, <2>1
    <3>3. Filled(h, x, 0, 3 * Limit) /\ Filled(g, x, 0, 3 * Limit)
      BY <2>1, <2>2, <3>1, <3>2 DEF Filled, all
    <3>4. QED
      BY <3>3
  <2>5. QED
    BY <2>1, <2>3, <2>4, Numbers
<1> HIDE DEF x, g
<1>4. Stage(stage, h, x)
  BY <1>1, <1>2, <1>3 DEF Stage
<1>5. Current(w).count < Limit => Stage(stage, g, x)
  BY <1>1, <1>2, <1>3 DEF Stage
<1>6. QED
  BY <1>4, <1>5 DEF x, g

\* What the loader does to the record: published empty, its count set, its start set.
LEMMA StageLoaded ==
  ASSUME NEW h \in Histories
  PROVE  /\ LastIn(h, Minute) = 0 => Stage("row", h, Window(0, 0))
         /\ \A w \in Windows(0 .. Minute + 1) :
              /\ Stage("row", h, w) => Stage("count", h, w)
              /\ \A c \in 0 .. Limit :
                   Stage("count", h, w) => Stage("start", h, [w EXCEPT !.count = c])
              /\ \A a \in 0 .. Minute + 1 :
                   Stage("start", h, w) => Stage("idle", h, [w EXCEPT !.age = a])
<1> DEFINE all == LastIn(h, Minute)
<1>1. all \in Nat /\ LastIn(h, 0 - 1) = 0 /\ Limit \in Nat
  BY FirstWindows, LastNumbers, Numbers
<1>2. ASSUME all = 0 PROVE Stage("row", h, Window(0, 0))
  <2>1. Window(0, 0).age = 0 /\ Window(0, 0).count = 0
    BY DEF Window
  <2>2. Filled(h, Window(0, 0), 0, Limit)
    BY <1>1, <1>2, <2>1 DEF Filled
  <2>3. QED
    BY <2>2 DEF Stage
<1>3. ASSUME NEW w \in Windows(0 .. Minute + 1)
      PROVE  /\ Stage("row", h, w) => Stage("count", h, w)
             /\ \A c \in 0 .. Limit :
                  Stage("count", h, w) => Stage("start", h, [w EXCEPT !.count = c])
             /\ \A a \in 0 .. Minute + 1 :
                  Stage("start", h, w) => Stage("idle", h, [w EXCEPT !.age = a])
  <2> DEFINE then == LastIn(h, w.age - 1)
  <2>1. then \in Nat /\ w.count \in Nat /\ w.count <= Limit
    BY LastNumbers
  <2>2. Stage("row", h, w) => Stage("count", h, w)
    BY DEF Stage
  <2>3. ASSUME NEW c \in 0 .. Limit, Stage("count", h, w)
        PROVE  Stage("start", h, [w EXCEPT !.count = c])
    <3>1. then <= 0 + w.count /\ all <= Limit + w.count
      BY <2>3 DEF Stage, Filled
    <3> HIDE DEF then, all
    <3>2. then <= Limit + c /\ all <= 2 * Limit + c
      BY <1>1, <2>1, <3>1
    <3>3. [w EXCEPT !.count = c].age = w.age /\ [w EXCEPT !.count = c].count = c
      BY DEF Windows
    <3>4. Filled(h, [w EXCEPT !.count = c], Limit, 2 * Limit)
      BY <3>2, <3>3 DEF Filled, then, all
    <3>5. QED
      BY <3>4 DEF Stage
  <2>4. ASSUME NEW a \in 0 .. Minute + 1, Stage("start", h, w)
        PROVE  Stage("idle", h, [w EXCEPT !.age = a])
    <3>1. all <= 2 * Limit + w.count
      BY <2>4 DEF Stage, Filled
    <3>2. [w EXCEPT !.age = a].count = w.count
      BY DEF Windows
    <3>3. QED
      BY <3>1, <3>2 DEF Stage
  <2>5. QED
    BY <2>2, <2>3, <2>4
<1>4. QED
  BY <1>2, <1>3

-----------------------------------------------------------------------------
\* Calls count in the record that the process started with, or in one that a reload
\* has published since.
Renewed ==
  /\ first <= live /\ live - first <= reloads /\ reloads < live
  /\ \A r \in Requests : rec[r] # None => rec[r] >= first
  /\ loader # "idle" => live > first

\* The loader is at work on the record that is live.
StageOf(k) == IF k = live THEN loader ELSE "idle"

Stages ==
  \A k \in Records :
    first < k /\ k <= live /\ Held(k) => Stage(StageOf(k), anew[Reloaded(k)], usage[k])

\* A record may be gone and its calls still within the minute.
Capped ==
  \A n \in 1 .. MaxReloads :
    LastIn(anew[n], Minute) <= 4 * Limit /\ (n > reloads => LastIn(anew[n], Minute) = 0)

\* When nobody holds the record that the process started with, its window is gone, but
\* there is one that it would have had.
Quotas ==
  \E w \in Windows(0 .. Minute + 1) :
    /\ Held(first) => w = usage[first]
    /\ QuotasKept(recent, w, row, phase, lost, lost + Cardinality(Unsaved))

MinuteInv == RpmInv /\ Renewed /\ Capped /\ Stages /\ Quotas

LEMMA MinuteTypes ==
  ASSUME RpmInv
  PROVE  /\ usage \in [Records -> Windows(0 .. Minute + 1)]
         /\ live \in Records /\ first \in Records
         /\ \A k \in Records : k \in Nat /\ k # None
         /\ recent \in Histories /\ anew \in [1 .. MaxReloads -> Histories]
         /\ row \in Windows(0 .. Seconds + 1) /\ copy \in Windows(0 .. Seconds + 1)
         /\ phase \in 0 .. Ticks - 1 /\ lost \in Nat
         /\ reloads \in 0 .. MaxReloads /\ reloads \in Nat
         /\ at \in [Requests -> {"new", "check", "save"}]
         /\ rec \in [Requests -> Records \cup {None}]
         /\ loader \in {"idle", "row", "count", "start"}
         /\ \A r \in Requests : rec[r] <= live /\ (at[r] = "check" => rec[r] # None)
<1>1. RpmTypeOK /\ Numbered
  BY DEF RpmInv
<1>2. recent \in Histories /\ anew \in [1 .. MaxReloads -> Histories]
  BY <1>1, RpmHistories
<1>3. \A k \in Records : k \in Nat /\ k # None
  BY Numbers DEF Records, None
<1>4. lost \in Nat /\ reloads \in Nat
  BY <1>1, Numbers DEF RpmTypeOK
<1>5. QED
  BY <1>1, <1>2, <1>3, <1>4 DEF RpmTypeOK, Numbered

\* Each of the records that reloads have published has a history of its own.
LEMMA ReloadedNumbers ==
  ASSUME RpmInv, Renewed
  PROVE  /\ \A k \in Records : first < k /\ k <= live =>
              Reloaded(k) \in 1 .. MaxReloads /\ Reloaded(k) <= reloads
         /\ \A k, j \in Records : Reloaded(k) = Reloaded(j) => k = j
<1>1. /\ live \in Nat /\ first \in Nat /\ reloads \in Nat /\ reloads <= MaxReloads
      /\ MaxReloads \in Nat /\ \A k \in Records : k \in Nat
  BY MinuteTypes, Numbers
<1>2. live - first <= reloads
  BY DEF Renewed
<1>3. QED
  BY <1>1, <1>2 DEF Reloaded

\* Only lookup takes hold of a record, and that is the one that is live.
LEMMA HeldBefore ==
  ASSUME RpmInv, NEW k \in Records, Held(k)', live' = live,
         \A q \in Requests : rec'[q] \in {rec[q], live, None}
  PROVE  Held(k)
<1>1. k # None
  BY MinuteTypes
<1>2. QED
  BY <1>1 DEF Held

\* What a call does that has its record: it counts there, and if it is let through, it
\* goes into the history of that record and has a save to come.
LEMMA CheckedStep ==
  ASSUME RpmInv, Renewed, NEW r \in Requests, Checked(r)
  PROVE  LET j == rec[r] IN
         /\ at[r] = "check" /\ j \in Records /\ first <= j /\ j <= live /\ Held(j)
         /\ usage' = [usage EXCEPT ![j] = Counted(@)]
         /\ UNCHANGED <<live, row, phase, loader, copy, first, reloads, lost>>
         /\ \A q \in Requests : rec'[q] \in {rec[q], live, None}
         /\ \A q \in Requests : q # r => at'[q] = at[q]
         /\ \/ at'[r] = "new" /\ recent' = recent /\ anew' = anew
            \/ /\ at'[r] = "save" /\ Current(usage[j]).count < Limit
               /\ \/ j = first /\ recent' = OneMore(recent) /\ anew' = anew
                  \/ /\ j # first /\ recent' = recent
                     /\ anew' = [anew EXCEPT ![Reloaded(j)] = OneMore(@)]
<1> DEFINE j == rec[r]
<1>1. /\ at[r] = "check" /\ usage' = [usage EXCEPT ![j] = Counted(@)]
      /\ rec' = [rec EXCEPT ![r] = None]
      /\ UNCHANGED <<live, row, phase, loader, copy, first, reloads, lost>>
  BY DEF Checked, RefuseRpm, RefuseOtherwise, Admit, Check, reload, history
<1>2. j \in Records /\ j <= live /\ j # None
  BY <1>1, MinuteTypes
<1>3. first <= j
  <2>1. j >= first /\ j \in Nat /\ first \in Nat
    BY <1>2, MinuteTypes DEF Renewed
  <2>2. QED
    BY <2>1
<1>4. Held(j)
  BY DEF Held
<1>5. \A q \in Requests : rec'[q] \in {rec[q], live, None}
  BY <1>1, MinuteTypes
<1>6. CASE RefuseRpm(r) \/ RefuseOtherwise(r)
  <2>1. at' = [at EXCEPT ![r] = "new"] /\ recent' = recent /\ anew' = anew
    BY <1>6 DEF RefuseRpm, RefuseOtherwise, Go, history, counted
  <2>2. at'[r] = "new" /\ \A q \in Requests : q # r => at'[q] = at[q]
    BY <2>1, MinuteTypes
  <2>3. QED
    BY <1>1, <1>2, <1>3, <1>4, <1>5, <2>1, <2>2
<1>7. CASE Admit(r)
  <2>1. /\ at' = [at EXCEPT ![r] = "save"] /\ Current(usage[j]).count < Limit
        /\ \/ j = first /\ recent' = OneMore(recent) /\ anew' = anew
           \/ /\ j # first /\ recent' = recent
              /\ anew' = [anew EXCEPT ![Reloaded(j)] = OneMore(@)]
    BY <1>7 DEF Admit, Go, HasQuota, Count
  <2>2. at'[r] = "save" /\ \A q \in Requests : q # r => at'[q] = at[q]
    BY <2>1, MinuteTypes
  <2>3. QED
    BY <1>1, <1>2, <1>3, <1>4, <1>5, <2>1, <2>2
<1>8. QED
  BY <1>6, <1>7 DEF Checked

\* The other steps of a call leave the windows and the histories alone.
LEMMA OtherStep ==
  ASSUME RpmInv, NEW r \in Requests, Lookup(r) \/ Save(r) \/ SaveFails(r)
  PROVE  /\ UNCHANGED <<usage, live, phase, loader, copy, recent, anew, first, reloads>>
         /\ \A q \in Requests : rec'[q] \in {rec[q], live, None}
         /\ \A q \in Requests : q # r => at'[q] = at[q]
         /\ \/ at[r] = "new" /\ at'[r] = "check" /\ row' = row /\ lost' = lost
            \/ at[r] = "save" /\ at'[r] = "new" /\ row' = Saved(row) /\ lost' = lost
            \/ at[r] = "save" /\ at'[r] = "new" /\ row' = row /\ lost' = lost + 1
BY MinuteTypes DEF Lookup, Save, SaveFails, Go, reload, history, counted

LEMMA NextKeepsRenewed ==
  ASSUME RpmInv, Renewed, [RpmNext]_rpmVars
  PROVE  Renewed'
<1>1. /\ live \in Nat /\ first \in Nat /\ reloads \in Nat
      /\ first <= live /\ live - first <= reloads /\ reloads < live
      /\ \A r \in Requests : rec[r] # None => rec[r] >= first
      /\ \A r \in Requests : rec[r] \in Nat
      /\ loader # "idle" => live > first
  BY MinuteTypes DEF Renewed, None
<1>2. CASE Tick
  BY <1>1, <1>2 DEF Tick, clients, Renewed
<1>3. ASSUME NEW r \in Requests, Request(r) PROVE Renewed'
  <2>1. UNCHANGED <<live, first, reloads, loader>>
        /\ \A q \in Requests : rec'[q] \in {rec[q], live, None}
    BY <1>3, CheckedStep, OtherStep DEF Request, Checked
  <2>2. QED
    BY <1>1, <2>1 DEF Renewed
<1>4. CASE Reload
  <2>1. CASE ReplaceRecords
    <3>1. live' = live + 1 /\ reloads' = reloads + 1 /\ first' = first /\ rec' = rec
      BY <2>1 DEF ReplaceRecords, clients
    <3>2. QED
      BY <1>1, <3>1 DEF Renewed
  <2>2. CASE ReadRow \/ RestoreCount \/ RestoreStart
    <3>1. live' = live /\ reloads' = reloads /\ first' = first /\ rec' = rec /\ loader # "idle"
      BY <2>2 DEF ReadRow, RestoreCount, RestoreStart, clients, history
    <3>2. QED
      BY <1>1, <3>1 DEF Renewed
  <2>3. QED
    BY <1>4, <2>1, <2>2 DEF Reload
<1>5. CASE Restart
  <2>1. /\ live' = live + 1 /\ first' = live + 1 /\ reloads' = reloads /\ loader' = "idle"
        /\ \A r \in Requests : rec'[r] = None
    BY <1>5 DEF Restart
  <2>2. QED
    BY <1>1, <2>1 DEF Renewed
<1>6. CASE UNCHANGED rpmVars
  BY <1>1, <1>6 DEF rpmVars, clients, reload, history, Renewed
<1>7. QED
  BY <1>2, <1>3, <1>4, <1>5, <1>6 DEF RpmNext

-----------------------------------------------------------------------------
\* Time moves every record that is held, and every history.
LEMMA TickStages ==
  ASSUME MinuteInv, RpmInv', Tick
  PROVE  Stages' /\ Capped'
<1>1. RpmInv /\ Renewed /\ Capped /\ Stages
  BY DEF MinuteInv
<1>2. /\ usage \in [Records -> Windows(0 .. Minute + 1)]
      /\ usage' \in [Records -> Windows(0 .. Minute + 1)]
      /\ anew \in [1 .. MaxReloads -> Histories]
  BY <1>1, MinuteTypes DEF RpmInv, RpmTypeOK
<1>3. /\ live' = live /\ first' = first /\ reloads' = reloads /\ loader' = loader /\ rec' = rec
      /\ \A k \in Records : Held(k) =>
           usage'[k] = [usage[k] EXCEPT !.age = AtMost(@ + 1, Minute + 1)]
      /\ anew' = [n \in 1 .. MaxReloads |-> Later(anew[n])]
  BY DEF Tick, clients
<1>4. \A n \in 1 .. MaxReloads :
        anew[n] \in Histories /\ anew'[n] \in Histories /\ Older(anew[n], anew'[n])
  BY <1>2, <1>3, HistoryTypes
<1>5. Stages'
  <2> SUFFICES ASSUME NEW k \in Records, first < k, k <= live, Held(k)'
               PROVE  Stage(StageOf(k), anew'[Reloaded(k)], usage'[k])
    BY <1>3 DEF Stages, StageOf, Reloaded
  <2>1. Held(k)
    BY <1>3 DEF Held
  <2>2. Reloaded(k) \in 1 .. MaxReloads
    BY <1>1, ReloadedNumbers
  <2>3. Stage(StageOf(k), anew[Reloaded(k)], usage[k])
    BY <1>1, <2>1 DEF Stages
  <2> DEFINE h == anew[Reloaded(k)]
             g == anew'[Reloaded(k)]
             w == usage[k]
             x == usage'[k]
  <2>4. /\ h \in Histories /\ g \in Histories /\ Older(h, g)
        /\ w \in Windows(0 .. Minute + 1) /\ x \in Windows(0 .. Minute + 1)
        /\ x.count = w.count /\ x.age = AtMost(w.age + 1, Minute + 1)
        /\ Stage(StageOf(k), h, w)
    BY <1>2, <1>3, <1>4, <2>1, <2>2, <2>3 DEF Windows
  <2> HIDE DEF h, g, w, x
  <2>5. Stage(StageOf(k), g, x)
    BY <2>4, StageTick
  <2>6. QED
    BY <2>5 DEF g, x
<1>6. Capped'
  <2> SUFFICES ASSUME NEW n \in 1 .. MaxReloads
               PROVE  /\ LastIn(anew'[n], Minute) <= 4 * Limit
                      /\ n > reloads => LastIn(anew'[n], Minute) = 0
    BY <1>3 DEF Capped
  <2>1. LastIn(anew'[n], Minute) <= LastIn(anew[n], Minute)
    BY <1>4, LastShifted
  <2>2. LastIn(anew[n], Minute) \in Nat /\ LastIn(anew'[n], Minute) \in Nat
    BY <1>4, LastType, Numbers
  <2>3. LastIn(anew[n], Minute) <= 4 * Limit /\ (n > reloads => LastIn(anew[n], Minute) = 0)
    BY <1>1 DEF Capped
  <2>4. QED
    BY <2>1, <2>2, <2>3, Numbers
<1>7. QED
  BY <1>5, <1>6

\* A call that is counted changes one record and at most one history.
LEMMA CheckedStages ==
  ASSUME MinuteInv, NEW r \in Requests, Checked(r)
  PROVE  Stages' /\ Capped'
<1> DEFINE j == rec[r]
<1>1. RpmInv /\ Renewed /\ Capped /\ Stages
  BY DEF MinuteInv
<1>2. /\ usage \in [Records -> Windows(0 .. Minute + 1)]
      /\ anew \in [1 .. MaxReloads -> Histories]
      /\ \A k \in Records : StageOf(k) \in {"idle", "row", "count", "start"}
      /\ reloads \in Nat /\ first \in Nat /\ \A k \in Records : k \in Nat
  BY <1>1, MinuteTypes DEF StageOf
<1>3. /\ j \in Records /\ first <= j /\ j <= live /\ Held(j)
      /\ usage' = [usage EXCEPT ![j] = Counted(@)]
      /\ UNCHANGED <<live, loader, first, reloads>>
      /\ \A q \in Requests : rec'[q] \in {rec[q], live, None}
      /\ \/ anew' = anew
         \/ /\ j # first /\ Current(usage[j]).count < Limit
            /\ anew' = [anew EXCEPT ![Reloaded(j)] = OneMore(@)]
  BY <1>1, CheckedStep
<1> HIDE DEF j
<1>4. /\ \A k \in Records : first < k /\ k <= live =>
           Reloaded(k) \in 1 .. MaxReloads /\ Reloaded(k) <= reloads
      /\ \A k, i \in Records : Reloaded(k) = Reloaded(i) => k = i
  BY <1>1, ReloadedNumbers
<1>5. ASSUME j # first PROVE Stage(StageOf(j), anew'[Reloaded(j)], Counted(usage[j]))
  <2>1. first < j
    BY <1>2, <1>3, <1>5
  <2>2. Reloaded(j) \in 1 .. MaxReloads /\ anew[Reloaded(j)] \in Histories
        /\ usage[j] \in Windows(0 .. Minute + 1)
    BY <1>2, <1>3, <1>4, <2>1
  <2>3. Stage(StageOf(j), anew[Reloaded(j)], usage[j])
    BY <1>1, <1>3, <2>1 DEF Stages
  <2>4. /\ Stage(StageOf(j), anew[Reloaded(j)], Counted(usage[j]))
        /\ Current(usage[j]).count < Limit =>
             Stage(StageOf(j), OneMore(anew[Reloaded(j)]), Counted(usage[j]))
    BY <2>2, <2>3, StageCounted
  <2>5. \/ anew'[Reloaded(j)] = anew[Reloaded(j)]
        \/ /\ Current(usage[j]).count < Limit
           /\ anew'[Reloaded(j)] = OneMore(anew[Reloaded(j)])
    BY <1>2, <1>3, <2>2
  <2>6. QED
    BY <2>4, <2>5
<1>6. Stages'
  <2> SUFFICES ASSUME NEW k \in Records, first < k, k <= live, Held(k)'
               PROVE  Stage(StageOf(k), anew'[Reloaded(k)], usage'[k])
    BY <1>3 DEF Stages, StageOf, Reloaded
  <2>1. Held(k)
    BY <1>1, <1>3, HeldBefore
  <2>2. CASE k = j
    <3>1. j # first /\ usage'[k] = Counted(usage[j])
      BY <1>2, <1>3, <2>2
    <3>2. QED
      BY <1>5, <2>2, <3>1
  <2>3. CASE k # j
    <3>1. usage'[k] = usage[k]
      BY <1>2, <1>3, <2>3
    <3>2. anew'[Reloaded(k)] = anew[Reloaded(k)]
      <4>1. Reloaded(k) # Reloaded(j) /\ Reloaded(k) \in 1 .. MaxReloads
        BY <1>3, <1>4, <2>3
      <4>2. QED
        BY <1>2, <1>3, <4>1
    <3>3. QED
      BY <1>1, <2>1, <3>1, <3>2 DEF Stages
  <2>4. QED
    BY <2>2, <2>3
<1>7. Capped'
  <2> SUFFICES ASSUME NEW n \in 1 .. MaxReloads
               PROVE  /\ LastIn(anew'[n], Minute) <= 4 * Limit
                      /\ n > reloads => LastIn(anew'[n], Minute) = 0
    BY <1>3 DEF Capped
  <2>1. CASE anew'[n] = anew[n]
    BY <1>1, <2>1 DEF Capped
  <2>2. CASE anew'[n] # anew[n]
    <3>1. j # first /\ n = Reloaded(j) /\ anew'[n] = OneMore(anew[n])
      BY <1>2, <1>3, <2>2
    <3>2. ~(n > reloads)
      BY <1>2, <1>3, <1>4, <3>1
    <3>3. anew'[n] \in Histories /\ Counted(usage[j]) \in Windows(0 .. Minute + 1)
      BY <1>2, <1>3, <3>1, HistoryTypes, MemoryWindows
    <3>4. Stage(StageOf(j), anew'[n], Counted(usage[j]))
      BY <1>5, <3>1
    <3>5. LastIn(anew'[n], Minute) <= 4 * Limit
      BY <1>2, <1>3, <3>3, <3>4, StageCap
    <3>6. QED
      BY <3>2, <3>5
  <2>3. QED
    BY <2>1, <2>2
<1>8. QED
  BY <1>6, <1>7

\* The loader changes the record that is live, or publishes the next one.
LEMMA ReloadStages ==
  ASSUME MinuteInv, Reload
  PROVE  Stages' /\ Capped'
<1>1. RpmInv /\ Renewed /\ Capped /\ Stages
  BY DEF MinuteInv
<1>2. /\ usage \in [Records -> Windows(0 .. Minute + 1)]
      /\ anew \in [1 .. MaxReloads -> Histories]
      /\ reloads \in Nat /\ first \in Nat /\ live \in Records
      /\ \A k \in Records : k \in Nat /\ k # None
      /\ copy \in Windows(0 .. Seconds + 1) /\ phase \in 0 .. Ticks - 1
      /\ \A q \in Requests : rec[q] <= live /\ rec[q] \in Records \cup {None}
  BY <1>1, MinuteTypes
<1>3. anew' = anew /\ first' = first /\ rec' = rec
  BY DEF Reload, ReplaceRecords, ReadRow, RestoreCount, RestoreStart, clients, history, counted
<1>4. CASE ReplaceRecords
  <2>1. /\ loader = "idle" /\ reloads < MaxReloads /\ live' = live + 1
        /\ usage' = [usage EXCEPT ![live + 1] = Window(0, 0)]
        /\ loader' = "row" /\ reloads' = reloads + 1
    BY <1>4 DEF ReplaceRecords
  <2>2. reloads + 1 \in 1 .. MaxReloads
    BY <1>2, <2>1, Numbers
  <2>3. /\ Stage("row", anew[reloads + 1], Window(0, 0))
    <3>1. LastIn(anew[reloads + 1], Minute) = 0
      BY <1>1, <1>2, <2>2 DEF Capped
    <3>2. QED
      BY <1>2, <2>2, <3>1, StageLoaded
  <2>4. Stages'
    <3> SUFFICES ASSUME NEW k \in Records, first < k, k <= live + 1, Held(k)'
                 PROVE  Stage(StageOf(k)', anew[Reloaded(k)'], usage'[k])
      BY <1>3, <2>1 DEF Stages
    <3>1. Reloaded(k)' = (reloads + 1) - ((live + 1) - k)
      BY <1>2, <2>1 DEF Reloaded
    <3>2. CASE k = live + 1
      <4>1. Reloaded(k)' = reloads + 1 /\ StageOf(k)' = "row" /\ usage'[k] = Window(0, 0)
        BY <1>2, <2>1, <3>1, <3>2 DEF StageOf
      <4>2. QED
        BY <2>3, <4>1
    <3>3. CASE k # live + 1
      <4>1. Reloaded(k)' = Reloaded(k) /\ StageOf(k)' = "idle" /\ StageOf(k) = "idle"
            /\ usage'[k] = usage[k]
        BY <1>2, <2>1, <3>1, <3>3 DEF StageOf, Reloaded
      <4>2. Held(k) /\ k <= live
        BY <1>2, <1>3, <2>1, <3>3 DEF Held
      <4>3. Stage(StageOf(k), anew[Reloaded(k)], usage[k])
        BY <1>1, <4>2 DEF Stages
      <4>4. QED
        BY <4>1, <4>3
    <3>4. QED
      BY <3>2, <3>3
  <2>5. Capped'
    BY <1>1, <1>2, <1>3, <2>1 DEF Capped
  <2>6. QED
    BY <2>4, <2>5
<1>5. CASE ReadRow \/ RestoreCount \/ RestoreStart
  <2> DEFINE w == usage[live]
             h == anew[Reloaded(live)]
  <2>1. live' = live /\ reloads' = reloads /\ loader # "idle"
    BY <1>5 DEF ReadRow, RestoreCount, RestoreStart, history
  <2>2. /\ first < live /\ Held(live) /\ Reloaded(live) \in 1 .. MaxReloads
        /\ w \in Windows(0 .. Minute + 1) /\ h \in Histories
    <3>1. first < live /\ Held(live) /\ live <= live
      BY <1>2, <1>1, <2>1 DEF Renewed, Held
    <3>2. Reloaded(live) \in 1 .. MaxReloads
      BY <1>1, <1>2, <3>1, ReloadedNumbers
    <3>3. QED
      BY <1>2, <3>1, <3>2
  <2>3. Stage(loader, h, w)
    <3>1. live <= live
      BY <1>2
    <3>2. QED
      BY <1>1, <1>2, <2>2, <3>1 DEF Stages, StageOf
  <2>4. Stage(loader', h, usage'[live]) /\ \A k \in Records : k # live => usage'[k] = usage[k]
    <3>1. CASE ReadRow
      <4>1. loader = "row" /\ loader' = "count" /\ usage' = usage
        BY <3>1 DEF ReadRow
      <4> HIDE DEF h
      <4>2. QED
        BY <2>2, <2>3, <4>1, StageLoaded
    <3>2. CASE RestoreCount
      <4>1. /\ loader = "count" /\ loader' = "start" /\ copy.count \in 0 .. Limit
            /\ usage' = [usage EXCEPT ![live] = [w EXCEPT !.count = copy.count]]
        BY <1>2, <3>2, RowWindows DEF RestoreCount
      <4>2. Stage(loader', h, [w EXCEPT !.count = copy.count])
        <5> HIDE DEF h, w
        <5>1. QED
          BY <2>2, <2>3, <4>1, StageLoaded
      <4>3. QED
        BY <1>2, <4>1, <4>2
    <3>3. CASE RestoreStart
      <4> DEFINE a == Restored(copy).age
      <4>1. /\ loader = "start" /\ loader' = "idle" /\ a \in 0 .. Minute + 1
            /\ usage' = [usage EXCEPT ![live] = [w EXCEPT !.age = a]]
        BY <1>2, <3>3, RowWindows DEF RestoreStart, Restored, Window
      <4>2. Stage(loader', h, [w EXCEPT !.age = a])
        <5> HIDE DEF h, w, a
        <5>1. QED
          BY <2>2, <2>3, <4>1, StageLoaded
      <4>3. QED
        BY <1>2, <4>1, <4>2
    <3>4. QED
      BY <1>5, <3>1, <3>2, <3>3
  <2>5. Stages'
    <3> SUFFICES ASSUME NEW k \in Records, first < k, k <= live, Held(k)'
                 PROVE  Stage(StageOf(k)', anew[Reloaded(k)], usage'[k])
      BY <1>3, <2>1 DEF Stages, Reloaded
    <3>1. CASE k = live
      <4>1. StageOf(k)' = loader'
        BY <2>1, <3>1 DEF StageOf
      <4>2. QED
        BY <2>4, <3>1, <4>1
    <3>2. CASE k # live
      <4>1. StageOf(k)' = StageOf(k) /\ Held(k) /\ usage'[k] = usage[k]
        BY <1>3, <2>1, <2>4, <3>2 DEF StageOf, Held
      <4>2. QED
        BY <1>1, <4>1 DEF Stages
    <3>3. QED
      BY <3>1, <3>2
  <2>6. Capped'
    BY <1>1, <1>3, <2>1 DEF Capped
  <2>7. QED
    BY <2>5, <2>6
<1>6. QED
  BY <1>4, <1>5 DEF Reload

LEMMA NextKeepsStages ==
  ASSUME MinuteInv, RpmInv', [RpmNext]_rpmVars
  PROVE  Stages' /\ Capped'
<1>1. RpmInv /\ Renewed /\ Capped /\ Stages
  BY DEF MinuteInv
<1>2. CASE Tick
  BY <1>2, TickStages
<1>3. ASSUME NEW r \in Requests, Request(r) PROVE Stages' /\ Capped'
  <2>1. CASE Checked(r)
    BY <2>1, CheckedStages
  <2>2. CASE Lookup(r) \/ Save(r) \/ SaveFails(r)
    <3>1. /\ UNCHANGED <<usage, live, loader, anew, first, reloads>>
          /\ \A q \in Requests : rec'[q] \in {rec[q], live, None}
      BY <1>1, <2>2, OtherStep
    <3>2. \A k \in Records : Held(k)' => Held(k)
      BY <1>1, <3>1, HeldBefore
    <3>3. QED
      BY <1>1, <3>1, <3>2 DEF Stages, StageOf, Reloaded, Capped
  <2>3. QED
    BY <1>3, <2>1, <2>2 DEF Request, Checked
<1>4. CASE Reload
  BY <1>4, ReloadStages
<1>5. CASE Restart
  <2>1. /\ live' = live + 1 /\ first' = live + 1 /\ reloads' = reloads /\ anew' = anew
    BY <1>5 DEF Restart, counted
  <2>2. Stages'
    <3>1. live \in Nat /\ \A k \in Records : k \in Nat
      BY <1>1, MinuteTypes
    <3>2. QED
      BY <2>1, <3>1 DEF Stages
  <2>3. Capped'
    BY <1>1, <2>1 DEF Capped
  <2>4. QED
    BY <2>2, <2>3
<1>6. CASE UNCHANGED rpmVars
  <2>1. UNCHANGED <<usage, live, rec, loader, anew, first, reloads>>
    BY <1>6 DEF rpmVars, clients, reload, history, counted
  <2>2. QED
    BY <1>1, <2>1 DEF Stages, StageOf, Reloaded, Held, Capped
<1>7. QED
  BY <1>2, <1>3, <1>4, <1>5, <1>6 DEF RpmNext

-----------------------------------------------------------------------------
\* How the number of saves to come moves.
LEMMA UnsavedCount ==
  /\ IsFiniteSet(Unsaved) /\ Cardinality(Unsaved) \in Nat
  /\ \A A, B \in SUBSET Requests, r \in Requests :
       (\A q \in Requests : q # r => (q \in A <=> q \in B))
         => Cardinality(B) = Cardinality(A) + Change(r \in A, r \in B)
<1>1. IsFiniteSet(Requests) /\ Unsaved \in SUBSET Requests
  BY RpmAssumption DEF Unsaved
<1>2. IsFiniteSet(Unsaved)
  BY <1>1, FS_Subset
<1>3. Cardinality(Unsaved) \in Nat
  BY <1>2, FS_CardinalityType
<1>4. ASSUME NEW A \in SUBSET Requests, NEW B \in SUBSET Requests, NEW r \in Requests,
             \A q \in Requests : q # r => (q \in A <=> q \in B)
      PROVE  Cardinality(B) = Cardinality(A) + Change(r \in A, r \in B)
  BY <1>1, <1>4, Recount
<1>5. QED
  BY <1>2, <1>3, <1>4

\* The record that the process started with, and the row.
LEMMA QuotasFacts ==
  ASSUME MinuteInv
  PROVE  /\ Cardinality(Unsaved) \in Nat /\ lost + Cardinality(Unsaved) \in Nat
         /\ lost <= lost + Cardinality(Unsaved)
         /\ \E w \in Windows(0 .. Minute + 1) :
              /\ Held(first) => w = usage[first]
              /\ QuotasKept(recent, w, row, phase, lost, lost + Cardinality(Unsaved))
<1>1. Cardinality(Unsaved) \in Nat
  BY UnsavedCount
<1>2. lost \in Nat
  BY MinuteTypes DEF MinuteInv
<1>3. QED
  BY <1>1, <1>2 DEF MinuteInv, Quotas

LEMMA TickQuotas ==
  ASSUME MinuteInv, RpmInv', Tick
  PROVE  Quotas'
<1> DEFINE gone == lost + Cardinality(Unsaved)
<1>1. gone \in Nat /\ lost <= gone
  BY QuotasFacts
<1>2. PICK w \in Windows(0 .. Minute + 1) :
        (Held(first) => w = usage[first]) /\ QuotasKept(recent, w, row, phase, lost, gone)
  BY QuotasFacts
<1>3. /\ recent \in Histories /\ row \in Windows(0 .. Seconds + 1) /\ phase \in 0 .. Ticks - 1
      /\ lost \in Nat /\ first \in Records
  BY MinuteTypes DEF MinuteInv
<1>4. /\ live' = live /\ first' = first /\ rec' = rec /\ at' = at /\ lost' = lost
      /\ row' = Aged(row, IF phase + 1 = Ticks THEN 1 ELSE 0) /\ phase' = (phase + 1) % Ticks
      /\ recent' = Later(recent)
      /\ Held(first) => usage'[first] = [usage[first] EXCEPT !.age = AtMost(@ + 1, Minute + 1)]
  BY <1>3 DEF Tick, clients
<1> DEFINE x == [w EXCEPT !.age = AtMost(@ + 1, Minute + 1)]
           g == Later(recent)
<1>5. x \in Windows(0 .. Minute + 1)
  BY MemoryWindows
<1>6. x.count = w.count /\ x.age = AtMost(w.age + 1, Minute + 1)
  BY DEF Windows
<1>7. Held(first)' => x = usage'[first']
  BY <1>2, <1>4 DEF Held
<1>8. g \in Histories /\ Older(recent, g)
  BY <1>3, HistoryTypes
<1>9. QuotasKept(g, x, Aged(row, IF phase + 1 = Ticks THEN 1 ELSE 0), (phase + 1) % Ticks,
                 lost, gone)
  <2> HIDE DEF g, x, gone
  <2>1. QED
    BY <1>1, <1>2, <1>3, <1>5, <1>6, <1>8, TickKeeps
<1>10. QuotasKept(recent', x, row', phase', lost', lost' + Cardinality(Unsaved'))
  <2>1. Unsaved' = Unsaved
    BY <1>4 DEF Unsaved
  <2>2. QED
    BY <1>4, <1>9, <2>1
<1> HIDE DEF x
<1>11. QED
  BY <1>5, <1>7, <1>10 DEF Quotas

\* How a step of one call moves the saves to come.
LEMMA UnsavedStep ==
  ASSUME RpmInv, NEW r \in Requests, \A q \in Requests : q # r => at'[q] = at[q]
  PROVE  /\ Cardinality(Unsaved') \in Nat
         /\ Cardinality(Unsaved') = Cardinality(Unsaved) + Change(at[r] = "save", at'[r] = "save")
<1>1. /\ Unsaved \in SUBSET Requests /\ Unsaved' \in SUBSET Requests
      /\ r \in Unsaved <=> at[r] = "save"
      /\ r \in Unsaved' <=> at'[r] = "save"
      /\ \A q \in Requests : q # r => (q \in Unsaved <=> q \in Unsaved')
  BY DEF Unsaved
<1>2. Cardinality(Unsaved') = Cardinality(Unsaved) + Change(r \in Unsaved, r \in Unsaved')
  BY <1>1, UnsavedCount
<1>3. Cardinality(Unsaved') \in Nat
  BY <1>1, RpmAssumption, FS_Subset, FS_CardinalityType
<1>4. QED
  BY <1>1, <1>2, <1>3 DEF Change

LEMMA CheckedQuotas ==
  ASSUME MinuteInv, NEW r \in Requests, Checked(r)
  PROVE  Quotas'
<1> DEFINE gone == lost + Cardinality(Unsaved)
           j == rec[r]
<1>1. gone \in Nat /\ lost <= gone /\ Cardinality(Unsaved) \in Nat
  BY QuotasFacts
<1>2. PICK w \in Windows(0 .. Minute + 1) :
        (Held(first) => w = usage[first]) /\ QuotasKept(recent, w, row, phase, lost, gone)
  BY QuotasFacts
<1>3. /\ recent \in Histories /\ row \in Windows(0 .. Seconds + 1) /\ phase \in 0 .. Ticks - 1
      /\ lost \in Nat /\ first \in Records /\ usage \in [Records -> Windows(0 .. Minute + 1)]
  BY MinuteTypes DEF MinuteInv
<1>4. /\ at[r] = "check" /\ j \in Records /\ Held(j)
      /\ usage' = [usage EXCEPT ![j] = Counted(@)]
      /\ UNCHANGED <<live, row, phase, first, lost>>
      /\ \A q \in Requests : rec'[q] \in {rec[q], live, None}
      /\ \A q \in Requests : q # r => at'[q] = at[q]
      /\ \/ at'[r] = "new" /\ recent' = recent
         \/ /\ at'[r] = "save" /\ Current(usage[j]).count < Limit
            /\ \/ j = first /\ recent' = OneMore(recent)
               \/ j # first /\ recent' = recent
  BY CheckedStep DEF MinuteInv
<1>5. Cardinality(Unsaved') = Cardinality(Unsaved) + Change(FALSE, at'[r] = "save")
  <2>1. Cardinality(Unsaved') = Cardinality(Unsaved) + Change(at[r] = "save", at'[r] = "save")
    BY <1>4, UnsavedStep DEF MinuteInv
  <2>2. QED
    BY <1>4, <2>1
<1>6. Held(first)' => Held(first)
  BY <1>3, <1>4, HeldBefore DEF MinuteInv
<1> HIDE DEF j
<1> DEFINE x == IF j = first THEN Counted(w) ELSE w
<1>7. x \in Windows(0 .. Minute + 1)
  BY MemoryWindows
<1>8. j = first => w = usage[j]
  BY <1>2, <1>4
<1>9. Held(first)' => x = usage'[first']
  <2>1. CASE j = first
    BY <1>3, <1>4, <1>8, <2>1
  <2>2. CASE j # first
    BY <1>2, <1>3, <1>4, <1>6, <2>2
  <2>3. QED
    BY <2>1, <2>2
<1> HIDE DEF gone
<1>10. CASE at'[r] = "new" /\ recent' = recent
  <2>1. QuotasKept(recent, x, row, phase, lost, gone)
    BY <1>1, <1>2, <1>3, RefuseKeeps
  <2>2. lost' + Cardinality(Unsaved') = gone
    BY <1>1, <1>4, <1>5, <1>10 DEF Change, gone
  <2>3. QuotasKept(recent', x, row', phase', lost', lost' + Cardinality(Unsaved'))
    BY <1>4, <1>10, <2>1, <2>2
  <2> HIDE DEF x
  <2>4. QED
    BY <1>7, <1>9, <2>3 DEF Quotas
<1>11. CASE /\ at'[r] = "save" /\ Current(usage[j]).count < Limit
            /\ \/ j = first /\ recent' = OneMore(recent)
               \/ j # first /\ recent' = recent
  <2>1. QuotasKept(recent', x, row, phase, lost, gone + 1)
    <3>1. CASE j = first /\ recent' = OneMore(recent)
      <4>1. recent' = [recent EXCEPT ![0] = @ + 1]
        BY <1>3, <3>1, HistoryTypes
      <4>2. Current(w).count < Limit
        BY <1>8, <1>11, <3>1
      <4>3. QuotasKept([recent EXCEPT ![0] = @ + 1], Counted(w), row, phase, lost, gone + 1)
        BY <1>1, <1>2, <1>3, <4>2, AdmitKeeps
      <4>4. QED
        BY <3>1, <4>1, <4>3
    <3>2. CASE j # first /\ recent' = recent
      <4>1. QuotasKept(recent, w, row, phase, lost, gone + 1)
        BY <1>1, <1>2, <1>3, OtherKeeps
      <4>2. QED
        BY <3>2, <4>1
    <3>3. QED
      BY <1>11, <3>1, <3>2
  <2>2. lost' + Cardinality(Unsaved') = gone + 1
    BY <1>1, <1>3, <1>4, <1>5, <1>11 DEF Change, gone
  <2>3. QuotasKept(recent', x, row', phase', lost', lost' + Cardinality(Unsaved'))
    BY <1>4, <2>1, <2>2
  <2> HIDE DEF x
  <2>4. QED
    BY <1>7, <1>9, <2>3 DEF Quotas
<1>12. QED
  BY <1>4, <1>10, <1>11

LEMMA OtherQuotas ==
  ASSUME MinuteInv, NEW r \in Requests, Lookup(r) \/ Save(r) \/ SaveFails(r)
  PROVE  Quotas'
<1> DEFINE gone == lost + Cardinality(Unsaved)
           left == lost' + Cardinality(Unsaved')
<1>1. gone \in Nat /\ lost <= gone /\ Cardinality(Unsaved) \in Nat
  BY QuotasFacts
<1>2. PICK w \in Windows(0 .. Minute + 1) :
        (Held(first) => w = usage[first]) /\ QuotasKept(recent, w, row, phase, lost, gone)
  BY QuotasFacts
<1>3. /\ recent \in Histories /\ row \in Windows(0 .. Seconds + 1) /\ phase \in 0 .. Ticks - 1
      /\ lost \in Nat /\ first \in Records
  BY MinuteTypes DEF MinuteInv
<1>4. /\ UNCHANGED <<usage, live, phase, recent, first>>
      /\ \A q \in Requests : rec'[q] \in {rec[q], live, None}
      /\ \A q \in Requests : q # r => at'[q] = at[q]
      /\ \/ at[r] = "new" /\ at'[r] = "check" /\ row' = row /\ lost' = lost
         \/ at[r] = "save" /\ at'[r] = "new" /\ row' = Saved(row) /\ lost' = lost
         \/ at[r] = "save" /\ at'[r] = "new" /\ row' = row /\ lost' = lost + 1
  BY OtherStep DEF MinuteInv
<1>5. /\ Cardinality(Unsaved') \in Nat
      /\ Cardinality(Unsaved') = Cardinality(Unsaved) + Change(at[r] = "save", at'[r] = "save")
  BY <1>4, UnsavedStep DEF MinuteInv
<1>6. Held(first)' => w = usage'[first']
  <2>1. Held(first)' => Held(first)
    BY <1>3, <1>4, HeldBefore DEF MinuteInv
  <2>2. QED
    BY <1>2, <1>4, <2>1
<1> SUFFICES QuotasKept(recent, w, row', phase, lost', left)
  BY <1>4, <1>6 DEF Quotas
<1>7. CASE at[r] = "new" /\ at'[r] = "check" /\ row' = row /\ lost' = lost
  <2>1. left = gone
    BY <1>1, <1>5, <1>7 DEF Change
  <2>2. QED
    BY <1>2, <1>7, <2>1
<1>8. CASE at[r] = "save" /\ at'[r] = "new" /\ row' = Saved(row) /\ lost' = lost
  <2>1. left \in Nat /\ lost <= left /\ gone = left + 1
    BY <1>1, <1>3, <1>5, <1>8 DEF Change
  <2> HIDE DEF gone, left
  <2>2. QuotasKept(recent, w, row, phase, lost, left + 1)
    BY <1>2, <2>1
  <2>3. QuotasKept(recent, w, Saved(row), phase, lost, left)
    BY <1>3, <2>1, <2>2, SaveKeeps
  <2>4. QED
    BY <1>8, <2>3
<1>9. CASE at[r] = "save" /\ at'[r] = "new" /\ row' = row /\ lost' = lost + 1
  <2>1. left = gone
    BY <1>1, <1>3, <1>5, <1>9 DEF Change
  <2> HIDE DEF gone, left
  <2>2. QuotasKept(recent, w, row, phase, lost + 1, gone)
    BY <1>1, <1>2, <1>3, LossKeeps
  <2>3. QED
    BY <1>9, <2>1, <2>2
<1>10. QED
  BY <1>4, <1>7, <1>8, <1>9

\* A reload leaves that record as it is; a restart makes another of the row.
LEMMA ReloadQuotas ==
  ASSUME MinuteInv, Reload
  PROVE  Quotas'
<1>1. RpmInv /\ Renewed /\ Quotas
  BY DEF MinuteInv
<1>2. live \in Nat /\ first \in Nat /\ first \in Records /\ live \in Records
      /\ usage \in [Records -> Windows(0 .. Minute + 1)]
      /\ \A q \in Requests : rec[q] <= live
  BY <1>1, MinuteTypes
<1>3. UNCHANGED <<row, phase, at, rec, recent, first, lost>>
  BY DEF Reload, ReplaceRecords, ReadRow, RestoreCount, RestoreStart, clients, history, counted
<1>4. CASE ReplaceRecords
  <2>1. live' = live + 1 /\ usage' = [usage EXCEPT ![live + 1] = Window(0, 0)]
    BY <1>4 DEF ReplaceRecords
  <2>2. first <= live
    BY <1>1 DEF Renewed
  <2>3. usage'[first] = usage[first] /\ (Held(first)' => Held(first))
    BY <1>2, <1>3, <2>1, <2>2 DEF Held
  <2>4. QED
    BY <1>1, <1>3, <2>3 DEF Quotas, Unsaved
<1>5. CASE ReadRow \/ RestoreCount \/ RestoreStart
  <2>1. live' = live /\ loader # "idle" /\ \A k \in Records : k # live => usage'[k] = usage[k]
    BY <1>2, <1>5 DEF ReadRow, RestoreCount, RestoreStart
  <2>2. live > first
    BY <1>1, <2>1 DEF Renewed
  <2>3. usage'[first] = usage[first] /\ (Held(first)' => Held(first))
    BY <1>2, <1>3, <2>1, <2>2 DEF Held
  <2>4. QED
    BY <1>1, <1>3, <2>3 DEF Quotas, Unsaved
<1>6. QED
  BY <1>4, <1>5 DEF Reload

LEMMA RestartQuotas ==
  ASSUME MinuteInv, RpmInv', Restart
  PROVE  Quotas'
<1> DEFINE gone == lost + Cardinality(Unsaved)
<1>1. gone \in Nat /\ lost <= gone
  BY QuotasFacts
<1>2. PICK w \in Windows(0 .. Minute + 1) : QuotasKept(recent, w, row, phase, lost, gone)
  BY QuotasFacts
<1>3. /\ recent \in Histories /\ row \in Windows(0 .. Seconds + 1) /\ phase \in 0 .. Ticks - 1
      /\ lost \in Nat /\ usage \in [Records -> Windows(0 .. Minute + 1)]
  BY MinuteTypes DEF MinuteInv
<1>4. /\ first' = live + 1 /\ usage' = [usage EXCEPT ![live + 1] = AtStart] /\ lost' = gone
      /\ at' = [r \in Requests |-> "new"] /\ UNCHANGED <<row, phase, recent>>
  BY DEF Restart, counted
<1>5. first' \in Records
  BY DEF RpmInv, RpmTypeOK
<1> DEFINE x == Window(AtMost(RowAge(row, phase), Minute + 1), row.count)
<1>6. usage'[first'] = x
  BY <1>3, <1>4, <1>5 DEF AtStart, Restored, RowAge
<1>7. x \in Windows(0 .. Minute + 1)
  BY <1>5, <1>6 DEF RpmInv, RpmTypeOK
<1>8. QuotasKept(recent, x, row, phase, gone, gone)
  <2> HIDE DEF gone
  <2>1. QED
    BY <1>1, <1>2, <1>3, RestoreKeeps
<1>9. lost' + Cardinality(Unsaved') = gone
  <2>1. Unsaved' = {}
    BY <1>4 DEF Unsaved
  <2>2. Cardinality(Unsaved') = 0
    BY <2>1, FS_EmptySet
  <2>3. QED
    BY <1>1, <1>4, <2>2
<1>10. QuotasKept(recent', x, row', phase', lost', lost' + Cardinality(Unsaved'))
  BY <1>4, <1>8, <1>9
<1> HIDE DEF x
<1>11. QED
  BY <1>6, <1>7, <1>10 DEF Quotas

-----------------------------------------------------------------------------
\* MinuteInv is inductive.
LEMMA NextKeepsMinuteInv == MinuteInv /\ [RpmNext]_rpmVars => MinuteInv'
<1> SUFFICES ASSUME MinuteInv, [RpmNext]_rpmVars PROVE MinuteInv'
  OBVIOUS
<1>1. RpmInv' /\ Renewed'
  BY NextKeepsRpmInv, NextKeepsRenewed DEF MinuteInv
<1>2. Stages' /\ Capped'
  BY <1>1, NextKeepsStages
<1>3. Quotas'
  <2>1. CASE Tick
    BY <1>1, <2>1, TickQuotas
  <2>2. ASSUME NEW r \in Requests, Request(r) PROVE Quotas'
    BY <2>2, CheckedQuotas, OtherQuotas DEF Request, Checked
  <2>3. CASE Reload
    BY <2>3, ReloadQuotas
  <2>4. CASE Restart
    BY <1>1, <2>4, RestartQuotas
  <2>5. CASE UNCHANGED rpmVars
    <3>1. UNCHANGED <<usage, live, row, phase, at, rec, recent, first, lost>>
      BY <2>5 DEF rpmVars, clients, history, counted
    <3>2. QED
      BY <3>1 DEF MinuteInv, Quotas, Held, Unsaved
  <2>6. QED
    BY <2>1, <2>2, <2>3, <2>4, <2>5 DEF RpmNext
<1>4. QED
  BY <1>1, <1>2, <1>3 DEF MinuteInv

\* At the start nothing has passed, in memory or in the row.
LEMMA InitMinuteInv == RpmInit => MinuteInv
<1> SUFFICES ASSUME RpmInit PROVE MinuteInv
  OBVIOUS
<1>1. RpmInv
  BY InitRpmInv
<1>2. Renewed /\ Stages /\ first \in Records
  <2>1. live = 1 /\ first = 1 /\ reloads = 0 /\ loader = "idle" /\ \A r \in Requests : rec[r] = None
    BY DEF RpmInit
  <2>2. Renewed
    BY <2>1 DEF Renewed
  <2>3. \A k \in Records : ~(1 < k /\ k <= 1)
    BY <1>1, MinuteTypes
  <2>4. QED
    BY <1>1, <2>1, <2>2, <2>3, MinuteTypes DEF Stages
<1>3. \A h \in Histories : (\A a \in Ages : h[a] = 0) => \A n \in Int : LastIn(h, n) = 0
  <2> SUFFICES ASSUME NEW h \in Histories, \A a \in Ages : h[a] = 0, NEW n \in Int
               PROVE  LastIn(h, n) = 0
    OBVIOUS
  <2> DEFINE S == {a \in Ages : a <= n}
  <2>1. IsFiniteSet(S) /\ \A a \in S : h[a] = 0
    BY AgesFinite, FS_Subset
  <2> HIDE DEF S
  <2>2. SumFunctionOnSet(h, S) = 0
    BY <2>1, SumOfZeros
  <2>3. QED
    BY <2>2 DEF LastIn, S
<1>4. usage[first] = Unused /\ row = NoRow /\ phase = 0 /\ lost = 0 /\ Cardinality(Unsaved) = 0
  <2>1. Unsaved = {} /\ 1 \in Records
    BY Numbers DEF RpmInit, Unsaved, Records
  <2>2. QED
    BY <2>1, FS_EmptySet DEF RpmInit
<1>5. Unused.age = Minute + 1 /\ Unused.count = 0 /\ NoRow.age = Seconds + 1 /\ NoRow.count = 0
  BY DEF Unused, NoRow, Window
<1>6. LastIn(recent, 0) = 0 /\ LastIn(recent, Minute) = 0 /\ Capped
  <2>1. recent \in Histories /\ \A a \in Ages : recent[a] = 0
    BY <1>1, MinuteTypes DEF RpmInit, Ages
  <2>2. \A n \in 1 .. MaxReloads : anew[n] \in Histories /\ \A a \in Ages : anew[n][a] = 0
    BY <1>1, MinuteTypes DEF RpmInit, Ages
  <2>3. 0 \in Int /\ Minute \in Int /\ 0 <= 4 * Limit
    BY Numbers
  <2>4. \A n \in 1 .. MaxReloads : LastIn(anew[n], Minute) = 0
    BY <1>3, <2>2, <2>3
  <2>5. Capped
    BY <2>3, <2>4 DEF Capped
  <2>6. QED
    BY <1>3, <2>1, <2>3, <2>5
<1>7. MemoryBound(recent, Unused, 0)
  BY <1>5, <1>6, Numbers DEF MemoryBound
<1>8. RowAge(NoRow, 0) > Minute /\ Since(NoRow, 0) = 0
  <2>1. (Seconds + 1) * Ticks = Seconds * Ticks + Ticks /\ Seconds * Ticks \in Nat
    BY Numbers
  <2>2. RowAge(NoRow, 0) = (Seconds + 1) * Ticks + 0
    BY <1>5 DEF RowAge
  <2>3. RowAge(NoRow, 0) > Minute
    BY <2>1, <2>2, Numbers DEF Minute
  <2>4. ~(NoRow.age < Seconds)
    BY <1>5, Numbers
  <2>5. QED
    BY <2>3, <2>4 DEF Since
<1>9. RowBound(recent, NoRow, 0, 0)
  <2>1. ~(RowAge(NoRow, 0) <= Minute)
    <3>1. RowAge(NoRow, 0) \in Nat
      BY FirstWindows, RowAges, Numbers
    <3>2. QED
      BY <1>8, <3>1, Numbers
  <2>2. LastIn(recent, 0) <= 0 /\ LastIn(recent, Minute) < 2 * Limit + 0
    BY <1>6, Numbers
  <2>3. QED
    BY <2>1, <2>2 DEF RowBound
<1>10. JointBound(recent, Unused, NoRow, 0, 0)
  BY <1>5, <1>6, <1>8, Numbers DEF JointBound
<1>11. Quotas
  <2>1. QuotasKept(recent, Unused, NoRow, 0, 0, 0)
    BY <1>7, <1>9, <1>10 DEF QuotasKept
  <2>2. QED
    BY <1>4, <2>1, FirstWindows DEF Quotas
<1>12. QED
  BY <1>1, <1>2, <1>6, <1>11 DEF MinuteInv

LEMMA MinuteInvariance == RpmSpec => []MinuteInv
BY InitMinuteInv, NextKeepsMinuteInv, PTL DEF RpmSpec

-----------------------------------------------------------------------------
\* What passed in a minute: by records of starts and, for each reload, by its record.
LEMMA PassedParts ==
  ASSUME RpmInv, Capped
  PROVE  /\ LastIn(recent, Minute) = SumFunction(recent)
         /\ SumFunction(recent) \in Nat
         /\ Passed \in Nat
         /\ Passed <= SumFunction(recent) + reloads * (4 * Limit)
<1> DEFINE D == [n \in 1 .. MaxReloads |-> SumFunction(anew[n])]
           N == 1 .. MaxReloads
           R == 1 .. reloads
<1>1. /\ recent \in Histories /\ anew \in [N -> Histories]
      /\ reloads \in Nat /\ reloads <= MaxReloads /\ MaxReloads \in Nat /\ Limit \in Nat
      /\ 4 * Limit \in Nat
  BY MinuteTypes, Numbers
<1>2. \A h \in Histories :
        LastIn(h, Minute) = SumFunction(h) /\ LastIn(h, Minute) \in Nat
  <2>1. {a \in Ages : a <= Minute} = Ages
    BY Numbers DEF Ages
  <2>2. \A h \in Histories : DOMAIN h = Ages
    BY DEF Histories
  <2>3. \A h \in Histories : LastIn(h, Minute) \in Nat
    BY LastType, Numbers
  <2>4. QED
    BY <2>1, <2>2, <2>3 DEF LastIn, SumFunction
<1>3. \A n \in N : D[n] \in Nat /\ D[n] <= 4 * Limit /\ (n > reloads => D[n] = 0)
  <2>1. \A n \in N : D[n] = LastIn(anew[n], Minute) /\ D[n] \in Nat
    BY <1>1, <1>2
  <2>2. QED
    BY <2>1 DEF Capped
<1>4. SumFunction(D) = SumFunctionOnSet(D, N)
  BY DEF SumFunction
<1>5. R \in SUBSET N /\ IsFiniteSet(N) /\ IsFiniteSet(R) /\ Cardinality(R) = reloads
      /\ \A n \in N \ R : n > reloads
  <2>1. 1 \in Int /\ MaxReloads \in Int /\ reloads \in Int
    BY <1>1
  <2>2. IsFiniteSet(N) /\ IsFiniteSet(R)
        /\ Cardinality(R) = IF 1 > reloads THEN 0 ELSE reloads - 1 + 1
    BY <2>1, FS_Interval
  <2>3. QED
    BY <1>1, <2>2
<1>6. Passed = SumFunction(recent) + SumFunctionOnSet(D, N)
  BY <1>4 DEF Passed
<1> HIDE DEF D, N, R
<1>7. SumFunctionOnSet(D, N) = SumFunctionOnSet(D, R) + SumFunctionOnSet(D, N \ R)
  BY <1>3, <1>5, SumSplit
<1>8. SumFunctionOnSet(D, R) \in Nat /\ SumFunctionOnSet(D, R) <= reloads * (4 * Limit)
  <2>1. \A n \in R : D[n] \in Nat /\ D[n] <= 4 * Limit
    BY <1>3, <1>5
  <2>2. SumFunctionOnSet(D, R) <= Cardinality(R) * (4 * Limit)
    BY <1>1, <1>5, <2>1, SumBounded
  <2>3. QED
    BY <1>5, <2>1, <2>2, SumType
<1>9. SumFunctionOnSet(D, N \ R) = 0
  <2>1. IsFiniteSet(N \ R)
    BY <1>5, FS_Subset
  <2>2. \A n \in N \ R : D[n] = 0
    BY <1>3, <1>5
  <2>3. QED
    BY <2>1, <2>2, SumOfZeros
<1>10. LastIn(recent, Minute) = SumFunction(recent) /\ SumFunction(recent) \in Nat
  BY <1>1, <1>2
<1>11. reloads * (4 * Limit) \in Nat
  BY <1>1
<1>12. QED
  BY <1>6, <1>7, <1>8, <1>9, <1>10, <1>11

\* Until the first restart or reload fewer than two quotas pass in any minute, for
\* every limit, every length of the window and any number of clients: a quota in
\* the window that runs, and less than one of the window before it.
THEOREM SteadyRate == RpmSpec => []SteadyBound
<1>1. MinuteInv => SteadyBound
  <2> SUFFICES ASSUME MinuteInv, live = 1 PROVE Passed < 2 * Limit
    BY DEF SteadyBound
  <2> DEFINE A == usage[1].age
             passed == SumFunction(recent)
             since == {a \in Ages : a <= A}
  <2>1. RpmInv /\ Renewed /\ Capped /\ usage[1] \in Windows(0 .. Minute + 1)
        /\ recent \in Histories
    BY MinuteTypes DEF MinuteInv
  <2>2. A \in Nat /\ usage[1].count \in 0 .. Limit
    BY <2>1, Numbers DEF Windows
  <2>3. Upto(A) <= usage[1].count /\ After(A) < Limit
    BY <2>1 DEF RpmInv, Steady
  <2>4. Upto(A) \in Nat /\ After(A) \in Nat
    BY <2>1, HistorySums DEF RpmInv, Upto, After
  <2>5. Ages \ since = {a \in Ages : a > A}
    <3>1. \A a \in Ages : ~(a <= A) <=> a > A
      BY <2>2, AgesFinite
    <3>2. QED
      BY <3>1
  <2>6. SumFunctionOnSet(recent, Ages)
          = SumFunctionOnSet(recent, since) + SumFunctionOnSet(recent, Ages \ since)
    <3>1. since \in SUBSET Ages /\ IsFiniteSet(Ages) /\ \A a \in Ages : recent[a] \in Nat
      BY <2>1, AgesFinite DEF Histories
    <3> HIDE DEF since
    <3>2. QED
      BY <3>1, SumSplit
  <2>7. passed = Upto(A) + After(A)
    <3>1. DOMAIN recent = Ages
      BY <2>1 DEF Histories
    <3>2. QED
      BY <2>5, <2>6, <3>1 DEF SumFunction, Upto, After
  <2>8. Passed \in Nat /\ Passed <= passed
    <3>1. reloads = 0
      BY <2>1, MinuteTypes DEF Renewed
    <3>2. Passed \in Nat /\ Passed <= passed + 0 * (4 * Limit)
      BY <2>1, <3>1, PassedParts
    <3>3. passed \in Nat /\ 0 * (4 * Limit) = 0
      BY <2>1, PassedParts, Numbers
    <3> HIDE DEF passed
    <3>4. QED
      BY <3>2, <3>3
  <2> HIDE DEF A, passed
  <2>9. QED
    BY <2>2, <2>3, <2>4, <2>7, <2>8, Numbers
<1>2. QED
  BY <1>1, MinuteInvariance, PTL

\* However often the process is killed and started again, fewer than three quotas
\* pass in any minute, but for one more call for each that the row missed and four
\* more quotas for each reload: the new record may fill up before its count is
\* restored, before its start is, in the window that begins then and in the next.
THEOREM MinuteRate == RpmSpec => []MinuteBound
<1>1. MinuteInv => MinuteBound
  <2> SUFFICES ASSUME MinuteInv PROVE Passed < (3 + 4 * reloads) * Limit + lost
    BY DEF MinuteBound
  <2> DEFINE passed == SumFunction(recent)
             gone == lost + Cardinality(Unsaved)
  <2>1. RpmInv /\ Capped
    BY DEF MinuteInv
  <2>2. /\ recent \in Histories /\ row \in Windows(0 .. Seconds + 1)
        /\ phase \in 0 .. Ticks - 1 /\ lost \in Nat /\ reloads \in Nat
    BY <2>1, MinuteTypes
  <2>3. gone \in Nat
    BY QuotasFacts
  <2>4. PICK w \in Windows(0 .. Minute + 1) : QuotasKept(recent, w, row, phase, lost, gone)
    BY QuotasFacts
  <2>5. passed < 3 * Limit + lost
    <3>1. LastIn(recent, Minute) < 3 * Limit + lost
      <4> HIDE DEF gone
      <4>1. QED
        BY <2>2, <2>3, <2>4, KeptFacts
    <3>2. QED
      BY <2>1, <3>1, PassedParts
  <2>6. Passed \in Nat /\ passed \in Nat /\ Passed <= passed + reloads * (4 * Limit)
    BY <2>1, PassedParts
  <2> DEFINE extra == reloads * (4 * Limit)
  <2>7. (3 + 4 * reloads) * Limit = 3 * Limit + extra /\ extra \in Nat /\ 3 * Limit \in Nat
    BY <2>2, Numbers
  <2> HIDE DEF passed, extra
  <2>8. Passed < 3 * Limit + extra + lost
    BY <2>2, <2>5, <2>6, <2>7 DEF extra
  <2>9. QED
    BY <2>7, <2>8
<1>2. QED
  BY <1>1, MinuteInvariance, PTL

=============================================================================
