----------------------------- MODULE Metrics_proofs -----------------------------
(***************************************************************************)
(* Theorems about Metrics: its type invariant, that no save lowers the row *)
(* of a counter until a reset is asked for, and that a reset sticks.       *)
(***************************************************************************)
EXTENDS Metrics, SequenceTheorems, TLAPS

\* The cells in the order of a snapshot of everything.
LEMMA AllCellsType ==
  /\ Len(AllCells) = Buckets + 2
  /\ \A i \in 1..Buckets + 2 : AllCells[i] \in Cells
  /\ AllCells[1] = RequestsTotal
  /\ AllCells[Buckets + 2] = Count
  /\ \A i \in 1..Buckets : AllCells[i + 1] = Bucket(i)
<1> DEFINE mid == [i \in 1..Buckets |-> Bucket(i)]
           start == <<RequestsTotal>>
           last == <<Count>>
           both == start \o mid
           U == Cells
<1>1. Buckets \in Nat \ {0}
  BY MetricsAssumption
<1>2. mid \in Seq(U) /\ Len(mid) = Buckets
  <2>1. \A i \in 1..Buckets : Bucket(i) \in U
    BY DEF Cells
  <2>2. mid \in [1..Buckets -> U]
    BY <2>1
  <2> QED
    BY <1>1, <2>2
<1>3. start \in Seq(U) /\ last \in Seq(U)
  BY DEF Cells, Kept
<1>4. AllCells = both \o last
  BY DEF AllCells
<1>5. \A i \in 1..Buckets : mid[i] \in U
  BY DEF Cells
<1>6. Count \in U /\ RequestsTotal \in U
  BY DEF Cells, Kept
<1>7. start \in Seq(U) /\ Len(start) = 1 /\ start[1] = RequestsTotal
  BY <1>6
<1>8. last \in Seq(U) /\ Len(last) = 1 /\ last[1] = Count
  BY <1>6
<1> HIDE DEF mid, start, last, both, U
<1>9. /\ both \in Seq(U)
      /\ Len(both) = Buckets + 1
      /\ both[1] = RequestsTotal
      /\ \A i \in 2..Buckets + 1 : both[i] = mid[i - 1]
  <2>1. /\ both \in Seq(U)
        /\ Len(both) = Len(start) + Len(mid)
        /\ \A i \in 1..Len(start) + Len(mid) : both[i] =
              IF i <= Len(start) THEN start[i] ELSE mid[i - Len(start)]
    BY <1>2, <1>7, ConcatProperties DEF both
  <2> QED
    BY <1>1, <1>2, <1>7, <2>1
<1>10. /\ Len(both \o last) = Buckets + 2
       /\ \A i \in 1..Buckets + 1 : (both \o last)[i] = both[i]
       /\ (both \o last)[Buckets + 2] = Count
  <2>1. /\ Len(both \o last) = Len(both) + Len(last)
        /\ \A i \in 1..Len(both) + Len(last) : (both \o last)[i] =
              IF i <= Len(both) THEN both[i]
              ELSE last[i - Len(both)]
    BY <1>8, <1>9, ConcatProperties
  <2>2. Len(both) + Len(last) = Buckets + 2
    BY <1>1, <1>8, <1>9
  <2>3. \A i \in 1..Buckets + 1 : i \in 1..Len(both) + Len(last) /\ i <= Len(both)
    BY <1>1, <1>9, <2>2
  <2>4. \A i \in 1..Buckets + 1 : (both \o last)[i] = both[i]
    BY <2>1, <2>3
  <2>5. (both \o last)[Buckets + 2] = last[Buckets + 2 - Len(both)]
    BY <1>1, <1>9, <2>1, <2>2
  <2>6. Buckets + 2 - Len(both) = 1
    BY <1>1, <1>9
  <2> QED
    BY <1>8, <2>1, <2>2, <2>4, <2>5, <2>6
<1>11. \A i \in 1..Buckets + 2 : AllCells[i] \in U
  <2> SUFFICES ASSUME NEW i \in 1..Buckets + 2
               PROVE  AllCells[i] \in U
    OBVIOUS
  <2>1. CASE i = 1
    BY <1>1, <1>4, <1>6, <1>9, <1>10, <2>1
  <2>2. CASE i \in 2..Buckets + 1
    BY <1>1, <1>4, <1>5, <1>9, <1>10, <2>2
  <2>3. CASE i = Buckets + 2
    BY <1>4, <1>6, <1>10, <2>3
  <2> QED
    BY <1>1, <2>1, <2>2, <2>3
<1>12. AllCells[1] = RequestsTotal /\ AllCells[Buckets + 2] = Count /\ Len(AllCells) = Buckets + 2
  BY <1>1, <1>4, <1>9, <1>10
<1>13. \A i \in 1..Buckets : AllCells[i + 1] = Bucket(i)
  <2> SUFFICES ASSUME NEW i \in 1..Buckets
               PROVE  AllCells[i + 1] = Bucket(i)
    OBVIOUS
  <2>1. i + 1 \in 2..Buckets + 1 /\ i + 1 \in 1..Buckets + 1 /\ (i + 1) - 1 = i
    BY <1>1
  <2>2. AllCells[i + 1] = mid[i]
    BY <1>4, <1>9, <1>10, <2>1
  <2> QED
    BY <2>2 DEF mid
<1> QED
  BY <1>11, <1>12, <1>13 DEF U

\* Either snapshot consists of cells, and holds every cell that is kept.
LEMMA SnapshotType ==
  ASSUME first \in BOOLEAN
  PROVE  /\ Len(Snapshot) \in 1..Buckets + 2
         /\ \A i \in 1..Len(Snapshot) : Snapshot[i] \in Cells
         /\ \A c \in Kept : \E i \in 1..Len(Snapshot) : Snapshot[i] = c
<1>1. Buckets \in Nat \ {0}
  BY MetricsAssumption
<1>2. CASE first
  <2>1. Snapshot = <<RequestsTotal, Count>>
    BY <1>2 DEF Snapshot, NoBuckets
  <2>2. Len(Snapshot) = 2 /\ Snapshot[1] = RequestsTotal /\ Snapshot[2] = Count
    BY <2>1
  <2> QED
    BY <1>1, <2>2 DEF Cells, Kept
<1>3. CASE ~first
  <2>1. Snapshot = AllCells
    BY <1>3 DEF Snapshot
  <2> QED
    BY <1>1, <2>1, AllCellsType DEF Kept
<1> QED
  BY <1>2, <1>3

\* A cell that is kept is no bucket: the snapshot takes its own value.
LEMMA RunningKept ==
  ASSUME NEW c \in Kept
  PROVE  Running(c) = cell[c]
<1>1. \A i \in 2..Buckets : c # Bucket(i)
  BY DEF Kept, RequestsTotal, Count, Bucket
<1> QED
  BY <1>1 DEF Running

\* The value of a cell in a snapshot is a number.
LEMMA RunningType ==
  ASSUME NEW c \in Cells, TypeOK
  PROVE  Running(c) \in Nat
<1>1. cell[c] \in Nat /\ \A d \in Cells : sample[d] \in Nat
  BY DEF TypeOK
<1>2. CASE \E i \in 2..Buckets : c = Bucket(i)
  <2>1. PICK i \in 2..Buckets : c = Bucket(i)
    BY <1>2
  <2>2. Bucket(c[2] - 1) \in Cells
    <3>1. c[2] = i
      BY <2>1 DEF Bucket
    <3>2. i - 1 \in 1..Buckets
      BY MetricsAssumption
    <3> QED
      BY <3>1, <3>2 DEF Cells
  <2> QED
    BY <1>1, <1>2, <2>2 DEF Running
<1>3. CASE ~ \E i \in 2..Buckets : c = Bucket(i)
  BY <1>1, <1>3 DEF Running
<1> QED
  BY <1>2, <1>3

-----------------------------------------------------------------------------
LEMMA InitType == Init => TypeOK
BY MetricsAssumption DEF Init, TypeOK, Zeros, Positions

LEMMA StepType ==
  ASSUME TypeOK, [Next]_vars
  PROVE  TypeOK'
<1> USE DEF TypeOK
<1>1. Buckets \in Nat \ {0} /\ Width \in Nat \ {0}
  BY MetricsAssumption
<1>2. \A r \in Requests, from, to \in Positions :
        Go(r, from, to) => pc' \in [Requests -> Positions]
  BY DEF Go
<1>3. ASSUME NEW r \in Requests, Begin(r)
      PROVE  TypeOK'
  <2>1. pc' \in [Requests -> Positions]
    BY <1>2, <1>3 DEF Begin, Positions
  <2>2. gauge' \in 0..Width - 1
    BY <1>1, <1>3 DEF Begin
  <2> QED
    BY <1>3, <2>1, <2>2 DEF Begin, process, bounds, history
<1>4. ASSUME NEW r \in Requests, Answer(r)
      PROVE  TypeOK'
  <2>1. pc' \in [Requests -> Positions]
    BY <1>2, <1>4 DEF Answer, Positions
  <2>2. gauge' \in 0..Width - 1
    BY <1>1, <1>4 DEF Answer
  <2> QED
    BY <1>4, <2>1, <2>2 DEF Answer, process, bounds, history
<1>5. ASSUME NEW r \in Requests, Refused(r)
      PROVE  TypeOK'
  <2>1. pc' \in [Requests -> Positions]
    BY <1>2, <1>5 DEF Refused, Positions
  <2> QED
    BY <1>5, <2>1 DEF Refused, process, bounds, history
<1>6. ASSUME NEW r \in Requests, ObserveBucket(r)
      PROVE  TypeOK'
  <2>1. pc' \in [Requests -> Positions]
    BY <1>2, <1>6 DEF ObserveBucket, Positions
  <2>2. PICK i \in 1..Buckets :
          /\ cell' = [cell EXCEPT ![Bucket(i)] = @ + 1]
          /\ since' = [c \in Cells |->
               IF \E j \in i..Buckets : c = Bucket(j) THEN since[c] + 1 ELSE since[c]]
    BY <1>6 DEF ObserveBucket
  <2>3. cell' \in [Cells -> Nat] /\ since' \in [Cells -> Nat]
    <3>1. cell' \in [Cells -> Nat]
      <4>1. Bucket(i) \in Cells
        BY DEF Cells
      <4> QED
        BY <2>2, <4>1
    <3>2. \A c \in Cells : since[c] \in Nat /\ since[c] + 1 \in Nat
      OBVIOUS
    <3>3. \A c \in Cells :
            (IF \E j \in i..Buckets : c = Bucket(j) THEN since[c] + 1 ELSE since[c]) \in Nat
      BY <3>2, Zenon
    <3>4. since' \in [Cells -> Nat]
      BY <2>2, <3>3, Zenon
    <3> QED
      BY <3>1, <3>4
  <2>4. UNCHANGED <<gauge, row, process, bounds, stage>>
    BY <1>6 DEF ObserveBucket
  <2> QED
    BY <2>1, <2>3, <2>4 DEF process, bounds
<1>7. ASSUME NEW c \in Cells, Raise(c)
      PROVE  cell' \in [Cells -> Nat] /\ since' \in [Cells -> Nat]
  BY <1>7 DEF Raise
<1>8. ASSUME NEW r \in Requests, ObserveCount(r)
      PROVE  TypeOK'
  <2>1. pc' \in [Requests -> Positions]
    BY <1>2, <1>8 DEF ObserveCount, Positions
  <2>2. cell' \in [Cells -> Nat] /\ since' \in [Cells -> Nat]
    BY <1>7, <1>8 DEF ObserveCount, Cells, Kept
  <2> QED
    BY <1>8, <2>1, <2>2 DEF ObserveCount, Raise, process, bounds
<1>9. ASSUME NEW r \in Requests, IncTotal(r)
      PROVE  TypeOK'
  <2>1. pc' \in [Requests -> Positions]
    BY <1>2, <1>9 DEF IncTotal, Positions
  <2>2. cell' \in [Cells -> Nat] /\ since' \in [Cells -> Nat]
    BY <1>7, <1>9 DEF IncTotal, Cells, Kept
  <2> QED
    BY <1>9, <2>1, <2>2 DEF IncTotal, Raise, process, bounds
<1>10. CASE Tick
  BY <1>1, <1>10 DEF Tick, bounds, Zeros
<1>11. CASE Read
  <2>1. Len(Snapshot) \in 1..Buckets + 2 /\ Snapshot[next] \in Cells
    BY <1>11, SnapshotType DEF Read
  <2>2. Running(Snapshot[next]) \in Nat
    BY <2>1, RunningType
  <2>3. sample' \in [Cells -> Nat]
    BY <1>11, <2>1, <2>2 DEF Read
  <2>4. next' \in 0..Buckets + 3
    BY <1>1, <1>11, <2>1 DEF Read
  <2> QED
    BY <1>11, <2>3, <2>4 DEF Read, bounds, history
<1>12. CASE Save
  <2>1. row' \in [Cells -> Nat]
    BY <1>12 DEF Save
  <2>2. stage' \in {"kept", "zeroing", "done", "reading", "undone"}
    BY <1>12 DEF Save
  <2>3. first' \in BOOLEAN
    BY <1>12, Zenon DEF Save
  <2>4. next' = 0
        /\ UNCHANGED <<cell, gauge, pc, sample, zeroing, bounds, since>>
    BY <1>12 DEF Save
  <2> QED
    BY <1>1, <2>1, <2>2, <2>3, <2>4 DEF bounds
<1>13. CASE Reset
  BY <1>1, <1>13 DEF Reset, Zeros
<1>14. CASE Zero
  <2>1. zeroing \in 1..Buckets + 2
    BY <1>14, AllCellsType DEF Zero
  <2>2. zeroing' \in 0..Buckets + 3
    BY <1>1, <1>14, <2>1 DEF Zero
  <2>3. cell' \in [Cells -> Nat]
    BY <1>14 DEF Zero
  <2> QED
    BY <1>14, <2>2, <2>3 DEF Zero, bounds, history
<1>15. CASE ZeroGauge
  BY <1>1, <1>15 DEF ZeroGauge, bounds
<1>16. CASE Restart
  <2>1. cell' \in [Cells -> Nat]
    BY <1>16 DEF Restart
  <2>2. pc' \in [Requests -> Positions]
    BY <1>16 DEF Restart, Stopped, Positions
  <2> QED
    BY <1>1, <1>16, <2>1, <2>2 DEF Restart, Stopped, Zeros
<1>17. CASE UNCHANGED vars
  BY <1>17 DEF vars, process, bounds, history
<1> QED
  BY <1>3, <1>4, <1>5, <1>6, <1>8, <1>9, <1>10, <1>11, <1>12, <1>13, <1>14, <1>15,
     <1>16, <1>17 DEF Next, Step

\* Every variable of Metrics keeps its type; the gauge stays below Width, whatever
\* resets come between its raising and its lowering.
THEOREM TypeCorrect == Spec => []TypeOK
<1>1. Init => TypeOK
  BY InitType
<1>2. TypeOK /\ [Next]_vars => TypeOK'
  BY StepType
<1> QED
  BY <1>1, <1>2, PTL DEF Spec

-----------------------------------------------------------------------------
\* The persister has read cell c.
Taken(c) == \E i \in 1..next - 1 : Snapshot[i] = c

\* Unless a reset is asked for, a row follows its cell, and what the persister has
\* read of the cell lies between the two.
Following ==
  resets = 0 =>
    /\ zeroing = 0
    /\ \A c \in Kept :
         /\ row[c] <= cell[c]
         /\ Taken(c) => row[c] <= sample[c] /\ sample[c] <= cell[c]

IInv == TypeOK /\ Following

LEMMA InitFollowing == Init => Following
BY DEF Init, Following, Taken, Kept, Cells, Zeros

\* A step of a request takes no cell back, and does nothing else that Following tells.
LEMMA RisingFollowing ==
  ASSUME IInv, TypeOK', \A c \in Kept : cell'[c] >= cell[c], UNCHANGED <<row, process, resets>>
  PROVE  Following'
<1> SUFFICES ASSUME resets' = 0
             PROVE  Following'
  BY DEF Following
<1>1. zeroing' = 0
  BY DEF IInv, Following, process
<1>2. ASSUME NEW c \in Kept
      PROVE  /\ row'[c] <= cell'[c]
             /\ Taken(c)' => row'[c] <= sample'[c] /\ sample'[c] <= cell'[c]
  <2>1. c \in Cells
    BY DEF Cells
  <2>2. row[c] \in Nat /\ cell[c] \in Nat /\ cell'[c] \in Nat /\ sample[c] \in Nat
    BY <2>1 DEF IInv, TypeOK
  <2>3. Taken(c)' <=> Taken(c)
    BY DEF Taken, Snapshot, process
  <2>4. row'[c] = row[c] /\ sample'[c] = sample[c] /\ cell'[c] >= cell[c]
    BY DEF process
  <2>5. row[c] <= cell[c] /\ (Taken(c) => row[c] <= sample[c] /\ sample[c] <= cell[c])
    BY DEF IInv, Following
  <2> HIDE DEF Taken
  <2> QED
    BY <2>2, <2>3, <2>4, <2>5
<1> QED
  BY <1>1, <1>2 DEF Following

LEMMA StepFollowing ==
  ASSUME IInv, [Next]_vars
  PROVE  Following' /\ (resets' = 0 => \A c \in Kept : row'[c] >= row[c])
<1>1. TypeOK /\ TypeOK'
  BY StepType DEF IInv
<1>2. \A c \in Kept : c \in Cells /\ (\A i \in 1..Buckets : c # Bucket(i))
  BY DEF Cells, Kept, RequestsTotal, Count, Bucket
<1>3. \A c \in Kept :
        /\ cell[c] \in Nat /\ row[c] \in Nat /\ sample[c] \in Nat
        /\ cell'[c] \in Nat /\ row'[c] \in Nat /\ sample'[c] \in Nat
  BY <1>1, <1>2 DEF TypeOK
<1>4. resets = 0 => \A c \in Kept :
        /\ row[c] <= cell[c]
        /\ Taken(c) => row[c] <= sample[c] /\ sample[c] <= cell[c]
  BY DEF IInv, Following
<1>5. ASSUME \A c \in Kept : cell'[c] >= cell[c], UNCHANGED <<row, process, resets>>
      PROVE  Following' /\ (resets' = 0 => \A c \in Kept : row'[c] >= row[c])
  <2>1. Following'
    BY <1>1, <1>5, RisingFollowing
  <2>2. \A c \in Kept : row'[c] >= row[c]
    BY <1>3, <1>5
  <2> QED
    BY <2>1, <2>2
<1>6. ASSUME NEW r \in Requests, Step(r)
      PROVE  Following' /\ (resets' = 0 => \A c \in Kept : row'[c] >= row[c])
  <2>1. UNCHANGED <<row, process, resets>>
    BY <1>6 DEF Step, Begin, Answer, Refused, ObserveBucket, ObserveCount, IncTotal, Raise,
                bounds, history
  <2>2. ASSUME NEW d \in Cells, cell' = [cell EXCEPT ![d] = @ + 1]
        PROVE  \A c \in Kept : cell'[c] >= cell[c]
    BY <1>1, <1>2, <1>3, <2>2 DEF TypeOK
  <2>3. \A c \in Kept : cell'[c] >= cell[c]
    <3>1. CASE Begin(r) \/ Answer(r) \/ Refused(r)
      BY <1>3, <3>1 DEF Begin, Answer, Refused
    <3>2. CASE ObserveBucket(r)
      <4>1. PICK i \in 1..Buckets : cell' = [cell EXCEPT ![Bucket(i)] = @ + 1]
        BY <3>2 DEF ObserveBucket
      <4>2. Bucket(i) \in Cells
        BY DEF Cells
      <4> QED
        BY <2>2, <4>1, <4>2
    <3>3. CASE ObserveCount(r) \/ IncTotal(r)
      <4>1. Count \in Cells /\ RequestsTotal \in Cells
        BY DEF Cells, Kept
      <4> QED
        BY <2>2, <3>3, <4>1 DEF ObserveCount, IncTotal, Raise
    <3> QED
      BY <1>6, <3>1, <3>2, <3>3 DEF Step
  <2> QED
    BY <1>5, <2>1, <2>3
<1>7. CASE Tick
  <2>1. \A c \in Kept : ~ Taken(c)'
    BY <1>7 DEF Tick, Taken
  <2>2. UNCHANGED <<cell, row, zeroing, resets>>
    BY <1>7 DEF Tick, bounds
  <2>3. Following'
    BY <1>4, <2>1, <2>2 DEF Following, IInv
  <2> QED
    BY <1>3, <2>2, <2>3
<1>8. CASE Read
  <2>1. UNCHANGED <<cell, row, zeroing, resets, first>>
    BY <1>8 DEF Read, bounds
  <2>2. next \in 1..Len(Snapshot) /\ Snapshot[next] \in Cells
    BY <1>1, <1>8, SnapshotType DEF Read, TypeOK
  <2>3. Snapshot' = Snapshot
    BY <2>1 DEF Snapshot
  <2>4. ASSUME NEW c \in Kept, Taken(c)', resets = 0
        PROVE  row[c] <= sample'[c] /\ sample'[c] <= cell[c]
    <3>1. CASE Snapshot[next] = c
      <4>1. sample'[c] = cell[c]
        BY <1>1, <1>2, <1>8, <3>1, RunningKept DEF Read, TypeOK
      <4> QED
        BY <1>3, <1>4, <2>4, <4>1
    <3>2. CASE Snapshot[next] # c
      <4>1. sample'[c] = sample[c]
        BY <1>1, <1>2, <1>8, <3>2 DEF Read, TypeOK
      <4>2. PICK i \in 1..next : Snapshot[i] = c
        <5>1. PICK i \in 1..next' - 1 : Snapshot'[i] = c
          BY <2>4 DEF Taken
        <5>2. next' - 1 = next
          BY <1>1, <1>8 DEF Read, TypeOK
        <5> QED
          BY <2>3, <5>1, <5>2
      <4>3. i \in 1..next - 1
        BY <1>1, <3>2, <4>2 DEF TypeOK
      <4>4. Taken(c)
        BY <4>2, <4>3 DEF Taken
      <4> QED
        BY <1>4, <2>4, <4>1, <4>4
    <3> QED
      BY <3>1, <3>2
  <2>5. Following'
    BY <1>4, <2>1, <2>4 DEF Following, IInv
  <2> QED
    BY <1>3, <2>1, <2>5
<1>9. CASE Save
  <2>1. UNCHANGED <<cell, zeroing, resets>> /\ next' = 0
    BY <1>9 DEF Save, bounds
  <2>2. \A c \in Kept : ~ Taken(c)'
    BY <2>1 DEF Taken
  <2>3. ASSUME NEW c \in Kept, resets = 0
        PROVE  row[c] <= row'[c] /\ row'[c] <= cell[c]
    <3>1. CASE UNCHANGED row
      BY <1>3, <1>4, <2>3, <3>1
    <3>2. CASE row' = [d \in Cells |->
             IF \E i \in 1..Len(Snapshot) : Snapshot[i] = d THEN sample[d] ELSE row[d]]
      <4>1. \E i \in 1..Len(Snapshot) : Snapshot[i] = c
        BY <1>1, SnapshotType DEF TypeOK
      <4>2. row'[c] = sample[c]
        BY <1>2, <3>2, <4>1
      <4>3. next - 1 = Len(Snapshot)
        BY <1>1, <1>9, SnapshotType DEF Save, TypeOK
      <4>4. Taken(c)
        BY <4>1, <4>3 DEF Taken
      <4> QED
        BY <1>4, <2>3, <4>2, <4>4
    <3> QED
      BY <1>9, <3>1, <3>2 DEF Save
  <2>4. Following'
    BY <2>1, <2>2, <2>3 DEF Following, IInv
  <2> QED
    BY <1>3, <2>1, <2>3, <2>4
<1>10. CASE Reset
  BY <1>1, <1>10 DEF Reset, Following, TypeOK
<1>11. CASE Zero \/ ZeroGauge
  <2>1. resets # 0 /\ resets' = resets
    BY <1>11 DEF Zero, ZeroGauge, Following, IInv, bounds, history
  <2> QED
    BY <2>1 DEF Following
<1>12. CASE Restart
  <2>1. UNCHANGED <<row, resets>> /\ next' = 0 /\ zeroing' = 0
    BY <1>12 DEF Restart, Stopped
  <2>2. \A c \in Kept : cell'[c] = row[c]
    BY <1>2, <1>12 DEF Restart
  <2>3. \A c \in Kept : ~ Taken(c)'
    BY <2>1 DEF Taken
  <2>4. Following'
    BY <1>3, <2>1, <2>2, <2>3 DEF Following
  <2> QED
    BY <1>3, <2>1, <2>4
<1>13. CASE UNCHANGED vars
  <2>1. UNCHANGED <<row, process, resets>> /\ cell' = cell
    BY <1>13 DEF vars, bounds
  <2> QED
    BY <1>3, <1>5, <2>1
<1> QED
  BY <1>6, <1>7, <1>8, <1>9, <1>10, <1>11, <1>12, <1>13 DEF Next

\* The strengthened invariant holds in every reachable state.
THEOREM Invariance == Spec => []IInv
<1>1. Init => IInv
  BY InitType, InitFollowing DEF IInv
<1>2. IInv /\ [Next]_vars => IInv'
  BY StepType, StepFollowing DEF IInv
<1> QED
  BY <1>1, <1>2, PTL DEF Spec

\* For any requests, buckets, restarts and failing saves: as long as no reset is asked
\* for, no save lowers the row of a counter or of a histogram's count.
THEOREM Growth == Spec => RowsGrow
<1>1. IInv /\ [Next]_vars => [resets' = 0 => \A c \in Kept : row'[c] >= row[c]]_vars
  BY StepFollowing
<1> QED
  BY <1>1, Invariance, PTL DEF Spec, RowsGrow

-----------------------------------------------------------------------------
\* What counts before a cell of a snapshot: for a bucket, the one before it.
Before(c) == IF \E i \in 2..Buckets : c = Bucket(i) THEN since[Bucket(c[2] - 1)] ELSE 0

\* A cell holds nothing from before the reset.  A bucket's events are those that
\* since has for it and not for the bucket before.
Within(c) == cell[c] + Before(c) <= since[c]

\* How far a reset has come, in memory, in what the persister has read and in the rows.
Sticking ==
  /\ stage = "zeroing" <=> zeroing # 0
  /\ stage = "reading" => ~first
  /\ next <= Len(Snapshot) + 1
  /\ \A i \in 2..Buckets : since[Bucket(i - 1)] <= since[Bucket(i)]
  /\ stage = "zeroing" => \A j \in 1..zeroing - 1 : Within(AllCells[j])
  /\ stage \in {"done", "reading", "kept"} => \A c \in Cells : Within(c)
  /\ stage \in {"reading", "kept"} =>
       \A j \in 1..next - 1 : sample[Snapshot[j]] <= since[Snapshot[j]]
  /\ stage = "kept" => \A c \in Cells : row[c] <= since[c]

LEMMA CellKinds ==
  /\ Kept \subseteq Cells /\ \A i \in 1..Buckets : Bucket(i) \in Cells
  /\ \A c \in Cells : c \in Kept \/ \E i \in 1..Buckets : c = Bucket(i)
  /\ \A c \in Kept, i \in 1..Buckets : c # Bucket(i)
  /\ \A i, j \in 1..Buckets : Bucket(i) = Bucket(j) => i = j
BY DEF Cells, Kept, RequestsTotal, Count, Bucket

\* What counts before each kind of cell.
LEMMA BeforeValues ==
  /\ \A c \in Kept : Before(c) = 0
  /\ Before(Bucket(1)) = 0
  /\ \A i \in 2..Buckets : Before(Bucket(i)) = since[Bucket(i - 1)]
<1>1. \A i \in 2..Buckets : Bucket(i)[2] = i /\ i \in 1..Buckets /\ Bucket(i) # Bucket(1)
  BY MetricsAssumption DEF Bucket
<1>2. \A c \in Kept : ~ \E i \in 2..Buckets : c = Bucket(i)
  BY <1>1, CellKinds
<1>3. QED
  BY <1>1, <1>2 DEF Before

LEMMA BeforeBounds ==
  ASSUME TypeOK, Sticking
  PROVE  \A c \in Cells : Before(c) \in Nat /\ Before(c) <= since[c]
<1> SUFFICES ASSUME NEW c \in Cells PROVE Before(c) \in Nat /\ Before(c) <= since[c]
  OBVIOUS
<1>1. since[c] \in Nat
  BY DEF TypeOK
<1>2. CASE c \in Kept \/ c = Bucket(1)
  BY <1>1, <1>2, BeforeValues
<1>3. CASE \E i \in 2..Buckets : c = Bucket(i)
  <2>1. PICK i \in 2..Buckets : c = Bucket(i)
    BY <1>3
  <2>2. i - 1 \in 1..Buckets
    BY MetricsAssumption
  <2>3. since[Bucket(i - 1)] \in Nat /\ since[Bucket(i - 1)] <= since[c]
    BY <2>1, <2>2, CellKinds DEF TypeOK, Sticking
  <2>4. QED
    BY <2>1, <2>3, BeforeValues
<1>4. QED
  <2>1. \A i \in 1..Buckets : i = 1 \/ i \in 2..Buckets
    BY MetricsAssumption
  <2>2. QED
    BY <1>2, <1>3, <2>1, CellKinds

\* Every cell is in the snapshot of everything.
LEMMA AllCellsHoldsAll ==
  \A c \in Cells : \E j \in 1..Buckets + 2 : AllCells[j] = c
<1> SUFFICES ASSUME NEW c \in Cells PROVE \E j \in 1..Buckets + 2 : AllCells[j] = c
  OBVIOUS
<1>1. Buckets \in Nat \ {0}
  BY MetricsAssumption
<1>2. CASE c \in Kept
  BY <1>1, <1>2, AllCellsType DEF Kept
<1>3. ASSUME NEW i \in 1..Buckets, c = Bucket(i) PROVE \E j \in 1..Buckets + 2 : AllCells[j] = c
  <2>1. i + 1 \in 1..Buckets + 2 /\ AllCells[i + 1] = c
    BY <1>1, <1>3, AllCellsType
  <2>2. QED
    BY <2>1
<1>4. QED
  BY <1>2, <1>3, CellKinds

\* What the persister has read are cells.
LEMMA SnapshotRead ==
  ASSUME TypeOK, next <= Len(Snapshot) + 1
  PROVE  \A j \in 1..next - 1 : j \in 1..Len(Snapshot) /\ Snapshot[j] \in Cells
BY SnapshotType DEF TypeOK

\* An event raises its cell no more than it raises what happened since the reset.
LEMMA RisingSticking ==
  ASSUME TypeOK, TypeOK', Sticking, \A c \in Cells : Within(c) => Within(c)',
         \A c \in Cells : since'[c] >= since[c],
         \A i \in 2..Buckets : since'[Bucket(i - 1)] <= since'[Bucket(i)],
         UNCHANGED <<row, process, stage>>
  PROVE  Sticking'
<1>1. UNCHANGED <<first, next, sample, zeroing>> /\ Snapshot' = Snapshot
  BY DEF process, Snapshot
<1>2. \A c \in Cells : /\ since[c] \in Nat /\ since'[c] \in Nat /\ row[c] \in Nat
                       /\ sample[c] \in Nat
  BY DEF TypeOK
<1>3. ASSUME stage = "zeroing", NEW j \in 1..zeroing - 1 PROVE Within(AllCells[j])'
  <2>1. j \in 1..Buckets + 2
    BY <1>3, MetricsAssumption DEF TypeOK
  <2>2. AllCells[j] \in Cells /\ Within(AllCells[j])
    BY <1>3, <2>1, AllCellsType DEF Sticking
  <2>3. AllCells' = AllCells
    BY DEF AllCells
  <2>4. QED
    BY <2>2
<1>4. ASSUME stage \in {"reading", "kept"}, NEW j \in 1..next - 1
      PROVE  sample[Snapshot[j]] <= since'[Snapshot[j]]
  <2>1. CASE Snapshot[j] \in Cells
    BY <1>2, <1>4, <2>1 DEF Sticking
  <2>2. Snapshot[j] \in Cells
    BY <1>4, SnapshotRead DEF Sticking
  <2>3. QED
    BY <2>1, <2>2
<1>5. QED
  BY <1>1, <1>2, <1>3, <1>4 DEF Sticking

\* An event of a request.
LEMMA StepSticking ==
  ASSUME TypeOK, TypeOK', Sticking, NEW r \in Requests, Step(r)
  PROVE  Sticking'
<1>1. \A c \in Cells : /\ since[c] \in Nat /\ since'[c] \in Nat
                       /\ cell[c] \in Nat /\ cell'[c] \in Nat
  BY DEF TypeOK
<1>2. UNCHANGED <<row, process, stage>>
  BY DEF Step, Begin, Answer, Refused, ObserveBucket, ObserveCount, IncTotal, Raise, history
<1>3. CASE Begin(r) \/ Answer(r) \/ Refused(r)
  <2>1. cell' = cell /\ since' = since
    BY <1>3 DEF Begin, Answer, Refused, history
  <2>2. \A c \in Cells : Within(c) => Within(c)'
    BY <2>1 DEF Within, Before
  <2>3. \A c \in Cells : since'[c] >= since[c]
    BY <1>1, <2>1
  <2>4. QED
    BY <1>2, <2>1, <2>2, <2>3, RisingSticking DEF Sticking
<1>4. ASSUME NEW d \in Kept, Raise(d) PROVE Sticking'
  <2>1. /\ cell' = [cell EXCEPT ![d] = @ + 1] /\ since' = [since EXCEPT ![d] = @ + 1]
        /\ d \in Cells
    BY <1>4, CellKinds DEF Raise
  <2>2. /\ since'[d] = since[d] + 1 /\ cell'[d] = cell[d] + 1
        /\ \A c \in Cells : c # d => since'[c] = since[c] /\ cell'[c] = cell[c]
    BY <2>1 DEF TypeOK
  <2>3. \A i \in 1..Buckets : since'[Bucket(i)] = since[Bucket(i)]
    BY <2>2, CellKinds
  <2>4. \A i \in 2..Buckets : i - 1 \in 1..Buckets /\ i \in 1..Buckets
    BY MetricsAssumption
  <2>5. \A c \in Cells : Before(c)' = Before(c)
    <3>1. ASSUME NEW c \in Cells, NEW i \in 2..Buckets, c = Bucket(i) PROVE Before(c)' = Before(c)
      <4>1. Before(c) = since[Bucket(i - 1)] /\ Before(c)' = since'[Bucket(i - 1)]
        <5>1. c[2] = i
          BY <3>1 DEF Bucket
        <5>2. QED
          BY <3>1, <5>1 DEF Before
      <4>2. QED
        BY <2>3, <2>4, <4>1
    <3>2. ASSUME NEW c \in Cells, ~ \E i \in 2..Buckets : c = Bucket(i) PROVE Before(c)' = Before(c)
      BY <3>2 DEF Before
    <3>3. QED
      BY <3>1, <3>2
  <2>6. ASSUME NEW c \in Cells, Within(c) PROVE Within(c)'
    <3>1. Before(c) \in Nat /\ cell[c] + Before(c) <= since[c]
      BY <2>6, BeforeBounds DEF Within
    <3>2. QED
      BY <1>1, <2>2, <2>5, <3>1 DEF Within
  <2>7. \A c \in Cells : since'[c] >= since[c]
    BY <1>1, <2>2
  <2>8. \A i \in 2..Buckets : since'[Bucket(i - 1)] <= since'[Bucket(i)]
    BY <2>3, <2>4 DEF Sticking
  <2>9. QED
    BY <1>2, <2>6, <2>7, <2>8, RisingSticking
<1>5. CASE ObserveBucket(r)
  <2>1. PICK i \in 1..Buckets :
          /\ cell' = [cell EXCEPT ![Bucket(i)] = @ + 1]
          /\ since' = [c \in Cells |->
               IF \E j \in i..Buckets : c = Bucket(j) THEN since[c] + 1 ELSE since[c]]
    BY <1>5 DEF ObserveBucket
  <2>2. /\ \A c \in Kept : cell'[c] = cell[c] /\ since'[c] = since[c]
        /\ \A j \in 1..Buckets : cell'[Bucket(j)] = IF j = i THEN cell[Bucket(j)] + 1 ELSE cell[Bucket(j)]
    BY <2>1, CellKinds DEF TypeOK
  <2>3. \A j \in 1..Buckets :
          since'[Bucket(j)] = IF j >= i THEN since[Bucket(j)] + 1 ELSE since[Bucket(j)]
    <3> SUFFICES ASSUME NEW j \in 1..Buckets
                 PROVE  since'[Bucket(j)] = IF j >= i THEN since[Bucket(j)] + 1 ELSE since[Bucket(j)]
      OBVIOUS
    <3>1. (\E k \in i..Buckets : Bucket(j) = Bucket(k)) <=> j >= i
      BY MetricsAssumption, CellKinds
    <3>2. QED
      BY <2>1, <3>1, CellKinds
  <2>4. \A j \in 2..Buckets : j - 1 \in 1..Buckets /\ j \in 1..Buckets
    BY MetricsAssumption
  <2>5. ASSUME NEW c \in Cells, Within(c) PROVE Within(c)'
    <3>1. CASE c \in Kept
      <4>1. Before(c) = 0 /\ Before(c)' = 0
        <5>1. ~ \E k \in 2..Buckets : c = Bucket(k)
          BY <2>4, <3>1, CellKinds
        <5>2. QED
          BY <5>1 DEF Before
      <4>2. QED
        BY <2>2, <2>5, <3>1, <4>1 DEF Within
    <3>2. ASSUME NEW j \in 1..Buckets, c = Bucket(j) PROVE Within(c)'
      <4>1. CASE j = 1
        <5>1. Before(c) = 0 /\ Before(c)' = 0
          <6>1. ~ \E k \in 2..Buckets : c = Bucket(k)
            BY <2>4, <3>2, <4>1, CellKinds
          <6>2. QED
            BY <6>1 DEF Before
        <5>2. QED
          BY <1>1, <2>2, <2>3, <2>5, <3>2, <4>1, <5>1 DEF Within
      <4>2. CASE j # 1
        <5>1. j \in 2..Buckets
          BY <4>2, MetricsAssumption
        <5>2. Before(c) = since[Bucket(j - 1)] /\ Before(c)' = since'[Bucket(j - 1)]
          <6>1. c[2] = j
            BY <3>2 DEF Bucket
          <6>2. QED
            BY <3>2, <5>1, <6>1 DEF Before
        <5>3. cell[c] + since[Bucket(j - 1)] <= since[c]
          BY <2>5, <5>2 DEF Within
        <5>4. /\ since[Bucket(j - 1)] \in Nat /\ since[c] \in Nat /\ cell[c] \in Nat
              /\ since'[Bucket(j - 1)] = IF j - 1 >= i THEN since[Bucket(j - 1)] + 1 ELSE since[Bucket(j - 1)]
              /\ since'[c] = IF j >= i THEN since[c] + 1 ELSE since[c]
              /\ cell'[c] = IF j = i THEN cell[c] + 1 ELSE cell[c]
          BY <1>1, <2>2, <2>3, <2>4, <3>2, <5>1, CellKinds
        <5>5. cell'[c] + since'[Bucket(j - 1)] <= since'[c]
          BY <5>3, <5>4
        <5>6. QED
          BY <5>2, <5>5 DEF Within
      <4>3. QED
        BY <4>1, <4>2
    <3>3. QED
      BY <3>1, <3>2, CellKinds
  <2>6. \A c \in Cells : since'[c] >= since[c]
    BY <1>1, <2>2, <2>3, CellKinds
  <2>7. \A j \in 2..Buckets : since'[Bucket(j - 1)] <= since'[Bucket(j)]
    <3> SUFFICES ASSUME NEW j \in 2..Buckets PROVE since'[Bucket(j - 1)] <= since'[Bucket(j)]
      OBVIOUS
    <3>1. since[Bucket(j - 1)] <= since[Bucket(j)]
      BY DEF Sticking
    <3>2. since[Bucket(j - 1)] \in Nat /\ since[Bucket(j)] \in Nat
      BY <1>1, <2>4, CellKinds
    <3>3. QED
      BY <2>3, <2>4, <3>1, <3>2
  <2>8. QED
    BY <1>2, <2>5, <2>6, <2>7, RisingSticking
<1>6. QED
  BY <1>3, <1>4, <1>5 DEF Step, ObserveCount, IncTotal, Kept

\* The persister begins a snapshot; the cells it is to read hold nothing old.
LEMMA TickSticking ==
  ASSUME TypeOK, Sticking, Tick
  PROVE  Sticking'
<1>1. /\ UNCHANGED <<cell, row, first, zeroing, since>> /\ next' = 1
      /\ stage' = IF stage = "done" /\ ~first THEN "reading" ELSE stage
  BY DEF Tick
<1>2. \A c \in Cells : Within(c)' <=> Within(c)
  BY <1>1 DEF Within, Before
<1>3. Snapshot' = Snapshot /\ Len(Snapshot) \in Nat
  BY <1>1, SnapshotType DEF Snapshot, TypeOK
<1>4. \A j \in 1..zeroing - 1 : AllCells[j] \in Cells
  BY AllCellsType, MetricsAssumption DEF TypeOK
<1>5. stage' = "zeroing" => \A j \in 1..zeroing' - 1 : Within(AllCells[j])'
  BY <1>1, <1>2, <1>4 DEF Sticking
<1>6. QED
  BY <1>1, <1>2, <1>3, <1>5 DEF Sticking, TypeOK

\* The value read of a bucket is that of the bucket before and its own.
LEMMA ReadSticking ==
  ASSUME TypeOK, Sticking, Read
  PROVE  Sticking'
<1> DEFINE d == Snapshot[next]
<1>1. /\ UNCHANGED <<cell, row, first, zeroing, since, stage>> /\ next' = next + 1
      /\ sample' = [sample EXCEPT ![d] = Running(d)]
      /\ next \in 1..Len(Snapshot) /\ d \in Cells
  BY SnapshotType DEF Read, TypeOK, history
<1>2. Snapshot' = Snapshot /\ Len(Snapshot) \in 1..Buckets + 2 /\ Buckets \in Nat \ {0}
  BY <1>1, SnapshotType, MetricsAssumption DEF Snapshot, TypeOK
<1>3. \A c \in Cells : Within(c)' <=> Within(c)
  BY <1>1 DEF Within, Before
<1>4. \A j \in 1..zeroing - 1 : AllCells[j] \in Cells
  BY AllCellsType, MetricsAssumption DEF TypeOK
<1>5. ASSUME stage \in {"reading", "kept"} PROVE Running(d) <= since[d]
  <2>1. cell[d] + Before(d) <= since[d] /\ cell[d] \in Nat /\ since[d] \in Nat
    BY <1>1, <1>5 DEF Sticking, Within, TypeOK
  <2>2. CASE ~ \E i \in 2..Buckets : d = Bucket(i)
    BY <2>1, <2>2 DEF Running, Before
  <2>3. ASSUME NEW i \in 2..Buckets, d = Bucket(i) PROVE Running(d) <= since[d]
    <3>1. i \in 1..Buckets /\ i - 1 \in 1..Buckets /\ d[2] = i
      BY <1>2, <2>3 DEF Bucket
    <3>2. ~first
      <4>1. ASSUME first PROVE FALSE
        <5>1. d \in Kept
          BY <1>1, <4>1 DEF Snapshot, NoBuckets, Kept
        <5>2. QED
          BY <2>3, <3>1, <5>1, CellKinds
      <4>2. QED
        BY <4>1
    <3>3. Snapshot = AllCells /\ AllCells[next] = Bucket(i) /\ next \in 1..Buckets + 2
      BY <1>1, <1>2, <2>3, <3>2 DEF Snapshot
    <3>4. next = i + 1
      <4>1. next # 1 /\ next # Buckets + 2
        BY <3>1, <3>3, AllCellsType, CellKinds DEF Kept
      <4>2. next - 1 \in 1..Buckets /\ (next - 1) + 1 = next
        BY <1>2, <3>3, <4>1
      <4>3. AllCells[next] = Bucket(next - 1)
        BY <4>2, AllCellsType
      <4>4. next - 1 = i
        BY <3>1, <3>3, <4>2, <4>3, CellKinds
      <4>5. QED
        BY <4>2, <4>4
    <3>5. Snapshot[i] = Bucket(i - 1) /\ i \in 1..next - 1
      <4>1. (i - 1) + 1 = i
        BY <3>1
      <4>2. QED
        BY <3>1, <3>3, <3>4, <4>1, AllCellsType
    <3>6. sample[Bucket(i - 1)] <= since[Bucket(i - 1)]
      BY <1>5, <3>5 DEF Sticking
    <3>7. Running(d) = sample[Bucket(i - 1)] + cell[d] /\ Before(d) = since[Bucket(i - 1)]
      BY <2>3, <3>1 DEF Running, Before
    <3>8. sample[Bucket(i - 1)] \in Nat /\ since[Bucket(i - 1)] \in Nat
      BY <3>1, CellKinds DEF TypeOK
    <3>9. QED
      BY <2>1, <3>6, <3>7, <3>8
  <2>4. QED
    BY <2>2, <2>3
<1>6. ASSUME stage \in {"reading", "kept"}, NEW j \in 1..next' - 1
      PROVE  sample'[Snapshot[j]] <= since[Snapshot[j]]
  <2>1. CASE Snapshot[j] = d
    BY <1>1, <1>5, <1>6, <2>1 DEF TypeOK
  <2>2. CASE Snapshot[j] # d
    <3>1. j \in 1..next - 1
      BY <1>1, <1>6, <2>2
    <3>2. sample[Snapshot[j]] <= since[Snapshot[j]] /\ Snapshot[j] \in Cells
      BY <1>6, <3>1, SnapshotRead DEF Sticking
    <3>3. QED
      BY <1>1, <2>2, <3>2 DEF TypeOK
  <2>3. QED
    BY <2>1, <2>2
<1>7. stage' = "zeroing" => \A j \in 1..zeroing' - 1 : Within(AllCells[j])'
  BY <1>1, <1>3, <1>4 DEF Sticking
<1>8. next' <= Len(Snapshot') + 1
  BY <1>1, <1>2
<1>9. QED
  BY <1>1, <1>2, <1>3, <1>6, <1>7, <1>8 DEF Sticking

\* A save writes what was read since the reset, or nothing.
LEMMA SaveSticking ==
  ASSUME TypeOK, Sticking, Save
  PROVE  Sticking'
<1>1. /\ UNCHANGED <<cell, zeroing, since>> /\ first' = FALSE /\ next' = 0
      /\ next = Len(Snapshot) + 1
  BY DEF Save
<1>2. Len(Snapshot) \in Nat /\ Len(Snapshot') \in Nat
  <2>1. Len(Snapshot) \in 1..Buckets + 2
    BY SnapshotType DEF TypeOK
  <2>2. Snapshot' = AllCells
    BY <1>1 DEF Snapshot
  <2>3. Len(AllCells) = Buckets + 2 /\ Buckets \in Nat
    BY AllCellsType, MetricsAssumption
  <2> QED
    BY <2>1, <2>2, <2>3
<1>3. \A c \in Cells : Within(c)' <=> Within(c)
  BY <1>1 DEF Within, Before
<1>4. \A j \in 1..zeroing - 1 : AllCells[j] \in Cells
  BY AllCellsType, MetricsAssumption DEF TypeOK
<1>5. stage' \in {stage, "kept", "done"} /\ (stage' # stage => stage = "reading")
      /\ (stage' = "reading" => FALSE)
  BY DEF Save, TypeOK
<1>6. ASSUME stage' = "kept", NEW c \in Cells PROVE row'[c] <= since[c]
  <2>1. stage \in {"reading", "kept"}
    BY <1>5, <1>6
  <2>2. \A i \in 1..Len(Snapshot) : sample[Snapshot[i]] <= since[Snapshot[i]]
    BY <1>1, <1>2, <2>1 DEF Sticking
  <2>3. CASE row' = row /\ stage = "kept"
    BY <2>3 DEF Sticking
  <2>4. CASE row' = [e \in Cells |->
              IF \E i \in 1..Len(Snapshot) : Snapshot[i] = e THEN sample[e] ELSE row[e]]
    <3>1. CASE \E i \in 1..Len(Snapshot) : Snapshot[i] = c
      BY <2>2, <2>4, <3>1
    <3>2. CASE stage = "reading"
      <4>1. Snapshot = AllCells
        BY <3>2 DEF Snapshot, Sticking
      <4>2. \E i \in 1..Len(Snapshot) : Snapshot[i] = c
        BY <4>1, AllCellsType, AllCellsHoldsAll
      <4>3. QED
        BY <3>1, <4>2
    <3>3. CASE stage = "kept" /\ ~ \E i \in 1..Len(Snapshot) : Snapshot[i] = c
      BY <2>4, <3>3 DEF Sticking
    <3>4. QED
      BY <2>1, <3>1, <3>2, <3>3
  <2>5. QED
    BY <1>6, <2>1, <2>3, <2>4 DEF Save
<1>7. stage' = "zeroing" => \A j \in 1..zeroing' - 1 : Within(AllCells[j])'
  BY <1>1, <1>3, <1>4, <1>5 DEF Sticking
<1>8. stage' \in {"done", "reading", "kept"} => \A c \in Cells : Within(c)'
  BY <1>3, <1>5 DEF Sticking
<1>9. QED
  BY <1>1, <1>2, <1>5, <1>6, <1>7, <1>8 DEF Sticking

\* A cell that is zeroed holds nothing at all.
LEMMA ZeroSticking ==
  ASSUME TypeOK, TypeOK', Sticking, Zero
  PROVE  Sticking'
<1> DEFINE d == AllCells[zeroing]
<1>1. /\ UNCHANGED <<row, first, next, sample, since, stage>> /\ zeroing' = zeroing + 1
      /\ cell' = [cell EXCEPT ![d] = 0]
      /\ zeroing \in 1..Buckets + 2 /\ d \in Cells
  BY AllCellsType DEF Zero, history
<1>2. ASSUME NEW c \in Cells, Within(c) \/ c = d PROVE Within(c)'
  <2>1. Before(c) \in Nat /\ Before(c) <= since[c] /\ Before(c)' = Before(c)
    BY <1>1, BeforeBounds DEF Before
  <2>2. cell'[c] = IF c = d THEN 0 ELSE cell[c]
    BY <1>1 DEF TypeOK
  <2>3. cell[c] \in Nat /\ since[c] \in Nat
    BY DEF TypeOK
  <2>4. QED
    BY <1>1, <1>2, <2>1, <2>2, <2>3 DEF Within
<1>3. stage = "zeroing"
  BY <1>1 DEF Sticking
<1>4. ASSUME NEW j \in 1..zeroing' - 1 PROVE Within(AllCells[j])'
  <2>1. j \in 1..Buckets + 2 /\ AllCells[j] \in Cells
    BY <1>1, <1>4, AllCellsType, MetricsAssumption
  <2>2. j = zeroing \/ j \in 1..zeroing - 1
    BY <1>1, <1>4
  <2>3. Within(AllCells[j]) \/ AllCells[j] = d
    BY <1>3, <2>2 DEF Sticking
  <2>4. QED
    BY <1>2, <2>1, <2>3
<1>5. Snapshot' = Snapshot
  BY <1>1 DEF Snapshot
<1>6. QED
  BY <1>1, <1>3, <1>4, <1>5 DEF Sticking

\* A reset is asked for, or it ends: then every cell has been zeroed.
LEMMA ResetSticking ==
  ASSUME TypeOK, Sticking, Reset \/ ZeroGauge
  PROVE  Sticking'
<1>1. UNCHANGED <<cell, row, first, next, sample>> /\ Snapshot' = Snapshot
  BY DEF Reset, ZeroGauge, Snapshot
<1>2. CASE Reset
  <2>1. zeroing' = 1 /\ stage' = "zeroing" /\ since' = Zeros
    BY <1>2 DEF Reset
  <2>2. \A i \in 2..Buckets : since'[Bucket(i - 1)] <= since'[Bucket(i)]
    <3>1. \A i \in 2..Buckets : i - 1 \in 1..Buckets /\ i \in 1..Buckets
      BY MetricsAssumption
    <3>2. QED
      BY <2>1, <3>1, CellKinds DEF Zeros
  <2>3. QED
    BY <1>1, <2>1, <2>2 DEF Sticking
<1>3. CASE ZeroGauge
  <2>1. zeroing = Buckets + 3 /\ zeroing' = 0 /\ stage' = "done" /\ since' = since
    BY <1>3, AllCellsType, MetricsAssumption DEF ZeroGauge
  <2>2. stage = "zeroing"
    BY <2>1, MetricsAssumption DEF Sticking
  <2>3. \A c \in Cells : Within(c)
    BY <2>1, <2>2, AllCellsHoldsAll, MetricsAssumption DEF Sticking
  <2>4. \A c \in Cells : Within(c)'
    BY <1>1, <2>1, <2>3 DEF Within, Before
  <2>5. QED
    BY <1>1, <2>1, <2>4 DEF Sticking
<1>4. QED
  BY <1>2, <1>3

\* After a restart the cells are those of the rows, or zero.
LEMMA RestartSticking ==
  ASSUME TypeOK, TypeOK', Sticking, Restart
  PROVE  Sticking'
<1>1. /\ UNCHANGED <<row, since>> /\ first' = TRUE /\ next' = 0 /\ zeroing' = 0
      /\ stage' = IF stage = "kept" THEN "kept" ELSE "undone"
      /\ cell' = [c \in Cells |-> IF c \in Kept THEN row[c] ELSE 0]
  BY DEF Restart, Stopped
<1>2. ASSUME stage = "kept", NEW c \in Cells PROVE Within(c)'
  <2>1. Before(c) \in Nat /\ Before(c) <= since[c] /\ Before(c)' = Before(c)
    BY <1>1, BeforeBounds DEF Before
  <2>2. row[c] <= since[c] /\ row[c] \in Nat /\ since[c] \in Nat
    BY <1>2 DEF Sticking, TypeOK
  <2>3. c \in Kept => Before(c) = 0
    BY BeforeValues
  <2>4. QED
    BY <1>1, <2>1, <2>2, <2>3 DEF Within
<1>3. Len(Snapshot') \in Nat
  BY <1>1 DEF Snapshot, NoBuckets
<1>4. QED
  BY <1>1, <1>2, <1>3 DEF Sticking

LEMMA InitSticking == Init => Sticking
<1> SUFFICES ASSUME Init PROVE Sticking
  OBVIOUS
<1>1. \A i \in 2..Buckets : i - 1 \in 1..Buckets /\ i \in 1..Buckets
  BY MetricsAssumption
<1>2. since = Zeros /\ cell = Zeros /\ row = Zeros /\ next = 0 /\ zeroing = 0 /\ stage = "kept"
      /\ first = TRUE
  BY DEF Init
<1>3. ASSUME NEW c \in Cells PROVE cell[c] = 0 /\ since[c] = 0 /\ row[c] = 0 /\ Before(c) = 0
  <2>1. Before(c) = 0
    <3>1. ASSUME NEW i \in 2..Buckets, c = Bucket(i) PROVE Before(c) = 0
      BY <1>1, <1>2, <3>1, CellKinds, BeforeValues DEF Zeros
    <3>2. CASE ~ \E i \in 2..Buckets : c = Bucket(i)
      BY <3>2 DEF Before
    <3>3. QED
      BY <3>1, <3>2
  <2>2. QED
    BY <1>2, <2>1 DEF Zeros
<1>4. \A c \in Cells : Within(c)
  BY <1>3 DEF Within
<1>5. \A i \in 2..Buckets : since[Bucket(i - 1)] <= since[Bucket(i)]
  BY <1>1, <1>3, CellKinds
<1>6. Len(Snapshot) \in Nat
  BY <1>2 DEF Snapshot, NoBuckets
<1>7. QED
  BY <1>2, <1>3, <1>4, <1>5, <1>6 DEF Sticking

\* Once a full save (of counters and buckets) that began after a reset has succeeded,
\* neither rows nor memory hold more than what happened since, for any requests,
\* buckets, resets and restarts.
THEOREM ResetHolds == Spec => []ResetSticks
<1>1. TypeOK /\ TypeOK' /\ Sticking /\ [Next]_vars => Sticking'
  <2> SUFFICES ASSUME TypeOK, TypeOK', Sticking, [Next]_vars PROVE Sticking'
    OBVIOUS
  <2>1. ASSUME NEW r \in Requests, Step(r) PROVE Sticking'
    BY <2>1, StepSticking
  <2>2. CASE Tick \/ Read \/ Save \/ Reset \/ Zero \/ ZeroGauge \/ Restart
    BY <2>2, TickSticking, ReadSticking, SaveSticking, ZeroSticking, ResetSticking, RestartSticking
  <2>3. CASE UNCHANGED vars
    <3>1. cell' = cell /\ since' = since /\ UNCHANGED <<row, process, stage>>
      BY <2>3 DEF vars, history
    <3>2. \A c \in Cells : Within(c) => Within(c)'
      BY <3>1 DEF Within, Before
    <3>3. \A c \in Cells : since'[c] >= since[c]
      BY <3>1 DEF TypeOK
    <3>4. QED
      BY <3>1, <3>2, <3>3, RisingSticking DEF Sticking
  <2>4. QED
    BY <2>1, <2>2, <2>3 DEF Next
<1>2. TypeOK /\ Sticking => ResetSticks
  <2> SUFFICES ASSUME TypeOK, Sticking, stage = "kept"
               PROVE  /\ \A c \in Cells : row[c] <= since[c]
                      /\ \A c \in Kept : cell[c] <= since[c]
    BY DEF ResetSticks
  <2>1. ASSUME NEW c \in Kept PROVE cell[c] <= since[c]
    <3>1. c \in Cells /\ Before(c) = 0 /\ cell[c] \in Nat
      BY CellKinds, BeforeValues DEF TypeOK
    <3>2. QED
      BY <3>1 DEF Sticking, Within
  <2>2. QED
    BY <2>1 DEF Sticking
<1>3. QED
  BY InitSticking, TypeCorrect, <1>1, <1>2, PTL DEF Spec

=============================================================================
