-------------------------- MODULE BatchStageProofs --------------------------
(***************************************************************************)
(* The safety properties of BatchStage.tla, proved for any number of       *)
(* records, runs and slots, any interval, and any records that fail or     *)
(* raise.  The counts are cardinalities: of the records that have finished *)
(* for the counter of a batch, of those inside the semaphore for the       *)
(* requests and for the saves that are due.                                *)
(***************************************************************************)
EXTENDS BatchStage, FiniteSetTheorems, TLAPS

USE BatchAssumption DEF Runs, Records

-----------------------------------------------------------------------------
(* Arithmetic and sizes                                                    *)

\* Sets of records are finite, and counted one by one.
LEMMA Sizes ==
  ASSUME NEW S \in SUBSET Records
  PROVE  /\ Cardinality(S) \in 0..N
         /\ \A r \in Records \ S : Cardinality(S \cup {r}) = Cardinality(S) + 1
<1>1. IsFiniteSet(Records) /\ Cardinality(Records) = N
  <2>1. /\ IsFiniteSet(1..N)
        /\ Cardinality(1..N) = IF 1 > N THEN 0 ELSE N - 1 + 1
    BY FS_Interval
  <2> QED
    BY <2>1
<1>2. IsFiniteSet(S) /\ Cardinality(S) <= Cardinality(Records)
  BY <1>1, FS_Subset
<1>3. Cardinality(S) \in Nat
  BY <1>2, FS_CardinalityType
<1>4. \A r \in Records \ S : Cardinality(S \cup {r}) = Cardinality(S) + 1
  BY <1>2, FS_AddElement
<1> QED
  BY <1>1, <1>2, <1>3, <1>4

\* One record more is at most one more.
LEMMA OneMore ==
  ASSUME NEW S \in SUBSET Records, NEW r \in Records
  PROVE  Cardinality(S \cup {r}) \in Nat /\ Cardinality(S \cup {r}) <= Cardinality(S) + 1
<1>1. IsFiniteSet(S) /\ Cardinality(S) \in Nat
  <2>1. IsFiniteSet(Records)
    BY FS_Interval
  <2> QED
    BY <2>1, FS_Subset, FS_CardinalityType
<1>2. Cardinality(S \cup {r}) = IF r \in S THEN Cardinality(S) ELSE Cardinality(S) + 1
  BY <1>1, FS_AddElement
<1> QED
  BY <1>1, <1>2

\* A part of a set of records is not larger than the set.
LEMMA Smaller ==
  ASSUME NEW S \in SUBSET Records, NEW T \in SUBSET S
  PROVE  Cardinality(T) <= Cardinality(S)
<1>1. IsFiniteSet(Records)
  BY FS_Interval
<1> QED
  BY <1>1, FS_Subset

\* No more than all of them.
LEMMA None0 == Cardinality({}) = 0
  BY FS_EmptySet

\* Multiples of the interval.
LEMMA Multiples ==
  ASSUME NEW a \in Nat, NEW b \in Nat
  PROVE  /\ (a + b) * Interval = a * Interval + b * Interval
         /\ a * Interval \in Nat
         /\ a <= a * Interval
         /\ a <= b => a * Interval <= b * Interval
         /\ 0 * Interval = 0 /\ 1 * Interval = Interval
         /\ (a * Interval) % Interval = 0
<1>1. PICK i \in Nat \ {0} : i = Interval
  OBVIOUS
<1>2. (a + b) * i = a * i + b * i
  OBVIOUS
<1>3. a * i \in Nat /\ a <= a * i
  OBVIOUS
<1>4. a <= b => a * i <= b * i
  OBVIOUS
<1>5. 0 * i = 0 /\ 1 * i = i
  OBVIOUS
<1>6. (a * i) % i = 0
  OBVIOUS
<1> QED
  BY <1>1, <1>2, <1>3, <1>4, <1>5, <1>6

-----------------------------------------------------------------------------
(* The initial state                                                       *)

\* Nothing has been started.
LEMMA InitInv == Init => TypeOK /\ IInv
<1> SUFFICES ASSUME Init PROVE TypeOK /\ IInv
  OBVIOUS
<1>1. TypeOK
  BY DEF Init, TypeOK
<1>2. RunInv /\ RequestInv /\ OrphanInv /\ StageInv /\ FileInv /\ UnsavedInv
  BY DEF Init, RunInv, RequestInv, OrphanInv, StageInv, FileInv, UnsavedInv, Alive
<1>3. CountInv
  <2>1. ASSUME NEW g \in Runs PROVE Cardinality(Finished(g)) \in 0..N
    <3>1. Finished(g) \in SUBSET Records
      BY DEF Finished
    <3> QED
      BY <3>1, Sizes
  <2>2. \A g \in Runs : completed[g] = 0
    BY DEF Init
  <2> HIDE DEF Finished
  <2>3. \A g \in Runs : 0 <= Cardinality(Finished(g))
    BY <2>1
  <2> QED
    BY <2>2, <2>3 DEF CountInv
<1>4. SlotInv
  <2>1. \A g \in Runs : Held(g) = {}
    BY DEF Init, Held
  <2>2. \A g \in Runs : Cardinality(Held(g)) = 0
    BY <2>1, None0, Zenon
  <2> QED
    BY <2>2 DEF SlotInv
<1> QED
  BY <1>1, <1>2, <1>3, <1>4 DEF IInv

-----------------------------------------------------------------------------
(* The counts                                                              *)

\* A counter that stands still is not disturbed by records that end.
LEMMA KeepCount ==
  ASSUME TypeOK, TypeOK', CountInv, NEW g \in Runs, completed'[g] = completed[g],
         Finished(g) \subseteq Finished(g)'
  PROVE  completed'[g] <= Cardinality(Finished(g))'
<1>1. /\ Cardinality(Finished(g)) <= Cardinality(Finished(g)')
      /\ Cardinality(Finished(g)) \in Nat /\ Cardinality(Finished(g)') \in Nat
  BY Smaller, Sizes DEF Finished
<1> QED
  BY <1>1 DEF CountInv, TypeOK

\* A slot that is left, or passed on inside the semaphore, is not one more.
LEMMA KeepSlots ==
  ASSUME TypeOK, SlotInv, NEW g \in Runs, Held(g)' \subseteq Held(g)
  PROVE  Cardinality(Held(g)') <= Concurrency
<1>1. /\ Cardinality(Held(g)') <= Cardinality(Held(g))
      /\ Cardinality(Held(g)) \in Nat /\ Cardinality(Held(g)') \in Nat
  BY Smaller, Sizes DEF Held
<1> QED
  BY <1>1 DEF SlotInv

\* The saves that are due keep slots, each its own.
LEMMA DueAreHeld ==
  ASSUME SlotInv, 1 \in Runs, NEW last
  PROVE  /\ Cardinality(Due(last)) \in 0..Concurrency
         /\ \A r \in Records : task[1][r] = "working" =>
               Cardinality(Due(last)) < Concurrency
<1>1. /\ Due(last) \subseteq Held(1) /\ Held(1) \subseteq Records
      /\ Cardinality(Due(last)) <= Cardinality(Held(1))
      /\ Cardinality(Due(last)) \in Nat /\ Cardinality(Held(1)) \in Nat
  <2>1. Due(last) \subseteq Held(1) /\ Held(1) \subseteq Records
    BY DEF Due, Held
  <2>2. Cardinality(Due(last)) \in Nat /\ Cardinality(Held(1)) \in Nat
    BY <2>1, Sizes
  <2> QED
    BY <2>1, <2>2, Smaller
<1>2. ASSUME NEW r \in Records, task[1][r] = "working"
      PROVE  Cardinality(Due(last)) < Concurrency
  <2>1. r \notin Due(last) /\ Due(last) \cup {r} \subseteq Held(1)
    BY <1>2 DEF Due, Held
  <2>2. Cardinality(Due(last) \cup {r}) = Cardinality(Due(last)) + 1
    BY <2>1, <1>1, Sizes
  <2>3. Cardinality(Due(last) \cup {r}) <= Cardinality(Held(1))
    BY <2>1, <1>1, Smaller
  <2> QED
    BY <1>1, <2>2, <2>3 DEF SlotInv
<1> QED
  BY <1>1, <1>2 DEF SlotInv

-----------------------------------------------------------------------------
(* The steps of a coroutine                                                *)

\* What the place of a coroutine says of its run: it was started, and if it is
\* over already it has failed.
LEMMA AliveFacts ==
  ASSUME TypeOK, IInv, NEW g \in Runs, NEW r \in Records, task[g][r] \in Alive
  PROVE  /\ run \in Runs /\ g \in 1..run
         /\ stage \in {"upsert", "complete", "cancelled"} => g \in 1..(run - 1)
         /\ g \in 1..(run - 1) => \E s \in Records : task[g][s] = "raised"
<1>1. run \in 0..MaxRuns
  BY DEF TypeOK
<1>2. \A h \in Runs, s \in Records : h > run => task[h][s] = "none"
  BY DEF IInv, RunInv
<1>3. ~(g > run)
  BY <1>2 DEF Alive
<1>4. g \in 1..run /\ run \in Runs
  BY <1>1, <1>3
<1>5. stage \in {"upsert", "complete", "cancelled"} => g # run
  BY <1>4 DEF IInv, StageInv, Alive
<1>6. g < run => \E s \in Records : task[g][s] = "raised"
  BY DEF IInv, OrphanInv
<1> QED
  BY <1>4, <1>5, <1>6

\* A coroutine that goes on, whatever it writes to its record.
LEMMA AliveMove ==
  ASSUME TypeOK, IInv, NEW g \in Runs, NEW r \in Records, task[g][r] \in Alive,
         NEW to \in {"working", "reporting", "ended"},
         task' = [task EXCEPT ![g][r] = to], UNCHANGED <<run, stage, closed>>,
         to # "working" => status'[g][r] # None,
         \A h \in Runs, s \in Records : status[h][s] # None => status'[h][s] # None
  PROVE  /\ task' \in [Runs -> [Records -> Alive \cup {"none", "ended", "raised", "cancelled"}]]
         /\ \A h \in Runs, s \in Records :
               task'[h][s] = IF h = g /\ s = r THEN to ELSE task[h][s]
         /\ OrphanInv' /\ StageInv' /\ FileInv'
<1>1. /\ task' \in [Runs -> [Records -> Alive \cup {"none", "ended", "raised", "cancelled"}]]
      /\ \A h \in Runs, s \in Records :
            task'[h][s] = IF h = g /\ s = r THEN to ELSE task[h][s]
  BY DEF TypeOK, Alive
<1>2. \A h \in Runs, s \in Records : task[h][s] = "raised" <=> task'[h][s] = "raised"
  BY <1>1 DEF Alive
<1>3. \A h \in Runs, s \in Records : task'[h][s] \in Alive => task[h][s] \in Alive
  BY <1>1
<1>4. OrphanInv'
  <2> SUFFICES ASSUME NEW h \in Runs, h < run \/ stage = "failed",
                      NEW s \in Records, task'[h][s] \in Alive
               PROVE  \E z \in Records : task'[h][z] = "raised"
    BY DEF OrphanInv
  <2>1. \E z \in Records : task[h][z] = "raised"
    BY <1>3 DEF IInv, OrphanInv
  <2> QED
    BY <2>1, <1>2
<1>5. StageInv'
  <2>1. run \in Runs
    BY AliveFacts
  <2>2. stage \in {"upsert", "complete", "cancelled"} => g # run
    BY <2>1, AliveFacts
  <2>3. \A h \in Runs, s \in Records :
           task'[h][s] \in {"reporting", "ended"} => status'[h][s] # None
    BY <1>1 DEF IInv, StageInv
  <2>4. stage = "batch" => \A s \in Records : task'[run][s] \notin {"raised", "cancelled"}
    BY <1>1, <2>1 DEF IInv, StageInv
  <2>5. stage \in {"upsert", "complete"} => \A s \in Records : task'[run][s] \in {"none", "ended"}
    BY <1>1, <2>1, <2>2 DEF IInv, StageInv
  <2>6. stage \in {"batch", "upsert", "complete"} =>
          \A s \in Records : task'[run][s] = "none" => status'[run][s] # None
    BY <1>1, <2>1 DEF IInv, StageInv
  <2>7. stage = "cancelled" => \A s \in Records : task'[run][s] \notin Alive
    BY <1>3, <2>1 DEF IInv, StageInv
  <2> QED
    BY <2>3, <2>4, <2>5, <2>6, <2>7 DEF StageInv
<1>6. FileInv'
  <2>1. stage = "complete" => g \in 1..(run - 1) /\ \E s \in Records : task[g][s] = "raised"
    BY AliveFacts
  <2> QED
    BY <2>1, <1>2 DEF FileInv
<1> QED
  BY <1>1, <1>4, <1>5, <1>6

\* A coroutine that gets a slot sends its request.
LEMMA AcquireStep ==
  ASSUME TypeOK, IInv, NEW g \in Runs, NEW r \in Records, Acquire(g, r)
  PROVE  TypeOK' /\ IInv'
<1>1. /\ task[g][r] = "waiting" /\ task[g][r] \in Alive /\ flight' = flight \cup Sent(g, r)
      /\ task' = [task EXCEPT ![g][r] = "working"]
      /\ UNCHANGED <<run, stage, status, completed, number, closed, file>>
  BY DEF Acquire, Alive
<1>2. /\ task' \in [Runs -> [Records -> Alive \cup {"none", "ended", "raised", "cancelled"}]]
      /\ \A h \in Runs, s \in Records :
            task'[h][s] = IF h = g /\ s = r THEN "working" ELSE task[h][s]
      /\ OrphanInv' /\ StageInv' /\ FileInv'
  BY <1>1, AliveMove
<1>3. run \in Runs /\ g \in 1..run
  BY <1>1, AliveFacts
<1>4. \A q \in Sent(g, r) : q[1] = g /\ q[2] = r
  BY DEF Sent
<1>5. TypeOK'
  <2>1. 1 \in 0..Attempts
    OBVIOUS
  <2>2. tries' \in [Runs -> [Records -> 0..Attempts]]
    BY <2>1 DEF Acquire, TypeOK
  <2>3. Sent(g, r) \subseteq {q \in Runs \X Records \X Nat : q[3] \in 1..Chunks[q[2]]}
    BY DEF Sent
  <2> QED
    BY <1>1, <1>2, <2>2, <2>3 DEF TypeOK
<1>6. RunInv'
  BY <1>1, <1>2, <1>3, <1>4 DEF IInv, RunInv
<1>7. CountInv'
  <2>1. \A h \in Runs : Finished(h) \subseteq Finished(h)'
    BY <1>1, <1>2 DEF Finished
  <2> QED
    BY <1>1, <1>5, <2>1, KeepCount DEF IInv, CountInv
<1>8. SlotInv'
  <2> SUFFICES ASSUME NEW h \in Runs PROVE Cardinality(Held(h)') <= Concurrency
    BY DEF SlotInv
  <2>1. CASE h = g
    <3>1. Held(g)' = Held(g) \cup {r} /\ r \notin Held(g) /\ Held(g) \in SUBSET Records
      BY <1>1, <1>2 DEF Held
    <3>2. /\ Cardinality(Held(g)') = Cardinality(Held(g)) + 1
          /\ Cardinality(Held(g)) \in Nat
      BY <3>1, Sizes
    <3>3. Cardinality(Held(g)) < Concurrency
      BY DEF Acquire
    <3> QED
      BY <2>1, <3>2, <3>3
  <2>2. CASE h # g
    <3>1. Held(h)' = Held(h)
      BY <1>2, <2>2 DEF Held
    <3> QED
      BY <3>1 DEF IInv, SlotInv
  <2> QED
    BY <2>1, <2>2
<1>9. RequestInv'
  <2>1. \A q \in flight : q[1] \in Runs /\ q[2] \in Records
    BY DEF TypeOK
  <2>2. \A q \in Sent(g, r) : task'[q[1]][q[2]] = "working"
    BY <1>2, <1>4
  <2>3. \A q \in flight : task[q[1]][q[2]] = "working" => task'[q[1]][q[2]] = "working"
    BY <1>2, <2>1
  <2> QED
    BY <1>1, <2>2, <2>3 DEF IInv, RequestInv
<1>10. UnsavedInv'
  <2>1. \A last : Due(last)' = Due(last)
    <3>1. 1 \in Runs /\ \A s \in Records : task'[1][s] = "reporting" <=> task[1][s] = "reporting"
      BY <1>1, <1>2, <1>3
    <3> QED
      BY <1>1, <3>1 DEF Due
  <2>2. OkOf(1)' = OkOf(1) /\ Saved' = Saved
    BY <1>1 DEF OkOf, Saved
  <2> QED
    BY <1>1, <2>1, <2>2 DEF IInv, UnsavedInv
<1> QED
  BY <1>2, <1>5, <1>6, <1>7, <1>8, <1>9, <1>10 DEF IInv

\* A record that gets its outcome is counted.  When its number is a multiple of
\* the interval one more save is due; when it is not, a slot is left for it, so
\* that not every slot waits for a save.
LEMMA FinishStep ==
  ASSUME TypeOK, IInv, NEW g \in Runs, NEW r \in Records, NEW outcome \in {"ok", "error"},
         task[g][r] = "working", Finish(g, r, outcome),
         flight' \subseteq flight,
         OneRequestEach => \A q \in flight' : ~(q[1] = g /\ q[2] = r),
         UNCHANGED <<run, stage, closed, file>>
  PROVE  TypeOK' /\ IInv'
<1>1. /\ status' \in [Runs -> [Records -> {None, "ok", "error"}]]
      /\ \A h \in Runs, s \in Records :
            status'[h][s] = IF h = g /\ s = r THEN outcome ELSE status[h][s]
  BY DEF Finish, TypeOK
<1>2. \A h \in Runs : completed'[h] = IF h = g THEN completed[g] + 1 ELSE completed[h]
  BY DEF Finish, TypeOK
<1>3. outcome # None
  OBVIOUS
<1>4. task[g][r] \in Alive /\ task' = [task EXCEPT ![g][r] = "reporting"]
  BY DEF Finish, Alive
<1>5. /\ task' \in [Runs -> [Records -> Alive \cup {"none", "ended", "raised", "cancelled"}]]
      /\ \A h \in Runs, s \in Records :
            task'[h][s] = IF h = g /\ s = r THEN "reporting" ELSE task[h][s]
      /\ OrphanInv' /\ StageInv' /\ FileInv'
  <2>1. /\ status'[g][r] # None
        /\ \A h \in Runs, s \in Records : status[h][s] # None => status'[h][s] # None
    BY <1>1, <1>3
  <2> QED
    BY <1>4, <2>1, AliveMove
<1>6. run \in Runs /\ g \in 1..run
  BY <1>4, AliveFacts
<1>7. \A h \in Runs : completed'[h] <= Cardinality(Finished(h)')
                      /\ Cardinality(Finished(h)') \in 0..N
  <2> TAKE h \in Runs
  <2>1. Cardinality(Finished(h)') \in 0..N
    BY Sizes DEF Finished
  <2>2. CASE h = g
    <3>1. /\ Finished(g)' = Finished(g) \cup {r} /\ r \notin Finished(g)
          /\ Finished(g) \in SUBSET Records
      BY <1>5, SMTT(30) DEF Finished
    <3>2. Cardinality(Finished(g)') = Cardinality(Finished(g)) + 1
      BY <3>1, Sizes
    <3>3. Cardinality(Finished(g)) \in 0..N
      BY <3>1, Sizes
    <3>4. completed[g] <= Cardinality(Finished(g)) /\ completed[g] \in Nat
      BY DEF IInv, CountInv, TypeOK
    <3> QED
      BY <2>1, <2>2, <1>2, <3>2, <3>3, <3>4
  <2>3. CASE h # g
    <3>1. Finished(h)' = Finished(h)
      BY <1>5, <2>3 DEF Finished
    <3> QED
      BY <2>1, <2>3, <3>1, <1>2 DEF IInv, CountInv
  <2> QED
    BY <2>2, <2>3
<1>8. completed[g] \in 0..N /\ completed'[g] = completed[g] + 1 /\ completed'[g] \in 0..N
  <2>1. completed[g] \in 0..N
    BY DEF TypeOK
  <2> QED
    BY <2>1, <1>2, <1>7
<1>9. TypeOK'
  <2>1. completed' \in [Runs -> 0..N]
    BY <1>8 DEF Finish, TypeOK
  <2>2. /\ number' \in [Runs -> [Records -> 0..N]]
        /\ tries' \in [Runs -> [Records -> 0..Attempts]]
    <3>1. 0 \in 0..Attempts
      OBVIOUS
    <3> QED
      BY <1>8, <3>1 DEF Finish, TypeOK
  <2> QED
    BY <1>1, <1>5, <2>1, <2>2 DEF TypeOK
<1>10. RunInv'
  <2>1. \A h \in Runs : h > run => h # g
    BY <1>6
  <2>2. \A h \in Runs, s \in Records : h > run => task'[h][s] = "none" /\ completed'[h] = 0
    <3>1. \A h \in Runs, s \in Records : h > run => task[h][s] = "none" /\ completed[h] = 0
      BY DEF IInv, RunInv
    <3>2. ASSUME NEW h \in Runs, NEW s \in Records, h > run
          PROVE  task'[h][s] = "none" /\ completed'[h] = 0
      <4>1. h # g
        BY <2>1, <3>2
      <4>2. task'[h][s] = task[h][s] /\ completed'[h] = completed[h]
        BY <1>2, <1>5, <4>1
      <4> QED
        BY <3>1, <3>2, <4>2
    <3> QED
      BY <3>2
  <2>3. \A q \in flight' : q[1] <= run
    BY DEF IInv, RunInv
  <2> QED
    BY <2>2, <2>3 DEF IInv, RunInv
<1>11. CountInv'
  BY <1>7 DEF CountInv
<1>12. SlotInv'
  <2>1. \A h \in Runs : Held(h)' = Held(h)
    BY <1>5 DEF Held
  <2> QED
    BY <2>1 DEF IInv, SlotInv
<1>13. RequestInv'
  <2>1. \A q \in flight : q[1] \in Runs /\ q[2] \in Records
    BY DEF TypeOK
  <2> QED
    BY <1>5, <2>1 DEF IInv, RequestInv
<1>14. UnsavedInv'
  <2> SUFFICES ASSUME Saves, run = 1, stage = "batch"
               PROVE  UnsavedInv'
    BY DEF UnsavedInv
  <2>1. g = 1 /\ 1 \in Runs
    BY <1>6
  <2>2. PICK last \in 0..completed[1], saves \in 0..completed[1], due \in 0..completed[1],
             rest \in 0..(Interval - 1) :
          /\ Cardinality(OkOf(1) \ Saved) <= completed[1] - last
          /\ saves * Interval <= last
          /\ completed[1] = (saves + due) * Interval + rest
          /\ due <= Cardinality(Due(last))
          /\ due = Concurrency => rest = 0
    BY DEF IInv, UnsavedInv
  <2>3. due < Concurrency
    <3>1. Cardinality(Due(last)) \in Nat /\ Cardinality(Due(last)) < Concurrency
      BY <2>1, DueAreHeld DEF IInv
    <3> QED
      BY <2>2, <3>1
  <2>4. Cardinality((OkOf(1) \ Saved)') <= completed'[1] - last
    <3> DEFINE U == OkOf(1) \ Saved
    <3>1. U' \subseteq U \cup {r} /\ U \in SUBSET Records
      BY <1>1, <2>1 DEF OkOf, Saved
    <3>2. Cardinality(U) <= completed[1] - last
      BY <2>2
    <3> HIDE DEF U
    <3>3. U' \in SUBSET Records /\ U \cup {r} \in SUBSET Records
      BY <3>1
    <3>4. Cardinality(U') <= Cardinality(U \cup {r})
      BY <3>1, <3>3, Smaller
    <3>5. Cardinality(U') \in Nat /\ Cardinality(U) \in Nat
      BY <3>1, <3>3, Sizes
    <3>6. /\ Cardinality(U \cup {r}) \in Nat
          /\ Cardinality(U \cup {r}) <= Cardinality(U) + 1
      BY <3>1, OneMore
    <3>7. Cardinality(U') <= completed'[1] - last
      BY <2>1, <1>8, <3>2, <3>4, <3>5, <3>6, SMTT(30)
    <3> QED
      BY <3>7 DEF U
  <2>5. /\ number'[1][r] = completed'[1]
        /\ \A s \in Records : s # r => number'[1][s] = number[1][s]
    BY <2>1, <1>8 DEF Finish, TypeOK
  <2>6. Due(last) \subseteq Due(last)' /\ r \notin Due(last) /\ Due(last)' \in SUBSET Records
        /\ Due(last) \in SUBSET Records
    BY <2>1, <2>5, <1>5 DEF Due
  <2>7. completed'[1] % Interval = 0 => Due(last) \cup {r} \subseteq Due(last)'
    <3>1. completed'[1] > last
      BY <2>1, <1>8
    <3> QED
      BY <2>1, <2>5, <2>6, <1>5, <3>1 DEF Due
  <2>8. /\ Cardinality(Due(last)) <= Cardinality(Due(last)')
        /\ Cardinality(Due(last)) \in Nat /\ Cardinality(Due(last)') \in Nat
        /\ Cardinality(Due(last) \cup {r}) = Cardinality(Due(last)) + 1
        /\ completed'[1] % Interval = 0 =>
             Cardinality(Due(last)) + 1 <= Cardinality(Due(last)')
    <3>1. /\ Cardinality(Due(last)) \in Nat /\ Cardinality(Due(last)') \in Nat
          /\ Cardinality(Due(last) \cup {r}) = Cardinality(Due(last)) + 1
      BY <2>6, Sizes
    <3>2. Cardinality(Due(last)) <= Cardinality(Due(last)')
      BY <2>6, Smaller
    <3>3. completed'[1] % Interval = 0 =>
            Cardinality(Due(last) \cup {r}) <= Cardinality(Due(last)')
      BY <2>6, <2>7, Smaller
    <3> QED
      BY <3>1, <3>2, <3>3
  <2>9. /\ completed'[1] = completed[1] + 1 /\ completed[1] \in Nat
        /\ last \in 0..completed'[1] /\ saves \in 0..completed'[1]
        /\ due \in 0..completed'[1] /\ due + 1 \in 0..completed'[1]
    BY <2>1, <1>8
  <2>10. CASE rest = Interval - 1
    <3> DEFINE before == (saves + due) * Interval
               after == (saves + (due + 1)) * Interval
    <3>1. before \in Nat /\ after = before + Interval
      <4>1. ((saves + due) + 1) * Interval = (saves + due) * Interval + 1 * Interval
        BY Multiples
      <4>2. 1 * Interval = Interval /\ (saves + due) * Interval \in Nat
        BY Multiples
      <4>3. (saves + due) + 1 = saves + (due + 1)
        OBVIOUS
      <4> QED
        BY <4>1, <4>2, <4>3
    <3>2. after \in Nat /\ after % Interval = 0
      BY Multiples
    <3>3. completed[1] = before + rest
      BY <2>2
    <3> HIDE DEF before, after
    <3>4. completed'[1] = after /\ completed'[1] = after + 0
      <4>1. completed[1] = before + (Interval - 1)
        BY <2>10, <3>3
      <4>2. Interval \in Nat
        BY BatchAssumption
      <4> QED
        BY ONLY <2>9, <3>1, <3>2, <4>1, <4>2
    <3>5. due + 1 <= Cardinality(Due(last)')
      BY <2>2, <2>8, <3>2, <3>4
    <3>6. 0 \in 0..(Interval - 1)
      OBVIOUS
    <3>7. completed'[1] = (saves + (due + 1)) * Interval + 0
      BY <3>4 DEF after
    <3> QED
      BY <2>2, <2>4, <2>9, <3>5, <3>6, <3>7 DEF UnsavedInv
  <2>11. CASE rest # Interval - 1
    <3>1. rest + 1 \in 0..(Interval - 1)
      BY <2>11
    <3>2. completed'[1] = (saves + due) * Interval + (rest + 1)
      <4>1. (saves + due) * Interval \in Nat
        BY Multiples
      <4> QED
        BY <2>2, <2>9, <4>1
    <3>3. due <= Cardinality(Due(last)') /\ due # Concurrency
      BY <2>2, <2>3, <2>8
    <3> QED
      BY <2>2, <2>4, <2>9, <3>1, <3>2, <3>3 DEF UnsavedInv
  <2> QED
    BY <2>10, <2>11
<1> QED
  BY <1>5, <1>9, <1>10, <1>11, <1>12, <1>13, <1>14 DEF IInv

\* The answer to a coroutine that has ended already, or a failure after which
\* it tries again.
LEMMA UnheededStep ==
  ASSUME TypeOK, IInv, Unheeded \/ UNCHANGED <<task, status, completed, number>>,
         tries' \in [Runs -> [Records -> 0..Attempts]],
         flight' \subseteq flight, UNCHANGED <<run, stage, closed, file>>
  PROVE  TypeOK' /\ IInv'
<1>1. UNCHANGED <<task, status, completed, number, run, stage, closed, file>>
  BY DEF Unheeded
<1>2. TypeOK'
  BY <1>1 DEF TypeOK
<1>3. RunInv' /\ RequestInv'
  <2>1. \A q \in flight' : q \in flight
    OBVIOUS
  <2>2. RunInv'
    BY <1>1, <2>1 DEF IInv, RunInv
  <2>3. RequestInv'
    BY <1>1, <2>1 DEF IInv, RequestInv
  <2> QED
    BY <2>2, <2>3
<1>4. CountInv' /\ SlotInv'
  BY <1>1 DEF IInv, CountInv, SlotInv, Finished, Held
<1>5. OrphanInv' /\ StageInv' /\ FileInv'
  BY <1>1 DEF IInv, OrphanInv, StageInv, FileInv
<1>6. UnsavedInv'
  BY <1>1 DEF IInv, UnsavedInv, Due, OkOf, Saved
<1> QED
  BY <1>2, <1>3, <1>4, <1>5, <1>6 DEF IInv

\* The request of a record that makes one has number 1.
LEMMA OneInFlight ==
  ASSUME TypeOK, OneRequestEach, NEW q \in flight, NEW g \in Runs, NEW r \in Records,
         NEW k \in 1..Chunks[r], q[1] = g, q[2] = r
  PROVE  q = <<g, r, k>>
<1>1. q \in Runs \X Records \X Nat /\ q[3] \in 1..Chunks[q[2]]
  BY DEF TypeOK
<1>2. Chunks[r] = 1
  BY DEF OneRequestEach
<1>3. q[3] = 1 /\ k = 1
  BY <1>1, <1>2
<1> QED
  BY <1>1, <1>3

\* An answer ends the record, unless chunks of it are still under way.
LEMMA AnswerStep ==
  ASSUME TypeOK, IInv, NEW g \in Runs, NEW r \in Records, NEW k \in 1..Chunks[r],
         Answer(g, r, k)
  PROVE  TypeOK' /\ IInv'
<1>1. flight' = flight \ {<<g, r, k>>} /\ UNCHANGED <<run, stage, closed, file>>
  BY DEF Answer
<1>2. CASE task[g][r] = "working" /\ Finish(g, r, "ok")
  <2>1. OneRequestEach => \A q \in flight' : ~(q[1] = g /\ q[2] = r)
    BY <1>1, OneInFlight
  <2> QED
    BY <1>1, <1>2, <2>1, FinishStep
<1>3. CASE Unheeded
  <2>1. tries' \in [Runs -> [Records -> 0..Attempts]]
    BY <1>3 DEF Unheeded, TypeOK
  <2> QED
    BY <1>1, <1>3, <2>1, UnheededStep
<1> QED
  BY <1>2, <1>3 DEF Answer

\* A failure is tried again or ends the record.
LEMMA FailStep ==
  ASSUME TypeOK, IInv, NEW g \in Runs, NEW r \in Records, NEW k \in 1..Chunks[r],
         Fail(g, r, k)
  PROVE  TypeOK' /\ IInv'
<1>1. UNCHANGED <<run, stage, closed, file>>
  BY DEF Fail
<1>2. CASE /\ task[g][r] = "working" /\ tries[g][r] < Attempts
           /\ tries' = [tries EXCEPT ![g][r] = @ + 1]
           /\ UNCHANGED <<flight, task, status, completed, number>>
  <2>1. tries[g][r] \in 0..Attempts
    BY DEF TypeOK
  <2>2. tries[g][r] + 1 \in 0..Attempts
    BY <1>2, <2>1, SMTT(30)
  <2>3. tries' \in [Runs -> [Records -> 0..Attempts]]
    BY <1>2, <2>2 DEF TypeOK
  <2> QED
    BY <1>1, <1>2, <2>3, UnheededStep
<1>3. CASE /\ flight' = flight \ {<<g, r, k>>}
           /\ task[g][r] = "working" /\ Finish(g, r, "error")
  <2>1. OneRequestEach => \A q \in flight' : ~(q[1] = g /\ q[2] = r)
    BY <1>3, OneInFlight
  <2> QED
    BY <1>1, <1>3, <2>1, FinishStep
<1>4. CASE flight' = flight \ {<<g, r, k>>} /\ Unheeded
  <2>1. tries' \in [Runs -> [Records -> 0..Attempts]]
    BY <1>4 DEF Unheeded, TypeOK
  <2> QED
    BY <1>1, <1>4, <2>1, UnheededStep
<1> QED
  BY <1>2, <1>3, <1>4 DEF Fail

\* The callback has come back.  If its save was due, the file holds every
\* result there is.
LEMMA ReportStep ==
  ASSUME TypeOK, IInv, NEW g \in Runs, NEW r \in Records, Report(g, r)
  PROVE  TypeOK' /\ IInv'
<1>1. /\ task[g][r] = "reporting" /\ task[g][r] \in Alive
      /\ task' = [task EXCEPT ![g][r] = "ended"]
      /\ file' = AfterReport(g, r)
      /\ UNCHANGED <<run, stage, status, tries, completed, flight, closed>>
  BY DEF Report, Alive
<1>2. /\ task' \in [Runs -> [Records -> Alive \cup {"none", "ended", "raised", "cancelled"}]]
      /\ \A h \in Runs, s \in Records :
            task'[h][s] = IF h = g /\ s = r THEN "ended" ELSE task[h][s]
      /\ OrphanInv' /\ StageInv' /\ FileInv'
  <2>1. status'[g][r] # None
    BY <1>1 DEF IInv, StageInv
  <2> QED
    BY <1>1, <2>1, AliveMove
<1>3. run \in Runs /\ g \in 1..run
  BY <1>1, AliveFacts
<1>4. /\ number' \in [Runs -> [Records -> 0..N]]
      /\ \A h \in Runs, s \in Records :
            number'[h][s] = IF h = g /\ s = r THEN 0 ELSE number[h][s]
  <2>1. 0 \in 0..N
    OBVIOUS
  <2> QED
    BY <2>1 DEF Report, TypeOK
<1>5. TypeOK'
  <2>1. file' = None \/ file' \subseteq Records
    BY <1>1 DEF AfterReport, OkOf, TypeOK
  <2> QED
    BY <1>1, <1>2, <1>4, <2>1 DEF TypeOK
<1>6. RunInv'
  <2>1. \A h \in Runs : h > run => h # g
    BY <1>3
  <2>2. \A h \in Runs, s \in Records : h > run => task[h][s] = "none" /\ completed[h] = 0
    BY DEF IInv, RunInv
  <2>3. \A h \in Runs, s \in Records : h > run => task'[h][s] = "none" /\ completed'[h] = 0
    BY <1>1, <1>2, <2>1, <2>2
  <2> QED
    BY <1>1, <2>3 DEF IInv, RunInv
<1>7. CountInv'
  <2>1. \A h \in Runs : Finished(h) \subseteq Finished(h)'
    BY <1>1, <1>2 DEF Finished
  <2> QED
    BY <1>1, <1>5, <2>1, KeepCount DEF IInv, CountInv
<1>8. SlotInv'
  <2>1. \A h \in Runs : Held(h)' \subseteq Held(h)
    BY <1>1, <1>2 DEF Held
  <2> QED
    BY <2>1, KeepSlots DEF IInv, SlotInv
<1>9. RequestInv'
  <2>1. \A q \in flight : q[1] \in Runs /\ q[2] \in Records
    BY DEF TypeOK
  <2> QED
    BY <1>1, <1>2, <2>1 DEF IInv, RequestInv
<1>10. UnsavedInv'
  <2> SUFFICES ASSUME Saves, run = 1, stage = "batch"
               PROVE  UnsavedInv'
    BY <1>1 DEF UnsavedInv
  <2>1. g = 1 /\ 1 \in Runs
    BY <1>3
  <2>2. PICK last \in 0..completed[1], saves \in 0..completed[1], due \in 0..completed[1],
             rest \in 0..(Interval - 1) :
          /\ Cardinality(OkOf(1) \ Saved) <= completed[1] - last
          /\ saves * Interval <= last
          /\ completed[1] = (saves + due) * Interval + rest
          /\ due <= Cardinality(Due(last))
          /\ due = Concurrency => rest = 0
    BY DEF IInv, UnsavedInv
  <2>3. OkOf(1)' = OkOf(1) /\ completed' = completed /\ completed[1] \in Nat
    BY <1>1, <2>1 DEF OkOf, TypeOK
  <2>4. CASE number[1][r] % Interval = 0
    <3>1. file' = OkOf(1)
      BY <1>1, <2>1, <2>4 DEF AfterReport
    <3>2. OkOf(1) \in SUBSET Records /\ OkOf(1) # None
      BY DEF OkOf
    <3>3. (OkOf(1) \ Saved)' = {}
      BY <2>3, <3>1, <3>2 DEF Saved
    <3>4. Cardinality((OkOf(1) \ Saved)') = 0
      BY <3>3, None0, Zenon
    <3> DEFINE made == saves + due
    <3>5. /\ made \in Nat /\ made * Interval \in Nat /\ made <= made * Interval
          /\ completed[1] = made * Interval + rest
          /\ (made + 0) * Interval = made * Interval
      BY <2>2, Multiples
    <3>6. Cardinality(Due(completed[1])') \in Nat
      BY Sizes DEF Due
    <3> HIDE DEF made
    <3>7. /\ made \in 0..completed[1] /\ 0 \in 0..completed[1]
          /\ completed[1] \in 0..completed[1]
          /\ made * Interval <= completed[1]
          /\ completed[1] = (made + 0) * Interval + rest
      <4> DEFINE most == made * Interval
      <4>1. /\ made \in Nat /\ most \in Nat /\ made <= most
            /\ completed[1] = most + rest /\ (made + 0) * Interval = most
        BY <3>5
      <4>2. rest \in Nat
        OBVIOUS
      <4> HIDE DEF most
      <4>3. made \in 0..completed[1] /\ most <= completed[1]
        BY <2>3, <4>1, <4>2
      <4>4. completed[1] = (made + 0) * Interval + rest
        BY <4>1
      <4> QED
        BY <2>3, <4>3, <4>4 DEF most
    <3>8. 0 <= Cardinality(Due(completed[1])')
      BY <3>6
    <3>9. Cardinality((OkOf(1) \ Saved)') <= completed[1] - completed[1] /\ 0 # Concurrency
      BY <2>3, <3>4
    <3> QED
      BY <2>3, <3>7, <3>8, <3>9 DEF UnsavedInv
  <2>5. CASE number[1][r] % Interval # 0
    <3>1. file' = file
      BY <1>1, <2>1, <2>5 DEF AfterReport
    <3>2. OkOf(1)' = OkOf(1) /\ Saved' = Saved
      BY <2>3, <3>1 DEF Saved
    <3>3. Due(last)' = Due(last)
      <4>1. \A s \in Records \ {r} : task'[1][s] = task[1][s] /\ number'[1][s] = number[1][s]
        BY <1>2, <1>4, <2>1
      <4>2. task'[1][r] # "reporting"
        BY <1>2, <2>1
      <4>3. \A s \in Records : s \in Due(last)' <=> s \in Due(last)
        BY <2>5, <4>1, <4>2 DEF Due
      <4>4. Due(last) \in SUBSET Records /\ Due(last)' \in SUBSET Records
        BY DEF Due
      <4> QED
        BY <4>3, <4>4
    <3> QED
      BY <2>2, <2>3, <3>2, <3>3 DEF UnsavedInv
  <2> QED
    BY <2>4, <2>5
<1> QED
  BY <1>2, <1>5, <1>6, <1>7, <1>8, <1>9, <1>10 DEF IInv

\* A coroutine that raises fails its run, if that still goes on, and stays as
\* the mark of it.
LEMMA RaiseStep ==
  ASSUME TypeOK, IInv, NEW g \in Runs, NEW r \in Records, Raise(g, r)
  PROVE  TypeOK' /\ IInv'
<1>1. /\ task[g][r] \in {"working", "reporting"} /\ task[g][r] \in Alive
      /\ flight' = flight \ Sent(g, r)
      /\ stage' = IF g = run /\ stage = "batch" THEN "failed" ELSE stage
      /\ UNCHANGED <<run, status, completed, closed, file>>
  BY DEF Raise, Alive
<1>2. /\ task' \in [Runs -> [Records -> Alive \cup {"none", "ended", "raised", "cancelled"}]]
      /\ \A h \in Runs, s \in Records :
            task'[h][s] = IF h = g /\ s = r THEN "raised" ELSE task[h][s]
  BY DEF Raise, TypeOK, Alive
<1>3. /\ run \in Runs /\ g \in 1..run
      /\ stage \in {"upsert", "complete", "cancelled"} => g # run
  BY <1>1, AliveFacts
<1>4. TypeOK'
  <2>1. 0 \in 0..N /\ 0 \in 0..Attempts
    OBVIOUS
  <2>2. /\ number' \in [Runs -> [Records -> 0..N]]
        /\ tries' \in [Runs -> [Records -> 0..Attempts]]
    BY <2>1 DEF Raise, TypeOK
  <2>3. stage' \in {"idle", "batch", "upsert", "complete", "failed", "cancelled"}
    BY <1>1 DEF TypeOK
  <2> QED
    BY <1>1, <1>2, <2>2, <2>3 DEF TypeOK
<1>5. RunInv'
  <2>1. \A h \in Runs : h > run => h # g
    BY <1>3
  <2>2. \A h \in Runs, s \in Records : h > run => task[h][s] = "none" /\ completed[h] = 0
    BY DEF IInv, RunInv
  <2>3. \A h \in Runs, s \in Records : h > run => task'[h][s] = "none" /\ completed'[h] = 0
    BY <1>1, <1>2, <2>1, <2>2
  <2>4. /\ run \in closed => stage' \in {"failed", "complete", "cancelled"}
        /\ run = 0 <=> stage' = "idle"
    BY <1>1, <1>3 DEF IInv, RunInv
  <2> QED
    BY <1>1, <2>3, <2>4 DEF IInv, RunInv
<1>6. CountInv'
  <2>1. \A h \in Runs : Finished(h) \subseteq Finished(h)'
    BY <1>1, <1>2 DEF Finished
  <2> QED
    BY <1>1, <1>4, <2>1, KeepCount DEF IInv, CountInv
<1>7. SlotInv'
  <2>1. \A h \in Runs : Held(h)' \subseteq Held(h)
    BY <1>1, <1>2 DEF Held
  <2> QED
    BY <2>1, KeepSlots DEF IInv, SlotInv
<1>8. RequestInv'
  <2> SUFFICES ASSUME OneRequestEach, NEW q \in flight' PROVE task'[q[1]][q[2]] = "working"
    BY DEF RequestInv
  <2>1. /\ q \in flight /\ q \notin Sent(g, r)
        /\ q[1] \in Runs /\ q[2] \in Records /\ q[3] \in 1..Chunks[q[2]]
        /\ q = <<q[1], q[2], q[3]>>
    <3>1. q \in flight /\ q \notin Sent(g, r)
      BY <1>1
    <3>2. q \in Runs \X Records \X Nat /\ q[3] \in 1..Chunks[q[2]]
      BY <3>1 DEF TypeOK
    <3> QED
      BY <3>1, <3>2
  <2>2. ~(q[1] = g /\ q[2] = r)
    BY <2>1 DEF Sent
  <2> QED
    BY <1>2, <2>1, <2>2 DEF IInv, RequestInv
<1>9. OrphanInv'
  <2> SUFFICES ASSUME NEW h \in Runs, h < run \/ stage' = "failed",
                      NEW s \in Records, task'[h][s] \in Alive
               PROVE  \E z \in Records : task'[h][z] = "raised"
    BY <1>1 DEF OrphanInv
  <2>1. CASE h = g
    BY <1>2, <2>1
  <2>2. CASE h # g
    <3>1. task[h][s] \in Alive
      BY <1>2, <2>2
    <3>2. h \in 1..run
      BY <3>1, AliveFacts
    <3>3. h < run \/ stage = "failed"
      BY <1>1, <1>3, <2>2, <3>2
    <3>4. \E z \in Records : task[h][z] = "raised"
      BY <3>1, <3>3 DEF IInv, OrphanInv
    <3> QED
      BY <1>2, <3>4
  <2> QED
    BY <2>1, <2>2
<1>10. StageInv'
  <2>1. \A h \in Runs, s \in Records :
           task'[h][s] \in {"reporting", "ended"} => status'[h][s] # None
    BY <1>1, <1>2 DEF IInv, StageInv
  <2>2. stage' = "batch" => \A s \in Records : task'[run][s] \notin {"raised", "cancelled"}
    BY <1>1, <1>2, <1>3 DEF IInv, StageInv
  <2>3. stage' \in {"upsert", "complete"} => \A s \in Records : task'[run][s] \in {"none", "ended"}
    BY <1>1, <1>2, <1>3 DEF IInv, StageInv
  <2>4. stage' \in {"batch", "upsert", "complete"} =>
          \A s \in Records : task'[run][s] = "none" => status'[run][s] # None
    BY <1>1, <1>2, <1>3 DEF IInv, StageInv
  <2>5. stage' = "cancelled" => \A s \in Records : task'[run][s] \notin Alive
    BY <1>1, <1>2, <1>3 DEF IInv, StageInv
  <2> QED
    BY <1>1, <2>1, <2>2, <2>3, <2>4, <2>5 DEF StageInv
<1>11. FileInv'
  <2> SUFFICES ASSUME stage' = "complete", file' # None
               PROVE  \E h \in 1..(run - 1), s \in Records : task'[h][s] = "raised"
    BY <1>1 DEF FileInv
  <2>1. stage = "complete" /\ file # None
    BY <1>1
  <2>2. PICK h \in 1..(run - 1), s \in Records : task[h][s] = "raised"
    BY <2>1 DEF IInv, FileInv
  <2>3. h \in Runs
    BY <1>3
  <2>4. task'[h][s] = "raised"
    BY <1>2, <2>2, <2>3
  <2> QED
    BY <2>4
<1>12. UnsavedInv'
  <2>1. run = 1 => g = run
    BY <1>3
  <2>2. ~(run = 1 /\ stage' = "batch")
    BY <1>1, <2>1
  <2> QED
    BY <1>1, <2>2 DEF UnsavedInv
<1> QED
  BY <1>4, <1>5, <1>6, <1>7, <1>8, <1>9, <1>10, <1>11, <1>12 DEF IInv

-----------------------------------------------------------------------------
(* The steps of the run                                                    *)

\* A step that leaves the coroutines, their counts and the requests alone.
LEMMA StandStill ==
  ASSUME TypeOK, IInv, UNCHANGED <<run, task, status, tries, completed, number, flight>>
  PROVE  CountInv' /\ SlotInv' /\ RequestInv'
<1>1. CountInv'
  BY DEF IInv, CountInv, Finished
<1>2. SlotInv'
  BY DEF IInv, SlotInv, Held
<1>3. RequestInv'
  BY DEF IInv, RequestInv
<1> QED
  BY <1>1, <1>2, <1>3

\* A run finds nothing of its number; its first save is due at the interval.
LEMMA StartStep ==
  ASSUME TypeOK, IInv, StartRun
  PROVE  TypeOK' /\ IInv'
<1>1. /\ run \in 0..MaxRuns /\ run' = run + 1 /\ run' \in Runs /\ stage' = "batch"
      /\ run = 0 \/ run \in closed
      /\ stage # "cancelled"
      /\ UNCHANGED <<tries, completed, number, flight, closed, file>>
  BY DEF StartRun, TypeOK
<1>2. Saved \in SUBSET Records
  BY DEF Saved, TypeOK
<1>3. /\ task' \in [Runs -> [Records -> Alive \cup {"none", "ended", "raised", "cancelled"}]]
      /\ \A h \in Runs, s \in Records :
            task'[h][s] = IF h = run' THEN IF s \in Saved THEN "none" ELSE "waiting"
                                      ELSE task[h][s]
  BY <1>1 DEF StartRun, TypeOK, Alive
<1>4. /\ status' \in [Runs -> [Records -> {None, "ok", "error"}]]
      /\ \A h \in Runs, s \in Records :
            status'[h][s] = IF h = run' THEN IF s \in Saved THEN "ok" ELSE None
                                        ELSE status[h][s]
  BY <1>1 DEF StartRun, TypeOK
<1>5. TypeOK'
  BY <1>1, <1>3, <1>4 DEF TypeOK
<1>6. \A h \in Runs, s \in Records : h > run => task[h][s] = "none" /\ completed[h] = 0
  BY DEF IInv, RunInv
<1>7. run' > run /\ run' \notin closed
  <2>1. \A g \in closed : g <= run
    BY DEF IInv, RunInv
  <2> QED
    BY <1>1, <2>1
<1>8. completed[run'] = 0
  <2>1. Finished(run') = {}
    BY <1>1, <1>6, <1>7 DEF Finished
  <2>2. Cardinality(Finished(run')) = 0
    BY <2>1, None0, Zenon
  <2> QED
    BY <1>1, <2>2 DEF IInv, CountInv, TypeOK
<1>9. RunInv'
  <2>1. ASSUME NEW h \in Runs, NEW s \in Records, h > run'
        PROVE  task'[h][s] = "none" /\ completed'[h] = 0
    <3>1. h # run' /\ h > run
      BY <1>1, <2>1
    <3>2. task[h][s] = "none" /\ completed[h] = 0
      BY <1>6, <3>1
    <3>3. task'[h][s] = task[h][s] /\ completed' = completed
      BY <1>1, <1>3, <3>1
    <3> QED
      BY <3>2, <3>3
  <2>2. \A q \in flight : q[1] <= run'
    <3> SUFFICES ASSUME NEW q \in flight PROVE q[1] <= run'
      OBVIOUS
    <3>1. q[1] <= run /\ q[1] \in Runs
      BY DEF IInv, RunInv, TypeOK
    <3> QED
      BY <1>1, <3>1
  <2>3. \A h \in Runs : h < run' => h \in closed
    <3> SUFFICES ASSUME NEW h \in Runs, h < run' PROVE h \in closed
      OBVIOUS
    <3>1. h < run \/ h = run
      BY <1>1
    <3>2. h < run => h \in closed
      BY DEF IInv, RunInv
    <3> QED
      BY <1>1, <3>1, <3>2
  <2>4. \A h \in closed : h <= run'
    <3> SUFFICES ASSUME NEW h \in closed PROVE h <= run'
      OBVIOUS
    <3>1. h <= run /\ h \in Runs
      BY DEF IInv, RunInv, TypeOK
    <3> QED
      BY <1>1, <3>1
  <2>5. run' # 0
    BY <1>1
  <2> QED
    BY <1>1, <1>7, <2>1, <2>2, <2>3, <2>4, <2>5 DEF RunInv
<1>10. CountInv'
  <2> SUFFICES ASSUME NEW h \in Runs PROVE completed'[h] <= Cardinality(Finished(h)')
    BY DEF CountInv
  <2>1. Cardinality(Finished(h)') \in Nat
    BY Sizes DEF Finished
  <2>2. CASE h = run'
    BY <1>1, <1>8, <2>1, <2>2
  <2>3. CASE h # run'
    <3>1. Finished(h)' = Finished(h)
      BY <1>3, <2>3 DEF Finished
    <3> QED
      BY <1>1, <3>1 DEF IInv, CountInv
  <2> QED
    BY <2>2, <2>3
<1>11. SlotInv'
  <2>1. \A h \in Runs : Held(h)' \subseteq Held(h)
    BY <1>3 DEF Held
  <2> QED
    BY <2>1, KeepSlots DEF IInv, SlotInv
<1>12. RequestInv'
  <2>1. \A q \in flight : q[1] \in Runs /\ q[2] \in Records /\ q[1] <= run
    BY DEF TypeOK, IInv, RunInv
  <2>2. \A q \in flight : q[1] # run'
    BY <1>1, <2>1
  <2> QED
    BY <1>1, <1>3, <2>1, <2>2 DEF IInv, RequestInv
<1>13. OrphanInv'
  <2> SUFFICES ASSUME NEW h \in Runs, h < run', NEW s \in Records, task'[h][s] \in Alive
               PROVE  \E z \in Records : task'[h][z] = "raised"
    BY <1>1 DEF OrphanInv
  <2>1. h # run' /\ task[h][s] \in Alive
    BY <1>1, <1>3
  <2>2. h < run \/ h = run
    BY <1>1
  <2>3. h = run => stage = "failed"
    <3> SUFFICES ASSUME h = run PROVE stage = "failed"
      OBVIOUS
    <3>1. run # 0 /\ run \in closed
      BY <1>1
    <3>2. stage \in {"failed", "complete", "cancelled"}
      BY <3>1 DEF IInv, RunInv
    <3>3. stage # "complete"
      BY <2>1 DEF IInv, StageInv, Alive
    <3> QED
      BY <1>1, <3>2, <3>3
  <2>4. \E z \in Records : task[h][z] = "raised"
    BY <2>1, <2>2, <2>3 DEF IInv, OrphanInv
  <2> QED
    BY <1>3, <2>1, <2>4
<1>14. StageInv'
  <2>1. \A h \in Runs, s \in Records :
           task'[h][s] \in {"reporting", "ended"} => status'[h][s] # None
    <3> SUFFICES ASSUME NEW h \in Runs, NEW s \in Records,
                        task'[h][s] \in {"reporting", "ended"}
                 PROVE  status'[h][s] # None
      OBVIOUS
    <3>1. h # run' /\ task[h][s] \in {"reporting", "ended"}
      BY <1>3
    <3>2. status[h][s] # None
      BY <3>1 DEF IInv, StageInv
    <3> QED
      BY <1>4, <3>1, <3>2
  <2>2. \A s \in Records : task'[run'][s] \notin {"raised", "cancelled"}
    BY <1>1, <1>3
  <2>3. \A s \in Records : task'[run'][s] = "none" => status'[run'][s] # None
    BY <1>1, <1>3, <1>4
  <2> QED
    BY <1>1, <2>1, <2>2, <2>3 DEF StageInv
<1>15. FileInv'
  BY <1>1 DEF FileInv
<1>16. UnsavedInv'
  <2> SUFFICES ASSUME run' = 1 PROVE UnsavedInv'
    BY DEF UnsavedInv
  <2>1. 1 \in Runs /\ completed'[1] = 0
    BY <1>1, <1>8
  <2>2. (OkOf(1) \ Saved)' = {}
    BY <1>1, <1>4, <2>1 DEF OkOf, Saved
  <2>3. Cardinality((OkOf(1) \ Saved)') = 0
    BY <2>2, None0, Zenon
  <2>4. Cardinality(Due(0)') \in Nat
    BY Sizes DEF Due
  <2>5. 0 * Interval = 0 /\ (0 + 0) * Interval = 0
    BY Multiples
  <2> QED
    BY <2>1, <2>3, <2>4, <2>5 DEF UnsavedInv
<1> QED
  BY <1>5, <1>9, <1>10, <1>11, <1>12, <1>13, <1>14, <1>15, <1>16 DEF IInv

\* gather() returns when no coroutine of the run is alive, and none raised.
LEMMA EndBatchStep ==
  ASSUME TypeOK, IInv, EndBatch
  PROVE  TypeOK' /\ IInv'
<1>1. /\ stage = "batch" /\ stage' = "upsert"
      /\ \A r \in Records : task[run][r] \notin Alive
      /\ UNCHANGED <<run, task, status, tries, completed, number, flight, closed>>
  BY DEF EndBatch
<1>2. run \in Runs /\ run # 0 /\ run \notin closed
  BY <1>1 DEF IInv, RunInv, TypeOK
<1>3. \A r \in Records : task[run][r] \in {"none", "ended"}
  <2>1. \A r \in Records :
           task[run][r] \in Alive \cup {"none", "ended", "raised", "cancelled"}
    <3>1. task[run] \in [Records -> Alive \cup {"none", "ended", "raised", "cancelled"}]
      BY <1>2 DEF TypeOK
    <3> QED
      BY <3>1
  <2> QED
    BY <1>1, <2>1 DEF IInv, StageInv
<1>4. TypeOK'
  <2>1. file' = None \/ file' \subseteq Records
    BY DEF EndBatch, OkOf, TypeOK
  <2> QED
    BY <1>1, <2>1 DEF TypeOK
<1>5. RunInv'
  BY <1>1, <1>2 DEF IInv, RunInv
<1>6. OrphanInv'
  BY <1>1 DEF IInv, OrphanInv
<1>7. StageInv'
  BY <1>1, <1>3 DEF IInv, StageInv
<1>8. FileInv' /\ UnsavedInv'
  BY <1>1 DEF FileInv, UnsavedInv
<1> QED
  BY <1>1, <1>4, <1>5, <1>6, <1>7, <1>8, StandStill DEF IInv

\* The checkpoint is deleted.
LEMMA ClearStep ==
  ASSUME TypeOK, IInv, Clear
  PROVE  TypeOK' /\ IInv'
<1>1. /\ stage = "upsert" /\ stage' = "complete" /\ file' = None
      /\ UNCHANGED <<run, task, status, tries, completed, number, flight, closed>>
  BY DEF Clear
<1>2. TypeOK'
  BY <1>1 DEF TypeOK
<1>3. RunInv' /\ OrphanInv' /\ StageInv' /\ FileInv' /\ UnsavedInv'
  BY <1>1 DEF IInv, RunInv, OrphanInv, StageInv, FileInv, UnsavedInv
<1> QED
  BY <1>1, <1>2, <1>3, StandStill DEF IInv

\* The client of a run that is over is closed.
LEMMA CloseStep ==
  ASSUME TypeOK, IInv, Close
  PROVE  TypeOK' /\ IInv'
<1>1. /\ stage \in {"failed", "complete", "cancelled"} /\ closed' = closed \cup {run}
      /\ UNCHANGED <<run, stage, task, status, tries, completed, number, flight, file>>
  BY DEF Close
<1>2. run \in Runs
  BY <1>1 DEF IInv, RunInv, TypeOK
<1>3. TypeOK'
  BY <1>1, <1>2 DEF TypeOK
<1>4. RunInv'
  <2>1. run <= run
    BY <1>2
  <2> QED
    BY <1>1, <2>1 DEF IInv, RunInv
<1>5. OrphanInv' /\ StageInv' /\ FileInv'
  BY <1>1 DEF IInv, OrphanInv, StageInv, FileInv
<1>6. UnsavedInv'
  BY <1>1 DEF UnsavedInv
<1> QED
  BY <1>1, <1>3, <1>4, <1>5, <1>6, StandStill DEF IInv

\* Every live coroutine of the run is cancelled, and its request with it.
LEMMA CancelStep ==
  ASSUME TypeOK, IInv, Cancel
  PROVE  TypeOK' /\ IInv'
<1>1. /\ stage = "batch" /\ stage' = "cancelled"
      /\ flight' = {q \in flight : q[1] = run => task[run][q[2]] # "working"}
      /\ UNCHANGED <<run, status, completed, closed, file>>
  BY DEF Cancel
<1>2. run \in Runs /\ run # 0 /\ run \notin closed
  BY <1>1 DEF IInv, RunInv, TypeOK
<1>3. /\ task' \in [Runs -> [Records -> Alive \cup {"none", "ended", "raised", "cancelled"}]]
      /\ \A h \in Runs, s \in Records :
            task'[h][s] = IF h = run /\ task[h][s] \in Alive THEN "cancelled" ELSE task[h][s]
  BY <1>2 DEF Cancel, TypeOK, Alive
<1>4. TypeOK'
  <2>1. 0 \in 0..Attempts /\ 0 \in 0..N
    OBVIOUS
  <2>2. /\ tries' \in [Runs -> [Records -> 0..Attempts]]
        /\ number' \in [Runs -> [Records -> 0..N]]
    BY <1>2, <2>1 DEF Cancel, TypeOK
  <2> QED
    BY <1>1, <1>3, <2>2 DEF TypeOK
<1>5. RunInv'
  <2>1. \A h \in Runs, s \in Records : h > run => task[h][s] = "none" /\ completed[h] = 0
    BY DEF IInv, RunInv
  <2>2. \A h \in Runs, s \in Records : h > run => task'[h][s] = "none" /\ completed'[h] = 0
    <3> SUFFICES ASSUME NEW h \in Runs, NEW s \in Records, h > run
                 PROVE  task'[h][s] = "none" /\ completed'[h] = 0
      OBVIOUS
    <3>1. task[h][s] = "none" /\ completed[h] = 0
      BY <2>1
    <3> QED
      BY <1>1, <1>3, <3>1 DEF Alive
  <2> QED
    BY <1>1, <1>2, <2>2 DEF IInv, RunInv
<1>6. CountInv'
  <2>1. \A h \in Runs : Finished(h) \subseteq Finished(h)'
    BY <1>3 DEF Finished
  <2> QED
    BY <1>1, <1>4, <2>1, KeepCount DEF IInv, CountInv
<1>7. SlotInv'
  <2>1. \A h \in Runs : Held(h)' \subseteq Held(h)
    BY <1>3 DEF Held
  <2> QED
    BY <2>1, KeepSlots DEF IInv, SlotInv
<1>8. RequestInv'
  <2>1. \A q \in flight : q[1] \in Runs /\ q[2] \in Records
    BY DEF TypeOK
  <2>2. OneRequestEach => \A q \in flight : task[q[1]][q[2]] = "working"
    BY DEF IInv, RequestInv
  <2>3. OneRequestEach => \A q \in flight' : task'[q[1]][q[2]] = "working"
    <3> SUFFICES ASSUME OneRequestEach, NEW q \in flight'
                 PROVE  task'[q[1]][q[2]] = "working"
      OBVIOUS
    <3>1. q \in flight /\ (q[1] = run => task[run][q[2]] # "working")
      BY DEF Cancel
    <3>2. task[q[1]][q[2]] = "working" /\ q[1] # run
      BY <2>2, <3>1
    <3> QED
      BY <1>3, <2>1, <3>1, <3>2
  <2> QED
    BY <2>3 DEF RequestInv
<1>9. OrphanInv'
  <2> SUFFICES ASSUME NEW h \in Runs, h < run, NEW s \in Records, task'[h][s] \in Alive
               PROVE  \E z \in Records : task'[h][z] = "raised"
    BY <1>1 DEF OrphanInv
  <2>1. h # run
    BY <1>2
  <2>2. task[h][s] \in Alive
    BY <1>3, <2>1
  <2>3. \E z \in Records : task[h][z] = "raised"
    BY <2>2 DEF IInv, OrphanInv
  <2> QED
    BY <1>3, <2>1, <2>3
<1>10. StageInv'
  <2>1. \A h \in Runs, s \in Records :
           task'[h][s] \in {"reporting", "ended"} => status'[h][s] # None
    <3> SUFFICES ASSUME NEW h \in Runs, NEW s \in Records,
                        task'[h][s] \in {"reporting", "ended"}
                 PROVE  status'[h][s] # None
      OBVIOUS
    <3>1. task[h][s] \in {"reporting", "ended"}
      BY <1>3
    <3>2. status[h][s] # None
      BY <3>1 DEF IInv, StageInv
    <3> QED
      BY <1>1, <3>2
  <2>2. \A s \in Records : task'[run][s] \notin Alive
    BY <1>2, <1>3 DEF Alive
  <2> QED
    BY <1>1, <2>1, <2>2 DEF StageInv
<1>11. FileInv' /\ UnsavedInv'
  BY <1>1 DEF FileInv, UnsavedInv
<1> QED
  BY <1>4, <1>5, <1>6, <1>7, <1>8, <1>9, <1>10, <1>11 DEF IInv

-----------------------------------------------------------------------------
(* Theorems                                                                *)

\* Every step preserves the invariant.
LEMMA NextInv == TypeOK /\ IInv /\ [Next]_vars => TypeOK' /\ IInv'
<1> SUFFICES ASSUME TypeOK, IInv, [Next]_vars PROVE TypeOK' /\ IInv'
  OBVIOUS
<1>1. CASE StartRun
  BY <1>1, StartStep
<1>2. CASE Cancel
  BY <1>2, CancelStep
<1>3. CASE Pipeline
  BY <1>3, EndBatchStep, ClearStep, CloseStep DEF Pipeline
<1>4. ASSUME NEW g \in Runs, NEW r \in Records, Coroutine(g, r)
      PROVE  TypeOK' /\ IInv'
  <2>1. CASE Acquire(g, r)
    BY <2>1, AcquireStep
  <2>2. CASE Report(g, r)
    BY <2>2, ReportStep
  <2>3. CASE Raise(g, r)
    BY <2>3, RaiseStep
  <2>4. ASSUME NEW k \in 1..Chunks[r], Answer(g, r, k) \/ Fail(g, r, k)
        PROVE  TypeOK' /\ IInv'
    BY <2>4, AnswerStep, FailStep
  <2> QED
    BY <1>4, <2>1, <2>2, <2>3, <2>4 DEF Coroutine
<1>5. CASE UNCHANGED vars
  <2>1. Unheeded \/ UNCHANGED <<task, status, completed, number>>
    BY <1>5 DEF vars
  <2>2. UNCHANGED <<run, stage, closed, file>> /\ flight' \subseteq flight
        /\ tries' \in [Runs -> [Records -> 0..Attempts]]
    BY <1>5 DEF vars, TypeOK
  <2> QED
    BY <2>1, <2>2, UnheededStep
<1> QED
  BY <1>1, <1>2, <1>3, <1>4, <1>5 DEF Next

\* What is under way in a batch, counted, and what may be in the checkpoint.
THEOREM Invariance == Spec => [](TypeOK /\ IInv)
  BY InitInv, NextInv, PTL DEF Spec

\* The variables of every run have their types: the counter of a batch never
\* passes the number of its records (descriptions/service.py:109-115).
THEOREM TypeCorrect == Spec => []TypeOK
  BY Invariance, PTL

\* `concurrency` bounds the requests at the server, if a record is one request:
\* the earlier runs are closed and the others hold a slot each
\* (descriptions/service.py:107, embeddings/service.py:48).
THEOREM RequestsAreBounded ==
  ASSUME OneRequestEach
  PROVE  Spec => []RequestsBounded
<1>1. ASSUME TypeOK, IInv PROVE RequestsBounded
  <2> DEFINE Open == {q \in flight : q[1] \notin closed}
  <2>1. CASE Open = {}
    <3>1. Cardinality(Open) = 0
      BY <2>1, None0, Zenon
    <3> QED
      BY <3>1 DEF RequestsBounded
  <2>2. CASE Open # {}
    <3>1. \A q \in Open : q[1] = run /\ run \in Runs /\ q[2] \in Held(run)
      <4> SUFFICES ASSUME NEW q \in Open
                   PROVE  q[1] = run /\ run \in Runs /\ q[2] \in Held(run)
        OBVIOUS
      <4>1. /\ q \in flight /\ q[1] \notin closed
            /\ q[1] \in Runs /\ q[2] \in Records /\ run \in 0..MaxRuns
        BY <1>1 DEF TypeOK
      <4>2. q[1] <= run /\ ~(q[1] < run)
        BY <1>1, <4>1 DEF IInv, RunInv
      <4>3. q[1] = run
        BY <4>1, <4>2
      <4>4. task[q[1]][q[2]] = "working"
        BY <1>1, <4>1 DEF IInv, RequestInv
      <4> QED
        BY <4>1, <4>3, <4>4 DEF Held
    <3>2. \A q, z \in Open : q[2] = z[2] => q = z
      <4> SUFFICES ASSUME NEW q \in Open, NEW z \in Open, q[2] = z[2] PROVE q = z
        OBVIOUS
      <4>1. q \in flight /\ z \in flight /\ z[1] = q[1]
        BY <3>1
      <4>2. q[1] \in Runs /\ q[2] \in Records
        BY <1>1, <4>1 DEF TypeOK
      <4>3. 1 \in 1..Chunks[q[2]]
        BY <4>2 DEF OneRequestEach
      <4>4. q = <<q[1], q[2], 1>> /\ z = <<q[1], q[2], 1>>
        BY <1>1, <4>1, <4>2, <4>3, OneInFlight
      <4> QED
        BY <4>4
    <3> DEFINE slot == [q \in Open |-> q[2]]
    <3>3. slot \in Injection(Open, Held(run))
      BY <3>1, <3>2 DEF Injection, IsInjective
    <3>4. IsFiniteSet(Held(run)) /\ Cardinality(Held(run)) \in Nat
      <4>1. IsFiniteSet(Records) /\ Held(run) \in SUBSET Records
        BY FS_Interval DEF Held
      <4> QED
        BY <4>1, FS_Subset, FS_CardinalityType
    <3>5. Cardinality(Open) <= Cardinality(Held(run)) /\ IsFiniteSet(Open)
      BY <3>3, <3>4, FS_Injection
    <3>6. Cardinality(Open) \in Nat
      BY <3>5, FS_CardinalityType
    <3>7. Cardinality(Held(run)) <= Concurrency
      BY <1>1, <2>2, <3>1 DEF IInv, SlotInv
    <3> QED
      BY <3>4, <3>5, <3>6, <3>7 DEF RequestsBounded
  <2> QED
    BY <2>1, <2>2
<1> QED
  BY <1>1, Invariance, PTL

\* A crash of the first run costs at most as many intervals of finished
\* records as there are slots (checkpoint.py and pipeline.py: _save_progress).
THEOREM LossIsBounded == Spec => []UnsavedBounded
<1>1. ASSUME TypeOK, IInv PROVE UnsavedBounded
  <2> SUFFICES ASSUME Saves, run = 1, stage = "batch"
               PROVE  Cardinality(OkOf(1) \ Saved) <= Concurrency * Interval
    BY DEF UnsavedBounded
  <2>1. 1 \in Runs
    BY <1>1 DEF TypeOK
  <2>2. PICK last \in 0..completed[1], saves \in 0..completed[1], due \in 0..completed[1],
             rest \in 0..(Interval - 1) :
          /\ Cardinality(OkOf(1) \ Saved) <= completed[1] - last
          /\ saves * Interval <= last
          /\ completed[1] = (saves + due) * Interval + rest
          /\ due <= Cardinality(Due(last))
          /\ due = Concurrency => rest = 0
    BY <1>1 DEF IInv, UnsavedInv
  <2>3. Cardinality(OkOf(1) \ Saved) \in Nat /\ completed[1] \in Nat
    <3>1. OkOf(1) \ Saved \in SUBSET Records
      BY DEF OkOf
    <3> QED
      BY <1>1, <2>1, <3>1, Sizes DEF TypeOK
  <2>4. Cardinality(Due(last)) \in 0..Concurrency
    BY <1>1, <2>1, DueAreHeld DEF IInv
  <2>5. due <= Concurrency
    BY <2>2, <2>4
  <2> DEFINE made == saves * Interval
             open == due * Interval
             most == Concurrency * Interval
  <2>6. /\ made \in Nat /\ open \in Nat /\ most \in Nat
        /\ (saves + due) * Interval = made + open
    BY Multiples
  <2>7. open + rest <= most
    <3>1. CASE due = Concurrency
      BY <2>2, <2>6, <3>1
    <3>2. CASE due # Concurrency
      <4>1. due + 1 <= Concurrency
        BY <2>5, <3>2
      <4>2. (due + 1) * Interval <= most
        BY <4>1, Multiples
      <4>3. (due + 1) * Interval = open + 1 * Interval /\ 1 * Interval = Interval
        BY Multiples
      <4> HIDE DEF open, most
      <4> QED
        BY <2>6, <4>2, <4>3, SMTT(30)
    <3> QED
      BY <3>1, <3>2
  <2>8. completed[1] = made + open + rest /\ made <= last
    BY <2>2, <2>6
  <2>9. Cardinality(OkOf(1) \ Saved) <= completed[1] - last
    BY <2>2
  <2> HIDE DEF made, open, most
  <2>10. Cardinality(OkOf(1) \ Saved) <= most
    BY <2>3, <2>6, <2>7, <2>8, <2>9, SMTT(30)
  <2> QED
    BY <2>10 DEF most
<1> QED
  BY <1>1, Invariance, PTL

\* When gather() has returned nothing of the batch goes on, and the checkpoint
\* that was deleted is back only if a coroutine that outlived its failed run
\* saved it (descriptions/service.py:117, pipeline.py: checkpoint.clear).
THEOREM NothingGoesOn ==
  ASSUME OneRequestEach
  PROVE  Spec => []QuietWhenDone
<1>1. ASSUME TypeOK, IInv PROVE QuietWhenDone
  <2>1. ASSUME stage \in {"upsert", "complete"}
        PROVE  /\ \A r \in Records : status[run][r] # None /\ task[run][r] \in {"none", "ended"}
               /\ \A q \in flight : q[1] # run
    <3>1. run \in Runs
      BY <1>1, <2>1 DEF IInv, RunInv, TypeOK
    <3>2. \A r \in Records : task[run][r] \in {"none", "ended"}
      BY <1>1, <2>1 DEF IInv, StageInv
    <3>3. \A r \in Records : status[run][r] # None
      BY <1>1, <2>1, <3>1, <3>2 DEF IInv, StageInv
    <3>4. \A q \in flight : q[2] \in Records /\ task[q[1]][q[2]] = "working"
      BY <1>1 DEF TypeOK, IInv, RequestInv
    <3> QED
      BY <3>2, <3>3, <3>4
  <2>2. stage = "complete" /\ file # None =>
          \E g \in 1..(run - 1), r \in Records : task[g][r] = "raised"
    BY <1>1 DEF IInv, FileInv
  <2> QED
    BY <2>1, <2>2 DEF QuietWhenDone
<1> QED
  BY <1>1, Invariance, PTL
=============================================================================
