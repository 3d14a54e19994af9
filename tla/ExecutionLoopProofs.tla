------------------------ MODULE ExecutionLoopProofs ------------------------
(***************************************************************************)
(* What ExecutionLoop.tla promises, proved for every set of tasks, every   *)
(* number of consumers and every set of concurrent calls of stop().        *)
(***************************************************************************)
EXTENDS ExecutionLoop, SequenceTheorems, TLAPS

-----------------------------------------------------------------------------
(* What Append, Tail and RemoveAt do to a sequence, position by position:  *)
(* to the task queue and to the line of waiters at the mutation lock.      *)

\* What Append does to a sequence: nothing but one new last position.
LEMMA AppendFacts ==
    ASSUME NEW S, NEW s \in Seq(S), NEW x \in S
    PROVE  /\ Append(s, x) \in Seq(S)
           /\ DOMAIN Append(s, x) = 1..(Len(s) + 1)
           /\ DOMAIN s = 1..Len(s)
           /\ Len(s) \in Nat
           /\ \A i \in DOMAIN s : Append(s, x)[i] = s[i]
           /\ Append(s, x)[Len(s) + 1] = x
  OBVIOUS

\* What Tail does to a sequence: every element moves one position down.
LEMMA TailFacts ==
    ASSUME NEW S, NEW s \in Seq(S), s # <<>>
    PROVE  /\ Tail(s) \in Seq(S)
           /\ Head(s) = s[1]
           /\ Head(s) \in S
           /\ 1 \in DOMAIN s
           /\ \A i \in DOMAIN s : i \in Nat /\ i >= 1 /\ s[i] \in S
           /\ \A i \in DOMAIN Tail(s) : /\ i \in Nat /\ i >= 1
                                        /\ i + 1 \in DOMAIN s /\ Tail(s)[i] = s[i + 1]
           /\ \A i \in DOMAIN s : i # 1 => i - 1 \in DOMAIN Tail(s)
                                           /\ Tail(s)[i - 1] = s[i]
  OBVIOUS

\* What RemoveAt does: the elements above position k move one position down.
LEMMA RemoveAtFacts ==
    ASSUME NEW S, NEW s \in Seq(S), NEW k \in DOMAIN s
    PROVE  /\ RemoveAt(s, k) \in Seq(S)
           /\ \A i \in DOMAIN s : i \in Nat /\ s[i] \in S
           /\ \A i \in DOMAIN RemoveAt(s, k) :
                 /\ i \in Nat
                 /\ i < k => i \in DOMAIN s /\ RemoveAt(s, k)[i] = s[i]
                 /\ i >= k => i + 1 \in DOMAIN s /\ RemoveAt(s, k)[i] = s[i + 1]
           /\ \A i \in DOMAIN s :
                 /\ i < k => i \in DOMAIN RemoveAt(s, k)
                             /\ RemoveAt(s, k)[i] = s[i]
                 /\ i > k => i - 1 \in DOMAIN RemoveAt(s, k)
                             /\ RemoveAt(s, k)[i - 1] = s[i]
  <1> DEFINE f == SubSeq(s, 1, k - 1)
             g == SubSeq(s, k + 1, Len(s))
  <1>1. /\ Len(s) \in Nat /\ DOMAIN s = 1..Len(s) /\ k \in 1..Len(s)
    OBVIOUS
  <1>2. /\ f \in Seq(S) /\ Len(f) = k - 1
        /\ \A i \in 1..(k - 1) : f[i] = s[i]
    BY <1>1
  <1>3. /\ g \in Seq(S) /\ Len(g) = Len(s) - k
        /\ \A i \in 1..(Len(s) - k) : g[i] = s[k + i]
    BY <1>1
  <1> HIDE DEF f, g
  <1>4. /\ f \o g \in Seq(S)
        /\ Len(f \o g) = Len(f) + Len(g)
        /\ \A i \in 1..(Len(f) + Len(g)) :
              (f \o g)[i] = IF i <= Len(f) THEN f[i] ELSE g[i - Len(f)]
    BY <1>2, <1>3, ConcatProperties, Zenon
  <1>4a. /\ Len(f) + Len(g) = Len(s) - 1
         /\ DOMAIN (f \o g) = 1..(Len(s) - 1)
    <2>1. Len(f) + Len(g) = Len(s) - 1
      BY <1>1, <1>2, <1>3
    <2>2. DOMAIN (f \o g) = 1..Len(f \o g)
      BY <1>4
    <2> QED BY <2>1, <2>2, <1>4
  <1>5. \A i \in 1..(Len(s) - 1) :
              (f \o g)[i] = IF i < k THEN s[i] ELSE s[i + 1]
    <2> TAKE i \in 1..(Len(s) - 1)
    <2>1. (f \o g)[i] = IF i <= Len(f) THEN f[i] ELSE g[i - Len(f)]
      BY <1>4, <1>4a
    <2>2. CASE i < k
      <3>1. i <= Len(f) /\ i \in 1..(k - 1)
        BY <2>2, <1>1, <1>2
      <3> QED BY <3>1, <2>1, <2>2, <1>2
    <2>3. CASE i >= k
      <3>1. ~(i <= Len(f)) /\ i - Len(f) \in 1..(Len(s) - k) /\ k + (i - Len(f)) = i + 1
        BY <2>3, <1>1, <1>2
      <3>2. g[i - Len(f)] = s[k + (i - Len(f))]
        BY <3>1, <1>3
      <3>3. (f \o g)[i] = s[i + 1]
        BY <3>1, <3>2, <2>1
      <3>4. ~(i < k)
        BY <2>3, <1>1
      <3> QED BY <3>3, <3>4
    <2>4. i < k \/ i >= k
      BY <1>1
    <2> QED BY <2>2, <2>3, <2>4
  <1> DEFINE r == RemoveAt(s, k)
  <1>6. /\ r \in Seq(S)
        /\ DOMAIN r = 1..(Len(s) - 1)
        /\ \A i \in 1..(Len(s) - 1) : r[i] = IF i < k THEN s[i] ELSE s[i + 1]
    BY <1>4, <1>4a, <1>5 DEF RemoveAt, f, g
  <1> HIDE DEF r
  <1>7. \A i \in DOMAIN s : i \in Nat /\ s[i] \in S
    BY <1>1
  <1>8. \A i \in DOMAIN r :
           /\ i \in Nat
           /\ i < k => i \in DOMAIN s /\ r[i] = s[i]
           /\ i >= k => i + 1 \in DOMAIN s /\ r[i] = s[i + 1]
    BY <1>1, <1>6
  <1>9. \A i \in DOMAIN s :
           /\ i < k => i \in DOMAIN r /\ r[i] = s[i]
           /\ i > k => i - 1 \in DOMAIN r /\ r[i - 1] = s[i]
    <2> TAKE i \in DOMAIN s
    <2>1. ASSUME i < k PROVE i \in DOMAIN r /\ r[i] = s[i]
      BY <2>1, <1>1, <1>6
    <2>2. ASSUME i > k PROVE i - 1 \in DOMAIN r /\ r[i - 1] = s[i]
      <3>1. i - 1 \in 1..(Len(s) - 1) /\ ~(i - 1 < k) /\ (i - 1) + 1 = i
        BY <2>2, <1>1
      <3> QED BY <3>1, <1>6
    <2> QED BY <2>1, <2>2
  <1> QED BY <1>6, <1>7, <1>8, <1>9 DEF r

-----------------------------------------------------------------------------
USE ConstantsAssumption

-----------------------------------------------------------------------------
(* Type correctness                                                        *)

\* The values of the variables are as declared when the loop is constructed.
LEMMA InitTypeOK == Init => TypeOK
  <1> SUFFICES ASSUME Init PROVE TypeOK
    OBVIOUS
  <1>1. queue \in Seq(Tasks) /\ lockWaiters \in Seq(Consumers)
    BY DEF Init
  <1>2. created \in 0..MaxConsumers /\ issued \in Nat
    BY DEF Init
  <1> QED BY <1>1, <1>2 DEF Init, TypeOK, None

\* A new consumer gets the next free number.
LEMMA LaunchTypeOK ==
    ASSUME TypeOK, LaunchConsumer
    PROVE  /\ created + 1 \in Consumers
           /\ started' \in BOOLEAN
           /\ consumerTask' \in {None} \cup Consumers
           /\ created' \in 0..MaxConsumers
           /\ pc' \in [Consumers -> {"none", "get", "lock", "execute", "cancelled", "failed"}]
           /\ UNCHANGED <<cancelled, holds, lockOwner, lockWaiters>>
  BY DEF TypeOK, LaunchConsumer, Consumers

\* The note of an overlap is a truth value.
LEMMA OverlapType == LaunchConsumer => overlapped' \in BOOLEAN
  BY DEF LaunchConsumer

\* Submitting a task keeps the queue a sequence of tasks.
LEMMA PutTypeOK ==
    ASSUME TypeOK, NEW t \in Tasks, Put(t)
    PROVE  /\ queue' \in Seq(Tasks)
           /\ ended' = ended
           /\ ticket' \in [Tasks -> Nat]
           /\ issued' \in Nat
  <1>1. queue' \in Seq(Tasks)
    BY AppendFacts DEF TypeOK, Put
  <1> QED BY <1>1 DEF TypeOK, Put

\* Leaving execute() keeps every type; the consumer goes on or has ended.
LEMMA LeaveTypeOK ==
    ASSUME TypeOK, NEW c \in Consumers,
           NEW how \in {"finished", "raised", "cancelled"},
           NEW next \in {"get", "failed", "cancelled"},
           Leave(c, how, next)
    PROVE  TypeOK'
  BY DEF TypeOK, Leave, loopVars, stopVars

\* The last part of stop() changes two variables of that call.
LEMMA GatherTypeOK ==
    ASSUME TypeOK, NEW s \in Stops, GatherOrReturn(s)
    PROVE  /\ gathers' \in [Stops -> SUBSET Passive]
           /\ stopPc' \in [Stops -> {"idle", "join", "gather", "returned", "raised"}]
  BY DEF TypeOK, GatherOrReturn

\* Every step of every coroutine and of every caller preserves the types.
LEMMA NextTypeOK == TypeOK /\ [Next]_vars => TypeOK'
  <1> SUFFICES ASSUME TypeOK, [Next]_vars PROVE TypeOK'
    OBVIOUS
  <1> USE DEF loopVars, consVars, stopVars, histVars
  <1>1. CASE Start
    BY <1>1, LaunchTypeOK, OverlapType DEF TypeOK, Start
  <1>2. ASSUME NEW t \in Tasks, Enqueue(t) PROVE TypeOK'
    BY <1>2, PutTypeOK DEF TypeOK, Enqueue
  <1>3. ASSUME NEW t \in Tasks, SubmitTask(t) PROVE TypeOK'
    <2>1. /\ queue' \in Seq(Tasks) /\ ended' = ended
          /\ ticket' \in [Tasks -> Nat] /\ issued' \in Nat
      BY <1>3, PutTypeOK DEF SubmitTask
    <2>2. CASE started
      BY <1>3, <2>1, <2>2 DEF TypeOK, SubmitTask
    <2>3. CASE ~started
      BY <1>3, <2>1, <2>3, LaunchTypeOK, OverlapType DEF TypeOK, SubmitTask
    <2> QED BY <2>2, <2>3
  <1>4. ASSUME NEW t \in Tasks, FinishPassive(t) PROVE TypeOK'
    BY <1>4 DEF TypeOK, FinishPassive
  <1>5. ASSUME NEW c \in Consumers, DispatchPassive(c) PROVE TypeOK'
    <2>1. queue' \in Seq(Tasks)
      BY <1>5, TailFacts DEF TypeOK, DispatchPassive
    <2>2. background' \subseteq Passive
      BY <1>5 DEF TypeOK, DispatchPassive
    <2> QED BY <1>5, <2>1, <2>2 DEF TypeOK, DispatchPassive
  <1>6. ASSUME NEW c \in Consumers, TakeActive(c) PROVE TypeOK'
    <2>1. queue' \in Seq(Tasks)
      BY <1>6, TailFacts DEF TypeOK, TakeActive
    <2>2. /\ lockWaiters' \in Seq(Consumers)
          /\ lockOwner' \in {None} \cup Consumers
      <3>1. Append(lockWaiters, c) \in Seq(Consumers)
        BY AppendFacts DEF TypeOK
      <3>2. \/ lockWaiters' = lockWaiters /\ lockOwner' = c
            \/ lockWaiters' = Append(lockWaiters, c) /\ lockOwner' = lockOwner
        BY <1>6 DEF TakeActive
      <3> QED BY <3>1, <3>2 DEF TypeOK
    <2>3. /\ holds' \in [Consumers -> Active \cup {NoTask}]
          /\ pc' \in [Consumers -> {"none", "get", "lock", "execute", "cancelled", "failed"}]
      BY <1>6 DEF TypeOK, TakeActive
    <2> QED BY <1>6, <2>1, <2>2, <2>3 DEF TypeOK, TakeActive
  <1>7. ASSUME NEW c \in Consumers, AcquireLock(c) PROVE TypeOK'
    <2>1. lockWaiters' \in Seq(Consumers)
      BY <1>7, TailFacts DEF TypeOK, AcquireLock
    <2> QED BY <1>7, <2>1 DEF TypeOK, AcquireLock
  <1>8. ASSUME NEW c \in Consumers, FinishActive(c) \/ ActiveRaises(c) \/ UnwindActive(c)
        PROVE TypeOK'
    BY <1>8, LeaveTypeOK DEF FinishActive, ActiveRaises, UnwindActive
  <1>9. ASSUME NEW c \in Consumers, CancelInGet(c) PROVE TypeOK'
    BY <1>9 DEF TypeOK, CancelInGet
  <1>10. ASSUME NEW c \in Consumers, CancelInLock(c) PROVE TypeOK'
    <2>1. lockWaiters' \in Seq(Consumers)
      BY <1>10, RemoveAtFacts DEF TypeOK, CancelInLock
    <2> QED BY <1>10, <2>1 DEF TypeOK, CancelInLock
  <1>11. ASSUME NEW s \in Stops, StopNotStarted(s) PROVE TypeOK'
    BY <1>11 DEF TypeOK, StopNotStarted
  <1>12. ASSUME NEW s \in Stops, StopCancels(s) PROVE TypeOK'
    <2>1. CASE consumerTask # None /\ joins' = [joins EXCEPT ![s] = consumerTask]
      BY <1>12, <2>1, GatherTypeOK DEF TypeOK, StopCancels
    <2>2. CASE GatherOrReturn(s) /\ UNCHANGED <<cancelled, joins>>
      BY <1>12, <2>2, GatherTypeOK DEF TypeOK, StopCancels
    <2> QED BY <1>12, <2>1, <2>2 DEF StopCancels
  <1>13. ASSUME NEW s \in Stops, StopJoins(s) PROVE TypeOK'
    BY <1>13, GatherTypeOK DEF TypeOK, StopJoins
  <1>14. ASSUME NEW s \in Stops, StopRaises(s) PROVE TypeOK'
    BY <1>14 DEF TypeOK, StopRaises
  <1>15. ASSUME NEW s \in Stops, StopGathers(s) PROVE TypeOK'
    BY <1>15 DEF TypeOK, StopGathers
  <1>16. CASE UNCHANGED vars
    BY <1>16 DEF TypeOK, vars
  <1> QED
    BY <1>1, <1>2, <1>3, <1>4, <1>5, <1>6, <1>7, <1>8, <1>9, <1>10, <1>11, <1>12,
       <1>13, <1>14, <1>15, <1>16 DEF Next, Consume, Stop, StopProceeds

\* The state of the scheduler keeps its types: a consumer holds active tasks
\* only, and only queries are ever in the background (loop.py:70-74).
THEOREM TypeCorrect == Spec => []TypeOK
  BY InitTypeOK, NextTypeOK, PTL DEF Spec

-----------------------------------------------------------------------------
(* The inductive invariant                                                 *)

\* A loop that was just created satisfies the invariant.
LEMMA InitIInv == Init => IInv
  BY DEF Init, IInv, FreshInv, LockInv, HoldInv, QueueInv, PlaceInv, Holding,
         Queued, Consumers

\* No consumer enters or leaves its critical section or the line before it.
SamePlaces ==
    \A c \in Consumers : /\ pc[c] = "lock" <=> pc'[c] = "lock"
                         /\ pc[c] = "execute" <=> pc'[c] = "execute"

\* A consumer that is created, or that ends in queue.get(), holds nothing.
LEMMA QuietStep ==
    ASSUME TypeOK, IInv, SamePlaces,
           UNCHANGED <<queue, holds, lockOwner, lockWaiters, background, ended,
                       ticket, issued>>
    PROVE  LockInv' /\ HoldInv' /\ QueueInv' /\ PlaceInv'
  <1>1. \A c \in Consumers : Holding(c) <=> Holding(c)'
    BY DEF SamePlaces, Holding
  <1>2. LockInv'
    BY DEF IInv, LockInv, SamePlaces
  <1>3. HoldInv'
    BY <1>1 DEF IInv, HoldInv
  <1>4. QueueInv'
    BY DEF IInv, QueueInv
  <1>5. PlaceInv'
    BY <1>1 DEF IInv, PlaceInv, Queued
  <1> QED BY <1>2, <1>3, <1>4, <1>5

\* start() creates a consumer that was never there.
LEMMA LaunchIsQuiet ==
    ASSUME TypeOK, FreshInv, LaunchConsumer
    PROVE  FreshInv' /\ SamePlaces
  <1>1. created \in Nat /\ created + 1 \in Consumers /\ pc[created + 1] = "none"
    BY LaunchTypeOK DEF TypeOK, FreshInv, Consumers
  <1>2. \A c \in Consumers : pc'[c] = IF c = created + 1 THEN "get" ELSE pc[c]
    BY DEF TypeOK, LaunchConsumer
  <1>3. FreshInv'
    BY <1>1, <1>2 DEF FreshInv, LaunchConsumer, Consumers
  <1> QED BY <1>1, <1>2, <1>3 DEF SamePlaces

\* A submitted task is younger than every task submitted before, wherever that
\* one is now.
LEMMA PutStep ==
    ASSUME TypeOK, IInv, SamePlaces, NEW t \in Tasks, Put(t),
           UNCHANGED <<holds, lockOwner, lockWaiters, background>>
    PROVE  LockInv' /\ HoldInv' /\ QueueInv' /\ PlaceInv'
  <1>1. \A c \in Consumers : Holding(c) <=> Holding(c)'
    BY DEF SamePlaces, Holding
  <1>2. /\ queue' = Append(queue, t)
        /\ Len(queue) \in Nat
        /\ DOMAIN queue = 1..Len(queue)
        /\ DOMAIN queue' = 1..(Len(queue) + 1)
        /\ \A i \in DOMAIN queue : queue'[i] = queue[i] /\ queue[i] \in Tasks
        /\ queue'[Len(queue) + 1] = t
    BY AppendFacts DEF Put, TypeOK
  <1>3. /\ ended' = ended /\ issued' = issued + 1 /\ issued \in Nat
        /\ ticket[t] = 0
        /\ \A u \in Tasks : /\ ticket'[u] = IF u = t THEN issued + 1 ELSE ticket[u]
                            /\ ticket[u] \in Nat
                            /\ ticket[u] <= issued
    BY DEF Put, TypeOK, IInv, QueueInv
  <1>4. \A c \in Consumers : Holding(c) => holds[c] \in Tasks /\ holds[c] # t
    BY <1>3 DEF IInv, HoldInv, Active
  <1>5. LockInv'
    <2>1. \A i \in DOMAIN lockWaiters :
             lockWaiters[i] \in Consumers /\ Holding(lockWaiters[i])
      BY DEF TypeOK, IInv, LockInv, Holding
    <2>2. \A i \in DOMAIN lockWaiters :
             ticket'[holds[lockWaiters[i]]] = ticket[holds[lockWaiters[i]]]
      BY <2>1, <1>3, <1>4
    <2> QED BY <2>2 DEF IInv, LockInv, SamePlaces
  <1>6. HoldInv'
    <2>1. ASSUME NEW c \in Consumers, Holding(c), NEW i \in DOMAIN queue'
          PROVE  ticket'[holds[c]] < ticket'[queue'[i]]
      <3>1. ticket'[holds[c]] = ticket[holds[c]] /\ ticket[holds[c]] <= issued
            /\ ticket[holds[c]] \in Nat
        BY <2>1, <1>3, <1>4
      <3>2. CASE i = Len(queue) + 1
        BY <3>1, <3>2, <1>2, <1>3
      <3>3. CASE i # Len(queue) + 1
        <4>1. i \in DOMAIN queue /\ queue'[i] = queue[i] /\ queue[i] \in Tasks
          BY <1>2, <3>3
        <4>2. queue[i] # t
          BY <4>1, <1>3 DEF IInv, QueueInv
        <4>3. ticket[holds[c]] < ticket[queue[i]]
          BY <2>1, <4>1 DEF IInv, HoldInv
        <4> QED BY <3>1, <4>1, <4>2, <4>3, <1>3
      <3> QED BY <3>2, <3>3
    <2>2. \A c \in Consumers :
             Holding(c) => holds[c] \in Active /\ ticket'[holds[c]] # 0 /\ ended[holds[c]] = "no"
      BY <1>3, <1>4 DEF IInv, HoldInv
    <2> QED BY <1>1, <1>3, <2>1, <2>2 DEF IInv, HoldInv
  <1>7. QueueInv'
    <2>1. \A u \in Tasks : ticket'[u] <= issued' /\ (ticket'[u] = 0 => ended'[u] = "no")
      BY <1>3 DEF IInv, QueueInv
    <2>2. \A i \in DOMAIN queue : /\ queue[i] \in Tasks /\ queue[i] # t
                                  /\ ticket'[queue[i]] = ticket[queue[i]]
      BY <1>2, <1>3 DEF IInv, QueueInv
    <2>3. \A i \in DOMAIN queue' : ticket'[queue'[i]] # 0 /\ ended'[queue'[i]] = "no"
      <3> TAKE i \in DOMAIN queue'
      <3>1. CASE i = Len(queue) + 1
        BY <3>1, <1>2, <1>3 DEF IInv, QueueInv
      <3>2. CASE i # Len(queue) + 1
        BY <3>2, <2>2, <1>2, <1>3 DEF IInv, QueueInv
      <3> QED BY <3>1, <3>2
    <2>4. ASSUME NEW i \in DOMAIN queue', NEW j \in DOMAIN queue', i < j
          PROVE  ticket'[queue'[i]] < ticket'[queue'[j]]
      <3>1. i \in DOMAIN queue /\ queue'[i] = queue[i]
        BY <2>4, <1>2
      <3>2. CASE j = Len(queue) + 1
        BY <3>1, <3>2, <2>2, <1>2, <1>3
      <3>3. CASE j # Len(queue) + 1
        <4>1. j \in DOMAIN queue /\ queue'[j] = queue[j]
          BY <3>3, <1>2
        <4>2. ticket[queue[i]] < ticket[queue[j]]
          BY <4>1, <3>1, <2>4 DEF IInv, QueueInv
        <4> QED BY <3>1, <4>1, <4>2, <2>2
      <3> QED BY <3>2, <3>3
    <2>5. \A u \in background :
             /\ u \in Tasks /\ u # t
             /\ ticket'[u] = ticket[u] /\ ticket[u] # 0 /\ ended'[u] = "no"
      BY <1>3 DEF IInv, QueueInv, TypeOK
    <2>6. ASSUME NEW u \in background, NEW i \in DOMAIN queue'
          PROVE  ticket'[u] < ticket'[queue'[i]]
      <3>1. CASE i = Len(queue) + 1
        BY <3>1, <2>5, <1>2, <1>3
      <3>2. CASE i # Len(queue) + 1
        <4>1. i \in DOMAIN queue /\ queue'[i] = queue[i]
          BY <3>2, <1>2
        <4>2. ticket[u] < ticket[queue[i]]
          BY <4>1, <2>6 DEF IInv, QueueInv
        <4> QED BY <4>1, <4>2, <2>2, <2>5
      <3> QED BY <3>1, <3>2
    <2> QED BY <2>1, <2>3, <2>4, <2>5, <2>6 DEF QueueInv
  <1>8. PlaceInv'
    <2> SUFFICES ASSUME NEW u \in Tasks, ticket'[u] # 0, ended'[u] = "no"
                 PROVE  \/ Queued(u)' \/ u \in background
                        \/ \E c \in Consumers : Holding(c)' /\ holds[c] = u
      BY DEF PlaceInv
    <2>1. CASE u = t
      BY <2>1, <1>2 DEF Queued
    <2>2. CASE u # t
      <3>1. \/ Queued(u) \/ u \in background
            \/ \E c \in Consumers : Holding(c) /\ holds[c] = u
        BY <2>2, <1>3 DEF IInv, PlaceInv
      <3>2. Queued(u) => Queued(u)'
        BY <1>2 DEF Queued
      <3> QED BY <3>1, <3>2, <1>1
    <2> QED BY <2>1, <2>2
  <1> QED BY <1>5, <1>6, <1>7, <1>8

\* What dequeuing does to the queue: the oldest task leaves, the order stays.
LEMMA DequeueFacts ==
    ASSUME TypeOK, IInv, queue # <<>>, queue' = Tail(queue)
    PROVE  /\ Head(queue) \in Tasks /\ Queued(Head(queue))
           /\ \A i \in DOMAIN queue' : /\ i \in Nat /\ i + 1 \in DOMAIN queue
                                       /\ queue'[i] = queue[i + 1]
                                       /\ ticket[Head(queue)] < ticket[queue'[i]]
           /\ \A u \in Tasks : Queued(u) => u = Head(queue) \/ Queued(u)'
           /\ \A i, j \in DOMAIN queue' :
                 i < j => ticket[queue'[i]] < ticket[queue'[j]]
  <1>1. /\ Head(queue) = queue[1] /\ Head(queue) \in Tasks /\ 1 \in DOMAIN queue
        /\ \A i \in DOMAIN queue : i \in Nat /\ i >= 1
        /\ \A i \in DOMAIN queue' : i + 1 \in DOMAIN queue /\ queue'[i] = queue[i + 1]
        /\ \A i \in DOMAIN queue : i # 1 => i - 1 \in DOMAIN queue'
                                            /\ queue'[i - 1] = queue[i]
    BY TailFacts DEF TypeOK
  <1>2. DOMAIN queue' \subseteq Nat
    BY TailFacts DEF TypeOK
  <1>3. \A i \in DOMAIN queue' : 1 < i + 1 /\ ticket[queue[1]] < ticket[queue[i + 1]]
    BY <1>1, <1>2 DEF IInv, QueueInv
  <1>4. \A u \in Tasks : Queued(u) => u = Head(queue) \/ Queued(u)'
    BY <1>1 DEF Queued
  <1>5. \A i, j \in DOMAIN queue' : i < j => i + 1 < j + 1
    BY <1>2
  <1>6. \A i, j \in DOMAIN queue' : i < j => ticket[queue'[i]] < ticket[queue'[j]]
    BY <1>1, <1>5 DEF IInv, QueueInv
  <1> QED BY <1>1, <1>2, <1>3, <1>4, <1>6 DEF Queued

\* A query leaves the queue and runs in the background.
LEMMA DispatchPassiveStep ==
    ASSUME TypeOK, IInv, NEW c \in Consumers, DispatchPassive(c)
    PROVE  IInv'
  <1> USE DEF loopVars, consVars, stopVars, histVars
  <1>1. /\ queue # <<>> /\ queue' = Tail(queue)
        /\ background' = background \cup {Head(queue)}
        /\ UNCHANGED <<created, pc, holds, lockOwner, lockWaiters, ended, ticket, issued>>
    BY DEF DispatchPassive
  <1>2. /\ \A i \in DOMAIN queue' : /\ i + 1 \in DOMAIN queue
                                    /\ queue'[i] = queue[i + 1]
                                    /\ ticket[Head(queue)] < ticket[queue'[i]]
        /\ \A u \in Tasks : Queued(u) => u = Head(queue) \/ Queued(u)'
        /\ \A i, j \in DOMAIN queue' : i < j => ticket[queue'[i]] < ticket[queue'[j]]
        /\ ticket[Head(queue)] # 0 /\ ended[Head(queue)] = "no"
    BY <1>1, DequeueFacts DEF IInv, QueueInv, Queued
  <1>3. \A d \in Consumers : Holding(d) <=> Holding(d)'
    BY <1>1 DEF Holding
  <1>4. FreshInv'
    BY <1>1 DEF IInv, FreshInv
  <1>5. LockInv'
    BY <1>1 DEF IInv, LockInv
  <1>6. HoldInv'
    BY <1>1, <1>2, <1>3 DEF IInv, HoldInv
  <1>7. QueueInv'
    <2>1. \A t \in Tasks : ticket'[t] <= issued' /\ (ticket'[t] = 0 => ended'[t] = "no")
      BY <1>1 DEF IInv, QueueInv
    <2>2. \A i \in DOMAIN queue' : ticket'[queue'[i]] # 0 /\ ended'[queue'[i]] = "no"
      BY <1>1, <1>2 DEF IInv, QueueInv
    <2>3. \A u \in background' :
             /\ ticket'[u] # 0 /\ ended'[u] = "no"
             /\ \A i \in DOMAIN queue' : ticket'[u] < ticket'[queue'[i]]
      BY <1>1, <1>2 DEF IInv, QueueInv
    <2> QED BY <1>1, <1>2, <2>1, <2>2, <2>3 DEF QueueInv
  <1>8. PlaceInv'
    BY <1>1, <1>2, <1>3 DEF IInv, PlaceInv
  <1> QED BY <1>4, <1>5, <1>6, <1>7, <1>8 DEF IInv

\* An active task leaves the queue and is held, at the end of the line or, if
\* the lock is free, inside it.
LEMMA TakeActiveStep ==
    ASSUME TypeOK, IInv, NEW c \in Consumers, TakeActive(c)
    PROVE  IInv'
  <1> USE DEF loopVars, consVars, stopVars, histVars
  <1>1. /\ queue # <<>> /\ queue' = Tail(queue) /\ Head(queue) \in Active
        /\ pc[c] = "get"
        /\ UNCHANGED <<created, background, ended, ticket, issued>>
    BY DEF TakeActive
  <1>2. /\ \A i \in DOMAIN queue' : /\ i + 1 \in DOMAIN queue
                                    /\ queue'[i] = queue[i + 1]
                                    /\ ticket[Head(queue)] < ticket[queue'[i]]
        /\ \A u \in Tasks : Queued(u) => u = Head(queue) \/ Queued(u)'
        /\ \A i, j \in DOMAIN queue' : i < j => ticket[queue'[i]] < ticket[queue'[j]]
        /\ ticket[Head(queue)] # 0 /\ ended[Head(queue)] = "no"
        /\ \E i \in DOMAIN queue : queue[i] = Head(queue)
    BY <1>1, DequeueFacts DEF IInv, QueueInv, Queued
  <1>3. \A d \in Consumers : /\ d # c => pc'[d] = pc[d] /\ holds'[d] = holds[d]
                             /\ holds'[c] = Head(queue)
    BY DEF TypeOK, TakeActive
  <1>4. pc'[c] \in {"lock", "execute"}
    BY DEF TypeOK, TakeActive
  <1>5. ~Holding(c) /\ Holding(c)' /\ \A d \in Consumers : d # c => (Holding(d) <=> Holding(d)')
    BY <1>1, <1>3, <1>4 DEF Holding
  <1>6. \A d \in Consumers : Holding(d) => ticket[holds[d]] < ticket[Head(queue)]
    BY <1>2 DEF IInv, HoldInv
  <1>7. FreshInv'
    BY <1>1, <1>3 DEF IInv, FreshInv
  <1>8. LockInv'
    <2>1. \A i \in DOMAIN lockWaiters :
             /\ lockWaiters[i] \in Consumers /\ Holding(lockWaiters[i])
             /\ lockWaiters[i] # c
      BY <1>1 DEF TypeOK, IInv, LockInv, Holding
    <2>2. CASE /\ LockIsFree /\ lockOwner' = c /\ pc'[c] = "execute"
               /\ UNCHANGED lockWaiters
      <3>1. \A d \in Consumers : pc[d] # "execute"
        BY <2>2 DEF IInv, LockInv, LockIsFree, None, Consumers
      <3>2. \A d \in Consumers : pc'[d] = "execute" => lockOwner' = d
        BY <3>1, <2>2, <1>3
      <3>3. \A d \in Consumers :
               pc'[d] = "lock" <=> \E i \in DOMAIN lockWaiters : lockWaiters[i] = d
        BY <2>1, <2>2, <1>3 DEF IInv, LockInv
      <3>4. \A i, j \in DOMAIN lockWaiters : i < j =>
               ticket'[holds'[lockWaiters[i]]] < ticket'[holds'[lockWaiters[j]]]
        BY <2>1, <1>1, <1>3 DEF IInv, LockInv
      <3> QED BY <2>2, <3>2, <3>3, <3>4 DEF LockInv
    <2>3. CASE /\ lockWaiters' = Append(lockWaiters, c) /\ pc'[c] = "lock"
               /\ UNCHANGED lockOwner
      <3>1. /\ Len(lockWaiters) \in Nat
            /\ DOMAIN lockWaiters = 1..Len(lockWaiters)
            /\ DOMAIN lockWaiters' = 1..(Len(lockWaiters) + 1)
            /\ \A i \in DOMAIN lockWaiters : lockWaiters'[i] = lockWaiters[i]
            /\ lockWaiters'[Len(lockWaiters) + 1] = c
        BY <2>3, AppendFacts DEF TypeOK
      <3>2. \A d \in Consumers : pc'[d] = "execute" => lockOwner' = d
        BY <2>3, <1>3 DEF IInv, LockInv
      <3>3. \A d \in Consumers :
               pc'[d] = "lock" <=> \E i \in DOMAIN lockWaiters' : lockWaiters'[i] = d
        <4> TAKE d \in Consumers
        <4>1. CASE d = c
          BY <4>1, <3>1, <2>3
        <4>2. CASE d # c
          BY <4>2, <3>1, <1>3 DEF IInv, LockInv
        <4> QED BY <4>1, <4>2
      <3>4. ASSUME NEW i \in DOMAIN lockWaiters', NEW j \in DOMAIN lockWaiters', i < j
            PROVE  ticket'[holds'[lockWaiters'[i]]] < ticket'[holds'[lockWaiters'[j]]]
        <4>1. i \in DOMAIN lockWaiters /\ lockWaiters'[i] = lockWaiters[i]
          BY <3>1, <3>4
        <4>2. ticket'[holds'[lockWaiters'[i]]] = ticket[holds[lockWaiters[i]]]
          BY <4>1, <2>1, <1>1, <1>3
        <4>3. CASE j = Len(lockWaiters) + 1
          BY <4>1, <4>2, <4>3, <2>1, <3>1, <1>1, <1>3, <1>6
        <4>4. CASE j # Len(lockWaiters) + 1
          BY <4>1, <4>2, <4>4, <2>1, <3>1, <3>4, <1>1, <1>3 DEF IInv, LockInv
        <4> QED BY <4>3, <4>4
      <3> QED BY <3>2, <3>3, <3>4 DEF LockInv
    <2> QED BY <2>2, <2>3 DEF TakeActive, TypeOK
  <1>9. HoldInv'
    <2>1. ASSUME NEW d \in Consumers, Holding(d)'
          PROVE  /\ holds'[d] \in Active /\ ticket'[holds'[d]] # 0 /\ ended'[holds'[d]] = "no"
                 /\ \A i \in DOMAIN queue' : ticket'[holds'[d]] < ticket'[queue'[i]]
      <3>1. CASE d = c
        BY <3>1, <1>1, <1>2, <1>3
      <3>2. CASE d # c
        BY <3>2, <2>1, <1>1, <1>2, <1>3, <1>5 DEF IInv, HoldInv
      <3> QED BY <3>1, <3>2
    <2>2. \A d \in Consumers : ~Holding(d)' => holds'[d] = NoTask
      BY <1>3, <1>5 DEF IInv, HoldInv
    <2>3. \A d \in Consumers : Holding(d) => holds[d] # Head(queue)
      <3> SUFFICES ASSUME NEW d \in Consumers, Holding(d), holds[d] = Head(queue)
                   PROVE  FALSE
        OBVIOUS
      <3>1. ticket[Head(queue)] < ticket[Head(queue)]
        BY <1>6
      <3>2. ticket[Head(queue)] \in Nat
        BY <1>1 DEF TypeOK, Active
      <3> QED BY <3>1, <3>2
    <2>4. \A d, e \in Consumers :
             Holding(d)' /\ Holding(e)' /\ holds'[d] = holds'[e] => d = e
      BY <2>3, <1>3, <1>5 DEF IInv, HoldInv
    <2> QED BY <2>1, <2>2, <2>4 DEF HoldInv
  <1>10. QueueInv'
    BY <1>1, <1>2 DEF IInv, QueueInv
  <1>11. PlaceInv'
    <2> SUFFICES ASSUME NEW u \in Tasks, ticket[u] # 0, ended[u] = "no"
                 PROVE  \/ Queued(u)' \/ u \in background
                        \/ \E d \in Consumers : Holding(d)' /\ holds'[d] = u
      BY <1>1 DEF PlaceInv
    <2>1. \/ Queued(u) \/ u \in background
          \/ \E d \in Consumers : Holding(d) /\ holds[d] = u
      BY DEF IInv, PlaceInv
    <2>2. CASE Queued(u)
      BY <2>2, <1>2, <1>3, <1>5
    <2>3. CASE \E d \in Consumers : Holding(d) /\ holds[d] = u
      BY <2>3, <1>3, <1>5
    <2> QED BY <2>1, <2>2, <2>3
  <1> QED BY <1>7, <1>8, <1>9, <1>10, <1>11 DEF IInv

\* The first waiter gets the lock; the line behind it keeps its order.
LEMMA AcquireLockStep ==
    ASSUME TypeOK, IInv, NEW c \in Consumers, AcquireLock(c)
    PROVE  IInv'
  <1> USE DEF loopVars, consVars, stopVars, histVars
  <1>1. /\ pc[c] = "lock" /\ lockOwner = None /\ lockOwner' = c
        /\ lockWaiters # <<>> /\ Head(lockWaiters) = c
        /\ lockWaiters' = Tail(lockWaiters)
        /\ \A d \in Consumers : pc'[d] = IF d = c THEN "execute" ELSE pc[d]
        /\ UNCHANGED <<queue, created, holds, background, ended, ticket, issued>>
    BY DEF AcquireLock, TypeOK
  <1>2. /\ 1 \in DOMAIN lockWaiters /\ lockWaiters[1] = c
        /\ \A i \in DOMAIN lockWaiters : i \in Nat /\ i >= 1 /\ lockWaiters[i] \in Consumers
        /\ \A i \in DOMAIN lockWaiters' : /\ i \in Nat /\ i >= 1
                                          /\ i + 1 \in DOMAIN lockWaiters
                                          /\ lockWaiters'[i] = lockWaiters[i + 1]
        /\ \A i \in DOMAIN lockWaiters : i # 1 => /\ i - 1 \in DOMAIN lockWaiters'
                                                  /\ lockWaiters'[i - 1] = lockWaiters[i]
    BY <1>1, TailFacts DEF TypeOK
  <1>3. \A d \in Consumers : Holding(d) <=> Holding(d)'
    BY <1>1 DEF Holding
  <1>4. FreshInv'
    BY <1>1 DEF IInv, FreshInv
  <1>5. LockInv'
    <2>1. \A d \in Consumers : pc'[d] = "execute" => lockOwner' = d
      BY <1>1 DEF IInv, LockInv, None, Consumers
    <2>2. \A i \in DOMAIN lockWaiters : i # 1 => lockWaiters[i] # c
      <3> SUFFICES ASSUME NEW i \in DOMAIN lockWaiters, i # 1, lockWaiters[i] = c
                   PROVE  FALSE
        OBVIOUS
      <3>1. ticket[holds[lockWaiters[1]]] < ticket[holds[lockWaiters[i]]]
        BY <1>2 DEF IInv, LockInv
      <3>2. ticket[holds[c]] \in Nat
        BY <1>1 DEF IInv, HoldInv, Holding, TypeOK, Active
      <3> QED BY <3>1, <3>2, <1>2
    <2>3. \A d \in Consumers :
             pc'[d] = "lock" <=> \E i \in DOMAIN lockWaiters' : lockWaiters'[i] = d
      <3> TAKE d \in Consumers
      <3>1. CASE d = c
        <4>1. \A i \in DOMAIN lockWaiters' : i + 1 # 1
          BY <1>2
        <4> QED BY <3>1, <4>1, <2>2, <1>1, <1>2
      <3>2. CASE d # c
        <4>1. pc[d] = "lock" <=> \E i \in DOMAIN lockWaiters : lockWaiters[i] = d
          BY DEF IInv, LockInv
        <4>2. \A i \in DOMAIN lockWaiters :
                 lockWaiters[i] = d => \E j \in DOMAIN lockWaiters' : lockWaiters'[j] = d
          <5> TAKE i \in DOMAIN lockWaiters
          <5>1. CASE i = 1
            BY <5>1, <3>2, <1>2
          <5>2. CASE i # 1
            BY <5>2, <1>2
          <5> QED BY <5>1, <5>2
        <4>3. \A j \in DOMAIN lockWaiters' :
                 lockWaiters'[j] = d => \E i \in DOMAIN lockWaiters : lockWaiters[i] = d
          BY <1>2
        <4>4. pc'[d] = pc[d]
          BY <3>2, <1>1
        <4> QED BY <4>1, <4>2, <4>3, <4>4
      <3> QED BY <3>1, <3>2
    <2>4. \A i, j \in DOMAIN lockWaiters' : i < j => i + 1 < j + 1
      BY <1>2
    <2>5. \A i, j \in DOMAIN lockWaiters' : i < j =>
             ticket'[holds'[lockWaiters'[i]]] < ticket'[holds'[lockWaiters'[j]]]
      BY <2>4, <1>1, <1>2 DEF IInv, LockInv
    <2> QED BY <2>1, <2>3, <2>5 DEF LockInv
  <1>6. HoldInv'
    BY <1>1, <1>3 DEF IInv, HoldInv
  <1>7. QueueInv'
    BY <1>1 DEF IInv, QueueInv
  <1>8. PlaceInv'
    BY <1>1, <1>3 DEF IInv, PlaceInv, Queued
  <1> QED BY <1>4, <1>5, <1>6, <1>7, <1>8 DEF IInv

\* A consumer lets go of its task, which has ended, and of its place.
LetGo(c, how) ==
    /\ holds' = [holds EXCEPT ![c] = NoTask]
    /\ ended' = [ended EXCEPT ![holds[c]] = how]
    /\ pc' = [pc EXCEPT ![c] = pc'[c]]
    /\ pc'[c] \in {"get", "cancelled", "failed"}
    /\ UNCHANGED <<queue, created, background, ticket, issued>>

\* What HoldInv, QueueInv and PlaceInv say of the other tasks is not disturbed.
LEMMA LetGoStep ==
    ASSUME TypeOK, IInv, NEW c \in Consumers, Holding(c),
           NEW how \in {"finished", "raised", "cancelled", "dropped"}, LetGo(c, how)
    PROVE  /\ FreshInv' /\ HoldInv' /\ QueueInv' /\ PlaceInv'
           /\ \A d \in Consumers :
                 /\ d # c => pc'[d] = pc[d] /\ holds'[d] = holds[d]
                 /\ Holding(d)' <=> Holding(d) /\ d # c
  <1>1. \A d \in Consumers : /\ d # c => pc'[d] = pc[d] /\ holds'[d] = holds[d]
                             /\ holds'[c] = NoTask
    BY DEF LetGo, TypeOK
  <1>2. \A d \in Consumers : Holding(d)' <=> Holding(d) /\ d # c
    BY <1>1 DEF Holding, LetGo
  <1>3. /\ holds[c] \in Tasks /\ ended[holds[c]] = "no" /\ ticket[holds[c]] # 0
        /\ \A i \in DOMAIN queue : ticket[holds[c]] < ticket[queue[i]]
    BY DEF IInv, HoldInv, Active
  <1>4. \A u \in Tasks : ended'[u] = IF u = holds[c] THEN how ELSE ended[u]
    BY <1>3 DEF LetGo, TypeOK
  <1>5. \A i \in DOMAIN queue : queue[i] \in Tasks /\ queue[i] # holds[c]
    <2>1. ticket[holds[c]] \in Nat
      BY <1>3 DEF TypeOK
    <2>2. \A i \in DOMAIN queue : queue[i] \in Tasks
      BY DEF TypeOK
    <2> QED BY <1>3, <2>1, <2>2
  <1>6. \A u \in background : u \in Tasks /\ u # holds[c]
    BY DEF TypeOK, IInv, HoldInv, Active
  <1>7. FreshInv'
    <2>1. c <= created
      BY DEF IInv, FreshInv, Holding, TypeOK, Consumers
    <2> QED BY <2>1, <1>1 DEF IInv, FreshInv, LetGo, TypeOK, Consumers
  <1>8. HoldInv'
    <2>1. ASSUME NEW d \in Consumers, Holding(d), d # c
          PROVE  holds[d] \in Tasks /\ holds[d] # holds[c]
      BY <2>1 DEF IInv, HoldInv, Active
    <2>2. \A d \in Consumers :
             Holding(d)' => /\ holds'[d] \in Active
                            /\ ticket'[holds'[d]] # 0
                            /\ ended'[holds'[d]] = "no"
                            /\ \A i \in DOMAIN queue' : ticket'[holds'[d]] < ticket'[queue'[i]]
      BY <2>1, <1>1, <1>2, <1>4 DEF IInv, HoldInv, LetGo
    <2>3. \A d \in Consumers : ~Holding(d)' => holds'[d] = NoTask
      BY <1>1, <1>2 DEF IInv, HoldInv
    <2>4. \A d, e \in Consumers :
             Holding(d)' /\ Holding(e)' /\ holds'[d] = holds'[e] => d = e
      BY <1>1, <1>2 DEF IInv, HoldInv
    <2> QED BY <2>2, <2>3, <2>4 DEF HoldInv
  <1>9. QueueInv'
    <2>1. UNCHANGED <<queue, background, ticket, issued>>
      BY DEF LetGo
    <2> QED BY <2>1, <1>3, <1>4, <1>5, <1>6 DEF IInv, QueueInv
  <1>10. PlaceInv'
    <2>1. UNCHANGED <<queue, background, ticket>>
      BY DEF LetGo
    <2> SUFFICES ASSUME NEW u \in Tasks, ticket[u] # 0, ended'[u] = "no"
                 PROVE  \/ Queued(u) \/ u \in background
                        \/ \E d \in Consumers : Holding(d)' /\ holds'[d] = u
      BY <2>1 DEF PlaceInv, Queued
    <2>2. u # holds[c] /\ ended[u] = "no"
      BY <1>4
    <2>3. \/ Queued(u) \/ u \in background
          \/ \E d \in Consumers : Holding(d) /\ holds[d] = u
      BY <2>2 DEF IInv, PlaceInv
    <2> QED BY <2>2, <2>3, <1>1, <1>2
  <1> QED BY <1>1, <1>2, <1>7, <1>8, <1>9, <1>10

\* Leaving execute() frees the lock: its owner was the only one inside.
LEMMA LeaveStep ==
    ASSUME TypeOK, IInv, NEW c \in Consumers,
           NEW how \in {"finished", "raised", "cancelled"},
           NEW next \in {"get", "failed", "cancelled"},
           Leave(c, how, next)
    PROVE  IInv'
  <1> USE DEF loopVars, stopVars
  <1>1. Holding(c) /\ LetGo(c, how) /\ pc[c] = "execute" /\ lockOwner' = None
        /\ UNCHANGED <<lockWaiters, ticket>>
    BY DEF Leave, LetGo, Holding, TypeOK
  <1>2. /\ FreshInv' /\ HoldInv' /\ QueueInv' /\ PlaceInv'
        /\ \A d \in Consumers :
              /\ d # c => pc'[d] = pc[d] /\ holds'[d] = holds[d]
              /\ Holding(d)' <=> Holding(d) /\ d # c
    BY <1>1, LetGoStep
  <1>3. LockInv'
    <2>1. \A d \in Consumers : pc'[d] # "execute"
      BY <1>1, <1>2 DEF IInv, LockInv, LetGo
    <2>2. \A i \in DOMAIN lockWaiters : /\ lockWaiters[i] \in Consumers
                                        /\ lockWaiters[i] # c
      <3>1. \A i \in DOMAIN lockWaiters : lockWaiters[i] \in Consumers
        BY DEF TypeOK
      <3>2. \A i \in DOMAIN lockWaiters : pc[lockWaiters[i]] = "lock"
        BY <3>1 DEF IInv, LockInv
      <3> QED BY <3>1, <3>2, <1>1
    <2>3. \A d \in Consumers :
             pc'[d] = "lock" <=> \E i \in DOMAIN lockWaiters : lockWaiters[i] = d
      BY <2>2, <1>1, <1>2 DEF IInv, LockInv, LetGo
    <2>4. \A i, j \in DOMAIN lockWaiters : i < j =>
             ticket[holds'[lockWaiters[i]]] < ticket[holds'[lockWaiters[j]]]
      BY <2>2, <1>2 DEF IInv, LockInv
    <2> QED BY <1>1, <2>1, <2>3, <2>4 DEF LockInv
  <1> QED BY <1>2, <1>3 DEF IInv

\* A cancelled waiter leaves the line with its task.
LEMMA CancelInLockStep ==
    ASSUME TypeOK, IInv, NEW c \in Consumers, CancelInLock(c)
    PROVE  IInv'
  <1> USE DEF loopVars, stopVars
  <1>1. /\ Holding(c) /\ LetGo(c, "dropped") /\ pc[c] = "lock" /\ pc'[c] = "cancelled"
        /\ UNCHANGED <<lockOwner, ticket>>
    BY DEF CancelInLock, LetGo, Holding, TypeOK
  <1>2. /\ FreshInv' /\ HoldInv' /\ QueueInv' /\ PlaceInv'
        /\ \A d \in Consumers :
              /\ d # c => pc'[d] = pc[d] /\ holds'[d] = holds[d]
              /\ Holding(d)' <=> Holding(d) /\ d # c
    BY <1>1, LetGoStep
  <1>3. PICK k \in DOMAIN lockWaiters : lockWaiters[k] = c
                                        /\ lockWaiters' = RemoveAt(lockWaiters, k)
    BY DEF CancelInLock
  <1>4. /\ \A i \in DOMAIN lockWaiters : i \in Nat /\ lockWaiters[i] \in Consumers
        /\ \A i \in DOMAIN lockWaiters' :
              /\ i \in Nat
              /\ i < k => i \in DOMAIN lockWaiters /\ lockWaiters'[i] = lockWaiters[i]
              /\ i >= k => /\ i + 1 \in DOMAIN lockWaiters
                           /\ lockWaiters'[i] = lockWaiters[i + 1]
        /\ \A i \in DOMAIN lockWaiters :
              /\ i < k => i \in DOMAIN lockWaiters' /\ lockWaiters'[i] = lockWaiters[i]
              /\ i > k => /\ i - 1 \in DOMAIN lockWaiters'
                          /\ lockWaiters'[i - 1] = lockWaiters[i]
    BY <1>3, RemoveAtFacts DEF TypeOK
  <1>5. \A i \in DOMAIN lockWaiters : i # k => lockWaiters[i] # c
    <2> SUFFICES ASSUME NEW i \in DOMAIN lockWaiters, i # k, lockWaiters[i] = c
                 PROVE  FALSE
      OBVIOUS
    <2>1. i < k \/ k < i
      BY <1>4
    <2>2. ticket[holds[c]] < ticket[holds[c]]
      BY <2>1, <1>3 DEF IInv, LockInv
    <2>3. ticket[holds[c]] \in Nat
      BY <1>1 DEF IInv, HoldInv, TypeOK, Active
    <2> QED BY <2>2, <2>3
  <1>6. LockInv'
    <2>1. \A d \in Consumers : pc'[d] = "execute" => lockOwner' = d
      BY <1>1, <1>2 DEF IInv, LockInv
    <2> DEFINE old(i) == IF i < k THEN i ELSE i + 1
    <2>2. \A i \in DOMAIN lockWaiters' :
             /\ old(i) \in DOMAIN lockWaiters /\ old(i) # k
             /\ lockWaiters'[i] = lockWaiters[old(i)]
      BY <1>4
    <2>3. \A i \in DOMAIN lockWaiters : i # k =>
             \E j \in DOMAIN lockWaiters' : lockWaiters'[j] = lockWaiters[i]
      <3> SUFFICES ASSUME NEW i \in DOMAIN lockWaiters, i # k
                   PROVE  \E j \in DOMAIN lockWaiters' : lockWaiters'[j] = lockWaiters[i]
        OBVIOUS
      <3>1. i < k \/ i > k
        BY <1>4
      <3> QED BY <3>1, <1>4
    <2>4. \A i, j \in DOMAIN lockWaiters' : i < j => old(i) < old(j)
      BY <1>4
    <2> HIDE DEF old
    <2>5. \A i \in DOMAIN lockWaiters' : lockWaiters'[i] \in Consumers /\ lockWaiters'[i] # c
      BY <2>2, <1>4, <1>5
    <2>6. \A d \in Consumers :
             pc'[d] = "lock" <=> \E i \in DOMAIN lockWaiters' : lockWaiters'[i] = d
      <3> TAKE d \in Consumers
      <3>1. CASE d = c
        BY <3>1, <2>5, <1>1
      <3>2. CASE d # c
        <4>1. pc[d] = "lock" <=> \E i \in DOMAIN lockWaiters : lockWaiters[i] = d
          BY DEF IInv, LockInv
        <4> QED BY <3>2, <4>1, <2>2, <2>3, <1>2, <1>3
      <3> QED BY <3>1, <3>2
    <2>7. ASSUME NEW i \in DOMAIN lockWaiters', NEW j \in DOMAIN lockWaiters', i < j
          PROVE  ticket'[holds'[lockWaiters'[i]]] < ticket'[holds'[lockWaiters'[j]]]
      <3>1. ticket[holds[lockWaiters[old(i)]]] < ticket[holds[lockWaiters[old(j)]]]
        BY <2>7, <2>2, <2>4 DEF IInv, LockInv
      <3>2. /\ lockWaiters'[i] = lockWaiters[old(i)] /\ lockWaiters'[j] = lockWaiters[old(j)]
            /\ holds'[lockWaiters'[i]] = holds[lockWaiters'[i]]
            /\ holds'[lockWaiters'[j]] = holds[lockWaiters'[j]]
        BY <2>2, <2>5, <1>2
      <3> QED BY <3>1, <3>2, <1>1
    <2> QED BY <2>1, <2>6, <2>7 DEF LockInv
  <1> QED BY <1>2, <1>6 DEF IInv

\* A query ends: it was in the background and is nowhere now.
LEMMA FinishPassiveStep ==
    ASSUME TypeOK, IInv, NEW t \in Tasks, FinishPassive(t)
    PROVE  IInv'
  <1> USE DEF loopVars, consVars, stopVars
  <1>1. /\ t \in background /\ t \in Passive /\ background' = background \ {t}
        /\ \A u \in Tasks : ended'[u] = IF u = t THEN "finished" ELSE ended[u]
        /\ UNCHANGED <<queue, created, pc, holds, lockOwner, lockWaiters, ticket, issued>>
    BY DEF FinishPassive, TypeOK
  <1>2. \A d \in Consumers : Holding(d) <=> Holding(d)'
    BY <1>1 DEF Holding
  <1>3. FreshInv' /\ LockInv'
    BY <1>1 DEF IInv, FreshInv, LockInv
  <1>4. \A i \in DOMAIN queue : queue[i] \in Tasks /\ queue[i] # t
    <2>1. ticket[t] \in Nat /\ \A i \in DOMAIN queue : ticket[t] < ticket[queue[i]]
      BY <1>1 DEF TypeOK, IInv, QueueInv
    <2>2. \A i \in DOMAIN queue : queue[i] \in Tasks
      BY DEF TypeOK
    <2> QED BY <2>1, <2>2
  <1>5. HoldInv'
    <2>1. \A d \in Consumers : Holding(d) => holds[d] \in Tasks /\ holds[d] # t
      BY <1>1 DEF IInv, HoldInv, Active
    <2> QED BY <2>1, <1>1, <1>2 DEF IInv, HoldInv
  <1>6. QueueInv'
    BY <1>1, <1>4 DEF IInv, QueueInv, TypeOK
  <1>7. PlaceInv'
    BY <1>1, <1>2 DEF IInv, PlaceInv, Queued
  <1> QED BY <1>3, <1>5, <1>6, <1>7 DEF IInv

\* Every step preserves the invariant.
LEMMA NextIInv == TypeOK /\ IInv /\ [Next]_vars => IInv'
  <1> SUFFICES ASSUME TypeOK, IInv, [Next]_vars PROVE IInv'
    OBVIOUS
  <1> USE DEF loopVars, consVars, stopVars, histVars
  <1>1. CASE Start
    BY <1>1, LaunchIsQuiet, QuietStep DEF Start, LaunchConsumer, IInv
  <1>2. ASSUME NEW t \in Tasks, Enqueue(t) PROVE IInv'
    <2>1. SamePlaces /\ FreshInv'
      BY <1>2 DEF Enqueue, SamePlaces, IInv, FreshInv
    <2> QED BY <1>2, <2>1, PutStep DEF Enqueue, IInv
  <1>3. ASSUME NEW t \in Tasks, SubmitTask(t) PROVE IInv'
    <2>1. SamePlaces /\ FreshInv' /\ UNCHANGED <<holds, lockOwner, lockWaiters, background>>
      <3>1. CASE started
        BY <1>3, <3>1 DEF SubmitTask, SamePlaces, IInv, FreshInv
      <3>2. CASE ~started
        BY <1>3, <3>2, LaunchIsQuiet DEF SubmitTask, LaunchConsumer, IInv
      <3> QED BY <3>1, <3>2
    <2> QED BY <1>3, <2>1, PutStep DEF SubmitTask, IInv
  <1>4. ASSUME NEW t \in Tasks, FinishPassive(t) PROVE IInv'
    BY <1>4, FinishPassiveStep
  <1>5. ASSUME NEW c \in Consumers, DispatchPassive(c) PROVE IInv'
    BY <1>5, DispatchPassiveStep
  <1>6. ASSUME NEW c \in Consumers, TakeActive(c) PROVE IInv'
    BY <1>6, TakeActiveStep
  <1>7. ASSUME NEW c \in Consumers, AcquireLock(c) PROVE IInv'
    BY <1>7, AcquireLockStep
  <1>8. ASSUME NEW c \in Consumers, FinishActive(c) \/ ActiveRaises(c) \/ UnwindActive(c)
        PROVE IInv'
    BY <1>8, LeaveStep DEF FinishActive, ActiveRaises, UnwindActive
  <1>9. ASSUME NEW c \in Consumers, CancelInGet(c) PROVE IInv'
    <2>1. SamePlaces /\ FreshInv'
      BY <1>9 DEF CancelInGet, SamePlaces, IInv, FreshInv, TypeOK
    <2> QED BY <1>9, <2>1, QuietStep DEF CancelInGet, IInv
  <1>10. ASSUME NEW c \in Consumers, CancelInLock(c) PROVE IInv'
    BY <1>10, CancelInLockStep
  <1>11. ASSUME NEW s \in Stops, Stop(s) \/ StopProceeds(s) PROVE IInv'
    <2>1. UNCHANGED <<queue, created, pc, holds, lockOwner, lockWaiters, background,
                      ended, ticket, issued>>
      BY <1>11 DEF Stop, StopProceeds, StopNotStarted, StopCancels, StopJoins,
                   StopRaises, StopGathers
    <2>2. SamePlaces /\ FreshInv'
      BY <2>1 DEF SamePlaces, IInv, FreshInv
    <2> QED BY <2>1, <2>2, QuietStep DEF IInv
  <1>12. CASE UNCHANGED vars
    <2>1. SamePlaces /\ FreshInv'
      BY <1>12 DEF vars, SamePlaces, IInv, FreshInv
    <2> QED BY <1>12, <2>1, QuietStep DEF vars, IInv
  <1> QED
    BY <1>1, <1>2, <1>3, <1>4, <1>5, <1>6, <1>7, <1>8, <1>9, <1>10, <1>11, <1>12
    DEF Next, Consume

\* The invariant the other theorems rest on: tickets order the queue, the held
\* tasks and the line of waiters, and the lock's owner is the only one inside.
THEOREM Invariance == Spec => [](TypeOK /\ IInv)
  BY InitTypeOK, InitIInv, NextTypeOK, NextIInv, PTL DEF Spec

-----------------------------------------------------------------------------
(* Safety                                                                  *)

\* No two active tasks are executed at once, however many consumers start(),
\* stop() and their overlaps create (loop.py:76-77).
THEOREM OneMutationAtATime == Spec => []MutualExclusion
  <1>1. TypeOK /\ IInv => MutualExclusion
    BY DEF IInv, LockInv, MutualExclusion
  <1> QED BY <1>1, Invariance, PTL

\* A submitted task is in exactly one place until it ends: the queue neither
\* drops nor duplicates tasks.
THEOREM NoTaskLostOrDuplicated == Spec => []Conservation
  <1>1. TypeOK /\ IInv => Conservation
    <2> SUFFICES ASSUME TypeOK, IInv, NEW t \in Tasks
                 PROVE  /\ \A i, j \in DOMAIN queue : queue[i] = t /\ queue[j] = t => i = j
                        /\ \A c, d \in Consumers : holds[c] = t /\ holds[d] = t => c = d
                        /\ (ticket[t] # 0 /\ ended[t] = "no") <=>
                              \/ Queued(t) \/ t \in background
                              \/ \E c \in Consumers : holds[c] = t
                        /\ ~(Queued(t) /\ (\/ t \in background
                                           \/ \E c \in Consumers : holds[c] = t))
      BY DEF Conservation
    <2>1. /\ ticket[t] \in Nat /\ t # NoTask
          /\ DOMAIN queue \subseteq Nat
          /\ \A c \in Consumers : holds[c] = t => Holding(c)
      BY DEF TypeOK, IInv, HoldInv
    <2>2. ASSUME NEW i \in DOMAIN queue, NEW j \in DOMAIN queue,
                 queue[i] = t, queue[j] = t, i # j
          PROVE  FALSE
      <3>1. i < j \/ j < i
        BY <2>1, <2>2
      <3>2. ticket[t] < ticket[t]
        BY <2>2, <3>1 DEF IInv, QueueInv
      <3> QED BY <3>2, <2>1
    <2>3. \A c, d \in Consumers : holds[c] = t /\ holds[d] = t => c = d
      BY <2>1 DEF IInv, HoldInv
    <2>4. ticket[t] # 0 /\ ended[t] = "no" =>
             \/ Queued(t) \/ t \in background
             \/ \E c \in Consumers : holds[c] = t
      BY DEF IInv, PlaceInv
    <2>5. /\ Queued(t) => ticket[t] # 0 /\ ended[t] = "no"
          /\ t \in background => ticket[t] # 0 /\ ended[t] = "no"
          /\ \A c \in Consumers : holds[c] = t => ticket[t] # 0 /\ ended[t] = "no"
      BY <2>1 DEF IInv, QueueInv, HoldInv, Queued
    <2>6. ASSUME NEW i \in DOMAIN queue, queue[i] = t,
                 t \in background \/ \E c \in Consumers : holds[c] = t
          PROVE  FALSE
      <3>1. ticket[t] < ticket[t]
        BY <2>6, <2>1 DEF IInv, QueueInv, HoldInv
      <3> QED BY <3>1, <2>1
    <2> QED BY <2>2, <2>3, <2>4, <2>5, <2>6 DEF Queued
  <1> QED BY <1>1, Invariance, PTL

-----------------------------------------------------------------------------
(* One consumer, as long as no start() overlaps a stop()                   *)

\* Nothing has happened yet.
LEMMA InitOwner == Init => StopInv /\ OwnerInv
  BY DEF Init, StopInv, OwnerInv, Reachable, NoneGivenUp, Live, Stopping, None,
         Consumers

\* start() finds no live consumer: the last one was joined, or had failed.
LEMMA LaunchOwner ==
  ASSUME TypeOK, FreshInv, StopInv, OwnerInv, ~Stopping, ~started, LaunchConsumer,
         UNCHANGED <<background, stopVars, ended>>
  PROVE  StopInv' /\ OwnerInv'
<1> USE DEF stopVars
<1>1. created + 1 \in Consumers /\ created + 1 # None
  BY LaunchTypeOK DEF TypeOK, None
<1>2. /\ \A c \in Consumers : pc'[c] = IF c = created + 1 THEN "get" ELSE pc[c]
      /\ consumerTask' = created + 1 /\ started'
      /\ UNCHANGED <<cancelled, holds, lockOwner, lockWaiters>>
  BY DEF TypeOK, LaunchConsumer
<1>3. pc[created + 1] = "none"
  BY <1>1 DEF FreshInv, TypeOK, Consumers
<1>4. \A c \in Consumers : ~Live(c)
  BY DEF OwnerInv, Reachable, Live, Joining, Stopping, None, Consumers
<1>5. \A c \in Consumers : Live(c)' => c = created + 1
  BY <1>2, <1>4 DEF Live
<1>6. StopInv'
  BY <1>1, <1>2 DEF StopInv, Stopping
<1>7. Reachable' /\ NoneGivenUp'
  BY <1>2, <1>5 DEF OwnerInv, Reachable, NoneGivenUp
<1>8. lockOwner' = None
  BY <1>2, <1>4 DEF TypeOK, OwnerInv, Live
<1> QED
  BY <1>2, <1>6, <1>7, <1>8 DEF OwnerInv

\* The steps of the only consumer.  It never finds the lock taken.
LEMMA ConsumeOwner ==
  ASSUME TypeOK, IInv, StopInv, OwnerInv, NEW c \in Consumers, Consume(c)
  PROVE  StopInv' /\ OwnerInv'
<1> USE DEF loopVars, consVars, stopVars, histVars
<1>1. pc[c] # "lock" /\ Live(c) /\ consumerTask = c /\ c # None
  <2>1. pc[c] # "lock"
    BY DEF OwnerInv
  <2>2. Live(c)
    BY DEF Consume, DispatchPassive, TakeActive, AcquireLock, FinishActive, ActiveRaises,
           UnwindActive, CancelInGet, CancelInLock, Leave, Live
  <2> QED
    BY <2>1, <2>2 DEF OwnerInv, Reachable, None, Consumers
<1>2. /\ UNCHANGED <<started, consumerTask, stopPc, joins, gathers>>
      /\ \A d \in Consumers : d # c => pc'[d] = pc[d]
  BY DEF Consume, DispatchPassive, TakeActive, AcquireLock, FinishActive, ActiveRaises,
         UnwindActive, CancelInGet, CancelInLock, Leave, TypeOK
<1>3. background' = background \/ pc[c] = "get"
  BY <1>1 DEF Consume, DispatchPassive, TakeActive, AcquireLock, FinishActive, ActiveRaises,
         UnwindActive, CancelInGet, CancelInLock, Leave
<1>4. pc[c] # "failed" /\ (started \/ Joining)
  BY <1>1 DEF OwnerInv, Live
<1>5. StopInv'
  <2>1. \A s \in Stops : stopPc[s] # "gather"
    BY <1>1 DEF StopInv
  <2>2. background' # {} => started \/ Stopping \/ \E s \in Stops : stopPc[s] = "raised"
    BY <1>4 DEF Joining, Stopping
  <2> QED
    BY <1>2, <2>1, <2>2 DEF StopInv, Stopping
<1>6. Reachable'
  BY <1>1, <1>2 DEF OwnerInv, Reachable, Live
<1>7. consumerTask' # None => started' \/ Joining' \/ pc'[consumerTask'] = "failed"
  BY <1>2, <1>4 DEF Joining
<1>8. \A d \in Consumers : pc[d] = "execute" => d = c
  BY <1>1 DEF OwnerInv, Reachable, Live
<1>9. pc[c] = "get" => LockIsFree
  <2> SUFFICES ASSUME pc[c] = "get" PROVE LockIsFree
    OBVIOUS
  <2>1. lockOwner = None
    BY <1>8 DEF OwnerInv, TypeOK
  <2>2. \A i \in DOMAIN lockWaiters : lockWaiters[i] \in Consumers
    BY DEF TypeOK
  <2>3. \A i \in DOMAIN lockWaiters : pc[lockWaiters[i]] = "lock"
    BY <2>2 DEF IInv, LockInv
  <2> QED
    BY <2>1, <2>2, <2>3 DEF OwnerInv, LockIsFree
<1>10. CASE pc[c] = "get"
  <2>1. \/ pc'[c] = "get" /\ lockOwner' = lockOwner
        \/ pc'[c] = "execute" /\ lockOwner' = c
        \/ pc'[c] = "cancelled" /\ lockOwner' = lockOwner
    BY <1>9, <1>10 DEF Consume, DispatchPassive, TakeActive, AcquireLock, FinishActive,
           ActiveRaises, UnwindActive, CancelInGet, CancelInLock, Leave, TypeOK
  <2>2. ended' = ended
    BY <1>10 DEF Consume, DispatchPassive, TakeActive, AcquireLock, FinishActive,
           ActiveRaises, UnwindActive, CancelInGet, CancelInLock, Leave
  <2>3. lockOwner = None
    BY <1>9, <1>10 DEF LockIsFree
  <2> QED
    BY <1>2, <1>5, <1>6, <1>7, <2>1, <2>2, <2>3 DEF OwnerInv, NoneGivenUp
<1>11. CASE pc[c] = "execute"
  <2>1. PICK how \in {"finished", "raised", "cancelled"},
             next \in {"get", "failed", "cancelled"} : Leave(c, how, next)
    BY <1>11 DEF Consume, DispatchPassive, TakeActive, AcquireLock, FinishActive,
           ActiveRaises, UnwindActive, CancelInGet, CancelInLock
  <2>2. lockOwner' = None /\ pc'[c] = next
    BY <2>1 DEF Leave, TypeOK
  <2>3. \A t \in Tasks : ended'[t] # "dropped"
    BY <2>1 DEF Leave, TypeOK, OwnerInv, NoneGivenUp
  <2> QED
    BY <1>2, <1>5, <1>6, <1>7, <2>2, <2>3 DEF OwnerInv, NoneGivenUp
<1> QED
  BY <1>1, <1>10, <1>11 DEF Live

\* The steps of stop(): what was started is cancelled, joined and gathered by
\* one call.
LEMMA StopOwner ==
  ASSUME TypeOK, StopInv, OwnerInv, NEW s \in Stops, Stop(s) \/ StopProceeds(s)
  PROVE  StopInv' /\ OwnerInv'
<1> USE DEF loopVars, consVars, stopVars, histVars
<1>1. UNCHANGED <<pc, lockOwner, background, ended>>
  BY DEF Stop, StopProceeds, StopNotStarted, StopCancels, StopJoins, StopRaises,
         StopGathers
<1>2. /\ \A c \in Consumers : pc'[c] # "lock"
      /\ lockOwner' # None => pc'[lockOwner'] = "execute"
      /\ NoneGivenUp'
  BY <1>1 DEF OwnerInv, NoneGivenUp
<1>3. \A z \in Stops : /\ z # s => /\ stopPc'[z] = stopPc[z] /\ joins'[z] = joins[z]
                                   /\ gathers'[z] = gathers[z]
  BY DEF Stop, StopProceeds, StopNotStarted, StopCancels, StopJoins, StopRaises,
         StopGathers, GatherOrReturn, TypeOK
<1>4. CASE StopNotStarted(s)
  <2>1. stopPc[s] = "idle" /\ stopPc'[s] = "returned"
        /\ UNCHANGED <<started, consumerTask, joins, gathers>>
    BY <1>4 DEF StopNotStarted, TypeOK
  <2>2. Stopping' = Stopping /\ Joining' = Joining
    BY <1>3, <2>1 DEF Stopping, Joining
  <2>3. StopInv'
    BY <1>1, <1>3, <2>1, <2>2 DEF StopInv
  <2> QED
    BY <1>1, <1>2, <2>1, <2>2, <2>3 DEF OwnerInv, Reachable, Live
<1>5. CASE StopCancels(s)
  <2>1. started /\ ~Stopping /\ consumerTask # None
    BY <1>5 DEF StopCancels, StopInv
  <2>2. /\ ~started' /\ consumerTask' = consumerTask
        /\ joins'[s] = consumerTask /\ stopPc'[s] = "join"
    BY <1>5, <2>1 DEF StopCancels, TypeOK
  <2>3. Joining' /\ Stopping'
    BY <2>2 DEF Joining, Stopping
  <2>4. \A z \in Stops : z # s => stopPc'[z] \notin {"join", "gather"}
    BY <1>3, <2>1 DEF Stopping
  <2>5. StopInv'
    BY <1>1, <2>1, <2>2, <2>3, <2>4 DEF StopInv
  <2> QED
    BY <1>1, <1>2, <2>2, <2>3, <2>5 DEF OwnerInv, Reachable, Live
<1>6. CASE StopJoins(s)
  <2>1. /\ stopPc[s] = "join" /\ joins[s] = consumerTask /\ consumerTask \in Consumers
        /\ pc[consumerTask] = "cancelled"
    BY <1>6 DEF StopJoins, StopInv, TypeOK
  <2>2. \A c \in Consumers : ~Live(c)
    BY <2>1 DEF OwnerInv, Reachable, Live
  <2>3. /\ consumerTask' = None /\ started' = started /\ gathers'[s] = background
        /\ stopPc'[s] = IF background = {} THEN "returned" ELSE "gather"
    BY <1>6 DEF StopJoins, GatherOrReturn, TypeOK
  <2>4. ~started
    BY <2>1 DEF StopInv, Stopping
  <2>5. \A z \in Stops : z # s => stopPc'[z] \notin {"join", "gather"}
    BY <1>3, <2>1 DEF StopInv
  <2>6. StopInv'
    <3>1. background # {} => Stopping'
      BY <2>3 DEF Stopping
    <3> QED
      BY <1>1, <2>3, <2>4, <2>5, <3>1 DEF StopInv
  <2> QED
    BY <1>1, <1>2, <2>2, <2>3, <2>6 DEF OwnerInv, Reachable, Live
<1>7. CASE StopRaises(s)
  <2>1. /\ stopPc[s] = "join" /\ joins[s] = consumerTask /\ consumerTask # None
        /\ pc[consumerTask] = "failed"
    BY <1>7 DEF StopRaises, StopInv
  <2>2. /\ UNCHANGED <<started, consumerTask, joins, gathers>> /\ stopPc'[s] = "raised"
    BY <1>7 DEF StopRaises, TypeOK
  <2>3. ~started /\ \A z \in Stops : z # s => stopPc'[z] \notin {"join", "gather"}
    BY <1>3, <2>1 DEF StopInv, Stopping
  <2>4. StopInv'
    BY <1>1, <2>2, <2>3 DEF StopInv, Stopping
  <2> QED
    BY <1>1, <1>2, <2>1, <2>2, <2>4 DEF OwnerInv, Reachable, Live
<1>8. CASE StopGathers(s)
  <2>1. /\ stopPc[s] = "gather" /\ consumerTask = None /\ background = {}
    BY <1>8 DEF StopGathers, StopInv
  <2>2. /\ UNCHANGED <<started, consumerTask, joins, gathers>> /\ stopPc'[s] = "returned"
    BY <1>8 DEF StopGathers, TypeOK
  <2>3. ~started /\ \A z \in Stops : z # s => stopPc'[z] \notin {"join", "gather"}
    BY <1>3, <2>1 DEF StopInv, Stopping
  <2>4. StopInv'
    BY <1>1, <2>1, <2>2, <2>3 DEF StopInv, Stopping
  <2> QED
    BY <1>1, <1>2, <2>1, <2>2, <2>4 DEF OwnerInv, Reachable, Live
<1> QED
  BY <1>4, <1>5, <1>6, <1>7, <1>8 DEF Stop, StopProceeds

\* Every step preserves both parts.
LEMMA NextOwner ==
  ASSUME ~overlapped', TypeOK, IInv, StopInv, OwnerInv, [Next]_vars
  PROVE  StopInv' /\ OwnerInv'
<1> USE DEF loopVars, consVars, stopVars, histVars
<1> DEFINE Quiet == UNCHANGED <<started, consumerTask, pc, lockOwner, background,
                                stopPc, joins, gathers, ended>>
<1>1. ASSUME Quiet PROVE StopInv' /\ OwnerInv'
  BY <1>1 DEF StopInv, OwnerInv, Stopping, Joining, Reachable, Live, NoneGivenUp
<1>2. CASE Start
  BY <1>2, LaunchOwner DEF Start, LaunchConsumer, IInv
<1>3. ASSUME NEW t \in Tasks, Enqueue(t) PROVE StopInv' /\ OwnerInv'
  BY <1>3, <1>1 DEF Enqueue, Put
<1>4. ASSUME NEW t \in Tasks, SubmitTask(t) PROVE StopInv' /\ OwnerInv'
  <2>1. CASE started
    BY <1>4, <2>1, <1>1 DEF SubmitTask, Put
  <2>2. CASE ~started
    BY <1>4, <2>2, LaunchOwner DEF SubmitTask, LaunchConsumer, Put, IInv
  <2> QED
    BY <2>1, <2>2
<1>5. ASSUME NEW t \in Tasks, FinishPassive(t) PROVE StopInv' /\ OwnerInv'
  <2>1. /\ UNCHANGED <<started, consumerTask, pc, lockOwner, stopPc, joins, gathers>>
        /\ background' \subseteq background
        /\ \A u \in Tasks : ended'[u] # "dropped"
    BY <1>5 DEF FinishPassive, OwnerInv, NoneGivenUp, TypeOK
  <2>2. StopInv'
    BY <2>1 DEF StopInv, Stopping
  <2> QED
    BY <2>1, <2>2 DEF OwnerInv, Joining, Reachable, Live, NoneGivenUp
<1>6. ASSUME NEW c \in Consumers, Consume(c) PROVE StopInv' /\ OwnerInv'
  BY <1>6, ConsumeOwner
<1>7. ASSUME NEW s \in Stops, Stop(s) \/ StopProceeds(s) PROVE StopInv' /\ OwnerInv'
  BY <1>7, StopOwner
<1>8. CASE UNCHANGED vars
  BY <1>8, <1>1 DEF vars
<1> QED
  BY <1>2, <1>3, <1>4, <1>5, <1>6, <1>7, <1>8 DEF Next

\* What is noted of an overlap stays noted.
LEMMA OverlapStays == TypeOK /\ [Next]_vars /\ ~overlapped' => ~overlapped
  BY DEF Next, vars, loopVars, Start, Enqueue, SubmitTask, LaunchConsumer, FinishPassive,
         Consume, DispatchPassive, TakeActive, AcquireLock, FinishActive, ActiveRaises,
         UnwindActive, CancelInGet, CancelInLock, Leave, Stop, StopProceeds,
         StopNotStarted, StopCancels, StopJoins, StopRaises, StopGathers

\* The invariant of a scheduler whose callers have not started it while it stops.
THEOREM OwnerInvariance == Spec => [](~overlapped => StopInv /\ OwnerInv)
<1>1. TypeOK /\ IInv /\ (~overlapped => StopInv /\ OwnerInv) /\ [Next]_vars
         => (~overlapped => StopInv /\ OwnerInv)'
  BY NextOwner, OverlapStays
<1>2. Init => (~overlapped => StopInv /\ OwnerInv)
  BY InitOwner
<1> QED
  BY <1>1, <1>2, Invariance, PTL DEF Spec

\* stop() can always reach the consumer there is, unless the loop was started while
\* a stop() was suspended (loop.py:44-52).
THEOREM ConsumerIsReachable == Spec => []OneConsumer
<1>1. (~overlapped => StopInv /\ OwnerInv) => OneConsumer
  BY DEF OwnerInv, OneConsumer
<1> QED
  BY <1>1, OwnerInvariance, PTL

\* No active task is lost between the queue and its execution, with the same
\* exception: the lock is free whenever the consumer asks for it (loop.py:70-78).
THEOREM NoTaskGivenUp == Spec => []NothingDropped
<1>1. (~overlapped => StopInv /\ OwnerInv) => NothingDropped
  BY DEF OwnerInv, NothingDropped
<1> QED
  BY <1>1, OwnerInvariance, PTL

\* After stop() nothing is left: no consumer, no query, with the same exception
\* (loop.py:36-56).
THEOREM StopLeavesNothing == Spec => []OrderlyShutdown
<1>1. (~overlapped => StopInv /\ OwnerInv) => OrderlyShutdown
  <2> SUFFICES ASSUME StopInv, OwnerInv, ~started, ~Stopping,
                      \A s \in Stops : stopPc[s] # "raised"
               PROVE  background = {} /\ \A c \in Consumers : ~Live(c)
    BY DEF OrderlyShutdown, StoppedCleanly
  <2>1. background = {}
    BY DEF StopInv
  <2>2. \A c \in Consumers : ~Live(c)
    BY DEF OwnerInv, Reachable, Live, Joining, Stopping, None, Consumers
  <2> QED
    BY <2>1, <2>2
<1> QED
  BY <1>1, OwnerInvariance, PTL

-----------------------------------------------------------------------------
(***************************************************************************)
(* The scheduler implements TaskService: every step of a coroutine or of a *)
(* caller is, seen through StatusOf, a submission, a beginning, an end or  *)
(* a loss of one task, or no step at all.                                  *)
(***************************************************************************)

USE ConstantsAssumption DEF loopVars, consVars, stopVars, histVars

-----------------------------------------------------------------------------
(* How the status of one task changes                                      *)

\* The abstract status array changes at one task.
LEMMA OneStatusChanges ==
    ASSUME NEW t \in Tasks, NEW x, StatusOf(t)' = x,
           \A u \in Tasks : u # t => StatusOf(u)' = StatusOf(u)
    PROVE  taskStatus' = [taskStatus EXCEPT ![t] = x]
  BY DEF taskStatus

\* A step that changes no status and submits nothing is a stutter of the service.
LEMMA NoStatusChanges ==
    ASSUME ticket' = ticket, \A u \in Tasks : StatusOf(u)' = StatusOf(u)
    PROVE  UNCHANGED Service!vars
  <1>1. taskStatus' = taskStatus
    BY DEF taskStatus
  <1>2. submitted' = submitted /\ waitOrder' = waitOrder
    BY DEF submitted, waitOrder
  <1> QED BY <1>1, <1>2 DEF Service!vars

\* A task that ends leaves what is pending, and its order, as it is.
LEMMA NotPending ==
    ASSUME NEW t \in Tasks, StatusOf(t) # "pending", StatusOf(t)' # "pending",
           ticket' = ticket, \A u \in Tasks : u # t => StatusOf(u)' = StatusOf(u)
    PROVE  submitted' = submitted /\ waitOrder' = waitOrder
  BY DEF submitted, waitOrder

\* A task that begins, or is lost, leaves the order of the others.
LEMMA LeavesOrder ==
    ASSUME NEW t \in Tasks, StatusOf(t)' # "pending",
           ticket' = ticket, \A u \in Tasks : u # t => StatusOf(u)' = StatusOf(u)
    PROVE  submitted' = submitted /\ Service!Leave(t)
  <1>1. submitted' = submitted
    BY DEF submitted
  <1>2. waitOrder' = {p \in waitOrder : p[1] # t /\ p[2] # t}
    BY DEF waitOrder
  <1> QED BY <1>1, <1>2 DEF Service!Leave

\* A step of consumer c leaves alone the status of a task that c does not hold
\* before or after it.
LEMMA OthersKeepStatus ==
    ASSUME NEW c \in Consumers, NEW u \in Tasks,
           holds[c] # u, holds'[c] # u,
           \A d \in Consumers : d # c => /\ pc'[d] = pc[d] /\ holds'[d] = holds[d]
                                         /\ cancelled'[d] = cancelled[d],
           u \in background <=> u \in background',
           ticket'[u] = ticket[u], ended'[u] = ended[u]
    PROVE  StatusOf(u)' = StatusOf(u)
  <1>1. GivenUp(u)' <=> GivenUp(u)
    BY DEF GivenUp
  <1>2. Executing(u)' <=> Executing(u)
    BY DEF Executing
  <1> QED BY <1>1, <1>2 DEF StatusOf

\* A held task has the status that its one holder's place gives it.
LEMMA HeldStatus ==
    ASSUME TypeOK, IInv, NEW c \in Consumers, Holding(c)
    PROVE  /\ holds[c] \in Tasks /\ holds[c] \in Active
           /\ pc[c] = "execute" => StatusOf(holds[c]) = "running"
           /\ pc[c] = "lock" => StatusOf(holds[c]) =
                                   IF cancelled[c] THEN "lost" ELSE "pending"
  <1>1. /\ holds[c] \in Active /\ holds[c] \in Tasks /\ holds[c] \notin background
        /\ ticket[holds[c]] # 0 /\ ended[holds[c]] = "no"
    BY DEF IInv, HoldInv, TypeOK, Active
  <1>2. \A d \in Consumers : Holding(d) /\ holds[d] = holds[c] => d = c
    BY DEF IInv, HoldInv
  <1>3. GivenUp(holds[c]) <=> pc[c] = "lock" /\ cancelled[c]
    BY <1>2 DEF GivenUp, Holding
  <1>4. Executing(holds[c]) <=> pc[c] = "execute"
    BY <1>1, <1>2 DEF Executing, Holding
  <1> QED BY <1>1, <1>3, <1>4 DEF StatusOf

\* A queued task is pending, and nobody holds it.
LEMMA QueuedStatus ==
    ASSUME TypeOK, IInv, NEW i \in DOMAIN queue
    PROVE  /\ queue[i] \in Tasks /\ StatusOf(queue[i]) = "pending"
           /\ queue[i] \notin background
           /\ \A d \in Consumers : Holding(d) => holds[d] # queue[i]
  <1>1. queue[i] \in Tasks /\ ticket[queue[i]] \in Nat
    BY DEF TypeOK
  <1>2. ticket[queue[i]] # 0 /\ ended[queue[i]] = "no"
    BY DEF IInv, QueueInv
  <1>3. queue[i] \notin background
    <2> SUFFICES ASSUME queue[i] \in background PROVE FALSE
      OBVIOUS
    <2>1. ticket[queue[i]] < ticket[queue[i]]
      BY DEF IInv, QueueInv
    <2> QED BY <2>1, <1>1
  <1>4. \A d \in Consumers : Holding(d) => holds[d] # queue[i]
    <2> SUFFICES ASSUME NEW d \in Consumers, Holding(d), holds[d] = queue[i]
                 PROVE  FALSE
      OBVIOUS
    <2>1. ticket[queue[i]] < ticket[queue[i]]
      BY DEF IInv, HoldInv
    <2> QED BY <2>1, <1>1
  <1> QED BY <1>1, <1>2, <1>3, <1>4 DEF StatusOf, GivenUp, Executing, Holding

\* A query in the background is running.
LEMMA BackgroundStatus ==
    ASSUME TypeOK, IInv, NEW t \in background
    PROVE  /\ t \in Tasks /\ t \notin Active /\ StatusOf(t) = "running"
           /\ \A d \in Consumers : holds[d] # t
  <1>1. t \in Tasks /\ t \in Passive
    BY DEF TypeOK
  <1>2. ticket[t] # 0 /\ ended[t] = "no"
    BY DEF IInv, QueueInv
  <1>3. \A d \in Consumers : holds[d] # t
    BY <1>1 DEF TypeOK, Active
  <1> QED BY <1>1, <1>2, <1>3 DEF StatusOf, GivenUp, Executing, Active

-----------------------------------------------------------------------------
(* Each step of the scheduler, seen as a step of the service               *)

\* Submitting a task, whether or not a consumer is created with it.
LEMMA PutRefines ==
    ASSUME TypeOK, IInv, SamePlaces, NEW t \in Tasks, Put(t),
           UNCHANGED <<cancelled, holds, background>>
    PROVE  Service!Submit(t)
  <1>1. /\ ticket[t] = 0 /\ ended[t] = "no" /\ issued \in Nat
        /\ ended' = ended /\ issued' = issued + 1
        /\ ticket' = [ticket EXCEPT ![t] = issued + 1]
        /\ \A u \in Tasks : ticket'[u] = IF u = t THEN issued + 1 ELSE ticket[u]
    BY DEF Put, TypeOK, IInv, QueueInv
  <1>2. \A u \in Tasks : /\ GivenUp(u)' <=> GivenUp(u)
                         /\ Executing(u)' <=> Executing(u)
    BY DEF SamePlaces, GivenUp, Executing
  <1>3. ~GivenUp(t) /\ ~Executing(t)
    BY <1>1 DEF GivenUp, Executing, IInv, HoldInv, QueueInv, Holding
  <1>4. \A u \in Tasks : u # t => StatusOf(u)' = StatusOf(u)
    BY <1>1, <1>2 DEF StatusOf
  <1>5. StatusOf(t) = "new" /\ StatusOf(t)' = "pending"
    BY <1>1, <1>2, <1>3 DEF StatusOf
  <1>6. taskStatus' = [taskStatus EXCEPT ![t] = "pending"] /\ taskStatus[t] = "new"
    BY <1>4, <1>5, OneStatusChanges DEF taskStatus
  <1>7. submitted' \in {submitted, submitted \cup {t}}
    <2>1. submitted' = IF t \in Active THEN submitted \cup {t} ELSE submitted
      BY <1>1 DEF submitted, Active
    <2> QED BY <2>1
  <1>8. waitOrder' = waitOrder \cup (Service!Pending \X {t})
    <2>1. \A u \in Tasks : StatusOf(u)' = "pending" <=> StatusOf(u) = "pending" \/ u = t
      BY <1>4, <1>5
    <2>2. \A u \in Tasks : ticket[u] \in Nat /\ ticket[u] < issued + 1
      BY <1>1 DEF TypeOK, IInv, QueueInv
    <2>3. \A u \in Tasks : ticket'[u] < issued + 1 <=> u # t
      BY <1>1, <2>2
    <2>4. \A u, v \in Tasks :
             StatusOf(u)' = "pending" /\ StatusOf(v)' = "pending" /\ ticket'[u] < ticket'[v]
             <=> \/ StatusOf(u) = "pending" /\ StatusOf(v) = "pending"
                    /\ ticket[u] < ticket[v]
                 \/ StatusOf(u) = "pending" /\ v = t
      <3> TAKE u, v \in Tasks
      <3>1. CASE v = t
        BY <1>1, <1>5, <2>1, <2>2, <3>1
      <3>2. CASE v # t /\ u = t
        BY <1>1, <1>5, <2>1, <2>2, <3>2
      <3>3. CASE v # t /\ u # t
        BY <1>1, <2>1, <3>3
      <3> QED BY <3>1, <3>2, <3>3
    <2>5. Service!Pending = {u \in Tasks : StatusOf(u) = "pending"}
      BY DEF Service!Pending, taskStatus
    <2> QED BY <2>4, <2>5 DEF waitOrder
  <1> QED BY <1>6, <1>7, <1>8 DEF Service!Submit

\* A query begins as soon as it is dequeued.
LEMMA DispatchPassiveRefines ==
    ASSUME TypeOK, IInv, NEW c \in Consumers, DispatchPassive(c)
    PROVE  \E t \in Tasks : Service!Begin(t)
  <1>1. 1 \in DOMAIN queue /\ Head(queue) = queue[1] /\ Head(queue) \in Tasks
    BY TailFacts DEF DispatchPassive, TypeOK
  <1>2. PICK t \in Tasks : t = Head(queue)
    BY <1>1
  <1>3. /\ background' = background \cup {t} /\ t \in Passive
        /\ UNCHANGED <<pc, cancelled, holds, ended, ticket, issued>>
    BY <1>2 DEF DispatchPassive
  <1>4. StatusOf(t) = "pending"
    BY <1>1, <1>2, QueuedStatus
  <1>5. ticket[t] # 0 /\ ended[t] = "no"
    BY <1>1, <1>2 DEF IInv, QueueInv
  <1>6. \A u \in Tasks : GivenUp(u)' <=> GivenUp(u)
    BY <1>3 DEF GivenUp
  <1>7. \A u \in Tasks : u # t => StatusOf(u)' = StatusOf(u)
    <2> TAKE u \in Tasks
    <2> HAVE u # t
    <2>1. Executing(u)' <=> Executing(u)
      BY <1>3 DEF Executing
    <2> QED BY <1>3, <1>6, <2>1 DEF StatusOf
  <1>8. StatusOf(t)' = "running"
    <2>1. Executing(t)'
      BY <1>3 DEF Executing
    <2>2. ~GivenUp(t)
      BY <1>4, <1>5 DEF StatusOf
    <2> QED BY <2>1, <2>2, <1>3, <1>5, <1>6 DEF StatusOf
  <1>9. taskStatus' = [taskStatus EXCEPT ![t] = "running"] /\ taskStatus[t] = "pending"
    BY <1>4, <1>7, <1>8, OneStatusChanges DEF taskStatus
  <1>10. submitted' = submitted /\ Service!Leave(t)
    BY <1>3, <1>7, <1>8, LeavesOrder
  <1>11. t \notin submitted
    BY <1>3 DEF submitted, Active
  <1> QED BY <1>9, <1>10, <1>11 DEF Service!Begin

\* The guard of Begin: while the lock has no owner no active task is running,
\* and every pending one is in the queue or waits for the lock uncancelled.
LEMMA UnownedLock ==
    ASSUME TypeOK, IInv, lockOwner = None, NEW u \in Active
    PROVE  /\ u \in Tasks /\ StatusOf(u) # "running"
           /\ StatusOf(u) = "pending" =>
                 \/ Queued(u)
                 \/ \E i \in DOMAIN lockWaiters : /\ ~cancelled[lockWaiters[i]]
                                                  /\ holds[lockWaiters[i]] = u
  <1>1. \A d \in Consumers : pc[d] # "execute"
    BY DEF IInv, LockInv, None, Consumers
  <1>2. u \in Tasks /\ u \notin background
    BY DEF Active, TypeOK
  <1>3. ~Executing(u)
    BY <1>1, <1>2 DEF Executing
  <1>4. ASSUME StatusOf(u) = "pending", ~Queued(u)
        PROVE  \E i \in DOMAIN lockWaiters : /\ ~cancelled[lockWaiters[i]]
                                             /\ holds[lockWaiters[i]] = u
    <2>1. ticket[u] # 0 /\ ended[u] = "no" /\ ~GivenUp(u)
      BY <1>4 DEF StatusOf
    <2>2. PICK d \in Consumers : Holding(d) /\ holds[d] = u
      BY <1>2, <1>4, <2>1 DEF IInv, PlaceInv
    <2>3. pc[d] = "lock" /\ ~cancelled[d]
      BY <1>1, <2>1, <2>2 DEF Holding, GivenUp
    <2>4. \E i \in DOMAIN lockWaiters : lockWaiters[i] = d
      BY <2>3 DEF IInv, LockInv
    <2> QED BY <2>2, <2>3, <2>4
  <1>5. StatusOf(u) # "running"
    BY <1>3 DEF StatusOf
  <1> QED BY <1>2, <1>4, <1>5

\* An active task begins when it is dequeued and the lock is free, and is still
\* pending when it has to wait for the lock.
LEMMA TakeActiveRefines ==
    ASSUME TypeOK, IInv, NEW c \in Consumers, TakeActive(c)
    PROVE  \/ \E t \in Tasks : Service!Begin(t)
           \/ UNCHANGED Service!vars
  <1>1. 1 \in DOMAIN queue /\ Head(queue) = queue[1] /\ Head(queue) \in Tasks
    BY TailFacts DEF TakeActive, TypeOK
  <1>2. PICK t \in Tasks : t = Head(queue)
    BY <1>1
  <1>3. /\ t \in Active /\ pc[c] = "get" /\ ~cancelled[c]
        /\ \A d \in Consumers : /\ d # c => pc'[d] = pc[d] /\ holds'[d] = holds[d]
                                /\ holds'[c] = t
        /\ UNCHANGED <<cancelled, background, ended, ticket, issued>>
    BY <1>2 DEF TakeActive, TypeOK
  <1>4. /\ StatusOf(t) = "pending" /\ t \notin background
        /\ \A d \in Consumers : Holding(d) => holds[d] # t
    BY <1>1, <1>2, QueuedStatus
  <1>5. /\ ticket[t] # 0 /\ ended[t] = "no" /\ ticket[t] \in Nat
        /\ \A i \in DOMAIN queue : /\ queue[i] \in Tasks
                                   /\ ticket[t] <= ticket[queue[i]]
    <2>1. /\ \A i \in DOMAIN queue : i \in Nat /\ i >= 1 /\ queue[i] \in Tasks
          /\ ticket[t] \in Nat
      BY <1>1, TailFacts DEF TypeOK, TakeActive
    <2>2. \A i \in DOMAIN queue : i # 1 => 1 < i
      BY <2>1
    <2>3. ticket[t] # 0 /\ ended[t] = "no"
      BY <1>1, <1>2 DEF IInv, QueueInv
    <2>4. ASSUME NEW i \in DOMAIN queue PROVE ticket[t] <= ticket[queue[i]]
      <3>1. CASE i = 1
        BY <3>1, <1>1, <1>2, <2>1
      <3>2. CASE i # 1
        <4>1. ticket[queue[1]] < ticket[queue[i]]
          BY <3>2, <1>1, <2>2 DEF IInv, QueueInv
        <4>2. ticket[queue[i]] \in Nat
          BY <2>1 DEF TypeOK
        <4> QED BY <4>1, <4>2, <1>1, <1>2, <2>1
      <3> QED BY <3>1, <3>2
    <2> QED BY <2>1, <2>3, <2>4
  <1>6. \A d \in Consumers : ~Holding(d) => holds[d] # t
    BY DEF IInv, HoldInv
  <1>7. \A u \in Tasks : u # t => StatusOf(u)' = StatusOf(u)
    <2> TAKE u \in Tasks
    <2> HAVE u # t
    <2>1. holds[c] = NoTask
      BY <1>3 DEF IInv, HoldInv, Holding
    <2> QED BY <2>1, <1>3, OthersKeepStatus
  <1>8. CASE LockIsFree /\ pc'[c] = "execute"
    <2>1. StatusOf(t)' = "running"
      <3>1. Executing(t)'
        BY <1>3, <1>8 DEF Executing
      <3>2. ~GivenUp(t)'
        BY <1>3, <1>4, <1>6, <1>8 DEF GivenUp
      <3> QED BY <3>1, <3>2, <1>3, <1>5 DEF StatusOf
    <2>2. taskStatus' = [taskStatus EXCEPT ![t] = "running"] /\ taskStatus[t] = "pending"
      BY <1>4, <1>7, <2>1, OneStatusChanges DEF taskStatus
    <2>3. ASSUME NEW u \in Active
          PROVE  /\ taskStatus[u] # "running"
                 /\ ticket[u] < ticket[t] => taskStatus[u] # "pending"
      <3>1. /\ u \in Tasks /\ StatusOf(u) # "running"
            /\ StatusOf(u) = "pending" => Queued(u)
        BY <1>8, UnownedLock DEF LockIsFree
      <3>2. ticket[u] \in Nat
        BY <3>1 DEF TypeOK
      <3>3. Queued(u) => ~(ticket[u] < ticket[t])
        BY <3>2, <1>5 DEF Queued
      <3> QED BY <3>1, <3>3 DEF taskStatus
    <2>4. \A u \in submitted : taskStatus[u] # "running" /\ <<u, t>> \notin waitOrder
      BY <2>3 DEF submitted, waitOrder, taskStatus
    <2>5. submitted' = submitted /\ Service!Leave(t)
      BY <1>3, <1>7, <2>1, LeavesOrder
    <2> QED BY <2>2, <2>4, <2>5 DEF Service!Begin
  <1>9. CASE pc'[c] = "lock"
    <2>1. ~Executing(t)' /\ ~GivenUp(t)'
      BY <1>3, <1>4, <1>6, <1>9 DEF Executing, GivenUp, Holding
    <2>2. StatusOf(t)' = "pending"
      BY <2>1, <1>3, <1>5 DEF StatusOf
    <2> QED BY <2>2, <1>3, <1>4, <1>7, NoStatusChanges
  <1> QED BY <1>8, <1>9 DEF TakeActive, TypeOK

\* An active task that waited begins: it is the oldest one not given up.
LEMMA AcquireLockRefines ==
    ASSUME TypeOK, IInv, NEW c \in Consumers, AcquireLock(c)
    PROVE  \E t \in Tasks : Service!Begin(t)
  <1>1. /\ pc[c] = "lock" /\ ~cancelled[c] /\ lockOwner = None
        /\ lockWaiters # <<>> /\ Head(lockWaiters) = c
        /\ \A d \in Consumers : pc'[d] = IF d = c THEN "execute" ELSE pc[d]
        /\ UNCHANGED <<queue, cancelled, holds, background, ended, ticket, issued>>
    BY DEF AcquireLock, TypeOK
  <1>2. PICK t \in Tasks : t = holds[c]
    BY <1>1, HeldStatus DEF Holding
  <1>3. /\ t \in Active /\ StatusOf(t) = "pending" /\ ticket[t] \in Nat
        /\ ticket[t] # 0 /\ ended[t] = "no"
        /\ \A i \in DOMAIN queue : ticket[t] < ticket[queue[i]]
    BY <1>1, <1>2, HeldStatus DEF Holding, IInv, HoldInv, TypeOK
  <1>4. \A d \in Consumers : Holding(d) /\ holds[d] = t => d = c
    BY <1>1, <1>2 DEF IInv, HoldInv, Holding
  <1>5. \A u \in Tasks : u # t => StatusOf(u)' = StatusOf(u)
    BY <1>1, <1>2, OthersKeepStatus
  <1>6. StatusOf(t)' = "running"
    <2>1. Executing(t)'
      BY <1>1, <1>2 DEF Executing
    <2>2. ~GivenUp(t)'
      BY <1>1, <1>4 DEF GivenUp, Holding
    <2> QED BY <2>1, <2>2, <1>1, <1>3 DEF StatusOf
  <1>7. taskStatus' = [taskStatus EXCEPT ![t] = "running"] /\ taskStatus[t] = "pending"
    BY <1>3, <1>5, <1>6, OneStatusChanges DEF taskStatus
  <1>8. ASSUME NEW u \in Active
        PROVE  /\ taskStatus[u] # "running"
               /\ ticket[u] < ticket[t] => taskStatus[u] # "pending"
    <2>1. /\ u \in Tasks /\ StatusOf(u) # "running"
          /\ StatusOf(u) = "pending" =>
                \/ Queued(u)
                \/ \E i \in DOMAIN lockWaiters : holds[lockWaiters[i]] = u
      BY <1>1, UnownedLock
    <2>2. ticket[u] \in Nat
      BY <2>1 DEF TypeOK
    <2>3. Queued(u) => ~(ticket[u] < ticket[t])
      BY <2>2, <1>3 DEF Queued
    <2>4. ASSUME NEW i \in DOMAIN lockWaiters, holds[lockWaiters[i]] = u
          PROVE  ~(ticket[u] < ticket[t])
      <3>1. /\ 1 \in DOMAIN lockWaiters /\ lockWaiters[1] = c
            /\ i \in Nat /\ i >= 1
        BY <1>1, TailFacts DEF TypeOK
      <3>2. CASE i = 1
        BY <3>1, <3>2, <2>4, <1>2, <1>3
      <3>3. CASE i # 1
        <4>1. 1 < i
          BY <3>1, <3>3
        <4>2. ticket[t] < ticket[u]
          BY <4>1, <3>1, <2>4, <1>2 DEF IInv, LockInv
        <4> QED BY <4>2, <2>2, <1>3
      <3> QED BY <3>2, <3>3
    <2> QED BY <2>1, <2>3, <2>4 DEF taskStatus
  <1>9. \A u \in submitted : taskStatus[u] # "running" /\ <<u, t>> \notin waitOrder
    BY <1>8 DEF submitted, waitOrder, taskStatus
  <1>10. submitted' = submitted /\ Service!Leave(t)
    BY <1>1, <1>5, <1>6, LeavesOrder
  <1> QED BY <1>7, <1>9, <1>10 DEF Service!Begin

\* However execute() is left, the task it ran is over.
LEMMA LeaveRefines ==
    ASSUME TypeOK, IInv, NEW c \in Consumers,
           NEW how \in {"finished", "raised", "cancelled"},
           NEW next \in {"get", "failed", "cancelled"},
           Leave(c, how, next)
    PROVE  \E t \in Tasks : Service!End(t)
  <1>1. pc[c] = "execute"
    BY DEF Leave
  <1>2. PICK t \in Tasks : t = holds[c]
    BY <1>1, HeldStatus DEF Holding
  <1>3. StatusOf(t) = "running" /\ ticket[t] # 0 /\ t \in Active
    BY <1>1, <1>2, HeldStatus DEF Holding, IInv, HoldInv
  <1>4. /\ \A d \in Consumers : /\ d # c => pc'[d] = pc[d] /\ holds'[d] = holds[d]
                                /\ holds'[c] = NoTask
        /\ \A u \in Tasks : ended'[u] = IF u = t THEN how ELSE ended[u]
        /\ UNCHANGED <<cancelled, background, ticket, issued>>
    BY <1>2 DEF Leave, TypeOK
  <1>5. \A u \in Tasks : u # t => StatusOf(u)' = StatusOf(u)
    BY <1>2, <1>4, OthersKeepStatus
  <1>6. StatusOf(t)' = "over"
    <2>1. \A d \in Consumers : Holding(d) /\ holds[d] = t => d = c
      BY <1>1, <1>2 DEF IInv, HoldInv, Holding
    <2>2. ~GivenUp(t)'
      BY <2>1, <1>4 DEF GivenUp, Holding
    <2> QED BY <2>2, <1>3, <1>4 DEF StatusOf
  <1>7. taskStatus' = [taskStatus EXCEPT ![t] = "over"] /\ taskStatus[t] = "running"
    BY <1>3, <1>5, <1>6, OneStatusChanges DEF taskStatus
  <1>8. submitted' = submitted /\ waitOrder' = waitOrder
    BY <1>3, <1>4, <1>5, <1>6, NotPending
  <1> QED BY <1>7, <1>8 DEF Service!End

\* A query that returns is over.
LEMMA FinishPassiveRefines ==
    ASSUME TypeOK, IInv, NEW t \in Tasks, FinishPassive(t)
    PROVE  Service!End(t)
  <1>1. /\ t \in background /\ background' = background \ {t}
        /\ \A u \in Tasks : ended'[u] = IF u = t THEN "finished" ELSE ended[u]
        /\ UNCHANGED <<pc, cancelled, holds, ticket, issued>>
    BY DEF FinishPassive, TypeOK
  <1>2. /\ StatusOf(t) = "running" /\ ticket[t] # 0
        /\ \A d \in Consumers : holds[d] # t
    BY <1>1, BackgroundStatus DEF IInv, QueueInv
  <1>3. \A u \in Tasks : GivenUp(u)' <=> GivenUp(u)
    BY <1>1 DEF GivenUp
  <1>4. \A u \in Tasks : u # t => StatusOf(u)' = StatusOf(u)
    <2> TAKE u \in Tasks
    <2> HAVE u # t
    <2>1. Executing(u)' <=> Executing(u)
      BY <1>1 DEF Executing
    <2> QED BY <1>1, <1>3, <2>1 DEF StatusOf
  <1>5. StatusOf(t)' = "over"
    <2>1. ~GivenUp(t)
      BY <1>2 DEF GivenUp
    <2> QED BY <2>1, <1>1, <1>2, <1>3 DEF StatusOf
  <1>6. taskStatus' = [taskStatus EXCEPT ![t] = "over"] /\ taskStatus[t] = "running"
    BY <1>2, <1>4, <1>5, OneStatusChanges DEF taskStatus
  <1>7. submitted' = submitted /\ waitOrder' = waitOrder
    BY <1>1, <1>2, <1>4, <1>5, NotPending
  <1> QED BY <1>6, <1>7 DEF Service!End

\* stop() gives up the task of a consumer that waits for the lock ...
LEMMA StopCancelsRefines ==
    ASSUME TypeOK, IInv, NEW s \in Stops, StopCancels(s)
    PROVE  \/ \E t \in Tasks : Service!Lose(t)
           \/ UNCHANGED Service!vars
  <1>1. UNCHANGED <<pc, holds, background, ended, ticket, issued>>
    BY DEF StopCancels
  <1>2. \A u \in Tasks : Executing(u)' <=> Executing(u)
    BY <1>1 DEF Executing
  <1>3. CASE cancelled' = cancelled
    <2>1. \A u \in Tasks : GivenUp(u)' <=> GivenUp(u)
      BY <1>1, <1>3 DEF GivenUp
    <2>2. \A u \in Tasks : StatusOf(u)' = StatusOf(u)
      BY <1>1, <1>2, <2>1 DEF StatusOf
    <2> QED BY <1>1, <2>2, NoStatusChanges
  <1>4. CASE consumerTask # None /\ cancelled' = [cancelled EXCEPT ![consumerTask] = TRUE]
    <2>1. PICK c \in Consumers : c = consumerTask
      BY <1>4 DEF TypeOK
    <2>2. \A d \in Consumers : cancelled'[d] = (IF d = c THEN TRUE ELSE cancelled[d])
      BY <1>4, <2>1 DEF TypeOK
    <2>3. CASE pc[c] # "lock"
      <3>1. \A u \in Tasks : GivenUp(u)' <=> GivenUp(u)
        BY <1>1, <2>2, <2>3 DEF GivenUp
      <3>2. \A u \in Tasks : StatusOf(u)' = StatusOf(u)
        BY <1>1, <1>2, <3>1 DEF StatusOf
      <3> QED BY <1>1, <3>2, NoStatusChanges
    <2>4. CASE pc[c] = "lock" /\ cancelled[c]
      <3>1. \A u \in Tasks : GivenUp(u)' <=> GivenUp(u)
        BY <1>1, <2>2, <2>4 DEF GivenUp
      <3>2. \A u \in Tasks : StatusOf(u)' = StatusOf(u)
        BY <1>1, <1>2, <3>1 DEF StatusOf
      <3> QED BY <1>1, <3>2, NoStatusChanges
    <2>5. CASE pc[c] = "lock" /\ ~cancelled[c]
      <3>1. PICK t \in Tasks : t = holds[c]
        BY <2>5, HeldStatus DEF Holding
      <3>2. StatusOf(t) = "pending" /\ ticket[t] # 0
        BY <2>5, <3>1, HeldStatus DEF Holding, IInv, HoldInv
      <3>3. \A u \in Tasks : u # t => (GivenUp(u)' <=> GivenUp(u))
        BY <1>1, <2>2, <3>1 DEF GivenUp
      <3>4. \A u \in Tasks : u # t => StatusOf(u)' = StatusOf(u)
        BY <1>1, <1>2, <3>3 DEF StatusOf
      <3>5. GivenUp(t)'
        BY <1>1, <2>2, <2>5, <3>1 DEF GivenUp
      <3>6. StatusOf(t)' = "lost"
        BY <1>1, <3>2, <3>5 DEF StatusOf
      <3>7. taskStatus' = [taskStatus EXCEPT ![t] = "lost"] /\ taskStatus[t] = "pending"
        BY <3>2, <3>4, <3>6, OneStatusChanges DEF taskStatus
      <3>8. submitted' = submitted /\ Service!Leave(t)
        BY <1>1, <3>4, <3>6, LeavesOrder
      <3> QED BY <3>7, <3>8 DEF Service!Lose
    <2> QED BY <2>3, <2>4, <2>5
  <1> QED BY <1>3, <1>4 DEF StopCancels

\* ... and when that consumer unwinds, nothing more is lost.
LEMMA CancelInLockRefines ==
    ASSUME TypeOK, IInv, NEW c \in Consumers, CancelInLock(c)
    PROVE  UNCHANGED Service!vars
  <1>1. pc[c] = "lock" /\ cancelled[c]
    BY DEF CancelInLock
  <1>2. PICK t \in Tasks : t = holds[c]
    BY <1>1, HeldStatus DEF Holding
  <1>3. StatusOf(t) = "lost" /\ ticket[t] # 0
    BY <1>1, <1>2, HeldStatus DEF Holding, IInv, HoldInv
  <1>4. /\ \A d \in Consumers : /\ d # c => pc'[d] = pc[d] /\ holds'[d] = holds[d]
                                /\ holds'[c] = NoTask
        /\ \A u \in Tasks : ended'[u] = IF u = t THEN "dropped" ELSE ended[u]
        /\ UNCHANGED <<cancelled, background, ticket, issued>>
    BY <1>2 DEF CancelInLock, TypeOK
  <1>5. \A u \in Tasks : u # t => StatusOf(u)' = StatusOf(u)
    BY <1>2, <1>4, OthersKeepStatus
  <1>6. StatusOf(t)' = "lost"
    BY <1>3, <1>4 DEF StatusOf
  <1> QED BY <1>3, <1>4, <1>5, <1>6, NoStatusChanges

\* Steps that no task's status depends on.
LEMMA QuietRefines ==
    ASSUME SamePlaces, UNCHANGED <<cancelled, holds, background, ended, ticket, issued>>
    PROVE  UNCHANGED Service!vars
  <1>1. \A u \in Tasks : /\ GivenUp(u)' <=> GivenUp(u)
                         /\ Executing(u)' <=> Executing(u)
    BY DEF SamePlaces, GivenUp, Executing
  <1>2. \A u \in Tasks : StatusOf(u)' = StatusOf(u)
    BY <1>1 DEF StatusOf
  <1> QED BY <1>2, NoStatusChanges

-----------------------------------------------------------------------------

\* Initially every task is new to the service.
LEMMA InitRefines == Init => Service!Init
  <1> SUFFICES ASSUME Init PROVE Service!Init
    OBVIOUS
  <1>1. \A t \in Tasks : ticket[t] = 0 /\ StatusOf(t) = "new"
    BY DEF Init, StatusOf
  <1>2. taskStatus = [t \in Tasks |-> "new"]
    BY <1>1 DEF taskStatus
  <1>3. submitted = {} /\ waitOrder = {}
    BY <1>1 DEF submitted, waitOrder, Active
  <1> QED BY <1>2, <1>3 DEF Service!Init

\* Every step of the scheduler is a step of the service, or a stutter.
LEMMA NextRefines == TypeOK /\ IInv /\ [Next]_vars => [Service!Next]_(Service!vars)
  <1> SUFFICES ASSUME TypeOK, IInv, [Next]_vars
               PROVE  Service!Next \/ UNCHANGED Service!vars
    OBVIOUS
  <1>1. CASE Start
    BY <1>1, LaunchIsQuiet, QuietRefines DEF Start, LaunchConsumer, IInv
  <1>2. ASSUME NEW t \in Tasks, Enqueue(t) PROVE Service!Next
    <2>1. SamePlaces
      BY <1>2 DEF Enqueue, SamePlaces
    <2> QED BY <1>2, <2>1, PutRefines DEF Enqueue, Service!Next
  <1>3. ASSUME NEW t \in Tasks, SubmitTask(t) PROVE Service!Next
    <2>1. SamePlaces /\ UNCHANGED <<cancelled, holds, background>>
      <3>1. CASE started
        BY <1>3, <3>1 DEF SubmitTask, SamePlaces
      <3>2. CASE ~started
        BY <1>3, <3>2, LaunchIsQuiet DEF SubmitTask, LaunchConsumer, IInv
      <3> QED BY <3>1, <3>2
    <2> QED BY <1>3, <2>1, PutRefines DEF SubmitTask, Service!Next
  <1>4. ASSUME NEW t \in Tasks, FinishPassive(t) PROVE Service!Next
    BY <1>4, FinishPassiveRefines DEF Service!Next
  <1>5. ASSUME NEW c \in Consumers, DispatchPassive(c) PROVE Service!Next
    BY <1>5, DispatchPassiveRefines DEF Service!Next
  <1>6. ASSUME NEW c \in Consumers, TakeActive(c)
        PROVE  Service!Next \/ UNCHANGED Service!vars
    BY <1>6, TakeActiveRefines DEF Service!Next
  <1>7. ASSUME NEW c \in Consumers, AcquireLock(c) PROVE Service!Next
    BY <1>7, AcquireLockRefines DEF Service!Next
  <1>8. ASSUME NEW c \in Consumers, FinishActive(c) \/ ActiveRaises(c) \/ UnwindActive(c)
        PROVE  Service!Next
    BY <1>8, LeaveRefines DEF FinishActive, ActiveRaises, UnwindActive, Service!Next
  <1>9. ASSUME NEW c \in Consumers, CancelInGet(c) PROVE UNCHANGED Service!vars
    <2>1. SamePlaces
      BY <1>9 DEF CancelInGet, SamePlaces, TypeOK
    <2> QED BY <1>9, <2>1, QuietRefines DEF CancelInGet
  <1>10. ASSUME NEW c \in Consumers, CancelInLock(c) PROVE UNCHANGED Service!vars
    BY <1>10, CancelInLockRefines
  <1>11. ASSUME NEW s \in Stops, StopCancels(s)
         PROVE  Service!Next \/ UNCHANGED Service!vars
    BY <1>11, StopCancelsRefines DEF Service!Next
  <1>12. ASSUME NEW s \in Stops, StopNotStarted(s) \/ StopProceeds(s)
         PROVE  UNCHANGED Service!vars
    <2>1. SamePlaces /\ UNCHANGED <<cancelled, holds, background, ended, ticket, issued>>
      BY <1>12 DEF StopProceeds, StopNotStarted, StopJoins, StopRaises, StopGathers,
                   SamePlaces
    <2> QED BY <2>1, QuietRefines
  <1>13. CASE UNCHANGED vars
    <2>1. SamePlaces
      BY <1>13 DEF vars, SamePlaces
    <2> QED BY <1>13, <2>1, QuietRefines DEF vars
  <1> QED
    BY <1>1, <1>2, <1>3, <1>4, <1>5, <1>6, <1>7, <1>8, <1>9, <1>10, <1>11, <1>12,
       <1>13 DEF Next, Consume, Stop

\* For every set of tasks and every interleaving of callers, consumers and
\* shutdowns, the scheduler does what TaskService promises: active tasks one at
\* a time in the order of their submission, every task executed at most once.
THEOREM Refinement == Spec => ImplementsTaskService
  BY InitRefines, NextRefines, Invariance, PTL DEF Spec, ImplementsTaskService, Service!Spec

=============================================================================
