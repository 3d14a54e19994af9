---------------------------- MODULE ReportProofs ----------------------------
(***************************************************************************)
(* Theorems about Report, for every value of its constants: what a report  *)
(* is compared with, what the graph holds whatever runs were interrupted,  *)
(* what a report says of it, and what a search returns.                    *)
(***************************************************************************)
EXTENDS Report, DataProofs

-----------------------------------------------------------------------------
(* The archive of reports                                                  *)

Seconds == 0 .. MaxClock

ArchiveType ==
    /\ clock \in Seconds /\ stamp \in Seconds /\ setBack \in BOOLEAN
    /\ begun \in 0 .. MaxReports /\ prev \in 0 .. begun
    /\ pc \in {"found", "made", "open"} => begun > 0
    /\ archive \in [Seconds -> Nat \cup {None, Torn}]
    /\ \A t \in Seconds : archive[t] \in Nat => archive[t] \in 1 .. begun

\* While the clock has not gone back, what was written later is in a later
\* second, and nothing is in a second after that of the last report.
OrderInv ==
    ~setBack =>
        /\ stamp <= clock
        /\ \A t \in Seconds : archive[t] # None => t <= stamp
        /\ \A t, u \in Readable : t <= u => archive[t] <= archive[u]

Inv == ArchiveType /\ OrderInv /\ ComparedWithLatest

LEMMA ReadableValues ==
  ASSUME ArchiveType
  PROVE  /\ Readable \subseteq Seconds
         /\ \A t \in Readable : archive[t] \in 1 .. begun
  BY ReportAssumption DEF ArchiveType, Readable, Seconds

\* What _find_previous_report returns is the latest report.
LEMMA FoundIsLatest ==
  ASSUME ArchiveType, OrderInv, ~setBack
  PROVE  FindPreviousReport = Max({0} \cup {archive[t] : t \in Readable})
<1> DEFINE S == {0} \cup {archive[t] : t \in Readable}
<1>1. S \subseteq Int
  BY ReadableValues
<1>2. ASSUME Readable = {} PROVE FindPreviousReport = Max(S)
  <2>1. FindPreviousReport = 0 /\ S = {0}
    BY <1>2 DEF FindPreviousReport
  <2> QED
    BY <1>1, <2>1, MaxIsLargest
<1>3. ASSUME Readable # {} PROVE FindPreviousReport = Max(S)
  <2> DEFINE m == Max(Readable)
  <2>1. m \in Readable /\ \A t \in Readable : m >= t
    BY <1>3, ReadableValues, MaxOfBounded, ReportAssumption DEF Seconds
  <2>2. FindPreviousReport = archive[m]
    BY <1>3 DEF FindPreviousReport
  <2> HIDE DEF m
  <2>3. archive[m] \in S
    BY <2>1
  <2>4. \A y \in S : archive[m] >= y
    <3>1. archive[m] >= 0
      BY <2>1, ReadableValues
    <3>2. ASSUME NEW t \in Readable PROVE archive[m] >= archive[t]
      <4>1. m \in Int /\ t \in Int
        BY <2>1, ReadableValues DEF Seconds
      <4>2. t <= m
        BY <2>1, <4>1
      <4>3. archive[t] <= archive[m]
        BY <2>1, <4>2 DEF OrderInv
      <4> QED
        BY <2>1, <4>3, ReadableValues
    <3> QED
      BY <3>1, <3>2
  <2> HIDE DEF S
  <2> QED
    BY <1>1, <2>2, <2>3, <2>4, MaxIsLargest
<1> QED
  BY <1>2, <1>3

LEMMA FoundIsReport ==
  ASSUME ArchiveType
  PROVE  FindPreviousReport \in 0 .. begun
<1>1. begun \in Nat
  BY DEF ArchiveType
<1>2. CASE Readable = {}
  BY <1>1, <1>2 DEF FindPreviousReport
<1>3. CASE Readable # {}
  <2> DEFINE m == Max(Readable)
  <2>1. m \in Readable
    BY <1>3, ReadableValues, MaxOfBounded, ReportAssumption DEF Seconds
  <2>2. FindPreviousReport = archive[m]
    BY <1>3 DEF FindPreviousReport
  <2> HIDE DEF m
  <2> QED
    BY <1>1, <2>1, <2>2, ReadableValues
<1> QED
  BY <1>2, <1>3

LEMMA InitInv == Init => Inv
<1> SUFFICES ASSUME Init PROVE Inv
  OBVIOUS
<1>1. ArchiveType
  <2>1. /\ clock \in Seconds /\ stamp \in Seconds /\ setBack \in BOOLEAN
        /\ begun \in 0 .. MaxReports /\ prev \in 0 .. begun /\ pc = "idle"
    <3>1. MaxReports \in Nat /\ MaxClock \in Nat
      BY ReportAssumption
    <3>2. /\ clock = 0 /\ stamp = 0 /\ setBack = FALSE
          /\ begun = 0 /\ prev = 0 /\ pc = "idle"
      BY DEF Init
    <3>3. clock \in Seconds /\ stamp \in Seconds
      BY <3>1, <3>2 DEF Seconds
    <3>4. begun \in 0 .. MaxReports /\ prev \in 0 .. begun
      BY <3>1, <3>2
    <3> QED
      BY <3>2, <3>3, <3>4
  <2>2. None \notin Nat
    BY ReportAssumption
  <2>3. archive \in [Seconds -> Nat \cup {None, Torn}] /\ \A t \in Seconds : archive[t] = None
    BY DEF Init, Seconds
  <2> QED
    BY <2>1, <2>2, <2>3 DEF ArchiveType
<1>2. OrderInv
  BY ReportAssumption DEF Init, OrderInv, Readable, Seconds
<1> QED
  BY <1>1, <1>2 DEF Init, ComparedWithLatest, Inv

-----------------------------------------------------------------------------
(* The steps, and the archive                                              *)

\* A step that is not of a report or of the clock leaves the archive alone, and
\* is not between the search for the previous report and its use.
Elsewhere ==
    /\ UNCHANGED <<archiveVars, clockVars>>
    /\ pc' \in {"found", "made"} => pc \in {"found", "made"}
    /\ pc' = "open" => pc = "open"

LEMMA NextCases ==
  ASSUME [Next]_vars
  PROVE  Elsewhere \/ BeginReport \/ OpenReport \/ WriteReport \/ Tick \/ SetClockBack
<1>1. CASE UNCHANGED vars
  BY <1>1 DEF vars, Elsewhere, archiveVars, clockVars
<1>2. CASE MakeReport
  BY <1>2 DEF MakeReport, Elsewhere, archiveVars, clockVars
<1>3. CASE FetchRows
  BY <1>3 DEF FetchRows, Elsewhere, archiveVars, clockVars
<1>4. ASSUME NEW src \in Sources, StoreFunctions(src) PROVE Elsewhere
  BY <1>4 DEF StoreFunctions, Elsewhere, archiveVars, clockVars
<1>5. CASE DeleteMissing
  BY <1>5 DEF DeleteMissing, Elsewhere, archiveVars, clockVars
<1>6. CASE ClearEdges \/ InsertEdges
  BY <1>6 DEF ClearEdges, InsertEdges, Elsewhere, archiveVars, clockVars
<1>7. ASSUME NEW t \in BOOLEAN, End(t) PROVE Elsewhere
  BY <1>7 DEF End, Elsewhere, archiveVars, clockVars
<1>8. ASSUME NEW q \in Queries, BeginSearch(q) PROVE Elsewhere
  BY <1>8 DEF BeginSearch, Elsewhere, archiveVars, clockVars
<1>9. ASSUME NEW kind \in {"code", "desc"}, AskIndex(kind) PROVE Elsewhere
  BY <1>9 DEF AskIndex, Elsewhere, archiveVars, clockVars
<1> QED
  BY <1>1, <1>2, <1>3, <1>4, <1>5, <1>6, <1>7, <1>8, <1>9 DEF Next

LEMMA NextInv == ASSUME Inv, [Next]_vars PROVE Inv'
<1> USE DEF Inv
<1>1. CASE Elsewhere
  <2>1. UNCHANGED <<archive, stamp, begun, prev, clock, setBack>>
    BY <1>1 DEF Elsewhere, archiveVars, clockVars
  <2>2. OrderInv'
    BY <2>1 DEF OrderInv, Readable
  <2>3. /\ pc' \in {"found", "made"} => pc \in {"found", "made"}
        /\ pc' \in {"found", "made", "open"} => pc \in {"found", "made", "open"}
    BY <1>1 DEF Elsewhere
  <2>5. ArchiveType'
    BY <2>1, <2>3 DEF ArchiveType
  <2>4. ComparedWithLatest'
    BY <2>1, <2>3 DEF ComparedWithLatest, Readable
  <2> QED
    BY <2>2, <2>4, <2>5
<1>2. CASE BeginReport
  <2>1. /\ UNCHANGED <<archive, clock, setBack>>
        /\ stamp' = clock /\ begun' = begun + 1 /\ prev' = FindPreviousReport
    BY <1>2 DEF BeginReport, clockVars
  <2>2. ArchiveType'
    <3>1. begun' \in 0 .. MaxReports /\ begun' > 0
      BY <1>2, <2>1, ReportAssumption DEF ArchiveType, BeginReport
    <3>2. prev' \in 0 .. begun'
      BY <2>1, FoundIsReport DEF ArchiveType
    <3>3. \A t \in Seconds : archive'[t] \in Nat => archive'[t] \in 1 .. begun'
      BY <2>1 DEF ArchiveType
    <3> QED
      BY <2>1, <3>1, <3>2, <3>3 DEF ArchiveType
  <2>3. Readable' = Readable
    BY <2>1 DEF Readable
  <2>4. OrderInv'
    <3> SUFFICES ASSUME ~setBack PROVE OrderInv'
      BY <2>1 DEF OrderInv
    <3>1. stamp <= clock /\ stamp \in Int /\ clock \in Int
      BY DEF OrderInv, ArchiveType, Seconds
    <3>2. \A t \in Seconds : archive[t] # None => t <= clock
      BY <3>1 DEF OrderInv, Seconds
    <3> QED
      BY <2>1, <2>3, <3>1, <3>2 DEF OrderInv
  <2>5. ComparedWithLatest'
    BY <2>1, <2>3, FoundIsLatest DEF ComparedWithLatest
  <2> QED
    BY <2>2, <2>4, <2>5
<1>3. CASE OpenReport
  <2>1. /\ UNCHANGED <<stamp, begun, prev, clock, setBack>> /\ pc = "made" /\ pc' = "open"
        /\ archive' = [archive EXCEPT ![stamp] = Torn]
    BY <1>3 DEF OpenReport, clockVars
  <2>2. ArchiveType'
    <3>1. Torn \notin Nat
      BY ReportAssumption
    <3>2. /\ archive' \in [Seconds -> Nat \cup {None, Torn}]
          /\ \A t \in Seconds : archive'[t] = IF t = stamp THEN Torn ELSE archive[t]
      BY <2>1 DEF ArchiveType
    <3>3. begun > 0
      BY <2>1 DEF ArchiveType
    <3>4. \A t \in Seconds : archive'[t] \in Nat => archive'[t] \in 1 .. begun
      BY <3>1, <3>2 DEF ArchiveType
    <3> QED
      BY <2>1, <3>2, <3>3, <3>4 DEF ArchiveType
  <2>3. Readable' = Readable \ {stamp}
        /\ \A t \in Seconds : archive'[t] = IF t = stamp THEN Torn ELSE archive[t]
    BY <2>1 DEF ArchiveType, Readable, Seconds
  <2>4. OrderInv'
    <3> SUFFICES ASSUME ~setBack PROVE OrderInv'
      BY <2>1 DEF OrderInv
    <3>1. \A t \in Seconds : archive'[t] # None => t <= stamp
      BY <2>3 DEF OrderInv, ArchiveType, Seconds
    <3>2. \A t, u \in Readable' : t <= u => archive'[t] <= archive'[u]
      BY <2>3, ReadableValues DEF OrderInv
    <3> QED
      BY <2>1, <3>1, <3>2 DEF OrderInv
  <2> QED
    BY <2>1, <2>2, <2>4 DEF ComparedWithLatest
<1>4. CASE WriteReport
  <2>1. /\ UNCHANGED <<stamp, begun, prev, clock, setBack>> /\ pc = "open" /\ pc' = "idle"
        /\ archive' = [archive EXCEPT ![stamp] = begun]
    BY <1>4 DEF WriteReport, clockVars
  <2>6. /\ begun \in 1 .. begun /\ begun \in Nat
        /\ archive' \in [Seconds -> Nat \cup {None, Torn}]
        /\ \A t \in Seconds : archive'[t] = IF t = stamp THEN begun ELSE archive[t]
    <3>1. begun \in 1 .. begun /\ begun \in Nat
      BY <2>1 DEF ArchiveType
    <3> QED
      BY <2>1, <3>1 DEF ArchiveType
  <2>2. ArchiveType'
    <3>1. \A t \in Seconds : archive'[t] \in Nat => archive'[t] \in 1 .. begun
      BY <2>6 DEF ArchiveType
    <3> QED
      BY <2>1, <2>6, <3>1 DEF ArchiveType
  <2>3. Readable' = Readable \cup {stamp}
        /\ \A t \in Seconds : archive'[t] = IF t = stamp THEN begun ELSE archive[t]
    BY <2>6, ReportAssumption DEF ArchiveType, Readable, Seconds
  <2>4. OrderInv'
    <3> SUFFICES ASSUME ~setBack PROVE OrderInv'
      BY <2>1 DEF OrderInv
    <3>1. \A t \in Seconds : archive'[t] # None => t <= stamp
      BY <2>3 DEF OrderInv, ArchiveType, Seconds
    <3>2. ASSUME NEW t \in Readable', NEW u \in Readable', t <= u
          PROVE  archive'[t] <= archive'[u]
      <4>1. t \in Seconds /\ u \in Seconds /\ stamp \in Seconds /\ begun \in Nat
        BY <2>3, ReadableValues DEF ArchiveType
      <4>2. CASE u = stamp
        <5>1. archive'[u] = begun
          BY <2>3, <4>1, <4>2
        <5>2. t = stamp \/ archive[t] <= begun
          BY <2>3, ReadableValues
        <5> QED
          BY <2>3, <4>1, <5>1, <5>2
      <4>3. CASE u # stamp
        <5>1. u \in Readable /\ u <= stamp
          BY <2>3, <3>1, <4>1, <4>3 DEF Readable, OrderInv
        <5>2. t # stamp /\ t \in Readable
          BY <2>3, <3>2, <4>1, <4>3, <5>1 DEF Seconds
        <5> QED
          BY <2>3, <3>2, <4>1, <4>3, <5>1, <5>2 DEF OrderInv
      <4> QED
        BY <4>2, <4>3
    <3> QED
      BY <2>1, <3>1, <3>2 DEF OrderInv
  <2> QED
    BY <2>1, <2>2, <2>4 DEF ComparedWithLatest
<1>5. CASE Tick
  <2>1. /\ UNCHANGED <<archive, stamp, begun, prev, setBack, pc>>
        /\ clock' = clock + 1 /\ clock < MaxClock
    BY <1>5 DEF Tick, archiveVars
  <2>2. ArchiveType'
    BY <2>1, ReportAssumption DEF ArchiveType, Seconds
  <2>3. stamp <= clock => stamp <= clock'
    BY <2>1 DEF ArchiveType, Seconds
  <2>4. OrderInv'
    BY <2>1, <2>3 DEF OrderInv, Readable
  <2> QED
    BY <2>1, <2>2, <2>4 DEF ComparedWithLatest, Readable
<1>6. CASE SetClockBack
  <2>1. /\ UNCHANGED <<archive, stamp, begun, prev, pc>>
        /\ clock' = clock - 1 /\ clock > 0
    BY <1>6 DEF SetClockBack, archiveVars
  <2>2. setBack'
    BY <1>6 DEF SetClockBack
  <2>3. clock' \in Seconds
    BY <2>1, ReportAssumption DEF ArchiveType, Seconds
  <2>4. ArchiveType'
    <3>1. setBack' = TRUE
      BY <1>6 DEF SetClockBack
    <3> QED
      BY <2>1, <2>3, <3>1 DEF ArchiveType
  <2> QED
    BY <2>2, <2>4 DEF OrderInv, ComparedWithLatest
<1> QED
  BY <1>1, <1>2, <1>3, <1>4, <1>5, <1>6, NextCases

\* The archive is in the order of time while the clock has not gone back.
THEOREM Invariance == Spec => []Inv
<1> QED
  BY InitInv, NextInv, PTL DEF Spec

\* A report is compared with the latest one that was written whole, unless the
\* local time went back (analysis.py, _find_previous_report).
THEOREM LatestIsFound == Spec => []ComparedWithLatest
<1>1. Inv => ComparedWithLatest
  BY DEF Inv
<1> QED
  BY <1>1, Invariance, PTL
-----------------------------------------------------------------------------
(* Components                                                              *)

\* A set of names that no link leaves.
Closed(links, S) == \A e \in links : e.from[2] \in S <=> e.to[2] \in S

\* The names of s and those that are linked with them.
Spread(links, s) ==
    s \cup {y \in Names(links) : \E e \in links :
               \/ e.from[2] \in s /\ e.to[2] = y
               \/ e.to[2] \in s /\ e.from[2] = y}

Reaches(links, x, n, f) ==
    /\ f \in [0 .. n -> SUBSET Names(links)]
    /\ f[0] = {x}
    /\ \A k \in 1 .. n : f[k] = Spread(links, f[k - 1])

\* Component is the last value of a function on the rounds of the search.
LEMMA ComponentUnfolds ==
  ASSUME NEW links, NEW x \in Names(links), Cardinality(Names(links)) \in Nat
  PROVE  \E f : /\ Reaches(links, x, Cardinality(Names(links)), f)
                /\ Component(links, x) = f[Cardinality(Names(links))]
<1> DEFINE n == Cardinality(Names(links))
           S == SUBSET Names(links)
           step == [y \in (1 .. n) \X S |-> Spread(links, y[2])]
           Solves(k) == k = [i \in 0 .. n |-> IF i = 0 THEN {x} ELSE Spread(links, k[i - 1])]
           reach == CHOOSE k : Solves(k)
<1>1. n \in Nat /\ {x} \in S
  OBVIOUS
<1>2. Component(links, x) = reach[n]
  BY DEF Component, Spread
<1>3. \A a \in S : Spread(links, a) \in S
  BY DEF Spread
<1> HIDE DEF n, S
<1>4. step \in [(1 .. n) \X S -> S]
  BY <1>3
<1>5. \A i \in 1 .. n, a \in S : step[<<i, a>>] = Spread(links, a)
  OBVIOUS
<1> HIDE DEF step, Solves
<1>6. PICK f : Iterates(n, S, {x}, step, f)
  BY <1>1, <1>4, RecursionExists
<1>7. f \in [0 .. n -> S] /\ f[0] = {x} /\ \A i \in 1 .. n : f[i] = Spread(links, f[i - 1])
  <2>1. \A i \in 1 .. n : f[i - 1] \in S
    <3>1. \A i \in 1 .. n : i - 1 \in 0 .. n
      BY <1>1
    <3> QED
      BY <1>6, <3>1 DEF Iterates
  <2> QED
    BY <1>5, <1>6, <2>1 DEF Iterates
<1>8. Solves(f)
  <2>1. f = [i \in 0 .. n |-> f[i]]
    BY <1>7
  <2>2. \A i \in 0 .. n : f[i] = IF i = 0 THEN {x} ELSE Spread(links, f[i - 1])
    <3>1. \A i \in 0 .. n : i = 0 \/ i \in 1 .. n
      BY <1>1
    <3>2. 0 \notin 1 .. n
      OBVIOUS
    <3> QED
      BY <1>7, <3>1, <3>2
  <2>3. f = [i \in 0 .. n |-> IF i = 0 THEN {x} ELSE Spread(links, f[i - 1])]
    BY <2>1, <2>2
  <2> QED
    BY <2>3 DEF Solves
<1>9. Solves(reach)
  BY <1>8, Zenon
<1> HIDE DEF reach
<1>10. reach[0] = {x} /\ \A i \in 1 .. n : reach[i] = Spread(links, reach[i - 1])
  <2>1. \A i \in 0 .. n : reach[i] = IF i = 0 THEN {x} ELSE Spread(links, reach[i - 1])
    BY <1>9 DEF Solves
  <2>2. 0 \in 0 .. n /\ \A i \in 1 .. n : i \in 0 .. n /\ i # 0
    BY <1>1
  <2> QED
    BY <2>1, <2>2, Zenon
<1>11. Obeys(n, S, {x}, step, reach)
  BY <1>5, <1>10 DEF Obeys
<1>12. \A i \in 0 .. n : reach[i] = f[i]
  BY <1>1, <1>6, <1>11, RecursionUnique
<1>13. Reaches(links, x, n, f)
  BY <1>7 DEF Reaches, S
<1>14. n \in 0 .. n
  BY <1>1
<1> QED
  BY <1>2, <1>12, <1>13, <1>14 DEF n

\* A search that has not stopped growing has a new name in every round: it
\* stops before it runs out of them.
LEMMA SearchStops ==
  ASSUME NEW links, NEW x \in Names(links), IsFiniteSet(Names(links)), NEW f,
         Reaches(links, x, Cardinality(Names(links)), f)
  PROVE  Spread(links, f[Cardinality(Names(links))]) = f[Cardinality(Names(links))]
<1> DEFINE n == Cardinality(Names(links))
           H == {k \in 0 .. n : Spread(links, f[k]) = f[k] \/ Cardinality(f[k]) >= k + 1}
<1>1. n \in Nat
  BY FS_CardinalityType
<1>2. \A k \in 0 .. n : /\ f[k] \subseteq Names(links) /\ IsFiniteSet(f[k])
                        /\ Cardinality(f[k]) \in Nat /\ Cardinality(f[k]) <= n
  <2> SUFFICES ASSUME NEW k \in 0 .. n
               PROVE  /\ f[k] \subseteq Names(links) /\ IsFiniteSet(f[k])
                      /\ Cardinality(f[k]) \in Nat /\ Cardinality(f[k]) <= n
    OBVIOUS
  <2>1. f[k] \in SUBSET Names(links)
    BY DEF Reaches
  <2>2. IsFiniteSet(f[k]) /\ Cardinality(f[k]) <= n
    BY <2>1, FS_Subset
  <2> QED
    BY <2>1, <2>2, FS_CardinalityType
<1>3. 0 \in H
  <2>1. f[0] = {x} /\ Cardinality({x}) = 1
    BY FS_Singleton DEF Reaches
  <2> QED
    BY <1>1, <2>1
<1>4. \A k \in 1 .. n : f[k] = Spread(links, f[k - 1])
  BY DEF Reaches
<1> HIDE DEF n
<1>5. ASSUME NEW k \in 1 .. n, k - 1 \in H PROVE k \in H
  <2>1. k \in 0 .. n /\ k - 1 \in 0 .. n /\ k \in Nat
    BY <1>1
  <2>2. f[k] = Spread(links, f[k - 1])
    BY <1>4
  <2>3. CASE Spread(links, f[k - 1]) = f[k - 1]
    BY <2>1, <2>2, <2>3
  <2>4. CASE Spread(links, f[k - 1]) # f[k - 1]
    <3>1. Cardinality(f[k - 1]) >= k
      BY <1>5, <2>1, <2>4
    <3>2. f[k - 1] \in SUBSET f[k]
      BY <2>2 DEF Spread
    <3>3. /\ Cardinality(f[k - 1]) <= Cardinality(f[k])
          /\ Cardinality(f[k]) = Cardinality(f[k - 1]) => f[k] = f[k - 1]
      BY <1>2, <2>1, <3>2, FS_Subset
    <3>4. Cardinality(f[k]) >= k + 1
      BY <1>2, <2>1, <2>2, <2>4, <3>1, <3>3
    <3> QED
      BY <2>1, <3>4
  <2> QED
    BY <2>3, <2>4
<1>6. 0 .. n \subseteq H
  <2> HIDE DEF H
  <2> QED
    BY <1>1, <1>3, <1>5, IntervalInduction
<1>7. n \in H /\ n \in 0 .. n
  BY <1>1, <1>6
<1>8. Spread(links, f[n]) = f[n]
  BY <1>1, <1>2, <1>7
<1> QED
  BY <1>8 DEF n

\* The component of a name is the smallest closed set that holds it.
LEMMA ComponentFacts ==
  ASSUME NEW links, NEW x \in Names(links), IsFiniteSet(Names(links))
  PROVE  /\ x \in Component(links, x) /\ Component(links, x) \subseteq Names(links)
         /\ Closed(links, Component(links, x))
         /\ \A S : x \in S /\ Closed(links, S) => Component(links, x) \subseteq S
<1> DEFINE n == Cardinality(Names(links))
<1>1. n \in Nat
  BY FS_CardinalityType
<1>2. PICK f : Reaches(links, x, n, f) /\ Component(links, x) = f[n]
  BY <1>1, ComponentUnfolds
<1>3. Spread(links, f[n]) = f[n]
  BY <1>2, SearchStops
<1> HIDE DEF n
<1>4. \A k \in 1 .. n : k \in 0 .. n /\ k - 1 \in 0 .. n
  BY <1>1
<1>5. x \in f[n]
  <2> DEFINE H == {k \in 0 .. n : x \in f[k]}
  <2>1. 0 \in H
    BY <1>1, <1>2 DEF Reaches
  <2>2. ASSUME NEW k \in 1 .. n, k - 1 \in H PROVE k \in H
    BY <1>2, <1>4, <2>2 DEF Reaches, Spread
  <2>3. 0 .. n \subseteq H
    <3> HIDE DEF H
    <3> QED
      BY <1>1, <2>1, <2>2, IntervalInduction
  <2> QED
    BY <1>1, <2>3
<1>6. f[n] \subseteq Names(links)
  BY <1>1, <1>2 DEF Reaches
<1>7. Closed(links, f[n])
  <2> SUFFICES ASSUME NEW e \in links PROVE e.from[2] \in f[n] <=> e.to[2] \in f[n]
    BY DEF Closed
  <2>1. e.from[2] \in Names(links) /\ e.to[2] \in Names(links)
    BY DEF Names
  <2>2. \A s : Spread(links, s) = s => (e.from[2] \in s <=> e.to[2] \in s)
    BY <2>1 DEF Spread
  <2> QED
    BY <1>3, <2>2
<1>8. ASSUME NEW S, x \in S, Closed(links, S) PROVE f[n] \subseteq S
  <2> DEFINE H == {k \in 0 .. n : f[k] \subseteq S}
  <2>1. 0 \in H
    BY <1>1, <1>2, <1>8 DEF Reaches
  <2>2. ASSUME NEW k \in 1 .. n, k - 1 \in H PROVE k \in H
    <3>1. f[k] = Spread(links, f[k - 1]) /\ k \in 0 .. n /\ f[k - 1] \subseteq S
      BY <1>2, <1>4, <2>2 DEF Reaches
    <3>2. \A s : s \subseteq S => Spread(links, s) \subseteq S
      BY <1>8 DEF Spread, Closed
    <3> QED
      BY <3>1, <3>2
  <2>3. 0 .. n \subseteq H
    <3> HIDE DEF H
    <3> QED
      BY <1>1, <2>1, <2>2, IntervalInduction
  <2> QED
    BY <1>1, <2>3
<1> QED
  BY <1>2, <1>5, <1>6, <1>7, <1>8

\* Components that share a name are one.
LEMMA ComponentsAreParts ==
  ASSUME NEW links, NEW x \in Names(links), NEW y \in Names(links),
         IsFiniteSet(Names(links)), Component(links, x) \cap Component(links, y) # {}
  PROVE  Component(links, x) = Component(links, y)
<1>1. \A u, v \in Names(links) :
        v \in Component(links, u) => Component(links, v) = Component(links, u)
  <2> SUFFICES ASSUME NEW u \in Names(links), NEW v \in Names(links),
                      v \in Component(links, u)
               PROVE  Component(links, v) = Component(links, u)
    OBVIOUS
  <2>1. Component(links, v) \subseteq Component(links, u)
    BY ComponentFacts
  <2> DEFINE S == Names(links) \ Component(links, v)
  <2>2. ASSUME u \notin Component(links, v) PROVE FALSE
    <3>1. Closed(links, S)
      <4>1. \A e \in links : e.from[2] \in Names(links) /\ e.to[2] \in Names(links)
        BY DEF Names
      <4>2. Closed(links, Component(links, v))
        BY ComponentFacts
      <4> QED
        BY <4>1, <4>2 DEF Closed
    <3>2. Component(links, u) \subseteq S
      BY <2>2, <3>1, ComponentFacts
    <3>3. v \in Component(links, v)
      BY ComponentFacts
    <3> QED
      BY <3>2, <3>3
  <2>3. Component(links, u) \subseteq Component(links, v)
    BY <2>2, ComponentFacts
  <2> QED
    BY <2>1, <2>3
<1>2. PICK z : z \in Component(links, x) /\ z \in Component(links, y)
  OBVIOUS
<1>3. z \in Names(links)
  BY <1>2, ComponentFacts
<1> QED
  BY <1>1, <1>2, <1>3

LEMMA PairCardinality ==
  ASSUME NEW a, NEW b, a # b
  PROVE  Cardinality({a, b}) = 2
<1>1. IsFiniteSet({a}) /\ Cardinality({a}) = 1
  BY FS_Singleton
<1>2. Cardinality({a} \cup {b}) = IF b \in {a} THEN Cardinality({a}) ELSE Cardinality({a}) + 1
  BY <1>1, FS_AddElement
<1>3. {a} \cup {b} = {a, b}
  OBVIOUS
<1> QED
  BY <1>1, <1>2, <1>3

LEMMA NamesAreFinite ==
  ASSUME NEW links, IsFiniteSet(links)
  PROVE  IsFiniteSet(Names(links))
<1> DEFINE from == [e \in links |-> e.from[2]]
           to == [e \in links |-> e.to[2]]
<1>1. IsFiniteSet({from[e] : e \in links}) /\ IsFiniteSet({to[e] : e \in links})
  <2>1. links = DOMAIN from /\ links = DOMAIN to
    OBVIOUS
  <2> HIDE DEF from, to
  <2> QED
    BY <2>1, ImageIsFinite
<1>2. {from[e] : e \in links} = {e.from[2] : e \in links}
  OBVIOUS
<1>3. {to[e] : e \in links} = {e.to[2] : e \in links}
  OBVIOUS
<1> QED
  BY <1>1, <1>2, <1>3, FS_Union DEF Names

\* The names of the clusters are the components of more than one name.
LEMMA ClusterNames ==
  ASSUME NEW links, NEW f
  PROVE  /\ \A c \in Clusters(links, f) :
              /\ c.files = {f[x] : x \in c.names} /\ Cardinality(c.names) >= 2
              /\ \E x \in Names(links) : c.names = Component(links, x)
         /\ \A x \in Names(links) : Cardinality(Component(links, x)) >= 2 =>
              \E c \in Clusters(links, f) : c.names = Component(links, x)
<1> DEFINE C == {s \in {Component(links, x) : x \in Names(links)} : Cardinality(s) >= 2}
<1>1. Clusters(links, f) = {[names |-> c, files |-> {f[x] : x \in c}] : c \in C}
  BY DEF Clusters
<1>2. \A c \in C : Cardinality(c) >= 2 /\ \E x \in Names(links) : c = Component(links, x)
  OBVIOUS
<1>3. \A x \in Names(links) :
        Cardinality(Component(links, x)) >= 2 => Component(links, x) \in C
  OBVIOUS
<1> HIDE DEF C
<1>4. \A c \in Clusters(links, f) : c.names \in C /\ c.files = {f[x] : x \in c.names}
  BY <1>1
<1>5. ASSUME NEW s \in C PROVE \E c \in Clusters(links, f) : c.names = s
  <2>1. [names |-> s, files |-> {f[x] : x \in s}] \in Clusters(links, f)
    BY <1>1
  <2> QED
    BY <2>1
<1> QED
  BY <1>2, <1>3, <1>4, <1>5

\* What is inside a component and not all of it is linked with the rest of it.
LEMMA PartsAreLinked ==
  ASSUME NEW links, NEW x \in Names(links), IsFiniteSet(Names(links)),
         NEW s, s \subseteq Component(links, x), s # {}, s # Component(links, x)
  PROVE  \E e \in links :
            /\ {e.from[2], e.to[2]} \cap s # {}
            /\ {e.from[2], e.to[2]} \cap (Component(links, x) \ s) # {}
<1> DEFINE c == Component(links, x)
<1>1. SUFFICES ASSUME \A e \in links : ~ /\ {e.from[2], e.to[2]} \cap s # {}
                                         /\ {e.from[2], e.to[2]} \cap (c \ s) # {}
               PROVE  FALSE
  OBVIOUS
<1>2. \A e \in links : e.from[2] \in c <=> e.to[2] \in c
  BY ComponentFacts DEF Closed
<1> HIDE DEF c
<1>3. s \subseteq c
  BY DEF c
<1>4. Closed(links, s) /\ Closed(links, c \ s)
  BY <1>1, <1>2, <1>3 DEF Closed
<1>5. x \in c /\ \A S : x \in S /\ Closed(links, S) => c \subseteq S
  BY ComponentFacts DEF c
<1>6. CASE x \in s
  BY <1>3, <1>4, <1>5, <1>6 DEF c
<1>7. CASE x \notin s
  <2>1. c \subseteq c \ s
    BY <1>4, <1>5, <1>7
  <2> QED
    BY <1>3, <2>1
<1> QED
  BY <1>6, <1>7

\* With names of their own, a cluster has two files when a link in it joins two.
LEMMA FilesAreLinked ==
  ASSUME NEW links, IsFiniteSet(links), \A e \in links : e.from \in Ids /\ e.to \in Ids,
         NEW f \in NodeFiles(links), NEW x \in Names(links),
         \A i, j \in {k \in Ids : \E e \in links : k \in {e.from, e.to}} :
            i[2] = j[2] => i = j
  PROVE  LET c == Component(links, x)
         IN  Cardinality({f[y] : y \in c}) > 1 <=>
                \E e \in links : e.from[2] \in c /\ e.from[1] # e.to[1]
<1> DEFINE c == Component(links, x)
           files == {f[y] : y \in c}
           named == {k \in Ids : \E e \in links : k \in {e.from, e.to}}
<1>1. /\ f \in [Names(links) -> {File[d] : d \in Definitions}]
      /\ \A y \in Names(links) : \E e \in links : <<f[y], y>> \in {e.from, e.to}
  BY DEF NodeFiles
<1>2. IsFiniteSet(Names(links))
  BY NamesAreFinite
<1>3. /\ x \in c /\ c \subseteq Names(links) /\ Closed(links, c)
      /\ \A S : x \in S /\ Closed(links, S) => c \subseteq S
  BY <1>2, ComponentFacts
<1> HIDE DEF c
<1>4. \A y \in Names(links) : <<f[y], y>> \in named
  <2> SUFFICES ASSUME NEW y \in Names(links) PROVE <<f[y], y>> \in named
    OBVIOUS
  <2>1. PICK e \in links : <<f[y], y>> \in {e.from, e.to}
    BY <1>1
  <2> QED
    BY <2>1
<1>5. \A i \in named : f[i[2]] = i[1]
  <2> SUFFICES ASSUME NEW i \in named PROVE f[i[2]] = i[1]
    OBVIOUS
  <2>1. i[2] \in Names(links)
    BY DEF Names
  <2>2. <<f[i[2]], i[2]>> \in named
    BY <1>4, <2>1
  <2>3. <<f[i[2]], i[2]>> = i
    BY <2>2
  <2> QED
    BY <2>3
<1>6. \A e \in links : /\ f[e.from[2]] = e.from[1] /\ f[e.to[2]] = e.to[1]
                       /\ e.from[2] \in Names(links) /\ e.to[2] \in Names(links)
  <2>1. \A e \in links : e.from \in named /\ e.to \in named
    OBVIOUS
  <2> HIDE DEF named
  <2> QED
    BY <1>5, <2>1 DEF Names
<1>7. IsFiniteSet(files)
  <2>1. IsFiniteSet(c)
    BY <1>2, <1>3, FS_Subset
  <2> DEFINE g == [y \in c |-> f[y]]
  <2>2. IsFiniteSet({g[y] : y \in c})
    <3>1. c = DOMAIN g
      OBVIOUS
    <3> HIDE DEF g
    <3> QED
      BY <2>1, <3>1, ImageIsFinite
  <2>3. {g[y] : y \in c} = files
    OBVIOUS
  <2> QED
    BY <2>2, <2>3
<1>8. ASSUME NEW e \in links, e.from[2] \in c, e.from[1] # e.to[1]
      PROVE  Cardinality(files) > 1
  <2> DEFINE two == {e.from[1], e.to[1]}
  <2>1. e.to[2] \in c
    BY <1>3, <1>8 DEF Closed
  <2>2. two \in SUBSET files
    BY <1>6, <1>8, <2>1
  <2>3. Cardinality(two) = 2
    BY <1>8, PairCardinality
  <2>4. Cardinality(two) <= Cardinality(files)
    BY <1>7, <2>2, FS_Subset
  <2>5. Cardinality(files) \in Nat
    BY <1>7, FS_CardinalityType
  <2> QED
    BY <2>3, <2>4, <2>5
<1>9. ASSUME \A e \in links : e.from[2] \in c => e.from[1] = e.to[1]
      PROVE  ~(Cardinality(files) > 1)
  <2> DEFINE S == {y \in c : f[y] = f[x]}
  <2>1. Closed(links, S)
    <3> SUFFICES ASSUME NEW e \in links PROVE e.from[2] \in S <=> e.to[2] \in S
      BY DEF Closed
    <3>1. e.from[2] \in c <=> e.to[2] \in c
      BY <1>3 DEF Closed
    <3>2. e.from[2] \in c => f[e.from[2]] = f[e.to[2]]
      BY <1>6, <1>9
    <3> QED
      BY <3>1, <3>2
  <2>2. c \subseteq S
    BY <1>3, <2>1
  <2>3. files = {f[x]}
    BY <1>3, <2>2
  <2>4. Cardinality(files) = 1
    BY <2>3, FS_Singleton
  <2> QED
    BY <2>4
<1> QED
  BY <1>8, <1>9 DEF c

\* The clusters of a report are the components of its links.
LEMMA ClustersSound ==
  ASSUME NEW r, IsFiniteSet(r.links), \A e \in r.links : e.from \in Ids /\ e.to \in Ids,
         NEW f \in NodeFiles(r.links), r.clusters = Clusters(r.links, f)
  PROVE  ClustersAreComponents(r)
<1> DEFINE links == r.links
           sets == {c.names : c \in r.clusters}
           Ends(e) == {e.from[2], e.to[2]}
<1>1. IsFiniteSet(Names(links))
  BY NamesAreFinite
<1>2. \A c \in r.clusters :
         /\ c.files = {f[x] : x \in c.names}
         /\ \E x \in Names(links) : c.names = Component(links, x)
  BY ClusterNames
<1>3. \A x \in Names(links) : Cardinality(Component(links, x)) >= 2 =>
         Component(links, x) \in sets
  BY ClusterNames
<1>4. \A s \in sets : \E x \in Names(links) : s = Component(links, x)
  BY <1>2
<1>5. \A c, d \in sets : c = d \/ c \cap d = {}
  BY <1>1, <1>4, ComponentsAreParts
<1>6. ASSUME NEW e \in links, e.from[2] # e.to[2]
      PROVE  \E c \in sets : Ends(e) \subseteq c
  <2> DEFINE c == Component(links, e.from[2])
  <2>1. e.from[2] \in Names(links)
    BY DEF Names
  <2>2. e.from[2] \in c /\ c \subseteq Names(links) /\ Closed(links, c)
    BY <1>1, <2>1, ComponentFacts
  <2>3. Ends(e) \in SUBSET c
    BY <2>2 DEF Closed
  <2>4. IsFiniteSet(c)
    BY <1>1, <2>2, FS_Subset
  <2>5. Cardinality(Ends(e)) = 2
    BY <1>6, PairCardinality
  <2>6. Cardinality(Ends(e)) <= Cardinality(c) /\ Cardinality(c) \in Nat
    BY <2>3, <2>4, FS_Subset, FS_CardinalityType
  <2>7. c \in sets
    <3>1. Cardinality(c) >= 2
      BY <2>5, <2>6
    <3> HIDE DEF sets
    <3> QED
      BY <1>3, <2>1, <3>1
  <2> QED
    BY <2>3, <2>7
<1>7. ASSUME NEW c \in sets, NEW s, s \subseteq c, s # {}, s # c
      PROVE  \E e \in links : Ends(e) \cap s # {} /\ Ends(e) \cap (c \ s) # {}
  <2>1. PICK x \in Names(links) : c = Component(links, x)
    BY <1>4
  <2> QED
    BY <1>1, <1>7, <2>1, PartsAreLinked
<1>8. ASSUME \A i, j \in {k \in Ids : \E e \in links : k \in {e.from, e.to}} :
               i[2] = j[2] => i = j,
             NEW c \in r.clusters
      PROVE  Cardinality(c.files) > 1 <=>
               \E e \in links : e.from[2] \in c.names /\ e.from[1] # e.to[1]
  <2>1. PICK x \in Names(links) : c.names = Component(links, x)
    BY <1>2
  <2>2. Cardinality({f[y] : y \in Component(links, x)}) > 1 <=>
          \E e \in links : e.from[2] \in Component(links, x) /\ e.from[1] # e.to[1]
    BY <1>8, FilesAreLinked
  <2>3. c.files = {f[y] : y \in Component(links, x)}
    BY <1>2, <2>1
  <2> QED
    BY <2>1, <2>2, <2>3
<1> QED
  BY <1>5, <1>6, <1>7, <1>8 DEF ClustersAreComponents

-----------------------------------------------------------------------------
(* The store                                                               *)

NodeType == [def: Definitions, code: Definitions \cup {None}, desc: Definitions \cup {None}]

\* A node holds vectors of its own id, and has that id alone.
StoreInv ==
    /\ nodes \subseteq NodeType
    /\ \A n \in nodes : /\ n.code = None \/ Id(n.code) = IdOf(n)
                        /\ n.desc = None \/ Id(n.desc) = IdOf(n)
    /\ \A n, m \in nodes : IdOf(n) = IdOf(m) => n = m
    /\ VectorsAreOfSource

LEMMA NodeFacts ==
  ASSUME NEW n \in NodeType
  PROVE  /\ n.def \in Definitions /\ IdOf(n) \in Ids
         /\ n.code # None => n.code \in Definitions
         /\ n.desc # None => n.desc \in Definitions
  BY DEF NodeType, IdOf, Ids

\* The last definition of an id in a source is the only one.
LEMMA StoredIsUnique ==
  ASSUME NEW src \in Sources
  PROVE  /\ Stored(src) \subseteq Extracted(src) /\ Extracted(src) \subseteq src
         /\ src \subseteq Definitions
         /\ \A d, e \in Stored(src) : Id(d) = Id(e) => d = e
<1>1. Stored(src) \subseteq Extracted(src) /\ Extracted(src) \subseteq src
  BY DEF Stored, Extracted
<1>2. /\ src \subseteq Definitions
      /\ \A d \in src : Position[d] \in Nat
      /\ \A d, e \in src : Id(d) = Id(e) /\ Position[d] = Position[e] => d = e
  BY ReportAssumption
<1>3. ASSUME NEW d \in Stored(src), NEW e \in Stored(src), Id(d) = Id(e) PROVE d = e
  <2>1. Position[d] <= Position[e] /\ Position[e] <= Position[d]
    BY <1>3 DEF Stored
  <2>2. d \in src /\ e \in src
    BY <1>1
  <2>3. Position[d] \in Nat /\ Position[e] \in Nat
    BY <1>2, <2>2
  <2>4. Position[d] = Position[e]
    BY <2>1, <2>3
  <2> QED
    BY <1>2, <1>3, <2>2, <2>4
<1> QED
  BY <1>1, <1>2, <1>3

\* A vector that is stored is of the id, and of a definition of the source unless
\* it is the one that was there.
LEMMA VectorFacts ==
  ASSUME StoreInv, NEW src \in Sources, NEW i, NEW kind \in {"code", "desc"},
         NEW v \in Vectors(src, i, kind), v # None
  PROVE  /\ v \in Definitions /\ Id(v) = i
         /\ \/ v \in Extracted(src)
            \/ \E m \in nodes : /\ IdOf(m) = i /\ m[kind] = v
                                /\ \A d \in Extracted(src) : Id(d) = i =>
                                     d \in Flaky \/ m.def = d
<1> DEFINE new == {d \in Extracted(src) : Id(d) = i /\ \A n \in StoredAt(i) : n.def # d}
<1>1. CASE v \in new
  BY <1>1, StoredIsUnique
<1>2. CASE v \notin new
  <2>1. new \subseteq Flaky /\ \E n \in StoredAt(i) : n[kind] = v
    BY <1>2 DEF Vectors
  <2>2. PICK m \in nodes : IdOf(m) = i /\ m[kind] = v
    BY <2>1 DEF StoredAt
  <2>3. m \in NodeType
    BY DEF StoreInv
  <2>4. v \in Definitions /\ Id(v) = i
    <3>1. CASE kind = "code"
      BY <2>2, <2>3, <3>1, NodeFacts DEF StoreInv
    <3>2. CASE kind = "desc"
      BY <2>2, <2>3, <3>2, NodeFacts DEF StoreInv
    <3> QED
      BY <3>1, <3>2
  <2>5. ASSUME NEW d \in Extracted(src), Id(d) = i, d \notin Flaky PROVE m.def = d
    <3>1. PICK n \in StoredAt(i) : n.def = d
      BY <2>1, <2>5
    <3>2. n = m
      BY <2>2, <3>1 DEF StoredAt, StoreInv
    <3> QED
      BY <3>1, <3>2
  <2> QED
    BY <2>2, <2>4, <2>5
<1> QED
  BY <1>1, <1>2

\* What an upsert stores: one node for each id, of its last definition.
LEMMA UpsertFacts ==
  ASSUME StoreInv, NEW src \in Sources, NEW new \in Upserts(src)
  PROVE  /\ new \subseteq NodeType
         /\ \A n \in new : /\ n.def \in Stored(src)
                           /\ n.code \in Vectors(src, IdOf(n), "code")
                           /\ n.desc \in Vectors(src, IdOf(n), "desc")
         /\ \A n, m \in new : IdOf(n) = IdOf(m) => n = m
<1> DEFINE V(d) == [def: {d}, code: Vectors(src, Id(d), "code"),
                    desc: Vectors(src, Id(d), "desc")]
           versions == [d \in Stored(src) |-> V(d)]
<1>1. PICK c \in Selections(versions) : new = Range(c)
  BY DEF Upserts
<1>2. DOMAIN c = Stored(src) /\ \A d \in Stored(src) : c[d] \in V(d)
  BY DEF Selections
<1>3. \A d \in Stored(src) : /\ c[d].def = d
                             /\ c[d].code \in Vectors(src, Id(d), "code")
                             /\ c[d].desc \in Vectors(src, Id(d), "desc")
                             /\ c[d] = [def |-> d, code |-> c[d].code, desc |-> c[d].desc]
  BY <1>2
<1>4. new = {c[d] : d \in Stored(src)}
  BY <1>1, <1>2 DEF Range
<1>5. ASSUME NEW n \in new
      PROVE  /\ n \in NodeType /\ n.def \in Stored(src) /\ n = c[n.def]
             /\ n.code \in Vectors(src, IdOf(n), "code")
             /\ n.desc \in Vectors(src, IdOf(n), "desc")
  <2>1. PICK d \in Stored(src) : n = c[d]
    BY <1>4
  <2>2. d \in Definitions
    BY StoredIsUnique
  <2>3. IdOf(n) = Id(d) /\ n.def = d
    BY <1>3, <2>1 DEF IdOf
  <2>4. n.code \in Vectors(src, IdOf(n), "code") /\ n.desc \in Vectors(src, IdOf(n), "desc")
    BY <1>3, <2>1, <2>3
  <2>5. n.code \in Definitions \cup {None} /\ n.desc \in Definitions \cup {None}
    BY <2>4, VectorFacts
  <2>6. n = [def |-> d, code |-> n.code, desc |-> n.desc]
    BY <1>3, <2>1
  <2>7. n \in NodeType
    BY <2>2, <2>5, <2>6 DEF NodeType
  <2> QED
    BY <2>1, <2>3, <2>4, <2>7
<1>6. ASSUME NEW n \in new, NEW m \in new, IdOf(n) = IdOf(m) PROVE n = m
  <2>1. n.def = m.def
    BY <1>5, <1>6, StoredIsUnique DEF IdOf
  <2> QED
    BY <1>5, <2>1
<1> QED
  BY <1>5, <1>6

\* An upsert leaves the store in order.
LEMMA UpsertKeepsStore ==
  ASSUME StoreInv, NEW src \in Sources, NEW new \in Upserts(src),
         nodes' = new \cup {n \in nodes : \A m \in new : IdOf(m) # IdOf(n)}
  PROVE  StoreInv' /\ \A n \in nodes : \E m \in nodes' : IdOf(m) = IdOf(n)
<1>1. nodes' \subseteq NodeType
  BY UpsertFacts DEF StoreInv
<1>2. ASSUME NEW n \in new
      PROVE  /\ n.code = None \/ Id(n.code) = IdOf(n)
             /\ n.desc = None \/ Id(n.desc) = IdOf(n)
  <2>1. n.code \in Vectors(src, IdOf(n), "code") /\ n.desc \in Vectors(src, IdOf(n), "desc")
    BY UpsertFacts
  <2> QED
    BY <2>1, VectorFacts
<1>3. \A n, m \in nodes' : IdOf(n) = IdOf(m) => n = m
  BY UpsertFacts DEF StoreInv
<1>4. ASSUME NEW n \in new, NEW v \in Definitions, v \in {n.code, n.desc}, v # n.def,
             n.def \notin Flaky
      PROVE  \E s \in Sources : {n.def, v} \subseteq Extracted(s)
  <2>1. v # None
    BY GraphAssumption DEF AllVectors
  <2>2. PICK kind \in {"code", "desc"} : v = n[kind] /\ v \in Vectors(src, IdOf(n), kind)
    BY <1>4, UpsertFacts
  <2>3. n.def \in Extracted(src)
    BY StoredIsUnique, UpsertFacts
  <2>4. CASE v \in Extracted(src)
    BY <2>3, <2>4
  <2>5. CASE v \notin Extracted(src)
    <3>1. PICK m \in nodes : /\ m[kind] = v
                             /\ \A d \in Extracted(src) : Id(d) = IdOf(n) =>
                                  d \in Flaky \/ m.def = d
      BY <2>1, <2>2, <2>5, VectorFacts
    <3>2. m.def = n.def
      BY <1>4, <2>3, <3>1 DEF IdOf
    <3>3. v \in {m.code, m.desc}
      BY <3>1
    <3> QED
      BY <1>4, <3>2, <3>3 DEF StoreInv, VectorsAreOfSource
  <2> QED
    BY <2>4, <2>5
<1>5. VectorsAreOfSource'
  <2> SUFFICES ASSUME NEW n \in nodes', NEW v \in Definitions,
                      v \in {n.code, n.desc}, v # n.def
               PROVE  \/ n.def \in Flaky
                      \/ \E s \in Sources : {n.def, v} \subseteq Extracted(s)
    BY DEF VectorsAreOfSource
  <2>1. CASE n \in new
    BY <1>4, <2>1
  <2>2. CASE n \in nodes
    BY <2>2 DEF StoreInv, VectorsAreOfSource
  <2> QED
    BY <2>1, <2>2
<1>6. \A n \in nodes' : /\ n.code = None \/ Id(n.code) = IdOf(n)
                        /\ n.desc = None \/ Id(n.desc) = IdOf(n)
  BY <1>2 DEF StoreInv
<1>7. \A n \in nodes : \E m \in nodes' : IdOf(m) = IdOf(n)
  OBVIOUS
<1> QED
  BY <1>1, <1>3, <1>5, <1>6, <1>7 DEF StoreInv

LEMMA DeletionKeepsStore ==
  ASSUME StoreInv, nodes' \subseteq nodes
  PROVE  StoreInv'
  BY DEF StoreInv, VectorsAreOfSource

-----------------------------------------------------------------------------
(* Neighbours and edges                                                    *)

LEMMA IndexFacts ==
  ASSUME nodes \subseteq NodeType, NEW kind \in {"code", "desc"}
  PROVE  /\ Index(nodes, kind) \subseteq Definitions \cup Foreign
         /\ IsFiniteSet(Index(nodes, kind)) /\ None \notin Index(nodes, kind)
         /\ \A n \in nodes : n[kind] # None => n[kind] \in Index(nodes, kind)
<1>1. \A n \in nodes : n[kind] \in Definitions \cup {None}
  BY DEF NodeType
<1>2. Index(nodes, kind) \subseteq Definitions \cup Foreign
  BY <1>1 DEF Index
<1>3. IsFiniteSet(Definitions \cup Foreign)
  BY GraphAssumption, FS_Union
<1>4. IsFiniteSet(Index(nodes, kind))
  BY <1>2, <1>3, FS_Subset
<1>5. None \notin Index(nodes, kind)
  BY GraphAssumption DEF Index, AllVectors
<1>6. \A n \in nodes : n[kind] # None => n[kind] \in Index(nodes, kind)
  BY DEF Index
<1> QED
  BY <1>2, <1>4, <1>5, <1>6

LEMMA ScoreFacts ==
  ASSUME NEW kind \in {"code", "desc"}, NEW v \in AllVectors, NEW w \in AllVectors
  PROVE  ScoreBy(kind)[<<v, w>>] \in 0 .. 10
<1>1. <<v, w>> \in AllVectors \X AllVectors
  OBVIOUS
<1>2. ScoreBy(kind) \in [AllVectors \X AllVectors -> 0 .. 10]
  BY GraphAssumption DEF ScoreBy
<1> QED
  BY <1>1, <1>2

\* What the index leaves out was crowded out.
LEMMA LeftOutIsCrowded ==
  ASSUME nodes \subseteq NodeType, NEW kind \in {"code", "desc"}, NEW v,
         NEW top \in Nat, NEW s \in Nearest(nodes, kind, v, top),
         NEW x \in Index(nodes, kind), x \notin s
  PROVE  Crowded(kind, v, x, top)
<1> DEFINE I == Index(nodes, kind)
           nearer == {y \in I \ {x} : ScoreBy(kind)[<<v, y>>] >= ScoreBy(kind)[<<v, x>>]}
           size == IF Cardinality(I) < top THEN Cardinality(I) ELSE top
<1>1. /\ s \in SUBSET I /\ Cardinality(s) = size
      /\ \A y \in s, z \in I \ s : ScoreBy(kind)[<<v, y>>] >= ScoreBy(kind)[<<v, z>>]
  BY DEF Nearest, kSubset
<1>2. IsFiniteSet(I) /\ Cardinality(I) \in Nat
  BY IndexFacts, FS_CardinalityType
<1>3. Cardinality(s) = top
  <2>1. Cardinality(I) = Cardinality(s) => I = s
    BY <1>1, <1>2, FS_Subset
  <2> QED
    BY <1>1, <2>1
<1>4. s \in SUBSET nearer
  BY <1>1
<1>5. IsFiniteSet(nearer) /\ Cardinality(nearer) \in Nat
  <2>1. nearer \in SUBSET I
    OBVIOUS
  <2> HIDE DEF nearer, I
  <2> QED
    BY <1>2, <2>1, FS_Subset, FS_CardinalityType
<1>6. Cardinality(s) <= Cardinality(nearer)
  <2> HIDE DEF nearer
  <2> QED
    BY <1>4, <1>5, FS_Subset
<1> QED
  BY <1>3, <1>5, <1>6 DEF Crowded

LEMMA NeighboursAreNodes ==
  ASSUME NEW kind, NEW v, NEW source, NEW top, NEW b,
         NEW near \in Neighbours(nodes, kind, v, source, top, b)
  PROVE  near \subseteq nodes
  BY DEF Neighbours

\* Neighbours are visible nodes that have a vector in the index.
LEMMA NeighbourFacts ==
  ASSUME nodes \subseteq NodeType, NEW kind \in {"code", "desc"}, NEW v, NEW source,
         NEW top \in Nat, NEW b, NEW near \in Neighbours(nodes, kind, v, source, top, b)
  PROVE  /\ near \subseteq nodes
         /\ \A n \in near : /\ v # None /\ n[kind] \in Definitions
                            /\ IdOf(n) # source /\ Visible(n, b)
         /\ \A n \in nodes : v # None /\ IdOf(n) # source /\ Visible(n, b) /\ n[kind] # None =>
              n \in near \/ Crowded(kind, v, n[kind], top)
<1>1. CASE v = None
  BY <1>1 DEF Neighbours
<1>2. CASE v # None
  <2>1. PICK s \in Nearest(nodes, kind, v, top) :
          near = {n \in nodes : n[kind] \in s /\ IdOf(n) # source /\ Visible(n, b)}
    BY <1>2 DEF Neighbours
  <2>2. s \subseteq Index(nodes, kind)
    BY DEF Nearest, kSubset
  <2>3. \A n \in nodes : n[kind] \in Definitions \cup {None}
    BY DEF NodeType
  <2>4. \A n \in near : n[kind] \in Definitions
    BY <2>1, <2>2, <2>3, IndexFacts
  <2>5. ASSUME NEW n \in nodes, n[kind] # None, n[kind] \notin s
        PROVE  Crowded(kind, v, n[kind], top)
    <3>1. n[kind] \in Index(nodes, kind)
      BY <2>5, IndexFacts
    <3> QED
      BY <2>5, <3>1, LeftOutIsCrowded
  <2> QED
    BY <1>2, <2>1, <2>4, <2>5
<1> QED
  BY <1>1, <1>2

LEMMA Weighted ==
  ASSUME NEW a \in 0 .. 10, NEW w \in Nat
  PROVE  w * a \in 0 .. 10 * w
<1>1. a \in {0, 1, 2, 3, 4, 5, 6, 7, 8, 9, 10}
  OBVIOUS
<1> QED
  BY <1>1

\* The score of an edge is at most a hundred.
LEMMA CombinedFacts ==
  ASSUME NEW n \in NodeType, NEW m \in NodeType,
         NEW byCode \in BOOLEAN, NEW byDesc \in BOOLEAN, byCode \/ byDesc,
         byCode => n.code # None /\ m.code # None,
         byDesc => n.desc # None /\ m.desc # None
  PROVE  Combined(n, m, byCode, byDesc) \in 0 .. 100
<1> DEFINE code == CodeScore[<<n.code, m.code>>]
           desc == DescScore[<<n.desc, m.desc>>]
<1>0. \A v, w \in Definitions :
        CodeScore[<<v, w>>] \in 0 .. 10 /\ DescScore[<<v, w>>] \in 0 .. 10
  BY GraphAssumption DEF AllVectors
<1>1. byCode => code \in 0 .. 10
  BY <1>0, NodeFacts
<1>2. byDesc => desc \in 0 .. 10
  BY <1>0, NodeFacts
<1>3. CASE byCode /\ byDesc
  <2> DEFINE ofCode == CodeWeight * code
             ofDesc == DescWeight * desc
  <2>1. Combined(n, m, byCode, byDesc) = ofCode + ofDesc
    BY <1>3 DEF Combined
  <2> HIDE DEF code, desc
  <2>2. ofCode \in 0 .. 10 * CodeWeight /\ ofDesc \in 0 .. 10 * DescWeight
    BY <1>1, <1>2, <1>3, Weighted, GraphAssumption
  <2>3. CodeWeight + DescWeight = 10 /\ CodeWeight \in Nat /\ DescWeight \in Nat
    BY GraphAssumption
  <2> HIDE DEF ofCode, ofDesc
  <2> QED
    BY <2>1, <2>2, <2>3
<1>4. CASE byCode /\ ~byDesc
  <2>1. Combined(n, m, byCode, byDesc) = 10 * code
    BY <1>4 DEF Combined
  <2> HIDE DEF code, desc
  <2>2. code \in 0 .. 10
    BY <1>1, <1>4
  <2> QED
    BY <2>1, <2>2
<1>5. CASE ~byCode
  <2>1. Combined(n, m, byCode, byDesc) = 10 * desc
    BY <1>5 DEF Combined
  <2> HIDE DEF code, desc
  <2> QED
    BY <1>2, <1>5, <2>1
<1> QED
  BY <1>3, <1>4, <1>5

\* Edges of E go from a smaller id to a larger, join what is stored, and each
\* pair once; built without tests, none begins at a test.
Simple(E, b) ==
    /\ E \subseteq [from: Ids, to: Ids, score: 0 .. 100]
    /\ \A e \in E : IdRank[e.from] < IdRank[e.to]
    /\ \A e \in E : \E n, m \in nodes : IdOf(n) = e.from /\ IdOf(m) = e.to
    /\ \A e, f \in E : e.from = f.from /\ e.to = f.to => e = f
    /\ b \/ \A e \in E : ~IsTest(e.from)

\* NoneIsMissed, of edges that are not inserted yet.
MustJoin(n, m) ==
    LET Both(kind) == n[kind] # None /\ m[kind] # None
    IN  /\ IdRank[IdOf(n)] < IdRank[IdOf(m)]
        /\ Both("code") \/ Both("desc")
        /\ Combined(n, m, Both("code"), Both("desc")) >= Threshold
        /\ \A kind \in {"code", "desc"} :
               Both(kind) => ~Crowded(kind, n[kind], m[kind], TopN)

Complete(E, b) ==
    \A n, m \in Embedded(nodes, b) :
        MustJoin(n, m) => \E e \in E : e.from = IdOf(n) /\ e.to = IdOf(m)

LEMMA CompleteMisses == NoneIsMissed <=> Complete(edges, builtWith)
  BY DEF NoneIsMissed, Complete, MustJoin

\* The edges from one node, of one answer of each index.
LEMMA EdgesFromFacts ==
  ASSUME nodes \subseteq NodeType, NEW b \in BOOLEAN, NEW n \in Embedded(nodes, b),
         NEW C \in Neighbours(nodes, "code", n.code, IdOf(n), TopN, b),
         NEW D \in Neighbours(nodes, "desc", n.desc, IdOf(n), TopN, b)
  PROVE  /\ \A e \in EdgesFrom(n, C, D) :
              /\ e \in [from: Ids, to: Ids, score: 0 .. 100]
              /\ IdRank[e.from] < IdRank[e.to]
              /\ \E m \in C \cup D : e = [from |-> IdOf(n), to |-> IdOf(m),
                                          score |-> Combined(n, m, m \in C, m \in D)]
         /\ \A m \in Embedded(nodes, b) :
              MustJoin(n, m) => \E e \in EdgesFrom(n, C, D) : e.from = IdOf(n) /\ e.to = IdOf(m)
<1>1. TopN \in Nat /\ n \in nodes /\ n \in NodeType
  BY GraphAssumption DEF Embedded
<1>2. ASSUME NEW kind \in {"code", "desc"},
             NEW near \in Neighbours(nodes, kind, n[kind], IdOf(n), TopN, b)
      PROVE  /\ near \subseteq nodes
             /\ \A m \in near : n[kind] # None /\ m[kind] \in Definitions
             /\ \A m \in nodes :
                  n[kind] # None /\ IdOf(m) # IdOf(n) /\ Visible(m, b) /\ m[kind] # None =>
                    m \in near \/ Crowded(kind, n[kind], m[kind], TopN)
  BY <1>1, NeighbourFacts
<1>3. /\ C \subseteq nodes /\ D \subseteq nodes
      /\ \A m \in C : n.code # None /\ m.code \in Definitions
      /\ \A m \in D : n.desc # None /\ m.desc \in Definitions
      /\ \A m \in nodes : n.code # None /\ IdOf(m) # IdOf(n) /\ Visible(m, b) /\ m.code # None =>
            m \in C \/ Crowded("code", n.code, m.code, TopN)
      /\ \A m \in nodes : n.desc # None /\ IdOf(m) # IdOf(n) /\ Visible(m, b) /\ m.desc # None =>
            m \in D \/ Crowded("desc", n.desc, m.desc, TopN)
  BY <1>2
<1>4. None \notin Definitions
  BY GraphAssumption DEF AllVectors
<1>5. ASSUME NEW m \in C \cup D
      PROVE  Combined(n, m, m \in C, m \in D) \in 0 .. 100 /\ m \in NodeType
  <2>1. m \in NodeType /\ (m \in C) \in BOOLEAN /\ (m \in D) \in BOOLEAN
    BY <1>3
  <2>2. m \in C => n.code # None /\ m.code # None
    BY <1>3, <1>4
  <2>3. m \in D => n.desc # None /\ m.desc # None
    BY <1>3, <1>4
  <2> QED
    BY <1>1, <1>5, <2>1, <2>2, <2>3, CombinedFacts
<1> DEFINE near == {m \in C \cup D : IdRank[IdOf(n)] < IdRank[IdOf(m)]}
           Edge(m) == [from |-> IdOf(n), to |-> IdOf(m),
                       score |-> Combined(n, m, m \in C, m \in D)]
<1>6. EdgesFrom(n, C, D) = {e \in {Edge(m) : m \in near} : e.score >= Threshold}
  BY DEF EdgesFrom, EdgesTo
<1>7. ASSUME NEW e \in EdgesFrom(n, C, D)
      PROVE  /\ e \in [from: Ids, to: Ids, score: 0 .. 100]
             /\ IdRank[e.from] < IdRank[e.to]
             /\ \E m \in C \cup D : e = Edge(m)
  <2>1. PICK m \in near : e = Edge(m)
    BY <1>6
  <2>2. IdOf(n) \in Ids /\ IdOf(m) \in Ids
    BY <1>1, <1>5, NodeFacts
  <2>3. Combined(n, m, m \in C, m \in D) \in 0 .. 100
    BY <1>5
  <2> QED
    BY <2>1, <2>2, <2>3
<1>8. ASSUME NEW m \in Embedded(nodes, b), MustJoin(n, m)
      PROVE  \E e \in EdgesFrom(n, C, D) : e.from = IdOf(n) /\ e.to = IdOf(m)
  <2> DEFINE both == [code |-> n.code # None /\ m.code # None,
                      desc |-> n.desc # None /\ m.desc # None]
  <2>1. /\ IdRank[IdOf(n)] < IdRank[IdOf(m)]
        /\ both.code \/ both.desc
        /\ Combined(n, m, both.code, both.desc) >= Threshold
        /\ both.code => ~Crowded("code", n.code, m.code, TopN)
        /\ both.desc => ~Crowded("desc", n.desc, m.desc, TopN)
    BY <1>8 DEF MustJoin
  <2>2. m \in nodes /\ m \in NodeType /\ Visible(m, b)
    BY DEF Embedded
  <2>3. IdOf(m) # IdOf(n)
    <3>1. IdRank[IdOf(n)] \in Int
      BY <1>1, NodeFacts, GraphAssumption
    <3> QED
      BY <2>1, <3>1
  <2>4. m \in C <=> both.code
    BY <1>3, <1>4, <2>1, <2>2, <2>3
  <2>5. m \in D <=> both.desc
    BY <1>3, <1>4, <2>1, <2>2, <2>3
  <2>6. both.code \in BOOLEAN /\ both.desc \in BOOLEAN
    OBVIOUS
  <2> HIDE DEF both
  <2>7. (m \in C) = both.code /\ (m \in D) = both.desc
    BY <2>4, <2>5, <2>6
  <2>8. m \in near
    BY <2>1, <2>4, <2>5
  <2>9. Edge(m).score >= Threshold
    BY <2>1, <2>7
  <2>10. Edge(m) \in EdgesFrom(n, C, D)
    BY <1>6, <2>8, <2>9
  <2> QED
    BY <2>10
<1> QED
  BY <1>7, <1>8

\* The sets of edges compute_similarity_edges may return.
LEMMA EdgeSetFacts ==
  ASSUME StoreInv, NEW b \in BOOLEAN, NEW E \in EdgeSets(nodes, b)
  PROVE  Simple(E, b) /\ Complete(E, b)
<1> DEFINE Sets(n) == {EdgesFrom(n, c, d) :
                         c \in Neighbours(nodes, "code", n.code, IdOf(n), TopN, b),
                         d \in Neighbours(nodes, "desc", n.desc, IdOf(n), TopN, b)}
           sets == [n \in Embedded(nodes, b) |-> Sets(n)]
<1>1. PICK c \in Selections(sets) : E = UNION Range(c)
  <2>1. EdgeSets(nodes, b) = {UNION Range(c) : c \in Selections(sets)}
    BY DEF EdgeSets
  <2> HIDE DEF sets
  <2> QED
    BY <2>1
<1>2. DOMAIN c = Embedded(nodes, b) /\ \A n \in Embedded(nodes, b) : c[n] \in Sets(n)
  BY DEF Selections
<1>3. \A e : e \in E <=> \E n \in Embedded(nodes, b) : e \in c[n]
  BY <1>1, <1>2 DEF Range
<1>4. nodes \subseteq NodeType /\ \A n, m \in nodes : IdOf(n) = IdOf(m) => n = m
  BY DEF StoreInv
<1>5. Embedded(nodes, b) \subseteq nodes /\ \A n \in Embedded(nodes, b) : Visible(n, b)
  BY DEF Embedded
<1>6. ASSUME NEW n \in Embedded(nodes, b)
      PROVE  /\ \A e \in c[n] :
                  /\ e \in [from: Ids, to: Ids, score: 0 .. 100]
                  /\ IdRank[e.from] < IdRank[e.to]
                  /\ e.from = IdOf(n)
                  /\ \E m \in nodes : e.to = IdOf(m)
             /\ \A e, f \in c[n] : e.to = f.to => e = f
             /\ \A m \in Embedded(nodes, b) :
                  MustJoin(n, m) => \E e \in c[n] : e.from = IdOf(n) /\ e.to = IdOf(m)
  <2>1. PICK C \in Neighbours(nodes, "code", n.code, IdOf(n), TopN, b),
             D \in Neighbours(nodes, "desc", n.desc, IdOf(n), TopN, b) :
               c[n] = EdgesFrom(n, C, D)
    BY <1>2
  <2>2. /\ \A e \in c[n] :
              /\ e \in [from: Ids, to: Ids, score: 0 .. 100]
              /\ IdRank[e.from] < IdRank[e.to]
              /\ \E m \in C \cup D : e = [from |-> IdOf(n), to |-> IdOf(m),
                                          score |-> Combined(n, m, m \in C, m \in D)]
        /\ \A m \in Embedded(nodes, b) :
              MustJoin(n, m) => \E e \in c[n] : e.from = IdOf(n) /\ e.to = IdOf(m)
    BY <1>4, <2>1, EdgesFromFacts
  <2>3. C \subseteq nodes /\ D \subseteq nodes
    BY NeighboursAreNodes
  <2>4. \A e \in c[n] : e.from = IdOf(n) /\ \E m \in nodes : e.to = IdOf(m)
    BY <2>2, <2>3
  <2>5. ASSUME NEW e \in c[n], NEW f \in c[n], e.to = f.to PROVE e = f
    <3>1. PICK m \in C \cup D : e = [from |-> IdOf(n), to |-> IdOf(m),
                                     score |-> Combined(n, m, m \in C, m \in D)]
      BY <2>2
    <3>2. PICK k \in C \cup D : f = [from |-> IdOf(n), to |-> IdOf(k),
                                     score |-> Combined(n, k, k \in C, k \in D)]
      BY <2>2
    <3>3. m = k
      BY <1>4, <2>3, <2>5, <3>1, <3>2
    <3> QED
      BY <3>1, <3>2, <3>3
  <2> QED
    BY <2>2, <2>4, <2>5
<1> HIDE DEF sets, Sets
<1>7. E \subseteq [from: Ids, to: Ids, score: 0 .. 100] /\ \A e \in E : IdRank[e.from] < IdRank[e.to]
  BY <1>3, <1>6
<1>8. \A e \in E : \E n, m \in nodes : IdOf(n) = e.from /\ IdOf(m) = e.to
  BY <1>3, <1>5, <1>6
<1>9. ASSUME NEW e \in E, NEW f \in E, e.from = f.from, e.to = f.to PROVE e = f
  <2>1. PICK n \in Embedded(nodes, b) : e \in c[n]
    BY <1>3
  <2>2. PICK m \in Embedded(nodes, b) : f \in c[m]
    BY <1>3
  <2>3. n = m
    BY <1>4, <1>5, <1>6, <1>9, <2>1, <2>2
  <2> QED
    BY <1>6, <1>9, <2>1, <2>2, <2>3
<1>10. ASSUME NEW e \in E PROVE b \/ ~IsTest(e.from)
  <2>1. PICK n \in Embedded(nodes, b) : e \in c[n]
    BY <1>3
  <2>2. Visible(n, b) /\ e.from = IdOf(n)
    BY <1>5, <1>6, <2>1
  <2> QED
    BY <2>2 DEF Visible
<1>11. Complete(E, b)
  BY <1>3, <1>6 DEF Complete
<1> QED
  BY <1>7, <1>8, <1>9, <1>10, <1>11 DEF Simple

-----------------------------------------------------------------------------
(* Searches                                                                *)

QueryType ==
    [text: Queries \cup {None}, code: {None} \cup SUBSET NodeType,
     desc: {None} \cup SUBSET NodeType, quiet: BOOLEAN]

\* What an index returned are functions with a vector in it; if the store did
\* not change since, what it left out was crowded out.
HitsInv(kind) ==
    query[kind] # None =>
        /\ query.text \in Queries /\ query[kind] \subseteq NodeType
        /\ \A n \in query[kind] : n[kind] \in Definitions /\ Visible(n, FALSE)
        /\ query.quiet =>
             /\ query[kind] \subseteq nodes
             /\ \A n \in nodes : Visible(n, FALSE) /\ n[kind] # None =>
                   n \in query[kind] \/ Crowded(kind, query.text, n[kind], SearchTop)

QueryInv == query \in QueryType /\ HitsInv("code") /\ HitsInv("desc")

\* The ranking lists every id once, up to SearchTop; what is behind that has no
\* better score.
LEMMA RankingFacts ==
  ASSUME NEW scores, IsFiniteSet(DOMAIN scores), NEW ids \in Rankings(scores)
  PROVE  /\ ids \in Seq(DOMAIN scores) /\ Len(ids) <= SearchTop
         /\ \A i, j \in DOMAIN ids : ids[i] = ids[j] => i = j
         /\ \A x \in DOMAIN scores :
              \/ \E i \in DOMAIN ids : ids[i] = x
              \/ Len(ids) = SearchTop /\ \A i \in DOMAIN ids : scores[ids[i]] >= scores[x]
<1> DEFINE S == DOMAIN scores
           n == Cardinality(S)
           Cut(s) == SubSeq(s, 1, IF Len(s) < SearchTop THEN Len(s) ELSE SearchTop)
           Sorted == {t \in SetToSeqs(S) :
                        \A i, j \in DOMAIN t : i < j => scores[t[i]] >= scores[t[j]]}
<1>1. PICK s \in Sorted : ids = Cut(s)
  <2>1. Rankings(scores) = {Cut(s) : s \in Sorted}
    BY DEF Rankings
  <2> HIDE DEF Sorted, Cut
  <2> QED
    BY <2>1
<1>2. n \in Nat
  BY FS_CardinalityType
<1> HIDE DEF n
<1>3. /\ s \in [1 .. n -> S]
      /\ \A i, j \in 1 .. n : i # j => s[i] # s[j]
      /\ \A i, j \in 1 .. n : i < j => scores[s[i]] >= scores[s[j]]
  BY DEF SetToSeqs, n
<1>4. \A x \in S : \E i \in 1 .. n : s[i] = x
  <2>1. s \in Injection(1 .. n, S)
    BY <1>3 DEF Injection, IsInjective
  <2>2. Cardinality(1 .. n) = n
    BY <1>2, FS_Interval
  <2>3. s \in Surjection(1 .. n, S)
    BY <2>1, <2>2, FS_Injection DEF n
  <2> QED
    BY <2>3 DEF Surjection
<1>5. s \in Seq(S) /\ Len(s) = n /\ SearchTop \in Nat
  BY <1>2, <1>3, GraphAssumption
<1> DEFINE k == IF n < SearchTop THEN n ELSE SearchTop
<1>6. k \in 0 .. n /\ k <= SearchTop /\ (k = SearchTop \/ k = n)
  BY <1>2, <1>5
<1>7. ids = SubSeq(s, 1, k)
  BY <1>1, <1>5
<1> HIDE DEF k, S
<1>8. ids \in Seq(S) /\ Len(ids) = k /\ DOMAIN ids = 1 .. k /\ \A i \in 1 .. k : ids[i] = s[i]
  BY <1>5, <1>6, <1>7
<1>9. \A i \in 1 .. k : i \in 1 .. n
  BY <1>2, <1>6
<1>10. \A i, j \in DOMAIN ids : ids[i] = ids[j] => i = j
  BY <1>3, <1>8, <1>9
<1>11. ASSUME NEW x \in S, \A i \in DOMAIN ids : ids[i] # x
       PROVE  Len(ids) = SearchTop /\ \A i \in DOMAIN ids : scores[ids[i]] >= scores[x]
  <2>1. PICK j \in 1 .. n : s[j] = x
    BY <1>4
  <2>2. j \notin 1 .. k
    BY <1>8, <1>11, <2>1
  <2>3. k < j /\ k < n
    BY <1>2, <1>6, <2>2
  <2>4. k = SearchTop
    BY <1>2, <1>6, <2>3
  <2>5. ASSUME NEW i \in 1 .. k PROVE scores[s[i]] >= scores[x]
    <3>1. i \in 1 .. n /\ i < j
      BY <1>6, <1>9, <2>3
    <3> QED
      BY <1>3, <2>1, <3>1
  <2> QED
    BY <1>8, <2>4, <2>5
<1> QED
  BY <1>6, <1>8, <1>10, <1>11 DEF S

\* The score of a function is the best of what its vectors have.
LEMMA ScoresFacts ==
  ASSUME NEW v \in Queries, NEW C, NEW D, C \subseteq NodeType, D \subseteq NodeType,
         \A n \in C : n.code \in Definitions, \A n \in D : n.desc \in Definitions
  PROVE  /\ DOMAIN Scores(v, C, D) = {IdOf(n) : n \in C \cup D}
         /\ \A i \in DOMAIN Scores(v, C, D) :
              /\ Scores(v, C, D)[i] \in 0 .. 10
              /\ \/ \E n \in C : IdOf(n) = i /\ Scores(v, C, D)[i] = CodeScore[<<v, n.code>>]
                 \/ \E n \in D : IdOf(n) = i /\ Scores(v, C, D)[i] = DescScore[<<v, n.desc>>]
              /\ \A n \in C : IdOf(n) = i => Scores(v, C, D)[i] >= CodeScore[<<v, n.code>>]
              /\ \A n \in D : IdOf(n) = i => Scores(v, C, D)[i] >= DescScore[<<v, n.desc>>]
<1> DEFINE I == {IdOf(n) : n \in C \cup D}
           Of(i) == {CodeScore[<<v, n.code>>] : n \in {m \in C : IdOf(m) = i}}
                     \cup {DescScore[<<v, n.desc>>] : n \in {m \in D : IdOf(m) = i}}
<1>1. Scores(v, C, D) = [i \in I |-> Max(Of(i))]
  BY DEF Scores
<1>2. \A w \in Definitions : CodeScore[<<v, w>>] \in 0 .. 10 /\ DescScore[<<v, w>>] \in 0 .. 10
  BY GraphAssumption DEF AllVectors
<1>3. \A i : Of(i) \subseteq 0 .. 10
  BY <1>2
<1>4. \A i \in I : Of(i) # {}
  OBVIOUS
<1>5. \A i, y : y \in Of(i) <=> \/ \E n \in C : IdOf(n) = i /\ y = CodeScore[<<v, n.code>>]
                               \/ \E n \in D : IdOf(n) = i /\ y = DescScore[<<v, n.desc>>]
  OBVIOUS
<1> HIDE DEF Of, I
<1>6. \A i \in I : Max(Of(i)) \in Of(i) /\ \A y \in Of(i) : Max(Of(i)) >= y
  BY <1>3, <1>4, MaxOfBounded
<1>7. ASSUME NEW i \in I
      PROVE  /\ Scores(v, C, D)[i] \in Of(i)
             /\ \A y \in Of(i) : Scores(v, C, D)[i] >= y
  BY <1>1, <1>6
<1>8. DOMAIN Scores(v, C, D) = I
  BY <1>1
<1> DEFINE scores == Scores(v, C, D)
<1> HIDE DEF scores
<1>9. ASSUME NEW i \in I
      PROVE  /\ scores[i] \in 0 .. 10
             /\ \/ \E n \in C : IdOf(n) = i /\ scores[i] = CodeScore[<<v, n.code>>]
                \/ \E n \in D : IdOf(n) = i /\ scores[i] = DescScore[<<v, n.desc>>]
             /\ \A n \in C : IdOf(n) = i => scores[i] >= CodeScore[<<v, n.code>>]
             /\ \A n \in D : IdOf(n) = i => scores[i] >= DescScore[<<v, n.desc>>]
  <2>1. scores[i] \in Of(i) /\ \A y \in Of(i) : scores[i] >= y
    BY <1>7 DEF scores
  <2> QED
    BY <1>3, <1>5, <2>1
<1> QED
  BY <1>8, <1>9 DEF I, scores

LEMMA IdsAreFinite == IsFiniteSet(Ids)
<1> DEFINE f == [d \in Definitions |-> Id(d)]
<1>1. IsFiniteSet({f[d] : d \in Definitions})
  <2>1. IsFiniteSet(Definitions) /\ Definitions = DOMAIN f
    BY GraphAssumption
  <2> HIDE DEF f
  <2> QED
    BY <2>1, ImageIsFinite
<1>2. {f[d] : d \in Definitions} = Ids
  BY DEF Ids
<1> QED
  BY <1>1, <1>2

BestOf(v, n) == Max({IF n.code = None THEN 0 ELSE CodeScore[<<v, n.code>>],
                     IF n.desc = None THEN 0 ELSE DescScore[<<v, n.desc>>]})

LEMMA BestFacts ==
  ASSUME NEW v \in Queries, NEW n \in NodeType
  PROVE  /\ BestOf(v, n) \in 0 .. 10
         /\ n.code # None => BestOf(v, n) >= CodeScore[<<v, n.code>>]
         /\ n.desc # None => BestOf(v, n) >= DescScore[<<v, n.desc>>]
         /\ \/ BestOf(v, n) = 0
            \/ n.code # None /\ BestOf(v, n) = CodeScore[<<v, n.code>>]
            \/ n.desc # None /\ BestOf(v, n) = DescScore[<<v, n.desc>>]
<1> DEFINE a == IF n.code = None THEN 0 ELSE CodeScore[<<v, n.code>>]
           b == IF n.desc = None THEN 0 ELSE DescScore[<<v, n.desc>>]
<1>1. \A w \in Definitions : CodeScore[<<v, w>>] \in 0 .. 10 /\ DescScore[<<v, w>>] \in 0 .. 10
  BY GraphAssumption DEF AllVectors
<1>2. a \in 0 .. 10 /\ b \in 0 .. 10
  BY <1>1, NodeFacts
<1>3. BestOf(v, n) = Max({a, b})
  BY DEF BestOf
<1> HIDE DEF a, b
<1>4. Max({a, b}) \in {a, b} /\ \A y \in {a, b} : Max({a, b}) >= y
  <2> DEFINE S == {a, b}
  <2>1. S \subseteq 0 .. 10 /\ S # {}
    BY <1>2
  <2> HIDE DEF S
  <2>2. Max(S) \in S /\ \A y \in S : Max(S) >= y
    BY <2>1, MaxOfBounded
  <2> QED
    BY <2>2 DEF S
<1> QED
  BY <1>2, <1>3, <1>4 DEF a, b

\* SearchIsSound in two parts: what is listed, and that nothing else should be.
WellListed(r) ==
    /\ Len(r.ids) <= SearchTop
    /\ \A i, j \in DOMAIN r.ids : i # j => r.ids[i] # r.ids[j]
    /\ \A i \in DOMAIN r.ids : ~IsTest(r.ids[i]) /\ \E n \in nodes : IdOf(n) = r.ids[i]

AllListed(r) ==
    r.quiet =>
      \A n \in Embedded(nodes, FALSE) :
         \/ IdOf(n) \in Range(r.ids)
         \/ \E kind \in {"code", "desc"} :
               n[kind] # None /\ Crowded(kind, r.text, n[kind], SearchTop)
         \/ Len(r.ids) = SearchTop /\ \A i \in DOMAIN r.ids, m \in nodes :
               IdOf(m) = r.ids[i] => BestOf(r.text, m) >= BestOf(r.text, n)

LEMMA SearchParts ==
  SearchIsSound <=>
     (returned # None /\ returned.kind = "matches" =>
        WellListed(returned) /\ AllListed(returned))
  BY Zenon DEF SearchIsSound, WellListed, AllListed, BestOf

LEMMA SearchPartsNext ==
  (WellListed(returned) /\ AllListed(returned))' => SearchIsSound'
  BY SearchParts, PTL

\* What a search that ends returns.
LEMMA FetchIsSound ==
  ASSUME StoreInv, QueryInv, FetchRows
  PROVE  SearchIsSound'
<1> DEFINE v == query.text
           C == query.code
           D == query.desc
           scores == Scores(v, C, D)
           there == {IdOf(n) : n \in nodes}
<1>1. /\ v \in Queries /\ C \subseteq NodeType /\ D \subseteq NodeType
      /\ \A n \in C : n.code \in Definitions /\ Visible(n, FALSE)
      /\ \A n \in D : n.desc \in Definitions /\ Visible(n, FALSE)
      /\ query.quiet =>
           /\ C \subseteq nodes /\ D \subseteq nodes
           /\ \A n \in nodes : Visible(n, FALSE) /\ n.code # None =>
                 n \in C \/ Crowded("code", v, n.code, SearchTop)
           /\ \A n \in nodes : Visible(n, FALSE) /\ n.desc # None =>
                 n \in D \/ Crowded("desc", v, n.desc, SearchTop)
  BY DEF FetchRows, QueryInv, HitsInv
<1>2. PICK all \in Rankings(scores) :
        returned' = [kind |-> "matches", text |-> v, quiet |-> query.quiet,
                     ids |-> Only(all, there)]
  BY DEF FetchRows
<1>3. nodes' = nodes
  BY DEF FetchRows, graphVars
<1> HIDE DEF v, C, D
<1>4. /\ DOMAIN scores = {IdOf(n) : n \in C \cup D}
      /\ \A i \in DOMAIN scores :
           /\ scores[i] \in 0 .. 10
           /\ \/ \E n \in C : IdOf(n) = i /\ scores[i] = CodeScore[<<v, n.code>>]
              \/ \E n \in D : IdOf(n) = i /\ scores[i] = DescScore[<<v, n.desc>>]
           /\ \A n \in C : IdOf(n) = i => scores[i] >= CodeScore[<<v, n.code>>]
           /\ \A n \in D : IdOf(n) = i => scores[i] >= DescScore[<<v, n.desc>>]
  BY <1>1, ScoresFacts
<1> HIDE DEF scores
<1>5. \A i \in DOMAIN scores : i \in Ids /\ ~IsTest(i)
  BY <1>1, <1>4, NodeFacts DEF Visible
<1>6. IsFiniteSet(DOMAIN scores)
  BY <1>5, IdsAreFinite, FS_Subset
<1>7. /\ all \in Seq(DOMAIN scores) /\ Len(all) <= SearchTop
      /\ \A i, j \in DOMAIN all : all[i] = all[j] => i = j
      /\ \A x \in DOMAIN scores :
           \/ \E i \in DOMAIN all : all[i] = x
           \/ Len(all) = SearchTop /\ \A i \in DOMAIN all : scores[all[i]] >= scores[x]
  BY <1>6, RankingFacts
<1> DEFINE ids == Only(all, there)
<1>8. /\ ids \in Seq(DOMAIN scores) /\ Len(ids) <= Len(all)
      /\ \A j \in DOMAIN ids : ids[j] \in there /\ \E i \in DOMAIN all : all[i] = ids[j]
      /\ \A i, j \in DOMAIN ids : ids[i] = ids[j] => i = j
  BY <1>7, OnlyElements
<1>9. query.quiet => ids = all
  <2> SUFFICES ASSUME query.quiet PROVE ids = all
    OBVIOUS
  <2>1. \A i \in DOMAIN scores : i \in there
    BY <1>1, <1>4
  <2>2. \A i \in 1 .. Len(all) : all[i] \in there
    BY <1>7, <2>1
  <2> QED
    BY <1>7, <2>2, OnlyOfAll
<1> HIDE DEF ids, there
<1>10. Len(ids) <= SearchTop
  <2>1. Len(ids) \in Nat /\ Len(all) \in Nat /\ SearchTop \in Nat
    BY <1>7, <1>8, GraphAssumption
  <2> QED
    BY <1>7, <1>8, <2>1
<1>11. \A i \in DOMAIN ids : ~IsTest(ids[i]) /\ \E n \in nodes : IdOf(n) = ids[i]
  <2>1. \A i \in DOMAIN ids : ids[i] \in DOMAIN scores
    BY <1>8
  <2> QED
    BY <1>5, <1>8, <2>1 DEF there
<1>12. ASSUME query.quiet, NEW n \in Embedded(nodes, FALSE), IdOf(n) \notin Range(ids),
              \A kind \in {"code", "desc"} :
                 n[kind] = None \/ ~Crowded(kind, v, n[kind], SearchTop)
       PROVE  /\ Len(ids) = SearchTop
              /\ \A i \in DOMAIN ids, m \in nodes :
                   IdOf(m) = ids[i] => BestOf(v, m) >= BestOf(v, n)
  <2>1. n \in nodes /\ Visible(n, FALSE) /\ (n.code # None \/ n.desc # None)
    BY DEF Embedded
  <2>2. /\ n.code = None \/ ~Crowded("code", v, n.code, SearchTop)
        /\ n.desc = None \/ ~Crowded("desc", v, n.desc, SearchTop)
    BY <1>12
  <2>3. (n.code # None => n \in C) /\ (n.desc # None => n \in D)
    BY <1>1, <1>12, <2>1, <2>2
  <2>4. IdOf(n) \in DOMAIN scores
    BY <1>4, <2>1, <2>3
  <2>5. \A i \in DOMAIN ids : ids[i] # IdOf(n)
    BY <1>12 DEF Range
  <2>6. /\ Len(ids) = SearchTop
        /\ \A i \in DOMAIN ids : scores[ids[i]] >= scores[IdOf(n)]
    BY <1>7, <1>9, <1>12, <2>4, <2>5
  <2>7. scores[IdOf(n)] >= BestOf(v, n)
    <3>1. n \in NodeType
      BY <2>1 DEF StoreInv
    <3>2. /\ n.code # None => scores[IdOf(n)] >= CodeScore[<<v, n.code>>]
          /\ n.desc # None => scores[IdOf(n)] >= DescScore[<<v, n.desc>>]
          /\ scores[IdOf(n)] \in 0 .. 10
      BY <1>4, <2>3, <2>4
    <3>3. \/ BestOf(v, n) = 0
          \/ n.code # None /\ BestOf(v, n) = CodeScore[<<v, n.code>>]
          \/ n.desc # None /\ BestOf(v, n) = DescScore[<<v, n.desc>>]
      BY <1>1, <3>1, BestFacts
    <3> QED
      BY <3>2, <3>3
  <2>8. ASSUME NEW i \in DOMAIN ids, NEW m \in nodes, IdOf(m) = ids[i]
        PROVE  BestOf(v, m) >= BestOf(v, n)
    <3>1. m \in NodeType /\ n \in NodeType
      BY <2>1 DEF StoreInv
    <3>2. ids[i] \in DOMAIN scores
      BY <1>8
    <3>3. \/ \E k \in C : IdOf(k) = ids[i] /\ scores[ids[i]] = CodeScore[<<v, k.code>>]
          \/ \E k \in D : IdOf(k) = ids[i] /\ scores[ids[i]] = DescScore[<<v, k.desc>>]
      BY <1>4, <3>2
    <3>4. \A k \in C \cup D : IdOf(k) = IdOf(m) => k = m
      BY <1>1, <1>12 DEF StoreInv
    <3>5. \/ m.code \in Definitions /\ scores[ids[i]] = CodeScore[<<v, m.code>>]
          \/ m.desc \in Definitions /\ scores[ids[i]] = DescScore[<<v, m.desc>>]
      BY <1>1, <2>8, <3>3, <3>4
    <3>6. None \notin Definitions
      BY GraphAssumption DEF AllVectors
    <3>7. BestOf(v, m) >= scores[ids[i]]
      BY <1>1, <3>1, <3>5, <3>6, BestFacts
    <3>8. scores[ids[i]] >= scores[IdOf(n)]
      BY <2>6
    <3>9. /\ BestOf(v, m) \in Int /\ BestOf(v, n) \in Int
          /\ scores[ids[i]] \in Int /\ scores[IdOf(n)] \in Int
      <4>1. scores[ids[i]] \in 0 .. 10 /\ scores[IdOf(n)] \in 0 .. 10
        BY <1>4, <2>4, <3>2
      <4>2. BestOf(v, m) \in 0 .. 10 /\ BestOf(v, n) \in 0 .. 10
        BY <1>1, <3>1, BestFacts
      <4> QED
        BY <4>1, <4>2
    <3> QED
      BY <2>7, <3>7, <3>8, <3>9
  <2> QED
    BY <2>6, <2>8
<1>13. /\ returned'.ids = ids /\ returned'.quiet = query.quiet /\ returned'.text = v
  BY <1>2 DEF ids
<1>14. ASSUME returned'.quiet, NEW n \in Embedded(nodes', FALSE)
       PROVE  \/ IdOf(n) \in Range(ids)
              \/ \E kind \in {"code", "desc"} :
                    n[kind] # None /\ Crowded(kind, returned.text, n[kind], SearchTop)'
              \/ Len(ids) = SearchTop /\ \A i \in DOMAIN ids, m \in nodes' :
                    IdOf(m) = ids[i] => BestOf(returned'.text, m) >= BestOf(returned'.text, n)
  <2>1. \A kind \in {"code", "desc"} :
          Crowded(kind, v, n[kind], SearchTop) =>
             Crowded(kind, returned.text, n[kind], SearchTop)'
    BY <1>3, <1>13 DEF Crowded
  <2>2. query.quiet /\ n \in Embedded(nodes, FALSE)
    BY <1>3, <1>13, <1>14
  <2> QED
    BY <1>3, <1>12, <1>13, <2>1, <2>2
<1>15. WellListed(returned)'
  BY <1>3, <1>8, <1>10, <1>11, <1>13 DEF WellListed
<1>16. AllListed(returned)'
  BY <1>13, <1>14 DEF AllListed
<1> QED
  BY <1>15, <1>16, SearchPartsNext

-----------------------------------------------------------------------------
(* The graph                                                               *)

\* What is stored, what it is joined by, and what the active task holds.
GraphInv ==
    /\ tests \in BOOLEAN /\ builtWith \in BOOLEAN /\ whole \in BOOLEAN
    /\ pc \in {"idle", "stored", "deleted", "cleared", "found", "made", "open"}
    /\ StoreInv
    /\ Simple(edges, builtWith) /\ (whole => Complete(edges, builtWith))
    /\ pc = "stored" => todo \in Sources
    /\ pc = "cleared" => Simple(todo, builtWith) /\ Complete(todo, builtWith) /\ ~whole

LEMMA InitGraph == Init => GraphInv
<1> SUFFICES ASSUME Init PROVE GraphInv
  OBVIOUS
<1>1. nodes = {} /\ edges = {} /\ pc = "idle"
      /\ tests \in BOOLEAN /\ builtWith = tests /\ whole = TRUE
  BY DEF Init
<1>2. StoreInv
  BY <1>1 DEF StoreInv, VectorsAreOfSource
<1>3. Simple(edges, builtWith)
  BY <1>1 DEF Simple
<1>4. Complete(edges, builtWith)
  BY <1>1 DEF Complete, Embedded
<1> QED
  BY <1>1, <1>2, <1>3, <1>4 DEF GraphInv

\* What is crowded depends on the store alone.
LEMMA SameStore ==
  ASSUME nodes' = nodes
  PROVE  /\ \A kind, v, x, top : Crowded(kind, v, x, top)' <=> Crowded(kind, v, x, top)
         /\ \A n, m : MustJoin(n, m)' <=> MustJoin(n, m)
<1>1. \A kind, v, x, top : Crowded(kind, v, x, top)' <=> Crowded(kind, v, x, top)
  BY DEF Crowded
<1>2. \A n, m : MustJoin(n, m)' <=> MustJoin(n, m)
  BY <1>1 DEF MustJoin
<1> QED
  BY <1>1, <1>2

LEMMA StoreKeepsGraph ==
  ASSUME GraphInv, NEW src \in Sources, StoreFunctions(src)
  PROVE  GraphInv'
<1>1. PICK new \in Upserts(src) :
        nodes' = new \cup {n \in nodes : \A m \in new : IdOf(m) # IdOf(n)}
  BY DEF StoreFunctions
<1>2. StoreInv' /\ \A n \in nodes : \E m \in nodes' : IdOf(m) = IdOf(n)
  BY <1>1, UpsertKeepsStore DEF GraphInv
<1>3. /\ edges' = edges /\ tests' = tests /\ builtWith' = builtWith
      /\ todo' = src /\ pc' = "stored" /\ whole' = (whole /\ nodes' = nodes)
  BY DEF StoreFunctions
<1>4. Simple(edges, builtWith)'
  BY <1>2, <1>3 DEF GraphInv, Simple
<1>5. ASSUME whole' PROVE Complete(edges, builtWith)'
  <2>1. whole /\ nodes' = nodes
    BY <1>3, <1>5
  <2>2. Complete(edges, builtWith)
    BY <2>1 DEF GraphInv
  <2> QED
    BY <1>3, <2>1, <2>2, SameStore DEF Complete
<1>6. whole' \in BOOLEAN
  BY <1>3
<1> QED
  BY <1>2, <1>3, <1>4, <1>5, <1>6 DEF GraphInv

LEMMA DeletionKeepsGraph ==
  ASSUME GraphInv, DeleteMissing
  PROVE  GraphInv'
<1> DEFINE seen == {Id(d) : d \in Stored(todo)}
<1>1. /\ nodes' = {n \in nodes : IdOf(n) \in seen}
      /\ edges' = {e \in edges : e.from \in seen /\ e.to \in seen}
      /\ tests' = tests /\ builtWith' = builtWith
      /\ pc' \in {"idle", "deleted"} /\ whole' = (whole /\ nodes' = nodes)
  BY DEF DeleteMissing
<1> HIDE DEF seen
<1>2. StoreInv'
  BY <1>1, DeletionKeepsStore DEF GraphInv
<1>3. Simple(edges, builtWith)'
  BY <1>1 DEF GraphInv, Simple
<1>4. ASSUME whole' PROVE Complete(edges, builtWith)'
  <2>1. whole /\ nodes' = nodes
    BY <1>1, <1>4
  <2>2. \A n \in nodes : IdOf(n) \in seen
    BY <1>1, <2>1
  <2>3. edges' = edges
    BY <1>1, <2>2 DEF GraphInv, Simple
  <2>4. Complete(edges, builtWith)
    BY <2>1 DEF GraphInv
  <2> QED
    BY <1>1, <2>1, <2>3, <2>4, SameStore DEF Complete
<1> QED
  BY <1>1, <1>2, <1>3, <1>4 DEF GraphInv

LEMMA RebuildKeepsGraph ==
  ASSUME GraphInv, ClearEdges \/ InsertEdges
  PROVE  GraphInv'
<1>1. nodes' = nodes /\ tests' = tests
  BY DEF ClearEdges, InsertEdges
<1>2. StoreInv'
  BY <1>1 DEF GraphInv, StoreInv, VectorsAreOfSource
<1>3. CASE ClearEdges
  <2>1. /\ edges' = {} /\ builtWith' = tests /\ whole' = FALSE /\ pc' = "cleared"
        /\ todo' \in EdgeSets(nodes, tests)
    BY <1>3 DEF ClearEdges
  <2>2. Simple(todo', tests) /\ Complete(todo', tests)
    BY <2>1, EdgeSetFacts DEF GraphInv
  <2>3. Simple(todo, builtWith)' /\ Complete(todo, builtWith)'
    BY <1>1, <2>1, <2>2 DEF Simple, Complete, MustJoin, Crowded
  <2>4. Simple(edges, builtWith)'
    BY <2>1 DEF Simple
  <2> QED
    BY <1>1, <1>2, <2>1, <2>3, <2>4 DEF GraphInv
<1>4. CASE InsertEdges
  <2>1. /\ pc = "cleared" /\ edges' = todo /\ builtWith' = builtWith /\ whole' = TRUE
        /\ pc' = "idle"
    BY <1>4 DEF InsertEdges
  <2>2. Simple(edges, builtWith)' /\ Complete(edges, builtWith)'
    BY <1>1, <2>1 DEF GraphInv, Simple, Complete, MustJoin, Crowded
  <2> QED
    BY <1>1, <1>2, <2>1, <2>2 DEF GraphInv
<1> QED
  BY <1>3, <1>4

LEMMA EndKeepsGraph ==
  ASSUME GraphInv, NEW t \in BOOLEAN, End(t)
  PROVE  GraphInv'
<1>1. /\ nodes' = nodes /\ builtWith' = builtWith /\ whole' = whole
      /\ tests' = t /\ pc' = "idle"
      /\ IF pc = "cleared" THEN edges' \subseteq todo ELSE edges' = edges
  BY DEF End
<1>2. StoreInv'
  BY <1>1 DEF GraphInv, StoreInv, VectorsAreOfSource
<1>3. CASE pc = "cleared"
  <2>1. Simple(edges, builtWith)'
    BY <1>1, <1>3 DEF GraphInv, Simple
  <2> QED
    BY <1>1, <1>2, <1>3, <2>1 DEF GraphInv
<1>4. CASE pc # "cleared"
  <2>1. Simple(edges, builtWith)' /\ (whole' => Complete(edges, builtWith)')
    BY <1>1, <1>4 DEF GraphInv, Simple, Complete, MustJoin, Crowded
  <2> QED
    BY <1>1, <1>2, <2>1 DEF GraphInv
<1> QED
  BY <1>3, <1>4

\* Reports, searches and the clock do not touch the graph.
LEMMA OthersKeepGraph ==
  ASSUME GraphInv, UNCHANGED <<graphVars, tests, todo>>,
         pc' = pc \/ pc' \in {"idle", "found", "made", "open"}
  PROVE  GraphInv'
<1>1. UNCHANGED <<nodes, edges, builtWith, whole, tests, todo>>
  BY DEF graphVars
<1>2. StoreInv'
  BY <1>1 DEF GraphInv, StoreInv, VectorsAreOfSource
<1>3. Simple(edges, builtWith)' /\ (whole' => Complete(edges, builtWith)')
  BY <1>1 DEF GraphInv, Simple, Complete, MustJoin, Crowded
<1>4. pc' = "cleared" => Simple(todo, builtWith)' /\ Complete(todo, builtWith)' /\ ~whole'
  BY <1>1 DEF GraphInv, Simple, Complete, MustJoin, Crowded
<1> QED
  BY <1>1, <1>2, <1>3, <1>4 DEF GraphInv

LEMMA NextGraph == ASSUME GraphInv, [Next]_vars PROVE GraphInv'
<1>1. CASE UNCHANGED vars
  BY <1>1, OthersKeepGraph DEF vars
<1>2. CASE MakeReport \/ FetchRows
  BY <1>2, OthersKeepGraph DEF MakeReport, FetchRows
<1>3. ASSUME NEW src \in Sources, StoreFunctions(src) PROVE GraphInv'
  BY <1>3, StoreKeepsGraph
<1>4. CASE DeleteMissing
  BY <1>4, DeletionKeepsGraph
<1>5. CASE ClearEdges \/ InsertEdges
  BY <1>5, RebuildKeepsGraph
<1>6. ASSUME NEW t \in BOOLEAN, End(t) PROVE GraphInv'
  BY <1>6, EndKeepsGraph
<1>7. CASE BeginReport \/ OpenReport \/ WriteReport
  BY <1>7, OthersKeepGraph DEF BeginReport, OpenReport, WriteReport
<1>8. CASE Tick \/ SetClockBack
  BY <1>8, OthersKeepGraph DEF Tick, SetClockBack
<1>9. ASSUME NEW q \in Queries, BeginSearch(q) PROVE GraphInv'
  BY <1>9, OthersKeepGraph DEF BeginSearch
<1>10. ASSUME NEW kind \in {"code", "desc"}, AskIndex(kind) PROVE GraphInv'
  BY <1>10, OthersKeepGraph DEF AskIndex
<1> QED
  BY <1>1, <1>2, <1>3, <1>4, <1>5, <1>6, <1>7, <1>8, <1>9, <1>10 DEF Next

-----------------------------------------------------------------------------
(* The search under way                                                    *)

LEMMA InitQuery == Init => QueryInv
<1> SUFFICES ASSUME Init PROVE QueryInv
  OBVIOUS
<1>1. query = [text |-> None, code |-> None, desc |-> None, quiet |-> TRUE]
  BY DEF Init, NoQuery
<1> QED
  BY <1>1 DEF QueryInv, QueryType, HitsInv

LEMMA NoQueryKeeps ==
  ASSUME query' = NoQuery
  PROVE  QueryInv'
<1>1. query' = [text |-> None, code |-> None, desc |-> None, quiet |-> TRUE]
  BY DEF NoQuery
<1> QED
  BY <1>1 DEF QueryInv, QueryType, HitsInv

LEMMA SameQueryKeeps ==
  ASSUME QueryInv, query' = query, nodes' = nodes
  PROVE  QueryInv'
  BY DEF QueryInv, HitsInv, Crowded

\* A search whose store changes under it is not quiet any more.
LEMMA DisturbedKeeps ==
  ASSUME QueryInv, query' = Disturbed
  PROVE  QueryInv'
<1>1. /\ query' \in QueryType
      /\ query'.text = query.text /\ query'.code = query.code /\ query'.desc = query.desc
      /\ query'.quiet => query.quiet /\ nodes' = nodes
  BY DEF QueryInv, QueryType, Disturbed
<1>2. HitsInv("code")'
  BY <1>1 DEF QueryInv, HitsInv, Crowded
<1>3. HitsInv("desc")'
  BY <1>1 DEF QueryInv, HitsInv, Crowded
<1> QED
  BY <1>1, <1>2, <1>3 DEF QueryInv

LEMMA AskKeeps ==
  ASSUME StoreInv, QueryInv, NEW kind \in {"code", "desc"}, AskIndex(kind)
  PROVE  QueryInv'
<1>1. PICK hits \in Neighbours(nodes, kind, query.text, None, SearchTop, FALSE) :
        query' = [query EXCEPT ![kind] = hits]
  BY DEF AskIndex
<1>2. nodes' = nodes /\ query.text # None /\ query \in QueryType
  BY DEF AskIndex, graphVars, QueryInv
<1>3. query.text \in Queries
  BY <1>2 DEF QueryType
<1>4. SearchTop \in Nat /\ nodes \subseteq NodeType /\ None \notin Ids
  BY GraphAssumption DEF StoreInv
<1>5. /\ hits \subseteq nodes
      /\ \A n \in hits : n[kind] \in Definitions /\ Visible(n, FALSE)
      /\ \A n \in nodes : IdOf(n) # None /\ Visible(n, FALSE) /\ n[kind] # None =>
           n \in hits \/ Crowded(kind, query.text, n[kind], SearchTop)
  BY <1>2, <1>4, NeighbourFacts
<1>6. \A n \in nodes : IdOf(n) # None
  BY <1>4, NodeFacts
<1>7. /\ query' \in QueryType /\ query'.text = query.text /\ query'.quiet = query.quiet
      /\ query'[kind] = hits
      /\ \A other \in {"code", "desc"} : other # kind => query'[other] = query[other]
  BY <1>1, <1>2, <1>4, <1>5 DEF QueryType
<1>8. HitsInv(kind)'
  BY <1>2, <1>3, <1>4, <1>5, <1>6, <1>7 DEF HitsInv, Crowded
<1>9. ASSUME NEW other \in {"code", "desc"}, other # kind PROVE HitsInv(other)'
  <2>1. HitsInv(other)
    BY DEF QueryInv
  <2> QED
    BY <1>2, <1>7, <1>9, <2>1 DEF HitsInv, Crowded
<1> QED
  BY <1>7, <1>8, <1>9 DEF QueryInv

LEMMA NextQuery == ASSUME GraphInv, QueryInv, [Next]_vars PROVE QueryInv'
<1>1. CASE UNCHANGED vars
  BY <1>1, SameQueryKeeps DEF vars, graphVars
<1>2. CASE MakeReport
  BY <1>2, SameQueryKeeps DEF MakeReport, graphVars
<1>3. CASE FetchRows
  BY <1>3, NoQueryKeeps DEF FetchRows
<1>4. ASSUME NEW src \in Sources, StoreFunctions(src) PROVE QueryInv'
  BY <1>4, DisturbedKeeps DEF StoreFunctions
<1>5. CASE DeleteMissing
  BY <1>5, DisturbedKeeps DEF DeleteMissing
<1>6. CASE ClearEdges \/ InsertEdges
  BY <1>6, SameQueryKeeps DEF ClearEdges, InsertEdges
<1>7. ASSUME NEW t \in BOOLEAN, End(t) PROVE QueryInv'
  BY <1>7, SameQueryKeeps, NoQueryKeeps DEF End
<1>8. CASE BeginReport \/ OpenReport \/ WriteReport
  BY <1>8, SameQueryKeeps DEF BeginReport, OpenReport, WriteReport, graphVars
<1>9. CASE Tick \/ SetClockBack
  BY <1>9, SameQueryKeeps DEF Tick, SetClockBack, graphVars
<1>10. ASSUME NEW q \in Queries, BeginSearch(q) PROVE QueryInv'
  <2>1. query' = [text |-> q, code |-> None, desc |-> None, quiet |-> TRUE]
    BY <1>10 DEF BeginSearch, NoQuery
  <2> QED
    BY <2>1 DEF QueryInv, QueryType, HitsInv
<1>11. ASSUME NEW kind \in {"code", "desc"}, AskIndex(kind) PROVE QueryInv'
  BY <1>11, AskKeeps DEF GraphInv
<1> QED
  BY <1>1, <1>2, <1>3, <1>4, <1>5, <1>6, <1>7, <1>8, <1>9, <1>10, <1>11 DEF Next

-----------------------------------------------------------------------------
(* A report of the graph                                                   *)

\* A pair of functions has one edge, so that edges are finitely many.
LEMMA EdgesAreFinite ==
  ASSUME NEW E, NEW b, Simple(E, b)
  PROVE  IsFiniteSet(E)
<1> DEFINE g == [e \in E |-> <<e.from, e.to>>]
<1>1. g \in [E -> Ids \X Ids] /\ \A e, f \in E : g[e] = g[f] => e = f
  BY DEF Simple
<1> HIDE DEF g
<1>2. g \in Injection(E, Ids \X Ids)
  BY <1>1 DEF Injection, IsInjective
<1>3. IsFiniteSet(Ids \X Ids)
  BY IdsAreFinite, FS_Product
<1> QED
  BY <1>2, <1>3, FS_Injection

LEMMA TwoParts ==
  ASSUME NEW S, IsFiniteSet(S), NEW A, NEW B, A \cup B = S, A \cap B = {}
  PROVE  /\ Cardinality(S) = Cardinality(A) + Cardinality(B)
         /\ IsFiniteSet(A) /\ IsFiniteSet(B)
         /\ Cardinality(A) \in Nat /\ Cardinality(B) \in Nat
<1>1. A \in SUBSET S /\ B \in SUBSET S
  OBVIOUS
<1>2. IsFiniteSet(A) /\ IsFiniteSet(B)
  BY <1>1, FS_Subset
<1>3. Cardinality(A \cup B) = Cardinality(A) + Cardinality(B) - Cardinality(A \cap B)
  BY <1>2, FS_Union
<1>4. Cardinality(A \cap B) = 0
  BY FS_EmptySet
<1>5. Cardinality(A) \in Nat /\ Cardinality(B) \in Nat
  BY <1>2, FS_CardinalityType
<1> QED
  BY <1>2, <1>3, <1>4, <1>5

LEMMA SumsSound ==
  ASSUME GraphInv, NEW r, r.stats = Stats(nodes, edges, tests),
         r.breakdown = Breakdown(nodes, edges, tests)
  PROVE  SumsAgree(r)
<1> SUFFICES ASSUME tests \/ ~builtWith
             PROVE  LET b == r.breakdown.bins
                    IN  /\ r.breakdown.intra + r.breakdown.inter = r.stats.edges
                        /\ b[1] + b[2] + b[3] + b[4] = r.stats.edges
  BY DEF SumsAgree
<1>1. Reported(edges, tests) = edges
  BY DEF GraphInv, Simple, Reported
<1>2. IsFiniteSet(edges)
  BY EdgesAreFinite DEF GraphInv
<1>3. \A e \in edges : e.score \in Int
  BY DEF GraphInv, Simple
<1> DEFINE intra == {e \in edges : e.from[1] = e.to[1]}
           inter == {e \in edges : e.from[1] # e.to[1]}
           high == {e \in edges : e.score > BinHigh}
           mid == {e \in edges : e.score > BinMid /\ e.score <= BinHigh}
           low == {e \in edges : e.score > BinLow /\ e.score <= BinMid}
           rest == {e \in edges : e.score <= BinLow}
<1>4. /\ r.stats.edges = Cardinality(edges)
      /\ r.breakdown.intra = Cardinality(intra) /\ r.breakdown.inter = Cardinality(inter)
      /\ r.breakdown.bins = <<Cardinality(high), Cardinality(mid),
                              Cardinality(low), Cardinality(rest)>>
  BY <1>1 DEF Stats, Breakdown
<1>5. intra \cup inter = edges /\ intra \cap inter = {}
  OBVIOUS
<1>6. /\ high \cup (mid \cup (low \cup rest)) = edges
      /\ high \cap (mid \cup (low \cup rest)) = {}
      /\ mid \cap (low \cup rest) = {} /\ low \cap rest = {}
  BY <1>3, GraphAssumption
<1> HIDE DEF intra, inter, high, mid, low, rest
<1>7. Cardinality(edges) = Cardinality(intra) + Cardinality(inter)
  BY <1>2, <1>5, TwoParts
<1>8. /\ Cardinality(high) \in Nat /\ Cardinality(mid) \in Nat
      /\ Cardinality(low) \in Nat /\ Cardinality(rest) \in Nat
      /\ Cardinality(edges) =
           Cardinality(high) + Cardinality(mid) + Cardinality(low) + Cardinality(rest)
  <2> DEFINE lower == low \cup rest
             middle == mid \cup lower
  <2>1. high \cup middle = edges /\ high \cap middle = {} /\ mid \cap lower = {}
    BY <1>6
  <2> HIDE DEF middle
  <2>2. /\ Cardinality(edges) = Cardinality(high) + Cardinality(middle)
        /\ IsFiniteSet(middle) /\ Cardinality(high) \in Nat
    BY <1>2, <2>1, TwoParts
  <2>3. mid \cup lower = middle
    BY DEF middle
  <2> HIDE DEF lower
  <2>4. /\ Cardinality(middle) = Cardinality(mid) + Cardinality(lower)
        /\ IsFiniteSet(lower) /\ Cardinality(mid) \in Nat
    BY <2>1, <2>2, <2>3, TwoParts
  <2>5. low \cup rest = lower
    BY DEF lower
  <2>6. /\ Cardinality(lower) = Cardinality(low) + Cardinality(rest)
        /\ Cardinality(low) \in Nat /\ Cardinality(rest) \in Nat
    BY <1>6, <2>4, <2>5, TwoParts
  <2> QED
    BY <2>2, <2>4, <2>6
<1> QED
  BY <1>4, <1>7, <1>8

LEMMA EdgesSound ==
  ASSUME GraphInv
  PROVE  EdgesAreSimple
<1> SUFFICES ASSUME NEW e \in edges
             PROVE  /\ e.from # e.to
                    /\ \A f \in edges : {f.from, f.to} = {e.from, e.to} => f = e
                    /\ \E n, m \in nodes : IdOf(n) = e.from /\ IdOf(m) = e.to
  BY DEF EdgesAreSimple
<1>1. \A f \in edges : /\ IdRank[f.from] < IdRank[f.to]
                       /\ IdRank[f.from] \in Int /\ IdRank[f.to] \in Int
  BY GraphAssumption DEF GraphInv, Simple
<1>2. ASSUME NEW f \in edges, {f.from, f.to} = {e.from, e.to} PROVE f = e
  <2>1. f.from = e.from /\ f.to = e.to
    BY <1>1, <1>2
  <2> QED
    BY <2>1 DEF GraphInv, Simple
<1> QED
  BY <1>1, <1>2 DEF GraphInv, Simple

LEMMA ReportIsSound ==
  ASSUME GraphInv, MakeReport
  PROVE  GraphAddsUp'
<1>1. PICK f \in NodeFiles(ClusterEdges(edges, tests)) :
        returned' = [kind |-> "report", stats |-> Stats(nodes, edges, tests),
                     breakdown |-> Breakdown(nodes, edges, tests),
                     links |-> ClusterEdges(edges, tests),
                     clusters |-> Clusters(ClusterEdges(edges, tests), f)]
  BY DEF MakeReport
<1>2. UNCHANGED <<nodes, edges, tests, builtWith, whole>>
  BY DEF MakeReport, graphVars
<1>3. SumsAgree(returned')
  BY <1>1, SumsSound
<1>4. ClustersAreComponents(returned')
  <2> DEFINE r == returned'
  <2>1. r.links \subseteq edges
    BY <1>1 DEF ClusterEdges, Reported
  <2>2. IsFiniteSet(r.links)
    BY <2>1, EdgesAreFinite, FS_Subset DEF GraphInv
  <2>3. \A e \in r.links : e.from \in Ids /\ e.to \in Ids
    BY <2>1 DEF GraphInv, Simple
  <2>4. f \in NodeFiles(r.links) /\ r.clusters = Clusters(r.links, f)
    BY <1>1
  <2> HIDE DEF r
  <2>5. ClustersAreComponents(r)
    BY <2>2, <2>3, <2>4, ClustersSound
  <2> QED
    BY <2>5 DEF r
<1>5. VectorsAreOfSource /\ EdgesAreSimple /\ (whole => NoneIsMissed)
  BY EdgesSound, CompleteMisses DEF GraphInv, StoreInv
<1>6. VectorsAreOfSource' /\ EdgesAreSimple' /\ (whole' => NoneIsMissed')
  <2>1. VectorsAreOfSource' /\ EdgesAreSimple'
    BY <1>2, <1>5 DEF VectorsAreOfSource, EdgesAreSimple
  <2>2. ASSUME NoneIsMissed PROVE NoneIsMissed'
    BY <1>2, <2>2, SameStore DEF NoneIsMissed
  <2> QED
    BY <1>2, <1>5, <2>1, <2>2
<1>7. SumsAgree(returned)'
  BY <1>2, <1>3 DEF SumsAgree
<1>8. ClustersAreComponents(returned)'
  BY <1>4 DEF ClustersAreComponents
<1> QED
  BY <1>6, <1>7, <1>8 DEF GraphAddsUp

-----------------------------------------------------------------------------
(* The theorems                                                            *)

Sound == Inv /\ GraphInv /\ QueryInv /\ GraphAddsUp /\ SearchIsSound

LEMMA InitSound == Init => Sound
<1>1. Init => GraphAddsUp /\ SearchIsSound
  BY DEF Init, GraphAddsUp, SearchIsSound
<1> QED
  BY <1>1, InitInv, InitGraph, InitQuery DEF Sound

LEMMA NextSound == ASSUME Sound, [Next]_vars PROVE Sound'
<1>1. Inv' /\ GraphInv' /\ QueryInv'
  BY NextInv, NextGraph, NextQuery DEF Sound
<1>2. CASE UNCHANGED vars
  <2>1. UNCHANGED <<nodes, edges, tests, builtWith, whole, returned>>
    BY <1>2 DEF vars, graphVars
  <2>2. GraphAddsUp'
    <3>1. /\ VectorsAreOfSource => VectorsAreOfSource'
          /\ EdgesAreSimple => EdgesAreSimple'
      BY <2>1 DEF VectorsAreOfSource, EdgesAreSimple
    <3>2. /\ SumsAgree(returned) => SumsAgree(returned)'
          /\ ClustersAreComponents(returned) => ClustersAreComponents(returned)'
      BY <2>1 DEF SumsAgree, ClustersAreComponents
    <3>3. NoneIsMissed => NoneIsMissed'
      BY <2>1, SameStore DEF NoneIsMissed
    <3> QED
      BY <2>1, <3>1, <3>2, <3>3 DEF Sound, GraphAddsUp
  <2>3. SearchIsSound'
    <3>1. WellListed(returned) => WellListed(returned)'
      BY <2>1 DEF WellListed
    <3>2. AllListed(returned) => AllListed(returned)'
      BY <2>1, SameStore DEF AllListed
    <3>3. CASE returned # None /\ returned.kind = "matches"
      BY <3>1, <3>2, <3>3, SearchParts, SearchPartsNext DEF Sound
    <3>4. CASE ~(returned # None /\ returned.kind = "matches")
      BY <2>1, <3>4 DEF SearchIsSound
    <3> QED
      BY <3>3, <3>4
  <2> QED
    BY <1>1, <2>2, <2>3 DEF Sound
<1>3. CASE MakeReport
  <2>1. returned'.kind = "report"
    BY <1>3 DEF MakeReport
  <2>2. GraphAddsUp'
    BY <1>3, ReportIsSound DEF Sound
  <2> QED
    BY <1>1, <2>1, <2>2 DEF Sound, SearchIsSound
<1>4. CASE FetchRows
  <2>1. returned'.kind = "matches"
    BY <1>4 DEF FetchRows
  <2>2. SearchIsSound'
    BY <1>4, FetchIsSound DEF Sound, GraphInv
  <2> QED
    BY <1>1, <2>1, <2>2 DEF Sound, GraphAddsUp
<1>5. CASE returned' = None
  BY <1>1, <1>5 DEF Sound, GraphAddsUp, SearchIsSound
<1> QED
  BY <1>2, <1>3, <1>4, <1>5 DEF Next

\* The store, its edges, the search under way and what is returned are sound in
\* every state.
THEOREM Soundness == Spec => []Sound
<1> QED
  BY InitSound, NextSound, PTL DEF Spec

\* Nodes have vectors of their own ids and no two have one id, edges join ids
\* with a score of at most a hundred, and a report that can be read is one that
\* was begun (store.py, similarity.py, reporter.py).
THEOREM TypeCorrect == Spec => []TypeOK
<1>1. Sound => TypeOK
  <2> SUFFICES ASSUME Sound PROVE TypeOK
    OBVIOUS
  <2>1. /\ clock \in 0 .. MaxClock /\ stamp \in 0 .. MaxClock /\ setBack \in BOOLEAN
        /\ begun \in 0 .. MaxReports /\ prev \in 0 .. begun
    BY DEF Sound, Inv, ArchiveType, Seconds
  <2>2. \A t \in Readable : archive[t] \in 1 .. begun
    BY ReadableValues DEF Sound, Inv
  <2>3. /\ \A n \in nodes : /\ n.def \in Definitions
                            /\ n.code = None \/ Id(n.code) = IdOf(n)
                            /\ n.desc = None \/ Id(n.desc) = IdOf(n)
        /\ \A n, m \in nodes : IdOf(n) = IdOf(m) => n = m
    BY NodeFacts DEF Sound, GraphInv, StoreInv
  <2>4. edges \subseteq [from: Ids, to: Ids, score: 0 .. 100]
    BY DEF Sound, GraphInv, Simple
  <2> QED
    BY <2>1, <2>2, <2>3, <2>4 DEF Sound, GraphInv, TypeOK
<1> QED
  BY <1>1, Soundness, PTL

\* Whatever runs were interrupted, what a report says of the graph adds up; but
\* a vector may be of another source where an embedding failed, or where two
\* definitions share an id (extractor.py, similarity.py, reporter.py,
\* analysis.py).
THEOREM ReportsAddUp == Spec => []GraphAddsUp
<1>1. Sound => GraphAddsUp
  BY DEF Sound
<1> QED
  BY <1>1, Soundness, PTL

\* What a search returns is stored, distinct and no test, best first, and leaves
\* out only what was crowded out (query.py).
THEOREM SearchesSound == Spec => []SearchIsSound
<1>1. Sound => SearchIsSound
  BY DEF Sound
<1> QED
  BY <1>1, Soundness, PTL
=============================================================================
