------------------------ MODULE LiveSshCreateProofs ------------------------
(***************************************************************************)
(* Theorems about LiveSshCreate, for every number of requests, every limit *)
(* and every number of restarts: the promise queue is a lock, and the      *)
(* limit it guards holds.  The queue is a linked list, so the argument     *)
(* numbers the requests as they come: those that wait hold consecutive     *)
(* numbers, only the lowest may work, and the map points at the highest    *)
(* (QueueInOrder).  While one works, no row appears behind its back, so    *)
(* the rows it counted still cover the live ones when it inserts           *)
(* (ListIsCurrent).                                                        *)
(***************************************************************************)
EXTENDS LiveSshCreate, FiniteSetTheorems, SequenceTheorems, TLAPS

USE DEF vars, queueVars, listVars

\* What the theorems below are proved from
IInv == TypeOK /\ QueueInOrder

\* Nothing is pending before the first request.
LEMMA QueueInit == Init => IInv
BY ReqsAssumption DEF Init, IInv, TypeOK, QueueInOrder, Pending, Working, Over

\* Leaving the queue hands it to the next number and nobody else: the finally
\* block of withUserCreateLock.
LEMMA LeaveStep ==
  ASSUME IInv, NEW r \in Reqs, pc[r] \in Working, NEW end \in {"done", "refused"},
         Leave(r, end), row' \in [Reqs -> {"none", "live", "lapsed", "over"}], boots' = boots
  PROVE  IInv'
<1> USE DEF Working
<1>1. /\ order[r] = left + 1 /\ Pending(r)
      /\ \A s \in Reqs : Pending(s)' <=> Pending(s) /\ s # r
      /\ \A s \in Reqs : pc'[s] \in Working => pc[s] \in Working /\ s # r
      /\ \A s \in Reqs : pc'[s] = "idle" <=> pc[s] = "idle"
  BY DEF IInv, TypeOK, QueueInOrder, Leave, Pending
<1>2. left' = left + 1 /\ order' = order /\ entered' = entered /\ prev' = prev
  BY DEF Leave
<1>3. \A s \in Reqs : Pending(s)' => order[s] > left + 1
  BY <1>1 DEF IInv, QueueInOrder, TypeOK
<1>4. \A s \in Reqs : pc'[s] \notin Working
  BY <1>1, <1>3 DEF IInv, QueueInOrder, TypeOK
<1>5. TypeOK'
  <2>1. tail' # NoReq => Pending(tail)'
    BY <1>1 DEF Leave, IInv, TypeOK
  <2>2. pc' \in [Reqs -> Working \cup Over \cup {"idle", "queued"}]
    BY DEF Leave, IInv, TypeOK, Over
  <2>3. counted' \in [Reqs -> SUBSET Reqs] /\ doomed' \in [Reqs -> SUBSET Reqs]
    BY DEF Leave, IInv, TypeOK
  <2> QED
    BY <2>1, <2>2, <2>3 DEF Leave, IInv, TypeOK
<1>6. QueueInOrder'
  <2>1. left' <= entered'
    BY <1>1, <1>2 DEF IInv, TypeOK, QueueInOrder
  <2>2. ASSUME NEW s \in Reqs
        PROVE  /\ pc'[s] = "idle" <=> order'[s] = 0
               /\ order'[s] <= entered'
               /\ Pending(s)' <=> order'[s] > left'
               /\ pc'[s] \in Working => order'[s] = left' + 1
    BY <1>1, <1>2, <1>3, <1>4 DEF IInv, TypeOK, QueueInOrder
  <2>3. ASSUME NEW s \in Reqs, Pending(s)'
        PROVE  IF prev'[s] \in Reqs /\ Pending(prev[s])'
               THEN order'[s] = order'[prev[s]] + 1 ELSE order'[s] = left' + 1
    <3>1. CASE prev[s] = r
      BY <3>1, <2>3, <1>1, <1>2 DEF IInv, TypeOK, QueueInOrder
    <3>2. CASE prev[s] # r
      BY <3>2, <2>3, <1>1, <1>2, <1>3 DEF IInv, TypeOK, QueueInOrder
    <3> QED
      BY <3>1, <3>2
  <2>4. IF tail' = NoReq THEN left' = entered' ELSE order'[tail'] = entered'
    BY <1>1, <1>2 DEF Leave, IInv, TypeOK, QueueInOrder
  <2> QED
    BY <1>2, <2>1, <2>2, <2>3, <2>4 DEF QueueInOrder, IInv
<1> QED
  BY <1>5, <1>6 DEF IInv

\* A step that leaves the queue alone and moves working requests among the
\* steps of their work keeps the order.
LEMMA WorkStep ==
  ASSUME IInv, UNCHANGED <<queueVars, boots>>,
         row' \in [Reqs -> {"none", "live", "lapsed", "over"}],
         pc' \in [Reqs -> Working \cup Over \cup {"idle", "queued"}],
         counted' \in [Reqs -> SUBSET Reqs], doomed' \in [Reqs -> SUBSET Reqs],
         \A s \in Reqs : pc'[s] = pc[s] \/ (pc[s] \in Working /\ pc'[s] \in Working)
  PROVE  IInv'
<1>1. \A s \in Reqs : /\ Pending(s)' <=> Pending(s)
                      /\ pc'[s] \in Working <=> pc[s] \in Working
                      /\ pc'[s] = "idle" <=> pc[s] = "idle"
  BY DEF Pending, Working
<1>2. TypeOK'
  BY <1>1 DEF IInv, TypeOK
<1>3. QueueInOrder'
  BY <1>1 DEF IInv, TypeOK, QueueInOrder
<1> QED
  BY <1>2, <1>3 DEF IInv

\* Joining the queue: the part of withUserCreateLock before its await.
LEMMA EnterStep == ASSUME IInv, NEW r \in Reqs, Enter(r) PROVE IInv'
<1>1. /\ order[r] = 0 /\ ~Pending(r) /\ entered \in Nat /\ left \in Nat /\ left <= entered
      /\ \A s \in Reqs : order[s] \in Nat /\ order[s] <= entered
  BY DEF Enter, IInv, TypeOK, QueueInOrder, Pending, Working
<1>2. /\ \A s \in Reqs : Pending(s)' <=> Pending(s) \/ s = r
      /\ \A s \in Reqs : pc'[s] \in Working <=> pc[s] \in Working
      /\ \A s \in Reqs : pc'[s] = "idle" <=> pc[s] = "idle" /\ s # r
      /\ \A s \in Reqs : order'[s] = IF s = r THEN entered + 1 ELSE order[s]
      /\ \A s \in Reqs : prev'[s] = IF s = r THEN tail ELSE prev[s]
      /\ left' = left /\ entered' = entered + 1 /\ tail' = r
  BY DEF Enter, IInv, TypeOK, Pending, Working
<1>3. TypeOK'
  BY <1>1, <1>2 DEF Enter, IInv, TypeOK
<1>4. ASSUME NEW s \in Reqs
      PROVE  /\ pc'[s] = "idle" <=> order'[s] = 0
             /\ order'[s] <= entered'
             /\ Pending(s)' <=> order'[s] > left'
             /\ pc'[s] \in Working => order'[s] = left' + 1
  <2>1. pc[r] \notin Working
    BY DEF Enter, Working
  <2> QED
    BY <2>1, <1>1, <1>2 DEF IInv, QueueInOrder
<1>5. ASSUME NEW s \in Reqs, Pending(s)'
      PROVE  IF prev'[s] \in Reqs /\ Pending(prev[s])'
             THEN order'[s] = order'[prev'[s]] + 1 ELSE order'[s] = left' + 1
  <2>1. CASE s = r /\ tail = NoReq
    BY <2>1, <1>2, ReqsAssumption DEF IInv, QueueInOrder
  <2>2. CASE s = r /\ tail # NoReq
    <3>1. tail \in Reqs /\ Pending(tail) /\ order[tail] = entered /\ tail # r
      BY <2>2, <1>1 DEF IInv, TypeOK, QueueInOrder
    <3> QED
      BY <2>2, <3>1, <1>2
  <2>3. CASE s # r
    <3>1. Pending(s) /\ order[s] <= entered /\ order[s] > left
      BY <2>3, <1>1, <1>2, <1>5 DEF IInv, QueueInOrder
    <3>2. prev[s] # r
      BY <1>1, ReqsAssumption DEF IInv, QueueInOrder
    <3> QED
      BY <3>1, <3>2, <2>3, <1>1, <1>2 DEF IInv, QueueInOrder
  <2> QED
    BY <2>1, <2>2, <2>3
<1>6. ASSUME NEW s \in Reqs PROVE prev'[s] # NoReq => order'[prev'[s]] # 0
  <2>1. tail # NoReq => order[tail] # 0 /\ tail \in Reqs
    BY <1>1 DEF IInv, TypeOK, QueueInOrder
  <2> QED
    BY <2>1, <1>1, <1>2 DEF IInv, TypeOK, QueueInOrder
<1>7. ASSUME NEW s \in Reqs, NEW t \in Reqs, order'[s] = order'[t], order'[s] # 0 PROVE s = t
  BY <1>7, <1>1, <1>2 DEF IInv, QueueInOrder
<1>8. order'[tail'] = entered' /\ tail' # NoReq /\ left' <= entered'
  BY <1>1, <1>2, ReqsAssumption DEF Enter
<1>9. QueueInOrder'
  BY <1>4, <1>5, <1>6, <1>7, <1>8 DEF QueueInOrder
<1> QED
  BY <1>3, <1>9 DEF IInv

\* The request whose turn it is begins to work.
LEMMA StartStep == ASSUME IInv, NEW r \in Reqs, Start(r) PROVE IInv'
<1>0. Pending(r) /\ (prev[r] # NoReq => ~Pending(prev[r]))
  BY DEF Start, Pending
<1>1. order[r] = left + 1
  BY <1>0, ReqsAssumption DEF IInv, TypeOK, QueueInOrder
<1>2. /\ \A s \in Reqs : Pending(s)' <=> Pending(s)
      /\ \A s \in Reqs : pc'[s] \in Working <=> pc[s] \in Working \/ s = r
      /\ \A s \in Reqs : pc'[s] = "idle" <=> pc[s] = "idle"
  BY DEF Start, IInv, TypeOK, Pending, Working
<1>3. TypeOK'
  <2>1. pc' \in [Reqs -> Working \cup Over \cup {"idle", "queued"}]
    BY DEF Start, IInv, TypeOK, Working
  <2> QED
    BY <1>2, <2>1 DEF Start, IInv, TypeOK
<1>4. QueueInOrder'
  BY <1>1, <1>2 DEF Start, IInv, TypeOK, QueueInOrder
<1> QED
  BY <1>3, <1>4 DEF IInv

\* A restart empties the queue.
LEMMA RestartStep == ASSUME IInv, Restart PROVE IInv'
<1>1. /\ \A s \in Reqs : ~Pending(s)'
      /\ \A s \in Reqs : pc'[s] \notin Working
      /\ \A s \in Reqs : pc'[s] = "idle" <=> pc[s] = "idle"
      /\ \A s \in Reqs : order[s] <= entered
      /\ left' = entered' /\ entered' = entered /\ order' = order /\ prev' = prev /\ tail' = NoReq
  BY DEF Restart, IInv, TypeOK, QueueInOrder, Pending, Working, Over
<1>2. TypeOK'
  <2>1. pc' \in [Reqs -> Working \cup Over \cup {"idle", "queued"}]
    BY DEF Restart, IInv, TypeOK, Over
  <2>2. counted' \in [Reqs -> SUBSET Reqs] /\ doomed' \in [Reqs -> SUBSET Reqs]
    BY DEF Restart
  <2> QED
    BY <1>1, <2>1, <2>2 DEF Restart, IInv, TypeOK
<1>3. QueueInOrder'
  BY <1>1 DEF IInv, TypeOK, QueueInOrder
<1> QED
  BY <1>2, <1>3 DEF IInv

\* Every step keeps the types and the queue in order.
LEMMA QueueStep == IInv /\ [Next]_vars => IInv'
<1> SUFFICES ASSUME IInv, [Next]_vars PROVE IInv'
  OBVIOUS
<1> USE DEF Working
<1>1. ASSUME NEW r \in Reqs, Enter(r) PROVE IInv'
  BY <1>1, EnterStep
<1>2. ASSUME NEW r \in Reqs, Start(r) PROVE IInv'
  BY <1>2, StartStep
<1>3. ASSUME NEW r \in Reqs, Lookup(r) PROVE IInv'
  BY <1>3, WorkStep DEF Lookup, IInv, TypeOK
<1>4. ASSUME NEW r \in Reqs, List(r) PROVE IInv'
  <2>1. counted' \in [Reqs -> SUBSET Reqs] /\ doomed' \in [Reqs -> SUBSET Reqs]
    BY <1>4 DEF List, IInv, TypeOK
  <2> QED
    BY <1>4, <2>1, WorkStep DEF List, IInv, TypeOK
<1>5. ASSUME NEW r \in Reqs, NEW s \in Reqs, Purge(r, s) PROVE IInv'
  <2>1. doomed' \in [Reqs -> SUBSET Reqs]
    BY <1>5 DEF Purge, IInv, TypeOK
  <2> QED
    BY <1>5, <2>1, WorkStep DEF Purge, IInv, TypeOK
<1>6. ASSUME NEW r \in Reqs, Decide(r) PROVE IInv'
  <2>1. CASE Leave(r, "refused")
    BY <1>6, <2>1, LeaveStep DEF Decide, IInv, TypeOK
  <2>2. CASE ~Leave(r, "refused")
    BY <1>6, <2>2, WorkStep DEF Decide, IInv, TypeOK
  <2> QED
    BY <2>1, <2>2
<1>7. ASSUME NEW r \in Reqs, Reuse(r) PROVE IInv'
  BY <1>7, LeaveStep DEF Reuse, IInv, TypeOK
<1>8. ASSUME NEW r \in Reqs, Insert(r) PROVE IInv'
  BY <1>8, LeaveStep DEF Insert, IInv, TypeOK
<1>9. ASSUME NEW s \in Reqs, Lapse(s) \/ Extend(s) \/ End(s) PROVE IInv'
  BY <1>9, WorkStep DEF Lapse, Extend, End, IInv, TypeOK
<1>10. CASE Restart
  BY <1>10, RestartStep
<1>11. CASE UNCHANGED vars
  BY <1>11, WorkStep DEF IInv, TypeOK
<1>12. ASSUME NEW r \in Reqs, Reject(r) PROVE IInv'
  BY <1>12, LeaveStep DEF Reject, IInv, TypeOK
<1> QED
  BY <1>1, <1>2, <1>3, <1>4, <1>5, <1>6, <1>7, <1>8, <1>9, <1>10, <1>11, <1>12 DEF Next, Work
\* The inductive invariant of the queue.
THEOREM QueueInvariant == Spec => []IInv
BY QueueInit, QueueStep, PTL DEF Spec

\* Every variable keeps its type and createQueues holds no resolved promise.
THEOREM TypeCorrect == Spec => []TypeOK
<1>1. IInv => TypeOK
  BY DEF IInv
<1> QED
  BY <1>1, QueueInvariant, PTL

\* Two requests that work have the same number.
LEMMA OneWorks == IInv => OneAtATime
BY DEF IInv, TypeOK, QueueInOrder, OneAtATime

\* The promise queue of withUserCreateLock is a lock.
THEOREM Exclusion == Spec => []OneAtATime
BY OneWorks, QueueInvariant, PTL

-----------------------------------------------------------------------------
\* All sets of rows are finite.
LEMMA FiniteRows ==
  ASSUME NEW S \in SUBSET Reqs
  PROVE  IsFiniteSet(S) /\ Cardinality(S) \in Nat
BY ReqsAssumption, FS_Subset, FS_CardinalityType

\* A smaller set has no larger cardinality.
LEMMA FewerRows ==
  ASSUME NEW S \in SUBSET Reqs, NEW T \in SUBSET S
  PROVE  Cardinality(T) <= Cardinality(S)
BY FiniteRows, FS_Subset

\* A step that adds no live row and lets nobody past the list keeps both.
LEMMA NoNewRow ==
  ASSUME ListIsCurrent, LimitHolds, Live' \subseteq Live, TypeOK,
         \A r \in Reqs : pc'[r] \in {"purge", "insert"} =>
            pc'[r] = pc[r] /\ counted'[r] = counted[r] /\ doomed'[r] = doomed[r]
  PROVE  ListIsCurrent' /\ LimitHolds'
<1>1. ListIsCurrent'
  BY DEF ListIsCurrent
<1>2. /\ Cardinality(Live') <= Cardinality(Live)
      /\ Cardinality(Live') \in Nat /\ Cardinality(Live) \in Nat
  <2>1. Live \in SUBSET Reqs /\ Live' \in SUBSET Live
    BY DEF Live
  <2> QED
    BY <2>1, FewerRows, FiniteRows
<1> QED
  BY <1>1, <1>2, LimitAssumption DEF LimitHolds

\* The read of the list, the ends of the lapsed rows and the insert together
\* respect maxLiveSessionsPerUser.
LEMMA LimitStep ==
  IInv /\ ListIsCurrent /\ LimitHolds /\ [Next]_vars => ListIsCurrent' /\ LimitHolds'
<1> SUFFICES ASSUME IInv, ListIsCurrent, LimitHolds, [Next]_vars
             PROVE  ListIsCurrent' /\ LimitHolds'
  OBVIOUS
<1>0. TypeOK /\ OneAtATime
  BY OneWorks DEF IInv
<1>1. ASSUME NEW r \in Reqs, Enter(r) \/ Start(r) \/ Lookup(r) \/ Reuse(r) \/ Reject(r)
      PROVE  ListIsCurrent' /\ LimitHolds'
  <2>1. Live' = Live
    BY <1>1 DEF Enter, Start, Lookup, Reuse, Reject, Live
  <2>2. ASSUME NEW s \in Reqs, pc'[s] \in {"purge", "insert"}
        PROVE  pc'[s] = pc[s] /\ counted'[s] = counted[s] /\ doomed'[s] = doomed[s]
    BY <1>0, <1>1, <2>2 DEF Enter, Start, Lookup, Reuse, Reject, Leave, TypeOK
  <2> QED
    BY <2>1, <2>2, <1>0, NoNewRow
<1>2. ASSUME NEW r \in Reqs, List(r) PROVE ListIsCurrent' /\ LimitHolds'
  <2>1. Live' = Live /\ LimitHolds'
    BY <1>2 DEF List, Live, LimitHolds
  <2>2. ASSUME NEW s \in Reqs, s # r, pc'[s] \in {"purge", "insert"} PROVE FALSE
    BY <1>0, <1>2, <2>2 DEF List, OneAtATime, Working, TypeOK
  <2>3. Live' \subseteq counted'[r] \cup doomed'[r] /\ pc'[r] = "purge"
    BY <1>0, <1>2, <2>1 DEF List, Live, TypeOK
  <2> QED
    BY <2>1, <2>2, <2>3 DEF ListIsCurrent
<1>3. ASSUME NEW r \in Reqs, NEW s \in Reqs, Purge(r, s) PROVE ListIsCurrent' /\ LimitHolds'
  <2>1. Live' \subseteq Live \ {s} /\ pc' = pc /\ counted' = counted
    BY <1>0, <1>3 DEF Purge, Live, TypeOK
  <2>2. Live' \subseteq counted'[r] \cup doomed'[r] /\ pc'[r] = "purge"
    BY <1>0, <1>3, <2>1 DEF Purge, ListIsCurrent, TypeOK
  <2>3. ASSUME NEW q \in Reqs, q # r, pc'[q] \in {"purge", "insert"} PROVE FALSE
    BY <1>0, <1>3, <2>1, <2>3 DEF Purge, OneAtATime, Working
  <2>4. ListIsCurrent'
    BY <2>2, <2>3 DEF ListIsCurrent
  <2>5. /\ Cardinality(Live') <= Cardinality(Live)
        /\ Cardinality(Live') \in Nat /\ Cardinality(Live) \in Nat
    <3>1. Live \in SUBSET Reqs /\ Live' \in SUBSET Live
      BY <2>1 DEF Live
    <3> QED
      BY <3>1, FewerRows, FiniteRows
  <2> QED
    BY <2>4, <2>5, LimitAssumption DEF LimitHolds
<1>4. ASSUME NEW r \in Reqs, Decide(r) PROVE ListIsCurrent' /\ LimitHolds'
  <2>1. Live' = Live /\ LimitHolds'
    BY <1>4 DEF Decide, Live, LimitHolds
  <2>2. ASSUME NEW s \in Reqs, s # r, pc'[s] \in {"purge", "insert"} PROVE FALSE
    BY <1>0, <1>4, <2>2 DEF Decide, Leave, OneAtATime, Working, TypeOK
  <2>3. pc'[r] # "purge"
    BY <1>0, <1>4 DEF Decide, Leave, TypeOK
  <2>4. ASSUME pc'[r] = "insert"
        PROVE  Live' \subseteq counted'[r] /\ Cardinality(counted'[r]) < MaxLive
    <3>1. counted' = counted /\ Reusable(r) = {} /\ ~(Cardinality(counted[r]) >= MaxLive)
      BY <1>0, <1>4, <2>4 DEF Decide, Leave, TypeOK
    <3>2. Cardinality(counted[r]) \in Nat
      BY <1>0, FiniteRows DEF TypeOK
    <3>3. Live \subseteq counted[r]
      BY <1>0, <1>4 DEF Decide, ListIsCurrent
    <3> QED
      BY <2>1, <3>1, <3>2, <3>3, LimitAssumption
  <2> QED
    BY <2>1, <2>2, <2>3, <2>4 DEF ListIsCurrent
<1>5. ASSUME NEW r \in Reqs, Insert(r) PROVE ListIsCurrent' /\ LimitHolds'
  <2>1. Live' \subseteq Live \cup {r}
    BY <1>0, <1>5 DEF Insert, Live, TypeOK
  <2>2. ASSUME NEW s \in Reqs, pc'[s] \in {"purge", "insert"} PROVE FALSE
    BY <1>0, <1>5, <2>2 DEF Insert, Leave, OneAtATime, Working, TypeOK
  <2>3. Cardinality(Live) < MaxLive
    <3>1. /\ Live \subseteq counted[r] /\ counted[r] \in SUBSET Reqs
          /\ Cardinality(counted[r]) < MaxLive
      BY <1>0, <1>5 DEF Insert, ListIsCurrent, TypeOK
    <3> QED
      BY <3>1, FewerRows, FiniteRows, LimitAssumption DEF Live
  <2>4. Cardinality(Live') <= Cardinality(Live) + 1
    <3>1. Live \in SUBSET Reqs /\ Live \cup {r} \in SUBSET Reqs /\ Live' \in SUBSET (Live \cup {r})
      BY <2>1 DEF Live
    <3>2. Cardinality(Live \cup {r}) <= Cardinality(Live) + 1
      BY <3>1, FiniteRows, FS_AddElement
    <3>3. Cardinality(Live') <= Cardinality(Live \cup {r})
      BY <3>1, FewerRows
    <3>4. /\ Cardinality(Live) \in Nat /\ Cardinality(Live') \in Nat
          /\ Cardinality(Live \cup {r}) \in Nat
      BY <3>1, FiniteRows
    <3> QED
      BY <3>2, <3>3, <3>4
  <2>5. Cardinality(Live') \in Nat /\ Cardinality(Live) \in Nat
    BY FiniteRows DEF Live
  <2> QED
    BY <2>2, <2>3, <2>4, <2>5, LimitAssumption DEF ListIsCurrent, LimitHolds
<1>6. ASSUME NEW s \in Reqs, Lapse(s) \/ Extend(s) \/ End(s)
      PROVE  ListIsCurrent' /\ LimitHolds'
  <2>1. Live' \subseteq Live /\ pc' = pc /\ counted' = counted /\ doomed' = doomed
    BY <1>0, <1>6 DEF Lapse, Extend, End, Live, TypeOK
  <2> QED
    BY <1>0, <2>1, NoNewRow
<1>7. CASE Restart
  <2>1. Live' = Live /\ \A s \in Reqs : pc'[s] \notin {"purge", "insert"}
    BY <1>7 DEF Restart, Live, Pending, Working
  <2> QED
    BY <1>0, <2>1, NoNewRow
<1>8. CASE UNCHANGED vars
  BY <1>8 DEF ListIsCurrent, LimitHolds, Live
<1> QED
  BY <1>1, <1>2, <1>3, <1>4, <1>5, <1>6, <1>7, <1>8 DEF Next, Work

\* A user never has more live SSH sessions than the limit, for every limit,
\* every number of concurrent requests and every number of restarts.
THEOREM LimitIsKept == Spec => []LimitHolds
<1>1. Init => ListIsCurrent /\ LimitHolds
  <2>1. Init => Live = {}
    BY DEF Init, Live
  <2> QED
    BY <2>1, FS_EmptySet, LimitAssumption DEF Init, ListIsCurrent, LimitHolds
<1>2. IInv /\ ListIsCurrent /\ LimitHolds /\ [Next]_vars => ListIsCurrent' /\ LimitHolds'
  BY LimitStep
<1> QED
  BY <1>1, <1>2, QueueInvariant, PTL DEF Spec

-----------------------------------------------------------------------------
(* The queue of promises is the queue UserQueue describes                  *)

\* A number that is given out stays given out.
LEMMA NumberedStep == IInv /\ Numbered /\ [Next]_vars => Numbered'
<1> SUFFICES ASSUME IInv, Numbered, [Next]_vars PROVE Numbered'
  OBVIOUS
<1>1. ASSUME NEW r \in Reqs, Enter(r) PROVE Numbered'
  <2>1. order[r] = 0 /\ entered \in Nat /\ order \in [Reqs -> Nat]
    BY <1>1 DEF Enter, IInv, TypeOK, QueueInOrder
  <2>2. ASSUME NEW i \in 1 .. entered' PROVE \E s \in Reqs : order'[s] = i
    <3>1. CASE i = entered + 1
      BY <1>1, <2>1, <3>1 DEF Enter
    <3>2. CASE i # entered + 1
      <4>1. i \in 1 .. entered
        BY <1>1, <2>1, <2>2, <3>2 DEF Enter
      <4>2. PICK s \in Reqs : order[s] = i
        BY <4>1 DEF Numbered
      <4> QED
        BY <1>1, <2>1, <4>1, <4>2 DEF Enter
    <3> QED
      BY <3>1, <3>2
  <2> QED
    BY <2>2 DEF Numbered
<1>2. CASE UNCHANGED <<order, entered>>
  BY <1>2 DEF Numbered
<1>3. ASSUME NEW r \in Reqs, Start(r) \/ Work(r) PROVE UNCHANGED <<order, entered>>
  BY <1>3 DEF Start, Work, Lookup, List, Decide, Reuse, Insert, Reject, Purge, Leave
<1>4. ASSUME NEW s \in Reqs, Lapse(s) \/ Extend(s) \/ End(s) PROVE UNCHANGED <<order, entered>>
  BY <1>4 DEF Lapse, Extend, End
<1>5. CASE Restart
  BY <1>2, <1>5 DEF Restart
<1>6. CASE UNCHANGED vars
  BY <1>2, <1>6
<1> QED
  BY <1>1, <1>2, <1>3, <1>4, <1>5, <1>6 DEF Next

LEMMA AllNumbered == Spec => [](IInv /\ Numbered)
<1>1. Init => Numbered
  BY DEF Init, Numbered
<1> QED
  BY <1>1, NumberedStep, QueueInit, QueueStep, PTL DEF Spec

\* The queue as a sequence: its i-th element has the number left + i.
LineKept ==
  /\ InLine \in Seq(Reqs) /\ Len(InLine) = entered - left
  /\ DOMAIN InLine = 1 .. (entered - left)
  /\ \A i \in 1 .. (entered - left) : InLine[i] \in Reqs /\ order[InLine[i]] = left + i

LEMMA LineIsSeq == IInv /\ Numbered => LineKept
<1> SUFFICES ASSUME IInv, Numbered PROVE LineKept
  OBVIOUS
<1>1. entered - left \in Nat /\ left \in Nat /\ entered \in Nat
  BY DEF IInv, TypeOK, QueueInOrder
<1>2. ASSUME NEW i \in 1 .. (entered - left)
      PROVE  InLine[i] \in Reqs /\ order[InLine[i]] = left + i
  <2>1. left + i \in 1 .. entered
    BY <1>1
  <2>2. \E r \in Reqs : order[r] = left + i
    BY <2>1 DEF Numbered
  <2> QED
    BY <2>2 DEF InLine
<1>3. InLine \in [1 .. (entered - left) -> Reqs]
  BY <1>2 DEF InLine
<1>4. InLine \in Seq(Reqs)
  BY <1>1, <1>3, SeqDef
<1> QED
  BY <1>1, <1>2, <1>3, <1>4, LenProperties DEF LineKept

LEMMA LineIsSeqNext == (IInv /\ Numbered)' => LineKept'
BY LineIsSeq, PTL

\* Whoever is pending stands in the queue, at the place its number says.
LEMMA PlaceInLine ==
  ASSUME IInv, Numbered, NEW r \in Reqs, order[r] > left
  PROVE  order[r] - left \in 1 .. (entered - left) /\ InLine[order[r] - left] = r
<1>1. order[r] \in Nat /\ left \in Nat /\ entered \in Nat /\ order[r] <= entered
  BY DEF IInv, TypeOK, QueueInOrder
<1>2. order[r] - left \in 1 .. (entered - left)
  BY <1>1
<1>3. InLine[order[r] - left] \in Reqs /\ order[InLine[order[r] - left]] = order[r]
  BY <1>1, <1>2, LineIsSeq DEF LineKept
<1> QED
  BY <1>1, <1>2, <1>3 DEF IInv, QueueInOrder

\* Joining appends.
LEMMA JoinsLine ==
  ASSUME IInv, Numbered, IInv', Numbered', NEW r \in Reqs, Enter(r)
  PROVE  Queue!Join(r)
<1>0. /\ left' = left /\ entered' = entered + 1 /\ order' = [order EXCEPT ![r] = entered + 1]
      /\ order \in [Reqs -> Nat] /\ entered - left \in Nat /\ left \in Nat /\ entered \in Nat
      /\ order[r] = 0
  BY DEF Enter, IInv, TypeOK, QueueInOrder
<1>1. /\ InLine \in Seq(Reqs) /\ Len(InLine) = entered - left
      /\ \A i \in 1 .. (entered - left) : InLine[i] \in Reqs /\ order[InLine[i]] = left + i
      /\ DOMAIN InLine = 1 .. (entered - left)
  BY LineIsSeq DEF LineKept
<1>2. /\ InLine' \in Seq(Reqs) /\ Len(InLine') = entered - left + 1
      /\ \A i \in 1 .. (entered - left + 1) :
           InLine'[i] \in Reqs /\ order'[InLine'[i]] = left + i
  <2>1. entered' - left' = entered - left + 1
    BY <1>0
  <2> QED
    BY <1>0, <2>1, LineIsSeqNext DEF LineKept
<1>3. ~Queue!Waits(r)
  BY <1>0, <1>1 DEF Queue!Waits
<1>4. Append(InLine, r) \in Seq(Reqs) /\ Len(Append(InLine, r)) = entered - left + 1
  BY <1>1
<1>5. ASSUME NEW i \in 1 .. Len(InLine') PROVE InLine'[i] = Append(InLine, r)[i]
  <2>1. CASE i = entered - left + 1
    <3>1. order'[InLine'[i]] = entered + 1 /\ InLine'[i] \in Reqs
      BY <1>0, <1>2, <2>1
    <3>2. InLine'[i] = r
      BY <1>0, <3>1 DEF IInv, QueueInOrder
    <3> QED
      BY <1>1, <2>1, <3>2
  <2>2. CASE i # entered - left + 1
    <3>1. i \in 1 .. (entered - left)
      BY <1>0, <1>2, <1>5, <2>2
    <3>2. order'[InLine'[i]] = left + i /\ order[InLine[i]] = left + i /\ left + i # entered + 1
      <4>1. i \in 1 .. (entered - left + 1)
        BY <1>0, <3>1
      <4> QED
        BY <1>0, <1>1, <1>2, <3>1, <4>1
    <3>3. InLine'[i] \in Reqs /\ InLine[i] \in Reqs /\ InLine'[i] # r /\ left + i # 0
      BY <1>0, <1>1, <1>2, <3>1, <3>2
    <3>4. order[InLine'[i]] = left + i
      BY <1>0, <3>2, <3>3
    <3>5. InLine'[i] = InLine[i]
      BY <3>2, <3>3, <3>4 DEF IInv, QueueInOrder
    <3> QED
      BY <1>1, <3>1, <3>5
  <2> QED
    BY <2>1, <2>2
<1>6. InLine' = Append(InLine, r)
  BY <1>2, <1>4, <1>5, SeqEqual
<1>7. AtWork' = AtWork
  BY DEF AtWork, Enter, IInv, TypeOK, Working
<1> QED
  BY <1>3, <1>6, <1>7 DEF Queue!Join

\* Only the first in the queue begins, and nobody else is at work.
LEMMA ServesFirst ==
  ASSUME IInv, Numbered, IInv', NEW r \in Reqs, Start(r)
  PROVE  Queue!Serve
<1>1. UNCHANGED <<order, entered, left>> /\ pc[r] = "queued" /\ pc'[r] = "lookup"
      /\ pc' = [pc EXCEPT ![r] = "lookup"]
  BY DEF Start, IInv, TypeOK
<1>2. order[r] = left + 1 /\ left \in Nat /\ entered \in Nat
  BY <1>1 DEF IInv, TypeOK, QueueInOrder, Working
<1>3. 1 \in 1 .. (entered - left) /\ InLine[1] = r
  BY <1>2, PlaceInLine
<1>4. InLine \in Seq(Reqs) /\ InLine # <<>> /\ Head(InLine) = r
  BY <1>2, <1>3, LineIsSeq DEF LineKept
<1>5. AtWork = {}
  <2> SUFFICES ASSUME NEW s \in Reqs, pc[s] \in Working PROVE FALSE
    BY DEF AtWork
  <2>1. order[s] = order[r] /\ order[r] # 0
    BY <1>2 DEF IInv, QueueInOrder
  <2>2. s = r
    BY <2>1 DEF IInv, QueueInOrder
  <2> QED
    BY <1>1, <2>2 DEF Working
<1>6. AtWork' = {r}
  BY <1>1, <1>5 DEF AtWork, IInv, TypeOK, Working
<1>7. InLine' = InLine
  BY <1>1 DEF InLine
<1> QED
  BY <1>4, <1>5, <1>6, <1>7 DEF Queue!Serve

\* Who leaves is the first in the queue, and the only one at work.
LEMMA LeavesLine ==
  ASSUME IInv, Numbered, IInv', Numbered', NEW r \in Reqs, pc[r] \in Working,
         NEW end \in {"done", "refused"}, Leave(r, end)
  PROVE  Queue!Finish
<1>1. /\ order' = order /\ entered' = entered /\ left' = left + 1 /\ pc' = [pc EXCEPT ![r] = end]
      /\ order[r] = left + 1 /\ left \in Nat /\ entered \in Nat /\ order[r] <= entered
  BY DEF Leave, IInv, TypeOK, QueueInOrder
<1>2. InLine[1] = r
  BY <1>1, PlaceInLine
<1>3. /\ InLine \in Seq(Reqs) /\ Len(InLine) = entered - left
      /\ \A i \in 1 .. (entered - left) : InLine[i] \in Reqs /\ order[InLine[i]] = left + i
  BY LineIsSeq DEF LineKept
<1>4. InLine # <<>> /\ Head(InLine) = r
  BY <1>1, <1>2, <1>3
<1>5. /\ InLine' \in Seq(Reqs) /\ Len(InLine') = entered - (left + 1)
      /\ \A i \in 1 .. (entered - (left + 1)) :
           InLine'[i] \in Reqs /\ order[InLine'[i]] = left + 1 + i
  BY <1>1, LineIsSeqNext DEF LineKept
<1>6. /\ Tail(InLine) \in Seq(Reqs) /\ Len(Tail(InLine)) = entered - (left + 1)
      /\ \A i \in 1 .. Len(Tail(InLine)) : Tail(InLine)[i] = InLine[i + 1]
  BY <1>1, <1>3, <1>4, HeadTailProperties
<1>7. ASSUME NEW i \in 1 .. Len(InLine') PROVE InLine'[i] = Tail(InLine)[i]
  <2>1. i \in 1 .. (entered - (left + 1)) /\ i + 1 \in 1 .. (entered - left)
    BY <1>1, <1>5
  <2>2. /\ InLine'[i] \in Reqs /\ order[InLine'[i]] = left + 1 + i
        /\ InLine[i + 1] \in Reqs /\ order[InLine[i + 1]] = left + (i + 1)
        /\ Tail(InLine)[i] = InLine[i + 1]
    BY <1>3, <1>5, <1>6, <2>1
  <2>3. order[InLine'[i]] = order[InLine[i + 1]] /\ order[InLine'[i]] # 0
    BY <1>1, <2>1, <2>2
  <2>4. InLine'[i] = InLine[i + 1]
    BY <2>2, <2>3 DEF IInv, QueueInOrder
  <2> QED
    BY <2>2, <2>4
<1>8. InLine' = Tail(InLine)
  BY <1>5, <1>6, <1>7, SeqEqual
<1>9. AtWork = {r}
  BY OneWorks DEF OneAtATime, AtWork
<1>10. AtWork' = {}
  BY <1>1, <1>9 DEF AtWork, IInv, TypeOK, Working
<1> QED
  BY <1>4, <1>8, <1>9, <1>10 DEF Queue!Finish

\* Every step of the code is a step of the queue or none.
LEMMA LineStep ==
  IInv /\ Numbered /\ IInv' /\ Numbered' /\ [Next]_vars => [Queue!Next]_Queue!line
<1> SUFFICES ASSUME IInv, Numbered, IInv', Numbered', [Next]_vars
             PROVE  [Queue!Next]_Queue!line
  OBVIOUS
<1> USE DEF Queue!line
<1>1. ASSUME NEW r \in Reqs, Enter(r) PROVE Queue!Next
  BY <1>1, JoinsLine DEF Queue!Next
<1>2. ASSUME NEW r \in Reqs, Start(r) PROVE Queue!Next
  BY <1>2, ServesFirst DEF Queue!Next
<1>3. ASSUME NEW r \in Reqs, pc[r] \in Working, NEW end \in {"done", "refused"}, Leave(r, end)
      PROVE  Queue!Next
  BY <1>3, LeavesLine DEF Queue!Next
<1>4. ASSUME UNCHANGED <<order, entered, left>>,
             \A s \in Reqs : pc'[s] \in Working <=> pc[s] \in Working
      PROVE  UNCHANGED <<InLine, AtWork>>
  BY <1>4 DEF InLine, AtWork
<1>5. ASSUME NEW r \in Reqs, Lookup(r) \/ List(r) PROVE UNCHANGED <<InLine, AtWork>>
  BY <1>4, <1>5 DEF Lookup, List, Working, IInv, TypeOK
<1>6. ASSUME NEW r \in Reqs, NEW s \in Reqs, Purge(r, s) PROVE UNCHANGED <<InLine, AtWork>>
  BY <1>4, <1>6 DEF Purge
<1>7. ASSUME NEW r \in Reqs, Decide(r) PROVE [Queue!Next]_Queue!line
  <2>1. CASE Leave(r, "refused")
    BY <1>3, <1>7, <2>1 DEF Decide, Working
  <2>2. CASE ~Leave(r, "refused")
    BY <1>4, <1>7, <2>2 DEF Decide, Working, IInv, TypeOK
  <2> QED
    BY <2>1, <2>2
<1>8. ASSUME NEW r \in Reqs, Reuse(r) \/ Insert(r) \/ Reject(r) PROVE Queue!Next
  BY <1>3, <1>8 DEF Reuse, Insert, Reject, Working
<1>9. ASSUME NEW s \in Reqs, Lapse(s) \/ Extend(s) \/ End(s) PROVE UNCHANGED <<InLine, AtWork>>
  BY <1>4, <1>9 DEF Lapse, Extend, End
<1>10. CASE Restart
  <2>1. AtWork' = {}
    BY <1>10 DEF Restart, AtWork, Pending, Working, IInv, TypeOK
  <2>2. InLine' \in Seq(Reqs) /\ Len(InLine') = 0
    <3>1. entered' - left' = 0
      BY <1>10 DEF Restart, IInv, TypeOK
    <3> QED
      BY <3>1, LineIsSeqNext DEF LineKept
  <2>3. InLine' = <<>>
    BY <2>2, EmptySeq
  <2> QED
    BY <2>1, <2>3 DEF Queue!Next, Queue!Lose
<1>11. CASE UNCHANGED vars
  BY <1>4, <1>11
<1> QED
  BY <1>1, <1>2, <1>5, <1>6, <1>7, <1>8, <1>9, <1>10, <1>11 DEF Next, Work

\* The promise queue of withUserCreateLock implements UserQueue: one request at
\* a time and first come, first served, for any number of requests, whether the
\* one before returned or threw, and across restarts.
THEOREM FirstComeFirstServed == Spec => ServedInOrder
<1>1. Init => Queue!Init
  <2> SUFFICES ASSUME Init PROVE Queue!Init
    OBVIOUS
  <2>1. IInv /\ Numbered /\ entered - left = 0
    BY QueueInit DEF Init, Numbered
  <2>2. InLine \in Seq(Reqs) /\ Len(InLine) = 0
    BY <2>1, LineIsSeq DEF LineKept
  <2>3. InLine = <<>> /\ AtWork = {}
    BY <2>2, EmptySeq DEF Init, AtWork, Working
  <2> QED
    BY <2>3 DEF Queue!Init
<1> QED
  BY <1>1, LineStep, AllNumbered, PTL DEF Spec, ServedInOrder, Queue!Spec

\* No circle and no promise that nobody will resolve: as long as requests are
\* pending in withUserCreateLock one of them can go on, however many they are.
THEOREM QueueNeverStuck == Spec => []SomebodyProceeds
<1>1. ASSUME IInv, Numbered, NEW q \in Reqs, Pending(q)
      PROVE  \E r \in Reqs : \/ pc[r] \in Working
                             \/ pc[r] = "queued" /\ (prev[r] # NoReq => ~Pending(prev[r]))
  <2>1. left \in Nat /\ entered \in Nat /\ order \in [Reqs -> Nat]
        /\ order[q] > left /\ order[q] <= entered
    BY <1>1 DEF IInv, TypeOK, QueueInOrder
  <2>2. left + 1 \in 1 .. entered
    BY <2>1
  <2>3. PICK r \in Reqs : order[r] = left + 1
    BY <1>1, <2>2 DEF Numbered
  <2>4. Pending(r)
    BY <1>1, <2>1, <2>3 DEF IInv, QueueInOrder
  <2>5. ASSUME prev[r] \in Reqs, Pending(prev[r]) PROVE FALSE
    <3>1. order[r] = order[prev[r]] + 1 /\ order[prev[r]] > left
      BY <1>1, <2>4, <2>5 DEF IInv, QueueInOrder
    <3> QED
      BY <2>1, <2>3, <2>5, <3>1
  <2>6. prev[r] \in Reqs \cup {NoReq}
    BY <1>1 DEF IInv, TypeOK
  <2> QED
    BY <2>4, <2>5, <2>6 DEF Pending
<1>2. IInv /\ Numbered => SomebodyProceeds
  BY <1>1 DEF SomebodyProceeds
<1> QED
  BY <1>2, AllNumbered, PTL
=============================================================================
