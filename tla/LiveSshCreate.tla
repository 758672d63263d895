---------------------------- MODULE LiveSshCreate ----------------------------
(***************************************************************************)
(* Creating live SSH sessions: createOrReuse under withUserCreateLock.     *)
(*                                                                         *)
(* The limit on a user's live sessions is a read followed by an insert, so *)
(* the requests of a user go through a queue made of promises: each waits  *)
(* for the promise it finds in createQueues and leaves its own there.      *)
(* Queries are steps of their own.  The rows live on meanwhile: they are   *)
(* attached, detached, ended and time out (LiveSsh); here a row is only    *)
(* live, lapsed (live, but its expiresAt has passed) or over.              *)
(* One user is enough, since the queue, the limit and the list are his.    *)
(***************************************************************************)
EXTENDS Integers, FiniteSets

CONSTANTS
  Reqs,        \* the create requests of one user; each inserts at most one row
  NoReq,       \* no request
  HostOf,      \* the host each request asks for
  Reusing,     \* the requests that set reuseExisting
  MaxLive,     \* maxLiveSessionsPerUser
  MaxBoots     \* bound on process restarts

ASSUME ReqsAssumption  == IsFiniteSet(Reqs) /\ NoReq \notin Reqs
ASSUME ReuseAssumption == Reusing \subseteq Reqs
ASSUME LimitAssumption == MaxLive \in Nat /\ MaxBoots \in Nat

VARIABLES
  row,       \* the row each request inserted
  pc,        \* progress of each request
  prev,      \* the request whose promise each request waits for
  tail,      \* createQueues: whose promise is in the map
  counted,   \* activeSessions of each request
  doomed,    \* rows each request found lapsed and has yet to end
  boots,     \* number of restarts so far
  order,     \* position of each request in the queue (history)
  entered,   \* number of requests that have joined the queue (history)
  left       \* number of requests that have left it (history)

queueVars == <<prev, tail, order, entered, left>>
listVars  == <<counted, doomed>>
vars      == <<row, pc, queueVars, listVars, boots>>

-----------------------------------------------------------------------------
Working == {"lookup", "list", "purge", "reuse", "insert"}
Over    == {"done", "refused", "lost"}

Pending(r) == pc[r] \in Working \cup {"queued"}

Live == {r \in Reqs : row[r] \in {"live", "lapsed"}}

Init ==
  /\ row = [r \in Reqs |-> "none"]
  /\ pc = [r \in Reqs |-> "idle"]
  /\ prev = [r \in Reqs |-> NoReq]
  /\ tail = NoReq
  /\ counted = [r \in Reqs |-> {}] /\ doomed = [r \in Reqs |-> {}]
  /\ boots = 0
  /\ order = [r \in Reqs |-> 0] /\ entered = 0 /\ left = 0

-----------------------------------------------------------------------------
(* The queue                                                               *)

\* withUserCreateLock up to its await
Enter(r) ==
  /\ pc[r] = "idle"
  /\ pc' = [pc EXCEPT ![r] = "queued"]
  /\ prev' = [prev EXCEPT ![r] = tail]
  /\ tail' = r
  /\ entered' = entered + 1 /\ order' = [order EXCEPT ![r] = entered + 1]
  /\ UNCHANGED <<row, listVars, boots, left>>

\* Mutant of Start: whoever finds nobody at work begins
StartAnyone(r) ==
  /\ pc[r] = "queued"
  /\ \A s \in Reqs : pc[s] \notin Working
  /\ pc' = [pc EXCEPT ![r] = "lookup"]
  /\ UNCHANGED <<row, queueVars, listVars, boots>>

\* The promise waited for is resolved
Start(r) ==
  /\ pc[r] = "queued"
  /\ prev[r] # NoReq => ~Pending(prev[r])
  /\ pc' = [pc EXCEPT ![r] = "lookup"]
  /\ UNCHANGED <<row, queueVars, listVars, boots>>

\* Mutants of Leave: the map entry stays; it is cleared although somebody queued
\* behind; a request that throws does not resolve its promise
LeaveEntry(r, end) ==
  /\ pc' = [pc EXCEPT ![r] = end]
  /\ left' = left + 1
  /\ counted' = [counted EXCEPT ![r] = {}] /\ doomed' = [doomed EXCEPT ![r] = {}]
  /\ UNCHANGED <<prev, tail, order, entered>>

LeaveClearing(r, end) ==
  /\ pc' = [pc EXCEPT ![r] = end]
  /\ tail' = NoReq
  /\ left' = left + 1
  /\ counted' = [counted EXCEPT ![r] = {}] /\ doomed' = [doomed EXCEPT ![r] = {}]
  /\ UNCHANGED <<prev, order, entered>>

LeaveOnSuccess(r, end) ==
  /\ end = "done"
  /\ pc' = [pc EXCEPT ![r] = end]
  /\ tail' = IF tail = r THEN NoReq ELSE tail
  /\ left' = left + 1
  /\ counted' = [counted EXCEPT ![r] = {}] /\ doomed' = [doomed EXCEPT ![r] = {}]
  /\ UNCHANGED <<prev, order, entered>>

\* The finally block, whether the work returned or threw
Leave(r, end) ==
  /\ pc' = [pc EXCEPT ![r] = end]
  /\ tail' = IF tail = r THEN NoReq ELSE tail
  /\ left' = left + 1
  /\ counted' = [counted EXCEPT ![r] = {}] /\ doomed' = [doomed EXCEPT ![r] = {}]
  /\ UNCHANGED <<prev, order, entered>>

-----------------------------------------------------------------------------
(* createOrReuseUnlocked                                                   *)

\* getSshHostForUser: the host, its protocol and its credential
Lookup(r) ==
  /\ pc[r] = "lookup"
  /\ pc' = [pc EXCEPT ![r] = "list"]
  /\ UNCHANGED <<row, queueVars, listVars, boots>>

\* No such host, or a query of whichever step is rejected
Reject(r) ==
  /\ pc[r] \in Working
  /\ Leave(r, "refused")
  /\ UNCHANGED <<row, boots>>

\* listSshLiveSessions, split by isExpiredLiveSession
List(r) ==
  /\ pc[r] = "list"
  /\ pc' = [pc EXCEPT ![r] = "purge"]
  /\ counted' = [counted EXCEPT ![r] = {s \in Reqs : row[s] = "live"}]
  /\ doomed' = [doomed EXCEPT ![r] = {s \in Reqs : row[s] = "lapsed"}]
  /\ UNCHANGED <<row, queueVars, boots>>

\* endExpiredSession of one listed row
Purge(r, s) ==
  /\ pc[r] = "purge" /\ s \in doomed[r]
  /\ doomed' = [doomed EXCEPT ![r] = @ \ {s}]
  /\ row' = [row EXCEPT ![s] = "over"]
  /\ UNCHANGED <<pc, queueVars, counted, boots>>

\* The counted sessions a request may reuse
Reusable(r) == {s \in counted[r] : r \in Reusing /\ HostOf[s] = HostOf[r]}

\* Mutant of Decide: off by one
DecideLate(r) ==
  /\ pc[r] = "purge" /\ doomed[r] = {}
  /\ IF Reusable(r) = {} /\ Cardinality(counted[r]) > MaxLive
     THEN Leave(r, "refused")
     ELSE /\ pc' = [pc EXCEPT ![r] = IF Reusable(r) = {} THEN "insert" ELSE "reuse"]
          /\ UNCHANGED <<queueVars, listVars>>
  /\ UNCHANGED <<row, boots>>

\* After the loop: reuse a counted session of the host when the caller asked
\* for it, else insert below the limit, else throw
Decide(r) ==
  /\ pc[r] = "purge" /\ doomed[r] = {}
  /\ IF Reusable(r) = {} /\ Cardinality(counted[r]) >= MaxLive
     THEN Leave(r, "refused")
     ELSE /\ pc' = [pc EXCEPT ![r] = IF Reusable(r) = {} THEN "insert" ELSE "reuse"]
          /\ UNCHANGED <<queueVars, listVars>>
  /\ UNCHANGED <<row, boots>>

\* The UPDATE of title and size of the reused session
Reuse(r) ==
  /\ pc[r] = "reuse"
  /\ Leave(r, "done")
  /\ UNCHANGED <<row, boots>>

\* createSshLiveSession
Insert(r) ==
  /\ pc[r] = "insert"
  /\ row' = [row EXCEPT ![r] = "live"]
  /\ Leave(r, "done")
  /\ UNCHANGED boots

-----------------------------------------------------------------------------
(* What happens to the rows and to the process meanwhile                   *)

\* A starting or detached row outlives its expiresAt
Lapse(s) ==
  /\ row[s] = "live"
  /\ row' = [row EXCEPT ![s] = "lapsed"]
  /\ UNCHANGED <<pc, queueVars, listVars, boots>>

\* A ticket or an attach that read the row in time extends it late
Extend(s) ==
  /\ row[s] = "lapsed"
  /\ row' = [row EXCEPT ![s] = "live"]
  /\ UNCHANGED <<pc, queueVars, listVars, boots>>

\* Closed, failed, swept or marked stale
End(s) ==
  /\ s \in Live
  /\ row' = [row EXCEPT ![s] = "over"]
  /\ UNCHANGED <<pc, queueVars, listVars, boots>>

\* The process dies: the queue and its requests are gone, the rows stay
Restart ==
  /\ boots < MaxBoots
  /\ boots' = boots + 1
  /\ pc' = [r \in Reqs |-> IF Pending(r) THEN "lost" ELSE pc[r]]
  /\ tail' = NoReq
  /\ left' = entered
  /\ counted' = [r \in Reqs |-> {}] /\ doomed' = [r \in Reqs |-> {}]
  /\ UNCHANGED <<row, prev, order, entered>>

-----------------------------------------------------------------------------
Work(r) ==
  \/ Lookup(r) \/ List(r) \/ Decide(r) \/ Reuse(r) \/ Insert(r) \/ Reject(r)
  \/ \E s \in Reqs : Purge(r, s)

Next ==
  \/ \E r \in Reqs : Enter(r) \/ Start(r) \/ Work(r)
  \/ \E s \in Reqs : Lapse(s) \/ Extend(s) \/ End(s)
  \/ Restart

Spec == Init /\ [][Next]_vars

\* Queries return or throw and promise continuations run
Fairness == \A r \in Reqs : WF_vars(Start(r) \/ Work(r))

FairSpec == Spec /\ Fairness

-----------------------------------------------------------------------------
\* Every variable has its type; the map holds no promise that is resolved.
TypeOK ==
  /\ row \in [Reqs -> {"none", "live", "lapsed", "over"}]
  /\ pc \in [Reqs -> Working \cup Over \cup {"idle", "queued"}]
  /\ prev \in [Reqs -> Reqs \cup {NoReq}]
  /\ tail \in Reqs \cup {NoReq}
  /\ tail # NoReq => Pending(tail)
  /\ counted \in [Reqs -> SUBSET Reqs] /\ doomed \in [Reqs -> SUBSET Reqs]
  /\ boots \in Nat /\ entered \in Nat /\ left \in Nat
  /\ order \in [Reqs -> Nat]

\* The promises in createQueues are a lock: the read of the list and the
\* insert of two requests of a user never overlap, though requests come and go
\* while others wait and the map entry is dropped and made anew.
OneAtATime ==
  \A r, s \in Reqs : pc[r] \in Working /\ pc[s] \in Working => r = s

\* The user never has more live sessions than allowed, although rows lapse,
\* are extended and end between the list and the insert, and across restarts.
LimitHolds == Cardinality(Live) <= MaxLive

\* What UserQueue speaks of: the requests numbered left + 1 .. entered, in that
\* order, and those past their await.
InLine == [i \in 1 .. (entered - left) |-> CHOOSE r \in Reqs : order[r] = left + i]
AtWork == {r \in Reqs : pc[r] \in Working}

\* The promises that wait for each other are a queue: requests are served one
\* at a time in the order in which they came, and none is passed over, although
\* each knows only the one before it and the map only the last.
Queue == INSTANCE UserQueue WITH Requests <- Reqs, queue <- InLine, served <- AtWork
ServedInOrder == Queue!Spec

\* No request waits forever behind one that was refused or threw.
EveryRequestEnds == \A r \in Reqs : Pending(r) ~> ~Pending(r)

-----------------------------------------------------------------------------
(* What the proofs add to make the invariants inductive                    *)

\* The waiting requests are numbered left + 1 .. entered, each behind the one
\* before it, and the map holds the promise of the last
QueueInOrder ==
  /\ left <= entered
  /\ \A r \in Reqs :
       /\ pc[r] = "idle" <=> order[r] = 0
       /\ order[r] <= entered
       /\ Pending(r) <=> order[r] > left
       /\ pc[r] \in Working => order[r] = left + 1
       /\ Pending(r) =>
            IF prev[r] \in Reqs /\ Pending(prev[r])
              THEN order[r] = order[prev[r]] + 1 ELSE order[r] = left + 1
       /\ prev[r] # NoReq => order[prev[r]] # 0
  /\ \A r, s \in Reqs : order[r] = order[s] /\ order[r] # 0 => r = s
  /\ IF tail = NoReq THEN left = entered ELSE order[tail] = entered

\* Every number has been given to a request
Numbered == \A i \in 1 .. entered : \E r \in Reqs : order[r] = i

\* While requests are pending, one of them is at work or has nothing left to
\* wait for: the promises of withUserCreateLock never wait in a circle, nor for
\* one that nobody will resolve.
SomebodyProceeds ==
  (\E r \in Reqs : Pending(r)) =>
    \E r \in Reqs :
      \/ pc[r] \in Working
      \/ pc[r] = "queued" /\ (prev[r] # NoReq => ~Pending(prev[r]))

\* The list is a superset of the live rows until its request is through
ListIsCurrent ==
  \A r \in Reqs :
    /\ pc[r] = "purge" => Live \subseteq counted[r] \cup doomed[r]
    /\ pc[r] = "insert" => Live \subseteq counted[r] /\ Cardinality(counted[r]) < MaxLive
=============================================================================
