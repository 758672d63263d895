--------------------------- MODULE SshTunnelsProofs ---------------------------
(***************************************************************************)
(* Theorems about SshTunnels, for every number of users, start requests,   *)
(* listers, proxied requests, every limit and idle time.  All writes to a  *)
(* row go through UpdateRow, unguarded; what they may do to the row is     *)
(* said once, in RowWrite.  The rest follows the tasks: what a task is     *)
(* about to write was true when it read, at its now, and nows are ordered  *)
(* by the clock.                                                           *)
(***************************************************************************)
EXTENDS SshTunnels, FiniteSetTheorems, TLAPS

USE DEF vars, rowVars, taskVars

\* Before the first request nothing is to be written.
LEMMA InitIInv == Init => IInv
BY TunnelsAssumption, BoundsAssumption
   DEF Init, IInv, TypeOK, Holders, Held, Known, Times, Starting, Pcs, Open, Final, Inspected, Tasks

\* updateSshTunnelSession touches one existing row; it adds an open tunnel
\* only by reviving one.
LEMMA RowWrite ==
  ASSUME TypeOK, NEW x \in Tunnels, row[x].status # "none",
         NEW status \in Open \cup Final, NEW used \in Nat, UpdateRow(x, status, used)
  PROVE  /\ row' \in [Tunnels -> [status : Open \cup Final \cup {"none"}, used : Nat, born : Nat]]
         /\ closed' \in [Tunnels -> Nat] /\ revived' \subseteq Tunnels
         /\ \A y \in Tunnels : row'[y].born = row[y].born
         /\ \A y \in Tunnels : row'[y].status = "none" <=> row[y].status = "none"
         /\ \A y \in Tunnels \ {x} : row'[y] = row[y] /\ closed'[y] = closed[y]
         /\ row'[x].status = status /\ row'[x].used = used
         /\ closed'[x] = IF status \in Final THEN clock ELSE closed[x]
         /\ OpenTunnels' \ revived' \subseteq OpenTunnels \ revived
         /\ status \in Final => x \notin OpenTunnels'
<1>1. /\ row' \in [Tunnels -> [status : Open \cup Final \cup {"none"}, used : Nat, born : Nat]]
      /\ row'[x].status = status /\ row'[x].used = used /\ row'[x].born = row[x].born
      /\ \A y \in Tunnels \ {x} : row'[y] = row[y]
  BY DEF TypeOK, UpdateRow
<1>2. /\ closed' \in [Tunnels -> Nat] /\ revived' \subseteq Tunnels
      /\ \A y \in Tunnels \ {x} : closed'[y] = closed[y]
      /\ closed'[x] = IF status \in Final THEN clock ELSE closed[x]
  BY DEF TypeOK, UpdateRow
<1>3. revived' = IF status \in Open /\ row[x].status \in Final
                 THEN revived \cup {x} ELSE revived
  BY DEF UpdateRow
<1>4. row[x].status \in Open \cup Final
  BY DEF TypeOK
<1>5. OpenTunnels' \ revived' \subseteq OpenTunnels \ revived
  BY <1>1, <1>3, <1>4 DEF OpenTunnels, Open, Final
<1>6. status \in Final => x \notin OpenTunnels'
  BY <1>1 DEF OpenTunnels, Open, Final
<1> QED
  BY <1>1, <1>2, <1>5, <1>6 DEF Open, Final

-----------------------------------------------------------------------------
\* A step that stops nobody's work leaves the locks with those at work.
LEMMA HoldersKept ==
  ASSUME Holders, lock \in [Users -> Tunnels \cup {NoTunnel}], lock' = lock,
         \A s \in Tunnels : pc'[s] = pc[s] \/ pc[s] \notin Starting \/ pc'[s] \in Starting
  PROVE  Holders'
BY TunnelsAssumption DEF Holders

\* A proxied request has no part in starting tunnels.
LEMMA ProxyFrame ==
  ASSUME TypeOK, NEW p \in Proxies, Proxy(p)
  PROVE  /\ pc' \in [Tasks -> Pcs] /\ lock' = lock /\ found' = found
         /\ \A s \in Tunnels : /\ pc'[s] = pc[s]
                               /\ toIdle'[s] = toIdle[s] /\ toEnd'[s] = toEnd[s]
<1> USE TasksAssumption DEF Tasks, Pcs
<1>1. ASSUME NEW x \in Tunnels, TouchRead(p, x)
      PROVE  /\ pc' \in [Tasks -> Pcs] /\ lock' = lock /\ found' = found
             /\ \A s \in Tunnels : /\ pc'[s] = pc[s]
                                   /\ toIdle'[s] = toIdle[s] /\ toEnd'[s] = toEnd[s]
  BY <1>1 DEF TouchRead, Inspect, Goto, TypeOK
<1>2. ASSUME TouchWrite(p) \/ Target(p) \/ Connect(p) \/ FailWrite(p) \/ Hangup(p)
      PROVE  /\ lock' = lock /\ found' = found /\ toIdle' = toIdle /\ toEnd' = toEnd
             /\ \E step \in Pcs : pc' = [pc EXCEPT ![p] = step]
  <2>1. /\ lock' = lock /\ found' = found /\ toIdle' = toIdle /\ toEnd' = toEnd
        /\ \/ Goto(p, "target") \/ Goto(p, "connect") \/ Goto(p, "open")
           \/ Goto(p, "fail") \/ Goto(p, "failed") \/ Goto(p, "closed")
    BY <1>2 DEF TouchWrite, Target, Connect, FailWrite, Hangup
  <2> QED
    BY <2>1 DEF Goto
<1> QED
  BY <1>1, <1>2 DEF Proxy, TypeOK

\* Every step keeps the types, the holder of a lock and what is known of the
\* rows about to be written.
LEMMA TypeStep == TypeOK /\ Held /\ Known /\ Times /\ [Next]_vars => TypeOK'
<1> SUFFICES ASSUME TypeOK, Held, Known, Times, [Next]_vars PROVE TypeOK'
  OBVIOUS
<1> USE TunnelsAssumption, TasksAssumption DEF Tasks, Pcs
<1>0. Holders /\ lock \in [Users -> Tunnels \cup {NoTunnel}]
  BY DEF TypeOK
<1>1. ASSUME NEW k \in Tasks, NEW x \in Tunnels, MarkIdle(k, x) PROVE TypeOK'
  <2>1. row[x].status # "none" /\ at[k] \in Nat
    BY <1>1 DEF MarkIdle, Known, TypeOK
  <2>2. Holders'
    BY <1>0, <1>1, HoldersKept DEF MarkIdle
  <2> QED
    BY <1>1, <2>1, <2>2, RowWrite DEF MarkIdle, TypeOK, Open
<1>2. ASSUME NEW k \in Tasks, NEW x \in Tunnels, Expire(k, x) PROVE TypeOK'
  <2>1. row[x].status # "none" /\ at[k] \in Nat
    BY <1>2 DEF Expire, Known, TypeOK
  <2>2. UpdateRow(x, "ended", at[k])
    BY <1>2 DEF Expire
  <2>3. pc' \in [Tasks -> Pcs] /\ \A s \in Tunnels : pc'[s] = pc[s]
    BY <1>2 DEF Expire, Goto, TypeOK
  <2>4. Holders'
    BY <1>0, <1>2, <2>3, HoldersKept DEF Expire
  <2> QED
    BY <1>2, <2>1, <2>2, <2>3, <2>4, RowWrite DEF Expire, TypeOK, Final
<1>3. ASSUME NEW l \in Lists, List(l) PROVE TypeOK'
  <2>1. pc' \in [Tasks -> Pcs] /\ \A s \in Tunnels : pc'[s] = pc[s]
    BY <1>3 DEF List, Goto, TypeOK
  <2>2. Holders'
    BY <1>0, <1>3, <2>1, HoldersKept DEF List
  <2> QED
    BY <1>3, <2>1, <2>2 DEF List, Inspect, TypeOK
<1>4. ASSUME NEW s \in Tunnels, Acquire(s) PROVE TypeOK'
  <2>1. pc' \in [Tasks -> Pcs] /\ lock' \in [Users -> Tunnels \cup {NoTunnel}]
    BY <1>4 DEF Acquire, Goto, Starting, TypeOK
  <2>2. Holders'
    BY <1>0, <1>4 DEF Acquire, Goto, Holders, Starting, TypeOK
  <2> QED
    BY <1>4, <2>1, <2>2 DEF Acquire, TypeOK
<1>5. ASSUME NEW s \in Tunnels, Reject(s) PROVE TypeOK'
  <2>1. pc' \in [Tasks -> Pcs] /\ lock' \in [Users -> Tunnels \cup {NoTunnel}]
    BY <1>5 DEF Reject, Unlock, Goto, TypeOK
  <2>2. Holders'
    BY <1>0, <1>5 DEF Reject, Unlock, Goto, Holders, TypeOK
  <2> QED
    BY <1>5, <2>1, <2>2 DEF Reject, TypeOK
<1>6. ASSUME NEW s \in Tunnels, StartList(s) PROVE TypeOK'
  <2>1. pc' \in [Tasks -> Pcs] /\ \A r \in Tunnels : pc'[r] = pc[r] \/ pc'[r] \in Starting
    BY <1>6 DEF StartList, Goto, Starting, TypeOK
  <2>2. Holders'
    BY <1>0, <1>6, <2>1, HoldersKept DEF StartList
  <2>3. OpenTunnels \subseteq Tunnels
    BY DEF OpenTunnels
  <2> QED
    BY <1>6, <2>1, <2>2, <2>3 DEF StartList, Inspect, TypeOK
<1>7. ASSUME NEW s \in Tunnels, Count(s) PROVE TypeOK'
  <2>1. pc' \in [Tasks -> Pcs] /\ \A r \in Tunnels : pc'[r] = pc[r] \/ pc'[r] \in Starting
    BY <1>7 DEF Count, Goto, Starting, TypeOK
  <2>2. Holders'
    BY <1>0, <1>7, <2>1, HoldersKept DEF Count
  <2> QED
    BY <1>7, <2>1, <2>2 DEF Count, TypeOK
<1>8. ASSUME NEW s \in Tunnels, Insert(s) PROVE TypeOK'
  <2>1. pc' \in [Tasks -> Pcs] /\ lock' \in [Users -> Tunnels \cup {NoTunnel}]
    BY <1>8 DEF Insert, Unlock, Goto, TypeOK
  <2>2. Holders'
    BY <1>0, <1>8 DEF Insert, Unlock, Goto, Holders, TypeOK
  <2> QED
    BY <1>8, <2>1, <2>2 DEF Insert, TypeOK, Open
<1>9. ASSUME NEW s \in Tunnels, Record(s) PROVE TypeOK'
  <2>1. row[s].status # "none" /\ clock \in Nat
    BY <1>9 DEF Record, Known, TypeOK
  <2>2. /\ pc' \in [Tasks -> Pcs]
        /\ \A r \in Tunnels : pc'[r] = pc[r] \/ pc[r] \notin Starting
    BY <1>9 DEF Record, Goto, Starting, TypeOK
  <2>3. Holders'
    BY <1>0, <1>9, <2>2, HoldersKept DEF Record
  <2>4. CASE UpdateRow(s, "failed", clock)
    BY <1>9, <2>1, <2>2, <2>3, <2>4, RowWrite DEF Record, TypeOK, Final
  <2>5. CASE UNCHANGED rowVars
    BY <1>9, <2>2, <2>3, <2>5 DEF Record, TypeOK
  <2> QED
    BY <1>9, <2>4, <2>5 DEF Record
<1>10. ASSUME NEW p \in Proxies, Proxy(p) PROVE TypeOK'
  <2>1. pc' \in [Tasks -> Pcs] /\ lock' = lock /\ \A s \in Tunnels : pc'[s] = pc[s]
    BY <1>10, ProxyFrame
  <2>2. Holders'
    BY <1>0, <2>1, HoldersKept
  <2>3. ASSUME TouchWrite(p) PROVE TypeOK'
    <3>1. /\ on[p] \in Tunnels /\ row[on[p]].status # "none" /\ at[p] \in Nat
          /\ UpdateRow(on[p], "active", at[p])
      BY <2>3 DEF TouchWrite, Known, TypeOK
    <3> QED
      BY <2>1, <2>2, <2>3, <3>1, RowWrite DEF TouchWrite, TypeOK, Open
  <2>4. ASSUME FailWrite(p) PROVE TypeOK'
    <3>1. /\ on[p] \in Tunnels /\ row[on[p]].status # "none" /\ clock \in Nat
          /\ UpdateRow(on[p], "failed", clock)
      BY <2>4 DEF FailWrite, Known, TypeOK
    <3> QED
      BY <2>1, <2>2, <2>4, <3>1, RowWrite DEF FailWrite, TypeOK, Final
  <2>5. ASSUME NEW x \in Tunnels, TouchRead(p, x) PROVE TypeOK'
    BY <2>1, <2>2, <2>5 DEF TouchRead, Inspect, TypeOK
  <2>6. ASSUME Target(p) \/ Connect(p) \/ Hangup(p) PROVE TypeOK'
    BY <2>1, <2>2, <2>6 DEF Target, Connect, Hangup, TypeOK
  <2> QED
    BY <1>10, <2>3, <2>4, <2>5, <2>6 DEF Proxy
<1>11. ASSUME NEW x \in Tunnels, Terminate(x) PROVE TypeOK'
  <2>1. row[x].status # "none" /\ clock \in Nat /\ UpdateRow(x, "ended", clock)
    BY <1>11 DEF Terminate, TypeOK
  <2>2. Holders'
    BY <1>0, <1>11, HoldersKept DEF Terminate
  <2> QED
    BY <1>11, <2>1, <2>2, RowWrite DEF Terminate, TypeOK, Final
<1>12. CASE Tick \/ UNCHANGED vars
  <2>1. Holders'
    BY <1>0, <1>12, HoldersKept DEF Tick
  <2> QED
    BY <1>12, <2>1 DEF Tick, TypeOK
<1> QED
  BY <1>1, <1>2, <1>3, <1>4, <1>5, <1>6, <1>7, <1>8, <1>9, <1>10, <1>11, <1>12
     DEF Next, Start

-----------------------------------------------------------------------------
\* A step that only moves one task on, or writes a row that exists, keeps what
\* is known of the rows about to be written.
LEMMA KnownKept ==
  ASSUME TypeOK, Known,
         \A x \in Tunnels : row[x].status # "none" => row'[x].status # "none",
         \A k \in Tasks : toIdle'[k] \subseteq toIdle[k] /\ toEnd'[k] \subseteq toEnd[k],
         \A s \in Tunnels : pc'[s] = "record" => pc[s] = "record" \/ row'[s].status # "none",
         \A p \in Proxies : pc'[p] \in {"touch", "target", "connect", "open", "fail"} =>
            on'[p] = on[p] /\ pc[p] \in {"touch", "target", "connect", "open", "fail"}
  PROVE  Known'
BY DEF Known, TypeOK, Tasks

\* Every step keeps Known.
LEMMA KnownStep == TypeOK /\ Held /\ Known /\ Times /\ [Next]_vars => Known'
<1> SUFFICES ASSUME TypeOK, Held, Known, Times, [Next]_vars PROVE Known'
  OBVIOUS
<1> USE TunnelsAssumption, TasksAssumption DEF Tasks
<1>1. ASSUME NEW k \in Tasks, NEW x \in Tunnels, MarkIdle(k, x) PROVE Known'
  <2>1. row[x].status # "none" /\ at[k] \in Nat /\ UpdateRow(x, "idle", at[k])
    BY <1>1 DEF MarkIdle, Known, TypeOK
  <2>2. \A y \in Tunnels : row[y].status # "none" => row'[y].status # "none"
    BY <2>1, RowWrite DEF Open
  <2> QED
    BY <1>1, <2>2, KnownKept DEF MarkIdle, TypeOK
<1>2. ASSUME NEW k \in Tasks, NEW x \in Tunnels, Expire(k, x) PROVE Known'
  <2>1. row[x].status # "none" /\ at[k] \in Nat /\ UpdateRow(x, "ended", at[k])
    BY <1>2 DEF Expire, Known, TypeOK
  <2>2. \A y \in Tunnels : row[y].status # "none" => row'[y].status # "none"
    BY <2>1, RowWrite DEF Final
  <2>3. \A j \in Tasks : pc'[j] = pc[j] \/ (j \in Proxies /\ pc'[j] = "refused")
    <3>1. CASE k \in Proxies
      BY <1>2, <3>1 DEF Expire, Goto, TypeOK
    <3>2. CASE k \notin Proxies
      BY <1>2, <3>2 DEF Expire
    <3> QED
      BY <3>1, <3>2
  <2> QED
    BY <1>2, <2>2, <2>3, KnownKept DEF Expire, TypeOK
<1>3. ASSUME NEW l \in Lists, List(l) PROVE Known'
  <2>1. \A k \in Tasks, x \in Tunnels : x \in toIdle'[k] \cup toEnd'[k] =>
          x \in toIdle[k] \cup toEnd[k] \/ row[x].status \in {"active", "idle"}
    BY <1>3 DEF List, Inspect, Aged, TypeOK
  <2>2. \A j \in Tasks : pc'[j] = pc[j] \/ (j = l /\ pc'[l] = "listed")
    BY <1>3 DEF List, Goto, TypeOK
  <2>3. row' = row /\ on' = on /\ toIdle' \in [Tasks -> SUBSET Tunnels] /\ toEnd' \in [Tasks -> SUBSET Tunnels]
    BY <1>3 DEF List, Inspect, TypeOK
  <2> QED
    BY <2>1, <2>2, <2>3 DEF Known, TypeOK
<1>4. ASSUME NEW s \in Tunnels, Acquire(s) \/ Reject(s) \/ Count(s) PROVE Known'
  <2>1. /\ \A j \in Tasks : pc'[j] = pc[j] \/ (j = s /\ pc'[s] # "record")
        /\ row' = row /\ toIdle' = toIdle /\ toEnd' = toEnd /\ on' = on
    BY <1>4 DEF Acquire, Reject, Count, Goto, TypeOK
  <2> QED
    BY <2>1, KnownKept DEF TypeOK
<1>5. ASSUME NEW s \in Tunnels, StartList(s) PROVE Known'
  <2>1. \A k \in Tasks, x \in Tunnels : x \in toIdle'[k] \cup toEnd'[k] =>
          x \in toIdle[k] \cup toEnd[k] \/ row[x].status \in {"active", "idle"}
    BY <1>5 DEF StartList, Inspect, Aged, TypeOK
  <2>2. \A j \in Tasks : pc'[j] = pc[j] \/ (j = s /\ pc'[s] = "age")
    BY <1>5 DEF StartList, Goto, TypeOK
  <2>3. row' = row /\ on' = on /\ toIdle' \in [Tasks -> SUBSET Tunnels] /\ toEnd' \in [Tasks -> SUBSET Tunnels]
    BY <1>5 DEF StartList, Inspect, TypeOK
  <2> QED
    BY <2>1, <2>2, <2>3 DEF Known, TypeOK
<1>6. ASSUME NEW s \in Tunnels, Insert(s) PROVE Known'
  <2>1. /\ \A x \in Tunnels : row[x].status # "none" => row'[x].status # "none"
        /\ row'[s].status # "none"
    BY <1>6 DEF Insert, TypeOK
  <2>2. \A j \in Tasks : pc'[j] = pc[j] \/ (j = s /\ pc'[s] = "record")
    BY <1>6 DEF Insert, Goto, TypeOK
  <2> QED
    BY <1>6, <2>1, <2>2, KnownKept DEF Insert
<1>7. ASSUME NEW s \in Tunnels, Record(s) PROVE Known'
  <2>1. row[s].status # "none" /\ clock \in Nat
    BY <1>7 DEF Record, Known, TypeOK
  <2>2. \A x \in Tunnels : row[x].status # "none" => row'[x].status # "none"
    BY <1>7, <2>1, RowWrite DEF Record, Final
  <2>3. \A j \in Tasks : pc'[j] = pc[j] \/ (j = s /\ pc'[s] = "done")
    BY <1>7 DEF Record, Goto, TypeOK
  <2> QED
    BY <1>7, <2>2, <2>3, KnownKept DEF Record
<1>8. ASSUME NEW p \in Proxies, NEW x \in Tunnels, TouchRead(p, x) PROVE Known'
  <2>1. \A k \in Tasks, y \in Tunnels : y \in toIdle'[k] \cup toEnd'[k] =>
          y \in toIdle[k] \cup toEnd[k] \/ row[y].status \in {"active", "idle"}
    BY <1>8 DEF TouchRead, Inspect, Aged, TypeOK
  <2>2. \A j \in Tasks : j # p => pc'[j] = pc[j]
    BY <1>8 DEF TouchRead, Goto, TypeOK
  <2>3. /\ \A q \in Proxies : q # p => on'[q] = on[q]
        /\ on'[p] = x /\ row[x].status # "none" /\ row' = row
    BY <1>8 DEF TouchRead, TypeOK
  <2>4. toIdle' \in [Tasks -> SUBSET Tunnels] /\ toEnd' \in [Tasks -> SUBSET Tunnels]
    BY <1>8 DEF TouchRead, Inspect, TypeOK
  <2>5. \A s \in Tunnels : pc'[s] = "record" => row'[s].status # "none"
    BY <2>2, <2>3 DEF Known
  <2>6. \A k \in Tasks : \A y \in toIdle'[k] \cup toEnd'[k] : row'[y].status # "none"
    BY <2>1, <2>3, <2>4 DEF Known
  <2>7. \A q \in Proxies : pc'[q] \in {"touch", "target", "connect", "open", "fail"} =>
          on'[q] \in Tunnels /\ row'[on'[q]].status # "none"
    BY <2>2, <2>3 DEF Known
  <2> QED
    BY <2>5, <2>6, <2>7 DEF Known
<1>9. ASSUME NEW p \in Proxies, TouchWrite(p) \/ FailWrite(p) PROVE Known'
  <2>1. on[p] \in Tunnels /\ row[on[p]].status # "none" /\ at[p] \in Nat /\ clock \in Nat
    BY <1>9 DEF TouchWrite, FailWrite, Known, TypeOK
  <2>2. UpdateRow(on[p], "active", at[p]) \/ UpdateRow(on[p], "failed", clock)
    BY <1>9 DEF TouchWrite, FailWrite
  <2>3. \A x \in Tunnels : row[x].status # "none" => row'[x].status # "none"
    BY <2>1, <2>2, RowWrite DEF Open, Final
  <2>4. \A j \in Tasks : pc'[j] = pc[j]
           \/ (j = p /\ pc[p] \in {"touch", "fail"} /\ pc'[p] \in {"target", "failed"})
    BY <1>9 DEF TouchWrite, FailWrite, Goto, TypeOK
  <2> QED
    BY <1>9, <2>3, <2>4, KnownKept DEF TouchWrite, FailWrite
<1>10. ASSUME NEW p \in Proxies, Target(p) \/ Connect(p) \/ Hangup(p) PROVE Known'
  <2>1. \A j \in Tasks : pc'[j] = pc[j]
           \/ (j = p /\ pc[p] \in {"target", "connect", "open"} /\ pc'[p] # "record"
                     /\ pc'[p] # "touch")
    <3>1. CASE Target(p)
      BY <3>1 DEF Target, Goto, TypeOK
    <3>2. CASE Connect(p)
      BY <3>2 DEF Connect, Goto, TypeOK
    <3>3. CASE Hangup(p)
      BY <3>3 DEF Hangup, Goto, TypeOK
    <3> QED
      BY <1>10, <3>1, <3>2, <3>3
  <2> QED
    BY <1>10, <2>1, KnownKept DEF Target, Connect, Hangup
<1>11. ASSUME NEW x \in Tunnels, Terminate(x) PROVE Known'
  <2>1. row[x].status # "none" /\ clock \in Nat /\ UpdateRow(x, "ended", clock)
    BY <1>11 DEF Terminate, TypeOK
  <2>2. \A y \in Tunnels : row[y].status # "none" => row'[y].status # "none"
    BY <2>1, RowWrite DEF Final
  <2> QED
    BY <1>11, <2>2, KnownKept DEF Terminate
<1>12. CASE Tick \/ UNCHANGED vars
  BY <1>12, KnownKept DEF Tick
<1> QED
  BY <1>1, <1>2, <1>3, <1>4, <1>5, <1>6, <1>7, <1>8, <1>9, <1>10, <1>11, <1>12
     DEF Next, Start, Proxy

-----------------------------------------------------------------------------
\* A step that is not of a start request leaves the lock to its holder.
LEMMA HeldKept ==
  ASSUME TypeOK, Held, lock' = lock,
         \A s \in Tunnels : pc'[s] = pc[s],
         \A s \in Tunnels : row[s].status = "none" => row'[s].status = "none",
         \A s \in Tunnels : toIdle'[s] \subseteq toIdle[s] /\ toEnd'[s] \subseteq toEnd[s]
  PROVE  Held'
BY DEF Held, Inspected

\* Every step keeps the lock with the one request that is at work.
LEMMA HeldStep == TypeOK /\ Held /\ Known /\ Times /\ [Next]_vars => Held'
<1> SUFFICES ASSUME TypeOK, Held, Known, Times, [Next]_vars PROVE Held'
  OBVIOUS
<1> USE TunnelsAssumption, TasksAssumption DEF Tasks
<1>1. ASSUME NEW k \in Tasks, NEW x \in Tunnels, MarkIdle(k, x) PROVE Held'
  <2>1. row[x].status # "none" /\ at[k] \in Nat /\ UpdateRow(x, "idle", at[k])
    BY <1>1 DEF MarkIdle, Known, TypeOK
  <2>2. \A y \in Tunnels : row[y].status = "none" => row'[y].status = "none"
    BY <2>1, RowWrite DEF Open
  <2> QED
    BY <1>1, <2>2, HeldKept DEF MarkIdle, TypeOK
<1>2. ASSUME NEW k \in Tasks, NEW x \in Tunnels, Expire(k, x) PROVE Held'
  <2>1. row[x].status # "none" /\ at[k] \in Nat /\ UpdateRow(x, "ended", at[k])
    BY <1>2 DEF Expire, Known, TypeOK
  <2>2. \A y \in Tunnels : row[y].status = "none" => row'[y].status = "none"
    BY <2>1, RowWrite DEF Final
  <2>3. \A s \in Tunnels : pc'[s] = pc[s]
    BY <1>2 DEF Expire, Goto, TypeOK
  <2> QED
    BY <1>2, <2>2, <2>3, HeldKept DEF Expire, TypeOK
<1>3. ASSUME NEW l \in Lists, List(l) PROVE Held'
  <2>1. \A s \in Tunnels : /\ toIdle'[s] = toIdle[s] /\ toEnd'[s] = toEnd[s]
                           /\ pc'[s] = pc[s]
    BY <1>3 DEF List, Inspect, Goto, TypeOK
  <2> QED
    BY <1>3, <2>1, HeldKept DEF List
<1>4. ASSUME NEW s \in Tunnels, Acquire(s) PROVE Held'
  <2>1. /\ \A r \in Tunnels \ {s} : pc'[r] = pc[r]
        /\ \A r \in Tunnels \ {s} : pc'[r] \in Starting => lock'[Owner[r]] = lock[Owner[r]]
        /\ pc[s] = "ready" /\ pc'[s] = "list" /\ lock'[Owner[s]] = s
    BY <1>4 DEF Acquire, Goto, Held, TypeOK
  <2> QED
    BY <1>4, <2>1 DEF Acquire, Held, Starting, Inspected
<1>5. ASSUME NEW s \in Tunnels, Reject(s) PROVE Held'
  <2>1. /\ \A r \in Tunnels \ {s} : pc'[r] = pc[r]
        /\ \A r \in Tunnels \ {s} : pc'[r] \in Starting => lock'[Owner[r]] = lock[Owner[r]]
        /\ pc'[s] = "refused"
    BY <1>5 DEF Reject, Unlock, Goto, Held, TypeOK
  <2> QED
    BY <1>5, <2>1 DEF Reject, Held, Starting, Inspected
<1>6. ASSUME NEW s \in Tunnels, StartList(s) PROVE Held'
  <2>1. \A r \in Tunnels \ {s} : toIdle'[r] = toIdle[r] /\ toEnd'[r] = toEnd[r]
    BY <1>6 DEF StartList, Inspect, TypeOK
  <2> QED
    BY <1>6, <2>1 DEF StartList, Goto, Held, Starting, Inspected, TypeOK
<1>7. ASSUME NEW s \in Tunnels, Count(s) PROVE Held'
  BY <1>7 DEF Count, Goto, Held, Starting, Inspected, TypeOK
<1>8. ASSUME NEW s \in Tunnels, Insert(s) PROVE Held'
  <2>1. /\ \A r \in Tunnels \ {s} : pc'[r] = pc[r] /\ row'[r] = row[r]
        /\ \A r \in Tunnels \ {s} : pc'[r] \in Starting => lock'[Owner[r]] = lock[Owner[r]]
        /\ pc'[s] = "record"
    BY <1>8 DEF Insert, Unlock, Goto, Held, Starting, TypeOK
  <2> QED
    BY <1>8, <2>1 DEF Insert, Held, Starting, Inspected
<1>9. ASSUME NEW s \in Tunnels, Record(s) PROVE Held'
  <2>1. row[s].status # "none" /\ clock \in Nat
    BY <1>9 DEF Record, Known, TypeOK
  <2>2. \A x \in Tunnels : row[x].status = "none" => row'[x].status = "none"
    BY <1>9, <2>1, RowWrite DEF Record, Final
  <2>3. \A r \in Tunnels : pc'[r] = IF r = s THEN "done" ELSE pc[r]
    BY <1>9 DEF Record, Goto, TypeOK
  <2> QED
    BY <1>9, <2>2, <2>3 DEF Record, Held, Starting, Inspected
<1>10. ASSUME NEW p \in Proxies, Proxy(p) PROVE Held'
  <2>1. /\ lock' = lock /\ \A s \in Tunnels : pc'[s] = pc[s]
        /\ \A s \in Tunnels : toIdle'[s] = toIdle[s] /\ toEnd'[s] = toEnd[s]
    BY <1>10, ProxyFrame
  <2>2. ASSUME TouchWrite(p) \/ FailWrite(p)
        PROVE  \A x \in Tunnels : row[x].status = "none" => row'[x].status = "none"
    <3>1. on[p] \in Tunnels /\ row[on[p]].status # "none" /\ at[p] \in Nat /\ clock \in Nat
      BY <2>2 DEF TouchWrite, FailWrite, Known, TypeOK
    <3>2. UpdateRow(on[p], "active", at[p]) \/ UpdateRow(on[p], "failed", clock)
      BY <2>2 DEF TouchWrite, FailWrite
    <3> QED
      BY <3>1, <3>2, RowWrite DEF Open, Final
  <2>3. TouchWrite(p) \/ FailWrite(p) \/ row' = row
    BY <1>10 DEF Proxy, TouchRead, Target, Connect, Hangup
  <2> QED
    BY <2>1, <2>2, <2>3, HeldKept
<1>11. ASSUME NEW x \in Tunnels, Terminate(x) PROVE Held'
  <2>1. row[x].status # "none" /\ clock \in Nat /\ UpdateRow(x, "ended", clock)
    BY <1>11 DEF Terminate, TypeOK
  <2>2. \A y \in Tunnels : row[y].status = "none" => row'[y].status = "none"
    BY <2>1, RowWrite DEF Final
  <2> QED
    BY <1>11, <2>2, HeldKept DEF Terminate
<1>12. CASE Tick \/ UNCHANGED vars
  BY <1>12, HeldKept DEF Tick
<1> QED
  BY <1>1, <1>2, <1>3, <1>4, <1>5, <1>6, <1>7, <1>8, <1>9, <1>10, <1>11, <1>12
     DEF Next, Start

-----------------------------------------------------------------------------
\* refreshIdleState, the read: what it will write is long enough after the
\* start of the tunnel.
LEMMA InspectTimes ==
  ASSUME TypeOK, Times, NEW k \in Tasks, NEW rows \in SUBSET Tunnels, NEW t \in Nat,
         Inspect(k, rows, t)
  PROVE  /\ \A x \in toIdle'[k] : t >= row[x].born + IdleAfter /\ row[x].status = "active"
         /\ \A x \in toEnd'[k] : t >= row[x].born + 2 * IdleAfter
         /\ \A j \in Tasks \ {k} : toIdle'[j] = toIdle[j] /\ toEnd'[j] = toEnd[j]
         /\ toIdle'[k] \in SUBSET Tunnels /\ toEnd'[k] \in SUBSET Tunnels
<1>1. /\ toIdle'[k] = {x \in rows : Aged(t, x, "active")}
      /\ toEnd'[k] = {x \in rows : Aged(t, x, "idle")}
      /\ \A j \in Tasks \ {k} : toIdle'[j] = toIdle[j] /\ toEnd'[j] = toEnd[j]
  BY DEF Inspect, TypeOK
<1>2. \A x \in Tunnels : row[x].used \in Nat /\ row[x].born \in Nat
  BY DEF TypeOK
<1>3. \A x \in toIdle'[k] : t >= row[x].born + IdleAfter /\ row[x].status = "active"
  BY <1>1, <1>2, BoundsAssumption DEF Aged, Times
<1>4. ASSUME NEW x \in toEnd'[k] PROVE t >= row[x].born + 2 * IdleAfter
  <2>1. /\ row[x].status = "idle" /\ t - row[x].used >= IdleAfter
        /\ row[x].used \in Nat /\ row[x].born \in Nat
    BY <1>1, <1>2, <1>4 DEF Aged
  <2>2. row[x].used >= row[x].born + IdleAfter
    BY <1>1, <1>4, <2>1 DEF Times
  <2> QED
    BY <2>1, <2>2, BoundsAssumption
<1> QED
  BY <1>1, <1>3, <1>4

\* A step that reads no row to act on it keeps the order of times.
LEMMA TimesKept ==
  ASSUME TypeOK, Times, IdleEndsLate, clock' \in Nat, clock' >= clock,
         \A x \in Tunnels : row'[x].born = row[x].born,
         \A x \in Tunnels : row'[x] = row[x]
           \/ (/\ row'[x].used >= row[x].born
               /\ row'[x].status = "idle" => row'[x].used >= row[x].born + IdleAfter),
         \A k \in Tasks : at'[k] \in Nat /\ at'[k] <= clock',
         \A k \in Tasks : (toIdle'[k] = {} /\ toEnd'[k] = {})
           \/ (toIdle'[k] \subseteq toIdle[k] /\ toEnd'[k] \subseteq toEnd[k] /\ at'[k] = at[k]),
         \A p \in Proxies : pc'[p] = "touch" => /\ pc[p] = "touch" /\ on[p] \in Tunnels
                                               /\ on'[p] = on[p] /\ at'[p] = at[p]
  PROVE  Times' /\ IdleEndsLate'
<1> USE BoundsAssumption DEF Tasks
<1>1. \A x \in Tunnels : row[x].used \in Nat /\ row[x].born \in Nat
  BY DEF TypeOK
<1>2. \A x \in Tunnels :
        /\ row'[x].born <= row'[x].used /\ row'[x].born <= clock'
        /\ row'[x].status = "idle" => row'[x].used >= row'[x].born + IdleAfter
  <2> TAKE x \in Tunnels
  <2>1. /\ row[x].born <= row[x].used /\ row[x].born <= clock
        /\ row[x].status = "idle" => row[x].used >= row[x].born + IdleAfter
    BY DEF Times
  <2> QED
    BY <1>1, <2>1 DEF TypeOK
<1>3. \A k \in Tasks : \A x \in toIdle'[k] : at'[k] >= row'[x].born + IdleAfter
  <2> TAKE k \in Tasks
  <2> TAKE x \in toIdle'[k]
  <2>1. x \in toIdle[k] /\ at'[k] = at[k] /\ x \in Tunnels
    BY DEF TypeOK
  <2> QED
    BY <2>1 DEF Times
<1>4. IdleEndsLate'
  <2> SUFFICES ASSUME NEW k \in Tasks, NEW x \in toEnd'[k]
               PROVE  at'[k] >= row'[x].born + 2 * IdleAfter
    BY DEF IdleEndsLate
  <2>1. x \in toEnd[k] /\ at'[k] = at[k] /\ x \in Tunnels
    BY DEF TypeOK
  <2> QED
    BY <2>1 DEF IdleEndsLate
<1>5. \A p \in Proxies : pc'[p] = "touch" => at'[p] >= row'[on'[p]].born
  BY DEF Times
<1> QED
  BY <1>2, <1>3, <1>4, <1>5 DEF Times

\* Every step keeps the order of times.
LEMMA TimesStep ==
  TypeOK /\ Held /\ Known /\ Times /\ IdleEndsLate /\ [Next]_vars => Times' /\ IdleEndsLate'
<1> SUFFICES ASSUME TypeOK, Held, Known, Times, IdleEndsLate, [Next]_vars
             PROVE  Times' /\ IdleEndsLate'
  OBVIOUS
<1> USE TunnelsAssumption, TasksAssumption, BoundsAssumption DEF Tasks
<1>0. /\ clock \in Nat
      /\ \A k \in Tasks : at[k] \in Nat /\ at[k] <= clock
      /\ \A x \in Tunnels : /\ row[x].born \in Nat /\ row[x].used \in Nat
                            /\ row[x].born <= clock /\ row[x].born <= row[x].used
      /\ \A p \in Proxies : pc[p] = "touch" => on[p] \in Tunnels
  BY DEF TypeOK, Times, Known
<1>1. ASSUME NEW k \in Tasks, NEW x \in Tunnels, MarkIdle(k, x) PROVE Times' /\ IdleEndsLate'
  <2>1. row[x].status # "none" /\ at[k] \in Nat /\ UpdateRow(x, "idle", at[k])
    BY <1>1 DEF MarkIdle, Known, TypeOK
  <2>2. at[k] >= row[x].born + IdleAfter
    BY <1>1 DEF MarkIdle, Times
  <2>3. /\ \A y \in Tunnels : row'[y].born = row[y].born
        /\ \A y \in Tunnels \ {x} : row'[y] = row[y]
        /\ row'[x].used = at[k]
    BY <2>1, RowWrite DEF Open
  <2>4. \A j \in Tasks : toIdle'[j] \subseteq toIdle[j] /\ toEnd'[j] = toEnd[j]
    BY <1>1 DEF MarkIdle, TypeOK
  <2> QED
    BY <1>0, <1>1, <2>2, <2>3, <2>4, TimesKept DEF MarkIdle
<1>2. ASSUME NEW k \in Tasks, NEW x \in Tunnels, Expire(k, x) PROVE Times' /\ IdleEndsLate'
  <2>1. row[x].status # "none" /\ at[k] \in Nat /\ UpdateRow(x, "ended", at[k])
    BY <1>2 DEF Expire, Known, TypeOK
  <2>2. at[k] >= row[x].born + 2 * IdleAfter
    BY <1>2 DEF Expire, IdleEndsLate
  <2>3. /\ \A y \in Tunnels : row'[y].born = row[y].born
        /\ \A y \in Tunnels \ {x} : row'[y] = row[y]
        /\ row'[x].used = at[k] /\ row'[x].status = "ended"
    BY <2>1, RowWrite DEF Final
  <2>4. \A j \in Tasks : toEnd'[j] \subseteq toEnd[j] /\ toIdle'[j] = toIdle[j]
    BY <1>2 DEF Expire, TypeOK
  <2>5. \A p \in Proxies : pc'[p] = "touch" => pc[p] = "touch"
    BY <1>2 DEF Expire, Goto, TypeOK
  <2> QED
    BY <1>0, <1>2, <2>2, <2>3, <2>4, <2>5, TimesKept DEF Expire
<1>3. ASSUME NEW l \in Lists, List(l) PROVE Times' /\ IdleEndsLate'
  <2>1. PICK rows \in SUBSET Tunnels : Inspect(l, rows, clock)
    BY <1>3 DEF List
  <2>2. /\ \A x \in toIdle'[l] : clock >= row[x].born + IdleAfter
        /\ \A x \in toEnd'[l] : clock >= row[x].born + 2 * IdleAfter
        /\ \A j \in Tasks \ {l} : toIdle'[j] = toIdle[j] /\ toEnd'[j] = toEnd[j]
    BY <1>0, <2>1, InspectTimes
  <2>3. /\ \A j \in Tasks : at'[j] = IF j = l THEN clock ELSE at[j]
        /\ \A p \in Proxies : pc'[p] = pc[p]
    BY <1>3 DEF List, Goto, TypeOK
  <2> QED
    BY <1>0, <1>3, <2>2, <2>3 DEF List, Times, IdleEndsLate
<1>4. ASSUME NEW s \in Tunnels, Acquire(s) PROVE Times' /\ IdleEndsLate'
  <2>1. \A j \in Tasks : at'[j] = IF j = s THEN clock ELSE at[j]
    BY <1>4 DEF Acquire, TypeOK
  <2>2. toIdle[s] = {} /\ toEnd[s] = {}
    BY <1>4 DEF Acquire, Held, Inspected
  <2>3. \A p \in Proxies : pc'[p] = pc[p]
    BY <1>4 DEF Acquire, Goto, TypeOK
  <2> QED
    BY <1>0, <1>4, <2>1, <2>2, <2>3, TimesKept DEF Acquire
<1>5. ASSUME NEW s \in Tunnels, Reject(s) \/ Count(s) PROVE Times' /\ IdleEndsLate'
  <2>1. \A p \in Proxies : pc'[p] = pc[p]
    BY <1>5 DEF Reject, Count, Goto, TypeOK
  <2> QED
    BY <1>0, <1>5, <2>1, TimesKept DEF Reject, Count
<1>6. ASSUME NEW s \in Tunnels, StartList(s) PROVE Times' /\ IdleEndsLate'
  <2>1. Inspect(s, Tunnels, at[s])
    BY <1>6 DEF StartList
  <2>2. /\ \A x \in toIdle'[s] : at[s] >= row[x].born + IdleAfter
        /\ \A x \in toEnd'[s] : at[s] >= row[x].born + 2 * IdleAfter
        /\ \A j \in Tasks \ {s} : toIdle'[j] = toIdle[j] /\ toEnd'[j] = toEnd[j]
    BY <1>0, <2>1, InspectTimes
  <2>3. \A p \in Proxies : pc'[p] = pc[p]
    BY <1>6 DEF StartList, Goto, TypeOK
  <2> QED
    BY <1>0, <1>6, <2>2, <2>3 DEF StartList, Times, IdleEndsLate
<1>7. ASSUME NEW s \in Tunnels, Insert(s) PROVE Times' /\ IdleEndsLate'
  <2>1. row[s].status = "none" /\ toIdle[s] = {} /\ toEnd[s] = {}
    BY <1>7 DEF Insert, Held, Starting, Inspected
  <2>2. /\ \A k \in Tasks : s \notin toIdle[k] /\ s \notin toEnd[k]
        /\ \A p \in Proxies : pc[p] = "touch" => on[p] # s
    BY <2>1 DEF Known
  <2>3. /\ row'[s] = [status |-> "active", used |-> at[s], born |-> at[s]]
        /\ \A x \in Tunnels \ {s} : row'[x] = row[x]
        /\ \A j \in Tasks : at'[j] = IF j = s THEN 0 ELSE at[j]
        /\ \A p \in Proxies : pc'[p] = pc[p]
    BY <1>7 DEF Insert, Goto, TypeOK
  <2>4. \A x \in Tunnels : /\ row'[x].born <= row'[x].used /\ row'[x].born <= clock
                           /\ row'[x].status = "idle" => row'[x].used >= row'[x].born + IdleAfter
    BY <1>0, <2>3 DEF Times
  <2>5. \A k \in Tasks : toIdle'[k] = toIdle[k] /\ toEnd'[k] = toEnd[k]
    BY <1>7 DEF Insert
  <2>6. \A k \in Tasks : /\ \A x \in toIdle[k] : at'[k] >= row'[x].born + IdleAfter
                         /\ \A x \in toEnd[k] : at'[k] >= row'[x].born + 2 * IdleAfter
    <3> TAKE k \in Tasks
    <3>1. \A x \in toIdle[k] \cup toEnd[k] : x \in Tunnels \ {s} /\ k # s
      BY <2>1, <2>2 DEF TypeOK
    <3>2. \A x \in toIdle[k] \cup toEnd[k] : at'[k] = at[k] /\ row'[x] = row[x]
      BY <2>3, <3>1
    <3> QED
      BY <3>2 DEF Times, IdleEndsLate
  <2>7. \A p \in Proxies : pc'[p] = "touch" => at'[p] >= row'[on[p]].born
    BY <1>0, <2>2, <2>3 DEF Times
  <2> QED
    BY <1>0, <1>7, <2>3, <2>4, <2>5, <2>6, <2>7 DEF Insert, Times, IdleEndsLate
<1>8. ASSUME NEW s \in Tunnels, Record(s) PROVE Times' /\ IdleEndsLate'
  <2>1. row[s].status # "none" /\ clock \in Nat
    BY <1>8 DEF Record, Known, TypeOK
  <2>2. \A p \in Proxies : pc'[p] = pc[p]
    BY <1>8 DEF Record, Goto, TypeOK
  <2>3. CASE UpdateRow(s, "failed", clock)
    <3>1. /\ \A y \in Tunnels : row'[y].born = row[y].born
          /\ \A y \in Tunnels \ {s} : row'[y] = row[y]
          /\ row'[s].used = clock /\ row'[s].status = "failed"
      BY <2>1, <2>3, RowWrite DEF Final
    <3> QED
      BY <1>0, <1>8, <2>2, <3>1, TimesKept DEF Record
  <2>4. CASE UNCHANGED rowVars
    BY <1>0, <1>8, <2>2, <2>4, TimesKept DEF Record
  <2> QED
    BY <1>8, <2>3, <2>4 DEF Record
<1>9. ASSUME NEW p \in Proxies, NEW x \in Tunnels, TouchRead(p, x) PROVE Times' /\ IdleEndsLate'
  <2>1. Inspect(p, {x}, clock)
    BY <1>9 DEF TouchRead
  <2>2. /\ \A y \in toIdle'[p] : clock >= row[y].born + IdleAfter
        /\ \A y \in toEnd'[p] : clock >= row[y].born + 2 * IdleAfter
        /\ \A j \in Tasks \ {p} : toIdle'[j] = toIdle[j] /\ toEnd'[j] = toEnd[j]
    BY <1>0, <2>1, InspectTimes
  <2>3. /\ \A j \in Tasks : at'[j] = IF j = p THEN clock ELSE at[j]
        /\ \A q \in Proxies \ {p} : pc'[q] = pc[q] /\ on'[q] = on[q]
        /\ on'[p] = x /\ row' = row /\ clock' = clock
    BY <1>9 DEF TouchRead, Goto, TypeOK
  <2>4. \A q \in Proxies : pc'[q] = "touch" => at'[q] >= row'[on'[q]].born
    BY <1>0, <2>3 DEF Times
  <2>5. /\ \A k \in Tasks : at'[k] <= clock
        /\ \A k \in Tasks : \A y \in toIdle'[k] : at'[k] >= row[y].born + IdleAfter
        /\ \A k \in Tasks : \A y \in toEnd'[k] : at'[k] >= row[y].born + 2 * IdleAfter
    BY <1>0, <2>2, <2>3 DEF Times, IdleEndsLate
  <2> QED
    BY <2>3, <2>4, <2>5 DEF Times, IdleEndsLate
<1>10. ASSUME NEW p \in Proxies, TouchWrite(p) PROVE Times' /\ IdleEndsLate'
  <2>1. on[p] \in Tunnels /\ row[on[p]].status # "none" /\ UpdateRow(on[p], "active", at[p])
    BY <1>10 DEF TouchWrite, Known
  <2>2. at[p] >= row[on[p]].born
    BY <1>10 DEF TouchWrite, Times
  <2>3. /\ \A y \in Tunnels : row'[y].born = row[y].born
        /\ \A y \in Tunnels \ {on[p]} : row'[y] = row[y]
        /\ row'[on[p]].used = at[p] /\ row'[on[p]].status = "active"
    BY <1>0, <2>1, RowWrite DEF Open
  <2>4. /\ \A j \in Tasks : at'[j] = IF j = p THEN 0 ELSE at[j]
        /\ \A q \in Proxies : pc'[q] = IF q = p THEN "target" ELSE pc[q]
    BY <1>10 DEF TouchWrite, Goto, TypeOK
  <2> QED
    BY <1>0, <1>10, <2>2, <2>3, <2>4, TimesKept DEF TouchWrite, Inspected
<1>11. ASSUME NEW p \in Proxies, Target(p) \/ Connect(p) \/ Hangup(p)
       PROVE  Times' /\ IdleEndsLate'
  <2>1. \A q \in Proxies : pc'[q] = "touch" => pc[q] = "touch"
    BY <1>11 DEF Target, Connect, Hangup, Goto, TypeOK
  <2> QED
    BY <1>0, <1>11, <2>1, TimesKept DEF Target, Connect, Hangup
<1>12. ASSUME NEW p \in Proxies, FailWrite(p) PROVE Times' /\ IdleEndsLate'
  <2>1. on[p] \in Tunnels /\ row[on[p]].status # "none" /\ UpdateRow(on[p], "failed", clock)
    BY <1>12 DEF FailWrite, Known
  <2>2. /\ \A y \in Tunnels : row'[y].born = row[y].born
        /\ \A y \in Tunnels \ {on[p]} : row'[y] = row[y]
        /\ row'[on[p]].used = clock /\ row'[on[p]].status = "failed"
    BY <1>0, <2>1, RowWrite DEF Final
  <2>3. \A q \in Proxies : pc'[q] = "touch" => pc[q] = "touch"
    BY <1>12 DEF FailWrite, Goto, TypeOK
  <2> QED
    BY <1>0, <1>12, <2>2, <2>3, TimesKept DEF FailWrite
<1>13. ASSUME NEW x \in Tunnels, Terminate(x) PROVE Times' /\ IdleEndsLate'
  <2>1. row[x].status # "none" /\ UpdateRow(x, "ended", clock)
    BY <1>13 DEF Terminate
  <2>2. /\ \A y \in Tunnels : row'[y].born = row[y].born
        /\ \A y \in Tunnels \ {x} : row'[y] = row[y]
        /\ row'[x].used = clock /\ row'[x].status = "ended"
    BY <1>0, <2>1, RowWrite DEF Final
  <2> QED
    BY <1>0, <1>13, <2>2, TimesKept DEF Terminate
<1>14. CASE Tick
  BY <1>0, <1>14, TimesKept DEF Tick
<1>15. CASE UNCHANGED vars
  BY <1>0, <1>15, TimesKept
<1> QED
  BY <1>1, <1>2, <1>3, <1>4, <1>5, <1>6, <1>7, <1>8, <1>9, <1>10, <1>11, <1>12, <1>13, <1>14, <1>15
     DEF Next, Start, Proxy

-----------------------------------------------------------------------------
\* No task comes to intend to open a final row by a step that leaves the
\* intents alone, or takes up rows that are not final.
LEMMA RacesKept ==
  ASSUME OnlyRacesRevive, clock \in Nat, \A k \in Tasks : at[k] \in Nat /\ at[k] <= clock,
         \A k \in Tasks, x \in Tunnels : WouldOpen(k, x)' =>
            (WouldOpen(k, x) /\ at'[k] = at[k]) \/ row'[x].status \notin Final,
         \A x \in Tunnels : row'[x].status \in Final =>
            closed'[x] = clock \/ (row[x].status \in Final /\ closed'[x] = closed[x])
  PROVE  OnlyRacesRevive'
<1> SUFFICES ASSUME NEW k \in Tasks, NEW x \in Tunnels,
                    WouldOpen(k, x)', row'[x].status \in Final
             PROVE  at'[k] <= closed'[x]
  BY DEF OnlyRacesRevive
<1>1. WouldOpen(k, x) /\ at'[k] = at[k]
  OBVIOUS
<1>2. CASE closed'[x] = clock
  BY <1>1, <1>2
<1>3. CASE row[x].status \in Final /\ closed'[x] = closed[x]
  BY <1>1, <1>3 DEF OnlyRacesRevive
<1> QED
  BY <1>2, <1>3

\* Every step keeps late writers the only ones that open a final row.
LEMMA RaceStep ==
  TypeOK /\ Held /\ Known /\ Times /\ OnlyRacesRevive /\ [Next]_vars => OnlyRacesRevive'
<1> SUFFICES ASSUME TypeOK, Held, Known, Times, OnlyRacesRevive, [Next]_vars
             PROVE  OnlyRacesRevive'
  OBVIOUS
<1> USE TunnelsAssumption, TasksAssumption DEF Tasks
<1>0. clock \in Nat /\ \A k \in Tasks : at[k] \in Nat /\ at[k] <= clock
  BY DEF TypeOK, Times
<1>1. ASSUME NEW k \in Tasks, NEW x \in Tunnels, MarkIdle(k, x) PROVE OnlyRacesRevive'
  <2>1. row[x].status # "none" /\ UpdateRow(x, "idle", at[k])
    BY <1>1 DEF MarkIdle, Known
  <2>2. /\ \A y \in Tunnels \ {x} : row'[y] = row[y] /\ closed'[y] = closed[y]
        /\ row'[x].status \notin Final
    BY <1>0, <2>1, RowWrite DEF Open, Final
  <2>3. \A j \in Tasks, y \in Tunnels : WouldOpen(j, y)' => WouldOpen(j, y)
    BY <1>1 DEF MarkIdle, WouldOpen, TypeOK
  <2> QED
    BY <1>0, <1>1, <2>2, <2>3, RacesKept DEF MarkIdle
<1>2. ASSUME NEW k \in Tasks, NEW x \in Tunnels, Expire(k, x) PROVE OnlyRacesRevive'
  <2>1. row[x].status # "none" /\ UpdateRow(x, "ended", at[k])
    BY <1>2 DEF Expire, Known
  <2>2. /\ \A y \in Tunnels \ {x} : row'[y] = row[y] /\ closed'[y] = closed[y]
        /\ closed'[x] = clock
    BY <1>0, <2>1, RowWrite DEF Final
  <2>3. \A j \in Tasks, y \in Tunnels : WouldOpen(j, y)' => WouldOpen(j, y)
    <3>1. CASE k \in Proxies
      BY <1>2, <3>1 DEF Expire, Goto, WouldOpen, TypeOK
    <3>2. CASE k \notin Proxies
      BY <1>2, <3>2 DEF Expire, WouldOpen, TypeOK
    <3> QED
      BY <3>1, <3>2
  <2> QED
    BY <1>0, <1>2, <2>2, <2>3, RacesKept DEF Expire
<1>3. ASSUME NEW l \in Lists, List(l) PROVE OnlyRacesRevive'
  <2>1. \A j \in Tasks, y \in Tunnels : WouldOpen(j, y)' =>
          (j # l /\ WouldOpen(j, y)) \/ row[y].status = "active"
    <3>1. \A p \in Proxies : pc'[p] = pc[p]
      BY <1>3 DEF List, Goto, TypeOK
    <3>2. \A j \in Tasks \ {l} : toIdle'[j] = toIdle[j] /\ toEnd'[j] = toEnd[j]
      BY <1>3 DEF List, Inspect, TypeOK
    <3>3. \A y \in toIdle'[l] : row[y].status = "active"
      BY <1>3 DEF List, Inspect, Aged, TypeOK
    <3> QED
      BY <1>3, <3>1, <3>2, <3>3 DEF List, WouldOpen
  <2>2. \A j \in Tasks \ {l} : at'[j] = at[j]
    BY <1>3 DEF List, TypeOK
  <2> QED
    BY <1>0, <1>3, <2>1, <2>2, RacesKept DEF List, Final
<1>4. ASSUME NEW s \in Tunnels, Acquire(s) PROVE OnlyRacesRevive'
  <2>1. toIdle[s] = {}
    BY <1>4 DEF Acquire, Held, Inspected
  <2>2. /\ \A j \in Tasks \ {s} : at'[j] = at[j]
        /\ \A p \in Proxies : pc'[p] = pc[p]
    BY <1>4 DEF Acquire, Goto, TypeOK
  <2>3. \A j \in Tasks, y \in Tunnels : WouldOpen(j, y)' => j # s /\ WouldOpen(j, y)
    BY <1>4, <2>1, <2>2 DEF Acquire, WouldOpen
  <2> QED
    BY <1>0, <1>4, <2>2, <2>3, RacesKept DEF Acquire
<1>5. ASSUME NEW s \in Tunnels, Reject(s) \/ Count(s) PROVE OnlyRacesRevive'
  <2>1. /\ \A p \in Proxies : pc'[p] = pc[p]
        /\ at' = at /\ toIdle' = toIdle /\ toEnd' = toEnd /\ on' = on
        /\ row' = row /\ closed' = closed
    BY <1>5 DEF Reject, Count, Goto, TypeOK
  <2>2. \A j \in Tasks, y \in Tunnels : WouldOpen(j, y)' => WouldOpen(j, y)
    BY <2>1 DEF WouldOpen
  <2> QED
    BY <1>0, <2>1, <2>2, RacesKept
<1>6. ASSUME NEW s \in Tunnels, StartList(s) PROVE OnlyRacesRevive'
  <2>1. \A p \in Proxies : pc'[p] = pc[p] /\ toEnd'[p] = toEnd[p]
    BY <1>6 DEF StartList, Inspect, Goto, TypeOK
  <2>2. \A j \in Tasks, y \in Tunnels : WouldOpen(j, y)' =>
          WouldOpen(j, y) \/ row[y].status = "active"
    BY <1>6, <2>1 DEF StartList, Inspect, Aged, WouldOpen, TypeOK
  <2> QED
    BY <1>0, <1>6, <2>2, RacesKept DEF StartList, Final
<1>7. ASSUME NEW s \in Tunnels, Insert(s) PROVE OnlyRacesRevive'
  <2>1. toIdle[s] = {}
    BY <1>7 DEF Insert, Held, Inspected
  <2>2. /\ \A j \in Tasks \ {s} : at'[j] = at[j]
        /\ \A p \in Proxies : pc'[p] = pc[p]
        /\ row'[s].status = "active" /\ \A x \in Tunnels \ {s} : row'[x] = row[x]
    BY <1>7 DEF Insert, Goto, TypeOK
  <2>3. \A j \in Tasks, y \in Tunnels : WouldOpen(j, y)' => j # s /\ WouldOpen(j, y)
    BY <1>7, <2>1, <2>2 DEF Insert, WouldOpen
  <2> QED
    BY <1>0, <1>7, <2>2, <2>3, RacesKept DEF Insert, Final
<1>8. ASSUME NEW s \in Tunnels, Record(s) PROVE OnlyRacesRevive'
  <2>1. row[s].status # "none"
    BY <1>8 DEF Record, Known
  <2>2. \A p \in Proxies : pc'[p] = pc[p]
    BY <1>8 DEF Record, Goto, TypeOK
  <2>3. \A j \in Tasks, y \in Tunnels : WouldOpen(j, y)' => WouldOpen(j, y)
    BY <1>8, <2>2 DEF Record, WouldOpen
  <2>4. \A x \in Tunnels : row'[x].status \in Final =>
            closed'[x] = clock \/ (row[x].status \in Final /\ closed'[x] = closed[x])
    <3>1. CASE UpdateRow(s, "failed", clock)
      BY <1>0, <2>1, <3>1, RowWrite DEF Final
    <3>2. CASE UNCHANGED rowVars
      BY <3>2
    <3> QED
      BY <1>8, <3>1, <3>2 DEF Record
  <2> QED
    BY <1>0, <1>8, <2>3, <2>4, RacesKept DEF Record
<1>9. ASSUME NEW p \in Proxies, NEW x \in Tunnels, TouchRead(p, x) PROVE OnlyRacesRevive'
  <2>1. \A j \in Tasks \ {p} : at'[j] = at[j] /\ toIdle'[j] = toIdle[j] /\ toEnd'[j] = toEnd[j]
    BY <1>9 DEF TouchRead, Inspect, TypeOK
  <2>2. \A q \in Proxies \ {p} : pc'[q] = pc[q] /\ on'[q] = on[q]
    BY <1>9 DEF TouchRead, Goto, TypeOK
  <2>3. /\ \A y \in toIdle'[p] : row[y].status = "active"
        /\ on'[p] = x /\ (pc'[p] = "touch" => row[x].status \notin Final)
    BY <1>9 DEF TouchRead, Inspect, Aged, Goto, TypeOK
  <2>4. \A j \in Tasks, y \in Tunnels : WouldOpen(j, y)' =>
          (j # p /\ WouldOpen(j, y)) \/ row[y].status \notin Final
    BY <2>1, <2>2, <2>3 DEF WouldOpen, Final
  <2> QED
    BY <1>0, <1>9, <2>1, <2>4, RacesKept DEF TouchRead
<1>10. ASSUME NEW p \in Proxies, TouchWrite(p) PROVE OnlyRacesRevive'
  <2>1. on[p] \in Tunnels /\ row[on[p]].status # "none" /\ UpdateRow(on[p], "active", at[p])
    BY <1>10 DEF TouchWrite, Known
  <2>2. /\ \A y \in Tunnels \ {on[p]} : row'[y] = row[y] /\ closed'[y] = closed[y]
        /\ row'[on[p]].status \notin Final
    BY <1>0, <2>1, RowWrite DEF Open, Final
  <2>3. /\ \A j \in Tasks \ {p} : at'[j] = at[j]
        /\ \A q \in Proxies : pc'[q] = IF q = p THEN "target" ELSE pc[q]
        /\ toIdle[p] = {}
    BY <1>10 DEF TouchWrite, Inspected, Goto, TypeOK
  <2>4. \A j \in Tasks, y \in Tunnels : WouldOpen(j, y)' => j # p /\ WouldOpen(j, y)
    BY <1>10, <2>3 DEF TouchWrite, WouldOpen
  <2> QED
    BY <1>0, <2>2, <2>3, <2>4, RacesKept
<1>11. ASSUME NEW p \in Proxies, Target(p) \/ Connect(p) \/ Hangup(p) PROVE OnlyRacesRevive'
  <2>1. /\ \A q \in Proxies : pc'[q] = "touch" => pc[q] = "touch"
        /\ at' = at /\ toIdle' = toIdle /\ toEnd' = toEnd /\ on' = on
        /\ row' = row /\ closed' = closed
    BY <1>11 DEF Target, Connect, Hangup, Goto, TypeOK
  <2>2. \A j \in Tasks, y \in Tunnels : WouldOpen(j, y)' => WouldOpen(j, y)
    BY <2>1 DEF WouldOpen
  <2> QED
    BY <1>0, <2>1, <2>2, RacesKept
<1>12. ASSUME NEW p \in Proxies, FailWrite(p) PROVE OnlyRacesRevive'
  <2>1. on[p] \in Tunnels /\ row[on[p]].status # "none" /\ UpdateRow(on[p], "failed", clock)
    BY <1>12 DEF FailWrite, Known
  <2>2. \A y \in Tunnels \ {on[p]} : row'[y] = row[y] /\ closed'[y] = closed[y]
    BY <1>0, <2>1, RowWrite DEF Final
  <2>3. closed'[on[p]] = clock
    BY <1>0, <2>1, RowWrite DEF Final
  <2>4. \A q \in Proxies : pc'[q] = "touch" => pc[q] = "touch"
    BY <1>12 DEF FailWrite, Goto, TypeOK
  <2>5. \A j \in Tasks, y \in Tunnels : WouldOpen(j, y)' => WouldOpen(j, y)
    BY <1>12, <2>4 DEF FailWrite, WouldOpen
  <2> QED
    BY <1>0, <1>12, <2>2, <2>3, <2>5, RacesKept DEF FailWrite
<1>13. ASSUME NEW x \in Tunnels, Terminate(x) PROVE OnlyRacesRevive'
  <2>1. row[x].status # "none" /\ UpdateRow(x, "ended", clock)
    BY <1>13 DEF Terminate
  <2>2. /\ \A y \in Tunnels \ {x} : row'[y] = row[y] /\ closed'[y] = closed[y]
        /\ closed'[x] = clock
    BY <1>0, <2>1, RowWrite DEF Final
  <2>3. \A j \in Tasks, y \in Tunnels : WouldOpen(j, y)' => WouldOpen(j, y)
    BY <1>13 DEF Terminate, WouldOpen
  <2> QED
    BY <1>0, <1>13, <2>2, <2>3, RacesKept DEF Terminate
<1>14. CASE Tick \/ UNCHANGED vars
  <2>1. \A j \in Tasks, y \in Tunnels : WouldOpen(j, y)' => WouldOpen(j, y)
    BY <1>14 DEF Tick, WouldOpen
  <2> QED
    BY <1>0, <1>14, <2>1, RacesKept DEF Tick
<1> QED
  BY <1>1, <1>2, <1>3, <1>4, <1>5, <1>6, <1>7, <1>8, <1>9, <1>10, <1>11, <1>12, <1>13, <1>14
     DEF Next, Start, Proxy

-----------------------------------------------------------------------------
\* All sets of tunnels are finite.
LEMMA FiniteTunnels ==
  ASSUME NEW S \in SUBSET Tunnels
  PROVE  IsFiniteSet(S) /\ Cardinality(S) \in Nat
BY TunnelsAssumption, FS_Subset, FS_CardinalityType

\* A smaller set has no larger cardinality.
LEMMA FewerTunnels ==
  ASSUME NEW S \in SUBSET Tunnels, NEW T \in SUBSET S
  PROVE  Cardinality(T) <= Cardinality(S)
BY FiniteTunnels, FS_Subset

\* One more tunnel adds at most one to the cardinality.
LEMMA OneTunnelMore ==
  ASSUME NEW S \in SUBSET Tunnels, NEW x \in Tunnels
  PROVE  Cardinality(S \cup {x}) <= Cardinality(S) + 1
BY FiniteTunnels, FS_AddElement

\* A step that opens no tunnel but by reviving it, and lets nobody past the
\* list, keeps both.
LEMMA NoNewTunnel ==
  ASSUME ListIsCurrent, LimitHolds, OpenTunnels' \ revived' \subseteq OpenTunnels \ revived,
         \A s \in Tunnels : pc'[s] \in {"age", "insert"} => pc'[s] = pc[s] /\ found'[s] = found[s],
         \A s \in Tunnels : \A x \in toEnd[s] : x \in toEnd'[s] \/ x \notin OpenTunnels'
  PROVE  ListIsCurrent' /\ LimitHolds'
<1>1. \A u \in Users : /\ OpenOf(u)' \ revived' \subseteq OpenOf(u) \ revived
                       /\ OpenOf(u) \subseteq Tunnels /\ OpenOf(u)' \subseteq OpenTunnels'
  BY DEF OpenOf, OpenTunnels
<1>2. ListIsCurrent'
  <2> SUFFICES ASSUME NEW s \in Tunnels
               PROVE  /\ pc'[s] = "age" =>
                           OpenOf(Owner[s])' \ revived' \subseteq found'[s] \cup toEnd'[s]
                      /\ pc'[s] = "insert" => /\ OpenOf(Owner[s])' \ revived' \subseteq found'[s]
                                              /\ Cardinality(found'[s]) < MaxOpen
    BY DEF ListIsCurrent
  <2>1. Owner[s] \in Users
    BY TunnelsAssumption
  <2> QED
    BY <1>1, <2>1 DEF ListIsCurrent
<1>3. LimitHolds'
  <2> SUFFICES ASSUME NEW u \in Users PROVE Cardinality(OpenOf(u)' \ revived') <= MaxOpen
    BY DEF LimitHolds
  <2>1. /\ OpenOf(u) \ revived \in SUBSET Tunnels
        /\ OpenOf(u)' \ revived' \in SUBSET (OpenOf(u) \ revived)
    BY <1>1
  <2>2. /\ Cardinality(OpenOf(u)' \ revived') <= Cardinality(OpenOf(u) \ revived)
        /\ Cardinality(OpenOf(u)' \ revived') \in Nat
        /\ Cardinality(OpenOf(u) \ revived) \in Nat
    BY <2>1, FewerTunnels, FiniteTunnels
  <2>3. Cardinality(OpenOf(u) \ revived) <= MaxOpen
    BY DEF LimitHolds
  <2> QED
    BY <2>2, <2>3, BoundsAssumption
<1> QED
  BY <1>2, <1>3

\* A step that opens no tunnel and gets one request past its list or its count.
LEMMA OneRequestOn ==
  ASSUME ListIsCurrent, LimitHolds, row' = row, revived' = revived, NEW s \in Tunnels,
         \A r \in Tunnels \ {s} : /\ pc'[r] = pc[r] /\ found'[r] = found[r]
                                  /\ toEnd'[r] = toEnd[r],
         pc'[s] = "age" => OpenOf(Owner[s]) \ revived \subseteq found'[s] \cup toEnd'[s],
         pc'[s] = "insert" => /\ OpenOf(Owner[s]) \ revived \subseteq found'[s]
                              /\ Cardinality(found'[s]) < MaxOpen
  PROVE  ListIsCurrent' /\ LimitHolds'
<1>1. \A u : OpenOf(u)' = OpenOf(u)
  BY DEF OpenOf, OpenTunnels
<1>2. ListIsCurrent'
  BY <1>1 DEF ListIsCurrent
<1> QED
  BY <1>1, <1>2 DEF LimitHolds

\* The list, the ends of aged tunnels, the count and the insert together
\* respect maxOpenSessionsPerUser.
LEMMA LimitStep ==
  TypeOK /\ Held /\ Known /\ Times /\ ListIsCurrent /\ LimitHolds /\ [Next]_vars
    => ListIsCurrent' /\ LimitHolds'
<1> SUFFICES ASSUME TypeOK, Held, Known, Times, ListIsCurrent, LimitHolds, [Next]_vars
             PROVE  ListIsCurrent' /\ LimitHolds'
  OBVIOUS
<1> USE TunnelsAssumption, TasksAssumption DEF Tasks
<1>0. /\ clock \in Nat /\ \A k \in Tasks : at[k] \in Nat
      /\ \A s, r \in Tunnels : pc[s] \in Starting /\ pc[r] \in Starting /\ Owner[s] = Owner[r] => s = r
  BY DEF TypeOK, Held
<1>1. ASSUME NEW k \in Tasks, NEW x \in Tunnels, MarkIdle(k, x) \/ Expire(k, x)
      PROVE  ListIsCurrent' /\ LimitHolds'
  <2>1. /\ row[x].status # "none"
        /\ UpdateRow(x, "idle", at[k]) \/ UpdateRow(x, "ended", at[k])
    BY <1>1 DEF MarkIdle, Expire, Known
  <2>2. OpenTunnels' \ revived' \subseteq OpenTunnels \ revived
    BY <1>0, <2>1, RowWrite DEF Open, Final
  <2>3. \A s \in Tunnels : pc'[s] = pc[s] /\ found' = found
    <3>1. CASE MarkIdle(k, x)
      BY <3>1 DEF MarkIdle
    <3>2. CASE Expire(k, x)
      BY <3>2 DEF Expire, Goto, TypeOK
    <3> QED
      BY <1>1, <3>1, <3>2
  <2>4. \A s \in Tunnels : \A y \in toEnd[s] : y \in toEnd'[s] \/ y \notin OpenTunnels'
    <3>1. CASE MarkIdle(k, x)
      BY <3>1 DEF MarkIdle
    <3>2. CASE Expire(k, x)
      <4>1. x \notin OpenTunnels'
        BY <1>0, <2>1, <3>2, RowWrite DEF Expire, Open, Final
      <4> QED
        BY <3>2, <4>1 DEF Expire, TypeOK
    <3> QED
      BY <1>1, <3>1, <3>2
  <2> QED
    BY <2>2, <2>3, <2>4, NoNewTunnel
<1>2. ASSUME NEW l \in Lists, List(l) PROVE ListIsCurrent' /\ LimitHolds'
  <2>1. \A s \in Tunnels : toEnd'[s] = toEnd[s] /\ pc'[s] = pc[s]
    BY <1>2 DEF List, Inspect, Goto, TypeOK
  <2>2. OpenTunnels' \ revived' = OpenTunnels \ revived
    BY <1>2 DEF List, OpenTunnels
  <2> QED
    BY <1>2, <2>1, <2>2, NoNewTunnel DEF List
<1>3. ASSUME NEW s \in Tunnels, Acquire(s) \/ Reject(s)
      PROVE  ListIsCurrent' /\ LimitHolds'
  <2>1. /\ \A r \in Tunnels \ {s} : pc'[r] = pc[r] /\ found'[r] = found[r]
        /\ pc'[s] \in {"list", "refused"}
        /\ toEnd' = toEnd /\ row' = row /\ revived' = revived
    BY <1>3 DEF Acquire, Reject, Goto, TypeOK
  <2> QED
    BY <2>1, OneRequestOn
<1>4. ASSUME NEW s \in Tunnels, StartList(s) PROVE ListIsCurrent' /\ LimitHolds'
  <2>1. \A r \in Tunnels \ {s} : pc'[r] = pc[r] /\ found'[r] = found[r] /\ toEnd'[r] = toEnd[r]
    BY <1>4 DEF StartList, Inspect, Goto, TypeOK
  <2>2. pc'[s] = "age" /\ OpenTunnels \subseteq found'[s] \cup toEnd'[s]
    BY <1>4 DEF StartList, Inspect, Goto, OpenTunnels, TypeOK
  <2>3. OpenOf(Owner[s]) \subseteq OpenTunnels
    BY DEF OpenOf
  <2> QED
    BY <1>4, <2>1, <2>2, <2>3, OneRequestOn DEF StartList
<1>5. ASSUME NEW s \in Tunnels, Count(s) PROVE ListIsCurrent' /\ LimitHolds'
  <2>1. \A r \in Tunnels \ {s} : pc'[r] = pc[r]
    BY <1>5 DEF Count, Goto, TypeOK
  <2>2. /\ pc'[s] = "insert" /\ Cardinality(found[s]) < MaxOpen
        /\ OpenOf(Owner[s]) \ revived \subseteq found[s]
    BY <1>5 DEF Count, Goto, Inspected, ListIsCurrent, TypeOK
  <2> QED
    BY <1>5, <2>1, <2>2, OneRequestOn DEF Count
<1>6. ASSUME NEW s \in Tunnels, Insert(s) PROVE ListIsCurrent' /\ LimitHolds'
  <2> DEFINE Kept == OpenOf(Owner[s]) \ revived
             Now  == OpenOf(Owner[s])' \ revived'
  <2>1. /\ row' = [row EXCEPT ![s] = [status |-> "active", used |-> at[s], born |-> at[s]]]
        /\ revived' = revived /\ toEnd' = toEnd
        /\ \A r \in Tunnels \ {s} : pc'[r] = pc[r] /\ found'[r] = found[r]
        /\ pc[s] = "insert" /\ pc'[s] = "record"
    BY <1>6 DEF Insert, Goto, TypeOK
  <2>2. /\ Now \subseteq Kept \cup {s} /\ Kept \in SUBSET Tunnels
        /\ \A u \in Users \ {Owner[s]} : OpenOf(u)' = OpenOf(u)
    BY <2>1 DEF OpenOf, OpenTunnels, TypeOK
  <2>3. \A r \in Tunnels \ {s} : pc'[r] \in {"age", "insert"} => Owner[r] \in Users \ {Owner[s]}
    BY <1>0, <2>1 DEF Starting
  <2>4. ListIsCurrent'
    BY <2>1, <2>2, <2>3 DEF ListIsCurrent
  <2>5. Cardinality(Kept) < MaxOpen
    <3>1. /\ Kept \subseteq found[s] /\ found[s] \in SUBSET Tunnels
          /\ Cardinality(found[s]) < MaxOpen
      BY <2>1 DEF ListIsCurrent, TypeOK
    <3> QED
      BY <2>2, <3>1, FewerTunnels, FiniteTunnels, BoundsAssumption
  <2>6. Cardinality(Now) <= Cardinality(Kept) + 1 /\ Cardinality(Now) \in Nat
    <3>1. Kept \cup {s} \in SUBSET Tunnels /\ Now \in SUBSET (Kept \cup {s})
      BY <2>2
    <3>2. Cardinality(Kept \cup {s}) <= Cardinality(Kept) + 1
      BY <2>2, OneTunnelMore
    <3>3. Cardinality(Now) <= Cardinality(Kept \cup {s})
      BY <3>1, FewerTunnels
    <3>4. /\ Cardinality(Kept) \in Nat /\ Cardinality(Now) \in Nat
          /\ Cardinality(Kept \cup {s}) \in Nat
      BY <2>2, <3>1, FiniteTunnels
    <3> QED
      BY <3>2, <3>3, <3>4
  <2>7. Cardinality(Kept) \in Nat
    BY <2>2, FiniteTunnels
  <2>8. Cardinality(Now) <= MaxOpen
    BY <2>5, <2>6, <2>7, BoundsAssumption
  <2>9. LimitHolds'
    BY <2>1, <2>2, <2>8 DEF LimitHolds
  <2> QED
    BY <2>4, <2>9
<1>7. ASSUME NEW s \in Tunnels, Record(s) PROVE ListIsCurrent' /\ LimitHolds'
  <2>1. row[s].status # "none"
    BY <1>7 DEF Record, Known
  <2>2. OpenTunnels' \ revived' \subseteq OpenTunnels \ revived
    <3>1. CASE UpdateRow(s, "failed", clock)
      BY <1>0, <2>1, <3>1, RowWrite DEF Final
    <3>2. CASE UNCHANGED rowVars
      BY <3>2 DEF OpenTunnels
    <3> QED
      BY <1>7, <3>1, <3>2 DEF Record
  <2>3. \A r \in Tunnels : pc'[r] = IF r = s THEN "done" ELSE pc[r]
    BY <1>7 DEF Record, Goto, TypeOK
  <2> QED
    BY <1>7, <2>2, <2>3, NoNewTunnel DEF Record
<1>8. ASSUME NEW p \in Proxies, Proxy(p) PROVE ListIsCurrent' /\ LimitHolds'
  <2>1. /\ \A s \in Tunnels : pc'[s] = pc[s] /\ toEnd'[s] = toEnd[s]
        /\ found' = found
    BY <1>8, ProxyFrame
  <2>2. OpenTunnels' \ revived' \subseteq OpenTunnels \ revived
    <3>1. CASE TouchWrite(p) \/ FailWrite(p)
      <4>1. /\ on[p] \in Tunnels /\ row[on[p]].status # "none"
            /\ UpdateRow(on[p], "active", at[p]) \/ UpdateRow(on[p], "failed", clock)
        BY <3>1 DEF TouchWrite, FailWrite, Known
      <4> QED
        BY <1>0, <4>1, RowWrite DEF Open, Final
    <3>2. CASE row' = row /\ revived' = revived
      BY <3>2 DEF OpenTunnels
    <3> QED
      BY <1>8, <3>1, <3>2 DEF Proxy, TouchRead, Target, Connect, Hangup
  <2> QED
    BY <2>1, <2>2, NoNewTunnel
<1>9. ASSUME NEW x \in Tunnels, Terminate(x) PROVE ListIsCurrent' /\ LimitHolds'
  <2>1. row[x].status # "none" /\ UpdateRow(x, "ended", clock)
    BY <1>9 DEF Terminate
  <2>2. OpenTunnels' \ revived' \subseteq OpenTunnels \ revived
    BY <1>0, <2>1, RowWrite DEF Final
  <2> QED
    BY <1>9, <2>2, NoNewTunnel DEF Terminate
<1>10. CASE Tick \/ UNCHANGED vars
  <2>1. OpenTunnels' \ revived' = OpenTunnels \ revived
    BY <1>10 DEF Tick, OpenTunnels
  <2> QED
    BY <1>10, <2>1, NoNewTunnel DEF Tick
<1> QED
  BY <1>1, <1>2, <1>3, <1>4, <1>5, <1>6, <1>7, <1>8, <1>9, <1>10 DEF Next, Start

-----------------------------------------------------------------------------
\* What every theorem below rests on, inductive together: the types, the lock,
\* what is known of the rows about to be written, and the order of times.
LEMMA Inductive == Spec => [](IInv /\ IdleEndsLate)
<1>1. Init => IInv /\ IdleEndsLate
  BY InitIInv DEF Init, IdleEndsLate
<1>2. IInv /\ IdleEndsLate /\ [Next]_vars => IInv' /\ IdleEndsLate'
  BY TypeStep, HeldStep, KnownStep, TimesStep DEF IInv
<1> QED
  BY <1>1, <1>2, PTL DEF Spec

\* Every variable keeps its type, and withUserStartLock is held by a request
\* that is at work.
THEOREM TypeCorrect == Spec => []TypeOK
BY Inductive, PTL DEF IInv

\* refreshIdleState ends no tunnel before two idle periods from its start.
THEOREM IdleEnds == Spec => []IdleEndsLate
BY Inductive, PTL

\* Only a writer that read the row before its end opens a tunnel again.
THEOREM RacesOnly == Spec => []OnlyRacesRevive
<1>1. Init => OnlyRacesRevive
  BY DEF Init, OnlyRacesRevive, Final
<1>2. IInv /\ OnlyRacesRevive /\ [Next]_vars => OnlyRacesRevive'
  BY RaceStep DEF IInv
<1> QED
  BY <1>1, <1>2, Inductive, PTL DEF Spec

\* Revived tunnels aside, a user never has more open tunnels than the limit.
THEOREM LimitIsKept == Spec => []LimitHolds
<1>1. Init => ListIsCurrent /\ LimitHolds
  <2>1. Init => OpenTunnels \ revived = {}
    BY DEF Init, OpenTunnels, Open
  <2>2. Init => \A s \in Tunnels : pc[s] = "ready"
    BY DEF Init, Tasks
  <2>3. Init => \A u \in Users : OpenOf(u) \ revived = {}
    BY <2>1 DEF OpenOf
  <2>4. Init => LimitHolds
    BY <2>3, FS_EmptySet, BoundsAssumption DEF LimitHolds
  <2> QED
    BY <2>2, <2>4 DEF ListIsCurrent
<1>2. IInv /\ ListIsCurrent /\ LimitHolds /\ [Next]_vars => ListIsCurrent' /\ LimitHolds'
  BY LimitStep DEF IInv
<1> QED
  BY <1>1, <1>2, Inductive, PTL DEF Spec
=============================================================================
