------------------------ MODULE SftpTransfersProofs ------------------------
(***************************************************************************)
(* Theorems about SftpTransfers, for any number of transfers, items and    *)
(* directories.  The bar is shared, so that it is true rests on who wrote  *)
(* it: it says running only while its writer waits for an answer, and two  *)
(* transfers that work at a time are both disturbed (Shared).  A transfer  *)
(* alone has sent everything to the current directory, has stored what is  *)
(* behind it, and when it was stopped the flag is still up (Alone).        *)
(***************************************************************************)
EXTENDS SftpTransfers, FiniteSetTheorems, TLAPS

USE DEF state, history, vars, NoRun, NoDir, NoAbort, Kinds, Statuses, Working

\* What the transfers share
Shared ==
  /\ bar = "running" => said \in Runs /\ run[said].at = "request"
  /\ \A i \in Runs : abort = <<"run", i>> => run[i].at = "request" /\ run[i].kind # "search"
  /\ \A i \in Runs : listing[i] # NoDir <=> run[i].at = "reload"
  /\ \A x \in Runs \cup Opens : abort = <<"list", x>> => listing[x] # NoDir
  /\ \A i, j \in Working : i = j \/ i \in disturbed
  /\ \A i \in Runs : run[i].at = "request" /\ bar # "running" => flag \/ i \in disturbed

\* What holds of a transfer that nothing came across
Alone ==
  \A i \in Runs \ disturbed :
    /\ \E d \in Dirs : sent[i] \subseteq {d}
    /\ i \in Working => sent[i] \subseteq {cwd}
    /\ run[i].at = "idle" => sent[i] = {}
    /\ i \in stopped => flag \/ run[i].at # "request"
    /\ i \notin more

\* What any transfer has done
Progress ==
  \A i \in Runs :
    /\ run[i].at = "idle" => i \notin stopped
    /\ run[i].at = "request" /\ run[i].kind \in {"upload", "download"}
         => \A m \in 1..N : m < run[i].item => m \in stored[i]
    /\ said = i /\ bar = "complete" =>
         /\ run[i].at \in {"reload", "ended"}
         /\ run[i].kind \in {"upload", "download"} => 1..N \subseteq stored[i]

IInv == TypeOK /\ Shared /\ Alone /\ Progress

LEMMA TransfersInit == Init => IInv
<1> SUFFICES ASSUME Init PROVE IInv
  OBVIOUS
<1> USE TransfersAssumption DEF Init
<1>1. TypeOK
  <2>1. run \in [Runs -> [kind : Kinds, at : {"idle", "request", "reload", "ended"}, item : 0..N]]
    OBVIOUS
  <2>2. abort \in {NoAbort}
    OBVIOUS
  <2> QED
    BY <2>1, <2>2 DEF TypeOK
<1>2. Shared
  BY DEF Shared
<1>3. Alone
  BY DEF Alone
<1>4. Progress
  BY DEF Progress
<1> QED
  BY <1>1, <1>2, <1>3, <1>4 DEF IInv

-----------------------------------------------------------------------------
\* A loop that goes on keeps the types, whichever way it goes
LEMMA GoesTypes ==
  ASSUME TypeOK, NEW i \in Runs, NEW k \in Kinds, NEW n \in 0..N+1, Goes(i, k, n),
         flag' \in BOOLEAN
  PROVE  /\ run' \in [Runs -> [kind : Kinds, at : {"idle", "request", "reload", "ended"}, item : 0..N]]
         /\ listing' \in [Runs \cup Opens -> Dirs \cup {NoDir}]
         /\ abort' \in {NoAbort} \cup ({"run"} \X Runs) \cup ({"list"} \X (Runs \cup Opens))
         /\ bar' \in Statuses /\ said' \in Runs \cup {NoRun}
         /\ sent' \in [Runs -> SUBSET Dirs] /\ more' \subseteq Runs
<1> USE TransfersAssumption DEF TypeOK
<1>1. CASE n <= N /\ Sends(i, k, n) /\ UNCHANGED <<bar, said>>
  BY <1>1 DEF Sends
<1>2. CASE Says(i, "cancelled") /\ Ends(i, k)
  BY <1>2 DEF Says, Ends
<1>3. CASE Completes(i, k)
  BY <1>3 DEF Completes, Says, Ends
<1> QED
  BY <1>1, <1>2, <1>3 DEF Goes

LEMMA TransfersTypeStep == ASSUME TypeOK, [Next]_vars PROVE TypeOK'
<1> USE TransfersAssumption DEF TypeOK
<1>1. ASSUME NEW i \in Runs, NEW k \in Kinds, Start(i, k) PROVE TypeOK'
  <2>1. First(k) \in 0..N
    BY DEF First
  <2>2. run' \in [Runs -> [kind : Kinds, at : {"idle", "request", "reload", "ended"}, item : 0..N]]
    BY <1>1, <2>1 DEF Start, Sends
  <2>3. abort' \in {NoAbort} \cup ({"run"} \X Runs) \cup ({"list"} \X (Runs \cup Opens))
    BY <1>1 DEF Start, Sends
  <2>4. /\ cwd' = cwd /\ stored' = stored /\ stopped' = stopped /\ flag' = FALSE
        /\ disturbed' \subseteq Runs /\ listing' = listing /\ more' \subseteq Runs
        /\ bar' = "running" /\ said' = i
    BY <1>1 DEF Start, Sends, Says
  <2>5. sent' \in [Runs -> SUBSET Dirs]
    BY <1>1 DEF Start, Sends
  <2> QED
    BY <2>2, <2>3, <2>4, <2>5
<1>2. ASSUME NEW i \in Runs, Succeeds(i) PROVE TypeOK'
  <2>1. run[i].kind \in Kinds /\ run[i].item + 1 \in 0..N+1 /\ flag' \in BOOLEAN
    BY <1>2 DEF Succeeds
  <2>2. /\ cwd' = cwd /\ stopped' = stopped /\ disturbed' = disturbed
        /\ stored' \in [Runs -> SUBSET (0..N)] /\ Goes(i, run[i].kind, run[i].item + 1)
    BY <1>2 DEF Succeeds
  <2> QED
    BY <2>1, <2>2, GoesTypes
<1>3. ASSUME NEW i \in Runs, Fails(i) PROVE TypeOK'
  <2>1. run[i].kind \in Kinds /\ run[i].item + 1 \in 0..N+1 /\ flag' \in BOOLEAN
    BY <1>3 DEF Fails
  <2>2. CASE Goes(i, run[i].kind, run[i].item + 1)
    <3>1. /\ cwd' = cwd /\ stored' = stored /\ stopped' = stopped /\ disturbed' = disturbed
          /\ flag' = flag
      BY <1>3 DEF Fails
    <3> QED
      BY <2>1, <2>2, <3>1, GoesTypes
  <2>3. CASE Says(i, "failed") /\ Ends(i, run[i].kind)
    BY <1>3, <2>1, <2>3 DEF Fails, Says, Ends
  <2> QED
    BY <1>3, <2>2, <2>3 DEF Fails
<1>4. ASSUME NEW x \in Opens, NEW d \in Dirs, Open(x, d) PROVE TypeOK'
  BY <1>4 DEF Open
<1>5. ASSUME NEW x \in Runs \cup Opens, Listed(x) PROVE TypeOK'
  BY <1>5 DEF Listed, Settled
<1>6. CASE Cancel
  <2>1. CASE abort[1] = "run" /\ Says(abort[2], "cancelled") /\ Ends(abort[2], run[abort[2]].kind)
    BY <1>6, <2>1 DEF Cancel, Says, Ends
  <2>2. CASE abort[1] # "run"
    BY <1>6, <2>2 DEF Cancel, Says, Settled
  <2> QED
    BY <1>6, <2>1, <2>2 DEF Cancel
<1>7. CASE UNCHANGED vars
  BY <1>7
<1> QED
  BY <1>1, <1>2, <1>3, <1>4, <1>5, <1>6, <1>7 DEF Next
-----------------------------------------------------------------------------
\* A request for the next item
LEMMA SendsStep ==
  ASSUME IInv, NEW i \in Runs, NEW k \in Kinds, NEW n \in 1..N, run[i].at = "request",
         run[i].kind = k, Sends(i, k, n), flag' = flag, ~flag, UNCHANGED <<bar, said, cwd>>,
         stopped' = stopped, disturbed' = disturbed, \A j \in Runs : stored[j] \subseteq stored'[j],
         k \in {"upload", "download"} => \A m \in 1..N : m < n => m \in stored'[i]
  PROVE  (Shared /\ Alone /\ Progress)'
<1> USE TransfersAssumption DEF IInv, TypeOK
<1>1. /\ \A j \in Runs : run'[j].at = run[j].at /\ run'[j].kind = run[j].kind
      /\ \A j \in Runs \ {i} : run'[j] = run[j]
      /\ run'[i].item = n /\ listing' = listing
  BY DEF Sends
<1>2. \A j \in Runs : abort' = <<"run", j>> => abort = <<"run", j>> \/ (j = i /\ k # "search")
  BY DEF Sends
<1>3. Shared'
  <2>1. \A x \in Runs \cup Opens : abort' = <<"list", x>> => abort = <<"list", x>>
    BY DEF Sends
  <2> QED
    BY <1>1, <1>2, <2>1 DEF Shared
<1>4. Alone'
  <2>1. i \in stopped => i \in disturbed
    BY DEF Alone
  <2> QED
    BY <1>1, <2>1 DEF Alone, Sends
<1>5. Progress'
  BY <1>1 DEF Progress
<1> QED
  BY <1>3, <1>4, <1>5

\* A run that waited for an answer stops waiting, with the last word on the bar
LEMMA StopsStep ==
  ASSUME IInv, NEW i \in Runs, NEW k \in Kinds, run[i].at = "request", run[i].kind = k,
         flag' \in {flag, TRUE}, cwd' = cwd, disturbed' = disturbed,
         stopped' = stopped \/ (stopped' = stopped \cup Working /\ flag'),
         \A j \in Runs : stored[j] \subseteq stored'[j],
         NEW at \in {"reload", "ended"},
         run' = [run EXCEPT ![i] = [kind |-> k, at |-> at, item |-> 0]],
         listing' = IF at = "reload" THEN [listing EXCEPT ![i] = cwd] ELSE listing,
         \A j \in Runs : abort' = <<"run", j>> => abort = abort' /\ j # i,
         abort' \in {abort, NoAbort} \/ (at = "reload" /\ abort' = <<"list", i>>),
         sent' = sent, more' = more,
         said' = i, bar' \in {"complete", "failed", "cancelled"},
         bar' = "complete" /\ k \in {"upload", "download"} => 1..N \subseteq stored'[i]
  PROVE  (Shared /\ Alone /\ Progress)'
<1> USE TransfersAssumption DEF IInv, TypeOK
<1>1. /\ \A j \in Runs \ {i} : run'[j] = run[j]
      /\ run'[i].at = at /\ run'[i].kind = k
      /\ Working' \subseteq Working
  OBVIOUS
<1>2. \A j \in Runs : listing'[j] # NoDir <=> run'[j].at = "reload"
  <2>1. listing[i] = NoDir
    BY DEF Shared
  <2>2. cwd # NoDir
    OBVIOUS
  <2>3. CASE at = "reload"
    BY <1>1, <2>2, <2>3 DEF Shared
  <2>4. CASE at = "ended"
    BY <1>1, <2>1, <2>4 DEF Shared
  <2> QED
    BY <2>3, <2>4
<1>3. \A j \in Runs : run'[j].at = "request" => j \in disturbed
  BY <1>1 DEF Shared
<1>4. Shared'
  <2>1. \A x \in Runs \cup Opens : abort' = <<"list", x>> => listing'[x] # NoDir
    BY <1>2, TransfersAssumption DEF Shared
  <2> QED
    BY <1>1, <1>2, <1>3, <2>1 DEF Shared
<1>5. Alone'
  <2>1. ASSUME NEW j \in Runs \ disturbed
        PROVE  /\ \E d \in Dirs : sent'[j] \subseteq {d}
               /\ j \in Working' => sent'[j] \subseteq {cwd'}
               /\ run'[j].at = "idle" => sent'[j] = {}
               /\ j \in stopped' => flag' \/ run'[j].at # "request"
               /\ j \notin more'
    BY <2>1, <1>1, <1>3 DEF Alone
  <2> QED
    BY <2>1 DEF Alone
<1>6. Progress'
  <2>1. \A j \in Runs : run'[j].at = "idle" => j \notin stopped'
    BY <1>1 DEF Progress
  <2> QED
    BY <1>1, <2>1 DEF Progress
<1> QED
  BY <1>4, <1>5, <1>6
\* Goes, after the answer for the item before n
LEMMA GoesStep ==
  ASSUME IInv, NEW i \in Runs, run[i].at = "request", NEW n \in 1..N+1,
         Goes(i, run[i].kind, n), flag' = flag, cwd' = cwd, stopped' = stopped,
         disturbed' = disturbed, \A j \in Runs : stored[j] \subseteq stored'[j],
         run[i].kind \in {"upload", "download"} => \A m \in 1..N : m < n => m \in stored'[i]
  PROVE  (Shared /\ Alone /\ Progress)'
<1> USE TransfersAssumption
<1> DEFINE k == run[i].kind
<1>0. k \in Kinds /\ (k # "search" \/ abort # <<"run", i>>)
  BY DEF IInv, TypeOK, Shared
<1>1. CASE n <= N /\ ~flag' /\ Sends(i, k, n) /\ UNCHANGED <<bar, said>>
  <2>1. n \in 1..N
    BY <1>1
  <2> QED
    BY <1>0, <1>1, <2>1, SendsStep
<1>2. CASE flag' /\ Says(i, "cancelled") /\ Ends(i, k)
  <2>1. \A j \in Runs : abort' = <<"run", j>> => abort = abort' /\ j # i
    BY <1>0, <1>2 DEF Ends
  <2>2. /\ run' = [run EXCEPT ![i] = [kind |-> k, at |-> "ended", item |-> 0]]
        /\ abort' \in {abort, NoAbort} /\ UNCHANGED <<listing, sent, more>>
    BY <1>2 DEF Ends
  <2>3. said' = i /\ bar' = "cancelled" /\ flag' \in {flag, TRUE}
    BY <1>2 DEF Says
  <2> QED
    BY <1>0, <2>1, <2>2, <2>3, StopsStep
<1>3. CASE n > N /\ Completes(i, k)
  <2>1. k \in {"upload", "download"} => 1..N \subseteq stored'[i]
    BY <1>3
  <2>2. \A j \in Runs : abort' = <<"run", j>> => abort = abort' /\ j # i
    BY <1>0, <1>3 DEF Completes, Ends
  <2>3. CASE Ends(i, k)
    <3>1. /\ run' = [run EXCEPT ![i] = [kind |-> k, at |-> "ended", item |-> 0]]
          /\ abort' \in {abort, NoAbort} /\ UNCHANGED <<listing, sent, more>>
      BY <2>3 DEF Ends
    <3>2. said' = i /\ bar' = "complete" /\ flag' \in {flag, TRUE}
      BY <1>3 DEF Completes, Says
    <3> QED
      BY <1>0, <2>1, <2>2, <3>1, <3>2, StopsStep
  <2>4. CASE /\ run' = [run EXCEPT ![i] = [kind |-> k, at |-> "reload", item |-> 0]]
             /\ listing' = [listing EXCEPT ![i] = cwd] /\ UNCHANGED <<sent, more>>
             /\ abort' = <<"list", i>>
    <3>1. said' = i /\ bar' = "complete" /\ flag' \in {flag, TRUE}
      BY <1>3 DEF Completes, Says
    <3> QED
      BY <1>0, <2>1, <2>2, <2>4, <3>1, StopsStep
  <2> QED
    BY <1>3, <2>3, <2>4 DEF Completes
<1> QED
  BY <1>1, <1>2, <1>3 DEF Goes

LEMMA TransfersStep == ASSUME IInv, [Next]_vars PROVE (Shared /\ Alone /\ Progress)'
<1> USE TransfersAssumption DEF TypeOK, IInv
<1>1. ASSUME NEW i \in Runs, NEW k \in Kinds, Start(i, k)
      PROVE  (Shared /\ Alone /\ Progress)'
  <2>1. /\ \A j \in Runs \ {i} : run'[j] = run[j]
        /\ run'[i] = [kind |-> k, at |-> "request", item |-> First(k)]
        /\ bar' = "running" /\ said' = i /\ ~flag' /\ listing' = listing /\ cwd' = cwd
        /\ stored' = stored /\ stopped' = stopped /\ disturbed \subseteq disturbed'
    BY <1>1 DEF Start, Sends, Says
  <2>2. Working' = Working \cup {i} /\ i \notin Working
    BY <1>1, <2>1 DEF Start
  <2>3. Working \subseteq disturbed' /\ (Working # {} => i \in disturbed')
    BY <1>1 DEF Start
  <2>4. \A j \in Runs : abort' = <<"run", j>> => (j = i /\ k # "search") \/ (abort = abort' /\ j # i)
    BY <1>1 DEF Start, Sends, Shared
  <2>5. Shared'
    <3>1. \A j \in Runs : abort' = <<"run", j>> => run'[j].at = "request" /\ run'[j].kind # "search"
      BY <2>1, <2>4 DEF Shared
    <3>2. \A j \in Runs : listing'[j] # NoDir <=> run'[j].at = "reload"
      BY <1>1, <2>1 DEF Shared, Start
    <3>3. \A j, l \in Working' : j = l \/ j \in disturbed'
      BY <2>2, <2>3
    <3>4. \A x \in Runs \cup Opens : abort' = <<"list", x>> => abort = <<"list", x>>
      BY <1>1 DEF Start, Sends
    <3>5. \A x \in Runs \cup Opens : abort' = <<"list", x>> => listing'[x] # NoDir
      BY <2>1, <3>4 DEF Shared
    <3> QED
      BY <2>1, <3>1, <3>2, <3>3, <3>5 DEF Shared
  <2>6. Alone'
    <3>1. ASSUME NEW j \in Runs \ disturbed', j # i
          PROVE  /\ \E d \in Dirs : sent'[j] \subseteq {d}
                 /\ j \in Working' => sent'[j] \subseteq {cwd'}
                 /\ run'[j].at = "idle" => sent'[j] = {}
                 /\ j \in stopped' => flag' \/ run'[j].at # "request"
                 /\ j \notin more'
      BY <1>1, <2>1, <2>3, <3>1 DEF Alone, Start, Sends
    <3>2. ASSUME i \notin disturbed'
          PROVE  /\ sent'[i] \subseteq {cwd'} /\ i \notin stopped' /\ i \notin more'
      BY <1>1, <2>1, <3>2 DEF Alone, Progress, Start, Sends
    <3> QED
      BY <2>1, <3>1, <3>2 DEF Alone
  <2>7. Progress'
    BY <1>1, <2>1 DEF Progress, Start, First
  <2> QED
    BY <2>5, <2>6, <2>7
<1>2. ASSUME NEW i \in Runs, Succeeds(i) PROVE (Shared /\ Alone /\ Progress)'
  <2>1. run[i].item + 1 \in 1..N+1 /\ run[i].at = "request"
    BY <1>2 DEF Succeeds
  <2>2. run[i].kind \in {"upload", "download"} =>
          \A m \in 1..N : m < run[i].item + 1 => m \in stored'[i]
    BY <1>2, <2>1 DEF Succeeds, Progress
  <2> QED
    BY <1>2, <2>1, <2>2, GoesStep DEF Succeeds
<1>3. ASSUME NEW i \in Runs, Fails(i) PROVE (Shared /\ Alone /\ Progress)'
  <2>1. run[i].item + 1 \in 1..N+1 /\ run[i].at = "request" /\ run[i].kind \in Kinds
    BY <1>3 DEF Fails
  <2>2. CASE Tolerated(run[i].kind, run[i].item) /\ Goes(i, run[i].kind, run[i].item + 1)
    <3>1. run[i].kind \in {"upload", "download"} =>
            \A m \in 1..N : m < run[i].item + 1 => m \in stored'[i]
      BY <1>3, <2>1, <2>2 DEF Fails, Tolerated, Progress
    <3> QED
      BY <1>3, <2>1, <2>2, <3>1, GoesStep DEF Fails
  <2>3. CASE Says(i, "failed") /\ Ends(i, run[i].kind)
    <3>1. \A j \in Runs : abort' = <<"run", j>> => abort = abort' /\ j # i
      BY <2>1, <2>3 DEF Ends, Shared
    <3>2. /\ run' = [run EXCEPT ![i] = [kind |-> run[i].kind, at |-> "ended", item |-> 0]]
          /\ abort' \in {abort, NoAbort} /\ UNCHANGED <<listing, sent, more>>
      BY <2>3 DEF Ends
    <3>3. said' = i /\ bar' = "failed" /\ flag' \in {flag, TRUE}
      BY <1>3, <2>3 DEF Fails, Says
    <3> QED
      BY <1>3, <2>1, <3>1, <3>2, <3>3, StopsStep DEF Fails
  <2> QED
    BY <1>3, <2>2, <2>3 DEF Fails
<1>4. ASSUME NEW x \in Opens, NEW d \in Dirs, Open(x, d) PROVE (Shared /\ Alone /\ Progress)'
  <2>1. Shared'
    BY <1>4 DEF Open, Shared
  <2>2. Alone'
    BY <1>4 DEF Open, Alone
  <2>3. Progress'
    BY <1>4 DEF Open, Progress
  <2> QED
    BY <2>1, <2>2, <2>3
<1>5. ASSUME NEW x \in Runs \cup Opens, listing[x] # NoDir, Settled(x), flag => flag',
             cwd' = cwd \/ disturbed' = disturbed \cup (Working \ {x}), disturbed \subseteq disturbed',
             UNCHANGED <<sent, stored, more>>,
             UNCHANGED <<bar, said>> \/ (bar = "running" /\ bar' = "cancelled" /\ said' = said /\ flag'),
             stopped' = stopped \/ (stopped' = stopped \cup Working /\ flag')
      PROVE  (Shared /\ Alone /\ Progress)'
  <2>1. /\ \A j \in Runs : run'[j].kind = run[j].kind /\ run'[j].item = run[j].item
        /\ \A j \in Runs \ {x} : run'[j] = run[j]
        /\ x \in Runs => run[x].at = "reload" /\ run'[x].at = "ended"
    BY <1>5 DEF Settled, Shared
  <2>2. \A j \in Runs : /\ run'[j].at = "request" <=> run[j].at = "request"
                        /\ run'[j].at = "idle" <=> run[j].at = "idle"
                        /\ run'[j].at = "reload" <=> run[j].at = "reload" /\ j # x
    BY <2>1
  <2>3. Shared'
    <3>1. abort' = NoAbort /\ listing' = [listing EXCEPT ![x] = NoDir]
      BY <1>5 DEF Settled
    <3>2. \A j \in Runs : listing'[j] # NoDir <=> run'[j].at = "reload"
      BY <2>2, <3>1 DEF Shared
    <3>3. Working' \subseteq Working
      BY <2>2
    <3>4. \A j, l \in Working' : j = l \/ j \in disturbed'
      BY <1>5, <3>3 DEF Shared
    <3>5. bar' = "running" => said' \in Runs /\ run'[said'].at = "request"
      BY <1>5, <2>2 DEF Shared
    <3>6. \A j \in Runs : run'[j].at = "request" /\ bar' # "running" => flag' \/ j \in disturbed'
      BY <1>5, <2>2 DEF Shared
    <3> QED
      BY <3>1, <3>2, <3>4, <3>5, <3>6 DEF Shared
  <2>4. Alone'
    <3>1. ASSUME NEW j \in Runs \ disturbed'
          PROVE  /\ \E d \in Dirs : sent'[j] \subseteq {d}
                 /\ j \in Working' => sent'[j] \subseteq {cwd'}
                 /\ run'[j].at = "idle" => sent'[j] = {}
                 /\ j \in stopped' => flag' \/ run'[j].at # "request"
                 /\ j \notin more'
      <4>1. j \notin disturbed /\ sent' = sent /\ more' = more
        BY <1>5, <3>1
      <4>2. j \in Working' => j \in Working /\ j # x
        BY <2>1, <2>2
      <4>3. j \in Working' => cwd' = cwd
        BY <1>5, <3>1, <4>2
      <4>4. j \in stopped' => flag' \/ run'[j].at # "request"
        BY <1>5, <2>2, <4>1 DEF Alone
      <4> QED
        BY <2>2, <4>1, <4>2, <4>3, <4>4 DEF Alone
    <3> QED
      BY <3>1 DEF Alone
  <2>5. Progress'
    BY <1>5, <2>1, <2>2 DEF Progress
  <2> QED
    BY <2>3, <2>4, <2>5
<1>6. ASSUME NEW x \in Runs \cup Opens, Listed(x) PROVE (Shared /\ Alone /\ Progress)'
  BY <1>5, <1>6 DEF Listed
<1>7. CASE Cancel
  <2>1. CASE abort[1] = "run" /\ Says(abort[2], "cancelled") /\ Ends(abort[2], run[abort[2]].kind)
    <3>1. PICK i \in Runs : abort = <<"run", i>>
      BY <2>1
    <3>2. run[i].at = "request" /\ run[i].kind \in Kinds \ {"search"}
      BY <3>1 DEF Shared
    <3>3. \A j \in Runs : abort' = <<"run", j>> => abort = abort' /\ j # i
      BY <2>1, <3>1, <3>2 DEF Ends
    <3>4. run' = [run EXCEPT ![i] = [kind |-> run[i].kind, at |-> "ended", item |-> 0]]
      BY <2>1, <3>1 DEF Ends
    <3> QED
      BY <1>7, <2>1, <3>1, <3>2, <3>3, <3>4, StopsStep DEF Cancel, Says, Ends
  <2>2. CASE abort = NoAbort
    <3>1. /\ UNCHANGED <<listing, run, abort, sent, more, cwd, stored, disturbed>> /\ flag'
          /\ stopped' = stopped \cup Working
          /\ UNCHANGED <<bar, said>> \/ (bar = "running" /\ bar' = "cancelled" /\ said' = said)
      BY <1>7, <2>2 DEF Cancel, Says
    <3>2. Shared'
      BY <3>1 DEF Shared
    <3>3. Alone'
      BY <3>1 DEF Alone
    <3>4. Progress'
      BY <3>1 DEF Progress
    <3> QED
      BY <3>2, <3>3, <3>4
  <2>3. CASE abort[1] = "list"
    <3>1. PICK x \in Runs \cup Opens : abort = <<"list", x>>
      BY <2>3
    <3>2. Settled(x) /\ flag' /\ stopped' = stopped \cup Working
      BY <1>7, <3>1 DEF Cancel
    <3>3. /\ UNCHANGED <<sent, more, cwd, stored, disturbed>>
          /\ UNCHANGED <<bar, said>> \/ (bar = "running" /\ bar' = "cancelled" /\ said' = said)
      BY <1>7, <3>1 DEF Cancel, Says
    <3>4. listing[x] # NoDir
      BY <3>1 DEF Shared
    <3> QED
      BY <1>5, <3>2, <3>3, <3>4
  <2> QED
    BY <1>7, <2>1, <2>2, <2>3 DEF Cancel
<1>8. CASE UNCHANGED vars
  BY <1>8 DEF Shared, Alone, Progress
<1> QED
  BY <1>1, <1>2, <1>3, <1>4, <1>6, <1>7, <1>8 DEF Next
-----------------------------------------------------------------------------
LEMMA TransfersInvariant == Spec => []IInv
<1>1. Init => IInv
  BY TransfersInit
<1>2. IInv /\ [Next]_vars => IInv'
  BY TransfersTypeStep, TransfersStep DEF IInv
<1> QED
  BY <1>1, <1>2, PTL DEF Spec

\* The state of the file browser is always of its types
THEOREM TransfersTypes == Spec => []TypeOK
<1>1. IInv => TypeOK
  BY DEF IInv
<1> QED
  BY <1>1, TransfersInvariant, PTL

\* The bar says running only while a transfer works, and never that a transfer
\* has ended while it works undisturbed and uncancelled
THEOREM TransfersBarIsTrue == Spec => []BarIsTrue
<1>1. IInv => BarIsTrue
  BY DEF IInv, Shared, BarIsTrue
<1> QED
  BY <1>1, TransfersInvariant, PTL

\* A transfer that nothing came across puts its files in one directory, stops
\* for good when it is cancelled, and says complete when every file is there
THEOREM TransfersAloneDoesAll == Spec => []AloneDoesAll
<1>1. ASSUME IInv PROVE AloneDoesAll
  <2>1. ASSUME NEW i \in Runs \ disturbed PROVE Cardinality(sent[i]) <= 1
    <3>1. PICK d \in Dirs : sent[i] \subseteq {d}
      BY <1>1, <2>1 DEF IInv, Alone
    <3>2. IsFiniteSet({d}) /\ Cardinality({d}) = 1
      BY FS_Singleton
    <3>3. IsFiniteSet(sent[i]) /\ Cardinality(sent[i]) <= Cardinality({d})
      BY <3>1, <3>2, FS_Subset
    <3> QED
      BY <3>2, <3>3
  <2> QED
    BY <1>1, <2>1 DEF IInv, Alone, Progress, AloneDoesAll
<1> QED
  BY <1>1, TransfersInvariant, PTL
=============================================================================
