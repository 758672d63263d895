--------------------------- MODULE SftpTransfers ---------------------------
(***************************************************************************)
(* The transfers of one file browser.  Uploads, removals (deletes and      *)
(* moves), downloads and tree searches are loops of awaited requests; the  *)
(* user may start one while another runs, open directories and cancel.     *)
(* All of them share one progress bar, one cancel flag, one abort handler  *)
(* and the current directory.  A step is what runs between two awaits.     *)
(*                                                                         *)
(* A retry is another run of the same kind.  Byte counts, the error text   *)
(* and the selection are left out, and so are the text editor, new folders *)
(* and the listing that prepares the download of a directory.              *)
(***************************************************************************)
EXTENDS Integers, FiniteSets

CONSTANTS
  Runs,    \* runs of transfers
  Opens,   \* requests of the user to open a directory, each used again and again
  Dirs,    \* remote directories
  N        \* items of a transfer

ASSUME TransfersAssumption ==
  /\ N \in Nat \ {0} /\ Runs \cap Opens = {} /\ Dirs # {}
  /\ "none" \notin Runs \cup Opens \cup Dirs

VARIABLES
  cwd,        \* path
  run,        \* each run: kind, where it waits, and the item it waits for
  listing,    \* list requests under way: the directory asked for
  bar,        \* transfer.status
  flag,       \* transferCancelled
  abort,      \* activeAbort: whose request it aborts
  said,       \* the run that wrote the status of the bar last (history)
  sent,       \* directories each run has addressed (history)
  stored,     \* items of each run that succeeded (history)
  stopped,    \* runs that were working when the user cancelled (history)
  more,       \* those that sent another item nevertheless (history)
  disturbed   \* runs another run or a change of directory came across (history)

state   == <<cwd, run, listing, bar, flag, abort>>
history == <<said, sent, stored, stopped, more, disturbed>>
vars    == <<state, history>>

-----------------------------------------------------------------------------
Kinds    == {"upload", "remove", "download", "search"}
NoDir    == "none"
NoRun    == "none"
NoAbort  == <<"none", NoRun>>
Statuses == {"none", "running", "complete", "failed", "cancelled"}

Working  == {i \in Runs : run[i].at \in {"request", "reload"}}
First(k) == IF k = "upload" THEN 0 ELSE 1    \* item 0: the directories are made
Reloads(k) == k \in {"upload", "remove"}

\* Failures that a loop goes past: mkdir is best effort, and request turns every
\* failure but an abort into false, which the deletes and moves do not look at
Tolerated(k, n) == k = "remove" \/ n = 0

Init ==
  /\ cwd \in Dirs /\ bar = "none" /\ flag = FALSE /\ abort = NoAbort
  /\ run = [i \in Runs |-> [kind |-> "upload", at |-> "idle", item |-> 0]]
  /\ listing = [x \in Runs \cup Opens |-> NoDir]
  /\ said = NoRun /\ stopped = {} /\ more = {} /\ disturbed = {}
  /\ sent = [i \in Runs |-> {}] /\ stored = [i \in Runs |-> {}]

TypeOK ==
  /\ cwd \in Dirs /\ bar \in Statuses /\ flag \in BOOLEAN
  /\ run \in [Runs -> [kind : Kinds, at : {"idle", "request", "reload", "ended"}, item : 0..N]]
  /\ listing \in [Runs \cup Opens -> Dirs \cup {NoDir}]
  /\ abort \in {NoAbort} \cup ({"run"} \X Runs) \cup ({"list"} \X (Runs \cup Opens))
  /\ said \in Runs \cup {NoRun}
  /\ sent \in [Runs -> SUBSET Dirs] /\ stored \in [Runs -> SUBSET (0..N)]
  /\ stopped \cup more \cup disturbed \subseteq Runs

-----------------------------------------------------------------------------
(* How a loop goes on.  These leave flag, stored, stopped and disturbed to  *)
(* the step they are part of.                                               *)

Says(i, s) == bar' = s /\ said' = i

\* The next request: each item of an upload or a removal has a handler of its
\* own, a download has one for all, a search has none
Sends(i, k, n) ==
  /\ run' = [run EXCEPT ![i] = [kind |-> k, at |-> "request", item |-> n]]
  /\ abort' = IF k = "search" \/ (k = "download" /\ n > 1) THEN abort ELSE <<"run", i>>
  /\ sent' = [sent EXCEPT ![i] = @ \cup {cwd}]
  /\ more' = IF i \in stopped THEN more \cup {i} ELSE more
  /\ UNCHANGED listing

Ends(i, k) ==
  /\ run' = [run EXCEPT ![i] = [kind |-> k, at |-> "ended", item |-> 0]]
  /\ abort' = IF k = "search" THEN abort ELSE NoAbort
  /\ UNCHANGED <<listing, sent, more>>

\* After the last item the flag is not looked at; the directory is listed again
Completes(i, k) ==
  /\ Says(i, "complete")
  /\ \/ ~Reloads(k) /\ Ends(i, k)
     \/ /\ Reloads(k)
        /\ run' = [run EXCEPT ![i] = [kind |-> k, at |-> "reload", item |-> 0]]
        /\ listing' = [listing EXCEPT ![i] = cwd]
        /\ abort' = <<"list", i>>
        /\ UNCHANGED <<sent, more>>

\* Mutant of Goes: the flag is not asserted
GoesUnasked(i, k, n) ==
  \/ n <= N /\ Sends(i, k, n) /\ UNCHANGED <<bar, said>>
  \/ n > N /\ Completes(i, k)

\* assertTransferActive, then the request for item n; or the end of the loop
Goes(i, k, n) ==
  \/ n <= N /\ ~flag' /\ Sends(i, k, n) /\ UNCHANGED <<bar, said>>
  \/ n <= N /\ flag' /\ Says(i, "cancelled") /\ Ends(i, k)
  \/ n > N /\ Completes(i, k)

-----------------------------------------------------------------------------
(* Steps                                                                   *)

\* uploadItems, moveEntries, deleteSelected, downloadFiles, runRemoteSearch: a
\* new bar, and the flag is reset whatever else is running
Start(i, k) ==
  /\ run[i].at = "idle"
  /\ flag' = FALSE
  /\ Sends(i, k, First(k)) /\ Says(i, "running")
  /\ disturbed' = IF Working = {} THEN disturbed ELSE disturbed \cup Working \cup {i}
  /\ UNCHANGED <<cwd, stored, stopped>>

\* The request for an item is answered
Succeeds(i) ==
  /\ run[i].at = "request"
  /\ flag' = flag
  /\ Goes(i, run[i].kind, run[i].item + 1)
  /\ stored' = [stored EXCEPT ![i] = @ \cup {run[i].item}]
  /\ UNCHANGED <<cwd, stopped, disturbed>>

\* Mutant of Fails: the loop ends without a word
FailsQuietly(i) ==
  /\ run[i].at = "request" /\ flag' = flag
  /\ IF Tolerated(run[i].kind, run[i].item) THEN Goes(i, run[i].kind, run[i].item + 1)
     ELSE UNCHANGED <<bar, said>> /\ Ends(i, run[i].kind)
  /\ UNCHANGED <<cwd, stored, stopped, disturbed>>

Fails(i) ==
  /\ run[i].at = "request" /\ flag' = flag
  /\ IF Tolerated(run[i].kind, run[i].item) THEN Goes(i, run[i].kind, run[i].item + 1)
     ELSE Says(i, "failed") /\ Ends(i, run[i].kind)
  /\ UNCHANGED <<cwd, stored, stopped, disturbed>>

\* loadDirectory
Open(x, d) ==
  /\ listing[x] = NoDir
  /\ listing' = [listing EXCEPT ![x] = d]
  /\ abort' = <<"list", x>>
  /\ disturbed' = disturbed \cup Working
  /\ UNCHANGED <<cwd, run, bar, flag, said, sent, stored, stopped, more>>

\* The list request of x settles: the reload at the end of a run ends the run
Settled(x) ==
  /\ listing' = [listing EXCEPT ![x] = NoDir]
  /\ run' = [i \in Runs |-> IF i = x THEN [run[i] EXCEPT !.at = "ended"] ELSE run[i]]
  /\ abort' = NoAbort

Listed(x) ==
  /\ listing[x] # NoDir
  /\ Settled(x)
  /\ cwd' \in {listing[x], cwd}    \* or it failed
  /\ disturbed' = disturbed \cup (Working \ {x})
  /\ UNCHANGED <<bar, flag, said, sent, stored, stopped, more>>

\* cancelActiveOperation: the flag, and the handler; the loop of the aborted
\* request ends before anything else can run
Cancel ==
  /\ abort # NoAbort \/ bar = "running"    \* the button is there
  /\ flag' = TRUE
  /\ stopped' = stopped \cup Working
  /\ \/ /\ abort[1] = "run" /\ Says(abort[2], "cancelled")
        /\ Ends(abort[2], run[abort[2]].kind)
     \/ /\ abort[1] # "run"
        /\ IF bar = "running" THEN Says(said, "cancelled") ELSE UNCHANGED <<bar, said>>
        /\ IF abort = NoAbort THEN UNCHANGED <<listing, run, abort>> ELSE Settled(abort[2])
        /\ UNCHANGED <<sent, more>>
  /\ UNCHANGED <<cwd, stored, disturbed>>

Next ==
  \/ \E i \in Runs : Succeeds(i) \/ Fails(i) \/ \E k \in Kinds : Start(i, k)
  \/ \E x \in Opens, d \in Dirs : Open(x, d)
  \/ \E x \in Runs \cup Opens : Listed(x)
  \/ Cancel

Spec == Init /\ [][Next]_vars

-----------------------------------------------------------------------------
\* A transfer that nothing came across, no other transfer and no change of
\* directory, does what it was asked: its files go to one directory, it sends
\* nothing more once it is cancelled, and an upload or a download that says
\* complete has transferred every file
AloneDoesAll ==
  \A i \in Runs \ disturbed :
    /\ Cardinality(sent[i]) <= 1
    /\ i \notin more
    /\ (said = i /\ bar = "complete" /\ run[i].kind \in {"upload", "download"})
         => 1..N \subseteq stored[i]

\* The bar says running only while a transfer runs; and it says that a transfer
\* has ended while one runs only when that one was cancelled or was disturbed
BarIsTrue ==
  /\ bar = "running" => Working # {}
  /\ \A i \in Runs : run[i].at = "request" /\ bar # "running" => flag \/ i \in disturbed
=============================================================================
