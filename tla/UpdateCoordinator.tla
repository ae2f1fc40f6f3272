-------------------------- MODULE UpdateCoordinator --------------------------
(***************************************************************************)
(* The processes around one project's index: `update`, `update             *)
(* --background`, index-reading commands, `rebuild`, `restore`, `clear`    *)
(* and the background workers they launch.  They share the coordinator's   *)
(* state file, the worker lock and the rebuild (mutation) lock, and any of *)
(* them may be killed between two steps.                                   *)
(*                                                                         *)
(* A client runs one command.  A worker is known by the claim token it was *)
(* launched with; the foreground `update` that gets a token runs the same  *)
(* worker loop inside its own process.  The source tree is a counter of    *)
(* edits, and the index is the edit up to which its rows are current.      *)
(*                                                                         *)
(* An action introduced as a slip is no part of the model: it is a         *)
(* mistake that the action below it could contain and that some property   *)
(* excludes.                                                               *)
(***************************************************************************)
EXTENDS CoordinatorState, Sequences, FiniteSets

CONSTANTS Clients,            \* processes started by users, editors and hooks
          Tokens,             \* claim tokens: a bound on worker launches
          Commands,           \* the commands in use
          MaxEdits,           \* bound on source edits
          MaxCrashes,         \* bound on killed processes
          MaxLaunchFailures   \* bound on workers that cannot be spawned

RefreshKinds == {"rebuild", "modules", "restore", "none"}
AllCommands == {"background", "update", "read", "clear"} \cup RefreshKinds

ASSUME TokensAssumption == Tokens \subseteq Nat \ {0}
ASSUME CommandsAssumption == Commands \subseteq AllCommands
ASSUME BoundsAssumption ==
  MaxEdits \in Nat /\ MaxCrashes \in Nat /\ MaxLaunchFailures \in Nat

VARIABLES
  edits,           \* source edits made so far
  exists, index,   \* is there an index, and the edit it is current to
  asOf,            \* asOf[g]: edits made when generation g was queued
  st,              \* the state file
  workerLock,      \* holder of db.update-worker-v1.lock
  mutationLock,    \* holder of the rebuild lock
  scan,            \* the edit the mutation lock's holder brings the index to
  cmd, cpc,        \* client: its command and its position in it
  cgen, ctoken,    \* client: generation it acts for, claim token it holds
  cactive,         \* client: what its last probe of the worker lock saw
  wpc, wtarget,    \* worker: its position, the generation it is serving
  crashes, launchFailures

indexVars  == <<edits, exists, index>>
clientVars == <<cmd, cpc, cgen, ctoken, cactive>>
workerVars == <<wpc, wtarget>>
budgets    == <<crashes, launchFailures>>
vars == <<indexVars, asOf, st, workerLock, mutationLock, scan, clientVars,
          workerVars, budgets>>

ClientPCs ==
  {"idle", "probeRequest", "request", "launch", "clearClaim", "snapshot",
   "fail", "lead", "wait", "probeBail", "bail", "answered", "lockRefresh",
   "refresh", "acknowledge", "probeClaim", "claim", "ok", "err", "dead"}
WorkerPCs ==
  {"none", "await", "tryLock", "acknowledge", "look", "finish", "debounce",
   "apply", "lockIndex", "scan", "complete", "record", "leave",
   "leaveFailed", "done", "failed", "dead"}

\* A lock is held by nobody, by a client or by a worker.
Free == <<"free", 0>>
Client(c) == <<"client", c>>
Worker(t) == <<"worker", t>>
Holders == {Free} \cup {Client(c) : c \in Clients}
                  \cup {Worker(t) : t \in Tokens}

Init ==
  /\ edits = 0 /\ exists = TRUE /\ index = 0
  /\ asOf = <<>>
  /\ st = DefaultState
  /\ workerLock = Free /\ mutationLock = Free /\ scan = 0
  /\ cmd = [c \in Clients |-> "unstarted"]
  /\ cpc = [c \in Clients |-> "idle"]
  /\ cgen = [c \in Clients |-> 0]
  /\ ctoken = [c \in Clients |-> NoClaim]
  /\ cactive = [c \in Clients |-> FALSE]
  /\ wpc = [t \in Tokens |-> "none"]
  /\ wtarget = [t \in Tokens |-> 0]
  /\ crashes = 0 /\ launchFailures = 0

(***************************************************************************)
(* Steps of a client.                                                      *)
(***************************************************************************)
MoveFrom(c, from, to) ==
  cpc[c] = from /\ cpc' = [cpc EXCEPT ![c] = to]

\* `update` and `update --background` need an index.
StartUpdate(c) ==
  /\ exists
  /\ MoveFrom(c, "idle", "probeRequest")
  /\ \E command \in Commands \cap {"background", "update"} :
       cmd' = [cmd EXCEPT ![c] = command]
  /\ UNCHANGED <<indexVars, asOf, st, workerLock, mutationLock, scan,
                 cgen, ctoken, cactive, workerVars, budgets>>

\* An index-reading command waits for the newest queued generation.
StartRead(c) ==
  /\ "read" \in Commands /\ exists
  /\ MoveFrom(c, "idle", IF Pending(st) THEN "wait" ELSE "answered")
  /\ cmd' = [cmd EXCEPT ![c] = "read"]
  /\ cgen' = [cgen EXCEPT ![c] = st.requested]
  /\ UNCHANGED <<indexVars, asOf, st, workerLock, mutationLock, scan,
                 ctoken, cactive, workerVars, budgets>>

\* `rebuild` and `restore` note the newest queued generation before they
\* take the mutation lock.
StartRefresh(c) ==
  /\ MoveFrom(c, "idle", "lockRefresh")
  /\ \E kind \in Commands \cap RefreshKinds : cmd' = [cmd EXCEPT ![c] = kind]
  /\ cgen' = [cgen EXCEPT ![c] = st.requested]
  /\ UNCHANGED <<indexVars, asOf, st, workerLock, mutationLock, scan,
                 ctoken, cactive, workerVars, budgets>>

\* `clear` removes the index under the mutation lock, or gives up.
Clear(c) ==
  /\ "clear" \in Commands
  /\ cmd' = [cmd EXCEPT ![c] = "clear"]
  /\ \/ /\ mutationLock = Free
        /\ exists' = FALSE
        /\ MoveFrom(c, "idle", "ok")
     \/ /\ mutationLock # Free
        /\ MoveFrom(c, "idle", "err")
        /\ UNCHANGED exists
  /\ UNCHANGED <<edits, index, asOf, st, workerLock, mutationLock, scan, cgen,
                 ctoken, cactive, workerVars, budgets>>

\* is_update_worker_active takes the worker lock itself to see whether it is
\* free, so a probe looks like a worker to everybody else while it lasts.
ProbePCs == {"probeRequest", "probeBail", "probeClaim"}
AfterProbe(pc) == CASE pc = "probeRequest" -> "request"
                    [] pc = "probeBail"    -> "bail"
                    [] pc = "probeClaim"   -> "claim"

ProbeLocks(c) ==
  /\ cpc[c] \in ProbePCs /\ workerLock = Free
  /\ workerLock' = Client(c)
  /\ UNCHANGED <<indexVars, asOf, st, mutationLock, scan, clientVars,
                 workerVars, budgets>>

ProbeEnds(c) ==
  /\ cpc[c] \in ProbePCs /\ workerLock # Free
  /\ cactive' = [cactive EXCEPT ![c] = workerLock # Client(c)]
  /\ workerLock' = IF workerLock = Client(c) THEN Free ELSE workerLock
  /\ cpc' = [cpc EXCEPT ![c] = AfterProbe(cpc[c])]
  /\ UNCHANGED <<indexVars, asOf, st, mutationLock, scan, cmd, cgen, ctoken,
                 workerVars, budgets>>

\* A token the worker functions have room for; the bound on launches.
RoomForLaunch == st.launches + 1 \in Tokens

\* Queue one more generation and, unless a live claim exists, claim the
\* worker: the background client then launches it, the foreground one leads.
Request(c) ==
  /\ cpc[c] = "request" /\ RoomForLaunch
  /\ st' = RequestGeneration(st, cactive[c])
  /\ asOf' = Append(asOf, edits)
  /\ cgen' = [cgen EXCEPT ![c] = st'.requested]
  /\ ctoken' = [ctoken EXCEPT ![c] = Granted(st, st')]
  /\ LET leads == Granted(st, st') # NoClaim /\ cmd[c] = "update"
     IN  /\ cpc' = [cpc EXCEPT ![c] =
                      CASE leads                      -> "lead"
                        [] Granted(st, st') = NoClaim ->
                             IF cmd[c] = "update" THEN "wait" ELSE "ok"
                        [] OTHER                      -> "launch"]
         /\ wpc' = IF leads THEN [wpc EXCEPT ![st'.claim] = "await"] ELSE wpc
  /\ cactive' = [cactive EXCEPT ![c] = FALSE]
  /\ UNCHANGED <<indexVars, workerLock, mutationLock, scan, cmd, wtarget, budgets>>

\* After a full refresh: claim a worker for what is still pending.
Claim(c) ==
  /\ cpc[c] = "claim" /\ RoomForLaunch
  /\ st' = ClaimPending(st, cactive[c])
  /\ ctoken' = [ctoken EXCEPT ![c] = Granted(st, st')]
  /\ MoveFrom(c, "claim", IF Granted(st, st') = NoClaim THEN "ok" ELSE "launch")
  /\ cactive' = [cactive EXCEPT ![c] = FALSE]
  /\ UNCHANGED <<indexVars, asOf, workerLock, mutationLock, scan, cmd, cgen,
                 workerVars, budgets>>

\* The launcher process spawns a detached worker and exits.
LaunchSucceeds(c) ==
  /\ MoveFrom(c, "launch", "ok")
  /\ wpc' = [wpc EXCEPT ![ctoken[c]] = "await"]
  /\ ctoken' = [ctoken EXCEPT ![c] = NoClaim]
  /\ UNCHANGED <<indexVars, asOf, st, workerLock, mutationLock, scan, cmd,
                 cgen, cactive, wtarget, budgets>>

LaunchFails(c) ==
  /\ launchFailures < MaxLaunchFailures
  /\ MoveFrom(c, "launch", "clearClaim")
  /\ launchFailures' = launchFailures + 1
  /\ UNCHANGED <<indexVars, asOf, st, workerLock, mutationLock, scan, cmd,
                 cgen, ctoken, cactive, workerVars, crashes>>

\* A failed launch gives the claim back and, under the lock once more,
\* records the failure: a request for the generation it queued, a refresh
\* for the newest generation it then reads.
ClearClaim(c) ==
  /\ MoveFrom(c, "clearClaim",
              IF cmd[c] \in RefreshKinds THEN "snapshot" ELSE "fail")
  /\ st' = ReleaseClaim(st, ctoken[c])
  /\ ctoken' = [ctoken EXCEPT ![c] = NoClaim]
  /\ UNCHANGED <<indexVars, asOf, workerLock, mutationLock, scan, cmd, cgen,
                 cactive, workerVars, budgets>>

SnapshotRequested(c) ==
  /\ MoveFrom(c, "snapshot", "fail")
  /\ cgen' = [cgen EXCEPT ![c] = st.requested]
  /\ UNCHANGED <<indexVars, asOf, st, workerLock, mutationLock, scan, cmd,
                 ctoken, cactive, workerVars, budgets>>

ReportLaunchFailure(c) ==
  /\ MoveFrom(c, "fail", "err")
  /\ st' = FailGeneration(st, cgen[c])
  /\ UNCHANGED <<indexVars, asOf, workerLock, mutationLock, scan, cmd, cgen,
                 ctoken, cactive, workerVars, budgets>>

\* The foreground leader's own worker loop returned.
LeadReturns(c) ==
  /\ cpc[c] = "lead" /\ wpc[ctoken[c]] \in {"done", "failed"}
  /\ MoveFrom(c, "lead", IF wpc[ctoken[c]] = "done" THEN "wait" ELSE "err")
  /\ ctoken' = [ctoken EXCEPT ![c] = NoClaim]
  /\ UNCHANGED <<indexVars, asOf, st, workerLock, mutationLock, scan, cmd,
                 cgen, cactive, workerVars, budgets>>

\* One turn of the polling loop that ends or leads to a probe: the
\* generation is served, or the state file says that it failed and that no
\* worker is entitled to retry it.  The probe comes after the state lock is
\* released.
WaitIsOver(c) ==
  /\ st.completed >= cgen[c]
  /\ MoveFrom(c, "wait", "answered")
  /\ UNCHANGED <<indexVars, asOf, st, workerLock, mutationLock, scan, cmd,
                 cgen, ctoken, cactive, workerVars, budgets>>

\* Slip: only the failure of a later generation ends the wait.
WaitSuspectsLaterFailure(c) ==
  /\ st.completed < cgen[c] /\ st.failure > cgen[c] /\ st.claim = NoClaim
  /\ MoveFrom(c, "wait", "probeBail")
  /\ UNCHANGED <<indexVars, asOf, st, workerLock, mutationLock, scan, cmd,
                 cgen, ctoken, cactive, workerVars, budgets>>

WaitSuspectsFailure(c) ==
  /\ st.completed < cgen[c] /\ st.failure >= cgen[c] /\ st.claim = NoClaim
  /\ MoveFrom(c, "wait", "probeBail")
  /\ UNCHANGED <<indexVars, asOf, st, workerLock, mutationLock, scan, cmd,
                 cgen, ctoken, cactive, workerVars, budgets>>

BailOrPollAgain(c) ==
  /\ MoveFrom(c, "bail", IF cactive[c] THEN "wait" ELSE "err")
  /\ cactive' = [cactive EXCEPT ![c] = FALSE]
  /\ UNCHANGED <<indexVars, asOf, st, workerLock, mutationLock, scan, cmd,
                 cgen, ctoken, workerVars, budgets>>

WaitTimesOut(c) ==
  /\ MoveFrom(c, "wait", "err")
  /\ UNCHANGED <<indexVars, asOf, st, workerLock, mutationLock, scan, cmd,
                 cgen, ctoken, cactive, workerVars, budgets>>

(***************************************************************************)
(* A full refresh.  `rebuild` of everything or of the files scans the      *)
(* source; `rebuild --type modules` or deps starts from a copy of the live *)
(* rows; `restore` publishes a snapshot taken earlier; and a rebuild of    *)
(* sub-projects that finds none succeeds without publishing anything.      *)
(***************************************************************************)
RefreshVersions(kind) ==
  {v \in 0..edits : /\ kind = "rebuild" => v = edits
                    /\ kind = "modules" => v = IF exists THEN index ELSE 0
                    /\ kind = "none"    => v = index}

LockRefresh(c) ==
  /\ \/ /\ MoveFrom(c, "lockRefresh", "refresh")
        /\ mutationLock = Free
        /\ mutationLock' = Client(c)
        /\ scan' \in RefreshVersions(cmd[c])
     \/ /\ MoveFrom(c, "lockRefresh", "err")
        /\ mutationLock # Free
        /\ UNCHANGED <<mutationLock, scan>>
  /\ UNCHANGED <<indexVars, asOf, st, workerLock, cmd, cgen, ctoken, cactive,
                 workerVars, budgets>>

Publishes(c) ==
  /\ index' = scan
  /\ exists' = (exists \/ cmd[c] # "none")
  /\ mutationLock' = Free
  /\ scan' = 0

RefreshSucceeds(c) ==
  /\ MoveFrom(c, "refresh", "acknowledge")
  /\ Publishes(c)
  /\ UNCHANGED <<edits, asOf, st, workerLock, cmd, cgen, ctoken,
                 cactive, workerVars, budgets>>

\* What fails once the commit marker is written fails after the publication.
RefreshFailsLate(c) ==
  /\ MoveFrom(c, "refresh", "err")
  /\ Publishes(c)
  /\ UNCHANGED <<edits, asOf, st, workerLock, cmd, cgen, ctoken,
                 cactive, workerVars, budgets>>

RefreshFails(c) ==
  /\ MoveFrom(c, "refresh", "err")
  /\ mutationLock' = Free
  /\ scan' = 0
  /\ UNCHANGED <<indexVars, asOf, st, workerLock, cmd, cgen, ctoken,
                 cactive, workerVars, budgets>>

Acknowledge(c) ==
  /\ MoveFrom(c, "acknowledge", "probeClaim")
  /\ st' = AcknowledgeFullRefresh(st, cgen[c])
  /\ UNCHANGED <<indexVars, asOf, workerLock, mutationLock, scan, cmd, cgen,
                 ctoken, cactive, workerVars, budgets>>

(***************************************************************************)
(* Steps of the worker launched with token t.                              *)
(***************************************************************************)
WorkerMoves(t, from, to) ==
  wpc[t] = from /\ wpc' = [wpc EXCEPT ![t] = to]

\* Try the worker lock again and again, as long as the claim, read before
\* each try, is this worker's.
AwaitLock(t) ==
  /\ WorkerMoves(t, "await", IF st.claim = t THEN "tryLock" ELSE "done")
  /\ UNCHANGED <<indexVars, asOf, st, workerLock, mutationLock, scan,
                 clientVars, wtarget, budgets>>

\* Slip: a contended lock is not waited for.
StartWithoutLock(t) ==
  /\ WorkerMoves(t, "tryLock", "acknowledge")
  /\ workerLock' = Worker(t)
  /\ UNCHANGED <<indexVars, asOf, st, mutationLock, scan, clientVars, wtarget,
                 budgets>>

TryLock(t) ==
  /\ \/ /\ workerLock = Free
        /\ WorkerMoves(t, "tryLock", "acknowledge")
        /\ workerLock' = Worker(t)
     \/ /\ workerLock # Free
        /\ WorkerMoves(t, "tryLock", "await")
        /\ UNCHANGED workerLock
  /\ UNCHANGED <<indexVars, asOf, st, mutationLock, scan, clientVars, wtarget,
                 budgets>>

\* The claim may have passed to another token before the lock was taken.
AcknowledgeWorkerStart(t) ==
  /\ st' = AcknowledgeStart(st, t)
  /\ WorkerMoves(t, "acknowledge", IF st.claim = t THEN "look" ELSE "leave")
  /\ UNCHANGED <<indexVars, asOf, workerLock, mutationLock, scan, clientVars,
                 wtarget, budgets>>

\* Top of the loop.  A background worker may wait for requests to settle;
\* a foreground leader, and a debounce of 0, applies the update at once.
Leads(t) == \E c \in Clients : cpc[c] = "lead" /\ ctoken[c] = t

LookForWork(t) ==
  /\ IF Pending(st)
     THEN /\ \/ WorkerMoves(t, "look", "apply")
             \/ ~Leads(t) /\ WorkerMoves(t, "look", "debounce")
          /\ wtarget' = [wtarget EXCEPT ![t] = st.requested]
     ELSE WorkerMoves(t, "look", "finish") /\ UNCHANGED wtarget
  /\ UNCHANGED <<indexVars, asOf, st, workerLock, mutationLock, scan,
                 clientVars, budgets>>

Debounce(t) ==
  /\ WorkerMoves(t, "debounce",
                 IF st.requested = wtarget[t] THEN "apply" ELSE "debounce")
  /\ wtarget' = [wtarget EXCEPT ![t] = st.requested]
  /\ UNCHANGED <<indexVars, asOf, st, workerLock, mutationLock, scan,
                 clientVars, budgets>>

\* Slip: the queue is not looked at again when an idle worker leaves.
LeaveWithoutLooking(t) ==
  /\ WorkerMoves(t, "finish", "leave")
  /\ st' = ReleaseClaim(st, t)
  /\ UNCHANGED <<indexVars, asOf, workerLock, mutationLock, scan, clientVars,
                 wtarget, budgets>>

\* Idleness is checked again under the state lock before the claim is
\* given up: a request that came in between is served by this worker.
Finish(t) ==
  /\ WorkerMoves(t, "finish", IF Pending(st) THEN "look" ELSE "leave")
  /\ st' = FinishIfIdle(st, t)
  /\ UNCHANGED <<indexVars, asOf, workerLock, mutationLock, scan, clientVars,
                 wtarget, budgets>>

CheckIndex(t) ==
  /\ WorkerMoves(t, "apply", IF exists THEN "lockIndex" ELSE "record")
  /\ UNCHANGED <<indexVars, asOf, st, workerLock, mutationLock, scan,
                 clientVars, wtarget, budgets>>

\* The rebuild lock is tried once; losing it fails this generation.
LockIndex(t) ==
  /\ \/ /\ mutationLock # Free
        /\ WorkerMoves(t, "lockIndex", "record")
        /\ UNCHANGED <<mutationLock, scan>>
     \/ /\ mutationLock = Free
        /\ WorkerMoves(t, "lockIndex", "scan")
        /\ mutationLock' = Worker(t) /\ scan' = edits
  /\ UNCHANGED <<indexVars, asOf, st, workerLock, clientVars, wtarget,
                 budgets>>

\* Slip: the generation is read again after the scan.
ScanRereadsTarget(t) ==
  /\ WorkerMoves(t, "scan", "complete")
  /\ index' = IF exists THEN scan ELSE index
  /\ mutationLock' = Free
  /\ scan' = 0
  /\ wtarget' = [wtarget EXCEPT ![t] = st.requested]
  /\ UNCHANGED <<edits, exists, asOf, st, workerLock, clientVars, budgets>>

\* With the lock held, an index that `clear` has removed is no error.
ScanSucceeds(t) ==
  /\ WorkerMoves(t, "scan", "complete")
  /\ index' = IF exists THEN scan ELSE index
  /\ mutationLock' = Free
  /\ scan' = 0
  /\ UNCHANGED <<edits, exists, asOf, st, workerLock, clientVars,
                 wtarget, budgets>>

ScanFails(t) ==
  /\ WorkerMoves(t, "scan", "record")
  /\ mutationLock' = Free
  /\ scan' = 0
  /\ UNCHANGED <<indexVars, asOf, st, workerLock, clientVars, wtarget,
                 budgets>>

Complete(t) ==
  /\ WorkerMoves(t, "complete", "look")
  /\ st' = CompleteGeneration(st, wtarget[t])
  /\ UNCHANGED <<indexVars, asOf, workerLock, mutationLock, scan, clientVars,
                 wtarget, budgets>>

RecordFailure(t) ==
  /\ WorkerMoves(t, "record",
                 IF st.requested > wtarget[t] THEN "look" ELSE "leaveFailed")
  /\ st' = RecordFailureAndFinish(st, t, wtarget[t])
  /\ UNCHANGED <<indexVars, asOf, workerLock, mutationLock, scan, clientVars,
                 wtarget, budgets>>

\* The worker lock outlives the loop by the time it takes to return.
Leave(t) ==
  /\ \/ WorkerMoves(t, "leave", "done")
     \/ WorkerMoves(t, "leaveFailed", "failed")
  /\ workerLock' = Free
  /\ wtarget' = [wtarget EXCEPT ![t] = 0]
  /\ UNCHANGED <<indexVars, asOf, st, mutationLock, scan, clientVars, budgets>>

(***************************************************************************)
(* The environment: edits, time, and processes that die.  The kernel drops *)
(* the locks of a dead process; the state file keeps what was written.     *)
(***************************************************************************)
Edit ==
  /\ edits < MaxEdits
  /\ edits' = edits + 1
  /\ UNCHANGED <<exists, index, asOf, st, workerLock, mutationLock, scan,
                 clientVars, workerVars, budgets>>

ClaimAges ==
  /\ st.fresh
  /\ st' = [st EXCEPT !.fresh = FALSE]
  /\ UNCHANGED <<indexVars, asOf, workerLock, mutationLock, scan, clientVars,
                 workerVars, budgets>>

Dropped(lock, holder) == IF lock = holder THEN Free ELSE lock

WorkerEnded == {"none", "done", "failed", "dead"}
ClientEnded == {"idle", "answered", "ok", "err", "dead"}

CrashWorker(t) ==
  /\ crashes < MaxCrashes /\ wpc[t] \notin WorkerEnded
  /\ wpc' = [wpc EXCEPT ![t] = "dead"]
  /\ cpc' = [c \in Clients |-> IF cpc[c] = "lead" /\ ctoken[c] = t
                               THEN "dead" ELSE cpc[c]]
  /\ workerLock' = Dropped(workerLock, Worker(t))
  /\ mutationLock' = Dropped(mutationLock, Worker(t))
  /\ crashes' = crashes + 1
  /\ UNCHANGED <<indexVars, asOf, st, scan, cmd, cgen, ctoken, cactive,
                 wtarget, launchFailures>>

\* A killed client's launcher process may already have spawned the worker.
CrashClient(c) ==
  /\ crashes < MaxCrashes /\ cpc[c] \notin ClientEnded \cup {"lead"}
  /\ cpc' = [cpc EXCEPT ![c] = "dead"]
  /\ \/ cpc[c] = "launch" /\ wpc' = [wpc EXCEPT ![ctoken[c]] = "await"]
     \/ UNCHANGED wpc
  /\ workerLock' = Dropped(workerLock, Client(c))
  /\ mutationLock' = Dropped(mutationLock, Client(c))
  /\ crashes' = crashes + 1
  /\ UNCHANGED <<indexVars, asOf, st, scan, cmd, cgen, ctoken, cactive,
                 wtarget, launchFailures>>

\* A refresh killed after its commit marker is one that whoever opens the
\* publication next rolls forward.
CrashPublisher(c) ==
  /\ crashes < MaxCrashes
  /\ MoveFrom(c, "refresh", "dead")
  /\ Publishes(c)
  /\ crashes' = crashes + 1
  /\ UNCHANGED <<edits, asOf, st, workerLock, cmd, cgen, ctoken, cactive,
                 workerVars, launchFailures>>

\* The launcher itself is killed after it spawned the worker: its client
\* sees a failed launch although the worker runs.
LauncherDies(c) ==
  /\ crashes < MaxCrashes
  /\ MoveFrom(c, "launch", "clearClaim")
  /\ wpc' = [wpc EXCEPT ![ctoken[c]] = "await"]
  /\ crashes' = crashes + 1
  /\ UNCHANGED <<indexVars, asOf, st, workerLock, mutationLock, scan, cmd,
                 cgen, ctoken, cactive, wtarget, launchFailures>>

\* Every process has ended; commands that found no index never started.
AllEnded ==
  /\ \A c \in Clients : cpc[c] \in ClientEnded
  /\ \A t \in Tokens : wpc[t] \in WorkerEnded
  /\ UNCHANGED vars

ClientStep(c) ==
  \/ ProbeLocks(c) \/ ProbeEnds(c) \/ Request(c) \/ Claim(c)
  \/ LaunchSucceeds(c) \/ LaunchFails(c) \/ ClearClaim(c)
  \/ SnapshotRequested(c) \/ ReportLaunchFailure(c) \/ LeadReturns(c)
  \/ WaitIsOver(c) \/ WaitSuspectsFailure(c) \/ BailOrPollAgain(c)
  \/ LockRefresh(c) \/ RefreshSucceeds(c) \/ RefreshFails(c)
  \/ RefreshFailsLate(c) \/ Acknowledge(c)

WorkerStep(t) ==
  \/ AwaitLock(t) \/ TryLock(t) \/ AcknowledgeWorkerStart(t)
  \/ LookForWork(t) \/ Debounce(t) \/ Finish(t) \/ CheckIndex(t) \/ LockIndex(t)
  \/ ScanSucceeds(t) \/ ScanFails(t) \/ Complete(t) \/ RecordFailure(t)
  \/ Leave(t)

Start(c) == StartUpdate(c) \/ StartRead(c) \/ StartRefresh(c) \/ Clear(c)
Crash == \/ \E t \in Tokens : CrashWorker(t)
         \/ \E c \in Clients : \/ CrashClient(c) \/ CrashPublisher(c)
                                \/ LauncherDies(c)

Next ==
  \/ \E c \in Clients : Start(c) \/ ClientStep(c) \/ WaitTimesOut(c)
  \/ \E t \in Tokens : WorkerStep(t)
  \/ Edit \/ ClaimAges \/ Crash \/ AllEnded

\* A process that has started keeps running; nobody has to start a command,
\* edit a file or crash, and no wait is required to time out.
Fairness == /\ \A c \in Clients : WF_vars(ClientStep(c))
            /\ \A t \in Tokens : WF_vars(WorkerStep(t))

Spec == Init /\ [][Next]_vars
FairSpec == Spec /\ Fairness

(***************************************************************************)
(* Properties.                                                             *)
(***************************************************************************)
\* The refreshes that scan the source; AnswersAreFresh depends on these being
\* the only ones in use.
OnlyScanningRefreshes == Commands \cap RefreshKinds \subseteq {"rebuild"}

\* Every variable keeps its type, one entry of asOf per queued generation,
\* and completed <= requested: a state file that breaks this is refused by
\* read_update_state_file, and with it every command of the project.
TypeOK ==
  /\ edits \in Nat /\ exists \in BOOLEAN /\ index \in Nat /\ scan \in Nat
  /\ st \in CoordinatorStates(Tokens) /\ st.completed <= st.requested
  /\ asOf \in Seq(Nat) /\ Len(asOf) = st.requested
  /\ workerLock \in Holders /\ mutationLock \in Holders
  /\ cmd \in [Clients -> {"unstarted"} \cup Commands] /\ cpc \in [Clients -> ClientPCs]
  /\ cgen \in [Clients -> Nat] /\ ctoken \in [Clients -> {NoClaim} \cup Tokens]
  /\ cactive \in [Clients -> BOOLEAN]
  /\ wpc \in [Tokens -> WorkerPCs] /\ wtarget \in [Tokens -> Nat]
  /\ crashes \in Nat /\ launchFailures \in Nat

\* No edit is lost: a generation counted as completed is one whose edits the
\* index has, whatever updates, rebuilds and crashes overlapped on the way.
CompletedMeansIndexed ==
  exists => \A g \in 1..st.completed : asOf[g] <= index

\* A reader or a foreground update that is let through sees an index that
\* has every edit made before the generation it waited for was queued.
AnswersAreFresh ==
  \A c \in Clients :
    cpc[c] = "answered" /\ cgen[c] > 0 /\ exists => asOf[cgen[c]] <= index

ServingPCs == {"look", "finish", "debounce", "apply", "lockIndex", "scan",
               "complete", "record"}

\* Updates run one at a time: never two worker loops, and no scan that
\* overlaps a rebuild or a restore, even when a claim changed hands twice.
ScansAreExclusive ==
  /\ \A t, u \in Tokens :
       wpc[t] \in ServingPCs /\ wpc[u] \in ServingPCs => t = u
  /\ \A t \in Tokens, c \in Clients : ~(wpc[t] = "scan" /\ cpc[c] = "refresh")

\* The inductive form of CompletedMeansIndexed.  A generation is credited once
\* the scan that serves it is over, although the state file may not say so
\* yet, and it is being built while that scan runs.  The index covers what is
\* credited; the version under the mutation lock covers that and what is
\* being built, so publishing it takes nothing back.
Credited(g) ==
  \/ g <= st.completed
  \/ \E t \in Tokens : wpc[t] = "complete" /\ g <= wtarget[t]
  \/ \E c \in Clients : cpc[c] = "acknowledge" /\ g <= cgen[c]

BeingBuilt(g) ==
  \/ \E t \in Tokens : wpc[t] = "scan" /\ g <= wtarget[t]
  \/ \E c \in Clients : cpc[c] = "refresh" /\ g <= cgen[c]

WorkerLockIsHeld ==
  \A t \in Tokens :
    wpc[t] \in ServingPCs \cup {"acknowledge", "leave", "leaveFailed"} =>
      workerLock = Worker(t)

MutationLockIsHeld ==
  /\ \A t \in Tokens : wpc[t] = "scan" => mutationLock = Worker(t)
  /\ \A c \in Clients : cpc[c] = "refresh" => mutationLock = Client(c)

RefreshesAreKnown ==
  \A c \in Clients : cpc[c] = "lockRefresh" => cmd[c] \in Commands \cap RefreshKinds

QueueIsOrdered ==
  /\ \A g \in 1..Len(asOf) : asOf[g] <= edits
  /\ \A t \in Tokens : wtarget[t] <= st.requested
  /\ \A c \in Clients : cgen[c] <= st.requested

IndexCoversCredited ==
  /\ index <= edits
  /\ exists => \A g \in 1..Len(asOf) : Credited(g) => asOf[g] <= index

ScanCoversBoth ==
  mutationLock # Free =>
    /\ scan <= edits
    /\ exists => index <= scan
    /\ \A g \in 1..Len(asOf) : Credited(g) \/ BeingBuilt(g) => asOf[g] <= scan

IndexInv ==
  /\ WorkerLockIsHeld /\ MutationLockIsHeld
  /\ RefreshesAreKnown /\ QueueIsOrdered
  /\ IndexCoversCredited /\ ScanCoversBoth

\* Pending work is never stranded: when no claim is left, a worker is still
\* at it, or a client is about to report on it, or the failure on record
\* covers the newest generation, so that every waiter hears of it.
PendingIsNotStranded ==
  crashes = 0 /\ Pending(st) /\ st.claim = NoClaim =>
    \/ \E t \in Tokens : wpc[t] \in ServingPCs
    \/ \E c \in Clients : cpc[c] \in {"snapshot", "fail"}
    \/ st.failure >= st.requested

\* Only the holder of a claim gives it up: neither a superseded worker that
\* finishes late nor a launcher that fails late clears a newer claim.
ClaimIsReleasedByItsOwner ==
  [][ st.claim # NoClaim /\ st'.claim = NoClaim =>
        \/ /\ wpc[st.claim] \in {"finish", "record"}
           /\ wpc'[st.claim] # wpc[st.claim]
        \/ \E c \in Clients : /\ ctoken[c] = st.claim
                              /\ cpc[c] = "clearClaim" /\ cpc'[c] # cpc[c]
    ]_vars

\* Every queued generation is eventually served or its failure put on
\* record, given only that running processes keep running.
EveryGenerationSettles ==
  \A g \in 1..Cardinality(Clients) :
    st.requested >= g ~> st.completed >= g \/ st.failure >= g

\* A waiter does not depend on its timeout: it is answered or told of a
\* failure without it.
WaitersReturn ==
  \A c \in Clients : cpc[c] = "wait" ~> cpc[c] \in {"answered", "err"}

\* The abstract service this one implements.
Service == INSTANCE RefreshService WITH queued <- asOf, served <- st.completed
ImplementsService == Service!Spec
=============================================================================
