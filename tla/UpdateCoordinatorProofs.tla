----------------------- MODULE UpdateCoordinatorProofs -----------------------
(***************************************************************************)
(* Proofs about UpdateCoordinator, for any number of clients, launches,    *)
(* edits, crashes and failed launches.                                     *)
(***************************************************************************)
EXTENDS UpdateCoordinator, TLAPS

(***************************************************************************)
(* The transactions on the state file.                                     *)
(***************************************************************************)
\* The states the file can hold: read_update_state_file refuses others.
ValidState(s) == s \in CoordinatorStates(Tokens) /\ s.completed <= s.requested

\* complete_update_generation and acknowledge_full_refresh move completed
\* forward, never past requested, and never past the generation they serve.
LEMMA AdvanceIsBounded ==
  ASSUME NEW s, ValidState(s), NEW g \in Nat
  PROVE  /\ Advance(s, g) \in Nat
         /\ s.completed <= Advance(s, g) /\ Advance(s, g) <= s.requested
         /\ Advance(s, g) <= s.completed \/ Advance(s, g) <= g
BY DEF ValidState, CoordinatorStates, Advance

\* Each transaction takes a valid state to a valid state and, except for a
\* request, leaves the number of queued generations alone.
LEMMA TransactionsAreValid ==
  ASSUME NEW s, ValidState(s), NEW g \in Nat, NEW t \in Tokens \cup {NoClaim},
         NEW active \in BOOLEAN
  PROVE  /\ ValidState(ReleaseClaim(s, t))
         /\ ReleaseClaim(s, t).requested = s.requested
         /\ ReleaseClaim(s, t).completed = s.completed
         /\ ValidState(AcknowledgeStart(s, t))
         /\ AcknowledgeStart(s, t).requested = s.requested
         /\ AcknowledgeStart(s, t).completed = s.completed
         /\ ValidState(FailGeneration(s, g))
         /\ FailGeneration(s, g).requested = s.requested
         /\ FailGeneration(s, g).completed = s.completed
<1>1. /\ ValidState(ReleaseClaim(s, t))
      /\ ReleaseClaim(s, t).requested = s.requested
      /\ ReleaseClaim(s, t).completed = s.completed
  BY DEF ValidState, CoordinatorStates, ReleaseClaim, NoClaim
<1>2. /\ ValidState(AcknowledgeStart(s, t))
      /\ AcknowledgeStart(s, t).requested = s.requested
      /\ AcknowledgeStart(s, t).completed = s.completed
  BY DEF ValidState, CoordinatorStates, AcknowledgeStart, NoClaim
<1>3. /\ ValidState(FailGeneration(s, g))
      /\ FailGeneration(s, g).requested = s.requested
      /\ FailGeneration(s, g).completed = s.completed
  BY DEF ValidState, CoordinatorStates, FailGeneration
<1>4. QED BY <1>1, <1>2, <1>3

LEMMA EndingsAreValid ==
  ASSUME NEW s, ValidState(s), NEW g \in Nat, NEW t \in Tokens
  PROVE  /\ ValidState(FinishIfIdle(s, t))
         /\ FinishIfIdle(s, t).requested = s.requested
         /\ FinishIfIdle(s, t).completed = s.completed
         /\ ValidState(RecordFailureAndFinish(s, t, g))
         /\ RecordFailureAndFinish(s, t, g).requested = s.requested
         /\ RecordFailureAndFinish(s, t, g).completed = s.completed
<1>1. /\ ValidState(FinishIfIdle(s, t))
      /\ FinishIfIdle(s, t).requested = s.requested
      /\ FinishIfIdle(s, t).completed = s.completed
  BY TransactionsAreValid DEF FinishIfIdle
<1>2. DEFINE failed == [s EXCEPT !.failure = g]
<1>3. /\ ValidState(failed)
      /\ failed.requested = s.requested /\ failed.completed = s.completed
  BY DEF ValidState, CoordinatorStates
<1>4. /\ ValidState(ReleaseClaim(failed, t))
      /\ ReleaseClaim(failed, t).requested = s.requested
      /\ ReleaseClaim(failed, t).completed = s.completed
  <2>1. TRUE \in BOOLEAN /\ t \in Tokens \cup {NoClaim}
    OBVIOUS
  <2>2. QED BY <1>3, <2>1, TransactionsAreValid
<1>5. QED BY <1>1, <1>3, <1>4 DEF RecordFailureAndFinish

LEMMA CompletionsAreValid ==
  ASSUME NEW s, ValidState(s), NEW g \in Nat
  PROVE  /\ ValidState(CompleteGeneration(s, g))
         /\ CompleteGeneration(s, g).requested = s.requested
         /\ CompleteGeneration(s, g).completed = Advance(s, g)
         /\ ValidState(AcknowledgeFullRefresh(s, g))
         /\ AcknowledgeFullRefresh(s, g).requested = s.requested
         /\ AcknowledgeFullRefresh(s, g).completed = Advance(s, g)
BY AdvanceIsBounded
   DEF ValidState, CoordinatorStates, CompleteGeneration,
       AcknowledgeFullRefresh, NoFailure

\* A request queues one generation; neither it nor a claim touches completed,
\* and the token handed out, if any, is one there is room for.
LEMMA ClaimsAreValid ==
  ASSUME NEW s, ValidState(s), NEW active \in BOOLEAN, s.launches + 1 \in Tokens
  PROVE  /\ ValidState(RequestGeneration(s, active))
         /\ RequestGeneration(s, active).requested = s.requested + 1
         /\ RequestGeneration(s, active).completed = s.completed
         /\ Granted(s, RequestGeneration(s, active)) \in Tokens \cup {NoClaim}
         /\ ValidState(ClaimPending(s, active))
         /\ ClaimPending(s, active).requested = s.requested
         /\ ClaimPending(s, active).completed = s.completed
         /\ Granted(s, ClaimPending(s, active)) \in Tokens \cup {NoClaim}
<1>1. ASSUME NEW u, ValidState(u), u.launches = s.launches
      PROVE  /\ ValidState(TakeClaim(u))
             /\ TakeClaim(u).requested = u.requested
             /\ TakeClaim(u).completed = u.completed
             /\ TakeClaim(u).launches = s.launches + 1
             /\ TakeClaim(u).claim = s.launches + 1
  BY <1>1 DEF ValidState, CoordinatorStates, TakeClaim, NoClaim
<1>2. DEFINE queued == [s EXCEPT !.requested = s.requested + 1]
<1>3. /\ ValidState(queued) /\ queued.launches = s.launches
      /\ queued.requested = s.requested + 1 /\ queued.completed = s.completed
  BY DEF ValidState, CoordinatorStates
<1>4. QED
  BY <1>1, <1>3 DEF RequestGeneration, ClaimPending, Granted

(***************************************************************************)
(* Types.                                                                  *)
(***************************************************************************)
\* What is left to show of TypeOK when the state file is known to be valid.
RestOK ==
  /\ edits \in Nat /\ exists \in BOOLEAN /\ index \in Nat /\ scan \in Nat
  /\ asOf \in Seq(Nat) /\ Len(asOf) = st.requested
  /\ workerLock \in Holders /\ mutationLock \in Holders
  /\ cmd \in [Clients -> {"unstarted"} \cup Commands]
  /\ cpc \in [Clients -> ClientPCs]
  /\ cgen \in [Clients -> Nat] /\ ctoken \in [Clients -> {NoClaim} \cup Tokens]
  /\ cactive \in [Clients -> BOOLEAN]
  /\ wpc \in [Tokens -> WorkerPCs] /\ wtarget \in [Tokens -> Nat]
  /\ crashes \in Nat /\ launchFailures \in Nat

LEMMA TypeSplits ==
  /\ TypeOK <=> ValidState(st) /\ RestOK
  /\ TypeOK' <=> ValidState(st') /\ RestOK'
BY DEF TypeOK, ValidState, RestOK

LEMMA HoldersAreTyped ==
  /\ Free \in Holders
  /\ \A c \in Clients : Client(c) \in Holders
  /\ \A t \in Tokens : Worker(t) \in Holders
BY DEF Holders

\* A step of a client that leaves the state file alone.
LEMMA ClientKeepsTypes ==
  ASSUME TypeOK, NEW c \in Clients, UNCHANGED st,
         \/ StartUpdate(c)
         \/ StartRead(c)
         \/ StartRefresh(c)
         \/ Clear(c)
         \/ ProbeLocks(c)
         \/ ProbeEnds(c)
         \/ LaunchSucceeds(c)
         \/ LaunchFails(c)
         \/ SnapshotRequested(c)
         \/ LeadReturns(c)
         \/ WaitIsOver(c)
         \/ WaitSuspectsFailure(c)
         \/ BailOrPollAgain(c)
         \/ WaitTimesOut(c)
         \/ LockRefresh(c)
         \/ RefreshSucceeds(c)
         \/ RefreshFails(c)
         \/ RefreshFailsLate(c)
  PROVE  TypeOK'
<1> SUFFICES RestOK'
  BY TypeSplits DEF ValidState, CoordinatorStates
<1> USE TypeSplits, HoldersAreTyped DEF RestOK, MoveFrom, ClientPCs
<1>1. CASE StartUpdate(c)
  BY <1>1 DEF StartUpdate, indexVars, clientVars, workerVars, budgets
<1>2. CASE StartRead(c)
  BY <1>2 DEF StartRead, indexVars, clientVars, workerVars, budgets
<1>3. CASE StartRefresh(c)
  BY <1>3 DEF StartRefresh, indexVars, clientVars, workerVars, budgets
<1>4. CASE Clear(c)
  BY <1>4 DEF Clear, indexVars, clientVars, workerVars, budgets
<1>5. CASE ProbeLocks(c)
  BY <1>5 DEF ProbeLocks, indexVars, clientVars, workerVars, budgets
<1>6. CASE ProbeEnds(c)
  BY <1>6 DEF ProbeEnds, indexVars, clientVars, workerVars, budgets, Free, ProbePCs, AfterProbe
<1>7. CASE LaunchSucceeds(c)
  BY <1>7 DEF LaunchSucceeds, WorkerPCs, indexVars, clientVars, workerVars, budgets
<1>8. CASE LaunchFails(c)
  BY <1>8 DEF LaunchFails, indexVars, clientVars, workerVars, budgets
<1>9. CASE SnapshotRequested(c)
  BY <1>9 DEF SnapshotRequested, indexVars, clientVars, workerVars, budgets
<1>10. CASE LeadReturns(c)
  BY <1>10 DEF LeadReturns, indexVars, clientVars, workerVars, budgets, NoClaim
<1>11. CASE WaitIsOver(c)
  BY <1>11 DEF WaitIsOver, indexVars, clientVars, workerVars, budgets
<1>12. CASE WaitSuspectsFailure(c)
  BY <1>12 DEF WaitSuspectsFailure, indexVars, clientVars, workerVars, budgets
<1>13. CASE BailOrPollAgain(c)
  BY <1>13 DEF BailOrPollAgain, indexVars, clientVars, workerVars, budgets
<1>14. CASE WaitTimesOut(c)
  BY <1>14 DEF WaitTimesOut, indexVars, clientVars, workerVars, budgets
<1>15. CASE LockRefresh(c)
  <2>1. RefreshVersions(cmd[c]) \subseteq Nat
    BY DEF RefreshVersions
  <2>2. QED
    BY <1>15, <2>1 DEF LockRefresh, indexVars, clientVars, workerVars, budgets
<1>16. CASE RefreshSucceeds(c)
  BY <1>16 DEF RefreshSucceeds, Publishes, indexVars, clientVars, workerVars,
               budgets
<1>17. CASE RefreshFailsLate(c)
  BY <1>17 DEF RefreshFailsLate, Publishes, indexVars, clientVars, workerVars,
               budgets
<1>18. CASE RefreshFails(c)
  BY <1>18 DEF RefreshFails, indexVars, clientVars, workerVars, budgets
<1>19. QED BY <1>1, <1>2, <1>3, <1>4, <1>5, <1>6, <1>7, <1>8, <1>9, <1>10,
              <1>11, <1>12, <1>13, <1>14, <1>15, <1>16, <1>17, <1>18

\* A step of a client that runs a transaction on the state file.
LEMMA ClientTransactionsKeepTypes ==
  ASSUME TypeOK, NEW c \in Clients,
         \/ Request(c) \/ Claim(c) \/ ClearClaim(c) \/ ReportLaunchFailure(c)
         \/ Acknowledge(c)
  PROVE  TypeOK'
<1> USE TypeSplits, HoldersAreTyped DEF MoveFrom, ClientPCs, WorkerPCs
<1>1. ValidState(st) /\ RestOK
  OBVIOUS
<1>2. /\ cgen[c] \in Nat /\ ctoken[c] \in Tokens \cup {NoClaim}
      /\ cactive[c] \in BOOLEAN
  BY <1>1 DEF RestOK
<1>3. CASE Request(c)
  <2>1. /\ ValidState(st') /\ st'.requested = st.requested + 1
        /\ Granted(st, st') \in Tokens \cup {NoClaim}
    BY <1>1, <1>2, <1>3, ClaimsAreValid DEF Request, RoomForLaunch
  <2>2. Append(asOf, edits) \in Seq(Nat) /\ Len(Append(asOf, edits)) = st'.requested
    BY <1>1, <2>1 DEF RestOK
  <2>3. st'.requested \in Nat
    BY <2>1 DEF ValidState, CoordinatorStates
  <2>4. wpc' \in [Tokens -> WorkerPCs]
    BY <1>1, <1>3 DEF Request, RestOK
  <2>5. cpc' \in [Clients -> ClientPCs]
    BY <1>1, <1>3 DEF Request, RestOK
  <2>6. QED
    BY <1>1, <1>3, <2>1, <2>2, <2>3, <2>4, <2>5
       DEF Request, RestOK, indexVars, budgets
<1>4. CASE Claim(c)
  <2>1. /\ ValidState(st') /\ st'.requested = st.requested
        /\ Granted(st, st') \in Tokens \cup {NoClaim}
    BY <1>1, <1>2, <1>4, ClaimsAreValid DEF Claim, RoomForLaunch
  <2>2. QED
    BY <1>1, <1>4, <2>1 DEF Claim, RestOK, indexVars, workerVars, budgets
<1>5. CASE ClearClaim(c)
  <2>1. ValidState(st') /\ st'.requested = st.requested
    BY <1>1, <1>2, <1>5, TransactionsAreValid DEF ClearClaim
  <2>2. QED
    BY <1>1, <1>5, <2>1 DEF ClearClaim, RestOK, indexVars, workerVars, budgets
<1>6. CASE ReportLaunchFailure(c)
  <2>1. ValidState(st') /\ st'.requested = st.requested
    BY <1>1, <1>2, <1>6, TransactionsAreValid DEF ReportLaunchFailure
  <2>2. QED
    BY <1>1, <1>6, <2>1
       DEF ReportLaunchFailure, RestOK, indexVars, workerVars, budgets
<1>7. CASE Acknowledge(c)
  <2>1. ValidState(st') /\ st'.requested = st.requested
    BY <1>1, <1>2, <1>7, CompletionsAreValid DEF Acknowledge
  <2>2. QED
    BY <1>1, <1>7, <2>1 DEF Acknowledge, RestOK, indexVars, workerVars, budgets
<1>8. QED BY <1>3, <1>4, <1>5, <1>6, <1>7

LEMMA WorkerKeepsTypes ==
  ASSUME TypeOK, NEW t \in Tokens, WorkerStep(t)
  PROVE  TypeOK'
<1> USE TypeSplits, HoldersAreTyped DEF WorkerMoves, WorkerPCs
<1>1. ValidState(st) /\ RestOK /\ wtarget[t] \in Nat /\ st.requested \in Nat
  BY DEF ValidState, CoordinatorStates, RestOK
<1>2. CASE AwaitLock(t) \/ TryLock(t)
  BY <1>1, <1>2 DEF RestOK, AwaitLock, TryLock, indexVars, clientVars, budgets
<1>3. CASE CheckIndex(t)
  BY <1>1, <1>3 DEF RestOK, CheckIndex, indexVars, clientVars, budgets
<1>4. CASE Leave(t)
  BY <1>1, <1>4 DEF RestOK, Leave, indexVars, clientVars, budgets
<1>5. CASE LookForWork(t) \/ Debounce(t)
  BY <1>1, <1>5 DEF RestOK, LookForWork, Debounce, indexVars, clientVars, budgets
<1>6. CASE LockIndex(t)
  BY <1>1, <1>6 DEF RestOK, LockIndex, indexVars, clientVars, budgets
<1>7. CASE ScanSucceeds(t)
  BY <1>1, <1>7 DEF RestOK, ScanSucceeds, clientVars, budgets
<1>8. CASE ScanFails(t)
  BY <1>1, <1>8 DEF RestOK, ScanFails, indexVars, clientVars, budgets
<1>9. CASE AcknowledgeWorkerStart(t)
  <2>1. ValidState(st') /\ st'.requested = st.requested
    BY <1>1, <1>9, TransactionsAreValid DEF AcknowledgeWorkerStart
  <2>2. QED
    BY <1>1, <1>9, <2>1
       DEF AcknowledgeWorkerStart, RestOK, indexVars, clientVars, budgets
<1>10. CASE Finish(t)
  <2>1. ValidState(st') /\ st'.requested = st.requested
    BY <1>1, <1>10, EndingsAreValid DEF Finish
  <2>2. QED
    BY <1>1, <1>10, <2>1 DEF Finish, RestOK, indexVars, clientVars, budgets
<1>11. CASE RecordFailure(t)
  <2>1. ValidState(st') /\ st'.requested = st.requested
    BY <1>1, <1>11, EndingsAreValid DEF RecordFailure
  <2>2. QED
    BY <1>1, <1>11, <2>1 DEF RecordFailure, RestOK, indexVars, clientVars, budgets
<1>12. CASE Complete(t)
  <2>1. ValidState(st') /\ st'.requested = st.requested
    BY <1>1, <1>12, CompletionsAreValid DEF Complete
  <2>2. QED
    BY <1>1, <1>12, <2>1 DEF Complete, RestOK, indexVars, clientVars, budgets
<1>13. QED
  BY <1>2, <1>3, <1>4, <1>5, <1>6, <1>7, <1>8, <1>9, <1>10, <1>11, <1>12
     DEF WorkerStep

LEMMA EnvironmentKeepsTypes ==
  ASSUME TypeOK, Edit \/ ClaimAges \/ Crash
  PROVE  TypeOK'
<1> USE TypeSplits, HoldersAreTyped DEF WorkerPCs, ClientPCs
<1>1. ValidState(st) /\ RestOK
  OBVIOUS
<1>2. CASE Edit
  BY <1>1, <1>2 DEF RestOK, Edit, clientVars, workerVars, budgets
<1>3. CASE ClaimAges
  <2>1. ValidState(st') /\ st'.requested = st.requested
    BY <1>1, <1>3 DEF ClaimAges, ValidState, CoordinatorStates
  <2>2. QED
    BY <1>1, <1>3, <2>1 DEF RestOK, ClaimAges, indexVars, clientVars, workerVars,
                            budgets
<1>4. ASSUME NEW t \in Tokens, CrashWorker(t)
      PROVE  TypeOK'
  <2>1. cpc' \in [Clients -> ClientPCs]
    BY <1>1, <1>4 DEF RestOK, CrashWorker
  <2>2. wpc' \in [Tokens -> WorkerPCs]
    BY <1>1, <1>4 DEF RestOK, CrashWorker
  <2>3. workerLock' \in Holders /\ mutationLock' \in Holders
    BY <1>1, <1>4 DEF RestOK, CrashWorker, Dropped
  <2>4. crashes' \in Nat
    BY <1>1, <1>4 DEF RestOK, CrashWorker
  <2>5. QED
    BY <1>1, <1>4, <2>1, <2>2, <2>3, <2>4 DEF RestOK, CrashWorker, indexVars
<1>5. ASSUME NEW c \in Clients, CrashClient(c) \/ LauncherDies(c)
      PROVE  TypeOK'
  <2>1. cpc' \in [Clients -> ClientPCs]
    BY <1>1, <1>5 DEF RestOK, CrashClient, LauncherDies, MoveFrom
  <2>2. wpc' \in [Tokens -> WorkerPCs]
    BY <1>1, <1>5 DEF RestOK, CrashClient, LauncherDies
  <2>3. workerLock' \in Holders /\ mutationLock' \in Holders
    BY <1>1, <1>5 DEF RestOK, CrashClient, LauncherDies, Dropped
  <2>4. crashes' \in Nat
    BY <1>1, <1>5 DEF RestOK, CrashClient, LauncherDies
  <2>5. QED
    BY <1>1, <1>5, <2>1, <2>2, <2>3, <2>4
       DEF RestOK, CrashClient, LauncherDies, indexVars
<1>6. ASSUME NEW c \in Clients, CrashPublisher(c)
      PROVE  TypeOK'
  BY <1>1, <1>6 DEF RestOK, CrashPublisher, Publishes, MoveFrom, workerVars
<1>7. QED BY <1>2, <1>3, <1>4, <1>5, <1>6 DEF Crash

LEMMA InitialTypes == Init => TypeOK
BY DEF Init, TypeOK, CoordinatorStates, DefaultState, NoClaim, NoFailure,
       Holders, ClientPCs, WorkerPCs

\* Which lemma covers which step: the only client steps that touch the state
\* file are its transactions.
LEMMA StepKeepsTypes == TypeOK /\ [Next]_vars => TypeOK'
<1> SUFFICES ASSUME TypeOK, [Next]_vars PROVE TypeOK'
  OBVIOUS
<1>1. ASSUME NEW c \in Clients, Start(c) \/ ClientStep(c) \/ WaitTimesOut(c)
      PROVE  TypeOK'
  <2>1. CASE \/ Request(c) \/ Claim(c) \/ ClearClaim(c)
             \/ ReportLaunchFailure(c) \/ Acknowledge(c)
    BY <2>1, ClientTransactionsKeepTypes
  <2>2. ASSUME \/ StartUpdate(c) \/ StartRead(c) \/ StartRefresh(c) \/ Clear(c)
               \/ ProbeLocks(c) \/ ProbeEnds(c) \/ LaunchSucceeds(c)
               \/ LaunchFails(c) \/ SnapshotRequested(c) \/ LeadReturns(c)
               \/ WaitIsOver(c) \/ WaitSuspectsFailure(c) \/ BailOrPollAgain(c)
               \/ WaitTimesOut(c) \/ LockRefresh(c) \/ RefreshSucceeds(c)
               \/ RefreshFailsLate(c)
               \/ RefreshFails(c)
        PROVE  TypeOK'
    <3>1. UNCHANGED st
      BY <2>2 DEF StartUpdate, StartRead, StartRefresh, Clear, ProbeLocks,
                  ProbeEnds, LaunchSucceeds, LaunchFails, SnapshotRequested,
                  LeadReturns, WaitIsOver, WaitSuspectsFailure,
                  BailOrPollAgain, WaitTimesOut, LockRefresh, RefreshSucceeds,
                  RefreshFailsLate,
                  RefreshFails
    <3>2. QED BY <2>2, <3>1, ClientKeepsTypes
  <2>3. QED BY <1>1, <2>1, <2>2 DEF Start, ClientStep
<1>2. ASSUME NEW t \in Tokens, WorkerStep(t)
      PROVE  TypeOK'
  BY <1>2, WorkerKeepsTypes
<1>3. CASE Edit \/ ClaimAges \/ Crash
  BY <1>3, EnvironmentKeepsTypes
<1>4. CASE UNCHANGED vars
  BY <1>4 DEF TypeOK, vars, indexVars, clientVars, workerVars, budgets
<1>5. QED BY <1>1, <1>2, <1>3, <1>4 DEF Next, AllEnded

\* Every reachable state is typed; in particular the coordinator never writes
\* a state file that read_update_state_file would refuse.
THEOREM TypeCorrect == Spec => []TypeOK
BY InitialTypes, StepKeepsTypes, PTL DEF Spec

(***************************************************************************)
(* Locks.                                                                  *)
(***************************************************************************)
LEMMA HoldersDiffer ==
  /\ \A c, d \in Clients : Client(c) = Client(d) => c = d
  /\ \A t, u \in Tokens : Worker(t) = Worker(u) => t = u
  /\ \A c \in Clients, t \in Tokens : Client(c) # Worker(t)
  /\ \A c \in Clients : Client(c) # Free
  /\ \A t \in Tokens : Worker(t) # Free
BY DEF Client, Worker, Free

LocksAreHeld == WorkerLockIsHeld /\ MutationLockIsHeld

LEMMA ClientKeepsLocks ==
  ASSUME TypeOK, LocksAreHeld, NEW c \in Clients,
         Start(c) \/ ClientStep(c) \/ WaitTimesOut(c)
  PROVE  LocksAreHeld'
<1> USE HoldersDiffer DEF TypeOK, LocksAreHeld, WorkerLockIsHeld,
                          MutationLockIsHeld, ServingPCs, MoveFrom
<1>1. CASE Start(c)
  BY <1>1 DEF Start, StartUpdate, StartRead, StartRefresh, Clear, workerVars
<1>2. CASE ProbeLocks(c) \/ ProbeEnds(c)
  BY <1>2 DEF ProbeLocks, ProbeEnds, clientVars, workerVars, ProbePCs, AfterProbe
<1>3. CASE Request(c) \/ LaunchSucceeds(c)
  BY <1>3 DEF Request, LaunchSucceeds
<1>4. CASE Claim(c) \/ LaunchFails(c) \/ ClearClaim(c) \/ SnapshotRequested(c)
           \/ ReportLaunchFailure(c) \/ LeadReturns(c)
  BY <1>4 DEF Claim, LaunchFails, ClearClaim, SnapshotRequested,
              ReportLaunchFailure, LeadReturns, workerVars
<1>5. CASE WaitIsOver(c) \/ WaitSuspectsFailure(c) \/ BailOrPollAgain(c)
           \/ WaitTimesOut(c) \/ Acknowledge(c)
  BY <1>5 DEF WaitIsOver, WaitSuspectsFailure, BailOrPollAgain, WaitTimesOut,
              Acknowledge, workerVars
<1>6. CASE LockRefresh(c)
  BY <1>6 DEF LockRefresh, workerVars
<1>7. CASE RefreshSucceeds(c) \/ RefreshFails(c) \/ RefreshFailsLate(c)
  <2>1. mutationLock = Client(c)
    BY <1>7 DEF RefreshSucceeds, RefreshFails, RefreshFailsLate
  <2>2. /\ \A t \in Tokens : wpc[t] # "scan"
        /\ \A d \in Clients : cpc[d] = "refresh" => d = c
    BY <2>1
  <2>3. /\ cpc' = [cpc EXCEPT ![c] = cpc'[c]] /\ cpc'[c] # "refresh"
        /\ UNCHANGED <<workerLock, wpc>>
    BY <1>7 DEF RefreshSucceeds, RefreshFails, RefreshFailsLate, workerVars
  <2>4. WorkerLockIsHeld'
    BY <2>3
  <2>5. MutationLockIsHeld'
    BY <2>2, <2>3
  <2>6. QED BY <2>4, <2>5
<1>8. QED BY <1>1, <1>2, <1>3, <1>4, <1>5, <1>6, <1>7 DEF ClientStep

LEMMA WorkerKeepsLocks ==
  ASSUME TypeOK, LocksAreHeld, NEW t \in Tokens, WorkerStep(t)
  PROVE  LocksAreHeld'
<1> USE HoldersDiffer DEF TypeOK, LocksAreHeld, WorkerLockIsHeld,
                          MutationLockIsHeld, ServingPCs, WorkerMoves
<1>1. CASE AwaitLock(t) \/ TryLock(t)
  BY <1>1 DEF AwaitLock, TryLock, clientVars
<1>2. CASE AcknowledgeWorkerStart(t) \/ Finish(t) \/ CheckIndex(t)
  BY <1>2 DEF AcknowledgeWorkerStart, Finish, CheckIndex, clientVars
<1>3. CASE LookForWork(t) \/ Debounce(t)
  BY <1>3 DEF LookForWork, Debounce, clientVars
<1>4. CASE LockIndex(t)
  BY <1>4 DEF LockIndex, clientVars
<1>5. CASE ScanSucceeds(t) \/ ScanFails(t)
  BY <1>5 DEF ScanSucceeds, ScanFails, clientVars
<1>6. CASE Complete(t) \/ RecordFailure(t) \/ Leave(t)
  BY <1>6 DEF Complete, RecordFailure, Leave, clientVars
<1>7. QED BY <1>1, <1>2, <1>3, <1>4, <1>5, <1>6 DEF WorkerStep

LEMMA EnvironmentKeepsLocks ==
  ASSUME TypeOK, LocksAreHeld, Edit \/ ClaimAges \/ Crash
  PROVE  LocksAreHeld'
<1> USE HoldersDiffer DEF TypeOK, LocksAreHeld, WorkerLockIsHeld,
                          MutationLockIsHeld, ServingPCs
<1>1. CASE Edit \/ ClaimAges
  BY <1>1 DEF Edit, ClaimAges, clientVars, workerVars
<1>2. ASSUME NEW t \in Tokens, CrashWorker(t) PROVE LocksAreHeld'
  BY <1>2 DEF CrashWorker, Dropped
<1>3. ASSUME NEW c \in Clients, CrashClient(c) PROVE LocksAreHeld'
  BY <1>3 DEF CrashClient, Dropped
<1>4. ASSUME NEW c \in Clients, LauncherDies(c) PROVE LocksAreHeld'
  BY <1>4 DEF LauncherDies, MoveFrom
<1>5. ASSUME NEW c \in Clients, CrashPublisher(c) PROVE LocksAreHeld'
  <2>1. mutationLock = Client(c)
    BY <1>5 DEF CrashPublisher, MoveFrom
  <2>2. /\ \A t \in Tokens : wpc[t] # "scan"
        /\ \A d \in Clients : cpc[d] = "refresh" => d = c
    BY <2>1
  <2>3. /\ cpc' = [cpc EXCEPT ![c] = "dead"]
        /\ UNCHANGED <<workerLock, wpc>>
    BY <1>5 DEF CrashPublisher, MoveFrom, workerVars
  <2>4. QED BY <2>2, <2>3
<1>6. QED BY <1>1, <1>2, <1>3, <1>4, <1>5 DEF Crash

LEMMA StepKeepsLocks == TypeOK /\ LocksAreHeld /\ [Next]_vars => LocksAreHeld'
<1>1. TypeOK /\ LocksAreHeld /\ UNCHANGED vars => LocksAreHeld'
  BY DEF LocksAreHeld, WorkerLockIsHeld, MutationLockIsHeld, vars, clientVars,
         workerVars
<1>2. QED
  BY <1>1, ClientKeepsLocks, WorkerKeepsLocks, EnvironmentKeepsLocks
     DEF Next, AllEnded

LEMMA InitialLocks == Init => LocksAreHeld
BY DEF Init, LocksAreHeld, WorkerLockIsHeld, MutationLockIsHeld, ServingPCs

\* One worker loop at a time, and no scan beside a rebuild or a restore,
\* however claims are superseded and processes killed.
THEOREM Exclusion == Spec => []ScansAreExclusive
<1>1. LocksAreHeld => ScansAreExclusive
  BY HoldersDiffer DEF LocksAreHeld, WorkerLockIsHeld, MutationLockIsHeld,
                       ScansAreExclusive
<1>2. QED
  BY <1>1, TypeCorrect, InitialLocks, StepKeepsLocks, PTL DEF Spec

(***************************************************************************)
(* No edit is lost.                                                        *)
(***************************************************************************)
\* A quiet step changes nothing that IndexCoversCredited and ScanCoversBoth
\* are about: nobody starts or publishes a scan, nothing new is credited.
Quiet ==
  /\ edits' >= edits /\ UNCHANGED <<index, asOf>> /\ (exists' => exists)
  /\ st'.completed = st.completed /\ st'.requested = st.requested
  /\ mutationLock' # Free => mutationLock # Free /\ scan' = scan
  /\ \A t \in Tokens :
       /\ wpc'[t] = "complete" => wpc[t] = "complete" /\ wtarget'[t] = wtarget[t]
       /\ wpc'[t] = "scan" => wpc[t] = "scan" /\ wtarget'[t] = wtarget[t]
       /\ wtarget'[t] \in {0, wtarget[t], st.requested}
  /\ \A c \in Clients :
       /\ cpc'[c] = "acknowledge" => cpc[c] = "acknowledge" /\ cgen'[c] = cgen[c]
       /\ cpc'[c] = "refresh" => cpc[c] = "refresh" /\ cgen'[c] = cgen[c]
       /\ cpc'[c] = "lockRefresh" =>
            \/ cpc[c] = "lockRefresh" /\ cmd'[c] = cmd[c]
            \/ cmd'[c] \in Commands \cap RefreshKinds
       /\ cgen'[c] \in {cgen[c], st.requested}

LEMMA QuietStepKeepsIndexInv ==
  ASSUME TypeOK, TypeOK', IndexInv, LocksAreHeld', Quiet
  PROVE  IndexInv'
<1>1. /\ edits \in Nat /\ edits' \in Nat /\ index \in Nat /\ scan \in Nat
      /\ \A g \in 1..Len(asOf) : asOf[g] \in Nat
  BY DEF TypeOK
<1>2. RefreshesAreKnown'
  BY DEF IndexInv, RefreshesAreKnown, Quiet
<1>3. QueueIsOrdered'
  <2>1. \A g \in 1..Len(asOf') : asOf'[g] <= edits'
    BY <1>1 DEF IndexInv, QueueIsOrdered, Quiet
  <2>2. st.requested \in Nat
    BY DEF TypeOK, CoordinatorStates
  <2>3. \A t \in Tokens : wtarget'[t] <= st'.requested
    BY <2>2 DEF IndexInv, QueueIsOrdered, Quiet
  <2>4. \A c \in Clients : cgen'[c] <= st'.requested
    BY <2>2 DEF IndexInv, QueueIsOrdered, Quiet
  <2>5. QED BY <2>1, <2>3, <2>4 DEF QueueIsOrdered
<1>4. \A g : Credited(g)' => Credited(g)
  BY DEF Credited, Quiet
<1>5. \A g : BeingBuilt(g)' => BeingBuilt(g)
  BY DEF BeingBuilt, Quiet
<1>6. IndexCoversCredited'
  BY <1>1, <1>4 DEF IndexInv, IndexCoversCredited, Quiet
<1>7. ScanCoversBoth'
  BY <1>1, <1>4, <1>5 DEF IndexInv, ScanCoversBoth, Quiet
<1>8. QED BY <1>2, <1>3, <1>6, <1>7 DEF IndexInv, LocksAreHeld

\* The steps of a client that are quiet.
LEMMA QuietClientSteps ==
  ASSUME TypeOK, NEW c \in Clients,
         \/ Start(c) \/ ProbeLocks(c) \/ ProbeEnds(c) \/ Claim(c)
         \/ LaunchSucceeds(c) \/ LaunchFails(c) \/ ClearClaim(c)
         \/ SnapshotRequested(c) \/ ReportLaunchFailure(c) \/ LeadReturns(c)
         \/ WaitIsOver(c) \/ WaitSuspectsFailure(c) \/ BailOrPollAgain(c)
         \/ WaitTimesOut(c) \/ RefreshFails(c)
  PROVE  Quiet
<1> USE HoldersDiffer DEF TypeOK, Quiet, MoveFrom
<1>1. edits \in Int /\ ValidState(st)
  BY TypeSplits
<1>2. CASE Start(c)
  BY <1>1, <1>2 DEF Start, StartUpdate, StartRead, StartRefresh, Clear, indexVars,
                    workerVars
<1>3. CASE ProbeLocks(c) \/ ProbeEnds(c)
  BY <1>1, <1>3 DEF ProbeLocks, ProbeEnds, indexVars, clientVars, workerVars, ProbePCs,
                    AfterProbe
<1>4. CASE Claim(c)
  <2>1. cactive[c] \in BOOLEAN
    OBVIOUS
  <2>2. st'.requested = st.requested /\ st'.completed = st.completed
    BY <1>1, <1>4, <2>1, ClaimsAreValid DEF Claim, RoomForLaunch
  <2>3. QED BY <1>1, <1>4, <2>2 DEF Claim, indexVars, workerVars
<1>5. CASE LaunchSucceeds(c) \/ LaunchFails(c)
  BY <1>1, <1>5 DEF LaunchSucceeds, LaunchFails, indexVars, workerVars
<1>6. CASE ClearClaim(c) \/ ReportLaunchFailure(c)
  <2>1. /\ ctoken[c] \in Tokens \cup {NoClaim} /\ cgen[c] \in Nat
        /\ TRUE \in BOOLEAN
    OBVIOUS
  <2>2. st'.requested = st.requested /\ st'.completed = st.completed
    BY <1>1, <1>6, <2>1, TransactionsAreValid DEF ClearClaim, ReportLaunchFailure
  <2>3. QED BY <1>1, <1>6, <2>2 DEF ClearClaim, ReportLaunchFailure, indexVars, workerVars
<1>7. CASE SnapshotRequested(c) \/ LeadReturns(c) \/ WaitIsOver(c)
           \/ WaitSuspectsFailure(c) \/ BailOrPollAgain(c) \/ WaitTimesOut(c)
  BY <1>1, <1>7 DEF SnapshotRequested, LeadReturns, WaitIsOver, WaitSuspectsFailure,
                    BailOrPollAgain, WaitTimesOut, indexVars, workerVars
<1>8. CASE RefreshFails(c)
  BY <1>1, <1>8 DEF RefreshFails, indexVars, workerVars
<1>9. QED BY <1>2, <1>3, <1>4, <1>5, <1>6, <1>7, <1>8

\* The steps of a worker that are quiet.
LEMMA QuietWorkerSteps ==
  ASSUME TypeOK, NEW t \in Tokens,
         \/ AwaitLock(t) \/ TryLock(t) \/ AcknowledgeWorkerStart(t) \/ LookForWork(t)
         \/ Debounce(t) \/ Finish(t) \/ CheckIndex(t) \/ ScanFails(t)
         \/ RecordFailure(t) \/ Leave(t)
  PROVE  Quiet
<1> USE HoldersDiffer DEF TypeOK, Quiet, WorkerMoves
<1>1. edits \in Int /\ ValidState(st) /\ wtarget[t] \in Nat
  BY TypeSplits
<1>2. CASE AwaitLock(t) \/ TryLock(t)
  BY <1>1, <1>2 DEF AwaitLock, TryLock, indexVars, clientVars
<1>3. CASE AcknowledgeWorkerStart(t)
  <2>1. st'.requested = st.requested /\ st'.completed = st.completed
    BY <1>1, <1>3, TransactionsAreValid DEF AcknowledgeWorkerStart
  <2>2. QED BY <1>1, <1>3, <2>1 DEF AcknowledgeWorkerStart, indexVars, clientVars
<1>4. CASE LookForWork(t) \/ Debounce(t)
  BY <1>1, <1>4 DEF LookForWork, Debounce, indexVars, clientVars
<1>5. CASE Finish(t) \/ RecordFailure(t)
  <2>1. st'.requested = st.requested /\ st'.completed = st.completed
    BY <1>1, <1>5, EndingsAreValid DEF Finish, RecordFailure
  <2>2. QED BY <1>1, <1>5, <2>1 DEF Finish, RecordFailure, indexVars, clientVars
<1>6. CASE CheckIndex(t)
  BY <1>1, <1>6 DEF CheckIndex, indexVars, clientVars
<1>7. CASE ScanFails(t) \/ Leave(t)
  BY <1>1, <1>7 DEF ScanFails, Leave, indexVars, clientVars
<1>8. QED BY <1>2, <1>3, <1>4, <1>5, <1>6, <1>7

LEMMA QuietEnvironmentSteps ==
  ASSUME TypeOK,
         \/ Edit \/ ClaimAges
         \/ Crash /\ \A c \in Clients : ~CrashPublisher(c)
  PROVE  Quiet
<1> USE DEF TypeOK, Quiet
<1>1. edits \in Int /\ ValidState(st)
  BY TypeSplits
<1>2. CASE Edit
  BY <1>1, <1>2 DEF Edit, indexVars, clientVars, workerVars
<1>3. CASE ClaimAges
  <2>1. st'.completed = st.completed /\ st'.requested = st.requested
    BY <1>1, <1>3 DEF ClaimAges, ValidState, CoordinatorStates
  <2>2. QED BY <1>1, <1>3, <2>1 DEF ClaimAges, indexVars, clientVars, workerVars
<1>4. ASSUME NEW t \in Tokens, CrashWorker(t) PROVE Quiet
  BY <1>1, <1>4 DEF CrashWorker, Dropped, indexVars
<1>5. ASSUME NEW c \in Clients, CrashClient(c) PROVE Quiet
  BY <1>1, <1>5 DEF CrashClient, Dropped, indexVars
<1>6. ASSUME NEW c \in Clients, LauncherDies(c) PROVE Quiet
  BY <1>1, <1>6 DEF LauncherDies, MoveFrom, indexVars
<1>7. QED BY <1>2, <1>3, <1>4, <1>5, <1>6 DEF Crash

\* A new generation is queued as of the newest edit and credited to nobody:
\* every worker and client acts for an older one.
LEMMA RequestKeepsIndexInv ==
  ASSUME TypeOK, TypeOK', IndexInv, LocksAreHeld', NEW c \in Clients, Request(c)
  PROVE  IndexInv'
<1>1. ValidState(st) /\ cactive[c] \in BOOLEAN
  BY TypeSplits DEF TypeOK
<1>2. st'.requested = st.requested + 1 /\ st'.completed = st.completed
  BY <1>1, ClaimsAreValid DEF Request, RoomForLaunch
<1>3. /\ edits \in Nat /\ index \in Nat /\ scan \in Nat /\ asOf \in Seq(Nat)
      /\ Len(asOf) = st.requested /\ st.requested \in Nat /\ st.completed \in Nat
      /\ st.completed <= st.requested
      /\ wtarget \in [Tokens -> Nat] /\ cgen \in [Clients -> Nat]
  BY DEF TypeOK, CoordinatorStates
<1>4. /\ asOf' = Append(asOf, edits) /\ Len(asOf') = st.requested + 1
      /\ \A g \in 1..Len(asOf') :
           \/ g \in 1..Len(asOf) /\ asOf'[g] = asOf[g]
           \/ g = st.requested + 1 /\ asOf'[g] = edits
  BY <1>3 DEF Request
<1>5. /\ UNCHANGED <<edits, exists, index, mutationLock, scan, wtarget, cmd>>
      /\ cgen' = [cgen EXCEPT ![c] = st'.requested]
      /\ \A t \in Tokens : wpc'[t] \in {wpc[t], "await"}
      /\ \A d \in Clients : \/ cpc'[d] = cpc[d] /\ d # c
                            \/ cpc'[d] \in {"lead", "wait", "ok", "launch"}
  BY DEF Request, indexVars, TypeOK
<1>6. RefreshesAreKnown'
  BY <1>5 DEF IndexInv, RefreshesAreKnown
<1>7. QueueIsOrdered'
  BY <1>2, <1>3, <1>4, <1>5 DEF IndexInv, QueueIsOrdered
<1>8. \A g : Credited(g)' => Credited(g)
  BY <1>2, <1>5 DEF Credited
<1>9. \A g : BeingBuilt(g)' => BeingBuilt(g)
  BY <1>5 DEF BeingBuilt
<1>10. ~Credited(st.requested + 1) /\ ~BeingBuilt(st.requested + 1)
  BY <1>3 DEF Credited, BeingBuilt, IndexInv, QueueIsOrdered
<1>11. IndexCoversCredited'
  BY <1>3, <1>4, <1>5, <1>8, <1>10 DEF IndexInv, IndexCoversCredited
<1>12. ScanCoversBoth'
  BY <1>3, <1>4, <1>5, <1>8, <1>9, <1>10 DEF IndexInv, ScanCoversBoth
<1>13. QED BY <1>6, <1>7, <1>11, <1>12 DEF IndexInv, LocksAreHeld

\* A scan that starts now sees every edit, hence every queued generation.
LEMMA StartOfScanKeepsIndexInv ==
  ASSUME OnlyScanningRefreshes, TypeOK, TypeOK', IndexInv, LocksAreHeld',
         \/ \E c \in Clients : LockRefresh(c)
         \/ \E t \in Tokens : LockIndex(t)
  PROVE  IndexInv'
<1>1. /\ edits \in Nat /\ index \in Nat /\ asOf \in Seq(Nat)
      /\ Len(asOf) = st.requested /\ st.requested \in Nat
      /\ wtarget \in [Tokens -> Nat] /\ cgen \in [Clients -> Nat]
  BY DEF TypeOK, CoordinatorStates
<1>2. UNCHANGED <<edits, exists, index, asOf, st, wtarget, cgen, cmd>>
  BY DEF LockRefresh, LockIndex, indexVars, clientVars, workerVars
<1>3. mutationLock' # Free => \/ scan' = edits
                              \/ mutationLock # Free /\ UNCHANGED <<mutationLock, scan>>
  <2>1. ASSUME NEW c \in Clients, LockRefresh(c), mutationLock = Free
        PROVE  scan' = edits
    <3>1. cmd[c] \in Commands \cap RefreshKinds
      BY <2>1 DEF LockRefresh, MoveFrom, IndexInv, RefreshesAreKnown
    <3>2. cmd[c] = "rebuild"
      BY <3>1 DEF OnlyScanningRefreshes
    <3>3. QED BY <2>1, <3>2 DEF LockRefresh, RefreshVersions
  <2>2. ASSUME NEW c \in Clients, LockRefresh(c), mutationLock # Free
        PROVE  UNCHANGED <<mutationLock, scan>>
    BY <2>2 DEF LockRefresh
  <2>3. ASSUME NEW t \in Tokens, LockIndex(t)
        PROVE  scan' = edits \/ UNCHANGED <<mutationLock, scan>>
    BY <2>3 DEF LockIndex
  <2>4. QED BY <2>1, <2>2, <2>3
<1>4. /\ \A t \in Tokens : wpc'[t] = "complete" => wpc[t] = "complete"
      /\ \A c \in Clients : cpc'[c] = "acknowledge" => cpc[c] = "acknowledge"
      /\ \A c \in Clients : cpc'[c] = "lockRefresh" => cpc[c] = "lockRefresh"
  BY DEF LockRefresh, LockIndex, MoveFrom, WorkerMoves, TypeOK, clientVars, workerVars
<1>5. mutationLock # Free /\ UNCHANGED <<mutationLock, scan>> =>
        /\ \A t \in Tokens : wpc'[t] = "scan" => wpc[t] = "scan"
        /\ \A c \in Clients : cpc'[c] = "refresh" => cpc[c] = "refresh"
  BY DEF LockRefresh, LockIndex, MoveFrom, WorkerMoves, TypeOK, clientVars, workerVars
<1>6. RefreshesAreKnown'
  BY <1>2, <1>4 DEF IndexInv, RefreshesAreKnown
<1>7. QueueIsOrdered'
  BY <1>2 DEF IndexInv, QueueIsOrdered
<1>8. \A g : Credited(g)' => Credited(g)
  BY <1>2, <1>4 DEF Credited
<1>9. IndexCoversCredited'
  BY <1>2, <1>8 DEF IndexInv, IndexCoversCredited
<1>10. ScanCoversBoth'
  <2>1. CASE scan' = edits
    BY <1>1, <1>2, <2>1 DEF IndexInv, ScanCoversBoth, IndexCoversCredited,
                            QueueIsOrdered
  <2>2. CASE mutationLock # Free /\ UNCHANGED <<mutationLock, scan>>
    <3>1. \A g : BeingBuilt(g)' => BeingBuilt(g)
      BY <1>2, <1>5, <2>2 DEF BeingBuilt
    <3>2. QED BY <1>2, <1>8, <2>2, <3>1 DEF IndexInv, ScanCoversBoth
  <2>3. QED BY <1>3, <2>1, <2>2 DEF ScanCoversBoth
<1>11. QED BY <1>6, <1>7, <1>9, <1>10 DEF IndexInv, LocksAreHeld

\* A published scan covers what was credited and what it was built for; the
\* mutation lock is free afterwards.
LEMMA EndOfScanKeepsIndexInv ==
  ASSUME OnlyScanningRefreshes, TypeOK, TypeOK', IndexInv, LocksAreHeld',
         \/ \E c \in Clients : RefreshSucceeds(c) \/ RefreshFailsLate(c)
                               \/ CrashPublisher(c)
         \/ \E t \in Tokens : ScanSucceeds(t)
  PROVE  IndexInv'
<1>1. /\ edits \in Nat /\ index \in Nat /\ scan \in Nat /\ asOf \in Seq(Nat)
  BY DEF TypeOK
<1>2. /\ mutationLock # Free /\ mutationLock' = Free
      /\ UNCHANGED <<edits, asOf, st, wtarget, cgen, cmd>>
  BY HoldersDiffer DEF RefreshSucceeds, RefreshFailsLate, CrashPublisher,
     Publishes, ScanSucceeds, MoveFrom, WorkerMoves,
     IndexInv, MutationLockIsHeld, clientVars, workerVars
<1>3. exists' => index' = scan
  BY DEF RefreshSucceeds, RefreshFailsLate, CrashPublisher, Publishes, ScanSucceeds
<1>4. index' \in {scan, index}
  BY DEF RefreshSucceeds, RefreshFailsLate, CrashPublisher, Publishes, ScanSucceeds
<1>5. \A g : Credited(g)' => Credited(g) \/ BeingBuilt(g)
  <2>1. ASSUME NEW c \in Clients, NEW g, Credited(g)',
               RefreshSucceeds(c) \/ RefreshFailsLate(c) \/ CrashPublisher(c)
        PROVE  Credited(g) \/ BeingBuilt(g)
    BY <1>2, <2>1 DEF RefreshSucceeds, RefreshFailsLate, CrashPublisher,
                      MoveFrom, Credited, BeingBuilt, TypeOK,
                      workerVars
  <2>2. ASSUME NEW t \in Tokens, ScanSucceeds(t), NEW g, Credited(g)'
        PROVE  Credited(g) \/ BeingBuilt(g)
    BY <1>2, <2>2 DEF ScanSucceeds, WorkerMoves, Credited, BeingBuilt, TypeOK,
                      clientVars
  <2>3. QED BY <2>1, <2>2
<1>6. RefreshesAreKnown'
  BY <1>2 DEF IndexInv, RefreshesAreKnown, RefreshSucceeds, RefreshFailsLate,
              CrashPublisher, ScanSucceeds, MoveFrom,
              TypeOK, clientVars
<1>7. QueueIsOrdered'
  BY <1>2 DEF IndexInv, QueueIsOrdered
<1>8. IndexCoversCredited'
  BY <1>1, <1>2, <1>3, <1>4, <1>5 DEF IndexInv, IndexCoversCredited, ScanCoversBoth
<1>9. ScanCoversBoth'
  BY <1>2 DEF ScanCoversBoth
<1>10. QED BY <1>6, <1>7, <1>8, <1>9 DEF IndexInv, LocksAreHeld

\* Writing a completion down credits nothing that was not credited before.
LEMMA CompletionKeepsIndexInv ==
  ASSUME TypeOK, TypeOK', IndexInv, LocksAreHeld',
         \/ \E c \in Clients : Acknowledge(c)
         \/ \E t \in Tokens : Complete(t)
  PROVE  IndexInv'
<1>1. UNCHANGED <<edits, exists, index, asOf, mutationLock, scan, wtarget, cgen, cmd>>
  BY DEF Acknowledge, Complete, indexVars, clientVars, workerVars
<1> DEFINE CreditsNothing ==
             /\ st'.requested = st.requested
             /\ \A g \in Nat : Credited(g)' => Credited(g)
           StartsNothing ==
             /\ \A t \in Tokens : wpc'[t] = "scan" => wpc[t] = "scan"
             /\ \A c \in Clients : /\ cpc'[c] = "refresh" => cpc[c] = "refresh"
                                   /\ cpc'[c] = "lockRefresh" => cpc[c] = "lockRefresh"
<1>2. CreditsNothing /\ StartsNothing
  <2>1. ValidState(st) /\ ValidState(st') /\ st.completed \in Nat /\ st'.completed \in Nat
    BY TypeSplits DEF TypeOK, CoordinatorStates
  <2>2. ASSUME NEW c \in Clients, Acknowledge(c)
        PROVE  CreditsNothing /\ StartsNothing
    <3>1. cpc[c] = "acknowledge" /\ cgen[c] \in Nat
      BY <2>2 DEF Acknowledge, MoveFrom, TypeOK
    <3>2. /\ st'.requested = st.requested
          /\ st'.completed <= st.completed \/ st'.completed <= cgen[c]
      BY <2>1, <2>2, <3>1, AdvanceIsBounded, CompletionsAreValid DEF Acknowledge
    <3>3. wpc' = wpc /\ cpc' = [cpc EXCEPT ![c] = "probeClaim"] /\ UNCHANGED <<wtarget, cgen>>
      BY <2>2 DEF Acknowledge, MoveFrom, workerVars
    <3>4. \A g \in Nat : Credited(g)' => Credited(g)
      BY <2>1, <3>1, <3>2, <3>3 DEF Credited, TypeOK
    <3>5. QED BY <3>2, <3>3, <3>4 DEF TypeOK
  <2>3. ASSUME NEW t \in Tokens, Complete(t)
        PROVE  CreditsNothing /\ StartsNothing
    <3>1. wpc[t] = "complete" /\ wtarget[t] \in Nat
      BY <2>3 DEF Complete, WorkerMoves, TypeOK
    <3>2. /\ st'.requested = st.requested
          /\ st'.completed <= st.completed \/ st'.completed <= wtarget[t]
      BY <2>1, <2>3, <3>1, AdvanceIsBounded, CompletionsAreValid DEF Complete
    <3>3. wpc' = [wpc EXCEPT ![t] = "look"] /\ cpc' = cpc /\ UNCHANGED <<wtarget, cgen>>
      BY <2>3 DEF Complete, WorkerMoves, clientVars
    <3>4. \A g \in Nat : Credited(g)' => Credited(g)
      BY <2>1, <3>1, <3>2, <3>3 DEF Credited, TypeOK
    <3>5. QED BY <3>2, <3>3, <3>4 DEF TypeOK
  <2>4. QED BY <2>1, <2>2, <2>3
<1>3. RefreshesAreKnown'
  BY <1>1, <1>2 DEF IndexInv, RefreshesAreKnown
<1>4. QueueIsOrdered'
  BY <1>1, <1>2 DEF IndexInv, QueueIsOrdered
<1>5. \A g \in Nat : BeingBuilt(g)' => BeingBuilt(g)
  BY <1>1, <1>2 DEF BeingBuilt
<1>6. Len(asOf) \in Nat /\ \A g \in 1..Len(asOf) : g \in Nat
  BY DEF TypeOK
<1>7. IndexCoversCredited'
  BY <1>1, <1>2, <1>6 DEF IndexInv, IndexCoversCredited
<1>8. ScanCoversBoth'
  BY <1>1, <1>2, <1>5, <1>6 DEF IndexInv, ScanCoversBoth
<1>9. QED BY <1>3, <1>4, <1>7, <1>8 DEF IndexInv, LocksAreHeld

LEMMA InitialIndexInv == Init => IndexInv
<1> SUFFICES ASSUME Init PROVE IndexInv
  OBVIOUS
<1>1. /\ LocksAreHeld /\ TypeOK /\ Len(asOf) = 0 /\ mutationLock = Free
      /\ index = 0 /\ edits = 0
  BY InitialLocks, InitialTypes DEF Init
<1>2. RefreshesAreKnown /\ QueueIsOrdered /\ IndexCoversCredited /\ ScanCoversBoth
  BY <1>1 DEF Init, RefreshesAreKnown, QueueIsOrdered, IndexCoversCredited,
              ScanCoversBoth, DefaultState
<1>3. QED BY <1>1, <1>2 DEF IndexInv, LocksAreHeld

LEMMA StepKeepsIndexInv ==
  ASSUME OnlyScanningRefreshes
  PROVE  TypeOK /\ TypeOK' /\ IndexInv /\ [Next]_vars => IndexInv'
<1> SUFFICES ASSUME TypeOK, TypeOK', IndexInv, [Next]_vars PROVE IndexInv'
  OBVIOUS
<1>1. LocksAreHeld'
  BY StepKeepsLocks DEF IndexInv, LocksAreHeld
<1>2. ASSUME NEW c \in Clients, Start(c) \/ ClientStep(c) \/ WaitTimesOut(c)
      PROVE  IndexInv'
  <2>1. CASE Request(c)
    BY <1>1, <2>1, RequestKeepsIndexInv
  <2>2. CASE LockRefresh(c)
    BY <1>1, <2>2, StartOfScanKeepsIndexInv
  <2>3. CASE RefreshSucceeds(c) \/ RefreshFailsLate(c)
    BY <1>1, <2>3, EndOfScanKeepsIndexInv
  <2>4. CASE Acknowledge(c)
    BY <1>1, <2>4, CompletionKeepsIndexInv
  <2>5. QED
    BY <1>1, <1>2, <2>1, <2>2, <2>3, <2>4, QuietClientSteps, QuietStepKeepsIndexInv
       DEF ClientStep
<1>3. ASSUME NEW t \in Tokens, WorkerStep(t)
      PROVE  IndexInv'
  <2>1. CASE LockIndex(t)
    BY <1>1, <2>1, StartOfScanKeepsIndexInv
  <2>2. CASE ScanSucceeds(t)
    BY <1>1, <2>2, EndOfScanKeepsIndexInv
  <2>3. CASE Complete(t)
    BY <1>1, <2>3, CompletionKeepsIndexInv
  <2>4. QED
    BY <1>1, <1>3, <2>1, <2>2, <2>3, QuietWorkerSteps, QuietStepKeepsIndexInv
       DEF WorkerStep
<1>4. CASE Edit \/ ClaimAges \/ Crash
  <2>1. CASE \E c \in Clients : CrashPublisher(c)
    BY <1>1, <2>1, EndOfScanKeepsIndexInv
  <2>2. CASE \A c \in Clients : ~CrashPublisher(c)
    BY <1>1, <1>4, <2>2, QuietEnvironmentSteps, QuietStepKeepsIndexInv
  <2>3. QED BY <2>1, <2>2
<1>5. CASE UNCHANGED vars
  <2>1. Quiet
    BY <1>5 DEF Quiet, TypeOK, vars, indexVars, clientVars, workerVars
  <2>2. QED BY <1>1, <2>1, QuietStepKeepsIndexInv
<1>6. QED BY <1>2, <1>3, <1>4, <1>5 DEF Next, AllEnded

\* The inductive invariant holds for every number of processes when every
\* refresh in use scans the source.
THEOREM IndexInvariant ==
  ASSUME OnlyScanningRefreshes
  PROVE  Spec => []IndexInv
<1>1. TypeOK /\ TypeOK' /\ IndexInv /\ [Next]_vars => IndexInv'
  BY StepKeepsIndexInv
<1>2. QED BY <1>1, TypeCorrect, InitialIndexInv, PTL DEF Spec

\* A completed generation is in the index: no edit is lost, whatever updates,
\* rebuilds, clears, crashes and failed launches overlap.
THEOREM NoEditIsLost ==
  ASSUME OnlyScanningRefreshes
  PROVE  Spec => []CompletedMeansIndexed
<1>1. TypeOK /\ IndexInv => CompletedMeansIndexed
  BY DEF TypeOK, CoordinatorStates, IndexInv, IndexCoversCredited, Credited,
         CompletedMeansIndexed
<1>2. QED BY <1>1, TypeCorrect, IndexInvariant, PTL

(***************************************************************************)
(* Answers.                                                                *)
(***************************************************************************)
\* A client is let through only when its generation is completed.
AnswersAreServed ==
  \A c \in Clients : cpc[c] = "answered" => cgen[c] <= st.completed

LEMMA StepKeepsAnswers ==
  TypeOK /\ TypeOK' /\ AnswersAreServed /\ [Next]_vars => AnswersAreServed'
<1> SUFFICES ASSUME TypeOK, TypeOK', AnswersAreServed, [Next]_vars
             PROVE  AnswersAreServed'
  OBVIOUS
<1>1. /\ st.completed \in Nat /\ st'.completed \in Nat /\ ValidState(st)
      /\ cgen \in [Clients -> Nat]
      /\ st.requested \in Nat /\ st.completed <= st.requested
  BY TypeSplits DEF TypeOK, CoordinatorStates
\* Answers are given for completed generations, and kept.
<1> DEFINE Keeps ==
             /\ st'.completed >= st.completed
             /\ \A c \in Clients :
                  cpc'[c] = "answered" =>
                    \/ cpc[c] = "answered" /\ cgen'[c] = cgen[c]
                    \/ cgen'[c] <= st.completed
<1>2. Keeps => AnswersAreServed'
  BY <1>1 DEF AnswersAreServed, TypeOK
<1>3. ASSUME NEW c \in Clients, Start(c) \/ ClientStep(c) \/ WaitTimesOut(c)
      PROVE  Keeps
  <2> USE <1>1 DEF TypeOK, MoveFrom
  <2>1. CASE Start(c)
    BY <2>1 DEF Start, StartUpdate, StartRead, StartRefresh, Clear, Pending
  <2>2. CASE ProbeLocks(c) \/ ProbeEnds(c)
    BY <2>2 DEF ProbeLocks, ProbeEnds, clientVars, ProbePCs, AfterProbe
  <2>3. CASE Request(c)
    <3>1. st'.completed = st.completed
      BY <2>3, ClaimsAreValid DEF Request, RoomForLaunch
    <3>2. QED BY <2>3, <3>1 DEF Request
  <2>4. CASE Claim(c)
    <3>1. st'.completed = st.completed
      BY <2>4, ClaimsAreValid DEF Claim, RoomForLaunch
    <3>2. QED BY <2>4, <3>1 DEF Claim
  <2>5. CASE LaunchSucceeds(c) \/ LaunchFails(c) \/ SnapshotRequested(c)
    BY <2>5 DEF LaunchSucceeds, LaunchFails, SnapshotRequested
  <2>6. CASE ClearClaim(c) \/ ReportLaunchFailure(c)
    <3>1. /\ ctoken[c] \in Tokens \cup {NoClaim} /\ cgen[c] \in Nat
          /\ TRUE \in BOOLEAN
      OBVIOUS
    <3>2. st'.completed = st.completed
      BY <2>6, <3>1, TransactionsAreValid DEF ClearClaim, ReportLaunchFailure
    <3>3. QED BY <2>6, <3>2 DEF ClearClaim, ReportLaunchFailure
  <2>7. CASE LeadReturns(c) \/ WaitIsOver(c) \/ WaitSuspectsFailure(c)
             \/ BailOrPollAgain(c) \/ WaitTimesOut(c)
    BY <2>7 DEF LeadReturns, WaitIsOver, WaitSuspectsFailure, BailOrPollAgain,
                WaitTimesOut
  <2>8. CASE LockRefresh(c) \/ RefreshSucceeds(c) \/ RefreshFails(c)
             \/ RefreshFailsLate(c)
    BY <2>8 DEF LockRefresh, RefreshSucceeds, RefreshFails, RefreshFailsLate
  <2>9. CASE Acknowledge(c)
    <3>1. cgen[c] \in Nat
      OBVIOUS
    <3>2. st'.completed = Advance(st, cgen[c])
      BY <2>9, <3>1, CompletionsAreValid DEF Acknowledge
    <3>3. st'.completed >= st.completed
      BY <3>1, <3>2, AdvanceIsBounded
    <3>4. QED BY <2>9, <3>3 DEF Acknowledge
  <2>10. QED
    BY <1>3, <2>1, <2>2, <2>3, <2>4, <2>5, <2>6, <2>7, <2>8, <2>9 DEF ClientStep
<1>4. ASSUME NEW t \in Tokens, WorkerStep(t)
      PROVE  Keeps
  <2>1. CASE Complete(t)
    <3>1. wtarget[t] \in Nat
      BY DEF TypeOK
    <3>2. st'.completed = Advance(st, wtarget[t])
      BY <1>1, <2>1, <3>1, CompletionsAreValid DEF Complete
    <3>3. st'.completed >= st.completed
      BY <1>1, <3>1, <3>2, AdvanceIsBounded
    <3>4. QED BY <2>1, <3>3 DEF Complete, clientVars
  <2>2. CASE LockIndex(t) \/ ScanSucceeds(t)
    BY <1>1, <2>2 DEF LockIndex, ScanSucceeds, clientVars
  <2>3. ASSUME \/ AwaitLock(t) \/ TryLock(t) \/ AcknowledgeWorkerStart(t) \/ LookForWork(t)
               \/ Debounce(t) \/ Finish(t) \/ CheckIndex(t) \/ ScanFails(t)
               \/ RecordFailure(t) \/ Leave(t)
        PROVE  Keeps
    <3>1. Quiet
      BY <2>3, QuietWorkerSteps
    <3>2. UNCHANGED clientVars
      BY <2>3 DEF AwaitLock, TryLock, AcknowledgeWorkerStart, LookForWork, Debounce,
                  Finish, CheckIndex, ScanFails, RecordFailure, Leave
    <3>3. QED BY <1>1, <3>1, <3>2 DEF Quiet, clientVars
  <2>4. QED BY <1>4, <2>1, <2>2, <2>3 DEF WorkerStep
<1>5. ASSUME Edit \/ ClaimAges PROVE Keeps
  <2>1. Quiet
    BY <1>5, QuietEnvironmentSteps
  <2>2. st'.completed >= st.completed
    BY <1>1, <2>1 DEF Quiet
  <2>3. UNCHANGED <<cpc, cgen>>
    BY <1>5 DEF Edit, ClaimAges, clientVars
  <2>4. QED BY <2>2, <2>3
<1>6. ASSUME Crash PROVE Keeps
  <2>2. /\ cgen' = cgen
        /\ \A c \in Clients : cpc'[c] \in {cpc[c], "dead", "clearClaim"}
    BY <1>6 DEF Crash, CrashWorker, CrashClient, CrashPublisher, LauncherDies,
                MoveFrom, TypeOK
  <2>3. st'.completed >= st.completed
    BY <1>1, <1>6 DEF Crash, CrashWorker, CrashClient, CrashPublisher, LauncherDies
  <2>4. QED BY <2>2, <2>3
<1>7. ASSUME UNCHANGED vars PROVE Keeps
  <2>1. st' = st /\ UNCHANGED <<cpc, cgen>>
    BY <1>7 DEF vars, clientVars
  <2>2. QED BY <1>1, <2>1
<1>8. QED BY <1>2, <1>3, <1>4, <1>5, <1>6, <1>7 DEF Next, AllEnded

\* What a reader or a foreground update is let through to see has every edit
\* made before the generation it waited for was queued.
THEOREM ReadersSeeTheirEdits ==
  ASSUME OnlyScanningRefreshes
  PROVE  Spec => []AnswersAreFresh
<1>1. Init => AnswersAreServed
  BY DEF Init, AnswersAreServed
<1>2. TypeOK /\ CompletedMeansIndexed /\ AnswersAreServed => AnswersAreFresh
  BY DEF TypeOK, CoordinatorStates, CompletedMeansIndexed, AnswersAreServed,
         AnswersAreFresh
<1>3. QED
  BY <1>1, <1>2, StepKeepsAnswers, TypeCorrect, NoEditIsLost, PTL DEF Spec

(***************************************************************************)
(* Refinement.                                                             *)
(***************************************************************************)
\* A step that the abstract service does not see.
Unseen == UNCHANGED <<edits, exists, index, asOf>> /\ st'.completed = st.completed

LEMMA UnseenClientSteps ==
  ASSUME TypeOK, NEW c \in Clients,
         \/ StartUpdate(c) \/ StartRead(c) \/ StartRefresh(c) \/ WaitTimesOut(c)
         \/ LockRefresh(c) \/ ClientStep(c)
         , ~Request(c), ~RefreshSucceeds(c), ~RefreshFailsLate(c), ~Acknowledge(c)
  PROVE  Unseen
<1>1. CASE LockRefresh(c)
  BY <1>1 DEF LockRefresh, Unseen, indexVars
<1>2. CASE ~LockRefresh(c)
  <2>1. st'.completed = st.completed
    BY <1>2, QuietClientSteps DEF Quiet, Start, ClientStep
  <2>2. UNCHANGED indexVars /\ UNCHANGED asOf
    BY <1>2 DEF ClientStep, StartUpdate, StartRead, StartRefresh, WaitTimesOut,
       ProbeLocks, ProbeEnds, Claim, LaunchSucceeds, LaunchFails, ClearClaim,
       SnapshotRequested, ReportLaunchFailure, LeadReturns, WaitIsOver,
       WaitSuspectsFailure, BailOrPollAgain, RefreshFails
  <2>3. QED BY <2>1, <2>2 DEF Unseen, indexVars
<1>3. QED BY <1>1, <1>2

LEMMA UnseenOtherSteps ==
  ASSUME TypeOK,
         \/ \E t \in Tokens : WorkerStep(t) /\ ~ScanSucceeds(t) /\ ~Complete(t)
         \/ ClaimAges
         \/ UNCHANGED vars
         \/ Crash /\ \A c \in Clients : ~CrashPublisher(c)
  PROVE  Unseen
<1>1. ASSUME NEW t \in Tokens, WorkerStep(t), ~ScanSucceeds(t), ~Complete(t)
      PROVE  Unseen
  <2>1. CASE LockIndex(t)
    BY <2>1 DEF LockIndex, Unseen, indexVars
  <2>2. CASE ~LockIndex(t)
    <3>1. st'.completed = st.completed
      BY <1>1, <2>2, QuietWorkerSteps DEF Quiet, WorkerStep
    <3>2. UNCHANGED indexVars /\ UNCHANGED asOf
      BY <1>1, <2>2 DEF WorkerStep, AwaitLock, TryLock, AcknowledgeWorkerStart, LookForWork,
         Debounce, Finish, CheckIndex, ScanFails, RecordFailure, Leave
    <3>3. QED BY <3>1, <3>2 DEF Unseen, indexVars
  <2>3. QED BY <2>1, <2>2
<1>2. CASE ClaimAges
  <2>1. st'.completed = st.completed
    BY <1>2, QuietEnvironmentSteps DEF Quiet
  <2>2. UNCHANGED indexVars /\ UNCHANGED asOf
    BY <1>2 DEF ClaimAges
  <2>3. QED BY <2>1, <2>2 DEF Unseen, indexVars
<1>3. CASE Crash /\ \A c \in Clients : ~CrashPublisher(c)
  <2>1. st'.completed = st.completed
    BY <1>3, QuietEnvironmentSteps DEF Quiet
  <2>2. UNCHANGED indexVars /\ UNCHANGED asOf
    BY <1>3 DEF Crash, CrashWorker, CrashClient, LauncherDies
  <2>3. QED BY <2>1, <2>2 DEF Unseen, indexVars
<1>4. CASE UNCHANGED vars
  BY <1>4 DEF vars, Unseen, indexVars
<1>5. QED BY <1>1, <1>2, <1>3, <1>4

\* Publishing a scan is the abstract Publish, or nothing if `clear` has
\* removed the index under a background update.
LEMMA ScansPublish ==
  ASSUME OnlyScanningRefreshes, TypeOK, IndexInv,
         \/ \E c \in Clients : RefreshSucceeds(c) \/ RefreshFailsLate(c)
                               \/ CrashPublisher(c)
         \/ \E t \in Tokens : ScanSucceeds(t)
  PROVE  Service!Publish \/ Unseen
<1>1. /\ edits \in Nat /\ index \in Nat /\ scan \in Nat
      /\ Len(asOf) = st.requested /\ st.requested \in Nat /\ st.completed \in Nat
      /\ st.completed <= st.requested
  BY DEF TypeOK, CoordinatorStates
<1>2. mutationLock # Free /\ UNCHANGED <<edits, asOf, st>>
  BY HoldersDiffer DEF RefreshSucceeds, RefreshFailsLate, CrashPublisher,
     Publishes, ScanSucceeds, MoveFrom, WorkerMoves,
     IndexInv, MutationLockIsHeld
<1>3. /\ scan <= edits /\ (exists => index <= scan)
      /\ \A g \in 1..st.completed : asOf[g] <= scan
  BY <1>1, <1>2 DEF IndexInv, ScanCoversBoth, Credited
<1>4. ASSUME NEW c \in Clients,
             RefreshSucceeds(c) \/ RefreshFailsLate(c) \/ CrashPublisher(c)
      PROVE  exists' = TRUE /\ index' = scan
  <2>1. cmd[c] \in {"unstarted"} \cup Commands
    BY DEF TypeOK
  <2>2. cmd[c] # "none"
    BY <2>1 DEF OnlyScanningRefreshes, RefreshKinds
  <2>3. QED BY <1>4, <2>2 DEF RefreshSucceeds, RefreshFailsLate, CrashPublisher,
                              Publishes
<1>5. ASSUME NEW t \in Tokens, ScanSucceeds(t)
      PROVE  \/ exists' = TRUE /\ index' = scan
             \/ UNCHANGED <<exists, index>>
  BY <1>5 DEF ScanSucceeds, TypeOK
<1>6. CASE exists' = TRUE /\ index' = scan
  BY <1>1, <1>2, <1>3, <1>6 DEF Service!Publish
<1>7. CASE UNCHANGED <<exists, index>>
  BY <1>2, <1>7 DEF Unseen
<1>8. QED BY <1>4, <1>5, <1>6, <1>7

\* A completion on record is the abstract Serve, or nothing new.
LEMMA CompletionsServe ==
  ASSUME TypeOK, TypeOK', IndexInv, IndexInv',
         \/ \E c \in Clients : Acknowledge(c)
         \/ \E t \in Tokens : Complete(t)
  PROVE  Service!Serve \/ Unseen
<1>1. /\ st.completed \in Nat /\ st'.completed \in Nat /\ st'.requested \in Nat
      /\ Len(asOf') = st'.requested /\ st'.completed <= st'.requested
      /\ \A t \in Tokens : wtarget[t] \in Nat
      /\ \A c \in Clients : cgen[c] \in Nat
      /\ ValidState(st)
  BY TypeSplits DEF TypeOK, CoordinatorStates
<1>2. UNCHANGED <<edits, exists, index, asOf>>
  BY DEF Acknowledge, Complete, indexVars
<1>3. st'.completed >= st.completed
  <2>1. ASSUME NEW c \in Clients, Acknowledge(c)
        PROVE  st'.completed = Advance(st, cgen[c])
    BY <1>1, <2>1, CompletionsAreValid DEF Acknowledge
  <2>2. ASSUME NEW t \in Tokens, Complete(t)
        PROVE  st'.completed = Advance(st, wtarget[t])
    BY <1>1, <2>2, CompletionsAreValid DEF Complete
  <2>3. QED BY <1>1, <2>1, <2>2, AdvanceIsBounded
<1>4. exists => \A g \in 1..st'.completed : asOf[g] <= index
  BY <1>1, <1>2 DEF IndexInv, IndexCoversCredited, Credited
<1>5. CASE st'.completed = st.completed
  BY <1>2, <1>5 DEF Unseen
<1>6. CASE st'.completed # st.completed
  <2>1. st'.completed \in st.completed + 1 .. Len(asOf)
    BY <1>1, <1>2, <1>3, <1>6
  <2>2. exists => \A g \in st.completed + 1 .. st'.completed : asOf[g] <= index
    BY <1>1, <1>4
  <2>3. QED BY <1>2, <2>1, <2>2 DEF Service!Serve
<1>7. QED BY <1>5, <1>6

LEMMA StepRefines ==
  ASSUME OnlyScanningRefreshes
  PROVE  TypeOK /\ TypeOK' /\ IndexInv /\ IndexInv' /\ [Next]_vars
           => [Service!Next]_(Service!vars)
<1> SUFFICES ASSUME TypeOK, TypeOK', IndexInv, IndexInv', [Next]_vars
             PROVE  [Service!Next]_(Service!vars)
  OBVIOUS
<1>1. Unseen => UNCHANGED Service!vars
  BY DEF Unseen, Service!vars
<1>2. ASSUME NEW c \in Clients, Request(c) PROVE Service!Queue
  <2>1. ValidState(st) /\ cactive[c] \in BOOLEAN
    BY TypeSplits DEF TypeOK
  <2>2. st'.completed = st.completed
    BY <1>2, <2>1, ClaimsAreValid DEF Request, RoomForLaunch
  <2>3. QED BY <1>2, <2>2 DEF Request, indexVars, Service!Queue
<1>3. ASSUME NEW c \in Clients, Clear(c) PROVE Service!Remove \/ Unseen
  BY <1>3 DEF Clear, Service!Remove, Unseen
<1>4. ASSUME Edit PROVE Service!Edit
  BY <1>4 DEF Edit, Service!Edit
<1>5. \/ \E c \in Clients : Request(c) \/ Clear(c)
      \/ Edit \/ Service!Publish \/ Service!Serve \/ Unseen
  BY UnseenClientSteps, UnseenOtherSteps, ScansPublish, CompletionsServe
     DEF Next, Start, ClientStep, WorkerStep, AllEnded
<1>6. QED BY <1>1, <1>2, <1>3, <1>4, <1>5 DEF Service!Next

\* Every behaviour of the processes is one of the abstract service: what is
\* declared served is reflected in an index that never goes back.
THEOREM Refinement ==
  ASSUME OnlyScanningRefreshes
  PROVE  Spec => ImplementsService
<1>1. Init => Service!Init
  BY DEF Init, DefaultState, Service!Init
<1>2. TypeOK /\ TypeOK' /\ IndexInv /\ IndexInv' /\ [Next]_vars
        => [Service!Next]_(Service!vars)
  BY StepRefines
<1>3. QED
  BY <1>1, <1>2, TypeCorrect, IndexInvariant, PTL
     DEF Spec, ImplementsService, Service!Spec

(***************************************************************************)
(* Claims.                                                                 *)
(***************************************************************************)
\* While no process has been killed, each token is handed out once, to a
\* client that launches a worker or leads, and the claim belongs to a process
\* that is still going to act on it.
LaunchingPCs == {"launch", "clearClaim"}
OwningPCs == {"await", "tryLock", "acknowledge"} \cup ServingPCs

TokensAreNew ==
  /\ st.claim <= st.launches
  /\ \A t \in Tokens : t > st.launches => wpc[t] = "none"
  /\ \A c \in Clients : cpc[c] \in LaunchingPCs =>
       ctoken[c] \in Tokens /\ ctoken[c] <= st.launches /\ wpc[ctoken[c]] = "none"
  /\ \A c, d \in Clients :
       cpc[c] \in LaunchingPCs /\ cpc[d] \in LaunchingPCs /\ ctoken[c] = ctoken[d] => c = d

ClaimHasOwner ==
  st.claim # NoClaim =>
    \/ \E c \in Clients : cpc[c] \in LaunchingPCs /\ ctoken[c] = st.claim
    \/ wpc[st.claim] \in OwningPCs

\* What is pending without a claim is being served, or has its failure on
\* record.
PendingIsSeen ==
  launchFailures = 0 =>
    /\ \A c \in Clients : cpc[c] \notin {"clearClaim", "snapshot", "fail"}
    /\ Pending(st) /\ st.claim = NoClaim =>
         (\E t \in Tokens : wpc[t] \in ServingPCs) \/ st.failure >= st.requested

ClaimInv == crashes = 0 => TokensAreNew /\ ClaimHasOwner /\ PendingIsSeen

LEMMA InitialClaims == Init => ClaimInv
BY DEF Init, DefaultState, NoClaim, NoFailure, ClaimInv, TokensAreNew,
       ClaimHasOwner, PendingIsSeen, Pending, LaunchingPCs, ServingPCs

\* What each transaction does to the claim and to the count of launches.
LEMMA TransactionsOnClaims ==
  ASSUME NEW s, ValidState(s), NEW g \in Nat, NEW t \in Tokens \cup {NoClaim}
  PROVE  /\ ReleaseClaim(s, t).launches = s.launches
         /\ ReleaseClaim(s, t).failure = s.failure
         /\ s.claim = t => ReleaseClaim(s, t).claim = NoClaim
         /\ s.claim # t => ReleaseClaim(s, t) = s
         /\ AcknowledgeStart(s, t).launches = s.launches
         /\ AcknowledgeStart(s, t).claim = s.claim
         /\ AcknowledgeStart(s, t).failure = s.failure
         /\ FailGeneration(s, g).launches = s.launches
         /\ FailGeneration(s, g).claim = s.claim
         /\ CompleteGeneration(s, g).launches = s.launches
         /\ CompleteGeneration(s, g).claim = s.claim
         /\ AcknowledgeFullRefresh(s, g).launches = s.launches
         /\ AcknowledgeFullRefresh(s, g).claim = s.claim
<1> USE DEF ValidState, CoordinatorStates
<1>1. /\ ReleaseClaim(s, t).launches = s.launches
      /\ ReleaseClaim(s, t).failure = s.failure
      /\ s.claim = t => ReleaseClaim(s, t).claim = NoClaim
      /\ s.claim # t => ReleaseClaim(s, t) = s
  BY DEF ReleaseClaim
<1>2. /\ AcknowledgeStart(s, t).launches = s.launches
      /\ AcknowledgeStart(s, t).claim = s.claim
      /\ AcknowledgeStart(s, t).failure = s.failure
  BY DEF AcknowledgeStart
<1>3. /\ FailGeneration(s, g).launches = s.launches
      /\ FailGeneration(s, g).claim = s.claim
  BY DEF FailGeneration
<1>4. /\ CompleteGeneration(s, g).launches = s.launches
      /\ CompleteGeneration(s, g).claim = s.claim
  BY DEF CompleteGeneration
<1>5. /\ AcknowledgeFullRefresh(s, g).launches = s.launches
      /\ AcknowledgeFullRefresh(s, g).claim = s.claim
  BY DEF AcknowledgeFullRefresh
<1>6. QED BY <1>1, <1>2, <1>3, <1>4, <1>5

\* A worker that ends keeps its claim if there is work left, or gives up its
\* own claim only; a failure that it leaves behind is put on record.
LEMMA EndingsOnClaims ==
  ASSUME NEW s, ValidState(s), NEW g \in Nat, NEW t \in Tokens
  PROVE  /\ FinishIfIdle(s, t).launches = s.launches
         /\ Pending(s) => FinishIfIdle(s, t) = s
         /\ s.claim # t => FinishIfIdle(s, t) = s
         /\ FinishIfIdle(s, t).claim \in {s.claim, NoClaim}
         /\ RecordFailureAndFinish(s, t, g).launches = s.launches
         /\ RecordFailureAndFinish(s, t, g).failure = g
         /\ s.requested > g => RecordFailureAndFinish(s, t, g).claim = s.claim
         /\ s.claim # t => RecordFailureAndFinish(s, t, g).claim = s.claim
         /\ RecordFailureAndFinish(s, t, g).claim \in {s.claim, NoClaim}
<1>1. /\ FinishIfIdle(s, t).launches = s.launches
      /\ Pending(s) => FinishIfIdle(s, t) = s
      /\ s.claim # t => FinishIfIdle(s, t) = s
      /\ FinishIfIdle(s, t).claim \in {s.claim, NoClaim}
  BY TransactionsOnClaims DEF FinishIfIdle
<1>2. DEFINE failed == [s EXCEPT !.failure = g]
<1>3. /\ ValidState(failed) /\ failed.launches = s.launches
      /\ failed.claim = s.claim /\ failed.failure = g
  BY DEF ValidState, CoordinatorStates
<1>4. /\ ReleaseClaim(failed, t).launches = s.launches
      /\ ReleaseClaim(failed, t).failure = g
      /\ s.claim # t => ReleaseClaim(failed, t).claim = s.claim
      /\ ReleaseClaim(failed, t).claim \in {s.claim, NoClaim}
  <2> HIDE DEF failed
  <2>1. g \in Nat /\ t \in Tokens \cup {NoClaim}
    OBVIOUS
  <2>2. /\ ReleaseClaim(failed, t).launches = failed.launches
        /\ ReleaseClaim(failed, t).failure = failed.failure
        /\ failed.claim = t => ReleaseClaim(failed, t).claim = NoClaim
        /\ failed.claim # t => ReleaseClaim(failed, t) = failed
    BY <1>3, <2>1, TransactionsOnClaims
  <2>3. QED BY <1>3, <2>2
<1>5. QED BY <1>1, <1>3, <1>4 DEF RecordFailureAndFinish

\* A token handed out is the next one and becomes the claim; otherwise there
\* is a live claim, or nothing to claim a worker for.
LEMMA GrantsOnClaims ==
  ASSUME NEW s, ValidState(s), NEW active \in BOOLEAN, s.launches + 1 \in Tokens,
         NEW u, \/ u = RequestGeneration(s, active)
                \/ u = ClaimPending(s, active)
  PROVE  \/ /\ Granted(s, u) = s.launches + 1
            /\ u.launches = s.launches + 1 /\ u.claim = s.launches + 1
         \/ /\ Granted(s, u) = NoClaim
            /\ u.launches = s.launches /\ u.claim = s.claim
            /\ (u = s /\ ~Pending(s)) \/ s.claim # NoClaim
<1> USE DEF ValidState, CoordinatorStates, TakeClaim, Granted, NoClaim
<1>1. CASE u = RequestGeneration(s, active)
  BY <1>1, TokensAssumption DEF RequestGeneration, ClaimIsLive
<1>2. CASE u = ClaimPending(s, active)
  BY <1>2, TokensAssumption DEF ClaimPending, ClaimIsLive
<1>3. QED BY <1>1, <1>2

\* Only the owner of a claim gives it up: a worker that ends or a client whose
\* launch failed, and each of them only its own token.
LEMMA StepReleasesOwnClaim ==
  ASSUME TypeOK, Next, st.claim # NoClaim, st'.claim = NoClaim
  PROVE  \/ /\ wpc[st.claim] \in {"finish", "record"}
            /\ wpc'[st.claim] # wpc[st.claim]
         \/ \E c \in Clients : /\ ctoken[c] = st.claim
                               /\ cpc[c] = "clearClaim" /\ cpc'[c] # cpc[c]
<1> DEFINE Goal ==
      \/ /\ wpc[st.claim] \in {"finish", "record"}
         /\ wpc'[st.claim] # wpc[st.claim]
      \/ \E c \in Clients : /\ ctoken[c] = st.claim
                            /\ cpc[c] = "clearClaim" /\ cpc'[c] # cpc[c]
<1>1. /\ ValidState(st) /\ st' # st
      /\ wtarget \in [Tokens -> Nat] /\ cgen \in [Clients -> Nat]
      /\ ctoken \in [Clients -> {NoClaim} \cup Tokens]
      /\ cactive \in [Clients -> BOOLEAN]
      /\ wpc \in [Tokens -> WorkerPCs] /\ cpc \in [Clients -> ClientPCs]
  BY TypeSplits DEF TypeOK
<1>2. ASSUME NEW c \in Clients, Start(c) \/ ClientStep(c) \/ WaitTimesOut(c)
      PROVE  Goal
  <2>1. \/ Request(c) \/ Claim(c) \/ ClearClaim(c) \/ ReportLaunchFailure(c)
        \/ Acknowledge(c)
    BY <1>1, <1>2 DEF Start, ClientStep, StartUpdate, StartRead, StartRefresh, Clear,
       ProbeLocks, ProbeEnds, LaunchSucceeds, LaunchFails, SnapshotRequested,
       LeadReturns, WaitIsOver, WaitSuspectsFailure, BailOrPollAgain,
       WaitTimesOut, LockRefresh, RefreshSucceeds, RefreshFailsLate, RefreshFails
  <2>2. CASE Request(c) \/ Claim(c)
    <3>1. /\ st.launches + 1 \in Tokens /\ cactive[c] \in BOOLEAN
          /\ \/ st' = RequestGeneration(st, cactive[c])
             \/ st' = ClaimPending(st, cactive[c])
      BY <1>1, <2>2 DEF Request, Claim, RoomForLaunch
    <3>2. st'.claim \in {st.claim, st.launches + 1}
      BY <1>1, <3>1, GrantsOnClaims
    <3>3. FALSE
      BY <3>1, <3>2, TokensAssumption DEF NoClaim
    <3>4. QED BY <3>3
  <2>3. CASE ClearClaim(c)
    <3>1. /\ st' = ReleaseClaim(st, ctoken[c])
          /\ cpc[c] = "clearClaim" /\ cpc'[c] # cpc[c]
      BY <1>1, <2>3 DEF ClearClaim, MoveFrom
    <3>2. ctoken[c] = st.claim
      BY <3>1 DEF ReleaseClaim
    <3>3. QED BY <3>1, <3>2
  <2>4. CASE ReportLaunchFailure(c) \/ Acknowledge(c)
    <3>1. cgen[c] \in Nat /\ NoClaim \in Tokens \cup {NoClaim}
      BY <1>1
    <3>2. \/ st' = FailGeneration(st, cgen[c])
          \/ st' = AcknowledgeFullRefresh(st, cgen[c])
      BY <2>4 DEF ReportLaunchFailure, Acknowledge
    <3>3. st'.claim = st.claim
      BY <1>1, <3>1, <3>2, TransactionsOnClaims
    <3>4. QED BY <3>3
  <2>5. QED BY <2>1, <2>2, <2>3, <2>4
<1>3. ASSUME NEW t \in Tokens, WorkerStep(t)
      PROVE  Goal
  <2>1. \/ AcknowledgeWorkerStart(t) \/ Finish(t) \/ Complete(t)
        \/ RecordFailure(t)
    BY <1>1, <1>3 DEF WorkerStep, AwaitLock, TryLock, LookForWork, Debounce,
       CheckIndex, LockIndex, ScanSucceeds, ScanFails, Leave
  <2>2. wtarget[t] \in Nat /\ t \in Tokens \cup {NoClaim}
    BY <1>1
  <2>3. CASE AcknowledgeWorkerStart(t) \/ Complete(t)
    BY <1>1, <2>2, <2>3, TransactionsOnClaims DEF AcknowledgeWorkerStart, Complete
  <2>4. CASE Finish(t)
    <3>1. st' = FinishIfIdle(st, t)
      BY <2>4 DEF Finish
    <3>2. st.claim = t /\ ~Pending(st)
      BY <1>1, <3>1, EndingsOnClaims
    <3>3. wpc[t] = "finish" /\ wpc'[t] = "leave"
      BY <1>1, <2>4, <3>2 DEF Finish, WorkerMoves
    <3>4. QED BY <3>2, <3>3
  <2>5. CASE RecordFailure(t)
    <3>1. st' = RecordFailureAndFinish(st, t, wtarget[t])
      BY <2>5 DEF RecordFailure
    <3>2. st.claim = t /\ ~(st.requested > wtarget[t])
      BY <1>1, <2>2, <3>1, EndingsOnClaims
    <3>3. wpc[t] = "record" /\ wpc'[t] = "leaveFailed"
      BY <1>1, <2>5, <3>2 DEF RecordFailure, WorkerMoves
    <3>4. QED BY <3>2, <3>3
  <2>6. QED BY <2>1, <2>3, <2>4, <2>5
<1>4. CASE Edit \/ Crash
  BY <1>1, <1>4 DEF Edit, Crash, CrashWorker, CrashClient, CrashPublisher, LauncherDies
<1>5. CASE ClaimAges
  <2>1. st'.claim = st.claim
    BY <1>1, <1>5 DEF ClaimAges, ValidState, CoordinatorStates
  <2>2. QED BY <2>1
<1>6. CASE UNCHANGED vars
  BY <1>1, <1>6 DEF vars
<1>7. QED BY <1>2, <1>3, <1>4, <1>5, <1>6 DEF Next, AllEnded

\* Neither a superseded worker that finishes late nor a launcher that fails
\* late clears a newer claim, whatever is killed.
THEOREM ClaimsAreTheirOwners == Spec => ClaimIsReleasedByItsOwner
<1>1. TypeOK /\ [Next]_vars =>
        [ st.claim # NoClaim /\ st'.claim = NoClaim =>
            \/ /\ wpc[st.claim] \in {"finish", "record"}
               /\ wpc'[st.claim] # wpc[st.claim]
            \/ \E c \in Clients : /\ ctoken[c] = st.claim
                                  /\ cpc[c] = "clearClaim" /\ cpc'[c] # cpc[c]
        ]_vars
  BY StepReleasesOwnClaim
<1>2. QED BY <1>1, TypeCorrect, PTL DEF Spec, ClaimIsReleasedByItsOwner

\* The types these proofs use.
LEMMA ClaimTypes ==
  ASSUME TypeOK
  PROVE  /\ ValidState(st) /\ Tokens \subseteq Nat \ {0}
         /\ st.launches \in Nat /\ st.claim \in {NoClaim} \cup Tokens
         /\ wpc \in [Tokens -> WorkerPCs] /\ wtarget \in [Tokens -> Nat]
         /\ cpc \in [Clients -> ClientPCs] /\ cgen \in [Clients -> Nat]
         /\ ctoken \in [Clients -> {NoClaim} \cup Tokens]
         /\ cactive \in [Clients -> BOOLEAN]
<1>1. ValidState(st)
  BY TypeSplits
<1>2. st.launches \in {0} \cup Tokens /\ st.claim \in {NoClaim} \cup Tokens
  BY <1>1 DEF ValidState, CoordinatorStates
<1>3. Tokens \subseteq Nat \ {0}
  BY TokensAssumption
<1>4. st.launches \in Nat
  <2>1. CASE st.launches = 0
    BY <2>1
  <2>2. CASE st.launches \in Tokens
    BY <1>3, <2>2, Zenon
  <2>3. QED BY <1>2, <2>1, <2>2
<1>5. QED BY <1>1, <1>2, <1>3, <1>4 DEF TypeOK

\* A step that leaves the tokens and who holds them alone.
SameTokens ==
  /\ st'.claim = st.claim /\ st'.launches = st.launches /\ wpc' = wpc
  /\ \A c \in Clients : \/ cpc'[c] = cpc[c] /\ ctoken'[c] = ctoken[c]
                        \/ cpc[c] \notin LaunchingPCs /\ cpc'[c] \notin LaunchingPCs

LEMMA SameTokensKeepOwners ==
  ASSUME TokensAreNew, ClaimHasOwner, SameTokens
  PROVE  TokensAreNew' /\ ClaimHasOwner'
<1>1. TokensAreNew'
  BY DEF TokensAreNew, SameTokens
<1>2. ClaimHasOwner'
  BY DEF ClaimHasOwner, SameTokens
<1>3. QED BY <1>1, <1>2

\* A step of worker t, which owns no claim but its own.
WorkerOnly(t) ==
  /\ st'.launches = st.launches
  /\ st'.claim \in {st.claim, NoClaim}
  /\ wpc[t] # "none" /\ wpc' = [wpc EXCEPT ![t] = wpc'[t]]
  /\ st'.claim = t /\ wpc[t] \in OwningPCs => wpc'[t] \in OwningPCs
  /\ UNCHANGED <<cpc, ctoken>>

LEMMA WorkerKeepsOwners ==
  ASSUME TypeOK, TokensAreNew, ClaimHasOwner, NEW t \in Tokens, WorkerOnly(t)
  PROVE  TokensAreNew' /\ ClaimHasOwner'
<1>1. /\ wpc \in [Tokens -> WorkerPCs] /\ st.launches \in Nat
      /\ st.claim \in {NoClaim} \cup Tokens
  BY ClaimTypes
<1>2. st'.claim <= st'.launches
  BY <1>1 DEF WorkerOnly, TokensAreNew, NoClaim
<1>3. \A u \in Tokens : wpc[u] = "none" => wpc'[u] = "none"
  BY <1>1 DEF WorkerOnly
<1>4. TokensAreNew'
  BY <1>2, <1>3 DEF WorkerOnly, TokensAreNew
<1>5. ClaimHasOwner'
  BY <1>1 DEF WorkerOnly, ClaimHasOwner
<1>6. QED BY <1>4, <1>5

\* The next token goes to client c, or to the worker loop that c leads.
TokenHandedTo(c) ==
  LET next == st.launches + 1
  IN  /\ next \in Tokens
      /\ st'.launches = next /\ st'.claim = next
      /\ ctoken' = [ctoken EXCEPT ![c] = next]
      /\ cpc' = [cpc EXCEPT ![c] = cpc'[c]]
      /\ \/ cpc'[c] = "launch" /\ wpc' = wpc
         \/ cpc'[c] = "lead" /\ wpc' = [wpc EXCEPT ![next] = "await"]

LEMMA HandingOutKeepsOwners ==
  ASSUME TypeOK, TokensAreNew, NEW c \in Clients, TokenHandedTo(c)
  PROVE  TokensAreNew' /\ ClaimHasOwner'
<1> DEFINE next == st.launches + 1
<1>1. /\ wpc \in [Tokens -> WorkerPCs] /\ st.launches \in Nat /\ Tokens \subseteq Nat
      /\ cpc \in [Clients -> ClientPCs] /\ next \in Tokens
      /\ ctoken \in [Clients -> {NoClaim} \cup Tokens]
  BY ClaimTypes DEF TokenHandedTo
<1>2. /\ st'.claim = next /\ st'.launches = next
      /\ ctoken'[c] = next
      /\ \A d \in Clients \ {c} : cpc'[d] = cpc[d] /\ ctoken'[d] = ctoken[d]
      /\ (cpc'[c] = "launch" /\ wpc' = wpc) \/ cpc'[c] = "lead"
      /\ \A u \in Tokens \ {next} : wpc'[u] = wpc[u]
      /\ cpc'[c] = "lead" => wpc'[next] = "await"
  BY <1>1 DEF TokenHandedTo
<1>3. /\ \A u \in Tokens : u >= next => wpc[u] = "none"
      /\ \A d \in Clients : cpc[d] \in LaunchingPCs =>
           ctoken[d] \in Tokens /\ ctoken[d] < next /\ wpc[ctoken[d]] = "none"
      /\ \A d, e \in Clients :
           cpc[d] \in LaunchingPCs /\ cpc[e] \in LaunchingPCs
             /\ ctoken[d] = ctoken[e] => d = e
  <2>1. \A u \in Nat : (u >= next <=> u > st.launches) /\ (u < next <=> u <= st.launches)
    BY <1>1
  <2>2. \A u \in Tokens : u >= next => wpc[u] = "none"
    BY <1>1, <2>1 DEF TokensAreNew
  <2>3. \A d \in Clients : cpc[d] \in LaunchingPCs =>
          ctoken[d] \in Tokens /\ ctoken[d] < next /\ wpc[ctoken[d]] = "none"
    BY <1>1, <2>1 DEF TokensAreNew
  <2>4. QED BY <2>2, <2>3 DEF TokensAreNew
<1>4. next \in Nat /\ \A u \in Nat : u < next => u <= next /\ u # next
  BY <1>1
<1> HIDE DEF next
<1>5. \A u \in Tokens : u > st'.launches => wpc'[u] = "none"
  BY <1>1, <1>2, <1>3, <1>4
<1>6. \A d \in Clients : cpc'[d] \in LaunchingPCs =>
         ctoken'[d] \in Tokens /\ ctoken'[d] <= st'.launches /\ wpc'[ctoken'[d]] = "none"
  <2> SUFFICES ASSUME NEW d \in Clients, cpc'[d] \in LaunchingPCs
               PROVE  /\ ctoken'[d] \in Tokens /\ ctoken'[d] <= st'.launches
                      /\ wpc'[ctoken'[d]] = "none"
    OBVIOUS
  <2>1. CASE d = c
    BY <1>1, <1>2, <1>3, <1>4, <2>1 DEF LaunchingPCs
  <2>2. CASE d # c
    <3>1. cpc[d] \in LaunchingPCs /\ ctoken'[d] = ctoken[d]
      BY <1>2, <2>2
    <3>2. ctoken[d] \in Tokens /\ ctoken[d] < next /\ wpc[ctoken[d]] = "none"
      BY <1>3, <3>1
    <3>3. ctoken[d] <= next /\ ctoken[d] # next
      BY <1>1, <1>4, <3>2
    <3>4. QED BY <1>2, <3>1, <3>2, <3>3
  <2>3. QED BY <2>1, <2>2
<1>7. \A d, e \in Clients :
         cpc'[d] \in LaunchingPCs /\ cpc'[e] \in LaunchingPCs
           /\ ctoken'[d] = ctoken'[e] => d = e
  <2> SUFFICES ASSUME NEW d \in Clients, NEW e \in Clients,
                      cpc'[d] \in LaunchingPCs, cpc'[e] \in LaunchingPCs,
                      ctoken'[d] = ctoken'[e]
               PROVE  d = e
    OBVIOUS
  <2>1. \A f \in Clients \ {c} : cpc'[f] \in LaunchingPCs => ctoken'[f] < next
    BY <1>2, <1>3
  <2>2. ~(next < next)
    BY <1>4
  <2>3. QED BY <1>2, <1>3, <2>1, <2>2
<1>8. TokensAreNew'
  BY <1>2, <1>4, <1>5, <1>6, <1>7 DEF TokensAreNew
<1>9. ClaimHasOwner'
  BY <1>1, <1>2 DEF ClaimHasOwner, LaunchingPCs, OwningPCs
<1>10. QED BY <1>8, <1>9

\* A launch that succeeds leaves the token to the worker.
LEMMA LaunchKeepsOwners ==
  ASSUME TypeOK, TokensAreNew, ClaimHasOwner, NEW c \in Clients, LaunchSucceeds(c)
  PROVE  TokensAreNew' /\ ClaimHasOwner'
<1> DEFINE mine == ctoken[c]
<1>1. /\ wpc \in [Tokens -> WorkerPCs] /\ st.launches \in Nat /\ Tokens \subseteq Nat
      /\ cpc \in [Clients -> ClientPCs]
      /\ ctoken \in [Clients -> {NoClaim} \cup Tokens]
      /\ st.claim \in {NoClaim} \cup Tokens /\ st' = st
      /\ cpc[c] = "launch" /\ cpc' = [cpc EXCEPT ![c] = "ok"]
      /\ wpc' = [wpc EXCEPT ![mine] = "await"]
      /\ ctoken' = [ctoken EXCEPT ![c] = NoClaim]
  BY ClaimTypes DEF LaunchSucceeds, MoveFrom
<1>2. /\ cpc'[c] \notin LaunchingPCs /\ cpc[c] \in LaunchingPCs
      /\ \A d \in Clients \ {c} : cpc'[d] = cpc[d] /\ ctoken'[d] = ctoken[d]
      /\ wpc'[mine] = "await" \/ mine \notin Tokens
      /\ \A u \in Tokens \ {mine} : wpc'[u] = wpc[u]
  BY <1>1 DEF LaunchingPCs
<1>3. mine \in Tokens /\ mine <= st.launches
  BY <1>2 DEF TokensAreNew
<1>4. \A d \in Clients \ {c} : cpc[d] \in LaunchingPCs => ctoken[d] # mine
  BY <1>2 DEF TokensAreNew
<1> HIDE DEF mine
<1>5. \A u \in Tokens : u > st'.launches => wpc'[u] = "none"
  BY <1>1, <1>2, <1>3 DEF TokensAreNew
<1>6. TokensAreNew'
  BY <1>1, <1>2, <1>4, <1>5 DEF TokensAreNew
<1>7. ClaimHasOwner'
  <2>1. CASE st.claim = mine
    BY <1>1, <1>2, <1>3, <2>1 DEF ClaimHasOwner, OwningPCs
  <2>2. CASE st.claim # mine /\ st.claim # NoClaim
    <3>1. st.claim \in Tokens /\ wpc'[st.claim] = wpc[st.claim]
      BY <1>1, <1>2, <2>2
    <3>2. CASE wpc[st.claim] \in OwningPCs
      BY <1>1, <3>1, <3>2 DEF ClaimHasOwner
    <3>3. CASE \E d \in Clients : cpc[d] \in LaunchingPCs /\ ctoken[d] = st.claim
      <4>1. PICK d \in Clients : cpc[d] \in LaunchingPCs /\ ctoken[d] = st.claim
        BY <3>3
      <4>2. d # c
        BY <4>1, <2>2 DEF mine
      <4>3. cpc'[d] \in LaunchingPCs /\ ctoken'[d] = st'.claim
        BY <1>1, <1>2, <4>1, <4>2
      <4>4. QED BY <4>3 DEF ClaimHasOwner
    <3>4. QED BY <2>2, <3>2, <3>3 DEF ClaimHasOwner
  <2>3. CASE st.claim = NoClaim
    BY <1>1, <2>3 DEF ClaimHasOwner
  <2>4. QED BY <2>1, <2>2, <2>3
<1>8. QED BY <1>6, <1>7

\* A launch that failed gives up its own claim.
LEMMA ClearingKeepsOwners ==
  ASSUME TypeOK, TokensAreNew, ClaimHasOwner, NEW c \in Clients, ClearClaim(c)
  PROVE  TokensAreNew' /\ ClaimHasOwner'
<1>1. /\ ValidState(st) /\ st.launches \in Nat /\ ctoken[c] \in {NoClaim} \cup Tokens
      /\ st.claim \in {NoClaim} \cup Tokens
      /\ cpc \in [Clients -> ClientPCs]
      /\ ctoken \in [Clients -> {NoClaim} \cup Tokens]
      /\ 1 \in Nat
  BY ClaimTypes
<1>2. /\ wpc' = wpc /\ st' = ReleaseClaim(st, ctoken[c])
      /\ cpc'[c] \notin LaunchingPCs
      /\ \A d \in Clients \ {c} : cpc'[d] = cpc[d] /\ ctoken'[d] = ctoken[d]
  BY <1>1 DEF ClearClaim, MoveFrom, workerVars, LaunchingPCs
<1>3. /\ st'.launches = st.launches
      /\ st.claim = ctoken[c] => st'.claim = NoClaim
      /\ st.claim # ctoken[c] => st'.claim = st.claim
  BY <1>1, <1>2, TransactionsOnClaims
<1>4. TokensAreNew'
  <2>1. st'.claim <= st'.launches
    BY <1>1, <1>3 DEF TokensAreNew, NoClaim
  <2>2. QED BY <1>2, <1>3, <2>1 DEF TokensAreNew
<1>5. ClaimHasOwner'
  BY <1>2, <1>3 DEF ClaimHasOwner
<1>6. QED BY <1>4, <1>5

\* Owners stay through every step in which nothing is killed.
LEMMA StepKeepsOwners ==
  ASSUME TypeOK, TokensAreNew, ClaimHasOwner, [Next]_vars, crashes' = crashes
  PROVE  TokensAreNew' /\ ClaimHasOwner'
<1> DEFINE Kept == TokensAreNew' /\ ClaimHasOwner'
<1>1. /\ ValidState(st) /\ crashes \in Nat
      /\ wpc \in [Tokens -> WorkerPCs] /\ wtarget \in [Tokens -> Nat]
      /\ cpc \in [Clients -> ClientPCs] /\ cgen \in [Clients -> Nat]
      /\ ctoken \in [Clients -> {NoClaim} \cup Tokens]
      /\ cactive \in [Clients -> BOOLEAN]
  BY ClaimTypes DEF TypeOK
<1>2. ASSUME NEW c \in Clients, Start(c) \/ ClientStep(c) \/ WaitTimesOut(c)
      PROVE  Kept
  <2> USE DEF MoveFrom, LaunchingPCs
  <2>1. CASE Start(c)
    <3>1. SameTokens
      BY <1>1, <2>1 DEF SameTokens, Start, StartUpdate, StartRead, StartRefresh,
         Clear, workerVars
    <3>2. QED BY <3>1, SameTokensKeepOwners
  <2>2. CASE ProbeLocks(c) \/ ProbeEnds(c)
    <3>1. SameTokens
      BY <1>1, <2>2 DEF SameTokens, ProbeLocks, ProbeEnds, ProbePCs, AfterProbe,
         clientVars, workerVars
    <3>2. QED BY <3>1, SameTokensKeepOwners
  <2>3. CASE Request(c)
    <3>1. /\ st.launches + 1 \in Tokens /\ cactive[c] \in BOOLEAN
          /\ st' = RequestGeneration(st, cactive[c])
      BY <1>1, <2>3 DEF Request, RoomForLaunch
    <3>2. CASE /\ Granted(st, st') = st.launches + 1
               /\ st'.launches = st.launches + 1 /\ st'.claim = st.launches + 1
      <4>1. st.launches + 1 # NoClaim
        BY <3>1, TokensAssumption DEF NoClaim
      <4>2. TokenHandedTo(c)
        BY <1>1, <2>3, <3>1, <3>2, <4>1 DEF TokenHandedTo, Request
      <4>3. QED BY <4>2, HandingOutKeepsOwners
    <3>3. CASE /\ Granted(st, st') = NoClaim
               /\ st'.launches = st.launches /\ st'.claim = st.claim
      <4>1. SameTokens
        BY <1>1, <2>3, <3>3 DEF SameTokens, Request
      <4>2. QED BY <4>1, SameTokensKeepOwners
    <3>4. QED BY <1>1, <3>1, <3>2, <3>3, GrantsOnClaims
  <2>4. CASE Claim(c)
    <3>1. /\ st.launches + 1 \in Tokens /\ cactive[c] \in BOOLEAN
          /\ st' = ClaimPending(st, cactive[c])
      BY <1>1, <2>4 DEF Claim, RoomForLaunch
    <3>2. CASE /\ Granted(st, st') = st.launches + 1
               /\ st'.launches = st.launches + 1 /\ st'.claim = st.launches + 1
      <4>1. st.launches + 1 # NoClaim
        BY <3>1, TokensAssumption DEF NoClaim
      <4>2. TokenHandedTo(c)
        BY <1>1, <2>4, <3>1, <3>2, <4>1 DEF TokenHandedTo, Claim, workerVars
      <4>3. QED BY <4>2, HandingOutKeepsOwners
    <3>3. CASE /\ Granted(st, st') = NoClaim
               /\ st'.launches = st.launches /\ st'.claim = st.claim
      <4>1. SameTokens
        BY <1>1, <2>4, <3>3 DEF SameTokens, Claim, workerVars
      <4>2. QED BY <4>1, SameTokensKeepOwners
    <3>4. QED BY <1>1, <3>1, <3>2, <3>3, GrantsOnClaims
  <2>5. CASE LaunchSucceeds(c)
    BY <2>5, LaunchKeepsOwners
  <2>6. CASE ClearClaim(c)
    BY <2>6, ClearingKeepsOwners
  <2>7. CASE LaunchFails(c)
    <3>1. /\ UNCHANGED <<st, wpc, ctoken>>
          /\ cpc[c] \in LaunchingPCs /\ cpc'[c] \in LaunchingPCs
          /\ \A d \in Clients \ {c} : cpc'[d] = cpc[d]
      BY <1>1, <2>7 DEF LaunchFails, workerVars
    <3>2. \A d \in Clients : cpc'[d] \in LaunchingPCs <=> cpc[d] \in LaunchingPCs
      BY <3>1
    <3> HIDE DEF LaunchingPCs
    <3>3. QED BY <3>1, <3>2 DEF TokensAreNew, ClaimHasOwner
  <2>8. CASE ReportLaunchFailure(c) \/ Acknowledge(c)
    <3>1. cgen[c] \in Nat /\ NoClaim \in Tokens \cup {NoClaim}
      BY <1>1
    <3>2. \/ st' = FailGeneration(st, cgen[c])
          \/ st' = AcknowledgeFullRefresh(st, cgen[c])
      BY <2>8 DEF ReportLaunchFailure, Acknowledge
    <3>3. st'.claim = st.claim /\ st'.launches = st.launches
      BY <1>1, <3>1, <3>2, TransactionsOnClaims
    <3>4. SameTokens
      BY <1>1, <2>8, <3>3 DEF SameTokens, ReportLaunchFailure, Acknowledge, workerVars
    <3>5. QED BY <3>4, SameTokensKeepOwners
  <2>9. CASE \/ SnapshotRequested(c) \/ LeadReturns(c) \/ WaitIsOver(c)
             \/ WaitSuspectsFailure(c) \/ BailOrPollAgain(c) \/ WaitTimesOut(c)
             \/ LockRefresh(c) \/ RefreshSucceeds(c) \/ RefreshFails(c)
             \/ RefreshFailsLate(c)
    <3>1. UNCHANGED <<st, wpc>>
      BY <2>9 DEF SnapshotRequested, LeadReturns, WaitIsOver, WaitSuspectsFailure,
         BailOrPollAgain, WaitTimesOut, LockRefresh, RefreshSucceeds,
         RefreshFails, RefreshFailsLate, workerVars
    <3>2. /\ cpc[c] \notin LaunchingPCs /\ cpc'[c] \notin LaunchingPCs
          /\ \A d \in Clients \ {c} : cpc'[d] = cpc[d] /\ ctoken'[d] = ctoken[d]
      BY <1>1, <2>9 DEF SnapshotRequested, LeadReturns, WaitIsOver,
         WaitSuspectsFailure, BailOrPollAgain, WaitTimesOut, LockRefresh,
         RefreshSucceeds, RefreshFails, RefreshFailsLate
    <3>3. SameTokens
      BY <3>1, <3>2 DEF SameTokens
    <3>4. QED BY <3>3, SameTokensKeepOwners
  <2>10. QED
    BY <1>2, <2>1, <2>2, <2>3, <2>4, <2>5, <2>6, <2>7, <2>8, <2>9 DEF ClientStep
<1>3. ASSUME NEW t \in Tokens, WorkerStep(t)
      PROVE  Kept
  <2>1. wtarget[t] \in Nat /\ t \in Tokens \cup {NoClaim} /\ wpc[t] \in WorkerPCs
    BY <1>1
  <2>2. WorkerOnly(t)
    <3> USE DEF WorkerMoves, OwningPCs, ServingPCs, WorkerOnly
    <3>1. CASE AwaitLock(t) \/ TryLock(t)
      BY <1>1, <3>1 DEF AwaitLock, TryLock, clientVars
    <3>2. CASE AcknowledgeWorkerStart(t)
      <4>1. st'.launches = st.launches /\ st'.claim = st.claim
        BY <1>1, <2>1, <3>2, TransactionsOnClaims DEF AcknowledgeWorkerStart
      <4>2. QED BY <1>1, <3>2, <4>1 DEF AcknowledgeWorkerStart, clientVars
    <3>3. CASE LookForWork(t) \/ Debounce(t) \/ CheckIndex(t)
      BY <1>1, <3>3 DEF LookForWork, Debounce, CheckIndex, clientVars
    <3>4. CASE Finish(t)
      <4>1. /\ st'.launches = st.launches /\ st'.claim \in {st.claim, NoClaim}
            /\ ~Pending(st) => st'.claim # t
        <5>1. /\ st' = FinishIfIdle(st, t) /\ t # NoClaim
          BY <3>4, TokensAssumption DEF Finish, NoClaim
        <5>2. st'.launches = st.launches /\ st'.claim \in {st.claim, NoClaim}
          BY <1>1, <5>1, EndingsOnClaims
        <5>3. ~Pending(st) => st'.claim # t
          BY <1>1, <2>1, <5>1, TransactionsOnClaims DEF FinishIfIdle
        <5>4. QED BY <5>2, <5>3
      <4>2. QED BY <1>1, <3>4, <4>1 DEF Finish, clientVars
    <3>5. CASE LockIndex(t) \/ ScanSucceeds(t) \/ ScanFails(t)
      BY <1>1, <3>5 DEF LockIndex, ScanSucceeds, ScanFails, clientVars
    <3>6. CASE Complete(t)
      <4>1. st'.launches = st.launches /\ st'.claim = st.claim
        BY <1>1, <2>1, <3>6, TransactionsOnClaims DEF Complete
      <4>2. QED BY <1>1, <3>6, <4>1 DEF Complete, clientVars
    <3>7. CASE RecordFailure(t)
      <4>1. /\ st'.launches = st.launches /\ st'.claim \in {st.claim, NoClaim}
            /\ ~(st.requested > wtarget[t]) => st'.claim # t
        <5>1. st' = RecordFailureAndFinish(st, t, wtarget[t]) /\ t # NoClaim
          BY <3>7, TokensAssumption DEF RecordFailure, NoClaim
        <5>2. st'.launches = st.launches /\ st'.claim \in {st.claim, NoClaim}
          BY <1>1, <2>1, <5>1, EndingsOnClaims
        <5>3. ~(st.requested > wtarget[t]) => st'.claim # t
          BY <1>1, <5>1 DEF RecordFailureAndFinish, ReleaseClaim, ValidState,
                            CoordinatorStates
        <5>4. QED BY <5>2, <5>3
      <4>2. QED BY <1>1, <3>7, <4>1 DEF RecordFailure, clientVars
    <3>8. CASE Leave(t)
      BY <1>1, <3>8 DEF Leave, clientVars
    <3>9. QED BY <1>3, <3>1, <3>2, <3>3, <3>4, <3>5, <3>6, <3>7, <3>8 DEF WorkerStep
  <2>3. QED BY <2>2, WorkerKeepsOwners
<1>4. CASE Edit \/ ClaimAges \/ UNCHANGED vars
  <2>1. st'.claim = st.claim /\ st'.launches = st.launches
    BY <1>1, <1>4 DEF Edit, ClaimAges, vars, ValidState, CoordinatorStates
  <2>2. SameTokens
    BY <1>4, <2>1 DEF SameTokens, Edit, ClaimAges, vars, clientVars, workerVars
  <2>3. QED BY <2>2, SameTokensKeepOwners
<1>5. ~Crash
  BY <1>1 DEF Crash, CrashWorker, CrashClient, CrashPublisher, LauncherDies
<1>6. QED BY <1>2, <1>3, <1>4, <1>5 DEF Next, AllEnded

\* What a refresh leaves pending was pending, and keeps a failure that covers
\* it.
LEMMA AcknowledgedFailures ==
  ASSUME NEW s, ValidState(s), NEW g \in Nat
  PROVE  LET r == AcknowledgeFullRefresh(s, g)
         IN  Pending(r) => Pending(s) /\ (s.failure >= s.requested => r.failure = s.failure)
<1>1. /\ Advance(s, g) \in Nat /\ s.completed <= Advance(s, g)
      /\ s.requested \in Nat /\ s.completed \in Nat /\ s.failure \in Nat
  BY AdvanceIsBounded DEF ValidState, CoordinatorStates
<1>2. /\ AcknowledgeFullRefresh(s, g).requested = s.requested
      /\ AcknowledgeFullRefresh(s, g).completed = Advance(s, g)
      /\ AcknowledgeFullRefresh(s, g).failure =
           IF s.failure <= Advance(s, g) THEN NoFailure ELSE s.failure
  BY DEF AcknowledgeFullRefresh, ValidState, CoordinatorStates
<1>3. QED BY <1>1, <1>2 DEF Pending

\* What is pending stays seen through a step in which nothing is killed.
LEMMA StepKeepsPendingSeen ==
  ASSUME TypeOK, TokensAreNew, PendingIsSeen, [Next]_vars, crashes' = crashes
  PROVE  PendingIsSeen'
<1> SUFFICES ASSUME launchFailures' = 0
             PROVE  /\ \A c \in Clients : cpc'[c] \notin {"clearClaim", "snapshot", "fail"}
                    /\ Pending(st') /\ st'.claim = NoClaim =>
                         \/ \E t \in Tokens : wpc'[t] \in ServingPCs
                         \/ st'.failure >= st'.requested
  BY DEF PendingIsSeen
<1> DEFINE LatePCs == {"clearClaim", "snapshot", "fail"}
           OutOfSight(s, w) ==
             Pending(s) /\ s.claim = NoClaim =>
               (\E t \in Tokens : w[t] \in ServingPCs) \/ s.failure >= s.requested
           Seen == (\A c \in Clients : cpc'[c] \notin LatePCs) /\ OutOfSight(st', wpc')
<1>1. /\ ValidState(st) /\ crashes \in Nat /\ launchFailures \in Nat
      /\ wpc \in [Tokens -> WorkerPCs] /\ wtarget \in [Tokens -> Nat]
      /\ cpc \in [Clients -> ClientPCs] /\ cgen \in [Clients -> Nat]
      /\ ctoken \in [Clients -> {NoClaim} \cup Tokens]
      /\ cactive \in [Clients -> BOOLEAN]
  BY ClaimTypes DEF TypeOK
<1>2. launchFailures = 0
  BY <1>1 DEF Next, Start, ClientStep, WorkerStep, Crash, StartUpdate, StartRead,
     StartRefresh, Clear, ProbeLocks, ProbeEnds, Request, Claim, LaunchSucceeds,
     LaunchFails, ClearClaim, SnapshotRequested, ReportLaunchFailure,
     LeadReturns, WaitIsOver, WaitSuspectsFailure, BailOrPollAgain,
     WaitTimesOut, LockRefresh, RefreshSucceeds, RefreshFails,
     RefreshFailsLate, Acknowledge, AwaitLock, TryLock, AcknowledgeWorkerStart,
     LookForWork, Debounce, Finish, CheckIndex, LockIndex, ScanSucceeds,
     ScanFails, Complete, RecordFailure, Leave, Edit, ClaimAges, CrashWorker,
     CrashClient, CrashPublisher, LauncherDies, AllEnded, vars, budgets
<1>3. (\A c \in Clients : cpc[c] \notin LatePCs) /\ OutOfSight(st, wpc)
  BY <1>2 DEF PendingIsSeen
<1>4. ASSUME NEW c \in Clients, Start(c) \/ ClientStep(c) \/ WaitTimesOut(c)
      PROVE  Seen
  <2>1. /\ ~ClearClaim(c) /\ ~SnapshotRequested(c) /\ ~ReportLaunchFailure(c)
        /\ ~LaunchFails(c)
    BY <1>1, <1>2, <1>3 DEF ClearClaim, SnapshotRequested, ReportLaunchFailure,
       LaunchFails, MoveFrom
  <2>2. CASE Request(c) \/ Claim(c)
    <3>1. /\ st.launches + 1 \in Tokens /\ cactive[c] \in BOOLEAN
          /\ \/ st' = RequestGeneration(st, cactive[c])
             \/ st' = ClaimPending(st, cactive[c])
      BY <1>1, <2>2 DEF Request, Claim, RoomForLaunch
    <3>2. st'.claim = NoClaim => st' = st /\ ~Pending(st)
      <4>1. st.launches + 1 # NoClaim
        BY <3>1, TokensAssumption DEF NoClaim
      <4>2. QED BY <1>1, <3>1, <4>1, GrantsOnClaims
    <3>3. \A d \in Clients : cpc'[d] \notin LatePCs
      BY <1>1, <1>3, <2>2 DEF Request, Claim, MoveFrom
    <3>4. QED BY <3>2, <3>3
  <2>3. CASE Acknowledge(c)
    <3>1. st' = AcknowledgeFullRefresh(st, cgen[c]) /\ wpc' = wpc
      BY <2>3 DEF Acknowledge, workerVars
    <3>2. cgen[c] \in Nat /\ NoClaim \in Tokens \cup {NoClaim}
      BY <1>1
    <3>3. st'.claim = st.claim /\ st'.requested = st.requested
      BY <1>1, <3>1, <3>2, TransactionsOnClaims, CompletionsAreValid
    <3>4. Pending(st') => Pending(st) /\ (st.failure >= st.requested => st'.failure = st.failure)
      BY <1>1, <3>1, <3>2, AcknowledgedFailures
    <3>5. \A d \in Clients : cpc'[d] \notin LatePCs
      BY <1>1, <1>3, <2>3 DEF Acknowledge, MoveFrom
    <3>6. QED BY <1>3, <3>1, <3>3, <3>4, <3>5
  <2>4. CASE LaunchSucceeds(c)
    <3>1. /\ st' = st /\ cpc[c] = "launch"
          /\ wpc' = [wpc EXCEPT ![ctoken[c]] = "await"]
          /\ \A d \in Clients : cpc'[d] \notin LatePCs
      BY <1>1, <1>3, <2>4 DEF LaunchSucceeds, MoveFrom
    <3>2. ctoken[c] \in Tokens /\ wpc[ctoken[c]] \notin ServingPCs
      BY <3>1 DEF TokensAreNew, LaunchingPCs, ServingPCs
    <3>3. \A t \in Tokens : wpc[t] \in ServingPCs => wpc'[t] \in ServingPCs
      BY <1>1, <3>1, <3>2
    <3>4. QED BY <1>3, <3>1, <3>3
  <2>5. CASE Start(c) \/ ProbeLocks(c) \/ ProbeEnds(c)
    <3>1. UNCHANGED <<st, wpc>>
      BY <2>5 DEF Start, StartUpdate, StartRead, StartRefresh, Clear, ProbeLocks,
         ProbeEnds, workerVars
    <3>2. \A d \in Clients : cpc'[d] \notin LatePCs
      BY <1>1, <1>3, <2>5 DEF Start, StartUpdate, StartRead, StartRefresh, Clear,
         ProbeLocks, ProbeEnds, ProbePCs, AfterProbe, clientVars, MoveFrom
    <3>3. QED BY <1>3, <3>1, <3>2
  <2>6. CASE \/ LeadReturns(c) \/ WaitIsOver(c)
             \/ WaitSuspectsFailure(c) \/ BailOrPollAgain(c) \/ WaitTimesOut(c)
             \/ LockRefresh(c) \/ RefreshSucceeds(c) \/ RefreshFails(c)
             \/ RefreshFailsLate(c)
    <3>1. UNCHANGED <<st, wpc>>
      BY <2>6 DEF LeadReturns, WaitIsOver, WaitSuspectsFailure, BailOrPollAgain,
         WaitTimesOut, LockRefresh, RefreshSucceeds, RefreshFails,
         RefreshFailsLate, workerVars
    <3>2. \A d \in Clients : cpc'[d] \notin LatePCs
      BY <1>1, <1>3, <2>6 DEF LeadReturns, WaitIsOver, WaitSuspectsFailure,
         BailOrPollAgain, WaitTimesOut, LockRefresh, RefreshSucceeds,
         RefreshFails, RefreshFailsLate, MoveFrom
    <3>3. QED BY <1>3, <3>1, <3>2
  <2>7. QED
    BY <1>4, <2>1, <2>2, <2>3, <2>4, <2>5, <2>6 DEF ClientStep
<1>5. ASSUME NEW t \in Tokens, WorkerStep(t)
      PROVE  Seen
  <2>1. cpc' = cpc /\ wtarget[t] \in Nat /\ t \in Tokens \cup {NoClaim}
    BY <1>1, <1>5 DEF WorkerStep, AwaitLock, TryLock, AcknowledgeWorkerStart,
       LookForWork, Debounce, Finish, CheckIndex, LockIndex, ScanSucceeds,
       ScanFails, Complete, RecordFailure, Leave, clientVars
  <2>2. OutOfSight(st', wpc')
    <3> USE DEF WorkerMoves, ServingPCs
    <3>1. CASE AwaitLock(t) \/ TryLock(t) \/ Leave(t)
      BY <1>1, <1>3, <3>1 DEF AwaitLock, TryLock, Leave
    <3>2. CASE AcknowledgeWorkerStart(t)
      <4>1. /\ st'.requested = st.requested /\ st'.completed = st.completed
            /\ st'.claim = st.claim /\ st'.failure = st.failure
        BY <1>1, <2>1, <3>2, TransactionsOnClaims, TransactionsAreValid
           DEF AcknowledgeWorkerStart
      <4>2. \A u \in Tokens : wpc[u] \in ServingPCs => wpc'[u] \in ServingPCs
        BY <1>1, <3>2 DEF AcknowledgeWorkerStart
      <4>3. QED BY <1>3, <4>1, <4>2 DEF Pending
    <3>3. CASE \/ LookForWork(t) \/ Debounce(t) \/ CheckIndex(t) \/ LockIndex(t)
               \/ ScanSucceeds(t) \/ ScanFails(t) \/ Complete(t)
      <4>1. wpc'[t] \in ServingPCs
        BY <1>1, <3>3 DEF LookForWork, Debounce, CheckIndex, LockIndex,
           ScanSucceeds, ScanFails, Complete
      <4>2. QED BY <4>1
    <3>4. CASE Finish(t)
      <4>1. CASE Pending(st)
        BY <1>1, <3>4, <4>1 DEF Finish
      <4>2. CASE ~Pending(st)
        <5>1. st' = FinishIfIdle(st, t)
          BY <3>4 DEF Finish
        <5>2. st'.requested = st.requested /\ st'.completed = st.completed
          BY <1>1, <5>1, EndingsAreValid
        <5>3. ~Pending(st')
          BY <4>2, <5>2 DEF Pending
        <5>4. QED BY <5>3
      <4>3. QED BY <4>1, <4>2
    <3>5. CASE RecordFailure(t)
      <4>1. CASE st.requested > wtarget[t]
        BY <1>1, <3>5, <4>1 DEF RecordFailure
      <4>2. CASE ~(st.requested > wtarget[t])
        <5>1. st' = RecordFailureAndFinish(st, t, wtarget[t])
          BY <3>5 DEF RecordFailure
        <5>2. st'.requested = st.requested /\ st'.failure = wtarget[t]
          BY <1>1, <2>1, <5>1, EndingsAreValid, EndingsOnClaims
        <5>3. st.requested \in Nat
          BY <1>1 DEF ValidState, CoordinatorStates
        <5>4. QED BY <2>1, <4>2, <5>2, <5>3
      <4>3. QED BY <4>1, <4>2
    <3>6. QED BY <1>5, <3>1, <3>2, <3>3, <3>4, <3>5 DEF WorkerStep
  <2>3. QED BY <1>3, <2>1, <2>2
<1>6. CASE Edit \/ ClaimAges \/ UNCHANGED vars
  <2>1. /\ st'.claim = st.claim /\ st'.requested = st.requested
        /\ st'.completed = st.completed /\ st'.failure = st.failure
    BY <1>1, <1>6 DEF Edit, ClaimAges, vars, ValidState, CoordinatorStates
  <2>2. wpc' = wpc /\ cpc' = cpc
    BY <1>6 DEF Edit, ClaimAges, vars, clientVars, workerVars
  <2>3. QED BY <1>3, <2>1, <2>2 DEF Pending
<1>7. ~Crash
  BY <1>1 DEF Crash, CrashWorker, CrashClient, CrashPublisher, LauncherDies
<1>8. QED BY <1>4, <1>5, <1>6, <1>7 DEF Next, AllEnded

\* Nothing un-kills a process.
LEMMA CrashesOnlyGrow ==
  ASSUME TypeOK, [Next]_vars
  PROVE  crashes' = crashes \/ crashes' # 0
<1>1. crashes \in Nat
  BY DEF TypeOK
<1>2. CASE Crash
  BY <1>1, <1>2 DEF Crash, CrashWorker, CrashClient, CrashPublisher, LauncherDies
<1>3. CASE ~Crash
  BY <1>3 DEF Next, Start, ClientStep, WorkerStep, StartUpdate, StartRead,
     StartRefresh, Clear, ProbeLocks, ProbeEnds, Request, Claim, LaunchSucceeds,
     LaunchFails, ClearClaim, SnapshotRequested, ReportLaunchFailure,
     LeadReturns, WaitIsOver, WaitSuspectsFailure, BailOrPollAgain,
     WaitTimesOut, LockRefresh, RefreshSucceeds, RefreshFails,
     RefreshFailsLate, Acknowledge, AwaitLock, TryLock, AcknowledgeWorkerStart,
     LookForWork, Debounce, Finish, CheckIndex, LockIndex, ScanSucceeds,
     ScanFails, Complete, RecordFailure, Leave, Edit, ClaimAges, AllEnded,
     vars, budgets
<1>4. QED BY <1>2, <1>3

\* The claims' invariant, through every overlap of commands, launch failures
\* included; a kill ends what it promises.
THEOREM ClaimInvariant == Spec => []ClaimInv
<1>1. TypeOK /\ ClaimInv /\ [Next]_vars => ClaimInv'
  <2> SUFFICES ASSUME TypeOK, ClaimInv, [Next]_vars, crashes' = 0
               PROVE  TokensAreNew' /\ ClaimHasOwner' /\ PendingIsSeen'
    BY DEF ClaimInv
  <2>1. crashes' = crashes
    BY CrashesOnlyGrow
  <2>2. TokensAreNew /\ ClaimHasOwner /\ PendingIsSeen
    BY <2>1 DEF ClaimInv
  <2>3. QED BY <2>1, <2>2, StepKeepsOwners, StepKeepsPendingSeen
<1>2. QED BY <1>1, InitialClaims, TypeCorrect, PTL DEF Spec

\* While nothing is killed, a claim is held by a client that is launching its
\* worker or by that worker: no claim has to time out for its work to be done.
THEOREM ClaimsAreAlive == Spec => [](crashes = 0 => ClaimHasOwner)
<1>1. ClaimInv => (crashes = 0 => ClaimHasOwner)
  BY DEF ClaimInv
<1>2. QED BY <1>1, ClaimInvariant, PTL

\* Pending work is never stranded as long as every launch succeeds; that a
\* failed launch can strand it is the finding of the Stranded run.
THEOREM PendingIsServed ==
  Spec => [](launchFailures = 0 => PendingIsNotStranded)
<1>1. ClaimInv => (launchFailures = 0 => PendingIsNotStranded)
  BY DEF ClaimInv, PendingIsSeen, PendingIsNotStranded
<1>2. QED BY <1>1, ClaimInvariant, PTL
=============================================================================
