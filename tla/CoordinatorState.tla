-------------------------- MODULE CoordinatorState --------------------------
(***************************************************************************)
(* The update coordinator's state file (db.update-state-v1.json) and the   *)
(* transactions that the processes of ast-index run on it.  Each operator  *)
(* maps the record read under the state lock to the record written back    *)
(* before the lock is released (with_locked_update_state): a transaction   *)
(* is atomic, and the write replaces the file by a rename, so a crash      *)
(* leaves either record.                                                   *)
(*                                                                         *)
(* Abstractions.  A generation and a claim token are counted from 1, and 0 *)
(* stands for an absent Option.  worker_scheduled is TRUE exactly when     *)
(* there is a claim, and last_error is present exactly when                *)
(* last_failure_generation is, so neither has a field of its own.          *)
(* worker_claimed_at_ms is reduced to the only question asked of it: is    *)
(* the claim younger than one second?                                      *)
(*                                                                         *)
(* An operator introduced as a slip is no part of the model: it is a       *)
(* mistake that the operator below it could contain and that some property *)
(* excludes.                                                               *)
(***************************************************************************)
EXTENDS Integers

NoClaim   == 0
NoFailure == 0

\* The states of a coordinator whose launches are numbered by Tokens.
CoordinatorStates(Tokens) ==
  [requested : Nat,                    \* generations queued so far
   completed : Nat,                    \* newest generation known to be served
   launches  : {0} \cup Tokens,        \* worker tokens given out so far
   claim     : {NoClaim} \cup Tokens,  \* the token entitled to lead
   started   : {NoClaim} \cup Tokens,  \* the token whose worker has the lock
   fresh     : BOOLEAN,                \* claimed less than a second ago
   failure   : Nat]                    \* generation of the last failed update

\* A missing state file is read as this one.
DefaultState ==
  [requested |-> 0, completed |-> 0, launches |-> 0, claim |-> NoClaim,
   started |-> NoClaim, fresh |-> FALSE, failure |-> NoFailure]

Pending(s) == s.requested > s.completed

\* workerActive was probed before the state lock was taken.
ClaimIsLive(s, workerActive) ==
  s.claim # NoClaim /\ (workerActive \/ s.fresh)

TakeClaim(s) ==
  [s EXCEPT !.launches = s.launches + 1, !.claim = s.launches + 1,
            !.started = NoClaim, !.fresh = TRUE]

\* Slip: the claim is cleared without comparing its token.
ReleaseAnyClaim(s, token) ==
  [s EXCEPT !.claim = NoClaim, !.started = NoClaim, !.fresh = FALSE]

ReleaseClaim(s, token) ==
  IF s.claim = token
  THEN [s EXCEPT !.claim = NoClaim, !.started = NoClaim, !.fresh = FALSE]
  ELSE s

\* Slip: a request that finds a live claim is folded into the newest one.
CoalesceIntoNewest(s, workerActive) ==
  IF ClaimIsLive(s, workerActive) THEN s
  ELSE TakeClaim([s EXCEPT !.requested = s.requested + 1])

RequestGeneration(s, workerActive) ==
  LET queued == [s EXCEPT !.requested = s.requested + 1]
  IN  IF ClaimIsLive(s, workerActive) THEN queued ELSE TakeClaim(queued)

ClaimPending(s, workerActive) ==
  IF ~Pending(s) \/ ClaimIsLive(s, workerActive) THEN s ELSE TakeClaim(s)

\* The claim token that a transaction from s to t hands to its caller.
Granted(s, t) == IF t.launches # s.launches THEN t.claim ELSE NoClaim

AcknowledgeStart(s, token) ==
  IF s.claim = token THEN [s EXCEPT !.started = token] ELSE s

FinishIfIdle(s, token) == IF Pending(s) THEN s ELSE ReleaseClaim(s, token)

RecordFailureAndFinish(s, token, generation) ==
  LET failed == [s EXCEPT !.failure = generation]
  IN  IF s.requested > generation THEN failed ELSE ReleaseClaim(failed, token)

FailGeneration(s, generation) ==
  IF generation <= s.completed THEN s ELSE [s EXCEPT !.failure = generation]

\* Slip: the newest completion overwrites a later one.
AdvanceOrFallBack(s, generation) ==
  IF generation < s.requested THEN generation ELSE s.requested

\* completed_generation.max(generation.min(requested_generation))
Advance(s, generation) ==
  LET served == IF generation < s.requested THEN generation ELSE s.requested
  IN  IF served > s.completed THEN served ELSE s.completed

\* Slip: a finished scan completes whatever has been queued by then.
CompleteNewest(s, generation) ==
  [s EXCEPT !.completed = s.requested, !.failure = NoFailure]

CompleteGeneration(s, generation) ==
  [s EXCEPT !.completed = Advance(s, generation), !.failure = NoFailure]

\* Slip: a refresh acknowledges what was queued while it ran, too.
AcknowledgeNewest(s, generation) ==
  [s EXCEPT !.completed = s.requested, !.failure = NoFailure]

AcknowledgeFullRefresh(s, generation) ==
  [s EXCEPT !.completed = Advance(s, generation),
            !.failure = IF s.failure <= Advance(s, generation)
                        THEN NoFailure ELSE s.failure]
=============================================================================
