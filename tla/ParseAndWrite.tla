--------------------------- MODULE ParseAndWrite ---------------------------
(***************************************************************************)
(* The parse pipeline of a rebuild: threads parse files in any order, and  *)
(* one writer stores the results in the order of the files, a transaction  *)
(* per batch, while later files are being parsed.  A bounded channel joins *)
(* them, and threads may run at most two batches ahead of the writer.      *)
(*                                                                         *)
(* An operator introduced as a slip is no part of the model: it is a       *)
(* mistake that the operator below it could contain and that some property *)
(* excludes.                                                               *)
(***************************************************************************)
EXTENDS Integers, Sequences, FiniteSets

CONSTANTS Threads,     \* parse threads
          Rebuilds     \* the jobs to consider

\* A job: the number of files, the files per transaction, the files that yield
\* nothing (minified, unreadable), the transactions that fail, the files whose
\* parser panics, and how many threads the system can start.
IsRebuild(j) ==
  /\ j.files \in Nat \ {0} /\ j.batch \in Nat \ {0}
  /\ j.skipped \cup j.panics \subseteq 1..j.files
  /\ j.failing \subseteq Nat /\ j.startable \in Nat

ParseAssumption == Threads # {} /\ \A j \in Rebuilds : IsRebuild(j)

VARIABLES
  job,       \* the job, which never changes
  shared,    \* next file to hand out; files written; whether the writer failed
  worker,    \* each thread's position and file
  channel,   \* results on their way: [file, parsed]
  consumer,  \* the writer's position and what it holds
  result     \* the transactions

vars == <<job, shared, worker, channel, consumer, result>>

Files  == 1..job.files
Window == 2 * job.batch

\* parse gives None for a file that is skipped.
Parsed(f) == IF f \in job.skipped THEN <<>> ELSE <<f>>

Init ==
  /\ job \in Rebuilds
  /\ shared = [next |-> 1, written |-> 0, stop |-> FALSE]
  /\ worker = [t \in Threads |-> [pc |-> "unborn", file |-> 0]]
  /\ channel = <<>>
  /\ consumer = [pc |-> "spawn", pending |-> {}, frontier |-> 0,
                 consumed |-> 0, current |-> <<>>, failed |-> FALSE]
  /\ result = <<>>

Started == {t \in Threads : worker[t].pc # "unborn"}

\* The writer leaves, and the channel goes with what it holds.
Leaves(failed) ==
  /\ consumer' = [consumer EXCEPT !.pc = "join", !.failed = failed,
                                  !.pending = {}, !.current = <<>>]
  /\ channel' = <<>>

Spawn(t) ==
  /\ consumer.pc = "spawn" /\ t \notin Started
  /\ Cardinality(Started) < job.files /\ Cardinality(Started) < job.startable
  /\ worker' = [worker EXCEPT ![t].pc = "check"]
  /\ UNCHANGED <<job, shared, channel, consumer, result>>

SpawnFails ==
  /\ consumer.pc = "spawn" /\ Started # Threads
  /\ Cardinality(Started) < job.files /\ Cardinality(Started) = job.startable
  /\ Leaves(TRUE)
  /\ UNCHANGED <<job, shared, worker, result>>

AllSpawned ==
  /\ consumer.pc = "spawn"
  /\ Started = Threads \/ Cardinality(Started) = job.files
  /\ consumer' = [consumer EXCEPT !.pc = "receive"]
  /\ UNCHANGED <<job, shared, worker, channel, result>>

(***************************************************************************)
(* A parse thread.                                                         *)
(***************************************************************************)
Goes(t, from, to) == worker[t].pc = from /\ worker' = [worker EXCEPT ![t].pc = to]

CheckStop(t) ==
  /\ Goes(t, "check", IF shared.stop THEN "ended" ELSE "take")
  /\ UNCHANGED <<job, shared, channel, consumer, result>>

\* fetch_add
Take(t) ==
  /\ worker[t].pc = "take"
  /\ shared' = [shared EXCEPT !.next = @ + 1]
  /\ worker' = [worker EXCEPT ![t] =
       IF shared.next \in Files THEN [pc |-> "wait", file |-> shared.next]
       ELSE [pc |-> "ended", file |-> 0]]
  /\ UNCHANGED <<job, channel, consumer, result>>

\* Slip: one file further than the window.
WaitOneMore(t) ==
  /\ worker[t].file <= shared.written + Window + 1 \/ shared.stop
  /\ Goes(t, "wait", "parse")
  /\ UNCHANGED <<job, shared, channel, consumer, result>>

\* The thread sleeps until the writer has caught up.
Wait(t) ==
  /\ worker[t].file <= shared.written + Window \/ shared.stop
  /\ Goes(t, "wait", "parse")
  /\ UNCHANGED <<job, shared, channel, consumer, result>>

Parse(t) ==
  /\ Goes(t, "parse", IF worker[t].file \in job.panics THEN "panicked" ELSE "send")
  /\ UNCHANGED <<job, shared, channel, consumer, result>>

\* Blocks while the channel is full; fails once the writer has left.
Send(t) ==
  /\ \/ /\ consumer.pc # "join" /\ Len(channel) < Window
        /\ Goes(t, "send", "check")
        /\ channel' = Append(channel, [file |-> worker[t].file,
                                       parsed |-> Parsed(worker[t].file)])
     \/ /\ consumer.pc = "join"
        /\ Goes(t, "send", "ended")
        /\ UNCHANGED channel
  /\ UNCHANGED <<job, shared, consumer, result>>

Running == {t \in Started : worker[t].pc \notin {"ended", "panicked"}}

(***************************************************************************)
(* The writer.                                                             *)
(***************************************************************************)
Receive ==
  /\ consumer.pc = "receive" /\ channel # <<>>
  /\ consumer' = [consumer EXCEPT !.pc = "drain", !.pending = @ \cup {Head(channel)}]
  /\ channel' = Tail(channel)
  /\ UNCHANGED <<job, shared, worker, result>>

\* A parsed file joins the batch, which is stored when it is full or the last.
Joins(r) ==
  LET full == consumer.consumed + 1 = job.batch \/ consumer.frontier + 1 = job.files
  IN  consumer' = [consumer EXCEPT
        !.pc = IF full THEN "commit" ELSE "drain", !.pending = @ \ {r},
        !.frontier = @ + 1, !.consumed = @ + 1, !.current = @ \o r.parsed]

\* Slip: whatever has arrived is stored.
DrainAny ==
  /\ consumer.pc = "drain"
  /\ IF consumer.pending = {} THEN consumer' = [consumer EXCEPT !.pc = "receive"]
     ELSE \E r \in consumer.pending : Joins(r)
  /\ UNCHANGED <<job, shared, worker, channel, result>>

Drain ==
  /\ consumer.pc = "drain"
  /\ LET ready == {r \in consumer.pending : r.file = consumer.frontier + 1}
     IN  IF ready = {} THEN consumer' = [consumer EXCEPT !.pc = "receive"]
         ELSE \E r \in ready : Joins(r)
  /\ UNCHANGED <<job, shared, worker, channel, result>>

Fails == Len(result) + 1 \in job.failing

Commit ==
  /\ consumer.pc = "commit" /\ ~Fails
  /\ result' = Append(result, consumer.current)
  /\ consumer' = [consumer EXCEPT !.pc = "drain", !.consumed = 0, !.current = <<>>]
  /\ shared' = [shared EXCEPT !.written = consumer.frontier]
  /\ UNCHANGED <<job, worker, channel>>

\* Slip: the threads are not told.
FailSilently ==
  /\ consumer.pc = "commit" /\ Fails
  /\ Leaves(TRUE)
  /\ UNCHANGED <<job, shared, worker, result>>

Fail ==
  /\ consumer.pc = "commit" /\ Fails
  /\ Leaves(TRUE) /\ shared' = [shared EXCEPT !.stop = TRUE]
  /\ UNCHANGED <<job, worker, result>>

\* Every sender is gone and the channel empty.
Close ==
  /\ consumer.pc = "receive" /\ channel = <<>> /\ Running = {}
  /\ Leaves(FALSE)
  /\ UNCHANGED <<job, shared, worker, result>>

\* The scope joins the threads, and panics if one of them did.
Join ==
  /\ consumer.pc = "join" /\ Running = {}
  /\ consumer' = [consumer EXCEPT !.pc =
       IF \E t \in Threads : worker[t].pc = "panicked" THEN "panicked"
       ELSE IF consumer.failed THEN "failed" ELSE "done"]
  /\ UNCHANGED <<job, shared, worker, channel, result>>

Over == consumer.pc \in {"done", "failed", "panicked"}

WorkerStep(t) == CheckStop(t) \/ Take(t) \/ Wait(t) \/ Parse(t) \/ Send(t)
ConsumerStep  ==
  \/ (\E t \in Threads : Spawn(t)) \/ SpawnFails \/ AllSpawned
  \/ Receive \/ Drain \/ Commit \/ Fail \/ Close \/ Join

Next == ConsumerStep \/ \E t \in Threads : WorkerStep(t)

Fairness == WF_vars(ConsumerStep) /\ \A t \in Threads : WF_vars(WorkerStep(t))

Spec == Init /\ [][Next]_vars /\ Fairness
-----------------------------------------------------------------------------
(***************************************************************************)
(* What a single thread would store: the files one batch after the other,  *)
(* up to the first transaction that fails.                                 *)
(***************************************************************************)
\* There is a k-th batch, and these are its files that yield something.
IsBatch(k)    == (k - 1) * job.batch < job.files
BatchFiles(k) == {f \in Files : (k - 1) * job.batch < f /\ f <= k * job.batch /\ f \notin job.skipped}

InOrder(s, files) ==
  /\ {s[i] : i \in 1..Len(s)} = files
  /\ \A i, k \in 1..Len(s) : i < k => s[i] < s[k]

\* Transactions are those of a single thread, with the same boundaries, so
\* that every file gets the id it would get there; and what is reported is
\* what happened.
StoredInOrder ==
  /\ \A k \in 1..Len(result) : IsBatch(k) /\ k \notin job.failing /\ InOrder(result[k], BatchFiles(k))
  /\ consumer.pc = "done" => ~IsBatch(Len(result) + 1)
  /\ consumer.pc = "failed" /\ shared.stop =>
       IsBatch(Len(result) + 1) /\ Len(result) + 1 \in job.failing

\* Unless a transaction has failed, nothing is parsed that lies more than two
\* batches ahead of what is stored, and the channel never makes anyone wait.
RunAheadIsBounded ==
  /\ Len(channel) <= Window
  /\ \A t \in Threads : worker[t].pc \in {"parse", "send"} =>
       shared.stop \/ worker[t].file <= shared.written + Window
  /\ ~shared.stop =>
       Len(channel) + Cardinality({t \in Threads : worker[t].pc = "send"}) <= Window
=============================================================================
