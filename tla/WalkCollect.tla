---------------------------- MODULE WalkCollect ----------------------------
(***************************************************************************)
(* The parallel walk of an index run: every thread gathers the entries it  *)
(* visits and hands them over when it ends; a shared count stops the walk  *)
(* at the cap on entries, which makes the run fail.                        *)
(*                                                                         *)
(* An operator introduced as a slip is no part of the model: it is a       *)
(* mistake that the operator below it could contain and that some property *)
(* excludes.                                                               *)
(***************************************************************************)
EXTENDS Integers, FiniteSets

CONSTANTS Threads,     \* walker threads
          Walks        \* the walks to consider

\* A walk: its entries, which of them cannot be read and which are files to
\* index, and the cap, 0 for none.
IsWalk(j) ==
  /\ IsFiniteSet(j.entries) /\ j.unreadable \cup j.files \subseteq j.entries
  /\ j.unreadable \cap j.files = {} /\ j.cap \in Nat

WalkAssumption == Threads # {} /\ \A j \in Walks : IsWalk(j)

VARIABLES
  job,       \* the walk, which never changes
  shared,    \* entries not visited yet; the count; whether the cap was passed;
             \* whether a thread has asked the walk to quit
  worker,    \* each thread's position, entry and what it has gathered
  channel,   \* unused
  consumer,  \* the thread that started the walk
  result     \* what has been handed over: files, and errors seen

vars == <<job, shared, worker, channel, consumer, result>>

Nothing == [files |-> {}, errors |-> 0]

Init ==
  /\ job \in Walks
  /\ shared = [left |-> job.entries, seen |-> 0, aborted |-> FALSE, quit |-> FALSE]
  /\ worker = [t \in Threads |-> [pc |-> "walk", entry |-> 0, local |-> Nothing]]
  /\ channel = <<>>
  /\ consumer = "walk"
  /\ result = Nothing

Goes(t, to) == worker' = [worker EXCEPT ![t].pc = to]

\* The walker deals out an entry, or ends the thread.
Deal(t) ==
  /\ worker[t].pc = "walk"
  /\ IF shared.quit \/ shared.left = {} THEN Goes(t, "drop") /\ UNCHANGED shared
     ELSE \E e \in shared.left :
            /\ worker' = [worker EXCEPT ![t].pc = "visit", ![t].entry = e]
            /\ shared' = [shared EXCEPT !.left = @ \ {e}]
  /\ UNCHANGED <<job, channel, consumer, result>>

\* visit: looks at the flag, then counts what can be read.
Visit(t) ==
  /\ worker[t].pc = "visit"
  /\ IF job.cap > 0 /\ shared.aborted
     THEN Goes(t, "drop") /\ shared' = [shared EXCEPT !.quit = TRUE]
     ELSE IF worker[t].entry \in job.unreadable
     THEN /\ worker' = [worker EXCEPT ![t].pc = "walk", ![t].local.errors = @ + 1]
          /\ UNCHANGED shared
     ELSE Goes(t, "count") /\ UNCHANGED shared
  /\ UNCHANGED <<job, channel, consumer, result>>

Count(t) ==
  /\ worker[t].pc = "count"
  /\ shared' = [shared EXCEPT !.seen = @ + 1]
  /\ Goes(t, IF job.cap > 0 /\ shared.seen + 1 > job.cap THEN "abort" ELSE "collect")
  /\ UNCHANGED <<job, channel, consumer, result>>

Abort(t) ==
  /\ worker[t].pc = "abort"
  /\ shared' = [shared EXCEPT !.aborted = TRUE, !.quit = TRUE]
  /\ Goes(t, "drop")
  /\ UNCHANGED <<job, channel, consumer, result>>

\* collect_walk_entry
Collect(t) ==
  /\ worker[t].pc = "collect"
  /\ worker' = [worker EXCEPT ![t].pc = "walk",
                              ![t].local.files = @ \cup ({worker[t].entry} \cap job.files)]
  /\ UNCHANGED <<job, shared, channel, consumer, result>>

\* Slip: what one thread has gathered replaces what another one did.
Replace(t) ==
  /\ worker[t].pc = "drop"
  /\ result' = IF worker[t].local = Nothing THEN result ELSE worker[t].local
  /\ Goes(t, "ended")
  /\ UNCHANGED <<job, shared, channel, consumer>>

\* The end of a thread, under the lock.
Drop(t) ==
  /\ worker[t].pc = "drop"
  /\ result' = [files  |-> result.files \cup worker[t].local.files,
                errors |-> result.errors + worker[t].local.errors]
  /\ Goes(t, "ended")
  /\ UNCHANGED <<job, shared, channel, consumer>>

Walked ==
  /\ consumer = "walk" /\ \A t \in Threads : worker[t].pc = "ended"
  /\ consumer' = IF shared.aborted THEN "failed" ELSE "done"
  /\ UNCHANGED <<job, shared, worker, channel, result>>

Over == consumer # "walk"

WorkerStep(t) == Deal(t) \/ Visit(t) \/ Count(t) \/ Abort(t) \/ Collect(t) \/ Drop(t)
ConsumerStep  == Walked

Next == ConsumerStep \/ \E t \in Threads : WorkerStep(t)

Fairness == WF_vars(ConsumerStep) /\ \A t \in Threads : WF_vars(WorkerStep(t))

Spec == Init /\ [][Next]_vars /\ Fairness
-----------------------------------------------------------------------------
Readable == Cardinality(job.entries \ job.unreadable)

\* The walk gives what one thread would: all files, or an error when there are
\* more entries than the cap.  A list cut short is never taken for the whole.
AllOrTooMany ==
  /\ consumer = "done" =>
       /\ result.files = job.files /\ result.errors = Cardinality(job.unreadable)
       /\ job.cap = 0 \/ Readable <= job.cap
  /\ consumer = "failed" => job.cap > 0 /\ Readable > job.cap
=============================================================================
