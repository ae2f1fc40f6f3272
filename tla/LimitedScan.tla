---------------------------- MODULE LimitedScan ----------------------------
(***************************************************************************)
(* A text search that walks the project (search_files_limited): the walker *)
(* deals files out to threads, which send every match through a bounded    *)
(* channel until a shared count has reached the limit.  Nobody receives    *)
(* before the walk is over.                                                *)
(***************************************************************************)
EXTENDS Integers, Sequences, FiniteSets

CONSTANTS Threads,     \* walker threads
          Scans        \* the searches to consider

\* A search: the limit, the matches in each file, and the capacity of the
\* channel, which is the limit or a thousand, whatever is more.
IsScan(j) ==
  /\ j.limit \in Nat /\ j.capacity \in Nat \ {0} /\ j.capacity >= j.limit
  /\ j.matches \in Seq(Nat)

ScanAssumption == Threads # {} /\ \A j \in Scans : IsScan(j)

VARIABLES
  job,       \* the search, which never changes
  shared,    \* files not dealt out yet; matches counted; whether to stop
  worker,    \* each thread's position, file, and matches it has passed there
  channel,   \* matches on their way: <<file, number>>
  consumer,  \* the thread that started the walk
  result     \* the matches handed to the caller

vars == <<job, shared, worker, channel, consumer, result>>

Files == 1..Len(job.matches)

Init ==
  /\ job \in Scans
  /\ shared = [files |-> Files, found |-> 0, stop |-> FALSE]
  /\ worker = [t \in Threads |-> [pc |-> "visit", file |-> 0, passed |-> 0]]
  /\ channel = <<>>
  /\ consumer = "walk"
  /\ result = <<>>

Goes(t, to) == worker' = [worker EXCEPT ![t].pc = to]

\* The next file; once one thread has asked to quit, the walk is over.
Visit(t) ==
  /\ worker[t].pc = "visit"
  /\ IF shared.stop \/ shared.files = {} THEN Goes(t, "ended") /\ UNCHANGED shared
     ELSE \E f \in shared.files :
            /\ worker' = [worker EXCEPT ![t] = [pc |-> "look", file |-> f, passed |-> 0]]
            /\ shared' = [shared EXCEPT !.files = @ \ {f}]
  /\ UNCHANGED <<job, channel, consumer, result>>

\* The next match in the file, if there is one and nobody asked to stop.
Look(t) ==
  /\ worker[t].pc = "look"
  /\ IF worker[t].passed = job.matches[worker[t].file] \/ shared.stop
     THEN Goes(t, "visit")
     ELSE worker' = [worker EXCEPT ![t].pc = "count", ![t].passed = @ + 1]
  /\ UNCHANGED <<job, shared, channel, consumer, result>>

\* fetch_add, and the flag if the limit had been reached.
Count(t) ==
  /\ worker[t].pc = "count"
  /\ shared' = [shared EXCEPT !.found = @ + 1, !.stop = @ \/ shared.found >= job.limit]
  /\ Goes(t, IF shared.found >= job.limit THEN "visit" ELSE "send")
  /\ UNCHANGED <<job, channel, consumer, result>>

Send(t) ==
  /\ worker[t].pc = "send" /\ Len(channel) < job.capacity
  /\ channel' = Append(channel, <<worker[t].file, worker[t].passed>>)
  /\ Goes(t, "look")
  /\ UNCHANGED <<job, shared, consumer, result>>

Walked ==
  /\ consumer = "walk" /\ \A t \in Threads : worker[t].pc = "ended"
  /\ consumer' = "receive"
  /\ UNCHANGED <<job, shared, worker, channel, result>>

Receive ==
  /\ consumer = "receive"
  /\ IF channel = <<>> \/ Len(result) >= job.limit
     THEN consumer' = "done" /\ UNCHANGED <<channel, result>>
     ELSE /\ result' = Append(result, Head(channel)) /\ channel' = Tail(channel)
          /\ UNCHANGED consumer
  /\ UNCHANGED <<job, shared, worker>>

Over == consumer = "done"

WorkerStep(t) == Visit(t) \/ Look(t) \/ Count(t) \/ Send(t)
ConsumerStep  == Walked \/ Receive

Next == ConsumerStep \/ \E t \in Threads : WorkerStep(t)

Fairness == WF_vars(ConsumerStep) /\ \A t \in Threads : WF_vars(WorkerStep(t))

Spec == Init /\ [][Next]_vars /\ Fairness
-----------------------------------------------------------------------------
Matches == UNION {{<<f, n>> : n \in 1..job.matches[f]} : f \in Files}

\* No match is handed over twice, and the search ends with as many as the
\* limit allows: threads that saw the limit reached took none away.
AsManyAsAllowed ==
  /\ \A i, k \in 1..Len(result) : result[i] = result[k] => i = k
  /\ {result[i] : i \in 1..Len(result)} \subseteq Matches
  /\ Over => \/ Len(result) = job.limit
             \/ Len(result) < job.limit /\ Len(result) = Cardinality(Matches)

\* The channel takes all that will ever be sent, so that nobody waits for a
\* receiver that waits for the walk.
SendersNeverWait ==
  Len(channel) + Cardinality({t \in Threads : worker[t].pc = "send"}) <= job.capacity
=============================================================================
