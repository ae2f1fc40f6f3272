----------------------------- MODULE LogWindows -----------------------------
(***************************************************************************)
(* A long git log read in windows of commits, by several processes at once,*)
(* joined in the order of the windows (windowed).  A window whose output is*)
(* too large is read in halves.                                            *)
(*                                                                         *)
(* An operator introduced as a slip is no part of the model: it is a       *)
(* mistake that the operator below it could contain and that some property *)
(* excludes.                                                               *)
(***************************************************************************)
EXTENDS Integers, Sequences, SequencesExt

CONSTANTS Threads,     \* threads, of which as many run as there are windows
          Readings     \* the logs to consider

\* A log: the output of each commit, the size of a window, the output that a
\* process may produce, and the commits that cannot be read.
IsReading(j) ==
  /\ j.sizes \in Seq(Nat) /\ j.window \in Nat \ {0} /\ j.limit \in Nat
  /\ j.broken \subseteq 1..Len(j.sizes)

ReadingAssumption == Threads # {} /\ \A j \in Readings : IsReading(j)

VARIABLES
  job,       \* the log, which never changes
  shared,    \* next window to hand out; whether one could not be read
  worker,    \* each thread's position and window
  slots,     \* what became of each window
  consumer,  \* the collecting thread
  result     \* the commits collected

vars == <<job, shared, worker, slots, consumer, result>>

Commits == 1..Len(job.sizes)
Windows == (Len(job.sizes) + job.window - 1) \div job.window

Unread == [state |-> "none"]
Failed == [state |-> "failed"]
Read(commits) == [state |-> "read", commits |-> commits]

Both(a, b) ==
  IF a.state = "read" /\ b.state = "read" THEN Read(a.commits \o b.commits) ELSE Failed

\* window_into: the commits after the first `skip`, `count` of them.
WindowInto[skip \in 0..Len(job.sizes), count \in 0..Len(job.sizes)] ==
  LET asked  == {c \in Commits : skip < c /\ c <= skip + count}
      output == FoldSeq(LAMBDA c, sum : sum + job.sizes[c], 0, SetToSeq(asked))
      half   == count \div 2
  IN  CASE asked \cap job.broken # {} -> Failed
        [] output <= job.limit -> Read([i \in 1..count |-> skip + i])
        [] output > job.limit /\ count <= 1 -> Failed
        [] OTHER -> Both(WindowInto[skip, half], WindowInto[skip + half, count - half])

ReadWindow(w) ==
  LET skip == (w - 1) * job.window
      rest == Len(job.sizes) - skip
  IN  WindowInto[skip, IF rest < job.window THEN rest ELSE job.window]

Init ==
  /\ job \in Readings
  /\ shared = [next |-> 1, failed |-> FALSE]
  /\ worker = [t \in Threads |-> [pc |-> "check", window |-> 0]]
  /\ slots = [w \in 1..Windows |-> Unread]
  /\ consumer = [pc |-> "scope", window |-> 1]
  /\ result = <<>>

CheckFailed(t) ==
  /\ worker[t].pc = "check"
  /\ worker' = [worker EXCEPT ![t].pc = IF shared.failed THEN "ended" ELSE "take"]
  /\ UNCHANGED <<job, shared, slots, consumer, result>>

Take(t) ==
  /\ worker[t].pc = "take"
  /\ shared' = [shared EXCEPT !.next = @ + 1]
  /\ worker' = [worker EXCEPT ![t] =
       [pc |-> IF shared.next <= Windows THEN "read" ELSE "ended", window |-> shared.next]]
  /\ UNCHANGED <<job, slots, consumer, result>>

\* The flag goes up before the slot is filled.
ReadLog(t) ==
  /\ worker[t].pc = "read"
  /\ worker' = [worker EXCEPT ![t].pc = "store"]
  /\ shared' = [shared EXCEPT !.failed = @ \/ ReadWindow(worker[t].window) = Failed]
  /\ UNCHANGED <<job, slots, consumer, result>>

Store(t) ==
  /\ worker[t].pc = "store"
  /\ worker' = [worker EXCEPT ![t].pc = "check"]
  /\ slots' = [slots EXCEPT ![worker[t].window] = ReadWindow(worker[t].window)]
  /\ UNCHANGED <<job, shared, consumer, result>>

\* All threads are joined before the slots are collected.
Scoped ==
  /\ consumer.pc = "scope" /\ \A t \in Threads : worker[t].pc = "ended"
  /\ consumer' = [consumer EXCEPT !.pc = "collect"]
  /\ UNCHANGED <<job, shared, worker, slots, result>>

\* The first slot that holds no commits ends it: with the error that a git
\* process left there, or because nobody read the window.
Collect ==
  /\ consumer.pc = "collect"
  /\ LET w == consumer.window
     IN  CASE w > Windows -> consumer' = [consumer EXCEPT !.pc = "done"] /\ UNCHANGED result
           [] w <= Windows /\ slots[w] = Unread ->
                consumer' = [consumer EXCEPT !.pc = "notread"] /\ UNCHANGED result
           [] w <= Windows /\ slots[w] = Failed ->
                consumer' = [consumer EXCEPT !.pc = "failed"] /\ UNCHANGED result
           [] OTHER -> /\ consumer' = [consumer EXCEPT !.window = @ + 1]
                       /\ result' = result \o slots[w].commits
  /\ UNCHANGED <<job, shared, worker, slots>>

Over == consumer.pc \in {"done", "notread", "failed"}

WorkerStep(t) == CheckFailed(t) \/ Take(t) \/ ReadLog(t) \/ Store(t)
ConsumerStep  == Scoped \/ Collect

Next == ConsumerStep \/ \E t \in Threads : WorkerStep(t)

Fairness == WF_vars(ConsumerStep) /\ \A t \in Threads : WF_vars(WorkerStep(t))

Spec == Init /\ [][Next]_vars /\ Fairness
-----------------------------------------------------------------------------
Unreadable == job.broken \cup {c \in Commits : job.sizes[c] > job.limit}

\* All commits in order, or the error of the git process that could not read
\* the first window with a commit that cannot be read: never a log with a
\* gap, and never an error that hides why.
WholeLogOrItsError ==
  /\ IsPrefix(result, [c \in Commits |-> c])
  /\ consumer.pc = "done" => Unreadable = {} /\ Len(result) = Len(job.sizes)
  /\ consumer.pc = "failed" =>
       \E c \in Unreadable : /\ \A d \in Unreadable : c <= d
                             /\ Len(result) = ((c - 1) \div job.window) * job.window
  /\ consumer.pc # "notread"
=============================================================================
