--------------------------- MODULE BoundedProcess ---------------------------
(***************************************************************************)
(* A command of the version control system run with a deadline             *)
(* (run_bounded_capped).  The process and a helper it may leave behind     *)
(* write to two pipes; two threads read the pipes, keep so much and drop   *)
(* the rest; a loop waits until the process has ended and both pipes are   *)
(* closed, and kills the process group at the deadline.                    *)
(*                                                                         *)
(* An operator introduced as a slip is no part of the model: it is a       *)
(* mistake that the operator below it could contain and that some property *)
(* excludes.                                                               *)
(***************************************************************************)
EXTENDS Integers, Sequences, FiniteSets

CONSTANTS Commands     \* the commands to consider

Streams   == {"out", "err"}
Processes == {"child", "helper"}

\* A command: what each process writes in order and whether it ends of itself,
\* whether the helper has left the process group, what a pipe holds, how much
\* is kept of a stream, and whether the deadline may be reached.
IsCommand(j) ==
  /\ j.writes \in [Processes -> Seq(Streams)]
  /\ j.hangs \subseteq Processes /\ j.escaped \in BOOLEAN
  /\ j.pipe \in Nat \ {0} /\ j.limit \in [Streams -> Nat] /\ j.expires \in BOOLEAN
  /\ j.hangs # {} => j.expires

CommandAssumption == \A j \in Commands : IsCommand(j)

VARIABLES
  job,       \* the command, which never changes
  shared,    \* whether the deadline is past
  worker,    \* each process: whether it runs and how much it has written
  channel,   \* how much is in each pipe
  consumer,  \* the loop: where it is and whether it knows that the child ended
  result     \* each reader: what it kept, whether it dropped any, the end seen

vars == <<job, shared, worker, channel, consumer, result>>

Init ==
  /\ job \in Commands
  /\ shared = FALSE
  /\ worker = [p \in Processes |-> [pc |-> "runs", written |-> 0]]
  /\ channel = [s \in Streams |-> 0]
  /\ consumer = [pc |-> "poll", exited |-> FALSE]
  /\ result = [s \in Streams |-> [kept |-> 0, truncated |-> FALSE, closed |-> FALSE]]

Over == consumer.pc # "poll"

Least(a, b) == IF a < b THEN a ELSE b

Expire ==
  /\ ~Over /\ job.expires /\ ~shared
  /\ shared' = TRUE
  /\ UNCHANGED <<job, worker, channel, consumer, result>>

(***************************************************************************)
(* The processes.  A write waits while the pipe is full.                   *)
(***************************************************************************)
HasWritten(p) == worker[p].written = Len(job.writes[p])

Write(p) ==
  /\ ~Over /\ worker[p].pc = "runs" /\ ~HasWritten(p)
  /\ LET s == job.writes[p][worker[p].written + 1]
     IN  channel[s] < job.pipe /\ channel' = [channel EXCEPT ![s] = @ + 1]
  /\ worker' = [worker EXCEPT ![p].written = @ + 1]
  /\ UNCHANGED <<job, shared, consumer, result>>

Exit(p) ==
  /\ ~Over /\ worker[p].pc = "runs" /\ HasWritten(p) /\ p \notin job.hangs
  /\ worker' = [worker EXCEPT ![p].pc = "ended"]
  /\ UNCHANGED <<job, shared, channel, consumer, result>>

(***************************************************************************)
(* The readers.                                                            *)
(***************************************************************************)
Takes(s, n) ==
  /\ channel' = [channel EXCEPT ![s] = @ - n]
  /\ result' = [result EXCEPT ![s].kept = Least(@ + n, job.limit[s]),
                              ![s].truncated = @ \/ result[s].kept + n > job.limit[s]]
  /\ UNCHANGED <<job, shared, worker, consumer>>

\* Slip: nothing is read beyond the limit.
ReadToLimit(s) ==
  ~Over /\ \E n \in 1..channel[s] : result[s].kept + n <= job.limit[s] /\ Takes(s, n)

Read(s) == ~Over /\ \E n \in 1..channel[s] : Takes(s, n)

\* The end of the stream: nobody is left who could write.
Close(s) ==
  /\ ~Over /\ channel[s] = 0 /\ ~result[s].closed
  /\ \A p \in Processes : worker[p].pc # "runs"
  /\ result' = [result EXCEPT ![s].closed = TRUE]
  /\ UNCHANGED <<job, shared, worker, channel, consumer>>

(***************************************************************************)
(* The loop.  It looks first whether all is done and then at the clock, so *)
(* that a command that ends in between is taken for late.  That the system *)
(* refuses to tell whether the child has ended, on which it is killed and  *)
(* the error returned, is left out.                                        *)
(***************************************************************************)
TryWait ==
  /\ ~Over /\ ~consumer.exited /\ worker["child"].pc = "ended"
  /\ consumer' = [consumer EXCEPT !.exited = TRUE]
  /\ UNCHANGED <<job, shared, worker, channel, result>>

Finish ==
  /\ ~Over /\ consumer.exited /\ \A s \in Streams : result[s].closed
  /\ consumer' = [consumer EXCEPT !.pc = "done"]
  /\ UNCHANGED <<job, shared, worker, channel, result>>

Terminate ==
  /\ ~Over /\ shared
  /\ worker' = [p \in Processes |->
       IF p = "helper" /\ job.escaped THEN worker[p] ELSE [worker[p] EXCEPT !.pc = "ended"]]
  /\ consumer' = [consumer EXCEPT !.pc = "timeout"]
  /\ UNCHANGED <<job, shared, channel, result>>

\* Every step brings the end nearer, so that one fairness does for all.
Next ==
  \/ Expire \/ TryWait \/ Finish \/ Terminate
  \/ \E p \in Processes : Write(p) \/ Exit(p)
  \/ \E s \in Streams : Read(s) \/ Close(s)

Fairness == WF_vars(Next)

Spec == Init /\ [][Next]_vars /\ Fairness
-----------------------------------------------------------------------------
Written(s) == Cardinality(UNION {{<<p, i>> : i \in {k \in 1..Len(job.writes[p]) : job.writes[p][k] = s}} :
                                 p \in Processes})

\* A command that is reported done has its whole output, or the first part of
\* it with the mark that there was more; and it is given up only once time is
\* over, when of its group no process is left.
CompleteOrMarked ==
  /\ consumer.pc = "done" =>
       \A s \in Streams : /\ result[s].kept = Least(Written(s), job.limit[s])
                          /\ result[s].truncated <=> Written(s) > job.limit[s]
  /\ consumer.pc = "timeout" =>
       shared /\ \A p \in Processes : worker[p].pc = "runs" => p = "helper" /\ job.escaped
=============================================================================
