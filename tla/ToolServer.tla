----------------------------- MODULE ToolServer -----------------------------
(***************************************************************************)
(* The MCP server: it reads one request per line, answers most of them at  *)
(* once, and gives every tool call a thread of its own, which starts a     *)
(* command and answers when that has ended.  All answers go to one output  *)
(* under a lock.                                                           *)
(*                                                                         *)
(* An operator introduced as a slip is no part of the model: it is a       *)
(* mistake that the operator below it could contain and that some property *)
(* excludes.                                                               *)
(***************************************************************************)
EXTENDS Integers, Sequences, FiniteSets

CONSTANTS Threads,     \* threads for tool calls
          Sessions     \* the sessions to consider

\* A session: the lines of the client, and how many answers the client takes
\* before it closes its end of the output.
Kinds == {"call", "other",        \* a tool call; any other method
          "blank",                \* an empty line, or one that is no request
          "unreadable"}           \* no valid text: reading it fails
IsSession(j) ==
  /\ j.lines \in Seq([kind : Kinds, hasId : BOOLEAN])
  /\ Cardinality({i \in 1..Len(j.lines) : j.lines[i].kind = "call"})
       <= Cardinality(Threads)
  /\ j.accepts \in Nat

SessionAssumption == \A j \in Sessions : IsSession(j)

VARIABLES
  job,       \* the session, which never changes
  shared,    \* lines read
  worker,    \* each thread's position, line and whether its command succeeded
  channel,   \* unused
  consumer,  \* the reading thread's position
  result     \* the answers written: the line, and whether a call succeeded

vars == <<job, shared, worker, channel, consumer, result>>

Lines == 1..Len(job.lines)
HasId(i) == job.lines[i].hasId

Init ==
  /\ job \in Sessions
  /\ shared = 0
  /\ worker = [t \in Threads |-> [pc |-> "unborn", line |-> 0, success |-> FALSE]]
  /\ channel = <<>>
  /\ consumer = "read"
  /\ result = <<>>

Accepted == Len(result) < job.accepts

Answer(i, success) == [line |-> i, success |-> success]

\* The next line and what becomes of it.
Reads(kind) ==
  /\ consumer = "read" /\ shared + 1 \in Lines
  /\ job.lines[shared + 1].kind = kind
  /\ shared' = shared + 1

Skip ==
  /\ \/ Reads("blank")
     \/ Reads("other") /\ ~HasId(shared + 1)
  /\ UNCHANGED <<job, worker, channel, consumer, result>>

\* An answer that cannot be written ends the server.
AnswerInline ==
  /\ Reads("other") /\ HasId(shared + 1)
  /\ IF Accepted THEN result' = Append(result, Answer(shared + 1, TRUE)) /\ UNCHANGED consumer
     ELSE consumer' = "failed" /\ UNCHANGED result
  /\ UNCHANGED <<job, worker, channel>>

StartCall ==
  /\ Reads("call")
  /\ \E t \in Threads :
       /\ worker[t].pc = "unborn"
       /\ worker' = [worker EXCEPT ![t] =
            [pc |-> "run", line |-> shared + 1, success |-> FALSE]]
  /\ UNCHANGED <<job, channel, consumer, result>>

\* The server ends at once, and its threads with it.
Unreadable ==
  /\ Reads("unreadable")
  /\ consumer' = "failed"
  /\ UNCHANGED <<job, worker, channel, result>>

EndOfInput ==
  /\ consumer = "read" /\ shared = Len(job.lines)
  /\ consumer' = "join"
  /\ UNCHANGED <<job, shared, worker, channel, result>>

Running == {t \in Threads : worker[t].pc \in {"run", "answer"}}

\* Slip: calls that still run are not waited for.
LeaveAtOnce ==
  /\ consumer = "join"
  /\ consumer' = "done"
  /\ UNCHANGED <<job, shared, worker, channel, result>>

Join ==
  /\ consumer = "join" /\ Running = {}
  /\ consumer' = "done"
  /\ UNCHANGED <<job, shared, worker, channel, result>>

Over == consumer \in {"done", "failed"}

(***************************************************************************)
(* The thread of a call.  Without an id nothing is run.                    *)
(***************************************************************************)
Run(t) ==
  /\ ~Over /\ worker[t].pc = "run"
  /\ \E ok \in BOOLEAN :
       worker' = [worker EXCEPT ![t].pc = IF HasId(worker[t].line) THEN "answer" ELSE "ended",
                                ![t].success = ok /\ HasId(worker[t].line)]
  /\ UNCHANGED <<job, shared, channel, consumer, result>>

\* A failed command is an answer too; one that cannot be written is dropped.
WriteAnswer(t) ==
  /\ ~Over /\ worker[t].pc = "answer"
  /\ result' = IF Accepted THEN Append(result, Answer(worker[t].line, worker[t].success))
               ELSE result
  /\ worker' = [worker EXCEPT ![t].pc = "ended"]
  /\ UNCHANGED <<job, shared, channel, consumer>>

WorkerStep(t) == Run(t) \/ WriteAnswer(t)
ConsumerStep  == Skip \/ AnswerInline \/ StartCall \/ Unreadable \/ EndOfInput \/ Join

Next == ConsumerStep \/ \E t \in Threads : WorkerStep(t)

Fairness == WF_vars(ConsumerStep) /\ \A t \in Threads : WF_vars(WorkerStep(t))

Spec == Init /\ [][Next]_vars /\ Fairness
-----------------------------------------------------------------------------
\* No request is answered twice, none before it was read, and no notification
\* at all.  A server that ends of itself has answered every request, unless the
\* client would not take the answer; one that fails has a line it could not
\* read, or a client that takes no more.
EveryRequestAnswered ==
  /\ \A i, k \in 1..Len(result) : result[i].line = result[k].line => i = k
  /\ \A i \in 1..Len(result) : result[i].line <= shared /\ HasId(result[i].line)
  /\ consumer = "done" =>
       \/ ~Accepted
       \/ \A l \in Lines : (HasId(l) /\ job.lines[l].kind # "blank") =>
                             \E i \in 1..Len(result) : result[i].line = l
  /\ consumer = "failed" => ~Accepted \/ job.lines[shared].kind = "unreadable"

\* Requests answered on the spot come in the order of their lines, whatever
\* calls are running.
InlineInOrder ==
  \A i, k \in 1..Len(result) :
    i < k /\ job.lines[result[i].line].kind = "other"
          /\ job.lines[result[k].line].kind = "other" => result[i].line < result[k].line
=============================================================================
