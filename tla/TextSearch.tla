----------------------------- MODULE TextSearch -----------------------------
(***************************************************************************)
(* Several patterns searched for in one parallel pass over a list of files *)
(* (search_files_limited_each): every pattern gets the first lines it      *)
(* matches, up to a limit, in the order of the files.  Threads search      *)
(* files in any order and stop early once every pattern has its lines.     *)
(***************************************************************************)
EXTENDS Integers, Sequences, FiniteSets, SequencesExt

CONSTANTS Threads,     \* search threads
          Searches,    \* the searches to consider
          Capacity     \* of the channel

\* A search: the patterns, the limit, and of each file its lines, a line being
\* the set of patterns that match it and whose caller keeps it.  A prefilter
\* rules some files out; it is right about them.
IsSearch(j) ==
  /\ j.patterns \in Nat \ {0} /\ j.limit \in Nat \ {0}
  /\ j.files \in Seq(Seq(SUBSET (1..j.patterns))) /\ j.files # <<>>
  /\ \A f \in j.ruledOut : j.files[f] = <<>>

SearchAssumption ==
  /\ Threads # {} /\ Capacity \in Nat \ {0}
  /\ \A j \in Searches : IsSearch(j)

VARIABLES
  job,       \* the search, which never changes
  shared,    \* next file; whether to stop; the patterns that have their lines
  worker,    \* each thread's position, file, line, hits, lines per pattern
  channel,   \* hits of searched files on their way: [file, hits]
  consumer,  \* the collecting thread
  result     \* the hits handed to the caller

vars == <<job, shared, worker, channel, consumer, result>>

Patterns == 1..job.patterns
Files    == 1..Len(job.files)

\* A hit is a line of a file that a pattern takes.
Hit(p, f, l) == [pattern |-> p, file |-> f, line |-> l]

Idle == [pc |-> "check", file |-> 0, line |-> 0, hits |-> <<>>,
         taken |-> [p \in Patterns |-> 0]]

Init ==
  /\ job \in Searches
  /\ shared = [next |-> 1, stop |-> FALSE, satisfied |-> {}]
  /\ worker = [t \in Threads |-> Idle]
  /\ channel = <<>>
  /\ consumer = [pc |-> "receive", pending |-> {}, frontier |-> 0,
                 hits |-> <<>>, taken |-> [p \in Patterns |-> 0]]
  /\ result = <<>>

(***************************************************************************)
(* A search thread.                                                        *)
(***************************************************************************)
CheckStop(t) ==
  /\ worker[t].pc = "check"
  /\ worker' = [worker EXCEPT ![t].pc = IF shared.stop THEN "ended" ELSE "take"]
  /\ UNCHANGED <<job, shared, channel, consumer, result>>

Take(t) ==
  /\ worker[t].pc = "take"
  /\ shared' = [shared EXCEPT !.next = @ + 1]
  /\ worker' = [worker EXCEPT ![t] =
       CASE shared.next \notin Files -> [Idle EXCEPT !.pc = "ended"]
         [] shared.next \in job.ruledOut ->
              [Idle EXCEPT !.pc = "send", !.file = shared.next]
         [] OTHER -> [Idle EXCEPT !.pc = "search", !.file = shared.next, !.line = 1]]
  /\ UNCHANGED <<job, channel, consumer, result>>

\* The hits of one line: patterns in order, without those that have enough.
HitsOf(w) ==
  LET open == {p \in Patterns : w.taken[p] < job.limit /\ p \notin shared.satisfied}
      new  == SelectSeq([p \in Patterns |-> p],
                        LAMBDA p : p \in open \cap job.files[w.file][w.line])
  IN  [open |-> open, hits |-> [i \in 1..Len(new) |-> Hit(new[i], w.file, w.line)]]

Line(t) ==
  LET w == worker[t]
      found == HitsOf(w)
  IN  /\ w.pc = "search" /\ w.line \in 1..Len(job.files[w.file])
      /\ worker' = [worker EXCEPT ![t] =
           [w EXCEPT !.pc = IF found.open = {} \/ shared.stop THEN "send" ELSE "search",
                     !.line = @ + 1, !.hits = @ \o found.hits,
                     !.taken = [p \in Patterns |->
                        IF \E i \in 1..Len(found.hits) : found.hits[i].pattern = p
                        THEN @[p] + 1 ELSE @[p]]]]
      /\ UNCHANGED <<job, shared, channel, consumer, result>>

EndOfFile(t) ==
  /\ worker[t].pc = "search" /\ worker[t].line > Len(job.files[worker[t].file])
  /\ worker' = [worker EXCEPT ![t].pc = "send"]
  /\ UNCHANGED <<job, shared, channel, consumer, result>>

\* Blocks while the channel is full; fails once the collector has left.
Send(t) ==
  /\ worker[t].pc = "send"
  /\ \/ /\ consumer.pc # "join" /\ Len(channel) < Capacity
        /\ channel' = Append(channel, [file |-> worker[t].file, hits |-> worker[t].hits])
        /\ worker' = [worker EXCEPT ![t] = Idle]
     \/ /\ consumer.pc = "join"
        /\ worker' = [worker EXCEPT ![t] = [Idle EXCEPT !.pc = "ended"]]
        /\ UNCHANGED channel
  /\ UNCHANGED <<job, shared, consumer, result>>

Running == {t \in Threads : worker[t].pc # "ended"}

(***************************************************************************)
(* The collecting thread.                                                  *)
(***************************************************************************)
Receive ==
  /\ consumer.pc = "receive" /\ channel # <<>>
  /\ consumer' = [consumer EXCEPT !.pc = "drain", !.pending = @ \cup {Head(channel)}]
  /\ channel' = Tail(channel)
  /\ UNCHANGED <<job, shared, worker, result>>

Drain ==
  /\ consumer.pc = "drain"
  /\ LET ready == {r \in consumer.pending : r.file = consumer.frontier + 1}
     IN  IF ready = {} THEN consumer' = [consumer EXCEPT !.pc = "receive"]
         ELSE \E r \in ready : consumer' =
                [consumer EXCEPT !.pc = "hand", !.pending = @ \ {r},
                                 !.frontier = @ + 1, !.hits = r.hits]
  /\ UNCHANGED <<job, shared, worker, channel, result>>

\* One hit, unless its pattern has its lines.
HandOver ==
  /\ consumer.pc = "hand" /\ consumer.hits # <<>>
  /\ LET hit == Head(consumer.hits)
         n   == consumer.taken[hit.pattern] + 1
     IN  IF n > job.limit
         THEN /\ consumer' = [consumer EXCEPT !.hits = Tail(@)]
              /\ UNCHANGED <<shared, result>>
         ELSE /\ consumer' = [consumer EXCEPT !.hits = Tail(@), !.taken[hit.pattern] = n]
              /\ shared' = IF n < job.limit THEN shared
                           ELSE [shared EXCEPT !.satisfied = @ \cup {hit.pattern}]
              /\ result' = Append(result, hit)
  /\ UNCHANGED <<job, worker, channel>>

Satisfied == \A p \in Patterns : consumer.taken[p] = job.limit

FileDone ==
  /\ consumer.pc = "hand" /\ consumer.hits = <<>>
  /\ IF Satisfied
     THEN /\ consumer' = [consumer EXCEPT !.pc = "join", !.pending = {}]
          /\ shared' = [shared EXCEPT !.stop = TRUE] /\ channel' = <<>>
     ELSE /\ consumer' = [consumer EXCEPT !.pc = "drain"]
          /\ UNCHANGED <<shared, channel>>
  /\ UNCHANGED <<job, worker, result>>

Close ==
  /\ consumer.pc = "receive" /\ channel = <<>> /\ Running = {}
  /\ consumer' = [consumer EXCEPT !.pc = "join", !.pending = {}]
  /\ UNCHANGED <<job, shared, worker, channel, result>>

Join ==
  /\ consumer.pc = "join" /\ Running = {}
  /\ consumer' = [consumer EXCEPT !.pc = "done"]
  /\ UNCHANGED <<job, shared, worker, channel, result>>

Over == consumer.pc = "done"

WorkerStep(t) == CheckStop(t) \/ Take(t) \/ Line(t) \/ EndOfFile(t) \/ Send(t)
ConsumerStep  == Receive \/ Drain \/ HandOver \/ FileDone \/ Close \/ Join

Next == ConsumerStep \/ \E t \in Threads : WorkerStep(t)

Fairness == WF_vars(ConsumerStep) /\ \A t \in Threads : WF_vars(WorkerStep(t))

Spec == Init /\ [][Next]_vars /\ Fairness
-----------------------------------------------------------------------------
(***************************************************************************)
(* What one thread would hand over: all hits in the order of files, lines  *)
(* and patterns, of which each pattern keeps the first ones.               *)
(***************************************************************************)
HitsIn(j) ==
  FlattenSeq([f \in 1..Len(j.files) |-> FlattenSeq([l \in 1..Len(j.files[f]) |->
    LET of == SelectSeq([p \in 1..j.patterns |-> p], LAMBDA p : p \in j.files[f][l])
    IN  [i \in 1..Len(of) |-> Hit(of[i], f, l)]])])

FirstHits(hits, limit) ==
  LET kept == {i \in 1..Len(hits) :
                 Cardinality({k \in 1..i : hits[k].pattern = hits[i].pattern}) <= limit}
  IN  [n \in 1..Cardinality(kept) |->
         hits[CHOOSE i \in kept : Cardinality({k \in kept : k <= i}) = n]]

ExpectedOf == [j \in Searches |-> FirstHits(HitsIn(j), j.limit)]
Expected   == ExpectedOf[job]

\* Whatever the threads do, the caller gets the same hits in the same order,
\* each pattern its first ones, and all of them by the end.
FoundInOrder ==
  /\ IsPrefix(result, Expected)
  /\ Over => result = Expected
=============================================================================
