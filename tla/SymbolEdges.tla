---------------------------- MODULE SymbolEdges ----------------------------
(***************************************************************************)
(* The edges of the symbol graph (graph build): references are read in     *)
(* groups of whole files, the files of a group are resolved in parallel,   *)
(* and what each of them gives is merged in their order.                   *)
(*                                                                         *)
(* An operator introduced as a slip is no part of the model: it is a       *)
(* mistake that the operator below it could contain and that some property *)
(* excludes.                                                               *)
(***************************************************************************)
EXTENDS Integers, Sequences, FiniteSets, SequencesExt

CONSTANTS Threads,     \* threads that resolve files
          Builds       \* the graphs to build

\* A build: the symbols in the order of files and lines, end 0 for one without
\* a range; the references in the order of files, each with the symbols its
\* name is resolved to and how surely, -1 if it is to none; the files of
\* packages or unknown, the references of a group and the cap on ambiguity.
Ambiguous == 4

IsBuild(j) ==
  /\ \A i \in 1..Len(j.symbols) : j.symbols[i].end = 0 \/ j.symbols[i].end >= j.symbols[i].line
  /\ \A i, k \in 1..Len(j.symbols) : i < k =>
       \/ j.symbols[i].file < j.symbols[k].file
       \/ j.symbols[i].file = j.symbols[k].file /\ j.symbols[i].line <= j.symbols[k].line
  /\ \A i \in 1..Len(j.refs) :
       /\ j.refs[i].sure \in -1..Ambiguous
       /\ j.refs[i].targets \subseteq 1..Len(j.symbols)
       /\ j.refs[i].sure >= 0 => j.refs[i].targets # {}
       /\ i > 1 => j.refs[i - 1].file <= j.refs[i].file
  /\ j.group \in Nat \ {0} /\ j.cap \in Nat

BuildAssumption == Threads # {} /\ \A j \in Builds : IsBuild(j)

VARIABLES
  job,       \* the build, which never changes
  shared,    \* the files of the group not taken yet, and what is resolved
  worker,    \* which file of the group each thread resolves, 0 for none, and the
             \* references left
  channel,   \* unused
  consumer,  \* the thread that reads and merges
  result     \* the graph as far as it is merged

vars == <<job, shared, worker, channel, consumer, result>>

\* The edges, and how many references were seen, linked at each level, dropped.
Nothing == [edges |-> <<>>, levels |-> EmptyBag, dropped |-> EmptyBag, seen |-> 0]
Idle    == [part |-> 0, left |-> {}]

Init ==
  /\ job \in Builds
  /\ shared = [left |-> {}, resolved |-> <<>>]
  /\ worker = [t \in Threads |-> Idle]
  /\ channel = <<>>
  /\ consumer = [pc |-> "read", next |-> 1, group |-> <<>>, count |-> 0]
  /\ result = Nothing

(***************************************************************************)
(* owner: the narrowest definition around a line, the later one of two, or *)
(* the last one before it in a file whose symbols have no ranges.          *)
(***************************************************************************)
Line(s) == job.symbols[s].line
End(s)  == IF job.symbols[s].end = 0 THEN Line(s) ELSE job.symbols[s].end
Span(s) == End(s) - Line(s)

\* Definitions of a file that begin at a line or before, and those around it.
Before(file, line) ==
  {s \in 1..Len(job.symbols) :
     job.symbols[s].file = file /\ job.symbols[s].owns /\ Line(s) <= line}
Around(file, line) == {s \in Before(file, line) : End(s) >= line}

HasRanges(file) ==
  \E s \in 1..Len(job.symbols) : job.symbols[s].file = file /\ job.symbols[s].end # 0

\* s is preferred to r.
Narrower(s, r) ==
  \/ Span(s) < Span(r)
  \/ Span(s) = Span(r) /\ Line(s) > Line(r)
  \/ Span(s) = Span(r) /\ Line(s) = Line(r) /\ s < r

\* Slip: the first definition around the line.
FirstAround(file, line) ==
  IF Around(file, line) = {} THEN 0
  ELSE CHOOSE s \in Around(file, line) : \A r \in Around(file, line) : s <= r

Owner(file, line) ==
  CASE Around(file, line) # {} ->
         CHOOSE s \in Around(file, line) : \A r \in Around(file, line) \ {s} : Narrower(s, r)
    [] Around(file, line) = {} /\ Before(file, line) # {} /\ ~HasRanges(file) ->
         CHOOSE s \in Before(file, line) : \A r \in Before(file, line) : r <= s
    [] OTHER -> 0

(***************************************************************************)
(* resolve_file                                                            *)
(***************************************************************************)
\* Two accounts of one edge, the first of earlier references.
Joined(acc, more) ==
  [sure       |-> IF more.sure < acc.sure THEN more.sure ELSE acc.sure,
   candidates |-> IF more.sure < acc.sure THEN more.candidates ELSE acc.candidates,
   refs       |-> acc.refs + more.refs,
   line       |-> IF more.line < acc.line THEN more.line ELSE acc.line]

Merged(a, b) ==
  [edges   |-> [e \in DOMAIN a.edges \cap DOMAIN b.edges |-> Joined(a.edges[e], b.edges[e])]
               @@ a.edges @@ b.edges,
   levels  |-> a.levels (+) b.levels,
   dropped |-> a.dropped (+) b.dropped,
   seen    |-> a.seen + b.seen]

\* Why a reference is dropped, "" if it is not.
Reason(ref) ==
  LET source  == Owner(ref.file, ref.line)
      targets == ref.targets \ {source}
  IN  IF source = 0     THEN "no owner"
      ELSE IF ref.sure = -1  THEN "unresolved"
      ELSE IF targets = {}   THEN "self reference"
      ELSE IF ref.sure = Ambiguous /\ Cardinality(targets) > job.cap THEN "too ambiguous"
      ELSE ""

\* What one reference gives.
Resolved(ref) ==
  LET source  == Owner(ref.file, ref.line)
      targets == ref.targets \ {source}
      account == [sure |-> ref.sure, refs |-> 1, line |-> ref.line,
                  candidates |-> IF ref.sure = Ambiguous THEN Cardinality(targets) ELSE 1]
  IN  IF Reason(ref) # ""
      THEN [Nothing EXCEPT !.dropped = SetToBag({Reason(ref)}), !.seen = 1]
      ELSE [edges |-> [e \in {source} \X targets |-> account],
            levels |-> SetToBag({ref.sure}), dropped |-> EmptyBag, seen |-> 1]

\* Of several references to a name on a line the first counts.
Earlier(a, b) == a.line < b.line \/ (a.line = b.line /\ a.name < b.name)
Same(a, b)    == a.file = b.file /\ a.line = b.line /\ a.name = b.name

References(file, batch) ==
  IF file \in job.vendor THEN {}
  ELSE {batch[i] : i \in {k \in 1..Len(batch) : \A l \in 1..(k - 1) : ~Same(batch[l], batch[k])}}

Take(t) ==
  /\ worker[t].part = 0
  /\ \E i \in shared.left :
       /\ shared' = [shared EXCEPT !.left = @ \ {i}]
       /\ LET part == consumer.group[i]
          IN  worker' = [worker EXCEPT ![t] = [part |-> i, left |-> References(part.file, part.batch)]]
  /\ UNCHANGED <<job, channel, consumer, result>>

\* Slip: from the last reference to the first.
IsLast(ref, refs) == \A r \in refs \ {ref} : Earlier(r, ref)

IsFirst(ref, refs) == \A r \in refs \ {ref} : Earlier(ref, r)

Resolve(t) ==
  /\ worker[t].part # 0
  /\ IF worker[t].left = {} THEN worker' = [worker EXCEPT ![t] = Idle] /\ UNCHANGED shared
     ELSE \E ref \in worker[t].left :
            /\ IsFirst(ref, worker[t].left)
            /\ shared' = [shared EXCEPT !.resolved[worker[t].part] = Merged(@, Resolved(ref))]
            /\ worker' = [worker EXCEPT ![t].left = @ \ {ref}]
  /\ UNCHANGED <<job, channel, consumer, result>>

(***************************************************************************)
(* build_symbol_graph                                                      *)
(***************************************************************************)
Ref == job.refs[consumer.next]
IsNewFile == consumer.group = <<>> \/ Last(consumer.group).file # Ref.file

\* The files of the group are given to the threads.
Hand(pc) ==
  /\ consumer' = [consumer EXCEPT !.pc = pc]
  /\ shared' = [left |-> 1..Len(consumer.group),
                resolved |-> [i \in 1..Len(consumer.group) |-> Nothing]]

Add ==
  /\ consumer' =
       [consumer EXCEPT
          !.next = @ + 1, !.count = @ + 1,
          !.group = IF IsNewFile THEN Append(@, [file |-> Ref.file, batch |-> <<Ref>>])
                    ELSE [@ EXCEPT ![Len(@)].batch = Append(@, Ref)]]
  /\ UNCHANGED shared

\* Slip: a group is full whatever file comes next.
ReadToLimit ==
  /\ consumer.pc = "read"
  /\ IF consumer.next > Len(job.refs) THEN Hand("last")
     ELSE IF consumer.count >= job.group THEN Hand("group") ELSE Add
  /\ UNCHANGED <<job, worker, channel, result>>

\* A group is closed only where a file ends.
Read ==
  /\ consumer.pc = "read"
  /\ IF consumer.next > Len(job.refs) THEN Hand("last")
     ELSE IF IsNewFile /\ consumer.count >= job.group THEN Hand("group") ELSE Add
  /\ UNCHANGED <<job, worker, channel, result>>

\* All files of the group are resolved: merged one by one.
Merge ==
  /\ consumer.pc \in {"group", "last"}
  /\ shared.left = {} /\ \A t \in Threads : worker[t] = Idle
  /\ IF shared.resolved # <<>>
     THEN /\ result' = Merged(result, Head(shared.resolved))
          /\ shared' = [shared EXCEPT !.resolved = Tail(@)]
          /\ UNCHANGED consumer
     ELSE /\ consumer' = [consumer EXCEPT !.pc = IF @ = "last" THEN "done" ELSE "read",
                                          !.group = <<>>, !.count = 0]
          /\ UNCHANGED <<shared, result>>
  /\ UNCHANGED <<job, worker, channel>>

Over == consumer.pc = "done"

WorkerStep(t) == Take(t) \/ Resolve(t)
ConsumerStep  == Read \/ Merge

Next == ConsumerStep \/ \E t \in Threads : WorkerStep(t)

Fairness == WF_vars(ConsumerStep) /\ \A t \in Threads : WF_vars(WorkerStep(t))

Spec == Init /\ [][Next]_vars /\ Fairness
-----------------------------------------------------------------------------
\* What the query of find_owning_symbol may answer: the best rows of its
\* ordering.
OwningSymbols(file, line) ==
  LET of     == {s \in 1..Len(job.symbols) : job.symbols[s].file = file}
      before == {s \in of : job.symbols[s].owns /\ Line(s) <= line}
      around == {s \in before : End(s) >= line}
  IN  CASE around # {} ->
             {s \in around : \A r \in around :
                Span(s) < Span(r) \/ (Span(s) = Span(r) /\ Line(s) >= Line(r))}
        [] around = {} /\ \A s \in of : job.symbols[s].end = 0 ->
             {s \in before : \A r \in before : Line(s) >= Line(r)}
        [] OTHER -> {}

\* The references that count, and the edges they make, as <<reference, source,
\* target>>.
Counted ==
  {i \in 1..Len(job.refs) :
     job.refs[i].file \notin job.vendor /\ \A k \in 1..(i - 1) : ~Same(job.refs[k], job.refs[i])}
Links ==
  UNION {LET source == Owner(job.refs[i].file, job.refs[i].line)
         IN  {<<i, source, t>> : t \in job.refs[i].targets \ {source}} :
           i \in {k \in Counted : Reason(job.refs[k]) = ""}}

\* Groups and threads make the graph of one pass over the references: an edge
\* has all of its references once, its first line, and the best confidence
\* with the candidates of the first reference that has it; a reference is
\* linked or dropped; and a line belongs to the symbol that a query shows.
GraphOfOnePass ==
  Over =>
    /\ LET links == Links
       IN  /\ DOMAIN result.edges = {<<l[2], l[3]>> : l \in links}
           /\ \A e \in DOMAIN result.edges :
                LET edge == result.edges[e]
                    refs == {l[1] : l \in {k \in links : k[2] = e[1] /\ k[3] = e[2]}}
                    best == {i \in refs : \A k \in refs : job.refs[i].sure <= job.refs[k].sure}
                IN  /\ edge.refs = Cardinality(refs)
                    /\ edge.line \in {job.refs[i].line : i \in refs}
                    /\ \A i \in refs : edge.line <= job.refs[i].line
                    /\ \A i \in best : (\A k \in best : ~Earlier(job.refs[k], job.refs[i])) =>
                         /\ edge.sure = job.refs[i].sure
                         /\ edge.candidates = IF edge.sure < Ambiguous THEN 1
                                              ELSE Cardinality(job.refs[i].targets \ {e[1]})
    /\ result.seen = Cardinality(Counted)
    /\ result.seen = BagCardinality(result.levels) + BagCardinality(result.dropped)
    /\ \A i \in 1..Len(job.refs) :
         LET owner == Owner(job.refs[i].file, job.refs[i].line)
             shown == OwningSymbols(job.refs[i].file, job.refs[i].line)
         IN  IF shown = {} THEN owner = 0 ELSE owner \in shown
=============================================================================
