------------------------- MODULE ComputationsProofs -------------------------
(***************************************************************************)
(* Proofs about the computations with threads, for any number of threads   *)
(* and any of the jobs that the modules describe.                          *)
(***************************************************************************)
EXTENDS Computations, FiniteSetTheorems, SequenceTheorems, TLAPS

(***************************************************************************)
(* Sequences and cardinalities.                                            *)
(***************************************************************************)
\* The modules of the programs bring their own names for the operators of
\* FiniteSets.
LEMMA SameCardinality ==
  ASSUME NEW S
  PROVE  /\ Scan!Cardinality(S) = Cardinality(S)
         /\ Walk!Cardinality(S) = Cardinality(S)
         /\ Write!Cardinality(S) = Cardinality(S)
BY DEF Scan!Cardinality, Walk!Cardinality, Write!Cardinality, Cardinality,
       Scan!IsFiniteSet, Walk!IsFiniteSet, Write!IsFiniteSet, IsFiniteSet

\* The first element of a channel is handed to the end of another sequence.
LEMMA HeadMovesOn ==
  ASSUME NEW S, NEW s \in Seq(S), NEW c \in Seq(S), c # <<>>
  PROVE  /\ Append(s, Head(c)) \in Seq(S) /\ Tail(c) \in Seq(S) /\ Head(c) \in S
         /\ Len(Append(s, Head(c))) = Len(s) + 1 /\ Len(Tail(c)) = Len(c) - 1
         /\ Append(s, Head(c)) \o Tail(c) = s \o c
<1>1. /\ Head(c) \in S /\ Tail(c) \in Seq(S) /\ Len(Tail(c)) = Len(c) - 1
      /\ \A i \in 1..Len(Tail(c)) : Tail(c)[i] = c[i + 1]
      /\ Len(c) \in Nat \ {0} /\ Head(c) = c[1]
  BY HeadTailProperties, EmptySeq
<1>2. /\ Append(s, Head(c)) \in Seq(S) /\ Len(Append(s, Head(c))) = Len(s) + 1
      /\ \A i \in 1..Len(s) : Append(s, Head(c))[i] = s[i]
      /\ Append(s, Head(c))[Len(s) + 1] = Head(c)
  BY <1>1, AppendProperties
<1>3. Len(s) \in Nat BY LenProperties
<1> DEFINE a == Append(s, Head(c)) \o Tail(c)
           b == s \o c
<1>4. /\ a \in Seq(S) /\ Len(a) = Len(s) + Len(c)
      /\ \A i \in 1..Len(s) + Len(c) :
           a[i] = IF i <= Len(s) + 1 THEN Append(s, Head(c))[i] ELSE Tail(c)[i - (Len(s) + 1)]
  BY <1>1, <1>2, <1>3, ConcatProperties
<1>5. /\ b \in Seq(S) /\ Len(b) = Len(s) + Len(c)
      /\ \A i \in 1..Len(s) + Len(c) : b[i] = IF i <= Len(s) THEN s[i] ELSE c[i - Len(s)]
  BY ConcatProperties
<1>6. ASSUME NEW i \in 1..Len(a) PROVE a[i] = b[i]
  <2>1. i \in 1..Len(s) + Len(c) BY <1>4
  <2>2. CASE i <= Len(s) BY <2>1, <2>2, <1>2, <1>3, <1>4, <1>5
  <2>3. CASE i = Len(s) + 1 BY <2>1, <2>3, <1>1, <1>2, <1>3, <1>4, <1>5
  <2>4. CASE i > Len(s) + 1
    <3>1. i - (Len(s) + 1) \in 1..Len(Tail(c)) BY <2>1, <2>4, <1>1, <1>3
    <3>2. Tail(c)[i - (Len(s) + 1)] = c[i - Len(s)]
      <4>1. (i - (Len(s) + 1)) + 1 = i - Len(s) BY <2>1, <1>3
      <4>2. QED BY <3>1, <4>1, <1>1
    <3>3. QED BY <2>1, <2>4, <3>2, <1>3, <1>4, <1>5
  <2>5. QED BY <2>1, <2>2, <2>3, <2>4, <1>3
<1>7. a = b BY <1>4, <1>5, <1>6, SeqEqual
<1>8. QED BY <1>1, <1>2, <1>7

\* An element that is sent comes after all that were sent before.
LEMMA SentLast ==
  ASSUME NEW S, NEW s \in Seq(S), NEW c \in Seq(S), NEW e \in S
  PROVE  /\ s \o Append(c, e) = Append(s \o c, e)
         /\ s \o c \in Seq(S) /\ Len(s \o c) = Len(s) + Len(c)
         /\ Append(c, e) \in Seq(S) /\ Len(Append(c, e)) = Len(c) + 1
         /\ Append(s \o c, e) \in Seq(S) /\ Len(Append(s \o c, e)) = Len(s) + Len(c) + 1
         /\ \A i \in 1..(Len(s) + Len(c)) : Append(s \o c, e)[i] = (s \o c)[i]
         /\ Append(s \o c, e)[Len(s) + Len(c) + 1] = e
<1>1. /\ <<e>> \in Seq(S) OBVIOUS
<1>2. Append(c, e) = c \o <<e>> BY AppendIsConcat
<1>3. s \o c \in Seq(S) /\ Len(s \o c) = Len(s) + Len(c) BY ConcatProperties
<1>4. Append(s \o c, e) = (s \o c) \o <<e>> BY <1>3, AppendIsConcat
<1>5. s \o Append(c, e) = Append(s \o c, e) BY <1>1, <1>2, <1>4, ConcatAssociative
<1>6. QED BY <1>3, <1>5, AppendProperties

\* The number of different elements of a sequence without repetitions.
LEMMA CountOfDistinct ==
  ASSUME NEW s, NEW S, s \in Seq(S), NEW M, {s[i] : i \in 1..Len(s)} = M,
         \A i, k \in 1..Len(s) : s[i] = s[k] => i = k
  PROVE  Cardinality(M) = Len(s)
<1>1. Len(s) \in Nat /\ s \in [1..Len(s) -> S] BY LenProperties
<1> DEFINE f == [i \in 1..Len(s) |-> s[i]]
<1>2. f \in Bijection(1..Len(s), M) BY <1>1 DEF Bijection, Injection, Surjection, IsInjective
<1>3. ExistsBijection(1..Len(s), M) BY <1>2 DEF ExistsBijection
<1>4. QED BY <1>1, <1>3, FS_CountingElements

(***************************************************************************)
(* The search that walks the project.                                      *)
(***************************************************************************)
Readers == [pc : {"visit", "look", "count", "send", "ended"}, file : Nat, passed : Nat]
Finds   == Nat \X Nat
ScanTypes ==
  /\ job \in Scans
  /\ shared \in [files : SUBSET Scan!Files, found : Nat, stop : BOOLEAN]
  /\ worker \in [Threads -> Readers]
  /\ channel \in Seq(Finds) /\ result \in Seq(Finds)
  /\ consumer \in {"walk", "receive", "done"}

\* Threads with a match that the channel is to take.
Senders == {t \in Threads : worker[t].pc = "send"}

\* Each count below the limit has given a match to one sender, whose match is
\* then in the channel and then with the caller; none is lost.
ScanCounts ==
  /\ IsFiniteSet(Senders)
  /\ Len(result) + Len(channel) + Cardinality(Senders)
       = (IF shared.found <= job.limit THEN shared.found ELSE job.limit)
  /\ shared.stop <=> shared.found > job.limit
  /\ consumer # "walk" => \A t \in Threads : worker[t].pc = "ended"
  /\ consumer = "done" => channel = <<>> \/ Len(result) >= job.limit
  /\ Len(result) <= job.limit

\* What is on its way or with the caller, in the order sent.
Sent == result \o channel

Reading(t) == worker[t].pc \in {"look", "count", "send"}
Open(t)    == worker[t].pc \in {"count", "send"}

\* Every file has one reader, which sends its matches in their order.
ScanPlaces ==
  /\ \A t \in Threads : Reading(t) =>
       /\ worker[t].file \in Scan!Files \ shared.files
       /\ worker[t].passed <= job.matches[worker[t].file]
       /\ Open(t) => worker[t].passed > 0
       /\ \A u \in Threads : Reading(u) /\ worker[u].file = worker[t].file => u = t
  /\ \A i \in 1..Len(Sent) :
       /\ Sent[i] \in Scan!Matches /\ Sent[i][1] \notin shared.files
       /\ \A t \in Threads : Reading(t) /\ worker[t].file = Sent[i][1] =>
            /\ Sent[i][2] <= worker[t].passed
            /\ Open(t) => Sent[i][2] < worker[t].passed
  /\ \A i, k \in 1..Len(Sent) : Sent[i] = Sent[k] => i = k

\* Until the limit is passed no match is left out.
IsSent(f, n) == \E i \in 1..Len(Sent) : Sent[i] = <<f, n>>
IsDueWith(t, f, n) ==
  /\ Reading(t) /\ worker[t].file = f
  /\ n > worker[t].passed \/ (Open(t) /\ n = worker[t].passed)
IsDue(f, n) == \E t \in Threads : IsDueWith(t, f, n)
ScanComplete ==
  ~shared.stop =>
    /\ \A t \in Threads : worker[t].pc = "ended" => shared.files = {}
    /\ \A f \in Scan!Files \ shared.files : \A n \in 1..job.matches[f] : IsSent(f, n) \/ IsDue(f, n)

ScanInv == ScanTypes /\ ScanCounts /\ ScanPlaces /\ ScanComplete

LEMMA ScanJob ==
  ASSUME ScanTypes
  PROVE  /\ job.limit \in Nat /\ job.capacity \in Nat /\ job.capacity >= job.limit
         /\ Len(job.matches) \in Nat
         /\ \A f \in Scan!Files : f \in Nat /\ job.matches[f] \in Nat
<1>1. Scan!IsScan(job) BY ComputationAssumption DEF ScanTypes, Scan!ScanAssumption
<1>2. QED BY <1>1 DEF Scan!IsScan, Scan!Files

LEMMA ScanInit == ASSUME Scan!Init PROVE ScanInv
<1>1. ScanTypes
  BY DEF Scan!Init, ScanTypes, Readers
<1>2. Senders = {} BY DEF Scan!Init, Senders
<1>3. ScanCounts
  <2>1. IsFiniteSet(Senders) /\ Cardinality(Senders) = 0 BY <1>2, FS_EmptySet
  <2>2. job.limit \in Nat BY <1>1, ScanJob
  <2>3. /\ Len(result) = 0 /\ Len(channel) = 0 /\ shared.found = 0 /\ shared.stop = FALSE
        /\ consumer = "walk"
    BY DEF Scan!Init
  <2>4. shared.stop <=> shared.found > job.limit BY <2>2, <2>3
  <2>5. QED BY <2>1, <2>2, <2>3, <2>4 DEF ScanCounts
<1>4. Sent = <<>> BY DEF Scan!Init, Sent
<1>5. ScanPlaces BY <1>4 DEF Scan!Init, ScanPlaces, Reading
<1>6. ScanComplete BY DEF Scan!Init, ScanComplete
<1>7. QED BY <1>1, <1>3, <1>5, <1>6 DEF ScanInv

\* A thread of which only some fields change.
LEMMA ReaderMoves ==
  ASSUME worker \in [Threads -> Readers], NEW t \in Threads, NEW r \in Readers,
         worker' = [worker EXCEPT ![t] = r]
  PROVE  /\ worker' \in [Threads -> Readers] /\ worker'[t] = r
         /\ \A u \in Threads \ {t} : worker'[u] = worker[u]
OBVIOUS

LEMMA ReaderGoes ==
  ASSUME worker \in [Threads -> Readers], NEW t \in Threads,
         NEW pc \in {"visit", "look", "count", "send", "ended"},
         worker' = [worker EXCEPT ![t].pc = pc]
  PROVE  /\ worker' \in [Threads -> Readers] /\ \A u \in Threads \ {t} : worker'[u] = worker[u]
         /\ worker'[t].pc = pc /\ worker'[t].file = worker[t].file
         /\ worker'[t].passed = worker[t].passed
BY DEF Readers

\* What the steps of a thread do.
LEMMA ScanVisit ==
  ASSUME ScanTypes, NEW t \in Threads, Scan!Visit(t)
  PROVE  /\ ScanTypes' /\ UNCHANGED <<job, channel, consumer, result>>
         /\ worker[t].pc = "visit" /\ shared'.found = shared.found /\ shared'.stop = shared.stop
         /\ \A u \in Threads \ {t} : worker'[u] = worker[u]
         /\ \/ /\ shared' = shared /\ worker'[t].pc = "ended" /\ (shared.stop \/ shared.files = {})
            \/ \E f \in shared.files :
                 /\ worker'[t].pc = "look" /\ worker'[t].file = f /\ worker'[t].passed = 0
                 /\ shared'.files = shared.files \ {f}
<1>1. /\ Scan!Files' = Scan!Files /\ UNCHANGED <<job, channel, consumer, result>>
      /\ worker[t].pc = "visit"
  BY DEF Scan!Visit, Scan!Files
<1>2. CASE shared.stop \/ shared.files = {}
  <2>1. worker' = [worker EXCEPT ![t].pc = "ended"] /\ shared' = shared
    BY <1>2 DEF Scan!Visit, Scan!Goes
  <2>2. /\ worker' \in [Threads -> Readers] /\ worker'[t].pc = "ended"
        /\ \A u \in Threads \ {t} : worker'[u] = worker[u]
    BY <2>1, ReaderGoes DEF ScanTypes
  <2>3. ScanTypes' BY <1>1, <2>1, <2>2 DEF ScanTypes
  <2>4. QED BY <1>1, <1>2, <2>1, <2>2, <2>3
<1>3. CASE ~(shared.stop \/ shared.files = {})
  <2>1. PICK f \in shared.files :
          /\ worker' = [worker EXCEPT ![t] = [pc |-> "look", file |-> f, passed |-> 0]]
          /\ shared' = [shared EXCEPT !.files = @ \ {f}]
    BY <1>3 DEF Scan!Visit
  <2>2. [pc |-> "look", file |-> f, passed |-> 0] \in Readers BY ScanJob DEF ScanTypes, Readers
  <2>3. /\ worker' \in [Threads -> Readers]
        /\ worker'[t].pc = "look" /\ worker'[t].file = f /\ worker'[t].passed = 0
        /\ \A u \in Threads \ {t} : worker'[u] = worker[u]
    BY <2>1, <2>2, ReaderMoves DEF ScanTypes
  <2>4. /\ shared' \in [files : SUBSET Scan!Files, found : Nat, stop : BOOLEAN]
        /\ shared'.files = shared.files \ {f} /\ shared'.found = shared.found
        /\ shared'.stop = shared.stop
    BY <2>1 DEF ScanTypes
  <2>5. ScanTypes' BY <1>1, <2>3, <2>4 DEF ScanTypes
  <2>6. QED BY <1>1, <2>3, <2>4, <2>5
<1>4. QED BY <1>2, <1>3

LEMMA ScanLook ==
  ASSUME ScanTypes, NEW t \in Threads, Scan!Look(t)
  PROVE  /\ ScanTypes' /\ UNCHANGED <<job, shared, channel, consumer, result>>
         /\ worker[t].pc = "look" /\ \A u \in Threads \ {t} : worker'[u] = worker[u]
         /\ worker'[t].file = worker[t].file
         /\ \/ /\ worker'[t].pc = "visit"
               /\ worker[t].passed = job.matches[worker[t].file] \/ shared.stop
            \/ /\ worker'[t].pc = "count" /\ worker'[t].passed = worker[t].passed + 1
               /\ worker[t].passed # job.matches[worker[t].file] /\ ~shared.stop
<1>1. /\ Scan!Files' = Scan!Files /\ UNCHANGED <<job, shared, channel, consumer, result>>
      /\ worker[t].pc = "look"
  BY DEF Scan!Look, Scan!Files
<1>2. CASE worker[t].passed = job.matches[worker[t].file] \/ shared.stop
  <2>1. worker' = [worker EXCEPT ![t].pc = "visit"] BY <1>2 DEF Scan!Look, Scan!Goes
  <2>2. /\ worker' \in [Threads -> Readers] /\ \A u \in Threads \ {t} : worker'[u] = worker[u]
        /\ worker'[t].pc = "visit" /\ worker'[t].file = worker[t].file
    BY <2>1, ReaderGoes DEF ScanTypes
  <2>3. ScanTypes' BY <1>1, <2>2 DEF ScanTypes
  <2>4. QED BY <1>1, <1>2, <2>2, <2>3
<1>3. CASE ~(worker[t].passed = job.matches[worker[t].file] \/ shared.stop)
  <2>1. worker' = [worker EXCEPT ![t].pc = "count", ![t].passed = @ + 1]
    BY <1>3 DEF Scan!Look
  <2> DEFINE r == [pc |-> "count", file |-> worker[t].file, passed |-> worker[t].passed + 1]
  <2>2. worker[t] \in Readers BY DEF ScanTypes
  <2>3. worker[t].file \in Nat /\ worker[t].passed + 1 \in Nat BY <2>2 DEF Readers
  <2>4. r \in Readers BY <2>3 DEF Readers
  <2>5. worker' = [worker EXCEPT ![t] = r]
    BY <2>1, <2>2 DEF Readers, ScanTypes
  <2> HIDE DEF r
  <2>6. /\ worker' \in [Threads -> Readers] /\ \A u \in Threads \ {t} : worker'[u] = worker[u]
        /\ worker'[t] = r
    BY <2>4, <2>5, ReaderMoves DEF ScanTypes
  <2>7. /\ worker'[t].pc = "count" /\ worker'[t].file = worker[t].file
        /\ worker'[t].passed = worker[t].passed + 1
    BY <2>6 DEF r
  <2>8. ScanTypes' BY <1>1, <2>6 DEF ScanTypes
  <2>9. QED BY <1>1, <1>3, <2>6, <2>7, <2>8
<1>4. QED BY <1>2, <1>3

LEMMA ScanCount ==
  ASSUME ScanTypes, NEW t \in Threads, Scan!Count(t)
  PROVE  /\ ScanTypes' /\ UNCHANGED <<job, channel, consumer, result>>
         /\ worker[t].pc = "count" /\ \A u \in Threads \ {t} : worker'[u] = worker[u]
         /\ shared'.files = shared.files /\ shared'.found = shared.found + 1
         /\ worker'[t].file = worker[t].file /\ worker'[t].passed = worker[t].passed
         /\ shared.found >= job.limit => shared'.stop = TRUE /\ worker'[t].pc = "visit"
         /\ ~(shared.found >= job.limit) =>
              shared'.stop = shared.stop /\ worker'[t].pc = "send"
<1>1. /\ Scan!Files' = Scan!Files /\ UNCHANGED <<job, channel, consumer, result>>
      /\ worker[t].pc = "count"
      /\ shared' = [shared EXCEPT !.found = @ + 1, !.stop = @ \/ shared.found >= job.limit]
      /\ worker' = [worker EXCEPT ![t].pc = IF shared.found >= job.limit THEN "visit" ELSE "send"]
  BY DEF Scan!Count, Scan!Files, Scan!Goes
<1>2. /\ shared.files \in SUBSET Scan!Files /\ shared.found + 1 \in Nat /\ shared.stop \in BOOLEAN
  BY DEF ScanTypes
<1>3. shared' = [files |-> shared.files, found |-> shared.found + 1,
                 stop |-> (shared.stop \/ shared.found >= job.limit)]
  BY <1>1 DEF ScanTypes
<1>4. shared'.files = shared.files /\ shared'.found = shared.found + 1 BY <1>3
<1>5. shared'.stop = (shared.stop \/ shared.found >= job.limit) BY <1>3
<1>6. /\ shared'.stop \in BOOLEAN /\ (shared.found >= job.limit => shared'.stop = TRUE)
      /\ (~(shared.found >= job.limit) => shared'.stop = shared.stop)
  BY <1>2, <1>5
<1>7. shared' = [files |-> shared.files, found |-> shared.found + 1, stop |-> shared'.stop]
  BY <1>3
<1>8. shared' \in [files : SUBSET Scan!Files, found : Nat, stop : BOOLEAN]
  BY <1>2, <1>6, <1>7
<1>9. /\ worker' \in [Threads -> Readers] /\ \A u \in Threads \ {t} : worker'[u] = worker[u]
      /\ worker'[t].pc = IF shared.found >= job.limit THEN "visit" ELSE "send"
      /\ worker'[t].file = worker[t].file /\ worker'[t].passed = worker[t].passed
  <2> DEFINE pc == IF shared.found >= job.limit THEN "visit" ELSE "send"
  <2>1. pc \in {"visit", "look", "count", "send", "ended"} OBVIOUS
  <2>2. worker' = [worker EXCEPT ![t].pc = pc] BY <1>1
  <2> HIDE DEF pc
  <2>3. /\ worker' \in [Threads -> Readers] /\ \A u \in Threads \ {t} : worker'[u] = worker[u]
        /\ worker'[t].pc = pc /\ worker'[t].file = worker[t].file
        /\ worker'[t].passed = worker[t].passed
    BY <2>1, <2>2, ReaderGoes DEF ScanTypes
  <2>4. QED BY <2>3 DEF pc
<1>10. ScanTypes' BY <1>1, <1>8, <1>9 DEF ScanTypes
<1>11. QED BY <1>1, <1>4, <1>6, <1>9, <1>10

LEMMA ScanSend ==
  ASSUME ScanTypes, NEW t \in Threads, Scan!Send(t)
  PROVE  /\ ScanTypes' /\ UNCHANGED <<job, shared, consumer, result>>
         /\ worker[t].pc = "send" /\ \A u \in Threads \ {t} : worker'[u] = worker[u]
         /\ worker'[t].pc = "look"
         /\ worker'[t].file = worker[t].file /\ worker'[t].passed = worker[t].passed
         /\ <<worker[t].file, worker[t].passed>> \in Finds
         /\ channel' = Append(channel, <<worker[t].file, worker[t].passed>>)
<1>1. /\ Scan!Files' = Scan!Files /\ UNCHANGED <<job, shared, consumer, result>>
      /\ worker[t].pc = "send"
      /\ channel' = Append(channel, <<worker[t].file, worker[t].passed>>)
      /\ worker' = [worker EXCEPT ![t].pc = "look"]
  BY DEF Scan!Send, Scan!Files, Scan!Goes
<1>2. <<worker[t].file, worker[t].passed>> \in Finds BY DEF ScanTypes, Readers, Finds
<1>3. channel' \in Seq(Finds) BY <1>1, <1>2, AppendProperties DEF ScanTypes
<1>4. /\ worker' \in [Threads -> Readers] /\ \A u \in Threads \ {t} : worker'[u] = worker[u]
      /\ worker'[t].pc = "look" /\ worker'[t].file = worker[t].file
      /\ worker'[t].passed = worker[t].passed
  BY <1>1, ReaderGoes DEF ScanTypes
<1>5. ScanTypes' BY <1>1, <1>3, <1>4 DEF ScanTypes
<1>6. QED BY <1>1, <1>2, <1>4, <1>5

LEMMA ScanReceive ==
  ASSUME ScanTypes, Scan!Receive
  PROVE  /\ ScanTypes' /\ UNCHANGED <<job, shared, worker>> /\ consumer = "receive"
         /\ \/ /\ consumer' = "done" /\ UNCHANGED <<channel, result>>
               /\ channel = <<>> \/ Len(result) >= job.limit
            \/ /\ consumer' = consumer /\ channel # <<>> /\ ~(Len(result) >= job.limit)
               /\ Len(result') = Len(result) + 1 /\ Len(channel') = Len(channel) - 1
               /\ result' \o channel' = result \o channel
<1>1. /\ Scan!Files' = Scan!Files /\ UNCHANGED <<job, shared, worker>> /\ consumer = "receive"
  BY DEF Scan!Receive, Scan!Files
<1>2. CASE channel = <<>> \/ Len(result) >= job.limit
  <2>1. consumer' = "done" /\ UNCHANGED <<channel, result>> BY <1>2 DEF Scan!Receive
  <2>2. ScanTypes' BY <1>1, <2>1 DEF ScanTypes
  <2>3. QED BY <1>1, <1>2, <2>1, <2>2
<1>3. CASE ~(channel = <<>> \/ Len(result) >= job.limit)
  <2>1. /\ result' = Append(result, Head(channel)) /\ channel' = Tail(channel)
        /\ consumer' = consumer
    BY <1>3 DEF Scan!Receive
  <2>2. /\ result \in Seq(Finds) /\ channel \in Seq(Finds) /\ channel # <<>>
    BY <1>3 DEF ScanTypes
  <2>3. /\ result' \in Seq(Finds) /\ channel' \in Seq(Finds)
        /\ Len(result') = Len(result) + 1 /\ Len(channel') = Len(channel) - 1
        /\ result' \o channel' = result \o channel
    BY <2>1, <2>2, HeadMovesOn
  <2>4. ScanTypes' BY <1>1, <2>1, <2>3 DEF ScanTypes
  <2>5. QED BY <1>1, <1>3, <2>1, <2>3, <2>4
<1>4. QED BY <1>2, <1>3

LEMMA ScanWalked ==
  ASSUME ScanTypes, Scan!Walked
  PROVE  /\ ScanTypes' /\ UNCHANGED <<job, shared, worker, channel, result>>
         /\ consumer = "walk" /\ consumer' = "receive"
         /\ \A t \in Threads : worker[t].pc = "ended"
<1>1. Scan!Files' = Scan!Files BY DEF Scan!Walked, Scan!Files
<1>2. QED BY <1>1 DEF Scan!Walked, ScanTypes

\* The threads with a match to send after a step.
LEMMA SendersSame ==
  ASSUME \A u \in Threads : worker'[u].pc = "send" <=> worker[u].pc = "send"
  PROVE  Senders' = Senders
BY DEF Senders

LEMMA ScanCountsKept ==
  ASSUME ScanInv, Scan!ConsumerStep \/ \E t \in Threads : Scan!WorkerStep(t)
  PROVE  ScanCounts'
<1> USE DEF ScanInv
<1>0. /\ Len(channel) \in Nat /\ Len(result) \in Nat /\ shared.found \in Nat
      /\ shared.stop \in BOOLEAN /\ job.limit \in Nat
  BY ScanJob, LenProperties DEF ScanTypes
<1>1. ASSUME NEW t \in Threads, Scan!Visit(t) PROVE ScanCounts'
  <2>1. /\ UNCHANGED <<job, channel, consumer, result>> /\ worker[t].pc = "visit"
        /\ shared'.found = shared.found /\ shared'.stop = shared.stop
        /\ \A u \in Threads \ {t} : worker'[u] = worker[u]
        /\ worker'[t].pc # "send"
    BY <1>1, ScanVisit
  <2>2. Senders' = Senders BY <2>1, SendersSame
  <2>3. QED BY <1>0, <2>1, <2>2 DEF ScanCounts
<1>2. ASSUME NEW t \in Threads, Scan!Look(t) PROVE ScanCounts'
  <2>1. /\ UNCHANGED <<job, shared, channel, consumer, result>> /\ worker[t].pc = "look"
        /\ \A u \in Threads \ {t} : worker'[u] = worker[u]
        /\ worker'[t].pc # "send"
    BY <1>2, ScanLook
  <2>2. Senders' = Senders BY <2>1, SendersSame
  <2>3. QED BY <1>0, <2>1, <2>2 DEF ScanCounts
<1>3. ASSUME NEW t \in Threads, Scan!Count(t) PROVE ScanCounts'
  <2>1. /\ UNCHANGED <<job, channel, consumer, result>> /\ worker[t].pc = "count"
        /\ \A u \in Threads \ {t} : worker'[u] = worker[u]
        /\ shared'.found = shared.found + 1
        /\ shared.found >= job.limit => shared'.stop = TRUE /\ worker'[t].pc = "visit"
        /\ ~(shared.found >= job.limit) => shared'.stop = shared.stop /\ worker'[t].pc = "send"
    BY <1>3, ScanCount
  <2>2. CASE shared.found >= job.limit
    <3>1. Senders' = Senders BY <2>1, <2>2, SendersSame
    <3>2. QED BY <1>0, <2>1, <2>2, <3>1 DEF ScanCounts
  <2>3. CASE ~(shared.found >= job.limit)
    <3>1. Senders' = Senders \cup {t} /\ t \notin Senders BY <2>1, <2>3 DEF Senders
    <3>2. /\ IsFiniteSet(Senders') /\ Cardinality(Senders') = Cardinality(Senders) + 1
          /\ Cardinality(Senders) \in Nat
      BY <3>1, FS_AddElement, FS_CardinalityType DEF ScanCounts
    <3>3. Len(result) + Len(channel) + Cardinality(Senders) = shared.found
      BY <2>3, <1>0 DEF ScanCounts
    <3>4. Len(result) + Len(channel) + Cardinality(Senders') = shared.found + 1
      BY <3>2, <3>3, <1>0
    <3>5. shared.found + 1 <= job.limit /\ shared'.found <= job.limit BY <2>1, <2>3, <1>0
    <3>6. ~shared.stop /\ ~shared'.stop BY <2>1, <2>3, <1>0, <3>5 DEF ScanCounts
    <3>7. consumer = "walk" BY <2>1 DEF ScanCounts, ScanTypes
    <3>8. QED BY <1>0, <2>1, <3>2, <3>4, <3>5, <3>6, <3>7 DEF ScanCounts
  <2>4. QED BY <2>2, <2>3
<1>4. ASSUME NEW t \in Threads, Scan!Send(t) PROVE ScanCounts'
  <2>1. /\ UNCHANGED <<job, shared, consumer, result>> /\ worker[t].pc = "send"
        /\ \A u \in Threads \ {t} : worker'[u] = worker[u]
        /\ worker'[t].pc = "look"
        /\ <<worker[t].file, worker[t].passed>> \in Finds
        /\ channel' = Append(channel, <<worker[t].file, worker[t].passed>>)
    BY <1>4, ScanSend
  <2>2. Len(channel') = Len(channel) + 1 BY <2>1, AppendProperties DEF ScanTypes
  <2>3. Senders' = Senders \ {t} /\ t \in Senders BY <2>1 DEF Senders
  <2>4. /\ IsFiniteSet(Senders') /\ Cardinality(Senders') = Cardinality(Senders) - 1
        /\ Cardinality(Senders) \in Nat
    BY <2>3, FS_RemoveElement, FS_CardinalityType DEF ScanCounts
  <2>5. consumer = "walk" BY <2>1 DEF ScanCounts, ScanTypes
  <2>6. Len(result) + Len(channel') + Cardinality(Senders')
          = Len(result) + Len(channel) + Cardinality(Senders)
    BY <1>0, <2>2, <2>4
  <2>7. QED BY <2>1, <2>4, <2>5, <2>6 DEF ScanCounts
<1>5. ASSUME Scan!Receive PROVE ScanCounts'
  <2>1. /\ UNCHANGED <<job, shared, worker>> /\ consumer = "receive"
        /\ \/ /\ consumer' = "done" /\ UNCHANGED <<channel, result>>
              /\ channel = <<>> \/ Len(result) >= job.limit
           \/ /\ consumer' = consumer /\ ~(Len(result) >= job.limit)
              /\ Len(result') = Len(result) + 1 /\ Len(channel') = Len(channel) - 1
    BY <1>5, ScanReceive
  <2>2. Senders' = Senders BY <2>1, SendersSame
  <2>3. Cardinality(Senders) \in Nat BY FS_CardinalityType DEF ScanCounts
  <2>4. Len(result') + Len(channel') = Len(result) + Len(channel) BY <1>0, <2>1
  <2>5. Len(result') <= job.limit BY <1>0, <2>1 DEF ScanCounts
  <2>6. /\ Len(result') + Len(channel') + Cardinality(Senders')
             = (IF shared'.found <= job'.limit THEN shared'.found ELSE job'.limit)
        /\ IsFiniteSet(Senders') /\ (shared'.stop <=> shared'.found > job'.limit)
    BY <2>1, <2>2, <2>4 DEF ScanCounts
  <2>7. /\ \A t \in Threads : worker'[t].pc = "ended"
        /\ consumer' = "done" => channel' = <<>> \/ Len(result') >= job'.limit
    BY <2>1 DEF ScanCounts
  <2>8. QED BY <2>1, <2>5, <2>6, <2>7 DEF ScanCounts
<1>6. ASSUME Scan!Walked PROVE ScanCounts'
  <2>1. /\ UNCHANGED <<job, shared, worker, channel, result>> /\ consumer' = "receive"
        /\ \A t \in Threads : worker[t].pc = "ended"
    BY <1>6, ScanWalked
  <2>2. Senders' = Senders BY <2>1, SendersSame
  <2>3. QED BY <1>0, <2>1, <2>2 DEF ScanCounts
<1>7. QED BY <1>1, <1>2, <1>3, <1>4, <1>5, <1>6 DEF Scan!ConsumerStep, Scan!WorkerStep

LEMMA MatchOf ==
  ASSUME NEW e
  PROVE  e \in Scan!Matches <=>
           \E f \in Scan!Files : \E n \in 1..job.matches[f] : e = <<f, n>>
BY DEF Scan!Matches

LEMMA MatchesKept ==
  ASSUME job' = job
  PROVE  Scan!Files' = Scan!Files /\ Scan!Matches' = Scan!Matches
BY DEF Scan!Matches, Scan!Files

LEMMA SentType ==
  ASSUME ScanTypes
  PROVE  /\ Sent \in Seq(Finds) /\ Len(Sent) = Len(result) + Len(channel) /\ Len(Sent) \in Nat
         /\ \A i \in 1..Len(Sent) : Sent[i][1] \in Nat /\ Sent[i][2] \in Nat
<1>1. Sent \in Seq(Finds) /\ Len(Sent) = Len(result) + Len(channel)
  BY ConcatProperties DEF ScanTypes, Sent
<1>2. Len(Sent) \in Nat BY <1>1, LenProperties
<1>3. ASSUME NEW i \in 1..Len(Sent) PROVE Sent[i][1] \in Nat /\ Sent[i][2] \in Nat
  <2>1. Sent[i] \in Finds BY <1>1, ElementOfSeq
  <2>2. QED BY <2>1 DEF Finds
<1>4. QED BY <1>1, <1>2, <1>3

\* Whatever is neither sent nor looked at anew stays in its place.
LEMMA PlacesWithoutSending ==
  ASSUME ScanTypes, ScanTypes', ScanPlaces, job' = job, Sent' = Sent,
         shared'.files \subseteq shared.files,
         \A u \in Threads : Reading(u)' =>
           \/ /\ worker'[u].file \in shared.files \ shared'.files /\ worker'[u].passed = 0
              /\ ~Open(u)'
              /\ \A v \in Threads : Reading(v)' /\ worker'[v].file = worker'[u].file => v = u
           \/ /\ Reading(u) /\ worker'[u].file = worker[u].file
              /\ worker'[u].passed \in worker[u].passed..job.matches[worker[u].file]
              /\ Open(u)' => Open(u) \/ worker'[u].passed > worker[u].passed
  PROVE  ScanPlaces'
<1>1. Scan!Files' = Scan!Files /\ Scan!Matches' = Scan!Matches BY MatchesKept
<1>2. \A u \in Threads : /\ worker[u].file \in Nat /\ worker[u].passed \in Nat
                         /\ worker'[u].file \in Nat /\ worker'[u].passed \in Nat
  BY DEF ScanTypes, Readers
<1>3. shared.files \subseteq Scan!Files BY DEF ScanTypes
<1>4. ASSUME NEW t \in Threads, Reading(t)'
      PROVE  /\ worker'[t].file \in Scan!Files \ shared'.files
             /\ worker'[t].passed <= job.matches[worker'[t].file]
             /\ Open(t)' => worker'[t].passed > 0
             /\ \A u \in Threads : Reading(u)' /\ worker'[u].file = worker'[t].file => u = t
  <2>1. CASE worker'[t].file \in shared.files \ shared'.files
    <3>1. job.matches[worker'[t].file] \in Nat BY <1>3, <2>1, ScanJob
    <3>2. ~(Reading(t) /\ worker'[t].file = worker[t].file) BY <2>1 DEF ScanPlaces
    <3>3. QED BY <1>3, <1>4, <2>1, <3>1, <3>2
  <2>2. CASE worker'[t].file \notin shared.files \ shared'.files
    <3>1. /\ Reading(t) /\ worker'[t].file = worker[t].file
          /\ worker'[t].passed \in worker[t].passed..job.matches[worker[t].file]
          /\ Open(t)' => Open(t) \/ worker'[t].passed > worker[t].passed
      BY <1>4, <2>2
    <3>2. /\ worker[t].file \in Scan!Files \ shared.files
          /\ Open(t) => worker[t].passed > 0
          /\ \A u \in Threads : Reading(u) /\ worker[u].file = worker[t].file => u = t
      BY <3>1 DEF ScanPlaces
    <3>3. job.matches[worker[t].file] \in Nat BY <3>2, ScanJob
    <3>4. ASSUME NEW u \in Threads, Reading(u)', worker'[u].file = worker'[t].file PROVE u = t
      <4>1. Reading(u) /\ worker'[u].file = worker[u].file BY <2>2, <3>4
      <4>2. QED BY <3>1, <3>2, <3>4, <4>1
    <3>5. QED BY <1>2, <3>1, <3>2, <3>3, <3>4
  <2>3. QED BY <2>1, <2>2
<1>5. ASSUME NEW i \in 1..Len(Sent)
      PROVE  /\ Sent[i] \in Scan!Matches /\ Sent[i][1] \notin shared'.files
             /\ \A t \in Threads : Reading(t)' /\ worker'[t].file = Sent[i][1] =>
                  /\ Sent[i][2] <= worker'[t].passed
                  /\ Open(t)' => Sent[i][2] < worker'[t].passed
  <2>1. /\ Sent[i] \in Scan!Matches /\ Sent[i][1] \notin shared.files
        /\ \A t \in Threads : Reading(t) /\ worker[t].file = Sent[i][1] =>
             /\ Sent[i][2] <= worker[t].passed
             /\ Open(t) => Sent[i][2] < worker[t].passed
    BY DEF ScanPlaces
  <2>2. Sent[i][2] \in Nat BY SentType
  <2>3. ASSUME NEW t \in Threads, Reading(t)', worker'[t].file = Sent[i][1]
        PROVE  /\ Sent[i][2] <= worker'[t].passed
               /\ Open(t)' => Sent[i][2] < worker'[t].passed
    <3>1. /\ Reading(t) /\ worker'[t].file = worker[t].file
          /\ worker'[t].passed \in worker[t].passed..job.matches[worker[t].file]
          /\ Open(t)' => Open(t) \/ worker'[t].passed > worker[t].passed
      BY <2>1, <2>3
    <3>2. worker'[t].passed >= worker[t].passed
      BY <1>2, <3>1
    <3>3. QED BY <1>2, <2>1, <2>2, <2>3, <3>1, <3>2
  <2>4. QED BY <2>1, <2>3
<1>6. \A i, k \in 1..Len(Sent') : Sent'[i] = Sent'[k] => i = k BY DEF ScanPlaces
<1>7. QED BY <1>1, <1>4, <1>5, <1>6 DEF ScanPlaces

LEMMA ReadersStand ==
  ASSUME ScanInv, NEW u \in Threads, Reading(u)
  PROVE  /\ worker[u].file \in Scan!Files \ shared.files
         /\ worker[u].passed \in Nat /\ job.matches[worker[u].file] \in Nat
         /\ worker[u].passed <= job.matches[worker[u].file]
         /\ worker[u].passed \in worker[u].passed..job.matches[worker[u].file]
<1>1. /\ worker[u].file \in Scan!Files \ shared.files
      /\ worker[u].passed <= job.matches[worker[u].file]
  BY DEF ScanInv, ScanPlaces
<1>2. worker[u].passed \in Nat BY DEF ScanInv, ScanTypes, Readers
<1>3. job.matches[worker[u].file] \in Nat BY <1>1, ScanJob DEF ScanInv
<1>4. QED BY <1>1, <1>2, <1>3

LEMMA PlacesOfVisit ==
  ASSUME ScanInv, NEW t \in Threads, Scan!Visit(t) PROVE ScanPlaces'
<1>1. /\ ScanTypes' /\ UNCHANGED <<job, channel, consumer, result>> /\ worker[t].pc = "visit"
      /\ \A u \in Threads \ {t} : worker'[u] = worker[u]
      /\ \/ shared' = shared /\ worker'[t].pc = "ended"
         \/ \E f \in shared.files :
              /\ worker'[t].pc = "look" /\ worker'[t].file = f /\ worker'[t].passed = 0
              /\ shared'.files = shared.files \ {f}
  BY ScanVisit DEF ScanInv
<1>2. Sent' = Sent BY <1>1 DEF Sent
<1>3. shared'.files \subseteq shared.files BY <1>1
<1>4. \A u \in Threads \ {t} : Reading(u) =>
        /\ worker[u].file \in Scan!Files \ shared.files
        /\ worker[u].passed \in worker[u].passed..job.matches[worker[u].file]
  BY ReadersStand
<1>5. \A u \in Threads \ {t} : Reading(u)' <=> Reading(u) BY <1>1 DEF Reading
<1>6. \A u \in Threads \ {t} : Open(u)' <=> Open(u) BY <1>1 DEF Open
<1>7. CASE worker'[t].pc = "ended"
  <2>1. ~Reading(t)' BY <1>7 DEF Reading
  <2>2. QED BY <1>1, <1>2, <1>3, <1>4, <1>5, <1>6, <2>1, PlacesWithoutSending DEF ScanInv
<1>8. CASE worker'[t].pc # "ended"
  <2>1. /\ worker'[t].pc = "look" /\ worker'[t].file \in shared.files \ shared'.files
        /\ worker'[t].passed = 0
    BY <1>1, <1>8
  <2>2. Reading(t)' /\ ~Open(t)' BY <2>1 DEF Reading, Open
  <2>3. \A v \in Threads : Reading(v)' /\ worker'[v].file = worker'[t].file => v = t
    BY <1>1, <1>4, <1>5, <2>1
  <2>4. QED BY <1>1, <1>2, <1>3, <1>4, <1>5, <1>6, <2>1, <2>2, <2>3, PlacesWithoutSending DEF ScanInv
<1>9. QED BY <1>7, <1>8

LEMMA PlacesOfLook ==
  ASSUME ScanInv, NEW t \in Threads, Scan!Look(t) PROVE ScanPlaces'
<1>1. /\ ScanTypes' /\ UNCHANGED <<job, shared, channel, consumer, result>> /\ worker[t].pc = "look"
      /\ \A u \in Threads \ {t} : worker'[u] = worker[u]
      /\ worker'[t].file = worker[t].file
      /\ \/ worker'[t].pc = "visit"
         \/ /\ worker'[t].pc = "count" /\ worker'[t].passed = worker[t].passed + 1
            /\ worker[t].passed # job.matches[worker[t].file]
  BY ScanLook DEF ScanInv
<1>2. Sent' = Sent BY <1>1 DEF Sent
<1>3. \A u \in Threads \ {t} : Reading(u) =>
        worker[u].passed \in worker[u].passed..job.matches[worker[u].file]
  BY ReadersStand
<1>4. \A u \in Threads \ {t} : Reading(u)' <=> Reading(u) BY <1>1 DEF Reading
<1>5. \A u \in Threads \ {t} : Open(u)' <=> Open(u) BY <1>1 DEF Open
<1>6. Reading(t)' =>
        /\ Reading(t) /\ worker'[t].passed > worker[t].passed
        /\ worker'[t].passed \in worker[t].passed..job.matches[worker[t].file]
  <2>1. SUFFICES ASSUME Reading(t)'
                 PROVE  /\ Reading(t) /\ worker'[t].passed > worker[t].passed
                        /\ worker'[t].passed \in worker[t].passed..job.matches[worker[t].file]
    OBVIOUS
  <2>2. worker'[t].passed = worker[t].passed + 1 /\ worker[t].passed # job.matches[worker[t].file]
    BY <1>1, <2>1 DEF Reading
  <2>3. Reading(t) BY <1>1 DEF Reading
  <2>4. QED BY <2>2, <2>3, ReadersStand
<1>7. shared'.files \subseteq shared.files BY <1>1
<1>8. QED BY <1>1, <1>2, <1>3, <1>4, <1>5, <1>6, <1>7, PlacesWithoutSending DEF ScanInv

LEMMA PlacesOfCount ==
  ASSUME ScanInv, NEW t \in Threads, Scan!Count(t) PROVE ScanPlaces'
<1>1. /\ ScanTypes' /\ UNCHANGED <<job, channel, consumer, result>> /\ worker[t].pc = "count"
      /\ \A u \in Threads \ {t} : worker'[u] = worker[u]
      /\ worker'[t].file = worker[t].file /\ worker'[t].passed = worker[t].passed
      /\ shared'.files = shared.files
  BY ScanCount DEF ScanInv
<1>2. Sent' = Sent BY <1>1 DEF Sent
<1>3. \A u \in Threads : Reading(u) =>
        worker[u].passed \in worker[u].passed..job.matches[worker[u].file]
  BY ReadersStand
<1>4. \A u \in Threads \ {t} : Reading(u)' <=> Reading(u) BY <1>1 DEF Reading
<1>5. \A u \in Threads \ {t} : Open(u)' <=> Open(u) BY <1>1 DEF Open
<1>6. Reading(t) /\ Open(t) BY <1>1 DEF Reading, Open
<1>7. shared'.files \subseteq shared.files BY <1>1
<1>8. QED BY <1>1, <1>2, <1>3, <1>4, <1>5, <1>6, <1>7, PlacesWithoutSending DEF ScanInv

\* A match that is sent is a new one.
LEMMA SendIsNew ==
  ASSUME ScanInv, NEW t \in Threads, Scan!Send(t)
  PROVE  LET e == <<worker[t].file, worker[t].passed>>
         IN  /\ e \in Scan!Matches /\ e[1] \notin shared.files
             /\ e \in Finds /\ Sent' = Append(Sent, e)
             /\ Sent \in Seq(Finds) /\ Len(Sent') = Len(Sent) + 1 /\ Len(Sent) \in Nat
             /\ \A i \in 1..Len(Sent) : Sent'[i] = Sent[i] /\ Sent[i] # e
             /\ Sent'[Len(Sent) + 1] = e
<1> DEFINE e == <<worker[t].file, worker[t].passed>>
<1>1. /\ UNCHANGED <<job, shared, consumer, result>> /\ worker[t].pc = "send" /\ e \in Finds
      /\ channel' = Append(channel, e)
  BY ScanSend DEF ScanInv
<1>2. Reading(t) /\ Open(t) BY <1>1 DEF Reading, Open
<1>3. /\ worker[t].file \in Scan!Files \ shared.files /\ worker[t].passed > 0
      /\ worker[t].passed \in 1..job.matches[worker[t].file]
  BY <1>2, ReadersStand DEF ScanInv, ScanPlaces
<1>4. e \in Scan!Matches BY <1>3, MatchOf
<1>5. /\ Sent' = Append(Sent, e) /\ Sent \in Seq(Finds) /\ Len(Sent') = Len(Sent) + 1
      /\ \A i \in 1..Len(Sent) : Sent'[i] = Sent[i]
      /\ Sent'[Len(Sent) + 1] = e
  <2>1. result \in Seq(Finds) /\ channel \in Seq(Finds) BY DEF ScanInv, ScanTypes
  <2>2. result' = result /\ channel' = Append(channel, e) BY <1>1
  <2>3. Sent = result \o channel /\ Sent' = result \o Append(channel, e) BY <2>2 DEF Sent
  <2> HIDE DEF e
  <2>4. QED BY <1>1, <2>1, <2>3, SentLast
<1>6. ASSUME NEW i \in 1..Len(Sent) PROVE Sent[i] # e
  <2>1. Sent[i][1] = worker[t].file => Sent[i][2] < worker[t].passed
    BY <1>2 DEF ScanInv, ScanPlaces
  <2>2. Sent[i][2] \in Nat /\ worker[t].passed \in Nat
    BY <1>2, ReadersStand, SentType DEF ScanInv
  <2>3. QED BY <2>1, <2>2
<1>7. Len(Sent) \in Nat BY SentType DEF ScanInv
<1>8. QED BY <1>1, <1>3, <1>4, <1>5, <1>6, <1>7

LEMMA PlacesOfSend ==
  ASSUME ScanInv, NEW t \in Threads, Scan!Send(t) PROVE ScanPlaces'
<1> DEFINE e == <<worker[t].file, worker[t].passed>>
<1>1. /\ ScanTypes' /\ UNCHANGED <<job, shared, consumer, result>> /\ worker[t].pc = "send"
      /\ \A u \in Threads \ {t} : worker'[u] = worker[u]
      /\ worker'[t].pc = "look"
      /\ worker'[t].file = worker[t].file /\ worker'[t].passed = worker[t].passed
  BY ScanSend DEF ScanInv
<1>2. /\ e \in Scan!Matches /\ e[1] \notin shared.files
      /\ Len(Sent') = Len(Sent) + 1 /\ Len(Sent) \in Nat
      /\ \A i \in 1..Len(Sent) : Sent'[i] = Sent[i] /\ Sent[i] # e
      /\ Sent'[Len(Sent) + 1] = e
  BY SendIsNew
<1>3. e[1] = worker[t].file /\ e[2] = worker[t].passed OBVIOUS
<1> HIDE DEF e
<1>4. Scan!Files' = Scan!Files /\ Scan!Matches' = Scan!Matches BY <1>1, MatchesKept
<1>5. \A u \in Threads : Reading(u)' <=> Reading(u) BY <1>1 DEF Reading
<1>6. \A u \in Threads : Open(u)' => Open(u) BY <1>1 DEF Open
<1>7. ~Open(t)' /\ Reading(t) BY <1>1 DEF Open, Reading
<1>8. \A u \in Threads : worker'[u].file = worker[u].file /\ worker'[u].passed = worker[u].passed
  BY <1>1
<1>9. ASSUME NEW u \in Threads, Reading(u)'
      PROVE  /\ worker'[u].file \in Scan!Files \ shared.files
             /\ worker'[u].passed <= job.matches[worker'[u].file]
             /\ Open(u)' => worker'[u].passed > 0
             /\ \A v \in Threads : Reading(v)' /\ worker'[v].file = worker'[u].file => v = u
  BY <1>5, <1>6, <1>8, <1>9 DEF ScanInv, ScanPlaces
<1>10. ASSUME NEW i \in 1..Len(Sent')
       PROVE  /\ Sent'[i] \in Scan!Matches /\ Sent'[i][1] \notin shared.files
              /\ \A u \in Threads : Reading(u)' /\ worker'[u].file = Sent'[i][1] =>
                   /\ Sent'[i][2] <= worker'[u].passed
                   /\ Open(u)' => Sent'[i][2] < worker'[u].passed
  <2>1. CASE i \in 1..Len(Sent)
    <3>1. Sent'[i] = Sent[i] BY <1>2, <2>1
    <3>2. /\ Sent[i] \in Scan!Matches /\ Sent[i][1] \notin shared.files
          /\ \A u \in Threads : Reading(u) /\ worker[u].file = Sent[i][1] =>
               /\ Sent[i][2] <= worker[u].passed
               /\ Open(u) => Sent[i][2] < worker[u].passed
      BY <2>1 DEF ScanInv, ScanPlaces
    <3>3. QED BY <1>5, <1>6, <1>8, <3>1, <3>2
  <2>2. CASE i = Len(Sent) + 1
    <3>1. Sent'[i] = e BY <1>2, <2>2
    <3>2. ASSUME NEW u \in Threads, Reading(u)', worker'[u].file = e[1]
          PROVE  e[2] <= worker'[u].passed /\ ~Open(u)'
      <4>1. u = t
        <5>1. Reading(u) /\ worker[u].file = worker[t].file BY <1>3, <1>5, <1>8, <3>2
        <5>2. QED BY <5>1, <1>7 DEF ScanInv, ScanPlaces
      <4>2. worker[t].passed \in Nat BY <1>7, ReadersStand
      <4>3. QED BY <4>1, <4>2, <1>3, <1>7, <1>8
    <3>3. QED BY <1>2, <3>1, <3>2
  <2>3. QED BY <1>2, <2>1, <2>2
<1>11. ASSUME NEW i \in 1..Len(Sent'), NEW k \in 1..Len(Sent'), Sent'[i] = Sent'[k] PROVE i = k
  <2>1. CASE i \in 1..Len(Sent) /\ k \in 1..Len(Sent)
    BY <1>2, <1>11, <2>1 DEF ScanInv, ScanPlaces
  <2>2. CASE i = Len(Sent) + 1 /\ k \in 1..Len(Sent) BY <1>2, <1>11, <2>2
  <2>3. CASE k = Len(Sent) + 1 /\ i \in 1..Len(Sent) BY <1>2, <1>11, <2>3
  <2>4. CASE k = Len(Sent) + 1 /\ i = Len(Sent) + 1 BY <2>4
  <2>5. QED BY <1>2, <2>1, <2>2, <2>3, <2>4
<1>12. QED BY <1>1, <1>4, <1>9, <1>10, <1>11 DEF ScanPlaces

LEMMA ScanPlacesKept ==
  ASSUME ScanInv, Scan!ConsumerStep \/ \E t \in Threads : Scan!WorkerStep(t)
  PROVE  ScanPlaces'
<1>1. ASSUME Scan!ConsumerStep PROVE ScanPlaces'
  <2>1. UNCHANGED <<job, shared, worker>> /\ ScanTypes'
    BY <1>1, ScanReceive, ScanWalked DEF Scan!ConsumerStep, ScanInv
  <2>2. Sent' = Sent
    BY <1>1, ScanReceive, ScanWalked DEF Scan!ConsumerStep, ScanInv, Sent
  <2>3. Scan!Files' = Scan!Files /\ Scan!Matches' = Scan!Matches BY <2>1, MatchesKept
  <2>4. \A t \in Threads : (Reading(t)' <=> Reading(t)) /\ (Open(t)' <=> Open(t))
    BY <2>1 DEF Reading, Open
  <2>5. QED BY <2>1, <2>2, <2>3, <2>4 DEF ScanInv, ScanPlaces
<1>2. QED
  BY <1>1, PlacesOfVisit, PlacesOfLook, PlacesOfCount, PlacesOfSend DEF Scan!WorkerStep

\* What is due with one thread stays due if only another one moves.
LEMMA DueWithOthers ==
  ASSUME NEW t \in Threads, \A u \in Threads \ {t} : worker'[u] = worker[u],
         NEW f, NEW n, IsDue(f, n)
  PROVE  IsDue(f, n)' \/ IsDueWith(t, f, n)
<1>1. PICK u \in Threads : IsDueWith(u, f, n) BY DEF IsDue
<1>2. CASE u = t BY <1>1, <1>2
<1>3. CASE u # t
  <2>1. worker'[u] = worker[u] BY <1>3
  <2>2. IsDueWith(u, f, n)' BY <1>1, <2>1 DEF IsDueWith, Reading, Open
  <2>3. QED BY <2>2 DEF IsDue
<1>4. QED BY <1>2, <1>3

LEMMA CompleteOfVisit ==
  ASSUME ScanInv, NEW t \in Threads, Scan!Visit(t) PROVE ScanComplete'
<1>1. /\ UNCHANGED <<job, channel, consumer, result>> /\ worker[t].pc = "visit"
      /\ shared'.stop = shared.stop /\ \A u \in Threads \ {t} : worker'[u] = worker[u]
      /\ \/ /\ shared' = shared /\ worker'[t].pc = "ended" /\ (shared.stop \/ shared.files = {})
         \/ \E f \in shared.files :
              /\ worker'[t].pc = "look" /\ worker'[t].file = f /\ worker'[t].passed = 0
              /\ shared'.files = shared.files \ {f}
  BY ScanVisit DEF ScanInv
<1>2. SUFFICES ASSUME ~shared.stop PROVE ScanComplete' BY <1>1 DEF ScanComplete
<1>3. Sent' = Sent /\ Scan!Files' = Scan!Files BY <1>1, MatchesKept DEF Sent
<1>4. ASSUME NEW u \in Threads, worker'[u].pc = "ended" PROVE shared'.files = {}
  <2>1. CASE u = t BY <1>1, <1>2, <1>4, <2>1
  <2>2. CASE u # t
    <3>1. shared.files = {} BY <1>1, <1>2, <1>4, <2>2 DEF ScanInv, ScanComplete
    <3>2. QED BY <1>1, <3>1
  <2>3. QED BY <2>1, <2>2
<1>5. ASSUME NEW f \in Scan!Files \ shared'.files, NEW n \in 1..job.matches[f]
      PROVE  IsSent(f, n)' \/ IsDue(f, n)'
  <2>1. CASE f \notin shared.files
    <3>1. IsSent(f, n) \/ IsDue(f, n) BY <1>2, <2>1 DEF ScanInv, ScanComplete
    <3>2. IsSent(f, n) => IsSent(f, n)' BY <1>3 DEF IsSent
    <3>3. ~Reading(t) BY <1>1 DEF Reading
    <3>4. IsDue(f, n) => IsDue(f, n)' BY <1>1, <3>3, DueWithOthers DEF IsDueWith
    <3>5. QED BY <3>1, <3>2, <3>4
  <2>2. CASE f \in shared.files
    <3>1. worker'[t].pc = "look" /\ worker'[t].file = f /\ worker'[t].passed = 0
      BY <1>1, <2>2
    <3>2. Reading(t)' BY <3>1 DEF Reading
    <3>3. job.matches[f] \in Nat BY ScanJob DEF ScanInv
    <3>4. n > 0 BY <3>3
    <3>5. QED BY <3>1, <3>2, <3>4 DEF IsDue, IsDueWith
  <2>3. QED BY <2>1, <2>2
<1>6. QED BY <1>1, <1>3, <1>4, <1>5 DEF ScanComplete

LEMMA CompleteOfLook ==
  ASSUME ScanInv, NEW t \in Threads, Scan!Look(t) PROVE ScanComplete'
<1>1. /\ UNCHANGED <<job, shared, channel, consumer, result>> /\ worker[t].pc = "look"
      /\ \A u \in Threads \ {t} : worker'[u] = worker[u]
      /\ worker'[t].file = worker[t].file
      /\ \/ /\ worker'[t].pc = "visit"
            /\ worker[t].passed = job.matches[worker[t].file] \/ shared.stop
         \/ worker'[t].pc = "count" /\ worker'[t].passed = worker[t].passed + 1
  BY ScanLook DEF ScanInv
<1>2. SUFFICES ASSUME ~shared.stop PROVE ScanComplete' BY <1>1 DEF ScanComplete
<1>3. Sent' = Sent /\ Scan!Files' = Scan!Files BY <1>1, MatchesKept DEF Sent
<1>4. \A u \in Threads : worker'[u].pc = "ended" => shared'.files = {}
  BY <1>1, <1>2 DEF ScanInv, ScanComplete
<1>5. ASSUME NEW f \in Scan!Files \ shared.files, NEW n \in 1..job.matches[f]
      PROVE  IsSent(f, n)' \/ IsDue(f, n)'
  <2>1. IsSent(f, n) \/ IsDue(f, n) BY <1>2 DEF ScanInv, ScanComplete
  <2>2. IsSent(f, n) => IsSent(f, n)' BY <1>3 DEF IsSent
  <2>3. ~Open(t) BY <1>1 DEF Open
  <2>4. ASSUME Reading(t), worker[t].file = f, n > worker[t].passed PROVE IsDue(f, n)'
    <3>1. worker[t].passed \in Nat /\ job.matches[f] \in Nat BY <2>4, ReadersStand
    <3>2. worker'[t].pc = "count" /\ worker'[t].passed = worker[t].passed + 1
      BY <1>1, <1>2, <2>4, <3>1
    <3>3. Reading(t)' /\ Open(t)' BY <3>2 DEF Reading, Open
    <3>4. n > worker'[t].passed \/ n = worker'[t].passed BY <2>4, <3>1, <3>2
    <3>5. QED BY <1>1, <2>4, <3>3, <3>4 DEF IsDue, IsDueWith
  <2>5. IsDue(f, n) => IsDue(f, n)' BY <1>1, <2>3, <2>4, DueWithOthers DEF IsDueWith
  <2>6. QED BY <2>1, <2>2, <2>5
<1>6. QED BY <1>1, <1>3, <1>4, <1>5 DEF ScanComplete

LEMMA CompleteOfCount ==
  ASSUME ScanInv, NEW t \in Threads, Scan!Count(t) PROVE ScanComplete'
<1>1. /\ UNCHANGED <<job, channel, consumer, result>> /\ worker[t].pc = "count"
      /\ \A u \in Threads \ {t} : worker'[u] = worker[u]
      /\ worker'[t].file = worker[t].file /\ worker'[t].passed = worker[t].passed
      /\ shared'.files = shared.files
      /\ shared.found >= job.limit => shared'.stop = TRUE
      /\ ~(shared.found >= job.limit) => shared'.stop = shared.stop /\ worker'[t].pc = "send"
  BY ScanCount DEF ScanInv
<1>2. SUFFICES ASSUME ~shared'.stop PROVE ScanComplete' BY DEF ScanComplete
<1>3. ~shared.stop /\ worker'[t].pc = "send" BY <1>1, <1>2
<1>4. Sent' = Sent /\ Scan!Files' = Scan!Files BY <1>1, MatchesKept DEF Sent
<1>5. \A u \in Threads : worker'[u].pc = "ended" => shared'.files = {}
  BY <1>1, <1>3 DEF ScanInv, ScanComplete
<1>6. ASSUME NEW f \in Scan!Files \ shared.files, NEW n \in 1..job.matches[f]
      PROVE  IsSent(f, n)' \/ IsDue(f, n)'
  <2>1. IsSent(f, n) \/ IsDue(f, n) BY <1>3 DEF ScanInv, ScanComplete
  <2>2. IsSent(f, n) => IsSent(f, n)' BY <1>4 DEF IsSent
  <2>3. Reading(t)' /\ Open(t)' BY <1>3 DEF Reading, Open
  <2>4. IsDue(f, n) => IsDue(f, n)'
    <3>1. ASSUME worker[t].file = f, n > worker[t].passed \/ n = worker[t].passed PROVE IsDue(f, n)'
      BY <1>1, <2>3, <3>1 DEF IsDue, IsDueWith
    <3>2. QED BY <1>1, <3>1, DueWithOthers DEF IsDueWith
  <2>5. QED BY <2>1, <2>2, <2>4
<1>7. QED BY <1>1, <1>4, <1>5, <1>6 DEF ScanComplete

LEMMA CompleteOfSend ==
  ASSUME ScanInv, NEW t \in Threads, Scan!Send(t) PROVE ScanComplete'
<1>1. /\ UNCHANGED <<job, shared, consumer, result>> /\ worker[t].pc = "send"
      /\ \A u \in Threads \ {t} : worker'[u] = worker[u]
      /\ worker'[t].pc = "look"
      /\ worker'[t].file = worker[t].file /\ worker'[t].passed = worker[t].passed
  BY ScanSend DEF ScanInv
<1>2. /\ Len(Sent') = Len(Sent) + 1 /\ Len(Sent) \in Nat
      /\ \A i \in 1..Len(Sent) : Sent'[i] = Sent[i]
      /\ Sent'[Len(Sent) + 1] = <<worker[t].file, worker[t].passed>>
  BY SendIsNew
<1>3. SUFFICES ASSUME ~shared.stop PROVE ScanComplete' BY <1>1 DEF ScanComplete
<1>4. Scan!Files' = Scan!Files BY <1>1, MatchesKept
<1>5. \A u \in Threads : worker'[u].pc = "ended" => shared'.files = {}
  BY <1>1, <1>3 DEF ScanInv, ScanComplete
<1>6. ASSUME NEW f \in Scan!Files \ shared.files, NEW n \in 1..job.matches[f]
      PROVE  IsSent(f, n)' \/ IsDue(f, n)'
  <2>1. IsSent(f, n) \/ IsDue(f, n) BY <1>3 DEF ScanInv, ScanComplete
  <2>2. IsSent(f, n) => IsSent(f, n)' BY <1>2 DEF IsSent
  <2>3. Reading(t)' BY <1>1 DEF Reading
  <2>4. IsDue(f, n) => IsSent(f, n)' \/ IsDue(f, n)'
    <3>1. ASSUME worker[t].file = f, n > worker[t].passed PROVE IsDue(f, n)'
      BY <1>1, <2>3, <3>1 DEF IsDue, IsDueWith
    <3>2. ASSUME worker[t].file = f, n = worker[t].passed PROVE IsSent(f, n)'
      BY <1>2, <3>2 DEF IsSent
    <3>3. QED BY <1>1, <3>1, <3>2, DueWithOthers DEF IsDueWith
  <2>5. QED BY <2>1, <2>2, <2>4
<1>7. QED BY <1>1, <1>4, <1>5, <1>6 DEF ScanComplete

LEMMA ScanCompleteKept ==
  ASSUME ScanInv, Scan!ConsumerStep \/ \E t \in Threads : Scan!WorkerStep(t)
  PROVE  ScanComplete'
<1>1. ASSUME Scan!ConsumerStep PROVE ScanComplete'
  <2>1. UNCHANGED <<job, shared, worker>>
    BY <1>1, ScanReceive, ScanWalked DEF Scan!ConsumerStep, ScanInv
  <2>2. Sent' = Sent
    BY <1>1, ScanReceive, ScanWalked DEF Scan!ConsumerStep, ScanInv, Sent
  <2>3. Scan!Files' = Scan!Files BY <2>1, MatchesKept
  <2>4. \A t \in Threads : (Reading(t)' <=> Reading(t)) /\ (Open(t)' <=> Open(t))
    BY <2>1 DEF Reading, Open
  <2>5. \A f, n : (IsSent(f, n)' <=> IsSent(f, n)) /\ (IsDue(f, n)' <=> IsDue(f, n))
    BY <2>1, <2>2, <2>4 DEF IsSent, IsDue, IsDueWith
  <2>6. QED BY <2>1, <2>3, <2>5 DEF ScanInv, ScanComplete
<1>2. QED
  BY <1>1, CompleteOfVisit, CompleteOfLook, CompleteOfCount, CompleteOfSend DEF Scan!WorkerStep

LEMMA ScanStep ==
  ASSUME ScanInv, Scan!ConsumerStep \/ \E t \in Threads : Scan!WorkerStep(t)
  PROVE  ScanInv'
<1>1. ScanTypes'
  BY ScanVisit, ScanLook, ScanCount, ScanSend, ScanReceive, ScanWalked
     DEF Scan!ConsumerStep, Scan!WorkerStep, ScanInv
<1>2. QED BY <1>1, ScanCountsKept, ScanPlacesKept, ScanCompleteKept DEF ScanInv

LEMMA SendersFit == ASSUME ScanInv PROVE Scan!SendersNeverWait
<1>1. /\ Len(channel) \in Nat /\ Len(result) \in Nat /\ Cardinality(Senders) \in Nat
      /\ job.limit \in Nat /\ job.capacity \in Nat /\ job.capacity >= job.limit /\ shared.found \in Nat
  BY ScanJob, LenProperties, FS_CardinalityType DEF ScanInv, ScanTypes, ScanCounts
<1>2. Len(result) + Len(channel) + Cardinality(Senders) <= job.limit
  BY <1>1 DEF ScanInv, ScanCounts
<1>3. Len(channel) + Cardinality(Senders) <= job.capacity BY <1>1, <1>2
<1>4. Scan!Cardinality(Senders) = Cardinality(Senders) BY SameCardinality
<1>5. QED BY <1>3, <1>4 DEF Scan!SendersNeverWait, Senders


LEMMA AsManyMatches == ASSUME ScanInv PROVE Scan!AsManyAsAllowed
<1>1. /\ result \in Seq(Finds) /\ Len(channel) \in Nat /\ Len(result) \in Nat
      /\ Len(Sent) = Len(result) + Len(channel) /\ job.limit \in Nat /\ shared.found \in Nat
  BY ScanJob, LenProperties, SentType DEF ScanInv, ScanTypes
<1>2. \A i \in 1..Len(result) : i \in 1..Len(Sent) /\ Sent[i] = result[i]
  BY <1>1, ConcatProperties DEF Sent, ScanInv, ScanTypes
<1>3. \A i, k \in 1..Len(result) : result[i] = result[k] => i = k
  BY <1>2 DEF ScanInv, ScanPlaces
<1>4. {result[i] : i \in 1..Len(result)} \subseteq Scan!Matches
  BY <1>2 DEF ScanInv, ScanPlaces
<1>5. ASSUME Scan!Over
      PROVE  \/ Len(result) = job.limit
             \/ Len(result) < job.limit /\ Len(result) = Scan!Cardinality(Scan!Matches)
  <2>1. consumer = "done" BY <1>5 DEF Scan!Over
  <2>2. /\ \A t \in Threads : worker[t].pc = "ended"
        /\ channel = <<>> \/ Len(result) >= job.limit
        /\ Len(result) <= job.limit
    BY <2>1 DEF ScanInv, ScanCounts
  <2>3. CASE Len(result) # job.limit
    <3>1. Len(channel) = 0 BY <1>1, <2>2, <2>3
    <3>2. Senders = {} BY <2>2 DEF Senders
    <3>3. Cardinality(Senders) = 0 BY <3>2, FS_EmptySet
    <3>4. shared.found <= job.limit BY <1>1, <2>2, <2>3, <3>1, <3>3 DEF ScanInv, ScanCounts
    <3>5. ~shared.stop BY <1>1, <3>4 DEF ScanInv, ScanCounts
    <3>6. PICK t \in Threads : TRUE BY ComputationAssumption DEF Scan!ScanAssumption
    <3>7. shared.files = {} BY <2>2, <3>5, <3>6 DEF ScanInv, ScanComplete
    <3>8. ASSUME NEW e \in Scan!Matches PROVE e \in {result[i] : i \in 1..Len(result)}
      <4>1. PICK f \in Scan!Files : \E n \in 1..job.matches[f] : e = <<f, n>> BY MatchOf
      <4>6. PICK n \in 1..job.matches[f] : e = <<f, n>> BY <4>1
      <4>2. ~IsDue(f, n) BY <2>2 DEF IsDue, IsDueWith, Reading
      <4>3. IsSent(f, n) BY <3>5, <3>7, <4>2 DEF ScanInv, ScanComplete
      <4>4. PICK i \in 1..Len(Sent) : Sent[i] = e BY <4>3, <4>6 DEF IsSent
      <4>5. QED BY <1>1, <1>2, <3>1, <4>4
    <3>9. Scan!Matches = {result[i] : i \in 1..Len(result)} BY <1>4, <3>8
    <3>10. Cardinality(Scan!Matches) = Len(result) BY <1>1, <1>3, <3>9, CountOfDistinct
    <3>11. QED BY <1>1, <2>2, <2>3, <3>10, SameCardinality
  <2>4. QED BY <2>3
<1>6. QED BY <1>3, <1>4, <1>5 DEF Scan!AsManyAsAllowed

(***************************************************************************)
(* The walk that gathers the files of an index run.                        *)
(***************************************************************************)
Gathered == [files : SUBSET job.files, errors : Nat]
Walkers  == [pc : {"walk", "visit", "count", "abort", "collect", "drop", "ended"},
             entry : {0} \cup job.entries, local : Gathered]
WalkTypes ==
  /\ job \in Walks
  /\ shared \in [left : SUBSET job.entries, seen : Nat, aborted : BOOLEAN, quit : BOOLEAN]
  /\ worker \in [Threads -> Walkers] /\ result \in Gathered
  /\ consumer \in {"walk", "failed", "done"}

Handles(t) == worker[t].pc \in {"visit", "count", "abort", "collect"}

\* Every entry has one thread that handles it.
WalkPlaces ==
  /\ \A t \in Threads : Handles(t) =>
       /\ worker[t].entry \in job.entries \ shared.left
       /\ worker[t].pc # "visit" => worker[t].entry \notin job.unreadable
       /\ \A u \in Threads : Handles(u) /\ worker[u].entry = worker[t].entry => u = t
  /\ consumer # "walk" => \A t \in Threads : worker[t].pc = "ended"
  /\ consumer = "done" => ~shared.aborted
  /\ consumer = "failed" => shared.aborted

\* The count is that of the entries that can be read and have been visited,
\* and the cap is only passed when there are more of them.
Visited(kind, pcs) ==
  {e \in kind \ shared.left : \A t \in Threads : worker[t].pc \in pcs => worker[t].entry # e}
Counted == Visited(job.entries \ job.unreadable, {"visit", "count"})

WalkCounts ==
  /\ shared.seen <= Cardinality(Counted)
  /\ ~shared.aborted => shared.seen = Cardinality(Counted)
  /\ shared.aborted => job.cap > 0 /\ shared.seen > job.cap
  /\ \A t \in Threads : worker[t].pc = "abort" => job.cap > 0 /\ shared.seen > job.cap
  /\ \/ job.cap = 0 \/ shared.seen <= job.cap \/ shared.aborted
     \/ \E t \in Threads : worker[t].pc = "abort"
  /\ shared.quit => shared.aborted

\* Until the cap is passed no file is lost.
WalkFiles ==
  /\ \A t \in Threads : worker[t].pc = "ended" => worker[t].local.files \subseteq result.files
  /\ ~shared.aborted =>
       /\ \A t \in Threads : worker[t].pc \in {"drop", "ended"} => shared.left = {}
       /\ \A f \in job.files \ (shared.left \cup result.files) :
            \E t \in Threads : \/ Handles(t) /\ worker[t].entry = f
                              \/ f \in worker[t].local.files

\* And each entry that cannot be read is one error, of the thread that looked
\* at it until that thread has handed it over.
Failed == Visited(job.unreadable, {"visit"})
Own(t, handed, by) == {e \in Failed \ handed : by[e] = t}
ErrorsAre(handed, by) ==
  /\ handed \subseteq Failed /\ result.errors = Cardinality(handed)
  /\ \A t \in Threads : IF worker[t].pc = "ended" THEN Own(t, handed, by) = {}
                        ELSE worker[t].local.errors = Cardinality(Own(t, handed, by))
WalkErrors ==
  ~shared.aborted =>
    \E handed \in SUBSET job.unreadable, by \in [job.unreadable -> Threads] : ErrorsAre(handed, by)

WalkInv == WalkTypes /\ WalkPlaces /\ WalkCounts /\ WalkFiles /\ WalkErrors

LEMMA WalkJob ==
  ASSUME WalkTypes
  PROVE  /\ IsFiniteSet(job.entries) /\ job.cap \in Nat
         /\ job.unreadable \subseteq job.entries /\ job.files \subseteq job.entries
         /\ job.unreadable \cap job.files = {}
<1>1. Walk!IsWalk(job) BY ComputationAssumption DEF WalkTypes, Walk!WalkAssumption
<1>2. Walk!IsFiniteSet(job.entries) <=> IsFiniteSet(job.entries)
  BY DEF Walk!IsFiniteSet, IsFiniteSet
<1>3. QED BY <1>1, <1>2 DEF Walk!IsWalk

LEMMA WalkInit == ASSUME Walk!Init PROVE WalkInv
<1>1. WalkTypes BY DEF Walk!Init, Walk!Nothing, WalkTypes, Walkers, Gathered
<1>2. \A t \in Threads : worker[t].pc = "walk" /\ worker[t].local.errors = 0
  BY DEF Walk!Init, Walk!Nothing
<1>3. /\ shared.left = job.entries /\ shared.seen = 0 /\ ~shared.aborted /\ ~shared.quit
      /\ consumer = "walk" /\ result.errors = 0
  BY DEF Walk!Init, Walk!Nothing
<1>4. WalkPlaces BY <1>2, <1>3 DEF WalkPlaces, Handles
<1>5. Counted = {} /\ Failed = {}
  BY <1>1, <1>3, WalkJob DEF Counted, Failed, Visited
<1>6. WalkCounts BY <1>1, <1>2, <1>3, <1>5, FS_EmptySet, WalkJob DEF WalkCounts
<1>7. WalkFiles BY <1>1, <1>2, <1>3, WalkJob DEF WalkFiles
<1>8. WalkErrors
  <2>1. PICK t \in Threads : TRUE BY ComputationAssumption DEF Walk!WalkAssumption
  <2> DEFINE by == [e \in job.unreadable |-> t]
  <2>2. by \in [job.unreadable -> Threads] OBVIOUS
  <2>3. ASSUME NEW u \in Threads
        PROVE  IF worker[u].pc = "ended" THEN Own(u, {}, by) = {}
               ELSE worker[u].local.errors = Cardinality(Own(u, {}, by))
    <3>1. Own(u, {}, by) = {} BY <1>5 DEF Own
    <3>2. QED BY <1>2, <3>1, FS_EmptySet
  <2>4. {} \subseteq Failed /\ result.errors = Cardinality({}) BY <1>3, FS_EmptySet
  <2>5. ErrorsAre({}, by) BY <2>3, <2>4 DEF ErrorsAre
  <2>6. {} \in SUBSET job.unreadable OBVIOUS
  <2>7. QED BY <2>2, <2>5, <2>6 DEF WalkErrors
<1>9. QED BY <1>1, <1>4, <1>6, <1>7, <1>8 DEF WalkInv

LEMMA WalkerMoves ==
  ASSUME worker \in [Threads -> Walkers], NEW t \in Threads, NEW r \in Walkers,
         worker' = [worker EXCEPT ![t] = r]
  PROVE  /\ worker' \in [Threads -> Walkers] /\ worker'[t] = r
         /\ \A u \in Threads \ {t} : worker'[u] = worker[u]
OBVIOUS

LEMMA WalkerGoes ==
  ASSUME worker \in [Threads -> Walkers], NEW t \in Threads,
         NEW pc \in {"walk", "visit", "count", "abort", "collect", "drop", "ended"},
         worker' = [worker EXCEPT ![t].pc = pc]
  PROVE  /\ worker' \in [Threads -> Walkers] /\ \A u \in Threads \ {t} : worker'[u] = worker[u]
         /\ worker'[t].pc = pc /\ worker'[t].entry = worker[t].entry
         /\ worker'[t].local = worker[t].local
BY DEF Walkers

LEMMA WalkerIs ==
  ASSUME WalkTypes, NEW t \in Threads
  PROVE  /\ worker[t].entry \in {0} \cup job.entries /\ worker[t].local \in Gathered
         /\ worker[t].local.files \subseteq job.files /\ worker[t].local.errors \in Nat
         /\ worker[t].pc \in {"walk", "visit", "count", "abort", "collect", "drop", "ended"}
<1>1. worker[t] \in Walkers BY DEF WalkTypes
<1>2. worker[t].local \in Gathered BY <1>1 DEF Walkers
<1>3. QED BY <1>1, <1>2 DEF Walkers, Gathered

LEMMA WalkTypesKept ==
  ASSUME WalkTypes, job' = job, worker' \in [Threads -> Walkers], result' \in Gathered,
         consumer' \in {"walk", "failed", "done"},
         shared' \in [left : SUBSET job.entries, seen : Nat, aborted : BOOLEAN, quit : BOOLEAN]
  PROVE  WalkTypes'
<1>1. Gathered' = Gathered BY DEF Gathered
<1>2. Walkers' = Walkers BY <1>1 DEF Walkers
<1>3. QED BY <1>1, <1>2 DEF WalkTypes

LEMMA WalkDeal ==
  ASSUME WalkTypes, NEW t \in Threads, Walk!Deal(t)
  PROVE  /\ WalkTypes' /\ UNCHANGED <<job, consumer, result>>
         /\ worker[t].pc = "walk" /\ \A u \in Threads \ {t} : worker'[u] = worker[u]
         /\ worker'[t].local = worker[t].local
         /\ shared'.seen = shared.seen /\ shared'.aborted = shared.aborted
         /\ shared'.quit = shared.quit
         /\ \/ /\ worker'[t].pc = "drop" /\ shared'.left = shared.left
               /\ shared.quit \/ shared.left = {}
            \/ \E e \in shared.left : /\ worker'[t].pc = "visit" /\ worker'[t].entry = e
                                      /\ shared'.left = shared.left \ {e}
<1>1. UNCHANGED <<job, consumer, result>> /\ worker[t].pc = "walk" BY DEF Walk!Deal
<1>2. CASE shared.quit \/ shared.left = {}
  <2>1. worker' = [worker EXCEPT ![t].pc = "drop"] /\ shared' = shared
    BY <1>2 DEF Walk!Deal, Walk!Goes
  <2>2. /\ worker' \in [Threads -> Walkers] /\ \A u \in Threads \ {t} : worker'[u] = worker[u]
        /\ worker'[t].pc = "drop" /\ worker'[t].local = worker[t].local
    BY <2>1, WalkerGoes DEF WalkTypes
  <2>3. WalkTypes' BY <1>1, <2>1, <2>2, WalkTypesKept DEF WalkTypes
  <2>4. QED BY <1>1, <1>2, <2>1, <2>2, <2>3
<1>3. CASE ~(shared.quit \/ shared.left = {})
  <2>1. PICK e \in shared.left :
          /\ worker' = [worker EXCEPT ![t].pc = "visit", ![t].entry = e]
          /\ shared' = [shared EXCEPT !.left = @ \ {e}]
    BY <1>3 DEF Walk!Deal
  <2> DEFINE r == [pc |-> "visit", entry |-> e, local |-> worker[t].local]
  <2>2. e \in job.entries BY DEF WalkTypes
  <2>3. r \in Walkers BY <2>2, WalkerIs DEF Walkers
  <2>4. worker[t] \in Walkers BY DEF WalkTypes
  <2>11. worker'[t] = r BY <2>1, <2>4 DEF Walkers, WalkTypes
  <2>12. worker' = [worker EXCEPT ![t] = worker'[t]] BY <2>1 DEF WalkTypes
  <2>5. worker' = [worker EXCEPT ![t] = r] BY <2>11, <2>12
  <2> HIDE DEF r
  <2>6. /\ worker' \in [Threads -> Walkers] /\ worker'[t] = r
        /\ \A u \in Threads \ {t} : worker'[u] = worker[u]
    BY <2>3, <2>5, WalkerMoves DEF WalkTypes
  <2>7. worker'[t].pc = "visit" /\ worker'[t].entry = e /\ worker'[t].local = worker[t].local
    BY <2>6 DEF r
  <2>8. /\ shared' \in [left : SUBSET job.entries, seen : Nat, aborted : BOOLEAN, quit : BOOLEAN]
        /\ shared'.left = shared.left \ {e} /\ shared'.seen = shared.seen
        /\ shared'.aborted = shared.aborted /\ shared'.quit = shared.quit
    BY <2>1 DEF WalkTypes
  <2>9. WalkTypes' BY <1>1, <2>6, <2>8, WalkTypesKept DEF WalkTypes
  <2>10. QED BY <1>1, <2>6, <2>7, <2>8, <2>9
<1>4. QED BY <1>2, <1>3

LEMMA WalkVisit ==
  ASSUME WalkTypes, NEW t \in Threads, Walk!Visit(t)
  PROVE  /\ WalkTypes' /\ UNCHANGED <<job, consumer, result>>
         /\ worker[t].pc = "visit" /\ \A u \in Threads \ {t} : worker'[u] = worker[u]
         /\ worker'[t].entry = worker[t].entry
         /\ worker'[t].local.files = worker[t].local.files
         /\ shared'.left = shared.left /\ shared'.seen = shared.seen
         /\ shared'.aborted = shared.aborted
         /\ \/ /\ worker'[t].pc = "drop" /\ worker'[t].local.errors = worker[t].local.errors
               /\ shared.aborted
            \/ /\ worker'[t].pc = "walk" /\ worker'[t].local.errors = worker[t].local.errors + 1
               /\ shared'.quit = shared.quit /\ worker[t].entry \in job.unreadable
            \/ /\ worker'[t].pc = "count" /\ worker'[t].local.errors = worker[t].local.errors
               /\ shared'.quit = shared.quit /\ worker[t].entry \notin job.unreadable
<1>1. UNCHANGED <<job, consumer, result>> /\ worker[t].pc = "visit" BY DEF Walk!Visit
<1>2. CASE job.cap > 0 /\ shared.aborted
  <2>1. worker' = [worker EXCEPT ![t].pc = "drop"] /\ shared' = [shared EXCEPT !.quit = TRUE]
    BY <1>2 DEF Walk!Visit, Walk!Goes
  <2>2. /\ worker' \in [Threads -> Walkers] /\ \A u \in Threads \ {t} : worker'[u] = worker[u]
        /\ worker'[t].pc = "drop" /\ worker'[t].entry = worker[t].entry
        /\ worker'[t].local = worker[t].local
    BY <2>1, WalkerGoes DEF WalkTypes
  <2>3. /\ shared' \in [left : SUBSET job.entries, seen : Nat, aborted : BOOLEAN, quit : BOOLEAN]
        /\ shared'.left = shared.left /\ shared'.seen = shared.seen
        /\ shared'.aborted = shared.aborted
    BY <2>1 DEF WalkTypes
  <2>4. WalkTypes' BY <1>1, <2>2, <2>3, WalkTypesKept DEF WalkTypes
  <2>5. QED BY <1>1, <1>2, <2>2, <2>3, <2>4
<1>3. CASE ~(job.cap > 0 /\ shared.aborted) /\ worker[t].entry \in job.unreadable
  <2>1. worker' = [worker EXCEPT ![t].pc = "walk", ![t].local.errors = @ + 1] /\ shared' = shared
    BY <1>3 DEF Walk!Visit
  <2> DEFINE l == [files |-> worker[t].local.files, errors |-> worker[t].local.errors + 1]
             r == [pc |-> "walk", entry |-> worker[t].entry, local |-> l]
  <2>2. /\ worker[t].entry \in {0} \cup job.entries /\ worker[t].local.files \in SUBSET job.files
        /\ worker[t].local.errors + 1 \in Nat
    BY WalkerIs
  <2>3. l \in Gathered BY <2>2 DEF Gathered
  <2>4. worker[t] \in Walkers /\ worker[t].local \in Gathered BY WalkerIs DEF WalkTypes
  <2>5. worker'[t] = r BY <2>1, <2>4 DEF Walkers, Gathered, WalkTypes
  <2>6. worker' = [worker EXCEPT ![t] = worker'[t]] BY <2>1 DEF WalkTypes
  <2> HIDE DEF l
  <2>7. r \in Walkers BY <2>2, <2>3 DEF Walkers
  <2>8. worker' = [worker EXCEPT ![t] = r] BY <2>5, <2>6
  <2> HIDE DEF r
  <2>9. worker' \in [Threads -> Walkers] /\ \A u \in Threads \ {t} : worker'[u] = worker[u]
    BY <2>7, <2>8, WalkerMoves DEF WalkTypes
  <2>10. worker'[t].pc = "walk" /\ worker'[t].entry = worker[t].entry /\ worker'[t].local = l
    BY <2>5 DEF r
  <2>11. /\ worker'[t].local.files = worker[t].local.files
         /\ worker'[t].local.errors = worker[t].local.errors + 1
    BY <2>10 DEF l
  <2>12. WalkTypes' BY <1>1, <2>1, <2>9, WalkTypesKept DEF WalkTypes
  <2>13. QED BY <1>1, <1>3, <2>1, <2>9, <2>10, <2>11, <2>12
<1>4. CASE ~(job.cap > 0 /\ shared.aborted) /\ worker[t].entry \notin job.unreadable
  <2>1. worker' = [worker EXCEPT ![t].pc = "count"] /\ shared' = shared
    BY <1>4 DEF Walk!Visit, Walk!Goes
  <2>2. /\ worker' \in [Threads -> Walkers] /\ \A u \in Threads \ {t} : worker'[u] = worker[u]
        /\ worker'[t].pc = "count" /\ worker'[t].entry = worker[t].entry
        /\ worker'[t].local = worker[t].local
    BY <2>1, WalkerGoes DEF WalkTypes
  <2>3. WalkTypes' BY <1>1, <2>1, <2>2, WalkTypesKept DEF WalkTypes
  <2>4. QED BY <1>1, <1>4, <2>1, <2>2, <2>3
<1>5. QED BY <1>2, <1>3, <1>4

LEMMA WalkCount ==
  ASSUME WalkTypes, NEW t \in Threads, Walk!Count(t)
  PROVE  /\ WalkTypes' /\ UNCHANGED <<job, consumer, result>>
         /\ worker[t].pc = "count" /\ \A u \in Threads \ {t} : worker'[u] = worker[u]
         /\ worker'[t].entry = worker[t].entry /\ worker'[t].local = worker[t].local
         /\ shared'.left = shared.left /\ shared'.seen = shared.seen + 1
         /\ shared'.aborted = shared.aborted /\ shared'.quit = shared.quit
         /\ \/ worker'[t].pc = "abort" /\ job.cap > 0 /\ shared.seen + 1 > job.cap
            \/ worker'[t].pc = "collect" /\ ~(job.cap > 0 /\ shared.seen + 1 > job.cap)
<1> DEFINE pc == IF job.cap > 0 /\ shared.seen + 1 > job.cap THEN "abort" ELSE "collect"
<1>1. /\ UNCHANGED <<job, consumer, result>> /\ worker[t].pc = "count"
      /\ shared' = [shared EXCEPT !.seen = @ + 1] /\ worker' = [worker EXCEPT ![t].pc = pc]
  BY DEF Walk!Count, Walk!Goes
<1>2. pc \in {"walk", "visit", "count", "abort", "collect", "drop", "ended"} OBVIOUS
<1> HIDE DEF pc
<1>3. /\ worker' \in [Threads -> Walkers] /\ \A u \in Threads \ {t} : worker'[u] = worker[u]
      /\ worker'[t].pc = pc /\ worker'[t].entry = worker[t].entry
      /\ worker'[t].local = worker[t].local
  BY <1>1, <1>2, WalkerGoes DEF WalkTypes
<1>4. /\ shared' \in [left : SUBSET job.entries, seen : Nat, aborted : BOOLEAN, quit : BOOLEAN]
      /\ shared'.left = shared.left /\ shared'.seen = shared.seen + 1
      /\ shared'.aborted = shared.aborted /\ shared'.quit = shared.quit
  BY <1>1 DEF WalkTypes
<1>5. WalkTypes' BY <1>1, <1>3, <1>4, WalkTypesKept DEF WalkTypes
<1>6. QED BY <1>1, <1>3, <1>4, <1>5 DEF pc

LEMMA WalkAbort ==
  ASSUME WalkTypes, NEW t \in Threads, Walk!Abort(t)
  PROVE  /\ WalkTypes' /\ UNCHANGED <<job, consumer, result>>
         /\ worker[t].pc = "abort" /\ \A u \in Threads \ {t} : worker'[u] = worker[u]
         /\ worker'[t].pc = "drop" /\ worker'[t].local = worker[t].local
         /\ worker'[t].entry = worker[t].entry
         /\ shared'.left = shared.left /\ shared'.seen = shared.seen /\ shared'.aborted = TRUE
<1>1. /\ UNCHANGED <<job, consumer, result>> /\ worker[t].pc = "abort"
      /\ shared' = [shared EXCEPT !.aborted = TRUE, !.quit = TRUE]
      /\ worker' = [worker EXCEPT ![t].pc = "drop"]
  BY DEF Walk!Abort, Walk!Goes
<1>2. /\ worker' \in [Threads -> Walkers] /\ \A u \in Threads \ {t} : worker'[u] = worker[u]
      /\ worker'[t].pc = "drop" /\ worker'[t].local = worker[t].local
      /\ worker'[t].entry = worker[t].entry
  BY <1>1, WalkerGoes DEF WalkTypes
<1>3. /\ shared' = [left |-> shared.left, seen |-> shared.seen, aborted |-> TRUE, quit |-> TRUE]
      /\ shared.left \in SUBSET job.entries /\ shared.seen \in Nat
  BY <1>1 DEF WalkTypes
<1>4. /\ shared' \in [left : SUBSET job.entries, seen : Nat, aborted : BOOLEAN, quit : BOOLEAN]
      /\ shared'.left = shared.left /\ shared'.seen = shared.seen /\ shared'.aborted = TRUE
  BY <1>3
<1>5. WalkTypes' BY <1>1, <1>2, <1>4, WalkTypesKept DEF WalkTypes
<1>6. QED BY <1>1, <1>2, <1>4, <1>5

LEMMA WalkGather ==
  ASSUME WalkTypes, NEW t \in Threads, Walk!Collect(t)
  PROVE  /\ WalkTypes' /\ UNCHANGED <<job, shared, consumer, result>>
         /\ worker[t].pc = "collect" /\ \A u \in Threads \ {t} : worker'[u] = worker[u]
         /\ worker'[t].pc = "walk" /\ worker'[t].local.errors = worker[t].local.errors
         /\ worker'[t].local.files = worker[t].local.files \cup ({worker[t].entry} \cap job.files)
<1>1. /\ UNCHANGED <<job, shared, consumer, result>> /\ worker[t].pc = "collect"
      /\ worker' = [worker EXCEPT ![t].pc = "walk",
                       ![t].local.files = @ \cup ({worker[t].entry} \cap job.files)]
  BY DEF Walk!Collect
<1> DEFINE l == [files |-> worker[t].local.files \cup ({worker[t].entry} \cap job.files),
                 errors |-> worker[t].local.errors]
           r == [pc |-> "walk", entry |-> worker[t].entry, local |-> l]
<1>2. /\ worker[t].entry \in {0} \cup job.entries /\ worker[t].local.files \in SUBSET job.files
      /\ worker[t].local.errors \in Nat
  BY WalkerIs
<1>3. l \in Gathered BY <1>2 DEF Gathered
<1>4. worker[t] \in Walkers /\ worker[t].local \in Gathered BY WalkerIs DEF WalkTypes
<1>5. worker'[t] = r BY <1>1, <1>4 DEF Walkers, Gathered, WalkTypes
<1>6. worker' = [worker EXCEPT ![t] = worker'[t]] BY <1>1 DEF WalkTypes
<1> HIDE DEF l
<1>7. r \in Walkers BY <1>2, <1>3 DEF Walkers
<1>8. worker' = [worker EXCEPT ![t] = r] BY <1>5, <1>6
<1> HIDE DEF r
<1>9. worker' \in [Threads -> Walkers] /\ \A u \in Threads \ {t} : worker'[u] = worker[u]
  BY <1>7, <1>8, WalkerMoves DEF WalkTypes
<1>10. worker'[t].pc = "walk" /\ worker'[t].local = l BY <1>5 DEF r
<1>11. /\ worker'[t].local.files = worker[t].local.files \cup ({worker[t].entry} \cap job.files)
       /\ worker'[t].local.errors = worker[t].local.errors
  BY <1>10 DEF l
<1>12. WalkTypes' BY <1>1, <1>9, WalkTypesKept DEF WalkTypes
<1>13. QED BY <1>1, <1>9, <1>10, <1>11, <1>12

LEMMA WalkDrop ==
  ASSUME WalkTypes, NEW t \in Threads, Walk!Drop(t)
  PROVE  /\ WalkTypes' /\ UNCHANGED <<job, shared, consumer>>
         /\ worker[t].pc = "drop" /\ \A u \in Threads \ {t} : worker'[u] = worker[u]
         /\ worker'[t].pc = "ended" /\ worker'[t].local = worker[t].local
         /\ worker'[t].entry = worker[t].entry
         /\ result'.files = result.files \cup worker[t].local.files
         /\ result'.errors = result.errors + worker[t].local.errors
<1>1. /\ UNCHANGED <<job, shared, consumer>> /\ worker[t].pc = "drop"
      /\ result' = [files |-> result.files \cup worker[t].local.files,
                    errors |-> result.errors + worker[t].local.errors]
      /\ worker' = [worker EXCEPT ![t].pc = "ended"]
  BY DEF Walk!Drop, Walk!Goes
<1>2. /\ worker' \in [Threads -> Walkers] /\ \A u \in Threads \ {t} : worker'[u] = worker[u]
      /\ worker'[t].pc = "ended" /\ worker'[t].local = worker[t].local
      /\ worker'[t].entry = worker[t].entry
  BY <1>1, WalkerGoes DEF WalkTypes
<1>3. /\ result.files \cup worker[t].local.files \in SUBSET job.files
      /\ result.errors + worker[t].local.errors \in Nat
  BY WalkerIs DEF WalkTypes, Gathered
<1>4. result' \in Gathered BY <1>1, <1>3 DEF Gathered
<1>5. WalkTypes' BY <1>1, <1>2, <1>4, WalkTypesKept DEF WalkTypes
<1>6. QED BY <1>1, <1>2, <1>5

LEMMA WalkWalked ==
  ASSUME WalkTypes, Walk!Walked
  PROVE  /\ WalkTypes' /\ UNCHANGED <<job, shared, worker, result>>
         /\ consumer = "walk" /\ \A t \in Threads : worker[t].pc = "ended"
         /\ consumer' = IF shared.aborted THEN "failed" ELSE "done"
<1>1. /\ UNCHANGED <<job, shared, worker, result>> /\ consumer = "walk"
      /\ \A t \in Threads : worker[t].pc = "ended"
      /\ consumer' = IF shared.aborted THEN "failed" ELSE "done"
  BY DEF Walk!Walked
<1>2. WalkTypes' BY <1>1, WalkTypesKept DEF WalkTypes
<1>3. QED BY <1>1, <1>2

(***************************************************************************)
(* Who handles what.                                                       *)
(***************************************************************************)
LEMMA WalkPlacesKept ==
  ASSUME WalkInv, Walk!ConsumerStep \/ \E t \in Threads : Walk!WorkerStep(t)
  PROVE  WalkPlaces'
<1>0. WalkTypes /\ WalkPlaces BY DEF WalkInv
<1>1. ASSUME NEW t \in Threads, Walk!Deal(t) PROVE WalkPlaces'
  <2>1. /\ UNCHANGED <<job, consumer, result>> /\ worker[t].pc = "walk"
        /\ \A u \in Threads \ {t} : worker'[u] = worker[u]
        /\ shared'.aborted = shared.aborted
        /\ \/ worker'[t].pc = "drop" /\ shared'.left = shared.left
           \/ \E e \in shared.left : /\ worker'[t].pc = "visit" /\ worker'[t].entry = e
                                     /\ shared'.left = shared.left \ {e}
    BY <1>0, <1>1, WalkDeal
  <2>2. consumer = "walk" BY <1>0, <2>1 DEF WalkPlaces, WalkTypes
  <2>3. \A u \in Threads \ {t} : Handles(u)' <=> Handles(u) BY <2>1 DEF Handles
  <2>4. CASE worker'[t].pc = "drop"
    <3>1. ~Handles(t)' BY <2>4 DEF Handles
    <3>2. shared'.left = shared.left BY <2>1, <2>4
    <3>3. QED BY <1>0, <2>1, <2>2, <2>3, <3>1, <3>2 DEF WalkPlaces
  <2>5. CASE worker'[t].pc # "drop"
    <3>1. PICK e \in shared.left : /\ worker'[t].pc = "visit" /\ worker'[t].entry = e
                                   /\ shared'.left = shared.left \ {e}
      BY <2>1, <2>5
    <3>2. e \in job.entries BY <1>0 DEF WalkTypes
    <3>3. \A u \in Threads : Handles(u) => worker[u].entry # e BY <1>0 DEF WalkPlaces
    <3>4. ASSUME NEW u \in Threads, Handles(u)'
          PROVE  /\ worker'[u].entry \in job.entries \ shared'.left
                 /\ worker'[u].pc # "visit" => worker'[u].entry \notin job.unreadable
                 /\ \A v \in Threads : Handles(v)' /\ worker'[v].entry = worker'[u].entry => v = u
      <4>1. CASE u = t BY <2>1, <2>3, <3>1, <3>2, <3>3, <4>1
      <4>2. CASE u # t
        <5>1. Handles(u) /\ worker'[u] = worker[u] BY <2>1, <2>3, <3>4, <4>2
        <5>2. \A v \in Threads : Handles(v)' /\ worker'[v].entry = worker'[u].entry => v = u
          BY <1>0, <2>1, <2>3, <3>1, <3>3, <5>1 DEF WalkPlaces
        <5>3. QED BY <1>0, <3>1, <5>1, <5>2 DEF WalkPlaces
      <4>3. QED BY <4>1, <4>2
    <3>5. QED BY <2>1, <2>2, <3>4 DEF WalkPlaces
  <2>6. QED BY <2>4, <2>5
<1>2. ASSUME NEW t \in Threads, UNCHANGED <<job, consumer>>, shared'.left = shared.left,
             \A u \in Threads \ {t} : worker'[u] = worker[u],
             shared'.aborted = shared.aborted \/ consumer = "walk", worker[t].pc # "ended",
             Handles(t)' => /\ Handles(t) /\ worker'[t].entry = worker[t].entry
                            /\ worker'[t].entry \notin job.unreadable
      PROVE  WalkPlaces'
  <2>1. consumer = "walk" BY <1>0, <1>2 DEF WalkPlaces, WalkTypes
  <2>2. \A u \in Threads \ {t} : Handles(u)' <=> Handles(u) BY <1>2 DEF Handles
  <2>3. \A u \in Threads : Handles(u)' =>
          /\ Handles(u) /\ worker'[u].entry = worker[u].entry
          /\ worker'[u].pc # "visit" => worker'[u].entry \notin job.unreadable
    BY <1>0, <1>2, <2>2 DEF WalkPlaces
  <2>4. QED BY <1>0, <1>2, <2>1, <2>3 DEF WalkPlaces
<1>3. ASSUME NEW t \in Threads, Walk!Visit(t) PROVE WalkPlaces'
  <2>1. Handles(t)' => /\ Handles(t) /\ worker'[t].entry = worker[t].entry
                       /\ worker'[t].entry \notin job.unreadable
    BY <1>0, <1>3, WalkVisit DEF Handles
  <2>2. QED BY <1>0, <1>2, <1>3, <2>1, WalkVisit
<1>4. ASSUME NEW t \in Threads, Walk!Count(t) PROVE WalkPlaces'
  <2>1. worker[t].pc = "count" /\ worker'[t].entry = worker[t].entry BY <1>0, <1>4, WalkCount
  <2>2. Handles(t) /\ worker[t].entry \notin job.unreadable
    BY <1>0, <2>1 DEF Handles, WalkPlaces
  <2>3. QED BY <1>0, <1>2, <1>4, <2>1, <2>2, WalkCount
<1>5. ASSUME NEW t \in Threads, Walk!Abort(t) PROVE WalkPlaces'
  <2>1. /\ worker[t].pc = "abort" /\ worker'[t].pc = "drop" BY <1>0, <1>5, WalkAbort
  <2>2. ~Handles(t)' BY <2>1 DEF Handles
  <2>3. consumer = "walk" BY <1>0, <2>1 DEF WalkPlaces, WalkTypes
  <2>4. QED BY <1>0, <1>2, <1>5, <2>1, <2>2, <2>3, WalkAbort
<1>6. ASSUME NEW t \in Threads, Walk!Collect(t) PROVE WalkPlaces'
  <2>1. worker[t].pc = "collect" /\ worker'[t].pc = "walk" BY <1>0, <1>6, WalkGather
  <2>2. ~Handles(t)' BY <2>1 DEF Handles
  <2>3. QED BY <1>0, <1>2, <1>6, <2>1, <2>2, WalkGather
<1>7. ASSUME NEW t \in Threads, Walk!Drop(t) PROVE WalkPlaces'
  <2>1. worker[t].pc = "drop" /\ worker'[t].pc = "ended" BY <1>0, <1>7, WalkDrop
  <2>2. ~Handles(t)' BY <2>1 DEF Handles
  <2>3. QED BY <1>0, <1>2, <1>7, <2>1, <2>2, WalkDrop
<1>8. ASSUME Walk!Walked PROVE WalkPlaces'
  <2>1. /\ UNCHANGED <<job, shared, worker, result>> /\ \A t \in Threads : worker[t].pc = "ended"
        /\ consumer' = IF shared.aborted THEN "failed" ELSE "done"
    BY <1>0, <1>8, WalkWalked
  <2>2. \A t \in Threads : ~Handles(t)' BY <2>1 DEF Handles
  <2>3. QED BY <2>1, <2>2 DEF WalkPlaces
<1>9. QED
  BY <1>1, <1>3, <1>4, <1>5, <1>6, <1>7, <1>8 DEF Walk!ConsumerStep, Walk!WorkerStep

(***************************************************************************)
(* The count.                                                              *)
(***************************************************************************)
LEMMA CountedIsFinite ==
  ASSUME WalkTypes
  PROVE  /\ IsFiniteSet(Counted) /\ Cardinality(Counted) \in Nat
         /\ IsFiniteSet(Failed) /\ Cardinality(Failed) \in Nat
<1>1. Counted \in SUBSET job.entries /\ Failed \in SUBSET job.entries
  BY WalkJob DEF Counted, Failed, Visited
<1>2. QED BY <1>1, WalkJob, FS_Subset, FS_CardinalityType

LEMMA CountedStaysFinite ==
  ASSUME WalkTypes'
  PROVE  /\ IsFiniteSet(Counted') /\ Cardinality(Counted') \in Nat
         /\ IsFiniteSet(Failed') /\ Cardinality(Failed') \in Nat
<1>1. Walk!IsWalk(job') BY ComputationAssumption DEF WalkTypes, Walk!WalkAssumption
<1>2. IsFiniteSet(job'.entries) /\ job'.unreadable \subseteq job'.entries
  BY <1>1 DEF Walk!IsWalk, Walk!IsFiniteSet, IsFiniteSet
<1>3. Counted' \in SUBSET job'.entries /\ Failed' \in SUBSET job'.entries
  BY <1>2 DEF Counted, Failed, Visited
<1>4. QED BY <1>2, <1>3, FS_Subset, FS_CardinalityType

\* What a step of a thread adds to what has been counted and to what has
\* failed.
LEMMA CountedByStep ==
  ASSUME WalkInv, NEW t \in Threads, job' = job, \A u \in Threads \ {t} : worker'[u] = worker[u]
  PROVE  /\ /\ shared'.left = shared.left
            /\ worker'[t].pc \in {"visit", "count"} => worker'[t].entry = worker[t].entry
            /\ worker[t].pc \in {"visit", "count"} <=> worker'[t].pc \in {"visit", "count"}
            => Counted' = Counted
         /\ /\ shared'.left = shared.left
            /\ worker[t].pc = "visit" => worker[t].entry \notin job.unreadable
            /\ worker'[t].pc # "visit"
            => Failed' = Failed
<1>1. ASSUME shared'.left = shared.left,
             worker'[t].pc \in {"visit", "count"} => worker'[t].entry = worker[t].entry,
             worker[t].pc \in {"visit", "count"} <=> worker'[t].pc \in {"visit", "count"}
      PROVE  Counted' = Counted
  <2>1. \A u \in Threads :
          /\ worker'[u].pc \in {"visit", "count"} <=> worker[u].pc \in {"visit", "count"}
          /\ worker'[u].pc \in {"visit", "count"} => worker'[u].entry = worker[u].entry
    BY <1>1
  <2>2. QED BY <1>1, <2>1 DEF Counted, Visited
<1>2. ASSUME shared'.left = shared.left,
             worker[t].pc = "visit" => worker[t].entry \notin job.unreadable,
             worker'[t].pc # "visit"
      PROVE  Failed' = Failed
  BY <1>2 DEF Failed, Visited
<1>3. QED BY <1>1, <1>2


LEMMA WalkCountsKept ==
  ASSUME WalkInv, Walk!ConsumerStep \/ \E t \in Threads : Walk!WorkerStep(t), WalkTypes'
  PROVE  WalkCounts'
<1>0. WalkTypes /\ WalkPlaces /\ WalkCounts BY DEF WalkInv
<1>t. /\ shared.seen \in Nat /\ shared'.seen \in Nat /\ job.cap \in Nat
      /\ shared.aborted \in BOOLEAN /\ shared'.aborted \in BOOLEAN
  BY <1>0, WalkJob DEF WalkTypes
<1>f. /\ IsFiniteSet(Counted) /\ Cardinality(Counted) \in Nat
      /\ IsFiniteSet(Counted') /\ Cardinality(Counted') \in Nat
  BY <1>0, CountedIsFinite, CountedStaysFinite
\* Steps that count nothing.
<1>1. ASSUME NEW t \in Threads, job' = job, \A u \in Threads \ {t} : worker'[u] = worker[u],
             shared'.seen = shared.seen, shared'.aborted = shared.aborted,
             shared'.quit => shared.quit \/ shared.aborted,
             worker[t].pc # "abort", worker'[t].pc # "abort",
             \/ Counted' = Counted
             \/ shared.aborted /\ Counted \subseteq Counted'
      PROVE  WalkCounts'
  <2>1. Cardinality(Counted) <= Cardinality(Counted') BY <1>f, <1>1, FS_Subset
  <2>2. /\ shared'.seen <= Cardinality(Counted')
        /\ ~shared'.aborted => shared'.seen = Cardinality(Counted')
    BY <1>0, <1>1, <1>t, <1>f, <2>1 DEF WalkCounts
  <2>3. \A u \in Threads : worker'[u].pc = "abort" <=> worker[u].pc = "abort" BY <1>1
  <2>4. QED BY <1>0, <1>1, <2>2, <2>3 DEF WalkCounts
<1>2. ASSUME NEW t \in Threads, Walk!Deal(t) PROVE WalkCounts'
  <2>1. /\ job' = job /\ worker[t].pc = "walk"
        /\ \A u \in Threads \ {t} : worker'[u] = worker[u]
        /\ shared'.seen = shared.seen /\ shared'.aborted = shared.aborted
        /\ shared'.quit = shared.quit
        /\ \/ worker'[t].pc = "drop" /\ shared'.left = shared.left
           \/ \E e \in shared.left : /\ worker'[t].pc = "visit" /\ worker'[t].entry = e
                                     /\ shared'.left = shared.left \ {e}
    BY <1>0, <1>2, WalkDeal
  <2>2. CASE worker'[t].pc = "drop"
    <3>1. shared'.left = shared.left BY <2>1, <2>2
    <3>2. Counted' = Counted BY <2>1, <2>2, <3>1, CountedByStep
    <3>3. QED BY <1>1, <2>1, <2>2, <3>2
  <2>3. CASE worker'[t].pc # "drop"
    <3>1. PICK e \in shared.left : /\ worker'[t].pc = "visit" /\ worker'[t].entry = e
                                   /\ shared'.left = shared.left \ {e}
      BY <2>1, <2>3
    <3>2. Counted' \subseteq Counted
      <4>1. SUFFICES ASSUME NEW f \in Counted' PROVE f \in Counted OBVIOUS
      <4>2. /\ f \in (job.entries \ job.unreadable) \ shared'.left
            /\ \A u \in Threads : worker'[u].pc \in {"visit", "count"} => worker'[u].entry # f
        BY <2>1 DEF Counted, Visited
      <4>3. f # e BY <3>1, <4>2
      <4>4. \A u \in Threads : worker[u].pc \in {"visit", "count"} => worker[u].entry # f
        BY <2>1, <4>2
      <4>5. QED BY <3>1, <4>2, <4>3, <4>4 DEF Counted, Visited
    <3>3. Counted \subseteq Counted'
      <4>1. SUFFICES ASSUME NEW f \in Counted PROVE f \in Counted' OBVIOUS
      <4>2. /\ f \in (job.entries \ job.unreadable) \ shared.left
            /\ \A u \in Threads : worker[u].pc \in {"visit", "count"} => worker[u].entry # f
        BY DEF Counted, Visited
      <4>3. f # e BY <4>2
      <4>4. \A u \in Threads : worker'[u].pc \in {"visit", "count"} => worker'[u].entry # f
        BY <2>1, <3>1, <4>2, <4>3
      <4>5. QED BY <2>1, <3>1, <4>2, <4>3, <4>4 DEF Counted, Visited
    <3>4. Counted' = Counted BY <3>2, <3>3
    <3>5. QED BY <1>1, <2>1, <3>1, <3>4
  <2>4. QED BY <2>2, <2>3
<1>3. ASSUME NEW t \in Threads, Walk!Visit(t) PROVE WalkCounts'
  <2>1. /\ job' = job /\ worker[t].pc = "visit"
        /\ \A u \in Threads \ {t} : worker'[u] = worker[u]
        /\ worker'[t].entry = worker[t].entry
        /\ shared'.left = shared.left /\ shared'.seen = shared.seen
        /\ shared'.aborted = shared.aborted
        /\ \/ worker'[t].pc = "drop" /\ shared.aborted
           \/ /\ worker'[t].pc = "walk" /\ shared'.quit = shared.quit
              /\ worker[t].entry \in job.unreadable
           \/ worker'[t].pc = "count" /\ shared'.quit = shared.quit
    BY <1>0, <1>3, WalkVisit
  <2>2. CASE worker'[t].pc = "drop"
    <3>1. shared.aborted BY <2>1, <2>2
    <3>2. Counted \subseteq Counted'
      <4>1. \A u \in Threads : worker'[u].pc \in {"visit", "count"} =>
              worker[u].pc \in {"visit", "count"} /\ worker'[u].entry = worker[u].entry
        BY <2>1, <2>2
      <4>2. QED BY <2>1, <4>1 DEF Counted, Visited
    <3>3. QED BY <1>1, <2>1, <2>2, <3>1, <3>2
  <2>3. CASE worker'[t].pc = "walk"
    <3>1. shared'.quit = shared.quit /\ worker[t].entry \in job.unreadable BY <2>1, <2>3
    <3>2. \A f \in job.entries \ job.unreadable :
            (\A u \in Threads : worker'[u].pc \in {"visit", "count"} => worker'[u].entry # f)
            <=> (\A u \in Threads : worker[u].pc \in {"visit", "count"} => worker[u].entry # f)
      BY <2>1, <2>3, <3>1
    <3>3. Counted' = Counted BY <2>1, <3>2 DEF Counted, Visited
    <3>4. QED BY <1>1, <2>1, <2>3, <3>1, <3>3
  <2>4. CASE worker'[t].pc = "count"
    <3>1. shared'.quit = shared.quit BY <2>1, <2>4
    <3>2. Counted' = Counted BY <2>1, <2>4, CountedByStep
    <3>3. QED BY <1>1, <2>1, <2>4, <3>1, <3>2
  <2>5. QED BY <2>1, <2>2, <2>3, <2>4
<1>4. ASSUME NEW t \in Threads, Walk!Count(t) PROVE WalkCounts'
  <2>1. /\ job' = job /\ worker[t].pc = "count"
        /\ \A u \in Threads \ {t} : worker'[u] = worker[u]
        /\ worker'[t].entry = worker[t].entry
        /\ shared'.left = shared.left /\ shared'.seen = shared.seen + 1
        /\ shared'.aborted = shared.aborted /\ shared'.quit = shared.quit
        /\ \/ worker'[t].pc = "abort" /\ job.cap > 0 /\ shared.seen + 1 > job.cap
           \/ worker'[t].pc = "collect" /\ ~(job.cap > 0 /\ shared.seen + 1 > job.cap)
    BY <1>0, <1>4, WalkCount
  <2> DEFINE e == worker[t].entry
  <2>2. /\ e \in job.entries \ shared.left /\ e \notin job.unreadable
        /\ \A u \in Threads : Handles(u) /\ worker[u].entry = e => u = t
    BY <1>0, <2>1 DEF WalkPlaces, Handles
  <2>3. e \notin Counted BY <2>1 DEF Counted, Visited
  <2>4. \A u \in Threads \ {t} : worker[u].pc \in {"visit", "count"} => worker[u].entry # e
    BY <2>2 DEF Handles
  <2>5. worker'[t].pc \notin {"visit", "count"} BY <2>1
  <2>6. Counted' = Counted \cup {e}
    <3>1. e \in Counted' BY <2>1, <2>2, <2>4, <2>5 DEF Counted, Visited
    <3>2. ASSUME NEW f, f # e PROVE f \in Counted' <=> f \in Counted
      <4>1. (\A u \in Threads : worker'[u].pc \in {"visit", "count"} => worker'[u].entry # f)
            <=> (\A u \in Threads : worker[u].pc \in {"visit", "count"} => worker[u].entry # f)
        BY <2>1, <2>5, <3>2
      <4>2. QED BY <2>1, <4>1 DEF Counted, Visited
    <3>3. QED BY <3>1, <3>2
  <2>7. Cardinality(Counted') = Cardinality(Counted) + 1 BY <1>f, <2>3, <2>6, FS_AddElement
  <2>8. /\ shared'.seen <= Cardinality(Counted')
        /\ ~shared'.aborted => shared'.seen = Cardinality(Counted')
    BY <1>0, <1>t, <1>f, <2>1, <2>7 DEF WalkCounts
  <2>9. shared'.aborted => job'.cap > 0 /\ shared'.seen > job'.cap
    BY <1>0, <1>t, <2>1 DEF WalkCounts
  <2>10. \A u \in Threads : worker'[u].pc = "abort" => job'.cap > 0 /\ shared'.seen > job'.cap
    <3>1. ASSUME NEW u \in Threads, worker'[u].pc = "abort"
          PROVE  job.cap > 0 /\ shared.seen + 1 > job.cap
      <4>1. CASE u = t BY <2>1, <3>1, <4>1
      <4>2. CASE u # t
        <5>1. worker[u].pc = "abort" BY <2>1, <3>1, <4>2
        <5>2. QED BY <1>0, <1>t, <5>1 DEF WalkCounts
      <4>3. QED BY <4>1, <4>2
    <3>2. QED BY <2>1, <3>1
  <2>11. \/ job'.cap = 0 \/ shared'.seen <= job'.cap \/ shared'.aborted
         \/ \E u \in Threads : worker'[u].pc = "abort"
    BY <1>t, <2>1
  <2>12. shared'.quit => shared'.aborted BY <1>0, <2>1 DEF WalkCounts
  <2>13. QED BY <2>8, <2>9, <2>10, <2>11, <2>12 DEF WalkCounts
<1>5. ASSUME NEW t \in Threads, Walk!Abort(t) PROVE WalkCounts'
  <2>1. /\ job' = job /\ worker[t].pc = "abort" /\ worker'[t].pc = "drop"
        /\ \A u \in Threads \ {t} : worker'[u] = worker[u]
        /\ shared'.left = shared.left /\ shared'.seen = shared.seen /\ shared'.aborted = TRUE
    BY <1>0, <1>5, WalkAbort
  <2>2. Counted' = Counted BY <2>1, CountedByStep
  <2>3. job.cap > 0 /\ shared.seen > job.cap BY <1>0, <2>1 DEF WalkCounts
  <2>4. shared'.seen <= Cardinality(Counted') BY <1>0, <2>1, <2>2 DEF WalkCounts
  <2>5. QED BY <2>1, <2>3, <2>4 DEF WalkCounts
<1>6. ASSUME NEW t \in Threads, Walk!Collect(t) PROVE WalkCounts'
  <2>1. /\ job' = job /\ shared' = shared
        /\ worker[t].pc = "collect" /\ worker'[t].pc = "walk"
        /\ \A u \in Threads \ {t} : worker'[u] = worker[u]
    BY <1>0, <1>6, WalkGather
  <2>2. Counted' = Counted BY <2>1, CountedByStep
  <2>3. QED BY <1>1, <2>1, <2>2
<1>7. ASSUME NEW t \in Threads, Walk!Drop(t) PROVE WalkCounts'
  <2>1. /\ job' = job /\ shared' = shared
        /\ worker[t].pc = "drop" /\ worker'[t].pc = "ended"
        /\ \A u \in Threads \ {t} : worker'[u] = worker[u]
    BY <1>0, <1>7, WalkDrop
  <2>2. Counted' = Counted BY <2>1, CountedByStep
  <2>3. QED BY <1>1, <2>1, <2>2
<1>8. ASSUME Walk!Walked PROVE WalkCounts'
  <2>1. UNCHANGED <<job, shared, worker>> BY <1>0, <1>8, WalkWalked
  <2>2. Counted' = Counted BY <2>1 DEF Counted, Visited
  <2>3. QED BY <1>0, <2>1, <2>2 DEF WalkCounts
<1>9. QED
  BY <1>2, <1>3, <1>4, <1>5, <1>6, <1>7, <1>8 DEF Walk!ConsumerStep, Walk!WorkerStep

(***************************************************************************)
(* The files.                                                              *)
(***************************************************************************)
Has(t, f) == (Handles(t) /\ worker[t].entry = f) \/ f \in worker[t].local.files

LEMMA WalkFilesKept ==
  ASSUME WalkInv, Walk!ConsumerStep \/ \E t \in Threads : Walk!WorkerStep(t)
  PROVE  WalkFiles'
<1>0. WalkTypes /\ WalkPlaces /\ WalkCounts /\ WalkFiles BY DEF WalkInv
<1>t. shared.aborted \in BOOLEAN /\ shared.quit \in BOOLEAN BY <1>0 DEF WalkTypes
<1>f. /\ \A t \in Threads : worker[t].pc = "ended" => worker[t].local.files \subseteq result.files
      /\ ~shared.aborted => \A t \in Threads : worker[t].pc \in {"drop", "ended"} => shared.left = {}
      /\ ~shared.aborted => \A f \in job.files \ (shared.left \cup result.files) :
                              \E t \in Threads : Has(t, f)
  BY <1>0 DEF WalkFiles, Has
<1>g. ASSUME \A t \in Threads : worker'[t].pc = "ended" => worker'[t].local.files \subseteq result'.files,
             ~shared'.aborted => \A t \in Threads : worker'[t].pc \in {"drop", "ended"} => shared'.left = {},
             ~shared'.aborted => \A f \in job'.files \ (shared'.left \cup result'.files) :
                                   \E t \in Threads : Has(t, f)'
      PROVE  WalkFiles'
  BY <1>g DEF WalkFiles, Has
\* Steps that deal out no entry.
<1>1. ASSUME NEW t \in Threads, job' = job, \A u \in Threads \ {t} : worker'[u] = worker[u],
             result.files \subseteq result'.files, shared'.left = shared.left,
             shared'.aborted = shared.aborted,
             worker'[t].pc = "ended" => worker'[t].local.files \subseteq result'.files,
             ~shared.aborted /\ worker'[t].pc \in {"drop", "ended"} => shared.left = {},
             ~shared.aborted => \A f \in job.files \ (shared.left \cup result'.files) :
                                   Has(t, f) => Has(t, f)'
      PROVE  WalkFiles'
  <2>1. \A u \in Threads : worker'[u].pc = "ended" => worker'[u].local.files \subseteq result'.files
    BY <1>f, <1>1
  <2>2. ~shared'.aborted => \A u \in Threads : worker'[u].pc \in {"drop", "ended"} => shared'.left = {}
    BY <1>f, <1>1
  <2>3. ASSUME ~shared'.aborted, NEW f \in job'.files \ (shared'.left \cup result'.files)
        PROVE  \E u \in Threads : Has(u, f)'
    <3>1. f \in job.files \ (shared.left \cup result.files) /\ ~shared.aborted BY <1>1, <2>3
    <3>2. PICK u \in Threads : Has(u, f) BY <1>f, <3>1
    <3>3. CASE u = t BY <1>1, <2>3, <3>1, <3>2, <3>3
    <3>4. CASE u # t
      <4>1. worker'[u] = worker[u] BY <1>1, <3>4
      <4>2. Has(u, f)' BY <3>2, <4>1 DEF Has, Handles
      <4>3. QED BY <4>2
    <3>5. QED BY <3>3, <3>4
  <2>4. QED BY <1>g, <2>1, <2>2, <2>3
<1>2. ASSUME NEW t \in Threads, Walk!Deal(t) PROVE WalkFiles'
  <2>1. /\ job' = job /\ result' = result /\ worker[t].pc = "walk"
        /\ \A u \in Threads \ {t} : worker'[u] = worker[u]
        /\ worker'[t].local = worker[t].local /\ shared'.aborted = shared.aborted
        /\ \/ /\ worker'[t].pc = "drop" /\ shared'.left = shared.left
              /\ shared.quit \/ shared.left = {}
           \/ \E e \in shared.left : /\ worker'[t].pc = "visit" /\ worker'[t].entry = e
                                     /\ shared'.left = shared.left \ {e}
    BY <1>0, <1>2, WalkDeal
  <2>2. \A f : Has(t, f) => f \in worker[t].local.files BY <2>1 DEF Has, Handles
  <2>3. \A f : f \in worker[t].local.files => Has(t, f)' BY <2>1 DEF Has
  <2>4. CASE worker'[t].pc = "drop"
    <3>1. shared'.left = shared.left /\ (shared.quit \/ shared.left = {}) BY <2>1, <2>4
    <3>2. ~shared.aborted => shared.left = {} BY <1>0, <3>1 DEF WalkCounts
    <3>3. worker'[t].pc # "ended" BY <2>4
    <3>4. \A f : Has(t, f) => Has(t, f)' BY <2>2, <2>3
    <3>5. result.files \subseteq result'.files BY <2>1
    <3>6. QED BY <1>1, <2>1, <3>1, <3>2, <3>3, <3>4, <3>5
  <2>5. CASE worker'[t].pc # "drop"
    <3>1. PICK e \in shared.left : /\ worker'[t].pc = "visit" /\ worker'[t].entry = e
                                   /\ shared'.left = shared.left \ {e}
      BY <2>1, <2>5
    <3>2. \A u \in Threads : worker'[u].pc = "ended" => worker'[u].local.files \subseteq result'.files
      BY <1>f, <2>1, <3>1
    <3>3. ~shared'.aborted => \A u \in Threads : worker'[u].pc \in {"drop", "ended"} => shared'.left = {}
      BY <1>f, <2>1, <3>1
    <3>4. ASSUME ~shared'.aborted, NEW f \in job'.files \ (shared'.left \cup result'.files)
          PROVE  \E u \in Threads : Has(u, f)'
      <4>1. CASE f = e
        <5>1. Has(t, f)' BY <3>1, <4>1 DEF Has, Handles
        <5>2. QED BY <5>1
      <4>2. CASE f # e
        <5>1. f \in job.files \ (shared.left \cup result.files) /\ ~shared.aborted
          BY <2>1, <3>1, <3>4, <4>2
        <5>2. PICK u \in Threads : Has(u, f) BY <1>f, <5>1
        <5>3. Has(u, f)'
          <6>1. CASE u = t BY <2>2, <2>3, <5>2, <6>1
          <6>2. CASE u # t
            <7>1. worker'[u] = worker[u] BY <2>1, <6>2
            <7>2. QED BY <5>2, <7>1 DEF Has, Handles
          <6>3. QED BY <6>1, <6>2
        <5>4. QED BY <5>3
      <4>3. QED BY <4>1, <4>2
    <3>5. QED BY <1>g, <3>2, <3>3, <3>4
  <2>6. QED BY <2>4, <2>5
<1>3. ASSUME NEW t \in Threads, Walk!Visit(t) PROVE WalkFiles'
  <2>1. /\ job' = job /\ result' = result /\ worker[t].pc = "visit"
        /\ \A u \in Threads \ {t} : worker'[u] = worker[u]
        /\ worker'[t].entry = worker[t].entry
        /\ worker'[t].local.files = worker[t].local.files
        /\ shared'.left = shared.left /\ shared'.aborted = shared.aborted
        /\ \/ worker'[t].pc = "drop" /\ shared.aborted
           \/ worker'[t].pc = "walk" /\ worker[t].entry \in job.unreadable
           \/ worker'[t].pc = "count"
    BY <1>0, <1>3, WalkVisit
  <2>2. ~shared.aborted => \A f \in job.files : Has(t, f) => Has(t, f)'
    BY <1>0, <2>1, WalkJob DEF Has, Handles
  <2>3. result.files \subseteq result'.files /\ worker'[t].pc # "ended" BY <2>1
  <2>4. ~shared.aborted => worker'[t].pc # "drop" BY <2>1
  <2>5. QED BY <1>1, <2>1, <2>2, <2>3, <2>4
<1>4. ASSUME NEW t \in Threads, Walk!Count(t) PROVE WalkFiles'
  <2>1. /\ job' = job /\ result' = result /\ worker[t].pc = "count"
        /\ \A u \in Threads \ {t} : worker'[u] = worker[u]
        /\ worker'[t].entry = worker[t].entry /\ worker'[t].local = worker[t].local
        /\ shared'.left = shared.left /\ shared'.aborted = shared.aborted
        /\ worker'[t].pc = "abort" \/ worker'[t].pc = "collect"
    BY <1>0, <1>4, WalkCount
  <2>2. \A f \in job.files : Has(t, f) => Has(t, f)' BY <2>1 DEF Has, Handles
  <2>3. result.files \subseteq result'.files /\ worker'[t].pc \notin {"drop", "ended"} BY <2>1
  <2>4. QED BY <1>1, <2>1, <2>2, <2>3
<1>5. ASSUME NEW t \in Threads, Walk!Abort(t) PROVE WalkFiles'
  <2>1. /\ result' = result /\ worker'[t].pc = "drop"
        /\ \A u \in Threads \ {t} : worker'[u] = worker[u]
        /\ shared'.aborted = TRUE
    BY <1>0, <1>5, WalkAbort
  <2>2. \A u \in Threads : worker'[u].pc = "ended" => worker'[u].local.files \subseteq result'.files
    BY <1>f, <2>1
  <2>3. QED BY <1>g, <2>1, <2>2
<1>6. ASSUME NEW t \in Threads, Walk!Collect(t) PROVE WalkFiles'
  <2>1. /\ job' = job /\ result' = result /\ shared' = shared
        /\ worker[t].pc = "collect" /\ worker'[t].pc = "walk"
        /\ \A u \in Threads \ {t} : worker'[u] = worker[u]
        /\ worker'[t].local.files = worker[t].local.files \cup ({worker[t].entry} \cap job.files)
    BY <1>0, <1>6, WalkGather
  <2>2. \A f \in job.files : Has(t, f) => Has(t, f)' BY <2>1 DEF Has, Handles
  <2>3. result.files \subseteq result'.files /\ worker'[t].pc \notin {"drop", "ended"} BY <2>1
  <2>4. QED BY <1>1, <2>1, <2>2, <2>3
<1>7. ASSUME NEW t \in Threads, Walk!Drop(t) PROVE WalkFiles'
  <2>1. /\ job' = job /\ shared' = shared
        /\ worker[t].pc = "drop" /\ worker'[t].pc = "ended" /\ worker'[t].local = worker[t].local
        /\ \A u \in Threads \ {t} : worker'[u] = worker[u]
        /\ result'.files = result.files \cup worker[t].local.files
    BY <1>0, <1>7, WalkDrop
  <2>2. \A f : Has(t, f) => f \in result'.files BY <2>1 DEF Has, Handles
  <2>3. /\ result.files \subseteq result'.files /\ worker'[t].local.files \subseteq result'.files
        /\ ~shared.aborted => shared.left = {}
    BY <1>f, <2>1
  <2>4. QED BY <1>1, <2>1, <2>2, <2>3
<1>8. ASSUME Walk!Walked PROVE WalkFiles'
  <2>1. UNCHANGED <<job, shared, worker, result>> BY <1>0, <1>8, WalkWalked
  <2>2. QED BY <1>0, <2>1 DEF WalkFiles, Handles
<1>9. QED
  BY <1>2, <1>3, <1>4, <1>5, <1>6, <1>7, <1>8 DEF Walk!ConsumerStep, Walk!WorkerStep

(***************************************************************************)
(* The errors.                                                             *)
(***************************************************************************)
LEMMA WalkErrorsKept ==
  ASSUME WalkInv, Walk!ConsumerStep \/ \E t \in Threads : Walk!WorkerStep(t)
  PROVE  WalkErrors'
<1>0. WalkTypes /\ WalkPlaces /\ WalkErrors BY DEF WalkInv
\* Steps that find no error and hand none over.
<1>1. ASSUME job' = job, Failed' = Failed, result'.errors = result.errors,
             shared'.aborted = shared.aborted,
             \A u \in Threads : /\ worker'[u].pc = "ended" <=> worker[u].pc = "ended"
                                /\ worker'[u].local.errors = worker[u].local.errors
      PROVE  WalkErrors'
  <2>1. SUFFICES ASSUME ~shared'.aborted
                 PROVE  \E handed \in SUBSET job'.unreadable, by \in [job'.unreadable -> Threads] :
                          ErrorsAre(handed, by)'
    BY DEF WalkErrors
  <2>2. PICK handed \in SUBSET job.unreadable, by \in [job.unreadable -> Threads] :
          ErrorsAre(handed, by)
    BY <1>0, <1>1, <2>1 DEF WalkErrors
  <2>3. ErrorsAre(handed, by)' BY <1>1, <2>2 DEF ErrorsAre, Own
  <2>4. QED BY <1>1, <2>2, <2>3
<1>2. ASSUME NEW t \in Threads, Walk!Deal(t) PROVE WalkErrors'
  <2>1. /\ job' = job /\ result' = result /\ worker[t].pc = "walk"
        /\ \A u \in Threads \ {t} : worker'[u] = worker[u]
        /\ worker'[t].local = worker[t].local /\ shared'.aborted = shared.aborted
        /\ \/ worker'[t].pc = "drop" /\ shared'.left = shared.left
           \/ \E e \in shared.left : /\ worker'[t].pc = "visit" /\ worker'[t].entry = e
                                     /\ shared'.left = shared.left \ {e}
    BY <1>0, <1>2, WalkDeal
  <2>2. \A u \in Threads : /\ worker'[u].pc = "ended" <=> worker[u].pc = "ended"
                           /\ worker'[u].local.errors = worker[u].local.errors
    BY <2>1
  <2>3. Failed' = Failed
    <3>1. CASE worker'[t].pc = "drop"
      <4>1. shared'.left = shared.left BY <2>1, <3>1
      <4>2. QED BY <2>1, <3>1, <4>1 DEF Failed, Visited
    <3>2. CASE worker'[t].pc # "drop"
      <4>1. PICK e \in shared.left : /\ worker'[t].pc = "visit" /\ worker'[t].entry = e
                                     /\ shared'.left = shared.left \ {e}
        BY <2>1, <3>2
      <4>2. ASSUME NEW f \in Failed' PROVE f \in Failed
        <5>1. /\ f \in job.unreadable \ shared'.left
              /\ \A u \in Threads : worker'[u].pc = "visit" => worker'[u].entry # f
          BY <2>1, <4>2 DEF Failed, Visited
        <5>2. f # e BY <4>1, <5>1
        <5>3. \A u \in Threads : worker[u].pc = "visit" => worker[u].entry # f BY <2>1, <5>1
        <5>4. QED BY <4>1, <5>1, <5>2, <5>3 DEF Failed, Visited
      <4>3. ASSUME NEW f \in Failed PROVE f \in Failed'
        <5>1. /\ f \in job.unreadable \ shared.left
              /\ \A u \in Threads : worker[u].pc = "visit" => worker[u].entry # f
          BY <4>3 DEF Failed, Visited
        <5>2. f # e BY <5>1
        <5>3. \A u \in Threads : worker'[u].pc = "visit" => worker'[u].entry # f
          BY <2>1, <4>1, <5>1, <5>2
        <5>4. QED BY <2>1, <4>1, <5>1, <5>2, <5>3 DEF Failed, Visited
      <4>4. QED BY <4>2, <4>3
    <3>3. QED BY <3>1, <3>2
  <2>4. QED BY <1>1, <2>1, <2>2, <2>3
<1>3. ASSUME NEW t \in Threads, Walk!Visit(t) PROVE WalkErrors'
  <2>1. /\ job' = job /\ result' = result /\ worker[t].pc = "visit"
        /\ \A u \in Threads \ {t} : worker'[u] = worker[u]
        /\ worker'[t].entry = worker[t].entry
        /\ shared'.left = shared.left /\ shared'.aborted = shared.aborted
        /\ \/ worker'[t].pc = "drop" /\ shared.aborted
           \/ /\ worker'[t].pc = "walk" /\ worker'[t].local.errors = worker[t].local.errors + 1
              /\ worker[t].entry \in job.unreadable
           \/ /\ worker'[t].pc = "count" /\ worker'[t].local.errors = worker[t].local.errors
              /\ worker[t].entry \notin job.unreadable
    BY <1>0, <1>3, WalkVisit
  <2>2. CASE worker'[t].pc = "drop" BY <2>1, <2>2 DEF WalkErrors
  <2>3. CASE worker'[t].pc = "count"
    <3>1. Failed' = Failed BY <2>1, <2>3, CountedByStep
    <3>2. \A u \in Threads : /\ worker'[u].pc = "ended" <=> worker[u].pc = "ended"
                             /\ worker'[u].local.errors = worker[u].local.errors
      BY <2>1, <2>3
    <3>3. QED BY <1>1, <2>1, <3>1, <3>2
  <2>4. CASE worker'[t].pc = "walk"
    <3>0. PICK e \in job.unreadable : e = worker[t].entry BY <2>1, <2>4
    <3>1. /\ e \in job.unreadable /\ worker'[t].local.errors = worker[t].local.errors + 1
      BY <2>1, <2>4, <3>0
    <3>2. Handles(t) BY <2>1 DEF Handles
    <3>3. e \notin shared.left /\ \A u \in Threads : Handles(u) /\ worker[u].entry = e => u = t
      BY <1>0, <3>0, <3>2 DEF WalkPlaces
    <3>4. e \notin Failed BY <2>1, <3>0 DEF Failed, Visited
    <3>5. \A u \in Threads \ {t} : worker[u].pc = "visit" => worker[u].entry # e
      BY <3>3 DEF Handles
    <3>6. Failed' = Failed \cup {e}
      <4>1. e \in Failed' BY <2>1, <2>4, <3>1, <3>3, <3>5 DEF Failed, Visited
      <4>2. ASSUME NEW f, f # e PROVE f \in Failed' <=> f \in Failed
        <5>1. (\A u \in Threads : worker'[u].pc = "visit" => worker'[u].entry # f)
              <=> (\A u \in Threads : worker[u].pc = "visit" => worker[u].entry # f)
          BY <2>1, <2>4, <3>0, <4>2
        <5>2. QED BY <2>1, <5>1 DEF Failed, Visited
      <4>3. QED BY <4>1, <4>2
    <3>7. SUFFICES ASSUME ~shared'.aborted
                   PROVE  \E handed \in SUBSET job'.unreadable, by \in [job'.unreadable -> Threads] :
                            ErrorsAre(handed, by)'
      BY DEF WalkErrors
    <3>8. PICK handed \in SUBSET job.unreadable, by \in [job.unreadable -> Threads] :
            ErrorsAre(handed, by)
      BY <1>0, <2>1, <3>7 DEF WalkErrors
    <3>9. PICK now \in [job.unreadable -> Threads] : now = [by EXCEPT ![e] = t] OBVIOUS
    <3>10. /\ handed \subseteq Failed /\ Failed \subseteq job.unreadable
           /\ result.errors = Cardinality(handed)
      BY <3>8 DEF ErrorsAre, Failed, Visited
    <3>11. now[e] = t /\ \A f \in Failed : now[f] = by[f] BY <3>1, <3>4, <3>9, <3>10
    <3>19. e \notin handed BY <3>4, <3>10
    <3>12. Own(t, handed, now)' = Own(t, handed, by) \cup {e}
      <4>1. ASSUME NEW f PROVE f \in Own(t, handed, now)' <=> f \in Own(t, handed, by) \cup {e}
        <5>1. CASE f = e BY <3>6, <3>11, <3>19, <5>1 DEF Own
        <5>2. CASE f # e BY <3>6, <3>11, <5>2 DEF Own
        <5>3. QED BY <5>1, <5>2
      <4>2. QED BY <4>1
    <3>13. ASSUME NEW u \in Threads \ {t} PROVE Own(u, handed, now)' = Own(u, handed, by)
      <4>1. ASSUME NEW f PROVE f \in Own(u, handed, now)' <=> f \in Own(u, handed, by)
        <5>1. CASE f = e BY <3>4, <3>6, <3>11, <5>1 DEF Own
        <5>2. CASE f # e BY <3>6, <3>11, <5>2 DEF Own
        <5>3. QED BY <5>1, <5>2
      <4>2. QED BY <4>1
    <3>14. IsFiniteSet(Own(t, handed, by)) /\ e \notin Own(t, handed, by)
      <4>1. Own(t, handed, by) \subseteq Failed BY DEF Own
      <4>2. QED BY <1>0, <3>4, <4>1, CountedIsFinite, FS_Subset
    <3>15. worker'[t].local.errors = Cardinality(Own(t, handed, now)')
      <4>1. worker[t].local.errors = Cardinality(Own(t, handed, by))
        BY <2>1, <3>8 DEF ErrorsAre
      <4>2. Cardinality(Own(t, handed, by) \cup {e}) = Cardinality(Own(t, handed, by)) + 1
        BY <3>14, FS_AddElement
      <4>3. QED BY <3>1, <3>12, <4>1, <4>2
    <3>16. ASSUME NEW u \in Threads
           PROVE  IF worker'[u].pc = "ended" THEN Own(u, handed, now)' = {}
                  ELSE worker'[u].local.errors = Cardinality(Own(u, handed, now)')
      <4>1. CASE u = t BY <2>4, <3>15, <4>1
      <4>2. CASE u # t
        <5>1. worker'[u] = worker[u] /\ Own(u, handed, now)' = Own(u, handed, by)
          BY <2>1, <3>13, <4>2
        <5>2. IF worker[u].pc = "ended" THEN Own(u, handed, by) = {}
              ELSE worker[u].local.errors = Cardinality(Own(u, handed, by))
          BY <3>8 DEF ErrorsAre
        <5>3. QED BY <5>1, <5>2
      <4>3. QED BY <4>1, <4>2
    <3>17. ErrorsAre(handed, now)' BY <2>1, <3>6, <3>10, <3>16 DEF ErrorsAre
    <3>18. job'.unreadable = job.unreadable BY <2>1
    <3>20. QED BY <3>9, <3>17, <3>18
  <2>5. QED BY <2>1, <2>2, <2>3, <2>4
<1>4. ASSUME NEW t \in Threads, Walk!Count(t) PROVE WalkErrors'
  <2>1. /\ job' = job /\ result' = result /\ worker[t].pc = "count"
        /\ \A u \in Threads \ {t} : worker'[u] = worker[u]
        /\ worker'[t].local = worker[t].local /\ worker'[t].pc \in {"abort", "collect"}
        /\ shared'.left = shared.left /\ shared'.aborted = shared.aborted
    BY <1>0, <1>4, WalkCount
  <2>2. Failed' = Failed BY <2>1, CountedByStep
  <2>3. \A u \in Threads : /\ worker'[u].pc = "ended" <=> worker[u].pc = "ended"
                           /\ worker'[u].local.errors = worker[u].local.errors
    BY <2>1
  <2>4. QED BY <1>1, <2>1, <2>2, <2>3
<1>5. ASSUME NEW t \in Threads, Walk!Abort(t) PROVE WalkErrors'
  BY <1>0, <1>5, WalkAbort DEF WalkErrors
<1>6. ASSUME NEW t \in Threads, Walk!Collect(t) PROVE WalkErrors'
  <2>1. /\ job' = job /\ result' = result /\ shared' = shared
        /\ worker[t].pc = "collect" /\ worker'[t].pc = "walk"
        /\ \A u \in Threads \ {t} : worker'[u] = worker[u]
        /\ worker'[t].local.errors = worker[t].local.errors
    BY <1>0, <1>6, WalkGather
  <2>2. Failed' = Failed BY <2>1, CountedByStep
  <2>3. \A u \in Threads : /\ worker'[u].pc = "ended" <=> worker[u].pc = "ended"
                           /\ worker'[u].local.errors = worker[u].local.errors
    BY <2>1
  <2>4. QED BY <1>1, <2>1, <2>2, <2>3
<1>7. ASSUME NEW t \in Threads, Walk!Drop(t) PROVE WalkErrors'
  <2>1. /\ job' = job /\ shared' = shared
        /\ worker[t].pc = "drop" /\ worker'[t].pc = "ended"
        /\ \A u \in Threads \ {t} : worker'[u] = worker[u]
        /\ result'.errors = result.errors + worker[t].local.errors
    BY <1>0, <1>7, WalkDrop
  <2>2. Failed' = Failed BY <2>1, CountedByStep
  <2>3. SUFFICES ASSUME ~shared'.aborted
                 PROVE  \E handed \in SUBSET job'.unreadable, by \in [job'.unreadable -> Threads] :
                          ErrorsAre(handed, by)'
    BY DEF WalkErrors
  <2>4. PICK handed \in SUBSET job.unreadable, by \in [job.unreadable -> Threads] :
          ErrorsAre(handed, by)
    BY <1>0, <2>1, <2>3 DEF WalkErrors
  <2> DEFINE own == Own(t, handed, by)
             now == handed \cup own
  <2>5. /\ handed \subseteq Failed /\ own \subseteq Failed /\ Failed \subseteq job.unreadable
        /\ own \cap handed = {} /\ result.errors = Cardinality(handed)
        /\ worker[t].local.errors = Cardinality(own)
    BY <2>1, <2>4 DEF ErrorsAre, Failed, Visited, Own
  <2>6. IsFiniteSet(handed) /\ IsFiniteSet(own) BY <1>0, <2>5, CountedIsFinite, FS_Subset
  <2>7. Cardinality(now) = Cardinality(handed) + Cardinality(own)
    <3>1. Cardinality(handed \cap own) = 0 BY <2>5, FS_EmptySet
    <3>2. Cardinality(handed) \in Nat /\ Cardinality(own) \in Nat BY <2>6, FS_CardinalityType
    <3>3. Cardinality(now) = Cardinality(handed) + Cardinality(own) - Cardinality(handed \cap own)
      BY <2>6, FS_Union
    <3> HIDE DEF own, now
    <3>4. QED BY <3>1, <3>2, <3>3
  <2>8. now \in SUBSET job.unreadable BY <2>5
  <2>9. PICK given \in SUBSET job.unreadable : given = now
    <3> HIDE DEF now
    <3>1. QED BY <2>8
  <2>10. /\ result'.errors = Cardinality(given) /\ given \subseteq Failed'
    BY <2>1, <2>2, <2>5, <2>7, <2>9
  <2>11. Own(t, given, by)' = {} BY <2>2, <2>9 DEF Own
  <2>12. ASSUME NEW u \in Threads \ {t} PROVE Own(u, given, by)' = Own(u, handed, by)
    BY <2>2, <2>9 DEF Own
  <2> HIDE DEF own, now
  <2>13. ASSUME NEW u \in Threads
         PROVE  IF worker'[u].pc = "ended" THEN Own(u, given, by)' = {}
                ELSE worker'[u].local.errors = Cardinality(Own(u, given, by)')
    <3>1. CASE u = t BY <2>1, <2>11, <3>1
    <3>2. CASE u # t
      <4>1. worker'[u] = worker[u] /\ Own(u, given, by)' = Own(u, handed, by)
        BY <2>1, <2>12, <3>2
      <4>2. IF worker[u].pc = "ended" THEN Own(u, handed, by) = {}
            ELSE worker[u].local.errors = Cardinality(Own(u, handed, by))
        BY <2>4 DEF ErrorsAre
      <4>3. QED BY <4>1, <4>2
    <3>3. QED BY <3>1, <3>2
  <2>14. ErrorsAre(given, by)' BY <2>10, <2>13 DEF ErrorsAre
  <2>15. job'.unreadable = job.unreadable BY <2>1
  <2>16. QED BY <2>4, <2>14, <2>15
<1>8. ASSUME Walk!Walked PROVE WalkErrors'
  <2>1. UNCHANGED <<job, shared, worker, result>> BY <1>0, <1>8, WalkWalked
  <2>2. Failed' = Failed BY <2>1 DEF Failed, Visited
  <2>3. QED BY <1>1, <2>1, <2>2
<1>9. QED
  BY <1>2, <1>3, <1>4, <1>5, <1>6, <1>7, <1>8 DEF Walk!ConsumerStep, Walk!WorkerStep

LEMMA WalkStep ==
  ASSUME WalkInv, Walk!ConsumerStep \/ \E t \in Threads : Walk!WorkerStep(t)
  PROVE  WalkInv'
<1>0. WalkTypes BY DEF WalkInv
<1>1. WalkTypes'
  BY <1>0, WalkDeal, WalkVisit, WalkCount, WalkAbort, WalkGather, WalkDrop, WalkWalked
     DEF Walk!ConsumerStep, Walk!WorkerStep
<1>2. QED
  BY <1>1, WalkPlacesKept, WalkCountsKept, WalkFilesKept, WalkErrorsKept DEF WalkInv

LEMMA WalkIsWhole == ASSUME WalkInv PROVE Walk!AllOrTooMany
<1>0. WalkTypes /\ WalkPlaces /\ WalkCounts /\ WalkFiles /\ WalkErrors BY DEF WalkInv
<1>1. /\ IsFiniteSet(job.entries) /\ job.cap \in Nat
      /\ job.unreadable \subseteq job.entries /\ job.files \subseteq job.entries
      /\ job.unreadable \cap job.files = {}
  BY <1>0, WalkJob
<1>2. /\ IsFiniteSet(Counted) /\ Cardinality(Counted) \in Nat
      /\ IsFiniteSet(Failed) /\ Cardinality(Failed) \in Nat
  BY <1>0, CountedIsFinite
<1>3. /\ IsFiniteSet(job.entries \ job.unreadable)
      /\ Cardinality(job.entries \ job.unreadable) \in Nat
  BY <1>1, FS_Subset, FS_CardinalityType
<1>4. Walk!Readable = Cardinality(job.entries \ job.unreadable)
  BY SameCardinality DEF Walk!Readable
<1>5. shared.seen \in Nat /\ result \in Gathered BY <1>0 DEF WalkTypes
<1>6. ASSUME consumer = "done"
      PROVE  /\ result.files = job.files /\ result.errors = Cardinality(job.unreadable)
             /\ job.cap = 0 \/ Walk!Readable <= job.cap
  <2>1. ~shared.aborted /\ \A t \in Threads : worker[t].pc = "ended"
    BY <1>0, <1>6 DEF WalkPlaces
  <2>2. PICK t \in Threads : TRUE BY ComputationAssumption DEF Walk!WalkAssumption
  <2>3. shared.left = {} BY <1>0, <2>1, <2>2 DEF WalkFiles
  <2>4. \A u \in Threads : ~Handles(u) BY <2>1 DEF Handles
  <2>5. job.files \subseteq result.files
    <3>1. SUFFICES ASSUME NEW f \in job.files, f \notin result.files PROVE FALSE OBVIOUS
    <3>2. f \in job.files \ (shared.left \cup result.files) BY <2>3, <3>1
    <3>3. PICK u \in Threads : (Handles(u) /\ worker[u].entry = f) \/ f \in worker[u].local.files
      BY <1>0, <2>1, <3>2 DEF WalkFiles
    <3>4. f \in worker[u].local.files BY <2>4, <3>3
    <3>5. worker[u].local.files \subseteq result.files BY <1>0, <2>1 DEF WalkFiles
    <3>6. QED BY <3>1, <3>4, <3>5
  <2>6. result.files = job.files BY <1>5, <2>5 DEF Gathered
  <2>7. Failed = job.unreadable BY <2>1, <2>3 DEF Failed, Visited
  <2>8. PICK handed \in SUBSET job.unreadable, by \in [job.unreadable -> Threads] :
          ErrorsAre(handed, by)
    BY <1>0, <2>1 DEF WalkErrors
  <2>9. \A u \in Threads : Own(u, handed, by) = {} BY <2>1, <2>8 DEF ErrorsAre
  <2>10. handed = job.unreadable
    <3>1. ASSUME NEW e \in job.unreadable, e \notin handed PROVE FALSE
      <4>1. by[e] \in Threads OBVIOUS
      <4>2. e \in Own(by[e], handed, by) BY <2>7, <3>1 DEF Own
      <4>3. QED BY <2>9, <4>1, <4>2
    <3>2. QED BY <3>1
  <2>11. result.errors = Cardinality(job.unreadable) BY <2>8, <2>10 DEF ErrorsAre
  <2>12. Counted = job.entries \ job.unreadable BY <2>1, <2>3 DEF Counted, Visited
  <2>13. job.cap = 0 \/ shared.seen <= job.cap BY <1>0, <2>1 DEF WalkCounts
  <2>14. shared.seen = Cardinality(Counted) BY <1>0, <2>1 DEF WalkCounts
  <2>15. QED BY <1>4, <2>6, <2>11, <2>12, <2>13, <2>14
<1>7. ASSUME consumer = "failed" PROVE job.cap > 0 /\ Walk!Readable > job.cap
  <2>1. shared.aborted BY <1>0, <1>7 DEF WalkPlaces
  <2>2. job.cap > 0 /\ shared.seen > job.cap /\ shared.seen <= Cardinality(Counted)
    BY <1>0, <2>1 DEF WalkCounts
  <2>3. Counted \subseteq job.entries \ job.unreadable BY DEF Counted, Visited
  <2>4. Cardinality(Counted) <= Cardinality(job.entries \ job.unreadable)
    BY <1>3, <2>3, FS_Subset
  <2>5. QED BY <1>1, <1>2, <1>3, <1>4, <1>5, <2>2, <2>4
<1>8. Walk!Cardinality(job.unreadable) = Cardinality(job.unreadable) BY SameCardinality
<1>9. QED BY <1>6, <1>7, <1>8 DEF Walk!AllOrTooMany

(***************************************************************************)
(* The parse pipeline.                                                     *)
(***************************************************************************)
Arrivals == [file : Nat, parsed : Seq(Nat)]
Parsers  == [pc : {"unborn", "check", "take", "wait", "parse", "send", "panicked", "ended"},
             file : Nat]
Writers  == [pc : {"spawn", "receive", "drain", "commit", "join", "done", "failed", "panicked"},
             pending : SUBSET Arrivals, frontier : Nat, consumed : Nat,
             current : Seq(Nat), failed : BOOLEAN]
WriteTypes ==
  /\ job \in Rebuilds
  /\ shared \in [next : Nat, written : Nat, stop : BOOLEAN]
  /\ worker \in [Threads -> Parsers] /\ channel \in Seq(Arrivals) /\ consumer \in Writers

Holds(t) == worker[t].pc \in {"wait", "parse", "send", "panicked"}

\* A file that has been handed out and is not consumed yet is in one place: with
\* a thread, in the channel or with the writer.
WithThreads ==
  \A t \in Threads : Holds(t) =>
    /\ consumer.frontier < worker[t].file /\ worker[t].file < shared.next
    /\ \A u \in Threads : Holds(u) /\ worker[u].file = worker[t].file => u = t
InChannel ==
  \A i \in 1..Len(channel) :
    /\ consumer.frontier < channel[i].file /\ channel[i].file < shared.next
    /\ \A k \in 1..Len(channel) : channel[k].file = channel[i].file => k = i
    /\ \A t \in Threads : Holds(t) => channel[i].file # worker[t].file
WithWriter ==
  \A r \in consumer.pending :
    /\ consumer.frontier < r.file /\ r.file < shared.next
    /\ \A s \in consumer.pending : s.file = r.file => s = r
    /\ \A t \in Threads : Holds(t) => r.file # worker[t].file
    /\ \A i \in 1..Len(channel) : r.file # channel[i].file

\* Unless a transaction has failed, what is parsed is in the window.
InWindow ==
  /\ shared.written <= consumer.frontier /\ consumer.frontier < shared.next
  /\ Len(channel) <= Write!Window
  /\ ~shared.stop =>
       /\ \A t \in Threads : worker[t].pc \in {"parse", "send"} =>
            worker[t].file <= shared.written + Write!Window
       /\ \A i \in 1..Len(channel) : channel[i].file <= shared.written + Write!Window

WriteInv == WriteTypes /\ WithThreads /\ InChannel /\ WithWriter /\ InWindow

LEMMA WriteJob ==
  ASSUME WriteTypes
  PROVE  /\ job.files \in Nat \ {0} /\ job.batch \in Nat \ {0} /\ Write!Window \in Nat \ {0}
         /\ Write!Files \subseteq Nat
<1>1. Write!IsRebuild(job) BY ComputationAssumption DEF WriteTypes, Write!ParseAssumption
<1>2. QED BY <1>1 DEF Write!IsRebuild, Write!Window, Write!Files

LEMMA WindowKept == ASSUME job' = job PROVE Write!Window' = Write!Window
BY DEF Write!Window

LEMMA WriteInit == ASSUME Write!Init PROVE WriteInv
<1>1. WriteTypes BY DEF Write!Init, WriteTypes, Parsers, Writers
<1>2. \A t \in Threads : worker[t].pc = "unborn" BY DEF Write!Init
<1>3. \A t \in Threads : ~Holds(t) BY <1>2 DEF Holds
<1>4. /\ channel = <<>> /\ consumer.pending = {} /\ consumer.frontier = 0
      /\ shared.written = 0 /\ shared.next = 1
  BY DEF Write!Init
<1>5. WithThreads BY <1>3 DEF WithThreads
<1>6. InChannel BY <1>4 DEF InChannel
<1>7. WithWriter BY <1>4 DEF WithWriter
<1>8. InWindow BY <1>1, <1>2, <1>4, WriteJob DEF InWindow
<1>9. QED BY <1>1, <1>5, <1>6, <1>7, <1>8 DEF WriteInv

LEMMA ParserGoes ==
  ASSUME worker \in [Threads -> Parsers], NEW t \in Threads,
         NEW pc \in {"unborn", "check", "take", "wait", "parse", "send", "panicked", "ended"},
         worker' = [worker EXCEPT ![t].pc = pc]
  PROVE  /\ worker' \in [Threads -> Parsers] /\ \A u \in Threads \ {t} : worker'[u] = worker[u]
         /\ worker'[t].pc = pc /\ worker'[t].file = worker[t].file
BY DEF Parsers

LEMMA WriteNumbers ==
  ASSUME WriteTypes
  PROVE  /\ shared.next \in Nat /\ shared.written \in Nat /\ shared.stop \in BOOLEAN
         /\ consumer.frontier \in Nat /\ consumer.pending \subseteq Arrivals
         /\ consumer.consumed \in Nat /\ consumer.current \in Seq(Nat)
         /\ consumer.failed \in BOOLEAN /\ Len(channel) \in Nat
         /\ \A t \in Threads : worker[t].file \in Nat
         /\ \A i \in 1..Len(channel) : channel[i] \in Arrivals /\ channel[i].file \in Nat
         /\ \A r \in consumer.pending : r.file \in Nat /\ r.parsed \in Seq(Nat)
<1>1. consumer \in Writers /\ channel \in Seq(Arrivals) BY DEF WriteTypes
<1>2. /\ consumer.frontier \in Nat /\ consumer.pending \subseteq Arrivals
      /\ consumer.consumed \in Nat /\ consumer.current \in Seq(Nat)
      /\ consumer.failed \in BOOLEAN
  BY <1>1 DEF Writers
<1>3. Len(channel) \in Nat BY <1>1, LenProperties
<1>4. \A i \in 1..Len(channel) : channel[i] \in Arrivals BY <1>1, ElementOfSeq
<1>5. \A r \in Arrivals : r.file \in Nat /\ r.parsed \in Seq(Nat) BY DEF Arrivals
<1>6. \A t \in Threads : worker[t].file \in Nat BY DEF WriteTypes, Parsers
<1>7. shared.next \in Nat /\ shared.written \in Nat /\ shared.stop \in BOOLEAN BY DEF WriteTypes
<1>8. QED BY <1>2, <1>3, <1>4, <1>5, <1>6, <1>7

\* Steps in which a thread goes on with its file or without one.
LEMMA ParserKeeps ==
  ASSUME WriteInv, NEW t \in Threads, UNCHANGED <<job, shared, channel, consumer>>,
         worker' \in [Threads -> Parsers], \A u \in Threads \ {t} : worker'[u] = worker[u],
         worker'[t].file = worker[t].file, Holds(t)' => Holds(t),
         worker'[t].pc \in {"parse", "send"} =>
           \/ worker[t].pc \in {"parse", "send"} \/ shared.stop
           \/ worker[t].file <= shared.written + Write!Window
  PROVE  WriteInv'
<1>1. Write!Window' = Write!Window BY WindowKept
<1>2. WriteTypes' BY DEF WriteInv, WriteTypes
<1>3. \A u \in Threads : worker'[u].file = worker[u].file /\ (Holds(u)' => Holds(u))
  <2>1. \A u \in Threads \ {t} : Holds(u)' => Holds(u) BY DEF Holds
  <2>2. QED BY <2>1
<1>4. WithThreads' BY <1>3 DEF WriteInv, WithThreads
<1>5. InChannel' BY <1>3 DEF WriteInv, InChannel
<1>6. WithWriter' BY <1>3 DEF WriteInv, WithWriter
<1>7. \A u \in Threads : worker'[u].pc \in {"parse", "send"} =>
        shared.stop \/ worker[u].file <= shared.written + Write!Window
  BY DEF WriteInv, InWindow
<1>8. InWindow' BY <1>1, <1>3, <1>7 DEF WriteInv, InWindow
<1>9. QED BY <1>2, <1>4, <1>5, <1>6, <1>8 DEF WriteInv

LEMMA WriteTakes ==
  ASSUME WriteInv, NEW t \in Threads, Write!Take(t)
  PROVE  WriteInv'
<1>0. WriteTypes BY DEF WriteInv
<1> DEFINE r == IF shared.next \in Write!Files THEN [pc |-> "wait", file |-> shared.next]
                ELSE [pc |-> "ended", file |-> 0]
<1>1. /\ UNCHANGED <<job, channel, consumer>>
      /\ shared' = [shared EXCEPT !.next = @ + 1] /\ worker' = [worker EXCEPT ![t] = r]
  BY DEF Write!Take
<1>2. r \in Parsers BY <1>0, WriteNumbers DEF Parsers
<1>3. /\ shared' \in [next : Nat, written : Nat, stop : BOOLEAN]
      /\ shared'.next = shared.next + 1 /\ shared'.written = shared.written
      /\ shared'.stop = shared.stop
  BY <1>0, <1>1 DEF WriteTypes
<1>4. r.pc = "ended" \/ (r.pc = "wait" /\ r.file = shared.next) OBVIOUS
<1> HIDE DEF r
<1>5. /\ worker' \in [Threads -> Parsers] /\ worker'[t] = r
      /\ \A u \in Threads \ {t} : worker'[u] = worker[u]
  BY <1>0, <1>1, <1>2 DEF WriteTypes
<1>6. Holds(t)' => worker'[t].file = shared.next BY <1>4, <1>5 DEF Holds
<1>7. \A u \in Threads \ {t} : Holds(u)' <=> Holds(u) BY <1>5 DEF Holds
<1>8. WriteTypes' BY <1>0, <1>1, <1>3, <1>5 DEF WriteTypes
<1>n. /\ shared.next \in Nat /\ consumer.frontier \in Nat /\ shared.written \in Nat
      /\ \A u \in Threads : worker[u].file \in Nat
      /\ \A i \in 1..Len(channel) : channel[i].file \in Nat
      /\ \A s \in consumer.pending : s.file \in Nat
      /\ consumer.frontier < shared.next /\ Write!Window' = Write!Window
  BY <1>0, <1>1, WriteNumbers, WindowKept DEF WriteInv, InWindow
<1>9. WithThreads'
  <2>1. \A u \in Threads \ {t} : Holds(u) =>
          /\ consumer.frontier < worker[u].file /\ worker[u].file < shared.next
          /\ \A v \in Threads : Holds(v) /\ worker[v].file = worker[u].file => v = u
    BY DEF WriteInv, WithThreads
  <2>2. ASSUME NEW u \in Threads, Holds(u)'
        PROVE  /\ consumer.frontier < worker'[u].file /\ worker'[u].file < shared.next + 1
               /\ \A v \in Threads : Holds(v)' /\ worker'[v].file = worker'[u].file => v = u
    <3>1. CASE u = t
      <4>1. worker'[u].file = shared.next BY <1>6, <2>2, <3>1
      <4>2. ASSUME NEW v \in Threads, Holds(v)', worker'[v].file = worker'[u].file PROVE v = u
        BY <1>5, <1>7, <1>n, <2>1, <3>1, <4>1, <4>2
      <4>3. QED BY <1>n, <4>1, <4>2
    <3>2. CASE u # t
      <4>1. worker'[u] = worker[u] /\ Holds(u) BY <1>5, <1>7, <2>2, <3>2
      <4>2. ASSUME NEW v \in Threads, Holds(v)', worker'[v].file = worker'[u].file PROVE v = u
        BY <1>5, <1>6, <1>7, <1>n, <2>1, <3>2, <4>1, <4>2
      <4>3. QED BY <1>n, <2>1, <3>2, <4>1, <4>2
    <3>3. QED BY <3>1, <3>2
  <2>3. QED BY <1>1, <1>3, <2>2 DEF WithThreads
<1>10. InChannel'
  <2>1. ASSUME NEW i \in 1..Len(channel)
        PROVE  /\ consumer.frontier < channel[i].file /\ channel[i].file < shared.next + 1
               /\ \A k \in 1..Len(channel) : channel[k].file = channel[i].file => k = i
               /\ \A u \in Threads : Holds(u)' => channel[i].file # worker'[u].file
    <3>1. /\ consumer.frontier < channel[i].file /\ channel[i].file < shared.next
          /\ \A k \in 1..Len(channel) : channel[k].file = channel[i].file => k = i
          /\ \A u \in Threads : Holds(u) => channel[i].file # worker[u].file
      BY DEF WriteInv, InChannel
    <3>2. \A u \in Threads : Holds(u)' => channel[i].file # worker'[u].file
      BY <1>5, <1>6, <1>7, <1>n, <3>1
    <3>3. QED BY <1>n, <3>1, <3>2
  <2>2. QED BY <1>1, <1>3, <2>1 DEF InChannel
<1>11. WithWriter'
  <2>1. ASSUME NEW s \in consumer.pending
        PROVE  /\ consumer.frontier < s.file /\ s.file < shared.next + 1
               /\ \A w \in consumer.pending : w.file = s.file => w = s
               /\ \A u \in Threads : Holds(u)' => s.file # worker'[u].file
               /\ \A i \in 1..Len(channel) : s.file # channel[i].file
    <3>1. /\ consumer.frontier < s.file /\ s.file < shared.next
          /\ \A w \in consumer.pending : w.file = s.file => w = s
          /\ \A u \in Threads : Holds(u) => s.file # worker[u].file
          /\ \A i \in 1..Len(channel) : s.file # channel[i].file
      BY DEF WriteInv, WithWriter
    <3>2. \A u \in Threads : Holds(u)' => s.file # worker'[u].file
      BY <1>5, <1>6, <1>7, <1>n, <3>1
    <3>3. QED BY <1>n, <3>1, <3>2
  <2>2. QED BY <1>1, <1>3, <2>1 DEF WithWriter
<1>12. InWindow'
  <2>1. \A u \in Threads : worker'[u].pc \in {"parse", "send"} => u # t BY <1>4, <1>5
  <2>2. QED BY <1>1, <1>3, <1>5, <1>n, <2>1 DEF WriteInv, InWindow
<1>13. QED BY <1>8, <1>9, <1>10, <1>11, <1>12 DEF WriteInv

\* A result goes from its thread to the end of the channel.
LEMMA WriteSends ==
  ASSUME WriteInv, NEW t \in Threads, Write!Send(t), consumer.pc # "join"
  PROVE  WriteInv'
<1>0. WriteTypes BY DEF WriteInv
<1> DEFINE e == [file |-> worker[t].file, parsed |-> Write!Parsed(worker[t].file)]
<1>1. /\ UNCHANGED <<job, shared, consumer>> /\ Len(channel) < Write!Window
      /\ worker[t].pc = "send" /\ worker' = [worker EXCEPT ![t].pc = "check"]
      /\ channel' = Append(channel, e)
  BY DEF Write!Send, Write!Goes
<1>2. e \in Arrivals /\ e.file = worker[t].file
  <2>1. worker[t].file \in Nat BY <1>0, WriteNumbers
  <2>2. Write!Parsed(worker[t].file) \in Seq(Nat) BY <2>1 DEF Write!Parsed
  <2>3. QED BY <2>1, <2>2 DEF Arrivals
<1> HIDE DEF e
<1>3. /\ channel' \in Seq(Arrivals) /\ Len(channel') = Len(channel) + 1
      /\ \A i \in 1..Len(channel) : channel'[i] = channel[i]
      /\ channel'[Len(channel) + 1] = e
  BY <1>0, <1>1, <1>2, AppendProperties DEF WriteTypes
<1>4. /\ worker' \in [Threads -> Parsers] /\ \A u \in Threads \ {t} : worker'[u] = worker[u]
      /\ worker'[t].pc = "check"
  BY <1>0, <1>1, ParserGoes DEF WriteTypes
<1>5. WriteTypes' BY <1>0, <1>1, <1>3, <1>4 DEF WriteTypes
<1>6. Holds(t) /\ ~Holds(t)' /\ \A u \in Threads \ {t} : Holds(u)' <=> Holds(u)
  BY <1>1, <1>4 DEF Holds
<1>7. /\ consumer.frontier < e.file /\ e.file < shared.next
      /\ \A u \in Threads : Holds(u) /\ worker[u].file = e.file => u = t
      /\ \A i \in 1..Len(channel) : channel[i].file # e.file
      /\ \A r \in consumer.pending : r.file # e.file
      /\ ~shared.stop => e.file <= shared.written + Write!Window
  BY <1>1, <1>2, <1>6 DEF WriteInv, WithThreads, InChannel, WithWriter, InWindow
<1>n. Len(channel) \in Nat /\ Write!Window' = Write!Window /\ Write!Window \in Nat
  BY <1>0, <1>1, WriteNumbers, WriteJob, WindowKept
<1>i. \A i \in 1..Len(channel') : i \in 1..Len(channel) \/ i = Len(channel) + 1 BY <1>3, <1>n
<1>8. WithThreads' BY <1>1, <1>4, <1>6 DEF WriteInv, WithThreads
<1>9. InChannel'
  <2>1. ASSUME NEW i \in 1..Len(channel')
        PROVE  /\ consumer.frontier < channel'[i].file /\ channel'[i].file < shared.next
               /\ \A k \in 1..Len(channel') : channel'[k].file = channel'[i].file => k = i
               /\ \A u \in Threads : Holds(u)' => channel'[i].file # worker'[u].file
    <3>1. CASE i = Len(channel) + 1
      <4>1. channel'[i] = e BY <1>3, <3>1
      <4>2. \A k \in 1..Len(channel') : channel'[k].file = e.file => k = i
        BY <1>3, <1>7, <1>i, <3>1
      <4>3. \A u \in Threads : Holds(u)' => e.file # worker'[u].file BY <1>4, <1>6, <1>7
      <4>4. QED BY <1>7, <4>1, <4>2, <4>3
    <3>2. CASE i \in 1..Len(channel)
      <4>1. /\ channel'[i] = channel[i]
            /\ consumer.frontier < channel[i].file /\ channel[i].file < shared.next
            /\ \A k \in 1..Len(channel) : channel[k].file = channel[i].file => k = i
            /\ \A u \in Threads : Holds(u) => channel[i].file # worker[u].file
        BY <1>3, <3>2 DEF WriteInv, InChannel
      <4>2. \A k \in 1..Len(channel') : channel'[k].file = channel[i].file => k = i
        BY <1>3, <1>7, <1>i, <3>2, <4>1
      <4>3. \A u \in Threads : Holds(u)' => channel[i].file # worker'[u].file
        BY <1>4, <1>6, <4>1
      <4>4. QED BY <4>1, <4>2, <4>3
    <3>3. QED BY <1>i, <3>1, <3>2
  <2>2. QED BY <1>1, <2>1 DEF InChannel
<1>10. WithWriter'
  <2>1. ASSUME NEW r \in consumer.pending
        PROVE  /\ \A u \in Threads : Holds(u)' => r.file # worker'[u].file
               /\ \A i \in 1..Len(channel') : r.file # channel'[i].file
    BY <1>3, <1>4, <1>6, <1>7, <1>i DEF WriteInv, WithWriter
  <2>2. QED BY <1>1, <2>1 DEF WriteInv, WithWriter
<1>11. InWindow'
  <2>1. \A u \in Threads : worker'[u].pc \in {"parse", "send"} => u # t BY <1>4
  <2>2. ~shared.stop => \A i \in 1..Len(channel') : channel'[i].file <= shared.written + Write!Window
    BY <1>3, <1>7, <1>i DEF WriteInv, InWindow
  <2>3. Len(channel') <= Write!Window BY <1>1, <1>3, <1>n
  <2>4. QED BY <1>1, <1>4, <1>n, <2>1, <2>2, <2>3 DEF WriteInv, InWindow
<1>12. QED BY <1>5, <1>8, <1>9, <1>10, <1>11 DEF WriteInv

LEMMA WriteWorks ==
  ASSUME WriteInv, NEW t \in Threads, Write!WorkerStep(t)
  PROVE  WriteInv'
<1>0. worker \in [Threads -> Parsers] BY DEF WriteInv, WriteTypes
<1>1. ASSUME Write!CheckStop(t) PROVE WriteInv'
  <2>1. PICK pc \in {"ended", "take"} : worker' = [worker EXCEPT ![t].pc = pc]
    BY <1>1 DEF Write!CheckStop, Write!Goes
  <2>2. UNCHANGED <<job, shared, channel, consumer>> BY <1>1 DEF Write!CheckStop
  <2>3. /\ worker' \in [Threads -> Parsers] /\ \A u \in Threads \ {t} : worker'[u] = worker[u]
        /\ worker'[t].pc = pc /\ worker'[t].file = worker[t].file
    BY <1>0, <2>1, ParserGoes
  <2>4. ~Holds(t)' /\ worker'[t].pc \notin {"parse", "send"} BY <2>3 DEF Holds
  <2>5. QED BY <2>2, <2>3, <2>4, ParserKeeps
<1>2. ASSUME Write!Wait(t) PROVE WriteInv'
  <2>1. /\ UNCHANGED <<job, shared, channel, consumer>> /\ worker[t].pc = "wait"
        /\ worker' = [worker EXCEPT ![t].pc = "parse"]
        /\ worker[t].file <= shared.written + Write!Window \/ shared.stop
    BY <1>2 DEF Write!Wait, Write!Goes
  <2>2. /\ worker' \in [Threads -> Parsers] /\ \A u \in Threads \ {t} : worker'[u] = worker[u]
        /\ worker'[t].file = worker[t].file
    BY <1>0, <2>1, ParserGoes
  <2>3. Holds(t) BY <2>1 DEF Holds
  <2>4. QED BY <2>1, <2>2, <2>3, ParserKeeps
<1>3. ASSUME Write!Parse(t) PROVE WriteInv'
  <2>1. PICK pc \in {"panicked", "send"} : worker' = [worker EXCEPT ![t].pc = pc]
    BY <1>3 DEF Write!Parse, Write!Goes
  <2>2. UNCHANGED <<job, shared, channel, consumer>> /\ worker[t].pc = "parse"
    BY <1>3 DEF Write!Parse, Write!Goes
  <2>3. /\ worker' \in [Threads -> Parsers] /\ \A u \in Threads \ {t} : worker'[u] = worker[u]
        /\ worker'[t].file = worker[t].file
    BY <1>0, <2>1, ParserGoes
  <2>4. Holds(t) BY <2>2 DEF Holds
  <2>5. QED BY <2>2, <2>3, <2>4, ParserKeeps
<1>4. ASSUME Write!Send(t), consumer.pc = "join" PROVE WriteInv'
  <2>1. /\ UNCHANGED <<job, shared, channel, consumer>>
        /\ worker' = [worker EXCEPT ![t].pc = "ended"]
    BY <1>4 DEF Write!Send, Write!Goes
  <2>2. /\ worker' \in [Threads -> Parsers] /\ \A u \in Threads \ {t} : worker'[u] = worker[u]
        /\ worker'[t].pc = "ended" /\ worker'[t].file = worker[t].file
    BY <1>0, <2>1, ParserGoes
  <2>3. ~Holds(t)' /\ worker'[t].pc \notin {"parse", "send"} BY <2>2 DEF Holds
  <2>4. QED BY <2>1, <2>2, <2>3, ParserKeeps
<1>5. QED BY <1>1, <1>2, <1>3, <1>4, WriteTakes, WriteSends DEF Write!WorkerStep

\* Steps that only move the writer on.
LEMMA WriterKeeps ==
  ASSUME WriteInv, UNCHANGED <<job, shared, worker, channel>>, consumer' \in Writers,
         consumer'.pending = consumer.pending, consumer'.frontier = consumer.frontier
  PROVE  WriteInv'
<1>1. Write!Window' = Write!Window BY WindowKept
<1>2. \A t \in Threads : Holds(t)' <=> Holds(t) BY DEF Holds
<1>3. WriteTypes' BY DEF WriteInv, WriteTypes
<1>4. WithThreads' BY <1>2 DEF WriteInv, WithThreads
<1>5. InChannel' BY <1>2 DEF WriteInv, InChannel
<1>6. WithWriter' BY <1>2 DEF WriteInv, WithWriter
<1>7. InWindow' BY <1>1 DEF WriteInv, InWindow
<1>8. QED BY <1>3, <1>4, <1>5, <1>6, <1>7 DEF WriteInv

LEMMA WriterLeaves ==
  ASSUME WriteInv, UNCHANGED <<job, worker>>, NEW failed \in BOOLEAN, Write!Leaves(failed),
         shared' = shared \/ shared' = [shared EXCEPT !.stop = TRUE]
  PROVE  WriteInv'
<1>0. WriteTypes BY DEF WriteInv
<1>1. /\ consumer' = [consumer EXCEPT !.pc = "join", !.failed = failed,
                                      !.pending = {}, !.current = <<>>]
      /\ channel' = <<>>
  BY DEF Write!Leaves
<1>2. consumer \in Writers BY <1>0 DEF WriteTypes
<1>3. /\ consumer' = [pc |-> "join", pending |-> {}, frontier |-> consumer.frontier,
                      consumed |-> consumer.consumed, current |-> <<>>, failed |-> failed]
  BY <1>1, <1>2 DEF Writers
<1>4. consumer'.pending = {} /\ consumer'.frontier = consumer.frontier BY <1>3
<1>5. consumer' \in Writers BY <1>0, <1>3, WriteNumbers DEF Writers
<1>6. /\ shared' \in [next : Nat, written : Nat, stop : BOOLEAN]
      /\ shared'.next = shared.next /\ shared'.written = shared.written
      /\ ~shared'.stop => ~shared.stop
  BY <1>0 DEF WriteTypes
<1>7. channel' \in Seq(Arrivals) /\ Len(channel') = 0 BY <1>1
<1>8. Write!Window' = Write!Window /\ Write!Window \in Nat BY <1>0, WindowKept, WriteJob
<1>9. \A t \in Threads : Holds(t)' <=> Holds(t) BY DEF Holds
<1>10. WriteTypes' BY <1>0, <1>5, <1>6, <1>7 DEF WriteTypes
<1>11. WithThreads' BY <1>4, <1>6, <1>9 DEF WriteInv, WithThreads
<1>12. InChannel' BY <1>7 DEF InChannel
<1>13. WithWriter' BY <1>4 DEF WithWriter
<1>14. InWindow' BY <1>4, <1>6, <1>7, <1>8 DEF WriteInv, InWindow
<1>15. QED BY <1>10, <1>11, <1>12, <1>13, <1>14 DEF WriteInv

\* A result goes from the head of the channel to the writer.
LEMMA WriteReceives ==
  ASSUME WriteInv, Write!Receive
  PROVE  WriteInv'
<1>0. WriteTypes BY DEF WriteInv
<1> DEFINE e == Head(channel)
<1>1. /\ UNCHANGED <<job, shared, worker>> /\ channel # <<>> /\ channel' = Tail(channel)
      /\ consumer' = [consumer EXCEPT !.pc = "drain", !.pending = @ \cup {e}]
  BY DEF Write!Receive
<1>2. /\ channel \in Seq(Arrivals) /\ consumer \in Writers BY <1>0 DEF WriteTypes
<1>3. /\ channel' \in Seq(Arrivals) /\ Len(channel') = Len(channel) - 1
      /\ \A i \in 1..Len(channel') : channel'[i] = channel[i + 1]
      /\ e \in Arrivals /\ e = channel[1] /\ Len(channel) \in Nat \ {0}
  BY <1>1, <1>2, HeadTailProperties, EmptySeq
<1> HIDE DEF e
<1>4. /\ consumer' \in Writers /\ consumer'.pending = consumer.pending \cup {e}
      /\ consumer'.frontier = consumer.frontier
  <2>1. consumer' = [pc |-> "drain", pending |-> consumer.pending \cup {e},
                     frontier |-> consumer.frontier, consumed |-> consumer.consumed,
                     current |-> consumer.current, failed |-> consumer.failed]
    BY <1>1, <1>2 DEF Writers
  <2>2. consumer.pending \cup {e} \subseteq Arrivals BY <1>0, <1>3, WriteNumbers
  <2>3. QED BY <1>0, <2>1, <2>2, WriteNumbers DEF Writers
<1>5. \A t \in Threads : Holds(t)' <=> Holds(t) BY <1>1 DEF Holds
<1>6. \A i \in 1..Len(channel') : i + 1 \in 1..Len(channel) /\ i + 1 # 1 BY <1>3
<1>7. /\ consumer.frontier < e.file /\ e.file < shared.next
      /\ \A k \in 1..Len(channel) : channel[k].file = e.file => k = 1
      /\ \A t \in Threads : Holds(t) => e.file # worker[t].file
      /\ \A r \in consumer.pending : r.file # e.file
  <2>1. 1 \in 1..Len(channel) BY <1>3
  <2>2. QED BY <1>3, <2>1 DEF WriteInv, InChannel, WithWriter
<1>8. WriteTypes' BY <1>0, <1>1, <1>3, <1>4 DEF WriteTypes
<1>9. WithThreads' BY <1>1, <1>4, <1>5 DEF WriteInv, WithThreads
<1>10. InChannel'
  <2>1. ASSUME NEW i \in 1..Len(channel')
        PROVE  /\ consumer.frontier < channel'[i].file /\ channel'[i].file < shared.next
               /\ \A k \in 1..Len(channel') : channel'[k].file = channel'[i].file => k = i
               /\ \A t \in Threads : Holds(t)' => channel'[i].file # worker[t].file
    <3>1. /\ channel'[i] = channel[i + 1] /\ i + 1 \in 1..Len(channel) BY <1>3, <1>6
    <3>2. /\ consumer.frontier < channel[i + 1].file /\ channel[i + 1].file < shared.next
          /\ \A k \in 1..Len(channel) : channel[k].file = channel[i + 1].file => k = i + 1
          /\ \A t \in Threads : Holds(t) => channel[i + 1].file # worker[t].file
      BY <3>1 DEF WriteInv, InChannel
    <3>3. ASSUME NEW k \in 1..Len(channel'), channel'[k].file = channel'[i].file PROVE k = i
      <4>1. channel'[k] = channel[k + 1] /\ k + 1 \in 1..Len(channel) BY <1>3, <1>6
      <4>2. k + 1 = i + 1 BY <3>1, <3>2, <3>3, <4>1
      <4>3. QED BY <4>2
    <3>4. QED BY <1>5, <3>1, <3>2, <3>3
  <2>2. QED BY <1>1, <1>4, <2>1 DEF InChannel
<1>11. WithWriter'
  <2>1. ASSUME NEW r \in consumer.pending \cup {e}
        PROVE  /\ consumer.frontier < r.file /\ r.file < shared.next
               /\ \A s \in consumer.pending \cup {e} : s.file = r.file => s = r
               /\ \A t \in Threads : Holds(t)' => r.file # worker[t].file
               /\ \A i \in 1..Len(channel') : r.file # channel'[i].file
    <3>1. CASE r = e
      <4>1. \A i \in 1..Len(channel') : e.file # channel'[i].file BY <1>3, <1>6, <1>7
      <4>2. QED BY <1>5, <1>7, <3>1, <4>1
    <3>2. CASE r # e
      <4>1. /\ consumer.frontier < r.file /\ r.file < shared.next
            /\ \A s \in consumer.pending : s.file = r.file => s = r
            /\ \A t \in Threads : Holds(t) => r.file # worker[t].file
            /\ \A i \in 1..Len(channel) : r.file # channel[i].file
            /\ r.file # e.file
        BY <1>7, <3>2 DEF WriteInv, WithWriter
      <4>2. \A i \in 1..Len(channel') : r.file # channel'[i].file BY <1>3, <1>6, <4>1
      <4>3. QED BY <1>5, <4>1, <4>2
    <3>3. QED BY <3>1, <3>2
  <2>2. QED BY <1>1, <1>4, <2>1 DEF WithWriter
<1>12. InWindow'
  <2>1. Write!Window' = Write!Window /\ Write!Window \in Nat BY <1>0, <1>1, WindowKept, WriteJob
  <2>2. Len(channel') <= Write!Window BY <1>3, <2>1 DEF WriteInv, InWindow
  <2>3. ~shared.stop =>
          \A i \in 1..Len(channel') : channel'[i].file <= shared.written + Write!Window
    BY <1>3, <1>6 DEF WriteInv, InWindow
  <2>4. QED BY <1>1, <1>4, <2>1, <2>2, <2>3 DEF WriteInv, InWindow
<1>13. QED BY <1>8, <1>9, <1>10, <1>11, <1>12 DEF WriteInv

\* The next file in order joins the batch.
LEMMA WriteJoins ==
  ASSUME WriteInv, NEW r \in consumer.pending, r.file = consumer.frontier + 1,
         UNCHANGED <<job, shared, worker, channel>>, Write!Joins(r)
  PROVE  WriteInv'
<1>0. WriteTypes BY DEF WriteInv
<1>1. PICK pc \in {"commit", "drain"} :
        consumer' = [consumer EXCEPT !.pc = pc, !.pending = @ \ {r}, !.frontier = @ + 1,
                                     !.consumed = @ + 1, !.current = @ \o r.parsed]
  BY DEF Write!Joins
<1>2. consumer \in Writers BY <1>0 DEF WriteTypes
<1>3. consumer' = [pc |-> pc, pending |-> consumer.pending \ {r},
                   frontier |-> consumer.frontier + 1, consumed |-> consumer.consumed + 1,
                   current |-> consumer.current \o r.parsed, failed |-> consumer.failed]
  BY <1>1, <1>2 DEF Writers
<1>4. /\ consumer'.pending = consumer.pending \ {r}
      /\ consumer'.frontier = consumer.frontier + 1
  BY <1>3
<1>5. consumer' \in Writers
  <2>1. consumer.current \o r.parsed \in Seq(Nat) BY <1>0, WriteNumbers, ConcatProperties
  <2>2. /\ consumer.pending \ {r} \subseteq Arrivals /\ consumer.frontier + 1 \in Nat
        /\ consumer.consumed + 1 \in Nat /\ consumer.failed \in BOOLEAN
    BY <1>0, WriteNumbers
  <2> DEFINE c == consumer.current \o r.parsed
  <2> HIDE DEF c
  <2>3. c \in Seq(Nat) BY <2>1 DEF c
  <2>4. consumer' = [pc |-> pc, pending |-> consumer.pending \ {r},
                     frontier |-> consumer.frontier + 1, consumed |-> consumer.consumed + 1,
                     current |-> c, failed |-> consumer.failed]
    BY <1>3 DEF c
  <2>5. QED BY <2>2, <2>3, <2>4 DEF Writers
<1>n. /\ consumer.frontier \in Nat /\ shared.written \in Nat /\ shared.next \in Nat
      /\ \A t \in Threads : worker[t].file \in Nat
      /\ \A i \in 1..Len(channel) : channel[i].file \in Nat
      /\ \A s \in consumer.pending : s.file \in Nat
      /\ Write!Window' = Write!Window
  BY <1>0, WriteNumbers, WindowKept
<1>6. \A t \in Threads : Holds(t)' <=> Holds(t) BY DEF Holds
<1>7. /\ r.file < shared.next /\ \A s \in consumer.pending : s.file = r.file => s = r
      /\ \A t \in Threads : Holds(t) => r.file # worker[t].file
      /\ \A i \in 1..Len(channel) : r.file # channel[i].file
  BY DEF WriteInv, WithWriter
<1>8. WriteTypes' BY <1>0, <1>5 DEF WriteTypes
<1>9. WithThreads'
  <2>1. \A t \in Threads : Holds(t) => consumer.frontier + 1 < worker[t].file
    BY <1>7, <1>n DEF WriteInv, WithThreads
  <2>2. QED BY <1>4, <1>6, <2>1 DEF WriteInv, WithThreads
<1>10. InChannel'
  <2>1. \A i \in 1..Len(channel) : consumer.frontier + 1 < channel[i].file
    BY <1>7, <1>n DEF WriteInv, InChannel
  <2>2. QED BY <1>4, <1>6, <2>1 DEF WriteInv, InChannel
<1>11. WithWriter'
  <2>1. \A s \in consumer.pending \ {r} : consumer.frontier + 1 < s.file
    BY <1>7, <1>n DEF WriteInv, WithWriter
  <2>2. QED BY <1>4, <1>6, <2>1 DEF WriteInv, WithWriter
<1>12. InWindow'
  <2>1. shared.written <= consumer.frontier + 1 /\ consumer.frontier + 1 < shared.next
    BY <1>7, <1>n DEF WriteInv, InWindow
  <2>2. QED BY <1>4, <1>n, <2>1 DEF WriteInv, InWindow
<1>13. QED BY <1>8, <1>9, <1>10, <1>11, <1>12 DEF WriteInv

LEMMA WriteCommits ==
  ASSUME WriteInv, Write!Commit
  PROVE  WriteInv'
<1>0. WriteTypes BY DEF WriteInv
<1>1. /\ UNCHANGED <<job, worker, channel>>
      /\ consumer' = [consumer EXCEPT !.pc = "drain", !.consumed = 0, !.current = <<>>]
      /\ shared' = [shared EXCEPT !.written = consumer.frontier]
  BY DEF Write!Commit
<1>2. consumer \in Writers BY <1>0 DEF WriteTypes
<1>3. consumer' = [pc |-> "drain", pending |-> consumer.pending,
                   frontier |-> consumer.frontier, consumed |-> 0,
                   current |-> <<>>, failed |-> consumer.failed]
  BY <1>1, <1>2 DEF Writers
<1>4. consumer' \in Writers BY <1>0, <1>3, WriteNumbers DEF Writers
<1>5. consumer'.pending = consumer.pending /\ consumer'.frontier = consumer.frontier BY <1>3
<1>n. /\ consumer.frontier \in Nat /\ shared.written \in Nat /\ Write!Window \in Nat
      /\ \A t \in Threads : worker[t].file \in Nat
      /\ \A i \in 1..Len(channel) : channel[i].file \in Nat
      /\ Write!Window' = Write!Window /\ shared.written <= consumer.frontier
  BY <1>0, <1>1, WriteNumbers, WriteJob, WindowKept DEF WriteInv, InWindow
<1>6. /\ shared' \in [next : Nat, written : Nat, stop : BOOLEAN]
      /\ shared'.next = shared.next /\ shared'.written = consumer.frontier
      /\ shared'.stop = shared.stop
  BY <1>0, <1>1, <1>n DEF WriteTypes
<1>7. \A t \in Threads : Holds(t)' <=> Holds(t) BY <1>1 DEF Holds
<1>8. WriteTypes' BY <1>0, <1>1, <1>4, <1>6 DEF WriteTypes
<1>9. WithThreads' BY <1>1, <1>5, <1>6, <1>7 DEF WriteInv, WithThreads
<1>10. InChannel' BY <1>1, <1>5, <1>6, <1>7 DEF WriteInv, InChannel
<1>11. WithWriter' BY <1>1, <1>5, <1>6, <1>7 DEF WriteInv, WithWriter
<1>12. InWindow'
  <2>1. ~shared.stop =>
          /\ \A t \in Threads : worker[t].pc \in {"parse", "send"} =>
               worker[t].file <= consumer.frontier + Write!Window
          /\ \A i \in 1..Len(channel) : channel[i].file <= consumer.frontier + Write!Window
    BY <1>n DEF WriteInv, InWindow
  <2>2. consumer.frontier <= consumer.frontier BY <1>n
  <2>3. QED BY <1>1, <1>5, <1>6, <1>n, <2>1, <2>2 DEF WriteInv, InWindow
<1>13. QED BY <1>8, <1>9, <1>10, <1>11, <1>12 DEF WriteInv

LEMMA WriterMoves ==
  ASSUME WriteInv, NEW pc \in {"receive", "done", "failed", "panicked"},
         consumer' = [consumer EXCEPT !.pc = pc], UNCHANGED <<job, shared, worker, channel>>
  PROVE  WriteInv'
<1>1. consumer \in Writers BY DEF WriteInv, WriteTypes
<1>2. /\ consumer' \in Writers /\ consumer'.pending = consumer.pending
      /\ consumer'.frontier = consumer.frontier
  BY <1>1 DEF Writers
<1>3. QED BY <1>2, WriterKeeps

LEMMA WriteWrites ==
  ASSUME WriteInv, Write!ConsumerStep
  PROVE  WriteInv'
<1>1. ASSUME NEW t \in Threads, Write!Spawn(t) PROVE WriteInv'
  <2>1. /\ UNCHANGED <<job, shared, channel, consumer>>
        /\ worker' = [worker EXCEPT ![t].pc = "check"]
    BY <1>1 DEF Write!Spawn
  <2>2. /\ worker' \in [Threads -> Parsers] /\ \A u \in Threads \ {t} : worker'[u] = worker[u]
        /\ worker'[t].pc = "check" /\ worker'[t].file = worker[t].file
    BY <2>1, ParserGoes DEF WriteInv, WriteTypes
  <2>3. ~Holds(t)' /\ worker'[t].pc \notin {"parse", "send"} BY <2>2 DEF Holds
  <2>4. QED BY <2>1, <2>2, <2>3, ParserKeeps
<1>2. ASSUME Write!SpawnFails PROVE WriteInv'
  <2>1. UNCHANGED <<job, shared, worker>> /\ Write!Leaves(TRUE) BY <1>2 DEF Write!SpawnFails
  <2>2. QED BY <2>1, WriterLeaves
<1>3. ASSUME Write!AllSpawned PROVE WriteInv'
  <2>1. /\ UNCHANGED <<job, shared, worker, channel>>
        /\ consumer' = [consumer EXCEPT !.pc = "receive"]
    BY <1>3 DEF Write!AllSpawned
  <2>2. QED BY <2>1, WriterMoves
<1>4. ASSUME Write!Drain PROVE WriteInv'
  <2>1. UNCHANGED <<job, shared, worker, channel>> BY <1>4 DEF Write!Drain
  <2>2. \/ consumer' = [consumer EXCEPT !.pc = "receive"]
        \/ \E r \in consumer.pending : r.file = consumer.frontier + 1 /\ Write!Joins(r)
    BY <1>4 DEF Write!Drain
  <2>3. ASSUME NEW r \in consumer.pending, r.file = consumer.frontier + 1, Write!Joins(r)
        PROVE  WriteInv'
    BY <2>1, <2>3, WriteJoins
  <2>4. QED BY <2>1, <2>2, <2>3, WriterMoves
<1>5. ASSUME Write!Fail PROVE WriteInv'
  <2>1. /\ UNCHANGED <<job, worker>> /\ Write!Leaves(TRUE)
        /\ shared' = [shared EXCEPT !.stop = TRUE]
    BY <1>5 DEF Write!Fail
  <2>2. QED BY <2>1, WriterLeaves
<1>6. ASSUME Write!Close PROVE WriteInv'
  <2>1. UNCHANGED <<job, shared, worker>> /\ Write!Leaves(FALSE) BY <1>6 DEF Write!Close
  <2>2. QED BY <2>1, WriterLeaves
<1>7. ASSUME Write!Join PROVE WriteInv'
  <2>1. UNCHANGED <<job, shared, worker, channel>> BY <1>7 DEF Write!Join
  <2>2. \E pc \in {"done", "failed", "panicked"} : consumer' = [consumer EXCEPT !.pc = pc]
    BY <1>7 DEF Write!Join
  <2>3. QED BY <2>1, <2>2, WriterMoves
<1>8. QED
  BY <1>1, <1>2, <1>3, <1>4, <1>5, <1>6, <1>7, WriteReceives, WriteCommits
     DEF Write!ConsumerStep

LEMMA WriteStep ==
  ASSUME WriteInv, Write!ConsumerStep \/ \E t \in Threads : Write!WorkerStep(t)
  PROVE  WriteInv'
BY WriteWrites, WriteWorks

\* Files on their way are different numbers of the window, so that the channel
\* has room for all of them.
LEMMA WindowHoldsAll == ASSUME WriteInv PROVE Write!RunAheadIsBounded
<1>0. WriteTypes BY DEF WriteInv
<1> DEFINE Sending == {t \in Threads : worker[t].pc = "send"}
<1>n. /\ Write!Window \in Nat /\ shared.written \in Nat /\ Len(channel) \in Nat
      /\ consumer.frontier \in Nat /\ shared.written <= consumer.frontier
      /\ \A t \in Threads : worker[t].file \in Nat
      /\ \A i \in 1..Len(channel) : channel[i].file \in Nat
  BY <1>0, WriteNumbers, WriteJob DEF WriteInv, InWindow
<1>1. ASSUME ~shared.stop PROVE Len(channel) + Cardinality(Sending) <= Write!Window
  <2> DEFINE W == (shared.written + 1)..(shared.written + Write!Window)
             files == [i \in 1..Len(channel) |-> channel[i].file]
             C == {files[i] : i \in 1..Len(channel)}
  <2>1. IsFiniteSet(W) /\ Cardinality(W) = Write!Window
    <3>1. /\ shared.written + 1 \in Int /\ shared.written + Write!Window \in Int BY <1>n
    <3>2. /\ IsFiniteSet(W)
          /\ Cardinality(W) = IF shared.written + 1 > shared.written + Write!Window THEN 0
                              ELSE (shared.written + Write!Window) - (shared.written + 1) + 1
      BY <3>1, FS_Interval
    <3>3. QED BY <1>n, <3>2
  <2>2. files \in Seq(Nat) /\ Len(files) = Len(channel) BY <1>n
  <2>3. \A i, k \in 1..Len(files) : files[i] = files[k] => i = k
    BY <2>2 DEF WriteInv, InChannel
  <2>4. C = {files[i] : i \in 1..Len(files)} BY <2>2
  <2>5. \A i \in 1..Len(channel) : files[i] = channel[i].file OBVIOUS
  <2>6. C \subseteq W
    <3>1. ASSUME NEW i \in 1..Len(channel) PROVE files[i] \in W
      <4>1. /\ consumer.frontier < channel[i].file
            /\ channel[i].file <= shared.written + Write!Window
        BY <1>1 DEF WriteInv, InChannel, InWindow
      <4>2. QED BY <1>n, <2>5, <4>1
    <3>2. QED BY <3>1
  <2>7. Cardinality(C) = Len(channel)
    <3> HIDE DEF files, C
    <3>1. QED BY <2>2, <2>3, <2>4, CountOfDistinct
  <2>8. IsFiniteSet(W \ C) /\ Cardinality(W \ C) = Write!Window - Len(channel)
    <3> HIDE DEF W, C
    <3>1. W \cap C = C BY <2>6
    <3>2. IsFiniteSet(W \ C) /\ Cardinality(W \ C) = Cardinality(W) - Cardinality(W \cap C)
      BY <2>1, FS_Difference
    <3>3. Cardinality(W \cap C) = Len(channel) BY <2>7, <3>1
    <3>4. QED BY <2>1, <3>2, <3>3
  <2> DEFINE f == [t \in Sending |-> worker[t].file]
  <2>9. ASSUME NEW t \in Sending PROVE worker[t].file \in W \ C
    <3>1. Holds(t) BY DEF Holds
    <3>2. /\ consumer.frontier < worker[t].file
          /\ worker[t].file <= shared.written + Write!Window
          /\ \A i \in 1..Len(channel) : channel[i].file # worker[t].file
      BY <1>1, <3>1 DEF WriteInv, WithThreads, InChannel, InWindow
    <3>3. worker[t].file \in W BY <1>n, <3>2
    <3>4. worker[t].file \notin C BY <2>5, <3>2
    <3>5. QED BY <3>3, <3>4
  <2>10. ASSUME NEW t \in Sending, NEW u \in Sending, f[t] = f[u] PROVE t = u
    <3>1. Holds(t) /\ Holds(u) /\ worker[t].file = worker[u].file BY <2>10 DEF Holds
    <3>2. QED BY <3>1 DEF WriteInv, WithThreads
  <2> HIDE DEF W, C
  <2>11. f \in Injection(Sending, W \ C) BY <2>9, <2>10 DEF Injection, IsInjective
  <2>12. IsFiniteSet(Sending) /\ Cardinality(Sending) <= Cardinality(W \ C)
    <3> HIDE DEF f, Sending
    <3>1. QED BY <2>8, <2>11, FS_Injection
  <2>13. Cardinality(Sending) \in Nat BY <2>12, FS_CardinalityType
  <2> HIDE DEF Sending
  <2>14. QED BY <1>n, <2>8, <2>12, <2>13
<1>2. Write!Cardinality(Sending) = Cardinality(Sending) BY SameCardinality
<1>3. Len(channel) <= Write!Window BY DEF WriteInv, InWindow
<1>4. \A t \in Threads : worker[t].pc \in {"parse", "send"} =>
        shared.stop \/ worker[t].file <= shared.written + Write!Window
  BY DEF WriteInv, InWindow
<1>5. QED BY <1>1, <1>2, <1>3, <1>4 DEF Write!RunAheadIsBounded

(***************************************************************************)
(* The search over a list of files: what is on its way.                    *)
(***************************************************************************)
SearchInv == Len(channel) \in Nat /\ Len(channel) <= Capacity /\ \E S : channel \in Seq(S)

LEMMA SearchStep ==
  ASSUME SearchInv, Search!ConsumerStep \/ \E t \in Threads : Search!WorkerStep(t)
  PROVE  SearchInv'
<1>0. Capacity \in Nat \ {0} BY ComputationAssumption DEF Search!SearchAssumption
<1>1. PICK S : channel \in Seq(S) BY DEF SearchInv
<1>2. CASE UNCHANGED channel BY <1>2 DEF SearchInv
<1>3. CASE channel' = <<>>
  <2>1. channel' \in Seq(S) /\ Len(channel') = 0 BY <1>3, EmptySeq
  <2>2. QED BY <1>0, <2>1 DEF SearchInv
<1>4. CASE channel # <<>> /\ channel' = Tail(channel)
  <2>1. channel' \in Seq(S) /\ Len(channel') = Len(channel) - 1 BY <1>1, <1>4, HeadTailProperties
  <2>2. Len(channel') \in Nat BY <2>1, LenProperties
  <2>3. QED BY <1>0, <2>1, <2>2 DEF SearchInv
<1>5. CASE Len(channel) < Capacity /\ \E e : channel' = Append(channel, e)
  <2>1. PICK e : channel' = Append(channel, e) BY <1>5
  <2> DEFINE T == S \cup {e}
  <2>2. channel \in Seq(T) /\ e \in T
    <3>1. channel \in [1..Len(channel) -> S] /\ Len(channel) \in Nat BY <1>1, LenProperties
    <3>2. channel \in [1..Len(channel) -> T] BY <3>1
    <3>3. QED BY <3>1, <3>2
  <2> HIDE DEF T
  <2>3. channel' \in Seq(T) /\ Len(channel') = Len(channel) + 1
    BY <2>1, <2>2, AppendProperties
  <2>4. QED BY <1>0, <1>5, <2>3 DEF SearchInv
<1>6. ASSUME Search!ConsumerStep
      PROVE  \/ UNCHANGED channel \/ channel' = <<>>
             \/ channel # <<>> /\ channel' = Tail(channel)
  BY <1>6 DEF Search!ConsumerStep, Search!Receive, Search!Drain, Search!HandOver,
              Search!FileDone, Search!Close, Search!Join
<1>7. ASSUME NEW t \in Threads, Search!WorkerStep(t)
      PROVE  \/ UNCHANGED channel
             \/ Len(channel) < Capacity /\ \E e : channel' = Append(channel, e)
  BY <1>7 DEF Search!WorkerStep, Search!CheckStop, Search!Take, Search!Line,
              Search!EndOfFile, Search!Send
<1>8. QED BY <1>2, <1>3, <1>4, <1>5, <1>6, <1>7

LEMMA SearchInit == ASSUME Search!Init PROVE SearchInv
<1>1. channel = <<>> BY DEF Search!Init
<1>2. Capacity \in Nat \ {0} BY ComputationAssumption DEF Search!SearchAssumption
<1>3. channel \in Seq({}) /\ Len(channel) = 0 BY <1>1, EmptySeq
<1>4. QED BY <1>2, <1>3 DEF SearchInv

(***************************************************************************)
(* All of them.                                                            *)
(***************************************************************************)
ThreadsInv ==
  /\ program = "write"  => WriteInv
  /\ program = "search" => SearchInv
  /\ program = "scan"   => ScanInv
  /\ program = "walk"   => WalkInv

LEMMA ThreadsInit == ASSUME Init PROVE ThreadsInv
BY WriteInit, SearchInit, ScanInit, WalkInit DEF Init, ThreadsInv

LEMMA NothingMoves ==
  ASSUME ThreadsInv, UNCHANGED vars
  PROVE  ThreadsInv'
<1>1. UNCHANGED <<program, job, shared, worker, channel, consumer, result>> BY DEF vars
<1>2. ASSUME WriteInv PROVE WriteInv'
  BY <1>1, <1>2 DEF WriteInv, WriteTypes, WithThreads, InChannel, WithWriter, InWindow,
                    Holds, Write!Window
<1>3. ASSUME SearchInv PROVE SearchInv' BY <1>1, <1>3 DEF SearchInv
<1>4. ASSUME ScanInv PROVE ScanInv'
  <2>1. /\ Scan!Files' = Scan!Files /\ Scan!Matches' = Scan!Matches
        /\ Sent' = Sent /\ Senders' = Senders
    BY <1>1 DEF Scan!Files, Scan!Matches, Sent, Senders
  <2>2. \A t : Reading(t)' = Reading(t) /\ Open(t)' = Open(t) BY <1>1 DEF Reading, Open
  <2>3. \A f, n : (IsSent(f, n)' <=> IsSent(f, n)) /\ (IsDue(f, n)' <=> IsDue(f, n))
    BY <1>1, <2>1, <2>2 DEF IsSent, IsDue, IsDueWith
  <2>4. ScanTypes' BY <1>1, <1>4, <2>1 DEF ScanInv, ScanTypes
  <2>5. ScanCounts' BY <1>1, <1>4, <2>1 DEF ScanInv, ScanCounts
  <2>6. ScanPlaces' BY <1>1, <1>4, <2>1, <2>2 DEF ScanInv, ScanPlaces
  <2>7. ScanComplete' BY <1>1, <1>4, <2>1, <2>3 DEF ScanInv, ScanComplete
  <2>8. QED BY <2>4, <2>5, <2>6, <2>7 DEF ScanInv
<1>5. ASSUME WalkInv PROVE WalkInv'
  <2>1. Counted' = Counted /\ Failed' = Failed /\ \A t : Handles(t)' = Handles(t)
    BY <1>1 DEF Counted, Failed, Visited, Handles
  <2>2. WalkTypes' BY <1>1, <1>5 DEF WalkInv, WalkTypes, Walkers, Gathered
  <2>3. WalkPlaces' BY <1>1, <1>5, <2>1 DEF WalkInv, WalkPlaces
  <2>4. WalkCounts' BY <1>1, <1>5, <2>1 DEF WalkInv, WalkCounts
  <2>5. WalkFiles' BY <1>1, <1>5, <2>1 DEF WalkInv, WalkFiles
  <2>6. WalkErrors' BY <1>1, <1>5, <2>1 DEF WalkInv, WalkErrors, ErrorsAre, Own
  <2>7. QED BY <2>2, <2>3, <2>4, <2>5, <2>6 DEF WalkInv
<1>6. QED BY <1>1, <1>2, <1>3, <1>4, <1>5 DEF ThreadsInv

LEMMA ThreadsStep == ASSUME ThreadsInv, [Next]_vars PROVE ThreadsInv'
<1>1. ASSUME SerialStep PROVE ThreadsInv'
  <2>1. program' = program /\ program \in {"route", "deps", "count", "cycles", "paths", "tree"}
    BY <1>1 DEF SerialStep
  <2>2. QED BY <2>1 DEF ThreadsInv
<1>2. ASSUME ConsumerStep \/ \E t \in Threads : WorkerStep(t) PROVE ThreadsInv'
  <2>1. /\ program' = program
        /\ program = "write"  => Write!ConsumerStep \/ \E t \in Threads : Write!WorkerStep(t)
        /\ program = "search" => Search!ConsumerStep \/ \E t \in Threads : Search!WorkerStep(t)
        /\ program = "scan"   => Scan!ConsumerStep \/ \E t \in Threads : Scan!WorkerStep(t)
        /\ program = "walk"   => Walk!ConsumerStep \/ \E t \in Threads : Walk!WorkerStep(t)
    BY <1>2 DEF ConsumerStep, WorkerStep
  <2>2. QED BY <2>1, WriteStep, SearchStep, ScanStep, WalkStep DEF ThreadsInv
<1>3. QED BY <1>1, <1>2, NothingMoves DEF Next

LEMMA ThreadsHold == Spec => []ThreadsInv
BY ThreadsInit, ThreadsStep, PTL DEF Spec

(***************************************************************************)
(* Channels have room for what threads send: no thread of a text search    *)
(* waits for a receiver that waits for the walk to end, and the threads of *)
(* a rebuild stay within two batches of what is stored, with all of their  *)
(* results on the way in a channel of that size.                           *)
(***************************************************************************)
THEOREM ChannelsAlwaysSuffice == Spec => []ChannelsSuffice
<1>1. ASSUME ThreadsInv PROVE ChannelsSuffice
  <2>1. CASE program = "write"
    <3>1. Write!RunAheadIsBounded BY <1>1, <2>1, WindowHoldsAll DEF ThreadsInv
    <3>2. QED BY <2>1, <3>1 DEF ChannelsSuffice
  <2>2. CASE program = "search"
    <3>1. Len(channel) <= Capacity BY <1>1, <2>2 DEF ThreadsInv, SearchInv
    <3>2. QED BY <2>2, <3>1 DEF ChannelsSuffice
  <2>3. CASE program = "scan"
    <3>1. Scan!SendersNeverWait BY <1>1, <2>3, SendersFit DEF ThreadsInv
    <3>2. QED BY <2>3, <3>1 DEF ChannelsSuffice
  <2>4. CASE program \notin {"write", "search", "scan"} BY <2>4 DEF ChannelsSuffice
  <2>5. QED BY <2>1, <2>2, <2>3, <2>4
<1>2. QED BY <1>1, ThreadsHold, PTL

(***************************************************************************)
(* The text search that walks the project (search_files_limited) hands     *)
(* over no match twice and ends with as many as the limit allows; and the  *)
(* walk of an index run (collect_walk_entries) ends with all files and one *)
(* error for each entry that cannot be read, or fails because there are    *)
(* more entries than the cap: whatever the number of threads and the order *)
(* of their steps.                                                         *)
(***************************************************************************)
THEOREM WalkersAreAsOneThread ==
  Spec => [](program \in {"scan", "walk"} => AsOneThread)
<1>1. ASSUME ThreadsInv, program \in {"scan", "walk"} PROVE AsOneThread
  <2>1. CASE program = "scan"
    <3>1. Scan!AsManyAsAllowed BY <1>1, <2>1, AsManyMatches DEF ThreadsInv
    <3>2. QED BY <2>1, <3>1 DEF AsOneThread
  <2>2. CASE program = "walk"
    <3>1. Walk!AllOrTooMany BY <1>1, <2>2, WalkIsWhole DEF ThreadsInv
    <3>2. QED BY <2>2, <3>1 DEF AsOneThread
  <2>3. QED BY <1>1, <2>1, <2>2
<1>2. ThreadsInv => (program \in {"scan", "walk"} => AsOneThread) BY <1>1
<1>3. QED BY <1>2, ThreadsHold, PTL
=============================================================================
