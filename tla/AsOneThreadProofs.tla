-------------------------- MODULE AsOneThreadProofs --------------------------
(***************************************************************************)
(* Proofs that programs with threads and processes give what one thread    *)
(* would give, for any number of threads and any of the jobs that the      *)
(* modules describe.                                                       *)
(***************************************************************************)
EXTENDS ComputationsProofs

(***************************************************************************)
(* The parse pipeline: what is stored.                                     *)
(***************************************************************************)
Stored == Len(result) * job.batch
Active == consumer.pc \in {"spawn", "receive", "drain", "commit"}

\* What is on its way is a file and what its parser gave.
IsArrival(r) == r.file \in Write!Files /\ r.parsed = Write!Parsed(r.file)
FilesOnly ==
  /\ \A t \in Threads : Holds(t) => worker[t].file \in Write!Files
  /\ \A i \in 1..Len(channel) : IsArrival(channel[i])
  /\ \A r \in consumer.pending : IsArrival(r)

\* A file that has been handed out is not lost as long as the writer is there,
\* and a thread only ends after the last one.
OnItsWay(f) ==
  \/ \E t \in Threads : Holds(t) /\ worker[t].file = f
  \/ \E i \in 1..Len(channel) : channel[i].file = f
  \/ \E r \in consumer.pending : r.file = f
NoneLost ==
  Active =>
    /\ ~shared.stop
    /\ \A f \in Write!Files : consumer.frontier < f /\ f < shared.next => OnItsWay(f)
    /\ \A t \in Threads : worker[t].pc = "ended" => job.files < shared.next
    /\ consumer.pc = "spawn" => consumer.pending = {}
    /\ consumer.pc # "spawn" => \E t \in Threads : worker[t].pc # "unborn"
    /\ consumer.pc = "receive" => \A r \in consumer.pending : r.file # consumer.frontier + 1

\* The batch being gathered: the files after the stored ones, up to the frontier.
FilesGathered == {f \in Write!Files : Stored < f /\ f <= consumer.frontier /\ f \notin job.skipped}
BatchSoFar ==
  Active =>
    /\ consumer.frontier <= job.files
    /\ \/ consumer.frontier = Stored + consumer.consumed
       \/ consumer.consumed = 0 /\ consumer.frontier = job.files /\ job.files <= Stored
    /\ consumer.pc = "commit" =>
         /\ consumer.consumed > 0
         /\ consumer.consumed = job.batch \/ consumer.frontier = job.files
         /\ consumer.consumed <= job.batch
    /\ consumer.pc # "commit" =>
         /\ consumer.consumed < job.batch
         /\ consumer.consumed > 0 => consumer.frontier < job.files
    /\ Write!InOrder(consumer.current, FilesGathered)

\* What is stored, and what the writer's end says about it.
StoredSoFar ==
  /\ result \in Seq(Seq(Nat))
  /\ \A k \in 1..Len(result) :
       Write!IsBatch(k) /\ k \notin job.failing /\ Write!InOrder(result[k], Write!BatchFiles(k))
  /\ shared.stop => /\ consumer.failed /\ Stored < job.files
                    /\ Len(result) + 1 \in job.failing
  /\ consumer.pc = "join" /\ ~consumer.failed =>
       job.files <= Stored \/ \E t \in Threads : worker[t].pc = "panicked"
  /\ consumer.pc = "done" => job.files <= Stored

OrderInv == FilesOnly /\ NoneLost /\ BatchSoFar /\ StoredSoFar

LEMMA Multiples ==
  ASSUME NEW n \in Nat, NEW b \in Nat
  PROVE  n * b \in Nat /\ (n + 1) * b = n * b + b /\ ((n + 1) - 1) * b = n * b
OBVIOUS

LEMMA OrderJob ==
  ASSUME WriteTypes
  PROVE  job.files \in Nat \ {0} /\ job.batch \in Nat \ {0} /\ Write!Files = 1..job.files
<1>1. Write!IsRebuild(job) BY ComputationAssumption DEF WriteTypes, Write!ParseAssumption
<1>2. QED BY <1>1 DEF Write!IsRebuild, Write!Files

LEMMA InOrderOfNone == Write!InOrder(<<>>, {})
BY DEF Write!InOrder

\* A larger element is appended.
LEMMA InOrderGrows ==
  ASSUME NEW s \in Seq(Nat), NEW S, Write!InOrder(s, S), NEW f \in Nat, \A g \in S : g < f
  PROVE  Write!InOrder(s \o <<f>>, S \cup {f})
<1> DEFINE a == Append(s, f)
<1>1. a = s \o <<f>> BY AppendIsConcat
<1>2. /\ a \in Seq(Nat) /\ Len(a) = Len(s) + 1 /\ a[Len(s) + 1] = f
      /\ \A i \in 1..Len(s) : a[i] = s[i]
  BY AppendProperties
<1>3. Len(s) \in Nat BY LenProperties
<1>4. /\ \A i \in 1..Len(s) : s[i] \in S
      /\ \A g \in S : \E i \in 1..Len(s) : s[i] = g
      /\ \A i, k \in 1..Len(s) : i < k => s[i] < s[k]
  BY DEF Write!InOrder
<1> HIDE DEF a
<1>5. \A i \in 1..Len(a) : i \in 1..Len(s) \/ i = Len(s) + 1 BY <1>2, <1>3
<1>6. {a[i] : i \in 1..Len(a)} = S \cup {f}
  <2>1. \A i \in 1..Len(a) : a[i] \in S \cup {f} BY <1>2, <1>4, <1>5
  <2>2. ASSUME NEW g \in S \cup {f} PROVE \E i \in 1..Len(a) : a[i] = g
    <3>1. CASE g = f
      <4>1. Len(s) + 1 \in 1..Len(a) BY <1>2, <1>3
      <4>2. QED BY <1>2, <3>1, <4>1
    <3>2. CASE g \in S
      <4>1. PICK i \in 1..Len(s) : s[i] = g BY <1>4, <3>2
      <4>2. i \in 1..Len(a) /\ a[i] = g BY <1>2, <1>3, <4>1
      <4>3. QED BY <4>2
    <3>3. QED BY <3>1, <3>2
  <2>3. QED BY <2>1, <2>2
<1>7. ASSUME NEW i \in 1..Len(a), NEW k \in 1..Len(a), i < k PROVE a[i] < a[k]
  <2>1. i \in 1..Len(s) BY <1>2, <1>3, <1>7
  <2>2. CASE k \in 1..Len(s) BY <1>2, <1>4, <1>7, <2>1, <2>2
  <2>3. CASE k = Len(s) + 1 BY <1>2, <1>4, <2>1, <2>3
  <2>4. QED BY <1>5, <2>2, <2>3
<1>8. Write!InOrder(a, S \cup {f}) BY <1>6, <1>7 DEF Write!InOrder
<1>9. QED BY <1>1, <1>8

LEMMA OrderInit == ASSUME Write!Init PROVE OrderInv
<1>1. WriteTypes BY WriteInit DEF WriteInv
<1>2. /\ channel = <<>> /\ consumer.pending = {} /\ consumer.frontier = 0
      /\ consumer.consumed = 0 /\ consumer.current = <<>> /\ consumer.pc = "spawn"
      /\ result = <<>> /\ shared.next = 1 /\ shared.stop = FALSE
      /\ \A t \in Threads : worker[t].pc = "unborn"
  BY DEF Write!Init
<1>3. job.files \in Nat \ {0} /\ job.batch \in Nat \ {0} /\ Write!Files = 1..job.files
  BY <1>1, OrderJob
<1>4. \A t \in Threads : ~Holds(t) BY <1>2 DEF Holds
<1>5. Len(result) = 0 /\ Stored = 0 BY <1>2, <1>3 DEF Stored
<1>6. FilesOnly BY <1>2, <1>4 DEF FilesOnly
<1>7. NoneLost BY <1>2, <1>3 DEF NoneLost
<1>8. FilesGathered = {} BY <1>2, <1>3, <1>5 DEF FilesGathered
<1>9. BatchSoFar BY <1>2, <1>3, <1>5, <1>8, InOrderOfNone DEF BatchSoFar
<1>10. StoredSoFar BY <1>2 DEF StoredSoFar
<1>11. QED BY <1>6, <1>7, <1>9, <1>10 DEF OrderInv

LEMMA ArrivalsKept ==
  ASSUME FilesOnly, UNCHANGED <<job, channel, consumer>>,
         \A t \in Threads : Holds(t)' => worker'[t].file \in Write!Files
  PROVE  FilesOnly'
<1>1. Write!Files' = Write!Files BY DEF Write!Files
<1>2. ASSUME NEW r, IsArrival(r) PROVE IsArrival(r)' BY <1>1, <1>2 DEF IsArrival, Write!Parsed
<1>3. ASSUME NEW i \in 1..Len(channel) PROVE IsArrival(channel[i])'
  <2>1. IsArrival(channel[i]) BY DEF FilesOnly
  <2>2. QED BY <1>1, <2>1 DEF IsArrival, Write!Parsed
<1>4. ASSUME NEW r \in consumer.pending PROVE IsArrival(r)' BY <1>2 DEF FilesOnly
<1>5. QED BY <1>1, <1>3, <1>4 DEF FilesOnly

LEMMA StoredKept ==
  ASSUME StoredSoFar, UNCHANGED <<job, consumer, result>>, shared'.stop = shared.stop,
         (\E t \in Threads : worker[t].pc = "panicked") => \E t \in Threads : worker'[t].pc = "panicked"
  PROVE  StoredSoFar'
BY DEF StoredSoFar, Stored, Write!IsBatch, Write!BatchFiles, Write!Files, Write!InOrder

\* Steps in which a thread goes on with its file or without one.
LEMMA OrderKeeps ==
  ASSUME OrderInv, NEW t \in Threads, UNCHANGED <<job, shared, channel, consumer, result>>,
         \A u \in Threads \ {t} : worker'[u] = worker[u], worker'[t].file = worker[t].file,
         Holds(t)' => Holds(t), Active /\ Holds(t) => Holds(t)',
         worker'[t].pc = "ended" => ~Active \/ shared.stop,
         worker'[t].pc # "unborn", worker[t].pc = "panicked" => worker'[t].pc = "panicked"
  PROVE  OrderInv'
<1>1. \A u \in Threads : worker'[u].file = worker[u].file /\ (Holds(u)' => Holds(u))
                         /\ (Active /\ Holds(u) => Holds(u)')
  <2>1. \A u \in Threads \ {t} : Holds(u)' <=> Holds(u) BY DEF Holds
  <2>2. QED BY <2>1
<1>2. /\ (Active' <=> Active) /\ Stored' = Stored /\ Write!Files' = Write!Files
      /\ FilesGathered' = FilesGathered
  BY DEF Active, Stored, Write!Files, FilesGathered
<1>3. FilesOnly'
  BY <1>1, ArrivalsKept DEF OrderInv, FilesOnly
<1>4. NoneLost'
  <2>1. ASSUME Active, NEW f, OnItsWay(f) PROVE OnItsWay(f)' BY <1>1, <2>1 DEF OnItsWay
  <2>2. ASSUME Active PROVE \A u \in Threads : worker'[u].pc = "ended" => job.files < shared.next
    BY <2>2 DEF OrderInv, NoneLost
  <2>3. ASSUME Active, consumer.pc # "spawn" PROVE \E u \in Threads : worker'[u].pc # "unborn"
    OBVIOUS
  <2>4. QED BY <1>2, <2>1, <2>2, <2>3 DEF OrderInv, NoneLost
<1>5. BatchSoFar' BY <1>2 DEF OrderInv, BatchSoFar, Write!InOrder
<1>6. StoredSoFar'
  <2>1. (\E u \in Threads : worker[u].pc = "panicked") => \E u \in Threads : worker'[u].pc = "panicked"
    OBVIOUS
  <2>2. QED BY <2>1, StoredKept DEF OrderInv
<1>7. QED BY <1>3, <1>4, <1>5, <1>6 DEF OrderInv

LEMMA OrderTakes ==
  ASSUME WriteInv, OrderInv, NEW t \in Threads, Write!Take(t)
  PROVE  OrderInv'
<1>0. WriteTypes BY DEF WriteInv
<1> DEFINE r == IF shared.next \in Write!Files THEN [pc |-> "wait", file |-> shared.next]
                ELSE [pc |-> "ended", file |-> 0]
<1>1. /\ UNCHANGED <<job, channel, consumer, result>> /\ worker[t].pc = "take"
      /\ shared' = [shared EXCEPT !.next = @ + 1] /\ worker' = [worker EXCEPT ![t] = r]
  BY DEF Write!Take
<1>2. /\ shared'.next = shared.next + 1 /\ shared'.stop = shared.stop
  BY <1>0, <1>1 DEF WriteTypes
<1>3. /\ shared.next \in Write!Files => r.pc = "wait" /\ r.file = shared.next
      /\ shared.next \notin Write!Files => r.pc = "ended"
  OBVIOUS
<1> HIDE DEF r
<1>4. worker'[t] = r /\ \A u \in Threads \ {t} : worker'[u] = worker[u]
  BY <1>0, <1>1 DEF WriteTypes
<1>5. \A u \in Threads \ {t} : Holds(u)' <=> Holds(u) BY <1>4 DEF Holds
<1>6. ~Holds(t) BY <1>1 DEF Holds
<1>7. Holds(t)' <=> shared.next \in Write!Files BY <1>3, <1>4 DEF Holds
<1>8. /\ (Active' <=> Active) /\ Stored' = Stored /\ Write!Files' = Write!Files
      /\ FilesGathered' = FilesGathered
  BY <1>1 DEF Active, Stored, Write!Files, FilesGathered
<1>n. /\ shared.next \in Nat /\ consumer.frontier \in Nat /\ consumer.frontier < shared.next
      /\ job.files \in Nat /\ Write!Files = 1..job.files
  BY <1>0, WriteNumbers, OrderJob DEF WriteInv, InWindow
<1>9. FilesOnly'
  <2>1. \A u \in Threads : Holds(u)' => worker'[u].file \in Write!Files
    BY <1>3, <1>4, <1>5, <1>7 DEF OrderInv, FilesOnly
  <2>2. QED BY <1>1, <2>1, ArrivalsKept DEF OrderInv
<1>10. NoneLost'
  <2>1. ASSUME NEW f, OnItsWay(f) PROVE OnItsWay(f)'
    BY <1>1, <1>4, <1>5, <1>6, <2>1 DEF OnItsWay
  <2>2. ASSUME NEW f \in Write!Files, f = shared.next PROVE OnItsWay(f)'
    <3>1. Holds(t)' /\ worker'[t].file = f BY <1>3, <1>4, <1>7, <2>2
    <3>2. QED BY <3>1 DEF OnItsWay
  <2>3. ASSUME Active PROVE \A u \in Threads : worker'[u].pc = "ended" => job.files < shared.next + 1
    <3>1. \A u \in Threads \ {t} : worker'[u].pc = "ended" => job.files < shared.next
      BY <1>4, <2>3 DEF OrderInv, NoneLost
    <3>2. worker'[t].pc = "ended" => job.files < shared.next BY <1>3, <1>4, <1>n
    <3>3. QED BY <1>n, <3>1, <3>2
  <2>4. worker'[t].pc # "unborn" BY <1>3, <1>4
  <2>5. ASSUME Active, NEW f \in Write!Files, consumer.frontier < f, f < shared.next + 1
        PROVE  OnItsWay(f)'
    <3>1. CASE f = shared.next BY <2>2, <3>1
    <3>2. CASE f < shared.next BY <2>1, <2>5, <3>2 DEF OrderInv, NoneLost
    <3>3. QED BY <1>n, <2>5, <3>1, <3>2
  <2>6. QED BY <1>1, <1>2, <1>8, <2>3, <2>4, <2>5 DEF OrderInv, NoneLost
<1>11. BatchSoFar' BY <1>1, <1>8 DEF OrderInv, BatchSoFar, Write!InOrder
<1>12. StoredSoFar'
  <2>1. (\E u \in Threads : worker[u].pc = "panicked") => \E u \in Threads : worker'[u].pc = "panicked"
    BY <1>1, <1>4
  <2>2. QED BY <1>1, <1>2, <2>1, StoredKept DEF OrderInv
<1>13. QED BY <1>9, <1>10, <1>11, <1>12 DEF OrderInv

LEMMA OrderSends ==
  ASSUME WriteInv, OrderInv, NEW t \in Threads, Write!Send(t), consumer.pc # "join"
  PROVE  OrderInv'
<1>0. WriteTypes BY DEF WriteInv
<1> DEFINE e == [file |-> worker[t].file, parsed |-> Write!Parsed(worker[t].file)]
<1>1. /\ UNCHANGED <<job, shared, consumer, result>> /\ worker[t].pc = "send"
      /\ worker' = [worker EXCEPT ![t].pc = "check"] /\ channel' = Append(channel, e)
  BY DEF Write!Send, Write!Goes
<1>2. e.file = worker[t].file /\ e.parsed = Write!Parsed(worker[t].file) OBVIOUS
<1>3. e \in Arrivals
  <2>1. worker[t].file \in Nat BY <1>0, WriteNumbers
  <2>2. Write!Parsed(worker[t].file) \in Seq(Nat) BY <2>1 DEF Write!Parsed
  <2>3. QED BY <2>1, <2>2 DEF Arrivals
<1> HIDE DEF e
<1>4. /\ Len(channel') = Len(channel) + 1 /\ Len(channel) \in Nat
      /\ \A i \in 1..Len(channel) : channel'[i] = channel[i]
      /\ channel'[Len(channel) + 1] = e
  BY <1>0, <1>1, <1>3, AppendProperties, LenProperties DEF WriteTypes
<1>5. /\ \A u \in Threads \ {t} : worker'[u] = worker[u]
      /\ worker'[t].pc = "check" /\ worker'[t].file = worker[t].file
  BY <1>0, <1>1, ParserGoes DEF WriteTypes
<1>6. Holds(t) /\ ~Holds(t)' /\ \A u \in Threads \ {t} : Holds(u)' <=> Holds(u)
  BY <1>1, <1>5 DEF Holds
<1>7. /\ (Active' <=> Active) /\ Stored' = Stored /\ Write!Files' = Write!Files
      /\ FilesGathered' = FilesGathered
  BY <1>1 DEF Active, Stored, Write!Files, FilesGathered
<1>8. FilesOnly'
  <2>1. IsArrival(e) BY <1>2, <1>6 DEF OrderInv, FilesOnly, IsArrival
  <2>2. ASSUME NEW i \in 1..Len(channel') PROVE IsArrival(channel[i])'
    <3>1. CASE i = Len(channel) + 1
      <4>1. channel'[i] = e BY <1>4, <3>1
      <4>2. QED BY <1>1, <2>1, <4>1 DEF IsArrival, Write!Parsed, Write!Files
    <3>2. CASE i \in 1..Len(channel)
      <4>1. channel'[i] = channel[i] /\ IsArrival(channel[i]) BY <1>4, <3>2 DEF OrderInv, FilesOnly
      <4>2. QED BY <1>1, <4>1 DEF IsArrival, Write!Parsed, Write!Files
    <3>3. QED BY <1>4, <3>1, <3>2
  <2>4. ASSUME NEW r \in consumer.pending PROVE IsArrival(r)'
    <3>1. IsArrival(r) BY DEF OrderInv, FilesOnly
    <3>2. QED BY <1>1, <3>1 DEF IsArrival, Write!Parsed, Write!Files
  <2>5. \A u \in Threads : Holds(u)' => worker'[u].file \in Write!Files
    BY <1>5, <1>6 DEF OrderInv, FilesOnly
  <2>6. consumer' = consumer BY <1>1
  <2>7. QED BY <1>7, <2>2, <2>4, <2>5, <2>6 DEF FilesOnly
<1>9. NoneLost'
  <2>1. ASSUME NEW f, OnItsWay(f) PROVE OnItsWay(f)'
    <3>1. CASE \E u \in Threads : Holds(u) /\ worker[u].file = f
      <4>1. PICK u \in Threads : Holds(u) /\ worker[u].file = f BY <3>1
      <4>2. CASE u = t
        <5>1. Len(channel) + 1 \in 1..Len(channel') /\ channel'[Len(channel) + 1].file = f
          BY <1>2, <1>4, <4>1, <4>2
        <5>2. QED BY <5>1 DEF OnItsWay
      <4>3. CASE u # t BY <1>5, <1>6, <4>1, <4>3 DEF OnItsWay
      <4>4. QED BY <4>2, <4>3
    <3>2. CASE \E i \in 1..Len(channel) : channel[i].file = f
      <4>1. PICK i \in 1..Len(channel) : channel[i].file = f BY <3>2
      <4>2. i \in 1..Len(channel') /\ channel'[i].file = f BY <1>4, <4>1
      <4>3. QED BY <4>2 DEF OnItsWay
    <3>3. CASE \E r \in consumer.pending : r.file = f BY <1>1, <3>3 DEF OnItsWay
    <3>4. QED BY <2>1, <3>1, <3>2, <3>3 DEF OnItsWay
  <2>2. ASSUME Active PROVE \A u \in Threads : worker'[u].pc = "ended" => job.files < shared.next
    BY <1>5, <2>2 DEF OrderInv, NoneLost
  <2>3. worker'[t].pc # "unborn" BY <1>5
  <2>4. QED BY <1>1, <1>7, <2>1, <2>2, <2>3 DEF OrderInv, NoneLost
<1>10. BatchSoFar' BY <1>1, <1>7 DEF OrderInv, BatchSoFar, Write!InOrder
<1>11. StoredSoFar'
  <2>1. (\E u \in Threads : worker[u].pc = "panicked") => \E u \in Threads : worker'[u].pc = "panicked"
    BY <1>1, <1>5
  <2>2. QED BY <1>1, <2>1, StoredKept DEF OrderInv
<1>12. QED BY <1>8, <1>9, <1>10, <1>11 DEF OrderInv

LEMMA OrderWorks ==
  ASSUME WriteInv, OrderInv, NEW t \in Threads, Write!WorkerStep(t)
  PROVE  OrderInv'
<1>0. worker \in [Threads -> Parsers] BY DEF WriteInv, WriteTypes
<1>1. ASSUME Write!CheckStop(t) PROVE OrderInv'
  <2>1. PICK pc \in {"ended", "take"} :
          worker' = [worker EXCEPT ![t].pc = pc] /\ (pc = "ended" => shared.stop)
    BY <1>1 DEF Write!CheckStop, Write!Goes
  <2>2. UNCHANGED <<job, shared, channel, consumer, result>> /\ worker[t].pc = "check"
    BY <1>1 DEF Write!CheckStop, Write!Goes
  <2>3. /\ \A u \in Threads \ {t} : worker'[u] = worker[u]
        /\ worker'[t].pc = pc /\ worker'[t].file = worker[t].file
    BY <1>0, <2>1, ParserGoes
  <2>4. ~Holds(t)' /\ ~Holds(t) BY <2>2, <2>3 DEF Holds
  <2>5. worker'[t].pc # "unborn" /\ worker[t].pc # "panicked" BY <2>2, <2>3
  <2>6. worker'[t].pc = "ended" => shared.stop BY <2>1, <2>3
  <2>7. QED BY <2>2, <2>3, <2>4, <2>5, <2>6, OrderKeeps
<1>2. ASSUME Write!Wait(t) PROVE OrderInv'
  <2>1. /\ UNCHANGED <<job, shared, channel, consumer, result>> /\ worker[t].pc = "wait"
        /\ worker' = [worker EXCEPT ![t].pc = "parse"]
    BY <1>2 DEF Write!Wait, Write!Goes
  <2>2. /\ \A u \in Threads \ {t} : worker'[u] = worker[u]
        /\ worker'[t].pc = "parse" /\ worker'[t].file = worker[t].file
    BY <1>0, <2>1, ParserGoes
  <2>3. Holds(t)' /\ Holds(t) BY <2>1, <2>2 DEF Holds
  <2>4. worker'[t].pc \notin {"unborn", "ended"} /\ worker[t].pc # "panicked" BY <2>1, <2>2
  <2>5. QED BY <2>1, <2>2, <2>3, <2>4, OrderKeeps
<1>3. ASSUME Write!Parse(t) PROVE OrderInv'
  <2>1. PICK pc \in {"panicked", "send"} : worker' = [worker EXCEPT ![t].pc = pc]
    BY <1>3 DEF Write!Parse, Write!Goes
  <2>2. UNCHANGED <<job, shared, channel, consumer, result>> /\ worker[t].pc = "parse"
    BY <1>3 DEF Write!Parse, Write!Goes
  <2>3. /\ \A u \in Threads \ {t} : worker'[u] = worker[u]
        /\ worker'[t].pc = pc /\ worker'[t].file = worker[t].file
    BY <1>0, <2>1, ParserGoes
  <2>4. Holds(t)' /\ Holds(t) BY <2>2, <2>3 DEF Holds
  <2>5. worker'[t].pc \notin {"unborn", "ended"} /\ worker[t].pc # "panicked" BY <2>2, <2>3
  <2>6. QED BY <2>2, <2>3, <2>4, <2>5, OrderKeeps
<1>4. ASSUME Write!Send(t), consumer.pc = "join" PROVE OrderInv'
  <2>1. /\ UNCHANGED <<job, shared, channel, consumer, result>> /\ worker[t].pc = "send"
        /\ worker' = [worker EXCEPT ![t].pc = "ended"]
    BY <1>4 DEF Write!Send, Write!Goes
  <2>2. /\ \A u \in Threads \ {t} : worker'[u] = worker[u]
        /\ worker'[t].pc = "ended" /\ worker'[t].file = worker[t].file
    BY <1>0, <2>1, ParserGoes
  <2>3. ~Holds(t)' /\ ~Active BY <1>4, <2>2 DEF Holds, Active
  <2>4. worker'[t].pc # "unborn" /\ worker[t].pc # "panicked" BY <2>1, <2>2
  <2>5. QED BY <2>1, <2>2, <2>3, <2>4, OrderKeeps
<1>5. QED BY <1>1, <1>2, <1>3, <1>4, OrderTakes, OrderSends DEF Write!WorkerStep

\* The writer leaves.
LEMMA OrderLeaves ==
  ASSUME WriteInv, OrderInv, NEW failed \in BOOLEAN, UNCHANGED <<job, worker, result>>,
         Write!Leaves(failed), shared' = shared \/ shared' = [shared EXCEPT !.stop = TRUE],
         shared'.stop => failed /\ Stored < job.files /\ Len(result) + 1 \in job.failing,
         ~failed => job.files <= Stored \/ \E t \in Threads : worker[t].pc = "panicked"
  PROVE  OrderInv'
<1>1. consumer \in Writers BY DEF WriteInv, WriteTypes
<1>2. consumer' = [consumer EXCEPT !.pc = "join", !.failed = failed, !.pending = {},
                                   !.current = <<>>]
  BY DEF Write!Leaves
<1>3. consumer'.pc = "join" /\ consumer'.failed = failed /\ consumer'.pending = {}
  BY <1>1, <1>2 DEF Writers
<1>4. channel' = <<>> BY DEF Write!Leaves
<1>5. ~Active' BY <1>3 DEF Active
<1>6. \A u \in Threads : Holds(u)' <=> Holds(u) BY DEF Holds
<1>7. FilesOnly'
  <2>1. Len(channel') = 0 BY <1>4
  <2>2. Write!Files' = Write!Files BY DEF Write!Files
  <2>3. \A u \in Threads : Holds(u)' => worker'[u].file \in Write!Files'
    BY <1>6, <2>2 DEF OrderInv, FilesOnly
  <2>4. \A i \in 1..Len(channel') : FALSE BY <2>1
  <2>5. QED BY <1>3, <2>3, <2>4 DEF FilesOnly
<1>8. NoneLost' BY <1>5 DEF NoneLost
<1>9. BatchSoFar' BY <1>5 DEF BatchSoFar
<1>10. Stored' = Stored BY DEF Stored
<1>11. StoredSoFar'
  BY <1>3, <1>10 DEF OrderInv, StoredSoFar, Write!IsBatch, Write!BatchFiles, Write!Files,
                     Write!InOrder
<1>12. QED BY <1>7, <1>8, <1>9, <1>11 DEF OrderInv

\* The end of the channel is that of the last file, unless a parser panicked.
LEMMA AllConsumed ==
  ASSUME WriteInv, OrderInv, Write!Close
  PROVE  job.files <= Stored \/ \E t \in Threads : worker[t].pc = "panicked"
<1> SUFFICES ASSUME \A t \in Threads : worker[t].pc # "panicked" PROVE job.files <= Stored
  OBVIOUS
<1>0. WriteTypes BY DEF WriteInv
<1>1. consumer.pc = "receive" /\ channel = <<>> /\ Write!Running = {} BY DEF Write!Close
<1>2. Active BY <1>1 DEF Active
<1>n. /\ job.files \in Nat \ {0} /\ Write!Files = 1..job.files /\ consumer.frontier \in Nat
      /\ consumer.consumed \in Nat /\ shared.next \in Nat
  BY <1>0, OrderJob, WriteNumbers
<1>3. \A t \in Threads : worker[t].pc \in {"unborn", "ended"}
  BY <1>1 DEF Write!Running, Write!Started
<1>4. \A t \in Threads : ~Holds(t) BY <1>3 DEF Holds
<1>5. job.files < shared.next
  <2>1. PICK t \in Threads : worker[t].pc # "unborn" BY <1>1, <1>2 DEF OrderInv, NoneLost
  <2>2. worker[t].pc = "ended" BY <1>3, <2>1
  <2>3. QED BY <1>2, <2>2 DEF OrderInv, NoneLost
<1>6. ~(consumer.frontier < job.files)
  <2>1. SUFFICES ASSUME consumer.frontier < job.files PROVE FALSE OBVIOUS
  <2> DEFINE f == consumer.frontier + 1
  <2>2. f \in Write!Files /\ consumer.frontier < f /\ f < shared.next BY <1>n, <1>5, <2>1
  <2>3. OnItsWay(f) BY <1>2, <2>2 DEF OrderInv, NoneLost
  <2>4. \E r \in consumer.pending : r.file = f
    <3>1. Len(channel) = 0 BY <1>1
    <3>2. QED BY <1>4, <2>3, <3>1 DEF OnItsWay
  <2>5. QED BY <1>1, <1>2, <2>4 DEF OrderInv, NoneLost
<1>7. consumer.frontier = job.files BY <1>2, <1>6, <1>n DEF OrderInv, BatchSoFar
<1>8. consumer.consumed = 0 BY <1>1, <1>2, <1>6, <1>n DEF OrderInv, BatchSoFar
<1>9. Stored \in Nat
  <2>1. Len(result) \in Nat BY LenProperties DEF OrderInv, StoredSoFar
  <2>2. QED BY <1>0, <2>1, OrderJob, Multiples DEF Stored
<1>10. QED BY <1>2, <1>7, <1>8, <1>9, <1>n DEF OrderInv, BatchSoFar

LEMMA OrderCommits ==
  ASSUME WriteInv, OrderInv, Write!Commit
  PROVE  OrderInv'
<1>0. WriteTypes BY DEF WriteInv
<1>1. /\ UNCHANGED <<job, worker, channel>> /\ consumer.pc = "commit"
      /\ consumer' = [consumer EXCEPT !.pc = "drain", !.consumed = 0, !.current = <<>>]
      /\ shared' = [shared EXCEPT !.written = consumer.frontier]
      /\ result' = Append(result, consumer.current) /\ Len(result) + 1 \notin job.failing
  BY DEF Write!Commit, Write!Fails
<1>2. /\ consumer'.pc = "drain" /\ consumer'.consumed = 0 /\ consumer'.current = <<>>
      /\ consumer'.pending = consumer.pending /\ consumer'.frontier = consumer.frontier
      /\ consumer'.failed = consumer.failed
  BY <1>0, <1>1 DEF WriteTypes, Writers
<1>3. shared'.next = shared.next /\ shared'.stop = shared.stop BY <1>0, <1>1 DEF WriteTypes
<1>4. Active /\ Active' BY <1>1, <1>2 DEF Active
<1>n. /\ job.files \in Nat \ {0} /\ job.batch \in Nat \ {0} /\ Write!Files = 1..job.files
      /\ consumer.frontier \in Nat /\ consumer.consumed \in Nat
      /\ consumer.current \in Seq(Nat)
  BY <1>0, OrderJob, WriteNumbers
<1>5. /\ result' \in Seq(Seq(Nat)) /\ Len(result') = Len(result) + 1 /\ Len(result) \in Nat
      /\ \A k \in 1..Len(result) : result'[k] = result[k]
      /\ result'[Len(result) + 1] = consumer.current
  BY <1>1, <1>n, AppendProperties, LenProperties DEF OrderInv, StoredSoFar
<1>6. Stored \in Nat /\ Stored' = Stored + job.batch
  BY <1>1, <1>5, <1>n, Multiples DEF Stored
<1>7. /\ consumer.frontier <= job.files /\ consumer.consumed > 0
      /\ consumer.frontier = Stored + consumer.consumed /\ consumer.consumed <= job.batch
      /\ consumer.consumed = job.batch \/ consumer.frontier = job.files
  BY <1>1, <1>4, <1>n DEF OrderInv, BatchSoFar
<1>8. Stored < job.files BY <1>6, <1>7, <1>n
<1>9. \A u \in Threads : Holds(u)' <=> Holds(u) BY <1>1 DEF Holds
<1>10. FilesOnly' BY <1>1, <1>2, <1>9 DEF OrderInv, FilesOnly, IsArrival, Write!Files, Write!Parsed
<1>11. NoneLost'
  <2>1. ASSUME NEW f, OnItsWay(f) PROVE OnItsWay(f)' BY <1>1, <1>2, <1>9, <2>1 DEF OnItsWay
  <2>2. Write!Files' = Write!Files BY <1>1 DEF Write!Files
  <2>3. QED BY <1>1, <1>2, <1>3, <1>4, <2>1, <2>2 DEF OrderInv, NoneLost
<1>12. BatchSoFar'
  <2>1. FilesGathered' = {}
    <3>1. \A f : ~(f \in Write!Files /\ Stored + job.batch < f /\ f <= consumer.frontier)
      BY <1>6, <1>7, <1>n
    <3>2. Write!Files' = Write!Files BY <1>1 DEF Write!Files
    <3>3. QED BY <1>2, <1>6, <3>1, <3>2 DEF FilesGathered
  <2>2. Write!InOrder(consumer'.current, FilesGathered')
    BY <1>2, <2>1, InOrderOfNone
  <2>3. /\ consumer.frontier <= job.files
        /\ \/ consumer.frontier = Stored + job.batch + 0
           \/ consumer.frontier = job.files /\ job.files <= Stored + job.batch
        /\ 0 < job.batch
    BY <1>6, <1>7, <1>n
  <2>4. QED BY <1>1, <1>2, <1>6, <2>2, <2>3 DEF BatchSoFar
<1>13. FilesGathered = Write!BatchFiles(Len(result) + 1)
  <2>1. ((Len(result) + 1) - 1) * job.batch = Stored /\ (Len(result) + 1) * job.batch = Stored + job.batch
    BY <1>5, <1>n, Multiples DEF Stored
  <2>2. \A f \in Write!Files : f <= consumer.frontier <=> f <= Stored + job.batch
    BY <1>6, <1>7, <1>n
  <2>3. QED BY <2>1, <2>2 DEF FilesGathered, Write!BatchFiles
<1>14. StoredSoFar'
  <2>1. ASSUME NEW k \in 1..Len(result')
        PROVE  /\ Write!IsBatch(k) /\ k \notin job.failing
               /\ Write!InOrder(result'[k], Write!BatchFiles(k))
    <3>1. CASE k \in 1..Len(result) BY <1>5, <3>1 DEF OrderInv, StoredSoFar
    <3>2. CASE k = Len(result) + 1
      <4>1. Write!IsBatch(k)
        <5>1. (k - 1) * job.batch = Stored BY <1>5, <1>n, <3>2, Multiples DEF Stored
        <5>2. QED BY <1>8, <5>1 DEF Write!IsBatch
      <4>2. Write!InOrder(result'[k], Write!BatchFiles(k))
        BY <1>4, <1>5, <1>13, <3>2 DEF OrderInv, BatchSoFar
      <4>3. QED BY <1>1, <3>2, <4>1, <4>2
    <3>3. QED BY <1>5, <3>1, <3>2
  <2>2. ~shared.stop BY <1>4 DEF OrderInv, NoneLost
  <2>3. ASSUME NEW k \in 1..Len(result')
        PROVE  /\ Write!IsBatch(k)' /\ k \notin job'.failing
               /\ Write!InOrder(result[k], Write!BatchFiles(k))'
    BY <1>1, <2>1 DEF Write!IsBatch, Write!InOrder, Write!BatchFiles, Write!Files
  <2>4. QED BY <1>2, <1>3, <1>5, <2>2, <2>3 DEF StoredSoFar
<1>15. QED BY <1>10, <1>11, <1>12, <1>14 DEF OrderInv

LEMMA OrderReceives ==
  ASSUME WriteInv, OrderInv, Write!Receive
  PROVE  OrderInv'
<1>0. WriteTypes BY DEF WriteInv
<1> DEFINE e == Head(channel)
<1>1. /\ UNCHANGED <<job, shared, worker, result>> /\ consumer.pc = "receive" /\ channel # <<>>
      /\ consumer' = [consumer EXCEPT !.pc = "drain", !.pending = @ \cup {e}]
      /\ channel' = Tail(channel)
  BY DEF Write!Receive
<1>2. /\ Len(channel) \in Nat \ {0} /\ Len(channel') = Len(channel) - 1 /\ e = channel[1]
      /\ \A i \in 1..Len(channel') : channel'[i] = channel[i + 1]
  BY <1>0, <1>1, HeadTailProperties, EmptySeq DEF WriteTypes
<1> HIDE DEF e
<1>3. /\ consumer'.pc = "drain" /\ consumer'.pending = consumer.pending \cup {e}
      /\ consumer'.frontier = consumer.frontier /\ consumer'.consumed = consumer.consumed
      /\ consumer'.current = consumer.current /\ consumer'.failed = consumer.failed
  BY <1>0, <1>1 DEF WriteTypes, Writers
<1>4. Active /\ Active' BY <1>1, <1>3 DEF Active
<1>5. /\ Stored' = Stored /\ Write!Files' = Write!Files /\ FilesGathered' = FilesGathered
  BY <1>1, <1>3 DEF Stored, Write!Files, FilesGathered
<1>6. \A u \in Threads : Holds(u)' <=> Holds(u) BY <1>1 DEF Holds
<1>7. FilesOnly'
  <2>1. ASSUME NEW i \in 1..Len(channel') PROVE IsArrival(channel[i])'
    <3>1. channel'[i] = channel[i + 1] /\ i + 1 \in 1..Len(channel) BY <1>2
    <3>2. IsArrival(channel[i + 1]) BY <3>1 DEF OrderInv, FilesOnly
    <3>3. QED BY <1>1, <3>1, <3>2 DEF IsArrival, Write!Files, Write!Parsed
  <2>2. ASSUME NEW r \in consumer.pending \cup {e} PROVE IsArrival(r)'
    <3>1. IsArrival(r)
      <4>1. 1 \in 1..Len(channel) BY <1>2
      <4>2. QED BY <1>2, <4>1 DEF OrderInv, FilesOnly
    <3>2. QED BY <1>1, <3>1 DEF IsArrival, Write!Files, Write!Parsed
  <2>3. \A u \in Threads : Holds(u)' => worker'[u].file \in Write!Files'
    BY <1>1, <1>5, <1>6 DEF OrderInv, FilesOnly
  <2>4. QED BY <1>3, <2>1, <2>2, <2>3 DEF FilesOnly
<1>8. NoneLost'
  <2>1. ASSUME NEW f, OnItsWay(f) PROVE OnItsWay(f)'
    <3>1. CASE \E u \in Threads : Holds(u) /\ worker[u].file = f
      BY <1>1, <1>6, <3>1 DEF OnItsWay
    <3>2. CASE \E i \in 1..Len(channel) : channel[i].file = f
      <4>1. PICK i \in 1..Len(channel) : channel[i].file = f BY <3>2
      <4>2. CASE i = 1
        <5>1. e \in consumer'.pending /\ e.file = f BY <1>2, <1>3, <4>1, <4>2
        <5>2. QED BY <5>1 DEF OnItsWay
      <4>3. CASE i > 1
        <5>1. i - 1 \in 1..Len(channel') /\ (i - 1) + 1 = i BY <1>2, <4>1, <4>3
        <5>2. channel'[i - 1].file = f BY <1>2, <4>1, <5>1
        <5>3. QED BY <5>1, <5>2 DEF OnItsWay
      <4>4. QED BY <1>2, <4>2, <4>3
    <3>3. CASE \E r \in consumer.pending : r.file = f
      BY <1>3, <3>3 DEF OnItsWay
    <3>4. QED BY <2>1, <3>1, <3>2, <3>3 DEF OnItsWay
  <2>2. QED BY <1>1, <1>3, <1>4, <1>5, <2>1 DEF OrderInv, NoneLost
<1>9. BatchSoFar' BY <1>1, <1>3, <1>4, <1>5 DEF OrderInv, BatchSoFar, Write!InOrder
<1>10. StoredSoFar'
  BY <1>1, <1>3, <1>5 DEF OrderInv, StoredSoFar, Write!IsBatch, Write!BatchFiles, Write!Files,
                          Write!InOrder
<1>11. QED BY <1>7, <1>8, <1>9, <1>10 DEF OrderInv

\* The writer goes on and keeps what it holds.
LEMMA OrderMoves ==
  ASSUME WriteInv, OrderInv, UNCHANGED <<job, shared, worker, channel, result>>,
         NEW pc \in {"receive", "done", "failed", "panicked"},
         consumer' = [consumer EXCEPT !.pc = pc],
         pc = "receive" =>
           /\ consumer.pc \in {"spawn", "drain"}
           /\ \A r \in consumer.pending : r.file # consumer.frontier + 1
           /\ \E t \in Threads : worker[t].pc # "unborn",
         pc = "done" => job.files <= Stored
  PROVE  OrderInv'
<1>1. /\ consumer'.pc = pc /\ consumer'.pending = consumer.pending
      /\ consumer'.frontier = consumer.frontier /\ consumer'.consumed = consumer.consumed
      /\ consumer'.current = consumer.current /\ consumer'.failed = consumer.failed
  BY DEF WriteInv, WriteTypes, Writers
<1>2. /\ Stored' = Stored /\ Write!Files' = Write!Files /\ FilesGathered' = FilesGathered
  BY <1>1 DEF Stored, Write!Files, FilesGathered
<1>3. Active' => Active /\ pc = "receive" BY <1>1 DEF Active
<1>4. \A u \in Threads : Holds(u)' <=> Holds(u) BY DEF Holds
<1>5. FilesOnly' BY <1>1, <1>4 DEF OrderInv, FilesOnly, IsArrival, Write!Files, Write!Parsed
<1>6. NoneLost'
  <2>1. ASSUME NEW f, OnItsWay(f) PROVE OnItsWay(f)' BY <1>1, <1>4, <2>1 DEF OnItsWay
  <2>2. QED BY <1>1, <1>2, <1>3, <2>1 DEF OrderInv, NoneLost
<1>7. BatchSoFar' BY <1>1, <1>2, <1>3 DEF OrderInv, BatchSoFar, Write!InOrder
<1>8. StoredSoFar'
  BY <1>1, <1>2 DEF OrderInv, StoredSoFar, Write!IsBatch, Write!BatchFiles, Write!Files,
                    Write!InOrder
<1>9. QED BY <1>5, <1>6, <1>7, <1>8 DEF OrderInv

\* The next file in order joins the batch.
LEMMA OrderJoins ==
  ASSUME WriteInv, OrderInv, NEW r \in consumer.pending, r.file = consumer.frontier + 1,
         UNCHANGED <<job, shared, worker, channel, result>>, consumer.pc = "drain",
         Write!Joins(r)
  PROVE  OrderInv'
<1>0. WriteTypes BY DEF WriteInv
<1> DEFINE full == consumer.consumed + 1 = job.batch \/ consumer.frontier + 1 = job.files
           pc   == IF full THEN "commit" ELSE "drain"
           c    == consumer.current \o r.parsed
<1>1. consumer' = [consumer EXCEPT !.pc = pc, !.pending = @ \ {r}, !.frontier = @ + 1,
                                   !.consumed = @ + 1, !.current = c]
  BY <1>0 DEF Write!Joins, WriteTypes, Writers
<1>2. pc \in {"commit", "drain"} /\ (pc = "commit" <=> full) OBVIOUS
<1> HIDE DEF pc, c
<1>3. /\ consumer'.pc = pc /\ consumer'.pending = consumer.pending \ {r}
      /\ consumer'.frontier = consumer.frontier + 1 /\ consumer'.current = c
      /\ consumer'.consumed = consumer.consumed + 1 /\ consumer'.failed = consumer.failed
  BY <1>0, <1>1 DEF WriteTypes, Writers
<1>4. Active /\ Active' BY <1>2, <1>3 DEF Active
<1>5. Stored' = Stored /\ Write!Files' = Write!Files BY DEF Stored, Write!Files
<1>6. \A u \in Threads : Holds(u)' <=> Holds(u) BY DEF Holds
<1>n. /\ job.files \in Nat \ {0} /\ job.batch \in Nat \ {0} /\ Write!Files = 1..job.files
      /\ consumer.frontier \in Nat /\ consumer.consumed \in Nat
      /\ consumer.current \in Seq(Nat) /\ shared.next \in Nat
  BY <1>0, OrderJob, WriteNumbers
<1>s. Stored \in Nat
  <2>1. Len(result) \in Nat BY LenProperties DEF OrderInv, StoredSoFar
  <2>2. QED BY <2>1, <1>n, Multiples DEF Stored
<1>7. /\ r.file \in Write!Files /\ r.parsed = Write!Parsed(r.file)
  BY DEF OrderInv, FilesOnly, IsArrival
<1>8. consumer.frontier < job.files BY <1>7, <1>n
<1>9. consumer.frontier = Stored + consumer.consumed /\ consumer.consumed < job.batch
  BY <1>4, <1>8, <1>n DEF OrderInv, BatchSoFar
<1>10. FilesOnly'
  BY <1>3, <1>6 DEF OrderInv, FilesOnly, IsArrival, Write!Files, Write!Parsed
<1>11. NoneLost'
  <2>1. ASSUME NEW f \in Write!Files, consumer.frontier + 1 < f, OnItsWay(f) PROVE OnItsWay(f)'
    <3>1. CASE \E s \in consumer.pending : s.file = f
      <4>1. PICK s \in consumer.pending : s.file = f BY <3>1
      <4>2. s # r BY <1>n, <2>1, <4>1
      <4>3. s \in consumer'.pending BY <1>3, <4>1, <4>2
      <4>4. QED BY <4>1, <4>3 DEF OnItsWay
    <3>2. CASE ~\E s \in consumer.pending : s.file = f BY <1>6, <2>1, <3>2 DEF OnItsWay
    <3>3. QED BY <3>1, <3>2
  <2>2. ASSUME NEW f \in Write!Files, consumer.frontier + 1 < f, f < shared.next
        PROVE  OnItsWay(f)'
    <3>1. consumer.frontier < f BY <1>n, <2>2
    <3>2. OnItsWay(f) BY <1>4, <2>2, <3>1 DEF OrderInv, NoneLost
    <3>3. QED BY <2>1, <2>2, <3>2
  <2>3. /\ ~shared.stop
        /\ \A t \in Threads : worker[t].pc = "ended" => job.files < shared.next
        /\ \E t \in Threads : worker[t].pc # "unborn"
    BY <1>4 DEF OrderInv, NoneLost
  <2>4. consumer'.pc \notin {"spawn", "receive"} BY <1>2, <1>3
  <2>5. QED BY <1>3, <1>5, <2>2, <2>3, <2>4 DEF NoneLost
<1>12. Write!InOrder(c, FilesGathered')
  <2> DEFINE f == consumer.frontier + 1
             G == FilesGathered
  <2>1. Write!InOrder(consumer.current, G) BY <1>4 DEF OrderInv, BatchSoFar
  <2>2. \A g \in G : g < f BY <1>n DEF FilesGathered
  <2>3. FilesGathered' = IF f \in job.skipped THEN G ELSE G \cup {f}
    <3>1. FilesGathered' = {g \in Write!Files : Stored < g /\ g <= f /\ g \notin job.skipped}
      BY <1>3, <1>5 DEF FilesGathered
    <3>2. \A g \in Write!Files : g <= f <=> g <= consumer.frontier \/ g = f BY <1>n
    <3>3. f \in Write!Files /\ Stored < f BY <1>7, <1>9, <1>n, <1>s
    <3> HIDE DEF f
    <3>4. QED BY <3>1, <3>2, <3>3 DEF FilesGathered
  <2>4. r.parsed = IF f \in job.skipped THEN <<>> ELSE <<f>> BY <1>7 DEF Write!Parsed
  <2> HIDE DEF G
  <2>5. CASE f \in job.skipped
    <3>1. c = consumer.current BY <1>n, <2>4, <2>5, ConcatEmptySeq DEF c
    <3>2. QED BY <2>1, <2>3, <2>5, <3>1
  <2>6. CASE f \notin job.skipped
    <3>1. c = consumer.current \o <<f>> BY <2>4, <2>6 DEF c
    <3>2. f \in Nat BY <1>n
    <3> HIDE DEF f
    <3>3. Write!InOrder(consumer.current \o <<f>>, G \cup {f})
      BY <1>n, <2>1, <2>2, <3>2, InOrderGrows
    <3>4. QED BY <2>3, <2>6, <3>1, <3>3
  <2>7. QED BY <2>5, <2>6
<1>13. BatchSoFar'
  <2>1. /\ consumer.frontier + 1 <= job.files
        /\ consumer.frontier + 1 = Stored + (consumer.consumed + 1)
        /\ consumer.consumed + 1 > 0 /\ consumer.consumed + 1 <= job.batch
        /\ ~full => consumer.consumed + 1 < job.batch /\ consumer.frontier + 1 < job.files
    BY <1>8, <1>9, <1>n, <1>s
  <2>2. Write!InOrder(consumer'.current, FilesGathered')  BY <1>3, <1>12
  <2>3. Write!InOrder(consumer.current, FilesGathered)' BY <2>2 DEF Write!InOrder
  <2>4. QED BY <1>2, <1>3, <1>5, <2>1, <2>3 DEF BatchSoFar
<1>14. StoredSoFar'
  <2>1. consumer'.pc \notin {"join", "done"} BY <1>2, <1>3
  <2>2. QED BY <1>3, <1>5, <2>1
     DEF OrderInv, StoredSoFar, Write!IsBatch, Write!BatchFiles, Write!Files, Write!InOrder
<1>15. QED BY <1>10, <1>11, <1>13, <1>14 DEF OrderInv

LEMMA OrderWrites ==
  ASSUME WriteInv, OrderInv, Write!ConsumerStep
  PROVE  OrderInv'
<1>0. WriteTypes BY DEF WriteInv
<1>1. ASSUME NEW t \in Threads, Write!Spawn(t) PROVE OrderInv'
  <2>1. /\ UNCHANGED <<job, shared, channel, consumer, result>> /\ worker[t].pc = "unborn"
        /\ worker' = [worker EXCEPT ![t].pc = "check"]
    BY <1>1 DEF Write!Spawn, Write!Started
  <2>2. /\ \A u \in Threads \ {t} : worker'[u] = worker[u]
        /\ worker'[t].pc = "check" /\ worker'[t].file = worker[t].file
    BY <1>0, <2>1, ParserGoes DEF WriteTypes
  <2>3. ~Holds(t)' /\ ~Holds(t) BY <2>1, <2>2 DEF Holds
  <2>4. worker'[t].pc \notin {"unborn", "ended"} /\ worker[t].pc # "panicked" BY <2>1, <2>2
  <2>5. QED BY <2>1, <2>2, <2>3, <2>4, OrderKeeps
<1>2. ASSUME Write!SpawnFails PROVE OrderInv'
  <2>1. UNCHANGED <<job, shared, worker, result>> /\ Write!Leaves(TRUE) /\ Active
    BY <1>2 DEF Write!SpawnFails, Active
  <2>2. ~shared'.stop BY <2>1 DEF OrderInv, NoneLost
  <2>3. QED BY <2>1, <2>2, OrderLeaves
<1>3. ASSUME Write!AllSpawned PROVE OrderInv'
  <2>1. /\ UNCHANGED <<job, shared, worker, channel, result>> /\ consumer.pc = "spawn"
        /\ consumer' = [consumer EXCEPT !.pc = "receive"]
    BY <1>3 DEF Write!AllSpawned
  <2>2. Active BY <2>1 DEF Active
  <2>3. consumer.pending = {} BY <2>1, <2>2 DEF OrderInv, NoneLost
  <2>4. \E t \in Threads : worker[t].pc # "unborn"
    <3>1. CASE Write!Started = Threads
      <4>1. Threads # {} BY ComputationAssumption DEF Write!ParseAssumption
      <4>2. QED BY <3>1, <4>1 DEF Write!Started
    <3>2. CASE Write!Cardinality(Write!Started) = job.files
      <4>1. Write!Started # {} BY <1>0, <3>2, SameCardinality, FS_EmptySet, OrderJob
      <4>2. QED BY <4>1 DEF Write!Started
    <3>3. QED BY <1>3, <3>1, <3>2 DEF Write!AllSpawned
  <2>5. QED BY <2>1, <2>3, <2>4, OrderMoves
<1>4. ASSUME Write!Drain PROVE OrderInv'
  <2>1. UNCHANGED <<job, shared, worker, channel, result>> /\ consumer.pc = "drain"
    BY <1>4 DEF Write!Drain
  <2>2. \/ /\ consumer' = [consumer EXCEPT !.pc = "receive"]
           /\ \A r \in consumer.pending : r.file # consumer.frontier + 1
        \/ \E r \in consumer.pending : r.file = consumer.frontier + 1 /\ Write!Joins(r)
    BY <1>4 DEF Write!Drain
  <2>3. Active BY <2>1 DEF Active
  <2>4. \E t \in Threads : worker[t].pc # "unborn" BY <2>1, <2>3 DEF OrderInv, NoneLost
  <2>5. ASSUME consumer' = [consumer EXCEPT !.pc = "receive"],
               \A r \in consumer.pending : r.file # consumer.frontier + 1
        PROVE  OrderInv'
    BY <2>1, <2>4, <2>5, OrderMoves
  <2>6. ASSUME NEW r \in consumer.pending, r.file = consumer.frontier + 1, Write!Joins(r)
        PROVE  OrderInv'
    BY <2>1, <2>6, OrderJoins
  <2>7. QED BY <2>2, <2>5, <2>6
<1>5. ASSUME Write!Fail PROVE OrderInv'
  <2>1. /\ UNCHANGED <<job, worker, result>> /\ Write!Leaves(TRUE) /\ consumer.pc = "commit"
        /\ shared' = [shared EXCEPT !.stop = TRUE] /\ Len(result) + 1 \in job.failing
    BY <1>5 DEF Write!Fail, Write!Fails
  <2>2. Active BY <2>1 DEF Active
  <2>n. /\ job.files \in Nat \ {0} /\ job.batch \in Nat \ {0} /\ consumer.frontier \in Nat
        /\ consumer.consumed \in Nat
    BY <1>0, OrderJob, WriteNumbers
  <2>3. Stored \in Nat
    <3>1. Len(result) \in Nat BY LenProperties DEF OrderInv, StoredSoFar
    <3>2. QED BY <3>1, <2>n, Multiples DEF Stored
  <2>4. /\ consumer.frontier <= job.files /\ consumer.consumed > 0
        /\ consumer.frontier = Stored + consumer.consumed
    BY <2>1, <2>2, <2>n DEF OrderInv, BatchSoFar
  <2>5. Stored < job.files BY <2>3, <2>4, <2>n
  <2>6. QED BY <2>1, <2>5, OrderLeaves
<1>6. ASSUME Write!Close PROVE OrderInv'
  <2>1. UNCHANGED <<job, shared, worker, result>> /\ Write!Leaves(FALSE) /\ Active
    BY <1>6 DEF Write!Close, Active
  <2>2. ~shared'.stop BY <2>1 DEF OrderInv, NoneLost
  <2>3. QED BY <1>6, <2>1, <2>2, AllConsumed, OrderLeaves
<1>7. ASSUME Write!Join PROVE OrderInv'
  <2>1. UNCHANGED <<job, shared, worker, channel, result>> /\ consumer.pc = "join"
    BY <1>7 DEF Write!Join
  <2>2. PICK pc \in {"done", "failed", "panicked"} :
          /\ consumer' = [consumer EXCEPT !.pc = pc]
          /\ pc = "done" => ~consumer.failed /\ \A t \in Threads : worker[t].pc # "panicked"
    BY <1>7 DEF Write!Join
  <2>3. pc = "done" => job.files <= Stored BY <2>1, <2>2 DEF OrderInv, StoredSoFar
  <2>4. QED BY <2>1, <2>2, <2>3, OrderMoves
<1>8. QED
  BY <1>1, <1>2, <1>3, <1>4, <1>5, <1>6, <1>7, OrderReceives, OrderCommits
     DEF Write!ConsumerStep

LEMMA OrderStep ==
  ASSUME WriteInv, OrderInv, Write!ConsumerStep \/ \E t \in Threads : Write!WorkerStep(t)
  PROVE  OrderInv'
BY OrderWrites, OrderWorks

LEMMA OrderStands ==
  ASSUME OrderInv, UNCHANGED <<job, shared, worker, channel, consumer, result>>
  PROVE  OrderInv'
<1>1. FilesOnly'
  <2>1. \A t \in Threads : Holds(t)' => worker'[t].file \in Write!Files
    BY DEF OrderInv, FilesOnly, Holds
  <2>2. QED BY <2>1, ArrivalsKept DEF OrderInv
<1>2. NoneLost' BY DEF OrderInv, NoneLost, Active, OnItsWay, Holds, Write!Files
<1>3. BatchSoFar'
  BY DEF OrderInv, BatchSoFar, Active, Stored, FilesGathered, Write!Files, Write!InOrder
<1>4. StoredSoFar' BY StoredKept DEF OrderInv
<1>5. QED BY <1>1, <1>2, <1>3, <1>4 DEF OrderInv

LEMMA OrderIsThatOfOneThread == ASSUME WriteInv, OrderInv PROVE Write!StoredInOrder
<1>0. WriteTypes BY DEF WriteInv
<1>1. Len(result) \in Nat BY LenProperties DEF OrderInv, StoredSoFar
<1>2. ((Len(result) + 1) - 1) * job.batch = Stored /\ Stored \in Nat /\ job.files \in Nat
  BY <1>0, <1>1, OrderJob, Multiples DEF Stored
<1>3. Write!IsBatch(Len(result) + 1) <=> Stored < job.files BY <1>2 DEF Write!IsBatch
<1>4. QED BY <1>2, <1>3 DEF OrderInv, StoredSoFar, Write!StoredInOrder


(***************************************************************************)
(* A session of the MCP server.                                            *)
(***************************************************************************)
Callers == [pc : {"unborn", "run", "answer", "ended"}, line : Nat, success : BOOLEAN]
Replies == [line : Nat, success : BOOLEAN]
ServeTypes ==
  /\ job \in Sessions /\ shared \in 0..Len(job.lines)
  /\ worker \in [Threads -> Callers] /\ result \in Seq(Replies)
  /\ consumer \in {"read", "join", "done", "failed"}

KindOf(l)   == job.lines[l].kind
Busy(t)     == worker[t].pc \in {"run", "answer"}
Answered(l) == \E i \in 1..Len(result) : result[i].line = l

\* Every answer is that of a line with an id that has been read, and the only one.
OneAnswerEach ==
  /\ \A i \in 1..Len(result) :
       /\ result[i].line \in 1..shared /\ Serve!HasId(result[i].line)
       /\ \A k \in 1..Len(result) : result[k].line = result[i].line => k = i
  /\ Serve!InlineInOrder

\* Every call that runs has a thread, which has not answered it yet.
OneThreadEach ==
  \A t \in Threads : Busy(t) =>
    /\ worker[t].line \in 1..shared /\ KindOf(worker[t].line) = "call"
    /\ worker[t].pc = "answer" => Serve!HasId(worker[t].line)
    /\ ~Answered(worker[t].line)
    /\ \A u \in Threads : Busy(u) /\ worker[u].line = worker[t].line => u = t

\* No request is forgotten as long as the client takes answers.
NoneForgotten ==
  /\ \A l \in 1..shared : Serve!HasId(l) /\ KindOf(l) \in {"call", "other"} =>
       Answered(l) \/ ~Serve!Accepted \/ \E t \in Threads : Busy(t) /\ worker[t].line = l
  /\ consumer # "failed" => \A l \in 1..shared : KindOf(l) # "unreadable"
  /\ consumer \in {"join", "done"} => shared = Len(job.lines)
  /\ consumer = "done" => \A t \in Threads : ~Busy(t)
  /\ consumer = "failed" => ~Serve!Accepted \/ KindOf(shared) = "unreadable"

ServeInv == ServeTypes /\ OneAnswerEach /\ OneThreadEach /\ NoneForgotten

LEMMA ServeJob ==
  ASSUME ServeTypes
  PROVE  /\ Len(job.lines) \in Nat /\ job.accepts \in Nat /\ shared \in Nat
         /\ Len(result) \in Nat
         /\ \A l \in 1..Len(job.lines) : KindOf(l) \in {"call", "other", "blank", "unreadable"}
<1>1. Serve!IsSession(job) BY ComputationAssumption DEF ServeTypes, Serve!SessionAssumption
<1>2. job.lines \in Seq([kind : Serve!Kinds, hasId : BOOLEAN]) BY <1>1 DEF Serve!IsSession
<1>3. Len(job.lines) \in Nat BY <1>2, LenProperties
<1>4. \A l \in 1..Len(job.lines) : job.lines[l] \in [kind : Serve!Kinds, hasId : BOOLEAN]
  BY <1>2, ElementOfSeq
<1>5. \A l \in 1..Len(job.lines) : KindOf(l) \in {"call", "other", "blank", "unreadable"}
  BY <1>4 DEF KindOf, Serve!Kinds
<1>6. Len(result) \in Nat BY LenProperties DEF ServeTypes
<1>7. QED BY <1>1, <1>3, <1>5, <1>6 DEF ServeTypes, Serve!IsSession

LEMMA ServeInit == ASSUME Serve!Init PROVE ServeInv
<1>1. ServeTypes
  <2>1. Serve!IsSession(job)
    BY ComputationAssumption DEF Serve!Init, Serve!SessionAssumption
  <2>2. Len(job.lines) \in Nat BY <2>1, LenProperties DEF Serve!IsSession
  <2>3. QED BY <2>2 DEF Serve!Init, ServeTypes, Callers
<1>2. shared = 0 /\ consumer = "read" /\ Len(result) = 0 BY DEF Serve!Init
<1>3. \A t \in Threads : ~Busy(t) BY DEF Serve!Init, Busy
<1>4. OneAnswerEach BY <1>2 DEF OneAnswerEach, Serve!InlineInOrder
<1>5. OneThreadEach BY <1>3 DEF OneThreadEach
<1>6. NoneForgotten BY <1>2 DEF NoneForgotten
<1>7. QED BY <1>1, <1>4, <1>5, <1>6 DEF ServeInv

\* A line is read that needs no answer, or one that the client does not take.
LEMMA ServeReads ==
  ASSUME ServeInv, UNCHANGED <<job, worker, result>>, consumer = "read",
         shared + 1 \in Serve!Lines, shared' = shared + 1,
         \/ consumer' = "read" /\ KindOf(shared + 1) \in {"blank", "other"}
            /\ (KindOf(shared + 1) = "other" => ~Serve!HasId(shared + 1))
         \/ consumer' = "failed" /\ (KindOf(shared + 1) = "unreadable" \/ ~Serve!Accepted)
  PROVE  ServeInv'
<1>0. ServeTypes BY DEF ServeInv
<1>n. Len(job.lines) \in Nat /\ shared \in Nat /\ shared + 1 <= Len(job.lines)
  BY <1>0, ServeJob DEF Serve!Lines
<1>1. ServeTypes' BY <1>0, <1>n DEF ServeTypes
<1>2. \A l \in 1..(shared + 1) : l \in 1..shared \/ l = shared + 1 BY <1>n
<1>3. \A l \in 1..shared : l \in 1..(shared + 1) BY <1>n
<1>4. OneAnswerEach'
  BY <1>3 DEF ServeInv, OneAnswerEach, Serve!InlineInOrder, Serve!HasId
<1>5. OneThreadEach'
  BY <1>3 DEF ServeInv, OneThreadEach, Busy, Answered, KindOf, Serve!HasId
<1>6. NoneForgotten'
  <2>1. ASSUME NEW l \in 1..(shared + 1), Serve!HasId(l), KindOf(l) \in {"call", "other"}
        PROVE  Answered(l) \/ ~Serve!Accepted \/ \E t \in Threads : Busy(t) /\ worker[t].line = l
    BY <1>2, <2>1 DEF ServeInv, NoneForgotten
  <2>2. consumer' # "failed" => \A l \in 1..(shared + 1) : KindOf(l) # "unreadable"
    BY <1>2 DEF ServeInv, NoneForgotten
  <2>3. consumer' = "failed" => ~Serve!Accepted \/ KindOf(shared + 1) = "unreadable" OBVIOUS
  <2>4. consumer' \notin {"join", "done"} OBVIOUS
  <2>5. QED BY <2>1, <2>2, <2>3, <2>4
     DEF NoneForgotten, Answered, Busy, KindOf, Serve!HasId, Serve!Accepted
<1>7. QED BY <1>1, <1>4, <1>5, <1>6 DEF ServeInv

LEMMA ServeAnswersInline ==
  ASSUME ServeInv, UNCHANGED <<job, worker, consumer>>, consumer = "read",
         shared + 1 \in Serve!Lines, shared' = shared + 1,
         KindOf(shared + 1) = "other", Serve!HasId(shared + 1),
         result' = Append(result, Serve!Answer(shared + 1, TRUE))
  PROVE  ServeInv'
<1>0. ServeTypes BY DEF ServeInv
<1> DEFINE e == Serve!Answer(shared + 1, TRUE)
<1>n. Len(job.lines) \in Nat /\ shared \in Nat /\ shared + 1 <= Len(job.lines)
      /\ Len(result) \in Nat
  BY <1>0, ServeJob DEF Serve!Lines
<1>1. e \in Replies /\ e.line = shared + 1 BY <1>n DEF Serve!Answer, Replies
<1>a. result' = Append(result, e) OBVIOUS
<1> HIDE DEF e
<1>b. result \in Seq(Replies) BY <1>0 DEF ServeTypes
<1>2. /\ result' \in Seq(Replies) /\ Len(result') = Len(result) + 1
      /\ \A i \in 1..Len(result) : result'[i] = result[i]
      /\ result'[Len(result) + 1] = e
  BY ONLY <1>1, <1>a, <1>b, AppendProperties
<1>3. ServeTypes'
  <2>1. shared' \in 0..Len(job'.lines) BY <1>n
  <2>2. result' \in Seq(Replies) BY <1>2
  <2>3. QED BY <1>0, <2>1, <2>2 DEF ServeTypes
<1>4. \A l \in 1..(shared + 1) : l \in 1..shared \/ l = shared + 1 BY <1>n
<1>5. \A l \in 1..shared : l \in 1..(shared + 1) /\ l < shared + 1 BY <1>n
<1>6. \A i \in 1..Len(result') : i \in 1..Len(result) \/ i = Len(result) + 1 BY <1>2, <1>n
<1>7. \A i \in 1..Len(result) : /\ result[i].line \in 1..shared /\ Serve!HasId(result[i].line)
                                /\ \A k \in 1..Len(result) : result[k].line = result[i].line => k = i
  BY DEF ServeInv, OneAnswerEach
<1>8. OneAnswerEach'
  <2>1. ASSUME NEW i \in 1..Len(result')
        PROVE  /\ result'[i].line \in 1..(shared + 1) /\ Serve!HasId(result'[i].line)
               /\ \A k \in 1..Len(result') : result'[k].line = result'[i].line => k = i
    <3>1. CASE i \in 1..Len(result)
      <4>1. result'[i] = result[i] /\ result[i].line \in 1..shared BY <1>2, <1>7, <3>1
      <4>2. ASSUME NEW k \in 1..Len(result'), result'[k].line = result'[i].line PROVE k = i
        <5>1. CASE k \in 1..Len(result) BY <1>2, <1>7, <3>1, <4>1, <4>2, <5>1
        <5>2. CASE k = Len(result) + 1
          <6>1. result'[k].line = shared + 1 BY <1>1, <1>2, <5>2
          <6>2. QED BY <1>5, <4>1, <4>2, <6>1
        <5>3. QED BY <1>6, <5>1, <5>2
      <4>3. QED BY <1>5, <1>7, <3>1, <4>1, <4>2
    <3>2. CASE i = Len(result) + 1
      <4>1. result'[i].line = shared + 1 BY <1>1, <1>2, <3>2
      <4>2. ASSUME NEW k \in 1..Len(result'), result'[k].line = shared + 1 PROVE k = i
        <5>1. CASE k \in 1..Len(result)
          <6>1. result'[k] = result[k] /\ result[k].line \in 1..shared BY <1>2, <1>7, <5>1
          <6>2. result[k].line < shared + 1 BY <1>5, <6>1
          <6>3. result[k].line # shared + 1 BY ONLY <1>n, <6>1, <6>2
          <6>4. QED BY <4>2, <6>1, <6>3
        <5>2. QED BY <1>6, <3>2, <5>1
      <4>3. shared + 1 \in 1..(shared + 1) BY <1>n
      <4>4. QED BY <4>1, <4>2, <4>3
    <3>3. QED BY <1>6, <3>1, <3>2
  <2>2. ASSUME NEW i \in 1..Len(result'), NEW k \in 1..Len(result'), i < k,
               KindOf(result'[i].line) = "other", KindOf(result'[k].line) = "other"
        PROVE  result'[i].line < result'[k].line
    <3>1. i \in 1..Len(result) BY <1>2, <1>n, <2>2
    <3>2. CASE k \in 1..Len(result)
      BY <1>2, <2>2, <3>1, <3>2 DEF ServeInv, OneAnswerEach, Serve!InlineInOrder, KindOf
    <3>3. CASE k = Len(result) + 1 BY <1>1, <1>2, <1>5, <1>7, <3>1, <3>3
    <3>4. QED BY <1>6, <3>2, <3>3
  <2>3. QED BY <2>1, <2>2 DEF OneAnswerEach, Serve!InlineInOrder, Serve!HasId, KindOf
<1>9. \A l : Answered(l)' <=> Answered(l) \/ l = shared + 1
  <2>1. ASSUME NEW l, \E i \in 1..Len(result') : result'[i].line = l
        PROVE  Answered(l) \/ l = shared + 1
    BY <1>1, <1>2, <1>6, <2>1 DEF Answered
  <2>2. ASSUME NEW l, Answered(l) \/ l = shared + 1
        PROVE  \E i \in 1..Len(result') : result'[i].line = l
    <3>1. CASE Answered(l)
      <4>1. PICK i \in 1..Len(result) : result[i].line = l BY <3>1 DEF Answered
      <4>2. i \in 1..Len(result') /\ result'[i].line = l BY <1>2, <1>n, <4>1
      <4>3. QED BY <4>2
    <3>2. CASE l = shared + 1
      <4>1. Len(result) + 1 \in 1..Len(result') BY <1>2, <1>n
      <4>2. QED BY <1>1, <1>2, <3>2, <4>1
    <3>3. QED BY <2>2, <3>1, <3>2
  <2>3. QED BY <2>1, <2>2 DEF Answered
<1>10. OneThreadEach'
  <2>1. ASSUME NEW t \in Threads, Busy(t)
        PROVE  /\ worker[t].line \in 1..(shared + 1) /\ KindOf(worker[t].line) = "call"
               /\ worker[t].pc = "answer" => Serve!HasId(worker[t].line)
               /\ ~(Answered(worker[t].line) \/ worker[t].line = shared + 1)
               /\ \A u \in Threads : Busy(u) /\ worker[u].line = worker[t].line => u = t
    BY <1>5, <2>1 DEF ServeInv, OneThreadEach
  <2>2. ASSUME NEW t \in Threads, Busy(t) PROVE ~Answered(worker[t].line)'
    <3>1. PICK l : l = worker[t].line OBVIOUS
    <3>2. ~Answered(l)' BY <1>9, <2>1, <2>2, <3>1
    <3>3. QED BY <3>1, <3>2 DEF Answered
  <2>3. QED BY <2>1, <2>2 DEF OneThreadEach, Busy, KindOf, Serve!HasId
<1>11. NoneForgotten'
  <2>1. ASSUME NEW l \in 1..(shared + 1), Serve!HasId(l), KindOf(l) \in {"call", "other"}
        PROVE  \/ Answered(l) \/ l = shared + 1 \/ ~Serve!Accepted
               \/ \E t \in Threads : Busy(t) /\ worker[t].line = l
    BY <1>4, <2>1 DEF ServeInv, NoneForgotten
  <2>2. ~Serve!Accepted => ~Serve!Accepted'
    <3>1. job.accepts \in Nat BY <1>0, ServeJob
    <3>2. QED BY <1>2, <1>n, <3>1 DEF Serve!Accepted
  <2>3. \A l \in 1..(shared + 1) : KindOf(l) # "unreadable" BY <1>4 DEF ServeInv, NoneForgotten
  <2>4. QED BY <1>9, <2>1, <2>2, <2>3 DEF NoneForgotten, Busy, KindOf, Serve!HasId
<1>12. QED BY <1>3, <1>8, <1>10, <1>11 DEF ServeInv

LEMMA CallerMoves ==
  ASSUME ServeTypes, NEW t \in Threads, NEW w \in Callers, worker' = [worker EXCEPT ![t] = w]
  PROVE  /\ worker' \in [Threads -> Callers] /\ worker'[t] = w
         /\ \A u \in Threads : u # t => worker'[u] = worker[u]
BY DEF ServeTypes

LEMMA ServeStarts == ASSUME ServeInv, Serve!StartCall PROVE ServeInv'
<1>0. ServeTypes BY DEF ServeInv
<1>1. /\ UNCHANGED <<job, consumer, result>> /\ consumer = "read"
      /\ shared' = shared + 1 /\ shared + 1 \in Serve!Lines /\ KindOf(shared + 1) = "call"
  BY DEF Serve!StartCall, Serve!Reads, KindOf
<1>2. PICK t \in Threads :
        /\ worker[t].pc = "unborn"
        /\ worker' = [worker EXCEPT ![t] = [pc |-> "run", line |-> shared + 1, success |-> FALSE]]
  BY DEF Serve!StartCall
<1>n. Len(job.lines) \in Nat /\ shared \in Nat /\ shared + 1 <= Len(job.lines)
  BY <1>0, <1>1, ServeJob DEF Serve!Lines
<1> DEFINE w == [pc |-> "run", line |-> shared + 1, success |-> FALSE]
<1>3. w \in Callers /\ w.pc = "run" /\ w.line = shared + 1 BY <1>n DEF Callers
<1>a. worker' = [worker EXCEPT ![t] = w] BY <1>2
<1> HIDE DEF w
<1>4. /\ worker' \in [Threads -> Callers] /\ worker'[t] = w
      /\ \A u \in Threads : u # t => worker'[u] = worker[u]
  BY <1>0, <1>3, <1>a, CallerMoves
<1>5. \A l \in 1..(shared + 1) : l \in 1..shared \/ l = shared + 1 BY <1>n
<1>6. \A l \in 1..shared : l \in 1..(shared + 1) /\ l # shared + 1 BY <1>n
<1>7. shared + 1 \in 1..(shared + 1) BY <1>n
<1>8. ServeTypes'
  <2>1. shared + 1 \in 0..Len(job.lines) BY <1>n
  <2>2. QED BY <1>0, <1>1, <1>4, <2>1 DEF ServeTypes
<1>9. OneAnswerEach'
  BY <1>1, <1>6 DEF ServeInv, OneAnswerEach, Serve!InlineInOrder, Serve!HasId
<1>10. ~Answered(shared + 1) BY <1>6 DEF ServeInv, OneAnswerEach, Answered
<1>11. ~Busy(t) BY <1>2 DEF Busy
<1>12. \A u \in Threads : u # t => (Busy(u)' <=> Busy(u)) BY <1>4 DEF Busy
<1>13. OneThreadEach'
  <2>1. ASSUME NEW u \in Threads, Busy(u)'
        PROVE  /\ worker'[u].line \in 1..(shared + 1) /\ KindOf(worker'[u].line) = "call"
               /\ worker'[u].pc = "answer" => Serve!HasId(worker'[u].line)
               /\ ~Answered(worker'[u].line)
               /\ \A v \in Threads : Busy(v)' /\ worker'[v].line = worker'[u].line => v = u
    <3>1. CASE u = t
      <4>1. /\ worker'[u].line = shared + 1 /\ worker'[u].pc = "run"
            /\ KindOf(worker'[u].line) = "call" /\ ~Answered(worker'[u].line)
        BY <1>1, <1>3, <1>4, <1>10, <3>1
      <4>2. ASSUME NEW v \in Threads, Busy(v)', worker'[v].line = shared + 1 PROVE v = u
        <5>1. v # t => Busy(v) /\ worker[v].line = shared + 1 BY <1>4, <1>12, <4>2
        <5>2. Busy(v) => worker[v].line # shared + 1
          BY <1>6 DEF ServeInv, OneThreadEach
        <5>3. QED BY <3>1, <5>1, <5>2
      <4>3. QED BY <1>7, <4>1, <4>2
    <3>2. CASE u # t
      <4>1. Busy(u) /\ worker'[u] = worker[u] BY <1>4, <1>12, <2>1, <3>2
      <4>2. /\ worker[u].line \in 1..shared /\ KindOf(worker[u].line) = "call"
            /\ worker[u].pc = "answer" => Serve!HasId(worker[u].line)
            /\ ~Answered(worker[u].line)
            /\ \A v \in Threads : Busy(v) /\ worker[v].line = worker[u].line => v = u
        BY <4>1 DEF ServeInv, OneThreadEach
      <4>3. ASSUME NEW v \in Threads, Busy(v)', worker'[v].line = worker'[u].line PROVE v = u
        <5>1. v # t BY <1>3, <1>4, <1>6, <4>1, <4>2, <4>3
        <5>2. QED BY <1>4, <1>12, <4>1, <4>2, <4>3, <5>1
      <4>4. worker'[u].line \in 1..(shared + 1) BY <1>6, <4>1, <4>2
      <4>5. KindOf(worker'[u].line) = "call" /\ ~Answered(worker'[u].line)
            /\ (worker'[u].pc = "answer" => Serve!HasId(worker'[u].line))
        BY <4>1, <4>2
      <4>6. QED BY <4>3, <4>4, <4>5
    <3>3. QED BY <3>1, <3>2
  <2>2. QED BY <1>1, <2>1 DEF OneThreadEach, Busy, KindOf, Answered, Serve!HasId
<1>14. NoneForgotten'
  <2>1. ASSUME NEW l \in 1..(shared + 1), Serve!HasId(l), KindOf(l) \in {"call", "other"}
        PROVE  \/ Answered(l) \/ ~Serve!Accepted
               \/ \E u \in Threads : worker'[u].pc \in {"run", "answer"} /\ worker'[u].line = l
    <3>1. CASE l = shared + 1 BY <1>3, <1>4, <3>1
    <3>2. CASE l \in 1..shared
      <4>1. \/ Answered(l) \/ ~Serve!Accepted
            \/ \E u \in Threads : Busy(u) /\ worker[u].line = l
        BY <2>1, <3>2 DEF ServeInv, NoneForgotten
      <4>2. ASSUME NEW u \in Threads, Busy(u), worker[u].line = l
            PROVE  worker'[u].pc \in {"run", "answer"} /\ worker'[u].line = l
        BY <1>4, <1>11, <4>2 DEF Busy
      <4>3. QED BY <4>1, <4>2
    <3>3. QED BY <1>5, <3>1, <3>2
  <2>2. \A l \in 1..(shared + 1) : KindOf(l) # "unreadable"
    BY <1>1, <1>5 DEF ServeInv, NoneForgotten
  <2>3. QED BY <1>1, <2>1, <2>2
     DEF NoneForgotten, Answered, Busy, KindOf, Serve!HasId, Serve!Accepted
<1>15. QED BY <1>8, <1>9, <1>13, <1>14 DEF ServeInv

LEMMA ServeRuns == ASSUME ServeInv, NEW t \in Threads, Serve!Run(t) PROVE ServeInv'
<1>0. ServeTypes BY DEF ServeInv
<1>1. UNCHANGED <<job, shared, consumer, result>> /\ worker[t].pc = "run" /\ Busy(t)
      /\ consumer \notin {"done", "failed"}
  BY DEF Serve!Run, Serve!Over, Busy
<1>2. PICK ok \in BOOLEAN :
        worker' = [worker EXCEPT
          ![t].pc = IF Serve!HasId(worker[t].line) THEN "answer" ELSE "ended",
          ![t].success = ok /\ Serve!HasId(worker[t].line)]
  BY DEF Serve!Run
<1>3. worker[t] \in Callers BY <1>0 DEF ServeTypes
<1>4. PICK pc \in {"answer", "ended"} :
        pc = IF Serve!HasId(worker[t].line) THEN "answer" ELSE "ended"
  OBVIOUS
<1>5. PICK s \in BOOLEAN : s = (ok /\ Serve!HasId(worker[t].line)) OBVIOUS
<1> DEFINE w == [pc |-> pc, line |-> worker[t].line, success |-> s]
<1>6. w \in Callers /\ w.pc = pc /\ w.line = worker[t].line BY <1>3 DEF Callers
<1>7. worker' = [worker EXCEPT ![t] = w]
  <2>1. worker' = [worker EXCEPT ![t].pc = pc, ![t].success = s] BY <1>2, <1>4, <1>5
  <2>2. worker \in [Threads -> Callers] BY <1>0 DEF ServeTypes
  <2>4. [worker[t] EXCEPT !.pc = pc, !.success = s] = w
    <3>1. PICK r \in Callers : r = worker[t] BY <1>3
    <3>2. [r EXCEPT !.pc = pc, !.success = s] \in Callers BY ONLY <3>1 DEF Callers
    <3>3. /\ [r EXCEPT !.pc = pc, !.success = s].pc = pc
          /\ [r EXCEPT !.pc = pc, !.success = s].line = r.line
          /\ [r EXCEPT !.pc = pc, !.success = s].success = s
      BY ONLY <3>1 DEF Callers
    <3>4. \A a, b \in Callers : a.pc = b.pc /\ a.line = b.line /\ a.success = b.success => a = b
      BY ONLY DEF Callers
    <3>5. w.line = r.line /\ w.pc = pc /\ w.success = s BY <3>1
    <3> HIDE DEF w
    <3>6. QED BY <1>6, <3>1, <3>2, <3>3, <3>4, <3>5
  <2>5. worker' = [worker EXCEPT ![t] = [worker[t] EXCEPT !.pc = pc, !.success = s]]
    BY ONLY <2>1, <2>2
  <2>6. QED BY <2>4, <2>5
<1> HIDE DEF w
<1>8. /\ worker' \in [Threads -> Callers] /\ worker'[t] = w
      /\ \A u \in Threads : u # t => worker'[u] = worker[u]
  BY <1>0, <1>6, <1>7, CallerMoves
<1>9. \A u \in Threads : /\ worker'[u].line = worker[u].line
                         /\ Busy(u)' => Busy(u)
                         /\ worker'[u].pc = "answer" /\ u # t => worker[u].pc = "answer"
  BY <1>1, <1>6, <1>8 DEF Busy
<1>10. Serve!HasId(worker[t].line) => Busy(t)' BY <1>4, <1>6, <1>8 DEF Busy
<1>11. worker'[t].pc = "answer" => Serve!HasId(worker[t].line) BY <1>4, <1>6, <1>8
<1>12. ServeTypes' BY <1>0, <1>1, <1>8 DEF ServeTypes
<1>13. OneAnswerEach' BY <1>1 DEF ServeInv, OneAnswerEach, Serve!InlineInOrder, Serve!HasId
<1>14. OneThreadEach'
  <2>1. ASSUME NEW u \in Threads, Busy(u)'
        PROVE  /\ worker[u].line \in 1..shared /\ KindOf(worker[u].line) = "call"
               /\ worker'[u].pc = "answer" => Serve!HasId(worker[u].line)
               /\ ~Answered(worker[u].line)
               /\ \A v \in Threads : Busy(v)' /\ worker[v].line = worker[u].line => v = u
    BY <1>9, <1>11, <2>1 DEF ServeInv, OneThreadEach
  <2>2. QED BY <1>1, <1>9, <2>1 DEF OneThreadEach, KindOf, Answered, Serve!HasId
<1>15. NoneForgotten'
  <2>1. ASSUME NEW l \in 1..shared, Serve!HasId(l), KindOf(l) \in {"call", "other"}
        PROVE  \/ Answered(l) \/ ~Serve!Accepted
               \/ \E u \in Threads : Busy(u)' /\ worker'[u].line = l
    <3>1. \/ Answered(l) \/ ~Serve!Accepted
          \/ \E u \in Threads : Busy(u) /\ worker[u].line = l
      BY <2>1 DEF ServeInv, NoneForgotten
    <3>2. ASSUME NEW u \in Threads, Busy(u), worker[u].line = l
          PROVE  Busy(u)' /\ worker'[u].line = l
      <4>1. CASE u = t BY <1>9, <1>10, <2>1, <3>2, <4>1
      <4>2. CASE u # t BY <1>8, <3>2, <4>2 DEF Busy
      <4>3. QED BY <4>1, <4>2
    <3>3. QED BY <3>1, <3>2
  <2>2. consumer' \notin {"done", "failed"} BY <1>1
  <2>3. /\ \A l \in 1..shared : KindOf(l) # "unreadable"
        /\ consumer' \in {"join", "done"} => shared = Len(job.lines)
    BY <1>1 DEF ServeInv, NoneForgotten
  <2>4. QED BY <1>1, <2>1, <2>2, <2>3
     DEF NoneForgotten, Answered, KindOf, Serve!HasId, Serve!Accepted
<1>16. QED BY <1>12, <1>13, <1>14, <1>15 DEF ServeInv

LEMMA ServeAnswers == ASSUME ServeInv, NEW t \in Threads, Serve!WriteAnswer(t) PROVE ServeInv'
<1>0. ServeTypes BY DEF ServeInv
<1>1. /\ UNCHANGED <<job, shared, consumer>> /\ worker[t].pc = "answer" /\ Busy(t)
      /\ consumer \notin {"done", "failed"}
      /\ worker' = [worker EXCEPT ![t].pc = "ended"]
  BY DEF Serve!WriteAnswer, Serve!Over, Busy
<1>2. worker[t] \in Callers BY <1>0 DEF ServeTypes
<1>n. job.accepts \in Nat /\ shared \in Nat /\ Len(result) \in Nat BY <1>0, ServeJob
<1> DEFINE w == [worker[t] EXCEPT !.pc = "ended"]
<1>3. w \in Callers /\ w.pc = "ended" /\ w.line = worker[t].line BY <1>2 DEF Callers
<1>a. worker' = [worker EXCEPT ![t] = w] BY <1>1
<1> HIDE DEF w
<1>4. /\ worker' \in [Threads -> Callers] /\ worker'[t] = w
      /\ \A u \in Threads : u # t => worker'[u] = worker[u]
  BY <1>0, <1>3, <1>a, CallerMoves
<1>5. \A u \in Threads : /\ worker'[u].line = worker[u].line
                         /\ Busy(u)' => Busy(u) /\ u # t /\ worker'[u].pc = worker[u].pc
                         /\ Busy(u) /\ u # t => Busy(u)'
  BY <1>3, <1>4 DEF Busy
<1> DEFINE l0 == worker[t].line
           e  == Serve!Answer(l0, worker[t].success)
<1>6. /\ l0 \in 1..shared /\ KindOf(l0) = "call" /\ Serve!HasId(l0) /\ ~Answered(l0)
      /\ \A u \in Threads : Busy(u) /\ worker[u].line = l0 => u = t
  BY <1>1 DEF ServeInv, OneThreadEach
<1>7. e \in Replies /\ e.line = l0 BY <1>2 DEF Serve!Answer, Replies, Callers
<1>8. result' = IF Serve!Accepted THEN Append(result, e) ELSE result
  BY DEF Serve!WriteAnswer
<1> HIDE DEF l0, e
<1>b. result \in Seq(Replies) BY <1>0 DEF ServeTypes
<1>9. CASE ~Serve!Accepted
  <2>1. UNCHANGED <<job, shared, consumer, result>> BY <1>1, <1>8, <1>9
  <2>2. ServeTypes' BY <1>0, <1>4, <2>1 DEF ServeTypes
  <2>3. OneAnswerEach' BY <2>1 DEF ServeInv, OneAnswerEach, Serve!InlineInOrder, Serve!HasId
  <2>4. OneThreadEach'
    <3>1. ASSUME NEW u \in Threads, Busy(u)'
          PROVE  /\ worker[u].line \in 1..shared /\ KindOf(worker[u].line) = "call"
                 /\ worker'[u].pc = "answer" => Serve!HasId(worker[u].line)
                 /\ ~Answered(worker[u].line)
                 /\ \A v \in Threads : Busy(v)' /\ worker[v].line = worker[u].line => v = u
      BY <1>5, <3>1 DEF ServeInv, OneThreadEach
    <3>2. QED BY <1>5, <2>1, <3>1 DEF OneThreadEach, KindOf, Answered, Serve!HasId
  <2>5. NoneForgotten'
    <3>1. /\ \A l \in 1..shared : KindOf(l) # "unreadable"
          /\ consumer' \in {"join", "done"} => shared = Len(job.lines)
      BY <1>1 DEF ServeInv, NoneForgotten
    <3>2. QED BY <1>1, <1>9, <2>1, <3>1 DEF NoneForgotten, KindOf, Serve!Accepted
  <2>6. QED BY <2>2, <2>3, <2>4, <2>5 DEF ServeInv
<1>10. CASE Serve!Accepted
  <2>a. result' = Append(result, e) BY <1>8, <1>10
  <2>1. /\ result' \in Seq(Replies) /\ Len(result') = Len(result) + 1
        /\ \A i \in 1..Len(result) : result'[i] = result[i]
        /\ result'[Len(result) + 1] = e
    BY ONLY <1>7, <1>b, <2>a, AppendProperties
  <2>2. \A i \in 1..Len(result') : i \in 1..Len(result) \/ i = Len(result) + 1 BY <2>1, <1>n
  <2>3. \A i \in 1..Len(result) :
          /\ result[i].line \in 1..shared /\ Serve!HasId(result[i].line)
          /\ \A k \in 1..Len(result) : result[k].line = result[i].line => k = i
    BY DEF ServeInv, OneAnswerEach
  <2>4. \A i \in 1..Len(result) : result[i].line # l0 BY <1>6 DEF Answered
  <2>5. ServeTypes'
    <3>1. result' \in Seq(Replies) BY <2>1
    <3>2. QED BY <1>0, <1>1, <1>4, <3>1 DEF ServeTypes
  <2>6. OneAnswerEach'
    <3>1. ASSUME NEW i \in 1..Len(result')
          PROVE  /\ result'[i].line \in 1..shared /\ Serve!HasId(result'[i].line)
                 /\ \A k \in 1..Len(result') : result'[k].line = result'[i].line => k = i
      <4>1. CASE i \in 1..Len(result)
        <5>1. result'[i] = result[i] BY <2>1, <4>1
        <5>2. \A k \in 1..Len(result') : k = Len(result) + 1 => result'[k].line # result[i].line
          BY <1>7, <2>1, <2>4, <4>1
        <5>3. QED BY <2>1, <2>2, <2>3, <4>1, <5>1, <5>2
      <4>2. CASE i = Len(result) + 1
        <5>1. result'[i].line = l0 BY <1>7, <2>1, <4>2
        <5>2. \A k \in 1..Len(result) : result'[k].line # l0 BY <2>1, <2>4
        <5>3. QED BY <1>6, <2>2, <4>2, <5>1, <5>2
      <4>3. QED BY <2>2, <4>1, <4>2
    <3>2. ASSUME NEW i \in 1..Len(result'), NEW k \in 1..Len(result'), i < k,
                 KindOf(result'[i].line) = "other", KindOf(result'[k].line) = "other"
          PROVE  result'[i].line < result'[k].line
      <4>1. i \in 1..Len(result) BY <2>1, <1>n, <3>2
      <4>2. k \in 1..Len(result) BY <1>6, <1>7, <2>1, <2>2, <3>2
      <4>3. QED
        BY <2>1, <3>2, <4>1, <4>2 DEF ServeInv, OneAnswerEach, Serve!InlineInOrder, KindOf
    <3>3. QED BY <1>1, <3>1, <3>2 DEF OneAnswerEach, Serve!InlineInOrder, Serve!HasId, KindOf
  <2>7. \A l : Answered(l)' <=> Answered(l) \/ l = l0
    <3>1. ASSUME NEW l, \E i \in 1..Len(result') : result'[i].line = l
          PROVE  Answered(l) \/ l = l0
      BY <1>7, <2>1, <2>2, <3>1 DEF Answered
    <3>2. ASSUME NEW l, Answered(l) \/ l = l0
          PROVE  \E i \in 1..Len(result') : result'[i].line = l
      <4>1. CASE Answered(l)
        <5>1. PICK i \in 1..Len(result) : result[i].line = l BY <4>1 DEF Answered
        <5>2. i \in 1..Len(result') /\ result'[i].line = l BY <2>1, <1>n, <5>1
        <5>3. QED BY <5>2
      <4>2. CASE l = l0
        <5>1. Len(result) + 1 \in 1..Len(result') BY <2>1, <1>n
        <5>2. QED BY <1>7, <2>1, <4>2, <5>1
      <4>3. QED BY <3>2, <4>1, <4>2
    <3>3. QED BY <3>1, <3>2 DEF Answered
  <2>8. OneThreadEach'
    <3>1. ASSUME NEW u \in Threads, Busy(u)'
          PROVE  /\ worker[u].line \in 1..shared /\ KindOf(worker[u].line) = "call"
                 /\ worker'[u].pc = "answer" => Serve!HasId(worker[u].line)
                 /\ ~(Answered(worker[u].line) \/ worker[u].line = l0)
                 /\ \A v \in Threads : Busy(v)' /\ worker[v].line = worker[u].line => v = u
      BY <1>5, <1>6, <3>1 DEF ServeInv, OneThreadEach
    <3>2. ASSUME NEW u \in Threads, Busy(u)' PROVE ~Answered(worker[u].line)'
      <4>1. PICK l : l = worker[u].line OBVIOUS
      <4>2. ~Answered(l)' BY <2>7, <3>1, <3>2, <4>1
      <4>3. worker'[u].line = l BY <1>5, <4>1
      <4>4. QED BY <4>2, <4>3 DEF Answered
    <3>3. QED BY <1>1, <1>5, <3>1, <3>2 DEF OneThreadEach, KindOf, Answered, Serve!HasId
  <2>9. NoneForgotten'
    <3>1. ASSUME NEW l \in 1..shared, Serve!HasId(l), KindOf(l) \in {"call", "other"}
          PROVE  \/ Answered(l) \/ l = l0 \/ ~Serve!Accepted
                 \/ \E u \in Threads : Busy(u)' /\ worker'[u].line = l
      <4>1. \/ Answered(l) \/ ~Serve!Accepted
            \/ \E u \in Threads : Busy(u) /\ worker[u].line = l
        BY <3>1 DEF ServeInv, NoneForgotten
      <4>2. ASSUME NEW u \in Threads, Busy(u), worker[u].line = l, l # l0
            PROVE  Busy(u)' /\ worker'[u].line = l
        <5>1. u # t BY <4>2 DEF l0
        <5>2. QED BY <1>5, <4>2, <5>1
      <4>3. QED BY <4>1, <4>2
    <3>2. /\ \A l \in 1..shared : KindOf(l) # "unreadable"
          /\ consumer' \in {"join", "done"} => shared = Len(job.lines)
      BY <1>1 DEF ServeInv, NoneForgotten
    <3>3. consumer' \notin {"done", "failed"} BY <1>1
    <3>4. ASSUME NEW l \in 1..shared, Serve!HasId(l), KindOf(l) \in {"call", "other"}
          PROVE  Answered(l)' \/ \E u \in Threads : Busy(u)' /\ worker'[u].line = l
      BY <1>10, <2>7, <3>1, <3>4
    <3>5. QED BY <1>1, <3>2, <3>3, <3>4 DEF NoneForgotten, KindOf, Serve!HasId
  <2>10. QED BY <2>5, <2>6, <2>8, <2>9 DEF ServeInv
<1>11. QED BY <1>9, <1>10

\* The reading thread goes on to wait for the calls, and then to the end.
LEMMA ServeWaits ==
  ASSUME ServeInv, UNCHANGED <<job, shared, worker, result>>,
         \/ consumer = "read" /\ consumer' = "join" /\ shared = Len(job.lines)
         \/ consumer = "join" /\ consumer' = "done" /\ Serve!Running = {}
  PROVE  ServeInv'
<1>1. ServeTypes' BY DEF ServeInv, ServeTypes
<1>2. OneAnswerEach' BY DEF ServeInv, OneAnswerEach, Serve!InlineInOrder, Serve!HasId
<1>3. OneThreadEach'
  BY DEF ServeInv, OneThreadEach, Busy, Answered, KindOf, Serve!HasId
<1>4. consumer' = "done" => \A t \in Threads : ~Busy(t) BY DEF Serve!Running, Busy
<1>5. consumer' \in {"join", "done"} /\ consumer # "failed" OBVIOUS
<1>6. shared = Len(job.lines) BY DEF ServeInv, NoneForgotten
<1>7. NoneForgotten'
  BY <1>4, <1>5, <1>6
     DEF ServeInv, NoneForgotten, Busy, Answered, KindOf, Serve!HasId, Serve!Accepted
<1>8. QED BY <1>1, <1>2, <1>3, <1>7 DEF ServeInv

LEMMA ServeStep ==
  ASSUME ServeInv, Serve!ConsumerStep \/ \E t \in Threads : Serve!WorkerStep(t)
  PROVE  ServeInv'
<1>1. ASSUME NEW t \in Threads, Serve!WorkerStep(t) PROVE ServeInv'
  BY <1>1, ServeRuns, ServeAnswers DEF Serve!WorkerStep
<1>2. ASSUME Serve!Skip PROVE ServeInv'
  BY <1>2, ServeReads DEF Serve!Skip, Serve!Reads, KindOf
<1>3. ASSUME Serve!AnswerInline PROVE ServeInv'
  <2>1. CASE Serve!Accepted
    BY <1>3, <2>1, ServeAnswersInline DEF Serve!AnswerInline, Serve!Reads, KindOf
  <2>2. CASE ~Serve!Accepted
    BY <1>3, <2>2, ServeReads DEF Serve!AnswerInline, Serve!Reads, KindOf
  <2>3. QED BY <2>1, <2>2
<1>4. ASSUME Serve!Unreadable PROVE ServeInv'
  BY <1>4, ServeReads DEF Serve!Unreadable, Serve!Reads, KindOf
<1>5. ASSUME Serve!EndOfInput PROVE ServeInv' BY <1>5, ServeWaits DEF Serve!EndOfInput
<1>6. ASSUME Serve!Join PROVE ServeInv' BY <1>6, ServeWaits DEF Serve!Join
<1>7. QED BY <1>1, <1>2, <1>3, <1>4, <1>5, <1>6, ServeStarts DEF Serve!ConsumerStep

LEMMA ServeStands ==
  ASSUME ServeInv, UNCHANGED <<job, shared, worker, channel, consumer, result>>
  PROVE  ServeInv'
<1>1. ServeTypes' BY DEF ServeInv, ServeTypes
<1>2. OneAnswerEach' BY DEF ServeInv, OneAnswerEach, Serve!InlineInOrder, Serve!HasId
<1>3. OneThreadEach'
  BY DEF ServeInv, OneThreadEach, Busy, Answered, KindOf, Serve!HasId
<1>4. NoneForgotten'
  BY DEF ServeInv, NoneForgotten, Busy, Answered, KindOf, Serve!HasId, Serve!Accepted
<1>5. QED BY <1>1, <1>2, <1>3, <1>4 DEF ServeInv

LEMMA EveryRequestHasItsAnswer ==
  ASSUME ServeInv PROVE Serve!EveryRequestAnswered /\ Serve!InlineInOrder
<1>n. shared \in Nat /\ Len(job.lines) \in Nat
      /\ \A l \in 1..Len(job.lines) : KindOf(l) \in {"call", "other", "blank", "unreadable"}
  BY ServeJob DEF ServeInv
<1>1. \A i \in 1..Len(result) : result[i].line <= shared /\ Serve!HasId(result[i].line)
  BY <1>n DEF ServeInv, OneAnswerEach
<1>2. \A i, k \in 1..Len(result) : result[i].line = result[k].line => i = k
  BY DEF ServeInv, OneAnswerEach
<1>3. ASSUME consumer = "done", Serve!Accepted, NEW l \in Serve!Lines, Serve!HasId(l),
             job.lines[l].kind # "blank"
      PROVE  \E i \in 1..Len(result) : result[i].line = l
  <2>1. l \in 1..shared BY <1>3 DEF ServeInv, NoneForgotten, Serve!Lines
  <2>2. KindOf(l) # "unreadable" BY <1>3, <2>1 DEF ServeInv, NoneForgotten
  <2>3. KindOf(l) \in {"call", "other"} BY <1>3, <1>n, <2>2 DEF Serve!Lines, KindOf
  <2>4. QED BY <1>3, <2>1, <2>3 DEF ServeInv, NoneForgotten, Answered
<1>4. consumer = "failed" => ~Serve!Accepted \/ job.lines[shared].kind = "unreadable"
  BY DEF ServeInv, NoneForgotten, KindOf
<1>5. Serve!InlineInOrder BY DEF ServeInv, OneAnswerEach
<1>6. QED BY <1>1, <1>2, <1>3, <1>4, <1>5 DEF Serve!EveryRequestAnswered

(***************************************************************************)
(* A command of the version control system.                                *)
(***************************************************************************)
\* What has been written to a stream: a process and a place in its writes.
PutInto(s) == {x \in Process!Processes \X Nat :
                 x[2] \in 1..worker[x[1]].written /\ job.writes[x[1]][x[2]] = s}
Taken(s)   == Cardinality(PutInto(s)) - channel[s]

Runners == [pc : {"runs", "ended"}, written : Nat]
Kept    == [kept : Nat, truncated : BOOLEAN, closed : BOOLEAN]
ProcessTypes ==
  /\ job \in Commands /\ shared \in BOOLEAN
  /\ worker \in [Process!Processes -> Runners] /\ channel \in [Process!Streams -> Nat]
  /\ consumer \in [pc : {"poll", "done", "timeout"}, exited : BOOLEAN]
  /\ result \in [Process!Streams -> Kept]

\* A reader has kept what it has taken, up to the limit.
KeptIsFirst ==
  \A s \in Process!Streams :
    /\ IsFiniteSet(PutInto(s)) /\ Taken(s) \in Nat
    /\ result[s].kept = Process!Least(Taken(s), job.limit[s])
    /\ result[s].truncated <=> Taken(s) > job.limit[s]

\* An end is that of everything.
EndIsOfAll ==
  /\ \A p \in Process!Processes : worker[p].written <= Len(job.writes[p])
  /\ consumer.pc # "timeout" =>
       \A p \in Process!Processes : worker[p].pc # "runs" => Process!HasWritten(p)
  /\ \A s \in Process!Streams : result[s].closed =>
       channel[s] = 0 /\ \A p \in Process!Processes : worker[p].pc # "runs"
  /\ consumer.pc = "done" => \A s \in Process!Streams : result[s].closed
  /\ consumer.pc = "timeout" => shared /\
       \A p \in Process!Processes : worker[p].pc = "runs" => p = "helper" /\ job.escaped

ProcessInv == ProcessTypes /\ KeptIsFirst /\ EndIsOfAll

LEMMA ProcessCounts == ASSUME NEW S PROVE Process!Cardinality(S) = Cardinality(S)
BY DEF Process!Cardinality, Cardinality, Process!IsFiniteSet, IsFiniteSet

LEMMA ProcessJob ==
  ASSUME ProcessTypes
  PROVE  /\ job.limit \in [Process!Streams -> Nat]
         /\ \A p \in Process!Processes :
              /\ Len(job.writes[p]) \in Nat
              /\ \A i \in 1..Len(job.writes[p]) : job.writes[p][i] \in Process!Streams
<1>1. Process!IsCommand(job) BY ComputationAssumption DEF ProcessTypes, Process!CommandAssumption
<1>2. \A p \in Process!Processes : job.writes[p] \in Seq(Process!Streams)
  BY <1>1 DEF Process!IsCommand
<1>3. \A p \in Process!Processes : Len(job.writes[p]) \in Nat BY <1>2, LenProperties
<1>4. ASSUME NEW p \in Process!Processes, NEW i \in 1..Len(job.writes[p])
      PROVE  job.writes[p][i] \in Process!Streams
  BY <1>2, ElementOfSeq
<1>5. QED BY <1>1, <1>3, <1>4 DEF Process!IsCommand

LEMMA ProcessInit == ASSUME Process!Init PROVE ProcessInv
<1>1. Process!IsCommand(job) /\ job \in Commands
  BY ComputationAssumption DEF Process!Init, Process!CommandAssumption
<1>2. ProcessTypes BY <1>1 DEF Process!Init, ProcessTypes, Runners, Kept
<1>3. \A p \in Process!Processes : worker[p].pc = "runs" /\ worker[p].written = 0
  BY DEF Process!Init
<1>4. ASSUME NEW s \in Process!Streams
      PROVE  /\ IsFiniteSet(PutInto(s)) /\ Taken(s) \in Nat
             /\ result[s].kept = Process!Least(Taken(s), job.limit[s])
             /\ result[s].truncated <=> Taken(s) > job.limit[s]
  <2>1. PutInto(s) = {} BY <1>3 DEF PutInto
  <2>2. channel[s] = 0 /\ result[s].kept = 0 /\ ~result[s].truncated BY DEF Process!Init
  <2>3. Taken(s) = 0 /\ IsFiniteSet(PutInto(s)) BY <2>1, <2>2, FS_EmptySet DEF Taken
  <2>4. job.limit[s] \in Nat BY <1>2, ProcessJob
  <2>5. QED BY <2>2, <2>3, <2>4 DEF Process!Least
<1>5. EndIsOfAll
  <2>1. consumer.pc = "poll" /\ \A s \in Process!Streams : ~result[s].closed BY DEF Process!Init
  <2>2. QED BY <1>2, <1>3, <2>1, ProcessJob DEF EndIsOfAll
<1>6. QED BY <1>2, <1>4, <1>5 DEF ProcessInv, KeptIsFirst

\* Neither what is written nor what is taken changes.
LEMMA StreamsSame ==
  ASSUME KeptIsFirst, UNCHANGED <<job, channel>>,
         \A p \in Process!Processes : worker'[p].written = worker[p].written,
         \A s \in Process!Streams : result'[s].kept = result[s].kept
                                    /\ (result'[s].truncated <=> result[s].truncated)
  PROVE  KeptIsFirst'
<1>1. ASSUME NEW s \in Process!Streams PROVE PutInto(s)' = PutInto(s) /\ Taken(s)' = Taken(s)
  <2>1. PutInto(s)' = PutInto(s) BY DEF PutInto
  <2>2. QED BY <2>1 DEF Taken
<1>2. QED BY <1>1 DEF KeptIsFirst, Process!Least

LEMMA ProcessWrites ==
  ASSUME ProcessInv, NEW p \in Process!Processes, Process!Write(p)
  PROVE  ProcessInv'
<1>0. ProcessTypes BY DEF ProcessInv
<1>a. PICK n : n = worker[p].written + 1 OBVIOUS
<1>b. PICK s0 : s0 = job.writes[p][n] OBVIOUS
<1>1. /\ UNCHANGED <<job, shared, consumer, result>> /\ worker[p].pc = "runs"
      /\ worker[p].written # Len(job.writes[p])
      /\ channel' = [channel EXCEPT ![s0] = @ + 1]
      /\ worker' = [worker EXCEPT ![p].written = @ + 1]
  BY <1>a, <1>b DEF Process!Write, Process!HasWritten
<1>2. worker[p] \in Runners /\ worker[p].written \in Nat BY <1>0 DEF ProcessTypes, Runners
<1>3. /\ Len(job.writes[p]) \in Nat /\ worker[p].written < Len(job.writes[p])
      /\ n \in 1..Len(job.writes[p]) /\ s0 \in Process!Streams
  <2>1. Len(job.writes[p]) \in Nat /\ worker[p].written <= Len(job.writes[p])
    BY <1>0, ProcessJob DEF ProcessInv, EndIsOfAll
  <2>2. worker[p].written < Len(job.writes[p]) BY <1>1, <1>2, <2>1
  <2>3. n \in 1..Len(job.writes[p]) BY <1>a, <1>2, <2>1, <2>2
  <2>4. QED BY <1>0, <1>b, <2>1, <2>2, <2>3, ProcessJob
<1>4. /\ worker' \in [Process!Processes -> Runners]
      /\ worker'[p].written = n /\ worker'[p].pc = "runs"
      /\ \A q \in Process!Processes : q # p => worker'[q] = worker[q]
  BY <1>0, <1>a, <1>1, <1>2 DEF ProcessTypes, Runners
<1>5. /\ channel' \in [Process!Streams -> Nat] /\ channel'[s0] = channel[s0] + 1
      /\ \A s \in Process!Streams : s # s0 => channel'[s] = channel[s]
  BY <1>0, <1>1, <1>3 DEF ProcessTypes
<1>6. ProcessTypes' BY <1>0, <1>1, <1>4, <1>5 DEF ProcessTypes
<1>7. n \in Nat /\ \A i \in Nat : i \in 1..n <=> i \in 1..worker[p].written \/ i = n BY <1>a, <1>2
<1>8. PutInto(s0)' = PutInto(s0) \cup {<<p, n>>} /\ <<p, n>> \notin PutInto(s0)
  <2>1. n \notin 1..worker[p].written BY <1>a, <1>2
  <2>2. ASSUME NEW x \in Process!Processes \X Nat
        PROVE  x \in PutInto(s0)' <=> x \in PutInto(s0) \/ x = <<p, n>>
    <3>1. PICK q \in Process!Processes, i \in Nat : x = <<q, i>> OBVIOUS
    <3>2. CASE q = p BY <1>1, <1>3, <1>4, <1>7, <1>b, <3>1, <3>2 DEF PutInto
    <3>3. CASE q # p BY <1>1, <1>4, <3>1, <3>3 DEF PutInto
    <3>4. QED BY <3>2, <3>3
  <2>3. PutInto(s0)' \subseteq Process!Processes \X Nat
        /\ PutInto(s0) \subseteq Process!Processes \X Nat
    BY DEF PutInto
  <2>4. <<p, n>> \in Process!Processes \X Nat BY <1>7
  <2>5. <<p, n>> \notin PutInto(s0) BY <2>1 DEF PutInto
  <2>6. QED BY <2>2, <2>3, <2>4, <2>5
<1>9. ASSUME NEW s \in Process!Streams, s # s0 PROVE PutInto(s)' = PutInto(s)
  <2>1. ASSUME NEW q \in Process!Processes, NEW i \in Nat
        PROVE  <<q, i>> \in PutInto(s)' <=> <<q, i>> \in PutInto(s)
    <3>1. CASE q = p BY <1>1, <1>4, <1>7, <1>9, <1>b, <3>1 DEF PutInto
    <3>2. CASE q # p BY <1>1, <1>4, <3>2 DEF PutInto
    <3>3. QED BY <3>1, <3>2
  <2>2. PutInto(s)' \subseteq Process!Processes \X Nat
        /\ PutInto(s) \subseteq Process!Processes \X Nat
    BY DEF PutInto
  <2>3. QED BY <2>1, <2>2
<1>10. ASSUME NEW s \in Process!Streams
       PROVE  IsFiniteSet(PutInto(s))' /\ Taken(s)' = Taken(s)
  <2>1. CASE s = s0
    <3>1. IsFiniteSet(PutInto(s0)) BY <1>3 DEF ProcessInv, KeptIsFirst
    <3>2. /\ IsFiniteSet(PutInto(s0) \cup {<<p, n>>})
          /\ Cardinality(PutInto(s0) \cup {<<p, n>>}) = Cardinality(PutInto(s0)) + 1
      BY <1>8, <3>1, FS_AddElement
    <3>3. Cardinality(PutInto(s0)) \in Nat BY <3>1, FS_CardinalityType
    <3>4. channel[s0] \in Nat BY <1>0, <1>3 DEF ProcessTypes
    <3>5. Cardinality(PutInto(s0)') - channel'[s0] = Cardinality(PutInto(s0)) - channel[s0]
      BY <1>5, <1>8, <3>2, <3>3, <3>4
    <3>6. Taken(s0)' = Taken(s0) BY <3>5 DEF Taken
    <3>7. IsFiniteSet(PutInto(s0))' BY <1>8, <3>2
    <3>8. QED BY <2>1, <3>6, <3>7
  <2>2. CASE s # s0
    <3>1. IsFiniteSet(PutInto(s)) BY DEF ProcessInv, KeptIsFirst
    <3>2. PutInto(s)' = PutInto(s) /\ channel'[s] = channel[s] BY <1>5, <1>9, <2>2
    <3>3. QED BY <3>1, <3>2 DEF Taken
  <2>3. QED BY <2>1, <2>2
<1>11. KeptIsFirst' BY <1>1, <1>10 DEF ProcessInv, KeptIsFirst, Process!Least
<1>12. EndIsOfAll'
  <2>1. \A q \in Process!Processes : worker'[q].written <= Len(job.writes[q])
    BY <1>3, <1>4 DEF ProcessInv, EndIsOfAll
  <2>2. \A q \in Process!Processes : worker'[q].pc = worker[q].pc BY <1>1, <1>4
  <2>3. \A q \in Process!Processes : worker'[q].pc # "runs" => worker'[q] = worker[q]
    BY <1>4
  <2>4. ASSUME NEW s \in Process!Streams PROVE ~result[s].closed
    BY <1>1 DEF ProcessInv, EndIsOfAll
  <2>5. QED BY <1>1, <2>1, <2>2, <2>3, <2>4
     DEF ProcessInv, EndIsOfAll, Process!HasWritten
<1>13. QED BY <1>6, <1>11, <1>12 DEF ProcessInv

\* A reader takes what is in its pipe, some of it or all.
LEMMA ProcessReads ==
  ASSUME ProcessInv, NEW s0 \in Process!Streams, Process!Read(s0)
  PROVE  ProcessInv'
<1>0. ProcessTypes BY DEF ProcessInv
<1>1. PICK n \in 1..channel[s0] : Process!Takes(s0, n) BY DEF Process!Read
<1>2. channel[s0] \in Nat /\ n \in Nat /\ n <= channel[s0] /\ channel[s0] - n \in Nat
  BY <1>0 DEF ProcessTypes
<1>3. result[s0] \in Kept BY <1>0 DEF ProcessTypes
<1>4. /\ UNCHANGED <<job, shared, worker, consumer>> /\ consumer.pc = "poll"
      /\ channel' = [channel EXCEPT ![s0] = @ - n]
      /\ result' = [result EXCEPT
           ![s0].kept = Process!Least(@ + n, job.limit[s0]),
           ![s0].truncated = @ \/ result[s0].kept + n > job.limit[s0]]
  BY <1>1 DEF Process!Takes, Process!Read, Process!Over
<1>5. job.limit[s0] \in Nat /\ result[s0].kept \in Nat BY <1>0, <1>3, ProcessJob DEF Kept
<1>6. PICK k \in Nat : k = Process!Least(result[s0].kept + n, job.limit[s0])
  BY <1>2, <1>5 DEF Process!Least
<1>7. PICK b \in BOOLEAN : b = (result[s0].truncated \/ result[s0].kept + n > job.limit[s0])
  OBVIOUS
<1>8. PICK r \in Kept : r = [kept |-> k, truncated |-> b, closed |-> result[s0].closed]
  BY <1>3 DEF Kept
<1>9. result' = [result EXCEPT ![s0] = r]
  <2>1. result' = [result EXCEPT ![s0] = [result[s0] EXCEPT !.kept = k, !.truncated = b]]
    <3>1. result \in [Process!Streams -> Kept] BY <1>0 DEF ProcessTypes
    <3>2. result' = [result EXCEPT ![s0].kept = k, ![s0].truncated = b]
      BY <1>4, <1>6, <1>7
    <3>3. QED BY ONLY <3>1, <3>2
  <2>2. [result[s0] EXCEPT !.kept = k, !.truncated = b] = r
    <3>1. PICK a \in Kept : a = result[s0] BY <1>3
    <3>2. [a EXCEPT !.kept = k, !.truncated = b] \in Kept BY ONLY <3>1, <1>6 DEF Kept
    <3>3. /\ [a EXCEPT !.kept = k, !.truncated = b].kept = k
          /\ [a EXCEPT !.kept = k, !.truncated = b].truncated = b
          /\ [a EXCEPT !.kept = k, !.truncated = b].closed = a.closed
      BY ONLY <3>1 DEF Kept
    <3>4. \A c, d \in Kept :
            c.kept = d.kept /\ c.truncated = d.truncated /\ c.closed = d.closed => c = d
      BY ONLY DEF Kept
    <3>5. r.kept = k /\ r.truncated = b /\ r.closed = a.closed BY <1>8, <3>1
    <3>6. QED BY <3>1, <3>2, <3>3, <3>4, <3>5
  <2>3. QED BY <2>1, <2>2
<1>10. /\ result' \in [Process!Streams -> Kept] /\ result'[s0] = r
       /\ \A s \in Process!Streams : s # s0 => result'[s] = result[s]
  BY <1>0, <1>9 DEF ProcessTypes
<1>11. /\ channel' \in [Process!Streams -> Nat] /\ channel'[s0] = channel[s0] - n
       /\ \A s \in Process!Streams : s # s0 => channel'[s] = channel[s]
  BY <1>0, <1>2, <1>4 DEF ProcessTypes
<1>12. ProcessTypes' BY <1>0, <1>4, <1>10, <1>11 DEF ProcessTypes
<1>13. \A s : PutInto(s)' = PutInto(s) BY <1>4 DEF PutInto
<1>14. ASSUME NEW s \in Process!Streams
       PROVE  /\ IsFiniteSet(PutInto(s)) /\ Taken(s) \in Nat
              /\ result[s].kept = Process!Least(Taken(s), job.limit[s])
              /\ result[s].truncated <=> Taken(s) > job.limit[s]
  BY DEF ProcessInv, KeptIsFirst
<1>15. ASSUME NEW s \in Process!Streams
       PROVE  /\ IsFiniteSet(PutInto(s)) /\ Taken(s)' \in Nat
              /\ result'[s].kept = Process!Least(Taken(s)', job.limit[s])
              /\ result'[s].truncated <=> Taken(s)' > job.limit[s]
  <2>1. CASE s = s0
    <3>1. PICK d \in Nat : d = Taken(s0) BY <1>14
    <3>2. Cardinality(PutInto(s0)) \in Nat BY <1>14, FS_CardinalityType
    <3>3. d = Cardinality(PutInto(s0)) - channel[s0] BY <3>1 DEF Taken
    <3>4. Cardinality(PutInto(s0)) - (channel[s0] - n) = d + n BY <1>2, <3>2, <3>3
    <3>5. Taken(s0)' = d + n BY <1>11, <1>13, <3>4 DEF Taken
    <3>6. PICK L \in Nat : L = job.limit[s0] BY <1>5
    <3>7. PICK k0 \in Nat : k0 = result[s0].kept BY <1>5
    <3>8. k0 = (IF d < L THEN d ELSE L) /\ (result[s0].truncated <=> d > L)
      BY <1>14, <3>1, <3>6, <3>7 DEF Process!Least
    <3>9. k = (IF k0 + n < L THEN k0 + n ELSE L) BY <1>6, <3>6, <3>7 DEF Process!Least
    <3>10. k = (IF d + n < L THEN d + n ELSE L) BY <1>2, <3>8, <3>9
    <3>11. b <=> (d > L \/ k0 + n > L) BY <1>7, <3>6, <3>7, <3>8
    <3>12. b <=> d + n > L BY <1>2, <3>8, <3>11
    <3>13. result'[s0].kept = k /\ result'[s0].truncated = b BY <1>8, <1>10
    <3>14. d + n \in Nat BY <1>2
    <3>15. QED BY <1>14, <2>1, <3>5, <3>6, <3>10, <3>12, <3>13, <3>14 DEF Process!Least
  <2>2. CASE s # s0
    <3>1. Taken(s)' = Taken(s) BY <1>11, <1>13, <2>2 DEF Taken
    <3>2. QED BY <1>10, <1>14, <2>2, <3>1
  <2>3. QED BY <2>1, <2>2
<1>16. KeptIsFirst' BY <1>4, <1>13, <1>15 DEF KeptIsFirst, Process!Least
<1>17. EndIsOfAll'
  <2>1. ASSUME NEW s \in Process!Streams, result'[s].closed
        PROVE  channel'[s] = 0 /\ \A p \in Process!Processes : worker[p].pc # "runs"
    <3>1. result[s].closed BY <1>8, <1>10, <2>1
    <3>2. channel[s] = 0 /\ \A p \in Process!Processes : worker[p].pc # "runs"
      BY <3>1 DEF ProcessInv, EndIsOfAll
    <3>3. s # s0 BY <1>2, <3>2
    <3>4. QED BY <1>11, <3>2, <3>3
  <2>2. QED BY <1>4, <2>1 DEF ProcessInv, EndIsOfAll, Process!HasWritten
<1>18. QED BY <1>12, <1>16, <1>17 DEF ProcessInv

LEMMA ProcessExits ==
  ASSUME ProcessInv, NEW p \in Process!Processes, Process!Exit(p) PROVE ProcessInv'
<1>0. ProcessTypes BY DEF ProcessInv
<1>1. /\ UNCHANGED <<job, shared, channel, consumer, result>> /\ worker[p].pc = "runs"
      /\ Process!HasWritten(p) /\ consumer.pc = "poll"
      /\ worker' = [worker EXCEPT ![p].pc = "ended"]
  BY DEF Process!Exit, Process!Over
<1>2. /\ worker' \in [Process!Processes -> Runners]
      /\ \A q \in Process!Processes : worker'[q].written = worker[q].written
                                      /\ (q # p => worker'[q].pc = worker[q].pc)
  BY <1>0, <1>1 DEF ProcessTypes, Runners
<1>3. ProcessTypes' BY <1>0, <1>1, <1>2 DEF ProcessTypes
<1>4. KeptIsFirst' BY <1>1, <1>2, StreamsSame DEF ProcessInv
<1>5. \A s \in Process!Streams : ~result[s].closed BY <1>1 DEF ProcessInv, EndIsOfAll
<1>6. EndIsOfAll'
  BY <1>1, <1>2, <1>5 DEF ProcessInv, EndIsOfAll, Process!HasWritten
<1>7. QED BY <1>3, <1>4, <1>6 DEF ProcessInv

LEMMA ProcessCloses ==
  ASSUME ProcessInv, NEW s0 \in Process!Streams, Process!Close(s0) PROVE ProcessInv'
<1>0. ProcessTypes BY DEF ProcessInv
<1>1. /\ UNCHANGED <<job, shared, worker, channel, consumer>> /\ channel[s0] = 0
      /\ \A p \in Process!Processes : worker[p].pc # "runs"
      /\ result' = [result EXCEPT ![s0].closed = TRUE]
  BY DEF Process!Close
<1>2. /\ result' \in [Process!Streams -> Kept]
      /\ \A s \in Process!Streams :
           result'[s].kept = result[s].kept /\ result'[s].truncated = result[s].truncated
  BY <1>0, <1>1 DEF ProcessTypes, Kept
<1>3. \A s \in Process!Streams : /\ s # s0 => result'[s] = result[s]
                                 /\ result[s].closed => result'[s].closed
  BY <1>0, <1>1 DEF ProcessTypes, Kept
<1>4. ProcessTypes' BY <1>0, <1>1, <1>2 DEF ProcessTypes
<1>5. KeptIsFirst' BY <1>1, <1>2, StreamsSame DEF ProcessInv
<1>6. EndIsOfAll'
  BY <1>1, <1>3 DEF ProcessInv, EndIsOfAll, Process!HasWritten
<1>7. QED BY <1>4, <1>5, <1>6 DEF ProcessInv

LEMMA ProcessEnds == ASSUME ProcessInv, Process!Terminate PROVE ProcessInv'
<1>0. ProcessTypes BY DEF ProcessInv
<1>1. /\ UNCHANGED <<job, shared, channel, result>> /\ shared /\ consumer.pc = "poll"
      /\ consumer' = [consumer EXCEPT !.pc = "timeout"]
      /\ worker' = [p \in Process!Processes |->
           IF p = "helper" /\ job.escaped THEN worker[p]
           ELSE [worker[p] EXCEPT !.pc = "ended"]]
  BY DEF Process!Terminate, Process!Over
<1>2. ASSUME NEW p \in Process!Processes
      PROVE  /\ worker'[p] \in Runners /\ worker'[p].written = worker[p].written
             /\ worker'[p].pc = "runs" => worker[p].pc = "runs" /\ p = "helper" /\ job.escaped
  <2>1. worker[p] \in Runners BY <1>0 DEF ProcessTypes
  <2>2. CASE p = "helper" /\ job.escaped BY <1>1, <2>1, <2>2
  <2>3. CASE ~(p = "helper" /\ job.escaped)
    <3>1. worker'[p] = [worker[p] EXCEPT !.pc = "ended"] BY <1>1, <2>3
    <3>2. QED BY <2>1, <3>1 DEF Runners
  <2>4. QED BY <2>2, <2>3
<1>3. ProcessTypes'
  <2>1. worker' \in [Process!Processes -> Runners] BY <1>1, <1>2
  <2>2. consumer' \in [pc : {"poll", "done", "timeout"}, exited : BOOLEAN]
    BY <1>0, <1>1 DEF ProcessTypes
  <2>3. QED BY <1>0, <1>1, <2>1, <2>2 DEF ProcessTypes
<1>4. consumer'.pc = "timeout" BY <1>0, <1>1 DEF ProcessTypes
<1>5. KeptIsFirst' BY <1>1, <1>2, StreamsSame DEF ProcessInv
<1>6. EndIsOfAll' BY <1>1, <1>2, <1>4 DEF ProcessInv, EndIsOfAll
<1>7. QED BY <1>3, <1>5, <1>6 DEF ProcessInv

\* The clock, or the loop, goes on.
LEMMA ProcessGoes ==
  ASSUME ProcessInv, UNCHANGED <<job, worker, channel, result>>, consumer.pc = "poll",
         shared' \in BOOLEAN,
         consumer' \in [pc : {"poll", "done"}, exited : BOOLEAN],
         consumer'.pc = "done" => \A s \in Process!Streams : result[s].closed
  PROVE  ProcessInv'
<1>1. ProcessTypes' BY DEF ProcessInv, ProcessTypes
<1>2. KeptIsFirst' BY StreamsSame DEF ProcessInv
<1>3. consumer'.pc # "timeout" OBVIOUS
<1>4. EndIsOfAll' BY <1>3 DEF ProcessInv, EndIsOfAll, Process!HasWritten
<1>5. QED BY <1>1, <1>2, <1>4 DEF ProcessInv

LEMMA ProcessStep == ASSUME ProcessInv, Process!Next PROVE ProcessInv'
<1>0. consumer \in [pc : {"poll", "done", "timeout"}, exited : BOOLEAN] /\ shared \in BOOLEAN
  BY DEF ProcessInv, ProcessTypes
<1>1. ASSUME Process!Expire PROVE ProcessInv'
  <2>1. /\ UNCHANGED <<job, worker, channel, consumer, result>> /\ consumer.pc = "poll"
        /\ shared' = TRUE
    BY <1>1 DEF Process!Expire, Process!Over
  <2>2. consumer' \in [pc : {"poll", "done"}, exited : BOOLEAN] /\ consumer'.pc = "poll"
    BY <1>0, <2>1
  <2>3. QED BY <2>1, <2>2, ProcessGoes
<1>2. ASSUME Process!TryWait PROVE ProcessInv'
  <2>1. /\ UNCHANGED <<job, shared, worker, channel, result>> /\ consumer.pc = "poll"
        /\ consumer' = [consumer EXCEPT !.exited = TRUE]
    BY <1>2 DEF Process!TryWait, Process!Over
  <2>2. consumer' \in [pc : {"poll", "done"}, exited : BOOLEAN] /\ consumer'.pc = "poll"
    BY <1>0, <2>1
  <2>3. QED BY <1>0, <2>1, <2>2, ProcessGoes
<1>3. ASSUME Process!Finish PROVE ProcessInv'
  <2>1. /\ UNCHANGED <<job, shared, worker, channel, result>> /\ consumer.pc = "poll"
        /\ consumer' = [consumer EXCEPT !.pc = "done"]
        /\ \A s \in Process!Streams : result[s].closed
    BY <1>3 DEF Process!Finish, Process!Over
  <2>2. consumer' \in [pc : {"poll", "done"}, exited : BOOLEAN] BY <1>0, <2>1
  <2>3. QED BY <1>0, <2>1, <2>2, ProcessGoes
<1>4. QED
  BY <1>1, <1>2, <1>3, ProcessEnds, ProcessWrites, ProcessExits, ProcessReads, ProcessCloses
     DEF Process!Next

LEMMA ProcessStands ==
  ASSUME ProcessInv, UNCHANGED <<job, shared, worker, channel, consumer, result>>
  PROVE  ProcessInv'
<1>1. ProcessTypes' BY DEF ProcessInv, ProcessTypes
<1>2. KeptIsFirst' BY StreamsSame DEF ProcessInv
<1>3. EndIsOfAll' BY DEF ProcessInv, EndIsOfAll, Process!HasWritten
<1>4. QED BY <1>1, <1>2, <1>3 DEF ProcessInv

LEMMA OutputIsCompleteOrMarked == ASSUME ProcessInv PROVE Process!CompleteOrMarked
<1>0. ProcessTypes BY DEF ProcessInv
<1>1. ASSUME consumer.pc = "done", NEW s \in Process!Streams
      PROVE  /\ result[s].kept = Process!Least(Process!Written(s), job.limit[s])
             /\ result[s].truncated <=> Process!Written(s) > job.limit[s]
  <2>1. /\ channel[s] = 0 /\ \A p \in Process!Processes : worker[p].pc # "runs"
    BY <1>1 DEF ProcessInv, EndIsOfAll
  <2>2. \A p \in Process!Processes : worker[p].written = Len(job.writes[p])
    BY <1>1, <2>1 DEF ProcessInv, EndIsOfAll, Process!HasWritten
  <2> DEFINE all == UNION {{<<p, i>> : i \in {k \in 1..Len(job.writes[p]) : job.writes[p][k] = s}} :
                           p \in Process!Processes}
  <2>4. PutInto(s) = all
    <3>1. ASSUME NEW x \in PutInto(s) PROVE x \in all
      <4>1. PICK p \in Process!Processes, i \in Nat : x = <<p, i>> BY <3>1 DEF PutInto
      <4>2. i \in 1..Len(job.writes[p]) /\ job.writes[p][i] = s BY <2>2, <4>1 DEF PutInto
      <4>3. QED BY <4>1, <4>2
    <3>2. ASSUME NEW x \in all PROVE x \in PutInto(s)
      <4>1. PICK p \in Process!Processes :
              \E i \in 1..Len(job.writes[p]) : x = <<p, i>> /\ job.writes[p][i] = s
        OBVIOUS
      <4>2. PICK i \in 1..Len(job.writes[p]) : x = <<p, i>> /\ job.writes[p][i] = s BY <4>1
      <4>3. i \in Nat /\ i \in 1..worker[p].written BY <2>2
      <4>4. QED BY <4>2, <4>3 DEF PutInto
    <3>3. QED BY <3>1, <3>2
  <2>5. Process!Written(s) = Cardinality(PutInto(s))
    <3>1. Process!Written(s) = Process!Cardinality(all) BY DEF Process!Written
    <3>2. QED BY <2>4, <3>1, ProcessCounts
  <2>6. Cardinality(PutInto(s)) \in Nat BY FS_CardinalityType DEF ProcessInv, KeptIsFirst
  <2>7. Taken(s) = Process!Written(s) BY <2>1, <2>5, <2>6 DEF Taken
  <2>8. QED BY <2>7 DEF ProcessInv, KeptIsFirst
<1>2. consumer.pc = "timeout" =>
        shared /\ \A p \in Process!Processes :
          worker[p].pc = "runs" => p = "helper" /\ job.escaped
  BY DEF ProcessInv, EndIsOfAll
<1>3. QED BY <1>1, <1>2 DEF Process!CompleteOrMarked

(***************************************************************************)
(* All of them.                                                            *)
(***************************************************************************)
AnswersInv ==
  /\ program = "write"   => OrderInv
  /\ program = "serve"   => ServeInv
  /\ program = "process" => ProcessInv

LEMMA AnswersInit == ASSUME Init PROVE AnswersInv
BY OrderInit, ServeInit, ProcessInit DEF Init, AnswersInv

LEMMA AnswersStep ==
  ASSUME ThreadsInv, AnswersInv, [Next]_vars
  PROVE  AnswersInv'
<1>1. ASSUME SerialStep PROVE AnswersInv'
  <2>1. program' = program /\ program \in {"route", "deps", "count", "cycles", "paths", "tree"}
    BY <1>1 DEF SerialStep
  <2>2. QED BY <2>1 DEF AnswersInv
<1>2. ASSUME ConsumerStep \/ \E t \in Threads : WorkerStep(t) PROVE AnswersInv'
  <2>1. /\ program' = program
        /\ program = "write"   => Write!ConsumerStep \/ \E t \in Threads : Write!WorkerStep(t)
        /\ program = "serve"   => Serve!ConsumerStep \/ \E t \in Threads : Serve!WorkerStep(t)
        /\ program = "process" => Process!Next
    BY <1>2 DEF ConsumerStep, WorkerStep
  <2>2. program = "write" => WriteInv BY DEF ThreadsInv
  <2>3. QED BY <2>1, <2>2, OrderStep, ServeStep, ProcessStep DEF AnswersInv
<1>3. ASSUME UNCHANGED vars PROVE AnswersInv'
  <2>1. UNCHANGED <<program, job, shared, worker, channel, consumer, result>>
    BY <1>3 DEF vars
  <2>2. QED BY <2>1, OrderStands, ServeStands, ProcessStands DEF AnswersInv
<1>4. QED BY <1>1, <1>2, <1>3 DEF Next

LEMMA AnswersHold == Spec => []AnswersInv
BY AnswersInit, AnswersStep, ThreadsHold, PTL DEF Spec

(***************************************************************************)
(* The parse pipeline of a rebuild (parse_and_write_in_order) stores the   *)
(* files in their order, batch after batch, with what the parser made of   *)
(* each, all of them when it reports success and none beyond a failed      *)
(* transaction; the MCP server (main of ast-index-mcp) answers every request    *)
(* once and those without a thread of their own in order; and a command    *)
(* of the version control system (run_bounded_capped) is reported done     *)
(* only with its whole output, or its first part and the mark that there   *)
(* was more.  All that for any number of threads and any job, in whatever  *)
(* order threads and processes take their steps.                           *)
(***************************************************************************)
THEOREM ProgramsAreAsOneThread ==
  Spec => [](program \in {"write", "serve", "process"} => AsOneThread)
<1>1. ASSUME ThreadsInv, AnswersInv, program \in {"write", "serve", "process"}
      PROVE  AsOneThread
  <2>1. CASE program = "write"
    <3>1. WriteInv /\ OrderInv BY <1>1, <2>1 DEF ThreadsInv, AnswersInv
    <3>2. Write!StoredInOrder BY <3>1, OrderIsThatOfOneThread
    <3>3. QED BY <2>1, <3>2 DEF AsOneThread
  <2>2. CASE program = "serve"
    <3>1. Serve!EveryRequestAnswered /\ Serve!InlineInOrder
      BY <1>1, <2>2, EveryRequestHasItsAnswer DEF AnswersInv
    <3>2. QED BY <2>2, <3>1 DEF AsOneThread
  <2>3. CASE program = "process"
    <3>1. Process!CompleteOrMarked
      BY <1>1, <2>3, OutputIsCompleteOrMarked DEF AnswersInv
    <3>2. QED BY <2>3, <3>1 DEF AsOneThread
  <2>4. QED BY <1>1, <2>1, <2>2, <2>3
<1>2. ThreadsInv /\ AnswersInv => (program \in {"write", "serve", "process"} => AsOneThread)
  BY <1>1
<1>3. QED BY <1>2, ThreadsHold, AnswersHold, PTL
=============================================================================
