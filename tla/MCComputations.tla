-------------------------- MODULE MCComputations --------------------------
(***************************************************************************)
(* Computations with two threads and small inputs.                         *)
(***************************************************************************)
EXTENDS Computations, SequencesExt

CONSTANTS t1, t2
TwoThreads == {t1, t2}

SomeRebuilds ==
  [files : {1, 3, 5, 6}, batch : {1, 2}, skipped : {{}, {1}}, failing : {{}, {1}, {2}},
   panics : {{}, {1}}, startable : {1, 2}]

\* Three files; the second one is ruled out if there is nothing in it.
Contents == {<<>>, <<{1}, {2}>>, <<{1, 2}>>, <<{1}, {}, {1}>>}
SomeSearches ==
  {[patterns |-> 2, limit |-> l, files |-> fs, ruledOut |-> {f \in {2} : fs[f] = <<>>}] :
     l \in {1, 2}, fs \in [1..3 -> Contents]}

SomeScans ==
  UNION {[limit : {l}, capacity : {IF l = 0 THEN 1 ELSE l}, matches : [1..3 -> 0..2]] :
           l \in 0..3}

\* Windows of two commits; a commit of size 3 exceeds the output alone, two of
\* size 2 together.
SomeReadings ==
  [sizes : {<<1>>, <<3>>} \cup [1..4 -> {1, 2, 3}] \cup [1..5 -> {1, 2, 3}],
   window : {2}, limit : {2}, broken : {{}, {1}}]

SomeWalks ==
  [entries : {1..4}, unreadable : {{}, {1}}, files : {{2}, {2, 3}, {2, 3, 4}}, cap : 0..4]

\* Two calls at most, among other lines.
SomeLines == [kind : {"call", "other"}, hasId : BOOLEAN]
             \cup [kind : {"blank", "unreadable"}, hasId : {FALSE}]
SomeSessions ==
  {s \in [lines : [1..4 -> SomeLines], accepts : {1, 4}] :
     Cardinality({i \in 1..4 : s.lines[i].kind = "call"}) <= 2}

\* The helper outlives the child, or hangs; a pipe holds one or two writes.
SomeWrites == {<<>>, <<"out">>, <<"out", "err">>, <<"err", "err", "out">>, <<"out", "out", "out">>}
SomeCommands ==
  UNION {[writes : [{"child", "helper"} -> SomeWrites], hangs : {h}, escaped : BOOLEAN,
          pipe : {1, 2}, limit : {[out |-> 2, err |-> 1]},
          expires : IF h = {} THEN BOOLEAN ELSE {TRUE}] : h \in {{}, {"child"}, {"helper"}}}

\* Four modules, two ways in between and a cycle.
AllEdges  == <<<<1, 1, "implementation">>, <<4, 1, "implementation">>,
               <<1, 2, "api">>, <<1, 2, "implementation">>, <<3, 2, "api">>,
               <<1, 3, "api">>, <<2, 3, "api">>, <<1, 4, "api">>, <<1, 4, "implementation">>,
               <<2, 4, "api">>, <<3, 4, "api">>, <<3, 4, "implementation">>>>
SomeEdges ==
  {SelectSeq(AllEdges, LAMBDA e : e \in edges) :
     edges \in {api \cup other :
       api   \in SUBSET {e \in ToSet(AllEdges) : e[3] = "api"},
       other \in {{}, {<<1, 4, "implementation">>, <<1, 1, "implementation">>},
                  {<<1, 2, "implementation">>, <<3, 4, "implementation">>,
                   <<4, 1, "implementation">>}}}}
SomeKinds == {{"api"}, {"api", "implementation"}}
SomeRoutes ==
  [edges : SomeEdges, from : {1}, to : {4}, kinds : SomeKinds, all : {TRUE},
   maxPaths : {1, 2, 10}, maxDepth : {2, 3}, hurried : BOOLEAN]
  \cup [edges : SomeEdges, from : {1}, to : {1, 4}, kinds : SomeKinds, all : {FALSE},
        maxPaths : {0}, maxDepth : {2, 3}, hurried : BOOLEAN]
  \cup [edges : {<<<<1, 4, "api">>>>}, from : {1}, to : {4}, kinds : SomeKinds, all : {TRUE},
        maxPaths : {0}, maxDepth : {2}, hurried : {FALSE}]

\* A chain longer than the depth, with short cuts and cycles.
SomeDependencies ==
  {chain \cup more :
     chain \in SUBSET {<<1, 2, "api">>, <<2, 3, "api">>, <<3, 4, "api">>, <<4, 5, "api">>},
     more  \in SUBSET {<<2, 1, "api">>, <<1, 3, "implementation">>, <<3, 5, "api">>,
                       <<5, 2, "api">>, <<1, 2, "implementation">>}}

\* A type with an import and two methods, two symbols of a file without
\* ranges, and one of a package; up to three references in the order of files.
SomeSymbols ==
  <<[file |-> 1, line |-> 1, end |-> 6, owns |-> TRUE],
    [file |-> 1, line |-> 2, end |-> 0, owns |-> FALSE],
    [file |-> 1, line |-> 3, end |-> 4, owns |-> TRUE],
    [file |-> 1, line |-> 4, end |-> 5, owns |-> TRUE],
    [file |-> 2, line |-> 2, end |-> 0, owns |-> TRUE],
    [file |-> 2, line |-> 4, end |-> 0, owns |-> TRUE],
    [file |-> 3, line |-> 1, end |-> 3, owns |-> TRUE]>>
SomeRefs ==
  [file : {1}, line : {4}, name : {1, 2}, targets : {{5}, {5, 6}}, sure : {0, 4}]
  \cup [file : {1}, line : {2}, name : {1}, targets : {{5, 6}}, sure : {-1, 4}]
  \cup [file : {1}, line : {5, 7}, name : {1}, targets : {{3, 4, 5}}, sure : {4}]
  \cup [file : {2}, line : {1, 5}, name : {1}, targets : {{6}}, sure : {3}]
  \cup [file : {2}, line : {5}, name : {1}, targets : {{1, 3}}, sure : {4}]
  \cup [file : {3}, line : {2}, name : {1}, targets : {{1}}, sure : {3}]
SomeBuilds ==
  [symbols : {SomeSymbols}, vendor : {{3}}, group : {1, 2}, cap : {2},
   refs : {r \in UNION {[1..n -> SomeRefs] : n \in 0..3} :
             \A i \in 1..(Len(r) - 1) : r[i].file <= r[i + 1].file}]

\* All graphs of four symbols.
AllSymbolGraphs ==
  {[n \in 1..4 |-> SetToSortSeq(g[n], <)] :
     g \in {h \in [1..4 -> SUBSET (1..4)] : \A n \in 1..4 : n \notin h[n]}}

\* Up to two users each.
SomeCounts ==
  [incoming : {g \in AllSymbolGraphs : \A n \in 1..4 : Len(g[n]) <= 2}, depth : {2}]

AllUses   == <<<<1, 2, "uses">>, <<1, 3, "uses">>, <<2, 3, "uses">>, <<2, 4, "uses">>,
               <<3, 4, "uses">>, <<3, 5, "uses">>, <<4, 5, "uses">>, <<5, 1, "uses">>>>
SomeUses  == {SelectSeq(AllUses, LAMBDA e : e \in uses) : uses \in SUBSET ToSet(AllUses)}
SomeMembers == {<<>>, <<<<1, 3, "contains">>>>,
                <<<<1, 3, "contains">>, <<4, 5, "contains">>>>}
SomeQuestions ==
  [edges : SomeUses, members : SomeMembers, from : {{1}, {1, 2}}, to : {{5}, {4, 5}, {2, 5}},
   tests : {{}}, maxDepth : {3}, maxPaths : {1, 9}, asks : {"path"}]
  \cup [edges : SomeUses, members : {<<>>}, from : {{5}, {4, 5}}, to : {{}},
        tests : SUBSET {2, 3}, maxDepth : 1..3, maxPaths : {0}, asks : {"impact"}]

\* Callers of five names in both orders, one name with two definitions, and
\* cycles.
Ordered(sites) ==
  {SetToSortSeq(s, LAMBDA a, b : a[1] < b[1]) : s \in SUBSET sites}
  \cup {SetToSortSeq(s, LAMBDA a, b : a[1] > b[1]) : s \in SUBSET sites}
SomeTrees ==
  [callers : {<<a, b, c, d, <<>>>> :
                a \in Ordered({<<2, 1>>, <<2, 2>>, <<3, 1>>}),
                b \in Ordered({<<1, 1>>, <<3, 1>>, <<4, 1>>}),
                c \in Ordered({<<2, 1>>, <<4, 1>>}), d \in Ordered({<<5, 1>>, <<2, 1>>})},
   root : {1}, depth : 1..4, uncallable : {{}, {4}}]

\* One rebuild of four files, whose first file makes its parser panic.
APanic ==
  [files : {4}, batch : {1}, skipped : {{}}, failing : {{}}, panics : {{1}},
   startable : {2}]
None == {}
=============================================================================
