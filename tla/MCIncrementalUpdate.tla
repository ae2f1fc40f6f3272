------------------------ MODULE MCIncrementalUpdate ------------------------
(***************************************************************************)
(* IncrementalUpdate on two source files.                                  *)
(***************************************************************************)
EXTENDS IncrementalUpdate, TLC

CONSTANTS f1, f2
TwoSources == {f1, f2}

\* The two sources are alike, so that each pair of kinds is needed once.
KindsOf == { f1 :> a @@ f2 :> b :
               <<a, b>> \in {<<"plain", "plain">>, <<"plain", "minified">>,
                            <<"plain", "gone">>, <<"minified", "minified">>,
                            <<"minified", "gone">>, <<"gone", "gone">>} }

ModulesOf(fingerprint, list, deps, closure) ==
  [fingerprint |-> fingerprint, list |-> list, deps |-> deps, closure |-> closure]

Rebuilt == ModulesOf(1, 1, 1, 1)

\* A build file edited while a full rebuild was reading it; a rebuild of the
\* modules; a rebuild of the files of a new index; an older version.
Leftovers == {ModulesOf(1, Older, 1, 1), ModulesOf(1, 1, 1, Older),
              ModulesOf(Absent, Older, Older, Older), ModulesOf(Absent, 1, 1, 1)}

Index(kind, done, modulesLeft, crashesLeft, graphsLeft) ==
  [kind |-> kind, filtered |-> done, modules |-> modulesLeft,
   crashes |-> crashesLeft, graphs |-> graphsLeft]

PlainAndGone == f1 :> "plain" @@ f2 :> "gone"

\* Crashes and builds of the symbol graph meet in the last of these only.
SmallIndexes ==
  {Index(kind, done, Rebuilt, 1, 0) : kind \in KindsOf, done \in BOOLEAN} \cup
  {Index(kind, TRUE, Rebuilt, 0, 1) : kind \in KindsOf} \cup
  {Index(f1 :> "plain" @@ f2 :> "minified", FALSE, Rebuilt, 0, 1)} \cup
  {Index(PlainAndGone, TRUE, left, 1, 0) : left \in Leftovers} \cup
  {Index(PlainAndGone, TRUE, Rebuilt, 1, 1)}
=============================================================================
