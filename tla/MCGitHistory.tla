---------------------------- MODULE MCGitHistory ----------------------------
EXTENDS GitHistory
CONSTANTS k1, k2
TwoCollectors == {k1, k2}
TwoPaths == {"a", "b"}

Write(p)     == [kind |-> "write",  path |-> p,  from |-> p]
Delete(p)    == [kind |-> "delete", path |-> p,  from |-> p]
Rename(f, t) == [kind |-> "rename", path |-> t,  from |-> f]

\* Two branches off a root, merged by the last commit; and a short branch
\* beside a longer one.
Merged == <<{}, {1}, {1}, {2, 3}>>
Forked == <<{}, {1}, {1}, {3}>>

Edits == {{}, {Write("a")}, {Write("b")}, {Delete("a")},
          {Rename("a", "b")}, {Rename("b", "a")}}
FirstEdits == {{Write("a")}, {Delete("a")}, {Rename("a", "b")}}
Roots == {{Write("a")}, {Write("a"), Write("b")}}
Resolutions == {{}, {Write("a")}, {Delete("b")}}

\* Dates that agree with the ancestry and dates of clocks that run backwards.
Dates == {<<1, 1, 1, 1>>, <<4, 3, 2, 1>>}

Graph(parents, date, changes) ==
  [parents |-> parents, date |-> date, changes |-> changes]

Graphs(parents, dates, roots, c2s, c3s, c4s) ==
  {r \in {Graph(p, d, <<c1, c2, c3, c4>>) :
            p \in parents, d \in dates, c1 \in roots, c2 \in c2s, c3 \in c3s, c4 \in c4s} :
     WellFormed(r)}

\* Histories of four commits on two files, read by one collector.
AllHistories ==
  {[graph |-> r, collectors |-> {k1}, scopes |-> {TwoPaths}, rebuilds |-> 0, rescopes |-> 0] :
     r \in Graphs({Merged, Forked}, Dates, Roots, FirstEdits, Edits, Edits \cup Resolutions)}

\* A file renamed on one branch and edited on the other: with two collectors,
\* and with a change of scope and a rebuild.
Renames ==
  Graphs({Merged, Forked}, {<<4, 3, 2, 1>>}, {{Write("a")}}, {{Rename("a", "b")}},
         {{Write("a")}, {Rename("a", "b")}}, {{Write("a")}, {Delete("b")}})

RacingCollectors ==
  {[graph |-> r, collectors |-> TwoCollectors, scopes |-> {TwoPaths},
    rebuilds |-> 0, rescopes |-> 0] : r \in Renames}

Rebuilds ==
  {[graph |-> Graph(<<{}, {1}, {1}>>, <<1, 1, 1>>,
                    <<{Write("a")}, {Rename("a", "b")}, {change}>>),
    collectors |-> {k1}, scopes |-> {TwoPaths, {"a"}}, rebuilds |-> 1, rescopes |-> 1] :
     change \in {Write("a"), Rename("a", "b")}}

SmallInstances == AllHistories \cup RacingCollectors \cup Rebuilds
=============================================================================
