----------------------------- MODULE MCWorktree -----------------------------
(* Instances of Worktree for TLC. *)
EXTENDS Worktree

Config == <<"agent", "config.json">>
Tasks  == <<"specs">>
States == <<".agent", "state">>

State == <<".agent", "state", "s">>
SpecFile == <<"specs", "t">>
A == <<"src", "a">>
B == <<"src", "b">>

Log == <<"src", "log">>
AllPaths == {Config, State, SpecFile, A, B, Log}
IgnoredPaths == {State, Log}

Start == {[p \in AllPaths |-> IF p \in {Config, A} THEN 1 ELSE IF p = SpecFile THEN 2 ELSE 0]}

Entry(parts) == [absolute |-> FALSE, parts |-> parts]
Whole == {Entry(<<"specs", "**">>), Entry(<<".agent", "**">>), Entry(<<"agent", "">>)}
Mixed == {Entry(Tasks), Entry(<<".agent", "*">>), Entry(Config)}

\* Two that protect enough, and some that do not, or are no policies.
ManyPolicies ==
  {Whole, Mixed, {}, (Whole \ {Entry(<<".agent", "**">>)}) \cup {Entry(States)},
   Whole \ {Entry(<<"specs", "**">>)}, {Entry(Tasks), Entry(<<".agent", "*">>)},
   Whole \cup {[absolute |-> TRUE, parts |-> Tasks]}, Whole \cup {Entry(<<"..", "src">>)}}

ManySpecs ==
  {[allowed |-> {<<"src", "**">>}, forbidden |-> {}],
   [allowed |-> {<<"*">>}, forbidden |-> {B}],
   [allowed |-> {A, <<".agent", "state", "*">>}, forbidden |-> {}],
   [allowed |-> {<<"**">>}, forbidden |-> {}],
   [allowed |-> {Config, <<"src">>}, forbidden |-> {}]}
=============================================================================
