---------------------------- MODULE MCPipeChannel ----------------------------
(***************************************************************************)
(* Pipelines of two stages for PipeChannel: every upstream stage of up to  *)
(* four operations, against the downstream stages it gets on with.         *)
(***************************************************************************)
EXTENDS PipeChannel

Upstream == UNION {[1..n -> SendOps] : n \in 1..4}

\* Two programs in a row upstream, and a program that is not the first thing.
TwoRuns(s) == \E i \in 1..(Len(s) - 1) : s[i] = "run" /\ s[i + 1] = "run"
LateRun(s) == \E i \in 2..Len(s) : s[i] = "run"

\* A downstream stage that reads values may follow anything.  One that runs a
\* program panics after two programs in a row (SequentialWriters), and one that
\* stops early leaves a late program with a pipe nobody reads.
MixedStages ==
  {st \in Upstream \X {<<"all">>, <<"next", "all">>, <<"run">>, <<"run", "all">>,
                       <<"next", "run">>, <<"head">>, <<"head", "all">>} :
     /\ TwoRuns(st[1]) => st[2] \in {<<"all">>, <<"next", "all">>}
     /\ LateRun(st[1]) => st[2] # <<"head">>}

SequentialWriters == {<< <<"run", "run">>, <<"run">> >>}
=============================================================================
