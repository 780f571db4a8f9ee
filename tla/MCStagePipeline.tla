---------------------------- MODULE MCStagePipeline ----------------------------
(* Model values of StagePipeline for TLC: a source, one stage and the sink. *)
EXTENDS StagePipeline

CONSTANTS
  j1, j2,
  source, stage, stage2, sink

OneJob  == {j1}
TwoJobs == {j1, j2}

\* One actor per stage, with or without a second replica that is added later.
Chain      == {source, stage, sink}
WideStage  == {source, stage, stage2, sink}

\* The shortest pipeline, without a stage between the source and the sink.
Short      == {source, sink}

StageIndex(a) == CASE a = source -> 0
                   [] a \in {stage, stage2} -> 1
                   [] a = sink -> 2
ChainStages      == [a \in Chain |-> StageIndex(a)]
WideStageStages  == [a \in WideStage |-> StageIndex(a)]
ShortStages      == [a \in Short |-> IF a = source THEN 0 ELSE 1]
===============================================================================
