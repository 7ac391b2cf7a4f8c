-------------------------- MODULE TrainingPipeline --------------------------
(***************************************************************************)
(* Two steps of training on one sentence pair: symal symmetrises its word  *)
(* alignments and exits; extract reads the line it printed.                *)
(***************************************************************************)
EXTENDS Symal, PhraseExtract

ASSUME SameSentence == CountF = M /\ CountE = N

pipelineVars == <<vars, extractVars>>

PipelineInit == Init /\ ExtractInit

Symmetrise == Step /\ UNCHANGED extractVars

ReadAlignment == Exit /\ Create(printed)

Extract == ExtractNext /\ UNCHANGED vars

PipelineNext == Symmetrise \/ ReadAlignment \/ Extract

\* One sequential program after the other, each of which keeps running.
PipelineSpec ==
    PipelineInit /\ [][PipelineNext]_pipelineVars /\ WF_pipelineVars(PipelineNext)

(***************************************************************************)
(* Every pair of alignments gets its phrase pairs: the scans of symal,     *)
(* repeated as long as one adds a point, come to an end.                   *)
(***************************************************************************)
PipelineEnds == <>(stage = "written")
=============================================================================
