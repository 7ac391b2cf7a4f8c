------------------------- MODULE MCTrainingPipeline -------------------------
(***************************************************************************)
(* All pairs of alignments of a sentence pair of three words each, every   *)
(* way of growing one, and the extraction of blocks up to one or two words *)
(* with one, two and three orientation models.                             *)
(***************************************************************************)
EXTENDS TrainingPipeline

GrowOptions ==
    [alignment : {"grow"}, diagonal : BOOLEAN, final : BOOLEAN, bothuncovered : BOOLEAN]

PlainOptions ==
    [alignment : {"union", "intersect", "srctotgt", "tgttosrc"},
     diagonal : {FALSE}, final : {FALSE}, bothuncovered : {FALSE}]

AllOptions == {x \in GrowOptions : x.bothuncovered => x.final} \union PlainOptions

AllModels == {"word", "phrase", "hier"}

OneToThreeModels ==
    [models : {{"word"}, {"word", "phrase"}, AllModels}, type : {"mslr"},
     maxPhraseLength : {1, 2}]
      \union [models : {AllModels}, type : {"mono", "msd"}, maxPhraseLength : {1}]
=============================================================================
