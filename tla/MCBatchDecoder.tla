---------------------------- MODULE MCBatchDecoder ----------------------------
(* Instances of BatchDecoder for TLC. *)
EXTENDS BatchDecoder
CONSTANTS w1, w2

TwoWorkers == {w1, w2}

Translate == "translate"
PostEdit == "postedit"

\* Three lines to be translated, without a post-edit, or with one before them,
\* between them or after them.
Files ==
  {<<Translate, Translate, Translate>>,
   <<PostEdit, Translate, Translate, Translate>>,
   <<PostEdit, PostEdit, Translate, Translate, Translate>>,
   <<Translate, PostEdit, Translate, Translate>>,
   <<Translate, Translate, Translate, PostEdit>>}
=============================================================================
