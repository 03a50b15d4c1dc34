-------------------------- MODULE MCImagePreprocessor --------------------------
(***************************************************************************)
(* Three images, the third one larger, into a batch of two slots.          *)
(***************************************************************************)
EXTENDS ImagePreprocessor

MCBytes == <<1, 1, 2>>
==============================================================================
