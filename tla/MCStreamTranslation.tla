------------------------ MODULE MCStreamTranslation ------------------------
(***************************************************************************)
(* StreamTranslation with its bounds, for TLC.                             *)
(***************************************************************************)
EXTENDS StreamTranslation
=============================================================================
