---------------------------- MODULE MCAudioSink ----------------------------
(***************************************************************************)
(* AudioSink with two streams of any of three rates: one far below the     *)
(* sink's, one below it whose render is not a whole number of its frames,  *)
(* and one above it.                                                       *)
(***************************************************************************)
EXTENDS AudioSink
=============================================================================
