---------------------------- MODULE MCRecorder ----------------------------
(* Recorder for TLC: RecorderProofs covers every set of cameras.           *)
EXTENDS Recorder
=============================================================================
