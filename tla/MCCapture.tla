----------------------------- MODULE MCCapture -----------------------------
(* Capture with one or two interchangeable cameras.                        *)
EXTENDS Capture, TLC

CameraSymmetry == Permutations(Cameras)

=============================================================================
