--------------------------- MODULE MCCaptureSession ---------------------------
(* CaptureSession with two starts that are interchangeable.                 *)
EXTENDS CaptureSession, TLC

CONSTANTS s1, s2

MCStart == {s1, s2}
=============================================================================
