---------------------------- MODULE MCGpuStudio ----------------------------
(* The GPU studio with one box, which lets liveness be checked.            *)
EXTENDS GpuStudio

MCOneBox == {1}
=============================================================================
