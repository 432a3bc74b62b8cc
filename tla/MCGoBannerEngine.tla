-------------------------- MODULE MCGoBannerEngine --------------------------
(* Small instances of GoBannerEngine for TLC.                              *)
EXTENDS GoBannerEngine
=============================================================================
