---------------------------- MODULE MCRustEngine ----------------------------
(* Small instances of RustEngine for TLC.                                  *)
EXTENDS RustEngine
=============================================================================
