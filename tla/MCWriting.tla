------------------------------- MODULE MCWriting -------------------------------
(* Instances of Writing: one book. *)
EXTENDS Writing
================================================================================
