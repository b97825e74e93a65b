---------------------------- MODULE MCEnrichment ----------------------------
(***************************************************************************)
(* Small instances of Enrichment for TLC.  A book is a number; 0 is none.  *)
(***************************************************************************)
EXTENDS Enrichment

OneBook == {1}
TwoBooks == {1, 2}
=============================================================================
