---------------------------- MODULE MCReporter ----------------------------
(* Two requests to POST /resolve, which may overlap or follow each other,  *)
(* and one webhook at a time.                                              *)
EXTENDS Reporter

CONSTANTS r1, r2
=============================================================================
