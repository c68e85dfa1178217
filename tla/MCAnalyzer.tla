----------------------------- MODULE MCAnalyzer -----------------------------
(***************************************************************************)
(* Instance of Analyzer: three buffers, a ring of three and bursts of two, *)
(* so that the card fills a buffer again while the loop is inside the next *)
(* burst.                                                                  *)
(***************************************************************************)
EXTENDS Analyzer

MCLength == [k \in Kinds |-> IF k = "frame" THEN 2 ELSE 3]
=============================================================================
