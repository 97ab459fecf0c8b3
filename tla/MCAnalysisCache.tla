-------------------------- MODULE MCAnalysisCache ---------------------------
(* Three keys, room for two; `u` and `v` are different texts of one hash.  *)
EXTENDS AnalysisCache

MCTexts == {"t", "u", "v"}
MCHash == [t \in MCTexts |-> IF t = "t" THEN 0 ELSE 1]
=============================================================================
