----------------------------- MODULE MCSurvey ------------------------------
(* Two nights for TLC: a sweep of two points, phases that give up after    *)
(* two failures, and a budget of four captures.                            *)
EXTENDS Survey
=============================================================================
