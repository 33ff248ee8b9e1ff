---------------------------- MODULE MCExternalRun ----------------------------
(* The instances of ExternalRun: two questions, the first with two source values.          *)
EXTENDS ExternalRun, TLC

MCQuestions == 1..2
MCSources == <<2, 1>>
MCQARoutes == 1..2
=============================================================================
