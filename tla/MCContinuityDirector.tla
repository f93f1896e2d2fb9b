------------------------- MODULE MCContinuityDirector -------------------------
(* Two tabs of one chat.                                                      *)
EXTENDS ContinuityDirector

CONSTANTS t1, t2

TwoTabs == {t1, t2}
OneTab  == {t1}
=============================================================================
