------------------------ MODULE MCResourceLifecycle ------------------------
(* Three threads share one context.                                        *)
EXTENDS ResourceLifecycle, TLC

CONSTANTS t1, t2, t3

MCThreads == {t1, t2, t3}
=============================================================================
