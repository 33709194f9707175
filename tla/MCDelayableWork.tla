-------------------------- MODULE MCDelayableWork --------------------------
(* Two callers, and timer callbacks in one context.                        *)
EXTENDS DelayableWork

CONSTANTS t1, t2, c1

MCThreads == {t1, t2}
MCCallbacks == {c1}
=============================================================================
