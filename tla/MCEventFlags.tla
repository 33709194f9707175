---------------------------- MODULE MCEventFlags ---------------------------
(* Two tasks and an interrupt on two flags.                                *)
EXTENDS EventFlags

CONSTANTS t1, t2, i1, x, y

MCThreads == {t1, t2}
MCIsrs == {i1}
MCBits == {x, y}

Request(b, all, clear, timeout) == [bits |-> b, all |-> all, clear |-> clear, timeout |-> timeout]

MCRequests == {Request({x, y}, TRUE, TRUE, "forever"), Request({x}, FALSE, TRUE, "timed"),
               Request({x}, FALSE, TRUE, "no_wait")}
=============================================================================
