---------------------------- MODULE MCWorkQueue ----------------------------
EXTENDS WorkQueue

CONSTANTS t1, t2

MCThreads == {t1, t2}

(* destroy terminates, and flush returns unless its item is cancelled.     *)
CallsReturn == DestroyTerminates /\ FlushReturns
=============================================================================
