--------------------------- MODULE MCConditionLock ---------------------------
(* A small instance of ConditionLock for TLC.  All threads are alike: what     *)
(* happens to each in the end is checked for one.                              *)
EXTENDS ConditionLock

Watched == CHOOSE t \in Threads : TRUE

\* The watched thread gets the lock, or is refused, once the value is the one it
\* wants for good: -unlockWithCondition: wakes it whoever else sleeps.
WaitersServed == WaiterServed(Watched)

\* The watched thread returns from every call that has a date or only tries,
\* although waits may end without a signal and others compete for the mutex.
DatedCallsReturn == DatedCallReturns(Watched)
=============================================================================
