--------------------------- MODULE ConditionalLock ---------------------------
(***************************************************************************)
(* What NSConditionLock promises (Headers/Foundation/NSLock.h): a lock     *)
(* with a value.  A thread gets it, in one step, when nobody has it and    *)
(* the value is the one the thread wants; whoever has it may set the value *)
(* when it gives the lock back.                                            *)
(***************************************************************************)
CONSTANTS Threads, Conditions, Initial, Any

Calls == [want : Conditions \cup {Any}, mode : {"lock", "before", "try"}]
NoCall == [want |-> Any, mode |-> "lock"]

VARIABLES value, state, call

LockInit ==
    /\ value = Initial
    /\ state = [t \in Threads |-> "idle"]
    /\ call = [t \in Threads |-> NoCall]

Become(t, next, c) ==
    /\ state' = [state EXCEPT ![t] = next]
    /\ call' = [call EXCEPT ![t] = c]

Free == \A t \in Threads : state[t] # "held"

Ask(t) ==
    /\ state[t] = "idle"
    /\ \E c \in Calls : Become(t, "waiting", c)
    /\ UNCHANGED value

Get(t) ==
    /\ state[t] = "waiting"
    /\ Free
    /\ call[t].want \in {value, Any}
    /\ Become(t, "held", NoCall)
    /\ UNCHANGED value

\* Only a call that has a date, or only tries, is refused.
BeRefused(t) ==
    /\ state[t] = "waiting"
    /\ call[t].mode # "lock"
    /\ Become(t, "idle", NoCall)
    /\ UNCHANGED value

GiveBack(t) ==
    /\ state[t] = "held"
    /\ Become(t, "idle", NoCall)
    /\ value' \in Conditions

LockNext == \E t \in Threads : Ask(t) \/ Get(t) \/ BeRefused(t) \/ GiveBack(t)

LockSpec == LockInit /\ [][LockNext]_<<value, state, call>>
=============================================================================
