--------------------------- MODULE ThreadPerform ---------------------------
(***************************************************************************)
(* Methods performed in another thread (NSThread.m) by its run loop        *)
(* (NSRunLoop.m, unix/GSRunLoopCtxt.m).  A caller hands a performer to the *)
(* thread and writes a byte to its pipe; a poll of the loop that finds the *)
(* pipe readable moves the performers to the modes of the loop, and a      *)
(* check of a mode takes those of the mode and fires them.  What is fired  *)
(* may run the loop again, schedule and cancel performers, and end the     *)
(* thread.                                                                 *)
(*                                                                         *)
(* The loop is a stack of runs, each within a method fired by the one      *)
(* below it.  A run has the stages that are left of its course, the        *)
(* performers it has taken and not yet fired, and what it is firing.       *)
(***************************************************************************)
EXTENDS Integers, Sequences, SequencesExt, Lists

CONSTANTS
    Performs,   \* the performers, each called for once
    Local,      \* those that the thread of the loop itself schedules
    Modes,      \* those that the loop has a context for
    Inputs,     \* those that have a timer or an input source
    ModesOf,    \* the modes of each performer
    Order,      \* its order, 0 unless it is local
    PipeSize,   \* the bytes that the pipe holds
    MaxDepth,   \* bound: runs within runs
    Source,     \* a timer or an input, as what a run fires
    None

ASSUME PerformAssumption ==
    /\ Local \subseteq Performs
    /\ Inputs \subseteq Modes
    /\ ModesOf \in [Performs -> (SUBSET Modes) \ {{}}]
    /\ Order \in [Performs -> Nat]
    /\ \A p \in Performs \ Local : Order[p] = 0
    /\ {PipeSize, MaxDepth} \subseteq Nat \ {0}
    /\ {Source, None} \cap Performs = {}
    /\ Source # None

VARIABLES
    status,       \* of each performer
    finished,     \* -isFinished of the thread
    open,         \* whether the thread's pipe is open
    bytes,        \* the bytes in the pipe
    performers,   \* of the GSRunLoopThreadInfo
    contexts,     \* the performers in each mode of the loop
    stack,        \* the runs of the loop, the innermost one last
    given         \* history: the performers from other threads, as they were added

vars == <<status, finished, open, bytes, performers, contexts, stack, given>>

Remote == Performs \ Local

Init ==
    /\ status = [p \in Performs |-> "new"]
    /\ finished = FALSE
    /\ open = TRUE
    /\ bytes = 0
    /\ performers = <<>>
    /\ contexts = [m \in Modes |-> <<>>]
    /\ stack = <<>>
    /\ given = <<>>

-----------------------------------------------------------------------------
(***************************************************************************)
(* The callers: -performSelector:onThread:withObject:waitUntilDone:modes:. *)
(* A caller that waits is released when its performer is done or invalid.  *)
(***************************************************************************)
\* A thread that has finished is refused, with an exception.
Call(p) ==
    /\ p \in Remote
    /\ status[p] = "new"
    /\ status' = [status EXCEPT ![p] = IF finished THEN "refused" ELSE "called"]
    /\ UNCHANGED <<finished, open, bytes, performers, contexts, stack, given>>

\* -addPerformer: under the lock.  As long as the pipe is full the lock is released
\* and taken again; after a second, or if the pipe is closed, the performer is
\* invalidated.
AddPerformer(p) ==
    /\ status[p] = "called"
    /\ \/ /\ open /\ bytes < PipeSize
          /\ bytes' = bytes + 1
          /\ performers' = Append(performers, p)
          /\ given' = Append(given, p)
          /\ status' = [status EXCEPT ![p] = "given"]
       \/ /\ ~open \/ bytes = PipeSize
          /\ status' = [status EXCEPT ![p] = "invalid"]
          /\ UNCHANGED <<bytes, performers, given>>
    /\ UNCHANGED <<finished, open, contexts, stack>>

-----------------------------------------------------------------------------
(***************************************************************************)
(* The loop.                                                               *)
(***************************************************************************)
Run == stack[Len(stack)]

Running == stack # <<>>

\* The thread is in code of its own: outside the loop, or in a method that is fired.
Free == ~finished /\ (Running => Run.firing # None)

WithRun(run) == [stack EXCEPT ![Len(stack)] = run]

\* A mutant: before those of the same order.
Insert_First(list, p) ==
    LET i == CHOOSE i \in 1..Len(list) + 1 :
                 /\ i <= Len(list) => Order[list[i]] >= Order[p]
                 /\ \A j \in 1..i - 1 : Order[list[j]] < Order[p]
    IN  InsertAt(list, i, p)

\* -performSelector:target:argument:order:modes:, into the list of one mode
Insert(list, p) ==
    LET i == CHOOSE i \in 1..Len(list) + 1 :
                 /\ i <= Len(list) => Order[list[i]] > Order[p]
                 /\ \A j \in 1..i - 1 : Order[list[j]] <= Order[p]
    IN  InsertAt(list, i, p)

InsertAll(lists, p) ==
    [m \in Modes |-> IF m \in ModesOf[p] THEN Insert(lists[m], p) ELSE lists[m]]

\* A list of performers, one after the other.
InsertEach(lists, ps) ==
    LET inserted[n \in 0..Len(ps)] ==
            IF n = 0 THEN lists ELSE InsertAll(inserted[n - 1], ps[n])
    IN  inserted[Len(ps)]

Schedule(p) ==
    /\ p \in Local
    /\ status[p] = "new"
    /\ Free
    /\ status' = [status EXCEPT ![p] = "given"]
    /\ contexts' = InsertAll(contexts, p)
    /\ UNCHANGED <<finished, open, bytes, performers, stack, given>>

Without(list, ps) == Only(list, {i \in 1..Len(list) : list[i] \notin ps})

\* -cancelPerformSelectorsWithTarget: and -cancelPerformSelector:target:argument:
\* look in the modes of the loop only.
Cancel(p) ==
    /\ p \in Local
    /\ \E m \in Modes : Contains(contexts[m], p)
    /\ Free
    /\ contexts' = [m \in Modes |-> Without(contexts[m], {p})]
    /\ status' = [status EXCEPT ![p] = "cancelled"]
    /\ UNCHANGED <<finished, open, bytes, performers, stack, given>>

\* One time round the loop of -acceptInputForMode:beforeDate:.  A mode without timers
\* and inputs only looks at the pipe, in +awakenedBefore:.
Accept(m) ==
    IF m \in Inputs THEN <<"check", "events", "pipe", "events", "check">>
                    ELSE <<"check", "pipe", "check">>

\* -runMode:beforeDate: begins with a check, and without timers and inputs that is all.
Course(m) ==
    IF m \in Inputs THEN <<"check", "events">> \o Accept(m) ELSE <<"check">>

\* The thread's code runs the loop.
RunLoop(m) ==
    /\ Free
    /\ Len(stack) < MaxDepth
    /\ \E todo \in {Accept(m), Course(m)} :
           stack' = Append(stack, [mode |-> m, todo |-> todo, batch |-> <<>>, firing |-> None])
    /\ UNCHANGED <<status, finished, open, bytes, performers, contexts, given>>

\* The run has nothing to fire and comes to its next stage.
At(stage) ==
    /\ ~finished
    /\ Running
    /\ Run.batch = <<>>
    /\ Run.firing = None
    /\ Run.todo # <<>>
    /\ Head(Run.todo) = stage

\* A mutant: what is taken stays in the other modes.
Check_OwnMode ==
    /\ At("check")
    /\ stack' = WithRun([Run EXCEPT !.todo = Tail(@), !.batch = contexts[Run.mode]])
    /\ contexts' = [contexts EXCEPT ![Run.mode] = <<>>]
    /\ UNCHANGED <<status, finished, open, bytes, performers, given>>

\* -_checkPerformers: takes the performers of the mode out of all modes.
Check ==
    /\ At("check")
    /\ LET batch == contexts[Run.mode]
       IN  /\ stack' = WithRun([Run EXCEPT !.todo = Tail(@), !.batch = batch])
           /\ contexts' = [m \in Modes |-> Without(contexts[m], ToSet(batch))]
    /\ UNCHANGED <<status, finished, open, bytes, performers, given>>

FireNext ==
    /\ ~finished
    /\ Running
    /\ Run.firing = None
    /\ Run.batch # <<>>
    /\ stack' = WithRun([Run EXCEPT !.firing = Head(Run.batch), !.batch = Tail(@)])
    /\ UNCHANGED <<status, finished, open, bytes, performers, contexts, given>>

\* A timer is due or a descriptor is ready, or not.
Events ==
    /\ At("events")
    /\ \E what \in {Source, None} :
           stack' = WithRun([Run EXCEPT !.todo = Tail(@), !.firing = what])
    /\ UNCHANGED <<status, finished, open, bytes, performers, contexts, given>>

\* The method that was fired ends; -[GSPerformHolder fire] then releases the caller.
EndFire ==
    /\ ~finished
    /\ Running
    /\ Run.firing # None
    /\ status' = [p \in Performs |-> IF p = Run.firing THEN "done" ELSE status[p]]
    /\ stack' = WithRun([Run EXCEPT !.firing = None])
    /\ UNCHANGED <<finished, open, bytes, performers, contexts, given>>

\* A mutant: one performer for all the bytes.
InfoFire_One ==
    /\ bytes' = 0
    /\ performers' = IF performers = <<>> THEN <<>> ELSE Tail(performers)
    /\ contexts' = IF performers = <<>> THEN contexts ELSE InsertAll(contexts, Head(performers))

\* -[GSRunLoopThreadInfo fire]: the pipe is emptied, and every performer goes to its
\* modes.
InfoFire ==
    /\ bytes' = 0
    /\ performers' = <<>>
    /\ contexts' = InsertEach(contexts, performers)

\* -pollUntil:within: and +awakenedBefore: look at the pipe.
Poll ==
    /\ At("pipe")
    /\ IF bytes > 0 THEN InfoFire ELSE UNCHANGED <<bytes, performers, contexts>>
    /\ stack' = WithRun([Run EXCEPT !.todo = Tail(@)])
    /\ UNCHANGED <<status, finished, open, given>>

Return ==
    /\ ~finished
    /\ Running
    /\ Run.todo = <<>> /\ Run.batch = <<>> /\ Run.firing = None
    /\ stack' = Front(stack)
    /\ UNCHANGED <<status, finished, open, bytes, performers, contexts, given>>

\* The thread ends or is made to exit, in its own code or in a method that is fired.
Finish ==
    /\ Free
    /\ finished' = TRUE
    /\ UNCHANGED <<status, open, bytes, performers, contexts, stack, given>>

\* A mutant: the performers are not told.
Invalidate_Silent ==
    /\ finished /\ open
    /\ open' = FALSE
    /\ bytes' = 0
    /\ performers' = <<>>
    /\ UNCHANGED <<status, finished, contexts, stack, given>>

\* -[GSRunLoopThreadInfo invalidate]
Invalidate ==
    /\ finished /\ open
    /\ open' = FALSE
    /\ bytes' = 0
    /\ performers' = <<>>
    /\ status' = [p \in Performs |-> IF Contains(performers, p) THEN "invalid" ELSE status[p]]
    /\ UNCHANGED <<finished, contexts, stack, given>>

LoopStep == Check \/ FireNext \/ Events \/ EndFire \/ Poll \/ Return

Next ==
    \/ \E p \in Performs : Call(p) \/ AddPerformer(p) \/ Schedule(p) \/ Cancel(p)
    \/ \E m \in Modes : RunLoop(m)
    \/ LoopStep
    \/ Finish \/ Invalidate

Spec == Init /\ [][Next]_vars

\* Callers go on.  A run of the loop goes on, as its limit date comes, and a method
\* that runs the loop within it ends all the same.  The thread's own code runs the loop
\* again and again in every mode.
FairSpec ==
    /\ Spec
    /\ \A p \in Remote : WF_vars(AddPerformer(p))
    /\ WF_vars(LoopStep)
    /\ \A d \in 1..MaxDepth - 1 : SF_vars(Len(stack) = d /\ EndFire)
    /\ \A m \in Modes : SF_vars(stack = <<>> /\ RunLoop(m))
    /\ WF_vars(Invalidate)

-----------------------------------------------------------------------------
InBatch(p) == \E i \in 1..Len(stack) : Contains(stack[i].batch, p)
Firing(p) == \E i \in 1..Len(stack) : stack[i].firing = p
InLoop(p) == \E m \in Modes : Contains(contexts[m], p)

RunType ==
    [mode : Modes, todo : Seq({"check", "events", "pipe"}),
     batch : Seq(Performs), firing : Performs \cup {Source, None}]

TypeOK ==
    /\ status \in [Performs -> {"new", "called", "refused", "given", "cancelled", "invalid", "done"}]
    /\ finished \in BOOLEAN /\ open \in BOOLEAN
    /\ bytes \in 0..PipeSize
    /\ performers \in Seq(Remote)
    /\ contexts \in [Modes -> Seq(Performs)]
    /\ stack \in Seq(RunType)
    /\ given \in Seq(Remote)

\* A performer that was accepted is in one place until it is done: with the thread's
\* info, in the modes of the loop, all that it has and none other and once in each,
\* with one run that is going to fire it, or being fired by one.  So it is fired once,
\* whatever the nesting, and not when it is done or was cancelled.
InOnePlace ==
    /\ \A p \in Performs :
           LET places == {x \in {"info", "loop", "batch", "firing"} :
                             \/ x = "info" /\ Contains(performers, p)
                             \/ x = "loop" /\ InLoop(p)
                             \/ x = "batch" /\ InBatch(p)
                             \/ x = "firing" /\ Firing(p)}
           IN  /\ status[p] = "given" => \E x \in places : places = {x}
               /\ status[p] # "given" => places = {}
               /\ InLoop(p) => \A m \in Modes : m \in ModesOf[p] <=> Contains(contexts[m], p)
    /\ \A m \in Modes : Distinct(contexts[m])
    /\ Distinct(performers)
    /\ \A i, j \in 1..Len(stack) :
           /\ Distinct(stack[i].batch)
           /\ \A p \in Performs :
                  /\ Contains(stack[i].batch, p) /\ Contains(stack[j].batch, p) => i = j
                  /\ stack[i].firing = p /\ stack[j].firing = p => i = j

\* A thread to which performers were handed has a byte in its pipe, so that the poll
\* that waits for input ends.
HandedAreSignalled == open /\ performers # <<>> => bytes > 0

\* Performers from other threads are fired in the order in which they were added, if
\* both can be fired in the mode that is run; an earlier one that an outer run has
\* taken is fired later.
OrderKept ==
    [][\A q \in Remote : ~Firing(q) /\ Firing(q)' =>
           \A i, j \in 1..Len(given) :
               /\ i < j /\ given[j] = q
               /\ status[given[i]] = "given"
               /\ Run.mode \in ModesOf[given[i]]
               => \E k \in 1..Len(stack) - 1 :
                      stack[k].firing = given[i] \/ Contains(stack[k].batch, given[i])]_vars

\* A caller that waits is released, unless the thread ends after its loop has taken
\* the performer: nobody invalidates it then, and the caller waits for ever.
CallersReleased ==
    \A p \in Remote :
        status[p] = "given" ~>
            \/ status[p] \in {"done", "invalid"}
            \/ finished /\ (InLoop(p) \/ InBatch(p) \/ Firing(p))
=============================================================================
