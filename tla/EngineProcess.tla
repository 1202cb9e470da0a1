--------------------------- MODULE EngineProcess ---------------------------
(***************************************************************************)
(* engines/base.py run_process: one await of one child process (nmap or    *)
(* nuclei) by the task of a scan, under a time limit and the cancellation  *)
(* a signal asks for.  Time is counted in ticks by the module that         *)
(* composes this one; `cancel' is a CancelledError on its way to the task. *)
(***************************************************************************)
EXTENDS Integers

CONSTANTS TimeLimit, \* timeout_seconds of the call
          Grace      \* the five seconds between terminate() and kill()

VARIABLES call,     \* where the await of run_process stands
          child,    \* the child process, as the operating system sees it
          age,      \* ticks since the child was started
          deadline, \* the age at which the current wait_for expires
          cancel    \* a CancelledError is due at the task's next await

engineVars == <<call, child, age, deadline>>

Waits == {"communicating", "terminating", "cancelling"}
Reaps == {"reaping", "reapingCancelled"}
Ended == {"returned", "failed", "cancelled"}
Calls == {"none", "spawning"} \union Waits \union Reaps \union Ended
Alive == {"running", "asked"}
Children == {"none", "killed", "gone"} \union Alive

EngineTypeOK ==
    /\ call \in Calls
    /\ child \in Children
    /\ age \in Nat
    /\ deadline \in Nat

EngineInit ==
    /\ call = "none"
    /\ child = "none"
    /\ age = 0
    /\ deadline = 0

----------------------------------------------------------------------------
Spawn ==
    /\ call = "spawning"
    /\ ~cancel
    /\ call' = "communicating"
    /\ child' = "running"
    /\ age' = 0
    /\ deadline' = TimeLimit
    /\ UNCHANGED cancel

\* create_subprocess_exec raises OSError.
SpawnFails ==
    /\ call = "spawning"
    /\ call' = "failed"
    /\ UNCHANGED <<child, age, deadline, cancel>>

\* The cancellation meets the await of create_subprocess_exec: asyncio closes the
\* transport, which kills the child if there is one by then.
SpawnCancelled ==
    /\ call = "spawning"
    /\ cancel
    /\ call' = "cancelled"
    /\ child' \in {"none", "killed"}
    /\ cancel' = FALSE
    /\ UNCHANGED <<age, deadline>>

\* By itself, or on SIGTERM if it does not ignore it: nothing makes it.
ChildExits ==
    /\ child \in Alive
    /\ child' = "gone"
    /\ UNCHANGED <<call, age, deadline, cancel>>

ChildDies ==
    /\ child = "killed"
    /\ child' = "gone"
    /\ UNCHANGED <<call, age, deadline, cancel>>

\* communicate() returns; the output may be over the limit.
Communicated ==
    /\ call = "communicating"
    /\ child = "gone"
    /\ call' \in {"returned", "failed"}
    /\ UNCHANGED <<child, age, deadline, cancel>>

Expired == call \in Waits /\ age = deadline

\* Variant: the child has the whole time limit again.
WholeLimit == TimeLimit

Patience == Grace

\* process.terminate(): the child is asked to end and is waited for.
AskToEnd(waiting) ==
    /\ call' = waiting
    /\ child' = "asked"
    /\ deadline' = age + Patience

TimesOut ==
    /\ call = "communicating"
    /\ Expired
    /\ child = "running"
    /\ AskToEnd("terminating")
    /\ UNCHANGED <<age, cancel>>

\* The child was reaped as the time limit passed: terminate() raises.
TimesOutTooLate ==
    /\ call = "communicating"
    /\ Expired
    /\ child = "gone"
    /\ call' = "failed"
    /\ UNCHANGED <<child, age, deadline, cancel>>

\* Variant: the handler of CancelledError only raises again.
RaisesAgain ==
    /\ call' = "cancelled"
    /\ UNCHANGED <<child, deadline>>

\* The handler of CancelledError; a child that has ended is left alone.
EndCancelled ==
    IF child = "gone"
    THEN call' = "cancelled" /\ UNCHANGED <<child, deadline>>
    ELSE AskToEnd("cancelling")

Cancelled ==
    /\ call = "communicating"
    /\ cancel
    /\ EndCancelled
    /\ cancel' = FALSE
    /\ UNCHANGED age

\* What the call ends with once the child it asked to end, or killed, is reaped.
Verdict == IF call \in {"cancelling", "reapingCancelled"} THEN "cancelled" ELSE "failed"

Reaped ==
    /\ call \in {"terminating", "cancelling"} \union Reaps
    /\ child = "gone"
    /\ call' = Verdict
    /\ UNCHANGED <<child, age, deadline, cancel>>

\* Variant: terminate() once more.
AskAgain == child' = "asked"

Kill == child' = "killed"

\* process.kill(), then process.wait() without a limit.
GraceEnds ==
    /\ call \in {"terminating", "cancelling"}
    /\ Expired
    /\ child = "asked"
    /\ Kill
    /\ call' = IF call = "terminating" THEN "reaping" ELSE "reapingCancelled"
    /\ UNCHANGED <<age, deadline, cancel>>

\* A cancellation that arrives inside one of the handlers leaves run_process at
\* once: nothing catches it there, and a child only asked to end is not killed.
CancelledInHandler ==
    /\ call \in {"terminating", "cancelling"} \union Reaps
    /\ cancel
    /\ call' = "cancelled"
    /\ cancel' = FALSE
    /\ UNCHANGED <<child, age, deadline>>

----------------------------------------------------------------------------
\* What the event loop and the kernel see to; ChildExits is up to the child.
EngineStep ==
    \/ Spawn \/ SpawnFails \/ SpawnCancelled
    \/ ChildDies \/ Communicated
    \/ TimesOut \/ TimesOutTooLate \/ Cancelled
    \/ Reaped \/ GraceEnds \/ CancelledInHandler

\* Time may pass only when the event loop and the kernel have nothing to do.
EngineQuiet ==
    /\ call \in {"none", "communicating", "terminating", "cancelling"}
    /\ ~Expired
    /\ child # "killed"
    /\ call \in Waits => child # "gone" /\ ~cancel

EngineTick ==
    /\ age' = IF call \in Waits THEN age + 1 ELSE age
    /\ UNCHANGED <<call, child, deadline>>
=============================================================================
