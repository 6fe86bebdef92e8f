----------------------------- MODULE StateWatch -----------------------------
(***************************************************************************)
(* The stateWatcher of the commands that wait: a loop that checks stored    *)
(* state at once, then after a coalesced hint or on a timer, until the      *)
(* check says done, fails for good, the context ends, or the listener has   *)
(* closed and one more check was made.  The check is the caller's.          *)
(***************************************************************************)
EXTENDS Naturals

CONSTANTS Ends   \* how the context may end: "deadline", "interrupt"

ASSUME WatchAssumption == Ends \subseteq {"deadline", "interrupt"}

VARIABLES
    watch,       \* where Run is: "check", "select", or how it returned
    changes,     \* a hint is in the channel of capacity one
    open,        \* the goroutine that drains the notifier still runs
    lastCheck,   \* listenerClosed
    context      \* how the context has ended, or "live"

watchVars == <<watch, changes, open, lastCheck, context>>

Returned == {"done", "error", "closed", "deadline", "interrupt"}

WatchTypeOK ==
    /\ watch \in {"check", "select"} \cup Returned
    /\ changes \in BOOLEAN /\ open \in BOOLEAN /\ lastCheck \in BOOLEAN
    /\ context \in {"live"} \cup Ends

WatchInit ==
    /\ watch = "check"
    /\ changes = FALSE /\ open = TRUE /\ lastCheck = FALSE
    /\ context = "live"

\* What follows a check: the end of the context takes precedence, a transient
\* error is retried, and a closed listener allows no further wait.
AfterCheck(outcome) ==
    CASE context # "live"       -> context
      [] outcome = "transient"  -> "check"
      [] outcome = "permanent"  -> "error"
      [] outcome = "done"       -> "done"
      [] outcome = "continue"   -> IF lastCheck THEN "closed" ELSE "select"

Checked(outcome) ==
    /\ watch = "check"
    /\ watch' = AfterCheck(outcome)
    /\ UNCHANGED <<changes, open, lastCheck, context>>

SelectHint ==
    /\ watch = "select"
    /\ changes
    /\ changes' = FALSE
    /\ watch' = "check"
    /\ UNCHANGED <<open, lastCheck, context>>

\* The closed channel is seen once the hint in it has been taken.
SelectClosed ==
    /\ watch = "select"
    /\ ~open /\ ~changes
    /\ lastCheck' = TRUE
    /\ watch' = "check"
    /\ UNCHANGED <<changes, open, context>>

\* The ticker wakes the loop only to look for hints.
SelectTick_faulty ==
    /\ watch = "select"
    /\ changes
    /\ watch' = "check"
    /\ UNCHANGED <<changes, open, lastCheck, context>>

SelectTick ==
    /\ watch = "select"
    /\ watch' = "check"
    /\ UNCHANGED <<changes, open, lastCheck, context>>

\* Also taken at the top of the loop and while a failed check waits to be retried.
ContextEnds ==
    /\ watch \notin Returned
    /\ context # "live"
    /\ watch' = context
    /\ UNCHANGED <<changes, open, lastCheck, context>>

Select == SelectHint \/ SelectClosed \/ SelectTick \/ ContextEnds
-----------------------------------------------------------------------------
(* Around the loop.                                                        *)

\* The drain goroutine takes an event and coalesces it.
Hint ==
    /\ open
    /\ watch \notin Returned
    /\ changes' = TRUE
    /\ UNCHANGED <<watch, open, lastCheck, context>>

\* The notifier has ended, and the drain goroutine closes changes after it.
ListenerCloses ==
    /\ open
    /\ watch \notin Returned
    /\ open' = FALSE
    /\ UNCHANGED <<watch, changes, lastCheck, context>>

\* The deadline of the command passes, or a signal arrives.
EndContext ==
    /\ context = "live"
    /\ watch \notin Returned
    /\ context' \in Ends
    /\ UNCHANGED <<watch, changes, open, lastCheck>>
=============================================================================
