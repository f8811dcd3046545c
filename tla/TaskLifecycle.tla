----------------------------- MODULE TaskLifecycle -----------------------------
(***************************************************************************)
(* What the store promises the commands on one task, with their reads,     *)
(* filters, read-backs and logs hidden: every command that changes the     *)
(* task does so in one step, on the task as it is and by the clock at that *)
(* moment; each such step counts the version up; and what an agent is told *)
(* about its claim is what the task says when it is told.                  *)
(*                                                                         *)
(* TaskClaims implements this specification while no repair runs.          *)
(***************************************************************************)
EXTENDS Integers

CONSTANTS Owners, NoOwner, Texts, NoText, Leases

VARIABLES
    task,       \* the task, or NoTask
    told,       \* told[o]: the end of the lease that agent o believes in
    now,        \* the clock
    expected    \* the task may still appear

vars == <<task, told, now, expected>>

NoTask == [status |-> "none", owner |-> NoOwner, claimed |-> 0, lease |-> 0,
           version |-> 0, text |-> NoText, review |-> NoText, degraded |-> FALSE]

Exists == task # NoTask

Init ==
    /\ task = NoTask
    /\ told = [o \in Owners |-> 0]
    /\ now = 1
    /\ expected = TRUE

Appear ==
    /\ expected
    /\ expected' = FALSE
    /\ task' = [NoTask EXCEPT !.status = "pending", !.version = 1]
    /\ UNCHANGED <<told, now>>

\* A create that failed: without repairs there will be no task.
NeverAppear ==
    /\ expected
    /\ expected' = FALSE
    /\ UNCHANGED <<task, told, now>>

Become(t) ==
    /\ Exists
    /\ task' = [t EXCEPT !.version = task.version + 1]
    /\ UNCHANGED <<now, expected>>

\* While the command is under way the agent has been told nothing.
Untold(o) == told' = [told EXCEPT ![o] = 0]

\* A claim, by a command that has looked at the clock at time at: of a task that
\* nobody else holds now.
Claim(o, at, lease) ==
    /\ task.status \in {"pending", "in_progress", "blocked"}
    /\ task.owner \in {NoOwner, o} \/ task.lease <= now
    /\ Become([task EXCEPT !.status = "in_progress", !.owner = o, !.claimed = at,
                           !.lease = at + lease, !.text = NoText])
    /\ Untold(o)

Renew(o, at, lease) ==
    /\ task.status = "in_progress" /\ task.owner = o
    /\ Become([task EXCEPT !.lease = at + lease])
    /\ Untold(o)

Release(o) ==
    /\ task.status = "in_progress" /\ task.owner = o
    /\ Become([task EXCEPT !.status = "pending", !.owner = NoOwner, !.claimed = 0, !.lease = 0])
    /\ Untold(o)

\* Whoever closes or blocks the task leaves the claim as it is.
Close(status, text) ==
    /\ task.status # status
    /\ status = "ready_for_live" => task.status # "done"
    /\ Become([task EXCEPT !.status = status, !.text = text])
    /\ UNCHANGED told

\* Another plan for a live check.
Replan(text) ==
    /\ task.status = "ready_for_live"
    /\ Become([task EXCEPT !.text = text])
    /\ UNCHANGED told

Review(text) == Become([task EXCEPT !.review = text]) /\ UNCHANGED told

Cancel ==
    /\ Exists
    /\ task' = NoTask
    /\ UNCHANGED <<told, now, expected>>

Tell(o) ==
    /\ task.status = "in_progress" /\ task.owner = o
    /\ told' = [told EXCEPT ![o] = task.lease]
    /\ UNCHANGED <<task, now, expected>>

Tick == now' = now + 1 /\ UNCHANGED <<task, told, expected>>

Next ==
    \/ Appear \/ NeverAppear \/ Cancel \/ Tick
    \/ \E o \in Owners :
        \/ Release(o) \/ Tell(o)
        \/ \E at \in 0..now, lease \in Leases : Claim(o, at, lease) \/ Renew(o, at, lease)
    \/ \E text \in Texts :
        \/ \E status \in {"done", "blocked", "ready_for_live"} : Close(status, text)
        \/ Replan(text) \/ Review(text)

Spec == Init /\ [][Next]_vars

================================================================================
