-------------------------- MODULE TaskClaims_proofs ---------------------------
(***************************************************************************)
(* Theorems about TaskClaims, for every number of processes, agents and    *)
(* texts, every lease length and every bound:                              *)
(*                                                                         *)
(*   TypeCorrect      TypeOK, whatever repairs and faults there are;       *)
(*   LeaseHasOwner    NeverOrphaned, likewise;                             *)
(*   ClaimsExclusive  ExclusiveClaim and ClaimIsStored, while no repair    *)
(*                    runs;                                                *)
(*   WritesAdvance    VersionAdvances, likewise;                           *)
(*   CommandsAreAtomic                                                     *)
(*                    ImplementsLifecycle, likewise.                       *)
(***************************************************************************)
EXTENDS ClaimInvariant, TLAPS

(***************************************************************************)
(* The records                                                             *)
(***************************************************************************)

\* What the operation of a command says about its other fields.
LEMMA CommandFields ==
    ASSUME NEW q \in Process
    PROVE  /\ q.cmd.owner \in Owners \union {NoOwner}
           /\ q.cmd.text \in Texts \union {NoText}
           /\ q.cmd.lease \in Nat
           /\ q.cmd.op \in Leasing => q.cmd.owner \in Owners /\ q.cmd.lease > 0
           /\ q.cmd.op = "release" => q.cmd.owner \in Owners
           /\ q.cmd.op \notin Leasing \union {"release"} => q.cmd.owner = NoOwner
  <1>1. q.cmd \in Commands \union {NoCommand}
    BY DEF Process
  <1>2. CASE q.cmd \in [op : Leasing, owner : Owners, lease : Leases, text : {NoText}]
    <2>1. q.cmd.op \in Leasing /\ q.cmd.owner \in Owners /\ q.cmd.lease \in Leases /\ q.cmd.text = NoText
      BY <1>2
    <2>2. q.cmd.lease \in Nat \ {0}
      BY <2>1, ConstantsOK
    <2> QED  BY <2>1, <2>2
  <1>3. CASE q.cmd \in [op : {"release"}, owner : Owners, lease : {0}, text : {NoText}]
    <2>1. q.cmd.op = "release" /\ q.cmd.owner \in Owners /\ q.cmd.lease = 0 /\ q.cmd.text = NoText
      BY <1>3
    <2> QED  BY <2>1 DEF Leasing
  <1>4. CASE q.cmd \in [op : Closing \union {"reviewed"}, owner : {NoOwner}, lease : {0}, text : Texts]
    <2>1. q.cmd.op \in Closing \union {"reviewed"} /\ q.cmd.owner = NoOwner /\ q.cmd.lease = 0 /\ q.cmd.text \in Texts
      BY <1>4
    <2> QED  BY <2>1 DEF Leasing, Closing
  <1>5. CASE q.cmd \in [op : {"cancel", "lease_expired"}, owner : {NoOwner}, lease : {0}, text : {NoText}]
    <2>1. q.cmd.op \in {"cancel", "lease_expired"} /\ q.cmd.owner = NoOwner /\ q.cmd.lease = 0 /\ q.cmd.text = NoText
      BY <1>5
    <2> QED  BY <2>1 DEF Leasing
  <1>6. CASE q.cmd = NoCommand
    BY <1>6 DEF NoCommand, Leasing
  <1> QED  BY <1>1, <1>2, <1>3, <1>4, <1>5, <1>6 DEF Commands

LEMMA Constants1 ==
    /\ NoTask \in Task /\ CreatedTask \in Task /\ ReplayedTask \in Task
    /\ NoLog \in Projected /\ CreatedLog \in Projected
    /\ Idle \in Process
    /\ [NoCommand EXCEPT !.op = "cancel"] \in Commands
    /\ [NoCommand EXCEPT !.op = "lease_expired"] \in Commands
  <1>1. NoTask \in Task /\ CreatedTask \in Task /\ ReplayedTask \in Task
    BY DEF NoTask, CreatedTask, ReplayedTask, Task, Time, Statuses
  <1>2. NoLog \in Projected /\ CreatedLog \in Projected
    BY DEF NoLog, CreatedLog, Projected, Time, Statuses
  <1>3. Idle \in Process
    BY <1>1, <1>2 DEF Idle, Process, PC, Time
  <1>4. [NoCommand EXCEPT !.op = "cancel"] \in Commands /\ [NoCommand EXCEPT !.op = "lease_expired"] \in Commands
    BY DEF NoCommand, Commands
  <1> QED  BY <1>1, <1>2, <1>3, <1>4

LEMMA UnclaimedType ==
    ASSUME NEW t \in Task
    PROVE  Unclaimed(t) \in Task
  BY DEF Unclaimed, Task, Time, Statuses

LEMMA PayloadType ==
    ASSUME NEW q \in Process, NEW t \in Task
    PROVE  [Payload(q, t) EXCEPT !.version = NextVersion(q.cur)] \in Task
  <1>1. /\ q.at \in Nat /\ LeaseEnd(q) \in Nat /\ q.cmd.lease \in Nat
        /\ q.cmd.owner \in Owners \union {NoOwner}
        /\ q.cmd.text \in Texts \union {NoText}
    BY CommandFields DEF Process, Time, LeaseEnd
  <1>2. q.cur.version + 1 \in Nat
    BY DEF Process, Task
  <1>3. CASE q.cmd.op \in {"start", "unblock"}
    BY <1>1, <1>2, <1>3 DEF Payload, NextVersion, Closing, Task, Time, Statuses
  <1>4. CASE q.cmd.op = "renew"
    BY <1>1, <1>2, <1>4 DEF Payload, NextVersion, Closing, Task, Time, Statuses
  <1>5. CASE q.cmd.op = "release"
    BY <1>1, <1>2, <1>5 DEF Payload, NextVersion, Closing, Unclaimed, Task, Time, Statuses
  <1>6. CASE q.cmd.op \in Closing
    BY <1>1, <1>2, <1>6 DEF Payload, NextVersion, Closing, Task, Time, Statuses
  <1>7. CASE q.cmd.op \notin Closing \union {"start", "unblock", "renew", "release"}
    BY <1>1, <1>2, <1>7 DEF Payload, NextVersion, Closing, Task, Time, Statuses
  <1> QED  BY <1>3, <1>4, <1>5, <1>6, <1>7

LEMMA ProjectedFields ==
    ASSUME NEW e \in Projected
    PROVE  /\ e = NoLog \/ e.status \in Statuses \union {"cancelled"}
           /\ e.owner \in Owners \union {NoOwner}
           /\ e.claimed \in Nat /\ e.lease \in Nat /\ e.cancelled \in BOOLEAN
           /\ e.status = "cancelled" => e.cancelled
           /\ e.status = "none" => e = NoLog
  <1>1. CASE e = NoLog
    BY <1>1 DEF NoLog
  <1>2. CASE e # NoLog
    BY <1>2 DEF Projected, Time, Statuses
  <1> QED  BY <1>1, <1>2

\* How a projection is shown to be one.
LEMMA IsProjected ==
    ASSUME NEW st \in Statuses, NEW o \in Owners \union {NoOwner},
           NEW c \in Nat, NEW l \in Nat, NEW x \in BOOLEAN
    PROVE  [status |-> st, owner |-> o, claimed |-> c, lease |-> l, cancelled |-> x] \in Projected
  BY DEF Projected, Time, Statuses

LEMMA FoldType ==
    ASSUME NEW e \in Projected, NEW q \in Process, NEW at \in Time
    PROVE  Fold(e, q, at) \in Projected
  <1>1. /\ LeaseEnd(q) \in Nat /\ at \in Nat
        /\ q.cmd.owner \in Owners \union {NoOwner}
        /\ "in_progress" \in Statuses
    BY CommandFields DEF Process, Time, LeaseEnd, Statuses
  <1>2. CASE q.cmd.op \in {"start", "unblock"}
    BY <1>1, <1>2, IsProjected DEF Fold, Closing
  <1>3. CASE q.cmd.op = "renew"
    BY <1>1, <1>3, ProjectedFields, IsProjected DEF Fold, Closing
  <1>4. CASE q.cmd.op \in {"release", "lease_expired"}
    BY <1>4, Constants1 DEF Fold, Closing
  <1>5. CASE q.cmd.op \in Closing
    <2>1. Fold(e, q, at) = [e EXCEPT !.status = q.cmd.op]
      BY <1>5 DEF Fold, Closing
    <2>2. e = [status |-> e.status, owner |-> e.owner, claimed |-> e.claimed,
               lease |-> e.lease, cancelled |-> e.cancelled]
      BY DEF Projected, NoLog
    <2>3. [e EXCEPT !.status = q.cmd.op]
            = [status |-> q.cmd.op, owner |-> e.owner, claimed |-> e.claimed,
               lease |-> e.lease, cancelled |-> e.cancelled]
      BY <2>2
    <2>4. q.cmd.op \in Statuses
      BY <1>5 DEF Closing, Statuses
    <2>5. /\ e.owner \in Owners \union {NoOwner} /\ e.claimed \in Nat /\ e.lease \in Nat
          /\ e.cancelled \in BOOLEAN
      BY ProjectedFields
    <2>6. [status |-> q.cmd.op, owner |-> e.owner, claimed |-> e.claimed,
           lease |-> e.lease, cancelled |-> e.cancelled] \in Projected
      BY <2>4, <2>5, IsProjected
    <2> QED  BY <2>1, <2>3, <2>6
  <1>6. CASE q.cmd.op = "cancel"
    <2>1. Fold(e, q, at) = [status |-> "cancelled", owner |-> NoOwner, claimed |-> 0,
                            lease |-> 0, cancelled |-> TRUE]
      BY <1>6 DEF Fold, Closing, NoLog
    <2> QED  BY <2>1 DEF Projected, Time
  <1>7. CASE q.cmd.op \notin Closing \union {"start", "unblock", "renew", "release", "lease_expired", "cancel"}
    BY <1>7 DEF Fold, Closing
  <1> QED  BY <1>2, <1>3, <1>4, <1>5, <1>6, <1>7

(***************************************************************************)
(* Types                                                                   *)
(***************************************************************************)

TypeInv == TypeOK /\ RepairsWellFormed

LEMMA SetTaskProjectionType ==
    ASSUME TypeOK, NEW f, NEW v \in Nat,
           f.status \in Statuses, f.owner \in Owners \union {NoOwner},
           f.claimed \in Nat, f.lease \in Nat,
           SetTaskProjection(f, v)
    PROVE  task' \in Task
  BY DEF TypeOK, SetTaskProjection, Task, Time

\* A process moves to a well-typed state, and a repair to a well-formed one.
LEMMA SetProcType ==
    ASSUME TypeInv, NEW p \in Procs, NEW q \in Process, SetProc(p, q),
           WellFormed(q)
    PROVE  proc' \in [Procs -> Process] /\ RepairsWellFormed'
  BY DEF TypeInv, TypeOK, SetProc, RepairsWellFormed

\* Away from the repairs there is nothing to be well-formed.
LEMMA SetProcElsewhere ==
    ASSUME TypeInv, NEW p \in Procs, NEW q \in Process, SetProc(p, q),
           q.pc \notin {"apply", "project"}
    PROVE  proc' \in [Procs -> Process] /\ RepairsWellFormed'
  BY SetProcType DEF WellFormed

LEMMA AfterRepairType ==
    ASSUME TypeInv, NEW p \in Procs, NEW k \in {"orphaned_lease", "projection_drift"},
           AfterRepair(p, k), proc[p].pc = "apply", k \in proc[p].todo
    PROVE  proc' \in [Procs -> Process] /\ RepairsWellFormed'
  <1> DEFINE next == [proc[p] EXCEPT !.todo = @ \ {k}]
  <1>1. proc[p] \in Process /\ WellFormed(proc[p])
    BY DEF TypeInv, TypeOK, RepairsWellFormed
  <1>2. next \in Process /\ next.pc = proc[p].pc /\ next.exp = proc[p].exp
        /\ next.todo = proc[p].todo \ {k}
    BY <1>1 DEF Process
  <1>3. CASE proc[p].todo = {k}
    <2>1. SetProc(p, Idle)
      BY <1>3 DEF AfterRepair
    <2> QED  BY <2>1, Constants1, SetProcElsewhere DEF Idle
  <1>4. CASE proc[p].todo # {k}
    <2>1. SetProc(p, next)
      BY <1>4 DEF AfterRepair
    <2>2. "missing_projection" \notin proc[p].todo /\ "cancelled_projection" \notin proc[p].todo
      BY <1>1 DEF WellFormed
    <2>3. WellFormed(next)
      BY <1>1, <1>2, <2>2 DEF WellFormed
    <2> HIDE DEF next
    <2> QED  BY <1>2, <2>1, <2>3, SetProcType
  <1> QED  BY <1>3, <1>4

LEMMA DriftsMeaning ==
    ASSUME NEW e \in Projected, NEW t, Drifts(e, t) # {}
    PROVE  /\ Drifts(e, t) \in SUBSET DriftKinds
           /\ "cancelled_projection" \notin Drifts(e, t) => e.status \in Statuses
           /\ \A k \in {"missing_projection", "cancelled_projection"} :
                k \in Drifts(e, t) => Drifts(e, t) = {k}
  <1>1. PICK j \in DriftKinds : IsDrift(j, e, t)
    BY DEF Drifts
  <1>2. e # NoLog
    BY <1>1 DEF IsDrift
  <1>3. CASE e.cancelled
    <2>1. \A k \in DriftKinds : IsDrift(k, e, t) => k = "cancelled_projection"
      BY <1>3 DEF IsDrift
    <2> QED  BY <1>1, <2>1 DEF Drifts
  <1>4. CASE ~e.cancelled
    <2>1. e.status \in Statuses
      BY <1>2, <1>4, ProjectedFields
    <2>2. \A k \in DriftKinds : IsDrift(k, e, t) =>
             k # "cancelled_projection" /\ (k = "missing_projection" <=> ~Exists(t))
      BY <1>4 DEF IsDrift
    <2> QED  BY <1>1, <2>1, <2>2 DEF Drifts
  <1> QED  BY <1>3, <1>4

LEMMA TypeStep ==
    ASSUME TypeInv, NEW p \in Procs, Step(p)
    PROVE  TypeInv'
  <1>0. /\ proc[p] \in Process /\ task \in Task /\ log \in Projected /\ now \in Time
        /\ proc[p].cur \in Task /\ proc[p].exp \in Projected
        /\ queued \in BOOLEAN /\ budget \in Nat /\ told \in [Owners -> Time]
        /\ WellFormed(proc[p])
    BY DEF TypeInv, TypeOK, Process, RepairsWellFormed
  <1>b. /\ NextVersion(proc[p].cur) \in Nat
        /\ Unclaimed(proc[p].cur).status \in Statuses
        /\ Unclaimed(proc[p].cur).owner \in Owners \union {NoOwner}
        /\ Unclaimed(proc[p].cur).claimed \in Nat /\ Unclaimed(proc[p].cur).lease \in Nat
    BY <1>0 DEF NextVersion, Unclaimed, Task, Time, Statuses
  <1>a. /\ Idle \in Process /\ Idle.pc = "idle" /\ NoTask \in Task
        /\ CreatedTask \in Task /\ ReplayedTask \in Task
    BY Constants1 DEF Idle
  <1>1. CASE UpsertCreated(p)
    BY <1>0, <1>a, <1>1, SetProcElsewhere DEF UpsertCreated, TypeInv, TypeOK
  <1>2. CASE UpsertFails(p)
    BY <1>0, <1>a, <1>2, SetProcElsewhere DEF UpsertFails, TypeInv, TypeOK
  <1>3. CASE WriteMatches(p)
    <2>1. task' \in Task
      BY <1>0, <1>3, PayloadType DEF WriteMatches
    <2>2. told' \in [Owners -> Time]
      BY <1>0, <1>3 DEF WriteMatches, Untold, Time
    <2>3. [proc[p] EXCEPT !.pc = "check"] \in Process
      BY <1>0 DEF Process, PC
    <2>4. proc' \in [Procs -> Process] /\ RepairsWellFormed'
      BY <1>0, <1>3, <2>3, SetProcElsewhere DEF WriteMatches, Process
    <2> QED  BY <1>0, <1>3, <2>1, <2>2, <2>4 DEF WriteMatches, TypeInv, TypeOK
  <1>4. CASE WriteMisses(p)
    <2>3. [proc[p] EXCEPT !.pc = "check"] \in Process
      BY <1>0 DEF Process, PC
    <2>4. proc' \in [Procs -> Process] /\ RepairsWellFormed'
      BY <1>0, <1>4, <2>3, SetProcElsewhere DEF WriteMisses, Process
    <2> QED  BY <1>0, <1>4, <2>4 DEF WriteMisses, TypeInv, TypeOK
  <1>5. CASE ReadBack(p)
    <2>2. told' \in [Owners -> Time]
      BY <1>0, <1>5, CommandFields DEF ReadBack, LeaseEnd, Process, Time
    <2>3. [proc[p] EXCEPT !.pc = "log"] \in Process
      BY <1>0 DEF Process, PC
    <2>4. proc' \in [Procs -> Process] /\ RepairsWellFormed'
      BY <1>0, <1>5, <2>3, SetProcElsewhere DEF ReadBack, Process
    <2> QED  BY <1>0, <1>5, <2>2, <2>4 DEF ReadBack, TypeInv, TypeOK
  <1>6. CASE ReadBackFails(p)
    BY <1>0, <1>a, <1>6, SetProcElsewhere DEF ReadBackFails, TypeInv, TypeOK
  <1>7. CASE Delete(p)
    <2>3. [proc[p] EXCEPT !.pc = "log"] \in Process
      BY <1>0 DEF Process, PC
    <2>4. proc' \in [Procs -> Process] /\ RepairsWellFormed'
      BY <1>0, <1>7, <2>3, SetProcElsewhere DEF Delete, Process
    <2> QED  BY <1>0, <1>a, <1>7, <2>4 DEF Delete, TypeInv, TypeOK
  <1>8. CASE AppendTaskEvent(p)
    BY <1>0, <1>a, <1>8, SetProcElsewhere, FoldType DEF AppendTaskEvent, TypeInv, TypeOK
  <1>9. CASE ReadCreates(p)
    <2> DEFINE e == IF proc[p].exp = NoLog /\ log # NoLog THEN CreatedLog ELSE proc[p].exp
               q == [proc[p] EXCEPT !.pc = "scroll", !.exp = e]
    <2>1. e \in Projected
      BY <1>0, Constants1
    <2>2. q \in Process /\ q.pc = "scroll"
      BY <1>0, <2>1 DEF Process, PC
    <2>3. SetProc(p, q)
      BY <1>0, <1>9 DEF ReadCreates, Process
    <2> HIDE DEF q
    <2>4. proc' \in [Procs -> Process] /\ RepairsWellFormed'
      BY <2>2, <2>3, SetProcElsewhere
    <2> QED  BY <1>0, <1>9, <2>4 DEF ReadCreates, TypeInv, TypeOK
  <1>10. CASE Scroll(p)
    <2> DEFINE d == Drifts(proc[p].exp, task)
               q == [proc[p] EXCEPT !.pc = "apply", !.cur = task, !.at = now, !.todo = d]
    <2>1. d \in SUBSET DriftKinds
      BY DEF Drifts
    <2>2. q \in Process /\ q.pc = "apply" /\ q.todo = d /\ q.exp = proc[p].exp
      BY <1>0, <2>1 DEF Process, PC
    <2>3. SetProc(p, IF d = {} THEN Idle ELSE q)
      BY <1>10 DEF Scroll
    <2>4. d # {} => WellFormed(q)
      BY <1>0, <2>2, DriftsMeaning DEF WellFormed
    <2> HIDE DEF q, d
    <2>5. proc' \in [Procs -> Process] /\ RepairsWellFormed'
      BY <1>a, <2>2, <2>3, <2>4, SetProcType, SetProcElsewhere
    <2> QED  BY <1>0, <1>10, <2>5 DEF Scroll, TypeInv, TypeOK
  <1>11. CASE ReplayMissing(p)
    <2> DEFINE q == [proc[p] EXCEPT !.pc = "project"]
    <2>1. /\ q \in Process /\ q.pc = "project" /\ q.exp = proc[p].exp
          /\ q.todo = proc[p].todo
      BY <1>0 DEF Process, PC
    <2>2. WellFormed(q)
      BY <1>0, <1>11, <2>1 DEF ReplayMissing, WellFormed
    <2>3. SetProc(p, q)
      BY <1>11 DEF ReplayMissing
    <2> HIDE DEF q
    <2>4. proc' \in [Procs -> Process] /\ RepairsWellFormed'
      BY <2>1, <2>2, <2>3, SetProcType
    <2> QED  BY <1>0, <1>a, <1>11, <2>4 DEF ReplayMissing, TypeInv, TypeOK
  <1>12. CASE ProjectReplayed(p)
    <2>1. proc[p].exp.status \in Statuses /\ proc[p].todo = {"missing_projection"}
      BY <1>0, <1>12 DEF ProjectReplayed, WellFormed
    <2>2. SetProc(p, Idle)
      BY <1>12, <2>1 DEF ProjectReplayed, AfterRepair
    <2>3. proc' \in [Procs -> Process] /\ RepairsWellFormed'
      BY <1>a, <2>2, SetProcElsewhere
    <2>4. task' \in Task
      BY <1>0, <1>12, <2>1, ProjectedFields, SetTaskProjectionType DEF ProjectReplayed, TypeInv
    <2> QED  BY <1>0, <1>12, <2>3, <2>4 DEF ProjectReplayed, TypeInv, TypeOK
  <1>13. CASE CancelProjected(p)
    <2>1. [Idle EXCEPT !.pc = "delete", !.cmd = [NoCommand EXCEPT !.op = "cancel"]] \in Process
      BY <1>a, Constants1 DEF Process, PC
    <2>2. proc' \in [Procs -> Process] /\ RepairsWellFormed'
      BY <1>a, <1>13, <2>1, SetProcElsewhere DEF CancelProjected, Process
    <2> QED  BY <1>0, <1>13, <2>2 DEF CancelProjected, TypeInv, TypeOK
  <1>14. CASE \E k \in {"orphaned_lease", "projection_drift"} : SetFields(p, k)
    <2>0. PICK k \in {"orphaned_lease", "projection_drift"} : SetFields(p, k)
      BY <1>14
    <2>1. proc' \in [Procs -> Process] /\ RepairsWellFormed'
      BY <2>0, AfterRepairType DEF SetFields
    <2>2. task' \in Task
      <3>1. CASE k = "projection_drift"
        <4>1. "cancelled_projection" \notin proc[p].todo
          BY <1>0, <2>0, <3>1 DEF SetFields, WellFormed
        <4>2. proc[p].exp.status \in Statuses
          BY <1>0, <2>0, <4>1 DEF SetFields, WellFormed
        <4>3. SetTaskProjection(proc[p].exp, NextVersion(proc[p].cur))
          BY <2>0, <3>1 DEF SetFields
        <4> QED  BY <1>0, <1>b, <4>2, <4>3, ProjectedFields, SetTaskProjectionType DEF TypeInv
      <3>2. CASE k # "projection_drift"
        <4>3. SetTaskProjection(Unclaimed(proc[p].cur), NextVersion(proc[p].cur))
          BY <2>0, <3>2 DEF SetFields
        <4> QED  BY <1>b, <4>3, SetTaskProjectionType DEF TypeInv
      <3> QED  BY <3>1, <3>2
    <2> QED  BY <1>0, <2>0, <2>1, <2>2 DEF SetFields, TypeInv, TypeOK
  <1>15. CASE ReleaseStale(p)
    <2> DEFINE c == [NoCommand EXCEPT !.op = "lease_expired"]
               q == [proc[p] EXCEPT !.pc = "log", !.cmd = c]
    <2>1. q \in Process /\ q.pc = "log"
      BY <1>0, Constants1 DEF Process, PC
    <2>2. SetProc(p, q)
      BY <1>15 DEF ReleaseStale
    <2> HIDE DEF q
    <2>3. proc' \in [Procs -> Process] /\ RepairsWellFormed'
      BY <2>1, <2>2, SetProcElsewhere
    <2>4. task' \in Task
      BY <1>b, <1>15, SetTaskProjectionType DEF ReleaseStale, TypeInv
    <2> QED  BY <1>0, <1>15, <2>3, <2>4 DEF ReleaseStale, TypeInv, TypeOK
  <1>16. CASE DrainReplay(p)
    <2>1. [proc[p] EXCEPT !.pc = "dequeue"] \in Process
      BY <1>0 DEF Process, PC
    <2>2. proc' \in [Procs -> Process] /\ RepairsWellFormed'
      BY <1>0, <1>16, <2>1, SetProcElsewhere DEF DrainReplay, Process
    <2> QED  BY <1>0, <1>a, <1>16, <2>2 DEF DrainReplay, TypeInv, TypeOK
  <1>17. CASE Dequeue(p)
    BY <1>0, <1>a, <1>17, SetProcElsewhere DEF Dequeue, TypeInv, TypeOK
  <1>18. CASE RescanReplay(p)
    BY <1>0, <1>a, <1>18, SetProcElsewhere DEF RescanReplay, TypeInv, TypeOK
  <1>19. CASE HealUpsert(p)
    <2>1. [proc[p].cur EXCEPT !.degraded = FALSE] \in Task
      BY <1>0 DEF Task
    <2> QED  BY <1>0, <1>a, <1>19, <2>1, SetProcElsewhere DEF HealUpsert, TypeInv, TypeOK
  <1> QED  BY <1>1, <1>2, <1>3, <1>4, <1>5, <1>6, <1>7, <1>8, <1>9, <1>10, <1>11, <1>12,
              <1>13, <1>14, <1>15, <1>16, <1>17, <1>18, <1>19 DEF Step

LEMMA TypeInit == Init => TypeInv
  <1> SUFFICES ASSUME Init PROVE TypeInv
    OBVIOUS
  <1>1. TypeOK
    BY Constants1, ConstantsOK DEF Init, TypeOK, Time
  <1>2. RepairsWellFormed
    BY DEF Init, Idle, RepairsWellFormed, WellFormed
  <1> QED  BY <1>1, <1>2 DEF TypeInv

LEMMA TypeNext == TypeInv /\ [Next]_vars => TypeInv'
  <1> SUFFICES ASSUME TypeInv, [Next]_vars PROVE TypeInv'
    OBVIOUS
  <1>0. /\ task \in Task /\ log \in Projected /\ now \in Nat /\ budget \in Nat
        /\ queued \in BOOLEAN /\ told \in [Owners -> Time] /\ proc \in [Procs -> Process]
    BY DEF TypeInv, TypeOK, Time
  <1>a. /\ Idle \in Process /\ Idle.pc = "idle" /\ NoTask \in Task
        /\ NoLog \in Projected /\ CreatedLog \in Projected
    BY Constants1 DEF Idle
  <1>1. ASSUME NEW p \in Procs, Create(p) PROVE TypeInv'
    <2> DEFINE q == [Idle EXCEPT !.pc = "upsert"]
    <2>1. q \in Process /\ q.pc = "upsert"
      BY <1>a DEF Process, PC
    <2>2. SetProc(p, q)
      BY <1>1 DEF Create
    <2> HIDE DEF q
    <2> QED  BY <1>0, <1>a, <1>1, <2>1, <2>2, SetProcElsewhere DEF Create, TypeInv, TypeOK
  <1>2. ASSUME NEW p \in Procs, NEW c \in Commands, Begin(p, c) PROVE TypeInv'
    <2> DEFINE start == IF c.op = "cancel" THEN "delete" ELSE "write"
               q == [Idle EXCEPT !.pc = start, !.cmd = c, !.cur = task, !.at = now]
    <2>1. q \in Process /\ q.pc \notin {"apply", "project"}
      BY <1>0, <1>a DEF Process, PC, Time
    <2>2. SetProc(p, q)
      BY <1>2 DEF Begin
    <2>3. budget' \in Nat
      BY <1>0, <1>2 DEF Begin
    <2> HIDE DEF q
    <2> QED  BY <1>0, <1>2, <2>1, <2>2, <2>3, SetProcElsewhere DEF Begin, TypeInv, TypeOK
  <1>3. ASSUME NEW p \in Procs, StartRepair(p) PROVE TypeInv'
    <2>1. /\ [Idle EXCEPT !.pc = "creates", !.exp = log] \in Process
          /\ [Idle EXCEPT !.pc = "drain"] \in Process
          /\ [Idle EXCEPT !.pc = "rescan"] \in Process
          /\ [Idle EXCEPT !.pc = "heal", !.cur = task] \in Process
      BY <1>0, <1>a DEF Process, PC
    <2>2. PICK q \in Process : SetProc(p, q) /\ q.pc \notin {"apply", "project"}
      <3>1. CASE ReadEvents(p)
        BY <2>1, <3>1 DEF ReadEvents, Process
      <3>2. CASE DrainRead(p)
        BY <2>1, <3>2 DEF DrainRead, Process
      <3>3. CASE RescanRead(p)
        BY <2>1, <3>3 DEF RescanRead, Process
      <3>4. CASE HealRead(p)
        BY <2>1, <3>4 DEF HealRead, Process
      <3> QED  BY <1>3, <3>1, <3>2, <3>3, <3>4 DEF StartRepair
    <2>3. UNCHANGED <<task, log, queued, now, budget, told>>
      BY <1>3 DEF StartRepair, ReadEvents, DrainRead, RescanRead, HealRead
    <2> QED  BY <1>0, <2>2, <2>3, SetProcElsewhere DEF TypeInv, TypeOK
  <1>4. ASSUME NEW p \in Procs, Crash(p) PROVE TypeInv'
    BY <1>0, <1>a, <1>4, SetProcElsewhere DEF Crash, TypeInv, TypeOK
  <1>5. CASE Tick
    BY <1>0, <1>5 DEF Tick, TypeInv, TypeOK, Time, RepairsWellFormed
  <1>6. CASE UNCHANGED vars
    BY <1>6 DEF vars, TypeInv, TypeOK, RepairsWellFormed
  <1> QED  BY <1>1, <1>2, <1>3, <1>4, <1>5, <1>6, TypeStep DEF Next

\* Every state is well typed, whatever repairs run and whatever goes wrong.
THEOREM TypeCorrect == Spec => []TypeOK
  <1>1. Spec => []TypeInv
    BY TypeInit, TypeNext, PTL DEF Spec
  <1>2. TypeInv => TypeOK
    BY DEF TypeInv
  <1> QED  BY <1>1, <1>2, PTL

(***************************************************************************)
(* Owner and lease come and go together                                    *)
(***************************************************************************)

LEMMA OrphanMeaning ==
    ASSUME NEW t
    PROVE  ~OrphanedLease(t) <=> /\ t.owner = NoOwner => t.claimed = 0 /\ t.lease = 0
                                 /\ t.owner # NoOwner => t.lease # 0
  BY DEF OrphanedLease

LEMMA NotOrphaned ==
    /\ ~OrphanedLease(NoTask) /\ ~OrphanedLease(CreatedTask) /\ ~OrphanedLease(ReplayedTask)
    /\ ~OrphanedLease(NoLog) /\ ~OrphanedLease(CreatedLog)
    /\ ~OrphanedLease(Idle.cur) /\ ~OrphanedLease(Idle.exp)
  BY DEF OrphanedLease, NoTask, CreatedTask, ReplayedTask, NoLog, CreatedLog, Idle

LEMMA LeaseEndPositive ==
    ASSUME NEW q \in Process, q.cmd.op \in Leasing
    PROVE  LeaseEnd(q) # 0 /\ q.cmd.owner # NoOwner
  <1>1. q.cmd.owner \in Owners /\ q.cmd.lease \in Nat /\ q.cmd.lease > 0 /\ q.at \in Nat
    BY CommandFields DEF Process, Time
  <1> QED  BY <1>1, ConstantsOK DEF LeaseEnd

LEMMA PayloadPaired ==
    ASSUME NEW q \in Process, NEW t \in Task, ~OrphanedLease(t),
           q.cmd.op = "renew" => t.owner # NoOwner
    PROVE  ~OrphanedLease([Payload(q, t) EXCEPT !.version = NextVersion(q.cur)])
  <1> DEFINE u == [Payload(q, t) EXCEPT !.version = NextVersion(q.cur)]
  <1>1. CASE q.cmd.op \in {"start", "unblock"}
    <2>1. u.owner = q.cmd.owner /\ u.lease = LeaseEnd(q)
      BY <1>1 DEF Payload, Closing, Task
    <2>2. q.cmd.op \in Leasing
      BY <1>1 DEF Leasing
    <2> QED  BY <2>1, <2>2, LeaseEndPositive DEF OrphanedLease
  <1>2. CASE q.cmd.op = "renew"
    <2>1. u.owner = t.owner /\ u.lease = LeaseEnd(q)
      BY <1>2 DEF Payload, Closing, Task
    <2>2. q.cmd.op \in Leasing
      BY <1>2 DEF Leasing
    <2> QED  BY <1>2, <2>1, <2>2, LeaseEndPositive DEF OrphanedLease
  <1>3. CASE q.cmd.op = "release"
    <2>1. u.owner = NoOwner /\ u.claimed = 0 /\ u.lease = 0
      BY <1>3 DEF Payload, Unclaimed, Closing, Task
    <2> QED  BY <2>1 DEF OrphanedLease
  <1>4. CASE q.cmd.op \notin {"start", "unblock", "renew", "release"}
    <2>1. u.owner = t.owner /\ u.claimed = t.claimed /\ u.lease = t.lease
      BY <1>4 DEF Payload, Closing, Task
    <2> QED  BY <2>1 DEF OrphanedLease
  <1> QED  BY <1>1, <1>2, <1>3, <1>4

LEMMA FoldPaired ==
    ASSUME NEW e \in Projected, NEW q \in Process, NEW at \in Time, ~OrphanedLease(e)
    PROVE  ~OrphanedLease(Fold(e, q, at))
  <1> DEFINE f == Fold(e, q, at)
  <1>1. CASE q.cmd.op \in Leasing
    <2>1. f.owner = q.cmd.owner /\ f.lease = LeaseEnd(q)
      BY <1>1 DEF Fold, Leasing, Closing
    <2> QED  BY <1>1, <2>1, LeaseEndPositive DEF OrphanedLease
  <1>2. CASE q.cmd.op \in {"release", "lease_expired"}
    BY <1>2, NotOrphaned DEF Fold, Closing
  <1>3. CASE q.cmd.op \in Closing
    <2>1. f.owner = e.owner /\ f.claimed = e.claimed /\ f.lease = e.lease
      BY <1>3 DEF Fold, Closing, Projected, NoLog
    <2> QED  BY <2>1 DEF OrphanedLease
  <1>4. CASE q.cmd.op = "cancel"
    <2>1. f.owner = NoOwner /\ f.claimed = 0 /\ f.lease = 0
      BY <1>4 DEF Fold, Closing, NoLog
    <2> QED  BY <2>1 DEF OrphanedLease
  <1>5. CASE q.cmd.op \notin Leasing \union Closing \union {"release", "lease_expired", "cancel"}
    BY <1>5 DEF Fold, Closing, Leasing
  <1> QED  BY <1>1, <1>2, <1>3, <1>4, <1>5

LEMMA ProjectionPaired ==
    ASSUME TypeInv, ~OrphanedLease(task), NEW f, NEW v,
           ~OrphanedLease(f), SetTaskProjection(f, v)
    PROVE  ~OrphanedLease(task')
  <1>1. CASE Exists(task)
    <2>1. task'.owner = f.owner /\ task'.claimed = f.claimed /\ task'.lease = f.lease
      BY <1>1 DEF SetTaskProjection, TypeInv, TypeOK, Task
    <2> QED  BY <2>1 DEF OrphanedLease
  <1>2. CASE ~Exists(task)
    BY <1>2 DEF SetTaskProjection
  <1> QED  BY <1>1, <1>2

LEMMA UnclaimedPaired ==
    ASSUME NEW t \in Task
    PROVE  ~OrphanedLease(Unclaimed(t))
  BY DEF Unclaimed, OrphanedLease, Task

LEMMA TaskPaired ==
    ASSUME TypeInv, PairInv, NEW p \in Procs, Step(p)
    PROVE  ~OrphanedLease(task')
  <1>0. /\ proc[p] \in Process /\ task \in Task /\ ~OrphanedLease(task)
        /\ proc[p].cur \in Task
        /\ ~OrphanedLease(proc[p].cur) /\ ~OrphanedLease(proc[p].exp)
        /\ proc[p].pc = "write" /\ proc[p].cmd.op = "renew"
             => proc[p].cur.owner = proc[p].cmd.owner
    BY DEF TypeInv, TypeOK, PairInv, NeverOrphaned, RenewerOwns, Process
  <1>1. CASE WriteMatches(p)
    <2>1. ASSUME proc[p].cmd.op = "renew" PROVE task.owner # NoOwner
      <3>1. proc[p].cmd.op \in Leasing /\ proc[p].cur.owner = proc[p].cmd.owner
        BY <1>0, <1>1, <2>1 DEF WriteMatches, Leasing
      <3>2. proc[p].cur.owner # NoOwner
        BY <1>0, <3>1, LeaseEndPositive
      <3> QED  BY <1>1, <3>1, <3>2 DEF WriteMatches, Matches
    <2> QED  BY <1>0, <1>1, <2>1, PayloadPaired DEF WriteMatches
  <1>2. CASE ProjectReplayed(p)
    BY <1>0, <1>2, ProjectionPaired DEF ProjectReplayed
  <1>3. CASE \E k \in {"orphaned_lease", "projection_drift"} : SetFields(p, k)
    <2>1. PICK k \in {"orphaned_lease", "projection_drift"} : SetFields(p, k)
      BY <1>3
    <2>2. CASE k = "projection_drift"
      <3>1. SetTaskProjection(proc[p].exp, NextVersion(proc[p].cur))
        BY <2>1, <2>2 DEF SetFields
      <3> QED  BY <1>0, <3>1, ProjectionPaired
    <2>3. CASE k # "projection_drift"
      <3>1. SetTaskProjection(Unclaimed(proc[p].cur), NextVersion(proc[p].cur))
        BY <2>1, <2>3 DEF SetFields
      <3> QED  BY <1>0, <3>1, UnclaimedPaired, ProjectionPaired
    <2> QED  BY <2>2, <2>3
  <1>4. CASE ReleaseStale(p)
    BY <1>0, <1>4, UnclaimedPaired, ProjectionPaired DEF ReleaseStale
  <1>5. CASE HealUpsert(p)
    <2>1. task'.owner = proc[p].cur.owner /\ task'.claimed = proc[p].cur.claimed
          /\ task'.lease = proc[p].cur.lease
      BY <1>0, <1>5 DEF HealUpsert, Task
    <2> QED  BY <1>0, <2>1 DEF OrphanedLease
  <1>6. CASE UpsertCreated(p) \/ ReplayMissing(p) \/ DrainReplay(p) \/ RescanReplay(p) \/ Delete(p)
    BY <1>6, NotOrphaned DEF UpsertCreated, ReplayMissing, DrainReplay, RescanReplay, Delete
  <1>7. CASE UpsertFails(p) \/ WriteMisses(p) \/ ReadBack(p) \/ ReadBackFails(p)
             \/ AppendTaskEvent(p) \/ ReadCreates(p) \/ Scroll(p) \/ CancelProjected(p) \/ Dequeue(p)
    BY <1>0, <1>7 DEF UpsertFails, WriteMisses, ReadBack, ReadBackFails, AppendTaskEvent,
                      ReadCreates, Scroll, CancelProjected, Dequeue
  <1> QED  BY <1>1, <1>2, <1>3, <1>4, <1>5, <1>6, <1>7 DEF Step

\* What PairInv says of one process.
PairedProc(q) ==
    /\ ~OrphanedLease(q.cur) /\ ~OrphanedLease(q.exp)
    /\ q.pc = "write" /\ q.cmd.op = "renew" => q.cur.owner = q.cmd.owner

LEMMA SetProcPaired ==
    ASSUME TypeInv, PairInv, NEW p \in Procs, NEW q, SetProc(p, q), PairedProc(q)
    PROVE  \A r \in Procs : PairedProc(proc'[r])
  <1>1. \A r \in Procs : PairedProc(proc[r])
    BY DEF PairInv, NeverOrphaned, RenewerOwns, PairedProc
  <1>2. \A r \in Procs : proc'[r] = IF r = p THEN q ELSE proc[r]
    BY DEF SetProc, TypeInv, TypeOK
  <1> QED  BY <1>1, <1>2

LEMMA ProcsPaired ==
    ASSUME TypeInv, PairInv, NEW p \in Procs, Step(p)
    PROVE  \A r \in Procs : PairedProc(proc'[r])
  <1>0. /\ proc[p] \in Process /\ ~OrphanedLease(task)
        /\ ~OrphanedLease(proc[p].cur) /\ ~OrphanedLease(proc[p].exp)
    BY DEF TypeInv, TypeOK, PairInv, NeverOrphaned
  <1>a. PairedProc(Idle)
    BY NotOrphaned DEF PairedProc, Idle
  <1>b. \A x \in {"check", "log", "project", "dequeue"} : PairedProc([proc[p] EXCEPT !.pc = x])
    BY <1>0 DEF PairedProc, Process
  <1>1. CASE \/ UpsertCreated(p) \/ UpsertFails(p) \/ ReadBackFails(p) \/ AppendTaskEvent(p)
             \/ Dequeue(p) \/ RescanReplay(p) \/ HealUpsert(p)
    BY <1>1, <1>a, SetProcPaired DEF UpsertCreated, UpsertFails, ReadBackFails, AppendTaskEvent,
                                      Dequeue, RescanReplay, HealUpsert
  <1>2. CASE \/ WriteMatches(p) \/ WriteMisses(p) \/ ReadBack(p) \/ Delete(p)
             \/ ReplayMissing(p) \/ DrainReplay(p)
    BY <1>2, <1>b, SetProcPaired DEF WriteMatches, WriteMisses, ReadBack, Delete, ReplayMissing,
                                      DrainReplay
  <1>3. CASE ReadCreates(p)
    <2> DEFINE e == IF proc[p].exp = NoLog /\ log # NoLog THEN CreatedLog ELSE proc[p].exp
               q == [proc[p] EXCEPT !.pc = "scroll", !.exp = e]
    <2>1. ~OrphanedLease(e)
      BY <1>0, NotOrphaned
    <2>2. q.cur = proc[p].cur /\ q.exp = e /\ q.pc = "scroll"
      BY <1>0 DEF Process
    <2>3. SetProc(p, q)
      BY <1>0, <1>3 DEF ReadCreates, Process
    <2> HIDE DEF q, e
    <2>4. PairedProc(q)
      BY <1>0, <2>1, <2>2 DEF PairedProc
    <2> QED  BY <2>3, <2>4, SetProcPaired
  <1>4. CASE Scroll(p)
    <2> DEFINE d == Drifts(proc[p].exp, task)
               q == [proc[p] EXCEPT !.pc = "apply", !.cur = task, !.at = now, !.todo = d]
    <2>1. q.cur = task /\ q.exp = proc[p].exp /\ q.pc = "apply"
      BY <1>0 DEF Process
    <2>2. SetProc(p, IF d = {} THEN Idle ELSE q)
      BY <1>4 DEF Scroll
    <2> HIDE DEF q, d
    <2>3. PairedProc(q)
      BY <1>0, <2>1 DEF PairedProc
    <2> QED  BY <1>a, <2>2, <2>3, SetProcPaired
  <1>5. ASSUME NEW k, AfterRepair(p, k), proc[p].pc \in {"apply", "project"}
        PROVE  \A r \in Procs : PairedProc(proc'[r])
    <2> DEFINE q == [proc[p] EXCEPT !.todo = @ \ {k}]
    <2>1. q.cur = proc[p].cur /\ q.exp = proc[p].exp /\ q.pc = proc[p].pc
      BY <1>0 DEF Process
    <2>2. SetProc(p, IF proc[p].todo = {k} THEN Idle ELSE q)
      BY <1>5 DEF AfterRepair
    <2> HIDE DEF q
    <2>3. PairedProc(q)
      BY <1>0, <1>5, <2>1 DEF PairedProc
    <2> QED  BY <1>a, <2>2, <2>3, SetProcPaired
  <1>6. CASE ProjectReplayed(p) \/ \E k \in {"orphaned_lease", "projection_drift"} : SetFields(p, k)
    BY <1>5, <1>6 DEF ProjectReplayed, SetFields
  <1>7. CASE CancelProjected(p)
    <2> DEFINE q == [Idle EXCEPT !.pc = "delete", !.cmd = [NoCommand EXCEPT !.op = "cancel"]]
    <2>1. q.cur = Idle.cur /\ q.exp = Idle.exp /\ q.pc = "delete"
      BY DEF Idle
    <2>2. SetProc(p, IF Exists(task) THEN q ELSE Idle)
      BY <1>7 DEF CancelProjected
    <2> HIDE DEF q
    <2>3. PairedProc(q)
      BY <2>1, NotOrphaned DEF PairedProc
    <2> QED  BY <1>a, <2>2, <2>3, SetProcPaired
  <1>8. CASE ReleaseStale(p)
    <2> DEFINE c == [NoCommand EXCEPT !.op = "lease_expired"]
               q == [proc[p] EXCEPT !.pc = "log", !.cmd = c]
    <2>1. q.cur = proc[p].cur /\ q.exp = proc[p].exp /\ q.pc = "log"
      BY <1>0 DEF Process
    <2>2. SetProc(p, q)
      BY <1>8 DEF ReleaseStale
    <2> HIDE DEF q
    <2>3. PairedProc(q)
      BY <1>0, <2>1 DEF PairedProc
    <2> QED  BY <2>2, <2>3, SetProcPaired
  <1> QED  BY <1>1, <1>2, <1>3, <1>4, <1>6, <1>7, <1>8 DEF Step

LEMMA PairNext == TypeInv /\ PairInv /\ [Next]_vars => PairInv'
  <1> SUFFICES ASSUME TypeInv, PairInv, [Next]_vars PROVE PairInv'
    OBVIOUS
  <1>0. /\ ~OrphanedLease(task) /\ ~OrphanedLease(log) /\ log \in Projected
        /\ now \in Time /\ proc \in [Procs -> Process]
    BY DEF TypeInv, TypeOK, PairInv, NeverOrphaned
  <1>a. PairedProc(Idle)
    BY NotOrphaned DEF PairedProc, Idle
  <1>b. (~OrphanedLease(task') /\ ~OrphanedLease(log') /\ \A r \in Procs : PairedProc(proc'[r]))
          => PairInv'
    BY DEF PairedProc, PairInv, NeverOrphaned, RenewerOwns
  <1>1. ASSUME NEW p \in Procs, Create(p) PROVE PairInv'
    <2>1. PairedProc([Idle EXCEPT !.pc = "upsert"])
      BY NotOrphaned DEF PairedProc, Idle
    <2> QED  BY <1>0, <1>1, <1>b, <2>1, NotOrphaned, SetProcPaired DEF Create
  <1>2. ASSUME NEW p \in Procs, NEW c \in Commands, Begin(p, c) PROVE PairInv'
    <2> DEFINE start == IF c.op = "cancel" THEN "delete" ELSE "write"
               q == [Idle EXCEPT !.pc = start, !.cmd = c, !.cur = task, !.at = now]
    <2>1. q.cur = task /\ q.exp = Idle.exp /\ q.cmd = c
      BY DEF Idle
    <2>2. c.op = "renew" => task.owner = c.owner
      BY <1>2 DEF Begin, Legal
    <2>3. SetProc(p, q)
      BY <1>2 DEF Begin
    <2> HIDE DEF q
    <2>4. PairedProc(q)
      BY <1>0, <2>1, <2>2, NotOrphaned DEF PairedProc
    <2> QED  BY <1>0, <1>2, <1>b, <2>3, <2>4, SetProcPaired DEF Begin
  <1>3. ASSUME NEW p \in Procs, Step(p) PROVE PairInv'
    <2>1. ~OrphanedLease(log')
      <3>1. CASE AppendTaskEvent(p)
        BY <1>0, <3>1, FoldPaired DEF AppendTaskEvent
      <3>2. CASE ~AppendTaskEvent(p)
        BY <1>0, <1>3, <3>2 DEF Step, UpsertCreated, UpsertFails, WriteMatches, WriteMisses,
             ReadBack, ReadBackFails, Delete, ReadCreates, Scroll, ReplayMissing, ProjectReplayed,
             CancelProjected, SetFields, ReleaseStale, DrainReplay, Dequeue, RescanReplay, HealUpsert
      <3> QED  BY <3>1, <3>2
    <2> QED  BY <1>3, <1>b, <2>1, TaskPaired, ProcsPaired
  <1>4. ASSUME NEW p \in Procs, StartRepair(p) PROVE PairInv'
    <2>1. /\ PairedProc([Idle EXCEPT !.pc = "creates", !.exp = log])
          /\ PairedProc([Idle EXCEPT !.pc = "drain"])
          /\ PairedProc([Idle EXCEPT !.pc = "rescan"])
          /\ PairedProc([Idle EXCEPT !.pc = "heal", !.cur = task])
      BY <1>0, NotOrphaned DEF PairedProc, Idle
    <2>2. \A r \in Procs : PairedProc(proc'[r])
      BY <1>4, <2>1, SetProcPaired DEF StartRepair, ReadEvents, DrainRead, RescanRead, HealRead
    <2> QED  BY <1>0, <1>4, <1>b, <2>2 DEF StartRepair, ReadEvents, DrainRead, RescanRead, HealRead
  <1>5. ASSUME NEW p \in Procs, Crash(p) PROVE PairInv'
    BY <1>0, <1>5, <1>a, <1>b, SetProcPaired DEF Crash
  <1>6. CASE Tick \/ UNCHANGED vars
    BY <1>6 DEF Tick, vars, PairInv, NeverOrphaned, RenewerOwns
  <1> QED  BY <1>1, <1>2, <1>3, <1>4, <1>5, <1>6 DEF Next

\* Whatever repairs run and whatever goes wrong, a task has an owner exactly
\* when it has a lease: `gg reconcile' never finds an orphaned lease.
THEOREM LeaseHasOwner == Spec => []NeverOrphaned
  <1>1. Init => PairInv
    BY NotOrphaned DEF Init, PairInv, NeverOrphaned, RenewerOwns, Idle
  <1>2. Spec => [](TypeInv /\ PairInv)
    BY <1>1, TypeInit, TypeNext, PairNext, PTL DEF Spec
  <1>3. PairInv => NeverOrphaned
    BY DEF PairInv
  <1> QED  BY <1>2, <1>3, PTL

(***************************************************************************)
(* Claims are exclusive while no repair runs                               *)
(***************************************************************************)

\* Once the task is in the log, it stays there.
LEMMA FoldKnows ==
    ASSUME NEW e \in Projected, NEW q, NEW at, e # NoLog
    PROVE  Fold(e, q, at) # NoLog
  <1> DEFINE f == Fold(e, q, at)
  <1>1. CASE q.cmd.op \in Leasing
    <2>1. f.status = "in_progress"
      BY <1>1 DEF Fold, Leasing, Closing
    <2> QED  BY <2>1 DEF NoLog
  <1>2. CASE q.cmd.op \in {"release", "lease_expired"}
    BY <1>2 DEF Fold, Closing, CreatedLog, NoLog
  <1>3. CASE q.cmd.op \in Closing
    <2>1. f.status = q.cmd.op
      BY <1>3 DEF Fold, Closing, Projected, NoLog
    <2> QED  BY <1>3, <2>1 DEF NoLog, Closing
  <1>4. CASE q.cmd.op = "cancel"
    <2>1. f.status = "cancelled"
      BY <1>4 DEF Fold, Closing, NoLog
    <2> QED  BY <2>1 DEF NoLog
  <1>5. CASE q.cmd.op \notin Leasing \union Closing \union {"release", "lease_expired", "cancel"}
    BY <1>5 DEF Fold, Closing, Leasing
  <1> QED  BY <1>1, <1>2, <1>3, <1>4, <1>5

\* While a process runs, the task is in the log.
LEMMA RunningIsLogged ==
    ASSUME ClaimCore, NEW p \in Procs, proc[p] # Idle
    PROVE  log # NoLog
  BY DEF ClaimCore, NothingBefore

\* A process that has begun keeps the invariant on processes when it moves to
\* a point behind its write.
LEMMA BehindTheWrite ==
    ASSUME TypeInv, ClaimCore, NEW p \in Procs, NEW q, SetProc(p, q),
           proc[p] # Idle, q.pc \in {"idle", "check", "log"},
           log' # NoLog, now' = now
    PROVE  OnlyCommands' /\ NothingBefore' /\ CreatorIsAlone' /\ StillLegal'
  <1>1. \A r \in Procs : proc'[r] = IF r = p THEN q ELSE proc[r]
    BY DEF SetProc, TypeInv, TypeOK
  <1>2. OnlyCommands'
    BY <1>1 DEF ClaimCore, OnlyCommands, CommandPC
  <1>3. NothingBefore'
    BY DEF NothingBefore
  <1>4. \A r \in Procs : proc'[r].pc # "upsert"
    <2> SUFFICES ASSUME NEW r \in Procs, proc'[r].pc = "upsert" PROVE FALSE
      OBVIOUS
    <2>1. r # p /\ proc[r].pc = "upsert"
      BY <1>1
    <2>2. proc[p] = Idle
      BY <2>1 DEF ClaimCore, CreatorIsAlone
    <2> QED  BY <2>2
  <1>5. CreatorIsAlone'
    BY <1>4 DEF CreatorIsAlone
  <1>6. StillLegal'
    BY <1>1 DEF ClaimCore, StillLegal, Legal, HeldByOther, LeaseActive, Exists
  <1> QED  BY <1>2, <1>3, <1>5, <1>6

\* ... and the whole invariant, when it leaves the task alone.
LEMMA TaskLeftAlone ==
    ASSUME TypeInv, ClaimCore, NEW p \in Procs, NEW q, SetProc(p, q),
           proc[p] # Idle, q.pc \in {"idle", "check", "log"},
           log' # NoLog, UNCHANGED <<task, now, told>>
    PROVE  ClaimCore'
  <1>1. OnlyCommands' /\ NothingBefore' /\ CreatorIsAlone' /\ StillLegal'
    BY BehindTheWrite
  <1>2. \A r \in Procs : proc'[r] = IF r = p THEN q ELSE proc[r]
    BY DEF SetProc, TypeInv, TypeOK
  <1>3. VersionIdentifies'
    BY <1>2 DEF ClaimCore, VersionIdentifies, Exists
  <1>4. ClaimIsStored' /\ ExclusiveClaim'
    BY DEF ClaimCore, ClaimIsStored, ExclusiveClaim, Holds, Exists
  <1> QED  BY <1>1, <1>3, <1>4 DEF ClaimCore

\* Where the filter matches, the task is the one that was read, and nobody but
\* the owner of the command holds it, if the command changes the claim.
LEMMA MatchedTask ==
    ASSUME TypeInv, ClaimCore, NEW p \in Procs, WriteMatches(p)
    PROVE  /\ Exists(task) /\ proc[p].cur = task
           /\ proc[p].cmd.owner \in Owners
                => \A o \in Owners : Holds(o) => o = proc[p].cmd.owner
  <1>0. /\ proc[p] \in Process /\ proc[p].pc = "write" /\ Matches(proc[p], task)
        /\ Legal(proc[p].cmd, proc[p].cur) /\ Exists(proc[p].cur)
    BY DEF TypeInv, TypeOK, WriteMatches, ClaimCore, StillLegal
  <1>1. Exists(task) /\ proc[p].cur = task
    BY <1>0 DEF Matches, Exists, ClaimCore, VersionIdentifies
  <1>2. ASSUME proc[p].cmd.owner \in Owners, NEW o \in Owners, Holds(o)
        PROVE  o = proc[p].cmd.owner
    <2>1. task.owner = o /\ task.lease = told[o] /\ told[o] > now
      BY <1>1, <1>2 DEF ClaimCore, ClaimIsStored, Holds
    <2>2. proc[p].cmd.op \in Leasing \union {"release"}
      BY <1>0, <1>2, CommandFields, ConstantsOK
    <2>3. CASE proc[p].cmd.op \in {"start", "unblock"}
      <3>1. ~HeldByOther(proc[p].cmd.owner, task)
        BY <1>0, <1>1, <2>3 DEF Legal
      <3> QED  BY <2>1, <3>1, ConstantsOK DEF HeldByOther, LeaseActive
    <2>4. CASE proc[p].cmd.op \in {"renew", "release"}
      BY <1>0, <1>1, <2>1, <2>4 DEF Legal
    <2> QED  BY <2>2, <2>3, <2>4 DEF Leasing
  <1> QED  BY <1>1, <1>2

LEMMA WrittenFields ==
    ASSUME NEW q \in Process, NEW t \in Task
    PROVE  LET u == [Payload(q, t) EXCEPT !.version = NextVersion(q.cur)]
           IN  /\ u.version = NextVersion(q.cur)
               /\ q.cmd.owner \notin Owners => u.owner = t.owner /\ u.lease = t.lease
  <1> DEFINE u == [Payload(q, t) EXCEPT !.version = NextVersion(q.cur)]
  <1>1. CASE q.cmd.op \in Leasing \union {"release"}
    <2>1. q.cmd.owner \in Owners
      BY <1>1, CommandFields
    <2>2. CASE q.cmd.op \in {"start", "unblock"}
      BY <2>1, <2>2 DEF Payload, Closing, Task
    <2>3. CASE q.cmd.op = "renew"
      BY <2>1, <2>3 DEF Payload, Closing, Task
    <2>4. CASE q.cmd.op = "release"
      BY <2>1, <2>4 DEF Payload, Closing, Unclaimed, Task
    <2> QED  BY <1>1, <2>2, <2>3, <2>4 DEF Leasing
  <1>2. CASE q.cmd.op \in Closing
    BY <1>2 DEF Payload, Closing, Task
  <1>3. CASE q.cmd.op \notin Leasing \union {"release"} \union Closing
    BY <1>3 DEF Payload, Leasing, Closing, Task
  <1> QED  BY <1>1, <1>2, <1>3

\* A write that matches keeps the invariant, and counts the version up.
LEMMA ClaimWrite ==
    ASSUME TypeInv, ClaimCore, NEW p \in Procs, WriteMatches(p)
    PROVE  ClaimCore' /\ task'.version > task.version
  <1> DEFINE q == proc[p]
  <1>0. /\ q \in Process /\ task \in Task /\ now \in Nat /\ told \in [Owners -> Nat]
        /\ q.pc = "write" /\ q # Idle /\ q.cur = task /\ Exists(task)
        /\ SetProc(p, [q EXCEPT !.pc = "check"])
        /\ log' = log /\ now' = now /\ Untold(q)
        /\ task' = [Payload(q, task) EXCEPT !.version = NextVersion(q.cur)]
    BY MatchedTask DEF TypeInv, TypeOK, WriteMatches, Time, Idle
  <1>1. [q EXCEPT !.pc = "check"].pc = "check"
    BY <1>0 DEF Process
  <1>2. log' # NoLog
    BY <1>0, RunningIsLogged
  <1>3. OnlyCommands' /\ NothingBefore' /\ CreatorIsAlone' /\ StillLegal'
    BY <1>0, <1>1, <1>2, BehindTheWrite
  <1>4. task'.version = task.version + 1 /\ task.version \in Nat
    BY <1>0, WrittenFields DEF NextVersion, Task
  <1>5. VersionIdentifies'
    <2> SUFFICES ASSUME NEW r \in Procs, proc'[r].pc = "write"
                 PROVE  proc'[r].cur.version \in Nat /\ proc'[r].cur.version <= task.version
      BY <1>4 DEF VersionIdentifies
    <2>1. proc'[r] = proc[r] /\ proc[r] \in Process
      BY <1>0, <1>1 DEF SetProc, TypeInv, TypeOK
    <2> QED  BY <1>0, <2>1 DEF ClaimCore, VersionIdentifies, Process, Task
  <1>6. CASE q.cmd.owner \in Owners
    <2>1. \A o \in Owners : told'[o] = 0 \/ (told'[o] = told[o] /\ ~Holds(o))
      BY <1>0, <1>6, MatchedTask DEF Untold
    <2>2. \A o \in Owners : ~(told'[o] > now')
      BY <1>0, <2>1 DEF Holds
    <2> QED  BY <1>3, <1>4, <1>5, <2>2 DEF ClaimCore, ClaimIsStored, ExclusiveClaim, Holds
  <1>7. CASE q.cmd.owner \notin Owners
    <2>1. told' = told /\ task'.owner = task.owner /\ task'.lease = task.lease
      BY <1>0, <1>7, WrittenFields DEF Untold
    <2>2. ClaimIsStored' /\ ExclusiveClaim'
      BY <1>0, <2>1 DEF ClaimCore, ClaimIsStored, ExclusiveClaim, Holds
    <2> QED  BY <1>3, <1>4, <1>5, <2>2 DEF ClaimCore
  <1> QED  BY <1>6, <1>7

LEMMA ClaimReadBack ==
    ASSUME TypeInv, ClaimCore, NEW p \in Procs, ReadBack(p)
    PROVE  ClaimCore'
  <1> DEFINE q == proc[p]
  <1>0. /\ q \in Process /\ now \in Nat /\ told \in [Owners -> Nat]
        /\ q.pc = "check" /\ q # Idle /\ Exists(task) /\ Confirmed(q, task)
        /\ SetProc(p, [q EXCEPT !.pc = "log"])
        /\ UNCHANGED <<task, log, now>>
    BY DEF TypeInv, TypeOK, ReadBack, Time, Idle
  <1>1. [q EXCEPT !.pc = "log"].pc = "log"
    BY <1>0 DEF Process
  <1>2. CASE q.cmd.op \notin Leasing
    <2>1. told' = told
      BY <1>2 DEF ReadBack
    <2> QED  BY <1>0, <1>1, <2>1, RunningIsLogged, TaskLeftAlone
  <1>3. CASE q.cmd.op \in Leasing
    <2>1. /\ q.cmd.owner \in Owners
          /\ task.owner = q.cmd.owner /\ task.lease = LeaseEnd(q)
          /\ told' = [told EXCEPT ![q.cmd.owner] = LeaseEnd(q)]
      BY <1>0, <1>3, CommandFields DEF Confirmed, ReadBack
    <2>2. \A o \in Owners \ {q.cmd.owner} : told'[o] = told[o] /\ ~Holds(o)
      BY <1>0, <2>1 DEF ClaimCore, ClaimIsStored
    <2>3. ClaimIsStored' /\ ExclusiveClaim'
      BY <1>0, <2>1, <2>2 DEF ClaimIsStored, ExclusiveClaim, Holds
    <2>4. OnlyCommands' /\ NothingBefore' /\ CreatorIsAlone' /\ StillLegal'
      BY <1>0, <1>1, RunningIsLogged, BehindTheWrite
    <2>5. VersionIdentifies'
      <3>1. \A r \in Procs : proc'[r].pc = "write" => proc'[r] = proc[r]
        BY <1>0, <1>1 DEF SetProc, TypeInv, TypeOK
      <3> QED  BY <1>0, <3>1 DEF ClaimCore, VersionIdentifies, Exists
    <2> QED  BY <2>3, <2>4, <2>5 DEF ClaimCore
  <1> QED  BY <1>2, <1>3

LEMMA ClaimDelete ==
    ASSUME TypeInv, ClaimCore, NEW p \in Procs, Delete(p)
    PROVE  ClaimCore'
  <1>1. [proc[p] EXCEPT !.pc = "log"].pc = "log"
    BY DEF TypeInv, TypeOK, Process
  <1>2. OnlyCommands' /\ NothingBefore' /\ CreatorIsAlone' /\ StillLegal'
    <2>1. proc[p] # Idle /\ log' = log /\ now' = now /\ SetProc(p, [proc[p] EXCEPT !.pc = "log"])
      BY DEF Delete, Idle
    <2> QED  BY <1>1, <2>1, RunningIsLogged, BehindTheWrite
  <1>3. ~Exists(task)' /\ UNCHANGED <<now, told>>
    BY DEF Delete, Exists, NoTask
  <1> QED  BY <1>2, <1>3 DEF ClaimCore, VersionIdentifies, ClaimIsStored, ExclusiveClaim, Holds

LEMMA ClaimUpsert ==
    ASSUME TypeInv, ClaimCore, NEW p \in Procs, UpsertCreated(p)
    PROVE  ClaimCore'
  <1>1. /\ \A r \in Procs : proc'[r].pc = "idle"
        /\ \A o \in Owners : ~(told'[o] > now')
    BY DEF UpsertCreated, ClaimCore, CreatorIsAlone, SetProc, TypeInv, TypeOK, Idle, Time
  <1>2. OnlyCommands' /\ NothingBefore' /\ CreatorIsAlone' /\ StillLegal'
    BY RunningIsLogged, BehindTheWrite DEF UpsertCreated, Idle
  <1> QED  BY <1>1, <1>2 DEF ClaimCore, VersionIdentifies, ClaimIsStored, ExclusiveClaim, Holds

LEMMA ClaimCreate ==
    ASSUME TypeInv, ClaimCore, NEW p \in Procs, Create(p)
    PROVE  ClaimCore'
  <1>1. /\ task' = NoTask /\ \A o \in Owners : told'[o] = 0
        /\ \A r \in Procs \ {p} : proc'[r] = Idle
        /\ proc'[p].pc = "upsert" /\ now' \in Nat
    BY DEF Create, ClaimCore, NothingBefore, SetProc, TypeInv, TypeOK, Idle, Time
  <1>2. \A r \in Procs : proc'[r].pc \in {"idle", "upsert"} /\ (proc'[r].pc = "upsert" => r = p)
    BY <1>1 DEF Idle
  <1>3. OnlyCommands' /\ StillLegal' /\ VersionIdentifies'
    BY <1>2 DEF OnlyCommands, CommandPC, StillLegal, VersionIdentifies
  <1>4. NothingBefore' /\ CreatorIsAlone'
    BY <1>1, <1>2 DEF Create, NothingBefore, CreatorIsAlone, CreatedLog, NoLog
  <1>5. ClaimIsStored' /\ ExclusiveClaim'
    BY <1>1 DEF ClaimIsStored, ExclusiveClaim, Holds
  <1> QED  BY <1>3, <1>4, <1>5 DEF ClaimCore

LEMMA ClaimBegin ==
    ASSUME TypeInv, ClaimCore, NEW p \in Procs, NEW c \in Commands, Begin(p, c)
    PROVE  ClaimCore'
  <1> DEFINE start == IF c.op = "cancel" THEN "delete" ELSE "write"
             q == [Idle EXCEPT !.pc = start, !.cmd = c, !.cur = task, !.at = now]
  <1>1. q.pc \in {"delete", "write"} /\ q.cmd = c /\ q.cur = task
    BY DEF Idle
  <1>2. /\ Exists(task) /\ Legal(c, task) /\ SetProc(p, q)
        /\ UNCHANGED <<task, log, now, told>>
    BY DEF Begin
  <1> HIDE DEF q
  <1>3. \A r \in Procs : proc'[r] = IF r = p THEN q ELSE proc[r]
    BY <1>2 DEF SetProc, TypeInv, TypeOK
  <1>4. task.version \in Nat /\ log # NoLog /\ \A r \in Procs : proc[r].pc # "upsert"
    BY <1>2 DEF ClaimCore, NothingBefore, CreatorIsAlone, Exists, NoTask, TypeInv, TypeOK, Task
  <1>5. OnlyCommands' /\ NothingBefore' /\ CreatorIsAlone'
    BY <1>1, <1>2, <1>3, <1>4 DEF ClaimCore, OnlyCommands, CommandPC, NothingBefore, CreatorIsAlone
  <1>6. VersionIdentifies'
    BY <1>1, <1>2, <1>3, <1>4 DEF ClaimCore, VersionIdentifies, Exists
  <1>7. StillLegal'
    BY <1>1, <1>2, <1>3 DEF ClaimCore, StillLegal, Legal, HeldByOther, LeaseActive, Exists
  <1>8. ClaimIsStored' /\ ExclusiveClaim'
    BY <1>2 DEF ClaimCore, ClaimIsStored, ExclusiveClaim, Holds, Exists
  <1> QED  BY <1>5, <1>6, <1>7, <1>8 DEF ClaimCore

LEMMA ClaimTick ==
    ASSUME TypeInv, ClaimCore, Tick
    PROVE  ClaimCore'
  <1>0. /\ now \in Nat /\ now' = now + 1 /\ UNCHANGED <<task, log, proc, told>>
        /\ told \in [Owners -> Nat] /\ proc \in [Procs -> Process]
    BY DEF Tick, TypeInv, TypeOK, Time
  <1>1. OnlyCommands' /\ NothingBefore' /\ CreatorIsAlone' /\ VersionIdentifies'
    BY <1>0 DEF ClaimCore, OnlyCommands, NothingBefore, CreatorIsAlone, VersionIdentifies, Exists
  <1>2. StillLegal'
    <2> SUFFICES ASSUME NEW r \in Procs, proc[r].pc = "write"
                 PROVE  (Exists(proc[r].cur) /\ Legal(proc[r].cmd, proc[r].cur))'
      BY <1>0 DEF StillLegal
    <2>1. proc[r].cur.lease \in Nat
      BY <1>0 DEF Process, Task, Time
    <2> QED  BY <1>0, <2>1 DEF ClaimCore, StillLegal, Exists, Legal, HeldByOther, LeaseActive
  <1>3. ClaimIsStored' /\ ExclusiveClaim'
    <2>1. \A o \in Owners : Holds(o)' => Holds(o)
      BY <1>0 DEF Holds
    <2> QED  BY <1>0, <2>1 DEF ClaimCore, ClaimIsStored, ExclusiveClaim, Exists
  <1> QED  BY <1>1, <1>2, <1>3 DEF ClaimCore

\* Without repairs, a process that takes a step is at a point of a command.
LEMMA CommandSteps ==
    ASSUME TypeInv, ClaimCore, NEW p \in Procs, Step(p)
    PROVE  \/ UpsertCreated(p) \/ WriteMatches(p) \/ ReadBack(p) \/ Delete(p)
           \/ UpsertFails(p) \/ WriteMisses(p) \/ ReadBackFails(p) \/ AppendTaskEvent(p)
  <1>1. proc[p].pc \in CommandPC
    BY DEF ClaimCore, OnlyCommands
  <1> QED  BY <1>1 DEF CommandPC, Step, ReadCreates, Scroll, ReplayMissing, ProjectReplayed,
               CancelProjected, SetFields, ReleaseStale, DrainReplay, Dequeue, RescanReplay, HealUpsert

LEMMA ClaimNext ==
    ASSUME Repairs = {}, TypeInv, ClaimCore, [Next]_vars
    PROVE  ClaimCore'
  <1>0. \A p \in Procs : proc[p] \in Process
    BY DEF TypeInv, TypeOK
  <1>1. ASSUME NEW p \in Procs, Step(p) PROVE ClaimCore'
    <2>1. CASE UpsertFails(p) \/ ReadBackFails(p)
      BY <2>1, RunningIsLogged, TaskLeftAlone DEF UpsertFails, ReadBackFails, Idle
    <2>2. CASE WriteMisses(p)
      <3>1. [proc[p] EXCEPT !.pc = "check"].pc = "check"
        BY <1>0 DEF Process
      <3>2. proc[p] # Idle /\ log' = log /\ UNCHANGED <<task, now, told>>
            /\ SetProc(p, [proc[p] EXCEPT !.pc = "check"])
        BY <2>2 DEF WriteMisses, Idle
      <3> QED  BY <3>1, <3>2, RunningIsLogged, TaskLeftAlone
    <2>3. CASE AppendTaskEvent(p)
      <3>1. log' # NoLog
        BY <2>3, RunningIsLogged, FoldKnows DEF AppendTaskEvent, TypeInv, TypeOK, Idle
      <3> QED  BY <2>3, <3>1, TaskLeftAlone DEF AppendTaskEvent, Idle
    <2>4. CASE UpsertCreated(p)
      BY <2>4, ClaimUpsert
    <2>5. CASE WriteMatches(p)
      BY <2>5, ClaimWrite
    <2>6. CASE ReadBack(p)
      BY <2>6, ClaimReadBack
    <2>7. CASE Delete(p)
      BY <2>7, ClaimDelete
    <2> QED  BY <1>1, <2>1, <2>2, <2>3, <2>4, <2>5, <2>6, <2>7, CommandSteps
  <1>2. ASSUME NEW p \in Procs, Crash(p) PROVE ClaimCore'
    <2>1. Idle.pc = "idle"
      BY DEF Idle
    <2> QED  BY <1>2, <2>1, RunningIsLogged, TaskLeftAlone DEF Crash
  <1>3. CASE UNCHANGED vars
    BY <1>3 DEF vars, ClaimCore, OnlyCommands, NothingBefore, CreatorIsAlone, VersionIdentifies,
                StillLegal, ClaimIsStored, ExclusiveClaim, Holds, Exists, Legal, HeldByOther, LeaseActive
  <1>4. \A p \in Procs : ~StartRepair(p)
    BY DEF StartRepair, ReadEvents, DrainRead, RescanRead, HealRead
  <1> QED  BY <1>1, <1>2, <1>3, <1>4, ClaimCreate, ClaimBegin, ClaimTick DEF Next

\* What a command does once it has begun changes neither its operation nor the time
\* it has read.
LEMMA AtWorkNext ==
    ASSUME Repairs = {}, TypeInv, ClaimCore, AtWork, [Next]_vars
    PROVE  AtWork'
  <1>0. /\ now \in Nat /\ now' \in Nat /\ now <= now'
        /\ \A p \in Procs : proc[p] \in Process /\ proc[p].at \in Nat
        /\ proc \in [Procs -> Process]
    <2>1. now' = now \/ (Tick /\ now' = now + 1)
      BY DEF Next, Create, Begin, Step, StartRepair, Crash, Tick, vars, UpsertCreated, UpsertFails,
         WriteMatches, WriteMisses, ReadBack, ReadBackFails, Delete, AppendTaskEvent,
         ReadCreates, Scroll, ReplayMissing, ProjectReplayed, CancelProjected, SetFields, ReleaseStale,
         DrainReplay, Dequeue, RescanReplay, HealUpsert, ReadEvents, DrainRead, RescanRead, HealRead
    <2> QED  BY <2>1 DEF TypeInv, TypeOK, Process, Time
  <1>1. ASSUME NEW p \in Procs, NEW q, SetProc(p, q), q.at \in Nat, q.at <= now,
               q.pc = "write" => q.cmd.op \in AllOps \ {"cancel"}
        PROVE  AtWork'
    <2>1. \A r \in Procs : proc'[r] = IF r = p THEN q ELSE proc[r]
      BY <1>0, <1>1 DEF SetProc
    <2> QED  BY <1>0, <1>1, <2>1 DEF AtWork
  <1>2. Idle.at = 0 /\ Idle.pc = "idle"
    BY DEF Idle
  <1>3. ASSUME NEW p \in Procs, Step(p) PROVE AtWork'
    <2>1. \/ SetProc(p, Idle)
          \/ SetProc(p, [proc[p] EXCEPT !.pc = "check"])
          \/ SetProc(p, [proc[p] EXCEPT !.pc = "log"])
      BY <1>3, CommandSteps DEF UpsertCreated, WriteMatches, ReadBack, Delete, UpsertFails,
         WriteMisses, ReadBackFails, AppendTaskEvent
    <2>2. proc[p].at <= now /\ proc[p].at \in Nat
      BY <1>0 DEF AtWork
    <2>3. CASE SetProc(p, Idle)
      BY <1>0, <1>1, <1>2, <2>3
    <2>4. ASSUME NEW l \in {"check", "log"}, SetProc(p, [proc[p] EXCEPT !.pc = l])
          PROVE  AtWork'
      <3> DEFINE q == [proc[p] EXCEPT !.pc = l]
      <3>1. q.pc = l /\ q.at = proc[p].at
        BY <1>0 DEF Process
      <3>2. SetProc(p, q)
        BY <2>4
      <3> HIDE DEF q
      <3> QED  BY <1>1, <2>2, <2>4, <3>1, <3>2
    <2> QED  BY <2>1, <2>3, <2>4
  <1>4. ASSUME NEW p \in Procs, Create(p) PROVE AtWork'
    <2> DEFINE q == [Idle EXCEPT !.pc = "upsert"]
    <2>1. q.at = 0 /\ q.pc = "upsert"
      BY DEF Idle
    <2>2. SetProc(p, q)
      BY <1>4 DEF Create
    <2> HIDE DEF q
    <2> QED  BY <1>0, <1>1, <2>1, <2>2
  <1>5. ASSUME NEW p \in Procs, NEW c \in Commands, Begin(p, c) PROVE AtWork'
    <2> DEFINE q == [Idle EXCEPT !.pc = IF c.op = "cancel" THEN "delete" ELSE "write",
                                 !.cmd = c, !.cur = task, !.at = now]
    <2>1. q.at = now /\ q.cmd = c /\ (q.pc = "write" => c.op # "cancel")
      BY DEF Idle
    <2>2. SetProc(p, q) /\ c.op \in AllOps
      BY <1>5, ConstantsOK DEF Begin
    <2> HIDE DEF q
    <2> QED  BY <1>0, <1>1, <2>1, <2>2
  <1>6. ASSUME NEW p \in Procs, Crash(p) PROVE AtWork'
    BY <1>0, <1>1, <1>2, <1>6 DEF Crash
  <1>7. CASE Tick \/ UNCHANGED vars
    BY <1>0, <1>7 DEF Tick, vars, AtWork
  <1>8. \A p \in Procs : ~StartRepair(p)
    BY DEF StartRepair, ReadEvents, DrainRead, RescanRead, HealRead
  <1> QED  BY <1>3, <1>4, <1>5, <1>6, <1>7, <1>8 DEF Next

LEMMA ClaimInit == Init => ClaimCore /\ AtWork
  BY DEF Init, AtWork, ClaimCore, OnlyCommands, CommandPC, NothingBefore, CreatorIsAlone,
         VersionIdentifies, StillLegal, ClaimIsStored, ExclusiveClaim, Holds, Idle

\* While no repair runs, the version and the filter make a read, a decision and
\* a write of a command one step: whoever matches writes on what it has read.
THEOREM ClaimInvariance ==
    ASSUME Repairs = {}
    PROVE  Spec => [](TypeInv /\ ClaimInv)
  <1>1. TypeInv /\ ClaimInv /\ [Next]_vars => (TypeInv /\ ClaimInv)'
    BY TypeNext, ClaimNext, AtWorkNext DEF ClaimInv
  <1>2. Init => ClaimInv
    BY ClaimInit DEF ClaimInv
  <1> QED  BY <1>1, <1>2, TypeInit, PTL DEF Spec

\* While no repair runs, no two agents are ever both told that they hold the
\* task ...
THEOREM ClaimsExclusive ==
    ASSUME Repairs = {}
    PROVE  Spec => []ExclusiveClaim
  <1>1. ClaimInv => ExclusiveClaim
    BY DEF ClaimInv, ClaimCore
  <1> QED  BY <1>1, ClaimInvariance, PTL

\* ... and what a holder was told is what the store has.
THEOREM ClaimsAreStored ==
    ASSUME Repairs = {}
    PROVE  Spec => []ClaimIsStored
  <1>1. ClaimInv => ClaimIsStored
    BY DEF ClaimInv, ClaimCore
  <1> QED  BY <1>1, ClaimInvariance, PTL

LEMMA OnlyWritesChange ==
    ASSUME Repairs = {}, TypeInv, ClaimCore, [Next]_vars, Exists(task), task' # task
    PROVE  (\E p \in Procs : WriteMatches(p)) \/ ~Exists(task)'
  <1>1. ASSUME NEW p \in Procs, Step(p), ~WriteMatches(p) PROVE ~Exists(task)'
    <2>1. ~UpsertCreated(p)
      BY DEF UpsertCreated, ClaimCore, CreatorIsAlone, Exists, NoTask
    <2>2. Delete(p)
      BY <1>1, <2>1, CommandSteps DEF ReadBack, UpsertFails, WriteMisses, ReadBackFails, AppendTaskEvent
    <2> QED  BY <2>2 DEF Delete, Exists, NoTask
  <1>2. ASSUME NEW p \in Procs PROVE ~StartRepair(p)
    BY DEF StartRepair, ReadEvents, DrainRead, RescanRead, HealRead
  <1> QED  BY <1>1, <1>2 DEF Next, Create, Begin, Crash, Tick, vars

\* While no repair runs, every write that changes the task counts its version
\* up, so that no command can match a version it has not read.
THEOREM WritesAdvance ==
    ASSUME Repairs = {}
    PROVE  Spec => VersionAdvances
  <1>1. Spec => [](TypeInv /\ ClaimCore)
    <2>1. TypeInv /\ ClaimInv => TypeInv /\ ClaimCore
      BY DEF ClaimInv
    <2> QED  BY <2>1, ClaimInvariance, PTL
  <1>2. TypeInv /\ ClaimCore /\ [Next]_vars
          => [Exists(task) /\ Exists(task') /\ task' # task => task'.version > task.version]_vars
    <2> SUFFICES ASSUME TypeInv, ClaimCore, [Next]_vars, Exists(task), Exists(task'), task' # task
                 PROVE  task'.version > task.version
      OBVIOUS
    <2>1. PICK p \in Procs : WriteMatches(p)
      BY OnlyWritesChange DEF Exists
    <2> QED  BY <2>1, ClaimWrite
  <1> QED  BY <1>1, <1>2, PTL DEF Spec, VersionAdvances

(***************************************************************************)
(* While no repair runs, every command is one step of the task's life      *)
(***************************************************************************)

\* The view of TaskLifecycle.
lifecycleVars == <<task, told, now, Expected>>

\* While a command is under way, no create is.
LEMMA AppearsNoMore ==
    ASSUME ClaimCore, NEW p \in Procs, proc[p] # Idle, proc[p].pc # "upsert"
    PROVE  ~Expected
  <1>1. \A r \in Procs : proc[r].pc # "upsert"
    BY DEF ClaimCore, CreatorIsAlone
  <1> QED  BY <1>1, RunningIsLogged DEF Expected

\* It does not become one.
LEMMA StaysUnexpected ==
    ASSUME TypeInv, ~Expected, NEW p \in Procs, NEW q, SetProc(p, q),
           q.pc # "upsert", log' # NoLog
    PROVE  ~Expected'
  <1>1. \A r \in Procs : proc'[r] = IF r = p THEN q ELSE proc[r]
    BY DEF SetProc, TypeInv, TypeOK
  <1> QED  BY <1>1 DEF Expected

LEMMA NothingExpected ==
    ASSUME ~Expected, ~Expected'
    PROVE  UNCHANGED Expected
  BY DEF Expected

\* The end of a create: nobody else was at work.
LEMMA CreateEnds ==
    ASSUME TypeInv, ClaimCore, NEW p \in Procs, proc[p].pc = "upsert", SetProc(p, Idle),
           log' = log
    PROVE  Expected /\ ~Expected'
  <1>1. \A r \in Procs : proc'[r] = Idle
    BY DEF SetProc, TypeInv, TypeOK, ClaimCore, CreatorIsAlone
  <1>2. log # NoLog
    BY RunningIsLogged DEF Idle
  <1> QED  BY <1>1, <1>2 DEF Expected, Idle

\* What the commands of each operation carry.
LEMMA CommandData ==
    ASSUME NEW q \in Process
    PROVE  /\ q.cmd.op \in Leasing => q.cmd.lease \in Leases
           /\ q.cmd.op \in Closing \union {"reviewed"} => q.cmd.text \in Texts
  <1>1. q.cmd \in Commands \union {NoCommand}
    BY DEF Process
  <1>2. CASE q.cmd \in [op : Leasing, owner : Owners, lease : Leases, text : {NoText}]
    <2>1. q.cmd.op \in Leasing /\ q.cmd.lease \in Leases
      BY <1>2
    <2> QED  BY <2>1 DEF Leasing, Closing
  <1>3. CASE q.cmd \in [op : {"release"}, owner : Owners, lease : {0}, text : {NoText}]
    <2>1. q.cmd.op = "release"
      BY <1>3
    <2> QED  BY <2>1 DEF Leasing, Closing
  <1>4. CASE q.cmd \in [op : Closing \union {"reviewed"}, owner : {NoOwner}, lease : {0}, text : Texts]
    <2>1. q.cmd.op \in Closing \union {"reviewed"} /\ q.cmd.text \in Texts
      BY <1>4
    <2> QED  BY <2>1 DEF Leasing, Closing
  <1>5. CASE q.cmd \in [op : {"cancel", "lease_expired"}, owner : {NoOwner}, lease : {0}, text : {NoText}]
    <2>1. q.cmd.op \in {"cancel", "lease_expired"}
      BY <1>5
    <2> QED  BY <2>1 DEF Leasing, Closing
  <1>6. CASE q.cmd = NoCommand
    BY <1>6 DEF NoCommand, Leasing, Closing
  <1> QED  BY <1>1, <1>2, <1>3, <1>4, <1>5, <1>6 DEF Commands

\* A write that matches is the command itself, done now.
LEMMA LifecycleWrite ==
    ASSUME TypeInv, ClaimInv, NEW p \in Procs, WriteMatches(p)
    PROVE  Lifecycle!Next
  <1> DEFINE q == proc[p]
             c == q.cmd
  <1>0. /\ ClaimCore /\ q \in Process /\ task \in Task /\ now \in Nat /\ told \in [Owners -> Nat]
        /\ q.pc = "write" /\ q.cur = task /\ Exists(task) /\ Legal(c, task)
        /\ SetProc(p, [q EXCEPT !.pc = "check"])
        /\ log' = log /\ now' = now /\ Untold(q)
        /\ task' = [Payload(q, task) EXCEPT !.version = task.version + 1]
        /\ q.at \in 0..now /\ c.op \in AllOps \ {"cancel"}
    <2>1. q.cur = task /\ Exists(task)
      BY MatchedTask DEF ClaimInv
    <2>2. q \in Process /\ q.pc = "write"
      BY DEF TypeInv, TypeOK, WriteMatches
    <2>3. q.at \in 0..now /\ c.op \in AllOps \ {"cancel"} /\ Legal(c, task)
      BY <2>1, <2>2 DEF ClaimInv, ClaimCore, AtWork, StillLegal, Process, Time, TypeInv, TypeOK
    <2> QED  BY <2>1, <2>2, <2>3 DEF ClaimInv, WriteMatches, NextVersion, TypeInv, TypeOK, Time
  <1>1. UNCHANGED Expected
    <2>1. [q EXCEPT !.pc = "check"].pc = "check" /\ q # Idle
      BY <1>0 DEF Process, Idle
    <2> QED  BY <1>0, <2>1, AppearsNoMore, StaysUnexpected, NothingExpected,
                 RunningIsLogged
  <1>2. task # NoTask /\ Lifecycle!Exists
    BY <1>0 DEF Exists, NoTask, Lifecycle!Exists, Lifecycle!NoTask
  <1>3. ASSUME NEW t, Payload(q, task) = t PROVE Lifecycle!Become(t)
    BY <1>0, <1>1, <1>2, <1>3 DEF Lifecycle!Become
  <1>4. /\ c.op \in Leasing => c.owner \in Owners /\ c.lease \in Leases
        /\ c.op = "release" => c.owner \in Owners
        /\ c.op \in Closing \union {"reviewed"} => c.text \in Texts /\ c.owner \notin Owners
    BY <1>0, CommandFields, CommandData, ConstantsOK DEF Leasing, Closing
  <1>5. CASE c.op \in {"start", "unblock"}
    <2>1. task.status \in {"pending", "in_progress", "blocked"}
      BY <1>0, <1>5 DEF Legal
    <2>2. task.owner \in {NoOwner, c.owner} \/ task.lease <= now
      BY <1>0, <1>5 DEF Legal, HeldByOther, LeaseActive, Task, Time
    <2> DEFINE claimed == [task EXCEPT !.status = "in_progress", !.owner = c.owner,
                                       !.claimed = q.at, !.lease = q.at + c.lease,
                                       !.text = NoText]
    <2>0. Payload(q, task) = claimed
      BY <1>5 DEF Payload, LeaseEnd, Closing
    <2>3. Lifecycle!Become(claimed)
      BY <1>3, <2>0
    <2>4. Lifecycle!Claim(c.owner, q.at, c.lease)
      BY <1>0, <1>4, <1>5, <2>1, <2>2, <2>3 DEF Lifecycle!Claim, Lifecycle!Untold, Untold, Leasing
    <2> QED  BY <1>0, <1>4, <1>5, <2>4 DEF Lifecycle!Next, Leasing
  <1>6. CASE c.op = "renew"
    <2>0. Payload(q, task) = [task EXCEPT !.lease = q.at + c.lease]
      BY <1>6 DEF Payload, LeaseEnd, Closing
    <2>1. Lifecycle!Become([task EXCEPT !.lease = q.at + c.lease])
      BY <1>3, <2>0
    <2>2. Lifecycle!Renew(c.owner, q.at, c.lease)
      BY <1>0, <1>4, <1>6, <2>1 DEF Lifecycle!Renew, Lifecycle!Untold, Untold, Leasing, Legal
    <2> QED  BY <1>0, <1>4, <1>6, <2>2 DEF Lifecycle!Next, Leasing
  <1>7. CASE c.op = "release"
    <2> DEFINE released == [task EXCEPT !.status = "pending", !.owner = NoOwner,
                                        !.claimed = 0, !.lease = 0]
    <2>0. Payload(q, task) = released
      BY <1>7 DEF Payload, Unclaimed, Closing
    <2>1. Lifecycle!Become(released)
      BY <1>3, <2>0
    <2>2. Lifecycle!Release(c.owner)
      BY <1>0, <1>4, <1>7, <2>1 DEF Lifecycle!Release, Lifecycle!Untold, Untold, Legal
    <2> QED  BY <1>4, <1>7, <2>2 DEF Lifecycle!Next
  <1>8. CASE c.op \in Closing
    <2>0. Payload(q, task) = [task EXCEPT !.status = c.op, !.text = c.text]
      BY <1>8 DEF Payload, Closing
    <2>1. Lifecycle!Become([task EXCEPT !.status = c.op, !.text = c.text])
      BY <1>3, <2>0
    <2>2. told' = told
      BY <1>0, <1>4, <1>8 DEF Untold
    <2>3. CASE c.op = "ready_for_live" /\ task.status = "ready_for_live"
      <3>1. [task EXCEPT !.status = c.op, !.text = c.text] = [task EXCEPT !.text = c.text]
        BY <1>0, <2>3 DEF Task
      <3>2. Lifecycle!Replan(c.text)
        BY <2>1, <2>2, <2>3, <3>1 DEF Lifecycle!Replan
      <3> QED  BY <1>4, <1>8, <3>2 DEF Lifecycle!Next
    <2>4. CASE ~(c.op = "ready_for_live" /\ task.status = "ready_for_live")
      <3>1. task.status # c.op /\ (c.op = "ready_for_live" => task.status # "done")
        BY <1>0, <1>8, <2>4 DEF Legal, Closing
      <3>2. Lifecycle!Close(c.op, c.text)
        BY <2>1, <2>2, <3>1 DEF Lifecycle!Close
      <3> QED  BY <1>4, <1>8, <3>2 DEF Lifecycle!Next, Closing
    <2> QED  BY <2>3, <2>4
  <1>9. CASE c.op = "reviewed"
    <2>0. Payload(q, task) = [task EXCEPT !.review = c.text]
      BY <1>9 DEF Payload, Closing
    <2>1. Lifecycle!Become([task EXCEPT !.review = c.text])
      BY <1>3, <2>0
    <2>2. Lifecycle!Review(c.text)
      BY <1>0, <1>4, <1>9, <2>1 DEF Lifecycle!Review, Untold
    <2> QED  BY <1>4, <1>9, <2>2 DEF Lifecycle!Next
  <1> QED  BY <1>0, <1>5, <1>6, <1>7, <1>8, <1>9 DEF AllOps, Leasing

\* Every other step of a command is a step of the task's life, or none.
LEMMA LifecycleStep ==
    ASSUME TypeInv, ClaimInv, NEW p \in Procs, Step(p)
    PROVE  Lifecycle!Next \/ UNCHANGED lifecycleVars
  <1>0. ClaimCore /\ proc[p] \in Process
    BY DEF ClaimInv, TypeInv, TypeOK
  <1>1. CASE UpsertCreated(p)
    <2>1. Expected /\ ~Expected'
      BY <1>0, <1>1, CreateEnds DEF UpsertCreated
    <2>2. Lifecycle!Appear
      BY <1>1, <2>1 DEF UpsertCreated, CreatedTask, NoTask, Lifecycle!Appear, Lifecycle!NoTask
    <2> QED  BY <2>2 DEF Lifecycle!Next
  <1>2. CASE UpsertFails(p)
    <2>1. Expected /\ ~Expected'
      BY <1>0, <1>2, CreateEnds DEF UpsertFails
    <2>2. Lifecycle!NeverAppear
      BY <1>2, <2>1 DEF UpsertFails, Lifecycle!NeverAppear
    <2> QED  BY <2>2 DEF Lifecycle!Next
  <1>3. CASE WriteMatches(p)
    BY <1>3, LifecycleWrite
  <1>4. ASSUME NEW q, SetProc(p, q), q.pc \in {"idle", "check", "log"}, log' # NoLog,
               proc[p] # Idle, proc[p].pc # "upsert"
        PROVE  UNCHANGED Expected
    BY <1>0, <1>4, AppearsNoMore, StaysUnexpected, NothingExpected
  <1>5. Idle.pc = "idle"
    BY DEF Idle
  <1> DEFINE checking == [proc[p] EXCEPT !.pc = "check"]
             logging  == [proc[p] EXCEPT !.pc = "log"]
  <1>6. checking.pc = "check" /\ logging.pc = "log"
    BY <1>0 DEF Process
  <1>7. proc[p] # Idle => log # NoLog
    BY <1>0, RunningIsLogged
  <1>8. CASE ReadBack(p)
    <2>0. SetProc(p, logging) /\ log' = log /\ proc[p] # Idle /\ proc[p].pc # "upsert"
      BY <1>8 DEF ReadBack, Idle
    <2>1. UNCHANGED Expected
      <3> HIDE DEF checking, logging
      <3> QED  BY <1>4, <1>6, <1>7, <2>0
    <2>2. CASE proc[p].cmd.op \in Leasing
      <3>1. /\ proc[p].cmd.owner \in Owners
            /\ task.status = "in_progress" /\ task.owner = proc[p].cmd.owner
            /\ told' = [told EXCEPT ![proc[p].cmd.owner] = task.lease]
            /\ UNCHANGED <<task, now>>
        BY <1>0, <1>8, <2>2, CommandFields DEF ReadBack, Confirmed
      <3>2. Lifecycle!Tell(proc[p].cmd.owner)
        BY <2>1, <3>1 DEF Lifecycle!Tell
      <3> QED  BY <3>1, <3>2 DEF Lifecycle!Next
    <2>3. CASE proc[p].cmd.op \notin Leasing
      BY <1>8, <2>1, <2>3 DEF ReadBack, lifecycleVars
    <2> QED  BY <2>2, <2>3
  <1>9. CASE Delete(p)
    <2>0. SetProc(p, logging) /\ log' = log /\ proc[p] # Idle /\ proc[p].pc # "upsert"
      BY <1>9 DEF Delete, Idle
    <2>1. UNCHANGED Expected
      <3> HIDE DEF checking, logging
      <3> QED  BY <1>4, <1>6, <1>7, <2>0
    <2>2. CASE task = NoTask
      BY <1>9, <2>1, <2>2 DEF Delete, lifecycleVars
    <2>3. CASE task # NoTask
      <3>1. Lifecycle!Cancel
        BY <1>9, <2>1, <2>3 DEF Delete, NoTask, Lifecycle!Cancel, Lifecycle!Exists, Lifecycle!NoTask
      <3> QED  BY <3>1 DEF Lifecycle!Next
    <2> QED  BY <2>2, <2>3
  <1>10. CASE WriteMisses(p)
    <2>0. SetProc(p, checking) /\ log' = log /\ proc[p] # Idle /\ proc[p].pc # "upsert"
      BY <1>10 DEF WriteMisses, Idle
    <2>1. UNCHANGED Expected
      <3> HIDE DEF checking, logging
      <3> QED  BY <1>4, <1>6, <1>7, <2>0
    <2> QED  BY <1>10, <2>1 DEF WriteMisses, lifecycleVars
  <1>11. CASE ReadBackFails(p)
    <2>0. SetProc(p, Idle) /\ log' = log /\ proc[p] # Idle /\ proc[p].pc # "upsert"
      BY <1>11 DEF ReadBackFails, Idle
    <2>1. UNCHANGED Expected
      <3> HIDE DEF checking, logging
      <3> QED  BY <1>4, <1>5, <1>7, <2>0
    <2> QED  BY <1>11, <2>1 DEF ReadBackFails, lifecycleVars
  <1>12. CASE AppendTaskEvent(p)
    <2>1. log' # NoLog
      BY <1>0, <1>7, <1>12, FoldKnows DEF AppendTaskEvent, TypeInv, TypeOK, Idle
    <2>2. SetProc(p, Idle) /\ proc[p] # Idle /\ proc[p].pc # "upsert"
      BY <1>12 DEF AppendTaskEvent, Idle
    <2>3. UNCHANGED Expected
      BY <1>4, <1>5, <2>1, <2>2
    <2> QED  BY <1>12, <2>3 DEF AppendTaskEvent, lifecycleVars
  <1> QED  BY <1>0, <1>1, <1>2, <1>3, <1>8, <1>9, <1>10, <1>11, <1>12, CommandSteps

LEMMA LifecycleNext ==
    ASSUME Repairs = {}, TypeInv, ClaimInv, [Next]_vars
    PROVE  Lifecycle!Next \/ UNCHANGED lifecycleVars
  <1>0. ClaimCore /\ proc \in [Procs -> Process]
    BY DEF ClaimInv, TypeInv, TypeOK
  <1>1. ASSUME NEW p \in Procs, Create(p) PROVE UNCHANGED lifecycleVars
    <2>1. Expected /\ Expected'
      BY <1>0, <1>1 DEF Create, Expected, SetProc, Idle
    <2>2. UNCHANGED Expected
      BY <2>1 DEF Expected
    <2> QED  BY <1>1, <2>2 DEF Create, lifecycleVars
  <1>2. ASSUME NEW p \in Procs, NEW c \in Commands, Begin(p, c) PROVE UNCHANGED lifecycleVars
    <2> DEFINE q == [Idle EXCEPT !.pc = IF c.op = "cancel" THEN "delete" ELSE "write",
                                 !.cmd = c, !.cur = task, !.at = now]
    <2>1. q.pc # "upsert" /\ SetProc(p, q)
      BY <1>2 DEF Idle, Begin
    <2>2. log # NoLog /\ \A r \in Procs : proc[r].pc # "upsert"
      BY <1>0, <1>2 DEF Begin, ClaimCore, NothingBefore, CreatorIsAlone, Exists, NoTask
    <2> HIDE DEF q
    <2>3. ~Expected
      BY <2>2 DEF Expected
    <2>4. UNCHANGED Expected
      BY <1>2, <2>1, <2>2, <2>3, StaysUnexpected, NothingExpected DEF Begin
    <2> QED  BY <1>2, <2>4 DEF Begin, lifecycleVars
  <1>3. ASSUME NEW p \in Procs, Crash(p) PROVE Lifecycle!Next \/ UNCHANGED lifecycleVars
    <2>1. CASE proc[p].pc = "upsert"
      <3>1. Expected /\ ~Expected'
        BY <1>0, <1>3, <2>1, CreateEnds DEF Crash
      <3>2. Lifecycle!NeverAppear
        BY <1>3, <3>1 DEF Crash, Lifecycle!NeverAppear
      <3> QED  BY <3>2 DEF Lifecycle!Next
    <2>2. CASE proc[p].pc # "upsert"
      <3>1. UNCHANGED Expected
        <4>1. Idle.pc # "upsert"
          BY DEF Idle
        <4> QED  BY <1>0, <1>3, <2>2, <4>1, AppearsNoMore, StaysUnexpected,
                     NothingExpected, RunningIsLogged DEF Crash
      <3> QED  BY <1>3, <3>1 DEF Crash, lifecycleVars
    <2> QED  BY <2>1, <2>2
  <1>4. CASE Tick
    <2>1. UNCHANGED Expected
      BY <1>4 DEF Tick, Expected
    <2>2. Lifecycle!Tick
      BY <1>4, <2>1 DEF Tick, Lifecycle!Tick
    <2> QED  BY <2>2 DEF Lifecycle!Next
  <1>5. CASE UNCHANGED vars
    BY <1>5 DEF vars, lifecycleVars, Expected
  <1>6. \A p \in Procs : ~StartRepair(p)
    BY DEF StartRepair, ReadEvents, DrainRead, RescanRead, HealRead
  <1> QED  BY <1>1, <1>2, <1>3, <1>4, <1>5, <1>6, LifecycleStep DEF Next

LEMMA LifecycleInit == Init => Lifecycle!Init
  BY DEF Init, Lifecycle!Init, Expected, NoTask, Lifecycle!NoTask

\* While no repair runs, the four steps of every command are together one: its
\* read, its decision and its write are one step of TaskLifecycle.
THEOREM CommandsAreAtomic ==
    ASSUME Repairs = {}
    PROVE  Spec => ImplementsLifecycle
  <1>1. TypeInv /\ ClaimInv /\ [Next]_vars => [Lifecycle!Next]_lifecycleVars
    BY LifecycleNext
  <1> QED  BY <1>1, LifecycleInit, ClaimInvariance, PTL
           DEF Spec, ImplementsLifecycle, Lifecycle!Spec, Lifecycle!vars, lifecycleVars

================================================================================
