------------------------- MODULE SeqAllocAndLsp_proofs -------------------------
(***************************************************************************)
(* Proofs about two parts that share nothing, one after the other:         *)
(* SeqAlloc, for every number of processes and creates, every set of       *)
(* numbers that exist before, and every fault; and LspClient, for pipes of *)
(* every size and a server that may write any request ids.                 *)
(***************************************************************************)
EXTENDS SeqAlloc, LspInvariant, SequenceTheorems, FiniteSetTheorems, TLAPS

--------------------------------------------------------------------------------
(* SeqAlloc: the invariant, and its types *)

\* The invariant the proofs carry: what the lock protects (CounterCovers) and
\* what is true outside it (UniqueNumbers).
AllocInv == AllocTypeOK /\ OneAllocator /\ CounterCovers /\ UniqueNumbers

\* The step of one process changes its own record only.
LEMMA SetProcOther ==
    ASSUME NEW p \in Procs, NEW q \in Procs, NEW new,
           proc \in [Procs -> Process], SetProc(p, new)
    PROVE  proc'[q] = IF q = p THEN new ELSE proc[q]
BY DEF SetProc

\* Typing of a create's record.
LEMMA SetProcType ==
    ASSUME NEW p \in Procs, NEW new \in Process, AllocTypeOK, SetProc(p, new),
           new.pc \in HasNumber => new.number \in Number
    PROVE  /\ proc' \in [Procs -> Process]
           /\ \A q \in Procs :
                proc'[q].pc \in HasNumber => proc'[q].number \in Number
BY SetProcOther DEF AllocTypeOK, SetProc

\* The initial state is well typed.
LEMMA AllocInitType ==
    ASSUME AllocInit
    PROVE  AllocTypeOK
<1>1. log \in SUBSET Line
    BY AllocConstantsOK DEF AllocInit, Line, Number
<1>2. Idle \in Process
    BY DEF Idle, Process, AllocPC
<1>3. proc \in [Procs -> Process] /\ \A p \in Procs : proc[p] = Idle
    BY <1>2 DEF AllocInit
<1>4. Idle.pc \notin HasNumber
    BY DEF Idle, HasNumber
<1> QED
    BY <1>1, <1>3, <1>4, AllocConstantsOK DEF AllocInit, AllocTypeOK, Number

\* Every step keeps the types.
LEMMA AllocNextType == AllocTypeOK /\ [AllocNext]_allocVars => AllocTypeOK'
<1> SUFFICES ASSUME AllocTypeOK, [AllocNext]_allocVars PROVE AllocTypeOK'
    OBVIOUS
<1>0. Idle \in Process /\ Idle.pc \notin HasNumber
    BY DEF Idle, Process, AllocPC, HasNumber
<1>1. ASSUME NEW p \in Procs, Lock(p) PROVE AllocTypeOK'
    <2>1. budget \in Nat /\ budget - 1 \in Nat
        BY <1>1 DEF Lock, AllocTypeOK
    <2>2. CASE seq = 0
        <3> DEFINE new == [pc |-> "bootstrap", number |-> 0, create |-> budget]
        <3>1. SetProc(p, new)
            BY <1>1, <2>2 DEF Lock
        <3>2. new \in Process /\ new.pc \notin HasNumber
            BY <2>1 DEF Process, AllocPC, HasNumber
        <3> QED
            BY <1>1, <2>1, <3>1, <3>2, SetProcType DEF Lock, AllocTypeOK
    <2>3. CASE seq # 0
        <3> DEFINE new == [pc |-> "truncate", number |-> seq + 1, create |-> budget]
        <3>1. SetProc(p, new)
            BY <1>1, <2>3 DEF Lock
        <3>2. new \in Process /\ new.number \in Number
            BY <2>1 DEF AllocTypeOK, Process, AllocPC, Number
        <3> QED
            BY <1>1, <2>1, <3>1, <3>2, SetProcType DEF Lock, AllocTypeOK
    <2> QED
        BY <2>2, <2>3
<1>2. ASSUME NEW p \in Procs, NEW max \in Nat, NumberAfter(p, max),
             UNCHANGED <<seq, lock, log, stored, budget>>, blind' \in BOOLEAN
      PROVE  AllocTypeOK'
    <2> DEFINE new == [pc |-> "truncate", number |-> max + 1, create |-> proc[p].create]
    <2>1. SetProc(p, new)
        BY <1>2 DEF NumberAfter
    <2>2. new \in Process /\ new.number \in Number
        BY DEF AllocTypeOK, Process, AllocPC, Number
    <2> QED
        BY <1>2, <2>1, <2>2, SetProcType DEF AllocTypeOK
<1>3. ASSUME NEW p \in Procs, Bootstrap(p) PROVE AllocTypeOK'
    <2>1. PICK max \in stored \union {0} :
                NumberAfter(p,
                max) /\ blind' = (blind \/ \E n \in Given : n > max)
        BY <1>3 DEF Bootstrap
    <2>2. max \in Nat /\ blind' \in BOOLEAN
        BY <2>1 DEF AllocTypeOK, Number
    <2> QED
        BY <1>2, <1>3, <2>1, <2>2 DEF Bootstrap
<1>4. ASSUME NEW p \in Procs, BootstrapOffline(p) PROVE AllocTypeOK'
    <2>1. PICK max \in InLog \union {0} :
                NumberAfter(p,
                max) /\ blind' = (blind \/ \E n \in Given : n > max)
        BY <1>4 DEF BootstrapOffline
    <2>2. max \in Nat /\ blind' \in BOOLEAN
        BY <2>1 DEF AllocTypeOK, InLog, Line, Number
    <2> QED
        BY <1>2, <1>4, <2>1, <2>2 DEF BootstrapOffline
<1>5. ASSUME NEW p \in Procs, NEW next \in {"write", "append", "upsert"},
             proc[p].pc \in HasNumber, SetProc(p, [proc[p] EXCEPT !.pc = next])
      PROVE  /\ proc' \in [Procs -> Process]
             /\ \A q \in Procs :
                  proc'[q].pc \in HasNumber => proc'[q].number \in Number
    <2> DEFINE new == [proc[p] EXCEPT !.pc = next]
    <2>1. new \in Process /\ new.number \in Number
        BY <1>5 DEF AllocTypeOK, Process, AllocPC
    <2> QED
        BY <1>5, <2>1, SetProcType
<1>6. ASSUME NEW p \in Procs, Truncate(p) PROVE AllocTypeOK'
    <2>1. proc[p].pc \in HasNumber /\ SetProc(p, [proc[p] EXCEPT !.pc = "write"])
        BY <1>6 DEF Truncate, HasNumber
    <2> QED
        BY <1>5, <1>6, <2>1 DEF Truncate, AllocTypeOK
<1>7. ASSUME NEW p \in Procs, WriteSeq(p) PROVE AllocTypeOK'
    <2>1. proc[p].pc \in HasNumber /\ SetProc(p, [proc[p] EXCEPT !.pc = "append"])
        BY <1>7 DEF WriteSeq, HasNumber
    <2>2. proc[p].number \in Nat
        BY DEF AllocTypeOK, Process
    <2> QED
        BY <1>5, <1>7, <2>1, <2>2 DEF WriteSeq, AllocTypeOK
<1>8. ASSUME NEW p \in Procs, AppendLine(p) PROVE AllocTypeOK'
    <2>1. proc[p].pc \in HasNumber /\ SetProc(p, [proc[p] EXCEPT !.pc = "upsert"])
        BY <1>8 DEF AppendLine, HasNumber
    <2>2. proc[p].number \in Number
        BY <2>1 DEF AllocTypeOK
    <2>3. proc[p].create \in Nat
        BY DEF AllocTypeOK, Process
    <2> DEFINE l == [number |-> proc[p].number, create |-> proc[p].create]
    <2>4. l \in Line
        BY <2>2, <2>3 DEF Line, Number
    <2>5. log' = log \union {l}
        BY <1>8 DEF AppendLine
    <2> HIDE DEF l
    <2> QED
        BY <2>4, <2>5, <1>5, <1>8, <2>1 DEF AppendLine, AllocTypeOK
<1>9. ASSUME NEW p \in Procs, SetProc(p, Idle)
      PROVE  /\ proc' \in [Procs -> Process]
             /\ \A q \in Procs :
                  proc'[q].pc \in HasNumber => proc'[q].number \in Number
    BY <1>0, <1>9, SetProcType
<1>10. ASSUME NEW p \in Procs, UpsertPoint(p) PROVE AllocTypeOK'
    <2>1. proc[p].number \in Number
        BY <1>10 DEF UpsertPoint, AllocTypeOK, HasNumber
    <2> QED
        BY <1>9, <1>10, <2>1 DEF UpsertPoint, AllocTypeOK
<1>11. ASSUME NEW p \in Procs, UpsertFails(p) \/ Crash(p) PROVE AllocTypeOK'
    BY <1>9, <1>11 DEF UpsertFails, Crash, AllocTypeOK
<1>12. ASSUME NEW n \in InLog \union stored, Repair(n) \/ Cancel(n)
       PROVE  AllocTypeOK'
    BY <1>12 DEF Repair, Cancel, AllocTypeOK, InLog, Line
<1>13. CASE EmptyStore \/ DeleteSeq
    BY <1>13 DEF EmptyStore, DeleteSeq, AllocTypeOK
<1>14. CASE UNCHANGED allocVars
    BY <1>14 DEF allocVars, AllocTypeOK
<1> QED
    BY <1>1, <1>3, <1>4, <1>6, <1>7, <1>8, <1>10, <1>11, <1>12, <1>13, <1>14
    DEF AllocNext, Step

\* Every reachable state is well typed.
THEOREM AllocTypeCorrect == AllocSpec => []AllocTypeOK
<1>1. AllocInit => AllocTypeOK
    BY AllocInitType
<1>2. AllocTypeOK /\ [AllocNext]_allocVars => AllocTypeOK'
    BY AllocNextType
<1> QED
    BY <1>1, <1>2, PTL DEF AllocSpec

--------------------------------------------------------------------------------
(* SeqAlloc: What the steps do to the numbers in use *)

\* A step that appends nothing and makes nobody pending adds no number in use.
LEMMA GivenShrinks ==
    ASSUME log' = log, Pending' \subseteq Pending,
           \A q \in Pending' : proc'[q].number = proc[q].number
    PROVE  Given' \subseteq Given /\ InLog' = InLog
BY DEF Given, InLog

\* A process that is not made pending leaves the pending ones alone.
LEMMA PendingShrinks ==
    ASSUME NEW p \in Procs, NEW new, proc \in [Procs -> Process],
           SetProc(p, new), new.pc # "append"
    PROVE  /\ Pending' \subseteq Pending \ {p}
           /\ \A q \in Pending' : proc'[q].number = proc[q].number
BY SetProcOther DEF Pending

\* While log and pending creates only shrink, the numbers stay unique.
LEMMA UniqueShrinks ==
    ASSUME UniqueNumbers, blind' = FALSE => blind = FALSE, blind' \in BOOLEAN,
           log' = log, Pending' \subseteq Pending,
           \A q \in Pending' : proc'[q].number = proc[q].number
    PROVE  UniqueNumbers'
BY DEF UniqueNumbers, InLog

\* Numbers are naturals.
LEMMA GivenNat == AllocTypeOK => Given \subseteq Nat
BY DEF AllocTypeOK, Given, InLog, Pending, Line, Number,
   Process

\* A step that changes only the record of p, to one that does not work on the
\* counter and is not pending, and the lock with it.
LEMMA Leaves ==
    ASSUME AllocTypeOK, OneAllocator, CounterCovers,
           UniqueNumbers,
           NEW p \in Procs, NEW new, SetProc(p, new),
           new.pc \in {"idle", "upsert"},
           lock' = IF lock = p THEN NoOne ELSE lock,
           seq' = seq, log' = log, blind' = blind
    PROVE  OneAllocator' /\ CounterCovers' /\ UniqueNumbers'
<1>1. /\ \A q \in Procs : proc'[q] = IF q = p THEN new ELSE proc[q]
      /\ new.pc \notin Allocating /\ new.pc # "append"
    BY SetProcOther DEF AllocTypeOK, Allocating
<1>2. /\ Pending' \subseteq Pending \ {p}
      /\ \A q \in Pending' : proc'[q].number = proc[q].number
    BY <1>1, PendingShrinks DEF AllocTypeOK
<1>3. Given' \subseteq Given /\ InLog' = InLog
    BY <1>2, GivenShrinks
<1>4. OneAllocator'
    BY <1>1, AllocConstantsOK DEF OneAllocator
<1>5. CounterCovers'
    BY <1>1, <1>3 DEF CounterCovers, Allocating
<1>6. UniqueNumbers'
    BY <1>2, UniqueShrinks DEF AllocTypeOK
<1> QED
    BY <1>4, <1>5, <1>6

\* The step that takes p, who holds the lock, to the truncation with a number
\* above all that are in use.
LEMMA Numbers ==
    ASSUME AllocTypeOK, UniqueNumbers,
           NEW p \in Procs, NEW new, SetProc(p, new), new.pc = "truncate",
           \A q \in Procs : q # p => proc[q].pc \notin Allocating,
           lock' = p, seq' = seq, log' = log, blind' \in BOOLEAN,
           blind' = FALSE => /\ blind = FALSE
                             /\ \A n \in Given : n < new.number
                             /\ seq # 0 => \A n \in Given : n <= seq
    PROVE  OneAllocator' /\ CounterCovers' /\ UniqueNumbers'
<1>1. \A q \in Procs : proc'[q] = IF q = p THEN new ELSE proc[q]
    BY SetProcOther DEF AllocTypeOK
<1>2. /\ Pending' \subseteq Pending \ {p}
      /\ \A q \in Pending' : proc'[q].number = proc[q].number
    BY PendingShrinks DEF AllocTypeOK
<1>3. Given' \subseteq Given /\ InLog' = InLog
    BY <1>2, GivenShrinks
<1>4. OneAllocator'
    BY <1>1 DEF OneAllocator, Allocating
<1>5. CounterCovers'
    <2> SUFFICES ASSUME blind' = FALSE
                 PROVE  /\ seq' # 0 => \A n \in Given' : n <= seq'
                        /\ \A q \in Procs : proc'[q].pc \in {"truncate", "write"} =>
                                \A n \in Given' : n < proc'[q].number
        BY DEF CounterCovers
    <2>1. \A q \in Procs : proc'[q].pc \in {"truncate", "write"} => q = p
        BY <1>1 DEF Allocating
    <2> QED
        BY <2>1, <1>1, <1>3
<1>6. UniqueNumbers'
    BY <1>2, UniqueShrinks
<1> QED
    BY <1>4, <1>5, <1>6

\* Every step keeps the invariant.
LEMMA AllocStep ==
    ASSUME AllocInv, [AllocNext]_allocVars
    PROVE  AllocInv'
<1> SUFFICES ASSUME AllocTypeOK, OneAllocator, CounterCovers,
                    UniqueNumbers, [AllocNext]_allocVars
             PROVE  OneAllocator' /\ CounterCovers' /\ UniqueNumbers'
    BY AllocNextType DEF AllocInv
<1>1. ASSUME NEW p \in Procs, Lock(p)
      PROVE  OneAllocator' /\ CounterCovers' /\ UniqueNumbers'
    <2>1. /\ lock' = p /\ seq' = seq /\ log' = log /\ blind' = blind
          /\ \A q \in Procs : proc[q].pc \notin Allocating
        BY <1>1, AllocConstantsOK DEF Lock, OneAllocator
    <2>2. CASE seq = 0
        <3> DEFINE new == [pc |-> "bootstrap", number |-> 0, create |-> budget]
        <3>1. SetProc(p, new)
            BY <1>1, <2>2 DEF Lock
        <3>2. \A q \in Procs : proc'[q] = IF q = p THEN new ELSE proc[q]
            BY <3>1, SetProcOther DEF AllocTypeOK
        <3>3. /\ Pending' \subseteq Pending \ {p}
              /\ \A q \in Pending' : proc'[q].number = proc[q].number
            BY <3>1, PendingShrinks DEF AllocTypeOK
        <3>4. OneAllocator'
            BY <2>1, <3>2 DEF OneAllocator, Allocating
        <3>5. CounterCovers'
            BY <2>1, <2>2, <3>2 DEF CounterCovers, Allocating
        <3>6. UniqueNumbers'
            BY <2>1, <3>3, UniqueShrinks DEF AllocTypeOK
        <3> QED
            BY <3>4, <3>5, <3>6
    <2>3. CASE seq # 0
        <3> DEFINE new == [pc |-> "truncate", number |-> seq + 1, create |-> budget]
        <3>1. SetProc(p, new)
            BY <1>1, <2>3 DEF Lock
        <3>2. new.pc = "truncate" /\ new.number = seq + 1
            OBVIOUS
        <3>3. blind = FALSE => \A n \in Given : n <= seq /\ n < seq + 1
            BY <2>3, GivenNat DEF CounterCovers, AllocTypeOK
        <3> HIDE DEF new
        <3> QED
            BY <2>1, <3>1, <3>2, <3>3, Numbers DEF AllocTypeOK
    <2> QED
        BY <2>2, <2>3
<1>2. ASSUME NEW p \in Procs, NEW max \in Nat, proc[p].pc = "bootstrap",
             NumberAfter(p, max), UNCHANGED <<seq, lock, log>>,
             blind' = (blind \/ \E n \in Given : n > max)
      PROVE  OneAllocator' /\ CounterCovers' /\ UniqueNumbers'
    <2> DEFINE new == [pc |-> "truncate", number |-> max + 1, create |-> proc[p].create]
    <2>1. SetProc(p, new)
        BY <1>2 DEF NumberAfter
    <2>2. new.pc = "truncate" /\ new.number = max + 1
        OBVIOUS
    <2>3. lock = p /\ \A q \in Procs : q # p => proc[q].pc \notin Allocating
        BY <1>2 DEF OneAllocator, Allocating
    <2>4. blind' \in BOOLEAN
        BY <1>2 DEF AllocTypeOK
    <2>5. blind' = FALSE => blind = FALSE /\ \A n \in Given : n < max + 1
        <3>1. \A n \in Given : n > max \/ n < max + 1
            BY GivenNat
        <3> QED
            BY <1>2, <3>1, Zenon DEF AllocTypeOK
    <2>6. blind = FALSE /\ seq # 0 => \A n \in Given : n <= seq
        BY DEF CounterCovers
    <2> HIDE DEF new
    <2> QED
        BY <1>2, <2>1, <2>2, <2>3, <2>4, <2>5, <2>6, Numbers
<1>3. ASSUME NEW p \in Procs, Bootstrap(p)
      PROVE  OneAllocator' /\ CounterCovers' /\ UniqueNumbers'
    <2>1. PICK max \in stored \union {0} :
                NumberAfter(p,
                max) /\ blind' = (blind \/ \E n \in Given : n > max)
        BY <1>3 DEF Bootstrap
    <2>2. max \in Nat
        BY DEF AllocTypeOK, Number
    <2> QED
        BY <1>2, <1>3, <2>1, <2>2 DEF Bootstrap
<1>4. ASSUME NEW p \in Procs, BootstrapOffline(p)
      PROVE  OneAllocator' /\ CounterCovers' /\ UniqueNumbers'
    <2>1. PICK max \in InLog \union {0} :
                NumberAfter(p,
                max) /\ blind' = (blind \/ \E n \in Given : n > max)
        BY <1>4 DEF BootstrapOffline
    <2>2. max \in Nat
        BY DEF AllocTypeOK, InLog, Line, Number
    <2> QED
        BY <1>2, <1>4, <2>1, <2>2 DEF BootstrapOffline
<1>5. ASSUME NEW p \in Procs, Truncate(p)
      PROVE  OneAllocator' /\ CounterCovers' /\ UniqueNumbers'
    <2> DEFINE new == [proc[p] EXCEPT !.pc = "write"]
    <2>1. SetProc(p, new)
        BY <1>5 DEF Truncate
    <2>2. new.pc = "write" /\ new.number = proc[p].number
        BY DEF AllocTypeOK, Process
    <2>3. \A q \in Procs : proc'[q] = IF q = p THEN new ELSE proc[q]
        BY <2>1, SetProcOther DEF AllocTypeOK
    <2>4. /\ Pending' \subseteq Pending \ {p}
          /\ \A q \in Pending' : proc'[q].number = proc[q].number
        BY <2>1, <2>2, PendingShrinks DEF AllocTypeOK
    <2>5. Given' \subseteq Given /\ InLog' = InLog
        BY <1>5, <2>4, GivenShrinks DEF Truncate
    <2> HIDE DEF new
    <2>6. OneAllocator'
        BY <1>5, <2>2, <2>3 DEF OneAllocator, Truncate, Allocating
    <2>7. CounterCovers'
        BY <1>5, <2>2, <2>3, <2>5 DEF CounterCovers, Truncate
    <2>8. UniqueNumbers'
        BY <1>5, <2>4, UniqueShrinks DEF Truncate, AllocTypeOK
    <2> QED
        BY <2>6, <2>7, <2>8
<1>6. ASSUME NEW p \in Procs, WriteSeq(p)
      PROVE  OneAllocator' /\ CounterCovers' /\ UniqueNumbers'
    <2> DEFINE new == [proc[p] EXCEPT !.pc = "append"]
    <2>1. SetProc(p, new)
        BY <1>6 DEF WriteSeq
    <2>2. new.pc = "append" /\ new.number = proc[p].number
        BY DEF AllocTypeOK, Process
    <2>3. \A q \in Procs : proc'[q] = IF q = p THEN new ELSE proc[q]
        BY <2>1, SetProcOther DEF AllocTypeOK
    <2> HIDE DEF new
    <2>4. /\ \A q \in Procs : q # p => proc[q].pc \notin Allocating
          /\ lock' = NoOne /\ seq' = proc[p].number /\ log' = log /\ blind' = blind
        BY <1>6 DEF WriteSeq, OneAllocator, Allocating
    <2>5. OneAllocator'
        BY <2>2, <2>3, <2>4, AllocConstantsOK DEF OneAllocator, Allocating
    <2>6. Pending' = Pending \union {p}
        BY <2>2, <2>3 DEF Pending
    <2>7. InLog' = InLog
        BY <2>4 DEF InLog
    <2>8. Given' = Given \union {proc[p].number}
        BY <2>2, <2>3, <2>6, <2>7 DEF Given, Pending
    <2>9. blind = FALSE => \A n \in Given : n < proc[p].number
        BY <1>6 DEF CounterCovers, WriteSeq
    <2>10. proc[p].number \in Nat /\ Given \subseteq Nat
        BY GivenNat DEF AllocTypeOK, Process
    <2>11. blind = FALSE => proc[p].number \notin Given
        BY <2>9, <2>10
    <2>12. CounterCovers'
        <3>1. \A q \in Procs : proc'[q].pc \notin {"truncate", "write"}
            BY <2>2, <2>3, <2>4 DEF Allocating
        <3>2. ASSUME ~blind', NEW n \in Given' PROVE n <= seq'
            <4>0. blind = FALSE
                BY <2>4, <3>2 DEF AllocTypeOK
            <4>1. n \in Given => n < proc[p].number /\ n \in Nat
                BY <2>9, <2>10, <4>0
            <4>2. n \in Given \/ n = proc[p].number
                BY <2>8
            <4> QED
                BY <2>4, <2>10, <4>1, <4>2
        <3> QED
            BY <3>1, <3>2 DEF CounterCovers
    <2>13. UniqueNumbers'
        <3> SUFFICES ASSUME ~blind'
                     PROVE  /\ \A l1, l2 \in log' : l1.number = l2.number => l1 = l2
                            /\ \A q \in Pending' : proc'[q].number \notin InLog'
                            /\ \A q, r \in Pending' :
                                    proc'[q].number = proc'[r].number => q = r
            BY Zenon DEF UniqueNumbers
        <3>0. ~blind /\ blind = FALSE
            BY <2>4 DEF AllocTypeOK
        <3>1. \A q \in Pending' : q # p => q \in Pending /\ proc'[q] = proc[q]
            BY <2>3, <2>6 DEF Pending
        <3>2. \A q \in Pending : proc[q].number \in Given
            BY DEF Given
        <3>3. proc'[p].number = proc[p].number /\ p \in Procs
            BY <2>2, <2>3
        <3>4. proc[p].number \notin InLog
            BY <2>11, <3>0 DEF Given
        <3>5. \A l1, l2 \in log' : l1.number = l2.number => l1 = l2
            BY <2>4, <3>0 DEF UniqueNumbers
        <3>6. \A q \in Pending' : proc'[q].number \notin InLog'
            BY <2>7, <3>0, <3>1, <3>3, <3>4 DEF UniqueNumbers
        <3>7. \A q \in Pending' : q # p => proc'[q].number # proc[p].number
            BY <2>11, <3>0, <3>1, <3>2
        <3>8. \A q, r \in Pending' : proc'[q].number = proc'[r].number => q = r
            BY <3>0, <3>1, <3>3, <3>7 DEF UniqueNumbers
        <3> QED
            BY <3>5, <3>6, <3>8
    <2> QED
        BY <2>5, <2>12, <2>13
<1>7. ASSUME NEW p \in Procs, AppendLine(p)
      PROVE  OneAllocator' /\ CounterCovers' /\ UniqueNumbers'
    <2> DEFINE new == [proc[p] EXCEPT !.pc = "upsert"]
               line == [number |-> proc[p].number, create |-> proc[p].create]
    <2>1. SetProc(p, new)
        BY <1>7 DEF AppendLine
    <2>2. new.pc = "upsert" /\ line.number = proc[p].number /\ p \in Pending
        BY <1>7 DEF AllocTypeOK, Process, Pending, AppendLine
    <2>3. \A q \in Procs : proc'[q] = IF q = p THEN new ELSE proc[q]
        BY <2>1, SetProcOther DEF AllocTypeOK
    <2>4. /\ log' = log \union {line} /\ proc[p].pc = "append"
          /\ UNCHANGED <<seq, lock, blind>>
        BY <1>7 DEF AppendLine
    <2> HIDE DEF new, line
    <2>5. Pending' = Pending \ {p} /\ \A q \in Pending' : proc'[q] = proc[q]
        BY <2>2, <2>3 DEF Pending
    <2>6. InLog' = InLog \union {proc[p].number}
        BY <2>2, <2>4 DEF InLog
    <2>7. Given' = Given
        BY <2>2, <2>5, <2>6 DEF Given
    <2>8. OneAllocator'
        BY <2>2, <2>3, <2>4 DEF OneAllocator, Allocating
    <2>9. CounterCovers'
        BY <2>2, <2>3, <2>4, <2>7 DEF CounterCovers
    <2>10. UniqueNumbers'
        <3> SUFFICES ASSUME ~blind'
                     PROVE  /\ \A l1, l2 \in log' : l1.number = l2.number => l1 = l2
                            /\ \A q \in Pending' : proc'[q].number \notin InLog'
                            /\ \A q, r \in Pending' :
                                    proc'[q].number = proc'[r].number => q = r
            BY Zenon DEF UniqueNumbers
        <3>0. ~blind
            BY <2>4
        <3>1. \A l \in log : l.number # line.number
            BY <2>2, <3>0 DEF UniqueNumbers, InLog
        <3>2. \A l1, l2 \in log' : l1.number = l2.number => l1 = l2
            BY <2>4, <3>0, <3>1 DEF UniqueNumbers
        <3>3. \A q \in Pending' : proc'[q].number \notin InLog'
            BY <2>2, <2>5, <2>6, <3>0 DEF UniqueNumbers
        <3>4. \A q, r \in Pending' : proc'[q].number = proc'[r].number => q = r
            BY <2>5, <3>0 DEF UniqueNumbers
        <3> QED
            BY <3>2, <3>3, <3>4
    <2> QED
        BY <2>8, <2>9, <2>10
<1>8. ASSUME NEW p \in Procs, UpsertPoint(p) \/ UpsertFails(p)
      PROVE  OneAllocator' /\ CounterCovers' /\ UniqueNumbers'
    <2>1. /\ SetProc(p, Idle) /\ proc[p].pc = "upsert"
          /\ UNCHANGED <<seq, lock, log, blind>>
        BY <1>8 DEF UpsertPoint, UpsertFails
    <2>2. lock # p
        BY <2>1 DEF OneAllocator, Allocating
    <2>3. Idle.pc \in {"idle", "upsert"}
        BY DEF Idle
    <2> QED
        BY <2>1, <2>2, <2>3, Leaves
<1>9. ASSUME NEW p \in Procs, Crash(p)
      PROVE  OneAllocator' /\ CounterCovers' /\ UniqueNumbers'
    <2>1. /\ SetProc(p, Idle) /\ lock' = IF lock = p THEN NoOne ELSE lock
          /\ UNCHANGED <<seq, log, blind>>
        BY <1>9 DEF Crash
    <2>2. Idle.pc \in {"idle", "upsert"}
        BY DEF Idle
    <2> QED
        BY <2>1, <2>2, Leaves
<1>10. CASE (\E n \in InLog \union stored : Repair(n) \/ Cancel(n))
            \/ EmptyStore
    <2>1. UNCHANGED <<seq, lock, log, proc, blind>>
        BY <1>10 DEF Repair, Cancel, EmptyStore
    <2> QED
        BY <2>1 DEF OneAllocator, CounterCovers,
           UniqueNumbers,
           Given, InLog, Pending
<1>11. CASE DeleteSeq
    <2>1. seq' = 0 /\ UNCHANGED <<lock, log, proc, blind>>
        BY <1>11 DEF DeleteSeq
    <2> QED
        BY <2>1 DEF OneAllocator, CounterCovers,
           UniqueNumbers,
           Given, InLog, Pending
<1>12. CASE UNCHANGED allocVars
    BY <1>12 DEF allocVars, OneAllocator, CounterCovers,
           UniqueNumbers,
       Given, InLog, Pending
<1> QED
    BY <1>1, <1>3, <1>4, <1>5, <1>6, <1>7, <1>8, <1>9, <1>10, <1>11, <1>12
    DEF AllocNext, Step

\* The initial state satisfies the invariant.
LEMMA AllocInitInv ==
    ASSUME AllocInit
    PROVE  AllocInv
<1>1. \A p \in Procs : proc[p].pc = "idle"
    BY DEF AllocInit, Idle
<1>2. OneAllocator
    BY <1>1, AllocConstantsOK DEF AllocInit, OneAllocator, Allocating
<1>3. CounterCovers
    BY <1>1 DEF AllocInit, CounterCovers
<1>4. UniqueNumbers
    BY <1>1 DEF AllocInit, UniqueNumbers, Pending
<1> QED
    BY <1>2, <1>3, <1>4, AllocInitType DEF AllocInv

\* The invariant holds in every reachable state.
LEMMA AllocInvariance == AllocSpec => []AllocInv
<1>1. AllocInit => AllocInv
    BY AllocInitInv
<1>2. AllocInv /\ [AllocNext]_allocVars => AllocInv'
    BY AllocStep
<1> QED
    BY <1>1, <1>2, PTL DEF AllocSpec

\* Only the holder of the lock works on the counter file.
THEOREM LockExcludes == AllocSpec => []OneAllocator
<1>1. AllocInv => OneAllocator
    BY DEF AllocInv
<1> QED
    BY <1>1, AllocInvariance, PTL

\* The counter, and a number on its way to it, cover every number in use.
THEOREM CounterIsAhead == AllocSpec => []CounterCovers
<1>1. AllocInv => CounterCovers
    BY DEF AllocInv
<1> QED
    BY <1>1, AllocInvariance, PTL

\* No two records have the same number, unless a bootstrap missed one in use.
THEOREM NumbersUnique == AllocSpec => []UniqueNumbers
<1>1. AllocInv => UniqueNumbers
    BY DEF AllocInv
<1> QED
    BY <1>1, AllocInvariance, PTL

--------------------------------------------------------------------------------
(* LspClient: Data *)

\* Every message is typed, and what it was made of.
LEMMA MessagesAreTyped ==
    /\ Nothing \in Message /\ Nothing.kind = "nothing" /\ Nothing.of = "none"
    /\ \A kind \in Kinds, id \in Nat :
         /\ Unasked(kind, id) \in Message
         /\ Unasked(kind, id).kind = kind /\ Unasked(kind, id).id = id
         /\ Unasked(kind, id).of = "none"
    /\ opened \in BOOLEAN =>
         \A kind \in Kinds : \A r \in [method : Calls, id : Ids] :
           /\ Reply(kind, r) \in Message
           /\ Reply(kind, r).kind = kind /\ Reply(kind, r).id = r.id
           /\ Reply(kind, r).of = r.method /\ Reply(kind, r).opened = opened
BY DEF Nothing, Unasked, Reply, Message, Kinds, Ids

\* What is in the pipes.
LEMMA PipesAreTyped ==
    ASSUME TypeOK
    PROVE  /\ Len(stdin) \in Nat /\ Len(stdout) \in Nat
           /\ \A k \in 1..Len(stdin) : stdin[k] \in Request /\ stdin[k].id \in Nat
           /\ \A k \in 1..Len(stdout) : stdout[k] \in Message
           /\ \A r \in asked : r.id \in Nat
<1>1. stdin \in Seq(Request) /\ stdout \in Seq(Message)
  BY DEF TypeOK
<1>2. /\ \A k \in 1..Len(stdin) : stdin[k] \in Request
      /\ \A k \in 1..Len(stdout) : stdout[k] \in Message
  BY <1>1, ElementOfSeq
<1>3. \A r \in asked : r.id \in Nat
  BY DEF TypeOK, Ids
<1> QED  BY <1>1, <1>2, <1>3 DEF Request

\* Where a command may be after a step of each kind.
LEMMA Course ==
    /\ Writes \union Waits \subseteq PC
    /\ pc \in Writes \union Waits => Then[pc] \in PC /\ Else[pc] \in PC
    /\ pc \in Writes \union Waits => Else[pc] \in {"kill", "shutdown", "exit"}
    /\ pc = "initialize" => Then[pc] = "initializing" /\ Else[pc] = "kill"
    /\ pc = "initializing" => Then[pc] = "initialized" /\ Else[pc] = "kill"
    /\ pc = "initialized" => Then[pc] = "didOpen" /\ Else[pc] = "kill"
    /\ pc = "didOpen" => Then[pc] = "question" /\ Else[pc] = "shutdown"
    /\ pc = "question" => Then[pc] = "asking" /\ Else[pc] = "shutdown"
    /\ pc = "asking" => Then[pc] = "shutdown" /\ Else[pc] = "shutdown"
    /\ pc = "shutdown" => Then[pc] = "closing" /\ Else[pc] = "exit"
    /\ pc = "closing" => Then[pc] = "exit" /\ Else[pc] = "exit"
    /\ pc = "exit" => Then[pc] = "kill" /\ Else[pc] = "kill"
BY DEF Then, Else, Writes, Waits, Calls, PC

\* A call stays where it was placed.
LEMMA PlacedPersists ==
    ASSUME NEW m, NEW id \in Nat, Placed(m, id), TypeOK, TypeOK', nextID <= nextID',
           GivenUp => GivenUp'
    PROVE  Placed(m, id)'
BY DEF Placed, TypeOK

--------------------------------------------------------------------------------
(* LspClient: The command, where it does not write *)

\* The steps of the command that touch neither the pipes nor the goroutines.
Quiet == Spawn \/ SpawnFails \/ WriteFails \/ OpenFails \/ Receive \/ TimesOut \/ Kill \/ Reap

\* They keep the command on its course, and let no call wait that did not write.
LEMMA QuietControl ==
    ASSUME LspInv, Quiet
    PROVE  /\ TypeOK' /\ Numbered' /\ ServerKnown'
           /\ nextID <= nextID' /\ (GivenUp => GivenUp')
           /\ UNCHANGED <<readers, got, ctx, helper, stdin, stdout, asked, opened>>
           /\ (spoiled => spoiled')
           /\ (server \in {"dead", "reaped"} => server' \in {"dead", "reaped"})
           /\ pc' \notin Waits /\ pc' # "question"
<1>0. /\ TypeOK /\ Numbered /\ ServerKnown /\ nextID \in 1..4
      /\ Waits = {"initializing", "asking", "closing"}
      /\ Writes = {"initialize", "question", "shutdown", "initialized", "didOpen", "exit"}
  BY DEF LspInv, TypeOK, Waits, Writes, Calls
<1>1. CASE Spawn
  BY <1>0, <1>1 DEF Spawn, TypeOK, Numbered, ServerKnown, GivenUp, serverVars, PC
<1>2. CASE SpawnFails
  BY <1>0, <1>2 DEF SpawnFails, TypeOK, Numbered, ServerKnown, GivenUp, serverVars, PC
<1>3. CASE WriteFails
  BY <1>0, <1>3, Course DEF WriteFails, TakeId, Fails, TypeOK, Numbered, ServerKnown,
     GivenUp, serverVars, PC, Calls
<1>4. CASE OpenFails
  BY <1>0, <1>4, Course DEF OpenFails, Fails, TypeOK, Numbered, ServerKnown, GivenUp,
     serverVars, PC
<1>5. CASE Receive
  BY <1>0, <1>5, Course DEF Receive, Fails, Succeeds, TypeOK, Numbered, ServerKnown,
     GivenUp, serverVars, PC
<1>6. CASE TimesOut
  BY <1>0, <1>6, Course DEF TimesOut, Fails, TypeOK, Numbered, ServerKnown, GivenUp,
     serverVars, PC
<1>7. CASE Kill
  BY <1>0, <1>7 DEF Kill, TypeOK, Numbered, ServerKnown, GivenUp, serverVars, PC
<1>8. CASE Reap
  BY <1>0, <1>8 DEF Reap, TypeOK, Numbered, ServerKnown, GivenUp, serverVars, PC
<1> QED  BY <1>1, <1>2, <1>3, <1>4, <1>5, <1>6, <1>7, <1>8 DEF Quiet

\* Settled and OwnAnswer: only Receive can give an answer, and what it has found is
\* the question's own.
LEMMA QuietAnswers ==
    ASSUME LspInv, Quiet
    PROVE  Settled' /\ OwnAnswer'
<1>0. /\ TypeOK /\ Numbered /\ GoroutinesOK /\ FileFirst /\ Settled /\ OwnAnswer
      /\ nextID <= nextID' /\ nextID \in Nat /\ nextID' \in Nat
      /\ UNCHANGED <<readers, got>>
  BY QuietControl DEF LspInv, TypeOK
<1>1. CASE outcome' = outcome
  BY <1>0, <1>1 DEF Settled, OwnAnswer
<1>2. CASE outcome' = "answer" /\ outcome' # outcome
  <2>1. Receive /\ pc = "asking" /\ got[2] # Nothing /\ ~Bad(got[2])
    <3>1. Receive
      BY <1>2 DEF Quiet, Spawn, SpawnFails, WriteFails, OpenFails, TimesOut, Kill, Reap, Fails
    <3>2. pc = "asking"
      BY <3>1, <1>2 DEF Receive, Succeeds, Fails
    <3>3. nextID = 3
      BY <3>2, <1>0 DEF Numbered
    <3> QED  BY <3>1, <3>2, <3>3, <1>2 DEF Receive, Fails
  <2>2. nextID = 3 /\ ~GivenUp
    BY <2>1, <1>0 DEF Numbered, GivenUp
  <2>3. /\ got[2].kind \in {"answer", "request"} /\ got[2].id = 2 /\ ReplyPlaced(got[2])
        /\ 2 \notin readers
    BY <2>1, <1>0 DEF GoroutinesOK, FoundOwn, Ids
  <2>4. got[2].kind = "answer" => got[2].of = "question"
    BY <2>2, <2>3 DEF ReplyPlaced, Placed, Calls
  <2>5. got[2].of = "question" => got[2].opened
    BY <1>0 DEF FileFirst, Ids
  <2> QED  BY <2>2, <2>3, <2>4, <2>5, <1>0 DEF Settled, OwnAnswer
<1>3. CASE outcome' # "answer"
  BY <1>3 DEF Settled, OwnAnswer
<1> QED  BY <1>1, <1>2, <1>3

\* Nothing is in flight that was not, and no goroutine waits while time is left.
LEMMA QuietFlight ==
    ASSUME LspInv, Quiet
    PROVE  RequestsPlaced' /\ FileFirst' /\ GoroutinesOK' /\ ErrorsExplained'
<1>0. /\ TypeOK /\ Numbered /\ RequestsPlaced /\ FileFirst /\ GoroutinesOK /\ ErrorsExplained
      /\ TypeOK' /\ nextID <= nextID' /\ nextID \in Nat /\ nextID' \in Nat
      /\ (GivenUp => GivenUp')
      /\ UNCHANGED <<readers, got, ctx, stdin, stdout, asked, opened>>
      /\ (spoiled => spoiled')
      /\ (server \in {"dead", "reaped"} => server' \in {"dead", "reaped"})
      /\ pc' \notin Waits /\ pc' # "question"
  BY QuietControl DEF LspInv, TypeOK
<1>1. \A m, id : id \in Nat /\ Placed(m, id) => Placed(m, id)'
  BY <1>0, PlacedPersists
<1>2. RequestsPlaced'
  BY PipesAreTyped, <1>0, <1>1 DEF RequestsPlaced
<1>3. FileFirst'
  BY <1>0 DEF FileFirst
<1>4. \A m \in Message : ReplyPlaced(m) => ReplyPlaced(m)'
  BY <1>1 DEF ReplyPlaced, Message
<1>5. GoroutinesOK'
  <2>1. (\A k \in 1..Len(stdout) : ReplyPlaced(stdout[k]))'
    BY PipesAreTyped, <1>0, <1>4 DEF GoroutinesOK
  <2>2. (\A i \in Ids : FoundOwn(i, got[i]))'
    BY <1>0, <1>4 DEF TypeOK, GoroutinesOK, FoundOwn, Bad
  <2>3. ctx = "live" => readers = {}
    <3>1. SUFFICES ASSUME ctx = "live", NEW i \in readers
                   PROVE  FALSE
      OBVIOUS
    <3>2. pc \in Waits /\ i = nextID - 1 /\ got[i] = Nothing
      BY <3>1, <1>0 DEF GoroutinesOK
    <3>3. Receive
      BY <3>1, <3>2 DEF Quiet, Spawn, SpawnFails, WriteFails, OpenFails, TimesOut, Kill,
         Reap, Waits, Writes, Calls
    <3> QED  BY <3>2, <3>3 DEF Receive
  <2>4. (\A i \in readers : i < nextID /\ got[i] = Nothing)'
    BY <1>0 DEF GoroutinesOK, TypeOK, Ids
  <2>5. (\A i \in Ids : i >= nextID => got[i] = Nothing)'
    BY <1>0 DEF GoroutinesOK, Ids
  <2>6. (ctx = "live" => \A i \in readers : pc \in Waits /\ i = nextID - 1)'
    BY <1>0, <2>3
  <2> QED  BY <2>1, <2>2, <2>4, <2>5, <2>6 DEF GoroutinesOK
<1>6. ErrorsExplained'
  BY <1>0 DEF ErrorsExplained
<1> QED  BY <1>2, <1>3, <1>5, <1>6

--------------------------------------------------------------------------------
(* LspClient: The command, where it writes *)

\* A write keeps the command on its course; a call gets the next id.
LEMMA WriteControl ==
    ASSUME LspInv, Write
    PROVE  /\ TypeOK' /\ Numbered' /\ ServerKnown'
           /\ nextID <= nextID' /\ (GivenUp => GivenUp')
           /\ pc \in Calls => /\ nextID \in Ids /\ nextID' = nextID + 1 /\ pc' \in Waits
                              /\ \A m, id : m = pc /\ id = nextID => Placed(m, id)'
           /\ pc \notin Calls => nextID' = nextID
<1>0. /\ TypeOK /\ Numbered /\ ServerKnown /\ nextID \in 1..4 /\ pc \in Writes
      /\ Waits = {"initializing", "asking", "closing"}
      /\ Calls = {"initialize", "question", "shutdown"}
      /\ Writes = Calls \union {"initialized", "didOpen", "exit"}
  BY DEF LspInv, TypeOK, Waits, Writes, Calls, Write
<1>1. pc \in Calls => nextID \in Ids
  BY <1>0 DEF Numbered, Ids
<1>2. nextID' \in 1..4 /\ nextID <= nextID' /\ pc' = Then[pc] /\ outcome' = outcome
  BY <1>0, <1>1 DEF Write, TakeId, Succeeds, Waits, Writes, Calls, Ids
<1>3. Numbered' /\ ServerKnown' /\ (GivenUp => GivenUp')
  BY <1>0, <1>2, Course DEF Write, TakeId, Numbered, ServerKnown, GivenUp, serverVars
<1>4. pc \in Calls => /\ nextID' = nextID + 1 /\ pc' \in Waits
                         /\ \A m, id : m = pc /\ id = nextID => Placed(m, id)'
  BY <1>0, <1>1, <1>2, Course DEF Write, TakeId, Numbered, Placed, GivenUp, Ids
<1>5. TypeOK'
  <2>1. pc' \in PC
    BY <1>0, <1>2, Course
  <2>2. readers' \in SUBSET Ids
    BY <1>0, <1>1 DEF Write, TypeOK
  <2>3. [method |-> pc, id |-> IF pc \in Calls THEN nextID ELSE 0] \in Request
    BY <1>0, <1>1 DEF Request, Ids
  <2>4. stdin' \in Seq(Request) /\ Len(stdin') <= Cap
    <3>1. stdin \in Seq(Request)
      BY <1>0 DEF TypeOK
    <3>2. Len(stdin') = Len(stdin) + 1 /\ stdin' \in Seq(Request)
      BY <2>3, <3>1, AppendProperties DEF Write
    <3>3. Len(stdin) \in Nat /\ Cap \in Nat
      BY <3>1, ConstantsOK
    <3> QED  BY <3>2, <3>3 DEF Write
  <2> QED  BY <2>1, <2>2, <2>4, <1>0, <1>2 DEF Write, TypeOK, serverVars
<1> QED  BY <1>1, <1>2, <1>3, <1>4, <1>5 DEF Write, TakeId

\* A write keeps the invariant: the file goes ahead of the question, and no goroutine
\* is left behind while there is time.
LEMMA WriteInv ==
    ASSUME LspInv, Write
    PROVE  LspInv'
<1>0. /\ TypeOK /\ Numbered /\ RequestsPlaced /\ FileFirst /\ GoroutinesOK /\ ErrorsExplained
      /\ Settled /\ OwnAnswer
      /\ TypeOK' /\ Numbered' /\ ServerKnown'
      /\ nextID <= nextID' /\ nextID \in Nat /\ nextID' \in Nat /\ (GivenUp => GivenUp')
      /\ pc \in Writes /\ outcome' = outcome
      /\ UNCHANGED <<got, ctx, server, stdout, asked, opened, spoiled>>
  BY WriteControl DEF LspInv, TypeOK, Write, Succeeds, serverVars, Writes, Calls
<1>1. \A m, id : id \in Nat /\ Placed(m, id) => Placed(m, id)'
  BY <1>0, PlacedPersists
<1> DEFINE r == [method |-> pc, id |-> IF pc \in Calls THEN nextID ELSE 0]
<1>2. /\ stdin' = Append(stdin, r) /\ stdin \in Seq(Request) /\ r \in Request
      /\ Len(stdin) \in Nat /\ Len(stdin') = Len(stdin) + 1
      /\ \A k \in 1..Len(stdin) : stdin'[k] = stdin[k] /\ stdin[k] \in Request
      /\ stdin'[Len(stdin) + 1] = r
  <2>1. stdin \in Seq(Request) /\ r \in Request /\ stdin' = Append(stdin, r)
    BY <1>0, WriteControl DEF TypeOK, Request, Write, Ids
  <2> QED  BY <2>1, AppendProperties
<1>3. RequestsPlaced'
  <2>1. ASSUME NEW k \in 1..Len(stdin'), NEW q, q = stdin'[k]
        PROVE  IF q.method \in Calls THEN q.id \in Ids /\ Placed(q.method, q.id)'
                                     ELSE q.id = 0
    <3>1. CASE k \in 1..Len(stdin)
      <4>1. q = stdin[k] /\ q.id \in Nat
        BY <2>1, <3>1, <1>2 DEF Request
      <4> QED  BY <3>1, <4>1, <1>0, <1>1 DEF RequestsPlaced
    <3>2. CASE k = Len(stdin) + 1
      BY <2>1, <3>2, <1>2, WriteControl
    <3> QED  BY <1>2, <3>1, <3>2
  <2>2. \A q \in asked : Placed(q.method, q.id)'
    BY <1>0, <1>1 DEF TypeOK, Ids, RequestsPlaced
  <2> QED  BY <2>1, <2>2, <1>0 DEF RequestsPlaced
<1>4. FileFirst'
  <2> DEFINE sent(n) == opened \/ \E j \in 1..n : stdin[j].method = "didOpen"
             sentP(n) == opened' \/ \E j \in 1..n : stdin'[j].method = "didOpen"
  <2>1. \A n \in 0..Len(stdin) : sent(n) <=> sentP(n)
    BY <1>0, <1>2
  <2>2. pc' = "question" => sentP(Len(stdin'))
    <3>1. pc' = "question" => pc = "didOpen"
      BY <1>0, Course DEF Write, Succeeds, Writes, Calls
    <3> QED  BY <3>1, <1>2
  <2>3. pc = "question" => sent(Len(stdin))
    BY <1>0 DEF FileFirst
  <2>4. \A k \in 1..Len(stdin) : stdin[k].method = "question" => sent(k - 1)
    BY <1>0 DEF FileFirst
  <2>5. \A k \in 1..Len(stdin') : stdin'[k].method = "question" => sentP(k - 1)
    <3>1. SUFFICES ASSUME NEW k \in 1..Len(stdin'), stdin'[k].method = "question"
                   PROVE  sentP(k - 1)
      OBVIOUS
    <3>2. CASE k \in 1..Len(stdin)
      <4>1. k - 1 \in 0..Len(stdin) /\ sent(k - 1)
        BY <3>1, <3>2, <2>4, <1>2
      <4> QED  BY <4>1, <2>1
    <3>3. CASE k = Len(stdin) + 1
      <4>1. pc = "question" /\ k - 1 = Len(stdin) /\ Len(stdin) \in 0..Len(stdin)
        BY <3>1, <3>3, <1>2
      <4> QED  BY <4>1, <2>1, <2>3
    <3> QED  BY <3>1, <3>2, <3>3, <1>2
  <2>6. /\ \A q \in asked' : q.method = "question" => opened'
        /\ \A k \in 1..Len(stdout') : stdout'[k].of = "question" => stdout'[k].opened
        /\ \A i \in Ids : got'[i].of = "question" => got'[i].opened
    BY <1>0 DEF FileFirst
  <2> QED  BY <2>2, <2>5, <2>6 DEF FileFirst
<1>5. \A m \in Message : ReplyPlaced(m) => ReplyPlaced(m)'
  BY <1>1 DEF ReplyPlaced, Message
<1>6. GoroutinesOK'
  <2>1. (\A k \in 1..Len(stdout) : ReplyPlaced(stdout[k]))'
    BY PipesAreTyped, <1>0, <1>5 DEF GoroutinesOK
  <2>2. (\A i \in Ids : FoundOwn(i, got[i]))'
    BY <1>0, <1>5 DEF TypeOK, GoroutinesOK, FoundOwn, Bad
  <2>3. ctx = "live" => readers = {}
    BY <1>0 DEF GoroutinesOK, Waits, Writes, Calls
  <2>4. \A i \in readers' : i < nextID' /\ got'[i] = Nothing
    BY <1>0, WriteControl DEF GoroutinesOK, Write, TypeOK, Ids
  <2>5. ctx' = "live" => \A i \in readers' : pc' \in Waits /\ i = nextID' - 1
    BY <2>3, <1>0, WriteControl DEF Write
  <2>6. \A i \in Ids : i >= nextID' => got'[i] = Nothing
    BY <1>0 DEF GoroutinesOK, Ids
  <2> QED  BY <2>1, <2>2, <2>4, <2>5, <2>6, <1>0 DEF GoroutinesOK
<1>7. ErrorsExplained'
  BY <1>0 DEF ErrorsExplained
<1>8. Settled' /\ OwnAnswer'
  <2>1. outcome = "answer" => nextID' >= 3 /\ 2 \notin readers'
    BY <1>0, WriteControl DEF Settled, Write
  <2> QED  BY <2>1, <1>0 DEF Settled, OwnAnswer
<1> QED  BY <1>0, <1>3, <1>4, <1>6, <1>7, <1>8 DEF LspInv

--------------------------------------------------------------------------------
(* LspClient: The goroutines of the calls *)

\* The steps that leave the command's control, the requests and the server alone.
LEMMA FlightKept ==
    ASSUME LspInv,
           UNCHANGED <<pc, nextID, outcome, ctx, server, stdin, asked, opened, spoiled>>
    PROVE  Numbered' /\ ServerKnown' /\ RequestsPlaced' /\ (GivenUp <=> GivenUp')
           /\ \A m \in Message : ReplyPlaced(m) <=> ReplyPlaced(m)'
BY DEF LspInv, Numbered, ServerKnown, RequestsPlaced, Placed, GivenUp, ReplyPlaced

\* While time is left there is one goroutine at most.
LEMMA AloneInTime ==
    ASSUME LspInv, Cardinality(readers) > 1
    PROVE  ctx = "done"
<1>1. SUFFICES ASSUME ctx = "live"
               PROVE  FALSE
  BY DEF LspInv, TypeOK
<1>2. readers \subseteq {nextID - 1}
  BY <1>1 DEF LspInv, GoroutinesOK
<1>3. IsFiniteSet({nextID - 1}) /\ Cardinality({nextID - 1}) = 1
  BY FS_Singleton
<1>4. Cardinality(readers) \in Nat /\ Cardinality(readers) <= 1
  <2>1. IsFiniteSet(readers) /\ Cardinality(readers) <= Cardinality({nextID - 1})
    BY <1>2, <1>3, FS_Subset
  <2> QED  BY <2>1, <1>3, FS_CardinalityType
<1> QED  BY <1>4

\* What is left of the output of the server.
LEMMA OutputShrinks ==
    ASSUME TypeOK, stdout # <<>>
    PROVE  /\ Head(stdout) = stdout[1] /\ Head(stdout) \in Message /\ 1 \in 1..Len(stdout)
           /\ Tail(stdout) \in Seq(Message) /\ Len(Tail(stdout)) <= Cap
           /\ \A k \in 1..Len(Tail(stdout)) :
                k + 1 \in 1..Len(stdout) /\ Tail(stdout)[k] = stdout[k + 1]
<1>1. stdout \in Seq(Message) /\ Len(stdout) <= Cap /\ Len(stdout) \in Nat /\ Cap \in Nat
  BY ConstantsOK DEF TypeOK
<1>2. /\ Head(stdout) \in Message /\ Tail(stdout) \in Seq(Message)
      /\ Len(Tail(stdout)) = Len(stdout) - 1 /\ Len(stdout) > 0
      /\ \A k \in 1..Len(Tail(stdout)) : Tail(stdout)[k] = stdout[k + 1]
  BY <1>1, HeadTailProperties, EmptySeq
<1> QED  BY <1>1, <1>2

\* What is said of the messages in the pipe, of those of its rest.
OutputFine(out) ==
    \A k \in 1..Len(out) :
        /\ out[k] \in Message /\ ReplyPlaced(out[k])
        /\ out[k].of = "question" => out[k].opened
        /\ out[k].kind \in {"refusal", "rubbish"} => spoiled

\* In particular nothing is wrong with the rest when a message has been read.
LEMMA OutputIsFine ==
    ASSUME LspInv
    PROVE  OutputFine(stdout) /\ (stdout # <<>> => OutputFine(Tail(stdout)))
<1>1. OutputFine(stdout)
  BY PipesAreTyped DEF LspInv, OutputFine, GoroutinesOK, ErrorsExplained, FileFirst
<1> QED  BY <1>1, OutputShrinks DEF OutputFine, LspInv

\* A goroutine ends with m.
LEMMA FindsInv ==
    ASSUME LspInv, NEW i \in readers, NEW m \in Message, Finds(i, m),
           stdout' = stdout \/ (stdout # <<>> /\ stdout' = Tail(stdout)),
           UNCHANGED <<clientVars, ctx, server, serverVars, stdin, spoiled>>,
           m # Nothing, FoundOwn(i, m),
           m.of = "question" => m.opened,
           m.kind = "refusal" => spoiled,
           m.kind = "rubbish" => spoiled \/ ctx = "done",
           m.kind = "closed" => server \in {"dead", "reaped"}
    PROVE  LspInv'
<1>0. /\ TypeOK /\ Numbered /\ RequestsPlaced /\ FileFirst /\ GoroutinesOK /\ ErrorsExplained
      /\ Settled /\ OwnAnswer
      /\ UNCHANGED <<pc, nextID, outcome, ctx, server, helper, stdin, asked, opened, spoiled>>
      /\ i \in Ids /\ nextID \in Nat
      /\ got' = [got EXCEPT ![i] = m] /\ readers' = readers \ {i}
  BY DEF LspInv, TypeOK, clientVars, serverVars, Finds
<1>1. /\ Numbered' /\ ServerKnown' /\ RequestsPlaced'
      /\ \A n \in Message : ReplyPlaced(n) <=> ReplyPlaced(n)'
  BY <1>0, FlightKept
<1>2. OutputFine(stdout') /\ stdout' \in Seq(Message) /\ Len(stdout') <= Cap
  BY <1>0, OutputIsFine, OutputShrinks DEF TypeOK
<1>3. TypeOK'
  BY <1>0, <1>2 DEF TypeOK
<1>4. /\ got'[i] = m
      /\ \A j \in Ids : j # i => got'[j] = got[j]
      /\ \A j \in Ids : got[j] \in Message
  BY <1>0 DEF TypeOK
<1>5. FileFirst'
  <2>1. \A k \in 1..Len(stdout') : stdout'[k].of = "question" => stdout'[k].opened
    BY <1>2 DEF OutputFine
  <2>2. \A j \in Ids : got'[j].of = "question" => got'[j].opened
    BY <1>0, <1>4 DEF FileFirst
  <2> QED  BY <2>1, <2>2, <1>0 DEF FileFirst
<1>6. GoroutinesOK'
  <2>1. (\A k \in 1..Len(stdout) : ReplyPlaced(stdout[k]))'
    <3>1. ASSUME NEW k \in 1..Len(stdout'), NEW n, n = stdout'[k]
          PROVE  ReplyPlaced(n)'
      BY <3>1, <1>1, <1>2 DEF OutputFine
    <3> QED  BY <3>1
  <2>2. \A j \in Ids : \A n \in Message : FoundOwn(j, n) => FoundOwn(j, n)'
    BY <1>1 DEF FoundOwn, Bad
  <2>3. (\A j \in Ids : FoundOwn(j, got[j]))'
    <3>1. ASSUME NEW j \in Ids, NEW n, n = got'[j]
          PROVE  FoundOwn(j, n)'
      BY <3>1, <2>2, <1>0, <1>4 DEF GoroutinesOK
    <3> QED  BY <3>1
  <2>4. (\A j \in readers : j < nextID /\ got[j] = Nothing)'
    BY <1>0, <1>4 DEF GoroutinesOK, TypeOK
  <2>5. (\A j \in Ids : j >= nextID => got[j] = Nothing)'
    BY <1>0, <1>4 DEF GoroutinesOK, Ids
  <2>6. (ctx = "live" => \A j \in readers : pc \in Waits /\ j = nextID - 1)'
    BY <1>0 DEF GoroutinesOK
  <2> QED  BY <2>1, <2>3, <2>4, <2>5, <2>6 DEF GoroutinesOK
<1>7. ErrorsExplained'
  <2>1. \A k \in 1..Len(stdout') : stdout'[k].kind \in {"refusal", "rubbish"} => spoiled'
    BY <1>0, <1>2 DEF OutputFine
  <2> QED  BY <2>1, <1>0, <1>4 DEF ErrorsExplained
<1>8. Settled' /\ OwnAnswer'
  BY <1>0, <1>4 DEF Settled, OwnAnswer, Ids
<1> QED  BY <1>1, <1>3, <1>5, <1>6, <1>7, <1>8 DEF LspInv

\* A goroutine reads a message and passes it over or ends with it.
LEMMA ReadInv ==
    ASSUME LspInv, NEW i \in Ids, Read(i)
    PROVE  LspInv'
<1> DEFINE m == Head(stdout)
<1>1. /\ i \in readers /\ stdout # <<>> /\ TypeOK /\ OutputFine(stdout)
      /\ m = stdout[1] /\ m \in Message /\ 1 \in 1..Len(stdout)
  BY OutputIsFine, OutputShrinks DEF Read, LspInv
<1>2. /\ ReplyPlaced(m) /\ (m.of = "question" => m.opened)
      /\ (m.kind \in {"refusal", "rubbish"} => spoiled)
  BY <1>1 DEF OutputFine
<1>3. CASE ~Skips(i, m)
  <2>1. m.kind \notin {"closed", "nothing"} /\ m # Nothing
    BY <1>2, MessagesAreTyped DEF ReplyPlaced
  <2>2. FoundOwn(i, m)
    <3>1. m.kind = "rubbish" \/ m.id = i
      BY <1>3 DEF Skips
    <3>2. m.kind # "note"
      BY <3>1, <1>2 DEF ReplyPlaced, Ids
    <3>3. m.kind \in {"answer", "refusal", "request", "rubbish"}
      BY <1>1, <2>1, <3>2 DEF Message, Kinds
    <3> QED  BY <3>1, <3>3, <1>2 DEF FoundOwn, Bad
  <2>3. Finds(i, m)
    BY <1>3 DEF Read
  <2>4. /\ stdout' = Tail(stdout)
        /\ UNCHANGED <<clientVars, ctx, server, serverVars, stdin, spoiled>>
    BY DEF Read
  <2> HIDE DEF m
  <2> QED  BY <1>1, <1>2, <2>1, <2>2, <2>3, <2>4, FindsInv
<1>4. CASE Skips(i, m)
  <2>0. /\ Numbered /\ RequestsPlaced /\ FileFirst /\ GoroutinesOK /\ ErrorsExplained
        /\ Settled /\ OwnAnswer
        /\ UNCHANGED <<pc, nextID, outcome, ctx, server, helper, stdin, asked, opened, spoiled>>
        /\ UNCHANGED <<readers, got>> /\ stdout' = Tail(stdout)
    BY <1>4 DEF Read, LspInv, clientVars, serverVars
  <2>1. /\ Numbered' /\ ServerKnown' /\ RequestsPlaced'
        /\ \A n \in Message : ReplyPlaced(n) <=> ReplyPlaced(n)'
    BY <2>0, FlightKept
  <2>2. OutputFine(stdout') /\ stdout' \in Seq(Message) /\ Len(stdout') <= Cap
    BY <2>0, <1>1, OutputIsFine, OutputShrinks
  <2>3. TypeOK'
    BY <1>1, <2>0, <2>2 DEF TypeOK
  <2>4. FileFirst'
    <3>1. \A k \in 1..Len(stdout') : stdout'[k].of = "question" => stdout'[k].opened
      BY <2>2 DEF OutputFine
    <3> QED  BY <3>1, <2>0 DEF FileFirst
  <2>5. GoroutinesOK'
    <3>1. (\A k \in 1..Len(stdout) : ReplyPlaced(stdout[k]))'
      <4>1. ASSUME NEW k \in 1..Len(stdout'), NEW n, n = stdout'[k]
            PROVE  ReplyPlaced(n)'
        BY <4>1, <2>1, <2>2 DEF OutputFine
      <4> QED  BY <4>1
    <3>2. (\A j \in Ids : FoundOwn(j, got[j]))'
      BY <1>1, <2>0, <2>1 DEF GoroutinesOK, FoundOwn, Bad, TypeOK
    <3> QED  BY <3>1, <3>2, <2>0 DEF GoroutinesOK
  <2>6. ErrorsExplained'
    <3>1. \A k \in 1..Len(stdout') : stdout'[k].kind \in {"refusal", "rubbish"} => spoiled'
      BY <2>0, <2>2 DEF OutputFine
    <3> QED  BY <3>1, <2>0 DEF ErrorsExplained
  <2>7. Settled' /\ OwnAnswer'
    BY <2>0 DEF Settled, OwnAnswer
  <2> QED  BY <2>1, <2>3, <2>4, <2>5, <2>6, <2>7 DEF LspInv
<1> QED  BY <1>3, <1>4

\* The stream ends.
LEMMA ReadEndsInv ==
    ASSUME LspInv, NEW i \in Ids, ReadEnds(i)
    PROVE  LspInv'
<1> DEFINE m == Unasked("closed", 0)
<1>1. m \in Message /\ m.kind = "closed" /\ m.of = "none" /\ m # Nothing
  BY MessagesAreTyped DEF Kinds
<1>2. /\ i \in readers /\ server \in {"dead", "reaped"} /\ Finds(i, m) /\ stdout' = stdout
      /\ UNCHANGED <<clientVars, ctx, server, serverVars, stdin, spoiled>>
  BY DEF ReadEnds
<1>3. FoundOwn(i, m)
  BY <1>1 DEF FoundOwn, Bad
<1> HIDE DEF m
<1> QED  BY <1>1, <1>2, <1>3, FindsInv

\* Two goroutines spoil a message; then the time is over.
LEMMA TearInv ==
    ASSUME LspInv, NEW i \in Ids, Tear(i)
    PROVE  LspInv'
<1> DEFINE m == Unasked("rubbish", 0)
<1>1. m \in Message /\ m.kind = "rubbish" /\ m.of = "none" /\ m # Nothing
  BY MessagesAreTyped DEF Kinds
<1>2. /\ i \in readers /\ Finds(i, m) /\ stdout # <<>> /\ stdout' = Tail(stdout)
      /\ Cardinality(readers) > 1
      /\ UNCHANGED <<clientVars, ctx, server, serverVars, stdin, spoiled>>
  BY DEF Tear
<1>3. FoundOwn(i, m) /\ ctx = "done"
  BY <1>1, <1>2, AloneInTime DEF FoundOwn, Bad
<1> HIDE DEF m
<1> QED  BY <1>1, <1>2, <1>3, FindsInv

\* The command gives up all that it waited for.
LEMMA PanicInv ==
    ASSUME LspInv, Panic
    PROVE  LspInv'
<1>0. /\ TypeOK /\ Numbered /\ ServerKnown /\ RequestsPlaced /\ FileFirst /\ GoroutinesOK
      /\ ErrorsExplained /\ Settled /\ OwnAnswer
      /\ pc' = "crashed" /\ readers' = {} /\ nextID \in 1..4
      /\ UNCHANGED <<nextID, outcome, got, ctx, server, helper, stdin, stdout, asked,
                     opened, spoiled>>
      /\ GivenUp'
      /\ pc # "returned"
  BY DEF LspInv, Panic, serverVars, GivenUp, TypeOK
<1>1. TypeOK' /\ Numbered' /\ ServerKnown'
  BY <1>0 DEF TypeOK, Numbered, ServerKnown, PC, Writes, Waits, Calls
<1>2. \A n, id : id \in Nat /\ Placed(n, id) => Placed(n, id)'
  BY <1>0, <1>1, PlacedPersists
<1>3. RequestsPlaced'
  BY PipesAreTyped, <1>0, <1>2 DEF RequestsPlaced
<1>4. FileFirst'
  BY <1>0 DEF FileFirst
<1>5. \A n \in Message : ReplyPlaced(n) => ReplyPlaced(n)'
  BY <1>2 DEF ReplyPlaced, Message
<1>6. GoroutinesOK'
  <2>1. (\A k \in 1..Len(stdout) : ReplyPlaced(stdout[k]))'
    BY PipesAreTyped, <1>0, <1>5 DEF GoroutinesOK
  <2>2. (\A i \in Ids : FoundOwn(i, got[i]))'
    BY <1>0, <1>5 DEF TypeOK, GoroutinesOK, FoundOwn, Bad
  <2> QED  BY <2>1, <2>2, <1>0 DEF GoroutinesOK
<1>7. ErrorsExplained' /\ Settled' /\ OwnAnswer'
  BY <1>0 DEF ErrorsExplained, Settled, OwnAnswer
<1> QED  BY <1>1, <1>3, <1>4, <1>6, <1>7 DEF LspInv

--------------------------------------------------------------------------------
(* LspClient: The timeout, and the server and its helper as processes *)

\* The steps that move no message.
Aside == CtxEnds \/ CtxKills \/ ServerDies \/ HelperStarts \/ HelperEnds

\* They keep the invariant: the server never comes back, nor does time.
LEMMA AsideInv ==
    ASSUME LspInv, Aside
    PROVE  LspInv'
<1>0. /\ TypeOK /\ Numbered /\ ServerKnown /\ RequestsPlaced /\ FileFirst /\ GoroutinesOK
      /\ ErrorsExplained /\ Settled /\ OwnAnswer
  BY DEF LspInv
<1>1. /\ UNCHANGED <<pc, nextID, outcome, readers, got, stdin, stdout, asked, opened, spoiled>>
      /\ ctx' = ctx \/ ctx' = "done"
      /\ server' = server \/ (server = "up" /\ server' = "dead")
      /\ helper' \in {helper, TRUE, FALSE}
  BY DEF Aside, CtxEnds, CtxKills, ServerDies, HelperStarts, HelperEnds, clientVars, serverVars
<1>2. TypeOK' /\ Numbered' /\ ServerKnown' /\ RequestsPlaced' /\ FileFirst'
  <2>1. TypeOK'
    BY <1>0, <1>1 DEF TypeOK
  <2>2. Numbered' /\ ServerKnown'
    BY <1>0, <1>1 DEF Numbered, ServerKnown, Waits, Writes, Calls
  <2>3. RequestsPlaced' /\ FileFirst'
    BY <1>0, <1>1 DEF RequestsPlaced, FileFirst, Placed, GivenUp
  <2> QED  BY <2>1, <2>2, <2>3
<1>3. GoroutinesOK'
  BY <1>0, <1>1 DEF GoroutinesOK, FoundOwn, Bad, ReplyPlaced, Placed, GivenUp
<1>4. ErrorsExplained' /\ Settled' /\ OwnAnswer'
  BY <1>0, <1>1 DEF ErrorsExplained, Settled, OwnAnswer
<1> QED  BY <1>2, <1>3, <1>4 DEF LspInv

--------------------------------------------------------------------------------
(* LspClient: The server at the pipes *)

\* The steps of the server at the pipes leave the command and its goroutines alone.
AtThePipes ==
    UNCHANGED <<pc, nextID, outcome, readers, got, ctx, server, helper>>

\* What they keep of the invariant.
LEMMA PipesKeep ==
    ASSUME LspInv, AtThePipes, spoiled => spoiled'
    PROVE  /\ Numbered' /\ ServerKnown' /\ Settled' /\ OwnAnswer'
           /\ \A m, id : Placed(m, id) <=> Placed(m, id)'
           /\ \A m : ReplyPlaced(m) <=> ReplyPlaced(m)'
           /\ (\A i \in Ids : FoundOwn(i, got[i]))'
           /\ (\A i \in readers : i < nextID /\ got[i] = Nothing)'
           /\ (\A i \in Ids : i >= nextID => got[i] = Nothing)'
           /\ (ctx = "live" => \A i \in readers : pc \in Waits /\ i = nextID - 1)'
           /\ (\A i \in Ids : got[i].of = "question" => got[i].opened)'
           /\ (\A i \in Ids :
                 /\ got[i].kind = "refusal" => spoiled
                 /\ got[i].kind = "rubbish" => spoiled \/ ctx = "done"
                 /\ got[i].kind = "closed" => server \in {"dead", "reaped"})'
<1>0. /\ Numbered /\ ServerKnown /\ Settled /\ OwnAnswer /\ GoroutinesOK /\ ErrorsExplained
      /\ FileFirst
  BY DEF LspInv
<1>1. Numbered' /\ ServerKnown' /\ Settled' /\ OwnAnswer'
  BY <1>0 DEF AtThePipes, Numbered, ServerKnown, Settled, OwnAnswer
<1>2. /\ \A m, id : Placed(m, id) <=> Placed(m, id)'
      /\ \A m : ReplyPlaced(m) <=> ReplyPlaced(m)'
  BY DEF AtThePipes, Placed, GivenUp, ReplyPlaced
<1>3. /\ (\A i \in Ids : FoundOwn(i, got[i]))'
      /\ (\A i \in readers : i < nextID /\ got[i] = Nothing)'
      /\ (\A i \in Ids : i >= nextID => got[i] = Nothing)'
      /\ (ctx = "live" => \A i \in readers : pc \in Waits /\ i = nextID - 1)'
  <2>1. (\A i \in Ids : FoundOwn(i, got[i]))'
    BY <1>0, <1>2 DEF AtThePipes, GoroutinesOK, FoundOwn, Bad
  <2> QED  BY <2>1, <1>0 DEF AtThePipes, GoroutinesOK
<1>4. /\ (\A i \in Ids : got[i].of = "question" => got[i].opened)'
      /\ (\A i \in Ids :
            /\ got[i].kind = "refusal" => spoiled
            /\ got[i].kind = "rubbish" => spoiled \/ ctx = "done"
            /\ got[i].kind = "closed" => server \in {"dead", "reaped"})'
  BY <1>0 DEF AtThePipes, FileFirst, ErrorsExplained
<1> QED  BY <1>1, <1>2, <1>3, <1>4

\* The server reads a request: the file stays ahead of the question.
LEMMA ServerReadsInv ==
    ASSUME LspInv, ServerReads
    PROVE  LspInv'
<1> DEFINE r == Head(stdin)
<1>0. /\ TypeOK /\ RequestsPlaced /\ FileFirst /\ GoroutinesOK /\ ErrorsExplained
      /\ AtThePipes /\ stdin # <<>> /\ stdin' = Tail(stdin)
      /\ UNCHANGED <<stdout, spoiled>>
      /\ asked' = (IF r.id # 0 THEN asked \union {r} ELSE asked)
      /\ opened' = (opened \/ r.method = "didOpen")
  BY DEF LspInv, ServerReads, AtThePipes, clientVars
<1>1. /\ stdin \in Seq(Request) /\ Len(stdin) \in Nat /\ Len(stdin) <= Cap
      /\ Cap \in Nat /\ opened \in BOOLEAN
  BY <1>0, ConstantsOK DEF TypeOK
<1>2. /\ r = stdin[1] /\ 1 \in 1..Len(stdin) /\ r \in Request
      /\ Tail(stdin) \in Seq(Request) /\ Len(Tail(stdin)) = Len(stdin) - 1
      /\ \A k \in 1..Len(Tail(stdin)) :
           k + 1 \in 1..Len(stdin) /\ Tail(stdin)[k] = stdin[k + 1]
  <2>1. /\ r \in Request /\ Tail(stdin) \in Seq(Request)
        /\ Len(Tail(stdin)) = Len(stdin) - 1 /\ Len(stdin) > 0
        /\ \A k \in 1..Len(Tail(stdin)) : Tail(stdin)[k] = stdin[k + 1]
    BY <1>0, <1>1, HeadTailProperties, EmptySeq
  <2> QED  BY <2>1, <1>1
<1>3. /\ r.method \in Calls => r.id \in Ids /\ Placed(r.method, r.id)
      /\ r.method \notin Calls => r.id = 0
  BY <1>0, <1>2 DEF RequestsPlaced
<1>4. r.id # 0 => r \in [method : Calls, id : Ids] /\ Placed(r.method, r.id)
  BY <1>2, <1>3 DEF Request
<1> HIDE DEF r
<1>5. TypeOK'
  BY <1>0, <1>1, <1>2, <1>4 DEF TypeOK, AtThePipes
<1>6. RequestsPlaced'
  <2>1. \A m, id : Placed(m, id) <=> Placed(m, id)'
    BY <1>0, PipesKeep
  <2>2. ASSUME NEW k \in 1..Len(stdin'), NEW q, q = stdin'[k]
        PROVE  IF q.method \in Calls THEN q.id \in Ids /\ Placed(q.method, q.id)'
                                     ELSE q.id = 0
    BY <2>1, <2>2, <1>0, <1>2 DEF RequestsPlaced
  <2>3. ASSUME NEW q \in asked'
        PROVE  Placed(q.method, q.id)'
    BY <2>1, <1>0, <1>4 DEF RequestsPlaced
  <2> QED  BY <2>2, <2>3 DEF RequestsPlaced
<1>7. FileFirst'
  <2> DEFINE sent(n) == opened \/ \E j \in 1..n : stdin[j].method = "didOpen"
             sentP(n) == opened' \/ \E j \in 1..n : stdin'[j].method = "didOpen"
  <2>1. \A n \in 1..Len(stdin) : sent(n) => sentP(n - 1)
    <3>1. SUFFICES ASSUME NEW n \in 1..Len(stdin), NEW j \in 1..n,
                          stdin[j].method = "didOpen"
                   PROVE  sentP(n - 1)
      BY <1>0
    <3>2. CASE j = 1
      BY <3>1, <3>2, <1>0, <1>2
    <3>3. CASE j # 1
      <4>1. j - 1 \in 1..(n - 1) /\ j - 1 \in 1..Len(stdin') /\ stdin'[j - 1] = stdin[j]
        BY <3>3, <1>0, <1>1, <1>2
      <4> QED  BY <4>1, <3>1
    <3> QED  BY <3>2, <3>3
  <2>2. /\ pc = "question" => sent(Len(stdin))
        /\ \A k \in 1..Len(stdin) : stdin[k].method = "question" => sent(k - 1)
    BY <1>0 DEF FileFirst
  <2>3. pc' = "question" => sentP(Len(stdin'))
    <3>1. Len(stdin) \in 1..Len(stdin) /\ Len(stdin') = Len(stdin) - 1
      BY <1>0, <1>1, <1>2
    <3> QED  BY <3>1, <2>1, <2>2, <1>0 DEF AtThePipes
  <2>4. \A k \in 1..Len(stdin') : stdin'[k].method = "question" => sentP(k - 1)
    <3>1. SUFFICES ASSUME NEW k \in 1..Len(stdin'), stdin'[k].method = "question"
                   PROVE  sentP(k - 1)
      OBVIOUS
    <3>2. k + 1 \in 1..Len(stdin) /\ stdin[k + 1].method = "question" /\ k \in 1..Len(stdin)
      BY <3>1, <1>0, <1>1, <1>2
    <3>3. sent(k)
      <4>1. sent((k + 1) - 1)
        BY <3>2, <2>2
      <4> QED  BY <4>1
    <3> QED  BY <3>2, <3>3, <2>1
  <2>5. \A q \in asked' : q.method = "question" => opened'
    <3>1. r.method = "question" => opened
      <4>1. r.method = "question" => sent(1 - 1)
        BY <2>2, <1>2
      <4> QED  BY <4>1
    <3> QED  BY <3>1, <1>0 DEF FileFirst
  <2>6. (\A k \in 1..Len(stdout) : stdout[k].of = "question" => stdout[k].opened)'
    BY <1>0 DEF FileFirst
  <2>7. (\A i \in Ids : got[i].of = "question" => got[i].opened)'
    BY <1>0, PipesKeep
  <2> QED  BY <2>3, <2>4, <2>5, <2>6, <2>7 DEF FileFirst
<1>8. GoroutinesOK'
  <2>1. (\A k \in 1..Len(stdout) : ReplyPlaced(stdout[k]))'
    BY <1>0, PipesKeep DEF GoroutinesOK
  <2> QED  BY <2>1, <1>0, PipesKeep DEF GoroutinesOK
<1>9. ErrorsExplained'
  <2>1. (\A k \in 1..Len(stdout) : stdout[k].kind \in {"refusal", "rubbish"} => spoiled)'
    BY <1>0 DEF ErrorsExplained
  <2> QED  BY <2>1, <1>0, PipesKeep DEF ErrorsExplained
<1> QED  BY <1>0, <1>5, <1>6, <1>7, <1>8, <1>9, PipesKeep DEF LspInv

\* The server writes m.
LEMMA ServerWritesInv ==
    ASSUME LspInv, NEW m \in Message, ServerWrites(m),
           asked' \subseteq asked, spoiled' \in BOOLEAN, spoiled => spoiled',
           ReplyPlaced(m), m.of = "question" => m.opened,
           m.kind \in {"refusal", "rubbish"} => spoiled'
    PROVE  LspInv'
<1>0. /\ TypeOK /\ RequestsPlaced /\ FileFirst /\ GoroutinesOK /\ ErrorsExplained
      /\ AtThePipes /\ Len(stdout) < Cap /\ stdout' = Append(stdout, m)
      /\ UNCHANGED <<stdin, opened>>
  BY DEF LspInv, ServerWrites, AtThePipes, clientVars
<1>1. /\ stdout \in Seq(Message) /\ Len(stdout) \in Nat /\ Cap \in Nat
  BY <1>0, ConstantsOK DEF TypeOK
<1>2. /\ stdout' \in Seq(Message) /\ Len(stdout') = Len(stdout) + 1 /\ Len(stdout') <= Cap
      /\ \A k \in 1..Len(stdout') :
           (k \in 1..Len(stdout) /\ stdout'[k] = stdout[k]) \/ stdout'[k] = m
  BY <1>0, <1>1, AppendProperties
<1>3. TypeOK'
  BY <1>0, <1>2 DEF TypeOK, AtThePipes
<1>4. RequestsPlaced'
  <2>1. \A n, id : Placed(n, id) <=> Placed(n, id)'
    BY <1>0, PipesKeep
  <2> QED  BY <2>1, <1>0 DEF RequestsPlaced
<1>5. FileFirst'
  <2>1. (\A k \in 1..Len(stdout) : stdout[k].of = "question" => stdout[k].opened)'
    BY <1>0, <1>2 DEF FileFirst
  <2>2. (\A i \in Ids : got[i].of = "question" => got[i].opened)'
    BY <1>0, PipesKeep
  <2> QED  BY <2>1, <2>2, <1>0 DEF FileFirst, AtThePipes
<1>6. GoroutinesOK'
  <2>1. (\A k \in 1..Len(stdout) : ReplyPlaced(stdout[k]))'
    <3>1. ASSUME NEW k \in 1..Len(stdout'), NEW n, n = stdout'[k]
          PROVE  ReplyPlaced(n)'
      <4>1. ReplyPlaced(n)
        BY <3>1, <1>0, <1>2 DEF GoroutinesOK
      <4> QED  BY <4>1, <1>0, PipesKeep
    <3> QED  BY <3>1
  <2> QED  BY <2>1, <1>0, PipesKeep DEF GoroutinesOK
<1>7. ErrorsExplained'
  <2>1. (\A k \in 1..Len(stdout) : stdout[k].kind \in {"refusal", "rubbish"} => spoiled)'
    BY <1>0, <1>2 DEF ErrorsExplained
  <2> QED  BY <2>1, <1>0, PipesKeep DEF ErrorsExplained
<1> QED  BY <1>0, <1>3, <1>4, <1>5, <1>6, <1>7, PipesKeep DEF LspInv

\* What it may write: a reply to a request that it has read, or something of its own.
Writing == Answers \/ Refuses \/ Notifies \/ Requests \/ Babbles

\* Whatever it writes keeps the invariant.
LEMMA WritingInv ==
    ASSUME LspInv, Writing
    PROVE  LspInv'
<1>0. /\ TypeOK /\ RequestsPlaced /\ FileFirst
      /\ opened \in BOOLEAN /\ spoiled \in BOOLEAN
      /\ asked \subseteq [method : Calls, id : Ids]
  BY DEF LspInv, TypeOK
<1>1. ASSUME NEW kind \in {"answer", "refusal"}, NEW r \in asked,
             ServerWrites(Reply(kind, r)), asked' = asked \ {r},
             spoiled' \in BOOLEAN, spoiled => spoiled', kind = "refusal" => spoiled'
      PROVE  LspInv'
  <2> DEFINE m == Reply(kind, r)
  <2>1. /\ r \in [method : Calls, id : Ids] /\ m \in Message /\ m.kind = kind
        /\ m.id = r.id /\ m.of = r.method /\ m.opened = opened
    BY <1>0, MessagesAreTyped DEF Kinds
  <2>2. Placed(r.method, r.id) /\ (r.method = "question" => opened)
    BY <1>0 DEF RequestsPlaced, FileFirst
  <2>3. ReplyPlaced(m)
    BY <2>1, <2>2 DEF ReplyPlaced
  <2> HIDE DEF m
  <2>4. ServerWrites(m) /\ asked' \subseteq asked
    BY <1>1 DEF m
  <2> QED  BY <1>1, <2>1, <2>2, <2>3, <2>4, ServerWritesInv
<1>2. ASSUME NEW kind \in {"note", "request", "rubbish"}, NEW id \in Nat,
             kind # "request" => id = 0,
             ServerWrites(Unasked(kind, id)), asked' = asked,
             spoiled' \in BOOLEAN, spoiled => spoiled', kind = "rubbish" => spoiled'
      PROVE  LspInv'
  <2> DEFINE m == Unasked(kind, id)
  <2>1. m \in Message /\ m.kind = kind /\ m.id = id /\ m.of = "none"
    BY MessagesAreTyped DEF Kinds
  <2>2. ReplyPlaced(m)
    BY <1>2, <2>1 DEF ReplyPlaced
  <2> HIDE DEF m
  <2>3. ServerWrites(m)
    BY <1>2 DEF m
  <2> QED  BY <1>2, <2>1, <2>2, <2>3, ServerWritesInv
<1>3. CASE Answers
  BY <1>0, <1>1, <1>3 DEF Answers
<1>4. CASE Refuses
  BY <1>0, <1>1, <1>4 DEF Refuses
<1>5. CASE Notifies
  BY <1>0, <1>2, <1>5 DEF Notifies
<1>6. CASE Requests
  BY <1>0, <1>2, <1>6, ConstantsOK DEF Requests
<1>7. CASE Babbles
  BY <1>0, <1>2, <1>7 DEF Babbles
<1> QED  BY <1>3, <1>4, <1>5, <1>6, <1>7 DEF Writing

--------------------------------------------------------------------------------
(* LspClient: All steps *)

\* Nothing has happened.
LEMMA InitInv == Init => LspInv
<1> SUFFICES ASSUME Init
             PROVE  LspInv
  OBVIOUS
<1>1. \A i \in Ids : got[i] = Nothing
  BY DEF Init
<1>2. TypeOK
  <2>1. <<>> \in Seq(Request) /\ <<>> \in Seq(Message) /\ Len(<<>>) = 0
    OBVIOUS
  <2>2. got \in [Ids -> Message]
    BY MessagesAreTyped DEF Init
  <2>3. nextID \in 1..4 /\ pc \in PC /\ Len(<<>>) <= Cap
    BY <2>1, ConstantsOK DEF Init, PC
  <2> QED  BY <2>1, <2>2, <2>3 DEF Init, TypeOK
<1>3. Numbered /\ ServerKnown /\ RequestsPlaced /\ Settled /\ OwnAnswer
  BY DEF Init, Numbered, ServerKnown, Writes, Waits, Calls, RequestsPlaced, Settled, OwnAnswer
<1>4. FileFirst /\ GoroutinesOK /\ ErrorsExplained
  BY <1>1, MessagesAreTyped DEF Init, FileFirst, GoroutinesOK, FoundOwn, ErrorsExplained
<1> QED  BY <1>2, <1>3, <1>4 DEF LspInv

\* Nothing happens.
LEMMA StutterInv ==
    ASSUME LspInv, UNCHANGED vars
    PROVE  LspInv'
BY DEF LspInv, vars, clientVars, serverVars, TypeOK, Numbered, ServerKnown, RequestsPlaced,
   Placed, GivenUp, FileFirst, GoroutinesOK, ReplyPlaced, FoundOwn, Bad, ErrorsExplained,
   Settled, OwnAnswer

\* Every step keeps the invariant.
LEMMA NextInv ==
    ASSUME LspInv, [Next]_vars
    PROVE  LspInv'
<1>1. CASE Quiet
  BY <1>1, QuietControl, QuietAnswers, QuietFlight DEF LspInv
<1>2. CASE \E i \in Ids : Reader(i)
  BY <1>2, ReadInv, ReadEndsInv, TearInv DEF Reader
<1> QED  BY <1>1, <1>2, WriteInv, PanicInv, AsideInv, ServerReadsInv, WritingInv, StutterInv
         DEF Next, Command, Quiet, Aside, Writing, Server

--------------------------------------------------------------------------------
(* LspClient: Theorems *)

\* Whatever the server does, what is in flight and in goroutines left behind belongs
\* to the call it looks like.
THEOREM LspInvariance == Spec => []LspInv
<1>1. LspInv /\ [Next]_vars => LspInv'
  BY NextInv
<1> QED  BY <1>1, InitInv, PTL DEF Spec

\* Every reachable state is well typed; in particular three ids are enough.
THEOREM LspTypeCorrect == Spec => []TypeOK
<1>1. LspInv => TypeOK
  BY DEF LspInv
<1> QED  BY <1>1, LspInvariance, PTL

\* What `gg lsp' prints is the answer to its question.
THEOREM AnswersAreOwn == Spec => []OwnAnswer
<1>1. LspInv => OwnAnswer
  BY DEF LspInv
<1> QED  BY <1>1, LspInvariance, PTL

\* What makes a call fail, at each place where one can.
LEMMA FailureExplained ==
    ASSUME LspInv, [Next]_vars, outcome # "failed", outcome' = "failed"
    PROVE  spoiled' \/ ctx = "done" \/ server \in {"none", "dead"}
<1>0. /\ TypeOK /\ Numbered /\ ServerKnown /\ GoroutinesOK /\ ErrorsExplained
  BY DEF LspInv
<1>1. outcome' # outcome
  OBVIOUS
<1>2. Command
  BY <1>1 DEF Next, vars, clientVars, serverVars, Panic, CtxEnds, CtxKills, Server, ServerReads,
     Answers, Refuses, Notifies, Requests, Babbles, ServerWrites, ServerDies, HelperStarts,
     HelperEnds, Reader, Read, ReadEnds, Tear
<1>3. CASE SpawnFails
  BY <1>0, <1>3 DEF SpawnFails, ServerKnown
<1>4. CASE WriteFails \/ OpenFails \/ TimesOut
  BY <1>4 DEF WriteFails, OpenFails, TimesOut
<1>5. CASE Receive
  <2>1. /\ pc \in Waits /\ Bad(got[nextID - 1]) /\ spoiled' = spoiled
    BY <1>1, <1>5 DEF Receive, Succeeds
  <2>2. nextID - 1 \in Ids /\ server # "reaped"
    BY <1>0, <2>1 DEF Numbered, ServerKnown, Waits, Ids
  <2> QED  BY <1>0, <2>1, <2>2 DEF ErrorsExplained, Bad
<1>6. Spawn \/ Write \/ Kill \/ Reap => outcome' \in {outcome, "answer"}
  BY DEF Spawn, Write, Kill, Reap, Succeeds
<1> QED  BY <1>1, <1>2, <1>3, <1>4, <1>5, <1>6 DEF Command

\* A query fails only when the server has failed it, the file or the time has.
THEOREM FailuresHaveReasons == Spec => FailsForAReason
<1>1. LspInv /\ [Next]_vars =>
        [outcome # "failed" /\ outcome' = "failed" =>
           spoiled' \/ ctx = "done" \/ server \in {"none", "dead"}]_vars
  BY FailureExplained
<1> QED  BY <1>1, LspInvariance, PTL DEF Spec, FailsForAReason

================================================================================
