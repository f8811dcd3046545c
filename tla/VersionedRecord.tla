---------------------------- MODULE VersionedRecord ----------------------------
(***************************************************************************)
(* What internal/brain promises the commands above it, with the JSONL      *)
(* files, the flock, the vector store and the outbox hidden: a record has  *)
(* one current payload; it appears once; and every mutation that reports   *)
(* success is applied exactly once, on top of the payload that was current *)
(* at that moment.                                                         *)
(*                                                                         *)
(* A payload is abstracted to the set of edits it contains and its integer *)
(* "version" field.  BrainStore is shown to implement this specification.  *)
(***************************************************************************)
EXTENDS Integers

CONSTANTS Records,   \* the uuids of the records of one kind
          Edit       \* the mutations commands may ask for

VARIABLE current     \* current[r]: whether r exists, and its payload

Absent == [present |-> FALSE, line |-> [version |-> 0, edits |-> {}]]

\* A record written before versioning has version 0 and no edit yet.
Legacy == [present |-> TRUE, line |-> [version |-> 0, edits |-> {}]]

Init == current \in [Records -> {Absent, Legacy}]

\* A create command: the record starts at version 1.
Create(r) ==
    /\ ~current[r].present
    /\ current' = [current EXCEPT
                     ![r] = [present |-> TRUE,
                             line |-> [version |-> 1, edits |-> {}]]]

\* A mutation that succeeds: one new edit, on top of all the earlier ones.
Commit(r, e) ==
    /\ current[r].present
    /\ e \notin current[r].line.edits
    /\ current' = [current EXCEPT
                     ![r] = [present |-> TRUE,
                             line |-> [version |-> @.line.version + 1,
                                       edits   |-> @.line.edits \union {e}]]]

Next == \E r \in Records : Create(r) \/ \E e \in Edit : Commit(r, e)

Spec == Init /\ [][Next]_current

================================================================================
