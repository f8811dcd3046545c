----------------------------- MODULE LspInvariant ------------------------------
(***************************************************************************)
(* An inductive invariant of LspClient.  What a command prints depends on  *)
(* everything that is in the two pipes, in the server and in goroutines    *)
(* that were left behind: the parts say which call a message in flight may *)
(* belong to, that the file is always ahead of the question, and what must *)
(* have happened for a call to find an error.                              *)
(***************************************************************************)
EXTENDS LspClient

\* The id of the next call, at each point of a command: the shutdown is the third
\* call, or the second when the question was never asked.
Numbered ==
    CASE pc \in {"dial", "initialize"} -> nextID = 1
      [] pc \in {"initializing", "initialized", "didOpen", "question"} -> nextID = 2
      [] pc = "asking" -> nextID = 3
      [] pc = "shutdown" -> nextID \in {2, 3}
      [] pc = "closing" -> nextID \in {3, 4}
      [] OTHER -> nextID \in 1..4

\* The server runs, or has run, whenever the command deals with it.
ServerKnown ==
    /\ pc = "dial" => server = "none"
    /\ pc \in Writes \union Waits \union {"kill"} => server \in {"up", "dead"}
    /\ server = "reaped" => pc = "returned"

\* A shutdown may have the question's id only after the command has given up on it.
GivenUp == pc \in {"closing", "exit", "kill", "reap", "returned", "crashed"}

\* Which id a call of method m may have got.
Placed(m, id) ==
    /\ id < nextID
    /\ m = "initialize" => id = 1
    /\ m = "question" => id = 2
    /\ m = "shutdown" => id \in {2, 3} /\ (id = 2 => GivenUp)

\* Requests keep the id of their call on the way to the server ...
RequestsPlaced ==
    /\ \A k \in 1..Len(stdin) :
          IF stdin[k].method \in Calls
          THEN stdin[k].id \in Ids /\ Placed(stdin[k].method, stdin[k].id)
          ELSE stdin[k].id = 0
    /\ \A r \in asked : Placed(r.method, r.id)

\* ... and so do the replies, which are all that is marked with a method.
ReplyPlaced(m) ==
    /\ m.kind \in {"answer", "refusal"} => m.of \in Calls /\ Placed(m.of, m.id)
    /\ m.kind \in {"note", "request", "rubbish"} => m.of = "none"
    /\ m.kind \in {"note", "rubbish"} => m.id = 0
    /\ m.kind \notin {"closed", "nothing"}

\* What the goroutine of call i may have found.
FoundOwn(i, m) ==
    \/ m = Nothing
    \/ Bad(m)
    \/ m.kind \in {"answer", "request"} /\ m.id = i /\ ReplyPlaced(m)

\* The file is ahead of the question: in the pipe, in the server, in the replies.
FileFirst ==
    LET sent(n) == opened \/ \E j \in 1..n : stdin[j].method = "didOpen"
    IN  /\ pc = "question" => sent(Len(stdin))
        /\ \A k \in 1..Len(stdin) : stdin[k].method = "question" => sent(k - 1)
        /\ \A r \in asked : r.method = "question" => opened
        /\ \A k \in 1..Len(stdout) : stdout[k].of = "question" => stdout[k].opened
        /\ \A i \in Ids : got[i].of = "question" => got[i].opened

\* The output of a goroutine, and when there can be two of them: only a call that
\* was given up in time leaves one behind.
GoroutinesOK ==
    /\ \A k \in 1..Len(stdout) : ReplyPlaced(stdout[k])
    /\ \A i \in Ids : FoundOwn(i, got[i])
    /\ \A i \in readers : i < nextID /\ got[i] = Nothing
    /\ \A i \in Ids : i >= nextID => got[i] = Nothing
    /\ ctx = "live" => \A i \in readers : pc \in Waits /\ i = nextID - 1

\* Whatever is an error has its reason.
ErrorsExplained ==
    /\ \A k \in 1..Len(stdout) : stdout[k].kind \in {"refusal", "rubbish"} => spoiled
    /\ \A i \in Ids :
        /\ got[i].kind = "refusal" => spoiled
        /\ got[i].kind = "rubbish" => spoiled \/ ctx = "done"
        /\ got[i].kind = "closed" => server \in {"dead", "reaped"}

\* An answer was the question's, and stays what was found.
Settled == outcome = "answer" => nextID >= 3 /\ 2 \notin readers

LspInv ==
    /\ TypeOK
    /\ Numbered /\ ServerKnown
    /\ RequestsPlaced /\ FileFirst
    /\ GoroutinesOK /\ ErrorsExplained
    /\ Settled /\ OwnAnswer

================================================================================
