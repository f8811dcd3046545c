------------------------------- MODULE LspClient --------------------------------
(***************************************************************************)
(* One `gg lsp' command and the language server it spawns                  *)
(* (internal/lsp/client.go, query.go): spawn, handshake, open the file,    *)
(* ask one question, shut down.  Client and server talk through two pipes  *)
(* of bounded size.  Each call starts a goroutine that reads the server's  *)
(* output until it finds its answer; a call that times out leaves its      *)
(* goroutine behind, so the next call's may read the same stream.          *)
(*                                                                         *)
(* The server is another program: it may answer in any order, late or      *)
(* never, send notifications and requests of its own, write rubbish, fill  *)
(* its pipe, die, and start helpers that keep its stderr open.             *)
(***************************************************************************)
EXTENDS Naturals, Sequences, FiniteSets

CONSTANTS
    ServerIds,  \* the ids of the server's own requests
    Cap         \* bound: how many messages a pipe holds

ASSUME ConstantsOK ==
    /\ ServerIds \subseteq Nat \ {0}
    /\ Cap \in Nat \ {0}

VARIABLES
    pc,         \* what the command does next
    nextID,     \* the id of the next call
    readers,    \* the calls whose goroutine is still reading
    got,        \* got[i]: what the goroutine of call i has found
    outcome,    \* what Query will return
    ctx,        \* the timeout of 15 s
    server,     \* the child process
    helper,     \* a process started by the server keeps its stderr open
    stdin,      \* the pipe to the server
    stdout,     \* the pipe from the server
    asked,      \* the requests that the server has read and not answered
    opened,     \* the server has read the didOpen
    spoiled     \* auxiliary: the server has refused something or written rubbish,
                \* or the file cannot be read

clientVars == <<pc, nextID, outcome>>
serverVars == <<helper, asked, opened>>
vars == <<clientVars, readers, got, ctx, server, serverVars, stdin, stdout, spoiled>>

--------------------------------------------------------------------------------
(* Data *)

\* A command writes at one of the Writes, which it names by the method; those that
\* are Calls get an id and are waited for at one of the Waits.
Calls  == {"initialize", "question", "shutdown"}
Writes == Calls \union {"initialized", "didOpen", "exit"}
Waits  == {"initializing", "asking", "closing"}
PC     == Writes \union Waits \union {"dial", "kill", "reap", "returned", "crashed"}

\* A command makes three calls at most.
Ids == 1..3

\* id 0: a notification.
Request == [method : Writes, id : 0..3]

\* of: the method that an answer is for; opened: the server knew the file then.
\* "closed": the stream has ended; "nothing": still reading.
Kinds   == {"answer", "refusal", "note", "request", "rubbish", "closed", "nothing"}
Message == [kind : Kinds, id : Nat, of : Calls \union {"none"}, opened : BOOLEAN]

Unasked(kind, id) == [kind |-> kind, id |-> id, of |-> "none", opened |-> FALSE]
Reply(kind, r) == [kind |-> kind, id |-> r.id, of |-> r.method, opened |-> opened]

Nothing == Unasked("nothing", 0)

TypeOK ==
    /\ pc \in PC
    /\ nextID \in 1..4
    /\ readers \in SUBSET Ids
    /\ got \in [Ids -> Message]
    /\ outcome \in {"none", "answer", "failed"}
    /\ ctx \in {"live", "done"}
    /\ server \in {"none", "up", "dead", "reaped"}
    /\ stdin \in Seq(Request) /\ Len(stdin) <= Cap
    /\ stdout \in Seq(Message) /\ Len(stdout) <= Cap
    /\ asked \in SUBSET [method : Calls, id : Ids]
    /\ {helper, opened, spoiled} \subseteq BOOLEAN

--------------------------------------------------------------------------------
(* The command *)

\* Query when all goes well: the handshake, the file, the question, the answer,
\* and the deferred Close.
Then == [initialize   |-> "initializing", initializing |-> "initialized",
         initialized  |-> "didOpen",      didOpen      |-> "question",
         question     |-> "asking",       asking       |-> "shutdown",
         shutdown     |-> "closing",      closing      |-> "exit",
         exit         |-> "kill"]

\* After an error: Dial kills at once, OpenFile and the question leave it to Close,
\* and Close ignores its own.
Else == [initialize   |-> "kill",         initializing |-> "kill",
         initialized  |-> "kill",         didOpen      |-> "shutdown",
         question     |-> "shutdown",     asking       |-> "shutdown",
         shutdown     |-> "exit",         closing      |-> "exit",
         exit         |-> "kill"]

Succeeds ==
    /\ pc' = Then[pc]
    /\ outcome' = IF pc = "asking" THEN "answer" ELSE outcome

Fails ==
    /\ pc' = Else[pc]
    /\ outcome' = IF outcome = "none" THEN "failed" ELSE outcome

\* Notifications are numbered too.
TakeId_Always == nextID' = nextID + 1

\* call takes the next id; notify does not.
TakeId == nextID' = IF pc \in Calls THEN nextID + 1 ELSE nextID

Spawn ==
    /\ pc = "dial"
    /\ ctx = "live"
    /\ server' = "up"
    /\ pc' = "initialize"
    /\ UNCHANGED <<nextID, outcome, readers, got, ctx, serverVars, stdin, stdout, spoiled>>

\* The server is not installed, or does not start in time.
SpawnFails ==
    /\ pc = "dial"
    /\ pc' = "returned"
    /\ outcome' = "failed"
    /\ UNCHANGED <<nextID, readers, got, ctx, server, serverVars, stdin, stdout, spoiled>>

\* The write of call and of notify; it blocks while the pipe is full.
Write ==
    /\ pc \in Writes
    /\ server = "up"
    /\ Len(stdin) < Cap
    /\ stdin' = Append(stdin, [method |-> pc, id |-> IF pc \in Calls THEN nextID ELSE 0])
    /\ TakeId
    /\ readers' = IF pc \in Calls THEN readers \union {nextID} ELSE readers
    /\ Succeeds
    /\ UNCHANGED <<got, ctx, server, serverVars, stdout, spoiled>>

\* Nobody reads the pipe any more.
WriteFails ==
    /\ pc \in Writes
    /\ server = "dead"
    /\ TakeId
    /\ Fails
    /\ UNCHANGED <<readers, got, ctx, server, serverVars, stdin, stdout, spoiled>>

\* OpenFile cannot read the file.
OpenFails ==
    /\ pc = "didOpen"
    /\ spoiled' = TRUE
    /\ Fails
    /\ UNCHANGED <<nextID, readers, got, ctx, server, serverVars, stdin, stdout>>

\* Whether what a goroutine has found is an error.
Bad(m) == m.kind \in {"refusal", "rubbish", "closed"}

\* The goroutine of the call is done.
Receive ==
    /\ pc \in Waits
    /\ LET m == got[nextID - 1]
       IN  /\ m # Nothing
           /\ IF Bad(m) THEN Fails ELSE Succeeds
    /\ UNCHANGED <<nextID, readers, got, ctx, server, serverVars, stdin, stdout, spoiled>>

\* The wait for an answer looks once and goes on.
TimesOut_AtOnce ==
    /\ pc \in Waits
    /\ got[nextID - 1] = Nothing
    /\ Fails
    /\ UNCHANGED <<nextID, readers, got, ctx, server, serverVars, stdin, stdout, spoiled>>

TimesOut ==
    /\ pc \in Waits
    /\ ctx = "done"
    /\ Fails
    /\ UNCHANGED <<nextID, readers, got, ctx, server, serverVars, stdin, stdout, spoiled>>

\* Process.Kill, if the server has not gone by itself.
Kill ==
    /\ pc = "kill"
    /\ server' = "dead"
    /\ pc' = "reap"
    /\ UNCHANGED <<nextID, outcome, readers, got, ctx, serverVars, stdin, stdout, spoiled>>

\* cmd.Wait returns when the server is gone and its stderr has been copied to the
\* end, which is when the last process that has it open closes it.
Reap ==
    /\ pc = "reap"
    /\ ~helper
    /\ server' = "reaped"
    /\ pc' = "returned"
    /\ UNCHANGED <<nextID, outcome, readers, got, ctx, serverVars, stdin, stdout, spoiled>>

Command == \/ Spawn \/ SpawnFails \/ Write \/ WriteFails \/ OpenFails \/ Receive
           \/ TimesOut \/ Kill \/ Reap

--------------------------------------------------------------------------------
(* The goroutines of the calls *)

\* Only notifications are passed over.
Skips_NotesOnly(i, m) == m.kind = "note"

\* What awaitResponse passes over: notifications and other ids.  Whether a message
\* has a method is not asked.
Skips(i, m) == m.kind # "rubbish" /\ m.id # i

\* The goroutine of call i ends with m.
Finds(i, m) ==
    /\ got' = [got EXCEPT ![i] = m]
    /\ readers' = readers \ {i}

Read(i) ==
    /\ i \in readers
    /\ stdout # <<>>
    /\ stdout' = Tail(stdout)
    /\ IF Skips(i, Head(stdout))
       THEN UNCHANGED <<readers, got>>
       ELSE Finds(i, Head(stdout))
    /\ UNCHANGED <<clientVars, ctx, server, serverVars, stdin, spoiled>>

\* The server is gone, or Wait has closed the pipe.
ReadEnds(i) ==
    /\ i \in readers
    /\ \/ stdout = <<>> /\ server = "dead"
       \/ server = "reaped"
    /\ Finds(i, Unasked("closed", 0))
    /\ UNCHANGED <<clientVars, ctx, server, serverVars, stdin, stdout, spoiled>>

\* Two goroutines share one buffered reader without a lock: what one takes the other
\* may miss, and either may find the buffer in a state that is not the other's ...
Tear(i) ==
    /\ i \in readers
    /\ Cardinality(readers) > 1
    /\ stdout # <<>>
    /\ stdout' = Tail(stdout)
    /\ Finds(i, Unasked("rubbish", 0))
    /\ UNCHANGED <<clientVars, ctx, server, serverVars, stdin, spoiled>>

\* ... or index it out of its bounds, which ends the command.
Panic ==
    /\ pc \notin {"returned", "crashed"}
    /\ Cardinality(readers) > 1
    /\ stdout # <<>>
    /\ pc' = "crashed"
    /\ readers' = {}
    /\ UNCHANGED <<nextID, outcome, got, ctx, server, serverVars, stdin, stdout, spoiled>>

Reader(i) == Read(i) \/ ReadEnds(i) \/ Tear(i)

--------------------------------------------------------------------------------
(* The timeout *)

\* 15 s, or the caller's context.
CtxEnds ==
    /\ ctx = "live"
    /\ pc \notin {"returned", "crashed"}
    /\ ctx' = "done"
    /\ UNCHANGED <<clientVars, readers, got, server, serverVars, stdin, stdout, spoiled>>

\* The server is started with exec.Command.
CtxKills_Never == FALSE /\ UNCHANGED vars

\* exec.CommandContext kills the server when the context is done.
CtxKills ==
    /\ ctx = "done"
    /\ server = "up"
    /\ pc # "crashed"
    /\ server' = "dead"
    /\ UNCHANGED <<clientVars, readers, got, ctx, serverVars, stdin, stdout, spoiled>>

--------------------------------------------------------------------------------
(* The server *)

ServerReads ==
    /\ server = "up"
    /\ stdin # <<>>
    /\ LET r == Head(stdin)
       IN  /\ asked' = IF r.id # 0 THEN asked \union {r} ELSE asked
           /\ opened' = (opened \/ r.method = "didOpen")
    /\ stdin' = Tail(stdin)
    /\ UNCHANGED <<clientVars, readers, got, ctx, server, helper, stdout, spoiled>>

ServerWrites(m) ==
    /\ server = "up"
    /\ Len(stdout) < Cap
    /\ stdout' = Append(stdout, m)
    /\ UNCHANGED <<clientVars, readers, got, ctx, server, helper, opened, stdin>>

Answers ==
    \E r \in asked :
        /\ ServerWrites(Reply("answer", r))
        /\ asked' = asked \ {r}
        /\ UNCHANGED spoiled

\* An error, or a result that cannot be decoded.
Refuses ==
    \E r \in asked :
        /\ ServerWrites(Reply("refusal", r))
        /\ asked' = asked \ {r}
        /\ spoiled' = TRUE

Notifies == ServerWrites(Unasked("note", 0)) /\ UNCHANGED <<asked, spoiled>>

Requests ==
    \E i \in ServerIds : ServerWrites(Unasked("request", i)) /\ UNCHANGED <<asked, spoiled>>

Babbles ==
    /\ ServerWrites(Unasked("rubbish", 0))
    /\ spoiled' = TRUE
    /\ UNCHANGED asked

\* Of itself, or because its stdin is closed.
ServerDies ==
    /\ server = "up"
    /\ server' = "dead"
    /\ UNCHANGED <<clientVars, readers, got, ctx, serverVars, stdin, stdout, spoiled>>

HelperStarts ==
    /\ server = "up"
    /\ helper' = TRUE
    /\ UNCHANGED <<clientVars, readers, got, ctx, server, asked, opened, stdin, stdout,
                   spoiled>>

HelperEnds ==
    /\ helper
    /\ helper' = FALSE
    /\ UNCHANGED <<clientVars, readers, got, ctx, server, asked, opened, stdin, stdout,
                   spoiled>>

Server == \/ ServerReads \/ Answers \/ Refuses \/ Notifies \/ Requests \/ Babbles
          \/ ServerDies \/ HelperStarts \/ HelperEnds

--------------------------------------------------------------------------------

Init ==
    /\ pc = "dial"
    /\ nextID = 1
    /\ readers = {}
    /\ got = [i \in Ids |-> Nothing]
    /\ outcome = "none"
    /\ ctx = "live"
    /\ server = "none"
    /\ helper = FALSE
    /\ stdin = <<>>
    /\ stdout = <<>>
    /\ asked = {}
    /\ opened = FALSE
    /\ spoiled = FALSE

Next == \/ Command \/ Panic \/ CtxEnds \/ CtxKills \/ Server
        \/ \E i \in Ids : Reader(i)

Spec == Init /\ [][Next]_vars

\* The command and its goroutines are scheduled, and the timeout strikes.  Of the
\* server nothing is assumed.
FairSpec ==
    /\ Spec
    /\ WF_vars(Command)
    /\ WF_vars(CtxEnds)
    /\ WF_vars(CtxKills)
    /\ \A i \in Ids : WF_vars(Reader(i))

--------------------------------------------------------------------------------
(* Properties *)

\* What `gg lsp' prints is the server's answer to the question, given when it had the
\* file (didOpen is REQUIRED before it, client.go:94): not the answer to another call,
\* not a notification.  The exception is a request of the server's own under the
\* question's id, which is taken for an empty answer although awaitResponse means to
\* skip what has a method (client.go:232).
OwnAnswer ==
    outcome = "answer" =>
        \/ got[2].kind = "answer" /\ got[2].of = "question" /\ got[2].opened
        \/ got[2].kind = "request" /\ got[2].id = 2

\* A query fails for a reason: the server could not be started or has died, has
\* refused or written rubbish, the file cannot be read, or time is up.  In
\* particular nothing that a server may send besides its answers makes it fail.
FailsForAReason ==
    [][outcome # "failed" /\ outcome' = "failed" =>
        spoiled' \/ ctx = "done" \/ server \in {"none", "dead"}]_vars

Ended == pc = "crashed" \/ (pc = "returned" /\ readers = {} /\ server \in {"none", "reaped"})

\* However the server behaves - it may stop reading, fill its pipe, never answer -
\* the command ends, and neither the server nor a goroutine outlives it, provided
\* that what the server has started lets go of its stderr in the end (Close: no
\* server outlives the command).  A panic of two goroutines on one reader is an
\* end too, and then the server is not waited for.
CommandEnds == <>[]~helper => <>[]Ended

================================================================================
