------------------------------- MODULE Plugins -------------------------------
(***************************************************************************)
(* monad-plugin and its adapter: one plugin binary on PATH, spoken to over *)
(* its stdin and stdout by unit threads that share one Client behind a     *)
(* mutex.  The plugin is any program: it may answer late, twice or not at  *)
(* all, write garbage, stop reading, exit, and leave a child of its own    *)
(* that keeps the pipe open.                                               *)
(***************************************************************************)
EXTENDS Naturals, Sequences, SequencesExt

CONSTANTS
  Callers,      \* unit threads
  Nobody,       \* the mutex is free
  MaxCalls,     \* bound on the requests
  MaxStdin,     \* requests that fit in the pipe to the plugin
  MaxInbox      \* bound on the messages in the channel from the reader

ASSUME PluginBounds == MaxCalls \in Nat \ {0} /\ MaxStdin \in Nat \ {0} /\ MaxInbox \in Nat \ {0}

VARIABLES
  client,     \* what became of Client::from_command
  holder,     \* the caller that holds SubprocessAdapter::inner
  waiting,    \* where its call is
  nextId,     \* Client::next_id, the id of the latest request
  result,     \* the outcome of the latest call of each caller
  stdin,      \* requests on their way
  taken,      \* history: requests the plugin has read
  inbox,      \* the channel from reader_loop
  reader,     \* whether reader_loop runs
  child,      \* the plugin process
  grandchild  \* whether a child of it holds the other end of stdout

pluginVars == <<client, holder, waiting, nextId, result, stdin, taken, inbox, reader, child, grandchild>>

Host    == "host"     \* the thread that loads the plugin and drops it
Threads == Callers \cup {Host}
Response(id) == [kind |-> "response", id |-> id]
Log          == [kind |-> "log", id |-> 0]
Closed       == [kind |-> "closed", id |-> 0]
-----------------------------------------------------------------------------
PluginInit ==
  /\ client = "none"
  /\ holder = Nobody
  /\ waiting = "no"
  /\ nextId = 0
  /\ result = [t \in Threads |-> "none"]
  /\ stdin = <<>> /\ taken = {}
  /\ inbox = <<>> /\ reader = FALSE
  /\ child = "none" /\ grandchild = FALSE

(* from_command: the child with two pipes, the reader thread, and the call *)
(* of `initialize`.                                                        *)
SpawnPlugin ==
  /\ client = "none"
  /\ client' = "handshake"
  /\ child' = "runs" /\ reader' = TRUE
  /\ holder' = Host /\ waiting' = "write" /\ nextId' = nextId + 1
  /\ UNCHANGED <<result, stdin, taken, inbox, grandchild>>

(* SubprocessAdapter::call: the mutex, then Client::call takes an id. *)
CallPlugin(t) ==
  /\ client = "loaded"
  /\ holder = Nobody
  /\ nextId < MaxCalls
  /\ holder' = t /\ waiting' = "write" /\ nextId' = nextId + 1
  /\ result' = [result EXCEPT ![t] = "none"]
  /\ UNCHANGED <<client, stdin, taken, inbox, reader, child, grandchild>>

(* The call returns and the mutex is free. *)
Return(outcome) ==
  /\ result' = [result EXCEPT ![holder] = outcome]
  /\ holder' = Nobody /\ waiting' = "no"
  /\ client' = IF holder # Host       THEN client
               ELSE IF outcome = "ok" THEN "loaded"
               ELSE                        "dropping"

(* write_message: it blocks while the pipe is full, and fails once the     *)
(* plugin is gone.                                                         *)
WriteRequest ==
  /\ waiting = "write"
  /\ \/ /\ child = "dead"
        /\ Return("err")
        /\ UNCHANGED stdin
     \/ /\ child # "dead" /\ Len(stdin) < MaxStdin
        /\ stdin' = Append(stdin, nextId)
        /\ waiting' = "answer"
        /\ UNCHANGED <<client, holder, result>>
  /\ UNCHANGED <<nextId, taken, inbox, reader, child, grandchild>>

\* Mutant: the next response is taken for the answer.
Matches_Any(id) == TRUE

Matches(id) == id = nextId

(* A response to the request: a result, an error of the plugin, or a value *)
(* of another shape; and for `initialize`, a manifest of another version   *)
(* or another adapter, for which the child is killed.                      *)
Answered ==
  \/ Return(IF Head(inbox).id = nextId THEN "ok" ELSE "stale") /\ UNCHANGED child
  \/ Return("err") /\ child' \in IF holder = Host THEN {child, "dead"} ELSE {child}

(* One turn of the loop in Client::call. *)
ReceiveMessage ==
  /\ waiting = "answer" /\ inbox # <<>>
  /\ inbox' = Tail(inbox)
  /\ LET msg == Head(inbox) IN
       \/ msg.kind = "log" /\ UNCHANGED <<client, holder, waiting, result, child>>
       \/ msg.kind = "response" /\ Matches(msg.id) /\ Answered
       \/ msg.kind = "response" /\ ~ Matches(msg.id) /\ child' = "dead" /\ Return("err")
       \/ msg.kind = "closed" /\ Return("err") /\ UNCHANGED child
  /\ UNCHANGED <<nextId, stdin, taken, reader, grandchild>>

(* RecvTimeoutError::Disconnected: the reader has ended and said so before. *)
Disconnected ==
  /\ waiting = "answer" /\ inbox = <<>> /\ ~ reader
  /\ Return("err")
  /\ UNCHANGED <<nextId, stdin, taken, inbox, reader, child, grandchild>>

\* Mutant: every message starts the deadline again.
TimeoutCall_WhenQuiet ==
  /\ waiting = "answer" /\ inbox = <<>>
  /\ child' = "dead"
  /\ Return("timeout")
  /\ UNCHANGED <<nextId, stdin, taken, inbox, reader, grandchild>>

(* The deadline, which an answer may race, kills the child. *)
TimeoutCall ==
  /\ waiting = "answer"
  /\ child' = "dead"
  /\ Return("timeout")
  /\ UNCHANGED <<nextId, stdin, taken, inbox, reader, grandchild>>

Send(msg) == Len(inbox) < MaxInbox /\ inbox' = Append(inbox, msg)

(* The plugin reads a request, unless it has stopped to. *)
PluginReads ==
  /\ child = "runs" /\ stdin # <<>>
  /\ taken' = taken \cup {Head(stdin)} /\ stdin' = Tail(stdin)
  /\ UNCHANGED <<client, holder, waiting, nextId, result, inbox, reader, child, grandchild>>

(* It writes: an answer to anything it has read, also a second one, or a   *)
(* notification; reader_loop passes it on.                                 *)
PluginWrites ==
  /\ child \in {"runs", "stuck"} /\ reader
  /\ \/ Send(Log)
     \/ \E id \in taken : Send(Response(id))
  /\ UNCHANGED <<client, holder, waiting, nextId, result, stdin, taken, reader, child, grandchild>>

(* reader_loop ends: at a frame or a body that does not parse, or at the   *)
(* end of the stream, when all that had it open are gone.                  *)
ReaderEnds ==
  /\ reader
  /\ child \in {"runs", "stuck"} \/ ~ grandchild
  /\ reader' = FALSE
  /\ inbox' = Append(inbox, Closed)
  /\ UNCHANGED <<client, holder, waiting, nextId, result, stdin, taken, child, grandchild>>

(* The plugin stops to read, starts a process of its own, or exits. *)
PluginMisbehaves ==
  /\ \/ child = "runs" /\ child' = "stuck" /\ UNCHANGED grandchild
     \/ child = "runs" /\ ~ grandchild /\ grandchild' = TRUE /\ UNCHANGED child
     \/ child \in {"runs", "stuck"} /\ child' = "dead" /\ UNCHANGED grandchild
  /\ UNCHANGED <<client, holder, waiting, nextId, result, stdin, taken, inbox, reader>>

GrandchildExits ==
  /\ grandchild /\ child = "dead" /\ grandchild' = FALSE
  /\ UNCHANGED <<client, holder, waiting, nextId, result, stdin, taken, inbox, reader, child>>

(* The invocation is over, the registry is dropped. *)
DropRegistry ==
  /\ client = "loaded" /\ holder = Nobody
  /\ client' = "dropping"
  /\ UNCHANGED <<holder, waiting, nextId, result, stdin, taken, inbox, reader, child, grandchild>>

(* Drop for Client: kill and wait, then join the reader ... *)
KillDropped ==
  /\ client = "dropping" /\ child # "dead"
  /\ child' = "dead"
  /\ UNCHANGED <<client, holder, waiting, nextId, result, stdin, taken, inbox, reader, grandchild>>

(* ... which ends when the stream does. *)
JoinReader ==
  /\ client = "dropping" /\ child = "dead" /\ ~ reader
  /\ client' = "gone"
  /\ UNCHANGED <<holder, waiting, nextId, result, stdin, taken, inbox, reader, child, grandchild>>

ClientStep == WriteRequest \/ ReceiveMessage \/ Disconnected \/ KillDropped \/ JoinReader

PluginNext ==
  \/ SpawnPlugin \/ \E t \in Callers : CallPlugin(t)
  \/ ClientStep \/ TimeoutCall \/ DropRegistry
  \/ PluginReads \/ PluginWrites \/ ReaderEnds \/ PluginMisbehaves \/ GrandchildExits

PluginSpec == PluginInit /\ [][PluginNext]_pluginVars
-----------------------------------------------------------------------------
PluginTypeOK ==
  /\ client \in {"none", "handshake", "loaded", "dropping", "gone"}
  /\ holder \in Threads \cup {Nobody} /\ waiting \in {"no", "write", "answer"}
  /\ nextId \in 0..MaxCalls
  /\ result \in [Threads -> {"none", "ok", "stale", "err", "timeout"}]
  /\ stdin \in Seq(1..MaxCalls) /\ taken \subseteq 1..MaxCalls
  /\ inbox \in Seq([kind : {"response", "log", "closed"}, id : 0..MaxCalls])
  /\ reader \in BOOLEAN /\ child \in {"none", "runs", "stuck", "dead"} /\ grandchild \in BOOLEAN

(* Client::call: a result is the answer to the caller's own request, never *)
(* a late or a second answer to an earlier one; a client that gave up on a *)
(* plugin is never served by it again; and once the client is gone, the    *)
(* plugin's process and the reader thread are.                             *)
AnswersAreOwn ==
  /\ \A t \in Threads : result[t] # "stale"
  /\ (\E t \in Threads : result[t] = "timeout") => child = "dead"
  /\ client = "gone" => child = "dead" /\ ~ reader

(* A call that has been written returns whatever the plugin does, and the  *)
(* client can be dropped, but while a process the plugin has left behind   *)
(* keeps its stdout open: Drop joins the reader and has no deadline.       *)
PluginCallEnds ==
  /\ waiting = "answer" ~> waiting # "answer"
  /\ client = "dropping" ~> (client = "gone" \/ []grandchild)
=============================================================================
