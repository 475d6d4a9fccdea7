----------------------------- MODULE McpClient -----------------------------
(***************************************************************************)
(* MCPClient (core/mcp/client.py) over the stdio transport: the server's   *)
(* process, the task that reads its stdout, the requests that await their  *)
(* answers, the loop that reconnects and disconnect().  A reader looks up  *)
(* _process again for every line, so it can go over to a later process.    *)
(*                                                                         *)
(* Request ids are never used twice, and an answer without an entry in     *)
(* _pending_requests is dropped; so an entry is named by who waits for it, *)
(* who has at most one.  The flush of stdin is part of the wait, and a     *)
(* broken pipe is an early timeout.  What tools, resources and prompts the *)
(* server has is left out, and so are the HTTP transports; disconnect() is *)
(* not called again while it runs.                                         *)
(***************************************************************************)
EXTENDS Integers, FiniteSets

CONSTANTS
  MaxReconnects,  \* _DEFAULT_MAX_RETRIES
  MaxUsers,       \* bound: requests of users under way at the same time
  MaxProcesses,   \* bound: processes started
  MaxLoops        \* bound: _auto_reconnect tasks alive at the same time

ASSUME ClientAssumption == /\ MaxReconnects \in Nat \ {0}
                            /\ {MaxUsers, MaxProcesses, MaxLoops} \subseteq Nat

Processes == 1..MaxProcesses
Readers == {"reader"} \X Processes    \* the n-th connection starts the n-th reader
Loops == {"loop"} \X (1..MaxLoops)
Users == {"user"} \X (1..MaxUsers)    \* calls of connect, list_tools, call_tool, health_check, ...
Waiters == Readers \union Loops \union Users

VARIABLES
  connected,   \* _connected
  process,     \* _process, or 0
  running,     \* the processes that run
  spawned,     \* how many were started
  readers,     \* the _read_stdout tasks
  loops,       \* the _auto_reconnect tasks
  reconnect,   \* _reconnect_task, or NoLoop
  awaiting,    \* the entries of _pending_requests
  closing,     \* the disconnect() call
  crossed      \* history: the last process was started while disconnect() waited

clientVars == <<connected, process, running, spawned, crossed, readers, loops, reconnect, awaiting, closing>>

NoLoop == <<"loop", 0>>
NoRequest == [future |-> "none", to |-> 0]
NoTask == [pc |-> "ended", retries |-> 0, left |-> 0]
ReaderState == [pc : {"none", "new", "reading", "handling", "ended"}, on : 0..MaxProcesses]
NotClosing == [pc |-> "open", on |-> 0]

\* The future of a request is pending, has a result or an exception (answered,
\* refused), or was cancelled, because its time is over or because the task
\* awaiting it was cancelled (expired, abandoned).  An entry with a cancelled
\* future stays until its waiter goes on, in the last case for good; to is 0
\* when there is no entry any more.
ClientTypeOK ==
  /\ connected \in BOOLEAN
  /\ process \in 0..MaxProcesses /\ spawned \in 0..MaxProcesses
  /\ running \subseteq Processes
  /\ readers \in [Readers -> ReaderState]
  /\ loops \in [Loops -> [pc : {"ended", "new", "sleep", "connect", "list", "cancelled"},
                          retries : 0..MaxReconnects, left : 0..3]]
  /\ reconnect \in Loops \union {NoLoop}
  /\ awaiting \in [Waiters -> [future : {"none", "pending", "answered", "refused", "expired", "abandoned"},
                                to : 0..MaxProcesses]]
  /\ closing \in [pc : {"open", "joining", "joined", "killing"}, on : 0..MaxProcesses]
  /\ crossed \in BOOLEAN

ClientInit ==
  /\ connected = FALSE /\ process = 0 /\ running = {} /\ spawned = 0
  /\ readers = [r \in Readers |-> [pc |-> "none", on |-> 0]]
  /\ loops = [k \in Loops |-> NoTask]
  /\ reconnect = NoLoop
  /\ awaiting = [w \in Waiters |-> NoRequest]
  /\ closing = NotClosing /\ crossed = FALSE

-----------------------------------------------------------------------------
(* Connecting and requests. *)

Pending(w) == awaiting[w].future = "pending"
Raises(w) == awaiting[w].future \in {"refused", "expired"}
Asks(w, p) == [awaiting EXCEPT ![w] = [future |-> "pending", to |-> p]]
Settles(w, outcome) == [awaiting EXCEPT ![w] = [future |-> outcome, to |-> 0]]
Forgets(w) == [awaiting EXCEPT ![w] = NoRequest]

\* _connect_stdio up to the answer to initialize.
ConnectStdio(w) ==
  LET p == spawned + 1 IN
  /\ spawned < MaxProcesses
  /\ spawned' = p /\ process' = p /\ running' = running \union {p}
  /\ connected' = TRUE
  /\ crossed' = (closing # NotClosing)
  /\ readers' = [readers EXCEPT ![<<"reader", p>>] = [pc |-> "new", on |-> 0]]
  /\ awaiting' = Asks(w, p)

\* start_server() connects a new client.
Connect(u) ==
  /\ spawned = 0
  /\ ConnectStdio(u)
  /\ UNCHANGED <<loops, reconnect, closing>>

\* Any other request of a user.
SendRequest(u) ==
  /\ connected /\ process # 0
  /\ awaiting[u] = NoRequest
  /\ awaiting' = Asks(u, process)
  /\ UNCHANGED <<connected, process, running, spawned, crossed, readers, loops, reconnect, closing>>

\* Thirty seconds are over: wait_for cancels the future.
RequestExpires(w) ==
  /\ Pending(w)
  /\ awaiting' = [awaiting EXCEPT ![w].future = "expired"]
  /\ UNCHANGED <<connected, process, running, spawned, crossed, readers, loops, reconnect, closing>>

\* The task of the user is cancelled, as the monitor's is during a ping.
UserCancelled(u) ==
  /\ Pending(u)
  /\ awaiting' = [awaiting EXCEPT ![u].future = "abandoned"]
  /\ UNCHANGED <<connected, process, running, spawned, crossed, readers, loops, reconnect, closing>>

\* A user's request raises TimeoutError.
UserRaises(u) ==
  /\ Raises(u)
  /\ awaiting' = Forgets(u)
  /\ UNCHANGED <<connected, process, running, spawned, crossed, readers, loops, reconnect, closing>>

-----------------------------------------------------------------------------
(* The readers. *)

\* The end of _read_stdout.
ReaderLeavesConnected(r) ==
  /\ readers' = [readers EXCEPT ![r].pc = "ended"]
  /\ connected' = connected
  /\ UNCHANGED <<reconnect, loops>>

ReaderLeaves(r) ==
  /\ readers' = [readers EXCEPT ![r].pc = "ended"]
  /\ connected' = FALSE
  /\ IF reconnect = NoLoop \/ loops[reconnect].pc = "ended"
     THEN \E k \in Loops : /\ loops[k].pc = "ended"
                           /\ reconnect' = k
                           /\ loops' = [loops EXCEPT ![k] = [NoTask EXCEPT !.pc = "new"]]
     ELSE UNCHANGED <<reconnect, loops>>

\* Its loop condition; _process.poll() raises when disconnect() has removed the
\* process of a client that has connected again.
ReaderGoesOn(r) ==
  \/ /\ connected /\ process \in running
     /\ readers' = [readers EXCEPT ![r] = [pc |-> "reading", on |-> process]]
     /\ UNCHANGED <<connected, reconnect, loops>>
  \/ /\ connected /\ process = 0
     /\ readers' = [readers EXCEPT ![r].pc = "ended"]
     /\ UNCHANGED <<connected, reconnect, loops>>
  \/ /\ ~connected \/ process \notin running \union {0}
     /\ ReaderLeaves(r)

ReaderFrame == UNCHANGED <<process, running, spawned, crossed, closing>>

ReaderBegins(r) ==
  /\ readers[r].pc = "new"
  /\ \/ /\ process # 0
        /\ ReaderGoesOn(r)
     \/ /\ process = 0
        /\ readers' = [readers EXCEPT ![r].pc = "ended"]
        /\ UNCHANGED <<connected, reconnect, loops>>
  /\ UNCHANGED awaiting /\ ReaderFrame

Reading(r) == readers[r].pc = "reading"

\* A line that is no JSON, an answer nobody waits for, another notification.
ReaderSkips(r) ==
  /\ Reading(r)
  /\ ReaderGoesOn(r)
  /\ UNCHANGED awaiting /\ ReaderFrame

\* readline() returns nothing, or raises.
ReaderAtEnd(r) ==
  /\ Reading(r)
  /\ ReaderLeaves(r)
  /\ UNCHANGED awaiting /\ ReaderFrame

\* The answer to a request, a result or an error.  A user does the same with both.
ReaderAnswers(r, w) ==
  /\ Reading(r) /\ Pending(w) /\ readers[r].on = awaiting[w].to
  /\ \/ w \in Users /\ awaiting' = Forgets(w)
     \/ w \notin Users /\ \E outcome \in {"answered", "refused"} : awaiting' = Settles(w, outcome)
  /\ ReaderGoesOn(r)
  /\ ReaderFrame

\* The answer to a request whose future is cancelled: set_result raises.
ReaderMeetsCancelled(r, w) ==
  /\ Reading(r) /\ readers[r].on = awaiting[w].to
  /\ \/ awaiting[w].future = "expired" /\ awaiting' = Settles(w, "expired")
     \/ awaiting[w].future = "abandoned" /\ awaiting' = Forgets(w)
  /\ ReaderLeaves(r)
  /\ ReaderFrame

\* tools/list_changed or resources/list_changed: the reader itself sends a
\* request and awaits an answer that only another reader could read.
ReaderRefreshes(r) ==
  /\ Reading(r)
  /\ \/ /\ connected /\ process # 0
        /\ awaiting' = Asks(r, process)
        /\ readers' = [readers EXCEPT ![r].pc = "handling"]
        /\ UNCHANGED <<connected, reconnect, loops>>
     \/ /\ ~connected \/ process = 0
        /\ ReaderLeaves(r)
        /\ UNCHANGED awaiting
  /\ ReaderFrame

\* The reader's own request returns or raises.
RefreshEnds(r) ==
  /\ readers[r].pc = "handling"
  /\ \/ awaiting[r].future = "answered" /\ ReaderGoesOn(r)
     \/ Raises(r) /\ ReaderLeaves(r)
  /\ awaiting' = Forgets(r)
  /\ ReaderFrame

-----------------------------------------------------------------------------
(* _auto_reconnect. *)

LoopFrame == UNCHANGED <<reconnect, closing>>
QuietLoop == UNCHANGED <<connected, process, running, spawned, crossed, readers>>

LoopBegins(k) ==
  /\ loops[k].pc = "new"
  /\ loops' = [loops EXCEPT ![k] = IF connected THEN NoTask ELSE [NoTask EXCEPT !.pc = "sleep"]]
  /\ UNCHANGED awaiting /\ QuietLoop /\ LoopFrame

LoopConnects(k) ==
  /\ loops[k].pc = "sleep"
  /\ ConnectStdio(k)
  /\ loops' = [loops EXCEPT ![k].pc = "connect"]
  /\ LoopFrame

\* Popen, the answer to initialize or the notification that follows it raises.
\* The process that was started is left alone.
LoopRetries(k) ==
  /\ \/ loops[k].pc = "sleep"
     \/ loops[k].pc = "connect" /\ (Raises(k) \/ awaiting[k].future = "answered")
  /\ LET n == loops[k].retries + 1 IN
       loops' = [loops EXCEPT ![k] = IF n < MaxReconnects
                                     THEN [NoTask EXCEPT !.pc = "sleep", !.retries = n] ELSE NoTask]
  /\ awaiting' = Forgets(k)
  /\ QuietLoop /\ LoopFrame

\* Tools, resources and prompts are listed again, whatever the outcome of each.
LoopLists(k) ==
  LET left == IF loops[k].pc = "connect" THEN 3 ELSE loops[k].left - 1 IN
  /\ \/ loops[k].pc = "connect" /\ awaiting[k].future = "answered" /\ process # 0
     \/ loops[k].pc = "list" /\ (Raises(k) \/ awaiting[k].future = "answered")
  /\ IF left > 0 /\ connected /\ process # 0
     THEN /\ loops' = [loops EXCEPT ![k].pc = "list", ![k].left = left]
          /\ awaiting' = Asks(k, process)
     ELSE loops' = [loops EXCEPT ![k] = NoTask] /\ awaiting' = Forgets(k)
  /\ QuietLoop /\ LoopFrame

-----------------------------------------------------------------------------
(* disconnect(), and the processes. *)

\* The process is terminated, or was gone.
KillProcess ==
  IF process \in running THEN closing' = [pc |-> "killing", on |-> process] /\ UNCHANGED process
  ELSE closing' = NotClosing /\ process' = 0

\* Up to the first await: pending futures are cancelled, which ends the tasks
\* that await them, and the current loop is cancelled whatever it awaits.
DisconnectBegins ==
  LET live == reconnect # NoLoop /\ loops[reconnect].pc # "ended" IN
  /\ closing = NotClosing /\ spawned > 0
  /\ connected' = FALSE
  /\ awaiting' = [w \in Waiters |->
       IF awaiting[w].future \in {"pending", "abandoned"} \/ (live /\ w = reconnect) THEN NoRequest
       ELSE [awaiting[w] EXCEPT !.to = 0]]
  /\ readers' = [r \in Readers |-> IF Pending(r) THEN [readers[r] EXCEPT !.pc = "ended"] ELSE readers[r]]
  /\ loops' = [k \in Loops |-> CASE live /\ k = reconnect -> [NoTask EXCEPT !.pc = "cancelled"]
                                [] ~(live /\ k = reconnect) /\ Pending(k) -> NoTask
                                [] OTHER -> loops[k]]
  /\ IF live THEN closing' = [NotClosing EXCEPT !.pc = "joining"] /\ UNCHANGED process
     ELSE KillProcess
  /\ UNCHANGED <<running, spawned, crossed, reconnect>>

\* disconnect() awaits the loop that it cancelled.
LoopCancelled(k) ==
  /\ loops[k].pc = "cancelled" /\ closing.pc = "joining"
  /\ loops' = [loops EXCEPT ![k] = NoTask]
  /\ closing' = [closing EXCEPT !.pc = "joined"]
  /\ UNCHANGED <<awaiting, reconnect>> /\ QuietLoop

\* The loop a reader may have started meanwhile is forgotten.
DisconnectJoined ==
  /\ closing.pc = "joined"
  /\ reconnect' = NoLoop
  /\ KillProcess
  /\ UNCHANGED <<connected, running, spawned, crossed, readers, loops, awaiting>>

\* The process that is current after five seconds is killed.
KillTimeout ==
  /\ closing.pc = "killing" /\ closing.on \in running
  /\ running' = running \ {process}
  /\ closing' = [closing EXCEPT !.on = process]
  /\ UNCHANGED <<connected, process, spawned, crossed, readers, loops, reconnect, awaiting>>

DisconnectEnds ==
  /\ closing.pc = "killing" /\ closing.on \notin running
  /\ process' = 0
  /\ closing' = NotClosing
  /\ UNCHANGED <<connected, running, spawned, crossed, readers, loops, reconnect, awaiting>>

\* External: a server ends by itself, or because it was asked to.
ProcessExits(p) ==
  /\ p \in running
  /\ running' = running \ {p}
  /\ UNCHANGED <<connected, process, spawned, crossed, readers, loops, reconnect, awaiting, closing>>

-----------------------------------------------------------------------------
ClientNext ==
  \/ \E u \in Users : Connect(u) \/ SendRequest(u) \/ UserCancelled(u) \/ UserRaises(u)
  \/ \E w \in Waiters : RequestExpires(w)
  \/ \E r \in Readers : \/ ReaderBegins(r) \/ ReaderSkips(r) \/ ReaderAtEnd(r)
                         \/ ReaderRefreshes(r) \/ RefreshEnds(r)
  \/ \E r \in Readers, w \in Waiters : ReaderAnswers(r, w) \/ ReaderMeetsCancelled(r, w)
  \/ \E k \in Loops : \/ LoopBegins(k) \/ LoopConnects(k) \/ LoopRetries(k) \/ LoopLists(k)
                       \/ LoopCancelled(k)
  \/ DisconnectBegins \/ DisconnectJoined \/ KillTimeout \/ DisconnectEnds
  \/ \E p \in Processes : ProcessExits(p)

ClientSpec == ClientInit /\ [][ClientNext]_clientVars
-----------------------------------------------------------------------------
(* Properties. *)

\* "Automatic reconnection": the client is not deaf.  While it says that it is
\* connected, some reader reads from its process, or is about to: however
\* readers of earlier processes, answers to cancelled requests, reconnecting
\* loops and disconnect() come in between, is_connected does not stay true
\* behind a reader that has ended, so that nothing would connect again.  One
\* case is left out, where it does: a connection that was begun while
\* disconnect() waited, whose process disconnect() forgets in the end.
ConnectedListens ==
  connected /\ ~(process = 0 /\ crossed) =>
    \E r \in Readers : \/ readers[r].pc = "new"
                       \/ readers[r].pc \in {"reading", "handling"} /\ readers[r].on = process
=============================================================================
