----------------------------- MODULE McpServers -----------------------------
(***************************************************************************)
(* The life of one MCP server: MCPRegistryImpl (core/mcp/registry.py) and  *)
(* the supervision of MCPManager (core/mcp/manager.py).  Starts and stops  *)
(* hold the server's lock; deletions and health checks do not, and write   *)
(* what they read before their awaits.  Health, tools, error and times of  *)
(* the entry influence nothing else and are left out, as is security,      *)
(* which only refuses calls.                                               *)
(*                                                                         *)
(* A call runs from one await to the next without interruption: it has     *)
(* control ("run") or is suspended.  Each call carries the operations it   *)
(* has still to perform.                                                   *)
(*                                                                         *)
(* A connection is a client with its process.  McpClient.tla has the       *)
(* inside of a client: that its process dies and is started again while it *)
(* is registered is not seen here, that it is started again after a        *)
(* disconnect() is.                                                        *)
(***************************************************************************)
EXTENDS Integers, Sequences, FiniteSets

CONSTANTS
  Handlers,      \* HTTP requests that call the registry
  Kernel,        \* the task that starts and shuts down the manager
  Monitor,       \* the health_check_loop of the server
  RestartLimit,  \* restart_count from which _attempt_restart gives up
  MaxConns       \* bound: connections open at the same time

Callers == Handlers \union {Kernel, Monitor}

ASSUME McpAssumption ==
  /\ Kernel \notin Handlers /\ Monitor \notin Handlers \union {Kernel}
  /\ {RestartLimit, MaxConns} \subseteq Nat

VARIABLES
  server,     \* the entry of the registry
  client,     \* the connection in _clients, or 0
  conns,      \* the connections that are open
  forgotten,  \* disconnected clients whose reader reconnects (_auto_reconnect)
  lock,       \* the calls that hold or await the lock, in order
  mcalls,     \* mcalls[c]: what caller c is doing
  watched,    \* the manager has a task for the server in _health_check_tasks
  strayed,    \* history: connections lost by a start or a deletion that went wrong,
              \* or made by a client after it was disconnected
  overtaken   \* history: the entry was last written by a health check that was
              \* overtaken, or its client removed by a deletion that was

mcpVars == <<server, client, conns, forgotten, lock, mcalls, watched, strayed, overtaken>>

Absent == [status |-> "absent"]
Detail == [status : {"stopped", "starting", "running", "stopping", "failed"},
          enabled : BOOLEAN, restarts : 0..RestartLimit]

\* What a caller is suspended in: the lock, connect, list_tools, the
\* publication of a start, of a failure or of a stop, disconnect in stop or in
\* delete, a ping; the monitor also in its sleep and the delay of a restart,
\* and the kernel in the end of the cancelled monitor.
McpAwaits == {"lock", "connect", "list", "published", "failed", "disconnect", "stopped",
              "removing", "ping", "gather", "sleep", "backoff"}
Idle == [pc |-> "idle", todo |-> <<>>, seen |-> Absent, conn |-> 0]
Operations == {"start", "start locked", "stop", "stop locked", "remove", "check", "watch"}

McpCall == [pc : McpAwaits \union {"idle", "run"}, todo : Seq(Operations),
            seen : Detail \union {Absent}, conn : 0..MaxConns]

McpTypeOK ==
  /\ server \in Detail \union {Absent, [status |-> "unregistered"]}
  /\ client \in 0..MaxConns /\ conns \subseteq 1..MaxConns /\ strayed \subseteq conns
  /\ forgotten \subseteq 1..MaxConns
  /\ lock \in Seq(Callers)
  /\ mcalls \in [Callers -> McpCall]
  /\ watched \in BOOLEAN /\ overtaken \in BOOLEAN

McpInit ==
  /\ server = [status |-> "unregistered"]
  /\ client = 0 /\ conns = {} /\ forgotten = {} /\ strayed = {}
  /\ lock = <<>>
  /\ mcalls = [c \in Callers |-> Idle]
  /\ watched = FALSE /\ overtaken = FALSE

Present == server.status \notin {"absent", "unregistered"}
Up == server.status \in {"running", "starting"}

\* MCPServerDetail.with_status.  restart_count is compared with its limit only,
\* so it is counted up to there.
WithStatus(d, st) ==
  [d EXCEPT !.status = st,
            !.restarts = IF st = "failed" /\ @ < RestartLimit THEN @ + 1 ELSE @]

-----------------------------------------------------------------------------
(* Control. *)

NoneRuns == \A c \in Callers : mcalls[c].pc # "run"
Runs(c, op) == mcalls[c].pc = "run" /\ Head(mcalls[c].todo) = op
Suspended(c, pc) == NoneRuns /\ mcalls[c].pc = pc

Connecting(c) == mcalls[c].pc \in {"connect", "list"}

Set(c, call) == mcalls' = [mcalls EXCEPT ![c] = call]
Await(c, pc) == Set(c, [mcalls[c] EXCEPT !.pc = pc])
Rest(c) == IF c = Monitor THEN [Idle EXCEPT !.pc = "sleep"] ELSE Idle

\* The operation is over: the next one begins at once, or the call ends.
CallReturns(c) ==
  LET rest == Tail(mcalls[c].todo)
  IN Set(c, IF rest = <<>> THEN Rest(c) ELSE [Idle EXCEPT !.pc = "run", !.todo = rest])

\* An exception ends a request; the manager logs it and goes on.
CallRaises(c) == IF c = Kernel THEN CallReturns(c) ELSE Set(c, Rest(c))

\* The lock is taken at once when it is free.
Lock(c, op) ==
  /\ lock' = Append(lock, c)
  /\ Set(c, [mcalls[c] EXCEPT !.todo = <<op>> \o Tail(@),
                              !.pc = IF lock = <<>> THEN "run" ELSE "lock"])
Unlock == lock' = Tail(lock)

\* The lock when c, which holds or awaits it at most once, is cancelled.
Released(q, c) ==
  IF \E i \in DOMAIN q : q[i] = c
  THEN LET p == CHOOSE i \in DOMAIN q : q[i] = c
       IN [i \in 1..(Len(q) - 1) |-> q[IF i < p THEN i ELSE i + 1]]
  ELSE q

McpGranted(c) ==
  /\ Suspended(c, "lock") /\ lock # <<>> /\ Head(lock) = c
  /\ Await(c, "run")
  /\ UNCHANGED <<server, client, conns, forgotten, lock, watched, strayed, overtaken>>

\* Room for the connection of one more call that starts the server.
Named == conns \union forgotten \union ({mcalls[c].conn : c \in Callers} \ {0})
Fresh == {k \in 1..MaxConns : k \notin Named /\ \A n \in 1..(k - 1) : n \in Named}
Starts(todo) == \E k \in DOMAIN todo : todo[k] \in {"start", "start locked"}
Room == Cardinality(Named) + Cardinality({c \in Callers : Starts(mcalls[c].todo)}) < MaxConns

-----------------------------------------------------------------------------
(* Registration. *)

RegisterServer ==
  /\ NoneRuns /\ server.status = "unregistered"
  /\ server' = [status |-> "stopped", enabled |-> TRUE, restarts |-> 0]
  /\ UNCHANGED <<client, conns, forgotten, lock, mcalls, watched, strayed, overtaken>>

UpdateServer ==
  /\ NoneRuns /\ Present
  /\ server' = [server EXCEPT !.enabled = ~@]
  /\ UNCHANGED <<client, conns, forgotten, lock, mcalls, watched, strayed, overtaken>>

-----------------------------------------------------------------------------
(* Calls. *)

Begin(c, todo) == NoneRuns /\ Set(c, [Idle EXCEPT !.pc = "run", !.todo = todo])

StopIf(b) == IF b THEN <<"stop">> ELSE <<>>

\* The calls of start_server, stop_server, restart_server, reload_server,
\* delete_server and check_health.
Request(c) ==
  /\ mcalls[c].pc = "idle" /\ Present
  /\ \E todo \in {<<"start">>, <<"stop">>, <<"check">>, StopIf(Up) \o <<"start">>,
                  StopIf(server.status = "running") \o <<"start">>, StopIf(Up) \o <<"remove">>} :
       /\ Starts(todo) => Room
       /\ Begin(c, todo)
  /\ UNCHANGED <<server, client, conns, forgotten, lock, watched, strayed, overtaken>>

\* MCPManager.start
ManagerStart ==
  /\ mcalls[Kernel].pc = "idle"
  /\ LET starts == server.status = "stopped" /\ server.enabled
     IN /\ starts => Room
        /\ Begin(Kernel, IF starts THEN <<"start", "watch">> ELSE <<"watch">>)
  /\ UNCHANGED <<server, client, conns, forgotten, lock, watched, strayed, overtaken>>

\* MCPManager.shutdown: the monitor is cancelled wherever it is, and releases
\* the lock; a start of its leaves the status and the connection behind.
ManagerShutdown ==
  /\ mcalls[Kernel].pc = "idle" /\ NoneRuns
  /\ mcalls' = [mcalls EXCEPT ![Monitor] = Idle, ![Kernel].pc = "gather"]
  /\ watched' = FALSE
  /\ lock' = Released(lock, Monitor)
  /\ strayed' = strayed \union {mcalls[c].conn : c \in {d \in {Monitor} : Connecting(d)}}
  /\ UNCHANGED <<server, client, conns, forgotten, overtaken>>

StopAll ==
  /\ Suspended(Kernel, "gather")
  /\ \/ server.status = "running" /\ Begin(Kernel, <<"stop">>)
     \/ server.status # "running" /\ Set(Kernel, Idle)
  /\ UNCHANGED <<server, client, conns, forgotten, lock, watched, strayed, overtaken>>

\* start_health_monitoring
Watch ==
  /\ Runs(Kernel, "watch")
  /\ LET new == ~watched /\ server.status = "running" IN
     /\ watched' = (watched \/ new)
     /\ mcalls' = [mcalls EXCEPT ![Kernel] = Idle, ![Monitor] = IF new THEN Rest(Monitor) ELSE @]
  /\ UNCHANGED <<server, client, conns, forgotten, lock, strayed, overtaken>>

\* The monitor wakes up: it checks a running server and restarts a failed one.
MonitorWakes ==
  /\ Suspended(Monitor, "sleep")
  /\ \/ /\ server.status = "running"
        /\ Begin(Monitor, <<"check">>)
     \/ /\ server.status = "failed" /\ server.restarts < RestartLimit
        /\ Await(Monitor, "backoff")
  /\ UNCHANGED <<server, client, conns, forgotten, lock, watched, strayed, overtaken>>

MonitorRestarts ==
  /\ Suspended(Monitor, "backoff") /\ Room
  /\ Begin(Monitor, <<"start">>)
  /\ UNCHANGED <<server, client, conns, forgotten, lock, watched, strayed, overtaken>>

-----------------------------------------------------------------------------
(* start_server. *)

StartServer(c) ==
  /\ Runs(c, "start")
  /\ \/ /\ Up
        /\ CallReturns(c) /\ UNCHANGED lock
     \/ /\ ~Present \/ (Present /\ ~Up /\ ~server.enabled)
        /\ CallRaises(c) /\ UNCHANGED lock
     \/ /\ Present /\ ~Up /\ server.enabled
        /\ Lock(c, "start locked")
  /\ UNCHANGED <<server, client, conns, forgotten, watched, strayed, overtaken>>

StartLocked(c) ==
  /\ Runs(c, "start locked")
  /\ \/ /\ ~Present /\ CallRaises(c) /\ Unlock
        /\ UNCHANGED <<server, conns, overtaken>>
     \/ /\ Up /\ CallReturns(c) /\ Unlock
        /\ UNCHANGED <<server, conns, overtaken>>
     \/ /\ Present /\ ~Up
        /\ server' = WithStatus(server, "starting") /\ overtaken' = FALSE
        /\ \E k \in Fresh :
             /\ conns' = conns \union {k}
             /\ Set(c, [mcalls[c] EXCEPT !.pc = "connect", !.seen = server, !.conn = k])
        /\ UNCHANGED lock
  /\ UNCHANGED <<client, forgotten, watched, strayed>>

Connected(c) ==
  /\ Suspended(c, "connect")
  /\ Await(c, "list")
  /\ UNCHANGED <<server, client, conns, forgotten, lock, watched, strayed, overtaken>>

\* Mutant: the client is to be registered only after the publications.
ListedUnregistered(c) ==
  /\ Suspended(c, "list")
  /\ server' = WithStatus(mcalls[c].seen, "running") /\ overtaken' = FALSE
  /\ Await(c, "published")
  /\ UNCHANGED <<client, conns, forgotten, lock, watched, strayed>>

\* A client that is still registered is replaced and not disconnected.
ToolsListed(c) ==
  /\ Suspended(c, "list")
  /\ server' = WithStatus(mcalls[c].seen, "running") /\ overtaken' = FALSE
  /\ client' = mcalls[c].conn
  /\ Await(c, "published")
  /\ UNCHANGED <<conns, forgotten, lock, watched, strayed>>

\* connect, list_tools or a publication raises: nobody disconnects the client.
StartFails(c) ==
  /\ \E pc \in {"connect", "list", "published"} : Suspended(c, pc)
  /\ server' = WithStatus(mcalls[c].seen, "failed") /\ overtaken' = FALSE
  /\ strayed' = strayed \union ({mcalls[c].conn} \intersect conns)
  /\ Set(c, [mcalls[c] EXCEPT !.pc = "failed", !.conn = 0])
  /\ UNCHANGED <<client, conns, forgotten, lock, watched>>

\* The last publication of a start or of its failure is made, or raises.
StartEnds(c) ==
  /\ \/ /\ Suspended(c, "published") \/ Suspended(c, "failed")
        /\ CallReturns(c)
     \/ Suspended(c, "failed") /\ CallRaises(c)
  /\ Unlock
  /\ UNCHANGED <<server, client, conns, forgotten, watched, strayed, overtaken>>

-----------------------------------------------------------------------------
(* stop_server. *)

StopServer(c) ==
  /\ Runs(c, "stop")
  /\ \/ /\ server.status \in {"stopped", "stopping"}
        /\ CallReturns(c) /\ UNCHANGED lock
     \/ /\ ~Present
        /\ CallRaises(c) /\ UNCHANGED lock
     \/ /\ Present /\ server.status \notin {"stopped", "stopping"}
        /\ Lock(c, "stop locked")
  /\ UNCHANGED <<server, client, conns, forgotten, watched, strayed, overtaken>>

\* Without a client the entry is stored as stopped without an await between.
StopLocked(c) ==
  /\ Runs(c, "stop locked")
  /\ \/ /\ ~Present /\ CallRaises(c) /\ Unlock
        /\ UNCHANGED <<server, overtaken>>
     \/ /\ server.status \in {"stopped", "stopping"} /\ CallReturns(c) /\ Unlock
        /\ UNCHANGED <<server, overtaken>>
     \/ /\ Present /\ server.status \notin {"stopped", "stopping"}
        /\ overtaken' = FALSE
        /\ server' = WithStatus(server, IF client # 0 THEN "stopping" ELSE "stopped")
        /\ Set(c, [mcalls[c] EXCEPT !.pc = IF client # 0 THEN "disconnect" ELSE "stopped",
                                    !.seen = server, !.conn = client])
        /\ UNCHANGED lock
  /\ UNCHANGED <<client, conns, forgotten, watched, strayed>>

\* Mutant: the client is dropped and not disconnected.
DisconnectNothing(k, lost) == conns' = conns /\ forgotten' = forgotten /\ strayed' = lost \ {k}

\* MCPClient.disconnect ends.  The reader that it ended begins to connect the
\* client again, and has perhaps done so while the process was waited for.
Disconnect(k, lost) ==
  \/ conns' = conns \ {k} /\ forgotten' = forgotten \union {k} /\ strayed' = lost \ {k}
  \/ conns' = conns \union {k} /\ forgotten' = forgotten \ {k} /\ strayed' = lost \union {k}

\* A second or more after its disconnect(), a client starts its server again.
Reconnects(k) ==
  /\ NoneRuns /\ k \in forgotten
  /\ conns' = conns \union {k} /\ forgotten' = forgotten \ {k} /\ strayed' = strayed \union {k}
  /\ UNCHANGED <<server, client, lock, mcalls, watched, overtaken>>

\* It had no reader any more, or its server cannot be started.
StaysDisconnected(k) ==
  /\ NoneRuns /\ k \in forgotten
  /\ forgotten' = forgotten \ {k}
  /\ UNCHANGED <<server, client, conns, lock, mcalls, watched, strayed, overtaken>>

\* del raises KeyError when a deletion was faster.
StopDisconnects(c) ==
  LET d == mcalls[c].seen IN
  /\ Suspended(c, "disconnect")
  /\ Disconnect(mcalls[c].conn, strayed)
  /\ overtaken' = FALSE
  /\ \/ /\ client # 0
        /\ client' = 0
        /\ server' = WithStatus(d, "stopped")
        /\ Set(c, [mcalls[c] EXCEPT !.pc = "stopped", !.conn = 0])
        /\ UNCHANGED lock
     \/ /\ client = 0
        /\ server' = WithStatus(d, "failed")
        /\ CallRaises(c) /\ Unlock
        /\ UNCHANGED client
  /\ UNCHANGED watched

\* MCP_SERVER_STOPPED is published, or the publication raises.
StopEnds(c) ==
  /\ Suspended(c, "stopped")
  /\ \/ CallReturns(c) /\ UNCHANGED <<server, overtaken>>
     \/ CallRaises(c) /\ server' = WithStatus(mcalls[c].seen, "failed") /\ overtaken' = FALSE
  /\ Unlock
  /\ UNCHANGED <<client, conns, forgotten, watched, strayed>>

-----------------------------------------------------------------------------
(* delete_server and check_health, outside the lock. *)

RemoveServer(c) ==
  /\ Runs(c, "remove")
  /\ server' = Absent
  /\ IF client = 0 THEN CallReturns(c) ELSE Set(c, [mcalls[c] EXCEPT !.pc = "removing", !.conn = client])
  /\ UNCHANGED <<client, conns, forgotten, lock, watched, strayed, overtaken>>

\* del removes the client that is there now, or raises KeyError.
RemoveEnds(c) ==
  /\ Suspended(c, "removing")
  /\ Disconnect(mcalls[c].conn, strayed \union ({client} \intersect conns))
  /\ overtaken' = (overtaken \/ client \notin {0, mcalls[c].conn})
  /\ client' = 0
  /\ Set(c, Idle)
  /\ UNCHANGED <<server, lock, watched>>

CheckHealth(c) ==
  /\ Runs(c, "check")
  /\ IF client # 0 /\ server.status = "running"
     THEN Set(c, [mcalls[c] EXCEPT !.pc = "ping", !.seen = server, !.conn = client])
     ELSE CallReturns(c)
  /\ UNCHANGED <<server, client, conns, forgotten, lock, watched, strayed, overtaken>>

\* The ping is answered, fails or times out: the entry is stored as it was.
PingEnds(c) ==
  /\ Suspended(c, "ping")
  /\ server' = mcalls[c].seen
  /\ overtaken' = (overtaken \/ server.status # "running" \/ client # mcalls[c].conn)
  /\ CallReturns(c)
  /\ UNCHANGED <<client, conns, forgotten, lock, watched, strayed>>

\* disconnect cancels the pending answer, and with it the call; the monitor
\* takes this for its own cancellation and ends.
PingCancelled(c) ==
  /\ Suspended(c, "ping")
  /\ \/ mcalls[c].conn \notin conns
     \/ \E d \in Callers : /\ mcalls[d].pc \in {"disconnect", "removing"}
                           /\ mcalls[d].conn = mcalls[c].conn
  /\ Set(c, Idle)
  /\ UNCHANGED <<server, client, conns, forgotten, lock, watched, strayed, overtaken>>

-----------------------------------------------------------------------------

\* Caller c goes on, up to its next await.
Proceeds(c) ==
  \/ StartServer(c) \/ StartLocked(c) \/ StopServer(c) \/ StopLocked(c)
  \/ RemoveServer(c) \/ CheckHealth(c) \/ (c = Kernel /\ (Watch \/ StopAll))
  \/ McpGranted(c) \/ Connected(c) \/ ToolsListed(c) \/ StartFails(c) \/ StartEnds(c)
  \/ StopDisconnects(c) \/ StopEnds(c) \/ RemoveEnds(c) \/ PingEnds(c) \/ PingCancelled(c)

ManagerSteps == ManagerStart \/ ManagerShutdown \/ MonitorWakes \/ MonitorRestarts

McpNext ==
  \/ RegisterServer \/ UpdateServer
  \/ \E c \in Handlers : Request(c)
  \/ ManagerSteps
  \/ \E c \in Callers : Proceeds(c)
  \/ \E k \in 1..MaxConns : Reconnects(k) \/ StaysDisconnected(k)

McpSpec == McpInit /\ [][McpNext]_mcpVars

-----------------------------------------------------------------------------
(* Properties. *)

\* A server process that is open is the registered client's or in the hands of
\* a start, except for those that four things leave behind: a start that failed,
\* a start that was cancelled, a deletion that took a later client away, and a
\* client that connected again after its disconnect().  So of all the starts,
\* stops, restarts and reloads that overlap, none loses a client in a fifth way.
ConnectionsAccounted ==
  conns \subseteq {client} \union strayed
                    \union {mcalls[c].conn : c \in {d \in Callers : Connecting(d)}}

\* A server that is listed as RUNNING has an open client, so that invoke_tool
\* finds one, unless a health check stored the entry it read before a stop, or
\* a deletion removed the client of a later start.
RunningIsServed == server.status = "running" /\ ~overtaken => client \in conns
=============================================================================
