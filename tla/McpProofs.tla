----------------------------- MODULE McpProofs -----------------------------
(***************************************************************************)
(* The MCP client and the MCP servers, for any number of users, processes, *)
(* reconnecting loops, requests and connections.                           *)
(*                                                                         *)
(* The client.  That a connected client listens needs the shape of readers,*)
(* that a process is numbered when it is started, and that a client which  *)
(* is connected during a disconnect(), or without a process after it, was  *)
(* connected while disconnect() waited: every step that ends a reader or   *)
(* changes _process either starts a reader, or moves one to the current    *)
(* process, or resets _connected, or is the end of such a disconnect().    *)
(***************************************************************************)
EXTENDS McpClient, McpServers, TLAPS

Shape ==
  /\ readers \in [Readers -> ReaderState]
  /\ spawned \in 0..MaxProcesses
  /\ running \subseteq Processes

Crossing == connected /\ (process = 0 \/ closing # NotClosing) => crossed

IInv == Shape /\ Crossing /\ ConnectedListens

\* Steps that leave the flag, the process and the readers alone.
LEMMA StillListens ==
  ASSUME IInv, UNCHANGED <<connected, process, spawned, crossed, readers>>,
         running' \subseteq running, closing' # NotClosing => closing # NotClosing
  PROVE  IInv'
  BY DEF IInv, Shape, Crossing, ReaderState, ConnectedListens

\* What a new connection sets up listens.
LEMMA ConnectionListens ==
  ASSUME IInv, NEW w \in Waiters, ConnectStdio(w), closing' = closing
  PROVE  IInv'
<1>1. spawned + 1 \in Processes
  BY ClientAssumption DEF IInv, Shape, ConnectStdio, Processes
<1> DEFINE r == <<"reader", spawned + 1>>
<1>2. r \in Readers
  BY <1>1 DEF Readers
<1>3. readers' = [readers EXCEPT ![r] = [pc |-> "new", on |-> 0]] /\ spawned' = spawned + 1
  BY DEF ConnectStdio
<1>4. 0 \in 0..MaxProcesses /\ spawned + 1 \in 0..MaxProcesses
  BY <1>1, ClientAssumption DEF Processes
<1>5. Shape'
  <2>1. [pc |-> "new", on |-> 0] \in ReaderState
    BY <1>4 DEF ReaderState
  <2>2. readers' \in [Readers -> ReaderState]
    BY <1>2, <1>3, <2>1 DEF IInv, Shape, ReaderState
  <2>3. running' \subseteq Processes
    BY <1>1 DEF IInv, Shape, ConnectStdio
  <2> QED
    BY <1>3, <1>4, <2>2, <2>3 DEF Shape
<1>6. readers'[r].pc = "new"
  BY <1>2, <1>3 DEF IInv, Shape, ReaderState
<1>7. ConnectedListens'
  BY <1>2, <1>6 DEF ConnectedListens
<1>8. Crossing'
  <2>1. closing' = closing => crossed' = (closing # NotClosing) /\ process' # 0
    BY <1>1, ClientAssumption DEF ConnectStdio, Processes
  <2> QED
    BY <2>1 DEF Crossing
<1> QED
  BY <1>5, <1>7, <1>8 DEF IInv

\* A reader that ends takes the connection with it.
LEMMA LeavingDisconnects ==
  ASSUME IInv, NEW r \in Readers, ReaderLeaves(r), UNCHANGED <<spawned, running, closing, crossed>>
  PROVE  IInv'
<1>1. readers' = [readers EXCEPT ![r].pc = "ended"] /\ connected' = FALSE
  BY DEF ReaderLeaves
<1>2. Shape'
  BY <1>1 DEF IInv, Shape, ReaderState
<1> QED
  BY <1>1, <1>2 DEF IInv, Crossing, ConnectedListens

\* A reader that takes its next turn reads from the current process, unless the
\* client is, or from now on counts as, not connected.
LEMMA GoingOnListens ==
  ASSUME IInv, NEW r \in Readers, ReaderGoesOn(r), ReaderFrame
  PROVE  IInv'
<1>1. CASE /\ connected /\ process \in running
           /\ readers' = [readers EXCEPT ![r] = [pc |-> "reading", on |-> process]]
  <2>1. process \in 0..MaxProcesses
    BY <1>1, ClientAssumption DEF IInv, Shape, Processes
  <2>2. Shape'
    BY <1>1, <2>1 DEF IInv, Shape, ReaderState, ReaderFrame
  <2>3. readers'[r] = [pc |-> "reading", on |-> process]
    BY <1>1 DEF IInv, Shape, ReaderState
  <2> QED
    BY <1>1, <2>2, <2>3 DEF IInv, Crossing, ConnectedListens, ReaderFrame
<1>2. CASE connected /\ process = 0 /\ readers' = [readers EXCEPT ![r].pc = "ended"]
  <2>1. Shape'
    BY <1>2 DEF IInv, Shape, ReaderState, ReaderFrame
  <2> QED
    BY <1>2, <2>1 DEF IInv, Crossing, ConnectedListens, ReaderFrame
<1>3. CASE ReaderLeaves(r)
  BY <1>3, LeavingDisconnects DEF ReaderFrame
<1> QED
  BY <1>1, <1>2, <1>3 DEF ReaderGoesOn

\* The steps of a reader.
LEMMA ReaderSteps ==
  ASSUME IInv, NEW r \in Readers,
         \/ ReaderBegins(r) \/ ReaderSkips(r) \/ ReaderAtEnd(r)
         \/ ReaderRefreshes(r) \/ RefreshEnds(r)
         \/ \E w \in Waiters : ReaderAnswers(r, w) \/ ReaderMeetsCancelled(r, w)
  PROVE  IInv'
<1> USE DEF ReaderFrame
<1>1. CASE ReaderGoesOn(r) /\ ReaderFrame
  BY <1>1, GoingOnListens
<1>2. CASE ReaderLeaves(r) /\ ReaderFrame
  BY <1>2, LeavingDisconnects
<1>3. CASE /\ process = 0 /\ ReaderFrame
           /\ readers' = [readers EXCEPT ![r].pc = "ended"] /\ UNCHANGED connected
  BY <1>3 DEF IInv, Shape, Crossing, ReaderState, ConnectedListens
<1>4. CASE /\ readers[r].pc = "reading" /\ ReaderFrame /\ UNCHANGED connected
           /\ readers' = [readers EXCEPT ![r].pc = "handling"]
  <2>1. Shape'
    BY <1>4 DEF IInv, Shape, ReaderState
  <2>2. \A q \in Readers : /\ readers'[q].on = readers[q].on
                           /\ q # r => readers'[q] = readers[q]
    BY <1>4 DEF IInv, Shape, ReaderState
  <2>3. readers'[r].pc = "handling"
    BY <1>4 DEF IInv, Shape, ReaderState
  <2>4. ConnectedListens'
    BY <1>4, <2>2, <2>3 DEF IInv, ConnectedListens
  <2>5. Crossing'
    BY <1>4 DEF IInv, Crossing
  <2> QED
    BY <2>1, <2>4, <2>5 DEF IInv
<1> QED
  BY <1>1, <1>2, <1>3, <1>4 DEF ReaderBegins, ReaderSkips, ReaderAtEnd, ReaderRefreshes,
     RefreshEnds, ReaderAnswers, ReaderMeetsCancelled, Reading

\* The steps of disconnect(): the flag is reset before the process is taken away.
LEMMA DisconnectSteps ==
  ASSUME IInv, DisconnectBegins \/ DisconnectJoined \/ KillTimeout \/ DisconnectEnds
  PROVE  IInv'
<1>1. CASE DisconnectBegins
  <2>1. readers' \in [Readers -> ReaderState]
    BY <1>1 DEF IInv, Shape, ReaderState, DisconnectBegins
  <2> QED
    BY <1>1, <2>1 DEF IInv, Shape, Crossing, ConnectedListens, DisconnectBegins
<1>2. CASE DisconnectJoined
  <2>1. connected => crossed
    BY <1>2 DEF IInv, Crossing, DisconnectJoined, NotClosing
  <2>2. process' \in {process, 0} /\ UNCHANGED <<connected, crossed, readers, spawned, running>>
    BY <1>2 DEF DisconnectJoined, KillProcess
  <2>3. Shape' /\ Crossing'
    BY <2>1, <2>2 DEF IInv, Shape, ReaderState, Crossing
  <2>4. ConnectedListens'
    BY <2>1, <2>2 DEF IInv, ConnectedListens
  <2> QED
    BY <2>3, <2>4 DEF IInv
<1>3. CASE KillTimeout
  BY <1>3, StillListens DEF KillTimeout, NotClosing
<1>4. CASE DisconnectEnds
  <2>1. connected => crossed
    BY <1>4 DEF IInv, Crossing, DisconnectEnds, NotClosing
  <2>2. process' = 0 /\ UNCHANGED <<connected, crossed, readers, spawned, running>>
    BY <1>4 DEF DisconnectEnds
  <2> QED
    BY <2>1, <2>2 DEF IInv, Shape, ReaderState, Crossing, ConnectedListens
<1> QED
  BY <1>1, <1>2, <1>3, <1>4

\* A new client satisfies the invariant.
LEMMA Initially == ClientInit => IInv
<1> SUFFICES ASSUME ClientInit PROVE IInv
  OBVIOUS
<1>1. 0 \in 0..MaxProcesses
  BY ClientAssumption
<1> QED
  BY <1>1 DEF ClientInit, IInv, Shape, Crossing, ReaderState, ConnectedListens

\* Every step of the client keeps it.
LEMMA Inductive == IInv /\ [ClientNext]_clientVars => IInv'
<1> SUFFICES ASSUME IInv, [ClientNext]_clientVars PROVE IInv'
  OBVIOUS
<1>1. CASE \E u \in Users : Connect(u)
  <2>1. PICK u \in Users : Connect(u)
    BY <1>1
  <2> QED
    BY <2>1, ConnectionListens DEF Connect, Waiters
<1>2. CASE \E u \in Users : SendRequest(u) \/ UserCancelled(u) \/ UserRaises(u)
  BY <1>2, StillListens DEF SendRequest, UserCancelled, UserRaises
<1>3. CASE \E w \in Waiters : RequestExpires(w)
  BY <1>3, StillListens DEF RequestExpires
<1>4. CASE \E r \in Readers : \/ ReaderBegins(r) \/ ReaderSkips(r) \/ ReaderAtEnd(r)
                              \/ ReaderRefreshes(r) \/ RefreshEnds(r)
  BY <1>4, ReaderSteps
<1>5. CASE \E r \in Readers, w \in Waiters : ReaderAnswers(r, w) \/ ReaderMeetsCancelled(r, w)
  BY <1>5, ReaderSteps
<1>6. CASE \E k \in Loops : LoopConnects(k)
  <2>1. PICK k \in Loops : LoopConnects(k)
    BY <1>6
  <2> QED
    BY <2>1, ConnectionListens DEF LoopConnects, LoopFrame, Waiters
<1>7. CASE \E k \in Loops : LoopBegins(k) \/ LoopRetries(k) \/ LoopLists(k) \/ LoopCancelled(k)
  BY <1>7, StillListens DEF LoopBegins, LoopRetries, LoopLists, LoopCancelled, QuietLoop, LoopFrame, NotClosing
<1>8. CASE DisconnectBegins \/ DisconnectJoined \/ KillTimeout \/ DisconnectEnds
  BY <1>8, DisconnectSteps
<1>9. CASE \E p \in Processes : ProcessExits(p)
  BY <1>9, StillListens DEF ProcessExits
<1>10. CASE UNCHANGED clientVars
  BY <1>10, StillListens DEF clientVars
<1> QED
  BY <1>1, <1>2, <1>3, <1>4, <1>5, <1>6, <1>7, <1>8, <1>9, <1>10 DEF ClientNext

\* A client that says it is connected listens to its process, whatever readers
\* of earlier processes, requests that run out or are cancelled, reconnecting
\* loops and disconnect() do, for any number of them; or it has no process, and
\* that only when its connection was begun while disconnect() waited (MCPClient).
THEOREM ConnectedClientListens == ClientSpec => []ConnectedListens
<1>1. IInv => ConnectedListens
  BY DEF IInv
<1> QED
  BY Initially, Inductive, <1>1, PTL DEF ClientSpec

----------------------------------------------------------------------------
(***************************************************************************)
(* The servers.  Deletions and health checks work outside the lock, so the *)
(* two properties rest on what the lock does protect: between the awaits   *)
(* of a start or a stop nobody else registers a client, a connection that  *)
(* is being opened is named by its start only, and a client that is still  *)
(* registered when a start begins was lost before.                         *)
(***************************************************************************)
LockedOps == {"start locked", "stop locked"}
LockedAwaits == {"connect", "list", "published", "failed", "disconnect", "stopped"}

\* A call that is inside the lock.
InLock(call) == call.pc \in LockedAwaits \/ (call.pc = "run" /\ Head(call.todo) \in LockedOps)

\* A call in progress has an operation at hand, and those after it have not
\* taken the lock; the monitor stops and deletes nothing.
CallFits(c, call) ==
  /\ call.pc \notin {"idle", "sleep", "backoff", "gather"} => call.todo # <<>>
  /\ \A k \in DOMAIN call.todo : call.todo[k] \in LockedOps => k = 1
  /\ call.pc = "ping" => call.seen.status = "running"
  /\ call.pc \in LockedAwaits => call.seen # Absent
  /\ call.pc \in {"disconnect", "removing"} => call.conn # 0
  /\ c = Monitor => /\ call.pc # "disconnect"
                    /\ \A k \in DOMAIN call.todo : call.todo[k] \in {"start", "start locked", "check"}

CallsFit == \A c \in Callers : CallFits(c, mcalls[c])
LockHeld == \A c \in Callers : InLock(mcalls[c]) => lock # <<>> /\ Head(lock) = c

\* The registered client is open, and so are the connections of starts, which
\* nobody else names.
ClientOpen == 0 \notin conns /\ (client # 0 => client \in conns)
StartsOwn ==
  \A c \in Callers : Connecting(c) =>
    /\ mcalls[c].conn \in conns /\ mcalls[c].conn # client
    /\ \A d \in Callers \ {c} : mcalls[d].conn # mcalls[c].conn

\* A client that is registered while the server is down was lost before.
Lost == client = 0 \/ client \in strayed
DownIsLost ==
  /\ server.status \in {"stopped", "failed"} => Lost
  /\ server.status = "stopping" => \E c \in Callers : mcalls[c].pc = "disconnect"
  /\ server.status = "unregistered" => client = 0
  /\ \A c \in Callers :
       /\ Connecting(c) => Lost /\ server.status # "unregistered"
       /\ mcalls[c].pc \in {"published", "disconnect"} => client \in {0, mcalls[c].conn}
       /\ mcalls[c].pc = "stopped" => client = 0

\* A deletion whose client is still registered left the entry absent, or a
\* health check has stored another since.
RemovalShows ==
  \A c \in Callers :
    mcalls[c].pc = "removing" /\ client = mcalls[c].conn => server.status # "running" \/ overtaken

McpInv ==
  /\ McpTypeOK /\ CallsFit /\ LockHeld /\ ClientOpen /\ StartsOwn /\ DownIsLost /\ RemovalShows
  /\ ConnectionsAccounted /\ RunningIsServed

\* A monitor that was not begun, or was cancelled, does nothing.
MonitorOff == ~watched => mcalls[Monitor].pc = "idle"

----------------------------------------------------------------------------
\* The first part of the invariant is about calls and the lock only.
ControlInv == mcalls \in [Callers -> McpCall] /\ lock \in Seq(Callers) /\ CallsFit /\ LockHeld

\* The control part holds on its own.
LEMMA ControlOf == McpInv => ControlInv
BY DEF McpInv, ControlInv, McpTypeOK

\* The fields of a call.
LEMMA CallFields ==
  ASSUME NEW call \in McpCall
  PROVE  /\ call.pc \in McpAwaits \union {"idle", "run"} /\ call.todo \in Seq(Operations)
         /\ call.seen \in Detail \union {Absent} /\ call.conn \in 0..MaxConns
BY DEF McpCall

\* Calls that are begun.
LEMMA NewCall ==
  ASSUME NEW c \in Callers, NEW todo \in Seq(Operations), todo # <<>>,
         \A k \in DOMAIN todo : todo[k] \notin LockedOps,
         c = Monitor => \A k \in DOMAIN todo : todo[k] \in {"start", "check"}
  PROVE  LET n == [Idle EXCEPT !.pc = "run", !.todo = todo] IN
         /\ n \in McpCall /\ CallFits(c, n) /\ ~InLock(n) /\ n.pc = "run" /\ n.conn = 0
<1> DEFINE n == [Idle EXCEPT !.pc = "run", !.todo = todo]
<1>1. Idle \in McpCall /\ Idle.conn = 0
  <2>1. 0 \in 0..MaxConns
    BY McpAssumption
  <2> QED
    BY <2>1 DEF Idle, McpCall
<1>2. n \in McpCall /\ n.pc = "run" /\ n.conn = 0 /\ n.todo = todo
  BY <1>1 DEF McpCall
<1> HIDE DEF n
<1>3. Head(todo) = todo[1] /\ 1 \in DOMAIN todo
  OBVIOUS
<1>4. ~InLock(n) /\ CallFits(c, n)
  BY <1>2, <1>3 DEF InLock, CallFits, LockedAwaits
<1> QED
  BY <1>2, <1>4 DEF n

\* A call at rest.
LEMMA RestingCall ==
  ASSUME NEW c \in Callers, NEW pc \in {"idle", "sleep", "backoff", "gather"}
  PROVE  LET n == [Idle EXCEPT !.pc = pc] IN
         /\ n \in McpCall /\ CallFits(c, n) /\ ~InLock(n) /\ n.pc = pc /\ n.conn = 0
<1> DEFINE n == [Idle EXCEPT !.pc = pc]
<1>1. n = [pc |-> pc, todo |-> <<>>, seen |-> Absent, conn |-> 0]
  BY DEF Idle
<1>2. 0 \in 0..MaxConns
  BY McpAssumption
<1> HIDE DEF n
<1>3. n \in McpCall /\ n.pc = pc /\ n.conn = 0 /\ n.todo = <<>>
  BY <1>1, <1>2 DEF McpCall, McpAwaits
<1>4. ~InLock(n) /\ CallFits(c, n)
  BY <1>3 DEF InLock, CallFits, LockedAwaits
<1> QED
  BY <1>3, <1>4 DEF n

\* The next operation of a call, or its end.
Resting(n) == n.pc \in {"idle", "sleep", "run"} /\ n.conn = 0

\* A call that returns or raises leaves the lock and goes on with the rest of
\* its caller's work.
LEMMA Returned ==
  ASSUME ControlInv, NEW c \in Callers, mcalls[c].todo # <<>>, CallReturns(c) \/ CallRaises(c)
  PROVE  \E n \in McpCall : /\ mcalls' = [mcalls EXCEPT ![c] = n]
                            /\ CallFits(c, n) /\ ~InLock(n) /\ Resting(n)
<1> DEFINE rest == Tail(mcalls[c].todo)
<1>1. mcalls[c] \in McpCall /\ CallFits(c, mcalls[c])
  BY DEF ControlInv, CallsFit
<1>2. mcalls[c].todo \in Seq(Operations)
  BY <1>1, CallFields
<1>3. rest \in Seq(Operations) /\ \A k \in DOMAIN rest : k + 1 \in DOMAIN mcalls[c].todo /\ k + 1 # 1 /\ rest[k] = mcalls[c].todo[k + 1]
  BY <1>2
<1>4. \A k \in DOMAIN rest : rest[k] \notin LockedOps
  BY <1>1, <1>3 DEF CallFits
<1>5. c = Monitor => \A k \in DOMAIN rest : rest[k] \in {"start", "check"}
  BY <1>1, <1>3, <1>4 DEF CallFits, LockedOps
<1> HIDE DEF rest
<1>6. CASE mcalls' = [mcalls EXCEPT ![c] = Rest(c)]
  <2>1. PICK pc \in {"idle", "sleep"} : Rest(c) = [Idle EXCEPT !.pc = pc]
    <3>1. Idle = [Idle EXCEPT !.pc = "idle"]
      BY DEF Idle
    <3> QED
      BY <3>1 DEF Rest
  <2>2. Rest(c) \in McpCall /\ CallFits(c, Rest(c)) /\ ~InLock(Rest(c)) /\ Resting(Rest(c))
    BY <2>1, RestingCall DEF Resting
  <2> QED
    BY <1>6, <2>2
<1>7. CASE rest # <<>> /\ mcalls' = [mcalls EXCEPT ![c] = [Idle EXCEPT !.pc = "run", !.todo = rest]]
  <2>1. PICK n : n = [Idle EXCEPT !.pc = "run", !.todo = rest]
    OBVIOUS
  <2>2. n \in McpCall /\ CallFits(c, n) /\ ~InLock(n) /\ Resting(n)
    BY <1>3, <1>4, <1>5, <1>7, <2>1, NewCall DEF Resting
  <2> QED
    BY <1>7, <2>1, <2>2
<1> QED
  BY <1>6, <1>7 DEF CallReturns, CallRaises, Set, rest

\* One call changes; it takes, keeps or releases the lock.
LEMMA ControlStep ==
  ASSUME ControlInv, NEW c \in Callers, NEW n \in McpCall, CallFits(c, n),
         mcalls' = [mcalls EXCEPT ![c] = n],
         \/ lock' = lock /\ (InLock(n) => InLock(mcalls[c]) \/ (lock # <<>> /\ Head(lock) = c))
         \/ lock' = Append(lock, c) /\ (InLock(n) => lock = <<>>)
         \/ lock' = Tail(lock) /\ InLock(mcalls[c]) /\ ~InLock(n)
  PROVE  ControlInv'
<1>1. /\ mcalls \in [Callers -> McpCall] /\ lock \in Seq(Callers)
      /\ \A d \in Callers : CallFits(d, mcalls[d])
      /\ \A d \in Callers : InLock(mcalls[d]) => lock # <<>> /\ Head(lock) = d
  BY DEF ControlInv, CallsFit, LockHeld
<1>2. /\ mcalls' \in [Callers -> McpCall] /\ mcalls'[c] = n
      /\ \A d \in Callers \ {c} : mcalls'[d] = mcalls[d]
  BY <1>1
<1>3. CallsFit'
  <2>1. \A d \in Callers : CallFits(d, mcalls'[d])
    BY <1>1, <1>2
  <2> QED
    BY <2>1 DEF CallsFit, CallFits
<1>4. lock' \in Seq(Callers) /\ \A d \in Callers : InLock(mcalls'[d]) => lock' # <<>> /\ Head(lock') = d
  <2>1. CASE lock' = lock /\ (InLock(n) => InLock(mcalls[c]) \/ (lock # <<>> /\ Head(lock) = c))
    BY <1>1, <1>2, <2>1
  <2>2. CASE lock' = Append(lock, c) /\ (InLock(n) => lock = <<>>)
    <3>1. lock' \in Seq(Callers) /\ lock' # <<>>
      BY <1>1, <2>2
    <3>2. lock = <<>> => Head(lock') = c
      BY <2>2
    <3>3. lock # <<>> => Head(lock') = Head(lock)
      BY <1>1, <2>2
    <3>4. ASSUME NEW d \in Callers, InLock(mcalls'[d])
          PROVE  Head(lock') = d
      BY <1>1, <1>2, <2>2, <3>2, <3>3, <3>4
    <3> QED
      BY <3>1, <3>4
  <2>3. CASE lock' = Tail(lock) /\ InLock(mcalls[c]) /\ ~InLock(n)
    <3>1. lock # <<>> /\ Head(lock) = c
      BY <1>1, <2>3
    <3>2. lock' \in Seq(Callers)
      BY <1>1, <2>3, <3>1
    <3>3. \A d \in Callers : ~InLock(mcalls'[d])
      BY <1>1, <1>2, <2>3, <3>1
    <3> QED
      BY <3>2, <3>3
  <2> QED
    BY <2>1, <2>2, <2>3
<1>5. LockHeld'
  BY <1>4 DEF LockHeld, InLock
<1> QED
  BY <1>2, <1>3, <1>4, <1>5 DEF ControlInv

Opening(call) == call.pc \in {"connect", "list"}

\* A call goes on without opening or closing a connection; k is the client.
Quiet(old, n, k) ==
  /\ n.conn \in {0, old.conn, k}
  /\ n.pc \notin {"published", "disconnect", "stopped", "removing"} /\ old.pc # "disconnect"
  /\ Opening(old) <=> Opening(n)
  /\ Opening(n) => n.conn = old.conn

\* Calls that move on without touching servers and connections keep the
\* invariant.
LEMMA QuietCalls ==
  ASSUME McpInv, ControlInv', watched' \in BOOLEAN,
         UNCHANGED <<server, client, conns, forgotten, strayed, overtaken>>,
         \A d \in Callers : mcalls'[d] = mcalls[d] \/ Quiet(mcalls[d], mcalls'[d], client)
  PROVE  McpInv'
<1>1. McpTypeOK'
  BY DEF McpInv, ControlInv, McpTypeOK
<1>2. ClientOpen'
  BY DEF McpInv, ClientOpen
<1>3. \A d \in Callers : /\ Opening(mcalls'[d]) => Opening(mcalls[d]) /\ mcalls'[d].conn = mcalls[d].conn
                         /\ Opening(mcalls[d]) => Opening(mcalls'[d])
                         /\ mcalls'[d].conn \in {0, mcalls[d].conn, client}
                         /\ mcalls[d].pc = "disconnect" => mcalls'[d] = mcalls[d]
                         /\ mcalls'[d].pc \in {"published", "disconnect", "stopped", "removing"}
                              => mcalls'[d] = mcalls[d]
  BY DEF Quiet
<1>4. StartsOwn'
  <2> SUFFICES ASSUME NEW c \in Callers, Opening(mcalls'[c])
               PROVE  /\ mcalls'[c].conn \in conns' /\ mcalls'[c].conn # client'
                      /\ \A d \in Callers \ {c} : mcalls'[d].conn # mcalls'[c].conn
    BY DEF StartsOwn, Connecting, Opening
  <2>1. /\ mcalls[c].conn \in conns /\ mcalls[c].conn # client /\ mcalls'[c].conn = mcalls[c].conn
        /\ \A d \in Callers \ {c} : mcalls[d].conn # mcalls[c].conn
    BY <1>3 DEF McpInv, StartsOwn, Connecting, Opening
  <2>2. mcalls[c].conn # 0
    BY <2>1 DEF McpInv, ClientOpen
  <2> QED
    BY <1>3, <2>1, <2>2
<1>5. DownIsLost'
  <2>1. /\ server.status \in {"stopped", "failed"} => Lost
        /\ server.status = "stopping" => \E c \in Callers : mcalls[c].pc = "disconnect"
        /\ server.status = "unregistered" => client = 0
        /\ \A c \in Callers :
             /\ Opening(mcalls[c]) => Lost /\ server.status # "unregistered"
             /\ mcalls[c].pc \in {"published", "disconnect"} => client \in {0, mcalls[c].conn}
             /\ mcalls[c].pc = "stopped" => client = 0
    BY DEF McpInv, DownIsLost, Connecting, Opening
  <2>2. Lost' <=> Lost
    BY DEF Lost
  <2> QED
    BY <1>3, <2>1, <2>2 DEF DownIsLost, Connecting, Opening
<1>6. RemovalShows'
  BY <1>3 DEF McpInv, RemovalShows
<1>7. ConnectionsAccounted'
  <2>1. \A k \in conns : k = client \/ k \in strayed \/ \E c \in Callers : Opening(mcalls[c]) /\ mcalls[c].conn = k
    BY DEF McpInv, ConnectionsAccounted, Connecting, Opening
  <2>2. \A k \in conns : k = client \/ k \in strayed \/ \E c \in Callers : Opening(mcalls'[c]) /\ mcalls'[c].conn = k
    BY <1>3, <2>1
  <2> QED
    BY <2>2 DEF ConnectionsAccounted, Connecting, Opening
<1>8. RunningIsServed'
  BY DEF McpInv, RunningIsServed
<1> QED
  BY <1>1, <1>2, <1>4, <1>5, <1>6, <1>7, <1>8 DEF McpInv, ControlInv

\* So does one call that moves, waits for the lock or leaves it.
LEMMA QuietCall ==
  ASSUME McpInv, NEW c \in Callers, NEW n \in McpCall, CallFits(c, n), Quiet(mcalls[c], n, client),
         mcalls' = [mcalls EXCEPT ![c] = n],
         \/ lock' = lock /\ (InLock(n) => InLock(mcalls[c]) \/ (lock # <<>> /\ Head(lock) = c))
         \/ lock' = Append(lock, c) /\ (InLock(n) => lock = <<>>)
         \/ lock' = Tail(lock) /\ InLock(mcalls[c]) /\ ~InLock(n),
         UNCHANGED <<server, client, conns, forgotten, watched, strayed, overtaken>>
  PROVE  McpInv'
<1>1. ControlInv
  BY ControlOf
<1>2. ControlInv'
  BY <1>1, ControlStep
<1>3. \A d \in Callers : mcalls'[d] = mcalls[d] \/ Quiet(mcalls[d], mcalls'[d], client)
  BY <1>1 DEF ControlInv
<1>4. watched' \in BOOLEAN
  BY DEF McpInv, McpTypeOK
<1> QED
  BY <1>2, <1>3, <1>4, QuietCalls

\* What is known of a call.
LEMMA CallerFacts ==
  ASSUME McpInv, NEW c \in Callers
  PROVE  /\ ControlInv /\ mcalls[c] \in McpCall /\ CallFits(c, mcalls[c])
         /\ mcalls[c].todo \in Seq(Operations) /\ mcalls[c].conn \in 0..MaxConns
BY ControlOf, CallFields DEF ControlInv, CallsFit

\* A call that returns or raises where it holds no connection to account for.
LEMMA QuietReturn ==
  ASSUME McpInv, NEW c \in Callers, mcalls[c].todo # <<>>, CallReturns(c) \/ CallRaises(c),
         mcalls[c].pc \notin {"disconnect", "connect", "list"},
         \/ UNCHANGED lock
         \/ lock' = Tail(lock) /\ InLock(mcalls[c]),
         UNCHANGED <<server, client, conns, forgotten, watched, strayed, overtaken>>
  PROVE  McpInv'
<1>1. ControlInv
  BY ControlOf
<1>2. PICK n \in McpCall : /\ mcalls' = [mcalls EXCEPT ![c] = n]
                           /\ CallFits(c, n) /\ ~InLock(n) /\ Resting(n)
  BY <1>1, Returned
<1>3. Quiet(mcalls[c], n, client)
  BY <1>2 DEF Quiet, Resting, Opening
<1> QED
  BY <1>2, <1>3, QuietCall

\* A call that begins.
LEMMA QuietBegin ==
  ASSUME McpInv, NEW c \in Callers, mcalls[c].pc \in {"idle", "sleep", "backoff", "gather"},
         NEW todo \in Seq(Operations), todo # <<>>, \A k \in DOMAIN todo : todo[k] \notin LockedOps,
         c = Monitor => \A k \in DOMAIN todo : todo[k] \in {"start", "check"},
         Begin(c, todo), UNCHANGED <<server, client, conns, forgotten, lock, watched, strayed, overtaken>>
  PROVE  McpInv'
<1>1. PICK n : n = [Idle EXCEPT !.pc = "run", !.todo = todo]
  OBVIOUS
<1>2. n \in McpCall /\ CallFits(c, n) /\ ~InLock(n) /\ n.pc = "run" /\ n.conn = 0
  BY <1>1, NewCall
<1>3. Quiet(mcalls[c], n, client)
  BY <1>2 DEF Quiet, Opening
<1>4. mcalls' = [mcalls EXCEPT ![c] = n]
  BY <1>1 DEF Begin, Set
<1> QED
  BY <1>2, <1>3, <1>4, QuietCall

\* A sequence with another head.
LEMMA HeadReplaced ==
  ASSUME NEW S, NEW s \in Seq(S), s # <<>>, NEW x \in S
  PROVE  LET t == <<x>> \o Tail(s) IN
         /\ t \in Seq(S) /\ t # <<>> /\ DOMAIN t = DOMAIN s
         /\ \A k \in DOMAIN s : t[k] = IF k = 1 THEN x ELSE s[k]
<1> DEFINE t == <<x>> \o Tail(s)
<1>1. Tail(s) \in Seq(S) /\ Len(Tail(s)) = Len(s) - 1 /\ Len(s) \in Nat /\ Len(s) # 0
  OBVIOUS
<1>2. <<x>> \in Seq(S) /\ Len(<<x>>) = 1 /\ <<x>>[1] = x
  OBVIOUS
<1>3. t \in Seq(S) /\ Len(t) = Len(s)
  BY <1>1, <1>2
<1>4. \A k \in 1..Len(s) : t[k] = IF k = 1 THEN x ELSE Tail(s)[k - 1]
  BY <1>1, <1>2
<1>5. \A k \in 1..Len(Tail(s)) : Tail(s)[k] = s[k + 1]
  BY <1>1
<1>6. \A k \in 1..Len(s) : k # 1 => k - 1 \in 1..Len(Tail(s)) /\ (k - 1) + 1 = k
  BY <1>1
<1>7. DOMAIN t = 1..Len(t) /\ DOMAIN s = 1..Len(s)
  BY <1>3
<1> HIDE DEF t
<1> QED
  BY <1>1, <1>3, <1>4, <1>5, <1>6, <1>7 DEF t

\* The lock is awaited or taken.
LEMMA QuietLock ==
  ASSUME McpInv, NEW c \in Callers, NEW op \in LockedOps, mcalls[c].pc = "run",
         c = Monitor => op = "start locked", Lock(c, op),
         UNCHANGED <<server, client, conns, forgotten, watched, strayed, overtaken>>
  PROVE  McpInv'
<1> DEFINE todo == mcalls[c].todo
           new == <<op>> \o Tail(todo)
           pc == IF lock = <<>> THEN "run" ELSE "lock"
           n == [mcalls[c] EXCEPT !.todo = new, !.pc = pc]
<1>1. mcalls[c] \in McpCall /\ CallFits(c, mcalls[c]) /\ todo \in Seq(Operations)
  BY CallerFacts
<1>2. todo # <<>>
  BY <1>1 DEF CallFits
<1>3. op \in Operations
  BY DEF LockedOps, Operations
<1>4. /\ new \in Seq(Operations) /\ new # <<>> /\ DOMAIN new = DOMAIN todo
      /\ \A k \in DOMAIN todo : new[k] = IF k = 1 THEN op ELSE todo[k]
  BY ONLY SMTT(30), <1>1, <1>2, <1>3, HeadReplaced
<1>5. pc \in McpAwaits \union {"run"} /\ pc \in {"run", "lock"} /\ (pc = "run" => lock = <<>>)
  BY DEF McpAwaits
<1>6. mcalls' = [mcalls EXCEPT ![c] = n] /\ lock' = Append(lock, c)
  BY DEF Lock, Set
<1> HIDE DEF new, pc
<1>7. n \in McpCall /\ n.pc = pc /\ n.todo = new /\ n.conn = mcalls[c].conn
  BY <1>1, <1>4, <1>5 DEF McpCall
<1> HIDE DEF n
<1>8. CallFits(c, n)
  <2>1. n.pc \notin LockedAwaits
    BY <1>5, <1>7 DEF LockedAwaits
  <2> QED
    BY <1>1, <1>4, <1>5, <1>7, <2>1 DEF CallFits
<1>9. Quiet(mcalls[c], n, client)
  BY <1>5, <1>7 DEF Quiet, Opening
<1>10. InLock(n) => lock = <<>>
  BY <1>5, <1>7 DEF InLock, LockedAwaits
<1> QED
  BY ONLY McpInv, c \in Callers, UNCHANGED <<server, client, conns, forgotten, watched, strayed, overtaken>>,
     <1>6, <1>7, <1>8, <1>9, <1>10, QuietCall

\* A call goes to another await without changing what it holds.
LEMMA QuietAwait ==
  ASSUME McpInv, NEW c \in Callers, NEW pc \in McpAwaits \union {"run"}, Await(c, pc),
         pc \notin {"ping", "published", "disconnect", "stopped", "removing"},
         mcalls[c].pc # "disconnect",
         Opening(mcalls[c]) <=> pc \in {"connect", "list"},
         pc \notin {"sleep", "backoff", "gather"} => mcalls[c].todo # <<>>,
         pc \in LockedAwaits => mcalls[c].pc \in LockedAwaits,
         \/ pc \notin LockedAwaits \union {"run"}
         \/ InLock(mcalls[c])
         \/ lock # <<>> /\ Head(lock) = c,
         UNCHANGED <<server, client, conns, forgotten, lock, watched, strayed, overtaken>>
  PROVE  McpInv'
<1> DEFINE n == [mcalls[c] EXCEPT !.pc = pc]
<1>1. mcalls[c] \in McpCall /\ CallFits(c, mcalls[c])
  BY CallerFacts
<1>2. /\ n \in McpCall /\ n.pc = pc /\ n.todo = mcalls[c].todo /\ n.conn = mcalls[c].conn
      /\ n.seen = mcalls[c].seen
  BY <1>1 DEF McpCall
<1>3. mcalls' = [mcalls EXCEPT ![c] = n]
  BY DEF Await, Set
<1> HIDE DEF n
<1>4. CallFits(c, n)
  BY <1>1, <1>2 DEF CallFits
<1>5. Quiet(mcalls[c], n, client)
  BY <1>2 DEF Quiet, Opening
<1>6. lock' = lock /\ (InLock(n) => InLock(mcalls[c]) \/ (lock # <<>> /\ Head(lock) = c))
  BY <1>2 DEF InLock
<1> QED
  BY ONLY McpInv, c \in Callers, UNCHANGED <<server, client, conns, forgotten, lock, watched, strayed, overtaken>>,
     <1>2, <1>3, <1>4, <1>5, <1>6, QuietCall

\* A sequence with one element more.
LEMMA OneMore ==
  ASSUME NEW S, NEW s \in Seq(S), NEW x \in S
  PROVE  LET t == s \o <<x>> IN
         /\ t \in Seq(S) /\ t # <<>> /\ DOMAIN t = 1..(Len(s) + 1)
         /\ \A k \in DOMAIN t : t[k] = x \/ (k \in 1..Len(s) /\ t[k] = s[k])
<1> DEFINE t == s \o <<x>>
<1>1. Len(s) \in Nat /\ <<x>> \in Seq(S) /\ Len(<<x>>) = 1 /\ <<x>>[1] = x
  OBVIOUS
<1>2. t \in Seq(S) /\ Len(t) = Len(s) + 1
  BY <1>1
<1>3. \A k \in 1..(Len(s) + 1) : t[k] = x \/ (k \in 1..Len(s) /\ t[k] = s[k])
  BY <1>1
<1>4. DOMAIN t = 1..Len(t) /\ t # <<>>
  BY <1>1, <1>2
<1> HIDE DEF t
<1> QED
  BY <1>2, <1>3, <1>4 DEF t

\* The sequences of operations that calls begin with.
LEMMA Todos ==
  ASSUME NEW b \in BOOLEAN, NEW op \in {"start", "stop", "check", "remove", "watch"},
         NEW op2 \in {"start", "remove", "watch"}
  PROVE  /\ <<op>> \in Seq(Operations) /\ <<op>> # <<>> /\ \A k \in DOMAIN <<op>> : <<op>>[k] = op
         /\ <<"start", "watch">> \in Seq(Operations) /\ <<"start", "watch">> # <<>>
         /\ \A k \in DOMAIN <<"start", "watch">> : <<"start", "watch">>[k] \in {"start", "watch"}
         /\ StopIf(b) \o <<op2>> \in Seq(Operations) /\ StopIf(b) \o <<op2>> # <<>>
         /\ \A k \in DOMAIN (StopIf(b) \o <<op2>>) : (StopIf(b) \o <<op2>>)[k] \in {"stop", op2}
<1>1. {"start", "stop", "check", "remove", "watch"} \subseteq Operations
  BY DEF Operations
<1>2. /\ <<op>> \in Seq(Operations) /\ <<op>> # <<>> /\ \A k \in DOMAIN <<op>> : <<op>>[k] = op
  BY <1>1
<1>3. /\ <<"start", "watch">> \in Seq(Operations) /\ <<"start", "watch">> # <<>>
      /\ \A k \in DOMAIN <<"start", "watch">> : <<"start", "watch">>[k] \in {"start", "watch"}
  BY <1>1
<1>4. /\ StopIf(b) \in Seq(Operations) /\ Len(StopIf(b)) \in Nat
      /\ \A k \in 1..Len(StopIf(b)) : StopIf(b)[k] = "stop"
  <2>1. CASE b
    BY <1>1, <2>1 DEF StopIf
  <2>2. CASE ~b
    BY <2>2 DEF StopIf
  <2> QED
    BY <2>1, <2>2
<1>5. PICK s \in Seq(Operations) : s = StopIf(b) /\ \A k \in 1..Len(s) : s[k] = "stop"
  BY <1>4
<1>6. op2 \in Operations
  BY <1>1
<1>7. PICK u : u = s \o <<op2>>
  OBVIOUS
<1>8. /\ u \in Seq(Operations) /\ u # <<>> /\ DOMAIN u = 1..(Len(s) + 1)
      /\ \A k \in DOMAIN u : u[k] = op2 \/ (k \in 1..Len(s) /\ u[k] = s[k])
  BY ONLY <1>5, <1>6, <1>7, OneMore
<1>9. \A k \in DOMAIN u : u[k] \in {"stop", op2}
  BY <1>5, <1>8
<1> QED
  BY <1>2, <1>3, <1>5, <1>7, <1>8, <1>9

\* The kernel, the monitor and the API handlers are different callers.
LEMMA CallersDiffer == Kernel \in Callers /\ Monitor \in Callers /\ Kernel # Monitor /\ Handlers \subseteq Callers \ {Monitor}
BY McpAssumption DEF Callers

\* An API request keeps the invariant.
LEMMA RequestKeeps ==
  ASSUME McpInv, NEW c \in Handlers, Request(c)
  PROVE  McpInv'
<1>1. c \in Callers /\ c # Monitor
  BY CallersDiffer
<1>2. PICK todo : /\ todo \in {<<"start">>, <<"stop">>, <<"check">>, StopIf(Up) \o <<"start">>,
                               StopIf(server.status = "running") \o <<"start">>, StopIf(Up) \o <<"remove">>}
                  /\ Begin(c, todo)
  BY DEF Request
<1>3. Up \in BOOLEAN /\ (server.status = "running") \in BOOLEAN
  BY DEF Up
<1>4. todo \in Seq(Operations) /\ todo # <<>> /\ \A k \in DOMAIN todo : todo[k] \notin LockedOps
  <2>1. CASE todo \in {<<"start">>, <<"stop">>, <<"check">>}
    <3>1. PICK op \in {"start", "stop", "check"} : todo = <<op>>
      BY <2>1
    <3> QED
      BY <3>1, Todos DEF LockedOps
  <2>2. ASSUME NEW b \in BOOLEAN, NEW op2 \in {"start", "remove"}, todo = StopIf(b) \o <<op2>>
        PROVE  todo \in Seq(Operations) /\ todo # <<>> /\ \A k \in DOMAIN todo : todo[k] \notin LockedOps
    <3>1. todo \in Seq(Operations) /\ todo # <<>> /\ \A k \in DOMAIN todo : todo[k] \in {"stop", op2}
      BY <2>2, Todos
    <3> QED
      BY <3>1 DEF LockedOps
  <2> QED
    BY <1>2, <1>3, <2>1, <2>2
<1>5. mcalls[c].pc = "idle" /\ UNCHANGED <<server, client, conns, forgotten, lock, watched, strayed, overtaken>>
  BY DEF Request
<1> QED
  BY <1>1, <1>2, <1>4, <1>5, QuietBegin

\* start() and shutdown of the manager, and the monitor between its checks,
\* keep it.
LEMMA ManagerKeeps ==
  ASSUME McpInv, MonitorOff, ManagerStart \/ StopAll \/ Watch \/ MonitorWakes \/ MonitorRestarts
  PROVE  McpInv'
<1>1. Kernel \in Callers /\ Monitor \in Callers /\ Kernel # Monitor
  BY CallersDiffer
<1>2. CASE ManagerStart
  <2>1. mcalls[Kernel].pc = "idle" /\ UNCHANGED <<server, client, conns, forgotten, lock, watched, strayed, overtaken>>
    BY <1>2 DEF ManagerStart
  <2>2. PICK todo \in {<<"start", "watch">>, <<"watch">>} : Begin(Kernel, todo)
    BY <1>2 DEF ManagerStart
  <2>3. todo \in Seq(Operations) /\ todo # <<>> /\ \A k \in DOMAIN todo : todo[k] \in {"start", "watch"}
    <3>1. CASE todo = <<"start", "watch">>
      BY <3>1, Todos
    <3>2. CASE todo = <<"watch">>
      <4>1. todo \in Seq(Operations) /\ todo # <<>> /\ \A k \in DOMAIN todo : todo[k] = "watch"
        BY <3>2, Todos
      <4> QED
        BY <4>1
    <3> QED
      BY <2>2, <3>1, <3>2
  <2>4. \A k \in DOMAIN todo : todo[k] \notin LockedOps
    BY <2>3 DEF LockedOps
  <2> QED
    BY <1>1, <2>1, <2>2, <2>3, <2>4, QuietBegin
<1>3. CASE StopAll
  <2>1. mcalls[Kernel].pc = "gather" /\ UNCHANGED <<server, client, conns, forgotten, lock, watched, strayed, overtaken>>
    BY <1>3 DEF StopAll, Suspended
  <2>2. CASE Begin(Kernel, <<"stop">>)
    <3>1. PICK todo : todo = <<"stop">>
      OBVIOUS
    <3>2. todo \in Seq(Operations) /\ todo # <<>> /\ \A k \in DOMAIN todo : todo[k] = "stop"
      BY <3>1, Todos
    <3>3. \A k \in DOMAIN todo : todo[k] \notin LockedOps
      BY <3>2 DEF LockedOps
    <3>4. Begin(Kernel, todo)
      BY <2>2, <3>1
    <3> QED
      BY <1>1, <2>1, <3>2, <3>3, <3>4, QuietBegin
  <2>3. CASE Set(Kernel, Idle)
    <3>1. PICK n : n = [Idle EXCEPT !.pc = "idle"]
      OBVIOUS
    <3>2. n \in McpCall /\ CallFits(Kernel, n) /\ ~InLock(n) /\ n.pc = "idle" /\ n.conn = 0
      BY <1>1, <3>1, RestingCall
    <3>3. n = Idle
      BY <3>1 DEF Idle
    <3>4. Quiet(mcalls[Kernel], n, client)
      BY <2>1, <3>2 DEF Quiet, Opening
    <3> QED
      BY <1>1, <2>1, <2>3, <3>2, <3>3, <3>4, QuietCall DEF Set
  <2> QED
    BY <1>3, <2>2, <2>3 DEF StopAll
<1>4. CASE Watch
  <2>1. PICK r : r = Rest(Monitor)
    OBVIOUS
  <2>2. PICK new \in BOOLEAN : new = (~watched /\ server.status = "running")
    OBVIOUS
  <2>3. /\ mcalls' = [mcalls EXCEPT ![Kernel] = Idle, ![Monitor] = IF new THEN r ELSE @]
        /\ watched' = (watched \/ new)
    BY <1>4, <2>1, <2>2 DEF Watch
  <2>4. /\ mcalls[Kernel].pc = "run" /\ Head(mcalls[Kernel].todo) = "watch"
        /\ UNCHANGED <<server, client, conns, forgotten, lock, strayed, overtaken>>
        /\ watched' \in BOOLEAN
    BY <1>4, <2>3 DEF Watch, Runs, McpInv, McpTypeOK
  <2>5. ControlInv /\ mcalls \in [Callers -> McpCall]
    BY ControlOf DEF ControlInv
  <2>6. /\ Idle \in McpCall /\ CallFits(Kernel, Idle) /\ ~InLock(Idle) /\ Idle.pc = "idle" /\ Idle.conn = 0
    <3>1. PICK n : n = [Idle EXCEPT !.pc = "idle"]
      OBVIOUS
    <3>2. n \in McpCall /\ CallFits(Kernel, n) /\ ~InLock(n) /\ n.pc = "idle" /\ n.conn = 0
      BY <1>1, <3>1, RestingCall
    <3>3. n = Idle
      BY <3>1 DEF Idle
    <3> QED
      BY <3>2, <3>3
  <2>7. r \in McpCall /\ CallFits(Monitor, r) /\ ~InLock(r) /\ r.pc = "sleep" /\ r.conn = 0
    BY <1>1, <2>1, RestingCall DEF Rest
  <2>8. new => mcalls[Monitor].pc = "idle"
    BY <2>2 DEF MonitorOff
  <2>9. /\ mcalls' \in [Callers -> McpCall] /\ mcalls'[Kernel] = Idle
        /\ \A d \in Callers \ {Kernel} : mcalls'[d] = mcalls[d] \/ (new /\ d = Monitor /\ mcalls'[d] = r)
    BY <1>1, <2>3, <2>5, <2>6, <2>7
  <2>10. ControlInv'
    <3>1. \A d \in Callers : CallFits(d, mcalls'[d])
      BY <2>5, <2>6, <2>7, <2>9 DEF ControlInv, CallsFit
    <3>2. \A d \in Callers : InLock(mcalls'[d]) => lock # <<>> /\ Head(lock) = d
      BY <2>5, <2>6, <2>7, <2>9 DEF ControlInv, LockHeld
    <3> QED
      BY <2>4, <2>5, <2>9, <3>1, <3>2 DEF ControlInv, CallsFit, LockHeld, CallFits, InLock
  <2>11. \A d \in Callers : mcalls'[d] = mcalls[d] \/ Quiet(mcalls[d], mcalls'[d], client)
    <3>1. Quiet(mcalls[Kernel], Idle, client)
      BY <2>4, <2>6 DEF Quiet, Opening
    <3>2. new => Quiet(mcalls[Monitor], r, client)
      BY <2>7, <2>8 DEF Quiet, Opening
    <3> QED
      BY <2>9, <3>1, <3>2
  <2> QED
    BY <2>4, <2>10, <2>11, QuietCalls
<1>5. CASE MonitorWakes
  <2>1. mcalls[Monitor].pc = "sleep" /\ UNCHANGED <<server, client, conns, forgotten, lock, watched, strayed, overtaken>>
    BY <1>5 DEF MonitorWakes, Suspended
  <2>2. CASE Begin(Monitor, <<"check">>)
    <3>1. PICK todo : todo = <<"check">>
      OBVIOUS
    <3>2. todo \in Seq(Operations) /\ todo # <<>> /\ \A k \in DOMAIN todo : todo[k] = "check"
      BY <3>1, Todos
    <3>3. \A k \in DOMAIN todo : todo[k] \notin LockedOps /\ todo[k] \in {"start", "check"}
      BY <3>2 DEF LockedOps
    <3>4. Begin(Monitor, todo)
      BY <2>2, <3>1
    <3> QED
      BY <1>1, <2>1, <3>2, <3>3, <3>4, QuietBegin
  <2>3. CASE Await(Monitor, "backoff")
    <3>1. "backoff" \in McpAwaits \union {"run"} /\ "backoff" \notin LockedAwaits \union {"run"}
      BY DEF McpAwaits, LockedAwaits
    <3>2. ~Opening(mcalls[Monitor])
      BY <2>1 DEF Opening
    <3> QED
      BY <1>1, <2>1, <2>3, <3>1, <3>2, QuietAwait
  <2> QED
    BY <1>5, <2>2, <2>3 DEF MonitorWakes
<1>6. CASE MonitorRestarts
  <2>1. mcalls[Monitor].pc = "backoff" /\ UNCHANGED <<server, client, conns, forgotten, lock, watched, strayed, overtaken>>
    BY <1>6 DEF MonitorRestarts, Suspended
  <2>2. PICK todo : todo = <<"start">>
    OBVIOUS
  <2>3. todo \in Seq(Operations) /\ todo # <<>> /\ \A k \in DOMAIN todo : todo[k] = "start"
    BY <2>2, Todos
  <2>4. \A k \in DOMAIN todo : todo[k] \notin LockedOps /\ todo[k] \in {"start", "check"}
    BY <2>3 DEF LockedOps
  <2>5. Begin(Monitor, todo)
    BY <1>6, <2>2 DEF MonitorRestarts
  <2> QED
    BY <1>1, <2>1, <2>3, <2>4, <2>5, QuietBegin
<1> QED
  BY <1>2, <1>3, <1>4, <1>5, <1>6

----------------------------------------------------------------------------
(* The steps of a call. *)

\* A call that has control: what it is at, and what it has to do.
LEMMA RunningCall ==
  ASSUME McpInv, NEW c \in Callers, NEW op, Runs(c, op)
  PROVE  /\ mcalls[c].pc = "run" /\ mcalls[c].todo # <<>> /\ Head(mcalls[c].todo) = op
         /\ op \in LockedOps => InLock(mcalls[c])
         /\ c = Monitor => op \in {"start", "start locked", "check"}
<1>1. mcalls[c].pc = "run" /\ Head(mcalls[c].todo) = op
  BY DEF Runs
<1>2. CallFits(c, mcalls[c]) /\ mcalls[c].todo \in Seq(Operations)
  BY CallerFacts
<1>3. mcalls[c].todo # <<>>
  BY <1>1, <1>2 DEF CallFits
<1>4. Head(mcalls[c].todo) = mcalls[c].todo[1] /\ 1 \in DOMAIN mcalls[c].todo
  BY <1>2, <1>3
<1>5. op \in LockedOps => InLock(mcalls[c])
  BY <1>1 DEF InLock
<1>6. c = Monitor => op \in {"start", "start locked", "check"}
  BY <1>1, <1>2, <1>4 DEF CallFits
<1> QED
  BY <1>1, <1>3, <1>5, <1>6

\* start_server() up to the lock keeps it.
LEMMA StartServerKeeps ==
  ASSUME McpInv, NEW c \in Callers, StartServer(c)
  PROVE  McpInv'
<1>1. Runs(c, "start") /\ UNCHANGED <<server, client, conns, forgotten, watched, strayed, overtaken>>
  BY DEF StartServer
<1>2. mcalls[c].pc = "run" /\ mcalls[c].todo # <<>>
  BY <1>1, RunningCall
<1>3. CASE (CallReturns(c) \/ CallRaises(c)) /\ UNCHANGED lock
  BY <1>1, <1>2, <1>3, QuietReturn
<1>4. CASE Lock(c, "start locked")
  BY <1>1, <1>2, <1>4, QuietLock DEF LockedOps
<1> QED
  BY <1>3, <1>4 DEF StartServer

\* stop_server() up to the lock keeps it.
LEMMA StopServerKeeps ==
  ASSUME McpInv, NEW c \in Callers, StopServer(c)
  PROVE  McpInv'
<1>1. Runs(c, "stop") /\ UNCHANGED <<server, client, conns, forgotten, watched, strayed, overtaken>>
  BY DEF StopServer
<1>2. mcalls[c].pc = "run" /\ mcalls[c].todo # <<>>
  BY <1>1, RunningCall
<1>3. CASE (CallReturns(c) \/ CallRaises(c)) /\ UNCHANGED lock
  BY <1>1, <1>2, <1>3, QuietReturn
<1>4. CASE Lock(c, "stop locked")
  <2>1. c = Monitor => "stop" \in {"start", "start locked", "check"}
    BY <1>1, RunningCall
  <2>2. c # Monitor
    BY <2>1
  <2> QED
    BY <1>1, <1>2, <1>4, <2>2, QuietLock DEF LockedOps
<1> QED
  BY <1>3, <1>4 DEF StopServer

\* A suspended call has something to do.
LEMMA SuspendedCall ==
  ASSUME McpInv, NEW c \in Callers, NEW pc, Suspended(c, pc), pc \notin {"idle", "sleep", "backoff", "gather"}
  PROVE  /\ mcalls[c].pc = pc /\ mcalls[c].todo # <<>>
         /\ pc \in LockedAwaits => InLock(mcalls[c])
BY CallerFacts DEF Suspended, CallFits, InLock

\* The resumptions that only move a call on keep it.
LEMMA AwaitsKeep ==
  ASSUME McpInv, NEW c \in Callers, McpGranted(c) \/ Connected(c) \/ StartEnds(c)
  PROVE  McpInv'
<1>1. CASE McpGranted(c)
  <2>1. Suspended(c, "lock") /\ lock # <<>> /\ Head(lock) = c /\ Await(c, "run")
        /\ UNCHANGED <<server, client, conns, forgotten, lock, watched, strayed, overtaken>>
    BY <1>1 DEF McpGranted
  <2>2. mcalls[c].pc = "lock" /\ mcalls[c].todo # <<>> /\ ~Opening(mcalls[c])
    BY <2>1, SuspendedCall DEF Opening
  <2>3. "run" \notin LockedAwaits
    BY DEF LockedAwaits
  <2> QED
    BY <2>1, <2>2, <2>3, QuietAwait
<1>2. CASE Connected(c)
  <2>1. Suspended(c, "connect") /\ Await(c, "list")
        /\ UNCHANGED <<server, client, conns, forgotten, lock, watched, strayed, overtaken>>
    BY <1>2 DEF Connected
  <2>2. mcalls[c].pc = "connect" /\ mcalls[c].todo # <<>> /\ InLock(mcalls[c]) /\ Opening(mcalls[c])
    BY <2>1, SuspendedCall DEF Opening, LockedAwaits
  <2>3. "list" \in McpAwaits \union {"run"} /\ mcalls[c].pc \in LockedAwaits
    BY <2>2 DEF McpAwaits, LockedAwaits
  <2> QED
    BY <2>1, <2>2, <2>3, QuietAwait
<1>3. CASE StartEnds(c)
  <2>1. /\ Suspended(c, "published") \/ Suspended(c, "failed")
        /\ CallReturns(c) \/ CallRaises(c)
        /\ lock' = Tail(lock) /\ UNCHANGED <<server, client, conns, forgotten, watched, strayed, overtaken>>
    BY <1>3 DEF StartEnds, Unlock
  <2>2. mcalls[c].pc \in {"published", "failed"} /\ mcalls[c].todo # <<>> /\ InLock(mcalls[c])
    BY <2>1, SuspendedCall DEF LockedAwaits
  <2> QED
    BY <2>1, <2>2, QuietReturn
<1> QED
  BY <1>1, <1>2, <1>3

\* The health check up to its ping, and its cancellation, keep it.
LEMMA ChecksKeep ==
  ASSUME McpInv, NEW c \in Callers, CheckHealth(c) \/ PingCancelled(c)
  PROVE  McpInv'
<1>1. CASE CheckHealth(c)
  <2>1. Runs(c, "check") /\ UNCHANGED <<server, client, conns, forgotten, lock, watched, strayed, overtaken>>
    BY <1>1 DEF CheckHealth
  <2>2. mcalls[c].pc = "run" /\ mcalls[c].todo # <<>> /\ mcalls[c] \in McpCall /\ CallFits(c, mcalls[c])
    BY <2>1, RunningCall, CallerFacts
  <2>3. CASE CallReturns(c)
    BY <2>1, <2>2, <2>3, QuietReturn
  <2>4. CASE /\ server.status = "running"
             /\ Set(c, [mcalls[c] EXCEPT !.pc = "ping", !.seen = server, !.conn = client])
    <3>1. server \in Detail /\ client \in 0..MaxConns
      BY <2>4 DEF McpInv, McpTypeOK, Absent
    <3>2. PICK n : n = [mcalls[c] EXCEPT !.pc = "ping", !.seen = server, !.conn = client]
      OBVIOUS
    <3>3. n \in McpCall /\ n.pc = "ping" /\ n.seen = server /\ n.conn = client /\ n.todo = mcalls[c].todo
      BY <2>2, <3>1, <3>2 DEF McpCall, McpAwaits
    <3>4. CallFits(c, n) /\ ~InLock(n)
      BY <2>2, <2>4, <3>3 DEF CallFits, InLock, LockedAwaits
    <3>5. Quiet(mcalls[c], n, client)
      BY <2>2, <3>3 DEF Quiet, Opening
    <3> QED
      BY <2>1, <2>4, <3>2, <3>3, <3>4, <3>5, QuietCall DEF Set
  <2> QED
    BY <1>1, <2>3, <2>4 DEF CheckHealth
<1>2. CASE PingCancelled(c)
  <2>1. mcalls[c].pc = "ping" /\ Set(c, Idle)
        /\ UNCHANGED <<server, client, conns, forgotten, lock, watched, strayed, overtaken>>
    BY <1>2 DEF PingCancelled, Suspended
  <2>2. PICK n : n = [Idle EXCEPT !.pc = "idle"]
    OBVIOUS
  <2>3. n \in McpCall /\ CallFits(c, n) /\ ~InLock(n) /\ n.pc = "idle" /\ n.conn = 0
    BY <2>2, RestingCall
  <2>4. n = Idle
    BY <2>2 DEF Idle
  <2>5. Quiet(mcalls[c], n, client)
    BY <2>1, <2>3 DEF Quiet, Opening
  <2> QED
    BY <2>1, <2>3, <2>4, <2>5, QuietCall DEF Set
<1> QED
  BY <1>1, <1>2

\* The lock is held by one call.
LEMMA Alone ==
  ASSUME McpInv, NEW c \in Callers, InLock(mcalls[c])
  PROVE  \A d \in Callers \ {c} : ~InLock(mcalls[d]) /\ mcalls[d].pc \notin LockedAwaits
<1>1. \A d \in Callers : InLock(mcalls[d]) => Head(lock) = d
  BY DEF McpInv, LockHeld
<1> QED
  BY <1>1 DEF InLock

\* A step of the call that holds the lock: what the others hold is settled.
LEMMA LockedStep ==
  ASSUME McpInv, NEW c \in Callers, InLock(mcalls[c]), NEW n \in McpCall, CallFits(c, n),
         mcalls' = [mcalls EXCEPT ![c] = n],
         \/ lock' = lock /\ n.pc \in LockedAwaits
         \/ lock' = Tail(lock) /\ ~InLock(n),
         server' \in Detail, client' \in 0..MaxConns, conns' \subseteq 1..MaxConns,
         forgotten' \subseteq 1..MaxConns, strayed' \subseteq conns', overtaken' = FALSE, watched' = watched,
         client' # 0 => client' \in conns',
         Opening(n) => /\ n.conn \in conns' /\ n.conn # client' /\ Lost'
                       /\ \A d \in Callers \ {c} : mcalls[d].conn # n.conn,
         server'.status \in {"stopped", "failed"} => Lost',
         server'.status = "stopping" => n.pc = "disconnect",
         server'.status = "running" => client' \in conns' /\ \A d \in Callers \ {c} : mcalls[d].conn # client',
         n.pc \in {"published", "disconnect"} => client' \in {0, n.conn},
         n.pc = "stopped" => client' = 0,
         n.pc # "removing",
         \A k \in conns' : k = client' \/ k \in strayed' \/ (Opening(n) /\ k = n.conn)
  PROVE  McpInv'
<1>1. ControlInv /\ mcalls \in [Callers -> McpCall]
  BY ControlOf DEF ControlInv
<1>2. ControlInv'
  <2>1. lock' = lock => (InLock(n) => InLock(mcalls[c]) \/ (lock # <<>> /\ Head(lock) = c))
    OBVIOUS
  <2> QED
    BY <1>1, <2>1, ControlStep
<1>3. /\ mcalls'[c] = n
      /\ \A d \in Callers \ {c} : mcalls'[d] = mcalls[d] /\ mcalls[d].pc \notin LockedAwaits
  BY <1>1, Alone
<1>4. McpTypeOK'
  BY <1>2 DEF McpInv, ControlInv, McpTypeOK
<1>5. ClientOpen'
  BY DEF ClientOpen
<1>6. \A d \in Callers : mcalls'[d].pc \in LockedAwaits => d = c /\ mcalls'[d] = n
  BY <1>3
<1>7. StartsOwn'
  <2> SUFFICES ASSUME NEW d \in Callers, mcalls'[d].pc \in {"connect", "list"}
               PROVE  /\ mcalls'[d].conn \in conns' /\ mcalls'[d].conn # client'
                      /\ \A e \in Callers \ {d} : mcalls'[e].conn # mcalls'[d].conn
    BY DEF StartsOwn, Connecting
  <2>1. d = c /\ mcalls'[d] = n /\ Opening(n)
    BY <1>6 DEF Opening, LockedAwaits
  <2> QED
    BY <1>3, <2>1
<1>8. DownIsLost'
  <2>1. \A st : server'.status = st => st \in {"stopped", "starting", "running", "stopping", "failed"}
    BY DEF Detail
  <2>2. \A d \in Callers : /\ mcalls'[d].pc \in {"connect", "list"} => Lost'
                           /\ mcalls'[d].pc \in {"published", "disconnect"} => client' \in {0, mcalls'[d].conn}
                           /\ mcalls'[d].pc = "stopped" => client' = 0
    BY <1>6 DEF Opening, LockedAwaits
  <2>3. server'.status = "stopping" => mcalls'[c].pc = "disconnect"
    BY <1>3
  <2> QED
    BY <2>1, <2>2, <2>3 DEF DownIsLost, Connecting
<1>9. RemovalShows'
  BY <1>3 DEF RemovalShows
<1>10. ConnectionsAccounted'
  BY <1>3 DEF ConnectionsAccounted, Connecting, Opening
<1>11. RunningIsServed'
  BY DEF RunningIsServed
<1> QED
  BY <1>2, <1>4, <1>5, <1>7, <1>8, <1>9, <1>10, <1>11 DEF McpInv, ControlInv

\* The entry with another status.
LEMMA StatusStored ==
  ASSUME NEW d \in Detail, NEW st \in {"stopped", "starting", "running", "stopping", "failed"}
  PROVE  WithStatus(d, st) \in Detail /\ WithStatus(d, st).status = st
<1>1. RestartLimit \in Nat
  BY McpAssumption
<1>2. d.restarts \in 0..RestartLimit
  BY DEF Detail
<1>3. (IF st = "failed" /\ d.restarts < RestartLimit THEN d.restarts + 1 ELSE d.restarts) \in 0..RestartLimit
  BY <1>1, <1>2
<1> QED
  BY <1>3 DEF WithStatus, Detail

\* What a call in the lock that is not opening a connection leaves of the others.
LEMMA NoneOpening ==
  ASSUME McpInv, NEW c \in Callers, InLock(mcalls[c]), ~Opening(mcalls[c])
  PROVE  \A k \in conns : k = client \/ k \in strayed
<1>1. \A d \in Callers : ~Opening(mcalls[d])
  BY Alone DEF Opening, LockedAwaits
<1> QED
  BY <1>1 DEF McpInv, ConnectionsAccounted, Connecting, Opening

\* The registered client and the strayed connections are open ones.
LEMMA DataFacts ==
  ASSUME McpInv
  PROVE  /\ client \in 0..MaxConns /\ conns \subseteq 1..MaxConns /\ strayed \subseteq conns
         /\ forgotten \subseteq 1..MaxConns
         /\ client # 0 => client \in conns
         /\ 0 \notin conns
         /\ server \in Detail \union {Absent, [status |-> "unregistered"]}
BY DEF McpInv, McpTypeOK, ClientOpen

\* An entry that is there is a detail.
LEMMA PresentEntry == McpInv /\ Present => server \in Detail
BY DEF McpInv, McpTypeOK, Present, Absent

\* start_server() under the lock opens a connection for a server not up.
LEMMA StartLockedKeeps ==
  ASSUME McpInv, NEW c \in Callers, StartLocked(c)
  PROVE  McpInv'
<1>1. Runs(c, "start locked") /\ UNCHANGED <<client, forgotten, watched, strayed>>
  BY DEF StartLocked
<1>2. mcalls[c].pc = "run" /\ mcalls[c].todo # <<>> /\ InLock(mcalls[c]) /\ ~Opening(mcalls[c])
  <2>1. "start locked" \in LockedOps
    BY DEF LockedOps
  <2>2. mcalls[c].pc = "run" /\ mcalls[c].todo # <<>> /\ InLock(mcalls[c])
    BY <1>1, <2>1, RunningCall
  <2> QED
    BY <2>2 DEF Opening
<1>3. CASE (CallReturns(c) \/ CallRaises(c)) /\ Unlock /\ UNCHANGED <<server, conns, overtaken>>
  BY <1>1, <1>2, <1>3, QuietReturn DEF Unlock
<1>4. CASE /\ Present /\ ~Up
           /\ server' = WithStatus(server, "starting") /\ overtaken' = FALSE
           /\ \E k \in Fresh :
                /\ conns' = conns \union {k}
                /\ Set(c, [mcalls[c] EXCEPT !.pc = "connect", !.seen = server, !.conn = k])
           /\ UNCHANGED lock
  <2>1. PICK k \in Fresh : /\ conns' = conns \union {k}
                           /\ Set(c, [mcalls[c] EXCEPT !.pc = "connect", !.seen = server, !.conn = k])
    BY <1>4
  <2>2. server \in Detail /\ server # Absent
    BY <1>4, PresentEntry DEF Present, Absent
  <2>3. server' \in Detail /\ server'.status = "starting"
    BY <1>4, <2>2, StatusStored
  <2>4. k \in 1..MaxConns /\ k \notin conns /\ \A d \in Callers : mcalls[d].conn # k
    <3>1. MaxConns \in Nat
      BY McpAssumption
    <3> QED
      BY <3>1 DEF Fresh, Named
  <2>5. k \in 0..MaxConns
    BY <2>4, McpAssumption
  <2>6. mcalls[c] \in McpCall /\ CallFits(c, mcalls[c])
    BY CallerFacts
  <2>7. PICK n : n = [mcalls[c] EXCEPT !.pc = "connect", !.seen = server, !.conn = k]
    OBVIOUS
  <2>8. /\ n \in McpCall /\ n.pc = "connect" /\ n.seen = server /\ n.conn = k /\ n.todo = mcalls[c].todo
    BY <2>2, <2>5, <2>6, <2>7 DEF McpCall, McpAwaits
  <2>9. CallFits(c, n) /\ Opening(n) /\ n.pc \in LockedAwaits
    BY <1>2, <2>2, <2>6, <2>8 DEF CallFits, Opening, LockedAwaits
  <2>10. Lost /\ Lost'
    <3>1. \A d \in Callers : mcalls[d].pc # "disconnect"
      BY <1>2, Alone DEF LockedAwaits
    <3>2. server.status \in {"stopped", "stopping", "failed"}
      BY <1>4, <2>2 DEF Up, Detail
    <3>3. Lost
      BY <3>1, <3>2 DEF McpInv, DownIsLost
    <3> QED
      BY <1>1, <3>3 DEF Lost
  <2>11. \A j \in conns : j = client \/ j \in strayed
    BY <1>2, NoneOpening
  <2>12. \A j \in conns' : j = client' \/ j \in strayed' \/ j = n.conn
    BY <1>1, <2>1, <2>8, <2>11
  <2>13. /\ client' \in 0..MaxConns /\ conns' \subseteq 1..MaxConns /\ strayed' \subseteq conns'
         /\ forgotten' \subseteq 1..MaxConns
         /\ client' # 0 => client' \in conns'
         /\ n.conn \in conns' /\ n.conn # client'
    <3>1. k # 0 /\ k # client
      BY <2>4, DataFacts, McpAssumption
    <3>2. /\ client \in 0..MaxConns /\ conns \subseteq 1..MaxConns /\ strayed \subseteq conns
          /\ forgotten \subseteq 1..MaxConns
          /\ client # 0 => client \in conns
      BY DataFacts
    <3>3. conns' = conns \union {k} /\ client' = client /\ strayed' = strayed /\ forgotten' = forgotten
      BY <1>1, <2>1
    <3> QED
      BY ONLY <2>4, <2>8, <3>1, <3>2, <3>3
  <2>14. mcalls' = [mcalls EXCEPT ![c] = n] /\ lock' = lock
    BY <1>4, <2>1, <2>7 DEF Set
  <2> QED
    BY ONLY McpInv, c \in Callers, <1>1, <1>2, <1>4, <2>3, <2>4, <2>8, <2>9, <2>10, <2>12, <2>13, <2>14, LockedStep
<1> QED
  BY <1>3, <1>4 DEF StartLocked

\* The started server is marked running over the connection it was given.
LEMMA ToolsListedKeeps ==
  ASSUME McpInv, NEW c \in Callers, ToolsListed(c)
  PROVE  McpInv'
<1>1. /\ Suspended(c, "list") /\ server' = WithStatus(mcalls[c].seen, "running") /\ overtaken' = FALSE
      /\ client' = mcalls[c].conn /\ Await(c, "published") /\ UNCHANGED <<conns, forgotten, lock, watched, strayed>>
  BY DEF ToolsListed
<1>2. mcalls[c].pc = "list" /\ mcalls[c].todo # <<>> /\ InLock(mcalls[c]) /\ mcalls[c].pc \in LockedAwaits
  BY <1>1, SuspendedCall DEF LockedAwaits
<1>3. mcalls[c] \in McpCall /\ CallFits(c, mcalls[c]) /\ mcalls[c].conn \in 0..MaxConns
  BY CallerFacts
<1>4. mcalls[c].seen \in Detail
  BY <1>2, <1>3, CallFields DEF CallFits
<1>5. server' \in Detail /\ server'.status = "running"
  BY <1>1, <1>4, StatusStored
<1>6. PICK n : n = [mcalls[c] EXCEPT !.pc = "published"]
  OBVIOUS
<1>7. /\ n \in McpCall /\ n.pc = "published" /\ n.seen = mcalls[c].seen /\ n.conn = mcalls[c].conn
      /\ n.todo = mcalls[c].todo
  BY <1>3, <1>6 DEF McpCall, McpAwaits
<1>8. CallFits(c, n) /\ ~Opening(n) /\ n.pc \in LockedAwaits
  BY <1>2, <1>3, <1>7 DEF CallFits, Opening, LockedAwaits
<1>9. mcalls' = [mcalls EXCEPT ![c] = n]
  BY <1>1, <1>6 DEF Await, Set
<1>10. /\ mcalls[c].conn \in conns /\ Lost
       /\ \A d \in Callers \ {c} : mcalls[d].conn # mcalls[c].conn
  BY <1>2 DEF McpInv, StartsOwn, DownIsLost, Connecting
<1>11. \A j \in conns : j = client \/ j \in strayed \/ j = mcalls[c].conn
  <2>1. \A d \in Callers \ {c} : ~Opening(mcalls[d])
    BY <1>2, Alone DEF Opening, LockedAwaits
  <2> QED
    BY <2>1 DEF McpInv, ConnectionsAccounted, Connecting, Opening
<1>12. \A j \in conns' : j = client' \/ j \in strayed'
  BY <1>1, <1>10, <1>11, DataFacts DEF Lost
<1>13. /\ client' \in 0..MaxConns /\ conns' \subseteq 1..MaxConns /\ strayed' \subseteq conns'
       /\ forgotten' \subseteq 1..MaxConns
       /\ client' \in conns' /\ client' = n.conn
       /\ \A d \in Callers \ {c} : mcalls[d].conn # client'
  BY <1>1, <1>3, <1>7, <1>10, DataFacts
<1> QED
  BY ONLY McpInv, c \in Callers, <1>1, <1>2, <1>5, <1>7, <1>8, <1>9, <1>12, <1>13, LockedStep

\* A start that fails marks the server failed; its connection is strayed.
LEMMA StartFailsKeeps ==
  ASSUME McpInv, NEW c \in Callers, StartFails(c)
  PROVE  McpInv'
<1>1. PICK pc \in {"connect", "list", "published"} : Suspended(c, pc)
  BY DEF StartFails
<1>2. /\ server' = WithStatus(mcalls[c].seen, "failed") /\ overtaken' = FALSE
      /\ strayed' = strayed \union ({mcalls[c].conn} \intersect conns)
      /\ Set(c, [mcalls[c] EXCEPT !.pc = "failed", !.conn = 0]) /\ UNCHANGED <<client, conns, forgotten, lock, watched>>
  BY DEF StartFails
<1>3. mcalls[c].pc = pc /\ mcalls[c].todo # <<>> /\ InLock(mcalls[c]) /\ mcalls[c].pc \in LockedAwaits
  BY <1>1, SuspendedCall DEF LockedAwaits
<1>4. mcalls[c] \in McpCall /\ CallFits(c, mcalls[c]) /\ mcalls[c].conn \in 0..MaxConns /\ 0 \in 0..MaxConns
  BY CallerFacts, McpAssumption
<1>5. mcalls[c].seen \in Detail
  BY <1>3, <1>4, CallFields DEF CallFits
<1>6. server' \in Detail /\ server'.status = "failed"
  BY <1>2, <1>5, StatusStored
<1>7. PICK n : n = [mcalls[c] EXCEPT !.pc = "failed", !.conn = 0]
  OBVIOUS
<1>8. /\ n \in McpCall /\ n.pc = "failed" /\ n.seen = mcalls[c].seen /\ n.conn = 0
      /\ n.todo = mcalls[c].todo
  BY <1>4, <1>7 DEF McpCall, McpAwaits
<1>9. CallFits(c, n) /\ ~Opening(n) /\ n.pc \in LockedAwaits
  BY <1>3, <1>4, <1>8 DEF CallFits, Opening, LockedAwaits
<1>10. mcalls' = [mcalls EXCEPT ![c] = n]
  BY <1>2, <1>7 DEF Set
<1>11. Lost'
  <2>1. CASE pc = "published"
    <3>1. client \in {0, mcalls[c].conn}
      BY <1>3, <2>1 DEF McpInv, DownIsLost
    <3> QED
      BY <1>2, <3>1, DataFacts DEF Lost
  <2>2. CASE pc # "published"
    <3>1. Lost
      BY <1>3, <2>2 DEF McpInv, DownIsLost, Connecting
    <3> QED
      BY <1>2, <3>1 DEF Lost
  <2> QED
    BY <2>1, <2>2
<1>12. \A j \in conns : j = client \/ j \in strayed \/ j = mcalls[c].conn
  <2>1. \A d \in Callers \ {c} : ~Opening(mcalls[d])
    BY <1>3, Alone DEF Opening, LockedAwaits
  <2> QED
    BY <2>1 DEF McpInv, ConnectionsAccounted, Connecting, Opening
<1>13. /\ client' \in 0..MaxConns /\ conns' \subseteq 1..MaxConns /\ strayed' \subseteq conns'
       /\ forgotten' \subseteq 1..MaxConns
       /\ client' # 0 => client' \in conns'
       /\ \A j \in conns' : j = client' \/ j \in strayed'
  BY <1>2, <1>12, DataFacts
<1> QED
  BY ONLY McpInv, c \in Callers, <1>2, <1>3, <1>6, <1>8, <1>9, <1>10, <1>11, <1>13, LockedStep

\* stop_server() under the lock marks the server before it disconnects.
LEMMA StopLockedKeeps ==
  ASSUME McpInv, NEW c \in Callers, StopLocked(c)
  PROVE  McpInv'
<1>1. Runs(c, "stop locked") /\ UNCHANGED <<client, conns, forgotten, watched, strayed>>
  BY DEF StopLocked
<1>2. /\ mcalls[c].pc = "run" /\ mcalls[c].todo # <<>> /\ InLock(mcalls[c]) /\ ~Opening(mcalls[c])
      /\ c # Monitor
  <2>1. "stop locked" \in LockedOps
    BY DEF LockedOps
  <2>2. mcalls[c].pc = "run" /\ mcalls[c].todo # <<>> /\ InLock(mcalls[c])
    BY <1>1, <2>1, RunningCall
  <2>3. c = Monitor => "stop locked" \in {"start", "start locked", "check"}
    BY <1>1, RunningCall
  <2> QED
    BY <2>2, <2>3 DEF Opening
<1>3. CASE (CallReturns(c) \/ CallRaises(c)) /\ Unlock /\ UNCHANGED <<server, overtaken>>
  BY <1>1, <1>2, <1>3, QuietReturn DEF Unlock
<1>4. CASE /\ Present /\ overtaken' = FALSE
           /\ server' = WithStatus(server, IF client # 0 THEN "stopping" ELSE "stopped")
           /\ Set(c, [mcalls[c] EXCEPT !.pc = IF client # 0 THEN "disconnect" ELSE "stopped",
                                       !.seen = server, !.conn = client])
           /\ UNCHANGED lock
  <2>1. PICK pc \in {"disconnect", "stopped"} : pc = IF client # 0 THEN "disconnect" ELSE "stopped"
    OBVIOUS
  <2>2. PICK st \in {"stopping", "stopped"} : st = IF client # 0 THEN "stopping" ELSE "stopped"
    OBVIOUS
  <2>3. server \in Detail /\ server # Absent
    BY <1>4, PresentEntry DEF Present, Absent
  <2>4. server' \in Detail /\ server'.status = st
    BY <1>4, <2>2, <2>3, StatusStored
  <2>5. mcalls[c] \in McpCall /\ CallFits(c, mcalls[c]) /\ client \in 0..MaxConns
    BY CallerFacts, DataFacts
  <2>6. PICK n : n = [mcalls[c] EXCEPT !.pc = pc, !.seen = server, !.conn = client]
    OBVIOUS
  <2>7. n \in McpCall /\ n.pc = pc /\ n.seen = server /\ n.conn = client /\ n.todo = mcalls[c].todo
    BY <2>1, <2>3, <2>5, <2>6 DEF McpCall, McpAwaits
  <2>8. CallFits(c, n) /\ ~Opening(n) /\ n.pc \in LockedAwaits
    BY <1>2, <2>1, <2>3, <2>5, <2>7 DEF CallFits, Opening, LockedAwaits
  <2>9. mcalls' = [mcalls EXCEPT ![c] = n] /\ lock' = lock
    BY <1>4, <2>1, <2>6 DEF Set
  <2>10. \A j \in conns : j = client \/ j \in strayed
    BY <1>2, NoneOpening
  <2>11. /\ client' \in 0..MaxConns /\ conns' \subseteq 1..MaxConns /\ strayed' \subseteq conns'
         /\ forgotten' \subseteq 1..MaxConns
         /\ client' # 0 => client' \in conns'
         /\ \A j \in conns' : j = client' \/ j \in strayed'
    BY <1>1, <2>10, DataFacts
  <2>12. /\ st = "stopped" => client' = 0 /\ Lost'
         /\ st = "stopping" => pc = "disconnect"
         /\ pc = "stopped" => client' = 0
    BY <1>1, <2>1, <2>2 DEF Lost
  <2>13. client' \in {0, n.conn}
    BY <1>1, <2>7
  <2> QED
    BY ONLY McpInv, c \in Callers, <1>1, <1>2, <1>4, <2>1, <2>2, <2>4, <2>7, <2>8, <2>9, <2>11, <2>12, <2>13, LockedStep
<1> QED
  BY <1>3, <1>4 DEF StopLocked

\* A stop or a deletion disconnects one connection.
LEMMA ClosedConnection ==
  ASSUME McpInv, NEW c \in Callers, mcalls[c].pc \in {"disconnect", "removing"}
  PROVE  mcalls[c].conn \in 1..MaxConns
<1>1. CallFits(c, mcalls[c]) /\ mcalls[c].conn \in 0..MaxConns
  BY CallerFacts
<1>2. mcalls[c].conn # 0
  BY <1>1 DEF CallFits
<1>3. MaxConns \in Nat
  BY McpAssumption
<1> QED
  BY ONLY <1>1, <1>2, <1>3

\* A disconnected client is forgotten, or has a process that was lost.
LEMMA DisconnectedData ==
  ASSUME McpInv, NEW k \in 1..MaxConns, NEW lost \in SUBSET conns, Disconnect(k, lost)
  PROVE  /\ conns' \subseteq 1..MaxConns /\ forgotten' \subseteq 1..MaxConns
         /\ strayed' \subseteq conns' /\ conns \ {k} \subseteq conns'
         /\ conns' \ strayed' \subseteq conns \ (lost \union {k})
BY DataFacts DEF Disconnect

\* The connection the stop found is closed.
LEMMA StopDisconnectsKeeps ==
  ASSUME McpInv, NEW c \in Callers, StopDisconnects(c)
  PROVE  McpInv'
<1>1. /\ Suspended(c, "disconnect") /\ Disconnect(mcalls[c].conn, strayed)
      /\ overtaken' = FALSE /\ watched' = watched
  BY DEF StopDisconnects
<1>2. /\ mcalls[c].pc = "disconnect" /\ mcalls[c].todo # <<>> /\ InLock(mcalls[c])
      /\ mcalls[c].pc \in LockedAwaits /\ ~Opening(mcalls[c])
  BY <1>1, SuspendedCall DEF LockedAwaits, Opening
<1>3. ControlInv /\ mcalls[c] \in McpCall /\ CallFits(c, mcalls[c]) /\ 0 \in 0..MaxConns
  BY CallerFacts, McpAssumption
<1>4. mcalls[c].seen \in Detail
  BY <1>2, <1>3, CallFields DEF CallFits
<1>5. client \in {0, mcalls[c].conn}
  BY <1>2 DEF McpInv, DownIsLost
<1>6. \A j \in conns : j = client \/ j \in strayed
  BY <1>2, NoneOpening
<1>7. /\ conns' \subseteq 1..MaxConns /\ forgotten' \subseteq 1..MaxConns /\ strayed' \subseteq conns'
      /\ \A j \in conns' : j \in strayed'
  <2>1. conns \subseteq 1..MaxConns /\ strayed \subseteq conns /\ 0 \notin conns
    BY DataFacts
  <2>2. mcalls[c].conn \in 1..MaxConns
    BY <1>2, ClosedConnection
  <2>3. /\ conns' \subseteq 1..MaxConns /\ forgotten' \subseteq 1..MaxConns
        /\ strayed' \subseteq conns' /\ conns' \ strayed' \subseteq conns \ (strayed \union {mcalls[c].conn})
    BY <1>1, <2>1, <2>2, DisconnectedData
  <2> QED
    BY ONLY <1>5, <1>6, <2>1, <2>3
<1>8. CASE /\ client' = 0 /\ server' = WithStatus(mcalls[c].seen, "stopped")
           /\ Set(c, [mcalls[c] EXCEPT !.pc = "stopped", !.conn = 0]) /\ UNCHANGED lock
  <2>1. server' \in Detail /\ server'.status = "stopped"
    BY <1>4, <1>8, StatusStored
  <2>2. PICK n : n = [mcalls[c] EXCEPT !.pc = "stopped", !.conn = 0]
    OBVIOUS
  <2>3. n \in McpCall /\ n.pc = "stopped" /\ n.seen = mcalls[c].seen /\ n.conn = 0 /\ n.todo = mcalls[c].todo
    BY <1>3, <2>2 DEF McpCall, McpAwaits
  <2>4. CallFits(c, n) /\ ~Opening(n) /\ n.pc \in LockedAwaits
    BY <1>2, <1>3, <2>3 DEF CallFits, Opening, LockedAwaits
  <2>5. mcalls' = [mcalls EXCEPT ![c] = n]
    BY <1>8, <2>2 DEF Set
  <2>6. Lost'
    BY <1>8 DEF Lost
  <2> QED
    BY ONLY McpInv, c \in Callers, <1>1, <1>2, <1>3, <1>7, <1>8, <2>1, <2>3, <2>4, <2>5, <2>6, LockedStep
<1>9. CASE /\ client = 0 /\ server' = WithStatus(mcalls[c].seen, "failed")
           /\ CallRaises(c) /\ Unlock /\ UNCHANGED client
  <2>1. server' \in Detail /\ server'.status = "failed"
    BY <1>4, <1>9, StatusStored
  <2>2. PICK n \in McpCall : /\ mcalls' = [mcalls EXCEPT ![c] = n]
                             /\ CallFits(c, n) /\ ~InLock(n) /\ Resting(n)
    BY <1>2, <1>3, <1>9, Returned
  <2>3. /\ ~Opening(n) /\ n.pc \notin {"published", "disconnect", "stopped", "removing"}
    BY <2>2 DEF Resting, Opening
  <2>4. Lost' /\ client' = 0
    BY <1>9 DEF Lost
  <2>5. lock' = Tail(lock)
    BY <1>9 DEF Unlock
  <2> QED
    BY ONLY McpInv, c \in Callers, <1>1, <1>2, <1>3, <1>7, <2>1, <2>2, <2>3, <2>4, <2>5, LockedStep
<1> QED
  BY <1>8, <1>9 DEF StopDisconnects

\* The end of a stop keeps the invariant.
LEMMA StopEndsKeeps ==
  ASSUME McpInv, NEW c \in Callers, StopEnds(c)
  PROVE  McpInv'
<1>1. Suspended(c, "stopped") /\ lock' = Tail(lock) /\ UNCHANGED <<client, conns, forgotten, watched, strayed>>
  BY DEF StopEnds, Unlock
<1>2. /\ mcalls[c].pc = "stopped" /\ mcalls[c].todo # <<>> /\ InLock(mcalls[c])
      /\ mcalls[c].pc \in LockedAwaits /\ ~Opening(mcalls[c])
  BY <1>1, SuspendedCall DEF LockedAwaits, Opening
<1>3. CASE CallReturns(c) /\ UNCHANGED <<server, overtaken>>
  BY <1>1, <1>2, <1>3, QuietReturn
<1>4. CASE CallRaises(c) /\ server' = WithStatus(mcalls[c].seen, "failed") /\ overtaken' = FALSE
  <2>1. ControlInv /\ mcalls[c] \in McpCall /\ CallFits(c, mcalls[c])
    BY CallerFacts
  <2>2. mcalls[c].seen \in Detail
    BY <1>2, <2>1, CallFields DEF CallFits
  <2>3. server' \in Detail /\ server'.status = "failed"
    BY <1>4, <2>2, StatusStored
  <2>4. PICK n \in McpCall : /\ mcalls' = [mcalls EXCEPT ![c] = n]
                             /\ CallFits(c, n) /\ ~InLock(n) /\ Resting(n)
    BY <1>2, <1>4, <2>1, Returned
  <2>5. ~Opening(n) /\ n.pc \notin {"published", "disconnect", "stopped", "removing"}
    BY <2>4 DEF Resting, Opening
  <2>6. client' = 0 /\ Lost'
    BY <1>1, <1>2 DEF McpInv, DownIsLost, Lost
  <2>7. /\ client' \in 0..MaxConns /\ conns' \subseteq 1..MaxConns /\ strayed' \subseteq conns'
        /\ forgotten' \subseteq 1..MaxConns
        /\ \A j \in conns' : j = client' \/ j \in strayed'
    <3>1. \A j \in conns : j = client \/ j \in strayed
      BY <1>2, NoneOpening
    <3> QED
      BY <1>1, <3>1, DataFacts
  <2> QED
    BY ONLY McpInv, c \in Callers, <1>1, <1>2, <1>4, <2>3, <2>4, <2>5, <2>6, <2>7, LockedStep
<1> QED
  BY <1>3, <1>4 DEF StopEnds

\* Only the entry changes, its status as it may while no call changes.
LEMMA EntryChanged ==
  ASSUME McpInv, NEW d \in Detail, server' = d,
         d.status = server.status \/ (server.status = "unregistered" /\ d.status = "stopped"),
         UNCHANGED <<client, conns, forgotten, lock, mcalls, watched, strayed, overtaken>>
  PROVE  McpInv'
<1>1. McpTypeOK'
  BY DEF McpInv, McpTypeOK
<1>2. CallsFit' /\ LockHeld' /\ ClientOpen' /\ StartsOwn'
  BY DEF McpInv, CallsFit, CallFits, LockHeld, InLock, ClientOpen, StartsOwn, Connecting
<1>3. d.status \in {"stopped", "starting", "running", "stopping", "failed"}
  BY DEF Detail
<1>4. DownIsLost'
  <2>1. /\ server.status \in {"stopped", "failed"} => Lost
        /\ server.status = "stopping" => \E c \in Callers : mcalls[c].pc = "disconnect"
        /\ server.status = "unregistered" => client = 0
        /\ \A c \in Callers :
             /\ Connecting(c) => Lost /\ server.status # "unregistered"
             /\ mcalls[c].pc \in {"published", "disconnect"} => client \in {0, mcalls[c].conn}
             /\ mcalls[c].pc = "stopped" => client = 0
    BY DEF McpInv, DownIsLost
  <2>2. (Lost' <=> Lost) /\ (client = 0 => Lost) /\ \A c \in Callers : Connecting(c)' <=> Connecting(c)
    BY DEF Lost, Connecting
  <2>3. d.status \in {"stopped", "failed"} => Lost
    BY <2>1, <2>2
  <2> QED
    BY <1>3, <2>1, <2>2, <2>3 DEF DownIsLost
<1>5. RemovalShows'
  BY DEF McpInv, RemovalShows
<1>6. ConnectionsAccounted'
  BY DEF McpInv, ConnectionsAccounted, Connecting
<1>7. RunningIsServed'
  BY DEF McpInv, RunningIsServed
<1> QED
  BY <1>1, <1>2, <1>4, <1>5, <1>6, <1>7 DEF McpInv

\* register and update of the configuration keep the invariant.
LEMMA RegistrationKeeps ==
  ASSUME McpInv, RegisterServer \/ UpdateServer
  PROVE  McpInv'
<1>1. CASE RegisterServer
  <2>1. PICK d : d = [status |-> "stopped", enabled |-> TRUE, restarts |-> 0]
    OBVIOUS
  <2>2. d \in Detail /\ d.status = "stopped"
    BY <2>1, McpAssumption DEF Detail
  <2> QED
    BY <1>1, <2>1, <2>2, EntryChanged DEF RegisterServer
<1>2. CASE UpdateServer
  <2>1. server \in Detail
    BY <1>2, PresentEntry DEF UpdateServer
  <2>2. PICK d : d = [server EXCEPT !.enabled = ~@]
    OBVIOUS
  <2>3. d \in Detail /\ d.status = server.status
    BY <2>1, <2>2 DEF Detail
  <2> QED
    BY <1>2, <2>2, <2>3, EntryChanged DEF UpdateServer
<1> QED
  BY <1>1, <1>2

\* A call outside the lock goes on: what it changes of the entry and the
\* client suits the calls inside.
LEMMA UnlockedStep ==
  ASSUME McpInv, NEW c \in Callers, ~Opening(mcalls[c]), mcalls[c].pc # "disconnect",
         NEW n \in McpCall, CallFits(c, n), ~InLock(n),
         mcalls' = [mcalls EXCEPT ![c] = n], lock' = lock, watched' = watched,
         server' \in Detail \union {Absent, [status |-> "unregistered"]}, overtaken' \in BOOLEAN,
         server'.status \in {"absent", "running"} \/ server' = server,
         client' \in {0, client}, conns' \subseteq 1..MaxConns, forgotten' \subseteq 1..MaxConns,
         strayed' \subseteq conns',
         client' # 0 => client' \in conns',
         Lost => Lost',
         n.conn \in {0, mcalls[c].conn, client},
         \A d \in Callers \ {c} : Opening(mcalls[d]) => mcalls[d].conn \in conns',
         \A j \in conns' : j \in {client'} \union strayed' \/ j \in conns \ ({client} \union strayed),
         server'.status = "running" => overtaken' \/ (server.status = "running" /\ ~overtaken /\ client' = client),
         client' = client \/ server'.status # "running" \/ overtaken',
         n.pc = "removing" => server'.status # "running"
  PROVE  McpInv'
<1>1. ControlInv /\ mcalls \in [Callers -> McpCall]
  BY ControlOf DEF ControlInv
<1>2. ControlInv'
  BY <1>1, ControlStep
<1>3. mcalls'[c] = n /\ \A d \in Callers \ {c} : mcalls'[d] = mcalls[d]
  BY <1>1
<1>4. /\ client \in 0..MaxConns /\ 0 \notin conns /\ 0 \notin conns' /\ 0 \in 0..MaxConns
  BY DataFacts, McpAssumption
<1>5. McpTypeOK'
  BY <1>2, <1>4 DEF McpInv, ControlInv, McpTypeOK
<1>6. ClientOpen'
  BY <1>4 DEF ClientOpen
<1>7. n.pc \notin LockedAwaits /\ ~Opening(n)
  BY DEF InLock, Opening, LockedAwaits
<1>8. StartsOwn'
  <2> SUFFICES ASSUME NEW d \in Callers, mcalls'[d].pc \in {"connect", "list"}
               PROVE  /\ mcalls'[d].conn \in conns' /\ mcalls'[d].conn # client'
                      /\ \A e \in Callers \ {d} : mcalls'[e].conn # mcalls'[d].conn
    BY DEF StartsOwn, Connecting
  <2>1. d # c /\ mcalls'[d] = mcalls[d] /\ Opening(mcalls[d])
    BY <1>3, <1>7 DEF Opening
  <2>2. /\ mcalls[d].conn \in conns /\ mcalls[d].conn # client
        /\ \A e \in Callers \ {d} : mcalls[e].conn # mcalls[d].conn
    BY <2>1 DEF McpInv, StartsOwn, Connecting, Opening
  <2> QED
    BY <1>3, <1>4, <2>1, <2>2
<1>9. DownIsLost'
  <2>1. /\ server.status \in {"stopped", "failed"} => Lost
        /\ server.status = "stopping" => \E d \in Callers : mcalls[d].pc = "disconnect"
        /\ server.status = "unregistered" => client = 0
        /\ \A d \in Callers :
             /\ Opening(mcalls[d]) => Lost /\ server.status # "unregistered"
             /\ mcalls[d].pc \in {"published", "disconnect"} => client \in {0, mcalls[d].conn}
             /\ mcalls[d].pc = "stopped" => client = 0
    BY DEF McpInv, DownIsLost, Connecting, Opening
  <2>2. \A d \in Callers : mcalls'[d].pc \in LockedAwaits => mcalls'[d] = mcalls[d]
    BY <1>3, <1>7
  <2>3. \A d \in Callers :
             /\ Opening(mcalls'[d]) => Lost' /\ server'.status # "unregistered"
             /\ mcalls'[d].pc \in {"published", "disconnect"} => client' \in {0, mcalls'[d].conn}
             /\ mcalls'[d].pc = "stopped" => client' = 0
    BY <2>1, <2>2 DEF Opening, LockedAwaits
  <2>4. server'.status = "stopping" => \E d \in Callers : mcalls'[d].pc = "disconnect"
    BY <1>3, <2>1
  <2> QED
    BY <2>1, <2>3, <2>4 DEF DownIsLost, Connecting, Opening
<1>10. RemovalShows'
  <2> SUFFICES ASSUME NEW d \in Callers, mcalls'[d].pc = "removing", client' = mcalls'[d].conn,
                      server'.status = "running"
               PROVE  overtaken'
    BY DEF RemovalShows
  <2>1. d # c /\ mcalls'[d] = mcalls[d]
    BY <1>3
  <2>2. overtaken' \/ (server.status = "running" /\ ~overtaken /\ client = mcalls[d].conn)
    BY <2>1
  <2> QED
    BY <2>1, <2>2 DEF McpInv, RemovalShows
<1>11. ConnectionsAccounted'
  <2>1. \A j \in conns : j = client \/ j \in strayed \/ \E d \in Callers : Opening(mcalls[d]) /\ mcalls[d].conn = j
    BY DEF McpInv, ConnectionsAccounted, Connecting, Opening
  <2>2. \A d \in Callers : Opening(mcalls[d]) => mcalls'[d] = mcalls[d]
    BY <1>3
  <2>3. \A j \in conns' : j = client' \/ j \in strayed' \/ \E d \in Callers : Opening(mcalls'[d]) /\ mcalls'[d].conn = j
    BY <2>1, <2>2
  <2> QED
    BY <2>3 DEF ConnectionsAccounted, Connecting, Opening
<1>12. RunningIsServed'
  <2> SUFFICES ASSUME server'.status = "running", ~overtaken'
               PROVE  client' \in conns'
    BY DEF RunningIsServed
  <2>1. server.status = "running" /\ ~overtaken /\ client' = client
    OBVIOUS
  <2>2. client \in conns /\ client # 0
    BY <1>4, <2>1 DEF McpInv, RunningIsServed
  <2> QED
    BY <2>1, <2>2
<1> QED
  BY <1>2, <1>5, <1>6, <1>8, <1>9, <1>10, <1>11, <1>12 DEF McpInv, ControlInv

\* delete_server() drops the entry and waits for the connection it found.
LEMMA RemoveServerKeeps ==
  ASSUME McpInv, NEW c \in Callers, RemoveServer(c)
  PROVE  McpInv'
<1>1. /\ Runs(c, "remove") /\ server' = Absent
      /\ UNCHANGED <<client, conns, forgotten, lock, watched, strayed, overtaken>>
  BY DEF RemoveServer
<1>2. mcalls[c].pc = "run" /\ mcalls[c].todo # <<>> /\ ~Opening(mcalls[c])
  BY <1>1, RunningCall DEF Opening
<1>3. c # Monitor
  <2>1. c = Monitor => "remove" \in {"start", "start locked", "check"}
    BY <1>1, RunningCall
  <2> QED
    BY <2>1
<1>4. ControlInv /\ mcalls[c] \in McpCall /\ CallFits(c, mcalls[c]) /\ client \in 0..MaxConns
  BY CallerFacts, DataFacts
<1>5. PICK n \in McpCall : /\ mcalls' = [mcalls EXCEPT ![c] = n]
                           /\ CallFits(c, n) /\ ~InLock(n) /\ n.conn \in {0, mcalls[c].conn, client}
  <2>1. CASE CallReturns(c)
    BY <1>2, <1>4, <2>1, Returned DEF Resting
  <2>2. CASE client # 0 /\ Set(c, [mcalls[c] EXCEPT !.pc = "removing", !.conn = client])
    <3>1. PICK n : n = [mcalls[c] EXCEPT !.pc = "removing", !.conn = client]
      OBVIOUS
    <3>2. n \in McpCall /\ n.pc = "removing" /\ n.conn = client /\ n.todo = mcalls[c].todo
      BY <1>4, <3>1 DEF McpCall, McpAwaits
    <3>3. CallFits(c, n) /\ ~InLock(n)
      BY <1>2, <1>3, <1>4, <2>2, <3>2 DEF CallFits, InLock, LockedAwaits
    <3> QED
      BY <2>2, <3>1, <3>2, <3>3 DEF Set
  <2> QED
    BY <2>1, <2>2 DEF RemoveServer
<1>6. server' \in Detail \union {Absent, [status |-> "unregistered"]} /\ server'.status = "absent"
  BY <1>1 DEF Absent
<1>7. /\ overtaken \in BOOLEAN /\ strayed \subseteq conns
      /\ client # 0 => client \in conns
  BY DEF McpInv, McpTypeOK, ClientOpen
<1>8. \A d \in Callers \ {c} : Opening(mcalls[d]) => mcalls[d].conn \in conns
  BY DEF McpInv, StartsOwn, Connecting, Opening
<1>9. Lost => Lost'
  BY <1>1 DEF Lost
<1>10. /\ client' = client /\ conns' = conns /\ strayed' = strayed /\ lock' = lock /\ watched' = watched
       /\ \A j \in conns' : j \in {client'} \union strayed' \/ j \in conns \ ({client} \union strayed)
  BY <1>1
<1>11. /\ client' \in {0, client} /\ conns' \subseteq 1..MaxConns /\ strayed' \subseteq conns'
       /\ forgotten' \subseteq 1..MaxConns
       /\ client' # 0 => client' \in conns'
       /\ \A d \in Callers \ {c} : Opening(mcalls[d]) => mcalls[d].conn \in conns'
  BY <1>1, <1>7, <1>8, <1>10, DataFacts
<1>12. /\ overtaken' \in BOOLEAN /\ server'.status # "running"
       /\ server'.status \in {"absent", "running"}
  BY <1>1, <1>6, <1>7
<1> QED
  BY ONLY McpInv, c \in Callers, <1>2, <1>5, <1>6, <1>9, <1>10, <1>11, <1>12, UnlockedStep

\* It closes that connection, and forgets the client that is there by then.
LEMMA RemoveEndsKeeps ==
  ASSUME McpInv, NEW c \in Callers, RemoveEnds(c)
  PROVE  McpInv'
<1>1. /\ Suspended(c, "removing") /\ Disconnect(mcalls[c].conn, strayed \union ({client} \intersect conns))
      /\ overtaken' = (overtaken \/ client \notin {0, mcalls[c].conn})
      /\ client' = 0 /\ Set(c, Idle) /\ UNCHANGED <<server, lock, watched>>
  BY DEF RemoveEnds
<1>2. mcalls[c].pc = "removing" /\ ~Opening(mcalls[c])
  BY <1>1, SuspendedCall DEF Opening
<1>3. PICK n : n = [Idle EXCEPT !.pc = "idle"]
  OBVIOUS
<1>4. n \in McpCall /\ CallFits(c, n) /\ ~InLock(n) /\ n.pc = "idle" /\ n.conn = 0
  BY <1>3, RestingCall
<1>5. mcalls' = [mcalls EXCEPT ![c] = n]
  <2>1. n = Idle
    BY <1>3 DEF Idle
  <2> QED
    BY <1>1, <2>1 DEF Set
<1>6. /\ conns' \subseteq 1..MaxConns /\ forgotten' \subseteq 1..MaxConns
      /\ strayed' \subseteq conns' /\ conns \ {mcalls[c].conn} \subseteq conns'
      /\ conns' \ strayed' \subseteq conns \ (strayed \union {client})
  <2>1. (strayed \union ({client} \intersect conns)) \in SUBSET conns
    BY DataFacts
  <2>2. mcalls[c].conn \in 1..MaxConns
    BY <1>2, ClosedConnection
  <2> QED
    BY ONLY McpInv, <1>1, <2>1, <2>2, DisconnectedData
<1>7. overtaken' \in BOOLEAN /\ Lost'
  <2>1. overtaken \in BOOLEAN
    BY DEF McpInv, McpTypeOK
  <2> QED
    BY <1>1, <2>1 DEF Lost
<1>8. \A j \in conns' : j \in {client'} \union strayed' \/ j \in conns \ ({client} \union strayed)
  BY <1>6
<1>9. \A d \in Callers \ {c} : Opening(mcalls[d]) => mcalls[d].conn \in conns'
  <2>1. \A d \in Callers \ {c} : Opening(mcalls[d]) => mcalls[d].conn \in conns /\ mcalls[d].conn # mcalls[c].conn
    BY DEF McpInv, StartsOwn, Connecting, Opening
  <2> QED
    BY <1>6, <2>1
<1>10. server.status = "running" /\ ~overtaken' => ~overtaken /\ client = 0
  BY <1>1, <1>2 DEF McpInv, RemovalShows
<1>11. server' = server /\ lock' = lock /\ watched' = watched /\ client' = 0
  BY <1>1
<1>12. server \in Detail \union {Absent, [status |-> "unregistered"]}
  BY DataFacts
<1>13. /\ server'.status = "running" => overtaken' \/ (server.status = "running" /\ ~overtaken /\ client' = client)
       /\ client' = client \/ server'.status # "running" \/ overtaken'
  BY <1>10, <1>11
<1> QED
  BY ONLY McpInv, c \in Callers, <1>2, <1>4, <1>5, <1>6, <1>7, <1>8, <1>9, <1>11, <1>12, <1>13, UnlockedStep

\* An answered ping stores the copy it was sent with, and is overtaken when
\* the server has stopped or restarted since.
LEMMA PingEndsKeeps ==
  ASSUME McpInv, NEW c \in Callers, PingEnds(c)
  PROVE  McpInv'
<1>1. /\ Suspended(c, "ping") /\ server' = mcalls[c].seen
      /\ overtaken' = (overtaken \/ server.status # "running" \/ client # mcalls[c].conn)
      /\ CallReturns(c) /\ UNCHANGED <<client, conns, forgotten, lock, watched, strayed>>
  BY DEF PingEnds
<1>2. mcalls[c].pc = "ping" /\ mcalls[c].todo # <<>> /\ ~Opening(mcalls[c])
  BY <1>1, SuspendedCall DEF Opening
<1>3. ControlInv /\ mcalls[c] \in McpCall /\ CallFits(c, mcalls[c])
  BY CallerFacts
<1>4. server' \in Detail \union {Absent, [status |-> "unregistered"]} /\ server'.status = "running"
  BY <1>1, <1>2, <1>3, CallFields DEF CallFits
<1>5. PICK n \in McpCall : /\ mcalls' = [mcalls EXCEPT ![c] = n]
                           /\ CallFits(c, n) /\ ~InLock(n) /\ Resting(n)
  BY <1>1, <1>2, <1>3, Returned
<1>6. n.conn = 0 /\ n.pc # "removing"
  BY <1>5 DEF Resting
<1>7. /\ overtaken \in BOOLEAN /\ strayed \subseteq conns
      /\ client # 0 => client \in conns
  BY DEF McpInv, McpTypeOK, ClientOpen
<1>8. \A d \in Callers \ {c} : Opening(mcalls[d]) => mcalls[d].conn \in conns
  BY DEF McpInv, StartsOwn, Connecting, Opening
<1>9. Lost => Lost'
  BY <1>1 DEF Lost
<1>10. /\ client' = client /\ conns' = conns /\ strayed' = strayed /\ lock' = lock /\ watched' = watched
       /\ \A j \in conns' : j \in {client'} \union strayed' \/ j \in conns \ ({client} \union strayed)
  BY <1>1
<1>11. overtaken' \in BOOLEAN /\ (~overtaken' => server.status = "running" /\ ~overtaken)
  BY <1>1, <1>7
<1>12. /\ client' \in {0, client} /\ conns' \subseteq 1..MaxConns /\ strayed' \subseteq conns'
       /\ forgotten' \subseteq 1..MaxConns
       /\ client' # 0 => client' \in conns'
       /\ \A d \in Callers \ {c} : Opening(mcalls[d]) => mcalls[d].conn \in conns'
  BY <1>1, <1>7, <1>8, <1>10, DataFacts
<1>13. mcalls[c].pc # "disconnect" /\ n.conn \in {0, mcalls[c].conn, client}
       /\ server'.status \in {"absent", "running"}
       /\ server'.status = "running" => overtaken' \/ (server.status = "running" /\ ~overtaken /\ client' = client)
  BY <1>2, <1>4, <1>6, <1>11, <1>10
<1> QED
  BY ONLY McpInv, c \in Callers, <1>2, <1>4, <1>5, <1>6, <1>9, <1>11, <1>10, <1>12, <1>13, UnlockedStep

\* Functions on 1..n are sequences.
LEMMA FunctionIsSequence ==
  ASSUME NEW S, NEW n \in Nat, NEW r \in [1..n -> S]
  PROVE  r \in Seq(S) /\ Len(r) = n
OBVIOUS

\* Whoever holds the lock still holds it when another caller is cancelled.
LEMMA ReleasedLock ==
  ASSUME NEW S, NEW q \in Seq(S), NEW m
  PROVE  /\ Released(q, m) \in Seq(S)
         /\ q # <<>> /\ Head(q) # m => Released(q, m) # <<>> /\ Head(Released(q, m)) = Head(q)
<1>1. CASE ~\E i \in DOMAIN q : q[i] = m
  BY <1>1 DEF Released
<1>2. CASE \E i \in DOMAIN q : q[i] = m
  <2>1. PICK p \in DOMAIN q : p = (CHOOSE i \in DOMAIN q : q[i] = m) /\ q[p] = m
    BY <1>2
  <2>2. PICK r : r = [i \in 1..(Len(q) - 1) |-> q[IF i < p THEN i ELSE i + 1]]
    OBVIOUS
  <2>3. Released(q, m) = r
    BY <1>2, <2>1, <2>2 DEF Released
  <2>4. Len(q) \in Nat /\ DOMAIN q = 1..Len(q) /\ Len(q) # 0 /\ Len(q) - 1 \in Nat
    BY <2>1
  <2>5. \A i \in 1..(Len(q) - 1) : r[i] \in S
    BY <2>1, <2>2, <2>4
  <2>6. r \in [1..(Len(q) - 1) -> S]
    BY <2>2, <2>5
  <2>7. r \in Seq(S) /\ Len(r) = Len(q) - 1
    BY ONLY <2>4, <2>6, FunctionIsSequence
  <2>8. ASSUME q # <<>>, Head(q) # m
        PROVE  r # <<>> /\ Head(r) = Head(q)
    <3>1. q[1] # m /\ Head(q) = q[1]
      BY <2>8
    <3>2. p > 1 /\ Len(q) - 1 >= 1
      BY <2>1, <2>4, <3>1
    <3>3. r[1] = q[1]
      BY <2>2, <2>4, <3>2
    <3> QED
      BY <2>4, <2>7, <3>1, <3>2, <3>3
  <2> QED
    BY <2>3, <2>7, <2>8
<1> QED
  BY <1>1, <1>2

\* shutdown() cancels the monitor where it is.
LEMMA ShutdownKeeps ==
  ASSUME McpInv, ManagerShutdown
  PROVE  McpInv'
<1>1. /\ mcalls[Kernel].pc = "idle"
      /\ mcalls' = [mcalls EXCEPT ![Monitor] = Idle, ![Kernel].pc = "gather"]
      /\ watched' = FALSE /\ lock' = Released(lock, Monitor)
      /\ strayed' = strayed \union {mcalls[c].conn : c \in {d \in {Monitor} : Connecting(d)}}
      /\ UNCHANGED <<server, client, conns, forgotten, overtaken>>
  BY DEF ManagerShutdown
<1>2. Kernel \in Callers /\ Monitor \in Callers /\ Kernel # Monitor
  BY CallersDiffer
<1>3. ControlInv /\ mcalls \in [Callers -> McpCall] /\ lock \in Seq(Callers)
  BY ControlOf DEF ControlInv
<1>4. mcalls[Kernel] \in McpCall /\ CallFits(Kernel, mcalls[Kernel])
  BY <1>2, CallerFacts
<1>5. PICK n : n = [mcalls[Kernel] EXCEPT !.pc = "gather"]
  OBVIOUS
<1>6. /\ n \in McpCall /\ n.pc = "gather" /\ n.todo = mcalls[Kernel].todo /\ n.conn = mcalls[Kernel].conn
  BY <1>4, <1>5 DEF McpCall, McpAwaits
<1>7. CallFits(Kernel, n) /\ ~InLock(n)
  BY <1>2, <1>4, <1>6 DEF CallFits, InLock, LockedAwaits
<1>8. Idle \in McpCall /\ CallFits(Monitor, Idle) /\ ~InLock(Idle) /\ Idle.pc = "idle" /\ Idle.conn = 0
  <2>1. PICK i : i = [Idle EXCEPT !.pc = "idle"]
    OBVIOUS
  <2>2. i \in McpCall /\ CallFits(Monitor, i) /\ ~InLock(i) /\ i.pc = "idle" /\ i.conn = 0
    BY <1>2, <2>1, RestingCall
  <2>3. i = Idle
    BY <2>1 DEF Idle
  <2> QED
    BY <2>2, <2>3
<1>9. /\ mcalls' \in [Callers -> McpCall] /\ mcalls'[Monitor] = Idle /\ mcalls'[Kernel] = n
      /\ \A d \in Callers \ {Kernel, Monitor} : mcalls'[d] = mcalls[d]
  <2>1. mcalls' = [mcalls EXCEPT ![Monitor] = Idle, ![Kernel] = n]
    BY <1>1, <1>2, <1>3, <1>5
  <2> QED
    BY <1>2, <1>3, <1>6, <1>8, <2>1
<1>10. CallsFit'
  <2>1. \A d \in Callers : CallFits(d, mcalls'[d])
    BY <1>3, <1>7, <1>8, <1>9 DEF ControlInv, CallsFit
  <2> QED
    BY <2>1 DEF CallsFit, CallFits
<1>11. lock' \in Seq(Callers) /\ LockHeld'
  <2>1. \A d \in Callers : InLock(mcalls'[d]) => InLock(mcalls[d]) /\ d # Monitor
    BY <1>7, <1>8, <1>9
  <2>2. lock' \in Seq(Callers)
    BY ONLY <1>1, <1>3, ReleasedLock
  <2>3. ASSUME lock # <<>>, Head(lock) # Monitor
        PROVE  lock' # <<>> /\ Head(lock') = Head(lock)
    BY ONLY <1>1, <1>3, <2>3, ReleasedLock
  <2>4. \A d \in Callers : InLock(mcalls[d]) => lock # <<>> /\ Head(lock) = d
    BY <1>3 DEF ControlInv, LockHeld
  <2>5. \A d \in Callers : InLock(mcalls'[d]) => lock' # <<>> /\ Head(lock') = d
    BY <2>1, <2>3, <2>4
  <2> QED
    BY <2>2, <2>5 DEF LockHeld, InLock
<1>12. /\ \A d \in Callers : /\ Opening(mcalls'[d]) => Opening(mcalls[d]) /\ mcalls'[d] = mcalls[d]
                             /\ mcalls'[d].pc \in {"published", "disconnect", "stopped", "removing"}
                                  => mcalls'[d] = mcalls[d]
                             /\ mcalls'[d].conn \in {0, mcalls[d].conn}
       /\ \A d \in Callers : Opening(mcalls[d]) => d # Kernel
  BY <1>1, <1>6, <1>8, <1>9 DEF Opening
<1>13. /\ strayed \subseteq strayed' /\ strayed' \subseteq conns
       /\ Opening(mcalls[Monitor]) => mcalls[Monitor].conn \in strayed'
  <2>1. Opening(mcalls[Monitor]) => mcalls[Monitor].conn \in conns
    BY <1>2 DEF McpInv, StartsOwn, Connecting, Opening
  <2> QED
    BY <1>1, <2>1, DataFacts DEF Connecting, Opening
<1>14. McpTypeOK'
  <2>1. watched' \in BOOLEAN
    BY <1>1
  <2> QED
    BY <1>1, <1>9, <1>11, <1>13, <2>1 DEF McpInv, McpTypeOK
<1>15. ClientOpen'
  BY <1>1 DEF McpInv, ClientOpen
<1>16. StartsOwn'
  <2> SUFFICES ASSUME NEW c \in Callers, Opening(mcalls'[c])
               PROVE  /\ mcalls'[c].conn \in conns' /\ mcalls'[c].conn # client'
                      /\ \A d \in Callers \ {c} : mcalls'[d].conn # mcalls'[c].conn
    BY DEF StartsOwn, Connecting, Opening
  <2>1. /\ mcalls[c].conn \in conns /\ mcalls[c].conn # client /\ mcalls'[c].conn = mcalls[c].conn
        /\ \A d \in Callers \ {c} : mcalls[d].conn # mcalls[c].conn
    BY <1>12 DEF McpInv, StartsOwn, Connecting, Opening
  <2>2. mcalls[c].conn # 0
    BY <2>1, DataFacts
  <2>3. \A d \in Callers \ {c} : mcalls'[d].conn # mcalls[c].conn
    <3>1. \A d \in Callers : mcalls'[d].conn \in {0, mcalls[d].conn}
      BY <1>12
    <3> QED
      BY <2>1, <2>2, <3>1
  <2>4. conns' = conns /\ client' = client
    BY <1>1
  <2> QED
    BY <2>1, <2>3, <2>4
<1>17. DownIsLost'
  <2>1. /\ server.status \in {"stopped", "failed"} => Lost
        /\ server.status = "stopping" => \E c \in Callers : mcalls[c].pc = "disconnect"
        /\ server.status = "unregistered" => client = 0
        /\ \A c \in Callers :
             /\ Opening(mcalls[c]) => Lost /\ server.status # "unregistered"
             /\ mcalls[c].pc \in {"published", "disconnect"} => client \in {0, mcalls[c].conn}
             /\ mcalls[c].pc = "stopped" => client = 0
    BY DEF McpInv, DownIsLost, Connecting, Opening
  <2>2. Lost => Lost'
    BY <1>1, <1>13 DEF Lost
  <2>3. \A d \in Callers : mcalls[d].pc = "disconnect" => mcalls'[d] = mcalls[d]
    <3>1. \A d \in Callers : mcalls[d].pc = "disconnect" => d # Monitor
      BY <1>3 DEF ControlInv, CallsFit, CallFits
    <3> QED
      BY <1>1, <1>9, <3>1
  <2>4. server'.status = "stopping" => \E c \in Callers : mcalls'[c].pc = "disconnect"
    BY <1>1, <2>1, <2>3
  <2>5. \A c \in Callers :
          /\ Opening(mcalls'[c]) => Lost' /\ server'.status # "unregistered"
          /\ mcalls'[c].pc \in {"published", "disconnect"} => client' \in {0, mcalls'[c].conn}
          /\ mcalls'[c].pc = "stopped" => client' = 0
    BY <1>1, <1>12, <2>1, <2>2
  <2> QED
    BY <1>1, <2>1, <2>2, <2>4, <2>5 DEF DownIsLost, Connecting, Opening
<1>18. RemovalShows'
  BY <1>1, <1>12 DEF McpInv, RemovalShows
<1>19. ConnectionsAccounted'
  <2>1. \A k \in conns : k = client \/ k \in strayed \/ \E c \in Callers : Opening(mcalls[c]) /\ mcalls[c].conn = k
    BY DEF McpInv, ConnectionsAccounted, Connecting, Opening
  <2>2. \A c \in Callers : Opening(mcalls[c]) => c = Monitor \/ mcalls'[c] = mcalls[c]
    BY <1>9, <1>12
  <2>3. \A k \in conns : k = client \/ k \in strayed' \/ \E c \in Callers : Opening(mcalls'[c]) /\ mcalls'[c].conn = k
    BY <1>13, <2>1, <2>2
  <2>4. conns' = conns /\ client' = client
    BY <1>1
  <2>5. \A k \in conns' : k = client' \/ k \in strayed' \/ \E c \in Callers : Opening(mcalls'[c]) /\ mcalls'[c].conn = k
    BY <2>3, <2>4
  <2> QED
    BY <2>5 DEF ConnectionsAccounted, Connecting, Opening
<1>20. RunningIsServed'
  BY <1>1 DEF McpInv, RunningIsServed
<1> QED
  BY <1>10, <1>11, <1>14, <1>15, <1>16, <1>17, <1>18, <1>19, <1>20 DEF McpInv

\* A disconnected client connects again, or does not: what it opens is lost.
LEMMA ForgottenKeeps ==
  ASSUME McpInv, NEW k \in 1..MaxConns, Reconnects(k) \/ StaysDisconnected(k)
  PROVE  McpInv'
<1>1. /\ UNCHANGED <<server, client, lock, mcalls, watched, overtaken>>
      /\ conns' \in {conns, conns \union {k}} /\ forgotten' \subseteq forgotten
      /\ strayed \subseteq strayed' /\ strayed' \subseteq conns' /\ conns' \ strayed' \subseteq conns \ strayed
  BY DataFacts DEF Reconnects, StaysDisconnected
<1>2. conns \subseteq conns' /\ conns' \subseteq 1..MaxConns /\ 0 \notin conns'
  BY <1>1, DataFacts
<1>3. McpTypeOK'
  BY <1>1, <1>2 DEF McpInv, McpTypeOK
<1>4. CallsFit' /\ LockHeld'
  BY <1>1 DEF McpInv, CallsFit, CallFits, LockHeld, InLock
<1>5. ClientOpen'
  BY <1>1, <1>2 DEF McpInv, ClientOpen
<1>6. StartsOwn'
  BY <1>1, <1>2 DEF McpInv, StartsOwn, Connecting
<1>7. DownIsLost'
  BY <1>1 DEF McpInv, DownIsLost, Lost, Connecting
<1>8. RemovalShows' /\ RunningIsServed'
  BY <1>1, <1>2 DEF McpInv, RemovalShows, RunningIsServed
<1>9. ConnectionsAccounted'
  BY <1>1 DEF McpInv, ConnectionsAccounted, Connecting
<1> QED
  BY <1>3, <1>4, <1>5, <1>6, <1>7, <1>8, <1>9 DEF McpInv

----------------------------------------------------------------------------
(* The invariant holds. *)

\* Every step of a call that is under way belongs to that call alone.
LEMMA OwnStep ==
  ASSUME NEW c \in Callers, Proceeds(c), ~Watch
  PROVE  /\ watched' = watched /\ mcalls[c].pc # "idle"
         /\ \E n : mcalls' = [mcalls EXCEPT ![c] = n]
<1>1. CASE StartServer(c) \/ StartLocked(c) \/ StopServer(c) \/ StopLocked(c)
  BY <1>1 DEF StartServer, StartLocked, StopServer, StopLocked, Runs, Lock, CallReturns, CallRaises, Set
<1>2. CASE RemoveServer(c) \/ CheckHealth(c)
  BY <1>2 DEF RemoveServer, CheckHealth, Runs, CallReturns, Set
<1>3. CASE c = Kernel /\ StopAll
  BY <1>3 DEF StopAll, Suspended, Begin, Set
<1>4. CASE McpGranted(c) \/ Connected(c) \/ ToolsListed(c)
  BY <1>4 DEF McpGranted, Connected, ToolsListed, Suspended, Await, Set
<1>5. CASE StartFails(c) \/ StartEnds(c)
  BY <1>5 DEF StartFails, StartEnds, Suspended, CallReturns, CallRaises, Set
<1>6. CASE StopDisconnects(c) \/ StopEnds(c)
  BY <1>6 DEF StopDisconnects, StopEnds, Suspended, CallReturns, CallRaises, Set
<1>7. CASE RemoveEnds(c) \/ PingEnds(c) \/ PingCancelled(c)
  BY <1>7 DEF RemoveEnds, PingEnds, PingCancelled, Suspended, CallReturns, Set
<1> QED
  BY <1>1, <1>2, <1>3, <1>4, <1>5, <1>6, <1>7 DEF Proceeds

\* A monitor that was not started makes no calls.
LEMMA MonitorStaysOff ==
  ASSUME mcalls \in [Callers -> McpCall], MonitorOff, McpNext
  PROVE  MonitorOff'
<1>1. Kernel \in Callers /\ Monitor \in Callers /\ Kernel # Monitor /\ Handlers \subseteq Callers \ {Monitor}
  BY CallersDiffer
<1>2. ASSUME NEW c \in Callers, watched' = watched, c # Monitor \/ mcalls[c].pc # "idle",
             \E n : mcalls' = [mcalls EXCEPT ![c] = n]
      PROVE  MonitorOff'
  <2>1. c # Monitor => mcalls'[Monitor] = mcalls[Monitor]
    BY <1>1, <1>2
  <2> QED
    BY <1>2, <2>1 DEF MonitorOff
<1>3. CASE RegisterServer \/ UpdateServer
  BY <1>3 DEF RegisterServer, UpdateServer, MonitorOff
<1>4. ASSUME NEW c \in Handlers, Request(c)
      PROVE  MonitorOff'
  <2>1. watched' = watched /\ \E n : mcalls' = [mcalls EXCEPT ![c] = n]
    BY <1>4 DEF Request, Begin, Set
  <2> QED
    BY <1>1, <1>2, <2>1
<1>5. CASE ManagerStart
  <2>1. watched' = watched /\ \E n : mcalls' = [mcalls EXCEPT ![Kernel] = n]
    BY <1>5 DEF ManagerStart, Begin, Set
  <2> QED
    BY <1>1, <1>2, <2>1
<1>6. CASE ManagerShutdown
  <2>1. mcalls' = [mcalls EXCEPT ![Monitor] = Idle, ![Kernel].pc = "gather"]
    BY <1>6 DEF ManagerShutdown
  <2>2. mcalls'[Monitor] = Idle
    BY <1>1, <2>1
  <2> QED
    BY <2>2 DEF MonitorOff, Idle
<1>7. CASE MonitorWakes \/ MonitorRestarts
  <2>1. watched' = watched /\ mcalls[Monitor].pc # "idle" /\ \E n : mcalls' = [mcalls EXCEPT ![Monitor] = n]
    BY <1>7 DEF MonitorWakes, MonitorRestarts, Suspended, Begin, Await, Set
  <2> QED
    BY <1>1, <1>2, <2>1
<1>8. CASE Watch
  <2>1. PICK new \in BOOLEAN : new = (~watched /\ server.status = "running")
    OBVIOUS
  <2>2. /\ watched' = (watched \/ new)
        /\ mcalls' = [mcalls EXCEPT ![Kernel] = Idle, ![Monitor] = IF new THEN Rest(Monitor) ELSE @]
    BY <1>8, <2>1 DEF Watch
  <2>3. ~new => mcalls'[Monitor] = mcalls[Monitor]
    BY <1>1, <2>2
  <2> QED
    BY <2>2, <2>3 DEF MonitorOff
<1>9. ASSUME NEW c \in Callers, Proceeds(c), ~Watch
      PROVE  MonitorOff'
  BY <1>2, <1>9, OwnStep
<1>10. ASSUME NEW k \in 1..MaxConns, Reconnects(k) \/ StaysDisconnected(k)
       PROVE  MonitorOff'
  BY <1>10 DEF Reconnects, StaysDisconnected, MonitorOff
<1> QED
  BY <1>3, <1>4, <1>5, <1>6, <1>7, <1>8, <1>9, <1>10 DEF McpNext, ManagerSteps

\* One step of a call.
LEMMA ProceedsKeeps ==
  ASSUME McpInv, MonitorOff, NEW c \in Callers, Proceeds(c)
  PROVE  McpInv'
BY ManagerKeeps, StartServerKeeps, StopServerKeeps, AwaitsKeep, ChecksKeep, StartLockedKeeps,
   ToolsListedKeeps, StartFailsKeeps, StopLockedKeeps, StopDisconnectsKeeps, StopEndsKeeps,
   RemoveServerKeeps, RemoveEndsKeeps, PingEndsKeeps
   DEF Proceeds

\* An empty registry satisfies the invariant.
LEMMA McpInitially == McpInit => McpInv /\ MonitorOff
<1> SUFFICES ASSUME McpInit
             PROVE  McpInv /\ MonitorOff
  OBVIOUS
<1>1. /\ server = [status |-> "unregistered"] /\ client = 0 /\ conns = {} /\ strayed = {} /\ forgotten = {}
      /\ lock = <<>> /\ watched = FALSE /\ overtaken = FALSE /\ mcalls = [c \in Callers |-> Idle]
  BY DEF McpInit
<1>2. ASSUME NEW c \in Callers
      PROVE  Idle \in McpCall /\ CallFits(c, Idle) /\ ~InLock(Idle) /\ Idle.pc = "idle"
  <2>1. PICK i : i = [Idle EXCEPT !.pc = "idle"]
    OBVIOUS
  <2>2. i \in McpCall /\ CallFits(c, i) /\ ~InLock(i) /\ i.pc = "idle"
    BY <2>1, RestingCall
  <2>3. i = Idle
    BY <2>1 DEF Idle
  <2> QED
    BY <2>2, <2>3
<1>3. \A c \in Callers : mcalls[c] = Idle
  BY <1>1
<1>4. McpTypeOK
  <2>1. 0 \in 0..MaxConns
    BY McpAssumption
  <2>2. mcalls \in [Callers -> McpCall]
    BY <1>1, <1>2
  <2>3. lock \in Seq(Callers)
    BY <1>1
  <2>4. server \in Detail \union {Absent, [status |-> "unregistered"]}
    BY <1>1
  <2>5. /\ client \in 0..MaxConns /\ conns \subseteq 1..MaxConns /\ strayed \subseteq conns
        /\ forgotten \subseteq 1..MaxConns
    BY <1>1, <2>1
  <2>6. watched \in BOOLEAN /\ overtaken \in BOOLEAN
    BY <1>1
  <2> QED
    BY ONLY <2>2, <2>3, <2>4, <2>5, <2>6 DEF McpTypeOK
<1>5. CallsFit /\ LockHeld
  BY <1>2, <1>3 DEF CallsFit, LockHeld
<1>6. ClientOpen /\ StartsOwn /\ DownIsLost /\ RemovalShows /\ ConnectionsAccounted /\ RunningIsServed
  BY <1>1, <1>2, <1>3 DEF ClientOpen, StartsOwn, DownIsLost, RemovalShows, ConnectionsAccounted,
                          RunningIsServed, Connecting, Lost
<1>7. MonitorOff
  BY <1>2, <1>3, CallersDiffer DEF MonitorOff
<1> QED
  BY <1>4, <1>5, <1>6, <1>7 DEF McpInv

\* Every step of the manager keeps it.
LEMMA McpInductive == McpInv /\ MonitorOff /\ [McpNext]_mcpVars => (McpInv /\ MonitorOff)'
<1> SUFFICES ASSUME McpInv, MonitorOff, [McpNext]_mcpVars
             PROVE  (McpInv /\ MonitorOff)'
  OBVIOUS
<1>1. CASE McpNext
  <2>1. MonitorOff'
    BY <1>1, MonitorStaysOff DEF McpInv, McpTypeOK
  <2>2. McpInv'
    <3>1. CASE RegisterServer \/ UpdateServer
      BY <3>1, RegistrationKeeps
    <3>2. ASSUME NEW c \in Handlers, Request(c)
          PROVE  McpInv'
      BY <3>2, RequestKeeps
    <3>3. CASE ManagerSteps
      BY <3>3, ManagerKeeps, ShutdownKeeps DEF ManagerSteps
    <3>4. ASSUME NEW c \in Callers, Proceeds(c)
          PROVE  McpInv'
      BY <3>4, ProceedsKeeps
    <3>5. ASSUME NEW k \in 1..MaxConns, Reconnects(k) \/ StaysDisconnected(k)
          PROVE  McpInv'
      BY <3>5, ForgottenKeeps
    <3> QED
      BY <1>1, <3>1, <3>2, <3>3, <3>4, <3>5 DEF McpNext
  <2> QED
    BY <2>1, <2>2
<1>2. CASE UNCHANGED mcpVars
  <2>1. UNCHANGED <<server, client, conns, forgotten, lock, mcalls, watched, strayed, overtaken>>
    BY <1>2 DEF mcpVars
  <2>2. McpTypeOK' /\ CallsFit' /\ LockHeld' /\ ClientOpen' /\ StartsOwn'
    BY <2>1 DEF McpInv, McpTypeOK, CallsFit, CallFits, LockHeld, InLock, ClientOpen, StartsOwn, Connecting
  <2>3. DownIsLost' /\ RemovalShows' /\ ConnectionsAccounted' /\ RunningIsServed' /\ MonitorOff'
    BY <2>1 DEF McpInv, DownIsLost, Lost, RemovalShows, ConnectionsAccounted, RunningIsServed, MonitorOff, Connecting
  <2> QED
    BY <2>2, <2>3 DEF McpInv
<1> QED
  BY <1>1, <1>2

\* Whatever starts, stops, restarts, reloads, deletions and health checks
\* overlap, whoever shuts the manager down, and although a client connects again
\* after its disconnect(), every open connection is the registered client or in
\* the hands of the start that opened it, or was lost by a failed start, by a
\* cancelled one, by a deletion or by such a reconnection (MCPRegistryImpl).
THEOREM ConnectionsStayAccounted == McpSpec => []ConnectionsAccounted
<1>1. McpInv => ConnectionsAccounted
  BY DEF McpInv
<1> QED
  BY <1>1, McpInitially, McpInductive, PTL DEF McpSpec

\* A server that is listed as RUNNING has an open client for invoke_tool, unless
\* its entry was last written by a health check that read it before a stop, or
\* its client went with an overtaken deletion (MCPRegistryImpl).
THEOREM RunningStaysServed == McpSpec => []RunningIsServed
<1>1. McpInv => RunningIsServed
  BY DEF McpInv
<1> QED
  BY <1>1, McpInitially, McpInductive, PTL DEF McpSpec

=============================================================================
