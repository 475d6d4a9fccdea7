--------------------------- MODULE MessagingProofs ---------------------------
(***************************************************************************)
(* Events between the nodes of a cluster, and within one process.          *)
(*                                                                         *)
(* PeerState: nodes that receive lost, repeated and reordered messages     *)
(* publish every event once and keep the newest entry of every key, for    *)
(* any number of nodes, ids, keys and versions and any size of the cache.  *)
(*                                                                         *)
(* LocalBus: for any handlers, clients, capacity, number of workers and    *)
(* bounds, the bus has all its workers while it runs and none after it,    *)
(* every delivery is in one place, and the events of a client reach every  *)
(* handler in order.  Three invariants, each on top of the one before:     *)
(* TypeInv (types, and nothing is under way that was not decided on),      *)
(* PoolInv (the phases of stop() and the pool), OnceInv (what is queued,   *)
(* waits, is a task or has begun is apart; a client that waits in put()    *)
(* does so with its last event, and the queue has its others in order).    *)
(***************************************************************************)
EXTENDS PeerState, LocalBus, FiniteSetTheorems, SequenceTheorems, TLAPS

(* PeerState. *)

\* What a node has published is still in its cache or was dropped from it, and
\* what it has published twice was dropped.
Remembered ==
  \A n \in Peers, e \in EventIds : accepted[n][e] > 0 => e \in seen[n] \union evicted[n]

\* The inductive invariant of the nodes.
PeerInv == PeerTypeOK /\ Remembered /\ PublishedOnce /\ NewestKept

\* Messages sent are to peers, of known ids and well-formed entries.
LEMMA Addressed ==
  ASSUME PeerTypeOK, NEW m \in sent
  PROVE  /\ m.kind = "event" => m.to \in Peers /\ m.id \in EventIds
         /\ m.kind = "entry" => m.to \in Peers /\ m.entry \in Entries
  BY DEF PeerTypeOK, EventMessages, EntryMessages

\* An id the cache loses is recorded: nothing is forgotten without a trace.
LEMMA RememberKeeps ==
  ASSUME PeerTypeOK, NEW n \in Peers, NEW e \in EventIds, Remember(n, e)
  PROVE  /\ seen' \in [Peers -> SUBSET EventIds]
         /\ evicted' \in [Peers -> SUBSET EventIds]
         /\ \A p \in Peers : evicted[p] \subseteq evicted'[p]
         /\ \A p \in Peers : seen[p] \union evicted[p] \subseteq seen'[p] \union evicted'[p]
         /\ e \in seen'[n] \union evicted'[n]
<1> DEFINE all == seen[n] \union {e}
<1>1. PICK keep \in IF Cardinality(all) > MaxSeen THEN kSubset(MaxSeen, all) ELSE {all} :
        /\ seen' = [seen EXCEPT ![n] = keep]
        /\ evicted' = [evicted EXCEPT ![n] = @ \union (all \ keep)]
  BY DEF Remember
<1>2. keep \subseteq all
  BY <1>1 DEF kSubset
<1>3. all \subseteq EventIds
  BY DEF PeerTypeOK
<1>4. seen'[n] = keep /\ evicted'[n] = evicted[n] \union (all \ keep)
  BY <1>1 DEF PeerTypeOK
<1>5. \A p \in Peers \ {n} : seen'[p] = seen[p] /\ evicted'[p] = evicted[p]
  BY <1>1 DEF PeerTypeOK
<1>6. evicted[n] \subseteq EventIds /\ seen[n] \subseteq EventIds
  BY DEF PeerTypeOK
<1>7. seen' \in [Peers -> SUBSET EventIds]
  BY <1>1, <1>2, <1>3 DEF PeerTypeOK
<1>8. evicted' \in [Peers -> SUBSET EventIds]
  <2>1. evicted[n] \union (all \ keep) \in SUBSET EventIds
    BY <1>3, <1>6
  <2> HIDE DEF all
  <2> QED
    BY <1>1, <2>1 DEF PeerTypeOK
<1> QED
  BY <1>2, <1>4, <1>5, <1>7, <1>8

\* Events leave the entries alone, so only what the event properties say can change.
LEMMA EntriesStay ==
  ASSUME PeerInv, UNCHANGED <<received, handed>>
  PROVE  NewestKept'
  BY DEF PeerInv, NewestKept

\* Without an event received or dropped, what is known of events stays.
LEMMA EventsStay ==
  ASSUME PeerInv, UNCHANGED <<seen, evicted, accepted>>
  PROVE  Remembered' /\ PublishedOnce'
  BY DEF PeerInv, Remembered, PublishedOnce

\* Publishing an event of its own a node only remembers it.
LEMMA PropagateKeeps ==
  ASSUME PeerInv, NEW n \in Publishers, NEW e \in EventIds, PropagateOutbound(n, e)
  PROVE  PeerInv'
<1>1. n \in Peers
  BY PeerAssumption
<1>2. PeerTypeOK /\ Remember(n, e)
  BY DEF PeerInv, PropagateOutbound
<1>3. PeerTypeOK'
  <2>1. \A p \in Peers : [kind |-> "event", to |-> p, id |-> e, source |-> n] \in EventMessages
    BY <1>1 DEF EventMessages
  <2>2. sent' \subseteq EventMessages \union EntryMessages
    BY <1>2, <2>1 DEF PropagateOutbound, PeerTypeOK
  <2> QED
    BY <1>1, <1>2, <2>2, RememberKeeps DEF PropagateOutbound, PeerTypeOK
<1>4. UNCHANGED accepted
  BY DEF PropagateOutbound
<1>5. Remembered' /\ PublishedOnce'
  BY <1>1, <1>2, <1>4, RememberKeeps DEF PeerInv, Remembered, PublishedOnce
<1> QED
  BY <1>3, <1>5, EntriesStay DEF PeerInv, PropagateOutbound

\* An event not in the cache that was published before must have been dropped
\* from the cache: that is the only way to publish it again.
LEMMA ReceiveInboundKeeps ==
  ASSUME PeerInv, NEW m \in sent, ReceiveInbound(m)
  PROVE  PeerInv'
<1> DEFINE n == m.to
           e == m.id
<1>1. n \in Peers /\ e \in EventIds
  BY Addressed DEF PeerInv, ReceiveInbound
<1>2. PeerTypeOK /\ Remember(n, e) /\ e \notin seen[n]
  BY DEF PeerInv, ReceiveInbound
<1> HIDE DEF n, e
<1>3. /\ accepted' = [accepted EXCEPT ![n][e] = IF @ = Often THEN @ ELSE @ + 1]
      /\ UNCHANGED <<sent, version, received, handed>>
  BY DEF ReceiveInbound, n, e
<1>4. accepted \in [Peers -> [EventIds -> 0..Often]]
  BY <1>2 DEF PeerTypeOK
<1>5. /\ accepted'[n][e] = IF accepted[n][e] = Often THEN Often ELSE accepted[n][e] + 1
      /\ \A p \in Peers, x \in EventIds : p # n \/ x # e => accepted'[p][x] = accepted[p][x]
  BY <1>1, <1>3, <1>4
<1>6. accepted' \in [Peers -> [EventIds -> 0..Often]]
  <2>1. (IF accepted[n][e] = Often THEN accepted[n][e] ELSE accepted[n][e] + 1) \in 0..Often
    BY <1>1, <1>4 DEF Often
  <2> QED
    BY <1>1, <1>3, <1>4, <2>1
<1>7. PeerTypeOK'
  BY <1>1, <1>2, <1>3, <1>6, RememberKeeps DEF PeerTypeOK
<1>8. /\ \A p \in Peers : evicted[p] \subseteq evicted'[p]
      /\ \A p \in Peers : seen[p] \union evicted[p] \subseteq seen'[p] \union evicted'[p]
      /\ e \in seen'[n] \union evicted'[n]
  BY <1>1, <1>2, RememberKeeps
<1>9. Remembered'
  BY <1>5, <1>8 DEF PeerInv, Remembered
<1>10. PublishedOnce'
  <2> SUFFICES ASSUME NEW p \in Peers, NEW x \in EventIds, accepted'[p][x] > 1
               PROVE  x \in evicted'[p]
    BY DEF PublishedOnce
  <2>1. CASE p # n \/ x # e
    BY <1>5, <1>8, <2>1 DEF PeerInv, PublishedOnce
  <2>2. CASE p = n /\ x = e
    <3>1. accepted[n][e] > 0
      BY <1>1, <1>4, <1>5, <2>2 DEF Often
    <3> QED
      BY <1>1, <1>2, <1>8, <2>2, <3>1 DEF PeerInv, Remembered
  <2> QED
    BY <2>1, <2>2
<1> QED
  BY <1>3, <1>7, <1>9, <1>10, EntriesStay DEF PeerInv

\* replicate() gives a key a newer entry, and sends it to the peers.
LEMMA ReplicateKeeps ==
  ASSUME PeerInv, NEW n \in Writers, NEW k \in Keys, Replicate(n, k)
  PROVE  PeerInv'
<1>1. n \in Peers
  BY PeerAssumption
<1>2. version \in [Peers -> [Keys -> -1..MaxVersion]] /\ MaxVersion \in Nat
  BY PeerAssumption DEF PeerInv, PeerTypeOK
<1>3. version[n][k] + 1 \in 0..MaxVersion
  BY <1>1, <1>2 DEF Replicate
<1> DEFINE entry == [key |-> k, source |-> n, version |-> version[n][k] + 1]
<1>4. entry \in Entries
  BY <1>1, <1>3 DEF Entries
<1> HIDE DEF entry
<1>5. sent' = sent \union {[kind |-> "entry", to |-> p, entry |-> entry] : p \in Peers \ {n}}
  BY DEF Replicate, entry
<1>6. \A p \in Peers : [kind |-> "entry", to |-> p, entry |-> entry] \in EntryMessages
  BY <1>4 DEF EntryMessages
<1>7. sent' \subseteq EventMessages \union EntryMessages
  BY <1>5, <1>6 DEF PeerInv, PeerTypeOK
<1>8. version' \in [Peers -> [Keys -> -1..MaxVersion]]
  BY <1>1, <1>2, <1>3 DEF Replicate
<1>9. PeerTypeOK'
  BY <1>7, <1>8 DEF PeerInv, PeerTypeOK, Replicate
<1> QED
  BY <1>9, EntriesStay, EventsStay DEF PeerInv, Replicate

\* The entry a node keeps is one it was handed, and no older than the others.
LEMMA ReceiveReplicationKeeps ==
  ASSUME PeerInv, NEW m \in sent, ReceiveReplication(m)
  PROVE  PeerInv'
<1> DEFINE n == m.to
           x == m.entry
           k == m.entry.key
           old == received[n][k]
<1>1. n \in Peers /\ x \in Entries /\ k \in Keys /\ x.version \in Nat
  BY Addressed, PeerAssumption DEF PeerInv, ReceiveReplication, Entries
<1>2. /\ received \in [Peers -> [Keys -> Entries \union {NoEntry}]]
      /\ handed \in [Peers -> SUBSET Entries]
  BY DEF PeerInv, PeerTypeOK
<1>3. /\ received' = IF Stale(old, x) THEN received ELSE [received EXCEPT ![n][k] = x]
      /\ handed' = [handed EXCEPT ![n] = @ \union {x}]
      /\ UNCHANGED <<sent, seen, evicted, accepted, version>>
  BY DEF ReceiveReplication
<1>4. x.key = k
  OBVIOUS
<1> HIDE DEF n, x, k
<1>5. handed' \in [Peers -> SUBSET Entries]
  BY <1>1, <1>2, <1>3
<1>6. received' \in [Peers -> [Keys -> Entries \union {NoEntry}]]
  BY <1>1, <1>2, <1>3
<1>7. PeerTypeOK'
  BY <1>3, <1>5, <1>6 DEF PeerInv, PeerTypeOK
<1>8. \A y \in Entries : y.version \in Nat /\ y # NoEntry
  <2>1. \A y \in Entries : y.version \in Nat
    BY PeerAssumption DEF Entries
  <2>2. NoEntry.version = -1
    BY DEF NoEntry
  <2> QED
    BY <2>1, <2>2
<1>9. NewestKept'
  <2> SUFFICES ASSUME NEW p \in Peers, NEW j \in Keys
               PROVE  LET mine == {y \in handed'[p] : y.key = j} IN
                        IF mine = {} THEN received'[p][j] = NoEntry
                        ELSE received'[p][j] \in mine
                             /\ \A y \in mine : y.version <= received'[p][j].version
    BY DEF NewestKept
  <2> DEFINE before == {y \in handed[p] : y.key = j}
             now == {y \in handed'[p] : y.key = j}
  <2>1. IF before = {} THEN received[p][j] = NoEntry
        ELSE received[p][j] \in before /\ \A y \in before : y.version <= received[p][j].version
    BY DEF PeerInv, NewestKept
  <2>2. CASE p # n \/ j # k
    <3>1. received'[p][j] = received[p][j] /\ now = before
      BY <1>1, <1>2, <1>3, <1>4, <2>2
    <3> QED
      BY <2>1, <3>1
  <2>3. CASE p = n /\ j = k
    <3>1. now = before \union {x}
      BY <1>1, <1>2, <1>3, <1>4, <2>3
    <3>2. before \subseteq Entries
      BY <1>2
    <3> HIDE DEF before, now
    <3>3. CASE Stale(old, x)
      <4>1. received'[p][j] = old /\ old # NoEntry /\ old.version >= x.version
        BY <1>3, <2>3, <3>3 DEF Stale
      <4>2. old \in before /\ \A y \in before : y.version <= old.version
        BY <2>1, <2>3, <4>1
      <4>3. old.version \in Nat
        BY <1>8, <3>2, <4>2
      <4>4. \A y \in now : y.version <= old.version
        BY <1>1, <3>1, <4>1, <4>2, <4>3
      <4> QED
        BY <3>1, <4>1, <4>2, <4>4 DEF now
    <3>4. CASE ~Stale(old, x)
      <4>1. received'[p][j] = x
        BY <1>1, <1>2, <1>3, <2>3, <3>4
      <4>2. old = NoEntry \/ ~(old.version >= x.version)
        BY <3>4 DEF Stale
      <4>3. \A y \in before : y.version <= x.version
        <5>1. CASE before = {}
          BY <5>1
        <5>2. CASE before # {}
          <6>1. old \in before /\ \A y \in before : y.version <= old.version
            BY <2>1, <2>3, <5>2
          <6>2. old # NoEntry /\ old.version \in Nat
            BY <1>8, <3>2, <6>1
          <6> QED
            BY <1>1, <1>8, <3>2, <4>2, <6>1, <6>2
        <5> QED
          BY <5>1, <5>2
      <4> QED
        BY <1>1, <3>1, <4>1, <4>3 DEF now
    <3> QED
      BY <3>3, <3>4
  <2> QED
    BY <2>2, <2>3
<1> QED
  BY <1>3, <1>7, <1>9, EventsStay DEF PeerInv

\* A restarted node has published nothing and been handed nothing.
LEMMA RestartKeeps ==
  ASSUME PeerInv, NEW n \in Peers, PeerRestart(n)
  PROVE  PeerInv'
<1>1. PeerTypeOK'
  BY PeerAssumption DEF PeerInv, PeerTypeOK, PeerRestart, Often
<1>2. /\ accepted'[n] = [e \in EventIds |-> 0]
      /\ handed'[n] = {} /\ received'[n] = [k \in Keys |-> NoEntry]
  BY DEF PeerInv, PeerTypeOK, PeerRestart
<1>3. \A p \in Peers \ {n} :
        /\ accepted'[p] = accepted[p] /\ seen'[p] = seen[p] /\ evicted'[p] = evicted[p]
        /\ handed'[p] = handed[p] /\ received'[p] = received[p]
  BY DEF PeerInv, PeerTypeOK, PeerRestart
<1>4. Remembered' /\ PublishedOnce'
  BY <1>2, <1>3 DEF PeerInv, Remembered, PublishedOnce
<1>5. NewestKept'
  BY <1>2, <1>3 DEF PeerInv, NewestKept
<1> QED
  BY <1>1, <1>4, <1>5 DEF PeerInv

\* Nodes that have received nothing satisfy the invariant.
LEMMA PeerInitially == PeerInit => PeerInv
<1> SUFFICES ASSUME PeerInit PROVE PeerInv
  OBVIOUS
<1>1. PeerTypeOK
  BY PeerAssumption DEF PeerInit, PeerTypeOK, Often
<1>2. Remembered /\ PublishedOnce
  BY DEF PeerInit, Remembered, PublishedOnce
<1>3. NewestKept
  BY DEF PeerInit, NewestKept
<1> QED
  BY <1>1, <1>2, <1>3 DEF PeerInv

\* Every step of a node, or loss or repetition of a message, keeps it.
LEMMA PeerInductive == PeerInv /\ [PeerNext]_peerVars => PeerInv'
<1> SUFFICES ASSUME PeerInv, [PeerNext]_peerVars PROVE PeerInv'
  OBVIOUS
<1>1. CASE EventTraffic
  BY <1>1, PropagateKeeps, ReceiveInboundKeeps DEF EventTraffic
<1>2. CASE EntryTraffic
  BY <1>2, ReplicateKeeps, ReceiveReplicationKeeps DEF EntryTraffic
<1>3. ASSUME NEW n \in Peers, PeerRestart(n)
      PROVE  PeerInv'
  BY <1>3, RestartKeeps
<1>4. CASE UNCHANGED peerVars
  BY <1>4, EntriesStay, EventsStay DEF PeerInv, peerVars, PeerTypeOK
<1> QED
  BY <1>1, <1>2, <1>3, <1>4 DEF PeerNext

\* Whatever copies of its messages arrive, late, repeated and out of order, a node
\* publishes an event again only when its bounded cache has dropped the id
\* (DistributedEventBus.receive_inbound).
THEOREM EventsPublishedOnce == PeerSpec => []PublishedOnce
<1>1. PeerInv => PublishedOnce
  BY DEF PeerInv
<1> QED
  BY PeerInitially, PeerInductive, <1>1, PTL DEF PeerSpec

\* A node holds the newest of the entries of a key it has been handed since it
\* started, whatever the order they arrived in (Replication.receive_replication).
THEOREM EntriesNewest == PeerSpec => []NewestKept
<1>1. PeerInv => NewestKept
  BY DEF PeerInv
<1> QED
  BY PeerInitially, PeerInductive, <1>1, PTL DEF PeerSpec

-----------------------------------------------------------------------------
(* LocalBus. *)

\* A worker as TypeOK describes it.
WorkerRecord ==
  [pc : WorkerState, item : Delivery \union {NoItem}, put : Put, q : 0..MaxStarts,
   cancelled : BOOLEAN]

\* Whatever is on its way to a handler was decided on by a dispatch.
Decided ==
  /\ Set(queue) \subseteq due
  /\ \A c \in DOMAIN puts : Set(puts[c].rest) \subseteq due
  /\ \A i \in DOMAIN workers :
       /\ Set(workers[i].put.rest) \subseteq due
       /\ workers[i].pc = "new" => workers[i].item \in due

-----------------------------------------------------------------------------
(* The pool of workers. *)

\* The workers that have not ended.
Live == {i \in DOMAIN workers : workers[i].pc # "end"}

\* A started bus has its queue; a stop() under way goes through its phases.
Phases ==
  /\ started => stopping = "no" /\ qid # 0
  /\ stopping \in {"drain", "gather"} => qid # 0
  /\ stopping = "tasks" \/ (stopping = "no" /\ ~started) => qid = 0

\* Without a start() during a stop(), a worker lives from start() until it is
\* cancelled, and takes its deliveries from the one queue.
Pool ==
  /\ \A i \in Live : workers[i].q = qid /\ qid # 0
  /\ \A i \in Live : workers[i].cancelled <=> stopping = "gather"
  /\ stopping # "gather" => listed = Live
  /\ Live \subseteq listed
  /\ stopping = "tasks" => listed = {}
  /\ stopping = "no" => Cardinality(listed) = IF started THEN WorkerCount ELSE 0

\* Unless start() was called during a stop(), phases and pool agree.
PoolInv == raced \/ (Phases /\ Pool)

-----------------------------------------------------------------------------
(* Deliveries are in one place. *)

\* A sequence without repetition.
Distinct(s) == \A i, j \in DOMAIN s : s[i] = s[j] => i = j

\* The publications that wait, and the deliveries they have decided on.
Waits == ({"put"} \X DOMAIN puts) \union ({"relay"} \X DOMAIN workers)
RestAt(x) == IF x[1] = "put" THEN puts[x[2]].rest ELSE workers[x[2]].put.rest

\* The tasks of single deliveries that have not run, and those deliveries.
New == {i \in DOMAIN workers : workers[i].pc = "new"}
InTasks == {workers[i].item : i \in New}

\* Events nothing was decided about.
Undecided(es) ==
  /\ Distinct(es)
  /\ \A e \in Set(es) : e <= Len(events) /\ \A d \in due : d[2] # e

\* Deliveries are of events there were; of the events that wait for start()
\* or in it, and of no others, nothing was decided.
Events ==
  /\ \A d \in due : d[2] <= Len(events)
  /\ Undecided(pending) /\ Undecided(puts[Flush].then)
  /\ Set(pending) \intersect Set(puts[Flush].then) = {}
  /\ \A c \in Clients : puts[c].then = <<>>
  /\ \A i \in DOMAIN workers : workers[i].put.then = <<>>

\* No delivery is in two places.
Apart ==
  /\ Distinct(queue)
  /\ \A x \in Waits : Distinct(RestAt(x))
  /\ \A i, j \in New : workers[i].item = workers[j].item => i = j
  /\ Set(queue) \intersect begun = {}
  /\ InTasks \intersect (begun \union Set(queue)) = {}
  /\ \A x \in Waits : Set(RestAt(x)) \intersect (begun \union Set(queue) \union InTasks) = {}
  /\ \A x, y \in Waits : x # y => Set(RestAt(x)) \intersect Set(RestAt(y)) = {}

\* Where a delivery can be.
Placed ==
  begun \union Set(queue) \union InTasks \union UNION {Set(RestAt(x)) : x \in Waits}

\* Before stop() no delivery is lost, no worker cancelled and no flush undone.
Kept ==
  \/ stopped
  \/ /\ stopping = "no" /\ \A i \in DOMAIN workers : ~workers[i].cancelled
     /\ ~started => puts[Flush] = Nothing
     /\ due \subseteq Placed

-----------------------------------------------------------------------------
(* Deliveries are in order. *)

\* The client whose event d delivers, and the one that waits as x.
Of(d) == events[d[2]]
Owner(x) == IF x[1] = "put" /\ x[2] \in Clients THEN x[2] ELSE None

\* d delivers an event of o, the last one there is a delivery of.
Last(d, o) ==
  Of(d) = o /\ (o # None => \A b \in due : Of(b) = o => b[2] <= d[2])

\* The queue has the events of each client in order.
Sorted ==
  \A j, k \in DOMAIN queue :
    j < k /\ Of(queue[j]) # None /\ Of(queue[j]) = Of(queue[k]) => queue[j][2] <= queue[k][2]

\* A client that waits in put() does so with its last event; start(), handlers
\* and tasks have no event that a client published on the running bus.
Order ==
  /\ Sorted
  /\ \A x \in Waits : \A d \in Set(RestAt(x)) : Last(d, Owner(x))
  /\ \A d \in InTasks : Of(d) = None
  /\ \A e \in Set(pending) \union Set(puts[Flush].then) : events[e] = None

\* The inductive invariant of the deliveries.
OnceInv == Distinct(subs) /\ Events /\ Apart /\ Kept /\ Order

-----------------------------------------------------------------------------
(* Lemmas about deliveries. *)

\* Quotient and remainder of a division are in their ranges.
LEMMA Division ==
  ASSUME NEW k \in Nat \ {0}, NEW n \in Nat, NEW a \in Nat, a < n * k
  PROVE  a \div k \in 0..(n - 1) /\ a % k \in 0..(k - 1)
<1> DEFINE d == a \div k
<1>1. d \in Int /\ a = k * d + (a % k) /\ a % k \in 0..(k - 1)
  BY SMT
<1> HIDE DEF d
<1>2. k * d <= a
  BY <1>1
<1>3. d < n
  <2>1. SUFFICES ASSUME d >= n PROVE FALSE
    BY <1>1
  <2>2. PICK r \in Nat : d = n + r
    <3>1. d - n \in Nat /\ d = n + (d - n)
      BY <1>1, <2>1
    <3> QED
      BY <3>1
  <2>3. k * d = n * k + k * r /\ k * r \in Nat
    BY <2>2
  <2> QED
    BY <1>2, <2>3, <1>1
<1>4. d >= 0
  <2>1. SUFFICES ASSUME d < 0 PROVE FALSE
    BY <1>1
  <2>2. PICK r \in Nat : d = -1 - r
    <3>1. -1 - d \in Nat /\ d = -1 - (-1 - d)
      BY <1>1, <2>1
    <3> QED
      BY <3>1
  <2>3. k * d = (-k) - k * r /\ k * r \in Nat
    BY <2>2
  <2> QED
    BY <1>1, <2>3
<1> QED
  BY <1>1, <1>3, <1>4 DEF d

\* A sequence of events has a delivery for each of them and each subscriber.
LEMMA DeliveriesTyped ==
  ASSUME subs \in Seq(Handlers), NEW es \in Seq(1..MaxEvents)
  PROVE  /\ Deliveries(es) \in Seq(Delivery)
         /\ Len(Deliveries(es)) = Len(es) * Len(subs)
         /\ DOMAIN Deliveries(es) = 1..(Len(es) * Len(subs))
<1> DEFINE n == Len(es)
           k == Len(subs)
<1>1. n \in Nat /\ k \in Nat /\ n * k \in Nat
  OBVIOUS
<1>2. ASSUME NEW j \in 1..(n * k)
      PROVE  <<subs[((j - 1) % k) + 1], es[((j - 1) \div k) + 1]>> \in Delivery
  <2>1. k \in Nat \ {0}
    BY <1>1, <1>2
  <2>2. j - 1 \in Nat /\ j - 1 < n * k
    BY <1>1, <1>2
  <2> DEFINE d == (j - 1) \div k
             m == (j - 1) % k
  <2>3. d \in 0..(n - 1) /\ m \in 0..(k - 1)
    BY <1>1, <2>1, <2>2, Division
  <2> HIDE DEF d, m
  <2>4. d + 1 \in 1..n /\ m + 1 \in 1..k
    BY <1>1, <2>3
  <2>5. subs[m + 1] \in Handlers
    BY <2>4
  <2>6. es[d + 1] \in 1..MaxEvents
    BY <2>4, ElementOfSeq
  <2> QED
    BY <2>5, <2>6 DEF d, m, Delivery
<1> DEFINE f == [j \in 1..(n * k) |-> <<subs[((j - 1) % k) + 1], es[((j - 1) \div k) + 1]>>]
<1>3. f \in [1..(n * k) -> Delivery]
  BY <1>2
<1> HIDE DEF f
<1>4. f \in Seq(Delivery) /\ Len(f) = n * k /\ DOMAIN f = 1..(n * k)
  BY <1>1, <1>3
<1> QED
  BY <1>4 DEF f, Deliveries

\* Quotient and remainder are determined by what they add up to.
LEMMA Quotient ==
  ASSUME NEW k \in Nat \ {0}, NEW a \in Nat, NEW d \in Nat, NEW r \in 0..(k - 1), a = k * d + r
  PROVE  a \div k = d /\ a % k = r
<1> DEFINE e == a \div k
           s == a % k
<1>1. e \in Int /\ a = k * e + s /\ s \in 0..(k - 1)
  BY SMT
<1> HIDE DEF e, s
<1>2. e = d
  <2>1. CASE e > d
    <3>1. PICK x \in Nat : e = d + 1 + x
      <4>1. e - d - 1 \in Nat /\ e = d + 1 + (e - d - 1)
        BY <1>1, <2>1
      <4> QED
        BY <4>1
    <3>2. k * e = k * d + k + k * x /\ k * x \in Nat
      BY <3>1
    <3> QED
      BY <1>1, <3>2
  <2>2. CASE e < d
    <3>1. PICK x \in Nat : d = e + 1 + x
      <4>1. d - e - 1 \in Nat /\ d = e + 1 + (d - e - 1)
        BY <1>1, <2>2
      <4> QED
        BY <4>1
    <3>2. k * d = k * e + k + k * x /\ k * x \in Nat
      BY <3>1, <1>1
    <3> QED
      BY <1>1, <3>2
  <2> QED
    BY <2>1, <2>2, <1>1
<1>3. s = r
  BY <1>1, <1>2
<1> QED
  BY <1>2, <1>3 DEF e, s

\* What p asks for, delivery by delivery.
All(p) == p.rest \o Deliveries(p.then)

\* It is what is left of one event, followed by the deliveries of the later
\* ones.
LEMMA AllTyped ==
  ASSUME subs \in Seq(Handlers), NEW p \in Put
  PROVE  /\ All(p) \in Seq(Delivery)
         /\ Len(All(p)) = Len(p.rest) + Len(p.then) * Len(subs)
         /\ \A j \in 1..Len(p.rest) : All(p)[j] = p.rest[j]
         /\ \A j \in 1..(Len(p.then) * Len(subs)) :
              All(p)[Len(p.rest) + j] = Deliveries(p.then)[j]
<1>1. p.rest \in Seq(Delivery) /\ p.then \in Seq(1..MaxEvents)
  BY DEF Put
<1> DEFINE r == p.rest
           d == Deliveries(p.then)
           n == Len(p.then) * Len(subs)
<1>2. d \in Seq(Delivery) /\ Len(d) = n
  BY <1>1, DeliveriesTyped
<1>3. Len(r) \in Nat /\ n \in Nat
  BY <1>1
<1> HIDE DEF d, n
<1>4. /\ r \o d \in Seq(Delivery)
      /\ Len(r \o d) = Len(r) + n
      /\ \A i \in 1..(Len(r) + n) : (r \o d)[i] = IF i <= Len(r) THEN r[i] ELSE d[i - Len(r)]
  BY <1>1, <1>2, ConcatProperties
<1>5. \A j \in 1..Len(r) : (r \o d)[j] = r[j]
  BY <1>3, <1>4
<1>6. \A j \in 1..n : (r \o d)[Len(r) + j] = d[j]
  <2>1. TAKE j \in 1..n
  <2>2. Len(r) + j \in 1..(Len(r) + n) /\ ~(Len(r) + j <= Len(r)) /\ (Len(r) + j) - Len(r) = j
    BY <1>3
  <2> QED
    BY <1>4, <2>2
<1> QED
  BY <1>4, <1>5, <1>6 DEF All, d, n

\* Fitting takes the first ones.
LEMMA FittingFirst ==
  ASSUME subs \in Seq(Handlers), NEW p \in Put, queue \in Seq(Delivery), Len(queue) <= Capacity
  PROVE  /\ Fitting(p) \in Seq(Delivery)
         /\ Len(Fitting(p)) \in 0..Len(All(p))
         /\ Len(queue) + Len(Fitting(p)) <= Capacity
         /\ \A j \in 1..Len(Fitting(p)) : Fitting(p)[j] = All(p)[j]
<1> DEFINE a == All(p)
           room == Capacity - Len(queue)
           n == IF Len(a) <= room THEN Len(a) ELSE room
<1>1. a \in Seq(Delivery)
  BY AllTyped
<1>2. a \in Seq(Delivery) /\ Len(a) \in Nat
  BY <1>1, LenProperties
<1>3. room \in Nat /\ Len(queue) \in Nat /\ Capacity \in Nat
  BY BusAssumption
<1> HIDE DEF a
<1>4. n \in 0..Len(a) /\ n <= room
  BY <1>2, <1>3
<1> HIDE DEF n
<1>5. \A i \in 1..n : a[i] \in Delivery
  <2>1. \A i \in 1..n : i \in 1..Len(a)
    BY <1>2, <1>4
  <2> QED
    BY <1>2, <2>1, ElementOfSeq
<1>6. /\ SubSeq(a, 1, n) \in Seq(Delivery)
      /\ Len(SubSeq(a, 1, n)) = n
      /\ \A i \in 1..n : SubSeq(a, 1, n)[i] = a[i]
  <2>1. n \in Int /\ 1 \in Int
    BY <1>2, <1>4
  <2>2. /\ SubSeq(a, 1, n) \in Seq(Delivery)
        /\ Len(SubSeq(a, 1, n)) = IF 1 <= n THEN n - 1 + 1 ELSE 0
        /\ \A i \in 1..(n - 1 + 1) : SubSeq(a, 1, n)[i] = a[1 + i - 1]
    BY <1>5, <2>1, SubSeqProperties
  <2>3. \A i \in 1..n : i \in 1..(n - 1 + 1) /\ 1 + i - 1 = i
    BY <2>1
  <2> QED
    BY <2>2, <2>3, <1>2, <1>4
<1>7. Fitting(p) = SubSeq(a, 1, n)
  BY DEF Fitting, All, a, n
<1>8. Len(queue) + n <= Capacity
  BY <1>2, <1>3, <1>4
<1> QED
  BY <1>4, <1>6, <1>7, <1>8 DEF a

\* The delivery of the event d + 1 to the subscriber r + 1.
LEMMA DeliveryAt ==
  ASSUME subs \in Seq(Handlers), NEW es \in Seq(1..MaxEvents),
         NEW d \in 0..(Len(es) - 1), NEW r \in 0..(Len(subs) - 1),
         NEW j, j = Len(subs) * d + r + 1
  PROVE  /\ j \in 1..(Len(es) * Len(subs))
         /\ Deliveries(es)[j] = <<subs[r + 1], es[d + 1]>>
<1> DEFINE k == Len(subs)
           n == Len(es)
<1>1. k \in Nat /\ n \in Nat
  BY LenProperties
<1> HIDE DEF k, n
<1>2. d \in 0..(n - 1) /\ r \in 0..(k - 1) /\ j = k * d + r + 1 /\ k \in Nat \ {0} /\ d \in Nat
  BY <1>1 DEF k, n
<1>3. (j - 1) \div k = d /\ (j - 1) % k = r
  <2>1. k * d \in Nat
    BY <1>2
  <2>2. j - 1 \in Nat /\ j - 1 = k * d + r
    BY <1>2, <2>1
  <2> QED
    BY <1>2, <2>2, Quotient
<1>4. j \in 1..(n * k)
  <2>1. PICK x \in Nat : n = d + 1 + x
    <3>1. n - d - 1 \in Nat /\ n = d + 1 + (n - d - 1)
      BY <1>1, <1>2
    <3> QED
      BY <3>1
  <2>2. n * k = k * d + k + k * x /\ k * x \in Nat /\ k * d \in Nat
    BY <2>1, <1>2
  <2> QED
    BY <1>2, <2>2
<1> QED
  BY <1>3, <1>4 DEF Deliveries, k, n

\* What is left of p is what follows, up to the end of the event that is cut
\* off, and the events after it.
LEMMA LeftFollows ==
  ASSUME subs \in Seq(Handlers), NEW p \in Put, queue \in Seq(Delivery), Len(queue) <= Capacity,
         NEW q \in 0..MaxStarts
  PROVE  /\ Left(p, q) \in Put
         /\ Len(p.rest) <= Len(Fitting(p)) + Len(Left(p, q).rest)
         /\ Len(Fitting(p)) + Len(Left(p, q).rest) <= Len(All(p))
         /\ \A x \in 1..Len(Left(p, q).rest) :
              Left(p, q).rest[x] = All(p)[Len(Fitting(p)) + x]
         /\ \E s \in 0..Len(p.then) :
              /\ Len(Left(p, q).then) = Len(p.then) - s
              /\ \A i \in 1..Len(Left(p, q).then) : Left(p, q).then[i] = p.then[s + i]
              /\ Len(Fitting(p)) + Len(Left(p, q).rest) <= Len(p.rest) + s * Len(subs)
              /\ p.rest = <<>> /\ p.then # <<>> => s >= 1
<1> DEFINE k == Len(subs)
           n == Len(p.then)
           f == Len(Fitting(p))
           r == Len(p.rest)
           m == f - r
           e == (m \div k) + 1
           l == Left(p, q)
<1>1. /\ p.rest \in Seq(Delivery) /\ p.then \in Seq(1..MaxEvents) /\ p.q \in 0..MaxStarts
      /\ DOMAIN p = {"rest", "then", "q"}
  BY DEF Put
<1>2. k \in Nat /\ n \in Nat /\ r \in Nat /\ n * k \in Nat
  <2>1. k \in Nat /\ n \in Nat /\ r \in Nat
    BY <1>1, LenProperties
  <2> QED
    BY <2>1
<1>3. f \in 0..(r + n * k) /\ f \in Nat /\ m \in Int /\ m <= n * k
  <2>1. Len(All(p)) = r + n * k
    BY AllTyped
  <2>2. f \in 0..Len(All(p))
    BY FittingFirst
  <2> HIDE DEF f, n, k, r
  <2>3. f \in 0..(r + n * k)
    BY <2>1, <2>2
  <2>4. f \in Nat
    BY <2>3
  <2> QED
    BY <2>3, <2>4, <1>2
<1>4. Len(All(p)) = r + n * k
  BY AllTyped
<1>5. l = IF m = n * k THEN Nothing
          ELSE IF m < 0
          THEN [p EXCEPT !.rest = SubSeq(@, f + 1, Len(@)), !.q = q]
          ELSE [rest |-> SubSeq(Deliveries(<<p.then[e]>>), (m % k) + 1, k),
                then |-> SubSeq(p.then, e + 1, n), q |-> q]
  BY DEF Left
<1>6. CASE m = n * k
  <2>1. l = Nothing
    BY <1>5, <1>6
  <2>2. l.rest = <<>> /\ l.then = <<>> /\ l \in Put
    <3>1. <<>> \in Seq(Delivery) /\ <<>> \in Seq(1..MaxEvents)
      BY EmptySeq
    <3>2. 0 \in 0..MaxStarts
      BY BusAssumption
    <3> QED
      BY <2>1, <3>1, <3>2 DEF Nothing, Put
  <2>3. f = r + n * k
    <3> HIDE DEF f, r, n, k
    <3> QED
      BY <1>6, <1>2, <1>3
  <2> HIDE DEF l, f, r, n, k
  <2>4. Len(l.rest) = 0 /\ Len(l.then) = 0
    BY <2>2, EmptySeq
  <2>5. n \in 0..n /\ Len(l.then) = n - n /\ f + Len(l.rest) <= r + n * k
    BY <1>2, <2>3, <2>4
  <2>6. p.rest = <<>> /\ p.then # <<>> => n >= 1
    BY <1>1, EmptySeq DEF n
  <2>7. /\ r <= f + Len(l.rest) /\ f + Len(l.rest) <= r + n * k
    BY <2>3, <2>4, <1>2
  <2>8. \A i \in 1..Len(l.then) : l.then[i] = p.then[n + i]
    BY <2>4
  <2>9. \A x \in 1..Len(l.rest) : l.rest[x] = All(p)[f + x]
    BY <2>4
  <2>10. \E s \in 0..n :
           /\ Len(l.then) = n - s
           /\ \A i \in 1..Len(l.then) : l.then[i] = p.then[s + i]
           /\ f + Len(l.rest) <= r + s * k
           /\ p.rest = <<>> /\ p.then # <<>> => s >= 1
    BY <2>5, <2>6, <2>8
  <2> QED
    BY <2>2, <2>7, <2>9, <2>10, <1>4 DEF l, f, r, n, k
<1>7. CASE m # n * k /\ m < 0
  <2>1. l = [p EXCEPT !.rest = SubSeq(@, f + 1, Len(@)), !.q = q]
    BY <1>5, <1>7
  <2>2. l.rest = SubSeq(p.rest, f + 1, r) /\ l.then = p.then /\ l.q = q
    BY <2>1, <1>1 DEF Put
  <2> HIDE DEF l, f, n, k
  <2>3. f < r
    BY <1>7, <1>2, <1>3
  <2>4. \A i \in (f + 1)..r : p.rest[i] \in Delivery
    <3>1. \A i \in (f + 1)..r : i \in 1..r
      BY <1>2, <1>3
    <3> QED
      BY <3>1, <1>1, ElementOfSeq
  <2>5. /\ l.rest \in Seq(Delivery) /\ Len(l.rest) = r - f
        /\ \A i \in 1..(r - f) : l.rest[i] = p.rest[f + i]
    <3>1. f + 1 \in Int /\ r \in Int
      BY <1>2, <1>3
    <3>2. /\ l.rest \in Seq(Delivery)
          /\ Len(l.rest) = IF f + 1 <= r THEN r - (f + 1) + 1 ELSE 0
          /\ \A i \in 1..(r - (f + 1) + 1) : l.rest[i] = p.rest[(f + 1) + i - 1]
      BY SMTT(30), <2>2, <2>4, <3>1, SubSeqProperties
    <3> HIDE DEF r
    <3>3. r - (f + 1) + 1 = r - f /\ f + 1 <= r
      BY <1>2, <1>3, <2>3
    <3>4. \A i \in 1..(r - f) : (f + 1) + i - 1 = f + i
      BY <1>2, <1>3
    <3> QED
      BY <3>2, <3>3, <3>4
  <2>6. l \in Put
    <3>1. l \in [rest : Seq(Delivery), then : Seq(1..MaxEvents), q : 0..MaxStarts]
      BY <2>1, <2>2, <2>5, <1>1
    <3> QED
      BY <3>1 DEF Put
  <2>7. \A x \in 1..Len(l.rest) : l.rest[x] = All(p)[f + x]
    <3>1. \A x \in 1..(r - f) : f + x \in 1..r
      BY <1>2, <1>3
    <3>2. \A j \in 1..r : All(p)[j] = p.rest[j]
      BY AllTyped
    <3> QED
      BY <3>1, <3>2, <2>5
  <2>8. r <= f + Len(l.rest) /\ f + Len(l.rest) <= r + n * k /\ f + Len(l.rest) <= r + 0 * k
    <3> HIDE DEF r
    <3> QED
      BY <2>5, <1>2, <1>3
  <2>9. /\ 0 \in 0..n /\ Len(l.then) = n - 0
        /\ \A i \in 1..Len(l.then) : l.then[i] = p.then[0 + i]
    <3>1. l.then = p.then /\ Len(l.then) = n
      BY <2>2 DEF n
    <3> QED
      BY <3>1, <1>2
  <2>10. p.rest # <<>>
    <3>1. Len(<<>>) = 0
      BY EmptySeq
    <3>2. r > 0
      BY <1>3, <1>2, <2>3
    <3> QED
      BY <3>1, <3>2
  <2> QED
    BY <2>6, <2>7, <2>8, <2>9, <2>10, <1>4 DEF l, f, n, k
<1>8. CASE m # n * k /\ ~(m < 0)
  <2> DEFINE d == m \div k
             c == m % k
  <2>1. k \in Nat \ {0} /\ m \in Nat /\ m < n * k /\ n \in Nat
    <3> HIDE DEF k, n, m
    <3>1. m \in Nat /\ m < n * k
      BY <1>2, <1>3, <1>8
    <3>2. k # 0
      BY <3>1, <1>2
    <3> QED
      BY <3>1, <3>2, <1>2
  <2>2. d \in 0..(n - 1) /\ c \in 0..(k - 1)
    BY <2>1, Division
  <2>3. m = k * d + c
    <3> HIDE DEF k, m
    <3> QED
      BY <2>1
  <2>4. l = [rest |-> SubSeq(Deliveries(<<p.then[d + 1]>>), c + 1, k),
             then |-> SubSeq(p.then, d + 1 + 1, n), q |-> q]
    BY <1>5, <1>8
  <2> DEFINE one == <<p.then[d + 1]>>
             restOf == SubSeq(Deliveries(one), c + 1, k)
             thenOf == SubSeq(p.then, d + 1 + 1, n)
  <2>5. l.rest = restOf /\ l.then = thenOf
    <3>1. l = [rest |-> restOf, then |-> thenOf, q |-> q]
      BY <2>4
    <3> HIDE DEF l, restOf, thenOf
    <3> QED
      BY <3>1
  <2> HIDE DEF d, c
  <2>6. d + 1 \in 1..n /\ d \in Nat /\ c \in Nat /\ c < k
    <3> HIDE DEF k, n
    <3> QED
      BY <2>1, <2>2
  <2>7. p.then[d + 1] \in 1..MaxEvents
    BY <2>6, <1>1, ElementOfSeq
  <2>8. one \in Seq(1..MaxEvents) /\ Len(one) = 1 /\ one[1] = p.then[d + 1]
    BY <2>7
  <2>9. Deliveries(one) \in Seq(Delivery) /\ Len(Deliveries(one)) = k
    <3>1. Deliveries(one) \in Seq(Delivery) /\ Len(Deliveries(one)) = Len(one) * Len(subs)
      BY <2>8, DeliveriesTyped
    <3> QED
      BY <3>1, <2>8, <2>1
  <2>10. \A x \in 1..(k - c) : Deliveries(one)[c + x] = <<subs[c + x], p.then[d + 1]>>
    <3>1. TAKE x \in 1..(k - c)
    <3>2. c + x - 1 \in 0..(Len(subs) - 1) /\ c + x = Len(subs) * 0 + (c + x - 1) + 1
      BY <2>1, <2>6
    <3>3. 0 \in 0..(Len(one) - 1)
      BY <2>8
    <3> HIDE DEF one
    <3>4. Deliveries(one)[c + x] = <<subs[(c + x - 1) + 1], one[0 + 1]>>
      BY <3>2, <3>3, <2>8, DeliveryAt
    <3>5. (c + x - 1) + 1 = c + x /\ 0 + 1 = 1
      BY <2>6
    <3> QED
      BY <3>4, <3>5, <2>8
  <2>11. \A x \in 1..(k - c) : All(p)[f + x] = <<subs[c + x], p.then[d + 1]>>
    <3>1. TAKE x \in 1..(k - c)
    <3> DEFINE j == m + x
    <3>2. /\ d \in 0..(Len(p.then) - 1) /\ c + x - 1 \in 0..(Len(subs) - 1)
          /\ j = Len(subs) * d + (c + x - 1) + 1
      <4>1. d \in 0..(n - 1)
        BY <2>2
      <4>2. c + x - 1 \in 0..(k - 1)
        BY <2>1, <2>6
      <4>3. k * d \in Int
        BY <2>1, <2>6
      <4> HIDE DEF m, k
      <4>4. m + x = k * d + (c + x - 1) + 1
        BY <2>3, <4>3, <2>6, <2>1
      <4> QED
        BY <4>1, <4>2, <4>4 DEF k
    <3>3. /\ j \in 1..(n * k)
          /\ Deliveries(p.then)[j] = <<subs[(c + x - 1) + 1], p.then[d + 1]>>
      <4> HIDE DEF j
      <4> QED
        BY <3>2, <1>1, DeliveryAt
    <3>4. All(p)[r + j] = Deliveries(p.then)[j]
      BY <3>3, AllTyped
    <3>5. r + j = f + x /\ (c + x - 1) + 1 = c + x
      <4> HIDE DEF r, f
      <4> QED
        BY <1>2, <1>3, <2>6
    <3> QED
      BY <3>3, <3>4, <3>5
  <2>12. /\ l.rest \in Seq(Delivery) /\ Len(l.rest) = k - c
         /\ \A x \in 1..(k - c) : l.rest[x] = <<subs[c + x], p.then[d + 1]>>
    <3>1. \A i \in (c + 1)..k : Deliveries(one)[i] \in Delivery
      <4>1. \A i \in (c + 1)..k : i \in 1..k
        BY <2>1, <2>6
      <4> HIDE DEF one, k
      <4> QED
        BY <4>1, <2>9, ElementOfSeq
    <3>2. l.rest = SubSeq(Deliveries(one), c + 1, k)
      BY <2>5
    <3> HIDE DEF l, one, k
    <3>3. c + 1 \in Int /\ k \in Int
      BY <2>1, <2>6
    <3>4. /\ l.rest \in Seq(Delivery)
          /\ Len(l.rest) = IF c + 1 <= k THEN k - (c + 1) + 1 ELSE 0
          /\ \A i \in 1..(k - (c + 1) + 1) : l.rest[i] = Deliveries(one)[(c + 1) + i - 1]
      BY <3>1, <3>2, <3>3, SubSeqProperties
    <3>5. k - (c + 1) + 1 = k - c /\ c + 1 <= k /\ \A x \in 1..(k - c) : (c + 1) + x - 1 = c + x
      BY <2>1, <2>6
    <3> QED
      BY <3>4, <3>5, <2>10
  <2>13. /\ l.then \in Seq(1..MaxEvents) /\ Len(l.then) = n - (d + 1)
         /\ \A i \in 1..Len(l.then) : l.then[i] = p.then[(d + 1) + i]
    <3>1. \A i \in (d + 2)..n : p.then[i] \in 1..MaxEvents
      <4>1. \A i \in (d + 2)..n : i \in 1..n
        BY <2>1, <2>6
      <4> QED
        BY <4>1, <1>1, ElementOfSeq
    <3>2. l.then = SubSeq(p.then, d + 2, n)
      <4>1. d + 1 + 1 = d + 2
        BY <2>6
      <4> QED
        BY <2>5, <4>1
    <3> HIDE DEF l, n
    <3>3. d + 2 \in Int /\ n \in Int
      BY <2>1, <2>6
    <3>4. /\ l.then \in Seq(1..MaxEvents)
          /\ Len(l.then) = IF d + 2 <= n THEN n - (d + 2) + 1 ELSE 0
          /\ \A i \in 1..(n - (d + 2) + 1) : l.then[i] = p.then[(d + 2) + i - 1]
      BY SMTT(30), <3>1, <3>2, <3>3, SubSeqProperties
    <3>5. Len(l.then) = n - (d + 1) /\ n - (d + 2) + 1 = n - (d + 1)
      BY <3>4, <2>1, <2>6
    <3>6. \A i \in 1..(n - (d + 1)) : (d + 2) + i - 1 = (d + 1) + i
      BY <2>1, <2>6
    <3> QED
      BY <3>4, <3>5, <3>6
  <2>14. l \in Put
    <3>1. l = [rest |-> l.rest, then |-> l.then, q |-> q]
      BY <2>4
    <3> HIDE DEF l
    <3> QED
      BY <3>1, <2>12, <2>13 DEF Put
  <2>15. f + Len(l.rest) = r + (d + 1) * k /\ r <= f + Len(l.rest)
    <3>1. f = r + m
      <4> HIDE DEF f, r
      <4> QED
        BY <1>2, <1>3
    <3>2. (d + 1) * k = k * d + k /\ k * d \in Nat
      BY <2>1, <2>6
    <3> HIDE DEF l, f, r, m, k
    <3> QED
      BY <2>12, <3>1, <3>2, <2>3, <1>2, <2>6, <2>1
  <2>16. (d + 1) * k <= n * k
    <3> HIDE DEF k, n
    <3>1. PICK x \in Nat : n = d + 1 + x
      <4>1. n - (d + 1) \in Nat /\ n = d + 1 + (n - (d + 1))
        BY <2>1, <2>6
      <4> QED
        BY <4>1
    <3>2. n * k = (d + 1) * k + x * k /\ x * k \in Nat /\ (d + 1) * k \in Nat
      BY <3>1, <2>1, <2>6
    <3> QED
      BY <3>2
  <2>17. f + Len(l.rest) <= r + n * k
    <3>1. (d + 1) * k \in Int
      BY <2>1, <2>6
    <3> HIDE DEF l, f, r, k, n
    <3> QED
      BY <2>15, <2>16, <3>1, <1>2
  <2>18. \A x \in 1..Len(l.rest) : l.rest[x] = All(p)[f + x]
    BY <2>11, <2>12
  <2>19. f + Len(l.rest) <= r + (d + 1) * k
    <3>1. (d + 1) * k \in Int
      BY <2>1, <2>6
    <3> HIDE DEF l, f, r, k, n
    <3> QED
      BY <2>15, <3>1, <1>2
  <2>20. d + 1 \in 0..n /\ d + 1 >= 1
    BY <2>6
  <2> HIDE DEF l, f, r, m, k, n
  <2> QED
    BY <2>13, <2>14, <2>15, <2>17, <2>18, <2>19, <2>20, <1>4 DEF l, f, r, k, n
<1> HIDE DEF l, m
<1> QED
  BY <1>6, <1>7, <1>8 DEF l, m

-----------------------------------------------------------------------------
(* Lemmas about sequences and dispatches. *)

\* The elements of a sequence.
LEMMA SetTyped ==
  ASSUME NEW S, NEW s \in Seq(S)
  PROVE  Set(s) \subseteq S
<1>1. DOMAIN s = 1..Len(s)
  BY LenProperties
<1> QED
  BY <1>1, ElementOfSeq DEF Set

\* Concatenation joins the elements.
LEMMA SetConcat ==
  ASSUME NEW S, NEW s \in Seq(S), NEW t \in Seq(S)
  PROVE  Set(s \o t) = Set(s) \union Set(t)
<1> DEFINE m == Len(s)
           n == Len(t)
<1>1. m \in Nat /\ n \in Nat /\ DOMAIN s = 1..m /\ DOMAIN t = 1..n
  BY LenProperties
<1>2. /\ DOMAIN (s \o t) = 1..(m + n)
      /\ \A i \in 1..(m + n) : (s \o t)[i] = IF i <= m THEN s[i] ELSE t[i - m]
  <2>1. s \o t \in Seq(S) /\ Len(s \o t) = m + n
    BY ConcatProperties
  <2>2. DOMAIN (s \o t) = 1..(m + n)
    BY <2>1, LenProperties
  <2> QED
    BY <2>2, ConcatProperties
<1> HIDE DEF m, n
<1>3. ASSUME NEW d \in Set(s \o t)
      PROVE  d \in Set(s) \union Set(t)
  <2>1. PICK i \in 1..(m + n) : d = (s \o t)[i]
    BY <1>2 DEF Set
  <2>2. CASE i <= m
    BY <1>1, <1>2, <2>1, <2>2 DEF Set
  <2>3. CASE ~(i <= m)
    <3>1. i - m \in 1..n /\ d = t[i - m]
      BY <1>1, <1>2, <2>1, <2>3
    <3> QED
      BY <1>1, <3>1 DEF Set
  <2> QED
    BY <2>2, <2>3
<1>4. ASSUME NEW d \in Set(s)
      PROVE  d \in Set(s \o t)
  <2>1. PICK i \in 1..m : d = s[i]
    BY <1>1 DEF Set
  <2>2. i \in 1..(m + n) /\ (s \o t)[i] = s[i]
    BY <1>1, <1>2, <2>1
  <2> QED
    BY <1>2, <2>1, <2>2 DEF Set
<1>5. ASSUME NEW d \in Set(t)
      PROVE  d \in Set(s \o t)
  <2>1. PICK i \in 1..n : d = t[i]
    BY <1>1 DEF Set
  <2>2. m + i \in 1..(m + n) /\ ~(m + i <= m) /\ (m + i) - m = i
    BY <1>1, <2>1
  <2>3. (s \o t)[m + i] = t[i]
    BY <1>2, <2>2
  <2> QED
    BY <1>2, <2>1, <2>2, <2>3 DEF Set
<1> QED
  BY <1>3, <1>4, <1>5

\* A sequence is its head and its tail.
LEMMA HeadTaken ==
  ASSUME NEW S, NEW s \in Seq(S), s # <<>>
  PROVE  /\ Head(s) \in S /\ Tail(s) \in Seq(S) /\ Len(Tail(s)) = Len(s) - 1
         /\ Set(s) = {Head(s)} \union Set(Tail(s))
         /\ Distinct(s) => Distinct(Tail(s)) /\ Head(s) \notin Set(Tail(s))
<1> DEFINE t == Tail(s)
           n == Len(s)
<1>1. /\ Head(s) \in S /\ t \in Seq(S) /\ Len(t) = n - 1
      /\ \A i \in 1..Len(t) : t[i] = s[i + 1]
  BY HeadTailProperties
<1>2. DOMAIN s = 1..n /\ DOMAIN t = 1..(n - 1) /\ n \in Nat /\ n # 0 /\ Head(s) = s[1]
  <2>1. DOMAIN s = 1..n /\ n \in Nat /\ n # 0
    BY LenProperties, EmptySeq
  <2>2. DOMAIN t = 1..(n - 1)
    BY <1>1, LenProperties
  <2> QED
    BY <2>1, <2>2
<1> HIDE DEF t, n
<1>3. \A i \in 1..(n - 1) : i \in Nat /\ i + 1 \in 1..n /\ t[i] = s[i + 1]
  BY <1>1, <1>2
<1>4. 1 \in 1..n /\ \A i \in 1..n : i = 1 \/ i - 1 \in 1..(n - 1)
  BY <1>2
<1>5. Set(t) \subseteq Set(s)
  BY <1>2, <1>3 DEF Set
<1>6. ASSUME NEW i \in 1..n PROVE s[i] \in {s[1]} \union Set(t)
  <2>1. CASE i # 1
    <3>1. i - 1 \in 1..(n - 1) /\ (i - 1) + 1 = i
      BY <1>2, <1>4, <2>1
    <3>2. t[i - 1] = s[i]
      BY <1>3, <3>1
    <3> QED
      BY <1>2, <3>1, <3>2 DEF Set
  <2> QED
    BY <2>1
<1>7. Set(s) = {Head(s)} \union Set(t)
  BY <1>2, <1>4, <1>5, <1>6 DEF Set
<1>8. ASSUME Distinct(s) PROVE Distinct(t) /\ Head(s) \notin Set(t)
  <2>1. ASSUME NEW i \in 1..(n - 1), NEW j \in 1..(n - 1), t[i] = t[j] PROVE i = j
    <3>1. i + 1 \in DOMAIN s /\ j + 1 \in DOMAIN s
      BY <1>2, <1>3
    <3>2. s[i + 1] = s[j + 1]
      BY <1>3, <2>1
    <3>3. i + 1 = j + 1
      BY <1>8, <3>1, <3>2 DEF Distinct
    <3> QED
      BY <1>3, <3>3
  <2>2. ASSUME NEW i \in 1..(n - 1), t[i] = s[1] PROVE FALSE
    <3>1. i + 1 = 1
      BY <1>2, <1>3, <1>4, <1>8, <2>2 DEF Distinct
    <3> QED
      BY <1>2, <3>1
  <2> QED
    BY <1>2, <2>1, <2>2 DEF Distinct, Set
<1> QED
  BY <1>1, <1>7, <1>8 DEF t, n

\* The deliveries left do not depend on the queue they are for.
LEMMA LeftRest ==
  ASSUME NEW p \in Put, NEW q, NEW r
  PROVE  Left(p, q).rest = Left(p, r).rest
<1> DEFINE k == Len(subs)
           m == Len(Fitting(p)) - Len(p.rest)
           e == (m \div k) + 1
           cut == SubSeq(p.rest, Len(Fitting(p)) + 1, Len(p.rest))
           restOf == SubSeq(Deliveries(<<p.then[e]>>), (m % k) + 1, k)
           thenOf == SubSeq(p.then, e + 1, Len(p.then))
<1>1. \A x : Left(p, x) = IF m = Len(p.then) * k THEN Nothing
                         ELSE IF m < 0
                         THEN [p EXCEPT !.rest = cut, !.q = x]
                         ELSE [rest |-> restOf, then |-> thenOf, q |-> x]
  BY DEF Left
<1>2. DOMAIN p = {"rest", "then", "q"}
  BY DEF Put
<1>3. \A x : [p EXCEPT !.rest = cut, !.q = x].rest = cut
  <2> HIDE DEF cut
  <2> QED
    BY <1>2
<1> HIDE DEF m, e, k, cut, restOf, thenOf
<1>4. \A x : [rest |-> restOf, then |-> thenOf, q |-> x].rest = restOf
  OBVIOUS
<1> QED
  BY <1>1, <1>3, <1>4

\* Delivery j of a sequence of events is of one of the first s events if it is
\* among their deliveries.
LEMMA DeliveryOf ==
  ASSUME subs \in Seq(Handlers), NEW es \in Seq(1..MaxEvents), NEW s \in 0..Len(es),
         NEW j \in Nat \ {0}, j <= s * Len(subs)
  PROVE  \E d \in 0..(s - 1), r \in 0..(Len(subs) - 1) :
           /\ j = Len(subs) * d + r + 1
           /\ Deliveries(es)[j] = <<subs[r + 1], es[d + 1]>>
<1> DEFINE k == Len(subs)
           n == Len(es)
           d == (j - 1) \div k
           r == (j - 1) % k
<1>1. k \in Nat /\ n \in Nat
  BY LenProperties
<1>2. s \in 0..n /\ j <= s * k
  OBVIOUS
<1>3. k \in Nat \ {0} /\ s \in Nat
  <2> HIDE DEF k, n
  <2>1. s \in Nat
    BY <1>2, <1>1
  <2>2. k # 0
    BY <1>2, <2>1
  <2> QED
    BY <1>1, <2>1, <2>2
<1>4. d \in 0..(s - 1) /\ r \in 0..(k - 1)
  <2>1. j - 1 \in Nat /\ j - 1 < s * k
    <3>1. s * k \in Nat
      BY <1>3
    <3> HIDE DEF k
    <3> QED
      BY <3>1, <1>2
  <2> QED
    BY <1>3, <2>1, Division
<1>5. j = k * d + r + 1
  <2> HIDE DEF k
  <2>1. j - 1 = k * d + r
    BY <1>3
  <2>2. k * d \in Nat
    BY <1>3, <1>4
  <2> HIDE DEF d, r
  <2> QED
    BY <2>1, <2>2, <1>4, <1>3
<1>6. Deliveries(es)[j] = <<subs[r + 1], es[d + 1]>>
  <2>1. d \in 0..(n - 1)
    <3> HIDE DEF n, d
    <3> QED
      BY <1>2, <1>1, <1>3, <1>4
  <2> HIDE DEF d, r
  <2> QED
    BY <2>1, <1>4, <1>5, DeliveryAt
<1> HIDE DEF d, r
<1> QED
  BY <1>4, <1>5, <1>6

\* What p asks for is asked for once.
LEMMA AllDistinct ==
  ASSUME subs \in Seq(Handlers), Distinct(subs), NEW p \in Put, Distinct(p.rest),
         Distinct(p.then), \A d \in Set(p.rest) : d[2] \notin Set(p.then)
  PROVE  \A i, j \in 1..Len(All(p)) : All(p)[i] = All(p)[j] => i = j
<1> DEFINE k == Len(subs)
           n == Len(p.then)
           r == Len(p.rest)
           a == All(p)
<1>1. p.rest \in Seq(Delivery) /\ p.then \in Seq(1..MaxEvents)
  BY DEF Put
<1>2. /\ k \in Nat /\ n \in Nat /\ r \in Nat
      /\ DOMAIN subs = 1..k /\ DOMAIN p.then = 1..n /\ DOMAIN p.rest = 1..r
  BY <1>1, LenProperties
<1>3. n * k \in Nat
  BY <1>2
<1>4. /\ Len(a) = r + n * k
      /\ \A j \in 1..r : a[j] = p.rest[j]
      /\ \A j \in 1..(n * k) : a[r + j] = Deliveries(p.then)[j]
  BY AllTyped
<1>5. \A j \in 1..(n * k) : \E d \in 0..(n - 1), c \in 0..(k - 1) :
        j = k * d + c + 1 /\ a[r + j] = <<subs[c + 1], p.then[d + 1]>>
  <2>1. TAKE j \in 1..(n * k)
  <2>2. j \in Nat \ {0} /\ j <= n * Len(subs) /\ n \in 0..Len(p.then)
    BY <1>2, <1>3
  <2>3. \E d \in 0..(n - 1), c \in 0..(Len(subs) - 1) :
          /\ j = Len(subs) * d + c + 1
          /\ Deliveries(p.then)[j] = <<subs[c + 1], p.then[d + 1]>>
    BY <1>1, <2>2, DeliveryOf
  <2> QED
    BY <1>4, <2>3
<1> HIDE DEF a, k, n, r
<1>6. \A t \in 1..Len(a) : t \in 1..r \/ \E j \in 1..(n * k) : t = r + j
  <2>1. TAKE t \in 1..Len(a)
  <2>2. CASE ~(t <= r)
    <3>1. t - r \in 1..(n * k) /\ t = r + (t - r)
      BY <1>2, <1>3, <1>4, <2>2
    <3> QED
      BY <3>1
  <2> QED
    BY <2>2, <1>2, <1>4, <1>3
<1>7. /\ \A d \in 0..(n - 1) : d \in Nat /\ d + 1 \in 1..n
      /\ \A c \in 0..(k - 1) : c \in Nat /\ c + 1 \in 1..k
  BY <1>2
<1>8. ASSUME NEW x \in 1..r, NEW y \in 1..r, a[x] = a[y]
      PROVE  x = y
  BY <1>2, <1>4, <1>8 DEF Distinct
<1>9. ASSUME NEW x \in 1..r, NEW y \in 1..(n * k), a[x] = a[r + y]
      PROVE  FALSE
  <2>1. PICK d \in 0..(n - 1), c \in 0..(k - 1) : a[r + y] = <<subs[c + 1], p.then[d + 1]>>
    BY <1>5
  <2>2. d + 1 \in 1..n
    BY <1>7
  <2>3. p.then[d + 1] \in Set(p.then)
    BY <1>2, <2>2 DEF Set
  <2>4. p.rest[x] \in Set(p.rest) /\ p.rest[x] = <<subs[c + 1], p.then[d + 1]>>
    BY <1>2, <1>4, <1>9, <2>1 DEF Set
  <2>5. p.rest[x][2] = p.then[d + 1]
    BY <2>4
  <2> QED
    BY <2>3, <2>4, <2>5
<1>10. ASSUME NEW x \in 1..(n * k), NEW y \in 1..(n * k), a[r + x] = a[r + y]
       PROVE  x = y
  <2>1. PICK d \in 0..(n - 1), c \in 0..(k - 1) :
          x = k * d + c + 1 /\ a[r + x] = <<subs[c + 1], p.then[d + 1]>>
    BY <1>5
  <2>2. PICK e \in 0..(n - 1), b \in 0..(k - 1) :
          y = k * e + b + 1 /\ a[r + y] = <<subs[b + 1], p.then[e + 1]>>
    BY <1>5
  <2>3. subs[c + 1] = subs[b + 1] /\ p.then[d + 1] = p.then[e + 1]
    BY <1>10, <2>1, <2>2
  <2>4. /\ c + 1 \in 1..k /\ b + 1 \in 1..k /\ d + 1 \in 1..n /\ e + 1 \in 1..n
        /\ c \in Nat /\ b \in Nat /\ d \in Nat /\ e \in Nat
    BY <1>7
  <2>5. c + 1 = b + 1 /\ d + 1 = e + 1
    BY <1>2, <2>3, <2>4 DEF Distinct
  <2>6. c = b /\ d = e
    BY <2>4, <2>5
  <2> QED
    BY <2>1, <2>2, <2>6
<1>11. \A i, j \in 1..Len(a) : a[i] = a[j] => i = j
  <2> TAKE i, j \in 1..Len(a)
  <2> HAVE a[i] = a[j]
  <2> QED
    BY <1>6, <1>8, <1>9, <1>10
<1> QED
  BY <1>11 DEF a

\* A dispatch splits what p asks for: some goes into the queue, some waits, and
\* nothing has been decided about the events that are left.
LEMMA Splits ==
  ASSUME subs \in Seq(Handlers), Distinct(subs), queue \in Seq(Delivery), Len(queue) <= Capacity,
         NEW p \in Put, Distinct(p.rest), Distinct(p.then),
         \A d \in Set(p.rest) : d[2] \notin Set(p.then),
         NEW q \in 0..MaxStarts, NEW l, l = Left(p, q), NEW f, f = Fitting(p)
  PROVE  /\ Distinct(f) /\ Distinct(l.rest) /\ Set(f) \intersect Set(l.rest) = {}
         /\ Set(p.rest) \subseteq Set(f) \union Set(l.rest)
         /\ \A d \in Set(f) \union Set(l.rest) : d \in Set(p.rest) \/ d[2] \in Set(p.then)
         /\ Distinct(l.then) /\ Set(l.then) \subseteq Set(p.then)
         /\ \A d \in Set(f) \union Set(l.rest) : d[2] \notin Set(l.then)
         /\ p.then = <<>> \/ (p.rest = <<>> /\ Len(p.then) = 1) => l.then = <<>>
<1> DEFINE k == Len(subs)
           n == Len(p.then)
           r == Len(p.rest)
           a == All(p)
           m == Len(f)
           w == Len(l.rest)
<1>1. p.rest \in Seq(Delivery) /\ p.then \in Seq(1..MaxEvents)
  BY DEF Put
<1>2. /\ k \in Nat /\ n \in Nat /\ r \in Nat
      /\ DOMAIN p.then = 1..n /\ DOMAIN p.rest = 1..r
  BY <1>1, LenProperties
<1>3. /\ f \in Seq(Delivery) /\ m \in 0..Len(a) /\ \A j \in 1..m : f[j] = a[j]
  BY FittingFirst
<1>4. /\ l \in Put /\ r <= m + w /\ m + w <= Len(a) /\ \A x \in 1..w : l.rest[x] = a[m + x]
  BY LeftFollows
<1>5. PICK s \in 0..n :
        /\ Len(l.then) = n - s /\ \A i \in 1..Len(l.then) : l.then[i] = p.then[s + i]
        /\ m + w <= r + s * k
        /\ p.rest = <<>> /\ p.then # <<>> => s >= 1
  BY LeftFollows
<1>6. l.rest \in Seq(Delivery) /\ l.then \in Seq(1..MaxEvents)
  BY <1>4 DEF Put
<1>7. /\ m \in Nat /\ w \in Nat /\ DOMAIN f = 1..m /\ DOMAIN l.rest = 1..w
      /\ DOMAIN l.then = 1..Len(l.then) /\ Len(l.then) \in Nat
  BY <1>3, <1>6, LenProperties
<1>8. n * k \in Nat
  BY <1>2
<1>9. /\ Len(a) = r + n * k
      /\ \A j \in 1..r : a[j] = p.rest[j]
      /\ \A j \in 1..(n * k) : a[r + j] = Deliveries(p.then)[j]
  BY AllTyped
<1>10. m + w <= r + s * k
  BY <1>5
<1> HIDE DEF k, n, r, a, m, w
<1>11. /\ Len(a) = r + n * k /\ n * k \in Nat
       /\ \A j \in 1..r : a[j] = p.rest[j]
       /\ \A j \in 1..(n * k) : a[r + j] = Deliveries(p.then)[j]
  BY <1>8, <1>9
<1>12. \A i, j \in 1..Len(a) : a[i] = a[j] => i = j
  BY AllDistinct DEF a
<1>13. Len(a) \in Nat /\ s \in Nat /\ s * k \in Nat /\ s <= n
  <2>1. s \in Nat /\ s <= n
    BY <1>2
  <2> QED
    BY <1>2, <1>11, <2>1
<1>14. ASSUME NEW t \in 1..(m + w)
       PROVE  (t \in 1..r /\ a[t] = p.rest[t])
              \/ (\E e \in 0..(s - 1) : e + 1 \in 1..n /\ a[t][2] = p.then[e + 1])
  <2>1. CASE t <= r
    BY <1>2, <1>7, <1>11, <2>1
  <2>2. CASE ~(t <= r)
    <3> DEFINE j == t - r
    <3>1. t \in Nat /\ t <= m + w
      BY <1>7
    <3>2. j \in Nat \ {0} /\ t = r + j
      BY <1>2, <2>2, <3>1
    <3>3. t <= r + s * k
      BY SMTT(30), <1>2, <1>7, <1>13, <1>10, <3>1
    <3>4. j \in Nat \ {0} /\ t = r + j /\ t <= r + s * k
      BY <3>2, <3>3
    <3>5. j <= s * k
      BY <1>2, <1>13, <3>4
    <3>6. t <= Len(a)
      BY <1>4, <1>7, <1>13
    <3>7. j \in 1..(n * k)
      BY SMTT(30), <1>2, <1>11, <3>4, <3>6
    <3>8. a[t] = Deliveries(p.then)[j]
      BY <1>11, <3>4, <3>7
    <3> HIDE DEF j
    <3>9. s \in 0..Len(p.then) /\ j <= s * Len(subs)
      BY <1>5, <3>5 DEF n, k
    <3>10. \E d \in 0..(s - 1), c \in 0..(Len(subs) - 1) :
             /\ j = Len(subs) * d + c + 1
             /\ Deliveries(p.then)[j] = <<subs[c + 1], p.then[d + 1]>>
      BY <1>1, <3>4, <3>9, DeliveryOf
    <3>11. PICK d \in 0..(s - 1), c \in 0..(Len(subs) - 1) :
             Deliveries(p.then)[j] = <<subs[c + 1], p.then[d + 1]>>
      BY <3>10
    <3>12. d + 1 \in 1..n
      BY SMTT(30), <1>2, <1>13
    <3>13. a[t][2] = p.then[d + 1]
      BY <3>8, <3>11
    <3> QED
      BY <3>12, <3>13
  <2> QED
    BY <2>1, <2>2
<1>15. /\ \A j \in 1..m : j \in 1..Len(a) /\ j \in 1..(m + w)
       /\ \A x \in 1..w : m + x \in 1..Len(a) /\ m + x \in 1..(m + w)
  BY <1>3, <1>4, <1>7, <1>13
<1>16. Distinct(f)
  <2>1. ASSUME NEW i \in DOMAIN f, NEW j \in DOMAIN f, f[i] = f[j] PROVE i = j
    <3>1. i \in 1..m /\ j \in 1..m /\ f[i] = a[i] /\ f[j] = a[j]
      BY <1>3, <1>7
    <3>2. i \in 1..Len(a) /\ j \in 1..Len(a) /\ a[i] = a[j]
      BY <1>15, <2>1, <3>1
    <3> QED
      BY <1>12, <3>2
  <2> QED
    BY <2>1 DEF Distinct
<1>17. Distinct(l.rest)
  <2>1. ASSUME NEW x \in 1..w, NEW y \in 1..w, l.rest[x] = l.rest[y]
        PROVE  x = y
    <3>1. m + x = m + y
      BY <1>4, <1>12, <1>15, <2>1
    <3> QED
      BY <1>7, <3>1
  <2> QED
    BY <1>7, <2>1 DEF Distinct
<1>18. Set(f) \intersect Set(l.rest) = {}
  <2>1. ASSUME NEW j \in 1..m, NEW x \in 1..w, f[j] = l.rest[x]
        PROVE  FALSE
    <3>1. j = m + x
      BY <1>3, <1>4, <1>12, <1>15, <2>1
    <3> QED
      BY <1>7, <3>1
  <2> QED
    BY <1>7, <2>1 DEF Set
<1>19. ASSUME NEW d \in Set(f) \union Set(l.rest)
       PROVE  \E t \in 1..(m + w) : d = a[t]
  <2>1. CASE d \in Set(f)
    <3>1. PICK j \in 1..m : d = f[j]
      BY <1>7, <2>1 DEF Set
    <3> QED
      BY <1>3, <1>15, <3>1
  <2>2. CASE d \in Set(l.rest)
    <3>1. PICK x \in 1..w : d = l.rest[x]
      BY <1>7, <2>2 DEF Set
    <3> QED
      BY <1>4, <1>15, <3>1
  <2> QED
    BY <2>1, <2>2
<1>20. Set(p.rest) \subseteq Set(f) \union Set(l.rest)
  <2>1. SUFFICES ASSUME NEW j \in 1..r
                 PROVE  p.rest[j] \in Set(f) \union Set(l.rest)
    BY <1>2 DEF Set
  <2>2. a[j] = p.rest[j]
    BY <1>11
  <2>3. CASE j <= m
    <3>1. j \in 1..m
      BY <1>7, <2>3
    <3>2. f[j] = p.rest[j]
      BY <1>3, <2>2, <3>1
    <3> QED
      BY <1>7, <3>1, <3>2 DEF Set
  <2>4. CASE ~(j <= m)
    <3>1. j - m \in 1..w /\ m + (j - m) = j
      BY SMTT(30), <1>2, <1>4, <1>7, <2>4
    <3>2. l.rest[j - m] = a[m + (j - m)]
      BY <1>4, <3>1
    <3>3. l.rest[j - m] = p.rest[j]
      BY <2>2, <3>1, <3>2
    <3> QED
      BY <1>7, <3>1, <3>3 DEF Set
  <2> QED
    BY <2>3, <2>4
<1>21. ASSUME NEW d \in Set(f) \union Set(l.rest)
       PROVE  d \in Set(p.rest) \/ d[2] \in Set(p.then)
  <2>1. PICK t \in 1..(m + w) : d = a[t]
    BY <1>19
  <2>2. CASE t \in 1..r /\ a[t] = p.rest[t]
    BY <1>2, <2>1, <2>2 DEF Set
  <2>3. CASE \E e \in 0..(s - 1) : e + 1 \in 1..n /\ a[t][2] = p.then[e + 1]
    BY <1>2, <2>1, <2>3 DEF Set
  <2> QED
    BY <1>14, <2>2, <2>3
<1>22. \A i \in 1..Len(l.then) : i \in Nat /\ s + i \in 1..n /\ s + i > s
  <2>1. Len(l.then) = n - s
    BY <1>5
  <2>2. n \in Nat /\ s \in 0..n
    BY <1>2
  <2> HIDE DEF n
  <2>3. \A i \in 1..(n - s) : i \in Nat /\ s + i \in 1..n /\ s + i > s
    BY ONLY <2>2
  <2> QED
    BY ONLY <2>1, <2>3
<1>23. Distinct(l.then) /\ Set(l.then) \subseteq Set(p.then)
  <2>1. ASSUME NEW i \in 1..Len(l.then), NEW j \in 1..Len(l.then), l.then[i] = l.then[j]
        PROVE  i = j
    <3>1. s + i = s + j
      <4>1. s + i \in DOMAIN p.then /\ s + j \in DOMAIN p.then
        BY <1>2, <1>22
      <4>2. p.then[s + i] = p.then[s + j]
        BY <1>5, <2>1
      <4> QED
        BY <4>1, <4>2 DEF Distinct
    <3> QED
      BY <1>13, <1>22, <3>1
  <2>2. ASSUME NEW i \in 1..Len(l.then)
        PROVE  l.then[i] \in Set(p.then)
    BY <1>2, <1>5, <1>22 DEF Set
  <2> QED
    BY <1>7, <2>1, <2>2 DEF Distinct, Set
<1>24. ASSUME NEW d \in Set(f) \union Set(l.rest), d[2] \in Set(l.then)
       PROVE  FALSE
  <2>1. PICK t \in 1..(m + w) : d = a[t]
    BY <1>19
  <2>2. PICK i \in 1..Len(l.then) : d[2] = l.then[i]
    BY <1>7, <1>24 DEF Set
  <2>3. d[2] = p.then[s + i] /\ s + i \in 1..n
    BY <1>5, <1>22, <2>2
  <2>4. CASE t \in 1..r /\ a[t] = p.rest[t]
    <3>1. d \in Set(p.rest) /\ d[2] \in Set(p.then)
      BY <1>2, <2>1, <2>3, <2>4 DEF Set
    <3> QED
      BY <3>1
  <2>5. CASE \E e \in 0..(s - 1) : e + 1 \in 1..n /\ a[t][2] = p.then[e + 1]
    <3>1. PICK e \in 0..(s - 1) : e + 1 \in 1..n /\ a[t][2] = p.then[e + 1]
      BY <2>5
    <3>2. s + i = e + 1
      BY <1>2, <2>1, <2>3, <3>1 DEF Distinct
    <3> QED
      BY <1>13, <1>22, <3>2
  <2> QED
    BY <1>14, <2>4, <2>5
<1>25. ASSUME p.then = <<>> \/ (p.rest = <<>> /\ n = 1)
       PROVE  l.then = <<>>
  <2>1. n = 0 \/ s >= 1
    <3>1. CASE p.then = <<>>
      BY <3>1, EmptySeq DEF n
    <3>2. CASE p.rest = <<>> /\ n = 1
      <4>1. Len(<<>>) = 0
        BY EmptySeq
      <4>2. p.then # <<>>
        BY SMTT(30), <3>2, <4>1 DEF n
      <4> QED
        BY <3>2, <4>2, <1>5
    <3> QED
      BY <1>25, <3>1, <3>2
  <2>2. n = 0 \/ n = 1
    BY <1>25, EmptySeq DEF n
  <2>3. Len(l.then) = 0
    BY <1>2, <1>5, <1>13, <2>1, <2>2
  <2> QED
    BY <1>6, <2>3, EmptySeq
<1> QED
  BY <1>16, <1>17, <1>18, <1>20, <1>21, <1>23, <1>24, <1>25 DEF n

-----------------------------------------------------------------------------
(* What the actions do to the workers, the queue and the publications. *)

\* Workers and publications are of their types.
LEMMA Parts ==
  ASSUME TypeOK
  PROVE  /\ workers \in Seq(WorkerRecord) /\ DOMAIN workers = 1..Len(workers)
         /\ Len(workers) \in Nat
         /\ \A i \in DOMAIN workers : workers[i] \in WorkerRecord
         /\ \A c \in Clients \union {Flush} : puts[c] \in Put
         /\ DOMAIN puts = Clients \union {Flush}
<1>1. workers \in Seq(WorkerRecord)
  BY DEF TypeOK, WorkerRecord
<1>2. DOMAIN workers = 1..Len(workers) /\ Len(workers) \in Nat
  BY <1>1, LenProperties
<1>3. \A i \in DOMAIN workers : workers[i] \in WorkerRecord
  BY <1>1, <1>2, ElementOfSeq
<1> QED
  BY <1>1, <1>2, <1>3 DEF TypeOK

\* Nothing is a publication without deliveries.
LEMMA NothingTyped ==
  /\ Nothing \in Put /\ Nothing.rest = <<>> /\ Nothing.then = <<>> /\ Nothing.q = 0
  /\ Set(<<>>) = {}
<1>1. <<>> \in Seq(Delivery) /\ <<>> \in Seq(1..MaxEvents)
  BY EmptySeq
<1>2. 0 \in 0..MaxStarts
  BY BusAssumption
<1>3. Set(<<>>) = {}
  BY DEF Set
<1> QED
  BY <1>1, <1>2, <1>3 DEF Nothing, Put

\* A worker that ended waits for nothing.
LEMMA GoneTyped ==
  /\ Gone \in WorkerRecord /\ Gone.pc = "end" /\ Gone.put = Nothing /\ Gone.cancelled = FALSE
<1>1. 0 \in 0..MaxStarts /\ "end" \in WorkerState /\ NoItem \in Delivery \union {NoItem}
  BY BusAssumption DEF WorkerState
<1> QED
  BY <1>1, NothingTyped DEF Gone, Worker, WorkerRecord

\* Worker i becomes w.
Becomes(i, w) ==
  /\ workers' \in Seq(WorkerRecord) /\ DOMAIN workers' = DOMAIN workers
  /\ workers'[i] = w /\ \A j \in DOMAIN workers \ {i} : workers'[j] = workers[j]

\* The update of one worker.
LEMMA Except ==
  ASSUME TypeOK, NEW i \in DOMAIN workers, NEW w \in WorkerRecord,
         workers' = [workers EXCEPT ![i] = w]
  PROVE  Becomes(i, w)
<1>1. i \in 1..Len(workers) /\ workers \in Seq(WorkerRecord) /\ DOMAIN workers = 1..Len(workers)
  BY Parts
<1>2. /\ workers' \in Seq(WorkerRecord) /\ Len(workers') = Len(workers)
      /\ \A j \in 1..Len(workers) : workers'[j] = IF j = i THEN w ELSE workers[j]
  BY <1>1, ExceptSeq
<1>3. DOMAIN workers' = DOMAIN workers
  BY <1>1, <1>2, LenProperties
<1> QED
  BY <1>1, <1>2, <1>3 DEF Becomes

\* The workers in t are added to those in s.
Added(s, t) ==
  /\ workers' \in Seq(WorkerRecord)
  /\ DOMAIN workers \subseteq DOMAIN workers'
  /\ \A i \in DOMAIN workers : workers'[i] = s[i]
  /\ DOMAIN workers' \ DOMAIN workers = (Len(workers) + 1)..(Len(workers) + Len(t))
  /\ \A j \in 1..Len(t) : Len(workers) + j \in DOMAIN workers' \ DOMAIN workers
  /\ \A i \in DOMAIN workers' \ DOMAIN workers :
       i - Len(workers) \in 1..Len(t) /\ workers'[i] = t[i - Len(workers)]

\* New workers come after those there are.
LEMMA Appended ==
  ASSUME TypeOK, NEW s \in Seq(WorkerRecord), NEW t \in Seq(WorkerRecord),
         DOMAIN s = DOMAIN workers, workers' = s \o t
  PROVE  Added(s, t)
<1> DEFINE m == Len(workers)
           n == Len(t)
<1>1. m \in Nat /\ n \in Nat /\ DOMAIN workers = 1..m /\ DOMAIN s = 1..m /\ DOMAIN t = 1..n
  BY Parts, LenProperties
<1>2. Len(s) = m
  <2>1. Len(s) \in Nat /\ DOMAIN s = 1..Len(s)
    BY LenProperties
  <2> HIDE DEF m
  <2> QED
    BY <1>1, <2>1
<1>3. /\ workers' \in Seq(WorkerRecord) /\ Len(workers') = m + n
      /\ \A i \in 1..(m + n) : workers'[i] = IF i <= m THEN s[i] ELSE t[i - m]
  <2>1. /\ s \o t \in Seq(WorkerRecord)
        /\ Len(s \o t) = Len(s) + Len(t)
        /\ \A i \in 1..(Len(s) + Len(t)) :
             (s \o t)[i] = IF i <= Len(s) THEN s[i] ELSE t[i - Len(s)]
    BY ConcatProperties
  <2> QED
    BY <1>2, <2>1
<1>4. DOMAIN workers' = 1..(m + n)
  BY <1>3, LenProperties
<1> HIDE DEF m, n
<1>5. 1..m \subseteq 1..(m + n) /\ \A i \in 1..m : workers'[i] = s[i]
  BY <1>1, <1>3
<1>6. (1..(m + n)) \ (1..m) = (m + 1)..(m + n)
  BY <1>1
<1>7. \A i \in (m + 1)..(m + n) : i - m \in 1..n /\ workers'[i] = t[i - m]
  <2>1. TAKE i \in (m + 1)..(m + n)
  <2>2. i \in 1..(m + n) /\ ~(i <= m) /\ i - m \in 1..n
    BY <1>1
  <2> QED
    BY <1>3, <2>2
<1>8. \A j \in 1..n : m + j \in (m + 1)..(m + n)
  BY <1>1
<1> QED
  BY <1>1, <1>3, <1>4, <1>5, <1>6, <1>7, <1>8 DEF Added, m, n

\* A dispatch leaves a bounded queue, and decides on what it put there and on
\* what is left of the event at hand.
LEMMA Fed ==
  ASSUME TypeOK, NEW p \in Put, NEW q \in 0..MaxStarts, Feed(p)
  PROVE  /\ queue' \in Seq(Delivery) /\ Len(queue') <= Capacity
         /\ Set(queue') = Set(queue) \union Set(Fitting(p))
         /\ due' = due \union Set(Fitting(p)) \union Set(Left(p, q).rest)
         /\ Left(p, q) \in Put
         /\ Set(Fitting(p)) \subseteq Delivery /\ Set(Left(p, q).rest) \subseteq Delivery
<1>1. subs \in Seq(Handlers) /\ queue \in Seq(Delivery) /\ Len(queue) <= Capacity
  BY DEF TypeOK
<1>2. Fitting(p) \in Seq(Delivery) /\ Len(queue) + Len(Fitting(p)) <= Capacity
  BY <1>1, FittingFirst
<1>3. Left(p, q) \in Put
  BY <1>1, LeftFollows
<1>4. Left(p, q).rest = Left(p, qid).rest
  BY LeftRest
<1>5. Left(p, q).rest \in Seq(Delivery)
  BY <1>3 DEF Put
<1>6. queue' = queue \o Fitting(p)
  BY DEF Feed
<1>7. queue' \in Seq(Delivery) /\ Len(queue') = Len(queue) + Len(Fitting(p))
  BY <1>1, <1>2, <1>6, ConcatProperties
<1>8. Set(queue') = Set(queue) \union Set(Fitting(p))
  BY <1>1, <1>2, <1>6, SetConcat
<1>9. Set(Fitting(p)) \subseteq Delivery /\ Set(Left(p, q).rest) \subseteq Delivery
  BY <1>2, <1>5, SetTyped
<1> QED
  BY <1>2, <1>3, <1>4, <1>7, <1>8, <1>9 DEF Feed

\* The tasks of a publication without a queue.
LEMMA TasksTyped ==
  ASSUME TypeOK, Len(events) < MaxEvents
  PROVE  /\ Fresh \in Put /\ Fresh.rest = <<>> /\ Fresh.then = <<Len(events) + 1>>
         /\ Len(events) + 1 \in 1..MaxEvents /\ Len(events) \in Nat
         /\ Deliveries(Fresh.then) \in Seq(Delivery)
         /\ Set(Deliveries(Fresh.then)) \subseteq Delivery
         /\ Tasks \in Seq(WorkerRecord) /\ Len(Tasks) = Len(Deliveries(Fresh.then))
         /\ \A j \in 1..Len(Tasks) :
              /\ Tasks[j].pc = "new" /\ Tasks[j].item = Deliveries(Fresh.then)[j]
              /\ Tasks[j].put = Nothing /\ Tasks[j].q = 0 /\ Tasks[j].cancelled = FALSE
              /\ Deliveries(Fresh.then)[j] \in Set(Deliveries(Fresh.then))
<1>1. events \in Seq(Clients \union {None}) /\ subs \in Seq(Handlers)
  BY DEF TypeOK
<1>2. Len(events) \in Nat
  BY <1>1, LenProperties
<1>3. Len(events) + 1 \in 1..MaxEvents
  BY <1>2, BusAssumption
<1> DEFINE e == Len(events) + 1
<1> HIDE DEF e
<1>4. <<e>> \in Seq(1..MaxEvents)
  BY <1>3 DEF e
<1>5. Fresh = [Nothing EXCEPT !.then = <<e>>]
  BY DEF Fresh, e
<1>6. Fresh \in Put /\ Fresh.rest = <<>> /\ Fresh.then = <<e>>
  BY <1>4, <1>5, NothingTyped DEF Put
<1> DEFINE ds == Deliveries(Fresh.then)
<1>7. ds \in Seq(Delivery)
  BY <1>1, <1>4, <1>6, DeliveriesTyped
<1>8. DOMAIN ds = 1..Len(ds) /\ Len(ds) \in Nat
  BY <1>7, LenProperties
<1>9. \A j \in 1..Len(ds) : ds[j] \in Delivery
  BY <1>7, ElementOfSeq
<1>10. Tasks = [j \in 1..Len(ds) |-> Worker("new", ds[j], 0)]
  BY <1>8 DEF Tasks
<1> HIDE DEF ds
<1>11. \A j \in 1..Len(ds) :
        /\ Worker("new", ds[j], 0) \in WorkerRecord
        /\ Worker("new", ds[j], 0).pc = "new" /\ Worker("new", ds[j], 0).item = ds[j]
        /\ Worker("new", ds[j], 0).put = Nothing /\ Worker("new", ds[j], 0).q = 0
        /\ Worker("new", ds[j], 0).cancelled = FALSE
  <2>1. TAKE j \in 1..Len(ds)
  <2>2. 0 \in 0..MaxStarts /\ "new" \in WorkerState /\ ds[j] \in Delivery \union {NoItem}
    BY <1>9, BusAssumption DEF WorkerState
  <2> QED
    BY <2>2, NothingTyped DEF Worker, WorkerRecord
<1>12. Tasks \in [1..Len(ds) -> WorkerRecord]
  BY <1>10, <1>11
<1>13. Tasks \in Seq(WorkerRecord) /\ Len(Tasks) = Len(ds)
  BY <1>8, <1>12
<1>14. \A j \in 1..Len(ds) : Tasks[j] = Worker("new", ds[j], 0)
  BY <1>10
<1>15. \A j \in 1..Len(ds) : ds[j] \in Set(ds)
  BY <1>8 DEF Set
<1>16. Set(ds) \subseteq Delivery
  BY <1>7, SetTyped
<1> QED
  BY <1>2, <1>3, <1>6, <1>7, <1>11, <1>13, <1>14, <1>15, <1>16 DEF ds, e

\* Worker i becomes a worker with these fields.
Goes(i, pc, d, p, q, cancelled) ==
  \E w \in WorkerRecord :
    /\ Becomes(i, w)
    /\ w.pc = pc /\ w.item = d /\ w.put = p /\ w.q = q /\ w.cancelled = cancelled

\* The worker has the first delivery of the queue.
LEMMA WorkerGetsEffect ==
  ASSUME TypeOK, NEW i \in DOMAIN workers, WorkerGets(i)
  PROVE  /\ queue \in Seq(Delivery) /\ queue # <<>> /\ Head(queue) \in Delivery
         /\ workers[i].put = Nothing /\ ~workers[i].cancelled
         /\ Goes(i, "run", Head(queue), Nothing, workers[i].q, FALSE)
<1>1. queue \in Seq(Delivery) /\ queue # <<>>
  BY DEF TypeOK, WorkerGets
<1>2. Head(queue) \in Delivery
  BY <1>1, HeadTailProperties
<1> DEFINE w == [workers[i] EXCEPT !.pc = "run", !.item = Head(queue)]
<1>3. workers[i] \in WorkerRecord /\ ~workers[i].cancelled /\ workers[i].put = Nothing
  BY Parts DEF WorkerGets, GoesOn
<1>4. w \in WorkerRecord
  BY <1>2, <1>3 DEF WorkerRecord, WorkerState
<1>5. /\ w.pc = "run" /\ w.item = Head(queue) /\ w.put = Nothing
      /\ w.q = workers[i].q /\ w.cancelled = FALSE
  BY <1>3 DEF WorkerRecord
<1>6. workers' = [workers EXCEPT ![i] = w]
  <2>1. workers' = [workers EXCEPT ![i].pc = "run", ![i].item = Head(queue)]
    BY DEF WorkerGets
  <2> QED
    BY <2>1, Parts
<1> HIDE DEF w
<1>7. Becomes(i, w)
  BY <1>4, <1>6, Except
<1> QED
  BY <1>1, <1>2, <1>3, <1>4, <1>5, <1>7 DEF Goes

\* The task goes on with the delivery it was created with.
LEMMA TaskRunsEffect ==
  ASSUME TypeOK, NEW i \in DOMAIN workers, TaskRuns(i)
  PROVE  /\ workers[i].pc = "new" /\ workers[i].put = Nothing /\ ~workers[i].cancelled
         /\ Goes(i, "run", workers[i].item, Nothing, workers[i].q, FALSE)
<1> DEFINE w == [workers[i] EXCEPT !.pc = "run"]
<1>1. /\ workers[i] \in WorkerRecord /\ ~workers[i].cancelled /\ workers[i].put = Nothing
      /\ workers[i].pc = "new" /\ workers' = [workers EXCEPT ![i] = w]
  BY Parts DEF TaskRuns, GoesOn
<1>2. w \in WorkerRecord
  BY <1>1 DEF WorkerRecord, WorkerState
<1>3. /\ w.pc = "run" /\ w.item = workers[i].item /\ w.put = Nothing
      /\ w.q = workers[i].q /\ w.cancelled = FALSE
  BY <1>1 DEF WorkerRecord
<1> HIDE DEF w
<1>4. Becomes(i, w)
  BY <1>1, <1>2, Except
<1> QED
  BY <1>1, <1>2, <1>3, <1>4 DEF Goes

\* A worker that ends.
LEMMA EndsEffect ==
  ASSUME TypeOK, NEW i \in DOMAIN workers, workers' = [workers EXCEPT ![i] = Gone]
  PROVE  Goes(i, "end", NoItem, Nothing, 0, FALSE)
<1>1. Becomes(i, Gone)
  BY Except, GoneTyped
<1>2. Gone.item = NoItem /\ Gone.q = 0
  BY DEF Gone, Worker
<1> QED
  BY <1>1, <1>2, GoneTyped DEF Goes

\* The worker takes the queue there is now, or ends.
LEMMA HandlerEndsEffect ==
  ASSUME TypeOK, NEW i \in DOMAIN workers, HandlerEnds(i)
  PROVE  /\ workers[i].put = Nothing /\ ~workers[i].cancelled
         /\ workers[i].pc \in {"run", "relayed"}
         /\ \/ ~Single(workers[i]) /\ qid # 0 /\ Goes(i, "get", NoItem, Nothing, qid, FALSE)
            \/ /\ Single(workers[i]) \/ workers[i].q # qid
               /\ Goes(i, "end", NoItem, Nothing, 0, FALSE)
<1>1. /\ workers[i] \in WorkerRecord /\ ~workers[i].cancelled /\ workers[i].put = Nothing
      /\ workers[i].pc \in {"run", "relayed"}
  BY Parts DEF HandlerEnds, GoesOn
<1>2. CASE /\ ~Single(workers[i]) /\ qid # 0
           /\ workers' = [workers EXCEPT ![i].pc = "get", ![i].item = NoItem, ![i].q = qid]
  <2> DEFINE w == [workers[i] EXCEPT !.pc = "get", !.item = NoItem, !.q = qid]
  <2>1. w \in WorkerRecord
    BY <1>1 DEF TypeOK, WorkerRecord, WorkerState
  <2>2. /\ w.pc = "get" /\ w.item = NoItem /\ w.put = Nothing /\ w.q = qid
        /\ w.cancelled = FALSE
    BY <1>1 DEF WorkerRecord
  <2>3. workers' = [workers EXCEPT ![i] = w]
    BY <1>2, Parts
  <2> HIDE DEF w
  <2>4. Becomes(i, w)
    BY <2>1, <2>3, Except
  <2> QED
    BY <1>1, <1>2, <2>1, <2>2, <2>4 DEF Goes
<1>3. CASE (Single(workers[i]) \/ workers[i].q # qid) /\ workers' = [workers EXCEPT ![i] = Gone]
  BY <1>1, <1>3, EndsEffect
<1> QED
  BY <1>2, <1>3 DEF HandlerEnds

\* The worker waits with what is left of its publication.
LEMMA RelayResumesEffect ==
  ASSUME TypeOK, NEW i \in DOMAIN workers, RelayResumes(i)
  PROVE  /\ workers[i].put \in Put /\ workers[i].put # Nothing /\ ~workers[i].cancelled
         /\ Feed(workers[i].put)
         /\ Goes(i, workers[i].pc, workers[i].item, Left(workers[i].put, qid), workers[i].q, FALSE)
<1> DEFINE p == workers[i].put
           w == [workers[i] EXCEPT !.put = Left(p, qid)]
<1>1. /\ workers[i] \in WorkerRecord /\ ~workers[i].cancelled /\ p # Nothing
      /\ Feed(p) /\ workers' = [workers EXCEPT ![i] = w]
  BY Parts DEF RelayResumes
<1>2. p \in Put /\ qid \in 0..MaxStarts
  BY <1>1 DEF WorkerRecord, TypeOK
<1>3. Left(p, qid) \in Put
  BY <1>1, <1>2, Fed
<1>4. w \in WorkerRecord
  BY <1>1, <1>3 DEF WorkerRecord
<1>5. /\ w.pc = workers[i].pc /\ w.item = workers[i].item /\ w.put = Left(p, qid)
      /\ w.q = workers[i].q /\ w.cancelled = FALSE
  BY <1>1 DEF WorkerRecord
<1> HIDE DEF w
<1>6. Becomes(i, w)
  BY <1>1, <1>4, Except
<1> QED
  BY <1>1, <1>2, <1>4, <1>5, <1>6 DEF Goes

\* The handler publishes before start(), into the queue, or to tasks.
LEMMA RelayEffect ==
  ASSUME TypeOK, NEW i \in DOMAIN workers, Relay(i)
  PROVE  /\ workers[i].pc = "run" /\ workers[i].put = Nothing /\ ~workers[i].cancelled
         /\ Numbered(None) /\ UNCHANGED <<puts, begun>> /\ BusFrame
         /\ \/ /\ ~started /\ Buffered /\ UNCHANGED <<queue, due>>
               /\ Goes(i, "relayed", workers[i].item, Nothing, workers[i].q, FALSE)
            \/ /\ started /\ qid # 0 /\ Feed(Fresh) /\ UNCHANGED pending
               /\ Goes(i, "relayed", workers[i].item, Left(Fresh, qid), workers[i].q, FALSE)
            \/ /\ started /\ qid = 0 /\ UNCHANGED <<pending, queue>>
               /\ due' = due \union Set(Deliveries(Fresh.then))
               /\ \E s \in Seq(WorkerRecord) :
                    /\ Added(s, Tasks) /\ DOMAIN s = DOMAIN workers
                    /\ s[i] \in WorkerRecord /\ s[i].pc = "relayed" /\ s[i].put = Nothing
                    /\ s[i].q = workers[i].q /\ s[i].cancelled = FALSE
                    /\ \A j \in DOMAIN workers \ {i} : s[j] = workers[j]
<1> DEFINE w == [workers[i] EXCEPT !.pc = "relayed"]
<1>1. /\ workers[i] \in WorkerRecord /\ ~workers[i].cancelled /\ workers[i].put = Nothing
      /\ workers[i].pc = "run" /\ Numbered(None) /\ UNCHANGED <<puts, begun>> /\ BusFrame
  BY Parts DEF Relay, GoesOn
<1>2. w \in WorkerRecord
  BY <1>1 DEF WorkerRecord, WorkerState
<1>3. /\ w.pc = "relayed" /\ w.item = workers[i].item /\ w.put = Nothing
      /\ w.q = workers[i].q /\ w.cancelled = FALSE
  BY <1>1 DEF WorkerRecord
<1>4. Len(events) < MaxEvents
  BY <1>1 DEF Numbered
<1>5. CASE ~started /\ Buffered /\ workers' = [workers EXCEPT ![i] = w] /\ UNCHANGED <<queue, due>>
  <2> HIDE DEF w
  <2>1. Becomes(i, w)
    BY <1>2, <1>5, Except
  <2> QED
    BY <1>1, <1>2, <1>3, <1>5, <2>1 DEF Goes
<1>6. CASE /\ started /\ qid # 0 /\ Feed(Fresh) /\ UNCHANGED pending
           /\ workers' = [workers EXCEPT ![i].pc = "relayed", ![i].put = Left(Fresh, qid)]
  <2> DEFINE v == [workers[i] EXCEPT !.pc = "relayed", !.put = Left(Fresh, qid)]
  <2>1. Left(Fresh, qid) \in Put
    BY <1>4, <1>6, TasksTyped, Fed DEF TypeOK
  <2>2. v \in WorkerRecord
    BY <1>1, <2>1 DEF WorkerRecord, WorkerState
  <2>3. /\ v.pc = "relayed" /\ v.item = workers[i].item /\ v.put = Left(Fresh, qid)
        /\ v.q = workers[i].q /\ v.cancelled = FALSE
    BY <1>1 DEF WorkerRecord
  <2>4. workers' = [workers EXCEPT ![i] = v]
    BY <1>6, Parts
  <2> HIDE DEF v
  <2>5. Becomes(i, v)
    BY <2>2, <2>4, Except
  <2> QED
    BY <1>1, <1>6, <2>2, <2>3, <2>5 DEF Goes
<1>7. CASE /\ started /\ qid = 0 /\ UNCHANGED <<pending, queue>>
           /\ due' = due \union Set(Deliveries(Fresh.then))
           /\ workers' = [workers EXCEPT ![i] = w] \o Tasks
  <2> DEFINE s == [workers EXCEPT ![i] = w]
  <2> HIDE DEF w
  <2>1. workers \in Seq(WorkerRecord) /\ i \in 1..Len(workers) /\ DOMAIN workers = 1..Len(workers)
    BY Parts
  <2>2. /\ s \in Seq(WorkerRecord) /\ Len(s) = Len(workers)
        /\ \A j \in 1..Len(workers) : s[j] = IF j = i THEN w ELSE workers[j]
    BY <1>2, <2>1, ExceptSeq
  <2>3. DOMAIN s = DOMAIN workers
    BY <2>1, <2>2, LenProperties
  <2>4. s[i] = w /\ \A j \in DOMAIN workers \ {i} : s[j] = workers[j]
    BY <2>1, <2>2
  <2>5. Tasks \in Seq(WorkerRecord)
    BY <1>4, TasksTyped
  <2> HIDE DEF s
  <2>6. Added(s, Tasks)
    BY <1>7, <2>2, <2>3, <2>5, Appended DEF s
  <2> QED
    BY <1>1, <1>2, <1>3, <1>7, <2>2, <2>3, <2>4, <2>6
<1> HIDE DEF w
<1> QED
  BY <1>5, <1>6, <1>7 DEF Relay, w

-----------------------------------------------------------------------------
(* Types, and deliveries on their way are decided on. *)

\* The inductive invariant of the types.
TypeInv == TypeOK /\ Decided

\* A worker's step keeps what is known of all workers.
LEMMA GoesTyped ==
  ASSUME TypeInv, NEW i \in DOMAIN workers, NEW pc, NEW d, NEW p, NEW q, NEW c,
         Goes(i, pc, d, p, q, c), due \subseteq due', Set(p.rest) \subseteq due',
         pc = "new" => d \in due'
  PROVE  /\ workers' \in Seq(WorkerRecord) /\ DOMAIN workers' = DOMAIN workers
         /\ \A j \in DOMAIN workers' :
              /\ Set(workers'[j].put.rest) \subseteq due'
              /\ workers'[j].pc = "new" => workers'[j].item \in due'
<1>1. PICK w \in WorkerRecord :
        /\ Becomes(i, w) /\ w.pc = pc /\ w.item = d /\ w.put = p
  BY DEF Goes
<1>2. \A j \in DOMAIN workers :
        /\ Set(workers[j].put.rest) \subseteq due
        /\ workers[j].pc = "new" => workers[j].item \in due
  BY DEF TypeInv, Decided
<1> QED
  BY <1>1, <1>2 DEF Becomes

\* An action that leaves the workers alone keeps what is known of them.
LEMMA WorkersTyped ==
  ASSUME TypeInv, UNCHANGED workers, due \subseteq due'
  PROVE  /\ workers' \in Seq(WorkerRecord) /\ DOMAIN workers' = DOMAIN workers
         /\ \A j \in DOMAIN workers' :
              /\ Set(workers'[j].put.rest) \subseteq due'
              /\ workers'[j].pc = "new" => workers'[j].item \in due'
  BY Parts DEF TypeInv, Decided

\* The next event has a number within the bound.
LEMMA NumberedTyped ==
  ASSUME TypeOK, NEW by \in Clients \union {None}, Numbered(by)
  PROVE  /\ events' \in Seq(Clients \union {None}) /\ Len(events') = Len(events) + 1
         /\ Len(events') <= MaxEvents /\ Len(events) < MaxEvents /\ Len(events) \in Nat
<1>1. events \in Seq(Clients \union {None})
  BY DEF TypeOK
<1>2. Len(events) \in Nat
  BY <1>1, LenProperties
<1> DEFINE e == IF started /\ qid # 0 THEN by ELSE None
<1>3. e \in Clients \union {None} /\ events' = Append(events, e) /\ Len(events) < MaxEvents
  BY DEF Numbered
<1> HIDE DEF e
<1>4. events' \in Seq(Clients \union {None}) /\ Len(events') = Len(events) + 1
  BY <1>1, <1>3, AppendProperties
<1> QED
  BY <1>2, <1>3, <1>4, BusAssumption

\* The events kept for start() are events.
LEMMA BufferedTyped ==
  ASSUME TypeOK, Len(events) < MaxEvents, Buffered
  PROVE  pending' \in Seq(1..MaxEvents)
<1>1. Len(events) + 1 \in 1..MaxEvents
  BY TasksTyped
<1>2. pending \in Seq(1..MaxEvents)
  BY DEF TypeOK
<1> DEFINE e == Len(events) + 1
           E == 1..MaxEvents
<1> HIDE DEF e, E
<1>3. e \in E /\ pending \in Seq(E)
  BY <1>1, <1>2 DEF e, E
<1>4. Append(pending, e) \in Seq(E)
  BY <1>3, AppendProperties
<1>5. pending' = Append(pending, e)
  BY DEF Buffered, e
<1> QED
  BY <1>4, <1>5 DEF E

\* Without one of them, the subscribers are still handlers, each of them
\* once.
LEMMA UnsubscribeTyped ==
  ASSUME TypeOK, NEW h, Unsubscribe(h)
  PROVE  /\ subs' \in Seq(Handlers)
         /\ Distinct(subs) => Distinct(subs')
<1> DEFINE n == Len(subs)
<1>1. subs \in Seq(Handlers) /\ n \in Nat /\ DOMAIN subs = 1..n
  BY LenProperties DEF TypeOK
<1>2. PICK i \in 1..n : subs' = SubSeq(subs, 1, i - 1) \o SubSeq(subs, i + 1, n)
  BY <1>1 DEF Unsubscribe
<1> DEFINE a == SubSeq(subs, 1, i - 1)
           b == SubSeq(subs, i + 1, n)
<1> HIDE DEF n
<1>3. i \in Nat /\ i >= 1 /\ i <= n /\ i - 1 \in Int /\ i + 1 \in Int /\ n \in Int
  BY <1>1
<1>4. \A j \in 1..n : subs[j] \in Handlers
  BY <1>1, ElementOfSeq DEF n
<1>5. /\ a \in Seq(Handlers) /\ Len(a) = i - 1
      /\ \A j \in 1..(i - 1) : a[j] = subs[j]
  <2>1. \A j \in 1..(i - 1) : subs[j] \in Handlers
    BY <1>3, <1>4
  <2>2. /\ a \in Seq(Handlers)
        /\ Len(a) = IF 1 <= i - 1 THEN (i - 1) - 1 + 1 ELSE 0
        /\ \A j \in 1..((i - 1) - 1 + 1) : a[j] = subs[1 + j - 1]
    BY <2>1, <1>3, SubSeqProperties
  <2> HIDE DEF a
  <2>3. (i - 1) - 1 + 1 = i - 1 /\ \A j \in 1..(i - 1) : 1 + j - 1 = j
    BY <1>3
  <2>4. Len(a) = i - 1
    BY <2>2, <1>3
  <2> QED
    BY <2>2, <2>3, <2>4
<1>6. /\ b \in Seq(Handlers) /\ Len(b) = n - i
      /\ \A j \in 1..(n - i) : b[j] = subs[i + j]
  <2>1. \A j \in (i + 1)..n : subs[j] \in Handlers
    BY <1>3, <1>4
  <2>2. /\ b \in Seq(Handlers)
        /\ Len(b) = IF i + 1 <= n THEN n - (i + 1) + 1 ELSE 0
        /\ \A j \in 1..(n - (i + 1) + 1) : b[j] = subs[(i + 1) + j - 1]
    BY <2>1, <1>3, SubSeqProperties
  <2> HIDE DEF b
  <2>3. n - (i + 1) + 1 = n - i /\ \A j \in 1..(n - i) : (i + 1) + j - 1 = i + j
    BY <1>3
  <2>4. Len(b) = n - i
    BY <2>2, <1>3
  <2> QED
    BY <2>2, <2>3, <2>4
<1> HIDE DEF a, b
<1>7. subs' = a \o b
  BY <1>2 DEF a, b
<1>8. /\ subs' \in Seq(Handlers) /\ Len(subs') = Len(a) + Len(b)
      /\ \A j \in 1..(Len(a) + Len(b)) :
           subs'[j] = IF j <= Len(a) THEN a[j] ELSE b[j - Len(a)]
  BY <1>5, <1>6, <1>7, ConcatProperties
<1>9. /\ Len(subs') = n - 1 /\ DOMAIN subs' = 1..(n - 1)
  <2>1. Len(subs') = n - 1
    BY <1>3, <1>5, <1>6, <1>8
  <2> QED
    BY <2>1, <1>8, LenProperties
<1>10. \A j \in 1..(n - 1) :
         /\ j < i => j \in 1..n /\ subs'[j] = subs[j]
         /\ ~(j < i) => j + 1 \in 1..n /\ subs'[j] = subs[j + 1]
  <2>1. TAKE j \in 1..(n - 1)
  <2>2. j \in 1..(Len(a) + Len(b))
    BY <1>3, <1>5, <1>6
  <2>3. CASE j < i
    <3>1. j <= Len(a) /\ j \in 1..(i - 1) /\ j \in 1..n
      BY <1>3, <1>5, <2>3
    <3> QED
      BY <1>5, <1>8, <2>2, <2>3, <3>1
  <2>4. CASE ~(j < i)
    <3>1. /\ ~(j <= Len(a)) /\ j - Len(a) \in 1..(n - i) /\ i + (j - Len(a)) = j + 1
          /\ j + 1 \in 1..n
      BY <1>3, <1>5, <2>4
    <3>2. subs'[j] = b[j - Len(a)]
      BY <1>8, <2>2, <3>1
    <3> QED
      BY <1>6, <2>4, <3>1, <3>2
  <2> QED
    BY <2>3, <2>4
<1>11. ASSUME Distinct(subs) PROVE Distinct(subs')
  <2>1. ASSUME NEW x \in 1..(n - 1), NEW y \in 1..(n - 1), subs'[x] = subs'[y]
        PROVE  x = y
    <3>1. x \in Nat /\ y \in Nat
      BY <1>3
    <3>2. CASE x < i /\ y < i
      BY <1>1, <1>10, <1>11, <2>1, <3>2 DEF Distinct
    <3>3. CASE x < i /\ ~(y < i)
      <4>1. x = y + 1
        BY <1>1, <1>10, <1>11, <2>1, <3>3 DEF Distinct
      <4> QED
        BY <1>3, <3>1, <3>3, <4>1
    <3>4. CASE ~(x < i) /\ y < i
      <4>1. x + 1 = y
        BY <1>1, <1>10, <1>11, <2>1, <3>4 DEF Distinct
      <4> QED
        BY <1>3, <3>1, <3>4, <4>1
    <3>5. CASE ~(x < i) /\ ~(y < i)
      <4>1. x + 1 = y + 1
        BY <1>1, <1>10, <1>11, <2>1, <3>5 DEF Distinct
      <4> QED
        BY <3>1, <4>1
    <3> QED
      BY <3>2, <3>3, <3>4, <3>5
  <2> QED
    BY <1>9, <2>1 DEF Distinct
<1> QED
  BY <1>8, <1>11

\* The parts of the invariant that steps of clients and workers can disturb.
Moving ==
  /\ pending' \in Seq(1..MaxEvents)
  /\ queue' \in Seq(Delivery) /\ Len(queue') <= Capacity
  /\ workers' \in Seq(WorkerRecord) /\ DOMAIN workers \subseteq DOMAIN workers'
  /\ puts' \in [Clients \union {Flush} -> Put]
  /\ events' \in Seq(Clients \union {None}) /\ Len(events') <= MaxEvents
  /\ due' \subseteq Delivery /\ begun' \subseteq due'
  /\ Set(queue') \subseteq due'
  /\ \A c \in Clients \union {Flush} : Set(puts'[c].rest) \subseteq due'
  /\ \A j \in DOMAIN workers' :
       /\ Set(workers'[j].put.rest) \subseteq due'
       /\ workers'[j].pc = "new" => workers'[j].item \in due'

\* These parts are all that such a step changes.
LEMMA MovingTyped ==
  ASSUME TypeInv, Moving, BusFrame
  PROVE  TypeInv'
<1>1. listed' \subseteq DOMAIN workers'
  BY DEF TypeInv, TypeOK, Moving, BusFrame
<1>2. DOMAIN puts' = Clients \union {Flush}
  BY DEF Moving
<1> QED
  BY <1>1, <1>2 DEF TypeInv, TypeOK, Decided, Moving, BusFrame, WorkerRecord

\* What publish() and the workers do not touch.
LEMMA Still ==
  ASSUME TypeInv
  PROVE  /\ pending \in Seq(1..MaxEvents)
         /\ queue \in Seq(Delivery) /\ Len(queue) <= Capacity
         /\ puts \in [Clients \union {Flush} -> Put]
         /\ events \in Seq(Clients \union {None}) /\ Len(events) <= MaxEvents
         /\ due \subseteq Delivery /\ begun \subseteq due /\ Set(queue) \subseteq due
         /\ \A c \in Clients \union {Flush} : Set(puts[c].rest) \subseteq due
         /\ qid \in 0..MaxStarts
  BY DEF TypeInv, TypeOK, Decided

\* A client, or start(), waits with what is left of p.
LEMMA PutTyped ==
  ASSUME TypeInv, NEW c \in Clients \union {Flush}, NEW p \in Put, NEW q \in 0..MaxStarts, Feed(p),
         puts' = [puts EXCEPT ![c] = Left(p, q)], begun' = begun
  PROVE  /\ queue' \in Seq(Delivery) /\ Len(queue') <= Capacity
         /\ puts' \in [Clients \union {Flush} -> Put]
         /\ due \subseteq due' /\ due' \subseteq Delivery /\ begun' \subseteq due'
         /\ Set(queue') \subseteq due'
         /\ \A b \in Clients \union {Flush} : Set(puts'[b].rest) \subseteq due'
<1>1. /\ queue' \in Seq(Delivery) /\ Len(queue') <= Capacity
      /\ Set(queue') = Set(queue) \union Set(Fitting(p))
      /\ due' = due \union Set(Fitting(p)) \union Set(Left(p, q).rest)
      /\ Left(p, q) \in Put
      /\ Set(Fitting(p)) \subseteq Delivery /\ Set(Left(p, q).rest) \subseteq Delivery
  BY Fed DEF TypeInv
<1> DEFINE l == Left(p, q)
           f == Fitting(p)
<1> HIDE DEF l, f
<1>2. l \in Put /\ Set(l.rest) \subseteq due' /\ puts' = [puts EXCEPT ![c] = l]
      /\ due' = due \union Set(f) \union Set(l.rest)
  BY <1>1 DEF l, f
<1>3. puts' \in [Clients \union {Flush} -> Put]
  BY <1>2, Still
<1>4. \A b \in Clients \union {Flush} : Set(puts'[b].rest) \subseteq due'
  BY <1>2, Still
<1>5. /\ Set(f) \subseteq Delivery /\ Set(l.rest) \subseteq Delivery
      /\ Set(queue') = Set(queue) \union Set(f)
  BY <1>1 DEF l, f
<1> QED
  BY <1>1, <1>2, <1>3, <1>4, <1>5, Still

\* publish() keeps the types, and decides on all it puts somewhere.
LEMMA TypePublish ==
  ASSUME TypeInv, NEW c \in Clients, Publish(c)
  PROVE  TypeInv'
<1>1. Numbered(c) /\ UNCHANGED begun /\ BusFrame
  BY DEF Publish
<1>2. /\ events' \in Seq(Clients \union {None}) /\ Len(events') <= MaxEvents
      /\ Len(events) < MaxEvents
  BY <1>1, NumberedTyped DEF TypeInv
<1>3. CASE ~started /\ Buffered /\ UNCHANGED <<queue, workers, puts, due>>
  <2>1. pending' \in Seq(1..MaxEvents)
    BY <1>2, <1>3, BufferedTyped DEF TypeInv
  <2> QED
    BY <1>1, <1>2, <1>3, <2>1, WorkersTyped, Still, MovingTyped DEF Moving
<1>4. CASE /\ started /\ qid # 0 /\ Feed(Fresh) /\ puts' = [puts EXCEPT ![c] = Left(Fresh, qid)]
           /\ UNCHANGED <<pending, workers>>
  <2>1. Fresh \in Put
    BY <1>2, TasksTyped DEF TypeInv
  <2>2. /\ queue' \in Seq(Delivery) /\ Len(queue') <= Capacity
        /\ puts' \in [Clients \union {Flush} -> Put]
        /\ due \subseteq due' /\ due' \subseteq Delivery /\ begun' \subseteq due'
        /\ Set(queue') \subseteq due'
        /\ \A b \in Clients \union {Flush} : Set(puts'[b].rest) \subseteq due'
    BY <1>1, <1>4, <2>1, Still, PutTyped
  <2> QED
    BY <1>1, <1>2, <1>4, <2>2, WorkersTyped, Still, MovingTyped DEF Moving
<1>5. CASE /\ started /\ qid = 0 /\ workers' = workers \o Tasks
           /\ due' = due \union Set(Deliveries(Fresh.then))
           /\ UNCHANGED <<pending, queue, puts>>
  <2>1. /\ Tasks \in Seq(WorkerRecord) /\ Set(Deliveries(Fresh.then)) \subseteq Delivery
        /\ \A j \in 1..Len(Tasks) :
             Tasks[j].put = Nothing /\ Tasks[j].item \in Set(Deliveries(Fresh.then))
    BY <1>2, TasksTyped DEF TypeInv
  <2>2. Added(workers, Tasks)
    BY <1>5, <2>1, Parts, Appended DEF TypeInv
  <2>3. due \subseteq due' /\ due' \subseteq Delivery /\ Set(Deliveries(Fresh.then)) \subseteq due'
    BY <1>5, <2>1, Still
  <2>4. \A i \in DOMAIN workers : /\ Set(workers[i].put.rest) \subseteq due
                                  /\ workers[i].pc = "new" => workers[i].item \in due
    BY DEF TypeInv, Decided
  <2>5. \A i \in DOMAIN workers' : /\ Set(workers'[i].put.rest) \subseteq due'
                                   /\ workers'[i].pc = "new" => workers'[i].item \in due'
    <3>1. TAKE i \in DOMAIN workers'
    <3>2. CASE i \in DOMAIN workers
      BY <2>2, <2>3, <2>4, <3>2 DEF Added
    <3>3. CASE i \notin DOMAIN workers
      <4>1. PICK j \in 1..Len(Tasks) : workers'[i] = Tasks[j]
        BY <2>2, <3>3 DEF Added
      <4> QED
        BY <2>1, <2>3, <4>1, NothingTyped
    <3> QED
      BY <3>2, <3>3
  <2>6. workers' \in Seq(WorkerRecord) /\ DOMAIN workers \subseteq DOMAIN workers'
    BY <2>2 DEF Added
  <2> QED
    BY <1>1, <1>2, <1>5, <2>3, <2>5, <2>6, Still, MovingTyped DEF Moving
<1> QED
  BY <1>3, <1>4, <1>5 DEF Publish

\* So does a put() that goes on.
LEMMA TypePutResumes ==
  ASSUME TypeInv, NEW c \in Clients \union {Flush}, PutResumes(c)
  PROVE  TypeInv'
<1>1. /\ Feed(puts[c]) /\ puts' = [puts EXCEPT ![c] = Left(puts[c], qid)]
      /\ UNCHANGED <<pending, workers, events, begun>> /\ BusFrame
  BY DEF PutResumes
<1>2. puts[c] \in Put
  BY Still
<1>3. /\ queue' \in Seq(Delivery) /\ Len(queue') <= Capacity
      /\ puts' \in [Clients \union {Flush} -> Put]
      /\ due \subseteq due' /\ due' \subseteq Delivery /\ begun' \subseteq due'
      /\ Set(queue') \subseteq due'
      /\ \A b \in Clients \union {Flush} : Set(puts'[b].rest) \subseteq due'
  BY <1>1, <1>2, Still, PutTyped
<1> QED
  BY <1>1, <1>3, WorkersTyped, Still, MovingTyped DEF Moving

\* So does get().
LEMMA TypeWorkerGets ==
  ASSUME TypeInv, NEW i \in DOMAIN workers, WorkerGets(i)
  PROVE  TypeInv'
<1>1. /\ queue \in Seq(Delivery) /\ queue # <<>> /\ Head(queue) \in Delivery
      /\ Goes(i, "run", Head(queue), Nothing, workers[i].q, FALSE)
  BY WorkerGetsEffect DEF TypeInv
<1>2. /\ queue' = Tail(queue) /\ begun' = begun \union {Head(queue)}
      /\ UNCHANGED <<pending, puts, events, due>> /\ BusFrame
  BY DEF WorkerGets
<1>3. /\ queue' \in Seq(Delivery) /\ Len(queue') <= Capacity
      /\ Set(queue') \subseteq Set(queue) /\ Head(queue) \in Set(queue)
  <2>1. /\ Tail(queue) \in Seq(Delivery) /\ Len(Tail(queue)) = Len(queue) - 1
        /\ Set(queue) = {Head(queue)} \union Set(Tail(queue))
    BY <1>1, HeadTaken
  <2>2. Len(queue) \in Nat
    BY <1>1, LenProperties
  <2>3. Len(queue) - 1 <= Capacity
    BY <2>2, Still, BusAssumption
  <2> QED
    BY <1>2, <2>1, <2>3
<1>4. /\ workers' \in Seq(WorkerRecord) /\ DOMAIN workers' = DOMAIN workers
      /\ \A j \in DOMAIN workers' :
           /\ Set(workers'[j].put.rest) \subseteq due'
           /\ workers'[j].pc = "new" => workers'[j].item \in due'
  BY <1>1, <1>2, GoesTyped, NothingTyped
<1> QED
  BY <1>2, <1>3, <1>4, Still, MovingTyped DEF Moving

\* A step of a worker that leaves the queue and the publications alone.
LEMMA TypeAlone ==
  ASSUME TypeInv, NEW i \in DOMAIN workers, NEW pc, NEW d, NEW q, NEW c, pc # "new",
         Goes(i, pc, d, Nothing, q, c), begun' \subseteq due,
         UNCHANGED <<pending, queue, puts, events, due>>, BusFrame
  PROVE  TypeInv'
<1>1. /\ workers' \in Seq(WorkerRecord) /\ DOMAIN workers' = DOMAIN workers
      /\ \A j \in DOMAIN workers' :
           /\ Set(workers'[j].put.rest) \subseteq due'
           /\ workers'[j].pc = "new" => workers'[j].item \in due'
  BY GoesTyped, NothingTyped
<1> QED
  BY <1>1, Still, MovingTyped DEF Moving

\* So does a handler that publishes.
LEMMA TypeRelay ==
  ASSUME TypeInv, NEW i \in DOMAIN workers, Relay(i)
  PROVE  TypeInv'
<1>1. TypeOK /\ Numbered(None) /\ UNCHANGED <<puts, begun>> /\ BusFrame
  BY RelayEffect DEF TypeInv
<1>2. /\ events' \in Seq(Clients \union {None}) /\ Len(events') <= MaxEvents
      /\ Len(events) < MaxEvents
  BY <1>1, NumberedTyped
<1>3. CASE /\ ~started /\ Buffered /\ UNCHANGED <<queue, due>>
           /\ Goes(i, "relayed", workers[i].item, Nothing, workers[i].q, FALSE)
  <2>1. pending' \in Seq(1..MaxEvents)
    BY <1>1, <1>2, <1>3, BufferedTyped
  <2>2. /\ workers' \in Seq(WorkerRecord) /\ DOMAIN workers' = DOMAIN workers
        /\ \A j \in DOMAIN workers' :
             /\ Set(workers'[j].put.rest) \subseteq due'
             /\ workers'[j].pc = "new" => workers'[j].item \in due'
    BY <1>3, GoesTyped, NothingTyped
  <2> QED
    BY <1>1, <1>2, <1>3, <2>1, <2>2, Still, MovingTyped DEF Moving
<1>4. CASE /\ started /\ qid # 0 /\ Feed(Fresh) /\ UNCHANGED pending
           /\ Goes(i, "relayed", workers[i].item, Left(Fresh, qid), workers[i].q, FALSE)
  <2>1. Fresh \in Put
    BY <1>1, <1>2, TasksTyped
  <2>2. /\ queue' \in Seq(Delivery) /\ Len(queue') <= Capacity
        /\ Set(queue') = Set(queue) \union Set(Fitting(Fresh))
        /\ due' = due \union Set(Fitting(Fresh)) \union Set(Left(Fresh, qid).rest)
        /\ Set(Fitting(Fresh)) \subseteq Delivery /\ Set(Left(Fresh, qid).rest) \subseteq Delivery
    BY <1>1, <1>4, <2>1, Still, Fed
  <2>3. /\ due \subseteq due' /\ due' \subseteq Delivery /\ Set(queue') \subseteq due'
        /\ Set(Left(Fresh, qid).rest) \subseteq due'
    BY <2>2, Still
  <2>4. /\ workers' \in Seq(WorkerRecord) /\ DOMAIN workers' = DOMAIN workers
        /\ \A j \in DOMAIN workers' :
             /\ Set(workers'[j].put.rest) \subseteq due'
             /\ workers'[j].pc = "new" => workers'[j].item \in due'
    BY <1>4, <2>3, GoesTyped
  <2> QED
    BY <1>1, <1>2, <1>4, <2>2, <2>3, <2>4, Still, MovingTyped DEF Moving
<1>5. CASE /\ started /\ qid = 0 /\ UNCHANGED <<pending, queue>>
           /\ due' = due \union Set(Deliveries(Fresh.then))
           /\ \E s \in Seq(WorkerRecord) :
                /\ Added(s, Tasks) /\ DOMAIN s = DOMAIN workers
                /\ s[i] \in WorkerRecord /\ s[i].pc = "relayed" /\ s[i].put = Nothing
                /\ s[i].q = workers[i].q /\ s[i].cancelled = FALSE
                /\ \A j \in DOMAIN workers \ {i} : s[j] = workers[j]
  <2>1. PICK s \in Seq(WorkerRecord) :
          /\ Added(s, Tasks) /\ s[i].pc = "relayed" /\ s[i].put = Nothing
          /\ \A j \in DOMAIN workers \ {i} : s[j] = workers[j]
    BY <1>5
  <2>2. /\ Set(Deliveries(Fresh.then)) \subseteq Delivery
        /\ \A j \in 1..Len(Tasks) :
             Tasks[j].put = Nothing /\ Tasks[j].item \in Set(Deliveries(Fresh.then))
    BY <1>1, <1>2, TasksTyped
  <2>3. due \subseteq due' /\ due' \subseteq Delivery /\ Set(Deliveries(Fresh.then)) \subseteq due'
    BY <1>5, <2>2, Still
  <2>4. \A j \in DOMAIN workers : /\ Set(s[j].put.rest) \subseteq due
                                  /\ s[j].pc = "new" => s[j].item \in due
    BY <2>1, NothingTyped DEF TypeInv, Decided
  <2>5. \A k \in DOMAIN workers' : /\ Set(workers'[k].put.rest) \subseteq due'
                                   /\ workers'[k].pc = "new" => workers'[k].item \in due'
    <3>1. TAKE k \in DOMAIN workers'
    <3>2. CASE k \in DOMAIN workers
      BY <2>1, <2>3, <2>4, <3>2 DEF Added
    <3>3. CASE k \notin DOMAIN workers
      <4>1. PICK j \in 1..Len(Tasks) : workers'[k] = Tasks[j]
        BY <2>1, <3>3 DEF Added
      <4> QED
        BY <2>2, <2>3, <4>1, NothingTyped
    <3> QED
      BY <3>2, <3>3
  <2>6. workers' \in Seq(WorkerRecord) /\ DOMAIN workers \subseteq DOMAIN workers'
    BY <2>1 DEF Added
  <2> QED
    BY <1>1, <1>2, <1>5, <2>3, <2>5, <2>6, Still, MovingTyped DEF Moving
<1> QED
  BY <1>1, <1>3, <1>4, <1>5, RelayEffect

\* So does its put().
LEMMA TypeRelayResumes ==
  ASSUME TypeInv, NEW i \in DOMAIN workers, RelayResumes(i)
  PROVE  TypeInv'
<1> DEFINE p == workers[i].put
<1>1. /\ TypeOK /\ p \in Put /\ Feed(p)
      /\ Goes(i, workers[i].pc, workers[i].item, Left(p, qid), workers[i].q, FALSE)
  BY RelayResumesEffect DEF TypeInv
<1>2. UNCHANGED <<pending, puts, events, begun>> /\ BusFrame
  BY DEF RelayResumes
<1> HIDE DEF p
<1>3. /\ queue' \in Seq(Delivery) /\ Len(queue') <= Capacity
      /\ Set(queue') = Set(queue) \union Set(Fitting(p))
      /\ due' = due \union Set(Fitting(p)) \union Set(Left(p, qid).rest)
      /\ Set(Fitting(p)) \subseteq Delivery /\ Set(Left(p, qid).rest) \subseteq Delivery
  BY <1>1, Still, Fed
<1>4. /\ due \subseteq due' /\ due' \subseteq Delivery /\ Set(queue') \subseteq due'
      /\ Set(Left(p, qid).rest) \subseteq due'
  BY <1>3, Still
<1>5. workers[i].pc = "new" => workers[i].item \in due'
  BY <1>4 DEF TypeInv, Decided
<1>6. /\ workers' \in Seq(WorkerRecord) /\ DOMAIN workers' = DOMAIN workers
      /\ \A j \in DOMAIN workers' :
           /\ Set(workers'[j].put.rest) \subseteq due'
           /\ workers'[j].pc = "new" => workers'[j].item \in due'
  BY <1>1, <1>4, <1>5, GoesTyped
<1> QED
  BY <1>2, <1>3, <1>4, <1>6, Still, MovingTyped DEF Moving

\* So does every step of a worker.
LEMMA TypeWorkers ==
  ASSUME TypeInv, NEW i \in DOMAIN workers, WorkerSteps(i)
  PROVE  TypeInv'
<1>1. TypeOK
  BY DEF TypeInv
<1>2. CASE TaskRuns(i)
  <2>1. Goes(i, "run", workers[i].item, Nothing, workers[i].q, FALSE) /\ workers[i].pc = "new"
    BY <1>1, <1>2, TaskRunsEffect
  <2>2. workers[i].item \in due
    BY <2>1 DEF TypeInv, Decided
  <2> QED
    BY <1>2, <2>1, <2>2, TypeAlone, Still DEF TaskRuns
<1>3. CASE HandlerEnds(i)
  <2>1. /\ begun' \subseteq due /\ UNCHANGED <<pending, queue, puts, events, due>> /\ BusFrame
    BY <1>3, Still DEF HandlerEnds
  <2>2. \/ Goes(i, "get", NoItem, Nothing, qid, FALSE)
        \/ Goes(i, "end", NoItem, Nothing, 0, FALSE)
    BY <1>1, <1>3, HandlerEndsEffect
  <2> QED
    BY <2>1, <2>2, TypeAlone
<1>4. CASE WorkerCancelled(i)
  <2>1. /\ begun' \subseteq due /\ UNCHANGED <<pending, queue, puts, events, due>> /\ BusFrame
        /\ workers' = [workers EXCEPT ![i] = Gone]
    BY <1>4, Still DEF WorkerCancelled
  <2>2. Goes(i, "end", NoItem, Nothing, 0, FALSE)
    BY <1>1, <2>1, EndsEffect
  <2> QED
    BY <2>1, <2>2, TypeAlone
<1> QED
  BY <1>2, <1>3, <1>4, TypeWorkerGets, TypeRelay, TypeRelayResumes DEF WorkerSteps

\* What start() flushes.
Flushed == [Nothing EXCEPT !.then = pending]

\* start() flushes the events it finds and adds WorkerCount workers.
LEMMA StartEffect ==
  ASSUME TypeInv, Start
  PROVE  /\ Flushed \in Put /\ Flushed.rest = <<>> /\ Flushed.then = pending
         /\ qid' \in 0..MaxStarts /\ qid' # 0
         /\ Feed(Flushed) /\ puts' = [puts EXCEPT ![Flush] = Left(Flushed, qid')]
         /\ listed' = DOMAIN workers' \ DOMAIN workers
         /\ \E t \in Seq(WorkerRecord) :
              /\ Added(workers, t) /\ Len(t) = WorkerCount
              /\ \A j \in 1..Len(t) :
                   /\ t[j].pc = "get" /\ t[j].put = Nothing /\ t[j].q = qid'
                   /\ t[j].cancelled = FALSE
<1>1. pending \in Seq(1..MaxEvents) /\ starts \in 0..MaxStarts /\ starts < MaxStarts
      /\ qid \in 0..MaxStarts
  BY Still DEF TypeInv, TypeOK, Start
<1>2. Flushed \in Put /\ Flushed.rest = <<>> /\ Flushed.then = pending
  BY <1>1, NothingTyped DEF Flushed, Put
<1>3. qid' \in 0..MaxStarts /\ qid' # 0
  <2>1. qid' = IF qid = 0 THEN starts + 1 ELSE qid
    BY DEF Start
  <2>2. starts + 1 \in 0..MaxStarts /\ starts + 1 # 0
    BY <1>1, BusAssumption
  <2> QED
    BY <1>1, <2>1, <2>2
<1>4. Feed(Flushed) /\ puts' = [puts EXCEPT ![Flush] = Left(Flushed, qid')]
      /\ listed' = DOMAIN workers' \ DOMAIN workers
  BY DEF Start, Flushed
<1> DEFINE w == Worker("get", NoItem, qid')
           t == [i \in 1..WorkerCount |-> w]
<1>5. w \in WorkerRecord /\ w.pc = "get" /\ w.put = Nothing /\ w.q = qid' /\ w.cancelled = FALSE
  BY <1>3, NothingTyped DEF Worker, WorkerRecord, WorkerState
<1>6. workers' = workers \o t
  BY DEF Start
<1> HIDE DEF w
<1>7. WorkerCount \in Nat
  BY BusAssumption
<1>8. t \in Seq(WorkerRecord) /\ Len(t) = WorkerCount /\ \A j \in 1..WorkerCount : t[j] = w
  BY <1>5, <1>7
<1> HIDE DEF t
<1>9. Added(workers, t)
  BY <1>6, <1>8, Parts, Appended DEF TypeInv
<1> QED
  BY <1>2, <1>3, <1>4, <1>5, <1>8, <1>9

\* start() keeps the types.
LEMMA TypeStart ==
  ASSUME TypeInv, Start
  PROVE  TypeInv'
<1>1. /\ Flushed \in Put /\ qid' \in 0..MaxStarts
      /\ Feed(Flushed) /\ puts' = [puts EXCEPT ![Flush] = Left(Flushed, qid')]
      /\ listed' = DOMAIN workers' \ DOMAIN workers
  BY StartEffect
<1>2. PICK t \in Seq(WorkerRecord) :
        /\ Added(workers, t) /\ \A j \in 1..Len(t) : t[j].pc = "get" /\ t[j].put = Nothing
  BY StartEffect
<1>3. /\ started' = TRUE /\ starts' = starts + 1 /\ starts < MaxStarts
      /\ raced' \in BOOLEAN /\ pending' = <<>>
      /\ UNCHANGED <<stopping, subs, events, begun, stopped>>
  BY DEF Start
<1>4. /\ queue' \in Seq(Delivery) /\ Len(queue') <= Capacity
      /\ puts' \in [Clients \union {Flush} -> Put]
      /\ due \subseteq due' /\ due' \subseteq Delivery /\ begun' \subseteq due'
      /\ Set(queue') \subseteq due'
      /\ \A b \in Clients \union {Flush} : Set(puts'[b].rest) \subseteq due'
  BY <1>1, <1>3, PutTyped
<1>5. \A i \in DOMAIN workers' : /\ Set(workers'[i].put.rest) \subseteq due'
                                 /\ workers'[i].pc = "new" => workers'[i].item \in due'
  <2>1. TAKE i \in DOMAIN workers'
  <2>2. CASE i \in DOMAIN workers
    BY <1>2, <1>4, <2>2 DEF Added, TypeInv, Decided
  <2>3. CASE i \notin DOMAIN workers
    <3>1. PICK j \in 1..Len(t) : workers'[i] = t[j]
      BY <1>2, <2>3 DEF Added
    <3>2. workers'[i].pc = "get" /\ workers'[i].put = Nothing
      BY <1>2, <3>1
    <3> QED
      BY <3>2, NothingTyped
  <2> QED
    BY <2>2, <2>3
<1>6. starts' \in 0..MaxStarts
  BY <1>3, BusAssumption DEF TypeInv, TypeOK
<1>7. workers' \in Seq(WorkerRecord)
  BY <1>2 DEF Added
<1>8. pending' \in Seq(1..MaxEvents)
  BY <1>3, EmptySeq
<1>9. DOMAIN puts' = Clients \union {Flush}
  BY <1>4
<1>10. TypeOK'
  BY <1>1, <1>3, <1>4, <1>6, <1>7, <1>8 DEF TypeInv, TypeOK, WorkerRecord
<1>11. Decided'
  BY <1>4, <1>5, <1>9 DEF Decided
<1> QED
  BY <1>10, <1>11 DEF TypeInv

\* The workers after stop() has cancelled those it knows.
LEMMA CancelsEffect ==
  ASSUME TypeInv, StopCancels
  PROVE  /\ workers' \in Seq(WorkerRecord) /\ DOMAIN workers' = DOMAIN workers
         /\ \A i \in DOMAIN workers :
              /\ workers'[i].pc = workers[i].pc /\ workers'[i].item = workers[i].item
              /\ workers'[i].put = workers[i].put /\ workers'[i].q = workers[i].q
              /\ workers'[i].cancelled <=>
                   workers[i].cancelled \/ (i \in listed /\ workers[i].pc # "end")
<1> DEFINE n == Len(workers)
           v(i) == [workers[i] EXCEPT !.cancelled = @ \/ (i \in listed /\ workers[i].pc # "end")]
<1>1. DOMAIN workers = 1..n /\ n \in Nat /\ \A i \in 1..n : workers[i] \in WorkerRecord
  BY Parts DEF TypeInv
<1>2. \A i \in 1..n :
        /\ v(i) \in WorkerRecord
        /\ v(i).pc = workers[i].pc /\ v(i).item = workers[i].item
        /\ v(i).put = workers[i].put /\ v(i).q = workers[i].q
        /\ v(i).cancelled = (workers[i].cancelled \/ (i \in listed /\ workers[i].pc # "end"))
  BY <1>1 DEF WorkerRecord
<1>3. workers' = [i \in 1..n |-> v(i)]
  BY <1>1 DEF StopCancels
<1> HIDE DEF v
<1>4. workers' \in [1..n -> WorkerRecord] /\ \A i \in 1..n : workers'[i] = v(i)
  BY <1>2, <1>3
<1>5. workers' \in Seq(WorkerRecord) /\ DOMAIN workers' = 1..n
  BY <1>1, <1>4
<1> QED
  BY <1>1, <1>2, <1>4, <1>5

\* The types of the bus, for any handlers, clients, capacity and number of
\* workers: the queue stays within its capacity, deliveries begin only after
\* dispatch() decided on them, and whatever waits was decided on.
THEOREM BusTypes == Spec => [](TypeOK /\ Decided)
<1>1. Init => TypeInv
  <2>1. ASSUME Init PROVE TypeOK /\ Decided
    <3>1. /\ subs \in Seq(Handlers) /\ pending \in Seq(1..MaxEvents) /\ queue \in Seq(Delivery)
          /\ events \in Seq(Clients \union {None}) /\ workers \in Seq(WorkerRecord)
      BY <2>1, EmptySeq DEF Init
    <3>2. Len(queue) = 0 /\ Len(events) = 0 /\ 0 <= Capacity /\ 0 <= MaxEvents /\ 0 \in 0..MaxStarts
      BY <2>1, EmptySeq, BusAssumption DEF Init
    <3>3. DOMAIN workers = {} /\ Set(queue) = {}
      BY <2>1, NothingTyped DEF Init
    <3>4. puts \in [Clients \union {Flush} -> Put]
          /\ \A c \in DOMAIN puts : Set(puts[c].rest) = {}
      BY <2>1, NothingTyped DEF Init
    <3> QED
      BY <2>1, <3>1, <3>2, <3>3, <3>4 DEF Init, TypeOK, Decided, WorkerRecord
  <2> QED
    BY <2>1 DEF TypeInv
<1>2. TypeInv /\ [Next]_vars => TypeInv'
  <2> SUFFICES ASSUME TypeInv, [Next]_vars PROVE TypeInv'
    OBVIOUS
  <2>1. ASSUME NEW h \in Handlers, Subscribe(h) PROVE TypeInv'
    <3>1. subs' \in Seq(Handlers)
      BY <2>1, AppendProperties DEF TypeInv, TypeOK, Subscribe
    <3> QED
      BY <2>1, <3>1 DEF TypeInv, TypeOK, Decided, Subscribe
  <2>2. ASSUME NEW h \in Handlers, Unsubscribe(h) PROVE TypeInv'
    <3>1. subs' \in Seq(Handlers)
      BY <2>2, UnsubscribeTyped DEF TypeInv
    <3> QED
      BY <2>2, <3>1 DEF TypeInv, TypeOK, Decided, Unsubscribe
  <2>3. CASE StopBegins
    <3>1. pending' \in Seq(1..MaxEvents)
      BY <2>3, EmptySeq DEF StopBegins
    <3> QED
      BY <2>3, <3>1 DEF TypeInv, TypeOK, Decided, StopBegins
  <2>4. CASE StopCancels
    <3>1. /\ workers' \in Seq(WorkerRecord) /\ DOMAIN workers' = DOMAIN workers
          /\ \A i \in DOMAIN workers :
               /\ workers'[i].pc = workers[i].pc /\ workers'[i].item = workers[i].item
               /\ workers'[i].put = workers[i].put
      BY <2>4, CancelsEffect
    <3>2. /\ stopping' = "gather"
          /\ UNCHANGED <<started, starts, subs, pending, qid, queue, listed, puts, events, due,
                         begun, stopped, raced>>
      BY <2>4 DEF StopCancels
    <3> QED
      BY <3>1, <3>2 DEF TypeInv, TypeOK, Decided, WorkerRecord
  <2>5. CASE StopCloses
    <3>1. queue' \in Seq(Delivery) /\ Len(queue') <= Capacity /\ Set(queue') = {} /\ 0 \in 0..MaxStarts
      BY <2>5, EmptySeq, NothingTyped, BusAssumption DEF StopCloses
    <3> QED
      BY <2>5, <3>1 DEF TypeInv, TypeOK, Decided, StopCloses
  <2>6. CASE StopReturns
    BY <2>6 DEF TypeInv, TypeOK, Decided, StopReturns
  <2>7. CASE UNCHANGED vars
    BY <2>7 DEF TypeInv, TypeOK, Decided, vars
  <2> QED
    BY <2>1, <2>2, <2>3, <2>4, <2>5, <2>6, <2>7, TypeStart, TypePublish, TypePutResumes, TypeWorkers
       DEF Next
<1> QED
  BY <1>1, <1>2, PTL DEF Spec, TypeInv

-----------------------------------------------------------------------------
(* The pool of workers. *)

\* What the steps of the pool rest on.
Inv == TypeInv /\ PoolInv

\* Nothing about the pool changes.
LEMMA PoolUntouched ==
  ASSUME PoolInv, UNCHANGED <<started, stopping, qid, listed, workers, raced>>
  PROVE  PoolInv'
  BY DEF PoolInv, Phases, Pool, Live

\* A live worker that goes on is a live worker of the same queue.
LEMMA PoolGoesOn ==
  ASSUME TypeInv, PoolInv, ~raced, BusFrame, NEW i \in DOMAIN workers, workers[i].pc # "end",
         ~workers[i].cancelled, NEW pc, NEW d, NEW p, NEW q, pc # "end",
         q \in {workers[i].q, qid}, Goes(i, pc, d, p, q, FALSE)
  PROVE  PoolInv'
<1>1. Phases /\ Pool
  BY DEF PoolInv
<1>2. PICK w \in WorkerRecord : Becomes(i, w) /\ w.pc = pc /\ w.q = q /\ w.cancelled = FALSE
  BY DEF Goes
<1>3. UNCHANGED <<started, stopping, qid, listed, raced>>
  BY DEF BusFrame
<1>4. i \in Live /\ workers[i].q = qid /\ stopping # "gather"
  BY <1>1 DEF Live, Pool
<1>5. Live' = Live
  BY <1>2, <1>4 DEF Live, Becomes
<1>6. /\ \A j \in Live' : workers'[j].q = qid' /\ qid' # 0
      /\ \A j \in Live' : workers'[j].cancelled <=> stopping' = "gather"
  BY <1>1, <1>2, <1>3, <1>4, <1>5 DEF Pool, Becomes, Live
<1>7. Phases'
  BY <1>1, <1>3 DEF Phases
<1>8. Pool'
  BY <1>1, <1>3, <1>5, <1>6 DEF Pool
<1> QED
  BY <1>7, <1>8 DEF PoolInv

\* A started bus has its queue, so publications give no tasks.
LEMMA HasQueue ==
  ASSUME PoolInv, ~raced, started
  PROVE  qid # 0
  BY DEF PoolInv, Phases

\* Steps of workers keep the pool.
LEMMA PoolWorkers ==
  ASSUME Inv, ~raced, NEW i \in DOMAIN workers, WorkerSteps(i)
  PROVE  PoolInv'
<1>1. TypeInv /\ TypeOK /\ PoolInv /\ Phases /\ Pool
  BY DEF Inv, TypeInv, PoolInv
<1>2. BusFrame
  BY DEF WorkerSteps, WorkerGets, TaskRuns, Relay, RelayResumes, HandlerEnds, WorkerCancelled
<1>3. CASE WorkerGets(i)
  <2>1. workers[i].pc # "end"
    BY <1>3 DEF WorkerGets, GoesOn
  <2>2. ~workers[i].cancelled /\ Goes(i, "run", Head(queue), Nothing, workers[i].q, FALSE)
    BY <1>1, <1>3, WorkerGetsEffect
  <2> QED
    BY <1>1, <1>2, <2>1, <2>2, PoolGoesOn
<1>4. CASE TaskRuns(i)
  <2>1. /\ workers[i].pc = "new" /\ ~workers[i].cancelled
        /\ Goes(i, "run", workers[i].item, Nothing, workers[i].q, FALSE)
    BY <1>1, <1>4, TaskRunsEffect
  <2> QED
    BY <1>1, <1>2, <2>1, PoolGoesOn
<1>5. CASE Relay(i)
  <2>1. workers[i].pc = "run" /\ ~workers[i].cancelled
    BY <1>1, <1>5, RelayEffect
  <2>2. started => qid # 0
    BY <1>1, HasQueue
  <2>3. \/ Goes(i, "relayed", workers[i].item, Nothing, workers[i].q, FALSE)
        \/ Goes(i, "relayed", workers[i].item, Left(Fresh, qid), workers[i].q, FALSE)
    BY <1>1, <1>5, <2>2, RelayEffect
  <2> QED
    BY <1>1, <1>2, <2>1, <2>3, PoolGoesOn
<1>6. CASE RelayResumes(i)
  <2>1. /\ ~workers[i].cancelled /\ workers[i].put # Nothing
        /\ Goes(i, workers[i].pc, workers[i].item, Left(workers[i].put, qid), workers[i].q, FALSE)
    BY <1>1, <1>6, RelayResumesEffect
  <2>2. CASE workers[i].pc # "end"
    BY <1>1, <1>2, <2>1, <2>2, PoolGoesOn
  <2>3. CASE workers[i].pc = "end"
    <3>1. PICK w \in WorkerRecord : Becomes(i, w) /\ w.pc = "end"
      BY <2>1, <2>3 DEF Goes
    <3>2. Live' = Live /\ \A j \in Live : workers'[j] = workers[j]
      BY <2>3, <3>1 DEF Live, Becomes
    <3>3. UNCHANGED <<started, stopping, qid, listed, raced>>
      BY <1>2 DEF BusFrame
    <3> QED
      BY <1>1, <3>2, <3>3 DEF PoolInv, Phases, Pool
  <2> QED
    BY <2>2, <2>3
<1>7. CASE HandlerEnds(i)
  <2>1. /\ ~workers[i].cancelled /\ workers[i].pc \in {"run", "relayed"}
        /\ \/ ~Single(workers[i]) /\ qid # 0 /\ Goes(i, "get", NoItem, Nothing, qid, FALSE)
           \/ Single(workers[i]) \/ workers[i].q # qid
    BY <1>1, <1>7, HandlerEndsEffect
  <2>2. workers[i].q = qid /\ qid # 0
    BY <1>1, <2>1 DEF Pool, Live
  <2>3. Goes(i, "get", NoItem, Nothing, qid, FALSE)
    BY <2>1, <2>2 DEF Single
  <2> QED
    BY <1>1, <1>2, <2>1, <2>3, PoolGoesOn
<1>8. CASE WorkerCancelled(i)
  <2>1. workers[i].cancelled /\ workers[i].pc # "end" /\ workers' = [workers EXCEPT ![i] = Gone]
    BY <1>8 DEF WorkerCancelled
  <2>2. Goes(i, "end", NoItem, Nothing, 0, FALSE)
    BY <1>1, <2>1, EndsEffect
  <2>3. PICK w \in WorkerRecord : Becomes(i, w) /\ w.pc = "end"
    BY <2>2 DEF Goes
  <2>4. Live' \subseteq Live /\ \A j \in Live' : workers'[j] = workers[j]
    BY <2>3 DEF Live, Becomes
  <2>5. stopping = "gather"
    BY <1>1, <2>1 DEF Pool, Live
  <2>6. UNCHANGED <<started, stopping, qid, listed, raced>>
    BY <1>2 DEF BusFrame
  <2> QED
    BY <1>1, <2>4, <2>5, <2>6 DEF PoolInv, Phases, Pool
<1> QED
  BY <1>3, <1>4, <1>5, <1>6, <1>7, <1>8 DEF WorkerSteps

\* start() without a stop() under way makes the pool anew.
LEMMA PoolStart ==
  ASSUME Inv, ~raced', Start
  PROVE  PoolInv'
<1>1. TypeInv /\ TypeOK
  BY DEF Inv, TypeInv
<1>2. ~raced /\ stopping = "no" /\ ~started /\ started' /\ stopping' = stopping
  BY DEF Start
<1>3. Phases /\ Pool
  BY <1>2 DEF Inv, PoolInv
<1>4. qid = 0 /\ Live = {}
  BY <1>2, <1>3 DEF Phases, Pool
<1>5. PICK t \in Seq(WorkerRecord) :
        /\ Added(workers, t) /\ Len(t) = WorkerCount
        /\ \A j \in 1..Len(t) :
             t[j].pc = "get" /\ t[j].q = qid' /\ t[j].cancelled = FALSE
  BY <1>1, StartEffect
<1>6. qid' # 0 /\ listed' = DOMAIN workers' \ DOMAIN workers
  BY <1>1, StartEffect
<1>7. \A i \in listed' :
        workers'[i].pc = "get" /\ workers'[i].q = qid' /\ workers'[i].cancelled = FALSE
  <2>1. TAKE i \in listed'
  <2>2. i - Len(workers) \in 1..Len(t) /\ workers'[i] = t[i - Len(workers)]
    BY <1>5, <1>6 DEF Added
  <2> QED
    BY <1>5, <2>2
<1>8. Live' = listed'
  <2>1. \A i \in DOMAIN workers : workers'[i].pc = "end"
    BY <1>4, <1>5 DEF Live, Added
  <2>2. Live' \subseteq listed'
    BY <1>6, <2>1 DEF Live
  <2>3. listed' \subseteq Live'
    BY <1>6, <1>7 DEF Live
  <2> QED
    BY <2>2, <2>3
<1>9. Cardinality(listed') = WorkerCount
  <2> DEFINE m == Len(workers)
  <2>1. m \in Nat /\ WorkerCount \in Nat
    BY <1>1, Parts, BusAssumption
  <2>2. listed' = (m + 1)..(m + WorkerCount)
    BY <1>5, <1>6 DEF Added
  <2> HIDE DEF m
  <2>3. Cardinality((m + 1)..(m + WorkerCount)) =
          IF m + 1 > m + WorkerCount THEN 0 ELSE (m + WorkerCount) - (m + 1) + 1
    <3>1. m + 1 \in Int /\ m + WorkerCount \in Int
      BY <2>1
    <3> QED
      BY <3>1, FS_Interval
  <2> QED
    BY <2>1, <2>2, <2>3
<1>10. Phases'
  BY <1>2, <1>6 DEF Phases
<1>11. Pool'
  BY <1>2, <1>6, <1>7, <1>8, <1>9 DEF Pool
<1> QED
  BY <1>10, <1>11 DEF PoolInv

\* stop() cancels the pool, waits for it and forgets it.
LEMMA PoolStops ==
  ASSUME Inv, ~raced, StopBegins \/ StopCancels \/ StopCloses \/ StopReturns
  PROVE  PoolInv'
<1>1. Phases /\ Pool /\ TypeInv
  BY DEF Inv, PoolInv
<1>2. CASE StopBegins
  BY <1>1, <1>2 DEF StopBegins, PoolInv, Phases, Pool, Live
<1>3. CASE StopCancels
  <2>1. stopping = "drain" /\ stopping' = "gather" /\ UNCHANGED <<started, qid, listed, raced>>
    BY <1>3 DEF StopCancels
  <2>2. /\ DOMAIN workers' = DOMAIN workers
        /\ \A i \in DOMAIN workers :
             /\ workers'[i].pc = workers[i].pc /\ workers'[i].q = workers[i].q
             /\ workers'[i].cancelled <=>
                  workers[i].cancelled \/ (i \in listed /\ workers[i].pc # "end")
    BY <1>1, <1>3, CancelsEffect
  <2>3. Live' = Live /\ listed = Live
    BY <1>1, <2>1, <2>2 DEF Live, Pool
  <2>4. \A i \in Live : workers'[i].cancelled /\ workers'[i].q = qid /\ qid # 0
    BY <1>1, <2>1, <2>2, <2>3 DEF Live, Pool
  <2>5. Phases'
    BY <1>1, <2>1 DEF Phases
  <2>6. Pool'
    BY <1>1, <2>1, <2>3, <2>4 DEF Pool
  <2> QED
    BY <2>5, <2>6 DEF PoolInv
<1>4. CASE StopCloses
  <2>1. Live = {}
    BY <1>1, <1>4 DEF StopCloses, Pool, Live
  <2>2. Live' = {} /\ listed' = {} /\ stopping' = "tasks" /\ qid' = 0 /\ UNCHANGED <<started, raced>>
    BY <1>4, <2>1 DEF StopCloses, Live
  <2>3. ~started
    BY <1>1, <1>4 DEF Phases, StopCloses
  <2> QED
    BY <2>2, <2>3 DEF PoolInv, Phases, Pool
<1>5. CASE StopReturns
  <2>1. /\ stopping = "tasks" /\ stopping' = "no"
        /\ UNCHANGED <<started, qid, listed, workers, raced>>
    BY <1>5 DEF StopReturns
  <2>2. ~started /\ qid = 0 /\ listed = {} /\ Live = {}
    BY <1>1, <2>1 DEF Phases, Pool
  <2>3. Cardinality(listed) = 0
    BY <2>2, FS_EmptySet
  <2>4. Live' = {} /\ listed' = {} /\ Cardinality(listed') = 0
    BY <2>1, <2>2, <2>3 DEF Live
  <2> QED
    BY <2>1, <2>2, <2>4 DEF PoolInv, Phases, Pool
<1> QED
  BY <1>2, <1>3, <1>4, <1>5

\* A running bus has all its workers and a stopped one has none, unless
\* start() overtook stop(): none ends with a handler that raises, and none
\* survives the cancellation.
THEOREM PoolComplete == Spec => []PoolMatches
<1>1. Init => PoolInv
  <2>1. ASSUME Init PROVE Live = {} /\ Cardinality(listed) = 0
    BY <2>1, FS_EmptySet DEF Init, Live
  <2> QED
    BY <2>1 DEF Init, PoolInv, Phases, Pool
<1>2. TypeInv /\ PoolInv /\ [Next]_vars => PoolInv'
  <2> SUFFICES ASSUME TypeInv, PoolInv, [Next]_vars PROVE PoolInv'
    OBVIOUS
  <2>1. CASE raced'
    BY <2>1 DEF PoolInv
  <2>2. CASE ~raced'
    <3>1. ASSUME NEW h \in Handlers, Subscribe(h) \/ Unsubscribe(h) PROVE PoolInv'
      BY <3>1, PoolUntouched DEF Subscribe, Unsubscribe
    <3>2. CASE Start
      BY <2>2, <3>2, PoolStart DEF Inv
    <3>3. CASE StopBegins \/ StopCancels \/ StopCloses \/ StopReturns
      <4>1. ~raced
        BY <2>2, <3>3 DEF StopBegins, StopCancels, StopCloses, StopReturns
      <4> QED
        BY <3>3, <4>1, PoolStops DEF Inv
    <3>4. ASSUME NEW c \in Clients, Publish(c) PROVE PoolInv'
      <4>1. BusFrame /\ ~raced
        BY <2>2, <3>4 DEF Publish, BusFrame
      <4>2. UNCHANGED workers
        BY <3>4, <4>1, HasQueue DEF Publish
      <4> QED
        BY <4>1, <4>2, PoolUntouched DEF BusFrame
    <3>5. ASSUME NEW c \in Clients \union {Flush}, PutResumes(c) PROVE PoolInv'
      BY <3>5, PoolUntouched DEF PutResumes, BusFrame
    <3>6. ASSUME NEW i \in DOMAIN workers, WorkerSteps(i) PROVE PoolInv'
      <4>1. BusFrame
        BY <3>6 DEF WorkerSteps, WorkerGets, TaskRuns, Relay, RelayResumes, HandlerEnds,
                    WorkerCancelled
      <4>2. ~raced
        BY <2>2, <4>1 DEF BusFrame
      <4> QED
        BY <3>6, <4>2, PoolWorkers DEF Inv
    <3>7. CASE UNCHANGED vars
      BY <3>7, PoolUntouched DEF vars
    <3> QED
      BY <3>1, <3>2, <3>3, <3>4, <3>5, <3>6, <3>7 DEF Next
  <2> QED
    BY <2>1, <2>2
<1>3. PoolInv => PoolMatches
  BY DEF PoolInv, Phases, Pool, Live, PoolMatches
<1>4. Spec => []TypeInv
  BY BusTypes, PTL DEF TypeInv
<1> QED
  BY <1>1, <1>2, <1>3, <1>4, PTL DEF Spec

-----------------------------------------------------------------------------
(* Deliveries are in one place. *)

\* Everything that is somewhere was decided on.
LEMMA SomewhereDecided ==
  ASSUME TypeInv
  PROVE  /\ begun \subseteq due /\ Set(queue) \subseteq due /\ InTasks \subseteq due
         /\ \A x \in Waits : Set(RestAt(x)) \subseteq due
         /\ \A d \in due : d[2] \in Nat
<1>1. DOMAIN puts = Clients \union {Flush}
  BY Parts DEF TypeInv
<1>2. \A x \in Waits : Set(RestAt(x)) \subseteq due
  <2>1. TAKE x \in Waits
  <2>2. CASE x \in {"put"} \X DOMAIN puts
    <3>1. x[1] = "put" /\ x[2] \in DOMAIN puts
      BY <2>2
    <3> QED
      BY <3>1 DEF RestAt, TypeInv, Decided
  <2>3. CASE x \in {"relay"} \X DOMAIN workers
    <3>1. x[1] # "put" /\ x[2] \in DOMAIN workers
      BY <2>3
    <3> QED
      BY <3>1 DEF RestAt, TypeInv, Decided
  <2> QED
    BY <2>1, <2>2, <2>3 DEF Waits
<1>3. InTasks \subseteq due
  BY DEF InTasks, New, TypeInv, Decided
<1>4. \A d \in due : d[2] \in Nat
  <2>1. TAKE d \in due
  <2>2. d \in Handlers \X (1..MaxEvents)
    BY Still DEF Delivery
  <2>3. d[2] \in 1..MaxEvents
    BY <2>2
  <2> QED
    BY <2>3, BusAssumption
<1> QED
  BY <1>2, <1>3, <1>4, Still

\* Tasks that are still to run, and publications that wait, are those of before.
TasksKept == \A i \in New' : i \in New /\ workers'[i].item = workers[i].item
NoOne == <<"none", 0>>
RestKept(x) == (x \in Waits /\ RestAt(x)' = RestAt(x)) \/ RestAt(x)' = <<>>

\* Deliveries that reach their handlers leave the place they were in.
LEMMA ApartMoves ==
  ASSUME Apart, NEW H, Distinct(queue'), Set(queue') \subseteq Set(queue),
         begun' \subseteq begun \union H, TasksKept, \A x \in Waits' : RestKept(x),
         H \intersect (Set(queue') \union InTasks') = {},
         \A x \in Waits' : H \intersect Set(RestAt(x)') = {}
  PROVE  Apart'
<1>1. \A x \in Waits' :
        /\ Distinct(RestAt(x)')
        /\ (x \in Waits /\ Set(RestAt(x)') = Set(RestAt(x))) \/ Set(RestAt(x)') = {}
  BY NothingTyped DEF RestKept, Apart, Distinct
<1>2. InTasks' \subseteq InTasks
  BY DEF TasksKept, InTasks
<1>3. \A i, j \in New' : workers'[i].item = workers'[j].item => i = j
  BY DEF TasksKept, Apart
<1>4. InTasks' \intersect (begun' \union Set(queue')) = {} /\ Set(queue') \intersect begun' = {}
  BY <1>2 DEF Apart
<1>5. \A x \in Waits' : Set(RestAt(x)') \intersect (begun' \union Set(queue') \union InTasks') = {}
  BY <1>1, <1>2 DEF Apart
<1>6. \A x, y \in Waits' : x # y => Set(RestAt(x)') \intersect Set(RestAt(y)') = {}
  BY <1>1 DEF Apart
<1> QED
  BY <1>1, <1>3, <1>4, <1>5, <1>6 DEF Apart, Distinct, Set

\* Deliveries that disappear, or do not move, stay apart.
LEMMA ApartShrinks ==
  ASSUME Apart, Distinct(queue'), Set(queue') \subseteq Set(queue), begun' = begun,
         TasksKept, \A x \in Waits' : RestKept(x)
  PROVE  Apart'
<1> DEFINE H == {}
<1>1. begun' \subseteq begun \union H /\ H \intersect (Set(queue') \union InTasks') = {}
  OBVIOUS
<1>2. \A x \in Waits' : H \intersect Set(RestAt(x)') = {}
  OBVIOUS
<1> HIDE DEF H
<1> QED
  BY <1>1, <1>2, ApartMoves

\* A publication that nothing was decided about yet, or that waits as x.
Separate(p, x) ==
  /\ Distinct(p.rest) /\ Distinct(p.then)
  /\ Set(p.rest) \subseteq due
  /\ \A d \in due : d[2] \notin Set(p.then)
  /\ Set(p.rest) \intersect (begun \union Set(queue) \union InTasks) = {}
  /\ \A y \in Waits \ {x} : Set(p.rest) \intersect Set(RestAt(y)) = {}

\* Two sequences without repetition that share nothing have no repetition
\* together.
LEMMA DistinctConcat ==
  ASSUME NEW S, NEW s \in Seq(S), NEW t \in Seq(S), Distinct(s), Distinct(t),
         Set(s) \intersect Set(t) = {}
  PROVE  Distinct(s \o t)
<1> DEFINE m == Len(s)
           n == Len(t)
           u == s \o t
<1>1. m \in Nat /\ n \in Nat /\ DOMAIN s = 1..m /\ DOMAIN t = 1..n
  BY LenProperties
<1>2. /\ u \in Seq(S) /\ Len(u) = m + n
      /\ \A i \in 1..(m + n) : u[i] = IF i <= m THEN s[i] ELSE t[i - m]
  BY ConcatProperties
<1>3. DOMAIN u = 1..(m + n)
  BY <1>2, LenProperties
<1> HIDE DEF m, n, u
<1>4. \A i \in 1..(m + n) :
        /\ i \in Nat
        /\ i <= m => i \in 1..m /\ u[i] = s[i] /\ u[i] \in Set(s)
        /\ ~(i <= m) => i - m \in 1..n /\ u[i] = t[i - m] /\ u[i] \in Set(t)
  <2>1. TAKE i \in 1..(m + n)
  <2>2. i \in Nat
    BY <1>1
  <2>3. CASE i <= m
    <3>1. i \in 1..m /\ u[i] = s[i]
      BY <1>1, <1>2, <2>3
    <3> QED
      BY <1>1, <2>2, <2>3, <3>1 DEF Set
  <2>4. CASE ~(i <= m)
    <3>1. i - m \in 1..n /\ u[i] = t[i - m]
      BY <1>1, <1>2, <2>4
    <3> QED
      BY <1>1, <2>2, <2>4, <3>1 DEF Set
  <2> QED
    BY <2>3, <2>4
<1>5. ASSUME NEW i \in 1..(m + n), NEW j \in 1..(m + n), u[i] = u[j] PROVE i = j
  <2>1. CASE i <= m /\ j <= m
    BY <1>1, <1>4, <1>5, <2>1 DEF Distinct
  <2>2. CASE ~(i <= m) /\ ~(j <= m)
    <3>1. i - m \in DOMAIN t /\ j - m \in DOMAIN t /\ t[i - m] = t[j - m]
      BY <1>1, <1>4, <1>5, <2>2
    <3>2. i - m = j - m
      BY <3>1 DEF Distinct
    <3> QED
      BY <1>1, <1>4, <3>2
  <2>3. CASE i <= m /\ ~(j <= m)
    BY <1>4, <1>5, <2>3
  <2>4. CASE ~(i <= m) /\ j <= m
    BY <1>4, <1>5, <2>4
  <2> QED
    BY <2>1, <2>2, <2>3, <2>4
<1>6. Distinct(u)
  BY <1>3, <1>5 DEF Distinct
<1> QED
  BY <1>6 DEF u

\* What a dispatch decides on is new, or waited with the publication.
LEMMA FedFresh ==
  ASSUME TypeInv, Distinct(subs), NEW p \in Put, NEW x, NEW q \in 0..MaxStarts,
         Separate(p, x), Feed(p),
         NEW l, l = Left(p, q), NEW f, f = Fitting(p)
  PROVE  /\ Distinct(f) /\ Distinct(l.rest) /\ Set(f) \intersect Set(l.rest) = {}
         /\ Set(p.rest) \subseteq Set(f) \union Set(l.rest)
         /\ \A d \in Set(f) \union Set(l.rest) : d \in Set(p.rest) \/ d \notin due
         /\ \A d \in Set(f) \union Set(l.rest) : d \in Set(p.rest) \/ d[2] \in Set(p.then)
         /\ Distinct(l.then) /\ Set(l.then) \subseteq Set(p.then)
         /\ \A d \in due' : d[2] \notin Set(l.then)
         /\ p.then = <<>> \/ (p.rest = <<>> /\ Len(p.then) = 1) => l.then = <<>>
         /\ f \in Seq(Delivery) /\ queue' = queue \o f
         /\ Set(queue') = Set(queue) \union Set(f)
         /\ due' = due \union Set(f) \union Set(l.rest)
<1>1. \A d \in Set(p.rest) : d[2] \notin Set(p.then)
  BY DEF Separate
<1>2. subs \in Seq(Handlers) /\ queue \in Seq(Delivery) /\ Len(queue) <= Capacity
  BY DEF TypeInv, TypeOK
<1>3. /\ Distinct(f) /\ Distinct(l.rest) /\ Set(f) \intersect Set(l.rest) = {}
      /\ Set(p.rest) \subseteq Set(f) \union Set(l.rest)
      /\ \A d \in Set(f) \union Set(l.rest) : d \in Set(p.rest) \/ d[2] \in Set(p.then)
      /\ Distinct(l.then) /\ Set(l.then) \subseteq Set(p.then)
      /\ \A d \in Set(f) \union Set(l.rest) : d[2] \notin Set(l.then)
      /\ p.then = <<>> \/ (p.rest = <<>> /\ Len(p.then) = 1) => l.then = <<>>
  BY <1>1, <1>2, Splits DEF Separate
<1>4. /\ Set(queue') = Set(queue) \union Set(f)
      /\ due' = due \union Set(f) \union Set(l.rest)
  BY Fed DEF TypeInv
<1>5. f \in Seq(Delivery) /\ queue' = queue \o f
  BY <1>2, FittingFirst DEF Feed
<1>6. \A d \in Set(f) \union Set(l.rest) : d \in Set(p.rest) \/ d \notin due
  BY <1>3 DEF Separate
<1>7. \A d \in due' : d[2] \notin Set(l.then)
  BY <1>3, <1>4 DEF Separate
<1> QED
  BY <1>3, <1>4, <1>5, <1>6, <1>7

\* A dispatch keeps deliveries apart.
LEMMA ApartFed ==
  ASSUME TypeInv, Distinct(subs), Apart, NEW p \in Put, NEW x \in Waits', NEW q \in 0..MaxStarts,
         Separate(p, x), Feed(p), begun' = begun, TasksKept,
         RestAt(x)' = Left(p, q).rest, \A y \in Waits' \ {x} : RestKept(y)
  PROVE  Apart'
<1> DEFINE l == Left(p, q)
           f == Fitting(p)
<1>1. /\ Distinct(f) /\ Distinct(l.rest) /\ Set(f) \intersect Set(l.rest) = {}
      /\ \A d \in Set(f) \union Set(l.rest) : d \in Set(p.rest) \/ d \notin due
      /\ f \in Seq(Delivery) /\ queue' = queue \o f
      /\ Set(queue') = Set(queue) \union Set(f)
  BY FedFresh
<1> HIDE DEF l, f
<1>2. queue \in Seq(Delivery) /\ Distinct(queue)
  BY DEF TypeInv, TypeOK, Apart
<1> DEFINE fresh == Set(f) \union Set(l.rest)
<1>3. /\ fresh \intersect begun = {} /\ fresh \intersect Set(queue) = {}
      /\ fresh \intersect InTasks = {}
      /\ \A y \in Waits \ {x} : fresh \intersect Set(RestAt(y)) = {}
  BY <1>1, SomewhereDecided DEF Separate
<1>4. Set(f) \subseteq fresh /\ Set(l.rest) \subseteq fresh
  OBVIOUS
<1> HIDE DEF fresh
<1>5. Distinct(queue')
  BY <1>1, <1>2, <1>3, <1>4, DistinctConcat
<1>6. RestAt(x)' = l.rest
  BY DEF l
<1>7. \A y \in Waits' \ {x} :
        /\ Distinct(RestAt(y)')
        /\ (y \in Waits /\ Set(RestAt(y)') = Set(RestAt(y))) \/ Set(RestAt(y)') = {}
  BY NothingTyped DEF RestKept, Apart, Distinct
<1>8. InTasks' \subseteq InTasks
  BY DEF TasksKept, InTasks
<1>9. \A i, j \in New' : workers'[i].item = workers'[j].item => i = j
  BY DEF TasksKept, Apart
<1>10. \A y \in Waits' : Distinct(RestAt(y)')
  BY <1>1, <1>6, <1>7
<1>11. /\ Set(queue') \intersect begun' = {}
       /\ InTasks' \intersect (begun' \union Set(queue')) = {}
  BY <1>1, <1>3, <1>4, <1>8 DEF Apart
<1>12. Set(l.rest) \intersect (begun' \union Set(queue') \union InTasks') = {}
  BY <1>1, <1>3, <1>4, <1>8
<1>13. \A y \in Waits' \ {x} : Set(RestAt(y)') \intersect (begun' \union Set(queue') \union InTasks') = {}
  BY <1>1, <1>3, <1>4, <1>7, <1>8 DEF Apart
<1>14. \A y \in Waits' \ {x} : Set(RestAt(y)') \intersect Set(l.rest) = {}
  BY <1>3, <1>4, <1>7
<1>15. \A y, z \in Waits' \ {x} : y # z => Set(RestAt(y)') \intersect Set(RestAt(z)') = {}
  BY <1>7 DEF Apart
<1>16. \A y \in Waits' : Set(RestAt(y)') \intersect (begun' \union Set(queue') \union InTasks') = {}
  BY <1>6, <1>12, <1>13
<1>17. \A y, z \in Waits' : y # z => Set(RestAt(y)') \intersect Set(RestAt(z)') = {}
  BY <1>6, <1>14, <1>15
<1> QED
  BY <1>5, <1>9, <1>10, <1>11, <1>16, <1>17 DEF Apart, Distinct, Set

\* The rests of all publications but x are those of before, or gone.
LEMMA RestsKept ==
  ASSUME NEW x,
         \A c \in DOMAIN puts' : \/ c \in DOMAIN puts /\ puts'[c].rest = puts[c].rest
                                 \/ puts'[c].rest = <<>> \/ x = <<"put", c>>,
         \A i \in DOMAIN workers' : \/ i \in DOMAIN workers /\ workers'[i].put.rest = workers[i].put.rest
                                    \/ workers'[i].put.rest = <<>> \/ x = <<"relay", i>>
  PROVE  \A y \in Waits' \ {x} : RestKept(y)
<1> SUFFICES ASSUME NEW y \in Waits', y # x PROVE RestKept(y)
  OBVIOUS
<1>1. CASE y \in {"put"} \X DOMAIN puts'
  <2>1. PICK c \in DOMAIN puts' : y = <<"put", c>>
    BY <1>1
  <2>2. RestAt(y)' = puts'[c].rest /\ RestAt(y) = puts[c].rest
    BY <2>1 DEF RestAt
  <2>3. c \in DOMAIN puts => y \in Waits
    BY <2>1 DEF Waits
  <2> QED
    BY <2>1, <2>2, <2>3 DEF RestKept
<1>2. CASE y \in {"relay"} \X DOMAIN workers'
  <2>1. PICK i \in DOMAIN workers' : y = <<"relay", i>>
    BY <1>2
  <2>2. RestAt(y)' = workers'[i].put.rest /\ RestAt(y) = workers[i].put.rest
    BY <2>1 DEF RestAt
  <2>3. i \in DOMAIN workers => y \in Waits
    BY <2>1 DEF Waits
  <2> QED
    BY <2>1, <2>2, <2>3 DEF RestKept
<1> QED
  BY <1>1, <1>2 DEF Waits

\* None of them is lost.
LEMMA RestsStay ==
  ASSUME NEW x,
         \A c \in DOMAIN puts :
           c \in DOMAIN puts' /\ (puts'[c].rest = puts[c].rest \/ x = <<"put", c>>),
         \A i \in DOMAIN workers :
           /\ i \in DOMAIN workers'
           /\ workers'[i].put.rest = workers[i].put.rest \/ x = <<"relay", i>>
  PROVE  \A y \in Waits \ {x} : y \in Waits' /\ RestAt(y)' = RestAt(y)
<1> SUFFICES ASSUME NEW y \in Waits, y # x PROVE y \in Waits' /\ RestAt(y)' = RestAt(y)
  OBVIOUS
<1>1. CASE y \in {"put"} \X DOMAIN puts
  <2>1. PICK c \in DOMAIN puts : y = <<"put", c>>
    BY <1>1
  <2>2. RestAt(y)' = puts'[c].rest /\ RestAt(y) = puts[c].rest
    BY <2>1 DEF RestAt
  <2>3. c \in DOMAIN puts' => y \in Waits'
    BY <2>1 DEF Waits
  <2> QED
    BY <2>1, <2>2, <2>3
<1>2. CASE y \in {"relay"} \X DOMAIN workers
  <2>1. PICK i \in DOMAIN workers : y = <<"relay", i>>
    BY <1>2
  <2>2. RestAt(y)' = workers'[i].put.rest /\ RestAt(y) = workers[i].put.rest
    BY <2>1 DEF RestAt
  <2>3. i \in DOMAIN workers' => y \in Waits'
    BY <2>1 DEF Waits
  <2> QED
    BY <2>1, <2>2, <2>3
<1> QED
  BY <1>1, <1>2 DEF Waits

\* A dispatch loses nothing.
LEMMA PlacedFed ==
  ASSUME TypeInv, Distinct(subs), NEW p \in Put, NEW x \in Waits', NEW q \in 0..MaxStarts,
         Separate(p, x), Feed(p), begun' = begun, InTasks \subseteq InTasks',
         RestAt(x)' = Left(p, q).rest,
         \A y \in Waits \ {x} : y \in Waits' /\ RestAt(y)' = RestAt(y),
         x \in Waits => Set(RestAt(x)) \subseteq Set(p.rest), due \subseteq Placed
  PROVE  due' \subseteq Placed'
<1> DEFINE l == Left(p, q)
           f == Fitting(p)
<1>1. /\ Set(p.rest) \subseteq Set(f) \union Set(l.rest)
      /\ Set(queue') = Set(queue) \union Set(f)
      /\ due' = due \union Set(f) \union Set(l.rest)
  BY FedFresh
<1>2. RestAt(x)' = l.rest
  OBVIOUS
<1> HIDE DEF l, f
<1>3. Set(l.rest) \subseteq Placed' /\ Set(f) \subseteq Placed'
  BY <1>1, <1>2 DEF Placed
<1>4. begun \union Set(queue) \union InTasks \subseteq Placed'
  BY <1>1 DEF Placed
<1>5. ASSUME NEW y \in Waits PROVE Set(RestAt(y)) \subseteq Placed'
  <2>1. CASE y = x
    BY <1>1, <1>3, <2>1
  <2>2. CASE y # x
    BY <2>2 DEF Placed
  <2> QED
    BY <2>1, <2>2
<1> QED
  BY <1>1, <1>3, <1>4, <1>5 DEF Placed

\* A delivery that moves on to its handler is not lost.
LEMMA PlacedMoves ==
  ASSUME due \subseteq Placed, begun \subseteq begun', Set(queue) \subseteq Set(queue') \union begun',
         InTasks \subseteq InTasks' \union begun',
         \A y \in Waits : y \in Waits' /\ RestAt(y)' = RestAt(y)
  PROVE  due \subseteq Placed'
<1>1. begun \union Set(queue) \union InTasks \subseteq Placed'
  BY DEF Placed
<1>2. \A y \in Waits : Set(RestAt(y)) \subseteq Placed'
  BY DEF Placed
<1> QED
  BY <1>1, <1>2 DEF Placed

\* An event that is dispatched at once.
LEMMA EventsDispatched ==
  ASSUME TypeInv, Events, Len(events') = Len(events) + 1,
         \A d \in due' : d \in due \/ d[2] = Len(events) + 1,
         pending' = pending, puts'[Flush].then = puts[Flush].then,
         \A c \in Clients : puts'[c].then = <<>>,
         \A i \in DOMAIN workers' : workers'[i].put.then = <<>>
  PROVE  Events'
<1> DEFINE n == Len(events)
<1>1. n \in Nat /\ \A d \in due : d[2] \in Nat
  BY SomewhereDecided, LenProperties DEF TypeInv, TypeOK
<1>2. pending \in Seq(1..MaxEvents) /\ puts[Flush] \in Put
  BY Still
<1>3. puts[Flush].then \in Seq(1..MaxEvents)
  BY <1>2 DEF Put
<1>4. Set(pending) \subseteq 1..MaxEvents /\ Set(puts[Flush].then) \subseteq 1..MaxEvents
  BY <1>2, <1>3, SetTyped
<1>5. /\ \A d \in due : d[2] <= n
      /\ \A e \in Set(pending) \union Set(puts[Flush].then) :
           e \in Nat /\ e <= n /\ \A d \in due : d[2] # e
  <2>1. 1..MaxEvents \subseteq Nat
    BY BusAssumption
  <2> QED
    BY <1>4, <2>1 DEF Events, Undecided
<1> HIDE DEF n
<1>6. Len(events') = n + 1 /\ \A d \in due' : d \in due \/ d[2] = n + 1
  BY DEF n
<1>7. \A d \in due' : d[2] <= n + 1
  BY <1>1, <1>5, <1>6
<1>8. \A e \in Set(pending) \union Set(puts[Flush].then) :
        e <= n + 1 /\ \A d \in due' : d[2] # e
  BY <1>1, <1>5, <1>6
<1>9. Distinct(pending) /\ Distinct(puts[Flush].then)
      /\ Set(pending) \intersect Set(puts[Flush].then) = {}
  BY DEF Events, Undecided
<1>10. Undecided(pending)' /\ Undecided(puts[Flush].then)'
  <2>1. ASSUME NEW s, Distinct(s), \A e \in Set(s) : e <= n + 1 /\ \A d \in due' : d[2] # e
        PROVE  /\ Distinct(s)
               /\ \A e \in Set(s) : e <= Len(events') /\ \A d \in due' : d[2] # e
    BY <1>6, <2>1
  <2>2. Undecided(pending)'
    <3> DEFINE t == pending'
    <3>1. t = pending
      OBVIOUS
    <3> HIDE DEF t
    <3>2. Distinct(t) /\ \A e \in Set(t) : e <= Len(events') /\ \A d \in due' : d[2] # e
      BY <1>8, <1>9, <2>1, <3>1
    <3> QED
      BY <3>2 DEF t, Undecided, Set, Distinct
  <2>3. /\ Distinct(puts'[Flush].then)
        /\ \A e \in Set(puts'[Flush].then) : e <= Len(events') /\ \A d \in due' : d[2] # e
    <3> DEFINE t == puts[Flush].then
               u == puts'[Flush].then
    <3>1. u = t /\ Distinct(t) /\ \A e \in Set(t) : e <= n + 1 /\ \A d \in due' : d[2] # e
      BY <1>8, <1>9
    <3> HIDE DEF t, u
    <3>2. Distinct(u) /\ \A e \in Set(u) : e <= Len(events') /\ \A d \in due' : d[2] # e
      BY <2>1, <3>1
    <3> QED
      BY <3>2 DEF u
  <2>4. Undecided(puts[Flush].then)'
    BY <2>3 DEF Undecided, Set, Distinct
  <2> QED
    BY <2>2, <2>4
<1>11. (Set(pending) \intersect Set(puts[Flush].then) = {})'
  BY <1>9 DEF Set
<1> QED
  BY <1>6, <1>7, <1>10, <1>11 DEF Events

\* An event that is kept until start().
LEMMA EventsBuffered ==
  ASSUME TypeInv, Events, Len(events) < MaxEvents, Len(events') = Len(events) + 1,
         Buffered, due' = due, puts' = puts,
         \A i \in DOMAIN workers' : workers'[i].put.then = <<>>
  PROVE  Events'
<1> DEFINE n == Len(events)
           new == <<n + 1>>
<1>1. n \in Nat /\ \A d \in due : d[2] \in Nat
  BY SomewhereDecided, LenProperties DEF TypeInv, TypeOK
<1>2. pending \in Seq(1..MaxEvents) /\ puts[Flush] \in Put /\ n + 1 \in 1..MaxEvents
  BY Still, TasksTyped DEF TypeInv
<1>3. puts[Flush].then \in Seq(1..MaxEvents)
  BY <1>2 DEF Put
<1>4. Set(pending) \subseteq 1..MaxEvents /\ Set(puts[Flush].then) \subseteq 1..MaxEvents
  BY <1>2, <1>3, SetTyped
<1>5. /\ \A d \in due : d[2] <= n
      /\ \A e \in Set(pending) \union Set(puts[Flush].then) :
           e \in Nat /\ e <= n /\ \A d \in due : d[2] # e
  <2>1. 1..MaxEvents \subseteq Nat
    BY BusAssumption
  <2> QED
    BY <1>4, <2>1 DEF Events, Undecided
<1>6. pending' = pending \o new
  <2> DEFINE E == 1..MaxEvents
  <2> HIDE DEF E, n
  <2>1. pending \in Seq(E) /\ n + 1 \in E
    BY <1>2 DEF E
  <2>2. pending' = Append(pending, n + 1)
    BY DEF Buffered, n
  <2> QED
    BY <2>1, <2>2, AppendIsConcat
<1> HIDE DEF n
<1>7. new \in Seq(1..MaxEvents) /\ Distinct(new) /\ Set(new) = {n + 1}
  BY <1>2 DEF Distinct, Set
<1> HIDE DEF new
<1>8. Set(pending') = Set(pending) \union {n + 1}
  BY <1>2, <1>6, <1>7, SetConcat
<1>9. Set(pending) \intersect {n + 1} = {}
  BY <1>1, <1>5
<1>10. Distinct(pending')
  BY <1>2, <1>6, <1>7, <1>9, DistinctConcat DEF Events, Undecided
<1>11. Len(events') = n + 1
  BY DEF n
<1>12. \A d \in due' : d[2] <= n + 1
  BY <1>1, <1>5
<1>13. \A e \in Set(pending') \union Set(puts[Flush].then) :
         e <= n + 1 /\ \A d \in due' : d[2] # e
  BY <1>1, <1>5, <1>8
<1>14. Distinct(puts[Flush].then) /\ Set(pending) \intersect Set(puts[Flush].then) = {}
  BY DEF Events, Undecided
<1>15. Undecided(pending)' /\ Undecided(puts[Flush].then)'
  BY <1>10, <1>11, <1>13, <1>14 DEF Undecided, Distinct, Set
<1>16. n + 1 \notin Set(puts[Flush].then)
  BY <1>1, <1>5
<1>17. Set(pending') \intersect Set(puts[Flush].then) = {}
  BY <1>8, <1>14, <1>16
<1>18. (Set(pending) \intersect Set(puts[Flush].then) = {})'
  BY <1>17 DEF Set
<1>19. (\A c \in Clients : puts[c].then = <<>>)'
  BY DEF Events
<1> QED
  BY <1>11, <1>12, <1>15, <1>18, <1>19 DEF Events

\* Without a step of a worker the tasks are those of before.
LEMMA SameTasks ==
  ASSUME UNCHANGED workers
  PROVE  TasksKept /\ InTasks' = InTasks
  BY DEF TasksKept, InTasks, New

\* A worker that is not a task to be run, and does not become one.
LEMMA GoesTasks ==
  ASSUME NEW i \in DOMAIN workers, NEW pc, NEW d, NEW p, NEW q, Goes(i, pc, d, p, q, FALSE),
         \/ pc # "new"
         \/ pc = workers[i].pc /\ d = workers[i].item
  PROVE  /\ TasksKept /\ DOMAIN workers' = DOMAIN workers
         /\ InTasks \subseteq InTasks' \union {workers[i].item}
         /\ workers[i].pc # "new" \/ pc = "new" => InTasks \subseteq InTasks'
         /\ workers'[i].put = p /\ ~workers'[i].cancelled /\ workers'[i].item = d
         /\ workers'[i].pc = pc
         /\ \A j \in DOMAIN workers \ {i} : workers'[j] = workers[j]
<1>1. PICK w \in WorkerRecord :
        /\ Becomes(i, w) /\ w.pc = pc /\ w.item = d /\ w.put = p /\ w.cancelled = FALSE
  BY DEF Goes
<1>2. /\ DOMAIN workers' = DOMAIN workers /\ workers'[i] = w
      /\ \A j \in DOMAIN workers \ {i} : workers'[j] = workers[j]
  BY <1>1 DEF Becomes
<1>3. TasksKept
  BY <1>1, <1>2 DEF TasksKept, New
<1>4. \A j \in New \ {i} : j \in New' /\ workers'[j].item = workers[j].item
  BY <1>2 DEF New
<1>5. InTasks \subseteq InTasks' \union {workers[i].item}
  BY <1>4 DEF InTasks
<1>6. ASSUME workers[i].pc # "new" \/ pc = "new" PROVE InTasks \subseteq InTasks'
  <2>1. CASE workers[i].pc # "new"
    <3>1. i \notin New
      BY <2>1 DEF New
    <3> QED
      BY <1>4, <3>1 DEF InTasks
  <2>2. CASE pc = "new"
    <3>1. i \in New' /\ workers'[i].item = workers[i].item
      BY <1>1, <1>2, <2>2 DEF New
    <3> QED
      BY <1>4, <3>1 DEF InTasks
  <2> QED
    BY <1>6, <2>1, <2>2
<1> QED
  BY <1>1, <1>2, <1>3, <1>5, <1>6

\* The next event is separate from all that was decided.
LEMMA FreshSeparate ==
  ASSUME TypeInv, Events, Len(events) < MaxEvents, NEW x
  PROVE  /\ Separate(Fresh, x) /\ Fresh \in Put
         /\ Fresh.rest = <<>> /\ Len(Fresh.then) = 1 /\ Set(Fresh.rest) = {}
         /\ Set(Fresh.then) = {Len(events) + 1}
<1>1. /\ Fresh \in Put /\ Fresh.rest = <<>> /\ Fresh.then = <<Len(events) + 1>>
      /\ Len(events) \in Nat
  BY TasksTyped DEF TypeInv
<1>2. Set(Fresh.rest) = {} /\ Distinct(Fresh.rest)
  BY <1>1, NothingTyped DEF Distinct
<1>3. Set(Fresh.then) = {Len(events) + 1} /\ Distinct(Fresh.then) /\ Len(Fresh.then) = 1
  BY <1>1 DEF Set, Distinct
<1>4. \A d \in due : d[2] # Len(events) + 1
  <2>1. TAKE d \in due
  <2>2. d[2] \in Nat /\ d[2] <= Len(events)
    BY SomewhereDecided DEF Events
  <2> QED
    BY <1>1, <2>2
<1> QED
  BY <1>1, <1>2, <1>3, <1>4 DEF Separate

\* Events are only added.
Grows == \A e \in 1..Len(events) : events'[e] = events[e]

\* The client of an event decided on stays, and tasks wait for none.
LEMMA OwnersStay ==
  ASSUME TypeInv, Events, Grows
  PROVE  \A d \in due : d[2] \in Nat /\ d[2] <= Len(events) /\ events'[d[2]] = events[d[2]]
<1> SUFFICES ASSUME NEW d \in due PROVE d[2] \in Nat /\ d[2] <= Len(events) /\ events'[d[2]] = events[d[2]]
  OBVIOUS
<1>1. d \in Handlers \X (1..MaxEvents) /\ MaxEvents \in Nat
  BY Still, BusAssumption DEF Delivery
<1>2. d[2] \in 1..MaxEvents
  BY <1>1
<1>3. d[2] \in Nat /\ 1 <= d[2] /\ d[2] <= Len(events)
  BY <1>1, <1>2 DEF Events
<1>4. Len(events) \in Nat
  BY Still, LenProperties
<1>5. d[2] \in 1..Len(events)
  BY <1>3, <1>4
<1> QED
  BY <1>3, <1>5 DEF Grows

\* An event is added with the client whose event it is, on a running bus.
LEMMA NumberedGrows ==
  ASSUME TypeInv, NEW by, Numbered(by)
  PROVE  /\ Grows /\ Len(events) \in Nat
         /\ events'[Len(events) + 1] = IF started /\ qid # 0 THEN by ELSE None
<1> DEFINE o == IF started /\ qid # 0 THEN by ELSE None
           S == Clients \union {None, o}
<1>1. events \in Seq(S) /\ o \in S
  <2>1. events \in Seq(Clients \union {None})
    BY Still
  <2> QED
    BY <2>1
<1>2. events' = Append(events, o)
  BY DEF Numbered
<1> HIDE DEF o, S
<1>3. /\ Len(events) \in Nat /\ events'[Len(events) + 1] = o
      /\ \A e \in 1..Len(events) : events'[e] = events[e]
  BY <1>1, <1>2, AppendProperties, LenProperties
<1> QED
  BY <1>3 DEF Grows, o

\* The queue loses deliveries at its head only.
LEMMA SortedKept ==
  ASSUME TypeInv, Events, Sorted, Grows, NEW m \in Nat,
         \A j \in DOMAIN queue' : j + m \in DOMAIN queue /\ queue'[j] = queue[j + m],
         DOMAIN queue' \subseteq Nat
  PROVE  Sorted'
<1> SUFFICES ASSUME NEW j \in DOMAIN queue', NEW k \in DOMAIN queue', j < k,
                    events'[queue'[j][2]] # None, events'[queue'[j][2]] = events'[queue'[k][2]]
             PROVE  queue'[j][2] <= queue'[k][2]
  BY DEF Sorted, Of
<1>1. j + m \in DOMAIN queue /\ k + m \in DOMAIN queue /\ j + m < k + m
  OBVIOUS
<1>2. queue[j + m] \in due /\ queue[k + m] \in due
  BY <1>1, Still DEF Set
<1>3. /\ events'[queue[j + m][2]] = events[queue[j + m][2]]
      /\ events'[queue[k + m][2]] = events[queue[k + m][2]]
  BY <1>2, OwnersStay
<1>4. queue'[j] = queue[j + m] /\ queue'[k] = queue[k + m]
  OBVIOUS
<1>5. queue[j + m][2] <= queue[k + m][2]
  BY <1>1, <1>3, <1>4 DEF Sorted, Of
<1> QED
  BY <1>4, <1>5

\* A queue that stays.
LEMMA SortedStays ==
  ASSUME TypeInv, Events, Sorted, Grows, queue' = queue
  PROVE  Sorted'
<1>1. DOMAIN queue \subseteq Nat
  BY Still, LenProperties
<1>2. \A j \in DOMAIN queue' : j + 0 \in DOMAIN queue /\ queue'[j] = queue[j + 0]
  BY <1>1
<1>3. 0 \in Nat
  OBVIOUS
<1> QED
  BY <1>1, <1>2, <1>3, SortedKept

\* The last deliveries of one client, or some of no client, join the queue.
LEMMA SortedFed ==
  ASSUME TypeInv, Events, Sorted, Grows, NEW o, NEW f \in Seq(Delivery), queue' = queue \o f,
         due \subseteq due', Set(f) \subseteq due', \A d \in Set(f) : Last(d, o)'
  PROVE  Sorted'
<1> SUFFICES ASSUME NEW j \in DOMAIN queue', NEW k \in DOMAIN queue', j < k,
                    events'[queue'[j][2]] # None, events'[queue'[j][2]] = events'[queue'[k][2]]
             PROVE  queue'[j][2] <= queue'[k][2]
  BY DEF Sorted, Of
<1>1. queue \in Seq(Delivery) /\ Set(queue) \subseteq due
  BY Still
<1> DEFINE m == Len(queue)
<1>2. /\ m \in Nat /\ Len(f) \in Nat /\ DOMAIN queue = 1..m /\ DOMAIN f = 1..Len(f)
      /\ DOMAIN queue' = 1..(m + Len(f))
      /\ \A i \in 1..(m + Len(f)) : queue'[i] = IF i <= m THEN queue[i] ELSE f[i - m]
  BY <1>1, ConcatProperties, LenProperties
<1> HIDE DEF m
<1>3. ASSUME NEW i \in DOMAIN queue' PROVE queue'[i] \in due'
  <2>1. CASE i <= m
    BY <1>1, <1>2, <2>1 DEF Set
  <2>2. CASE ~(i <= m)
    BY SMTT(30), <1>2, <2>2 DEF Set
  <2> QED
    BY <2>1, <2>2
<1>4. CASE k <= m
  <2>1. j \in DOMAIN queue /\ k \in DOMAIN queue /\ queue'[j] = queue[j] /\ queue'[k] = queue[k]
    BY <1>2, <1>4
  <2>2. queue[j] \in due /\ queue[k] \in due
    BY <1>1, <2>1 DEF Set
  <2>3. events'[queue[j][2]] = events[queue[j][2]] /\ events'[queue[k][2]] = events[queue[k][2]]
    BY <2>2, OwnersStay
  <2>4. queue[j][2] <= queue[k][2]
    BY <2>1, <2>3 DEF Sorted, Of
  <2> QED
    BY <2>1, <2>4
<1>5. CASE ~(k <= m)
  <2>1. queue'[k] \in Set(f)
    BY <1>2, <1>5 DEF Set
  <2>2. /\ events'[queue'[k][2]] = o
        /\ o # None => \A b \in due' : events'[b[2]] = o => b[2] <= queue'[k][2]
    <3> DEFINE d == queue'[k]
    <3>1. d \in Set(f)
      BY <2>1
    <3>2. \A e \in Set(f) : /\ events'[e[2]] = o
                            /\ o # None => \A b \in due' : events'[b[2]] = o => b[2] <= e[2]
      BY DEF Last, Of
    <3> QED
      BY <3>1, <3>2
  <2> QED
    BY <1>3, <2>2
<1> QED
  BY <1>4, <1>5

\* Two publications that wait have different clients.
LEMMA OwnersDiffer ==
  ASSUME NEW x \in Waits', NEW y \in Waits', Owner(x) = Owner(y), Owner(x) # None
  PROVE  x = y
<1>1. x[1] = "put" /\ y[1] = "put" /\ x[2] = y[2]
  BY DEF Owner
<1>2. x \in {"put"} \X DOMAIN puts' /\ y \in {"put"} \X DOMAIN puts'
  BY <1>1 DEF Waits
<1> QED
  BY <1>1, <1>2

\* The events that wait for start(), or in it.
Early == Set(pending) \union Set(puts[Flush].then)

\* They are of no client, and stay so.
LEMMA EarlyStays ==
  ASSUME TypeInv, Events, Order, Grows
  PROVE  \A e \in Early : events'[e] = None
<1> SUFFICES ASSUME NEW e \in Early PROVE events'[e] = None
  OBVIOUS
<1>1. pending \in Seq(1..MaxEvents) /\ puts[Flush] \in Put /\ events \in Seq(Clients \union {None})
  BY Still
<1>2. puts[Flush].then \in Seq(1..MaxEvents)
  BY <1>1 DEF Put
<1>3. e \in 1..MaxEvents
  BY <1>1, <1>2, SetTyped DEF Early
<1>4. e <= Len(events)
  BY DEF Early, Events, Undecided
<1>5. e \in 1..Len(events)
  BY <1>1, <1>3, <1>4, LenProperties, BusAssumption
<1>6. events[e] = None
  BY DEF Order, Early
<1> QED
  BY <1>5, <1>6 DEF Grows

\* A step that decides on deliveries of no client.
LEMMA OrderUnowned ==
  ASSUME TypeInv, Events, Order, Grows, Sorted',
         \A d \in due' : d \in due \/ events'[d[2]] = None,
         \A d \in InTasks' : d \in InTasks \/ events'[d[2]] = None,
         \A y \in Waits' : RestKept(y),
         \A e \in Early' : e \in Early \/ events'[e] = None
  PROVE  Order'
<1>1. \A d \in due : events'[d[2]] = events[d[2]]
  BY OwnersStay
<1>2. /\ InTasks \subseteq due /\ \A x \in Waits : Set(RestAt(x)) \subseteq due
  BY SomewhereDecided
<1>3. \A d \in InTasks' : events'[d[2]] = None
  BY <1>1, <1>2 DEF Order, Of
<1>4. ASSUME NEW x \in Waits', NEW d \in Set(RestAt(x)')
      PROVE  /\ events'[d[2]] = Owner(x)
             /\ Owner(x) # None => \A b \in due' : events'[b[2]] = Owner(x) => b[2] <= d[2]
  <2>1. x \in Waits /\ d \in Set(RestAt(x))
    BY <1>4, NothingTyped DEF RestKept
  <2>2. Last(d, Owner(x)) /\ d \in due
    BY <1>2, <2>1 DEF Order
  <2> QED
    BY <1>1, <2>2 DEF Last, Of
<1>5. \A x \in Waits' : \A d \in Set(RestAt(x)') : Last(d, Owner(x))'
  BY <1>4 DEF Last, Of, Owner
<1>6. \A e \in Early' : events'[e] = None
  BY EarlyStays
<1> QED
  BY <1>3, <1>5, <1>6 DEF Order, Of, Set, Early

\* A step that decides nothing.
LEMMA OrderMoved ==
  ASSUME TypeInv, Events, Order, due' = due, Grows, Sorted', TasksKept,
         \A y \in Waits' : RestKept(y),
         \A e \in Early' : e \in Early \/ events'[e] = None
  PROVE  Order'
<1>1. InTasks' \subseteq InTasks
  BY DEF TasksKept, InTasks
<1> QED
  BY <1>1, OrderUnowned

\* A dispatch: by a client only of what it has decided on and then of its last
\* event, and otherwise of events of no client.
LEMMA OrderFed ==
  ASSUME TypeInv, Distinct(subs), Events, Order, NEW p \in Put, NEW x \in Waits', NEW q \in 0..MaxStarts,
         Separate(p, x), Feed(p), Grows, TasksKept,
         RestAt(x)' = Left(p, q).rest, \A y \in Waits' \ {x} : RestKept(y),
         \A d \in Set(p.rest) : Last(d, Owner(x)),
         \A e \in Set(p.then) :
           /\ events'[e] = Owner(x)
           /\ Owner(x) = None \/ (p.rest = <<>> /\ e = Len(events) + 1),
         \A e \in Early' : e \in Early \/ events'[e] = None
  PROVE  Order'
<1> DEFINE l == Left(p, q)
           f == Fitting(p)
           o == Owner(x)
           n == Len(events)
<1>1. /\ \A d \in Set(f) \union Set(l.rest) : d \in Set(p.rest) \/ d[2] \in Set(p.then)
      /\ f \in Seq(Delivery) /\ queue' = queue \o f
      /\ due' = due \union Set(f) \union Set(l.rest)
  BY FedFresh
<1>2. RestAt(x)' = l.rest /\ n \in Nat /\ n = Len(events) /\ o = Owner(x)
  BY Still, LenProperties
<1>3. \A e \in Set(p.then) : events'[e] = o /\ (o = None \/ (Set(p.rest) = {} /\ e = n + 1))
  BY NothingTyped
<1> HIDE DEF l, f, o, n
<1>4. \A d \in due : d[2] \in Nat /\ d[2] <= n /\ events'[d[2]] = events[d[2]]
  BY <1>2, OwnersStay
<1>5. InTasks \subseteq due /\ Set(p.rest) \subseteq due /\ \A y \in Waits : Set(RestAt(y)) \subseteq due
  BY SomewhereDecided DEF Separate
<1>6. \A b \in due' : b \in due \/ b[2] \in Set(p.then)
  BY <1>1, <1>5
<1>7. ASSUME NEW d \in Set(f) \union Set(l.rest)
      PROVE  /\ events'[d[2]] = o
             /\ o # None => \A b \in due' : events'[b[2]] = o => b[2] <= d[2]
  <2>1. CASE d \in Set(p.rest)
    <3>1. d \in due /\ events[d[2]] = o /\ (o # None => \A b \in due : events[b[2]] = o => b[2] <= d[2])
      BY <1>2, <1>5, <2>1 DEF Last, Of
    <3>2. o # None => due' \subseteq due
      BY <1>3, <1>6, <2>1
    <3> QED
      BY <1>4, <3>1, <3>2
  <2>2. CASE d[2] \in Set(p.then)
    <3>1. events'[d[2]] = o /\ (o # None => d[2] = n + 1)
      BY <1>3, <2>2
    <3>2. ASSUME o # None, NEW b \in due' PROVE b[2] <= n + 1
      <4>1. CASE b \in due
        BY <1>2, <1>4, <4>1
      <4>2. CASE b[2] \in Set(p.then)
        BY <1>2, <1>3, <3>2, <4>2
      <4> QED
        BY <1>6, <4>1, <4>2
    <3> QED
      BY <3>1, <3>2
  <2> QED
    BY <1>1, <2>1, <2>2
<1>8. \A d \in Set(f) \union Set(l.rest) : Last(d, o)'
  <2>1. o' = o
    BY <1>2 DEF o, Owner
  <2> QED
    BY <1>7, <2>1 DEF Last, Of
<1>9. Sorted'
  <2>1. due \subseteq due' /\ Set(f) \subseteq due' /\ \A d \in Set(f) : Last(d, o)'
    BY <1>1, <1>8
  <2> QED
    BY <1>1, <2>1, SortedFed DEF Order
<1>10. InTasks' \subseteq InTasks
  BY DEF TasksKept, InTasks
<1>11. \A d \in InTasks' : events'[d[2]] = None
  BY <1>4, <1>5, <1>10 DEF Order, Of
<1>12. ASSUME NEW y \in Waits', NEW d \in Set(RestAt(y)')
       PROVE  /\ events'[d[2]] = Owner(y)
              /\ Owner(y) # None => \A b \in due' : events'[b[2]] = Owner(y) => b[2] <= d[2]
  <2>1. CASE y = x
    BY <1>2, <1>7, <1>12, <2>1
  <2>2. CASE y # x
    <3>1. y \in Waits /\ d \in Set(RestAt(y))
      BY <1>12, <2>2, NothingTyped DEF RestKept
    <3>2. Last(d, Owner(y)) /\ d \in due
      BY <1>5, <3>1 DEF Order
    <3>3. events'[d[2]] = Owner(y)
      BY <1>4, <3>2 DEF Last, Of
    <3>4. ASSUME Owner(y) # None, NEW b \in due', events'[b[2]] = Owner(y) PROVE b \in due
      <4>1. ~(o = Owner(y))
        BY <1>2, <2>2, <3>4, OwnersDiffer
      <4> QED
        BY <1>3, <1>6, <3>4, <4>1
    <3>5. ASSUME Owner(y) # None, NEW b \in due', events'[b[2]] = Owner(y) PROVE b[2] <= d[2]
      <4>1. b \in due
        BY <3>4, <3>5
      <4> QED
        BY <1>4, <3>2, <3>5, <4>1 DEF Last, Of
    <3> QED
      BY <3>3, <3>5
  <2> QED
    BY <2>1, <2>2
<1>13. \A y \in Waits' : \A d \in Set(RestAt(y)') : Last(d, Owner(y))'
  BY <1>12 DEF Last, Of, Owner
<1>14. \A e \in Early' : events'[e] = None
  BY EarlyStays
<1> QED
  BY <1>9, <1>11, <1>13, <1>14 DEF Order, Of, Set, Early

\* A step without a publication that leaves the queue alone.
LEMMA OrderStays ==
  ASSUME TypeInv, Events, Order, UNCHANGED <<queue, events, due, puts>>, TasksKept,
         \A y \in Waits' : RestKept(y), pending' = pending \/ pending' = <<>>
  PROVE  Order'
<1>1. Grows
  BY DEF Grows
<1>2. Sorted'
  BY <1>1, SortedStays DEF Order
<1>3. \A e \in Early' : e \in Early \/ events'[e] = None
  <2>1. Set(pending') \subseteq Set(pending)
    BY NothingTyped
  <2> QED
    BY <2>1 DEF Early, Set
<1> QED
  BY <1>1, <1>2, <1>3, OrderMoved

\* A dispatch into the queue keeps all of it.
LEMMA OnceFed ==
  ASSUME TypeInv, OnceInv, NEW p \in Put, NEW x \in Waits', NEW q \in 0..MaxStarts,
         Separate(p, x), Feed(p), UNCHANGED <<subs, begun, stopped, stopping>>,
         TasksKept, InTasks \subseteq InTasks', Events', Order',
         RestAt(x)' = Left(p, q).rest,
         \A y \in Waits' \ {x} : RestKept(y),
         \A y \in Waits \ {x} : y \in Waits' /\ RestAt(y)' = RestAt(y),
         stopped \/ x \notin Waits \/ Set(RestAt(x)) \subseteq Set(p.rest),
         stopped \/ \A i \in DOMAIN workers' : ~workers'[i].cancelled,
         stopped \/ started' \/ puts'[Flush] = Nothing
  PROVE  OnceInv'
<1>1. Distinct(subs) /\ Apart /\ Kept
  BY DEF OnceInv
<1>2. Apart'
  BY <1>1, ApartFed
<1>3. ASSUME ~stopped PROVE due' \subseteq Placed'
  <2>1. due \subseteq Placed
    BY <1>1, <1>3 DEF Kept
  <2> QED
    BY <1>1, <1>3, <2>1, PlacedFed
<1>4. Kept'
  BY <1>1, <1>3 DEF Kept
<1>5. Distinct(subs)'
  BY <1>1 DEF Distinct
<1> QED
  BY <1>2, <1>4, <1>5 DEF OnceInv

\* A step that decides nothing and loses nothing.
LEMMA OnceMoved ==
  ASSUME TypeInv, OnceInv, Events', Apart', Order', UNCHANGED <<subs, due, stopped, stopping>>,
         begun \subseteq begun', Set(queue) \subseteq Set(queue') \union begun',
         InTasks \subseteq InTasks' \union begun',
         stopped \/ \A y \in Waits : y \in Waits' /\ RestAt(y)' = RestAt(y),
         stopped \/ \A i \in DOMAIN workers' : ~workers'[i].cancelled,
         stopped \/ started' \/ puts'[Flush] = Nothing
  PROVE  OnceInv'
<1>1. Distinct(subs) /\ Kept
  BY DEF OnceInv
<1>2. ASSUME ~stopped PROVE due' \subseteq Placed'
  BY <1>1, <1>2, PlacedMoves DEF Kept
<1>3. Kept'
  BY <1>1, <1>2 DEF Kept
<1>4. Distinct(subs)'
  BY <1>1 DEF Distinct
<1> QED
  BY <1>3, <1>4 DEF OnceInv

\* The deliveries of the next event: one for each handler, all of them new.
LEMMA FreshDeliveries ==
  ASSUME TypeInv, Distinct(subs), Events, Len(events) < MaxEvents,
         NEW ds, ds = Deliveries(Fresh.then)
  PROVE  /\ Distinct(ds) /\ DOMAIN ds = 1..Len(Tasks) /\ Len(Tasks) \in Nat
         /\ \A d \in Set(ds) : d[2] = Len(events) + 1 /\ d \notin due
<1>1. /\ Fresh \in Put /\ Fresh.rest = <<>> /\ Fresh.then \in Seq(1..MaxEvents)
      /\ ds \in Seq(Delivery) /\ Len(Tasks) = Len(ds)
  BY TasksTyped DEF TypeInv, Put
<1>2. DOMAIN ds = 1..Len(ds) /\ Len(ds) \in Nat
  BY <1>1, LenProperties
<1>3. /\ Separate(Fresh, 0) /\ Set(Fresh.rest) = {} /\ Set(Fresh.then) = {Len(events) + 1}
      /\ Len(Fresh.then) = 1
  BY FreshSeparate
<1>4. subs \in Seq(Handlers)
  BY DEF TypeInv, TypeOK
<1>5. /\ Len(Fresh.rest) = 0
      /\ Len(All(Fresh)) = 0 + Len(Fresh.then) * Len(subs)
      /\ \A j \in 1..(Len(Fresh.then) * Len(subs)) : All(Fresh)[0 + j] = ds[j]
  <2>1. Len(Fresh.rest) = 0
    BY <1>1, EmptySeq
  <2>2. /\ Len(All(Fresh)) = Len(Fresh.rest) + Len(Fresh.then) * Len(subs)
        /\ \A j \in 1..(Len(Fresh.then) * Len(subs)) :
             All(Fresh)[Len(Fresh.rest) + j] = Deliveries(Fresh.then)[j]
    BY <1>1, <1>4, AllTyped
  <2> DEFINE m == Len(Fresh.then) * Len(subs)
             r == Len(Fresh.rest)
             a == All(Fresh)
             es == Deliveries(Fresh.then)
  <2>3. r = 0 /\ es = ds /\ Len(a) = r + m /\ \A j \in 1..m : a[r + j] = es[j]
    BY <2>1, <2>2
  <2> HIDE DEF m, r, a, es
  <2>4. Len(a) = 0 + m /\ \A j \in 1..m : a[0 + j] = ds[j]
    BY <2>3
  <2> QED
    BY <2>1, <2>4 DEF m, r, a, es
<1>6. Len(ds) = Len(Fresh.then) * Len(subs) /\ Len(subs) \in Nat
  BY <1>1, <1>4, DeliveriesTyped, LenProperties
<1>7. /\ Len(All(Fresh)) = Len(ds) /\ \A j \in 1..Len(ds) : All(Fresh)[j] = ds[j]
  BY <1>2, <1>5, <1>6
<1>8. \A i, j \in 1..Len(All(Fresh)) : All(Fresh)[i] = All(Fresh)[j] => i = j
  BY <1>1, <1>3, <1>4, AllDistinct DEF Separate
<1>9. Distinct(ds)
  BY <1>2, <1>7, <1>8 DEF Distinct
<1>10. ASSUME NEW d \in Set(ds) PROVE d[2] = Len(events) + 1 /\ d \notin due
  <2>1. PICK j \in 1..Len(ds) : d = ds[j]
    BY <1>2, <1>10 DEF Set
  <2>2. j \in Nat \ {0} /\ j <= Len(Fresh.then) * Len(subs) /\ Len(Fresh.then) \in 0..Len(Fresh.then)
    BY <1>2, <1>3, <1>6
  <2>3. \E e \in 0..(Len(Fresh.then) - 1), r \in 0..(Len(subs) - 1) :
          /\ j = Len(subs) * e + r + 1
          /\ Deliveries(Fresh.then)[j] = <<subs[r + 1], Fresh.then[e + 1]>>
    BY <1>1, <1>4, <2>2, DeliveryOf
  <2>4. PICK e \in 0..(Len(Fresh.then) - 1), r \in 0..(Len(subs) - 1) :
          ds[j] = <<subs[r + 1], Fresh.then[e + 1]>>
    BY <2>3
  <2>5. e + 1 = 1 /\ 1 \in DOMAIN Fresh.then
    BY <1>1, <1>3, LenProperties
  <2>6. Fresh.then[e + 1] \in Set(Fresh.then)
    BY <2>5 DEF Set
  <2>7. d[2] = Len(events) + 1
    BY <1>3, <2>1, <2>4, <2>6
  <2> QED
    BY <1>3, <2>7 DEF Separate
<1> QED
  BY <1>1, <1>2, <1>9, <1>10

\* A dispatch to tasks: workers are those in s and the tasks.
LEMMA OnceTasks ==
  ASSUME TypeInv, OnceInv, Len(events) < MaxEvents, Len(events') = Len(events) + 1,
         NEW s \in Seq(WorkerRecord), Added(s, Tasks),
         \A i \in DOMAIN workers :
           /\ s[i].put = workers[i].put
           /\ s[i].pc = "new" <=> workers[i].pc = "new"
           /\ s[i].pc = "new" => s[i].item = workers[i].item
           /\ stopped \/ ~s[i].cancelled,
         due' = due \union Set(Deliveries(Fresh.then)),
         UNCHANGED <<pending, queue, puts, begun>>, BusFrame,
         Grows, events'[Len(events) + 1] = None
  PROVE  OnceInv'
<1> DEFINE ds == Deliveries(Fresh.then)
           m == Len(workers)
<1>1. Distinct(subs) /\ Events /\ Apart /\ Kept
  BY DEF OnceInv
<1>2. /\ \A j \in 1..Len(Tasks) :
           /\ Tasks[j].pc = "new" /\ Tasks[j].item = ds[j] /\ Tasks[j].put = Nothing
           /\ Tasks[j].cancelled = FALSE /\ ds[j] \in Set(ds)
  BY TasksTyped DEF TypeInv
<1>3. /\ Distinct(ds) /\ DOMAIN ds = 1..Len(Tasks) /\ Len(Tasks) \in Nat
      /\ \A d \in Set(ds) : d[2] = Len(events) + 1 /\ d \notin due
  BY <1>1, FreshDeliveries
<1>4. /\ DOMAIN workers \subseteq DOMAIN workers'
      /\ \A i \in DOMAIN workers : workers'[i] = s[i]
      /\ \A j \in 1..Len(Tasks) : m + j \in DOMAIN workers' \ DOMAIN workers
      /\ \A i \in DOMAIN workers' \ DOMAIN workers :
           i - m \in 1..Len(Tasks) /\ workers'[i] = Tasks[i - m]
  BY DEF Added
<1>5. m \in Nat /\ workers' \in Seq(WorkerRecord) /\ DOMAIN workers' \subseteq Nat
  <2>1. m \in Nat
    BY Parts DEF TypeInv
  <2>2. workers' \in Seq(WorkerRecord)
    BY DEF Added
  <2>3. DOMAIN workers' = 1..Len(workers')
    BY <2>2, LenProperties
  <2> QED
    BY <2>1, <2>2, <2>3
<1> HIDE DEF ds, m
<1>6. \A i \in DOMAIN workers' \ DOMAIN workers :
        /\ workers'[i].pc = "new" /\ workers'[i].item = ds[i - m] /\ i - m \in DOMAIN ds
        /\ workers'[i].item \in Set(ds) /\ workers'[i].put = Nothing /\ ~workers'[i].cancelled
  BY <1>2, <1>3, <1>4
<1>7. \A i \in DOMAIN workers :
        /\ workers'[i].put = workers[i].put
        /\ i \in New' <=> i \in New
        /\ i \in New => workers'[i].item = workers[i].item
        /\ stopped \/ ~workers'[i].cancelled
  BY <1>4 DEF New
<1>8. InTasks \subseteq InTasks' /\ InTasks' \subseteq InTasks \union Set(ds)
  <2>1. ASSUME NEW i \in New PROVE workers[i].item \in InTasks'
    <3>1. i \in New' /\ workers'[i].item = workers[i].item
      BY <1>7, <2>1 DEF New
    <3> QED
      BY <3>1 DEF InTasks
  <2>2. ASSUME NEW i \in New' PROVE workers'[i].item \in InTasks \union Set(ds)
    <3>1. CASE i \in DOMAIN workers
      BY <1>7, <2>2, <3>1 DEF InTasks
    <3>2. CASE i \notin DOMAIN workers
      BY <1>6, <2>2, <3>2 DEF New
    <3> QED
      BY <3>1, <3>2
  <2> QED
    BY <2>1, <2>2 DEF InTasks
<1>9. Set(ds) \subseteq InTasks'
  <2>1. SUFFICES ASSUME NEW j \in 1..Len(Tasks) PROVE ds[j] \in InTasks'
    BY <1>3 DEF Set
  <2>2. m + j \in DOMAIN workers' \ DOMAIN workers /\ (m + j) - m = j
    BY <1>3, <1>4, <1>5
  <2>3. workers'[m + j].pc = "new" /\ workers'[m + j].item = ds[j]
    BY <1>6, <2>2
  <2>4. m + j \in New'
    BY <2>2, <2>3 DEF New
  <2> QED
    BY <2>3, <2>4 DEF InTasks
<1>10. ASSUME NEW i \in New', NEW j \in New', workers'[i].item = workers'[j].item
       PROVE  i = j
  <2>1. \A k \in New' : /\ k \in DOMAIN workers => k \in New /\ workers'[k].item \in due
                        /\ k \notin DOMAIN workers => workers'[k].item \notin due
    <3>1. TAKE k \in New'
    <3>2. k \in DOMAIN workers => k \in New /\ workers'[k].item \in InTasks
      BY <1>7 DEF InTasks
    <3>3. k \notin DOMAIN workers => workers'[k].item \notin due
      BY <1>3, <1>6 DEF New
    <3> QED
      BY <3>2, <3>3, SomewhereDecided
  <2>2. CASE i \in DOMAIN workers /\ j \in DOMAIN workers
    BY <1>1, <1>7, <1>10, <2>1, <2>2 DEF Apart
  <2>3. CASE i \notin DOMAIN workers /\ j \notin DOMAIN workers
    <3>1. i \in DOMAIN workers' /\ j \in DOMAIN workers'
      BY DEF New
    <3>2. i - m = j - m
      BY <1>3, <1>6, <1>10, <2>3, <3>1 DEF Distinct
    <3> QED
      BY <1>5, <3>1, <3>2
  <2> QED
    BY <1>10, <2>1, <2>2, <2>3
<1>11. DOMAIN puts' = DOMAIN puts
  OBVIOUS
<1>12. \A y \in Waits' : RestKept(y)
  <2>1. \A i \in DOMAIN workers' :
          \/ i \in DOMAIN workers /\ workers'[i].put.rest = workers[i].put.rest
          \/ workers'[i].put.rest = <<>>
    BY <1>6, <1>7, NothingTyped
  <2>2. NoOne \notin Waits'
    BY DEF Waits, NoOne
  <2>3. \A y \in Waits' \ {NoOne} : RestKept(y)
    BY <2>1, RestsKept
  <2> QED
    BY <2>2, <2>3
<1>13. \A y \in Waits : y \in Waits' /\ RestAt(y)' = RestAt(y)
  <2>1. \A i \in DOMAIN workers :
          i \in DOMAIN workers' /\ workers'[i].put.rest = workers[i].put.rest
    BY <1>4, <1>7
  <2>2. NoOne \notin Waits
    BY DEF Waits, NoOne
  <2>3. \A y \in Waits \ {NoOne} : y \in Waits' /\ RestAt(y)' = RestAt(y)
    BY <2>1, RestsStay
  <2> QED
    BY <2>2, <2>3
<1>14. Apart'
  <2>1. \A y \in Waits' :
          /\ Distinct(RestAt(y)')
          /\ (y \in Waits /\ Set(RestAt(y)') = Set(RestAt(y))) \/ Set(RestAt(y)') = {}
    BY <1>1, <1>12, NothingTyped DEF RestKept, Apart, Distinct
  <2>2. /\ Set(ds) \intersect begun = {} /\ Set(ds) \intersect Set(queue) = {}
        /\ \A y \in Waits : Set(RestAt(y)) \intersect Set(ds) = {}
    BY <1>3, SomewhereDecided
  <2>3. InTasks' \intersect (begun' \union Set(queue')) = {}
    BY <1>1, <1>8, <2>2 DEF Apart
  <2>4. \A y \in Waits' : Set(RestAt(y)') \intersect (begun' \union Set(queue') \union InTasks') = {}
    BY <1>1, <1>8, <2>1, <2>2 DEF Apart
  <2>5. \A y, z \in Waits' : y # z => Set(RestAt(y)') \intersect Set(RestAt(z)') = {}
    BY <1>1, <2>1 DEF Apart
  <2>6. Distinct(queue') /\ Set(queue') \intersect begun' = {}
    BY <1>1 DEF Apart
  <2> QED
    BY <1>10, <2>1, <2>3, <2>4, <2>5, <2>6 DEF Apart, Distinct, Set
<1>15. Events'
  <2>1. \A d \in due' : d \in due \/ d[2] = Len(events) + 1
    BY <1>3 DEF ds
  <2>2. \A i \in DOMAIN workers' : workers'[i].put.then = <<>>
    BY <1>1, <1>6, <1>7, NothingTyped DEF Events
  <2>3. \A c \in Clients : puts'[c].then = <<>>
    BY <1>1 DEF Events
  <2> QED
    BY <1>1, <2>1, <2>2, <2>3, EventsDispatched
<1>16. Kept'
  <2>1. UNCHANGED <<stopped, stopping, started, puts>>
    BY DEF BusFrame
  <2>2. ASSUME ~stopped PROVE due' \subseteq Placed'
    <3>1. due \subseteq Placed'
      BY <1>1, <1>8, <1>13, <2>2, PlacedMoves DEF Kept
    <3>2. Set(ds) \subseteq Placed'
      BY <1>9 DEF Placed
    <3> QED
      BY <3>1, <3>2 DEF ds
  <2>3. stopped \/ \A i \in DOMAIN workers' : ~workers'[i].cancelled
    BY <1>6, <1>7
  <2> QED
    BY <1>1, <2>1, <2>2, <2>3 DEF Kept
<1>17. Distinct(subs)'
  BY <1>1 DEF Distinct, BusFrame
<1>18. Order'
  <2>1. Order /\ Sorted
    BY DEF OnceInv, Order
  <2>2. Sorted'
    BY <1>1, <2>1, SortedStays
  <2>3. \A d \in Set(ds) : events'[d[2]] = None
    BY <1>3
  <2>4. \A d \in due' : d \in due \/ events'[d[2]] = None
    BY <2>3 DEF ds
  <2>5. \A d \in InTasks' : d \in InTasks \/ events'[d[2]] = None
    BY <1>8, <2>3
  <2>6. \A e \in Early' : e \in Early \/ events'[e] = None
    BY DEF Early, Set
  <2> QED
    BY <1>1, <1>12, <2>1, <2>2, <2>4, <2>5, <2>6, OrderUnowned
<1> QED
  BY <1>14, <1>15, <1>16, <1>17, <1>18 DEF OnceInv

\* Publications that wait go on waiting.
LEMMA SameRests ==
  ASSUME TypeInv, puts' = puts, DOMAIN workers' = DOMAIN workers,
         \A i \in DOMAIN workers : workers'[i].put = workers[i].put
  PROVE  /\ \A y \in Waits' : RestKept(y)
         /\ \A y \in Waits : y \in Waits' /\ RestAt(y)' = RestAt(y)
<1>1. NoOne \notin Waits /\ NoOne \notin Waits'
  BY DEF Waits, NoOne
<1>2. \A y \in Waits' \ {NoOne} : RestKept(y)
  BY RestsKept
<1>3. \A y \in Waits \ {NoOne} : y \in Waits' /\ RestAt(y)' = RestAt(y)
  BY RestsStay
<1> QED
  BY <1>1, <1>2, <1>3

\* An event is kept until start().
LEMMA OnceBuffered ==
  ASSUME TypeInv, OnceInv, Len(events) < MaxEvents, Len(events') = Len(events) + 1, Buffered,
         UNCHANGED <<queue, puts, due, begun>>, BusFrame,
         TasksKept, InTasks \subseteq InTasks', DOMAIN workers' = DOMAIN workers,
         \A i \in DOMAIN workers :
           workers'[i].put = workers[i].put /\ (stopped \/ ~workers'[i].cancelled),
         Grows, events'[Len(events) + 1] = None
  PROVE  OnceInv'
<1>1. Events /\ Apart /\ Kept /\ Distinct(subs)
  BY DEF OnceInv
<1>2. \A i \in DOMAIN workers' : workers'[i].put.then = <<>>
  BY <1>1 DEF Events
<1>3. Events'
  BY <1>1, <1>2, EventsBuffered
<1>4. /\ \A y \in Waits' : RestKept(y)
      /\ \A y \in Waits : y \in Waits' /\ RestAt(y)' = RestAt(y)
  BY SameRests
<1>5. Distinct(queue') /\ Set(queue') = Set(queue)
  BY <1>1 DEF Apart
<1>6. Apart'
  BY <1>1, <1>4, <1>5, ApartShrinks
<1>7. UNCHANGED <<subs, stopped, stopping, started>>
  BY DEF BusFrame
<1>8. stopped \/ started' \/ puts'[Flush] = Nothing
  BY <1>1, <1>7 DEF Kept
<1>9. Order'
  <2>1. Order /\ Sorted
    BY DEF OnceInv, Order
  <2>2. Sorted'
    BY <1>1, <2>1, SortedStays
  <2>3. Set(pending') = Set(pending) \union {Len(events) + 1}
    <3>1. pending \in Seq(1..MaxEvents) /\ Len(events) + 1 \in 1..MaxEvents
      BY Still, TasksTyped DEF TypeInv
    <3> DEFINE new == <<Len(events) + 1>>
               E == 1..MaxEvents
    <3>2. pending' = Append(pending, Len(events) + 1)
      BY DEF Buffered
    <3>3. new \in Seq(E) /\ Set(new) = {Len(events) + 1}
      BY <3>1 DEF Set
    <3>4. pending' = pending \o new
      BY <3>1, <3>2, AppendIsConcat
    <3> HIDE DEF new, E
    <3>5. pending \in Seq(E)
      BY <3>1 DEF E
    <3> QED
      BY <3>3, <3>4, <3>5, SetConcat
  <2>4. \A e \in Early' : e \in Early \/ events'[e] = None
    BY <2>3 DEF Early, Set
  <2> QED
    BY <1>1, <1>4, <2>1, <2>2, <2>4, OrderMoved
<1> QED
  BY <1>3, <1>4, <1>5, <1>6, <1>7, <1>8, <1>9, OnceMoved

\* What a dispatch of the next event leaves is deliveries of that event.
LEMMA FreshLeft ==
  ASSUME TypeInv, OnceInv, Len(events) < MaxEvents, Feed(Fresh)
  PROVE  /\ Left(Fresh, qid).then = <<>>
         /\ \A d \in due' : d \in due \/ d[2] = Len(events) + 1
<1>1. /\ Separate(Fresh, NoOne) /\ Fresh \in Put
      /\ Fresh.rest = <<>> /\ Len(Fresh.then) = 1 /\ Set(Fresh.rest) = {}
      /\ Set(Fresh.then) = {Len(events) + 1}
  BY FreshSeparate DEF OnceInv
<1>2. qid \in 0..MaxStarts /\ Distinct(subs)
  BY Still DEF OnceInv
<1> DEFINE l == Left(Fresh, qid)
           f == Fitting(Fresh)
<1>3. /\ \A d \in Set(f) \union Set(l.rest) : d \in Set(Fresh.rest) \/ d[2] \in Set(Fresh.then)
      /\ Fresh.then = <<>> \/ (Fresh.rest = <<>> /\ Len(Fresh.then) = 1) => l.then = <<>>
      /\ due' = due \union Set(f) \union Set(l.rest)
  BY <1>1, <1>2, FedFresh
<1> HIDE DEF f
<1> QED
  BY <1>1, <1>3

\* The next event is put into the queue; x waits with what does not fit.
LEMMA OnceFresh ==
  ASSUME TypeInv, OnceInv, Len(events) < MaxEvents, Len(events') = Len(events) + 1,
         started, Feed(Fresh), UNCHANGED <<pending, begun>>, BusFrame,
         NEW x \in Waits', x \in Waits => RestAt(x) = <<>>,
         RestAt(x)' = Left(Fresh, qid).rest,
         TasksKept, InTasks \subseteq InTasks',
         \A y \in Waits' \ {x} : RestKept(y),
         \A y \in Waits \ {x} : y \in Waits' /\ RestAt(y)' = RestAt(y),
         puts'[Flush].then = puts[Flush].then,
         \A c \in Clients : puts'[c].then = <<>>,
         \A i \in DOMAIN workers' :
           workers'[i].put.then = <<>> /\ (stopped \/ ~workers'[i].cancelled),
         Grows, events'[Len(events) + 1] = Owner(x)
  PROVE  OnceInv'
<1>1. Separate(Fresh, x) /\ Fresh \in Put
  BY FreshSeparate DEF OnceInv
<1>2. \A d \in due' : d \in due \/ d[2] = Len(events) + 1
  BY FreshLeft
<1>3. Events'
  BY <1>2, EventsDispatched DEF OnceInv
<1>4. x \in Waits => Set(RestAt(x)) \subseteq Set(Fresh.rest)
  BY NothingTyped
<1>5. UNCHANGED <<subs, stopped, stopping, started>> /\ qid \in 0..MaxStarts
  BY Still DEF BusFrame
<1>6. Order'
  <2>1. Set(Fresh.rest) = {} /\ Fresh.rest = <<>> /\ Set(Fresh.then) = {Len(events) + 1}
    BY FreshSeparate DEF OnceInv
  <2>2. \A e \in Early' : e \in Early \/ events'[e] = None
    BY DEF Early, Set
  <2> QED
    BY <1>1, <1>5, <2>1, <2>2, OrderFed DEF OnceInv
<1> QED
  BY <1>1, <1>3, <1>4, <1>5, <1>6, OnceFed

\* publish() decides on each delivery of the event once.
LEMMA OncePublish ==
  ASSUME TypeInv, OnceInv, NEW c \in Clients, Publish(c)
  PROVE  OnceInv'
<1>1. /\ puts[c] = Nothing /\ Numbered(c) /\ UNCHANGED begun /\ BusFrame
      /\ Len(events) < MaxEvents /\ Len(events') = Len(events) + 1
  BY NumberedTyped DEF Publish, TypeInv
<1>2. Grows /\ events'[Len(events) + 1] = IF started /\ qid # 0 THEN c ELSE None
  BY <1>1, NumberedGrows
<1>3. /\ c \in DOMAIN puts /\ Flush \in DOMAIN puts /\ c # Flush
      /\ puts \in [Clients \union {Flush} -> Put]
  BY Still, FlushAssumption
<1>4. Events /\ Kept
  BY DEF OnceInv
<1>5. CASE ~started /\ Buffered /\ UNCHANGED <<queue, workers, puts, due>>
  <2>1. \A i \in DOMAIN workers : stopped \/ ~workers'[i].cancelled
    BY <1>4, <1>5 DEF Kept
  <2> QED
    BY <1>2, <1>1, <1>5, <2>1, SameTasks, OnceBuffered
<1>6. CASE /\ started /\ qid # 0
           /\ Feed(Fresh) /\ puts' = [puts EXCEPT ![c] = Left(Fresh, qid)]
           /\ UNCHANGED <<pending, workers>>
  <2> DEFINE l == Left(Fresh, qid)
             x == <<"put", c>>
  <2>1. l.then = <<>>
    BY <1>1, <1>6, FreshLeft
  <2>2. puts' = [puts EXCEPT ![c] = l]
    BY <1>6
  <2> HIDE DEF l
  <2>3. /\ DOMAIN puts' = DOMAIN puts /\ puts'[c] = l
        /\ \A b \in DOMAIN puts \ {c} : puts'[b] = puts[b]
    BY <1>3, <2>2
  <2>4. x \in Waits' /\ RestAt(x) = <<>> /\ RestAt(x)' = l.rest
    BY <1>1, <1>3, <2>3, NothingTyped DEF Waits, RestAt
  <2>5. \A b \in DOMAIN puts' : b \in DOMAIN puts /\ (puts'[b].rest = puts[b].rest \/ x = <<"put", b>>)
    BY <2>3
  <2>6. \A y \in Waits' \ {x} : RestKept(y)
    BY <1>6, <2>5, RestsKept
  <2>7. \A y \in Waits \ {x} : y \in Waits' /\ RestAt(y)' = RestAt(y)
    BY <1>6, <2>3, <2>5, RestsStay
  <2>8. puts'[Flush].then = puts[Flush].then /\ \A b \in Clients : puts'[b].then = <<>>
    BY <1>3, <1>4, <2>1, <2>3 DEF Events
  <2>9. \A i \in DOMAIN workers' : workers'[i].put.then = <<>> /\ (stopped \/ ~workers'[i].cancelled)
    BY <1>4, <1>6 DEF Events, Kept
  <2>10. RestAt(x)' = Left(Fresh, qid).rest
    BY <2>4 DEF l
  <2>11. events'[Len(events) + 1] = Owner(x)
    BY <1>2, <1>6 DEF Owner
  <2> HIDE DEF x
  <2> QED
    BY <1>2, <2>11, <1>1, <1>6, <2>4, <2>6, <2>7, <2>8, <2>9, <2>10, SameTasks, OnceFresh
<1>7. CASE /\ started /\ qid = 0 /\ workers' = workers \o Tasks
           /\ due' = due \union Set(Deliveries(Fresh.then))
           /\ UNCHANGED <<pending, queue, puts>>
  <2>1. Tasks \in Seq(WorkerRecord) /\ workers \in Seq(WorkerRecord)
    BY <1>1, TasksTyped, Parts DEF TypeInv
  <2>2. Added(workers, Tasks)
    BY <1>7, <2>1, Appended DEF TypeInv
  <2>3. \A i \in DOMAIN workers : stopped \/ ~workers[i].cancelled
    BY <1>4 DEF Kept
  <2> QED
    BY <1>2, <1>1, <1>7, <2>1, <2>2, <2>3, OnceTasks
<1> QED
  BY <1>5, <1>6, <1>7 DEF Publish

\* A publication that waits is separate from the others.
LEMMA WaitsSeparate ==
  ASSUME TypeInv, Events, Apart, NEW x \in Waits, NEW p \in Put, p.rest = RestAt(x),
         p.then = <<>> \/ p = puts[Flush]
  PROVE  Separate(p, x)
<1>1. Distinct(p.then) /\ \A d \in due : d[2] \notin Set(p.then)
  <2>1. CASE p.then = <<>>
    BY <2>1, NothingTyped DEF Distinct
  <2>2. CASE p = puts[Flush]
    BY <2>2 DEF Events, Undecided
  <2> QED
    BY <2>1, <2>2
<1>2. Set(p.rest) \subseteq due /\ Distinct(p.rest)
  BY SomewhereDecided DEF Apart
<1>3. /\ Set(p.rest) \intersect (begun \union Set(queue) \union InTasks) = {}
      /\ \A y \in Waits \ {x} : Set(p.rest) \intersect Set(RestAt(y)) = {}
  BY DEF Apart
<1> QED
  BY <1>1, <1>2, <1>3 DEF Separate

\* A handler's put() that goes on only moves what was decided.
LEMMA OnceRelayResumes ==
  ASSUME TypeInv, OnceInv, NEW i \in DOMAIN workers, RelayResumes(i)
  PROVE  OnceInv'
<1> DEFINE p == workers[i].put
           l == Left(p, qid)
           x == <<"relay", i>>
<1>1. /\ p \in Put /\ ~workers[i].cancelled /\ Feed(p)
      /\ Goes(i, workers[i].pc, workers[i].item, l, workers[i].q, FALSE)
      /\ UNCHANGED <<pending, puts, events, begun>> /\ BusFrame
  BY RelayResumesEffect DEF TypeInv, RelayResumes
<1>2. Events /\ Apart /\ Kept /\ Distinct(subs)
  BY DEF OnceInv
<1>3. x \in Waits /\ RestAt(x) = p.rest /\ p.then = <<>>
  BY <1>2 DEF Waits, RestAt, Events
<1>4. Separate(p, x)
  BY <1>1, <1>2, <1>3, WaitsSeparate
<1>5. qid \in 0..MaxStarts
  BY Still
<1>6. l.then = <<>> /\ \A d \in due' : d \in due \/ d \in Set(Fitting(p)) \union Set(l.rest)
  BY <1>1, <1>2, <1>3, <1>4, <1>5, FedFresh
<1>7. \A d \in Set(Fitting(p)) \union Set(l.rest) : d \in Set(p.rest) \/ d[2] \in Set(p.then)
  BY <1>1, <1>2, <1>4, <1>5, FedFresh
<1>8. Set(p.then) = {} /\ Set(p.rest) \subseteq due
  BY <1>3, <1>4, NothingTyped DEF Separate
<1>9. due' \subseteq due
  BY <1>6, <1>7, <1>8
<1>10. due \subseteq due'
  BY <1>1 DEF Feed
<1> HIDE DEF l, p
<1>11. /\ TasksKept /\ DOMAIN workers' = DOMAIN workers /\ InTasks \subseteq InTasks'
       /\ workers'[i].put = l /\ ~workers'[i].cancelled
       /\ \A j \in DOMAIN workers \ {i} : workers'[j] = workers[j]
  BY <1>1, GoesTasks
<1>12. x \in Waits' /\ RestAt(x)' = l.rest
  BY <1>11 DEF Waits, RestAt
<1>13. \A y \in Waits' \ {x} : RestKept(y)
  BY <1>1, <1>11, RestsKept
<1>14. \A y \in Waits \ {x} : y \in Waits' /\ RestAt(y)' = RestAt(y)
  BY <1>1, <1>11, RestsStay
<1>15. \A j \in DOMAIN workers' : workers'[j].put.then = <<>> /\ (stopped \/ ~workers'[j].cancelled)
  BY <1>2, <1>6, <1>11 DEF Events, Kept
<1>16. Events'
  BY <1>1, <1>2, <1>9, <1>10, <1>15 DEF Events, Undecided, Distinct, Set
<1>17. UNCHANGED <<subs, stopped, stopping, started>>
  BY <1>1 DEF BusFrame
<1>18. stopped \/ started' \/ puts'[Flush] = Nothing
  BY <1>1, <1>2, <1>17 DEF Kept
<1>19. RestAt(x)' = Left(p, qid).rest /\ Set(RestAt(x)) \subseteq Set(p.rest)
  BY <1>3, <1>12 DEF l
<1>20. Order'
  <2>1. Order /\ Grows /\ \A d \in Set(p.rest) : Last(d, Owner(x))
    BY <1>1, <1>3 DEF OnceInv, Order, Grows
  <2>2. \A e \in Early' : e \in Early \/ events'[e] = None
    BY <1>1 DEF Early, Set
  <2> HIDE DEF x
  <2> QED
    BY <1>1, <1>2, <1>4, <1>5, <1>8, <1>11, <1>12, <1>13, <1>19, <2>1, <2>2, OrderFed
<1> HIDE DEF x
<1> QED
  BY <1>20, <1>1, <1>4, <1>5, <1>11, <1>12, <1>13, <1>14, <1>15, <1>16, <1>17, <1>18, <1>19, OnceFed

\* start() goes on with the events that were kept for it.
LEMMA EventsFlushed ==
  ASSUME TypeInv, OnceInv, NEW p \in Put, NEW x, NEW q \in 0..MaxStarts, Separate(p, x), Feed(p),
         events' = events, puts'[Flush].then = Left(p, q).then,
         \A c \in Clients : puts'[c].then = <<>>,
         \A i \in DOMAIN workers' : workers'[i].put.then = <<>>,
         \A e \in Set(p.then) : e <= Len(events),
         \/ pending' = <<>>
         \/ pending' = pending /\ Set(pending) \intersect Set(p.then) = {}
  PROVE  Events'
<1> DEFINE l == Left(p, q)
           f == Fitting(p)
           n == Len(events)
<1>1. /\ \A d \in Set(f) \union Set(l.rest) : d \in Set(p.rest) \/ d[2] \in Set(p.then)
      /\ Distinct(l.then) /\ Set(l.then) \subseteq Set(p.then)
      /\ \A d \in due' : d[2] \notin Set(l.then)
      /\ due' = due \union Set(f) \union Set(l.rest)
  BY FedFresh DEF OnceInv
<1>2. puts'[Flush].then = l.then /\ Len(events') = n /\ \A e \in Set(p.then) : e <= n
  OBVIOUS
<1>3. /\ \A d \in due : d[2] <= n
      /\ Distinct(pending) /\ \A e \in Set(pending) : e <= n /\ \A d \in due : d[2] # e
  BY DEF OnceInv, Events, Undecided
<1> HIDE DEF l, f, n
<1>4. \A d \in due' : d \in due \/ d[2] \in Set(p.then)
  BY <1>1 DEF Separate
<1>5. \A d \in due' : d[2] <= n
  BY <1>2, <1>3, <1>4
<1>6. \A e \in Set(l.then) : e <= n /\ \A d \in due' : d[2] # e
  BY <1>1, <1>2
<1>7. Undecided(puts[Flush].then)'
  <2> DEFINE t == puts'[Flush].then
  <2>1. t = l.then
    BY <1>2
  <2> HIDE DEF t
  <2>2. Distinct(t) /\ \A e \in Set(t) : e <= Len(events') /\ \A d \in due' : d[2] # e
    BY <1>1, <1>2, <1>6, <2>1
  <2> QED
    BY <2>2 DEF t, Undecided, Distinct, Set
<1>8. /\ Distinct(pending')
      /\ \A e \in Set(pending') : e <= n /\ \A d \in due' : d[2] # e
      /\ Set(pending') \intersect Set(l.then) = {}
  <2>1. CASE pending' = <<>>
    BY <2>1, NothingTyped DEF Distinct
  <2>2. CASE pending' = pending /\ Set(pending) \intersect Set(p.then) = {}
    BY <1>1, <1>3, <1>4, <2>2
  <2> QED
    BY <2>1, <2>2
<1>9. Undecided(pending)'
  BY <1>2, <1>8 DEF Undecided, Distinct, Set
<1>10. (Set(pending) \intersect Set(puts[Flush].then) = {})'
  <2>1. Set(pending') \intersect Set(puts'[Flush].then) = {}
    BY <1>2, <1>8
  <2> QED
    BY <2>1 DEF Set
<1> QED
  BY <1>2, <1>5, <1>7, <1>9, <1>10 DEF Events

\* put() finds room for what c, or start(), waits with.
LEMMA OncePutResumes ==
  ASSUME TypeInv, OnceInv, NEW c \in Clients \union {Flush}, PutResumes(c)
  PROVE  OnceInv'
<1> DEFINE p == puts[c]
           l == Left(p, qid)
           x == <<"put", c>>
<1>1. /\ p \in Put /\ p # Nothing /\ Feed(p) /\ qid \in 0..MaxStarts
      /\ puts \in [Clients \union {Flush} -> Put]
      /\ UNCHANGED <<pending, workers, events, begun>> /\ BusFrame
  BY Still DEF PutResumes
<1>2. Events /\ Apart /\ Kept /\ Distinct(subs)
  BY DEF OnceInv
<1>3. x \in Waits /\ RestAt(x) = p.rest /\ (p.then = <<>> \/ p = puts[Flush])
  BY <1>1, <1>2 DEF Waits, RestAt, Events
<1>4. Separate(p, x)
  BY <1>1, <1>2, <1>3, WaitsSeparate
<1>5. puts' = [puts EXCEPT ![c] = l]
  BY DEF PutResumes
<1>6. p.then = <<>> => l.then = <<>>
  BY <1>1, <1>2, <1>4, FedFresh
<1>7. c = Flush => p = puts[Flush]
  OBVIOUS
<1>8. c # Flush => p.then = <<>>
  BY <1>2 DEF Events
<1> HIDE DEF l, p
<1>9. /\ DOMAIN puts' = DOMAIN puts /\ puts'[c] = l
      /\ \A b \in DOMAIN puts \ {c} : puts'[b] = puts[b]
      /\ DOMAIN puts = Clients \union {Flush}
  BY <1>1, <1>5
<1>10. x \in Waits' /\ RestAt(x)' = l.rest
  BY <1>9 DEF Waits, RestAt
<1>11. \A b \in DOMAIN puts' : b \in DOMAIN puts /\ (puts'[b].rest = puts[b].rest \/ x = <<"put", b>>)
  BY <1>9
<1>12. \A y \in Waits' \ {x} : RestKept(y)
  BY <1>1, <1>11, RestsKept
<1>13. \A y \in Waits \ {x} : y \in Waits' /\ RestAt(y)' = RestAt(y)
  BY <1>1, <1>9, <1>11, RestsStay
<1>14. \A j \in DOMAIN workers' : workers'[j].put.then = <<>> /\ (stopped \/ ~workers'[j].cancelled)
  BY <1>1, <1>2 DEF Events, Kept
<1>15. \A b \in Clients : puts'[b].then = <<>>
  BY <1>2, <1>6, <1>8, <1>9, FlushAssumption DEF Events
<1>16. Events'
  <2>1. CASE c = Flush
    <3>1. puts'[Flush].then = Left(p, qid).then
      BY <1>9, <2>1 DEF l
    <3>2. (\A e \in Set(p.then) : e <= Len(events)) /\ Set(pending) \intersect Set(p.then) = {}
      BY <1>2, <1>7, <2>1 DEF Events, Undecided
    <3> HIDE DEF x
    <3> QED
      BY <1>1, <1>4, <1>14, <1>15, <3>1, <3>2, EventsFlushed
  <2>2. CASE c # Flush
    <3>1. puts'[Flush] = puts[Flush]
      BY <1>9, <2>2
    <3>2. /\ \A d \in due' : d \in due \/ d \in Set(Fitting(p)) \union Set(l.rest)
          /\ \A d \in Set(Fitting(p)) \union Set(l.rest) : d \in Set(p.rest) \/ d[2] \in Set(p.then)
      BY <1>1, <1>2, <1>4, FedFresh DEF l
    <3>3. Set(p.then) = {} /\ Set(p.rest) \subseteq due
      BY <1>4, <1>8, <2>2, NothingTyped DEF Separate
    <3>4. due' = due
      BY <1>1, <3>2, <3>3 DEF Feed
    <3> QED
      BY <1>1, <1>2, <1>14, <1>15, <3>1, <3>4 DEF Events, Undecided, Distinct, Set
  <2> QED
    BY <2>1, <2>2
<1>17. UNCHANGED <<subs, stopped, stopping, started>>
  BY <1>1 DEF BusFrame
<1>18. stopped \/ started' \/ puts'[Flush] = Nothing
  <2>1. ASSUME ~stopped, ~started PROVE c # Flush /\ puts[Flush] = Nothing
    BY <1>1, <1>2, <2>1 DEF Kept, p
  <2> QED
    BY <1>9, <1>17, <2>1
<1>19. RestAt(x)' = Left(p, qid).rest /\ Set(RestAt(x)) \subseteq Set(p.rest)
  BY <1>3, <1>10 DEF l
<1>20. TasksKept /\ InTasks \subseteq InTasks'
  BY <1>1, SameTasks
<1>21. Order'
  <2>1. Order /\ Grows /\ \A d \in Set(p.rest) : Last(d, Owner(x))
    BY <1>1, <1>3 DEF OnceInv, Order, Grows
  <2>2. \A e \in Set(p.then) : events'[e] = Owner(x) /\ Owner(x) = None
    <3>1. CASE c = Flush
      <4>1. Owner(x) = None
        BY <3>1, FlushAssumption DEF Owner
      <4>2. \A e \in Set(p.then) : e \in Early
        BY <1>7, <3>1 DEF Early
      <4> QED
        BY <1>2, <2>1, <4>1, <4>2, EarlyStays
    <3>2. CASE c # Flush
      BY <1>8, <3>2, NothingTyped
    <3> QED
      BY <3>1, <3>2
  <2>3. Set(puts'[Flush].then) \subseteq Set(puts[Flush].then)
    <3>1. CASE c = Flush
      <4>1. Set(l.then) \subseteq Set(p.then)
        BY <1>1, <1>2, <1>4, FedFresh DEF l
      <4> QED
        BY <1>7, <1>9, <3>1, <4>1
    <3>2. CASE c # Flush
      BY <1>9, <3>2
    <3> QED
      BY <3>1, <3>2
  <2>4. \A e \in Early' : e \in Early \/ events'[e] = None
    BY <1>1, <2>3 DEF Early, Set
  <2> HIDE DEF x
  <2> QED
    BY <1>1, <1>2, <1>4, <1>10, <1>12, <1>19, <1>20, <2>1, <2>2, <2>4, OrderFed
<1> HIDE DEF x
<1> QED
  BY <1>21, <1>1, <1>4, <1>10, <1>12, <1>13, <1>14, <1>16, <1>17, <1>18, <1>19, <1>20, OnceFed

\* start() decides once on the deliveries of the events kept for it.
LEMMA OnceStart ==
  ASSUME TypeInv, OnceInv, Start
  PROVE  OnceInv'
<1> DEFINE p == Flushed
           l == Left(p, qid')
           x == <<"put", Flush>>
<1>1. /\ p \in Put /\ p.rest = <<>> /\ p.then = pending /\ qid' \in 0..MaxStarts
      /\ Feed(p) /\ puts' = [puts EXCEPT ![Flush] = l]
      /\ puts \in [Clients \union {Flush} -> Put]
  BY StartEffect, Still
<1>2. PICK t \in Seq(WorkerRecord) :
        /\ Added(workers, t)
        /\ \A j \in 1..Len(t) : t[j].pc = "get" /\ t[j].put = Nothing /\ t[j].cancelled = FALSE
  BY StartEffect
<1>3. /\ ~started /\ started' /\ pending' = <<>>
      /\ UNCHANGED <<stopping, subs, events, begun, stopped>>
  BY DEF Start
<1>4. Events /\ Apart /\ Kept /\ Distinct(subs)
  BY DEF OnceInv
<1>5. \A i \in DOMAIN workers' \ DOMAIN workers :
        workers'[i].pc = "get" /\ workers'[i].put = Nothing /\ ~workers'[i].cancelled
  <2>1. TAKE i \in DOMAIN workers' \ DOMAIN workers
  <2>2. PICK j \in 1..Len(t) : workers'[i] = t[j]
    BY <1>2 DEF Added
  <2> QED
    BY <1>2, <2>2
<1>6. \A i \in DOMAIN workers : i \in DOMAIN workers' /\ workers'[i] = workers[i]
  BY <1>2 DEF Added
<1>7. TasksKept /\ InTasks \subseteq InTasks'
  <2>1. TasksKept
    BY <1>5, <1>6 DEF TasksKept, New
  <2>2. \A i \in New : i \in New' /\ workers'[i].item = workers[i].item
    BY <1>6 DEF New
  <2> QED
    BY <2>1, <2>2 DEF InTasks
<1>8. Separate(p, x)
  <2>1. Distinct(p.then) /\ \A d \in due : d[2] \notin Set(p.then)
    BY <1>1, <1>4 DEF Events, Undecided
  <2> QED
    BY <1>1, <2>1, NothingTyped DEF Separate, Distinct
<1>9. x \in Waits' /\ RestAt(x)' = l.rest /\ (stopped \/ x \notin Waits \/ Set(RestAt(x)) = {})
  <2>1. Flush \in DOMAIN puts' /\ puts'[Flush] = l
    BY <1>1
  <2>2. x \in Waits' /\ RestAt(x)' = l.rest
    BY <2>1 DEF Waits, RestAt
  <2>3. stopped \/ Set(RestAt(x)) = {}
    BY <1>3, <1>4, NothingTyped DEF Kept, RestAt
  <2> QED
    BY <2>2, <2>3
<1> HIDE DEF p, l
<1>10. /\ DOMAIN puts' = DOMAIN puts
       /\ \A b \in DOMAIN puts \ {Flush} : puts'[b] = puts[b]
       /\ puts'[Flush] = l /\ DOMAIN puts = Clients \union {Flush}
  BY <1>1
<1>11. \A b \in DOMAIN puts' : b \in DOMAIN puts /\ (puts'[b].rest = puts[b].rest \/ x = <<"put", b>>)
  BY <1>10
<1>12. \A y \in Waits' \ {x} : RestKept(y)
  <2>1. \A i \in DOMAIN workers' :
          \/ i \in DOMAIN workers /\ workers'[i].put.rest = workers[i].put.rest
          \/ workers'[i].put.rest = <<>>
    BY <1>5, <1>6, NothingTyped
  <2> QED
    BY <1>11, <2>1, RestsKept
<1>13. \A y \in Waits \ {x} : y \in Waits' /\ RestAt(y)' = RestAt(y)
  BY <1>6, <1>10, <1>11, RestsStay
<1>14. \A i \in DOMAIN workers' : workers'[i].put.then = <<>> /\ (stopped \/ ~workers'[i].cancelled)
  BY <1>4, <1>5, <1>6, NothingTyped DEF Events, Kept
<1>15. \A b \in Clients : puts'[b].then = <<>>
  BY <1>4, <1>10, FlushAssumption DEF Events
<1>16. Events'
  <2>1. \A e \in Set(p.then) : e <= Len(events)
    BY <1>1, <1>4 DEF Events, Undecided
  <2>2. puts'[Flush].then = Left(p, qid').then
    BY <1>10 DEF l
  <2> HIDE DEF x
  <2> QED
    BY <1>1, <1>3, <1>8, <1>14, <1>15, <2>1, <2>2, EventsFlushed
<1>17. RestAt(x)' = Left(p, qid').rest
       /\ (stopped \/ x \notin Waits \/ Set(RestAt(x)) \subseteq Set(p.rest))
  BY <1>9 DEF l
<1>18. Order'
  <2>1. Order /\ Grows
    BY <1>3 DEF OnceInv, Grows
  <2>2. Owner(x) = None /\ Set(p.rest) = {}
    BY <1>1, FlushAssumption, NothingTyped DEF Owner
  <2>3. \A e \in Set(p.then) : events'[e] = Owner(x)
    <3>1. \A e \in Set(p.then) : e \in Early
      BY <1>1 DEF Early
    <3> QED
      BY <1>4, <2>1, <2>2, <3>1, EarlyStays
  <2>4. Set(l.then) \subseteq Set(p.then)
    BY <1>1, <1>4, <1>8, FedFresh DEF l
  <2>5. \A e \in Early' : e \in Early \/ events'[e] = None
    <3>1. Set(pending') = {} /\ Set(puts'[Flush].then) \subseteq Set(pending)
      BY <1>1, <1>3, <1>10, <2>4, NothingTyped
    <3> QED
      BY <3>1 DEF Early, Set
  <2> HIDE DEF x
  <2> QED
    BY <1>1, <1>4, <1>7, <1>8, <1>9, <1>12, <1>17, <2>1, <2>2, <2>3, <2>5, OrderFed
<1> HIDE DEF x
<1> QED
  BY <1>18, <1>1, <1>3, <1>7, <1>8, <1>9, <1>12, <1>13, <1>14, <1>16, <1>17, OnceFed

\* A handler that publishes decides on each delivery once.
LEMMA OnceRelay ==
  ASSUME TypeInv, OnceInv, NEW i \in DOMAIN workers, Relay(i)
  PROVE  OnceInv'
<1>1. /\ TypeOK /\ workers[i].pc = "run" /\ workers[i].put = Nothing /\ ~workers[i].cancelled
      /\ Numbered(None) /\ UNCHANGED <<puts, begun>> /\ BusFrame
  BY RelayEffect DEF TypeInv
<1>2. Len(events) < MaxEvents /\ Len(events') = Len(events) + 1
  BY <1>1, NumberedTyped
<1>3. Grows /\ events'[Len(events) + 1] = None
  BY <1>1, NumberedGrows
<1>4. Events /\ Kept
  BY DEF OnceInv
<1>5. \A c \in Clients : puts'[c].then = <<>>
  BY <1>1, <1>4 DEF Events
<1>6. CASE /\ ~started /\ Buffered /\ UNCHANGED <<queue, due>>
           /\ Goes(i, "relayed", workers[i].item, Nothing, workers[i].q, FALSE)
  <2>1. /\ TasksKept /\ DOMAIN workers' = DOMAIN workers /\ InTasks \subseteq InTasks'
        /\ workers'[i].put = Nothing /\ ~workers'[i].cancelled
        /\ \A j \in DOMAIN workers \ {i} : workers'[j] = workers[j]
    BY <1>1, <1>6, GoesTasks
  <2>2. \A j \in DOMAIN workers :
          workers'[j].put = workers[j].put /\ (stopped \/ ~workers'[j].cancelled)
    BY <1>1, <1>4, <2>1 DEF Kept
  <2> QED
    BY <1>3, <1>1, <1>2, <1>6, <2>1, <2>2, OnceBuffered
<1>7. CASE /\ started /\ qid # 0 /\ Feed(Fresh) /\ UNCHANGED pending
           /\ Goes(i, "relayed", workers[i].item, Left(Fresh, qid), workers[i].q, FALSE)
  <2> DEFINE l == Left(Fresh, qid)
             x == <<"relay", i>>
  <2>1. l.then = <<>>
    BY <1>2, <1>7, FreshLeft
  <2>2. Goes(i, "relayed", workers[i].item, l, workers[i].q, FALSE)
    BY <1>7
  <2> HIDE DEF l
  <2>3. /\ TasksKept /\ DOMAIN workers' = DOMAIN workers /\ InTasks \subseteq InTasks'
        /\ workers'[i].put = l /\ ~workers'[i].cancelled
        /\ \A j \in DOMAIN workers \ {i} : workers'[j] = workers[j]
    BY <1>1, <2>2, GoesTasks
  <2>4. x \in Waits' /\ RestAt(x) = <<>> /\ RestAt(x)' = l.rest
    BY <1>1, <2>3, NothingTyped DEF Waits, RestAt
  <2>5. \A y \in Waits' \ {x} : RestKept(y)
    BY <1>1, <2>3, RestsKept
  <2>6. \A y \in Waits \ {x} : y \in Waits' /\ RestAt(y)' = RestAt(y)
    BY <1>1, <2>3, RestsStay
  <2>7. \A j \in DOMAIN workers' : workers'[j].put.then = <<>> /\ (stopped \/ ~workers'[j].cancelled)
    BY <1>4, <2>1, <2>3 DEF Events, Kept
  <2>8. RestAt(x)' = Left(Fresh, qid).rest
    BY <2>4 DEF l
  <2>9. events'[Len(events) + 1] = Owner(x)
    BY <1>3 DEF Owner
  <2> HIDE DEF x
  <2> QED
    BY <1>3, <2>9, <1>1, <1>2, <1>5, <1>7, <2>3, <2>4, <2>5, <2>6, <2>7, <2>8, OnceFresh
<1>8. CASE /\ started /\ qid = 0 /\ UNCHANGED <<pending, queue>>
           /\ due' = due \union Set(Deliveries(Fresh.then))
           /\ \E s \in Seq(WorkerRecord) :
                /\ Added(s, Tasks) /\ DOMAIN s = DOMAIN workers
                /\ s[i] \in WorkerRecord /\ s[i].pc = "relayed" /\ s[i].put = Nothing
                /\ s[i].q = workers[i].q /\ s[i].cancelled = FALSE
                /\ \A j \in DOMAIN workers \ {i} : s[j] = workers[j]
  <2>1. PICK s \in Seq(WorkerRecord) :
          /\ Added(s, Tasks) /\ s[i].pc = "relayed" /\ s[i].put = Nothing
          /\ s[i].cancelled = FALSE
          /\ \A j \in DOMAIN workers \ {i} : s[j] = workers[j]
    BY <1>8
  <2>2. \A j \in DOMAIN workers :
          /\ s[j].put = workers[j].put
          /\ s[j].pc = "new" <=> workers[j].pc = "new"
          /\ s[j].pc = "new" => s[j].item = workers[j].item
          /\ stopped \/ ~s[j].cancelled
    BY <1>1, <1>4, <2>1 DEF Kept
  <2> QED
    BY <1>3, <1>1, <1>2, <1>8, <2>1, <2>2, OnceTasks
<1> QED
  BY <1>1, <1>6, <1>7, <1>8, RelayEffect

\* Without a publication nothing is decided on, and the events stay.
LEMMA EventsUntouched ==
  ASSUME Events, due' = due, events' = events,
         pending' = pending \/ pending' = <<>>, puts' = puts,
         \A i \in DOMAIN workers' : workers'[i].put.then = <<>>
  PROVE  Events'
<1>1. Distinct(pending') /\ Set(pending') \subseteq Set(pending)
  BY NothingTyped DEF Events, Undecided, Distinct
<1> QED
  BY <1>1 DEF Events, Undecided, Distinct, Set

\* A worker that goes on without publishing.
LEMMA GoesEvents ==
  ASSUME Events, NEW i \in DOMAIN workers, NEW pc, NEW d, NEW q,
         Goes(i, pc, d, Nothing, q, FALSE),
         UNCHANGED <<pending, puts, events, due>>
  PROVE  Events'
<1>1. PICK w \in WorkerRecord : Becomes(i, w) /\ w.put = Nothing
  BY DEF Goes
<1>2. \A j \in DOMAIN workers' : workers'[j].put.then = <<>>
  BY <1>1, NothingTyped DEF Becomes, Events
<1> QED
  BY <1>2, EventsUntouched

\* A worker takes the first delivery of the queue.
LEMMA OnceWorkerGets ==
  ASSUME TypeInv, OnceInv, NEW i \in DOMAIN workers, WorkerGets(i)
  PROVE  OnceInv'
<1> DEFINE h == Head(queue)
<1>1. /\ queue \in Seq(Delivery) /\ queue # <<>>
      /\ workers[i].put = Nothing /\ ~workers[i].cancelled
      /\ Goes(i, "run", h, Nothing, workers[i].q, FALSE)
  BY WorkerGetsEffect DEF TypeInv
<1>2. /\ workers[i].pc = "get" /\ queue' = Tail(queue) /\ begun' = begun \union {h}
      /\ UNCHANGED <<pending, puts, events, due>> /\ BusFrame
  BY DEF WorkerGets, GoesOn
<1>3. Events /\ Apart /\ Kept
  BY DEF OnceInv
<1>4. /\ Set(queue) = {h} \union Set(queue')
      /\ Distinct(queue') /\ h \notin Set(queue')
  BY <1>1, <1>2, <1>3, HeadTaken DEF Apart, Distinct
<1> HIDE DEF h
<1>5. Events'
  BY <1>1, <1>2, <1>3, GoesEvents
<1>6. /\ TasksKept /\ DOMAIN workers' = DOMAIN workers /\ InTasks \subseteq InTasks'
      /\ workers'[i].put = Nothing /\ ~workers'[i].cancelled
      /\ \A j \in DOMAIN workers \ {i} : workers'[j] = workers[j]
  BY <1>1, <1>2, GoesTasks
<1>7. \A j \in DOMAIN workers : workers'[j].put = workers[j].put
  BY <1>1, <1>6
<1>8. /\ \A y \in Waits' : RestKept(y)
      /\ \A y \in Waits : y \in Waits' /\ RestAt(y)' = RestAt(y)
  BY <1>2, <1>6, <1>7, SameRests
<1>9. Apart'
  <2> DEFINE H == {h}
  <2>1. InTasks' \subseteq InTasks
    BY <1>6 DEF TasksKept, InTasks
  <2>2. H \intersect (Set(queue') \union InTasks') = {}
    BY <1>3, <1>4, <2>1 DEF Apart
  <2>3. \A y \in Waits' : H \intersect Set(RestAt(y)') = {}
    BY <1>3, <1>4, <1>8, NothingTyped DEF Apart, RestKept
  <2>4. begun' \subseteq begun \union H /\ Set(queue') \subseteq Set(queue)
    BY <1>2, <1>4
  <2> HIDE DEF H
  <2> QED
    BY <1>3, <1>4, <1>6, <1>8, <2>2, <2>3, <2>4, ApartMoves
<1>10. \A j \in DOMAIN workers' : stopped \/ ~workers'[j].cancelled
  BY <1>3, <1>6 DEF Kept
<1>11. UNCHANGED <<subs, stopped, stopping, started>> /\ (stopped \/ started' \/ puts'[Flush] = Nothing)
  BY <1>2, <1>3 DEF BusFrame, Kept
<1>12. Order'
  <2>1. Order /\ Sorted /\ Grows
    BY <1>2 DEF OnceInv, Order, Grows
  <2>2. /\ DOMAIN queue' \subseteq Nat
        /\ \A j \in DOMAIN queue' : j + 1 \in DOMAIN queue /\ queue'[j] = queue[j + 1]
    BY <1>1, <1>2, HeadTailProperties, LenProperties
  <2>3. 1 \in Nat
    OBVIOUS
  <2>4. Sorted'
    BY <1>3, <2>1, <2>2, <2>3, SortedKept
  <2>5. \A e \in Early' : e \in Early \/ events'[e] = None
    BY <1>2 DEF Early, Set
  <2> QED
    BY <1>2, <1>3, <1>6, <1>8, <2>1, <2>4, <2>5, OrderMoved
<1> QED
  BY <1>2, <1>4, <1>5, <1>6, <1>8, <1>9, <1>10, <1>11, <1>12, OnceMoved

\* A task of a single delivery begins it.
LEMMA OnceTaskRuns ==
  ASSUME TypeInv, OnceInv, NEW i \in DOMAIN workers, TaskRuns(i)
  PROVE  OnceInv'
<1> DEFINE h == workers[i].item
<1>1. /\ workers[i].pc = "new" /\ workers[i].put = Nothing /\ ~workers[i].cancelled
      /\ Goes(i, "run", h, Nothing, workers[i].q, FALSE)
  BY TaskRunsEffect DEF TypeInv
<1>2. /\ begun' = begun \union {h}
      /\ UNCHANGED <<pending, queue, puts, events, due>> /\ BusFrame
  BY DEF TaskRuns
<1>3. Events /\ Apart /\ Kept
  BY DEF OnceInv
<1>4. i \in New /\ h \in InTasks
  BY <1>1 DEF New, InTasks
<1>5. Events'
  BY <1>1, <1>2, <1>3, GoesEvents
<1>6. /\ TasksKept /\ DOMAIN workers' = DOMAIN workers /\ InTasks \subseteq InTasks' \union {h}
      /\ workers'[i].put = Nothing /\ ~workers'[i].cancelled /\ workers'[i].pc = "run"
      /\ \A j \in DOMAIN workers \ {i} : workers'[j] = workers[j]
  BY <1>1, GoesTasks
<1>7. \A j \in DOMAIN workers : workers'[j].put = workers[j].put
  BY <1>1, <1>6
<1>8. /\ \A y \in Waits' : RestKept(y)
      /\ \A y \in Waits : y \in Waits' /\ RestAt(y)' = RestAt(y)
  BY <1>2, <1>6, <1>7, SameRests
<1>9. h \notin InTasks'
  <2>1. SUFFICES ASSUME NEW j \in New', workers'[j].item = h PROVE FALSE
    BY DEF InTasks
  <2>2. j # i /\ j \in New /\ workers[j].item = h
    BY <1>6, <2>1 DEF New, TasksKept
  <2> QED
    BY <1>3, <1>4, <2>2 DEF Apart
<1> HIDE DEF h
<1>10. Apart'
  <2> DEFINE H == {h}
  <2>1. H \intersect (Set(queue') \union InTasks') = {}
    BY <1>2, <1>3, <1>4, <1>9 DEF Apart
  <2>2. \A y \in Waits' : H \intersect Set(RestAt(y)') = {}
    BY <1>3, <1>4, <1>8, NothingTyped DEF Apart, RestKept
  <2>3. begun' \subseteq begun \union H /\ Set(queue') \subseteq Set(queue) /\ Distinct(queue')
    BY <1>2, <1>3 DEF Apart
  <2> HIDE DEF H
  <2> QED
    BY <1>3, <1>6, <1>8, <2>1, <2>2, <2>3, ApartMoves
<1>11. \A j \in DOMAIN workers' : stopped \/ ~workers'[j].cancelled
  BY <1>3, <1>6 DEF Kept
<1>12. UNCHANGED <<subs, stopped, stopping, started>> /\ (stopped \/ started' \/ puts'[Flush] = Nothing)
  BY <1>2, <1>3 DEF BusFrame, Kept
<1>13. Set(queue) \subseteq Set(queue') \union begun' /\ InTasks \subseteq InTasks' \union begun'
  BY <1>2, <1>6
<1>14. Order'
  BY <1>2, <1>3, <1>6, <1>8, OrderStays DEF OnceInv
<1> QED
  BY <1>2, <1>5, <1>8, <1>10, <1>11, <1>12, <1>13, <1>14, OnceMoved

\* A worker that is not a task to be run leaves what waits alone.
LEMMA ApartGoes ==
  ASSUME TypeInv, Apart, NEW i \in DOMAIN workers, NEW pc, NEW d, NEW q, pc # "new",
         Goes(i, pc, d, Nothing, q, FALSE), UNCHANGED <<queue, puts, begun>>
  PROVE  Apart'
<1>1. /\ TasksKept /\ DOMAIN workers' = DOMAIN workers /\ workers'[i].put = Nothing
      /\ \A j \in DOMAIN workers \ {i} : workers'[j] = workers[j]
  BY ZenonT(40), GoesTasks
<1>2. \A j \in DOMAIN workers' :
        \/ j \in DOMAIN workers /\ workers'[j].put.rest = workers[j].put.rest
        \/ workers'[j].put.rest = <<>>
  BY <1>1, NothingTyped
<1>3. \A y \in Waits' \ {NoOne} : RestKept(y)
  BY <1>2, RestsKept
<1>4. NoOne \notin Waits'
  BY DEF Waits, NoOne
<1>5. Distinct(queue') /\ Set(queue') = Set(queue)
  BY DEF Apart
<1> QED
  BY <1>1, <1>3, <1>4, <1>5, ApartShrinks

\* Nor does it disturb the order.
LEMMA OrderGoes ==
  ASSUME TypeInv, Events, Order, NEW i \in DOMAIN workers, NEW pc, NEW d, NEW q, pc # "new",
         Goes(i, pc, d, Nothing, q, FALSE), UNCHANGED <<pending, queue, puts, events, due>>
  PROVE  Order'
<1>1. /\ TasksKept /\ DOMAIN workers' = DOMAIN workers /\ workers'[i].put = Nothing
      /\ \A j \in DOMAIN workers \ {i} : workers'[j] = workers[j]
  BY ZenonT(40), GoesTasks
<1>2. \A j \in DOMAIN workers' :
        \/ j \in DOMAIN workers /\ workers'[j].put.rest = workers[j].put.rest
        \/ workers'[j].put.rest = <<>>
  BY <1>1, NothingTyped
<1>3. \A y \in Waits' \ {NoOne} : RestKept(y)
  BY <1>2, RestsKept
<1>4. NoOne \notin Waits'
  BY DEF Waits, NoOne
<1> QED
  BY <1>1, <1>3, <1>4, OrderStays

\* The end of a handler loses no delivery.
LEMMA OnceHandlerEnds ==
  ASSUME TypeInv, OnceInv, NEW i \in DOMAIN workers, HandlerEnds(i)
  PROVE  OnceInv'
<1>1. /\ workers[i].put = Nothing /\ workers[i].pc \in {"run", "relayed"}
      /\ \/ Goes(i, "get", NoItem, Nothing, qid, FALSE)
         \/ Goes(i, "end", NoItem, Nothing, 0, FALSE)
  BY HandlerEndsEffect DEF TypeInv
<1>2. UNCHANGED <<pending, queue, puts, events, due, begun>> /\ BusFrame
  BY DEF HandlerEnds
<1>3. ASSUME NEW pc \in {"get", "end"}, NEW q, Goes(i, pc, NoItem, Nothing, q, FALSE)
      PROVE  OnceInv'
  <2>1. Events /\ Apart /\ Kept
    BY DEF OnceInv
  <2>2. pc # "new" /\ workers[i].pc # "new"
    BY <1>1
  <2>3. Events' /\ Apart'
    BY <1>2, <1>3, <2>1, <2>2, GoesEvents, ApartGoes
  <2>4. /\ DOMAIN workers' = DOMAIN workers /\ InTasks \subseteq InTasks'
        /\ workers'[i].put = Nothing /\ ~workers'[i].cancelled
        /\ \A j \in DOMAIN workers \ {i} : workers'[j] = workers[j]
    BY <1>3, <2>2, GoesTasks
  <2>5. \A j \in DOMAIN workers : workers'[j].put = workers[j].put
    BY <1>1, <2>4
  <2>6. \A y \in Waits : y \in Waits' /\ RestAt(y)' = RestAt(y)
    BY <1>2, <2>4, <2>5, SameRests
  <2>7. \A j \in DOMAIN workers' : stopped \/ ~workers'[j].cancelled
    BY <2>1, <2>4 DEF Kept
  <2>8. UNCHANGED <<subs, stopped, stopping, started>> /\ (stopped \/ started' \/ puts'[Flush] = Nothing)
    BY <1>2, <2>1 DEF BusFrame, Kept
  <2>9. Order'
    BY <1>2, <1>3, <2>1, <2>2, OrderGoes DEF OnceInv
  <2> QED
    BY <1>2, <2>3, <2>4, <2>6, <2>7, <2>8, <2>9, OnceMoved
<1> QED
  BY <1>1, <1>3

\* Workers are cancelled by stop() only.
LEMMA OnceWorkerCancelled ==
  ASSUME TypeInv, OnceInv, NEW i \in DOMAIN workers, WorkerCancelled(i)
  PROVE  OnceInv'
<1>1. /\ workers[i].cancelled
      /\ UNCHANGED <<pending, queue, puts, events, due, begun>> /\ BusFrame
      /\ Goes(i, "end", NoItem, Nothing, 0, FALSE)
  BY EndsEffect DEF TypeInv, WorkerCancelled
<1>2. Events' /\ Apart'
  BY <1>1, GoesEvents, ApartGoes DEF OnceInv
<1>3. stopped' /\ subs' = subs
  BY <1>1 DEF OnceInv, Kept, BusFrame
<1>4. Order'
  BY <1>1, OrderGoes DEF OnceInv
<1> QED
  BY <1>2, <1>3, <1>4 DEF OnceInv, Kept, Distinct

\* Steps that leave deliveries and workers alone.
LEMMA OnceUntouched ==
  ASSUME OnceInv, TypeInv, UNCHANGED <<queue, workers, puts, events, due, begun>>,
         pending' = pending \/ pending' = <<>>, Distinct(subs'),
         stopped' \/ UNCHANGED <<started, stopping, stopped>>
  PROVE  OnceInv'
<1>1. Events /\ Apart /\ Kept
  BY DEF OnceInv
<1>2. Events'
  BY <1>1, EventsUntouched DEF Events
<1>3. /\ \A y \in Waits' : RestKept(y)
      /\ \A y \in Waits : y \in Waits' /\ RestAt(y)' = RestAt(y)
  BY SameRests
<1>4. TasksKept /\ InTasks' = InTasks
  BY SameTasks
<1>5. Distinct(queue') /\ Set(queue') = Set(queue)
  BY <1>1 DEF Apart
<1>6. Apart'
  BY <1>1, <1>3, <1>4, <1>5, ApartShrinks
<1>7. ASSUME ~stopped' PROVE due' \subseteq Placed'
  BY <1>1, <1>3, <1>4, <1>5, <1>7, PlacedMoves DEF Kept
<1>8. Kept'
  BY <1>1, <1>7 DEF Kept
<1>9. Order'
  BY <1>1, <1>3, <1>4, OrderStays DEF OnceInv
<1> QED
  BY <1>2, <1>6, <1>8, <1>9 DEF OnceInv, Distinct

\* Only stop() drops deliveries.
LEMMA OnceStops ==
  ASSUME TypeInv, OnceInv, StopBegins \/ StopCancels \/ StopCloses \/ StopReturns
  PROVE  OnceInv'
<1>1. Events /\ Apart /\ Kept /\ Distinct(subs)
  BY DEF OnceInv
<1>2. CASE StopBegins
  BY <1>1, <1>2, OnceUntouched DEF StopBegins
<1>3. CASE StopReturns
  <2>1. stopped'
    BY <1>1, <1>3 DEF StopReturns, Kept
  <2> QED
    BY <1>1, <1>3, <2>1, OnceUntouched DEF StopReturns
<1>4. CASE StopCancels
  <2>1. /\ stopped' /\ UNCHANGED <<subs, pending, queue, puts, events, due, begun>>
    BY <1>1, <1>4 DEF StopCancels, Kept
  <2>2. /\ DOMAIN workers' = DOMAIN workers
        /\ \A i \in DOMAIN workers :
             /\ workers'[i].pc = workers[i].pc /\ workers'[i].item = workers[i].item
             /\ workers'[i].put = workers[i].put
    BY <1>4, CancelsEffect
  <2>3. Events'
    BY <1>1, <2>1, <2>2, EventsUntouched DEF Events
  <2>4. TasksKept
    BY <2>2 DEF TasksKept, New
  <2>5. \A y \in Waits' : RestKept(y)
    BY <2>1, <2>2, SameRests
  <2>6. Distinct(queue') /\ Set(queue') = Set(queue)
    BY <1>1, <2>1 DEF Apart
  <2>7. Apart'
    BY <1>1, <2>1, <2>4, <2>5, <2>6, ApartShrinks
  <2>8. Order'
    BY <1>1, <2>1, <2>4, <2>5, OrderStays DEF OnceInv
  <2> QED
    BY <1>1, <2>1, <2>3, <2>7, <2>8 DEF OnceInv, Kept, Distinct
<1>5. CASE StopCloses
  <2>1. /\ stopped' /\ UNCHANGED <<subs, pending, workers, puts, events, due, begun>>
        /\ queue' = <<>>
    BY <1>1, <1>5 DEF StopCloses, Kept
  <2>2. Events'
    BY <1>1, <2>1, EventsUntouched DEF Events
  <2>3. TasksKept /\ \A y \in Waits' : RestKept(y)
    BY <2>1, SameTasks, SameRests
  <2>4. Distinct(queue') /\ Set(queue') = {}
    BY <2>1, NothingTyped DEF Distinct
  <2>5. Apart'
    BY <1>1, <2>1, <2>3, <2>4, ApartShrinks
  <2>6. Order'
    <3>1. Order /\ Grows
      BY <2>1 DEF OnceInv, Grows
    <3>2. Sorted'
      BY <2>1 DEF Sorted
    <3>3. \A e \in Early' : e \in Early \/ events'[e] = None
      BY <2>1 DEF Early, Set
    <3> QED
      BY <1>1, <2>1, <2>3, <3>1, <3>2, <3>3, OrderMoved
  <2> QED
    BY <1>1, <2>1, <2>2, <2>5, <2>6 DEF OnceInv, Kept, Distinct
<1> QED
  BY <1>2, <1>3, <1>4, <1>5

\* Subscriptions change nothing for events published before.
LEMMA OnceSubscribes ==
  ASSUME TypeInv, OnceInv, NEW h \in Handlers, Subscribe(h) \/ Unsubscribe(h)
  PROVE  OnceInv'
<1>1. UNCHANGED <<started, stopping, stopped, pending, queue, workers, puts, events, due, begun>>
  BY DEF Subscribe, Unsubscribe
<1>2. subs \in Seq(Handlers) /\ Distinct(subs)
  BY DEF TypeInv, TypeOK, OnceInv
<1>3. Distinct(subs')
  <2>1. CASE Subscribe(h)
    <3> DEFINE t == <<h>>
    <3>1. t \in Seq(Handlers) /\ Distinct(t) /\ Set(t) = {h}
      BY DEF Distinct, Set
    <3>2. h \notin Set(subs) /\ subs' = Append(subs, h)
      BY <2>1 DEF Subscribe
    <3>3. subs' = subs \o t
      BY <1>2, <3>2, AppendIsConcat
    <3> HIDE DEF t
    <3>4. Set(subs) \intersect Set(t) = {}
      BY <3>1, <3>2
    <3> QED
      BY <1>2, <3>1, <3>3, <3>4, DistinctConcat
  <2>2. CASE Unsubscribe(h)
    BY <1>2, <2>2, UnsubscribeTyped DEF TypeInv
  <2> QED
    BY <2>1, <2>2
<1> QED
  BY <1>1, <1>3, OnceUntouched

\* Apart deliveries are in one place at most.
LEMMA OnePlace ==
  ASSUME Apart, NEW d, NEW u \in Places(d), NEW v \in Places(d)
  PROVE  u = v
<1> DEFINE Begun(w) == w = <<"begun", 1>> /\ d \in begun
           Queued(w) == \E j \in DOMAIN queue : queue[j] = d /\ w = <<"queue", j>>
           InTask(w) == \E i \in New : workers[i].item = d /\ w = <<"task", i>>
           Waiting(w) == w \in Waits /\ d \in Set(RestAt(w))
<1>1. ASSUME NEW w \in Places(d) PROVE Begun(w) \/ Queued(w) \/ InTask(w) \/ Waiting(w)
  <2>1. CASE w \in {<<"begun", 1>> : x \in {d} \intersect begun}
    BY <2>1
  <2>2. CASE w \in {<<"queue", j>> : j \in {k \in DOMAIN queue : queue[k] = d}}
    BY <2>2
  <2>3. CASE w \in {<<"task", i>> :
                      i \in {k \in DOMAIN workers : workers[k].pc = "new" /\ workers[k].item = d}}
    BY <2>3 DEF New
  <2>4. CASE w \in {<<"put", c>> : c \in {b \in DOMAIN puts : d \in Set(puts[b].rest)}}
    <3>1. PICK c \in DOMAIN puts : d \in Set(puts[c].rest) /\ w = <<"put", c>>
      BY <2>4
    <3> QED
      BY <3>1 DEF Waits, RestAt
  <2>5. CASE w \in {<<"relay", i>> : i \in {k \in DOMAIN workers : d \in Set(workers[k].put.rest)}}
    <3>1. PICK i \in DOMAIN workers : d \in Set(workers[i].put.rest) /\ w = <<"relay", i>>
      BY <2>5
    <3> QED
      BY <3>1 DEF Waits, RestAt
  <2> QED
    BY <1>1, <2>1, <2>2, <2>3, <2>4, <2>5 DEF Places
<1>2. \A w : Queued(w) => d \in Set(queue)
  BY DEF Set
<1>3. \A w : InTask(w) => d \in InTasks
  BY DEF InTasks
<1>4. Queued(u) /\ Queued(v) => u = v
  BY DEF Apart, Distinct
<1>5. InTask(u) /\ InTask(v) => u = v
  BY DEF Apart
<1>6. Waiting(u) /\ Waiting(v) => u = v
  BY DEF Apart
<1>7. Begun(u) /\ Begun(v) => u = v
  OBVIOUS
<1>8. \A w : Begun(w) => d \in begun
  OBVIOUS
<1>9. \A w : Waiting(w) => d \notin begun /\ d \notin Set(queue) /\ d \notin InTasks
  BY DEF Apart
<1>10. /\ ~(d \in begun /\ d \in Set(queue))
       /\ ~(d \in InTasks /\ (d \in begun \/ d \in Set(queue)))
  BY DEF Apart
<1> HIDE DEF Begun, Queued, InTask, Waiting
<1> QED
  BY <1>1, <1>2, <1>3, <1>4, <1>5, <1>6, <1>7, <1>8, <1>9, <1>10

\* A delivery that is placed has a place.
LEMMA SomePlace ==
  ASSUME NEW d \in Placed
  PROVE  Places(d) # {}
<1>1. CASE d \in begun
  <2>1. <<"begun", 1>> \in Places(d)
    BY <1>1 DEF Places
  <2> QED
    BY <2>1
<1>2. CASE d \in Set(queue)
  <2>1. PICK j \in DOMAIN queue : queue[j] = d
    BY <1>2 DEF Set
  <2>2. <<"queue", j>> \in Places(d)
    BY <2>1 DEF Places
  <2> QED
    BY <2>2
<1>3. CASE d \in InTasks
  <2>1. PICK i \in DOMAIN workers : workers[i].pc = "new" /\ workers[i].item = d
    BY <1>3 DEF InTasks, New
  <2>2. <<"task", i>> \in Places(d)
    BY <2>1 DEF Places
  <2> QED
    BY <2>2
<1>4. ASSUME NEW x \in Waits, d \in Set(RestAt(x)) PROVE Places(d) # {}
  <2>1. CASE x \in {"put"} \X DOMAIN puts
    <3>1. PICK c \in DOMAIN puts : x = <<"put", c>>
      BY <2>1
    <3>2. d \in Set(puts[c].rest)
      BY <1>4, <3>1 DEF RestAt
    <3>3. <<"put", c>> \in Places(d)
      BY <3>2 DEF Places
    <3> QED
      BY <3>3
  <2>2. CASE x \in {"relay"} \X DOMAIN workers
    <3>1. PICK i \in DOMAIN workers : x = <<"relay", i>>
      BY <2>2
    <3>2. d \in Set(workers[i].put.rest)
      BY <1>4, <3>1 DEF RestAt
    <3>3. <<"relay", i>> \in Places(d)
      BY <3>2 DEF Places
    <3> QED
      BY <3>3
  <2> QED
    BY <2>1, <2>2 DEF Waits
<1> QED
  BY <1>1, <1>2, <1>3, <1>4 DEF Placed

\* OnceInv is an invariant: it is inductive on top of TypeInv.
LEMMA OnceInvariant == Spec => [](TypeInv /\ OnceInv)
<1>1. Init => OnceInv
  <2> SUFFICES ASSUME Init PROVE OnceInv
    OBVIOUS
  <2>1. /\ queue = <<>> /\ pending = <<>> /\ subs = <<>> /\ DOMAIN workers = {}
        /\ due = {} /\ begun = {} /\ stopping = "no" /\ puts = [c \in Clients \union {Flush} |-> Nothing]
    BY DEF Init
  <2>2. Set(<<>>) = {} /\ Distinct(<<>>)
    BY NothingTyped DEF Distinct
  <2>3. \A c \in Clients \union {Flush} : puts[c] = Nothing
    BY <2>1
  <2>4. \A x \in Waits : RestAt(x) = <<>>
    BY <2>1, <2>3, NothingTyped DEF Waits, RestAt
  <2>5. InTasks = {} /\ New = {}
    BY <2>1 DEF InTasks, New
  <2>6. Events
    BY <2>1, <2>2, <2>3, NothingTyped DEF Events, Undecided
  <2>7. Apart
    BY <2>1, <2>2, <2>4, <2>5 DEF Apart
  <2>8. Kept
    BY <2>1, <2>3 DEF Kept
  <2>9. Order
    BY <2>1, <2>2, <2>3, <2>4, <2>5, NothingTyped DEF Order, Sorted
  <2> QED
    BY <2>1, <2>2, <2>6, <2>7, <2>8, <2>9 DEF OnceInv
<1>2. TypeInv /\ OnceInv /\ [Next]_vars => OnceInv'
  <2> SUFFICES ASSUME TypeInv, OnceInv, [Next]_vars PROVE OnceInv'
    OBVIOUS
  <2>1. ASSUME NEW h \in Handlers, Subscribe(h) \/ Unsubscribe(h) PROVE OnceInv'
    BY <2>1, OnceSubscribes
  <2>2. CASE Start
    BY <2>2, OnceStart
  <2>3. CASE StopBegins \/ StopCancels \/ StopCloses \/ StopReturns
    BY <2>3, OnceStops
  <2>4. ASSUME NEW c \in Clients, Publish(c) PROVE OnceInv'
    BY <2>4, OncePublish
  <2>5. ASSUME NEW c \in Clients \union {Flush}, PutResumes(c) PROVE OnceInv'
    BY <2>5, OncePutResumes
  <2>6. ASSUME NEW i \in DOMAIN workers, WorkerSteps(i) PROVE OnceInv'
    BY <2>6, OnceWorkerGets, OnceTaskRuns, OnceRelay, OnceRelayResumes, OnceHandlerEnds,
       OnceWorkerCancelled DEF WorkerSteps
  <2>7. CASE UNCHANGED vars
    <3>1. Distinct(subs')
      BY <2>7 DEF vars, OnceInv, Distinct
    <3> QED
      BY <2>7, <3>1, OnceUntouched DEF vars
  <2> QED
    BY <2>1, <2>2, <2>3, <2>4, <2>5, <2>6, <2>7 DEF Next
<1>3. Spec => []TypeInv
  BY BusTypes, PTL DEF TypeInv
<1> QED
  BY <1>1, <1>2, <1>3, PTL DEF Spec

\* A delivery that dispatch() decided on waits in one place or has reached
\* its handler, once, however publications, put() on a full queue, start()
\* and the workers interleave, and only stop() makes deliveries disappear.
THEOREM DeliveriesInOnePlace == Spec => []DeliveredOnce
<1>1. OnceInv => DeliveredOnce
  <2> SUFFICES ASSUME OnceInv, NEW d \in due
               PROVE  /\ Cardinality(Places(d)) <= 1
                      /\ ~stopped => Cardinality(Places(d)) = 1
    BY DEF DeliveredOnce
  <2>1. \A u, v \in Places(d) : u = v
    BY OnePlace DEF OnceInv
  <2>2. ~stopped => Places(d) # {}
    BY SomePlace DEF OnceInv, Kept
  <2>3. CASE Places(d) = {}
    BY <2>2, <2>3, FS_EmptySet
  <2>4. CASE Places(d) # {}
    <3>1. PICK u : u \in Places(d)
      BY <2>4
    <3>2. Places(d) = {u}
      BY <2>1, <3>1
    <3>3. Cardinality(Places(d)) = 1
      BY <3>2, FS_Singleton
    <3> QED
      BY <3>3
  <2> QED
    BY <2>3, <2>4
<1> QED
  BY <1>1, OnceInvariant, PTL

\* The events that one client publishes on a running bus reach every handler
\* in the order of their publication: a worker takes the head of a queue in
\* which they are in order, and what the client still waits with is later.
THEOREM ClientOrderKept == Spec => InOrder
<1>1. ASSUME TypeInv, OnceInv, [Next]_vars,
             NEW d \in begun' \ begun, NEW b \in due, ~stopped', b[2] < d[2],
             events[b[2]] # None, events[b[2]] = events[d[2]]
      PROVE  b \in begun
  <2>1. Order /\ Kept /\ Set(queue) \subseteq due /\ queue \in Seq(Delivery)
    BY <1>1, Still DEF OnceInv
  <2>2. ASSUME NEW i \in DOMAIN workers, TaskRuns(i) PROVE FALSE
    <3>1. d = workers[i].item /\ workers[i].pc = "new"
      BY <1>1, <2>2 DEF TaskRuns, GoesOn
    <3>2. d \in InTasks
      BY <3>1 DEF InTasks, New
    <3> QED
      BY <1>1, <2>1, <3>2 DEF Order, Of
  <2>3. ASSUME NEW i \in DOMAIN workers, WorkerGets(i) PROVE b \in begun
    <3>1. d = Head(queue) /\ queue # <<>> /\ stopped' = stopped
      BY <1>1, <2>3 DEF WorkerGets, BusFrame
    <3>2. 1 \in DOMAIN queue /\ d = queue[1] /\ DOMAIN queue = 1..Len(queue) /\ Len(queue) \in Nat
      BY <2>1, <3>1, HeadTailProperties, LenProperties
    <3>3. d \in due
      BY <2>1, <3>2 DEF Set
    <3>4. d[2] \in Nat /\ b[2] \in Nat
      BY <1>1, <3>3, SomewhereDecided
    <3>5. b \notin Set(queue)
      <4> SUFFICES ASSUME NEW k \in DOMAIN queue, b = queue[k] PROVE FALSE
        BY DEF Set
      <4>1. k # 1
        BY <1>1, <3>2, <3>4
      <4>2. 1 < k
        BY <3>2, <4>1
      <4>3. d[2] <= b[2]
        BY <1>1, <2>1, <3>2, <4>2 DEF Order, Sorted, Of
      <4> QED
        BY <1>1, <3>4, <4>3
    <3>6. b \notin InTasks
      BY <1>1, <2>1 DEF Order, Of
    <3>7. ASSUME NEW x \in Waits, b \in Set(RestAt(x)) PROVE FALSE
      <4>1. Last(b, Owner(x))
        BY <2>1, <3>7 DEF Order
      <4>2. d[2] <= b[2]
        BY <1>1, <3>3, <4>1 DEF Last, Of
      <4> QED
        BY <1>1, <3>4, <4>2
    <3>8. b \in Placed
      BY <1>1, <2>1, <3>1 DEF Kept
    <3> QED
      BY <3>5, <3>6, <3>7, <3>8 DEF Placed
  <2>4. \E i \in DOMAIN workers : TaskRuns(i) \/ WorkerGets(i)
    BY <1>1 DEF Next, vars, Subscribe, Unsubscribe, Start, StopBegins, StopCancels, StopCloses,
       StopReturns, Publish, PutResumes, WorkerSteps, Relay, RelayResumes, HandlerEnds, WorkerCancelled
  <2> QED
    BY <2>2, <2>3, <2>4
<1>2. TypeInv /\ OnceInv /\ [Next]_vars =>
        [\A d \in begun' \ begun, b \in due :
           (/\ ~stopped' /\ b[1] = d[1] /\ b[2] < d[2]
            /\ events[b[2]] # None /\ events[b[2]] = events[d[2]])
             => b \in begun]_vars
  BY <1>1
<1> QED
  BY <1>2, OnceInvariant, PTL DEF Spec, InOrder

=============================================================================
