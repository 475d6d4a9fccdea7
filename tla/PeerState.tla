----------------------------- MODULE PeerState -----------------------------
(***************************************************************************)
(* What nodes tell each other: DistributedEventBus (core/distributed/      *)
(* distributed_executor.py) propagates events, Replication (core/          *)
(* distributed/distributed_controller.py) propagates versioned entries.    *)
(* Messages may be lost, repeated (a peer registered under two ids gets    *)
(* everything twice) and reordered, so the ones sent stay in a set.        *)
(* receive_inbound and receive_replication do not suspend.  hop_count is   *)
(* never raised, so the TTL test never fires and is left out, as are       *)
(* payloads, topics and statistics.                                        *)
(***************************************************************************)
EXTENDS Integers, FiniteSets, FiniteSetsExt

CONSTANTS
  Peers,        \* the nodes
  Publishers,   \* those that publish events
  Writers,      \* those that write entries
  EventIds,     \* event ids
  Keys,         \* keys of replicated entries
  MaxSeen,      \* _max_seen_cache
  MaxVersion    \* bound: versions a node gives to a key

ASSUME PeerAssumption ==
  /\ Publishers \subseteq Peers /\ Writers \subseteq Peers
  /\ MaxSeen \in Nat \ {0} /\ MaxVersion \in Nat

VARIABLES
  sent,         \* the messages sent so far
  seen,         \* _seen_event_ids
  evicted,      \* history: ids the cache of the node has dropped since it started
  accepted,     \* history: how often the node has published an event of a peer
  version,      \* version[n][k]: the version of _entries[k], -1 when there is none
  received,     \* _received
  handed        \* history: the entries handed to the node since it started

peerVars == <<sent, seen, evicted, accepted, version, received, handed>>

Often == 2   \* bound: publications of one event are counted up to here

NoEntry == [key |-> "", source |-> "", version |-> -1]
Entries == [key : Keys, source : Peers, version : 0..MaxVersion]
EventMessages == [kind : {"event"}, to : Peers, id : EventIds, source : Peers]
EntryMessages == [kind : {"entry"}, to : Peers, entry : Entries]

PeerTypeOK ==
  /\ sent \subseteq EventMessages \union EntryMessages
  /\ seen \in [Peers -> SUBSET EventIds]
  /\ evicted \in [Peers -> SUBSET EventIds]
  /\ accepted \in [Peers -> [EventIds -> 0..Often]]
  /\ version \in [Peers -> [Keys -> -1..MaxVersion]]
  /\ received \in [Peers -> [Keys -> Entries \union {NoEntry}]]
  /\ handed \in [Peers -> SUBSET Entries]

PeerInit ==
  /\ sent = {}
  /\ seen = [n \in Peers |-> {}]
  /\ evicted = [n \in Peers |-> {}]
  /\ accepted = [n \in Peers |-> [e \in EventIds |-> 0]]
  /\ version = [n \in Peers |-> [k \in Keys |-> -1]]
  /\ received = [n \in Peers |-> [k \in Keys |-> NoEntry]]
  /\ handed = [n \in Peers |-> {}]

----------------------------------------------------------------------------
(***************************************************************************)
(* Events                                                                  *)
(***************************************************************************)
\* Mutant: a received id is not remembered.
RememberNot(n, e) == UNCHANGED <<seen, evicted>>

\* The id is added; over the limit the cache keeps MaxSeen ids in set order, so any.
Remember(n, e) ==
  LET all == seen[n] \union {e} IN
  \E keep \in IF Cardinality(all) > MaxSeen THEN kSubset(MaxSeen, all) ELSE {all} :
    /\ seen' = [seen EXCEPT ![n] = keep]
    /\ evicted' = [evicted EXCEPT ![n] = @ \union (all \ keep)]

\* propagate_outbound: a new id, sent to every peer.
PropagateOutbound(n, e) ==
  /\ \A m \in sent : m.kind = "event" => m.id # e
  /\ Remember(n, e)
  /\ sent' = sent \union {[kind |-> "event", to |-> p, id |-> e, source |-> n] : p \in Peers \ {n}}
  /\ UNCHANGED <<accepted, version, received, handed>>

\* receive_inbound: drops what it has seen, else remembers and publishes it.
ReceiveInbound(m) ==
  /\ m.kind = "event"
  /\ m.id \notin seen[m.to]
  /\ Remember(m.to, m.id)
  /\ accepted' = [accepted EXCEPT ![m.to][m.id] = IF @ = Often THEN @ ELSE @ + 1]
  /\ UNCHANGED <<sent, version, received, handed>>

----------------------------------------------------------------------------
(***************************************************************************)
(* Replicated entries                                                      *)
(***************************************************************************)
\* replicate: the next version of the node's own entry goes to every peer.
Replicate(n, k) ==
  /\ version[n][k] < MaxVersion
  /\ version' = [version EXCEPT ![n][k] = @ + 1]
  /\ LET entry == [key |-> k, source |-> n, version |-> version[n][k] + 1] IN
       sent' = sent \union {[kind |-> "entry", to |-> p, entry |-> entry] : p \in Peers \ {n}}
  /\ UNCHANGED <<seen, evicted, accepted, received, handed>>

\* Mutant: the last entry to arrive wins.
StaleNever(old, entry) == FALSE

\* Versions of different sources are compared as if they were one sequence.
Stale(old, entry) == old # NoEntry /\ old.version >= entry.version

\* receive_replication
ReceiveReplication(m) ==
  /\ m.kind = "entry"
  /\ LET old == received[m.to][m.entry.key] IN
       received' = IF Stale(old, m.entry) THEN received
                   ELSE [received EXCEPT ![m.to][m.entry.key] = m.entry]
  /\ handed' = [handed EXCEPT ![m.to] = @ \union {m.entry}]
  /\ UNCHANGED <<sent, seen, evicted, accepted, version>>

\* A node restarts: nothing of this is persisted.
PeerRestart(n) ==
  /\ seen' = [seen EXCEPT ![n] = {}]
  /\ evicted' = [evicted EXCEPT ![n] = {}]
  /\ accepted' = [accepted EXCEPT ![n] = [e \in EventIds |-> 0]]
  /\ version' = [version EXCEPT ![n] = [k \in Keys |-> -1]]
  /\ received' = [received EXCEPT ![n] = [k \in Keys |-> NoEntry]]
  /\ handed' = [handed EXCEPT ![n] = {}]
  /\ UNCHANGED sent

\* Events and entries have no state in common but the network.
EventTraffic ==
  \/ \E n \in Publishers, e \in EventIds : PropagateOutbound(n, e)
  \/ \E m \in sent : ReceiveInbound(m)

EntryTraffic ==
  \/ \E n \in Writers, k \in Keys : Replicate(n, k)
  \/ \E m \in sent : ReceiveReplication(m)

PeerNext == EventTraffic \/ EntryTraffic \/ \E n \in Peers : PeerRestart(n)

PeerSpec == PeerInit /\ [][PeerNext]_peerVars
----------------------------------------------------------------------------
(***************************************************************************)
(* Properties                                                              *)
(***************************************************************************)
\* "Track to prevent loops": between two restarts a node publishes an event of a
\* peer at most once, however often and in whatever order copies of it arrive,
\* as long as its id has not been pushed out of the bounded cache.
PublishedOnce ==
  \A n \in Peers, e \in EventIds : accepted[n][e] > 1 => e \in evicted[n]

\* "stale" entries are rejected: a node holds the newest version of a key it has
\* been handed since it started, not the one that arrived last.
NewestKept ==
  \A n \in Peers, k \in Keys :
    LET mine == {x \in handed[n] : x.key = k} IN
      IF mine = {} THEN received[n][k] = NoEntry
      ELSE received[n][k] \in mine /\ \A x \in mine : x.version <= received[n][k].version
=============================================================================
