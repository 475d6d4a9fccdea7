---------------------------- MODULE RateLimiter ----------------------------
(***************************************************************************)
(* RateLimiterEngineImpl (core/omniroute/rate_limiter.py): policies with   *)
(* token buckets, leaky buckets, sliding and fixed windows, all brought up *)
(* to date only when a request asks, the queue of delayed requests, which  *)
(* nothing empties, and the reservations of permits, which do not touch    *)
(* the buckets.  Every method holds the engine's lock for all it does, so  *)
(* each is one step.  Time passes in ticks.  Usage counters, predictions   *)
(* and events are left out; the adaptive quotas are never asked.           *)
(***************************************************************************)
EXTENDS Integers, Sequences, FiniteSets

CONSTANTS
  Limits,         \* the policies, highest order first
  LimitKinds,     \* the algorithms clients give them
  Capacity,       \* TokenBucket.capacity
  RefillRate,     \* TokenBucket.refill_rate and LeakyBucket.drain_rate
  RefillInterval, \* refill_interval_ms and drain_interval_ms, in ticks
  Burst,          \* burst_allowance; max_burst is positive
  LeakDepth,      \* LeakyBucket.max_queue_depth
  WindowMax,      \* SlidingWindowCounter.max_requests
  WindowTicks,    \* the "1m" window, and window_duration_s of the fixed one
  DelayQueue,     \* queue_max_size
  PermitTtl,      \* ttl_seconds, in ticks
  MaxCount,       \* bound: tokens consumed at once
  MaxPermits,     \* bound: reservations
  MaxTicks        \* bound: time

LimitIds == {Limits[k] : k \in DOMAIN Limits}

ASSUME LimiterAssumption ==
  /\ LimitKinds \subseteq {"token_bucket", "leaky_bucket", "sliding_window", "fixed_window"}
  /\ Limits \in Seq(LimitIds)
  /\ \A j, k \in DOMAIN Limits : Limits[j] = Limits[k] => j = k
  /\ {Capacity, RefillRate, Burst, LeakDepth, WindowMax, DelayQueue, PermitTtl, MaxCount,
      MaxPermits, MaxTicks} \subseteq Nat
  /\ {RefillInterval, WindowTicks} \subseteq Nat \ {0}
  /\ RefillRate % RefillInterval = 0

VARIABLES
  limiterUp,  \* _started
  ticks,      \* the clock
  rules,      \* rules[p]: the _PolicyRuntimeState of policy p
  delayed,    \* total_depth of the queues
  permits,    \* the reservations, in order of creation
  passed      \* history: passed[p], the times of the requests that p let
              \* through since its state was made

limiterVars == <<limiterUp, ticks, rules, delayed, permits, passed>>

NoRule == [kind |-> "none"]

\* level and since: tokens and last_refill, the length of the queue and
\* last_drain, or _count and _window_start; entries: of the sliding window.
Rule == [kind : LimitKinds, enabled : BOOLEAN, level : 0..(Capacity + Burst + LeakDepth + WindowMax),
         since : 0..MaxTicks, burst : 0..Burst, entries : Seq(0..MaxTicks)]

LimiterTypeOK ==
  /\ limiterUp \in BOOLEAN /\ ticks \in 0..MaxTicks
  /\ rules \in [LimitIds -> Rule \union {NoRule}]
  /\ delayed \in 0..DelayQueue
  /\ permits \in Seq([status : {"reserved", "granted", "released", "rolled_back", "expired"},
                      expires : 0..(MaxTicks + PermitTtl)])
  /\ passed \in [LimitIds -> Seq(0..MaxTicks)]

LimiterInit ==
  /\ limiterUp = FALSE /\ ticks = 0
  /\ rules = [p \in LimitIds |-> NoRule]
  /\ delayed = 0 /\ permits = <<>>
  /\ passed = [p \in LimitIds |-> <<>>]

Enabled(p) == rules[p] # NoRule /\ rules[p].enabled
Lesser(a, b) == IF a < b THEN a ELSE b

-----------------------------------------------------------------------------
(* Buckets and windows. *)

Elapsed(r) == ticks - r.since
Due(r) == Elapsed(r) >= RefillInterval
Flow(r) == (Elapsed(r) * RefillRate) \div RefillInterval

\* Mutant: last_refill is not moved.
RefillAgain(r) ==
  IF Due(r) THEN [r EXCEPT !.level = Lesser(Capacity + Burst, @ + Flow(r))] ELSE r

\* _TokenBucketState.refill
Refill(r) ==
  IF Due(r) THEN [r EXCEPT !.level = Lesser(Capacity + Burst, @ + Flow(r)), !.since = ticks] ELSE r

\* _LeakyBucketState.drain
Drain(r) == IF Due(r) THEN [r EXCEPT !.level = @ - Lesser(@, Flow(r)), !.since = ticks] ELSE r

\* _RateSlidingWindow.expire: entries leave at the left up to the first that is
\* not before the cutoff.
Unexpired(s) == {k \in 1..(Len(s) + 1) : k <= Len(s) => s[k] >= ticks - WindowTicks}
Expire1m(r) ==
  [r EXCEPT !.entries = SubSeq(@, CHOOSE k \in Unexpired(@) : \A j \in Unexpired(@) : k <= j, Len(@))]

\* _FixedWindowCounter._check_reset
CheckReset(r) == IF Elapsed(r) >= WindowTicks THEN [r EXCEPT !.level = 0, !.since = ticks] ELSE r

UpToDate(r) ==
  CASE r.kind = "token_bucket"   -> Refill(r)
    [] r.kind = "leaky_bucket"   -> Drain(r)
    [] r.kind = "sliding_window" -> Expire1m(r)
    [] r.kind = "fixed_window"   -> CheckReset(r)

\* The states in which a rule that is up to date lets n tokens, or one request,
\* through: none when it does not.
LetsThrough(r, n) ==
  CASE r.kind = "token_bucket" /\ r.level >= n -> {[r EXCEPT !.level = @ - n]}
    [] r.kind = "leaky_bucket" /\ r.level < LeakDepth -> {[r EXCEPT !.level = @ + 1]}
    [] r.kind = "sliding_window" /\ Len(r.entries) < WindowMax -> {[r EXCEPT !.entries = Append(@, ticks)]}
    [] r.kind = "fixed_window" /\ r.level < WindowMax -> {[r EXCEPT !.level = @ + 1]}
    [] OTHER -> {}

\* try_consume_burst, after try_consume found less than one token.
Bursts(r) ==
  IF r.kind = "token_bucket" /\ r.level + Burst - r.burst >= 1 THEN {[r EXCEPT !.burst = @ + 1]} ELSE {}

\* _evaluate_policy: what follows when the request is let through.
Passing(p) ==
  LET r == UpToDate(rules[p])
  IN IF LetsThrough(r, 1) # {} THEN LetsThrough(r, 1) ELSE Bursts(r)

Queues(p) == rules[p].kind \in {"token_bucket", "leaky_bucket"} /\ delayed < DelayQueue

-----------------------------------------------------------------------------
(* Operations. *)

\* create_policy, update_policy, enable_policy and disable_policy make a new
\* runtime state, and with it a full bucket or an empty window.
SetLimit(p, kind, on) ==
  /\ rules' = [rules EXCEPT ![p] = [kind |-> kind, enabled |-> on, since |-> ticks, burst |-> 0,
                                    level |-> IF kind = "token_bucket" THEN Capacity ELSE 0,
                                    entries |-> <<>>]]
  /\ passed' = [passed EXCEPT ![p] = <<>>]
  /\ UNCHANGED <<limiterUp, ticks, delayed, permits>>

DeleteLimit(p) ==
  /\ rules[p] # NoRule
  /\ rules' = [rules EXCEPT ![p] = NoRule]
  /\ passed' = [passed EXCEPT ![p] = <<>>]
  /\ UNCHANGED <<limiterUp, ticks, delayed, permits>>

LimiterStart ==
  /\ limiterUp' = TRUE
  /\ UNCHANGED <<ticks, rules, delayed, permits, passed>>

\* stop, and dispose, which also forgets the policies.
LimiterStop(dispose) ==
  /\ limiterUp' = FALSE
  /\ rules' = IF dispose THEN [p \in LimitIds |-> NoRule] ELSE rules
  /\ passed' = IF dispose THEN [p \in LimitIds |-> <<>>] ELSE passed
  /\ UNCHANGED <<ticks, delayed, permits>>

\* evaluate, for a request that the enabled policies in matching apply to.  The
\* first that does not let it through decides; those before it have counted it.
EvaluateLimits(matching) ==
  LET refusing == {k \in DOMAIN Limits : Limits[k] \in matching /\ Passing(Limits[k]) = {}}
      before == {k \in DOMAIN Limits : Limits[k] \in matching /\ \A j \in refusing : k < j}
      decides == {k \in refusing : \A j \in refusing : k <= j}
      Counts(p) == \E k \in before : p = Limits[k]
      Decides(p) == \E k \in decides : p = Limits[k]
  IN /\ limiterUp /\ matching # {} /\ \A p \in matching : Enabled(p)
     /\ rules' = [p \in LimitIds |-> IF Counts(p) THEN CHOOSE r \in Passing(p) : TRUE
                                    ELSE IF Decides(p) THEN UpToDate(rules[p]) ELSE rules[p]]
     /\ passed' = [p \in LimitIds |-> IF Counts(p) THEN Append(passed[p], ticks) ELSE passed[p]]
     /\ delayed' = IF \E p \in LimitIds : Decides(p) /\ Queues(p) THEN delayed + 1 ELSE delayed
     /\ UNCHANGED <<limiterUp, ticks, permits>>

\* consume asks the enabled policy with a token bucket that was created first,
\* here any, whatever its scope, and whether or not the engine is started.
Consume(p, n) ==
  LET r == Refill(rules[p]) IN
  /\ Enabled(p) /\ rules[p].kind = "token_bucket"
  /\ rules' = [rules EXCEPT ![p] = IF r.level >= n THEN [r EXCEPT !.level = @ - n] ELSE r]
  /\ passed' = [passed EXCEPT ![p] = IF r.level >= n THEN @ \o [k \in 1..n |-> ticks] ELSE @]
  /\ UNCHANGED <<limiterUp, ticks, delayed, permits>>

-----------------------------------------------------------------------------
(* Permits. *)

ReservePermit ==
  /\ Len(permits) < MaxPermits /\ \E p \in LimitIds : rules[p] # NoRule
  /\ permits' = Append(permits, [status |-> "reserved", expires |-> ticks + PermitTtl])
  /\ UNCHANGED <<limiterUp, ticks, rules, delayed, passed>>

SettlePermit(i, from, to) ==
  /\ permits[i].status \in from
  /\ permits' = [permits EXCEPT ![i].status = to]
  /\ UNCHANGED <<limiterUp, ticks, rules, delayed, passed>>

GrantPermit(i) ==
  SettlePermit(i, {"reserved"}, IF ticks > permits[i].expires THEN "expired" ELSE "granted")
ReleasePermit(i) == SettlePermit(i, {"granted"}, "released")
RollbackPermit(i) == SettlePermit(i, {"reserved", "granted"}, "rolled_back")

TimePasses ==
  /\ ticks < MaxTicks
  /\ ticks' = ticks + 1
  /\ UNCHANGED <<limiterUp, rules, delayed, permits, passed>>

PermitSteps ==
  \/ ReservePermit
  \/ \E i \in DOMAIN permits : GrantPermit(i) \/ ReleasePermit(i) \/ RollbackPermit(i)

\* What concerns the policies ps, of the given kinds.
LimitSteps(ps, kinds) ==
  \/ \E p \in ps :
       \/ \E kind \in kinds, on \in BOOLEAN : SetLimit(p, kind, on)
       \/ DeleteLimit(p)
       \/ \E n \in 1..MaxCount : Consume(p, n)
  \/ \E matching \in SUBSET ps : EvaluateLimits(matching)
  \/ LimiterStart
  \/ \E dispose \in BOOLEAN : LimiterStop(dispose)
  \/ TimePasses

LimiterNext == LimitSteps(LimitIds, LimitKinds) \/ PermitSteps

LimiterSpec == LimiterInit /\ [][LimiterNext]_limiterVars

-----------------------------------------------------------------------------
(* Properties. *)

\* What a policy may let through in any n ticks: a full bucket, twice the
\* burst (refills go over the capacity by it, and it can be borrowed once) and
\* what flows in; a full queue and what flows out; one window; two windows.
Allowance(kind, n) ==
  CASE kind = "token_bucket" -> Capacity + 2 * Burst + ((n + RefillInterval - 1) * RefillRate) \div RefillInterval
    [] kind = "leaky_bucket" -> LeakDepth + ((n + RefillInterval - 1) * RefillRate) \div RefillInterval
    [] kind = "sliding_window" -> WindowMax * (1 + n \div (WindowTicks + 1))
    [] kind = "fixed_window" -> WindowMax * (2 + n \div WindowTicks)

\* The requests let through at the times a to b.
Passes(s, a, b) == Cardinality({k \in DOMAIN s : s[k] \in a..b})

\* "Protects providers ... from overload": however requests, consumptions and
\* quiet times are spread, and although buckets and windows are brought up to
\* date only when they are asked, no stretch of time sees a policy let more
\* through than its configuration allows.
RatesKept ==
  \A p \in LimitIds : rules[p] # NoRule =>
    \A a \in 0..ticks : \A b \in a..ticks : Passes(passed[p], a, b) <= Allowance(rules[p].kind, b - a)
=============================================================================
