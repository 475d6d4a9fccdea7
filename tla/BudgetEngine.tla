---------------------------- MODULE BudgetEngine ----------------------------
(***************************************************************************)
(* BudgetEngineImpl (core/omniroute/budgets.py): policies, the usage kept  *)
(* per policy, and the reservations that evaluate() makes and clients      *)
(* commit, roll back, release or let expire.  Every operation runs under   *)
(* one asyncio.Lock, so it is one step.  Costs are small integers; the     *)
(* monthly limit works like the daily one, and warnings, statistics, cost  *)
(* prediction and the audit trail are left out.                            *)
(***************************************************************************)
EXTENDS Integers, Sequences, FiniteSets, FiniteSetsExt

CONSTANTS
  Policies,         \* policy ids in the order of _resolve_applicable_policies
  NoPolicy,         \* the empty policy id of a reservation no policy applies to
  TotalLimit,       \* TotalLimit[x]: max_spend_total, 0 for unlimited
  DailyLimit,       \* DailyLimit[x]: max_spend_daily, 0 for unlimited
  Costs,            \* estimated costs
  MaxReservations   \* bound: reservations made between two dispose() calls

PolicyIds == {Policies[k] : k \in 1..Len(Policies)}

ASSUME BudgetAssumption == /\ Policies \in Seq(PolicyIds)
                           /\ NoPolicy \notin PolicyIds
                           /\ TotalLimit \in [PolicyIds -> Nat]
                           /\ DailyLimit \in [PolicyIds -> Nat]
                           /\ Costs \subseteq Nat
                           /\ MaxReservations \in Nat

VARIABLES
  policies,      \* the policies that exist and are enabled
  overrides,     \* the policies an active override lifts the limits of
  emergency,     \* _emergency_mode
  usage,         \* _UsageTracker._usage
  reservations   \* _reservations, in the order they were made

budgetVars == <<policies, overrides, emergency, usage, reservations>>

Usage == [spent : Nat, daily : Nat, stale : BOOLEAN, reserved : Int]
Reservation == [policy : PolicyIds \union {NoPolicy}, cost : Costs,
                status : {"open", "committed", "rolled_back", "released"},
                due : BOOLEAN,    \* expires_at has passed
                charges : Nat]    \* history: how often its cost was recorded as spend

BudgetTypeOK ==
  /\ policies \subseteq PolicyIds
  /\ overrides \subseteq PolicyIds
  /\ emergency \in BOOLEAN
  /\ usage \in [PolicyIds -> Usage]
  /\ reservations \in Seq(Reservation)

NoUsage == [x \in PolicyIds |-> [spent |-> 0, daily |-> 0, stale |-> FALSE, reserved |-> 0]]

BudgetInit ==
  /\ policies = {}
  /\ overrides = {}
  /\ emergency = FALSE
  /\ usage = NoUsage
  /\ reservations = <<>>

----------------------------------------------------------------------------
(***************************************************************************)
(* Usage and limits                                                        *)
(***************************************************************************)
\* add_reservation
AddReservation(u, x, cost) ==
  IF x = NoPolicy THEN u ELSE [u EXCEPT ![x].reserved = @ + cost]

\* remove_reservation: subtracts only while something is reserved.
RemoveReservation(u, x, cost) ==
  IF x = NoPolicy \/ u[x].reserved <= 0 THEN u ELSE [u EXCEPT ![x].reserved = @ - cost]

\* record_spend: the only place where a new day resets the daily sum.
RecordSpend(u, x, cost) ==
  IF x = NoPolicy THEN u
  ELSE [u EXCEPT ![x].spent = @ + cost,
                 ![x].daily = IF u[x].stale THEN cost ELSE @ + cost,
                 ![x].stale = FALSE]

\* The reservations cleanup finds expired.
Expired(r) == r.status = "open" /\ r.due

\* Mutant: expired reservations are released without giving the amount back.
CleanUsageKeeping == usage

\* _cleanup_expired_reservations_locked
CleanUsage ==
  LET cleaned[k \in 0..Len(reservations)] ==
        IF k = 0 THEN usage
        ELSE LET r == reservations[k]
             IN IF Expired(r) THEN RemoveReservation(cleaned[k - 1], r.policy, r.cost) ELSE cleaned[k - 1]
  IN cleaned[Len(reservations)]

CleanReservations ==
  [k \in 1..Len(reservations) |->
     IF Expired(reservations[k]) THEN [reservations[k] EXCEPT !.status = "released", !.due = FALSE]
     ELSE reservations[k]]

\* _evaluate_candidate: only what has been spent counts, not what is reserved.
\* (Limits on one request, and its own, only shorten the list of candidates.)
WithinLimits(x, cost) ==
  x \in overrides \/
  /\ TotalLimit[x] > 0 => usage[x].spent + cost <= TotalLimit[x]
  /\ DailyLimit[x] > 0 => usage[x].daily + cost <= DailyLimit[x]

Approves(cost) == ~emergency /\ \A x \in policies : WithinLimits(x, cost)

\* The policy the reservation is booked on: the last applicable one only.
EffectivePolicy ==
  IF policies = {} THEN NoPolicy
  ELSE Policies[Max({k \in 1..Len(Policies) : Policies[k] \in policies})]

NewReservation(x, cost) ==
  [policy |-> x, cost |-> cost, status |-> "open", due |-> FALSE, charges |-> 0]

----------------------------------------------------------------------------
(***************************************************************************)
(* Operations                                                              *)
(***************************************************************************)
\* evaluate(): a reservation for every approved candidate, in their order.
Evaluate(costs) ==
  LET x == EffectivePolicy
      booked[k \in 0..Len(costs)] ==
        IF k = 0 THEN [usage |-> CleanUsage, reservations |-> CleanReservations]
        ELSE IF Approves(costs[k])
        THEN [usage |-> AddReservation(booked[k - 1].usage, x, costs[k]),
              reservations |-> Append(booked[k - 1].reservations, NewReservation(x, costs[k]))]
        ELSE booked[k - 1]
  IN /\ Len(reservations) + Len(costs) <= MaxReservations
     /\ usage' = booked[Len(costs)].usage
     /\ reservations' = booked[Len(costs)].reservations
     /\ UNCHANGED <<policies, overrides, emergency>>

\* reserve(): without limits and without a policy.
Reserve(cost) ==
  /\ Len(reservations) < MaxReservations
  /\ usage' = CleanUsage
  /\ reservations' = Append(CleanReservations, NewReservation(NoPolicy, cost))
  /\ UNCHANGED <<policies, overrides, emergency>>

\* snapshot() cleans up as well.
BudgetSnapshot ==
  /\ usage' = CleanUsage
  /\ reservations' = CleanReservations
  /\ UNCHANGED <<policies, overrides, emergency>>

\* Mutant: commit tests the flags that rollback tests.
CanCommitReleased(r) == r.status \in {"open", "released"}

\* A reservation past its expiry can be committed until a cleanup has seen it.
CanCommit(r) == r.status = "open"

Commit(k) ==
  LET r == reservations[k] IN
  /\ CanCommit(r)
  /\ reservations' = [reservations EXCEPT ![k].status = "committed",
                                          ![k].charges = @ + 1]
  /\ usage' = RecordSpend(RemoveReservation(usage, r.policy, r.cost), r.policy, r.cost)
  /\ UNCHANGED <<policies, overrides, emergency>>

\* The end of a reservation without spending: the amount is given back, again
\* if it already was, since rollback() and release() test too few flags.
EndReservation(k, status) ==
  LET r == reservations[k] IN
  /\ reservations' = [reservations EXCEPT ![k].status = status, ![k].due = FALSE]
  /\ usage' = RemoveReservation(usage, r.policy, r.cost)
  /\ UNCHANGED <<policies, overrides, emergency>>

Rollback(k) ==
  /\ reservations[k].status \notin {"committed", "rolled_back"}
  /\ EndReservation(k, "rolled_back")

Release(k) ==
  /\ reservations[k].status # "released"
  /\ EndReservation(k, "released")

\* create_policy, update_policy, delete_policy: what a policy has used is kept.
ChangePolicy(x) ==
  /\ policies' = IF x \in policies THEN policies \ {x} ELSE policies \union {x}
  /\ UNCHANGED <<overrides, emergency, usage, reservations>>

\* apply_override, remove_override and the expiry of an override.
ChangeOverride(x) ==
  /\ overrides' = IF x \in overrides THEN overrides \ {x} ELSE overrides \union {x}
  /\ UNCHANGED <<policies, emergency, usage, reservations>>

SetEmergencyMode ==
  /\ emergency' = ~emergency
  /\ UNCHANGED <<policies, overrides, usage, reservations>>

BudgetDispose ==
  /\ policies' = {}
  /\ overrides' = {}
  /\ usage' = NoUsage
  /\ reservations' = <<>>
  /\ UNCHANGED emergency

\* RESERVATION_TTL_SECONDS run out for a reservation.
ReservationFallsDue(k) ==
  /\ reservations[k].status = "open"
  /\ ~reservations[k].due
  /\ reservations' = [reservations EXCEPT ![k].due = TRUE]
  /\ UNCHANGED <<policies, overrides, emergency, usage>>

NewDay ==
  /\ usage' = [x \in PolicyIds |-> [usage[x] EXCEPT !.stale = @ \/ usage[x].daily > 0]]
  /\ UNCHANGED <<policies, overrides, emergency, reservations>>

\* The estimated costs of the candidates that one call is asked about.
CandidateCosts == UNION {[1..n -> Costs] : n \in 1..MaxReservations}

BudgetNext ==
  \/ \E costs \in CandidateCosts : Evaluate(costs)
  \/ \E cost \in Costs : Reserve(cost)
  \/ BudgetSnapshot
  \/ \E k \in 1..Len(reservations) : Commit(k)
  \/ \E k \in 1..Len(reservations) : Rollback(k)
  \/ \E k \in 1..Len(reservations) : Release(k)
  \/ \E k \in 1..Len(reservations) : ReservationFallsDue(k)
  \/ \E x \in PolicyIds : ChangePolicy(x)
  \/ \E x \in PolicyIds : ChangeOverride(x)
  \/ SetEmergencyMode
  \/ BudgetDispose
  \/ NewDay

BudgetSpec == BudgetInit /\ [][BudgetNext]_budgetVars
----------------------------------------------------------------------------
(***************************************************************************)
(* Properties                                                              *)
(***************************************************************************)
\* What policy x was charged for the reservations rs, and what those that are
\* open hold of it.
ChargedTo(x, rs) ==
  [k \in 1..Len(rs) |-> IF rs[k].policy = x THEN rs[k].cost * rs[k].charges ELSE 0]
HeldOn(x, rs) ==
  [k \in 1..Len(rs) |-> IF rs[k].policy = x /\ rs[k].status = "open" THEN rs[k].cost ELSE 0]

Total(amounts) ==
  LET sum[k \in 0..Len(amounts)] == IF k = 0 THEN 0 ELSE sum[k - 1] + amounts[k]
  IN sum[Len(amounts)]

\* "reserve -> commit -> rollback lifecycle": whatever the order of commits,
\* rollbacks, releases and expiries, a reservation's cost is recorded as spend
\* at most once, and a policy's spend is what its reservations were charged.
ChargedOnce ==
  /\ \A k \in 1..Len(reservations) : reservations[k].charges <= 1
  /\ \A x \in PolicyIds : usage[x].spent = Total(ChargedTo(x, reservations))

\* active_reservations never claims more than the open reservations of the
\* policy amount to: no way of ending one leaves an amount blocked behind.
NothingStaysBlocked ==
  \A x \in PolicyIds : usage[x].reserved <= Total(HeldOn(x, reservations))
=============================================================================
