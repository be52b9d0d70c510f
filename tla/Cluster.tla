------------------------------ MODULE Cluster ------------------------------
(***************************************************************************)
(* The replicas of the gateway, which of them run, and the clocks.  clock  *)
(* is the time of Postgres and Redis, which share a host in                *)
(* docker-compose.yml; a replica's own clock may be ahead of it or behind. *)
(***************************************************************************)
EXTENDS Integers, FiniteSets

CONSTANTS
  Gateways,
  Ahead,      \* gateway -> how far its clock is ahead of clock
  Skew,       \* bound on that
  MaxClock,   \* bound on the time that passes
  MaxFaults   \* bound on what goes wrong

ASSUME ClusterAssumption ==
  /\ Skew \in Nat /\ MaxClock \in Nat /\ MaxFaults \in Nat
  /\ Ahead \in [Gateways -> (0 - Skew) .. Skew]

VARIABLES
  clock,
  up,         \* the replicas that run
  faults      \* what has gone wrong: a stop, a failed job, an error

cluster == <<clock, up, faults>>

(* time.Now() of a replica.                                                *)
Now(g) == clock + Ahead[g]

ClusterTypeOK ==
  /\ clock \in 0 .. MaxClock
  /\ up \subseteq Gateways
  /\ faults \in 0 .. MaxFaults

ClusterInit ==
  /\ clock = 0
  /\ up = Gateways
  /\ faults = 0

Fault == faults < MaxFaults /\ faults' = faults + 1

Up(g) ==
  /\ g \notin up
  /\ up' = up \cup {g}
  /\ UNCHANGED <<clock, faults>>

Down(g) ==
  /\ g \in up /\ Fault
  /\ up' = up \ {g}
  /\ UNCHANGED clock

TimePasses ==
  /\ clock < MaxClock
  /\ clock' = clock + 1
  /\ UNCHANGED <<up, faults>>

=============================================================================
