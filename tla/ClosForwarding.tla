----------------------------- MODULE ClosForwarding -----------------------------
(***************************************************************************)
(* Forwarding by RuleBasedRouting::Evaluate over the two Clos rules, on    *)
(* top of the failure control plane, and what the control plane is for:    *)
(* once a link event has been processed, packets are sent where they can   *)
(* arrive.                                                                 *)
(***************************************************************************)
EXTENDS FailureWithdrawal

\* ClosInterLevelTemplate::MatchPrefix: dst shares the fields above n's level.
MatchPrefix(n, dst) ==
  LET len == AddrSize - (LevelAddrBit[Level[n]] + 1)
  IN Leading(Address[n], len) = Leading(dst, len)

\* The bucket the matching rule selects from: SelectPortDownward by the
\* destination's field below n, SelectPortUpward any parent.
DefaultPorts(n, dst) ==
  IF MatchPrefix(n, dst)
  THEN IF Level[n] = 0 THEN {} ELSE BucketPorts(n, "down", DownwardKey(n, dst))
  ELSE BucketPorts(n, "up", <<>>)

\* RuleBasedRouting::Evaluate: the interfaces a packet for dst may leave by,
\* over all flow hashes; an exception overrides the rules even when empty.
NextHops(n, dst) ==
  IF HasException(exceptions[n], dst)
  THEN exceptions[n][LookupException(exceptions[n], dst)]
  ELSE Available(n, DefaultPorts(n, dst))

-----------------------------------------------------------------------------
(* The reference the routes are compared with, which the code does not     *)
(* compute: where a packet can get, up and then down, over links whose two *)
(* ends are up.                                                            *)
LinkUp(n, m) == m \notin down[n] /\ n \notin down[m]

\* n is dst, or a switch of dst's rack.
AtRackOf(n, dst) == Level[n] <= 1 /\ MatchPrefix(n, dst)

\* A packet for dst can get from n to a node for which Arrived holds.
ReachFunction(dst, Arrived(_)) ==
  LET R[n \in Node] == Arrived(n) \/ \E m \in DefaultPorts(n, dst) : LinkUp(n, m) /\ R[m]
  IN R

CanReachRack(dst) == ReachFunction(dst, LAMBDA n : AtRackOf(n, dst))
CanReachHost(dst) == ReachFunction(dst, LAMBDA n : Address[n] = dst)

\* The neighbours the rules of n name for dst from which R holds.
Usable(n, dst, R) == {m \in DefaultPorts(n, dst) : LinkUp(n, m) /\ R[m]}

-----------------------------------------------------------------------------
\* Once failures have been processed, the exception tables of all routers
\* together are exact: every router offers precisely the next hops that still
\* lead to the destination's rack, in whatever order links failed and
\* withdrawals were delivered.
RoutesExact ==
  Idle => \A dst \in HostAddress : LET R == CanReachRack(dst) IN
            \A n \in Node : AtRackOf(n, dst) \/ NextHops(n, dst) = Usable(n, dst, R)

\* Between calls no packet is sent to a port that is down, although entries
\* outlive the bucket state they were computed from.
NoFailedNextHop ==
  Idle => \A n \in Node, dst \in HostAddress : NextHops(n, dst) \cap down[n] = {}

\* Between calls the exceptions have only taken interfaces from those the rules
\* would select for the destination: no packet turns downward where it must go up, or up
\* again once it went down.
ExceptionsNarrowRules ==
  Idle => \A n \in Node, dst \in HostAddress : NextHops(n, dst) \subseteq DefaultPorts(n, dst)

\* No black hole: between calls no router sends a packet to a neighbour the
\* packet cannot get to its destination's rack from.
NoBlackHole ==
  Idle => \A dst \in HostAddress : LET R == CanReachRack(dst) IN
            \A n \in Node : AtRackOf(n, dst) \/ NextHops(n, dst) \subseteq Usable(n, dst, R)

\* The same down to the host: a router that has a neighbour the packet can
\* reach its destination from sends it to no other.
NoHostBlackHole ==
  Idle => \A dst \in HostAddress : LET R == CanReachHost(dst) IN
            \A n \in Node : LET usable == Usable(n, dst, R)
                            IN usable = {} \/ NextHops(n, dst) \subseteq usable

\* The gate per sender only drops duplicates: when it drops a withdrawal, the
\* receiver has stopped routing the region by the sender already.
GateDropsOnlyDuplicates ==
  dispatching => \A p \in Entry.peers :
     PassesSenderGate(p) \/ \A dst \in HostAddress :
        Matches(Entry.rk, dst) => Entry.from \notin NextHops(p, dst)
===============================================================================
