------------------------------ MODULE MCWithdrawal ------------------------------
(* Model checking the withdrawal protocol on small Clos fabrics. *)
EXTENDS ClosForwarding, ClosFabric

\* Two pods of two racks with two hosts each.
TwoOfEach == <<2, 2, 2>>

\* One edge switch per rack, two aggregation switches per pod, two cores,
\* either one per aggregation index (a fat tree) or fully meshed.
FatTreeNum == <<1, 2, 2>>
FatTreeGrp == <<1, 1, 2>>
FullMeshGrp == <<1, 1, 1>>

\* The same with two edge switches per rack: hosts are dual-homed.
DualTorNum == <<2, 2, 2>>

\* Two racks of two hosts, two edge switches each, under one spine switch.
LeafSpineSub == <<2, 2>>
LeafSpineNum == <<2, 1>>
LeafSpineGrp == <<1, 1>>

Core(i) == <<3, <<>>, i>>
Agg(pod, i) == <<2, <<pod>>, i>>
Edge(pod, rack, i) == <<1, <<pod, rack>>, i>>

\* The links between switches.
FabricLinks == {l \in ClosLinks : l[1][1] >= 2}
\* The links of pod 1 above its racks' hosts.
PodLinks == {l \in FabricLinks : l[2][2] # <<>> /\ l[2][2][1] = 1}
\* The links of one host.
HostLinks == {l \in ClosLinks : l[1][1] = 1 /\ \A i \in DOMAIN l[2][2] : l[2][2][i] = 1}
\* The links of a host's other edge switch to its pod, and of the host to the
\* switch that is left.
DualHostLinks == {<<Agg(1, 0), Edge(1, 1, 0)>>, <<Agg(1, 1), Edge(1, 1, 0)>>,
                  <<Edge(1, 1, 1), <<0, <<1, 1, 1>>, 0>>>>}
\* A rack that can lose its uplinks one by one, and a core link of its pod.
RackLinks == {<<Agg(1, 0), Edge(1, 1, 0)>>, <<Agg(1, 1), Edge(1, 1, 0)>>,
              <<Core(0), Agg(1, 0)>>}
\* One aggregation switch that can lose both its racks, and a core link.
AggLinks == {<<Agg(2, 1), Edge(2, 1, 0)>>, <<Agg(2, 1), Edge(2, 2, 0)>>,
             <<Core(0), Agg(1, 0)>>}
\* Two links of one pod whose hosts are dual-homed.
DualTorLinks == {<<Core(0), Agg(2, 0)>>, <<Agg(2, 1), Edge(2, 1, 0)>>}
===============================================================================
