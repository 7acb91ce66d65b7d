-------------------------------- MODULE MCPe --------------------------------
(* Fabrics of two switches and two endpoints: a chain, a ring with a       *)
(* redundant cable, three cables in parallel, a cable that loops back to   *)
(* its switch; the devices have no component tag, or tags of an earlier    *)
(* enumeration.                                                            *)
EXTENDS Pe

MCSwitches == {"s1", "s2"}
MCEndpoints == {"e1", "e2"}
MCNPorts == [v \in {"mport", "e1", "e2"} |-> 1] @@ [v \in {"s1", "s2"} |-> 4]
MCTags == 1..7

Cable(a, p, b, q) == (<<a, p>> :> <<b, q>>) @@ (<<b, q>> :> <<a, p>>)
Trunk == Cable("mport", 0, "s1", 0) @@ Cable("s1", 1, "e1", 0) @@ Cable("s1", 2, "s2", 3)
Chain == Trunk @@ Cable("s2", 0, "e2", 0)
Ring == Trunk @@ Cable("s1", 3, "s2", 1) @@ Cable("s2", 0, "e2", 0)
Fat == Cable("mport", 0, "s1", 0) @@ Cable("s1", 1, "s2", 0) @@ Cable("s1", 2, "s2", 1) @@ Cable("s1", 3, "s2", 2)
Loop == Trunk @@ Cable("s2", 0, "s2", 1)

TagsOf(a, b, c, e) == "mport" :> UNSET @@ "s1" :> a @@ "s2" :> b @@ "e1" :> c @@ "e2" :> e
Table(routes) == [x \in 1..7 \cup {255} |-> IF x \in DOMAIN routes THEN routes[x] ELSE 99]

(* The configurations, which agree with the cables: the master port, s1    *)
(* and the device behind port 1 of s1; in addition s2, behind both cables  *)
(* of the ring.                                                            *)
Small == [conn |-> <<1, 0>> :> 2 @@ <<2, 0>> :> 1 @@ <<2, 1>> :> 3 @@ <<3, 0>> :> 2,
          rt |-> 2 :> Table(1 :> 0 @@ 3 :> 1)]
Whole == [conn |-> Small.conn @@ <<2, 2>> :> 4 @@ <<4, 3>> :> 2 @@ <<2, 3>> :> 4 @@ <<4, 1>> :> 2,
          rt |-> 2 :> Table(1 :> 0 @@ 3 :> 1 @@ 4 :> 2) @@ 4 :> Table(1 :> 3 @@ 3 :> 3)]

MCFabrics ==
  {[link |-> k[1], ct |-> t, conn |-> k[2].conn, rt |-> k[2].rt] :
     k \in {<<Chain, Small>>, <<Ring, Small>>, <<Ring, Whole>>, <<Fat, Small>>, <<Loop, Small>>},
     t \in {TagsOf(0, 0, 0, 0), TagsOf(3, 2, 1, 2), TagsOf(2, 3, 3, 4)}}
=============================================================================
