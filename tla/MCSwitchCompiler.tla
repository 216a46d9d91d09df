--------------------------- MODULE MCSwitchCompiler ---------------------------
(* A two-port switch for TLC. *)
EXTENDS SwitchCompiler, TLC

Says(e, v, T, m) == [enabled |-> e, native |-> v, tagged |-> T, poe |-> m]

\* Complete policies, which may also take a port over, and partial ones.
Patches ==
    {Says({TRUE}, {1}, {{2}}, {"off"}),
     Says({FALSE}, {2}, {{}}, {""}),
     Says({}, {2}, {}, {}),
     Says({TRUE}, {3}, {{1, 2}}, {"auto"}),
     Says({}, {}, {{1}}, {"auto"}),
     Unchanged}

Access(v) == [opmode |-> "switch", pvid |-> v, status |-> "enabled", poe |-> "auto"]

\* A value for each port.
Ports(x, y) == 1 :> x @@ 2 :> y

In(id, a, b) == [id |-> id, member |-> Ports(a, b)]

Owned(c) == 1 :> c

\* The VLAN records leave numbers out.  The first projection agrees with its
\* body, the second one does not, the third body has a VLAN without a number
\* and the fourth has two records of one VLAN.
Baselines ==
    {[port |-> Ports(Access(1), Access(1)),
      vlan |-> 2 :> In(1, "untagged", "untagged"),
      desired |-> LET says == Says({TRUE}, {1}, {{}}, {"auto"}) IN Ports(says, says)],
     [port |-> Ports(Access(1), Access(1)),
      vlan |-> 1 :> In(1, "untagged", "") @@ 3 :> In(2, "tagged", "tagged"),
      desired |-> Owned(Says({FALSE}, {2}, {}, {}))],
     [port |-> Ports(Access(1), NoRecord),
      vlan |-> 1 :> In(1, "untagged", "") @@ 2 :> In(0, "", ""),
      desired |-> Owned(Unchanged)],
     [port |-> LET mirror == [Access(1) EXCEPT !.opmode = "mirror"] IN Ports(mirror, mirror),
      vlan |-> 1 :> In(2, "", "") @@ 2 :> In(2, "", ""),
      desired |-> Nothing]}

\* Every capability; port 2 with no VLAN or PoE evidence; port 2 listed twice.
Descriptors ==
    LET both == {"auto", "off"} IN
    {[count |-> Ports(1, 1), vlan |-> {1, 2}, poe |-> Ports(both, both)],
     [count |-> Ports(1, 1), vlan |-> {1}, poe |-> Ports(both, {})],
     [count |-> Ports(1, 2), vlan |-> {1, 2}, poe |-> Ports(both, both)]}
===============================================================================
