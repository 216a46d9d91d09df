---------------------------- MODULE MCWifiCompiler ----------------------------
(* A two-radio access point for TLC. *)
EXTENDS WifiCompiler, TLC

Says(p, v, R) == [policy |-> p, vlan |-> v, radios |-> R]

\* A complete policy, which also makes a WLAN; a move to another VLAN and to one
\* radio; no change.
Patches ==
    {Unchanged, Says({"x"}, {1}, {{1, 2}}), Says({}, {2}, {{2}})}

OneEthernet == <<1>>

None == <<>>
One(n, x) == n :> x
Ap(r, i) == VirtualInterface(r, i)

\* Nothing but the management bridge.
Bare ==
    [wireless |-> None, aaa |-> None, filter |-> None, vlan |-> None,
     netconf |-> One(1, Br(0)),
     bridge |-> One(1, [dev |-> Br(0), port |-> None]),
     radio |-> LET idle == [dev |-> NoDev, virtual |-> None] IN <<idle, idle>>]

\* A WLAN on radio 1 without a VLAN, its records at numbers of their own.
Plain ==
    [Bare EXCEPT
       !.wireless = One(2, [ssid |-> 1, parent |-> 1, dev |-> Ap(1, 0)]),
       !.aaa = One(3, [ssid |-> 1, dev |-> Ap(1, 0), br |-> Br(0), policy |-> "x"]),
       !.netconf = 1 :> Br(0) @@ 3 :> Ap(1, 0),
       !.filter = One(2, {Ap(1, 0)}),
       !.bridge = One(2, [dev |-> Br(0), port |-> One(2, Ap(1, 0))]),
       !.radio[1].dev = Ap(1, 0)]

\* Two WLANs in VLAN 1: one on both radios, one on radio 1 only.
Busy ==
    LET dev == <<Ap(1, 0), Ap(2, 0), Ap(1, 1)>>
        wlan(s, p, d) == [ssid |-> s, parent |-> p, dev |-> d]
        auth(s, d) == [ssid |-> s, dev |-> d, br |-> Br(1), policy |-> "x"]
    IN  [Bare EXCEPT
           !.wireless = <<wlan(1, 1, dev[1]), wlan(1, 2, dev[2]), wlan(2, 1, dev[3])>>,
           !.aaa = <<auth(1, dev[1]), auth(1, dev[2]), auth(2, dev[3])>>,
           !.netconf = dev \o <<Br(0), Br(1), Wire(1, 1)>>,
           !.vlan = One(1, Wire(1, 1)),
           !.bridge = 1 :> [dev |-> Br(0), port |-> None]
                      @@ 3 :> [dev |-> Br(1), port |-> <<Wire(1, 1)>> \o dev],
           !.radio = <<[dev |-> dev[1], virtual |-> One(2, dev[3])],
                       [dev |-> dev[2], virtual |-> None]>>]

\* The third projection disagrees with its body, the last body is without a
\* record for radio 2.
Baselines ==
    {[body |-> Bare, desired |-> Nothing],
     [body |-> Busy,
      desired |-> <<Says({"x"}, {1}, {{1, 2}}), Says({"x"}, {1}, {{1}})>>],
     [body |-> Plain, desired |-> One(1, Says({"y"}, {}, {{1}}))],
     [body |-> [Plain EXCEPT !.radio = One(1, @[1])],
      desired |-> One(1, Says({"x"}, {0}, {{1}}))]}
===============================================================================
