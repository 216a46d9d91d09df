---------------------------- MODULE MCDeviceReport ----------------------------
(* An access point with one 2.4 GHz and two 5 GHz radios, and a device that *)
(* sends partial reports.                                                   *)
EXTENDS DeviceReport, TLC

Channels == "a" :> 6 @@ "b" :> 44 @@ "c" :> 157
Names == "a" :> "wifi0" @@ "b" :> "wifi1" @@ "c" :> "wifi2"
Codes == "a" :> "ng" @@ "b" :> "na" @@ "c" :> "na"

\* How a report refers to radios: by name, by code, by both; a virtual access
\* point also by a name in the place of the code.
Forms == {"name", "code", "both"}

Entry(r, form, ch) ==
    [of |-> r, name |-> IF form = "code" THEN "" ELSE Names[r],
     code |-> IF form = "name" THEN "" ELSE Codes[r], channel |-> ch]

Vap(r, form, ch, full, n) ==
    [of |-> r, name |-> IF form \in {"code", "cross"} THEN "" ELSE Names[r],
     code |-> IF form = "name" THEN "" ELSE IF form = "cross" THEN Names[r] ELSE Codes[r],
     channel |-> IF ch THEN {Channels[r]} ELSE {},
     count |-> IF full THEN {n} ELSE {}, stations |-> n]

Stats(r) == [of |-> r, name |-> Names[r], channel |-> {Channels[r]}, count |-> {}]

Plain == [type |-> "uap", radios |-> <<>>, stats |-> <<>>, vaps |-> {}, ports |-> <<>>,
          ethernet |-> <<>>, uplink |-> "", valid |-> TRUE]

Radios(o, form, own) ==
    LET at(i) == Entry(o[i], form, IF own /\ i = 1 THEN {Channels[o[i]]} ELSE {})
    IN  IF Len(o) = 2 THEN <<at(1), at(2)>> ELSE <<at(1), at(2), at(3)>>

\* Radios in several orders and numbers.
TableReports ==
    {[Plain EXCEPT !.radios = Radios(o, form, FALSE)] :
        o \in {<<"a", "b">>, <<"b", "a">>, <<"c", "a", "b">>, <<"a", "b", "c">>}, form \in Forms}

\* Virtual access points on two radios, two of them on one, which leave out their
\* counts where the table has the channel; with statistics of the first radio.
ObservedReports ==
    {[Plain EXCEPT
        !.radios = Radios(o, "both", st = "table"),
        !.stats = IF st = "stats" THEN <<Stats(o[1])>> ELSE <<>>,
        !.vaps = {Vap(r, vform, TRUE, st # "table", 1) : r \in {"a", "b"}} \cup {Vap("a", vform, TRUE, st # "table", 2)}] :
        o \in {<<"a", "b">>, <<"c", "a", "b">>},
        vform \in Forms \cup {"cross"}, st \in {"none", "table", "stats"}}
    \cup
    {[Plain EXCEPT
        !.radios = Radios(<<"a", "b", "c">>, form, FALSE),
        !.vaps = {Vap("b", vform, FALSE, TRUE, 1)}] :
        form \in Forms, vform \in Forms}

Port(n, u) == [name |-> n, up |-> u]

\* Ports with and without interface names and states, beside an uplink, and an
\* Ethernet table.
PortReports ==
    {[Plain EXCEPT !.ports = p, !.uplink = "eth0"] :
        p \in {<<Port("", {})>>, <<Port("eth0", {TRUE}), Port("eth1", {TRUE})>>,
               <<Port("eth1", {TRUE}), Port("eth2", {})>>}
              \cup {<<Port("", x), Port("", y)>> : x, y \in {{}, {TRUE}}}}
    \cup {[Plain EXCEPT !.ports = <<Port("", {TRUE})>>, !.uplink = u, !.ethernet = <<"eth0", "eth1">>] :
             u \in {"", "eth0"}}

\* Reports that leave the type to the tables, contradict each other, or cannot be
\* decoded.
PartialReports ==
    LET radios == <<Entry("a", "name", {})>>
        ports == <<Port("", {})>>
    IN  {[Plain EXCEPT !.radios = r, !.ports = p, !.type = ""] : r \in {<<>>, radios}, p \in {<<>>, ports}}
        \cup {[Plain EXCEPT !.type = "usw", !.ports = ports, !.valid = v] : v \in BOOLEAN}
        \cup {[Plain EXCEPT !.type = t, !.radios = radios] : t \in {"usw", "other"}}

AllReports == "d1" :> (TableReports \cup ObservedReports \cup PortReports) @@ "d2" :> PartialReports
===============================================================================
