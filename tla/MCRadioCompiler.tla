--------------------------- MODULE MCRadioCompiler ----------------------------
(* An access point with one 2.4 GHz and two 5 GHz radios for TLC. *)
EXTENDS RadioCompiler, TLC

Bands == "r1" :> "2.4ghz" @@ "r2" :> "5ghz" @@ "r3" :> "5ghz"

Evidence(c, w, p) == [channels |-> c, widths |-> w, powers |-> p, synthetic |-> FALSE]
NoEvidence == Evidence({}, {}, {})
Each(x, y, z) == "r1" :> x @@ "r2" :> y @@ "r3" :> z

\* Full evidence; none but the reproduced settings; a third radio with a made-up
\* identifier; the first two radios only.
Reports ==
    LET full == Evidence({6, 44}, {20, 40}, {<<10, 12>>})
        mixed == Evidence({}, {20, 40}, {})
        synthetic == [full EXCEPT !.synthetic = TRUE]
    IN  {[radio |-> Each(full, full, full), pinned |-> FALSE],
         [radio |-> Each(NoEvidence, NoEvidence, mixed), pinned |-> TRUE],
         [radio |-> Each(full, full, synthetic), pinned |-> FALSE],
         [radio |-> "r1" :> NoEvidence @@ "r2" :> NoEvidence, pinned |-> FALSE]}

Pw(m, d) == {[mode |-> m, dbm |-> d]}
Enabled(b) == [Same EXCEPT !.enabled = {b}]
Tuned(c, w) == [Same EXCEPT !.channel = c, !.width = w]
Powering(m, d) == [Same EXCEPT !.power = Pw(m, d)]

Entry(i, b, s) == [id |-> i, band |-> b, set |-> s]
By(how, of) == {[by |-> how, of |-> of]}
Net(sel, full) == [radios |-> sel, full |-> full]

\* One change for each setting, by identifier and by band, and partial powers.
Changes ==
    {Entry({"r1"}, "2.4ghz", s) :
        s \in {Tuned({6}, {}), Tuned({}, {40}), Powering({"explicit"}, {}), Powering({}, {12}),
               Powering({"auto"}, {}), Powering({}, {})}}
      \cup {Entry({}, "2.4ghz", Tuned({Automatic}, {20})), Entry({}, "5ghz", Tuned({44}, {})),
            Entry({"r3"}, "5ghz", Tuned({}, {40})), Entry({"r3"}, "2.4ghz", Enabled(FALSE)),
            Entry({"r2"}, "5ghz", Powering({"auto"}, {12}))}

\* The radios alone, the WLANs alone, both, and requests that are refused.
Requests ==
    LET radios == {{Entry({"r1"}, "2.4ghz", Tuned({6}, {20})), Entry({"r2"}, "5ghz", Same)},
                   {Entry({}, "2.4ghz", Same), Entry({"r2"}, "5ghz", Enabled(FALSE)),
                    Entry({"r3"}, "5ghz", Powering({"explicit"}, {10}))},
                   {Entry({"r2"}, "5ghz", Same)},
                   {Entry({}, "5ghz", Enabled(TRUE))},
                   {Entry({"r2"}, "5ghz", Same), Entry({}, "5ghz", Same)}}
        nets == {"lab" :> Net(By("band", {"5ghz"}), TRUE),
                 "lab" :> Net(By("id", {"r2"}), FALSE),
                 "lab" :> Net({}, FALSE) @@ "iot" :> Net(By("band", {"2.4ghz"}), TRUE),
                 <<>>}
    IN  {[radios |-> s, nets |-> n] :
            s \in {{}} \cup {{x} : x \in radios}, n \in {{}} \cup {{x} : x \in nets}}

Rec(m, d) == [enabled |-> TRUE, channel |-> 6, width |-> 20, mode |-> m, dbm |-> d]
Wlan(lab, iot) == "lab" :> lab @@ "iot" :> iot

\* Radios unlisted and WLANs by identifier; radios listed and a WLAN by band;
\* a WLAN by band with the radios unlisted, beside an unowned one.
Baselines ==
    LET first == Rec("explicit", 10)
        second == [Rec("auto", Automatic) EXCEPT !.width = Unknown]
        records == Each(first, second, [Rec("other", Automatic) EXCEPT !.width = 40])
        lab(sel) == "lab" :> Net(sel, FALSE)
    IN  {[body |-> [radio |-> records, wlan |-> Wlan({"r1", "r3"}, {})],
          desired |-> [radios |-> {}, nets |-> lab(By("id", {"r1", "r3"}))]],
         [body |-> [radio |-> records, wlan |-> Wlan({"r2", "r3"}, {"r1"})],
          desired |-> [radios |-> {Each(Powering({"explicit"}, {}), Same, Same)},
                       nets |-> lab(By("band", {"5ghz"}))]],
         [body |-> [radio |-> records, wlan |-> Wlan({"r2", "r3"}, {"r1"})],
          desired |-> [radios |-> {}, nets |-> lab(By("band", {"5ghz"}))]],
         [body |-> [radio |-> "r1" :> first @@ "r2" :> second, wlan |-> Wlan({}, {})],
          desired |-> [radios |-> {"r1" :> Same}, nets |-> <<>>]]}
===============================================================================
