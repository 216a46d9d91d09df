---------------------------- MODULE RadioCompiler -----------------------------
(***************************************************************************)
(* The radios of an access point, as its compiler composes them            *)
(* (internal/profile/ap: compiler.go, radio.go, baseline_policy.go).       *)
(*                                                                         *)
(* A radio is named by identifier or by band, in requests as well as by    *)
(* the WLANs that broadcast on it.  What a name means depends on the       *)
(* report, and on the radios the projection lists: once it lists any, a    *)
(* WLAN selects among those only.  A request merges into the projection,   *)
(* the omitted settings are read back from the body, and the result must   *)
(* be valid and have evidence in the report before it is written.          *)
(*                                                                         *)
(* An optional field is the empty set when omitted.  Operators that may    *)
(* fail give the set of their results.  Of a WLAN, only the radios it has  *)
(* records on are kept here (WifiCompiler has the rest), and whether its   *)
(* policy is complete; ieee_mode and cwm.mode are one width.               *)
(***************************************************************************)
EXTENDS Naturals

CONSTANTS
    Radio,     \* radio identifiers
    BandOf,    \* the band of each radio
    Name,      \* WLAN names
    Channel,   \* channel numbers
    DBm,       \* transmit powers
    Report,    \* what the access point may report of its radios
    Baseline,  \* bodies with projections that an operator may import
    Request,   \* full requests
    Change,    \* changes of one radio
    MaxRuns    \* bound: compilations explored after an import

Band == {"2.4ghz", "5ghz"}
Width == {20, 40}
PowerMode == {"auto", "explicit"}
Automatic == 0
Unknown == 0

AtMostOne(s) == \A x, y \in s : x = y
ExactlyOne(s) == \E x \in s : s = {x}

Optional(T) == {s \in SUBSET T : AtMostOne(s)}
The(o) == CHOOSE v \in o : TRUE

PowerConfig == [mode : Optional(PowerMode), dbm : Optional(DBm)]

\* The settings of network.RadioConfig; a null channel is Automatic.
Settings ==
    [enabled : Optional(BOOLEAN), channel : Optional(Channel \cup {Automatic}),
     width : Optional(Width), power : Optional(PowerConfig)]

Same == [enabled |-> {}, channel |-> {}, width |-> {}, power |-> {}]
NoPower == [mode |-> {}, dbm |-> {}]

\* A radio as a request names it: the identifier may be omitted.
RadioConfig == [id : Optional(Radio), band : Band, set : Settings]

\* Bands and RadioIDs exclude each other.
Selector == [by : {"band"}, of : SUBSET Band] \cup [by : {"id"}, of : SUBSET Radio]
WiFiNetwork == [radios : Optional(Selector), full : BOOLEAN]

\* f gives some members of S values in T.
Maps(f, S, T) == DOMAIN f \subseteq S /\ f \in [DOMAIN f -> T]

\* A request, with radios by name, and a projection, with radios resolved.
IsRequest(q) ==
    /\ AtMostOne(q.radios) /\ UNION q.radios \subseteq RadioConfig
    /\ AtMostOne(q.nets) /\ \A n \in q.nets : Maps(n, Name, WiFiNetwork)

IsConfig(c) ==
    /\ AtMostOne(c.radios) /\ \A f \in c.radios : Maps(f, Radio, Settings)
    /\ Maps(c.nets, Name, WiFiNetwork)

\* A radio record of a body.  Widths and power modes other than those a request
\* can ask for are Unknown and "other".
Record ==
    {x \in [enabled : BOOLEAN, channel : Channel \cup {Automatic}, width : Width \cup {Unknown},
            mode : PowerMode \cup {"other"}, dbm : DBm \cup {Automatic}] :
        x.mode = "explicit" <=> x.dbm # Automatic}

\* A descriptor: reported radios with their evidence, and whether model and
\* firmware are the ones with reproduced settings.
Capability ==
    [channels : SUBSET Channel, widths : SUBSET Width, powers : Optional(DBm \X DBm),
     synthetic : BOOLEAN]

\* What a projection says of a radio is what its body says.
Agrees(s, x) ==
    LET p == UNION {v.mode : v \in s.power}
        d == UNION {v.dbm : v \in s.power}
    IN  /\ s.enabled \subseteq {x.enabled}
        /\ s.channel \subseteq {x.channel}
        /\ s.width \subseteq {x.width}
        /\ p \subseteq {x.mode}
        /\ d # {} => x.mode = "explicit" /\ d = {x.dbm}

RadiosOf(c) == IF c.radios = {} THEN [r \in {} |-> Same] ELSE The(c.radios)

ASSUME RadioAssumption ==
    /\ BandOf \in [Radio -> Band]
    /\ Channel \subseteq Nat \ {Automatic} /\ DBm \subseteq Nat \ {Automatic}
    /\ \A rep \in Report : Maps(rep.radio, Radio, Capability) /\ rep.pinned \in BOOLEAN
    /\ \A b \in Baseline :
          /\ Maps(b.body.radio, Radio, Record)
          /\ b.body.wlan \in [Name -> SUBSET DOMAIN b.body.radio]
          /\ IsConfig(b.desired)
          /\ \A r \in DOMAIN RadiosOf(b.desired) \cap DOMAIN b.body.radio :
                Agrees(RadiosOf(b.desired)[r], b.body.radio[r])
    /\ \A q \in Request : IsRequest(q)
    /\ Change \subseteq RadioConfig
    /\ MaxRuns \in Nat

-------------------------------------------------------------------------------
(* Names of radios *)

\* resolveRadios, the radios that one entry of a request may mean.
Meant(rep, e) ==
    {r \in DOMAIN rep.radio : IF e.id # {} THEN r \in e.id ELSE BandOf[r] = e.band}

Identified(rep, r) == r \in DOMAIN rep.radio /\ ~rep.radio[r].synthetic

\* resolveConfigRadioIDs succeeds: every entry means one radio of its band.
Resolvable(rep, entries) ==
    \A e \in entries :
       /\ ExactlyOne(Meant(rep, e))
       /\ \A r \in Meant(rep, e) : Identified(rep, r) /\ BandOf[r] = e.band

\* The request with its radios by identifier.
Resolve(rep, req) ==
    [radios |-> {[r \in UNION {Meant(rep, e) : e \in s} |->
                     (CHOOSE e \in s : r \in Meant(rep, e)).set] : s \in req.radios},
     nets |-> req.nets]

\* compilationRadios: the radios a WLAN may select among.
Available(c, rep) == IF c.radios = {} THEN DOMAIN rep.radio ELSE DOMAIN RadiosOf(c)

\* resolveNetworkRadios: the radios of a WLAN, none where it fails.
Selected(w, available, rep) ==
    LET s == The(w.radios)
        found == IF s.by = "id" THEN s.of
                 ELSE {r \in available : BandOf[r] \in s.of}
        known == IF s.by = "id" THEN s.of \subseteq available
                 ELSE s.of \subseteq {BandOf[r] : r \in available}
    IN  IF w.radios # {} /\ known /\ \A r \in found : Identified(rep, r) THEN found ELSE {}

\* The identities of resolveBindings: the radios the projection lists, and each
\* WLAN on each of its radios.
Bindings(c, rep) ==
    [radio |-> DOMAIN RadiosOf(c),
     wifi |-> {x \in (DOMAIN c.nets) \X Radio : x[2] \in Selected(c.nets[x[1]], Available(c, rep), rep)}]

\* resolveBindings succeeds: they all have their records.
Binds(b, c, rep) ==
    /\ \A r \in DOMAIN RadiosOf(c) : Identified(rep, r) /\ r \in DOMAIN b.radio
    /\ \A w \in DOMAIN c.nets : Selected(c.nets[w], Available(c, rep), rep) # {}
    /\ \A x \in Bindings(c, rep).wifi : x[2] \in b.wlan[x[1]]

-------------------------------------------------------------------------------
(* Validation and merging *)

\* validateRadio, of the settings.
ValidSettings(s) == \A p \in s.power : p.mode = {"auto"} => p.dbm = {}

\* validateRadio, of the names: a band that occurs twice needs identifiers.
ValidNames(entries) ==
    \A e \in entries : \A f \in entries \ {e} :
       /\ e.id \cap f.id = {}
       /\ e.band = f.band => e.id # {}

\* validateNetworkSelectors, where the radios are given too.  An empty selector is
\* refused by it for an enabled WLAN only, and by Binds for every one.
ValidSelectors(nets, ids, bands) ==
    \A w \in DOMAIN nets : \A s \in nets[w].radios :
       s.of \subseteq IF s.by = "id" THEN ids ELSE bands

\* APConfig.Validate of a request, whose radios are as the operator named them.
ValidRequest(req) ==
    \A s \in req.radios :
       /\ ValidNames(s)
       /\ \A e \in s : ValidSettings(e.set)
       /\ \A n \in req.nets :
             ValidSelectors(n, UNION {e.id : e \in s}, {e.band : e \in s})

\* APConfig.Validate of a projection.
ValidConfig(c) ==
    \A f \in c.radios :
       /\ \A r \in DOMAIN f : ValidSettings(f[r])
       /\ ValidSelectors(c.nets, DOMAIN f, {BandOf[r] : r \in DOMAIN f})

Overlay(prior, supplied) == IF supplied # {} THEN supplied ELSE prior

MergePower(prior, p) ==
    LET old == IF prior = {} THEN NoPower ELSE The(prior)
    IN  [mode |-> Overlay(old.mode, p.mode),
         dbm |-> IF p.mode = {"auto"} THEN {} ELSE Overlay(old.dbm, p.dbm)]

MergeRadio(old, new) ==
    [enabled |-> Overlay(old.enabled, new.enabled),
     channel |-> Overlay(old.channel, new.channel),
     width |-> Overlay(old.width, new.width),
     power |-> IF new.power = {} THEN old.power
               ELSE {MergePower(old.power, p) : p \in new.power}]

MergeWiFi(old, new) ==
    [radios |-> Overlay(old.radios, new.radios), full |-> old.full \/ new.full]

\* MergeAP: the collections a request supplies replace the prior ones, member by
\* member.
MergeAP(prior, new) ==
    LET old == RadiosOf(prior) IN
    [radios |-> IF new.radios = {} THEN prior.radios
                ELSE {[r \in DOMAIN f |-> IF r \in DOMAIN old THEN MergeRadio(old[r], f[r])
                                          ELSE f[r]] : f \in new.radios},
     nets |-> IF new.nets = {} THEN prior.nets
              ELSE [w \in DOMAIN The(new.nets) |->
                      IF w \in DOMAIN prior.nets THEN MergeWiFi(prior.nets[w], The(new.nets)[w])
                      ELSE The(new.nets)[w]]]

-------------------------------------------------------------------------------
(* Composing a radio *)

\* reproducedRadioSetting
Reproduced(band, channel, width) ==
    \/ band = "2.4ghz" /\ width = 20 /\ channel \in {Automatic, 6, 11}
    \/ band = "2.4ghz" /\ width = 40 /\ channel = 6
    \/ band = "5ghz" /\ width = 40 /\ channel \in {Automatic, 44, 157}

\* resolveBoundRadio: the omitted settings as the body has them.
BoundRadio(x, s) ==
    LET p == IF s.power = {} THEN NoPower ELSE The(s.power)
        mode == Overlay({x.mode} \ {"other"}, p.mode)
        dbm == IF mode = {"explicit"} THEN Overlay({x.dbm} \ {Automatic}, p.dbm) ELSE p.dbm
    IN  [enabled |-> Overlay({x.enabled}, s.enabled),
         channel |-> Overlay({x.channel}, s.channel),
         width |-> Overlay({x.width} \ {Unknown}, s.width),
         power |-> IF mode = {} /\ dbm = {} THEN s.power ELSE {[mode |-> mode, dbm |-> dbm]}]

\* Mutant: the exception is granted to a channel, whatever the width.
ExceptionalChannel(rep, r, s) ==
    /\ rep.pinned
    /\ \E c \in s.channel, w \in Width : Reproduced(BandOf[r], c, w)

\* The settings in force were reproduced on this very firmware.
Exceptional(rep, r, s) ==
    /\ rep.pinned
    /\ \E c \in s.channel, w \in s.width : Reproduced(BandOf[r], c, w)

\* The report has evidence of the channel and the width that were asked for.
Evident(rep, r, asked, s) ==
    LET cap == rep.radio[r] IN
    /\ \/ asked.channel \ {Automatic} \subseteq cap.channels
       \/ cap.channels = {} /\ Exceptional(rep, r, s)
    /\ \/ asked.width \subseteq cap.widths
       \/ cap.widths = {} /\ Exceptional(rep, r, s)

\* overlayPower
Powered(cap, p, asked, x) ==
    CASE p.mode = {"explicit"} ->
           {[x EXCEPT !.mode = "explicit", !.dbm = d] :
               d \in {v \in p.dbm : \E b \in cap.powers : b[1] <= v /\ v <= b[2]}}
      [] p.mode = {"auto"} ->
           {IF asked.mode # {} THEN [x EXCEPT !.mode = "auto", !.dbm = Automatic] ELSE x}
      [] OTHER -> {}

\* Mutant: a power without its mode does not reach the body.
ComposeRadioModal(rep, r, asked, merged, x) ==
    LET s == BoundRadio(x, merged)
        set == [x EXCEPT
                  !.enabled = The(Overlay({@}, asked.enabled)),
                  !.channel = The(Overlay({@}, asked.channel)),
                  !.width = The(Overlay({@}, asked.width))]
    IN  IF ~ValidSettings(s) \/ ~Evident(rep, r, asked, s) THEN {}
        ELSE IF UNION {p.mode : p \in asked.power} = {} THEN {set}
        ELSE Powered(rep.radio[r], The(s.power), The(asked.power), set)

\* overlayRadio, of the record x, for the settings asked for and the merged ones.
ComposeRadio(rep, r, asked, merged, x) ==
    LET s == BoundRadio(x, merged)
        set == [x EXCEPT
                  !.enabled = The(Overlay({@}, asked.enabled)),
                  !.channel = The(Overlay({@}, asked.channel)),
                  !.width = The(Overlay({@}, asked.width))]
    IN  IF ~ValidSettings(s) \/ ~Evident(rep, r, asked, s) THEN {}
        ELSE IF asked.power = {} THEN {set}
        ELSE IF s.power = {} THEN {}
        ELSE Powered(rep.radio[r], The(s.power), The(asked.power), set)

-------------------------------------------------------------------------------
(* Compile *)

Had(bound, w) == {r \in Radio : <<w, r>> \in bound.wifi}

\* Mutant: WLANs are removed from radios though the request says nothing of them.
PlaceNetworksAlways(wlan, bound, new, c, rep) ==
    LET want(w) == IF w \in DOMAIN c.nets THEN Selected(c.nets[w], Available(c, rep), rep) ELSE {}
    IN  [w \in Name |-> (wlan[w] \ Had(bound, w)) \cup want(w)]

\* overlayNetworks and removeWiFiMembers: where WLANs have records afterwards.
PlaceNetworks(wlan, bound, new, c, rep) ==
    LET want(w) == IF w \in DOMAIN c.nets THEN Selected(c.nets[w], Available(c, rep), rep) ELSE {}
    IN  IF new.nets = {} THEN wlan
        ELSE [w \in Name |-> (wlan[w] \ Had(bound, w)) \cup want(w)]

\* A WLAN comes to a radio: as a copy of its only records, or from a complete
\* policy, never beside a record of that name that is there already.
CanPlace(b, bound, new, c, rep) ==
    new.nets # {} =>
       \A w \in DOMAIN c.nets :
          \A r \in Selected(c.nets[w], Available(c, rep), rep) \ Had(bound, w) :
             /\ r \notin b.wlan[w]
             /\ r \in DOMAIN b.radio
             /\ AtMostOne(Had(bound, w))
             /\ Had(bound, w) = {} => c.nets[w].full

\* Mutant: a radio that still has a WLAN is removed.
RemovableAlways(gone, wlan, c) == TRUE

\* removeRadios refuses while a WLAN has records on the radio or names it.
Removable(gone, wlan, c) ==
    /\ \A w \in Name : gone \cap wlan[w] = {}
    /\ \A w \in DOMAIN c.nets : \A s \in c.nets[w].radios : s.by = "id" => gone \cap s.of = {}

\* Mutant: the bindings of the prior projection are returned.
CompiledBindingsPrior(c, prior, rep) == Bindings(prior, rep)

CompiledBindings(c, prior, rep) == Bindings(c, rep)

\* The result of composing a resolved request, where every step succeeds.
Composed(body, prior, bind, rep, new) ==
    LET c == MergeAP(prior, new)
        bound == Bindings(prior, rep)
        asked == RadiosOf(new)
        write(r) == ComposeRadio(rep, r, asked[r], RadiosOf(c)[r], body.radio[r])
        gone == IF new.radios = {} THEN {} ELSE bound.radio \ DOMAIN RadiosOf(c)
        after == [radio |-> [r \in DOMAIN body.radio \ gone |->
                               IF r \in DOMAIN asked THEN The(write(r)) ELSE body.radio[r]],
                  wlan |-> PlaceNetworks(body.wlan, bound, new, c, rep)]
    IN  IF /\ ValidConfig(c)
           /\ Binds(body, prior, rep)
           /\ bind.radio \subseteq bound.radio /\ bind.wifi \subseteq bound.wifi
           /\ \A r \in DOMAIN asked : r \in DOMAIN body.radio /\ write(r) # {}
           /\ CanPlace(body, bound, new, c, rep)
           /\ Removable(gone, after.wlan, c)
           /\ Binds(after, c, rep)
        THEN {[body |-> after, desired |-> c, bind |-> CompiledBindings(c, prior, rep)]}
        ELSE {}

\* compiler.Compile
Compile(body, prior, bind, rep, req) ==
    IF ValidRequest(req) /\ \A s \in req.radios : Resolvable(rep, s)
    THEN Composed(body, prior, bind, rep, Resolve(rep, req))
    ELSE {}

-------------------------------------------------------------------------------
VARIABLES
    body,     \* the stored body
    desired,  \* DesiredAP
    bind,     \* Baseline.Bindings
    last,     \* history: what was committed last: report, request, full or one radio
    runs      \* compilations since the import

vars == <<body, desired, bind, last, runs>>

\* Every variable has its type: whole radio records, settings, selectors and
\* bindings of known radios and WLANs.
TypeOK ==
    /\ Maps(body.radio, Radio, Record)
    /\ body.wlan \in [Name -> SUBSET Radio]
    /\ IsConfig(desired)
    /\ bind.radio \subseteq Radio /\ bind.wifi \subseteq Name \X Radio
    /\ \A l \in last : l.rep \in Report /\ IsRequest(l.req) /\ l.full \in BOOLEAN
    /\ runs \in 0 .. MaxRuns

Unbound == [radio |-> {}, wifi |-> {}]
Nothing == [radios |-> {}, nets |-> {}]

\* commitCompiledLocked stores what Compile returned.
Commit(rep, req, full) ==
    /\ runs < MaxRuns
    /\ \E x \in Compile(body, desired, bind, rep, req) :
          body' = x.body /\ desired' = x.desired /\ bind' = x.bind
    /\ last' = {[rep |-> rep, req |-> req, full |-> full]}
    /\ runs' = runs + 1

\* A full Apply.
Apply(rep, req) == Commit(rep, req, TRUE)

\* radioIndex: the radios of the projection that a change may mean.
Listed(e) ==
    {r \in DOMAIN RadiosOf(desired) : IF e.id # {} THEN r \in e.id ELSE BandOf[r] = e.band}

\* Mutant: the change names no other radio, so the others are removed.
RadioMutationAlone(e) ==
    {[id |-> {r}, band |-> BandOf[r], set |-> e.set] : r \in Listed(e)}

\* radioMutationRequest: every radio of the projection by name, with the change.
RadioMutation(e) ==
    {[id |-> {r}, band |-> BandOf[r], set |-> IF r \in Listed(e) THEN e.set ELSE Same] :
        r \in DOMAIN RadiosOf(desired)}

\* setRadio.  A change that gives only the identifier is one with the radio's own
\* band, which the code fills in.
SetRadio(rep, e) ==
    /\ ExactlyOne(Listed(e))
    /\ \A r \in Listed(e) : BandOf[r] = e.band
    /\ Commit(rep, [radios |-> {RadioMutation(e)}, nets |-> {}], FALSE)

\* validateAPProjection: every WLAN of an imported projection selects radios.
ValidProjection(c) ==
    /\ ValidConfig(c)
    /\ \A w \in DOMAIN c.nets : c.nets[w].radios # {} /\ The(c.nets[w].radios).of # {}

Imported(rep, b) ==
    IF ValidProjection(b.desired) THEN Compile(b.body, b.desired, Unbound, rep, Nothing) ELSE {}

\* importBaseline stores a body whose projection compiles.
ImportBaseline(rep, b) ==
    /\ \E x \in Imported(rep, b) : body' = x.body /\ desired' = x.desired /\ bind' = x.bind
    /\ last' = {}
    /\ runs' = 0

Init ==
    /\ \E rep \in Report, b \in Baseline : \E x \in Imported(rep, b) :
          body = x.body /\ desired = x.desired /\ bind = x.bind
    /\ last = {}
    /\ runs = 0

Next ==
    \E rep \in Report :
       \/ \E b \in Baseline : ImportBaseline(rep, b)
       \/ \E req \in Request : Apply(rep, req)
       \/ \E e \in Change : SetRadio(rep, e)

Spec == Init /\ [][Next]_vars

-------------------------------------------------------------------------------
(* Properties *)

\* However partial requests follow each other, what the projection says of a
\* radio is what the body says: merging and writing, which are separate code,
\* never disagree, power with its mode and its value included.
ProjectionAgrees ==
    \A r \in DOMAIN RadiosOf(desired) :
       r \in DOMAIN body.radio /\ Agrees(RadiosOf(desired)[r], body.radio[r])

\* The body is whole: radio records of their type, power value and mode together,
\* and no WLAN, owned or not, has records on a radio whose own record is gone.
WLANsHaveRadios ==
    TypeOK /\ \A w \in Name : body.wlan[w] \subseteq DOMAIN body.radio

\* An operator who repeats the request committed last, because its answer was
\* lost, is not refused and changes nothing.
ReapplyIsStable ==
    \A l \in last :
       Compile(body, desired, bind, l.rep, l.req)
          = {[body |-> body, desired |-> desired, bind |-> bind]}

Committed == runs' = runs + 1

\* The radios that the request committed by this step supplied a setting for.
AskedRadios ==
    UNION {UNION {Meant(l.rep, e) : e \in {f \in UNION l.req.radios : f.set # Same}} : l \in last'}

\* A compilation leaves alone every radio the operator supplies nothing for; a
\* radio goes only in a full request, when it was listed and is not named again.
OthersUntouched ==
    [][Committed => \A r \in DOMAIN body.radio :
          \/ r \in AskedRadios
          \/ r \in DOMAIN body'.radio /\ body'.radio[r] = body.radio[r]
          \/ /\ r \in DOMAIN RadiosOf(desired)
             /\ \A l \in last' : l.full /\ \A e \in UNION l.req.radios : r \notin Meant(l.rep, e)]_vars

\* An explicit channel, width or power that a compilation brings into the body
\* has evidence in the report: the value itself, or where the report lists none,
\* a pair of channel and width that was reproduced on that firmware, with the
\* half of the pair that the request omitted taken from the body.
ChangesAreEvident ==
    [][Committed => \A l \in last' : \A r \in DOMAIN body.radio \cap DOMAIN body'.radio :
          LET x == body.radio[r]
              y == body'.radio[r]
              cap == l.rep.radio[r]
              pair == l.rep.pinned /\ Reproduced(BandOf[r], y.channel, y.width)
          IN  /\ y.channel \notin {x.channel, Automatic} =>
                    y.channel \in cap.channels \/ (cap.channels = {} /\ pair)
              /\ y.width # x.width =>
                    y.width \in cap.widths \/ (cap.widths = {} /\ pair)
              /\ y.mode = "explicit" /\ <<x.mode, x.dbm>> # <<y.mode, y.dbm>> =>
                    \E b \in cap.powers : b[1] <= y.dbm /\ y.dbm <= b[2]]_vars

\* A request that says nothing of WLANs takes no records from them, though it may
\* change which radios the access point has.  The one exception is
\* a WLAN that selects by band while the projection lists no radios: it then
\* loses the radios of its band that the request does not list, and their
\* records stay in the body without an owner.
NetworksKeepRecords ==
    [][Committed => \A l \in last' : l.req.nets = {} =>
          \A w \in DOMAIN desired.nets :
             \/ Had(bind, w) \subseteq Had(bind', w)
             \/ desired.radios = {} /\ The(desired.nets[w].radios).by = "band"]_vars
===============================================================================
