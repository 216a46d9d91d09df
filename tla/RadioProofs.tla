----------------------------- MODULE RadioProofs ------------------------------
(***************************************************************************)
(* The radios of an access point: RadioCompiler keeps its projection, its  *)
(* body and its bindings in step through any sequence of partial requests, *)
(* for all radios, reports, baselines and requests.                        *)
(*                                                                         *)
(* A request is merged into the projection (MergeRadio) and written into   *)
(* the body (ComposeRadio) by separate code.  Follows says what the merged *)
(* settings have to do with the ones asked for and the record they are     *)
(* written into; both halves are shown against it.                         *)
(***************************************************************************)
EXTENDS RadioCompiler, TLAPS

(* Optional values *)

LEMMA TheOnly == \A v : The({v}) = v
BY DEF The

LEMMA OptionalCases ==
    ASSUME NEW T, NEW o \in Optional(T)
    PROVE  o = {} \/ \E v \in T : o = {v}
<1>1. SUFFICES ASSUME NEW v \in o
      PROVE  o = {v} /\ v \in T
  OBVIOUS
<1> QED  BY <1>1 DEF Optional, AtMostOne

LEMMA SingleIsOptional ==
    ASSUME NEW T, NEW v \in T
    PROVE  {v} \in Optional(T)
BY DEF Optional, AtMostOne

LEMMA EmptyIsOptional == \A T : {} \in Optional(T)
BY DEF Optional, AtMostOne

LEMMA OverlayIsOptional ==
    ASSUME NEW T, NEW o \in Optional(T), NEW n \in Optional(T)
    PROVE  Overlay(o, n) \in Optional(T)
BY DEF Overlay

LEMMA TheIn ==
    ASSUME NEW T, NEW o \in Optional(T), o # {}
    PROVE  The(o) \in T /\ o = {The(o)}
<1>1. PICK v \in T : o = {v}
  BY OptionalCases
<1> QED  BY <1>1, TheOnly

LEMMA TheOverlay ==
    ASSUME NEW T, NEW v \in T, NEW o \in Optional(T)
    PROVE  The(Overlay({v}, o)) \in T
BY TheIn, TheOnly DEF Overlay

LEMMA OverlayAgrees ==
    ASSUME NEW T, NEW v, NEW o \in Optional(T), NEW n,
           IF o = {} THEN n \subseteq {v} ELSE n = o
    PROVE  n \subseteq {The(Overlay({v}, o))}
BY TheIn, TheOnly DEF Overlay

-------------------------------------------------------------------------------
(* Settings *)

Mode(pw) == UNION {v.mode : v \in pw}
Value(pw) == UNION {v.dbm : v \in pw}

LEMMA PowerParts ==
    /\ Mode({}) = {} /\ Value({}) = {}
    /\ \A v : Mode({v}) = v.mode /\ Value({v}) = v.dbm
BY DEF Mode, Value

LEMMA RecordOfFour ==
    ASSUME NEW A, NEW B, NEW C, NEW D
    PROVE  /\ \A s \in [enabled : A, channel : B, width : C, power : D] :
                /\ s.enabled \in A /\ s.channel \in B /\ s.width \in C /\ s.power \in D
                /\ s = [enabled |-> s.enabled, channel |-> s.channel,
                        width |-> s.width, power |-> s.power]
           /\ \A a \in A, b \in B, c \in C, d \in D :
                [enabled |-> a, channel |-> b, width |-> c, power |-> d]
                   \in [enabled : A, channel : B, width : C, power : D]
OBVIOUS

LEMMA SettingsFields ==
    ASSUME NEW s \in Settings
    PROVE  /\ s.enabled \in Optional(BOOLEAN)
           /\ s.channel \in Optional(Channel \cup {Automatic})
           /\ s.width \in Optional(Width)
           /\ s.power \in Optional(PowerConfig)
           /\ s = [enabled |-> s.enabled, channel |-> s.channel,
                   width |-> s.width, power |-> s.power]
<1>1. s \in [enabled : Optional(BOOLEAN), channel : Optional(Channel \cup {Automatic}),
             width : Optional(Width), power : Optional(PowerConfig)]
  BY DEF Settings
<1> QED  BY <1>1, RecordOfFour

LEMMA PowerFields ==
    ASSUME NEW p \in PowerConfig
    PROVE  /\ p.mode \in Optional(PowerMode)
           /\ p.dbm \in Optional(DBm)
           /\ p = [mode |-> p.mode, dbm |-> p.dbm]
BY DEF PowerConfig

LEMMA NoPowerTyped == NoPower \in PowerConfig
BY EmptyIsOptional DEF NoPower, PowerConfig

LEMMA MergePowerTyped ==
    ASSUME NEW o \in Optional(PowerConfig), NEW p \in PowerConfig
    PROVE  MergePower(o, p) \in PowerConfig
<1> DEFINE old == IF o = {} THEN NoPower ELSE The(o)
<1>1. old \in PowerConfig
  BY NoPowerTyped, TheIn
<1> HIDE DEF old
<1>2. Overlay(old.mode, p.mode) \in Optional(PowerMode)
  BY <1>1, PowerFields, OverlayIsOptional
<1>3. Overlay(old.dbm, p.dbm) \in Optional(DBm)
  BY <1>1, PowerFields, OverlayIsOptional
<1>4. (IF p.mode = {"auto"} THEN {} ELSE Overlay(old.dbm, p.dbm)) \in Optional(DBm)
  BY <1>3, EmptyIsOptional
<1> QED  BY <1>2, <1>4 DEF MergePower, PowerConfig, old

LEMMA MergeRadioTyped ==
    ASSUME NEW o \in Settings, NEW n \in Settings
    PROVE  MergeRadio(o, n) \in Settings
<1>1. Overlay(o.enabled, n.enabled) \in Optional(BOOLEAN)
  BY SettingsFields, OverlayIsOptional
<1>2. Overlay(o.channel, n.channel) \in Optional(Channel \cup {Automatic})
  BY SettingsFields, OverlayIsOptional
<1>3. Overlay(o.width, n.width) \in Optional(Width)
  BY SettingsFields, OverlayIsOptional
<1> DEFINE pw == IF n.power = {} THEN o.power ELSE {MergePower(o.power, p) : p \in n.power}
<1>4. pw \in Optional(PowerConfig)
  <2>1. CASE n.power = {}
    BY <2>1, SettingsFields
  <2>2. ASSUME NEW p \in PowerConfig, n.power = {p}
        PROVE  pw \in Optional(PowerConfig)
    <3>1. pw = {MergePower(o.power, p)}
      BY <2>2
    <3> QED  BY <3>1, MergePowerTyped, SettingsFields, SingleIsOptional
  <2> QED  BY <2>1, <2>2, SettingsFields, OptionalCases
<1> HIDE DEF pw
<1>5. [enabled |-> Overlay(o.enabled, n.enabled), channel |-> Overlay(o.channel, n.channel),
       width |-> Overlay(o.width, n.width), power |-> pw]
         \in [enabled : Optional(BOOLEAN), channel : Optional(Channel \cup {Automatic}),
              width : Optional(Width), power : Optional(PowerConfig)]
  BY <1>1, <1>2, <1>3, <1>4, RecordOfFour
<1> QED  BY <1>5 DEF MergeRadio, Settings, pw

-------------------------------------------------------------------------------
(* Writing a radio *)

RecordOf(e, c, w, m, d) ==
    [enabled |-> e, channel |-> c, width |-> w, mode |-> m, dbm |-> d]

LEMMA RecordFields ==
    ASSUME NEW x \in Record
    PROVE  /\ x = RecordOf(x.enabled, x.channel, x.width, x.mode, x.dbm)
           /\ x.enabled \in BOOLEAN
           /\ x.channel \in Channel \cup {Automatic}
           /\ x.width \in Width \cup {Unknown}
           /\ x.mode \in PowerMode \cup {"other"}
           /\ x.dbm \in DBm \cup {Automatic}
           /\ x.mode = "explicit" <=> x.dbm # Automatic
BY DEF Record, RecordOf

LEMMA RecordTyped ==
    ASSUME NEW e \in BOOLEAN, NEW c \in Channel \cup {Automatic},
           NEW w \in Width \cup {Unknown}, NEW m \in PowerMode \cup {"other"},
           NEW d \in DBm \cup {Automatic}, m = "explicit" <=> d # Automatic
    PROVE  RecordOf(e, c, w, m, d) \in Record
BY DEF Record, RecordOf

\* What the merged settings m have to do with the settings a that were asked for
\* and the record x that they are written into.
Follows(m, a, x) ==
    /\ IF a.enabled = {} THEN m.enabled \subseteq {x.enabled} ELSE m.enabled = a.enabled
    /\ IF a.channel = {} THEN m.channel \subseteq {x.channel} ELSE m.channel = a.channel
    /\ IF a.width = {} THEN m.width \subseteq {x.width} ELSE m.width = a.width
    /\ a.power = {} =>
          /\ Mode(m.power) \subseteq {x.mode}
          /\ Value(m.power) # {} => x.mode = "explicit" /\ Value(m.power) = {x.dbm}
    /\ \A p \in a.power : \E mp \in PowerConfig :
          /\ m.power = {mp}
          /\ IF p.mode = {} THEN mp.mode \subseteq {x.mode} ELSE mp.mode = p.mode

LEMMA SelfFollows ==
    ASSUME NEW a \in Settings, NEW x \in Record
    PROVE  Follows(a, a, x)
<1>1. ASSUME NEW p \in a.power
      PROVE  p \in PowerConfig /\ a.power = {p}
  BY <1>1, SettingsFields, OptionalCases
<1>2. a.power = {} => Mode(a.power) = {} /\ Value(a.power) = {}
  BY PowerParts
<1> QED  BY <1>1, <1>2 DEF Follows

LEMMA MergeFollows ==
    ASSUME NEW o \in Settings, NEW a \in Settings, NEW x \in Record, Agrees(o, x)
    PROVE  Follows(MergeRadio(o, a), a, x)
<1> DEFINE m == MergeRadio(o, a)
<1>1. /\ m.enabled = Overlay(o.enabled, a.enabled)
      /\ m.channel = Overlay(o.channel, a.channel)
      /\ m.width = Overlay(o.width, a.width)
      /\ m.power = IF a.power = {} THEN o.power ELSE {MergePower(o.power, p) : p \in a.power}
  BY DEF MergeRadio
<1> HIDE DEF m
<1>2. /\ o.enabled \subseteq {x.enabled} /\ o.channel \subseteq {x.channel}
      /\ o.width \subseteq {x.width} /\ Mode(o.power) \subseteq {x.mode}
      /\ Value(o.power) # {} => x.mode = "explicit" /\ Value(o.power) = {x.dbm}
  BY DEF Agrees, Mode, Value
<1>3. ASSUME NEW p \in a.power
      PROVE  \E mp \in PowerConfig :
                /\ m.power = {mp}
                /\ IF p.mode = {} THEN mp.mode \subseteq {x.mode} ELSE mp.mode = p.mode
  <2>1. p \in PowerConfig /\ a.power = {p}
    BY <1>3, SettingsFields, OptionalCases
  <2>2. m.power = {MergePower(o.power, p)}
    BY <1>1, <2>1
  <2>3. MergePower(o.power, p) \in PowerConfig
    BY <2>1, SettingsFields, MergePowerTyped
  <2>4. MergePower(o.power, p).mode =
           Overlay(IF o.power = {} THEN NoPower.mode ELSE The(o.power).mode, p.mode)
    BY DEF MergePower
  <2>5. (IF o.power = {} THEN NoPower.mode ELSE The(o.power).mode) \subseteq {x.mode}
    <3>1. CASE o.power = {}
      BY <3>1 DEF NoPower
    <3>2. CASE o.power # {}
      <4>1. o.power = {The(o.power)}
        BY <3>2, SettingsFields, TheIn
      <4>2. Mode(o.power) = The(o.power).mode
        BY <4>1, PowerParts
      <4> QED  BY <4>2, <3>2, <1>2
    <3> QED  BY <3>1, <3>2
  <2> QED  BY <2>2, <2>3, <2>4, <2>5 DEF Overlay
<1> QED  BY <1>1, <1>2, <1>3 DEF Follows, Overlay, m

\* The power of resolveBoundRadio.
BoundMode(x, md) == Overlay({x.mode} \ {"other"}, md)
BoundValue(x, md, d) ==
    IF BoundMode(x, md) = {"explicit"} THEN Overlay({x.dbm} \ {Automatic}, d) ELSE d

LEMMA BoundPower ==
    ASSUME NEW x \in Record, NEW m \in Settings
    PROVE  /\ \A mp \in PowerConfig : m.power = {mp} =>
                 BoundRadio(x, m).power =
                    {[mode |-> BoundMode(x, mp.mode), dbm |-> BoundValue(x, mp.mode, mp.dbm)]}
           /\ m.power = {} =>
                 \A v \in BoundRadio(x, m).power : v.mode = {"auto"} => v.dbm = {}
<1>1. ASSUME NEW mp \in PowerConfig, m.power = {mp}
      PROVE  BoundRadio(x, m).power =
                {[mode |-> BoundMode(x, mp.mode), dbm |-> BoundValue(x, mp.mode, mp.dbm)]}
  <2>1. The(m.power) = mp /\ m.power # {}
    BY <1>1, TheOnly
  <2>2. BoundRadio(x, m).power =
           IF BoundMode(x, mp.mode) = {} /\ BoundValue(x, mp.mode, mp.dbm) = {} THEN m.power
           ELSE {[mode |-> BoundMode(x, mp.mode), dbm |-> BoundValue(x, mp.mode, mp.dbm)]}
    BY <2>1 DEF BoundRadio, BoundMode, BoundValue
  <2>3. BoundMode(x, mp.mode) = {} /\ BoundValue(x, mp.mode, mp.dbm) = {}
           => mp.mode = {} /\ mp.dbm = {}
    BY DEF BoundMode, BoundValue, Overlay
  <2> QED  BY <1>1, <2>2, <2>3, PowerFields
<1>2. ASSUME m.power = {}, NEW v \in BoundRadio(x, m).power, v.mode = {"auto"}
      PROVE  v.dbm = {}
  <2>1. BoundRadio(x, m).power =
           IF BoundMode(x, {}) = {} /\ BoundValue(x, {}, {}) = {} THEN {}
           ELSE {[mode |-> BoundMode(x, {}), dbm |-> BoundValue(x, {}, {})]}
    BY <1>2 DEF BoundRadio, BoundMode, BoundValue, NoPower
  <2>2. v.mode = BoundMode(x, {}) /\ v.dbm = BoundValue(x, {}, {})
    BY <1>2, <2>1
  <2> QED  BY <1>2, <2>2 DEF BoundValue
<1> QED  BY <1>1, <1>2

LEMMA ChangesInTurn ==
    ASSUME NEW x, NEW v1, NEW v2, NEW v3
    PROVE  /\ [x EXCEPT !.enabled = v1, !.channel = v2, !.width = v3]
                 = [[[x EXCEPT !.enabled = v1] EXCEPT !.channel = v2] EXCEPT !.width = v3]
           /\ [x EXCEPT !.mode = v1, !.dbm = v2] = [[x EXCEPT !.mode = v1] EXCEPT !.dbm = v2]
OBVIOUS

\* The record of overlayRadio before the power.
Tuned(x, a) ==
    RecordOf(The(Overlay({x.enabled}, a.enabled)), The(Overlay({x.channel}, a.channel)),
             The(Overlay({x.width}, a.width)), x.mode, x.dbm)

LEMMA TunedTyped ==
    ASSUME NEW x \in Record, NEW a \in Settings
    PROVE  /\ Tuned(x, a) \in Record
           /\ [x EXCEPT !.enabled = The(Overlay({@}, a.enabled)),
                        !.channel = The(Overlay({@}, a.channel)),
                        !.width = The(Overlay({@}, a.width))] = Tuned(x, a)
<1>1. The(Overlay({x.enabled}, a.enabled)) \in BOOLEAN
  BY SettingsFields, RecordFields, TheOverlay
<1>2. The(Overlay({x.channel}, a.channel)) \in Channel \cup {Automatic}
  <2>1. /\ x.channel \in Channel \cup {Automatic}
        /\ a.channel \in Optional(Channel \cup {Automatic})
    BY SettingsFields, RecordFields
  <2> QED  BY <2>1, TheOverlay, Zenon
<1>3. The(Overlay({x.width}, a.width)) \in Width \cup {Unknown}
  <2>1. /\ x.width \in Width \cup {Unknown}
        /\ a.width \in Optional(Width \cup {Unknown})
    BY SettingsFields, RecordFields DEF Optional
  <2> QED  BY <2>1, TheOverlay, Zenon
<1>4. Tuned(x, a) \in Record
  BY <1>1, <1>2, <1>3, RecordFields, RecordTyped DEF Tuned
<1>5. PICK e, c, w, m, d : x = RecordOf(e, c, w, m, d)
  BY RecordFields
<1>6. m = x.mode /\ d = x.dbm
  BY <1>5 DEF RecordOf
<1>7. ASSUME NEW e1, NEW c1, NEW w1
      PROVE  [x EXCEPT !.enabled = e1, !.channel = c1, !.width = w1]
                = RecordOf(e1, c1, w1, x.mode, x.dbm)
  <2> DEFINE y == [x EXCEPT !.enabled = e1]
             z == [y EXCEPT !.channel = c1]
  <2>1. y = RecordOf(e1, c, w, m, d)
    BY <1>5 DEF RecordOf
  <2>2. [x EXCEPT !.enabled = e1, !.channel = c1, !.width = w1] = [z EXCEPT !.width = w1]
    BY ChangesInTurn
  <2> HIDE DEF y
  <2>3. z = RecordOf(e1, c1, w, m, d)
    BY <2>1 DEF RecordOf
  <2> HIDE DEF z
  <2>4. [z EXCEPT !.width = w1] = RecordOf(e1, c1, w1, m, d)
    BY <2>3 DEF RecordOf
  <2> QED  BY <1>6, <2>2, <2>4
<1> QED  BY <1>4, <1>7 DEF Tuned

\* The record with the power of overlayPower.
LEMMA RepoweredIs ==
    ASSUME NEW x \in Record, NEW md, NEW d
    PROVE  [x EXCEPT !.mode = md, !.dbm = d] = RecordOf(x.enabled, x.channel, x.width, md, d)
<1>1. PICK e, c, w, m1, d1 : x = RecordOf(e, c, w, m1, d1)
  BY RecordFields
<1>2. e = x.enabled /\ c = x.channel /\ w = x.width
  BY <1>1 DEF RecordOf
<1> DEFINE y == [x EXCEPT !.mode = md]
<1>3. y = RecordOf(e, c, w, md, d1)
  BY <1>1 DEF RecordOf
<1>4. [x EXCEPT !.mode = md, !.dbm = d] = [y EXCEPT !.dbm = d]
  BY ChangesInTurn
<1> HIDE DEF y
<1>5. [y EXCEPT !.dbm = d] = RecordOf(e, c, w, md, d)
  BY <1>3 DEF RecordOf
<1> QED  BY <1>2, <1>4, <1>5

InBounds(cap, d) == \E b \in cap.powers : b[1] <= d /\ d <= b[2]

\* The three ways a power is written: not at all, explicit or automatic.
NotPowered(a, x, y) == a.power = {} /\ y.mode = x.mode /\ y.dbm = x.dbm

PoweredAs(how, cap, p, mp, x, y) ==
    /\ BoundMode(x, mp.mode) = {how}
    /\ IF how = "explicit"
       THEN /\ BoundValue(x, mp.mode, mp.dbm) = {y.dbm}
            /\ y.mode = "explicit" /\ y.dbm \in DBm /\ InBounds(cap, y.dbm)
       ELSE /\ BoundValue(x, mp.mode, mp.dbm) = {}
            /\ IF p.mode # {} THEN y.mode = "auto" /\ y.dbm = Automatic
               ELSE y.mode = x.mode /\ y.dbm = x.dbm

LEMMA AutomaticIsNoPower == Automatic \notin DBm /\ Automatic \notin Channel
BY RadioAssumption

LEMMA PoweredCases ==
    ASSUME NEW cap, NEW x \in Record, NEW p \in PowerConfig, NEW mp \in PowerConfig,
           NEW y \in Powered(cap, [mode |-> BoundMode(x, mp.mode),
                                   dbm |-> BoundValue(x, mp.mode, mp.dbm)], p, x),
           ValidSettings([power |-> {[mode |-> BoundMode(x, mp.mode),
                                      dbm |-> BoundValue(x, mp.mode, mp.dbm)]}])
    PROVE  /\ y \in Record
           /\ y.enabled = x.enabled /\ y.channel = x.channel /\ y.width = x.width
           /\ \E how \in PowerMode : PoweredAs(how, cap, p, mp, x, y)
<1> DEFINE md == BoundMode(x, mp.mode)
           val == BoundValue(x, mp.mode, mp.dbm)
<1>1. val \in Optional(DBm)
  <2>1. Overlay({x.dbm} \ {Automatic}, mp.dbm) \in Optional(DBm)
    <3>1. {x.dbm} \ {Automatic} \in Optional(DBm)
      <4>1. CASE x.dbm \in DBm
        BY <4>1, AutomaticIsNoPower, SingleIsOptional
      <4>2. CASE x.dbm = Automatic
        BY <4>2, EmptyIsOptional
      <4> QED  BY <4>1, <4>2, RecordFields
    <3> QED  BY <3>1, PowerFields, OverlayIsOptional
  <2> QED  BY <2>1, PowerFields DEF BoundValue
<1>2. md = {"auto"} => val = {}
  BY DEF ValidSettings
<1> HIDE DEF md, val
<1>3. y \in Powered(cap, [mode |-> md, dbm |-> val], p, x)
  BY DEF md, val
<1>4. CASE md = {"explicit"}
  <2>1. PICK d \in val : InBounds(cap, d) /\ y = [x EXCEPT !.mode = "explicit", !.dbm = d]
    BY <1>3, <1>4 DEF Powered, InBounds
  <2>2. val = {d} /\ d \in DBm
    BY <1>1, OptionalCases
  <2>3. y = RecordOf(x.enabled, x.channel, x.width, "explicit", d)
    BY <2>1, RepoweredIs
  <2>4. y \in Record
    BY <2>2, <2>3, RecordFields, RecordTyped, AutomaticIsNoPower DEF PowerMode
  <2>5. PoweredAs("explicit", cap, p, mp, x, y)
    BY <1>4, <2>1, <2>2, <2>3 DEF PoweredAs, RecordOf, md, val
  <2> QED  BY <2>3, <2>4, <2>5 DEF RecordOf, PowerMode
<1>5. CASE md = {"auto"}
  <2>1. y = IF p.mode # {} THEN [x EXCEPT !.mode = "auto", !.dbm = Automatic] ELSE x
    BY <1>3, <1>5 DEF Powered
  <2>2. CASE p.mode # {}
    <3>1. y = RecordOf(x.enabled, x.channel, x.width, "auto", Automatic)
      BY <2>1, <2>2, RepoweredIs
    <3>2. y \in Record
      BY <3>1, RecordFields, RecordTyped DEF PowerMode
    <3>3. PoweredAs("auto", cap, p, mp, x, y)
      BY <1>2, <1>5, <2>2, <3>1 DEF PoweredAs, RecordOf, md, val
    <3> QED  BY <3>1, <3>2, <3>3 DEF RecordOf, PowerMode
  <2>3. CASE p.mode = {}
    <3>1. PoweredAs("auto", cap, p, mp, x, y)
      BY <1>2, <1>5, <2>1, <2>3 DEF PoweredAs, md, val
    <3> QED  BY <2>1, <2>3, <3>1 DEF PowerMode
  <2> QED  BY <2>2, <2>3
<1>6. md = {"explicit"} \/ md = {"auto"}
  BY <1>3 DEF Powered
<1> QED  BY <1>4, <1>5, <1>6

\* A radio that is written: what the settings are checked against, what becomes of
\* the record, and how its power is written.
Written(rep, r, a, m, x, y) ==
    /\ ValidSettings(BoundRadio(x, m)) /\ Evident(rep, r, a, BoundRadio(x, m))
    /\ y \in Record
    /\ y.enabled = The(Overlay({x.enabled}, a.enabled))
    /\ y.channel = The(Overlay({x.channel}, a.channel))
    /\ y.width = The(Overlay({x.width}, a.width))
    /\ \/ NotPowered(a, x, y)
       \/ \E p, mp \in PowerConfig, how \in PowerMode :
             a.power = {p} /\ m.power = {mp} /\ PoweredAs(how, rep.radio[r], p, mp, x, y)

LEMMA ComposeCases ==
    ASSUME NEW rep, NEW r, NEW a \in Settings, NEW m \in Settings, NEW x \in Record,
           Follows(m, a, x), NEW y \in ComposeRadio(rep, r, a, m, x)
    PROVE  Written(rep, r, a, m, x, y)
<1> DEFINE t == Tuned(x, a)
           s == BoundRadio(x, m)
<1>1. /\ ValidSettings(s) /\ Evident(rep, r, a, s)
      /\ y \in IF a.power = {} THEN {t}
               ELSE IF s.power = {} THEN {}
               ELSE Powered(rep.radio[r], The(s.power), The(a.power), t)
  BY TunedTyped DEF ComposeRadio
<1>2. /\ t \in Record /\ t.mode = x.mode /\ t.dbm = x.dbm
      /\ t.enabled = The(Overlay({x.enabled}, a.enabled))
      /\ t.channel = The(Overlay({x.channel}, a.channel))
      /\ t.width = The(Overlay({x.width}, a.width))
  BY TunedTyped DEF Tuned, RecordOf
<1>3. CASE a.power = {}
  BY <1>1, <1>2, <1>3 DEF NotPowered, Written
<1>4. ASSUME NEW p \in PowerConfig, a.power = {p}
      PROVE  /\ y \in Record
             /\ y.enabled = t.enabled /\ y.channel = t.channel /\ y.width = t.width
             /\ \E mp \in PowerConfig, how \in PowerMode :
                   m.power = {mp} /\ PoweredAs(how, rep.radio[r], p, mp, x, y)
  <2>1. PICK mp \in PowerConfig : m.power = {mp}
    BY <1>4 DEF Follows
  <2> DEFINE q == [mode |-> BoundMode(x, mp.mode), dbm |-> BoundValue(x, mp.mode, mp.dbm)]
  <2>2. s.power = {q}
    BY <2>1, BoundPower
  <2>3. The(s.power) = q /\ The(a.power) = p /\ s.power # {} /\ a.power # {}
    BY <1>4, <2>2, TheOnly
  <2>4. BoundMode(x, mp.mode) = BoundMode(t, mp.mode)
        /\ BoundValue(x, mp.mode, mp.dbm) = BoundValue(t, mp.mode, mp.dbm)
    BY <1>2 DEF BoundMode, BoundValue
  <2>5. y \in Powered(rep.radio[r], [mode |-> BoundMode(t, mp.mode),
                                     dbm |-> BoundValue(t, mp.mode, mp.dbm)], p, t)
    BY <1>1, <2>3, <2>4
  <2>6. ValidSettings([power |-> {[mode |-> BoundMode(t, mp.mode),
                                   dbm |-> BoundValue(t, mp.mode, mp.dbm)]}])
    BY <1>1, <2>2, <2>4 DEF ValidSettings
  <2> HIDE DEF t, s, q
  <2>7. /\ y \in Record
        /\ y.enabled = t.enabled /\ y.channel = t.channel /\ y.width = t.width
        /\ \E how \in PowerMode : PoweredAs(how, rep.radio[r], p, mp, t, y)
    BY <1>2, <2>5, <2>6, PoweredCases
  <2>8. ASSUME NEW how \in PowerMode, PoweredAs(how, rep.radio[r], p, mp, t, y)
        PROVE  PoweredAs(how, rep.radio[r], p, mp, x, y)
    BY <1>2, <2>4, <2>8 DEF PoweredAs
  <2> QED  BY <2>1, <2>7, <2>8
<1>5. a.power = {} \/ \E p \in PowerConfig : a.power = {p}
  BY SettingsFields, OptionalCases
<1> HIDE DEF t, s
<1>6. CASE a.power # {}
  <2>1. PICK p \in PowerConfig : a.power = {p}
    BY <1>5, <1>6
  <2>2. PICK mp \in PowerConfig, how \in PowerMode :
           m.power = {mp} /\ PoweredAs(how, rep.radio[r], p, mp, x, y)
    BY <1>4, <2>1
  <2> QED  BY <1>1, <1>2, <1>4, <2>1, <2>2 DEF s, Written
<1> QED  BY <1>3, <1>6

\* What is written agrees with what is merged.
LEMMA ComposeAgrees ==
    ASSUME NEW rep, NEW r, NEW a \in Settings, NEW m \in Settings, NEW x \in Record,
           Follows(m, a, x), NEW y \in ComposeRadio(rep, r, a, m, x)
    PROVE  Agrees(m, y)
<1>1. Written(rep, r, a, m, x, y)
  BY ComposeCases
<1>2. /\ y.enabled = The(Overlay({x.enabled}, a.enabled))
      /\ y.channel = The(Overlay({x.channel}, a.channel))
      /\ y.width = The(Overlay({x.width}, a.width))
      /\ \/ NotPowered(a, x, y)
         \/ \E p, mp \in PowerConfig, how \in PowerMode :
               a.power = {p} /\ m.power = {mp} /\ PoweredAs(how, rep.radio[r], p, mp, x, y)
  BY <1>1 DEF Written
<1>3. /\ m.enabled \subseteq {y.enabled} /\ m.channel \subseteq {y.channel}
      /\ m.width \subseteq {y.width}
  <2>1. m.enabled \subseteq {The(Overlay({x.enabled}, a.enabled))}
    BY SettingsFields, OverlayAgrees DEF Follows
  <2>2. m.channel \subseteq {The(Overlay({x.channel}, a.channel))}
    BY SettingsFields, OverlayAgrees DEF Follows
  <2>3. m.width \subseteq {The(Overlay({x.width}, a.width))}
    BY SettingsFields, OverlayAgrees DEF Follows
  <2> QED  BY <2>1, <2>2, <2>3, <1>2
<1>4. /\ Mode(m.power) \subseteq {y.mode}
      /\ Value(m.power) # {} => y.mode = "explicit" /\ Value(m.power) = {y.dbm}
  <2>1. CASE NotPowered(a, x, y)
    BY <2>1 DEF NotPowered, Follows
  <2>2. ASSUME NEW p \in PowerConfig, NEW mp \in PowerConfig, NEW how \in PowerMode,
               a.power = {p}, m.power = {mp}, PoweredAs(how, rep.radio[r], p, mp, x, y)
        PROVE  /\ mp.mode \subseteq {y.mode}
               /\ mp.dbm # {} => y.mode = "explicit" /\ mp.dbm = {y.dbm}
    <3>1. IF p.mode = {} THEN mp.mode \subseteq {x.mode} ELSE mp.mode = p.mode
      BY <2>2 DEF Follows
    <3>2. mp.mode = {} \/ mp.mode = {how}
      BY <2>2 DEF PoweredAs, BoundMode, Overlay
    <3>3. CASE how = "explicit"
      BY <2>2, <3>2, <3>3 DEF PoweredAs, BoundValue, Overlay
    <3>4. CASE how = "auto"
      BY <2>2, <3>1, <3>2, <3>4 DEF PoweredAs, BoundValue, Overlay
    <3> QED  BY <3>3, <3>4 DEF PowerMode
  <2>3. CASE ~NotPowered(a, x, y)
    <3>1. PICK p \in PowerConfig, mp \in PowerConfig, how \in PowerMode :
             a.power = {p} /\ m.power = {mp} /\ PoweredAs(how, rep.radio[r], p, mp, x, y)
      BY <2>3, <1>2
    <3>2. Mode(m.power) = mp.mode /\ Value(m.power) = mp.dbm
      BY <3>1, PowerParts
    <3> QED  BY <2>2, <3>1, <3>2
  <2> QED  BY <2>1, <2>3
<1> QED  BY <1>3, <1>4 DEF Agrees, Mode, Value

\* The bound power of the record that was written is the one of the record before.
LEMMA PoweredAgain ==
    ASSUME NEW cap, NEW x \in Record, NEW y \in Record, NEW p, NEW mp,
           NEW how \in PowerMode, PoweredAs(how, cap, p, mp, x, y),
           IF p.mode = {} THEN mp.mode \subseteq {x.mode} ELSE mp.mode = p.mode
    PROVE  /\ BoundMode(y, mp.mode) = {how}
           /\ BoundValue(y, mp.mode, mp.dbm) = IF how = "explicit" THEN {y.dbm} ELSE {}
<1>1. mp.mode = {} \/ mp.mode = {how}
  BY DEF PoweredAs, BoundMode, Overlay
<1>2. CASE how = "explicit"
  <2>1. y.mode = "explicit" /\ y.dbm # Automatic
    BY <1>2, AutomaticIsNoPower DEF PoweredAs
  <2>2. BoundMode(y, mp.mode) = {how}
    BY <1>1, <1>2, <2>1 DEF BoundMode, Overlay
  <2>3. BoundValue(y, mp.mode, mp.dbm) = {y.dbm}
    BY <1>2, <2>1, <2>2 DEF PoweredAs, BoundValue, Overlay
  <2> QED  BY <1>2, <2>2, <2>3
<1>3. CASE how = "auto"
  <2>1. mp.dbm = {}
    BY <1>3 DEF PoweredAs, BoundValue
  <2>2. BoundMode(y, mp.mode) = {how}
    BY <1>1, <1>3 DEF PoweredAs, BoundMode, Overlay
  <2>3. BoundValue(y, mp.mode, mp.dbm) = {}
    BY <1>3, <2>1, <2>2 DEF BoundValue
  <2> QED  BY <1>3, <2>2, <2>3
<1> QED  BY <1>2, <1>3 DEF PowerMode

\* Writing the same settings again leaves the record as it is.
LEMMA ComposeAgain ==
    ASSUME NEW rep, NEW r, NEW a \in Settings, NEW m \in Settings, NEW x \in Record,
           Follows(m, a, x), NEW y \in ComposeRadio(rep, r, a, m, x)
    PROVE  ComposeRadio(rep, r, a, m, y) = {y}
<1> DEFINE s == BoundRadio(x, m)
           s2 == BoundRadio(y, m)
<1>1. Written(rep, r, a, m, x, y)
  BY ComposeCases
<1>2. y \in Record
  BY <1>1 DEF Written
<1>3. /\ y.enabled = The(Overlay({y.enabled}, a.enabled))
      /\ y.channel = The(Overlay({y.channel}, a.channel))
      /\ y.width = The(Overlay({y.width}, a.width))
      /\ a.channel = {} => y.channel = x.channel
      /\ a.width = {} => y.width = x.width
  <2> USE TheOnly DEF Overlay
  <2>1. /\ y.enabled = The(Overlay({x.enabled}, a.enabled))
        /\ y.channel = The(Overlay({x.channel}, a.channel))
        /\ y.width = The(Overlay({x.width}, a.width))
    BY <1>1 DEF Written
  <2>2. y.enabled = The(Overlay({y.enabled}, a.enabled))
    BY <2>1
  <2>3. y.channel = The(Overlay({y.channel}, a.channel)) /\ (a.channel = {} => y.channel = x.channel)
    BY <2>1
  <2>4. y.width = The(Overlay({y.width}, a.width)) /\ (a.width = {} => y.width = x.width)
    BY <2>1
  <2> QED  BY <2>2, <2>3, <2>4
<1>4. Tuned(y, a) = y
  <2>1. y = RecordOf(y.enabled, y.channel, y.width, y.mode, y.dbm)
    BY <1>2, RecordFields
  <2>2. Tuned(y, a) = RecordOf(y.enabled, y.channel, y.width, y.mode, y.dbm)
    BY <1>3 DEF Tuned
  <2> QED  BY <2>1, <2>2
<1>5. s2.channel = s.channel /\ s2.width = s.width
  BY <1>3 DEF BoundRadio, Follows, Overlay
<1>6. Evident(rep, r, a, s2)
  BY <1>1, <1>5 DEF Written, Evident, Exceptional
<1>7. ComposeRadio(rep, r, a, m, y) =
         IF ~ValidSettings(s2) THEN {}
         ELSE IF a.power = {} THEN {y}
         ELSE IF s2.power = {} THEN {}
         ELSE Powered(rep.radio[r], The(s2.power), The(a.power), y)
  <2>1. [y EXCEPT !.enabled = The(Overlay({@}, a.enabled)),
                  !.channel = The(Overlay({@}, a.channel)),
                  !.width = The(Overlay({@}, a.width))] = y
    BY <1>2, <1>4, TunedTyped
  <2> QED  BY <2>1, <1>6 DEF ComposeRadio
<1>8. CASE NotPowered(a, x, y)
  <2>1. s2.power = s.power
    BY <1>8 DEF BoundRadio, NotPowered
  <2>2. ValidSettings(s2)
    BY <1>1, <2>1 DEF Written, ValidSettings
  <2> QED  BY <1>7, <1>8, <2>2 DEF NotPowered
<1>9. CASE ~NotPowered(a, x, y)
  <2>1. PICK p \in PowerConfig, mp \in PowerConfig, how \in PowerMode :
           a.power = {p} /\ m.power = {mp} /\ PoweredAs(how, rep.radio[r], p, mp, x, y)
    BY <1>1, <1>9 DEF Written
  <2>2. IF p.mode = {} THEN mp.mode \subseteq {x.mode} ELSE mp.mode = p.mode
    BY <2>1 DEF Follows
  <2> DEFINE val == IF how = "explicit" THEN {y.dbm} ELSE {}
  <2>3. BoundMode(y, mp.mode) = {how} /\ BoundValue(y, mp.mode, mp.dbm) = val
    BY <1>2, <2>1, <2>2, PoweredAgain
  <2>4. s2.power = {[mode |-> {how}, dbm |-> val]}
    <3>1. s2.power = {[mode |-> BoundMode(y, mp.mode), dbm |-> BoundValue(y, mp.mode, mp.dbm)]}
      BY <1>2, <2>1, BoundPower
    <3> QED  BY <2>3, <3>1
  <2>5. ValidSettings(s2)
    BY <2>4 DEF ValidSettings
  <2>6. The(s2.power) = [mode |-> {how}, dbm |-> val] /\ The(a.power) = p
    BY <2>1, <2>4, TheOnly
  <2> HIDE DEF s, s2
  <2>7. Powered(rep.radio[r], [mode |-> {how}, dbm |-> val], p, y) = {y}
    <3>1. [y EXCEPT !.mode = y.mode, !.dbm = y.dbm] = y
      <4>1. [y EXCEPT !.mode = y.mode, !.dbm = y.dbm]
               = RecordOf(y.enabled, y.channel, y.width, y.mode, y.dbm)
        BY <1>2, RepoweredIs
      <4> QED  BY <1>2, <4>1, RecordFields
    <3>2. CASE how = "explicit"
      <4>1. y.mode = "explicit" /\ InBounds(rep.radio[r], y.dbm)
        BY <2>1, <3>2 DEF PoweredAs
      <4> QED  BY <3>1, <3>2, <4>1 DEF Powered, InBounds
    <3>3. CASE how = "auto"
      <4>1. p.mode # {} => y.mode = "auto" /\ y.dbm = Automatic
        BY <2>1, <3>3 DEF PoweredAs
      <4> QED  BY <3>1, <3>3, <4>1 DEF Powered
    <3> QED  BY <3>2, <3>3 DEF PowerMode
  <2> QED  BY <1>7, <2>1, <2>4, <2>5, <2>6, <2>7
<1> QED  BY <1>8, <1>9

LEMMA SameTyped == Same \in Settings
<1>1. [enabled |-> {}, channel |-> {}, width |-> {}, power |-> {}]
         \in [enabled : Optional(BOOLEAN), channel : Optional(Channel \cup {Automatic}),
              width : Optional(Width), power : Optional(PowerConfig)]
  BY EmptyIsOptional, RecordOfFour
<1> QED  BY <1>1 DEF Same, Settings

\* A radio that is named without a setting keeps its record.
LEMMA ComposeNothing ==
    ASSUME NEW rep, NEW r, NEW m \in Settings, NEW x \in Record,
           Follows(m, Same, x), NEW y \in ComposeRadio(rep, r, Same, m, x)
    PROVE  y = x
<1>1. Written(rep, r, Same, m, x, y)
  BY SameTyped, ComposeCases
<1>2. /\ y.enabled = x.enabled /\ y.channel = x.channel /\ y.width = x.width
      /\ y.mode = x.mode /\ y.dbm = x.dbm
  BY <1>1, TheOnly DEF Written, Same, Overlay, NotPowered
<1>3. /\ x = RecordOf(x.enabled, x.channel, x.width, x.mode, x.dbm)
      /\ y = RecordOf(y.enabled, y.channel, y.width, y.mode, y.dbm)
  BY <1>1, RecordFields DEF Written
<1> QED  BY <1>2, <1>3

\* What the report has to say of a changed record.
EvidentChange(rep, r, x, y) ==
    LET cap == rep.radio[r]
        pair == rep.pinned /\ Reproduced(BandOf[r], y.channel, y.width)
    IN  /\ y.channel \notin {x.channel, Automatic} =>
              y.channel \in cap.channels \/ (cap.channels = {} /\ pair)
        /\ y.width # x.width =>
              y.width \in cap.widths \/ (cap.widths = {} /\ pair)
        /\ y.mode = "explicit" /\ <<x.mode, x.dbm>> # <<y.mode, y.dbm>> =>
              \E b \in cap.powers : b[1] <= y.dbm /\ y.dbm <= b[2]

\* Whatever is changed has evidence.
LEMMA ComposeEvident ==
    ASSUME NEW rep, NEW r, NEW a \in Settings, NEW m \in Settings, NEW x \in Record,
           Follows(m, a, x), NEW y \in ComposeRadio(rep, r, a, m, x)
    PROVE  EvidentChange(rep, r, x, y)
<1> DEFINE s == BoundRadio(x, m)
           cap == rep.radio[r]
<1>1. Written(rep, r, a, m, x, y)
  BY ComposeCases
<1>2. Agrees(m, y)
  BY ComposeAgrees
<1>3. /\ y.enabled = The(Overlay({x.enabled}, a.enabled))
      /\ y.channel = The(Overlay({x.channel}, a.channel))
      /\ y.width = The(Overlay({x.width}, a.width))
  BY <1>1 DEF Written
<1>4. /\ a.channel = {} => y.channel = x.channel
      /\ a.channel # {} => a.channel = {y.channel}
      /\ a.width = {} => y.width = x.width
      /\ a.width # {} => a.width = {y.width}
  <2>1. a.channel # {} => a.channel = {The(a.channel)}
    BY SettingsFields, TheIn
  <2>2. a.width # {} => a.width = {The(a.width)}
    BY SettingsFields, TheIn
  <2> QED  BY <1>3, <2>1, <2>2, TheOnly DEF Overlay
<1>5. s.channel \subseteq {y.channel} /\ s.width \subseteq {y.width}
  BY <1>2, <1>4 DEF BoundRadio, Follows, Agrees, Overlay
<1>6. Exceptional(rep, r, s) => rep.pinned /\ Reproduced(BandOf[r], y.channel, y.width)
  BY <1>5 DEF Exceptional
<1>7. Evident(rep, r, a, s)
  BY <1>1 DEF Written
<1> HIDE DEF s
<1>8. y.channel \notin {x.channel, Automatic} =>
         y.channel \in cap.channels
            \/ (cap.channels = {} /\ rep.pinned /\ Reproduced(BandOf[r], y.channel, y.width))
  BY <1>4, <1>6, <1>7 DEF Evident
<1>9. y.width # x.width =>
         y.width \in cap.widths
            \/ (cap.widths = {} /\ rep.pinned /\ Reproduced(BandOf[r], y.channel, y.width))
  BY <1>4, <1>6, <1>7 DEF Evident
<1>10. y.mode = "explicit" /\ <<x.mode, x.dbm>> # <<y.mode, y.dbm>> => InBounds(cap, y.dbm)
  <2>1. CASE NotPowered(a, x, y)
    BY <2>1 DEF NotPowered
  <2>2. CASE ~NotPowered(a, x, y)
    <3>1. PICK p \in PowerConfig, mp \in PowerConfig, how \in PowerMode :
             PoweredAs(how, cap, p, mp, x, y)
      BY <1>1, <2>2 DEF Written
    <3> QED  BY <3>1 DEF PoweredAs
  <2> QED  BY <2>1, <2>2
<1> QED  BY <1>8, <1>9, <1>10 DEF EvidentChange, InBounds

-------------------------------------------------------------------------------
(* Requests and projections *)

\* A request whose radios are resolved.
Resolved(n) ==
    /\ AtMostOne(n.radios)
    /\ \A f \in n.radios : Maps(f, Radio, Settings) /\ \A r \in DOMAIN f : ValidSettings(f[r])
    /\ AtMostOne(n.nets)
    /\ \A w \in n.nets : Maps(w, Name, WiFiNetwork)

LEMMA TheMember ==
    ASSUME NEW o, o # {}
    PROVE  The(o) \in o
BY DEF The

LEMMA TheSole ==
    ASSUME NEW o, AtMostOne(o), NEW v \in o
    PROVE  o = {v} /\ The(o) = v
<1>1. o = {v}
  BY DEF AtMostOne
<1> QED  BY <1>1, TheOnly

LEMMA NoRadios ==
    ASSUME NEW c, c.radios = {}
    PROVE  DOMAIN RadiosOf(c) = {} /\ Maps(RadiosOf(c), Radio, Settings)
BY DEF RadiosOf, Maps

LEMMA RadiosTyped ==
    ASSUME NEW c, AtMostOne(c.radios), \A f \in c.radios : Maps(f, Radio, Settings)
    PROVE  Maps(RadiosOf(c), Radio, Settings)
<1>1. CASE c.radios = {}
  BY <1>1, NoRadios
<1>2. CASE c.radios # {}
  BY <1>2, TheMember DEF RadiosOf
<1> QED  BY <1>1, <1>2

LEMMA RadioConfigFields ==
    ASSUME NEW e \in RadioConfig
    PROVE  e.id \in Optional(Radio) /\ e.band \in Band /\ e.set \in Settings
BY DEF RadioConfig

LEMMA ResolveTyped ==
    ASSUME NEW rep \in Report, NEW q, IsRequest(q), ValidRequest(q)
    PROVE  Resolved(Resolve(rep, q))
<1> DEFINE dom(s) == UNION {Meant(rep, e) : e \in s}
           named(s) == [r \in dom(s) |-> (CHOOSE e \in s : r \in Meant(rep, e)).set]
           n == Resolve(rep, q)
<1>1. n.radios = {named(s) : s \in q.radios} /\ n.nets = q.nets
  BY DEF Resolve
<1>2. ASSUME NEW s \in q.radios
      PROVE  Maps(named(s), Radio, Settings) /\ \A r \in DOMAIN named(s) : ValidSettings(named(s)[r])
  <2>1. ASSUME NEW r \in dom(s)
        PROVE  named(s)[r] \in Settings /\ ValidSettings(named(s)[r]) /\ r \in Radio
    <3>1. PICK e \in s : r \in Meant(rep, e)
      BY <2>1
    <3>2. (CHOOSE e1 \in s : r \in Meant(rep, e1)) \in s
      BY <3>1
    <3>3. named(s)[r] \in Settings
      BY <3>2, <2>1, RadioConfigFields DEF IsRequest
    <3>4. ValidSettings(named(s)[r])
      BY <3>2, <2>1 DEF ValidRequest
    <3>5. r \in Radio
      BY <3>1, RadioAssumption DEF Meant, Maps
    <3> QED  BY <3>3, <3>4, <3>5
  <2>2. named(s) = [r \in dom(s) |-> named(s)[r]] /\ DOMAIN named(s) = dom(s)
    OBVIOUS
  <2> HIDE DEF named
  <2> QED  BY <2>1, <2>2 DEF Maps
<1> HIDE DEF named, n
<1>3. AtMostOne(n.radios) /\ AtMostOne(n.nets)
  BY <1>1 DEF IsRequest, AtMostOne
<1>4. \A w \in n.nets : Maps(w, Name, WiFiNetwork)
  BY <1>1 DEF IsRequest
<1> QED  BY <1>1, <1>2, <1>3, <1>4 DEF Resolved, n

LEMMA WiFiFields ==
    ASSUME NEW w \in WiFiNetwork
    PROVE  /\ w.radios \in Optional(Selector) /\ w.full \in BOOLEAN
           /\ w = [radios |-> w.radios, full |-> w.full]
BY DEF WiFiNetwork

LEMMA MergeWiFiTyped ==
    ASSUME NEW o \in WiFiNetwork, NEW n \in WiFiNetwork
    PROVE  MergeWiFi(o, n) \in WiFiNetwork
<1>1. Overlay(o.radios, n.radios) \in Optional(Selector)
  BY WiFiFields, OverlayIsOptional
<1>2. (o.full \/ n.full) \in BOOLEAN
  OBVIOUS
<1> QED  BY <1>1, <1>2 DEF MergeWiFi, WiFiNetwork

\* MergeAP of the radios: all as before, or exactly the named ones.
LEMMA MergedRadios ==
    ASSUME NEW D, NEW n, Resolved(n)
    PROVE  LET c == MergeAP(D, n) IN
           /\ n.radios = {} => c.radios = D.radios /\ RadiosOf(c) = RadiosOf(D)
           /\ n.radios # {} =>
                 /\ c.radios = {RadiosOf(c)}
                 /\ RadiosOf(c) =
                       [r \in DOMAIN RadiosOf(n) |->
                          IF r \in DOMAIN RadiosOf(D) THEN MergeRadio(RadiosOf(D)[r], RadiosOf(n)[r])
                          ELSE RadiosOf(n)[r]]
<1> DEFINE old == RadiosOf(D)
           merged(f) == [r \in DOMAIN f |-> IF r \in DOMAIN old THEN MergeRadio(old[r], f[r]) ELSE f[r]]
<1>1. MergeAP(D, n).radios = IF n.radios = {} THEN D.radios ELSE {merged(f) : f \in n.radios}
  BY DEF MergeAP
<1>2. CASE n.radios = {}
  BY <1>1, <1>2 DEF RadiosOf
<1>3. CASE n.radios # {}
  <2>1. PICK f : f \in n.radios
    BY <1>3
  <2>2. n.radios = {f} /\ RadiosOf(n) = f
    BY <2>1, TheSole DEF Resolved, RadiosOf
  <2> HIDE DEF old, merged
  <2>3. MergeAP(D, n).radios = {merged(f)}
    BY <1>1, <2>2
  <2>4. RadiosOf(MergeAP(D, n)) = merged(f)
    BY <2>3, TheOnly DEF RadiosOf
  <2> QED  BY <1>3, <2>2, <2>3, <2>4 DEF merged, old
<1> QED  BY <1>2, <1>3

LEMMA MergedNets ==
    ASSUME NEW D, NEW n, Resolved(n)
    PROVE  LET c == MergeAP(D, n) IN
           /\ n.nets = {} => c.nets = D.nets
           /\ \A f \in n.nets :
                 c.nets = [w \in DOMAIN f |->
                             IF w \in DOMAIN D.nets THEN MergeWiFi(D.nets[w], f[w]) ELSE f[w]]
<1>1. CASE n.nets = {}
  BY <1>1 DEF MergeAP
<1>2. ASSUME NEW f \in n.nets
      PROVE  MergeAP(D, n).nets = [w \in DOMAIN f |->
                IF w \in DOMAIN D.nets THEN MergeWiFi(D.nets[w], f[w]) ELSE f[w]]
  <2>1. The(n.nets) = f /\ n.nets # {}
    BY <1>2, TheSole DEF Resolved
  <2> QED  BY <2>1 DEF MergeAP
<1> QED  BY <1>1, <1>2

LEMMA MergeTyped ==
    ASSUME NEW D, NEW n, IsConfig(D), Resolved(n)
    PROVE  IsConfig(MergeAP(D, n))
<1> DEFINE c == MergeAP(D, n)
           old == RadiosOf(D)
           new == RadiosOf(n)
<1>1. Maps(old, Radio, Settings) /\ Maps(new, Radio, Settings)
  BY RadiosTyped DEF IsConfig, Resolved
<1>2. AtMostOne(c.radios) /\ \A f \in c.radios : Maps(f, Radio, Settings)
  <2>1. CASE n.radios = {}
    BY <2>1, MergedRadios DEF IsConfig
  <2>2. CASE n.radios # {}
    <3> DEFINE m == [r \in DOMAIN new |-> IF r \in DOMAIN old THEN MergeRadio(old[r], new[r]) ELSE new[r]]
    <3>1. c.radios = {RadiosOf(c)} /\ RadiosOf(c) = m
      BY <2>2, MergedRadios
    <3> HIDE DEF c, old, new
    <3>2. \A r \in DOMAIN new : m[r] \in Settings
      BY <1>1, MergeRadioTyped DEF Maps
    <3>3. DOMAIN m = DOMAIN new /\ m = [r \in DOMAIN new |-> m[r]]
      OBVIOUS
    <3> HIDE DEF m
    <3>4. Maps(m, Radio, Settings)
      BY <1>1, <3>2, <3>3 DEF Maps
    <3> QED  BY <3>1, <3>4 DEF AtMostOne
  <2> QED  BY <2>1, <2>2
<1>3. Maps(c.nets, Name, WiFiNetwork)
  <2>1. CASE n.nets = {}
    BY <2>1, MergedNets DEF IsConfig
  <2>2. ASSUME NEW f \in n.nets
        PROVE  Maps(c.nets, Name, WiFiNetwork)
    <3> DEFINE m == [w \in DOMAIN f |-> IF w \in DOMAIN D.nets THEN MergeWiFi(D.nets[w], f[w]) ELSE f[w]]
    <3>1. c.nets = m
      BY <2>2, MergedNets
    <3>2. Maps(f, Name, WiFiNetwork) /\ Maps(D.nets, Name, WiFiNetwork)
      BY <2>2 DEF IsConfig, Resolved
    <3>3. \A w \in DOMAIN f : m[w] \in WiFiNetwork
      BY <3>2, MergeWiFiTyped DEF Maps
    <3>4. DOMAIN m = DOMAIN f /\ m = [w \in DOMAIN f |-> m[w]]
      OBVIOUS
    <3> HIDE DEF m, c
    <3> QED  BY <3>1, <3>2, <3>3, <3>4 DEF Maps
  <2> QED  BY <2>1, <2>2
<1> QED  BY <1>2, <1>3 DEF IsConfig

-------------------------------------------------------------------------------
(* A compilation *)

\* Composed, by what it writes, what it removes, when it succeeds and what it gives.
Write(B, D, rep, n, r) ==
    ComposeRadio(rep, r, RadiosOf(n)[r], RadiosOf(MergeAP(D, n))[r], B.radio[r])

Gone(D, rep, n) ==
    IF n.radios = {} THEN {} ELSE Bindings(D, rep).radio \ DOMAIN RadiosOf(MergeAP(D, n))

After(B, D, rep, n) ==
    [radio |-> [r \in DOMAIN B.radio \ Gone(D, rep, n) |->
                  IF r \in DOMAIN RadiosOf(n) THEN The(Write(B, D, rep, n, r)) ELSE B.radio[r]],
     wlan |-> PlaceNetworks(B.wlan, Bindings(D, rep), n, MergeAP(D, n), rep)]

Accepts(B, D, K, rep, n) ==
    /\ ValidConfig(MergeAP(D, n))
    /\ Binds(B, D, rep)
    /\ K.radio \subseteq Bindings(D, rep).radio /\ K.wifi \subseteq Bindings(D, rep).wifi
    /\ \A r \in DOMAIN RadiosOf(n) : r \in DOMAIN B.radio /\ Write(B, D, rep, n, r) # {}
    /\ CanPlace(B, Bindings(D, rep), n, MergeAP(D, n), rep)
    /\ Removable(Gone(D, rep, n), After(B, D, rep, n).wlan, MergeAP(D, n))
    /\ Binds(After(B, D, rep, n), MergeAP(D, n), rep)

Result(B, D, rep, n) ==
    [body |-> After(B, D, rep, n), desired |-> MergeAP(D, n),
     bind |-> Bindings(MergeAP(D, n), rep)]

LEMMA ComposedIs ==
    \A B, D, K, rep, n :
       Composed(B, D, K, rep, n) = IF Accepts(B, D, K, rep, n) THEN {Result(B, D, rep, n)} ELSE {}
BY DEF Composed, Accepts, Result, After, Gone, Write, CompiledBindings

WellFormed(B) ==
    /\ Maps(B.radio, Radio, Record)
    /\ B.wlan \in [Name -> SUBSET Radio]
    /\ \A w \in Name : B.wlan[w] \subseteq DOMAIN B.radio

\* The projection agrees with the body on the radios that both have.
Agreeing(B, D) ==
    \A r \in DOMAIN RadiosOf(D) \cap DOMAIN B.radio : Agrees(RadiosOf(D)[r], B.radio[r])

LEMMA AskedFollow ==
    ASSUME NEW B, NEW D, NEW n, WellFormed(B), IsConfig(D), Agreeing(B, D), Resolved(n),
           NEW r \in DOMAIN RadiosOf(n), r \in DOMAIN B.radio
    PROVE  /\ RadiosOf(n)[r] \in Settings /\ RadiosOf(MergeAP(D, n))[r] \in Settings
           /\ B.radio[r] \in Record
           /\ Follows(RadiosOf(MergeAP(D, n))[r], RadiosOf(n)[r], B.radio[r])
           /\ r \in DOMAIN RadiosOf(MergeAP(D, n))
<1> DEFINE c == MergeAP(D, n)
           old == RadiosOf(D)
           new == RadiosOf(n)
           x == B.radio[r]
<1>1. Maps(old, Radio, Settings) /\ Maps(new, Radio, Settings) /\ x \in Record
  BY RadiosTyped DEF IsConfig, Resolved, WellFormed, Maps
<1>2. n.radios # {}
  BY NoRadios
<1>3. /\ DOMAIN RadiosOf(c) = DOMAIN new
      /\ RadiosOf(c)[r] = IF r \in DOMAIN old THEN MergeRadio(old[r], new[r]) ELSE new[r]
  BY <1>2, MergedRadios
<1>4. r \in DOMAIN old => Agrees(old[r], x)
  BY DEF Agreeing
<1> HIDE DEF c, old, new, x
<1>5. new[r] \in Settings /\ (r \in DOMAIN old => old[r] \in Settings)
  BY <1>1 DEF Maps, new
<1>6. RadiosOf(c)[r] \in Settings
  BY <1>3, <1>5, MergeRadioTyped
<1>7. Follows(RadiosOf(c)[r], new[r], x)
  BY <1>1, <1>3, <1>4, <1>5, MergeFollows, SelfFollows
<1> QED  BY <1>1, <1>3, <1>5, <1>6, <1>7 DEF c, old, new, x

\* The radios after an accepted request.
LEMMA WrittenRadios ==
    ASSUME NEW B, NEW D, NEW K, NEW rep, NEW n,
           WellFormed(B), IsConfig(D), Agreeing(B, D), Resolved(n), Accepts(B, D, K, rep, n),
           NEW r \in DOMAIN RadiosOf(n)
    PROVE  /\ r \in DOMAIN B.radio
           /\ The(Write(B, D, rep, n, r)) \in Write(B, D, rep, n, r)
           /\ The(Write(B, D, rep, n, r)) \in Record
           /\ Agrees(RadiosOf(MergeAP(D, n))[r], The(Write(B, D, rep, n, r)))
<1> DEFINE y == The(Write(B, D, rep, n, r))
           a == RadiosOf(n)[r]
           m == RadiosOf(MergeAP(D, n))[r]
           x == B.radio[r]
<1>1. r \in DOMAIN B.radio /\ y \in ComposeRadio(rep, r, a, m, x)
  BY TheMember DEF Accepts, Write
<1>2. a \in Settings /\ m \in Settings /\ x \in Record /\ Follows(m, a, x)
  BY <1>1, AskedFollow
<1>3. y \in Write(B, D, rep, n, r)
  BY <1>1 DEF Write
<1> HIDE DEF y, a, m, x
<1>4. Written(rep, r, a, m, x, y) /\ Agrees(m, y)
  BY <1>1, <1>2, ComposeCases, ComposeAgrees
<1> QED  BY <1>1, <1>3, <1>4 DEF Written, y, m

LEMMA SelectedAvailable ==
    ASSUME NEW w, NEW available, NEW rep
    PROVE  Selected(w, available, rep) \subseteq available
BY DEF Selected

LEMMA AvailableRadios ==
    ASSUME NEW c, IsConfig(c), NEW rep \in Report
    PROVE  Available(c, rep) \subseteq Radio
<1>1. DOMAIN rep.radio \subseteq Radio
  BY RadioAssumption DEF Maps
<1>2. DOMAIN RadiosOf(c) \subseteq Radio
  BY RadiosTyped DEF IsConfig, Maps
<1> QED  BY <1>1, <1>2 DEF Available

\* The radios that WLAN w is to be on.
Wanted(c, rep, w) ==
    IF w \in DOMAIN c.nets THEN Selected(c.nets[w], Available(c, rep), rep) ELSE {}

LEMMA HadIsWanted ==
    ASSUME NEW c, IsConfig(c), NEW rep \in Report, NEW w
    PROVE  Had(Bindings(c, rep), w) = Wanted(c, rep, w) /\ Wanted(c, rep, w) \subseteq Radio
<1>1. Wanted(c, rep, w) \subseteq Radio
  BY AvailableRadios, SelectedAvailable DEF Wanted
<1>2. ASSUME NEW r \in Radio
      PROVE  <<w, r>> \in Bindings(c, rep).wifi <=> r \in Wanted(c, rep, w)
  BY DEF Bindings, Wanted
<1> QED  BY <1>1, <1>2 DEF Had

\* A WLAN has records only where there are radios, before and after.
LEMMA PlacedSound ==
    ASSUME NEW B, NEW D, NEW K, NEW rep \in Report, NEW n,
           WellFormed(B), IsConfig(D), Resolved(n), Accepts(B, D, K, rep, n)
    PROVE  /\ After(B, D, rep, n).wlan \in [Name -> SUBSET Radio]
           /\ \A w \in Name : After(B, D, rep, n).wlan[w] \subseteq DOMAIN After(B, D, rep, n).radio
<1> DEFINE c == MergeAP(D, n)
           wlan == After(B, D, rep, n).wlan
           gone == Gone(D, rep, n)
<1>1. wlan = PlaceNetworks(B.wlan, Bindings(D, rep), n, c, rep)
  BY DEF After
<1>2. DOMAIN After(B, D, rep, n).radio = DOMAIN B.radio \ gone
  BY DEF After
<1>3. IsConfig(c)
  BY MergeTyped
<1>4. \A w \in Name : gone \cap wlan[w] = {}
  BY DEF Accepts, Removable
<1>5. ASSUME NEW w \in Name
      PROVE  Wanted(c, rep, w) \subseteq Radio /\ (n.nets # {} => Wanted(c, rep, w) \subseteq DOMAIN B.radio)
  <2>1. Wanted(c, rep, w) \subseteq Radio
    BY <1>3, HadIsWanted
  <2>2. ASSUME n.nets # {}, NEW r \in Wanted(c, rep, w)
        PROVE  r \in DOMAIN B.radio
    <3>1. w \in DOMAIN c.nets /\ r \in Selected(c.nets[w], Available(c, rep), rep)
      BY <2>2 DEF Wanted
    <3>2. CASE r \in Had(Bindings(D, rep), w)
      <4>1. <<w, r>> \in Bindings(D, rep).wifi
        BY <3>2 DEF Had
      <4>2. r \in B.wlan[w]
        BY <4>1 DEF Accepts, Binds
      <4> QED  BY <4>2 DEF WellFormed
    <3>3. CASE r \notin Had(Bindings(D, rep), w)
      BY <2>2, <3>1, <3>3 DEF Accepts, CanPlace
    <3> QED  BY <3>2, <3>3
  <2> QED  BY <2>1, <2>2
<1> HIDE DEF wlan, c, gone
<1>6. CASE n.nets = {}
  <2>1. wlan = B.wlan
    BY <1>1, <1>6 DEF PlaceNetworks
  <2> QED  BY <2>1, <1>2, <1>4 DEF WellFormed, wlan
<1>7. CASE n.nets # {}
  <2>1. ASSUME NEW w \in Name
        PROVE  wlan[w] \subseteq DOMAIN B.radio /\ wlan[w] \subseteq Radio
    <3>1. wlan[w] = (B.wlan[w] \ Had(Bindings(D, rep), w)) \cup Wanted(c, rep, w)
      BY <1>1, <1>7 DEF PlaceNetworks, Wanted
    <3> QED  BY <3>1, <1>5, <1>7 DEF WellFormed
  <2>2. wlan = [w \in Name |-> wlan[w]]
    BY <1>1, <1>7 DEF PlaceNetworks
  <2>3. wlan \in [Name -> SUBSET Radio]
    BY <2>1, <2>2
  <2> QED  BY <2>1, <2>3, <1>2, <1>4 DEF wlan
<1> QED  BY <1>6, <1>7

\* What is stored after a compilation is well formed, and its parts agree.
LEMMA ComposedSound ==
    ASSUME NEW B, NEW D, NEW K, NEW rep \in Report, NEW n,
           WellFormed(B), IsConfig(D), Agreeing(B, D), Resolved(n), Accepts(B, D, K, rep, n)
    PROVE  LET x == Result(B, D, rep, n) IN
           /\ WellFormed(x.body) /\ IsConfig(x.desired) /\ Agreeing(x.body, x.desired)
           /\ DOMAIN RadiosOf(x.desired) \subseteq DOMAIN x.body.radio
           /\ x.bind.radio \subseteq Radio /\ x.bind.wifi \subseteq Name \X Radio
<1> DEFINE c == MergeAP(D, n)
           new == RadiosOf(n)
           rs == After(B, D, rep, n).radio
           gone == Gone(D, rep, n)
<1>1. IsConfig(c)
  BY MergeTyped
<1>2. Bindings(c, rep).radio \subseteq Radio /\ Bindings(c, rep).wifi \subseteq Name \X Radio
  BY <1>1, RadiosTyped DEF Bindings, IsConfig, Maps
<1>3. DOMAIN RadiosOf(c) \subseteq DOMAIN rs
  BY DEF Accepts, Binds
<1>4. rs = [r \in DOMAIN B.radio \ gone |->
              IF r \in DOMAIN new THEN The(Write(B, D, rep, n, r)) ELSE B.radio[r]]
  BY DEF After
<1> HIDE DEF rs, gone
<1>5. ASSUME NEW r \in DOMAIN B.radio \ gone
      PROVE  rs[r] \in Record /\ r \in Radio
  <2>1. CASE r \in DOMAIN new
    BY <1>4, <2>1, WrittenRadios DEF WellFormed, Maps
  <2>2. CASE r \notin DOMAIN new
    BY <1>4, <2>2 DEF WellFormed, Maps
  <2> QED  BY <2>1, <2>2
<1>6. Maps(rs, Radio, Record)
  <2>1. DOMAIN rs = DOMAIN B.radio \ gone /\ rs = [r \in DOMAIN rs |-> rs[r]]
    BY <1>4
  <2> QED  BY <2>1, <1>5 DEF Maps
<1>7. ASSUME NEW r \in DOMAIN RadiosOf(c) \cap DOMAIN rs
      PROVE  Agrees(RadiosOf(c)[r], rs[r])
  <2>1. r \in DOMAIN B.radio /\ r \notin gone
    BY <1>4
  <2>2. CASE r \in DOMAIN new
    BY <1>4, <2>1, <2>2, WrittenRadios
  <2>3. CASE r \notin DOMAIN new
    <3>1. n.radios = {}
      BY <2>3, MergedRadios
    <3>2. RadiosOf(c) = RadiosOf(D)
      BY <3>1, MergedRadios
    <3> QED  BY <1>4, <2>1, <2>3, <3>2 DEF Agreeing
  <2> QED  BY <2>2, <2>3
<1>8. WellFormed(After(B, D, rep, n))
  BY <1>6, PlacedSound DEF WellFormed, rs
<1> QED  BY <1>1, <1>2, <1>3, <1>7, <1>8 DEF Result, Agreeing, rs

-------------------------------------------------------------------------------
(* The invariant *)

\* What the store holds fits together: a whole body, a projection that agrees
\* with it and lists only its radios, and bindings of known radios and WLANs.
Sound(B, D, K) ==
    /\ WellFormed(B) /\ IsConfig(D) /\ Agreeing(B, D)
    /\ DOMAIN RadiosOf(D) \subseteq DOMAIN B.radio
    /\ K.radio \subseteq Radio /\ K.wifi \subseteq Name \X Radio

RadioInv ==
    /\ Sound(body, desired, bind)
    /\ \A l \in last : l.rep \in Report /\ IsRequest(l.req) /\ l.full \in BOOLEAN
    /\ runs \in 0 .. MaxRuns

\* What Compile gives, taken apart.
Compiles(B, D, K, rep, q, x) ==
    /\ ValidRequest(q)
    /\ \A s \in q.radios : Resolvable(rep, s)
    /\ Resolved(Resolve(rep, q))
    /\ Accepts(B, D, K, rep, Resolve(rep, q))
    /\ x = Result(B, D, rep, Resolve(rep, q))

LEMMA CompileCases ==
    ASSUME NEW B, NEW D, NEW K, NEW rep \in Report, NEW q, IsRequest(q),
           NEW x \in Compile(B, D, K, rep, q)
    PROVE  Compiles(B, D, K, rep, q, x)
<1>1. ValidRequest(q) /\ (\A s \in q.radios : Resolvable(rep, s))
      /\ x \in Composed(B, D, K, rep, Resolve(rep, q))
  BY DEF Compile
<1>2. Accepts(B, D, K, rep, Resolve(rep, q)) /\ x = Result(B, D, rep, Resolve(rep, q))
  BY <1>1, ComposedIs
<1> QED  BY <1>1, <1>2, ResolveTyped DEF Compiles

LEMMA CompileSound ==
    ASSUME NEW B, NEW D, NEW K, NEW rep \in Report, NEW q, IsRequest(q),
           WellFormed(B), IsConfig(D), Agreeing(B, D), NEW x \in Compile(B, D, K, rep, q)
    PROVE  Sound(x.body, x.desired, x.bind)
<1>1. Compiles(B, D, K, rep, q, x)
  BY CompileCases
<1> DEFINE n == Resolve(rep, q)
<1>2. Accepts(B, D, K, rep, n) /\ Resolved(n) /\ x = Result(B, D, rep, n)
  BY <1>1 DEF Compiles
<1> HIDE DEF n
<1> QED  BY <1>2, ComposedSound DEF Sound

LEMMA ImportSound ==
    ASSUME NEW rep \in Report, NEW b \in Baseline, NEW x \in Imported(rep, b)
    PROVE  Sound(x.body, x.desired, x.bind)
<1>1. IsRequest(Nothing)
  BY DEF IsRequest, Nothing, AtMostOne
<1>2. WellFormed(b.body) /\ IsConfig(b.desired) /\ Agreeing(b.body, b.desired)
  <2>1. /\ Maps(b.body.radio, Radio, Record)
        /\ b.body.wlan \in [Name -> SUBSET DOMAIN b.body.radio]
    BY RadioAssumption
  <2>2. b.body.wlan \in [Name -> SUBSET Radio] /\ \A w \in Name : b.body.wlan[w] \subseteq DOMAIN b.body.radio
    BY <2>1 DEF Maps
  <2> QED  BY <2>1, <2>2, RadioAssumption DEF WellFormed, Agreeing
<1>3. x \in Compile(b.body, b.desired, Unbound, rep, Nothing)
  BY DEF Imported
<1> QED  BY <1>1, <1>2, <1>3, CompileSound

\* The request of setRadio is one of the type.
LEMMA MutationTyped ==
    ASSUME NEW e \in RadioConfig, IsConfig(desired)
    PROVE  IsRequest([radios |-> {RadioMutation(e)}, nets |-> {}])
<1>1. ASSUME NEW r \in DOMAIN RadiosOf(desired)
      PROVE  [id |-> {r}, band |-> BandOf[r], set |-> IF r \in Listed(e) THEN e.set ELSE Same]
                \in RadioConfig
  <2>1. r \in Radio
    BY RadiosTyped DEF IsConfig, Maps
  <2>2. {r} \in Optional(Radio) /\ BandOf[r] \in Band
    BY <2>1, SingleIsOptional, RadioAssumption
  <2> QED  BY <2>2, SameTyped, RadioConfigFields DEF RadioConfig
<1>2. RadioMutation(e) \subseteq RadioConfig
  BY <1>1 DEF RadioMutation
<1>3. UNION {RadioMutation(e)} = RadioMutation(e)
  OBVIOUS
<1> QED  BY <1>2, <1>3 DEF IsRequest, AtMostOne

\* A request to compile, with what setRadio guarantees of the one it makes.
Asks(rep, req, full) ==
    /\ rep \in Report /\ IsRequest(req) /\ full \in BOOLEAN
    /\ ~full => \E e \in RadioConfig : req = [radios |-> {RadioMutation(e)}, nets |-> {}]

LEMMA NextCases ==
    ASSUME RadioInv, Next
    PROVE  \/ \E rep \in Report, b \in Baseline : ImportBaseline(rep, b)
           \/ \E rep, req, full : Asks(rep, req, full) /\ Commit(rep, req, full)
<1>1. CASE \E rep \in Report, b \in Baseline : ImportBaseline(rep, b)
  BY <1>1
<1>2. ASSUME NEW rep \in Report, NEW req \in Request, Apply(rep, req)
      PROVE  Asks(rep, req, TRUE) /\ Commit(rep, req, TRUE)
  BY <1>2, RadioAssumption DEF Apply, Asks
<1>3. ASSUME NEW rep \in Report, NEW e \in Change, SetRadio(rep, e)
      PROVE  LET req == [radios |-> {RadioMutation(e)}, nets |-> {}] IN
             Asks(rep, req, FALSE) /\ Commit(rep, req, FALSE)
  <2>1. e \in RadioConfig
    BY RadioAssumption
  <2>2. IsRequest([radios |-> {RadioMutation(e)}, nets |-> {}])
    BY <2>1, MutationTyped DEF RadioInv, Sound
  <2> QED  BY <1>3, <2>1, <2>2 DEF SetRadio, Asks
<1> QED  BY <1>1, <1>2, <1>3 DEF Next

\* A committed request, with the stored values.
LEMMA CommitCases ==
    ASSUME RadioInv, NEW rep, NEW req, NEW full, Asks(rep, req, full), Commit(rep, req, full)
    PROVE  /\ Compiles(body, desired, bind, rep, req, [body |-> body', desired |-> desired', bind |-> bind'])
           /\ Sound(body, desired, bind) /\ Sound(body', desired', bind')
           /\ last' = {[rep |-> rep, req |-> req, full |-> full]}
           /\ runs' = runs + 1 /\ runs < MaxRuns
<1>1. PICK x \in Compile(body, desired, bind, rep, req) :
         body' = x.body /\ desired' = x.desired /\ bind' = x.bind
  BY DEF Commit
<1>2. Compiles(body, desired, bind, rep, req, x) /\ Sound(x.body, x.desired, x.bind)
  BY CompileCases, CompileSound DEF RadioInv, Sound, Asks
<1>3. x = [body |-> x.body, desired |-> x.desired, bind |-> x.bind]
  BY <1>2 DEF Compiles, Result
<1> QED  BY <1>1, <1>2, <1>3 DEF Commit, RadioInv

LEMMA RadioInit == Init => RadioInv
BY ImportSound, RadioAssumption DEF Init, RadioInv

LEMMA RadioStep == RadioInv /\ [Next]_vars => RadioInv'
<1> SUFFICES ASSUME RadioInv, [Next]_vars
             PROVE  RadioInv'
  OBVIOUS
<1>1. ASSUME NEW rep \in Report, NEW b \in Baseline, ImportBaseline(rep, b)
      PROVE  RadioInv'
  BY <1>1, ImportSound, RadioAssumption DEF ImportBaseline, RadioInv
<1>2. ASSUME NEW rep, NEW req, NEW full, Asks(rep, req, full), Commit(rep, req, full)
      PROVE  RadioInv'
  <2>1. Sound(body', desired', bind') /\ last' = {[rep |-> rep, req |-> req, full |-> full]}
        /\ runs' = runs + 1 /\ runs < MaxRuns
    BY <1>2, CommitCases
  <2>2. runs' \in 0 .. MaxRuns
    BY <2>1, RadioAssumption DEF RadioInv
  <2> QED  BY <1>2, <2>1, <2>2 DEF RadioInv, Asks
<1>3. CASE UNCHANGED vars
  BY <1>3 DEF vars, RadioInv, Sound
<1> QED  BY <1>1, <1>2, <1>3, NextCases

LEMMA RadioAlways == Spec => []RadioInv
BY RadioInit, RadioStep, PTL DEF Spec

\* The projection agrees with the body, after any sequence of partial requests:
\* MergeAP and the overlays of the compiler (internal/profile/ap) give one result.
THEOREM ProjectionNeverDisagrees == Spec => []ProjectionAgrees
<1>1. RadioInv => ProjectionAgrees
  BY DEF RadioInv, Sound, Agreeing, ProjectionAgrees
<1> QED  BY <1>1, RadioAlways, PTL

\* The body stays whole: radios of their type, power with its value, and no WLAN
\* on a radio that the compilation removed.
THEOREM BodyStaysWhole == Spec => []WLANsHaveRadios
<1>1. RadioInv => WLANsHaveRadios
  BY DEF RadioInv, Sound, WellFormed, WLANsHaveRadios, TypeOK
<1> QED  BY <1>1, RadioAlways, PTL
-------------------------------------------------------------------------------
(* What a compilation does to each radio *)

\* The radios of the resolved request: those its entries mean, each with the
\* settings of an entry that means it.
LEMMA ResolvedRadios ==
    ASSUME NEW rep, NEW q, IsRequest(q)
    PROVE  LET new == RadiosOf(Resolve(rep, q)) IN
           /\ DOMAIN new = {r \in DOMAIN rep.radio : \E e \in UNION q.radios : r \in Meant(rep, e)}
           /\ \A r \in DOMAIN new : \E e \in UNION q.radios : r \in Meant(rep, e) /\ new[r] = e.set
           /\ Resolve(rep, q).radios = {} <=> q.radios = {}
<1> DEFINE named(s) == [r \in UNION {Meant(rep, e) : e \in s} |->
                          (CHOOSE e \in s : r \in Meant(rep, e)).set]
           new == RadiosOf(Resolve(rep, q))
<1>1. Resolve(rep, q).radios = {named(s) : s \in q.radios}
  BY DEF Resolve
<1> HIDE DEF named
<1>2. CASE q.radios = {}
  <2>1. DOMAIN new = {}
    BY <1>1, <1>2, NoRadios
  <2> QED  BY <1>1, <1>2, <2>1
<1>3. ASSUME NEW s \in q.radios
      PROVE  /\ DOMAIN new = {r \in DOMAIN rep.radio : \E e \in UNION q.radios : r \in Meant(rep, e)}
             /\ \A r \in DOMAIN new : \E e \in UNION q.radios : r \in Meant(rep, e) /\ new[r] = e.set
  <2>1. q.radios = {s} /\ UNION q.radios = s
    BY TheSole DEF IsRequest
  <2>2. Resolve(rep, q).radios = {named(s)}
    BY <1>1, <2>1
  <2>3. new = named(s)
    BY <2>2, TheOnly DEF RadiosOf
  <2>4. DOMAIN named(s) = {r \in DOMAIN rep.radio : \E e \in s : r \in Meant(rep, e)}
    BY DEF named, Meant
  <2>5. ASSUME NEW r \in DOMAIN named(s)
        PROVE  \E e \in s : r \in Meant(rep, e) /\ named(s)[r] = e.set
    <3>1. \E e \in s : r \in Meant(rep, e)
      BY DEF named
    <3>2. LET e == CHOOSE e \in s : r \in Meant(rep, e) IN e \in s /\ r \in Meant(rep, e)
      BY <3>1
    <3> QED  BY <3>2 DEF named
  <2> HIDE DEF new
  <2> QED  BY <2>1, <2>3, <2>4, <2>5
<1>4. Resolve(rep, q).radios = {} <=> q.radios = {}
  BY <1>1
<1> QED  BY <1>2, <1>3, <1>4

LEMMA ChangedRadios ==
    ASSUME NEW B, NEW D, NEW K, NEW rep, NEW n,
           WellFormed(B), IsConfig(D), Agreeing(B, D), Resolved(n), Accepts(B, D, K, rep, n),
           NEW r \in DOMAIN B.radio
    PROVE  LET x == B.radio[r]
               y == After(B, D, rep, n).radio[r]
           IN  /\ r \in DOMAIN After(B, D, rep, n).radio <=> r \notin Gone(D, rep, n)
               /\ r \notin Gone(D, rep, n) =>
                     IF r \in DOMAIN RadiosOf(n)
                     THEN EvidentChange(rep, r, x, y) /\ (RadiosOf(n)[r] = Same => y = x)
                     ELSE y = x
<1> DEFINE x == B.radio[r]
           rs == After(B, D, rep, n).radio
           gone == Gone(D, rep, n)
           a == RadiosOf(n)[r]
           m == RadiosOf(MergeAP(D, n))[r]
<1>1. rs = [r1 \in DOMAIN B.radio \ gone |->
              IF r1 \in DOMAIN RadiosOf(n) THEN The(Write(B, D, rep, n, r1)) ELSE B.radio[r1]]
  BY DEF After
<1> HIDE DEF rs, gone
<1>2. r \in DOMAIN rs <=> r \notin gone
  BY <1>1
<1>3. ASSUME r \notin gone, r \in DOMAIN RadiosOf(n)
      PROVE  EvidentChange(rep, r, x, rs[r]) /\ (a = Same => rs[r] = x)
  <2>1. rs[r] \in Write(B, D, rep, n, r)
    BY <1>1, <1>3, WrittenRadios
  <2>2. rs[r] \in ComposeRadio(rep, r, a, m, x)
    BY <2>1 DEF Write
  <2>3. a \in Settings /\ m \in Settings /\ x \in Record /\ Follows(m, a, x)
    BY <1>3, AskedFollow
  <2> HIDE DEF a, m, x
  <2> QED  BY <2>2, <2>3, ComposeEvident, ComposeNothing
<1>4. ASSUME r \notin gone, r \notin DOMAIN RadiosOf(n)
      PROVE  rs[r] = x
  BY <1>1, <1>4
<1> QED  BY <1>2, <1>3, <1>4 DEF rs, gone, x, a

\* Only a listed radio that is not named goes.
LEMMA GoneRadios ==
    ASSUME NEW D, NEW rep, NEW n, Resolved(n), NEW r \in Gone(D, rep, n)
    PROVE  n.radios # {} /\ r \in DOMAIN RadiosOf(D) /\ r \notin DOMAIN RadiosOf(n)
<1>1. n.radios # {} /\ r \in DOMAIN RadiosOf(D) /\ r \notin DOMAIN RadiosOf(MergeAP(D, n))
  BY DEF Gone, Bindings
<1> QED  BY <1>1, MergedRadios

\* A change of one radio names every listed radio.
LEMMA MutationNamesAll ==
    ASSUME NEW rep, NEW e, Resolvable(rep, RadioMutation(e)),
           NEW r \in DOMAIN RadiosOf(desired)
    PROVE  \E f \in RadioMutation(e) : r \in Meant(rep, f)
<1> DEFINE f == [id |-> {r}, band |-> BandOf[r], set |-> IF r \in Listed(e) THEN e.set ELSE Same]
<1>1. f \in RadioMutation(e)
  BY DEF RadioMutation
<1>2. PICK v \in Meant(rep, f) : TRUE
  BY <1>1 DEF Resolvable, ExactlyOne
<1>3. v = r
  BY <1>2 DEF Meant
<1> QED  BY <1>1, <1>2, <1>3

\* Leaves alone what the request does not ask for (OthersUntouched).
THEOREM OtherRadiosUntouched == Spec => OthersUntouched
<1> DEFINE Kept(r) == r \in DOMAIN body'.radio /\ body'.radio[r] = body.radio[r]
           Dropped(r) == /\ r \in DOMAIN RadiosOf(desired)
                         /\ \A l \in last' : l.full /\ \A e \in UNION l.req.radios : r \notin Meant(l.rep, e)
           OnlyAsked == Committed => \A r \in DOMAIN body.radio : r \in AskedRadios \/ Kept(r) \/ Dropped(r)
<1>1. RadioInv /\ [Next]_vars => [OnlyAsked]_vars
  <2> SUFFICES ASSUME RadioInv, Next, Committed
               PROVE  \A r \in DOMAIN body.radio : r \in AskedRadios \/ Kept(r) \/ Dropped(r)
    OBVIOUS
  <2>1. PICK rep, req, full : Asks(rep, req, full) /\ Commit(rep, req, full)
    BY NextCases, RadioAssumption DEF RadioInv, ImportBaseline, Committed
  <2> DEFINE n == Resolve(rep, req)
  <2>2. /\ Compiles(body, desired, bind, rep, req, [body |-> body', desired |-> desired', bind |-> bind'])
        /\ Sound(body, desired, bind)
        /\ last' = {[rep |-> rep, req |-> req, full |-> full]}
    BY <2>1, CommitCases
  <2>3. /\ Resolved(n) /\ Accepts(body, desired, bind, rep, n)
        /\ body' = After(body, desired, rep, n)
    BY <2>2 DEF Compiles, Result
  <2>4. /\ IsRequest(req)
        /\ n.radios = {} <=> req.radios = {}
        /\ DOMAIN RadiosOf(n) = {r \in DOMAIN rep.radio : \E e \in UNION req.radios : r \in Meant(rep, e)}
        /\ \A r \in DOMAIN RadiosOf(n) : \E e \in UNION req.radios : r \in Meant(rep, e) /\ RadiosOf(n)[r] = e.set
    BY <2>1, ResolvedRadios DEF Asks
  <2> HIDE DEF n
  <2> TAKE r \in DOMAIN body.radio
  <2>5. CASE r \in Gone(desired, rep, n)
    <3>1. req.radios # {} /\ r \in DOMAIN RadiosOf(desired) /\ r \notin DOMAIN RadiosOf(n)
      BY <2>3, <2>4, <2>5, GoneRadios
    <3>2. \A e \in UNION req.radios : r \notin Meant(rep, e)
      BY <2>4, <3>1 DEF Meant
    <3>3. full
      <4> SUFFICES ASSUME ~full
                   PROVE  FALSE
        BY <2>1 DEF Asks
      <4>1. PICK e \in RadioConfig : req = [radios |-> {RadioMutation(e)}, nets |-> {}]
        BY <2>1 DEF Asks
      <4>2. Resolvable(rep, RadioMutation(e)) /\ RadioMutation(e) \in req.radios
        BY <2>2, <4>1 DEF Compiles
      <4>3. \E f \in RadioMutation(e) : r \in Meant(rep, f)
        BY <3>1, <4>2, MutationNamesAll
      <4> QED  BY <3>2, <4>2, <4>3
    <3> QED  BY <2>2, <3>1, <3>2, <3>3
  <2>6. CASE r \notin Gone(desired, rep, n)
    <3>1. /\ r \in DOMAIN body'.radio
          /\ r \in DOMAIN RadiosOf(n) => (RadiosOf(n)[r] = Same => Kept(r))
          /\ r \notin DOMAIN RadiosOf(n) => Kept(r)
      BY <2>2, <2>3, <2>6, ChangedRadios DEF Sound
    <3>2. ASSUME r \in DOMAIN RadiosOf(n), RadiosOf(n)[r] # Same
          PROVE  r \in AskedRadios
      <4>1. PICK e \in UNION req.radios : r \in Meant(rep, e) /\ RadiosOf(n)[r] = e.set
        BY <2>4, <3>2
      <4> QED  BY <2>2, <3>2, <4>1 DEF AskedRadios
    <3> QED  BY <3>1, <3>2
  <2> QED  BY <2>5, <2>6
<1>2. RadioInv /\ [Next]_vars => [Committed => \A r \in DOMAIN body.radio :
                                    \/ r \in AskedRadios
                                    \/ r \in DOMAIN body'.radio /\ body'.radio[r] = body.radio[r]
                                    \/ /\ r \in DOMAIN RadiosOf(desired)
                                       /\ \A l \in last' : l.full /\ \A e \in UNION l.req.radios :
                                                                       r \notin Meant(l.rep, e)]_vars
  BY <1>1
<1> QED  BY <1>2, RadioAlways, PTL DEF Spec, OthersUntouched

\* Whatever a compilation brings into the body has evidence in the report.
THEOREM EveryChangeIsEvident == Spec => ChangesAreEvident
<1> DEFINE Evidence == Committed => \A l \in last' : \A r \in DOMAIN body.radio \cap DOMAIN body'.radio :
                          EvidentChange(l.rep, r, body.radio[r], body'.radio[r])
<1>1. RadioInv /\ [Next]_vars => [Evidence]_vars
  <2> SUFFICES ASSUME RadioInv, Next, Committed
               PROVE  \A l \in last' : \A r \in DOMAIN body.radio \cap DOMAIN body'.radio :
                         EvidentChange(l.rep, r, body.radio[r], body'.radio[r])
    OBVIOUS
  <2>1. PICK rep, req, full : Asks(rep, req, full) /\ Commit(rep, req, full)
    BY NextCases, RadioAssumption DEF RadioInv, ImportBaseline, Committed
  <2> DEFINE n == Resolve(rep, req)
  <2>2. /\ Compiles(body, desired, bind, rep, req, [body |-> body', desired |-> desired', bind |-> bind'])
        /\ Sound(body, desired, bind)
        /\ last' = {[rep |-> rep, req |-> req, full |-> full]}
    BY <2>1, CommitCases
  <2>3. /\ Resolved(n) /\ Accepts(body, desired, bind, rep, n)
        /\ body' = After(body, desired, rep, n)
    BY <2>2 DEF Compiles, Result
  <2> HIDE DEF n
  <2> SUFFICES ASSUME NEW r \in DOMAIN body.radio \cap DOMAIN body'.radio
               PROVE  EvidentChange(rep, r, body.radio[r], body'.radio[r])
    BY <2>2
  <2>4. \/ EvidentChange(rep, r, body.radio[r], body'.radio[r])
        \/ body'.radio[r] = body.radio[r]
    BY <2>2, <2>3, ChangedRadios DEF Sound
  <2>5. body'.radio[r] = body.radio[r] => EvidentChange(rep, r, body.radio[r], body'.radio[r])
    BY DEF EvidentChange
  <2> QED  BY <2>4, <2>5
<1> QED  BY <1>1, RadioAlways, PTL DEF Spec, ChangesAreEvident, EvidentChange
-------------------------------------------------------------------------------
(* WLANs keep their records *)

\* A selection that succeeds, by identifier and by band.
LEMMA SelectedCases ==
    ASSUME NEW w \in WiFiNetwork, NEW available, NEW rep, Selected(w, available, rep) # {}
    PROVE  LET s == The(w.radios) IN
           /\ s.by \in {"id", "band"}
           /\ s.by = "id" => Selected(w, available, rep) = s.of
           /\ s.by = "band" => Selected(w, available, rep) = {r \in available : BandOf[r] \in s.of}
<1>1. w.radios # {}
  BY DEF Selected
<1>2. The(w.radios) \in Selector
  BY <1>1, WiFiFields, TheIn
<1>3. The(w.radios).by \in {"id", "band"}
  BY <1>2 DEF Selector
<1> QED  BY <1>3 DEF Selected

\* A compilation that says nothing of WLANs takes no records from them, unless
\* they select by band among radios that were not listed (NetworksKeepRecords).
LEMMA KeptRecords ==
    ASSUME NEW B, NEW D, NEW K, NEW rep \in Report, NEW n,
           WellFormed(B), IsConfig(D), Resolved(n), Accepts(B, D, K, rep, n),
           n.nets = {}, NEW w \in DOMAIN D.nets,
           ~(D.radios = {} /\ The(D.nets[w].radios).by = "band")
    PROVE  Had(K, w) \subseteq Had(Bindings(MergeAP(D, n), rep), w)
<1> DEFINE c == MergeAP(D, n)
           s == The(D.nets[w].radios)
<1>1. c.nets = D.nets /\ IsConfig(c)
  BY MergedNets, MergeTyped
<1>2. w \in Name /\ D.nets[w] \in WiFiNetwork
  BY DEF IsConfig, Maps
<1> SUFFICES ASSUME NEW r \in Had(K, w)
             PROVE  r \in Wanted(c, rep, w)
  BY <1>1, HadIsWanted
<1>3. <<w, r>> \in Bindings(D, rep).wifi /\ r \in Radio
  BY DEF Accepts, Had
<1>4. r \in Selected(D.nets[w], Available(D, rep), rep) /\ r \in B.wlan[w]
  BY <1>3, HadIsWanted DEF Accepts, Binds, Bindings
<1>5. Selected(D.nets[w], Available(c, rep), rep) # {}
  BY <1>1 DEF Accepts, Binds
<1>6. Wanted(c, rep, w) = Selected(D.nets[w], Available(c, rep), rep)
  BY <1>1 DEF Wanted
<1>7. s.by \in {"id", "band"}
  BY <1>2, <1>5, SelectedCases
<1>8. CASE s.by = "id"
  BY <1>2, <1>4, <1>5, <1>6, <1>8, SelectedCases
<1>9. CASE s.by = "band"
  <2>1. r \in Available(D, rep) /\ BandOf[r] \in s.of
    BY <1>2, <1>4, <1>9, SelectedCases
  <2>2. r \in DOMAIN RadiosOf(D)
    BY <1>9, <2>1 DEF Available
  <2>3. r \in Available(c, rep)
    <3>1. CASE n.radios = {}
      BY <2>1, <3>1, MergedRadios DEF Available
    <3>2. CASE n.radios # {}
      <4>1. r \notin Gone(D, rep, n)
        <5>1. After(B, D, rep, n).wlan = B.wlan
          BY DEF After, PlaceNetworks
        <5> QED  BY <1>2, <1>4, <5>1 DEF Accepts, Removable
      <4>2. r \in DOMAIN RadiosOf(c)
        BY <2>2, <3>2, <4>1 DEF Gone, Bindings
      <4>3. c.radios # {}
        BY <3>2, MergedRadios
      <4> QED  BY <4>2, <4>3 DEF Available
    <3> QED  BY <3>1, <3>2
  <2>4. Wanted(c, rep, w) = {r1 \in Available(c, rep) : BandOf[r1] \in s.of}
    BY <1>2, <1>5, <1>6, <1>9, SelectedCases
  <2> QED  BY <2>1, <2>3, <2>4
<1> QED  BY <1>7, <1>8, <1>9

THEOREM NetworksAlwaysKeepRecords == Spec => NetworksKeepRecords
<1> DEFINE Keeps == Committed => \A l \in last' : l.req.nets = {} =>
                      \A w \in DOMAIN desired.nets :
                         \/ Had(bind, w) \subseteq Had(bind', w)
                         \/ desired.radios = {} /\ The(desired.nets[w].radios).by = "band"
<1>1. RadioInv /\ [Next]_vars => [Keeps]_vars
  <2> SUFFICES ASSUME RadioInv, Next, Committed, NEW l \in last', l.req.nets = {},
                      NEW w \in DOMAIN desired.nets,
                      ~(desired.radios = {} /\ The(desired.nets[w].radios).by = "band")
               PROVE  Had(bind, w) \subseteq Had(bind', w)
    OBVIOUS
  <2>1. PICK rep, req, full : Asks(rep, req, full) /\ Commit(rep, req, full)
    BY NextCases, RadioAssumption DEF RadioInv, ImportBaseline, Committed
  <2> DEFINE n == Resolve(rep, req)
  <2>2. /\ Compiles(body, desired, bind, rep, req, [body |-> body', desired |-> desired', bind |-> bind'])
        /\ Sound(body, desired, bind)
        /\ last' = {[rep |-> rep, req |-> req, full |-> full]}
    BY <2>1, CommitCases
  <2>3. /\ Resolved(n) /\ Accepts(body, desired, bind, rep, n)
        /\ bind' = Bindings(MergeAP(desired, n), rep)
    BY <2>2 DEF Compiles, Result
  <2>4. n.nets = {}
    BY <2>2 DEF Resolve
  <2>5. rep \in Report
    BY <2>1 DEF Asks
  <2> HIDE DEF n
  <2> QED  BY <2>2, <2>3, <2>4, <2>5, KeptRecords DEF Sound
<1> QED  BY <1>1, RadioAlways, PTL DEF Spec, NetworksKeepRecords
-------------------------------------------------------------------------------
(* Repeating a request *)

LEMMA OverlayAgain ==
    \A p, q : Overlay(Overlay(p, q), q) = Overlay(p, q) /\ Overlay(q, q) = q
BY DEF Overlay

\* Merging the same power again changes nothing.
LEMMA MergePowerAgain ==
    ASSUME NEW prior, NEW p
    PROVE  MergePower({MergePower(prior, p)}, p) = MergePower(prior, p)
<1>1. PICK m, d : /\ \E o : m = Overlay(o, p.mode)
                  /\ \E o : d = IF p.mode = {"auto"} THEN {} ELSE Overlay(o, p.dbm)
                  /\ MergePower(prior, p) = [mode |-> m, dbm |-> d]
  BY DEF MergePower
<1> DEFINE v == [mode |-> m, dbm |-> d]
<1>2. {v} # {} /\ The({v}) = v
  BY TheOnly
<1>3. MergePower({v}, p) =
         [mode |-> Overlay(v.mode, p.mode),
          dbm |-> IF p.mode = {"auto"} THEN {} ELSE Overlay(v.dbm, p.dbm)]
  BY <1>2 DEF MergePower
<1>4. Overlay(v.mode, p.mode) = v.mode
  BY <1>1, OverlayAgain
<1>5. (IF p.mode = {"auto"} THEN {} ELSE Overlay(d, p.dbm)) = d
  BY <1>1, OverlayAgain
<1> QED  BY <1>1, <1>3, <1>4, <1>5

\* Merging a valid power into itself changes nothing.
LEMMA MergePowerSelf ==
    ASSUME NEW p \in PowerConfig, p.mode = {"auto"} => p.dbm = {}
    PROVE  MergePower({p}, p) = p
<1>1. The({p}) = p /\ {p} # {}
  BY TheOnly
<1>2. MergePower({p}, p) =
         [mode |-> Overlay(p.mode, p.mode),
          dbm |-> IF p.mode = {"auto"} THEN {} ELSE Overlay(p.dbm, p.dbm)]
  BY <1>1 DEF MergePower
<1>3. MergePower({p}, p) = [mode |-> p.mode, dbm |-> p.dbm]
  BY <1>2, OverlayAgain
<1> QED  BY <1>3, PowerFields

LEMMA MergeRadioAgain ==
    ASSUME NEW o, NEW f \in Settings
    PROVE  MergeRadio(MergeRadio(o, f), f) = MergeRadio(o, f)
<1> DEFINE m == MergeRadio(o, f)
<1>1. /\ m.enabled = Overlay(o.enabled, f.enabled)
      /\ m.channel = Overlay(o.channel, f.channel)
      /\ m.width = Overlay(o.width, f.width)
      /\ m.power = IF f.power = {} THEN o.power ELSE {MergePower(o.power, p) : p \in f.power}
      /\ m = [enabled |-> m.enabled, channel |-> m.channel, width |-> m.width, power |-> m.power]
  BY DEF MergeRadio
<1>2. MergeRadio(m, f) =
         [enabled |-> Overlay(m.enabled, f.enabled), channel |-> Overlay(m.channel, f.channel),
          width |-> Overlay(m.width, f.width),
          power |-> IF f.power = {} THEN m.power ELSE {MergePower(m.power, p) : p \in f.power}]
  BY DEF MergeRadio
<1> HIDE DEF m
<1>3. (IF f.power = {} THEN m.power ELSE {MergePower(m.power, p) : p \in f.power}) = m.power
  <2>1. ASSUME NEW p \in f.power
        PROVE  {MergePower(m.power, q) : q \in f.power} = m.power
    <3>1. f.power = {p}
      BY SettingsFields, OptionalCases
    <3>2. m.power = {MergePower(o.power, p)}
      BY <1>1, <3>1
    <3>3. {MergePower(m.power, q) : q \in f.power} = {MergePower(m.power, p)}
      BY <3>1
    <3> QED  BY <3>2, <3>3, MergePowerAgain
  <2> QED  BY <2>1
<1>4. /\ Overlay(m.enabled, f.enabled) = m.enabled
      /\ Overlay(m.channel, f.channel) = m.channel
      /\ Overlay(m.width, f.width) = m.width
  BY <1>1, OverlayAgain
<1> QED  BY <1>1, <1>2, <1>3, <1>4 DEF m

LEMMA MergeRadioSelf ==
    ASSUME NEW f \in Settings, ValidSettings(f)
    PROVE  MergeRadio(f, f) = f
<1>1. MergeRadio(f, f) =
         [enabled |-> Overlay(f.enabled, f.enabled), channel |-> Overlay(f.channel, f.channel),
          width |-> Overlay(f.width, f.width),
          power |-> IF f.power = {} THEN f.power ELSE {MergePower(f.power, p) : p \in f.power}]
  BY DEF MergeRadio
<1>2. (IF f.power = {} THEN f.power ELSE {MergePower(f.power, p) : p \in f.power}) = f.power
  <2>1. ASSUME NEW p \in f.power
        PROVE  {MergePower(f.power, q) : q \in f.power} = f.power
    <3>1. f.power = {p} /\ p \in PowerConfig
      BY SettingsFields, OptionalCases
    <3>2. MergePower({p}, p) = p
      BY <3>1, MergePowerSelf DEF ValidSettings
    <3> QED  BY <3>1, <3>2
  <2> QED  BY <2>1
<1>3. f = [enabled |-> f.enabled, channel |-> f.channel, width |-> f.width, power |-> f.power]
  BY SettingsFields
<1> QED  BY <1>1, <1>2, <1>3, OverlayAgain

LEMMA MergeWiFiAgain ==
    ASSUME NEW o, NEW f \in WiFiNetwork, o.full \in BOOLEAN
    PROVE  MergeWiFi(MergeWiFi(o, f), f) = MergeWiFi(o, f)
<1>1. f.full \in BOOLEAN
  BY WiFiFields
<1>2. ((o.full \/ f.full) \/ f.full) = (o.full \/ f.full)
  BY <1>1
<1> QED  BY <1>2, OverlayAgain DEF MergeWiFi

LEMMA MergeWiFiSelf ==
    ASSUME NEW f \in WiFiNetwork
    PROVE  MergeWiFi(f, f) = f
<1>1. f.full \in BOOLEAN /\ f = [radios |-> f.radios, full |-> f.full]
  BY WiFiFields
<1>2. (f.full \/ f.full) = f.full
  BY <1>1
<1> QED  BY <1>1, <1>2, OverlayAgain DEF MergeWiFi
\* MergeAP is idempotent in the request.
LEMMA MergeAgain ==
    ASSUME NEW D, NEW n, IsConfig(D), Resolved(n)
    PROVE  MergeAP(MergeAP(D, n), n) = MergeAP(D, n)
<1> DEFINE c == MergeAP(D, n)
           old == RadiosOf(D)
           new == RadiosOf(n)
<1>1. /\ c = [radios |-> c.radios, nets |-> c.nets]
      /\ MergeAP(c, n) = [radios |-> MergeAP(c, n).radios, nets |-> MergeAP(c, n).nets]
  BY DEF MergeAP
<1>2. MergeAP(c, n).radios = c.radios
  <2>1. CASE n.radios = {}
    BY <2>1, MergedRadios
  <2>2. CASE n.radios # {}
    <3> DEFINE m == RadiosOf(c)
    <3>1. /\ c.radios = {m}
          /\ m = [r \in DOMAIN new |-> IF r \in DOMAIN old THEN MergeRadio(old[r], new[r]) ELSE new[r]]
      BY <2>2, MergedRadios
    <3>2. MergeAP(c, n).radios =
             {[r \in DOMAIN new |-> IF r \in DOMAIN m THEN MergeRadio(m[r], new[r]) ELSE new[r]]}
      BY <2>2, MergedRadios
    <3>3. \A r \in DOMAIN new : new[r] \in Settings /\ ValidSettings(new[r])
      BY <2>2, RadiosTyped, TheMember DEF Resolved, Maps, RadiosOf
    <3> HIDE DEF c, m, new, old
    <3>4. DOMAIN m = DOMAIN new
      BY <3>1
    <3>5. ASSUME NEW r \in DOMAIN new
          PROVE  MergeRadio(m[r], new[r]) = m[r]
      BY <3>1, <3>3, MergeRadioAgain, MergeRadioSelf
    <3>6. [r \in DOMAIN new |-> IF r \in DOMAIN m THEN MergeRadio(m[r], new[r]) ELSE new[r]]
             = [r \in DOMAIN new |-> m[r]]
      BY <3>4, <3>5
    <3>7. m = [r \in DOMAIN new |-> m[r]]
      BY <3>1
    <3> QED  BY <3>1, <3>2, <3>6, <3>7
  <2> QED  BY <2>1, <2>2
<1>3. MergeAP(c, n).nets = c.nets
  <2>1. CASE n.nets = {}
    BY <2>1, MergedNets
  <2>2. ASSUME NEW f \in n.nets
        PROVE  MergeAP(c, n).nets = c.nets
    <3> DEFINE m == c.nets
    <3>1. m = [w \in DOMAIN f |-> IF w \in DOMAIN D.nets THEN MergeWiFi(D.nets[w], f[w]) ELSE f[w]]
      BY <2>2, MergedNets
    <3>2. MergeAP(c, n).nets =
             [w \in DOMAIN f |-> IF w \in DOMAIN m THEN MergeWiFi(m[w], f[w]) ELSE f[w]]
      BY <2>2, MergedNets
    <3>3. /\ \A w \in DOMAIN f : f[w] \in WiFiNetwork
          /\ \A w \in DOMAIN D.nets : D.nets[w].full \in BOOLEAN
      BY <2>2, WiFiFields DEF IsConfig, Resolved, Maps
    <3> HIDE DEF c, m
    <3>4. DOMAIN m = DOMAIN f
      BY <3>1
    <3>5. ASSUME NEW w \in DOMAIN f
          PROVE  MergeWiFi(m[w], f[w]) = m[w]
      BY <3>1, <3>3, MergeWiFiAgain, MergeWiFiSelf
    <3>6. [w \in DOMAIN f |-> IF w \in DOMAIN m THEN MergeWiFi(m[w], f[w]) ELSE f[w]]
             = [w \in DOMAIN f |-> m[w]]
      BY <3>4, <3>5
    <3>7. m = [w \in DOMAIN f |-> m[w]]
      BY <3>1
    <3> QED  BY <3>2, <3>6, <3>7 DEF m
  <2> QED  BY <2>1, <2>2
<1> QED  BY <1>1, <1>2, <1>3

Stable(x, rep, n) == Composed(x.body, x.desired, x.bind, rep, n) = {x}

\* What an accepted request gave, the request gives again.
LEMMA ResultAgain ==
    ASSUME NEW B, NEW D, NEW K, NEW rep \in Report, NEW n,
           WellFormed(B), IsConfig(D), Agreeing(B, D), Resolved(n), Accepts(B, D, K, rep, n)
    PROVE  Stable(Result(B, D, rep, n), rep, n)
<1> DEFINE c == MergeAP(D, n)
           new == RadiosOf(n)
           A == After(B, D, rep, n)
           gone == Gone(D, rep, n)
<1>1. MergeAP(c, n) = c
  BY MergeAgain
<1>2. IsConfig(c)
  BY MergeTyped
<1>3. Gone(c, rep, n) = {}
  BY <1>1 DEF Gone, Bindings
<1>4. /\ A.radio = [r \in DOMAIN B.radio \ gone |->
                      IF r \in DOMAIN new THEN The(Write(B, D, rep, n, r)) ELSE B.radio[r]]
      /\ A.wlan = PlaceNetworks(B.wlan, Bindings(D, rep), n, c, rep)
      /\ A = [radio |-> A.radio, wlan |-> A.wlan]
  BY DEF After
<1>5. ASSUME NEW r \in DOMAIN new
      PROVE  r \in DOMAIN A.radio /\ Write(A, c, rep, n, r) = {A.radio[r]}
  <2> DEFINE x == B.radio[r]
             y == The(Write(B, D, rep, n, r))
             a == new[r]
             m == RadiosOf(c)[r]
  <2>1. r \in DOMAIN B.radio /\ y \in Write(B, D, rep, n, r)
    BY WrittenRadios
  <2>2. r \notin gone
    BY GoneRadios
  <2>3. a \in Settings /\ m \in Settings /\ x \in Record /\ Follows(m, a, x)
    BY <2>1, AskedFollow
  <2>4. y \in ComposeRadio(rep, r, a, m, x)
    BY <2>1 DEF Write
  <2> HIDE DEF A, gone
  <2>5. r \in DOMAIN A.radio /\ A.radio[r] = y
    BY <1>4, <2>1, <2>2
  <2> HIDE DEF x, y, a, m
  <2>6. ComposeRadio(rep, r, a, m, y) = {y}
    BY <2>3, <2>4, ComposeAgain
  <2>7. Write(A, c, rep, n, r) = ComposeRadio(rep, r, a, m, y)
    BY <1>1, <2>5 DEF Write, a, m
  <2> QED  BY <2>5, <2>6, <2>7
<1>6. \A w : Had(Bindings(c, rep), w) = Wanted(c, rep, w)
  BY <1>2, HadIsWanted
<1>7. Binds(A, c, rep)
  BY DEF Accepts
<1> HIDE DEF A, gone
<1>8. \A w \in DOMAIN c.nets : Wanted(c, rep, w) \subseteq A.wlan[w]
  <2> HIDE DEF c
  <2> SUFFICES ASSUME NEW w \in DOMAIN c.nets, NEW r \in Wanted(c, rep, w)
               PROVE  r \in A.wlan[w]
    OBVIOUS
  <2>1. r \in Had(Bindings(c, rep), w)
    BY <1>6
  <2>2. <<w, r>> \in Bindings(c, rep).wifi
    BY <2>1 DEF Had
  <2>3. \A x \in Bindings(c, rep).wifi : x[2] \in A.wlan[x[1]]
    BY <1>7 DEF Binds
  <2> QED  BY <2>2, <2>3
<1>9. After(A, c, rep, n) = A
  <2>1. After(A, c, rep, n).radio = A.radio
    <3>1. After(A, c, rep, n).radio =
             [r \in DOMAIN A.radio |-> IF r \in DOMAIN new THEN The(Write(A, c, rep, n, r)) ELSE A.radio[r]]
      BY <1>3 DEF After
    <3>2. \A r \in DOMAIN new : The(Write(A, c, rep, n, r)) = A.radio[r]
      BY <1>5, TheOnly
    <3>3. A.radio = [r \in DOMAIN A.radio |-> A.radio[r]]
      BY <1>4
    <3> HIDE DEF new, c
    <3> QED  BY <3>1, <3>2, <3>3
  <2>2. PlaceNetworks(A.wlan, Bindings(c, rep), n, c, rep) = A.wlan
    <3>1. CASE n.nets = {}
      BY <3>1 DEF PlaceNetworks
    <3>2. CASE n.nets # {}
      <4>1. PlaceNetworks(A.wlan, Bindings(c, rep), n, c, rep)
               = [w \in Name |-> (A.wlan[w] \ Had(Bindings(c, rep), w)) \cup Wanted(c, rep, w)]
        BY <3>2 DEF PlaceNetworks, Wanted
      <4>2. A.wlan = [w \in Name |-> A.wlan[w]]
        BY <1>4, <3>2 DEF PlaceNetworks
      <4>3. ASSUME NEW w \in Name
            PROVE  (A.wlan[w] \ Had(Bindings(c, rep), w)) \cup Wanted(c, rep, w) = A.wlan[w]
        <5>1. Wanted(c, rep, w) \subseteq A.wlan[w]
          BY <1>8 DEF Wanted
        <5> QED  BY <1>6, <5>1
      <4> QED  BY <4>1, <4>2, <4>3
    <3> QED  BY <3>1, <3>2
  <2>3. After(A, c, rep, n) = [radio |-> After(A, c, rep, n).radio,
                               wlan |-> PlaceNetworks(A.wlan, Bindings(c, rep), n, c, rep)]
    BY <1>1 DEF After
  <2> QED  BY <1>4, <2>1, <2>2, <2>3
<1>10. Accepts(A, c, Bindings(c, rep), rep, n)
  <2>1. ValidConfig(c)
    BY DEF Accepts
  <2>2. \A r \in DOMAIN new : r \in DOMAIN A.radio /\ Write(A, c, rep, n, r) # {}
    BY <1>5
  <2>3. CanPlace(A, Bindings(c, rep), n, c, rep)
    <3>1. \A w \in DOMAIN c.nets : Selected(c.nets[w], Available(c, rep), rep) = Had(Bindings(c, rep), w)
      BY <1>6 DEF Wanted
    <3> HIDE DEF c
    <3> QED  BY <3>1 DEF CanPlace
  <2>4. Removable({}, A.wlan, c)
    BY DEF Removable
  <2> HIDE DEF c
  <2> QED  BY <1>1, <1>3, <1>7, <1>9, <2>1, <2>2, <2>3, <2>4 DEF Accepts
<1>11. /\ Result(B, D, rep, n) = [body |-> A, desired |-> c, bind |-> Bindings(c, rep)]
       /\ Result(A, c, rep, n) = [body |-> A, desired |-> c, bind |-> Bindings(c, rep)]
  BY <1>1, <1>9 DEF Result, A
<1> HIDE DEF c
<1>12. Composed(A, c, Bindings(c, rep), rep, n) = {Result(A, c, rep, n)}
  BY <1>10, ComposedIs
<1> QED  BY <1>11, <1>12 DEF Stable

\* Repeating the last request is accepted and changes nothing (ReapplyIsStable).
THEOREM ReapplyIsAlwaysStable == Spec => []ReapplyIsStable
<1>1. Init => ReapplyIsStable
  BY DEF Init, ReapplyIsStable
<1>2. RadioInv /\ ReapplyIsStable /\ [Next]_vars => ReapplyIsStable'
  <2> SUFFICES ASSUME RadioInv, ReapplyIsStable, [Next]_vars
               PROVE  ReapplyIsStable'
    OBVIOUS
  <2>1. ASSUME NEW rep \in Report, NEW b \in Baseline, ImportBaseline(rep, b)
        PROVE  ReapplyIsStable'
    BY <2>1 DEF ImportBaseline, ReapplyIsStable
  <2>2. ASSUME NEW rep, NEW req, NEW full, Asks(rep, req, full), Commit(rep, req, full)
        PROVE  ReapplyIsStable'
    <3> DEFINE n == Resolve(rep, req)
               x == [body |-> body', desired |-> desired', bind |-> bind']
    <3>1. /\ Compiles(body, desired, bind, rep, req, x)
          /\ Sound(body, desired, bind)
          /\ last' = {[rep |-> rep, req |-> req, full |-> full]}
      BY <2>2, CommitCases
    <3>2. /\ ValidRequest(req) /\ (\A s \in req.radios : Resolvable(rep, s))
          /\ Resolved(n) /\ Accepts(body, desired, bind, rep, n) /\ x = Result(body, desired, rep, n)
      BY <3>1 DEF Compiles
    <3>3. rep \in Report
      BY <2>2 DEF Asks
    <3>4. Composed(x.body, x.desired, x.bind, rep, n) = {x}
      <4> HIDE DEF n, x
      <4>1. Stable(Result(body, desired, rep, n), rep, n)
        BY <3>1, <3>2, <3>3, ResultAgain DEF Sound
      <4> QED  BY <3>2, <4>1 DEF Stable
    <3>5. Compile(body', desired', bind', rep, req) = {x}
      BY <3>2, <3>4 DEF Compile
    <3> QED  BY <3>1, <3>5 DEF ReapplyIsStable
  <2>3. CASE UNCHANGED vars
    BY <2>3 DEF vars, ReapplyIsStable
  <2> QED  BY <2>1, <2>2, <2>3, NextCases
<1> QED  BY <1>1, <1>2, RadioAlways, PTL DEF Spec
===============================================================================
