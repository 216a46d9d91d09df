---------------------------- MODULE MCController ----------------------------
(* Small instances of Controller for TLC. *)
EXTENDS Controller, TLC

CONSTANTS k0, k1, k2, none, adopted, raw, typed1, typed2, ap, switch,
          full, patch

\* A full request decides the whole typed policy; a patch changes part of it,
\* so its outcome depends on the baseline.
MCCompile(v, r) == IF r = full THEN typed1
                   ELSE IF v \in {typed1, typed2} THEN typed2 ELSE typed1

\* A device that is registered and has informed, with nothing configured.
RegisteredWith(k) == [NewDevice(k, NoKey) EXCEPT !.family = ap]
Registered == RegisteredWith(k1)
\* A record of an earlier release: a desired version and no baseline.
Legacy     == [Registered EXCEPT !.last = Setparam(k1, typed1),
                                 !.desired = typed1]

\* Nothing tells the keys an operator may assign from each other.
Assigned      == {k1, k2}
AssignedAlike == Permutations(Assigned)

StoredKeys   == {Absent} \cup {RegisteredWith(k) : k \in Assigned}
StoredTyped  == {Registered, Legacy}
StoredLive   == {Absent, Legacy}
=============================================================================
