------------------------------ MODULE KeyCustody -------------------------------
(***************************************************************************)
(* What the inform controller promises about keys, without saying how.     *)
(*                                                                         *)
(* A controller accepts some keys of each device and has some on file; the *)
(* device holds one.  Devices whose keys nobody else chooses are in its    *)
(* custody: of those it only ever stops accepting a key when the device    *)
(* has been seen with the other one, and it only hands out a key that is   *)
(* accepted and on file already.                                           *)
(***************************************************************************)
CONSTANTS
    Device,    \* devices
    Key        \* inform keys

VARIABLES
    accepts,   \* the keys a running controller tries on a device's informs
    durable,   \* the keys it would try after a restart
    holds,     \* the key a device has
    custody    \* devices whose keys this controller alone manages

keyVars == <<accepts, durable, holds, custody>>

\* A device is unknown, or holds one of the keys.
Reachable(keys) == \A d \in custody : keys[d] = {} \/ holds[d] \in keys[d]

Init ==
    /\ accepts \in [Device -> SUBSET Key]
    /\ durable = accepts
    /\ holds \in [Device -> Key]
    /\ custody = Device
    /\ Reachable(accepts)

\* An unknown device is taken on with a set of keys that includes its own.
Enrol(d, keys) ==
    /\ accepts[d] = {}
    /\ holds[d] \in keys
    /\ accepts' = [accepts EXCEPT ![d] = keys]
    /\ durable' = accepts'
    /\ UNCHANGED <<holds, custody>>

\* A device was seen with the key it is to keep; the file may lag behind.
Complete(d) ==
    /\ holds[d] \in accepts[d]
    /\ accepts' = [accepts EXCEPT ![d] = {holds[d]}]
    /\ durable' \in {durable, accepts, accepts'}
    /\ UNCHANGED <<holds, custody>>

\* A device is given another of its keys.
Take(d, key) ==
    /\ key \in accepts[d] \cap durable[d]
    /\ holds' = [holds EXCEPT ![d] = key]
    /\ UNCHANGED <<accepts, durable, custody>>

\* The file catches up with memory.
Save ==
    /\ durable' = accepts
    /\ UNCHANGED <<accepts, holds, custody>>

\* A restart: memory is what the file has.
Recover ==
    /\ accepts' = durable
    /\ UNCHANGED <<durable, holds, custody>>

\* Someone else chooses keys of a device: nothing is promised for it from then
\* on, and every other device is left alone, but for a save.
GiveUp(d) ==
    /\ custody' = custody \ {d}
    /\ accepts' \in [Device -> SUBSET Key]
    /\ durable' \in [Device -> SUBSET Key]
    /\ holds' \in [Device -> Key]
    /\ \A e \in Device \ {d} : accepts'[e] = accepts[e] /\ holds'[e] = holds[e]
    /\ \/ \A e \in Device \ {d} : durable'[e] = durable[e]
       \/ \A e \in Device \ {d} : durable'[e] = accepts[e]

Next ==
    \/ \E d \in Device, keys \in SUBSET Key : Enrol(d, keys)
    \/ \E d \in Device : Complete(d) \/ GiveUp(d)
    \/ \E d \in Device, key \in Key : Take(d, key)
    \/ Save
    \/ Recover

Spec == Init /\ [][Next]_keyVars
===============================================================================
