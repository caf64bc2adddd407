------------------------------ MODULE Geometry ------------------------------
(***************************************************************************)
(* core::Geometry: the devices in the order they were added, which is the  *)
(* order of the slaves on the bus, and core::Gain, which holds a row of    *)
(* data for each of them as they were when it was built.  Where a device   *)
(* is comes down to a number of its own, and data to the device they were  *)
(* computed for.                                                           *)
(***************************************************************************)
EXTENDS Integers, SequencesExt

CONSTANTS
  Cycles,      \* the values of freq_cycle
  MaxDevices,  \* bound on the devices
  MaxEdits     \* bound on the changes of the geometry

VARIABLES
  devices,     \* _devices
  edits        \* number of changes so far, the version of the geometry

geometryVars == <<devices, edits>>

(* Number 0 is for a device of another process.                            *)
Device == [no : 0 .. MaxEdits, cycle : Cycles]

InitGeometry == devices = <<>> /\ edits = 0

Edit == edits < MaxEdits /\ edits' = edits + 1

AddDevice(c) ==
  /\ Edit /\ Len(devices) < MaxDevices
  /\ devices' = Append(devices, [no |-> edits', cycle |-> c])

DelDevice(i) == Edit /\ devices' = RemoveAt(devices, i)

ClearDevices == Edit /\ devices # <<>> /\ devices' = <<>>
-----------------------------------------------------------------------------
(* A word of the transmission buffer: nothing, the duty or phase of a      *)
(* transducer of a device, or its cycle.                                   *)
Zero == [kind |-> "zero"]
Data(d) == [kind |-> "data", of |-> d]
Cycle(d) == [kind |-> "cycle", of |-> d]
Word == {Zero} \cup [kind : {"data", "cycle"}, of : Device]

(* Gain::create() without a calc of its own, as stop() uses it, and one    *)
(* that computes duties and phases from the geometry, row by row.          *)
Silent(devs) == [i \in 1 .. Len(devs) |-> Zero]
Focus(devs) == [i \in 1 .. Len(devs) |-> Data(devs[i])]

NewGain == [built |-> FALSE, rows |-> <<>>, version |-> 0]

(* A mutant: the rows of the build before are kept.                        *)
BugBuild(g) ==
  IF g.built THEN g
  ELSE [built |-> TRUE, rows |-> g.rows \o Focus(devices), version |-> edits]

(* build() does nothing for a gain that was built before.  The version     *)
(* says which geometry it knows.                                           *)
Build(g) ==
  IF g.built THEN g ELSE [built |-> TRUE, rows |-> Focus(devices), version |-> edits]

Rebuild(g) == Build([g EXCEPT !.built = FALSE])
=============================================================================
