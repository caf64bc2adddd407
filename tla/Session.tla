------------------------------- MODULE Session -------------------------------
(***************************************************************************)
(* What a user does with a Controller: devices are added to the geometry   *)
(* and taken out of it, links made for them, opened, lost and closed,      *)
(* gains built, sent and rebuilt, cycles set, versions asked for, in any   *)
(* order.  A message gets to the devices, or the link is lost, or it is    *)
(* skipped by the link or acknowledged too late: how that comes about is   *)
(* in SOEMLink and Controller.  This module is about whose data are where  *)
(* and about the sizes of the buffers they pass through.                   *)
(***************************************************************************)
EXTENDS Geometry, FirmwareVersion

CONSTANTS
  Wired,        \* number of slaves on the bus
  Versions,     \* their [cpu, fpga] versions
  Ids           \* ids of the messages that ask for them

VARIABLES
  pc,        \* where in close() and open() the user is, "idle" outside
  opening,   \* is the close() the one in open()?
  made,      \* a link not opened yet: the number of devices it was made for
  link,      \* the link of the controller
  gain,      \* a gain of the user
  room,      \* devices _tx_buf and _rx_buf were made for
  tx,        \* rows of _tx_buf: the first word of each and the others
  checkAck,  \* _check_ack
  infos,     \* what firmware_info_list just returned
  slaves,    \* duty, phase, cycle and SYNC0 of each device
  fate,      \* how the process goes: "running", "stray" access or "terminated"
  stale,     \* was a gain built for another geometry sent since the last clear()?
  clean      \* were the devices cleared through this link?

history == <<stale, clean>>
vars == <<geometryVars, pc, opening, made, link, gain, room, tx, checkAck, infos, slaves, fate, history>>

Slaves == 1 .. Wired
NoLink == [state |-> "none", num |-> 0, version |-> 0]

ASSUME SessionAssumption ==
  /\ MaxDevices \in Nat /\ Wired \in 1 .. MaxDevices /\ MaxEdits \in Nat
  /\ Versions \in [Slaves -> Version] /\ Ids \subseteq Byte

(* Sizes in bytes.                                                         *)
HEADER_SIZE == 128
EC_OUTPUT_FRAME_SIZE == 626
NUM_TRANS_IN_UNIT == 249
BodyEnd(n) == HEADER_SIZE + 2 * NUM_TRANS_IN_UNIT * n
FreqEnd(n) == IF n = 0 THEN HEADER_SIZE ELSE BodyEnd(n - 1) + 2

(* The accesses of a call stay inside _tx_buf, of which it packs the bytes *)
(* up to end and the link, unless it is lost and throws, takes a header    *)
(* and its number of bodies; and inside _rx_buf, if an acknowledgement is  *)
(* waited for.                                                             *)
Fits(end, waits) ==
  /\ end <= EC_OUTPUT_FRAME_SIZE * room
  /\ link.state = "open" => /\ BodyEnd(link.num) <= EC_OUTPUT_FRAME_SIZE * room
                            /\ waits => Len(devices) <= room /\ link.num <= room

(* What pack_duty_body and pack_phase_body leave in the buffer, and what   *)
(* pack_freq_body does.  Mutants: the cursor is not moved on, every cycle  *)
(* is the first.                                                           *)
Blank == [first |-> Zero, others |-> Zero]
Rows == 1 .. MaxDevices

BugPacked(rows, buf) ==
  [i \in Rows |-> IF i <= Len(rows) THEN [first |-> rows[1], others |-> rows[1]] ELSE buf[i]]
Packed(rows, buf) ==
  [i \in Rows |-> IF i <= Len(rows) THEN [first |-> rows[i], others |-> rows[i]] ELSE buf[i]]

BugPackedCycles(buf) ==
  [i \in Rows |-> IF i <= Len(devices) THEN [buf[i] EXCEPT !.first = Cycle(devices[1])] ELSE buf[i]]
PackedCycles(buf) ==
  [i \in Rows |-> IF i <= Len(devices) THEN [buf[i] EXCEPT !.first = Cycle(devices[i])] ELSE buf[i]]

(* The commands, executed by every device with its row of the buffer.      *)
WriteDuty(s, buf) == [i \in Slaves |-> [s[i] EXCEPT !.duty = buf[i]]]
WritePhase(s, buf) == [i \in Slaves |-> [s[i] EXCEPT !.phase = buf[i]]]
WriteCycle(s, buf) == [i \in Slaves |-> [s[i] EXCEPT !.cycle = buf[i].first]]
ClearAll(s) ==
  [i \in Slaves |-> [s[i] EXCEPT !.duty = Blank, !.phase = Blank, !.cycle = Zero]]

(* setup_sync0: one pulse for 40 periods of the device's own cycle.        *)
Sync0On(s) == [i \in Slaves |-> [s[i] EXCEPT !.sync0 = devices[i].cycle]]
Sync0Off(s) == [i \in Slaves |-> [s[i] EXCEPT !.sync0 = "off"]]

(* The devices were just switched on, or some process used them that ended *)
(* without closing its link; they keep what it wrote.                      *)
PowerOn == [duty |-> Blank, phase |-> Blank, cycle |-> Zero, sync0 |-> "off"]
LeftBy(c) ==
  LET d == [no |-> 0, cycle |-> c] r == [first |-> Data(d), others |-> Data(d)] IN
    [duty |-> r, phase |-> r, cycle |-> Cycle(d), sync0 |-> c]

Init ==
  /\ InitGeometry
  /\ pc = "idle" /\ opening = FALSE /\ made = NoLink /\ link = NoLink
  /\ gain = NewGain /\ room = 0 /\ tx = [i \in Rows |-> Blank]
  /\ checkAck = FALSE /\ infos = <<>> /\ fate = "running"
  /\ \E s \in {PowerOn} \cup {LeftBy(c) : c \in Cycles} : slaves = [i \in Slaves |-> s]
  /\ stale = FALSE /\ clean = FALSE

Idle == pc = "idle" /\ fate = "running"
Loses == link' = [link EXCEPT !.state = "lost"]
-----------------------------------------------------------------------------
(* The user's side of it, no call of the controller.                       *)
EditGeometry ==
  /\ Idle
  /\ (\E c \in Cycles : AddDevice(c)) \/ (\E i \in 1 .. Len(devices) : DelDevice(i)) \/ ClearDevices
  /\ infos' = <<>> /\ UNCHANGED <<pc, opening, made, link, gain, room, tx, checkAck, slaves, fate, history>>

(* SOEM::create, for the devices there are.                                *)
CreateLink ==
  /\ Idle /\ made' = [state |-> "made", num |-> Len(devices), version |-> edits]
  /\ infos' = <<>> /\ UNCHANGED <<geometryVars, pc, opening, link, gain, room, tx, checkAck, slaves, fate, history>>

RebuildGain ==
  /\ Idle /\ gain' = Rebuild(gain)
  /\ infos' = <<>> /\ UNCHANGED <<geometryVars, pc, opening, made, link, room, tx, checkAck, slaves, fate, history>>
-----------------------------------------------------------------------------
(* A message that is waited for was executed by every device when its call  *)
(* returns true.  Without _check_ack, and there are no acknowledgements to  *)
(* miss without devices, it may also have been skipped on its way.          *)
Waits == checkAck /\ devices # <<>>
Arrivals == IF Waits THEN {TRUE} ELSE BOOLEAN

(* Which of the two messages of a gain are executed.                        *)
Execute(duties, phases) ==
  LET s == IF duties THEN WriteDuty(slaves, tx') ELSE slaves IN
    slaves' = IF phases THEN WritePhase(s, tx') ELSE s

(* The call returns true; or false, for one of its messages was not         *)
(* acknowledged in time; or the link is lost between them and it throws, or *)
(* was lost before, and then nothing that is packed gets anywhere.          *)
Delivered(rows) ==
  /\ link.state = "open" /\ tx' = Packed(rows, tx) /\ UNCHANGED link
  /\ checkAck => Len(devices) <= link.num
  /\ \E duties \in Arrivals, phases \in Arrivals : Execute(duties, phases)

Unacknowledged(rows) ==
  /\ link.state = "open" /\ Waits /\ tx' = Packed(rows, tx) /\ UNCHANGED link
  /\ \E duties \in BOOLEAN, phases \in BOOLEAN : (phases => duties) /\ Execute(duties, phases)

CutOff(rows) ==
  /\ link.state = "open" /\ tx' = Packed(rows, tx) /\ Loses
  /\ \E duties \in BOOLEAN : Execute(duties, FALSE)

Undelivered(rows) ==
  /\ link.state = "lost" /\ UNCHANGED <<tx, slaves, link>>

(* An access outside of a buffer: what happens then is not told.           *)
Strays(end, waits) ==
  /\ ~Fits(end, waits) /\ fate' = "stray" /\ UNCHANGED <<tx, slaves, link>>

Calls == Idle /\ link.state # "none"

Send ==
  /\ Calls /\ gain' = Build(gain) /\ stale' = (stale \/ gain'.version # edits)
  /\ LET end == BodyEnd(Len(gain'.rows)) IN
       \/ Strays(end, checkAck)
       \/ /\ Fits(end, checkAck) /\ UNCHANGED fate
          /\ \/ Delivered(gain'.rows) \/ Unacknowledged(gain'.rows)
             \/ CutOff(gain'.rows) \/ Undelivered(gain'.rows)
  /\ infos' = <<>> /\ UNCHANGED <<geometryVars, pc, opening, made, room, checkAck, clean>>

(* It is executed or not, whatever it returns.                             *)
SetFrequency ==
  /\ Calls
  /\ LET end == FreqEnd(Len(devices)) IN
       \/ Strays(end, checkAck)
       \/ /\ Fits(end, checkAck) /\ link.state = "open"
          /\ tx' = PackedCycles(tx) /\ slaves' \in {slaves, WriteCycle(slaves, tx')}
          /\ UNCHANGED <<fate, link>>
  /\ infos' = <<>> /\ UNCHANGED <<geometryVars, pc, opening, made, gain, room, checkAck, history>>

(* clear() sends a header, which is executed or skipped.                   *)
SendClear ==
  /\ Fits(HEADER_SIZE, checkAck) /\ link.state = "open"
  /\ \/ slaves' = ClearAll(slaves) /\ stale' = FALSE /\ clean' = TRUE
     \/ UNCHANGED <<slaves, history>>

Clear ==
  /\ Calls
  /\ \/ Strays(HEADER_SIZE, checkAck) /\ UNCHANGED history
     \/ SendClear /\ UNCHANGED <<fate, link, tx>>
  /\ infos' = <<>> /\ UNCHANGED <<geometryVars, pc, opening, made, gain, room, checkAck>>

(* Four messages, each waited for, whatever _check_ack was: the list is    *)
(* made when all are answered; else it is empty, or the call throws, and   *)
(* _check_ack stays on.                                                    *)
FirmwareInfoList ==
  /\ Calls
  /\ \/ Strays(HEADER_SIZE, TRUE) /\ UNCHANGED <<checkAck, infos>>
     \/ /\ Fits(HEADER_SIZE, TRUE) /\ link.state = "open" /\ Len(devices) <= link.num
        /\ \E id \in Ids : infos' =
             [i \in 1 .. Len(devices) |-> FirmwareInfo(i - 1, Answers(Versions, link.num, id, i))]
        /\ UNCHANGED <<checkAck, fate, link, tx, slaves>>
     \/ /\ Fits(HEADER_SIZE, TRUE) /\ (devices # <<>> \/ link.state = "lost")
        /\ infos' = <<>> /\ checkAck' = TRUE /\ UNCHANGED <<fate, link, tx, slaves>>
  /\ UNCHANGED <<geometryVars, pc, opening, made, gain, room, history>>
-----------------------------------------------------------------------------
(* close() does nothing unless the link is open; open() begins with it.    *)
Close ==
  /\ Idle /\ link.state = "open" /\ pc' = "stop" /\ opening' = FALSE
  /\ infos' = <<>> /\ UNCHANGED <<geometryVars, made, link, gain, room, tx, checkAck, slaves, fate, history>>

Open ==
  /\ Idle /\ made # NoLink /\ opening' = TRUE
  /\ pc' = IF link.state = "open" THEN "stop" ELSE "open link"
  /\ infos' = <<>> /\ UNCHANGED <<geometryVars, made, link, gain, room, tx, checkAck, slaves, fate, history>>

(* close() returns; open() goes on whatever it returned.                   *)
CloseReturns == pc' = (IF opening THEN "open link" ELSE "idle") /\ UNCHANGED <<opening, made>>

(* The link throws: so does close(), and open(), whose new link goes.      *)
CloseThrows ==
  /\ pc' = "idle" /\ opening' = FALSE /\ made' = IF opening THEN NoLink ELSE made

Stop ==
  /\ pc = "stop" /\ fate = "running"
  /\ LET rows == Silent(devices) end == BodyEnd(Len(devices)) IN
       \/ Strays(end, checkAck) /\ UNCHANGED <<pc, opening, made>>
       \/ /\ Fits(end, checkAck) /\ UNCHANGED fate
          /\ \/ Delivered(rows) /\ pc' = "clear" /\ UNCHANGED <<opening, made>>
             \/ Unacknowledged(rows) /\ CloseReturns
             \/ (CutOff(rows) \/ Undelivered(rows)) /\ CloseThrows
  /\ UNCHANGED <<geometryVars, gain, room, checkAck, infos, history>>

(* clear() is never acknowledged: if that is waited for it returns false   *)
(* and the link stays open.                                                *)
ClearAndClose ==
  /\ pc = "clear" /\ fate = "running"
  /\ \/ Strays(HEADER_SIZE, checkAck) /\ UNCHANGED <<pc, opening, made, history>>
     \/ /\ SendClear /\ UNCHANGED <<fate, link, tx>>
        /\ \/ Waits /\ CloseReturns
           \/ ~Waits /\ pc' = "close" /\ UNCHANGED <<opening, made>>
     \/ /\ Fits(HEADER_SIZE, checkAck) /\ link.state = "lost" /\ CloseThrows
        /\ UNCHANGED <<slaves, link, fate, tx, history>>
  /\ UNCHANGED <<geometryVars, gain, room, checkAck, infos>>

(* The link is closed and it and the buffers go; one that was lost since   *)
(* does nothing in its close(), and its destructor ends the process, for   *)
(* its thread was not joined.                                              *)
CloseLink ==
  /\ pc = "close" /\ fate = "running"
  /\ \/ /\ link.state = "open" /\ CloseReturns
        /\ slaves' = Sync0Off(slaves) /\ link' = NoLink
        /\ room' = 0 /\ tx' = [i \in Rows |-> Blank] /\ UNCHANGED fate
     \/ /\ link.state = "lost" /\ fate' = "terminated"
        /\ UNCHANGED <<pc, opening, made, slaves, link, room, tx>>
  /\ UNCHANGED <<geometryVars, gain, checkAck, infos, history>>

(* The rest of open(): new buffers, and the new link, which throws for one *)
(* reason or another and certainly if it does not find its number of       *)
(* slaves.  Then the one before goes: one that was lost ends the process,  *)
(* for its thread was not joined, and one that is open still closes itself *)
(* and takes the bus with it.                                              *)
Opened ==
  /\ made.num = Wired /\ Len(devices) >= Wired
  /\ link' = [made EXCEPT !.state = "open"] /\ stale' = FALSE /\ clean' = FALSE
  /\ slaves' = IF link.state = "open" THEN Sync0Off(slaves) ELSE Sync0On(slaves)
  /\ fate' = IF link.state = "lost" THEN "terminated" ELSE "running"

OpenThrows ==
  /\ slaves' = slaves \/ (made.num = Wired /\ Len(devices) >= Wired /\ slaves' = Sync0On(slaves))
  /\ UNCHANGED <<link, fate, stale, clean>>

OpenStrays ==
  /\ made.num = Wired /\ Len(devices) < Wired /\ fate' = "stray"
  /\ UNCHANGED <<link, slaves, stale, clean>>

(* A mutant: buffers that are there already are kept.                      *)
BugKeepsBuffers ==
  /\ pc = "open link" /\ fate = "running" /\ pc' = "idle" /\ opening' = FALSE
  /\ room' = (IF room = 0 THEN Len(devices) ELSE room) /\ tx' = [i \in Rows |-> Blank]
  /\ Opened \/ OpenThrows \/ OpenStrays
  /\ made' = IF fate' = "stray" THEN made ELSE NoLink
  /\ UNCHANGED <<geometryVars, gain, checkAck, infos>>

OpenLink ==
  /\ pc = "open link" /\ fate = "running" /\ pc' = "idle" /\ opening' = FALSE
  /\ room' = Len(devices) /\ tx' = [i \in Rows |-> Blank]
  /\ Opened \/ OpenThrows \/ OpenStrays
  /\ made' = IF fate' = "stray" THEN made ELSE NoLink
  /\ UNCHANGED <<geometryVars, gain, checkAck, infos>>
-----------------------------------------------------------------------------
LoseLink ==
  /\ fate = "running" /\ link.state = "open" /\ Loses
  /\ infos' = <<>> /\ UNCHANGED <<geometryVars, pc, opening, made, gain, room, tx, checkAck, slaves, fate, history>>
-----------------------------------------------------------------------------
Controller ==
  \/ Send \/ SetFrequency \/ Clear \/ FirmwareInfoList
  \/ Close \/ Open \/ Stop \/ ClearAndClose \/ CloseLink \/ OpenLink

Next == EditGeometry \/ CreateLink \/ RebuildGain \/ Controller \/ LoseLink

Spec == Init /\ [][Next]_vars
-----------------------------------------------------------------------------
Row == [first : Word, others : Word]
Link == [state : {"none", "made", "open", "lost"}, num : 0 .. MaxDevices, version : 0 .. MaxEdits]
Name == [series : {"older than v0.4", "v0", "v1", "emulator", "freq-shift", "unknown"}, n : Nat]
Info == [idx : Nat, cpu : Name, fpga : Name]

(* Type invariant.                                                         *)
TypeOK ==
  /\ devices \in Seq(Device) /\ Len(devices) <= MaxDevices /\ edits \in 0 .. MaxEdits
  /\ pc \in {"idle", "stop", "clear", "close", "open link"} /\ opening \in BOOLEAN
  /\ made \in Link /\ link \in Link /\ room \in 0 .. MaxDevices
  /\ gain.built \in BOOLEAN /\ gain.rows \in Seq(Word) /\ Len(gain.rows) <= MaxDevices
  /\ gain.version \in 0 .. MaxEdits
  /\ tx \in [Rows -> Row] /\ checkAck \in BOOLEAN /\ infos \in Seq(Info)
  /\ slaves \in [Slaves -> [duty : Row, phase : Row, cycle : Word, sync0 : Cycles \cup {"off"}]]
  /\ fate \in {"running", "stray", "terminated"}
  /\ stale \in BOOLEAN /\ clean \in BOOLEAN

(* The geometry was not changed since a link was made for it.              *)
Fixed(l) == l.state # "none" => l.version = edits

(* No call reads or writes outside of the buffers or of freq_cycles,       *)
(* through whatever sequence of opening, losing, closing and reopening the *)
(* controller has gone, as long as the geometry is the one the links were  *)
(* made for and the gains sent were built for it.                          *)
NoStrayAccess == fate = "stray" => stale \/ ~Fixed(link) \/ ~Fixed(made)

(* What a device plays was computed for the device of the geometry that is *)
(* in its place, each row of it, while the geometry is the one the open    *)
(* link was made for, once the devices were cleared through that link and  *)
(* unless a gain built for another geometry was sent since.                *)
Playing(r, d) == r \in {Blank, [first |-> Data(d), others |-> Data(d)]}
RightPlace ==
  link.state = "open" /\ Fixed(link) /\ clean /\ ~stale /\ fate = "running" => \A i \in Slaves :
    Playing(slaves[i].duty, devices[i]) /\ Playing(slaves[i].phase, devices[i])

(* The periods of a device agree while the geometry is the one the open    *)
(* link was made for: its SYNC0 pulse and, once it was cleared through the *)
(* link, its counter have the one its data are computed with.  SYNC0 is    *)
(* off on all of them instead if the link took the place of one whose      *)
(* close() failed, for which _check_ack has to be on, and it stays on.     *)
InStep ==
  link.state = "open" /\ Fixed(link) /\ fate = "running" =>
    /\ \/ \A i \in Slaves : slaves[i].sync0 = devices[i].cycle
       \/ checkAck /\ \A i \in Slaves : slaves[i].sync0 = "off"
    /\ clean => \A i \in Slaves : slaves[i].cycle \in {Zero, Cycle(devices[i])}

(* What the conditions above are for: none of these holds.  The buffers    *)
(* may be too small, a lost link cannot be replaced by another, a link may *)
(* be replaced that could not be closed, and devices another process left  *)
(* are out of step until they are cleared.                                 *)
NeverStrays == fate # "stray"
LinkReplaceable == fate # "terminated"
BusStaysUp ==
  link.state = "open" /\ Fixed(link) => \A i \in Slaves : slaves[i].sync0 = devices[i].cycle
InStepFromStart ==
  link.state = "open" /\ Fixed(link) =>
    \A i \in Slaves : slaves[i].cycle \in {Zero, Cycle(devices[i])}

(* The list names the firmware of each device in its place.                *)
InfosTrue ==
  \A i \in 1 .. Len(infos) :
    /\ infos[i].cpu = firmware_version_map(Versions[i].cpu)
    /\ infos[i].fpga = firmware_version_map(Versions[i].fpga)
=============================================================================
