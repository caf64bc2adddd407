---------------------------- MODULE Session_proofs ----------------------------
(***************************************************************************)
(* Proofs about what a user does with a controller, for any number of      *)
(* devices, slaves and changes of the geometry, any cycles and versions.   *)
(***************************************************************************)
EXTENDS Session, TLAPS

(* The types, in the parts that the steps change.                          *)
SlaveState == [duty : Row, phase : Row, cycle : Word, sync0 : Cycles \cup {"off"}]
GainState == [built : BOOLEAN, rows : Seq(Word), version : 0 .. MaxEdits]

GeometryTypes == devices \in Seq(Device) /\ Len(devices) <= MaxDevices /\ edits \in 0 .. MaxEdits
PlaceTypes == pc \in {"idle", "stop", "clear", "close", "open link"} /\ opening \in BOOLEAN
LinkTypes == made \in Link /\ link \in Link /\ room \in 0 .. MaxDevices /\ checkAck \in BOOLEAN
GainTypes == gain \in GainState /\ Len(gain.rows) <= MaxDevices
BufferTypes == tx \in [Rows -> Row] /\ slaves \in [Slaves -> SlaveState]
FateTypes == fate \in {"running", "stray", "terminated"} /\ stale \in BOOLEAN /\ clean \in BOOLEAN
InfoTypes == infos \in Seq(Info)

Types ==
  /\ GeometryTypes /\ PlaceTypes /\ LinkTypes /\ GainTypes
  /\ BufferTypes /\ FateTypes /\ InfoTypes

(* What the controller holds at each place of close() and open().          *)
LinkInv ==
  /\ link.state \in {"none", "open", "lost"} /\ (made = NoLink \/ made.state = "made")
  /\ link.state # "none" => link.num = Wired
  /\ pc \in {"stop", "clear", "close"} => link.state # "none"
  /\ pc = "open link" => made.state = "made"
  /\ pc \in {"stop", "clear", "close"} /\ opening => made.state = "made"
  /\ pc = "open link" /\ link.state = "open" => checkAck

(* A version says the geometry it names as long as it is the last one.     *)
SizeInv ==
  /\ link.version <= edits /\ made.version <= edits /\ gain.version <= edits
  /\ link.state # "none" /\ link.version = edits => link.num = Len(devices) /\ room = Len(devices)
  /\ made.state # "none" /\ made.version = edits => made.num = Len(devices)
  /\ gain.built /\ gain.version = edits => gain.rows = Focus(devices)

Inv == Types /\ LinkInv /\ SizeInv
-----------------------------------------------------------------------------
(* The operators the steps are built from.                                 *)
LEMMA WordTypes ==
  ASSUME NEW d \in Device
  PROVE  Zero \in Word /\ Data(d) \in Word /\ Cycle(d) \in Word /\ Blank \in Row
  BY DEF Word, Zero, Data, Cycle, Blank, Row

LEMMA BlankTypes == Zero \in Word /\ Blank \in Row
  BY DEF Word, Zero, Blank, Row

LEMMA FocusTypes ==
  ASSUME GeometryTypes
  PROVE  /\ Focus(devices) \in Seq(Word) /\ Len(Focus(devices)) = Len(devices)
         /\ Silent(devices) \in Seq(Word) /\ Len(Silent(devices)) = Len(devices)
         /\ \A i \in 1 .. Len(devices) :
              Focus(devices)[i] = Data(devices[i]) /\ Silent(devices)[i] = Zero
<1>1. \A i \in 1 .. Len(devices) : Data(devices[i]) \in Word
  BY WordTypes DEF GeometryTypes
<1> QED
  BY <1>1, BlankTypes DEF GeometryTypes, Focus, Silent

LEMMA BuildTypes ==
  ASSUME GeometryTypes, NEW g \in GainState, Len(g.rows) <= MaxDevices
  PROVE  Build(g) \in GainState /\ Len(Build(g).rows) <= MaxDevices
  BY FocusTypes DEF Build, GainState, GeometryTypes

LEMMA PackedTypes ==
  ASSUME NEW rows \in Seq(Word), NEW buf \in [Rows -> Row]
  PROVE  Packed(rows, buf) \in [Rows -> Row]
<1>1. \A i \in 1 .. Len(rows) : [first |-> rows[i], others |-> rows[i]] \in Row
  BY DEF Row
<1> QED
  BY <1>1 DEF Packed, Rows

LEMMA PackedCyclesTypes ==
  ASSUME GeometryTypes, NEW buf \in [Rows -> Row]
  PROVE  PackedCycles(buf) \in [Rows -> Row]
<1>1. \A i \in 1 .. Len(devices) : Cycle(devices[i]) \in Word
  BY WordTypes DEF GeometryTypes
<1> QED
  BY <1>1 DEF PackedCycles, Rows, Row

LEMMA SlavesAreRows == Slaves \subseteq Rows
  BY SessionAssumption DEF Slaves, Rows

(* A command changes the word it is about and no other.                    *)
LEMMA Commands ==
  ASSUME NEW s \in [Slaves -> SlaveState], NEW buf \in [Rows -> Row]
  PROVE  /\ WriteDuty(s, buf) \in [Slaves -> SlaveState]
         /\ WritePhase(s, buf) \in [Slaves -> SlaveState]
         /\ WriteCycle(s, buf) \in [Slaves -> SlaveState]
         /\ ClearAll(s) \in [Slaves -> SlaveState]
         /\ Sync0Off(s) \in [Slaves -> SlaveState]
<1>1. \A i \in Slaves : buf[i] \in Row /\ buf[i].first \in Word
  BY SlavesAreRows DEF Row
<1>2. \A i \in Slaves : s[i] \in SlaveState
  OBVIOUS
<1>3. WriteDuty(s, buf) \in [Slaves -> SlaveState]
  BY <1>1, <1>2 DEF WriteDuty, SlaveState
<1>4. WritePhase(s, buf) \in [Slaves -> SlaveState]
  BY <1>1, <1>2 DEF WritePhase, SlaveState
<1>5. WriteCycle(s, buf) \in [Slaves -> SlaveState]
  BY <1>1, <1>2 DEF WriteCycle, SlaveState
<1>6. ClearAll(s) \in [Slaves -> SlaveState]
  BY <1>2, BlankTypes DEF ClearAll, SlaveState
<1>7. Sync0Off(s) \in [Slaves -> SlaveState]
  BY <1>2 DEF Sync0Off, SlaveState
<1> QED
  BY <1>3, <1>4, <1>5, <1>6, <1>7

LEMMA CommandWrites ==
  ASSUME NEW s \in [Slaves -> SlaveState], NEW buf \in [Rows -> Row], NEW i \in Slaves
  PROVE  /\ /\ WriteDuty(s, buf)[i].duty = buf[i] /\ WriteDuty(s, buf)[i].phase = s[i].phase
            /\ WriteDuty(s, buf)[i].cycle = s[i].cycle /\ WriteDuty(s, buf)[i].sync0 = s[i].sync0
         /\ /\ WritePhase(s, buf)[i].phase = buf[i] /\ WritePhase(s, buf)[i].duty = s[i].duty
            /\ WritePhase(s, buf)[i].cycle = s[i].cycle /\ WritePhase(s, buf)[i].sync0 = s[i].sync0
         /\ /\ WriteCycle(s, buf)[i].cycle = buf[i].first /\ WriteCycle(s, buf)[i].sync0 = s[i].sync0
            /\ WriteCycle(s, buf)[i].duty = s[i].duty /\ WriteCycle(s, buf)[i].phase = s[i].phase
         /\ /\ ClearAll(s)[i].duty = Blank /\ ClearAll(s)[i].phase = Blank
            /\ ClearAll(s)[i].cycle = Zero /\ ClearAll(s)[i].sync0 = s[i].sync0
<1>1. s[i] \in SlaveState
  OBVIOUS
<1>2. /\ WriteDuty(s, buf)[i] = [s[i] EXCEPT !.duty = buf[i]]
      /\ WritePhase(s, buf)[i] = [s[i] EXCEPT !.phase = buf[i]]
      /\ WriteCycle(s, buf)[i] = [s[i] EXCEPT !.cycle = buf[i].first]
      /\ ClearAll(s)[i] = [s[i] EXCEPT !.duty = Blank, !.phase = Blank, !.cycle = Zero]
  BY DEF WriteDuty, WritePhase, WriteCycle, ClearAll
<1> QED
  BY <1>1, <1>2 DEF SlaveState

LEMMA Sync0 ==
  ASSUME GeometryTypes, Len(devices) >= Wired, NEW s \in [Slaves -> SlaveState]
  PROVE  /\ Sync0On(s) \in [Slaves -> SlaveState]
         /\ \A i \in Slaves :
              /\ Sync0On(s)[i].sync0 = devices[i].cycle /\ Sync0On(s)[i].cycle = s[i].cycle
              /\ Sync0On(s)[i].duty = s[i].duty /\ Sync0On(s)[i].phase = s[i].phase
<1>1. \A i \in Slaves : i \in 1 .. Len(devices)
  BY SessionAssumption DEF Slaves, GeometryTypes
<1>2. \A i \in Slaves : devices[i] \in Device
  BY <1>1 DEF GeometryTypes
<1>3. \A i \in Slaves : devices[i].cycle \in Cycles
  BY <1>2 DEF Device
<1> QED
  BY <1>3 DEF Sync0On, SlaveState

(* The two bytes of a version make the number again.                       *)
LEMMA BytesMakeVersion ==
  ASSUME NEW v \in Numbers
  PROVE  concat_byte(Msb(v), Lsb(v)) = v
<1> DEFINE h == v \div 256  l == v % 256
<1>1. v \in Int /\ 0 <= v /\ v <= 65535
  BY DEF Numbers
<1>2. h \in Int /\ l \in Int /\ 0 <= l /\ l < 256
  BY <1>1
<1>3. \A b \in Int, r \in Int : b = v \div 256 /\ r = v % 256 => v = 256 * b + r
  BY <1>1
<1>4. v = 256 * h + l
  BY <1>2, <1>3
<1>5. concat_byte(Msb(v), Lsb(v)) = (h % 256) * 256 + l
  BY DEF concat_byte, Msb, Lsb
<1> HIDE DEF h, l
<1>6. h \in 0 .. 255
  BY <1>1, <1>2, <1>4
<1>7. h % 256 = h
  BY <1>6
<1> QED
  BY <1>2, <1>4, <1>5, <1>6, <1>7

LEMMA VersionTypes ==
  ASSUME NEW v \in Numbers
  PROVE  firmware_version_map(v) \in Name
<1>1. v \in Int /\ 0 <= v /\ v <= 65535
  BY DEF Numbers
<1>2. CASE v = 0
  BY <1>2 DEF firmware_version_map, Name
<1>3. CASE v \in 1 .. 6
  <2>1. v # 0 /\ v + 3 \in Nat
    BY <1>1, <1>3
  <2>2. v \notin 10 .. 18 /\ v # 65535 /\ v \notin 61440 .. 65534
    BY <1>1, <1>3
  <2>3. firmware_version_map(v) = [series |-> "v0", n |-> v + 3]
    BY <1>1, <1>3, <2>1, <2>2 DEF firmware_version_map
  <2> QED
    BY <2>1, <2>3 DEF Name
<1>4. CASE v \in 10 .. 18
  <2>1. v - 10 \in Nat /\ v # 0 /\ v \notin 1 .. 6 /\ v # 65535 /\ v \notin 61440 .. 65534
    BY <1>1, <1>4
  <2>2. firmware_version_map(v) = [series |-> "v1", n |-> v - 10]
    BY <1>1, <1>4, <2>1 DEF firmware_version_map
  <2> QED
    BY <2>1, <2>2 DEF Name
<1>5. CASE v = 65535
  <2>1. v # 0 /\ v \notin 1 .. 6 /\ v \notin 10 .. 18
    BY <1>5
  <2>2. firmware_version_map(v) = [series |-> "emulator", n |-> 0]
    BY <1>5, <2>1 DEF firmware_version_map
  <2> QED
    BY <2>2 DEF Name
<1>6. CASE v \in 61440 .. 65534
  <2>1. v - 61440 + 1 \in Nat /\ v # 0 /\ v \notin 1 .. 6 /\ v \notin 10 .. 18 /\ v # 65535
    BY <1>1, <1>6
  <2>2. firmware_version_map(v) = [series |-> "freq-shift", n |-> v - 61440 + 1]
    BY <1>6, <2>1 DEF firmware_version_map
  <2> QED
    BY <2>1, <2>2 DEF Name
<1>7. CASE v # 0 /\ v \notin 1 .. 6 /\ v \notin 10 .. 18 /\ v # 65535 /\ v \notin 61440 .. 65534
  <2>1. firmware_version_map(v) = [series |-> "unknown", n |-> v]
    BY <1>7 DEF firmware_version_map
  <2> QED
    BY <1>1, <2>1 DEF Name
<1> QED
  BY <1>2, <1>3, <1>4, <1>5, <1>6, <1>7

(* The byte taken from the buffer is the answer of the device.             *)
LEMMA AnswerInPlace ==
  ASSUME NEW query, NEW versions, NEW num \in Nat, NEW id, NEW i \in 1 .. num
  PROVE  AnswerOf(Inputs(query, versions, num, id), i) = Answer(query, versions[i])
<1> DEFINE b == 2 * (i - 1)
<1>1. b \in 0 .. 2 * num - 1 /\ b % 2 = 0 /\ b \div 2 + 1 = i
  OBVIOUS
<1> HIDE DEF b
<1>2. Inputs(query, versions, num, id)[b] = Answer(query, versions[b \div 2 + 1])
  BY <1>1 DEF Inputs
<1>3. AnswerOf(Inputs(query, versions, num, id), i) = Inputs(query, versions, num, id)[b]
  BY DEF AnswerOf, b
<1> QED
  BY <1>1, <1>2, <1>3

(* The four answers together are the versions.                             *)
LEMMA AnswersMakeVersions ==
  ASSUME NEW versions, NEW num \in Nat, NEW id, NEW i \in 1 .. num, versions[i] \in Version
  PROVE  Answers(versions, num, id, i) = versions[i]
<1> DEFINE v == versions[i]
           With(query, words) == Taken(query, words, AnswerOf(Inputs(query, versions, num, id), i))
           w1 == [cpu |-> Lsb(v.cpu), fpga |-> 0]
           w2 == [cpu |-> v.cpu, fpga |-> 0]
           w3 == [cpu |-> v.cpu, fpga |-> Lsb(v.fpga)]
<1>1. v.cpu \in Numbers /\ v.fpga \in Numbers /\ v = [cpu |-> v.cpu, fpga |-> v.fpga]
  BY DEF Version
<1>2. \A query \in 1 .. 4 : AnswerOf(Inputs(query, versions, num, id), i) = Answer(query, v)
  BY AnswerInPlace
<1>3. concat_byte(Msb(v.cpu), Lsb(v.cpu)) = v.cpu /\ concat_byte(Msb(v.fpga), Lsb(v.fpga)) = v.fpga
  BY <1>1, BytesMakeVersion
<1> HIDE DEF v
<1>4. With(1, NoVersion) = w1
  BY <1>2 DEF Taken, Answer, NoVersion
<1>5. With(2, w1) = w2
  BY <1>2, <1>3 DEF Taken, Answer
<1>6. With(3, w2) = w3
  BY <1>2 DEF Taken, Answer
<1>7. With(4, w3) = [cpu |-> v.cpu, fpga |-> v.fpga]
  BY <1>2, <1>3 DEF Taken, Answer
<1>8. Answers(versions, num, id, i) = With(4, With(3, With(2, With(1, NoVersion))))
  BY DEF Answers
<1> QED
  BY <1>1, <1>4, <1>5, <1>6, <1>7, <1>8 DEF v

LEMMA InfoTrue ==
  ASSUME NEW idx \in Nat, NEW v \in Version
  PROVE  /\ FirmwareInfo(idx, v) \in Info
         /\ FirmwareInfo(idx, v).cpu = firmware_version_map(v.cpu)
         /\ FirmwareInfo(idx, v).fpga = firmware_version_map(v.fpga)
<1>1. v.cpu \in Numbers /\ v.fpga \in Numbers
  BY DEF Version
<1> QED
  BY <1>1, VersionTypes DEF FirmwareInfo, Info

(* A change of the geometry leaves a sequence of devices.                  *)
LEMMA EditTypes ==
  ASSUME GeometryTypes, EditGeometry
  PROVE  GeometryTypes' /\ edits' = edits + 1
<1>1. edits' = edits + 1 /\ edits' \in 0 .. MaxEdits
  <2>1. edits < MaxEdits /\ edits' = edits + 1
    BY DEF EditGeometry, AddDevice, DelDevice, ClearDevices, Edit
  <2> QED
    BY <2>1, SessionAssumption DEF GeometryTypes
<1>2. ASSUME NEW c \in Cycles, AddDevice(c) PROVE devices' \in Seq(Device) /\ Len(devices') <= MaxDevices
  <2>1. [no |-> edits', cycle |-> c] \in Device
    BY <1>1 DEF Device
  <2> QED
    BY <1>2, <2>1, SessionAssumption DEF GeometryTypes, AddDevice
<1>3. ASSUME NEW i \in 1 .. Len(devices), DelDevice(i)
      PROVE  devices' \in Seq(Device) /\ Len(devices') <= MaxDevices
  <2> DEFINE before == SubSeq(devices, 1, i - 1)  after == SubSeq(devices, i + 1, Len(devices))
  <2>1. devices \in Seq(Device) /\ Len(devices) \in Nat /\ Len(devices) <= MaxDevices
    BY DEF GeometryTypes
  <2>2. before \in Seq(Device) /\ Len(before) = i - 1
    BY <2>1
  <2>3. after \in Seq(Device) /\ Len(after) = Len(devices) - i
    BY <2>1
  <2>4. devices' = before \o after
    BY <1>3 DEF DelDevice, RemoveAt
  <2> HIDE DEF before, after
  <2>5. before \o after \in Seq(Device) /\ Len(before \o after) = Len(before) + Len(after)
    BY <2>2, <2>3
  <2> QED
    BY <2>1, <2>2, <2>3, <2>4, <2>5, SessionAssumption
<1>4. ASSUME ClearDevices PROVE devices' \in Seq(Device) /\ Len(devices') <= MaxDevices
  BY <1>4, SessionAssumption DEF GeometryTypes, ClearDevices
<1> QED
  BY <1>1, <1>2, <1>3, <1>4 DEF EditGeometry, GeometryTypes
-----------------------------------------------------------------------------
(* A message leaves types as they are, and the link or its number.         *)
LinkKept == link' = link \/ (link.state = "open" /\ link' = [link EXCEPT !.state = "lost"])

Message(rows) == Delivered(rows) \/ Unacknowledged(rows) \/ CutOff(rows) \/ Undelivered(rows)

LEMMA MessageExecutes ==
  ASSUME Types, NEW rows \in Seq(Word), Message(rows)
  PROVE  /\ tx' \in [Rows -> Row] /\ LinkKept
         /\ \/ slaves' = slaves
            \/ /\ tx' = Packed(rows, tx)
               /\ \E duties \in BOOLEAN, phases \in BOOLEAN : Execute(duties, phases)
<1>1. tx \in [Rows -> Row] /\ Packed(rows, tx) \in [Rows -> Row]
  BY PackedTypes DEF Types, BufferTypes
<1>2. CASE Delivered(rows)
  <2>1. \E duties \in BOOLEAN, phases \in BOOLEAN : Execute(duties, phases)
    BY <1>2 DEF Delivered, Arrivals
  <2> QED
    BY <1>1, <1>2, <2>1 DEF Delivered, LinkKept
<1>3. CASE Unacknowledged(rows)
  <2>1. \E duties \in BOOLEAN, phases \in BOOLEAN : Execute(duties, phases)
    BY <1>3 DEF Unacknowledged
  <2> QED
    BY <1>1, <1>3, <2>1 DEF Unacknowledged, LinkKept
<1>4. CASE CutOff(rows)
  <2>1. \E duties \in BOOLEAN, phases \in BOOLEAN : Execute(duties, phases)
    BY <1>4 DEF CutOff
  <2> QED
    BY <1>1, <1>4, <2>1 DEF CutOff, Loses, LinkKept
<1>5. CASE Undelivered(rows)
  BY <1>1, <1>5 DEF Undelivered, LinkKept
<1> QED
  BY <1>2, <1>3, <1>4, <1>5 DEF Message

LEMMA MessageTypes ==
  ASSUME Types, NEW rows \in Seq(Word), Message(rows)
  PROVE  BufferTypes' /\ LinkKept
<1>1. slaves \in [Slaves -> SlaveState]
  BY DEF Types, BufferTypes
<1>2. tx' \in [Rows -> Row] /\ LinkKept
  BY MessageExecutes
<1>3. slaves' \in [Slaves -> SlaveState]
  <2>1. CASE slaves' = slaves
    BY <1>1, <2>1
  <2>2. ASSUME NEW duties \in BOOLEAN, NEW phases \in BOOLEAN, Execute(duties, phases)
        PROVE  slaves' \in [Slaves -> SlaveState]
    <3> DEFINE s == IF duties THEN WriteDuty(slaves, tx') ELSE slaves
    <3>1. s \in [Slaves -> SlaveState]
      BY <1>1, <1>2, Commands
    <3>2. slaves' = IF phases THEN WritePhase(s, tx') ELSE s
      BY <2>2 DEF Execute
    <3> HIDE DEF s
    <3> QED
      BY <1>2, <3>1, <3>2, Commands
  <2> QED
    BY <2>1, <2>2, MessageExecutes
<1> QED
  BY <1>2, <1>3 DEF BufferTypes

LEMMA LinkKeptTypes ==
  ASSUME LinkTypes, LinkInv, SizeInv, LinkKept
  PROVE  /\ link' \in Link /\ link'.num = link.num /\ link'.version = link.version
         /\ link'.state \in {"none", "open", "lost"}
         /\ link'.state = "none" <=> link.state = "none"
         /\ link'.state = "open" => link' = link
  BY DEF LinkTypes, Link, LinkInv, LinkKept

(* What a call of the controller changes besides: nothing of the geometry, *)
(* the links and the place.                                                *)
LEMMA CallKeeps ==
  ASSUME Inv, LinkKept, UNCHANGED <<geometryVars, pc, opening, made, room>>,
         gain' = gain \/ gain' = Build(gain), checkAck' = checkAck \/ checkAck' = TRUE,
         BufferTypes', FateTypes', InfoTypes'
  PROVE  Inv'
<1>1. Types /\ LinkInv /\ SizeInv
  BY DEF Inv
<1>2. /\ link' \in Link /\ link'.num = link.num /\ link'.version = link.version
      /\ link'.state \in {"none", "open", "lost"} /\ (link'.state = "none" <=> link.state = "none")
      /\ (link'.state = "open" => link' = link)
  BY <1>1, LinkKeptTypes DEF Types
<1>3. gain' \in GainState /\ Len(gain'.rows) <= MaxDevices
  BY <1>1, BuildTypes DEF Types, GainTypes
<1>4. Types'
  BY <1>1, <1>2, <1>3 DEF Types, GeometryTypes, geometryVars, PlaceTypes, LinkTypes, GainTypes
<1>5. LinkInv'
  BY <1>1, <1>2 DEF LinkInv
<1>6. gain'.version <= edits /\ (gain'.built /\ gain'.version = edits => gain'.rows = Focus(devices))
  BY <1>1 DEF SizeInv, Build, Types, GeometryTypes
<1>7. Focus(devices)' = Focus(devices)
  BY DEF Focus, geometryVars
<1>8. SizeInv'
  BY <1>1, <1>2, <1>6, <1>7 DEF SizeInv, geometryVars
<1> QED
  BY <1>4, <1>5, <1>8 DEF Inv

LEMMA SendKeeps ==
  ASSUME Inv, Send
  PROVE  Inv'
<1>1. Types /\ UNCHANGED <<geometryVars, pc, opening, made, room, checkAck>> /\ gain' = Build(gain)
  BY DEF Inv, Send
<1>2. gain' \in GainState
  BY <1>1, BuildTypes DEF Types, GainTypes
<1>3. gain'.rows \in Seq(Word)
  BY <1>2 DEF GainState
<1>4. BufferTypes' /\ LinkKept /\ fate' \in {"running", "stray", "terminated"}
  <2>1. CASE Strays(BodyEnd(Len(gain'.rows)), checkAck)
    BY <1>1, <2>1 DEF Strays, Types, BufferTypes, LinkKept
  <2>2. CASE UNCHANGED fate /\ Message(gain'.rows)
    <3>1. BufferTypes' /\ LinkKept
      BY <1>1, <1>3, <2>2, MessageTypes
    <3> QED
      BY <1>1, <2>2, <3>1 DEF Types, FateTypes
  <2> QED
    BY <2>1, <2>2 DEF Send, Message
<1>5. stale' \in BOOLEAN /\ clean' \in BOOLEAN /\ infos' = <<>>
  BY <1>1 DEF Send, Types, FateTypes
<1>6. FateTypes' /\ InfoTypes'
  BY <1>4, <1>5 DEF FateTypes, InfoTypes
<1> QED
  BY <1>1, <1>4, <1>6, CallKeeps

LEMMA SetFrequencyKeeps ==
  ASSUME Inv, SetFrequency
  PROVE  Inv'
<1>1. Types /\ UNCHANGED <<geometryVars, pc, opening, made, room, gain, checkAck, history>>
  BY DEF Inv, SetFrequency
<1>2. BufferTypes' /\ LinkKept /\ fate' \in {"running", "stray", "terminated"}
  <2>1. CASE Strays(FreqEnd(Len(devices)), checkAck)
    BY <1>1, <2>1 DEF Strays, Types, BufferTypes, LinkKept
  <2>2. CASE tx' = PackedCycles(tx) /\ slaves' \in {slaves, WriteCycle(slaves, tx')} /\ UNCHANGED <<fate, link>>
    <3>1. tx' \in [Rows -> Row]
      BY <1>1, <2>2, PackedCyclesTypes DEF Types, BufferTypes
    <3> QED
      BY <1>1, <2>2, <3>1, Commands DEF Types, BufferTypes, FateTypes, LinkKept
  <2> QED
    BY <2>1, <2>2 DEF SetFrequency
<1>3. FateTypes' /\ InfoTypes'
  BY <1>1, <1>2 DEF SetFrequency, Types, FateTypes, InfoTypes, history
<1> QED
  BY <1>1, <1>2, <1>3, CallKeeps

LEMMA ClearKeeps ==
  ASSUME Inv, Clear
  PROVE  Inv'
<1>1. Types /\ UNCHANGED <<geometryVars, pc, opening, made, room, gain, checkAck>>
  BY DEF Inv, Clear
<1>2. BufferTypes' /\ LinkKept /\ fate' \in {"running", "stray", "terminated"}
  <2>1. CASE Strays(HEADER_SIZE, checkAck)
    BY <1>1, <2>1 DEF Strays, Types, BufferTypes, LinkKept
  <2>2. CASE slaves' \in {slaves, ClearAll(slaves)} /\ UNCHANGED <<fate, link, tx>>
    BY <1>1, <2>2, Commands DEF Types, BufferTypes, FateTypes, LinkKept
  <2> QED
    BY <2>1, <2>2 DEF Clear, SendClear
<1>3. FateTypes' /\ InfoTypes'
  <2>1. stale' \in BOOLEAN /\ clean' \in BOOLEAN /\ infos' = <<>>
    BY <1>1 DEF Clear, SendClear, history, Types, FateTypes
  <2> QED
    BY <1>2, <2>1 DEF FateTypes, InfoTypes
<1> QED
  BY <1>1, <1>2, <1>3, CallKeeps

(* A list that is returned says of each device what it answered.           *)
LEMMA ListIsTrue ==
  ASSUME Inv, Len(devices) <= link.num, Calls, NEW id,
         infos' = [i \in 1 .. Len(devices) |-> FirmwareInfo(i - 1, Answers(Versions, link.num, id, i))]
  PROVE  InfoTypes' /\ InfosTrue'
<1>1. Len(devices) \in Nat /\ Len(devices) <= Wired /\ link.num = Wired /\ Wired \in Nat
  <2>1. link.num = Wired
    BY DEF Inv, LinkInv, Calls
  <2> QED
    BY <2>1, SessionAssumption DEF Inv, Types, GeometryTypes
<1>2. ASSUME NEW i \in 1 .. Len(devices)
      PROVE  i - 1 \in Nat /\ i \in 1 .. Wired /\ Versions[i] \in Version
  BY <1>1, <1>2, SessionAssumption DEF Slaves
<1>3. \A i \in 1 .. Len(devices) : Answers(Versions, link.num, id, i) = Versions[i]
  BY <1>1, <1>2, AnswersMakeVersions
<1>4. infos' = [i \in 1 .. Len(devices) |-> FirmwareInfo(i - 1, Versions[i])]
  BY <1>3
<1>5. \A i \in 1 .. Len(devices) :
        /\ FirmwareInfo(i - 1, Versions[i]) \in Info
        /\ FirmwareInfo(i - 1, Versions[i]).cpu = firmware_version_map(Versions[i].cpu)
        /\ FirmwareInfo(i - 1, Versions[i]).fpga = firmware_version_map(Versions[i].fpga)
  BY <1>2, InfoTrue
<1>6. infos' \in Seq(Info) /\ Len(infos') = Len(devices)
  BY <1>1, <1>4, <1>5
<1> QED
  BY <1>4, <1>5, <1>6 DEF InfoTypes, InfosTrue

LEMMA FirmwareInfoListKeeps ==
  ASSUME Inv, FirmwareInfoList
  PROVE  Inv'
<1>1. Types /\ UNCHANGED <<geometryVars, pc, opening, made, room, gain, history, link, tx, slaves>>
  BY DEF Inv, FirmwareInfoList, Strays
<1>2. BufferTypes' /\ FateTypes' /\ LinkKept
  BY <1>1 DEF FirmwareInfoList, Strays, Types, BufferTypes, FateTypes, LinkKept, history
<1>3. checkAck' = checkAck \/ checkAck' = TRUE
  BY DEF FirmwareInfoList
<1>4. InfoTypes'
  <2>1. CASE UNCHANGED infos
    BY <1>1, <2>1 DEF Types, InfoTypes
  <2>2. CASE infos' = <<>>
    BY <2>2 DEF InfoTypes
  <2>3. CASE /\ Len(devices) <= link.num /\ Calls
             /\ \E id \in Ids : infos' =
                  [i \in 1 .. Len(devices) |-> FirmwareInfo(i - 1, Answers(Versions, link.num, id, i))]
    BY <2>3, ListIsTrue
  <2> QED
    BY <2>1, <2>2, <2>3 DEF FirmwareInfoList
<1> QED
  BY <1>1, <1>2, <1>3, <1>4, CallKeeps
-----------------------------------------------------------------------------
(* The user's steps that are no call.                                      *)
LEMMA EditGeometryKeeps ==
  ASSUME Inv, EditGeometry
  PROVE  Inv'
<1>1. Types /\ LinkInv /\ SizeInv
  BY DEF Inv
<1>2. GeometryTypes' /\ edits' = edits + 1
  BY <1>1, EditTypes DEF Types
<1>3. infos' = <<>> /\ UNCHANGED <<pc, opening, made, link, gain, room, tx, checkAck, slaves, fate, history>>
  BY DEF EditGeometry
<1>4. Types'
  <2>1. InfoTypes'
    BY <1>3 DEF InfoTypes
  <2> QED
    BY <1>1, <1>2, <1>3, <2>1 DEF Types, PlaceTypes, LinkTypes, GainTypes, BufferTypes, FateTypes, history
<1>5. LinkInv'
  BY <1>1, <1>3 DEF LinkInv
<1>6. link.version <= edits /\ made.version <= edits /\ gain.version <= edits
  BY <1>1 DEF SizeInv
<1>7. edits \in Int /\ link.version \in Int /\ made.version \in Int /\ gain.version \in Int
  BY <1>1, SessionAssumption DEF Types, GeometryTypes, LinkTypes, Link, GainTypes, GainState
<1>8. SizeInv'
  BY <1>2, <1>3, <1>6, <1>7 DEF SizeInv
<1> QED
  BY <1>4, <1>5, <1>8 DEF Inv

LEMMA CreateLinkKeeps ==
  ASSUME Inv, CreateLink
  PROVE  Inv'
<1>1. Types /\ LinkInv /\ SizeInv
  BY DEF Inv
<1>2. /\ pc = "idle" /\ made' = [state |-> "made", num |-> Len(devices), version |-> edits]
      /\ infos' = <<>>
      /\ UNCHANGED <<devices, edits, pc, opening, link, gain, room, tx, checkAck, slaves, fate, stale, clean>>
  BY DEF CreateLink, Idle, geometryVars, history
<1>3. made' \in Link
  BY <1>1, <1>2 DEF Types, GeometryTypes, Link
<1>4. Types'
  <2>1. InfoTypes'
    BY <1>2 DEF InfoTypes
  <2> QED
    BY <1>1, <1>2, <1>3, <2>1
       DEF Types, GeometryTypes, PlaceTypes, LinkTypes, GainTypes, BufferTypes, FateTypes
<1>5. LinkInv'
  BY <1>1, <1>2 DEF LinkInv
<1>6. Focus(devices)' = Focus(devices)
  BY <1>2 DEF Focus
<1>7. edits \in Int
  BY <1>1 DEF Types, GeometryTypes
<1>8. SizeInv'
  BY <1>1, <1>2, <1>6, <1>7 DEF SizeInv
<1> QED
  BY <1>4, <1>5, <1>8 DEF Inv

LEMMA RebuildGainKeeps ==
  ASSUME Inv, RebuildGain
  PROVE  Inv'
<1>1. Types /\ LinkInv /\ SizeInv
  BY DEF Inv
<1>2. /\ gain' = Build([gain EXCEPT !.built = FALSE])
      /\ infos' = <<>>
      /\ UNCHANGED <<devices, edits, pc, opening, made, link, room, tx, checkAck, slaves, fate, stale, clean>>
  BY DEF RebuildGain, Rebuild, geometryVars, history
<1>3. [gain EXCEPT !.built = FALSE] \in GainState /\ Len([gain EXCEPT !.built = FALSE].rows) <= MaxDevices
  BY <1>1 DEF Types, GainTypes, GainState
<1>4. gain' \in GainState /\ Len(gain'.rows) <= MaxDevices
  BY <1>1, <1>2, <1>3, BuildTypes DEF Types
<1>5. gain'.version = edits /\ gain'.rows = Focus(devices)
  BY <1>1, <1>2 DEF Build, Types, GainTypes, GainState
<1>6. Types'
  <2>1. InfoTypes'
    BY <1>2 DEF InfoTypes
  <2> QED
    BY <1>1, <1>2, <1>4, <2>1
       DEF Types, GeometryTypes, PlaceTypes, LinkTypes, GainTypes, BufferTypes, FateTypes
<1>7. LinkInv'
  BY <1>1, <1>2 DEF LinkInv
<1>8. Focus(devices)' = Focus(devices)
  BY <1>2 DEF Focus
<1>9. edits \in Int
  BY <1>1 DEF Types, GeometryTypes
<1>10. SizeInv'
  BY <1>1, <1>2, <1>5, <1>8, <1>9 DEF SizeInv
<1> QED
  BY <1>6, <1>7, <1>10 DEF Inv

LEMMA LoseLinkKeeps ==
  ASSUME Inv, LoseLink
  PROVE  Inv'
<1>1. Types /\ LinkKept
  BY DEF Inv, LoseLink, Loses, LinkKept
<1>2. /\ UNCHANGED <<geometryVars, pc, opening, made, gain, room, tx, checkAck>>
      /\ infos' = <<>> /\ UNCHANGED <<slaves, fate, stale, clean>>
  BY DEF LoseLink, history
<1>3. BufferTypes' /\ FateTypes' /\ InfoTypes'
  BY <1>1, <1>2 DEF Types, BufferTypes, FateTypes, InfoTypes
<1> QED
  BY <1>1, <1>2, <1>3, CallKeeps
-----------------------------------------------------------------------------
(* close() and open().                                                     *)
LEMMA BeginsKeep ==
  ASSUME Inv, Close \/ Open
  PROVE  Inv'
<1>1. Types /\ LinkInv /\ SizeInv
  BY DEF Inv
<1>2. /\ infos' = <<>>
      /\ UNCHANGED <<devices, edits, made, link, gain, room, tx, checkAck, slaves, fate, stale, clean>>
  BY DEF Close, Open, geometryVars, history
<1>3. pc' \in {"stop", "open link"} /\ opening' \in BOOLEAN
  BY DEF Close, Open
<1>4. Types'
  <2>1. PlaceTypes'
    BY <1>3 DEF PlaceTypes
  <2>2. InfoTypes'
    BY <1>2 DEF InfoTypes
  <2> QED
    BY <1>1, <1>2, <2>1, <2>2
       DEF Types, GeometryTypes, LinkTypes, GainTypes, BufferTypes, FateTypes
<1>5. pc' = "stop" => link.state = "open"
  BY DEF Close, Open
<1>6. pc' = "open link" => link.state # "open" /\ made # NoLink
  BY DEF Close, Open
<1>7. opening' => made # NoLink
  BY DEF Close, Open
<1>8. made # NoLink => made.state = "made"
  BY <1>1 DEF LinkInv
<1>9. LinkInv'
  BY <1>1, <1>2, <1>3, <1>5, <1>6, <1>7, <1>8 DEF LinkInv
<1>10. Focus(devices)' = Focus(devices)
  BY <1>2 DEF Focus
<1>11. SizeInv'
  BY <1>1, <1>2, <1>10 DEF SizeInv
<1> QED
  BY <1>4, <1>9, <1>11 DEF Inv

(* The two outcomes of close(), and the four of its first message.         *)
LEMMA StopKeeps ==
  ASSUME Inv, Stop
  PROVE  Inv'
<1>1. Types /\ LinkInv /\ SizeInv
  BY DEF Inv
<1>2. /\ pc = "stop" /\ UNCHANGED <<devices, edits, gain, room, checkAck, infos, stale, clean>>
  BY DEF Stop, geometryVars, history
<1>3. Silent(devices) \in Seq(Word)
  BY <1>1, FocusTypes DEF Types
<1>4. BufferTypes' /\ LinkKept /\ fate' \in {"running", "stray", "terminated"}
  <2>1. CASE Strays(BodyEnd(Len(devices)), checkAck)
    BY <1>1, <2>1 DEF Strays, Types, BufferTypes, LinkKept
  <2>2. CASE UNCHANGED fate /\ Message(Silent(devices))
    <3>1. BufferTypes' /\ LinkKept
      BY <1>1, <1>3, <2>2, MessageTypes
    <3> QED
      BY <1>1, <2>2, <3>1 DEF Types, FateTypes
  <2> QED
    BY <2>1, <2>2 DEF Stop, Message
<1>5. /\ link' \in Link /\ link'.num = link.num /\ link'.version = link.version
      /\ link'.state \in {"none", "open", "lost"} /\ (link'.state = "none" <=> link.state = "none")
      /\ (link'.state = "open" => link' = link)
  BY <1>1, <1>4, LinkKeptTypes DEF Types
<1>6. \/ pc' = "stop" /\ opening' = opening /\ made' = made
      \/ pc' = "clear" /\ opening' = opening /\ made' = made
      \/ pc' = "idle" /\ opening' = opening /\ made' = made /\ ~opening
      \/ /\ pc' = "open link" /\ opening' = opening /\ made' = made /\ opening
         /\ link.state = "open" => checkAck
      \/ pc' = "idle" /\ opening' = FALSE /\ made' \in {made, NoLink}
  <2>1. CASE UNCHANGED <<pc, opening, made>>
    BY <1>2, <2>1
  <2>2. CASE pc' = "clear" /\ UNCHANGED <<opening, made>>
    BY <2>2
  <2>3. CASE CloseThrows
    BY <2>3 DEF CloseThrows
  <2>4. CASE Unacknowledged(Silent(devices)) /\ CloseReturns
    BY <2>4 DEF CloseReturns, Unacknowledged, Waits
  <2> QED
    BY <2>1, <2>2, <2>3, <2>4 DEF Stop
<1>7. NoLink \in Link
  BY <1>1, SessionAssumption DEF NoLink, Link, Types, GeometryTypes
<1>8. Types'
  <2>1. PlaceTypes' /\ made' \in Link
    BY <1>1, <1>6, <1>7 DEF Types, PlaceTypes, LinkTypes
  <2> QED
    BY <1>1, <1>2, <1>4, <1>5, <2>1
       DEF Types, GeometryTypes, LinkTypes, GainTypes, FateTypes, InfoTypes
<1>9. LinkInv'
  <2>1. /\ made' = NoLink \/ made'.state = "made"
        /\ link'.state \in {"none", "open", "lost"} /\ link'.state # "none" /\ link'.num = Wired
    BY <1>1, <1>2, <1>5, <1>6 DEF LinkInv
  <2>2. pc' = "open link" => made'.state = "made" /\ (link'.state = "open" => checkAck')
    BY <1>1, <1>2, <1>5, <1>6 DEF LinkInv
  <2>3. pc' \in {"stop", "clear", "close"} /\ opening' => made'.state = "made"
    BY <1>1, <1>2, <1>6 DEF LinkInv
  <2> QED
    BY <2>1, <2>2, <2>3 DEF LinkInv
<1>10. Focus(devices)' = Focus(devices)
  BY <1>2 DEF Focus
<1>11. NoLink.version <= edits /\ NoLink.state = "none"
  BY <1>1 DEF NoLink, Types, GeometryTypes
<1>12. SizeInv'
  BY <1>1, <1>2, <1>5, <1>6, <1>10, <1>11 DEF SizeInv
<1> QED
  BY <1>8, <1>9, <1>12 DEF Inv

LEMMA ClearAndCloseKeeps ==
  ASSUME Inv, ClearAndClose \/ CloseLink
  PROVE  Inv'
<1>1. Types /\ LinkInv /\ SizeInv
  BY DEF Inv
<1>2. /\ pc \in {"clear", "close"} /\ UNCHANGED <<devices, edits, gain, checkAck, infos>>
      /\ stale' \in {stale, FALSE} /\ clean' \in {clean, TRUE}
  BY DEF ClearAndClose, CloseLink, SendClear, geometryVars, history
<1>3. NoLink \in Link /\ NoLink.version <= edits /\ NoLink.state = "none"
  BY <1>1, SessionAssumption DEF NoLink, Link, Types, GeometryTypes
<1>4. BufferTypes' /\ FateTypes' /\ room' \in 0 .. MaxDevices
  <2>1. /\ ClearAll(slaves) \in [Slaves -> SlaveState] /\ slaves \in [Slaves -> SlaveState]
        /\ Sync0Off(slaves) \in [Slaves -> SlaveState]
    BY <1>1, BlankTypes, Commands DEF Types, BufferTypes
  <2>2. tx' \in {tx, [i \in Rows |-> Blank]} /\ slaves' \in {slaves, ClearAll(slaves), Sync0Off(slaves)}
    BY DEF ClearAndClose, CloseLink, SendClear, Strays
  <2>3. fate' \in {fate, "stray", "terminated"} /\ room' \in {room, 0}
    BY DEF ClearAndClose, CloseLink, Strays
  <2>4. [i \in Rows |-> Blank] \in [Rows -> Row]
    BY BlankTypes
  <2>5. BufferTypes'
    BY <1>1, <2>1, <2>2, <2>4 DEF Types, BufferTypes
  <2>6. FateTypes'
    BY <1>1, <1>2, <2>3 DEF Types, FateTypes
  <2>7. room' \in 0 .. MaxDevices
    BY <1>1, <2>3, SessionAssumption DEF Types, LinkTypes
  <2> QED
    BY <2>5, <2>6, <2>7
<1>5. \/ link' = link /\ room' = room
      \/ link' = NoLink
  BY DEF ClearAndClose, CloseLink, Strays
<1>6. \/ pc' \in {"clear", "close"} /\ opening' = opening /\ made' = made /\ link' = link
      \/ pc' = "idle" /\ opening' = opening /\ made' = made
      \/ /\ pc' = "open link" /\ opening' = opening /\ made' = made /\ opening
         /\ link' = NoLink \/ checkAck
      \/ pc' = "idle" /\ opening' = FALSE /\ made' \in {made, NoLink}
  BY <1>2 DEF ClearAndClose, CloseLink, Strays, CloseReturns, CloseThrows, Waits
<1>7. Types'
  <2>1. PlaceTypes' /\ made' \in Link /\ link' \in Link
    BY <1>1, <1>3, <1>5, <1>6 DEF Types, PlaceTypes, LinkTypes
  <2> QED
    BY <1>1, <1>2, <1>4, <2>1
       DEF Types, GeometryTypes, LinkTypes, GainTypes, InfoTypes
<1>8. LinkInv'
  <2>1. /\ made' = NoLink \/ made'.state = "made"
        /\ link'.state \in {"none", "open", "lost"} /\ (link'.state # "none" => link'.num = Wired)
    BY <1>1, <1>2, <1>3, <1>5, <1>6 DEF LinkInv
  <2>2. pc' = "open link" => made'.state = "made" /\ (link'.state = "open" => checkAck')
    BY <1>1, <1>2, <1>3, <1>6 DEF LinkInv
  <2>3. pc' \in {"stop", "clear", "close"} => link'.state # "none" /\ (opening' => made'.state = "made")
    BY <1>1, <1>2, <1>6 DEF LinkInv
  <2> QED
    BY <2>1, <2>2, <2>3 DEF LinkInv
<1>9. Focus(devices)' = Focus(devices)
  BY <1>2 DEF Focus
<1>10. SizeInv'
  BY <1>1, <1>2, <1>3, <1>5, <1>6, <1>9 DEF SizeInv
<1> QED
  BY <1>7, <1>8, <1>10 DEF Inv

LEMMA OpenLinkKeeps ==
  ASSUME Inv, OpenLink
  PROVE  Inv'
<1>1. Types /\ LinkInv /\ SizeInv
  BY DEF Inv
<1>2. /\ pc = "open link" /\ pc' = "idle" /\ opening' = FALSE /\ room' = Len(devices)
      /\ tx' = [i \in Rows |-> Blank] /\ UNCHANGED <<devices, edits, gain, checkAck, infos>>
  BY DEF OpenLink, geometryVars
<1>3. NoLink \in Link /\ NoLink.version <= edits /\ NoLink.state = "none"
  BY <1>1, SessionAssumption DEF NoLink, Link, Types, GeometryTypes
<1>4. made' \in {made, NoLink}
  BY DEF OpenLink
<1>5. link' = link \/ (link' = [made EXCEPT !.state = "open"] /\ made.num = Wired)
  BY DEF OpenLink, Opened, OpenThrows, OpenStrays
<1>6. BufferTypes'
  <2>1. slaves \in [Slaves -> SlaveState] /\ [i \in Rows |-> Blank] \in [Rows -> Row]
    BY <1>1, BlankTypes DEF Types, BufferTypes
  <2>2. \/ slaves' = slaves \/ slaves' = Sync0Off(slaves)
        \/ slaves' = Sync0On(slaves) /\ Len(devices) >= Wired
    BY DEF OpenLink, Opened, OpenThrows, OpenStrays
  <2> QED
    BY <1>1, <1>2, <2>1, <2>2, Commands, Sync0 DEF Types, BufferTypes
<1>7. FateTypes'
  <2>1. fate' \in {fate, "terminated", "running", "stray"} /\ stale' \in {stale, FALSE} /\ clean' \in {clean, FALSE}
    BY DEF OpenLink, Opened, OpenThrows, OpenStrays
  <2> QED
    BY <1>1, <2>1 DEF Types, FateTypes
<1>8. link' \in Link
  BY <1>1, <1>5 DEF Types, LinkTypes, Link
<1>9. Types'
  <2>1. PlaceTypes' /\ made' \in Link
    BY <1>1, <1>2, <1>3, <1>4 DEF Types, PlaceTypes, LinkTypes
  <2>2. room' \in 0 .. MaxDevices
    <3>1. Len(devices) \in 0 .. MaxDevices
      BY <1>1, SessionAssumption DEF Types, GeometryTypes
    <3> QED
      BY <1>2, <3>1
  <2> QED
    BY <1>1, <1>2, <1>6, <1>7, <1>8, <2>1, <2>2
       DEF Types, GeometryTypes, LinkTypes, GainTypes, InfoTypes
<1>10. /\ link'.state \in {"none", "open", "lost"} /\ (link'.state # "none" => link'.num = Wired)
       /\ link'.version = link.version \/ link'.version = made.version
       /\ link' = link \/ (link'.num = made.num /\ link'.version = made.version /\ made.state # "none")
  BY <1>1, <1>2, <1>5 DEF LinkInv, Types, LinkTypes, Link
<1>11. LinkInv'
  BY <1>1, <1>2, <1>4, <1>10 DEF LinkInv
<1>12. Focus(devices)' = Focus(devices)
  BY <1>2 DEF Focus
<1>13. SizeInv'
  BY <1>1, <1>2, <1>3, <1>4, <1>10, <1>12 DEF SizeInv
<1> QED
  BY <1>9, <1>11, <1>13 DEF Inv

LEMMA InitInv == Init => Inv
<1> SUFFICES ASSUME Init PROVE Inv
  OBVIOUS
<1>1. /\ devices = <<>> /\ edits = 0 /\ pc = "idle" /\ opening = FALSE /\ made = NoLink /\ link = NoLink
      /\ gain = NewGain /\ room = 0 /\ tx = [i \in Rows |-> Blank] /\ checkAck = FALSE /\ infos = <<>>
      /\ fate = "running" /\ stale = FALSE /\ clean = FALSE
  BY DEF Init, InitGeometry
<1>2. NoLink \in Link /\ NoLink.version = 0 /\ NoLink.state = "none"
  BY SessionAssumption DEF NoLink, Link
<1>3. NewGain \in GainState /\ NewGain.version = 0 /\ ~NewGain.built /\ Len(NewGain.rows) = 0
  BY SessionAssumption DEF NewGain, GainState
<1>4. slaves \in [Slaves -> SlaveState]
  <2>1. PowerOn \in SlaveState
    BY BlankTypes DEF PowerOn, SlaveState
  <2>2. ASSUME NEW c \in Cycles PROVE LeftBy(c) \in SlaveState
    <3> DEFINE d == [no |-> 0, cycle |-> c]
    <3>1. d \in Device
      BY SessionAssumption DEF Device
    <3>2. Data(d) \in Word /\ Cycle(d) \in Word
      BY <3>1, WordTypes
    <3> HIDE DEF d
    <3>3. [first |-> Data(d), others |-> Data(d)] \in Row
      BY <3>2 DEF Row
    <3>4. LeftBy(c) = [duty |-> [first |-> Data(d), others |-> Data(d)],
                       phase |-> [first |-> Data(d), others |-> Data(d)], cycle |-> Cycle(d), sync0 |-> c]
      BY DEF LeftBy, d
    <3> QED
      BY <3>2, <3>3, <3>4 DEF SlaveState
  <2> QED
    BY <2>1, <2>2 DEF Init
<1>5. Types
  <2>1. GeometryTypes
    BY <1>1, SessionAssumption DEF GeometryTypes
  <2>2. PlaceTypes /\ FateTypes
    BY <1>1 DEF PlaceTypes, FateTypes
  <2>3. LinkTypes
    <3>1. 0 \in 0 .. MaxDevices
      BY SessionAssumption
    <3>2. made \in Link /\ link \in Link /\ room \in 0 .. MaxDevices
      BY <1>1, <1>2, <3>1
    <3>3. checkAck \in BOOLEAN
      BY <1>1
    <3> QED
      BY <3>2, <3>3 DEF LinkTypes
  <2>4. GainTypes
    BY <1>1, <1>3, SessionAssumption DEF GainTypes
  <2>5. BufferTypes
    BY <1>1, <1>4, BlankTypes DEF BufferTypes
  <2>6. InfoTypes
    BY <1>1 DEF InfoTypes
  <2> QED
    BY <2>1, <2>2, <2>3, <2>4, <2>5, <2>6 DEF Types
<1>6. LinkInv
  BY <1>1, <1>2 DEF LinkInv
<1>7. SizeInv
  BY <1>1, <1>2, <1>3 DEF SizeInv
<1> QED
  BY <1>5, <1>6, <1>7 DEF Inv

LEMMA StutterKeeps == Inv /\ UNCHANGED vars => Inv'
<1> SUFFICES ASSUME Inv, UNCHANGED vars PROVE Inv'
  OBVIOUS
<1>1. UNCHANGED <<devices, edits, pc, opening, made, link, gain, room, tx, checkAck, infos, slaves, fate, stale, clean>>
  BY DEF vars, geometryVars, history
<1>2. Focus(devices)' = Focus(devices)
  BY <1>1 DEF Focus
<1>3. Types'
  BY <1>1 DEF Inv, Types, GeometryTypes, PlaceTypes, LinkTypes, GainTypes, BufferTypes, FateTypes, InfoTypes
<1>4. LinkInv'
  BY <1>1 DEF Inv, LinkInv
<1>5. SizeInv'
  BY <1>1, <1>2 DEF Inv, SizeInv
<1> QED
  BY <1>3, <1>4, <1>5 DEF Inv

LEMMA InvHolds == Spec => []Inv
<1>1. Inv /\ [Next]_vars => Inv'
  BY EditGeometryKeeps, CreateLinkKeeps, RebuildGainKeeps, SendKeeps, SetFrequencyKeeps, ClearKeeps,
     FirmwareInfoListKeeps, BeginsKeep, StopKeeps, ClearAndCloseKeeps, OpenLinkKeeps, LoseLinkKeeps,
     StutterKeeps
     DEF Next, Controller
<1> QED
  BY InitInv, <1>1, PTL DEF Spec

(* Type correctness: no list, buffer or link ever gets out of its bounds.  *)
THEOREM TypeCorrect == Spec => []TypeOK
<1>1. Inv => TypeOK
  BY DEF Inv, Types, GeometryTypes, PlaceTypes, LinkTypes, GainTypes, BufferTypes, FateTypes,
         InfoTypes, GainState, SlaveState, TypeOK
<1> QED
  BY InvHolds, <1>1, PTL
-----------------------------------------------------------------------------
(* The list of firmware_info_list names the firmware of each device in its *)
(* place.                                                                  *)
THEOREM ListNamesFirmware == Spec => []InfosTrue
<1>1. Init => InfosTrue
  BY DEF Init, InfosTrue
<1>2. Inv /\ InfosTrue /\ [Next]_vars => InfosTrue'
  <2> SUFFICES ASSUME Inv, InfosTrue, [Next]_vars PROVE InfosTrue'
    OBVIOUS
  <2>1. \/ infos' = infos \/ infos' = <<>>
        \/ /\ Calls /\ Len(devices) <= link.num
           /\ \E id \in Ids : infos' =
                [i \in 1 .. Len(devices) |-> FirmwareInfo(i - 1, Answers(Versions, link.num, id, i))]
    <3>1. CASE FirmwareInfoList
      BY <3>1 DEF FirmwareInfoList
    <3>2. CASE EditGeometry \/ CreateLink \/ RebuildGain \/ LoseLink \/ UNCHANGED vars
      BY <3>2 DEF EditGeometry, CreateLink, RebuildGain, LoseLink, vars
    <3>3. CASE Send \/ SetFrequency \/ Clear \/ Close \/ Open
      BY <3>3 DEF Send, SetFrequency, Clear, Close, Open
    <3>4. CASE Stop \/ ClearAndClose \/ CloseLink \/ OpenLink
      BY <3>4 DEF Stop, ClearAndClose, CloseLink, OpenLink
    <3> QED
      BY <3>1, <3>2, <3>3, <3>4 DEF Next, Controller
  <2>2. CASE infos' = infos
    BY <2>2 DEF InfosTrue
  <2>3. CASE infos' = <<>>
    BY <2>3 DEF InfosTrue
  <2> QED
    BY <2>1, <2>2, <2>3, ListIsTrue
<1> QED
  BY <1>1, <1>2, InvHolds, PTL DEF Spec
-----------------------------------------------------------------------------
(* With the geometry the link was made for, the buffers have the room every *)
(* message needs, and the link the slaves it counts on.                    *)
LEMMA SizesFit ==
  ASSUME Inv, link.state # "none", Fixed(link), NEW waits \in BOOLEAN
  PROVE  /\ Fits(HEADER_SIZE, waits) /\ Fits(BodyEnd(Len(devices)), waits)
         /\ Fits(FreqEnd(Len(devices)), waits)
         /\ Len(devices) = Wired
<1>1. /\ Len(devices) = Wired /\ room = Wired /\ link.num = Wired
      /\ Wired \in Nat /\ Wired >= 1
  <2>1. link.num = Wired /\ link.num = Len(devices) /\ room = Len(devices)
    BY DEF Inv, LinkInv, SizeInv, Fixed
  <2> QED
    BY <2>1, SessionAssumption
<1>2. BodyEnd(Wired) <= 626 * Wired /\ BodyEnd(Wired) \in Nat /\ HEADER_SIZE <= 626 * Wired
  BY <1>1 DEF BodyEnd, HEADER_SIZE, NUM_TRANS_IN_UNIT
<1>3. FreqEnd(Wired) <= 626 * Wired
  BY <1>1 DEF FreqEnd, BodyEnd, HEADER_SIZE, NUM_TRANS_IN_UNIT
<1> QED
  BY <1>1, <1>2, <1>3 DEF Fits, EC_OUTPUT_FRAME_SIZE

(* No call leaves the buffers: see NoStrayAccess.                          *)
LEMMA NextNoStray ==
  ASSUME Inv, Inv', NoStrayAccess, [Next]_vars
  PROVE  NoStrayAccess'
<1>1. checkAck \in BOOLEAN /\ TRUE \in BOOLEAN
  BY DEF Inv, Types, LinkTypes
<1>2. CASE EditGeometry \/ CreateLink \/ RebuildGain \/ LoseLink
  <2>1. fate = "running" /\ fate' = fate
    BY <1>2 DEF EditGeometry, CreateLink, RebuildGain, LoseLink, Idle
  <2> QED
    BY <2>1 DEF NoStrayAccess
<1>3. CASE Send
  <2> SUFFICES ASSUME fate' = "stray", ~stale', Fixed(link') PROVE FALSE
    BY <1>3 DEF NoStrayAccess, Send, Fixed, geometryVars
  <2>1. link.state # "none" /\ fate = "running" /\ gain' = Build(gain) /\ gain'.version = edits
    BY <1>3 DEF Send, Calls, Idle
  <2>2. Strays(BodyEnd(Len(gain'.rows)), checkAck)
    BY <1>3, <2>1 DEF Send
  <2>3. Fixed(link)
    BY <1>3, <2>2 DEF Strays, Fixed, Send, geometryVars
  <2>4. gain'.rows = Focus(devices)
    BY <2>1 DEF Build, Inv, SizeInv
  <2>5. Len(gain'.rows) = Len(devices)
    BY <2>4, FocusTypes DEF Inv, Types
  <2> QED
    BY <1>1, <2>1, <2>2, <2>3, <2>5, SizesFit DEF Strays
<1>4. CASE SetFrequency \/ Clear \/ FirmwareInfoList
  <2> SUFFICES ASSUME fate' = "stray", Fixed(link') PROVE FALSE
    BY <1>4 DEF NoStrayAccess, SetFrequency, Clear, FirmwareInfoList, SendClear, Fixed, geometryVars
  <2>1. link.state # "none" /\ fate = "running"
    BY <1>4 DEF SetFrequency, Clear, FirmwareInfoList, Calls, Idle
  <2>2. \/ Strays(FreqEnd(Len(devices)), checkAck) \/ Strays(HEADER_SIZE, checkAck)
        \/ Strays(HEADER_SIZE, TRUE)
    BY <1>4, <2>1 DEF SetFrequency, Clear, FirmwareInfoList, SendClear
  <2>3. Fixed(link)
    BY <1>4, <2>2 DEF Strays, Fixed, SetFrequency, Clear, FirmwareInfoList, geometryVars
  <2> QED
    BY <1>1, <2>1, <2>2, <2>3, SizesFit DEF Strays
<1>5. CASE Close \/ Open
  <2>1. fate = "running" /\ fate' = fate
    BY <1>5 DEF Close, Open, Idle
  <2> QED
    BY <2>1 DEF NoStrayAccess
<1>6. CASE Stop \/ ClearAndClose \/ CloseLink
  <2> SUFFICES ASSUME fate' = "stray", Fixed(link') PROVE FALSE
    BY <1>6 DEF NoStrayAccess, Stop, ClearAndClose, CloseLink, Fixed, geometryVars
  <2>1. link.state # "none" /\ fate = "running"
    BY <1>6 DEF Stop, ClearAndClose, CloseLink, Inv, LinkInv
  <2>2. Strays(BodyEnd(Len(devices)), checkAck) \/ Strays(HEADER_SIZE, checkAck)
    BY <1>6, <2>1 DEF Stop, ClearAndClose, CloseLink
  <2>3. Fixed(link)
    BY <1>6, <2>2 DEF Strays, Fixed, Stop, ClearAndClose, CloseLink, geometryVars
  <2> QED
    BY <1>1, <2>1, <2>2, <2>3, SizesFit DEF Strays
<1>7. CASE OpenLink
  <2> SUFFICES ASSUME fate' = "stray", Fixed(made') PROVE FALSE
    BY <1>7 DEF NoStrayAccess, OpenLink, Fixed, geometryVars
  <2>1. fate = "running" /\ made.state = "made" /\ made' = made /\ edits' = edits
    BY <1>7 DEF OpenLink, Inv, LinkInv, geometryVars
  <2>2. made.num = Wired /\ Len(devices) < Wired
    BY <1>7, <2>1 DEF OpenLink, Opened, OpenThrows, OpenStrays
  <2>3. made.num = Len(devices)
    BY <2>1 DEF Fixed, Inv, SizeInv
  <2> QED
    BY <2>2, <2>3 DEF Inv, Types, GeometryTypes
<1>8. CASE UNCHANGED vars
  BY <1>8 DEF vars, geometryVars, history, NoStrayAccess, Fixed
<1> QED
  BY <1>2, <1>3, <1>4, <1>5, <1>6, <1>7, <1>8 DEF Next, Controller

(* No call reads or writes outside of _tx_buf, _rx_buf or freq_cycles,     *)
(* however the controller was opened, lost, closed and reopened, as long   *)
(* as the geometry is the one of the links and the gains.                  *)
THEOREM CallsStayInBuffers == Spec => []NoStrayAccess
<1>1. Init => NoStrayAccess
  BY DEF Init, NoStrayAccess
<1> QED
  BY <1>1, NextNoStray, InvHolds, PTL DEF Spec
-----------------------------------------------------------------------------
(* Data and periods of the devices.                                        *)
InPlace ==
  \A i \in Slaves : Playing(slaves[i].duty, devices[i]) /\ Playing(slaves[i].phase, devices[i])

(* The steps that leave both as they are, unless they take away what the   *)
(* properties ask for.                                                     *)
Untouched ==
  /\ \A i \in Slaves : /\ slaves'[i].duty = slaves[i].duty /\ slaves'[i].phase = slaves[i].phase
                       /\ slaves'[i].cycle = slaves[i].cycle /\ slaves'[i].sync0 = slaves[i].sync0
  /\ UNCHANGED <<devices, edits, stale, clean>> /\ (checkAck => checkAck')
  /\ link'.state = "open" => link' = link
  /\ fate' = "running" => fate = "running"

LEMMA OtherSteps ==
  ASSUME Inv,
         \/ CreateLink \/ RebuildGain \/ LoseLink \/ FirmwareInfoList \/ Close \/ Open
         \/ CloseLink \/ UNCHANGED vars
  PROVE  Untouched \/ link'.state = "none" \/ fate' = "terminated"
<1>1. link \in Link
  BY DEF Inv, Types, LinkTypes
<1>2. CASE CreateLink \/ RebuildGain \/ Close \/ Open \/ UNCHANGED vars
  BY <1>2 DEF CreateLink, RebuildGain, Close, Open, vars, Untouched, geometryVars, history
<1>3. CASE LoseLink
  BY <1>1, <1>3 DEF LoseLink, Loses, Link, Untouched, geometryVars, history
<1>4. CASE FirmwareInfoList
  <2>1. /\ slaves' = slaves /\ link' = link /\ UNCHANGED <<devices, edits, stale, clean>>
        /\ checkAck' = checkAck \/ checkAck' = TRUE
    BY <1>4 DEF FirmwareInfoList, Strays, geometryVars, history
  <2>2. fate = "running"
    BY <1>4 DEF FirmwareInfoList, Calls, Idle
  <2> QED
    BY <2>1, <2>2 DEF Untouched
<1>5. CASE CloseLink
  BY <1>5 DEF CloseLink, NoLink
<1> QED
  BY <1>2, <1>3, <1>4, <1>5

(* After a change of the geometry nothing is asked of an open link.        *)
LEMMA EditedIsNotFixed ==
  ASSUME Inv, EditGeometry
  PROVE  link'.state = "open" => ~Fixed(link)'
<1>1. edits' = edits + 1 /\ link' = link
  BY EditTypes DEF Inv, Types, EditGeometry
<1>2. link.version <= edits /\ edits \in Int /\ link.version \in Int
  BY SessionAssumption DEF Inv, SizeInv, Types, GeometryTypes, LinkTypes, Link
<1> QED
  BY <1>1, <1>2 DEF Fixed

(* A message of a gain carries a row to each device, and no period.        *)
LEMMA MessageRows ==
  ASSUME Inv, NEW rows \in Seq(Word), Message(rows)
  PROVE  \A i \in Slaves :
           /\ slaves'[i].cycle = slaves[i].cycle /\ slaves'[i].sync0 = slaves[i].sync0
           /\ \/ slaves'[i].duty = slaves[i].duty
              \/ i <= Len(rows) => slaves'[i].duty = [first |-> rows[i], others |-> rows[i]]
           /\ \/ slaves'[i].phase = slaves[i].phase
              \/ i <= Len(rows) => slaves'[i].phase = [first |-> rows[i], others |-> rows[i]]
<1>1. slaves \in [Slaves -> SlaveState] /\ tx' \in [Rows -> Row]
  BY MessageExecutes DEF Inv, Types, BufferTypes
<1>2. CASE slaves' = slaves
  BY <1>2
<1>3. ASSUME tx' = Packed(rows, tx), NEW duties \in BOOLEAN, NEW phases \in BOOLEAN, Execute(duties, phases)
      PROVE  \A i \in Slaves :
               /\ slaves'[i].cycle = slaves[i].cycle /\ slaves'[i].sync0 = slaves[i].sync0
               /\ slaves'[i].duty = slaves[i].duty \/ slaves'[i].duty = tx'[i]
               /\ slaves'[i].phase = slaves[i].phase \/ slaves'[i].phase = tx'[i]
  <2> DEFINE d == IF duties THEN WriteDuty(slaves, tx') ELSE slaves
  <2>1. d \in [Slaves -> SlaveState]
    BY <1>1, Commands
  <2>2. \A i \in Slaves : /\ d[i].duty = slaves[i].duty \/ d[i].duty = tx'[i]
                          /\ d[i].cycle = slaves[i].cycle /\ d[i].sync0 = slaves[i].sync0
                          /\ d[i].phase = slaves[i].phase
    BY <1>1, CommandWrites
  <2>3. slaves' = IF phases THEN WritePhase(d, tx') ELSE d
    BY <1>3 DEF Execute
  <2> HIDE DEF d
  <2>4. CASE phases
    <3>1. \A i \in Slaves : /\ slaves'[i].phase = tx'[i] /\ slaves'[i].duty = d[i].duty
                            /\ slaves'[i].cycle = d[i].cycle /\ slaves'[i].sync0 = d[i].sync0
      BY <1>1, <2>1, <2>3, <2>4, CommandWrites
    <3> QED
      BY <2>2, <3>1
  <2>5. CASE ~phases
    BY <2>2, <2>3, <2>5
  <2> QED
    BY <2>4, <2>5
<1>4. tx' = Packed(rows, tx) =>
        \A i \in Slaves : i <= Len(rows) => tx'[i] = [first |-> rows[i], others |-> rows[i]]
  BY SlavesAreRows DEF Packed
<1> QED
  BY <1>2, <1>3, <1>4, MessageExecutes DEF Inv

LEMMA MessageInPlace ==
  ASSUME Inv, InPlace, UNCHANGED devices, Len(devices) = Wired, NEW rows \in Seq(Word), Len(rows) = Wired,
         \A i \in Slaves : Playing([first |-> rows[i], others |-> rows[i]], devices[i]),
         Message(rows)
  PROVE  InPlace'
<1>1. \A i \in Slaves : i <= Len(rows)
  BY SessionAssumption DEF Slaves
<1> QED
  BY <1>1, MessageRows DEF InPlace

LEMMA SilentPlays ==
  ASSUME Inv, Len(devices) = Wired
  PROVE  /\ Silent(devices) \in Seq(Word) /\ Len(Silent(devices)) = Wired
         /\ Focus(devices) \in Seq(Word) /\ Len(Focus(devices)) = Wired
         /\ \A i \in Slaves :
              /\ Playing([first |-> Silent(devices)[i], others |-> Silent(devices)[i]], devices[i])
              /\ Playing([first |-> Focus(devices)[i], others |-> Focus(devices)[i]], devices[i])
  BY FocusTypes DEF Inv, Types, Slaves, Playing, Blank

LEMMA OpenIsKept ==
  ASSUME Inv, NEW rows, Message(rows), link'.state = "open"
  PROVE  link' = link
<1>1. link \in Link
  BY DEF Inv, Types, LinkTypes
<1> QED
  BY <1>1 DEF Message, Delivered, Unacknowledged, CutOff, Undelivered, Loses, Link

(* What a device plays is its own.                                         *)
LEMMA NextRightPlace ==
  ASSUME Inv, RightPlace, [Next]_vars
  PROVE  RightPlace'
<1> DEFINE Asked == link.state = "open" /\ Fixed(link) /\ clean /\ ~stale /\ fate = "running"
<1> SUFFICES ASSUME Asked' PROVE InPlace'
  BY DEF RightPlace, InPlace
<1>1. Asked => InPlace
  BY DEF RightPlace, InPlace
<1>2. slaves \in [Slaves -> SlaveState] /\ tx \in [Rows -> Row] /\ link \in Link
  BY DEF Inv, Types, BufferTypes, LinkTypes
<1>3. ASSUME Untouched PROVE InPlace'
  <2>1. Asked
    BY <1>3 DEF Untouched, Fixed
  <2> QED
    BY <1>1, <1>3, <2>1 DEF Untouched, InPlace
<1>4. CASE EditGeometry
  BY <1>4, EditedIsNotFixed
<1>5. CASE Send
  <2>1. /\ UNCHANGED <<devices, edits>> /\ clean' = clean /\ fate = "running"
        /\ gain' = Build(gain) /\ ~stale /\ gain'.version = edits
    BY <1>5 DEF Send, Calls, Idle, geometryVars
  <2>2. Message(gain'.rows)
    BY <1>5 DEF Send, Strays, Message
  <2>3. link' = link
    BY <2>2, OpenIsKept
  <2>4. Asked
    BY <2>1, <2>3 DEF Fixed
  <2>5. gain'.rows = Focus(devices)
    BY <2>1 DEF Build, Inv, SizeInv
  <2>6. Len(devices) = Wired
    BY <2>4, SizesFit
  <2> QED
    BY <1>1, <2>1, <2>2, <2>4, <2>5, <2>6, MessageInPlace, SilentPlays
<1>6. CASE SetFrequency
  <2>1. /\ UNCHANGED <<devices, edits, clean, stale>> /\ link' = link /\ fate = "running"
        /\ tx' = PackedCycles(tx) /\ slaves' \in {slaves, WriteCycle(slaves, tx')}
    BY <1>6 DEF SetFrequency, Strays, Calls, Idle, geometryVars, history
  <2>2. Asked
    BY <2>1 DEF Fixed
  <2>3. tx' \in [Rows -> Row]
    BY <1>2, <2>1, PackedCyclesTypes DEF Inv, Types
  <2>4. \A i \in Slaves : slaves'[i].duty = slaves[i].duty /\ slaves'[i].phase = slaves[i].phase
    BY <1>2, <2>1, <2>3, CommandWrites
  <2> QED
    BY <1>1, <2>1, <2>2, <2>4 DEF InPlace
<1>7. CASE Clear \/ ClearAndClose
  <2>1. UNCHANGED <<devices, edits>> /\ fate = "running"
    BY <1>7 DEF Clear, ClearAndClose, Calls, Idle, geometryVars
  <2>2. /\ link' = link
        /\ slaves' = ClearAll(slaves) \/ (slaves' = slaves /\ UNCHANGED <<stale, clean>>)
    BY <1>7 DEF Clear, ClearAndClose, SendClear, Strays, history
  <2>3. CASE slaves' = ClearAll(slaves)
    <3>1. \A i \in Slaves : slaves'[i].duty = Blank /\ slaves'[i].phase = Blank
      BY <1>2, <2>3, CommandWrites
    <3> QED
      BY <3>1 DEF InPlace, Playing
  <2>4. CASE slaves' = slaves /\ UNCHANGED <<stale, clean>>
    <3>1. Asked
      BY <2>1, <2>2, <2>4 DEF Fixed
    <3> QED
      BY <1>1, <2>1, <2>4, <3>1 DEF InPlace
  <2> QED
    BY <2>2, <2>3, <2>4
<1>8. CASE Stop
  <2>1. /\ UNCHANGED <<devices, edits, clean, stale>> /\ fate = "running"
        /\ Message(Silent(devices))
    BY <1>8 DEF Stop, Strays, geometryVars, history, Message
  <2>2. link' = link
    BY <2>1, OpenIsKept
  <2>3. Asked
    BY <2>1, <2>2 DEF Fixed
  <2>4. Len(devices) = Wired
    BY <2>3, SizesFit
  <2> QED
    BY <1>1, <2>1, <2>3, <2>4, MessageInPlace, SilentPlays
<1>9. CASE OpenLink
  <2>1. OpenThrows /\ UNCHANGED <<devices, edits>> /\ fate = "running"
    BY <1>9 DEF OpenLink, Opened, OpenStrays, geometryVars
  <2>2. Asked
    BY <2>1 DEF OpenThrows, Fixed
  <2>3. Len(devices) >= Wired
    <3>1. Len(devices) = Wired
      BY <2>2, SizesFit
    <3> QED
      BY <3>1, SessionAssumption
  <2>4. \A i \in Slaves : slaves'[i].duty = slaves[i].duty /\ slaves'[i].phase = slaves[i].phase
    <3>1. CASE slaves' = slaves
      BY <3>1
    <3>2. CASE slaves' = Sync0On(slaves)
      BY <1>2, <2>3, <3>2, Sync0 DEF Inv, Types
    <3> QED
      BY <2>1, <3>1, <3>2 DEF OpenThrows
  <2> QED
    BY <1>1, <2>1, <2>2, <2>4 DEF InPlace
<1>10. CASE \/ CreateLink \/ RebuildGain \/ LoseLink \/ FirmwareInfoList \/ Close \/ Open
            \/ CloseLink \/ UNCHANGED vars
  BY <1>3, <1>10, OtherSteps
<1> QED
  BY <1>4, <1>5, <1>6, <1>7, <1>8, <1>9, <1>10 DEF Next, Controller

(* What a device plays was computed for the device in its place, in each   *)
(* row: with the geometry the link was made for, the devices cleared       *)
(* through it, and no gain of another geometry sent since.                 *)
THEOREM DataAreInPlace == Spec => []RightPlace
<1>1. Init => RightPlace
  BY DEF Init, RightPlace, NoLink
<1> QED
  BY <1>1, NextRightPlace, InvHolds, PTL DEF Spec

(* The periods agree.                                                      *)
Pulsed == \A i \in Slaves : slaves[i].sync0 = devices[i].cycle
Down == checkAck /\ \A i \in Slaves : slaves[i].sync0 = "off"
Counted == clean => \A i \in Slaves : slaves[i].cycle \in {Zero, Cycle(devices[i])}

LEMMA NextInStep ==
  ASSUME Inv, InStep, [Next]_vars
  PROVE  InStep'
<1> DEFINE Asked == link.state = "open" /\ Fixed(link) /\ fate = "running"
<1> SUFFICES ASSUME Asked' PROVE (Pulsed \/ Down)' /\ Counted'
  BY DEF InStep, Pulsed, Down, Counted
<1>1. Asked => (Pulsed \/ Down) /\ Counted
  BY DEF InStep, Pulsed, Down, Counted
<1>2. slaves \in [Slaves -> SlaveState] /\ tx \in [Rows -> Row] /\ link \in Link
  BY DEF Inv, Types, BufferTypes, LinkTypes
<1>3. ASSUME Asked, UNCHANGED <<devices, checkAck>>,
             \A i \in Slaves : slaves'[i].sync0 = slaves[i].sync0
      PROVE  (Pulsed \/ Down)'
  BY <1>1, <1>3 DEF Pulsed, Down
<1>4. CASE EditGeometry
  BY <1>4, EditedIsNotFixed
<1>5. ASSUME NEW rows \in Seq(Word), fate = "running", UNCHANGED <<devices, edits, checkAck, clean>>,
             Message(rows)
      PROVE  (Pulsed \/ Down)' /\ Counted'
  <2>1. link' = link
    BY <1>5, OpenIsKept
  <2>2. Asked
    BY <1>5, <2>1 DEF Fixed
  <2>3. \A i \in Slaves : slaves'[i].cycle = slaves[i].cycle /\ slaves'[i].sync0 = slaves[i].sync0
    BY <1>5, MessageRows
  <2>4. Counted'
    BY <1>1, <1>5, <2>2, <2>3 DEF Counted
  <2> QED
    BY <1>3, <1>5, <2>2, <2>3, <2>4
<1>6. CASE Send
  <2>1. /\ UNCHANGED <<devices, edits, checkAck, clean>> /\ fate = "running"
        /\ gain' = Build(gain) /\ Message(gain'.rows)
    BY <1>6 DEF Send, Strays, Calls, Idle, geometryVars, Message
  <2>2. gain'.rows \in Seq(Word)
    BY <2>1, BuildTypes DEF Inv, Types, GainTypes, GainState
  <2> QED
    BY <1>5, <2>1, <2>2
<1>7. CASE Stop
  <2>1. /\ UNCHANGED <<devices, edits, checkAck, clean>> /\ fate = "running"
        /\ Message(Silent(devices))
    BY <1>7 DEF Stop, Strays, geometryVars, history, Message
  <2>2. Silent(devices) \in Seq(Word)
    BY FocusTypes DEF Inv, Types
  <2> QED
    BY <1>5, <2>1, <2>2
<1>8. CASE SetFrequency
  <2>1. /\ UNCHANGED <<devices, edits, checkAck, clean>> /\ link' = link /\ fate = "running"
        /\ tx' = PackedCycles(tx) /\ slaves' \in {slaves, WriteCycle(slaves, tx')}
    BY <1>8 DEF SetFrequency, Strays, Calls, Idle, geometryVars, history
  <2>2. Asked
    BY <2>1 DEF Fixed
  <2>3. Len(devices) = Wired
    BY <2>2, SizesFit
  <2>4. \A i \in Slaves : i <= Len(devices)
    BY <2>3, SessionAssumption DEF Slaves
  <2>5. \A i \in Slaves : tx'[i].first = Cycle(devices[i])
    <3>1. ASSUME NEW i \in Slaves PROVE tx'[i] = [tx[i] EXCEPT !.first = Cycle(devices[i])] /\ tx[i] \in Row
      BY <1>2, <2>1, <2>4, SlavesAreRows DEF PackedCycles
    <3> QED
      BY <3>1 DEF Row
  <2>6. tx' \in [Rows -> Row]
    BY <1>2, <2>1, PackedCyclesTypes DEF Inv, Types
  <2>7. \A i \in Slaves : /\ slaves'[i].sync0 = slaves[i].sync0
                          /\ slaves'[i].cycle \in {slaves[i].cycle, Cycle(devices[i])}
    BY <1>2, <2>1, <2>5, <2>6, CommandWrites
  <2>8. Counted'
    BY <1>1, <2>1, <2>2, <2>7 DEF Counted
  <2> QED
    BY <1>3, <2>1, <2>2, <2>7, <2>8
<1>9. CASE Clear \/ ClearAndClose
  <2>1. UNCHANGED <<devices, edits, checkAck>> /\ fate = "running"
    BY <1>9 DEF Clear, ClearAndClose, Calls, Idle, geometryVars
  <2>2. link' = link /\ (slaves' = ClearAll(slaves) \/ (slaves' = slaves /\ clean' = clean))
    BY <1>9 DEF Clear, ClearAndClose, SendClear, Strays, history
  <2>3. Asked
    BY <2>1, <2>2 DEF Fixed
  <2>4. CASE slaves' = ClearAll(slaves)
    <3>1. \A i \in Slaves : slaves'[i].cycle = Zero /\ slaves'[i].sync0 = slaves[i].sync0
      BY <1>2, <2>4, CommandWrites
    <3>2. Counted'
      BY <3>1 DEF Counted
    <3> QED
      BY <1>3, <2>1, <2>3, <3>1, <3>2
  <2>5. CASE slaves' = slaves /\ clean' = clean
    <3>1. Counted'
      BY <1>1, <2>1, <2>3, <2>5 DEF Counted
    <3> QED
      BY <1>3, <2>1, <2>3, <2>5, <3>1
  <2> QED
    BY <2>2, <2>4, <2>5
<1>10. CASE OpenLink
  <2>1. /\ UNCHANGED <<devices, edits, checkAck>> /\ fate = "running" /\ pc = "open link"
        /\ Opened \/ OpenThrows
    BY <1>10 DEF OpenLink, OpenStrays, geometryVars
  <2>2. CASE Opened /\ link.state = "open"
    <3>1. checkAck' /\ ~clean' /\ slaves' = Sync0Off(slaves)
      BY <2>1, <2>2 DEF Inv, LinkInv, Opened
    <3>2. \A i \in Slaves : slaves'[i].sync0 = "off"
      BY <1>2, <3>1 DEF Sync0Off, SlaveState
    <3> QED
      BY <3>1, <3>2 DEF Down, Counted
  <2>3. CASE Opened /\ link.state # "open"
    <3>1. slaves' = Sync0On(slaves) /\ ~clean' /\ Len(devices) >= Wired
      BY <2>3 DEF Opened
    <3>2. \A i \in Slaves : slaves'[i].sync0 = devices[i].cycle
      BY <1>2, <3>1, Sync0 DEF Inv, Types
    <3> QED
      BY <2>1, <3>1, <3>2 DEF Pulsed, Counted
  <2>4. CASE OpenThrows
    <3>1. Asked /\ clean' = clean
      BY <2>1, <2>4 DEF OpenThrows, Fixed
    <3>2. CASE slaves' = slaves
      <4>1. Counted'
        BY <1>1, <2>1, <3>1, <3>2 DEF Counted
      <4> QED
        BY <1>3, <2>1, <3>1, <3>2, <4>1
    <3>3. CASE slaves' = Sync0On(slaves) /\ Len(devices) >= Wired
      <4>1. \A i \in Slaves : slaves'[i].sync0 = devices[i].cycle /\ slaves'[i].cycle = slaves[i].cycle
        BY <1>2, <3>3, Sync0 DEF Inv, Types
      <4>2. Counted'
        BY <1>1, <2>1, <3>1, <4>1 DEF Counted
      <4> QED
        BY <2>1, <4>1, <4>2 DEF Pulsed
    <3> QED
      BY <2>4, <3>2, <3>3 DEF OpenThrows
  <2> QED
    BY <2>1, <2>2, <2>3, <2>4
<1>11. CASE \/ CreateLink \/ RebuildGain \/ LoseLink \/ FirmwareInfoList \/ Close \/ Open
            \/ CloseLink \/ UNCHANGED vars
  <2>1. Untouched
    BY <1>11, OtherSteps
  <2>2. Asked
    BY <2>1 DEF Untouched, Fixed
  <2>3. Counted'
    BY <1>1, <2>1, <2>2 DEF Counted, Untouched
  <2>4. (Pulsed \/ Down)'
    BY <1>1, <2>1, <2>2 DEF Pulsed, Down, Untouched
  <2> QED
    BY <2>3, <2>4
<1> QED
  BY <1>4, <1>6, <1>7, <1>8, <1>9, <1>10, <1>11 DEF Next, Controller

(* With the geometry the link was made for, the SYNC0 pulse of a device    *)
(* has the period its data are computed with, or is off on all of them     *)
(* when the link took the place of one whose close() failed; and its       *)
(* counter has it once it was cleared through the link.                    *)
THEOREM PeriodsAgree == Spec => []InStep
<1>1. Init => InStep
  BY DEF Init, InStep, NoLink
<1> QED
  BY <1>1, NextInStep, InvHolds, PTL DEF Spec
=============================================================================
