----------------------------- MODULE Controller -----------------------------
(***************************************************************************)
(* The client's Controller (controller.hpp) with the message ids of Logic  *)
(* (core/logic.hpp), over an open link, and the firmware of the devices.   *)
(*                                                                         *)
(* A call of the controller is the list of the messages it sends, one      *)
(* after the other, each followed by wait_msg_processed: at once TRUE      *)
(* unless _check_ack, else up to Trials readings of the acknowledgements.  *)
(* The link is what SOEMLink shows it to be (FrameLink): a bounded queue   *)
(* of frames, an image the queue is copied into frame by frame, each after *)
(* an exchange, and exchanges that repeat the image until it is replaced.  *)
(* An exchange can be lost for some devices, for all of them when the link *)
(* skips an image; its answers can be lost for some; and with Torn it can  *)
(* carry the body of another frame for a device: of the frame before in    *)
(* the first exchange of an image, of the next frame in a later one.       *)
(***************************************************************************)
EXTENDS CpuFirmware, Sequences

CONSTANTS
  Devices,
  SEND_BUF_SIZE,  \* frames the link queues
  ID_LIMIT,       \* the id that is never used; 0xff in the code
  Trials,         \* max_trial of wait_msg_processed
  Calls,          \* the calls the user makes
  MaxMessages,    \* bound on the messages of all calls
  MaxRestarts,    \* bound on the crashes of the client
  Lossy,          \* may an exchange be lost for some device?
  Torn,           \* may an exchange carry the body of a frame beside?
  CanLose         \* may the link be lost?

(* The messages of each call.                                              *)
Scripts == [
  send               |-> <<"WRITE_DUTY", "WRITE_PHASE">>,
  send_null          |-> <<"WRITE_DUTY", "WRITE_PHASE">>,
  set_frequency      |-> <<"ULTRASOUND_CYCLE_CNT">>,
  clear              |-> <<"CLEAR">>,
  firmware_info_list |-> <<"READ_CPU_VER_LSB", "READ_CPU_VER_MSB",
                           "READ_FPGA_VER_LSB", "READ_FPGA_VER_MSB">>,
  close              |-> <<"WRITE_DUTY", "WRITE_PHASE", "CLEAR">>]

ASSUME ControllerAssumption ==
  /\ SEND_BUF_SIZE \in Nat \ {0} /\ ID_LIMIT \in Nat \ {0, 1} /\ Trials \in Nat \ {0}
  /\ MaxMessages \in Nat /\ MaxRestarts \in Nat
  /\ Lossy \in BOOLEAN /\ Torn \in BOOLEAN /\ CanLose \in BOOLEAN
  /\ Calls \subseteq DOMAIN Scripts

VARIABLES
  pc,         \* where the user's thread is
  call,       \* the call it is in
  todo,       \* the messages of the call not sent yet
  checkAck,   \* _check_ack
  saved,      \* the local check_ack of firmware_info_list
  id,         \* the static counter of get_id
  issued,     \* number of messages packed so far
  trial,      \* readings made for the message
  gain,       \* number of gains built so far
  tx,         \* body part of _tx_buf
  rx,         \* _rx_buf
  failed,     \* has a call returned false or thrown?
  link,       \* "open", "closed" or "lost"
  ring,       \* frames queued in the link
  image,      \* frame in the process image
  before,     \* body of the frame it replaced
  sent,       \* has the image been exchanged?
  inputs,     \* acknowledgements in the process image
  dev,        \* state of each device's firmware
  restarts    \* number of crashes of the client

user == <<pc, call, todo, checkAck, saved, trial, gain, rx, failed>>
logic == <<id, issued, tx>>
bus == <<link, image, before, sent, inputs>>
vars == <<user, logic, ring, bus, dev, restarts>>

Frame(i, c, b, n) == [id |-> i, cmd |-> c, body |-> b, no |-> n]
ZeroFrame == Frame(0, "OP", Zeroed, 0)
NoAnswer == [ack |-> NoAck, done |-> 0]
NoAnswers == [d \in Devices |-> NoAnswer]

(* Mutants: the id is not moved on; the counter does not leave anything out. *)
BugSameId == id
BugPlainCount == (id + 1) % (ID_LIMIT + 1)

(* get_id: the counter goes round and leaves out ID_LIMIT and, with it, 0. *)
GetId == IF (id + 1) % (ID_LIMIT + 1) = ID_LIMIT THEN 1 ELSE (id + 1) % (ID_LIMIT + 1)

(* A mutant: one device is enough.                                         *)
BugSomeProcessed == \E d \in Devices : rx[d].ack.id = id

(* is_msg_processed for the message sent last.                             *)
Processed == \A d \in Devices : rx[d].ack.id = id

(* A mutant: the body of the duties is sent as the phases.                 *)
BugBody(cmd) == IF cmd = "WRITE_DUTY" THEN [kind |-> "duty", gain |-> gain] ELSE tx

(* The body of the next message: a null gain leaves what was there before. *)
Body(cmd) ==
  CASE cmd = "WRITE_DUTY" /\ call # "send_null"  -> [kind |-> "duty", gain |-> gain]
    [] cmd = "WRITE_PHASE" /\ call # "send_null" -> [kind |-> "phase", gain |-> gain]
    [] cmd = "ULTRASOUND_CYCLE_CNT"              -> [kind |-> "cycle", gain |-> 0]
    [] OTHER                                     -> tx

Answers == [d \in Devices |-> [ack |-> dev[d].ack, done |-> dev[d].done]]

Init ==
  /\ pc = "idle" /\ call = "none" /\ todo = <<>> /\ checkAck = FALSE /\ saved = FALSE
  /\ id = 0 /\ issued = 0 /\ trial = 0 /\ gain = 0 /\ failed = FALSE
  /\ tx = Zeroed /\ rx = NoAnswers
  /\ link = "closed" /\ ring = <<>> /\ image = ZeroFrame /\ before = Zeroed /\ sent = TRUE
  /\ inputs = NoAnswers /\ dev = [d \in Devices |-> PowerOn] /\ restarts = 0
-----------------------------------------------------------------------------
(* The user's thread.                                                      *)

(* open(): new buffers, a new link with a zeroed image, whose inputs may   *)
(* have been read in SAFE_OP already.                                      *)
Open ==
  /\ pc = "idle" /\ link = "closed" /\ link' = "open"
  /\ tx' = Zeroed /\ rx' = NoAnswers
  /\ image' = ZeroFrame /\ before' = Zeroed /\ sent' = TRUE
  /\ inputs' \in {NoAnswers, Answers}
  /\ UNCHANGED <<pc, call, todo, checkAck, saved, trial, gain, failed, id, issued, ring, dev, restarts>>

(* A call begins; close() does nothing unless the link is open.            *)
Begin(c) ==
  /\ pc = "idle" /\ pc' = "send" /\ call' = c /\ todo' = Scripts[c]
  /\ link = "open" \/ (link = "lost" /\ c # "close")
  /\ issued + Len(Scripts[c]) <= MaxMessages
  /\ IF c = "firmware_info_list" THEN saved' = checkAck /\ checkAck' = TRUE
                                 ELSE UNCHANGED <<saved, checkAck>>
  /\ gain' = IF c \in {"send", "close"} THEN gain + 1 ELSE gain
  /\ UNCHANGED <<trial, rx, failed, logic, ring, bus, dev, restarts>>

(* A call ends early, by a return or an exception.                         *)
Fails ==
  /\ pc' = "idle" /\ call' = "none" /\ todo' = <<>> /\ failed' = TRUE
  /\ UNCHANGED <<checkAck, saved, gain>>

(* wait_msg_processed returned true: the next message, if there is one.    *)
Continues(rest) ==
  IF rest # <<>>
  THEN pc' = "send" /\ UNCHANGED <<call, checkAck, saved, gain, failed>>
  ELSE /\ pc' = IF call = "close" THEN "closing" ELSE "idle"
       /\ call' = "none"
       /\ checkAck' = IF call = "firmware_info_list" THEN saved ELSE checkAck
       /\ UNCHANGED <<saved, gain, failed>>

Pack == id' = GetId /\ issued' = issued + 1 /\ tx' = Body(Head(todo))

(* send() asks once whether the link is open and then waits for room, in   *)
(* vain when the link is lost meanwhile and the queue stays full; if there *)
(* is room, the frame is stored, for a lost link too.                      *)
AwaitRoom ==
  /\ pc = "send" /\ link = "open" /\ Len(ring) = SEND_BUF_SIZE /\ pc' = "room"
  /\ UNCHANGED <<call, todo, checkAck, saved, trial, gain, rx, failed, logic, ring, bus, dev, restarts>>

SendMessage ==
  /\ (pc = "send" /\ link = "open") \/ pc = "room"
  /\ Len(ring) < SEND_BUF_SIZE
  /\ Pack /\ ring' = Append(ring, Frame(id', Head(todo), tx', issued'))
  /\ todo' = Tail(todo) /\ trial' = 0
  /\ IF checkAck THEN pc' = "wait" /\ UNCHANGED <<call, checkAck, saved, gain, failed>>
                 ELSE Continues(Tail(todo))
  /\ UNCHANGED <<rx, bus, dev, restarts>>

SendThrows ==
  /\ pc = "send" /\ link = "lost" /\ Pack /\ Fails
  /\ UNCHANGED <<trial, rx, ring, bus, dev, restarts>>

Read ==
  /\ pc = "wait" /\ link = "open" /\ pc' = "judge" /\ rx' = inputs
  /\ UNCHANGED <<call, todo, checkAck, saved, trial, gain, failed, logic, ring, bus, dev, restarts>>

ReadThrows ==
  /\ pc = "wait" /\ link = "lost" /\ Fails
  /\ UNCHANGED <<trial, rx, logic, ring, bus, dev, restarts>>

IsProcessed ==
  /\ pc = "judge" /\ Processed /\ Continues(todo)
  /\ UNCHANGED <<todo, trial, rx, logic, ring, bus, dev, restarts>>

NotProcessed ==
  /\ pc = "judge" /\ ~Processed /\ trial' = trial + 1
  /\ IF trial + 1 < Trials
     THEN pc' = "wait" /\ UNCHANGED <<call, todo, checkAck, saved, gain, failed>>
     ELSE Fails
  /\ UNCHANGED <<rx, logic, ring, bus, dev, restarts>>

(* close() ends when the queue is empty, whether the image was sent or not. *)
CloseLink ==
  /\ pc = "closing" /\ link = "open" /\ ring = <<>>
  /\ pc' = "idle" /\ link' = "closed"
  /\ UNCHANGED <<call, todo, checkAck, saved, trial, gain, rx, failed, logic, ring, image, before, sent, inputs, dev, restarts>>

(* The client's process ends at any point and is started again.            *)
Crash ==
  /\ restarts < MaxRestarts /\ restarts' = restarts + 1
  /\ pc' = "idle" /\ call' = "none" /\ todo' = <<>> /\ checkAck' = FALSE /\ saved' = FALSE
  /\ id' = 0 /\ trial' = 0 /\ failed' = TRUE /\ rx' = NoAnswers /\ tx' = Zeroed
  /\ link' = "closed" /\ ring' = <<>>
  /\ UNCHANGED <<gain, issued, image, before, sent, inputs, dev>>
-----------------------------------------------------------------------------
(* The link and the devices.                                               *)

(* A mutant: the image is replaced before it was exchanged.                *)
BugCopy ==
  /\ link = "open" /\ ring # <<>>
  /\ image' = Head(ring) /\ before' = image.body /\ ring' = Tail(ring) /\ sent' = FALSE
  /\ UNCHANGED <<user, logic, link, inputs, dev, restarts>>

Copy ==
  /\ link = "open" /\ ring # <<>> /\ sent
  /\ image' = Head(ring) /\ before' = image.body /\ ring' = Tail(ring) /\ sent' = FALSE
  /\ UNCHANGED <<user, logic, link, inputs, dev, restarts>>

(* The body that can be in the image beside the header of its frame: until *)
(* the first exchange that of the frame before, then that of the next,     *)
(* whose copy the send thread may have begun.                              *)
MayTear == sent => ring # <<>>
BodyBeside == IF sent THEN Head(ring).body ELSE before

(* What device d gets to see when the devices in torn get a torn frame.    *)
Arrives(d, torn) == IF d \in torn THEN [image EXCEPT !.body = BodyBeside] ELSE image

(* A mutant: the send thread is not told of the exchange.                  *)
BugUntold ==
  /\ link = "open"
  /\ dev' = [d \in Devices |-> recv_ethercat(dev[d], image)] /\ inputs' = Answers
  /\ UNCHANGED <<user, logic, ring, link, image, before, sent, restarts>>

(* An exchange reaches the devices in D and brings the answers of those in *)
(* I, as they were before this frame.                                      *)
Exchange ==
  /\ link = "open" /\ sent' = TRUE
  /\ \E D, I, torn \in SUBSET Devices :
       /\ Lossy \/ (D = Devices /\ I = Devices)
       /\ \A c, d \in torn : c = d /\ Torn /\ MayTear
       /\ dev' = [d \in Devices |-> IF d \in D THEN recv_ethercat(dev[d], Arrives(d, torn)) ELSE dev[d]]
       /\ inputs' = [d \in Devices |-> IF d \in I THEN Answers[d] ELSE inputs[d]]
  /\ UNCHANGED <<user, logic, ring, link, image, before, restarts>>

(* error_handle gives the link up.                                         *)
Lose ==
  /\ CanLose /\ link = "open" /\ link' = "lost"
  /\ UNCHANGED <<user, logic, ring, image, before, sent, inputs, dev, restarts>>
-----------------------------------------------------------------------------
User == AwaitRoom \/ SendMessage \/ SendThrows \/ Read \/ ReadThrows \/ IsProcessed \/ NotProcessed \/ CloseLink

Next ==
  \/ Open \/ (\E c \in Calls : Begin(c)) \/ User \/ Crash
  \/ Copy \/ Exchange \/ Lose

Spec == Init /\ [][Next]_vars

(* The user's calls go on, the send thread and the timer run.              *)
FairSpec == Spec /\ WF_vars(User) /\ WF_vars(Copy) /\ WF_vars(Exchange)
-----------------------------------------------------------------------------
(* The values of the variables.  A crash can waste a gain.                 *)
MessageNos == 0 .. MaxMessages
Ids == 0 .. ID_LIMIT - 1
Gains == 0 .. MaxMessages + MaxRestarts
Bodies == [kind : {"zero", "duty", "phase", "cycle"}, gain : Gains]
Frames == [id : Ids, cmd : Commands, body : Bodies, no : MessageNos]
Acks == [id : Ids, of : MessageNos]
AckWords == [Devices -> [ack : Acks, done : MessageNos]]
Contents == [Memories -> Bodies]
DeviceStates == [headerId : Ids, ack : Acks, fpga : Contents, done : MessageNos, runs : Nat]

(* Type invariant.                                                         *)
TypeOK ==
  /\ pc \in {"idle", "send", "room", "wait", "judge", "closing"}
  /\ call \in DOMAIN Scripts \cup {"none"} /\ todo \in Seq(Commands)
  /\ checkAck \in BOOLEAN /\ saved \in BOOLEAN /\ failed \in BOOLEAN
  /\ id \in Ids /\ issued \in MessageNos /\ trial \in 0 .. Trials /\ gain \in Gains
  /\ tx \in Bodies /\ rx \in AckWords
  /\ ring \in Seq(Frames) /\ Len(ring) <= SEND_BUF_SIZE
  /\ link \in {"open", "closed", "lost"} /\ sent \in BOOLEAN
  /\ image \in Frames /\ before \in Bodies /\ inputs \in AckWords
  /\ dev \in [Devices -> DeviceStates] /\ restarts \in 0 .. MaxRestarts

(* When is_msg_processed says so, every device has executed the very       *)
(* message that was waited for, and the data beside the id are its own.    *)
NoFalseAck == pc = "judge" /\ Processed => \A d \in Devices : rx[d].ack.of = issued

(* The other way round: what all devices have executed, according to the   *)
(* answers read, is reported as processed, unless it was a CLEAR.          *)
AllDone == pc = "judge" /\ \A d \in Devices : rx[d].done = issued
Clearing == call = "clear" \/ (call = "close" /\ todo = <<>>)
OnlyClearMissed == AllDone /\ ~Clearing => Processed

(* A CLEAR is not: its case in recv_ethercat sets no acknowledgement.      *)
NoMissedAck == AllDone => Processed

(* However often a frame is repeated, lost or torn, and whoever crashes,   *)
(* devices execute messages that were issued, each once at most, in the    *)
(* order of the calls.                                                     *)
Messages == INSTANCE Transfer
              WITH done <- [d \in Devices |-> dev[d].done],
                   runs <- [d \in Devices |-> dev[d].runs]
IsTransfer == Messages!Spec

(* What an exchange has carried to the devices, they have executed; no     *)
(* message is mistaken for a repetition of the one before.                 *)
SentIsExecuted == link = "open" /\ sent => \A d \in Devices : dev[d].done >= image.no

(* What is written to the duties, phases and cycle of a device was packed  *)
(* as such.                                                                *)
KindsKept == \A d \in Devices, k \in Memories : dev[d].fpga[k].kind \in {k, "zero"}

(* When no call is under way, the link has nothing left to send and no     *)
(* call has failed, duties and phases of a device belong to one gain: the  *)
(* last one, unless the device was cleared.                                *)
Quiet == pc = "idle" /\ link = "open" /\ ring = <<>> /\ sent
WholeGains ==
  Quiet /\ ~failed => \A d \in Devices : \E g \in {0, gain} :
    dev[d].fpga.duty.gain = g /\ dev[d].fpga.phase.gain = g

(* Every message in the link gets to every device, unless the link goes or *)
(* is closed.                                                              *)
InLink(n) == image.no = n \/ \E k \in 1 .. Len(ring) : ring[k].no = n
MessagesArrive ==
  \A n \in 1 .. MaxMessages :
    InLink(n) ~> (link # "open" \/ \A d \in Devices : dev[d].done >= n)

(* Every call returns.                                                     *)
CallsReturn == pc # "idle" ~> pc = "idle"
=============================================================================
