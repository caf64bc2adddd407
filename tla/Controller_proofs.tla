------------------------- MODULE Controller_proofs -------------------------
(***************************************************************************)
(* Proofs about Controller, for any number of devices, any size of the     *)
(* link's queue and any set of calls.                                      *)
(***************************************************************************)
EXTENDS Controller, TLAPS

-----------------------------------------------------------------------------
(* Types.                                                                  *)

(* How many messages and gains there still can be depends on where the     *)
(* user is: a call has room for the messages it has left to send, and a    *)
(* gain is counted one message before its first is sent.                   *)
Bounded ==
  /\ issued + Len(todo) <= MaxMessages
  /\ pc \in {"send", "room"} => todo # <<>> /\ gain <= issued + restarts + 1
  /\ pc \notin {"send", "room"} => gain <= issued + restarts
  /\ pc \in {"wait", "judge"} => trial < Trials

Typed == TypeOK /\ Bounded

LEMMA FourInSeq ==
  ASSUME NEW S, NEW a \in S, NEW b \in S, NEW c \in S, NEW d \in S
  PROVE  <<a, b, c, d>> \in Seq(S) /\ <<a, b, c, d>> # <<>>
OBVIOUS

LEMMA ScriptsTyped ==
  ASSUME NEW c \in DOMAIN Scripts
  PROVE  Scripts[c] \in Seq(Commands) /\ Scripts[c] # <<>>
<1> DEFINE Sent == {"WRITE_DUTY", "WRITE_PHASE", "CLEAR", "ULTRASOUND_CYCLE_CNT",
    "READ_CPU_VER_LSB", "READ_CPU_VER_MSB", "READ_FPGA_VER_LSB", "READ_FPGA_VER_MSB"}
<1>1. Sent \subseteq Commands
  BY DEF Commands, Writes, Reads
<1>2. c \in {"send", "send_null", "set_frequency", "clear", "firmware_info_list", "close"}
  BY DEF Scripts
<1>3. CASE c \in {"send", "send_null"}
  <2>1. Scripts[c] = <<"WRITE_DUTY", "WRITE_PHASE">>
    BY <1>3 DEF Scripts
  <2> QED
    BY <1>1, <2>1
<1>4. CASE c \in {"set_frequency", "clear"}
  <2>1. Scripts[c] = <<"ULTRASOUND_CYCLE_CNT">> \/ Scripts[c] = <<"CLEAR">>
    BY <1>4 DEF Scripts
  <2>2. CASE Scripts[c] = <<"CLEAR">>
    BY <1>1, <2>2
  <2>3. CASE Scripts[c] = <<"ULTRASOUND_CYCLE_CNT">>
    BY <1>1, <2>3
  <2> QED
    BY <2>1, <2>2, <2>3
<1>5. CASE c = "firmware_info_list"
  <2>1. Scripts[c] = <<"READ_CPU_VER_LSB", "READ_CPU_VER_MSB", "READ_FPGA_VER_LSB", "READ_FPGA_VER_MSB">>
    BY <1>5 DEF Scripts
  <2> QED
    BY <1>1, <2>1, FourInSeq
<1>6. CASE c = "close"
  <2>1. Scripts[c] = <<"WRITE_DUTY", "WRITE_PHASE", "CLEAR">>
    BY <1>6 DEF Scripts
  <2> QED
    BY <1>1, <2>1
<1> QED
  BY <1>2, <1>3, <1>4, <1>5, <1>6

(* The id stays below the one that is left out, and grows by one unless it *)
(* wraps.                                                                  *)
LEMMA GetIdNext ==
  ASSUME id \in Ids
  PROVE  GetId \in Ids /\ (id + 1 < ID_LIMIT => GetId = id + 1)
<1>1. id + 1 \in 0 .. ID_LIMIT /\ ID_LIMIT \in Nat
  BY ControllerAssumption DEF Ids
<1>2. (id + 1) % (ID_LIMIT + 1) = id + 1
  BY <1>1
<1> QED
  BY <1>1, <1>2, ControllerAssumption DEF GetId, Ids

LEMMA BodyTyped ==
  ASSUME Typed, NEW cmd
  PROVE  Body(cmd) \in Bodies
<1>1. gain \in Gains /\ 0 \in Gains /\ tx \in Bodies
  BY ControllerAssumption DEF Typed, TypeOK, Gains
<1> QED
  BY <1>1 DEF Body, Bodies

LEMMA FrameTyped ==
  ASSUME NEW i \in Ids, NEW c \in Commands, NEW b \in Bodies, NEW n \in MessageNos
  PROVE  Frame(i, c, b, n) \in Frames
BY DEF Frame, Frames

LEMMA ZeroesTyped ==
  /\ ZeroFrame \in Frames /\ Zeroed \in Bodies /\ NoAnswers \in AckWords /\ PowerOn \in DeviceStates
<1>1. 0 \in Ids /\ 0 \in MessageNos /\ 0 \in Gains
  BY ControllerAssumption DEF Ids, MessageNos, Gains
<1>2. Zeroed \in Bodies
  BY <1>1 DEF Zeroed, Bodies
<1>3. ZeroFrame \in Frames
  BY <1>1, <1>2 DEF ZeroFrame, Frame, Frames, Commands
<1>4. NoAck \in Acks
  BY <1>1 DEF NoAck, Acks
<1>5. NoAnswers \in AckWords
  BY <1>1, <1>4 DEF NoAnswers, NoAnswer, AckWords
<1>6. Cleared \in Contents
  BY <1>2 DEF Cleared, Contents
<1>7. PowerOn \in DeviceStates
  BY <1>1, <1>4, <1>6 DEF PowerOn, DeviceStates
<1> QED
  BY <1>2, <1>3, <1>5, <1>7

(* What the firmware makes of a frame is a state of a device.              *)
LEMMA FirmwareTyped ==
  ASSUME NEW s \in DeviceStates, NEW f \in Frames
  PROVE  recv_ethercat(s, f) \in DeviceStates
<1>1. s.fpga \in Contents /\ f.body \in Bodies /\ Cleared \in Contents
  BY ZeroesTyped DEF Cleared, Contents, DeviceStates, Frames
<1>2. Executed(s.fpga, f) \in Contents
  BY <1>1 DEF Executed, Contents, Memories
<1>3. [id |-> f.id, of |-> f.no] \in Acks
  BY DEF Frames, Acks
<1>4. Execute(s, f) \in DeviceStates
  BY <1>2, <1>3 DEF Execute, DeviceStates, Frames
<1> QED
  BY <1>4 DEF recv_ethercat

(* Torn or not, what arrives has the header of the image.                  *)
LEMMA ArrivesTyped ==
  ASSUME image \in Frames, before \in Bodies, ring \in Seq(Frames),
         NEW torn, \A a, b \in torn : a = b /\ Torn /\ MayTear, NEW d
  PROVE  /\ Arrives(d, torn) \in Frames
         /\ Arrives(d, torn).id = image.id /\ Arrives(d, torn).cmd = image.cmd
         /\ Arrives(d, torn).no = image.no
<1>1. CASE d \in torn
  <2>1. sent => Head(ring) \in Frames
    BY <1>1 DEF MayTear
  <2>2. BodyBeside \in Bodies
    BY <2>1 DEF BodyBeside, Frames
  <2> QED
    BY <1>1, <2>2 DEF Arrives, Frames
<1>2. CASE d \notin torn
  BY <1>2 DEF Arrives
<1> QED
  BY <1>1, <1>2

LEMMA AnswersTyped ==
  ASSUME Typed
  PROVE  Answers \in AckWords
BY DEF Typed, TypeOK, Answers, AckWords, DeviceStates

LEMMA ContinuesTyped ==
  ASSUME Typed, NEW rest, Continues(rest), pc \in {"send", "room", "judge"}
  PROVE  /\ pc' \in {"idle", "send", "closing"} /\ (pc' = "send" => rest # <<>>)
         /\ call' \in DOMAIN Scripts \cup {"none"} /\ checkAck' \in BOOLEAN
         /\ UNCHANGED <<saved, gain, failed>>
BY DEF Continues, Typed, TypeOK

LEMMA PackTyped ==
  ASSUME Typed, pc \in {"send", "room"}, Pack
  PROVE  /\ id' \in Ids /\ issued' \in MessageNos /\ issued' = issued + 1 /\ tx' \in Bodies
         /\ Head(todo) \in Commands /\ Tail(todo) \in Seq(Commands)
         /\ Len(Tail(todo)) = Len(todo) - 1 /\ Len(todo) \in Nat /\ Len(todo) > 0
<1>1. todo \in Seq(Commands) /\ todo # <<>>
  BY DEF Typed, TypeOK, Bounded
<1>2. /\ Head(todo) \in Commands /\ Tail(todo) \in Seq(Commands)
      /\ Len(Tail(todo)) = Len(todo) - 1 /\ Len(todo) \in Nat /\ Len(todo) > 0
  BY <1>1
<1>3. id' \in Ids /\ tx' \in Bodies /\ issued' = issued + 1
  BY GetIdNext, BodyTyped DEF Pack, Typed, TypeOK
<1>4. issued' \in MessageNos
  BY <1>2, <1>3, ControllerAssumption DEF Typed, TypeOK, Bounded, MessageNos
<1> QED
  BY <1>2, <1>3, <1>4

(* The types of what only the link and the devices write.                  *)
BusTyped ==
  /\ ring \in Seq(Frames) /\ Len(ring) <= SEND_BUF_SIZE
  /\ link \in {"open", "closed", "lost"} /\ sent \in BOOLEAN
  /\ image \in Frames /\ before \in Bodies /\ inputs \in AckWords
  /\ dev \in [Devices -> DeviceStates]

LEMMA BusTypedNext ==
  ASSUME Typed, [Next]_vars
  PROVE  BusTyped'
<1>0. BusTyped
  BY DEF Typed, TypeOK, BusTyped
<1> USE DEF BusTyped
<1>1. CASE Open
  BY <1>0, <1>1, ZeroesTyped, AnswersTyped DEF Open
<1>2. CASE SendMessage
  <2>1. Frame(id', Head(todo), tx', issued') \in Frames
    BY <1>2, PackTyped, FrameTyped DEF SendMessage
  <2>2. ring' \in Seq(Frames) /\ Len(ring') = Len(ring) + 1 /\ Len(ring) < SEND_BUF_SIZE /\ Len(ring) \in Nat
    BY <1>0, <1>2, <2>1 DEF SendMessage
  <2> QED
    BY <1>0, <1>2, <2>2, ControllerAssumption DEF SendMessage, bus
<1>3. CASE Copy
  <2>1. Head(ring) \in Frames /\ Tail(ring) \in Seq(Frames) /\ Len(Tail(ring)) = Len(ring) - 1 /\ Len(ring) \in Nat
    BY <1>0, <1>3 DEF Copy
  <2>2. Len(ring') <= SEND_BUF_SIZE
    BY <1>0, <1>3, <2>1, ControllerAssumption DEF Copy
  <2>3. image.body \in Bodies
    BY <1>0 DEF Frames
  <2> QED
    BY <1>0, <1>3, <2>1, <2>2, <2>3 DEF Copy
<1>4. CASE Exchange
  <2>1. PICK D, I, torn \in SUBSET Devices :
          /\ Lossy \/ (D = Devices /\ I = Devices)
          /\ \A a, b \in torn : a = b /\ Torn /\ MayTear
          /\ dev' = [e \in Devices |-> IF e \in D THEN recv_ethercat(dev[e], Arrives(e, torn)) ELSE dev[e]]
          /\ inputs' = [e \in Devices |-> IF e \in I THEN Answers[e] ELSE inputs[e]]
    BY <1>4 DEF Exchange
  <2>2. \A d \in Devices : Arrives(d, torn) \in Frames
    BY <1>0, <2>1, ArrivesTyped
  <2>3. dev' \in [Devices -> DeviceStates]
    BY <1>0, <2>1, <2>2, FirmwareTyped
  <2>4. inputs' \in AckWords
    BY <1>0, <2>1, AnswersTyped DEF AckWords
  <2> QED
    BY <1>0, <1>4, <2>3, <2>4 DEF Exchange
<1>5. CASE Lose \/ Crash \/ CloseLink
  <2>1. <<>> \in Seq(Frames) /\ Len(<<>>) <= SEND_BUF_SIZE
    BY ControllerAssumption
  <2> QED
    BY <1>0, <1>5, <2>1 DEF Lose, Crash, CloseLink
<1>6. CASE SendThrows \/ Read \/ ReadThrows \/ IsProcessed \/ NotProcessed \/ AwaitRoom \/ (\E c \in Calls : Begin(c))
  BY <1>0, <1>6 DEF SendThrows, Read, ReadThrows, IsProcessed, NotProcessed, AwaitRoom, Begin, bus
<1>7. CASE UNCHANGED vars
  BY <1>0, <1>7 DEF vars, bus
<1> QED
  BY <1>1, <1>2, <1>3, <1>4, <1>5, <1>6, <1>7 DEF Next, User

(* The types of what the user's thread writes.                             *)
UserTyped ==
  /\ pc \in {"idle", "send", "room", "wait", "judge", "closing"}
  /\ call \in DOMAIN Scripts \cup {"none"} /\ todo \in Seq(Commands)
  /\ checkAck \in BOOLEAN /\ saved \in BOOLEAN /\ failed \in BOOLEAN
  /\ id \in Ids /\ issued \in MessageNos /\ trial \in 0 .. Trials /\ gain \in Nat
  /\ tx \in Bodies /\ rx \in AckWords /\ restarts \in 0 .. MaxRestarts
  /\ Bounded

LEMMA UserTypedNext ==
  ASSUME Typed, [Next]_vars
  PROVE  UserTyped'
<1>0. UserTyped
  BY DEF Typed, TypeOK, UserTyped, Gains
<1>a. Len(<<>>) = 0 /\ <<>> \in Seq(Commands) /\ Len(todo) \in Nat
  BY <1>0 DEF UserTyped
<1>b. issued \in Nat /\ restarts \in Nat /\ issued <= MaxMessages
  BY <1>0, ControllerAssumption DEF UserTyped, MessageNos
<1> USE DEF UserTyped, Bounded
<1>1. CASE Open
  BY <1>0, <1>1, ZeroesTyped DEF Open
<1>2. ASSUME NEW c \in Calls, Begin(c) PROVE UserTyped'
  <2>1. Scripts[c] \in Seq(Commands) /\ Scripts[c] # <<>> /\ c \in DOMAIN Scripts
    BY ScriptsTyped, ControllerAssumption
  <2>2. gain' \in Nat /\ gain' <= gain + 1
    BY <1>0, <1>2 DEF Begin
  <2>3. gain <= issued + restarts /\ pc = "idle"
    BY <1>0, <1>2 DEF Begin
  <2>4. /\ pc' = "send" /\ call' = c /\ todo' = Scripts[c]
        /\ checkAck' \in BOOLEAN /\ saved' \in BOOLEAN
        /\ issued + Len(Scripts[c]) <= MaxMessages
        /\ UNCHANGED <<trial, rx, failed, id, issued, tx, restarts>>
    BY <1>0, <1>2 DEF Begin, logic
  <2>5. Bounded'
    BY <1>b, <2>1, <2>2, <2>3, <2>4, <1>0
  <2> QED
    BY <1>0, <2>1, <2>2, <2>4, <2>5
<1>3. CASE SendMessage
  <2>1. pc \in {"send", "room"} /\ Pack /\ todo' = Tail(todo) /\ trial' = 0 /\ UNCHANGED <<rx, restarts>>
    BY <1>3 DEF SendMessage
  <2>2. /\ pc' \in {"idle", "send", "wait", "closing"} /\ (pc' = "send" => Tail(todo) # <<>>)
        /\ call' \in DOMAIN Scripts \cup {"none"} /\ checkAck' \in BOOLEAN
        /\ UNCHANGED <<saved, gain, failed>>
    BY <1>0, <1>3, <2>1, ContinuesTyped DEF SendMessage
  <2>3. gain <= issued + restarts + 1
    BY <1>0, <2>1
  <2> QED
    BY <1>0, <1>b, <2>1, <2>2, <2>3, PackTyped, ControllerAssumption
<1>4. CASE SendThrows
  BY <1>0, <1>a, <1>b, <1>4, PackTyped, ControllerAssumption DEF SendThrows, Fails
<1>5. CASE ReadThrows
  BY <1>0, <1>a, <1>b, <1>5, ControllerAssumption DEF ReadThrows, Fails, logic
<1>6. CASE Read
  BY <1>0, <1>6 DEF Read, logic, Typed, TypeOK
<1>7. CASE IsProcessed
  <2>1. /\ pc' \in {"idle", "send", "closing"} /\ (pc' = "send" => todo # <<>>)
        /\ call' \in DOMAIN Scripts \cup {"none"} /\ checkAck' \in BOOLEAN
        /\ UNCHANGED <<saved, gain, failed>>
    BY <1>7, ContinuesTyped DEF IsProcessed
  <2>2. pc = "judge" /\ UNCHANGED <<todo, trial, rx, id, issued, tx, restarts>>
    BY <1>7 DEF IsProcessed, logic
  <2> QED
    BY <1>0, <1>b, <2>1, <2>2
<1>8. CASE NotProcessed
  <2>1. /\ pc = "judge" /\ trial' = trial + 1 /\ trial < Trials
        /\ UNCHANGED <<rx, id, issued, tx, restarts, checkAck, saved, gain>>
    BY <1>0, <1>8 DEF NotProcessed, Fails, logic
  <2>2. trial' \in 0 .. Trials
    BY <1>0, <2>1, ControllerAssumption
  <2>3. CASE pc' = "wait" /\ trial + 1 < Trials /\ UNCHANGED <<call, todo, failed>>
    BY <1>0, <1>b, <2>1, <2>2, <2>3
  <2>4. CASE pc' = "idle" /\ call' = "none" /\ todo' = <<>> /\ failed' = TRUE
    BY <1>0, <1>a, <1>b, <2>1, <2>2, <2>4
  <2> QED
    BY <1>8, <2>3, <2>4 DEF NotProcessed, Fails
<1>9. CASE CloseLink
  BY <1>0, <1>9 DEF CloseLink, logic
<1>10. CASE Crash
  <2>1. 0 \in Ids /\ 0 \in 0 .. Trials
    BY ControllerAssumption DEF Ids
  <2>2. /\ pc' = "idle" /\ call' = "none" /\ todo' = <<>> /\ checkAck' = FALSE /\ saved' = FALSE
        /\ id' = 0 /\ trial' = 0 /\ failed' = TRUE /\ rx' = NoAnswers /\ tx' = Zeroed
        /\ restarts' = restarts + 1 /\ restarts < MaxRestarts /\ UNCHANGED <<gain, issued>>
    BY <1>10 DEF Crash
  <2>3. restarts' \in 0 .. MaxRestarts
    BY <1>0, <2>2, ControllerAssumption
  <2>4. gain <= issued + restarts + 1
    BY <1>0, <1>b
  <2>5. Bounded'
    BY <1>0, <1>a, <1>b, <2>2, <2>4
  <2> QED
    BY <1>0, <1>a, <2>1, <2>2, <2>3, <2>5, ZeroesTyped
<1>11. CASE Copy \/ Exchange \/ Lose \/ UNCHANGED vars
  BY <1>0, <1>11 DEF Copy, Exchange, Lose, vars, user, logic
<1>12. CASE AwaitRoom
  BY <1>0, <1>12 DEF AwaitRoom, logic
<1> QED
  BY <1>1, <1>2, <1>3, <1>4, <1>5, <1>6, <1>7, <1>8, <1>9, <1>10, <1>11, <1>12 DEF Next, User

LEMMA GainBound ==
  ASSUME NEW g \in Nat, NEW n \in Nat, NEW r \in 0 .. MaxRestarts, NEW l \in Nat,
         n + l <= MaxMessages, g <= n + r \/ (g <= n + r + 1 /\ l > 0)
  PROVE  g \in Gains
BY ControllerAssumption DEF Gains

LEMMA TypedNext == Typed /\ [Next]_vars => Typed'
<1> SUFFICES ASSUME Typed, [Next]_vars PROVE Typed'
  OBVIOUS
<1>1. BusTyped' /\ UserTyped'
  BY BusTypedNext, UserTypedNext
<1>2. gain' \in Gains
  <2>1. /\ Len(todo') \in Nat /\ issued' \in Nat /\ gain' \in Nat /\ restarts' \in 0 .. MaxRestarts
        /\ issued' + Len(todo') <= MaxMessages /\ (todo' # <<>> => Len(todo') > 0)
    BY <1>1, ControllerAssumption DEF UserTyped, Bounded, MessageNos
  <2>2. gain' <= issued' + restarts' \/ (gain' <= issued' + restarts' + 1 /\ todo' # <<>>)
    BY <1>1 DEF UserTyped, Bounded
  <2> HIDE <1>1
  <2> QED
    BY <2>1, <2>2, GainBound
<1> QED
  BY <1>1, <1>2 DEF BusTyped, UserTyped, Typed, TypeOK

LEMMA TypedInit == Init => Typed
<1> SUFFICES ASSUME Init PROVE Typed
  OBVIOUS
<1>1. 0 \in Ids /\ 0 \in MessageNos /\ 0 \in Gains /\ 0 \in 0 .. Trials /\ 0 \in 0 .. MaxRestarts
  BY ControllerAssumption DEF Ids, MessageNos, Gains
<1>2. dev \in [Devices -> DeviceStates]
  BY ZeroesTyped DEF Init
<1>3. ring \in Seq(Frames) /\ todo \in Seq(Commands) /\ Len(ring) <= SEND_BUF_SIZE /\ Len(todo) = 0
  BY ControllerAssumption DEF Init
<1>4. TypeOK
  BY <1>1, <1>2, <1>3, ZeroesTyped DEF Init, TypeOK
<1>5. Bounded
  BY <1>3, ControllerAssumption DEF Init, Bounded
<1> QED
  BY <1>4, <1>5 DEF Typed

(* Types, for any instance; a call never runs out of its messages.         *)
THEOREM TypeCorrect == Spec => []TypeOK
<1>1. Typed => TypeOK
  BY DEF Typed
<1> QED
  BY <1>1, TypedInit, TypedNext, PTL DEF Spec
-----------------------------------------------------------------------------
(* The frames on their way.                                                *)

(* What may become of the queue and the image in a step.                   *)
LEMMA RingSteps ==
  ASSUME Typed, [Next]_vars
  PROVE  \/ SendMessage \/ Copy \/ Exchange \/ Open
         \/ UNCHANGED <<image, dev>> /\ (ring' = ring \/ ring' = <<>>) /\ issued' >= issued
<1>0. issued \in Nat
  BY ControllerAssumption DEF Typed, TypeOK, MessageNos
<1>1. CASE SendThrows
  BY <1>0, <1>1 DEF SendThrows, Pack, bus
<1>2. CASE Read \/ ReadThrows \/ IsProcessed \/ NotProcessed \/ AwaitRoom \/ CloseLink \/ Lose \/ Crash \/ UNCHANGED vars
  BY <1>0, <1>2 DEF Read, ReadThrows, IsProcessed, NotProcessed, AwaitRoom, CloseLink, Lose, Crash, vars, bus, logic
<1>3. CASE \E c \in Calls : Begin(c)
  BY <1>0, <1>3 DEF Begin, bus, logic
<1> QED
  BY <1>1, <1>2, <1>3 DEF Next, User

(* The queue grows at its end and is emptied from its front.               *)
LEMMA AfterSend ==
  ASSUME Typed, SendMessage
  PROVE  /\ Len(ring) \in Nat /\ Len(ring') = Len(ring) + 1
         /\ \A k \in 1 .. Len(ring) : ring'[k] = ring[k] /\ ring'[k] \in Frames
         /\ ring'[Len(ring) + 1] = Frame(id', Head(todo), tx', issued')
         /\ issued' = issued + 1 /\ issued \in Nat /\ Head(todo) \in Commands
         /\ id' \in Ids /\ tx' \in Bodies /\ issued' \in MessageNos
<1>1. ring \in Seq(Frames) /\ issued \in Nat
  BY ControllerAssumption DEF Typed, TypeOK, MessageNos
<1>2. ring' = Append(ring, Frame(id', Head(todo), tx', issued')) /\ pc \in {"send", "room"} /\ Pack
  BY DEF SendMessage
<1> QED
  BY <1>1, <1>2, PackTyped

LEMMA AfterCopy ==
  ASSUME Typed, Copy
  PROVE  /\ Len(ring) \in Nat /\ Len(ring) > 0 /\ Len(ring') = Len(ring) - 1
         /\ image' = ring[1] /\ ring[1] \in Frames
         /\ \A k \in 1 .. Len(ring') : ring'[k] = ring[k + 1] /\ k + 1 \in 1 .. Len(ring)
         /\ UNCHANGED <<dev, issued, id, inputs, rx>>
<1>1. ring \in Seq(Frames) /\ ring # <<>>
  BY DEF Copy, Typed, TypeOK
<1> QED
  BY <1>1 DEF Copy, user, logic

LEMMA AfterExchange ==
  ASSUME Typed, Exchange, NEW d \in Devices
  PROVE  /\ dev'[d] = dev[d] \/ \E f \in Frames :
              /\ dev'[d] = recv_ethercat(dev[d], f)
              /\ f.id = image.id /\ f.cmd = image.cmd /\ f.no = image.no
              /\ f.body = image.body \/ Torn
         /\ inputs'[d] = inputs[d] \/ inputs'[d] = [ack |-> dev[d].ack, done |-> dev[d].done]
         /\ UNCHANGED <<ring, image, issued, id, rx>>
<1>1. PICK D, I, torn \in SUBSET Devices :
        /\ \A a, b \in torn : a = b /\ Torn /\ MayTear
        /\ dev' = [e \in Devices |-> IF e \in D THEN recv_ethercat(dev[e], Arrives(e, torn)) ELSE dev[e]]
        /\ inputs' = [e \in Devices |-> IF e \in I THEN Answers[e] ELSE inputs[e]]
  BY DEF Exchange
<1>2. image \in Frames /\ before \in Bodies /\ ring \in Seq(Frames)
  BY DEF Typed, TypeOK
<1>3. Arrives(d, torn) \in Frames /\ (Arrives(d, torn) # image => Torn)
  <2>1. Arrives(d, torn) \in Frames
    BY <1>1, <1>2, ArrivesTyped
  <2> QED BY <2>1, <1>1 DEF Arrives
<1>4. /\ Arrives(d, torn).id = image.id /\ Arrives(d, torn).cmd = image.cmd
      /\ Arrives(d, torn).no = image.no
  BY <1>1, <1>2, ArrivesTyped
<1>5. inputs'[d] = inputs[d] \/ inputs'[d] = [ack |-> dev[d].ack, done |-> dev[d].done]
  BY <1>1 DEF Answers
<1> QED
  BY <1>1, <1>3, <1>4, <1>5 DEF Exchange, user, logic
-----------------------------------------------------------------------------
(* Each message is executed once at most.                                  *)

(* The numbers grow from what the devices have executed over the image to  *)
(* the end of the queue; a device that executed the image knows its id.    *)
Ordered ==
  /\ image.no <= issued
  /\ \A k \in 1 .. Len(ring) : image.no < ring[k].no /\ ring[k].no <= issued
  /\ \A j, k \in 1 .. Len(ring) : j < k => ring[j].no < ring[k].no
  /\ \A d \in Devices : dev[d].done <= issued
  /\ \A d \in Devices, k \in 1 .. Len(ring) : dev[d].done < ring[k].no
  /\ \A d \in Devices : \/ image.no = 0
                        \/ dev[d].done < image.no
                        \/ dev[d].done = image.no /\ dev[d].headerId = image.id

LEMMA Numbers ==
  ASSUME Typed
  PROVE  /\ issued \in Nat /\ image.no \in Nat /\ Len(ring) \in Nat
         /\ \A k \in 1 .. Len(ring) : ring[k] \in Frames /\ ring[k].no \in Nat
         /\ \A d \in Devices : dev[d] \in DeviceStates /\ dev[d].done \in Nat /\ dev[d].runs \in Nat
<1>1. ring \in Seq(Frames) /\ image \in Frames /\ dev \in [Devices -> DeviceStates] /\ issued \in MessageNos
  BY DEF Typed, TypeOK
<1>2. MessageNos \subseteq Nat
  BY ControllerAssumption DEF MessageNos
<1>3. \A f \in Frames : f.no \in Nat
  BY <1>2 DEF Frames
<1>4. \A s \in DeviceStates : s.done \in Nat /\ s.runs \in Nat
  BY <1>2 DEF DeviceStates
<1>5. Len(ring) \in Nat /\ \A k \in 1 .. Len(ring) : ring[k] \in Frames
  BY <1>1
<1>6. \A d \in Devices : dev[d] \in DeviceStates
  BY <1>1
<1> QED
  BY <1>1, <1>2, <1>3, <1>4, <1>5, <1>6

LEMMA OrderedNext == Typed /\ Ordered /\ [Next]_vars => Ordered'
<1> SUFFICES ASSUME Typed, Ordered, [Next]_vars PROVE Ordered'
  OBVIOUS
<1>0. Typed'
  BY TypedNext
<1>1. CASE SendMessage
  <2>1. UNCHANGED <<image, dev>>
    BY <1>1 DEF SendMessage, bus
  <2>2. ring'[Len(ring) + 1].no = issued + 1
    BY <1>1, AfterSend DEF Frame
  <2> QED
    BY <1>1, <2>1, <2>2, AfterSend, Numbers DEF Ordered
<1>2. CASE Copy
  <2>1. /\ Len(ring) \in Nat /\ Len(ring) > 0 /\ Len(ring') = Len(ring) - 1 /\ image' = ring[1]
        /\ \A k \in 1 .. Len(ring') : ring'[k] = ring[k + 1] /\ k + 1 \in 1 .. Len(ring)
        /\ UNCHANGED <<dev, issued>>
    BY <1>2, AfterCopy
  <2>2. 1 \in 1 .. Len(ring) /\ image'.no <= issued
    BY <2>1 DEF Ordered
  <2>3. \A k \in 1 .. Len(ring') : 1 < k + 1 /\ k + 1 \in 1 .. Len(ring)
    BY <2>1
  <2>4. \A k \in 1 .. Len(ring') : image'.no < ring'[k].no /\ ring'[k].no <= issued
    BY <2>1, <2>2, <2>3 DEF Ordered
  <2>5. ASSUME NEW j \in 1 .. Len(ring'), NEW k \in 1 .. Len(ring'), j < k
        PROVE  ring'[j].no < ring'[k].no
    <3>1. j + 1 < k + 1 /\ j + 1 \in 1 .. Len(ring) /\ k + 1 \in 1 .. Len(ring)
      BY <2>1, <2>5
    <3> QED
      BY <2>1, <3>1 DEF Ordered
  <2>6. \A d \in Devices : dev'[d].done < image'.no
    BY <2>1, <2>2 DEF Ordered
  <2> QED
    BY <2>1, <2>2, <2>4, <2>5, <2>6 DEF Ordered
<1>3. CASE Exchange
  <2>1. UNCHANGED <<ring, image, issued>>
    BY <1>3 DEF Exchange, logic
  <2>2. ASSUME NEW d \in Devices
        PROVE  /\ dev'[d].done <= issued
               /\ \A k \in 1 .. Len(ring) : dev'[d].done < ring[k].no
               /\ \/ image.no = 0
                  \/ dev'[d].done < image.no
                  \/ dev'[d].done = image.no /\ dev'[d].headerId = image.id
    <3>1. CASE dev'[d] = dev[d]
      BY <3>1 DEF Ordered
    <3>2. CASE dev'[d] # dev[d]
      <4>1. PICK f \in Frames : dev'[d] = recv_ethercat(dev[d], f) /\ f.id = image.id /\ f.no = image.no
        BY <1>3, <3>2, AfterExchange
      <4>2. f.id # dev[d].headerId /\ dev'[d] = Execute(dev[d], f)
        BY <3>2, <4>1 DEF recv_ethercat
      <4>3. /\ dev'[d].done = (IF image.no = 0 THEN dev[d].done ELSE image.no)
            /\ dev'[d].headerId = image.id
        BY <4>1, <4>2 DEF Execute
      <4> QED
        BY <4>1, <4>2, <4>3, Numbers DEF Ordered
    <3> QED
      BY <3>1, <3>2
  <2> QED
    BY <2>1, <2>2 DEF Ordered
<1>4. CASE Open
  <2>1. image'.no = 0 /\ UNCHANGED <<ring, dev, issued>>
    BY <1>4 DEF Open, ZeroFrame, Frame
  <2> QED
    BY <2>1, Numbers DEF Ordered
<1>5. CASE UNCHANGED <<image, dev>> /\ (ring' = ring \/ ring' = <<>>) /\ issued' >= issued
  <2>1. issued' \in Nat /\ Len(<<>>) = 0
    BY <1>0, ControllerAssumption DEF Typed, TypeOK, MessageNos
  <2>2. CASE ring' = ring
    <3>1. \A n \in Nat : n <= issued => n <= issued'
      BY <1>5, <2>1, Numbers
    <3>2. image.no <= issued' /\ \A d \in Devices : dev[d].done <= issued'
      BY <3>1, Numbers DEF Ordered
    <3>3. \A k \in 1 .. Len(ring) : image.no < ring[k].no /\ ring[k].no <= issued'
      BY <3>1, Numbers DEF Ordered
    <3> QED
      BY <1>5, <2>2, <3>2, <3>3 DEF Ordered
  <2>3. CASE ring' = <<>>
    BY <1>5, <2>1, <2>3, Numbers DEF Ordered
  <2> QED
    BY <1>5, <2>2, <2>3
<1> QED
  BY <1>1, <1>2, <1>3, <1>4, <1>5, RingSteps

LEMMA OrderedInit == Init => Ordered
<1> SUFFICES ASSUME Init PROVE Ordered
  OBVIOUS
<1>1. image.no = 0 /\ issued = 0 /\ Len(ring) = 0
  BY DEF Init, ZeroFrame, Frame
<1>2. \A d \in Devices : dev[d].done = 0
  BY DEF Init, PowerOn
<1> QED
  BY <1>1, <1>2 DEF Ordered

(* In an exchange a device executes a message once, and only a new one, or *)
(* none at all.                                                            *)
LEMMA ExecutesNew ==
  ASSUME Typed, Ordered, Exchange, NEW d \in Devices
  PROVE  \/ dev'[d].done = dev[d].done /\ dev'[d].runs = dev[d].runs
         \/ dev'[d].done \in dev[d].done + 1 .. issued /\ dev'[d].runs = dev[d].runs + 1
<1>1. CASE dev'[d] = dev[d]
  BY <1>1
<1>2. CASE dev'[d] # dev[d]
  <2>1. PICK f \in Frames : dev'[d] = recv_ethercat(dev[d], f) /\ f.id = image.id /\ f.no = image.no
    BY <1>2, AfterExchange
  <2>2. f.id # dev[d].headerId /\ dev'[d] = Execute(dev[d], f)
    BY <1>2, <2>1 DEF recv_ethercat
  <2>3. CASE image.no = 0
    BY <2>1, <2>2, <2>3 DEF Execute
  <2>4. CASE image.no # 0
    <3>1. dev'[d].done = image.no /\ dev'[d].runs = dev[d].runs + 1
      BY <2>1, <2>2, <2>4 DEF Execute
    <3>2. dev[d].done < image.no /\ image.no <= issued
      BY <2>1, <2>2, <2>4 DEF Ordered
    <3> QED
      BY <3>1, <3>2, Numbers
  <2> QED
    BY <2>3, <2>4
<1> QED
  BY <1>1, <1>2

(* Only the two sends issue a message, one each.                           *)
LEMMA IssueSteps ==
  ASSUME [Next]_vars
  PROVE  \/ issued' = issued + 1 /\ UNCHANGED dev
         \/ UNCHANGED <<issued, dev>>
         \/ Exchange /\ UNCHANGED issued
<1>1. CASE SendMessage \/ SendThrows
  BY <1>1 DEF SendMessage, SendThrows, Pack
<1>2. CASE Exchange
  BY <1>2 DEF Exchange, logic
<1>3. CASE Read \/ ReadThrows \/ IsProcessed \/ NotProcessed \/ AwaitRoom \/ CloseLink \/ Lose
           \/ Copy \/ Crash \/ Open \/ UNCHANGED vars
  BY <1>3 DEF Read, ReadThrows, IsProcessed, NotProcessed, AwaitRoom, CloseLink, Lose, Copy, Crash, Open,
              vars, logic
<1>4. CASE \E c \in Calls : Begin(c)
  BY <1>4 DEF Begin, logic
<1> QED
  BY <1>1, <1>2, <1>3, <1>4 DEF Next, User

(* The controller, the link and the firmware implement Transfer: repeated, *)
(* lost and torn frames, ids that wrap and crashes of the client do not    *)
(* make a device execute a message twice, or after a later one, or one     *)
(* that was not issued.                                                    *)
THEOREM ImplementsTransfer == Spec => IsTransfer
<1>1. Init => Messages!Init
  BY DEF Init, Messages!Init, PowerOn
<1>2. Typed /\ Ordered /\ [Next]_vars => [Messages!Next]_(Messages!vars)
  <2> SUFFICES ASSUME Typed, Ordered, [Next]_vars
               PROVE  Messages!Next \/ UNCHANGED Messages!vars
    BY DEF Messages!vars
  <2>1. CASE issued' = issued + 1 /\ UNCHANGED dev
    BY <2>1 DEF Messages!Next, Messages!Issue
  <2>2. CASE UNCHANGED <<issued, dev>>
    BY <2>2 DEF Messages!vars
  <2>3. CASE Exchange /\ UNCHANGED issued
    BY <2>3, ExecutesNew DEF Messages!Next, Messages!Execute, Messages!Rests, Messages!Executes
  <2> QED
    BY <2>1, <2>2, <2>3, IssueSteps
<1> QED
  BY <1>1, <1>2, TypedInit, TypedNext, OrderedInit, OrderedNext, PTL DEF Spec, IsTransfer, Messages!Spec
-----------------------------------------------------------------------------
(* Acknowledgements, as long as no id comes up twice.                      *)

(* Ids are message numbers wherever they are kept.                         *)
Stamped ==
  /\ id = issued
  /\ image.id = image.no
  /\ \A k \in 1 .. Len(ring) : ring[k].id = ring[k].no
  /\ \A d \in Devices : /\ dev[d].ack.id = dev[d].ack.of
                        /\ inputs[d].ack.id = inputs[d].ack.of
                        /\ rx[d].ack.id = rx[d].ack.of

LEMMA StampedAnswers ==
  ASSUME Stamped
  PROVE  /\ \A d \in Devices : Answers[d].ack.id = Answers[d].ack.of
         /\ \A d \in Devices : NoAnswers[d].ack.id = NoAnswers[d].ack.of
BY DEF Stamped, Answers, NoAnswers, NoAnswer, NoAck

LEMMA IdIsNumber ==
  ASSUME Typed, Stamped, MaxMessages < ID_LIMIT, pc \in {"send", "room"}, Pack
  PROVE  id' = issued'
<1>1. issued' = issued + 1 /\ issued' \in MessageNos /\ id \in Ids /\ id = issued
  BY PackTyped DEF Stamped, Typed, TypeOK
<1>2. id + 1 < ID_LIMIT
  BY <1>1, ControllerAssumption DEF MessageNos
<1> QED
  BY <1>1, <1>2, GetIdNext DEF Pack

LEMMA StampedNext ==
  ASSUME MaxRestarts = 0, MaxMessages < ID_LIMIT
  PROVE  Typed /\ Stamped /\ [Next]_vars => Stamped'
<1> SUFFICES ASSUME Typed, Stamped, [Next]_vars PROVE Stamped'
  OBVIOUS
<1> USE DEF Stamped
<1>1. CASE SendMessage
  <2>1. id' = issued' /\ UNCHANGED <<image, dev, inputs, rx>>
    BY <1>1, IdIsNumber DEF SendMessage, bus
  <2>2. ring'[Len(ring) + 1].id = ring'[Len(ring) + 1].no
    BY <1>1, <2>1, AfterSend DEF Frame
  <2>3. \A k \in 1 .. Len(ring') : ring'[k].id = ring'[k].no
    <3> TAKE k \in 1 .. Len(ring')
    <3>1. Len(ring) \in Nat /\ Len(ring') = Len(ring) + 1 /\ \A j \in 1 .. Len(ring) : ring'[j] = ring[j]
      BY <1>1, AfterSend
    <3>2. k \in 1 .. Len(ring) \/ k = Len(ring) + 1
      BY <3>1
    <3> QED
      BY <2>2, <3>1, <3>2
  <2> QED
    BY <2>1, <2>3
<1>2. CASE SendThrows
  BY <1>2, IdIsNumber DEF SendThrows, bus
<1>3. CASE Copy
  BY <1>3, AfterCopy
<1>4. CASE Exchange
  <2>1. UNCHANGED <<ring, image, issued, id, rx>>
    BY <1>4 DEF Exchange, user, logic
  <2>2. ASSUME NEW d \in Devices PROVE dev'[d].ack.id = dev'[d].ack.of
    <3>1. CASE dev'[d] = dev[d]
      BY <3>1
    <3>2. CASE dev'[d] # dev[d]
      <4>1. PICK f \in Frames : dev'[d] = recv_ethercat(dev[d], f) /\ f.id = image.id /\ f.no = image.no
        BY <1>4, <3>2, AfterExchange
      <4>2. dev'[d] = Execute(dev[d], f)
        BY <3>2, <4>1 DEF recv_ethercat
      <4> QED
        BY <4>1, <4>2 DEF Execute
    <3> QED
      BY <3>1, <3>2
  <2>3. ASSUME NEW d \in Devices PROVE inputs'[d].ack.id = inputs'[d].ack.of
    <3>1. inputs'[d] = inputs[d] \/ inputs'[d] = [ack |-> dev[d].ack, done |-> dev[d].done]
      BY <1>4, AfterExchange
    <3>2. CASE inputs'[d] = inputs[d]
      BY <3>2
    <3>3. CASE inputs'[d] = [ack |-> dev[d].ack, done |-> dev[d].done]
      BY <3>3
    <3> QED
      BY <3>1, <3>2, <3>3
  <2> QED
    BY <2>1, <2>2, <2>3
<1>5. CASE Open
  <2>1. image'.id = image'.no /\ UNCHANGED <<id, issued, ring, dev>> /\ rx' = NoAnswers
    BY <1>5 DEF Open, ZeroFrame, Frame
  <2>2. inputs' = NoAnswers \/ inputs' = Answers
    BY <1>5 DEF Open
  <2> QED
    BY <2>1, <2>2, StampedAnswers
<1>6. CASE Read
  BY <1>6 DEF Read, logic, bus
<1>7. CASE ReadThrows \/ IsProcessed \/ NotProcessed \/ AwaitRoom \/ CloseLink \/ Lose \/ UNCHANGED vars
  BY <1>7 DEF ReadThrows, IsProcessed, NotProcessed, AwaitRoom, CloseLink, Lose, vars, user, logic, bus
<1>8. CASE \E c \in Calls : Begin(c)
  BY <1>8 DEF Begin, logic, bus
<1>9. CASE Crash
  BY <1>9, ControllerAssumption DEF Crash, Typed, TypeOK
<1> QED
  BY <1>1, <1>2, <1>3, <1>4, <1>5, <1>6, <1>7, <1>8, <1>9 DEF Next, User

LEMMA StampedInit == Init => Stamped
BY DEF Init, Stamped, ZeroFrame, Frame, NoAnswers, NoAnswer, NoAck, PowerOn

(* An acknowledgement that is believed belongs to the message waited for,  *)
(* whatever is lost, late or repeated, if the client is not started again  *)
(* and sends fewer messages than there are ids.  A restart violates it, as *)
(* Controller_restarted.cfg shows.                                         *)
THEOREM AcksAreTrue ==
  ASSUME MaxRestarts = 0, MaxMessages < ID_LIMIT
  PROVE  Spec => []NoFalseAck
<1>1. Stamped => NoFalseAck
  BY DEF Stamped, NoFalseAck, Processed
<1>2. Typed /\ Stamped /\ [Next]_vars => Stamped'
  BY StampedNext
<1> QED
  BY <1>1, <1>2, TypedInit, TypedNext, StampedInit, PTL DEF Spec
-----------------------------------------------------------------------------
(* Duties to the duties, phases to the phases.                             *)

(* The body that belongs to each header.                                   *)
Matches(f) ==
  /\ f.cmd = "WRITE_DUTY" => f.body.kind = "duty"
  /\ f.cmd = "WRITE_PHASE" => f.body.kind = "phase"
  /\ f.cmd = "ULTRASOUND_CYCLE_CNT" => f.body.kind = "cycle"

Packed ==
  /\ Matches(image) /\ \A k \in 1 .. Len(ring) : Matches(ring[k])
  /\ call # "send_null" /\ KindsKept

LEMMA BodyMatches ==
  ASSUME call # "send_null", NEW i, NEW c, NEW n
  PROVE  Matches(Frame(i, c, Body(c), n))
BY DEF Matches, Frame, Body

LEMMA ExecutedKinds ==
  ASSUME NEW fpga \in Contents, NEW f \in Frames, Matches(f),
         \A m \in Memories : fpga[m].kind \in {m, "zero"}
  PROVE  \A m \in Memories : Executed(fpga, f)[m].kind \in {m, "zero"}
<1>1. CASE f.cmd = "CLEAR"
  BY <1>1 DEF Executed, Cleared, Zeroed
<1>2. CASE f.cmd = "WRITE_DUTY"
  BY <1>2 DEF Executed, Contents, Matches
<1>3. CASE f.cmd = "WRITE_PHASE"
  BY <1>3 DEF Executed, Contents, Matches
<1>4. CASE f.cmd = "ULTRASOUND_CYCLE_CNT"
  BY <1>4 DEF Executed, Contents, Matches
<1>5. CASE f.cmd \notin {"CLEAR", "WRITE_DUTY", "WRITE_PHASE", "ULTRASOUND_CYCLE_CNT"}
  BY <1>5 DEF Executed
<1> QED
  BY <1>1, <1>2, <1>3, <1>4, <1>5

LEMMA PackedNext ==
  ASSUME ~Torn, "send_null" \notin Calls
  PROVE  Typed /\ Packed /\ [Next]_vars => Packed'
<1> SUFFICES ASSUME Typed, Packed, [Next]_vars PROVE Packed'
  OBVIOUS
<1>0. call' # "send_null"
  <2>1. CASE \E c \in Calls : Begin(c)
    BY <2>1 DEF Begin
  <2>2. CASE SendMessage \/ SendThrows \/ ReadThrows \/ IsProcessed \/ NotProcessed \/ AwaitRoom
    BY <2>2 DEF Packed, SendMessage, SendThrows, ReadThrows, IsProcessed, NotProcessed, AwaitRoom, Continues, Fails
  <2>3. CASE Open \/ Read \/ CloseLink \/ Crash \/ Copy \/ Exchange \/ Lose \/ UNCHANGED vars
    BY <2>3 DEF Packed, Open, Read, CloseLink, Crash, Copy, Exchange, Lose, vars, user
  <2> QED
    BY <2>1, <2>2, <2>3 DEF Next, User
<1>1. CASE SendMessage
  <2>1. UNCHANGED <<image, dev>>
    BY <1>1 DEF SendMessage, bus
  <2>2. Matches(ring'[Len(ring) + 1])
    BY <1>1, AfterSend, BodyMatches DEF Packed, SendMessage, Pack
  <2>3. \A k \in 1 .. Len(ring') : Matches(ring'[k])
    BY <1>1, <2>2, AfterSend DEF Packed
  <2> QED
    BY <1>0, <2>1, <2>3 DEF Packed, KindsKept
<1>2. CASE Copy
  BY <1>0, <1>2, AfterCopy DEF Packed, KindsKept
<1>3. CASE Exchange
  <2>1. UNCHANGED <<ring, image>>
    BY <1>3 DEF Exchange
  <2>2. ASSUME NEW d \in Devices
        PROVE  \A m \in Memories : dev'[d].fpga[m].kind \in {m, "zero"}
    <3>1. CASE dev'[d] = dev[d]
      BY <3>1 DEF Packed, KindsKept
    <3>2. CASE dev'[d] # dev[d]
      <4>1. PICK f \in Frames : /\ dev'[d] = recv_ethercat(dev[d], f)
                               /\ f.cmd = image.cmd /\ f.body = image.body
        BY <1>3, <3>2, AfterExchange
      <4>2. dev'[d].fpga = Executed(dev[d].fpga, f)
        BY <3>2, <4>1 DEF recv_ethercat, Execute
      <4>3. Matches(f) /\ dev[d].fpga \in Contents
        BY <4>1, Numbers DEF Packed, Matches, DeviceStates
      <4>4. \A m \in Memories : dev[d].fpga[m].kind \in {m, "zero"}
        BY DEF Packed, KindsKept
      <4> QED
        BY <4>2, <4>3, <4>4, ExecutedKinds
    <3> QED
      BY <3>1, <3>2
  <2> QED
    BY <1>0, <2>1, <2>2 DEF Packed, KindsKept
<1>4. CASE Open
  <2>1. Matches(image') /\ UNCHANGED <<ring, dev>>
    BY <1>4 DEF Open, Matches, ZeroFrame, Frame
  <2> QED
    BY <1>0, <2>1 DEF Packed, KindsKept
<1>5. CASE UNCHANGED <<image, dev>> /\ (ring' = ring \/ ring' = <<>>)
  BY <1>0, <1>5 DEF Packed, KindsKept
<1> QED
  BY <1>1, <1>2, <1>3, <1>4, <1>5, RingSteps

LEMMA PackedInit == Init => Packed
BY DEF Init, Packed, KindsKept, Matches, ZeroFrame, Frame, PowerOn, Cleared, Zeroed

(* As long as no frame is torn and no null gain is sent, nothing but       *)
(* duties gets to the duties, nothing but phases to the phases.            *)
THEOREM KindsNeverMix ==
  ASSUME ~Torn, "send_null" \notin Calls
  PROVE  Spec => []KindsKept
<1>1. Packed => KindsKept
  BY DEF Packed
<1>2. Typed /\ Packed /\ [Next]_vars => Packed'
  BY PackedNext
<1> QED
  BY <1>1, <1>2, TypedInit, TypedNext, PackedInit, PTL DEF Spec
-----------------------------------------------------------------------------
(* What is executed is acknowledged.                                       *)

(* The message waited for sets an acknowledgement with the id waited for,  *)
(* wherever it is on its way; nothing knows of messages not issued yet.    *)
Awaited(f) == f.no = issued => f.cmd \in Acked /\ f.id = id
Answered(a) == a.done = issued => a.ack.id = id

Awaiting ==
  /\ Awaited(image) /\ \A k \in 1 .. Len(ring) : Awaited(ring[k])
  /\ \A d \in Devices : Answered(dev[d]) /\ Answered(inputs[d]) /\ Answered(rx[d])

(* Only clear() and the end of close() send a CLEAR.                       *)
Script ==
  \A k \in 1 .. Len(todo) :
    todo[k] \in Acked \/ call = "clear" \/ (call = "close" /\ k = Len(todo))

(* Nothing is known of messages that were not issued yet, and what a new   *)
(* image is zeroed to is not acknowledged.                                 *)
Known == \A d \in Devices : inputs[d].done <= issued /\ rx[d].done <= issued
Zeroes == image.no = 0 => image.cmd \notin Acked

AwaitInv == Script /\ Known /\ Zeroes /\ (pc \in {"wait", "judge"} /\ ~Clearing => Awaiting)

LEMMA ScriptsAcked ==
  ASSUME NEW c \in DOMAIN Scripts, NEW k \in 1 .. Len(Scripts[c])
  PROVE  Scripts[c][k] \in Acked \/ c = "clear" \/ (c = "close" /\ k = Len(Scripts[c]))
<1>1. c \in {"send", "send_null", "set_frequency", "clear", "firmware_info_list", "close"}
  BY DEF Scripts
<1>2. CASE c \in {"send", "send_null"}
  <2>1. Scripts[c] = <<"WRITE_DUTY", "WRITE_PHASE">>
    BY <1>2 DEF Scripts
  <2> QED
    BY <2>1 DEF Acked, Writes
<1>3. CASE c = "set_frequency"
  <2>1. Scripts[c] = <<"ULTRASOUND_CYCLE_CNT">>
    BY <1>3 DEF Scripts
  <2> QED
    BY <2>1 DEF Acked, Writes
<1>4. CASE c = "firmware_info_list"
  <2>1. Scripts[c] = <<"READ_CPU_VER_LSB", "READ_CPU_VER_MSB", "READ_FPGA_VER_LSB", "READ_FPGA_VER_MSB">>
    BY <1>4 DEF Scripts
  <2>2. k = 1 \/ k = 2 \/ k = 3 \/ k = 4
    BY <2>1
  <2> QED
    BY <2>1, <2>2 DEF Acked, Reads
<1>5. CASE c = "close"
  <2>1. Scripts[c] = <<"WRITE_DUTY", "WRITE_PHASE", "CLEAR">>
    BY <1>5 DEF Scripts
  <2> QED
    BY <1>5, <2>1 DEF Acked, Writes
<1> QED
  BY <1>1, <1>2, <1>3, <1>4, <1>5

(* The rest of a script is one.                                            *)
LEMMA ScriptTail ==
  ASSUME Typed, Script, todo # <<>>, NEW rest, rest = Tail(todo)
  PROVE  /\ \A k \in 1 .. Len(rest) :
              rest[k] \in Acked \/ call = "clear" \/ (call = "close" /\ k = Len(rest))
         /\ Head(todo) \in Acked \/ call = "clear" \/ (call = "close" /\ rest = <<>>)
<1>1. todo \in Seq(Commands) /\ Len(todo) \in Nat /\ Len(todo) > 0
  BY DEF Typed, TypeOK
<1>2. Head(todo) = todo[1] /\ 1 \in 1 .. Len(todo) /\ rest \in Seq(Commands) /\ Len(rest) = Len(todo) - 1
  BY <1>1
<1>3. \A k \in 1 .. Len(rest) : rest[k] = todo[k + 1] /\ k + 1 \in 1 .. Len(todo)
  BY <1>1
<1>4. Len(todo) = 1 => rest = <<>>
  <2>1. \A q \in Seq(Commands) : Len(q) = 0 => q = <<>>
    OBVIOUS
  <2> QED
    BY <1>1, <1>2, <2>1
<1>5. \A k \in 1 .. Len(rest) :
        rest[k] \in Acked \/ call = "clear" \/ (call = "close" /\ k = Len(rest))
  <2> TAKE k \in 1 .. Len(rest)
  <2>0. k \in Nat
    BY <1>1, <1>2
  <2>1. rest[k] = todo[k + 1] /\ k + 1 \in 1 .. Len(todo)
    BY <1>3
  <2>2. \A m : \A n \in Nat : m = n - 1 /\ k + 1 = n => k = m
    BY <2>0
  <2>3. k + 1 = Len(todo) => k = Len(rest)
    BY <1>1, <1>2, <2>2, Zenon
  <2> QED
    BY <2>1, <2>3 DEF Script
<1>6. Head(todo) \in Acked \/ call = "clear" \/ (call = "close" /\ Len(todo) = 1)
  BY <1>2 DEF Script
<1> QED
  BY <1>4, <1>5, <1>6

LEMMA ScriptNext == Typed /\ Script /\ [Next]_vars => Script'
<1> SUFFICES ASSUME Typed, Script, [Next]_vars PROVE Script'
  OBVIOUS
<1>1. CASE \E c \in Calls : Begin(c)
  BY <1>1, ScriptsAcked, ControllerAssumption DEF Begin, Script
<1>2. CASE todo' = <<>>
  BY <1>2 DEF Script
<1>3. CASE todo' = todo /\ (call' = call \/ todo = <<>>)
  BY <1>3 DEF Script
<1>4. CASE SendMessage
  <2>1. todo # <<>> /\ todo' = Tail(todo)
    BY <1>4 DEF SendMessage, Typed, Bounded
  <2>2. call' = call \/ todo' = <<>>
    BY <1>4 DEF SendMessage, Continues
  <2>3. CASE call' = call
    BY <2>1, <2>3, ScriptTail DEF Script
  <2> QED
    BY <1>2, <2>2, <2>3
<1>5. CASE IsProcessed
  <2>1. todo' = todo /\ (call' = call \/ todo = <<>>)
    BY <1>5 DEF IsProcessed, Continues
  <2> QED
    BY <1>3, <2>1
<1>6. CASE SendThrows \/ ReadThrows \/ NotProcessed \/ Crash
  BY <1>2, <1>3, <1>6 DEF SendThrows, ReadThrows, NotProcessed, Crash, Fails
<1>7. CASE Open \/ AwaitRoom \/ Read \/ CloseLink \/ Copy \/ Exchange \/ Lose \/ UNCHANGED vars
  BY <1>3, <1>7 DEF Open, AwaitRoom, Read, CloseLink, Copy, Exchange, Lose, vars, user
<1> QED
  BY <1>1, <1>4, <1>5, <1>6, <1>7 DEF Next, User

(* Outside of a send the user's thread waits for the message it waited for *)
(* before.                                                                 *)
LEMMA WaitSteps ==
  ASSUME [Next]_vars, pc' \in {"wait", "judge"}, ~SendMessage
  PROVE  /\ pc \in {"wait", "judge"} /\ UNCHANGED <<call, todo, id, issued>>
         /\ Read \/ Copy \/ Exchange \/ UNCHANGED <<ring, image, dev, inputs, rx>>
<1>1. CASE Read \/ NotProcessed
  BY <1>1 DEF Read, NotProcessed, Fails, logic, bus
<1>2. CASE Copy \/ Exchange \/ Lose \/ UNCHANGED vars
  BY <1>2 DEF Copy, Exchange, Lose, vars, user, logic, bus
<1>3. ~\E c \in Calls : Begin(c)
  BY DEF Begin
<1>4. ~(Open \/ AwaitRoom \/ SendThrows \/ ReadThrows \/ IsProcessed \/ CloseLink \/ Crash)
  BY DEF Open, AwaitRoom, SendThrows, ReadThrows, IsProcessed, CloseLink, Crash, Fails, Continues
<1> QED
  BY <1>1, <1>2, <1>3, <1>4 DEF Next, User

LEMMA KnownNumbers ==
  ASSUME Typed, NEW d \in Devices
  PROVE  inputs[d].done \in Nat /\ rx[d].done \in Nat /\ dev[d].done \in Nat /\ issued \in Nat
<1>1. \A a \in AckWords : a[d].done \in Nat
  BY ControllerAssumption DEF AckWords, MessageNos
<1> QED
  BY <1>1, Numbers DEF Typed, TypeOK

LEMMA KnownNext == Typed /\ Ordered /\ Known /\ [Next]_vars => Known'
<1> SUFFICES ASSUME Typed, Ordered, Known, [Next]_vars, NEW d \in Devices
             PROVE  inputs'[d].done <= issued' /\ rx'[d].done <= issued'
  BY DEF Known
<1>0. /\ inputs[d].done <= issued /\ rx[d].done <= issued /\ dev[d].done <= issued
      /\ Answers[d].done = dev[d].done /\ NoAnswers[d].done = 0
  BY DEF Known, Ordered, Answers, NoAnswers, NoAnswer
<1>1. CASE SendMessage \/ SendThrows
  BY <1>0, <1>1, KnownNumbers DEF SendMessage, SendThrows, Pack, bus
<1>2. CASE Open
  BY <1>0, <1>2, KnownNumbers DEF Open
<1>3. CASE Exchange
  <2>1. /\ inputs'[d] = inputs[d] \/ inputs'[d] = [ack |-> dev[d].ack, done |-> dev[d].done]
        /\ UNCHANGED <<issued, rx>>
    BY <1>3, AfterExchange
  <2>2. inputs'[d].done \in {inputs[d].done, dev[d].done}
    BY <2>1
  <2> QED
    BY <1>0, <2>1, <2>2
<1>4. CASE Read \/ Crash
  BY <1>0, <1>4, KnownNumbers DEF Read, Crash, logic, bus
<1>5. CASE ReadThrows \/ IsProcessed \/ NotProcessed \/ AwaitRoom \/ CloseLink \/ Copy \/ Lose \/ UNCHANGED vars
  BY <1>0, <1>5 DEF ReadThrows, IsProcessed, NotProcessed, AwaitRoom, CloseLink, Copy, Lose, vars, user, logic, bus
<1>6. CASE \E c \in Calls : Begin(c)
  BY <1>0, <1>6 DEF Begin, logic, bus
<1> QED
  BY <1>1, <1>2, <1>3, <1>4, <1>5, <1>6 DEF Next, User

LEMMA ZeroesNext == Typed /\ Ordered /\ Zeroes /\ [Next]_vars => Zeroes'
<1> SUFFICES ASSUME Typed, Ordered, Zeroes, [Next]_vars PROVE Zeroes'
  OBVIOUS
<1>1. CASE Copy
  BY <1>1, AfterCopy, Numbers DEF Ordered, Zeroes
<1>2. CASE Open
  BY <1>2 DEF Open, Zeroes, ZeroFrame, Frame, Acked, Reads, Writes
<1>3. CASE UNCHANGED image
  BY <1>3 DEF Zeroes
<1> QED
  BY <1>1, <1>2, <1>3, RingSteps DEF SendMessage, Exchange, bus

(* A message enters the queue with the id that is waited for, and nobody   *)
(* knows its number yet.                                                   *)
LEMMA AwaitSend ==
  ASSUME Typed, Ordered, Script, Known, SendMessage, pc' \in {"wait", "judge"}, ~Clearing'
  PROVE  Awaiting'
<1>1. UNCHANGED <<image, dev, inputs, rx, call>> /\ todo' = Tail(todo) /\ todo # <<>>
  BY DEF SendMessage, Continues, bus, Typed, Bounded
<1>2. Head(todo) \in Acked
  BY <1>1, ScriptTail DEF Clearing
<1>3. issued' = issued + 1 /\ image.no <= issued
  BY AfterSend DEF Ordered
<1>4. Awaited(image)'
  BY <1>1, <1>3, Numbers DEF Awaited
<1>5. \A k \in 1 .. Len(ring') : ring'[k].no = issued' => ring'[k].cmd \in Acked /\ ring'[k].id = id'
  <2> TAKE k \in 1 .. Len(ring')
  <2>1. k \in 1 .. Len(ring) \/ k = Len(ring) + 1
    BY AfterSend
  <2>2. CASE k \in 1 .. Len(ring)
    <3>1. ring'[k] = ring[k] /\ ring[k].no <= issued
      BY <2>2, AfterSend DEF Ordered
    <3> QED
      BY <1>3, <2>2, <3>1, Numbers
  <2>3. CASE k = Len(ring) + 1
    <3>1. ring'[k].cmd = Head(todo) /\ ring'[k].id = id'
      BY <2>3, AfterSend DEF Frame
    <3> QED
      BY <1>2, <3>1
  <2> QED
    BY <2>1, <2>2, <2>3
<1>6. ASSUME NEW d \in Devices
      PROVE  (Answered(dev[d]) /\ Answered(inputs[d]) /\ Answered(rx[d]))'
  <2>1. dev[d].done <= issued /\ inputs[d].done <= issued /\ rx[d].done <= issued
    BY DEF Ordered, Known
  <2>2. dev'[d].done # issued' /\ inputs'[d].done # issued' /\ rx'[d].done # issued'
    BY <1>1, <1>3, <2>1, KnownNumbers
  <2> QED
    BY <2>2 DEF Answered
<1> QED
  BY <1>4, <1>5, <1>6 DEF Awaiting, Awaited

(* A device that executes the message waited for acknowledges it.          *)
LEMMA AwaitExchange ==
  ASSUME Typed, Zeroes, Awaiting, Exchange, NEW d \in Devices
  PROVE  Answered(dev[d])' /\ Answered(inputs[d])'
<1>1. UNCHANGED <<issued, id>>
  BY DEF Exchange, logic
<1>2. Answered(dev[d]) /\ Answered(inputs[d])
  BY DEF Awaiting
<1>3. Answered(inputs[d])'
  <2>1. inputs'[d] = inputs[d] \/ inputs'[d] = [ack |-> dev[d].ack, done |-> dev[d].done]
    BY AfterExchange
  <2>2. CASE inputs'[d] = inputs[d]
    BY <1>1, <1>2, <2>2 DEF Answered
  <2>3. CASE inputs'[d] = [ack |-> dev[d].ack, done |-> dev[d].done]
    BY <1>1, <1>2, <2>3 DEF Answered
  <2> QED
    BY <2>1, <2>2, <2>3
<1>4. Answered(dev[d])'
  <2>1. CASE dev'[d] = dev[d]
    BY <1>1, <1>2, <2>1 DEF Answered
  <2>2. CASE dev'[d] # dev[d]
    <3>1. PICK f \in Frames : /\ dev'[d] = recv_ethercat(dev[d], f)
                              /\ f.id = image.id /\ f.cmd = image.cmd /\ f.no = image.no
      BY <2>2, AfterExchange
    <3>2. dev'[d] = Execute(dev[d], f)
      BY <2>2, <3>1 DEF recv_ethercat
    <3>3. CASE image.no = 0
      <4>1. dev'[d].done = dev[d].done /\ dev'[d].ack = dev[d].ack
        BY <3>1, <3>2, <3>3 DEF Execute, Zeroes
      <4> QED
        BY <1>1, <1>2, <4>1 DEF Answered
    <3>4. CASE image.no # 0
      <4>1. /\ dev'[d].done = image.no
            /\ image.cmd \in Acked => dev'[d].ack.id = image.id
        BY <3>1, <3>2, <3>4 DEF Execute
      <4> QED
        BY <1>1, <4>1 DEF Answered, Awaiting, Awaited
    <3> QED
      BY <3>3, <3>4
  <2> QED
    BY <2>1, <2>2
<1> QED
  BY <1>3, <1>4

LEMMA AwaitNext == Typed /\ Ordered /\ AwaitInv /\ [Next]_vars => AwaitInv'
<1> SUFFICES ASSUME Typed, Ordered, AwaitInv, [Next]_vars PROVE AwaitInv'
  OBVIOUS
<1>1. Script' /\ Known' /\ Zeroes'
  BY ScriptNext, KnownNext, ZeroesNext DEF AwaitInv
<1> SUFFICES ASSUME pc' \in {"wait", "judge"}, ~Clearing' PROVE Awaiting'
  BY <1>1 DEF AwaitInv
<1>2. CASE SendMessage
  BY <1>2, AwaitSend DEF AwaitInv
<1>3. CASE ~SendMessage
  <2>1. /\ pc \in {"wait", "judge"} /\ UNCHANGED <<call, todo, id, issued>>
        /\ Read \/ Copy \/ Exchange \/ UNCHANGED <<ring, image, dev, inputs, rx>>
    BY <1>3, WaitSteps
  <2>2. Awaiting
    BY <2>1 DEF AwaitInv, Clearing
  <2>3. CASE Read
    BY <2>1, <2>2, <2>3 DEF Read, bus, Awaiting, Awaited, Answered
  <2>4. CASE Copy
    BY <2>1, <2>2, <2>4, AfterCopy DEF Awaiting, Awaited, Answered
  <2>5. CASE Exchange
    <3>1. UNCHANGED <<ring, image, rx>>
      BY <2>5 DEF Exchange, user
    <3>2. \A d \in Devices : (Answered(dev[d]) /\ Answered(inputs[d]))'
      BY <2>2, <2>5, AwaitExchange DEF AwaitInv
    <3> QED
      BY <2>1, <2>2, <3>1, <3>2 DEF Awaiting, Awaited, Answered
  <2>6. CASE UNCHANGED <<ring, image, dev, inputs, rx>>
    BY <2>1, <2>2, <2>6 DEF Awaiting, Awaited, Answered
  <2> QED
    BY <2>1, <2>3, <2>4, <2>5, <2>6
<1> QED
  BY <1>2, <1>3

LEMMA AwaitInit == Init => AwaitInv
BY DEF Init, AwaitInv, Script, Known, Zeroes, NoAnswers, NoAnswer, ZeroFrame, Frame, Acked, Reads, Writes

(* A message that all devices have executed, as far as their answers were  *)
(* read, is reported as processed, unless it is a CLEAR: through lost and  *)
(* torn frames, ids that wrap and restarts.                                *)
THEOREM ExecutedIsAcknowledged == Spec => []OnlyClearMissed
<1>1. AwaitInv => OnlyClearMissed
  BY DEF AwaitInv, Awaiting, Answered, OnlyClearMissed, AllDone, Processed
<1> QED
  BY <1>1, TypedInit, TypedNext, OrderedInit, OrderedNext, AwaitInit, AwaitNext, PTL DEF Spec
-----------------------------------------------------------------------------
(* New messages are told from repetitions.                                 *)

Succ(i) == IF i + 1 = ID_LIMIT THEN 1 ELSE i + 1

(* The id of the frame that will replace the image.                        *)
First == IF ring = <<>> THEN Succ(id) ELSE ring[1].id

Closing == call = "close" \/ pc = "closing"
Left == Len(ring) + Len(todo)

Places ==
  /\ pc \in {"idle", "closing"} => call = "none"
  /\ pc = "closing" => todo = <<>>
  /\ link = "closed" => pc = "idle" /\ ring = <<>>

(* A frame is stored for an open link or a lost one.                       *)
LEMMA StoresOpen ==
  ASSUME Typed, Places, SendMessage
  PROVE  link # "closed" /\ (link # "lost" => link = "open")
BY DEF Typed, TypeOK, Places, SendMessage

(* From the image to the end of the queue each id follows the one before.  *)
Chain ==
  /\ \A k \in 1 .. Len(ring) : ring[k].id # 0
  /\ \A k \in 1 .. Len(ring) - 1 : ring[k + 1].id = Succ(ring[k].id)
  /\ ring # <<>> => ring[Len(ring)].id = id
  /\ image.no # 0 => First = Succ(image.id)
  /\ image.no = 0 => image.id = 0

(* A device has the id of an image that was sent, and of one that was not  *)
(* the id before, unless it is the first through this link, which cannot   *)
(* be the last.  Hence what comes next has another id, through the next    *)
(* link too.                                                               *)
Seen(d) ==
  /\ link = "closed" => dev[d].headerId # First
  /\ link = "open" /\ image.no = 0 =>
       dev[d].headerId # First /\ (Closing => Left >= 3)
  /\ link = "open" /\ image.no # 0 /\ sent =>
       dev[d].headerId = image.id /\ dev[d].done >= image.no
  /\ link = "open" /\ image.no # 0 /\ ~sent =>
       /\ dev[d].headerId # image.id
       /\ Succ(dev[d].headerId) = image.id \/ (Closing => Left >= 2)

InTurn == Places /\ (link # "lost" => Chain) /\ \A d \in Devices : Seen(d)

(* With three ids or more, three that follow each other are different.     *)
LEMMA SuccDiffers ==
  ASSUME ID_LIMIT > 3, NEW i \in Ids
  PROVE  Succ(i) \in Ids /\ Succ(i) # 0 /\ Succ(i) # i /\ Succ(Succ(i)) # i
<1>1. i \in Int /\ 0 <= i /\ i < ID_LIMIT /\ ID_LIMIT \in Int
  BY ControllerAssumption DEF Ids
<1>2. CASE i + 1 = ID_LIMIT
  BY <1>1, <1>2 DEF Succ, Ids
<1>3. CASE i + 1 # ID_LIMIT
  BY <1>1, <1>3 DEF Succ, Ids
<1> QED
  BY <1>2, <1>3

LEMMA GetIdIsSucc == ASSUME Typed PROVE GetId = Succ(id)
<1>1. id \in Int /\ 0 <= id /\ id < ID_LIMIT /\ ID_LIMIT \in Int
  BY ControllerAssumption DEF Typed, TypeOK, Ids
<1>2. (id + 1) % (ID_LIMIT + 1) = id + 1
  BY <1>1
<1> QED
  BY <1>2 DEF GetId, Succ

(* An exchange that loses nothing shows the image to every device.         *)
LEMMA WholeExchange ==
  ASSUME ~Lossy, Typed, Exchange, NEW d \in Devices
  PROVE  /\ \E f \in Frames : /\ dev'[d] = recv_ethercat(dev[d], f) /\ f.id = image.id
                               /\ f.cmd = image.cmd /\ f.no = image.no
         /\ inputs'[d].ack = dev[d].ack
<1>1. PICK D, I, torn \in SUBSET Devices :
        /\ D = Devices /\ I = Devices /\ \A a, b \in torn : a = b /\ Torn /\ MayTear
        /\ dev' = [e \in Devices |-> IF e \in D THEN recv_ethercat(dev[e], Arrives(e, torn)) ELSE dev[e]]
        /\ inputs' = [e \in Devices |-> IF e \in I THEN Answers[e] ELSE inputs[e]]
  BY DEF Exchange
<1>2. image \in Frames /\ before \in Bodies /\ ring \in Seq(Frames)
  BY DEF Typed, TypeOK
<1>3. /\ Arrives(d, torn) \in Frames /\ Arrives(d, torn).id = image.id
      /\ Arrives(d, torn).cmd = image.cmd /\ Arrives(d, torn).no = image.no
  BY <1>1, <1>2, ArrivesTyped
<1>4. inputs'[d].ack = dev[d].ack
  BY <1>1 DEF Answers
<1> QED
  BY <1>1, <1>3, <1>4

LEMMA PlacesNext == Typed /\ Places /\ MaxRestarts = 0 /\ [Next]_vars => Places'
<1> SUFFICES ASSUME Typed, Places, MaxRestarts = 0, [Next]_vars PROVE Places'
  OBVIOUS
<1>1. CASE SendMessage
  BY <1>1 DEF SendMessage, Continues, Places, bus
<1>2. CASE Open \/ Read \/ ReadThrows \/ SendThrows \/ NotProcessed \/ AwaitRoom
  BY <1>2 DEF Open, Read, ReadThrows, SendThrows, NotProcessed, AwaitRoom, Fails, Places, bus, logic
<1>3. CASE IsProcessed \/ CloseLink
  BY <1>3 DEF IsProcessed, CloseLink, Continues, Places, bus, logic
<1>4. CASE \E c \in Calls : Begin(c)
  BY <1>4 DEF Begin, Places, bus, logic
<1>5. CASE Copy \/ Exchange \/ Lose \/ UNCHANGED vars
  BY <1>5 DEF Copy, Exchange, Lose, Places, vars, bus, user
<1>6. ~Crash
  BY ControllerAssumption DEF Crash, Typed, TypeOK
<1> QED
  BY <1>1, <1>2, <1>3, <1>4, <1>5, <1>6 DEF Next, User

LEMMA ChainSend ==
  ASSUME Typed, Chain, SendMessage
  PROVE  Chain' /\ First' = First
<1>1. id' = Succ(id) /\ UNCHANGED image
  BY GetIdIsSucc DEF SendMessage, Pack, bus
<1>2. Succ(id) # 0
  BY ControllerAssumption DEF Succ, Typed, TypeOK, Ids
<1>3. /\ Len(ring) \in Nat /\ Len(ring') = Len(ring) + 1 /\ ring' # <<>>
      /\ \A k \in 1 .. Len(ring) : ring'[k] = ring[k]
      /\ ring'[Len(ring) + 1].id = id'
      /\ ring = <<>> <=> Len(ring) = 0
  BY AfterSend DEF Frame, Typed, TypeOK
<1>4. First' = First
  BY <1>1, <1>3 DEF First
<1>5. \A k \in 1 .. Len(ring') : ring'[k].id # 0
  BY <1>1, <1>2, <1>3 DEF Chain
<1>6. \A k \in 1 .. Len(ring') - 1 : ring'[k + 1].id = Succ(ring'[k].id)
  <2> TAKE k \in 1 .. Len(ring') - 1
  <2>1. CASE k = Len(ring)
    BY <1>1, <1>3, <2>1 DEF Chain
  <2>2. CASE k # Len(ring)
    <3>1. k \in 1 .. Len(ring) - 1 /\ k \in 1 .. Len(ring) /\ k + 1 \in 1 .. Len(ring)
      BY <1>3, <2>2
    <3> QED
      BY <1>3, <3>1 DEF Chain
  <2> QED
    BY <2>1, <2>2
<1> QED
  BY <1>1, <1>3, <1>4, <1>5, <1>6 DEF Chain

LEMMA ChainCopy ==
  ASSUME Typed, Ordered, Chain, Copy
  PROVE  Chain' /\ image'.no # 0 /\ image'.id = First /\ First' = Succ(image'.id)
<1>1. /\ Len(ring) \in Nat /\ Len(ring) > 0 /\ Len(ring') = Len(ring) - 1 /\ image' = ring[1]
      /\ \A k \in 1 .. Len(ring') : ring'[k] = ring[k + 1] /\ k + 1 \in 1 .. Len(ring)
      /\ UNCHANGED id
  BY AfterCopy
<1>2. (ring = <<>> <=> Len(ring) = 0) /\ (ring' = <<>> <=> Len(ring') = 0)
  <2>1. ring \in Seq(Frames) /\ ring # <<>> /\ ring' = Tail(ring)
    BY DEF Typed, TypeOK, Copy
  <2>2. ring' \in Seq(Frames)
    BY <2>1
  <2>3. \A q \in Seq(Frames) : q = <<>> <=> Len(q) = 0
    OBVIOUS
  <2>4. ring \in Seq(Frames)
    BY <2>1
  <2> QED
    BY <2>2, <2>3, <2>4
<1>3. image'.no # 0
  BY <1>1, Numbers DEF Ordered
<1>4. image'.id = First
  BY <1>1, <1>2 DEF First
<1>5. First' = Succ(image'.id)
  <2>1. CASE Len(ring) = 1
    BY <1>1, <1>2, <2>1 DEF First, Chain, Succ
  <2>2. CASE Len(ring) # 1
    <3>1. 1 \in 1 .. Len(ring') /\ 1 \in 1 .. Len(ring) - 1 /\ ring' # <<>>
      BY <1>1, <1>2, <2>2
    <3> QED
      BY <1>1, <3>1 DEF First, Chain
  <2> QED
    BY <2>1, <2>2
<1>6. \A k \in 1 .. Len(ring') : ring'[k].id # 0
  BY <1>1 DEF Chain
<1>7. \A k \in 1 .. Len(ring') - 1 : ring'[k + 1].id = Succ(ring'[k].id)
  <2> TAKE k \in 1 .. Len(ring') - 1
  <2>1. k \in 1 .. Len(ring') /\ k + 1 \in 1 .. Len(ring') /\ k + 1 \in 1 .. Len(ring) - 1
    BY <1>1
  <2> QED
    BY <1>1, <2>1 DEF Chain
<1>8. ring' # <<>> => ring'[Len(ring')].id = id'
  <2>1. ring' # <<>> => Len(ring') \in 1 .. Len(ring') /\ Len(ring') + 1 = Len(ring)
    BY <1>1, <1>2
  <2> QED
    BY <1>1, <1>2, <2>1 DEF Chain
<1>9. Chain'
  BY <1>3, <1>5, <1>6, <1>7, <1>8 DEF Chain
<1> QED
  BY <1>3, <1>4, <1>5, <1>9

LEMMA ChainNext ==
  ASSUME Typed, Ordered, Places, MaxRestarts = 0, [Next]_vars, link # "lost" => Chain
  PROVE  link' # "lost" => Chain'
<1> SUFFICES ASSUME link' # "lost" PROVE Chain'
  OBVIOUS
<1>1. CASE SendMessage
  BY <1>1, ChainSend DEF SendMessage, bus
<1>2. CASE Copy
  BY <1>2, ChainCopy DEF Copy
<1>3. CASE Open
  BY <1>3 DEF Open, Places, Chain, ZeroFrame, Frame
<1>4. CASE UNCHANGED <<ring, image, id>> /\ link # "lost"
  BY <1>4 DEF Chain, First
<1>5. CASE Read \/ ReadThrows \/ IsProcessed \/ NotProcessed \/ AwaitRoom \/ CloseLink
  BY <1>4, <1>5 DEF Read, ReadThrows, IsProcessed, NotProcessed, AwaitRoom, CloseLink, bus, logic
<1>6. CASE Exchange \/ Lose \/ UNCHANGED vars
  BY <1>4, <1>6 DEF Exchange, Lose, vars, bus, logic
<1>7. CASE \E c \in Calls : Begin(c)
  BY <1>4, <1>7 DEF Begin, bus, logic
<1>8. ~Crash /\ ~SendThrows
  BY ControllerAssumption DEF Crash, SendThrows, bus, Typed, TypeOK
<1> QED
  BY <1>1, <1>2, <1>3, <1>5, <1>6, <1>7, <1>8 DEF Next, User

(* As long as the call goes on, what is left of it and of the queue goes   *)
(* to the bus.                                                             *)
LEMMA LeftSteps ==
  ASSUME Typed, Places, MaxRestarts = 0, [Next]_vars, Closing'
  PROVE  \/ Left' >= 3 /\ \E c \in Calls : Begin(c)
         \/ Closing /\ Left' = Left - 1 /\ Copy
         \/ Closing /\ Left' = Left /\ ~Copy /\ ~Open
<1>0. Len(ring) \in Nat /\ Len(todo) \in Nat
  BY DEF Typed, TypeOK
<1>1. CASE \E c \in Calls : Begin(c)
  <2>1. PICK c \in Calls : Begin(c)
    BY <1>1
  <2>2. c = "close" /\ todo' = <<"WRITE_DUTY", "WRITE_PHASE", "CLEAR">> /\ ring' = ring
    BY <2>1 DEF Begin, Closing, Scripts
  <2>3. Len(todo') = 3
    BY <2>2
  <2> QED
    BY <1>0, <1>1, <2>2, <2>3 DEF Left
<1>2. CASE SendMessage
  <2>1. Closing /\ ~Copy /\ ~Open
    BY <1>2 DEF SendMessage, Continues, Closing, Copy, Open, user
  <2>2. Len(ring') = Len(ring) + 1
    BY <1>2, AfterSend
  <2>3. Len(todo') = Len(todo) - 1
    BY <1>2, PackTyped DEF SendMessage
  <2> QED
    BY <1>0, <2>1, <2>2, <2>3 DEF Left
<1>3. CASE Copy
  <2>1. UNCHANGED <<pc, call, todo>>
    BY <1>3 DEF Copy, user
  <2>2. Len(ring') = Len(ring) - 1
    BY <1>3, AfterCopy
  <2> QED
    BY <1>0, <1>3, <2>1, <2>2 DEF Left, Closing
<1>4. CASE Read \/ IsProcessed
  BY <1>4 DEF Read, IsProcessed, Continues, Closing, Left, Copy, Open, user
<1>5. CASE NotProcessed \/ AwaitRoom
  BY <1>5 DEF NotProcessed, AwaitRoom, Fails, Closing, Left, Copy, Open, user
<1>6. CASE Exchange \/ Lose \/ UNCHANGED vars
  BY <1>6 DEF Exchange, Lose, Closing, Left, Copy, Open, vars, user, bus
<1>7. ~Crash /\ ~SendThrows /\ ~ReadThrows /\ ~Open /\ ~CloseLink
  BY ControllerAssumption DEF Crash, SendThrows, ReadThrows, Open, CloseLink, Fails, Closing, Places, Typed, TypeOK
<1> QED
  BY <1>1, <1>2, <1>3, <1>4, <1>5, <1>6, <1>7 DEF Next, User

(* A step of the user that leaves link and devices alone.                  *)
LEMMA SeenRests ==
  ASSUME Typed, Places, MaxRestarts = 0, [Next]_vars, NEW d \in Devices, Seen(d),
         UNCHANGED <<link, image, sent, dev>>, ~Copy, link # "lost" => First' = First
  PROVE  Seen(d)'
<1>1. Closing' => (Closing /\ Left' = Left) \/ Left' >= 3
  BY LeftSteps
<1>2. Left \in Nat /\ Left' \in Nat
  BY TypedNext DEF Left, Typed, TypeOK
<1> QED
  BY <1>1, <1>2 DEF Seen

LEMMA SeenExchange ==
  ASSUME ID_LIMIT > 3, ~Lossy, Typed, Ordered, Chain, Exchange, NEW d \in Devices, Seen(d)
  PROVE  Seen(d)'
<1>1. /\ link = "open" /\ sent' /\ UNCHANGED <<link, ring, image, id>>
      /\ Closing' = Closing /\ Left' = Left /\ First' = First
  BY DEF Exchange, user, logic, Closing, Left, First
<1>2. PICK f \in Frames :
        dev'[d] = recv_ethercat(dev[d], f) /\ f.id = image.id /\ f.no = image.no
  BY WholeExchange
<1>3. dev'[d].headerId = image.id
  BY <1>2 DEF recv_ethercat, Execute
<1>4. CASE image.no = 0
  <2>1. First # 0
    <3>1. CASE ring = <<>>
      BY <3>1, SuccDiffers DEF First, Typed, TypeOK
    <3>2. CASE ring # <<>>
      <4>1. 1 \in 1 .. Len(ring)
        BY <3>2 DEF Typed, TypeOK
      <4> QED
        BY <3>2, <4>1 DEF First, Chain
    <3> QED
      BY <3>1, <3>2
  <2>2. dev'[d].headerId = 0
    BY <1>3, <1>4 DEF Chain
  <2> QED
    BY <1>1, <1>4, <2>1, <2>2 DEF Seen
<1>5. CASE image.no # 0
  <2>1. dev'[d].done >= image.no
    <3>1. CASE dev[d].headerId = image.id
      BY <1>1, <1>2, <1>5, <3>1 DEF Seen, recv_ethercat
    <3>2. CASE dev[d].headerId # image.id
      <4>1. dev'[d].done = image.no
        BY <1>2, <1>5, <3>2 DEF recv_ethercat, Execute
      <4> QED
        BY <4>1, Numbers
    <3> QED
      BY <3>1, <3>2
  <2> QED
    BY <1>1, <1>3, <1>5, <2>1 DEF Seen
<1> QED
  BY <1>4, <1>5

LEMMA SeenCopy ==
  ASSUME ID_LIMIT > 3, MaxRestarts = 0, Typed, Ordered, Places, Chain, Copy, NEW d \in Devices, Seen(d)
  PROVE  Seen(d)'
<1>1. /\ link = "open" /\ sent /\ link' = "open" /\ ~sent' /\ UNCHANGED dev
      /\ image'.no # 0 /\ image'.id = First
  BY ChainCopy, AfterCopy DEF Copy
<1>2. Closing' = Closing /\ Left' = Left - 1 /\ Left \in Nat
  <2>1. UNCHANGED <<pc, call, todo>> /\ Len(ring') = Len(ring) - 1
    BY AfterCopy DEF Copy, user
  <2>2. Len(ring) \in Nat /\ Len(todo) \in Nat
    BY DEF Typed, TypeOK
  <2> QED
    BY <2>1, <2>2 DEF Closing, Left
<1>3. CASE image.no = 0
  BY <1>1, <1>2, <1>3 DEF Seen
<1>4. CASE image.no # 0
  <2>1. dev[d].headerId = image.id /\ First = Succ(image.id) /\ image.id \in Ids
    BY <1>1, <1>4 DEF Seen, Chain, Typed, TypeOK, Frames
  <2>2. Succ(image.id) # image.id
    BY <2>1, SuccDiffers
  <2> QED
    BY <1>1, <2>1, <2>2 DEF Seen, Succ
<1> QED
  BY <1>3, <1>4

(* When the link closes, all but the last of three messages were sent.     *)
LEMMA SeenClose ==
  ASSUME ID_LIMIT > 3, Typed, Places, Chain, CloseLink, NEW d \in Devices, Seen(d)
  PROVE  Seen(d)'
<1>1. /\ link = "open" /\ link' = "closed" /\ UNCHANGED <<ring, id, dev>> /\ First' = First
      /\ Closing /\ ring = <<>> /\ todo = <<>>
  BY DEF CloseLink, logic, Closing, Places, First
<1>2. ~(Left >= 3) /\ ~(Left >= 2)
  <2>1. Len(ring) = 0 /\ Len(todo) = 0
    BY <1>1
  <2> QED
    BY <2>1 DEF Left
<1>3. image.no # 0 /\ First = Succ(image.id) /\ image.id \in Ids /\ dev[d].headerId \in Ids
  BY <1>1, <1>2, Numbers DEF Seen, Chain, Typed, TypeOK, Frames, DeviceStates
<1>4. dev[d].headerId = image.id \/ Succ(dev[d].headerId) = image.id
  BY <1>1, <1>2, <1>3 DEF Seen, Typed, TypeOK
<1>5. dev[d].headerId # First
  BY <1>3, <1>4, SuccDiffers
<1> QED
  BY <1>1, <1>5 DEF Seen

LEMMA InTurnNext ==
  ASSUME ID_LIMIT > 3, ~Lossy, MaxRestarts = 0
  PROVE  Typed /\ Ordered /\ InTurn /\ [Next]_vars => InTurn'
<1> SUFFICES ASSUME Typed, Ordered, InTurn, [Next]_vars PROVE InTurn'
  OBVIOUS
<1>1. Places /\ (link # "lost" => Chain) /\ \A d \in Devices : Seen(d)
  BY DEF InTurn
<1>2. Places' /\ (link' # "lost" => Chain')
  BY <1>1, PlacesNext, ChainNext
<1>3. ASSUME NEW d \in Devices PROVE Seen(d)'
  <2>0. Seen(d)
    BY <1>1
  <2>1. CASE Exchange
    BY <1>1, <2>0, <2>1, SeenExchange DEF Exchange
  <2>2. CASE Copy
    BY <1>1, <2>0, <2>2, SeenCopy DEF Copy
  <2>3. CASE CloseLink
    BY <1>1, <2>0, <2>3, SeenClose DEF CloseLink
  <2>4. CASE Open
    <3>1. /\ link = "closed" /\ link' = "open" /\ image'.no = 0 /\ ~Closing'
          /\ UNCHANGED dev /\ First' = First
      BY <1>1, <2>4 DEF Open, Places, Closing, First, ZeroFrame, Frame
    <3> QED
      BY <2>0, <3>1 DEF Seen
  <2>5. CASE SendMessage
    <3>1. link # "lost" => First' = First
      BY <1>1, <2>5, ChainSend
    <3> QED
      BY <1>1, <2>0, <2>5, <3>1, SeenRests DEF SendMessage, Copy, bus, logic
  <2>6. CASE SendThrows \/ Read \/ ReadThrows \/ IsProcessed \/ NotProcessed \/ AwaitRoom \/ UNCHANGED vars
    <3>1. UNCHANGED <<link, image, sent, dev, ring>> /\ (link # "lost" => UNCHANGED id)
      BY <2>6 DEF SendThrows, Read, ReadThrows, IsProcessed, NotProcessed, AwaitRoom, vars, bus, logic
    <3>2. ~Copy
      BY <3>1 DEF Copy
    <3> QED
      BY <1>1, <2>0, <3>1, <3>2, SeenRests DEF First
  <2>7. CASE \E c \in Calls : Begin(c)
    <3>1. UNCHANGED <<link, image, sent, dev, ring, id>>
      BY <2>7 DEF Begin, bus, logic
    <3>2. ~Copy
      BY <3>1 DEF Copy
    <3> QED
      BY <1>1, <2>0, <3>1, <3>2, SeenRests DEF First
  <2>8. CASE Lose
    BY <2>8 DEF Lose, Seen
  <2>9. ~Crash
    BY ControllerAssumption DEF Crash, Typed, TypeOK
  <2> QED
    BY <2>1, <2>2, <2>3, <2>4, <2>5, <2>6, <2>7, <2>8, <2>9 DEF Next, User
<1> QED
  BY <1>2, <1>3 DEF InTurn

LEMMA InTurnInit == ASSUME ID_LIMIT > 3 PROVE Init => InTurn
<1> SUFFICES ASSUME Init PROVE InTurn
  OBVIOUS
<1>1. First = 1 /\ Len(ring) = 0 /\ image.no = 0 /\ image.id = 0
  BY DEF Init, First, Succ, ZeroFrame, Frame
<1>2. \A d \in Devices : dev[d].headerId = 0
  BY DEF Init, PowerOn
<1> QED
  BY <1>1, <1>2 DEF Init, InTurn, Places, Chain, Seen

(* Over a link that loses nothing every message an exchange has carried to *)
(* the devices is executed, however ids wrap, calls fail and links are     *)
(* closed and opened: no message has the id of the one before.  A client   *)
(* that is started again violates it, as Controller_restarted.cfg shows.   *)
THEOREM NothingIsIgnored ==
  ASSUME ID_LIMIT > 3, ~Lossy, MaxRestarts = 0
  PROVE  Spec => []SentIsExecuted
<1>1. Typed /\ InTurn => SentIsExecuted
  <2> SUFFICES ASSUME Typed, InTurn, link = "open", sent, NEW d \in Devices
               PROVE  dev[d].done >= image.no
    BY DEF SentIsExecuted
  <2>1. Seen(d)
    BY DEF InTurn
  <2> QED
    BY <2>1, Numbers DEF Seen
<1>2. Init => InTurn
  BY InTurnInit
<1>3. Typed /\ Ordered /\ InTurn /\ [Next]_vars => InTurn'
  BY InTurnNext
<1> QED
  BY <1>1, <1>2, <1>3, TypedInit, TypedNext, OrderedInit, OrderedNext, PTL DEF Spec
-----------------------------------------------------------------------------
(* Both halves of a gain.                                                  *)

(* What devices have still to execute, and where the call under way is.    *)
Pending == IF sent THEN ring ELSE <<image>> \o ring
ExpectsPhase == todo # <<>> /\ Head(todo) = "WRITE_PHASE"
NewGain == todo # <<>> /\ Head(todo) = "WRITE_DUTY"
GainSent == IF NewGain THEN gain - 1 ELSE gain

(* The duties of a gain are followed by its phases, in the queue or as     *)
(* what the call sends next, and phases follow nothing else.               *)
Paired(q, expected, g) ==
  /\ \A k \in 1 .. Len(q) : q[k].cmd = "WRITE_DUTY" =>
       \/ /\ k < Len(q) /\ q[k + 1].cmd = "WRITE_PHASE"
          /\ q[k + 1].body.gain = q[k].body.gain
       \/ k = Len(q) /\ expected /\ q[k].body.gain = g
  /\ \A k \in 1 .. Len(q) - 1 : q[k + 1].cmd = "WRITE_PHASE" => q[k].cmd = "WRITE_DUTY"
  /\ expected /\ Len(q) > 0 => q[Len(q)].cmd = "WRITE_DUTY"

(* After other duties there are those of the newest gain.                  *)
Carries(f, g) == f.cmd = "WRITE_DUTY" /\ f.body.gain = g
Newest(q, g) ==
  \A k \in 1 .. Len(q) : q[k].cmd = "WRITE_DUTY" =>
    q[k].body.gain = g \/ \E j \in k + 1 .. Len(q) : Carries(q[j], g)

(* A device has both halves of a gain, or the other half comes next.       *)
Balanced(fpga, q, expected) ==
  /\ fpga["duty"].gain = fpga["phase"].gain
  /\ Len(q) > 0 => q[1].cmd # "WRITE_PHASE"
  /\ expected => Len(q) > 0
Half(fpga, q, expected, g) ==
  \/ Len(q) > 0 /\ q[1].cmd = "WRITE_PHASE" /\ q[1].body.gain = fpga["duty"].gain
  \/ ~(Len(q) > 0) /\ expected /\ fpga["duty"].gain = g
UpToDate(fpga, q, g) == fpga["duty"].gain \in {0, g} \/ \E j \in 1 .. Len(q) : Carries(q[j], g)
Holds(fpga, q, expected, g, newest) ==
  (Balanced(fpga, q, expected) \/ Half(fpga, q, expected, g)) /\ UpToDate(fpga, q, newest)

(* The queue grows at one end and shrinks at the other.                    *)
Grown(q, r, f) ==
  /\ Len(q) \in Nat /\ Len(r) = Len(q) + 1
  /\ \A k \in 1 .. Len(q) : r[k] = q[k]
  /\ r[Len(q) + 1] = f

Shrunk(q, r, f) ==
  /\ Len(r) \in Nat /\ Len(q) = Len(r) + 1 /\ q[1] = f
  /\ \A k \in 1 .. Len(r) : r[k] = q[k + 1]

(* The head of a queue decides how it finds a device; what is carried in a *)
(* queue is carried in a longer one.                                       *)
LEMMA HeadDecides ==
  ASSUME NEW q, NEW r, NEW f, Grown(q, r, f), Len(q) > 0, NEW fpga, NEW g
  PROVE  /\ Balanced(fpga, q, FALSE) => Balanced(fpga, r, TRUE) /\ Balanced(fpga, r, FALSE)
         /\ Half(fpga, q, FALSE, g) => Half(fpga, r, TRUE, g) /\ Half(fpga, r, FALSE, g)
<1>1. Len(r) > 0 /\ r[1] = q[1]
  BY DEF Grown
<1> QED
  BY <1>1 DEF Balanced, Half

LEMMA NewestKept ==
  ASSUME NEW q, NEW r, NEW f, Grown(q, r, f), f.cmd # "WRITE_DUTY", NEW n, Newest(q, n)
  PROVE  Newest(r, n)
<1> SUFFICES ASSUME NEW k \in 1 .. Len(r), r[k].cmd = "WRITE_DUTY", r[k].body.gain # n
             PROVE  \E j \in k + 1 .. Len(r) : Carries(r[j], n)
  BY DEF Newest
<1>1. k \in 1 .. Len(q) /\ r[k] = q[k]
  BY DEF Grown
<1>2. PICK j \in k + 1 .. Len(q) : Carries(q[j], n)
  BY <1>1 DEF Newest
<1>3. j \in k + 1 .. Len(r) /\ r[j] = q[j]
  BY <1>1, <1>2 DEF Grown
<1> QED
  BY <1>2, <1>3

LEMMA UpToDateKept ==
  ASSUME NEW q, NEW r, NEW f, Grown(q, r, f), NEW fpga, NEW n, UpToDate(fpga, q, n)
  PROVE  UpToDate(fpga, r, n)
<1>1. CASE fpga["duty"].gain \in {0, n}
  BY <1>1 DEF UpToDate
<1>2. ASSUME NEW j \in 1 .. Len(q), Carries(q[j], n) PROVE UpToDate(fpga, r, n)
  <2>1. j \in 1 .. Len(r) /\ r[j] = q[j]
    BY DEF Grown
  <2> QED
    BY <1>2, <2>1 DEF UpToDate
<1> QED
  BY <1>1, <1>2 DEF UpToDate

LEMMA GrownByDuty ==
  ASSUME NEW q, NEW r, NEW f, Grown(q, r, f), f.cmd = "WRITE_DUTY",
         NEW g, Paired(q, FALSE, g), f.body.gain = g
  PROVE  /\ Paired(r, TRUE, g) /\ Newest(r, g)
         /\ \A fpga, old : Holds(fpga, q, FALSE, g, old) => Holds(fpga, r, TRUE, g, g)
<1>1. Len(q) \in Nat /\ Len(r) = Len(q) + 1 /\ r[Len(r)] = f /\ \A k \in 1 .. Len(q) : r[k] = q[k]
  BY DEF Grown
<1>2. \A k \in 1 .. Len(r) : k = Len(r) \/ k \in 1 .. Len(q)
  BY <1>1
<1>3. Paired(r, TRUE, g)
  <2>1. ASSUME NEW k \in 1 .. Len(r), r[k].cmd = "WRITE_DUTY"
        PROVE  \/ /\ k < Len(r) /\ r[k + 1].cmd = "WRITE_PHASE"
                  /\ r[k + 1].body.gain = r[k].body.gain
               \/ k = Len(r) /\ r[k].body.gain = g
    <3>1. CASE k = Len(r)
      BY <1>1, <3>1
    <3>2. CASE k \in 1 .. Len(q)
      <4>1. /\ k < Len(q) /\ q[k + 1].cmd = "WRITE_PHASE"
            /\ q[k + 1].body.gain = q[k].body.gain
        BY <1>1, <2>1, <3>2 DEF Paired
      <4>2. k + 1 \in 1 .. Len(q) /\ k < Len(r)
        BY <1>1, <3>2, <4>1
      <4> QED
        BY <1>1, <3>2, <4>1, <4>2
    <3> QED
      BY <1>2, <3>1, <3>2
  <2>2. ASSUME NEW k \in 1 .. Len(r) - 1, r[k + 1].cmd = "WRITE_PHASE" PROVE r[k].cmd = "WRITE_DUTY"
    <3>1. k + 1 # Len(r)
      BY <1>1, <2>2
    <3>2. k \in 1 .. Len(q) - 1 /\ k \in 1 .. Len(q) /\ k + 1 \in 1 .. Len(q)
      BY <1>1, <3>1
    <3> QED
      BY <1>1, <2>2, <3>2 DEF Paired
  <2> QED
    BY <1>1, <2>1, <2>2 DEF Paired
<1>4. Len(r) \in 1 .. Len(r) /\ Len(r) > 0 /\ Carries(r[Len(r)], g)
  BY <1>1 DEF Carries
<1>5. Newest(r, g)
  <2> SUFFICES ASSUME NEW k \in 1 .. Len(r)
               PROVE  r[k].body.gain = g \/ \E j \in k + 1 .. Len(r) : Carries(r[j], g)
    BY DEF Newest
  <2>1. k = Len(r) \/ Len(r) \in k + 1 .. Len(r)
    BY <1>1
  <2> QED
    BY <1>1, <1>4, <2>1
<1>6. ASSUME NEW fpga, NEW old, Holds(fpga, q, FALSE, g, old) PROVE Holds(fpga, r, TRUE, g, g)
  <2>1. UpToDate(fpga, r, g)
    BY <1>4 DEF UpToDate
  <2>2. CASE Len(q) = 0
    <3>1. ~Half(fpga, q, FALSE, g) /\ fpga["duty"].gain = fpga["phase"].gain
      BY <1>6, <2>2 DEF Holds, Half, Balanced
    <3>2. r[1] = f /\ Len(r) > 0
      BY <1>1, <2>2
    <3>3. Balanced(fpga, r, TRUE)
      BY <3>1, <3>2 DEF Balanced
    <3> QED
      BY <2>1, <3>3 DEF Holds
  <2>3. CASE Len(q) > 0
    <3>1. /\ Balanced(fpga, q, FALSE) => Balanced(fpga, r, TRUE)
          /\ Half(fpga, q, FALSE, g) => Half(fpga, r, TRUE, g)
      BY <2>3, HeadDecides
    <3> QED
      BY <1>6, <2>1, <3>1 DEF Holds
  <2>4. Len(q) = 0 \/ Len(q) > 0
    BY <1>1
  <2> QED
    BY <2>2, <2>3, <2>4, Zenon
<1> QED
  BY <1>3, <1>5, <1>6

LEMMA PairedByPhase ==
  ASSUME NEW q, NEW r, NEW f, Grown(q, r, f), f.cmd = "WRITE_PHASE",
         NEW g, NEW e \in BOOLEAN, e, Paired(q, e, g), f.body.gain = g
  PROVE  Paired(r, FALSE, g)
<1>1. Len(q) \in Nat /\ Len(r) = Len(q) + 1 /\ r[Len(r)] = f /\ \A k \in 1 .. Len(q) : r[k] = q[k]
  BY DEF Grown
<1>2. \A k \in 1 .. Len(r) : k = Len(r) \/ k \in 1 .. Len(q)
  BY <1>1
<1>3. ASSUME NEW k \in 1 .. Len(r), r[k].cmd = "WRITE_DUTY"
      PROVE  /\ k < Len(r) /\ r[k + 1].cmd = "WRITE_PHASE"
             /\ r[k + 1].body.gain = r[k].body.gain
  <2>1. k # Len(r)
    BY <1>1, <1>3
  <2>2. k \in 1 .. Len(q) /\ r[k] = q[k]
    BY <1>1, <1>2, <2>1
  <2>3. CASE k = Len(q)
    <3>1. q[k].body.gain = g
      BY <1>3, <2>2, <2>3 DEF Paired
    <3>2. k + 1 = Len(r)
      BY <1>1, <2>3
    <3> QED
      BY <1>1, <2>2, <2>3, <3>1, <3>2
  <2>4. CASE k # Len(q)
    <3>1. k + 1 \in 1 .. Len(q) /\ k < Len(r)
      BY <1>1, <2>2, <2>4
    <3>2. q[k + 1].cmd = "WRITE_PHASE" /\ q[k + 1].body.gain = q[k].body.gain
      BY <1>3, <2>2, <2>4 DEF Paired
    <3> QED
      BY <1>1, <2>2, <3>1, <3>2
  <2> QED
    BY <2>3, <2>4
<1>4. ASSUME NEW k \in 1 .. Len(r) - 1, r[k + 1].cmd = "WRITE_PHASE" PROVE r[k].cmd = "WRITE_DUTY"
  <2>1. k \in 1 .. Len(q) /\ r[k] = q[k]
    BY <1>1
  <2>2. CASE k = Len(q)
    BY <1>1, <2>1, <2>2 DEF Paired
  <2>3. CASE k # Len(q)
    <3>1. k \in 1 .. Len(q) - 1 /\ k + 1 \in 1 .. Len(q)
      BY <1>1, <2>1, <2>3
    <3> QED
      BY <1>1, <1>4, <2>1, <3>1 DEF Paired
  <2> QED
    BY <2>2, <2>3
<1> QED
  BY <1>3, <1>4 DEF Paired

LEMMA HoldsByPhase ==
  ASSUME NEW q, NEW r, NEW f, Grown(q, r, f), f.cmd = "WRITE_PHASE",
         NEW g, NEW e \in BOOLEAN, e, f.body.gain = g,
         NEW fpga, NEW n, Holds(fpga, q, e, g, n)
  PROVE  Holds(fpga, r, FALSE, g, n)
<1>1. Len(q) \in Nat /\ Len(r) = Len(q) + 1 /\ r[Len(r)] = f /\ \A k \in 1 .. Len(q) : r[k] = q[k]
  BY DEF Grown
<1>2. UpToDate(fpga, r, n)
  BY UpToDateKept DEF Holds
<1>3. CASE Len(q) = 0
  BY <1>1, <1>2, <1>3 DEF Holds, Balanced, Half
<1>4. CASE Len(q) > 0
  <2>1. /\ Balanced(fpga, q, e) => Balanced(fpga, r, FALSE)
        /\ Half(fpga, q, e, g) => Half(fpga, r, FALSE, g)
    BY <1>1, <1>4 DEF Balanced, Half
  <2> QED
    BY <1>2, <2>1 DEF Holds
<1>5. Len(q) = 0 \/ Len(q) > 0
  BY <1>1
<1> QED
  BY <1>3, <1>4, <1>5, Zenon

LEMMA GrownByOther ==
  ASSUME NEW q, NEW r, NEW f, Grown(q, r, f), f.cmd \notin {"WRITE_DUTY", "WRITE_PHASE"},
         NEW g, Paired(q, FALSE, g)
  PROVE  /\ Paired(r, FALSE, g)
         /\ \A n : Newest(q, n) => Newest(r, n)
         /\ \A fpga, n : Holds(fpga, q, FALSE, g, n) => Holds(fpga, r, FALSE, g, n)
<1>1. Len(q) \in Nat /\ Len(r) = Len(q) + 1 /\ r[Len(r)] = f /\ \A k \in 1 .. Len(q) : r[k] = q[k]
  BY DEF Grown
<1>2. \A k \in 1 .. Len(r) : k = Len(r) \/ k \in 1 .. Len(q)
  BY <1>1
<1>3. Paired(r, FALSE, g)
  <2>1. ASSUME NEW k \in 1 .. Len(r), r[k].cmd = "WRITE_DUTY"
        PROVE  /\ k < Len(r) /\ r[k + 1].cmd = "WRITE_PHASE"
               /\ r[k + 1].body.gain = r[k].body.gain
    <3>1. k \in 1 .. Len(q) /\ r[k] = q[k]
      BY <1>1, <1>2, <2>1
    <3>2. k < Len(q) /\ q[k + 1].cmd = "WRITE_PHASE" /\ q[k + 1].body.gain = q[k].body.gain
      BY <2>1, <3>1 DEF Paired
    <3>3. k + 1 \in 1 .. Len(q) /\ k < Len(r)
      BY <1>1, <3>1, <3>2
    <3> QED
      BY <1>1, <3>1, <3>2, <3>3
  <2>2. ASSUME NEW k \in 1 .. Len(r) - 1, r[k + 1].cmd = "WRITE_PHASE" PROVE r[k].cmd = "WRITE_DUTY"
    <3>1. k + 1 # Len(r)
      BY <1>1, <2>2
    <3>2. k \in 1 .. Len(q) - 1 /\ k \in 1 .. Len(q) /\ k + 1 \in 1 .. Len(q)
      BY <1>1, <3>1
    <3> QED
      BY <1>1, <2>2, <3>2 DEF Paired
  <2> QED
    BY <2>1, <2>2 DEF Paired
<1>4. ASSUME NEW n, Newest(q, n) PROVE Newest(r, n)
  BY <1>1, <1>4, NewestKept
<1>5. ASSUME NEW fpga, NEW n, Holds(fpga, q, FALSE, g, n) PROVE Holds(fpga, r, FALSE, g, n)
  <2>1. UpToDate(fpga, r, n)
    BY <1>5, UpToDateKept DEF Holds
  <2>2. CASE Len(q) = 0
    BY <1>1, <1>5, <2>1, <2>2 DEF Holds, Balanced, Half
  <2>3. CASE Len(q) > 0
    <3>1. /\ Balanced(fpga, q, FALSE) => Balanced(fpga, r, FALSE)
          /\ Half(fpga, q, FALSE, g) => Half(fpga, r, FALSE, g)
      BY <2>3, HeadDecides
    <3> QED
      BY <1>5, <2>1, <3>1 DEF Holds
  <2>4. Len(q) = 0 \/ Len(q) > 0
    BY <1>1
  <2> QED
    BY <2>2, <2>3, <2>4, Zenon
<1> QED
  BY <1>3, <1>4, <1>5

(* A device takes the head of the queue.                                   *)
LEMMA PairedRest ==
  ASSUME NEW q, NEW r, NEW f, Shrunk(q, r, f), NEW e \in BOOLEAN, NEW g, Paired(q, e, g)
  PROVE  Paired(r, e, g)
<1>1. Len(r) \in Nat /\ Len(q) = Len(r) + 1
  BY DEF Shrunk
<1>2. \A k \in 1 .. Len(r) : r[k] = q[k + 1] /\ k + 1 \in 1 .. Len(q)
  BY DEF Shrunk
<1>3. ASSUME NEW k \in 1 .. Len(r), r[k].cmd = "WRITE_DUTY"
      PROVE  \/ /\ k < Len(r) /\ r[k + 1].cmd = "WRITE_PHASE"
                /\ r[k + 1].body.gain = r[k].body.gain
             \/ k = Len(r) /\ e /\ r[k].body.gain = g
  <2>1. CASE k + 1 = Len(q)
    <3>1. e /\ q[k + 1].body.gain = g
      BY <1>1, <1>2, <1>3, <2>1 DEF Paired
    <3> QED
      BY <1>1, <1>2, <2>1, <3>1
  <2>2. CASE k + 1 # Len(q)
    <3>1. /\ q[k + 1 + 1].cmd = "WRITE_PHASE"
          /\ q[k + 1 + 1].body.gain = q[k + 1].body.gain
      BY <1>1, <1>2, <1>3, <2>2 DEF Paired
    <3>2. k < Len(r) /\ k + 1 \in 1 .. Len(r)
      BY <1>1, <2>2
    <3> QED
      BY <1>2, <3>1, <3>2
  <2> QED
    BY <2>1, <2>2
<1>4. ASSUME NEW k \in 1 .. Len(r) - 1, r[k + 1].cmd = "WRITE_PHASE" PROVE r[k].cmd = "WRITE_DUTY"
  <2>1. k \in 1 .. Len(r) /\ k + 1 \in 1 .. Len(r) /\ k + 1 \in 1 .. Len(q) - 1
    BY <1>1
  <2> QED
    BY <1>2, <1>4, <2>1 DEF Paired
<1>5. e /\ Len(r) > 0 => r[Len(r)].cmd = "WRITE_DUTY"
  <2>1. Len(r) > 0 => Len(r) \in 1 .. Len(r)
    BY <1>1
  <2> QED
    BY <1>1, <1>2, <2>1 DEF Paired
<1> QED
  BY <1>3, <1>4, <1>5 DEF Paired

LEMMA NewestRest ==
  ASSUME NEW q, NEW r, NEW f, Shrunk(q, r, f), NEW n, Newest(q, n)
  PROVE  Newest(r, n)
<1> SUFFICES ASSUME NEW k \in 1 .. Len(r), r[k].cmd = "WRITE_DUTY", r[k].body.gain # n
             PROVE  \E j \in k + 1 .. Len(r) : Carries(r[j], n)
  BY DEF Newest
<1>1. k + 1 \in 1 .. Len(q) /\ r[k] = q[k + 1]
  BY DEF Shrunk
<1>2. PICK j \in k + 1 + 1 .. Len(q) : Carries(q[j], n)
  BY <1>1 DEF Newest
<1>3. j - 1 \in k + 1 .. Len(r) /\ j - 1 \in 1 .. Len(r) /\ j - 1 + 1 = j
  BY <1>1, <1>2 DEF Shrunk
<1>4. r[j - 1] = q[j]
  BY <1>3 DEF Shrunk
<1> QED
  BY <1>2, <1>3, <1>4

(* What is carried in the queue is its head or in the rest.                *)
LEMMA UpToDateRest ==
  ASSUME NEW q, NEW r, NEW f, Shrunk(q, r, f), NEW n, NEW fpga, NEW new,
         Newest(q, n), UpToDate(fpga, q, n),
         \/ f.cmd = "WRITE_DUTY" /\ new["duty"].gain = f.body.gain
         \/ f.cmd # "WRITE_DUTY" /\ new["duty"].gain \in {0, fpga["duty"].gain}
  PROVE  UpToDate(new, r, n)
<1>0. Len(q) = Len(r) + 1 /\ Len(r) \in Nat /\ q[1] = f
  BY DEF Shrunk
<1>1. ASSUME NEW j \in 2 .. Len(q), Carries(q[j], n) PROVE UpToDate(new, r, n)
  <2>1. j - 1 \in 1 .. Len(r) /\ j - 1 + 1 = j
    BY <1>0
  <2>2. r[j - 1] = q[j]
    BY <2>1 DEF Shrunk
  <2> QED
    BY <1>1, <2>1, <2>2 DEF UpToDate
<1>2. CASE f.cmd = "WRITE_DUTY" /\ new["duty"].gain = f.body.gain
  <2>1. 1 \in 1 .. Len(q) /\ 1 + 1 = 2
    BY <1>0
  <2>2. q[1].body.gain = n \/ \E j \in 2 .. Len(q) : Carries(q[j], n)
    BY <1>0, <1>2, <2>1 DEF Newest
  <2> QED
    BY <1>0, <1>1, <1>2, <2>2 DEF UpToDate
<1>3. CASE f.cmd # "WRITE_DUTY" /\ new["duty"].gain \in {0, fpga["duty"].gain}
  <2>1. CASE fpga["duty"].gain \in {0, n}
    BY <1>3, <2>1 DEF UpToDate
  <2>2. ASSUME NEW j \in 1 .. Len(q), Carries(q[j], n) PROVE UpToDate(new, r, n)
    <3>1. j # 1
      BY <1>0, <1>3, <2>2 DEF Carries
    <3>2. j \in 2 .. Len(q)
      BY <1>0, <3>1
    <3> QED
      BY <1>1, <2>2, <3>2
  <2> QED
    BY <2>1, <2>2 DEF UpToDate
<1> QED
  BY <1>2, <1>3

LEMMA HoldsRest ==
  ASSUME NEW q, NEW r, NEW f \in Frames, Shrunk(q, r, f), NEW e \in BOOLEAN, NEW g, NEW n,
         Paired(q, e, g), Newest(q, n), NEW fpga \in Contents, Holds(fpga, q, e, g, n)
  PROVE  Holds(Executed(fpga, f), r, e, g, n)
<1> DEFINE new == Executed(fpga, f)
<1>0. Len(q) = Len(r) + 1 /\ Len(r) \in Nat /\ q[1] = f /\ Len(q) > 0
  BY DEF Shrunk
<1>1. Len(r) > 0 => 1 \in 1 .. Len(r) /\ r[1] = q[2] /\ 1 \in 1 .. Len(q) - 1 /\ 1 + 1 = 2
  BY <1>0 DEF Shrunk
<1>2. f.cmd # "WRITE_DUTY" =>
        /\ Len(r) > 0 => r[1].cmd # "WRITE_PHASE"
        /\ e => Len(r) > 0
  <2>1. SUFFICES ASSUME f.cmd # "WRITE_DUTY"
                 PROVE  (Len(r) > 0 => r[1].cmd # "WRITE_PHASE") /\ (e => Len(r) > 0)
    OBVIOUS
  <2>2. Len(r) > 0 => r[1].cmd # "WRITE_PHASE"
    BY <1>0, <1>1, <2>1 DEF Paired
  <2>3. ~(Len(r) > 0) => Len(q) = 1
    BY <1>0
  <2>4. e => Len(r) > 0
    BY <1>0, <2>1, <2>3 DEF Paired
  <2> QED
    BY <2>2, <2>4
<1>3. CASE f.cmd = "WRITE_DUTY"
  <2>1. new["duty"] = f.body
    BY <1>3 DEF Executed, Contents, Memories
  <2>2. UpToDate(new, r, n)
    BY <1>3, <2>1, UpToDateRest DEF Holds
  <2>3. Half(new, r, e, g)
    <3>1. CASE Len(r) > 0
      <4>1. r[1].cmd = "WRITE_PHASE" /\ r[1].body.gain = f.body.gain
        BY <1>0, <1>1, <1>3, <3>1 DEF Paired
      <4> QED
        BY <2>1, <3>1, <4>1 DEF Half
    <3>2. CASE ~(Len(r) > 0)
      <4>1. Len(q) = 1
        BY <1>0, <3>2
      <4>2. e /\ f.body.gain = g
        <5>1. 1 \in 1 .. Len(q) /\ ~(1 < Len(q))
          BY <4>1
        <5>2. q[1] = f
          BY <1>0
        <5>3. q[1].cmd = "WRITE_DUTY"
          BY <1>3, <5>2, Zenon
        <5> QED
          BY <5>1, <5>2, <5>3 DEF Paired
      <4> QED
        BY <2>1, <3>2, <4>2 DEF Half
    <3> QED
      BY <3>1, <3>2
  <2> QED
    BY <2>2, <2>3 DEF Holds
<1>4. CASE f.cmd = "WRITE_PHASE"
  <2>1. new["duty"] = fpga["duty"] /\ new["phase"] = f.body
    BY <1>4 DEF Executed, Contents, Memories
  <2>2. UpToDate(new, r, n)
    BY <1>4, <2>1, UpToDateRest DEF Holds
  <2>3. f.body.gain = fpga["duty"].gain
    BY <1>0, <1>4 DEF Holds, Balanced, Half
  <2>4. Balanced(new, r, e)
    BY <1>2, <1>4, <2>1, <2>3 DEF Balanced
  <2> QED
    BY <2>2, <2>4 DEF Holds
<1>5. CASE f.cmd \notin {"WRITE_DUTY", "WRITE_PHASE"}
  <2>1. \/ new["duty"] = fpga["duty"] /\ new["phase"] = fpga["phase"]
        \/ new["duty"].gain = 0 /\ new["phase"].gain = 0
    <3>1. CASE f.cmd = "CLEAR"
      BY <3>1 DEF Executed, Cleared, Zeroed, Memories
    <3>2. CASE f.cmd = "ULTRASOUND_CYCLE_CNT"
      BY <3>2 DEF Executed, Contents, Memories
    <3>3. CASE f.cmd \notin {"CLEAR", "ULTRASOUND_CYCLE_CNT"}
      BY <1>5, <3>3 DEF Executed
    <3> QED
      BY <3>1, <3>2, <3>3
  <2>2. UpToDate(new, r, n)
    BY <1>5, <2>1, UpToDateRest DEF Holds
  <2>3. fpga["duty"].gain = fpga["phase"].gain
    BY <1>0, <1>5 DEF Holds, Balanced, Half
  <2>4. Balanced(new, r, e)
    BY <1>2, <1>5, <2>1, <2>3 DEF Balanced
  <2> QED
    BY <2>2, <2>4 DEF Holds
<1> QED
  BY <1>3, <1>4, <1>5

(* The calls that send a gain send both halves of it, one after the other; *)
(* the others send none.                                                   *)
GainHalves == {"WRITE_DUTY", "WRITE_PHASE"}
Shape ==
  /\ pc \in {"idle", "closing"} => todo = <<>>
  /\ call = "send" => todo \in {<<"WRITE_DUTY", "WRITE_PHASE">>, <<"WRITE_PHASE">>, <<>>}
  /\ call = "close" => todo \in {<<"WRITE_DUTY", "WRITE_PHASE", "CLEAR">>,
                                 <<"WRITE_PHASE", "CLEAR">>, <<"CLEAR">>, <<>>}
  /\ call \notin {"send", "close"} => \A k \in 1 .. Len(todo) : todo[k] \notin GainHalves
  /\ call # "send_null"

LEMMA ShapeBegin ==
  ASSUME Typed, "send_null" \notin Calls, NEW c \in Calls, Begin(c)
  PROVE  Shape'
<1>1. pc' = "send" /\ call' = c /\ todo' = Scripts[c] /\ c # "send_null"
  BY DEF Begin
<1>2. c \in {"send", "set_frequency", "clear", "firmware_info_list", "close"}
  BY <1>1, ControllerAssumption DEF Scripts
<1>3. CASE c = "send"
  BY <1>1, <1>3 DEF Shape, Scripts
<1>4. CASE c = "close"
  BY <1>1, <1>4 DEF Shape, Scripts
<1>5. CASE c \in {"set_frequency", "clear"}
  <2>1. todo' = <<"ULTRASOUND_CYCLE_CNT">> \/ todo' = <<"CLEAR">>
    BY <1>1, <1>5 DEF Scripts
  <2>2. \A k \in 1 .. Len(todo') : todo'[k] \notin GainHalves
    BY <2>1 DEF GainHalves
  <2> QED
    BY <1>1, <1>5, <2>2 DEF Shape
<1>6. CASE c = "firmware_info_list"
  <2>1. todo' = <<"READ_CPU_VER_LSB", "READ_CPU_VER_MSB", "READ_FPGA_VER_LSB", "READ_FPGA_VER_MSB">>
    BY <1>1, <1>6 DEF Scripts
  <2>2. \A k \in 1 .. Len(todo') : todo'[k] \notin GainHalves
    <3> TAKE k \in 1 .. Len(todo')
    <3>1. k = 1 \/ k = 2 \/ k = 3 \/ k = 4
      BY <2>1
    <3> QED
      BY <2>1, <3>1 DEF GainHalves
  <2> QED
    BY <1>1, <1>6, <2>2 DEF Shape
<1> QED
  BY <1>2, <1>3, <1>4, <1>5, <1>6

(* What may come next in a call that sends a gain.                         *)
LEMMA ShapeSteps ==
  ASSUME Typed, Shape, todo # <<>>, NEW rest, rest = Tail(todo)
  PROVE  /\ Head(todo) = "WRITE_DUTY" => rest # <<>> /\ Head(rest) = "WRITE_PHASE"
         /\ Head(todo) # "WRITE_DUTY" => rest = <<>> \/ Head(rest) \notin GainHalves
         /\ call = "send" => rest \in {<<"WRITE_PHASE">>, <<>>}
         /\ call = "close" => rest \in {<<"WRITE_PHASE", "CLEAR">>, <<"CLEAR">>, <<>>}
         /\ call = "close" /\ rest = <<>> => Head(todo) = "CLEAR"
         /\ call \notin {"send", "close"} => \A k \in 1 .. Len(rest) : rest[k] \notin GainHalves
<1>1. CASE call = "send"
  <2>1. CASE todo = <<"WRITE_DUTY", "WRITE_PHASE">>
    <3>1. Head(todo) = "WRITE_DUTY" /\ rest = <<"WRITE_PHASE">>
      BY <2>1
    <3>2. rest # <<>> /\ Head(rest) = "WRITE_PHASE"
      <4>1. <<"WRITE_PHASE">> # <<>> /\ Head(<<"WRITE_PHASE">>) = "WRITE_PHASE"
        OBVIOUS
      <4> QED
        BY <3>1, <4>1, Zenon
    <3> QED
      BY <1>1, <3>1, <3>2, Zenon
  <2>2. CASE todo = <<"WRITE_PHASE">>
    <3>1. Head(todo) = "WRITE_PHASE" /\ rest = <<>>
      BY <2>2
    <3> QED
      BY <1>1, <3>1
  <2> QED
    BY <1>1, <2>1, <2>2 DEF Shape
<1>2. CASE call = "close"
  <2>1. CASE todo = <<"WRITE_DUTY", "WRITE_PHASE", "CLEAR">>
    <3>1. Head(todo) = "WRITE_DUTY" /\ rest = <<"WRITE_PHASE", "CLEAR">>
      BY <2>1
    <3>2. rest # <<>> /\ Head(rest) = "WRITE_PHASE"
      BY <3>1
    <3> QED
      BY <1>2, <3>1, <3>2, Zenon
  <2>2. CASE todo = <<"WRITE_PHASE", "CLEAR">>
    <3>1. Head(todo) = "WRITE_PHASE" /\ rest = <<"CLEAR">>
      BY <2>2
    <3>2. rest # <<>> /\ Head(rest) \notin GainHalves
      BY <3>1 DEF GainHalves
    <3> QED
      BY <1>2, <3>1, <3>2, Zenon
  <2>3. CASE todo = <<"CLEAR">>
    <3>1. Head(todo) = "CLEAR" /\ rest = <<>>
      BY <2>3
    <3> QED
      BY <1>2, <3>1
  <2> QED
    BY <1>2, <2>1, <2>2, <2>3 DEF Shape
<1>3. CASE call \notin {"send", "close"}
  <2>1. todo \in Seq(Commands) /\ Len(todo) \in Nat /\ Len(todo) > 0
    BY DEF Typed, TypeOK
  <2>2. Head(todo) = todo[1] /\ 1 \in 1 .. Len(todo) /\ rest \in Seq(Commands)
    BY <2>1
  <2>3. \A k \in 1 .. Len(rest) : rest[k] = todo[k + 1] /\ k + 1 \in 1 .. Len(todo)
    BY <2>1
  <2>4. \A k \in 1 .. Len(rest) : rest[k] \notin GainHalves
    BY <1>3, <2>3 DEF Shape
  <2>5. Head(todo) # "WRITE_DUTY"
    BY <1>3, <2>2 DEF Shape, GainHalves
  <2>6. rest # <<>> => Head(rest) = rest[1] /\ 1 \in 1 .. Len(rest)
    BY <2>2
  <2> QED
    BY <1>3, <2>4, <2>5, <2>6
<1> QED
  BY <1>1, <1>2, <1>3

LEMMA ShapeNext ==
  ASSUME "send_null" \notin Calls
  PROVE  Typed /\ Shape /\ [Next]_vars => Shape'
<1> SUFFICES ASSUME Typed, Shape, [Next]_vars PROVE Shape'
  OBVIOUS
<1>1. CASE \E c \in Calls : Begin(c)
  BY <1>1, ShapeBegin
<1>2. CASE call' = "none" /\ todo' = <<>>
  BY <1>2 DEF Shape
<1>3. CASE todo' = todo /\ call' = call /\ pc' \in {pc, "send", "room", "wait", "judge"}
  BY <1>3 DEF Shape
<1>4. CASE SendMessage
  <2>1. todo # <<>> /\ todo' = Tail(todo)
    BY <1>4 DEF SendMessage, Typed, Bounded
  <2>2. \/ call' = call /\ pc' \in {"send", "wait"}
        \/ call' = "none" /\ todo' = <<>>
    BY <1>4 DEF SendMessage, Continues
  <2>3. CASE call' = call /\ pc' \in {"send", "wait"}
    <3>1. /\ call = "send" => todo' \in {<<"WRITE_PHASE">>, <<>>}
          /\ call = "close" => todo' \in {<<"WRITE_PHASE", "CLEAR">>, <<"CLEAR">>, <<>>}
          /\ call \notin {"send", "close"} => \A k \in 1 .. Len(todo') : todo'[k] \notin GainHalves
      BY <2>1, ShapeSteps
    <3> QED
      BY <2>3, <3>1 DEF Shape
  <2> QED
    BY <1>2, <2>2, <2>3
<1>5. CASE IsProcessed
  <2>1. todo' = todo /\ ((call' = call /\ pc' = "send") \/ (call' = "none" /\ todo = <<>>))
    BY <1>5 DEF IsProcessed, Continues
  <2> QED
    BY <1>2, <1>3, <2>1
<1>6. CASE SendThrows \/ ReadThrows \/ NotProcessed \/ Crash
  BY <1>2, <1>3, <1>6 DEF SendThrows, ReadThrows, NotProcessed, Crash, Fails
<1>7. CASE CloseLink
  BY <1>7 DEF CloseLink, Shape
<1>8. CASE Open \/ AwaitRoom \/ Read \/ Copy \/ Exchange \/ Lose \/ UNCHANGED vars
  BY <1>3, <1>8 DEF Open, AwaitRoom, Read, Copy, Exchange, Lose, vars, user
<1> QED
  BY <1>1, <1>4, <1>5, <1>6, <1>7, <1>8 DEF Next, User

(* close() sends a CLEAR last, so what a closed link has not exchanged is  *)
(* no half of a gain; a zeroed image counts as sent.                       *)
LastCmd == IF ring = <<>> THEN image.cmd ELSE ring[Len(ring)].cmd
Ends ==
  /\ (call = "close" /\ todo = <<>>) \/ pc = "closing" => LastCmd = "CLEAR"
  /\ link = "closed" => image.cmd \in {"CLEAR", "OP"}
  /\ image.no = 0 => image.cmd = "OP" /\ sent

LEMMA LastOfSend == ASSUME Typed, SendMessage PROVE LastCmd' = Head(todo)
<1>1. /\ Len(ring) \in Nat /\ Len(ring') = Len(ring) + 1
      /\ ring'[Len(ring) + 1].cmd = Head(todo)
  BY AfterSend DEF Frame
<1>2. ring' # <<>> /\ ring'[Len(ring')].cmd = Head(todo)
  BY <1>1
<1> QED
  BY <1>2 DEF LastCmd

LEMMA LastOfCopy == ASSUME Typed, Copy PROVE LastCmd' = LastCmd
<1>1. /\ Len(ring) \in Nat /\ Len(ring) > 0 /\ Len(ring') = Len(ring) - 1 /\ image' = ring[1]
      /\ \A k \in 1 .. Len(ring') : ring'[k] = ring[k + 1]
  BY AfterCopy
<1>2. ring # <<>> /\ ring' \in Seq(Frames)
  BY DEF Copy, Typed, TypeOK
<1>3. CASE ring' = <<>>
  <2>1. Len(ring) = 1
    BY <1>1, <1>3
  <2> QED
    BY <1>1, <1>2, <1>3, <2>1 DEF LastCmd
<1>4. CASE ring' # <<>>
  <2>1. Len(ring') > 0
    BY <1>2, <1>4
  <2>2. ring'[Len(ring')] = ring[Len(ring)]
    BY <1>1, <2>1
  <2> QED
    BY <1>2, <1>4, <2>2 DEF LastCmd
<1> QED
  BY <1>3, <1>4

LEMMA EndsRest ==
  ASSUME Ends, UNCHANGED <<image, ring, link>>, sent' = sent \/ sent',
         UNCHANGED <<call, todo, pc>> \/ (call' # "close" /\ pc' # "closing")
  PROVE  Ends'
BY DEF Ends, LastCmd

LEMMA EndsNext ==
  ASSUME MaxRestarts = 0, "send_null" \notin Calls
  PROVE  Typed /\ Ordered /\ Places /\ Shape /\ Ends /\ [Next]_vars => Ends'
<1> SUFFICES ASSUME Typed, Ordered, Places, Shape, Ends, [Next]_vars PROVE Ends'
  OBVIOUS
<1>1. CASE \E c \in Calls : Begin(c)
  <2>1. PICK c \in Calls : Begin(c)
    BY <1>1
  <2>2. call' = c /\ todo' = Scripts[c] /\ pc' = "send" /\ UNCHANGED <<ring, image, link, sent>>
    BY <2>1 DEF Begin, bus
  <2>3. todo' # <<>>
    BY <2>2, ScriptsTyped, ControllerAssumption
  <2> QED
    BY <2>2, <2>3 DEF Ends, LastCmd
<1>2. CASE SendMessage
  <2>1. todo # <<>> /\ todo' = Tail(todo) /\ UNCHANGED <<link, image, sent>> /\ link # "closed"
    BY <1>2, StoresOpen DEF SendMessage, Typed, Bounded, bus
  <2>2. call' = call \/ call' = "none"
    BY <1>2 DEF SendMessage, Continues
  <2>3. pc' = "closing" => call = "close" /\ todo' = <<>>
    BY <1>2 DEF SendMessage, Continues
  <2>4. LastCmd' = Head(todo)
    BY <1>2, LastOfSend
  <2>5. call = "close" /\ todo' = <<>> => Head(todo) = "CLEAR"
    BY <2>1, ShapeSteps
  <2> QED
    BY <2>1, <2>2, <2>3, <2>4, <2>5 DEF Ends
<1>3. CASE Copy
  <2>1. /\ Len(ring) \in Nat /\ Len(ring) > 0 /\ Len(ring') = Len(ring) - 1 /\ image' = ring[1]
        /\ \A k \in 1 .. Len(ring') : ring'[k] = ring[k + 1]
    BY <1>3, AfterCopy
  <2>2. ring # <<>> /\ ring' \in Seq(Frames) /\ link = "open" /\ UNCHANGED <<call, todo, pc, link>>
    BY <1>3 DEF Copy, Typed, TypeOK, user
  <2>3. image'.no # 0
    BY <2>1, Numbers DEF Ordered
  <2>4. LastCmd' = LastCmd
    BY <1>3, LastOfCopy
  <2> QED
    BY <2>2, <2>3, <2>4 DEF Ends
<1>4. CASE Open
  BY <1>4 DEF Open, Places, Ends, ZeroFrame, Frame
<1>5. CASE CloseLink
  BY <1>5 DEF CloseLink, Places, Ends, LastCmd
<1>6. CASE IsProcessed
  <2>1. /\ UNCHANGED <<image, ring, link, sent, todo>>
        /\ call' = call \/ (call' = "none" /\ todo = <<>>)
        /\ pc' = "closing" => call = "close" /\ todo = <<>>
    BY <1>6 DEF IsProcessed, Continues, bus
  <2> QED
    BY <2>1 DEF Ends, LastCmd
<1>7. CASE SendThrows \/ ReadThrows
  BY <1>7, EndsRest DEF SendThrows, ReadThrows, Fails, bus
<1>8. CASE Read \/ NotProcessed \/ AwaitRoom
  <2>1. UNCHANGED <<image, ring, link, sent>> /\ pc' # "closing"
        /\ (UNCHANGED <<call, todo>> \/ call' # "close")
    BY <1>8 DEF Read, NotProcessed, AwaitRoom, Fails, bus
  <2> QED
    BY <2>1 DEF Ends, LastCmd
<1>9. CASE Exchange \/ UNCHANGED vars
  BY <1>9, EndsRest DEF Exchange, vars, user, bus
<1>10. CASE Lose
  BY <1>10 DEF Lose, Ends, LastCmd, user
<1>11. ~Crash
  BY ControllerAssumption DEF Crash, Typed, TypeOK
<1> QED
  BY <1>1, <1>2, <1>3, <1>4, <1>5, <1>6, <1>7, <1>8, <1>9, <1>10, <1>11 DEF Next, User

(* Until a call fails.                                                     *)
Whole ==
  /\ Paired(Pending, ExpectsPhase, gain) /\ Newest(Pending, GainSent)
  /\ \A d \in Devices : Holds(dev[d].fpga, Pending, ExpectsPhase, gain, GainSent)

LEMMA Prefixed ==
  ASSUME NEW S, NEW x \in S, NEW s \in Seq(S)
  PROVE  /\ <<x>> \o s \in Seq(S) /\ Len(<<x>> \o s) = Len(s) + 1 /\ (<<x>> \o s)[1] = x
         /\ \A k \in 1 .. Len(s) : (<<x>> \o s)[k + 1] = s[k]
OBVIOUS

LEMMA WholeRests ==
  ASSUME Whole, Pending' = Pending, ExpectsPhase' = ExpectsPhase, GainSent' = GainSent,
         UNCHANGED dev, gain' = gain \/ ~ExpectsPhase
  PROVE  Whole'
<1>1. CASE gain' = gain
  BY <1>1 DEF Whole
<1>2. CASE ~ExpectsPhase
  <2>1. Paired(Pending, ExpectsPhase, gain')
    BY <1>2 DEF Whole, Paired
  <2>2. \A d \in Devices : Holds(dev[d].fpga, Pending, ExpectsPhase, gain', GainSent)
    BY <1>2 DEF Whole, Holds, Half
  <2> QED
    BY <2>1, <2>2 DEF Whole
<1> QED
  BY <1>1, <1>2

LEMMA WholeBegin ==
  ASSUME Typed, Shape, "send_null" \notin Calls, Whole, NEW c \in Calls, Begin(c)
  PROVE  Whole'
<1>1. /\ todo = <<>> /\ UNCHANGED <<ring, image, sent, dev>> /\ todo' = Scripts[c]
      /\ gain' = IF c \in {"send", "close"} THEN gain + 1 ELSE gain
  BY DEF Begin, bus, Shape
<1>2. Pending' = Pending
  BY <1>1 DEF Pending
<1>3. ~ExpectsPhase /\ GainSent = gain
  BY <1>1 DEF ExpectsPhase, GainSent, NewGain
<1>4. gain \in Int
  BY ControllerAssumption DEF Typed, TypeOK, Gains
<1>5. c \in {"send", "set_frequency", "clear", "firmware_info_list", "close"}
  BY ControllerAssumption DEF Scripts
<1>6. CASE c \in {"send", "close"}
  <2>1. todo' # <<>> /\ Head(todo') = "WRITE_DUTY"
    <3>1. todo' = <<"WRITE_DUTY", "WRITE_PHASE">> \/ todo' = <<"WRITE_DUTY", "WRITE_PHASE", "CLEAR">>
      BY <1>1, <1>6 DEF Scripts
    <3> QED
      BY <3>1
  <2>2. ~ExpectsPhase' /\ NewGain' /\ gain' = gain + 1
    BY <1>1, <1>6, <2>1 DEF ExpectsPhase, NewGain
  <2>3. GainSent' = gain
    BY <1>4, <2>2 DEF GainSent
  <2> QED
    BY <1>1, <1>2, <1>3, <2>2, <2>3, WholeRests DEF ExpectsPhase
<1>7. CASE c \notin {"send", "close"}
  <2>1. todo' # <<>> /\ Head(todo') \notin GainHalves
    <3>1. \/ todo' = <<"ULTRASOUND_CYCLE_CNT">> \/ todo' = <<"CLEAR">>
          \/ todo' = <<"READ_CPU_VER_LSB", "READ_CPU_VER_MSB", "READ_FPGA_VER_LSB", "READ_FPGA_VER_MSB">>
      BY <1>1, <1>5, <1>7 DEF Scripts
    <3> QED
      BY <3>1 DEF GainHalves
  <2>2. ~ExpectsPhase' /\ ~NewGain' /\ gain' = gain
    BY <1>1, <1>7, <2>1 DEF ExpectsPhase, NewGain, GainHalves
  <2>3. GainSent' = gain
    BY <2>2 DEF GainSent
  <2> QED
    BY <1>1, <1>2, <1>3, <2>2, <2>3, WholeRests DEF ExpectsPhase
<1> QED
  BY <1>6, <1>7

(* The frame sent becomes the last one that is pending.                    *)
LEMMA PendingGrows ==
  ASSUME Typed, SendMessage
  PROVE  Grown(Pending, Pending', Frame(id', Head(todo), tx', issued'))
<1> DEFINE f == Frame(id', Head(todo), tx', issued')
<1>1. ring \in Seq(Frames) /\ image \in Frames
  BY DEF Typed, TypeOK
<1>2. f \in Frames
  BY AfterSend DEF Frame, Frames
<1>3. ring' = Append(ring, f) /\ UNCHANGED <<sent, image>>
  BY DEF SendMessage, bus
<1>4. CASE sent
  BY <1>1, <1>2, <1>3, <1>4 DEF Grown, Pending
<1>5. CASE ~sent
  <2>1. Pending = <<image>> \o ring /\ Pending' = <<image>> \o ring'
    BY <1>3, <1>5 DEF Pending
  <2>2. ring' \in Seq(Frames) /\ <<image>> \o ring' = Append(<<image>> \o ring, f)
    BY <1>1, <1>2, <1>3
  <2>3. Pending \in Seq(Frames) /\ Pending' = Append(Pending, f)
    BY <1>1, <2>1, <2>2, Prefixed
  <2> QED
    BY <1>2, <2>3 DEF Grown
<1> QED
  BY <1>4, <1>5

LEMMA WholeSend ==
  ASSUME Typed, Shape, Whole, SendMessage
  PROVE  Whole'
<1> DEFINE f == Frame(id', Head(todo), tx', issued')
<1>1. todo # <<>> /\ todo' = Tail(todo) /\ UNCHANGED dev /\ tx' = Body(Head(todo)) /\ gain' = gain
  BY DEF SendMessage, Pack, Continues, Typed, Bounded
<1>2. Grown(Pending, Pending', f) /\ f.cmd = Head(todo) /\ f.body = Body(Head(todo))
  BY <1>1, PendingGrows DEF Frame
<1>3. CASE Head(todo) = "WRITE_DUTY"
  <2>1. todo' # <<>> /\ Head(todo') = "WRITE_PHASE"
    BY <1>1, <1>3, ShapeSteps
  <2>2. ExpectsPhase = FALSE /\ ExpectsPhase' = TRUE /\ GainSent' = gain
    BY <1>1, <1>3, <2>1 DEF ExpectsPhase, GainSent, NewGain
  <2>3. f.cmd = "WRITE_DUTY" /\ f.body.gain = gain
    BY <1>2, <1>3 DEF Body, Shape
  <2>4. /\ Paired(Pending, FALSE, gain)
        /\ \A d \in Devices : Holds(dev[d].fpga, Pending, FALSE, gain, GainSent)
    BY <2>2 DEF Whole
  <2>5. /\ Paired(Pending', TRUE, gain) /\ Newest(Pending', gain)
        /\ \A fpga, old : Holds(fpga, Pending, FALSE, gain, old) => Holds(fpga, Pending', TRUE, gain, gain)
    BY <1>2, <2>3, <2>4, GrownByDuty
  <2>6. \A d \in Devices : Holds(dev[d].fpga, Pending', TRUE, gain, gain)
    BY <2>4, <2>5
  <2> QED
    BY <1>1, <2>2, <2>5, <2>6 DEF Whole
<1>4. CASE Head(todo) # "WRITE_DUTY"
  <2>1. todo' = <<>> \/ Head(todo') \notin GainHalves
    BY <1>1, <1>4, ShapeSteps
  <2>2. ExpectsPhase' = FALSE /\ GainSent = gain /\ GainSent' = gain
    BY <1>1, <1>4, <2>1 DEF ExpectsPhase, GainSent, NewGain, GainHalves
  <2>3. CASE Head(todo) = "WRITE_PHASE"
    <3>1. ExpectsPhase /\ ExpectsPhase \in BOOLEAN
      BY <1>1, <2>3 DEF ExpectsPhase
    <3>2. f.cmd = "WRITE_PHASE" /\ f.body.gain = gain
      BY <1>2, <2>3 DEF Body, Shape
    <3>3. /\ Paired(Pending, ExpectsPhase, gain) /\ Newest(Pending, gain)
          /\ \A d \in Devices : Holds(dev[d].fpga, Pending, ExpectsPhase, gain, gain)
      BY <2>2, <3>1 DEF Whole
    <3>4. Paired(Pending', FALSE, gain)
      BY <1>2, <3>1, <3>2, <3>3, PairedByPhase
    <3>5. Newest(Pending', gain)
      <4>1. f.cmd # "WRITE_DUTY"
        BY <3>2
      <4> QED
        BY <1>2, <3>3, <4>1, NewestKept
    <3>6. \A d \in Devices : Holds(dev[d].fpga, Pending', FALSE, gain, gain)
      BY <1>2, <3>1, <3>2, <3>3, HoldsByPhase
    <3> QED
      BY <1>1, <2>2, <3>4, <3>5, <3>6 DEF Whole
  <2>4. CASE Head(todo) # "WRITE_PHASE"
    <3>1. ExpectsPhase = FALSE
      BY <1>1, <2>4 DEF ExpectsPhase
    <3>2. f.cmd \notin {"WRITE_DUTY", "WRITE_PHASE"}
      BY <1>2, <1>4, <2>4
    <3>3. /\ Paired(Pending, FALSE, gain) /\ Newest(Pending, gain)
          /\ \A d \in Devices : Holds(dev[d].fpga, Pending, FALSE, gain, gain)
      BY <2>2, <3>1 DEF Whole
    <3>4. /\ Paired(Pending', FALSE, gain)
          /\ \A n : Newest(Pending, n) => Newest(Pending', n)
          /\ \A fpga, n : Holds(fpga, Pending, FALSE, gain, n) => Holds(fpga, Pending', FALSE, gain, n)
      BY <1>2, <3>2, <3>3, GrownByOther
    <3>5. \A d \in Devices : Holds(dev[d].fpga, Pending', FALSE, gain, gain)
      BY <3>3, <3>4
    <3> QED
      BY <1>1, <2>2, <3>3, <3>4, <3>5 DEF Whole
  <2> QED
    BY <2>3, <2>4
<1> QED
  BY <1>3, <1>4

(* What an exchange changes in a device: the image is executed unless it   *)
(* was before.                                                             *)
LEMMA ExchangeExecutes ==
  ASSUME ID_LIMIT > 3, ~Lossy, ~Torn, Typed, Chain, Ends, Exchange, NEW d \in Devices, Seen(d)
  PROVE  dev'[d].fpga = IF sent THEN dev[d].fpga ELSE Executed(dev[d].fpga, image)
<1>1. PICK D, I, torn \in SUBSET Devices :
        /\ D = Devices /\ \A a, b \in torn : a = b /\ Torn /\ MayTear
        /\ dev' = [e \in Devices |-> IF e \in D THEN recv_ethercat(dev[e], Arrives(e, torn)) ELSE dev[e]]
  BY DEF Exchange
<1>2. dev'[d] = recv_ethercat(dev[d], image)
  BY <1>1 DEF Arrives
<1>3. link = "open"
  BY DEF Exchange
<1>4. CASE sent /\ image.no = 0
  BY <1>2, <1>4 DEF recv_ethercat, Execute, Executed, Ends
<1>5. CASE sent /\ image.no # 0
  BY <1>2, <1>3, <1>5 DEF recv_ethercat, Seen
<1>6. CASE ~sent
  <2>1. dev[d].headerId # image.id
    BY <1>3, <1>6 DEF Seen, Ends
  <2> QED
    BY <1>2, <1>6, <2>1 DEF recv_ethercat, Execute
<1> QED
  BY <1>4, <1>5, <1>6

LEMMA WholeExchanged ==
  ASSUME ID_LIMIT > 3, ~Lossy, ~Torn, Typed, Chain, Ends, Whole, Exchange,
         \A d \in Devices : Seen(d)
  PROVE  Whole'
<1>1. UNCHANGED <<todo, gain, ring, image>> /\ sent'
  BY DEF Exchange, user
<1>2. ExpectsPhase' = ExpectsPhase /\ GainSent' = GainSent
  BY <1>1 DEF ExpectsPhase, GainSent, NewGain
<1>3. Pending' = ring
  BY <1>1 DEF Pending
<1>4. CASE sent
  <2>1. Pending = ring /\ \A d \in Devices : dev'[d].fpga = dev[d].fpga
    BY <1>4, ExchangeExecutes DEF Pending
  <2> QED
    BY <1>1, <1>2, <1>3, <2>1 DEF Whole
<1>5. CASE ~sent
  <2>1. ring \in Seq(Frames) /\ image \in Frames /\ Pending = <<image>> \o ring
    BY <1>5 DEF Typed, TypeOK, Pending
  <2>2. Shrunk(Pending, ring, image)
    BY <2>1, Prefixed DEF Shrunk
  <2>3. ExpectsPhase \in BOOLEAN
    BY DEF ExpectsPhase
  <2>4. Paired(Pending, ExpectsPhase, gain) /\ Newest(Pending, GainSent)
    BY DEF Whole
  <2>5. Paired(ring, ExpectsPhase, gain)
    BY <2>2, <2>3, <2>4, PairedRest
  <2>6. Newest(ring, GainSent)
    BY <2>2, <2>4, NewestRest
  <2>7. ASSUME NEW d \in Devices PROVE Holds(dev'[d].fpga, ring, ExpectsPhase, gain, GainSent)
    <3>1. dev[d].fpga \in Contents
      BY Numbers DEF DeviceStates
    <3>2. Holds(dev[d].fpga, Pending, ExpectsPhase, gain, GainSent)
      BY DEF Whole
    <3>3. Holds(Executed(dev[d].fpga, image), ring, ExpectsPhase, gain, GainSent)
      BY <2>1, <2>2, <2>3, <2>4, <3>1, <3>2, HoldsRest
    <3>4. dev'[d].fpga = Executed(dev[d].fpga, image)
      BY <1>5, ExchangeExecutes
    <3> QED
      BY <3>3, <3>4
  <2> QED
    BY <1>1, <1>2, <1>3, <2>5, <2>6, <2>7 DEF Whole
<1> QED
  BY <1>4, <1>5

(* A new link starts with nothing pending.                                 *)
LEMMA WholeOpen ==
  ASSUME Typed, Places, Shape, Ends, Whole, Open
  PROVE  Whole'
<1>1. /\ link = "closed" /\ ring = <<>> /\ todo = <<>> /\ UNCHANGED <<ring, todo, gain, dev>> /\ sent'
      /\ image.cmd \in {"CLEAR", "OP"}
  BY DEF Open, Places, Shape, Ends
<1>2. ~ExpectsPhase /\ ~ExpectsPhase' /\ GainSent' = GainSent
  BY <1>1 DEF ExpectsPhase, GainSent, NewGain
<1>3. Pending' = <<>> /\ Len(Pending') = 0
  BY <1>1 DEF Pending
<1>4. Pending = <<>> \/ Pending = <<image>>
  BY <1>1 DEF Pending
<1>5. \A k \in 1 .. Len(Pending) : Pending[k].cmd \notin GainHalves
  BY <1>1, <1>4 DEF GainHalves
<1>6. ASSUME NEW d \in Devices PROVE Holds(dev[d].fpga, Pending', ExpectsPhase', gain, GainSent)
  <2>1. Holds(dev[d].fpga, Pending, ExpectsPhase, gain, GainSent)
    BY DEF Whole
  <2>2. UpToDate(dev[d].fpga, Pending', GainSent)
    BY <1>5, <2>1 DEF Holds, UpToDate, Carries, GainHalves
  <2>3. ~Half(dev[d].fpga, Pending, ExpectsPhase, gain)
    <3>1. Len(Pending) > 0 => Pending[1].cmd # "WRITE_PHASE"
      BY <1>1, <1>4
    <3> QED
      BY <1>2, <3>1 DEF Half
  <2>4. Balanced(dev[d].fpga, Pending', ExpectsPhase')
    BY <1>2, <1>3, <2>1, <2>3 DEF Holds, Balanced
  <2> QED
    BY <2>2, <2>4 DEF Holds
<1>7. Paired(Pending', ExpectsPhase', gain) /\ Newest(Pending', GainSent)
  BY <1>2, <1>3 DEF Paired, Newest
<1> QED
  BY <1>1, <1>2, <1>6, <1>7 DEF Whole

LEMMA WholeNext ==
  ASSUME ID_LIMIT > 3, ~Lossy, ~Torn, MaxRestarts = 0, "send_null" \notin Calls
  PROVE  Typed /\ InTurn /\ Shape /\ Ends /\ (~failed => Whole) /\ [Next]_vars => (~failed' => Whole')
<1> SUFFICES ASSUME Typed, InTurn, Shape, Ends, ~failed => Whole, [Next]_vars, ~failed' PROVE Whole'
  OBVIOUS
<1>1. Places /\ (link # "lost" => Chain) /\ \A d \in Devices : Seen(d)
  BY DEF InTurn
<1>2. CASE \E c \in Calls : Begin(c)
  <2>1. PICK c \in Calls : Begin(c)
    BY <1>2
  <2>2. failed' = failed
    BY <2>1 DEF Begin
  <2> QED
    BY <2>1, <2>2, WholeBegin
<1>3. CASE SendMessage
  BY <1>3, WholeSend DEF SendMessage, Continues
<1>4. CASE Exchange
  BY <1>1, <1>4, WholeExchanged DEF Exchange, user
<1>5. CASE Open
  BY <1>1, <1>5, WholeOpen DEF Open
<1>6. CASE UNCHANGED <<todo, gain, dev, failed>> /\ Pending' = Pending
  <2>1. ExpectsPhase' = ExpectsPhase /\ GainSent' = GainSent
    BY <1>6 DEF ExpectsPhase, GainSent, NewGain
  <2> QED
    BY <1>6, <2>1, WholeRests
<1>7. CASE Copy
  <2>1. Pending' = Pending
    <3>1. ring \in Seq(Frames) /\ ring # <<>> /\ sent /\ ~sent'
      BY <1>7 DEF Copy, Typed, TypeOK
    <3>2. image' = Head(ring) /\ ring' = Tail(ring)
      BY <1>7 DEF Copy
    <3>3. <<Head(ring)>> \o Tail(ring) = ring
      BY <3>1
    <3> QED
      BY <3>1, <3>2, <3>3 DEF Pending
  <2> QED
    BY <1>6, <1>7, <2>1 DEF Copy, user
<1>8. CASE Read \/ IsProcessed \/ NotProcessed \/ AwaitRoom \/ CloseLink \/ Lose \/ UNCHANGED vars
  <2>1. UNCHANGED <<todo, gain, dev, failed, ring, image, sent>>
    BY <1>8 DEF Read, IsProcessed, NotProcessed, AwaitRoom, CloseLink, Lose, Continues, Fails, vars, user, bus
  <2> QED
    BY <1>6, <2>1 DEF Pending
<1>9. ~Crash /\ ~SendThrows /\ ~ReadThrows
  BY ControllerAssumption DEF Crash, SendThrows, ReadThrows, Fails, Typed, TypeOK
<1> QED
  BY <1>2, <1>3, <1>4, <1>5, <1>7, <1>8, <1>9 DEF Next, User

LEMMA WholeInit ==
  "send_null" \notin Calls /\ Init => Shape /\ Ends /\ Whole
<1> SUFFICES ASSUME Init PROVE Shape /\ Ends /\ Whole
  OBVIOUS
<1>1. Shape /\ Ends
  BY DEF Init, Shape, Ends, LastCmd, ZeroFrame, Frame
<1>2. Pending = <<>> /\ Len(Pending) = 0 /\ ~ExpectsPhase
  BY DEF Init, Pending, ExpectsPhase
<1>3. ASSUME NEW d \in Devices PROVE Holds(dev[d].fpga, Pending, ExpectsPhase, gain, GainSent)
  <2>1. dev[d].fpga["duty"].gain = 0 /\ dev[d].fpga["phase"].gain = 0
    BY DEF Init, PowerOn, Cleared, Zeroed, Memories
  <2> QED
    BY <1>2, <2>1 DEF Holds, Balanced, UpToDate
<1> QED
  BY <1>1, <1>2, <1>3 DEF Whole, Paired, Newest

(* Duties and phases of a device belong to one gain, the last one unless   *)
(* the device was cleared, whenever nothing is under way and no call has   *)
(* failed: over a link that loses nothing, tears nothing and whose client  *)
(* is never started again, with three ids or more.                         *)
THEOREM GainsAreWhole ==
  ASSUME ID_LIMIT > 3, ~Lossy, ~Torn, MaxRestarts = 0, "send_null" \notin Calls
  PROVE  Spec => []WholeGains
<1>1. Typed /\ Shape /\ (~failed => Whole) => WholeGains
  <2> SUFFICES ASSUME Typed, Shape, Whole, Quiet, NEW d \in Devices
               PROVE  \E g \in {0, gain} : dev[d].fpga["duty"].gain = g /\ dev[d].fpga["phase"].gain = g
    BY DEF WholeGains
  <2>1. todo = <<>> /\ Pending = <<>> /\ Len(Pending) = 0
    BY DEF Quiet, Shape, Pending
  <2>2. ~ExpectsPhase /\ GainSent = gain
    BY <2>1 DEF ExpectsPhase, GainSent, NewGain
  <2>3. Holds(dev[d].fpga, Pending, ExpectsPhase, gain, GainSent)
    BY DEF Whole
  <2>4. dev[d].fpga["duty"].gain = dev[d].fpga["phase"].gain
    BY <2>1, <2>2, <2>3 DEF Holds, Balanced, Half
  <2>5. dev[d].fpga["duty"].gain \in {0, gain}
    BY <2>1, <2>2, <2>3 DEF Holds, UpToDate
  <2> QED
    BY <2>4, <2>5
<1>2. Init => InTurn /\ Shape /\ Ends /\ Whole
  BY InTurnInit, WholeInit
<1>3. Typed /\ Ordered /\ InTurn /\ [Next]_vars => InTurn'
  BY InTurnNext
<1>4. Typed /\ Shape /\ [Next]_vars => Shape'
  BY ShapeNext
<1>5. Typed /\ Ordered /\ InTurn /\ Shape /\ Ends /\ [Next]_vars => Ends'
  BY EndsNext DEF InTurn
<1>6. Typed /\ InTurn /\ Shape /\ Ends /\ (~failed => Whole) /\ [Next]_vars => (~failed => Whole)'
  BY WholeNext
<1> QED
  BY <1>1, <1>2, <1>3, <1>4, <1>5, <1>6, TypedInit, TypedNext, OrderedInit, OrderedNext, PTL DEF Spec
-----------------------------------------------------------------------------
(* Acknowledgements, however often the ids wrap.                           *)

(* The ids come round after that many messages; i is the id of message n,  *)
(* and number 0 stands for no message.                                     *)
Cycle == ID_LIMIT - 1
IsIdOf(i, n) ==
  IF n = 0 THEN i = 0 ELSE i \in 1 .. Cycle /\ \E q \in Nat : n = q * Cycle + i

LEMMA NextIdOf ==
  ASSUME ID_LIMIT > 3, NEW i \in Ids, NEW n \in Nat, IsIdOf(i, n)
  PROVE  IsIdOf(Succ(i), n + 1)
<1>0. ID_LIMIT \in Nat /\ Cycle \in Nat /\ Cycle + 1 = ID_LIMIT /\ Cycle > 2 /\ i \in 0 .. Cycle
  BY ControllerAssumption DEF Cycle, Ids
<1>1. CASE n = 0
  <2>1. i = 0 /\ Succ(i) = 1
    BY <1>0, <1>1 DEF IsIdOf, Succ
  <2>2. n + 1 = 0 * Cycle + 1 /\ n + 1 # 0
    BY <1>0, <1>1
  <2> QED
    BY <1>0, <2>1, <2>2 DEF IsIdOf
<1>2. CASE n # 0
  <2>1. i \in 1 .. Cycle
    BY <1>2 DEF IsIdOf
  <2>2. PICK q \in Nat : n = q * Cycle + i
    BY <1>2 DEF IsIdOf
  <2>3. CASE i = Cycle
    <3> DEFINE p == q + 1
    <3>1. p \in Nat /\ n + 1 = p * Cycle + 1
      BY <1>0, <2>2, <2>3
    <3>2. Succ(i) = 1 /\ 1 \in 1 .. Cycle /\ n + 1 # 0
      BY <1>0, <2>3 DEF Succ
    <3> HIDE DEF p
    <3> QED
      BY <3>1, <3>2 DEF IsIdOf
  <2>4. CASE i # Cycle
    <3>1. Succ(i) = i + 1 /\ i + 1 \in 1 .. Cycle
      BY <1>0, <2>1, <2>4 DEF Succ
    <3>2. n + 1 = q * Cycle + (i + 1) /\ n + 1 # 0
      <4>1. q * Cycle \in Nat
        BY <1>0
      <4> QED
        BY <1>0, <2>2, <4>1
    <3> QED
      BY <3>1, <3>2 DEF IsIdOf
  <2> QED
    BY <2>3, <2>4
<1> QED
  BY <1>1, <1>2

(* Messages with the same id are a cycle apart.                            *)
LEMMA SameIdFarApart ==
  ASSUME ID_LIMIT > 3, NEW i \in Ids, NEW a \in Nat, NEW b \in Nat, a < b,
         IsIdOf(i, a), IsIdOf(i, b)
  PROVE  a + Cycle <= b
<1>0. Cycle \in Nat /\ Cycle > 0
  BY ControllerAssumption DEF Cycle
<1>1. i \in 1 .. Cycle /\ a # 0
  BY DEF IsIdOf
<1>2. PICK q \in Nat : a = q * Cycle + i
  BY <1>1 DEF IsIdOf
<1>3. PICK r \in Nat : b = r * Cycle + i
  BY <1>1 DEF IsIdOf
<1>4. q * Cycle \in Nat /\ r * Cycle \in Nat /\ i \in Nat
  BY <1>0, <1>1
<1>5. q < r
  <2>1. SUFFICES ASSUME r <= q PROVE FALSE
    OBVIOUS
  <2>2. r * Cycle <= q * Cycle
    BY <1>0, <2>1
  <2> QED
    BY <1>2, <1>3, <1>4, <2>2
<1>6. (q + 1) * Cycle <= r * Cycle
  BY <1>0, <1>5
<1>7. (q + 1) * Cycle = q * Cycle + Cycle
  BY <1>0
<1> QED
  BY <1>0, <1>2, <1>3, <1>4, <1>6, <1>7

(* Ids are those of the messages they are kept with.                       *)
IsAckOf(a) == a.of <= issued /\ IsIdOf(a.id, a.of)
Numbered ==
  /\ IsIdOf(id, issued) /\ IsIdOf(image.id, image.no)
  /\ \A k \in 1 .. Len(ring) : IsIdOf(ring[k].id, ring[k].no)
  /\ \A d \in Devices : IsAckOf(dev[d].ack) /\ IsAckOf(inputs[d].ack) /\ IsAckOf(rx[d].ack)

LEMMA AckNumbers ==
  ASSUME Typed, NEW d \in Devices
  PROVE  /\ dev[d].ack \in Acks /\ inputs[d].ack \in Acks /\ rx[d].ack \in Acks
         /\ dev[d].ack.of \in Nat /\ inputs[d].ack.of \in Nat /\ rx[d].ack.of \in Nat
<1>1. \A a \in Acks : a.of \in Nat
  BY ControllerAssumption DEF Acks, MessageNos
<1>2. dev[d].ack \in Acks /\ inputs[d].ack \in Acks /\ rx[d].ack \in Acks
  BY DEF Typed, TypeOK, DeviceStates, AckWords
<1> QED
  BY <1>1, <1>2

LEMMA NumberedSend ==
  ASSUME ID_LIMIT > 3, Typed, Numbered, pc \in {"send", "room"}, Pack
  PROVE  /\ IsIdOf(id', issued') /\ issued' = issued + 1
         /\ \A d \in Devices : /\ dev[d].ack.of <= issued' /\ inputs[d].ack.of <= issued'
                               /\ rx[d].ack.of <= issued'
<1>1. id' = Succ(id) /\ issued' = issued + 1 /\ issued \in Nat /\ id \in Ids
  BY GetIdIsSucc, Numbers DEF Pack, Typed, TypeOK
<1>2. IsIdOf(id', issued')
  BY <1>1, NextIdOf DEF Numbered
<1>3. ASSUME NEW d \in Devices
      PROVE  dev[d].ack.of <= issued' /\ inputs[d].ack.of <= issued' /\ rx[d].ack.of <= issued'
  BY <1>1, AckNumbers DEF Numbered, IsAckOf
<1> QED
  BY <1>1, <1>2, <1>3

LEMMA NumberedNext ==
  ASSUME ID_LIMIT > 3, MaxRestarts = 0
  PROVE  Typed /\ Ordered /\ Numbered /\ [Next]_vars => Numbered'
<1> SUFFICES ASSUME Typed, Ordered, Numbered, [Next]_vars PROVE Numbered'
  OBVIOUS
<1>0. /\ \A d \in Devices : Answers[d].ack = dev[d].ack
      /\ \A d \in Devices : NoAnswers[d].ack.id = 0 /\ NoAnswers[d].ack.of = 0
      /\ IsIdOf(0, 0) /\ issued \in Nat
  BY Numbers DEF Answers, NoAnswers, NoAnswer, NoAck, IsIdOf
<1>1. CASE SendMessage
  <2>1. /\ IsIdOf(id', issued') /\ UNCHANGED <<image, dev, inputs, rx>>
        /\ \A d \in Devices : /\ dev[d].ack.of <= issued' /\ inputs[d].ack.of <= issued'
                              /\ rx[d].ack.of <= issued'
    BY <1>1, NumberedSend DEF SendMessage, bus
  <2>2. IsIdOf(ring'[Len(ring) + 1].id, ring'[Len(ring) + 1].no)
    BY <1>1, <2>1, AfterSend DEF Frame
  <2>3. \A k \in 1 .. Len(ring') : IsIdOf(ring'[k].id, ring'[k].no)
    <3> TAKE k \in 1 .. Len(ring')
    <3>1. Len(ring) \in Nat /\ Len(ring') = Len(ring) + 1 /\ \A j \in 1 .. Len(ring) : ring'[j] = ring[j]
      BY <1>1, AfterSend
    <3>2. k \in 1 .. Len(ring) \/ k = Len(ring) + 1
      BY <3>1
    <3> QED
      BY <2>2, <3>1, <3>2 DEF Numbered
  <2> QED
    BY <2>1, <2>3 DEF Numbered, IsAckOf
<1>2. CASE SendThrows
  <2>1. /\ IsIdOf(id', issued') /\ UNCHANGED <<ring, image, dev, inputs, rx>>
        /\ \A d \in Devices : /\ dev[d].ack.of <= issued' /\ inputs[d].ack.of <= issued'
                              /\ rx[d].ack.of <= issued'
    BY <1>2, NumberedSend DEF SendThrows, bus
  <2> QED
    BY <2>1 DEF Numbered, IsAckOf
<1>3. CASE Copy
  <2>1. /\ image' = ring[1] /\ 1 \in 1 .. Len(ring) /\ UNCHANGED <<dev, issued, id, inputs, rx>>
        /\ \A k \in 1 .. Len(ring') : ring'[k] = ring[k + 1] /\ k + 1 \in 1 .. Len(ring)
    BY <1>3, AfterCopy
  <2> QED
    BY <2>1 DEF Numbered, IsAckOf
<1>4. CASE Exchange
  <2>1. UNCHANGED <<ring, image, issued, id, rx>>
    BY <1>4 DEF Exchange, user, logic
  <2>2. ASSUME NEW d \in Devices PROVE IsAckOf(dev'[d].ack)
    <3>1. CASE dev'[d] = dev[d]
      BY <3>1 DEF Numbered
    <3>2. CASE dev'[d] # dev[d]
      <4>1. PICK f \in Frames : dev'[d] = recv_ethercat(dev[d], f) /\ f.id = image.id /\ f.no = image.no
        BY <1>4, <3>2, AfterExchange
      <4>2. dev'[d] = Execute(dev[d], f)
        BY <3>2, <4>1 DEF recv_ethercat
      <4>3. dev'[d].ack = dev[d].ack \/ (dev'[d].ack.id = image.id /\ dev'[d].ack.of = image.no)
        BY <4>1, <4>2 DEF Execute
      <4> QED
        BY <4>3 DEF Numbered, IsAckOf, Ordered
    <3> QED
      BY <3>1, <3>2
  <2>3. ASSUME NEW d \in Devices PROVE inputs'[d].ack \in {inputs[d].ack, dev[d].ack}
    <3>1. inputs'[d] = inputs[d] \/ inputs'[d] = [ack |-> dev[d].ack, done |-> dev[d].done]
      BY <1>4, AfterExchange
    <3> QED
      BY <3>1
  <2> QED
    BY <2>1, <2>2, <2>3 DEF Numbered, IsAckOf
<1>5. CASE Open
  <2>1. /\ image'.id = 0 /\ image'.no = 0 /\ UNCHANGED <<id, issued, ring, dev>>
        /\ rx' = NoAnswers /\ (inputs' = NoAnswers \/ inputs' = Answers)
    BY <1>5 DEF Open, ZeroFrame, Frame
  <2> QED
    BY <1>0, <2>1 DEF Numbered, IsAckOf
<1>6. CASE Read
  BY <1>6 DEF Read, logic, bus, Numbered, IsAckOf
<1>7. CASE ReadThrows \/ IsProcessed \/ NotProcessed \/ AwaitRoom \/ CloseLink \/ Lose \/ UNCHANGED vars
  BY <1>7 DEF ReadThrows, IsProcessed, NotProcessed, AwaitRoom, CloseLink, Lose, vars, user, logic, bus,
              Numbered, IsAckOf
<1>8. CASE \E c \in Calls : Begin(c)
  BY <1>8 DEF Begin, logic, bus, Numbered, IsAckOf
<1>9. ~Crash
  BY ControllerAssumption DEF Crash, Typed, TypeOK
<1> QED
  BY <1>1, <1>2, <1>3, <1>4, <1>5, <1>6, <1>7, <1>8, <1>9 DEF Next, User

(* A message that is not acknowledged comes alone: clear() aside it is the *)
(* last of close(), and follows one that is.                               *)
Ending ==
  /\ (call = "close" /\ todo = <<>>) \/ pc = "closing" => LastCmd \notin Acked
  /\ call = "close" /\ todo # <<>> => todo[Len(todo)] \notin Acked
  /\ pc = "idle" => todo = <<>>
  /\ call # "clear"

(* The number of the frame copied into the image last.                     *)
Base == issued - Len(ring)

(* The frames in the queue are the last that were issued.                  *)
InARow ==
  /\ image.no \in {0, Base}
  /\ \A k \in 1 .. Len(ring) : ring[k].no = Base + k

Alone ==
  /\ \A k \in 1 .. Len(ring) - 1 : ring[k].cmd \in Acked \/ ring[k + 1].cmd \in Acked
  /\ ring # <<>> => image.cmd \in Acked \/ ring[1].cmd \in Acked
  /\ todo # <<>> => LastCmd \in Acked \/ Head(todo) \in Acked

Tidy == Ending /\ (link # "lost" => InARow /\ Alone)

(* What is left of a close() ends as it did.                               *)
LEMMA LastLeft ==
  ASSUME Typed, todo # <<>>, NEW rest, rest = Tail(todo)
  PROVE  /\ rest = <<>> => todo[Len(todo)] = Head(todo)
         /\ rest # <<>> => rest[Len(rest)] = todo[Len(todo)]
<1>1. todo \in Seq(Commands) /\ Len(todo) \in Nat /\ Len(todo) > 0
  BY DEF Typed, TypeOK
<1>2. Head(todo) = todo[1] /\ rest \in Seq(Commands) /\ Len(rest) = Len(todo) - 1
  BY <1>1
<1>3. \A k \in 1 .. Len(rest) : rest[k] = todo[k + 1]
  BY <1>1
<1>4. ASSUME rest = <<>> PROVE todo[Len(todo)] = Head(todo)
  <2>1. \A q \in Seq(Commands) : q = <<>> => Len(q) = 0
    OBVIOUS
  <2>2. Len(rest) = 0
    BY <1>2, <1>4, <2>1
  <2>3. Len(todo) = 1
    BY <1>1, <1>2, <2>2
  <2> QED
    BY <1>2, <2>3
<1>5. ASSUME rest # <<>> PROVE rest[Len(rest)] = todo[Len(todo)]
  <2>1. Len(rest) \in 1 .. Len(rest) /\ Len(rest) + 1 = Len(todo)
    BY <1>1, <1>2, <1>5
  <2> QED
    BY <1>3, <2>1
<1> QED
  BY <1>4, <1>5

LEMMA EndingNext ==
  ASSUME MaxRestarts = 0, "clear" \notin Calls
  PROVE  Typed /\ Places /\ Ending /\ [Next]_vars => Ending'
<1> SUFFICES ASSUME Typed, Places, Ending, [Next]_vars PROVE Ending'
  OBVIOUS
<1>1. CASE \E c \in Calls : Begin(c)
  <2>1. PICK c \in Calls : Begin(c)
    BY <1>1
  <2>2. call' = c /\ todo' = Scripts[c] /\ pc' = "send" /\ c # "clear"
    BY <2>1 DEF Begin
  <2>3. todo' # <<>>
    BY <2>2, ScriptsTyped, ControllerAssumption
  <2>4. ASSUME c = "close" PROVE todo'[Len(todo')] \notin Acked
    <3>1. todo' = <<"WRITE_DUTY", "WRITE_PHASE", "CLEAR">>
      BY <2>2, <2>4 DEF Scripts
    <3>2. todo'[Len(todo')] = "CLEAR"
      BY <3>1
    <3> QED
      BY <3>2 DEF Acked, Reads, Writes
  <2> QED
    BY <2>2, <2>3, <2>4 DEF Ending
<1>2. CASE SendMessage
  <2>1. todo # <<>> /\ todo' = Tail(todo)
    BY <1>2 DEF SendMessage, Typed, Bounded
  <2>2. /\ call' = call \/ (call' = "none" /\ todo' = <<>>)
        /\ pc' = "closing" => call = "close" /\ todo' = <<>>
        /\ pc' = "idle" => todo' = <<>>
    BY <1>2 DEF SendMessage, Continues
  <2>3. LastCmd' = Head(todo)
    BY <1>2, LastOfSend
  <2>4. ASSUME call = "close" PROVE IF todo' = <<>> THEN LastCmd' \notin Acked
                                                    ELSE todo'[Len(todo')] \notin Acked
    BY <2>1, <2>3, <2>4, LastLeft DEF Ending
  <2> QED
    BY <2>2, <2>4 DEF Ending
<1>3. CASE IsProcessed
  <2>1. /\ UNCHANGED <<image, ring, todo>>
        /\ call' = call \/ (call' = "none" /\ todo = <<>>)
        /\ pc' = "closing" => call = "close" /\ todo = <<>>
        /\ pc' = "idle" => todo = <<>>
    BY <1>3 DEF IsProcessed, Continues, bus
  <2> QED
    BY <2>1 DEF Ending, LastCmd
<1>4. CASE Copy
  <2>1. UNCHANGED <<call, todo, pc>> /\ LastCmd' = LastCmd
    BY <1>4, LastOfCopy DEF Copy, user
  <2> QED
    BY <2>1 DEF Ending
<1>5. CASE todo' = <<>> /\ pc' = "idle" /\ call' = "none"
  BY <1>5 DEF Ending
<1>6. CASE SendThrows \/ ReadThrows
  BY <1>5, <1>6 DEF SendThrows, ReadThrows, Fails
<1>7. CASE Read \/ NotProcessed \/ AwaitRoom
  <2>1. \/ todo' = <<>> /\ pc' = "idle" /\ call' = "none"
        \/ UNCHANGED <<image, ring, todo, call>> /\ pc' \in {"wait", "judge", "room"}
    BY <1>7 DEF Read, NotProcessed, AwaitRoom, Fails, bus
  <2> QED
    BY <1>5, <2>1 DEF Ending, LastCmd
<1>8. CASE Open \/ CloseLink
  <2>1. UNCHANGED <<todo, call>> /\ pc \in {"idle", "closing"} /\ pc' = "idle" /\ call = "none" /\ todo = <<>>
    BY <1>8 DEF Open, CloseLink, Places, Ending
  <2> QED
    BY <1>5, <2>1
<1>9. CASE Exchange \/ Lose \/ UNCHANGED vars
  BY <1>9 DEF Exchange, Lose, vars, user, bus, Ending, LastCmd
<1>10. ~Crash
  BY ControllerAssumption DEF Crash, Typed, TypeOK
<1> QED
  BY <1>1, <1>2, <1>3, <1>4, <1>6, <1>7, <1>8, <1>9, <1>10 DEF Next, User

LEMMA TidyBegin ==
  ASSUME Typed, Places, Ending, "clear" \notin Calls, NEW c \in Calls, Begin(c)
  PROVE  /\ todo' # <<>> => Head(todo') \in Acked
         /\ UNCHANGED <<ring, image, issued, link>>
<1>1. todo' = Scripts[c] /\ c # "clear" /\ c \in DOMAIN Scripts /\ UNCHANGED <<ring, image, issued, link>>
  BY ControllerAssumption DEF Begin, bus, logic
<1>2. CASE c = "close"
  <2>1. Head(Scripts[c]) = "WRITE_DUTY"
    BY <1>2 DEF Scripts
  <2> QED
    BY <1>1, <2>1 DEF Acked, Writes
<1>3. CASE c # "close"
  <2>1. Scripts[c] \in Seq(Commands) /\ Scripts[c] # <<>>
    BY <1>1, ScriptsTyped
  <2>2. Head(Scripts[c]) = Scripts[c][1] /\ 1 \in 1 .. Len(Scripts[c])
    BY <2>1
  <2> QED
    BY <1>1, <1>3, <2>2, ScriptsAcked
<1> QED
  BY <1>2, <1>3

LEMMA AloneSend ==
  ASSUME Typed, Script, Ending, Alone, SendMessage
  PROVE  Alone'
<1>1. /\ Len(ring) \in Nat /\ Len(ring') = Len(ring) + 1 /\ ring' # <<>>
      /\ \A k \in 1 .. Len(ring) : ring'[k] = ring[k]
      /\ ring'[Len(ring) + 1].cmd = Head(todo) /\ (ring = <<>> <=> Len(ring) = 0)
  BY AfterSend DEF Frame, Typed, TypeOK
<1>2. todo # <<>> /\ todo' = Tail(todo) /\ UNCHANGED image
  BY DEF SendMessage, Typed, Bounded, bus
<1>3. LastCmd \in Acked \/ Head(todo) \in Acked
  BY <1>2 DEF Alone
<1>4. \A k \in 1 .. Len(ring') - 1 : ring'[k].cmd \in Acked \/ ring'[k + 1].cmd \in Acked
  <2> TAKE k \in 1 .. Len(ring') - 1
  <2>1. CASE k = Len(ring)
    <3>1. ring # <<>> /\ ring'[k] = ring[k] /\ ring'[k + 1].cmd = Head(todo)
      BY <1>1, <2>1
    <3> QED
      BY <1>3, <2>1, <3>1 DEF LastCmd
  <2>2. CASE k # Len(ring)
    <3>1. k \in 1 .. Len(ring) - 1 /\ ring'[k] = ring[k] /\ ring'[k + 1] = ring[k + 1]
      BY <1>1, <2>2
    <3> QED
      BY <3>1 DEF Alone
  <2> QED
    BY <2>1, <2>2
<1>5. image'.cmd \in Acked \/ ring'[1].cmd \in Acked
  <2>1. CASE ring = <<>>
    BY <1>1, <1>2, <1>3, <2>1 DEF LastCmd
  <2>2. CASE ring # <<>>
    BY <1>1, <1>2, <2>2 DEF Alone
  <2> QED
    BY <2>1, <2>2
<1>6. todo' # <<>> => LastCmd' \in Acked
  BY <1>2, LastOfSend, ScriptTail DEF Ending
<1> QED
  BY <1>4, <1>5, <1>6 DEF Alone

LEMMA AloneCopy ==
  ASSUME Typed, Alone, Copy
  PROVE  Alone'
<1>1. /\ Len(ring) \in Nat /\ Len(ring) > 0 /\ Len(ring') = Len(ring) - 1 /\ image' = ring[1]
      /\ \A k \in 1 .. Len(ring') : ring'[k] = ring[k + 1]
  BY AfterCopy
<1>2. UNCHANGED todo /\ LastCmd' = LastCmd
  BY LastOfCopy DEF Copy, user
<1>3. \A k \in 1 .. Len(ring') - 1 : ring'[k].cmd \in Acked \/ ring'[k + 1].cmd \in Acked
  <2> TAKE k \in 1 .. Len(ring') - 1
  <2>1. ring'[k] = ring[k + 1] /\ ring'[k + 1] = ring[k + 1 + 1] /\ k + 1 \in 1 .. Len(ring) - 1
    BY <1>1
  <2> QED
    BY <2>1 DEF Alone
<1>4. ring' # <<>> => image'.cmd \in Acked \/ ring'[1].cmd \in Acked
  <2> SUFFICES ASSUME ring' # <<>> PROVE image'.cmd \in Acked \/ ring'[1].cmd \in Acked
    OBVIOUS
  <2>1. Len(ring') > 0
    <3>1. ring' \in Seq(Frames)
      BY DEF Copy, Typed, TypeOK
    <3> QED
      BY <3>1
  <2>2. ring'[1] = ring[1 + 1] /\ 1 \in 1 .. Len(ring) - 1
    BY <1>1, <2>1
  <2> QED
    BY <1>1, <2>2 DEF Alone
<1> QED
  BY <1>2, <1>3, <1>4 DEF Alone

LEMMA InARowNext ==
  ASSUME Typed, InARow, SendMessage \/ Copy
  PROVE  InARow' /\ Base' = IF Copy THEN Base + 1 ELSE Base
<1>0. issued \in Nat /\ Len(ring) \in Nat
  BY Numbers
<1>1. CASE SendMessage
  <2>1. /\ Len(ring') = Len(ring) + 1 /\ issued' = issued + 1 /\ UNCHANGED image
        /\ \A k \in 1 .. Len(ring) : ring'[k] = ring[k]
        /\ ring'[Len(ring) + 1].no = issued + 1
    BY <1>1, AfterSend DEF Frame, SendMessage, bus
  <2>2. Base' = Base /\ ~Copy
    BY <1>0, <1>1, <2>1 DEF Base, Copy, SendMessage, logic
  <2>3. \A k \in 1 .. Len(ring') : ring'[k].no = Base' + k
    <3> TAKE k \in 1 .. Len(ring')
    <3>1. CASE k \in 1 .. Len(ring)
      BY <2>1, <2>2, <3>1 DEF InARow
    <3>2. CASE k = Len(ring) + 1
      BY <1>0, <2>1, <2>2, <3>2 DEF Base
    <3> QED
      BY <1>0, <2>1, <3>1, <3>2
  <2> QED
    BY <2>1, <2>2, <2>3 DEF InARow
<1>2. CASE Copy
  <2>1. /\ Len(ring) > 0 /\ Len(ring') = Len(ring) - 1 /\ image' = ring[1] /\ UNCHANGED issued
        /\ \A k \in 1 .. Len(ring') : ring'[k] = ring[k + 1]
    BY <1>2, AfterCopy
  <2>2. Base' = Base + 1 /\ Base \in Int
    BY <1>0, <2>1 DEF Base
  <2>3. image'.no = Base'
    BY <1>0, <2>1, <2>2 DEF InARow
  <2>4. \A k \in 1 .. Len(ring') : ring'[k].no = Base' + k
    <3> TAKE k \in 1 .. Len(ring')
    <3>1. ring'[k].no = Base + (k + 1)
      BY <1>0, <2>1 DEF InARow
    <3> QED
      BY <1>0, <2>2, <3>1
  <2> QED
    BY <1>2, <2>2, <2>3, <2>4 DEF InARow
<1> QED
  BY <1>1, <1>2

LEMMA TidyNext ==
  ASSUME MaxRestarts = 0, "clear" \notin Calls
  PROVE  Typed /\ Places /\ Script /\ Tidy /\ [Next]_vars => Tidy'
<1> SUFFICES ASSUME Typed, Places, Script, Tidy, [Next]_vars PROVE Tidy'
  OBVIOUS
<1>1. Ending /\ Ending'
  BY EndingNext DEF Tidy
<1> SUFFICES ASSUME link' # "lost" PROVE InARow' /\ Alone'
  BY <1>1 DEF Tidy
<1>2. CASE SendMessage \/ Copy
  <2>1. link = "open" /\ InARow /\ Alone
    BY <1>2, StoresOpen DEF SendMessage, bus, Copy, Tidy
  <2> QED
    BY <1>1, <1>2, <2>1, InARowNext, AloneSend, AloneCopy
<1>3. CASE Open
  <2>1. /\ ring = <<>> /\ ring' = <<>> /\ todo' = <<>> /\ image'.no = 0
    BY <1>1, <1>3 DEF Open, Places, Ending, ZeroFrame, Frame
  <2> QED
    BY <2>1 DEF InARow, Alone
<1>4. CASE UNCHANGED <<ring, image, issued>> /\ link # "lost" /\ (todo' = todo \/ todo' = <<>>)
  <2>1. InARow /\ Alone /\ Base' = Base /\ LastCmd' = LastCmd
    BY <1>4 DEF Tidy, Base, LastCmd
  <2> QED
    BY <1>4, <2>1 DEF InARow, Alone
<1>5. CASE \E c \in Calls : Begin(c)
  <2>1. /\ todo' # <<>> => Head(todo') \in Acked
        /\ UNCHANGED <<ring, image, issued, link>>
    BY <1>1, <1>5, TidyBegin
  <2>2. InARow /\ Alone /\ Base' = Base /\ LastCmd' = LastCmd
    BY <2>1 DEF Tidy, Base, LastCmd
  <2> QED
    BY <2>1, <2>2 DEF InARow, Alone
<1>6. CASE Read \/ ReadThrows \/ IsProcessed \/ NotProcessed \/ AwaitRoom \/ CloseLink
  BY <1>4, <1>6 DEF Read, ReadThrows, IsProcessed, NotProcessed, AwaitRoom, CloseLink, Fails, bus, logic
<1>7. CASE Exchange \/ Lose \/ UNCHANGED vars
  BY <1>4, <1>7 DEF Exchange, Lose, vars, user, bus, logic
<1>8. ~Crash /\ ~SendThrows
  BY ControllerAssumption DEF Crash, SendThrows, bus, Typed, TypeOK
<1> QED
  BY <1>2, <1>3, <1>5, <1>6, <1>7, <1>8 DEF Next, User

(* How far the acknowledgement of a device, the one in the inputs and the  *)
(* one that was read can be behind: by the frame in the image before it is *)
(* exchanged, by a message that is not acknowledged, and by the answers    *)
(* being those of the exchange before.                                     *)
Floor ==
  CASE image.cmd \in Acked /\ sent  -> Base
    [] image.cmd \in Acked /\ ~sent -> Base - 2
    [] OTHER                        -> Base - 1

Recent(d) ==
  /\ link = "open" => /\ dev[d].ack.of >= Floor
                      /\ \/ inputs[d].ack.of = 0
                         \/ inputs[d].ack.of >= IF sent THEN Base - 2 ELSE Base - 3
  /\ link = "closed" => dev[d].ack.of >= issued - 1
  /\ pc = "judge" => rx[d].ack.of = 0 \/ rx[d].ack.of >= issued - SEND_BUF_SIZE - 3

(* Steps that leave acknowledgements and frames alone.                     *)
LEMMA RecentRests ==
  ASSUME NEW d \in Devices, Recent(d), pc' # "judge", link' # "closed",
         link' = "open" => link = "open" /\ Base' = Base /\ UNCHANGED <<image, sent, dev, inputs>>
  PROVE  Recent(d)'
BY DEF Recent, Floor

LEMMA RecentCopy ==
  ASSUME Typed, InARow, Alone, Copy, NEW d \in Devices, Recent(d)
  PROVE  Recent(d)'
<1>1. /\ link = "open" /\ link' = "open" /\ sent /\ ~sent' /\ Base' = Base + 1
      /\ UNCHANGED <<dev, inputs, rx, pc, issued>> /\ image' = ring[1]
  BY InARowNext, AfterCopy DEF Copy, user
<1>2. Base \in Int
  BY Numbers DEF Base
<1>3. dev[d].ack.of >= Floor' /\ dev[d].ack.of \in Nat
  <2>1. dev[d].ack.of >= Floor /\ dev[d].ack.of \in Nat
    BY <1>1, AckNumbers DEF Recent
  <2>2. image.cmd \in Acked \/ image'.cmd \in Acked
    BY <1>1 DEF Alone, Copy
  <2> QED
    BY <1>1, <1>2, <2>1, <2>2 DEF Floor
<1>4. inputs[d].ack.of = 0 \/ inputs[d].ack.of >= Base' - 3
  BY <1>1, <1>2, AckNumbers DEF Recent
<1>5. pc = "judge" => rx[d].ack.of = 0 \/ rx[d].ack.of >= issued - SEND_BUF_SIZE - 3
  BY DEF Recent
<1> QED
  BY <1>1, <1>3, <1>4, <1>5 DEF Recent

LEMMA RecentExchange ==
  ASSUME ~Lossy, Typed, Zeroes, InARow, Exchange, NEW d \in Devices, Seen(d), Recent(d)
  PROVE  Recent(d)'
<1>1. /\ link = "open" /\ link' = "open" /\ sent' /\ Base' = Base
      /\ UNCHANGED <<image, rx, pc, issued>>
  BY DEF Exchange, user, logic, Base
<1>2. PICK f \in Frames : /\ dev'[d] = recv_ethercat(dev[d], f) /\ f.id = image.id
                          /\ f.cmd = image.cmd /\ f.no = image.no
  BY WholeExchange
<1>3. inputs'[d].ack = dev[d].ack
  BY WholeExchange
<1>4. dev[d].ack.of \in Nat /\ Base \in Int /\ dev[d].ack.of >= Floor
  BY <1>1, AckNumbers, Numbers DEF Base, Recent
<1>5. dev'[d].ack.of >= Floor'
  <2>1. CASE image.cmd \notin Acked
    <3>1. dev'[d].ack = dev[d].ack
      BY <1>2, <2>1 DEF recv_ethercat, Execute
    <3> QED
      BY <1>1, <1>4, <2>1, <3>1 DEF Floor
  <2>2. CASE image.cmd \in Acked /\ sent
    <3>1. dev'[d] = dev[d]
      BY <1>1, <1>2, <2>2 DEF Seen, Zeroes, recv_ethercat
    <3> QED
      BY <1>1, <1>4, <2>2, <3>1 DEF Floor
  <2>3. CASE image.cmd \in Acked /\ ~sent
    <3>1. image.no = Base /\ dev[d].headerId # image.id
      BY <1>1, <2>3 DEF Seen, Zeroes, InARow
    <3>2. dev'[d].ack.of = Base
      BY <1>2, <2>3, <3>1 DEF recv_ethercat, Execute
    <3>3. Floor' = Base
      BY <1>1, <2>3 DEF Floor
    <3> QED
      BY <1>4, <3>2, <3>3
  <2> QED
    BY <2>1, <2>2, <2>3
<1>6. inputs'[d].ack.of >= Base' - 2
  BY <1>1, <1>3, <1>4 DEF Floor
<1>7. pc = "judge" => rx[d].ack.of = 0 \/ rx[d].ack.of >= issued - SEND_BUF_SIZE - 3
  BY DEF Recent
<1> QED
  BY <1>1, <1>5, <1>6, <1>7 DEF Recent

LEMMA RecentNext ==
  ASSUME ~Lossy, MaxRestarts = 0, "clear" \notin Calls
  PROVE  Typed /\ InTurn /\ Zeroes /\ Tidy /\ (\A d \in Devices : Recent(d)) /\ [Next]_vars
           => \A d \in Devices : Recent(d)'
<1> SUFFICES ASSUME Typed, InTurn, Zeroes, Tidy, [Next]_vars, NEW d \in Devices, Recent(d)
             PROVE  Recent(d)'
  OBVIOUS
<1>0. /\ Places /\ Seen(d) /\ (link # "lost" => InARow) /\ (link # "lost" => Alone) /\ Ending
      /\ issued \in Nat /\ Len(ring) \in Nat /\ Base \in Int
      /\ dev[d].ack.of \in Nat /\ inputs[d].ack.of \in Nat
  BY Numbers, AckNumbers DEF InTurn, Tidy, Base
<1>1. CASE SendMessage
  <2>1. /\ UNCHANGED <<link, image, sent, dev, inputs>> /\ pc' # "judge"
        /\ link # "closed" /\ (link = "open" => Base' = Base)
    BY <1>0, <1>1, StoresOpen, InARowNext DEF SendMessage, Copy, Continues, logic, bus
  <2> QED
    BY <2>1, RecentRests
<1>2. CASE Copy
  BY <1>0, <1>2, RecentCopy DEF Copy
<1>3. CASE Exchange
  BY <1>0, <1>3, RecentExchange DEF Exchange
<1>4. CASE Open
  <2>1. /\ link = "closed" /\ link' = "open" /\ pc' = "idle" /\ sent' /\ UNCHANGED <<dev, issued>>
        /\ ring = <<>> /\ ring' = <<>> /\ image'.cmd = "OP"
        /\ inputs' = NoAnswers \/ inputs' = Answers
    BY <1>0, <1>4 DEF Open, Places, ZeroFrame, Frame
  <2>2. Base' = issued /\ Floor' = issued - 1
    BY <1>0, <2>1 DEF Base, Floor, Acked, Reads, Writes
  <2>3. dev[d].ack.of >= issued - 1
    BY <2>1 DEF Recent
  <2>4. inputs'[d].ack.of = 0 \/ inputs'[d].ack = dev[d].ack
    BY <2>1 DEF NoAnswers, NoAnswer, NoAck, Answers
  <2>5. inputs'[d].ack.of = 0 \/ inputs'[d].ack.of >= Base' - 2
    BY <1>0, <2>2, <2>3, <2>4
  <2> QED
    BY <2>1, <2>2, <2>3, <2>5 DEF Recent
<1>5. CASE CloseLink
  <2>1. /\ link = "open" /\ link' = "closed" /\ pc = "closing" /\ pc' = "idle" /\ ring = <<>>
        /\ UNCHANGED <<dev, issued>>
    BY <1>5 DEF CloseLink, logic
  <2>2. Floor >= issued - 1
    <3>1. image.cmd \notin Acked /\ Base = issued
      BY <1>0, <2>1 DEF Ending, LastCmd, Base
    <3> QED
      BY <1>0, <3>1 DEF Floor
  <2>3. dev[d].ack.of >= Floor /\ Floor \in Int
    BY <1>0, <2>1 DEF Recent, Floor
  <2> QED
    BY <1>0, <2>1, <2>2, <2>3 DEF Recent
<1>6. CASE Read
  <2>1. /\ link = "open" /\ link' = "open" /\ rx' = inputs /\ UNCHANGED <<ring, image, sent, dev, inputs, issued>>
    BY <1>6 DEF Read, logic, bus
  <2>2. Base >= issued - SEND_BUF_SIZE
    BY <1>0, ControllerAssumption DEF Base, Typed, TypeOK
  <2>3. inputs[d].ack.of = 0 \/ inputs[d].ack.of >= Base - 3
    BY <1>0, <2>1 DEF Recent
  <2>4. inputs[d].ack.of = 0 \/ inputs[d].ack.of >= issued - SEND_BUF_SIZE - 3
    BY <1>0, <2>2, <2>3, ControllerAssumption
  <2>5. Base' = Base
    BY <2>1 DEF Base
  <2> QED
    BY <2>1, <2>4, <2>5 DEF Recent, Floor
<1>7. CASE UNCHANGED <<ring, image, sent, dev, inputs, issued, link>> /\ pc' # "judge" /\ link # "closed"
  BY <1>7, RecentRests DEF Base
<1>8. CASE ReadThrows \/ IsProcessed \/ NotProcessed \/ AwaitRoom \/ \E c \in Calls : Begin(c)
  <2>1. UNCHANGED <<ring, image, sent, dev, inputs, issued, link>> /\ pc' # "judge"
    BY <1>8 DEF ReadThrows, IsProcessed, NotProcessed, AwaitRoom, Begin, Continues, Fails, logic, bus
  <2>2. link # "closed"
    BY <1>0, <1>8 DEF ReadThrows, IsProcessed, NotProcessed, AwaitRoom, Begin, Places
  <2> QED
    BY <1>7, <2>1, <2>2
<1>9. CASE SendThrows
  BY <1>9, RecentRests DEF SendThrows, Fails, bus
<1>10. CASE Lose
  BY <1>10 DEF Lose, Recent, user, logic
<1>11. CASE UNCHANGED vars
  BY <1>11 DEF vars, user, logic, bus, Recent, Floor, Base
<1>12. ~Crash
  BY ControllerAssumption DEF Crash, Typed, TypeOK
<1> QED
  BY <1>1, <1>2, <1>3, <1>4, <1>5, <1>6, <1>8, <1>9, <1>10, <1>11, <1>12 DEF Next, User

LEMMA RecentInit ==
  ASSUME Init
  PROVE  Script /\ Zeroes /\ Tidy /\ Numbered /\ \A d \in Devices : Recent(d)
<1>1. issued = 0 /\ id = 0 /\ ring = <<>> /\ todo = <<>> /\ Len(ring) = 0 /\ Len(todo) = 0 /\ Base = 0
  <2>1. issued = 0 /\ id = 0
    BY DEF Init
  <2>2. ring = <<>> /\ todo = <<>>
    BY DEF Init
  <2>3. Len(ring) = 0 /\ Len(todo) = 0
    BY <2>2
  <2>4. Base = 0
    BY <2>1, <2>3 DEF Base
  <2> QED
    BY <2>1, <2>2, <2>3, <2>4
<1>2. image.id = 0 /\ image.no = 0 /\ image.cmd = "OP"
  BY DEF Init, ZeroFrame, Frame
<1>3. \A d \in Devices : /\ dev[d].ack.id = 0 /\ inputs[d].ack.id = 0 /\ rx[d].ack.id = 0
                         /\ dev[d].ack.of = 0 /\ inputs[d].ack.of = 0 /\ rx[d].ack.of = 0
  BY DEF Init, PowerOn, NoAnswers, NoAnswer, NoAck
<1>4. Script /\ Zeroes
  BY <1>1, <1>2 DEF Script, Zeroes, Acked, Reads, Writes
<1>5. Tidy
  BY <1>1, <1>2 DEF Init, Tidy, Ending, InARow, Alone
<1>6. Numbered
  BY <1>1, <1>2, <1>3 DEF Numbered, IsAckOf, IsIdOf
<1>7. \A d \in Devices : Recent(d)
  BY <1>1, <1>3 DEF Init, Recent
<1> QED
  BY <1>4, <1>5, <1>6, <1>7

(* Ids may wrap: an acknowledgement that is believed belongs to the        *)
(* message waited for as long as the link's queue and the four messages an *)
(* answer can be behind it are fewer than the ids, over a link that loses  *)
(* nothing, with a client that is not started again and does not call      *)
(* clear(), whose message nobody acknowledges.  One id fewer and           *)
(* Controller_wraps.cfg finds a stale acknowledgement that is believed.    *)
THEOREM AcksStayTrue ==
  ASSUME SEND_BUF_SIZE + 4 < ID_LIMIT, ~Lossy, MaxRestarts = 0, "clear" \notin Calls
  PROVE  Spec => []NoFalseAck
<1>0. ID_LIMIT > 3
  BY ControllerAssumption
<1>1. Typed /\ Numbered /\ (\A d \in Devices : Recent(d)) => NoFalseAck
  <2> SUFFICES ASSUME Typed, Numbered, pc = "judge", Processed, NEW d \in Devices, Recent(d)
               PROVE  rx[d].ack.of = issued
    BY DEF NoFalseAck
  <2> DEFINE n == rx[d].ack.of
  <2>1. n \in Nat /\ issued \in Nat /\ id \in Ids
    BY AckNumbers, Numbers DEF Typed, TypeOK
  <2>2. n <= issued /\ IsIdOf(id, n) /\ IsIdOf(id, issued)
    BY DEF Numbered, IsAckOf, Processed
  <2>3. n = 0 \/ n >= issued - SEND_BUF_SIZE - 3
    BY DEF Recent
  <2>4. n = 0 => issued = 0
    BY <2>2 DEF IsIdOf
  <2> HIDE DEF n
  <2>5. n < issued => n + Cycle <= issued
    BY <1>0, <2>1, <2>2, SameIdFarApart
  <2>6. n = issued
    BY <2>1, <2>2, <2>3, <2>4, <2>5, ControllerAssumption DEF Cycle
  <2> QED
    BY <2>6 DEF n
<1>2. Init => InTurn /\ Script /\ Zeroes /\ Tidy /\ Numbered /\ \A d \in Devices : Recent(d)
  BY <1>0, InTurnInit, RecentInit
<1>3. Typed /\ Ordered /\ InTurn /\ [Next]_vars => InTurn'
  BY <1>0, InTurnNext
<1>4. Typed /\ Ordered /\ Numbered /\ [Next]_vars => Numbered'
  BY <1>0, NumberedNext
<1>5. Typed /\ InTurn /\ Script /\ Tidy /\ [Next]_vars => Tidy'
  BY TidyNext DEF InTurn
<1>6. Typed /\ InTurn /\ Zeroes /\ Tidy /\ (\A d \in Devices : Recent(d)) /\ [Next]_vars
        => (\A d \in Devices : Recent(d))'
  BY RecentNext
<1> QED
  BY <1>1, <1>2, <1>3, <1>4, <1>5, <1>6, TypedInit, TypedNext, OrderedInit, OrderedNext,
     ScriptNext, ZeroesNext, PTL DEF Spec
=============================================================================
