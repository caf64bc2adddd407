------------------------------ MODULE FrameLink ------------------------------
(***************************************************************************)
(* What a link promises to those above it.  Frames are queued, taken one   *)
(* after the other into an image, and carried to the devices by exchanges, *)
(* each of which reads the image as it is: again and again until it is     *)
(* replaced.  Nothing is lost, doubled or overtaken in the queue.  Nothing *)
(* locks the image, so that an exchange can find the body of the frame     *)
(* before, the first time it reads a new one, or already the body of the   *)
(* next.  Skips says how many images may go by unseen.                     *)
(***************************************************************************)
EXTENDS Naturals, Sequences

CONSTANTS Capacity,  \* how many frames the queue holds
          Frames,    \* the frames that may be sent
          Skips      \* images that may be replaced between two exchanges

VARIABLES queue,     \* frames accepted and not taken yet, oldest first
          image,     \* the frame taken last
          before,    \* the one before it
          unseen,    \* images taken since the last exchange
          wire       \* body and header of the last exchange

vars == <<queue, image, before, unseen, wire>>

Init ==
  /\ queue = << >> /\ image = 0 /\ before = 0
  /\ unseen = 0 /\ wire = [body |-> 0, hdr |-> 0]

Put ==
  /\ Len(queue) < Capacity
  /\ \E f \in Frames : queue' = Append(queue, f)
  /\ UNCHANGED <<image, before, unseen, wire>>

(* The next frame may be taken when enough of the images were seen.        *)
MayTake == queue # << >> /\ unseen <= Skips

Take ==
  /\ MayTake
  /\ queue' = Tail(queue) /\ image' = Head(queue) /\ before' = image
  /\ unseen' = unseen + 1
  /\ UNCHANGED wire

(* The bodies an exchange can find beside the header of the image.         *)
Bodies ==
  {image} \cup (IF unseen > 0 THEN {before} ELSE {})
          \cup (IF MayTake THEN {Head(queue)} ELSE {})

Exchange ==
  /\ \E b \in Bodies : wire' = [body |-> b, hdr |-> image]
  /\ unseen' = 0
  /\ UNCHANGED <<queue, image, before>>

Next == Put \/ Take \/ Exchange

Spec == Init /\ [][Next]_vars
=============================================================================
