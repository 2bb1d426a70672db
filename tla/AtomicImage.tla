----------------------------- MODULE AtomicImage -----------------------------
(***************************************************************************)
(* What the image file promises to those who read it: it is a register.    *)
(* A reader gets one whole image, the one that was current when it opened  *)
(* the file, however often the image is replaced while it reads.           *)
(***************************************************************************)
EXTENDS Integers

CONSTANTS Readers,    \* those who read the image
          MaxFrame    \* bound: the images published in one behaviour

NoFrame == 0
Images == 1 .. MaxFrame

VARIABLES
  image,      \* the current image, NoFrame while there is none
  reading,    \* for each reader: the image it has open
  answer      \* for each reader: the last image it has read

vars == <<image, reading, answer>>

Init ==
  /\ image = NoFrame
  /\ reading = [r \in Readers |-> NoFrame]
  /\ answer = [r \in Readers |-> NoFrame]

(* A newer image takes the place of the current one. *)
Publish ==
  /\ image' \in Images
  /\ image' > image
  /\ UNCHANGED <<reading, answer>>

Open(r) ==
  /\ reading[r] = NoFrame
  /\ image # NoFrame
  /\ reading' = [reading EXCEPT ![r] = image]
  /\ UNCHANGED <<image, answer>>

Finish(r) ==
  /\ reading[r] # NoFrame
  /\ answer' = [answer EXCEPT ![r] = reading[r]]
  /\ reading' = [reading EXCEPT ![r] = NoFrame]
  /\ UNCHANGED image

Next == Publish \/ \E r \in Readers : Open(r) \/ Finish(r)

Spec == Init /\ [][Next]_vars
==============================================================================
