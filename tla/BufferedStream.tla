--------------------------- MODULE BufferedStream ---------------------------
(***************************************************************************)
(* One direction of a connection between two BufferedStreams (nodes/src/   *)
(* aggregator.rs): the buffer of the sender, what the network holds, the   *)
(* buffer of the receiver, and the length prefix while try_recv has it in  *)
(* its hands.  The network takes and gives any number of bytes at a time.  *)
(*                                                                         *)
(* Bytes are abstracted to units.  A frame has two units of length prefix, *)
(* so that it can be cut in the middle, and some units of payload; a unit  *)
(* is the object it belongs to and its place in the frame.                 *)
(***************************************************************************)
EXTENDS Integers, Sequences, SequencesExt

CONSTANTS
  Window,       \* how many units the network holds
  Payload(_)    \* how many units the payload of an object has

VARIABLES write_buf, wire, read_buf, len_bytes

stream == <<write_buf, wire, read_buf, len_bytes>>

LenBytesLen == 2
Frame(t) == [i \in 1..(LenBytesLen + Payload(t)) |-> <<t, i>>]

Least(m, n) == IF m < n THEN m ELSE n
FirstOf(units, n) == SubSeq(units, 1, n)
RestOf(units, n) == SubSeq(units, n + 1, Len(units))

-----------------------------------------------------------------------------
(* The sender: send, then one round of flush after the other. *)

Send(t) ==
  /\ write_buf' = write_buf \o Frame(t)
  /\ UNCHANGED <<wire, read_buf, len_bytes>>

Room == Window - Len(wire)

\* mutant: what is written stays in the buffer
WriteAgain ==
  /\ \E n \in 1..Least(Room, Len(write_buf)) : wire' = wire \o FirstOf(write_buf, n)
  /\ UNCHANGED <<write_buf, read_buf, len_bytes>>

WriteSome ==
  /\ \E n \in 1..Least(Room, Len(write_buf)) :
       /\ wire' = wire \o FirstOf(write_buf, n)
       /\ write_buf' = RestOf(write_buf, n)
  /\ UNCHANGED <<read_buf, len_bytes>>

Flushed == write_buf = <<>>
WriteBlocks == ~Flushed /\ Room = 0

-----------------------------------------------------------------------------
(* The receiver: try_recv reads the length and then the payload, each with *)
(* read_exact, which reads again and again until it has all of it.         *)

\* The object whose length was read.
Object == len_bytes[1][1]

Expected == IF len_bytes = <<>> THEN LenBytesLen ELSE Payload(Object)

Missing == Expected - Len(read_buf)

ReadSome ==
  /\ \E n \in 1..Least(Missing, Len(wire)) :
       /\ read_buf' = read_buf \o FirstOf(wire, n)
       /\ wire' = RestOf(wire, n)
  /\ UNCHANGED <<write_buf, len_bytes>>

ReadBlocks == Missing > 0 /\ wire = <<>>

\* mutant: a prefix that is not there in full counts as the length
TakeWhatIsThere ==
  /\ len_bytes = <<>> /\ read_buf # <<>>
  /\ len_bytes' = FirstOf(read_buf, Least(LenBytesLen, Len(read_buf)))
  /\ read_buf' = RestOf(read_buf, Len(len_bytes'))
  /\ UNCHANGED <<write_buf, wire>>

TakeLength ==
  /\ len_bytes = <<>> /\ Missing <= 0
  /\ len_bytes' = FirstOf(read_buf, LenBytesLen)
  /\ read_buf' = RestOf(read_buf, LenBytesLen)
  /\ UNCHANGED <<write_buf, wire>>

\* The payload parses if prefix and payload are one frame (see FramesWhole).
Receive ==
  /\ len_bytes # <<>> /\ Missing <= 0
  /\ len_bytes \o FirstOf(read_buf, Expected) = Frame(Object)
  /\ read_buf' = RestOf(read_buf, Expected)
  /\ len_bytes' = <<>>
  /\ UNCHANGED <<write_buf, wire>>

\* mutant: the length goes back behind what was read of the payload
UnreadBehind ==
  /\ read_buf' = read_buf \o len_bytes
  /\ len_bytes' = <<>>
  /\ UNCHANGED <<write_buf, wire>>

\* The length goes back in front of what was read of the payload.
Unread ==
  /\ read_buf' = len_bytes \o read_buf
  /\ len_bytes' = <<>>
  /\ UNCHANGED <<write_buf, wire>>

-----------------------------------------------------------------------------
(* The ends. *)

Fresh == write_buf = <<>> /\ wire = <<>> /\ read_buf = <<>> /\ len_bytes = <<>>

Connect == write_buf' = <<>> /\ wire' = <<>> /\ read_buf' = <<>> /\ len_bytes' = <<>>

\* What is only in the memory of one end goes with it.
SenderGoes == write_buf' = <<>> /\ UNCHANGED <<wire, read_buf, len_bytes>>
ReceiverGoes == read_buf' = <<>> /\ len_bytes' = <<>> /\ UNCHANGED <<write_buf, wire>>

\* A connection that is reset loses what the other end has not read.
Reset == wire # <<>> /\ wire' = <<>> /\ UNCHANGED <<write_buf, read_buf, len_bytes>>

Transit == len_bytes \o read_buf \o wire \o write_buf

Follows(unit, next) ==
  IF unit[2] = Len(Frame(unit[1])) THEN next[2] = 1
                                   ELSE next = <<unit[1], unit[2] + 1>>

\* Units that begin with a frame and in which every frame is followed by the next.
Framed(units) ==
  /\ units # <<>> => units[1][2] = 1
  /\ \A i \in 1..(Len(units) - 1) : Follows(units[i], units[i + 1])

Ends(units) ==
  units # <<>> => units[Len(units)][2] = Len(Frame(units[Len(units)][1]))

StreamOK ==
  /\ Len(wire) <= Window
  /\ Len(len_bytes) \in {0, LenBytesLen}
=============================================================================
