-------------------------------- MODULE Framing --------------------------------
(***************************************************************************)
(* One direction of a connection, byte by byte: IO::send with rio_writen   *)
(* on one side and IO::receive with put_to_buffer on the other.  A frame   *)
(* is the length of the rest in decimal, padded to four digits, the        *)
(* string, and a newline.  write and read transfer as many bytes as they   *)
(* like, either side may go away between any two calls.                    *)
(*                                                                         *)
(* Width is 4 and Base is 10 in the code.  A digit is a number, any other  *)
(* byte a model value; what the strings say does not matter here.  No      *)
(* program installs a signal handler, so that no call is interrupted.      *)
(***************************************************************************)
EXTENDS Integers, SequencesExt

CONSTANTS
  Base,       \* of the digits of a length
  Width,      \* to which setw pads a length
  Newline,    \* the byte that ends a frame
  Letters,    \* bytes that are neither a digit nor the newline
  Strings,    \* what the program sends
  NoString,
  Capacity,   \* bound on the bytes in the socket
  MaxSent     \* bound on the number of strings sent

Digits == 0 .. Base - 1
Bytes  == Digits \cup Letters \cup {Newline}

ASSUME FramingAssumption ==
  /\ Base \in Nat \ {0, 1}
  /\ Width \in Nat \ {0}
  /\ Newline \notin Digits \cup Letters
  /\ Letters \cap Digits = {}
  /\ Strings \subseteq Seq(Bytes)
  /\ NoString \notin Strings
  /\ Capacity \in Nat \ {0}
  /\ MaxSent \in Nat

VARIABLES
  sender,     \* "idle", "sending" or "closed"
  outgoing,   \* what rio_writen has still to write
  stream,     \* bytes in the socket
  reader,     \* "length", "body", "failed" or "closed"
  buffer,     \* what put_to_buffer has read
  wanted,     \* its byte_size
  sent,       \* history: the strings given to IO::send
  received    \* history: the strings IO::receive has returned

vars == <<sender, outgoing, stream, reader, buffer, wanted, sent, received>>

-------------------------------------------------------------------------------
(* Frames *)

power[w \in Nat] == IF w = 0 THEN 1 ELSE Base * power[w - 1]

(* setw pads a length that is too short and does not cut one too long. *)
width(n) ==
  CHOOSE w \in Width .. Width + n :
    n < power[w] /\ (w = Width \/ n >= power[w - 1])

Length(n) == [i \in 1 .. width(n) |-> (n \div power[width(n) - i]) % Base]

(* Mutant: the newline is not counted. *)
Frame_Short(s) == Length(Len(s)) \o s \o <<Newline>>

Frame(s) == Length(Len(s) + 1) \o s \o <<Newline>>

stoi(digits) ==
  LET value[k \in 0 .. Len(digits)] ==
        IF k = 0 THEN 0 ELSE value[k - 1] * Base + digits[k]
  IN  value[Len(digits)]

(* A string whose length does not fit in the length field. *)
TooLong(s) == Len(s) + 1 >= power[Width]

(* receive can be trusted with strings that are too long only if none of   *)
(* their bytes is taken for the newline of a frame.  The strings that the  *)
(* programs send are one line each: what a user gives is read with getline *)
(* (updater_main.cpp:48-52, client_util.cpp:17-22), and encode puts no     *)
(* newline between the parts.                                              *)
LongIsOneLine ==
  \A s \in Strings : TooLong(s) => \A i \in 1 .. Len(s) : s[i] # Newline

-------------------------------------------------------------------------------
Init ==
  /\ sender = "idle" /\ outgoing = << >>
  /\ stream = << >>
  /\ reader = "length" /\ buffer = << >> /\ wanted = Width
  /\ sent = << >> /\ received = << >>

(* IO::send builds the frame and calls rio_writen. *)
send(s) ==
  /\ sender = "idle"
  /\ Len(sent) < MaxSent
  /\ sender' = "sending"
  /\ outgoing' = Frame(s)
  /\ sent' = Append(sent, s)
  /\ UNCHANGED <<stream, reader, buffer, wanted, received>>

(* Mutant: a short write is taken for a complete one. *)
write_Once ==
  /\ sender = "sending"
  /\ \E n \in 1 .. Len(outgoing) :
       /\ Len(stream) + n <= Capacity
       /\ stream' = stream \o SubSeq(outgoing, 1, n)
       /\ outgoing' = << >>
       /\ sender' = "idle"
  /\ UNCHANGED <<reader, buffer, wanted, sent, received>>

(* One call of write in the loop of rio_writen, which ends with the frame. *)
write ==
  /\ sender = "sending"
  /\ \E n \in 1 .. Len(outgoing) :
       /\ Len(stream) + n <= Capacity
       /\ stream' = stream \o SubSeq(outgoing, 1, n)
       /\ outgoing' = SubSeq(outgoing, n + 1, Len(outgoing))
       /\ sender' = IF n = Len(outgoing) THEN "idle" ELSE "sending"
  /\ UNCHANGED <<reader, buffer, wanted, sent, received>>

(* The sending side goes away: write fails because the reader has gone and *)
(* IO::send throws, or the program ends, in the middle of a frame or not.  *)
sender_closes ==
  /\ sender # "closed"
  /\ sender' = "closed"
  /\ outgoing' = << >>
  /\ UNCHANGED <<stream, reader, buffer, wanted, sent, received>>

Reading == reader \in {"length", "body"}

(* Mutant: each read is given byte_size, whatever has been read before. *)
read_TooMuch ==
  /\ Reading
  /\ Len(buffer) < wanted
  /\ \E n \in 1 .. wanted :
       /\ n <= Len(stream)
       /\ buffer' = buffer \o SubSeq(stream, 1, n)
       /\ stream' = SubSeq(stream, n + 1, Len(stream))
  /\ UNCHANGED <<sender, outgoing, reader, wanted, sent, received>>

(* One call of read in the loop of put_to_buffer. *)
read ==
  /\ Reading
  /\ Len(buffer) < wanted
  /\ \E n \in 1 .. wanted - Len(buffer) :
       /\ n <= Len(stream)
       /\ buffer' = buffer \o SubSeq(stream, 1, n)
       /\ stream' = SubSeq(stream, n + 1, Len(stream))
  /\ UNCHANGED <<sender, outgoing, reader, wanted, sent, received>>

(* IO::receive throws IOException; its callers close the connection. *)
Throw ==
  /\ reader' = "failed"
  /\ UNCHANGED <<sender, outgoing, stream, buffer, wanted, sent, received>>

(* read returns 0, or -1 if the connection is reset before all was read. *)
read_ends ==
  /\ Reading
  /\ Len(buffer) < wanted
  /\ sender = "closed"
  /\ Throw

LengthRead == reader = "length" /\ Len(buffer) = wanted
BodyRead   == reader = "body" /\ Len(buffer) = wanted

ensure_valid_string(message) == \A i \in 1 .. Len(message) : message[i] \in Digits

ValidLength == ensure_valid_string(buffer) /\ stoi(buffer) >= 1

accept_length ==
  /\ LengthRead
  /\ ValidLength
  /\ reader' = "body"
  /\ wanted' = stoi(buffer)
  /\ buffer' = << >>
  /\ UNCHANGED <<sender, outgoing, stream, sent, received>>

(* Mutant: the newline is left at the end of the string. *)
return_string_Whole ==
  /\ BodyRead
  /\ Last(buffer) = Newline
  /\ received' = Append(received, buffer)
  /\ reader' = "length"
  /\ wanted' = Width
  /\ buffer' = << >>
  /\ UNCHANGED <<sender, outgoing, stream, sent>>

(* IO::receive returns, and is called again for the next string. *)
return_string ==
  /\ BodyRead
  /\ Last(buffer) = Newline
  /\ received' = Append(received, Front(buffer))
  /\ reader' = "length"
  /\ wanted' = Width
  /\ buffer' = << >>
  /\ UNCHANGED <<sender, outgoing, stream, sent>>

(* What was read is not a length, or not the rest of a frame.  IO::send     *)
(* never causes the former.                                                *)
Malformed ==
  \/ LengthRead /\ ~ValidLength
  \/ BodyRead /\ Last(buffer) # Newline

refuse ==
  /\ Malformed
  /\ Throw

(* The receiving program ends. *)
reader_closes ==
  /\ Reading
  /\ reader' = "closed"
  /\ UNCHANGED <<sender, outgoing, stream, buffer, wanted, sent, received>>

receive ==
  \/ read \/ read_ends
  \/ accept_length \/ return_string \/ refuse

Next ==
  \/ \E s \in Strings : send(s)
  \/ write \/ sender_closes
  \/ receive \/ reader_closes

Spec == Init /\ [][Next]_vars

(* Both threads are scheduled; nobody has to send or to go away. *)
FairSpec == Spec /\ WF_vars(write) /\ WF_vars(receive)

-------------------------------------------------------------------------------
(* Properties *)

(* Types; put_to_buffer never writes beyond the byte_size bytes of its     *)
(* buffer (io.cpp:14-25), and the socket holds what it can.                *)
TypeOK ==
  /\ sender \in {"idle", "sending", "closed"}
  /\ outgoing \in Seq(Bytes)
  /\ (sender = "sending") = (outgoing # << >>)
  /\ stream \in Seq(Bytes) /\ Len(stream) <= Capacity
  /\ reader \in {"length", "body", "failed", "closed"}
  /\ wanted \in Nat \ {0}
  /\ buffer \in Seq(Bytes) /\ Len(buffer) <= wanted
  /\ sent \in Seq(Strings) /\ received \in Seq(Seq(Bytes))

(* However the bytes are cut up by short writes and reads, and wherever    *)
(* the sender stops, IO::receive returns the strings that IO::send was     *)
(* given, whole, in their order and once each (io.cpp:43-83).              *)
pipe == INSTANCE Pipe WITH
  transit <- SubSeq(sent, Len(received) + 1, Len(sent)),
  last    <- IF received = << >> THEN NoString ELSE Last(received),
  broken  <- ~Reading

IsPipe == pipe!PipeSpec

(* IO::receive throws only because the other side has gone, or at a string *)
(* whose length does not fit in the four digits it reads (io.cpp:61-79).   *)
FailsForCause ==
  reader = "failed" =>
    \/ sender = "closed"
    \/ /\ Len(received) < Len(sent)
       /\ TooLong(sent[Len(received) + 1])

(* IO::receive throws only because the other side has gone, which io.cpp:47 *)
(* sees to by a length of four digits.                                      *)
FailsOnlyAtTheEnd == reader = "failed" => sender = "closed"

(* A string that fits arrives if both sides stay, although write and read  *)
(* may transfer a byte at a time and the socket may be full (io.cpp:43-83, *)
(* csapp.cpp:784-801).                                                     *)
EveryStringArrives ==
  \A k \in 1 .. MaxSent :
    Len(sent) = k ~>
      \/ Len(received) >= k
      \/ sender = "closed" \/ reader = "closed"
      \/ \E i \in 1 .. Len(sent) : TooLong(sent[i])
===============================================================================
