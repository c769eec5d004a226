------------------------------ MODULE DualLink ------------------------------
(***************************************************************************)
(* The serial link between the two chips of the dual variant: serial.cc,   *)
(* with remapper_dual_a.cc and remapper_dual_b.cc on its ends.             *)
(*                                                                         *)
(* A message is the sequence of bytes of its data and its checksum; on the *)
(* line it stands between two END bytes, and END and ESC inside of it are  *)
(* escaped.  Behind each chip's buffer is the line, which holds what the   *)
(* hardware of both ends does, and with flow control loses nothing while   *)
(* both chips run.  What is on its way is written as places of messages:   *)
(* which byte stands at a place is Byte(e).                                *)
(***************************************************************************)
EXTENDS Integers, Sequences, SequencesExt, FiniteSetsExt

CONSTANTS Bytes, END, ESC, ESC_END, ESC_ESC,
          Messages,     \* chip -> the messages it sends
          Droppable,    \* those sent with serial_write_nonblocking()
          ChecksumSize, \* 4
          BUFFER_SIZE,  \* 512, of the outgoing buffer
          ReadSize,     \* SERIAL_MAX_PAYLOAD_SIZE + 32
          LineSize,     \* what the hardware holds
          MaxRestarts   \* bound: restarts of the chips

Chips == {"A", "B"}
Other(c) == CHOOSE d \in Chips : d # c

BytesAssumption ==
  /\ {END, ESC, ESC_END, ESC_ESC} \subseteq Bytes
  /\ END # ESC /\ END # ESC_END /\ END # ESC_ESC
  /\ ESC # ESC_END /\ ESC # ESC_ESC /\ ESC_END # ESC_ESC
BufferSizesAssumption ==
  /\ BUFFER_SIZE \in Nat \ {0} /\ LineSize \in Nat \ {0} /\ ReadSize \in Nat \ {0}
  /\ MaxRestarts \in Nat
\* A message has data, and with its checksum fits in what is read into.
MessagesAssumption ==
  /\ ChecksumSize \in Nat
  /\ \A c \in Chips : \A m \in Messages[c] :
       m \in Seq(Bytes) /\ ChecksumSize < Len(m) /\ Len(m) < ReadSize
ASSUME LinkAssumption == BytesAssumption /\ BufferSizesAssumption /\ MessagesAssumption

VARIABLES
  unwritten,  \* chip -> the place serial_write() is at, in a sequence, or none
  buffer,     \* chip -> outgoing_buffer, oldest first
  line,       \* chip -> what is on its way from it
  bytes,      \* chip -> what serial_read() has gathered
  escaped,    \* chip -> the last byte read was ESC
  up,         \* chip -> it runs
  restarts,   \* how often one of them has restarted
  first,      \* history: chip -> the message the first byte gathered is of
  expected,   \* history: chip -> its messages under way, in the order sent
  atRisk,     \* history: chip -> those of them that a restart may have spoilt
  spoilt      \* history: chip -> a restart may have spoilt the next one

reading == <<bytes, escaped, first>>
history == <<expected, atRisk, spoilt>>
link == <<unwritten, buffer, line, reading, up, restarts, history>>

Frames == [message : Seq(Bytes), id : Nat]
Places == [of : Frames, at : Nat, half : BOOLEAN]

LinkTypeOK ==
  /\ unwritten \in [Chips -> Seq(Places)] /\ \A c \in Chips : Len(unwritten[c]) <= 1
  /\ buffer \in [Chips -> Seq(Places)] /\ \A c \in Chips : Len(buffer[c]) <= BUFFER_SIZE
  /\ line \in [Chips -> Seq(Places)] /\ \A c \in Chips : Len(line[c]) <= LineSize
  /\ bytes \in [Chips -> Seq(Bytes)] /\ \A c \in Chips : Len(bytes[c]) <= ReadSize
  /\ escaped \in [Chips -> BOOLEAN] /\ up \in [Chips -> BOOLEAN]
  /\ restarts \in 0 .. MaxRestarts
  /\ first \in [Chips -> Frames] /\ expected \in [Chips -> Seq(Frames)]
  /\ atRisk \in [Chips -> SUBSET Frames] /\ spoilt \in [Chips -> BOOLEAN]

NoFrame == [message |-> << >>, id |-> 0]

LinkInit ==
  /\ unwritten = [c \in Chips |-> << >>]
  /\ buffer = [c \in Chips |-> << >>]
  /\ line = [c \in Chips |-> << >>]
  /\ bytes = [c \in Chips |-> << >>]
  /\ escaped = [c \in Chips |-> FALSE]
  /\ up = [c \in Chips |-> TRUE]
  /\ restarts = 0
  /\ first = [c \in Chips |-> NoFrame]
  /\ expected = [c \in Chips |-> << >>]
  /\ atRisk = [c \in Chips |-> {}]
  /\ spoilt = [c \in Chips |-> FALSE]

\* What is on its way from c, from the place that is read next.
Way(c) == line[c] \o buffer[c] \o unwritten[c]
-----------------------------------------------------------------------------
(* Writing.                                                                *)

\* The place of the k-th byte of f, which the END bytes are 0 and Len + 1 of; of
\* a byte that is escaped there are two halves.
Escapes(f, k) == k \in 1 .. Len(f.message) /\ f.message[k] \in {END, ESC}
Place(f, k) == [of |-> f, at |-> k, half |-> Escapes(f, k)]
Ends(e) == e.at = Len(e.of.message) + 1

\* What serial_write() puts next.
Behind(e) == IF e.half THEN [e EXCEPT !.half = FALSE] ELSE Place(e.of, e.at + 1)

\* send_escaped_byte()
Byte(e) ==
  IF e.at = 0 \/ Ends(e) THEN END
  ELSE IF e.half THEN ESC
  ELSE LET b == e.of.message[e.at] IN
       IF b = END THEN ESC_END ELSE IF b = ESC THEN ESC_ESC ELSE b

\* bytes_to_send
BytesToSend(m) == Len(m) + 2 + Quantify(1 .. Len(m), LAMBDA i : m[i] \in {END, ESC})

\* An id no message under way has.
FreeId(c) == CHOOSE n \in 1 .. Len(expected[c]) + 1 :
               \A i \in DOMAIN expected[c] : expected[c][i].id # n

\* serial_write() begins; a message that may be dropped is, when the buffer has
\* no room for all of it.
Write(c) ==
  /\ up[c] /\ unwritten[c] = << >>
  /\ \E m \in Messages[c] :
       LET f == [message |-> m, id |-> FreeId(c)] IN
       /\ m \in Droppable => BytesToSend(m) <= BUFFER_SIZE - Len(buffer[c])
       /\ unwritten' = [unwritten EXCEPT ![c] = <<Place(f, 0)>>]
       /\ expected' = [expected EXCEPT ![c] = Append(@, f)]
       /\ atRisk' = [atRisk EXCEPT ![c] = IF spoilt[c] THEN @ \cup {f} ELSE @]
       /\ spoilt' = [spoilt EXCEPT ![c] = FALSE]
  /\ UNCHANGED <<buffer, line, reading, up, restarts>>

Writable(c) == Len(line[c]) < LineSize

\* my_putc(): it waits for the line when the buffer is full.
PutByte(c) ==
  /\ unwritten[c] # << >>
  /\ LET e == Head(unwritten[c]) IN
     /\ unwritten' = [unwritten EXCEPT ![c] = IF Ends(e) THEN << >> ELSE <<Behind(e)>>]
     /\ \/ /\ buffer[c] = << >> /\ Writable(c)
           /\ line' = [line EXCEPT ![c] = Append(@, e)]
           /\ UNCHANGED buffer
        \/ /\ ~(buffer[c] = << >> /\ Writable(c)) /\ Len(buffer[c]) < BUFFER_SIZE
           /\ buffer' = [buffer EXCEPT ![c] = Append(@, e)]
           /\ UNCHANGED line
        \/ /\ Len(buffer[c]) = BUFFER_SIZE /\ Writable(c)
           /\ line' = [line EXCEPT ![c] = Append(@, Head(buffer[c]))]
           /\ buffer' = [buffer EXCEPT ![c] = Append(Tail(@), e)]
  /\ UNCHANGED <<reading, up, restarts, history>>

\* serial_read() first puts what it can of the buffer on the line.
Pump(c) ==
  /\ unwritten[c] = << >> /\ buffer[c] # << >> /\ Writable(c)
  /\ line' = [line EXCEPT ![c] = Append(@, Head(buffer[c]))]
  /\ buffer' = [buffer EXCEPT ![c] = Tail(@)]
  /\ UNCHANGED <<unwritten, reading, up, restarts, history>>
-----------------------------------------------------------------------------
(* Reading.                                                                *)

\* bytes_read %= sizeof(buffer)
Gathered(c) == IF Len(bytes[c]) = ReadSize THEN << >> ELSE bytes[c]

\* Mutant: the byte behind ESC is taken as it is.
UnescapedLiterally(b) == b

Unescaped(b) == IF b = ESC_END THEN END ELSE IF b = ESC_ESC THEN ESC ELSE b

\* What has been gathered passes the checksum, which is taken to be ideal: bytes
\* of a message pass it when they are all of that message.
Passes(c) == Len(Gathered(c)) > ChecksumSize /\ Gathered(c) = first[c].message

\* There is a byte for serial_read(), and it ends what it has gathered.
Readable(c) == up[c] /\ unwritten[c] = << >> /\ line[Other(c)] # << >>
ReadsEnd(c) == ~escaped[c] /\ Byte(Head(line[Other(c)])) = END

\* With message f a message of s arrives, and the ones before it do not any more.
Arrived(s, f) ==
  \E k \in DOMAIN expected[s] :
    LET rest == SubSeq(expected[s], k + 1, Len(expected[s])) IN
    /\ expected[s][k] = f
    /\ expected' = [expected EXCEPT ![s] = rest]
    /\ atRisk' = [atRisk EXCEPT ![s] = @ \cap ToSet(rest)]
    /\ UNCHANGED spoilt

\* One turn of the loop in serial_read().
ReadByte(c) ==
  LET s == Other(c)
      e == Head(line[s])
      data == IF escaped[c] THEN <<Unescaped(Byte(e))>>
              ELSE IF Byte(e) \in {END, ESC} THEN << >> ELSE <<Byte(e)>>
      now == IF ReadsEnd(c) THEN << >> ELSE Gathered(c) \o data
  IN
  /\ Readable(c)
  /\ line' = [line EXCEPT ![s] = Tail(@)]
  /\ escaped' = [escaped EXCEPT ![c] = ~escaped[c] /\ Byte(e) = ESC]
  /\ bytes' = [bytes EXCEPT ![c] = now]
  /\ first' = [first EXCEPT ![c] =
       IF now = << >> THEN NoFrame ELSE IF Gathered(c) = << >> THEN e.of ELSE @]
  /\ IF ReadsEnd(c) /\ Passes(c) THEN Arrived(s, first[c]) ELSE UNCHANGED history
  /\ UNCHANGED <<unwritten, buffer, up, restarts>>
-----------------------------------------------------------------------------
(* Restarts.                                                               *)

Position(s, f) == CHOOSE k \in DOMAIN expected[s] : expected[s][k] = f

\* The messages of s up to f, and those that begin on the way, or are left there.
UpTo(s, f) == IF f = NoFrame THEN << >> ELSE SubSeq(expected[s], 1, Position(s, f))
Left(s, way) ==
  IF way = << >> THEN << >>
  ELSE SubSeq(expected[s], Position(s, Head(way).of), Len(expected[s]))

\* The message that is on the way without its beginning.
Beheaded(way) == IF way = << >> \/ Head(way).at = 0 THEN {} ELSE {Head(way).of}

\* A chip restarts, because it is told to or when it has been flashed.  What it
\* had to say is cut off where it is, also on the line behind the n-th byte, and
\* it forgets what it has read.  The messages that are cut in two may be spoilt,
\* and its next one, if the cut is in an escape, as it may be taken for a part.
Restart(c) ==
  LET s == Other(c)
      left == Left(s, Way(s)) IN
  /\ restarts < MaxRestarts /\ up[c]
  /\ restarts' = restarts + 1
  /\ up' = [up EXCEPT ![c] = FALSE]
  /\ unwritten' = [unwritten EXCEPT ![c] = << >>]
  /\ buffer' = [buffer EXCEPT ![c] = << >>]
  /\ bytes' = [bytes EXCEPT ![c] = << >>]
  /\ escaped' = [escaped EXCEPT ![c] = FALSE]
  /\ first' = [first EXCEPT ![c] = NoFrame]
  /\ \E n \in 0 .. Len(line[c]) :
       LET cut == IF n > 0 THEN line[c][n].of ELSE first[s]
           sent == UpTo(c, cut)
           halved == IF n > 0 /\ Ends(line[c][n]) THEN {} ELSE {cut} IN
       /\ line' = [line EXCEPT ![c] = SubSeq(@, 1, n)]
       /\ expected' = [expected EXCEPT ![c] = sent, ![s] = left]
       /\ atRisk' = [atRisk EXCEPT
            ![c] = (@ \cup halved) \cap ToSet(sent),
            ![s] = (@ \cup Beheaded(Way(s))) \cap ToSet(left)]
       /\ spoilt' = [spoilt EXCEPT ![c] = IF n > 0 THEN line[c][n].half ELSE escaped[s]]

\* What is on the line to a chip that does not run yet gets lost.
Miss(c) ==
  LET s == Other(c)
      way == Tail(line[s]) \o buffer[s] \o unwritten[s] IN
  /\ ~up[c] /\ line[s] # << >>
  /\ line' = [line EXCEPT ![s] = Tail(@)]
  /\ expected' = [expected EXCEPT ![s] = Left(s, way)]
  /\ atRisk' = [atRisk EXCEPT ![s] = (@ \cup Beheaded(way)) \cap ToSet(Left(s, way))]
  /\ UNCHANGED <<unwritten, buffer, reading, up, restarts, spoilt>>

Boot(c) ==
  /\ ~up[c]
  /\ up' = [up EXCEPT ![c] = TRUE]
  /\ UNCHANGED <<unwritten, buffer, line, reading, restarts, history>>

LinkNext == \E c \in Chips : \/ Write(c) \/ PutByte(c) \/ Pump(c) \/ ReadByte(c)
                             \/ Restart(c) \/ Miss(c) \/ Boot(c)

LinkSpec == LinkInit /\ [][LinkNext]_link
-----------------------------------------------------------------------------
(* Properties.                                                             *)

\* Messages arrive whole and in the order sent: with the next byte the oldest one
\* does that no restart may have spoilt, or one that is older.  None gets lost
\* otherwise, and when nothing is on its way, there is none left to arrive.  What
\* a restart may spoil is the message it cuts in two, of the chip that restarts or
\* to it, and the one behind it, when the cut is in an escape.
LossesOnlyByRestart ==
  \A c \in Chips :
    LET s == Other(c) IN
    /\ Readable(c) /\ ReadsEnd(c) /\ Passes(c) =>
         \E k \in DOMAIN expected[s] :
           expected[s][k] = first[c] /\ \A j \in 1 .. k - 1 : expected[s][j] \in atRisk[s]
    /\ Way(s) = << >> => ToSet(expected[s]) \subseteq atRisk[s]
=============================================================================
