------------------------------ MODULE Framing ------------------------------
(***************************************************************************)
(* The unicast framing: envelopes as length-prefixed frames in the byte    *)
(* stream of one TCP connection, and the FrameDecoder that takes them out  *)
(* of it again, with what the receiving agent then does with each.         *)
(*                                                                         *)
(* The stream is external: it keeps the order of the bytes and hands them  *)
(* over in pieces cut anywhere, inside a length prefix too.  The text of   *)
(* an envelope is a sequence of characters, which UTF-8 writes with one    *)
(* byte or with several; bytes are narrower than in the code.              *)
(***************************************************************************)
EXTENDS Envelope, SequencesExt

CONSTANTS
  Me,            \* the receiving agent
  Envelopes,     \* what peers may send
  Text,          \* JSON.stringify: the characters of each envelope, as their bytes
  Base,          \* values of a byte
  Unparsable,    \* what is no envelope's text
  MaxSent        \* envelopes sent over the connection

\* FRAME_LENGTH_PREFIX_BYTES.
PrefixBytes == 4

Bytes == 0 .. Base - 1

\* Buffer.from(JSON.stringify(e), "utf8").
Body == [e \in Envelopes |-> FlattenSeq(Text[e])]

ASSUME FramingAssumption ==
  /\ Base \in Nat \ {0} /\ MaxSent \in Nat
  /\ Unparsable \notin Envelopes
  /\ \A e \in Envelopes : /\ Body[e] \in Seq(Bytes)
                          /\ Len(Body[e]) < Base * Base * Base * Base
  /\ \A e, f \in Envelopes : Body[e] = Body[f] => e = f

VARIABLES
  status,    \* of the connection: "open"; "left": its writer has ended; "ended"
  stream,    \* bytes written and not yet handed to the receiver
  buffer,    \* FrameDecoder.buffer
  sent,      \* history: what has been written
  got,       \* history: what the decoder has returned
  outcome    \* history: what became of each of them

vars == <<status, stream, buffer, sent, got, outcome>>

Init ==
  /\ status = "open"
  /\ stream = <<>> /\ buffer = <<>>
  /\ sent = <<>> /\ got = <<>> /\ outcome = <<>>

-----------------------------------------------------------------------------
(* encodeFrame. *)

\* writeUInt32BE, from the last byte.
Prefix(length) ==
  LET third == length \div Base
      second == third \div Base
      first == second \div Base
  IN <<first % Base, second % Base, third % Base, length % Base>>

EncodeFrame(e) == Prefix(Len(Body[e])) \o Body[e]

\* write of a socket that is open.
Write(e) ==
  /\ status = "open" /\ Len(sent) < MaxSent
  /\ sent' = Append(sent, e)
  /\ stream' = stream \o EncodeFrame(e)
  /\ UNCHANGED <<status, buffer, got, outcome>>

-----------------------------------------------------------------------------
(* FrameDecoder. *)

\* readUInt32BE(0).
ReadLength(bytes) == ((bytes[1] * Base + bytes[2]) * Base + bytes[3]) * Base + bytes[4]

\* JSON.parse.
Parse(bytes) ==
  LET like == {e \in Envelopes : Body[e] = bytes}
  IN IF like = {} THEN Unparsable ELSE CHOOSE e \in like : TRUE

\* Mutant of Whole: a frame waits for what comes after it.
WholeAndMore(bytes) ==
  Len(bytes) >= PrefixBytes /\ Len(bytes) > PrefixBytes + ReadLength(bytes)

\* The buffer begins with a whole frame.
Whole(bytes) ==
  Len(bytes) >= PrefixBytes /\ Len(bytes) >= PrefixBytes + ReadLength(bytes)

\* The loop of push: the envelopes taken out and the bytes that stay.
Drain[bytes \in Seq(Bytes)] ==
  IF ~Whole(bytes) THEN [out |-> <<>>, rest |-> bytes]
  ELSE LET total == PrefixBytes + ReadLength(bytes)
           after == Drain[SubSeq(bytes, total + 1, Len(bytes))]
       IN [out |-> <<Parse(SubSeq(bytes, PrefixBytes + 1, total))>> \o after.out,
           rest |-> after.rest]

\* Mutant of Push: one envelope of a data event.
PushOne(chunk) ==
  LET all == Drain[buffer \o chunk]
  IN [out |-> IF all.out = <<>> THEN <<>> ELSE <<Head(all.out)>>, rest |-> all.rest]

Push(chunk) == Drain[buffer \o chunk]

\* decryptInbound: a malformed envelope is not even tried.
Read(e) ==
  IF ~e.encrypted THEN "clear"
  ELSE IF ValidateEnvelope(e) = "MALFORMED_CRYPTO_FIELDS" THEN "malformed"
  ELSE IF Opens(e) THEN "decrypted" ELSE "undecryptable"

\* receive, with receiveUnicast of the agent.
Receive(e) == IF e.recipientId = Me THEN Read(e) ELSE "mismatch"

\* A data event with the next n bytes of the stream: what the decoder returns is
\* received one by one before anything else runs.
Data(n) ==
  LET pushed == Push(SubSeq(stream, 1, n)) IN
  /\ status # "ended" /\ n \in 1 .. Len(stream)
  /\ stream' = SubSeq(stream, n + 1, Len(stream))
  /\ buffer' = pushed.rest
  /\ got' = got \o pushed.out
  /\ outcome' = outcome \o [i \in DOMAIN pushed.out |-> Receive(pushed.out[i])]
  /\ UNCHANGED <<status, sent>>

-----------------------------------------------------------------------------
(* The end of the connection. *)

\* The writer's process ends; of what it had written the kernel has taken a part.
Leave ==
  /\ status = "open" /\ status' = "left"
  /\ \E n \in 0 .. Len(stream) : stream' = SubSeq(stream, 1, n)
  /\ UNCHANGED <<buffer, sent, got, outcome>>

\* The connection is reset, or all has been read: what the decoder holds goes with it.
End ==
  /\ status # "ended" /\ status' = "ended"
  /\ stream' = <<>> /\ buffer' = <<>>
  /\ UNCHANGED <<sent, got, outcome>>

Next ==
  \/ \E e \in Envelopes : Write(e)
  \/ \E n \in 1 .. Len(stream) : Data(n)
  \/ Leave \/ End

\* The stream delivers what it has; the end of one whose writer is gone is noticed.
Fairness ==
  /\ WF_vars(\E n \in 1 .. Len(stream) : Data(n))
  /\ WF_vars(status = "left" /\ End)

Spec == Init /\ [][Next]_vars /\ Fairness

-----------------------------------------------------------------------------

Abstract == INSTANCE Channel

\* unicast-framing.ts:8: the decoder "yields exactly the complete envelopes": each that
\* was written comes out once, whole and in order, however the stream is cut, as long
\* as the connection lasts, and never a part of one.
ImplementsChannel == Abstract!Spec

\* While the connection lasts, what has arrived has come out of the decoder: no complete
\* envelope waits in its buffer for the next data event.
NothingHeldBack == status = "open" /\ stream = <<>> => got = sent

\* What an agent can build for a peer.
Built(e) ==
  \E r \in {e.recipientId} :
    LET env == BuildEnvelope("unicast", r, Undefined, Undefined)
    IN e \in {env, EncryptOutbound(env)}

\* BR-15, BR-16: what an agent has built is read by its addressee, and an encrypted
\* envelope without its iv or its tag is reported as malformed and not decrypted.
ReadsWhatIsBuilt ==
  \A i \in DOMAIN got :
    LET e == got[i] IN
    e.recipientId = Me =>
      /\ Built(e) => outcome[i] = IF e.encrypted THEN "decrypted" ELSE "clear"
      /\ e.encrypted /\ (Missing(e.iv) \/ Missing(e.authTag)) => outcome[i] = "malformed"
=============================================================================
