------------------------------ MODULE PduStream ------------------------------
(***************************************************************************)
(* The binary protocol of protocol.py over one TCP connection: what a      *)
(* client writes, the server cuts into PDUs, decodes and answers, and what *)
(* the client makes of the answers.  The threads in between are the        *)
(* subject of Client and TcpServer; here a read, the parsing and the       *)
(* answers are one step.                                                   *)
(*                                                                         *)
(* Bytes are digits of a Radix, and one digit, the tag, stands for magic,  *)
(* version, type and flags, one for the body length.  What decides the     *)
(* parse is kept: the big-endian length, its limit, which is below         *)
(* Radix^(LenSize - 1) as 0x10001c is below 2^24, and the checks of the    *)
(* header.                                                                 *)
(* Left out: seq and client_ns, which are copied; the numbers in the       *)
(* trailer and in the STATUS body.                                         *)
(***************************************************************************)
EXTENDS Integers, Sequences, SequencesExt

CONSTANTS Radix,     \* bytes are 0..(Radix - 1)
          LenSize,   \* LEN_SIZE
          MaxBody,   \* MAX_BODY
          TmSize,    \* TELEMETRY_SIZE
          StatusSize,\* length of a STATUS body
          Cap,       \* the server's limit on unparsed bytes, 2_000_000
          Chunk,     \* bytes per recv(), 65536
          JunkBytes, \* bytes a client may write between its requests
          MaxItems   \* bound on the requests and junk bytes written

Byte     == 0..(Radix - 1)
HdrSize  == 2                    \* INNER_HDR_SIZE: the tag and the body length
MaxTotal == MaxBody + HdrSize

\* Tags: type and flags of a PDU with the right magic and version.
EchoReq == 1
EchoTm  == 2
StatusReq  == 3
StatusResp == 4

ASSUME StreamAssumption ==
  /\ Radix \in Nat /\ LenSize \in Nat \ {0, 1}
  /\ MaxBody \in Nat \ {0} /\ TmSize \in Nat \ {0} /\ StatusSize \in 0..MaxBody
  /\ Chunk \in Nat \ {0} /\ Cap \in Nat /\ MaxItems \in Nat
  /\ MaxTotal + TmSize < Radix /\ StatusResp < Radix
  /\ JunkBytes \subseteq Byte
  /\ Cap >= LenSize + MaxTotal - 1 + Chunk

VARIABLES items,     \* what the client has written: requests and single junk bytes
          up,        \* bytes on their way to the server
          sbuf,      \* buf of Server._read_conn
          serving,   \* FALSE when the limit has closed the connection
          popped,    \* the frames the server has cut
          down,      \* bytes on their way to the client
          cbuf,      \* buf of Client._read_sock
          answers    \* the responses the client has accepted

vars == <<items, up, sbuf, serving, popped, down, cbuf, answers>>

-----------------------------------------------------------------------------
(* Encoding and decoding *)

Power[k \in Nat] == IF k = 0 THEN 1 ELSE Radix * Power[k - 1]

BigEndian[digits \in Seq(Byte)] ==
  IF digits = <<>> THEN 0
  ELSE Head(digits) * Power[Len(digits) - 1] + BigEndian[Tail(digits)]

Length(n) == [i \in 1..LenSize |-> (n \div Power[LenSize - i]) % Radix]

Encode(tag, body) == Length(HdrSize + Len(body)) \o <<tag, Len(body)>> \o body

Total(raw)   == BigEndian[SubSeq(raw, 1, LenSize)]
Tag(raw)     == raw[LenSize + 1]
BodyLen(raw) == raw[LenSize + 2]
Body(raw)    == SubSeq(raw, LenSize + HdrSize + 1, Len(raw))

\* decode_pdu and decode_inner return a frame.
Decodes(raw) ==
  /\ Len(raw) >= LenSize + HdrSize
  /\ Total(raw) = Len(raw) - LenSize /\ Total(raw) <= MaxTotal
  /\ Tag(raw) \in {EchoReq, EchoTm, StatusReq, StatusResp}
  /\ BodyLen(raw) = Len(Body(raw)) /\ BodyLen(raw) <= MaxBody
  /\ Tag(raw) = EchoTm => Len(Body(raw)) >= TmSize

\* Defective variant: the trailer is left on the payload.
PayloadWithTrailer(raw) == Body(raw)

\* The payload of a frame: its body without the telemetry trailer.
Payload(raw) ==
  IF Tag(raw) = EchoTm THEN SubSeq(Body(raw), 1, Len(Body(raw)) - TmSize) ELSE Body(raw)

IsReq(raw)  == Decodes(raw) /\ Tag(raw) \in {EchoReq, StatusReq}
IsResp(raw) == Decodes(raw) /\ Tag(raw) \in {EchoTm, StatusResp}

Zeros(n) == [i \in 1..n |-> 0]

\* dispatch_binary with telemetry: the bytes of the response, none for a
\* frame that is no request.
Dispatch(raw) ==
  CASE IsReq(raw) /\ Tag(raw) = EchoReq   -> Encode(EchoTm, Payload(raw) \o Zeros(TmSize))
    [] IsReq(raw) /\ Tag(raw) = StatusReq -> Encode(StatusResp, Zeros(StatusSize))
    [] OTHER -> <<>>
Responses(frames) == FlattenSeq([i \in DOMAIN frames |-> Dispatch(frames[i])])

\* What the client makes of a frame: an answer, or nothing.
Accepted(raw) == IF IsResp(raw) THEN <<[tag |-> Tag(raw), payload |-> Payload(raw)]>> ELSE <<>>
Taken(frames) == FlattenSeq([i \in DOMAIN frames |-> Accepted(frames[i])])

-----------------------------------------------------------------------------
(* pop_pdus *)

\* Defective variants: an oversized length is skipped whole; a frame waits for
\* the byte after it; what is incomplete is dropped.
ResyncWhole == LenSize
CompleteLate(buf) == Len(buf) > LenSize + Total(buf)
UnparsedDropped(buf) == <<>>

\* How far the scan moves past an oversized length.
Resync == 1

Oversized(buf) == Total(buf) > MaxTotal
Complete(buf)  == Len(buf) >= LenSize + Total(buf)
Waits(buf)     == Len(buf) < LenSize \/ (~Oversized(buf) /\ ~Complete(buf))

Drop(buf, n)  == SubSeq(buf, n + 1, Len(buf))
Unparsed(buf) == buf

\* The frames of a buffer, and the bytes left over.
PopPdus[buf \in Seq(Byte)] ==
  CASE Waits(buf) -> [frames |-> <<>>, rest |-> Unparsed(buf)]
    [] ~Waits(buf) /\ Oversized(buf) -> PopPdus[Drop(buf, Resync)]
    [] OTHER ->
         LET need  == LenSize + Total(buf)
             after == PopPdus[Drop(buf, need)]
         IN  [frames |-> <<SubSeq(buf, 1, need)>> \o after.frames, rest |-> after.rest]

-----------------------------------------------------------------------------

Init ==
  /\ items = <<>> /\ popped = <<>> /\ answers = <<>>
  /\ up = <<>> /\ down = <<>> /\ sbuf = <<>> /\ cbuf = <<>>
  /\ serving = TRUE

Write(item) ==
  /\ Len(items) < MaxItems
  /\ items' = Append(items, item)
  /\ up' = up \o item
  /\ UNCHANGED <<sbuf, serving, popped, down, cbuf, answers>>

\* encode_echo_request and encode_status_request.
WriteRequest ==
  \/ \E n \in 0..MaxBody : Write(Encode(EchoReq, Zeros(n)))
  \/ Write(Encode(StatusReq, <<>>))

\* What another client may write: a byte that belongs to no frame, a frame
\* with an unknown tag, a frame whose body length is wrong.
WriteOther ==
  \/ \E b \in JunkBytes : Write(<<b>>)
  \/ Write(Length(HdrSize) \o <<0, 0>>)
  \/ Write(Length(HdrSize + 1) \o <<EchoReq, 0, 0>>)

\* The server's reader takes n bytes from the socket.
Serve(n) ==
  LET buf    == sbuf \o SubSeq(up, 1, n)
      parsed == PopPdus[buf]
  IN /\ serving
     /\ up' = Drop(up, n)
     /\ IF Len(buf) > Cap
          THEN serving' = FALSE /\ UNCHANGED <<sbuf, popped, down>>
          ELSE /\ sbuf' = parsed.rest
               /\ popped' = popped \o parsed.frames
               /\ down' = down \o Responses(parsed.frames)
               /\ UNCHANGED serving
     /\ UNCHANGED <<items, cbuf, answers>>

\* The client's reader takes n bytes; what is no response it only counts.
Collect(n) ==
  LET parsed == PopPdus[cbuf \o SubSeq(down, 1, n)]
  IN /\ cbuf' = parsed.rest
     /\ down' = Drop(down, n)
     /\ answers' = answers \o Taken(parsed.frames)
     /\ UNCHANGED <<items, up, sbuf, serving, popped>>

Done == Len(items) = MaxItems /\ up = <<>> /\ down = <<>> /\ UNCHANGED vars

Next ==
  \/ WriteRequest
  \/ WriteOther
  \/ \E n \in 1..Len(up)   : n <= Chunk /\ Serve(n)
  \/ \E n \in 1..Len(down) : n <= Chunk /\ Collect(n)
  \/ Done

Spec == Init /\ [][Next]_vars

-----------------------------------------------------------------------------
(* Properties *)

\* The bytes of the client's stream the server has read.
Delivered ==
  LET stream == FlattenSeq(items) IN SubSeq(stream, 1, Len(stream) - Len(up))

\* How TCP cuts the stream into reads has no effect: after any reads the frames
\* cut and the bytes kept are those of one parse of everything delivered.
CutsInvisible ==
  serving => [frames |-> popped, rest |-> sbuf] = PopPdus[Delivered]

\* A zero byte can be taken for the start of a length; a response with its
\* trailer can be too long for the client, and its parser then searches the
\* payload for the next length.
NoZeroJunk == \A i \in DOMAIN items : items[i] # <<0>>
RoomForTrailer ==
  \A i \in DOMAIN items : IsReq(items[i]) => Len(Body(items[i])) + TmSize <= MaxBody

\* The answer to what the client wrote, if it is a request.
Expected(item) ==
  CASE IsReq(item) /\ Tag(item) = EchoReq   -> <<[tag |-> EchoTm, payload |-> Body(item)]>>
    [] IsReq(item) /\ Tag(item) = StatusReq -> <<[tag |-> StatusResp, payload |-> Zeros(StatusSize)]>>
    [] OTHER -> <<>>

\* protocol.py: an oversized length makes the parser drop one byte and look
\* again.  So junk bytes, unless they are zero, and undecodable frames between
\* the requests cost nothing: every request is answered, in order, with the
\* payload it carried, as soon as the bytes have arrived, if its payload leaves
\* room for the trailer.
EchoesReturn ==
  LET expected == FlattenSeq([i \in DOMAIN items |-> Expected(items[i])])
  IN  NoZeroJunk /\ RoomForTrailer =>
                    /\ IsPrefix(answers, expected)
                    /\ up = <<>> /\ down = <<>> => answers = expected

\* Whatever a client writes, the server's limit on unparsed bytes never closes
\* the connection: what pop_pdus leaves over is shorter than one frame.
ServerKeepsReading == serving
=============================================================================
