---------------------------- MODULE InputStream ----------------------------
(***************************************************************************)
(* A connection's input side: the peer sends the bytes of a sequence of   *)
(* HTTP messages over TCP in segments and may close; the native stack's   *)
(* data source (native_data_source_impl, net/native-stack.cc) hands the   *)
(* fragments of each packet the connection read() returns to an           *)
(* input_stream (core/iostream-impl.hh), whose consume() feeds them to     *)
(* a Ragel parser (HttpRequestParser on a server's connection,             *)
(* HttpResponseParser on a client's) until the parser reports a completed  *)
(* message or the input is exhausted.  The reader is the loop of spec.md   *)
(* 6: init() the parser, consume(), then take the message, or stop at the  *)
(* end of the input.                                                        *)
(*                                                                         *)
(* The TCP connection is not under src/: wait_for_data() resolves when     *)
(* data or the peer's FIN has arrived, and read() returns everything       *)
(* received so far as one packet with one fragment per segment, an empty   *)
(* packet once the peer has closed.                                        *)
(***************************************************************************)
EXTENDS RagelParser, FiniteSets

CONSTANTS
  Wire,           \* the bytes the peer sends: its messages, encoded
  Cuts,           \* the offsets of Wire where a segment may end
  Expected,       \* the messages the reader should take, as parsed
  InitialParser,  \* the parser after its first init()
  parse(_, _),    \* the parser's parse(): parse(ps, buf) as RagelParse
  init(_)         \* the parser's init()

ASSUME Cuts \subseteq 1..Len(Wire)

VARIABLES
  sentTo,       \* the peer has sent Wire[1..sentTo]
  peerFin,      \* the peer has closed its side
  rxq,          \* segments received by the connection and not yet read()
  dsPkt,        \* native_data_source_impl::_buf, as its fragments
  dsFrag,       \* native_data_source_impl::_cur_frag
  dsEof,        \* native_data_source_impl::_eof
  inBuf,        \* input_stream::_buf
  inEof,        \* input_stream::_eof
  reader,       \* "consume" (in consume()), "stopped" (consume() resolved),
                \* "closed" (clean end of input) or "failed"
  parser,       \* the parser (http_request_parser or http_response_parser)
  received      \* the messages the reader took from the parser

inVars == <<sentTo, peerFin, rxq, dsPkt, dsFrag, dsEof, inBuf, inEof, reader,
            parser, received>>

Init ==
  /\ sentTo = 0 /\ peerFin = FALSE /\ rxq = <<>>
  /\ dsPkt = <<>> /\ dsFrag = 0 /\ dsEof = FALSE
  /\ inBuf = <<>> /\ inEof = FALSE
  /\ reader = "consume" /\ parser = InitialParser /\ received = <<>>

-----------------------------------------------------------------------------
\* The peer sends the bytes up to offset c as one segment.
PeerSend(c) ==
  /\ ~peerFin /\ sentTo < c
  /\ rxq' = Append(rxq, SubSeq(Wire, sentTo + 1, c))
  /\ sentTo' = c
  /\ UNCHANGED <<peerFin, dsPkt, dsFrag, dsEof, inBuf, inEof, reader, parser, received>>

\* The peer closes the connection, having sent all or part of its bytes.
PeerClose ==
  /\ ~peerFin
  /\ peerFin' = TRUE
  /\ UNCHANGED <<sentTo, rxq, dsPkt, dsFrag, dsEof, inBuf, inEof, reader, parser, received>>

(***************************************************************************)
(* native_data_source_impl::get() returning buf: an empty buffer once at   *)
(* its end; the next fragment of its packet if there is one; otherwise,    *)
(* once wait_for_data() resolves, the packet read() returns (an empty one  *)
(* marks the end) and get() again.  The step is taken when the data it     *)
(* waits for is there.                                                     *)
(***************************************************************************)
get(buf) ==
  \/ /\ dsEof
     /\ buf = <<>>
     /\ UNCHANGED <<rxq, dsPkt, dsFrag, dsEof>>
  \/ /\ ~dsEof /\ dsFrag # Len(dsPkt)
     /\ buf = dsPkt[dsFrag + 1]
     /\ dsFrag' = dsFrag + 1
     /\ UNCHANGED <<rxq, dsPkt, dsEof>>
  \/ /\ ~dsEof /\ dsFrag = Len(dsPkt)
     /\ rxq # <<>> \/ peerFin
     /\ rxq' = <<>>
     /\ dsPkt' = rxq
     /\ dsEof' = (rxq = <<>>)
     /\ dsFrag' = IF rxq = <<>> THEN 0 ELSE 1
     /\ buf = IF rxq = <<>> THEN <<>> ELSE rxq[1]

\* An iteration of consume()'s loop with _buf empty and not at the end:
\* _fd.get() and its continuation, _buf = buf, _eof = _buf.empty().
ConsumeGet ==
  /\ reader = "consume" /\ inBuf = <<>> /\ ~inEof
  /\ \E buf \in {<<>>} \cup ToSet(dsPkt) \cup ToSet(rxq) :
        /\ get(buf)
        /\ inBuf' = buf
        /\ inEof' = (buf = <<>>)
  /\ UNCHANGED <<sentTo, peerFin, reader, parser, received>>

\* Variant of ConsumeFeed that drops the bytes after a completed message.
ConsumeFeedDropRest ==
  /\ reader = "consume" /\ (inBuf # <<>> \/ inEof)
  /\ LET r == parse(parser, inBuf)
     IN  /\ parser' = r.ps
         /\ inBuf' = <<>>
         /\ reader' = IF r.done \/ inEof THEN "stopped" ELSE "consume"
  /\ UNCHANGED <<sentTo, peerFin, rxq, dsPkt, dsFrag, dsEof, inEof, received>>

(***************************************************************************)
(* An iteration of consume()'s loop with data or at the end: the parser   *)
(* is handed _buf.  A non-null cursor is a ready unconsumed remainder:     *)
(* _buf keeps the bytes after it and consume() resolves.  A null cursor    *)
(* means the whole buffer was consumed, and the loop goes on unless _eof.  *)
(***************************************************************************)
ConsumeFeed ==
  /\ reader = "consume" /\ (inBuf # <<>> \/ inEof)
  /\ LET r == parse(parser, inBuf)
     IN  /\ parser' = r.ps
         /\ inBuf' = IF r.done THEN r.rest ELSE <<>>
         /\ reader' = IF r.done \/ inEof THEN "stopped" ELSE "consume"
  /\ UNCHANGED <<sentTo, peerFin, rxq, dsPkt, dsFrag, dsEof, inEof, received>>

\* The reader, once consume() has resolved: a completed message is taken
\* and the parser init()ed for the next; otherwise the input has ended,
\* cleanly if the parser saw no byte of a new message.
ReaderNext ==
  /\ reader = "stopped"
  /\ IF parser.state = "done"
     THEN /\ received' = Append(received, parser.msg)
          /\ parser' = init(parser)
          /\ reader' = "consume"
     ELSE /\ reader' = IF ParserAtEof(parser) THEN "closed" ELSE "failed"
          /\ UNCHANGED <<received, parser>>
  /\ UNCHANGED <<sentTo, peerFin, rxq, dsPkt, dsFrag, dsEof, inBuf, inEof>>

Next ==
  \/ \E c \in Cuts \cup {Len(Wire)} : PeerSend(c)
  \/ PeerClose
  \/ ConsumeGet
  \/ ConsumeFeed
  \/ ReaderNext

\* When ConsumeFeed can be taken: its guard, since its other conjuncts
\* always have a value.
ConsumeFeedEnabled == reader = "consume" /\ (inBuf # <<>> \/ inEof)

(* The reactor runs the reader's continuations once they are ready; the    *)
(* peer sends and closes when it likes.  The weak fairness of ConsumeFeed  *)
(* is written out, []<>~ENABLED A \/ []<><<A>>_v, with its guard for       *)
(* ENABLED.                                                                 *)
Fairness ==
  /\ WF_inVars(ConsumeGet) /\ WF_inVars(ReaderNext)
  /\ []<>~ConsumeFeedEnabled \/ []<><<ConsumeFeed>>_inVars

Spec == Init /\ [][Next]_inVars /\ Fairness

-----------------------------------------------------------------------------
TypeOK ==
  /\ sentTo \in 0..Len(Wire) /\ peerFin \in BOOLEAN
  /\ dsFrag \in 0..Len(dsPkt) /\ dsEof \in BOOLEAN /\ inEof \in BOOLEAN
  /\ reader \in {"consume", "stopped", "closed", "failed"}
  /\ parser.cs \in 0..34 /\ parser.state \in {"error", "eof", "done"}
  /\ Len(received) <= Len(Wire)

(***************************************************************************)
(* The reader takes exactly the messages the peer sent, in order, up to    *)
(* the first malformed one: wherever the segments and the fragments of the *)
(* data source's packets cut the byte stream (inside a token, between a    *)
(* header's colon and its value, at a message boundary), consume() and the *)
(* parser neither lose, change nor invent a message.                       *)
(***************************************************************************)
MessagesReceived == IsPrefix(received, Expected)

(***************************************************************************)
(* Once the peer has sent every message and closed, the reader eventually  *)
(* has taken them all and stops at a clean end of input: pipelined          *)
(* messages left in _buf after one message are parsed, and consume() sees  *)
(* the end of the stream.                                                   *)
(***************************************************************************)
AllSent == peerFin /\ sentTo = Len(Wire)
AllTaken == reader = "closed" /\ received = Expected

MessagesServed == AllSent ~> AllTaken

=============================================================================
