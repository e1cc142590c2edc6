--------------------------- MODULE MCInputStream ---------------------------
(***************************************************************************)
(* Model-checking instances of InputStream: a server's connection, whose   *)
(* input is parsed by the request parser, and a client's, whose input is   *)
(* parsed by the response parser.  Characters are written as their codes.  *)
(***************************************************************************)
EXTENDS Integers, Sequences, SequencesExt, FiniteSets

VARIABLES sentTo, peerFin, rxq, dsPkt, dsFrag, dsEof, inBuf, inEof, reader,
          parser, received

Req == INSTANCE HttpRequestParser
Rsp == INSTANCE HttpResponseParser

Slash == 47
Lower(c) == c + 32

\* The header list of a message as the peer writes it: a sequence of
\* <<name, value>> pairs, with sep between the colon and the value.
EncodeHeaders(hs, sep) ==
  FlattenSeq([j \in DOMAIN hs |->
                hs[j][1] \o <<Req!COLON>> \o sep \o hs[j][2] \o <<Req!CR, Req!LF>>])

\* The headers as the parser stores them: each name mapped to its value.
HeaderMap(hs) ==
  [n \in {h[1] : h \in ToSet(hs)} |-> (CHOOSE h \in ToSet(hs) : h[1] = n)[2]]

-----------------------------------------------------------------------------
(* Requests: "METHOD url HTTP/version", headers written "name: value". *)
EncodeRequest(r) ==
  r.method \o <<Req!SP>> \o r.url \o <<Req!SP>> \o Req!HttpLiteral \o r.version
  \o <<Req!CR, Req!LF>> \o EncodeHeaders(r.headers, <<Req!SP>>) \o <<Req!CR, Req!LF>>

\* A request the parser's grammar accepts: its method is upper-case letters.
Wellformed(r) == r.method # <<>> /\ \A i \in DOMAIN r.method : Req!IsUpper(r.method[i])

\* The requests before the first malformed one, as _req holds them.
ExpectedRequests(rs) ==
  LET k == CHOOSE k \in 0..Len(rs) :
             /\ \A i \in 1..k : Wellformed(rs[i])
             /\ k < Len(rs) => ~Wellformed(rs[k + 1])
  IN  [i \in 1..k |-> [method |-> rs[i].method, url |-> rs[i].url,
                       version |-> rs[i].version, headers |-> HeaderMap(rs[i].headers)]]

RequestWire(rs) == FlattenSeq([i \in DOMAIN rs |-> EncodeRequest(rs[i])])

\* "G /a HTTP/1.1" with the header "H: v", then "P / HTTP/1.0".
MCGet == [method |-> <<71>>, url |-> <<Slash, 97>>, version |-> <<49, 46, 49>>,
          headers |-> << <<<<72>>, <<118>>>> >>]
MCPost == [method |-> <<80>>, url |-> <<Slash>>, version |-> <<49, 46, 48>>,
           headers |-> <<>>]
MCRequests == <<MCGet, MCPost>>

\* Segments may end after the method, inside the url, inside the version,
\* after "H: ", at the end of the first request and after the second
\* request's method.
MCCuts == {1, 3, 11, 18, 23, 24}

\* A request whose method is lower case, then a well-formed one.
MCBadGet == [MCPost EXCEPT !.method = <<Lower(71)>>]
MCBadRequests == <<MCBadGet, MCPost>>

\* Segments may end after the bad method, at the end of the bad request and
\* after the next request's method.
MCBadCuts == {1, 16, 17}

-----------------------------------------------------------------------------
(* Responses: "HTTP/version code reason", headers written "name:value"     *)
(* (http_response_parser keeps the white space after the colon in the      *)
(* value).  http_response keeps the version and the headers.               *)
EncodeResponse(r) ==
  Rsp!HttpLiteral \o r.version \o <<Rsp!SP>> \o r.code \o <<Rsp!SP>> \o r.reason
  \o <<Rsp!CR, Rsp!LF>> \o EncodeHeaders(r.headers, <<>>) \o <<Rsp!CR, Rsp!LF>>

ResponseWire(rs) == FlattenSeq([i \in DOMAIN rs |-> EncodeResponse(rs[i])])

ExpectedResponses(rs) ==
  [i \in DOMAIN rs |-> [version |-> rs[i].version, headers |-> HeaderMap(rs[i].headers)]]

\* "HTTP/1.1 200 O" with the header "H:v", then "HTTP/1.0 204 ".
MCOk == [version |-> <<49, 46, 49>>, code |-> <<50, 48, 48>>, reason |-> <<79>>,
         headers |-> << <<<<72>>, <<118>>>> >>]
MCNoContent == [version |-> <<49, 46, 48>>, code |-> <<50, 48, 52>>, reason |-> <<>>,
                headers |-> <<>>]
MCResponses == <<MCOk, MCNoContent>>

\* Segments may end inside "HTTP/", inside the version, inside the code,
\* after "H:", at the end of the first response and inside the second
\* one's "HTTP/".
MCResponseCuts == {3, 7, 11, 18, 23, 25}

-----------------------------------------------------------------------------
\* A server's connection that receives the malformed request first.
Bad == INSTANCE InputStream
         WITH Wire <- RequestWire(MCBadRequests), Cuts <- MCBadCuts,
              Expected <- ExpectedRequests(MCBadRequests),
              InitialParser <- Req!InitialParser, parse <- Req!parse, init <- Req!init

BadSpec == Bad!Spec

(* The reader takes the requests the peer sent, up to the first malformed *)
(* one, and nothing else: the behaviour of consume() and the request      *)
(* parser after a parse error.                                             *)
MessagesReceived == Bad!MessagesReceived

=============================================================================
