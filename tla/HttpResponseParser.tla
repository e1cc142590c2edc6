------------------------ MODULE HttpResponseParser ------------------------
(***************************************************************************)
(* The HTTP response parser generated by Ragel from                        *)
(* http/http_response_parser.rl (gen/http/http_response_parser.hh): its    *)
(* transition function Trans(cs, c), read from the goto code of parse(),   *)
(* in the form RagelParser describes, and its init() and parse().  It      *)
(* parses the status line and the headers; http_response has only          *)
(* _version and _headers, so the status code and reason are not kept.      *)
(***************************************************************************)
EXTENDS RagelParser

\* The white space the status line accepts after the version and the code:
\* SP and the bytes 9 .. 13.
IsStatusWS(c) == c = SP \/ c \in 9..13

\* st1 .. st15: the status line "HTTP/d.d SP ddd SP reason CR LF".
StatusLine(cs, c) ==
  CASE cs \in 1..5 -> IF c = HttpLiteral[cs] THEN T(cs + 1, <<>>) ELSE Err
    [] cs = 6 -> IF IsDigit(c) THEN T(7, <<"mark">>) ELSE Err
    [] cs = 7 -> IF c = 46 THEN T(8, <<>>) ELSE Err
    [] cs = 8 -> IF IsDigit(c) THEN T(9, <<>>) ELSE Err
    [] cs = 9 -> IF IsStatusWS(c) THEN T(10, <<"version">>) ELSE Err
    [] cs \in 10..12 -> IF IsDigit(c) THEN T(cs + 1, <<>>) ELSE Err
    [] cs = 13 -> IF IsStatusWS(c) THEN T(14, <<>>) ELSE Err
    [] cs = 14 -> CASE c = LF -> Err
                    [] c = CR -> T(15, <<>>)
                    [] OTHER -> T(14, <<>>)
    [] cs = 15 -> IF c = LF THEN T(16, <<>>) ELSE Err

\* st16 .. st23 and st34: header lines "name:value CR LF" and the empty
\* line that ends the response.  Unlike the request parser, st20 marks the
\* value at the byte after the colon, white space included.
HeaderLine(cs, c) ==
  CASE cs = 16 -> CASE c = CR -> T(17, <<>>)
                    [] c \in TChar -> T(18, <<"mark">>)
                    [] OTHER -> Err
    [] cs = 17 -> IF c = LF THEN T(34, <<"done">>) ELSE Err
    [] cs = 34 -> Err
    [] cs = 18 -> CASE IsWS(c) -> T(19, <<"field">>)
                    [] c = COLON -> T(20, <<"field">>)
                    [] c \in TChar -> T(18, <<>>)
                    [] OTHER -> Err
    [] cs = 19 -> CASE IsWS(c) -> T(19, <<>>)
                    [] c = COLON -> T(20, <<>>)
                    [] OTHER -> Err
    [] cs = 20 -> IF c = CR THEN T(22, <<"mark", "value">>) ELSE T(21, <<"mark">>)
    [] cs = 21 -> IF c = CR THEN T(22, <<"value">>) ELSE T(21, <<>>)
    [] cs = 22 -> IF c = LF THEN T(23, <<>>) ELSE Err
    [] cs = 23 -> CASE IsWS(c) -> T(24, <<"assign">>)
                    [] c = CR -> T(17, <<"assign">>)
                    [] c \in TChar -> T(18, <<"assign", "mark">>)
                    [] OTHER -> Err

\* st24 .. st27: a continuation line of the previous header.
ContinuationLine(cs, c) ==
  CASE cs = 24 -> CASE IsWS(c) -> T(24, <<"mark", "value">>)
                    [] c = CR -> T(26, <<"mark", "value">>)
                    [] OTHER -> T(25, <<"mark">>)
    [] cs = 25 -> CASE IsWS(c) -> T(25, <<"value">>)
                    [] c = CR -> T(26, <<"value">>)
                    [] OTHER -> T(25, <<>>)
    [] cs = 26 -> CASE IsWS(c) -> T(25, <<"value">>)
                    [] c = LF -> T(27, <<>>)
                    [] c = CR -> T(26, <<"value">>)
                    [] OTHER -> T(25, <<>>)
    [] cs = 27 -> CASE IsWS(c) -> T(24, <<"value", "append">>)
                    [] c = CR -> T(17, <<"append">>)
                    [] c \in TChar -> T(28, <<"append", "mark">>)
                    [] OTHER -> T(25, <<>>)

\* st28 .. st33: a header line that follows a continuation line.  st30
\* leaves for st31 on white space, where the request parser stays.
FoldedHeaderLine(cs, c) ==
  CASE cs = 28 -> CASE IsWS(c) -> T(29, <<"field", "value">>)
                    [] c = CR -> T(26, <<"value">>)
                    [] c = COLON -> T(30, <<"field">>)
                    [] c \in TChar -> T(28, <<>>)
                    [] OTHER -> T(25, <<>>)
    [] cs = 29 -> CASE IsWS(c) -> T(29, <<"value">>)
                    [] c = CR -> T(26, <<"value">>)
                    [] c = COLON -> T(30, <<>>)
                    [] OTHER -> T(25, <<>>)
    [] cs = 30 -> CASE IsWS(c) -> T(31, <<"mark", "value">>)
                    [] c = CR -> T(32, <<"mark", "value">>)
                    [] OTHER -> T(31, <<"mark">>)
    [] cs = 31 -> CASE IsWS(c) -> T(31, <<"value">>)
                    [] c = CR -> T(32, <<"value">>)
                    [] OTHER -> T(31, <<>>)
    [] cs = 32 -> CASE IsWS(c) -> T(25, <<"value">>)
                    [] c = LF -> T(33, <<>>)
                    [] c = CR -> T(26, <<"value">>)
                    [] OTHER -> T(25, <<>>)
    [] cs = 33 -> CASE IsWS(c) -> T(24, <<"assign", "value", "append">>)
                    [] c = CR -> T(17, <<"assign", "append">>)
                    [] c \in TChar -> T(28, <<"assign", "append", "mark">>)
                    [] OTHER -> T(25, <<>>)

Trans(cs, c) ==
  CASE cs \in 1..15 -> StatusLine(cs, c)
    [] cs \in {16, 17, 34} \cup (18..23) -> HeaderLine(cs, c)
    [] cs \in 24..27 -> ContinuationLine(cs, c)
    [] cs \in 28..33 -> FoldedHeaderLine(cs, c)

-----------------------------------------------------------------------------
NewResponse == [version |-> <<>>, headers |-> <<>>]

\* A parser after its first init().
InitialParser == Parser(NewResponse)

\* init(): _rsp is a new response.
init(ps) == Reinit(ps, NewResponse)

\* The loop and parse() of RagelLoop, with this parser's transitions.
L == INSTANCE RagelLoop

parse(ps, buf) == L!RagelParse(ps, buf)

=============================================================================
