------------------------- MODULE HttpRequestParser -------------------------
(***************************************************************************)
(* The HTTP request parser generated by Ragel from http/request_parser.rl  *)
(* (gen/http/request_parser.hh): its transition function Trans(cs, c),     *)
(* read from the goto code of parse(), in the form RagelParser describes,  *)
(* and its init() and parse().                                             *)
(***************************************************************************)
EXTENDS RagelParser

\* st1 .. st15: the request line "METHOD SP url SP HTTP/d.d CR LF".
RequestLine(cs, c) ==
  CASE cs = 1 -> IF IsUpper(c) THEN T(2, <<"mark">>) ELSE Err
    [] cs = 2 -> CASE c = SP -> T(3, <<"method">>)
                   [] IsUpper(c) -> T(2, <<>>)
                   [] OTHER -> Err
    [] cs = 3 -> CASE c = CR -> T(5, <<"mark">>)
                   [] c = SP -> Err
                   [] OTHER -> T(4, <<"mark">>)
    [] cs = 4 -> CASE c = CR -> T(5, <<>>)
                   [] c = SP -> T(6, <<"url">>)
                   [] OTHER -> T(4, <<>>)
    [] cs = 5 -> CASE c = LF -> Err
                   [] c = CR -> T(5, <<>>)
                   [] c = SP -> T(6, <<"url">>)
                   [] OTHER -> T(4, <<>>)
    [] cs \in 6..10 -> IF c = HttpLiteral[cs - 5] THEN T(cs + 1, <<>>) ELSE Err
    [] cs = 11 -> IF IsDigit(c) THEN T(12, <<"mark">>) ELSE Err
    [] cs = 12 -> IF c = 46 THEN T(13, <<>>) ELSE Err
    [] cs = 13 -> IF IsDigit(c) THEN T(14, <<>>) ELSE Err
    [] cs = 14 -> IF c = CR THEN T(15, <<"version">>) ELSE Err
    [] cs = 15 -> IF c = LF THEN T(16, <<>>) ELSE Err

\* st16 .. st23 and st34: header lines "name: value CR LF" and the empty
\* line that ends the request.
HeaderLine(cs, c) ==
  CASE cs = 16 -> CASE c = CR -> T(17, <<>>)
                    [] c \in TChar -> T(18, <<"mark">>)
                    [] OTHER -> Err
    [] cs = 17 -> IF c = LF THEN T(34, <<"done">>) ELSE Err
    [] cs = 34 -> Err
    [] cs = 18 -> CASE IsWS(c) -> T(19, <<"field">>)
                    [] c = COLON -> T(20, <<"field">>)
                    [] c \in TChar -> T(18, <<>>)
                    [] OTHER -> Err
    [] cs = 19 -> CASE IsWS(c) -> T(19, <<>>)
                    [] c = COLON -> T(20, <<>>)
                    [] OTHER -> Err
    [] cs = 20 -> CASE IsWS(c) -> T(20, <<"mark">>)
                    [] c = CR -> T(22, <<"mark", "value">>)
                    [] OTHER -> T(21, <<"mark">>)
    [] cs = 21 -> IF c = CR THEN T(22, <<"value">>) ELSE T(21, <<>>)
    [] cs = 22 -> IF c = LF THEN T(23, <<>>) ELSE Err
    [] cs = 23 -> CASE IsWS(c) -> T(24, <<"assign">>)
                    [] c = CR -> T(17, <<"assign">>)
                    [] c \in TChar -> T(18, <<"assign", "mark">>)
                    [] OTHER -> Err

\* st24 .. st27: a continuation line (one starting with SP or HT) of the
\* previous header.
ContinuationLine(cs, c) ==
  CASE cs = 24 -> CASE IsWS(c) -> T(24, <<"mark", "value">>)
                    [] c = CR -> T(26, <<"mark", "value">>)
                    [] OTHER -> T(25, <<"mark">>)
    [] cs = 25 -> CASE IsWS(c) -> T(25, <<"value">>)
                    [] c = CR -> T(26, <<"value">>)
                    [] OTHER -> T(25, <<>>)
    [] cs = 26 -> CASE IsWS(c) -> T(25, <<"value">>)
                    [] c = LF -> T(27, <<>>)
                    [] c = CR -> T(26, <<"value">>)
                    [] OTHER -> T(25, <<>>)
    [] cs = 27 -> CASE IsWS(c) -> T(24, <<"value", "append">>)
                    [] c = CR -> T(17, <<"append">>)
                    [] c \in TChar -> T(28, <<"append", "mark">>)
                    [] OTHER -> T(25, <<>>)

\* st28 .. st33: a header line that follows a continuation line.
FoldedHeaderLine(cs, c) ==
  CASE cs = 28 -> CASE IsWS(c) -> T(29, <<"field", "value">>)
                    [] c = CR -> T(26, <<"value">>)
                    [] c = COLON -> T(30, <<"field">>)
                    [] c \in TChar -> T(28, <<>>)
                    [] OTHER -> T(25, <<>>)
    [] cs = 29 -> CASE IsWS(c) -> T(29, <<"value">>)
                    [] c = CR -> T(26, <<"value">>)
                    [] c = COLON -> T(30, <<>>)
                    [] OTHER -> T(25, <<>>)
    [] cs = 30 -> CASE IsWS(c) -> T(30, <<"mark", "value">>)
                    [] c = CR -> T(32, <<"mark", "value">>)
                    [] OTHER -> T(31, <<"mark">>)
    [] cs = 31 -> CASE IsWS(c) -> T(31, <<"value">>)
                    [] c = CR -> T(32, <<"value">>)
                    [] OTHER -> T(31, <<>>)
    [] cs = 32 -> CASE IsWS(c) -> T(25, <<"value">>)
                    [] c = LF -> T(33, <<>>)
                    [] c = CR -> T(26, <<"value">>)
                    [] OTHER -> T(25, <<>>)
    [] cs = 33 -> CASE IsWS(c) -> T(24, <<"assign", "value", "append">>)
                    [] c = CR -> T(17, <<"assign", "append">>)
                    [] c \in TChar -> T(28, <<"assign", "append", "mark">>)
                    [] OTHER -> T(25, <<>>)

Trans(cs, c) ==
  CASE cs \in 1..15 -> RequestLine(cs, c)
    [] cs \in {16, 17, 34} \cup (18..23) -> HeaderLine(cs, c)
    [] cs \in 24..27 -> ContinuationLine(cs, c)
    [] cs \in 28..33 -> FoldedHeaderLine(cs, c)

-----------------------------------------------------------------------------
NewRequest == [method |-> <<>>, url |-> <<>>, version |-> <<>>,
               headers |-> <<>>]

\* A parser after its first init().
InitialParser == Parser(NewRequest)

\* Variant of init() that keeps the previous request's _req.
init_keep_req(ps) ==
  [ps EXCEPT !.cs = 1, !.open = FALSE, !.tok = <<>>, !.state = "eof"]

\* init(): _req is a new request.
init(ps) == Reinit(ps, NewRequest)

\* The loop and parse() of RagelLoop, with this parser's transitions.
L == INSTANCE RagelLoop

parse(ps, buf) == L!RagelParse(ps, buf)

=============================================================================
