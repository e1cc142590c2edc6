---------------------------- MODULE RagelParser ----------------------------
(***************************************************************************)
(* What the Ragel-generated HTTP parsers (gen/http/request_parser.hh and   *)
(* gen/http/http_response_parser.hh) have in common: the parser object,    *)
(* the actions their transitions run, the goto loop of parse() and eof().  *)
(* A parser is given by its transition function Trans(cs, c): for a state  *)
(* _fsm_cs and an input byte, the next state (0 is the error state st0)   *)
(* and the actions of that transition in the order the code runs them:    *)
(*   "mark"     g.mark_start(p)                                            *)
(*   "method", "url", "version", "field", "value"                          *)
(*              _req->_method = str(), ..., _field_name = str(),            *)
(*              _value = str()                                             *)
(*   "assign"   _headers[_field_name] = std::move(_value)                  *)
(*   "append"   _headers[_field_name] += " " + std::move(_value)           *)
(*   "done"     done = true; p++; _fsm_cs = 34; goto _out                  *)
(* Bytes are their character codes.  A string is a sequence of codes.      *)
(*                                                                         *)
(* The token builder (sstring_builder of core/ragel.hh, not under src/)    *)
(* is modelled by its contract: str() returns the bytes from the latest     *)
(* mark_start() up to p, across parse() calls, and closes the token.  A     *)
(* str() with no open token has no defined result (Undefined), and is      *)
(* recorded in the field unmarked.                                         *)
(***************************************************************************)
EXTENDS Integers, Sequences, SequencesExt

HT == 9
LF == 10
CR == 13
SP == 32
COLON == 58

IsWS(c) == c \in {HT, SP}
IsUpper(c) == c \in 65..90
IsDigit(c) == c \in 48..57

\* The header-name characters the generated code tests for in st16, st18,
\* st23, st27, st28 and st33 of both parsers.
TChar == {33} \cup (35..39) \cup (42..43) \cup (45..46) \cup (48..57)
         \cup (65..90) \cup (94..122) \cup {124, 126}

\* "HTTP/" as the parsers test it, one byte per state.
HttpLiteral == <<72, 84, 84, 80, 47>>

Undefined == <<-1>>

T(to, acts) == [to |-> to, acts |-> acts]
Err == T(0, <<>>)

-----------------------------------------------------------------------------
(***************************************************************************)
(* The parser object: _fsm_cs, the builder (open: a token is marked and    *)
(* not yet taken; tok: its bytes so far), the message being built (_req   *)
(* or _rsp), _field_name, _value, _state, and whether a str() found no    *)
(* open token.                                                             *)
(***************************************************************************)
Parser(msg) ==
  [cs |-> 1, open |-> FALSE, tok |-> <<>>, msg |-> msg,
   field |-> <<>>, value |-> <<>>, state |-> "eof", unmarked |-> FALSE]

\* str(): g.mark_end(p) and get_str(): the token's bytes, and the builder
\* is left without an open token.
str(ps) ==
  [val |-> IF ps.open THEN ps.tok ELSE Undefined,
   ps  |-> [ps EXCEPT !.open = FALSE, !.tok = <<>>,
                      !.unmarked = ps.unmarked \/ ~ps.open]]

\* _headers[_field_name] as operator[] reads it: empty when absent.
HeaderOf(h, n) == IF n \in DOMAIN h THEN h[n] ELSE <<>>

\* One action of a transition, run at the byte p points to.  A moved-from
\* sstring is empty.
Act(ps, a) ==
  LET s == str(ps)
      h == ps.msg.headers
  IN  CASE a = "mark" -> [ps EXCEPT !.open = TRUE, !.tok = <<>>]
        [] a = "method" -> [s.ps EXCEPT !.msg.method = s.val]
        [] a = "url" -> [s.ps EXCEPT !.msg.url = s.val]
        [] a = "version" -> [s.ps EXCEPT !.msg.version = s.val]
        [] a = "field" -> [s.ps EXCEPT !.field = s.val]
        [] a = "value" -> [s.ps EXCEPT !.value = s.val]
        [] a = "assign" ->
             [ps EXCEPT !.msg.headers = (ps.field :> ps.value) @@ h,
                        !.value = <<>>]
        [] a = "append" ->
             [ps EXCEPT !.msg.headers =
                  (ps.field :> HeaderOf(h, ps.field) \o <<SP>> \o ps.value) @@ h,
                        !.value = <<>>]
        [] a = "done" -> ps

\* The byte p points to is consumed: it becomes part of an open token.
Consume(ps, c) == IF ps.open THEN [ps EXCEPT !.tok = Append(@, c)] ELSE ps

\* eof(): nothing but an empty buffer reached the parser since init().
ParserAtEof(ps) == ps.state = "eof"

\* init() apart from the new message: init_base() resets the builder,
\* _state is eof and _fsm_cs is start.  _field_name and _value are kept.
Reinit(ps, msg) ==
  [ps EXCEPT !.cs = 1, !.open = FALSE, !.tok = <<>>, !.msg = msg,
             !.state = "eof"]

=============================================================================
