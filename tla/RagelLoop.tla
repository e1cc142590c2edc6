----------------------------- MODULE RagelLoop -----------------------------
(***************************************************************************)
(* The goto loop of a Ragel-generated parse() and the code around it, for  *)
(* a parser given by its transition function Trans (see RagelParser).      *)
(***************************************************************************)
EXTENDS RagelParser

CONSTANT Trans(_, _)

(***************************************************************************)
(* One byte of the goto loop of parse(): the byte takes a transition and   *)
(* runs its actions.  The loop leaves at a byte with no transition, for     *)
(* st0 (p stays on it), and after the LF a "done" action consumed.  at      *)
(* counts the bytes consumed.                                               *)
(***************************************************************************)
ExecByte(x, c) ==
  LET t == Trans(x.ps.cs, c)
  IN  IF t.to = 0
      THEN [x EXCEPT !.ps.cs = 0, !.left = TRUE]
      ELSE [ps |-> [Consume(FoldLeft(Act, x.ps, t.acts), c) EXCEPT !.cs = t.to],
            left |-> "done" \in ToSet(t.acts),
            done |-> "done" \in ToSet(t.acts),
            at |-> x.at + 1]

\* The goto loop from p to pe, from the byte s[i] on.
RECURSIVE Loop(_, _, _)
Loop(x, s, i) ==
  IF x.left \/ i > Len(s) THEN x ELSE Loop(ExecByte(x, s[i]), s, i + 1)

\* The goto loop over the buffer s: the parser, whether the message is
\* done, and the bytes from p on.
Exec(ps, s) ==
  LET x == Loop([ps |-> ps, left |-> FALSE, done |-> FALSE, at |-> 0], s, 1)
  IN  [ps |-> x.ps, done |-> x.done, rest |-> SubSeq(s, x.at + 1, Len(s))]

(***************************************************************************)
(* parse(p, pe, eof): _state becomes error when the buffer is not empty.   *)
(* With p == pe the machine does not run.  The switch on _fsm_cs has no    *)
(* case for the error state 0, so a parser in st0 falls through to the     *)
(* first label after the switch, _test_eof2: _fsm_cs = 2, and returns.     *)
(* The returned cursor is null unless the message is done, and then it     *)
(* points after the final LF and _state is done.                           *)
(***************************************************************************)
RagelParse(ps, buf) ==
  LET ps0 == IF buf # <<>> THEN [ps EXCEPT !.state = "error"] ELSE ps
      r == CASE buf = <<>> -> [ps |-> ps0, done |-> FALSE, rest |-> buf]
             [] ps.cs = 0 -> [ps |-> [ps0 EXCEPT !.cs = 2], done |-> FALSE, rest |-> buf]
             [] OTHER -> Exec(ps0, buf)
  IN  [ps |-> IF r.done THEN [r.ps EXCEPT !.state = "done"] ELSE r.ps,
       done |-> r.done, rest |-> r.rest]

=============================================================================
