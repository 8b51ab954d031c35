------------------------------ MODULE ExprParser ------------------------------
(***************************************************************************)
(* How smlrc (src/smlrc.c) reads an expression: exprUnary() and expr()     *)
(* turn it into postfix order on `stack`, with the operators that wait on  *)
(* `opstack`.  A token is a record of its kind t and its value v.  Strings,*)
(* members of structures and floating-point numbers are left out.          *)
(*                                                                         *)
(* A parse p has the source src, the index i and the token tok read last,  *)
(* the two stacks, gotUnary, the base of the type read last, and err, set  *)
(* by errorUnexpectedToken(): the rest of a parse is then of no account.   *)
(***************************************************************************)
EXTENDS Integers, Sequences, SequencesExt

Tok(t, v) == [t |-> t, v |-> v]
Op(t) == Tok(t, 0)

BinaryLevels ==
  << {","}, {"=", "*=", "/=", "%=", "+=", "-=", "<<=", ">>=", "&=", "^=", "|="}, {"?", ":"},
     {"||"}, {"&&"}, {"|"}, {"^"}, {"&"}, {"==", "!="}, {"<", ">", "<=", ">="},
     {"<<", ">>"}, {"+", "-"}, {"*", "/", "%"} >>
(* tokComma is the comma operator; "," separates arguments. *)
preced(t) == LET name == IF t = "comma" THEN "," ELSE t
                 l == {n \in DOMAIN BinaryLevels : name \in BinaryLevels[n]}
             IN  IF t = "," \/ l = {} THEN 0 ELSE CHOOSE n \in l : TRUE
isunary(t) == t \in {"!", "~", "++", "--", "sizeof"}
isop(t) == isunary(t) \/ (preced(t) > 0 /\ t # ":")

(* ?: and the assignments are right-associative. *)
precedGEQLeft(lft, rht) == preced(lft) >= preced(rht)
precedGEQ(lft, rht) == /\ preced(lft) >= preced(rht)
                       /\ ~(preced(lft) \in {2, 3} /\ preced(rht) >= preced(lft))

EndOfSource == Op("eof")
GetToken(p) == [p EXCEPT !.i = @ + 1,
                         !.tok = IF p.i < Len(p.src) THEN p.src[p.i + 1] ELSE EndOfSource]

push(p, token) == [p EXCEPT !.stack = Append(@, token)]
pushop(p, token) == [p EXCEPT !.opstack = Append(@, token)]
ins(p, pos, token) == [p EXCEPT !.stack = InsertAt(@, pos, token)]
errorUnexpectedToken(p) == [p EXCEPT !.err = TRUE]
Expect(p, t) == IF p.tok.t = t THEN GetToken(p) ELSE errorUnexpectedToken(p)
NeedUnary(p) == IF p.gotUnary THEN p ELSE errorUnexpectedToken(p)

(* The words of a type, of which some do not go together.                  *)
TypeWords == {"void", "char", "int", "signed", "unsigned"}
Together(a, b) == "void" \notin {a, b} /\ {a, b} \notin {{"char", "int"}, {"signed", "unsigned"}}
TokenStartsDeclaration(t, params) == t \in TypeWords \/ (~params /\ t \in {"extern", "static"})
BaseType(words) == CASE "void" \in words -> <<"void">>
                     [] "char" \in words -> IF "unsigned" \in words THEN <<"uchar">> ELSE <<"char">>
                     [] OTHER -> IF "unsigned" \in words THEN <<"uint">> ELSE <<"int">>

RECURSIVE ParseBase(_, _), AfterStars(_)
ParseBase(p, words) ==
  IF p.tok.t \in TypeWords \ words /\ \A w \in words : Together(w, p.tok.t)
  THEN ParseBase(GetToken(p), words \cup {p.tok.t})
  ELSE IF words = {} THEN errorUnexpectedToken(p) ELSE [p EXCEPT !.base = BaseType(words)]
AfterStars(p) == IF p.tok.t = "*" THEN AfterStars(GetToken(p)) ELSE p
StarsAt(p) == [n \in 1..(AfterStars(p).i - p.i) |-> "*"]

(* One operator, or a whole "? expr :", goes over to the stack: c counts   *)
(* the colons whose question mark is still to come.                        *)
RECURSIVE PopOps(_, _)
PopOps(p, c) ==
  IF p.opstack = <<>> THEN errorUnexpectedToken(p)
  ELSE
  LET v == Last(p.opstack)
      q == [p EXCEPT !.opstack = Front(@),
                     !.stack = IF v.t = ":" THEN @ ELSE Append(@, v)]
      d == CASE v.t = ":" -> c + 1 [] v.t = "?" -> c - 1 [] OTHER -> c
  IN  IF d = 0 THEN q ELSE PopOps(q, d)

RECURSIVE Reduce(_)
Reduce(p) == IF p.err THEN p
             ELSE IF p.opstack = <<>> THEN errorUnexpectedToken(p)
             ELSE IF precedGEQ(Last(p.opstack).t, p.tok.t) THEN Reduce(PopOps(p, 0)) ELSE p

RECURSIVE PopAll(_)
PopAll(p) == IF p.opstack = <<>> THEN errorUnexpectedToken(p)
             ELSE IF Last(p.opstack).t = "eof" THEN [p EXCEPT !.opstack = Front(@)]
             ELSE PopAll([p EXCEPT !.opstack = Front(@),
                                   !.stack = IF Last(p.opstack).t = ":" THEN @
                                             ELSE Append(@, Last(p.opstack))])

RECURSIVE expr(_, _), exprUnary(_, _, _), Primary(_, _, _), Postfixes(_, _, _),
          Arguments(_, _, _), BinaryOps(_, _)

(* The tokens from ssp on move to opstack in reverse, and come back in order. *)
Stash(p, ssp) == [p EXCEPT !.opstack = @ \o Reverse(SubSeq(p.stack, ssp + 1, Len(p.stack))),
                           !.stack = SubSeq(@, 1, ssp)]

(* "?" takes the expression up to ":" along with it on opstack. *)
AfterQuestion(p) ==
  LET ssp == Len(p.stack)
      q == expr(GetToken(p), FALSE)
  IN  IF q.err \/ ~q.gotUnary \/ q.tok.t # ":" THEN errorUnexpectedToken(q)
      ELSE pushop(Stash(q, ssp), Op(":"))

BinaryOps(p, commaSeparator) ==
  IF p.err \/ p.tok.t \in {"eof", ",", ";", ":", ")", "]", "}"} \/ ~p.gotUnary THEN p
  ELSE IF ~isop(p.tok.t) \/ isunary(p.tok.t) THEN errorUnexpectedToken(p)
  ELSE LET q == pushop(Reduce(p), p.tok)
           r == IF p.tok.t = "?" THEN AfterQuestion(q) ELSE q
       IN  IF r.err THEN r
           ELSE BinaryOps(NeedUnary(exprUnary(GetToken(r), commaSeparator, FALSE)),
                          commaSeparator)

expr(p, commaSeparator) ==
  LET q == BinaryOps(exprUnary(pushop(p, Op("eof")), commaSeparator, FALSE), commaSeparator)
  IN  IF q.err THEN q ELSE PopAll(q)

(* The tokens an operator before its operand becomes. *)
Prefixed(t) == CASE t = "&" -> <<Op("u&")>> [] t = "*" -> <<Op("u*")>>
                 [] t = "+" -> <<Op("u+")>> [] t = "-" -> <<Op("u-")>>
                 [] t = "!" -> <<Tok("num", 0), Op("==")>>
                 [] OTHER -> <<Op(t)>>

(* Where a comma separates nothing it is an operator. *)
CommaTurns(p, commaSeparator) ==
  IF p.tok.t = "," /\ ~commaSeparator THEN [p EXCEPT !.tok = Op("comma")] ELSE p

exprUnary(p0, commaSeparator, argOfSizeOf) ==
  LET p == [p0 EXCEPT !.gotUnary = FALSE]
  IN  IF isunary(p.tok.t) \/ p.tok.t \in {"&", "*", "+", "-"}
      THEN LET q == exprUnary(GetToken(p), commaSeparator, p.tok.t = "sizeof")
           IN  IF q.err \/ ~q.gotUnary THEN errorUnexpectedToken(q)
               ELSE CommaTurns([q EXCEPT !.stack = @ \o Prefixed(p.tok.t)], commaSeparator)
      ELSE LET q == Primary(p, commaSeparator, argOfSizeOf)
           IN  IF q.err THEN q ELSE CommaTurns(q, commaSeparator)

(* "(type)" is a cast, or the whole operand of sizeof. *)
CastOrType(p, commaSeparator, argOfSizeOf) ==
  LET named == ParseBase(p, {})
      q == Expect(AfterStars(named), ")")
      type == StarsAt(named) \o q.base
  IN  IF q.err THEN q
      ELSE IF argOfSizeOf THEN [push(q, Tok("typename", type)) EXCEPT !.gotUnary = TRUE]
      ELSE LET r == NeedUnary(exprUnary(q, commaSeparator, FALSE))
           IN  Postfixes(push(r, Tok("cast", type)), Len(p.stack), commaSeparator)

Primary(p, commaSeparator, argOfSizeOf) ==
  LET inspos == Len(p.stack)
  IN  IF p.tok.t \in {"num", "unum", "id"}
      THEN Postfixes([GetToken(push(p, p.tok)) EXCEPT !.gotUnary = TRUE], inspos, commaSeparator)
      ELSE IF p.tok.t # "(" THEN p
      ELSE LET q == GetToken(p)
           IN  IF TokenStartsDeclaration(q.tok.t, TRUE) THEN CastOrType(q, commaSeparator, argOfSizeOf)
               ELSE LET r == expr(q, FALSE)
                    IN  IF r.err \/ r.tok.t # ")" \/ ~r.gotUnary THEN errorUnexpectedToken(r)
                        ELSE Postfixes(GetToken(r), inspos, commaSeparator)

(* What was pushed since pos2 goes below the function and the arguments    *)
(* before it.                                                              *)
Below(p, inspos, pos2) ==
  [p EXCEPT !.stack = SubSeq(@, 1, inspos + 1) \o SubSeq(@, pos2 + 1, Len(@))
                      \o SubSeq(@, inspos + 2, pos2)]

Arguments(p, inspos, acnt) ==
  LET pos2 == Len(p.stack)
      q == expr(GetToken(p), TRUE)
      r == Below(q, inspos, pos2)
  IN  IF q.err THEN q
      ELSE IF r.tok.t = "," /\ r.gotUnary
           THEN Arguments(ins(r, inspos + 2, Op(",")), inspos, acnt + 1)
      ELSE IF r.tok.t = ")" /\ (acnt = 0 \/ r.gotUnary)
           THEN push([r EXCEPT !.gotUnary = TRUE], Op(")"))
      ELSE errorUnexpectedToken(r)

Postfixes(p, inspos, commaSeparator) ==
  IF p.err \/ ~p.gotUnary THEN p
  ELSE CASE p.tok.t = "(" ->
              LET q == Arguments(ins(p, inspos + 1, Op("(")), inspos, 0)
              IN  IF q.err THEN q ELSE Postfixes(GetToken(q), inspos, commaSeparator)
         [] p.tok.t = "[" ->
              LET q == expr(GetToken(p), FALSE)
              IN  IF q.err \/ ~q.gotUnary \/ q.tok.t # "]" THEN errorUnexpectedToken(q)
                  ELSE Postfixes(GetToken(push(push(q, Op("+")), Op("u*"))), inspos, commaSeparator)
         [] p.tok.t \in {"++", "--"} ->
              Postfixes(GetToken(push(p, Op("p" \o p.tok.t))), inspos, commaSeparator)
         [] OTHER -> p
================================================================================
