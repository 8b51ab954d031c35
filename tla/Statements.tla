------------------------------- MODULE Statements -------------------------------
(***************************************************************************)
(* ParseStatement() of src/smlrc.c: a function is read token by token and  *)
(* its code is written on the way, once, with labels for what is still to  *)
(* come.  The state c of the compiler has the table cases of the open      *)
(* switches, the labels of the function, its block depth level, and what   *)
(* waits in expr3Stack.                                                    *)
(* Assembler statements and the code of structures are left out.           *)
(***************************************************************************)
EXTENDS Declarations

CONSTANTS Expr3Max, Expr3Room   \* 16, and STACK_SIZE / 2

EpilogLabel == 1
CompilerAt(src) ==
  [src |-> src, i |-> 0, tok |-> EndOfSource, stack |-> <<>>, opstack |-> <<>>, gotUnary |-> FALSE,
   err |-> FALSE, out |-> <<>>, lab |-> EpilogLabel + 1, expr |-> Refused, cases |-> <<>>,
   labels |-> <<>>, level |-> 0, expr3Sp |-> 0, main |-> FALSE, base |-> IntT,
   decl |-> [name |-> "", type |-> <<>>], params |-> <<>>, syms |-> <<>>, localOfs |-> 0,
   minLocalOfs |-> 0, data |-> <<>>, copy |-> ""]

GenNumLabel(c, l) == Emit(c, <<Label(l)>>)
GenJumpUncond(c, l) == Emit(c, <<Jump(l)>>)
Needed(c) == FailIf(c, ~c.gotUnary \/ IsVoid(c.expr.type))

(* The condition of a statement, in its brackets.                          *)
ParseCondition(c) == Needed(ParseExpr(Expect(c, "(")))
IsConst(c) == c.expr.const
IsTrue(c) == truncInt(c.expr.s) # 0
(* jump is "if" or "ifnot"; a comparison makes its own branch.             *)
GenCondition(c, jump, l) ==
  IF c.err THEN c
  ELSE IF IsCmp(Last(c.expr.code).t) THEN GenExpr(c, <<Tok(jump, l)>>)
  ELSE Emit(GenExpr(c, <<Op("ret")>>),
            <<IF jump = "if" THEN GenJumpIfNotZero(V0, l) ELSE GenJumpIfZero(V0, l)>>)

(* A target is the label for break and the one for continue, 0 for none.   *)
Target(brk, cnt) == [brk |-> brk, cnt |-> cnt]

AddGotoLabel(c, name, how) ==
  IF name \notin DOMAIN c.labels
  THEN [NewLabels(c, 1) EXCEPT !.labels = (name :> [lab |-> c.lab, stat |-> {how}]) @@ @]
  ELSE FailIf([c EXCEPT !.labels[name].stat = @ \cup {how}],
              how = "label" /\ how \in c.labels[name].stat)
LabelOf(c, name) == c.labels[name].lab

(* What was declared since before is forgotten, and its room is free.      *)
LeaveScope(c, before) == [c EXCEPT !.syms = before.syms, !.localOfs = before.localOfs]

RECURSIVE ParseStatement(_, _, _), ParseBlock(_, _, _)

(* There is no jump from the last statement of a function to its epilogue. *)
ReturnStatement(c) ==
  LET p == ParseExpr(GetToken(c))
      value == IF IsConst(p) THEN [p EXCEPT !.expr.code[1].v = p.expr.s] ELSE p
      r == Expect(GenExpr(Needed(value), <<Op("ret")>>), ";")
      last == r.tok.t = "}" /\ r.level = 1 /\ ~r.main
  IN  IF last THEN r ELSE GenJumpUncond(r, EpilogLabel)

WhileStatement(c, casesIdx) ==
  LET labelBefore == c.lab
      labelAfter == c.lab + 1
      top == GenNumLabel(ParseCondition(GetToken(NewLabels(c, 2))), labelBefore)
      never == IsConst(top) /\ ~IsTrue(top)
      head == CASE never -> GenJumpUncond(top, labelAfter)
                [] IsConst(top) -> top
                [] OTHER -> GenCondition(top, "ifnot", labelAfter)
      body == ParseStatement(Expect(head, ")"), Target(labelAfter, labelBefore), casesIdx)
  IN  GenNumLabel(IF never THEN body ELSE GenJumpUncond(body, labelBefore), labelAfter)

DoStatement(c, casesIdx) ==
  LET labelBefore == c.lab
      labelWhile == c.lab + 1
      labelAfter == c.lab + 2
      body == ParseStatement(GetToken(GenNumLabel(NewLabels(c, 3), labelBefore)),
                             Target(labelAfter, labelWhile), casesIdx)
      test == GenNumLabel(Expect(Expect(ParseCondition(Expect(body, "while")), ")"), ";"), labelWhile)
      back == CASE ~IsConst(test) -> GenCondition(test, "if", labelBefore)
                [] IsTrue(test) -> GenJumpUncond(test, labelBefore)
                [] OTHER -> test
  IN  GenNumLabel(back, labelAfter)

IfStatement(c, target, casesIdx) ==
  LET labelAfterIf == c.lab
      labelAfterElse == c.lab + 1
      test == ParseCondition(GetToken(NewLabels(c, 2)))
      head == CASE ~IsConst(test) -> GenCondition(test, "ifnot", labelAfterIf)
                [] IsTrue(test) -> test
                [] OTHER -> GenJumpUncond(test, labelAfterIf)
      then == ParseStatement(Expect(head, ")"), target, casesIdx)
      else == ParseStatement(GetToken(GenNumLabel(GenJumpUncond(then, labelAfterElse), labelAfterIf)),
                             target, casesIdx)
  IN  IF then.tok.t = "else" THEN GenNumLabel(else, labelAfterElse) ELSE GenNumLabel(then, labelAfterIf)

(* A small third expression is kept until after the body; another one goes *)
(* before the body, and the code jumps around it.                          *)
ForStatement(c, casesIdx) ==
  LET labelBefore == c.lab
      labelExpr3 == c.lab + 1
      labelBody == c.lab + 2
      labelAfter == c.lab + 3
      start == Expect(GetToken(NewLabels(c, 4)), "(")
      first == ParseExpr(start)
      init == IF TokenStartsDeclaration(start.tok.t, TRUE) THEN ParseDecl(start)
              ELSE Expect(IF first.gotUnary THEN GenExpr(first, <<>>) ELSE first, ";")
      test == ParseExpr(GenNumLabel(init, labelBefore))
      always == ~test.gotUnary \/ (IsConst(test) /\ IsTrue(test))
      never == test.gotUnary /\ IsConst(test) /\ ~IsTrue(test)
      head == CASE always -> test
                [] never -> GenJumpUncond(test, labelAfter)
                [] OTHER -> GenCondition(Needed(test), "ifnot", labelAfter)
      third == ParseExpr(Expect(head, ";"))
      size == Len(third.expr.code)
      stash == third.gotUnary /\ size <= Expr3Max /\ size <= Expr3Room - third.expr3Sp
      step == GenJumpUncond(GenExpr(GenNumLabel(GenJumpUncond(third, labelBody), labelExpr3), <<>>),
                            labelBefore)
      before == CASE stash -> [third EXCEPT !.expr3Sp = @ + size]
                  [] third.gotUnary -> GenNumLabel(step, labelBody)
                  [] OTHER -> third
      continueAt == CASE third.gotUnary -> labelExpr3 [] never -> labelAfter [] OTHER -> labelBefore
      body == ParseStatement(Expect(before, ")"), Target(labelAfter, continueAt), casesIdx)
      late == GenExpr([GenNumLabel(body, labelExpr3) EXCEPT !.expr = third.expr, !.expr3Sp = @ - size], <<>>)
      end == CASE stash /\ never -> late
               [] stash -> GenJumpUncond(late, labelBefore)
               [] continueAt = labelAfter -> body
               [] OTHER -> GenJumpUncond(body, continueAt)
  IN  IF third.err THEN third ELSE LeaveScope(GenNumLabel(end, labelAfter), c)

(* The first entry of a switch in the table is for default.                *)
AddCase(c, val, l) == [c EXCEPT !.cases = Append(@, [val |-> val, lab |-> l])]
GenJumpIfEqual(entry) == <<LoadConst(TEMP_REG_B, entry.val), Branch("beq", V0, TEMP_REG_B, entry.lab)>>

SwitchStatement(c, target) ==
  LET brkLabel == c.lab
      lbl == c.lab + 1
      undoCases == Len(c.cases)
      p == ParseCondition(GetToken(NewLabels(c, 2)))
      value == GenExpr(FailIf(p, ~IsNumeric(p.expr.type)), <<Op("ret")>>)
      head == AddCase(GenJumpUncond(Expect(value, ")"), lbl), 0, 0)
      body == ParseStatement(head, Target(brkLabel, target.cnt), undoCases + 1)
      default == IF body.cases[undoCases + 1].lab = 0 THEN brkLabel ELSE body.cases[undoCases + 1].lab
      tests == [n \in 1..(Len(body.cases) - undoCases - 1) |-> GenJumpIfEqual(body.cases[undoCases + 1 + n])]
      jumps == GenNumLabel(GenJumpUncond(body, brkLabel), lbl)
      all == Emit(jumps, FlattenSeq(tests))
      last == IF default = brkLabel THEN all ELSE GenJumpUncond(all, default)
  IN  [GenNumLabel(last, brkLabel) EXCEPT !.cases = SubSeq(@, 1, undoCases)]

(* A variant: the values of every open switch count. *)
CaseLabelAnywhere(c, casesIdx) ==
  LET p == ParseExpr(GetToken(c))
      val == truncInt(p.expr.s)
      same == \E n \in DOMAIN p.cases : p.cases[n].val = val
      q == AddCase(p, val, p.lab)
  IN  Expect(FailIf(NewLabels(GenNumLabel(q, p.lab), 1),
                    casesIdx = 0 \/ ~p.gotUnary \/ ~IsNumeric(p.expr.type) \/ ~IsConst(p) \/ same), ":")

CaseLabel(c, casesIdx) ==
  LET p == ParseExpr(GetToken(c))
      val == truncInt(p.expr.s)
      same == \E n \in (casesIdx + 1)..Len(p.cases) : p.cases[n].val = val
      q == AddCase(p, val, p.lab)
  IN  Expect(FailIf(NewLabels(GenNumLabel(q, p.lab), 1),
                    casesIdx = 0 \/ ~p.gotUnary \/ ~IsNumeric(p.expr.type) \/ ~IsConst(p) \/ same), ":")

DefaultLabel(c, casesIdx) ==
  IF casesIdx = 0 THEN errorUnexpectedToken(c)
  ELSE IF c.cases[casesIdx].lab # 0 THEN errorUnexpectedToken(c)
  ELSE GenNumLabel([NewLabels(Expect(GetToken(c), ":"), 1) EXCEPT !.cases[casesIdx].lab = c.lab], c.lab)

GotoStatement(c) ==
  LET p == GetToken(c)
      q == AddGotoLabel(p, p.tok.v, "goto")
  IN  Expect(GetToken(GenJumpUncond(q, LabelOf(q, p.tok.v))), ";")

JumpStatement(c, l) == Expect(GetToken(FailIf(GenJumpUncond(c, l), l = 0)), ";")

(* An expression, or the name of a label.                                  *)
IsLabel(c) == /\ c.tok.t = "id"
              /\ GetToken(c).tok.t = ":"
ExpressionStatement(c) ==
  LET p == ParseExpr(c) IN Expect(IF p.gotUnary THEN GenExpr(p, <<>>) ELSE p, ";")

ParseStatement(c, target, casesIdx) ==
  LET t == c.tok.t
      name == c.tok.v
      labelled == AddGotoLabel(c, name, "label")
      block == ParseBlock([c EXCEPT !.level = @ + 1], target, casesIdx)
  IN  CASE c.err -> c
        [] t = ";" -> GetToken(c)
        [] t = "{" -> Expect([LeaveScope(block, c) EXCEPT !.level = @ - 1], "}")
        [] t = "return" -> ReturnStatement(c)
        [] t = "while" -> WhileStatement(c, casesIdx)
        [] t = "do" -> DoStatement(c, casesIdx)
        [] t = "if" -> IfStatement(c, target, casesIdx)
        [] t = "for" -> ForStatement(c, casesIdx)
        [] t = "break" -> JumpStatement(c, target.brk)
        [] t = "continue" -> JumpStatement(c, target.cnt)
        [] t = "switch" -> SwitchStatement(c, target)
        [] t = "goto" -> GotoStatement(c)
        [] t = "case" -> ParseStatement(CaseLabel(c, casesIdx), target, casesIdx)
        [] t = "default" -> ParseStatement(DefaultLabel(c, casesIdx), target, casesIdx)
        [] IsLabel(c) -> ParseStatement(Expect(GetToken(GenNumLabel(labelled, LabelOf(labelled, name))), ":"),
                                        target, casesIdx)
        [] OTHER -> ExpressionStatement(c)

RECURSIVE Statements(_, _, _)
Statements(c, target, casesIdx) ==
  IF c.err \/ c.tok.t \in {"}", "eof"} THEN c
  ELSE Statements(IF TokenStartsDeclaration(c.tok.t, FALSE) THEN ParseDecl(c)
                  ELSE ParseStatement(c, target, casesIdx), target, casesIdx)
ParseBlock(c, target, casesIdx) == Statements(GetToken(c), target, casesIdx)

(* The frame of a function: the return address only if it calls another.   *)
(* Arguments that came in registers go where the caller left room for them.*)
FrameSize(c) == 8 - c.minLocalOfs
GenFxnProlog(c, params, leaf) ==
  [k \in 1..(IF params < 4 THEN params ELSE 4) |->
     Ins("sw", A0 + k - 1, SP, 0, SizeOfWord * (k - 1), "")]
  \o <<ConstOp("subu", SP, SP, FrameSize(c)), Ins("sw", FP, SP, 0, FrameSize(c) - 8, ""),
       ConstOp("addu", FP, SP, FrameSize(c) - 8)>> \o (IF leaf THEN <<>> ELSE <<Ins("sw", RA, FP, 0, 4, "")>>)
GenFxnEpilog(c, leaf) ==
  (IF leaf THEN <<>> ELSE <<Ins("lw", RA, FP, 0, 4, "")>>)
  \o <<Ins("lw", FP, FP, 0, 0, ""), ConstOp("addu", SP, SP, FrameSize(c)), Ins("jr", 0, RA, 0, 0, "")>>
IsLeaf(code) == \A k \in DOMAIN code : code[k].op \notin {"jal", "jalr"}

(* A whole function: what it returns, its name and parameters, its body.   *)
CompileFunction(src) ==
  LET base == ParseBase(GetToken(CompilerAt(src)), {})
      head == PushBase(ParseDerived(base), base.base)
      c == [AddFxnParamSymbols(head) EXCEPT !.level = 1, !.main = head.decl.name = "main"]
      body == ParseBlock(c, Target(0, 0), 0)
      undeclared == \E n \in DOMAIN body.labels : body.labels[n].stat = {"goto"}
      zero == IF c.main THEN <<LoadConst(V0, 0)>> ELSE <<>>
      leaf == IsLeaf(body.out)
      code == GenFxnProlog(body, MinParams(head.decl.type), leaf) \o body.out \o zero \o <<Label(EpilogLabel)>> \o GenFxnEpilog(body, leaf)
      bad == head.err \/ head.tok.t # "{" \/ body.err \/ undeclared \/ body.tok.t # "}"
  IN  [code |-> IF bad THEN <<>> ELSE code, err |-> bad, data |-> body.data, copy |-> body.copy]
================================================================================
