-------------------------------- MODULE CodeGen --------------------------------
(***************************************************************************)
(* The MIPS code generator of smlrc (src/cgmips.c): GenPrep() reorders the *)
(* stack of an expression, GenExpr0() writes its instructions.             *)
(*                                                                         *)
(* An instruction is a record: op, the registers d, s and t, a constant c  *)
(* and a name n; unused fields are 0 and "".                               *)
(***************************************************************************)
EXTENDS ExprTypes

CONSTANT MAX_TEMP_REGS   \* 8 in the code

ASSUME CodeGenAssumption == MAX_TEMP_REGS \in 1..8

Zero == 0
V0 == 2
A0 == 4
A3 == 7
T0 == 8
TEMP_REG_A == 24
TEMP_REG_B == 25
SP == 29
FP == 30
RA == 31

Ins(op, d, s, t, c, n) == [op |-> op, d |-> d, s |-> s, t |-> t, c |-> c, n |-> n]
RegOp(op, d, s, t) == Ins(op, d, s, t, 0, "")
ConstOp(op, d, s, c) == Ins(op \o "i", d, s, 0, c, "")
LoadConst(d, c) == Ins("li", d, 0, 0, c, "")
LoadAddress(d, n) == Ins("la", d, 0, 0, 0, n)
Move(d, s) == RegOp("move", d, s, 0)
Label(l) == Ins("label", 0, 0, 0, l, "")
Jump(l) == Ins("j", 0, 0, 0, l, "")
Branch(op, s, t, l) == Ins(op, 0, s, t, l, "")
GenJumpIfZero(w, l) == Branch("beq", w, Zero, l)
GenJumpIfNotZero(w, l) == Branch("bne", w, Zero, l)
GenGrowStack(size) == IF size = 0 THEN <<>> ELSE <<ConstOp("subu", SP, SP, size)>>

(* Loads and stores by the size of what is read or written.  A place is a  *)
(* name, an offset from the frame pointer, or a register.                  *)
ReadOp(size) == CASE size = -1 -> "lb" [] size = 1 -> "lbu" [] OTHER -> "lw"
WriteOp(size) == IF size \in {-1, 1} THEN "sb" ELSE "sw"
AtIdent(n) == [s |-> Zero, c |-> 0, n |-> n]
AtLocal(ofs) == [s |-> FP, c |-> ofs, n |-> ""]
AtReg(s) == [s |-> s, c |-> 0, n |-> ""]
Read(d, size, at) == Ins(ReadOp(size), d, at.s, 0, at.c, at.n)
Write(d, size, at) == Ins(WriteOp(size), d, at.s, 0, at.c, at.n)
(* What an assignment leaves in the register is what was stored. *)
GenExtendRegIfNeeded(d, size) ==
  CASE size = -1 -> <<RegOp("seb", d, d, 0)>>
    [] size = 1 -> <<ConstOp("and", d, d, CharSize - 1)>>
    [] OTHER -> <<>>

(* ++ and -- in place; after the operand, the old value is made again.     *)
GenIncDec(d, size, at, t) ==
  LET op == IF t \in {"++", "p++"} THEN "addu" ELSE "subu"
  IN  <<Read(d, size, at), ConstOp(op, d, d, 1), Write(d, size, at)>>
      \o (IF t \in {"p++", "p--"} THEN <<ConstOp(op, d, d, -1)>> ELSE <<>>)
      \o GenExtendRegIfNeeded(d, size)

GenGetBinaryOperatorInstr(t) ==
  CASE t \in {"+", "+=", "padd"} -> "addu" [] t \in {"-", "-=", "psub"} -> "subu"
    [] t \in {"&", "&="} -> "and" [] t \in {"^", "^="} -> "xor" [] t \in {"|", "|="} -> "or"
    [] t \in {"*", "*="} -> "mul" [] t \in {"<<", "<<="} -> "sll"
    [] t \in {">>", ">>="} -> "sra" [] t \in {"u>>", "u>>="} -> "srl"

(***************************************************************************)
(* GenPrep(): right operands before left ones, from the top of the stack.  *)
(* A result is the rewritten part and the index below it.                  *)
(***************************************************************************)
AssignOps == {"=", "+=", "-=", "*=", "/=", "u/=", "%=", "u%=", "<<=", ">>=", "u>>=", "&=", "^=", "|="}
Swappable == {"+", "*", "&", "^", "|", "==", "!=", "<", ">", "<=", ">=", "u<", "u>", "u<=", "u>="}
Mirrored(t) == CASE t = "<" -> ">" [] t = ">" -> "<" [] t = "<=" -> ">=" [] t = ">=" -> "<="
                 [] t = "u<" -> "u>" [] t = "u>" -> "u<" [] t = "u<=" -> "u>=" [] t = "u>=" -> "u<="
                 [] OTHER -> t

(* A division by a power of two becomes a shift or a mask. *)
DivToShift(st, i) ==
  LET t == st[i].t
      m == truncUint(st[i - 1].v)
      number(v, op) == [st EXCEPT ![i - 1].v = v, ![i].t = op]
  IN  IF t \notin {"u/", "u%", "u/=", "u%="} THEN st
      ELSE IF ~IsNumber(st[i - 1]) THEN st
      ELSE IF ~IsPowerOf2(m) THEN st
      ELSE CASE t = "u%" -> number(m - 1, "&") [] t = "u%=" -> number(m - 1, "&=")
             [] t = "u/" -> number(Log2(m), "u>>") [] t = "u/=" -> number(Log2(m), "u>>=")

(* The operator and the constant on its right, where another pair does     *)
(* the same in fewer instructions or without leaving the word.             *)
WithConst(t, v) ==
  LET m == truncUint(v)
  IN  CASE t = "*" /\ IsPowerOf2(m) -> <<"<<", Log2(m)>>
        [] t = "<=" /\ m = IntMax -> <<"u>=", 0>>
        [] t = "u<=" /\ m = WordSize - 1 -> <<"u>=", 0>>
        [] t = ">" /\ m = IntMax -> <<"&", 0>>
        [] t = "u>" /\ m = WordSize - 1 -> <<"&", 0>>
        [] OTHER -> <<t, v>>

(* A constant on the left goes to the right. *)
Swapped(l, r, t) ==
  LET swap == l[Len(l)].t = "num" /\ r[Len(r)].t # "num"
      op == IF swap THEN Mirrored(t) ELSE t
      left == IF swap THEN r ELSE l
      right == IF swap THEN l ELSE r
      w == WithConst(op, right[Len(right)].v)
  IN  IF right[Len(right)].t = "num"
      THEN left \o <<Tok("num", w[2]), Op(w[1])>>
      ELSE left \o right \o <<Op(op)>>

(* A variable that is assigned to is named after the value it gets. *)
AssignSwapped(l, r, op) ==
  LET last == l[Len(l)]
  IN  IF last.t \in {"id", "local"}
      THEN r \o <<Tok(IF last.t = "id" THEN "revid" ELSE "revlocal", last.v), op>>
      ELSE l \o r \o <<op>>

RECURSIVE GenPrep(_, _), PrepArgs(_, _, _)

PrepArgs(st, i, code) ==
  IF st[i].t = "(" THEN [code |-> <<st[i]>> \o code, i |-> i - 1]
  ELSE IF st[i].t = "," THEN PrepArgs(st, i - 1, <<st[i]>> \o code)
  ELSE LET a == GenPrep(st, i) IN PrepArgs(st, a.i, a.code \o code)

GenPrep(st0, i) ==
  LET st == DivToShift(st0, i)
      t == st[i].t
      r == GenPrep(st, i - 1)
      l == GenPrep(st, r.i)
      (* 0 assigned, and the value of the whole expression not used *)
      discardedZero == t = "=" /\ i = Len(st) /\ IsNumber(st[i - 1]) /\ truncUint(st[i - 1].v) = 0
  IN  CASE t \in {"num", "unum"} -> [code |-> <<Tok("num", st[i].v)>>, i |-> i - 1]
        [] t \in {"id", "local"} -> [code |-> <<st[i]>>, i |-> i - 1]
        [] t = ")" -> LET a == PrepArgs(st, i - 1, <<>>)
                      IN  [code |-> Append(a.code, st[i]), i |-> a.i]
        [] t \in {"padd", "psub", "-", "/", "%", "u/", "u%", "<<", ">>", "u>>", "&&", "||", "comma"} ->
             [code |-> l.code \o r.code \o <<st[i]>>, i |-> l.i]
        [] t \in AssignOps ->
             [code |-> IF discardedZero THEN AssignSwapped(l.code, <<Op("num0")>>, Tok("=0", st[i].v))
                                        ELSE AssignSwapped(l.code, r.code, st[i]),
              i |-> l.i]
        [] t \in Swappable -> [code |-> Swapped(l.code, r.code, t), i |-> l.i]
        [] OTHER -> [code |-> Append(r.code, st[i]), i |-> r.i]

(***************************************************************************)
(* GenExpr0().  The state g of the generator: the instructions out, the    *)
(* working register and those of the operands GenPopReg() found, how many  *)
(* values wait (TempsUsed), gotUnary and paramOfs.                         *)
(***************************************************************************)
RECURSIVE DepthFrom(_, _, _, _)
DepthFrom(st, i, depth, max) ==
  IF i > Len(st) THEN max
  ELSE CASE st[i].t = "(" -> DepthFrom(st, i + 1, depth + 1, IF depth + 1 > max THEN depth + 1 ELSE max)
         [] st[i].t = ")" -> DepthFrom(st, i + 1, depth - 1, max)
         [] OTHER -> DepthFrom(st, i + 1, depth, max)
maxCallDepth(st) == DepthFrom(st, 1, 0, 0)

GenStart(depth) == [out |-> <<>>, wreg |-> V0, lreg |-> 0, rreg |-> 0, temps |-> 0,
                    depth |-> depth, gotUnary |-> FALSE, paramOfs |-> 0]
Emit(g, code) == [g EXCEPT !.out = @ \o code]
CanUseTempRegs(g) == g.depth = 0

GenWregInc(w) == IF w = V0 THEN T0 ELSE w + 1
GenWregDec(w) == IF w = T0 THEN V0 ELSE w - 1

GenPushReg(g) ==
  IF CanUseTempRegs(g) /\ g.temps < MAX_TEMP_REGS
  THEN [g EXCEPT !.wreg = GenWregInc(@), !.temps = @ + 1]
  ELSE [Emit(g, <<ConstOp("subu", SP, SP, 4), Write(g.wreg, 4, AtReg(SP))>>) EXCEPT !.temps = @ + 1]

(* A variant: a value that was pushed is looked for in a register.         *)
GenPopRegEarly(g) ==
  LET n == g.temps - 1
  IN  IF CanUseTempRegs(g) /\ n <= MAX_TEMP_REGS
      THEN [g EXCEPT !.temps = n, !.rreg = g.wreg, !.wreg = GenWregDec(@), !.lreg = GenWregDec(g.wreg)]
      ELSE [Emit(g, <<Read(TEMP_REG_A, 4, AtReg(SP)), ConstOp("addu", SP, SP, 4)>>)
              EXCEPT !.temps = n, !.lreg = TEMP_REG_A, !.rreg = g.wreg]

GenPopReg(g) ==
  LET n == g.temps - 1
  IN  IF CanUseTempRegs(g) /\ n < MAX_TEMP_REGS
      THEN [g EXCEPT !.temps = n, !.rreg = g.wreg, !.wreg = GenWregDec(@), !.lreg = GenWregDec(g.wreg)]
      ELSE [Emit(g, <<Read(TEMP_REG_A, 4, AtReg(SP)), ConstOp("addu", SP, SP, 4)>>)
              EXCEPT !.temps = n, !.lreg = TEMP_REG_A, !.rreg = g.wreg]

(* Before an operand: what is in the working register has to wait.         *)
PushIfBusy(g) == IF g.gotUnary THEN GenPushReg(g) ELSE g

IsCmp(t) == t \in {"<", ">", "<=", ">=", "u<", "u>", "u<=", "u>=", "==", "!="}
Immediate(t) == t \in {"+", "-", "&", "^", "|", "<<", ">>", "u>>"} \/ IsCmp(t)
NextOf(st, i) == IF i < Len(st) THEN st[i + 1].t ELSE ""
IncDecs == {"++", "--", "p++", "p--"}

GenNumber(st, i, g) ==
  IF Immediate(NextOf(st, i)) THEN [g EXCEPT !.gotUnary = TRUE]
  ELSE LET h == PushIfBusy(g) IN [Emit(h, <<LoadConst(h.wreg, st[i].v)>>) EXCEPT !.gotUnary = TRUE]

(* An address that the next token uses itself is not loaded. *)
GenAddress(st, i, g) ==
  LET h == PushIfBusy(g)
      used == NextOf(st, i) \in IncDecs \cup {"u*"} \/ (st[i].t = "id" /\ NextOf(st, i) = ")")
      code == IF st[i].t = "id" THEN LoadAddress(h.wreg, st[i].v)
              ELSE ConstOp("addu", h.wreg, FP, st[i].v)
  IN  [(IF used THEN h ELSE Emit(h, <<code>>)) EXCEPT !.gotUnary = TRUE]

(* Arguments are made in A0 to A3, unless a call is inside a call: then    *)
(* all are pushed, above room for four.                                    *)
GenOpenCall(v, g) ==
  LET h == [PushIfBusy(g) EXCEPT !.gotUnary = FALSE, !.paramOfs = v - 4]
  IN  IF g.depth # 1 THEN Emit(h, IF v < 16 THEN GenGrowStack(16 - v) ELSE <<>>)
      ELSE IF v - 4 \in 0..12 THEN [h EXCEPT !.wreg = A0 + (v - 4) \div 4]
      ELSE h

GenArgument(g) ==
  IF g.depth # 1 THEN g
  ELSE LET h == IF g.paramOfs = 16 THEN [GenPushReg(g) EXCEPT !.gotUnary = FALSE, !.wreg = A3] ELSE g
       IN  [h EXCEPT !.gotUnary = IF g.paramOfs \in 0..12 THEN FALSE ELSE @,
                     !.wreg = CASE g.paramOfs \in 1..12 -> @ - 1 [] g.paramOfs = 0 -> V0 [] OTHER -> @,
                     !.paramOfs = @ - 4]

GenCall(st, i, g) ==
  LET v == st[i].v
      args == SelectSeq(<<0, 1, 2, 3>>, LAMBDA n : v >= 4 * (n + 1))
      loads == [k \in DOMAIN args |-> Ins("lw", A0 + args[k], SP, 0, 4 * args[k], "")]
      before == IF g.depth # 1 THEN loads ELSE GenGrowStack(16)
      call == IF st[i - 1].t = "id" THEN Ins("jal", 0, 0, 0, 0, st[i - 1].v)
              ELSE Ins("jalr", 0, g.wreg, 0, 0, "")
  IN  Emit(g, before \o <<call>> \o GenGrowStack(-(IF v < 16 THEN 16 ELSE v)))

GenRead(st, i, g) ==
  LET at == CASE st[i - 1].t = "id" -> AtIdent(st[i - 1].v)
              [] st[i - 1].t = "local" -> AtLocal(st[i - 1].v)
              [] OTHER -> AtReg(g.wreg)
  IN  Emit(g, <<Read(g.wreg, st[i].v, at)>>)

GenBinary(st, i, g) ==
  LET op == GenGetBinaryOperatorInstr(st[i].t)
      h == GenPopReg(g)
  IN  IF st[i - 1].t = "num" /\ st[i].t # "*"
      THEN Emit(g, <<ConstOp(op, g.wreg, g.wreg, st[i - 1].v)>>)
      ELSE Emit(h, <<RegOp(op, h.wreg, h.lreg, h.rreg)>>)

DivCode(t, d, s, r) ==
  <<RegOp(IF t \in {"/", "%", "/=", "%="} THEN "div" ELSE "divu", 0, s, r),
    RegOp(IF t \in {"%", "u%", "%=", "u%="} THEN "mfhi" ELSE "mflo", d, 0, 0)>>

GenDivide(t, g) == LET h == GenPopReg(g) IN Emit(h, DivCode(t, h.wreg, h.lreg, h.rreg))

GenIncDecOp(st, i, g) ==
  LET t == st[i].t
      v == st[i].v
  IN  Emit(g, CASE st[i - 1].t = "id" -> GenIncDec(g.wreg, v, AtIdent(st[i - 1].v), t)
                [] st[i - 1].t = "local" -> GenIncDec(g.wreg, v, AtLocal(st[i - 1].v), t)
                [] OTHER -> <<Move(TEMP_REG_A, g.wreg)>>
                            \o GenIncDec(g.wreg, v, AtReg(TEMP_REG_A), t))

(* p++ for a pointer: the old value stays in the working register. *)
GenPostAdd(st, i, g) ==
  LET op == GenGetBinaryOperatorInstr(st[i].t)
      v == st[i].v
      h == GenPopReg(g)
      w == h.wreg
  IN  Emit(h, IF w = h.lreg
              THEN <<Move(TEMP_REG_B, h.lreg), Read(w, v, AtReg(TEMP_REG_B)),
                     RegOp(op, TEMP_REG_A, w, h.rreg), Write(TEMP_REG_A, v, AtReg(TEMP_REG_B))>>
              ELSE <<Move(TEMP_REG_B, h.rreg), Read(w, v, AtReg(h.lreg)),
                     RegOp(op, TEMP_REG_B, w, TEMP_REG_B), Write(TEMP_REG_B, v, AtReg(h.lreg))>>)

(* The variable an assignment names, if it names one. *)
RevAt(token) == IF token.t = "revid" THEN AtIdent(token.v) ELSE AtLocal(token.v)
IsRev(token) == token.t \in {"revid", "revlocal"}

(* The operation of a compound assignment: d := s op r. *)
CompoundCode(t, d, s, r) ==
  IF t \in {"/=", "u/=", "%=", "u%="} THEN DivCode(t, d, s, r)
  ELSE <<RegOp(GenGetBinaryOperatorInstr(t), d, s, r)>>

GenCompound(st, i, g) ==
  LET t == st[i].t
      v == st[i].v
      at == RevAt(st[i - 1])
      h == GenPopReg(g)
      w == h.wreg
      direct == <<Read(TEMP_REG_B, v, at)>> \o CompoundCode(t, g.wreg, TEMP_REG_B, g.wreg)
                \o <<Write(g.wreg, v, at)>>
      lsaved == IF w = h.lreg THEN TEMP_REG_B ELSE h.lreg
      rsaved == IF w = h.lreg THEN h.rreg ELSE TEMP_REG_B
      indirect == <<Move(TEMP_REG_B, IF w = h.lreg THEN h.lreg ELSE h.rreg), Read(w, v, AtReg(h.lreg))>>
                  \o CompoundCode(t, w, w, rsaved) \o <<Write(w, v, AtReg(lsaved))>>
  IN  IF IsRev(st[i - 1]) THEN Emit(g, direct \o GenExtendRegIfNeeded(g.wreg, v))
      ELSE Emit(h, indirect \o GenExtendRegIfNeeded(w, v))

GenAssign(st, i, g) ==
  LET v == st[i].v
      h == GenPopReg(g)
      moved == IF h.wreg # h.rreg THEN <<Move(h.wreg, h.rreg)>> ELSE <<>>
  IN  IF IsRev(st[i - 1])
      THEN Emit(g, <<Write(g.wreg, v, RevAt(st[i - 1]))>> \o GenExtendRegIfNeeded(g.wreg, v))
      ELSE Emit(h, <<Write(h.rreg, v, AtReg(h.lreg))>> \o moved \o GenExtendRegIfNeeded(h.wreg, v))

GenAssign0(st, i, g) ==
  Emit(g, <<Write(Zero, st[i].v, IF IsRev(st[i - 1]) THEN RevAt(st[i - 1]) ELSE AtReg(g.wreg))>>)

(* A comparison, alone or together with the branch that uses it; k is the  *)
(* constness: 0 a zero, 1 another constant, 2 no constant on the right.    *)
CmpOf(t) == CASE t \in {"<", "u<"} -> "<" [] t \in {"<=", "u<="} -> "<=" [] t \in {">", "u>"} -> ">"
              [] t \in {">=", "u>="} -> ">=" [] OTHER -> t
CmpValue(cmp, k, slt, c, g) ==
  LET w == g.wreg
      not == <<ConstOp("xor", w, w, 1)>>
      constant(n) == <<ConstOp(slt, w, w, n)>>
      differ == IF k = 2 THEN <<RegOp("xor", w, g.lreg, g.rreg)>>
                ELSE IF k = 1 THEN <<ConstOp("xor", w, w, c)>> ELSE <<>>
      less(x, y) == <<RegOp(slt, w, x, y)>>
  IN  CASE cmp = "<" /\ k = 0 -> less(w, Zero)
        [] cmp = "<" /\ k = 1 -> constant(c)
        [] cmp = "<" /\ k = 2 -> less(g.lreg, g.rreg)
        [] cmp = "<=" /\ k = 0 -> constant(1)
        [] cmp = "<=" /\ k = 1 -> constant(c + 1)
        [] cmp = "<=" /\ k = 2 -> less(g.rreg, g.lreg) \o not
        [] cmp = ">" /\ k = 0 -> less(Zero, w)
        [] cmp = ">" /\ k = 1 -> constant(c + 1) \o not
        [] cmp = ">" /\ k = 2 -> less(g.rreg, g.lreg)
        [] cmp = ">=" /\ k = 0 -> less(w, Zero) \o not
        [] cmp = ">=" /\ k = 1 -> constant(c) \o not
        [] cmp = ">=" /\ k = 2 -> less(g.lreg, g.rreg) \o not
        [] cmp = "==" -> differ \o <<ConstOp("sltu", w, w, 1)>>
        [] cmp = "!=" -> differ \o <<RegOp("sltu", w, Zero, w)>>

(* The branch if the comparison holds, or if it does not.                  *)
CmpBranch(cmp, k, slt, c, g, holds, l) ==
  LET w == g.wreg
      onZero(yes, no) == <<Branch(IF holds THEN yes ELSE no, w, Zero, l)>>
      onFlag(set) == <<Branch(IF holds = set THEN "bne" ELSE "beq", w, Zero, l)>>
      constant(n) == <<ConstOp(slt, w, w, n)>>
      less(x, y) == <<RegOp(slt, w, x, y)>>
      equal == IF holds = (cmp = "==") THEN "beq" ELSE "bne"
  IN  CASE cmp = "<" /\ k = 0 -> onZero("bltz", "bgez")
        [] cmp = "<" /\ k = 1 -> constant(c) \o onFlag(TRUE)
        [] cmp = "<" /\ k = 2 -> less(g.lreg, g.rreg) \o onFlag(TRUE)
        [] cmp = "<=" /\ k = 0 -> onZero("blez", "bgtz")
        [] cmp = "<=" /\ k = 1 -> constant(c + 1) \o onFlag(TRUE)
        [] cmp = "<=" /\ k = 2 -> less(g.rreg, g.lreg) \o onFlag(FALSE)
        [] cmp = ">" /\ k = 0 -> onZero("bgtz", "blez")
        [] cmp = ">" /\ k = 1 -> constant(c + 1) \o onFlag(FALSE)
        [] cmp = ">" /\ k = 2 -> less(g.rreg, g.lreg) \o onFlag(TRUE)
        [] cmp = ">=" /\ k = 0 -> onZero("bgez", "bltz")
        [] cmp = ">=" /\ k = 1 -> constant(c) \o onFlag(FALSE)
        [] cmp = ">=" /\ k = 2 -> less(g.lreg, g.rreg) \o onFlag(FALSE)
        [] k = 0 -> <<Branch(equal, w, Zero, l)>>
        [] k = 1 -> <<ConstOp("xor", w, w, c), Branch(equal, w, Zero, l)>>
        [] k = 2 -> <<Branch(equal, g.lreg, g.rreg, l)>>

(* There is no unsigned branch on a comparison with 0.                     *)
GenCmp(st, i, g) ==
  LET right == st[i - 1]
      constness == IF right.t # "num" THEN 2 ELSE IF right.v = 0 THEN 0 ELSE 1
      c == IF constness = 1 THEN truncInt(right.v) ELSE 0
      unsigned == st[i].t \in {"u<", "u<=", "u>", "u>="}
      slt == IF unsigned THEN "sltu" ELSE "slt"
      h == IF constness = 2 THEN GenPopReg(g) ELSE g
      branch == NextOf(st, i) \in {"if", "ifnot"}
      general == branch /\ unsigned /\ constness = 0
      cmp == IF general /\ st[i].t = "u>" THEN "!=" ELSE CmpOf(st[i].t)
      k == IF general /\ st[i].t # "u>" THEN 1 ELSE constness
  IN  Emit(h, IF branch THEN CmpBranch(cmp, k, slt, c, h, st[i + 1].t = "if", st[i + 1].v)
                        ELSE CmpValue(cmp, k, slt, c, h))

Freed(g) == [g EXCEPT !.gotUnary = FALSE]

GenToken(st, i, g) ==
  LET t == st[i].t
      v == st[i].v
      w == g.wreg
  IN  CASE t = "num" -> GenNumber(st, i, g)
        [] t \in {"id", "local"} -> GenAddress(st, i, g)
        [] t = "(" -> GenOpenCall(v, g)
        [] t = "," -> GenArgument(g)
        [] t = ")" -> GenCall(st, i, g)
        [] t = "u*" -> GenRead(st, i, g)
        [] t = "~" -> Emit(g, <<RegOp("nor", w, w, w)>>)
        [] t = "u-" -> Emit(g, <<RegOp("subu", w, Zero, w)>>)
        [] t = "bool" -> Emit(g, <<RegOp("sltu", w, Zero, w)>>)
        [] t = "schar" -> Emit(g, <<RegOp("seb", w, w, 0)>>)
        [] t = "uchar" -> Emit(g, <<ConstOp("and", w, w, CharSize - 1)>>)
        [] t \in {"+", "-", "*", "&", "^", "|", "<<", ">>", "u>>"} -> GenBinary(st, i, g)
        [] t \in {"/", "%", "u/", "u%"} -> GenDivide(t, g)
        [] t \in IncDecs -> GenIncDecOp(st, i, g)
        [] t \in {"padd", "psub"} -> GenPostAdd(st, i, g)
        [] t = "=" -> GenAssign(st, i, g)
        [] t = "=0" -> GenAssign0(st, i, g)
        [] t \in AssignOps \ {"="} -> GenCompound(st, i, g)
        [] IsCmp(t) -> GenCmp(st, i, g)
        [] t = "sc" -> Freed(Emit(g, <<IF v >= 0 THEN GenJumpIfZero(w, v) ELSE GenJumpIfNotZero(w, -v)>>))
        [] t = "goto" -> Freed(Emit(g, <<Jump(v)>>))
        [] t \in {"&&", "||"} -> Emit(g, <<Label(v)>>)
        [] t = "void" -> Freed(g)
        [] t = "if" -> Emit(g, <<GenJumpIfNotZero(w, v)>>)
        [] t = "ifnot" -> Emit(g, <<GenJumpIfZero(w, v)>>)
        [] t \in {"u+", "revid", "revlocal", "num0", "comma", "ret"} -> g

RECURSIVE GenTokens(_, _, _)
GenTokens(st, i, g) ==
  IF i > Len(st) THEN g
  ELSE GenTokens(st, IF IsCmp(st[i].t) /\ NextOf(st, i) \in {"if", "ifnot"} THEN i + 2 ELSE i + 1,
                 GenToken(st, i, g))

(* The token after the expression says what it is for: "ret" its value,    *)
(* "if" and "ifnot" a branch; without one it is only evaluated.            *)
GenExpr0(st) ==
  LET used == Last(st).t \in {"if", "ifnot", "ret"}
      prep == GenPrep(st, IF used THEN Len(st) - 1 ELSE Len(st)).code
      all == IF used THEN Append(prep, Last(st)) ELSE prep
  IN  GenTokens(all, 1, GenStart(maxCallDepth(all)))
================================================================================
