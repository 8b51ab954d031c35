------------------------------- MODULE ExprTypes -------------------------------
(***************************************************************************)
(* exprval() of src/smlrc.c: the postfix form of an expression is checked, *)
(* typed, folded where it is constant, and turned into what the code       *)
(* generator reads.                                                        *)
(*                                                                         *)
(* A type is the sequence of its parts, e.g. <<"*", "int">>; "[n" is an    *)
(* array of n elements, "(n" a function of n arguments and "(" one of any  *)
(* number.  syms holds what the function declares.  A result r stands for one subexpression: code is    *)
(* its part of the stack when exprval() returns, i the index below it,     *)
(* type, const and s the type, whether it is constant and its value, lab   *)
(* the label counter, and err is set by the error functions.               *)
(***************************************************************************)
EXTENDS Words, ExprParser

CONSTANT Symbols    \* of the file, name |-> [k, type, v]: "global" at address v, "enum" of value v

IntT == <<"int">>
UintT == <<"uint">>
IsChar(type) == type[1] \in {"char", "uchar"}
isUint(type) == type = UintT
Dimensions == "[0" :> 0 @@ "[1" :> 1 @@ "[2" :> 2 @@ "[3" :> 3
FxnParams == "(0" :> 0 @@ "(1" :> 1 @@ "(2" :> 2 @@ "(3" :> 3 @@ "(4" :> 4 @@ "(5" :> 5
IsArray(type) == type[1] \in DOMAIN Dimensions
IsFxn(type) == type[1] \in {"("} \cup DOMAIN FxnParams
isAnyPtr(type) == type[1] = "*" \/ IsArray(type) \/ IsFxn(type)
derefAnyPtr(type) == IF IsFxn(type) THEN type ELSE Tail(type)
PointerTo(type) == <<"*">> \o type

(* Bytes; one that is to be sign-extended when it is read has size -1. *)
RECURSIVE GetDeclSize(_, _)
GetDeclSize(type, forDeref) ==
  CASE type[1] = "void" -> 0
    [] type[1] = "char" -> IF forDeref THEN -1 ELSE 1
    [] type[1] = "uchar" -> 1
    [] IsArray(type) -> Dimensions[type[1]] * GetDeclSize(Tail(type), FALSE)
    [] OTHER -> SizeOfWord

decayArray(type) == IF IsArray(type) THEN PointerTo(Tail(type)) ELSE type
NoArithmetic(type) ==
  isAnyPtr(type) /\ (IsFxn(derefAnyPtr(type)) \/ GetDeclSize(derefAnyPtr(type), FALSE) = 0)
IsVoid(type) == type[1] = "void"
IsNumeric(type) == IsChar(type) \/ type \in {IntT, UintT}
IsLvalue(r) == ~IsArray(r.type) /\ ~IsFxn(r.type) /\ Last(r.code).t = "u*"

promoteType(type, other) ==
  LET t == IF IsChar(type) THEN IntT ELSE type
  IN  IF t = IntT /\ isUint(other) THEN UintT ELSE t

IsNumber(token) == token.t \in {"num", "unum"}
Literal(type, s) == Tok(IF isUint(type) THEN "unum" ELSE "num", s)

(* A constant that is not a number yet becomes one. *)
simplifyConstExpr(r) ==
  IF ~r.const \/ IsNumber(Last(r.code)) THEN r ELSE [r EXCEPT !.code = <<Literal(r.type, r.s)>>]

Refused == [code |-> <<Op("err")>>, i |-> 0, type |-> IntT, const |-> FALSE, s |-> 0, lab |-> 0,
            err |-> TRUE]
Check(r, ok) == IF ok /\ ~r.err THEN r ELSE Refused

(* A binary operator gets its right operand first.                         *)
Joined(l, r, code, type) ==
  [code |-> code, i |-> l.i, type |-> type, const |-> l.const /\ r.const, s |-> 0,
   lab |-> l.lab, err |-> l.err \/ r.err]

CmpOps == {"<", ">", "<=", ">=", "==", "!="}
Unsigned(t) == CASE t = "<" -> "u<" [] t = ">" -> "u>" [] t = "<=" -> "u<=" [] t = ">=" -> "u>="
                 [] OTHER -> t

(* The last declaration of a name that is still known; the v of a global   *)
(* is its name in the code.                                                *)
NotDeclared == [k |-> "none", type |-> IntT, v |-> 0]
FindSymbol(syms, name) ==
  LET ks == {n \in DOMAIN syms : syms[n].name = name}
      last == CHOOSE n \in ks : \A m \in ks : m <= n
  IN  CASE ks # {} -> syms[last].sym
        [] ks = {} /\ name \in DOMAIN Symbols ->
             IF Symbols[name].k = "global" THEN [Symbols[name] EXCEPT !.v = name] ELSE Symbols[name]
        [] OTHER -> NotDeclared

(* The case tokIdent. *)
Identifier(st, i, lab, syms) ==
  LET sym == FindSymbol(syms, st[i].v)
      called == i < Len(st) /\ st[i + 1].t = ")"
      address == Tok(IF sym.k = "local" THEN "local" ELSE "id", sym.v)
      base == [code |-> <<address>>, i |-> i - 1, type |-> sym.type, const |-> FALSE, s |-> 0,
               lab |-> lab, err |-> FALSE]
  IN  CASE sym.k = "none" ->                        \* declares "extern int ident();"
             Check([base EXCEPT !.code = <<st[i]>>, !.type = <<"(", "int">>], called)
        [] sym.k = "enum" -> [base EXCEPT !.code = <<Tok("num", sym.v)>>, !.const = TRUE, !.s = sym.v]
        [] OTHER -> IF IsArray(sym.type) \/ IsFxn(sym.type) THEN base
                    ELSE [base EXCEPT !.code = <<address, Tok("u*", GetDeclSize(sym.type, TRUE))>>]

(* The declaration that is a cast. *)
Cast(type, e) ==
  LET propagated == ~e.const /\ IsNumber(Last(e.code))
      const == e.const \/ propagated
      s0 == IF propagated THEN Last(e.code).v ELSE e.s
      size == GetDeclSize(type, TRUE)
      s == CASE size = 1 -> ZeroExtended(s0) [] size = -1 -> SignExtended(s0) [] OTHER -> s0
      mark == CASE size = 1 -> <<Op("uchar")>> [] size = -1 -> <<Op("schar")>>
                [] OTHER -> IF Last(e.code).t = "u*" THEN <<Op("u+")>> ELSE <<>>
      r == [e EXCEPT !.type = type, !.const = IsNumeric(type) /\ const, !.s = s,
                     !.code = IF const THEN <<Literal(type, s)>> ELSE @ \o mark]
  IN  Check(r, /\ ~(IsVoid(e.type) /\ ~IsVoid(type))
               /\ ~IsFxn(type) /\ ~IsArray(type))

(* unary & *)
AddressOf(e) ==
  LET r == [e EXCEPT !.type = PointerTo(@), !.const = FALSE,
                     !.code = IF IsArray(e.type) \/ IsFxn(e.type) THEN @ ELSE Front(@)]
  IN  Check(r, IsArray(e.type) \/ IsFxn(e.type) \/ Last(e.code).t = "u*")

(* unary * *)
Dereferenced(e) ==
  LET pointee == Tail(e.type)
      r == [e EXCEPT !.type = pointee, !.const = FALSE,
                     !.code = IF IsArray(pointee) \/ IsFxn(pointee) THEN @
                              ELSE Append(@, Tok("u*", GetDeclSize(pointee, TRUE)))]
  IN  Check(r, (e.type[1] = "*" \/ IsArray(e.type)) /\ ~IsVoid(pointee))

(* Adds to the constant or the local address an expression ends with, if   *)
(* it does.                                                                *)
Base(code) == LET k == {j \in DOMAIN code : code[j].t \notin {"u+", "+"}}
              IN  CHOOSE j \in k : \A n \in k : n <= j
Adjustable(code) == code[Base(code)].t \in {"num", "unum", "local"}
Adjusted(code, n) == [code EXCEPT ![Base(code)].v = truncInt(@ + n)]
Scaled(code, size) == IF size = 1 THEN code ELSE code \o <<Tok("num", size), Op("*")>>
ScaledConst(r, size) == <<Tok(r.code[1].t, truncInt(r.s * size))>>

(* One operand is a pointer. *)
PointerPlus(t, l, r, pr) ==
  LET size == GetDeclSize(Tail(decayArray(pr)), FALSE)
      p == IF isAnyPtr(l.type) THEN l ELSE r
      n == IF isAnyPtr(l.type) THEN r ELSE l
      by == IF t = "-" THEN -(n.s * size) ELSE n.s * size
      index == IF n.const THEN ScaledConst(n, size) ELSE Scaled(n.code, size)
  IN  IF n.const /\ Adjustable(p.code) THEN Adjusted(p.code, by)
      ELSE (IF isAnyPtr(l.type) THEN l.code \o index ELSE index \o r.code) \o <<Op(t)>>

Additive(t, l, r) ==
  LET lt == decayArray(l.type)
      rt == decayArray(r.type)
      lp == isAnyPtr(lt)
      rp == isAnyPtr(rt)
      size == GetDeclSize(Tail(lt), FALSE)
      plain == l.code \o r.code \o <<Op(t)>>
      s == truncInt(IF t = "+" THEN l.s + r.s ELSE l.s - r.s)
      legal == /\ ~NoArithmetic(lt) /\ ~NoArithmetic(rt) /\ ~IsVoid(lt) /\ ~IsVoid(rt)
               /\ rp => (IF lp THEN t = "-" /\ size = GetDeclSize(Tail(rt), FALSE) ELSE t = "+")
  IN  Check(IF lp /\ rp
            THEN Joined(l, r, IF size = 1 THEN plain
                              ELSE plain \o <<Tok("num", size), Op("/")>>, IntT)
            ELSE IF lp \/ rp
            THEN Joined(l, r, PointerPlus(t, l, r, IF lp THEN lt ELSE rt), IF lp THEN lt ELSE rt)
            ELSE simplifyConstExpr([Joined(l, r, plain, promoteType(lt, rt)) EXCEPT !.s = s]),
            legal /\ ~l.err /\ ~r.err)

(* ++ and -- before and after their operand; of a pointer to more than a   *)
(* byte they become += and the like.                                       *)
IncDec(t, e) ==
  LET size == IF isAnyPtr(e.type) THEN GetDeclSize(derefAnyPtr(e.type), FALSE) ELSE 1
      opSize == Last(e.code).v
      wide == CASE t = "++" -> "+=" [] t = "--" -> "-=" [] t = "p++" -> "padd" [] t = "p--" -> "psub"
      r == [e EXCEPT !.const = FALSE,
                     !.code = Front(@) \o (IF size = 1 THEN <<Tok(t, opSize)>>
                                           ELSE <<Tok("num", size), Tok(wide, opSize)>>)]
  IN  Check(r, IsLvalue(e) /\ ~NoArithmetic(e.type) /\ ~IsVoid(e.type))

Assignment(l, r) ==
  Check([Joined(l, r, Front(l.code) \o r.code \o <<Tok("=", Last(l.code).v)>>, l.type)
           EXCEPT !.const = FALSE],
        ~l.err /\ ~r.err /\ IsLvalue(l) /\ ~IsVoid(r.type) /\ ~IsVoid(l.type))

ArithmeticUnary(t, e) ==
  LET s == CASE t = "~" -> truncInt(BitNot(e.s)) [] t = "u+" -> e.s [] t = "u-" -> truncInt(-e.s)
  IN  Check(simplifyConstExpr([e EXCEPT !.type = promoteType(@, @), !.s = s,
                                        !.code = Append(@, Op(t))]),
            IsNumeric(e.type))

(* Where the divisor is constant: may the division be done now?            *)
DivisionOk(l, r, unsigned) ==
  r.const => /\ r.s # 0
             /\ ~unsigned => ~(l.const /\ l.s = IntMin /\ r.s = -1)
divCheckAndCalc(t, sl, sr, unsigned) ==
  LET x == IF unsigned THEN truncUint(sl) ELSE sl
      y == IF unsigned THEN truncUint(sr) ELSE sr
  IN  truncInt(IF t = "/" THEN Quotient(x, y) ELSE Remainder(x, y))

(* A constant count out of range is cut down to the bits that matter.      *)
shiftCountCheck(r) ==
  IF r.const /\ truncUint(r.s) >= WordBits
  THEN LET n == truncUint(r.s) % WordBits IN [r EXCEPT !.s = n, !.code = <<[@[1] EXCEPT !.v = n]>>]
  ELSE r

Arithmetic(t, l, r0) ==
  LET unsigned == isUint(l.type) \/ isUint(r0.type)
      shift == t \in {"<<", ">>"}
      r == IF shift THEN shiftCountCheck(r0) ELSE r0
      const == l.const /\ r.const /\ (t \in {"/", "%"} => DivisionOk(l, r, unsigned))
      s == IF ~const THEN 0 ELSE
           CASE t = "*" -> truncInt(l.s * r.s)
             [] t \in {"/", "%"} -> divCheckAndCalc(t, l.s, r.s, unsigned)
             [] t = "<<" -> truncInt(ShiftLeft(truncUint(l.s), r.s))
             [] t = ">>" -> truncInt(ShiftRight(IF isUint(l.type) THEN truncUint(l.s) ELSE l.s, r.s))
             [] t = "&" -> truncInt(BitAnd(l.s, r.s))
             [] t = "^" -> truncInt(BitXor(l.s, r.s))
             [] t = "|" -> truncInt(BitOr(l.s, r.s))
      op == CASE t = "/" /\ unsigned -> "u/" [] t = "%" /\ unsigned -> "u%"
              [] t = ">>" /\ isUint(l.type) -> "u>>" [] OTHER -> t
      type == promoteType(l.type, IF shift THEN IntT ELSE r.type)
  IN  IF l.err \/ r.err \/ ~IsNumeric(l.type) \/ ~IsNumeric(r.type) THEN Refused
      ELSE simplifyConstExpr([Joined(l, r, l.code \o r.code \o <<Op(op)>>, type)
                                EXCEPT !.const = const, !.s = s])

ArithmeticOps == {"*", "/", "%", "<<", ">>", "&", "^", "|"}
Compare(t, x, y) == CASE t = "<" -> x < y [] t = ">" -> x > y [] t = "<=" -> x <= y
                      [] t = ">=" -> x >= y [] t = "==" -> x = y [] t = "!=" -> x # y
Truth(b) == IF b THEN 1 ELSE 0

Relational(t, l, r) ==
  LET lp == isAnyPtr(l.type)
      rp == isAnyPtr(r.type)
      unsigned == isUint(l.type) \/ isUint(r.type)
      const == l.const /\ r.const
      s == Truth(IF unsigned THEN Compare(t, truncUint(l.s), truncUint(r.s))
                             ELSE Compare(t, l.s, r.s))
      op == IF lp \/ rp \/ unsigned THEN Unsigned(t) ELSE t
      null(e) == e.const /\ e.s = 0
      legal == /\ ~IsVoid(l.type) /\ ~IsVoid(r.type)
               /\ IF t \in {"==", "!="}
                  THEN (lp # rp) => (IF lp THEN null(r) ELSE null(l))
                  ELSE /\ lp = rp
                       /\ lp => ~IsFxn(derefAnyPtr(l.type)) /\ ~IsFxn(derefAnyPtr(r.type))
  IN  IF l.err \/ r.err THEN Refused
      ELSE Check(simplifyConstExpr([Joined(l, r, l.code \o r.code \o <<Op(op)>>, IntT)
                                      EXCEPT !.s = IF const THEN s ELSE 0]), legal)

(* tok_Bool, put after an operand of && and || that is no comparison.      *)
Bool(e) == Check(simplifyConstExpr([e EXCEPT !.type = IntT, !.s = Truth(@ # 0),
                                             !.code = Append(@, Op("bool"))]), ~IsVoid(e.type))

(* && and ||: a false, or true, constant on the left decides.              *)
Logical(t, l, r, sc) ==
  LET decided == l.const /\ (IF t = "&&" THEN l.s = 0 ELSE l.s # 0)
      s == Truth(IF t = "&&" THEN l.s # 0 /\ r.s # 0 ELSE l.s # 0 \/ r.s # 0)
      jump == Tok("sc", IF t = "&&" THEN sc ELSE -sc)
  IN  IF l.err \/ r.err THEN Refused
      ELSE simplifyConstExpr([Joined(l, r, l.code \o <<jump>> \o r.code \o <<Tok(t, sc)>>, IntT)
                                EXCEPT !.const = @ \/ decided,
                                       !.s = IF decided THEN l.s ELSE s])

Comma(l, r) ==
  IF l.err \/ r.err THEN Refused
  ELSE LET j == Joined(l, r, l.code \o <<Op("void")>> \o r.code \o <<Op("comma")>>, r.type)
       IN  IF l.const /\ r.const THEN simplifyConstExpr([j EXCEPT !.s = r.s])
           ELSE IF l.const THEN [j EXCEPT !.code = Append(r.code, Op("u+"))] ELSE j

(* t is the operator without its "=".                                      *)
Compound(t, l, r0) ==
  LET r == IF t \in {"<<", ">>"} THEN shiftCountCheck(r0) ELSE r0
      lp == isAnyPtr(l.type)
      size == GetDeclSize(derefAnyPtr(l.type), FALSE)
      unsigned == isUint(l.type) \/ isUint(r.type)
      op == CASE t \in {"/", "%"} /\ unsigned -> "u" \o t
              [] t = ">>" /\ isUint(l.type) -> "u>>"
              [] OTHER -> t
      by == IF ~lp THEN r.code ELSE IF r.const THEN ScaledConst(r, size) ELSE Scaled(r.code, size)
  IN  IF l.err \/ r.err THEN Refused
      ELSE Check([Joined(l, r, Front(l.code) \o by \o <<Tok(op \o "=", Last(l.code).v)>>, l.type)
                    EXCEPT !.const = FALSE],
                 /\ IsLvalue(l) /\ ~NoArithmetic(l.type)
                 /\ ~IsVoid(l.type) /\ ~IsVoid(r.type) /\ ~isAnyPtr(r.type)
                 /\ lp => t \in {"+", "-"})

(* The types that both sides of a ?: may have, and the type it gets.       *)
compatCheck(mid, r, mt, rt) ==
  LET fxn(type) == IF IsFxn(type) THEN PointerTo(type) ELSE type
      m == fxn(mt)
      o == fxn(rt)
      null(e, type) == \/ e.const /\ e.s = 0
                       \/ type = <<"*", "void">> /\ IsNumber(Last(e.code)) /\ Last(e.code).v = 0
  IN  CASE ~isAnyPtr(m) /\ ~isAnyPtr(o) ->
             IF IsVoid(m) = IsVoid(o) THEN m ELSE <<"err">>
        [] isAnyPtr(m) /\ null(r, o) -> m
        [] isAnyPtr(o) /\ null(mid, m) -> o
        [] isAnyPtr(m) /\ isAnyPtr(o) ->
             IF m[2] = "void" THEN m ELSE IF o[2] = "void" THEN o
             ELSE IF m = o THEN m ELSE <<"err">>
        [] OTHER -> <<"err">>

Conditional(c, mid, r, sc) ==
  LET m0 == decayArray(mid.type)
      rt == promoteType(decayArray(r.type), m0)
      mt == promoteType(m0, rt)
      type == compatCheck(mid, r, mt, rt)
      chosen == IF c.s # 0 THEN mid ELSE r
      code == c.code \o <<Tok("sc", -sc)>> \o r.code \o <<Tok("goto", sc + 1), Tok("&&", sc)>>
              \o mid.code \o <<Tok("&&", sc + 1)>>
  IN  IF c.err \/ mid.err \/ r.err \/ IsVoid(c.type) \/ type = <<"err">> THEN Refused
      ELSE simplifyConstExpr([Joined(c, r, code, type)
                                EXCEPT !.const = c.const /\ chosen.const,
                                       !.s = IF c.const /\ chosen.const THEN chosen.s ELSE 0])

(* GetFxnInfo(): a function, or a pointer to one, and how many arguments.  *)
FxnOf(type) == IF type[1] = "*" THEN Tail(type) ELSE type
MinParams(fxn) == IF fxn[1] = "(" THEN 0 ELSE FxnParams[fxn[1]]
MaxParams(fxn) == IF fxn[1] = "(" THEN 99 ELSE MinParams(fxn)

RECURSIVE exprval(_, _, _, _), Args(_, _, _, _, _, _)

(* The arguments, the first one on top: each is followed by a comma.       *)
Args(st, i, lab, code, c, syms) ==
  IF st[i].t = "(" THEN [code |-> code, i |-> i - 1, lab |-> lab, c |-> c, err |-> FALSE]
  ELSE LET a == exprval(st, i, lab, syms)
           j == IF a.i > 0 /\ st[a.i].t = "," THEN a.i - 1 ELSE a.i
       IN  IF a.err \/ IsVoid(a.type)
           THEN [code |-> code, i |-> 0, lab |-> lab, c |-> c, err |-> TRUE]
           ELSE Args(st, j, a.lab, a.code \o <<Op(",")>> \o code, c + 1, syms)

Call(st, i, lab, syms) ==
  LET f == exprval(st, i - 1, lab, syms)
      a == Args(st, f.i, f.lab, <<>>, 0, syms)
      fxn == FxnOf(f.type)
      sum == a.c * SizeOfWord
      r == [code |-> <<Tok("(", sum)>> \o a.code \o f.code \o <<Tok(")", sum)>>, i |-> a.i,
            type |-> Tail(fxn), const |-> FALSE, s |-> 0, lab |-> a.lab, err |-> FALSE]
  IN  IF f.err \/ a.err \/ ~IsFxn(fxn) THEN Refused
      ELSE Check(r, a.c \in MinParams(fxn)..MaxParams(fxn))

CompoundOps == {"*=", "/=", "%=", "+=", "-=", "<<=", ">>=", "&=", "^=", "|="}
Plain(t) == CASE t = "*=" -> "*" [] t = "/=" -> "/" [] t = "%=" -> "%" [] t = "+=" -> "+"
              [] t = "-=" -> "-" [] t = "<<=" -> "<<" [] t = ">>=" -> ">>" [] t = "&=" -> "&"
              [] t = "^=" -> "^" [] t = "|=" -> "|"

Condition(st, i, lab, syms) == IF st[i].t \in CmpOps THEN exprval(st, i, lab, syms) ELSE Bool(exprval(st, i, lab, syms))

exprval(st, i, lab, syms) ==
  LET t == IF i = 0 THEN "" ELSE st[i].t
      e == exprval(st, i - 1, lab, syms)                       \* the operand of a unary operator
      l == exprval(st, e.i, e.lab, syms)                       \* the left one of a binary operator
      cr == Condition(st, i - 1, lab + 1, syms)                \* the operands of && and ||
      cl == Condition(st, cr.i, cr.lab, syms)
      mid == exprval(st, i - 1, lab + 2, syms)                 \* the operands of ?:
      other == exprval(st, mid.i, mid.lab, syms)
      cond == exprval(st, other.i, other.lab, syms)
      leaf == [code |-> <<st[i]>>, i |-> i - 1, type |-> IF t = "unum" THEN UintT ELSE IntT,
               const |-> TRUE, s |-> st[i].v, lab |-> lab, err |-> FALSE]
      sizeOf(type) == IF GetDeclSize(type, FALSE) = 0 THEN Refused
                      ELSE [leaf EXCEPT !.code = <<Tok("unum", GetDeclSize(type, FALSE))>>,
                                        !.type = UintT, !.s = GetDeclSize(type, FALSE)]
  IN  CASE i = 0 -> Refused
        [] t \in {"num", "unum"} -> leaf
        [] t = "id" -> Identifier(st, i, lab, syms)
        [] t = ")" -> Call(st, i, lab, syms)
        [] t = "sizeof" -> IF st[i - 1].t = "typename" THEN [sizeOf(st[i - 1].v) EXCEPT !.i = i - 2]
                           ELSE Check([sizeOf(e.type) EXCEPT !.i = e.i, !.lab = e.lab], ~e.err)
        [] t \in {"&&", "||"} -> IF cr.err \/ cl.err THEN Refused ELSE Logical(t, cl, cr, lab)
        [] t = "?" -> IF mid.err \/ other.err \/ cond.err THEN Refused
                      ELSE Conditional(cond, mid, other, lab)
        [] OTHER ->
             IF e.err THEN Refused
             ELSE CASE t = "cast" -> Cast(st[i].v, e)
                    [] t = "u&" -> AddressOf(e)
                    [] t = "u*" -> Dereferenced(e)
                    [] t \in {"++", "--", "p++", "p--"} -> IncDec(t, e)
                    [] t \in {"~", "u+", "u-"} -> ArithmeticUnary(t, e)
                    [] OTHER ->
                         IF l.err THEN Refused
                         ELSE CASE t \in {"+", "-"} -> Additive(t, l, e)
                                [] t = "=" -> Assignment(l, e)
                                [] t \in CmpOps -> Relational(t, l, e)
                                [] t = "comma" -> Comma(l, e)
                                [] t \in CompoundOps -> Compound(Plain(t), l, e)
                                [] t \in ArithmeticOps -> Arithmetic(t, l, e)
                                [] OTHER -> Refused

(* ParseExpr() reads the expression p is at; p also has syms and the label *)
(* counter lab, and keeps the result in expr.  Casts and the like have     *)
(* done their work when the code generator gets it.  A comma ends it if    *)
(* option is not "", and with "=" its value is assigned to ident.          *)
ParseExprFor(p, option, ident) ==
  LET first == IF option = "=" THEN <<Tok("id", ident)>> ELSE <<>>
      q == expr([p EXCEPT !.stack = first, !.opstack = <<>>], option # "")
      st == IF option = "=" THEN Append(q.stack, Op("=")) ELSE q.stack
      r == exprval(st, Len(st), q.lab, q.syms)
  IN  IF p.err \/ q.err \/ q.tok.t \notin {",", ";", ":", ")", "]", "}"} THEN errorUnexpectedToken(q)
      ELSE IF ~q.gotUnary THEN q
      ELSE [q EXCEPT !.lab = r.lab, !.err = r.err,
                     !.expr = [r EXCEPT !.code = SelectSeq(@, LAMBDA tok : tok.t # "u+")]]
ParseExpr(p) == ParseExprFor(p, "", "")
================================================================================
