------------------------------ MODULE Declarations ------------------------------
(***************************************************************************)
(* ParseDecl() of src/smlrc.c inside a function: where a variable is kept, *)
(* what its name means from then on, and the code and data that give it    *)
(* its first value.  The state c of the compiler is a parse with the code  *)
(* out and the data written so far, the label counter lab, the symbols     *)
(* syms, the offset localOfs of the last local variable in the frame and   *)
(* the lowest one yet, minLocalOfs; decl and params are what a declarator  *)
(* just read declares.  Structures, typedef, enum, strings and the rest of *)
(* file scope are left out.                                                *)
(***************************************************************************)
EXTENDS CodeGen

NewLabels(c, n) == [c EXCEPT !.lab = @ + n]
GenExpr(c, rest) == IF c.err THEN c ELSE Emit(c, GenExpr0(c.expr.code \o rest).out)
FailIf(c, bad) == IF bad THEN errorUnexpectedToken(c) ELSE c

Symbol(name, k, type, v) == [name |-> name, sym |-> [k |-> k, type |-> type, v |-> v]]
Declare(c, symbol) == [c EXCEPT !.syms = Append(@, symbol)]
AsDeclared(c, k, v) == Declare(c, Symbol(c.decl.name, k, c.decl.type, v))
Completed(c) == [c EXCEPT !.syms = [@ EXCEPT ![Len(@)].sym.type = c.decl.type]]
LabelName(l) == "L" \o ToString(l)

(* The name that is being declared is no constant in its own dimension.    *)
ParseArrayDimension(c, allowEmpty) ==
  LET p == ParseExpr(GetToken(Declare(c, Symbol(c.decl.name, "local", <<"void">>, 0))))
      n == IF p.gotUnary THEN p.expr.s ELSE 0
      type == p.expr.type
      legal == /\ p.tok.t = "]"
               /\ IF ~p.gotUnary THEN allowEmpty
                  ELSE /\ p.expr.const /\ IsNumeric(type)
                       /\ (IF isUint(type) THEN truncUint(n) ELSE truncInt(n)) >= 1
  IN  FailIf([p EXCEPT !.syms = c.syms, !.decl.type = Append(@, "[" \o ToString(truncUint(n)))], ~legal)

DecayedParam(type) == CASE IsArray(type) -> PointerTo(Tail(type)) [] IsFxn(type) -> PointerTo(type)
                        [] OTHER -> type
FxnPart(params) == CASE params = <<>> -> "(" [] Last(params).type = <<"void">> -> "(0"
                     [] OTHER -> "(" \o ToString(Len(params))

RECURSIVE ParseDerived(_), ParseDims(_, _), ParseFxnParams(_, _)
ParseDims(c, allowEmpty) ==
  IF c.err \/ c.tok.t # "[" THEN c
  ELSE ParseDims(Expect(ParseArrayDimension(c, allowEmpty), "]"), FALSE)

(* params are those read already.                                          *)
ParseFxnParams(c, params) ==
  LET d == ParseDerived(ParseBase(c, {}))
      type == DecayedParam(d.decl.type \o ParseBase(c, {}).base)
      all == Append(params, [name |-> d.decl.name, type |-> type])
      void == type = <<"void">> /\ ~(d.decl.name = "" /\ Len(all) = 1 /\ d.tok.t = ")")
  IN  IF c.tok.t = ")" THEN [c EXCEPT !.params = params]
      ELSE IF ~TokenStartsDeclaration(c.tok.t, TRUE) \/ d.err \/ void THEN errorUnexpectedToken(c)
      ELSE CASE d.tok.t = ")" -> [d EXCEPT !.params = all]
             [] d.tok.t = "," -> ParseFxnParams(GetToken(d), all)
             [] OTHER -> errorUnexpectedToken(d)

(* What follows the name binds before the stars in front of it.            *)
ParseDerived(c) ==
  LET p == AfterStars(c)
      inner == GetToken(p)
      nested == p.tok.t = "(" /\ inner.tok.t # ")" /\ ~TokenStartsDeclaration(inner.tok.t, TRUE)
      name == IF p.tok.t = "id" THEN p.tok.v ELSE ""
      q == IF nested THEN Expect(ParseDerived(inner), ")")
           ELSE [IF name # "" THEN inner ELSE p EXCEPT !.decl = [name |-> name, type |-> <<>>]]
      of == IF q.decl.type = <<>> THEN "" ELSE Last(q.decl.type)
      params == Expect(ParseFxnParams(GetToken(q), <<>>), ")")
      fxn == [params EXCEPT !.decl = [q.decl EXCEPT !.type = Append(@, FxnPart(params.params))]]
      r == CASE q.tok.t = "(" -> FailIf(fxn, of # "" /\ (IsFxn(<<of>>) \/ IsArray(<<of>>)))
             [] q.tok.t = "[" -> FailIf(ParseDims(q, TRUE), of # "" /\ IsFxn(<<of>>))
             [] OTHER -> q
  IN  IF c.err \/ q.err THEN errorUnexpectedToken(q)
      ELSE FailIf([r EXCEPT !.decl.type = @ \o StarsAt(c)], r.tok.t \notin {",", ";", "{", "=", ")"})

PushBase(c, base) ==
  FailIf([c EXCEPT !.decl.type = @ \o base],
         IsVoid(base) /\ c.decl.type # <<>> /\ IsArray(<<Last(c.decl.type)>>))

(* Every local variable starts at a word.                                  *)
AllocLocal(c, size) ==
  LET ofs == SizeOfWord * ((c.localOfs - size) \div SizeOfWord)
  IN  [c EXCEPT !.localOfs = ofs, !.minLocalOfs = IF ofs < @ THEN ofs ELSE @]

--------------------------------------------------------------------------------
(* The data of a variable: a label and one cell for each of its words, the *)
(* address of a name, "" for none, and a number.                           *)
GenLabel(c, label) == [c EXCEPT !.data = Append(@, [label |-> label, cells |-> <<>>])]
GenAddrData(c, name, ofs) ==
  [c EXCEPT !.data = [@ EXCEPT ![Len(@)].cells = Append(@, [n |-> name, v |-> ofs])]]
GenIntData(c, size, val) == GenAddrData(c, "", IF size = 1 THEN ZeroExtended(val) ELSE truncUint(val))
GenZeroData(c, size) ==
  LET zeros == [k \in 1..((size + SizeOfWord - 1) \div SizeOfWord) |-> [n |-> "", v |-> 0]]
  IN  [c EXCEPT !.data = [@ EXCEPT ![Len(@)].cells = @ \o zeros]]

(* One constant or address, perhaps in braces.                             *)
InitScalar(c, type) ==
  LET size == GetDeclSize(type, FALSE)
      braces == c.tok.t = "{"
      p == ParseExprFor(IF braces THEN GetToken(c) ELSE c, ",", "")
      q == IF braces THEN Expect(p, "}") ELSE p
      code == p.expr.code
      top == Last(code)
      left == code[Len(code) - 2]
      right == code[Len(code) - 1]
      sum == Len(code) >= 3 /\ top.t \in {"+", "-"}
  IN  IF q.err \/ ~p.gotUnary \/ IsVoid(p.expr.type) THEN errorUnexpectedToken(q)
      ELSE CASE IsNumber(top) -> GenIntData(q, size, top.v)
             [] size = SizeOfWord /\ top.t = "id" -> GenAddrData(q, top.v, 0)
             [] size = SizeOfWord /\ sum /\ left.t = "id" /\ IsNumber(right) ->
                  GenAddrData(q, left.v, IF top.t = "+" THEN right.v ELSE -right.v)
             [] size = SizeOfWord /\ sum /\ top.t = "+" /\ right.t = "id" /\ IsNumber(left) ->
                  GenAddrData(q, right.v, left.v)
             [] OTHER -> errorUnexpectedToken(q)

RECURSIVE InitArray(_, _), InitElements(_, _, _, _)
(* n elements have been read.                                              *)
InitElements(c, type, n, braces) ==
  LET e == IF IsArray(Tail(type)) THEN InitArray(c, Tail(type)).c ELSE InitScalar(c, Tail(type))
      full == Dimensions[type[1]] \in 1..(n + 1)
  IN  IF c.err \/ c.tok.t = "}" THEN [c |-> c, n |-> n]
      ELSE CASE full -> [c |-> IF braces /\ e.tok.t = "," THEN GetToken(e) ELSE e, n |-> n + 1]
             [] ~full /\ e.tok.t = "," -> InitElements(GetToken(e), type, n + 1, braces)
             [] OTHER -> [c |-> FailIf(e, e.tok.t # "}"), n |-> n + 1]

InitArray(c, type) ==
  LET braces == c.tok.t = "{"
      r == InitElements(IF braces THEN GetToken(c) ELSE c, type, 0, braces)
      p == IF braces THEN Expect(FailIf(r.c, r.n = 0), "}") ELSE r.c
      missing == Dimensions[type[1]] - r.n
  IN  [c |-> IF missing > 0 THEN GenZeroData(p, missing * GetDeclSize(Tail(type), FALSE)) ELSE p,
       n |-> r.n]

(* The first value of c.decl; an array without a dimension gets it now.    *)
InitVar(c) ==
  LET type == c.decl.type
      a == InitArray(c, type)
      p == CASE IsArray(type) /\ c.tok.t = "{" ->
                  [a.c EXCEPT !.decl = IF type[1] = "[0"
                                       THEN [c.decl EXCEPT !.type[1] = "[" \o ToString(a.n)] ELSE c.decl]
             [] IsArray(type) /\ c.tok.t # "{" -> errorUnexpectedToken(c)
             [] OTHER -> [InitScalar(c, type) EXCEPT !.decl = c.decl]
  IN  Completed(FailIf(p, p.tok.t \notin {",", ";"}))

--------------------------------------------------------------------------------
(* What ParseDecl() refuses of a declaration in a function.                *)
errorDecl(c, class) ==
  LET type == c.decl.type
      incomplete == type[1] = "[0"
  IN  \/ c.tok.t \notin {",", ";", "{", "="} \/ c.decl.name = ""
      \/ IsFxn(type) /\ (c.tok.t \in {"=", "{"} \/ class = "static")
      \/ class = "extern" /\ c.tok.t = "="
      \/ incomplete /\ class # "extern" /\ c.tok.t # "="
      \/ IsArray(type) /\ GetDeclSize(Tail(type), FALSE) = 0
      \/ ~incomplete /\ GetDeclSize(type, FALSE) = 0

StaticVar(c) ==
  LET p == GenLabel(NewLabels(AsDeclared(c, "global", LabelName(c.lab)), 1), LabelName(c.lab))
  IN  IF c.tok.t = "=" THEN InitVar(GetToken(p)) ELSE GenZeroData(p, GetDeclSize(c.decl.type, FALSE))

(* Its values are data that a call of StructCpy copies.                    *)
LocalArray(c) ==
  LET initLabel == LabelName(c.lab)
      p == InitVar(GetToken(GenLabel(NewLabels(AsDeclared(c, "local", 0), 1), initLabel)))
      size == GetDeclSize(p.decl.type, FALSE)
      q == AllocLocal(p, size)
      r == IF q.copy # "" THEN q ELSE [NewLabels(q, 1) EXCEPT !.copy = LabelName(q.lab)]
      call == <<Tok("(", 3 * SizeOfWord), Tok("local", q.localOfs), Op(","), Tok("id", initLabel), Op(","),
                Tok("unum", size), Op(","), Tok("id", r.copy), Tok(")", 3 * SizeOfWord)>>
  IN  IF p.err THEN p
      ELSE GenExpr([r EXCEPT !.syms = [@ EXCEPT ![Len(@)].sym.v = q.localOfs], !.expr.code = call], <<>>)

(* Even a character gets its first value as a word.                        *)
LocalScalar(c) ==
  LET room == AllocLocal(c, GetDeclSize(c.decl.type, FALSE))
      p == AsDeclared(room, "local", room.localOfs)
      first == GetToken(p)
      brace == first.tok.t = "{"
      e == ParseExprFor(IF brace THEN GetToken(first) ELSE first, "=", c.decl.name)
      q == IF brace THEN Expect(e, "}") ELSE e
  IN  IF c.tok.t # "=" THEN p
      ELSE IF e.err \/ ~e.gotUnary THEN errorUnexpectedToken(e)
      ELSE GenExpr([q EXCEPT !.expr.code[Len(q.expr.code)].v = SizeOfWord], <<>>)

Declared(c, class) ==
  CASE c.err \/ errorDecl(c, class) -> errorUnexpectedToken(c)
    [] IsFxn(c.decl.type) \/ class = "extern" -> AsDeclared(c, "global", c.decl.name)
    [] class = "static" -> StaticVar(c)
    [] OTHER -> IF IsArray(c.decl.type) /\ c.tok.t = "=" THEN LocalArray(c) ELSE LocalScalar(c)

(* One declarator after the other; what is between them is not looked at.  *)
RECURSIVE Declarators(_, _, _)
Declarators(c, base, class) ==
  LET p == Declared(PushBase(ParseDerived(c), base), class)
  IN  IF p.err \/ p.tok.t = "eof" THEN errorUnexpectedToken(p)
      ELSE IF p.tok.t \in {";", "}"} THEN GetToken(p)
      ELSE Declarators(GetToken(p), base, class)

ParseDecl(c) ==
  LET class == IF c.tok.t \in {"extern", "static"} THEN c.tok.t ELSE "auto"
      p == IF class = "auto" THEN c ELSE GetToken(c)
      q == ParseBase(p, {})
  IN  IF ~TokenStartsDeclaration(p.tok.t, TRUE) THEN errorUnexpectedToken(p) ELSE Declarators(q, q.base, class)

(* The parameters of the function that is defined lie above the saved      *)
(* frame pointer and return address, each in a word.                       *)
AddFxnParamSymbols(c) ==
  [c EXCEPT !.syms = [n \in DOMAIN c.params |->
                        Symbol(c.params[n].name, "local", c.params[n].type, SizeOfWord * (n + 1))],
            !.localOfs = 0, !.minLocalOfs = 0]
================================================================================
