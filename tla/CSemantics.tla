------------------------------ MODULE CSemantics ------------------------------
(***************************************************************************)
(* What an expression means in C, as a reference for the compiler: defined *)
(* on the source by where its weakest operator stands, with no stack and   *)
(* no instructions.  Integers are two's complement and wrap around.        *)
(*                                                                         *)
(* The meaning of an expression in the memory mem is a record: type and    *)
(* val; at, its address if it is an lvalue, else -1; mem afterwards; the   *)
(* cells it reads and writes (rd, wr); the calls it makes; ill when C does *)
(* not allow it; ub when C does not define what it does, as when the order *)
(* of two operands matters; loose when calls may come in another order.    *)
(***************************************************************************)
EXTENDS Processor

RECURSIVE SizeOf(_)
SizeOf(type) == CASE IsVoid(type) -> 0 [] IsChar(type) -> 1
                  [] IsArray(type) -> Dimensions[type[1]] * SizeOf(Tail(type)) [] OTHER -> 4
Norm(type, n) == CASE type[1] = "char" -> SignExtended(n) [] type[1] = "uchar" -> ZeroExtended(n)
                   [] type = IntT -> truncInt(n) [] OTHER -> truncUint(n)
IsPointer(type) == type[1] = "*"
Steps(type) == IsPointer(type) /\ ~IsFxn(Tail(type)) /\ ~IsVoid(Tail(type))   \* pointers to objects
Promoted(type) == IF IsChar(type) THEN IntT ELSE type
Usual(a, b) == IF isUint(a) \/ isUint(b) THEN UintT ELSE IntT

(* The operators between operands, the weakest first.                      *)
Level(t) == CASE t = "," -> 1 [] t \in CompoundOps \cup {"="} -> 2 [] t = "?" -> 3 [] t = "||" -> 4
              [] t = "&&" -> 5 [] t = "|" -> 6 [] t = "^" -> 7 [] t = "&" -> 8
              [] t \in {"==", "!="} -> 9 [] t \in {"<", ">", "<=", ">="} -> 10
              [] t \in {"<<", ">>"} -> 11 [] t \in {"+", "-"} -> 12 [] t \in {"*", "/", "%"} -> 13
              [] OTHER -> 0
RightToLeft == {2, 3}

Opens(t) == t \in {"(", "[", "?"}
Closes(t) == t \in {")", "]", ":"}
Depth(src, k) == Cardinality({j \in 1..(k - 1) : Opens(src[j].t)})
                 - Cardinality({j \in 1..(k - 1) : Closes(src[j].t)})

(* Where the bracket at k is closed, and where the one that ends at k opens. *)
RECURSIVE ClosedFrom(_, _, _), OpenedFrom(_, _, _)
Deeper(src, k, d) == CASE Opens(src[k].t) -> d + 1 [] Closes(src[k].t) -> d - 1 [] OTHER -> d
ClosedFrom(src, k, d) == LET e == Deeper(src, k, d)
                         IN  IF e = 0 \/ k = Len(src) THEN k ELSE ClosedFrom(src, k + 1, e)
OpenedFrom(src, k, d) == LET e == Deeper(src, k, d)
                         IN  IF e = 0 \/ k = 1 THEN k ELSE OpenedFrom(src, k - 1, e)
ClosedAt(src, k) == ClosedFrom(src, k, 0)
OpenedAt(src, k) == OpenedFrom(src, k, 0)

Closer(t) == CASE t = "(" -> ")" [] t = "[" -> "]" [] t = "?" -> ":"
Balanced(src) == /\ \A k \in DOMAIN src : Depth(src, k + 1) >= 0
                 /\ Depth(src, Len(src) + 1) = 0
                 /\ \A k \in DOMAIN src : Opens(src[k].t) => src[ClosedAt(src, k)].t = Closer(src[k].t)

RECURSIVE EndsOperand(_, _)
EndsOperand(src, k) ==
  \/ src[k].t \in {"num", "unum", "id", "obj", "]"}
  \/ /\ src[k].t = ")"
     /\ LET o == OpenedAt(src, k) IN src[o + 1].t \in TypeWords => o > 1 /\ src[o - 1].t = "sizeof"
  \/ src[k].t \in {"++", "--"} /\ k > 1 /\ EndsOperand(src, k - 1)
BetweenOperands(src) == {k \in 2..(Len(src) - 1) :
                            Level(src[k].t) > 0 /\ Depth(src, k) = 0 /\ EndsOperand(src, k - 1)}
Weakest(src) ==
  LET ks == BetweenOperands(src)
      level == CHOOSE n \in 1..13 : /\ \E k \in ks : Level(src[k].t) = n
                                    /\ \A k \in ks : n <= Level(src[k].t)
      at == {k \in ks : Level(src[k].t) = level}
  IN  CHOOSE k \in at : \A j \in at : IF level \in RightToLeft THEN k <= j ELSE j <= k

(* Memory has the cells of the program's variables and, at the low         *)
(* addresses, those of what a function declares, of which a character's    *)
(* is not on a word; a cell that has no value yet holds -1.                *)
HoldsChar(a) == a \in CharCells \/ a % 4 = 2
Indeterminate == -1

Meaning(type, val, mem) == [type |-> type, val |-> Norm(type, val), at |-> -1, mem |-> mem,
                            rd |-> {}, wr |-> {}, calls |-> <<>>, ill |-> FALSE, ub |-> FALSE,
                            loose |-> FALSE]
Ill(mem) == [Meaning(IntT, 0, mem) EXCEPT !.ill = TRUE]
Need(r, ok) == IF ok /\ ~r.ill THEN r ELSE Ill(r.mem)
Cell(type, a, mem) == a \in DOMAIN mem /\ HoldsChar(a) = IsChar(type)

(* The value of an lvalue; an array is the address of its first element.   *)
Value(r) ==
  IF IsFxn(r.type) THEN [r EXCEPT !.type = PointerTo(@), !.val = r.at, !.at = -1]
  ELSE IF r.at = -1 THEN r
  ELSE IF IsArray(r.type) THEN [r EXCEPT !.type = PointerTo(Tail(@)), !.val = r.at, !.at = -1]
  ELSE IF ~Cell(r.type, r.at, r.mem) \/ r.mem[r.at] = Indeterminate THEN [r EXCEPT !.ub = TRUE, !.at = -1]
  ELSE [r EXCEPT !.val = Norm(r.type, r.mem[r.at]), !.at = -1, !.rd = @ \cup {r.at}]

(* What r does, with another type and value.                               *)
As(r, type, val) == [r EXCEPT !.type = type, !.val = Norm(type, val), !.at = -1]
(* r after l: the effects of both. *)
After(l, r) == [r EXCEPT !.rd = @ \cup l.rd, !.wr = @ \cup l.wr, !.calls = l.calls \o @,
                         !.ill = @ \/ l.ill, !.ub = @ \/ l.ub, !.loose = @ \/ l.loose]
(* Two operands in either order.                                           *)
Conflict(l, r) == l.wr \cap (r.rd \cup r.wr) # {} \/ r.wr \cap l.rd # {}
Either(l, r) == [After(l, r) EXCEPT !.ub = @ \/ Conflict(l, r),
                                    !.loose = @ \/ (l.calls # <<>> /\ r.calls # <<>>)]

Stored(r, to, type, val) ==
  IF ~Cell(type, to, r.mem) THEN [As(r, type, 0) EXCEPT !.ub = TRUE]
  ELSE [As(r, type, val) EXCEPT !.mem[to] = IF IsChar(type) THEN ZeroExtended(val) ELSE truncUint(val),
                                !.wr = @ \cup {to}, !.ub = @ \/ to \in r.wr]

Computed(t, type, x, y) ==
  CASE t = "+" -> x + y [] t = "-" -> x - y [] t = "*" -> x * y
    [] t = "/" -> Quotient(x, y) [] t = "%" -> Remainder(x, y)
    [] t = "&" -> BitAnd(x, y) [] t = "|" -> BitOr(x, y) [] t = "^" -> BitXor(x, y)
    [] t = "<<" -> ShiftLeft(truncUint(x), y) [] t = ">>" -> ShiftRight(x, y)

(* l t r for two values, whatever the order they were worked out in.       *)
Operation(t, l, r) ==
  LET both == Either(l, r)
      shift == t \in {"<<", ">>"}
      type == IF shift THEN Promoted(l.type) ELSE Usual(l.type, r.type)
      x == Norm(type, l.val)
      y == IF shift THEN Norm(Promoted(r.type), r.val) ELSE Norm(type, r.val)
      undefined == \/ t \in {"/", "%"} /\ (y = 0 \/ (x = IntMin /\ y = -1))
                   \/ shift /\ y \notin 0..(WordBits - 1)
      moved(p, n) == As(both, p.type, p.val + (IF t = "-" THEN -1 ELSE 1) * n.val * SizeOf(Tail(p.type)))
  IN  CASE IsNumeric(l.type) /\ IsNumeric(r.type) ->
             IF undefined THEN [As(both, type, 0) EXCEPT !.ub = TRUE]
             ELSE As(both, type, Computed(t, type, x, y))
        [] t \in {"+", "-"} /\ Steps(l.type) /\ IsNumeric(r.type) -> moved(l, r)
        [] t = "+" /\ IsNumeric(l.type) /\ Steps(r.type) -> moved(r, l)
        [] t = "-" /\ Steps(l.type) /\ l.type = r.type ->
             As(both, IntT, Quotient(truncInt(l.val - r.val), SizeOf(Tail(l.type))))
        [] OTHER -> Ill(r.mem)

Comparison(t, l, r, lzero, rzero) ==
  LET type == Usual(l.type, r.type)
      both == Either(l, r)
      equality == t \in {"==", "!="}
  IN  CASE IsNumeric(l.type) /\ IsNumeric(r.type) ->
             As(both, IntT, Truth(Compare(t, Norm(type, l.val), Norm(type, r.val))))
        [] \/ IsPointer(l.type) /\ r.type = l.type /\ (equality \/ Steps(l.type))
           \/ IsPointer(l.type) /\ rzero /\ equality
           \/ IsPointer(r.type) /\ lzero /\ equality ->
             As(both, IntT, Truth(Compare(t, l.val, r.val)))
        [] OTHER -> Ill(r.mem)

Scalar(r) == ~r.ill /\ (IsNumeric(r.type) \/ IsPointer(r.type))

RECURSIVE Eval(_, _), ArgumentsFrom(_, _, _)
Zeroes(src) == src = <<Tok("num", 0)>>

Binary(src, mem, k) ==
  LET t == src[k].t
      left == SubSeq(src, 1, k - 1)
      right == SubSeq(src, k + 1, Len(src))
      place == Eval(left, mem)
      l == Value(place)
      r == Value(Eval(right, place.mem))
      assignable == place.at # -1 /\ ~IsArray(place.type) /\ ~IsFxn(place.type)
      done == Operation(Plain(t), l, r)
      decided == (l.val = 0) = (t = "&&")
  IN  CASE t = "," -> After(l, r)
        [] t \in {"&&", "||"} ->
             Need(IF decided THEN As(l, IntT, Truth(t = "||")) ELSE As(After(l, r), IntT, Truth(r.val # 0)),
                  Scalar(l) /\ Scalar(r))
        [] t = "=" -> Need(Stored(Either(place, r), place.at, place.type, r.val),
                           /\ assignable /\ Scalar(l) /\ Scalar(r)
                           /\ \/ IsNumeric(l.type) /\ IsNumeric(r.type)
                              \/ IsPointer(l.type) /\ (r.type = l.type \/ Zeroes(right)))
        [] t \in CompoundOps -> Need(Stored(done, place.at, place.type, done.val),
                                     /\ assignable /\ Scalar(l) /\ Scalar(r) /\ ~done.ill
                                     /\ IsNumeric(r.type))
        [] t \in CmpOps -> Need(Comparison(t, l, r, Zeroes(left), Zeroes(right)), Scalar(l) /\ Scalar(r))
        [] OTHER -> Need(Operation(t, l, r), Scalar(l) /\ Scalar(r))

Choice(src, mem, k) ==
  LET colon == ClosedAt(src, k)
      c == Value(Eval(SubSeq(src, 1, k - 1), mem))
      x == Value(Eval(SubSeq(src, k + 1, colon - 1), c.mem))
      y == Value(Eval(SubSeq(src, colon + 1, Len(src)), c.mem))
      type == IF IsNumeric(x.type) THEN Usual(x.type, y.type) ELSE x.type
      chosen == IF c.val # 0 THEN x ELSE y
  IN  Need(As(After(c, chosen), type, chosen.val),
           /\ Scalar(c) /\ Scalar(x) /\ Scalar(y)
           /\ \/ IsNumeric(x.type) /\ IsNumeric(y.type)
              \/ x.type = y.type)

(* ++ and --: what is stored, and whether the value is the old one.        *)
Stepped(place, t, old) ==
  LET v == Value(place)
      by == IF IsPointer(v.type) THEN SizeOf(Tail(v.type)) ELSE 1
      r == Stored(v, place.at, place.type, IF t = "++" THEN v.val + by ELSE v.val - by)
  IN  Need(IF old THEN As(r, place.type, v.val) ELSE r,
           /\ place.at # -1 /\ ~IsArray(place.type)
           /\ Scalar(v) /\ (IsNumeric(v.type) \/ Steps(v.type)))

(* "(type)" *)
IsCast(src) == Len(src) > 1 /\ src[1].t = "(" /\ src[2].t \in TypeWords
TypeName(ws) == [n \in 1..Cardinality({k \in DOMAIN ws : ws[k].t = "*"}) |-> "*"]
                \o BaseType({ws[k].t : k \in DOMAIN ws})

Pointee(v) == Need([v EXCEPT !.type = Tail(@), !.at = v.val, !.val = 0],
                   IsPointer(v.type) /\ ~IsVoid(Tail(v.type)))

Prefix(src, mem) ==
  LET t == src[1].t
      place == Eval(Tail(src), mem)
      v == Value(place)
  IN  CASE t \in {"++", "--"} -> Stepped(place, t, FALSE)
        [] t = "!" -> Need(As(v, IntT, Truth(v.val = 0)), Scalar(v))
        [] t \in {"+", "-", "~"} ->
             Need(As(v, Promoted(v.type),
                     CASE t = "+" -> v.val [] t = "-" -> -v.val [] t = "~" -> BitNot(v.val)),
                  Scalar(v) /\ IsNumeric(v.type))
        [] t = "*" -> Need(Pointee(v), Scalar(v))
        [] t = "&" -> Need(As(place, PointerTo(place.type), place.at),
                           ~place.ill /\ place.at # -1)
        [] t = "sizeof" -> LET type == IF IsCast(Tail(src)) THEN TypeName(SubSeq(src, 3, Len(src) - 1)) ELSE place.type
                           IN  Need(Meaning(UintT, SizeOf(type), mem), SizeOf(type) > 0 /\ ~IsFxn(type))

CastTo(type, v) ==
  Need(As(v, type, v.val), /\ Scalar(v)
                           /\ (IsPointer(v.type) => ~IsChar(type)) /\ (IsPointer(type) => ~IsChar(v.type)))

(* The arguments of a call, each unsequenced with what came before.        *)
ArgumentsFrom(src, acc, vals) ==
  IF src = <<>> THEN [all |-> acc, vals |-> vals]
  ELSE LET commas == {k \in DOMAIN src : src[k].t = "," /\ Depth(src, k) = 0}
           k == IF commas = {} THEN Len(src) + 1
                ELSE CHOOSE n \in commas : \A j \in commas : n <= j
           v == Value(Eval(SubSeq(src, 1, k - 1), acc.mem))
       IN  IF ~Scalar(v) THEN [all |-> Ill(v.mem), vals |-> vals]
           ELSE ArgumentsFrom(SubSeq(src, k + 1, Len(src)), Either(acc, v),
                           Append(vals, IF IsNumeric(v.type) THEN truncUint(v.val) ELSE -1))

Called(f, inside) ==
  LET a == ArgumentsFrom(inside, f, <<>>)
      n == FunctionAt(f.val)
  IN  IF ~(IsPointer(f.type) /\ IsFxn(Tail(f.type))) THEN Ill(f.mem)
      ELSE IF a.all.ill \/ Len(a.vals) # MinParams(Tail(f.type)) \/ \E k \in DOMAIN a.vals : a.vals[k] = -1
      THEN Ill(f.mem)
      ELSE IF ~IsFunctionAt(f.val) THEN [As(a.all, IntT, 0) EXCEPT !.ub = TRUE]
      ELSE IF NumArgs(n) # Len(a.vals) THEN [As(a.all, IntT, 0) EXCEPT !.ub = TRUE]
      ELSE As([a.all EXCEPT !.calls = Append(@, <<n, a.vals>>)], IntT, Returned(n, a.vals))

Postfixed(src, mem) ==
  LET n == Len(src)
      t == src[n].t
      k == OpenedAt(src, n)
      inside == SubSeq(src, k + 1, n - 1)
      front == Eval(SubSeq(src, 1, k - 1), mem)
      index == Value(Eval(inside, front.mem))
  IN  IF t \in {"++", "--"} THEN Stepped(Eval(Front(src), mem), t, TRUE)
      ELSE IF t = "]" THEN (IF ~Scalar(Value(front)) \/ ~Scalar(index) THEN Ill(mem)
                            ELSE LET sum == Operation("+", Value(front), index)
                                 IN  Need(Pointee(sum), ~sum.ill))
      ELSE IF k = 1 THEN Eval(inside, mem)
      ELSE IF front.ill THEN Ill(mem) ELSE Called(Value(front), inside)

(* A name of the file; what the function declares has its type and place.  *)
PlaceOf(type, at, mem) == [Meaning(IntT, 0, mem) EXCEPT !.type = type, !.at = at]
Named(name, mem) ==
  IF name \notin DOMAIN Symbols THEN Ill(mem)
  ELSE LET sym == Symbols[name]
       IN  IF sym.k = "enum" THEN Meaning(IntT, sym.v, mem) ELSE PlaceOf(sym.type, sym.v, mem)

StartsOperand(t) == t \in {"++", "--", "!", "~", "+", "-", "*", "&", "sizeof"}

(* mem is the memory when the evaluation starts. *)
Eval(src, mem) ==
  IF BetweenOperands(src) # {}
  THEN LET k == Weakest(src) IN IF src[k].t = "?" THEN Choice(src, mem, k) ELSE Binary(src, mem, k)
  ELSE CASE StartsOperand(src[1].t) -> Prefix(src, mem)
         [] IsCast(src) ->
              LET close == ClosedAt(src, 1)
              IN  CastTo(TypeName(SubSeq(src, 2, close - 1)), Value(Eval(SubSeq(src, close + 1, Len(src)), mem)))
         [] src[Len(src)].t \in {"]", ")", "++", "--"} -> Postfixed(src, mem)
         [] src[1].t = "num" -> Meaning(IntT, src[1].v, mem)
         [] src[1].t = "unum" -> Meaning(UintT, src[1].v, mem)
         [] src[1].t = "id" -> Named(src[1].v, mem)
         [] src[1].t = "obj" -> PlaceOf(src[1].v.type, src[1].v.at, mem)

Denotes(src, mem) == Value(Eval(src, mem))
================================================================================
