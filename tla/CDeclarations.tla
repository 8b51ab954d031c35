------------------------------ MODULE CDeclarations ------------------------------
(***************************************************************************)
(* What the names that a function declares mean in C, on its source: a     *)
(* name is the last one declared before it whose block is still open.      *)
(* Resolved(src) is the source with a token "obj" in the place of each     *)
(* such name: its type, the reference's own address for it, its class, the *)
(* position n of its declaration and where its first value is written. A   *)
(* declaration and a statement are the position of their first token.      *)
(***************************************************************************)
EXTENDS CSemantics

First(src, k, ts) == CHOOSE j \in k..Len(src) : /\ src[j].t \in ts
                                               /\ \A n \in k..(j - 1) : src[n].t \notin ts
After1(src, k) == ClosedAt(src, k + 1) + 1        \* after the brackets that follow a keyword
SemicolonAt(src, k) == First(src, k, {";"})
ColonAt(src, k) == First(src, k, {":"})
IsLabelAt(src, k) == /\ src[k].t = "id" /\ src[k + 1].t = ":"
                     /\ src[k - 1].t \in {"{", "}", ";", ":", ")", "else", "do"}
IsEntry(src, k) == src[k].t \in {"case", "default"} \/ IsLabelAt(src, k)

(* The position after the statement at k, and after the block at k.        *)
RECURSIVE EndOf(_, _), BlockEnd(_, _)
EndOf(src, k) ==
  LET t == src[k].t
  IN  CASE t = "{" -> BlockEnd(src, k + 1)
        [] t = "if" -> LET e == EndOf(src, After1(src, k))
                       IN  IF src[e].t = "else" THEN EndOf(src, e + 1) ELSE e
        [] t \in {"while", "for", "switch"} -> EndOf(src, After1(src, k))
        [] t = "do" -> After1(src, EndOf(src, k + 1)) + 1
        [] IsEntry(src, k) -> EndOf(src, ColonAt(src, k) + 1)
        [] OTHER -> SemicolonAt(src, k) + 1
BlockEnd(src, k) == IF src[k].t = "}" THEN k + 1 ELSE BlockEnd(src, EndOf(src, k))

--------------------------------------------------------------------------------
(* What commas separate in from..to, outside of any brackets.              *)
Inside(src, from, k) == Cardinality({j \in from..(k - 1) : src[j].t \in {"(", "[", "{"}})
                        - Cardinality({j \in from..(k - 1) : src[j].t \in {")", "]", "}"}})
RECURSIVE Parts(_, _, _)
Parts(src, from, to) ==
  LET commas == {k \in from..to : src[k].t = "," /\ Inside(src, from, k) = 0}
      end == IF commas = {} THEN to ELSE Min(commas) - 1
  IN  IF from > to THEN <<>> ELSE <<[from |-> from, to |-> end]>> \o Parts(src, end + 2, to)

(* A declarator is read as it is used: what follows a name binds first.    *)
RECURSIVE DeclaredType(_, _)
DeclaredType(d, base) ==
  LET n == Len(d)
      o == OpenedAt(d, n)
      inside == SubSeq(d, o + 1, n - 1)
      before == SubSeq(d, 1, o - 1)
      params == CASE inside = <<>> -> "(" [] inside = <<Op("void")>> -> "(0"
                  [] OTHER -> "(" \o ToString(Len(Parts(inside, 1, Len(inside))))
      size == IF inside = <<>> THEN 0 ELSE Eval(inside, <<>>).val
  IN  CASE n = 0 -> base
        [] d[1].t = "*" -> DeclaredType(Tail(d), PointerTo(base))
        [] d[n].t = "]" -> DeclaredType(before, <<"[" \o ToString(size)>> \o base)
        [] d[n].t = ")" /\ o > 1 -> DeclaredType(before, <<params>> \o base)
        [] d[n].t = ")" -> DeclaredType(inside, base)
        [] OTHER -> base

SpecifierEnd(src, k) == CHOOSE j \in k..Len(src) :
  /\ ~TokenStartsDeclaration(src[j].t, FALSE)
  /\ \A n \in k..(j - 1) : TokenStartsDeclaration(src[n].t, FALSE)
Specifiers(src, k) == {src[j].t : j \in k..(SpecifierEnd(src, k) - 1)}
ClassAt(src, k) == IF Specifiers(src, k) \cap {"static", "extern"} = {} THEN "auto"
                   ELSE CHOOSE c \in Specifiers(src, k) : c \in {"static", "extern"}

(* One declarator: the position n of its name, 0 for none, and from..to,   *)
(* where its first value is written, from = 0 for nowhere.                 *)
Declarator(src, part, base) ==
  LET eqs == {k \in part.from..part.to : src[k].t = "="}
      eq == IF eqs = {} THEN 0 ELSE Min(eqs)
      end == IF eq = 0 THEN part.to ELSE eq - 1
      names == {k \in part.from..end : src[k].t \in {"id", "obj"}}
      type == DeclaredType(SubSeq(src, part.from, end), base)
      listed == "[" \o ToString(Len(Parts(src, eq + 2, part.to - 1)))
  IN  [n |-> IF names = {} THEN 0 ELSE Min(names), from |-> IF eq = 0 THEN 0 ELSE eq + 1, to |-> part.to,
       type |-> IF type[1] = "[0" /\ eq # 0 THEN <<listed>> \o Tail(type) ELSE type]
DeclaratorsAt(src, k) ==
  LET parts == Parts(src, SpecifierEnd(src, k), SemicolonAt(src, k) - 1)
  IN  [j \in DOMAIN parts |-> Declarator(src, parts[j], BaseType(Specifiers(src, k)))]

(* The function is "type name(parameters) {"; declarations are in its      *)
(* blocks and at the start of for.                                         *)
ParamsEnd(src) == ClosedAt(src, 3)
BodyAt(src) == ParamsEnd(src) + 1
DeclarationsOf(src) ==
  {k \in (BodyAt(src) + 1)..Len(src) :
     /\ TokenStartsDeclaration(src[k].t, FALSE)
     /\ src[k - 1].t \in {"{", "}", ";"} \/ (src[k - 1].t = "(" /\ src[k - 2].t = "for")}
ScopeEnd(src, k) == IF src[k - 1].t = "(" THEN EndOf(src, k - 2) - 1 ELSE BlockEnd(src, k) - 1

Object(src, d, class, last, at) ==
  [n |-> d.n, name |-> src[d.n].v, type |-> d.type, class |-> class, last |-> last, at |-> at,
   from |-> d.from, to |-> d.to]
Params(src) ==
  LET parts == Parts(src, 4, ParamsEnd(src) - 1)
      param(k) == LET from == SpecifierEnd(src, parts[k].from)
                      d == Declarator(src, [from |-> from, to |-> parts[k].to],
                                      BaseType(Specifiers(src, parts[k].from)))
                      type == IF IsArray(d.type) THEN PointerTo(Tail(d.type)) ELSE d.type
                  IN  Object(src, [d EXCEPT !.type = type], "param", Len(src), StackTop + 4 * (k - 1))
  IN  {param(k) : k \in DOMAIN parts}

ObjectRoom == 16
Locals(src) ==
  LET named == [k \in DeclarationsOf(src) |-> SelectSeq(DeclaratorsAt(src, k), LAMBDA d : d.n # 0)]
      names == UNION {{named[k][j].n : j \in DOMAIN named[k]} : k \in DOMAIN named}
      at(d) == ObjectRoom * Cardinality({n \in names : n <= d.n})
               + (IF IsChar(d.type) THEN 2 ELSE 0)
      class(k, d) == IF IsFxn(d.type) THEN "extern" ELSE ClassAt(src, k)
  IN  UNION {{Object(src, named[k][j], class(k, named[k][j]), ScopeEnd(src, k), at(named[k][j])) :
                j \in DOMAIN named[k]} : k \in DOMAIN named}

Resolved(src) ==
  LET objects == Params(src) \cup Locals(src)
      known(k) == {o \in objects : o.name = src[k].v /\ k \in o.n..o.last}
      last(k) == CHOOSE o \in known(k) : \A p \in known(k) : p.n <= o.n
      token(k) == IF src[k].t # "id" THEN src[k]
                  ELSE IF known(k) = {} THEN src[k]
                  ELSE IF last(k).class = "extern" THEN src[k]
                  ELSE Tok("obj", last(k))
  IN  [k \in DOMAIN src |-> token(k)]

(* The words of a first value: of every element in turn, and 0 for those   *)
(* that are not written.                                                   *)
RECURSIVE InitialWords(_, _, _, _)
InitialWords(src, from, to, type) ==
  LET parts == Parts(src, from + 1, to - 1)
      element == Tail(type)
      words(k) == IF k \in DOMAIN parts THEN InitialWords(src, parts[k].from, parts[k].to, element)
                  ELSE [n \in 1..(SizeOf(element) \div 4) |-> 0]
  IN  IF IsArray(type) THEN FlattenSeq([k \in 1..Dimensions[type[1]] |-> words(k)])
      ELSE IF src[from].t = "{" THEN InitialWords(src, from + 1, to - 1, type)
      ELSE LET x == Norm(type, Denotes(SubSeq(src, from, to), <<>>).val)
           IN  <<IF IsChar(type) THEN ZeroExtended(x) ELSE truncUint(x)>>

(* The objects that are declared in from..to, and their cells.             *)
DeclaredIn(src, from, to, class) ==
  {src[k].v : k \in {j \in from..to : src[j].t = "obj" /\ src[j].v.n = j /\ src[j].v.class = class}}
CellsOf(o) == IF IsChar(o.type) THEN {o.at} ELSE {o.at + 4 * k : k \in 0..(SizeOf(o.type) \div 4 - 1)}
With(mem, o, words) == [a \in DOMAIN mem |-> IF a \in CellsOf(o) THEN words[(a - o.at) \div 4 + 1] ELSE mem[a]]
Forgotten(mem, objects) ==
  LET cells == UNION {CellsOf(o) : o \in objects}
  IN  [a \in DOMAIN mem |-> IF a \in cells THEN Indeterminate ELSE mem[a]]

(* The memory at the start: statics have their first values, the rest of   *)
(* what the function declares has none.                                    *)
StartMemory(src, mem) ==
  LET from == BodyAt(src)
      statics == DeclaredIn(src, from, Len(src), "static")
      cells == UNION {CellsOf(o) : o \in statics \cup DeclaredIn(src, from, Len(src), "auto")}
      static(a) == {o \in statics : a \in CellsOf(o)}
      value(o, a) == IF o.from = 0 THEN 0 ELSE InitialWords(src, o.from, o.to, o.type)[(a - o.at) \div 4 + 1]
      cell(a) == CASE a \notin cells -> mem[a] [] static(a) = {} -> Indeterminate
                   [] OTHER -> value(CHOOSE o \in static(a) : TRUE, a)
  IN  [a \in DOMAIN mem \cup cells |-> cell(a)]
================================================================================
