------------------------------ MODULE CStatements ------------------------------
(***************************************************************************)
(* What a function means in C, on its source.  The state s of a run has    *)
(* the memory mem, the calls made, the value val returned, and how it goes on: "run", *)
(* "break", "continue", "return", or "seek" while it looks for the token   *)
(* at position to, where goto or switch sent it; ends is FALSE when a loop *)
(* has gone round MaxRounds times.                                         *)
(***************************************************************************)
EXTENDS CDeclarations

CONSTANT MaxRounds

Labels(src) == {k \in 2..(Len(src) - 1) : IsLabelAt(src, k)}
(* The value after case.                                                   *)
CaseValue(src, k) == truncUint(Denotes(SubSeq(src, k + 1, ColonAt(src, k) - 1), <<>>).val)

(* What C asks of a first value: no more elements than there are, and no   *)
(* list but in braces; only constants where it is part of the program.     *)
RECURSIVE Initialises(_, _, _, _, _)
Initialises(src, from, to, type, fixed) ==
  LET parts == Parts(src, from + 1, to - 1)
      r == Denotes(SubSeq(src, from, to), <<>>)
  IN  IF IsArray(type)
      THEN /\ src[from].t = "{" /\ Len(parts) \in 1..Dimensions[type[1]]
           /\ \A k \in DOMAIN parts : Initialises(src, parts[k].from, parts[k].to, Tail(type), fixed)
      ELSE IF src[from].t = "{" THEN Initialises(src, from + 1, to - 1, type, fixed)
      ELSE fixed => ~r.ub /\ ~r.ill /\ r.calls = <<>>
(* And of a declaration: an object has a size, a function is not defined   *)
(* inside another.                                                         *)
Declares(src, d, class) ==
  /\ d.n # 0
  /\ CASE IsFxn(d.type) -> d.from = 0 /\ class # "static"
       [] class = "extern" -> d.from = 0 /\ ~IsVoid(d.type)
       [] OTHER -> /\ SizeOf(d.type) > 0
                   /\ d.from # 0 => Initialises(src, d.from, d.to, d.type, class = "static" \/ IsArray(d.type))

(* What C asks of a function besides its grammar: declarations like these, *)
(* labels that are declared once and are there for every goto, no value    *)
(* twice in a switch, and jumps and labels inside what they belong to.     *)
BodyOf(src, k) == LET from == IF src[k].t = "do" THEN k + 1 ELSE After1(src, k)
                  IN  from..(EndOf(src, from) - 1)
Within(src, n, kinds) == {k \in DOMAIN src : src[k].t \in kinds /\ n \in BodyOf(src, k)}
Loops == {"while", "do", "for"}
Innermost(src, k, n) == n \in BodyOf(src, k) /\ \A j \in Within(src, n, {"switch"}) : j <= k
Entries(src, k) == {n \in BodyOf(src, k) : src[n].t \in {"case", "default"} /\ Innermost(src, k, n)}
WellFormed(src) ==
  LET at(t) == {n \in DOMAIN src : src[n].t = t}
      labels == Labels(src)
      same(n, m) == src[n].t = src[m].t /\ (src[n].t = "default" \/ CaseValue(src, n) = CaseValue(src, m))
      declares(k) == LET ds == DeclaratorsAt(Resolved(src), k)
                     IN  ds # <<>> /\ \A j \in DOMAIN ds : Declares(Resolved(src), ds[j], ClassAt(src, k))
  IN  /\ \A k \in DeclarationsOf(src) : declares(k)
      /\ \A n, m \in labels : src[n].v = src[m].v => n = m
      /\ \A n \in at("goto") : \E m \in labels : src[m].v = src[n + 1].v
      /\ \A n \in at("break") : Within(src, n, Loops \cup {"switch"}) # {}
      /\ \A n \in at("continue") : Within(src, n, Loops) # {}
      /\ \A n \in at("case") \cup at("default") : Within(src, n, {"switch"}) # {}
      /\ \A k \in at("switch") : \A n, m \in Entries(src, k) : same(n, m) => n = m

(* An expression is evaluated, or the one in from..to.                     *)
Effect(tokens, s) ==
  LET r == Denotes(tokens, s.mem)
  IN  [s EXCEPT !.mem = r.mem, !.calls = @ \o r.calls, !.val = truncUint(r.val),
                !.ub = @ \/ r.ub \/ r.ill, !.ill = @ \/ r.ill, !.loose = @ \/ r.loose]
Evaluated(src, from, to, s) == Effect(SubSeq(src, from, to), s)
Condition1(src, k, s) == Evaluated(src, k + 2, ClosedAt(src, k + 1) - 1, s)

(* The declaration at k gives its objects their first values, or takes the *)
(* ones they had.                                                          *)
RECURSIVE Declaring(_, _, _)
Declaring(src, ds, s) ==
  LET o == src[ds[1].n].v
      words == InitialWords(src, o.from, o.to, o.type)
      value == IF src[o.from].t = "{" THEN SubSeq(src, o.from + 1, o.to - 1) ELSE SubSeq(src, o.from, o.to)
      next == CASE src[ds[1].n].t # "obj" -> s
                [] o.class # "auto" -> s
                [] o.from = 0 -> [s EXCEPT !.mem = Forgotten(@, {o})]
                [] IsArray(o.type) -> [s EXCEPT !.mem = With(@, o, words)]
                [] OTHER -> Effect(<<src[o.n], Op("=")>> \o value, s)
  IN  IF ds = <<>> THEN s ELSE Declaring(src, Tail(ds), next)
(* Also when goto enters it: what its objects had is not counted on then.  *)
Entered(src, k, s) == [s EXCEPT !.mem = Forgotten(@, DeclaredIn(src, k, EndOf(src, k) - 1, "auto"))]

(* Where the switch at k goes for val, 0 for nowhere.                      *)
CaseAt(src, k, val) ==
  LET match == {n \in Entries(src, k) : src[n].t = "case" /\ CaseValue(src, n) = val}
      other == {n \in Entries(src, k) : src[n].t = "default"}
  IN  CASE match # {} -> CHOOSE n \in match : TRUE
        [] other # {} -> CHOOSE n \in other : TRUE
        [] OTHER -> 0

GotoAt(src, name) == CHOOSE n \in Labels(src) : src[n].v = name
Seeking(s, n) == [s EXCEPT !.mode = "seek", !.to = n]
Running(s) == [s EXCEPT !.mode = "run"]
Left(s, mode) == IF s.mode = mode THEN Running(s) ELSE s

RECURSIVE Exec(_, _, _), ExecBlock(_, _, _), Loop(_, _, _, _)

(* A round of the loop at k; tested says its condition is still to come.   *)
Loop(src, k, s, tested) ==
  LET t == src[k].t
      body == IF t = "do" THEN k + 1 ELSE After1(src, k)
      first == SemicolonAt(src, k)
      second == SemicolonAt(src, first + 1)
      close == ClosedAt(src, k + 1)
      empty == second = first + 1
      c == CASE ~tested -> s
             [] t = "while" -> Condition1(src, k, s)
             [] t = "for" -> IF empty THEN [s EXCEPT !.val = 1] ELSE Evaluated(src, first + 1, second - 1, s)
      b == Left(Exec(src, body, c), "continue")
      step == CASE t = "for" /\ close > second + 1 -> Evaluated(src, second + 1, close - 1, b)
                [] t = "do" -> Condition1(src, EndOf(src, k + 1), b)
                [] OTHER -> b
      over == t = "do" /\ step.val = 0
  IN  IF tested /\ c.val = 0 THEN c
      ELSE IF b.mode # "run" THEN Left(b, "break")
      ELSE IF over THEN step
      ELSE IF step.rounds = MaxRounds THEN [step EXCEPT !.ends = FALSE, !.mode = "return"]
      ELSE Loop(src, k, [step EXCEPT !.rounds = @ + 1], t # "do")

Exec(src, k, s) ==
  LET t == src[k].t
      end == EndOf(src, k)
      seeking == s.mode = "seek"
      here == IF seeking /\ s.to = k THEN Running(s) ELSE s
      c == IF seeking THEN s ELSE Condition1(src, k, s)
      then == After1(src, k)
      else == EndOf(src, then)
      inElse == src[else].t = "else" /\ (IF seeking THEN s.to >= else ELSE c.val = 0)
      first == SemicolonAt(src, k)
      init == CASE first = k + 2 -> s
                [] TokenStartsDeclaration(src[k + 2].t, FALSE) -> Exec(src, k + 2, Entered(src, k, s))
                [] OTHER -> Evaluated(src, k + 2, first - 1, s)
      at == CaseAt(src, k, c.val)
  IN  IF s.mode \notin {"run", "seek"} THEN s
      ELSE IF seeking /\ s.to \notin k..(end - 1) THEN s
      ELSE CASE t = "{" -> ExecBlock(src, k + 1, Entered(src, k, s))
             [] TokenStartsDeclaration(t, FALSE) -> IF seeking THEN s ELSE Declaring(src, DeclaratorsAt(src, k), s)
             [] IsEntry(src, k) -> Exec(src, ColonAt(src, k) + 1, here)
             [] t = "if" -> IF inElse THEN Exec(src, else + 1, c)
                            ELSE IF seeking \/ c.val # 0 THEN Exec(src, then, c) ELSE c
             [] t = "while" -> Loop(src, k, s, ~seeking)
             [] t = "do" -> Loop(src, k, s, FALSE)
             [] t = "for" -> Loop(src, k, IF seeking THEN s ELSE init, ~seeking)
             [] t = "switch" -> IF seeking THEN Left(Exec(src, then, s), "break")
                                ELSE IF at = 0 THEN c
                                ELSE Left(Exec(src, then, Seeking(c, at)), "break")
             [] t \in {"break", "continue"} -> [s EXCEPT !.mode = t]
             [] t = "goto" -> Seeking(s, GotoAt(src, src[k + 1].v))
             [] t = "return" -> [Evaluated(src, k + 1, end - 2, s) EXCEPT !.mode = "return", !.gives = TRUE]
             [] t = ";" -> s
             [] OTHER -> Evaluated(src, k, end - 2, s)
ExecBlock(src, k, s) == IF src[k].t = "}" THEN s ELSE ExecBlock(src, EndOf(src, k), Exec(src, k, s))

(* A goto leaves what it is in, and the whole body is searched again.      *)
RECURSIVE Whole(_, _)
Whole(src, s) ==
  LET r == ExecBlock(src, BodyAt(src) + 1, s)
  IN  IF r.mode # "seek" THEN r
      ELSE IF r.rounds = MaxRounds THEN [r EXCEPT !.ends = FALSE]
      ELSE Whole(src, [r EXCEPT !.rounds = @ + 1])

(* The function src, from the memory mem; gives says that it returned a    *)
(* value.                                                                  *)
Behaviour(src, mem) ==
  LET resolved == Resolved(src)
  IN  Whole(resolved, [mem |-> StartMemory(resolved, mem), calls |-> <<>>, val |-> 0, mode |-> "run", to |-> 0,
                       rounds |-> 0, ends |-> TRUE, gives |-> FALSE, ub |-> FALSE, ill |-> FALSE, loose |-> FALSE])
================================================================================
