------------------------------- MODULE Processor -------------------------------
(***************************************************************************)
(* A MIPS processor running the instructions of CodeGen: registers, the    *)
(* multiplier's hi and lo, and memory cells, each a word or a character.   *)
(* A word on the stack or in the data may also hold a character, in its    *)
(* low part.                                                               *)
(* A function that is called keeps to the calling convention and to        *)
(* nothing else: it leaves its result in V0, restores SP and FP, and may   *)
(* change every other register the convention gives it and the room above  *)
(* SP for its first four arguments.                                        *)
(***************************************************************************)
EXTENDS Statements, FiniteSets

CONSTANTS CharCells,   \* the addresses of characters; every other cell is a word
          StackTop,    \* SP when the function is called
          DataBase,    \* where the data of the function is
          MaxSteps     \* how many instructions a run may take

CallerFP == truncUint(-12)        \* what the caller has in FP and RA
ReturnTo == truncUint(-4)
Spoiled == truncUint(85)          \* what a register nobody set holds
CallerSaved == {1, 3} \cup (A0..15) \cup {TEMP_REG_A, TEMP_REG_B, RA}

FunctionsAt(a) == {n \in DOMAIN Symbols : IsFxn(Symbols[n].type) /\ Symbols[n].v = a}
IsFunctionAt(a) == FunctionsAt(a) # {}
FunctionAt(a) == CHOOSE n \in FunctionsAt(a) : TRUE
NumArgs(n) == MinParams(Symbols[n].type)

RECURSIVE Weighted(_, _)
Weighted(args, k) == IF k = 0 THEN 0 ELSE k * args[k] + Weighted(args, k - 1)
(* What function n returns: any result that tells its arguments apart.     *)
Returned(n, args) == truncUint(Symbols[n].v + Weighted(args, Len(args)))

Signed(x) == truncInt(x)
AddressOfName(labels, n) == IF n \in DOMAIN labels THEN labels[n] ELSE Symbols[n].v
Place(s, i) == truncUint(IF i.n # "" THEN AddressOfName(s.labels, i.n) + i.c ELSE s.reg[i.s] + i.c)
HoldsBoth(a) == a < StackTop + 16 \/ a >= DataBase
Reaches(s, a, char) == a \in DOMAIN s.mem /\ (HoldsBoth(a) \/ (a \in CharCells) = char)
Stores(old, x, char) == IF char THEN old - ZeroExtended(old) + ZeroExtended(x) ELSE x
SetReg(s, d, x) == IF d = Zero THEN s ELSE [s EXCEPT !.reg[d] = truncUint(x)]

Alu(op, x, y) ==
  CASE op \in {"addu", "addui"} -> x + y
    [] op \in {"subu", "subui"} -> x - y
    [] op \in {"and", "andi"} -> BitAnd(x, y) [] op \in {"or", "ori"} -> BitOr(x, y)
    [] op \in {"xor", "xori"} -> BitXor(x, y) [] op = "nor" -> BitNot(BitOr(x, y))
    [] op = "mul" -> x * y
    [] op \in {"sll", "slli"} -> ShiftLeft(x, truncUint(y) % WordBits)
    [] op \in {"srl", "srli"} -> ShiftRight(x, truncUint(y) % WordBits)
    [] op \in {"sra", "srai"} -> ShiftRight(Signed(x), truncUint(y) % WordBits)
    [] op \in {"slt", "slti"} -> Truth(Signed(x) < Signed(y))
    [] op \in {"sltu", "sltui"} -> Truth(truncUint(x) < truncUint(y))

Taken(op, x, y) ==
  CASE op = "beq" -> x = y [] op = "bne" -> x # y
    [] op = "bltz" -> Signed(x) < 0 [] op = "bgez" -> Signed(x) >= 0
    [] op = "blez" -> Signed(x) <= 0 [] op = "bgtz" -> Signed(x) > 0

DivideBy(s, op, x, y) ==
  IF y = 0 THEN [s EXCEPT !.lo = Spoiled, !.hi = Spoiled]
  ELSE IF op = "div"
  THEN [s EXCEPT !.lo = truncUint(Quotient(Signed(x), Signed(y))),
                 !.hi = truncUint(Remainder(Signed(x), Signed(y)))]
  ELSE [s EXCEPT !.lo = x \div y, !.hi = x % y]

(* What a call leaves as it was; homes is the room for four arguments.      *)
AfterCall(s, mem, v0) ==
  LET homes == {s.reg[SP] + 4 * k : k \in 0..3}
  IN  [s EXCEPT !.hi = Spoiled, !.lo = Spoiled,
                !.mem = [a \in DOMAIN @ |-> IF a \in homes THEN Spoiled ELSE mem[a]],
                !.bad = @ \/ ~(homes \subseteq DOMAIN mem),
                !.reg = [r \in DOMAIN @ |-> IF r = V0 THEN v0 ELSE IF r \in CallerSaved THEN Spoiled ELSE @[r]]]

CallFunction(s, n) ==
  LET inStack(k) == s.reg[SP] + 4 * (k - 1)
      args == [k \in 1..NumArgs(n) |-> IF k <= 4 THEN s.reg[A0 + k - 1] ELSE s.mem[inStack(k)]]
  IN  IF \E k \in 5..NumArgs(n) : inStack(k) \notin DOMAIN s.mem THEN [s EXCEPT !.bad = TRUE]
      ELSE [AfterCall(s, s.mem, Returned(n, args)) EXCEPT !.calls = Append(@, <<n, args>>)]

(* The function that copies A0 bytes, here whole words, from A1 to A2.     *)
StructCpy(s) ==
  LET to(k) == s.reg[A0 + 2] + 4 * k
      from(k) == s.reg[A0 + 1] + 4 * k
      words == 0..(s.reg[A0] \div 4 - 1)
      at(a) == (a - s.reg[A0 + 2]) \div 4
      there == {to(k) : k \in words}
      mem == [a \in DOMAIN s.mem |-> IF a \in there THEN s.mem[from(at(a))] ELSE s.mem[a]]
  IN  IF ~({to(k) : k \in words} \cup {from(k) : k \in words} \subseteq DOMAIN s.mem)
      THEN [s EXCEPT !.bad = TRUE]
      ELSE AfterCall(s, mem, s.reg[A0 + 2])

CallTo(s, n) == CASE n \in DOMAIN Symbols -> CallFunction(s, n)
                  [] n = s.copy -> StructCpy(s)
                  [] OTHER -> [s EXCEPT !.bad = TRUE]

(* One instruction that does not branch. *)
Done(s, i) ==
  LET x == s.reg[i.s]
      a == Place(s, i)
      char == i.op \in {"lb", "lbu", "sb"}
  IN  CASE i.op = "label" -> s
        [] i.op = "li" -> SetReg(s, i.d, i.c)
        [] i.op = "la" -> SetReg(s, i.d, AddressOfName(s.labels, i.n))
        [] i.op = "move" -> SetReg(s, i.d, x)
        [] i.op = "seb" -> SetReg(s, i.d, SignExtended(x))
        [] i.op \in {"div", "divu"} -> DivideBy(s, i.op, x, s.reg[i.t])
        [] i.op = "mfhi" -> SetReg(s, i.d, s.hi)
        [] i.op = "mflo" -> SetReg(s, i.d, s.lo)
        [] i.op \in {"lb", "lbu", "lw"} ->
             IF ~Reaches(s, a, char) THEN [s EXCEPT !.bad = TRUE]
             ELSE SetReg(s, i.d, CASE i.op = "lb" -> SignExtended(s.mem[a])
                                   [] i.op = "lbu" -> ZeroExtended(s.mem[a]) [] OTHER -> s.mem[a])
        [] i.op \in {"sb", "sw"} ->
             IF ~Reaches(s, a, char) THEN [s EXCEPT !.bad = TRUE]
             ELSE [s EXCEPT !.mem[a] = Stores(@, s.reg[i.d], char)]
        [] i.op = "jal" -> CallTo(s, i.n)
        [] i.op = "jalr" -> IF IsFunctionAt(x) THEN CallFunction(s, FunctionAt(x))
                            ELSE [s EXCEPT !.bad = TRUE]
        [] i.op \in {"addui", "subui", "andi", "ori", "xori", "slli", "srli", "srai", "slti", "sltui"} ->
             SetReg(s, i.d, Alu(i.op, x, i.c))
        [] OTHER -> SetReg(s, i.d, Alu(i.op, x, s.reg[i.t]))

LabelAt(code, l) == CHOOSE k \in DOMAIN code : code[k].op = "label" /\ code[k].c = l
IsBranch(op) == op \in {"beq", "bne", "bltz", "bgez", "blez", "bgtz"}

RECURSIVE Run(_, _, _, _)
Run(code, k, s, steps) ==
  IF k > Len(code) \/ s.bad \/ steps = MaxSteps THEN s
  ELSE LET i == code[k]
           jumps == i.op = "j" \/ (IsBranch(i.op) /\ Taken(i.op, s.reg[i.s], s.reg[i.t]))
       IN  CASE i.op = "jr" -> [s EXCEPT !.back = s.reg[i.s]]
             [] jumps -> Run(code, LabelAt(code, i.c), s, steps + 1)
             [] OTHER -> Run(code, k + 1, IF IsBranch(i.op) THEN s ELSE Done(s, i), steps + 1)

(* The data of the function, word after word.                             *)
WordsBefore(data, n) == FoldLeft(LAMBDA sum, d : sum + Len(d.cells), 0, SubSeq(data, 1, n - 1))
LabelsOf(data) == [l \in {data[n].label : n \in DOMAIN data} |->
                     DataBase + 4 * WordsBefore(data, CHOOSE n \in DOMAIN data : data[n].label = l)]
DataWords(data) ==
  LET cells == FlattenSeq([n \in DOMAIN data |-> data[n].cells])
      labels == LabelsOf(data)
      word(cell) == truncUint((IF cell.n = "" THEN 0 ELSE AddressOfName(labels, cell.n)) + cell.v)
  IN  [a \in {DataBase + 4 * (k - 1) : k \in DOMAIN cells} |-> word(cells[(a - DataBase) \div 4 + 1])]

(* Memory when the function is called: the cells of the program's          *)
(* variables, its data and the stack.  The first four arguments come in    *)
(* registers, and where the caller left room for them is nothing yet.      *)
StackCells == {4 * k : k \in 0..(StackTop \div 4 + 3)}
Start(compiled, mem) ==
  LET data == DataWords(compiled.data)
      reg(r) == CASE r = Zero -> 0 [] r = SP -> StackTop [] r = FP -> CallerFP [] r = RA -> ReturnTo
                  [] r \in A0..A3 -> mem[StackTop + 4 * (r - A0)] [] OTHER -> Spoiled
      cell(a) == CASE a \in StackCells -> Spoiled [] a \in DOMAIN data -> data[a] [] OTHER -> mem[a]
  IN  [reg |-> [r \in 0..31 |-> reg(r)], hi |-> Spoiled, lo |-> Spoiled,
       mem |-> [a \in DOMAIN mem \cup DOMAIN data \cup StackCells |-> cell(a)],
       labels |-> LabelsOf(compiled.data), copy |-> compiled.copy,
       calls |-> <<>>, bad |-> FALSE, back |-> -1]
Execute(compiled, mem) == Run(compiled.code, 1, Start(compiled, mem), 0)
================================================================================
