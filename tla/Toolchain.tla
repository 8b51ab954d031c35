------------------------------- MODULE Toolchain -------------------------------
(***************************************************************************)
(* as and ld one after the other, as cc (src/cc.c) runs them: a source is  *)
(* read line by line, its object is made, and it is linked with objects    *)
(* and archives of the card.  Every source of a head and MaxLines lines of a   *)
(* menu is read.                                                           *)
(***************************************************************************)
EXTENDS Linker, FiniteSetsExt

CONSTANTS Jobs,       \* what is tried: a head of lines, then MaxLines of a menu,
                      \* the arguments of ld and the addresses the image starts at
          MaxLines,
          Files,      \* the other files: name |-> object or archive
          Sources     \* the sources of their units, by unit number

VARIABLES phase,      \* "as", "cc", "ld1", "ld2", "done", "ended", "failed"
          job, src,   \* the job, the lines read so far
          asm,        \* the assembler
          object,     \* what it wrote
          args, next, \* the arguments of ld, and the next one of its pass
          ld, image,
          place       \* ghost: the first and last address each line came to

vars == <<phase, job, src, asm, object, args, next, ld, image, place>>

NoImage == [errlev |-> 4]

(* Unit numbers for the ghost line numbers: 0 is the new source. *)
LinesPerUnit == 100
Tagged(cells, u) == [i \in DOMAIN cells |-> [cells[i] EXCEPT !.ln = @ + u * LinesPerUnit]]
Unit(u, obj) == [kind |-> "obj", obj |-> [obj EXCEPT !.text = Tagged(@, u), !.data = Tagged(@, u)]]
Archive(table, units) ==
  [kind |-> "ar", table |-> table, members |-> [i \in DOMAIN units |-> units[i].obj]]

(* "" names the object of the new source. *)
FileOf(f) == IF f = "" THEN Unit(0, object) ELSE Files[f]
ArgOf(f) == IF f = "-e" THEN [k |-> "e", n |-> "startup"] ELSE [k |-> "file", file |-> FileOf(f)]

(* Where the cells of each line are. *)
Placed(im) ==
  LET top == Len(im.text)
      cells == im.text \o im.data
      at(n) == {j \in DOMAIN cells : cells[j].ln = n}
  IN  [n \in {cells[j].ln : j \in DOMAIN cells} \ {0} |->
         <<im.base + Min(at(n)) - 1, im.base + Max(at(n)) - 1>>]

----------------------------------------------------------------------------

Init == /\ phase = "as" /\ job \in Jobs /\ src = <<>> /\ asm = Cleared(TRUE)
        /\ object = NoImage /\ args = <<>> /\ next = 1 /\ image = NoImage /\ ld = Started(0)
        /\ place = <<>>

Lines == Len(job.head) + MaxLines

ReadLine == /\ phase = "as" /\ ~asm.err /\ Len(src) < Lines
            /\ \E l \in IF Len(src) < Len(job.head) THEN {job.head[Len(src) + 1]}
                         ELSE job.menu : /\ src' = Append(src, l)
                                   /\ asm' = pass1(asm, l)
            /\ UNCHANGED <<phase, job, object, args, next, ld, image, place>>

(* uerror leaves the assembler, and cc stops. *)
AssemblerFails == /\ phase = "as" /\ asm.err
                  /\ phase' = "failed"
                  /\ UNCHANGED <<job, src, asm, object, args, next, ld, image, place>>

(* The rest of as; ld then uses the same memory. *)
EndOfSource == /\ phase = "as" /\ ~asm.err /\ Len(src) = Lines
               /\ object' = ObjectOf(Finish(asm))
               /\ asm' = Cleared(asm.reorder)
               /\ phase' = IF Made(object') THEN "cc" ELSE "failed"
               /\ UNCHANGED <<job, src, args, next, ld, image, place>>

(* cc starts ld with -e startup and its files. *)
StartLinker == /\ phase = "cc"
               /\ \E names \in job.lists, b \in job.bases :
                    /\ args' = <<"-e">> \o names
                    /\ ld' = Started(b)
               /\ phase' = "ld1"
               /\ UNCHANGED <<job, src, asm, object, next, image, place>>

Pass1Arg == /\ phase = "ld1" /\ next <= Len(args) /\ ld.errlev # 2
            /\ ld' = pass1arg(ld, ArgOf(args[next]))
            /\ next' = next + 1
            /\ UNCHANGED <<phase, job, src, asm, object, args, image, place>>

LdMiddle == /\ phase = "ld1" /\ next > Len(args) /\ ld.errlev # 2
            /\ ld' = Middle(ld)
            /\ phase' = "ld2" /\ next' = 1
            /\ UNCHANGED <<job, src, asm, object, args, image, place>>

Pass2Arg == /\ phase = "ld2" /\ next <= Len(args) /\ ld.errlev # 2
            /\ ld' = pass2arg(ld, ArgOf(args[next]))
            /\ next' = next + 1
            /\ UNCHANGED <<phase, job, src, asm, object, args, image, place>>

FinishOut == /\ phase = "ld2" /\ next > Len(args) /\ ld.errlev # 2
             /\ image' = finishout(ld)
             /\ place' = Placed(image')
             /\ ld' = Started(0)
             /\ phase' = "done"
             /\ UNCHANGED <<job, src, asm, object, args, next>>

(* A fatal error of ld. *)
LinkerFails == /\ phase \in {"ld1", "ld2"} /\ ld.errlev = 2
               /\ phase' = "failed"
               /\ UNCHANGED <<job, src, asm, object, args, next, ld, image, place>>

(* cc removes the objects and returns. *)
CompilerDriverEnds == /\ phase = "done"
                      /\ phase' = "ended"
                      /\ object' = NoImage /\ args' = <<>>
                      /\ UNCHANGED <<job, src, asm, next, ld, image, place>>

Next == \/ ReadLine \/ AssemblerFails \/ EndOfSource \/ StartLinker \/ Pass1Arg
        \/ LdMiddle \/ Pass2Arg \/ FinishOut \/ CompilerDriverEnds \/ LinkerFails

Spec == Init /\ [][Next]_vars

----------------------------------------------------------------------------
(* What a source means: where its lines lie in the image *)

Linkable == phase = "done" /\ image.errlev = 0 /\ image.runnable

SourceOf(u) == IF u = 0 THEN src ELSE Sources[u]
Tag(u, i) == u * LinesPerUnit + i
Units == {0} \cup {n \div LinesPerUnit : n \in DOMAIN place}

CellAt(addr) == LET j == addr - image.base + 1
                    top == Len(image.text)
                IN  IF j <= top THEN image.text[j] ELSE image.data[j - top]

SectionAt(s, i) ==
  LET named == {j \in 1..i : s[j].k = "section"}
  IN  IF named = {} THEN "text" ELSE s[Max(named)].n

(* Where line i of unit u lies: at the first byte of what follows it in    *)
(* its section, or after the last byte of what precedes it.                *)
Place(u, i) ==
  LET s == SourceOf(u)
      sec == SectionAt(s, i)
      here == {k \in DOMAIN s : Tag(u, k) \in DOMAIN place /\ SectionAt(s, k) = sec}
      after == {k \in here : k > i}
  IN  IF after # {} THEN Min({place[Tag(u, k)][1] : k \in after})
      ELSE IF here # {} THEN Max({place[Tag(u, k)][2] : k \in here}) + 1
      ELSE -1

Definitions(s, nm) == {i \in DOMAIN s : s[i].k \in {"label", "equ"} /\ s[i].n = nm}
IsGlobal(s, nm) == \E i \in DOMAIN s : s[i].k = "globl" /\ s[i].n = nm
ValueAt(u, i) == LET l == SourceOf(u)[i] IN IF l.k = "equ" THEN l.e[1].v ELSE Place(u, i)

CommonLines(s, nm) == {i \in DOMAIN s : s[i].k = "comm" /\ s[i].n = nm}
IsLocal(s, nm) == \E i \in DOMAIN s : s[i].k = "local" /\ s[i].n = nm
(* Where a common of unit u is; only the new source has local ones. *)
Allotted(u, nm) ==
  LET i == CHOOSE k \in DOMAIN image.syms :
             image.syms[k].name = nm /\ image.syms[k].ext = ~IsLocal(SourceOf(u), nm)
  IN  image.syms[i].value

(* The value of a name used in unit u; a common is where ld has put it. *)
AddressOf(u, nm) ==
  LET own == Definitions(SourceOf(u), nm)
      others == {v \in Units \ {u} : Definitions(SourceOf(v), nm) # {} /\ IsGlobal(SourceOf(v), nm)}
      v == CHOOSE w \in others : TRUE
  IN  IF own # {} THEN ValueAt(u, Max(own))
      ELSE IF others # {} /\ ~IsLocal(SourceOf(u), nm) THEN ValueAt(v, Max(Definitions(SourceOf(v), nm)))
      ELSE Allotted(u, nm)

NumericAt(u, i, n, back) ==
  LET s == SourceOf(u)
      same == {j \in DOMAIN s : s[j].k = "numlabel" /\ s[j].num = n}
  IN  IF back THEN Place(u, Max({j \in same : j < i})) ELSE Place(u, Min({j \in same : j > i}))

ValueOf(u, i, terms) ==
  LET v(t) == CASE t.k = "num" -> t.v
                [] t.k = "sym" -> AddressOf(u, t.n)
                [] t.k = "dot" -> Place(u, i)
                [] t.k = "back" -> NumericAt(u, i, t.v, TRUE)
                [] t.k = "fwd" -> NumericAt(u, i, t.v, FALSE)
  IN  FoldLeft(LAMBDA sum, t : sum + t.sign * v(t), 0, terms) % Full

----------------------------------------------------------------------------
(* What code does: what is seen of it at the transfers of control and the  *)
(* stores, from given registers.                                           *)

LO == 32                                    \* the result of div
StartRegs == [r \in 0..LO |-> IF r = 0 THEN 0 ELSE (37 * r + 11) % Full]
LinkValue == 5                              \* what a call leaves in $ra
Loaded(a) == (7 * a + 3) % Full             \* the memory that is read
Put(m, r, v) == [m EXCEPT !.r[r] = IF r = 0 THEN 0 ELSE v % Full]

Bit(x, i) == (x \div (2 ^ i)) % 2
OrLow(x, y) == (Half * (x \div Half))
               + FoldLeft(LAMBDA s, i : s + (2 ^ i) * (IF Bit(x, i) + Bit(y, i) > 0 THEN 1 ELSE 0),
                          0, <<0, 1, 2, 3, 4, 5>>)

Alu(op, x, y) == CASE op = "addu" -> x + y
                   [] op = "subu" -> x - y
                   [] op = "sll" -> x * (2 ^ (y % 8))
                   [] op = "seb" -> 3 * x + 1
                   [] op = "div" -> 5 * x + 3 * y

Machine == [r |-> StartRegs, seen |-> <<>>, wait |-> <<>>]
Branch(m, op, x, y, to) == [m EXCEPT !.wait = <<op, x % Full, y % Full, to % Full>>]
Store(m, a, v) == [m EXCEPT !.seen = Append(@, <<"store", a % Full, v>>)]
(* A transfer of control is complete when the slot has run. *)
Arrive(m) == IF m.wait = <<>> THEN m
             ELSE [m EXCEPT !.wait = <<>>,
                            !.seen = Append(@, <<m.wait, [m.r EXCEPT ![AT] = 0]>>)]

(* One word of the image. *)
Execute(m, w, pc) ==
  LET x == m.r[w.rs]
      y == m.r[w.rt]
      imm == Signed(w.imm)
  IN  CASE w.op \in {"addu", "subu"} -> Put(m, w.rd, Alu(w.op, x, y))
        [] w.op = "move" -> Put(m, w.rd, x)
        [] w.op = "seb" -> Put(m, w.rd, Alu("seb", y, 0))
        [] w.op = "addiu" -> Put(m, w.rt, x + imm)
        [] w.op = "ori" -> Put(m, w.rt, OrLow(x, w.imm))
        [] w.op = "lui" -> Put(m, w.rt, w.imm * Half)
        [] w.op = "lw" -> Put(m, w.rt, Loaded((x + imm) % Full))
        [] w.op = "sw" -> Store(m, x + imm, y)
        [] w.op = "sll" -> Put(m, w.rd, Alu("sll", y, w.imm))
        [] w.op = "sllv" -> Put(m, w.rd, Alu("sll", y, x))
        [] w.op = "div" -> Put(m, LO, Alu("div", x, y))
        [] w.op = "mflo" -> Put(m, w.rd, m.r[LO])
        [] w.op = "beq" -> Branch(m, "beq", x, y, pc + 4 + 4 * imm)
        [] w.op = "beqz" -> Branch(m, "beq", x, 0, pc + 4 + 4 * imm)
        [] w.op = "b" -> Branch(m, "b", 0, 0, pc + 4 + 4 * imm)
        [] w.op = "j" -> Branch(m, "b", 0, 0, w.imm * 4)
        [] w.op = "jr" -> Branch(m, "b", 0, 0, x)
        [] w.op = "jal" -> Put(Branch(m, "b", 0, 0, w.imm * 4), RA, LinkValue)
        [] w.op = "jalr" -> Put(Branch(m, "b", 0, 0, x), w.rd, LinkValue)
        [] OTHER -> m

(* One line of a source. *)
Perform(m, u, i) ==
  LET l == SourceOf(u)[i]
      o == l.o
      n == Len(o)
      reg(k) == o[k].n
      val(k) == IF IsReg(o, k) THEN m.r[o[k].n] ELSE ValueOf(u, i, o[k].e)
      high(v) == Half * ((v + (Half \div 2)) \div Half)
  IN  CASE l.op \in {"addu", "subu", "sll"} -> Put(m, reg(1), Alu(l.op, val(n - 1), val(n)))
        [] l.op = "addiu" -> Put(m, reg(1), val(n - 1) + val(n))
        [] l.op = "move" -> Put(m, reg(1), val(2))
        [] l.op = "seb" -> Put(m, reg(1), Alu("seb", val(2), 0))
        [] l.op \in {"la", "li"} -> Put(m, reg(1), val(2))
        [] l.op = "lui" -> Put(m, reg(1), high(val(2)))
        [] l.op = "lw" -> Put(m, reg(1), Loaded((m.r[reg(3)] + Signed(val(2))) % Full))
        [] l.op = "sw" -> Store(m, m.r[reg(3)] + Signed(val(2)), val(1))
        [] l.op = "div" -> Put(m, LO, Alu("div", val(n - 1), val(n)))
        [] l.op = "mflo" -> Put(m, reg(1), m.r[LO])
        [] l.op = "beq" -> Branch(m, "beq", val(1), val(2), val(3))
        [] l.op = "beqz" -> Branch(m, "beq", val(1), 0, val(2))
        [] l.op \in {"b", "j", "jr"} -> Branch(m, "b", 0, 0, val(1))
        [] l.op = "jal" -> Put(Branch(m, "b", 0, 0, val(n)), RA, LinkValue)
        [] OTHER -> m

(* In reorder mode a branch acts at its place in the source; in noreorder  *)
(* mode the next instruction is in its slot.                               *)
ReorderAt(s, i) ==
  LET sets == {j \in 1..i : s[j].k = "set"}
  IN  IF sets = {} THEN TRUE ELSE s[Max(sets)].on

Slotted(m, done) ==
  IF m.wait = <<>> THEN done
  ELSE [Arrive([done EXCEPT !.wait = m.wait]) EXCEPT !.wait = done.wait]

RunSource(u, from) ==
  LET s == SourceOf(u)
      code == SelectSeq([i \in DOMAIN s |-> i],
                        LAMBDA i : i > from /\ s[i].k = "cmd" /\ SectionAt(s, i) = "text")
      Ended(slot, i) == IF ReorderAt(s, i) THEN Arrive(slot) ELSE slot
      one(m, i) == Ended(Slotted(m, Perform([m EXCEPT !.wait = <<>>], u, i)), i)
  IN  Arrive(FoldLeft(one, Machine, code)).seen

RunImage(u, from) ==
  LET Addr(j) == image.base + (j - 1)
      code == SelectSeq([j \in DOMAIN image.text |-> j],
                        LAMBDA j : /\ image.text[j].ln \div LinesPerUnit = u /\ image.text[j].ln > 0
                                   /\ IsWord(image.text[j]) /\ Addr(j) >= from)
      one(m, j) == Slotted(m, Execute([m EXCEPT !.wait = <<>>], image.text[j], Addr(j)))
  IN  Arrive(FoldLeft(one, Machine, code)).seen

Entries(u) == {0} \cup {i \in DOMAIN SourceOf(u) :
                          /\ SourceOf(u)[i].k \in {"label", "numlabel"}
                          /\ SectionAt(SourceOf(u), i) = "text"
                          /\ Place(u, i) # -1}

(* as takes a name that is defined twice without a word (each use gets the *)
(* definition known at its line), a .local name without a definition as 0, *)
(* and makes a local common global when its .comm is repeated.    *)
NamesOnce(s) ==
  \A i \in DOMAIN s :
    /\ s[i].k \in {"label", "equ"} => Cardinality(Definitions(s, s[i].n)) = 1
    /\ s[i].k = "local" => Cardinality(Definitions(s, s[i].n) \cup CommonLines(s, s[i].n)) = 1

(* Three things the buffer of reorder mode gets wrong.  la and seb name no  *)
(* modified register to it, so that the branch right behind them may come  *)
(* before them; a call does not say that it writes $ra, so that what uses   *)
(* $ra right in front of it comes behind it; and `.' counts the instruction *)
(* in the buffer.                                                          *)
Reads(l) == {l.o[k].n : k \in {j \in DOMAIN l.o : IsReg(l.o, j)}}
UsesDot(l) == \E k \in DOMAIN l.o : ~IsReg(l.o, k) /\ l.o[k].k = "exp"
                                      /\ \E t \in ToSet(l.o[k].e) : t.k = "dot"
Names31(l) == \E k \in DOMAIN l.o : l.o[k].k \in {"reg", "mem"} /\ l.o[k].n = RA
BufferMisses(s) ==
  \E i \in DOMAIN s :
    /\ s[i].k = "cmd" /\ "DSLOT" \in optable[Canonical(s[i].op, s[i].o)[1]]
    /\ \/ UsesDot(s[i])
       \/ /\ i > 1 /\ s[i - 1].k = "cmd" /\ s[i - 1].op \in {"la", "seb"}
          /\ s[i - 1].o[1].n \in Reads(s[i])
       \/ /\ i > 1 /\ s[i - 1].k = "cmd" /\ Names31(s[i - 1])
          /\ s[i].op \in {"jal", "jalr"}

(* An address with an addend is relocated by the addend twice when its     *)
(* name is defined later in the unit.                                      *)
ForwardHigh(s) ==
  \E i, j \in DOMAIN s :
    /\ i < j /\ s[j].k \in {"label", "equ"} /\ s[i].k = "cmd" /\ s[i].op \in {"la", "lui"}
    /\ Len(s[i].o[2].e) > 1 /\ \E t \in ToSet(s[i].o[2].e) : t.k = "sym" /\ t.n = s[j].n

(* Every label is in a section where the unit has something. *)
Anchored(u) == \A i \in DOMAIN SourceOf(u) : SourceOf(u)[i].k = "label" => Place(u, i) # -1

WellFormed(u) == NamesOnce(SourceOf(u)) /\ Anchored(u)

----------------------------------------------------------------------------
(* Properties *)

CodeAgrees ==
  Linkable =>
    \A u \in Units : (/\ WellFormed(u) /\ ~BufferMisses(SourceOf(u))
                   /\ ~ForwardHigh(SourceOf(u))) =>
      \A i \in Entries(u) :
        RunSource(u, i) = RunImage(u, IF i = 0 THEN 0 ELSE Place(u, i))

(* cc leaves no image that does something else than its sources: from the  *)
(* start of every unit and from each of its labels, the code of the image  *)
(* does what the lines of the source say: the same stores, the same        *)
(* branches on the same values to the same places, with the same registers *)
(* on arrival.  It covers the delay slots, the instructions as makes up,   *)
(* both relocations of an address and the symbols between units (makecmd,  *)
(* as.c:1448-1878; relword, ld.c:688-795).                                 *)
CodeMeansSource == [][CodeAgrees]_vars

(* Every .word of a source is in the image, in the order of the source,    *)
(* and holds the value its expression has there (pass1, as.c:2196-2222).   *)
DataMeansSource ==
  Linkable =>
    \A u \in Units : WellFormed(u) =>
     \A i \in {k \in DOMAIN SourceOf(u) : SourceOf(u)[k].k = "word"} :
      LET addr == place[Tag(u, i)][2] - (WORDSZ - 1)
          cell == CellAt(addr)
      IN  /\ IsWord(cell) /\ cell.ln = Tag(u, i) /\ addr % WORDSZ = 0
          /\ cell.imm = ValueOf(u, i, SourceOf(u)[i].e)

(* The areas of the commons, of the size of the largest .comm of the name  *)
(* in the linked units, are aligned, apart from each other and from the    *)
(* local areas, and inside .bss (Collect, ld.c:1012-1103; middle,          *)
(* ld.c:1320-1435; as.c:2524-2561).                                        *)
CommonsApart ==
  Linkable /\ WellFormed(0) =>
    LET Defined(nm) == \E u \in Units : IsGlobal(SourceOf(u), nm) /\ Definitions(SourceOf(u), nm) # {}
        Area(u, l) == [unit |-> u, name |-> l.n, size |-> l.size, from |-> Allotted(u, l.n)]
        Areas(u) == {Area(u, l) : l \in {k \in ToSet(SourceOf(u)) : k.k = "comm" /\ ~Defined(k.n)}}
        commons == UNION {Areas(u) : u \in Units}
        bss == image.base + Len(image.text) + Len(image.data)
    IN  /\ \A c \in commons : c.from % WORDSZ = 0 /\ c.from >= bss /\ c.from + c.size <= bss + image.bss
        /\ \A c, d \in commons :
             IF c.from = d.from
             THEN c.name = d.name /\ (c.unit = d.unit \/ ~IsLocal(SourceOf(c.unit), c.name))
             ELSE c.from + c.size <= d.from \/ d.from + d.size <= c.from

(* When an archive has been scanned, no member that was left out defines a *)
(* name that is still undefined, and no member is on the list twice; an    *)
(* image without an error has one definition of each global name           *)
(* (load1arg, ld.c:1176-1215; load2, ld.c:1500-1530).                      *)
LinkIsClosed ==
  /\ phase = "ld1" /\ ld.errlev = 0 /\ ld.liblist # <<>> /\ Last(ld.liblist) = 0 =>
       LET ends == {n \in 0..Len(ld.liblist) - 1 : n = 0 \/ ld.liblist[n] = 0}
           taken == SubSeq(ld.liblist, Max(ends) + 1, Len(ld.liblist) - 1)
           file == FileOf(args[next - 1])
       IN  file.kind = "ar" =>
             /\ IsInjective(taken)
             /\ \A m \in DOMAIN file.members \ ToSet(taken) :
                  \A s \in ToSet(file.members[m].syms) :
                    s.ext /\ s.type \notin {"undf", "comm"} => SymType(ld, s.name) # "undf"
  /\ Linkable =>
       \A u, v \in Units : \A i \in DOMAIN SourceOf(u) :
         LET l == SourceOf(u)[i]
         IN  (/\ l.k \in {"label", "equ"} /\ IsGlobal(SourceOf(u), l.n)
              /\ Definitions(SourceOf(v), l.n) # {} /\ IsGlobal(SourceOf(v), l.n)) => u = v

================================================================================
