------------------------------ MODULE Assembler ------------------------------
(***************************************************************************)
(* as (src/as.c), the assembler that runs on the machine: the first pass   *)
(* over the lines of a source, with its segment files, relocation files    *)
(* and the one-instruction buffer that fills branch delay slots, then      *)
(* middle, pass2 and makereloc, which make the object file.                *)
(*                                                                         *)
(* A line is a record: the lexical form is left out, an expression is a    *)
(* sequence of signed terms.  An instruction word is a record of its       *)
(* fields.  A half word of an address holds Half values instead of 65536.  *)
(* "ln" is a ghost: every cell of a segment file names the line it is from.*)
(***************************************************************************)
EXTENDS Integers, Sequences, FiniteSets, SequencesExt

CONSTANTS Half,     \* the values of a 16-bit field: 65536 in the code
          STSIZE,   \* symbols of a unit
          MAXRLAB   \* numeric labels of a unit

ASSUME SizeAssumption == /\ Half \in Nat /\ Half % 8 = 0 /\ Half > 0
                         /\ STSIZE \in Nat /\ MAXRLAB \in Nat

WORDSZ == 4
Full == Half * Half
FileSegs == {"text", "data", "strng"}
Segs == FileSegs \cup {"bss"}
RLAB_MAXVAL == 100
RLAB_OFFSET == 1000
RA == 31                \* $ra
AT == 1                 \* $at, the assembler's own register

Signed(x) == IF x % Half >= Half \div 2 THEN (x % Half) - Half ELSE x % Half
AlignUp(x, n) == ((x + (n - 1)) \div n) * n

----------------------------------------------------------------------------
(* Words, relocations and symbols *)

Nop == [op |-> "nop", rd |-> 0, rt |-> 0, rs |-> 0, imm |-> 0, ln |-> 0, part |-> 0]
Byte(v, ln) == [Nop EXCEPT !.op = "byte", !.imm = v, !.ln = ln]
IsWord(c) == c.op # "byte" /\ c.part = 0
(* The four cells of a word in a segment file. *)
Cells(w) == [i \in 1..WORDSZ |-> [w EXCEPT !.part = i - 1]]

relabs == [seg |-> "abs", fmt |-> "BYTE16", ix |-> 0, off |-> 0]

Undefined(nm) == [name |-> nm, type |-> "undf", ext |-> FALSE, loc |-> FALSE, value |-> 0]
IsExtern(s) == s.type \in {"undf", "comm"} /\ s.ext /\ ~s.loc

(* What asmain leaves for pass1: everything is cleared but the reorder     *)
(* mode, a variable of the firmware that outlives the call.                *)
Cleared(reorder) ==
  [segm |-> "text", count |-> [s \in Segs |-> 0],
   sfile |-> [s \in FileSegs |-> <<>>], rfile |-> [s \in FileSegs |-> <<>>],
   full |-> FALSE, word |-> Nop, rel |-> relabs, clobber |-> 0,
   reorder |-> reorder, at |-> TRUE, stab |-> <<>>, labels |-> <<>>,
   line |-> 1, err |-> FALSE]

uerror(a) == [a EXCEPT !.err = TRUE]

IndexOf(a, nm) == CHOOSE i \in DOMAIN a.stab : a.stab[i].name = nm
Known(a, nm) == \E i \in DOMAIN a.stab : a.stab[i].name = nm
lookname(a, nm) ==
  IF Known(a, nm) THEN a
  ELSE IF Len(a.stab) >= STSIZE THEN uerror(a)
  ELSE [a EXCEPT !.stab = Append(@, Undefined(nm))]
Symbol(a, nm) == a.stab[IndexOf(a, nm)]
SetSymbol(a, nm, s) == [a EXCEPT !.stab[IndexOf(a, nm)] = s]

----------------------------------------------------------------------------
(* Expressions: the value, the segment it is relative to, and for an       *)
(* external the index of the symbol.                                       *)

getterm(a, t) ==
  CASE t.k = "num" -> [a |-> a, v |-> t.v, s |-> "abs", ix |-> 0]
    [] t.k = "back" -> [a |-> a, v |-> 0, s |-> "ext", ix |-> RLAB_OFFSET - t.v]
    [] t.k = "fwd" -> [a |-> a, v |-> 0, s |-> "ext", ix |-> RLAB_OFFSET + t.v]
    [] t.k = "dot" -> [a |-> a, v |-> a.count[a.segm], s |-> a.segm, ix |-> 0]
    [] OTHER ->
         LET b == lookname(a, t.n)
         IN  IF b.err THEN [a |-> b, v |-> 0, s |-> "abs", ix |-> 0]
             ELSE IF Symbol(b, t.n).type \in {"undf", "comm"}
             THEN [a |-> b, v |-> 0, s |-> "ext", ix |-> IndexOf(b, t.n) - 1]
             ELSE [a |-> b, v |-> Symbol(b, t.n).value, s |-> Symbol(b, t.n).type, ix |-> 0]

Plus(acc, t, r) ==
  LET seg == IF t.sign > 0 THEN IF acc.s = "abs" THEN r.s
                                ELSE IF r.s = "abs" THEN acc.s ELSE "bad"
             ELSE IF r.s = acc.s /\ r.s # "ext" THEN "abs"
                  ELSE IF r.s = "abs" THEN acc.s ELSE "bad"
  IN  [a |-> IF seg = "bad" THEN uerror(r.a) ELSE r.a, s |-> seg,
       v |-> (acc.v + t.sign * r.v) % Full,
       ix |-> IF r.s = "ext" THEN r.ix ELSE acc.ix]

AddTerm(acc, t) == Plus(acc, t, getterm(acc.a, t))
getexpr(a, terms) == FoldLeft(AddTerm, [a |-> a, v |-> 0, s |-> "abs", ix |-> 0], terms)

SegmRel(e, fmt) == [seg |-> e.s, fmt |-> fmt, ix |-> IF e.s = "ext" THEN e.ix ELSE 0, off |-> 0]

----------------------------------------------------------------------------
(* Emitting *)

PutWord(a, w, r) ==
  [a EXCEPT !.sfile[a.segm] = @ \o Cells(w), !.rfile[a.segm] = Append(@, r)]

reorder_flush(a) ==
  IF ~a.full THEN a
  ELSE [a EXCEPT !.sfile["text"] = @ \o Cells(a.word),
                 !.rfile["text"] = Append(@, a.rel), !.full = FALSE]

emitword(a, w0, r, clobber) ==
  LET w == [w0 EXCEPT !.ln = a.line]
      b == IF a.reorder /\ a.segm = "text"
           THEN [reorder_flush(a) EXCEPT !.word = w, !.rel = r, !.full = TRUE,
                                         !.clobber = clobber % 32]
           ELSE PutWord(a, w, r)
  IN  [b EXCEPT !.count[a.segm] = @ + WORDSZ]

(* n bytes of zeros; a relocation each time a word is complete. *)
add_space(a, n, fill) ==
  LET s == a.segm
      words == ((a.count[s] + n) \div WORDSZ) - (a.count[s] \div WORDSZ)
      b == [a EXCEPT !.count[s] = @ + n]
  IN  IF s = "bss" THEN b
      ELSE [b EXCEPT !.sfile[s] = IF fill THEN @ \o [i \in 1..n |-> Byte(0, a.line)] ELSE @,
                     !.rfile[s] = @ \o [i \in 1..words |-> relabs]]

align(a, n) == add_space(a, AlignUp(a.count[a.segm], n) - a.count[a.segm], TRUE)

(* .byte and .ascii: the bytes first, then their share of relocations. *)
PutBytes(a, n) ==
  add_space([a EXCEPT !.sfile[a.segm] = @ \o [i \in 1..n |-> Byte(i, a.line)]], n, FALSE)

----------------------------------------------------------------------------
(* Instructions.  The type of an instruction says where its operands go:   *)
(* one instruction stands for the others of its form.                      *)

optable ==
  [addu |-> {"RD1", "RS2", "RT3", "MOD"}, subu |-> {"RD1", "RS2", "RT3", "MOD"},
   addiu |-> {"RT1", "RS2", "OFF16", "MOD"}, move |-> {"RD1", "RS2", "MOD"},
   lw |-> {"RT1", "OFF16", "RSB", "MOD"}, sw |-> {"RT1", "OFF16", "RSB"},
   ori |-> {"RT1", "RS2", "OFF16", "MOD"}, lui |-> {"RT1", "HIGH16", "MOD"},
   li |-> {"RT1", "MOD"}, la |-> {"RT1", "MOD"}, nop |-> {},
   seb |-> {"RD1", "RT2"}, div |-> {"RS1", "RT2"}, mflo |-> {"RD1", "MOD"},
   sll |-> {"RD1", "RT2", "SA", "MOD"}, sllv |-> {"RD1", "RT2", "RS3", "MOD"},
   beq |-> {"RS1", "RT2", "OFF18", "DSLOT"}, beqz |-> {"RS1", "OFF18", "DSLOT"},
   b |-> {"AOFF18", "DSLOT"}, j |-> {"AOFF28", "DSLOT"}, jal |-> {"AOFF28", "DSLOT"},
   jr |-> {"RS1", "DSLOT"}, jalr |-> {"RD1", "RS2", "DSLOT"}]

Literal == [addu |-> "addiu", subu |-> "addiu"]   \* three registers -> immediate

IsReg(o, i) == i \in DOMAIN o /\ o[i].k = "reg"
R(n) == [k |-> "reg", n |-> n]

(* The forms makecmd accepts for another instruction, and the operands it  *)
(* restores when one is left out.                                          *)
Canonical(op, o) ==
  LET T == optable[op]
      twice == <<o[1]>> \o o
  IN  CASE op = "j" /\ IsReg(o, 1) -> <<"jr", o>>
        [] op = "jal" /\ IsReg(o, 1) /\ Len(o) = 1 -> <<"jalr", <<R(RA)>> \o o>>
        [] op = "jal" /\ IsReg(o, 1) -> <<"jalr", o>>
        [] op = "jalr" /\ Len(o) = 1 -> <<op, <<R(RA)>> \o o>>
        [] op = "div" /\ Len(o) = 3 /\ o[1].n = 0 -> <<op, Tail(o)>>
        [] op = "sll" /\ Len(o) = 3 /\ IsReg(o, 3) -> <<"sllv", o>>
        [] \/ op = "sll" /\ ~IsReg(o, 2)
           \/ {"RT1", "RS2", "OFF16"} \subseteq T /\ ~IsReg(o, 2)
           \/ T \cap {"RT3", "RS3"} # {} /\ Len(o) = 2 -> <<op, twice>>
        [] OTHER -> <<op, o>>

Fields(op, T, o) ==
  LET at(tags) == LET i == CHOOSE i \in 1..3 : tags[i] \in T IN o[i].n
      has(tags) == \E i \in 1..3 : tags[i] \in T
      rd == <<"RD1", "RD2", "RD3">>
      rt == <<"RT1", "RT2", "RT3">>
      rs == <<"RS1", "RS2", "RS3">>
  IN  [Nop EXCEPT !.op = op, !.rd = IF has(rd) THEN at(rd) ELSE 0,
                  !.rt = IF has(rt) THEN at(rt) ELSE 0,
                  !.rs = IF has(rs) THEN at(rs)
                         ELSE IF "RSB" \in T THEN o[Len(o)].n ELSE 0]

(* li into a register: one word when the value fits, else two. *)
LoadLiteral(a, reg, v) ==
  LET lui == [Nop EXCEPT !.op = "lui", !.rt = reg, !.imm = v \div Half]
      ori == [Nop EXCEPT !.op = "ori", !.rt = reg, !.imm = v % Half]
      addiu == [ori EXCEPT !.op = "addiu"]
  IN  IF v < Half THEN emitword(a, ori, relabs, reg)
      ELSE IF v >= Full - (Half \div 2) THEN emitword(a, addiu, relabs, reg)
      ELSE IF v % Half = 0 THEN emitword(a, lui, relabs, reg)
      ELSE emitword(emitword(a, lui, relabs, reg), [ori EXCEPT !.rs = reg], relabs, reg)

emit_li(a, o) ==
  LET e == getexpr(a, o[2].e)
  IN  IF e.s # "abs" THEN uerror(e.a) ELSE LoadLiteral(e.a, o[1].n, e.v)

(* la: %hi into the register, then %lo added to it.  The register it       *)
(* names to the buffer as modified is a part of the value.                 *)
emit_la(a, o) ==
  LET e == getexpr(a, o[2].e)
      hi == ((e.v + (Half \div 2)) % Full) \div Half
      lui == [Nop EXCEPT !.op = "lui", !.rt = o[1].n, !.imm = hi]
      addiu == [Nop EXCEPT !.op = "addiu", !.rt = o[1].n, !.rs = o[1].n, !.imm = e.v % Half]
      r == [SegmRel(e, "HIGH16S") EXCEPT !.off = e.v % Half]
  IN  IF e.s = "abs" THEN uerror(e.a)
      ELSE emitword(emitword(e.a, lui, r, hi), addiu, [r EXCEPT !.fmt = "BYTE16"],
                    e.v \div Half)

----------------------------------------------------------------------------
(* Faulty variant: only the first register of a branch is looked at. *)
DependsOnFirst(a, T, w) ==
  a.full /\ a.clobber # 0 /\ T \cap {"RS1", "RS2"} # {} /\ w.rs = a.clobber

(* makecmd: the delay slot.  The buffered instruction goes after the       *)
(* branch unless the branch reads the register it modifies.                *)

DependsOn(a, T, w) ==
  /\ a.full /\ a.clobber # 0
  /\ \/ T \cap {"RS1", "RS2"} # {} /\ w.rs = a.clobber
     \/ "RT2" \in T /\ w.rt = a.clobber

WithSlot(a0, T, w0, r) ==
  LET a == IF DependsOn(a0, T, w0) THEN reorder_flush(a0) ELSE a0
      negative == T \cap {"OFF18", "AOFF18"} # {} /\ r.seg = "abs" /\ Signed(w0.imm) < 0
      w == [w0 EXCEPT !.imm = IF a.full /\ negative THEN (@ + 1) % Half ELSE @,
                      !.ln = a.line]
      branch == [PutWord(a, w, r) EXCEPT !.count["text"] = @ + WORDSZ]
  IN  IF a.full THEN reorder_flush(branch)
      ELSE [PutWord(branch, [Nop EXCEPT !.ln = a.line], relabs)
              EXCEPT !.count["text"] = @ + WORDSZ]

Emit(a, T, w, r, clobber) ==
  IF a.reorder /\ "DSLOT" \in T /\ a.segm = "text"
  THEN WithSlot(a, T, w, r) ELSE emitword(a, w, r, clobber)

(* The address operand: the field of the word and the relocation. *)
Address(a, T, w, x) ==
  LET e == getexpr(a, x.e)
      away == (e.v - (e.a.count[a.segm] + 4)) % Full
      to(i, r) == [a |-> e.a, w |-> [w EXCEPT !.imm = i], r |-> r, v |-> e.v]
  IN  CASE "OFF16" \in T -> to(e.v % Half, SegmRel(e, "BYTE16"))
        [] "HIGH16" \in T /\ x.fn = "hi" ->
             to(((e.v + (Half \div 2)) % Full) \div Half,
                [SegmRel(e, "HIGH16S") EXCEPT !.off = e.v % Half])
        [] "HIGH16" \in T -> to(e.v % Half, SegmRel(e, "BYTE16"))
        [] "AOFF28" \in T -> to(e.v \div 4, SegmRel(e, "WORD26"))
        [] e.s = a.segm -> to((away \div 4) % Half, relabs)
        [] e.s = "ext" -> to((e.v \div 4) % Half, SegmRel(e, "WORD16"))
        [] OTHER -> [a |-> uerror(e.a), w |-> w, r |-> relabs, v |-> 0]

Fits(w, v) == IF w.op = "ori" THEN v < Half
              ELSE v < Half \div 2 \/ v >= Full - (Half \div 2)

(* Three registers with a literal: the immediate form, or the literal in   *)
(* $at when it is too large for the field.                                 *)
WithLiteral(a, op, o) ==
  LET e == getexpr(a, o[3].e)
      v == IF op = "subu" THEN (Full - e.v) % Full ELSE e.v
      imm == [Nop EXCEPT !.op = Literal[op], !.rt = o[1].n, !.rs = o[2].n, !.imm = v % Half]
      reg == [Nop EXCEPT !.op = op, !.rd = o[1].n, !.rs = o[2].n, !.rt = AT]
  IN  IF op = "subu" /\ e.s # "abs" THEN uerror(e.a)
      ELSE IF Fits(imm, v) THEN emitword(e.a, imm, SegmRel(e, "BYTE16"), o[1].n)
      ELSE IF ~e.a.at \/ e.s # "abs" THEN uerror(e.a)
      ELSE emitword(LoadLiteral(e.a, AT, e.v), reg, relabs, o[1].n)

Make(a, op, o) ==
  LET T == optable[op]
      w == Fields(op, T, o)
      clobber == IF "MOD" \in T THEN o[1].n ELSE 0
      x == o[CHOOSE i \in DOMAIN o : o[i].k = "exp"]
      Shift(sa) == IF sa.s # "abs" THEN uerror(sa.a)
                   ELSE emitword(sa.a, [w EXCEPT !.imm = sa.v % 32], relabs, clobber)
      To(d) == IF d.a.err \/ ("OFF16" \in T /\ ~Fits(w, d.v)) THEN uerror(d.a)
               ELSE Emit(d.a, T, d.w, d.r, clobber)
  IN  CASE op = "li" -> emit_li(a, o)
        [] op = "la" -> emit_la(a, o)
        [] op \in DOMAIN Literal /\ ~IsReg(o, 3) -> WithLiteral(a, op, o)
        [] "SA" \in T -> Shift(getexpr(a, o[3].e))
        [] T \cap {"OFF16", "OFF18", "AOFF18", "AOFF28", "HIGH16"} # {} -> To(Address(a, T, w, x))
        [] OTHER -> Emit(a, T, w, relabs, clobber)

makecmd(a, op, o) == LET c == Canonical(op, o) IN Make(a, c[1], c[2])

----------------------------------------------------------------------------
(* pass1, one line at a time *)

Label(a0, nm) ==
  LET a == lookname(reorder_flush(a0), nm)
  IN  IF a.err THEN a
      ELSE SetSymbol(a, nm, [Symbol(a, nm) EXCEPT !.value = a.count[a.segm], !.type = a.segm])

NumericLabel(a, n) ==
  IF Len(a.labels) >= MAXRLAB THEN uerror(a)
  ELSE [reorder_flush(a) EXCEPT !.labels = Append(@, [num |-> n, value |-> a.count[a.segm]])]

(* "name already defined" *)
Taken(s) == IF s.type = "undf" THEN s.ext ELSE s.type # "comm"

Equate(a0, nm, terms, once) ==
  LET a == lookname(a0, nm)
      s == Symbol(a, nm)
      e == getexpr(a, terms)
  IN  IF a.err \/ e.a.err \/ e.s = "ext" \/ (once /\ Taken(s)) THEN uerror(a)
      ELSE SetSymbol(e.a, nm, [s EXCEPT !.value = e.v, !.type = e.s, !.loc = FALSE])

Common(a0, nm, size) ==
  LET a == lookname(a0, nm)
      s == Symbol(a, nm)
  IN  IF a.err \/ Taken(s) THEN uerror(a)
      ELSE SetSymbol(a, nm, [s EXCEPT !.type = "comm", !.ext = ~s.loc, !.loc = FALSE,
                                      !.value = size])

Binding(a0, nm, global) ==
  LET a == lookname(a0, nm)
      s == Symbol(a, nm)
  IN  IF a.err \/ (IF global THEN s.loc ELSE s.ext) THEN uerror(a)
      ELSE SetSymbol(a, nm, IF global THEN [s EXCEPT !.ext = TRUE] ELSE [s EXCEPT !.loc = TRUE])

WordDirective(a0, terms) ==
  LET e == getexpr(align(reorder_flush(a0), WORDSZ), terms)
  IN  IF e.a.err THEN e.a
      ELSE emitword(e.a, [Nop EXCEPT !.op = "word", !.imm = e.v], SegmRel(e, "BYTE32"), 0)

Section(a, s) == IF s = "text" THEN reorder_flush([a EXCEPT !.segm = s])
                 ELSE [a EXCEPT !.segm = s]

SetReorder(a, on) == IF on THEN [a EXCEPT !.reorder = TRUE]
                     ELSE reorder_flush([a EXCEPT !.reorder = FALSE])

(* ". = addr": zero words up to the address, in words. *)
Origin(a0, terms) ==
  LET e == getexpr(a0, terms)
      a == reorder_flush(e.a)
      zero(b, i) == IF b.count[b.segm] < e.v THEN emitword(b, Nop, relabs, 0) ELSE b
  IN  IF e.a.err \/ e.s # a0.segm \/ e.v < a0.count[a0.segm] THEN uerror(e.a)
      ELSE IF a.segm = "bss" THEN [a EXCEPT !.count["bss"] = e.v]
      ELSE FoldLeft(zero, a, [i \in 1..((e.v + 3) \div 4) |-> i])

Line(a, l) ==
  CASE l.k = "cmd" -> makecmd(align(a, WORDSZ), l.op, l.o)
    [] l.k = "label" -> Label(a, l.n)
    [] l.k = "numlabel" -> NumericLabel(a, l.num)
    [] l.k = "section" -> Section(a, l.n)
    [] l.k = "globl" -> Binding(a, l.n, TRUE)
    [] l.k = "local" -> Binding(a, l.n, FALSE)
    [] l.k = "comm" -> Common(a, l.n, l.size)
    [] l.k = "equ" -> Equate(a, l.n, l.e, TRUE)
    [] l.k = "=" -> Equate(a, l.n, l.e, FALSE)
    [] l.k = "word" -> WordDirective(a, l.e)
    [] l.k = "bytes" -> PutBytes(reorder_flush(a), l.size)
    [] l.k = "space" -> add_space(reorder_flush(a), l.size, TRUE)
    [] l.k = "align" -> align(reorder_flush(a), l.size)
    [] l.k = "org" -> Origin(a, l.e)
    [] l.k = "set" -> SetReorder(a, l.on)

pass1(a, l) == IF a.err THEN a ELSE [Line(a, l) EXCEPT !.line = @ + 1]

(* The end of the source: every segment is filled to a whole word. *)
EndOfPass1(a) ==
  LET fill(b, s) == align([b EXCEPT !.segm = s], WORDSZ)
  IN  FoldLeft(fill, reorder_flush(a), <<"text", "data", "strng", "bss">>)

----------------------------------------------------------------------------
(* middle: names nobody defined become external, local commons get their   *)
(* place in .bss.                                                          *)

middle(a) ==
  LET step(b, i) ==
        LET s == b.stab[i]
            top == AlignUp(b.count["bss"], WORDSZ)
        IN  IF s.type = "undf" /\ ~s.ext /\ ~s.loc THEN [b EXCEPT !.stab[i].ext = TRUE]
            ELSE IF s.type = "comm" /\ ~s.ext
            THEN [b EXCEPT !.stab[i].type = "bss", !.stab[i].value = top,
                           !.count["bss"] = top + s.value]
            ELSE b
  IN  FoldLeft(step, a, [i \in DOMAIN a.stab |-> i])

Bases(a) ==
  [text |-> 0, data |-> a.count["text"], strng |-> a.count["text"] + a.count["data"],
   bss |-> a.count["text"] + a.count["data"] + a.count["strng"]]

(* Faulty variant: .rodata is taken to start where .data does. *)
FinalSymbolOneData(a, s) ==
  IF s.type \notin Segs THEN s
  ELSE IF s.type = "strng" THEN [s EXCEPT !.value = @ + Bases(a)["data"], !.type = "data"]
  ELSE [s EXCEPT !.value = @ + Bases(a)[s.type]]

(* pass2 first makes the values of the symbols addresses in the object. *)
FinalSymbol(a, s) ==
  IF s.type \notin Segs THEN s
  ELSE [s EXCEPT !.value = @ + Bases(a)[s.type], !.type = IF @ = "strng" THEN "data" ELSE @]

relocate(w, offset, r) ==
  LET high == w.imm * Half + offset + Signed(r.off)
      field(v) == [w |-> [w EXCEPT !.imm = v], r |-> r]
  IN  CASE r.fmt = "BYTE32" -> field((w.imm + offset) % Full)
        [] r.fmt = "BYTE16" -> field((w.imm + offset) % Half)
        [] r.fmt = "WORD26" -> field(((w.imm * 4 + offset) % Full) \div 4)
        [] r.fmt = "HIGH16S" ->
             [w |-> [w EXCEPT !.imm = ((high + (Half \div 2)) \div Half) % Half],
              r |-> [r EXCEPT !.off = high % Half]]
        [] OTHER -> [w |-> [w EXCEPT !.op = "bad"], r |-> r]

(* The nearest numeric label, or -1. *)
findlabel(a, addr, n) ==
  LET back == {i \in DOMAIN a.labels : a.labels[i].num = -n /\ a.labels[i].value <= addr}
      fwd == {i \in DOMAIN a.labels : a.labels[i].num = n /\ a.labels[i].value > addr}
  IN  IF n < 0 /\ back # {}
      THEN a.labels[CHOOSE i \in back : \A j \in back : j <= i].value
      ELSE IF n >= 0 /\ fwd # {}
      THEN a.labels[CHOOSE i \in fwd : \A j \in fwd : j >= i].value
      ELSE -1

(* A word of segment s at offset h: relocated by the start of the segment  *)
(* it refers to; a reference to a symbol of the unit is resolved.          *)
makeword(a, stab, s, w, r, h) ==
  LET numeric == r.ix >= RLAB_OFFSET - RLAB_MAXVAL
      sym == stab[r.ix + 1]
      value == IF numeric THEN findlabel(a, h, r.ix - RLAB_OFFSET) ELSE sym.value
      r1 == IF numeric THEN [r EXCEPT !.seg = s] ELSE r
      base == IF s = "text" THEN 0 ELSE Bases(a)[s]
      away == (value - h - 4 - base + w.imm * 4) % Full
  IN  CASE r.seg = "abs" -> [w |-> w, r |-> r]
        [] r.seg = "ext" /\ numeric /\ value = -1 -> [w |-> [w EXCEPT !.op = "bad"], r |-> relabs]
        [] r.seg \in Segs -> relocate(w, Bases(a)[r.seg], r)
        [] ~numeric /\ IsExtern(sym) -> [w |-> w, r |-> r]
        [] r.fmt = "WORD16" ->
             IF numeric \/ sym.type = s
             THEN [w |-> [w EXCEPT !.imm = (away \div 4) % Half], r |-> relabs]
             ELSE [w |-> [w EXCEPT !.op = "bad"], r |-> r]
        [] r.fmt = "HIGH16S" -> relocate(w, value + Signed(r.off), r1)
        [] OTHER -> relocate(w, value, r1)

typerel(t) == CASE t = "strng" -> "data" [] t \in {"undf", "comm"} -> "abs" [] OTHER -> t

(* relrel: what a relocation of the object file is relative to. *)
relrel(stab, r) ==
  CASE r.seg = "strng" -> [r EXCEPT !.seg = "data"]
    [] r.seg = "ext" /\ ~IsExtern(stab[r.ix + 1]) ->
         [r EXCEPT !.seg = typerel(stab[r.ix + 1].type), !.ix = 0]
    [] OTHER -> r

(* The object file: words and relocations side by side. *)
ObjectOf(a) ==
  LET stab == [i \in DOMAIN a.stab |-> FinalSymbol(a, a.stab[i])]
      made(s) == [i \in DOMAIN a.rfile[s] |->
                    makeword(a, stab, s, a.sfile[s][4 * i - 3], a.rfile[s][i], 4 * (i - 1))]
      cells(s) == [j \in DOMAIN a.sfile[s] |->
                     IF j % 4 = 1 /\ IsWord(a.sfile[s][j])
                     THEN made(s)[(j + 3) \div 4].w ELSE a.sfile[s][j]]
      rels(s) == [i \in DOMAIN made(s) |-> relrel(stab, made(s)[i].r)]
  IN  [text |-> cells("text"), data |-> cells("data") \o cells("strng"),
       treloc |-> rels("text"), dreloc |-> rels("data") \o rels("strng"),
       bss |-> AlignUp(a.count["bss"], WORDSZ), syms |-> stab]

(* Pass 2 stops at a word it cannot make. *)
Made(obj) == \A j \in DOMAIN obj.text : obj.text[j].op # "bad"

(* The whole assembler over a source, for the objects other than the one   *)
(* assembled step by step.                                                 *)
Finish(a) == middle(EndOfPass1(a))
Assembled(src) == Finish(FoldLeft(pass1, Cleared(TRUE), src))
==============================================================================
