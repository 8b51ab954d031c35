-------------------------------- MODULE Linker --------------------------------
(***************************************************************************)
(* ld (src/ld.c): the first pass over the arguments collects the external  *)
(* symbols and decides which members of the archives are loaded, middle    *)
(* gives every symbol its address, the second pass relocates and copies    *)
(* the words, finishout puts the pieces together.                          *)
(*                                                                         *)
(* A file is an object ([kind |-> "obj", obj |-> ...]) or an archive       *)
(* ([kind |-> "ar", table |-> BOOLEAN, members |-> <<objects>>]); the      *)
(* place of a member is its index.  Of the options, -e and -u are modelled *)
(* (the driver passes -o and -e).                                          *)
(***************************************************************************)
EXTENDS Assembler

CONSTANTS NSYM,     \* symbols of the whole link
          NSYMPR,   \* undefined and common symbols of one object
          NLIBS     \* members loaded, and one end mark for each archive

LinkNames == {"_etext", "_edata", "_end", "_gp"}   \* what middle defines

Started(base) ==
  [symtab |-> <<>>, liblist |-> <<>>, libp |-> 1, tsize |-> 0, dsize |-> 0, bsize |-> 0,
   nsym |-> 0, keep |-> FALSE, entry |-> "", errlev |-> 0, base |-> base,
   torigin |-> 0, dorigin |-> 0, borigin |-> 0, gp |-> 0,
   tout |-> <<>>, dout |-> <<>>, trout |-> <<>>, drout |-> <<>>, sout |-> <<>>]

Error(l, n) == [l EXCEPT !.errlev = n]

Has(l, nm) == \E i \in DOMAIN l.symtab : l.symtab[i].name = nm
Lookup(l, nm) == CHOOSE i \in DOMAIN l.symtab : l.symtab[i].name = nm
SymType(l, nm) == IF Has(l, nm) THEN l.symtab[Lookup(l, nm)].type ELSE "none"

enter(l, s) ==
  IF Has(l, s.name) THEN l
  ELSE IF Len(l.symtab) >= NSYM THEN Error(l, 2)
  ELSE [l EXCEPT !.symtab = Append(@, [name |-> s.name, type |-> s.type, value |-> s.value])]

(* The value of a symbol of an object, given the displacements of its      *)
(* segments.                                                               *)
symreloc(rel, s) ==
  CASE s.type \in {"text", "data", "bss"} -> [s EXCEPT !.value = (@ + rel[s.type]) % Full]
    [] s.type \in {"undf", "comm"} -> s
    [] OTHER -> IF s.ext THEN [s EXCEPT !.type = "abs"] ELSE s

Displace(t, d, b, obj) ==
  [text |-> t, data |-> d - Len(obj.text), bss |-> b - (Len(obj.text) + Len(obj.data))]

(* One symbol of an object against the table. *)
Collect(rel, acc, s0) ==
  LET s == symreloc(rel, s0)
      i == Lookup(acc.l, s.name)
      sp == acc.l.symtab[i]
      isdef == s.type # "comm" /\ (sp.type = "undf" \/ s.type \in {"data", "bss"})
  IN  IF ~s.ext THEN [acc EXCEPT !.nsymbol = @ + 1]
      ELSE IF ~Has(acc.l, s.name) THEN [acc EXCEPT !.l = enter(@, s)]
      ELSE IF s.type = "undf" \/ sp.type \notin {"undf", "comm"} THEN acc
      ELSE IF s.type = "comm"
      THEN [acc EXCEPT !.l.symtab[i].type = "comm",
                       !.l.symtab[i].value = IF s.value > @ THEN s.value ELSE @]
      ELSE IF isdef
      THEN [acc EXCEPT !.l.symtab[i].type = s.type, !.l.symtab[i].value = s.value,
                       !.ndef = @ + 1]
      ELSE acc

(* load1: a file is always taken, a member only when it defines a symbol   *)
(* that is undefined; the symbols a rejected member entered go again.      *)
load1(l, obj, lib) ==
  LET rel == Displace(l.tsize, l.dsize, l.bsize, obj)
      acc == FoldLeft(LAMBDA a, s : Collect(rel, a, s),
                      [l |-> l, ndef |-> 0, nsymbol |-> 1], obj.syms)
      up == acc.l
  IN  IF ~lib \/ acc.ndef > 0
      THEN [took |-> TRUE,
            l |-> [up EXCEPT !.tsize = AlignUp(@ + Len(obj.text), 4),
                             !.dsize = AlignUp(@ + Len(obj.data), 4),
                             !.bsize = AlignUp(@ + obj.bss, 4),
                             !.nsym = @ + acc.nsymbol]]
      ELSE [took |-> FALSE,
            l |-> [up EXCEPT !.symtab = SubSeq(@, 1, Len(l.symtab))]]

addlibp(l, loc) ==
  IF Len(l.liblist) + 1 >= NLIBS THEN Error(l, 2)
  ELSE [l EXCEPT !.liblist = Append(@, loc)]

step(l, members, loc) ==
  LET r == load1(l, members[loc], TRUE)
  IN  IF r.took THEN addlibp(r.l, loc) ELSE r.l

(* The table of contents of an archive: the symbols its members define,    *)
(* written by the tool that made the archive.                              *)
Defines(obj) == {s.name : s \in {t \in Range(obj.syms) : t.ext /\ t.type # "undf"}}
rantab(members) ==
  FoldLeft(LAMBDA t, i : t \o SetToSeq({<<nm, i>> : nm \in Defines(members[i])}),
           <<>>, [i \in DOMAIN members |-> i])

ldrand(l, members) ==
  FoldLeft(LAMBDA k, r : IF SymType(k, r[1]) = "undf" THEN step(k, members, r[2]) ELSE k,
           l, rantab(members))

loadall(l, members) ==
  FoldLeft(LAMBDA k, i : step(k, members, i), l, [i \in DOMAIN members |-> i])

(* Faulty variant: one scan. *)
ScanOnce(l, file) == IF file.table THEN ldrand(l, file.members) ELSE loadall(l, file.members)

(* Scan an archive until a scan loads nothing.  A scan that loads          *)
(* something adds a member, so there are no more than members + 1.         *)
Scans(l, file) ==
  LET scan(k) == IF file.table THEN ldrand(k, file.members) ELSE loadall(k, file.members)
      next(k, i) == IF i > 1 /\ k.quiet THEN k
                    ELSE LET n == scan(k.l)
                         IN  [l |-> n, quiet |-> Len(n.liblist) = Len(k.l.liblist)]
  IN  FoldLeft(next, [l |-> l, quiet |-> FALSE], [i \in 1..Len(file.members) + 2 |-> i]).l

load1arg(l, file) ==
  IF file.kind = "obj" THEN load1(l, file.obj, FALSE).l
  ELSE addlibp(Scans(l, file), 0)

pass1arg(l, arg) ==
  LET undef == Undefined(arg.n)
  IN  CASE arg.k = "file" -> load1arg(l, arg.file)
        [] arg.k = "u" -> enter(l, undef)
        [] arg.k = "e" -> [enter(l, undef) EXCEPT !.entry = arg.n]

----------------------------------------------------------------------------
(* middle: addresses *)

ldrsym(l, nm, value, type) ==
  IF ~Has(l, nm) THEN l
  ELSE IF SymType(l, nm) # "undf" THEN Error(l, 1)
  ELSE [l EXCEPT !.symtab[Lookup(l, nm)].type = type, !.symtab[Lookup(l, nm)].value = value]

(* Relocations are kept when something stays undefined. *)
KeepRelocations(l) ==
  [l EXCEPT !.keep = \E i \in DOMAIN l.symtab : /\ l.symtab[i].type = "undf"
                                                     /\ l.symtab[i].name \notin LinkNames,
            !.tsize = AlignUp(@, 16)]

DefineLinkNames(l) ==
  LET a == ldrsym(l, "_etext", l.tsize, "text")
      b == ldrsym(a, "_edata", l.dsize, "data")
      c == ldrsym(b, "_end", l.bsize, "bss")
  IN  ldrsym(c, "_gp", Half \div 2, "data")

(* Faulty variant: the next common follows at once. *)
PlaceCommonsPacked(l) ==
  FoldLeft(LAMBDA acc, i :
             IF acc.l.symtab[i].type # "comm" THEN acc
             ELSE [l |-> [acc.l EXCEPT !.symtab[i].value = acc.size],
                   size |-> acc.size + acc.l.symtab[i].value],
           [l |-> l, size |-> 0], [i \in DOMAIN l.symtab |-> i])

(* Common symbols, one after the other. *)
PlaceCommons(l) ==
  FoldLeft(LAMBDA acc, i :
             IF acc.l.symtab[i].type # "comm" THEN acc
             ELSE [l |-> [acc.l EXCEPT !.symtab[i].value = acc.size],
                   size |-> AlignUp(acc.size + acc.l.symtab[i].value, 4)],
           [l |-> l, size |-> 0], [i \in DOMAIN l.symtab |-> i])

FinalValue(s, org) ==
  CASE s.type \in {"text", "data", "bss"} -> [s EXCEPT !.value = (@ + org[s.type]) % Full]
    [] s.type = "comm" -> [s EXCEPT !.type = "bss", !.value = (@ + org.comm) % Full]
    [] OTHER -> s

Middle(l0) ==
  LET l1 == KeepRelocations(l0)
      placed == IF l1.keep THEN [l |-> l1, size |-> 0] ELSE PlaceCommons(DefineLinkNames(l1))
      l == placed.l
      data == l.base + l.tsize
      org == [text |-> l.base, data |-> data, comm |-> data + l.dsize,
              bss |-> data + l.dsize + placed.size]
      undefined == \E i \in DOMAIN l.symtab : l.symtab[i].type = "undf"
  IN  [l EXCEPT !.symtab = [i \in DOMAIN @ |-> FinalValue(@[i], org)],
                !.torigin = org.text, !.dorigin = org.data, !.borigin = org.bss,
                !.gp = data + (Half \div 2), !.bsize = @ + placed.size,
                !.errlev = IF undefined /\ @ # 2 THEN 1 ELSE @]

----------------------------------------------------------------------------
(* pass2: relocation *)

reltype(t) == IF t = "comm" THEN "bss" ELSE IF t = "undf" THEN "abs" ELSE t

(* The address in the field of a word. *)
FieldAddress(w, r) ==
  CASE r.fmt \in {"BYTE16", "BYTE32"} -> w.imm
    [] r.fmt \in {"WORD16", "WORD26"} -> w.imm * 4
    [] r.fmt = "HIGH16S" -> w.imm * Half + Signed(r.off)

WithField(w, fmt, addr) ==
  [w EXCEPT !.imm = CASE fmt = "BYTE16" -> addr % Half
                      [] fmt = "BYTE32" -> addr % Full
                      [] fmt = "WORD16" -> ((addr % Full) \div 4) % Half
                      [] fmt = "WORD26" -> (addr % Full) \div 4
                      [] fmt = "HIGH16S" -> ((addr + (Half \div 2)) \div Half) % Half]

(* A word of an object at address pc.  syms are the symbols of the object: *)
(* the index of an external goes through them into the table.              *)
relword(l, rel, syms, w, r, pc) ==
  LET i == Lookup(l, syms[r.ix + 1].name)
      sp == l.symtab[i]
      open == sp.type \in {"undf", "comm"}
      addr == FieldAddress(w, r)
      stay == [r EXCEPT !.ix = l.nsym + (i - 1)]
      closed == [r EXCEPT !.seg = reltype(sp.type), !.ix = 0]
  IN  CASE r.seg \in {"text", "data", "bss"} ->
             [w |-> WithField(w, r.fmt, addr + rel[r.seg]), r |-> r]
        [] r.seg = "ext" /\ open ->
             [w |-> IF r.fmt = "WORD16" THEN w ELSE WithField(w, r.fmt, addr), r |-> stay]
        [] r.seg = "ext" /\ r.fmt = "WORD16" ->
             [w |-> WithField(w, "WORD16", addr + sp.value - pc - 4), r |-> relabs]
        [] r.seg = "ext" -> [w |-> WithField(w, r.fmt, addr + sp.value), r |-> closed]
        [] OTHER -> [w |-> w, r |-> r]

(* The words of a segment, each with its own relocation record. *)
relocated(l, rel, syms, cells, rels, origin) ==
  [i \in DOMAIN rels |->
     LET c == cells[4 * i - 3]
     IN  IF IsWord(c) THEN relword(l, rel, syms, c, rels[i], origin + 4 * (i - 1))
         ELSE [w |-> c, r |-> rels[i]]]

CellsOf(cells, done) ==
  [j \in DOMAIN cells |-> IF j % 4 = 1 THEN done[(j + 3) \div 4].w ELSE cells[j]]

(* A symbol of the object against its final value: the second of two       *)
(* definitions does not agree.                                             *)
Redefined(l, rel, obj) ==
  \E i \in DOMAIN obj.syms :
    LET s == symreloc(rel, obj.syms[i])
        sp == l.symtab[Lookup(l, s.name)]
    IN  /\ s.ext /\ s.type \notin {"undf", "comm"}
        /\ s.type # sp.type \/ s.value # sp.value

load2(l, obj) ==
  LET rel == Displace(l.torigin, l.dorigin, l.borigin, obj)
      opens == {i \in DOMAIN obj.syms : obj.syms[i].ext /\ obj.syms[i].type \in {"undf", "comm"}}
      t == relocated(l, rel, obj.syms, obj.text, obj.treloc, l.torigin)
      d == relocated(l, rel, obj.syms, obj.data, obj.dreloc, l.dorigin)
      locals == SelectSeq(obj.syms, LAMBDA s : ~s.ext)
      kept(done) == IF l.keep THEN [i \in DOMAIN done |-> done[i].r] ELSE <<>>
  IN  IF Cardinality(opens) > NSYMPR THEN Error(l, 2)
      ELSE [l EXCEPT !.tout = @ \o CellsOf(obj.text, t), !.dout = @ \o CellsOf(obj.data, d),
                     !.trout = @ \o kept(t), !.drout = @ \o kept(d),
                     !.sout = @ \o <<[Undefined("") EXCEPT !.type = "fn", !.value = l.torigin]>>
                                \o [i \in DOMAIN locals |-> symreloc(rel, locals[i])],
                     !.torigin = AlignUp(@ + Len(obj.text), 4),
                     !.dorigin = AlignUp(@ + Len(obj.data), 4),
                     !.borigin = AlignUp(@ + obj.bss, 4),
                     !.errlev = IF Redefined(l, rel, obj) /\ @ # 2 THEN 1 ELSE @]

(* The members of an archive that pass 1 put on the list, to its end mark. *)
load2arg(l, file) ==
  LET end == CHOOSE n \in l.libp..Len(l.liblist) :
               l.liblist[n] = 0 /\ \A m \in l.libp..n - 1 : l.liblist[m] # 0
      locs == SubSeq(l.liblist, l.libp, end - 1)
  IN  IF file.kind = "obj" THEN load2(l, file.obj)
      ELSE [FoldLeft(LAMBDA k, loc : load2(k, file.members[loc]), l, locs)
              EXCEPT !.libp = end + 1]

pass2arg(l, arg) == IF arg.k = "file" THEN load2arg(l, arg.file) ELSE l

----------------------------------------------------------------------------
(* finishout: the output file.  It is an object again when relocations     *)
(* are kept, an image to run when they are not.                            *)

finishout(l) ==
  LET fill == l.tsize - Len(l.tout)
      pad == [i \in 1..fill |-> Byte(0, 0)]
      symbols == [i \in DOMAIN l.symtab |->
                    [Undefined(l.symtab[i].name) EXCEPT !.type = l.symtab[i].type, !.ext = TRUE,
                                                        !.value = l.symtab[i].value]]
      notText == l.entry # "" /\ SymType(l, l.entry) \notin {"text", "undf"}
  IN  [text |-> l.tout \o pad, data |-> l.dout, bss |-> l.bsize,
       treloc |-> l.trout, dreloc |-> l.drout, syms |-> l.sout \o symbols,
       entry |-> IF l.entry = "" THEN l.base
                 ELSE IF notText THEN 0 ELSE l.symtab[Lookup(l, l.entry)].value,
       runnable |-> ~l.keep, base |-> l.base,
       errlev |-> IF notText /\ l.errlev # 2 THEN 1 ELSE l.errlev]

(* The whole linker over its arguments. *)
Linked(args, base) ==
  finishout(FoldLeft(pass2arg, Middle(FoldLeft(pass1arg, Started(base), args)), args))
===============================================================================
