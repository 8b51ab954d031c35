------------------------------ MODULE MCToolchain ------------------------------
(* Sources, archives and arguments for model checking Toolchain. *)
EXTENDS Toolchain

Num(n) == [k |-> "num", v |-> n, sign |-> 1]
Sym(nm) == [k |-> "sym", n |-> nm, sign |-> 1]
Num1(k, n) == [k |-> k, v |-> n, sign |-> 1]
E(terms) == [k |-> "exp", e |-> terms, fn |-> ""]
Hi(terms) == [k |-> "exp", e |-> terms, fn |-> "hi"]
M(n) == [k |-> "mem", n |-> n]
I(op, o) == [k |-> "cmd", op |-> op, o |-> o]
Named(k, nm) == [k |-> k, n |-> nm]
Sized(k, n) == [k |-> k, size |-> n]

Data == Named("section", "data")
Rdata == Named("section", "strng")
Text == Named("section", "text")
W(terms) == [k |-> "word", e |-> terms]

(* Delay slots: what may and may not move behind a branch. *)
Slots == {Named("label", "f"), I("addu", <<R(2), R(3), R(4)>>), I("addu", <<R(3), R(2)>>),
          I("lw", <<R(4), E(<<Sym("y")>>), M(3)>>),
          I("beqz", <<R(2), E(<<Sym("f")>>)>>), I("beq", <<R(2), R(3), E(<<Sym("g")>>)>>),
          I("j", <<R(4)>>)}

(* Addresses of data and code, known before or after their use. *)
Addresses == {Named("label", "x"), Data, W(<<Sym("f"), Num(8)>>),
              I("la", <<R(4), E(<<Sym("x"), Num(12)>>)>>),
              I("lui", <<R(2), Hi(<<Sym("x")>>)>>), I("lw", <<R(3), E(<<Sym("x")>>), M(2)>>),
              I("jal", <<E(<<Sym("f")>>)>>)}

(* The sections of data, their alignment, and commons. *)
Sections == {Data, Rdata, Named("label", "x"), Sized("bytes", 3), W(<<Sym("x")>>),
             Sized("align", 8), [k |-> "comm", n |-> "buf", size |-> 5]}

(* Instructions as has to make up or to complete. *)
Macros == {I("li", <<R(2), E(<<Num(130)>>)>>), I("subu", <<R(2), R(2), E(<<Num(40)>>)>>),
           I("sll", <<R(2), E(<<Num(3)>>)>>), I("sll", <<R(2), R(3), R(2)>>),
           I("sw", <<R(2), E(<<Num(8)>>), M(29)>>), I("seb", <<R(3), R(2)>>),
           I("sw", <<R(31), E(<<Num(4)>>), M(29)>>), I("jal", <<R(2)>>)}

(* Numeric labels and the modes. *)
Modes == {[k |-> "numlabel", num |-> 1], I("beqz", <<R(3), E(<<Num1("back", 1)>>)>>),
          I("b", <<E(<<Num1("fwd", 1)>>)>>), I("addu", <<R(2), R(3)>>),
          [k |-> "set", on |-> FALSE], [k |-> "org", e |-> <<Num1("dot", 0), Num(8)>>],
          I("beqz", <<R(3), E(<<Num1("dot", 0)>>)>>)}

(* Symbols: several definitions, and what binds them. *)
Bindings == {Named("globl", "f"), Named("label", "f"), I("j", <<E(<<Sym("f")>>)>>),
             Named("local", "x"), [k |-> "equ", n |-> "f", e |-> <<Num(20)>>],
             [k |-> "comm", n |-> "x", size |-> 6], I("la", <<R(4), E(<<Sym("x")>>)>>)}

MCSources ==
  LET crtSource == <<Named("globl", "startup"), Named("label", "startup"), I("jal", <<E(<<Sym("g")>>)>>)>>
      gSource == <<Named("globl", "g"), Named("label", "g"), I("la", <<R(4), E(<<Sym("y")>>)>>),
                   I("jr", <<R(31)>>), [k |-> "comm", n |-> "buf", size |-> 6]>>
      ySource == <<Named("section", "data"), Named("globl", "y"), Sized("bytes", 3),
                   Named("label", "y"), [k |-> "word", e |-> <<Sym("g"), Num(4)>>],
                   [k |-> "comm", n |-> "buf", size |-> 3]>>
      xSource == <<Named("globl", "x"), Named("globl", "f"), Named("section", "data"),
                   Named("label", "x"), [k |-> "word", e |-> <<Sym("y"), Num(4)>>],
                   Named("section", "text"), Named("label", "f"), I("j", <<E(<<Sym("g")>>)>>)>>
  IN  <<crtSource, gSource, ySource, xSource>>

MCFiles ==
  LET UnitNo(n) == Unit(n, ObjectOf(Assembled(MCSources[n])))
  IN  [crt |-> UnitNo(1),
       libt |-> Archive(TRUE, <<UnitNo(2), UnitNo(3), UnitNo(4)>>),
       libp |-> Archive(FALSE, <<UnitNo(3), UnitNo(4), UnitNo(2)>>)]

MCJobs ==
  LET Job(menu, lists) == [head |-> <<>>, menu |-> menu, lists |-> lists, bases |-> {16}]
  IN  {Job(Slots, {<<"crt", "", "libt">>}), Job(Addresses, {<<"", "crt", "libp">>}),
       [Job(Sections, {<<"crt", "", "libt">>}) EXCEPT !.head = <<Rdata, W(<<Sym("x")>>)>>],
       Job(Macros, {<<"", "crt", "libt">>}), Job(Modes, {<<"crt", "", "libt">>}),
       Job(Bindings, {<<"crt", "", "libt">>, <<"libp", "crt", "">>})}
================================================================================
