------------------------------- MODULE MCCompiler -------------------------------
(* Names, values and sources for TLC.  The names are those of the symbols  *)
(* in MCSymbols; a form is a list of choices, one for each part of it.     *)
EXTENDS Compiler

MCCompiled(tokens) == LET function == CompileFunction(tokens) IN function

One(t) == <<Op(t)>>
Variable(k, type, v) == [k |-> k, type |-> type, v |-> v]
MCSymbols ==
  [ g |-> Variable("global", <<"int">>, 160),
    h |-> Variable("global", <<"uchar">>, 164),
    a |-> Variable("global", <<"[2", "int">>, 168),
    k |-> Variable("global", <<"*", "(1", "int">>, 176),
    f |-> Variable("global", <<"(1", "int">>, 200),
    s |-> Variable("global", <<"(2", "int">>, 204),
    z |-> Variable("global", <<"(5", "int">>, 208),
    E |-> Variable("enum", <<"int">>, 3) ]
(* The parameters i, u, c, p and q are at StackTop and above.              *)
Holding(i, u, c, p, q, g, h, a0, a1) ==
  136 :> i @@ 140 :> u @@ 144 :> c @@ 148 :> p @@ 152 :> q @@ 160 :> g @@ 164 :> h
  @@ 168 :> a0 @@ 172 :> a1 @@ 176 :> 200
MCMemories == {Holding(253, 200, 249, 168, 6, 5, 12, 1, 127), Holding(2, 3, 4, 172, 1, 0, 15, 128, 255)}

(* The token that is written w. *)
Numbers == "0" :> 0 @@ "1" :> 1 @@ "2" :> 2 @@ "3" :> 3 @@ "4" :> 4 @@ "5" :> 5 @@ "6" :> 6 @@ "7" :> 7
           @@ "9" :> 9 @@ "13" :> 13 @@ "14" :> 14 @@ "127" :> 127 @@ "130" :> 130
Unsigneds == "3u" :> 3 @@ "255u" :> 255
Names == DOMAIN MCSymbols \cup {"i", "u", "c", "p", "q", "L", "M", "b", "n", "r", "t", "x", "y"}
Token(w) == CASE w \in Names -> Tok("id", w)
              [] w \in DOMAIN Numbers -> Tok("num", Numbers[w])
              [] w \in DOMAIN Unsigneds -> Tok("unum", Unsigneds[w])
              [] OTHER -> Op(w)
Text(ws) == [n \in DOMAIN ws |-> Token(ws[n])]
Some(texts) == {Text(ws) : ws \in texts}       \* one of these texts
W(words) == {<<Token(w)>> : w \in words}      \* one of these words
The(ws) == {Text(ws)}

MCParameters == Text(<<"(", "int", "i", ",", "unsigned", "u", ",", "char", "c", ",", "int", "p", "[", "]", ",",
                       "int", "q", ")">>)
TypeNames == Some({<<"char">>, <<"char", "unsigned">>, <<"int">>, <<"unsigned">>, <<"int", "*">>})

Arith == {"+", "-", "*", "/", "%", "&", "|", "^", "<<", ">>"}
Cmps == {"<", ">", "<=", ">=", "==", "!="}
Binaries == Arith \cup Cmps \cup {"&&", "||"}
Assigns == {"=", "+=", "-=", "*=", "/=", "%=", "&=", "|=", "^=", "<<=", ">>="}

(* Expressions, each returned by a function. *)
Values ==
  << (* precedence and mixed types *)
     << W({"i", "c"}), W(Binaries), W({"u", "3"}), W(Binaries), W({"g"}) >>,
     (* operands made while others wait: in registers, then on the stack *)
     << The(<<"(">>), W({"i", "2"}), W({"+", "-", "<"}), The(<<"g", ")">>), W({"*", "-", "/", ">="}),
        The(<<"(">>), W({"u", "i"}), W({"-", "%"}), The(<<"(">>), W({"c"}),
        W({"+", ">>", "=="}), W({"h", "g"}), The(<<")", ")">>) >>,
     (* assignments, plain and compound, to words and characters *)
     << W({"i", "c", "h"}), W(Assigns), W({"u", "h", "0"}), W({"-", "*", "=", "<", "||", ","}), W({"g", "1"}) >>,
     (* through pointers and into arrays *)
     << The(<<"*">>), W({"p", "a"}), W(Assigns), W({"i", "2"}), W({"-", "%"}), W({"u"}) >>,
     << W({"a", "p"}), The(<<"[">>), W({"i", "0", "1"}), The(<<"]">>), W(Assigns \cup {"-", "=="}), W({"c", "2"}) >>,
     << W({"p", "a"}), W({"+", "-", "=", "+=", "-=", "<", "=="}), W({"p", "a", "i", "1"}),
        W({"-", "+", "!=", "||"}), W({"a", "u", "0"}) >>,
     << W({"*", "-", "!", "&"}), W({"p", "c", "h", "i"}), W({"++", "--"}),
        W({"=", "-", "+=", "<", "&&"}), W({"i", "c", "7"}) >>,
     << W({"++", "--", "~"}), W({"*", "-", "!"}), W({"p", "c", "h", "u"}),
        W({"=", "-", "<", "/", "?"}), W({"i", "6"}), The(<<":">>), W({"c"}) >>,
     (* short circuits and choices *)
     << W({"i", "c"}), W({"<", "-"}), W({"u", "0"}), W({"&&", "||"}), W({"g", "p"}), W({"&&", "||", "="}),
        W({"h", "0"}), W({"?", "|"}), W({"u", "c"}), W({":", "-"}), W({"i"}) >>,
     << The(<<"g", "?">>), W({"c", "p"}), The(<<"?">>), W({"i", "p"}), The(<<":">>), W({"c", "a", "0"}),
        The(<<":">>), W({"u", "p"}), W({"*", "+", "<"}), W({"h"}) >>,
     (* casts and sizes *)
     << The(<<"(">>), TypeNames, The(<<")">>), W({"-", "~", "++", "*"}), W({"i", "u", "p", "h"}),
        W({"/", ">>", "<"}), W({"c", "3"}) >>,
     << W({"6"}), W({"+", "/", "%", "<<", ">>"}), The(<<"(">>), TypeNames, The(<<")">>),
        W({"-", "~", "sizeof"}), W({"130", "c"}), W({"*", "-", "<"}), W({"2", "3u"}) >>,
     << W({"0", "127", "E"}), W(Binaries), W({"3", "0"}), W({"/", "-", "<<", "<", "&&", "?"}), W({"2", "255u"}),
        W({":", ","}), W({"i"}) >>,
     (* calls: arguments in registers, on the stack, calls inside calls *)
     << W({"f", "k"}), The(<<"(">>), W({"i", "c"}), W({"+", "=", "<"}), W({"g", "2"}), The(<<")">>),
        W({"-", "*", "<", "||"}), W({"u", "c"}) >>,
     << W({"u", "c", "1"}), W({"-", "*", "=", "&&", "+="}), The(<<"f", "(">>),
        Some({<<"f", "(", "i", "+", "g", ")">>, <<"c", "?", "i", ":", "f", "(", "g", ")">>, <<"g", "-", "i">>}),
        The(<<")">>), W({"*", "-", "||"}), W({"1", "i"}) >>,
     << W({"i", "2"}), W({"+", "*", "<"}), The(<<"s", "(">>), Some({<<"i">>, <<"i", "-", "g">>, <<"f", "(", "u", ")">>}),
        The(<<",">>), Some({<<"c">>, <<"f", "(", "4", ")", "-", "g">>, <<"f", "(", "f", "(", "c", ")", ")">>}),
        The(<<")">>), W({"-", "/"}), W({"u", "h"}) >>,
     << Some({<<"i", "-">>, <<"c", "*">>, <<"+">>}), The(<<"z", "(">>), Some({<<"i">>, <<"f", "(", "i", ")">>}),
        The(<<",", "u", ",", "7", ",">>), Some({<<"h", "+", "1">>, <<"f", "(", "c", ")">>}), The(<<",">>),
        Some({<<"g", "*", "u">>, <<"f", "(", "u", ")", "-", "c">>}), The(<<")">>), Some({<<"+", "c">>, <<"<", "f", "(", "g", ")">>}) >>
  >>

Conditions == Some({<<"i">>, <<"g", "<", "2">>, <<"f", "(", "1", ")">>, <<"c", "&&", "h", ">", "u">>, <<"0">>, <<"!", "u">>})
Effects == Some({<<";">>, <<"g", "=", "3", ";">>, <<"f", "(", "i", ")", ";">>, <<"return", "c", ";">>,
                <<"if", "(", "h", "<", "13", ")", "c", "=", "0", ";">>,
                <<"{", "i", "=", "u", ";", "h", "++", ";", "}">>})
CaseEffects == Some({<<";">>, <<"return", "c", ";">>, <<"{", "i", "=", "u", ";", "h", "++", ";", "}">>})
Rounds == Some({<<"g", "<", "7">>, <<"i", "--">>, <<"h", "++", "<", "14">>, <<"1">>, <<"0">>})
LoopBodies == Some({<<"g", "++", ";">>, <<"{", "g", "++", ";", "if", "(", "i", "<", "g", ")", "continue", ";", "h", "--", ";", "}">>,
                   <<"{", "if", "(", "g", "==", "2", ")", "break", ";", "g", "++", ";", "}">>,
                   <<"{", "if", "(", "h", "--", ")", "return", "i", ";", "}">>})
Acts == Some({<<"g", "=", "0">>, <<"*", "p", "=", "0">>, <<"p", "++">>, <<"*", "p", "++">>, <<"g", "=", "c", "=", "0">>,
              <<"a", "[", "i", ">", "4", "]", "+=", "h">>, <<"--", "c">>, <<"i", "&&", "f", "(", "u", ")">>})
(* Bodies of functions. *)
WholeBodies ==
  << << The(<<"{", "if", "(">>), Conditions, The(<<")">>), Effects, Some({<<"else">>, <<"g", "=", "5", ";">>}),
        Effects, Some({<<"return", "g", ";", "}">>, <<"}">>}) >>,
     << The(<<"{">>), Acts, The(<<";">>), Acts, The(<<";", "return", "i", ";", "}">>) >>,
     << The(<<"{", "while", "(">>), Rounds, The(<<")">>), LoopBodies, The(<<"return", "h", ";", "}">>) >>,
     << The(<<"{", "do">>), LoopBodies, The(<<"while", "(">>), Rounds, The(<<")", ";", "return", "h", ";", "}">>) >>,
     << The(<<"{", "for", "(">>), Some({<<>>, <<"c", "=", "0">>}), The(<<";">>), Rounds \cup Some({<<>>}), The(<<";">>),
        Some({<<>>, <<"i", "++">>, <<"c", "=", "f", "(", "g", "+", "1", ")">>}), The(<<")">>), LoopBodies,
        The(<<"return", "c", ";", "}">>) >>,
     << The(<<"{", "for", "(", ";", "g", "<", "7", ";", "g", "++", ")", "for", "(", "i", "=", "0", ";", "i", "<", "2", ";">>),
        Some({<<"i", "++">>, <<"i", "=", "i", "+", "1">>, <<"i", "+=", "1">>}), The(<<")">>), LoopBodies, The(<<"return", "c", ";", "}">>) >>,
     << The(<<"{", "switch", "(">>), Some({<<"g">>, <<"c", "-", "4">>, <<"f", "(", "1", ")">>}), The(<<")", "{", "case", "5", ":">>),
        CaseEffects, Some({<<"break", ";">>, <<>>}), Some({<<"default", ":">>, <<"case", "0", ":">>}), CaseEffects,
        Some({<<"break", ";">>, <<"case", "2", "+", "3", ":", "g", "--", ";">>, <<"default", ":", "h", "--", ";">>}),
        Some({<<"}", "return", "i", ";", "}">>, <<"}", "}">>}) >>,
     << The(<<"{", "while", "(", "g", "<", "7", ")", "{", "g", "++", ";", "switch", "(", "g", ")", "{">>),
        Some({<<"case", "1", ":">>, <<"default", ":">>, <<"case", "6", ":">>}), Some({<<"continue", ";">>, <<"break", ";">>, <<"i", "++", ";">>}),
        The(<<"case", "7", ":", "switch", "(", "i", ")", "{", "default", ":", "c", "=", "1", ";">>),
        Some({<<"case", "7", ":", "h", "=", "0", ";">>, <<"break", ";">>, <<"continue", ";">>}), The(<<"}">>),
        Some({<<"break", ";">>, <<"i", "=", "g", ";">>}), The(<<"}", "h", "++", ";", "}", "return", "i", ";", "}">>) >>,
     << The(<<"{">>), Some({<<"goto", "L", ";">>, <<"M", ":">>, <<"if", "(", "c", ")", "goto", "M", ";">>}),
        Some({<<"while", "(", "g", "<", "7", ")", "{">>, <<"{">>}), Some({<<"g", "++", ";">>, <<"f", "(", "g", ")", ";">>}),
        Some({<<"L", ":">>, <<>>}), Some({<<"i", "++", ";", "if", "(", "i", "<", "2", ")", "goto", "L", ";">>, <<"break", ";">>}),
        The(<<"}">>), Some({<<"M", ":">>, <<"if", "(", "g", "<", "7", ")", "goto", "M", ";">>}),
        Some({<<"return", "g", ";", "}">>, <<";", "}">>}) >>
  >>

(* Bodies with declarations.                                               *)
Scopes ==
  << (* names that hide others, and blocks that share the frame *)
     << The(<<"{">>), Some({<<"int", "x", "=", "i", ";">>, <<"char", "x", "=", "u", "-", "2", ";">>,
                           <<"unsigned", "x", "=", "255u", ",", "*", "y", "=", "&", "x", ";", "*", "y", "/=", "h", ";">>,
                           <<"static", "int", "x", "=", "3", ",", "g", "=", "2", ";">>}),
        The(<<"{">>), Some({<<"int", "x", "=", "2", ",", "y", "=", "x", "-", "i", ";", "x", "=", "y", ";">>,
                           <<"char", "x", ";", "char", "y", "=", "c", ";", "x", "=", "y", "++", ";", "q", "=", "x", ";">>,
                           <<"extern", "int", "g", ";", "int", "b", ";", "b", "=", "g", ";", "g", "=", "4", ";">>,
                           <<"int", "f", "(", "int", ")", ",", "*", "y", "=", "&", "q", ";", "*", "y", "=", "f", "(", "x", ")", ";">>}),
        Some({<<"g", "+=", "x", ";", "}">>, <<"{", "int", "g", "=", "7", ";", "x", "+=", "g", ";", "}", "h", "=", "x", ";", "}">>}),
        Some({<<"{", "int", "t", "=", "u", ";", "g", "-=", "t", ";", "}">>, <<"int", "t", "=", "f", "(", "x", "+", "g", ")", ";", "i", "=", "t", ";">>}),
        Some({<<"return", "x", ";", "}">>, <<"}">>}) >>,
     (* arrays and their first values *)
     << Some({<<"{">>, <<"{", "char", "t", "=", "1", ";">>}),
        Some({<<"int", "b", "[", "2", "]", "=", "{", "1", ",", "2", "}", ",", "t", "=", "5", ";">>,
              <<"int", "b", "[", "]", "=", "{", "4", ",", "-", "5", ",", "E", "*", "2", "}", ";">>,
              <<"int", "b", "[", "3", "]", "=", "{", "7", ",", "}", ";">>,
              <<"static", "int", "b", "[", "2", "]", "=", "{", "3", "}", ";">>,
              <<"int", "n", "=", "9", ",", "b", "[", "E", "-", "1", "]", ";", "b", "[", "0", "]", "=", "b", "[", "1", "]", "=", "n", ";">>,
              <<"static", "int", "*", "r", "=", "a", ",", "b", "[", "2", "]", ";", "r", "[", "1", "]", "--", ";">>}),
        Some({<<"b", "[", "0", "]", "+=", "i", ";">>, <<"int", "*", "y", "=", "b", ";", "*", "++", "y", "=", "u", ";">>,
              <<"for", "(", "int", "n", "=", "0", ";", "n", "<", "2", ";", "n", "++", ")", "b", "[", "n", "]", "-=", "n", ";">>}),
        The(<<"return", "b", "[", "1", "]", "-", "sizeof", "b", "*", "b", "[", "0", "]", ";", "}">>) >>,
     << The(<<"{">>), Some({<<"int", "b", "[", "2", "]", "[", "2", "]", "=", "{", "{", "1", ",", "2", "}", ",", "{", "3", "}", "}", ";">>,
                           <<"int", "t", "[", "2", "]", "=", "{", "6", ",", "1", "}", ",", "(", "*", "b", ")", "[", "2", "]", "=", "&", "t", ";">>,
                           <<"int", "*", "b", "[", "2", "]", ";", "b", "[", "0", "]", "=", "a", ";", "b", "[", "1", "]", "=", "&", "q", ";">>}),
        Some({<<"b", "[", "0", "]", "[", "1", "]", "=", "i", ";">>, <<"*", "b", "[", "0", "]", "+=", "c", ";">>}),
        Some({<<"return", "b", "[", "1", "]", "[", "0", "]", "-", "b", "[", "0", "]", "[", "1", "]", ";", "}">>,
              <<"return", "sizeof", "b", "-", "*", "*", "b", ";", "}">>}) >>,
     (* objects of loops and switches; functions *)
     << Some({<<"{", "for", "(", "int", "n", "=", "0", ",", "t", "=", "1", ";", "n", "<", "3", ";", "n", "++", ")", "{">>,
              <<"{", "unsigned", "n", "=", "3", ",", "t", "=", "0", ";", "while", "(", "n", "--", ")", "{">>}),
        Some({<<"static", "int", "r", ";", "r", "+=", "n", ";">>, <<"int", "r", "=", "n", ";", "r", "*=", "t", ";">>,
              <<"char", "r", "=", "n", "+", "6", ";", "t", "+=", "r", "++", ";">>,
              <<"static", "char", "r", "=", "13", ";", "if", "(", "r", "++", ">", "0", ")", "break", ";">>,
              <<"switch", "(", "n", ")", "{", "int", "r", ";", "case", "0", ":", "r", "=", "t", ";", "q", "-=", "r", ";", "break", ";", "default", ":", "continue", ";", "}", "int", "r", "=", "2", ";">>}),
        Some({<<"g", "+=", "r", ";", "}">>, <<"int", "t", "=", "f", "(", "r", ")", ";", "if", "(", "t", "<", "g", ")", "return", "n", ";", "g", "++", ";", "}">>}),
        Some({<<"return", "g", ";", "}">>, <<"}">>}) >>,
     << The(<<"{">>), Some({<<"int", "(", "*", "r", ")", "(", "int", ")", "=", "f", ";">>, <<"int", "f", "(", "int", ")", ",", "(", "*", "r", ")", "(", "int", "x", ")", ";", "r", "=", "&", "f", ";">>,
                           <<"static", "int", "(", "*", "r", ")", "(", "int", ")", "=", "f", ";">>}),
        Some({<<"q", "=", "r", "(", "i", ")", "-", "c", ";">>, <<"{", "int", "f", "=", "(", "*", "r", ")", "(", "2", ")", ";", "q", "=", "f", ";", "}">>}),
        The(<<"return", "r", "(", "q", ")", ";", "}">>) >>,
     (* what is refused *)
     << Some({<<"{">>, <<"{", "g", "++", ";">>}),
        Some({<<"void", "x", ";">>, <<"int", "x", "[", "]", ";">>, <<"static", "int", "x", "(", "int", ")", ";">>,
              <<"extern", "int", "x", "=", "3", ";">>, <<"int", "x", "[", "2", "]", "=", "3", ";">>,
              <<"int", "x", "[", "1", "]", "=", "{", "1", ",", "2", "}", ";">>, <<"int", "x", "[", "2", "]", "=", "{", "}", ";">>,
              <<"int", "x", "[", "0", "]", ";">>, <<"static", "int", "x", "=", "i", ";">>, <<"int", "x", "=", "{", "3", "}", ";">>,
              <<"void", "*", "x", ";">>, <<"int", ";">>, <<"int", "x", "[", "E", "]", ";">>, <<"static", "int", "*", "x", "=", "&", "g", ";">>,
              <<"int", "x", "(", "void", ")", ";">>, <<"extern", "int", "x", "[", "]", ";">>, <<"static", "char", "x", "=", "f", "(", "1", ")", ";">>}),
        The(<<"return", "i", ";", "}">>) >>
  >>

(* Functions that end with a loop whose body is not in braces.             *)
LoopsAtEnd ==
  << << The(<<"{", "while", "(">>), Rounds, The(<<")">>), Some({<<"return", "i", ";">>, <<"g", "++", ";">>}), The(<<"}">>) >> >>

MCForms == Values \o WholeBodies \o Scopes
MCBodies == (Len(Values) + 1)..Len(MCForms)
(* Only a function whose end can be reached is another one when it is main. *)
MCMains == {n \in MCBodies : \E text \in Last(MCForms[n]) : Op("return") \notin ToSet(text)}
================================================================================
