-------------------------------- MODULE Compiler --------------------------------
(***************************************************************************)
(* A function on its way through smlrc and onto the processor: its tokens  *)
(* are read, ParseStatement(), ParseExpr() and GenExpr0() turn its body    *)
(* into instructions, and those run.  What is read is the whole body, or   *)
(* an expression that then stands where its value is returned, where only  *)
(* its effects count, or where it decides a branch.                        *)
(***************************************************************************)
EXTENDS CStatements

CONSTANTS Parameters, \* of the function, in their brackets
          Forms,      \* what is read: sequences of sets of sequences of tokens
          Bodies,     \* the forms that are whole bodies
          Mains,      \* those of them that are also the body of main()
          Compiled(_),\* CompileFunction: a constant, as the coverage of TLC would
                      \* unfold the whole compiler wherever an action calls it
          Memories    \* what the cells of the variables hold before a run

VARIABLES form,       \* the form being read
          read,       \* how many of its parts have been read
          source,     \* their tokens
          use,        \* "body", or what becomes of the expression
          compiled,   \* what became of the function
          before,     \* the memory when it is called
          ran,        \* what can be seen of the run
          phase
vars == <<form, read, source, use, compiled, before, ran, phase>>

NoMemory == CHOOSE mem \in Memories : TRUE
Nothing == [code |-> <<>>, err |-> FALSE, data |-> <<>>, copy |-> ""]
Seen(s, mem) == [v0 |-> s.reg[V0], sp |-> s.reg[SP], fp |-> s.reg[FP], back |-> s.back,
                 mem |-> [a \in DOMAIN mem |-> s.mem[a]], calls |-> s.calls, bad |-> s.bad]
NothingRan == Seen(Start(Nothing, NoMemory), NoMemory)

Init == /\ form \in DOMAIN Forms
        /\ read = 0 /\ source = <<>> /\ use = "body"
        /\ compiled = Nothing
        /\ before = NoMemory /\ ran = NothingRan /\ phase = "reading"

ReadTokens == /\ phase = "reading"
              /\ read < Len(Forms[form])
              /\ read' = read + 1
              /\ \E tokens \in Forms[form][read + 1] : source' = source \o tokens
              /\ UNCHANGED <<form, use, compiled, before, ran, phase>>

AllRead == phase = "reading" /\ read = Len(Forms[form])
Uses == {how \in {"body", "main", "value"} :
           CASE how = "body" -> form \in Bodies
             [] how = "main" -> form \in Mains
             [] how = "value" -> form \notin Bodies}
Function(src, how) ==
  <<Op("int"), Tok("id", IF how = "main" THEN "main" ELSE "F")>> \o Parameters
  \o (IF how # "value" THEN src ELSE <<Op("{"), Op("return")>> \o src \o <<Op(";"), Op("}")>>)

Compile == /\ AllRead
           /\ form \notin Bodies => Balanced(source)
           /\ \E how \in Uses :
                LET c == Compiled(Function(source, how))
                IN  /\ use' = how
                    /\ compiled' = c
                    /\ phase' = IF c.err THEN "refused" ELSE "compiled"
           /\ UNCHANGED <<form, read, source, before, ran>>

RunCode == /\ phase = "compiled"
           /\ \E mem \in Memories :
                /\ before' = mem
                /\ ran' = LET s == Execute(compiled, mem) IN Seen(s, mem)
           /\ phase' = "done"
           /\ UNCHANGED <<form, read, source, use, compiled>>

(* Compiler and program leave the memory; a source whose brackets do not   *)
(* match is not compiled.                                                  *)
Leave == /\ \/ phase \in {"refused", "done"}
            \/ AllRead /\ form \notin Bodies /\ ~Balanced(source)
         /\ phase' = "left" /\ read' = 0 /\ source' = <<>> /\ use' = "body"
         /\ compiled' = Nothing /\ before' = NoMemory /\ ran' = NothingRan
         /\ UNCHANGED form

Finished == phase = "left" /\ UNCHANGED vars

Next == ReadTokens \/ Compile \/ RunCode \/ Leave \/ Finished
Spec == Init /\ [][Next]_vars
--------------------------------------------------------------------------------
SameMemory(mem, means) ==
  \A a \in DOMAIN mem : IF a \in CharCells THEN ZeroExtended(mem[a]) = ZeroExtended(means[a])
                         ELSE mem[a] = means[a]
SameCalls(s, t, loose) == IF loose THEN Len(s) = Len(t) /\ ToSet(s) = ToSet(t) ELSE s = t

(* What a function that ends leaves in memory, the calls it makes with     *)
(* their arguments, and the value it returns are what its source means; it *)
(* goes back to its caller, with the stack as it was.                      *)
CodeMeansSource ==
  [][phase = "done" =>
       LET means == Behaviour(Function(source, use), before)
           s == ran
       IN  means.ends /\ ~means.ub =>
             /\ ~s.bad
             /\ SameMemory(s.mem, means.mem)
             /\ SameCalls(s.calls, means.calls, means.loose)
             /\ s.back = ReturnTo /\ s.sp = StackTop /\ s.fp = CallerFP
             /\ means.gives => s.v0 = means.val
             /\ use = "main" /\ ~means.gives => s.v0 = 0]_vars

(* A return statement is the last thing a function does: whatever it is    *)
(* inside of, its value is the one the caller gets.                        *)
ReturnLeaves ==
  [][phase = "done" =>
       LET means == Behaviour(Function(source, use), before)
       IN  means.ends /\ ~means.ub /\ means.gives =>
             ran.back = ReturnTo /\ ran.v0 = means.val /\ SameMemory(ran.mem, means.mem)]_vars

(* What C does not allow: a function with a label, jump, case or           *)
(* declaration that is out of place is refused, and no other one is; and   *)
(* no expression is refused that has a meaning.                            *)
RefusedIsIllTyped ==
  [][LET src == Function(source, use)
     IN  IF form \in Bodies
         THEN /\ phase = "refused" => ~WellFormed(src)
              /\ phase = "compiled" => WellFormed(src)
         ELSE phase = "refused" => Behaviour(src, NoMemory).ill]_vars
================================================================================
