--------------------------- MODULE FileTableProofs ---------------------------
(***************************************************************************)
(* FileTable for every number of FILs, exits, disk errors and commands: a  *)
(* command keeps the files it has opened, a program can always be loaded,  *)
(* and while nothing went wrong no file stays open behind a command.       *)
(***************************************************************************)
EXTENDS FileTable, WellFoundedInduction, TLAPS

Fils == Mounts \cup {0, Garbage}

Globals ==
  [usingfile : SUBSET Slots, up_to_files : 0 .. ToolFiles, mount : 0 .. MaxExits + 1,
   fil : [Slots -> Fils], garbage : BOOLEAN]

(* A mount for every exit() since the last reset. *)
Inv ==
  /\ t \in Globals
  /\ t.up_to_files \in {MAX_USER_APP_FILE, ToolFiles}
  /\ run \in {"sh", "tool", "program", "exception"}
  /\ opened \subseteq Slots /\ written \subseteq opened
  /\ run \in {"sh", "exception"} => opened = {}
  /\ budget \in [exits : 0 .. MaxExits, errors : Int, commands : Int]
  /\ t.mount = MaxExits - budget.exits + 1

-----------------------------------------------------------------------------
(* Every set of FILs has a first one. *)
LEMMA MinOfNaturals ==
  ASSUME NEW S \in SUBSET Nat, S # {}
  PROVE  Min(S) \in S /\ \A y \in S : Min(S) <= y
<1> DEFINE R == OpToRel(<, Nat)
<1>1. IsWellFoundedOn(R, Nat)
  BY NatLessThanWellFounded
<1>2. \A x, y \in Nat : <<x, y>> \in R <=> x < y
  BY DEF OpToRel
<1> HIDE DEF R
<1>3. \E x \in S : \A y \in S : ~ (<<y, x>> \in R)
  BY <1>1, WFMin
<1>4. PICK x \in S : \A y \in S : ~ (<<y, x>> \in R)
  BY <1>3
<1>5. ASSUME NEW y \in S PROVE x <= y
  <2>1. x \in Nat /\ y \in Nat
    OBVIOUS
  <2>2. ~(y < x)
    BY <1>2, <1>4, <2>1, Zenon
  <2> QED BY <2>1, <2>2
<1> QED BY <1>4, <1>5 DEF Min

(* Where fcloseall() stops, and what it leaves. *)
LEMMA StopsAtFacts ==
  ASSUME NEW g \in Globals, NEW failing
  PROVE  StopsAt(g, failing) \in 0 .. ToolFiles
<1> DEFINE bad == {i \in InUse(g) : ~Valid(g, i) \/ i \in failing}
<1>1. InUse(g) \subseteq Slots /\ g.up_to_files \in 0 .. ToolFiles
  BY DEF Globals, InUse
<1>2. bad \in SUBSET Nat /\ bad \subseteq Slots
  BY <1>1 DEF Slots
<1>3. bad # {} => Min(bad) \in Slots
  <2> HIDE DEF bad
  <2> QED BY <1>2, MinOfNaturals
<1> QED BY <1>1, <1>3, SlotsAssumption DEF StopsAt, Slots

LEMMA CloseAllFacts ==
  ASSUME NEW g \in Globals, NEW failing, NEW c, c = FCloseAll(g, failing)
  PROVE  /\ c \in Globals
         /\ c.up_to_files = g.up_to_files /\ c.mount = g.mount
         /\ c.usingfile = g.usingfile \ {i \in InUse(g) : i <= StopsAt(g, failing)}
BY StopsAtFacts DEF FCloseAll, Globals, Fils

(* The FIL that fopen2() takes. *)
LEMMA FreeSlotFacts ==
  ASSUME NEW g \in Globals, FreeSlots(g) # {}
  PROVE  /\ Min(FreeSlots(g)) \in Slots
         /\ Min(FreeSlots(g)) \notin g.usingfile
         /\ Min(FreeSlots(g)) < g.up_to_files
<1>1. g.up_to_files \in 0 .. ToolFiles
  BY DEF Globals
<1>2. FreeSlots(g) \in SUBSET Nat
  BY <1>1 DEF FreeSlots
<1>3. Min(FreeSlots(g)) \in FreeSlots(g)
  BY <1>2, MinOfNaturals
<1> QED BY <1>1, <1>3, SlotsAssumption DEF FreeSlots, Slots

LEMMA MainFacts ==
  ASSUME NEW g \in Globals, g.mount <= MaxExits
  PROVE  /\ Main(g) \in Globals
         /\ Main(g).up_to_files = ToolFiles
         /\ Main(g).mount = g.mount + 1
<1>1. FsInit(g) \in Globals /\ FsInit(g).mount = g.mount + 1
  BY SlotsAssumption DEF FsInit, Globals
<1>2. /\ FCloseAll(FsInit(g), {}) \in Globals
      /\ FCloseAll(FsInit(g), {}).mount = g.mount + 1
  BY <1>1, CloseAllFacts
<1> QED BY <1>2, SlotsAssumption DEF Main, FramSet, Globals

LEMMA PowerOnFacts ==
  /\ PowerOn \in Globals /\ PowerOn.mount = 0
  /\ Main(PowerOn) \in Globals
  /\ Main(PowerOn).up_to_files = ToolFiles
  /\ Main(PowerOn).mount = 1
<1>1. PowerOn \in Globals /\ PowerOn.mount = 0
  BY SlotsAssumption DEF PowerOn, Globals, Fils
<1>2. PowerOn.mount <= MaxExits
  BY <1>1, SlotsAssumption
<1> QED BY <1>1, <1>2, MainFacts

(* Operations on a file change no more than the FIL and its bit. *)
LEMMA OpenFacts ==
  ASSUME NEW g \in Globals, g.mount \in Mounts, FreeSlots(g) # {},
         NEW i, i = Min(FreeSlots(g))
  PROVE  /\ i \in Slots /\ i \notin g.usingfile /\ i < g.up_to_files
         /\ FOpen(g, i) \in Globals /\ FOpenFails(g, i) \in Globals
         /\ \A h \in {FOpen(g, i), FOpenFails(g, i)} :
              h.up_to_files = g.up_to_files /\ h.mount = g.mount
<1>1. i \in Slots /\ i \notin g.usingfile /\ i < g.up_to_files
  BY FreeSlotFacts
<1> QED BY <1>1 DEF FOpen, FOpenFails, Globals, Fils

LEMMA CloseFacts ==
  ASSUME NEW g \in Globals, NEW i \in Slots
  PROVE  /\ FClose(g, i) \in Globals
         /\ FClose(g, i).up_to_files = g.up_to_files /\ FClose(g, i).mount = g.mount
BY DEF FClose, Globals, Fils

(* What the disk errors of a command take from the budget. *)
LEMMA CostFacts ==
  ASSUME NEW failing
  PROVE  Cost(failing) \in {0, 1} /\ (Cost(failing) = 0 => failing = {})
BY DEF Cost

LEMMA ChargeFacts ==
  ASSUME Inv, NEW failing, Charge(failing) \/ Command(failing)
  PROVE  /\ budget' \in [exits : 0 .. MaxExits, errors : Int, commands : Int]
         /\ budget'.exits = budget.exits
         /\ budget'.errors <= budget.errors
         /\ budget'.errors = budget.errors => failing = {}
<1> DEFINE c == Cost(failing)
<1>1. c \in {0, 1} /\ (c = 0 => failing = {})
  BY CostFacts
<1>2. \/ budget' = [budget EXCEPT !.errors = @ - c]
      \/ budget' = [budget EXCEPT !.commands = @ - 1, !.errors = @ - c]
  BY DEF Charge, Command
<1> HIDE DEF c
<1>3. budget \in [exits : 0 .. MaxExits, errors : Int, commands : Int]
  BY DEF Inv
<1>4. /\ budget' \in [exits : 0 .. MaxExits, errors : Int, commands : Int]
      /\ budget'.exits = budget.exits /\ budget'.errors = budget.errors - c
  <2> DEFINE e == budget.errors - c  k == budget.commands - 1
  <2>1. e \in Int /\ k \in Int
    BY <1>1, <1>3
  <2>2. \/ budget' = [budget EXCEPT !.errors = e]
        \/ budget' = [budget EXCEPT !.commands = k, !.errors = e]
    BY <1>2
  <2> HIDE DEF e, k
  <2>3. budget'.errors = e
    BY <1>3, <2>2
  <2>4. budget' \in [exits : 0 .. MaxExits, errors : Int, commands : Int]
        /\ budget'.exits = budget.exits
    BY <1>3, <2>1, <2>2
  <2> QED BY <2>3, <2>4 DEF e
<1>5. budget.errors \in Int
  BY <1>3
<1> QED BY <1>1, <1>4, <1>5

LEMMA NowFacts ==
  ASSUME Inv
  PROVE  /\ t \in Globals /\ t.mount \in Mounts
         /\ Now \in Globals /\ Now.up_to_files = t.up_to_files /\ Now.mount = t.mount
         /\ Now.usingfile = t.usingfile
<1>1. t \in Globals
  BY DEF Inv
<1>2. t.mount \in Mounts
  BY SlotsAssumption DEF Inv, Mounts
<1>3. /\ Now \in Globals /\ Now.up_to_files = t.up_to_files /\ Now.mount = t.mount
      /\ Now.usingfile = t.usingfile
  BY <1>1 DEF Now, Globals
<1> QED BY <1>1, <1>2, <1>3

-----------------------------------------------------------------------------
LEMMA InitInv == Init => Inv
<1> SUFFICES ASSUME Init PROVE Inv
  OBVIOUS
<1>1. budget \in [exits : 0 .. MaxExits, errors : Int, commands : Int]
  BY SlotsAssumption DEF Init
<1>2. t.mount = MaxExits - budget.exits + 1
  BY PowerOnFacts, SlotsAssumption DEF Init
<1> QED BY <1>1, <1>2, PowerOnFacts DEF Init, Inv

LEMMA InvStep == Inv /\ [Next]_vars => Inv'
<1> SUFFICES ASSUME Inv, [Next]_vars PROVE Inv'
  OBVIOUS
<1> USE SlotsAssumption
<1>0. /\ t \in Globals /\ t.mount \in Mounts
      /\ Now \in Globals /\ Now.up_to_files = t.up_to_files /\ Now.mount = t.mount
  BY NowFacts
<1>a. ASSUME NEW who, Goes(who)
      PROVE  run' \in {who, "exception"}
  BY <1>a DEF Goes
<1>b. ASSUME NEW g \in Globals, NEW n \in {MAX_USER_APP_FILE, ToolFiles}
      PROVE  /\ FramSet(g, n) \in Globals
             /\ FramSet(g, n).up_to_files = n /\ FramSet(g, n).mount = g.mount
  BY DEF FramSet, Globals
<1>1. CASE StartTool
  BY <1>0, <1>1, <1>b DEF StartTool, Inv
<1>c. ASSUME NEW failing
      PROVE  /\ Emptied(failing) \in Globals /\ Emptied(failing).mount = t.mount
             /\ Emptied(failing).up_to_files = MAX_USER_APP_FILE
  BY <1>0, <1>b, CloseAllFacts DEF Emptied
<1>2. CASE LoadProgram
  <2>1. PICK failing \in Failing(t) :
          LET g == Emptied(failing)
              i == Min(FreeSlots(g))
          IN FreeSlots(g) # {} /\ t' = FClose(LoadText(FOpen(g, i)), i) /\ Command(failing)
    BY <1>2 DEF LoadProgram
  <2> DEFINE g == Emptied(failing)  i == Min(FreeSlots(g))  h == FOpen(g, i)  l == LoadText(h)
  <2>2. FreeSlots(g) # {} /\ t' = FClose(l, i) /\ Command(failing)
    BY <2>1
  <2>3. g \in Globals /\ g.up_to_files = MAX_USER_APP_FILE /\ g.mount = t.mount
    BY <1>c
  <2> HIDE DEF g
  <2>4. i \in Slots /\ h \in Globals /\ h.up_to_files = g.up_to_files /\ h.mount = g.mount
    BY <1>0, <2>2, <2>3, OpenFacts
  <2> HIDE DEF i, h
  <2>5. l \in Globals /\ l.up_to_files = g.up_to_files /\ l.mount = g.mount
    BY <2>4 DEF LoadText, Globals, Fils
  <2> HIDE DEF l
  <2>6. /\ t' \in Globals /\ t'.up_to_files = MAX_USER_APP_FILE
        /\ t'.mount = t.mount
    BY <2>2, <2>3, <2>4, <2>5, CloseFacts
  <2>7. run' \in {"program", "exception"}
    BY <1>a, <1>2 DEF LoadProgram
  <2> QED BY <1>2, <2>2, <2>6, <2>7, ChargeFacts DEF LoadProgram, Inv
<1>11. CASE LoadFails
  <2>1. PICK failing \in Failing(t) :
          LET g == Emptied(failing)
              h == IF FreeSlots(g) = {} THEN g ELSE FOpenFails(g, Min(FreeSlots(g)))
          IN \E again \in IF failing = {} THEN Failing(h) ELSE {{}} :
               /\ t' = FramSet(FCloseAll(h, again), ToolFiles)
               /\ Command(failing \cup again)
    BY <1>11 DEF LoadFails
  <2> DEFINE g == Emptied(failing)
             h == IF FreeSlots(g) = {} THEN g ELSE FOpenFails(g, Min(FreeSlots(g)))
  <2>2. PICK again : /\ t' = FramSet(FCloseAll(h, again), ToolFiles)
                     /\ Command(failing \cup again)
    BY <2>1
  <2>3. g \in Globals /\ g.mount = t.mount
    BY <1>c
  <2> HIDE DEF g
  <2>4. h \in Globals /\ h.mount = t.mount
    BY <1>0, <2>3, OpenFacts
  <2> HIDE DEF h
  <2>5. t' \in Globals /\ t'.up_to_files = ToolFiles /\ t'.mount = t.mount
    BY <2>2, <2>4, <1>b, CloseAllFacts
  <2>6. run' \in {"sh", "exception"}
    BY <1>a, <1>11 DEF LoadFails
  <2> QED BY <1>11, <2>2, <2>5, <2>6, ChargeFacts DEF LoadFails, Inv
<1>3. CASE Open
  <2> DEFINE i == Min(FreeSlots(t))
  <2>1. /\ i \in Slots /\ t' = FOpen(t, i) /\ opened' = opened \cup {i}
        /\ written' \in {written, written \cup {i}} /\ t' \in Globals
        /\ t'.up_to_files = t.up_to_files /\ t'.mount = t.mount
        /\ run \in {"tool", "program"} /\ run' = run /\ budget' = budget
    BY <1>0, <1>3, OpenFacts DEF Open
  <2> HIDE DEF i
  <2> QED BY <2>1 DEF Inv
<1>4. CASE OpenFails
  <2>1. t' \in Globals /\ t'.up_to_files = t.up_to_files /\ t'.mount = t.mount
    BY <1>0, <1>4, OpenFacts DEF OpenFails
  <2> QED BY <1>4, <2>1 DEF OpenFails, Inv
<1>5. CASE Close
  <2>1. PICK i \in opened : /\ t' = FClose(t, i)
                            /\ opened' = opened \ {i} /\ written' = written \ {i}
    BY <1>5 DEF Close
  <2>2. t' \in Globals /\ t'.up_to_files = t.up_to_files /\ t'.mount = t.mount
    BY <1>0, <2>1, CloseFacts DEF Inv
  <2> QED BY <1>5, <2>1, <2>2 DEF Close, Inv
<1>6. CASE SmlrcReturns
  <2>1. t' \in Globals /\ t'.up_to_files = t.up_to_files /\ t'.mount = t.mount
    BY <1>0, <1>6, CloseAllFacts DEF SmlrcReturns
  <2>3. /\ budget' \in [exits : 0 .. MaxExits, errors : Int, commands : Int]
        /\ budget'.exits = budget.exits
    BY <1>6, ChargeFacts DEF SmlrcReturns, Inv
  <2>2. run' \in {"sh", "exception"}
    BY <1>6, <1>a DEF SmlrcReturns
  <2> QED BY <1>6, <2>1, <2>2, <2>3 DEF SmlrcReturns, Inv
<1>7. CASE Return
  <2>1. PICK failing \in Failing(t) : Charge(failing) /\ t' = FCloseAll(Now, failing)
    BY <1>7 DEF Return
  <2>2. t' \in Globals /\ t'.up_to_files = t.up_to_files /\ t'.mount = t.mount
    BY <1>0, <2>1, CloseAllFacts
  <2>3. /\ budget' \in [exits : 0 .. MaxExits, errors : Int, commands : Int]
        /\ budget'.exits = budget.exits
    BY <2>1, ChargeFacts
  <2>4. run' \in {"sh", "exception"}
    BY <1>7, <1>a DEF Return
  <2> QED BY <1>7, <2>2, <2>3, <2>4 DEF Return, Forget, Inv
<1>8. CASE Exit
  <2>1. /\ budget' \in [exits : 0 .. MaxExits, errors : Int, commands : Int]
        /\ budget'.exits = budget.exits - 1 /\ budget.exits > 0
    BY <1>8 DEF Exit, Inv
  <2>2. t.mount <= MaxExits
    BY <2>1 DEF Inv
  <2>3. t' \in Globals /\ t'.up_to_files = ToolFiles /\ t'.mount = t.mount + 1
    BY <1>0, <1>8, <2>2, MainFacts DEF Exit
  <2>4. run' \in {"sh", "exception"}
    BY <1>8, <1>a DEF Exit
  <2>5. t'.mount = MaxExits - budget'.exits + 1
    BY <2>1, <2>3 DEF Inv
  <2> QED BY <1>8, <2>1, <2>3, <2>4, <2>5 DEF Exit, Forget, Inv
<1>9. CASE Reset
  <2>1. /\ budget' \in [exits : 0 .. MaxExits, errors : Int, commands : Int]
        /\ budget'.exits = MaxExits
    BY <1>9 DEF Reset, Inv
  <2> QED BY <1>9, <2>1, PowerOnFacts DEF Reset, Forget, Inv
<1>10. CASE UNCHANGED vars
  BY <1>10 DEF vars, Inv
<1> QED BY <1>1, <1>2, <1>11, <1>3, <1>4, <1>5, <1>6, <1>7, <1>8, <1>9, <1>10 DEF Next

LEMMA InvHolds == Spec => []Inv
<1>1. Init => Inv               BY InitInv
<1>2. Inv /\ [Next]_vars => Inv' BY InvStep
<1> QED BY <1>1, <1>2, PTL DEF Spec

(* The globals of ff_wrap.c stay what they are declared to be. *)
THEOREM TypeHolds == Spec => []TypeOK
<1>1. Inv => TypeOK
  BY SlotsAssumption DEF Inv, TypeOK, Globals, Fils, Mounts
<1> QED BY <1>1, InvHolds, PTL

-----------------------------------------------------------------------------
LEMMA HandlesStep == Inv /\ HandlesValid /\ [Next]_vars => HandlesValid'
<1> SUFFICES ASSUME Inv, HandlesValid, [Next]_vars, NEW j \in opened'
             PROVE  (j \in t.usingfile /\ j < t.up_to_files /\ Valid(t, j))'
  BY DEF HandlesValid
<1>0. t \in Globals /\ t.mount \in Mounts /\ opened \subseteq Slots
  BY NowFacts DEF Inv
<1>1. CASE StartTool \/ LoadProgram \/ LoadFails
  <2>1. opened' = {}
    BY <1>1 DEF StartTool, LoadProgram, LoadFails, Inv
  <2> QED BY <2>1
<1>2. CASE SmlrcReturns
  BY <1>2 DEF SmlrcReturns
<1>3. CASE Return \/ Exit \/ Reset
  BY <1>3 DEF Return, Exit, Reset, Forget
<1>4. CASE Open
  <2> DEFINE i == Min(FreeSlots(t))
  <2>1. /\ i \in Slots /\ i < t.up_to_files
        /\ t' = FOpen(t, i) /\ opened' = opened \cup {i}
    BY <1>0, <1>4, OpenFacts DEF Open
  <2> HIDE DEF i
  <2> QED BY <1>0, <2>1 DEF HandlesValid, Valid, FOpen, Globals
<1>5. CASE OpenFails
  <2> DEFINE i == Min(FreeSlots(t))
  <2>1. /\ i \in Slots /\ i \notin t.usingfile
        /\ t' = FOpenFails(t, i) /\ opened' = opened
    BY <1>0, <1>5, OpenFacts DEF OpenFails
  <2> HIDE DEF i
  <2> QED BY <1>0, <2>1 DEF HandlesValid, Valid, FOpenFails, Globals
<1>6. CASE Close
  <2>1. PICK i \in opened : t' = FClose(t, i) /\ opened' = opened \ {i}
    BY <1>6 DEF Close
  <2> QED BY <1>0, <2>1 DEF HandlesValid, Valid, FClose, Globals
<1>7. CASE UNCHANGED vars
  BY <1>7 DEF vars, HandlesValid, Valid
<1> QED BY <1>1, <1>2, <1>3, <1>4, <1>5, <1>6, <1>7 DEF Next

(* A file the running command has open keeps its FIL, whatever was left      *)
(* marked open by commands before it.                                       *)
THEOREM HandlesValidHolds == Spec => []HandlesValid
<1>1. Init => HandlesValid
  BY DEF Init, HandlesValid
<1>2. Inv /\ HandlesValid /\ [Next]_vars => HandlesValid'
  BY HandlesStep
<1> QED BY <1>1, <1>2, InvHolds, PTL DEF Spec

(* aoutload() always finds a FIL: fcloseall() frees the first FIL in use    *)
(* even when it stops there.                                                *)
THEOREM ProgramFindsSlotHolds == Spec => []ProgramFindsSlot
<1>1. Inv => ProgramFindsSlot
  <2> SUFFICES ASSUME Inv, NEW failing \in Failing(t)
               PROVE  FreeSlots(Emptied(failing)) # {}
    BY DEF ProgramFindsSlot
  <2> DEFINE c == FCloseAll(Now, failing)
  <2>1. /\ c \in Globals
        /\ c.usingfile = t.usingfile \ {i \in InUse(Now) : i <= StopsAt(Now, failing)}
    BY NowFacts, CloseAllFacts
  <2>2. 0 \in t.usingfile => 0 \in InUse(Now)
    BY NowFacts, SlotsAssumption DEF Inv, InUse
  <2>3. 0 <= StopsAt(Now, failing)
    BY NowFacts, StopsAtFacts, SlotsAssumption
  <2>4. 0 \notin c.usingfile
    BY <2>1, <2>2, <2>3
  <2> HIDE DEF c
  <2>5. /\ FramSet(c, MAX_USER_APP_FILE).usingfile = c.usingfile
        /\ FramSet(c, MAX_USER_APP_FILE).up_to_files = MAX_USER_APP_FILE
    BY <2>1 DEF FramSet, Globals
  <2>6. 0 \in 0 .. MAX_USER_APP_FILE - 1
    BY SlotsAssumption
  <2>7. 0 \in FreeSlots(FramSet(c, MAX_USER_APP_FILE))
    BY <2>4, <2>5, <2>6 DEF FreeSlots
  <2> QED BY <2>7 DEF c, Emptied
<1> QED BY <1>1, InvHolds, PTL

-----------------------------------------------------------------------------
(* fcloseall() meets no FIL that it cannot close.                           *)
Closable(g) == \A i \in g.usingfile : i < g.up_to_files /\ Valid(g, i)

LEMMA ClosableFacts ==
  ASSUME NEW g \in Globals, Closable(g)
  PROVE  Closed(g, {}) = g.usingfile /\ FCloseAll(g, {}).usingfile = {}
<1>1. InUse(g) = g.usingfile
  BY DEF Closable, InUse, Globals, Slots
<1>2. {i \in InUse(g) : ~Valid(g, i) \/ i \in {}} = {}
  BY <1>1 DEF Closable
<1>3. StopsAt(g, {}) = g.up_to_files
  BY <1>2 DEF StopsAt
<1>4. \A i \in InUse(g) : i < g.up_to_files /\ i <= g.up_to_files
  BY <1>1 DEF Closable, Globals, Slots
<1>5. Closed(g, {}) = g.usingfile
  BY <1>1, <1>3, <1>4 DEF Closed
<1>6. FCloseAll(g, {}).usingfile = g.usingfile \ {i \in InUse(g) : i <= StopsAt(g, {})}
  BY CloseAllFacts
<1> QED BY <1>1, <1>3, <1>4, <1>5, <1>6

(* As long as nothing went wrong the files in use are those the running     *)
(* command has open.                                                        *)
Clean ==
  NothingWentWrong =>
    /\ ~lost
    /\ run = "sh" => t.usingfile = {}
    /\ run \in {"tool", "program"} => t.usingfile = opened

ErrorsSpent == budget.errors <= MaxDiskErrors

LEMMA PowerOnIsClean == Main(PowerOn).usingfile = {}
<1> DEFINE g == FsInit(PowerOn)
<1>0. PowerOn.usingfile = {}
  BY DEF PowerOn
<1>1. g.usingfile = {} /\ g \in Globals
  BY <1>0, SlotsAssumption, PowerOnFacts DEF FsInit, Globals
<1>2. FCloseAll(g, {}).usingfile = {} /\ FCloseAll(g, {}) \in Globals
  BY <1>1, ClosableFacts, CloseAllFacts DEF Closable
<1> QED BY <1>2 DEF Main, FramSet, Globals

LEMMA CleanInit == Init => Clean /\ ErrorsSpent
<1> SUFFICES ASSUME Init PROVE Clean /\ ErrorsSpent
  OBVIOUS
<1>1. Main(PowerOn).usingfile = {}
  BY PowerOnIsClean
<1> QED BY <1>1, SlotsAssumption DEF Init, Clean, ErrorsSpent

(* Only the reset gives back what exits and disk errors took. *)
LEMMA BudgetStep ==
  ASSUME Inv, [Next]_vars
  PROVE  budget'.errors <= budget.errors /\ (Reset \/ budget'.exits <= budget.exits)
<1> USE DEF Inv
<1>1. CASE StartTool \/ Exit \/ Reset \/ Open \/ OpenFails \/ Close \/ UNCHANGED vars
  BY <1>1, SlotsAssumption DEF StartTool, Exit, Reset, Open, OpenFails, Close, vars
<1>2. CASE LoadProgram
  BY <1>2, ChargeFacts DEF LoadProgram
<1>3. CASE LoadFails
  BY <1>3, ChargeFacts DEF LoadFails
<1>4. CASE Return
  BY <1>4, ChargeFacts DEF Return
<1>5. CASE SmlrcReturns
  BY <1>5, ChargeFacts DEF SmlrcReturns
<1> QED BY <1>1, <1>2, <1>3, <1>4, <1>5 DEF Next

LEMMA CleanStep ==
  ASSUME Inv, HandlesValid, Clean, ErrorsSpent, [Next]_vars
  PROVE  Clean' /\ ErrorsSpent'
<1>0. budget.errors \in Int /\ budget'.errors \in Int
  BY InvStep DEF Inv
<1>1. ErrorsSpent'
  BY <1>0, BudgetStep, SlotsAssumption DEF ErrorsSpent
<1> SUFFICES ASSUME NothingWentWrong', ~Reset
             PROVE  /\ ~lost'
                    /\ run' = "sh" => t'.usingfile = {}
                    /\ run' \in {"tool", "program"} => t'.usingfile = opened'
  <2>1. CASE Reset
    <3>1. t' = Main(PowerOn) /\ run' = "sh" /\ lost' = FALSE
      BY <2>1 DEF Reset
    <3> QED BY <3>1, <1>1, PowerOnIsClean DEF Clean
  <2> QED BY <1>1, <2>1 DEF Clean
<1>2. NothingWentWrong /\ budget'.errors = budget.errors /\ budget'.exits = budget.exits
  BY BudgetStep, SlotsAssumption DEF NothingWentWrong, ErrorsSpent, Inv
<1>3. /\ ~lost
      /\ run = "sh" => t.usingfile = {}
      /\ run \in {"tool", "program"} => t.usingfile = opened
  BY <1>2 DEF Clean
<1>4. /\ t \in Globals /\ t.mount \in Mounts
      /\ Now \in Globals /\ Now.up_to_files = t.up_to_files /\ Now.mount = t.mount
      /\ Now.usingfile = t.usingfile
  BY NowFacts
<1>5. Now.fil = t.fil
  BY <1>4 DEF Now, Globals
<1>6. CASE run \in {"tool", "program"}
  <2>1. /\ Closable(t) /\ Closable(Now)
        /\ FCloseAll(Now, {}).usingfile = {} /\ Closed(t, {}) = opened
    <3>1. Closable(t) /\ t.usingfile = opened
      BY <1>3, <1>6 DEF Closable, HandlesValid
    <3>2. Closable(Now)
      BY <1>4, <1>5, <3>1 DEF Closable, Valid
    <3> QED BY <1>3, <1>4, <1>6, <3>1, <3>2, ClosableFacts
  <2>2. CASE Open
    <3> DEFINE i == Min(FreeSlots(t))
    <3>1. /\ t' = FOpen(t, i) /\ opened' = opened \cup {i} /\ i \in Slots
          /\ run' = run /\ lost' = lost
      BY <1>4, <2>2, OpenFacts DEF Open
    <3> HIDE DEF i
    <3> QED BY <1>3, <1>4, <1>6, <3>1 DEF FOpen, Globals
  <2>3. CASE OpenFails
    BY <1>3, <1>4, <1>6, <2>3 DEF OpenFails, FOpenFails, Globals
  <2>4. CASE Close
    <3>1. PICK i \in opened : t' = FClose(t, i) /\ opened' = opened \ {i}
      BY <2>4 DEF Close
    <3>2. i \in t.usingfile /\ run' = run /\ lost' = lost
      BY <1>3, <1>6, <2>4 DEF Close
    <3> QED BY <1>3, <1>4, <1>6, <3>1, <3>2 DEF FClose, Globals
  <2>5. CASE SmlrcReturns
    <3>1. run' \in {"sh", "exception"} /\ lost' = lost /\ opened = {}
      BY <2>5 DEF SmlrcReturns, Goes
    <3>2. CASE t' = Now
      BY <1>3, <1>4, <1>6, <3>1, <3>2
    <3>3. CASE \E failing \in Failing(t) : t' = FCloseAll(Now, failing) /\ Charge(failing)
      BY <1>2, <1>3, <2>1, <3>1, <3>3, ChargeFacts
    <3> QED BY <2>5, <3>2, <3>3 DEF SmlrcReturns
  <2>6. CASE Return
    <3>1. PICK failing \in Failing(t) :
            /\ Charge(failing) /\ t' = FCloseAll(Now, failing)
            /\ lost' = (lost \/ ~(written \subseteq Closed(t, failing)))
      BY <2>6 DEF Return
    <3>2. failing = {}
      BY <1>2, <3>1, ChargeFacts
    <3>3. t'.usingfile = {} /\ ~lost'
      BY <1>3, <2>1, <3>1, <3>2 DEF Inv
    <3>4. run' \in {"sh", "exception"}
      BY <2>6 DEF Return, Goes
    <3> QED BY <3>3, <3>4
  <2>7. CASE Exit
    BY <1>2, <2>7 DEF Exit, NothingWentWrong, Inv
  <2>8. CASE UNCHANGED vars
    BY <1>3, <2>8 DEF vars
  <2> QED
    BY <1>6, <2>2, <2>3, <2>4, <2>5, <2>6, <2>7, <2>8
       DEF Next, StartTool, LoadProgram, LoadFails
<1>7. CASE run = "sh"
  <2>1. FCloseAll(Now, {}) \in Globals /\ FCloseAll(Now, {}).usingfile = {} /\ opened = {}
    BY <1>3, <1>4, <1>7, CloseAllFacts DEF Inv
  <2>2. CASE StartTool
    BY <1>3, <1>4, <1>7, <2>1, <2>2 DEF StartTool, FramSet, Globals
  <2> DEFINE g == Emptied({})
  <2>3. /\ g \in Globals /\ g.usingfile = {} /\ g.mount = t.mount
        /\ g.up_to_files = MAX_USER_APP_FILE
    BY <1>4, <2>1, CloseAllFacts, SlotsAssumption DEF Emptied, FramSet, Globals
  <2> HIDE DEF g
  <2>4. CASE LoadProgram
    <3> DEFINE i == Min(FreeSlots(g))  h == FOpen(g, i)  l == LoadText(h)
    <3>1. /\ FreeSlots(g) # {} /\ t' = FClose(l, i) /\ Goes("program")
          /\ lost' = lost /\ opened' = opened
      <4>1. PICK failing \in Failing(t) :
              LET f == Emptied(failing)
                  k == Min(FreeSlots(f))
              IN FreeSlots(f) # {} /\ t' = FClose(LoadText(FOpen(f, k)), k) /\ Command(failing)
        BY <2>4 DEF LoadProgram
      <4>2. failing = {}
        BY <1>2, <4>1, ChargeFacts
      <4> QED BY <2>4, <4>1, <4>2 DEF LoadProgram, g
    <3>2. h \in Globals /\ h.usingfile = {i}
      BY <1>4, <2>3, <3>1, OpenFacts DEF FOpen, Globals
    <3> HIDE DEF i, h
    <3>3. l.usingfile = {i} /\ l \in Globals
      BY <3>2 DEF LoadText, Globals, Fils
    <3> HIDE DEF l
    <3>4. t'.usingfile = {}
      BY <3>1, <3>3 DEF FClose, Globals
    <3> QED BY <1>3, <2>1, <3>1, <3>4 DEF Goes
  <2>5. CASE LoadFails
    <3> DEFINE h == IF FreeSlots(g) = {} THEN g ELSE FOpenFails(g, Min(FreeSlots(g)))
    <3>1. t' = FramSet(FCloseAll(h, {}), ToolFiles) /\ Goes("sh") /\ lost' = lost
      <4>1. PICK failing \in Failing(t) :
              LET f == Emptied(failing)
                  k == IF FreeSlots(f) = {} THEN f ELSE FOpenFails(f, Min(FreeSlots(f)))
              IN \E again \in IF failing = {} THEN Failing(k) ELSE {{}} :
                   /\ t' = FramSet(FCloseAll(k, again), ToolFiles)
                   /\ Command(failing \cup again)
        BY <2>5 DEF LoadFails
      <4> DEFINE f == Emptied(failing)
                 k == IF FreeSlots(f) = {} THEN f ELSE FOpenFails(f, Min(FreeSlots(f)))
      <4>2. PICK again : /\ t' = FramSet(FCloseAll(k, again), ToolFiles)
                         /\ Command(failing \cup again)
        BY <4>1
      <4>3. failing = {} /\ again = {}
        <5>1. failing \cup again = {}
          BY <1>2, <4>2, ChargeFacts
        <5> QED BY <5>1
      <4> QED BY <2>5, <4>2, <4>3 DEF LoadFails, g
    <3>2. h \in Globals /\ h.usingfile = {}
      BY <1>4, <2>3, OpenFacts DEF FOpenFails, Globals
    <3> HIDE DEF h
    <3>3. t'.usingfile = {}
      BY <3>1, <3>2, CloseAllFacts, SlotsAssumption DEF FramSet, Globals
    <3> QED BY <1>3, <3>1, <3>3 DEF Goes
  <2>6. CASE UNCHANGED vars
    BY <1>3, <2>6 DEF vars
  <2> QED
    BY <1>7, <2>2, <2>4, <2>5, <2>6
       DEF Next, Open, OpenFails, Close, SmlrcReturns, Return, Exit
<1>8. CASE run = "exception"
  BY <1>3, <1>8
     DEF Next, vars, StartTool, LoadProgram, LoadFails, Open, OpenFails, Close,
         SmlrcReturns, Return, Exit
<1> QED BY <1>6, <1>7, <1>8 DEF Inv

LEMMA CleanHolds == Spec => []Clean
<1>1. Init => Clean /\ ErrorsSpent /\ HandlesValid
  BY CleanInit DEF Init, HandlesValid
<1>2. Inv /\ HandlesValid /\ Clean /\ ErrorsSpent /\ [Next]_vars => Clean' /\ ErrorsSpent'
  BY CleanStep
<1> QED BY <1>1, <1>2, InvHolds, HandlesValidHolds, PTL DEF Spec

(* At the prompt no file is open, whatever the sizes the table had before,  *)
(* as long as no program called exit() and no close failed.                 *)
THEOREM ClosedAtPromptHolds == Spec => []ClosedAtPrompt
<1>1. Clean => ClosedAtPrompt
  BY DEF Clean, ClosedAtPrompt, AllFilesClosed
<1> QED BY <1>1, CleanHolds, PTL

(* ... and every file a command wrote to was closed by fcloseall().         *)
THEOREM WrittenIsKeptHolds == Spec => []WrittenIsKept
<1>1. Clean => WrittenIsKept
  BY DEF Clean, WrittenIsKept
<1> QED BY <1>1, CleanHolds, PTL
=============================================================================
