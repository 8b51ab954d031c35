------------------------------ MODULE FileTable ------------------------------
(***************************************************************************)
(* ff_wrap.c through the life of a command: the table of FILs at ARAM, the *)
(* bits of usingfile, and the callers that move the table, open, close and *)
(* abandon files: _main(), sh(), cc(), the tools (smlrc, as, ld),          *)
(* aoutload(), user programs, and exit(), which enters main() again with   *)
(* every global as it is.                                                  *)
(*                                                                         *)
(* FatFs is as ff_wrap.c uses it: a mount gives the volumes a new id, an   *)
(* open FIL has the id it was opened under, f_close() fails on a FIL of an *)
(* earlier mount.  Only one command runs at a time.                        *)
(***************************************************************************)
EXTENDS Integers, FiniteSetsExt

CONSTANTS
  ToolFiles,            \* 10, the table of the shell and of the tools
  MAX_USER_APP_FILE,    \* 2, the table of a user program
  MaxExits,             \* exit() calls between two resets
  MaxDiskErrors,        \* f_close() that cannot flush
  MaxCommands           \* commands of one session

ASSUME SlotsAssumption ==
  /\ MAX_USER_APP_FILE \in Nat /\ MAX_USER_APP_FILE > 0
  /\ ToolFiles \in Nat /\ ToolFiles >= MAX_USER_APP_FILE
  /\ MaxExits \in Nat /\ MaxDiskErrors \in Nat /\ MaxCommands \in Nat

VARIABLES
  t,         \* the globals of ff_wrap.c, the FILs and the mount
  run,       \* who runs: nobody, the shell, a tool, a program; cc()'s chain
  opened,    \* the FILs the running command has open
  written,   \* those of them it has written to
  lost,      \* since the reset a command returned and a file it wrote was
             \* not closed
  budget

vars == <<t, run, opened, written, lost, budget>>

Slots == 0 .. ToolFiles - 1

(* A FIL: the id of the mount it was opened under, 0 when it is closed,     *)
(* Garbage when a program was loaded over it.                               *)
Garbage == -1
Mounts == 1 .. MaxExits + 1

-----------------------------------------------------------------------------
(* Functions of ff_wrap.c on the globals g. *)
Valid(g, i) == g.fil[i] = g.mount

(* f_mount() of both volumes. *)
FsInit(g) == [g EXCEPT !.mount = @ + 1]

FramSet(g, number) == [g EXCEPT !.up_to_files = number]

FreeSlots_All(g) == Slots \ g.usingfile     \* faulty variant: no limit
FreeSlots(g) == (0 .. g.up_to_files - 1) \ g.usingfile
InUse_ButLast(g) == g.usingfile \cap (0 .. g.up_to_files - 2)   \* faulty variant
InUse(g) == g.usingfile \cap (0 .. g.up_to_files - 1)

(* fopen2() of a file that is there.                                        *)
FOpen(g, i) == [g EXCEPT !.usingfile = @ \cup {i}, !.fil[i] = g.mount]

(* f_open() clears the FIL before it looks for the file. *)
FOpenFails(g, i) == [g EXCEPT !.fil[i] = 0]

FClose(g, i) ==
  IF i \notin g.usingfile THEN g
  ELSE [g EXCEPT !.usingfile = @ \ {i},
                 !.fil[i] = IF Valid(g, i) THEN 0 ELSE @]

(* Faulty variant: stops in front of the FIL that fails.                    *)
StopsAt_BitStays(g, failing) ==
  LET bad == {i \in InUse(g) : ~Valid(g, i) \/ i \in failing}
  IN IF bad = {} THEN g.up_to_files ELSE Min(bad) - 1
(* fcloseall() stops behind the first FIL whose close fails. *)
StopsAt(g, failing) ==
  LET bad == {i \in InUse(g) : ~Valid(g, i) \/ i \in failing}
  IN IF bad = {} THEN g.up_to_files ELSE Min(bad)

Closed_AllButLast(g, failing) ==     \* faulty variant: the loop ends early
  {i \in InUse(g) : i < StopsAt(g, failing) - 1}
Closed(g, failing) == {i \in InUse(g) : i < StopsAt(g, failing)}

FCloseAll(g, failing) ==
  LET stop == StopsAt(g, failing)
  IN [g EXCEPT
        !.usingfile = @ \ {i \in InUse(g) : i <= stop},
        !.fil = [i \in Slots |-> IF i \in Closed(g, failing) THEN 0 ELSE @[i]],
        !.garbage = @ \/ (stop \in Slots /\ stop \in InUse(g) /\ g.fil[stop] = Garbage)]

(* aoutload(): the program's text and data lie behind its own FILs. *)
LoadText(g) ==
  [g EXCEPT !.fil = [i \in Slots |-> IF i < MAX_USER_APP_FILE THEN @[i] ELSE Garbage]]

(* _main(), at power on and from exit(). *)
Main(g) == FramSet(FCloseAll(FsInit(g), {}), ToolFiles)

(* The FILs in use whose close meets a disk error: one at most in a call.   *)
Failing(g) == IF budget.errors = 0 THEN {{}} ELSE {{}} \cup {{i} : i \in InUse(g)}

(* Closing a FIL that program text lies over follows a pointer that is      *)
(* none: f_close() finds it invalid, or the CPU takes an exception and      *)
(* blue_screen() waits for the reset button.                                *)
Now == [t EXCEPT !.garbage = FALSE]
Goes(who) == run' \in {who} \cup (IF t'.garbage THEN {"exception"} ELSE {})

Cost(failing) == IF failing = {} THEN 0 ELSE 1
Charge(failing) == budget' = [budget EXCEPT !.errors = @ - Cost(failing)]
Command(failing) ==
  budget' = [budget EXCEPT !.commands = @ - 1, !.errors = @ - Cost(failing)]

-----------------------------------------------------------------------------
PowerOn ==
  [usingfile |-> {}, up_to_files |-> 0, mount |-> 0, garbage |-> FALSE,
   fil |-> [i \in Slots |-> Garbage]]

Init ==
  /\ t = Main(PowerOn)
  /\ run = "sh"
  /\ opened = {} /\ written = {}
  /\ lost = FALSE
  /\ budget = [exits |-> MaxExits, errors |-> MaxDiskErrors, commands |-> MaxCommands]

Forget == opened' = {} /\ written' = {}

(* sh() runs a tool, by itself or through cc(); each begins with            *)
(* fframset(ARAM,10) and nothing else.                                      *)
StartTool ==
  /\ run = "sh" /\ budget.commands > 0
  /\ budget' = [budget EXCEPT !.commands = @ - 1]
  /\ t' = FramSet(Now, ToolFiles)
  /\ run' = "tool"
  /\ UNCHANGED <<opened, written, lost>>

(* aoutload() closes all, with the errors that meets, and shrinks the table. *)
Emptied(failing) == FramSet(FCloseAll(Now, failing), MAX_USER_APP_FILE)

(* aoutload(): find the program, read it over the old table.                *)
LoadProgram ==
  /\ run = "sh" /\ budget.commands > 0
  /\ \E failing \in Failing(t) :
       LET g == Emptied(failing)
           i == Min(FreeSlots(g))
       IN /\ FreeSlots(g) # {}
          /\ t' = FClose(LoadText(FOpen(g, i)), i)
          /\ Command(failing)
  /\ Goes("program")
  /\ UNCHANGED <<opened, written, lost>>

(* There is no such program, or no FIL for it: all is closed once more.     *)
LoadFails ==
  /\ run = "sh" /\ budget.commands > 0
  /\ \E failing \in Failing(t) :
       LET g == Emptied(failing)
           h == IF FreeSlots(g) = {} THEN g ELSE FOpenFails(g, Min(FreeSlots(g)))
       IN \E again \in IF failing = {} THEN Failing(h) ELSE {{}} :
            /\ t' = FramSet(FCloseAll(h, again), ToolFiles)
            /\ Command(failing \cup again)
  /\ Goes("sh")
  /\ UNCHANGED <<opened, written, lost>>

(* The tool or the program opens a file, to read or to write. *)
Open ==
  /\ run \in {"tool", "program"} /\ FreeSlots(t) # {}
  /\ LET i == Min(FreeSlots(t)) IN
       /\ t' = FOpen(t, i)
       /\ opened' = opened \cup {i}
       /\ written' \in {written, written \cup {i}}
  /\ UNCHANGED <<run, lost, budget>>

OpenFails ==
  /\ run \in {"tool", "program"} /\ FreeSlots(t) # {}
  /\ t' = FOpenFails(t, Min(FreeSlots(t)))
  /\ UNCHANGED <<run, opened, written, lost, budget>>

Close ==
  /\ run \in {"tool", "program"}
  /\ \E i \in opened :
       /\ t' = FClose(t, i)
       /\ opened' = opened \ {i} /\ written' = written \ {i}
  /\ UNCHANGED <<run, lost, budget>>

(* smlrc returns with its files closed; after it cc() closes all.           *)
SmlrcReturns ==
  /\ run = "tool" /\ opened = {}
  /\ \/ t' = Now /\ UNCHANGED budget
     \/ \E failing \in Failing(t) : t' = FCloseAll(Now, failing) /\ Charge(failing)
  /\ Goes("sh")
  /\ UNCHANGED <<opened, written, lost>>

(* as and ld leave the closing to fcloseall(), aoutload() closes for the    *)
(* program.                                                                 *)
Return ==
  /\ run \in {"tool", "program"}
  /\ \E failing \in Failing(t) :
       /\ Charge(failing)
       /\ t' = FCloseAll(Now, failing)
       /\ lost' = (lost \/ ~(written \subseteq Closed(t, failing)))
  /\ Goes("sh")
  /\ Forget

(* exit() of a tool that met an error, or of a program: main() again.       *)
Exit ==
  /\ run \in {"tool", "program"} /\ budget.exits > 0
  /\ budget' = [budget EXCEPT !.exits = @ - 1]
  /\ t' = Main(Now)
  /\ Goes("sh")
  /\ Forget
  /\ UNCHANGED lost

(* The reset button, at any time: start-up code clears the globals, the RAM *)
(* that holds the FILs keeps what it held.                                  *)
Reset ==
  /\ t' = Main(PowerOn)
  /\ run' = "sh"
  /\ budget' = [budget EXCEPT !.exits = MaxExits]
  /\ Forget
  /\ lost' = FALSE

Next ==
  \/ StartTool \/ LoadProgram \/ LoadFails
  \/ Open \/ OpenFails \/ Close
  \/ SmlrcReturns \/ Return \/ Exit
  \/ Reset

Spec == Init /\ [][Next]_vars

-----------------------------------------------------------------------------
TypeOK ==
  /\ t.usingfile \subseteq Slots
  /\ t.up_to_files \in {MAX_USER_APP_FILE, ToolFiles}
  /\ t.mount \in Mounts
  /\ t.fil \in [Slots -> Mounts \cup {0, Garbage}]
  /\ run \in {"sh", "tool", "program", "exception"}
  /\ opened \subseteq Slots /\ written \subseteq opened

(* A file the running command has open keeps its FIL: it is marked, within  *)
(* the table, of this mount, and no program text lies over it.              *)
HandlesValid ==
  \A i \in opened : i \in t.usingfile /\ i < t.up_to_files /\ Valid(t, i)

(* Whatever exits and disk errors came before and come now, aoutload() finds *)
(* a FIL for the program it loads: its fcloseall() frees the lowest one in   *)
(* use even when it stops there.                                            *)
ProgramFindsSlot ==
  run = "sh" => \A failing \in Failing(t) : FreeSlots(Emptied(failing)) # {}

(* No file is open at the prompt: main() and aoutload() close all files.    *)
AllFilesClosed == run = "sh" => t.usingfile = {}

(* As long as every command since the reset returned and every close        *)
(* succeeded, no file is open at the prompt, whatever the table sizes were   *)
(* in between.                                                              *)
NothingWentWrong == budget.exits = MaxExits /\ budget.errors = MaxDiskErrors
ClosedAtPrompt == NothingWentWrong => AllFilesClosed

(* ... and what a command wrote was closed, hence flushed, when it returned. *)
WrittenIsKept == NothingWentWrong => ~lost

=============================================================================
