----------------------------- MODULE Ps2Receive -----------------------------
(***************************************************************************)
(* How bytes come from the PS/2 keyboard: the keyboard clocks eleven bits, *)
(* the DMA channel records DAT at each falling edge of CLK into a ring,    *)
(* T5Handler drains the ring every 100us through ps2receive(), asks for a  *)
(* byte again after an error, and gives up on a frame that stops.          *)
(* ps2init() calls ps2command() too, in the program, where T5Handler can   *)
(* come between any two accesses to dma_readpt.                            *)
(*                                                                         *)
(* What follows the start of a command is module Ps2Command; here the      *)
(* exchange with the keyboard is one phase that ends as checked there: the *)
(* driver listens again.  The ring records rising edges as well, which     *)
(* ps2receive() skips; they are left out, and the ring has half the size.  *)
(***************************************************************************)
EXTENDS Integers, Sequences, FiniteSets

CONSTANTS
  PS2DMABUFSIZE,          \* samples of falling edges in the ring
  PS2TIME_PRESEND, PS2TIME_RECEIVETIMEOUT,
  Bytes,                  \* what the keyboard sends: eight bits, lowest first
  LockByte,               \* the one that makes readscancode() set the LEDs
  Gaps,                   \* periods of Timer5 between two frames
  MaxBytes, MaxFlips, MaxLost, MaxCalls

ASSUME LineAssumption ==
  /\ Bytes \subseteq [1 .. 8 -> {0, 1}] /\ LockByte \in Bytes
  /\ {PS2DMABUFSIZE, PS2TIME_PRESEND, PS2TIME_RECEIVETIMEOUT} \cup Gaps \subseteq Nat \ {0}
  /\ {MaxBytes, MaxFlips, MaxLost, MaxCalls} \subseteq Nat
  /\ PS2DMABUFSIZE > 2              \* what comes between two T5Handlers; 8 in the code
  /\ PS2TIME_RECEIVETIMEOUT >= 10   \* a frame of one bit a period; 20 in the code

VARIABLES
  rx,       \* receivecount, receivedata, ps2receiveError, ps2receivetime, and
            \* the bytes received so far
  dma,      \* the channel: its ring, DCH3DPTR, and dma_readpt
  cmd,      \* ps2status, of a command: none, before it starts, under way, sent
  prog,     \* where ps2init() is in its call of ps2command(), and whether
            \* T5Handler has come in that call
  kbd,      \* the keyboard: what it sends, what it has sent
  raced,    \* T5Handler came while ps2init() was draining the ring
  budget

vars == <<rx, dma, cmd, prog, kbd, raced, budget>>

-----------------------------------------------------------------------------
(* ps2receive() of a falling edge. *)
Ones(b) == Cardinality({i \in 1 .. 8 : b[i] = 1})
OddParity(b, d) == (Ones(b) + d) % 2 = 1
Error(g) == [g EXCEPT !.receiveError = TRUE]

(* Between two frames; nothing reads ps2receivetime then. *)
Between(g) == [g EXCEPT !.receivecount = 0, !.receivetime = 0]

(* Faulty variant: the parity is not looked at. *)
Receive_NoParity(g, d) ==
  CASE g.receiveError -> g
    [] ~g.receiveError /\ g.receivecount = 0 ->
         IF d = 1 THEN Error(g) ELSE [g EXCEPT !.receivecount = 1, !.receivetime = 0]
    [] ~g.receiveError /\ g.receivecount \in 1 .. 8 ->
         [g EXCEPT !.receivedata = Append(Tail(@), d), !.receivecount = @ + 1]
    [] ~g.receiveError /\ g.receivecount = 9 -> [g EXCEPT !.receivecount = 10]
    [] ~g.receiveError /\ g.receivecount = 10 ->
         IF d = 0 THEN Error(g)
         ELSE [Between(g) EXCEPT !.got = Append(@, g.receivedata)]

Receive(g, d) ==
  CASE g.receiveError -> g
    [] ~g.receiveError /\ g.receivecount = 0 ->
         IF d = 1 THEN Error(g) ELSE [g EXCEPT !.receivecount = 1, !.receivetime = 0]
    [] ~g.receiveError /\ g.receivecount \in 1 .. 8 ->
         [g EXCEPT !.receivedata = Append(Tail(@), d), !.receivecount = @ + 1]
    [] ~g.receiveError /\ g.receivecount = 9 ->
         IF OddParity(g.receivedata, d) THEN [g EXCEPT !.receivecount = 10] ELSE Error(g)
    [] ~g.receiveError /\ g.receivecount = 10 ->
         IF d = 0 THEN Error(g)
         ELSE [Between(g) EXCEPT !.got = Append(@, g.receivedata)]

(* The samples from dma_readpt to DCH3DPTR, round the ring.                 *)
Unread == (dma.DPTR - dma.readpt) % PS2DMABUFSIZE
Samples == [i \in 1 .. Unread |-> dma.data[(dma.readpt + i - 1) % PS2DMABUFSIZE]]
GetDMABUFdata(g) ==
  LET read[n \in 0 .. Unread] == IF n = 0 THEN g ELSE Receive(read[n - 1], Samples[n])
  IN read[Unread]

-----------------------------------------------------------------------------
NoCommand == [phase |-> "none", resend |-> FALSE, count |-> 0]
Start(resend) == [phase |-> "presend", resend |-> resend, count |-> PS2TIME_PRESEND]
NotSending == -1

Init ==
  /\ rx = [receivecount |-> 0, receivedata |-> [i \in 1 .. 8 |-> 0],
           receiveError |-> FALSE, receivetime |-> 0, got |-> <<>>]
  /\ dma = [on |-> TRUE, data |-> [i \in 0 .. PS2DMABUFSIZE - 1 |-> 0],
            DPTR |-> 0, readpt |-> 0]
  /\ cmd = NoCommand
  /\ prog = [at |-> "idle", readpt |-> 0, cut |-> FALSE]
  /\ kbd = [pos |-> NotSending, sent |-> <<>>, again |-> FALSE, clean |-> TRUE,
            edges |-> 0, quiet |-> 0]
  /\ raced = FALSE
  /\ budget = [flips |-> MaxFlips, lost |-> MaxLost, calls |-> MaxCalls]

(* The end of a T5Handler's work on the bytes: a lock key among the new      *)
(* ones has its LED command started.                                        *)
NewLock(g) == \E i \in Len(rx.got) + 1 .. Len(g.got) : g.got[i] = LockByte

Drained == [dma EXCEPT !.readpt = dma.DPTR]

Progress == [cmd EXCEPT !.count = IF @ = 0 THEN 0 ELSE @ - 1]
SendStart == cmd.phase = "presend" /\ cmd.count = 1

(* A command that starts in the middle of a frame resets the count.         *)
ResetCount(g) == IF SendStart THEN Between(g) ELSE g

ReceiveTimeout_Never(g) == g    \* faulty variant
ReceiveTimeout(g) ==
  CASE g.receivecount = 0 -> g
    [] g.receivecount # 0 /\ g.receivetime < PS2TIME_RECEIVETIMEOUT ->
         [g EXCEPT !.receivetime = @ + 1]
    [] g.receivecount # 0 /\ g.receivetime >= PS2TIME_RECEIVETIMEOUT ->
         Between(g)

(* SENDING, when the byte is out: a command other than RESEND clears the     *)
(* error.                                                                   *)
ClearError(g) == IF cmd.phase = "sent" /\ ~cmd.resend
                 THEN [g EXCEPT !.receiveError = FALSE] ELSE g

(* ps2command() in the interrupt: gives up while another command is there.  *)
Command_Forgets(status, resend) == NoCommand    \* faulty variant
Command(status, resend) == IF status.phase = "none" THEN Start(resend) ELSE status

(* T5Handler: drain, the command's phase, the timeout of a frame, the error, *)
(* the new bytes.  A call of ps2command() takes less than a period.         *)
T5Handler ==
  /\ prog.at # "hung"
  /\ dma.readpt \in 0 .. PS2DMABUFSIZE - 1
  /\ kbd.pos # NotSending => kbd.edges > 0
  /\ LET g == ReceiveTimeout(ClearError(ResetCount(GetDMABUFdata(rx))))
         status == CASE SendStart -> [cmd EXCEPT !.phase = "exchange", !.count = 0]
                     [] cmd.phase = "sent" -> NoCommand
                     [] ~SendStart /\ cmd.phase # "sent" -> Progress
         asked == IF g.receiveError THEN Command(status, TRUE) ELSE status
         after == IF NewLock(g) THEN Command(asked, FALSE) ELSE asked
     IN /\ rx' = [g EXCEPT !.receiveError = FALSE]
        /\ cmd' = after
        /\ dma' = [Drained EXCEPT !.on = @ /\ after.phase \notin {"presend", "exchange"}]
        /\ kbd' = [kbd EXCEPT
                     !.edges = 0,
                     !.quiet = IF kbd.pos # NotSending THEN 0
                               ELSE IF @ > PS2TIME_RECEIVETIMEOUT + 1 THEN @ ELSE @ + 1,
                     !.pos = IF SendStart THEN NotSending ELSE @,
                     !.again = @ \/ (SendStart /\ kbd.pos # NotSending)]
  /\ prog.at # "idle" => ~prog.cut
  /\ prog' = [prog EXCEPT !.cut = prog.at # "idle"]
  /\ raced' = (raced \/ prog.at \in {"test", "read", "load", "store", "wrap"})
  /\ UNCHANGED budget

(* With dma_readpt past the ring the loop of getps2DMABUFdata() never meets  *)
(* DCH3DPTR: the interrupt does not return.                                 *)
T5Loops ==
  /\ prog.at # "hung" /\ dma.readpt = PS2DMABUFSIZE
  /\ prog' = [prog EXCEPT !.at = "hung"]
  /\ raced' = TRUE
  /\ UNCHANGED <<rx, dma, cmd, kbd, budget>>

-----------------------------------------------------------------------------
(* ps2init() calls ps2command(); ps2receive() is one step of it.            *)
At(here, there) == prog.at = here /\ prog' = [prog EXCEPT !.at = there]

Call ==
  /\ At("idle", "disable")
  /\ cmd.phase = "none"
  /\ budget.calls > 0 /\ budget' = [budget EXCEPT !.calls = @ - 1]
  /\ UNCHANGED <<rx, dma, cmd, kbd, raced>>

DMADisable ==
  /\ At("disable", "test")
  /\ dma' = [dma EXCEPT !.on = FALSE]
  /\ UNCHANGED <<rx, cmd, kbd, raced, budget>>

Test ==
  /\ At("test", IF dma.readpt = dma.DPTR THEN "set" ELSE "read")
  /\ UNCHANGED <<rx, dma, cmd, kbd, raced, budget>>

ReadSample ==
  /\ At("read", "load")
  /\ rx' = Receive(rx, dma.data[dma.readpt])
  /\ UNCHANGED <<dma, cmd, kbd, raced, budget>>

(* dma_readpt++ *)
Load ==
  /\ prog.at = "load"
  /\ prog' = [prog EXCEPT !.at = "store", !.readpt = dma.readpt]
  /\ UNCHANGED <<rx, dma, cmd, kbd, raced, budget>>

Store ==
  /\ prog.at = "store"
  /\ prog' = [prog EXCEPT !.at = "wrap", !.readpt = 0]
  /\ dma' = [dma EXCEPT !.readpt = prog.readpt + 1]
  /\ UNCHANGED <<rx, cmd, kbd, raced, budget>>

Wrap ==
  /\ At("wrap", "test")
  /\ dma' = [dma EXCEPT !.readpt = IF @ = PS2DMABUFSIZE THEN 0 ELSE @]
  /\ UNCHANGED <<rx, cmd, kbd, raced, budget>>

SetStatus ==
  /\ prog.at = "set"
  /\ prog' = [prog EXCEPT !.at = "idle", !.cut = FALSE]
  /\ cmd' = Start(FALSE)
  /\ UNCHANGED <<rx, dma, kbd, raced, budget>>

-----------------------------------------------------------------------------
(* The keyboard, and the DMA channel at each falling edge.                  *)
FrameBit(b, pos) ==
  CASE pos = 0 -> 0
    [] pos \in 1 .. 8 -> b[pos]
    [] pos = 9 -> 1 - (Ones(b) % 2)
    [] pos = 10 -> 1

Record(d) ==
  dma' = IF dma.on
         THEN [dma EXCEPT !.data[dma.DPTR] = d, !.DPTR = (@ + 1) % PS2DMABUFSIZE]
         ELSE dma

(* A new byte, or the one that was broken off or is asked for again.        *)
StartFrame ==
  /\ kbd.pos = NotSending /\ kbd.quiet \in Gaps /\ cmd.phase # "exchange"
  /\ \/ kbd.again /\ kbd' = [kbd EXCEPT !.pos = 0, !.clean = TRUE, !.again = FALSE]
     \/ /\ ~kbd.again /\ Len(kbd.sent) < MaxBytes
        /\ \E b \in Bytes : kbd' = [kbd EXCEPT !.pos = 0, !.clean = TRUE,
                                               !.sent = Append(@, b)]
  /\ UNCHANGED <<rx, dma, cmd, prog, raced, budget>>

(* A bit in 60 to 100us: one or two between two T5Handlers.  Noise can turn  *)
(* a bit of a frame, or it can hide an edge, not both.                      *)
Edge ==
  /\ kbd.pos # NotSending /\ kbd.edges < 2 /\ cmd.phase # "exchange"
  /\ LET bit == FrameBit(kbd.sent[Len(kbd.sent)], kbd.pos)
         next == [kbd EXCEPT !.pos = IF @ = 10 THEN NotSending ELSE @ + 1,
                             !.edges = @ + 1, !.quiet = 0]
     IN \/ Record(bit) /\ kbd' = next /\ UNCHANGED budget
        \/ /\ kbd.clean /\ budget.flips > 0 /\ budget.lost = MaxLost
           /\ budget' = [budget EXCEPT !.flips = @ - 1]
           /\ Record(1 - bit) /\ kbd' = [next EXCEPT !.clean = FALSE]
        \/ /\ budget.lost > 0 /\ budget.flips = MaxFlips
           /\ budget' = [budget EXCEPT !.lost = @ - 1]
           /\ kbd' = next /\ UNCHANGED dma
  /\ UNCHANGED <<rx, cmd, prog, raced>>

(* The end of the exchange: the keyboard has the command, the DMA is on.    *)
Exchanged ==
  /\ cmd.phase = "exchange"
  /\ cmd' = [cmd EXCEPT !.phase = "sent"]
  /\ dma' = [dma EXCEPT !.on = TRUE]
  /\ kbd' = [kbd EXCEPT !.again = @ \/ (cmd.resend /\ kbd.sent # <<>>), !.quiet = 0]
  /\ UNCHANGED <<rx, prog, raced, budget>>

Next ==
  \/ T5Handler \/ T5Loops
  \/ Call \/ DMADisable \/ Test \/ ReadSample \/ Load \/ Store \/ Wrap \/ SetStatus
  \/ StartFrame \/ Edge \/ Exchanged

Spec == Init /\ [][Next]_vars
-----------------------------------------------------------------------------
TypeOK ==
  /\ rx.receivecount \in 0 .. 10 /\ rx.receivedata \in [1 .. 8 -> {0, 1}]
  /\ rx.receivetime \in 0 .. PS2TIME_RECEIVETIMEOUT
  /\ dma.DPTR \in 0 .. PS2DMABUFSIZE - 1 /\ dma.readpt \in 0 .. PS2DMABUFSIZE
  /\ cmd.phase \in {"none", "presend", "exchange", "sent"}
  /\ cmd.phase = "presend" => cmd.count \in 1 .. PS2TIME_PRESEND

(* Each byte that the driver accepts is one that the keyboard sent, in the   *)
(* order it sent them and each once, whatever bits are turned, at most one   *)
(* of a frame, or else wherever one edge is missed.  (A missed edge and a    *)
(* turned start bit after it can pass for a byte, two missed edges too.)    *)
IsSubsequence(s, t) ==
  \E at \in [DOMAIN s -> DOMAIN t] :
    /\ \A i, j \in DOMAIN s : i < j => at[i] < at[j]
    /\ \A i \in DOMAIN s : s[i] = t[at[i]]
NoGhost == ~raced => IsSubsequence(rx.got, kbd.sent)

(* With no edge missed, no command from ps2init() and pauses longer than the *)
(* wait before a command, every byte has arrived when the line is quiet and  *)
(* no command is under way: one that had a wrong bit was asked for again,    *)
(* one that was broken off by a command for the LEDs came again.             *)
LineQuiet == kbd.pos = NotSending /\ kbd.quiet > 0 /\ ~kbd.again /\ cmd.phase = "none"
Delivered ==
  LineQuiet /\ budget.lost = MaxLost /\ budget.calls = MaxCalls => rx.got = kbd.sent

(* After a pause the driver waits for a start bit, whatever went wrong.     *)
Realigned ==
  ~raced /\ kbd.quiet > PS2TIME_RECEIVETIMEOUT + 1 => rx.receivecount = 0

=============================================================================
