------------------------------- MODULE SdCard -------------------------------
(***************************************************************************)
(* sd.c: drive 1, an SD or MMC card on the SPI bus, and the card as the    *)
(* driver uses it.  A command with its response is a step, a data block is *)
(* a step.  The driver waits for the card in loops that test Timer1 or     *)
(* Timer2; nothing counts these down, so a wait is a step that is enabled  *)
(* when the card is ready.  A card that is not there reads as 0xFF: ready, *)
(* but with no response and no token.                                      *)
(***************************************************************************)
EXTENDS Integers, Sequences

CONSTANTS
  Kinds,        \* the cards one may put in: "SD2block", "SD2", "SD1", "MMC"
  NumSectors,
  Data,         \* what a sector may hold
  MaxSlow,      \* times a card answers "still idle" to ACMD41 or CMD1
  MaxLost,      \* commands the card does not hear, or whose response is lost
  MaxBad,       \* data blocks that are refused or arrive as an error token
  MaxRemovals

ASSUME CardAssumption ==
  /\ Kinds \subseteq {"SD2block", "SD2", "SD1", "MMC"}
  /\ NumSectors \in Nat /\ NumSectors > 0
  /\ {MaxSlow, MaxLost, MaxBad, MaxRemovals} \subseteq Nat

VARIABLES
  d,        \* Stat, CardType, and the call in progress with its locals
  card,     \* the card
  budget

vars == <<d, card, budget>>

Sectors == 0 .. NumSectors - 1
NoResponse == 255
Idle == 1          \* R1: in idle state
Illegal == 5       \* R1: illegal command, in idle state
Refused == 64      \* R1: parameter error
HCS == 1073741824  \* 1 << 30, the host supports high capacity

-----------------------------------------------------------------------------
(* The card: [r1, card] for each command. *)
Answer(r1, c) == [r1 |-> r1, card |-> c]

ByBlock(c) == c.kind = "SD2block"
SectorAt(c, arg) == IF ByBlock(c) THEN arg ELSE arg \div 512
Addressed(c, arg) == SectorAt(c, arg) \in Sectors /\ (ByBlock(c) \/ arg % 512 = 0)

(* ACMD41 and CMD1: leave the idle state, after a while; a card that is     *)
(* addressed by blocks only when the host said that it knows (HCS).         *)
LeaveIdle(c, hcs) ==
  CASE c.state # "idle" -> Answer(0, c)
    [] c.state = "idle" /\ ByBlock(c) /\ ~hcs -> Answer(Idle, c)
    [] c.state = "idle" /\ (hcs \/ ~ByBlock(c)) /\ c.tries > 0 ->
         Answer(Idle, [c EXCEPT !.tries = @ - 1])
    [] c.state = "idle" /\ (hcs \/ ~ByBlock(c)) /\ c.tries = 0 ->
         Answer(0, [c EXCEPT !.state = "tran"])

(* A read or a write, of one block or of many. *)
Transfer(c, state, arg) ==
  IF c.state = "tran" /\ Addressed(c, arg)
  THEN Answer(0, [c EXCEPT !.state = state, !.at = SectorAt(c, arg)])
  ELSE Answer(IF c.state = "tran" THEN Refused ELSE Illegal, c)

Does(cmd, arg) ==
  CASE ~card.present \/ (card.state = "off" /\ cmd # "CMD0") ->
         Answer(NoResponse, card)
    [] card.present /\ cmd = "CMD0" ->
         Answer(Idle, [card EXCEPT !.state = "idle", !.tries = card.slow])
    [] card.present /\ card.state # "off" /\ cmd # "CMD0" ->
         CASE cmd = "CMD8" ->
                Answer(IF card.kind \in {"SD2", "SD2block"} THEN Idle ELSE Illegal, card)
           [] cmd = "ACMD41" ->
                IF card.kind = "MMC" THEN Answer(Illegal, card)
                ELSE LeaveIdle(card, arg = HCS)
           [] cmd = "CMD1" -> LeaveIdle(card, FALSE)
           [] cmd \in {"CMD16", "CMD58"} ->
                Answer(IF card.state = "tran" THEN 0 ELSE Illegal, card)
           [] cmd = "CMD17" -> Transfer(card, "readOne", arg)
           [] cmd = "CMD18" -> Transfer(card, "readMany", arg)
           [] cmd = "CMD24" -> Transfer(card, "writeOne", arg)
           [] cmd = "CMD25" -> Transfer(card, "writeMany", arg)
           [] cmd = "CMD12" ->
                IF card.state = "readMany"
                THEN Answer(0, [card EXCEPT !.state = "tran"])
                ELSE Answer(Illegal, card)

Init ==
  /\ d = [pc |-> "idle", op |-> "none", NOINIT |-> TRUE, CardType |-> "none",
          ty |-> "none", cmd |-> "none", first |-> 0, count |-> 0,
          data |-> <<>>, buff |-> <<>>]
  /\ \E k \in Kinds, n \in 0 .. MaxSlow, x \in Data :
       card = [kind |-> k, present |-> TRUE, state |-> "off", at |-> 0, busy |-> FALSE,
               slow |-> n, tries |-> n, store |-> [s \in Sectors |-> x]]
  /\ budget = [lost |-> MaxLost, bad |-> MaxBad, removals |-> MaxRemovals]

Spend(what) == /\ budget[what] > 0
               /\ budget' = [budget EXCEPT ![what] = @ - 1]

(* wait_ready() *)
Ready == ~card.busy \/ ~card.present

(* send_cmd(): wait unless to stop a read, send, take the response: the     *)
(* responses there can be, each with the card after it.                     *)
SendCmd(cmd, arg) ==
  LET a == Does(cmd, arg) IN
  {x \in [r1 : {a.r1}, card : {a.card}, lost : {0}]
        \cup [r1 : {NoResponse}, card : {card, a.card}, lost : {1}] :
     (cmd = "CMD12" \/ Ready) /\ x.lost <= budget.lost}

Response(x) == card' = x.card /\ budget' = [budget EXCEPT !.lost = @ - x.lost]

Goto(pc) == [d EXCEPT !.pc = pc]

-----------------------------------------------------------------------------
(* disk_initialize_sd() *)
CallInitialize ==
  /\ d.pc = "idle"
  /\ d' = [d EXCEPT !.pc = "cmd0", !.op = "initialize", !.ty = "none"]
  /\ UNCHANGED <<card, budget>>

EnterIdleState ==
  /\ d.pc = "cmd0"
  /\ \E x \in SendCmd("CMD0", 0) :
       /\ Response(x)
       /\ d' = Goto(IF x.r1 = Idle THEN "cmd8" ELSE "initialized")

(* An SDv2 card echoes the argument; when the echo is wrong the driver ends. *)
IsSDv2 ==
  /\ d.pc = "cmd8"
  /\ \/ \E x \in SendCmd("CMD8", 426) :
          /\ Response(x)
          /\ d' = Goto(IF x.r1 = Idle THEN "acmd41" ELSE "probe")
     \/ /\ Ready /\ Does("CMD8", 426).r1 = Idle
        /\ Spend("bad")
        /\ d' = Goto("initialized")
        /\ UNCHANGED card

(* Faulty variant: the host does not say that it knows block addresses.     *)
LeaveIdleSDv2_NoHCS ==
  /\ d.pc = "acmd41"
  /\ \E x \in SendCmd("ACMD41", 0) :
       /\ Response(x)
       /\ d' = IF x.r1 = 0 THEN Goto("cmd58") ELSE d

LeaveIdleSDv2 ==
  /\ d.pc = "acmd41"
  /\ \E x \in SendCmd("ACMD41", HCS) :
       /\ Response(x)
       /\ d' = IF x.r1 = 0 THEN Goto("cmd58") ELSE d

CheckCCS ==
  /\ d.pc = "cmd58"
  /\ \E x \in SendCmd("CMD58", 0) :
       /\ Response(x)
       /\ d' = [Goto("initialized") EXCEPT
                    !.ty = CASE x.r1 = 0 /\ ByBlock(card) -> "SD2block"
                             [] x.r1 = 0 /\ ~ByBlock(card) -> "SD2"
                             [] x.r1 # 0 -> "none"]

IsSDv1 ==
  /\ d.pc = "probe"
  /\ \E x \in SendCmd("ACMD41", 0) :
       /\ Response(x)
       /\ d' = IF x.r1 <= 1
               THEN [Goto("loop") EXCEPT !.ty = "SD1", !.cmd = "ACMD41"]
               ELSE [Goto("loop") EXCEPT !.ty = "MMC", !.cmd = "CMD1"]

LeaveIdleSDv1 ==
  /\ d.pc = "loop"
  /\ \E x \in SendCmd(d.cmd, 0) :
       /\ Response(x)
       /\ d' = IF x.r1 = 0 THEN Goto("cmd16") ELSE d

SetBlockLength ==
  /\ d.pc = "cmd16"
  /\ \E x \in SendCmd("CMD16", 512) :
       /\ Response(x)
       /\ d' = [Goto("initialized") EXCEPT !.ty = IF x.r1 = 0 THEN @ ELSE "none"]

Initialized ==
  /\ d.pc = "initialized"
  /\ d' = [d EXCEPT !.pc = "idle", !.op = "none", !.CardType = d.ty,
                    !.NOINIT = (d.ty = "none")]
  /\ UNCHANGED <<card, budget>>

-----------------------------------------------------------------------------
(* The card takes byte or block addresses. *)
Address_FromOne(s) ==     \* faulty variant: sectors count from one
  IF d.CardType = "SD2block" THEN s + 1 ELSE (s + 1) * 512
Address(s) == IF d.CardType = "SD2block" THEN s ELSE s * 512

(* disk_read_sd() *)
CallRead(s, n) ==
  /\ d.pc = "idle" /\ ~d.NOINIT
  /\ d' = [d EXCEPT !.pc = "readcmd", !.op = "read", !.first = s, !.count = n,
                    !.data = [i \in 1 .. n |-> "unread"], !.buff = <<>>]
  /\ UNCHANGED <<card, budget>>

Many == Len(d.data) > 1

ReadCommand ==
  /\ d.pc = "readcmd"
  /\ \E x \in SendCmd(IF Many THEN "CMD18" ELSE "CMD17", Address(d.first)) :
       /\ Response(x)
       /\ d' = Goto(IF x.r1 = 0 THEN "token" ELSE "end")

(* rcvr_datablock(): a block, or a token that is not 0xFE. *)
AfterOne(c, one) == IF c.state = one THEN [c EXCEPT !.state = "tran"]
                    ELSE [c EXCEPT !.at = @ + 1]

(* Faulty variant: an error token is taken for a block. *)
ReceiveBlock_AnyToken ==
  /\ d.pc = "token"
  /\ card.present /\ card.state \in {"readOne", "readMany"}
  /\ \/ d' = [d EXCEPT !.buff = Append(@, card.store[card.at]), !.count = @ - 1,
                       !.pc = CASE ~Many -> "end"
                                [] Many /\ d.count = 1 -> "stop"
                                [] Many /\ d.count > 1 -> "token"]
        /\ UNCHANGED budget
     \/ /\ \E x \in Data :
             d' = [d EXCEPT !.buff = Append(@, x), !.count = @ - 1,
                            !.pc = CASE ~Many -> "end"
                                     [] Many /\ d.count = 1 -> "stop"
                                     [] Many /\ d.count > 1 -> "token"]
        /\ Spend("bad")
  /\ card' = AfterOne(card, "readOne")

ReceiveBlock ==
  /\ d.pc = "token"
  /\ card.present /\ card.state \in {"readOne", "readMany"}
  /\ \/ /\ card.at \in Sectors
        /\ d' = [d EXCEPT !.buff = Append(@, card.store[card.at]), !.count = @ - 1,
                          !.pc = CASE ~Many -> "end"
                                   [] Many /\ d.count = 1 -> "stop"
                                   [] Many /\ d.count > 1 -> "token"]
        /\ UNCHANGED budget
     \/ /\ d' = Goto(IF Many THEN "stop" ELSE "end")
        /\ Spend("bad")
  /\ card' = AfterOne(card, "readOne")

StopTransmission ==
  /\ d.pc = "stop"
  /\ \E x \in SendCmd("CMD12", 0) :
       /\ Response(x)
       /\ d' = Goto("end")

(* disk_write_sd(); ACMD23 only tells the card how many blocks to expect.   *)
CallWrite(s, buff) ==
  /\ d.pc = "idle" /\ ~d.NOINIT
  /\ d' = [d EXCEPT !.pc = "writecmd", !.op = "write", !.first = s,
                    !.count = Len(buff), !.data = buff, !.buff = <<>>]
  /\ UNCHANGED <<card, budget>>

WriteCommand ==
  /\ d.pc = "writecmd"
  /\ \E x \in SendCmd(IF Many THEN "CMD25" ELSE "CMD24", Address(d.first)) :
       /\ Response(x)
       /\ d' = Goto(IF x.r1 = 0 THEN "block" ELSE "end")

(* xmit_datablock() of the next block: accepted, or refused by the card or  *)
(* by nobody being there.                                                   *)
Receiving == card.present /\ card.state \in {"writeOne", "writeMany"}

(* Faulty variant: the result of the data response is not looked at.        *)
SendBlock_Unchecked ==
  /\ d.pc = "block" /\ Ready
  /\ \/ /\ Receiving /\ card.at \in Sectors
        /\ card' = [AfterOne(card, "writeOne") EXCEPT
                      !.store[card.at] = d.data[Len(d.data) - d.count + 1],
                      !.busy = TRUE]
        /\ UNCHANGED budget
     \/ Receiving /\ card' = AfterOne(card, "writeOne") /\ Spend("bad")
     \/ ~Receiving /\ UNCHANGED <<card, budget>>
  /\ d' = [d EXCEPT !.count = @ - 1,
                    !.pc = CASE ~Many -> "end"
                             [] Many /\ d.count = 1 -> "stoptoken"
                             [] Many /\ d.count > 1 -> "block"]

SendBlock ==
  /\ d.pc = "block" /\ Ready
  /\ \/ /\ Receiving /\ card.at \in Sectors
        /\ card' = [AfterOne(card, "writeOne") EXCEPT
                      !.store[card.at] = d.data[Len(d.data) - d.count + 1],
                      !.busy = TRUE]
        /\ d' = [d EXCEPT !.count = @ - 1,
                          !.pc = CASE ~Many -> "end"
                                   [] Many /\ d.count = 1 -> "stoptoken"
                                   [] Many /\ d.count > 1 -> "block"]
        /\ UNCHANGED budget
     \/ /\ Receiving
        /\ card' = AfterOne(card, "writeOne")
        /\ d' = Goto(IF Many THEN "stoptoken" ELSE "end")
        /\ Spend("bad")
     \/ /\ ~Receiving
        /\ d' = Goto(IF Many THEN "stoptoken" ELSE "end")
        /\ UNCHANGED <<card, budget>>

StopToken ==
  /\ d.pc = "stoptoken" /\ Ready
  /\ card' = IF card.present /\ card.state = "writeMany"
             THEN [card EXCEPT !.state = "tran", !.busy = TRUE] ELSE card
  /\ d' = Goto("end")
  /\ UNCHANGED budget

(* return count ? RES_ERROR : RES_OK; *)
Return ==
  /\ d.pc = "end"
  /\ d' = [d EXCEPT !.pc = "idle", !.op = "none", !.data = <<>>, !.buff = <<>>,
                    !.first = 0, !.count = 0]
  /\ UNCHANGED <<card, budget>>

(* disk_ioctl_sd(CTRL_SYNC) *)
CallSync ==
  /\ d.pc = "idle" /\ ~d.NOINIT
  /\ d' = [d EXCEPT !.pc = "sync", !.op = "sync"]
  /\ UNCHANGED <<card, budget>>

Sync_NoWait ==     \* faulty variant
  /\ d.pc = "sync"
  /\ d' = [d EXCEPT !.pc = "end"]
  /\ UNCHANGED <<card, budget>>
Sync ==
  /\ d.pc = "sync" /\ Ready
  /\ d' = [d EXCEPT !.pc = "end"]
  /\ UNCHANGED <<card, budget>>

-----------------------------------------------------------------------------
CardReady ==
  /\ card.busy
  /\ card' = [card EXCEPT !.busy = FALSE]
  /\ UNCHANGED <<d, budget>>

Remove ==
  /\ card.present
  /\ Spend("removals")
  /\ card' = [card EXCEPT !.present = FALSE]
  /\ UNCHANGED d

(* Another card, or the same one, without power until now: it answers       *)
(* nothing before CMD0, so what the driver believes of the card before it   *)
(* reaches no sector of this one. Its sectors hold what those of the card   *)
(* before it held.                                                          *)
Insert ==
  /\ ~card.present
  /\ \E k \in Kinds :
       card' = [card EXCEPT !.kind = k, !.present = TRUE, !.state = "off", !.busy = FALSE]
  /\ UNCHANGED <<d, budget>>

Driver ==
  \/ EnterIdleState \/ IsSDv2 \/ LeaveIdleSDv2 \/ CheckCCS
  \/ IsSDv1 \/ LeaveIdleSDv1 \/ SetBlockLength \/ Initialized
  \/ ReadCommand \/ ReceiveBlock \/ StopTransmission
  \/ WriteCommand \/ SendBlock \/ StopToken
  \/ Sync \/ Return

Calls ==
  \/ CallInitialize \/ CallSync
  \/ \E s \in Sectors : \E n \in 1 .. NumSectors - s :
       \/ CallRead(s, n)
       \/ \E buff \in [1 .. n -> Data] : CallWrite(s, buff)

Next == Calls \/ Driver \/ CardReady \/ Remove \/ Insert

Spec == Init /\ [][Next]_vars

(* The program runs on, with no fault that has to come to its rescue, and    *)
(* the card ends what it is busy with.                                      *)
FairSpec == Spec /\ WF_vars(Driver /\ UNCHANGED budget) /\ WF_vars(CardReady)

-----------------------------------------------------------------------------
TypeOK ==
  /\ d.pc \in {"idle", "cmd0", "cmd8", "acmd41", "cmd58", "probe", "loop", "cmd16",
               "initialized", "readcmd", "token", "stop", "writecmd", "block",
               "stoptoken", "sync", "end"}
  /\ d.count \in 0 .. Len(d.data) /\ Len(d.data) <= NumSectors
  /\ card.at \in 0 .. NumSectors
  /\ card.store \in [Sectors -> Data]
  /\ {d.CardType, d.ty} \subseteq Kinds \cup {"SD1", "MMC", "none"}

Done(op) == d.pc = "end" /\ d.op = op /\ d.count = 0

(* A read that returns RES_OK has filled the buffer with the sectors asked  *)
(* for.                                                                     *)
ReadOk ==
  Done("read") =>
    d.buff = [i \in 1 .. Len(d.data) |-> card.store[d.first + i - 1]]

(* A write that returns RES_OK has stored every block in its sector. *)
WriteOk ==
  Done("write") => \A i \in 1 .. Len(d.data) : card.store[d.first + i - 1] = d.data[i]

(* Only a write changes sectors, and only those it was called for, whatever *)
(* card the driver believes to be in the socket.                            *)
OnlyAskedSectors ==
  [][\A s \in Sectors : card'.store[s] # card.store[s] =>
       d.op = "write" /\ s \in d.first .. d.first + Len(d.data) - 1]_vars

(* After CTRL_SYNC no write is pending: "Make sure that no pending write    *)
(* process" in the code.                                                    *)
SyncMeansWritten == d.pc = "end" /\ d.op = "sync" => ~card.busy \/ ~card.present

(* Every call returns as long as the card stays and hears every command,    *)
(* whatever it refuses and however slow it is.                              *)
CallReturnsIfCardStays ==
  d.pc # "idle" ~>
    d.pc = "idle" \/ budget.lost < MaxLost \/ budget.removals < MaxRemovals
=============================================================================
