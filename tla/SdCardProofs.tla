----------------------------- MODULE SdCardProofs -----------------------------
(***************************************************************************)
(* SdCard for every set of cards, number of sectors, contents and number   *)
(* of faults: what RES_OK means, and that no sector is written that no     *)
(* call asked for.                                                         *)
(***************************************************************************)
EXTENDS SdCard, TLAPS

InitPcs == {"cmd0", "cmd8", "acmd41", "cmd58", "probe", "loop", "cmd16", "initialized"}
Pcs == InitPcs \cup {"idle", "readcmd", "token", "stop", "writecmd", "block", "stoptoken",
                     "sync", "end"}
Types == Kinds \cup {"SD1", "MMC", "none"}

DriverStates ==
  [pc : Pcs, op : {"none", "initialize", "read", "write", "sync"}, NOINIT : BOOLEAN,
   CardType : Types, ty : Types, cmd : {"none", "ACMD41", "CMD1"},
   first : Nat, count : Nat, data : Seq(Data \cup {"unread"}), buff : Seq(Data)]

CardStates ==
  [kind : Kinds, present : BOOLEAN,
   state : {"off", "idle", "tran", "readOne", "readMany", "writeOne", "writeMany"},
   at : 0 .. NumSectors, busy : BOOLEAN, slow : Nat, tries : Nat, store : [Sectors -> Data]]

(* Which function of sd.c the program is in. *)
InCall ==
  /\ d.pc = "idle" => d.op = "none"
  /\ d.pc \in InitPcs => d.op = "initialize"
  /\ d.pc \in {"readcmd", "token", "stop"} => d.op = "read"
  /\ d.pc \in {"writecmd", "block", "stoptoken"} => d.op = "write"
  /\ d.pc = "sync" => d.op = "sync"
  /\ d.pc = "end" => d.op \in {"read", "write", "sync"}
  /\ d.op \in {"read", "write"} => ~d.NOINIT
  /\ d.op = "write" => d.data \in Seq(Data)

(* The sectors of the call, and how many of them are left. *)
Extent ==
  /\ d.first + Len(d.data) <= NumSectors /\ d.count <= Len(d.data)
  /\ d.pc \in {"readcmd", "writecmd"} => d.count = Len(d.data)
  /\ d.pc \in {"readcmd", "writecmd", "token", "block"} => d.count > 0

(* A card that has left the idle state was told how it is addressed by the  *)
(* driver that initialized it.                                              *)
Understood(ty) ==
  card.state \in {"off", "idle"} \/ (ByBlock(card) <=> ty = "SD2block")

CardKnown ==
  /\ d.pc \in {"cmd0", "cmd8", "acmd41", "cmd58", "probe"} => d.ty = "none"
  /\ d.pc \in {"cmd8", "probe"} => card.state \in {"off", "idle"}
  /\ d.pc \in {"acmd41", "cmd58"} =>
       card.state = "off" \/ (card.kind \in {"SD2", "SD2block"} /\ card.state \in {"idle", "tran"})
  /\ d.pc \in {"loop", "cmd16"} =>
       /\ d.ty \in {"SD1", "MMC"} /\ d.cmd \in {"ACMD41", "CMD1"}
       /\ Understood(d.ty)
  /\ d.pc = "initialized" /\ d.ty # "none" => Understood(d.ty)
  /\ d.op # "initialize" /\ ~d.NOINIT => Understood(d.CardType)

(* While blocks go over the bus the card is at the next sector of the call. *)
InStep ==
  /\ d.pc = "block" /\ card.state \in {"writeOne", "writeMany"} =>
       /\ card.at = d.first + Len(d.data) - d.count
       /\ card.state = "writeMany" <=> Many
  /\ d.pc = "token" /\ card.state \in {"readOne", "readMany"} =>
       /\ card.at = d.first + Len(d.data) - d.count
       /\ card.state = "readMany" <=> Many

(* The blocks that went over the bus. *)
Copied ==
  /\ d.op = "write" =>
       \A i \in 1 .. Len(d.data) - d.count : card.store[d.first + i - 1] = d.data[i]
  /\ d.op = "read" =>
       /\ Len(d.buff) = Len(d.data) - d.count
       /\ \A i \in 1 .. Len(d.buff) : d.buff[i] = card.store[d.first + i - 1]

Inv ==
  /\ d \in DriverStates /\ card \in CardStates
  /\ InCall /\ Extent /\ CardKnown /\ InStep /\ Copied /\ SyncMeansWritten

-----------------------------------------------------------------------------
(* What a command does to the card: it never writes, and a card without     *)
(* power until now hears nothing but CMD0.                                  *)
Kept(c, a) ==
  /\ a.card \in CardStates
  /\ a.card.kind = c.kind /\ a.card.store = c.store
  /\ a.card.busy = c.busy /\ a.card.present = c.present

Deaf(a) == a.card = card /\ a.r1 = NoResponse

LEMMA DeafIsKept ==
  ASSUME card \in CardStates, NEW a, Deaf(a)
  PROVE  Kept(card, a) /\ a.r1 # 0 /\ a.r1 # Idle
BY DEF Deaf, Kept, NoResponse, Idle

LEMMA Unheard ==
  ASSUME NEW cmd, NEW arg, ~card.present \/ (card.state = "off" /\ cmd # "CMD0")
  PROVE  Deaf(Does(cmd, arg))
BY DEF Does, Answer, Deaf

LEMMA LeaveIdleFacts ==
  ASSUME NEW c \in CardStates, NEW hcs \in BOOLEAN, NEW a, a = LeaveIdle(c, hcs)
  PROVE  /\ Kept(c, a) /\ a.r1 \in {0, Idle}
         /\ a.card.state = c.state \/ (c.state = "idle" /\ a.card.state = "tran")
         /\ ByBlock(c) /\ ~hcs => a.card = c
         /\ a.r1 = 0 => a.card.state # "idle"
<1>1. CASE c.state # "idle"
  BY <1>1 DEF LeaveIdle, Answer, Kept
<1>2. CASE c.state = "idle" /\ ByBlock(c) /\ ~hcs
  BY <1>2 DEF LeaveIdle, Answer, Idle, Kept
<1>3. CASE c.state = "idle" /\ (hcs \/ ~ByBlock(c)) /\ c.tries > 0
  BY <1>3 DEF LeaveIdle, Answer, Idle, CardStates, Kept
<1>4. CASE c.state = "idle" /\ (hcs \/ ~ByBlock(c)) /\ c.tries = 0
  BY <1>4 DEF LeaveIdle, Answer, Idle, CardStates, Kept
<1> QED BY <1>1, <1>2, <1>3, <1>4 DEF CardStates

LEMMA TransferFacts ==
  ASSUME NEW c \in CardStates, NEW state \in {"readOne", "readMany", "writeOne", "writeMany"},
         NEW arg \in Nat, NEW a, a = Transfer(c, state, arg)
  PROVE  /\ Kept(c, a)
         /\ \/ a.card = c /\ a.r1 # 0
            \/ /\ c.state = "tran" /\ a.card.state = state
               /\ a.card.at = SectorAt(c, arg) /\ a.card.at \in Sectors
<1>1. CASE c.state = "tran" /\ Addressed(c, arg)
  <2>1. SectorAt(c, arg) \in Sectors /\ SectorAt(c, arg) \in 0 .. NumSectors
    BY <1>1, CardAssumption DEF Addressed, Sectors
  <2>2. a = [r1 |-> 0, card |-> [c EXCEPT !.state = state, !.at = SectorAt(c, arg)]]
    BY <1>1 DEF Transfer, Answer
  <2>3. a.r1 = 0 /\ a.card = [c EXCEPT !.state = state, !.at = SectorAt(c, arg)]
    BY <2>2
  <2>4. a.card \in CardStates
    BY <2>1, <2>3 DEF CardStates
  <2> QED BY <1>1, <2>1, <2>3, <2>4 DEF CardStates, Kept
<1>2. CASE ~(c.state = "tran" /\ Addressed(c, arg))
  <2>1. a.card = c /\ a.r1 \in {Refused, Illegal}
    BY <1>2 DEF Transfer, Answer
  <2> QED BY <2>1 DEF Refused, Illegal, Kept
<1> QED BY <1>1, <1>2

(* CMD0 *)
LEMMA ResetFacts ==
  ASSUME card \in CardStates, NEW a, a = Does("CMD0", 0)
  PROVE  Kept(card, a) /\ (Deaf(a) \/ a.card.state = "idle")
<1>1. CASE ~card.present
  BY <1>1, Unheard, DeafIsKept
<1>2. CASE card.present
  <2>1. a = Answer(Idle, [card EXCEPT !.state = "idle", !.tries = card.slow])
    BY <1>2 DEF Does
  <2>2. a.card = [card EXCEPT !.state = "idle", !.tries = card.slow]
    BY <2>1 DEF Answer
  <2>3. a.card \in CardStates
    BY <2>2 DEF CardStates
  <2> QED BY <2>2, <2>3 DEF CardStates, Kept
<1> QED BY <1>1, <1>2

(* CMD8, CMD58 and CMD16 *)
LEMMA AskFacts ==
  ASSUME card \in CardStates, NEW cmd \in {"CMD8", "CMD16", "CMD58"}, NEW arg,
         NEW a, a = Does(cmd, arg)
  PROVE  /\ Kept(card, a) /\ a.card = card
         /\ cmd = "CMD8" /\ a.r1 = Idle => card.kind \in {"SD2", "SD2block"}
         /\ cmd # "CMD8" /\ a.r1 = 0 => card.state = "tran"
<1>1. CASE ~card.present \/ card.state = "off"
  BY <1>1, Unheard, DeafIsKept DEF Deaf
<1>2. CASE card.present /\ card.state # "off"
  <2>1. CASE cmd = "CMD8"
    <3>1. a = Answer(IF card.kind \in {"SD2", "SD2block"} THEN Idle ELSE Illegal, card)
      BY <1>2, <2>1 DEF Does
    <3> QED BY <2>1, <3>1 DEF Answer, Idle, Illegal, Kept
  <2>2. CASE cmd # "CMD8"
    <3>1. a = Answer(IF card.state = "tran" THEN 0 ELSE Illegal, card)
      BY <1>2, <2>2 DEF Does
    <3> QED BY <2>2, <3>1 DEF Answer, Illegal, Kept
  <2> QED BY <2>1, <2>2
<1> QED BY <1>1, <1>2

(* ACMD41 and CMD1 *)
LEMMA OperateFacts ==
  ASSUME card \in CardStates, NEW cmd \in {"ACMD41", "CMD1"}, NEW arg \in Nat,
         NEW a, a = Does(cmd, arg)
  PROVE  /\ Kept(card, a)
         /\ a.card.state = card.state \/ (card.state = "idle" /\ a.card.state = "tran")
         /\ ByBlock(card) /\ arg # HCS => a.card = card
         /\ a.r1 = 0 => a.card.state \notin {"idle", "off"}
<1>1. CASE ~card.present \/ card.state = "off"
  BY <1>1, Unheard, DeafIsKept DEF Deaf
<1>2. CASE card.present /\ card.state # "off"
  <2>1. CASE cmd = "ACMD41" /\ card.kind = "MMC"
    <3>1. a = Answer(Illegal, card)
      BY <1>2, <2>1 DEF Does
    <3> QED BY <3>1 DEF Answer, Illegal, Kept
  <2>2. CASE cmd = "ACMD41" /\ card.kind # "MMC"
    <3>1. a = LeaveIdle(card, arg = HCS)
      BY <1>2, <2>2 DEF Does
    <3> QED BY <1>2, <3>1, LeaveIdleFacts
  <2>3. CASE cmd = "CMD1"
    <3>1. a = LeaveIdle(card, FALSE)
      BY <1>2, <2>3 DEF Does
    <3> QED BY <1>2, <3>1, LeaveIdleFacts
  <2> QED BY <2>1, <2>2, <2>3
<1> QED BY <1>1, <1>2

(* CMD17, CMD18, CMD24 and CMD25 *)
StateOf(cmd) ==
  IF cmd = "CMD17" THEN "readOne" ELSE IF cmd = "CMD18" THEN "readMany"
  ELSE IF cmd = "CMD24" THEN "writeOne" ELSE "writeMany"

LEMMA BlocksFacts ==
  ASSUME card \in CardStates, NEW cmd \in {"CMD17", "CMD18", "CMD24", "CMD25"},
         NEW arg \in Nat, NEW a, a = Does(cmd, arg)
  PROVE  /\ Kept(card, a)
         /\ \/ a.card = card /\ a.r1 # 0
            \/ /\ card.state = "tran" /\ a.card.state = StateOf(cmd)
               /\ a.card.at = SectorAt(card, arg) /\ a.card.at \in Sectors
<1>1. CASE ~card.present \/ card.state = "off"
  BY <1>1, Unheard, DeafIsKept DEF Deaf
<1>2. CASE card.present /\ card.state # "off"
  <2>1. a = Transfer(card, StateOf(cmd), arg)
    BY <1>2 DEF Does, StateOf
  <2>2. StateOf(cmd) \in {"readOne", "readMany", "writeOne", "writeMany"}
    BY DEF StateOf
  <2> QED BY <2>1, <2>2, TransferFacts
<1> QED BY <1>1, <1>2

(* CMD12 *)
LEMMA StopFacts ==
  ASSUME card \in CardStates, NEW a, a = Does("CMD12", 0)
  PROVE  /\ Kept(card, a)
         /\ a.card = card \/ (card.state = "readMany" /\ a.card.state = "tran")
<1>1. CASE ~card.present \/ card.state = "off"
  BY <1>1, Unheard, DeafIsKept DEF Deaf
<1>2. CASE card.present /\ card.state # "off"
  <2>1. a = IF card.state = "readMany" THEN Answer(0, [card EXCEPT !.state = "tran"])
            ELSE Answer(Illegal, card)
    BY <1>2 DEF Does
  <2> QED BY <2>1 DEF Answer, CardStates, Kept
<1> QED BY <1>1, <1>2

(* The driver hears the answer, or nothing. *)
LEMMA SendCmdFacts ==
  ASSUME NEW cmd, NEW arg, NEW x \in SendCmd(cmd, arg), NEW a, a = Does(cmd, arg)
  PROVE  \/ x.r1 = a.r1 /\ x.card = a.card
         \/ x.r1 = NoResponse /\ x.card \in {card, a.card}
BY DEF SendCmd

LEMMA AddressFacts ==
  ASSUME d \in DriverStates, card \in CardStates, d.first < NumSectors,
         Understood(d.CardType), card.state = "tran"
  PROVE  Address(d.first) \in Nat /\ SectorAt(card, Address(d.first)) = d.first
<1>1. d.first \in Nat /\ (d.first * 512) \div 512 = d.first
  BY DEF DriverStates
<1>2. ByBlock(card) <=> d.CardType = "SD2block"
  BY DEF Understood
<1> QED BY <1>1, <1>2 DEF Address, SectorAt

-----------------------------------------------------------------------------
LEMMA InitInv == Init => Inv
<1> SUFFICES ASSUME Init PROVE Inv
  OBVIOUS
<1> USE CardAssumption
<1>1. d \in DriverStates
  BY DEF Init, DriverStates, Pcs, InitPcs, Types
<1>2. card \in CardStates /\ card.state = "off"
  BY DEF Init, CardStates, Sectors
<1>3. /\ d.pc = "idle" /\ d.op = "none" /\ d.NOINIT /\ d.first = 0 /\ d.count = 0
      /\ d.data = <<>>
  BY DEF Init
<1> QED
  BY <1>1, <1>2, <1>3
     DEF Inv, InCall, InitPcs, Extent, CardKnown, InStep, Copied, SyncMeansWritten

(* Within disk_initialize_sd() only what is known of the card matters.      *)
SameExtent ==
  d'.first = d.first /\ d'.count = d.count /\ d'.data = d.data

LEMMA InitializeStep ==
  ASSUME Inv, d' \in DriverStates, card' \in CardStates,
         d'.op = "initialize", d'.pc \in InitPcs, SameExtent, CardKnown'
  PROVE  Inv'
BY DEF Inv, InCall, InitPcs, Extent, InStep, Copied, SyncMeansWritten, SameExtent

LEMMA CallInitializeInv == Inv /\ CallInitialize => Inv'
<1> SUFFICES ASSUME Inv, CallInitialize PROVE Inv'
  OBVIOUS
<1>1. d \in DriverStates /\ card \in CardStates /\ card' = card
  BY DEF Inv, CallInitialize
<1>2. d' = [d EXCEPT !.pc = "cmd0", !.op = "initialize", !.ty = "none"]
  BY DEF CallInitialize
<1>3. d' \in DriverStates
  BY <1>1, <1>2 DEF DriverStates, Pcs, InitPcs, Types
<1>4. d'.pc = "cmd0" /\ d'.op = "initialize" /\ d'.ty = "none" /\ SameExtent
  BY <1>1, <1>2 DEF DriverStates, SameExtent
<1>5. CardKnown'
  BY <1>1, <1>2, <1>4 DEF CardKnown
<1> QED BY <1>1, <1>3, <1>4, <1>5, InitializeStep DEF InitPcs

LEMMA EnterIdleStateInv == Inv /\ EnterIdleState => Inv'
<1> SUFFICES ASSUME Inv, EnterIdleState PROVE Inv'
  OBVIOUS
<1>1. d \in DriverStates /\ card \in CardStates /\ d.op = "initialize" /\ d.ty = "none"
  BY DEF Inv, EnterIdleState, InCall, InitPcs, CardKnown
<1>2. PICK x \in SendCmd("CMD0", 0) :
        card' = x.card /\ d' = Goto(IF x.r1 = Idle THEN "cmd8" ELSE "initialized")
  BY DEF EnterIdleState, Response
<1>3. card' \in CardStates /\ (x.r1 = Idle => card'.state = "idle")
  BY <1>1, <1>2, SendCmdFacts, ResetFacts DEF Kept, Deaf, NoResponse, Idle
<1>4. d' \in DriverStates
  BY <1>1, <1>2 DEF Goto, DriverStates, Pcs, InitPcs
<1>5. /\ d'.pc \in {"cmd8", "initialized"} /\ (d'.pc = "cmd8" => x.r1 = Idle)
      /\ d'.op = "initialize" /\ d'.ty = d.ty /\ SameExtent
  BY <1>1, <1>2 DEF Goto, DriverStates, SameExtent
<1>7. CardKnown'
  BY <1>1, <1>3, <1>5 DEF CardKnown
<1> QED BY <1>3, <1>4, <1>5, <1>7, InitializeStep DEF InitPcs

LEMMA IsSDv2Inv == Inv /\ IsSDv2 => Inv'
<1> SUFFICES ASSUME Inv, IsSDv2 PROVE Inv'
  OBVIOUS
<1>1. /\ d \in DriverStates /\ card \in CardStates /\ d.op = "initialize" /\ d.ty = "none"
      /\ card.state \in {"off", "idle"}
  BY DEF Inv, IsSDv2, InCall, InitPcs, CardKnown
<1>2. /\ card' = card /\ d' \in {Goto("acmd41"), Goto("probe"), Goto("initialized")}
      /\ d' = Goto("acmd41") =>
           card.state = "off" \/ card.kind \in {"SD2", "SD2block"}
  <2>1. ASSUME NEW x \in SendCmd("CMD8", 426), card' = x.card,
               d' = Goto(IF x.r1 = Idle THEN "acmd41" ELSE "probe")
        PROVE  card' = card /\ (d' = Goto("acmd41") => card.kind \in {"SD2", "SD2block"})
    <3>1. card' = card /\ (x.r1 = Idle => card.kind \in {"SD2", "SD2block"})
      BY <1>1, <2>1, SendCmdFacts, AskFacts DEF NoResponse, Idle
    <3>2. Goto("acmd41") # Goto("probe")
      BY <1>1 DEF Goto, DriverStates
    <3> QED BY <2>1, <3>1, <3>2
  <2>2. Goto("acmd41") # Goto("initialized")
    BY <1>1 DEF Goto, DriverStates
  <2> QED BY <2>1, <2>2 DEF IsSDv2, Response
<1>3. /\ d' \in DriverStates /\ d'.pc \in {"acmd41", "probe", "initialized"}
      /\ d'.op = "initialize" /\ d'.ty = "none" /\ SameExtent
      /\ d'.pc = "acmd41" => d' = Goto("acmd41")
  BY <1>1, <1>2 DEF Goto, DriverStates, Pcs, InitPcs, SameExtent
<1>4. CardKnown'
  BY <1>1, <1>2, <1>3 DEF CardKnown
<1> QED BY <1>1, <1>2, <1>3, <1>4, InitializeStep DEF InitPcs

LEMMA LeaveIdleSDv2Inv == Inv /\ LeaveIdleSDv2 => Inv'
<1> SUFFICES ASSUME Inv, LeaveIdleSDv2 PROVE Inv'
  OBVIOUS
<1>1. /\ d \in DriverStates /\ card \in CardStates /\ d.op = "initialize" /\ d.ty = "none"
      /\ d.pc = "acmd41"
      /\ card.state = "off" \/ (card.kind \in {"SD2", "SD2block"} /\ card.state \in {"idle", "tran"})
  BY DEF Inv, LeaveIdleSDv2, InCall, InitPcs, CardKnown
<1>2. PICK x \in SendCmd("ACMD41", HCS) :
        card' = x.card /\ d' = IF x.r1 = 0 THEN Goto("cmd58") ELSE d
  BY DEF LeaveIdleSDv2, Response
<1>3. /\ card' \in CardStates /\ card'.kind = card.kind
      /\ card'.state = card.state \/ (card.state = "idle" /\ card'.state = "tran")
  BY <1>1, <1>2, SendCmdFacts, OperateFacts DEF Kept, HCS
<1>4. /\ d' \in DriverStates /\ d'.pc \in {"acmd41", "cmd58"}
      /\ d'.op = "initialize" /\ d'.ty = "none" /\ SameExtent
  BY <1>1, <1>2 DEF Goto, DriverStates, Pcs, InitPcs, SameExtent
<1>5. CardKnown'
  BY <1>1, <1>3, <1>4 DEF CardKnown
<1> QED BY <1>3, <1>4, <1>5, InitializeStep DEF InitPcs

LEMMA CheckCCSInv == Inv /\ CheckCCS => Inv'
<1> SUFFICES ASSUME Inv, CheckCCS PROVE Inv'
  OBVIOUS
<1>1. /\ d \in DriverStates /\ card \in CardStates /\ d.op = "initialize"
      /\ card.state = "off" \/ card.kind \in {"SD2", "SD2block"}
  BY DEF Inv, CheckCCS, InCall, InitPcs, CardKnown
<1> DEFINE ty(r1) == CASE r1 = 0 /\ ByBlock(card) -> "SD2block"
                       [] r1 = 0 /\ ~ByBlock(card) -> "SD2"
                       [] r1 # 0 -> "none"
<1>2. PICK x \in SendCmd("CMD58", 0) :
        card' = x.card /\ d' = [Goto("initialized") EXCEPT !.ty = ty(x.r1)]
  BY DEF CheckCCS, Response
<1>3. card' = card /\ (x.r1 = 0 => card.state = "tran")
  BY <1>1, <1>2, SendCmdFacts, AskFacts DEF NoResponse
<1>4. /\ ty(x.r1) \in Types
      /\ ty(x.r1) # "none" => (ByBlock(card) <=> ty(x.r1) = "SD2block")
  BY <1>1, <1>3 DEF Types, ByBlock, CardStates
<1> HIDE DEF ty
<1>5. /\ d' \in DriverStates /\ d'.pc = "initialized"
      /\ d'.op = "initialize" /\ d'.ty = ty(x.r1) /\ SameExtent
  BY <1>1, <1>2, <1>4 DEF Goto, DriverStates, Pcs, InitPcs, SameExtent
<1>6. CardKnown'
  BY <1>1, <1>3, <1>4, <1>5 DEF CardKnown, Understood
<1> QED BY <1>1, <1>3, <1>5, <1>6, InitializeStep DEF InitPcs

LEMMA IsSDv1Inv == Inv /\ IsSDv1 => Inv'
<1> SUFFICES ASSUME Inv, IsSDv1 PROVE Inv'
  OBVIOUS
<1>1. /\ d \in DriverStates /\ card \in CardStates /\ d.op = "initialize"
      /\ card.state \in {"off", "idle"}
  BY DEF Inv, IsSDv1, InCall, InitPcs, CardKnown
<1>2. PICK x \in SendCmd("ACMD41", 0) :
        /\ card' = x.card
        /\ d' = IF x.r1 <= 1
                THEN [Goto("loop") EXCEPT !.ty = "SD1", !.cmd = "ACMD41"]
                ELSE [Goto("loop") EXCEPT !.ty = "MMC", !.cmd = "CMD1"]
  BY DEF IsSDv1, Response
<1>3. /\ card' \in CardStates /\ card'.kind = card.kind
      /\ card'.state \in {"off", "idle"} \/ ~ByBlock(card)
  BY <1>1, <1>2, SendCmdFacts, OperateFacts DEF Kept, HCS
<1>4. /\ d' \in DriverStates /\ d'.pc = "loop"
      /\ d'.op = "initialize" /\ SameExtent
      /\ d'.ty \in {"SD1", "MMC"} /\ d'.cmd \in {"ACMD41", "CMD1"}
  BY <1>1, <1>2 DEF Goto, DriverStates, Pcs, InitPcs, SameExtent, Types
<1>5. CardKnown'
  BY <1>1, <1>3, <1>4 DEF CardKnown, Understood, ByBlock
<1> QED BY <1>3, <1>4, <1>5, InitializeStep DEF InitPcs

LEMMA LeaveIdleSDv1Inv == Inv /\ LeaveIdleSDv1 => Inv'
<1> SUFFICES ASSUME Inv, LeaveIdleSDv1 PROVE Inv'
  OBVIOUS
<1>1. /\ d \in DriverStates /\ card \in CardStates /\ d.op = "initialize" /\ d.pc = "loop"
      /\ d.ty \in {"SD1", "MMC"} /\ d.cmd \in {"ACMD41", "CMD1"} /\ Understood(d.ty)
  BY DEF Inv, LeaveIdleSDv1, InCall, InitPcs, CardKnown
<1>2. PICK x \in SendCmd(d.cmd, 0) :
        card' = x.card /\ d' = IF x.r1 = 0 THEN Goto("cmd16") ELSE d
  BY DEF LeaveIdleSDv1, Response
<1>3. /\ card' \in CardStates /\ card'.kind = card.kind
      /\ card'.state = card.state \/ ~ByBlock(card)
  BY <1>1, <1>2, SendCmdFacts, OperateFacts DEF Kept, HCS
<1>4. /\ d' \in DriverStates /\ d'.pc \in {"loop", "cmd16"}
      /\ d'.op = "initialize" /\ SameExtent /\ d'.ty = d.ty /\ d'.cmd = d.cmd
  BY <1>1, <1>2 DEF Goto, DriverStates, Pcs, InitPcs, SameExtent
<1>5. CardKnown'
  BY <1>1, <1>3, <1>4 DEF CardKnown, Understood, ByBlock
<1> QED BY <1>3, <1>4, <1>5, InitializeStep DEF InitPcs

LEMMA SetBlockLengthInv == Inv /\ SetBlockLength => Inv'
<1> SUFFICES ASSUME Inv, SetBlockLength PROVE Inv'
  OBVIOUS
<1>1. /\ d \in DriverStates /\ card \in CardStates /\ d.op = "initialize"
      /\ Understood(d.ty)
  BY DEF Inv, SetBlockLength, InCall, InitPcs, CardKnown
<1>2. PICK x \in SendCmd("CMD16", 512) :
        /\ card' = x.card
        /\ d' = [Goto("initialized") EXCEPT !.ty = IF x.r1 = 0 THEN @ ELSE "none"]
  BY DEF SetBlockLength, Response
<1>3. card' = card
  BY <1>1, <1>2, SendCmdFacts, AskFacts
<1>4. /\ d' \in DriverStates /\ d'.pc = "initialized"
      /\ d'.op = "initialize" /\ SameExtent /\ d'.ty \in {d.ty, "none"}
  BY <1>1, <1>2 DEF Goto, DriverStates, Pcs, InitPcs, SameExtent, Types
<1>5. CardKnown'
  BY <1>1, <1>3, <1>4 DEF CardKnown, Understood, ByBlock
<1> QED BY <1>1, <1>3, <1>4, <1>5, InitializeStep DEF InitPcs

LEMMA InitializedInv == Inv /\ Initialized => Inv'
<1> SUFFICES ASSUME Inv, Initialized PROVE Inv'
  OBVIOUS
<1>1. /\ d \in DriverStates /\ card \in CardStates /\ card' = card
      /\ d.ty # "none" => Understood(d.ty)
  BY DEF Inv, Initialized, CardKnown
<1>2. d' = [d EXCEPT !.pc = "idle", !.op = "none", !.CardType = d.ty,
                     !.NOINIT = (d.ty = "none")]
  BY DEF Initialized
<1>3. /\ d' \in DriverStates /\ d'.pc = "idle" /\ d'.op = "none"
      /\ d'.CardType = d.ty /\ d'.NOINIT = (d.ty = "none") /\ SameExtent
  BY <1>1, <1>2 DEF DriverStates, Pcs, SameExtent
<1>4. CardKnown'
  BY <1>1, <1>3 DEF CardKnown, Understood, ByBlock
<1> QED
  BY <1>1, <1>3, <1>4
     DEF Inv, InCall, InitPcs, Extent, InStep, Copied, SyncMeansWritten, SameExtent

-----------------------------------------------------------------------------
(* A call of the file system, with the sectors it asks for. *)
LEMMA CallReadInv ==
  ASSUME Inv, NEW s \in Sectors, NEW n \in 1 .. NumSectors - s, CallRead(s, n)
  PROVE  Inv'
<1>1. d \in DriverStates /\ card \in CardStates /\ card' = card /\ d.op = "none" /\ ~d.NOINIT
  BY DEF Inv, CallRead, InCall
<1> DEFINE empty == [i \in 1 .. n |-> "unread"]
<1>2. d' = [d EXCEPT !.pc = "readcmd", !.op = "read", !.first = s, !.count = n,
                     !.data = empty, !.buff = <<>>]
  BY DEF CallRead
<1>3. n \in Nat /\ n > 0 /\ s \in Nat /\ s + n <= NumSectors
  BY CardAssumption DEF Sectors
<1>4. empty \in Seq(Data \cup {"unread"}) /\ Len(empty) = n
  BY <1>3
<1> HIDE DEF empty
<1>5. /\ d' \in DriverStates /\ d'.pc = "readcmd" /\ d'.op = "read" /\ d'.first = s
      /\ d'.count = n /\ Len(d'.data) = n /\ d'.buff = <<>>
      /\ d'.NOINIT = d.NOINIT /\ d'.CardType = d.CardType
  <2>1. <<>> \in Seq(Data)
    OBVIOUS
  <2>2. d' \in DriverStates
    BY <1>1, <1>2, <1>3, <1>4, <2>1, Zenon DEF DriverStates, Pcs
  <2> QED BY <1>1, <1>2, <1>4, <2>2 DEF DriverStates
<1>6. CardKnown'
  BY <1>1, <1>5 DEF Inv, CardKnown, Understood, ByBlock
<1>7. Copied'
  BY <1>5 DEF Copied
<1> QED
  BY <1>1, <1>3, <1>5, <1>6, <1>7
     DEF Inv, InCall, InitPcs, Extent, InStep, SyncMeansWritten

LEMMA CallWriteInv ==
  ASSUME Inv, NEW s \in Sectors, NEW n \in 1 .. NumSectors - s,
         NEW buff \in [1 .. n -> Data], CallWrite(s, buff)
  PROVE  Inv'
<1>1. d \in DriverStates /\ card \in CardStates /\ card' = card /\ d.op = "none" /\ ~d.NOINIT
  BY DEF Inv, CallWrite, InCall
<1>2. d' = [d EXCEPT !.pc = "writecmd", !.op = "write", !.first = s,
                     !.count = Len(buff), !.data = buff, !.buff = <<>>]
  BY DEF CallWrite
<1>3. n \in Nat /\ n > 0 /\ s \in Nat /\ s + n <= NumSectors
  BY CardAssumption DEF Sectors
<1>4. buff \in Seq(Data) /\ buff \in Seq(Data \cup {"unread"}) /\ Len(buff) = n
  BY <1>3
<1>5. /\ d' \in DriverStates /\ d'.pc = "writecmd" /\ d'.op = "write" /\ d'.first = s
      /\ d'.count = n /\ Len(d'.data) = n /\ d'.data \in Seq(Data)
      /\ d'.NOINIT = d.NOINIT /\ d'.CardType = d.CardType
  <2>1. <<>> \in Seq(Data)
    OBVIOUS
  <2>2. d' \in DriverStates
    BY <1>1, <1>2, <1>3, <1>4, <2>1, Zenon DEF DriverStates, Pcs
  <2> QED BY <1>1, <1>2, <1>4, <2>2 DEF DriverStates
<1>6. CardKnown'
  BY <1>1, <1>5 DEF Inv, CardKnown, Understood, ByBlock
<1>7. Copied'
  BY <1>3, <1>5 DEF Copied
<1> QED
  BY <1>1, <1>3, <1>5, <1>6, <1>7
     DEF Inv, InCall, InitPcs, Extent, InStep, SyncMeansWritten

(* What the steps of a read or write that store nothing leave as it was.     *)
SameCall ==
  /\ d'.op = d.op /\ d'.first = d.first /\ d'.data = d.data
  /\ d'.NOINIT = d.NOINIT /\ d'.CardType = d.CardType

LEMMA GotoFacts ==
  ASSUME d \in DriverStates, NEW pc \in Pcs, d' = Goto(pc)
  PROVE  /\ d' \in DriverStates /\ d'.pc = pc /\ d'.ty = d.ty /\ d'.cmd = d.cmd
         /\ SameCall /\ d'.count = d.count /\ d'.buff = d.buff
BY DEF DriverStates, Goto, SameCall

(* The command of a read or a write, and a card that heard it.              *)
LEMMA BlocksSent ==
  ASSUME Inv, NEW cmd \in {"CMD17", "CMD18", "CMD24", "CMD25"},
         d.pc \in {"readcmd", "writecmd"},
         NEW x \in SendCmd(cmd, Address(d.first)), card' = x.card, SameCall
  PROVE  /\ card' \in CardStates /\ card'.kind = card.kind /\ card'.store = card.store
         /\ Understood(d.CardType)'
         /\ x.r1 = 0 => card'.state = StateOf(cmd) /\ card'.at = d.first
<1>1. /\ d \in DriverStates /\ card \in CardStates /\ d.op \in {"read", "write"}
      /\ d.count > 0 /\ d.count <= Len(d.data) /\ d.first + Len(d.data) <= NumSectors
      /\ Understood(d.CardType)
  BY DEF Inv, InCall, Extent, CardKnown
<1>2. d.first < NumSectors
  BY <1>1, CardAssumption DEF DriverStates
<1>3. Address(d.first) \in Nat
  BY <1>1 DEF Address, DriverStates
<1>4. /\ card' \in CardStates /\ card'.kind = card.kind /\ card'.store = card.store
      /\ x.r1 = 0 => card.state = "tran" /\ card'.state = StateOf(cmd)
                     /\ card'.at = SectorAt(card, Address(d.first))
      /\ card' = card \/ card.state = "tran"
  BY <1>1, <1>3, SendCmdFacts, BlocksFacts DEF Kept, NoResponse
<1>5. card.state = "tran" => SectorAt(card, Address(d.first)) = d.first
  BY <1>1, <1>2, AddressFacts
<1>6. Understood(d.CardType)'
  BY <1>1, <1>4 DEF Understood, ByBlock, SameCall
<1> QED BY <1>4, <1>5, <1>6

LEMMA ReadCommandInv == Inv /\ ReadCommand => Inv'
<1> SUFFICES ASSUME Inv, ReadCommand PROVE Inv'
  OBVIOUS
<1>1. /\ d \in DriverStates /\ card \in CardStates /\ d.op = "read" /\ d.pc = "readcmd"
      /\ ~d.NOINIT /\ d.count = Len(d.data) /\ d.count > 0
      /\ d.first + Len(d.data) <= NumSectors
  BY DEF Inv, ReadCommand, InCall, Extent
<1> DEFINE cmd == IF Many THEN "CMD18" ELSE "CMD17"
<1>2. PICK x \in SendCmd(cmd, Address(d.first)) :
        card' = x.card /\ d' = Goto(IF x.r1 = 0 THEN "token" ELSE "end")
  BY DEF ReadCommand, Response
<1>3. /\ d' \in DriverStates /\ d'.pc = IF x.r1 = 0 THEN "token" ELSE "end"
      /\ SameCall /\ d'.count = d.count /\ d'.buff = d.buff
  BY <1>1, <1>2, GotoFacts DEF Pcs
<1>4. /\ card' \in CardStates /\ card'.kind = card.kind /\ card'.store = card.store
      /\ Understood(d.CardType)'
      /\ x.r1 = 0 => card'.state = StateOf(cmd) /\ card'.at = d.first
  BY <1>1, <1>2, <1>3, BlocksSent
<1>5. (d.pc = "token" => InStep)'
  BY <1>1, <1>3, <1>4 DEF InStep, SameCall, Many, StateOf, DriverStates
<1>6. Copied'
  BY <1>1, <1>3, <1>4 DEF Inv, Copied, SameCall
<1> QED
  BY <1>1, <1>3, <1>4, <1>5, <1>6
     DEF Inv, InCall, InitPcs, Extent, CardKnown, InStep, SyncMeansWritten, SameCall

LEMMA WriteCommandInv == Inv /\ WriteCommand => Inv'
<1> SUFFICES ASSUME Inv, WriteCommand PROVE Inv'
  OBVIOUS
<1>1. /\ d \in DriverStates /\ card \in CardStates /\ d.op = "write" /\ d.pc = "writecmd"
      /\ ~d.NOINIT /\ d.count = Len(d.data) /\ d.count > 0
      /\ d.first + Len(d.data) <= NumSectors
  BY DEF Inv, WriteCommand, InCall, Extent
<1> DEFINE cmd == IF Many THEN "CMD25" ELSE "CMD24"
<1>2. PICK x \in SendCmd(cmd, Address(d.first)) :
        card' = x.card /\ d' = Goto(IF x.r1 = 0 THEN "block" ELSE "end")
  BY DEF WriteCommand, Response
<1>3. /\ d' \in DriverStates /\ d'.pc = IF x.r1 = 0 THEN "block" ELSE "end"
      /\ SameCall /\ d'.count = d.count /\ d'.buff = d.buff
  BY <1>1, <1>2, GotoFacts DEF Pcs
<1>4. /\ card' \in CardStates /\ card'.kind = card.kind /\ card'.store = card.store
      /\ Understood(d.CardType)'
      /\ x.r1 = 0 => card'.state = StateOf(cmd) /\ card'.at = d.first
  BY <1>1, <1>2, <1>3, BlocksSent
<1>5. (d.pc = "block" => InStep)'
  BY <1>1, <1>3, <1>4 DEF InStep, SameCall, Many, StateOf, DriverStates
<1>6. Copied'
  BY <1>1, <1>3, <1>4 DEF Inv, Copied, SameCall
<1> QED
  BY <1>1, <1>3, <1>4, <1>5, <1>6
     DEF Inv, InCall, InitPcs, Extent, CardKnown, InStep, SyncMeansWritten, SameCall

(* After a data block the card waits for a command, or is at the next sector. *)
LEMMA AfterOneFacts ==
  ASSUME NEW c \in CardStates, NEW one \in {"readOne", "writeOne"}, c.state = one \/ c.at < NumSectors,
         NEW a, a = AfterOne(c, one)
  PROVE  /\ a \in CardStates /\ a.kind = c.kind /\ a.store = c.store
         /\ a.busy = c.busy /\ a.present = c.present
         /\ c.state = one => a.state = "tran" /\ a.at = c.at
         /\ c.state # one => a.state = c.state /\ a.at = c.at + 1
<1>1. CASE c.state = one
  BY <1>1 DEF AfterOne, CardStates
<1>2. CASE c.state # one
  <2>1. c.at + 1 \in 0 .. NumSectors
    BY <1>2, CardAssumption DEF CardStates
  <2> QED BY <1>2, <2>1 DEF AfterOne, CardStates
<1> QED BY <1>1, <1>2

LEMMA ReceiveBlockInv == Inv /\ ReceiveBlock => Inv'
<1> SUFFICES ASSUME Inv, ReceiveBlock PROVE Inv'
  OBVIOUS
<1>1. /\ d \in DriverStates /\ card \in CardStates /\ d.op = "read" /\ d.pc = "token"
      /\ card.state \in {"readOne", "readMany"} /\ card.at = d.first + Len(d.data) - d.count
      /\ (card.state = "readMany" <=> Many)
      /\ ~d.NOINIT /\ d.count <= Len(d.data) /\ d.count > 0 /\ Len(d.buff) = Len(d.data) - d.count
      /\ d.first + Len(d.data) <= NumSectors
      /\ \A i \in 1 .. Len(d.buff) : d.buff[i] = card.store[d.first + i - 1]
      /\ Understood(d.CardType)
  BY DEF Inv, ReceiveBlock, InCall, Extent, InStep, Copied, CardKnown
<1>2. Len(d.data) \in Nat /\ d.first \in Nat /\ d.count \in Nat /\ card.at < NumSectors
  BY <1>1, CardAssumption DEF DriverStates
<1>3. card' = AfterOne(card, "readOne")
  BY DEF ReceiveBlock
<1>4. /\ card' \in CardStates /\ card'.kind = card.kind /\ card'.store = card.store
      /\ card.state = "readOne" => card'.state = "tran" /\ card'.at = card.at
      /\ card.state # "readOne" => card'.state = card.state /\ card'.at = card.at + 1
  BY <1>1, <1>2, <1>3, AfterOneFacts
<1>5. CASE d' = Goto(IF Many THEN "stop" ELSE "end")
  <2>1. /\ d' \in DriverStates /\ d'.pc \in {"stop", "end"}
        /\ SameCall /\ d'.count = d.count /\ d'.buff = d.buff
    BY <1>1, <1>5, GotoFacts DEF Pcs
  <2>2. Copied' /\ CardKnown'
    BY <1>1, <1>4, <2>1 DEF Inv, Copied, SameCall, CardKnown, Understood, ByBlock, InitPcs
  <2> QED
    BY <1>1, <1>4, <2>1, <2>2
       DEF Inv, InCall, InitPcs, Extent, InStep, SyncMeansWritten, SameCall
<1>6. CASE /\ card.at \in Sectors
           /\ d' = [d EXCEPT !.buff = Append(@, card.store[card.at]), !.count = @ - 1,
                             !.pc = CASE ~Many -> "end"
                                      [] Many /\ d.count = 1 -> "stop"
                                      [] Many /\ d.count > 1 -> "token"]
  <2> DEFINE pc == CASE ~Many -> "end"
                     [] Many /\ d.count = 1 -> "stop"
                     [] Many /\ d.count > 1 -> "token"
             word == card.store[card.at]
  <2>1. /\ pc \in {"end", "stop", "token"} /\ (pc = "token" => Many /\ d.count > 1)
    BY <1>1, <1>2
  <2>2. word \in Data /\ d.buff \in Seq(Data)
    BY <1>1, <1>6 DEF CardStates, DriverStates
  <2>3. d' = [d EXCEPT !.buff = Append(d.buff, word), !.count = d.count - 1, !.pc = pc]
    BY <1>1, <1>6 DEF DriverStates
  <2> HIDE DEF pc
  <2>4. /\ d'.buff = Append(d.buff, word) /\ d'.count = d.count - 1 /\ d'.pc = pc /\ SameCall
    BY <1>1, <2>3 DEF DriverStates, SameCall
  <2>5. d' \in DriverStates
    <3>1. Append(d.buff, word) \in Seq(Data) /\ d.count - 1 \in Nat /\ pc \in Pcs
      BY <1>1, <1>2, <2>1, <2>2 DEF Pcs
    <3> QED BY <1>1, <2>3, <3>1, Zenon DEF DriverStates
  <2>6. /\ Len(d'.buff) = Len(d'.data) - d'.count
        /\ \A i \in 1 .. Len(d'.buff) : d'.buff[i] = card'.store[d'.first + i - 1]
    <3>1. Len(d'.buff) = Len(d.buff) + 1
      BY <2>2, <2>4
    <3>2. ASSUME NEW i \in 1 .. Len(d.buff) + 1
          PROVE  d'.buff[i] = card.store[d.first + i - 1]
      <4>1. CASE i = Len(d.buff) + 1
        <5>1. d'.buff[i] = word
          BY <2>2, <2>4, <4>1
        <5>2. d.first + i - 1 = card.at
          BY <1>1, <1>2, <4>1
        <5> QED BY <5>1, <5>2
      <4>2. CASE i # Len(d.buff) + 1
        <5>1. i \in 1 .. Len(d.buff)
          BY <2>2, <4>2
        <5>2. d'.buff[i] = d.buff[i]
          BY <2>2, <2>4, <5>1
        <5> QED BY <1>1, <5>1, <5>2
      <4> QED BY <4>1, <4>2
    <3>3. d'.data = d.data /\ d'.first = d.first /\ card'.store = card.store
          /\ d'.count = d.count - 1
      BY <1>4, <2>4 DEF SameCall
    <3>4. Len(d.buff) = Len(d.data) - d.count /\ d.count \in Nat /\ Len(d.data) \in Nat
      BY <1>1, <1>2
    <3>5. Len(d'.buff) = Len(d'.data) - d'.count
      BY <3>1, <3>3, <3>4
    <3> QED BY <3>1, <3>2, <3>3, <3>5
  <2>7. Copied' /\ CardKnown'
    BY <1>1, <1>4, <2>1, <2>4, <2>6
       DEF Copied, SameCall, CardKnown, Understood, ByBlock, InitPcs
  <2>8. InStep'
    <3>1. CASE d'.pc = "token"
      <4>1. Many /\ card'.state = "readMany" /\ card'.at = card.at + 1 /\ Many'
        BY <1>1, <1>4, <2>1, <2>4, <3>1 DEF SameCall, Many
      <4>2. card'.at = d.first + Len(d.data) - (d.count - 1)
        BY <1>1, <1>2, <4>1
      <4>3. card'.at = d'.first + Len(d'.data) - d'.count
        BY <2>4, <4>2 DEF SameCall
      <4> QED BY <3>1, <4>1, <4>3 DEF InStep
    <3>2. CASE d'.pc # "token"
      BY <2>1, <2>4, <3>2 DEF InStep
    <3> QED BY <3>1, <3>2
  <2> QED
    BY <1>1, <1>2, <1>4, <2>1, <2>4, <2>5, <2>7, <2>8
       DEF Inv, InCall, InitPcs, Extent, SyncMeansWritten, SameCall
<1> QED BY <1>5, <1>6 DEF ReceiveBlock

LEMMA SendBlockInv == Inv /\ SendBlock => Inv'
<1> SUFFICES ASSUME Inv, SendBlock PROVE Inv'
  OBVIOUS
<1>1. /\ d \in DriverStates /\ card \in CardStates /\ d.op = "write" /\ d.pc = "block"
      /\ ~d.NOINIT /\ d.count <= Len(d.data) /\ d.count > 0
      /\ d.first + Len(d.data) <= NumSectors /\ d.data \in Seq(Data)
      /\ \A i \in 1 .. Len(d.data) - d.count : card.store[d.first + i - 1] = d.data[i]
      /\ Understood(d.CardType)
      /\ Receiving => /\ card.state \in {"writeOne", "writeMany"}
                      /\ card.at = d.first + Len(d.data) - d.count
                      /\ card.state = "writeMany" <=> Many
  BY DEF Inv, SendBlock, InCall, Extent, InStep, Copied, CardKnown, Receiving
<1>2. /\ Len(d.data) \in Nat /\ d.first \in Nat /\ d.count \in Nat
      /\ Receiving => card.at < NumSectors
  BY <1>1, CardAssumption DEF DriverStates
<1> DEFINE next == AfterOne(card, "writeOne")
<1>3. Receiving =>
        /\ next \in CardStates /\ next.kind = card.kind /\ next.store = card.store
        /\ card.state = "writeOne" => next.state = "tran" /\ next.at = card.at
        /\ card.state # "writeOne" => next.state = card.state /\ next.at = card.at + 1
  BY <1>1, <1>2, AfterOneFacts
<1> HIDE DEF next
<1>4. CASE /\ d' = Goto(IF Many THEN "stoptoken" ELSE "end")
           /\ (Receiving /\ card' = next) \/ card' = card
  <2>1. /\ d' \in DriverStates /\ d'.pc \in {"stoptoken", "end"}
        /\ SameCall /\ d'.count = d.count /\ d'.buff = d.buff
    BY <1>1, <1>4, GotoFacts DEF Pcs
  <2>2. /\ card' \in CardStates /\ card'.kind = card.kind /\ card'.store = card.store
        /\ Understood(d.CardType)'
    BY <1>1, <1>3, <1>4, <2>1 DEF Understood, ByBlock, SameCall
  <2>3. Copied' /\ CardKnown'
    BY <1>1, <2>1, <2>2 DEF Copied, SameCall, CardKnown, InitPcs
  <2> QED
    BY <1>1, <2>1, <2>2, <2>3
       DEF Inv, InCall, InitPcs, Extent, InStep, SyncMeansWritten, SameCall
<1>5. CASE /\ Receiving /\ card.at \in Sectors
           /\ card' = [next EXCEPT !.store[card.at] = d.data[Len(d.data) - d.count + 1],
                                   !.busy = TRUE]
           /\ d' = [d EXCEPT !.count = @ - 1,
                             !.pc = CASE ~Many -> "end"
                                      [] Many /\ d.count = 1 -> "stoptoken"
                                      [] Many /\ d.count > 1 -> "block"]
  <2> DEFINE pc == CASE ~Many -> "end"
                     [] Many /\ d.count = 1 -> "stoptoken"
                     [] Many /\ d.count > 1 -> "block"
             word == d.data[Len(d.data) - d.count + 1]
  <2>1. /\ pc \in {"end", "stoptoken", "block"} /\ (pc = "block" => Many /\ d.count > 1)
    BY <1>1, <1>2
  <2>2. word \in Data
    BY <1>1, <1>2
  <2>3. d' = [d EXCEPT !.count = d.count - 1, !.pc = pc]
    BY <1>1, <1>5 DEF DriverStates
  <2>4. /\ card' \in CardStates /\ card'.kind = card.kind /\ card'.at = next.at
        /\ card'.store = [card.store EXCEPT ![card.at] = word]
        /\ card'.state = next.state
    BY <1>3, <1>5, <2>2 DEF CardStates
  <2> HIDE DEF pc, word
  <2>5. d'.count = d.count - 1 /\ d'.pc = pc /\ SameCall
    BY <1>1, <2>3 DEF DriverStates, SameCall
  <2>6. d' \in DriverStates
    <3>1. d.count - 1 \in Nat /\ pc \in Pcs
      BY <1>1, <1>2, <2>1 DEF Pcs
    <3> QED BY <1>1, <2>3, <3>1, Zenon DEF DriverStates
  <2>7. ASSUME NEW i \in 1 .. Len(d'.data) - d'.count
        PROVE  card'.store[d'.first + i - 1] = d'.data[i]
    <3>1. i \in 1 .. Len(d.data) - d.count + 1 /\ d.first + i - 1 \in Sectors
      <4>1. i \in 1 .. Len(d.data) - (d.count - 1)
        BY <2>5 DEF SameCall
      <4>2. d.first + Len(d.data) <= NumSectors /\ d.count > 0 /\ NumSectors \in Nat
        BY <1>1, CardAssumption
      <4>3. i \in Int /\ 1 <= i /\ i <= Len(d.data) - (d.count - 1)
        BY <1>2, <4>1
      <4>4. i <= Len(d.data) - d.count + 1 /\ d.first + i - 1 \in 0 .. NumSectors - 1
        <5>1. i <= Len(d.data) - d.count + 1
          BY <1>2, <4>3
        <5>2. d.first + i - 1 >= 0
          BY <1>2, <4>3
        <5>3. d.first + i - 1 <= NumSectors - 1
          BY <1>2, <4>2, <5>1, <4>3
        <5>4. d.first + i - 1 \in Int
          BY <1>2, <4>3
        <5> QED BY <5>1, <5>2, <5>3, <5>4, <4>2
      <4> QED BY <1>2, <4>3, <4>4 DEF Sectors
    <3>2. CASE i = Len(d.data) - d.count + 1
      <4>1. d.first + i - 1 = card.at
        BY <1>1, <1>2, <1>5, <3>2
      <4> QED BY <1>1, <2>4, <2>5, <3>1, <3>2, <4>1 DEF SameCall, CardStates, word
    <3>3. CASE i # Len(d.data) - d.count + 1
      <4>1. i \in 1 .. Len(d.data) - d.count /\ d.first + i - 1 # card.at
        BY <1>1, <1>2, <1>5, <3>1, <3>3
      <4> QED BY <1>1, <2>4, <2>5, <3>1, <4>1 DEF SameCall, CardStates
    <3> QED BY <3>2, <3>3
  <2>8. Copied' /\ CardKnown'
    BY <1>1, <1>3, <1>5, <2>1, <2>4, <2>5, <2>7
       DEF Copied, SameCall, CardKnown, Understood, ByBlock, InitPcs
  <2>9. InStep'
    <3>1. CASE d'.pc = "block"
      <4>1. Many /\ card'.state = "writeMany" /\ card'.at = card.at + 1 /\ Many'
        BY <1>1, <1>3, <1>5, <2>1, <2>4, <2>5, <3>1 DEF SameCall, Many
      <4>2. card'.at = d.first + Len(d.data) - (d.count - 1)
        BY <1>1, <1>2, <1>5, <4>1
      <4>3. card'.at = d'.first + Len(d'.data) - d'.count
        BY <2>5, <4>2 DEF SameCall
      <4> QED BY <3>1, <4>1, <4>3 DEF InStep
    <3>2. CASE d'.pc # "block"
      BY <2>1, <2>5, <3>2 DEF InStep
    <3> QED BY <3>1, <3>2
  <2> QED
    BY <1>1, <1>2, <2>1, <2>4, <2>5, <2>6, <2>8, <2>9
       DEF Inv, InCall, InitPcs, Extent, SyncMeansWritten, SameCall
<1> QED BY <1>4, <1>5 DEF SendBlock, next

LEMMA StopTransmissionInv == Inv /\ StopTransmission => Inv'
<1> SUFFICES ASSUME Inv, StopTransmission PROVE Inv'
  OBVIOUS
<1>1. /\ d \in DriverStates /\ card \in CardStates /\ d.op = "read" /\ ~d.NOINIT
      /\ Understood(d.CardType)
  BY DEF Inv, StopTransmission, InCall, CardKnown
<1>2. PICK x \in SendCmd("CMD12", 0) : card' = x.card /\ d' = Goto("end")
  BY DEF StopTransmission, Response
<1>3. /\ d' \in DriverStates /\ d'.pc = "end"
      /\ SameCall /\ d'.count = d.count /\ d'.buff = d.buff
  BY <1>1, <1>2, GotoFacts DEF Pcs
<1>4. /\ card' \in CardStates /\ card'.kind = card.kind /\ card'.store = card.store
      /\ card' = card \/ card.state = "readMany"
  BY <1>1, <1>2, SendCmdFacts, StopFacts DEF Kept
<1>5. Copied' /\ CardKnown'
  BY <1>1, <1>3, <1>4
     DEF Inv, Copied, SameCall, CardKnown, Understood, ByBlock, InitPcs
<1> QED
  BY <1>1, <1>3, <1>4, <1>5
     DEF Inv, InCall, InitPcs, Extent, InStep, SyncMeansWritten, SameCall

LEMMA StopTokenInv == Inv /\ StopToken => Inv'
<1> SUFFICES ASSUME Inv, StopToken PROVE Inv'
  OBVIOUS
<1>1. /\ d \in DriverStates /\ card \in CardStates /\ d.op = "write" /\ ~d.NOINIT
      /\ Understood(d.CardType)
  BY DEF Inv, StopToken, InCall, CardKnown
<1>2. /\ d' \in DriverStates /\ d'.pc = "end"
      /\ SameCall /\ d'.count = d.count /\ d'.buff = d.buff
  BY <1>1, GotoFacts DEF Pcs, StopToken
<1>3. /\ card' \in CardStates /\ card'.kind = card.kind /\ card'.store = card.store
      /\ card' = card \/ card.state = "writeMany"
  BY <1>1 DEF StopToken, CardStates
<1>4. Copied' /\ CardKnown'
  BY <1>1, <1>2, <1>3
     DEF Inv, Copied, SameCall, CardKnown, Understood, ByBlock, InitPcs
<1> QED
  BY <1>1, <1>2, <1>3, <1>4
     DEF Inv, InCall, InitPcs, Extent, InStep, SyncMeansWritten, SameCall

LEMMA ReturnInv == Inv /\ Return => Inv'
<1> SUFFICES ASSUME Inv, Return PROVE Inv'
  OBVIOUS
<1>1. /\ d \in DriverStates /\ card \in CardStates /\ card' = card
      /\ d.op # "initialize"
  BY DEF Inv, Return, InCall
<1>2. d' = [d EXCEPT !.pc = "idle", !.op = "none", !.data = <<>>, !.buff = <<>>,
                     !.first = 0, !.count = 0]
  BY DEF Return
<1>3. <<>> \in Seq(Data) /\ <<>> \in Seq(Data \cup {"unread"}) /\ "idle" \in Pcs /\ 0 \in Nat
  BY DEF Pcs
<1>4. d' \in DriverStates
  BY <1>1, <1>2, <1>3, Zenon DEF DriverStates
<1>5. /\ d'.pc = "idle" /\ d'.op = "none" /\ d'.data = <<>> /\ d'.first = 0 /\ d'.count = 0
      /\ d'.NOINIT = d.NOINIT /\ d'.CardType = d.CardType
  BY <1>1, <1>2 DEF DriverStates
<1>6. CardKnown'
  BY <1>1, <1>5 DEF Inv, CardKnown, Understood, ByBlock, InitPcs
<1>7. Extent'
  BY <1>5, CardAssumption DEF Extent
<1> QED
  BY <1>1, <1>4, <1>5, <1>6, <1>7
     DEF Inv, InCall, InitPcs, InStep, Copied, SyncMeansWritten

LEMMA SyncInv == Inv /\ (CallSync \/ Sync) => Inv'
<1> SUFFICES ASSUME Inv, CallSync \/ Sync PROVE Inv'
  OBVIOUS
<1>1. /\ d \in DriverStates /\ card \in CardStates /\ card' = card /\ d.op # "initialize"
  BY DEF Inv, CallSync, Sync, InCall
<1>2. /\ d' \in DriverStates /\ d'.op = "sync" /\ d'.pc \in {"sync", "end"}
      /\ d'.pc = "end" => Ready
      /\ SameExtent /\ d'.NOINIT = d.NOINIT /\ d'.CardType = d.CardType
  <2>1. CASE CallSync
    BY <1>1, <2>1 DEF CallSync, DriverStates, Pcs, SameExtent
  <2>2. CASE Sync
    BY <1>1, <2>2 DEF Sync, DriverStates, Pcs, SameExtent, Inv, InCall
  <2> QED BY <2>1, <2>2
<1>3. CardKnown'
  BY <1>1, <1>2 DEF Inv, CardKnown, Understood, ByBlock, InitPcs
<1> QED
  BY <1>1, <1>2, <1>3
     DEF Inv, InCall, InitPcs, Extent, InStep, Copied, SyncMeansWritten, SameExtent, Ready

(* What happens to the card while the driver waits. *)
LEMMA CardInv == Inv /\ (CardReady \/ Remove \/ Insert) => Inv'
<1> SUFFICES ASSUME Inv, CardReady \/ Remove \/ Insert PROVE Inv'
  OBVIOUS
<1>1. d \in DriverStates /\ card \in CardStates /\ d' = d
  BY DEF Inv, CardReady, Remove, Insert
<1>2. /\ card' \in CardStates /\ card'.store = card.store
      /\ \/ card'.kind = card.kind /\ card'.state = card.state /\ card'.at = card.at
         \/ card'.state = "off"
      /\ SyncMeansWritten'
  <2>1. CASE CardReady
    BY <1>1, <2>1 DEF CardReady, CardStates, SyncMeansWritten
  <2>2. CASE Remove
    BY <1>1, <2>2 DEF Remove, CardStates, SyncMeansWritten
  <2>3. CASE Insert
    BY <1>1, <2>3 DEF Insert, CardStates, SyncMeansWritten
  <2> QED BY <2>1, <2>2, <2>3
<1>3. CardKnown'
  BY <1>1, <1>2 DEF Inv, CardKnown, Understood, ByBlock
<1> QED
  BY <1>1, <1>2, <1>3 DEF Inv, InCall, Extent, InStep, Copied, Many

-----------------------------------------------------------------------------
LEMMA InvStep == Inv /\ [Next]_vars => Inv'
<1> SUFFICES ASSUME Inv, [Next]_vars PROVE Inv'
  OBVIOUS
<1>1. CASE Calls
  BY <1>1, CallInitializeInv, SyncInv, CallReadInv, CallWriteInv DEF Calls
<1>2. CASE Driver
  BY <1>2, EnterIdleStateInv, IsSDv2Inv, LeaveIdleSDv2Inv, CheckCCSInv, IsSDv1Inv,
     LeaveIdleSDv1Inv, SetBlockLengthInv, InitializedInv, ReadCommandInv,
     ReceiveBlockInv, StopTransmissionInv, WriteCommandInv, SendBlockInv, StopTokenInv,
     SyncInv, ReturnInv DEF Driver
<1>3. CASE CardReady \/ Remove \/ Insert
  BY <1>3, CardInv
<1>4. CASE UNCHANGED vars
  BY <1>4
     DEF vars, Inv, InCall, Extent, CardKnown, Understood, ByBlock, InStep, Copied, Many,
         SyncMeansWritten
<1> QED BY <1>1, <1>2, <1>3, <1>4 DEF Next

LEMMA InvHolds == Spec => []Inv
<1>1. Init => Inv                BY InitInv
<1>2. Inv /\ [Next]_vars => Inv' BY InvStep
<1> QED BY <1>1, <1>2, PTL DEF Spec

(* The driver's locals and the card stay within the call and the card.      *)
THEOREM TypeHolds == Spec => []TypeOK
<1>1. Inv => TypeOK
  <2> SUFFICES ASSUME Inv PROVE TypeOK
    OBVIOUS
  <2>1. d \in DriverStates /\ card \in CardStates /\ Extent
    BY DEF Inv
  <2>2. d.pc \in Pcs /\ {d.CardType, d.ty} \subseteq Types
    BY <2>1 DEF DriverStates
  <2>3. d.count \in 0 .. Len(d.data) /\ Len(d.data) <= NumSectors
    BY <2>1, CardAssumption DEF DriverStates, Extent
  <2>4. card.at \in 0 .. NumSectors /\ card.store \in [Sectors -> Data]
    BY <2>1 DEF CardStates
  <2> QED BY <2>2, <2>3, <2>4 DEF TypeOK, Pcs, InitPcs, Types
<1> QED BY <1>1, InvHolds, PTL

(* When CTRL_SYNC returns the card has ended what it was busy with: no other *)
(* step comes between the wait and the return.                              *)
THEOREM SyncMeansWrittenHolds == Spec => []SyncMeansWritten
<1>1. Inv => SyncMeansWritten
  BY DEF Inv
<1> QED BY <1>1, InvHolds, PTL

(* RES_OK of a write: every block is in the sector it was meant for,        *)
(* whatever was lost, refused or taken out before.                          *)
THEOREM WriteOkHolds == Spec => []WriteOk
<1>1. Inv => WriteOk
  BY DEF Inv, WriteOk, Done, Copied, DriverStates
<1> QED BY <1>1, InvHolds, PTL

(* RES_OK of a read: the buffer holds the sectors asked for.                *)
THEOREM ReadOkHolds == Spec => []ReadOk
<1>1. Inv => ReadOk
  <2> SUFFICES ASSUME Inv, Done("read")
               PROVE  d.buff = [i \in 1 .. Len(d.data) |-> card.store[d.first + i - 1]]
    BY DEF ReadOk
  <2>1. /\ d.buff \in Seq(Data) /\ Len(d.buff) = Len(d.data)
        /\ \A i \in 1 .. Len(d.buff) : d.buff[i] = card.store[d.first + i - 1]
    BY DEF Inv, Copied, Done, DriverStates
  <2> QED BY <2>1
<1> QED BY <1>1, InvHolds, PTL

(* Only xmit_datablock() of a block that is accepted stores anything. *)
LEMMA SendBlockStores ==
  ASSUME Inv, SendBlock, NEW s \in Sectors, card'.store[s] # card.store[s]
  PROVE  s = card.at /\ Receiving
<1> DEFINE next == AfterOne(card, "writeOne")
<1>1. card \in CardStates /\ next.store = card.store
  BY DEF Inv, CardStates, AfterOne
<1>2. next \in [kind : {next.kind}, present : {next.present}, state : {next.state},
               at : {next.at}, busy : {next.busy}, slow : {next.slow},
               tries : {next.tries}, store : {card.store}]
  BY <1>1 DEF CardStates, AfterOne
<1> HIDE DEF next
<1>3. PICK word : /\ Receiving
                  /\ card' = [next EXCEPT !.store[card.at] = word, !.busy = TRUE]
  BY <1>1 DEF SendBlock, next
<1>4. card'.store = [card.store EXCEPT ![card.at] = word]
  BY <1>1, <1>2, <1>3
<1> QED BY <1>1, <1>3, <1>4 DEF CardStates

LEMMA OnlySendBlockStores ==
  ASSUME Inv, [Next]_vars, card'.store # card.store
  PROVE  SendBlock
<1>1. card \in CardStates
  BY DEF Inv
<1>2. CASE Calls \/ CardReady \/ Remove \/ Insert \/ UNCHANGED vars
  BY <1>1, <1>2
     DEF Calls, CallInitialize, CallSync, CallRead, CallWrite, CardReady, Remove, Insert,
         vars, CardStates
<1>3. CASE EnterIdleState \/ IsSDv2 \/ LeaveIdleSDv2 \/ CheckCCS \/ IsSDv1 \/ LeaveIdleSDv1
           \/ SetBlockLength \/ Initialized \/ ReadCommand \/ WriteCommand
           \/ StopTransmission
  <2>1. ASSUME NEW cmd \in {"CMD0", "CMD8", "ACMD41", "CMD1", "CMD16", "CMD58",
                            "CMD17", "CMD18", "CMD24", "CMD25", "CMD12"},
               NEW arg \in Nat, cmd \in {"CMD0", "CMD12"} => arg = 0,
               NEW x \in SendCmd(cmd, arg), card' = x.card
        PROVE  FALSE
    <3>1. Kept(card, Does(cmd, arg))
      BY <1>1, <2>1, ResetFacts, AskFacts, OperateFacts, BlocksFacts, StopFacts
    <3>2. card'.store = card.store
      BY <2>1, <3>1, SendCmdFacts DEF Kept
    <3> QED BY <3>2
  <2>2. Address(d.first) \in Nat
    BY DEF Inv, DriverStates, Address
  <2>3. d.pc = "loop" => d.cmd \in {"ACMD41", "CMD1"}
    BY DEF Inv, CardKnown
  <2>4. CASE EnterIdleState \/ IsSDv2 \/ LeaveIdleSDv2 \/ CheckCCS
    BY <2>1, <2>4 DEF EnterIdleState, IsSDv2, LeaveIdleSDv2, CheckCCS, Response, HCS
  <2>5. CASE IsSDv1 \/ LeaveIdleSDv1 \/ SetBlockLength \/ Initialized
    BY <2>1, <2>3, <2>5 DEF IsSDv1, LeaveIdleSDv1, SetBlockLength, Initialized, Response
  <2>6. CASE ReadCommand \/ WriteCommand \/ StopTransmission
    BY <2>1, <2>2, <2>6 DEF ReadCommand, WriteCommand, StopTransmission, Response
  <2> QED BY <1>3, <2>4, <2>5, <2>6
<1>4. CASE ReceiveBlock \/ StopToken \/ Sync \/ Return
  BY <1>1, <1>4 DEF ReceiveBlock, AfterOne, StopToken, Sync, Return, CardStates
<1> QED BY <1>2, <1>3, <1>4 DEF Next, Driver

(* No step changes a sector but a write that was called for it: a card that *)
(* was put in during a call, or that was taken for one of another kind, is  *)
(* not written at the wrong place.                                          *)
THEOREM OnlyAskedSectorsHolds == Spec => OnlyAskedSectors
<1> DEFINE A == \A s \in Sectors : card'.store[s] # card.store[s] =>
                  d.op = "write" /\ s \in d.first .. d.first + Len(d.data) - 1
<1>1. Inv /\ [Next]_vars => A
  <2> SUFFICES ASSUME Inv, [Next]_vars,
                      NEW s \in Sectors, card'.store[s] # card.store[s]
               PROVE  d.op = "write" /\ s \in d.first .. d.first + Len(d.data) - 1
    OBVIOUS
  <2>1. SendBlock
    BY OnlySendBlockStores
  <2>2. s = card.at /\ Receiving
    BY <2>1, SendBlockStores
  <2>3. /\ d.op = "write" /\ d.count > 0 /\ d.count <= Len(d.data)
        /\ card.at = d.first + Len(d.data) - d.count
        /\ d.first \in Nat /\ d.count \in Nat /\ Len(d.data) \in Nat
    BY <2>1, <2>2 DEF Inv, InCall, Extent, InStep, SendBlock, Receiving, DriverStates
  <2> QED BY <2>2, <2>3
<1> QED BY <1>1, InvHolds, PTL DEF OnlyAskedSectors, Spec

=============================================================================
