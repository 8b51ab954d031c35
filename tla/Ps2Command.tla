----------------------------- MODULE Ps2Command -----------------------------
(***************************************************************************)
(* The command protocol of ps2keyboard.c: ps2init() in the program, the    *)
(* Timer5 interrupt every 100us (T5Handler), the CLK interrupt (CNHandler) *)
(* that shifts a command byte out, the DMA channel that records the line   *)
(* for the next T5Handler, and the keyboard at the other end.              *)
(*                                                                         *)
(* A byte is a name.  A frame from the keyboard is FrameTicks groups of    *)
(* edges, at most one group in 100us; its bits are left out.  Timeouts are *)
(* counted in T5 interrupts, as in the code.                               *)
(***************************************************************************)
EXTENDS Integers, Sequences

CONSTANTS
  PS2TIME_CLKDOWN, PS2TIME_PRESEND, PS2TIME_CMDTIMEOUT, PS2TIME_ACKTIMEOUT,
  PS2TIME_BATTIMEOUT, PS2TIME_INIT, PS2TIME_RECEIVETIMEOUT,
  FrameTicks,       \* groups of edges in a frame (T5 periods it takes)
  LockKeys,         \* NumLock, ScrollLock: keys the user presses, once each
  MaxBad,           \* frames that arrive with a parity or stop bit error
  MaxLost,          \* frames that lose an edge
  MaxSilent,        \* command bytes the keyboard does not take or not answer
  MaxResend,        \* command bytes the keyboard asks to have sent again
  MaxSlow           \* periods of Timer5 the keyboard lets pass before it acts

ASSUME TimesAssumption ==
  \A t \in {PS2TIME_CLKDOWN, PS2TIME_PRESEND, PS2TIME_CMDTIMEOUT,
            PS2TIME_ACKTIMEOUT, PS2TIME_BATTIMEOUT, PS2TIME_INIT,
            PS2TIME_RECEIVETIMEOUT} : t \in Nat /\ t > 0
(* A frame (660us at least) outlasts PS2TIME_PRESEND (200us) and one more   *)
(* period of Timer5.                                                        *)
ASSUME FrameAssumption == FrameTicks \in Nat /\ FrameTicks > PS2TIME_PRESEND + 1

VARIABLES
  h,        \* the driver's globals and the port registers it drives
  edges,    \* edges the DMA has recorded since dma_readpt
  main,     \* where ps2init() is
  dev,      \* the keyboard
  budget    \* what the user and the line may still do

vars == <<h, edges, main, dev, budget>>

(* What the keyboard sends: the bytes ps2receive() takes for responses      *)
(* (0x00, 0xAA, 0xEE, 0xFA and above) and the make codes of lock keys.      *)
Responses == {"ACK", "RESEND", "BAT", "ODD"}
ASSUME KeysAssumption == LockKeys \cap (Responses \cup {"bad", "none"}) = {}

(* What the host sends; the byte after SETLED carries the LEDs to light.    *)
Byte(name) == [name |-> name, leds |-> {}]
LedByte(leds) == [name |-> "LEDS", leds |-> leds]
Phases == {"0", "INIT", "SENDSTART", "WAIT100us", "SENDING", "WAITACK", "WAITBAT"}

(* An unsigned count that was decremented past 0. *)
Wrapped == 99
Minus1(n) == IF n = 0 THEN Wrapped ELSE n - 1

-----------------------------------------------------------------------------
(* ps2receive(), one group of edges at a time.  receivecount: 0 between     *)
(* frames, 1 in a frame, 2 in a frame whose bits are counted from the wrong *)
(* edge.                                                                    *)
Got(g, b) ==
  IF b \in Responses
  THEN [g EXCEPT !.receivecount = 0, !.ps2receivecommand = b]
  ELSE [g EXCEPT !.receivecount = 0, !.scancodebuf = Append(@, b)]

Error(g) == [g EXCEPT !.ps2receiveError = TRUE]

(* What a misplaced bit count can make of the end of a frame. *)
Misread(g) ==
  {Error(g), g} \cup {Got(g, b) : b \in {"ODD"} \cup LockKeys}

Receive(g, e) ==
  CASE g.ps2receiveError -> {g}
    [] ~g.ps2receiveError /\ e.kind = "start" ->
         IF g.receivecount = 0
         THEN {[g EXCEPT !.receivecount = 1, !.ps2receivetime = 0]}
         ELSE {[g EXCEPT !.receivecount = 2]}
    [] ~g.ps2receiveError /\ e.kind = "bits" ->
         IF g.receivecount = 0
         THEN {Error(g), [g EXCEPT !.receivecount = 2, !.ps2receivetime = 0]}
         ELSE {g}
    [] ~g.ps2receiveError /\ e.kind = "end" ->
         CASE g.receivecount = 1 /\ e.byte # "bad" -> {Got(g, e.byte)}
           [] g.receivecount = 1 /\ e.byte = "bad" -> {Error(g)}
           [] g.receivecount = 2 -> Misread(g)
           [] g.receivecount = 0 ->
                {Error(g), [g EXCEPT !.receivecount = 2, !.ps2receivetime = 0]}

(* getps2DMABUFdata(): every edge recorded so far. *)
GetDMABUFdata(g) == IF edges = <<>> THEN {g} ELSE Receive(g, edges[1])

-----------------------------------------------------------------------------
(* ps2command() as the interrupt runs it: nothing can come between.         *)
Command(g, bytes) ==
  IF g.ps2status # "0" THEN g
  ELSE [g EXCEPT !.clkint = FALSE, !.dma = FALSE,
                 !.ps2receivecommand = "none",
                 !.ps2sendcomdata = bytes, !.ps2sendcombyte = Len(bytes),
                 !.ps2sendError = FALSE,
                 !.ps2status = "SENDSTART",
                 !.ps2statuscount = PS2TIME_PRESEND]

(* Faulty variant: the LEDs before the key. *)
SetLeds_Dark(g) == <<Byte("SETLED"), LedByte({})>>
SetLeds(g) == <<Byte("SETLED"), LedByte(g.lock)>>
Sent(g) == Head(g.ps2sendcomdata).name    \* the low byte of ps2sendcomdata

(* ps2statusprogress(), one operator for each phase, after the count down.  *)
Finish(g) == [g EXCEPT !.ps2status = "0"]
Enter(g, phase, time) == [g EXCEPT !.ps2status = phase, !.ps2statuscount = time]

ProgressInit(g) == IF g.ps2statuscount = 0 THEN Finish(g) ELSE g

(* Faulty variant: the DMA keeps recording. *)
ProgressSendStart_DmaOn(g) ==
  IF g.ps2statuscount # 0 THEN g
  ELSE [Enter(g, "WAIT100us", PS2TIME_CLKDOWN) EXCEPT
          !.clkint = FALSE, !.clklow = TRUE,
          !.receivecount = 0, !.ps2sending = TRUE]

ProgressSendStart(g) ==
  IF g.ps2statuscount # 0 THEN g
  ELSE [Enter(g, "WAIT100us", PS2TIME_CLKDOWN) EXCEPT
          !.clkint = FALSE, !.dma = FALSE, !.clklow = TRUE,
          !.receivecount = 0, !.ps2sending = TRUE]

ProgressWait100us(g) ==
  IF g.ps2statuscount # 0 THEN g
  ELSE [Enter(g, "SENDING", PS2TIME_CMDTIMEOUT) EXCEPT
          !.clklow = FALSE, !.clkint = TRUE]

(* Faulty variant: the time that runs out does not turn the DMA on again. *)
ProgressSending_Deaf(g) ==
  CASE ~g.ps2sending /\ Sent(g) = "RESEND" -> Finish(g)
    [] ~g.ps2sending /\ Sent(g) # "RESEND" ->
         [Enter(g, "WAITACK", PS2TIME_ACKTIMEOUT) EXCEPT !.ps2receiveError = FALSE]
    [] g.ps2sending /\ g.ps2statuscount = 0 ->
         [Finish(g) EXCEPT !.ps2sendError = TRUE, !.ps2sending = FALSE,
                           !.clkint = FALSE]
    [] OTHER -> g

ProgressSending(g) ==
  CASE ~g.ps2sending /\ Sent(g) = "RESEND" -> Finish(g)
    [] ~g.ps2sending /\ Sent(g) # "RESEND" ->
         [Enter(g, "WAITACK", PS2TIME_ACKTIMEOUT) EXCEPT !.ps2receiveError = FALSE]
    [] g.ps2sending /\ g.ps2statuscount = 0 ->
         [Finish(g) EXCEPT !.ps2sendError = TRUE, !.ps2sending = FALSE,
                           !.clkint = FALSE, !.dma = TRUE]
    [] OTHER -> g

SendAgain(g) ==
  [Enter(g, "SENDSTART", PS2TIME_PRESEND) EXCEPT !.ps2sending = TRUE]

(* Faulty variants: the answer is not cleared; after an ACK the same byte    *)
(* goes out again.                                                          *)
ProgressWaitAck_Stale(g) ==
  CASE g.ps2receivecommand = "ACK" /\ Sent(g) = "RESET" ->
         [Enter(g, "WAITBAT", PS2TIME_BATTIMEOUT) EXCEPT
            !.ps2sendcombyte = 0, !.ps2receivecommand = "none"]
    [] g.ps2receivecommand = "ACK" /\ Sent(g) # "RESET" ->
         IF g.ps2sendcombyte > 1
         THEN SendAgain([g EXCEPT !.ps2sendcombyte = @ - 1, !.ps2sendcomdata = Tail(@)])
         ELSE [Finish(g) EXCEPT !.ps2sendcombyte = 0]
    [] OTHER -> g

ProgressWaitAck_SameByte(g0) ==
  LET g == [g0 EXCEPT !.ps2receivecommand = "none"]
  IN CASE g0.ps2receivecommand = "ACK" /\ Sent(g) = "RESET" ->
            Enter(g, "WAITBAT", PS2TIME_BATTIMEOUT)
       [] g0.ps2receivecommand = "ACK" /\ Sent(g) # "RESET" ->
            IF g.ps2sendcombyte > 1 THEN SendAgain(g) ELSE Finish(g)
       [] OTHER -> g

ProgressWaitAck(g0) ==
  LET g == [g0 EXCEPT !.ps2receivecommand = "none"]
      answer == g0.ps2receivecommand
  IN CASE answer = "RESEND" -> SendAgain(g)
       [] answer = "ACK" /\ Sent(g) = "RESET" ->
            [Enter(g, "WAITBAT", PS2TIME_BATTIMEOUT) EXCEPT
               !.ps2sendcombyte = 0, !.ps2receiveError = FALSE]
       [] (answer = "ACK" /\ Sent(g) # "RESET")
            \/ answer \in {"BAT", "ODD"} ->
            IF g.ps2sendcombyte > 1
            THEN SendAgain([g EXCEPT !.ps2sendcombyte = @ - 1,
                                     !.ps2sendcomdata = Tail(@)])
            ELSE [Finish(g) EXCEPT !.ps2sendcombyte = 0]
       [] answer = "none" /\ g.ps2statuscount = 0 ->
            [Finish(g) EXCEPT !.ps2sendError = TRUE, !.ps2sendcombyte = 0]
       [] OTHER -> g

ProgressWaitBat(g) ==
  CASE g.ps2receivecommand # "none" ->
         [Finish(g) EXCEPT !.ps2receivecommand = "none",
            !.ps2sendError = @ \/ g.ps2receivecommand # "BAT"]
    [] g.ps2receivecommand = "none" /\ g.ps2statuscount = 0 ->
         [Finish(g) EXCEPT !.ps2sendError = TRUE]
    [] OTHER -> g

StatusProgress(g0) ==
  LET g == [g0 EXCEPT !.ps2statuscount = Minus1(@)]
  IN CASE g.ps2status = "0" -> g0
       [] g.ps2status = "INIT" -> ProgressInit(g)
       [] g.ps2status = "SENDSTART" -> ProgressSendStart(g)
       [] g.ps2status = "WAIT100us" -> ProgressWait100us(g)
       [] g.ps2status = "SENDING" -> ProgressSending(g)
       [] g.ps2status = "WAITACK" -> ProgressWaitAck(g)
       [] g.ps2status = "WAITBAT" -> ProgressWaitBat(g)

(* The rest of T5Handler: the receive timeout, the resend request, one key. *)
ReceiveTimeout(g) ==
  IF g.receivecount = 0 THEN g
  ELSE [g EXCEPT !.ps2receivetime = @ + 1,
          !.receivecount = IF g.ps2receivetime + 1 > PS2TIME_RECEIVETIMEOUT
                           THEN 0 ELSE @]

(* Faulty variant: the error is cleared and nothing asked for. *)
RequestResend_Forgets(g) == [g EXCEPT !.ps2receiveError = FALSE]

RequestResend(g) ==
  IF ~g.ps2receiveError THEN g
  ELSE Command([g EXCEPT !.ps2receiveError = FALSE], <<Byte("RESEND")>>)

(* readscancode() of a lock key: the first make code of the press turns the *)
(* lock over and has the LEDs follow, a repeated one does nothing.          *)
ReadScanCode(g) ==
  IF g.scancodebuf = <<>> THEN g
  ELSE LET rest == [g EXCEPT !.scancodebuf = Tail(@)]
           k == [rest EXCEPT !.lock = @ \cup {Head(g.scancodebuf)}]
       IN IF Head(g.scancodebuf) \in g.lock THEN rest ELSE Command(k, SetLeds(k))

T5(g) == ReadScanCode(RequestResend(ReceiveTimeout(StatusProgress(g))))

-----------------------------------------------------------------------------
(* The keyboard.  frame: groups of the frame in progress already sent,      *)
(* sent: it has sent one in this period of Timer5,                          *)
(* replies, keys: bytes it wants to send, replies first, last: the last one *)
(* it sent, leds, arg: it waits for the LEDs byte, bat: it has sent BAT     *)
(* since its last reset.                                                    *)
Requested == h.ps2status = "SENDING" /\ h.ps2sending /\ ~h.clklow
LineFree == ~h.clklow /\ ~Requested
Waiting == dev.replies # <<>> \/ dev.keys # <<>>
Outgoing == IF dev.replies # <<>> THEN Head(dev.replies) ELSE Head(dev.keys)

Init ==
  /\ h = [ps2status |-> "INIT", ps2statuscount |-> PS2TIME_INIT,
          ps2sendcomdata |-> <<>>, ps2sendcombyte |-> 0,
          ps2sending |-> FALSE, ps2sendError |-> FALSE,
          receivecount |-> 0, ps2receivetime |-> 0, ps2receiveError |-> FALSE,
          ps2receivecommand |-> "none", scancodebuf |-> <<>>, lock |-> {},
          dma |-> FALSE, clkint |-> FALSE, clklow |-> TRUE]
  /\ edges = <<>>
  /\ main = [pc |-> "spin", bytes |-> <<>>, preempted |-> FALSE]
  /\ dev = [frame |-> 0, sent |-> FALSE, replies |-> <<>>, keys |-> <<>>,
            last |-> "ACK", leds |-> {}, arg |-> FALSE, bat |-> FALSE]
  /\ budget = [keys |-> LockKeys, bad |-> MaxBad, lost |-> MaxLost,
               silent |-> MaxSilent, resend |-> MaxResend, slow |-> MaxSlow]

(* The DMA channel records a group of edges while it is enabled. *)
Record(kind, byte) ==
  edges' = IF h.dma THEN <<[kind |-> kind, byte |-> byte]>> ELSE edges

Spend(what) == /\ budget[what] > 0
               /\ budget' = [budget EXCEPT ![what] = @ - 1]

PressLock(k) ==
  /\ k \in budget.keys
  /\ budget' = [budget EXCEPT !.keys = @ \ {k}]
  /\ dev' = [dev EXCEPT !.keys = Append(@, k)]
  /\ UNCHANGED <<h, edges, main>>

SendStart ==
  /\ LineFree /\ ~dev.sent /\ dev.frame = 0 /\ Waiting
  /\ dev' = [dev EXCEPT !.frame = 1, !.sent = TRUE]
  /\ Record("start", "none")
  /\ UNCHANGED <<h, main, budget>>

SendBits ==
  /\ LineFree /\ ~dev.sent /\ dev.frame \in 1 .. FrameTicks - 2
  /\ dev' = [dev EXCEPT !.frame = @ + 1, !.sent = TRUE]
  /\ Record("bits", "none")
  /\ UNCHANGED <<h, main, budget>>

SendEnd ==
  /\ LineFree /\ ~dev.sent /\ dev.frame = FrameTicks - 1
  /\ dev' = [dev EXCEPT !.frame = 0, !.sent = TRUE, !.last = Outgoing,
                        !.replies = IF @ # <<>> THEN Tail(@) ELSE @,
                        !.keys = IF dev.replies # <<>> THEN @ ELSE Tail(@),
                        !.bat = @ \/ Outgoing = "BAT"]
  /\ \/ Record("end", Outgoing) /\ UNCHANGED budget
     \/ Record("end", "bad") /\ Spend("bad")
     \/ UNCHANGED edges /\ Spend("lost")
  /\ UNCHANGED <<h, main>>

(* Faulty variant: the DMA stays off. *)
SendDone_Deaf(g) == [g EXCEPT !.ps2sending = FALSE, !.clkint = FALSE]

(* CNHandler, ps2send() at the last edge of a byte the keyboard clocked in. *)
SendDone(g) ==
  [g EXCEPT !.ps2sending = FALSE, !.clkint = FALSE, !.dma = TRUE]

(* What the keyboard does with a byte from the host: a reply takes the place *)
(* of one not yet sent; keys wait.                                          *)
Reply(bytes) == [dev EXCEPT !.replies = bytes]

TakeByte(b) ==
  CASE b.name = "RESET" ->
         [Reply(<<"ACK", "BAT">>) EXCEPT !.leds = {}, !.arg = FALSE, !.bat = FALSE]
    [] b.name = "SETLED" -> [Reply(<<"ACK">>) EXCEPT !.arg = TRUE]
    [] b.name = "LEDS" ->
         IF dev.arg
         THEN [Reply(<<"ACK">>) EXCEPT !.leds = b.leds, !.arg = FALSE]
         ELSE Reply(<<"RESEND">>)
    [] b.name = "RESEND" ->
         IF dev.last \in LockKeys
         THEN [dev EXCEPT !.keys = <<dev.last>> \o @]
         ELSE [dev EXCEPT !.replies = <<dev.last>> \o @]

ClockIn ==
  /\ Requested /\ h.clkint
  /\ LET b == Head(h.ps2sendcomdata) IN
       \/ dev' = TakeByte(b) /\ UNCHANGED budget
       \/ dev' = Reply(<<"RESEND">>) /\ Spend("resend")
       \/ UNCHANGED dev /\ Spend("silent")
  /\ h' = SendDone(h)
  /\ UNCHANGED <<edges, main>>

-----------------------------------------------------------------------------
(* Timer5 comes at most once while ps2command() runs in the program, and    *)
(* not before the program has seen ps2status fall to 0.                     *)
InCall == main.pc \in {"call", "drain", "fill", "status", "count"}
TickAllowed ==
  /\ ~(InCall /\ main.preempted)
  /\ ~(main.pc = "spin" /\ h.ps2status = "0")

(* The keyboard clocks its next group of edges, or takes a byte, within a   *)
(* period, except for MaxSlow periods in all.                               *)
KeyboardDue ==
  \/ LineFree /\ ~dev.sent /\ (dev.frame > 0 \/ Waiting)
  \/ Requested /\ h.clkint
Lag == IF KeyboardDue THEN Spend("slow") ELSE UNCHANGED budget

(* The host pulls CLK low: the keyboard drops its frame and will repeat it. *)
Period(g) == [dev EXCEPT !.sent = FALSE,
                         !.frame = IF g.clklow THEN 0 ELSE @]

T5Handler ==
  /\ TickAllowed
  /\ \E g \in GetDMABUFdata(h) :
       /\ h' = T5(g)
       /\ dev' = Period(h')
  /\ edges' = <<>>
  /\ main' = [main EXCEPT !.preempted = InCall]
  /\ Lag

(* CNHandler (priority 6) cuts into T5Handler (priority 4) between its test *)
(* of ps2sending and what it does for the time that has run out.            *)
LastClockInTimeout ==
  /\ TickAllowed /\ Requested /\ h.clkint /\ h.ps2statuscount = 1
  /\ h' = T5(h)
  /\ dev' = TakeByte(Head(h.ps2sendcomdata))
  /\ main' = [main EXCEPT !.preempted = InCall]
  /\ UNCHANGED <<edges, budget>>

-----------------------------------------------------------------------------
(* ps2init() in the program.  It waits while ps2status is not 0, then calls *)
(* ps2command() step by step: first RESET, then SETLED.                     *)
Call(bytes) == [pc |-> "call", bytes |-> bytes, preempted |-> FALSE]
Return(pc) == [main EXCEPT !.pc = pc, !.preempted = FALSE]

(* while(ps2status) ; if(ps2sendError) return -1; *)
Spin ==
  /\ main.pc = "spin" /\ h.ps2status = "0"
  /\ main' = CASE main.bytes = <<>> -> Call(<<Byte("RESET")>>)
               [] main.bytes # <<>> /\ h.ps2sendError -> Return("failed")
               [] main.bytes # <<>> /\ ~h.ps2sendError ->
                    IF Len(main.bytes) = 1 THEN Call(SetLeds(h)) ELSE Return("ok")
  /\ UNCHANGED <<h, edges, dev, budget>>

CallGivesUp ==
  /\ main.pc = "call"
  /\ main' = IF h.ps2status # "0" THEN Return("spin") ELSE [main EXCEPT !.pc = "drain"]
  /\ UNCHANGED <<h, edges, dev, budget>>

Drain ==
  /\ main.pc = "drain"
  /\ h' \in GetDMABUFdata([h EXCEPT !.clkint = FALSE, !.dma = FALSE])
  /\ edges' = <<>>
  /\ main' = [main EXCEPT !.pc = "fill"]
  /\ UNCHANGED <<dev, budget>>

Fill ==
  /\ main.pc = "fill"
  /\ h' = [h EXCEPT !.ps2receivecommand = "none", !.ps2sendError = FALSE,
                    !.ps2sendcomdata = main.bytes,
                    !.ps2sendcombyte = Len(main.bytes)]
  /\ main' = [main EXCEPT !.pc = "status"]
  /\ UNCHANGED <<edges, dev, budget>>

SetStatus ==
  /\ main.pc = "status"
  /\ h' = [h EXCEPT !.ps2status = "SENDSTART"]
  /\ main' = [main EXCEPT !.pc = "count"]
  /\ UNCHANGED <<edges, dev, budget>>

SetCount ==
  /\ main.pc = "count"
  /\ h' = [h EXCEPT !.ps2statuscount = PS2TIME_PRESEND]
  /\ main' = Return("spin")
  /\ UNCHANGED <<edges, dev, budget>>

Program == Spin \/ CallGivesUp \/ Drain \/ Fill \/ SetStatus \/ SetCount
Keyboard == SendStart \/ SendBits \/ SendEnd \/ ClockIn
Next == \/ Program \/ Keyboard \/ T5Handler \/ LastClockInTimeout
        \/ \E k \in LockKeys : PressLock(k)

Spec == Init /\ [][Next]_vars

(* Timer5 keeps ticking and the processor runs the program in between; the  *)
(* keyboard acts in time but for MaxSlow periods.                           *)
FairSpec == Spec /\ WF_vars(Program \/ Keyboard \/ T5Handler)

-----------------------------------------------------------------------------
TypeOK ==
  /\ h.ps2status \in Phases
  /\ h.ps2statuscount \in Nat /\ h.ps2sendcombyte \in 0 .. 2
  /\ {h.ps2sending, h.ps2sendError, h.ps2receiveError, h.dma, h.clkint, h.clklow}
       \subseteq BOOLEAN
  /\ h.receivecount \in 0 .. 2
  /\ h.ps2receivecommand \in Responses \cup {"none"}
  /\ h.scancodebuf \in Seq(LockKeys) /\ h.lock \subseteq LockKeys
  /\ Len(edges) <= 1
  /\ main.pc \in {"spin", "call", "drain", "fill", "status", "count", "ok", "failed"}
  /\ dev.frame \in 0 .. FrameTicks - 1

(* Between commands the driver listens: DMA on, CLK released, no CLK        *)
(* interrupt, no byte half sent.  (A driver left otherwise is deaf to every *)
(* key from then on.)                                                       *)
IdleListens ==
  h.ps2status = "0" /\ main.bytes # <<>> /\ main.pc \in {"spin", "ok", "failed"} =>
    h.dma /\ ~h.clkint /\ ~h.clklow /\ ~h.ps2sending

(* The DMA never records the edges of a byte the host itself sends, or of   *)
(* the host pulling CLK low.                                                *)
NoEcho == h.dma => ~h.clklow /\ ~Requested

(* An ACK that the next interrupt finds and acts on is the keyboard's answer *)
(* to the byte the driver sent last, not to an earlier one: the keyboard has *)
(* done what the byte asks, and no second ACK is on its way.                *)
AckMeansTaken ==
  \A g \in GetDMABUFdata(h) :
    g.ps2status = "WAITACK" /\ g.ps2receivecommand = "ACK" =>
      LET b == Head(g.ps2sendcomdata) IN
        /\ b.name = "SETLED" => dev.arg
        /\ b.name = "LEDS" => ~dev.arg /\ dev.leds = b.leds
        /\ \A i \in 1 .. Len(dev.replies) : dev.replies[i] # "ACK"

(* Every command ends, with an error or without. *)
CommandEnds == h.ps2status # "0" ~> h.ps2status = "0"

(* A lock key that is pressed turns its lock over. *)
KeyArrives == \A k \in LockKeys : k \notin budget.keys ~> k \in h.lock

(* A key whose frame arrives broken between commands is asked for again and *)
(* does arrive, unless another fault follows.                               *)
NoOtherFault ==
  <<budget.lost, budget.silent, budget.resend, budget.slow>>
    = <<MaxLost, MaxSilent, MaxResend, MaxSlow>>
BadKeyIsResent ==
  \A k \in LockKeys :
    (/\ main.pc \in {"ok", "failed"} /\ h.ps2status = "0" /\ h.receivecount = 1
     /\ dev.last = k /\ edges = <<[kind |-> "end", byte |-> "bad"]>>
     /\ NoOtherFault)
      ~> k \in h.lock \/ ~NoOtherFault

(* The LEDs come to show the locks. *)
LedsFollowLocks == <>[](dev.leds = h.lock)
=============================================================================
